----------------------------- MODULE TailerText -----------------------------
(***************************************************************************)
(* How FileTailer::poll (log/tailer.rs) turns bytes into lines: a read     *)
(* returns some bytes, each chunk is decoded on its own, and the last      *)
(* piece is held back in partial_line.  FileTailer.tla has the rest of a   *)
(* poll, and there a line's text is never cut.                             *)
(*                                                                         *)
(* The game writes valid UTF-8.                                            *)
(***************************************************************************)
EXTENDS TextLines

CONSTANTS
  MaxBytes,           \* bytes of the log, at most
  ReadBufferCapacity  \* READ_BUFFER_CAPACITY

VARIABLES
  log,           \* the bytes of the log so far
  position,      \* how many of them were read
  partial_line,  \* the line held back
  pushed,        \* history: the lines that went to push_line
  flushed        \* flush() was called

vars == <<log, position, partial_line, pushed, flushed>>

Init ==
  /\ log = <<>>
  /\ position = 0
  /\ partial_line = <<>>
  /\ pushed = <<>>
  /\ flushed = FALSE

MidCharacter == log # <<>> /\ Last(log) = "lead"

(* The game writes a byte.                                                 *)
Write ==
  /\ Len(log) < MaxBytes
  /\ \E byte \in IF MidCharacter THEN {"trail"} ELSE Ascii \cup {"lead"} :
       log' = Append(log, byte)
  /\ UNCHANGED <<position, partial_line, pushed, flushed>>

(* Mutant: the leftover is put behind the chunk.                           *)
LeftoverLast(chunk) == from_utf8_lossy(chunk) \o partial_line

(* The chunk, decoded, with the leftover of the previous one before it.    *)
Combined(chunk) == partial_line \o from_utf8_lossy(chunk)

(* One read of at most READ_BUFFER_CAPACITY bytes.                         *)
Read ==
  /\ ~flushed
  /\ \E n \in 1 .. ReadBufferCapacity :
       /\ position + n <= Len(log)
       /\ position' = position + n
       /\ LET pieces == split(Combined(SubSeq(log, position + 1, position + n)))
          IN  /\ pushed' = pushed \o
                   [k \in 1 .. Len(pieces) - 1 |-> StripCr(pieces[k])]
              /\ partial_line' = Last(pieces)
  /\ UNCHANGED <<log, flushed>>

(* flush() pushes the line held back as it is; reading is over.            *)
Flush ==
  /\ ~flushed
  /\ pushed' = IF partial_line = <<>> THEN pushed
               ELSE Append(pushed, partial_line)
  /\ partial_line' = <<>>
  /\ flushed' = TRUE
  /\ UNCHANGED <<log, position>>

Next == Write \/ Read \/ Flush

Spec == Init /\ [][Next]_vars

-----------------------------------------------------------------------------
(* What of the log was read, as a whole.                                   *)
ReadText == from_utf8_lossy(SubSeq(log, 1, position))

(* Wherever the reads cut the bytes, between '\r' and '\n' or inside a     *)
(* wider character, the lines are those of the whole text and their ASCII  *)
(* characters, all that header and JSON detection look at, are the same.   *)
AsciiOfLinesSurvives ==
  LET expected == IF flushed THEN lines(ReadText) ELSE CompletedLines(ReadText)
  IN  /\ Len(pushed) = Len(expected)
      /\ \A k \in DOMAIN expected :
           AsciiOf(pushed[k]) = AsciiOf(expected[k])

(* A complete line of a valid log holds no U+FFFD: only "invalid sequences *)
(* are replaced" (tailer.rs, poll).                                        *)
OnlyInvalidReplaced ==
  ~flushed => \A k \in DOMAIN pushed : "replacement" \notin ToSet(pushed[k])
=============================================================================

-------------------------- MODULE StreamingParser --------------------------
(***************************************************************************)
(* StreamingParserCore of wasm.rs: the log comes in chunks, cut anywhere,  *)
(* and the lines that go to the line buffer are those that parse_whole_log *)
(* (lib.rs) takes from the whole text.  What the line buffer and the       *)
(* router make of a line depends on the lines before it only, so equal     *)
(* lines give equal events.                                                *)
(***************************************************************************)
EXTENDS TextLines

CONSTANTS
  MaxText,  \* characters of a log, at most
  MaxChunk  \* characters of a chunk, at most

VARIABLES
  text,     \* history: what was pushed since the parser was new or finished
  tail,     \* the incomplete last line
  pushed,   \* history: the lines of this text that went to push_line
  finished  \* finish() was called last

vars == <<text, tail, pushed, finished>>

Character == {"char", "cr", "nl"}

Init ==
  /\ text = <<>>
  /\ tail = <<>>
  /\ pushed = <<>>
  /\ finished = FALSE

(* Every piece but the last is a complete line.                            *)
CompleteLines(pieces) == [k \in 1 .. Len(pieces) - 1 |-> StripCr(pieces[k])]

(* A chunk may be empty, and then is a no-op; after finish() it begins the *)
(* next text.                                                              *)
push_chunk(chunk) ==
  LET pieces == split(tail \o chunk)
      before == IF finished THEN <<>> ELSE pushed
  IN  /\ text' = (IF finished THEN <<>> ELSE text) \o chunk
      /\ IF chunk = <<>>
         THEN tail' = tail /\ pushed' = before
         ELSE tail' = Last(pieces) /\ pushed' = before \o CompleteLines(pieces)
      /\ finished' = FALSE

(* Mutant: the tail loses a lone '\r'.                                     *)
StripTail == IF tail = <<>> THEN <<>> ELSE <<StripCr(tail)>>

(* The tail becomes the last line, unless it is empty, just as it is.      *)
TailLine == IF tail = <<>> THEN <<>> ELSE <<tail>>

finish ==
  /\ pushed' = pushed \o TailLine
  /\ tail' = <<>>
  /\ finished' = TRUE
  /\ UNCHANGED text

Next ==
  \/ \E chunk \in SeqOf(Character, MaxChunk) :
       /\ finished \/ Len(text) + Len(chunk) <= MaxText
       /\ push_chunk(chunk)
  \/ finish

Spec == Init /\ [][Next]_vars

-----------------------------------------------------------------------------
(* However the text is cut, what was pushed so far is every line that is   *)
(* complete, and nothing else; after finish() it is the lines of the whole *)
(* text ("push_chunk replicates str::lines byte-for-byte", wasm.rs): with  *)
(* "\r\n" cut in two, empty chunks, and a lone '\r' at the end.            *)
LinesOfTextSoFar ==
  IF finished THEN pushed = lines(text)
  ELSE pushed = CompletedLines(text) /\ tail = Remainder(text)
=============================================================================

----------------------------- MODULE FileTailer -----------------------------
(***************************************************************************)
(* The file tailer of log/tailer.rs beside a game that appends to the log, *)
(* stays silent, or replaces the log by a new file.  A poll is not atomic: *)
(* it asks for the size and the mtime of the file at the path, may reopen  *)
(* it, and reads in chunks, and the game may write between any two steps.  *)
(*                                                                         *)
(* The game's lines are numbered from 1 over all files.  A line is written *)
(* in two pieces, its text and its newline; a piece is the unit of sizes   *)
(* and offsets.  The clock ticks in large steps compared with a poll.      *)
(***************************************************************************)
EXTENDS Naturals, Sequences, SequencesExt

CONSTANTS
  ReadBufferCapacity, \* READ_BUFFER_CAPACITY, in pieces
  JumpThreshold,      \* MTIME_JUMP_THRESHOLD_SECS, in ticks
  Kind,               \* what each line is to the line buffer
  MaxLines,           \* lines the game writes, at most
  MaxFiles,           \* files it writes them to, at most
  MaxClock,           \* ticks, at most
  MaxPause,           \* ticks the game stays silent, at most
  MinReplaced         \* pieces a log holds when it is moved away, at least

LineKind == {"single", "multi", "text", "closing"}

ASSUME KindAssumption == Kind \in [1 .. MaxLines -> LineKind]
ASSUME BoundsAssumption ==
  /\ {ReadBufferCapacity, JumpThreshold} \subseteq Nat \ {0}
  /\ {MaxLines, MaxFiles, MaxClock, MaxPause, MinReplaced} \subseteq Nat

VARIABLES
  from_start, \* the caller chose open_from_start (TRUE) or open (FALSE),
  once,       \* and run_once (TRUE) or the polling loop (FALSE)
  files,     \* every log so far: its first line, its size, its mtime
  path,      \* the log at the path, 0 while there is none
  written,   \* the lines the game has begun
  clock,     \* the time
  polled,    \* a poll began since the game or the clock last did something
  tailer,    \* where the tailer is
  handle,    \* the open file and the position in it
  offset,
  last_mtime,    \* None is the empty set
  last_rotation, \* it is Some
  partial_line,  \* the lines whose text it holds: none, or one
  line_buffer,   \* the lines of the entry in progress
  total,         \* total_bytes_read of the running poll
  entries,       \* the entries of the running poll
  sent,          \* history: the entries and rotations handed on
  replaced       \* history: the open log was replaced at the path

modeVars   == <<from_start, once>>
gameVars   == <<files, path, written, clock, polled>>
openVars   == <<handle, offset>>
rotateVars == <<last_mtime, last_rotation, replaced>>
lineVars   == <<partial_line, line_buffer, entries>>
vars == <<modeVars, gameVars, tailer, openVars, rotateVars, lineVars, total,
          sent>>

TailerState == {"closed", "opened", "seeking", "idle", "reopening",
                "reading", "flushing", "stopped", "failed"}

(* The piece at a position of a log, from 1 on.                            *)
PieceAt(log, position) ==
  [line |-> log.first + (position - 1) \div 2,
   part |-> IF position % 2 = 1 THEN "text" ELSE "newline"]

NewLog == [first |-> written + 1, size |-> 0, mtime |-> clock]

(* A one-shot stream opens the log from its start (stream.rs, start_once). *)
Init ==
  /\ from_start \in BOOLEAN
  /\ once \in BOOLEAN
  /\ once => from_start
  /\ files = <<[first |-> 1, size |-> 0, mtime |-> 0]>>
  /\ path = 1
  /\ written = 0
  /\ clock = 0
  /\ polled = FALSE
  /\ tailer = "closed"
  /\ handle = [file |-> 0, position |-> 0]
  /\ offset = 0
  /\ last_mtime = {}
  /\ last_rotation = FALSE
  /\ partial_line = <<>>
  /\ line_buffer = <<>>
  /\ total = 0
  /\ entries = <<>>
  /\ sent = <<>>
  /\ replaced = FALSE

-----------------------------------------------------------------------------
(* The game and the clock.                                                 *)

Log == files[path]

(* A log that is not the open one gets as long as what was read of that    *)
(* one, and the mtime has jumped.                                          *)
AsLongAfterPause ==
  /\ handle.file # path
  /\ Log.size + 1 = offset
  /\ \E previous \in last_mtime : clock > previous + JumpThreshold

(* The next piece: the text of a new line, or the newline of the last one. *)
(* Assumed: until the tailer noticed a new log, that log shows one of the  *)
(* two signals (see README, what the tailer cannot notice).                *)
Write ==
  /\ path # 0
  /\ Log.size % 2 = 0 => written < MaxLines
  /\ replaced => Log.size + 1 < offset \/ AsLongAfterPause
  /\ files' = [files EXCEPT ![path] =
                 [first |-> @.first, size |-> @.size + 1, mtime |-> clock]]
  /\ written' = IF Log.size % 2 = 0 THEN written + 1 ELSE written
  /\ polled' = FALSE
  /\ UNCHANGED <<modeVars, path, clock, tailer, openVars, rotateVars,
                 lineVars, total, sent>>

CanReplace == path # 0 /\ Len(files) < MaxFiles /\ Log.size >= MinReplaced

(* The game restarts and moves its old log away ...                        *)
MoveAway ==
  /\ CanReplace
  /\ path' = 0
  /\ replaced' = (handle.file # 0)
  /\ polled' = FALSE
  /\ UNCHANGED <<modeVars, files, written, clock, tailer, openVars,
                 last_mtime, last_rotation, lineVars, total, sent>>

(* ... and creates a new one.                                              *)
Create ==
  /\ path = 0
  /\ files' = Append(files, NewLog)
  /\ path' = Len(files) + 1
  /\ polled' = FALSE
  /\ UNCHANGED <<modeVars, written, clock, tailer, openVars, rotateVars,
                 lineVars, total, sent>>

(* Or it truncates the log, which holds something and of which a handle    *)
(* open on it has read something: that handle now reads the new log, from  *)
(* the position it has.                                                    *)
Truncate ==
  /\ CanReplace
  /\ Log.size > 0
  /\ handle.file = path => handle.position > 0
  /\ files' = Append(files, NewLog)
  /\ path' = Len(files) + 1
  /\ handle' = IF handle.file = path
               THEN [file |-> path', position |-> handle.position]
               ELSE handle
  /\ replaced' = (handle.file # 0)
  /\ polled' = FALSE
  /\ UNCHANGED <<modeVars, written, clock, tailer, offset, last_mtime,
                 last_rotation, lineVars, total, sent>>

(* Time passes, for at most MaxPause ticks without a write.  Polls are     *)
(* frequent compared with ticks: whatever the game did before this tick is *)
(* followed by a whole poll, from its first step to its last.              *)
Tick ==
  /\ clock < MaxClock
  /\ tailer = "closed" \/ (tailer = "idle" /\ polled)
  /\ path # 0 => clock < Log.mtime + MaxPause
  /\ clock' = clock + 1
  /\ polled' = FALSE
  /\ UNCHANGED <<modeVars, files, path, written, tailer, openVars, rotateVars,
                 lineVars, total, sent>>

-----------------------------------------------------------------------------
(* Opening.                                                                *)

(* File::open; an absent file is an error and nothing is started.          *)
Open ==
  /\ tailer = "closed"
  /\ path # 0
  /\ handle' = [file |-> path, position |-> 0]
  /\ tailer' = "opened"
  /\ UNCHANGED <<modeVars, gameVars, offset, rotateVars, lineVars, total,
                 sent>>

(* The initial mtime is that of the path, which may be another log by now, *)
(* or none.                                                                *)
InitialMtime ==
  /\ tailer = "opened"
  /\ last_mtime' = IF path = 0 THEN {} ELSE {Log.mtime}
  /\ tailer' = IF from_start THEN "idle" ELSE "seeking"
  /\ UNCHANGED <<modeVars, gameVars, openVars, last_rotation, replaced,
                 lineVars, total, sent>>

SeekEnd ==
  /\ tailer = "seeking"
  /\ handle' = [handle EXCEPT !.position = files[handle.file].size]
  /\ offset' = files[handle.file].size
  /\ tailer' = "idle"
  /\ UNCHANGED <<modeVars, gameVars, rotateVars, lineVars, total, sent>>

-----------------------------------------------------------------------------
(* A poll: check_rotation, then reads until one returns nothing.           *)

(* check_rotation returns early: nothing was read from this file yet, or   *)
(* none is at the path.                                                    *)
NoCheck ==
  /\ tailer = "idle"
  /\ offset = 0 \/ path = 0
  /\ tailer' = "reading"
  /\ polled' = TRUE
  /\ UNCHANGED <<modeVars, files, path, written, clock, openVars, rotateVars,
                 lineVars, total, sent>>

(* Mutant: a log that has not grown is taken for a new one.                *)
ShrunkOrSame == offset > 0 /\ Log.size <= offset

(* Mutants: one of the two signals is not looked at.                       *)
OnlyShrunk == Log.size < offset

OnlyMtimeJump ==
  /\ Log.size <= offset
  /\ \E previous \in last_mtime : Log.mtime > previous + JumpThreshold

(* The two signals, as the metadata of the path shows them.                *)
Rotated ==
  \/ Log.size < offset
  \/ /\ Log.size <= offset
     /\ \E previous \in last_mtime : Log.mtime > previous + JumpThreshold

CheckRotation ==
  /\ tailer = "idle"
  /\ offset # 0
  /\ path # 0
  /\ last_mtime' = {Log.mtime}
  /\ tailer' = IF Rotated THEN "reopening" ELSE "reading"
  /\ polled' = TRUE
  /\ UNCHANGED <<modeVars, files, path, written, clock, openVars,
                 last_rotation, replaced, lineVars, total, sent>>

(* Mutants: a rotation leaves the offset, the partial line or the line     *)
(* buffer of the old log.                                                  *)
KeepOffset == /\ partial_line' = <<>>
              /\ line_buffer' = <<>>
              /\ UNCHANGED offset
KeepPartialLine == /\ offset' = 0
                   /\ line_buffer' = <<>>
                   /\ UNCHANGED partial_line
KeepLineBuffer == /\ offset' = 0
                  /\ partial_line' = <<>>
                  /\ UNCHANGED line_buffer

ResetForNewFile == /\ offset' = 0
                   /\ partial_line' = <<>>
                   /\ line_buffer' = <<>>

(* After an error the polling loop has handed on the entries of the earlier *)
(* polls; run_once returns the error and none of what it collected.        *)
Kept == IF once THEN <<>> ELSE sent

(* The log is opened again; one that is gone by now ends the tailer.       *)
Reopen ==
  /\ tailer = "reopening"
  /\ \/ /\ path = 0
        /\ tailer' = "failed"
        /\ sent' = Kept
        /\ UNCHANGED <<modeVars, openVars, partial_line, line_buffer,
                       last_rotation, replaced>>
     \/ /\ path # 0
        /\ handle' = [file |-> path, position |-> 0]
        /\ ResetForNewFile
        /\ last_rotation' = TRUE
        /\ replaced' = FALSE
        /\ tailer' = "reading"
        /\ UNCHANGED sent
  /\ UNCHANGED <<modeVars, gameVars, last_mtime, entries, total>>

(* How the line buffer takes a line, named by the lines it holds text of.  *)
KindOf(line) == IF line = <<>> THEN "text" ELSE Kind[Head(line)]

InProgress(s) == IF s.buffer = <<>> THEN <<>> ELSE <<s.buffer>>

PushLine(s) ==
  LET kind == KindOf(s.partial)
      longer == IF s.buffer = <<>> THEN <<>> ELSE Append(s.buffer, s.partial)
  IN  [partial |-> <<>>,
       buffer  |-> CASE kind = "multi" -> <<s.partial>>
                     [] kind = "text"  -> longer
                     [] OTHER          -> <<>>,
       out     |-> CASE kind = "single"  -> s.out \o InProgress(s)
                                                  \o <<<<s.partial>>>>
                     [] kind = "multi"   -> s.out \o InProgress(s)
                     [] kind = "closing" -> s.out \o InProgress(
                                              [s EXCEPT !.buffer = longer])
                     [] OTHER            -> s.out]

(* A piece of a chunk: text is held back, a newline ends a line.           *)
Feed(s, piece) ==
  IF piece.part = "text" THEN [s EXCEPT !.partial = Append(@, piece.line)]
                         ELSE PushLine(s)

FeedAll(s, pieces) ==
  LET after[i \in 0 .. Len(pieces)] ==
        IF i = 0 THEN s ELSE Feed(after[i - 1], pieces[i])
  IN  after[Len(pieces)]

Chunk(n) == [i \in 1 .. n |-> PieceAt(files[handle.file], handle.position + i)]

(* Mutant: the leftover of the previous chunk is not prepended.            *)
DropLeftover == [partial |-> <<>>, buffer |-> line_buffer, out |-> entries]

Leftover == [partial |-> partial_line, buffer |-> line_buffer, out |-> entries]

(* One read: a chunk of what the file holds behind the position.           *)
ReadChunk ==
  /\ tailer = "reading"
  /\ \E n \in 1 .. ReadBufferCapacity :
       /\ handle.position + n <= files[handle.file].size
       /\ LET s == FeedAll(Leftover, Chunk(n))
          IN  /\ partial_line' = s.partial
              /\ line_buffer' = s.buffer
              /\ entries' = s.out
       /\ handle' = [handle EXCEPT !.position = @ + n]
       /\ total' = total + n
  /\ UNCHANGED <<modeVars, gameVars, tailer, offset, rotateVars, sent>>

(* A read fails: the entries of the poll are lost with it.                 *)
ReadError ==
  /\ tailer = "reading"
  /\ tailer' = "failed"
  /\ entries' = <<>>
  /\ sent' = Kept
  /\ UNCHANGED <<modeVars, gameVars, openVars, rotateVars, partial_line,
                 line_buffer, total>>

(* What the router gets for a rotation.                                    *)
Rotation == <<>>

(* What a poll hands on: the one-shot tailer takes no rotation.            *)
PollItems ==
  IF last_rotation /\ ~once THEN <<Rotation>> \o entries ELSE entries

(* Mutant: the one-shot tailer never finds the end.                        *)
NeverAtEnd == "idle"

(* The one-shot tailer polls until a poll returns no entry.                *)
AfterPoll == IF once /\ entries = <<>> THEN "flushing" ELSE "idle"

(* A read returns nothing: the poll ends and its entries are handed on.    *)
EndPoll ==
  /\ tailer = "reading"
  /\ handle.position >= files[handle.file].size
  /\ offset' = offset + total
  /\ total' = 0
  /\ sent' = sent \o PollItems
  /\ last_rotation' = (last_rotation /\ once)
  /\ entries' = <<>>
  /\ tailer' = AfterPoll
  /\ UNCHANGED <<modeVars, gameVars, handle, last_mtime, replaced,
                 partial_line, line_buffer>>

(* Shutdown, or the end of the one-shot read: flush() pushes the partial   *)
(* line and drains the line buffer.                                        *)
Stop ==
  /\ tailer = "flushing" \/ (tailer = "idle" /\ ~once)
  /\ LET s == IF partial_line = <<>> THEN Leftover ELSE PushLine(Leftover)
     IN  sent' = sent \o s.out \o InProgress(s)
  /\ partial_line' = <<>>
  /\ line_buffer' = <<>>
  /\ tailer' = "stopped"
  /\ UNCHANGED <<modeVars, gameVars, openVars, rotateVars, entries, total>>

-----------------------------------------------------------------------------
Game    == Write \/ MoveAway \/ Create \/ Truncate \/ Tick
Opening == Open \/ InitialMtime \/ SeekEnd
Poll    == NoCheck \/ CheckRotation \/ Reopen \/ ReadChunk \/ EndPoll

(* Nothing is left to do; not an action of the code.                       *)
Terminated == tailer \in {"stopped", "failed"} /\ UNCHANGED vars

Next == Game \/ Opening \/ Poll \/ ReadError \/ Stop \/ Terminated

Spec == Init /\ [][Next]_vars

(* The interval timer keeps ticking and file operations return.            *)
FairSpec == Spec /\ WF_vars(Poll) /\ WF_vars(tailer = "flushing" /\ Stop)

-----------------------------------------------------------------------------
(* What the tailer has handed on or holds, in order, each line as the      *)
(* game's lines whose text it holds.                                       *)
Items == sent \o entries \o InProgress(Leftover)

LinesIn(items) == UNION {ToSet(item) : item \in ToSet(items)}

(* A line that reaches an entry holds the text of one line of the game,    *)
(* whole, wherever the chunks, the polls and the rotations cut the log.    *)
LinesAreWhole == \A line \in LinesIn(Items) : Len(line) = 1

Earlier(line, other) == \A x \in ToSet(line), y \in ToSet(other) : x < y

InLogOrder(items) ==
  \A i, j \in DOMAIN items :
    \A k \in DOMAIN items[i], l \in DOMAIN items[j] :
      (i < j \/ (i = j /\ k < l)) => Earlier(items[i][k], items[j][l])

(* Entries are handed on in the order the game wrote them and none twice,  *)
(* over all files.                                                         *)
EntriesInLogOrder == InLogOrder(Items)

(* The log a line was written to.                                          *)
FileOf(line) ==
  CHOOSE f \in DOMAIN files :
    /\ files[f].first <= line
    /\ \A g \in DOMAIN files : files[g].first <= line => g <= f

FilesOf(entry) ==
  {FileOf(line) : line \in UNION {ToSet(l) : l \in ToSet(entry)}}

(* An entry never mixes two logs, and between the entries of two logs the  *)
(* rotation is handed on: what tracks a session can reset in time.  The    *)
(* one-shot tailer hands on entries only.                                  *)
RotationSeparatesFiles ==
  /\ \A i \in DOMAIN sent : \A f, g \in FilesOf(sent[i]) : f = g
  /\ \A i, j \in DOMAIN sent :
       (~once /\ i < j /\ sent[i] # Rotation /\ sent[j] # Rotation
              /\ FilesOf(sent[i]) # FilesOf(sent[j]))
         => \E k \in i .. j : sent[k] = Rotation

(* Between polls the offset is the position of the open file, "the         *)
(* position from which the next poll will read" (tailer.rs, offset).       *)
OffsetIsPosition ==
  tailer \in {"idle", "flushing", "stopped"} => offset = handle.position

(* A header line the tailer has read from a log it reads from the start is *)
(* in an entry, whole or in progress, until the tailer fails or the log is *)
(* truncated under its handle, whose position is then behind the end.      *)
NothingSkipped ==
  (/\ from_start
   /\ tailer # "failed"
   /\ handle.file # 0
   /\ handle.position <= files[handle.file].size) =>
    \A p \in 1 .. handle.position :
      LET piece == PieceAt(files[handle.file], p)
      IN  (piece.part = "newline" /\ Kind[piece.line] \in {"single", "multi"})
            => <<piece.line>> \in LinesIn(Items)

(* A rotation is reported only when the log was replaced since it was      *)
(* opened: "Player.log was replaced" (events.rs, LogFileRotated).          *)
RotationsAreReal == [][~last_rotation /\ last_rotation' => replaced]_vars

(* Once the game is silent the tailer has read the log at the path to its  *)
(* end, whichever file that now is.                                        *)
CatchesUp ==
  <>[](\/ tailer \in {"closed", "opened", "seeking", "stopped", "failed"}
       \/ path = 0
       \/ Log.size = 0
       \/ handle = [file |-> path, position |-> Log.size])

(* The one-shot read ends, however the game's writes fall between and      *)
(* within its polls, once the game has no more to write: "Polls until no   *)
(* new complete entries are returned" (tailer.rs, run_once) does not end   *)
(* beside a game that completes an entry in every poll.                    *)
OneShotEnds == (once /\ tailer = "idle") ~> tailer \in {"stopped", "failed"}
=============================================================================

------------------------- MODULE FileTailer_proofs -------------------------
(***************************************************************************)
(* What the tailer hands on, for every size of the read buffer, every log  *)
(* and every way the game writes and replaces it, in three parts:          *)
(*   - its positions: the offset that check_rotation compares with the     *)
(*     size of the log is the position of the open file, and what it takes *)
(*     for a rotation is one, whatever PushLine does to lines;             *)
(*   - the lines of one read;                                              *)
(*   - the entries, over all reads, polls and logs.                        *)
(***************************************************************************)
EXTENDS FileTailer, Walks, TLAPS

LogRecord == [first : Nat, size : Nat, mtime : Nat]

(* The game's logs and the tailer's numbers have their types, and an open  *)
(* handle is on one of the logs.                                           *)
PositionsOK ==
  /\ files \in Seq(LogRecord)
  /\ path \in 0 .. Len(files)
  /\ written \in Nat
  /\ clock \in Nat
  /\ tailer \in TailerState
  /\ handle \in [file : 0 .. Len(files), position : Nat]
  /\ tailer # "closed" => handle.file # 0
  /\ offset \in Nat
  /\ total \in Nat

(* What the running poll has read is the distance from offset to position; *)
(* before a seek both are at the start.                                    *)
Accounted ==
  /\ tailer \in {"closed", "opened", "seeking"} =>
       offset = 0 /\ total = 0 /\ handle.position = 0
  /\ tailer \in {"idle", "reopening", "flushing", "stopped"} =>
       total = 0 /\ handle.position = offset
  /\ tailer \in {"reading", "failed"} => handle.position = offset + total

IInv == PositionsOK /\ Accounted

-----------------------------------------------------------------------------
(* A log written to or added leaves the logs well typed.                   *)
LEMMA LogsGrow ==
  ASSUME files \in Seq(LogRecord), written \in Nat, clock \in Nat
  PROVE  /\ Append(files, NewLog) \in Seq(LogRecord)
         /\ Len(Append(files, NewLog)) = Len(files) + 1
         /\ \A p \in 1 .. Len(files) :
              LET f == [files EXCEPT ![p] =
                          [first |-> @.first, size |-> @.size + 1,
                           mtime |-> clock]]
              IN  f \in Seq(LogRecord) /\ Len(f) = Len(files)
<1>1. NewLog \in LogRecord
  BY DEF NewLog, LogRecord
<1>2. ASSUME NEW p \in 1 .. Len(files)
      PROVE  LET f == [files EXCEPT ![p] =
                         [first |-> @.first, size |-> @.size + 1,
                          mtime |-> clock]]
             IN  f \in Seq(LogRecord) /\ Len(f) = Len(files)
  <2>1. files[p] \in LogRecord
    OBVIOUS
  <2>2. [first |-> files[p].first, size |-> files[p].size + 1,
         mtime |-> clock] \in LogRecord
    BY <2>1 DEF LogRecord
  <2> QED BY <2>2
<1> QED BY <1>1, <1>2

(* The game's steps leave offset, position and the poll alone.             *)
LEMMA GamePreserves == IInv /\ Game => IInv'
<1> SUFFICES ASSUME IInv, Game PROVE IInv'
  OBVIOUS
<1> USE DEF IInv, PositionsOK
<1>1. CASE Write
  <2>1. path \in 1 .. Len(files)
    BY <1>1 DEF Write
  <2>2. files' \in Seq(LogRecord) /\ Len(files') = Len(files)
    BY <1>1, <2>1, LogsGrow DEF Write
  <2>3. written' \in Nat
    BY <1>1 DEF Write
  <2> QED BY <1>1, <2>2, <2>3 DEF Write, Accounted, openVars
<1>2. CASE MoveAway
  BY <1>2 DEF MoveAway, Accounted, openVars
<1>3. CASE Create
  BY <1>3, LogsGrow DEF Create, Accounted, openVars
<1>4. CASE Truncate
  <2>1. files' \in Seq(LogRecord) /\ Len(files') = Len(files) + 1
    BY <1>4, LogsGrow DEF Truncate
  <2>2. /\ handle' \in [file : 0 .. Len(files'), position : Nat]
        /\ handle'.position = handle.position
        /\ handle.file # 0 => handle'.file # 0
    BY <1>4, <2>1 DEF Truncate
  <2> QED BY <1>4, <2>1, <2>2 DEF Truncate, Accounted
<1>5. CASE Tick
  BY <1>5 DEF Tick, Accounted, openVars
<1> QED BY <1>1, <1>2, <1>3, <1>4, <1>5 DEF Game

(* Opening starts at 0, or seeks with nothing read.                        *)
LEMMA OpeningPreserves == IInv /\ Opening => IInv'
<1> SUFFICES ASSUME IInv, Opening PROVE IInv'
  OBVIOUS
<1> USE DEF IInv, PositionsOK, gameVars
<1>1. CASE Open
  BY <1>1 DEF Open, Accounted, TailerState
<1>2. CASE InitialMtime
  BY <1>2 DEF InitialMtime, Accounted, TailerState, openVars
<1>3. CASE SeekEnd
  <2>1. handle.file \in 1 .. Len(files)
    BY <1>3 DEF SeekEnd
  <2>2. files[handle.file] \in LogRecord
    BY <2>1
  <2>3. files[handle.file].size \in Nat
    BY <2>2 DEF LogRecord
  <2> QED BY <1>3, <2>3 DEF SeekEnd, Accounted, TailerState
<1> QED BY <1>1, <1>2, <1>3 DEF Opening

(* A read moves the position and total_bytes_read alike; a rotation puts   *)
(* all three back to the start; the end of a poll adds the total.          *)
LEMMA PollPreserves == IInv /\ Poll => IInv'
<1> SUFFICES ASSUME IInv, Poll PROVE IInv'
  OBVIOUS
<1> USE DEF IInv, PositionsOK, gameVars
<1>1. CASE NoCheck
  BY <1>1 DEF NoCheck, Accounted, TailerState, openVars
<1>2. CASE CheckRotation
  BY <1>2 DEF CheckRotation, Accounted, TailerState, openVars
<1>3. CASE Reopen
  BY <1>3 DEF Reopen, ResetForNewFile, Accounted, TailerState, openVars
<1>4. CASE ReadChunk
  <2>1. PICK n \in 1 .. ReadBufferCapacity :
          /\ handle' = [handle EXCEPT !.position = @ + n]
          /\ total' = total + n
    BY <1>4 DEF ReadChunk
  <2>2. n \in Nat
    BY BoundsAssumption
  <2>3. /\ handle'.file = handle.file
        /\ handle'.position = handle.position + n
        /\ handle' \in [file : 0 .. Len(files), position : Nat]
    BY <2>1, <2>2
  <2>4. PositionsOK'
    <3>1. UNCHANGED <<files, path, written, clock, tailer, offset>>
      BY <1>4 DEF ReadChunk
    <3>2. total' \in Nat
      BY <2>1, <2>2
    <3> QED
      BY <2>3, <3>1, <3>2
  <2>5. Accounted'
    <3>1. tailer = "reading" /\ tailer' = tailer /\ offset' = offset
      BY <1>4 DEF ReadChunk
    <3>2. handle.position = offset + total
      BY <3>1 DEF Accounted
    <3>3. handle'.position = offset' + total'
      BY <2>1, <2>2, <2>3, <3>1, <3>2
    <3> QED
      BY <3>1, <3>3 DEF Accounted
  <2> QED BY <2>4, <2>5
<1>5. CASE EndPoll
  BY <1>5 DEF EndPoll, AfterPoll, Accounted, TailerState
<1> QED BY <1>1, <1>2, <1>3, <1>4, <1>5 DEF Poll

(* An error and a stop leave all three alone.                              *)
LEMMA EndPreserves == IInv /\ (ReadError \/ Stop) => IInv'
<1> USE DEF IInv, PositionsOK, gameVars, openVars, Accounted, TailerState
<1>1. IInv /\ ReadError => IInv'
  BY DEF ReadError
<1>2. IInv /\ Stop => IInv'
  BY DEF Stop
<1> QED BY <1>1, <1>2

(* IInv is inductive.                                                      *)
THEOREM Invariance == Spec => []IInv
<1>1. Init => IInv
  BY DEF Init, IInv, PositionsOK, Accounted, TailerState, LogRecord
<1>2. IInv /\ [Next]_vars => IInv'
  <2>1. IInv /\ UNCHANGED vars => IInv'
    BY DEF IInv, PositionsOK, Accounted, vars, gameVars, openVars
  <2> QED
    BY <2>1, GamePreserves, OpeningPreserves, PollPreserves, EndPreserves
    DEF Next, Terminated
<1> QED BY <1>1, <1>2, PTL DEF Spec

(* The offset with which a poll looks for a rotation is the position from  *)
(* which it would read (tailer.rs, offset and check_rotation).             *)
THEOREM OffsetCorrect == Spec => []OffsetIsPosition
<1>1. IInv => OffsetIsPosition
  BY DEF IInv, Accounted, OffsetIsPosition
<1> QED BY <1>1, Invariance, PTL

-----------------------------------------------------------------------------
(* The first line that a log cannot hold: the one behind its last.         *)
Beyond(f) == files[f].first + (files[f].size + 1) \div 2

(* A log ends before the next one begins, and the last one with the line   *)
(* the game wrote last; the log at the path is the newest.                 *)
LogsOK ==
  /\ Len(files) >= 1
  /\ (path = 0 \/ path = Len(files))
  /\ \A f \in DOMAIN files : files[f].first >= 1 /\ Beyond(f) <= written + 1
  /\ \A f, g \in DOMAIN files : f < g => Beyond(f) <= files[g].first
  /\ written <= MaxLines

(* A line begins with every second piece.                                  *)
LEMMA Halves ==
  /\ \A n \in Nat : (n + 1) \div 2 \in Nat
  /\ \A n \in Nat : n % 2 = 0 => (n + 1 + 1) \div 2 = (n + 1) \div 2 + 1
  /\ \A n \in Nat : n % 2 # 0 => (n + 1 + 1) \div 2 = (n + 1) \div 2
  /\ \A n \in Nat : n % 2 # 0 => (n + 1) % 2 = 0
  /\ \A n \in Nat : n % 2 = 0 => (n + 1) % 2 # 0
  /\ \A n, m \in Nat : n <= m => (n + 1) \div 2 <= (m + 1) \div 2
  /\ \A n \in Nat : n % 2 = 0 => (n + 1) \div 2 = n \div 2
  OBVIOUS

(* A write adds a piece to the log at the path and leaves the others.      *)
LEMMA WriteGrows ==
  ASSUME IInv, Write
  PROVE  /\ path \in DOMAIN files
         /\ Len(files') = Len(files) /\ DOMAIN files' = DOMAIN files
         /\ \A f \in DOMAIN files :
              /\ files[f].first \in Nat /\ files[f].size \in Nat
              /\ files'[f].first = files[f].first
              /\ f # path => files'[f] = files[f]
         /\ files'[path].size = files[path].size + 1
         /\ files'[path].mtime = clock
<1> USE DEF IInv, PositionsOK
<1>1. path \in DOMAIN files
  BY DEF Write
<1>2. files' = [files EXCEPT ![path] =
                 [first |-> files[path].first, size |-> files[path].size + 1,
                  mtime |-> clock]]
  BY DEF Write
<1>3. \A f \in DOMAIN files : files[f] \in LogRecord
  OBVIOUS
<1>4. \A f \in DOMAIN files : files[f].first \in Nat /\ files[f].size \in Nat
  BY <1>3 DEF LogRecord
<1>5. DOMAIN files' = DOMAIN files /\ Len(files') = Len(files)
  BY <1>2
<1>6. files'[path] = [first |-> files[path].first,
                      size |-> files[path].size + 1, mtime |-> clock]
  BY <1>1, <1>2
<1>7. \A f \in DOMAIN files : f # path => files'[f] = files[f]
  BY <1>2
<1> QED
  BY <1>1, <1>4, <1>5, <1>6, <1>7

(* A new log leaves the others as they are.                                *)
LEMMA AppendGrows ==
  ASSUME IInv, files' = Append(files, NewLog)
  PROVE  /\ Len(files') = Len(files) + 1
         /\ DOMAIN files' = DOMAIN files \cup {Len(files) + 1}
         /\ \A f \in DOMAIN files :
              /\ files[f].first \in Nat /\ files[f].size \in Nat
              /\ files'[f] = files[f]
         /\ files'[Len(files) + 1] = NewLog
         /\ Len(files) \in Nat /\ Len(files) + 1 \notin DOMAIN files
<1> USE DEF IInv, PositionsOK
<1>3. \A f \in DOMAIN files : files[f] \in LogRecord
  OBVIOUS
<1>4. \A f \in DOMAIN files : files[f].first \in Nat /\ files[f].size \in Nat
  BY <1>3 DEF LogRecord
<1> QED
  BY <1>4

(* What is written keeps the logs apart.                                   *)
LEMMA LogsWritten == IInv /\ LogsOK /\ Write => LogsOK'
<1> SUFFICES ASSUME IInv, LogsOK, Write PROVE LogsOK'
  OBVIOUS
<1>1. /\ path \in DOMAIN files
         /\ Len(files') = Len(files) /\ DOMAIN files' = DOMAIN files
         /\ \A f \in DOMAIN files :
              /\ files[f].first \in Nat /\ files[f].size \in Nat
              /\ files'[f].first = files[f].first
              /\ f # path => files'[f] = files[f]
         /\ files'[path].size = files[path].size + 1
  BY WriteGrows
<1>2. /\ written \in Nat /\ MaxLines \in Nat /\ path = Len(files)
      /\ path' = path
      /\ written' = IF files[path].size % 2 = 0 THEN written + 1 ELSE written
      /\ files[path].size % 2 = 0 => written < MaxLines
      /\ DOMAIN files = 1 .. Len(files)
  BY <1>1, BoundsAssumption DEF Write, IInv, PositionsOK, LogsOK, Log
<1>3. \A f \in DOMAIN files : f # path => Beyond(f)' = Beyond(f)
  BY <1>1 DEF Beyond
<1> PICK last : last = path
  OBVIOUS
<1>4. Beyond(last)' = IF files[path].size % 2 = 0 THEN Beyond(last) + 1
                                                  ELSE Beyond(last)
  <2>1. /\ files'[last].first = files[last].first
        /\ files'[last].size = files[last].size + 1
        /\ files[last].size \in Nat /\ files[last].first \in Nat
    BY <1>1
  <2>2. Beyond(last)' = files[last].first + (files[last].size + 1 + 1) \div 2
    BY <2>1 DEF Beyond
  <2> QED
    BY <2>1, <2>2, Halves DEF Beyond
<1>5. \A f \in DOMAIN files : Beyond(f) \in Nat
  BY <1>1, Halves DEF Beyond
<1>6. written' <= MaxLines /\ written' >= written /\ written' \in Nat
  BY <1>2 DEF LogsOK
<1>7. \A f \in DOMAIN files' :
        files'[f].first >= 1 /\ Beyond(f)' <= written' + 1
  BY <1>1, <1>2, <1>3, <1>4, <1>5, <1>6 DEF LogsOK
<1>8. \A f, g \in DOMAIN files' : f < g => Beyond(f)' <= files'[g].first
  <2> TAKE f, g \in DOMAIN files'
  <2> HAVE f < g
  <2>1. f # path
    BY <1>1, <1>2
  <2> QED
  BY <1>1, <1>3, <2>1 DEF LogsOK
<1> QED
  BY <1>1, <1>2, <1>6, <1>7, <1>8 DEF LogsOK

(* So does every step.                                                     *)
LEMMA LogsStep == IInv /\ LogsOK /\ [Next]_vars => LogsOK'
<1> SUFFICES ASSUME IInv, LogsOK, [Next]_vars PROVE LogsOK'
  OBVIOUS
<1>1. CASE Write
  BY <1>1, LogsWritten
<1>2. CASE Create \/ Truncate
  <2>1. /\ files' = Append(files, NewLog) /\ path' = Len(files) + 1
        /\ written' = written
    BY <1>2 DEF Create, Truncate
  <2>2. /\ Len(files') = Len(files) + 1
        /\ DOMAIN files' = DOMAIN files \cup {Len(files) + 1}
        /\ \A f \in DOMAIN files :
             files[f].first \in Nat /\ files[f].size \in Nat
             /\ files'[f] = files[f]
        /\ files'[Len(files) + 1] = NewLog
        /\ Len(files) \in Nat /\ Len(files) + 1 \notin DOMAIN files
        /\ DOMAIN files = 1 .. Len(files)
    BY <2>1, AppendGrows DEF IInv, PositionsOK
  <2>3. written \in Nat /\ NewLog.first = written + 1 /\ NewLog.size = 0
    BY DEF IInv, PositionsOK, NewLog
  <2>4. \A f \in DOMAIN files : Beyond(f)' = Beyond(f)
    BY <2>2 DEF Beyond
  <2> PICK new : new = Len(files) + 1
    OBVIOUS
  <2>5. Beyond(new)' = written + 1
    <3>1. files'[new].first = written + 1 /\ files'[new].size = 0
      BY <2>2, <2>3
    <3> QED
      BY <2>3, <3>1 DEF Beyond
  <2>6. \A f, g \in DOMAIN files' : f < g => Beyond(f)' <= files'[g].first
    <3> TAKE f, g \in DOMAIN files'
    <3> HAVE f < g
    <3>1. f \in DOMAIN files
      BY <2>2
    <3> QED
      BY <2>2, <2>3, <2>4, <3>1 DEF LogsOK
  <2>7. \A f \in DOMAIN files' :
          files'[f].first >= 1 /\ Beyond(f)' <= written' + 1
    <3> TAKE f \in DOMAIN files'
    <3>1. CASE f = new
      BY <2>1, <2>2, <2>3, <2>5, <3>1
    <3>2. CASE f \in DOMAIN files
      BY <2>1, <2>2, <2>4, <3>2 DEF LogsOK
    <3> QED
      BY <2>2, <3>1, <3>2
  <2>8. Len(files') >= 1 /\ path' = Len(files') /\ written' <= MaxLines
    BY <2>1, <2>2 DEF LogsOK
  <2> QED
    BY <2>6, <2>7, <2>8 DEF LogsOK
<1>3. CASE UNCHANGED <<files, written>> /\ path' \in {0, path}
  BY <1>3 DEF LogsOK, Beyond
<1> QED
  BY <1>1, <1>2, <1>3
     DEF Next, Game, Opening, Poll, MoveAway, Tick, Open, InitialMtime,
         SeekEnd,
         NoCheck, CheckRotation, Reopen, ReadChunk, EndPoll, ReadError, Stop,
         Terminated, vars, gameVars


(* Unless the log was replaced, the handle is on the log at the path and   *)
(* not behind its end; a handle on a log that was truncated under it is    *)
(* behind the end, so that nothing can be read through it.  Between polls  *)
(* no entry and no rotation waits.                                         *)
HandleOK ==
  /\ tailer = "closed" => handle.file = 0
  /\ handle.file = 0 => ~replaced
  /\ handle.file # 0 /\ ~replaced =>
       handle.file = path /\ handle.position <= files[handle.file].size
  /\ replaced /\ handle.file = path =>
       handle.position > files[handle.file].size
  /\ tailer # "reading" => entries = <<>>
  /\ last_rotation /\ ~once => tailer \in {"reading", "failed"}

(* Every step keeps it; a write to a truncated log by what Write assumes.  *)
LEMMA HandleStep == IInv /\ LogsOK /\ HandleOK /\ [Next]_vars => HandleOK'
<1> SUFFICES ASSUME IInv, LogsOK, HandleOK, [Next]_vars PROVE HandleOK'
  OBVIOUS
<1>a. /\ Len(files) \in Nat /\ DOMAIN files = 1 .. Len(files)
      /\ handle.file \in 0 .. Len(files) /\ handle.position \in Nat
      /\ handle \in [file : 0 .. Len(files), position : Nat]
      /\ offset \in Nat /\ total \in Nat
      /\ (path = 0 \/ path = Len(files)) /\ Len(files) >= 1
      /\ tailer # "closed" => handle.file # 0
      /\ tailer \in TailerState
  BY DEF IInv, PositionsOK, LogsOK
<1>b. \A f \in DOMAIN files : files[f].size \in Nat
  <2>1. \A f \in DOMAIN files : files[f] \in LogRecord
    BY DEF IInv, PositionsOK
  <2> QED
    BY <2>1 DEF LogRecord
<1>1. CASE Write
  <2>1. /\ path \in DOMAIN files
        /\ \A f \in DOMAIN files :
              /\ files[f].size \in Nat
              /\ f # path => files'[f] = files[f]
        /\ files'[path].size = files[path].size + 1
    BY <1>1, WriteGrows
  <2>2. /\ UNCHANGED <<path, tailer, handle, offset, total, replaced, entries,
                        last_rotation, once>>
        /\ replaced /\ handle.file = path => files[path].size + 1 < offset
    BY <1>1 DEF Write, AsLongAfterPause, modeVars, openVars, rotateVars, lineVars, Log
  <2>3. handle.file # 0 /\ ~replaced =>
          handle.file = path /\ handle.position <= files'[handle.file].size
    BY <1>a, <2>1 DEF HandleOK
  <2>4. replaced => handle.position >= offset
    BY <1>a, <2>1, <2>2 DEF IInv, Accounted, TailerState
  <2>5. replaced /\ handle.file = path =>
          handle.position > files'[handle.file].size
    BY <1>a, <2>1, <2>2, <2>4
  <2> QED
    BY <2>2, <2>3, <2>5 DEF HandleOK
<1>2. CASE MoveAway
  BY <1>2, <1>a
     DEF MoveAway, CanReplace, HandleOK, modeVars, openVars, lineVars
<1>3. CASE Create
  <2>1. \A f \in DOMAIN files : files'[f] = files[f]
    BY <1>3, AppendGrows DEF Create
  <2>2. /\ path = 0 /\ path' = Len(files) + 1
        /\ UNCHANGED <<tailer, handle, replaced, entries, last_rotation, once>>
    BY <1>3 DEF Create, modeVars, openVars, rotateVars, lineVars
  <2> QED
    BY <1>a, <2>1, <2>2 DEF HandleOK
<1>4. CASE Truncate
  <2>1. \A f \in DOMAIN files : files'[f] = files[f]
    BY <1>4, AppendGrows DEF Truncate
  <2>2. files'[Len(files) + 1].size = 0
    BY <1>4, AppendGrows DEF Truncate, NewLog
  <2>3. /\ path # 0 /\ path' = Len(files) + 1
        /\ handle.file = path => handle.position > 0
        /\ handle' = IF handle.file = path
                     THEN [file |-> path', position |-> handle.position]
                     ELSE handle
        /\ replaced' = (handle.file # 0)
        /\ UNCHANGED <<tailer, entries, last_rotation, once>>
    BY <1>4 DEF Truncate, CanReplace, modeVars, rotateVars, lineVars
  <2>4. CASE handle.file = path
    <3>1. /\ handle'.file = path' /\ handle'.position = handle.position
          /\ handle.position > 0 /\ replaced' /\ handle.file # 0
      BY <2>3, <2>4
    <3> QED
      BY <1>a, <2>2, <2>3, <2>4, <3>1 DEF HandleOK
  <2>5. CASE handle.file # path
    <3>1. handle' = handle /\ (handle.file # 0 <=> replaced')
      BY <2>3, <2>5
    <3>2. handle.file # 0 => files'[handle.file] = files[handle.file]
      BY <1>a, <2>1
    <3>3. handle.file # path'
      BY <1>a, <2>3
    <3> QED
      BY <2>3, <3>1, <3>2, <3>3 DEF HandleOK
  <2> QED
    BY <2>4, <2>5
<1>5. CASE Tick
  BY <1>5 DEF Tick, HandleOK, modeVars, openVars, rotateVars, lineVars
<1>6. CASE Open
  <2>1. handle'.file = path /\ handle'.position = 0
    BY <1>6 DEF Open
  <2> QED
    BY <1>6, <1>a, <1>b, <2>1
       DEF Open, HandleOK, modeVars, gameVars, rotateVars, lineVars
<1>7. CASE InitialMtime
  BY <1>7, <1>a
     DEF InitialMtime, HandleOK, modeVars, gameVars, openVars, lineVars
<1>8. CASE SeekEnd
  <2>1. /\ handle'.file = handle.file
        /\ handle'.position = files[handle.file].size
    BY <1>8, <1>a DEF SeekEnd
  <2>2. handle.file \in DOMAIN files /\ handle.position = 0
    BY <1>8, <1>a DEF SeekEnd, IInv, Accounted
  <2> QED
    BY <1>8, <1>a, <1>b, <2>1, <2>2
       DEF SeekEnd, HandleOK, modeVars, gameVars, rotateVars, lineVars
<1>9. CASE NoCheck
  BY <1>9, <1>a DEF NoCheck, HandleOK, modeVars, openVars, rotateVars, lineVars
<1>10. CASE CheckRotation
  BY <1>10, <1>a DEF CheckRotation, HandleOK, modeVars, openVars, lineVars
<1>11. CASE Reopen
  <2>1. CASE path = 0
    BY <1>11, <1>a, <2>1 DEF Reopen, HandleOK, modeVars, gameVars, openVars
  <2>2. CASE path # 0
    <3>1. handle'.file = path /\ handle'.position = 0
      BY <1>11, <2>2 DEF Reopen
    <3> QED
      <4>1. /\ tailer' = "reading" /\ replaced' = FALSE /\ path' = path
            /\ files' = files
        BY <1>11, <2>2 DEF Reopen, gameVars
      <4>2. path \in DOMAIN files /\ files[path].size \in Nat
        BY <1>a, <1>b, <2>2
      <4> QED
        BY <2>2, <3>1, <4>1, <4>2 DEF HandleOK
  <2> QED
    BY <2>1, <2>2
<1>12. CASE ReadChunk
  <2>1. PICK n \in 1 .. ReadBufferCapacity :
          /\ handle.position + n <= files[handle.file].size
          /\ handle' = [handle EXCEPT !.position = @ + n]
    BY <1>12 DEF ReadChunk
  <2>2. n \in Nat /\ n >= 1
    BY BoundsAssumption
  <2>3. handle'.file = handle.file /\ handle'.position = handle.position + n
    BY <1>a, <2>1
  <2>4. handle.file \in DOMAIN files /\ tailer = "reading" /\ tailer' = tailer
        /\ UNCHANGED <<path, replaced, files, last_rotation, once>>
    BY <1>12, <1>a DEF ReadChunk, gameVars, modeVars, rotateVars
  <2> QED
    BY <1>a, <1>b, <2>1, <2>2, <2>3, <2>4 DEF HandleOK
<1>13. CASE EndPoll
  BY <1>13, <1>a DEF EndPoll, AfterPoll, HandleOK, modeVars, gameVars
<1>14. CASE ReadError
  BY <1>14, <1>a
     DEF ReadError, HandleOK, modeVars, gameVars, openVars, rotateVars
<1>15. CASE Stop
  BY <1>15, <1>a DEF Stop, HandleOK, modeVars, gameVars, openVars, rotateVars
<1>16. CASE UNCHANGED vars
  BY <1>16
     DEF vars, HandleOK, modeVars, gameVars, openVars, rotateVars, lineVars
<1> QED
  BY <1>1, <1>2, <1>3, <1>4, <1>5, <1>6, <1>7, <1>8, <1>9, <1>10, <1>11,
     <1>12, <1>13, <1>14, <1>15, <1>16
     DEF Next, Game, Opening, Poll, Terminated

(* How far last_mtime may be behind.  A write comes at most MaxPause after *)
(* the one before, and time passes between polls only, so that a check     *)
(* leaves last_mtime at most MaxPause behind the clock.  The mtime of an   *)
(* empty log is not looked at again before it was read: this adds one more *)
(* pause.                                                                  *)
Timing ==
  /\ last_mtime \subseteq Nat
  /\ path # 0 => files[path].mtime <= clock
                 /\ clock <= files[path].mtime + MaxPause
  /\ tailer = "reopening" => \A m \in last_mtime : clock <= m + MaxPause
  /\ tailer \in {"closed", "opened"} => last_mtime = {}
  /\ tailer \in {"closed", "opened", "seeking"} => ~polled
  /\ tailer = "idle" /\ polled /\ ~replaced =>
       handle.position = files[path].size
  /\ handle.file # 0 /\ ~replaced =>
       \A m \in last_mtime :
         /\ offset = 0 \/ tailer = "reading" => clock <= m + 2 * MaxPause
         /\ offset = 0 /\ files[path].size = 0 =>
              files[path].mtime <= m + MaxPause
         /\ offset # 0 /\ files[path].size <= offset =>
              files[path].mtime <= m + 2 * MaxPause

(* Every step keeps these distances.                                       *)
LEMMA TimingStep ==
  IInv /\ LogsOK /\ HandleOK /\ Timing /\ [Next]_vars => Timing'
<1> SUFFICES ASSUME IInv, LogsOK, HandleOK, Timing, [Next]_vars PROVE Timing'
  OBVIOUS
<1>a. /\ Len(files) \in Nat
      /\ (path = 0 \/ path = Len(files)) /\ Len(files) >= 1
      /\ offset \in Nat /\ total \in Nat /\ clock \in Nat
      /\ tailer # "closed" => handle.file # 0
      /\ tailer = "closed" => handle.file = 0
  BY DEF IInv, PositionsOK, LogsOK, HandleOK
<1>b. path # 0 => path \in DOMAIN files /\ files[path].size \in Nat
                  /\ files[path].mtime \in Nat
  <2>1. path # 0 => path \in DOMAIN files
    BY <1>a DEF IInv, PositionsOK
  <2>2. path # 0 => files[path] \in LogRecord
    BY <2>1 DEF IInv, PositionsOK
  <2> QED
    BY <2>1, <2>2 DEF LogRecord
<1>c. MaxPause \in Nat
  BY BoundsAssumption
<1>d. handle.file # 0 /\ ~replaced => handle.file = path /\ path # 0
  BY DEF HandleOK
<1>1. CASE Write
  <2>1. /\ path \in DOMAIN files
        /\ files'[path].size = files[path].size + 1
        /\ files'[path].mtime = clock
    BY <1>1, WriteGrows
  <2>2. /\ UNCHANGED <<path, clock, tailer, handle, offset, total, replaced,
                        last_mtime>>
        /\ polled' = FALSE /\ path # 0
    BY <1>1 DEF Write, modeVars, openVars, rotateVars, lineVars, Log
  <2>3. ASSUME handle.file # 0, ~replaced, NEW m \in last_mtime
        PROVE  /\ offset = 0 \/ tailer = "reading" => clock <= m + 2 * MaxPause
               /\ ~(offset = 0 /\ files'[path].size = 0)
               /\ offset # 0 /\ files'[path].size <= offset =>
                    clock <= m + 2 * MaxPause
    <3>1. offset = 0 \/ tailer = "reading" => clock <= m + 2 * MaxPause
      BY <2>3 DEF Timing
    <3>2. files'[path].size # 0
      BY <1>b, <2>1, <2>2
    <3>3. tailer # "reading" /\ offset # 0 => files[path].size >= offset
      BY <1>a, <1>b, <1>d, <2>2, <2>3
         DEF HandleOK, IInv, Accounted, PositionsOK, TailerState
    <3> QED
      BY <1>a, <1>b, <2>1, <2>2, <3>1, <3>2, <3>3
  <2> QED
    BY <1>a, <1>c, <2>1, <2>2, <2>3 DEF Timing
<1>2. CASE MoveAway
  BY <1>2, <1>a, <1>b DEF MoveAway, CanReplace, Timing, openVars
<1>3. CASE Create
  <2>1. /\ files'[Len(files) + 1].mtime = clock
        /\ \A f \in DOMAIN files : files'[f] = files[f]
    BY <1>3, AppendGrows DEF Create, NewLog
  <2>2. /\ path = 0 /\ path' = Len(files) + 1 /\ polled' = FALSE
        /\ UNCHANGED <<tailer, handle, offset, clock, replaced, last_mtime>>
    BY <1>3 DEF Create, modeVars, openVars, rotateVars, lineVars
  <2>3. handle'.file # 0 => replaced'
    BY <1>d, <2>2
  <2>4. files'[path'].mtime = clock /\ clock' = clock /\ ~polled'
        /\ UNCHANGED <<tailer, offset, last_mtime>>
    BY <2>1, <2>2
  <2> QED
    BY <1>a, <1>c, <2>3, <2>4 DEF Timing
<1>4. CASE Truncate
  <2>1. files'[Len(files) + 1].mtime = clock
    BY <1>4, AppendGrows DEF Truncate, NewLog
  <2>2. /\ path # 0 /\ path' = Len(files) + 1 /\ polled' = FALSE
        /\ handle' = IF handle.file = path
                     THEN [file |-> path', position |-> handle.position]
                     ELSE handle
        /\ replaced' = (handle.file # 0)
        /\ UNCHANGED <<tailer, offset, clock, last_mtime>>
    BY <1>4 DEF Truncate, CanReplace, modeVars, rotateVars, lineVars
  <2>3. handle'.file # 0 => replaced'
    BY <2>2
  <2>4. files'[path'].mtime = clock /\ clock' = clock /\ ~polled'
        /\ UNCHANGED <<tailer, offset, last_mtime>>
    BY <2>1, <2>2
  <2> QED
    BY <1>a, <1>c, <2>3, <2>4 DEF Timing
<1>5. CASE Tick
  <2>1. /\ UNCHANGED <<files, path, tailer, handle, offset, replaced,
                       last_mtime>>
        /\ clock' = clock + 1 /\ polled' = FALSE
        /\ tailer = "closed" \/ (tailer = "idle" /\ polled)
        /\ path # 0 => clock < files[path].mtime + MaxPause
    BY <1>5 DEF Tick, modeVars, openVars, rotateVars, lineVars, Log
  <2>2. ASSUME handle.file # 0, ~replaced, NEW m \in last_mtime, offset = 0
        PROVE  clock + 1 <= m + 2 * MaxPause
    <3>1. tailer = "idle" /\ polled
      BY <1>a, <2>1, <2>2
    <3>2. handle.position = files[path].size /\ handle.position = 0
      BY <2>2, <3>1 DEF Timing, IInv, Accounted
    <3>3. files[path].mtime <= m + MaxPause /\ m \in Nat
      BY <2>2, <3>2 DEF Timing
    <3>4. clock < files[path].mtime + MaxPause
      BY <1>d, <2>1, <2>2
    <3> QED
      BY <1>a, <1>b, <1>c, <1>d, <2>2, <3>3, <3>4
  <2>3. path # 0 => files[path].mtime <= clock + 1
                    /\ clock + 1 <= files[path].mtime + MaxPause
    BY <1>a, <1>b, <1>c, <2>1 DEF Timing
  <2>4. tailer # "reading" /\ tailer # "reopening"
    BY <2>1
  <2> QED
    BY <2>1, <2>2, <2>3, <2>4 DEF Timing
<1>6. CASE Open
  <2>1. /\ tailer' = "opened" /\ last_mtime = {} /\ ~polled
        /\ UNCHANGED <<files, path, clock, last_mtime, polled>>
    BY <1>6 DEF Open, gameVars, rotateVars, Timing
  <2> QED
    BY <2>1 DEF Timing
<1>7. CASE InitialMtime
  <2>1. /\ tailer = "opened" /\ tailer' \in {"idle", "seeking"} /\ ~polled
        /\ last_mtime' = IF path = 0 THEN {} ELSE {files[path].mtime}
        /\ UNCHANGED <<files, path, clock, polled, handle, offset, replaced>>
    BY <1>7 DEF InitialMtime, gameVars, openVars, Timing, Log
  <2>2. offset = 0
    BY <2>1 DEF IInv, Accounted
  <2>3. last_mtime' \subseteq Nat
    BY <1>b, <2>1
  <2>4. ASSUME NEW m \in last_mtime', path # 0
        PROVE  /\ clock <= m + 2 * MaxPause
               /\ files[path].mtime <= m + MaxPause
    <3>1. m = files[path].mtime
      BY <2>1, <2>4
    <3> QED
      BY <1>a, <1>b, <1>c, <2>4, <3>1 DEF Timing
  <2> QED
    BY <1>d, <2>1, <2>2, <2>3, <2>4 DEF Timing
<1>8. CASE SeekEnd
  <2>1. /\ tailer = "seeking" /\ tailer' = "idle" /\ ~polled
        /\ handle'.file = handle.file
        /\ offset' = files[handle.file].size
        /\ UNCHANGED <<files, path, clock, polled, last_mtime, replaced>>
    BY <1>8 DEF SeekEnd, gameVars, rotateVars, Timing, IInv, PositionsOK
  <2>2. offset = 0 /\ handle.file # 0
    BY <1>a, <2>1 DEF IInv, Accounted
  <2>3. ASSUME NEW m \in last_mtime, ~replaced
        PROVE  /\ clock <= m + 2 * MaxPause
               /\ files[path].size = 0 => files[path].mtime <= m + MaxPause
               /\ files[path].mtime <= clock
    BY <1>d, <2>2, <2>3 DEF Timing
  <2>4. ASSUME NEW m \in last_mtime, ~replaced
        PROVE  files[path].mtime <= m + 2 * MaxPause
    <3>1. m \in Nat
      BY DEF Timing
    <3> QED
      BY <1>a, <1>b, <1>c, <1>d, <2>2, <2>3, <2>4, <3>1
  <2> QED
    BY <1>d, <2>1, <2>2, <2>3, <2>4 DEF Timing
<1>9. CASE NoCheck
  <2>1. /\ tailer = "idle" /\ tailer' = "reading"
        /\ offset = 0 \/ path = 0
        /\ UNCHANGED <<files, path, clock, last_mtime, handle, offset,
                       replaced>>
    BY <1>9 DEF NoCheck, openVars, rotateVars
  <2> QED
    BY <1>d, <2>1 DEF Timing
<1>10. CASE CheckRotation
  <2>1. /\ tailer' \in {"reopening", "reading"} /\ path # 0 /\ offset # 0
        /\ last_mtime' = {files[path].mtime}
        /\ UNCHANGED <<files, path, clock, handle, offset, replaced>>
    BY <1>10 DEF CheckRotation, openVars, Log
  <2>2. ASSUME NEW m \in last_mtime'
        PROVE  /\ clock <= m + MaxPause /\ clock <= m + 2 * MaxPause
               /\ files[path].mtime <= m + 2 * MaxPause
    <3>1. m = files[path].mtime
      BY <2>1
    <3> QED
      BY <1>a, <1>b, <1>c, <2>1, <3>1 DEF Timing
  <2>3. last_mtime' \subseteq Nat
    BY <1>b, <2>1
  <2> QED
    BY <2>1, <2>2, <2>3 DEF Timing
<1>11. CASE Reopen
  <2>1. CASE path = 0
    BY <1>11, <1>a, <1>d, <2>1 DEF Reopen, Timing, gameVars, openVars
  <2>2. CASE path # 0
    <3>1. /\ tailer = "reopening" /\ tailer' = "reading" /\ offset' = 0
          /\ handle' = [file |-> path, position |-> 0]
          /\ UNCHANGED <<files, path, clock, last_mtime, polled>>
      BY <1>11, <2>2 DEF Reopen, ResetForNewFile, gameVars
    <3>2. ASSUME NEW m \in last_mtime
          PROVE  /\ clock <= m + 2 * MaxPause
                 /\ files[path].mtime <= m + MaxPause
      <4>1. m \in Nat /\ clock <= m + MaxPause /\ files[path].mtime <= clock
        BY <2>2, <3>1 DEF Timing
      <4> QED
        BY <1>a, <1>b, <1>c, <2>2, <4>1
    <3> QED
      BY <2>2, <3>1, <3>2 DEF Timing
  <2> QED
    BY <2>1, <2>2
<1>12. CASE ReadChunk
  <2>1. /\ tailer = "reading" /\ handle'.file = handle.file
        /\ UNCHANGED <<files, path, clock, last_mtime, polled, tailer, offset,
                        replaced>>
    BY <1>12 DEF ReadChunk, gameVars, rotateVars, IInv, PositionsOK
  <2> QED
    BY <1>d, <2>1 DEF Timing
<1>13. CASE EndPoll
  <2>1. /\ tailer = "reading" /\ tailer' \in {"idle", "flushing"}
        /\ handle.position >= files[handle.file].size
        /\ offset' = offset + total
        /\ UNCHANGED <<files, path, clock, last_mtime, polled, handle,
                       replaced>>
    BY <1>13 DEF EndPoll, AfterPoll, gameVars
  <2>2. handle.file # 0 /\ handle.position = offset + total
    BY <1>a, <2>1 DEF IInv, Accounted
  <2>3. ~replaced => handle.position = files[path].size
    BY <1>b, <1>d, <2>1, <2>2 DEF HandleOK, IInv, PositionsOK
  <2>4. ASSUME NEW m \in last_mtime, ~replaced
        PROVE  /\ offset + total = 0 => /\ clock <= m + 2 * MaxPause
                                       /\ files[path].mtime <= m + MaxPause
               /\ files[path].mtime <= m + 2 * MaxPause
    <3>1. /\ m \in Nat /\ clock <= m + 2 * MaxPause
          /\ files[path].mtime <= clock
      BY <1>d, <2>1, <2>2, <2>4 DEF Timing
    <3>2. ASSUME offset + total = 0
          PROVE  files[path].mtime <= m + MaxPause
      <4>1. offset = 0 /\ files[path].size = 0
        BY <1>a, <2>2, <2>3, <2>4, <3>2
      <4> QED
        BY <2>2, <2>4, <4>1 DEF Timing
    <3> QED
      BY <1>a, <1>b, <1>c, <1>d, <2>2, <2>4, <3>1, <3>2
  <2> QED
    BY <1>a, <1>d, <2>1, <2>2, <2>3, <2>4 DEF Timing
<1>14. CASE ReadError
  BY <1>14, <1>d DEF ReadError, Timing, gameVars, openVars, rotateVars
<1>15. CASE Stop
  BY <1>15, <1>d DEF Stop, Timing, gameVars, openVars, rotateVars
<1>16. CASE UNCHANGED vars
  BY <1>16, <1>d DEF vars, Timing, gameVars, openVars, rotateVars
<1> QED
  BY <1>1, <1>2, <1>3, <1>4, <1>5, <1>6, <1>7, <1>8, <1>9, <1>10, <1>11,
     <1>12, <1>13, <1>14, <1>15, <1>16
     DEF Next, Game, Opening, Poll, Terminated

-----------------------------------------------------------------------------
(* The game never falls silent for as long as the threshold, counted from  *)
(* the creation of the log and again from its first write.                 *)
PausesAreShort == 2 * MaxPause <= JumpThreshold

(* What check_rotation takes for a rotation is one.                        *)
RotationsFound == tailer = "reopening" => replaced

(* A log that was not replaced has not shrunk, and its mtime did not jump. *)
LEMMA RotationsFoundStep ==
  ASSUME PausesAreShort
  PROVE  IInv /\ LogsOK /\ HandleOK /\ Timing /\ RotationsFound /\ [Next]_vars
           => RotationsFound'
<1> SUFFICES ASSUME IInv, LogsOK, HandleOK, Timing, RotationsFound, [Next]_vars
             PROVE  RotationsFound'
  OBVIOUS
<1>1. CASE CheckRotation
  <2>1. SUFFICES ASSUME Rotated, ~replaced PROVE FALSE
    BY <1>1 DEF CheckRotation, RotationsFound
  <2>2. tailer = "idle" /\ offset # 0 /\ path # 0
    BY <1>1 DEF CheckRotation
  <2>3. handle.file = path /\ handle.position <= files[path].size
    BY <2>1, <2>2 DEF HandleOK, IInv, PositionsOK
  <2>4. handle.position = offset /\ offset \in Nat
    BY <2>2 DEF IInv, Accounted, PositionsOK
  <2>5. path \in DOMAIN files
    BY <2>2 DEF LogsOK, IInv, PositionsOK
  <2>6. files[path] \in LogRecord
    BY <2>5 DEF IInv, PositionsOK
  <2>7. files[path].size \in Nat /\ files[path].mtime \in Nat
    BY <2>6 DEF LogRecord
  <2>8. PICK m \in last_mtime :
          files[path].mtime > m + JumpThreshold /\ files[path].size <= offset
    BY <2>1, <2>3, <2>4, <2>7 DEF Rotated, Log
  <2>9. files[path].mtime <= m + 2 * MaxPause /\ m \in Nat
    BY <2>1, <2>2, <2>3, <2>8 DEF Timing
  <2> QED
    BY <2>7, <2>8, <2>9, BoundsAssumption DEF PausesAreShort
<1>2. CASE ~CheckRotation
  <2>1. tailer' = "reopening" => tailer = "reopening"
    BY <1>2 DEF Next, Game, Opening, Poll, Write, MoveAway, Create, Truncate,
         Tick, Open, InitialMtime, SeekEnd, NoCheck, Reopen, ReadChunk,
         EndPoll,
         AfterPoll, ReadError, Stop, Terminated, vars
  <2>2. tailer' = "reopening" /\ tailer = "reopening" /\ replaced => replaced'
    BY DEF Next, Game, Opening, Poll, Write, MoveAway, Create, Truncate,
         Tick, Open, InitialMtime, SeekEnd, NoCheck, CheckRotation, Reopen,
         ReadChunk, EndPoll, AfterPoll, ReadError, Stop, Terminated, vars,
         rotateVars, HandleOK
  <2> QED
    BY <2>1, <2>2 DEF RotationsFound
<1> QED
  BY <1>1, <1>2

(* The first log is empty and nothing is open.                             *)
LEMMA LogInits == Init => LogsOK /\ HandleOK /\ Timing /\ RotationsFound
<1> SUFFICES ASSUME Init PROVE LogsOK /\ HandleOK /\ Timing /\ RotationsFound
  OBVIOUS
<1>1. /\ Len(files) = 1 /\ path = 1 /\ written = 0
      /\ files[1].first = 1 /\ files[1].size = 0 /\ files[1].mtime = 0
      /\ \A f \in DOMAIN files : f = 1
      /\ MaxLines \in Nat /\ MaxPause \in Nat
  BY BoundsAssumption DEF Init
<1>2. LogsOK
  BY <1>1 DEF LogsOK, Beyond
<1>3. HandleOK /\ RotationsFound
  BY <1>1 DEF Init, HandleOK, RotationsFound
<1>4. Timing
  BY <1>1 DEF Init, Timing
<1> QED
  BY <1>2, <1>3, <1>4

(* The logs, the handle and the distances in time stay in order, whatever  *)
(* the pauses of the game.                                                 *)
THEOREM LogsFollow == Spec => [](LogsOK /\ HandleOK /\ Timing)
<1>1. Init => LogsOK /\ HandleOK /\ Timing
  BY LogInits
<1>2. IInv /\ LogsOK /\ HandleOK /\ Timing /\ [Next]_vars =>
        (LogsOK /\ HandleOK /\ Timing)'
  BY LogsStep, HandleStep, TimingStep
<1> QED
  BY <1>1, <1>2, Invariance, PTL DEF Spec

(* If the game pauses less than half the threshold, the tailer never      *)
(* reopens a log that was not replaced.                                    *)
LEMMA RotationsAreFound ==
  ASSUME PausesAreShort
  PROVE  Spec => []RotationsFound
<1>1. Init => RotationsFound
  BY LogInits
<1>2. IInv /\ LogsOK /\ HandleOK /\ Timing /\ RotationsFound /\ [Next]_vars
        => RotationsFound'
  BY RotationsFoundStep
<1> QED
  BY <1>1, <1>2, Invariance, LogsFollow, PTL DEF Spec

(* Then check_rotation reports a rotation only of a log that was replaced, *)
(* whatever number of logs the game writes and whenever it replaces them,  *)
(* also during a poll.                                                     *)
THEOREM RotationsCorrect ==
  ASSUME PausesAreShort
  PROVE  Spec => RotationsAreReal
<1>1. RotationsFound /\ [Next]_vars =>
        [~last_rotation /\ last_rotation' => replaced]_vars
  <2> SUFFICES ASSUME RotationsFound, Next, ~last_rotation, last_rotation'
               PROVE  replaced
    OBVIOUS
  <2>1. Reopen
    BY DEF Next, Game, Opening, Poll, Write, MoveAway, Create, Truncate,
         Tick, Open, InitialMtime, SeekEnd, NoCheck, CheckRotation,
         ReadChunk, EndPoll, ReadError, Stop, Terminated, vars, rotateVars
  <2> QED
    BY <2>1 DEF Reopen, RotationsFound
<1> QED
  BY <1>1, RotationsAreFound, PTL DEF Spec, RotationsAreReal

-----------------------------------------------------------------------------
(* What the tailer does with the lines it reads, for every log, every read  *)
(* buffer and every cut of the log into reads, polls and files: the lines   *)
(* of entries are whole, come in the order of the log, and none is lost.    *)

(* A line is the numbers of the game's lines it has text of.               *)
Text  == Seq(Nat)
Item  == Seq(Text)
State == [partial : Text, buffer : Item, out : Seq(Item)]

-----------------------------------------------------------------------------
(* Lines of sequences of items.                                            *)

(* The members of two sequences in a row are those of both.                *)
LEMMA MembersOfConcat ==
  ASSUME NEW S, NEW a \in Seq(S), NEW b \in Seq(S)
  PROVE  ToSet(a \o b) = ToSet(a) \cup ToSet(b)
<1>1. /\ Len(a \o b) = Len(a) + Len(b) /\ Len(a) \in Nat /\ Len(b) \in Nat
      /\ \A i \in 1 .. Len(a) : (a \o b)[i] = a[i]
      /\ \A i \in 1 .. Len(b) : (a \o b)[Len(a) + i] = b[i]
      /\ DOMAIN a = 1 .. Len(a) /\ DOMAIN b = 1 .. Len(b)
      /\ DOMAIN (a \o b) = 1 .. Len(a) + Len(b)
  OBVIOUS
<1>2. ToSet(a \o b) \subseteq ToSet(a) \cup ToSet(b)
  <2> SUFFICES ASSUME NEW i \in 1 .. Len(a) + Len(b)
               PROVE  (a \o b)[i] \in ToSet(a) \cup ToSet(b)
    BY <1>1 DEF ToSet
  <2>1. CASE i \in 1 .. Len(a)
    BY <1>1, <2>1 DEF ToSet
  <2>2. CASE i - Len(a) \in 1 .. Len(b)
    <3>1. (a \o b)[i] = b[i - Len(a)]
      BY <1>1, <2>2
    <3> QED
      BY <1>1, <2>2, <3>1 DEF ToSet
  <2> QED
    BY <1>1, <2>1, <2>2
<1>3. ToSet(a) \subseteq ToSet(a \o b)
  BY <1>1 DEF ToSet
<1>4. ToSet(b) \subseteq ToSet(a \o b)
  <2> SUFFICES ASSUME NEW i \in 1 .. Len(b) PROVE b[i] \in ToSet(a \o b)
    BY <1>1 DEF ToSet
  <2>1. Len(a) + i \in DOMAIN (a \o b) /\ b[i] = (a \o b)[Len(a) + i]
    BY <1>1
  <2> QED
    BY <2>1 DEF ToSet
<1> QED
  BY <1>2, <1>3, <1>4

(* And one more with Append.                                               *)
LEMMA MembersOfAppend ==
  ASSUME NEW S, NEW a \in Seq(S), NEW x \in S
  PROVE  /\ Append(a, x) \in Seq(S)
         /\ ToSet(Append(a, x)) = ToSet(a) \cup {x}
<1>1. Append(a, x) = a \o <<x>> /\ <<x>> \in Seq(S) /\ Append(a, x) \in Seq(S)
  OBVIOUS
<1>2. ToSet(<<x>>) = {x}
  BY DEF ToSet
<1>3. ToSet(a \o <<x>>) = ToSet(a) \cup ToSet(<<x>>)
  <2>1. PICK b \in Seq(S) : b = <<x>>
    BY <1>1
  <2>2. ToSet(a \o b) = ToSet(a) \cup ToSet(b)
    BY MembersOfConcat
  <2> QED
    BY <2>1, <2>2
<1> QED
  BY <1>1, <1>2, <1>3

(* The lines of items in a row are those of all.                           *)
LEMMA LinesOfConcat ==
  ASSUME NEW a \in Seq(Item), NEW b \in Seq(Item)
  PROVE  /\ a \o b \in Seq(Item)
         /\ LinesIn(a \o b) = LinesIn(a) \cup LinesIn(b)
<1>1. ToSet(a \o b) = ToSet(a) \cup ToSet(b) /\ a \o b \in Seq(Item)
  BY MembersOfConcat
<1> QED
  BY <1>1 DEF LinesIn

(* The lines of one item are its members.                                  *)
LEMMA LinesOfOne ==
  ASSUME NEW item \in Item
  PROVE  /\ <<item>> \in Seq(Item)
         /\ LinesIn(<<item>>) = ToSet(item)
<1>1. ToSet(<<item>>) = {item}
  BY DEF ToSet
<1> QED
  BY <1>1 DEF LinesIn

(* No items, and no lines.                                                 *)
LEMMA LinesOfNone ==
  /\ <<>> \in Seq(Item) /\ LinesIn(<<>>) = {}
  /\ <<>> \in Item /\ ToSet(<<>>) = {}
  BY DEF LinesIn, ToSet, Item

(* A line of an entry is a sequence of numbers.                            *)
LEMMA TextOfLines ==
  ASSUME NEW items \in Seq(Item)
  PROVE  LinesIn(items) \subseteq Text
<1> SUFFICES ASSUME NEW item \in ToSet(items) PROVE ToSet(item) \subseteq Text
  BY DEF LinesIn
<1>1. item \in Seq(Text)
  BY DEF ToSet, Item
<1> QED
  BY <1>1 DEF ToSet

(* The entry in progress has the lines of the buffer.                      *)
LEMMA LinesOfProgress ==
  ASSUME NEW s \in State
  PROVE  /\ InProgress(s) \in Seq(Item)
         /\ LinesIn(InProgress(s)) = ToSet(s.buffer)
<1>1. s.buffer \in Item
  BY DEF State
<1>2. CASE s.buffer = <<>>
  BY <1>2, LinesOfNone DEF InProgress
<1>3. CASE s.buffer # <<>>
  BY <1>1, <1>3, LinesOfOne DEF InProgress
<1> QED
  BY <1>2, <1>3

-----------------------------------------------------------------------------
(* What push_line does to a line, by its kind.                             *)

Longer(s) == IF s.buffer = <<>> THEN <<>> ELSE Append(s.buffer, s.partial)

(* The four cases of push_line, each with the buffer and the output that   *)
(* it leaves.                                                              *)
LEMMA PushLineForms ==
  ASSUME NEW s \in State
  PROVE  LET t == PushLine(s)
             kind == KindOf(s.partial)
         IN  /\ t = [partial |-> <<>>, buffer |-> t.buffer, out |-> t.out]
             /\ kind = "single" =>
                  /\ t.buffer = <<>>
                  /\ t.out = s.out \o InProgress(s) \o <<<<s.partial>>>>
             /\ kind = "multi" =>
                  /\ t.buffer = <<s.partial>>
                  /\ t.out = s.out \o InProgress(s)
             /\ kind = "text" => t.buffer = Longer(s) /\ t.out = s.out
             /\ kind = "closing" =>
                  /\ t.buffer = <<>>
                  /\ t.out = s.out \o (IF s.buffer = <<>> THEN <<>>
                                       ELSE <<Longer(s)>>)
<1>1. s.buffer # <<>> => Longer(s) # <<>>
  BY DEF Longer, State, Item
<1>2. KindOf(s.partial) = "closing" =>
        InProgress([s EXCEPT !.buffer = Longer(s)]) =
          IF s.buffer = <<>> THEN <<>> ELSE <<Longer(s)>>
  BY <1>1 DEF InProgress, State, Longer
<1> QED
  BY <1>2 DEF PushLine, Longer

(* The lines of a state of the read: of its entries, of the entry in       *)
(* progress, and the one that is held back.                                *)
Held(s) == {s.partial} \ {<<>>}

Taken(s) == LinesIn(s.out) \cup ToSet(s.buffer)

LinesOf(s) == Taken(s) \cup Held(s)

(* So is a line that is held.                                              *)
LEMMA LinesAreText ==
  ASSUME NEW s \in State
  PROVE  \A line \in LinesOf(s) : line \in Text
<1>1. s.partial \in Text /\ s.buffer \in Seq(Text) /\ s.out \in Seq(Item)
  BY DEF State, Item
<1>2. ToSet(s.buffer) \subseteq Text
  BY <1>1 DEF ToSet
<1>3. LinesIn(s.out) \subseteq Text
  BY <1>1, TextOfLines
<1> QED
  BY <1>1, <1>2, <1>3 DEF LinesOf, Taken, Held

(* push_line brings no line that was not held, drops none that an entry    *)
(* has, and takes a header into an entry.                                  *)
LEMMA PushLineKeeps ==
  ASSUME NEW s \in State, s.partial # <<>>, KindOf(s.partial) \in LineKind
  PROVE  LET t == PushLine(s)
         IN  /\ t \in State /\ t.partial = <<>>
             /\ LinesOf(t) \subseteq LinesOf(s)
             /\ Taken(s) \subseteq Taken(t)
             /\ KindOf(s.partial) \in {"single", "multi"} =>
                  s.partial \in Taken(t)
<1> DEFINE t == PushLine(s)
           kind == KindOf(s.partial)
<1>1. s.partial \in Text /\ s.buffer \in Item /\ s.out \in Seq(Item)
  BY DEF State
<1>2. /\ t = [partial |-> <<>>, buffer |-> t.buffer, out |-> t.out]
      /\ kind = "single" =>
           /\ t.buffer = <<>>
           /\ t.out = s.out \o InProgress(s) \o <<<<s.partial>>>>
      /\ kind = "multi" =>
           /\ t.buffer = <<s.partial>>
           /\ t.out = s.out \o InProgress(s)
      /\ kind = "text" => t.buffer = Longer(s) /\ t.out = s.out
      /\ kind = "closing" =>
           /\ t.buffer = <<>>
           /\ t.out = s.out \o (IF s.buffer = <<>> THEN <<>>
                                ELSE <<Longer(s)>>)
  BY PushLineForms
<1>3. kind \in {"single", "multi", "text", "closing"}
  BY DEF LineKind
<1> HIDE DEF t, kind
<1>4. /\ InProgress(s) \in Seq(Item)
      /\ LinesIn(InProgress(s)) = ToSet(s.buffer)
  BY LinesOfProgress
<1>5. /\ <<s.partial>> \in Item /\ ToSet(<<s.partial>>) = {s.partial}
      /\ <<<<s.partial>>>> \in Seq(Item)
      /\ LinesIn(<<<<s.partial>>>>) = {s.partial}
  <2>1. <<s.partial>> \in Item /\ ToSet(<<s.partial>>) = {s.partial}
    BY <1>1 DEF Item, ToSet
  <2> QED
    BY <2>1, LinesOfOne
<1>6. /\ s.out \o InProgress(s) \in Seq(Item)
      /\ LinesIn(s.out \o InProgress(s)) = Taken(s)
  BY <1>1, <1>4, LinesOfConcat DEF Taken
<1>7. /\ s.out \o InProgress(s) \o <<<<s.partial>>>> \in Seq(Item)
      /\ LinesIn(s.out \o InProgress(s) \o <<<<s.partial>>>>) =
           Taken(s) \cup {s.partial}
  BY <1>5, <1>6, LinesOfConcat
<1>8. /\ Longer(s) \in Item
      /\ ToSet(Longer(s)) = IF s.buffer = <<>> THEN {}
                            ELSE ToSet(s.buffer) \cup {s.partial}
  <2>1. CASE s.buffer = <<>>
    BY <2>1, LinesOfNone DEF Longer
  <2>2. CASE s.buffer # <<>>
    BY <1>1, <2>2, MembersOfAppend DEF Longer, Item
  <2> QED
    BY <2>1, <2>2
<1>9. s.buffer = <<>> => ToSet(s.buffer) = {}
  BY LinesOfNone
<1>10. /\ Held(s) = {s.partial}
       /\ t.partial = <<>> => Held(t) = {}
  BY DEF Held
<1>t. ASSUME t.buffer \in Item, t.out \in Seq(Item)
      PROVE  t \in State /\ t.partial = <<>>
  <2>1. PICK b \in Item, o \in Seq(Item) :
          t = [partial |-> <<>>, buffer |-> b, out |-> o]
    BY <1>2, <1>t
  <2>2. <<>> \in Text
    BY DEF Text
  <2> QED
    BY <2>1, <2>2 DEF State
<1>11. CASE kind = "single"
  <2>1. t.buffer = <<>> /\ t.out = s.out \o InProgress(s) \o <<<<s.partial>>>>
    BY <1>2, <1>11
  <2>2. t \in State /\ t.partial = <<>>
    BY <1>7, <1>t, <2>1, LinesOfNone
  <2>3. Taken(t) = Taken(s) \cup {s.partial}
    BY <1>7, <2>1, LinesOfNone DEF Taken
  <2> QED
    BY <1>10, <2>2, <2>3 DEF LinesOf, kind, t
<1>12. CASE kind = "multi"
  <2>1. t.buffer = <<s.partial>> /\ t.out = s.out \o InProgress(s)
    BY <1>2, <1>12
  <2>2. t \in State /\ t.partial = <<>>
    BY <1>5, <1>6, <1>t, <2>1
  <2>3. Taken(t) = Taken(s) \cup {s.partial}
    BY <1>5, <1>6, <2>1 DEF Taken
  <2> QED
    BY <1>10, <2>2, <2>3 DEF LinesOf, kind, t
<1>13. CASE kind = "text"
  <2>1. t.buffer = Longer(s) /\ t.out = s.out
    BY <1>2, <1>13
  <2>2. t \in State /\ t.partial = <<>>
    BY <1>1, <1>8, <1>t, <2>1
  <2>3. /\ Taken(t) \subseteq Taken(s) \cup {s.partial}
        /\ Taken(s) \subseteq Taken(t)
    BY <1>8, <1>9, <2>1 DEF Taken
  <2> QED
    BY <1>10, <1>13, <2>2, <2>3 DEF LinesOf, kind, t
<1>14. CASE kind = "closing"
  <2>1. CASE s.buffer = <<>>
    <3>1. t.out = s.out \o <<>> /\ t.buffer = <<>>
      BY <1>2, <1>14, <2>1
    <3>2. t.out = s.out
      BY <1>1, <3>1
    <3>3. t \in State /\ t.partial = <<>>
      BY <1>1, <1>t, <3>1, <3>2, LinesOfNone
    <3>4. Taken(t) = Taken(s)
      BY <2>1, <3>1, <3>2 DEF Taken
    <3> QED
      BY <1>10, <1>14, <3>3, <3>4 DEF LinesOf, kind, t
  <2>2. CASE s.buffer # <<>>
    <3>1. /\ <<Longer(s)>> \in Seq(Item)
          /\ LinesIn(<<Longer(s)>>) = ToSet(s.buffer) \cup {s.partial}
      BY <1>8, <2>2, LinesOfOne
    <3>2. t.out = s.out \o <<Longer(s)>> /\ t.buffer = <<>>
      BY <1>2, <1>14, <2>2
    <3>3. /\ t.out \in Seq(Item)
          /\ LinesIn(t.out) =
               LinesIn(s.out) \cup ToSet(s.buffer) \cup {s.partial}
      <4>1. /\ s.out \o <<Longer(s)>> \in Seq(Item)
            /\ LinesIn(s.out \o <<Longer(s)>>) =
                 LinesIn(s.out) \cup LinesIn(<<Longer(s)>>)
        BY <1>1, <3>1, LinesOfConcat
      <4> QED
        BY <3>1, <3>2, <4>1
    <3>4. t \in State /\ t.partial = <<>>
      BY <1>t, <3>2, <3>3, LinesOfNone
    <3>5. Taken(t) = Taken(s) \cup {s.partial}
      BY <3>2, <3>3, LinesOfNone DEF Taken
    <3> QED
      BY <1>10, <1>14, <3>4, <3>5 DEF LinesOf, kind, t
  <2> QED
    BY <2>1, <2>2
<1> QED
  BY <1>3, <1>11, <1>12, <1>13, <1>14

(* A newline behind nothing, with no entry in progress, changes nothing.   *)
LEMMA PushNothing ==
  ASSUME NEW s \in State, s.partial = <<>>, s.buffer = <<>>
  PROVE  PushLine(s) = s
<1>1. KindOf(s.partial) = "text"
  BY DEF KindOf
<1>2. PushLine(s) = [partial |-> <<>>, buffer |-> <<>>, out |-> s.out]
  BY <1>1 DEF PushLine
<1> QED
  BY <1>2 DEF State

(* push_line leaves a well-typed state.                                    *)
LEMMA PushLineTyped ==
  ASSUME NEW s \in State
  PROVE  PushLine(s) \in State
<1> DEFINE t == PushLine(s)
           kind == KindOf(s.partial)
<1>1. s.partial \in Text /\ s.buffer \in Item /\ s.out \in Seq(Item)
  BY DEF State
<1>2. <<s.partial>> \in Item /\ <<<<s.partial>>>> \in Seq(Item)
  BY <1>1 DEF Item
<1>3. InProgress(s) \in Seq(Item) /\ <<>> \in Item /\ <<>> \in Text
  BY LinesOfProgress, LinesOfNone DEF Text
<1>4. Longer(s) \in Item
  BY <1>1, <1>3 DEF Longer, Item
<1>5. InProgress([s EXCEPT !.buffer = Longer(s)]) \in Seq(Item)
  <2>1. [s EXCEPT !.buffer = Longer(s)] \in State
    BY <1>4 DEF State
  <2> QED
    BY <2>1, LinesOfProgress
<1>6. PICK b, o : /\ PushLine(s) = [partial |-> <<>>, buffer |-> b, out |-> o]
                  /\ b \in {<<s.partial>>, Longer(s), <<>>}
                  /\ o \in {s.out \o InProgress(s) \o <<<<s.partial>>>>,
                            s.out \o InProgress(s), s.out,
                            s.out \o InProgress(
                                       [s EXCEPT !.buffer = Longer(s)])}
  BY DEF PushLine, Longer
<1>7. b \in Item
  BY <1>2, <1>3, <1>4, <1>6
<1>8. o \in Seq(Item)
  <2>1. s.out \o InProgress(s) \in Seq(Item)
    BY <1>1, <1>3, LinesOfConcat
  <2>2. s.out \o InProgress(s) \o <<<<s.partial>>>> \in Seq(Item)
    BY <1>2, <2>1, LinesOfConcat
  <2>3. s.out \o InProgress([s EXCEPT !.buffer = Longer(s)]) \in Seq(Item)
    BY <1>1, <1>5, LinesOfConcat
  <2> QED
    BY <1>1, <1>6, <2>1, <2>2, <2>3
<1> QED
  BY <1>3, <1>6, <1>7, <1>8 DEF State

Piece == [line : Nat, part : {"text", "newline"}]

(* So does a piece.                                                        *)
LEMMA FeedTyped ==
  ASSUME NEW s \in State, NEW piece \in Piece
  PROVE  Feed(s, piece) \in State
<1>1. piece.line \in Nat
  BY DEF Piece
<1>2. Append(s.partial, piece.line) \in Text
  BY <1>1 DEF State, Text
<1>3. [s EXCEPT !.partial = Append(@, piece.line)] \in State
  BY <1>2 DEF State
<1> QED
  BY <1>3, PushLineTyped DEF Feed

-----------------------------------------------------------------------------
(* A chunk is fed one piece after the other.                               *)

IsFeeding(f, s, pieces) ==
  /\ f \in [0 .. Len(pieces) -> State]
  /\ f[0] = s
  /\ \A i \in 1 .. Len(pieces) : f[i] = Feed(f[i - 1], pieces[i])

(* Feeding a chunk is a walk with one step for each piece: this is what    *)
(* makes FeedAll, a recursive function, open to induction.                 *)
LEMMA FeedAllWalk ==
  ASSUME NEW s \in State, NEW pieces \in Seq(Piece)
  PROVE  \E f : /\ IsFeeding(f, s, pieces)
                /\ FeedAll(s, pieces) = f[Len(pieces)]
<1> DEFINE n == Len(pieces)
           G == [p \in State \X (1 .. n) |-> Feed(p[1], pieces[p[2]])]
           Solves(f) == f = [i \in 0 .. Len(pieces) |->
                               IF i = 0 THEN s ELSE Feed(f[i - 1], pieces[i])]
           h == CHOOSE f : Solves(f)
<1>1. n \in Nat /\ G \in [State \X (1 .. n) -> State]
  BY FeedTyped
<1>2. PICK f : IsWalk(f, G, State, s, n)
  <2>1. IsStep(G, State, n)
    BY <1>1 DEF IsStep
  <2> HIDE DEF n, G
  <2> QED
    BY <1>1, <2>1, Walk
<1>3. ASSUME NEW i \in 1 .. n PROVE f[i] = Feed(f[i - 1], pieces[i])
  <2>1. i - 1 \in 0 .. n
    BY <1>1
  <2>2. f[i - 1] \in State
    BY <1>2, <2>1 DEF IsWalk
  <2>3. G[<<f[i - 1], i>>] = Feed(f[i - 1], pieces[i])
    BY <2>2
  <2> QED
    BY <1>2, <2>3 DEF IsWalk
<1>4. Solves(f)
  BY <1>2, <1>3 DEF IsWalk
<1>5. Solves(h)
  <2> HIDE DEF Solves
  <2> QED
    BY <1>4
<1>6. FeedAll(s, pieces) = h[n]
  BY DEF FeedAll
<1>7. /\ h[0] = s
      /\ \A i \in 1 .. n : h[i] = Feed(h[i - 1], pieces[i])
      /\ DOMAIN h = 0 .. n /\ h = [i \in 0 .. n |-> h[i]]
  <2> HIDE DEF h
  <2> QED
    BY <1>1, <1>5
<1> HIDE DEF h
<1>8. 0 .. n \subseteq {i \in 0 .. n : h[i] \in State}
  <2> DEFINE T == {i \in 0 .. n : h[i] \in State}
  <2>1. 0 \in T
    BY <1>1, <1>7
  <2>2. ASSUME NEW i \in 1 .. n, i - 1 \in T PROVE i \in T
    <3>1. h[i - 1] \in State /\ pieces[i] \in Piece /\ i \in 0 .. n
      BY <1>1, <2>2
    <3>2. Feed(h[i - 1], pieces[i]) \in State
      BY <3>1, FeedTyped
    <3> QED
      BY <1>7, <3>1, <3>2
  <2> HIDE DEF T
  <2>3. 0 .. n \subseteq T
    BY <1>1, <2>1, <2>2, InductionUpTo
  <2> QED
    BY <2>3 DEF T
<1>9. IsFeeding(h, s, pieces)
  BY <1>7, <1>8 DEF IsFeeding
<1> QED
  BY <1>6, <1>9

-----------------------------------------------------------------------------
(* The state of the read at a position of a log that begins with the line  *)
(* first: behind the text of a line that line is held back, and everything *)
(* held is a line of this log from before the position.  Only a read that  *)
(* began in the middle of a line (open) holds nothing there.               *)

Aligned(s, p, first) ==
  IF p % 2 = 0 THEN s.partial = <<>>
  ELSE \/ s.partial = <<first + p \div 2>>
       \/ s.partial = <<>> /\ s.buffer = <<>> /\ ~from_start

From(line, first, next) ==
  Len(line) = 1 /\ line[1] \in Nat /\ first <= line[1] /\ line[1] < next

Clean(s, p, first) ==
  /\ s \in State
  /\ Aligned(s, p, first)
  /\ \A line \in LinesOf(s) : From(line, first, first + (p + 1) \div 2)

(* The lines a piece may bring.                                            *)
LEMMA PieceFacts ==
  ASSUME NEW log \in LogRecord, NEW p \in Nat
  PROVE  LET piece == PieceAt(log, p + 1)
         IN  /\ piece \in Piece
             /\ piece.line = log.first + p \div 2
             /\ p % 2 = 0 => piece.part = "text"
             /\ p % 2 # 0 => piece.part = "newline"
<1>1. log.first \in Nat /\ p \div 2 \in Nat
  BY DEF LogRecord
<1>2. (p + 1) - 1 = p /\ (p % 2 = 0 => (p + 1) % 2 = 1)
      /\ (p % 2 # 0 => (p + 1) % 2 # 1)
  OBVIOUS
<1> QED
  BY <1>1, <1>2 DEF PieceAt, Piece

(* Behind a line's text, the line is held back and nothing else changed.   *)
LEMMA FeedText ==
  ASSUME NEW log \in LogRecord, NEW p \in Nat, p % 2 = 0,
         NEW s, Clean(s, p, log.first)
  PROVE  LET t == Feed(s, PieceAt(log, p + 1))
         IN  /\ Clean(t, p + 1, log.first)
             /\ s.partial = <<>> /\ t.partial = <<log.first + p \div 2>>
             /\ t.out = s.out /\ t.buffer = s.buffer
<1> DEFINE line == log.first + p \div 2
           t == Feed(s, PieceAt(log, p + 1))
<1>1. /\ s \in State /\ s.partial = <<>>
      /\ \A l \in LinesOf(s) :
           From(l, log.first, log.first + (p + 1) \div 2)
  BY DEF Clean, Aligned
<1>2. t = [s EXCEPT !.partial = Append(@, line)]
  BY PieceFacts DEF Feed
<1>3. log.first \in Nat /\ line \in Nat /\ log.first <= line
  BY DEF LogRecord
<1>4. /\ t.partial = <<line>> /\ t.out = s.out /\ t.buffer = s.buffer
      /\ t \in State
  <2>1. Append(<<>>, line) = <<line>> /\ <<line>> \in Text
    BY <1>3 DEF Text
  <2> HIDE DEF t, line
  <2>2. t = [s EXCEPT !.partial = <<line>>]
    BY <1>1, <1>2, <2>1
  <2> QED
    BY <1>1, <2>1, <2>2 DEF State
<1>5. LinesOf(t) \subseteq LinesOf(s) \cup {<<line>>}
  BY <1>4 DEF LinesOf, Taken, Held
<1>6. /\ log.first + (p + 1) \div 2 <= log.first + (p + 1 + 1) \div 2
      /\ line < log.first + (p + 1 + 1) \div 2
      /\ log.first + (p + 1) \div 2 \in Nat
      /\ log.first + (p + 1 + 1) \div 2 \in Nat
  BY <1>3, Halves
<1>7. Len(<<line>>) = 1 /\ <<line>>[1] = line
  OBVIOUS
<1>8. (p + 1) % 2 # 0 /\ line = log.first + (p + 1) \div 2
  BY <1>3, Halves
<1> HIDE DEF t, line
<1>9. \A l \in LinesOf(t) :
        From(l, log.first, log.first + (p + 1 + 1) \div 2)
  BY <1>1, <1>3, <1>5, <1>6, <1>7 DEF From
<1>10. Aligned(t, p + 1, log.first)
  BY <1>4, <1>8 DEF Aligned
<1> QED
  BY <1>1, <1>4, <1>9, <1>10 DEF Clean, t, line

(* Behind its newline, the line was pushed; a read that began in the       *)
(* middle of it pushes nothing.                                            *)
LEMMA FeedNewline ==
  ASSUME NEW log \in LogRecord, NEW p \in Nat, p % 2 # 0, log.first >= 1,
         log.first + (p + 1) \div 2 <= MaxLines + 1,
         NEW s, Clean(s, p, log.first)
  PROVE  LET t == Feed(s, PieceAt(log, p + 1))
         IN  /\ t = PushLine(s)
             /\ Clean(t, p + 1, log.first)
             /\ Taken(s) \subseteq Taken(t)
             /\ LinesOf(t) \subseteq LinesOf(s)
             /\ \/ s.partial # <<>> /\ KindOf(s.partial) \in LineKind
                \/ s.partial = <<>> /\ s.buffer = <<>> /\ t = s
             /\ from_start /\ Kind[log.first + p \div 2] \in {"single", "multi"}
                  => <<log.first + p \div 2>> \in Taken(t)
<1> DEFINE line == log.first + p \div 2
           t == Feed(s, PieceAt(log, p + 1))
<1>1. /\ s \in State
      /\ \/ s.partial = <<line>>
         \/ s.partial = <<>> /\ s.buffer = <<>> /\ ~from_start
      /\ \A l \in LinesOf(s) :
           From(l, log.first, log.first + (p + 1) \div 2)
  BY DEF Clean, Aligned
<1>2. t = PushLine(s)
  BY PieceFacts DEF Feed
<1>3. /\ log.first \in Nat /\ line \in Nat /\ MaxLines \in Nat
      /\ (p + 1) % 2 = 0
      /\ (p + 1 + 1) \div 2 = (p + 1) \div 2
      /\ line + 1 = log.first + (p + 1) \div 2
  BY Halves, BoundsAssumption DEF LogRecord
<1>4. line \in 1 .. MaxLines
  BY <1>3
<1>5. KindOf(<<line>>) = Kind[line] /\ Kind[line] \in LineKind
  BY <1>3, <1>4, KindAssumption DEF KindOf
<1>6. CASE s.partial = <<line>>
  <2>1. s.partial # <<>> /\ KindOf(s.partial) = Kind[line]
        /\ KindOf(s.partial) \in LineKind
    BY <1>5, <1>6
  <2>2. /\ t \in State /\ t.partial = <<>>
        /\ LinesOf(t) \subseteq LinesOf(s)
        /\ Taken(s) \subseteq Taken(t)
        /\ KindOf(s.partial) \in {"single", "multi"} => s.partial \in Taken(t)
    BY <1>1, <1>2, <2>1, PushLineKeeps
  <2> HIDE DEF t, line
  <2>3. Clean(t, p + 1, log.first)
    BY <1>1, <1>3, <2>2 DEF Clean, Aligned
  <2> QED
    BY <1>2, <1>6, <2>1, <2>2, <2>3 DEF t, line
<1>7. CASE s.partial = <<>> /\ s.buffer = <<>> /\ ~from_start
  <2>1. t = s
    BY <1>1, <1>2, <1>7, PushNothing
  <2>2. Clean(t, p + 1, log.first)
    BY <1>1, <1>3, <1>7, <2>1 DEF Clean, Aligned
  <2> QED
    BY <1>2, <1>7, <2>1, <2>2
<1> QED
  BY <1>1, <1>6, <1>7

-----------------------------------------------------------------------------
(* The order of lines, put together from that of parts.                    *)

Before(A, B) == \A line \in A, other \in B : Earlier(line, other)

ItemInOrder(item) ==
  \A k, l \in DOMAIN item : k < l => Earlier(item[k], item[l])

(* For whole lines, earlier is smaller.                                    *)
LEMMA EarlierLines ==
  ASSUME NEW line, NEW other, Len(line) = 1, Len(other) = 1,
         line \in Text, other \in Text, line[1] < other[1]
  PROVE  Earlier(line, other)
<1>1. ToSet(line) = {line[1]} /\ ToSet(other) = {other[1]}
  BY DEF ToSet, Text
<1> QED
  BY <1>1 DEF Earlier

(* Items in order, all before other items in order.                        *)
LEMMA OrderOfConcat ==
  ASSUME NEW a \in Seq(Item), NEW b \in Seq(Item),
         InLogOrder(a), InLogOrder(b), Before(LinesIn(a), LinesIn(b))
  PROVE  InLogOrder(a \o b)
<1> DEFINE c == a \o b
<1>1. /\ Len(a) \in Nat /\ Len(b) \in Nat
      /\ \A i \in 1 .. Len(a) : c[i] = a[i]
      /\ \A i \in 1 .. Len(b) : c[Len(a) + i] = b[i]
      /\ \A i : i \in DOMAIN c <=> i \in 1 .. Len(a) + Len(b)
      /\ \A i : i \in DOMAIN a <=> i \in 1 .. Len(a)
      /\ \A i : i \in DOMAIN b <=> i \in 1 .. Len(b)
  OBVIOUS
<1> HIDE DEF c
<1> SUFFICES ASSUME NEW i \in DOMAIN c, NEW j \in DOMAIN c,
                    NEW k \in DOMAIN c[i], NEW l \in DOMAIN c[j],
                    i < j \/ (i = j /\ k < l)
             PROVE  Earlier(c[i][k], c[j][l])
  BY DEF InLogOrder, c
<1>2. CASE i \in 1 .. Len(a) /\ j \in 1 .. Len(a)
  <2>1. /\ c[i] = a[i] /\ c[j] = a[j]
        /\ i \in DOMAIN a /\ j \in DOMAIN a
    BY <1>1, <1>2
  <2> QED
    BY <2>1 DEF InLogOrder
<1>3. CASE i - Len(a) \in 1 .. Len(b) /\ j - Len(a) \in 1 .. Len(b)
  <2>1. /\ c[i] = b[i - Len(a)] /\ c[j] = b[j - Len(a)]
        /\ i - Len(a) \in DOMAIN b /\ j - Len(a) \in DOMAIN b
        /\ i - Len(a) < j - Len(a) \/ (i - Len(a) = j - Len(a) /\ k < l)
    BY <1>1, <1>3
  <2> QED
    BY <2>1 DEF InLogOrder
<1>4. CASE i \in 1 .. Len(a) /\ j - Len(a) \in 1 .. Len(b)
  <2>1. /\ c[i] = a[i] /\ c[j] = b[j - Len(a)]
        /\ i \in DOMAIN a /\ j - Len(a) \in DOMAIN b
    BY <1>1, <1>4
  <2>2. c[i][k] \in LinesIn(a) /\ c[j][l] \in LinesIn(b)
    BY <2>1 DEF LinesIn, ToSet
  <2> QED
    BY <2>2 DEF Before
<1>5. /\ i \in 1 .. Len(a) \/ i - Len(a) \in 1 .. Len(b)
      /\ j \in 1 .. Len(a) \/ j - Len(a) \in 1 .. Len(b)
      /\ i - Len(a) \in 1 .. Len(b) => j - Len(a) \in 1 .. Len(b)
  BY <1>1
<1> QED
  BY <1>2, <1>3, <1>4, <1>5

(* One item in order.                                                      *)
LEMMA OrderOfOne ==
  ASSUME NEW item \in Item, ItemInOrder(item)
  PROVE  InLogOrder(<<item>>)
<1>1. \A i \in DOMAIN <<item>> : i = 1 /\ <<item>>[i] = item
  OBVIOUS
<1> QED
  BY <1>1 DEF InLogOrder, ItemInOrder

(* The entry in progress in order.                                         *)
LEMMA OrderOfProgress ==
  ASSUME NEW s \in State, ItemInOrder(s.buffer)
  PROVE  InLogOrder(InProgress(s))
<1>1. s.buffer \in Item
  BY DEF State
<1>2. InLogOrder(<<>>)
  BY DEF InLogOrder
<1> QED
  BY <1>1, <1>2, OrderOfOne DEF InProgress

(* An entry in order that takes a later line.                              *)
LEMMA OrderOfLonger ==
  ASSUME NEW item \in Item, NEW line \in Text, ItemInOrder(item),
         Before(ToSet(item), {line})
  PROVE  ItemInOrder(Append(item, line))
<1> DEFINE c == Append(item, line)
<1>1. /\ Len(item) \in Nat
      /\ \A k \in 1 .. Len(item) : c[k] = item[k] /\ k \in DOMAIN item
      /\ c[Len(item) + 1] = line
      /\ \A k : k \in DOMAIN c <=> k \in 1 .. Len(item) + 1
  BY DEF Item
<1> HIDE DEF c
<1> SUFFICES ASSUME NEW k \in DOMAIN c, NEW l \in DOMAIN c, k < l
             PROVE  Earlier(c[k], c[l])
  BY DEF ItemInOrder, c
<1>2. k \in 1 .. Len(item) /\ (l \in 1 .. Len(item) \/ l = Len(item) + 1)
  BY <1>1
<1>3. CASE l \in 1 .. Len(item)
  BY <1>1, <1>2, <1>3 DEF ItemInOrder
<1>4. CASE l = Len(item) + 1
  <2>1. c[k] \in ToSet(item) /\ c[l] = line
    BY <1>1, <1>2, <1>4 DEF ToSet
  <2> QED
    BY <2>1 DEF Before
<1> QED
  BY <1>2, <1>3, <1>4

OrderHeld(s) ==
  /\ InLogOrder(s.out)
  /\ ItemInOrder(s.buffer)
  /\ Before(LinesIn(s.out), ToSet(s.buffer))
  /\ Before(Taken(s), Held(s))

(* push_line keeps the order of what was taken and is held.                *)
LEMMA PushLineOrder ==
  ASSUME NEW s \in State, s.partial # <<>>, KindOf(s.partial) \in LineKind,
         OrderHeld(s)
  PROVE  OrderHeld(PushLine(s))
<1> DEFINE t == PushLine(s)
           kind == KindOf(s.partial)
           X == s.out \o InProgress(s)
<1>1. /\ s.partial \in Text /\ s.buffer \in Item /\ s.out \in Seq(Item)
      /\ Held(s) = {s.partial}
  BY DEF State, Held
<1>2. /\ InLogOrder(s.out) /\ ItemInOrder(s.buffer)
      /\ Before(LinesIn(s.out), ToSet(s.buffer))
      /\ Before(Taken(s), {s.partial})
  BY <1>1 DEF OrderHeld
<1>3. /\ InProgress(s) \in Seq(Item)
      /\ LinesIn(InProgress(s)) = ToSet(s.buffer)
      /\ InLogOrder(InProgress(s))
  BY <1>2, LinesOfProgress, OrderOfProgress
<1>4. X \in Seq(Item) /\ LinesIn(X) = Taken(s) /\ InLogOrder(X)
  BY <1>1, <1>2, <1>3, LinesOfConcat, OrderOfConcat DEF Taken
<1>5. /\ t = [partial |-> <<>>, buffer |-> t.buffer, out |-> t.out]
      /\ kind = "single" =>
           t.buffer = <<>> /\ t.out = X \o <<<<s.partial>>>>
      /\ kind = "multi" => t.buffer = <<s.partial>> /\ t.out = X
      /\ kind = "text" => t.buffer = Longer(s) /\ t.out = s.out
      /\ kind = "closing" =>
           /\ t.buffer = <<>>
           /\ t.out = s.out \o (IF s.buffer = <<>> THEN <<>>
                                ELSE <<Longer(s)>>)
  BY PushLineForms
<1>6. t.partial = <<>>
  <2>1. PICK b, o : t = [partial |-> <<>>, buffer |-> b, out |-> o]
    BY <1>5
  <2> QED
    BY <2>1
<1>7. kind \in {"single", "multi", "text", "closing"}
  BY DEF LineKind
<1> HIDE DEF t, kind, X
<1>8. Before(Taken(t), Held(t))
  BY <1>6 DEF Before, Held
<1>9. /\ <<s.partial>> \in Item /\ ItemInOrder(<<s.partial>>)
      /\ ToSet(<<s.partial>>) = {s.partial}
  <2>1. \A k \in DOMAIN <<s.partial>> : k = 1
    OBVIOUS
  <2> QED
    BY <1>1, <2>1 DEF ItemInOrder, ToSet, Item
<1>10. ItemInOrder(<<>>) /\ \A A : Before(A, ToSet(<<>>))
  BY LinesOfNone DEF ItemInOrder, Before
<1>11. s.buffer # <<>> =>
         /\ Longer(s) = Append(s.buffer, s.partial) /\ Longer(s) \in Item
         /\ ItemInOrder(Longer(s))
         /\ ToSet(Longer(s)) = ToSet(s.buffer) \cup {s.partial}
         /\ Before(LinesIn(s.out), ToSet(Longer(s)))
  <2> SUFFICES ASSUME s.buffer # <<>>
               PROVE  /\ Longer(s) = Append(s.buffer, s.partial)
                      /\ Longer(s) \in Item
                      /\ ItemInOrder(Longer(s))
                      /\ ToSet(Longer(s)) = ToSet(s.buffer) \cup {s.partial}
                      /\ Before(LinesIn(s.out), ToSet(Longer(s)))
    OBVIOUS
  <2>1. Longer(s) = Append(s.buffer, s.partial)
    BY DEF Longer
  <2>2. Before(ToSet(s.buffer), {s.partial})
    BY <1>2 DEF Before, Taken
  <2>3. ItemInOrder(Longer(s))
    BY <1>1, <1>2, <2>1, <2>2, OrderOfLonger
  <2>4. /\ Longer(s) \in Item
        /\ ToSet(Longer(s)) = ToSet(s.buffer) \cup {s.partial}
    BY <1>1, <2>1, MembersOfAppend DEF Item
  <2>5. Before(LinesIn(s.out), ToSet(Longer(s)))
    BY <1>2, <2>4 DEF Before, Taken
  <2> QED
    BY <2>1, <2>3, <2>4, <2>5
<1>12. CASE kind = "single"
  <2>1. t.buffer = <<>> /\ t.out = X \o <<<<s.partial>>>>
    BY <1>5, <1>12
  <2>2. /\ <<<<s.partial>>>> \in Seq(Item)
        /\ LinesIn(<<<<s.partial>>>>) = {s.partial}
        /\ InLogOrder(<<<<s.partial>>>>)
    BY <1>9, LinesOfOne, OrderOfOne
  <2>3. InLogOrder(t.out)
    BY <1>2, <1>4, <2>1, <2>2, OrderOfConcat
  <2> QED
    BY <1>8, <1>10, <2>1, <2>3 DEF OrderHeld, t
<1>13. CASE kind = "multi"
  <2>1. t.buffer = <<s.partial>> /\ t.out = X
    BY <1>5, <1>13
  <2> QED
    BY <1>2, <1>4, <1>8, <1>9, <2>1 DEF OrderHeld, t
<1>14. CASE kind = "text"
  <2>1. t.buffer = Longer(s) /\ t.out = s.out
    BY <1>5, <1>14
  <2>2. s.buffer = <<>> => Longer(s) = <<>>
    BY DEF Longer
  <2> QED
    BY <1>2, <1>8, <1>10, <1>11, <2>1, <2>2 DEF OrderHeld, t
<1>15. CASE kind = "closing"
  <2>1. /\ t.buffer = <<>>
        /\ t.out = IF s.buffer = <<>> THEN s.out ELSE s.out \o <<Longer(s)>>
    <3>1. s.out \o <<>> = s.out
      BY <1>1
    <3> QED
      BY <1>5, <1>15, <3>1
  <2>2. CASE s.buffer = <<>>
    BY <1>2, <1>8, <1>10, <2>1, <2>2 DEF OrderHeld, t
  <2>3. CASE s.buffer # <<>>
    <3>1. /\ <<Longer(s)>> \in Seq(Item)
          /\ LinesIn(<<Longer(s)>>) = ToSet(Longer(s))
          /\ InLogOrder(<<Longer(s)>>)
      BY <1>11, <2>3, LinesOfOne, OrderOfOne
    <3>2. InLogOrder(s.out \o <<Longer(s)>>)
      BY <1>1, <1>2, <1>11, <2>3, <3>1, OrderOfConcat
    <3> QED
      BY <1>8, <1>10, <2>1, <2>3, <3>2 DEF OrderHeld, t
  <2> QED
    BY <2>2, <2>3
<1> QED
  BY <1>7, <1>12, <1>13, <1>14, <1>15

-----------------------------------------------------------------------------
(* What is true after the first q pieces of a chunk that is read from      *)
(* position p on.                                                          *)
IsHeader(piece) ==
  piece.part = "newline" /\ Kind[piece.line] \in {"single", "multi"}

ReadSoFar(s, t, log, p, q) ==
  /\ Clean(t, p + q, log.first)
  /\ Taken(s) \subseteq Taken(t)
  /\ \A line \in LinesOf(t) :
       line \in LinesOf(s) \/ line[1] >= log.first + (p + 1) \div 2
  /\ from_start =>
       \A r \in p + 1 .. p + q :
         IsHeader(PieceAt(log, r)) => <<PieceAt(log, r).line>> \in Taken(t)
  /\ OrderHeld(s) => OrderHeld(t)

(* One more piece keeps it: the text by FeedText, the newline by           *)
(* FeedNewline.                                                            *)
LEMMA ReadOne ==
  ASSUME NEW log \in LogRecord, NEW p \in Nat, NEW q \in Nat, log.first >= 1,
         log.first + (p + q + 1 + 1) \div 2 <= MaxLines + 1,
         NEW s, NEW t, ReadSoFar(s, t, log, p, q)
  PROVE  ReadSoFar(s, Feed(t, PieceAt(log, p + q + 1)), log, p, q + 1)
<1> DEFINE u == Feed(t, PieceAt(log, p + q + 1))
           line == log.first + (p + q) \div 2
<1>1. /\ Clean(t, p + q, log.first) /\ p + q \in Nat /\ t \in State
      /\ p + (q + 1) = (p + q) + 1 /\ log.first \in Nat
  BY DEF ReadSoFar, LogRecord, Clean
<1>2. /\ PieceAt(log, p + q + 1).line = line
      /\ (p + q) % 2 = 0 => PieceAt(log, p + q + 1).part = "text"
      /\ (p + q) % 2 # 0 => PieceAt(log, p + q + 1).part = "newline"
  BY <1>1, PieceFacts
<1>3. \A r \in p + 1 .. p + (q + 1) : r \in p + 1 .. p + q \/ r = p + q + 1
  OBVIOUS
<1>4. CASE (p + q) % 2 = 0
  <2>1. /\ Clean(u, p + q + 1, log.first)
        /\ t.partial = <<>> /\ u.partial = <<line>>
        /\ u.out = t.out /\ u.buffer = t.buffer
    <3>1. PICK r \in Nat : r = p + q
      BY <1>1
    <3>2. r % 2 = 0 /\ Clean(t, r, log.first)
      BY <1>1, <1>4, <3>1
    <3>3. LET v == Feed(t, PieceAt(log, r + 1))
          IN  /\ Clean(v, r + 1, log.first)
              /\ t.partial = <<>> /\ v.partial = <<log.first + r \div 2>>
              /\ v.out = t.out /\ v.buffer = t.buffer
      BY <3>2, FeedText
    <3> QED
      BY <3>1, <3>3
  <2>2. line >= log.first + (p + 1) \div 2
    <3>1. (p + 1) \div 2 <= (p + q + 1) \div 2
      BY Halves
    <3>2. (p + q + 1) \div 2 = (p + q) \div 2
      BY <1>1, <1>4, Halves
    <3> QED
      BY <1>1, <3>1, <3>2
  <2> HIDE DEF u, line
  <2>3. Taken(u) = Taken(t) /\ Held(t) = {} /\ Held(u) = {<<line>>}
    <3>1. <<line>> # <<>>
      OBVIOUS
    <3>2. Taken(u) = Taken(t)
      BY <2>1 DEF Taken
    <3>3. Held(t) = {}
      BY <2>1 DEF Held
    <3>4. Held(u) = {<<line>>}
      BY <2>1, <3>1 DEF Held
    <3> QED
      BY <3>2, <3>3, <3>4
  <2>4. \A l \in LinesOf(u) :
          l \in LinesOf(s) \/ l[1] >= log.first + (p + 1) \div 2
    <3>1. <<line>>[1] = line
      OBVIOUS
    <3> QED
      BY <2>2, <2>3, <3>1 DEF ReadSoFar, LinesOf
  <2>5. ~IsHeader(PieceAt(log, p + q + 1))
    BY <1>2, <1>4 DEF IsHeader
  <2>6. OrderHeld(t) => OrderHeld(u)
    <3> SUFFICES ASSUME OrderHeld(t) PROVE Before(Taken(u), Held(u))
      BY <2>1 DEF OrderHeld
    <3> SUFFICES ASSUME NEW l \in Taken(t) PROVE Earlier(l, <<line>>)
      BY <2>3 DEF Before
    <3>1. Len(l) = 1 /\ l[1] < log.first + (p + q + 1) \div 2
      BY <1>1 DEF Clean, From, LinesOf
    <3>2. l[1] < line
      BY <1>1, <1>4, <3>1, Halves DEF line
    <3>3. l \in Text
      BY <1>1, LinesAreText DEF LinesOf
    <3>4. <<line>> \in Text /\ Len(<<line>>) = 1 /\ <<line>>[1] = line
      BY <1>1 DEF Text, line
    <3> QED
      BY <3>1, <3>2, <3>3, <3>4, EarlierLines
  <2> QED
    BY <1>1, <1>3, <2>1, <2>3, <2>4, <2>5, <2>6 DEF ReadSoFar, u
<1>5. CASE (p + q) % 2 # 0
  <2>1. (p + q + 1 + 1) \div 2 = (p + q + 1) \div 2
    BY <1>1, <1>5, Halves
  <2>2. log.first + (p + q + 1) \div 2 <= MaxLines + 1
    BY <2>1
  <2>3. /\ u = PushLine(t)
        /\ Clean(u, p + q + 1, log.first)
        /\ Taken(t) \subseteq Taken(u)
        /\ LinesOf(u) \subseteq LinesOf(t)
        /\ \/ t.partial # <<>> /\ KindOf(t.partial) \in LineKind
           \/ t.partial = <<>> /\ t.buffer = <<>> /\ u = t
        /\ from_start /\ Kind[line] \in {"single", "multi"} =>
             <<line>> \in Taken(u)
    BY <1>1, <1>5, <2>2, FeedNewline
  <2> HIDE DEF u, line
  <2>4. OrderHeld(t) => OrderHeld(u)
    BY <1>1, <2>3, PushLineOrder
  <2>5. from_start => \A r \in p + 1 .. p + (q + 1) :
          IsHeader(PieceAt(log, r)) => <<PieceAt(log, r).line>> \in Taken(u)
    BY <1>2, <1>3, <2>3 DEF ReadSoFar, IsHeader
  <2> QED
    BY <1>1, <2>3, <2>4, <2>5 DEF ReadSoFar, u
<1> QED
  BY <1>4, <1>5

(* And after the whole chunk.                                              *)
LEMMA ReadAll ==
  ASSUME NEW log \in LogRecord, NEW p \in Nat, NEW n \in Nat, log.first >= 1,
         log.first + (p + n + 1) \div 2 <= MaxLines + 1,
         NEW s, Clean(s, p, log.first),
         NEW pieces, pieces = [i \in 1 .. n |-> PieceAt(log, p + i)]
  PROVE  ReadSoFar(s, FeedAll(s, pieces), log, p, n)
<1>1. /\ pieces \in Seq(Piece) /\ Len(pieces) = n
      /\ \A i \in 1 .. n : pieces[i] = PieceAt(log, p + i)
  <2>1. ASSUME NEW i \in 1 .. n PROVE PieceAt(log, p + i) \in Piece
    <3>1. p + (i - 1) \in Nat /\ (p + (i - 1)) + 1 = p + i
      OBVIOUS
    <3>2. PieceAt(log, (p + (i - 1)) + 1) \in Piece
      BY <3>1, PieceFacts
    <3> QED
      BY <3>1, <3>2
  <2> QED
    BY <2>1
<1>2. s \in State
  BY DEF Clean
<1>3. PICK f : IsFeeding(f, s, pieces) /\ FeedAll(s, pieces) = f[Len(pieces)]
  BY <1>1, <1>2, FeedAllWalk
<1> DEFINE T == {q \in 0 .. n : ReadSoFar(s, f[q], log, p, q)}
<1>4. 0 \in T
  <2>1. f[0] = s /\ p + 0 = p
    BY <1>3 DEF IsFeeding
  <2>2. \A r : r \notin p + 1 .. p + 0
    OBVIOUS
  <2>3. ReadSoFar(s, s, log, p, 0)
    BY <2>1, <2>2 DEF ReadSoFar
  <2> QED
    BY <2>1, <2>3
<1>5. ASSUME NEW i \in 1 .. n, i - 1 \in T PROVE i \in T
  <2>1. /\ i - 1 \in Nat /\ (i - 1) + 1 = i /\ p + (i - 1) + 1 = p + i
        /\ ReadSoFar(s, f[i - 1], log, p, i - 1)
    BY <1>5
  <2>2. log.first + (p + (i - 1) + 1 + 1) \div 2 <= MaxLines + 1
    <3>1. (p + i + 1) \div 2 <= (p + n + 1) \div 2
          /\ (p + i + 1) \div 2 \in Nat /\ (p + n + 1) \div 2 \in Nat
      BY Halves
    <3>2. log.first \in Nat /\ MaxLines \in Nat
      BY BoundsAssumption DEF LogRecord
    <3> QED
      BY <2>1, <3>1, <3>2
  <2>3. ReadSoFar(s, Feed(f[i - 1], PieceAt(log, p + (i - 1) + 1)), log, p,
                  (i - 1) + 1)
    BY <2>1, <2>2, ReadOne
  <2>4. f[i] = Feed(f[i - 1], PieceAt(log, p + i))
    BY <1>1, <1>3 DEF IsFeeding
  <2> QED
    BY <2>1, <2>3, <2>4
<1> HIDE DEF T
<1>6. 0 .. n \subseteq T
  BY <1>4, <1>5, InductionUpTo
<1>7. n \in T
  BY <1>6
<1> QED
  BY <1>1, <1>3, <1>7 DEF T

(* What a flush hands on is what was held.                                 *)
Flushed(s) == IF s.partial = <<>> THEN s ELSE PushLine(s)

(* A flush hands on every line that was taken, only what was held, and in  *)
(* order.                                                                  *)
LEMMA FlushKeeps ==
  ASSUME NEW s \in State, s.partial = <<>> \/ KindOf(s.partial) \in LineKind
  PROVE  LET t == Flushed(s)
             items == t.out \o InProgress(t)
         IN  /\ t.out \in Seq(Item) /\ InProgress(t) \in Seq(Item)
             /\ items \in Seq(Item)
             /\ LinesIn(items) \subseteq LinesOf(s)
             /\ Taken(s) \subseteq LinesIn(items)
             /\ OrderHeld(s) => InLogOrder(items)
<1> DEFINE t == Flushed(s)
<1>1. /\ t \in State
      /\ LinesOf(t) \subseteq LinesOf(s)
      /\ Taken(s) \subseteq Taken(t)
      /\ OrderHeld(s) => OrderHeld(t)
  <2>1. CASE s.partial = <<>>
    BY <2>1 DEF Flushed
  <2>2. CASE s.partial # <<>>
    BY <2>2, PushLineKeeps, PushLineOrder DEF Flushed
  <2> QED
    BY <2>1, <2>2
<1> HIDE DEF t
<1>2. /\ t.out \in Seq(Item) /\ InProgress(t) \in Seq(Item)
      /\ LinesIn(InProgress(t)) = ToSet(t.buffer)
  BY <1>1, LinesOfProgress DEF State
<1>3. /\ t.out \o InProgress(t) \in Seq(Item)
      /\ LinesIn(t.out \o InProgress(t)) = Taken(t)
  BY <1>2, LinesOfConcat DEF Taken
<1>4. OrderHeld(t) => InLogOrder(t.out \o InProgress(t))
  BY <1>1, <1>2, OrderOfProgress, OrderOfConcat DEF OrderHeld
<1> QED
  BY <1>1, <1>2, <1>3, <1>4 DEF LinesOf, t

-----------------------------------------------------------------------------
(* The entries the tailer hands on, for every log and every number of logs, *)
(* every read buffer and every order of the game's and the tailer's steps:  *)
(* made of whole lines, none skipped, of one log each, with a rotation      *)
(* between logs, and in the order of the logs.                              *)

(* The handle is open, and its log was not truncated under it.             *)
Sound == handle.file # 0 /\ handle.position <= files[handle.file].size

First == files[handle.file].first

(* The line that begins behind the position.                               *)
Reached == First + (handle.position + 1) \div 2

AllLines == LinesIn(sent) \cup LinesOf(Leftover)

(* What was handed on or is held are whole lines that the game wrote; what *)
(* is held is from the log that is open, and from before the position.     *)
LinesOK ==
  /\ sent \in Seq(Item)
  /\ Leftover \in State
  /\ \A line \in AllLines : From(line, 1, written + 1)
  /\ Sound => \A line \in LinesOf(Leftover) : From(line, First, Reached)
  /\ Sound /\ tailer # "stopped" => Aligned(Leftover, handle.position, First)
  /\ tailer \in {"closed", "opened", "seeking"} =>
       sent = <<>> /\ partial_line = <<>> /\ line_buffer = <<>>
  /\ tailer = "seeking" => ~from_start

Inv == IInv /\ LogsOK /\ HandleOK

(* What the invariants say of the types.                                   *)
LEMMA TypesOfInv ==
  ASSUME Inv
  PROVE  /\ Len(files) \in Nat
         /\ \A f : f \in DOMAIN files <=> f \in 1 .. Len(files)
         /\ \A f \in DOMAIN files :
              /\ files[f] \in LogRecord
              /\ files[f].first \in Nat /\ files[f].first >= 1
              /\ files[f].size \in Nat
              /\ Beyond(f) \in Nat /\ Beyond(f) <= written + 1
         /\ handle \in [file : 0 .. Len(files), position : Nat]
         /\ handle.position \in Nat
         /\ handle.file # 0 => handle.file \in DOMAIN files
         /\ path # 0 => path \in DOMAIN files
         /\ tailer = "closed" <=> handle.file = 0
         /\ written \in Nat /\ written <= MaxLines /\ MaxLines \in Nat
         /\ tailer \in TailerState
<1>1. /\ Len(files) \in Nat
      /\ \A f : f \in DOMAIN files <=> f \in 1 .. Len(files)
      /\ \A f \in DOMAIN files : files[f] \in LogRecord
  <2>1. files \in Seq(LogRecord)
    BY DEF Inv, IInv, PositionsOK
  <2> QED
    BY <2>1
<1>a. /\ handle \in [file : 0 .. Len(files), position : Nat]
      /\ path \in 0 .. Len(files) /\ written \in Nat /\ tailer \in TailerState
      /\ tailer # "closed" => handle.file # 0
      /\ tailer = "closed" => handle.file = 0
      /\ written <= MaxLines /\ MaxLines \in Nat
  BY BoundsAssumption DEF Inv, IInv, PositionsOK, LogsOK, HandleOK
<1>2. \A f \in DOMAIN files : files[f].first \in Nat /\ files[f].size \in Nat
  BY <1>1 DEF LogRecord
<1>3. \A f \in DOMAIN files : Beyond(f) \in Nat
  BY <1>2, Halves DEF Beyond
<1>4. \A f \in DOMAIN files : files[f].first >= 1 /\ Beyond(f) <= written + 1
  BY DEF Inv, LogsOK
<1>5. handle.position \in Nat /\ handle.file \in 0 .. Len(files)
  BY <1>a
<1> QED
  BY <1>1, <1>a, <1>2, <1>3, <1>4, <1>5

(* While the log is not truncated under the handle, the position is in it. *)
LEMMA SoundFacts ==
  ASSUME Inv, Sound
  PROVE  /\ handle.file \in DOMAIN files
         /\ First \in Nat /\ First >= 1
         /\ Reached \in Nat /\ Reached <= Beyond(handle.file)
         /\ Reached <= written + 1
         /\ handle.file = path \/ path = 0 \/ Reached <= files[path].first
         /\ replaced => handle.file # path
<1>1. /\ handle.file \in DOMAIN files /\ handle.position \in Nat
      /\ files[handle.file].size \in Nat /\ First \in Nat /\ First >= 1
      /\ Beyond(handle.file) \in Nat /\ Beyond(handle.file) <= written + 1
      /\ written \in Nat
      /\ path # 0 => path \in DOMAIN files /\ files[path].first \in Nat
      /\ \A f : f \in DOMAIN files <=> f \in 1 .. Len(files)
      /\ Len(files) \in Nat
  BY TypesOfInv DEF Sound, First
<1>2. /\ (handle.position + 1) \div 2 <= (files[handle.file].size + 1) \div 2
      /\ (handle.position + 1) \div 2 \in Nat
      /\ (files[handle.file].size + 1) \div 2 \in Nat
  BY <1>1, Halves DEF Sound
<1>3. Reached \in Nat /\ Reached <= Beyond(handle.file)
  <2>1. PICK x, y \in Nat : /\ x = (handle.position + 1) \div 2
                            /\ y = (files[handle.file].size + 1) \div 2
                            /\ x <= y
    BY <1>2
  <2>2. Reached = First + x /\ Beyond(handle.file) = First + y
    BY <2>1 DEF Reached, Beyond, First
  <2>3. First \in Nat
    BY <1>1
  <2>4. First + x \in Nat /\ First + x <= First + y
    BY <2>1, <2>3
  <2> QED
    BY <2>2, <2>4
<1>4. ASSUME handle.file # path, path # 0
      PROVE  Beyond(handle.file) <= files[path].first
  <2>1. path = Len(files)
    BY <1>4 DEF Inv, LogsOK
  <2>2. handle.file < path
    BY <1>1, <1>4, <2>1
  <2> QED
    BY <1>1, <1>4, <2>2 DEF Inv, LogsOK
<1>5. replaced => handle.file # path
  BY <1>1 DEF Inv, HandleOK, Sound
<1> QED
  BY <1>1, <1>3, <1>4, <1>5

-----------------------------------------------------------------------------
(* What the game leaves alone, and how its logs grow.  A handle that was   *)
(* on a truncated log stays behind its end: see Write.                     *)
LEMMA GameKeeps ==
  ASSUME Inv, HandleOK', Game
  PROVE  /\ UNCHANGED <<from_start, once, tailer, sent, partial_line,
                        line_buffer, entries, last_rotation>>
         /\ written' \in Nat /\ written' >= written
         /\ Sound' => Sound /\ handle' = handle /\ First' = First
         /\ \A f \in DOMAIN files :
              /\ f \in DOMAIN files'
              /\ files'[f].first = files[f].first
              /\ files'[f].size \in Nat
              /\ files'[f].size >= files[f].size
<1>t. /\ Len(files) \in Nat
      /\ \A f : f \in DOMAIN files <=> f \in 1 .. Len(files)
      /\ \A f \in DOMAIN files :
           files[f].first \in Nat /\ files[f].size \in Nat
      /\ handle.file # 0 => handle.file \in DOMAIN files
      /\ handle.position \in Nat
      /\ written \in Nat
      /\ path # 0 => path \in DOMAIN files
      /\ IInv /\ LogsOK /\ HandleOK
  BY TypesOfInv DEF Inv
<1>1. UNCHANGED <<from_start, once, tailer, sent, partial_line,
                  line_buffer, entries, last_rotation>>
  BY DEF Game, Write, MoveAway, Create, Truncate, Tick, modeVars, openVars,
         rotateVars, lineVars
<1>2. CASE Write
  <2>1. /\ path \in DOMAIN files /\ DOMAIN files' = DOMAIN files
        /\ \A f \in DOMAIN files :
              /\ files'[f].first = files[f].first
              /\ f # path => files'[f] = files[f]
        /\ files'[path].size = files[path].size + 1
    BY <1>t, <1>2, WriteGrows
  <2>2. /\ UNCHANGED <<handle, path, replaced>>
        /\ written' \in {written, written + 1}
    BY <1>2 DEF Write, openVars, rotateVars
  <2>3. \A f \in DOMAIN files : /\ files'[f].size \in Nat
                                /\ files'[f].size >= files[f].size
    <3> TAKE f \in DOMAIN files
    <3>1. CASE f = path
      BY <1>t, <2>1, <3>1
    <3>2. CASE f # path
      BY <1>t, <2>1, <3>2
    <3> QED
      BY <3>1, <3>2
  <2>4. ASSUME Sound' PROVE Sound /\ handle' = handle /\ First' = First
    <3>1. handle.file # 0 /\ handle.position <= files'[handle.file].size
      BY <2>2, <2>4 DEF Sound
    <3>2. CASE handle.file = path
      <4>1. ~replaced
        BY <2>2, <3>1, <3>2, <1>t, <2>3 DEF HandleOK
      <4> QED
        BY <1>t, <2>1, <2>2, <3>1, <4>1 DEF HandleOK, Sound, First
    <3>3. CASE handle.file # path
      BY <1>t, <2>1, <2>2, <3>1, <3>3 DEF Sound, First
    <3> QED
      BY <3>2, <3>3
  <2> QED
    BY <1>1, <1>t, <2>1, <2>2, <2>3, <2>4
<1>3. CASE MoveAway \/ Tick
  <2>1. UNCHANGED <<files, handle, written>>
    BY <1>3 DEF MoveAway, Tick, openVars
  <2> QED
    BY <1>1, <1>t, <2>1 DEF Sound, First
<1>4. CASE Create \/ Truncate
  <2>1. /\ files' = Append(files, NewLog) /\ written' = written
        /\ path' = Len(files) + 1
    BY <1>4 DEF Create, Truncate
  <2>2. /\ DOMAIN files' = DOMAIN files \cup {Len(files) + 1}
        /\ \A f \in DOMAIN files : files'[f] = files[f]
        /\ files'[Len(files) + 1] = NewLog /\ NewLog.size = 0
    BY <1>t, <2>1, AppendGrows DEF NewLog
  <2>3. ASSUME Sound' PROVE Sound /\ handle' = handle /\ First' = First
    <3>1. CASE handle' = handle
      <4>1. handle.file \in DOMAIN files
        BY <1>t, <2>3, <3>1 DEF Sound
      <4> QED
        BY <2>2, <2>3, <3>1, <4>1 DEF Sound, First
    <3>2. CASE handle' # handle
      <4>1. /\ handle.file = path /\ handle'.position = handle.position
            /\ handle'.file = path' /\ handle.position > 0
        BY <1>4, <3>2 DEF Create, Truncate, openVars
      <4>2. files'[handle'.file].size = 0
        BY <2>1, <2>2, <4>1
      <4> QED
        BY <1>t, <2>3, <4>1, <4>2 DEF Sound
    <3> QED
      BY <3>1, <3>2
  <2> QED
    BY <1>1, <1>t, <2>1, <2>2, <2>3
<1> QED
  BY <1>2, <1>3, <1>4 DEF Game

(* A line stays in its log.                                                *)
Within(line, log) ==
  log.first <= line[1] /\ line[1] < log.first + (log.size + 1) \div 2

(* What a step of the tailer leaves alone.                                 *)
LEMMA TailerKeeps ==
  ASSUME Opening \/ Poll \/ ReadError \/ Stop
  PROVE  UNCHANGED <<from_start, once, files, path, written, clock>>
  BY DEF Opening, Open, InitialMtime, SeekEnd, Poll, NoCheck, CheckRotation,
         Reopen, ReadChunk, EndPoll, ReadError, Stop, modeVars, gameVars

(* A read is in the log, from the position on.                             *)
LEMMA ReadFacts ==
  ASSUME Inv, LinesOK, ReadChunk
  PROVE  \E n \in Nat :
           /\ n >= 1
           /\ Sound /\ tailer = "reading"
           /\ handle'.file = handle.file
           /\ handle'.position = handle.position + n
           /\ handle.position + n <= files[handle.file].size
           /\ First + (handle.position + n + 1) \div 2
                \in Reached .. written + 1
           /\ First + (handle.position + n + 1) \div 2 <= Beyond(handle.file)
           /\ Leftover' = FeedAll(Leftover, Chunk(n))
           /\ ReadSoFar(Leftover, FeedAll(Leftover, Chunk(n)),
                        files[handle.file], handle.position, n)
<1>1. PICK n \in 1 .. ReadBufferCapacity :
        /\ handle.position + n <= files[handle.file].size
        /\ LET s == FeedAll(Leftover, Chunk(n))
           IN  /\ partial_line' = s.partial
               /\ line_buffer' = s.buffer
               /\ entries' = s.out
        /\ handle' = [handle EXCEPT !.position = @ + n]
  BY DEF ReadChunk
<1>2. /\ n \in Nat /\ n >= 1 /\ tailer = "reading"
      /\ handle \in [file : 0 .. Len(files), position : Nat]
      /\ handle.position \in Nat /\ handle.file \in DOMAIN files
      /\ files[handle.file] \in LogRecord
      /\ files[handle.file].size \in Nat
      /\ Beyond(handle.file) <= written + 1 /\ Beyond(handle.file) \in Nat
      /\ written \in Nat /\ MaxLines \in Nat /\ written <= MaxLines
      /\ files[handle.file].first \in Nat /\ files[handle.file].first >= 1
  BY TypesOfInv, BoundsAssumption DEF ReadChunk
<1>3. Sound
  BY <1>1, <1>2, TypesOfInv DEF Sound, ReadChunk
<1>4. Clean(Leftover, handle.position, files[handle.file].first)
  BY <1>2, <1>3 DEF LinesOK, Clean, First, Reached
<1> DEFINE next == First + (handle.position + n + 1) \div 2
<1>5. /\ next \in Reached .. written + 1 /\ next <= Beyond(handle.file)
      /\ next <= MaxLines + 1 /\ next \in Nat
  <2>1. handle.position + n \in Nat /\ handle.position <= handle.position + n
    BY <1>2
  <2>2. /\ (handle.position + n + 1) \div 2
             <= (files[handle.file].size + 1) \div 2
        /\ (handle.position + n + 1) \div 2 \in Nat
        /\ (files[handle.file].size + 1) \div 2 \in Nat
        /\ (handle.position + 1) \div 2 \in Nat
        /\ (handle.position + 1) \div 2 <= (handle.position + n + 1) \div 2
    BY <1>1, <1>2, <2>1, Halves
  <2>3. PICK x, y, z \in Nat :
          /\ x = (handle.position + 1) \div 2
          /\ y = (handle.position + n + 1) \div 2
          /\ z = (files[handle.file].size + 1) \div 2
          /\ x <= y /\ y <= z
    BY <2>2
  <2>4. /\ Reached = First + x /\ next = First + y
        /\ Beyond(handle.file) = First + z /\ First \in Nat
    BY <1>2, <2>3 DEF Beyond, First, Reached
  <2>5. /\ x \in Nat /\ y \in Nat /\ z \in Nat /\ First \in Nat
        /\ x <= y /\ y <= z /\ First + z <= written + 1
        /\ written \in Nat /\ MaxLines \in Nat /\ written <= MaxLines
    BY <1>2, <2>3, <2>4
  <2>6. /\ First + y \in Nat /\ First + x <= First + y
        /\ First + y <= First + z /\ First + y <= written + 1
        /\ First + y <= MaxLines + 1 /\ First + x \in Nat
    BY <2>5
  <2>7. First + y \in (First + x) .. (written + 1)
    BY <2>5, <2>6
  <2> HIDE DEF next
  <2> QED
    BY <2>4, <2>6, <2>7
<1>6. ReadSoFar(Leftover, FeedAll(Leftover, Chunk(n)),
                files[handle.file], handle.position, n)
  BY <1>2, <1>4, <1>5, ReadAll DEF Chunk, First
<1>7. FeedAll(Leftover, Chunk(n)) \in State
  BY <1>6 DEF ReadSoFar, Clean
<1>8. Leftover' = FeedAll(Leftover, Chunk(n))
  <2> DEFINE s == FeedAll(Leftover, Chunk(n))
  <2>1. /\ partial_line' = s.partial /\ line_buffer' = s.buffer
        /\ entries' = s.out
    BY <1>1
  <2>2. s \in State
    BY <1>7
  <2> HIDE DEF s
  <2>3. s = [partial |-> s.partial, buffer |-> s.buffer, out |-> s.out]
    BY <2>2 DEF State
  <2> QED
    BY <2>1, <2>3 DEF Leftover, s
<1>9. handle'.file = handle.file /\ handle'.position = handle.position + n
  BY <1>1, <1>2
<1> WITNESS n \in Nat
<1> QED
  BY <1>1, <1>2, <1>3, <1>5, <1>6, <1>8, <1>9

-----------------------------------------------------------------------------
(* Items in a row, in three parts.                                         *)
LEMMA ConcatAssociates ==
  ASSUME NEW a \in Seq(Item), NEW b \in Seq(Item), NEW c \in Seq(Item)
  PROVE  (a \o b) \o c = a \o (b \o c)
  OBVIOUS

(* The parts of a step of the tailer: nothing is held, the entries of the  *)
(* poll are gone, they were handed on, everything held was handed on.      *)
None == [partial |-> <<>>, buffer |-> <<>>, out |-> <<>>]

(* Where nothing is held everything said of lines holds.                   *)
LEMMA NoneHolds ==
  /\ None \in State /\ LinesOf(None) = {} /\ Taken(None) = {}
  /\ OrderHeld(None)
  /\ \A p \in Nat : \A first :
       p % 2 = 0 \/ ~from_start => Aligned(None, p, first)
  /\ partial_line = <<>> /\ line_buffer = <<>> /\ entries = <<>> =>
       Leftover = None
<1>1. None.partial = <<>> /\ None.buffer = <<>> /\ None.out = <<>>
  BY DEF None
<1>2. None \in State
  BY LinesOfNone DEF None, State, Text
<1>3. Taken(None) = {} /\ Held(None) = {}
  BY <1>1, LinesOfNone DEF Taken, Held
<1>4. LinesOf(None) = {}
  BY <1>3 DEF LinesOf
<1>5. OrderHeld(None)
  BY <1>1, <1>3, LinesOfNone
     DEF OrderHeld, InLogOrder, ItemInOrder, Before
<1>6. \A p \in Nat : \A first :
        p % 2 = 0 \/ ~from_start => Aligned(None, p, first)
  BY <1>1 DEF Aligned
<1> QED
  BY <1>2, <1>3, <1>4, <1>5, <1>6 DEF Leftover, None

Emptied(s) == [partial |-> s.partial, buffer |-> s.buffer, out |-> <<>>]

(* What is held when the entries of the poll are gone.                     *)
LEMMA EmptiedHolds ==
  ASSUME NEW s \in State
  PROVE  LET t == Emptied(s)
         IN  /\ t \in State
             /\ LinesOf(s) = LinesIn(s.out) \cup LinesOf(t)
             /\ Taken(s) = LinesIn(s.out) \cup Taken(t)
             /\ \A p, first : Aligned(s, p, first) => Aligned(t, p, first)
             /\ OrderHeld(s) =>
                  /\ OrderHeld(t) /\ InLogOrder(s.out)
                  /\ Before(LinesIn(s.out), LinesOf(t))
<1> DEFINE t == Emptied(s)
<1>1. t.partial = s.partial /\ t.buffer = s.buffer /\ t.out = <<>>
  BY DEF Emptied
<1>2. t \in State
  BY LinesOfNone DEF Emptied, State
<1> HIDE DEF t
<1>3. Held(t) = Held(s) /\ Taken(t) = ToSet(s.buffer)
  BY <1>1, LinesOfNone DEF Held, Taken
<1>4. \A p, first : Aligned(s, p, first) => Aligned(t, p, first)
  BY <1>1 DEF Aligned
<1>5. ASSUME OrderHeld(s)
      PROVE  /\ OrderHeld(t) /\ InLogOrder(s.out)
             /\ Before(LinesIn(s.out), LinesOf(t))
  <2>1. OrderHeld(t)
    BY <1>1, <1>3, <1>5, LinesOfNone
       DEF OrderHeld, InLogOrder, Before, Taken
  <2>2. Before(LinesIn(s.out), LinesOf(t))
    BY <1>3, <1>5 DEF OrderHeld, Before, Taken, LinesOf
  <2> QED
    BY <1>5, <2>1, <2>2 DEF OrderHeld
<1> QED
  BY <1>2, <1>3, <1>4, <1>5 DEF Taken, LinesOf, t

(* A poll hands on the lines of its entries; a rotation has none.          *)
LEMMA PollItemsHold ==
  ASSUME entries \in Seq(Item)
  PROVE  /\ PollItems \in Seq(Item)
         /\ LinesIn(PollItems) = LinesIn(entries)
         /\ <<Rotation>> \in Seq(Item) /\ LinesIn(<<Rotation>>) = {}
<1>1. <<Rotation>> \in Seq(Item) /\ LinesIn(<<Rotation>>) = {}
  BY LinesOfNone, LinesOfOne DEF Rotation
<1>2. /\ <<Rotation>> \o entries \in Seq(Item)
      /\ LinesIn(<<Rotation>> \o entries) = LinesIn(entries)
  <2>1. /\ <<Rotation>> \o entries \in Seq(Item)
        /\ LinesIn(<<Rotation>> \o entries) =
             LinesIn(<<Rotation>>) \cup LinesIn(entries)
    BY <1>1, LinesOfConcat
  <2> QED
    BY <1>1, <2>1
<1> QED
  BY <1>1, <1>2 DEF PollItems

(* A stop hands on what is held, and nothing is held behind it.            *)
LEMMA StopFacts ==
  ASSUME Inv, LinesOK, Stop
  PROVE  \E items \in Seq(Item) :
           /\ sent' = sent \o items
           /\ LinesIn(items) \subseteq LinesOf(Leftover)
           /\ Taken(Leftover) \subseteq LinesIn(items)
           /\ OrderHeld(Leftover) => InLogOrder(items)
           /\ Leftover' = None
           /\ tailer' = "stopped" /\ handle' = handle
           /\ UNCHANGED <<last_rotation, replaced>>
           /\ tailer \in {"idle", "flushing"}
<1> DEFINE t == Flushed(Leftover)
           items == t.out \o InProgress(t)
<1>1. /\ sent' = sent \o t.out \o InProgress(t)
      /\ partial_line' = <<>> /\ line_buffer' = <<>> /\ entries' = entries
      /\ tailer' = "stopped" /\ UNCHANGED <<handle, last_rotation, replaced>>
      /\ tailer \in {"idle", "flushing"}
  BY DEF Stop, Flushed, Leftover, openVars, rotateVars
<1>2. entries = <<>>
  BY <1>1 DEF Inv, HandleOK
<1>3. Leftover.partial = <<>> \/ KindOf(Leftover.partial) \in LineKind
  <2> SUFFICES ASSUME Leftover.partial # <<>>
               PROVE  KindOf(Leftover.partial) \in LineKind
    OBVIOUS
  <2>1. Leftover.partial \in AllLines
    BY DEF LinesOf, Held, AllLines
  <2>2. /\ Leftover.partial[1] \in Nat /\ 1 <= Leftover.partial[1]
        /\ Leftover.partial[1] < written + 1
    BY <2>1 DEF LinesOK, From
  <2>3. Leftover.partial[1] \in 1 .. MaxLines
    BY <2>2, TypesOfInv
  <2> QED
    BY <2>3, KindAssumption DEF KindOf
<1>4. Leftover \in State /\ sent \in Seq(Item)
  BY DEF LinesOK
<1>5. /\ t.out \in Seq(Item) /\ InProgress(t) \in Seq(Item)
      /\ items \in Seq(Item)
      /\ LinesIn(items) \subseteq LinesOf(Leftover)
      /\ Taken(Leftover) \subseteq LinesIn(items)
      /\ OrderHeld(Leftover) => InLogOrder(items)
  BY <1>3, <1>4, FlushKeeps
<1> HIDE DEF t
<1>6. sent' = sent \o items
  <2>1. PICK b \in Seq(Item), c \in Seq(Item) : b = t.out /\ c = InProgress(t)
    BY <1>5
  <2>2. (sent \o b) \o c = sent \o (b \o c)
    BY <1>4, ConcatAssociates
  <2> QED
    BY <1>1, <2>1, <2>2
<1>7. Leftover' = None
  BY <1>1, <1>2 DEF Leftover, None
<1> QED
  BY <1>1, <1>5, <1>6, <1>7

-----------------------------------------------------------------------------
(* Whole lines.                                                            *)
LEMMA LinesStepGame == Inv /\ HandleOK' /\ LinesOK /\ Game => LinesOK'
<1> SUFFICES ASSUME Inv, HandleOK', LinesOK, Game PROVE LinesOK'
  OBVIOUS
<1>1. /\ UNCHANGED <<from_start, tailer, sent, partial_line, line_buffer,
                     entries>>
      /\ written' \in Nat /\ written' >= written
      /\ Sound' => Sound /\ handle' = handle /\ First' = First
  BY GameKeeps
<1>2. Leftover' = Leftover /\ AllLines' = AllLines
  BY <1>1 DEF Leftover, AllLines
<1>3. Sound' => Reached' = Reached
  BY <1>1 DEF Reached
<1>4. written \in Nat
  BY TypesOfInv
<1>5. \A line \in AllLines' : From(line, 1, written' + 1)
  BY <1>1, <1>2, <1>4 DEF LinesOK, From
<1>6. (Sound => \A line \in LinesOf(Leftover) : From(line, First, Reached))'
  <2>1. Sound' => \A line \in LinesOf(Leftover) : From(line, First, Reached)
    BY <1>1 DEF LinesOK
  <2> QED
    BY <1>1, <1>2, <1>3, <2>1
<1>7. (Sound /\ tailer # "stopped" =>
         Aligned(Leftover, handle.position, First))'
  BY <1>1, <1>2 DEF LinesOK, Aligned
<1> QED
  BY <1>1, <1>2, <1>5, <1>6, <1>7 DEF LinesOK

(* Until the first poll nothing is held.                                   *)
LEMMA LinesStepOpening == Inv /\ LinesOK /\ Opening => LinesOK'
<1> SUFFICES ASSUME Inv, LinesOK, Opening PROVE LinesOK'
  OBVIOUS
<1>1. /\ UNCHANGED <<from_start, files, written, sent, partial_line,
                     line_buffer, entries>>
      /\ tailer \in {"closed", "opened", "seeking"}
      /\ tailer' # "seeking" \/ ~from_start
      /\ handle'.position \in Nat
      /\ handle'.position % 2 = 0 \/ ~from_start
  <2>1. \A f \in DOMAIN files : files[f].size \in Nat
    BY TypesOfInv
  <2>2. CASE Open
    BY <2>2 DEF Open, modeVars, gameVars, lineVars
  <2>3. CASE InitialMtime
    <3>1. handle' = handle /\ handle.position = 0
      BY <2>3 DEF InitialMtime, openVars, Inv, IInv, Accounted
    <3> QED
      BY <2>3, <3>1 DEF InitialMtime, modeVars, gameVars, lineVars
  <2>4. CASE SeekEnd
    <3>1. handle'.position = files[handle.file].size /\ tailer = "seeking"
      BY <2>4, TypesOfInv DEF SeekEnd
    <3>2. handle.file \in DOMAIN files
      BY <3>1, TypesOfInv
    <3> QED
      BY <2>1, <2>4, <3>1, <3>2
         DEF SeekEnd, modeVars, gameVars, lineVars, LinesOK
  <2> QED
    BY <2>2, <2>3, <2>4 DEF Opening
<1>2. /\ sent = <<>> /\ Leftover = None
      /\ partial_line = <<>> /\ line_buffer = <<>>
  BY <1>1, NoneHolds DEF LinesOK, Inv, HandleOK
<1>3. /\ Leftover' = None /\ AllLines' = {} /\ sent' = <<>>
      /\ partial_line' = <<>> /\ line_buffer' = <<>>
  BY <1>1, <1>2, NoneHolds, LinesOfNone DEF Leftover, AllLines, None
<1>4. Aligned(None, handle'.position, First')
  BY <1>1, NoneHolds
<1>5. <<>> \in Seq(Item) /\ None \in State /\ LinesOf(None) = {}
  BY NoneHolds, LinesOfNone
<1>6. Aligned(Leftover, handle.position, First)'
  BY <1>1, <1>3, <1>4 DEF Aligned
<1> QED
  BY <1>1, <1>3, <1>5, <1>6 DEF LinesOK

(* A read holds what ReadAll says.                                         *)
LEMMA LinesStepRead == Inv /\ LinesOK /\ ReadChunk => LinesOK'
<1> SUFFICES ASSUME Inv, LinesOK, ReadChunk PROVE LinesOK'
  OBVIOUS
<1>1. PICK n \in Nat :
           /\ n >= 1
           /\ Sound /\ tailer = "reading"
           /\ handle'.file = handle.file
           /\ handle'.position = handle.position + n
           /\ handle.position + n <= files[handle.file].size
           /\ First + (handle.position + n + 1) \div 2
                \in Reached .. written + 1
           /\ First + (handle.position + n + 1) \div 2 <= Beyond(handle.file)
           /\ Leftover' = FeedAll(Leftover, Chunk(n))
           /\ ReadSoFar(Leftover, FeedAll(Leftover, Chunk(n)),
                        files[handle.file], handle.position, n)
  BY ReadFacts
<1>2. UNCHANGED <<files, written, tailer, sent, from_start>>
  BY DEF ReadChunk, gameVars, modeVars
<1>3. Clean(Leftover', handle.position + n, First)
  BY <1>1 DEF ReadSoFar, First
<1>4. First' = First /\ Reached' = First + (handle.position + n + 1) \div 2
  BY <1>1, <1>2 DEF First, Reached
<1>5. First \in Nat /\ First >= 1 /\ written \in Nat /\ Reached \in Nat
  BY <1>1, TypesOfInv, SoundFacts
<1>6. /\ Leftover' \in State
      /\ \A line \in LinesOf(Leftover') : From(line, First', Reached')
  BY <1>3, <1>4 DEF Clean
<1>7. Aligned(Leftover, handle.position, First)'
  BY <1>1, <1>2, <1>3, <1>4 DEF Clean, Aligned
<1>8. \A line \in LinesOf(Leftover') : From(line, 1, written + 1)
  BY <1>1, <1>4, <1>5, <1>6 DEF From
<1>9. \A line \in AllLines' : From(line, 1, written' + 1)
  BY <1>2, <1>8 DEF LinesOK, AllLines
<1>10. (Sound => \A line \in LinesOf(Leftover) : From(line, First, Reached))'
  BY <1>6
<1> QED
  BY <1>1, <1>2, <1>6, <1>7, <1>9, <1>10 DEF LinesOK

(* A reopened log is read from its start with nothing held; a failure      *)
(* drops lines only.                                                       *)
LEMMA LinesStepReopen == Inv /\ LinesOK /\ Reopen => LinesOK'
<1> SUFFICES ASSUME Inv, LinesOK, Reopen PROVE LinesOK'
  OBVIOUS
<1>1. UNCHANGED <<files, written, entries, from_start>> /\ entries = <<>>
      /\ tailer = "reopening"
  BY DEF Reopen, gameVars, modeVars, Inv, HandleOK
<1>2. CASE path = 0
  <2>1. /\ tailer' = "failed" /\ sent' \in {<<>>, sent}
        /\ UNCHANGED <<handle, partial_line, line_buffer>>
    BY <1>2 DEF Reopen, Kept, openVars
  <2>2. Leftover' = Leftover /\ Sound' = Sound /\ First' = First
        /\ Reached' = Reached
    BY <1>1, <2>1 DEF Leftover, Sound, First, Reached
  <2>3. sent' \in Seq(Item) /\ AllLines' \subseteq AllLines
    BY <2>1, <2>2, LinesOfNone DEF AllLines, LinesOK
  <2>4. \A line \in AllLines' : From(line, 1, written' + 1)
    BY <1>1, <2>3 DEF LinesOK
  <2>5. Aligned(Leftover, handle.position, First)' =
          Aligned(Leftover, handle.position, First)
    BY <1>1, <2>1, <2>2 DEF Aligned
  <2> QED
    BY <1>1, <2>1, <2>2, <2>3, <2>4, <2>5 DEF LinesOK
<1>3. CASE path # 0
  <2>1. /\ tailer' = "reading" /\ sent' = sent
        /\ handle'.position = 0 /\ partial_line' = <<>> /\ line_buffer' = <<>>
    BY <1>3 DEF Reopen, ResetForNewFile
  <2>2. Leftover' = None
    BY <1>1, <2>1 DEF Leftover, None
  <2>3. AllLines' \subseteq AllLines /\ LinesOf(Leftover') = {}
        /\ Leftover' \in State
    BY <2>1, <2>2, NoneHolds DEF AllLines
  <2>4. \A line \in AllLines' : From(line, 1, written' + 1)
    BY <1>1, <2>3 DEF LinesOK
  <2>5. Aligned(None, handle'.position, First')
    BY <2>1, NoneHolds
  <2>6. Aligned(Leftover, handle.position, First)'
    BY <1>1, <2>2, <2>5 DEF Aligned
  <2> QED
    BY <1>1, <2>1, <2>3, <2>4, <2>6 DEF LinesOK
<1> QED
  BY <1>2, <1>3

(* The end of a poll, good or bad, and the end of the tailer.              *)
LEMMA LinesStepEnd ==
  Inv /\ LinesOK /\ (EndPoll \/ ReadError \/ Stop) => LinesOK'
<1> SUFFICES ASSUME Inv, LinesOK, EndPoll \/ ReadError \/ Stop PROVE LinesOK'
  OBVIOUS
<1>1. UNCHANGED <<files, written, from_start, handle>>
  BY DEF EndPoll, ReadError, Stop, gameVars, modeVars, openVars
<1>2. Sound' = Sound /\ First' = First /\ Reached' = Reached
  BY <1>1 DEF Sound, First, Reached
<1>3. /\ tailer' \notin {"closed", "opened", "seeking"}
      /\ tailer \notin {"closed", "opened", "seeking", "stopped"}
  BY DEF EndPoll, AfterPoll, ReadError, Stop
<1>4. /\ Leftover' \in State /\ sent' \in Seq(Item)
      /\ AllLines' \subseteq AllLines
      /\ LinesOf(Leftover') \subseteq LinesOf(Leftover)
      /\ Sound /\ tailer' # "stopped" =>
           Aligned(Leftover', handle.position, First)
  <2>1. CASE EndPoll \/ ReadError
    <3>1. Leftover' = Emptied(Leftover)
      BY <2>1 DEF EndPoll, ReadError, Leftover, Emptied
    <3>2. /\ Leftover \in State /\ Leftover.out = entries
          /\ Sound => Aligned(Leftover, handle.position, First)
      BY <1>3 DEF LinesOK, Leftover
    <3>3. /\ Leftover' \in State
          /\ LinesOf(Leftover) = LinesIn(entries) \cup LinesOf(Leftover')
          /\ Sound => Aligned(Leftover', handle.position, First)
      BY <3>1, <3>2, EmptiedHolds
    <3>4. CASE EndPoll
      <4>1. sent' = sent \o PollItems /\ entries \in Seq(Item)
        BY <3>2, <3>4 DEF EndPoll, State
      <4>2. /\ sent' \in Seq(Item)
            /\ LinesIn(sent') = LinesIn(sent) \cup LinesIn(entries)
        <5>1. PICK items \in Seq(Item) :
                items = PollItems /\ LinesIn(items) = LinesIn(entries)
          BY <4>1, PollItemsHold
        <5> QED
          BY <4>1, <5>1, LinesOfConcat DEF LinesOK
      <4> QED
        BY <3>3, <4>2 DEF AllLines
    <3>5. CASE ReadError
      <4>1. sent' \in {<<>>, sent}
        BY <3>5 DEF ReadError, Kept
      <4> QED
        BY <3>3, <4>1, LinesOfNone DEF AllLines, LinesOK
    <3> QED
      BY <2>1, <3>4, <3>5
  <2>2. CASE Stop
    <3>1. PICK items \in Seq(Item) :
            /\ sent' = sent \o items
            /\ LinesIn(items) \subseteq LinesOf(Leftover)
            /\ Leftover' = None /\ tailer' = "stopped"
      BY <2>2, StopFacts
    <3>2. /\ sent' \in Seq(Item)
          /\ LinesIn(sent') = LinesIn(sent) \cup LinesIn(items)
      BY <3>1, LinesOfConcat DEF LinesOK
    <3> QED
      BY <3>1, <3>2, NoneHolds DEF AllLines
  <2> QED
    BY <2>1, <2>2
<1>5. \A line \in AllLines' : From(line, 1, written' + 1)
  BY <1>1, <1>4 DEF LinesOK
<1>6. (Sound => \A line \in LinesOf(Leftover) : From(line, First, Reached))'
  BY <1>2, <1>4 DEF LinesOK
<1>7. (Sound /\ tailer # "stopped" =>
         Aligned(Leftover, handle.position, First))'
  BY <1>1, <1>2, <1>4 DEF Aligned
<1> QED
  BY <1>3, <1>4, <1>5, <1>6, <1>7 DEF LinesOK

(* Every step keeps the lines whole.                                       *)
LEMMA LinesStep == Inv /\ HandleOK' /\ LinesOK /\ [Next]_vars => LinesOK'
<1> SUFFICES ASSUME Inv, HandleOK', LinesOK, [Next]_vars PROVE LinesOK'
  OBVIOUS
<1>1. CASE NoCheck \/ CheckRotation \/ UNCHANGED vars
  <2>1. /\ UNCHANGED <<files, written, from_start, handle, sent, partial_line,
                       line_buffer, entries>>
        /\ \/ tailer' = tailer
           \/ tailer = "idle" /\ tailer' \in {"reading", "reopening"}
    BY <1>1 DEF NoCheck, CheckRotation, vars, modeVars, gameVars, openVars,
                lineVars
  <2>2. /\ Leftover' = Leftover /\ Sound' = Sound /\ First' = First
        /\ Reached' = Reached /\ AllLines' = AllLines
    BY <2>1 DEF Leftover, Sound, First, Reached, AllLines
  <2>3. Aligned(Leftover, handle.position, First)' =
          Aligned(Leftover, handle.position, First)
    BY <2>1, <2>2 DEF Aligned
  <2> QED
    BY <2>1, <2>2, <2>3 DEF LinesOK
<1> QED
  BY <1>1, LinesStepGame, LinesStepOpening, LinesStepRead, LinesStepReopen,
     LinesStepEnd DEF Next, Poll, Terminated

(* At first there are no lines.                                            *)
LEMMA LinesInit == Init => LinesOK
<1> SUFFICES ASSUME Init PROVE LinesOK
  OBVIOUS
<1>1. /\ Leftover = None /\ sent = <<>> /\ tailer = "closed"
      /\ handle.file = 0 /\ partial_line = <<>> /\ line_buffer = <<>>
  BY NoneHolds DEF Init
<1>2. AllLines = {} /\ ~Sound
  BY <1>1, NoneHolds, LinesOfNone DEF AllLines, Sound
<1> QED
  BY <1>1, <1>2, NoneHolds, LinesOfNone DEF LinesOK

(* The lines of Items are those handed on and those taken.                 *)
LEMMA LinesOfItems ==
  ASSUME LinesOK
  PROVE  LinesIn(Items) = LinesIn(sent) \cup Taken(Leftover)
<1>1. sent \in Seq(Item) /\ Leftover \in State /\ entries = Leftover.out
  BY DEF LinesOK, Leftover
<1>2. /\ entries \in Seq(Item) /\ InProgress(Leftover) \in Seq(Item)
      /\ LinesIn(InProgress(Leftover)) = ToSet(Leftover.buffer)
  BY <1>1, LinesOfProgress DEF State
<1>3. /\ sent \o entries \in Seq(Item)
      /\ LinesIn(sent \o entries) = LinesIn(sent) \cup LinesIn(entries)
  BY <1>1, <1>2, LinesOfConcat
<1>4. LinesIn(Items) =
        LinesIn(sent \o entries) \cup LinesIn(InProgress(Leftover))
  BY <1>2, <1>3, LinesOfConcat DEF Items
<1> QED
  BY <1>1, <1>2, <1>3, <1>4 DEF Taken

(* A line that reaches an entry, or the entry in progress, is the text of  *)
(* one line of the game, for every read buffer and however the reads, the  *)
(* polls, the rotations and the truncations cut the logs.                  *)
THEOREM WholeLines == Spec => []LinesAreWhole
<1>1. Init => LinesOK
  BY LinesInit
<1>2. Inv /\ HandleOK' /\ LinesOK /\ [Next]_vars => LinesOK'
  BY LinesStep
<1>3. LinesOK => LinesAreWhole
  BY LinesOfItems DEF AllLines, LinesOf, LinesOK, From, LinesAreWhole
<1> QED
  BY <1>1, <1>2, <1>3, Invariance, LogsFollow, PTL DEF Spec, Inv

-----------------------------------------------------------------------------
(* Every header of the log up to the position was taken into an entry.     *)
HeadersTaken ==
  from_start /\ tailer # "failed" /\ Sound =>
    \A p \in 1 .. handle.position :
      IsHeader(PieceAt(files[handle.file], p)) =>
        <<PieceAt(files[handle.file], p).line>>
          \in LinesIn(sent) \cup Taken(Leftover)

(* A step that leaves the position alone and drops no line keeps them.     *)
LEMMA HeadersKept ==
  ASSUME HeadersTaken,
         from_start' /\ tailer' # "failed" /\ Sound' =>
           /\ from_start /\ tailer # "failed" /\ Sound
           /\ handle' = handle /\ First' = First
           /\ LinesIn(sent) \cup Taken(Leftover)
                \subseteq LinesIn(sent') \cup Taken(Leftover')
  PROVE  HeadersTaken'
<1> SUFFICES ASSUME from_start', tailer' # "failed", Sound',
                    NEW p \in 1 .. handle'.position,
                    IsHeader(PieceAt(files'[handle'.file], p))
             PROVE  <<PieceAt(files'[handle'.file], p).line>>
                      \in LinesIn(sent') \cup Taken(Leftover')
  BY DEF HeadersTaken
<1>1. PieceAt(files'[handle'.file], p) = PieceAt(files[handle.file], p)
  BY DEF PieceAt, First
<1>2. IsHeader(PieceAt(files[handle.file], p))
  BY <1>1
<1>3. <<PieceAt(files[handle.file], p).line>>
        \in LinesIn(sent) \cup Taken(Leftover)
  BY <1>2 DEF HeadersTaken
<1> QED
  BY <1>1, <1>3

(* A read takes the headers it passes.                                     *)
LEMMA HeadersRead ==
  ASSUME Inv, LinesOK, HeadersTaken, ReadChunk
  PROVE  HeadersTaken'
<1>1. PICK n \in Nat :
           /\ n >= 1
           /\ Sound /\ tailer = "reading"
           /\ handle'.file = handle.file
           /\ handle'.position = handle.position + n
           /\ Leftover' = FeedAll(Leftover, Chunk(n))
           /\ ReadSoFar(Leftover, FeedAll(Leftover, Chunk(n)),
                        files[handle.file], handle.position, n)
  BY ReadFacts
<1>2. UNCHANGED <<files, sent, from_start>> /\ handle.position \in Nat
  BY TypesOfInv DEF ReadChunk, gameVars, modeVars
<1>3. /\ Taken(Leftover) \subseteq Taken(Leftover')
      /\ from_start => \A r \in handle.position + 1 .. handle.position + n :
           IsHeader(PieceAt(files[handle.file], r)) =>
             <<PieceAt(files[handle.file], r).line>> \in Taken(Leftover')
  BY <1>1 DEF ReadSoFar
<1> SUFFICES ASSUME from_start, NEW p \in 1 .. handle.position + n,
                    IsHeader(PieceAt(files[handle.file], p))
             PROVE  <<PieceAt(files[handle.file], p).line>>
                      \in LinesIn(sent) \cup Taken(Leftover')
  BY <1>1, <1>2 DEF HeadersTaken
<1>4. CASE p \in 1 .. handle.position
  BY <1>1, <1>3, <1>4 DEF HeadersTaken
<1>5. CASE p \in handle.position + 1 .. handle.position + n
  BY <1>3, <1>5
<1> QED
  BY <1>2, <1>4, <1>5

(* Every step keeps the headers, or resets the position.                   *)
LEMMA HeadersStep ==
  Inv /\ HandleOK' /\ LinesOK /\ HeadersTaken /\ [Next]_vars => HeadersTaken'
<1> SUFFICES ASSUME Inv, HandleOK', LinesOK, HeadersTaken, [Next]_vars
             PROVE  HeadersTaken'
  OBVIOUS
<1>1. CASE Game
  <2>1. /\ UNCHANGED <<from_start, tailer, sent, partial_line, line_buffer,
                       entries>>
        /\ Sound' => Sound /\ handle' = handle /\ First' = First
    BY <1>1, GameKeeps
  <2>2. Leftover' = Leftover
    BY <2>1 DEF Leftover
  <2> QED
    BY <2>1, <2>2, HeadersKept
<1>2. CASE Opening
  <2>1. CASE Open
    <3>1. handle'.position = 0
      BY <2>1 DEF Open
    <3> QED
      BY <3>1 DEF HeadersTaken
  <2>2. CASE InitialMtime
    <3>1. handle' = handle /\ handle.position = 0
      BY <2>2 DEF InitialMtime, openVars, Inv, IInv, Accounted
    <3> QED
      BY <3>1 DEF HeadersTaken
  <2>3. CASE SeekEnd
    <3>1. ~from_start'
      BY <2>3 DEF SeekEnd, modeVars, LinesOK
    <3> QED
      BY <3>1 DEF HeadersTaken
  <2> QED
    BY <1>2, <2>1, <2>2, <2>3 DEF Opening
<1>3. CASE Reopen
  <2>1. CASE path = 0
    BY <1>3, <2>1 DEF Reopen, HeadersTaken
  <2>2. CASE path # 0
    <3>1. handle'.position = 0
      BY <1>3, <2>2 DEF Reopen
    <3> QED
      BY <3>1 DEF HeadersTaken
  <2> QED
    BY <2>1, <2>2
<1>4. CASE ReadChunk
  BY <1>4, HeadersRead
<1>5. CASE EndPoll
  <2>1. /\ UNCHANGED <<files, from_start, handle>> /\ tailer = "reading"
        /\ sent' = sent \o PollItems
        /\ Leftover' = Emptied(Leftover)
    BY <1>5 DEF EndPoll, gameVars, modeVars, Leftover, Emptied
  <2>2. /\ Leftover \in State /\ Leftover.out = entries
        /\ entries \in Seq(Item) /\ sent \in Seq(Item)
    BY DEF LinesOK, Leftover, State
  <2>3. Taken(Leftover) = LinesIn(entries) \cup Taken(Leftover')
    BY <2>1, <2>2, EmptiedHolds
  <2>4. LinesIn(sent') = LinesIn(sent) \cup LinesIn(entries)
    <3>1. PICK items \in Seq(Item) :
            items = PollItems /\ LinesIn(items) = LinesIn(entries)
      BY <2>2, PollItemsHold
    <3> QED
      BY <2>1, <2>2, <3>1, LinesOfConcat
  <2>5. Sound' = Sound /\ First' = First
    BY <2>1 DEF Sound, First
  <2> QED
    BY <2>1, <2>3, <2>4, <2>5, HeadersKept
<1>6. CASE ReadError
  BY <1>6 DEF ReadError, HeadersTaken
<1>7. CASE Stop
  <2>1. PICK items \in Seq(Item) :
          /\ sent' = sent \o items
          /\ Taken(Leftover) \subseteq LinesIn(items)
          /\ handle' = handle /\ tailer \in {"idle", "flushing"}
    BY <1>7, StopFacts
  <2>2. LinesIn(sent') = LinesIn(sent) \cup LinesIn(items)
    BY <2>1, LinesOfConcat DEF LinesOK
  <2>3. UNCHANGED <<files, from_start>>
    BY <1>7 DEF Stop, gameVars, modeVars
  <2>4. Sound' = Sound /\ First' = First
    BY <2>1, <2>3 DEF Sound, First
  <2> QED
    BY <2>1, <2>2, <2>3, <2>4, HeadersKept
<1>8. CASE NoCheck \/ CheckRotation \/ UNCHANGED vars
  <2>1. /\ UNCHANGED <<files, from_start, handle, sent, partial_line,
                       line_buffer, entries>>
        /\ tailer = "failed" => tailer' = "failed"
    BY <1>8 DEF NoCheck, CheckRotation, vars, modeVars, gameVars, openVars,
                lineVars
  <2>2. Leftover' = Leftover /\ Sound' = Sound /\ First' = First
    BY <2>1 DEF Leftover, Sound, First
  <2> QED
    BY <2>1, <2>2, HeadersKept
<1> QED
  BY <1>1, <1>2, <1>3, <1>4, <1>5, <1>6, <1>7, <1>8
     DEF Next, Poll, Terminated

(* Read from its start, no header of a log is passed over: up to the       *)
(* position every one is handed on or held, until a read or a reopening    *)
(* fails or the log is truncated under the handle.                         *)
THEOREM NoneSkipped == Spec => []NothingSkipped
<1>1. Init => LinesOK /\ HeadersTaken
  <2>1. Init => ~Sound
    BY DEF Init, Sound
  <2> QED
    BY <2>1, LinesInit DEF HeadersTaken
<1>2. Inv /\ HandleOK' /\ LinesOK /\ [Next]_vars => LinesOK'
  BY LinesStep
<1>3. Inv /\ HandleOK' /\ LinesOK /\ HeadersTaken /\ [Next]_vars
        => HeadersTaken'
  BY HeadersStep
<1>4. LinesOK /\ HeadersTaken => NothingSkipped
  <2> SUFFICES ASSUME LinesOK, HeadersTaken PROVE NothingSkipped
    OBVIOUS
  <2>1. LinesIn(Items) = LinesIn(sent) \cup Taken(Leftover)
    BY LinesOfItems
  <2> QED
    BY <2>1 DEF HeadersTaken, NothingSkipped, IsHeader, Sound
<1> QED
  BY <1>1, <1>2, <1>3, <1>4, Invariance, LogsFollow, PTL DEF Spec, Inv

-----------------------------------------------------------------------------
(* The lines of one log, and of all entries since the last rotation.       *)
AllWithin(lines, log) == \A line \in lines : Within(line, log)

OneLog(lines, logs) == \E f \in DOMAIN logs : AllWithin(lines, logs[f])

NoRotation(items, i, j) == \A k \in i .. j : items[k] # Rotation

SinceRotation(items) ==
  UNION {ToSet(items[i]) :
           i \in {j \in DOMAIN items : NoRotation(items, j, Len(items))}}

(* No entry mixes logs, and two of different logs have a rotation between. *)
EachOneLog(items, logs) ==
  \A i \in DOMAIN items : OneLog(ToSet(items[i]), logs)

Separated(items, logs) ==
  \A i, j \in DOMAIN items :
    i < j /\ NoRotation(items, i, j) =>
      OneLog(ToSet(items[i]) \cup ToSet(items[j]), logs)

(* Logs that only grew still have their lines.                             *)
LEMMA LogsLarger ==
  ASSUME NEW logs, NEW more, NEW lines,
         \A line \in lines : line[1] \in Nat,
         \A f \in DOMAIN logs :
           /\ f \in DOMAIN more /\ more[f].first = logs[f].first
           /\ logs[f].first \in Nat /\ logs[f].size \in Nat
           /\ more[f].size \in Nat /\ more[f].size >= logs[f].size
  PROVE  \A f \in DOMAIN logs :
           AllWithin(lines, logs[f]) => AllWithin(lines, more[f])
<1> SUFFICES ASSUME NEW f \in DOMAIN logs, NEW line \in lines,
                    Within(line, logs[f])
             PROVE  Within(line, more[f])
  BY DEF AllWithin
<1>1. /\ (logs[f].size + 1) \div 2 \in Nat /\ (more[f].size + 1) \div 2 \in Nat
      /\ (logs[f].size + 1) \div 2 <= (more[f].size + 1) \div 2
      /\ logs[f].first \in Nat /\ more[f].first = logs[f].first
      /\ line[1] \in Nat
  BY Halves
<1>2. logs[f].first + (logs[f].size + 1) \div 2
        <= more[f].first + (more[f].size + 1) \div 2
  BY <1>1
<1> QED
  BY <1>1, <1>2 DEF Within

(* Entries of one log each, and more of them.                              *)
LEMMA EachConcat ==
  ASSUME NEW items \in Seq(Item), NEW new \in Seq(Item), NEW logs,
         EachOneLog(items, logs),
         \A i \in DOMAIN new : OneLog(ToSet(new[i]), logs)
  PROVE  EachOneLog(items \o new, logs)
<1> DEFINE c == items \o new
<1>1. /\ \A i \in 1 .. Len(items) : c[i] = items[i]
      /\ \A i \in 1 .. Len(new) : c[Len(items) + i] = new[i]
      /\ \A i : i \in DOMAIN c <=> i \in 1 .. Len(items) + Len(new)
      /\ \A i : i \in DOMAIN items <=> i \in 1 .. Len(items)
      /\ \A i : i \in DOMAIN new <=> i \in 1 .. Len(new)
      /\ Len(items) \in Nat /\ Len(new) \in Nat
  OBVIOUS
<1> HIDE DEF c
<1> SUFFICES ASSUME NEW i \in DOMAIN c PROVE OneLog(ToSet(c[i]), logs)
  BY DEF EachOneLog, c
<1>2. CASE i \in 1 .. Len(items)
  BY <1>1, <1>2 DEF EachOneLog
<1>3. CASE i - Len(items) \in 1 .. Len(new)
  <2>1. c[i] = new[i - Len(items)] /\ i - Len(items) \in DOMAIN new
    BY <1>1, <1>3
  <2> QED
    BY <2>1
<1> QED
  BY <1>1, <1>2, <1>3

(* The lines of some of the items are lines of the items.                  *)
LEMMA LinesOfItem ==
  ASSUME NEW items \in Seq(Item)
  PROVE  /\ \A i \in DOMAIN items : ToSet(items[i]) \subseteq LinesIn(items)
         /\ SinceRotation(items) \subseteq LinesIn(items)
<1>1. \A i \in DOMAIN items : ToSet(items[i]) \subseteq LinesIn(items)
  BY DEF LinesIn, ToSet
<1> QED
  BY <1>1 DEF SinceRotation

(* Entries that follow the last rotation belong to its log.                *)
LEMMA SeparatedConcat ==
  ASSUME NEW items \in Seq(Item), NEW new \in Seq(Item), NEW logs,
         NEW f \in DOMAIN logs,
         Separated(items, logs),
         AllWithin(SinceRotation(items), logs[f]),
         AllWithin(LinesIn(new), logs[f])
  PROVE  /\ Separated(items \o new, logs)
         /\ SinceRotation(items \o new)
              \subseteq SinceRotation(items) \cup LinesIn(new)
<1> DEFINE c == items \o new
           n == Len(items)
<1>1. /\ n \in Nat /\ Len(new) \in Nat /\ Len(c) = n + Len(new)
      /\ \A i \in 1 .. n : c[i] = items[i]
      /\ \A i \in 1 .. Len(new) : c[n + i] = new[i]
      /\ \A i : i \in DOMAIN c <=> i \in 1 .. n + Len(new)
      /\ \A i : i \in DOMAIN items <=> i \in 1 .. n
      /\ \A i : i \in DOMAIN new <=> i \in 1 .. Len(new)
  OBVIOUS
<1> HIDE DEF c, n
<1>2. ASSUME NEW i \in DOMAIN c, i \notin 1 .. n
      PROVE  ToSet(c[i]) \subseteq LinesIn(new)
  <2>1. i - n \in 1 .. Len(new) /\ c[i] = new[i - n]
    BY <1>1, <1>2
  <2>2. new[i - n] \in ToSet(new)
    BY <1>1, <2>1 DEF ToSet
  <2> QED
    BY <2>1, <2>2 DEF LinesIn
<1>3. ASSUME NEW i \in 1 .. n, NEW j \in DOMAIN c, j \notin 1 .. n,
             NoRotation(c, i, j)
      PROVE  ToSet(c[i]) \subseteq SinceRotation(items)
  <2>1. NoRotation(items, i, n)
    <3> SUFFICES ASSUME NEW k \in i .. n PROVE items[k] # Rotation
      BY DEF NoRotation
    <3>1. k \in i .. j /\ k \in 1 .. n
      BY <1>1, <1>3
    <3> QED
      BY <1>1, <1>3, <3>1 DEF NoRotation
  <2>2. i \in DOMAIN items /\ c[i] = items[i]
    BY <1>1
  <2> QED
    BY <2>1, <2>2 DEF SinceRotation, n
<1>5. Separated(c, logs)
  <2> SUFFICES ASSUME NEW i \in DOMAIN c, NEW j \in DOMAIN c,
                      i < j, NoRotation(c, i, j)
               PROVE  OneLog(ToSet(c[i]) \cup ToSet(c[j]), logs)
    BY DEF Separated
  <2>1. CASE j \in 1 .. n
    <3>1. /\ i \in DOMAIN items /\ j \in DOMAIN items
          /\ c[i] = items[i] /\ c[j] = items[j]
      BY <1>1, <2>1
    <3>2. NoRotation(items, i, j)
      <4> SUFFICES ASSUME NEW k \in i .. j PROVE items[k] # Rotation
        BY DEF NoRotation
      <4>1. k \in 1 .. n
        BY <1>1, <2>1
      <4> QED
        BY <1>1, <4>1 DEF NoRotation
    <3> QED
      BY <3>1, <3>2 DEF Separated
  <2>2. CASE i \notin 1 .. n
    <3>1. j \notin 1 .. n
      BY <1>1, <2>2
    <3> QED
      BY <1>2, <2>2, <3>1 DEF OneLog, AllWithin
  <2>3. CASE i \in 1 .. n /\ j \notin 1 .. n
    BY <1>2, <1>3, <2>3 DEF OneLog, AllWithin
  <2> QED
    BY <2>1, <2>2, <2>3
<1>6. SinceRotation(c) \subseteq SinceRotation(items) \cup LinesIn(new)
  <2> SUFFICES ASSUME NEW i \in DOMAIN c, NoRotation(c, i, Len(c))
               PROVE  ToSet(c[i])
                        \subseteq SinceRotation(items) \cup LinesIn(new)
    BY DEF SinceRotation
  <2>1. CASE i \notin 1 .. n
    BY <1>2, <2>1
  <2>2. CASE i \in 1 .. n
    <3>1. NoRotation(items, i, n)
      <4> SUFFICES ASSUME NEW k \in i .. n PROVE items[k] # Rotation
        BY DEF NoRotation
      <4>1. k \in 1 .. n /\ k \in i .. Len(c)
        BY <1>1, <2>2
      <4> QED
        BY <1>1, <4>1 DEF NoRotation
    <3> QED
      BY <1>1, <2>2, <3>1 DEF SinceRotation, n
  <2> QED
    BY <2>1, <2>2
<1> QED
  BY <1>5, <1>6 DEF c

(* A rotation ends what belongs together.                                  *)
LEMMA SeparatedRotation ==
  ASSUME NEW items \in Seq(Item), NEW logs, DOMAIN logs # {},
         Separated(items, logs)
  PROVE  /\ items \o <<Rotation>> \in Seq(Item)
         /\ Separated(items \o <<Rotation>>, logs)
         /\ SinceRotation(items \o <<Rotation>>) = {}
<1> DEFINE c == items \o <<Rotation>>
           n == Len(items)
<1>1. /\ n \in Nat /\ Len(c) = n + 1 /\ c[n + 1] = Rotation
      /\ \A i \in 1 .. n : c[i] = items[i]
      /\ \A i : i \in DOMAIN c <=> i \in 1 .. n + 1
      /\ \A i : i \in DOMAIN items <=> i \in 1 .. n
  OBVIOUS
<1>2. c \in Seq(Item) /\ ToSet(Rotation) = {}
  BY LinesOfNone, LinesOfOne, LinesOfConcat DEF Rotation
<1> HIDE DEF c, n
<1>4. \A i \in DOMAIN c : ~NoRotation(c, i, n + 1)
  BY <1>1 DEF NoRotation
<1>5. Separated(c, logs)
  <2> SUFFICES ASSUME NEW i \in DOMAIN c, NEW j \in DOMAIN c,
                      i < j, NoRotation(c, i, j)
               PROVE  OneLog(ToSet(c[i]) \cup ToSet(c[j]), logs)
    BY DEF Separated
  <2>1. j # n + 1
    BY <1>4
  <2>2. /\ i \in DOMAIN items /\ j \in DOMAIN items /\ j \in 1 .. n
        /\ c[i] = items[i] /\ c[j] = items[j]
    BY <1>1, <2>1
  <2>3. NoRotation(items, i, j)
    <3> SUFFICES ASSUME NEW k \in i .. j PROVE items[k] # Rotation
      BY DEF NoRotation
    <3>1. k \in 1 .. n
      BY <1>1, <2>2
    <3> QED
      BY <1>1, <3>1 DEF NoRotation
  <2> QED
    BY <2>2, <2>3 DEF Separated
<1>6. SinceRotation(c) = {}
  BY <1>1, <1>4 DEF SinceRotation
<1> QED
  BY <1>2, <1>5, <1>6 DEF c

-----------------------------------------------------------------------------
(* What is held, and handed on since the last rotation that is handed on,  *)
(* is of one log: the open one unless it was truncated under the handle.   *)
InSession(f) ==
  /\ AllWithin(LinesOf(Leftover), files[f])
  /\ ~once /\ ~last_rotation => AllWithin(SinceRotation(sent), files[f])
  /\ Sound => f = handle.file

SessionOK ==
  /\ EachOneLog(sent, files)
  /\ ~once => Separated(sent, files)
  /\ tailer # "failed" => \E f \in DOMAIN files : InSession(f)

(* The game's logs grow around the lines.                                  *)
LEMMA SessionStepGame ==
  Inv /\ HandleOK' /\ LinesOK /\ SessionOK /\ Game => SessionOK'
<1> SUFFICES ASSUME Inv, HandleOK', LinesOK, SessionOK, Game PROVE SessionOK'
  OBVIOUS
<1>1. /\ UNCHANGED <<once, tailer, sent, partial_line, line_buffer, entries,
                     last_rotation>>
      /\ Sound' => Sound /\ handle' = handle
      /\ \A f \in DOMAIN files :
           /\ f \in DOMAIN files' /\ files'[f].first = files[f].first
           /\ files'[f].size \in Nat /\ files'[f].size >= files[f].size
  BY GameKeeps
<1>2. \A f \in DOMAIN files : files[f].first \in Nat /\ files[f].size \in Nat
  BY TypesOfInv
<1>3. \A line \in AllLines : line[1] \in Nat
  BY DEF LinesOK, From
<1>4. ASSUME NEW lines, lines \subseteq AllLines, NEW f \in DOMAIN files,
             AllWithin(lines, files[f])
      PROVE  AllWithin(lines, files'[f])
  <2>1. \A line \in lines : line[1] \in Nat
    BY <1>3, <1>4
  <2>2. \A g \in DOMAIN files :
          AllWithin(lines, files[g]) => AllWithin(lines, files'[g])
    BY <1>1, <1>2, <2>1, LogsLarger
  <2> QED
    BY <1>4, <2>2
<1>5. ASSUME NEW lines, lines \subseteq AllLines, OneLog(lines, files)
      PROVE  OneLog(lines, files')
  BY <1>1, <1>4, <1>5 DEF OneLog
<1>6. Leftover' = Leftover
  BY <1>1 DEF Leftover
<1>7. /\ \A i \in DOMAIN sent : ToSet(sent[i]) \subseteq AllLines
      /\ SinceRotation(sent) \subseteq AllLines
      /\ LinesOf(Leftover) \subseteq AllLines
  BY LinesOfItem DEF LinesOK, AllLines
<1>8. EachOneLog(sent, files')
  BY <1>5, <1>7 DEF EachOneLog, SessionOK
<1>9. ~once => Separated(sent, files')
  <2> SUFFICES ASSUME ~once, NEW i \in DOMAIN sent, NEW j \in DOMAIN sent,
                      i < j, NoRotation(sent, i, j)
               PROVE  OneLog(ToSet(sent[i]) \cup ToSet(sent[j]), files')
    BY DEF Separated
  <2>1. OneLog(ToSet(sent[i]) \cup ToSet(sent[j]), files)
    BY DEF Separated, SessionOK
  <2>2. ToSet(sent[i]) \cup ToSet(sent[j]) \subseteq AllLines
    BY <1>7
  <2> QED
    BY <1>5, <2>1, <2>2
<1>10. ASSUME NEW f \in DOMAIN files, InSession(f)
       PROVE  f \in DOMAIN files' /\ InSession(f)'
  <2>1. AllWithin(LinesOf(Leftover), files'[f])
    BY <1>4, <1>7, <1>10 DEF InSession
  <2>2. ~once /\ ~last_rotation => AllWithin(SinceRotation(sent), files'[f])
    BY <1>4, <1>7, <1>10 DEF InSession
  <2>3. Sound' => f = handle'.file
    BY <1>1, <1>10 DEF InSession
  <2>4. \A g : g = f => InSession(g)'
    BY <1>1, <1>6, <2>1, <2>2, <2>3 DEF InSession
  <2> QED
    BY <1>1, <2>4
<1> QED
  BY <1>1, <1>8, <1>9, <1>10 DEF SessionOK

(* A reopening drops what is held and announces a rotation.                *)
LEMMA SessionStepReopen ==
  Inv /\ LinesOK /\ SessionOK /\ Reopen => SessionOK'
<1> SUFFICES ASSUME Inv, LinesOK, SessionOK, Reopen PROVE SessionOK'
  OBVIOUS
<1>1. UNCHANGED <<files, once, entries>> /\ entries = <<>>
  BY DEF Reopen, gameVars, modeVars, Inv, HandleOK
<1>2. CASE path = 0
  <2>1. tailer' = "failed" /\ sent' \in {<<>>, sent}
    BY <1>2 DEF Reopen, Kept
  <2>2. EachOneLog(<<>>, files) /\ Separated(<<>>, files)
    BY DEF EachOneLog, Separated
  <2> QED
    BY <1>1, <2>1, <2>2 DEF SessionOK
<1>3. CASE path # 0
  <2>1. /\ sent' = sent /\ last_rotation' = TRUE
        /\ handle' = [file |-> path, position |-> 0]
        /\ partial_line' = <<>> /\ line_buffer' = <<>>
    BY <1>3 DEF Reopen, ResetForNewFile
  <2>2. Leftover' = None
    BY <1>1, <2>1 DEF Leftover, None
  <2>3. LinesOf(Leftover') = {} /\ last_rotation' /\ handle'.file = path
    BY <2>1, <2>2, NoneHolds
  <2> PICK f : f = path
    OBVIOUS
  <2>4. InSession(f)'
    BY <2>3 DEF InSession, AllWithin
  <2>5. f \in DOMAIN files'
    BY <1>1, <1>3, TypesOfInv
  <2> QED
    BY <1>1, <2>1, <2>4, <2>5 DEF SessionOK
<1> QED
  BY <1>2, <1>3

(* A read holds lines of the open log.                                     *)
LEMMA SessionStepRead ==
  Inv /\ LinesOK /\ SessionOK /\ ReadChunk => SessionOK'
<1> SUFFICES ASSUME Inv, LinesOK, SessionOK, ReadChunk PROVE SessionOK'
  OBVIOUS
<1>1. PICK n \in Nat :
           /\ Sound /\ tailer = "reading"
           /\ handle'.file = handle.file
           /\ handle'.position = handle.position + n
           /\ First + (handle.position + n + 1) \div 2
                \in Reached .. written + 1
           /\ First + (handle.position + n + 1) \div 2 <= Beyond(handle.file)
           /\ Leftover' = FeedAll(Leftover, Chunk(n))
           /\ ReadSoFar(Leftover, FeedAll(Leftover, Chunk(n)),
                        files[handle.file], handle.position, n)
  BY ReadFacts
<1>2. UNCHANGED <<files, tailer, sent, once, last_rotation>>
  BY DEF ReadChunk, gameVars, modeVars, rotateVars
<1>3. PICK f \in DOMAIN files : InSession(f) /\ f = handle.file
  BY <1>1 DEF SessionOK, InSession
<1>4. AllWithin(LinesOf(Leftover'), files[f])
  <2> SUFFICES ASSUME NEW line \in LinesOf(Leftover')
               PROVE  Within(line, files[f])
    BY DEF AllWithin
  <2>1. From(line, First, First + (handle.position + n + 1) \div 2)
    BY <1>1 DEF ReadSoFar, Clean, First
  <2>2. /\ First \in Nat /\ Beyond(f) \in Nat
        /\ Reached \in Nat /\ written \in Nat
    BY <1>1, TypesOfInv, SoundFacts
  <2>3. line[1] \in Nat /\ First <= line[1] /\ line[1] < Beyond(f)
    BY <1>1, <1>3, <2>1, <2>2 DEF From
  <2> QED
    BY <1>3, <2>3 DEF Within, First, Beyond
<1>5. InSession(f)'
  BY <1>1, <1>2, <1>3, <1>4 DEF InSession
<1> QED
  BY <1>2, <1>5 DEF SessionOK

(* A poll hands on what was held, behind the rotation if there was one.    *)
LEMMA SessionStepEndPoll ==
  Inv /\ LinesOK /\ SessionOK /\ EndPoll => SessionOK'
<1> SUFFICES ASSUME Inv, LinesOK, SessionOK, EndPoll PROVE SessionOK'
  OBVIOUS
<1>1. /\ UNCHANGED <<files, once, handle>> /\ tailer = "reading"
      /\ sent' = sent \o PollItems
      /\ last_rotation' = (last_rotation /\ once)
      /\ Leftover' = Emptied(Leftover)
  BY DEF EndPoll, gameVars, modeVars, Leftover, Emptied
<1>2. /\ Leftover \in State /\ Leftover.out = entries
      /\ entries \in Seq(Item) /\ sent \in Seq(Item)
  BY DEF LinesOK, Leftover, State
<1>3. PICK f \in DOMAIN files : InSession(f)
  BY <1>1 DEF SessionOK
<1>4. /\ AllWithin(LinesIn(entries), files[f])
      /\ AllWithin(LinesOf(Leftover'), files[f])
  <2>1. LinesOf(Leftover) = LinesIn(entries) \cup LinesOf(Leftover')
    BY <1>1, <1>2, EmptiedHolds
  <2> QED
    BY <1>3, <2>1 DEF InSession, AllWithin
<1>5. Sound' => f = handle'.file
  BY <1>1, <1>3 DEF InSession, Sound
<1>6. \A i \in DOMAIN entries : OneLog(ToSet(entries[i]), files)
  BY <1>2, <1>4, LinesOfItem DEF OneLog, AllWithin
<1>7. CASE last_rotation /\ ~once
  <2>1. PICK rotated \in Seq(Item) :
          /\ rotated = sent \o <<Rotation>>
          /\ Separated(rotated, files) /\ SinceRotation(rotated) = {}
    BY <1>2, <1>7, SeparatedRotation DEF SessionOK
  <2>2. EachOneLog(rotated, files)
    <3>1. \A i \in DOMAIN <<Rotation>> : OneLog(ToSet(<<Rotation>>[i]), files)
      BY <1>3, LinesOfNone DEF Rotation, OneLog, AllWithin
    <3>2. <<Rotation>> \in Seq(Item)
      BY <1>2, PollItemsHold
    <3> QED
      BY <1>2, <2>1, <3>1, <3>2, EachConcat DEF SessionOK
  <2>3. sent' = rotated \o entries
    <3>1. PICK r \in Seq(Item) : r = <<Rotation>>
      BY <1>2, PollItemsHold
    <3>2. (sent \o r) \o entries = sent \o (r \o entries)
      BY <1>2, ConcatAssociates
    <3> QED
      BY <1>1, <1>7, <2>1, <3>1, <3>2 DEF PollItems
  <2>4. /\ EachOneLog(rotated \o entries, files)
        /\ Separated(rotated \o entries, files)
        /\ SinceRotation(rotated \o entries) \subseteq LinesIn(entries)
    <3>1. AllWithin(SinceRotation(rotated), files[f])
      BY <2>1 DEF AllWithin
    <3>2. EachOneLog(rotated \o entries, files)
      BY <1>2, <1>6, <2>2, EachConcat
    <3>3. /\ Separated(rotated \o entries, files)
          /\ SinceRotation(rotated \o entries)
               \subseteq SinceRotation(rotated) \cup LinesIn(entries)
      BY <1>2, <1>4, <2>1, <3>1, SeparatedConcat
    <3> QED
      BY <2>1, <3>2, <3>3
  <2>5. AllWithin(SinceRotation(sent'), files[f])
    BY <1>4, <2>3, <2>4 DEF AllWithin
  <2>6. InSession(f)'
    BY <1>1, <1>4, <1>5, <2>5 DEF InSession
  <2> QED
    BY <1>1, <2>3, <2>4, <2>6 DEF SessionOK
<1>8. CASE ~(last_rotation /\ ~once)
  <2>1. sent' = sent \o entries
    BY <1>1, <1>8 DEF PollItems
  <2>2. EachOneLog(sent \o entries, files)
    BY <1>2, <1>6, EachConcat DEF SessionOK
  <2>3. ~once => Separated(sent \o entries, files)
                 /\ AllWithin(SinceRotation(sent \o entries), files[f])
    <3> SUFFICES ASSUME ~once
                 PROVE  /\ Separated(sent \o entries, files)
                        /\ AllWithin(SinceRotation(sent \o entries), files[f])
      OBVIOUS
    <3>1. Separated(sent, files) /\ AllWithin(SinceRotation(sent), files[f])
      BY <1>3, <1>8 DEF SessionOK, InSession
    <3>2. /\ Separated(sent \o entries, files)
          /\ SinceRotation(sent \o entries)
               \subseteq SinceRotation(sent) \cup LinesIn(entries)
      BY <1>2, <1>4, <3>1, SeparatedConcat
    <3> QED
      BY <1>4, <3>1, <3>2 DEF AllWithin
  <2>4. InSession(f)'
    BY <1>1, <1>4, <1>5, <2>1, <2>3 DEF InSession
  <2> QED
    BY <1>1, <2>1, <2>2, <2>3, <2>4 DEF SessionOK
<1> QED
  BY <1>7, <1>8

(* The end hands on what was held; no rotation waits then.                 *)
LEMMA SessionStepStop ==
  Inv /\ LinesOK /\ SessionOK /\ Stop => SessionOK'
<1> SUFFICES ASSUME Inv, LinesOK, SessionOK, Stop PROVE SessionOK'
  OBVIOUS
<1>1. PICK items \in Seq(Item) :
        /\ sent' = sent \o items
        /\ LinesIn(items) \subseteq LinesOf(Leftover)
        /\ Leftover' = None /\ handle' = handle
        /\ last_rotation' = last_rotation /\ tailer \in {"idle", "flushing"}
  BY StopFacts
<1>2. /\ UNCHANGED <<files, once>>
      /\ last_rotation => once
      /\ sent \in Seq(Item)
  BY <1>1 DEF Stop, gameVars, modeVars, Inv, HandleOK, LinesOK
<1>3. PICK f \in DOMAIN files : InSession(f)
  BY <1>1 DEF SessionOK
<1>4. AllWithin(LinesIn(items), files[f])
  BY <1>1, <1>3 DEF InSession, AllWithin
<1>5. EachOneLog(sent \o items, files)
  <2>1. \A i \in DOMAIN items : OneLog(ToSet(items[i]), files)
    BY <1>4, LinesOfItem DEF OneLog, AllWithin
  <2> QED
    BY <1>2, <2>1, EachConcat DEF SessionOK
<1>6. ~once => Separated(sent \o items, files)
               /\ AllWithin(SinceRotation(sent \o items), files[f])
  <2> SUFFICES ASSUME ~once
               PROVE  /\ Separated(sent \o items, files)
                      /\ AllWithin(SinceRotation(sent \o items), files[f])
    OBVIOUS
  <2>1. Separated(sent, files) /\ AllWithin(SinceRotation(sent), files[f])
    BY <1>2, <1>3 DEF SessionOK, InSession
  <2>2. /\ Separated(sent \o items, files)
        /\ SinceRotation(sent \o items)
             \subseteq SinceRotation(sent) \cup LinesIn(items)
    BY <1>2, <1>4, <2>1, SeparatedConcat
  <2> QED
    BY <1>4, <2>1, <2>2 DEF AllWithin
<1>7. LinesOf(Leftover') = {} /\ (Sound' => Sound)
  BY <1>1, <1>2, NoneHolds DEF Sound
<1>8. InSession(f)'
  BY <1>1, <1>2, <1>3, <1>6, <1>7 DEF InSession, AllWithin
<1> QED
  BY <1>1, <1>2, <1>5, <1>6, <1>8 DEF SessionOK

(* Every step keeps the logs apart.                                        *)
LEMMA SessionStep ==
  Inv /\ HandleOK' /\ LinesOK /\ SessionOK /\ [Next]_vars => SessionOK'
<1> SUFFICES ASSUME Inv, HandleOK', LinesOK, SessionOK, [Next]_vars
             PROVE  SessionOK'
  OBVIOUS
<1>1. CASE Opening
  <2>1. /\ UNCHANGED <<files, once, sent, partial_line, line_buffer, entries>>
        /\ tailer \in {"closed", "opened", "seeking"}
    BY <1>1 DEF Opening, Open, InitialMtime, SeekEnd, modeVars, gameVars,
                lineVars
  <2>2. handle'.file \in DOMAIN files
    BY <1>1, TypesOfInv
       DEF Opening, Open, InitialMtime, SeekEnd, openVars
  <2>3. sent = <<>> /\ Leftover' = None
    BY <2>1, NoneHolds DEF LinesOK, Inv, HandleOK, Leftover, None
  <2>4. LinesOf(Leftover') = {} /\ SinceRotation(sent') = {}
    BY <2>1, <2>3, NoneHolds DEF SinceRotation
  <2>5. EachOneLog(<<>>, files) /\ Separated(<<>>, files)
    BY DEF EachOneLog, Separated
  <2> PICK f : f = handle'.file
    OBVIOUS
  <2>6. InSession(f)'
    BY <2>4 DEF InSession, AllWithin
  <2> QED
    BY <2>1, <2>2, <2>3, <2>5, <2>6 DEF SessionOK
<1>2. CASE ReadError
  <2>1. /\ tailer' = "failed" /\ sent' \in {<<>>, sent}
        /\ UNCHANGED <<files, once>>
    BY <1>2 DEF ReadError, Kept, modeVars, gameVars
  <2>2. EachOneLog(<<>>, files) /\ Separated(<<>>, files)
    BY DEF EachOneLog, Separated
  <2> QED
    BY <2>1, <2>2 DEF SessionOK
<1>3. CASE NoCheck \/ CheckRotation \/ UNCHANGED vars
  <2>1. /\ UNCHANGED <<files, once, handle, sent, partial_line, line_buffer,
                       entries, last_rotation>>
        /\ tailer = "failed" => tailer' = "failed"
    BY <1>3 DEF NoCheck, CheckRotation, vars, modeVars, gameVars, openVars,
                rotateVars, lineVars
  <2>2. Leftover' = Leftover /\ Sound' = Sound
    BY <2>1 DEF Leftover, Sound
  <2>3. ASSUME NEW f \in DOMAIN files, InSession(f) PROVE InSession(f)'
    BY <2>1, <2>2, <2>3 DEF InSession
  <2> QED
    BY <2>1, <2>3 DEF SessionOK
<1> QED
  BY <1>1, <1>2, <1>3, SessionStepGame, SessionStepReopen, SessionStepRead,
     SessionStepEndPoll, SessionStepStop DEF Next, Poll, Terminated

(* A line tells its log.                                                   *)
LEMMA LogOfLine ==
  ASSUME Inv, NEW f \in DOMAIN files, NEW line, line[1] \in Nat,
         Within(line, files[f])
  PROVE  FileOf(line[1]) = f
<1>1. /\ \A g \in DOMAIN files : files[g].first \in Nat /\ g \in Nat
      /\ line[1] < Beyond(f) /\ files[f].first <= line[1]
      /\ Beyond(f) \in Nat
  BY TypesOfInv DEF Within, Beyond
<1>2. \A g \in DOMAIN files : files[g].first <= line[1] => g <= f
  <2> SUFFICES ASSUME NEW g \in DOMAIN files, files[g].first <= line[1], f < g
               PROVE  FALSE
    BY <1>1
  <2>1. Beyond(f) <= files[g].first
    BY DEF Inv, LogsOK
  <2> QED
    BY <1>1, <2>1
<1> DEFINE Is(g) == /\ files[g].first <= line[1]
                    /\ \A h \in DOMAIN files :
                         files[h].first <= line[1] => h <= g
<1>3. Is(f)
  BY <1>1, <1>2
<1>4. \A g \in DOMAIN files : Is(g) => g = f
  <2> TAKE g \in DOMAIN files
  <2> HAVE Is(g)
  <2>1. g <= f /\ f <= g
    BY <1>1, <1>2
  <2> QED
    BY <1>1, <2>1
<1>5. FileOf(line[1]) = CHOOSE g \in DOMAIN files : Is(g)
  BY DEF FileOf
<1> HIDE DEF Is
<1> QED
  BY <1>3, <1>4, <1>5

(* An entry tells its log by any of its lines.                             *)
LEMMA LogOfEntry ==
  ASSUME Inv, NEW item \in Item, item # <<>>, NEW f \in DOMAIN files,
         \A line \in ToSet(item) : From(line, 1, written + 1),
         AllWithin(ToSet(item), files[f])
  PROVE  FilesOf(item) = {f}
<1>1. \A line \in ToSet(item) :
        /\ line \in Text /\ Len(line) = 1 /\ line[1] \in Nat
        /\ FileOf(line[1]) = f
  BY LogOfLine DEF From, AllWithin, ToSet, Item
<1>2. \A line \in ToSet(item) : ToSet(line) = {line[1]}
  BY <1>1 DEF ToSet, Text
<1>3. PICK line \in ToSet(item) : TRUE
  BY DEF ToSet, Item
<1> QED
  BY <1>1, <1>2, <1>3 DEF FilesOf

(* At first nothing was handed on.                                         *)
LEMMA SessionInit == Init => SessionOK
<1> SUFFICES ASSUME Init PROVE SessionOK
  OBVIOUS
<1>1. /\ Leftover = None /\ sent = <<>> /\ tailer = "closed"
      /\ handle.file = 0 /\ 1 \in DOMAIN files
  BY NoneHolds DEF Init
<1>2. LinesOf(Leftover) = {} /\ ~Sound
  BY <1>1, NoneHolds DEF Sound
<1>3. EachOneLog(sent, files) /\ Separated(sent, files)
      /\ SinceRotation(sent) = {}
  BY <1>1 DEF EachOneLog, Separated, SinceRotation
<1>4. InSession(1)
  BY <1>2, <1>3 DEF InSession, AllWithin
<1> QED
  BY <1>1, <1>3, <1>4 DEF SessionOK

(* No entry mixes the lines of two logs, and between the entries of two    *)
(* logs the polling tailer hands on a rotation: also when the log is       *)
(* replaced between the check and the reads of a poll, or truncated under  *)
(* the handle.                                                             *)
THEOREM FilesSeparated == Spec => []RotationSeparatesFiles
<1>1. Init => LinesOK /\ SessionOK
  BY LinesInit, SessionInit
<1>2. Inv /\ HandleOK' /\ LinesOK /\ SessionOK /\ [Next]_vars
        => LinesOK' /\ SessionOK'
  BY LinesStep, SessionStep
<1>3. Inv /\ LinesOK /\ SessionOK => RotationSeparatesFiles
  <2> SUFFICES ASSUME Inv, LinesOK, SessionOK PROVE RotationSeparatesFiles
    OBVIOUS
  <2>1. /\ sent \in Seq(Item)
        /\ \A i \in DOMAIN sent :
             /\ sent[i] \in Item
             /\ \A line \in ToSet(sent[i]) : From(line, 1, written + 1)
    BY LinesOfItem DEF LinesOK, AllLines
  <2>2. FilesOf(Rotation) = {}
    BY LinesOfNone DEF FilesOf, Rotation
  <2>3. ASSUME NEW i \in DOMAIN sent, NEW f \in DOMAIN files,
               AllWithin(ToSet(sent[i]), files[f]), sent[i] # Rotation
        PROVE  FilesOf(sent[i]) = {f}
    BY <2>1, <2>3, LogOfEntry DEF Rotation
  <2>4. ASSUME NEW i \in DOMAIN sent
        PROVE  \A f, g \in FilesOf(sent[i]) : f = g
    <3>1. PICK f \in DOMAIN files : AllWithin(ToSet(sent[i]), files[f])
      BY DEF SessionOK, EachOneLog, OneLog
    <3> QED
      BY <2>2, <2>3, <3>1
  <2>5. ASSUME NEW i \in DOMAIN sent, NEW j \in DOMAIN sent, ~once, i < j,
               sent[i] # Rotation, sent[j] # Rotation,
               FilesOf(sent[i]) # FilesOf(sent[j])
        PROVE  \E k \in i .. j : sent[k] = Rotation
    <3> SUFFICES ASSUME NoRotation(sent, i, j) PROVE FALSE
      BY DEF NoRotation
    <3>1. PICK f \in DOMAIN files :
            AllWithin(ToSet(sent[i]) \cup ToSet(sent[j]), files[f])
      BY <2>5 DEF SessionOK, Separated, OneLog
    <3> QED
      BY <2>3, <2>5, <3>1 DEF AllWithin
  <2> QED
    BY <2>4, <2>5 DEF RotationSeparatesFiles
<1> QED
  BY <1>1, <1>2, <1>3, Invariance, LogsFollow, PTL DEF Spec, Inv

-----------------------------------------------------------------------------
(* The order of what was handed on and is held; of a log that was replaced *)
(* every line is older than those of the log at the path.                  *)
OrderOK ==
  /\ InLogOrder(sent)
  /\ OrderHeld(Leftover)
  /\ Before(LinesIn(sent), LinesOf(Leftover))
  /\ Sound => \A line \in LinesIn(sent) : line[1] < Reached
  /\ handle.file # 0 /\ replaced /\ path # 0 =>
       \A line \in AllLines : line[1] < files[path].first

(* A new log begins behind every line that was written.                    *)
LEMMA OrderStepGame ==
  Inv /\ HandleOK' /\ LinesOK /\ OrderOK /\ Game => OrderOK'
<1> SUFFICES ASSUME Inv, HandleOK', LinesOK, OrderOK, Game PROVE OrderOK'
  OBVIOUS
<1>1. /\ UNCHANGED <<sent, partial_line, line_buffer, entries>>
      /\ Sound' => Sound /\ handle' = handle /\ First' = First
      /\ \A f \in DOMAIN files : files'[f].first = files[f].first
  BY GameKeeps
<1>2. Leftover' = Leftover /\ AllLines' = AllLines
  BY <1>1 DEF Leftover, AllLines
<1>3. (Sound => \A line \in LinesIn(sent) : line[1] < Reached)'
  <2>1. Sound' => Sound /\ Reached' = Reached
    BY <1>1 DEF Reached
  <2> QED
    BY <1>1, <2>1 DEF OrderOK
<1>4. (handle.file # 0 /\ replaced /\ path # 0 =>
         \A line \in AllLines : line[1] < files[path].first)'
  <2>1. CASE Write \/ Tick
    <3>1. UNCHANGED <<handle, replaced, path>>
      BY <2>1 DEF Write, Tick, openVars, rotateVars
    <3>2. path' # 0 => files'[path'].first = files[path].first
      <4>1. path # 0 => path \in DOMAIN files
        BY TypesOfInv
      <4>2. PICK last : last = path
        OBVIOUS
      <4> QED
        BY <1>1, <3>1, <4>1
    <3> QED
      BY <1>2, <3>1, <3>2 DEF OrderOK
  <2>2. CASE MoveAway
    BY <2>2 DEF MoveAway
  <2>3. CASE Create \/ Truncate
    <3>1. files' = Append(files, NewLog) /\ path' = Len(files) + 1
      BY <2>3 DEF Create, Truncate
    <3>2. files'[path'].first = written + 1
      BY <3>1, TypesOfInv, AppendGrows DEF NewLog, Inv
    <3>3. \A line \in AllLines : line[1] < written + 1
      BY DEF LinesOK, From
    <3> QED
      BY <1>2, <3>2, <3>3
  <2> QED
    BY <2>1, <2>2, <2>3 DEF Game
<1> QED
  BY <1>1, <1>2, <1>3, <1>4 DEF OrderOK

(* Two sets of lines of the game, one from before a line.                  *)
LEMMA BeforeLine ==
  ASSUME NEW A, NEW B, NEW next,
         \A line \in A : line \in Text /\ Len(line) = 1 /\ line[1] < next,
         \A line \in B : line \in Text /\ Len(line) = 1 /\ line[1] >= next,
         next \in Nat
  PROVE  Before(A, B)
<1> SUFFICES ASSUME NEW line \in A, NEW other \in B
             PROVE  Earlier(line, other)
  BY DEF Before
<1>1. line[1] \in Nat /\ other[1] \in Nat
  BY DEF Text
<1>2. line[1] < other[1]
  BY <1>1
<1> QED
  BY <1>2, EarlierLines

(* The lines handed on or held are whole and numbered.                     *)
LEMMA LinesTyped ==
  ASSUME LinesOK
  PROVE  \A line \in AllLines :
           line \in Text /\ Len(line) = 1 /\ line[1] \in Nat
<1>1. \A line \in AllLines : line \in Text
  BY TextOfLines, LinesAreText DEF AllLines, LinesOK
<1> QED
  BY <1>1 DEF LinesOK, From

(* A read takes lines from behind the position.                            *)
LEMMA OrderStepRead ==
  Inv /\ LinesOK /\ OrderOK /\ ReadChunk => OrderOK'
<1> SUFFICES ASSUME Inv, LinesOK, OrderOK, ReadChunk PROVE OrderOK'
  OBVIOUS
<1>1. PICK n \in Nat :
           /\ Sound
           /\ handle'.file = handle.file
           /\ handle'.position = handle.position + n
           /\ First + (handle.position + n + 1) \div 2
                \in Reached .. written + 1
           /\ First + (handle.position + n + 1) \div 2 <= Beyond(handle.file)
           /\ Leftover' = FeedAll(Leftover, Chunk(n))
           /\ ReadSoFar(Leftover, FeedAll(Leftover, Chunk(n)),
                        files[handle.file], handle.position, n)
  BY ReadFacts
<1>2. UNCHANGED <<files, path, sent, replaced>>
  BY DEF ReadChunk, gameVars, rotateVars
<1>3. /\ First \in Nat /\ Reached \in Nat /\ Beyond(handle.file) \in Nat
      /\ handle.file \in DOMAIN files
      /\ path # 0 => path \in DOMAIN files /\ files[path].first \in Nat
  BY <1>1, SoundFacts, TypesOfInv
<1>4. First' = First /\ Reached' = First + (handle.position + n + 1) \div 2
      /\ Reached' \in Nat /\ Reached' >= Reached
  BY <1>1, <1>2, <1>3, TypesOfInv DEF First, Reached
<1>5. /\ OrderHeld(Leftover')
      /\ \A line \in LinesOf(Leftover') :
           line \in LinesOf(Leftover) \/ line[1] >= Reached
      /\ \A line \in LinesOf(Leftover') : From(line, First, Reached')
      /\ Leftover' \in State
  BY <1>1, <1>4 DEF ReadSoFar, Clean, OrderOK, First, Reached
<1>6. /\ \A line \in LinesIn(sent) : line \in AllLines /\ line[1] < Reached
      /\ \A line \in LinesOf(Leftover) : line \in AllLines
      /\ \A line \in AllLines :
           line \in Text /\ Len(line) = 1 /\ line[1] \in Nat
  BY <1>1, LinesTyped DEF OrderOK, AllLines
<1>7. \A line \in LinesOf(Leftover') :
        line \in Text /\ Len(line) = 1 /\ line[1] \in Nat
  BY <1>5, LinesAreText DEF From
<1>8. Before(LinesIn(sent), LinesOf(Leftover'))
  <2>1. Before(LinesIn(sent),
               {line \in LinesOf(Leftover') : line[1] >= Reached})
    BY <1>3, <1>6, <1>7, BeforeLine
  <2> QED
    BY <1>5, <2>1 DEF OrderOK, Before
<1>9. \A line \in LinesIn(sent) : line[1] < Reached'
  BY <1>3, <1>4, <1>6
<1>10. handle'.file # 0 /\ replaced' /\ path' # 0 =>
         \A line \in AllLines' : line[1] < files'[path'].first
  <2> SUFFICES ASSUME replaced, path # 0, NEW line \in AllLines'
               PROVE  line[1] < files[path].first
    BY <1>2
  <2>1. CASE line \in LinesIn(sent)
    BY <1>1, <1>2, <2>1 DEF OrderOK, AllLines, Sound
  <2>2. CASE line \in LinesOf(Leftover')
    <3>1. line[1] < Beyond(handle.file)
      BY <1>1, <1>3, <1>4, <1>5, <1>7, <2>2 DEF From
    <3>2. Beyond(handle.file) <= files[path].first
      <4>1. handle.file # path /\ path = Len(files)
        BY <1>1, SoundFacts DEF Inv, LogsOK
      <4>2. handle.file < path /\ path \in DOMAIN files
        BY <1>3, <4>1, TypesOfInv
      <4> QED
        BY <1>3, <4>2 DEF Inv, LogsOK
    <3> QED
      BY <1>3, <1>7, <2>2, <3>1, <3>2
  <2> QED
    BY <1>2, <2>1, <2>2 DEF AllLines
<1> QED
  BY <1>2, <1>5, <1>8, <1>9, <1>10 DEF OrderOK

(* A log that is read from its start is newer than every line so far,      *)
(* because it replaced theirs.                                             *)
LEMMA OrderStepReopen ==
  Inv /\ LinesOK /\ RotationsFound /\ OrderOK /\ Reopen => OrderOK'
<1> SUFFICES ASSUME Inv, LinesOK, RotationsFound, OrderOK, Reopen
             PROVE  OrderOK'
  OBVIOUS
<1>1. /\ UNCHANGED <<files, path, entries>> /\ entries = <<>>
      /\ replaced /\ handle.file # 0 /\ tailer = "reopening"
  BY TypesOfInv DEF Reopen, gameVars, Inv, HandleOK, RotationsFound
<1>2. InLogOrder(<<>>) /\ \A B : Before({}, B)
  BY DEF InLogOrder, Before
<1>3. CASE path = 0
  <2>1. /\ sent' \in {<<>>, sent}
        /\ UNCHANGED <<handle, partial_line, line_buffer>>
    BY <1>3 DEF Reopen, Kept, openVars
  <2>2. Leftover' = Leftover /\ Sound' = Sound /\ Reached' = Reached
    BY <1>1, <2>1 DEF Leftover, Sound, Reached, First
  <2>3. LinesIn(sent') \subseteq LinesIn(sent)
    BY <2>1, LinesOfNone
  <2>4. InLogOrder(sent') /\ Before(LinesIn(sent'), LinesOf(Leftover))
    BY <1>2, <2>1, LinesOfNone DEF OrderOK
  <2> QED
    BY <1>1, <1>3, <2>2, <2>3, <2>4 DEF OrderOK
<1>4. CASE path # 0
  <2>1. /\ sent' = sent /\ handle' = [file |-> path, position |-> 0]
        /\ replaced' = FALSE /\ Leftover' = None
    BY <1>1, <1>4 DEF Reopen, ResetForNewFile, Leftover, None
  <2>2. files[path].first \in Nat
    BY <1>4, TypesOfInv
  <2>3. Reached' = files[path].first
    BY <1>1, <2>1, <2>2 DEF Reached, First
  <2>4. \A line \in LinesIn(sent') : line[1] < Reached'
    BY <1>1, <1>4, <2>1, <2>3 DEF OrderOK, AllLines
  <2>5. OrderHeld(Leftover') /\ Before(LinesIn(sent'), LinesOf(Leftover'))
    BY <2>1, NoneHolds DEF Before
  <2> QED
    BY <2>1, <2>4, <2>5 DEF OrderOK
<1> QED
  BY <1>3, <1>4

(* What a poll or a flush hands on of what was held, in the order it was.  *)
LEMMA OrderHandedOn ==
  ASSUME Inv, LinesOK, OrderOK, NEW items \in Seq(Item),
         sent' = sent \o items, InLogOrder(items),
         LinesIn(items) \subseteq LinesOf(Leftover),
         Leftover' \in State, OrderHeld(Leftover'),
         LinesOf(Leftover') \subseteq LinesOf(Leftover),
         Before(LinesIn(items), LinesOf(Leftover')),
         UNCHANGED <<files, path, handle, replaced>>
  PROVE  OrderOK'
<1>1. sent \in Seq(Item)
  BY DEF LinesOK
<1>2. Before(LinesIn(sent), LinesIn(items))
      /\ Before(LinesIn(sent), LinesOf(Leftover'))
  BY DEF OrderOK, Before
<1>3. InLogOrder(sent \o items)
  BY <1>1, <1>2, OrderOfConcat DEF OrderOK
<1>4. LinesIn(sent \o items) = LinesIn(sent) \cup LinesIn(items)
  BY <1>1, LinesOfConcat
<1>5. Before(LinesIn(sent'), LinesOf(Leftover'))
  BY <1>2, <1>4 DEF Before
<1>6. Sound' = Sound /\ First' = First /\ Reached' = Reached
  BY DEF Sound, First, Reached
<1>7. Sound => \A line \in LinesIn(sent') : line[1] < Reached
  BY <1>4 DEF OrderOK, LinesOK, From
<1>8. AllLines' \subseteq AllLines
  BY <1>4 DEF AllLines
<1> QED
  BY <1>3, <1>5, <1>6, <1>7, <1>8 DEF OrderOK

(* The end of a poll, an error and the end of the tailer hand on a part.   *)
LEMMA OrderStepEnd ==
  Inv /\ LinesOK /\ OrderOK /\ (EndPoll \/ ReadError \/ Stop) => OrderOK'
<1> SUFFICES ASSUME Inv, LinesOK, OrderOK, EndPoll \/ ReadError \/ Stop
             PROVE  OrderOK'
  OBVIOUS
<1>1. UNCHANGED <<files, path, handle, replaced>>
  BY DEF EndPoll, ReadError, Stop, gameVars, openVars, rotateVars
<1>2. /\ Leftover \in State /\ Leftover.out = entries
      /\ entries \in Seq(Item) /\ sent \in Seq(Item)
  BY DEF LinesOK, Leftover, State
<1>3. InLogOrder(<<>>) /\ \A B : Before({}, B) /\ Before(B, {})
  BY DEF InLogOrder, Before
<1>4. ASSUME EndPoll \/ ReadError
      PROVE  /\ Leftover' \in State /\ OrderHeld(Leftover')
             /\ LinesOf(Leftover) = LinesIn(entries) \cup LinesOf(Leftover')
             /\ InLogOrder(entries)
             /\ Before(LinesIn(entries), LinesOf(Leftover'))
  <2>1. Leftover' = Emptied(Leftover)
    BY <1>4 DEF EndPoll, ReadError, Leftover, Emptied
  <2> QED
    BY <1>2, <2>1, EmptiedHolds DEF OrderOK
<1>5. CASE EndPoll
  <2>1. sent' = sent \o PollItems
    BY <1>5 DEF EndPoll
  <2>2. PICK items \in Seq(Item) :
          items = PollItems /\ LinesIn(items) = LinesIn(entries)
    BY <1>2, PollItemsHold
  <2>3. InLogOrder(items)
    <3>1. CASE items = entries
      BY <1>4, <1>5, <3>1
    <3>2. CASE items = <<Rotation>> \o entries
      <4>1. <<Rotation>> \in Seq(Item) /\ LinesIn(<<Rotation>>) = {}
        BY <1>2, PollItemsHold
      <4>2. Rotation \in Item /\ ItemInOrder(Rotation)
        BY LinesOfNone DEF Rotation, ItemInOrder
      <4>3. InLogOrder(<<Rotation>>)
        BY <4>2, OrderOfOne
      <4>4. Before(LinesIn(<<Rotation>>), LinesIn(entries))
        BY <1>3, <4>1
      <4>5. InLogOrder(<<Rotation>> \o entries)
        BY <1>2, <1>4, <1>5, <4>1, <4>3, <4>4, OrderOfConcat
      <4> QED
        BY <3>2, <4>5
    <3> QED
      BY <2>2, <3>1, <3>2 DEF PollItems
  <2> QED
    BY <1>1, <1>4, <1>5, <2>1, <2>2, <2>3, OrderHandedOn
<1>6. CASE ReadError
  <2>1. sent' \in {<<>>, sent}
    BY <1>6 DEF ReadError, Kept
  <2>2. CASE sent' = sent
    <3>1. /\ sent' = sent \o <<>> /\ LinesIn(<<>>) = {} /\ <<>> \in Seq(Item)
      BY <1>2, <2>2, LinesOfNone
    <3>2. Before(LinesIn(<<>>), LinesOf(Leftover'))
      BY <1>3, <3>1
    <3> QED
      BY <1>1, <1>3, <1>4, <1>6, <3>1, <3>2, OrderHandedOn
  <2>3. CASE sent' = <<>>
    <3>1. LinesIn(sent') = {} /\ AllLines' \subseteq AllLines
      BY <1>4, <1>6, <2>3, LinesOfNone DEF AllLines
    <3>2. InLogOrder(sent') /\ Before(LinesIn(sent'), LinesOf(Leftover'))
      BY <1>3, <2>3, <3>1
    <3> QED
      BY <1>1, <1>4, <1>6, <3>1, <3>2 DEF OrderOK
  <2> QED
    BY <2>1, <2>2, <2>3
<1>7. CASE Stop
  <2>1. PICK items \in Seq(Item) :
           /\ sent' = sent \o items
           /\ LinesIn(items) \subseteq LinesOf(Leftover)
           /\ OrderHeld(Leftover) => InLogOrder(items)
           /\ Leftover' = None
    BY <1>7, StopFacts
  <2>2. /\ Leftover' \in State /\ OrderHeld(Leftover')
        /\ LinesOf(Leftover') = {}
    BY <2>1, NoneHolds
  <2>3. Before(LinesIn(items), LinesOf(Leftover')) /\ InLogOrder(items)
    BY <1>3, <2>1, <2>2 DEF OrderOK
  <2> QED
    BY <1>1, <2>1, <2>2, <2>3, OrderHandedOn
<1> QED
  BY <1>5, <1>6, <1>7

(* Every step keeps the order.                                             *)
LEMMA OrderStep ==
  /\ Inv /\ HandleOK' /\ LinesOK /\ RotationsFound /\ OrderOK
  /\ [Next]_vars
  => OrderOK'
<1> SUFFICES ASSUME Inv, HandleOK', LinesOK, RotationsFound, OrderOK,
                    [Next]_vars
             PROVE  OrderOK'
  OBVIOUS
<1>1. CASE Opening
  <2>1. /\ UNCHANGED <<path, sent, partial_line, line_buffer, entries>>
        /\ tailer \in {"closed", "opened", "seeking"}
    BY <1>1 DEF Opening, Open, InitialMtime, SeekEnd, gameVars, lineVars
  <2>2. sent = <<>> /\ Leftover' = None
    BY <2>1, NoneHolds DEF LinesOK, Inv, HandleOK, Leftover, None
  <2>3. /\ LinesOf(Leftover') = {} /\ LinesIn(sent') = {}
        /\ OrderHeld(Leftover')
    BY <2>1, <2>2, NoneHolds, LinesOfNone
  <2>4. AllLines' = {}
    BY <2>3 DEF AllLines
  <2> QED
    BY <2>1, <2>2, <2>3, <2>4 DEF OrderOK, InLogOrder, Before
<1>2. CASE NoCheck \/ CheckRotation \/ UNCHANGED vars
  <2>1. UNCHANGED <<files, path, handle, sent, partial_line, line_buffer,
                    entries, replaced>>
    BY <1>2 DEF NoCheck, CheckRotation, vars, modeVars, gameVars, openVars,
                rotateVars, lineVars
  <2>2. /\ Leftover' = Leftover /\ Sound' = Sound /\ Reached' = Reached
        /\ AllLines' = AllLines
    BY <2>1 DEF Leftover, Sound, Reached, First, AllLines
  <2> QED
    BY <2>1, <2>2 DEF OrderOK
<1> QED
  BY <1>1, <1>2, OrderStepGame, OrderStepReopen, OrderStepRead, OrderStepEnd
     DEF Next, Poll, Terminated

(* At first there is nothing to order.                                     *)
LEMMA OrderInit == Init => OrderOK
<1> SUFFICES ASSUME Init PROVE OrderOK
  OBVIOUS
<1>1. Leftover = None /\ sent = <<>> /\ handle.file = 0
  BY NoneHolds DEF Init
<1>2. ~Sound /\ LinesIn(sent) = {}
  BY <1>1, LinesOfNone DEF Sound
<1> QED
  BY <1>1, <1>2, NoneHolds DEF OrderOK, InLogOrder, Before

(* Entries are handed on in the order the game wrote them and none twice,  *)
(* over any number of logs.  That the game does not pause for as long as   *)
(* half the threshold is needed: a log that is taken for a new one after a *)
(* pause is read again from its start.                                     *)
THEOREM EntriesOrdered ==
  ASSUME PausesAreShort
  PROVE  Spec => []EntriesInLogOrder
<1>1. Init => LinesOK /\ OrderOK
  BY LinesInit, OrderInit
<1>2. Inv /\ HandleOK' /\ LinesOK /\ RotationsFound /\ OrderOK /\ [Next]_vars
        => LinesOK' /\ OrderOK'
  BY LinesStep, OrderStep
<1>3. LinesOK /\ OrderOK => EntriesInLogOrder
  <2> SUFFICES ASSUME LinesOK, OrderOK PROVE EntriesInLogOrder
    OBVIOUS
  <2>1. sent \in Seq(Item) /\ Leftover \in State /\ entries = Leftover.out
    BY DEF LinesOK, Leftover
  <2>2. /\ entries \in Seq(Item) /\ InProgress(Leftover) \in Seq(Item)
        /\ LinesIn(InProgress(Leftover)) = ToSet(Leftover.buffer)
        /\ InLogOrder(InProgress(Leftover))
    BY <2>1, LinesOfProgress, OrderOfProgress DEF State, OrderOK, OrderHeld
  <2>3. /\ LinesIn(entries) \subseteq LinesOf(Leftover)
        /\ ToSet(Leftover.buffer) \subseteq LinesOf(Leftover)
    BY <2>1 DEF LinesOf, Taken
  <2>4. /\ sent \o entries \in Seq(Item)
        /\ LinesIn(sent \o entries) = LinesIn(sent) \cup LinesIn(entries)
        /\ InLogOrder(sent \o entries)
    <3>1. Before(LinesIn(sent), LinesIn(entries)) /\ InLogOrder(entries)
      BY <2>1, <2>3 DEF OrderOK, OrderHeld, Before
    <3> QED
      BY <2>1, <2>2, <3>1, LinesOfConcat, OrderOfConcat DEF OrderOK
  <2>5. Before(LinesIn(sent \o entries), LinesIn(InProgress(Leftover)))
    BY <2>1, <2>2, <2>3, <2>4 DEF OrderOK, OrderHeld, Before
  <2> QED
    BY <2>2, <2>4, <2>5, OrderOfConcat DEF EntriesInLogOrder, Items
<1> QED
  BY <1>1, <1>2, <1>3, Invariance, LogsFollow, RotationsAreFound, PTL
     DEF Spec, Inv
=============================================================================

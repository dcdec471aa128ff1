------------------------- MODULE LineBuffer_proofs -------------------------
(***************************************************************************)
(* Proofs about the line buffer, for every set of lines and every input,   *)
(* with the feature brace_depth_flush and without it.  The first part      *)
(* needs nothing of the brace counter: whatever it says, the entries are   *)
(* cut out of the log in order and without overlap.  The second shows that *)
(* counting line by line cuts them where a reading of the whole log would. *)
(* The third compares that count with the scan of the parsers: the body of *)
(* an entry that is given out early holds its JSON.                        *)
(***************************************************************************)
EXTENDS EntryBody, Walks, FiniteSetTheorems

USE LinesAssumption, FlagAssumption

Calls == Lines \cup {FlushMark, ResetMark}

(* The markers are no lines, and a line has one of the kinds.              *)
LEMMA LineFacts ==
  ASSUME NEW line \in Lines
  PROVE  IsLine(line) /\ KindOf(line) \in LineKind
<1>1. line \in Line /\ line.kind \in LineKind /\ line.frames \in Nat
  BY DEF Line
<1>2. line.kind # "flush" /\ line.kind # "reset"
  BY <1>1 DEF LineKind
<1>3. IsLine(line)
  BY <1>2 DEF IsLine, FlushMark, ResetMark
<1>4. strip_frame_prefix(line).kind \in LineKind
  BY <1>1 DEF strip_frame_prefix, Line
<1>5. KindOf(line) \in LineKind
  BY <1>4 DEF KindOf, LineKind
<1> QED
  BY <1>3, <1>5

(* The lines of a well-formed entry are places of the input.               *)
LEMMA WellFormedBounds ==
  ASSUME NEW in \in Seq(Calls), NEW header, NEW ls \in Seq(Nat),
         WellFormed(in, header, ls)
  PROVE  LastLine(ls) \in 1 .. Len(in) /\ ls[1] \in 1 .. Len(in)
<1>1. Len(ls) \in DOMAIN ls /\ 1 \in DOMAIN ls
  BY DEF WellFormed
<1>2. ls[Len(ls)] \in DOMAIN in /\ ls[1] \in DOMAIN in
  BY <1>1 DEF WellFormed
<1>3. DOMAIN in = 1 .. Len(in)
  OBVIOUS
<1> QED
  BY <1>2, <1>3 DEF LastLine

(* A longer input leaves entries well formed.                              *)
LEMMA WellFormedGrows ==
  ASSUME NEW in \in Seq(Calls), NEW call \in Calls, NEW header,
         NEW ls \in Seq(Nat), WellFormed(in, header, ls)
  PROVE  WellFormed(Append(in, call), header, ls)
<1> DEFINE longer == Append(in, call)
<1>1. /\ DOMAIN in \subseteq DOMAIN longer
      /\ \A i \in DOMAIN in : longer[i] = in[i]
  OBVIOUS
<1>2. 1 \in DOMAIN ls
  BY DEF WellFormed
<1> HIDE DEF longer
<1>3. WellFormed(longer, header, ls)
  BY <1>1, <1>2 DEF WellFormed
<1> QED
  BY <1>3 DEF longer

(* So it leaves the order of the entries.                                  *)
LEMMA InOrderGrows ==
  ASSUME NEW in \in Seq(Calls), NEW call \in Calls,
         NEW entries \in Seq(Entry), InOrder(in, entries)
  PROVE  InOrder(Append(in, call), entries)
<1> SUFFICES ASSUME NEW k \in DOMAIN entries
             PROVE  WellFormed(Append(in, call), entries[k].header,
                               entries[k].lines)
  BY DEF InOrder
<1>1. entries[k] \in Entry
  OBVIOUS
<1>2. entries[k].lines \in Seq(Nat)
  BY <1>1 DEF Entry
<1> QED
  BY <1>2, WellFormedGrows DEF InOrder

(* An entry that begins after the last one keeps the entries in order.     *)
LEMMA InOrderAppend ==
  ASSUME NEW in \in Seq(Calls), NEW entries \in Seq(Entry), NEW e \in Entry,
         InOrder(in, entries), WellFormed(in, e.header, e.lines),
         entries # <<>> =>
           LastLine(entries[Len(entries)].lines) < e.lines[1]
  PROVE  /\ Append(entries, e) \in Seq(Entry)
         /\ InOrder(in, Append(entries, e))
         /\ Append(entries, e)[Len(Append(entries, e))] = e
<1> DEFINE all == Append(entries, e)
<1>1. /\ all \in Seq(Entry)
      /\ Len(all) = Len(entries) + 1
      /\ all[Len(entries) + 1] = e
      /\ \A k \in 1 .. Len(entries) : all[k] = entries[k]
      /\ Len(entries) \in Nat
  OBVIOUS
<1> HIDE DEF all
<1>2. InOrder(in, all)
  <2> SUFFICES ASSUME NEW k \in 1 .. Len(entries) + 1
               PROVE  /\ WellFormed(in, all[k].header, all[k].lines)
                      /\ k > 1 => LastLine(all[k - 1].lines) < all[k].lines[1]
    BY <1>1 DEF InOrder
  <2>1. CASE k \in 1 .. Len(entries)
    <3>1. /\ k \in DOMAIN entries /\ all[k] = entries[k]
          /\ k > 1 => all[k - 1] = entries[k - 1]
      BY <1>1, <2>1
    <3> QED
      BY <3>1 DEF InOrder
  <2>2. CASE k = Len(entries) + 1
    <3>1. k > 1 => entries # <<>> /\ k - 1 = Len(entries)
                   /\ Len(entries) \in 1 .. Len(entries)
      BY <1>1, <2>2
    <3> QED
      BY <1>1, <2>2, <3>1
  <2> QED
    BY <2>1, <2>2
<1> QED
  BY <1>1, <1>2 DEF all

-----------------------------------------------------------------------------
(* The inductive invariant: the partition, and that an idle buffer is      *)
(* empty, so that a new entry starts with its own header.                  *)
IInv ==
  /\ TypeOK
  /\ Idle <=> lines = <<>>
  /\ EntriesPartitionTheLog

(* What take_entry yields, after a further call, is an orderly entry list  *)
(* that ends before that call.                                             *)
LEMMA TakeEntryKeepsOrder ==
  ASSUME IInv, NEW call \in Calls, NEW in, in = Append(input, call)
  PROVE  /\ emitted \o TakeEntry \in Seq(Entry)
         /\ InOrder(in, emitted \o TakeEntry)
         /\ emitted \o TakeEntry # <<>> =>
              LastLine((emitted \o TakeEntry)
                         [Len(emitted \o TakeEntry)].lines) <= Len(input)
<1>1. /\ input \in Seq(Calls) /\ lines \in Seq(Nat) /\ emitted \in Seq(Entry)
      /\ current_header \in {"None", "UnityDigit", "TruncationMarker"}
  BY DEF IInv, TypeOK, Calls
<1>2. InOrder(in, emitted)
  BY <1>1, InOrderGrows DEF IInv, EntriesPartitionTheLog
<1>3. CASE Idle
  <2>1. emitted \o TakeEntry = emitted
    BY <1>1, <1>3 DEF TakeEntry
  <2>2. ASSUME emitted # <<>>
        PROVE  LastLine(emitted[Len(emitted)].lines) <= Len(input)
    <3> DEFINE e == emitted[Len(emitted)]
    <3>1. Len(emitted) \in DOMAIN emitted /\ e \in Entry
      BY <1>1, <2>2
    <3>2. WellFormed(input, e.header, e.lines)
      BY <3>1 DEF IInv, EntriesPartitionTheLog, InOrder
    <3>3. e.lines \in Seq(Nat)
      BY <3>1 DEF Entry
    <3>4. LastLine(e.lines) \in 1 .. Len(input)
      BY <1>1, <3>2, <3>3, WellFormedBounds
    <3> QED
      BY <3>4
  <2> QED
    BY <1>1, <1>2, <2>1, <2>2
<1>4. CASE ~Idle
  <2> DEFINE e == [header |-> current_header, lines |-> lines]
  <2>1. emitted \o TakeEntry = Append(emitted, e)
    BY <1>1, <1>4 DEF TakeEntry
  <2>2. e \in Entry
    BY <1>1, <1>4 DEF Idle, Entry, LineKind
  <2>3. WellFormed(in, e.header, e.lines)
    BY <1>1, <1>4, WellFormedGrows DEF IInv, EntriesPartitionTheLog
  <2>4. emitted # <<>> => LastLine(emitted[Len(emitted)].lines) < e.lines[1]
    BY <1>4 DEF IInv, EntriesPartitionTheLog
  <2>5. LastLine(e.lines) = Len(input)
    BY <1>4 DEF IInv, EntriesPartitionTheLog
  <2>6. Len(input) \in Nat
    BY <1>1
  <2> HIDE DEF e
  <2>7. /\ Append(emitted, e) \in Seq(Entry)
        /\ InOrder(in, Append(emitted, e))
        /\ Append(emitted, e)[Len(Append(emitted, e))] = e
    <3>1. in \in Seq(Calls)
      BY <1>1
    <3> QED
      BY <1>1, <1>2, <2>2, <2>3, <2>4, <3>1, InOrderAppend
  <2> QED
    BY <2>1, <2>5, <2>6, <2>7
<1> QED
  BY <1>3, <1>4

(* An empty buffer satisfies it.                                           *)
LEMMA InvInit == Init => IInv
<1> SUFFICES ASSUME Init PROVE IInv
  OBVIOUS
<1>1. TypeOK
  BY DEF Init, TypeOK
<1>2. Idle <=> lines = <<>>
  BY DEF Init, Idle
<1>3. EntriesPartitionTheLog
  BY DEF Init, EntriesPartitionTheLog, InOrder, Idle
<1> QED
  BY <1>1, <1>2, <1>3 DEF IInv

(* A header line, alone, is a well-formed entry.                           *)
LEMMA HeaderAlone ==
  ASSUME NEW in \in Seq(Calls), NEW line \in Lines, IsHeader(line)
  PROVE  /\ WellFormed(Append(in, line), KindOf(line), <<Len(in) + 1>>)
         /\ <<Len(in) + 1>> \in Seq(Nat)
         /\ LastLine(<<Len(in) + 1>>) = Len(in) + 1
<1> DEFINE longer == Append(in, line)
           ls == <<Len(in) + 1>>
<1>1. /\ Len(in) + 1 \in DOMAIN longer /\ longer[Len(in) + 1] = line
      /\ Len(in) + 1 \in Nat
  BY DEF Calls
<1>2. /\ ls \in Seq(Nat) /\ Len(ls) = 1 /\ DOMAIN ls = {1}
      /\ ls[1] = Len(in) + 1 /\ ls # <<>>
  BY <1>1
<1>3. IsLine(line)
  BY LineFacts
<1> HIDE DEF longer, ls
<1>4. WellFormed(longer, KindOf(line), ls)
  BY <1>1, <1>2, <1>3 DEF WellFormed
<1> QED
  BY <1>2, <1>4 DEF longer, ls, LastLine

(* The line after the last one of an entry extends the entry.              *)
LEMMA EntryExtended ==
  ASSUME NEW in \in Seq(Calls), NEW line \in Lines, ~IsHeader(line),
         NEW header, NEW ls \in Seq(Nat), WellFormed(in, header, ls),
         LastLine(ls) = Len(in)
  PROVE  /\ Append(ls, Len(in) + 1) \in Seq(Nat)
         /\ WellFormed(Append(in, line), header, Append(ls, Len(in) + 1))
         /\ LastLine(Append(ls, Len(in) + 1)) = Len(in) + 1
         /\ Append(ls, Len(in) + 1)[1] = ls[1]
<1> DEFINE longer == Append(in, line)
           all    == Append(ls, Len(in) + 1)
<1>1. /\ Len(in) + 1 \in DOMAIN longer /\ longer[Len(in) + 1] = line
      /\ Len(in) + 1 \in Nat /\ Len(longer) = Len(in) + 1
  BY DEF Calls
<1>2. ls # <<>> /\ Len(ls) \in Nat \ {0} /\ 1 \in DOMAIN ls
  BY DEF WellFormed
<1>3. /\ all \in Seq(Nat) /\ Len(all) = Len(ls) + 1 /\ all # <<>>
      /\ all[Len(ls) + 1] = Len(in) + 1
      /\ \A j \in 1 .. Len(ls) : all[j] = ls[j]
      /\ DOMAIN all = 1 .. Len(ls) + 1
  BY <1>1, <1>2
<1>4. IsLine(line)
  BY LineFacts
<1>5. WellFormed(longer, header, ls)
  BY WellFormedGrows DEF Calls
<1>6. /\ ls[Len(ls)] = ls[1] + Len(ls) - 1 /\ ls[Len(ls)] = Len(in)
      /\ ls[1] \in Nat /\ header = KindOf(longer[ls[1]])
  <2>1. \A j \in DOMAIN ls : ls[j] = ls[1] + j - 1
    BY <1>5 DEF WellFormed
  <2>2. Len(ls) \in DOMAIN ls
    BY <1>2
  <2>3. ls[1] \in Nat
    BY <1>2
  <2>4. ls[Len(ls)] = Len(in) /\ header = KindOf(longer[ls[1]])
    BY <1>5 DEF WellFormed, LastLine
  <2> HIDE DEF longer, all
  <2> QED
    BY <2>1, <2>2, <2>3, <2>4
<1> HIDE DEF longer, all
<1>7. ASSUME NEW j \in 1 .. Len(ls) + 1
      PROVE  /\ all[j] = all[1] + j - 1
             /\ all[j] \in DOMAIN longer
             /\ IsLine(longer[all[j]])
             /\ IsHeader(longer[all[j]]) <=> j = 1
  <2>1. CASE j \in 1 .. Len(ls)
    <3>1. all[j] = ls[j] /\ all[1] = ls[1] /\ j \in DOMAIN ls
      <4>1. 1 \in 1 .. Len(ls) /\ DOMAIN ls = 1 .. Len(ls)
        BY <1>2
      <4> QED
        BY <1>3, <2>1, <4>1
    <3> QED
      BY <1>5, <3>1 DEF WellFormed
  <2>2. CASE j = Len(ls) + 1
    <3>1. all[j] = Len(in) + 1 /\ all[1] = ls[1] /\ j # 1
      <4>1. 1 \in 1 .. Len(ls) /\ j # 1
        BY <1>2, <2>2
      <4>2. /\ all[Len(ls) + 1] = Len(in) + 1
            /\ \A k \in 1 .. Len(ls) : all[k] = ls[k]
        BY <1>3
      <4> QED
        BY <2>2, <4>1, <4>2
    <3>2. all[j] = all[1] + j - 1
      BY <1>2, <1>6, <2>2, <3>1
    <3>3. /\ all[j] \in DOMAIN longer /\ IsLine(longer[all[j]])
          /\ ~IsHeader(longer[all[j]])
      BY <1>1, <1>4, <3>1
    <3> QED
      BY <3>1, <3>2, <3>3
  <2>3. j \in 1 .. Len(ls) \/ j = Len(ls) + 1
    BY <1>2
  <2> QED
    BY <2>1, <2>2, <2>3
<1>8. all[1] = ls[1]
  BY <1>2, <1>3
<1>9. WellFormed(longer, header, all)
  BY <1>3, <1>6, <1>7, <1>8 DEF WellFormed
<1> QED
  BY <1>3, <1>8, <1>9 DEF longer, all, LastLine

(* Every call on the buffer keeps the invariant.                           *)
LEMMA InvStep == IInv /\ [Next]_vars => IInv'
<1> SUFFICES ASSUME IInv, [Next]_vars PROVE IInv'
  OBVIOUS
<1>1. /\ input \in Seq(Calls) /\ lines \in Seq(Nat) /\ emitted \in Seq(Entry)
      /\ current_header \in {"None", "UnityDigit", "TruncationMarker"}
      /\ Len(input) \in Nat
  BY DEF IInv, TypeOK, Calls
<1> DEFINE after == emitted \o TakeEntry
<1>2. ASSUME NEW call \in Calls, input' = Append(input, call)
      PROVE  /\ after \in Seq(Entry) /\ InOrder(input', after)
             /\ after # <<>> => LastLine(after[Len(after)].lines) < Len(input) + 1
             /\ input' \in Seq(Calls) /\ Len(input') = Len(input) + 1
             /\ InOrder(input', emitted)
  <2>1. /\ after \in Seq(Entry) /\ InOrder(input', after)
        /\ after # <<>> => LastLine(after[Len(after)].lines) <= Len(input)
    BY <1>2, TakeEntryKeepsOrder
  <2>2. after # <<>> => after[Len(after)].lines \in Seq(Nat)
                         /\ after[Len(after)].lines # <<>>
    <3> HIDE DEF after
    <3> SUFFICES ASSUME after # <<>>
                 PROVE  after[Len(after)].lines \in Seq(Nat)
                         /\ after[Len(after)].lines # <<>>
      OBVIOUS
    <3>1. Len(after) \in DOMAIN after /\ after[Len(after)] \in Entry
      BY <2>1
    <3> QED
      BY <2>1, <3>1 DEF InOrder, WellFormed, Entry
  <2>3. after # <<>> => LastLine(after[Len(after)].lines) \in Nat
    <3> HIDE DEF after
    <3> QED
      BY <2>2 DEF LastLine
  <2>4. input' \in Seq(Calls) /\ Len(input') = Len(input) + 1
    BY <1>1, <1>2
  <2>5. InOrder(input', emitted)
    BY <1>1, <1>2, InOrderGrows DEF IInv, EntriesPartitionTheLog
  <2> HIDE DEF after
  <2> QED
    BY <1>1, <2>1, <2>3, <2>4, <2>5
<1>3. Taken.lines = <<>>
  BY DEF Taken, IInv
<1>4. CASE \E line \in Lines : push_line(line)
  <2> PICK line \in Lines : push_line(line)
    BY <1>4
  <2>1. line \in Calls /\ input' = Append(input, line)
    BY DEF Calls, push_line
  <2>2. KindOf(line) \in LineKind
    BY LineFacts
  <2>3. CASE PushSingleLine(line)
    <3> DEFINE e == [header |-> KindOf(line), lines |-> <<Position>>]
    <3>1. /\ IsHeader(line) /\ emitted' = after \o <<e>>
          /\ current_header' = "None" /\ lines' = <<>>
      BY <1>3, <2>3 DEF PushSingleLine, BecomeIdle
    <3>2. /\ WellFormed(input', KindOf(line), <<Position>>)
          /\ <<Position>> \in Seq(Nat) /\ Position = Len(input) + 1
      BY <1>1, <2>1, <3>1, HeaderAlone DEF Position
    <3>3. /\ e \in Entry /\ WellFormed(input', e.header, e.lines)
          /\ e.lines[1] = Len(input) + 1
      BY <2>2, <3>2 DEF Entry
    <3> HIDE DEF after, e
    <3>4. emitted' = Append(after, e)
      BY <1>2, <2>1, <3>1
    <3>5. emitted' \in Seq(Entry) /\ InOrder(input', emitted')
      BY <1>2, <2>1, <3>3, <3>4, InOrderAppend
    <3> QED
      BY <1>2, <2>1, <3>1, <3>5
         DEF IInv, TypeOK, EntriesPartitionTheLog, Idle, Calls
  <2>4. CASE PushMultiLine(line)
    <3>1. /\ IsMultiLine(line) /\ emitted' = after
          /\ current_header' = KindOf(line) /\ lines' = <<Position>>
      BY <1>3, <2>4 DEF PushMultiLine
    <3>2. /\ KindOf(line) \in {"UnityDigit", "TruncationMarker"}
          /\ IsHeader(line)
      BY <3>1 DEF IsMultiLine, IsHeader
    <3>3. /\ WellFormed(input', KindOf(line), <<Position>>)
          /\ <<Position>> \in Seq(Nat) /\ LastLine(<<Position>>) = Len(input')
          /\ <<Position>>[1] = Len(input) + 1 /\ <<Position>> # <<>>
      BY <1>1, <1>2, <2>1, <3>2, HeaderAlone DEF Position
    <3> HIDE DEF after
    <3> QED
      BY <1>2, <2>1, <3>1, <3>2, <3>3
         DEF IInv, TypeOK, EntriesPartitionTheLog, Idle, Calls
  <2>5. CASE PushContinuation(line)
    <3> DEFINE all == Append(lines, Position)
               e   == [header |-> current_header, lines |-> all]
    <3>1. ~IsHeader(line) /\ ~Idle
      BY <2>5 DEF PushContinuation
    <3>2. /\ WellFormed(input, current_header, lines)
          /\ LastLine(lines) = Len(input)
          /\ emitted # <<>> =>
               LastLine(emitted[Len(emitted)].lines) < lines[1]
      BY <3>1 DEF IInv, EntriesPartitionTheLog
    <3>3. /\ all \in Seq(Nat) /\ WellFormed(input', current_header, all)
          /\ LastLine(all) = Len(input') /\ all[1] = lines[1]
      BY <1>1, <1>2, <2>1, <3>1, <3>2, EntryExtended DEF Position
    <3>4. all # <<>>
      BY <3>3 DEF WellFormed
    <3>5. e \in Entry
      BY <1>1, <3>1, <3>3 DEF Entry, LineKind, Idle
    <3>6. \/ /\ emitted' = Append(emitted, e)
             /\ current_header' = "None" /\ lines' = <<>>
          \/ /\ lines' = all
             /\ UNCHANGED <<current_header, emitted>>
      BY <1>3, <2>5 DEF PushContinuation, BecomeIdle
    <3>7. CASE /\ emitted' = Append(emitted, e)
               /\ current_header' = "None" /\ lines' = <<>>
      <4>1. e.header = current_header /\ e.lines = all
        OBVIOUS
      <4> HIDE DEF e, all
      <4>2. emitted' \in Seq(Entry) /\ InOrder(input', emitted')
        BY <1>1, <1>2, <2>1, <3>2, <3>3, <3>5, <3>7, <4>1, InOrderAppend
      <4> QED
        BY <1>2, <2>1, <3>7, <4>2
           DEF IInv, TypeOK, EntriesPartitionTheLog, Idle, Calls
    <3>8. CASE /\ lines' = all
               /\ UNCHANGED <<current_header, emitted>>
      <4> HIDE DEF e, all
      <4> QED
        BY <1>1, <1>2, <2>1, <3>1, <3>2, <3>3, <3>4, <3>8
           DEF IInv, TypeOK, EntriesPartitionTheLog, Idle, Calls
    <3> QED
      BY <3>6, <3>7, <3>8
  <2>6. CASE PushOrphan(line)
    <3>1. UNCHANGED <<current_header, lines, emitted>> /\ Idle
      BY <2>6 DEF PushOrphan
    <3> QED
      BY <1>1, <1>2, <2>1, <3>1
         DEF IInv, TypeOK, EntriesPartitionTheLog, Idle, Calls
  <2> QED
    BY <2>3, <2>4, <2>5, <2>6 DEF push_line
<1>5. CASE flush
  <2>1. /\ FlushMark \in Calls /\ input' = Append(input, FlushMark)
        /\ emitted' = after /\ current_header' = "None" /\ lines' = <<>>
    BY <1>3, <1>5 DEF flush, BecomeIdle, Calls
  <2> HIDE DEF after
  <2> QED
    BY <1>2, <2>1 DEF IInv, TypeOK, EntriesPartitionTheLog, Idle, Calls
<1>6. CASE reset
  <2>1. /\ ResetMark \in Calls /\ input' = Append(input, ResetMark)
        /\ UNCHANGED emitted /\ current_header' = "None" /\ lines' = <<>>
    BY <1>6 DEF reset, Calls
  <2> QED
    BY <1>1, <1>2, <2>1
       DEF IInv, TypeOK, EntriesPartitionTheLog, Idle, Calls
<1>7. CASE UNCHANGED vars
  BY <1>7 DEF vars, IInv, TypeOK, EntriesPartitionTheLog, Idle
<1> QED
  BY <1>4, <1>5, <1>6, <1>7 DEF Next

(* The inductive invariant holds in every reachable state.                 *)
THEOREM Invariance == Spec => []IInv
BY InvInit, InvStep, PTL DEF Spec

(* In every behaviour the variables keep their types.                      *)
THEOREM TypeCorrect == Spec => []TypeOK
<1>1. IInv => TypeOK
  BY DEF IInv
<1> QED
  BY <1>1, Invariance, PTL

(* For every log, every flush and every reset: entries are disjoint runs   *)
(* of consecutive lines, each under its own header, emitted in log order.  *)
THEOREM Partition == Spec => []EntriesPartitionTheLog
<1>1. IInv => EntriesPartitionTheLog
  BY DEF IInv
<1> QED
  BY <1>1, Invariance, PTL


-----------------------------------------------------------------------------
(* The brace counter, a recursive function over the characters of a text.  *)
BraceState == [depth : Nat, in_string : BOOLEAN, escape_pending : BOOLEAN,
               ever_opened : BOOLEAN]

(* One character leads from a state of the counter to another.             *)
LEMMA AdvanceTyped ==
  ASSUME NEW s \in BraceState, NEW ch \in Character
  PROVE  AdvanceCharacter(s, ch) \in BraceState
<1>1. /\ s.depth \in Nat /\ s.in_string \in BOOLEAN
      /\ s.escape_pending \in BOOLEAN /\ s.ever_opened \in BOOLEAN
  BY DEF BraceState
<1>2. CASE s.escape_pending
  <2>1. AdvanceCharacter(s, ch) = [s EXCEPT !.escape_pending = FALSE]
    BY <1>2 DEF AdvanceCharacter
  <2> QED
    BY <2>1 DEF BraceState
<1>3. CASE ~s.escape_pending /\ s.in_string
  <2> DEFINE e == ch = "backslash"
             q == ch # "quote"
  <2>1. AdvanceCharacter(s, ch)
          = [[s EXCEPT !.escape_pending = e] EXCEPT !.in_string = q]
    BY <1>3 DEF AdvanceCharacter
  <2>2. e \in BOOLEAN /\ q \in BOOLEAN
    OBVIOUS
  <2> HIDE DEF e, q
  <2> QED
    BY <2>1, <2>2 DEF BraceState
<1>4. CASE ~s.escape_pending /\ ~s.in_string
  <2>1. CASE ch = "quote"
    <3>1. AdvanceCharacter(s, ch) = [s EXCEPT !.in_string = TRUE]
      BY <1>4, <2>1 DEF AdvanceCharacter
    <3> QED
      BY <3>1 DEF BraceState
  <2>2. CASE ch = "{"
    <3>1. AdvanceCharacter(s, ch)
            = [[s EXCEPT !.depth = s.depth + 1] EXCEPT !.ever_opened = TRUE]
      BY <1>4, <2>2 DEF AdvanceCharacter
    <3>2. PICK d \in Nat : d = s.depth + 1
      BY <1>1
    <3>3. PICK t \in BraceState : t = [s EXCEPT !.depth = d]
      BY DEF BraceState
    <3>4. [t EXCEPT !.ever_opened = TRUE] \in BraceState
      BY DEF BraceState
    <3> QED
      BY <3>1, <3>2, <3>3, <3>4
  <2>3. CASE ch = "}"
    <3> DEFINE d == IF s.depth = 0 THEN 0 ELSE s.depth - 1
    <3>1. AdvanceCharacter(s, ch) = [s EXCEPT !.depth = d]
      BY <1>4, <2>3 DEF AdvanceCharacter
    <3>2. d \in Nat
      BY <1>1
    <3> HIDE DEF d
    <3> QED
      BY <3>1, <3>2 DEF BraceState
  <2>4. CASE ch \notin {"quote", "{", "}"}
    <3>1. AdvanceCharacter(s, ch) = s
      BY <1>4, <2>4 DEF AdvanceCharacter
    <3> QED
      BY <3>1
  <2> QED
    BY <2>1, <2>2, <2>3, <2>4
<1> QED
  BY <1>1, <1>2, <1>3, <1>4

IsScan(f, s, text) ==
  /\ f \in [0 .. Len(text) -> BraceState]
  /\ f[0] = s
  /\ \A i \in 1 .. Len(text) : f[i] = AdvanceCharacter(f[i - 1], text[i])

(* The scan of a text is a walk with one step for each character.          *)
LEMMA ScanWalk ==
  ASSUME NEW s \in BraceState, NEW text \in Seq(Character)
  PROVE  \E f : /\ IsScan(f, s, text)
                /\ advance_brace_state(s, text) = f[Len(text)]
<1> DEFINE n == Len(text)
           G == [p \in BraceState \X (1 .. n) |->
                   AdvanceCharacter(p[1], text[p[2]])]
           Solves(f) == f = [i \in 0 .. Len(text) |->
                               IF i = 0 THEN s
                               ELSE AdvanceCharacter(f[i - 1], text[i])]
           h == CHOOSE f : Solves(f)
<1>1. n \in Nat /\ G \in [BraceState \X (1 .. n) -> BraceState]
  BY AdvanceTyped
<1>2. PICK f : IsWalk(f, G, BraceState, s, n)
  <2>1. IsStep(G, BraceState, n)
    BY <1>1 DEF IsStep
  <2> HIDE DEF n, G
  <2> QED
    BY <1>1, <2>1, Walk
<1>3. ASSUME NEW i \in 1 .. n
      PROVE  f[i] = AdvanceCharacter(f[i - 1], text[i])
  <2>1. i - 1 \in 0 .. n
    BY <1>1
  <2>2. f[i - 1] \in BraceState
    BY <1>2, <2>1 DEF IsWalk
  <2>3. G[<<f[i - 1], i>>] = AdvanceCharacter(f[i - 1], text[i])
    BY <2>2
  <2> QED
    BY <1>2, <2>3 DEF IsWalk
<1>4. Solves(f)
  BY <1>2, <1>3 DEF IsWalk
<1>5. Solves(h)
  <2> HIDE DEF Solves
  <2> QED
    BY <1>4
<1>6. advance_brace_state(s, text) = h[n]
  BY DEF advance_brace_state
<1>7. /\ h[0] = s
      /\ \A i \in 1 .. n : h[i] = AdvanceCharacter(h[i - 1], text[i])
      /\ DOMAIN h = 0 .. n /\ h = [i \in 0 .. n |-> h[i]]
  <2> HIDE DEF h
  <2> QED
    BY <1>1, <1>5
<1> HIDE DEF h
<1>8. 0 .. n \subseteq {i \in 0 .. n : h[i] \in BraceState}
  <2> DEFINE T == {i \in 0 .. n : h[i] \in BraceState}
  <2>1. 0 \in T
    BY <1>1, <1>7
  <2>2. ASSUME NEW i \in 1 .. n, i - 1 \in T PROVE i \in T
    <3>1. h[i - 1] \in BraceState /\ text[i] \in Character /\ i \in 0 .. n
      BY <1>1, <2>2
    <3>2. AdvanceCharacter(h[i - 1], text[i]) \in BraceState
      BY <3>1, AdvanceTyped
    <3> QED
      BY <1>7, <3>1, <3>2
  <2> HIDE DEF T
  <2>3. 0 .. n \subseteq T
    BY <1>1, <2>1, <2>2, InductionUpTo
  <2> QED
    BY <2>3 DEF T
<1>9. IsScan(h, s, text)
  BY <1>7, <1>8 DEF IsScan
<1> QED
  BY <1>6, <1>9

(* So it has a result, and no text leaves the state as it is.              *)
LEMMA ScanTyped ==
  ASSUME NEW s \in BraceState, NEW text \in Seq(Character)
  PROVE  advance_brace_state(s, text) \in BraceState
<1>1. PICK f : /\ IsScan(f, s, text)
               /\ advance_brace_state(s, text) = f[Len(text)]
  BY ScanWalk
<1>2. Len(text) \in 0 .. Len(text)
  OBVIOUS
<1> QED
  BY <1>1, <1>2 DEF IsScan

LEMMA ScanNothing ==
  ASSUME NEW s \in BraceState
  PROVE  advance_brace_state(s, <<>>) = s
<1>1. <<>> \in Seq(Character) /\ Len(<<>>) = 0
  OBVIOUS
<1>2. PICK f : /\ IsScan(f, s, <<>>)
               /\ advance_brace_state(s, <<>>) = f[Len(<<>>)]
  BY <1>1, ScanWalk
<1> QED
  BY <1>1, <1>2 DEF IsScan

(* A scan can be interrupted: what is scanned line by line, each from the  *)
(* state the one before left, is scanned as the whole text would be.       *)
LEMMA ScanConcat ==
  ASSUME NEW s \in BraceState, NEW a \in Seq(Character),
         NEW b \in Seq(Character)
  PROVE  advance_brace_state(s, a \o b)
           = advance_brace_state(advance_brace_state(s, a), b)
<1> DEFINE m == Len(a)
           n == Len(b)
<1>0. PICK ab \in Seq(Character) : ab = a \o b
  <2>1. a \o b \in Seq(Character)
    OBVIOUS
  <2> QED
    BY <2>1
<1>1. /\ m \in Nat /\ n \in Nat /\ Len(ab) = m + n
      /\ \A i \in 1 .. m : ab[i] = a[i]
      /\ \A i \in 1 .. n : ab[m + i] = b[i]
  BY <1>0
<1>2. PICK f : IsScan(f, s, a) /\ advance_brace_state(s, a) = f[m]
  BY ScanWalk
<1>3. f[m] \in BraceState
  <2>1. m \in 0 .. m
    BY <1>1
  <2>2. f \in [0 .. m -> BraceState]
    BY <1>2 DEF IsScan
  <2> HIDE DEF m
  <2> QED
    BY <2>1, <2>2
<1>4. PICK g : IsScan(g, f[m], b) /\ advance_brace_state(f[m], b) = g[n]
  BY <1>3, ScanWalk
<1>5. PICK h : IsScan(h, s, ab) /\ advance_brace_state(s, ab) = h[m + n]
  BY <1>1, ScanWalk
<1> HIDE DEF m, n
<1>6. h[m] = f[m]
  <2> DEFINE T == {i \in 0 .. m : h[i] = f[i]}
  <2>1. 0 \in T
    BY <1>1, <1>2, <1>5 DEF IsScan
  <2>2. ASSUME NEW i \in 1 .. m, i - 1 \in T PROVE i \in T
    <3>1. h[i - 1] = f[i - 1] /\ i \in 1 .. m + n /\ i \in 0 .. m
      BY <1>1, <2>2
    <3>2. h[i] = AdvanceCharacter(h[i - 1], ab[i])
      BY <1>1, <1>5, <3>1 DEF IsScan
    <3>3. f[i] = AdvanceCharacter(f[i - 1], a[i])
      BY <1>2 DEF IsScan, m
    <3> QED
      BY <1>1, <3>1, <3>2, <3>3
  <2>3. m \in 0 .. m
    BY <1>1
  <2> HIDE DEF T
  <2>4. 0 .. m \subseteq T
    BY <1>1, <2>1, <2>2, InductionUpTo
  <2> QED
    BY <2>3, <2>4 DEF T
<1>7. h[m + n] = g[n]
  <2> DEFINE T == {i \in 0 .. n : h[m + i] = g[i]}
  <2>1. 0 \in T
    <3>1. g[0] = f[m] /\ m + 0 = m /\ 0 \in 0 .. n
      BY <1>1, <1>4 DEF IsScan
    <3> QED
      BY <1>6, <3>1
  <2>2. ASSUME NEW i \in 1 .. n, i - 1 \in T PROVE i \in T
    <3>1. /\ h[m + (i - 1)] = g[i - 1] /\ m + i \in 1 .. m + n
          /\ (m + i) - 1 = m + (i - 1) /\ i \in 0 .. n
      BY <1>1, <2>2
    <3>2. h[m + i] = AdvanceCharacter(h[(m + i) - 1], ab[m + i])
      BY <1>1, <1>5, <3>1 DEF IsScan
    <3>3. g[i] = AdvanceCharacter(g[i - 1], b[i])
      BY <1>4 DEF IsScan, n
    <3> QED
      BY <1>1, <3>1, <3>2, <3>3
  <2>3. n \in 0 .. n
    BY <1>1
  <2> HIDE DEF T
  <2>4. 0 .. n \subseteq T
    BY <1>1, <2>1, <2>2, InductionUpTo
  <2> QED
    BY <2>3, <2>4 DEF T
<1> QED
  BY <1>0, <1>2, <1>4, <1>5, <1>7


-----------------------------------------------------------------------------
(* The body of an entry, a recursive function over its lines.              *)
LinesOnly(in, i, j) == \A k \in i + 1 .. j : in[k] \in Line

IsBody(f, in, i, j) ==
  /\ DOMAIN f = i .. j
  /\ \A k \in i .. j : f[k] \in Seq(Character)
  /\ f[i] = <<>>
  /\ \A k \in i + 1 .. j : f[k] = f[k - 1] \o in[k].text

(* The text of lines i + 1 to j is a walk with one step for each line.     *)
LEMMA BodyWalk ==
  ASSUME NEW in, NEW i \in Nat, NEW j \in Nat, i <= j, LinesOnly(in, i, j)
  PROVE  \E f : IsBody(f, in, i, j) /\ BodyText(in, i, j) = f[j]
<1> DEFINE n == j - i
           S == Seq(Character)
           G == [p \in S \X (1 .. n) |-> p[1] \o in[i + p[2]].text]
           Solves(f) == f = [k \in i .. j |->
                               IF k = i THEN <<>>
                               ELSE f[k - 1] \o in[k].text]
           h == CHOOSE f : Solves(f)
<1>1. n \in Nat /\ i + n = j
  OBVIOUS
<1>2. ASSUME NEW k \in i + 1 .. j PROVE in[k].text \in S
  <2>1. in[k] \in Line
    BY DEF LinesOnly
  <2> QED
    BY <2>1 DEF Line
<1>3. G \in [S \X (1 .. n) -> S]
  <2>1. ASSUME NEW p \in S \X (1 .. n) PROVE p[1] \o in[i + p[2]].text \in S
    <3>1. p[1] \in S /\ i + p[2] \in i + 1 .. j
      BY <1>1
    <3>2. in[i + p[2]].text \in S
      BY <1>2, <3>1
    <3>3. \A a, b \in S : a \o b \in S
      OBVIOUS
    <3> QED
      BY <3>1, <3>2, <3>3
  <2> HIDE DEF S, n
  <2> QED
    BY <2>1
<1>4. PICK g : IsWalk(g, G, S, <<>>, n)
  <2>1. IsStep(G, S, n)
    BY <1>3 DEF IsStep
  <2>2. <<>> \in S
    OBVIOUS
  <2> HIDE DEF n, G, S
  <2> QED
    BY <1>1, <2>1, <2>2, Walk
<1> HIDE DEF S
<1> DEFINE f == [k \in i .. j |-> g[k - i]]
<1>5. f[i] = <<>>
  <2>1. g[0] = <<>> /\ i - i = 0 /\ i \in i .. j
    BY <1>4 DEF IsWalk
  <2> QED
    BY <2>1
<1>6. ASSUME NEW k \in i + 1 .. j PROVE f[k] = f[k - 1] \o in[k].text
  <2>1. /\ k - i \in 1 .. n /\ (k - i) - 1 = (k - 1) - i /\ i + (k - i) = k
        /\ k - 1 \in i .. j /\ k \in i .. j /\ (k - i) - 1 \in 0 .. n
    BY <1>1
  <2>2. g[(k - i) - 1] \in S /\ g[k - i] = G[<<g[(k - i) - 1], k - i>>]
    BY <1>4, <2>1 DEF IsWalk
  <2>3. G[<<g[(k - i) - 1], k - i>>] = g[(k - i) - 1] \o in[k].text
    BY <2>1, <2>2
  <2> QED
    BY <2>1, <2>2, <2>3
<1>7. Solves(f)
  <2>1. \A k \in i .. j : k # i => k \in i + 1 .. j
    OBVIOUS
  <2>2. f = [k \in i .. j |-> f[k]]
    OBVIOUS
  <2> HIDE DEF f
  <2> QED
    BY <1>5, <1>6, <2>1, <2>2
<1>8. Solves(h)
  <2> HIDE DEF Solves
  <2> QED
    BY <1>7
<1>9. BodyText(in, i, j) = h[j]
  BY DEF BodyText
<1>10. /\ h[i] = <<>>
       /\ \A k \in i + 1 .. j : h[k] = h[k - 1] \o in[k].text
       /\ DOMAIN h = i .. j
  <2>1. i \in i .. j /\ \A k \in i + 1 .. j : k \in i .. j /\ k # i
    OBVIOUS
  <2> HIDE DEF h
  <2> QED
    BY <1>8, <2>1
<1> HIDE DEF h
<1>11. \A k \in i .. j : h[k] \in S
  <2> DEFINE T == {d \in 0 .. n : h[i + d] \in S}
  <2>1. 0 \in T
    <3>1. i + 0 = i /\ 0 \in 0 .. n /\ <<>> \in S
      BY <1>1 DEF S
    <3> QED
      BY <1>10, <3>1
  <2>2. ASSUME NEW d \in 1 .. n, d - 1 \in T PROVE d \in T
    <3>1. /\ h[i + (d - 1)] \in S /\ i + d \in i + 1 .. j
          /\ (i + d) - 1 = i + (d - 1) /\ d \in 0 .. n
      BY <1>1, <2>2
    <3>2. h[i + d] = h[i + (d - 1)] \o in[i + d].text
      BY <1>10, <3>1
    <3>3. \A a, b \in S : a \o b \in S
      BY DEF S
    <3>4. in[i + d].text \in S
      BY <1>2, <3>1
    <3> QED
      BY <3>1, <3>2, <3>3, <3>4
  <2> HIDE DEF T
  <2>3. 0 .. n \subseteq T
    BY <1>1, <2>1, <2>2, InductionUpTo
  <2>4. ASSUME NEW k \in i .. j PROVE h[k] \in S
    <3>1. k - i \in 0 .. n /\ i + (k - i) = k
      BY <1>1
    <3> QED
      BY <2>3, <3>1 DEF T
  <2> QED
    BY <2>4
<1>12. IsBody(h, in, i, j)
  BY <1>10, <1>11 DEF IsBody, S
<1> QED
  BY <1>9, <1>12

(* Two inputs that agree on the lines have the same bodies.                *)
LEMMA BodiesAgree ==
  ASSUME NEW in, NEW other, NEW i \in Nat, NEW j \in Nat, NEW m \in Nat,
         i <= j, j <= m, NEW f, NEW g, IsBody(f, in, i, j),
         IsBody(g, other, i, m), \A k \in i + 1 .. j : in[k] = other[k]
  PROVE  f[j] = g[j]
<1> DEFINE n == j - i
           T == {d \in 0 .. n : f[i + d] = g[i + d]}
<1>1. n \in Nat /\ i + n = j /\ n \in 0 .. n
  OBVIOUS
<1>2. 0 \in T
  <2>1. i + 0 = i /\ 0 \in 0 .. n
    BY <1>1
  <2> QED
    BY <2>1 DEF IsBody
<1>3. ASSUME NEW d \in 1 .. n, d - 1 \in T PROVE d \in T
  <2>1. /\ f[i + (d - 1)] = g[i + (d - 1)] /\ i + d \in i + 1 .. j
        /\ i + d \in i + 1 .. m /\ (i + d) - 1 = i + (d - 1) /\ d \in 0 .. n
    BY <1>1, <1>3
  <2>2. f[i + d] = f[i + (d - 1)] \o in[i + d].text
    BY <2>1 DEF IsBody
  <2>3. g[i + d] = g[i + (d - 1)] \o other[i + d].text
    BY <2>1 DEF IsBody
  <2> QED
    BY <2>1, <2>2, <2>3
<1> HIDE DEF T
<1>4. 0 .. n \subseteq T
  BY <1>1, <1>2, <1>3, InductionUpTo
<1> QED
  BY <1>1, <1>4 DEF T

(* The body of an entry that is only a header is empty, each further line  *)
(* is put behind it, and what follows those lines does not matter.         *)
LEMMA BodyFacts ==
  ASSUME NEW in, NEW i \in Nat, NEW j \in Nat, i <= j, LinesOnly(in, i, j)
  PROVE  /\ BodyText(in, i, j) \in Seq(Character)
         /\ j = i => BodyText(in, i, j) = <<>>
         /\ j > i => BodyText(in, i, j) = BodyText(in, i, j - 1) \o in[j].text
         /\ \A other : (\A k \in i + 1 .. j : other[k] = in[k]) =>
              BodyText(other, i, j) = BodyText(in, i, j)
<1>1. PICK f : IsBody(f, in, i, j) /\ BodyText(in, i, j) = f[j]
  BY BodyWalk
<1>2. j \in i .. j /\ BodyText(in, i, j) \in Seq(Character)
  BY <1>1 DEF IsBody
<1>3. ASSUME j > i
      PROVE  BodyText(in, i, j) = BodyText(in, i, j - 1) \o in[j].text
  <2>1. j - 1 \in Nat /\ i <= j - 1 /\ j - 1 <= j /\ j \in i + 1 .. j
    BY <1>3
  <2>2. LinesOnly(in, i, j - 1)
    BY DEF LinesOnly
  <2>3. PICK e \in Nat : e = j - 1
    BY <2>1
  <2>4. PICK g : IsBody(g, in, i, e) /\ BodyText(in, i, e) = g[e]
    BY <2>1, <2>2, <2>3, BodyWalk
  <2>5. g[e] = f[e]
    <3>1. i <= e /\ e <= j
      BY <2>1, <2>3
    <3>2. PICK same : same = in
      OBVIOUS
    <3>3. IsBody(f, same, i, j) /\ \A k \in i + 1 .. e : in[k] = same[k]
      BY <1>1, <3>2
    <3> QED
      BY <2>4, <3>1, <3>3, BodiesAgree
  <2>6. f[j] = f[e] \o in[j].text
    BY <1>1, <2>1, <2>3 DEF IsBody
  <2> QED
    BY <1>1, <2>3, <2>4, <2>5, <2>6
<1>4. ASSUME NEW other, \A k \in i + 1 .. j : other[k] = in[k]
      PROVE  BodyText(other, i, j) = BodyText(in, i, j)
  <2>1. LinesOnly(other, i, j)
    BY <1>4 DEF LinesOnly
  <2>2. PICK g : IsBody(g, other, i, j) /\ BodyText(other, i, j) = g[j]
    BY <2>1, BodyWalk
  <2>3. j <= j
    OBVIOUS
  <2>4. g[j] = f[j]
    BY <1>1, <1>4, <2>2, <2>3, BodiesAgree
  <2> QED
    BY <1>1, <2>2, <2>4
<1> QED
  BY <1>1, <1>2, <1>3, <1>4 DEF IsBody


-----------------------------------------------------------------------------
(* The extent of an entry, and how it grows with the input.                *)
IsExtent(in, i, e) ==
  /\ e \in i .. Len(in)
  /\ \A k \in i + 1 .. e : ~EndsEntry(in[k])
  /\ e < Len(in) => EndsEntry(in[e + 1])

(* Every line has one extent.                                              *)
LEMMA ExtentIs ==
  ASSUME NEW in \in Seq(Calls), NEW i \in 1 .. Len(in)
  PROVE  /\ IsExtent(in, i, Extent(in, i))
         /\ \A e : IsExtent(in, i, e) => e = Extent(in, i)
<1>0. Len(in) \in Nat
  OBVIOUS
<1>1. \E e \in i .. Len(in) : IsExtent(in, i, e)
  <2> DEFINE Ends == {k \in i + 1 .. Len(in) : EndsEntry(in[k])}
  <2>1. CASE Ends = {}
    <3>1. IsExtent(in, i, Len(in))
      BY <1>0, <2>1 DEF IsExtent
    <3> QED
      BY <1>0, <3>1
  <2>2. CASE Ends # {}
    <3>1. Ends \subseteq Nat
      BY <1>0
    <3> HIDE DEF Ends
    <3>2. PICK k \in Ends : \A l \in Ends : k <= l
      BY <2>2, <3>1, Least
    <3> USE DEF Ends
    <3>3. /\ k \in i + 1 .. Len(in) /\ EndsEntry(in[k])
          /\ k - 1 \in i .. Len(in) /\ (k - 1) + 1 = k
      BY <1>0, <3>2
    <3>4. ASSUME NEW l \in i + 1 .. k - 1 PROVE ~EndsEntry(in[l])
      <4>1. l \in i + 1 .. Len(in) /\ ~(k <= l)
        BY <1>0, <3>3
      <4> QED
        BY <3>2, <4>1
    <3>5. IsExtent(in, i, k - 1)
      BY <3>3, <3>4 DEF IsExtent
    <3> QED
      BY <3>3, <3>5
  <2> QED
    BY <2>1, <2>2
<1>2. IsExtent(in, i, Extent(in, i))
  <2>1. Extent(in, i) = CHOOSE e \in i .. Len(in) :
          /\ \A k \in i + 1 .. e : ~EndsEntry(in[k])
          /\ e < Len(in) => EndsEntry(in[e + 1])
    BY DEF Extent
  <2> QED
    BY <1>1, <2>1 DEF IsExtent
<1>3. ASSUME NEW d, NEW e, IsExtent(in, i, d), IsExtent(in, i, e)
      PROVE  d <= e
  <2>1. d \in i .. Len(in) /\ e \in i .. Len(in)
    BY <1>3 DEF IsExtent
  <2> SUFFICES ASSUME e < d PROVE FALSE
    BY <1>0, <2>1
  <2>2. e + 1 \in i + 1 .. d /\ e < Len(in)
    BY <1>0, <2>1
  <2> QED
    BY <1>3, <2>2 DEF IsExtent
<1>4. ASSUME NEW e, IsExtent(in, i, e) PROVE e = Extent(in, i)
  <2>1. e <= Extent(in, i) /\ Extent(in, i) <= e
    BY <1>2, <1>3, <1>4
  <2>2. e \in i .. Len(in) /\ Extent(in, i) \in i .. Len(in)
    BY <1>2, <1>4 DEF IsExtent
  <2> QED
    BY <1>0, <2>1, <2>2
<1> QED
  BY <1>2, <1>4

(* A call that does not end the entry is a line without header.            *)
LEMMA ContinuationLine ==
  ASSUME NEW call \in Calls, ~EndsEntry(call)
  PROVE  call \in Lines /\ IsLine(call) /\ ~IsHeader(call)
<1>1. IsLine(call) /\ ~IsHeader(call)
  BY DEF EndsEntry
<1> QED
  BY <1>1 DEF IsLine, Calls

(* So the body of an entry has lines only.                                 *)
LEMMA ExtentLines ==
  ASSUME NEW in \in Seq(Calls), NEW i \in 1 .. Len(in),
         NEW j \in i .. Extent(in, i)
  PROVE  LinesOnly(in, i, j)
<1>1. IsExtent(in, i, Extent(in, i))
  BY ExtentIs
<1>2. Extent(in, i) \in i .. Len(in) /\ Len(in) \in Nat
  BY <1>1 DEF IsExtent
<1> SUFFICES ASSUME NEW k \in i + 1 .. j PROVE in[k] \in Line
  BY DEF LinesOnly
<1>3. k \in i + 1 .. Extent(in, i) /\ k \in 1 .. Len(in)
  BY <1>2
<1>4. in[k] \in Calls /\ ~EndsEntry(in[k])
  BY <1>1, <1>3 DEF IsExtent
<1> QED
  BY <1>4, ContinuationLine

(* One more call was made.                                                 *)
Longer(in, call, more) == more = Append(in, call)

(* One more call leaves the extent of an entry that ended, and lengthens   *)
(* that of the others by a line without header.                            *)
LEMMA ExtentGrows ==
  ASSUME NEW in \in Seq(Calls), NEW call \in Calls, NEW i \in 1 .. Len(in),
         NEW more \in Seq(Calls), Longer(in, call, more)
  PROVE  Extent(more, i) = IF Extent(in, i) = Len(in) /\ ~EndsEntry(call)
                           THEN Len(in) + 1 ELSE Extent(in, i)
<1> DEFINE e == Extent(in, i)
<1>2. /\ Len(in) \in Nat /\ Len(more) = Len(in) + 1
      /\ more[Len(in) + 1] = call
      /\ \A k \in 1 .. Len(in) : more[k] = in[k]
  BY DEF Longer
<1>3. IsExtent(in, i, e) /\ e \in i .. Len(in)
  BY ExtentIs DEF IsExtent
<1> HIDE DEF e
<1>4. \A k \in i + 1 .. e : more[k] = in[k]
  BY <1>2, <1>3
<1>5. i \in 1 .. Len(more)
  BY <1>2
<1>6. CASE e = Len(in) /\ ~EndsEntry(call)
  <2>1. Len(in) + 1 \in i .. Len(more)
    BY <1>2
  <2>2. ASSUME NEW k \in i + 1 .. Len(in) + 1 PROVE ~EndsEntry(more[k])
    <3>1. k = Len(in) + 1 \/ k \in i + 1 .. e
      BY <1>2, <1>6
    <3> QED
      BY <1>2, <1>3, <1>4, <1>6, <3>1 DEF IsExtent
  <2>3. IsExtent(more, i, Len(in) + 1)
    BY <1>2, <2>1, <2>2 DEF IsExtent
  <2> QED
    BY <1>5, <1>6, <2>3, ExtentIs DEF e
<1>7. CASE ~(e = Len(in) /\ ~EndsEntry(call))
  <2>1. e \in i .. Len(more)
    BY <1>2, <1>3
  <2>2. \A k \in i + 1 .. e : ~EndsEntry(more[k])
    BY <1>3, <1>4 DEF IsExtent
  <2>3. EndsEntry(more[e + 1])
    <3>1. CASE e = Len(in)
      BY <1>2, <1>7, <3>1
    <3>2. CASE e < Len(in)
      <4>1. e + 1 \in 1 .. Len(in)
        BY <1>2, <1>3, <3>2
      <4> QED
        BY <1>2, <1>3, <3>2, <4>1 DEF IsExtent
    <3> QED
      BY <1>2, <1>3, <3>1, <3>2
  <2>4. IsExtent(more, i, e)
    BY <2>1, <2>2, <2>3 DEF IsExtent
  <2> QED
    BY <1>5, <1>7, <2>4, ExtentIs DEF e
<1> QED
  BY <1>6, <1>7

(* The last call cannot extend beyond itself.                              *)
LEMMA ExtentOfLast ==
  ASSUME NEW in \in Seq(Calls), Len(in) > 0
  PROVE  Extent(in, Len(in)) = Len(in)
<1>1. Len(in) \in Nat /\ Len(in) \in 1 .. Len(in)
  OBVIOUS
<1>2. IsExtent(in, Len(in), Extent(in, Len(in)))
  BY <1>1, ExtentIs
<1> QED
  BY <1>1, <1>2 DEF IsExtent


-----------------------------------------------------------------------------
(* What one more call makes of the entry of a header.                      *)
Complete(in, i, j) ==
  /\ BraceDepthFlush
  /\ StructurallyComplete(advance_brace_state(Balanced, BodyText(in, i, j)))

(* The entry of i may still grow.                                          *)
IsOpen(in, i) == Extent(in, i) = Len(in) /\ ~IsOut(in, i)

(* Lines already there stay complete or incomplete; only the new one can   *)
(* be added to the places where the entry is complete.                     *)
LEMMA CompleteGrows ==
  ASSUME NEW in \in Seq(Calls), NEW call \in Calls, NEW i \in 1 .. Len(in),
         NEW more \in Seq(Calls), Longer(in, call, more)
  PROVE  /\ CompleteAt(in, i) \subseteq CompleteAt(more, i)
         /\ \A j \in CompleteAt(more, i) : j \notin CompleteAt(in, i) =>
              /\ Extent(in, i) = Len(in) /\ ~EndsEntry(call)
              /\ j = Len(in) + 1
         /\ Extent(in, i) = Len(in) /\ ~EndsEntry(call) =>
              (Len(in) + 1 \in CompleteAt(more, i)
                 <=> Complete(more, i, Len(in) + 1))
<1>1. /\ Len(in) \in Nat /\ Len(more) = Len(in) + 1
      /\ \A k \in 1 .. Len(in) : more[k] = in[k]
  BY DEF Longer
<1>2. Extent(in, i) \in i .. Len(in) /\ i \in Nat
  BY <1>1, ExtentIs DEF IsExtent
<1>3. Extent(more, i) = IF Extent(in, i) = Len(in) /\ ~EndsEntry(call)
                        THEN Len(in) + 1 ELSE Extent(in, i)
  BY ExtentGrows
<1>4. ASSUME NEW j \in i .. Extent(in, i)
      PROVE  Complete(more, i, j) <=> Complete(in, i, j)
  <2>1. j \in Nat /\ i <= j /\ LinesOnly(in, i, j)
    BY <1>2, ExtentLines
  <2>2. \A k \in i + 1 .. j : more[k] = in[k]
    BY <1>1, <1>2
  <2>3. \A other : (\A k \in i + 1 .. j : other[k] = in[k]) =>
           BodyText(other, i, j) = BodyText(in, i, j)
    BY <1>2, <2>1, BodyFacts
  <2>4. BodyText(more, i, j) = BodyText(in, i, j)
    BY <2>2, <2>3
  <2> QED
    BY <2>4 DEF Complete
<1>5. /\ CompleteAt(in, i) = {j \in i + 1 .. Extent(in, i) : Complete(in, i, j)}
      /\ CompleteAt(more, i)
           = {j \in i + 1 .. Extent(more, i) : Complete(more, i, j)}
  BY DEF CompleteAt, Complete
<1>6. ASSUME NEW j \in i + 1 .. Extent(in, i)
      PROVE  j \in i .. Extent(in, i) /\ j \in i + 1 .. Extent(more, i)
  BY <1>1, <1>2, <1>3
<1>7. ASSUME NEW j \in i + 1 .. Extent(more, i)
      PROVE  \/ j \in i + 1 .. Extent(in, i)
             \/ /\ Extent(in, i) = Len(in) /\ ~EndsEntry(call)
                /\ j = Len(in) + 1
  BY <1>1, <1>2, <1>3
<1>8. Extent(in, i) = Len(in) /\ ~EndsEntry(call) =>
        Len(in) + 1 \in i + 1 .. Extent(more, i)
  BY <1>1, <1>2, <1>3
<1> QED
  BY <1>4, <1>5, <1>6, <1>7, <1>8

(* The first place where an entry is complete is its end.                  *)
LEMMA FirstComplete ==
  ASSUME NEW in, NEW i, IsMultiLine(in[i]), NEW first \in CompleteAt(in, i),
         CompleteAt(in, i) \subseteq Nat,
         \A j \in CompleteAt(in, i) : first <= j
  PROVE  LastOf(in, i) = first
<1> DEFINE chosen == CHOOSE j \in CompleteAt(in, i) :
                       \A k \in CompleteAt(in, i) : j <= k
<1>1. /\ chosen \in CompleteAt(in, i)
      /\ \A k \in CompleteAt(in, i) : chosen <= k
  OBVIOUS
<1>2. LastOf(in, i) = chosen
  BY DEF LastOf
<1> HIDE DEF chosen
<1>3. chosen <= first /\ first <= chosen /\ chosen \in Nat /\ first \in Nat
  BY <1>1
<1> QED
  BY <1>2, <1>3

(* An entry that is out stays out, with the same last line.                *)
LEMMA OutStays ==
  ASSUME NEW in \in Seq(Calls), NEW call \in Calls, NEW i \in 1 .. Len(in),
         NEW more \in Seq(Calls), Longer(in, call, more), IsOut(in, i)
  PROVE  IsOut(more, i) /\ LastOf(more, i) = LastOf(in, i)
<1>1. /\ Len(in) \in Nat /\ Len(more) = Len(in) + 1 /\ more[i] = in[i]
      /\ \A k \in 1 .. Len(in) : more[k] = in[k]
  BY DEF Longer
<1>2. Extent(in, i) \in i .. Len(in) /\ i \in Nat
  BY <1>1, ExtentIs DEF IsExtent
<1>3. /\ CompleteAt(in, i) \subseteq CompleteAt(more, i)
      /\ \A j \in CompleteAt(more, i) : j \notin CompleteAt(in, i) =>
           Extent(in, i) = Len(in) /\ j = Len(in) + 1
  BY CompleteGrows
<1>4. CASE ~IsMultiLine(in[i])
  BY <1>1, <1>4 DEF IsOut, LastOf
<1>5. CASE IsMultiLine(in[i]) /\ CompleteAt(in, i) # {}
  <2>1. CompleteAt(in, i) \subseteq i + 1 .. Extent(in, i)
    BY DEF CompleteAt
  <2>2. /\ CompleteAt(in, i) \subseteq Nat
        /\ \A j \in CompleteAt(in, i) : j <= Len(in)
    BY <1>1, <1>2, <2>1
  <2>3. PICK first \in CompleteAt(in, i) : \A j \in CompleteAt(in, i) : first <= j
    BY <1>5, <2>2, Least
  <2>4. LastOf(in, i) = first
    BY <1>5, <2>2, <2>3, FirstComplete
  <2>5. /\ first \in CompleteAt(more, i) /\ CompleteAt(more, i) \subseteq Nat
        /\ \A j \in CompleteAt(more, i) : first <= j
    BY <1>1, <1>3, <2>2, <2>3
  <2>6. LastOf(more, i) = first
    BY <1>1, <1>5, <2>5, FirstComplete
  <2> QED
    BY <2>4, <2>5, <2>6 DEF IsOut
<1>6. CASE IsMultiLine(in[i]) /\ CompleteAt(in, i) = {}
  <2>1. Extent(in, i) < Len(in) /\ in[Extent(in, i) + 1] # ResetMark
    BY <1>6 DEF IsOut
  <2>2. Extent(more, i) = Extent(in, i) /\ CompleteAt(more, i) = {}
    BY <1>3, <1>6, <2>1, <1>1, <1>2, ExtentGrows
  <2>3. Extent(in, i) + 1 \in 1 .. Len(in)
    BY <1>1, <1>2, <2>1
  <2>4. Extent(more, i) < Len(more) /\ more[Extent(more, i) + 1] # ResetMark
    BY <1>1, <1>2, <2>1, <2>2, <2>3
  <2> QED
    BY <1>1, <1>6, <2>2, <2>4 DEF IsOut, LastOf
<1> QED
  BY <1>4, <1>5, <1>6

(* An entry that a reset ended is never out.                               *)
LEMMA DroppedStays ==
  ASSUME NEW in \in Seq(Calls), NEW call \in Calls, NEW i \in 1 .. Len(in),
         NEW more \in Seq(Calls), Longer(in, call, more),
         ~IsOut(in, i), Extent(in, i) # Len(in)
  PROVE  ~IsOut(more, i) /\ Extent(more, i) # Len(more)
<1>1. /\ Len(in) \in Nat /\ Len(more) = Len(in) + 1 /\ more[i] = in[i]
      /\ \A k \in 1 .. Len(in) : more[k] = in[k]
  BY DEF Longer
<1>2. Extent(in, i) \in i .. Len(in) /\ i \in Nat
  BY <1>1, ExtentIs DEF IsExtent
<1>3. /\ IsMultiLine(in[i]) /\ CompleteAt(in, i) = {}
      /\ in[Extent(in, i) + 1] = ResetMark
  BY <1>1, <1>2 DEF IsOut
<1>4. Extent(more, i) = Extent(in, i) /\ CompleteAt(more, i) = {}
  <2>1. \A j \in CompleteAt(more, i) :
          j \notin CompleteAt(in, i) => Extent(in, i) = Len(in)
    BY CompleteGrows
  <2> QED
    BY <1>3, <2>1, ExtentGrows
<1>5. Extent(in, i) + 1 \in 1 .. Len(in)
  BY <1>1, <1>2
<1>6. more[Extent(more, i) + 1] = ResetMark
  BY <1>1, <1>3, <1>4, <1>5
<1> QED
  BY <1>1, <1>2, <1>3, <1>4, <1>6 DEF IsOut

(* What ends an open entry, and what a further line does to it.            *)
LEMMA OpenGrows ==
  ASSUME NEW in \in Seq(Calls), NEW call \in Calls, NEW i \in 1 .. Len(in),
         NEW more \in Seq(Calls), Longer(in, call, more), IsOpen(in, i)
  PROVE  /\ ~EndsEntry(call) /\ Complete(more, i, Len(more)) =>
              IsOut(more, i) /\ LastOf(more, i) = Len(more)
         /\ ~EndsEntry(call) /\ ~Complete(more, i, Len(more)) =>
              IsOpen(more, i)
         /\ EndsEntry(call) /\ call # ResetMark =>
              IsOut(more, i) /\ LastOf(more, i) = Len(in)
         /\ EndsEntry(call) /\ call = ResetMark =>
              ~IsOut(more, i) /\ Extent(more, i) # Len(more)
<1>1. /\ Len(in) \in Nat /\ Len(more) = Len(in) + 1 /\ more[i] = in[i]
      /\ more[Len(in) + 1] = call
  BY DEF Longer
<1>2. /\ Extent(in, i) = Len(in) /\ IsMultiLine(in[i])
      /\ CompleteAt(in, i) = {} /\ i \in Nat
  BY <1>1 DEF IsOpen, IsOut
<1>3. Extent(more, i) = IF ~EndsEntry(call) THEN Len(in) + 1 ELSE Len(in)
  BY <1>2, ExtentGrows
<1>4. /\ EndsEntry(call) => CompleteAt(more, i) = {}
      /\ \A j \in CompleteAt(more, i) : j = Len(in) + 1
      /\ ~EndsEntry(call) => (Len(in) + 1 \in CompleteAt(more, i)
                                <=> Complete(more, i, Len(in) + 1))
  BY <1>2, CompleteGrows
<1>5. ASSUME ~EndsEntry(call), Complete(more, i, Len(more))
      PROVE  IsOut(more, i) /\ LastOf(more, i) = Len(more)
  <2>1. /\ Len(more) \in CompleteAt(more, i) /\ CompleteAt(more, i) \subseteq Nat
        /\ \A j \in CompleteAt(more, i) : Len(more) <= j
    BY <1>1, <1>4, <1>5
  <2> QED
    BY <1>1, <1>2, <2>1, FirstComplete DEF IsOut
<1>6. ASSUME ~EndsEntry(call), ~Complete(more, i, Len(more))
      PROVE  IsOpen(more, i)
  <2>1. CompleteAt(more, i) = {}
    BY <1>1, <1>4, <1>6
  <2> QED
    BY <1>1, <1>2, <1>3, <1>6, <2>1 DEF IsOpen, IsOut
<1>7. ASSUME EndsEntry(call)
      PROVE  /\ LastOf(more, i) = Len(in) /\ Extent(more, i) # Len(more)
             /\ IsOut(more, i) <=> call # ResetMark
  BY <1>1, <1>2, <1>3, <1>4, <1>7 DEF IsOut, LastOf
<1> QED
  BY <1>5, <1>6, <1>7

(* The entry of a new header.                                              *)
LEMMA HeaderOpens ==
  ASSUME NEW in \in Seq(Calls), NEW line \in Lines, IsHeader(line),
         NEW more \in Seq(Calls), Longer(in, line, more)
  PROVE  /\ ~IsMultiLine(line) =>
              IsOut(more, Len(more)) /\ LastOf(more, Len(more)) = Len(more)
         /\ IsMultiLine(line) => IsOpen(more, Len(more))
<1>1. /\ Len(in) \in Nat /\ Len(more) = Len(in) + 1 /\ Len(more) > 0
      /\ more[Len(more)] = line
  BY DEF Calls, Longer
<1>2. Extent(more, Len(more)) = Len(more)
  BY <1>1, ExtentOfLast
<1>3. CompleteAt(more, Len(more)) = {}
  BY <1>1, <1>2 DEF CompleteAt
<1> QED
  BY <1>1, <1>2, <1>3 DEF IsOut, IsOpen, LastOf


-----------------------------------------------------------------------------
(* The brace state of an open entry, read from the whole input.            *)
ScanOf(in, i) ==
  IF BraceDepthFlush
  THEN advance_brace_state(Balanced, BodyText(in, i, Len(in)))
  ELSE Balanced

(* At its start the counter has seen no brace.                             *)
LEMMA BalancedTyped ==
  Balanced \in BraceState /\ ~StructurallyComplete(Balanced)
BY DEF Balanced, BraceState, StructurallyComplete

(* A new header starts with balanced braces, a further line is scanned     *)
(* from where the line before left off.                                    *)
LEMMA ScanOfHeader ==
  ASSUME NEW in \in Seq(Calls)
  PROVE  ScanOf(in, Len(in)) = Balanced
<1>1. PICK n \in Nat : n = Len(in)
  OBVIOUS
<1>2. BodyText(in, n, n) = <<>>
  <2>1. n <= n /\ LinesOnly(in, n, n)
    BY DEF LinesOnly
  <2> QED
    BY <2>1, BodyFacts
<1> QED
  BY <1>1, <1>2, BalancedTyped, ScanNothing DEF ScanOf

LEMMA ScanGrows ==
  ASSUME NEW in \in Seq(Calls), NEW line \in Lines, ~IsHeader(line),
         NEW more \in Seq(Calls), Longer(in, line, more),
         NEW i \in 1 .. Len(in), Extent(in, i) = Len(in)
  PROVE  /\ ScanOf(more, i) = IF BraceDepthFlush
                              THEN advance_brace_state(ScanOf(in, i), line.text)
                              ELSE ScanOf(in, i)
         /\ Complete(more, i, Len(more)) <=> StructurallyComplete(ScanOf(more, i))
<1>1. /\ Len(in) \in Nat /\ Len(more) = Len(in) + 1 /\ i \in Nat /\ i <= Len(in)
      /\ more[Len(more)] = line /\ \A k \in 1 .. Len(in) : more[k] = in[k]
  BY DEF Calls, Longer
<1>2. ~EndsEntry(line) /\ line \in Calls
  BY LineFacts DEF EndsEntry, Calls
<1>3. CASE BraceDepthFlush
  <2>1. Extent(more, i) = Len(more)
    BY <1>1, <1>2, ExtentGrows
  <2>2. LinesOnly(more, i, Len(more))
    <3>1. i \in 1 .. Len(more) /\ Len(more) \in i .. Extent(more, i)
      BY <1>1, <2>1
    <3> QED
      BY <3>1, ExtentLines
  <2>3. LinesOnly(in, i, Len(in))
    <3>1. Len(in) \in i .. Extent(in, i)
      BY <1>1
    <3> QED
      BY <3>1, ExtentLines
  <2>4. BodyText(more, i, Len(more)) = BodyText(more, i, Len(in)) \o line.text
    <3>1. Len(more) \in Nat /\ i <= Len(more) /\ Len(more) > i
          /\ Len(more) - 1 = Len(in)
      BY <1>1
    <3>2. Len(more) > i => BodyText(more, i, Len(more))
            = BodyText(more, i, Len(more) - 1) \o more[Len(more)].text
      BY <1>1, <3>1, <2>2, BodyFacts
    <3> QED
      BY <1>1, <3>1, <3>2
  <2>5. /\ BodyText(in, i, Len(in)) \in Seq(Character)
        /\ \A other : (\A k \in i + 1 .. Len(in) : other[k] = in[k]) =>
             BodyText(other, i, Len(in)) = BodyText(in, i, Len(in))
    BY <1>1, <2>3, BodyFacts
  <2>6. \A k \in i + 1 .. Len(in) : more[k] = in[k]
    BY <1>1
  <2>7. BodyText(more, i, Len(in)) = BodyText(in, i, Len(in))
    BY <2>5, <2>6
  <2>8. line.text \in Seq(Character)
    BY DEF Line
  <2>9. advance_brace_state(Balanced, BodyText(more, i, Len(more)))
          = advance_brace_state(
              advance_brace_state(Balanced, BodyText(in, i, Len(in))), line.text)
    BY <2>4, <2>5, <2>7, <2>8, BalancedTyped, ScanConcat
  <2> QED
    BY <1>3, <2>9 DEF ScanOf, Complete
<1>4. CASE ~BraceDepthFlush
  BY <1>4, BalancedTyped DEF ScanOf, Complete
<1> QED
  BY <1>3, <1>4

-----------------------------------------------------------------------------
(* The entry of i was emitted, up to its last line.                        *)
Emits(entries, in, i) ==
  \E k \in DOMAIN entries :
    entries[k].lines[1] = i /\ LastLine(entries[k].lines) = LastOf(in, i)

(* The entries that are out were emitted and no others, and the open ones  *)
(* are those in the set.                                                   *)
Matches(in, entries, open) ==
  /\ \A i \in Out(in) : Emits(entries, in, i)
  /\ \A k \in DOMAIN entries : entries[k].lines[1] \in Out(in)
  /\ \A i \in Headers(in) : IsOpen(in, i) <=> i \in open

Prefixed(short, long) ==
  \A k \in DOMAIN short : k \in DOMAIN long /\ long[k] = short[k]

(* What is added to the entries is out; what was open, and a new header,   *)
(* is out and emitted, still open, or neither.                             *)
AddsOut(in, short, long) ==
  \A k \in DOMAIN long :
    k \in DOMAIN short \/ long[k].lines[1] \in Out(in)

Settles(in, entries, open, still) ==
  /\ still \subseteq open \cup {Len(in)}
  /\ \A i \in Headers(in) : i \in open \cup {Len(in)} =>
       /\ IsOut(in, i) => Emits(entries, in, i)
       /\ IsOpen(in, i) <=> i \in still

(* The headers, and those whose entries are out, stay so.                  *)
LEMMA HeadersGrow ==
  ASSUME NEW in \in Seq(Calls), NEW call \in Calls, NEW more \in Seq(Calls),
         Longer(in, call, more)
  PROVE  /\ \A i \in Headers(in) : i \in 1 .. Len(in) /\ i \in Headers(more)
         /\ \A i \in Headers(more) : i \in Headers(in) \/ i = Len(more)
         /\ \A i \in Out(in) : i \in Out(more) /\ LastOf(more, i) = LastOf(in, i)
<1>1. /\ Len(in) \in Nat /\ Len(more) = Len(in) + 1
      /\ \A k \in 1 .. Len(in) : more[k] = in[k]
  BY DEF Longer
<1>2. /\ \A i \in Headers(in) : i \in 1 .. Len(in) /\ i \in Headers(more)
      /\ \A i \in Headers(more) : i \in Headers(in) \/ i = Len(more)
  <2>1. DOMAIN in = 1 .. Len(in) /\ DOMAIN more = 1 .. Len(in) + 1
    BY <1>1
  <2> QED
    BY <1>1, <2>1 DEF Headers
<1>3. ASSUME NEW i \in 1 .. Len(in), IsOut(in, i)
      PROVE  IsOut(more, i) /\ LastOf(more, i) = LastOf(in, i)
  BY <1>3, OutStays
<1> QED
  BY <1>2, <1>3 DEF Out

(* After one more call they match if they do for what was open and for a   *)
(* new header.                                                             *)
LEMMA MatchesGrows ==
  ASSUME NEW in \in Seq(Calls), NEW call \in Calls, NEW more \in Seq(Calls),
         Longer(in, call, more), NEW before, NEW after, NEW open, NEW still,
         Matches(in, before, open), Prefixed(before, after),
         AddsOut(more, before, after), Settles(more, after, open, still)
  PROVE  Matches(more, after, still)
<1>2. /\ \A i \in Headers(in) : i \in 1 .. Len(in) /\ i \in Headers(more)
      /\ \A i \in Headers(more) : i \in Headers(in) \/ i = Len(more)
      /\ \A i \in Out(in) : i \in Out(more) /\ LastOf(more, i) = LastOf(in, i)
  BY HeadersGrow
<1>3. ASSUME NEW i \in Headers(in), IsOut(in, i)
      PROVE  /\ IsOut(more, i) /\ LastOf(more, i) = LastOf(in, i)
             /\ i \in Out(more)
  BY <1>2, <1>3 DEF Out
<1>4. ASSUME NEW i \in Headers(in), i \notin open, ~IsOut(in, i)
      PROVE  ~IsOut(more, i) /\ ~IsOpen(more, i)
  <2>1. Extent(in, i) # Len(in)
    BY <1>4 DEF Matches, IsOpen
  <2> QED
    BY <1>2, <1>4, <2>1, DroppedStays DEF IsOpen
<1>5. ASSUME NEW i \in Headers(in), Emits(before, in, i), IsOut(in, i)
      PROVE  Emits(after, more, i)
  BY <1>3, <1>5 DEF Emits, Prefixed
<1>6. ASSUME NEW i \in Out(more) PROVE Emits(after, more, i)
  <2>1. i \in Headers(more) /\ IsOut(more, i)
    BY DEF Out
  <2>2. CASE i \in open \cup {Len(more)}
    BY <2>1, <2>2 DEF Settles
  <2>3. CASE i \notin open \cup {Len(more)}
    <3>1. i \in Headers(in) /\ IsOut(in, i)
      BY <1>2, <1>4, <2>1, <2>3
    <3> QED
      BY <1>5, <3>1 DEF Matches, Out
  <2> QED
    BY <2>2, <2>3
<1>7. ASSUME NEW k \in DOMAIN after PROVE after[k].lines[1] \in Out(more)
  <2>1. CASE k \in DOMAIN before
    <3>1. after[k] = before[k] /\ before[k].lines[1] \in Out(in)
      BY <2>1 DEF Matches, Prefixed
    <3> QED
      BY <1>3, <3>1 DEF Out
  <2> QED
    BY <2>1 DEF AddsOut
<1>8. ASSUME NEW i \in Headers(more) PROVE IsOpen(more, i) <=> i \in still
  <2>1. CASE i \notin open \cup {Len(more)}
    <3>1. i \in Headers(in) /\ i \notin still
      BY <1>2, <2>1 DEF Settles
    <3>2. ~IsOpen(more, i)
      BY <1>3, <1>4, <2>1, <3>1 DEF IsOpen
    <3> QED
      BY <3>1, <3>2
  <2> QED
    BY <2>1 DEF Settles
<1> QED
  BY <1>6, <1>7, <1>8 DEF Matches


-----------------------------------------------------------------------------
(* The inductive invariant: the entries match, and the braces of the entry *)
(* in progress are counted as if its body were read in one go.             *)
Open == IF Idle THEN {} ELSE {lines[1]}

MatchOK ==
  /\ brace_state = IF Idle THEN Balanced ELSE ScanOf(input, lines[1])
  /\ Matches(input, emitted, Open)

(* The entry in progress begins with a header and is open.                 *)
LEMMA InProgressOpen ==
  ASSUME IInv, MatchOK, ~Idle
  PROVE  /\ lines[1] \in Headers(input) /\ lines[1] \in 1 .. Len(input)
         /\ IsOpen(input, lines[1]) /\ LastLine(lines) = Len(input)
<1>1. /\ input \in Seq(Calls) /\ lines \in Seq(Nat)
      /\ WellFormed(input, current_header, lines)
      /\ LastLine(lines) = Len(input)
  BY DEF IInv, TypeOK, EntriesPartitionTheLog, Calls
<1>2. 1 \in DOMAIN lines
  BY <1>1 DEF WellFormed
<1>3. lines[1] \in Headers(input)
  BY <1>1, <1>2 DEF WellFormed, Headers
<1>4. lines[1] \in Open
  BY DEF Open
<1> QED
  BY <1>1, <1>3, <1>4, WellFormedBounds DEF MatchOK, Matches

(* An entry put behind others.                                             *)
LEMMA OneMoreEntry ==
  ASSUME NEW entries \in Seq(Entry), NEW e, NEW in,
         NEW after, after = Append(entries, e)
  PROVE  /\ Prefixed(entries, after)
         /\ e.lines[1] \in Out(in) => AddsOut(in, entries, after)
         /\ LastLine(e.lines) = LastOf(in, e.lines[1]) =>
              Emits(after, in, e.lines[1])
<1>1. /\ Len(entries) \in Nat /\ DOMAIN after = 1 .. Len(entries) + 1
      /\ DOMAIN entries = 1 .. Len(entries)
      /\ \A k \in 1 .. Len(entries) : after[k] = entries[k]
      /\ after[Len(entries) + 1] = e
  OBVIOUS
<1>2. Prefixed(entries, after)
  BY <1>1 DEF Prefixed
<1>3. e.lines[1] \in Out(in) => AddsOut(in, entries, after)
  BY <1>1 DEF AddsOut
<1>4. LastLine(e.lines) = LastOf(in, e.lines[1]) =>
        Emits(after, in, e.lines[1])
  BY <1>1 DEF Emits
<1> QED
  BY <1>2, <1>3, <1>4

(* Longer entry lists, one after the other.                                *)
LEMMA EntriesChain ==
  ASSUME NEW in, NEW before, NEW between, NEW after,
         Prefixed(before, between), AddsOut(in, before, between),
         Prefixed(between, after), AddsOut(in, between, after)
  PROVE  /\ Prefixed(before, after) /\ AddsOut(in, before, after)
         /\ \A i : Emits(between, in, i) => Emits(after, in, i)
<1>1. Prefixed(before, after)
  BY DEF Prefixed
<1>2. AddsOut(in, before, after)
  BY DEF Prefixed, AddsOut
<1>3. \A i : Emits(between, in, i) => Emits(after, in, i)
  BY DEF Prefixed, Emits
<1> QED
  BY <1>1, <1>2, <1>3

(* A call that ends the entry in progress brings it out, as far as its     *)
(* extent then is.                                                         *)
LEMMA Taking ==
  ASSUME IInv, MatchOK, NEW call \in Calls, NEW more \in Seq(Calls),
         Longer(input, call, more), EndsEntry(call), call # ResetMark,
         NEW after, after = emitted \o TakeEntry
  PROVE  /\ after \in Seq(Entry)
         /\ Prefixed(emitted, after) /\ AddsOut(more, emitted, after)
         /\ \A i \in Open : IsOut(more, i) /\ Emits(after, more, i)
<1>1. /\ input \in Seq(Calls) /\ emitted \in Seq(Entry)
      /\ lines \in Seq(Nat)
      /\ current_header \in {"None", "UnityDigit", "TruncationMarker"}
  BY DEF IInv, TypeOK, Calls
<1>2. CASE Idle
  <2>1. after = emitted /\ Open = {}
    BY <1>1, <1>2 DEF TakeEntry, Open
  <2> QED
    BY <1>1, <2>1 DEF Prefixed, AddsOut
<1>3. CASE ~Idle
  <2> DEFINE e == [header |-> current_header, lines |-> lines]
  <2>1. after = Append(emitted, e) /\ e.lines = lines /\ Open = {lines[1]}
    BY <1>1, <1>3 DEF TakeEntry, Open
  <2>2. e \in Entry
    BY <1>1, <1>3 DEF Entry, Idle, LineKind
  <2> HIDE DEF e
  <2>3. /\ lines[1] \in Headers(input) /\ lines[1] \in 1 .. Len(input)
        /\ IsOpen(input, lines[1]) /\ LastLine(lines) = Len(input)
    BY <1>3, InProgressOpen
  <2>4. IsOut(more, lines[1]) /\ LastOf(more, lines[1]) = Len(input)
    BY <1>1, <2>3, OpenGrows
  <2>5. lines[1] \in Out(more)
    <3>1. lines[1] \in Headers(more)
      BY <1>1, <2>3, HeadersGrow
    <3> QED
      BY <2>4, <3>1 DEF Out
  <2>6. /\ Prefixed(emitted, after) /\ AddsOut(more, emitted, after)
        /\ Emits(after, more, lines[1])
    BY <1>1, <2>1, <2>3, <2>4, <2>5, OneMoreEntry
  <2>7. after \in Seq(Entry)
    BY <1>1, <2>1, <2>2
  <2> QED
    BY <2>1, <2>4, <2>6, <2>7
<1> QED
  BY <1>2, <1>3

(* The empty buffer matches the empty input.                               *)
LEMMA MatchInit == Init => MatchOK
<1> SUFFICES ASSUME Init PROVE MatchOK
  OBVIOUS
<1>1. /\ input = <<>> /\ emitted = <<>> /\ Idle /\ brace_state = Balanced
  BY DEF Init, Idle
<1>2. Headers(input) = {} /\ DOMAIN emitted = {}
  BY <1>1 DEF Headers
<1> QED
  BY <1>1, <1>2 DEF MatchOK, Matches, Out


(* Every call keeps the match.                                             *)
LEMMA MatchStep == IInv /\ IInv' /\ MatchOK /\ [Next]_vars => MatchOK'
<1> SUFFICES ASSUME IInv, IInv', MatchOK, [Next]_vars PROVE MatchOK'
  OBVIOUS
<1>1. /\ input \in Seq(Calls) /\ input' \in Seq(Calls)
      /\ emitted \in Seq(Entry) /\ Len(input) \in Nat
      /\ lines \in Seq(Nat)
      /\ current_header \in {"None", "UnityDigit", "TruncationMarker"}
      /\ Matches(input, emitted, Open)
  BY DEF IInv, TypeOK, Calls, MatchOK
<1>2. Taken.lines = <<>> /\ Taken.brace_state = Balanced
  BY DEF IInv, MatchOK, Taken
<1>3. ASSUME NEW call \in Calls, input' = Append(input, call)
      PROVE  /\ Longer(input, call, input') /\ Len(input') = Len(input) + 1
             /\ input'[Len(input')] = call
             /\ Len(input') \in Headers(input') => IsLine(call) /\ IsHeader(call)
  <2>1. /\ Longer(input, call, input') /\ Len(input') = Len(input) + 1
        /\ input'[Len(input')] = call
    BY <1>1, <1>3 DEF Longer
  <2> QED
    BY <2>1 DEF Headers
<1>4. CASE \E line \in Lines : push_line(line)
  <2> PICK line \in Lines : push_line(line)
    BY <1>4
  <2>1. /\ line \in Calls /\ IsLine(line) /\ line # ResetMark
        /\ input' = Append(input, line)
    BY LineFacts DEF Calls, push_line, IsLine
  <2>2. /\ Longer(input, line, input') /\ Len(input') = Len(input) + 1
        /\ Len(input') \in Headers(input') => IsHeader(line)
    BY <1>3, <2>1
  <2>3. CASE PushSingleLine(line)
    <3> DEFINE e == [header |-> KindOf(line), lines |-> <<Position>>]
    <3>1. PICK between : between = emitted \o TakeEntry
      OBVIOUS
    <3>2. /\ IsHeader(line) /\ ~IsMultiLine(line)
          /\ emitted' = between \o <<e>> /\ Idle'
          /\ brace_state' = Balanced /\ Open' = {}
      BY <1>2, <2>3, <3>1 DEF PushSingleLine, BecomeIdle, Idle, Open
    <3>3. /\ between \in Seq(Entry)
          /\ Prefixed(emitted, between) /\ AddsOut(input', emitted, between)
          /\ \A i \in Open : IsOut(input', i) /\ Emits(between, input', i)
      BY <1>1, <2>1, <2>2, <3>1, <3>2, Taking DEF EndsEntry
    <3>4. emitted' = Append(between, e)
      <4> HIDE DEF e
      <4> QED
        BY <3>2, <3>3
    <3>5. IsOut(input', Len(input')) /\ LastOf(input', Len(input')) = Len(input')
      BY <1>1, <2>2, <3>2, HeaderOpens
    <3>6. e.lines = <<Len(input')>> /\ e.lines[1] = Len(input')
          /\ LastLine(e.lines) = Len(input')
      BY <1>1, <2>2 DEF Position, LastLine
    <3> HIDE DEF e
    <3>7. Len(input') \in Out(input')
      <4>1. Len(input') \in DOMAIN input' /\ input'[Len(input')] = line
        BY <1>1, <1>3, <2>1, <2>2
      <4> QED
        BY <2>1, <3>2, <3>5, <4>1 DEF Out, Headers
    <3>8. /\ Prefixed(between, emitted') /\ AddsOut(input', between, emitted')
          /\ Emits(emitted', input', Len(input'))
      BY <3>3, <3>4, <3>5, <3>6, <3>7, OneMoreEntry
    <3>9. /\ Prefixed(emitted, emitted') /\ AddsOut(input', emitted, emitted')
          /\ \A i : Emits(between, input', i) => Emits(emitted', input', i)
      BY <3>3, <3>8, EntriesChain
    <3>10. Settles(input', emitted', Open, {})
      BY <3>3, <3>5, <3>8, <3>9 DEF Settles, IsOpen
    <3>11. Matches(input', emitted', {})
      BY <1>1, <2>1, <2>2, <3>9, <3>10, MatchesGrows
    <3> QED
      BY <3>2, <3>11 DEF MatchOK
  <2>4. CASE PushMultiLine(line)
    <3>1. PICK between : between = emitted \o TakeEntry
      OBVIOUS
    <3>2. /\ IsHeader(line) /\ IsMultiLine(line) /\ emitted' = between
          /\ ~Idle' /\ lines' = <<Len(input')>> /\ brace_state' = Balanced
      BY <1>2, <2>2, <2>4, <3>1
         DEF PushMultiLine, Idle, IsMultiLine, IsHeader, Position
    <3>3. /\ Prefixed(emitted, emitted') /\ AddsOut(input', emitted, emitted')
          /\ \A i \in Open : IsOut(input', i) /\ Emits(emitted', input', i)
      BY <1>1, <2>1, <2>2, <3>1, <3>2, Taking DEF EndsEntry
    <3>4. lines'[1] = Len(input') /\ Open' = {Len(input')}
      BY <3>2 DEF Open
    <3>5. IsOpen(input', Len(input')) /\ ScanOf(input', Len(input')) = Balanced
      BY <1>1, <2>2, <3>2, HeaderOpens, ScanOfHeader
    <3>6. Settles(input', emitted', Open, Open')
      <4>1. ASSUME NEW i \in Open, i = Len(input') PROVE FALSE
        <5>1. ~Idle /\ i = lines[1]
          BY <4>1 DEF Open
        <5>2. lines[1] \in 1 .. Len(input)
          BY <5>1, InProgressOpen
        <5> QED
          BY <1>1, <2>2, <4>1, <5>1, <5>2
      <4> QED
        BY <3>3, <3>4, <3>5, <4>1 DEF Settles, IsOpen
    <3>7. Matches(input', emitted', Open')
      BY <1>1, <2>1, <2>2, <3>3, <3>6, MatchesGrows
    <3> QED
      BY <3>2, <3>4, <3>5, <3>7 DEF MatchOK
  <2>5. CASE PushContinuation(line)
    <3> DEFINE all == Append(lines, Position)
               e   == [header |-> current_header, lines |-> all]
               state == IF BraceDepthFlush
                        THEN advance_brace_state(brace_state, line.text)
                        ELSE brace_state
    <3>1. ~IsHeader(line) /\ ~Idle /\ ~EndsEntry(line)
      BY <2>1, <2>5 DEF PushContinuation, EndsEntry
    <3>2. PICK i : i = lines[1]
      OBVIOUS
    <3>3. /\ i \in Headers(input) /\ i \in 1 .. Len(input)
          /\ IsOpen(input, i) /\ LastLine(lines) = Len(input) /\ Open = {i}
      BY <3>1, <3>2, InProgressOpen DEF Open
    <3>4. /\ state = ScanOf(input', i)
          /\ Complete(input', i, Len(input')) <=> StructurallyComplete(state)
      <4>1. brace_state = ScanOf(input, i)
        BY <3>1, <3>2 DEF MatchOK
      <4>2. Extent(input, i) = Len(input)
        BY <3>3 DEF IsOpen
      <4>3. /\ ScanOf(input', i) = IF BraceDepthFlush
                  THEN advance_brace_state(ScanOf(input, i), line.text)
                  ELSE ScanOf(input, i)
            /\ Complete(input', i, Len(input'))
                 <=> StructurallyComplete(ScanOf(input', i))
        BY <1>1, <2>2, <3>1, <3>3, <4>2, ScanGrows
      <4> QED
        BY <4>1, <4>3
    <3>5. /\ StructurallyComplete(state) =>
               IsOut(input', i) /\ LastOf(input', i) = Len(input')
          /\ ~StructurallyComplete(state) => IsOpen(input', i)
      <4> HIDE DEF state, e, all
      <4>1. PICK more \in Seq(Calls) : more = input'
        BY <1>1
      <4>2. /\ input \in Seq(Calls) /\ line \in Calls /\ i \in 1 .. Len(input)
            /\ Longer(input, line, more) /\ IsOpen(input, i) /\ ~EndsEntry(line)
        BY <1>1, <2>1, <2>2, <3>1, <3>3, <4>1
      <4>3. /\ Complete(more, i, Len(more)) =>
                 IsOut(more, i) /\ LastOf(more, i) = Len(more)
            /\ ~Complete(more, i, Len(more)) => IsOpen(more, i)
        BY <4>2, OpenGrows
      <4> QED
        BY <3>4, <4>1, <4>3
    <3>6. i \in Headers(input') /\ Len(input') \notin Headers(input')
      BY <1>1, <2>1, <2>2, <3>1, <3>3, HeadersGrow
    <3>7. all[1] = i /\ LastLine(all) = Len(input') /\ all \in Seq(Nat)
      <4>1. lines # <<>> /\ Position = Len(input') /\ Position \in Nat
        BY <1>1, <2>2, <3>1 DEF IInv, Position
      <4> QED
        BY <1>1, <3>2, <4>1 DEF LastLine
    <3>8. CASE StructurallyComplete(state)
      <4>1. /\ emitted' = Append(emitted, e) /\ e.lines = all /\ Idle'
            /\ brace_state' = Balanced /\ Open' = {}
        BY <1>2, <2>5, <3>8
           DEF PushContinuation, BecomeIdle, Idle, Open
      <4> HIDE DEF e, all, state
      <4>2. i \in Out(input')
        BY <3>5, <3>6, <3>8 DEF Out
      <4>3. /\ Prefixed(emitted, emitted') /\ AddsOut(input', emitted, emitted')
            /\ Emits(emitted', input', i)
        BY <1>1, <3>5, <3>7, <3>8, <4>1, <4>2, OneMoreEntry
      <4>4. Settles(input', emitted', Open, {})
        BY <3>3, <3>5, <3>6, <3>8, <4>3 DEF Settles, IsOpen
      <4>5. Matches(input', emitted', {})
        BY <1>1, <2>1, <2>2, <4>3, <4>4, MatchesGrows
      <4> QED
        BY <4>1, <4>5 DEF MatchOK
    <3>9. CASE ~StructurallyComplete(state)
      <4>1. /\ lines' = all /\ brace_state' = state
            /\ UNCHANGED <<current_header, emitted>>
        BY <2>5, <3>9 DEF PushContinuation
      <4> HIDE DEF e, all, state
      <4>2. ~Idle' /\ lines'[1] = i /\ Open' = {i}
        BY <3>1, <3>7, <4>1 DEF Idle, Open
      <4>3. /\ Prefixed(emitted, emitted') /\ AddsOut(input', emitted, emitted')
        BY <4>1 DEF Prefixed, AddsOut
      <4>4. Settles(input', emitted', Open, {i})
        BY <3>3, <3>5, <3>6, <3>9 DEF Settles, IsOpen
      <4>5. Matches(input', emitted', {i})
        BY <1>1, <2>1, <2>2, <4>3, <4>4, MatchesGrows
      <4> QED
        BY <3>4, <4>1, <4>2, <4>5 DEF MatchOK
    <3> QED
      BY <3>8, <3>9
  <2>6. CASE PushOrphan(line)
    <3>1. /\ UNCHANGED <<current_header, lines, brace_state, emitted>>
          /\ Idle /\ Idle' /\ Open = {} /\ Open' = {} /\ ~IsHeader(line)
      BY <2>6 DEF PushOrphan, Idle, Open
    <3>2. /\ Prefixed(emitted, emitted') /\ AddsOut(input', emitted, emitted')
          /\ Settles(input', emitted', Open, {})
      BY <2>2, <3>1 DEF Prefixed, AddsOut, Settles
    <3>3. Matches(input', emitted', {})
      BY <1>1, <2>1, <2>2, <3>2, MatchesGrows
    <3> QED
      BY <3>1, <3>3 DEF MatchOK
  <2> QED
    BY <2>3, <2>4, <2>5, <2>6 DEF push_line
<1>5. CASE flush
  <2>1. /\ FlushMark \in Calls /\ input' = Append(input, FlushMark)
        /\ emitted' = emitted \o TakeEntry /\ Idle' /\ Open' = {}
        /\ brace_state' = Balanced
    BY <1>2, <1>5 DEF flush, BecomeIdle, Calls, Idle, Open
  <2>2. ~IsLine(FlushMark) /\ FlushMark # ResetMark /\ EndsEntry(FlushMark)
    BY DEF IsLine, FlushMark, ResetMark, EndsEntry
  <2>3. Longer(input, FlushMark, input') /\ Len(input') \notin Headers(input')
    BY <1>3, <2>1, <2>2
  <2>5. /\ Prefixed(emitted, emitted') /\ AddsOut(input', emitted, emitted')
        /\ \A i \in Open : IsOut(input', i) /\ Emits(emitted', input', i)
    BY <1>1, <2>1, <2>2, <2>3, Taking
  <2>6. Settles(input', emitted', Open, {})
    BY <2>3, <2>5 DEF Settles, IsOpen
  <2>7. Matches(input', emitted', {})
    BY <1>1, <2>1, <2>3, <2>5, <2>6, MatchesGrows
  <2> QED
    BY <2>1, <2>7 DEF MatchOK
<1>6. CASE reset
  <2>1. /\ ResetMark \in Calls /\ input' = Append(input, ResetMark)
        /\ emitted' = emitted /\ Idle' /\ Open' = {}
        /\ brace_state' = Balanced
    BY <1>6 DEF reset, Calls, Idle, Open
  <2>2. ~IsLine(ResetMark) /\ EndsEntry(ResetMark)
    BY DEF IsLine, FlushMark, ResetMark, EndsEntry
  <2>3. Longer(input, ResetMark, input') /\ Len(input') \notin Headers(input')
    BY <1>3, <2>1, <2>2
  <2>4. Prefixed(emitted, emitted') /\ AddsOut(input', emitted, emitted')
    BY <2>1 DEF Prefixed, AddsOut
  <2>5. ASSUME NEW i \in Open
        PROVE  ~IsOut(input', i) /\ Extent(input', i) # Len(input')
    <3>1. ~Idle /\ i = lines[1]
      BY <2>5 DEF Open
    <3>2. i \in 1 .. Len(input) /\ IsOpen(input, i)
      BY <3>1, InProgressOpen
    <3> QED
      BY <1>1, <2>1, <2>2, <2>3, <3>2, OpenGrows
  <2>6. Settles(input', emitted', Open, {})
    BY <2>3, <2>5 DEF Settles, IsOpen
  <2>7. Matches(input', emitted', {})
    BY <1>1, <2>1, <2>3, <2>4, <2>6, MatchesGrows
  <2> QED
    BY <2>1, <2>7 DEF MatchOK
<1>7. CASE UNCHANGED vars
  <2>1. Idle' = Idle /\ Open' = Open
    BY <1>7 DEF vars, Idle, Open
  <2> QED
    BY <1>7, <2>1 DEF vars, MatchOK
<1> QED
  BY <1>4, <1>5, <1>6, <1>7 DEF Next


-----------------------------------------------------------------------------
(* Entries in order begin with different lines.                            *)
LEMMA FirstsIncrease ==
  ASSUME NEW in \in Seq(Calls), NEW entries \in Seq(Entry),
         InOrder(in, entries), NEW k \in DOMAIN entries,
         NEW l \in DOMAIN entries, k < l
  PROVE  entries[k].lines[1] < entries[l].lines[1]
<1> DEFINE n == Len(entries)
           First(m) == entries[m].lines[1]
           T == {m \in 0 .. n : k < m => First(k) < First(m)}
<1>1. n \in Nat /\ DOMAIN entries = 1 .. n
  OBVIOUS
<1>2. ASSUME NEW m \in 1 .. n
      PROVE  /\ First(m) \in Nat /\ LastLine(entries[m].lines) \in Nat
             /\ First(m) <= LastLine(entries[m].lines)
  <2>1. entries[m] \in Entry /\ WellFormed(in, entries[m].header, entries[m].lines)
    BY <1>1 DEF InOrder
  <2>2. PICK ls \in Seq(Nat) : ls = entries[m].lines
    BY <2>1 DEF Entry
  <2>3. WellFormed(in, entries[m].header, ls)
    BY <2>1, <2>2
  <2>4. ls # <<>> /\ \A j \in DOMAIN ls : ls[j] = ls[1] + j - 1
    BY <2>3 DEF WellFormed
  <2>5. Len(ls) \in DOMAIN ls /\ 1 \in DOMAIN ls /\ Len(ls) \in Nat \ {0}
    BY <2>4
  <2>6. ls[1] \in Nat /\ ls[Len(ls)] \in Nat /\ ls[Len(ls)] = ls[1] + Len(ls) - 1
    <3>1. ls[Len(ls)] = ls[1] + Len(ls) - 1
      BY <2>4, <2>5
    <3>2. \A j \in DOMAIN ls : ls[j] \in Nat
      OBVIOUS
    <3> QED
      BY <2>5, <3>1, <3>2
  <2>7. ls[1] <= ls[Len(ls)]
    BY <2>5, <2>6
  <2> QED
    BY <2>2, <2>6, <2>7 DEF LastLine
<1>3. 0 \in T
  BY <1>1
<1>4. ASSUME NEW m \in 1 .. n, m - 1 \in T PROVE m \in T
  <2> SUFFICES ASSUME k < m PROVE First(k) < First(m)
    BY <1>1
  <2>1. m - 1 \in 1 .. n /\ m > 1 /\ (k < m - 1 \/ k = m - 1)
    BY <1>1
  <2>2. LastLine(entries[m - 1].lines) < First(m)
    BY <1>1, <2>1 DEF InOrder
  <2>3. First(m - 1) < First(m)
    <3>1. First(m - 1) \in Nat /\ First(m) \in Nat
      BY <1>2, <2>1
    <3>2. LastLine(entries[m - 1].lines) \in Nat
          /\ First(m - 1) <= LastLine(entries[m - 1].lines)
      BY <1>2, <2>1
    <3> HIDE DEF First
    <3> QED
      BY <2>2, <3>1, <3>2
  <2>4. k < m - 1 => First(k) < First(m - 1)
    BY <1>4
  <2>5. First(k) \in Nat /\ First(m - 1) \in Nat /\ First(m) \in Nat
    BY <1>1, <1>2, <2>1
  <2> HIDE DEF First
  <2> QED
    BY <2>1, <2>3, <2>4, <2>5
<1> HIDE DEF T
<1>5. 0 .. n \subseteq T
  BY <1>1, <1>3, <1>4, InductionUpTo
<1>6. l \in 0 .. n
  BY <1>1
<1> QED
  BY <1>5, <1>6 DEF T

(* So there are as many of them as headers whose entry is out.             *)
LEMMA AllCounted ==
  ASSUME IInv, MatchOK
  PROVE  Len(emitted) = Cardinality(Out(input))
<1> DEFINE n == Len(emitted)
           f == [k \in 1 .. n |-> emitted[k].lines[1]]
<1>1. /\ input \in Seq(Calls) /\ emitted \in Seq(Entry) /\ n \in Nat
      /\ DOMAIN emitted = 1 .. n /\ InOrder(input, emitted)
  BY DEF IInv, TypeOK, Calls, EntriesPartitionTheLog
<1>2. f \in [1 .. n -> Out(input)]
  BY <1>1 DEF MatchOK, Matches
<1>3. ASSUME NEW k \in 1 .. n, NEW l \in 1 .. n, f[k] = f[l] PROVE k = l
  <2>1. k < l => f[k] < f[l]
    BY <1>1, FirstsIncrease
  <2>2. l < k => f[l] < f[k]
    BY <1>1, FirstsIncrease
  <2>3. f[k] \in Int /\ f[l] \in Int
    <3>1. Out(input) \subseteq Int
      BY <1>1 DEF Out, Headers
    <3> HIDE DEF f
    <3> QED
      BY <1>2, <3>1
  <2> HIDE DEF f
  <2> QED
    BY <1>1, <1>3, <2>1, <2>2, <2>3
<1>4. ASSUME NEW i \in Out(input) PROVE \E k \in 1 .. n : f[k] = i
  BY <1>1 DEF MatchOK, Matches, Emits
<1> HIDE DEF f
<1>5. f \in Injection(1 .. n, Out(input))
  BY <1>2, <1>3 DEF Injection, IsInjective
<1>6. f \in Surjection(1 .. n, Out(input))
  BY <1>2, <1>4 DEF Surjection
<1>7. ExistsBijection(1 .. n, Out(input))
  BY <1>5, <1>6 DEF ExistsBijection, Bijection
<1> QED
  BY <1>1, <1>7, FS_CountingElements

(* Line by line the buffer finds the entries that a reading of the whole   *)
(* log gives: those and no others, each with its last line, whatever the   *)
(* lines hold, where they are split, and where it is flushed or reset.     *)
THEOREM WholeInputMatched == Spec => []MatchesWholeInput
<1>1. IInv /\ MatchOK => MatchesWholeInput
  <2> SUFFICES ASSUME IInv, MatchOK PROVE MatchesWholeInput
    OBVIOUS
  <2>1. ASSUME NEW i \in Headers(input) \ Out(input)
        PROVE  Extent(input, i) = Len(input) <=> (~Idle /\ lines[1] = i)
    <3>1. IsOpen(input, i) <=> i \in Open
      BY DEF MatchOK, Matches
    <3>2. i \in Open <=> (~Idle /\ lines[1] = i)
      BY DEF Open
    <3>3. ~IsOut(input, i)
      BY DEF Out
    <3> QED
      BY <3>1, <3>2, <3>3 DEF IsOpen
  <2> QED
    BY <2>1, AllCounted DEF MatchesWholeInput, MatchOK, Matches, Emits
<1>2. Spec => []MatchOK
  BY MatchInit, MatchStep, Invariance, PTL DEF Spec
<1> QED
  BY <1>1, <1>2, Invariance, PTL

-----------------------------------------------------------------------------
(* The scan for the JSON, one character at a time.                         *)
JsonState == [depth : Int, in_string : BOOLEAN, escape_next : BOOLEAN]

Outside == [depth |-> 0, in_string |-> FALSE, escape_next |-> FALSE]

Brackets == {"{", "["}

JsonScan(g, ch) == Scan(g, ch, "{", "}")

(* One character leads from a state of the scan to another.                *)
LEMMA JsonTyped ==
  ASSUME NEW g \in JsonState, NEW ch \in Character
  PROVE  JsonScan(g, ch) \in JsonState
<1>1. g.depth \in Int /\ g.in_string \in BOOLEAN /\ g.escape_next \in BOOLEAN
  BY DEF JsonState
<1>2. CASE g.escape_next
  <2>1. JsonScan(g, ch) = [g EXCEPT !.escape_next = FALSE]
    BY <1>2 DEF Scan, JsonScan
  <2> QED
    BY <2>1 DEF JsonState
<1>3. CASE ~g.escape_next /\ ch = "backslash" /\ g.in_string
  <2>1. JsonScan(g, ch) = [g EXCEPT !.escape_next = TRUE]
    BY <1>3 DEF Scan, JsonScan
  <2> QED
    BY <2>1 DEF JsonState
<1>4. CASE ~g.escape_next /\ ch = "quote"
  <2>1. JsonScan(g, ch) = [g EXCEPT !.in_string = ~@]
    BY <1>4 DEF Scan, JsonScan
  <2> QED
    BY <2>1 DEF JsonState
<1>5. CASE ~g.escape_next /\ ch = "{" /\ ~g.in_string
  <2>1. JsonScan(g, ch) = [g EXCEPT !.depth = g.depth + 1]
    BY <1>5 DEF Scan, JsonScan
  <2>2. PICK d \in Int : d = g.depth + 1
    BY <1>1
  <2> QED
    BY <2>1, <2>2 DEF JsonState
<1>6. CASE ~g.escape_next /\ ch = "}" /\ ~g.in_string
  <2>1. JsonScan(g, ch) = [g EXCEPT !.depth = g.depth - 1]
    BY <1>6 DEF Scan, JsonScan
  <2>2. PICK d \in Int : d = g.depth - 1
    BY <1>1
  <2> QED
    BY <2>1, <2>2 DEF JsonState
<1>7. CASE ~ \/ g.escape_next
             \/ ch = "backslash" /\ g.in_string
             \/ ch = "quote"
             \/ ch \in {"{", "}"} /\ ~g.in_string
  <2>1. JsonScan(g, ch) = g
    BY <1>7 DEF Scan, JsonScan
  <2> QED
    BY <2>1
<1> QED
  BY <1>1, <1>2, <1>3, <1>4, <1>5, <1>6, <1>7

(* A body as BodyOf builds it begins with a header in brackets.            *)
Framed(body) ==
  /\ body \in Seq(Character) /\ Len(body) >= 3
  /\ body[1] = "[" /\ body[2] = "other" /\ body[3] = "]"

(* Behind the header the first bracket is the brace at place k, and f is   *)
(* the scan from there on.                                                 *)
IsJson(f, body, k) ==
  /\ k \in 4 .. Len(body)
  /\ body[k] = "{"
  /\ \A m \in 4 .. k - 1 : body[m] \notin Brackets
  /\ f \in [k - 1 .. Len(body) -> JsonState]
  /\ f[k - 1] = Outside
  /\ \A m \in k .. Len(body) : f[m] = JsonScan(f[m - 1], body[m])

(* Where the depth is 0 again.                                             *)
Ends(f, body, k) == {m \in k .. Len(body) : f[m].depth = 0}

(* The least of a set of places is the one chosen.                         *)
LEMMA FindIs ==
  ASSUME NEW body \in Seq(Character), NEW from \in Nat, NEW characters,
         NEW k \in from .. Len(body), body[k] \in characters,
         \A m \in from .. k - 1 : body[m] \notin characters
  PROVE  find(body, from, characters) = k
<1> DEFINE places == {i \in from .. Len(body) : body[i] \in characters}
           chosen == CHOOSE i \in places : \A j \in places : i <= j
<1>1. k \in places /\ places # {} /\ Len(body) \in Nat
  OBVIOUS
<1>2. \A m \in places : k <= m
  <2> SUFFICES ASSUME NEW m \in places, m < k PROVE FALSE
    OBVIOUS
  <2>1. m \in from .. k - 1 /\ body[m] \in characters
    BY <1>1
  <2> QED
    BY <2>1
<1>3. chosen \in places /\ \A j \in places : chosen <= j
  BY <1>1, <1>2
<1>4. find(body, from, characters) = chosen
  BY <1>1 DEF find
<1> HIDE DEF chosen
<1>5. chosen <= k /\ k <= chosen
  BY <1>1, <1>2, <1>3
<1>6. \A m \in places : m \in Nat
  BY <1>1
<1>7. chosen \in Nat /\ k \in Nat
  BY <1>1, <1>3, <1>6
<1> HIDE DEF places
<1> QED
  BY <1>4, <1>5, <1>7

(* extract_json_from_body ends where the depth is first 0 again.           *)
LEMMA ExtractIs ==
  ASSUME NEW body, Framed(body), NEW k \in Nat, NEW f, IsJson(f, body, k)
  PROVE  extract_json_from_body(body)
           = IF Ends(f, body, k) = {} THEN <<>>
             ELSE <<SubSeq(body, k, CHOOSE i \in Ends(f, body, k) :
                                      \A j \in Ends(f, body, k) : i <= j)>>
<1> DEFINE n == Len(body)
           start == find(body, search_start(body), {"{", "["})
           Solves(g) ==
             g = [i \in start - 1 .. n |->
                    IF i < start
                    THEN [depth |-> 0, in_string |-> FALSE, escape_next |-> FALSE]
                    ELSE Scan(g[i - 1], body[i], body[start],
                              IF body[start] = "{" THEN "}" ELSE "]")]
           h == CHOOSE g : Solves(g)
           ends == {i \in start .. n : h[i].depth = 0}
<1>8. extract_json_from_body(body)
        = IF start = 0 \/ ends = {} THEN <<>>
          ELSE <<SubSeq(body, start, CHOOSE i \in ends : \A j \in ends : i <= j)>>
  BY DEF extract_json_from_body
<1> HIDE DEF h
<1>0. n \in Nat
  BY DEF Framed
<1> HIDE DEF Solves
<1>1. k \in 4 .. n
  BY DEF IsJson
<1> HIDE DEF n
<1>2. start = k
  <2>1. find(body, 1, {"]"}) = 3
    <3>1. 1 \in Nat /\ 3 \in 1 .. Len(body) /\ body[3] \in {"]"}
      BY DEF Framed
    <3>2. \A m \in 1 .. 3 - 1 : body[m] \notin {"]"}
      <4>1. \A m \in 1 .. 3 - 1 : m = 1 \/ m = 2
        OBVIOUS
      <4> QED
        BY <4>1 DEF Framed
    <3> QED
      BY <3>1, <3>2, FindIs DEF Framed
  <2>2. search_start(body) = 4
    BY <2>1 DEF search_start, Framed
  <2>3. 4 \in Nat /\ body[k] \in Brackets
        /\ \A m \in 4 .. k - 1 : body[m] \notin Brackets
    BY DEF IsJson, Brackets
  <2> QED
    BY <1>1, <2>2, <2>3, FindIs DEF Framed, n, Brackets
<1>6. body[k] = "{"
  BY DEF IsJson
<1> HIDE DEF start
<1>3. Solves(f)
  <2>1. f = [i \in k - 1 .. n |-> f[i]]
    BY DEF IsJson, n
  <2>2. ASSUME NEW i \in k - 1 .. n
        PROVE  f[i] = IF i < k THEN Outside
                      ELSE Scan(f[i - 1], body[i], body[k],
                                IF body[k] = "{" THEN "}" ELSE "]")
    <3>1. CASE i < k
      <4>1. i = k - 1
        BY <1>0, <1>1, <3>1
      <4> QED
        BY <3>1, <4>1 DEF IsJson, n, JsonScan
    <3>2. CASE ~(i < k)
      <4>1. i \in k .. n
        BY <1>0, <1>1, <3>2
      <4> QED
        BY <1>0, <1>1, <3>2, <4>1 DEF IsJson, n, JsonScan
    <3> QED
      BY <3>1, <3>2
  <2> QED
    BY <1>2, <2>1, <2>2 DEF Solves, Outside
<1>4. Solves(h)
  BY <1>3 DEF h
<1>5. \A m \in k - 1 .. n : h[m] = f[m]
  <2> DEFINE d == n - (k - 1)
             T == {e \in 0 .. d : h[(k - 1) + e] = f[(k - 1) + e]}
  <2>1. d \in Nat
    BY <1>0, <1>1
  <2>2. \A i \in k - 1 .. n :
          h[i] = IF i < k THEN Outside
                 ELSE Scan(h[i - 1], body[i], body[k],
                           IF body[k] = "{" THEN "}" ELSE "]")
    BY <1>2, <1>4 DEF Solves, Outside
  <2>3. 0 \in T
    <3>1. (k - 1) + 0 = k - 1 /\ k - 1 \in k - 1 .. n /\ k - 1 < k /\ 0 \in 0 .. d
      BY <1>0, <1>1, <2>1
    <3> QED
      BY <2>2, <3>1 DEF IsJson
  <2>4. ASSUME NEW e \in 1 .. d, e - 1 \in T PROVE e \in T
    <3>1. PICK i \in k .. n : i = (k - 1) + e
      BY <1>0, <1>1, <2>1
    <3>2. i - 1 = (k - 1) + (e - 1) /\ ~(i < k) /\ i \in k - 1 .. n /\ e \in 0 .. d
      BY <1>0, <1>1, <2>1, <3>1
    <3>3. h[i - 1] = f[i - 1]
      BY <2>4, <3>2
    <3>4. h[i] = JsonScan(h[i - 1], body[i])
      BY <1>6, <2>2, <3>2 DEF JsonScan
    <3>5. f[i] = JsonScan(f[i - 1], body[i])
      BY <3>1 DEF IsJson, n
    <3> QED
      BY <3>1, <3>2, <3>3, <3>4, <3>5
  <2> HIDE DEF T
  <2>5. 0 .. d \subseteq T
    BY <2>1, <2>3, <2>4, InductionUpTo
  <2> SUFFICES ASSUME NEW m \in k - 1 .. n PROVE h[m] = f[m]
    OBVIOUS
  <2>6. m - (k - 1) \in 0 .. d /\ (k - 1) + (m - (k - 1)) = m
    BY <1>0, <1>1
  <2> QED
    BY <2>5, <2>6 DEF T
<1>7. ends = Ends(f, body, k)
  <2>1. \A m \in k .. n : m \in k - 1 .. n
    BY <1>0, <1>1
  <2> QED
    BY <1>2, <1>5, <2>1 DEF Ends, n
<1> HIDE DEF ends
<1> QED
  BY <1>8, <1>1, <1>2, <1>7

(* One more character is put behind the body and scanned.                  *)
ScansOneMore(g, f, body, ch, more, k) ==
  /\ IsJson(g, more, k)
  /\ \A m \in k .. Len(body) : g[m] = f[m]
  /\ g[Len(more)] = JsonScan(f[Len(body)], ch)

(* The scan of a body goes on behind it.                                   *)
LEMMA JsonGrows ==
  ASSUME NEW body, Framed(body), NEW ch \in Character, NEW more,
         Longer(body, ch, more), NEW k \in Nat, NEW f, IsJson(f, body, k)
  PROVE  \E g : ScansOneMore(g, f, body, ch, more, k)
<1>1. PICK n \in Nat : n = Len(body)
  BY DEF Framed
<1>2. /\ Len(more) = n + 1 /\ more[n + 1] = ch
      /\ \A m \in 1 .. n : more[m] = body[m]
  BY <1>1 DEF Framed, Longer
<1>3. k \in 4 .. n
  BY <1>1 DEF IsJson
<1> DEFINE last == JsonScan(f[n], ch)
           g == [m \in k - 1 .. n + 1 |-> IF m = n + 1 THEN last ELSE f[m]]
<1>4. /\ \A m \in k - 1 .. n : m \in k - 1 .. n + 1 /\ m # n + 1
      /\ \A m \in k .. n : m \in k - 1 .. n
      /\ \A m \in k - 1 .. n + 1 : m = n + 1 \/ m \in k - 1 .. n
      /\ n \in k - 1 .. n /\ k - 1 \in k - 1 .. n
  BY <1>3
<1>5. /\ \A m \in k - 1 .. n : f[m] \in JsonState /\ g[m] = f[m]
      /\ g[n + 1] = last
  <2>1. \A m \in k - 1 .. n : f[m] \in JsonState
    BY <1>1 DEF IsJson
  <2>2. n + 1 \in k - 1 .. n + 1
    BY <1>3
  <2> HIDE DEF last
  <2> QED
    BY <1>4, <2>1, <2>2
<1>6. last \in JsonState
  BY <1>4, <1>5, JsonTyped
<1>7. g \in [k - 1 .. n + 1 -> JsonState]
  <2> HIDE DEF last
  <2> QED
    BY <1>4, <1>5, <1>6
<1>8. g[k - 1] = Outside
  <2>1. f[k - 1] = Outside
    BY DEF IsJson
  <2> HIDE DEF g
  <2> QED
    BY <1>4, <1>5, <2>1
<1> HIDE DEF g
<1>9. ASSUME NEW m \in k .. n + 1
      PROVE  g[m] = JsonScan(g[m - 1], more[m])
  <2>1. CASE m = n + 1
    <3>1. m - 1 = n
      BY <2>1
    <3> QED
      BY <1>2, <1>4, <1>5, <2>1, <3>1
  <2>2. CASE m # n + 1
    <3>1. m \in k .. n /\ m - 1 \in k - 1 .. n /\ m \in 1 .. n
      BY <1>3, <2>2
    <3>2. f[m] = JsonScan(f[m - 1], body[m])
      BY <1>1, <3>1 DEF IsJson
    <3> QED
      BY <1>2, <1>4, <1>5, <3>1, <3>2
  <2> QED
    BY <2>1, <2>2
<1>10. /\ more[k] = "{"
       /\ \A m \in 4 .. k - 1 : more[m] \notin Brackets
  <2>1. k \in 1 .. n /\ \A m \in 4 .. k - 1 : m \in 1 .. n
    BY <1>3
  <2>2. body[k] = "{" /\ \A m \in 4 .. k - 1 : body[m] \notin Brackets
    BY DEF IsJson
  <2> QED
    BY <1>2, <2>1, <2>2
<1>11. k \in 4 .. n + 1
  BY <1>3
<1>12. IsJson(g, more, k)
  BY <1>2, <1>7, <1>8, <1>9, <1>10, <1>11 DEF IsJson
<1>13. \A m \in k .. Len(body) : g[m] = f[m]
  BY <1>1, <1>4, <1>5
<1> QED
  BY <1>1, <1>2, <1>5, <1>12, <1>13 DEF ScansOneMore

(* So does the body itself.                                                *)
LEMMA FramedGrows ==
  ASSUME NEW body, Framed(body), NEW ch \in Character
  PROVE  /\ Framed(Append(body, ch)) /\ Len(Append(body, ch)) = Len(body) + 1
         /\ Append(body, ch)[Len(body) + 1] = ch
         /\ \A m \in 1 .. Len(body) : Append(body, ch)[m] = body[m]
<1>1. body \in Seq(Character) /\ Len(body) \in Nat /\ Len(body) >= 3
  BY DEF Framed
<1>2. PICK more \in Seq(Character) : more = Append(body, ch)
  <2>1. Append(body, ch) \in Seq(Character)
    BY <1>1
  <2> QED
    BY <2>1
<1>3. /\ Len(more) = Len(body) + 1 /\ more[Len(body) + 1] = ch
      /\ \A m \in 1 .. Len(body) : more[m] = body[m]
  BY <1>1, <1>2
<1>4. 1 \in 1 .. Len(body) /\ 2 \in 1 .. Len(body) /\ 3 \in 1 .. Len(body)
      /\ Len(body) + 1 >= 3
  BY <1>1
<1>5. Framed(more)
  BY <1>1, <1>3, <1>4 DEF Framed
<1> QED
  BY <1>2, <1>3, <1>5

(* The scan has come to the end of the JSON.                               *)
Found(body) ==
  \E k \in Nat : \E f : IsJson(f, body, k) /\ Ends(f, body, k) # {}

(* Then there is JSON in the body, whatever is put behind it.              *)
LEMMA FoundStays ==
  ASSUME NEW body, Framed(body), Found(body)
  PROVE  /\ extract_json_from_body(body) # <<>>
         /\ \A ch \in Character :
              /\ Found(Append(body, ch))
              /\ extract_json_from_body(Append(body, ch))
                   = extract_json_from_body(body)
<1> PICK k \in Nat : \E f : IsJson(f, body, k) /\ Ends(f, body, k) # {}
  BY DEF Found
<1>1. PICK f : IsJson(f, body, k) /\ Ends(f, body, k) # {}
  OBVIOUS
<1> DEFINE E == Ends(f, body, k)
           at == CHOOSE i \in E : \A j \in E : i <= j
<1>2. extract_json_from_body(body) = <<SubSeq(body, k, at)>>
  BY <1>1, ExtractIs
<1>3. E \subseteq Nat
  <2>1. Len(body) \in Nat
    BY DEF Framed
  <2> QED
    BY <2>1 DEF Ends
<1>4. at \in E /\ \A j \in E : at <= j
  <2> HIDE DEF E
  <2>1. \E i \in E : \A j \in E : i <= j
    BY <1>1, <1>3, Least DEF E
  <2> QED
    BY <2>1
<1> HIDE DEF at
<1>5. ASSUME NEW ch \in Character
      PROVE  /\ Found(Append(body, ch))
             /\ extract_json_from_body(Append(body, ch))
                  = extract_json_from_body(body)
  <2>1. PICK more : more = Append(body, ch) /\ Longer(body, ch, more)
    BY DEF Longer
  <2>2. PICK g : IsJson(g, more, k) /\ \A m \in k .. Len(body) : g[m] = f[m]
    <3>1. \E g : ScansOneMore(g, f, body, ch, more, k)
      BY <1>1, <2>1, JsonGrows
    <3> QED
      BY <3>1 DEF ScansOneMore
  <2>3. PICK n \in Nat : n = Len(body)
    BY DEF Framed
  <2>4. /\ Framed(more) /\ Len(more) = n + 1
        /\ \A m \in 1 .. n : more[m] = body[m]
    BY <2>1, <2>3, FramedGrows
  <2> DEFINE Later == Ends(g, more, k)
             then == CHOOSE i \in Later : \A j \in Later : i <= j
  <2>5. /\ E = {m \in k .. n : f[m].depth = 0}
        /\ Later = {m \in k .. n + 1 : g[m].depth = 0}
    BY <2>3, <2>4 DEF Ends
  <2>6. /\ \A m \in k .. n : m \in k .. n + 1 /\ m <= n
        /\ \A m \in k .. n + 1 : m \in Nat /\ (m \in k .. n \/ m = n + 1)
    OBVIOUS
  <2>7. /\ E \subseteq Later
        /\ \A m \in Later : m \in Nat /\ (m \in E \/ m = n + 1)
        /\ \A m \in E : m <= n
    BY <2>2, <2>3, <2>5, <2>6
  <2> HIDE DEF E, Later
  <2>8. at \in Later /\ \A j \in Later : at <= j
    BY <1>3, <1>4, <2>7
  <2>9. then \in Later /\ \A j \in Later : then <= j
    BY <2>8
  <2> HIDE DEF then
  <2>10. then = at
    <3>1. then <= at /\ at <= then /\ then \in Nat /\ at \in Nat
      BY <1>3, <1>4, <2>7, <2>8, <2>9
    <3> QED
      BY <3>1
  <2>11. extract_json_from_body(more) = <<SubSeq(more, k, then)>>
    BY <2>2, <2>4, <2>8, ExtractIs DEF Later, then
  <2>12. SubSeq(more, k, at) = SubSeq(body, k, at)
    <3>1. at \in k .. n /\ k \in 4 .. n
      <4>1. at \in k .. n
        BY <1>4, <2>5
      <4> QED
        BY <1>1, <2>3, <4>1 DEF IsJson
    <3>2. body \in Seq(Character) /\ more \in Seq(Character)
      BY <2>4 DEF Framed
    <3>3. \A i \in 1 .. at - k + 1 : k + i - 1 \in 1 .. n
      BY <3>1
    <3> QED
      BY <2>4, <3>1, <3>3
  <2>13. Found(more)
    BY <2>2, <2>8 DEF Found, Later
  <2> QED
    BY <1>2, <2>1, <2>10, <2>11, <2>12, <2>13
<1> QED
  BY <1>2, <1>5

-----------------------------------------------------------------------------
(* The brace counter and the scan for the JSON, side by side.              *)
Count(text) == advance_brace_state(Balanced, text)

(* Inside the JSON both hold the same state.                               *)
Alike(s, g) ==
  /\ s.depth = g.depth /\ s.in_string = g.in_string
  /\ s.escape_pending = g.escape_next /\ s.ever_opened = TRUE

(* The fields of a state of either.                                        *)
BraceIs(t, depth, in_string, pending, opened) ==
  /\ t.depth = depth /\ t.in_string = in_string
  /\ t.escape_pending = pending /\ t.ever_opened = opened

JsonIs(h, depth, in_string, escape) ==
  /\ h.depth = depth /\ h.in_string = in_string /\ h.escape_next = escape

(* The JSON is still open.                                                 *)
Inside(g) == g.depth > 0

(* One character takes them to the same state again.                       *)
LEMMA AlikeStep ==
  ASSUME NEW s \in BraceState, NEW g \in JsonState, NEW ch \in Character,
         Alike(s, g), Inside(g)
  PROVE  /\ Alike(AdvanceCharacter(s, ch), JsonScan(g, ch))
         /\ JsonScan(g, ch).depth \in Nat
<1> PICK t : t = AdvanceCharacter(s, ch)
  OBVIOUS
<1> PICK h : h = JsonScan(g, ch)
  OBVIOUS
<1> SUFFICES Alike(t, h) /\ h.depth \in Nat
  OBVIOUS
<1>1. /\ s.depth = g.depth /\ s.in_string = g.in_string
      /\ s.escape_pending = g.escape_next /\ s.ever_opened = TRUE
  BY DEF Alike
<1>0. PICK n \in Nat : n = g.depth /\ n > 0
  <2>1. g.depth \in Int
    BY DEF JsonState
  <2> QED
    BY <2>1 DEF Inside
<1>2. g.in_string \in BOOLEAN /\ g.escape_next \in BOOLEAN
  BY DEF JsonState
<1>3. CASE g.escape_next = TRUE
  <2>1. h = [g EXCEPT !.escape_next = FALSE]
    BY <1>3 DEF Scan, JsonScan
  <2>2. t = [s EXCEPT !.escape_pending = FALSE]
    BY <1>1, <1>3 DEF AdvanceCharacter
  <2>3. JsonIs(h, n, g.in_string, FALSE)
    BY <1>0, <2>1 DEF JsonIs, JsonState
  <2>4. BraceIs(t, n, s.in_string, FALSE, s.ever_opened)
    BY <1>0, <1>1, <2>2 DEF BraceIs, BraceState
  <2> QED
    BY <1>0, <1>1, <2>3, <2>4 DEF Alike, JsonIs, BraceIs
<1>4. CASE g.escape_next = FALSE /\ g.in_string = TRUE
  <2>1. s.escape_pending = FALSE /\ s.in_string = TRUE
    BY <1>1, <1>4
  <2>2. CASE ch = "backslash"
    <3>1. h = [g EXCEPT !.escape_next = TRUE]
      BY <1>4, <2>2 DEF Scan, JsonScan
    <3>2. t = [[s EXCEPT !.escape_pending = TRUE] EXCEPT !.in_string = TRUE]
      BY <2>1, <2>2 DEF AdvanceCharacter
    <3>4. JsonIs(h, n, TRUE, TRUE)
      BY <1>0, <1>4, <3>1 DEF JsonIs, JsonState
    <3>5. BraceIs(t, n, TRUE, TRUE, s.ever_opened)
      BY <1>0, <1>1, <2>1, <3>2 DEF BraceIs, BraceState
    <3> QED
      BY <1>0, <1>1, <3>1, <3>4, <3>5 DEF Alike, JsonIs, BraceIs
  <2>3. CASE ch = "quote"
    <3>1. h = [g EXCEPT !.in_string = FALSE]
      BY <1>4, <2>3 DEF Scan, JsonScan
    <3>2. t = [[s EXCEPT !.escape_pending = FALSE] EXCEPT !.in_string = FALSE]
      BY <2>1, <2>3 DEF AdvanceCharacter
    <3>4. JsonIs(h, n, FALSE, FALSE)
      BY <1>0, <1>4, <3>1 DEF JsonIs, JsonState
    <3>5. BraceIs(t, n, FALSE, FALSE, s.ever_opened)
      BY <1>0, <1>1, <2>1, <3>2 DEF BraceIs, BraceState
    <3> QED
      BY <1>0, <1>1, <3>1, <3>4, <3>5 DEF Alike, JsonIs, BraceIs
  <2>4. CASE ch \notin {"backslash", "quote"}
    <3>1. h = g
      BY <1>4, <2>4 DEF Scan, JsonScan
    <3>2. t = [[s EXCEPT !.escape_pending = FALSE] EXCEPT !.in_string = TRUE]
      BY <2>1, <2>4 DEF AdvanceCharacter
    <3>4. JsonIs(h, n, TRUE, FALSE)
      BY <1>0, <1>4, <3>1 DEF JsonIs, JsonState
    <3>5. BraceIs(t, n, TRUE, FALSE, s.ever_opened)
      BY <1>0, <1>1, <2>1, <3>2 DEF BraceIs, BraceState
    <3> QED
      BY <1>0, <1>1, <3>1, <3>4, <3>5 DEF Alike, JsonIs, BraceIs
  <2> QED
    BY <2>2, <2>3, <2>4
<1>5. CASE g.escape_next = FALSE /\ g.in_string = FALSE
  <2>1. s.escape_pending = FALSE /\ s.in_string = FALSE
    BY <1>1, <1>5
  <2>2. CASE ch = "quote"
    <3>1. h = [g EXCEPT !.in_string = TRUE]
      BY <1>5, <2>2 DEF Scan, JsonScan
    <3>2. t = [s EXCEPT !.in_string = TRUE]
      BY <2>1, <2>2 DEF AdvanceCharacter
    <3>4. JsonIs(h, n, TRUE, FALSE)
      BY <1>0, <1>5, <3>1 DEF JsonIs, JsonState
    <3>5. BraceIs(t, n, TRUE, FALSE, s.ever_opened)
      BY <1>0, <1>1, <2>1, <3>2 DEF BraceIs, BraceState
    <3> QED
      BY <1>0, <1>1, <3>1, <3>4, <3>5 DEF Alike, JsonIs, BraceIs
  <2>3. CASE ch = "{"
    <3>1. PICK d \in Nat : d = n + 1
      BY <1>0
    <3>2. h = [g EXCEPT !.depth = d]
      BY <1>0, <1>5, <2>3, <3>1 DEF Scan, JsonScan
    <3>3. t = [[s EXCEPT !.depth = d] EXCEPT !.ever_opened = TRUE]
      BY <1>0, <1>1, <2>1, <2>3, <3>1 DEF AdvanceCharacter
    <3>4. JsonIs(h, d, FALSE, FALSE)
      BY <1>5, <3>2 DEF JsonIs, JsonState
    <3>5. BraceIs(t, d, FALSE, FALSE, TRUE)
      BY <2>1, <3>3 DEF BraceIs, BraceState
    <3> QED
      BY <1>0, <1>1, <3>1, <3>4, <3>5 DEF Alike, JsonIs, BraceIs
  <2>4. CASE ch = "}"
    <3>1. PICK d \in Nat : d = n - 1
      BY <1>0
    <3>2. h = [g EXCEPT !.depth = d]
      BY <1>0, <1>5, <2>4, <3>1 DEF Scan, JsonScan
    <3>3. t = [s EXCEPT !.depth = d]
      <4>1. t = [s EXCEPT !.depth = IF s.depth = 0 THEN 0 ELSE s.depth - 1]
        BY <2>1, <2>4 DEF AdvanceCharacter
      <4>2. (IF s.depth = 0 THEN 0 ELSE s.depth - 1) = d
        BY <1>0, <1>1, <3>1
      <4> QED
        BY <4>1, <4>2
    <3>4. JsonIs(h, d, FALSE, FALSE)
      BY <1>5, <3>2 DEF JsonIs, JsonState
    <3>5. BraceIs(t, d, FALSE, FALSE, s.ever_opened)
      BY <2>1, <3>3 DEF BraceIs, BraceState
    <3> QED
      BY <1>0, <1>1, <3>1, <3>4, <3>5 DEF Alike, JsonIs, BraceIs
  <2>5. CASE ch \notin {"quote", "{", "}"}
    <3>1. h = g
      BY <1>5, <2>5 DEF Scan, JsonScan
    <3>2. t = s
      BY <2>1, <2>5 DEF AdvanceCharacter
    <3> QED
      BY <1>0, <1>1, <3>1, <3>2 DEF Alike
  <2> QED
    BY <2>2, <2>3, <2>4, <2>5
<1> QED
  BY <1>2, <1>3, <1>4, <1>5

(* Only a backslash leaves an escape pending.                              *)
LEMMA PendingStep ==
  ASSUME NEW s \in BraceState, NEW ch \in Character, ch # "backslash"
  PROVE  AdvanceCharacter(s, ch).escape_pending = FALSE
<1> PICK t : t = AdvanceCharacter(s, ch)
  OBVIOUS
<1>1. s.in_string \in BOOLEAN /\ s.escape_pending \in BOOLEAN
  BY DEF BraceState
<1>2. CASE s.escape_pending = TRUE
  <2>1. t = [s EXCEPT !.escape_pending = FALSE]
    BY <1>2 DEF AdvanceCharacter
  <2> QED
    BY <2>1 DEF BraceState
<1>3. CASE s.escape_pending = FALSE /\ s.in_string = TRUE
  <2>1. PICK q : q = (ch # "quote")
    OBVIOUS
  <2>2. t = [[s EXCEPT !.escape_pending = FALSE] EXCEPT !.in_string = q]
    BY <1>3, <2>1 DEF AdvanceCharacter
  <2> QED
    BY <2>2 DEF BraceState
<1>4. CASE s.escape_pending = FALSE /\ s.in_string = FALSE
  <2>1. CASE ch = "quote"
    <3>1. t = [s EXCEPT !.in_string = TRUE]
      BY <1>4, <2>1 DEF AdvanceCharacter
    <3> QED
      BY <1>4, <3>1 DEF BraceState
  <2>2. CASE ch = "{"
    <3>1. PICK d : d = s.depth + 1
      OBVIOUS
    <3>2. t = [[s EXCEPT !.depth = d] EXCEPT !.ever_opened = TRUE]
      BY <1>4, <2>2, <3>1 DEF AdvanceCharacter
    <3> QED
      BY <1>4, <3>2 DEF BraceState
  <2>3. CASE ch = "}"
    <3>1. PICK d : d = IF s.depth = 0 THEN 0 ELSE s.depth - 1
      OBVIOUS
    <3>2. t = [s EXCEPT !.depth = d]
      BY <1>4, <2>3, <3>1 DEF AdvanceCharacter
    <3> QED
      BY <1>4, <3>2 DEF BraceState
  <2>4. CASE ch \notin {"quote", "{", "}"}
    <3>1. t = s
      BY <1>4, <2>4 DEF AdvanceCharacter
    <3> QED
      BY <1>4, <3>1
  <2> QED
    BY <2>1, <2>2, <2>3, <2>4
<1> QED
  BY <1>1, <1>2, <1>3, <1>4

(* The counter takes one more character.                                   *)
LEMMA CountGrows ==
  ASSUME NEW text \in Seq(Character), NEW ch \in Character
  PROVE  /\ Count(text) \in BraceState
         /\ Count(Append(text, ch)) = AdvanceCharacter(Count(text), ch)
<1>1. Balanced \in BraceState /\ Count(text) \in BraceState
  BY BalancedTyped, ScanTyped DEF Count
<1>2. PICK one \in Seq(Character) : one = <<ch>> /\ Len(one) = 1 /\ one[1] = ch
  <2>1. <<ch>> \in Seq(Character) /\ Len(<<ch>>) = 1 /\ <<ch>>[1] = ch
    OBVIOUS
  <2> QED
    BY <2>1
<1>3. PICK s \in BraceState : s = Count(text)
  BY <1>1
<1>4. PICK f : IsScan(f, s, one) /\ advance_brace_state(s, one) = f[Len(one)]
  BY ScanWalk
<1>5. advance_brace_state(s, one) = AdvanceCharacter(s, ch)
  <2>1. f[0] = s /\ \A i \in 1 .. Len(one) : f[i] = AdvanceCharacter(f[i - 1], one[i])
    BY <1>4 DEF IsScan
  <2>2. 1 \in 1 .. Len(one) /\ 1 - 1 = 0
    BY <1>2
  <2>3. f[1] = AdvanceCharacter(f[0], one[1])
    BY <2>1, <2>2
  <2> QED
    BY <1>2, <1>4, <2>1, <2>3
<1>6. Append(text, ch) = text \o one
  BY <1>2
<1>7. advance_brace_state(Balanced, text \o one)
        = advance_brace_state(advance_brace_state(Balanced, text), one)
  BY <1>1, ScanConcat
<1> QED
  BY <1>1, <1>3, <1>5, <1>6, <1>7 DEF Count

-----------------------------------------------------------------------------
(* What a text may begin its body with.                                    *)
Openers == {"{", "[", "quote"}

NoOpener(text) == \A m \in 1 .. Len(text) : text[m] \notin Openers

(* A body and the text of its lines: in both the JSON has not begun, or in *)
(* both it is open at the same depth, or the scan for it has come to its   *)
(* end.                                                                    *)
Unstarted(body, text) ==
  /\ \A m \in 4 .. Len(body) : body[m] \notin Brackets
  /\ NoOpener(text)
  /\ Count(text) = Balanced

Within(body, text) ==
  \E k \in Nat : \E f :
    /\ IsJson(f, body, k) /\ Ends(f, body, k) = {}
    /\ Inside(f[Len(body)]) /\ Alike(Count(text), f[Len(body)])

Lockstep(body, text) ==
  /\ Framed(body) /\ text \in Seq(Character)
  /\ Unstarted(body, text) \/ Within(body, text) \/ Found(body)

(* A scan that goes on is at its end or not.                               *)
LEMMA OneMoreScanned ==
  ASSUME NEW body, Framed(body), NEW text, NEW k \in Nat, NEW f,
         IsJson(f, body, k), Ends(f, body, k) = {}, NEW ch \in Character,
         NEW more, more = Append(body, ch),
         JsonScan(f[Len(body)], ch).depth \in Nat,
         Alike(Count(text), JsonScan(f[Len(body)], ch))
  PROVE  Within(more, text) \/ Found(more)
<1>1. PICK n \in Nat : n = Len(body) /\ Len(more) = n + 1
  BY FramedGrows DEF Framed
<1>2. PICK g : ScansOneMore(g, f, body, ch, more, k)
  BY JsonGrows DEF Longer
<1>3. /\ IsJson(g, more, k) /\ \A m \in k .. n : g[m] = f[m]
      /\ g[n + 1] = JsonScan(f[n], ch)
  BY <1>1, <1>2 DEF ScansOneMore
<1>4. PICK d \in Nat : d = g[n + 1].depth
  BY <1>1, <1>3
<1>5. /\ Ends(g, more, k) = {m \in k .. n + 1 : g[m].depth = 0}
      /\ \A m \in k .. n : g[m].depth # 0
  <2>1. \A m \in k .. n : f[m].depth # 0
    BY <1>1 DEF Ends
  <2> QED
    BY <1>1, <1>3, <2>1 DEF Ends
<1>6. k \in 4 .. n
  BY <1>1 DEF IsJson
<1>7. CASE d = 0
  <2>1. n + 1 \in k .. n + 1
    BY <1>6
  <2>2. n + 1 \in Ends(g, more, k)
    BY <1>4, <1>5, <1>7, <2>1
  <2> QED
    BY <1>3, <2>2 DEF Found
<1>8. CASE d # 0
  <2>1. \A m \in k .. n + 1 : m \in k .. n \/ m = n + 1
    OBVIOUS
  <2>2. Ends(g, more, k) = {}
    BY <1>4, <1>5, <1>8, <2>1
  <2>3. Inside(g[Len(more)])
    BY <1>1, <1>4, <1>8 DEF Inside
  <2>4. Alike(Count(text), g[Len(more)])
    BY <1>1, <1>3
  <2> QED
    BY <1>3, <2>2, <2>3, <2>4 DEF Within
<1> QED
  BY <1>7, <1>8

(* The brace that opens the JSON.                                          *)
IsBrace(ch) == ch = "{"

(* With a brace, the JSON begins, in the counter as in the scan.           *)
LEMMA JsonStarts ==
  ASSUME NEW body, Framed(body), NEW text,
         \A m \in 4 .. Len(body) : body[m] \notin Brackets,
         NEW ch \in Character, IsBrace(ch), NEW more, more = Append(body, ch),
         Count(text) = AdvanceCharacter(Balanced, ch)
  PROVE  Within(more, text)
<1>1. PICK n \in Nat : n = Len(body) /\ n >= 3
  BY DEF Framed
<1>2. /\ Framed(more) /\ Len(more) = n + 1 /\ more[n + 1] = ch
      /\ \A m \in 1 .. n : more[m] = body[m]
  BY <1>1, FramedGrows
<1> DEFINE h == JsonScan(Outside, ch)
           g == [m \in n .. n + 1 |-> IF m = n + 1 THEN h ELSE Outside]
<1>3. Outside \in JsonState
  BY DEF Outside, JsonState
<1>4. h = [depth |-> 1, in_string |-> FALSE, escape_next |-> FALSE]
  <2>1. h = [Outside EXCEPT !.depth = Outside.depth + 1]
    BY DEF JsonScan, Scan, Outside, IsBrace
  <2> HIDE DEF h
  <2>2. h = [Outside EXCEPT !.depth = 1]
    <3>1. PICK d \in Nat : d = 0
      OBVIOUS
    <3>2. Outside.depth = d /\ d + 1 = 1
      BY <3>1 DEF Outside
    <3> QED
      BY ONLY <2>1, <3>2
  <2> QED
    BY <2>2 DEF Outside
<1>5. AdvanceCharacter(Balanced, ch)
        = [depth |-> 1, in_string |-> FALSE, escape_pending |-> FALSE,
           ever_opened |-> TRUE]
  <2>1. AdvanceCharacter(Balanced, ch)
          = [[Balanced EXCEPT !.depth = Balanced.depth + 1]
               EXCEPT !.ever_opened = TRUE]
    BY DEF AdvanceCharacter, Balanced, IsBrace
  <2>2. Balanced.depth + 1 = 1
    <3>1. Balanced.depth = 0
      BY DEF Balanced
    <3> QED
      BY ONLY <3>1
  <2>3. AdvanceCharacter(Balanced, ch)
          = [[Balanced EXCEPT !.depth = 1] EXCEPT !.ever_opened = TRUE]
    BY <2>1, <2>2
  <2> QED
    BY <2>3 DEF Balanced
<1>6. h \in JsonState
  BY <1>3, JsonTyped
<1> HIDE DEF h

<1>7. PICK k \in Nat : k = n + 1 /\ k - 1 = n /\ k \in 4 .. n + 1
  BY <1>1
<1>8. /\ g[n] = Outside /\ g[n + 1] = h
      /\ g \in [n .. n + 1 -> JsonState]
  BY <1>3, <1>6
<1> HIDE DEF g
<1>9. Len(more) = k /\ n = k - 1 /\ g[k - 1] = Outside /\ g[k] = h
      /\ g \in [k - 1 .. Len(more) -> JsonState] /\ k \in 4 .. Len(more)
      /\ more[k] = ch
  BY <1>2, <1>7, <1>8
<1>10. \A m \in k .. Len(more) : g[m] = JsonScan(g[m - 1], more[m])
  <2>1. \A m \in k .. Len(more) : m = k
    BY <1>9
  <2>2. g[k] = JsonScan(g[k - 1], more[k])
    BY <1>9 DEF h
  <2> QED
    BY <2>1, <2>2
<1>11. \A m \in 4 .. k - 1 : more[m] \notin Brackets
  <2>1. \A m \in 4 .. n : m \in 1 .. n
    OBVIOUS
  <2> QED
    BY <1>1, <1>2, <1>7, <2>1
<1>12. IsJson(g, more, k)
  BY <1>9, <1>10, <1>11 DEF IsJson, IsBrace
<1>13. h.depth = 1
  BY <1>4
<1>14. Ends(g, more, k) = {}
  <2>1. \A m \in k .. Len(more) : m = k
    BY <1>9
  <2> QED
    BY <1>9, <1>13, <2>1 DEF Ends
<1>15. Inside(g[Len(more)])
  BY <1>9, <1>13 DEF Inside
<1>16. Alike(Count(text), g[Len(more)])
  <2>1. Alike(Count(text), h)
    BY <1>4, <1>5 DEF Alike
  <2> QED
    BY <1>9, <2>1
<1> QED
  BY <1>12, <1>14, <1>15, <1>16 DEF Within

(* Before the JSON nothing counts.                                         *)
LEMMA BeforeJson ==
  ASSUME NEW ch \in Character, ch \notin Openers
  PROVE  AdvanceCharacter(Balanced, ch) = Balanced
<1>1. Balanced.escape_pending = FALSE /\ Balanced.in_string = FALSE
      /\ Balanced.depth = 0
  BY DEF Balanced
<1>2. CASE ch = "}"
  <2>1. AdvanceCharacter(Balanced, ch) = [Balanced EXCEPT !.depth = 0]
    BY <1>1, <1>2 DEF AdvanceCharacter
  <2> QED
    BY <2>1 DEF Balanced
<1>3. CASE ch # "}"
  BY <1>1, <1>3 DEF AdvanceCharacter, Openers
<1> QED
  BY <1>2, <1>3

(* A line break counts for neither, unless it is escaped.                  *)
LEMMA BreakStep ==
  ASSUME NEW g \in JsonState, g.escape_next = FALSE
  PROVE  JsonScan(g, "other") = g
BY DEF JsonScan, Scan

(* The first character of the text that counts is a brace.                 *)
FirstIsBrace(text) ==
  \A m \in 1 .. Len(text) :
    /\ text[m] \in Openers
    /\ \A l \in 1 .. m - 1 : text[l] \notin Openers
    => IsBrace(text[m])

(* A character that opens nothing leaves the text as it was; the one that  *)
(* opens it is a brace.                                                    *)
LEMMA NoOpenerGrows ==
  ASSUME NEW text \in Seq(Character), NEW ch \in Character
  PROVE  /\ NoOpener(text) /\ ch \notin Openers => NoOpener(Append(text, ch))
         /\ NoOpener(text) /\ ch \in Openers /\ FirstIsBrace(Append(text, ch))
              => IsBrace(ch)
<1>1. PICK n \in Nat : n = Len(text)
  OBVIOUS
<1>2. PICK more : more = Append(text, ch)
  OBVIOUS
<1>3. /\ Len(more) = n + 1 /\ more[n + 1] = ch
      /\ \A m \in 1 .. n : more[m] = text[m]
  BY <1>1, <1>2
<1>4. ASSUME NoOpener(text), ch \notin Openers PROVE NoOpener(more)
  <2>1. \A m \in 1 .. n + 1 : m \in 1 .. n \/ m = n + 1
    OBVIOUS
  <2> QED
    BY <1>1, <1>3, <1>4, <2>1 DEF NoOpener
<1>5. ASSUME NoOpener(text), ch \in Openers, FirstIsBrace(more)
      PROVE  IsBrace(ch)
  <2>1. n + 1 \in 1 .. Len(more) /\ (n + 1) - 1 = n
    BY <1>3
  <2>2. \A l \in 1 .. n : more[l] \notin Openers
    BY <1>1, <1>3, <1>5 DEF NoOpener
  <2> QED
    BY <1>3, <1>5, <2>1, <2>2 DEF FirstIsBrace
<1> QED
  BY <1>2, <1>4, <1>5

(* A character of a line keeps them together.                              *)
LEMMA LockstepText ==
  ASSUME NEW body, NEW text, Lockstep(body, text), NEW ch \in Character,
         FirstIsBrace(Append(text, ch))
  PROVE  Lockstep(Append(body, ch), Append(text, ch))
<1>1. Framed(body) /\ text \in Seq(Character)
  BY DEF Lockstep
<1>2. PICK more : more = Append(body, ch)
  OBVIOUS
<1>3. PICK longer \in Seq(Character) : longer = Append(text, ch)
  <2>1. Append(text, ch) \in Seq(Character)
    BY <1>1
  <2> QED
    BY <2>1
<1>4. /\ Framed(more) /\ Len(more) = Len(body) + 1
      /\ more[Len(body) + 1] = ch
      /\ \A m \in 1 .. Len(body) : more[m] = body[m]
  BY <1>1, <1>2, FramedGrows
<1>5. Count(text) \in BraceState /\ Count(longer) = AdvanceCharacter(Count(text), ch)
  BY <1>1, <1>3, CountGrows
<1>6. CASE Found(body)
  <2>1. Found(more)
    BY <1>1, <1>2, <1>6, FoundStays
  <2> QED
    BY <1>2, <1>3, <1>4, <2>1 DEF Lockstep
<1>7. CASE Within(body, text)
  <2> PICK k \in Nat : \E f :
         /\ IsJson(f, body, k) /\ Ends(f, body, k) = {}
         /\ Inside(f[Len(body)]) /\ Alike(Count(text), f[Len(body)])
    BY <1>7 DEF Within
  <2>1. PICK f :
          /\ IsJson(f, body, k) /\ Ends(f, body, k) = {}
          /\ Inside(f[Len(body)]) /\ Alike(Count(text), f[Len(body)])
    OBVIOUS
  <2>2. f[Len(body)] \in JsonState
    <3>1. PICK n \in Nat : n = Len(body)
      BY <1>1 DEF Framed
    <3>2. k \in 4 .. n
      BY <2>1, <3>1 DEF IsJson
    <3>3. n \in k - 1 .. n
      BY <3>2
    <3>4. f \in [k - 1 .. n -> JsonState]
      BY <2>1, <3>1 DEF IsJson
    <3> QED
      BY <3>1, <3>3, <3>4
  <2>3. /\ Alike(AdvanceCharacter(Count(text), ch), JsonScan(f[Len(body)], ch))
        /\ JsonScan(f[Len(body)], ch).depth \in Nat
    BY <1>5, <2>1, <2>2, AlikeStep
  <2>4. Alike(Count(longer), JsonScan(f[Len(body)], ch))
    BY <1>5, <2>3
  <2>5. Within(more, longer) \/ Found(more)
    BY <1>1, <1>2, <2>1, <2>3, <2>4, OneMoreScanned
  <2> QED
    BY <1>2, <1>3, <1>4, <2>5 DEF Lockstep
<1>8. CASE Unstarted(body, text)
  <2>1. /\ \A m \in 4 .. Len(body) : body[m] \notin Brackets
        /\ NoOpener(text) /\ Count(text) = Balanced
    BY <1>8 DEF Unstarted
  <2>2. CASE ch \in Openers
    <3>1. IsBrace(ch)
      BY <1>1, <2>1, <2>2, NoOpenerGrows
    <3>2. Count(longer) = AdvanceCharacter(Balanced, ch)
      BY <1>5, <2>1
    <3>3. Within(more, longer)
      BY <1>1, <1>2, <2>1, <3>1, <3>2, JsonStarts
    <3> QED
      BY <1>2, <1>3, <1>4, <3>3 DEF Lockstep
  <2>3. CASE ch \notin Openers
    <3>1. NoOpener(longer)
      BY <1>1, <1>3, <2>1, <2>3, NoOpenerGrows
    <3>2. Count(longer) = Balanced
      BY <1>5, <2>1, <2>3, BeforeJson
    <3>3. \A m \in 4 .. Len(more) : more[m] \notin Brackets
      <4>1. PICK n \in Nat : n = Len(body)
        BY <1>1 DEF Framed
      <4>2. \A m \in 4 .. n + 1 : m = n + 1 \/ (m \in 4 .. n /\ m \in 1 .. n)
        OBVIOUS
      <4>3. ch \notin Brackets
        BY <2>3 DEF Openers, Brackets
      <4> QED
        BY <1>4, <2>1, <4>1, <4>2, <4>3
    <3>4. Unstarted(more, longer)
      BY <3>1, <3>2, <3>3 DEF Unstarted
    <3> QED
      BY <1>2, <1>3, <1>4, <3>4 DEF Lockstep
  <2> QED
    BY <2>2, <2>3
<1> QED
  BY <1>6, <1>7, <1>8 DEF Lockstep

(* So does the line break between two lines.                               *)
LEMMA LockstepBreak ==
  ASSUME NEW body, NEW text, Lockstep(body, text),
         Count(text).escape_pending = FALSE
  PROVE  Lockstep(Append(body, "other"), text)
<1>1. Framed(body) /\ text \in Seq(Character)
  BY DEF Lockstep
<1>2. PICK ch \in Character : ch = "other"
  BY DEF Character
<1>3. PICK more : more = Append(body, ch)
  OBVIOUS
<1>4. /\ Framed(more) /\ Len(more) = Len(body) + 1
      /\ more[Len(body) + 1] = ch
      /\ \A m \in 1 .. Len(body) : more[m] = body[m]
  BY <1>1, <1>3, FramedGrows
<1>5. CASE Found(body)
  <2>1. Found(more)
    BY <1>1, <1>3, <1>5, FoundStays
  <2> QED
    BY <1>1, <1>2, <1>3, <1>4, <2>1 DEF Lockstep
<1>6. CASE Within(body, text)
  <2> PICK k \in Nat : \E f :
         /\ IsJson(f, body, k) /\ Ends(f, body, k) = {}
         /\ Inside(f[Len(body)]) /\ Alike(Count(text), f[Len(body)])
    BY <1>6 DEF Within
  <2>1. PICK f :
          /\ IsJson(f, body, k) /\ Ends(f, body, k) = {}
          /\ Inside(f[Len(body)]) /\ Alike(Count(text), f[Len(body)])
    OBVIOUS
  <2>2. f[Len(body)] \in JsonState /\ f[Len(body)].depth \in Nat
    <3>1. PICK n \in Nat : n = Len(body)
      BY <1>1 DEF Framed
    <3>2. k \in 4 .. n
      BY <2>1, <3>1 DEF IsJson
    <3>3. n \in k - 1 .. n
      BY <3>2
    <3>4. f \in [k - 1 .. n -> JsonState]
      BY <2>1, <3>1 DEF IsJson
    <3>5. PICK g \in JsonState : g = f[n]
      BY <3>3, <3>4
    <3>6. Inside(g)
      BY <2>1, <3>1, <3>5
    <3>7. g.depth \in Nat
      BY <3>6 DEF Inside, JsonState
    <3> QED
      BY <3>1, <3>5, <3>7
  <2>3. f[Len(body)].escape_next = FALSE
    BY <2>1 DEF Alike
  <2>4. JsonScan(f[Len(body)], ch) = f[Len(body)]
    BY <1>2, <2>2, <2>3, BreakStep
  <2>5. /\ Alike(Count(text), JsonScan(f[Len(body)], ch))
        /\ JsonScan(f[Len(body)], ch).depth \in Nat
    BY <2>1, <2>2, <2>4
  <2>6. Within(more, text) \/ Found(more)
    BY <1>1, <1>3, <2>1, <2>5, OneMoreScanned
  <2> QED
    BY <1>1, <1>2, <1>3, <1>4, <2>6 DEF Lockstep
<1>7. CASE Unstarted(body, text)
  <2>1. /\ \A m \in 4 .. Len(body) : body[m] \notin Brackets
        /\ NoOpener(text) /\ Count(text) = Balanced
    BY <1>7 DEF Unstarted
  <2>2. \A m \in 4 .. Len(more) : more[m] \notin Brackets
    <3>1. PICK n \in Nat : n = Len(body)
      BY <1>1 DEF Framed
    <3>2. \A m \in 4 .. n + 1 : m = n + 1 \/ (m \in 4 .. n /\ m \in 1 .. n)
      OBVIOUS
    <3>3. ch \notin Brackets
      BY <1>2 DEF Brackets
    <3> QED
      BY <1>4, <2>1, <3>1, <3>2, <3>3
  <2>3. Unstarted(more, text)
    BY <2>1, <2>2 DEF Unstarted
  <2> QED
    BY <1>1, <1>2, <1>3, <1>4, <2>3 DEF Lockstep
<1> QED
  BY <1>5, <1>6, <1>7 DEF Lockstep

-----------------------------------------------------------------------------
(* The first characters of a text grow from nothing to the text, one at a  *)
(* time.                                                                   *)
LEMMA Parts ==
  ASSUME NEW text \in Seq(Character)
  PROVE  /\ FirstPart(text, 0) = <<>>
         /\ FirstPart(text, Len(text)) = text
         /\ \A n \in 0 .. Len(text) :
              /\ FirstPart(text, n) \in Seq(Character)
              /\ Len(FirstPart(text, n)) = n
         /\ \A n \in 1 .. Len(text) :
              FirstPart(text, n) = Append(FirstPart(text, n - 1), text[n])
BY PartsOf

(* What is true of the first character that counts is true of it in the    *)
(* beginning of the text.                                                  *)
LEMMA FirstOfPart ==
  ASSUME NEW a \in Seq(Character), NEW b \in Seq(Character),
         Len(a) <= Len(b), \A i \in 1 .. Len(a) : b[i] = a[i],
         FirstIsBrace(b)
  PROVE  FirstIsBrace(a)
<1>1. /\ \A i \in 1 .. Len(a) : i \in 1 .. Len(b)
      /\ \A i \in 1 .. Len(a) : \A l \in 1 .. i - 1 : l \in 1 .. Len(a)
  OBVIOUS
<1> QED
  BY <1>1 DEF FirstIsBrace

(* A character put behind the second of two texts is behind both.          *)
LEMMA Associative ==
  ASSUME NEW a \in Seq(Character), NEW b \in Seq(Character),
         NEW ch \in Character
  PROVE  a \o Append(b, ch) = Append(a \o b, ch)
OBVIOUS

(* The two between lines, where no escape is left open; a line that leaves *)
(* none open; the body with a line more; JSON that stays what it was.      *)
BetweenLines(body, text) ==
  Lockstep(body, text) /\ Count(text).escape_pending = FALSE

EndsPlainly(line) == line # <<>> => line[Len(line)] # "backslash"

NextLine(body, line) == body \o (<<"other">> \o line)

JsonKept(body, more) ==
  Found(body) => /\ Found(more)
                 /\ extract_json_from_body(more) = extract_json_from_body(body)

(* A line, behind its line break, keeps the two together, and JSON that    *)
(* was whole before it stays what it was.                                  *)
LEMMA LockstepLine ==
  ASSUME NEW body, NEW text, NEW line \in Seq(Character),
         BetweenLines(body, text), EndsPlainly(line),
         FirstIsBrace(text \o line)
  PROVE  /\ BetweenLines(NextLine(body, line), text \o line)
         /\ JsonKept(body, NextLine(body, line))
<1>0. /\ Lockstep(body, text) /\ Count(text).escape_pending = FALSE
      /\ line # <<>> => line[Len(line)] # "backslash"
  BY DEF BetweenLines, EndsPlainly
<1> PICK more : more = NextLine(body, line)
  OBVIOUS
<1>16. more = body \o (<<"other">> \o line)
  BY DEF NextLine
<1>1. Framed(body) /\ body \in Seq(Character) /\ text \in Seq(Character)
  BY <1>0 DEF Lockstep, Framed
<1>2. PICK ch \in Character : ch = "other"
  BY DEF Character
<1>3. PICK start \in Seq(Character) : start = Append(body, ch)
  <2>1. Append(body, ch) \in Seq(Character)
    BY <1>1
  <2> QED
    BY <2>1
<1>4. more = start \o line
  <2>1. <<ch>> \o line \in Seq(Character) /\ body \o (<<ch>> \o line) = start \o line
    BY <1>1, <1>3
  <2> QED
    BY <1>16, <1>2, <2>1
<1>5. Lockstep(start, text)
  BY <1>0, <1>2, <1>3, LockstepBreak
<1>6. PICK n \in Nat : n = Len(line)
  OBVIOUS
<1> DEFINE Body(k) == start \o FirstPart(line, k)
           Text(k) == text \o FirstPart(line, k)
           T == {k \in 0 .. n :
                   /\ Lockstep(Body(k), Text(k))
                   /\ Found(body) =>
                        /\ Found(Body(k))
                        /\ extract_json_from_body(Body(k))
                             = extract_json_from_body(body)}
<1>7. /\ Body(0) = start /\ Text(0) = text
      /\ Body(n) = more /\ Text(n) = text \o line
  <2>1. FirstPart(line, 0) = <<>> /\ FirstPart(line, n) = line
    BY <1>6, Parts
  <2>2. start \o <<>> = start /\ text \o <<>> = text
    BY <1>1
  <2> QED
    BY <1>4, <2>1, <2>2
<1>8. ASSUME NEW k \in 1 .. n
      PROVE  /\ Body(k) = Append(Body(k - 1), line[k])
             /\ Text(k) = Append(Text(k - 1), line[k])
             /\ line[k] \in Character /\ Text(k - 1) \in Seq(Character)
  <2>1. k - 1 \in 0 .. n /\ line[k] \in Character
    BY <1>6
  <2>2. FirstPart(line, k - 1) \in Seq(Character)
        /\ FirstPart(line, k) = Append(FirstPart(line, k - 1), line[k])
    BY <1>6, <2>1, Parts
  <2>3. PICK p \in Seq(Character) : p = FirstPart(line, k - 1)
    BY <2>2
  <2>4. PICK c \in Character : c = line[k]
    BY <2>1
  <2>5. /\ start \o Append(p, c) = Append(start \o p, c)
        /\ text \o Append(p, c) = Append(text \o p, c)
    BY <1>1, Associative
  <2>6. text \o p \in Seq(Character)
    BY <1>1
  <2> QED
    BY <2>2, <2>3, <2>4, <2>5, <2>6
<1>9. \A k \in 0 .. n : FirstIsBrace(Text(k))
  <2> SUFFICES ASSUME NEW k \in 0 .. n PROVE FirstIsBrace(Text(k))
    OBVIOUS
  <2>1. PICK p \in Seq(Character) : p = FirstPart(line, k)
    BY <1>6, Parts
  <2>2. Len(p) = k /\ \A i \in 1 .. k : p[i] = line[i]
    <3>1. Len(p) = k
      BY <1>6, <2>1, Parts
    <3>2. \A i \in 1 .. k : i \in 1 .. n
      OBVIOUS
    <3> QED
      BY <1>6, <2>1, <3>1, <3>2 DEF FirstPart
  <2>3. PICK m \in Nat : m = Len(text)
    BY <1>1
  <2>4. /\ text \o p \in Seq(Character) /\ text \o line \in Seq(Character)
        /\ Len(text \o p) = m + k /\ Len(text \o line) = m + n
    <3>1. \A a, b \in Seq(Character) :
            a \o b \in Seq(Character) /\ Len(a \o b) = Len(a) + Len(b)
      OBVIOUS
    <3> QED
      BY <1>1, <1>6, <2>2, <2>3, <3>1
  <2>5. /\ \A i \in 1 .. m + k : (text \o p)[i]
             = IF i <= m THEN text[i] ELSE p[i - m]
        /\ \A i \in 1 .. m + n : (text \o line)[i]
             = IF i <= m THEN text[i] ELSE line[i - m]
    BY <1>1, <1>6, <2>2, <2>3
  <2>6. \A i \in 1 .. m + k : i \in 1 .. m + n /\ (~(i <= m) => i - m \in 1 .. k)
    BY <2>3
  <2>7. \A i \in 1 .. m + k : (text \o line)[i] = (text \o p)[i]
    BY <2>2, <2>5, <2>6
  <2>8. m + k <= m + n
    BY <2>3
  <2>9. FirstIsBrace(text \o p)
    BY <2>4, <2>7, <2>8, FirstOfPart
  <2> QED
    BY <2>1, <2>9
<1> HIDE DEF Body, Text
<1>10. 0 \in T
  <2>1. Found(body) => /\ Found(start)
                       /\ extract_json_from_body(start)
                            = extract_json_from_body(body)
    BY <1>1, <1>3, FoundStays
  <2>2. 0 \in 0 .. n
    OBVIOUS
  <2> QED
    BY <1>5, <1>7, <2>1, <2>2
<1>11. ASSUME NEW k \in 1 .. n, k - 1 \in T PROVE k \in T
  <2>1. /\ Lockstep(Body(k - 1), Text(k - 1))
        /\ Found(body) =>
             /\ Found(Body(k - 1))
             /\ extract_json_from_body(Body(k - 1))
                  = extract_json_from_body(body)
    BY <1>11
  <2>2. /\ Body(k) = Append(Body(k - 1), line[k])
        /\ Text(k) = Append(Text(k - 1), line[k]) /\ line[k] \in Character
    BY <1>8
  <2>3. k \in 0 .. n
    OBVIOUS
  <2>4. FirstIsBrace(Append(Text(k - 1), line[k]))
    BY <1>9, <2>2, <2>3
  <2>5. Lockstep(Body(k), Text(k))
    BY <2>1, <2>2, <2>4, LockstepText
  <2>6. Framed(Body(k - 1))
    BY <2>1 DEF Lockstep
  <2>7. Found(body) => /\ Found(Body(k))
                       /\ extract_json_from_body(Body(k))
                            = extract_json_from_body(body)
    BY <2>1, <2>2, <2>6, FoundStays
  <2> QED
    BY <2>3, <2>5, <2>7
<1> HIDE DEF T
<1>12. 0 .. n \subseteq T
  BY <1>10, <1>11, InductionUpTo
<1>13. n \in T
  BY <1>12
<1>14. Count(text \o line).escape_pending = FALSE
  <2>1. CASE n = 0
    <3>1. Text(n) = text
      BY <1>7, <2>1
    <3> QED
      BY <1>0, <1>7, <3>1
  <2>2. CASE n # 0
    <3>1. n \in 1 .. n /\ line # <<>>
      BY <1>6, <2>2
    <3>2. /\ Text(n) = Append(Text(n - 1), line[n]) /\ line[n] \in Character
          /\ Text(n - 1) \in Seq(Character)
      BY <1>8, <3>1
    <3>3. line[n] # "backslash"
      BY <1>0, <1>6, <3>1
    <3>4. /\ Count(Text(n - 1)) \in BraceState
          /\ Count(Text(n)) = AdvanceCharacter(Count(Text(n - 1)), line[n])
      BY <3>2, CountGrows
    <3>5. Count(Text(n)).escape_pending = FALSE
      BY <3>2, <3>3, <3>4, PendingStep
    <3> QED
      BY <1>7, <3>5
  <2> QED
    BY <2>1, <2>2
<1>15. /\ Lockstep(more, text \o line)
       /\ Found(body) => /\ Found(more)
                         /\ extract_json_from_body(more)
                              = extract_json_from_body(body)
  BY <1>7, <1>13 DEF T
<1> QED
  BY <1>14, <1>15 DEF BetweenLines, JsonKept

-----------------------------------------------------------------------------
(* The body as the parsers see it: the header, then line by line, each     *)
(* behind its line break.                                                  *)
LEMMA BodyOfFacts ==
  ASSUME NEW in, NEW i \in Nat, NEW j \in Nat, i <= j, LinesOnly(in, i, j),
         in[i].text \in Seq(Character)
  PROVE  /\ BodyOf(in, i, i) = <<"[", "other", "]">> \o in[i].text
         /\ BodyOf(in, i, j) \in Seq(Character)
         /\ j > i => /\ BodyOf(in, i, j) = BodyOf(in, i, j - 1)
                                             \o (<<"other">> \o in[j].text)
                     /\ in[j].text \in Seq(Character)
<1> DEFINE Broken(l) == [k \in i + 1 .. l |-> BrokenBefore(in[k])]
           header == <<"[", "other", "]">> \o in[i].text
<1>1. \A l : BodyOf(in, i, l) = header \o BodyText(Broken(l), i, l)
  BY DEF BodyOf
<1>2. header \in Seq(Character)
  <2>1. PICK a \in Character, b \in Character, c \in Character :
          a = "[" /\ b = "other" /\ c = "]"
    BY DEF Character
  <2>2. PICK h \in Seq(Character) : h = <<a, b, c>>
    <3>1. <<a, b, c>> \in Seq(Character)
      OBVIOUS
    <3> QED
      BY <3>1
  <2>3. header = h \o in[i].text
    BY <2>1, <2>2
  <2> HIDE DEF header
  <2> QED
    BY <2>2, <2>3
<1> HIDE DEF header
<1>3. \A a \in Seq(Character) : <<"other">> \o a \in Seq(Character)
  <2>1. PICK c \in Character : c = "other"
    BY DEF Character
  <2>2. \A a \in Seq(Character) : <<c>> \o a \in Seq(Character)
    OBVIOUS
  <2> QED
    BY <2>1, <2>2
<1>4. ASSUME NEW k \in i + 1 .. j
      PROVE  /\ BrokenBefore(in[k]) \in Line
             /\ BrokenBefore(in[k]).text = <<"other">> \o in[k].text
             /\ in[k].text \in Seq(Character)
  <2>1. in[k] \in Line /\ in[k].text \in Seq(Character)
    BY DEF LinesOnly, Line
  <2>2. PICK t \in Seq(Character) : t = <<"other">> \o in[k].text
    BY <1>3, <2>1
  <2>3. BrokenBefore(in[k]) = [in[k] EXCEPT !.text = t]
    BY <2>2 DEF BrokenBefore
  <2>4. BrokenBefore(in[k]) \in Line /\ BrokenBefore(in[k]).text = t
    BY <2>1, <2>3 DEF Line
  <2> QED
    BY <2>1, <2>2, <2>4
<1>5. ASSUME NEW l \in i .. j PROVE LinesOnly(Broken(l), i, l)
  <2>1. \A k \in i + 1 .. l : k \in i + 1 .. j
    OBVIOUS
  <2> QED
    BY <1>4, <2>1 DEF LinesOnly
<1>6. ASSUME NEW l \in i .. j PROVE BodyText(Broken(l), i, l) \in Seq(Character)
  <2>1. l \in Nat /\ i <= l
    OBVIOUS
  <2> HIDE DEF Broken
  <2> QED
    BY <1>5, <2>1, BodyFacts
<1>7. BodyOf(in, i, i) = header
  <2>1. i \in i .. j /\ i <= i
    OBVIOUS
  <2>2. LinesOnly(Broken(i), i, i)
    BY <1>5, <2>1
  <2>3. BodyText(Broken(i), i, i) = <<>>
    <3> HIDE DEF Broken
    <3> QED
      BY <2>1, <2>2, BodyFacts
  <2>4. header \o <<>> = header
    BY <1>2
  <2> QED
    BY <1>1, <2>3, <2>4
<1>8. BodyOf(in, i, j) \in Seq(Character)
  <2>1. j \in i .. j
    OBVIOUS
  <2>2. PICK b \in Seq(Character) : b = BodyText(Broken(j), i, j)
    BY <1>6, <2>1
  <2>3. header \o b \in Seq(Character)
    BY <1>2
  <2> QED
    BY <1>1, <2>2, <2>3
<1>9. ASSUME j > i
      PROVE  /\ BodyOf(in, i, j) = BodyOf(in, i, j - 1)
                                     \o (<<"other">> \o in[j].text)
             /\ in[j].text \in Seq(Character)
  <2>1. j \in i .. j /\ j - 1 \in i .. j /\ j \in i + 1 .. j /\ j - 1 \in Nat
    BY <1>9
  <2>2. PICK here : here = Broken(j)
    OBVIOUS
  <2>3. PICK before : before = Broken(j - 1)
    OBVIOUS
  <2>4. LinesOnly(here, i, j) /\ LinesOnly(before, i, j - 1)
    BY <1>5, <2>1, <2>2, <2>3
  <2>5. /\ here[j].text = <<"other">> \o in[j].text
        /\ \A k \in i + 1 .. j - 1 : here[k] = before[k]
    <3>1. here[j] = BrokenBefore(in[j])
      BY <2>1, <2>2
    <3>2. \A k \in i + 1 .. j - 1 : k \in i + 1 .. j
      BY <2>1
    <3> QED
      BY <1>4, <2>1, <2>2, <2>3, <3>1, <3>2
  <2>6. BodyText(here, i, j) = BodyText(here, i, j - 1) \o here[j].text
    BY <1>9, <2>4, BodyFacts
  <2>7. BodyText(here, i, j - 1) = BodyText(before, i, j - 1)
    <3>1. i <= j - 1
      BY <1>9
    <3>2. \A other : (\A k \in i + 1 .. j - 1 : other[k] = before[k]) =>
             BodyText(other, i, j - 1) = BodyText(before, i, j - 1)
      BY <2>1, <2>4, <3>1, BodyFacts
    <3> QED
      BY <2>5, <3>2
  <2>8. PICK b \in Seq(Character) : b = BodyText(before, i, j - 1)
    BY <1>6, <2>1, <2>3
  <2>9. PICK t \in Seq(Character) : t = <<"other">> \o in[j].text
    BY <1>3, <1>4, <2>1
  <2>10. BodyText(here, i, j) = b \o t
    BY <2>5, <2>6, <2>7, <2>8, <2>9
  <2>11. BodyOf(in, i, j) = header \o (b \o t)
    BY <1>1, <2>2, <2>10
  <2>12. BodyOf(in, i, j - 1) = header \o b
    BY <1>1, <2>3, <2>8
  <2>13. header \o (b \o t) = (header \o b) \o t
    BY <1>2
  <2> QED
    BY <1>4, <2>1, <2>9, <2>11, <2>12, <2>13
<1> QED
  BY <1>7, <1>8, <1>9 DEF header

(* What Arena writes: the first character that counts is a brace.          *)
BeginsWithObject(text) ==
  LET first == find(text, 1, {"{", "[", "quote"})
  IN  first # 0 => text[first] = "{"

(* Wherever such a character is the first, it is a brace.                  *)
LEMMA FirstFound ==
  ASSUME NEW text \in Seq(Character), BeginsWithObject(text)
  PROVE  FirstIsBrace(text)
<1>1. ASSUME NEW m \in 1 .. Len(text), text[m] \in Openers,
             \A l \in 1 .. m - 1 : text[l] \notin Openers
      PROVE  IsBrace(text[m])
  <2>1. find(text, 1, Openers) = m
    BY <1>1, FindIs
  <2>2. find(text, 1, {"{", "[", "quote"}) = m
    BY <2>1 DEF Openers
  <2>3. m # 0
    BY <1>1
  <2> QED
    BY <2>2, <2>3 DEF IsBrace, BeginsWithObject
<1> QED
  BY <1>1 DEF FirstIsBrace

(* The header line of an entry, on which MTG Arena writes no JSON.         *)
LEMMA LockstepHeader ==
  ASSUME NEW text \in Seq(Character), find(text, 1, Brackets) = 0,
         NEW body, body = <<"[", "other", "]">> \o text
  PROVE  Lockstep(body, <<>>) /\ Count(<<>>).escape_pending = FALSE
<1>1. PICK a \in Character, b \in Character, c \in Character :
        a = "[" /\ b = "other" /\ c = "]"
  BY DEF Character
<1>2. PICK n \in Nat : n = Len(text)
  OBVIOUS
<1>3. PICK more \in Seq(Character) : more = <<a, b, c>> \o text
  <2>1. <<a, b, c>> \o text \in Seq(Character)
    OBVIOUS
  <2> QED
    BY <2>1
<1>4. body = more
  BY <1>1, <1>3
<1>5. /\ Len(more) = n + 3 /\ more[1] = a /\ more[2] = b /\ more[3] = c
      /\ \A m \in 4 .. n + 3 : more[m] = text[m - 3]
  <2>1. PICK h \in Seq(Character) :
          h = <<a, b, c>> /\ Len(h) = 3 /\ h[1] = a /\ h[2] = b /\ h[3] = c
    <3>1. <<a, b, c>> \in Seq(Character) /\ Len(<<a, b, c>>) = 3
      OBVIOUS
    <3> QED
      BY <3>1
  <2>2. more = h \o text
    BY <1>3, <2>1
  <2> QED
    BY <1>2, <2>1, <2>2
<1>6. Framed(body)
  <2>1. Len(more) >= 3
    BY <1>5
  <2> QED
    BY <1>1, <1>3, <1>4, <1>5, <2>1 DEF Framed
<1>7. \A m \in 1 .. n : text[m] \notin Brackets
  <2> DEFINE places == {m \in 1 .. n : text[m] \in Brackets}
  <2>1. find(text, 1, Brackets)
          = IF places = {} THEN 0
            ELSE CHOOSE m \in places : \A l \in places : m <= l
    BY <1>2 DEF find
  <2>2. find(text, 1, Brackets) = 0
    OBVIOUS
  <2>3. \A m \in places : m \in Nat /\ m # 0
    OBVIOUS
  <2> HIDE DEF places
  <2>4. places = {}
    <3> SUFFICES ASSUME places # {} PROVE FALSE
      OBVIOUS
    <3>1. \E m \in places : \A l \in places : m <= l
      BY <2>3, Least
    <3>2. (CHOOSE m \in places : \A l \in places : m <= l) \in places
      BY <3>1
    <3> QED
      BY <2>1, <2>2, <2>3, <3>2
  <2> QED
    BY <2>4 DEF places
<1>8. \A m \in 4 .. Len(body) : body[m] \notin Brackets
  <2>1. \A m \in 4 .. n + 3 : m - 3 \in 1 .. n
    OBVIOUS
  <2> QED
    BY <1>4, <1>5, <1>7, <2>1
<1>9. <<>> \in Seq(Character) /\ Len(<<>>) = 0 /\ NoOpener(<<>>)
  BY DEF NoOpener
<1>10. Count(<<>>) = Balanced
  BY BalancedTyped, ScanNothing DEF Count
<1>11. Lockstep(body, <<>>)
  BY <1>6, <1>8, <1>9, <1>10 DEF Lockstep, Unstarted
<1>12. Balanced.escape_pending = FALSE
  BY DEF Balanced
<1> QED
  BY <1>10, <1>11, <1>12

(* Where the braces are balanced again the JSON is whole.                  *)
LEMMA CompleteFound ==
  ASSUME NEW body, NEW text, Lockstep(body, text),
         StructurallyComplete(Count(text))
  PROVE  Found(body)
<1>1. ~Unstarted(body, text)
  BY BalancedTyped DEF Unstarted
<1>2. ~Within(body, text)
  <2> SUFFICES ASSUME Within(body, text) PROVE FALSE
    OBVIOUS
  <2>1. PICK f : Inside(f[Len(body)]) /\ Alike(Count(text), f[Len(body)])
    BY DEF Within
  <2>2. PICK g : g = f[Len(body)]
    OBVIOUS
  <2>3. Count(text).depth = g.depth /\ Count(text).depth = 0
    BY <2>1, <2>2 DEF Alike, StructurallyComplete
  <2>4. g.depth > 0
    BY <2>1, <2>2 DEF Inside
  <2> QED
    BY <2>3, <2>4
<1> QED
  BY <1>1, <1>2 DEF Lockstep

(* The entry of a header, as MTG Arena writes it.                          *)
ArenaEntry(in, i) ==
  /\ in \in Seq(Calls) /\ i \in 1 .. Len(in) /\ in[i] \in Lines
  /\ WrittenByArena(in, i)

(* Its lines, and what is on them.                                         *)
LEMMA ArenaFacts ==
  ASSUME NEW in, NEW i, ArenaEntry(in, i), NEW e, e = Extent(in, i)
  PROVE  /\ i \in Nat /\ e \in Nat /\ i <= e /\ LinesOnly(in, i, e)
         /\ in[i].text \in Seq(Character)
         /\ find(in[i].text, 1, Brackets) = 0
         /\ BeginsWithObject(BodyText(in, i, e))
         /\ \A k \in i + 1 .. e :
              in[k].text # <<>> => in[k].text[Len(in[k].text)] # "backslash"
<1>1. /\ in \in Seq(Calls) /\ i \in 1 .. Len(in) /\ in[i] \in Lines
      /\ WrittenByArena(in, i)
  BY DEF ArenaEntry
<1>2. i \in Nat /\ e \in Nat /\ i <= e
  <2>1. e \in i .. Len(in) /\ i \in 1 .. Len(in) /\ Len(in) \in Nat
    BY <1>1, ExtentIs DEF IsExtent
  <2> QED
    BY <2>1
<1>3. LinesOnly(in, i, e)
  <2>1. e \in i .. Extent(in, i)
    BY <1>2
  <2> QED
    BY <1>1, <2>1, ExtentLines
<1>4. in[i].text \in Seq(Character)
  <2>1. in[i] \in Line
    BY <1>1, LinesAssumption
  <2> QED
    BY <2>1 DEF Line
<1>5. /\ find(in[i].text, 1, Brackets) = 0
      /\ BeginsWithObject(BodyText(in, i, e))
      /\ \A k \in i + 1 .. e :
           in[k].text # <<>> => in[k].text[Len(in[k].text)] # "backslash"
  BY <1>1 DEF WrittenByArena, BeginsWithObject, Brackets
<1> QED
  BY <1>2, <1>3, <1>4, <1>5

(* No beginning of its text has anything before a brace.                   *)
LEMMA FirstOfLines ==
  ASSUME NEW in, NEW i, ArenaEntry(in, i), NEW j \in i .. Extent(in, i)
  PROVE  FirstIsBrace(BodyText(in, i, j))
<1>1. PICK e : e = Extent(in, i)
  OBVIOUS
<1>2. /\ i \in Nat /\ e \in Nat /\ i <= e /\ LinesOnly(in, i, e)
      /\ BeginsWithObject(BodyText(in, i, e))
  BY <1>1, ArenaFacts
<1>3. PICK n \in Nat : n = e - i
  BY <1>2
<1> DEFINE T == {d \in 0 .. n : FirstIsBrace(BodyText(in, i, e - d))}
<1>4. 0 \in T
  <2>1. BodyText(in, i, e) \in Seq(Character)
    BY <1>2, BodyFacts
  <2>2. FirstIsBrace(BodyText(in, i, e))
    BY <1>2, <2>1, FirstFound
  <2>3. 0 \in 0 .. n /\ e - 0 = e
    BY <1>2
  <2> QED
    BY <2>2, <2>3
<1>5. ASSUME NEW d \in 1 .. n, d - 1 \in T PROVE d \in T
  <2>1. PICK l \in Nat : l = e - (d - 1)
    BY <1>2, <1>3
  <2>2. /\ l - 1 = e - d /\ l > i /\ i <= l /\ l <= e /\ d \in 0 .. n
        /\ l - 1 \in Nat /\ i <= l - 1
    BY <1>2, <1>3, <2>1
  <2>3. LinesOnly(in, i, l) /\ LinesOnly(in, i, l - 1)
    BY <1>2, <2>2 DEF LinesOnly
  <2>4. PICK t \in Seq(Character) : t = in[l].text
    <3>1. l \in i + 1 .. l
      BY <1>2, <2>2
    <3>2. in[l] \in Line
      BY <2>3, <3>1 DEF LinesOnly
    <3> QED
      BY <3>2 DEF Line
  <2>5. PICK a \in Seq(Character) : a = BodyText(in, i, l - 1)
    BY <1>2, <2>2, <2>3, BodyFacts
  <2>6. PICK b \in Seq(Character) : b = BodyText(in, i, l) /\ b = a \o t
    <3>1. /\ BodyText(in, i, l) \in Seq(Character)
          /\ l > i => BodyText(in, i, l) = BodyText(in, i, l - 1) \o in[l].text
      BY <1>2, <2>2, <2>3, BodyFacts
    <3> QED
      BY <2>2, <2>4, <2>5, <3>1
  <2>7. FirstIsBrace(b)
    BY <1>5, <2>1, <2>6
  <2>8. Len(a) <= Len(b) /\ \A m \in 1 .. Len(a) : b[m] = a[m]
    BY <2>6
  <2>9. FirstIsBrace(a)
    BY <2>7, <2>8, FirstOfPart
  <2> QED
    BY <2>2, <2>5, <2>9
<1> HIDE DEF T
<1>6. 0 .. n \subseteq T
  BY <1>4, <1>5, InductionUpTo
<1>7. e - j \in 0 .. n /\ e - (e - j) = j
  BY <1>1, <1>2, <1>3
<1> QED
  BY <1>6, <1>7 DEF T

(* Line by line the body and the text of an entry stay together, and JSON  *)
(* that is whole at one line is the JSON of every longer body.             *)
LEMMA EntryStep ==
  ASSUME NEW in, NEW i, ArenaEntry(in, i), NEW j \in Nat, NEW before \in Nat,
         before = j - 1, i < j, j <= Extent(in, i),
         BetweenLines(BodyOf(in, i, before), BodyText(in, i, before))
  PROVE  /\ BetweenLines(BodyOf(in, i, j), BodyText(in, i, j))
         /\ JsonKept(BodyOf(in, i, before), BodyOf(in, i, j))
<1>1. PICK e : e = Extent(in, i)
  OBVIOUS
<1>2. /\ i \in Nat /\ e \in Nat /\ i <= e /\ LinesOnly(in, i, e)
      /\ in[i].text \in Seq(Character)
      /\ \A k \in i + 1 .. e :
           in[k].text # <<>> => in[k].text[Len(in[k].text)] # "backslash"
  BY <1>1, ArenaFacts
<1>3. i <= j /\ j > i /\ j \in i + 1 .. e /\ j \in i .. e
  BY <1>1, <1>2
<1>4. LinesOnly(in, i, j)
  BY <1>2, <1>3 DEF LinesOnly
<1>5. /\ BodyOf(in, i, j) = NextLine(BodyOf(in, i, before), in[j].text)
      /\ in[j].text \in Seq(Character)
  <2>1. /\ BodyOf(in, i, j) = BodyOf(in, i, j - 1) \o (<<"other">> \o in[j].text)
        /\ in[j].text \in Seq(Character)
    BY <1>2, <1>3, <1>4, BodyOfFacts
  <2> QED
    BY <2>1 DEF NextLine
<1>6. BodyText(in, i, j) = BodyText(in, i, before) \o in[j].text
  BY <1>2, <1>3, <1>4, BodyFacts
<1>7. FirstIsBrace(BodyText(in, i, before) \o in[j].text)
  BY <1>1, <1>3, <1>6, FirstOfLines
<1>8. EndsPlainly(in[j].text)
  BY <1>2, <1>3 DEF EndsPlainly
<1> QED
  BY <1>5, <1>6, <1>7, <1>8, LockstepLine

(* From the header on, the two are together at every line.                 *)
LEMMA EntryScanned ==
  ASSUME NEW in, NEW i, ArenaEntry(in, i)
  PROVE  \A j \in i .. Extent(in, i) :
           BetweenLines(BodyOf(in, i, j), BodyText(in, i, j))
<1>1. PICK e : e = Extent(in, i)
  OBVIOUS
<1>2. /\ i \in Nat /\ e \in Nat /\ i <= e /\ LinesOnly(in, i, e)
      /\ in[i].text \in Seq(Character)
      /\ find(in[i].text, 1, Brackets) = 0
  BY <1>1, ArenaFacts
<1>3. PICK n \in Nat : n = e - i
  BY <1>2
<1> DEFINE Together(j) == BetweenLines(BodyOf(in, i, j), BodyText(in, i, j))
           T == {d \in 0 .. n : Together(i + d)}
<1>4. Together(i)
  <2>1. i <= i /\ LinesOnly(in, i, i)
    BY <1>2 DEF LinesOnly
  <2>2. BodyOf(in, i, i) = <<"[", "other", "]">> \o in[i].text
    BY <1>2, <2>1, BodyOfFacts
  <2>3. BodyText(in, i, i) = <<>>
    BY <1>2, <2>1, BodyFacts
  <2> QED
    BY <1>2, <2>2, <2>3, LockstepHeader DEF BetweenLines
<1>5. ASSUME NEW d \in 1 .. n, d - 1 \in T PROVE d \in T
  <2>1. PICK j \in Nat, before \in Nat : j = i + d /\ before = i + (d - 1)
    BY <1>2
  <2>2. before = j - 1 /\ i < j /\ j <= e /\ d \in 0 .. n
    BY <1>2, <1>3, <2>1
  <2>3. Together(before)
    BY <1>5, <2>1
  <2>4. Together(j)
    BY <1>1, <2>2, <2>3, EntryStep
  <2> QED
    BY <2>1, <2>2, <2>4
<1> HIDE DEF Together
<1>6. 0 \in T
  <2>1. 0 \in 0 .. n /\ i + 0 = i
    BY <1>2
  <2> QED
    BY <1>4, <2>1
<1> HIDE DEF T
<1>7. 0 .. n \subseteq T
  BY <1>5, <1>6, InductionUpTo
<1>8. ASSUME NEW j \in i .. e PROVE Together(j)
  <2>1. j - i \in 0 .. n /\ i + (j - i) = j
    BY <1>2, <1>3
  <2> QED
    BY <1>7, <2>1 DEF T
<1> QED
  BY <1>1, <1>8 DEF Together

(* JSON whole at one line is the JSON of the whole entry.                  *)
LEMMA JsonStays ==
  ASSUME NEW in, NEW i, ArenaEntry(in, i), NEW e, e = Extent(in, i),
         NEW j \in i .. e, Found(BodyOf(in, i, j))
  PROVE  extract_json_from_body(BodyOf(in, i, e))
           = extract_json_from_body(BodyOf(in, i, j))
<1>1. i \in Nat /\ e \in Nat /\ i <= e
  BY ArenaFacts
<1>2. j \in Nat /\ i <= j /\ j <= e
  BY <1>1
<1>3. PICK n \in Nat : n = e - j
  BY <1>1, <1>2
<1> DEFINE Same(l) ==
             /\ Found(BodyOf(in, i, l))
             /\ extract_json_from_body(BodyOf(in, i, l))
                  = extract_json_from_body(BodyOf(in, i, j))
           T == {d \in 0 .. n : Same(j + d)}
<1>4. Same(j)
  OBVIOUS
<1>5. ASSUME NEW d \in 1 .. n, d - 1 \in T PROVE d \in T
  <2>1. PICK l \in Nat, before \in Nat : l = j + d /\ before = j + (d - 1)
    BY <1>2
  <2>2. before = l - 1 /\ i < l /\ l <= e /\ d \in 0 .. n /\ before \in i .. e
    BY <1>1, <1>2, <1>3, <2>1
  <2>3. Same(before)
    BY <1>5, <2>1
  <2>4. BetweenLines(BodyOf(in, i, before), BodyText(in, i, before))
    BY <2>2, EntryScanned
  <2>5. JsonKept(BodyOf(in, i, before), BodyOf(in, i, l))
    BY <2>2, <2>4, EntryStep
  <2>6. Same(l)
    BY <2>3, <2>5 DEF JsonKept
  <2> QED
    BY <2>1, <2>2, <2>6
<1> HIDE DEF Same
<1>6. 0 \in T
  <2>1. 0 \in 0 .. n /\ j + 0 = j
    BY <1>2
  <2> QED
    BY <1>4, <2>1
<1> HIDE DEF T
<1>7. 0 .. n \subseteq T
  BY <1>5, <1>6, InductionUpTo
<1>8. n \in 0 .. n /\ j + n = e
  BY <1>1, <1>2, <1>3
<1> QED
  BY <1>7, <1>8 DEF T, Same

(* An entry that is out ends where the whole input says.                   *)
LEMMA LastLineOut ==
  ASSUME IInv, MatchOK, NEW k \in DOMAIN emitted
  PROVE  /\ emitted[k].lines[1] \in Out(input)
         /\ LastLine(emitted[k].lines) = LastOf(input, emitted[k].lines[1])
<1>1. /\ input \in Seq(Calls) /\ emitted \in Seq(Entry)
      /\ InOrder(input, emitted) /\ Matches(input, emitted, Open)
  BY DEF IInv, TypeOK, Calls, EntriesPartitionTheLog, MatchOK
<1>2. emitted[k].lines[1] \in Out(input)
  BY <1>1 DEF Matches
<1>3. PICK l \in DOMAIN emitted :
        /\ emitted[l].lines[1] = emitted[k].lines[1]
        /\ LastLine(emitted[l].lines) = LastOf(input, emitted[k].lines[1])
  BY <1>1, <1>2 DEF Matches, Emits
<1>4. l = k
  <2>1. emitted[k].lines[1] \in Nat
    BY <1>1, <1>2 DEF Out, Headers
  <2>2. k < l => emitted[k].lines[1] < emitted[l].lines[1]
    BY <1>1, FirstsIncrease
  <2>3. l < k => emitted[l].lines[1] < emitted[k].lines[1]
    BY <1>1, FirstsIncrease
  <2>4. k \in Nat /\ l \in Nat
    BY <1>1
  <2>5. ~(k < l) /\ ~(l < k)
    BY <1>3, <2>1, <2>2, <2>3
  <2> QED
    BY <2>4, <2>5
<1> QED
  BY <1>2, <1>3, <1>4

(* Whatever MTG Arena writes, an entry that the buffer gives out early     *)
(* holds a whole JSON object, and its parser finds what it would find if   *)
(* the buffer had waited for the next header.                              *)
THEOREM JsonHeld == Spec => []EntryHoldsItsJson
<1>1. IInv /\ MatchOK => EntryHoldsItsJson
  <2> SUFFICES ASSUME IInv, MatchOK, NEW k \in DOMAIN emitted,
                      IsMultiLine(input[emitted[k].lines[1]]),
                      WrittenByArena(input, emitted[k].lines[1])
               PROVE  LET i    == emitted[k].lines[1]
                          last == LastLine(emitted[k].lines)
                          json == extract_json_from_body(BodyOf(input, i, last))
                          whole == BodyOf(input, i, Extent(input, i))
                      IN  /\ json = extract_json_from_body(whole)
                          /\ last # Extent(input, i) => json # <<>>
    BY DEF EntryHoldsItsJson
  <2>1. PICK i : i = emitted[k].lines[1]
    OBVIOUS
  <2>2. PICK last : last = LastLine(emitted[k].lines)
    OBVIOUS
  <2>3. PICK e : e = Extent(input, i)
    OBVIOUS
  <2>4. i \in Out(input) /\ last = LastOf(input, i)
    BY <2>1, <2>2, LastLineOut
  <2>5. ArenaEntry(input, i)
    <3>1. input \in Seq(Calls)
      BY DEF IInv, TypeOK, Calls
    <3>2. i \in 1 .. Len(input) /\ IsLine(input[i])
      BY <2>4, <3>1 DEF Out, Headers
    <3>3. input[i] \in Calls
      BY <3>1, <3>2
    <3>4. input[i] \in Lines
      BY <3>2, <3>3 DEF Calls, IsLine
    <3> QED
      BY <2>1, <3>1, <3>2, <3>4 DEF ArenaEntry
  <2>6. last # e => last \in i .. e /\ Found(BodyOf(input, i, last))
    <3> SUFFICES ASSUME last # e
                 PROVE  last \in i .. e /\ Found(BodyOf(input, i, last))
      OBVIOUS
    <3>1. IsMultiLine(input[i])
      BY <2>1
    <3>2. CompleteAt(input, i) # {}
      BY <2>3, <2>4, <3>1 DEF LastOf
    <3>3. CompleteAt(input, i) \subseteq Nat
      <4>1. i \in Nat /\ e \in Nat
        BY <2>3, <2>5, ArenaFacts
      <4> QED
        BY <2>3, <4>1 DEF CompleteAt
    <3>4. last \in CompleteAt(input, i)
      <4>1. PICK first \in CompleteAt(input, i) :
              \A j \in CompleteAt(input, i) : first <= j
        BY <3>2, <3>3, Least
      <4>2. LastOf(input, i) = first
        BY <3>1, <3>3, <4>1, FirstComplete
      <4> QED
        BY <2>4, <4>1, <4>2
    <3>5. /\ last \in i + 1 .. e
          /\ StructurallyComplete(Count(BodyText(input, i, last)))
      BY <2>3, <3>4 DEF CompleteAt, Count
    <3>6. last \in i .. e
      <4>1. i \in Nat /\ e \in Nat
        BY <2>3, <2>5, ArenaFacts
      <4> QED
        BY <3>5, <4>1
    <3>7. Lockstep(BodyOf(input, i, last), BodyText(input, i, last))
      BY <2>3, <2>5, <3>6, EntryScanned DEF BetweenLines
    <3> QED
      BY <3>5, <3>6, <3>7, CompleteFound
  <2>7. CASE last = e
    BY <2>1, <2>2, <2>3, <2>7
  <2>8. CASE last # e
    <3>1. extract_json_from_body(BodyOf(input, i, e))
            = extract_json_from_body(BodyOf(input, i, last))
      BY <2>3, <2>5, <2>6, <2>8, JsonStays
    <3>2. Framed(BodyOf(input, i, last))
      BY <2>3, <2>5, <2>6, <2>8, EntryScanned DEF BetweenLines, Lockstep
    <3>3. extract_json_from_body(BodyOf(input, i, last)) # <<>>
      BY <2>6, <2>8, <3>2, FoundStays
    <3> QED
      BY <2>1, <2>2, <2>3, <3>1, <3>3
  <2> QED
    BY <2>7, <2>8
<1>2. Spec => []MatchOK
  BY MatchInit, MatchStep, Invariance, PTL DEF Spec
<1> QED
  BY <1>1, <1>2, Invariance, PTL
=============================================================================

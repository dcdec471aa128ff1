----------------------------- MODULE LineBuffer -----------------------------
(***************************************************************************)
(* The line buffer of log/entry.rs: it groups the lines of the log into    *)
(* entries.  A header line starts an entry; a single-line entry is emitted *)
(* at once, a multi-line one when its JSON body is structurally complete   *)
(* (brace_depth_flush) or when the next header arrives.                    *)
(*                                                                         *)
(* A line is its kind, the frame-counter prefixes it carries and, of its   *)
(* text, the characters the brace counter tells apart.                     *)
(***************************************************************************)
EXTENDS Integers, Sequences, FiniteSets

CONSTANTS
  Lines,            \* the lines the log may hold
  BraceDepthFlush,  \* the cargo feature brace_depth_flush
  MaxInput          \* calls made on the buffer, at most

LineKind == {"Metadata", "UnityDigit", "UnityOther", "ConnectionManager",
             "Matchmaking", "TruncationMarker", "Text"}

Character == {"{", "}", "[", "]", "quote", "backslash", "other"}

Line == [kind : LineKind, frames : Nat, text : Seq(Character)]

ASSUME LinesAssumption == Lines \subseteq Line
ASSUME FlagAssumption == BraceDepthFlush \in BOOLEAN /\ MaxInput \in Nat

VARIABLES
  input,           \* history: the calls so far, a line or a marker each
  current_header,  \* the kind of the entry in progress, "None" when idle
  lines,           \* its lines, by their place in the input
  brace_state,     \* how far its body is balanced
  emitted          \* history: the entries returned, in order

vars == <<input, current_header, lines, brace_state, emitted>>

-----------------------------------------------------------------------------
(* Classification of one line.                                             *)

(* At most one frame-counter prefix is stripped; a line that still has one *)
(* does not begin with a header.                                           *)
strip_frame_prefix(line) ==
  IF line.frames > 0 THEN [line EXCEPT !.frames = @ - 1] ELSE line

KindOf(line) ==
  LET stripped == strip_frame_prefix(line)
  IN  IF stripped.frames = 0 THEN stripped.kind ELSE "Text"

IsHeader(line) == KindOf(line) # "Text"

(* Mutant: the labels and requests of Unity accumulate, too.               *)
AllUnityMultiLine(line) ==
  KindOf(line) \in {"UnityDigit", "UnityOther", "TruncationMarker"}

IsMultiLine(line) == KindOf(line) \in {"UnityDigit", "TruncationMarker"}

-----------------------------------------------------------------------------
(* The brace counter.                                                      *)

Balanced == [depth |-> 0, in_string |-> FALSE, escape_pending |-> FALSE,
             ever_opened |-> FALSE]

(* Mutant: a quote ends a string also after a backslash.                   *)
EscapeIgnored(state, ch) ==
  IF state.in_string
  THEN [state EXCEPT !.in_string = (ch # "quote")]
  ELSE CASE ch = "quote" -> [state EXCEPT !.in_string = TRUE]
         [] ch = "{" -> [state EXCEPT !.depth = @ + 1, !.ever_opened = TRUE]
         [] ch = "}" -> [state EXCEPT !.depth = IF @ = 0 THEN 0 ELSE @ - 1]
         [] OTHER -> state

(* One character; an unmatched closing brace leaves the depth at 0.        *)
AdvanceCharacter(state, ch) ==
  IF state.escape_pending
  THEN [state EXCEPT !.escape_pending = FALSE]
  ELSE IF state.in_string
  THEN [state EXCEPT !.escape_pending = (ch = "backslash"),
                     !.in_string = (ch # "quote")]
  ELSE CASE ch = "quote" -> [state EXCEPT !.in_string = TRUE]
         [] ch = "{" -> [state EXCEPT !.depth = @ + 1, !.ever_opened = TRUE]
         [] ch = "}" -> [state EXCEPT !.depth = IF @ = 0 THEN 0 ELSE @ - 1]
         [] OTHER -> state

advance_brace_state(state, text) ==
  LET after[i \in 0 .. Len(text)] ==
        IF i = 0 THEN state ELSE AdvanceCharacter(after[i - 1], text[i])
  IN  after[Len(text)]

StructurallyComplete(state) == state.ever_opened /\ state.depth = 0

-----------------------------------------------------------------------------
Init ==
  /\ input = <<>>
  /\ current_header = "None"
  /\ lines = <<>>
  /\ brace_state = Balanced
  /\ emitted = <<>>

Position == Len(input) + 1

Idle == current_header = "None"

(* Mutants: taking an entry leaves its lines, or its brace state, behind;  *)
(* an entry that is only a header is dropped.                              *)
LinesStay ==
  [lines |-> lines, brace_state |-> IF Idle THEN brace_state ELSE Balanced]

BracesStay ==
  [lines |-> IF Idle THEN lines ELSE <<>>, brace_state |-> brace_state]

BareHeaderDropped ==
  IF Len(lines) <= 1 THEN <<>>
  ELSE <<[header |-> current_header, lines |-> lines]>>

(* take_entry returns the entry in progress, if there is one,              *)
TakeEntry ==
  IF Idle THEN <<>> ELSE <<[header |-> current_header, lines |-> lines]>>

(* and leaves the buffer empty.                                            *)
Taken ==
  IF Idle THEN [lines |-> lines, brace_state |-> brace_state]
  ELSE [lines |-> <<>>, brace_state |-> Balanced]

BecomeIdle ==
  /\ current_header' = "None"
  /\ lines' = Taken.lines
  /\ brace_state' = Taken.brace_state

(* A metadata line or a single-line header: the prior entry and this one.  *)
PushSingleLine(line) ==
  /\ IsHeader(line) /\ ~IsMultiLine(line)
  /\ emitted' = emitted \o TakeEntry
                \o <<[header |-> KindOf(line), lines |-> <<Position>>]>>
  /\ BecomeIdle

(* A multi-line header: the prior entry is emitted, a new one begins.      *)
PushMultiLine(line) ==
  /\ IsMultiLine(line)
  /\ emitted' = emitted \o TakeEntry
  /\ current_header' = KindOf(line)
  /\ lines' = Append(Taken.lines, Position)
  /\ brace_state' = Taken.brace_state

(* A continuation line, and the flush of the entry it completes.           *)
PushContinuation(line) ==
  /\ ~IsHeader(line)
  /\ ~Idle
  /\ LET state == IF BraceDepthFlush
                  THEN advance_brace_state(brace_state, line.text)
                  ELSE brace_state
         all == Append(lines, Position)
     IN  IF StructurallyComplete(state)
         THEN /\ emitted' = Append(emitted, [header |-> current_header,
                                             lines |-> all])
              /\ BecomeIdle
         ELSE /\ lines' = all
              /\ brace_state' = state
              /\ UNCHANGED <<current_header, emitted>>

(* A headerless line with no entry in progress is discarded.               *)
PushOrphan(line) ==
  /\ ~IsHeader(line)
  /\ Idle
  /\ UNCHANGED <<current_header, lines, brace_state, emitted>>

push_line(line) ==
  /\ Len(input) < MaxInput
  /\ input' = Append(input, line)
  /\ \/ PushSingleLine(line)
     \/ PushMultiLine(line)
     \/ PushContinuation(line)
     \/ PushOrphan(line)

FlushMark == [kind |-> "flush"]
ResetMark == [kind |-> "reset"]

flush ==
  /\ Len(input) < MaxInput
  /\ input' = Append(input, FlushMark)
  /\ emitted' = emitted \o TakeEntry
  /\ BecomeIdle

reset ==
  /\ Len(input) < MaxInput
  /\ input' = Append(input, ResetMark)
  /\ current_header' = "None"
  /\ lines' = <<>>
  /\ brace_state' = Balanced
  /\ UNCHANGED emitted

Next == (\E line \in Lines : push_line(line)) \/ flush \/ reset

Spec == Init /\ [][Next]_vars

-----------------------------------------------------------------------------
(* Properties.                                                             *)

IsLine(call) == call \notin {FlushMark, ResetMark}

Entry == [header : LineKind, lines : Seq(Nat)]

(* Every variable has its type.                                            *)
TypeOK ==
  /\ input \in Seq(Lines \cup {FlushMark, ResetMark})
  /\ current_header \in {"None", "UnityDigit", "TruncationMarker"}
  /\ lines \in Seq(Nat)
  /\ emitted \in Seq(Entry)

(* An entry consists of consecutive lines of the input that begin with its *)
(* header and hold no other.                                               *)
WellFormed(in, header, ls) ==
  /\ ls # <<>>
  /\ \A j \in DOMAIN ls :
       /\ ls[j] = ls[1] + j - 1
       /\ ls[j] \in DOMAIN in
       /\ IsLine(in[ls[j]])
       /\ IsHeader(in[ls[j]]) <=> j = 1
  /\ header = KindOf(in[ls[1]])

LastLine(ls) == ls[Len(ls)]

(* Entries come out whole, in log order and without a common line.         *)
InOrder(in, entries) ==
  \A k \in DOMAIN entries :
    /\ WellFormed(in, entries[k].header, entries[k].lines)
    /\ k > 1 => LastLine(entries[k - 1].lines) < entries[k].lines[1]

(* No line is in two entries, none is moved, and no entry swallows the     *)
(* header of another or goes on over a flush or a reset; the entry in      *)
(* progress follows all the others.                                        *)
EntriesPartitionTheLog ==
  /\ InOrder(input, emitted)
  /\ ~Idle =>
       /\ WellFormed(input, current_header, lines)
       /\ LastLine(lines) = Len(input)
       /\ emitted # <<>> =>
            LastLine(emitted[Len(emitted)].lines) < lines[1]

(* A declarative reading of the documentation, over the whole input.  The  *)
(* entry of a multi-line header at i goes up to the first line j at which  *)
(* the body i + 1 .. j, scanned in one go, is structurally complete, and   *)
(* else up to the next header or the end of the input.                     *)
EndsEntry(call) == IF IsLine(call) THEN IsHeader(call) ELSE TRUE

BodyText(in, i, j) ==
  LET text[k \in i .. j] == IF k = i THEN <<>> ELSE text[k - 1] \o in[k].text
  IN  text[j]

Extent(in, i) == \* the last line that can belong to the entry of i
  CHOOSE e \in i .. Len(in) :
    /\ \A k \in i + 1 .. e : ~EndsEntry(in[k])
    /\ e < Len(in) => EndsEntry(in[e + 1])

CompleteAt(in, i) ==
  {j \in i + 1 .. Extent(in, i) :
     BraceDepthFlush /\ StructurallyComplete(
                          advance_brace_state(Balanced, BodyText(in, i, j)))}

LastOf(in, i) ==
  IF IsMultiLine(in[i])
  THEN IF CompleteAt(in, i) # {}
       THEN CHOOSE j \in CompleteAt(in, i) :
              \A k \in CompleteAt(in, i) : j <= k
       ELSE Extent(in, i)
  ELSE i

Headers(in) == {i \in DOMAIN in : IsLine(in[i]) /\ IsHeader(in[i])}

(* The entry of header i is out: it is complete, or something other than a *)
(* reset ended it.                                                         *)
IsOut(in, i) ==
  \/ ~IsMultiLine(in[i])
  \/ CompleteAt(in, i) # {}
  \/ Extent(in, i) < Len(in) /\ in[Extent(in, i) + 1] # ResetMark

Out(in) == {i \in Headers(in) : IsOut(in, i)}

(* The buffer, fed line by line, has emitted exactly the entries that this *)
(* reading of the whole input gives, each at the first call that could     *)
(* tell, and holds the entry that is still open.                           *)
MatchesWholeInput ==
  /\ Len(emitted) = Cardinality(Out(input))
  /\ \A i \in Out(input) :
       \E k \in DOMAIN emitted :
         /\ emitted[k].lines[1] = i
         /\ LastLine(emitted[k].lines) = LastOf(input, i)
  /\ \A i \in Headers(input) \ Out(input) :
       Extent(input, i) = Len(input) <=> (~Idle /\ lines[1] = i)
=============================================================================

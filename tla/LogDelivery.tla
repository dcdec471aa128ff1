---------------------------- MODULE LogDelivery ----------------------------
(***************************************************************************)
(* What the event stream promises its subscriber, with no tasks, queues or *)
(* channels (the module documentation of stream.rs, "Delivery and          *)
(* backpressure" and "Shutdown").                                          *)
(*                                                                         *)
(* The events of the log are numbered from 1 in log order.  The subscriber *)
(* receives them one at a time, in that order and without a gap; it is     *)
(* told that the stream ended (None) only when it has received everything  *)
(* that was read, unless somebody called shutdown().                       *)
(***************************************************************************)
EXTENDS Naturals, Sequences

VARIABLES
  read,      \* the number of log events the stream has read so far
  received,  \* the events the subscriber has received, in order
  stopped,   \* shutdown() was called
  ended      \* the subscriber was told None

vars == <<read, received, stopped, ended>>

Init ==
  /\ read = 0
  /\ received = <<>>
  /\ stopped = FALSE
  /\ ended = FALSE

(* More of the log is read.  A stream that ended by itself has no more.    *)
ReadMore ==
  /\ ended => stopped
  /\ read' \in Nat
  /\ read' > read
  /\ UNCHANGED <<received, stopped, ended>>

(* The next event in log order reaches the subscriber.                     *)
Receive ==
  /\ ~ended
  /\ Len(received) < read
  /\ received' = Append(received, Len(received) + 1)
  /\ UNCHANGED <<read, stopped, ended>>

Stop ==
  /\ stopped' = TRUE
  /\ UNCHANGED <<read, received, ended>>

(* The subscriber sees the end: nothing is missing unless it was stopped.  *)
End ==
  /\ stopped \/ Len(received) = read
  /\ ended' = TRUE
  /\ UNCHANGED <<read, received, stopped>>

Next == ReadMore \/ Receive \/ Stop \/ End

Spec == Init /\ [][Next]_vars
=============================================================================

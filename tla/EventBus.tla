------------------------------ MODULE EventBus ------------------------------
(***************************************************************************)
(* The broadcast bus of event_bus.rs, over a tokio broadcast channel: a    *)
(* ring of the newest events, a read position for each subscriber, and     *)
(* recv(), which steps over what was overwritten and never delays a        *)
(* sender.  Events are numbered in the order they are sent.                *)
(***************************************************************************)
EXTENDS Naturals, Sequences

CONSTANTS
  Subscribers,  \* every Subscriber there will be
  Requested,    \* the capacity given to new()
  MaxSend,      \* events sent, at most
  MaxClones     \* EventBus values alive at a time, at most

ASSUME BoundsAssumption ==
  /\ {Requested, MaxSend} \subseteq Nat
  /\ MaxClones \in Nat \ {0}

VARIABLES
  sent,        \* events sent while somebody was subscribed
  buses,       \* EventBus values alive, each with a sender
  subscriber,  \* each Subscriber: not yet made, open, told None, or dropped
  joined,      \* history: the events sent before it subscribed
  next,        \* the event it will read
  received     \* history: the events recv() returned to it

vars == <<sent, buses, subscriber, joined, next, received>>

(* The channel holds as many events as asked for, at least one, rounded up *)
(* to a power of two.                                                      *)
Capacity ==
  LET atLeast == IF Requested = 0 THEN 1 ELSE Requested
      powers  == {2 ^ k : k \in 0 .. atLeast}
  IN  CHOOSE c \in powers :
        c >= atLeast /\ \A d \in powers : d >= atLeast => c <= d

(* The channel has room for an event: new() raises 0 to 1, and a power of  *)
(* two is never 0.  The proofs need no more of the capacity than this.     *)
ASSUME CapacityAssumption == Capacity \in Nat \ {0}

Open == {s \in Subscribers : subscriber[s] = "open"}

Init ==
  /\ sent = 0
  /\ buses = 1
  /\ subscriber = [s \in Subscribers |-> "none"]
  /\ joined = [s \in Subscribers |-> 0]
  /\ next = [s \in Subscribers |-> 1]
  /\ received = [s \in Subscribers |-> <<>>]

CloneBus ==
  /\ buses \in 1 .. MaxClones - 1
  /\ buses' = buses + 1
  /\ UNCHANGED <<sent, subscriber, joined, next, received>>

DropBus ==
  /\ buses > 0
  /\ buses' = buses - 1
  /\ UNCHANGED <<sent, subscriber, joined, next, received>>

(* An event that nobody is subscribed for is dropped.                      *)
send ==
  /\ buses > 0
  /\ sent < MaxSend
  /\ sent' = IF Open = {} THEN sent ELSE sent + 1
  /\ UNCHANGED <<buses, subscriber, joined, next, received>>

(* Mutant: a subscriber begins at the oldest event still held.             *)
FromOldest == IF sent < Capacity THEN 1 ELSE sent - Capacity + 1

(* A new subscriber begins with the next event.                            *)
FirstEvent == sent + 1

subscribe(s) ==
  /\ buses > 0
  /\ subscriber[s] = "none"
  /\ subscriber' = [subscriber EXCEPT ![s] = "open"]
  /\ joined' = [joined EXCEPT ![s] = sent]
  /\ next' = [next EXCEPT ![s] = FirstEvent]
  /\ UNCHANGED <<sent, buses, received>>

Overwritten(e) == e + Capacity <= sent

recv(s) ==
  /\ s \in Open
  /\ next[s] <= sent
  /\ ~Overwritten(next[s])
  /\ received' = [received EXCEPT ![s] = Append(@, next[s])]
  /\ next' = [next EXCEPT ![s] = @ + 1]
  /\ UNCHANGED <<sent, buses, subscriber, joined>>

(* Mutants: after a lag the subscriber waits for new events; it goes back  *)
(* one event too far.                                                      *)
SkipToNewest == sent + 1
OneTooOld == sent - Capacity

(* The oldest event the channel holds.                                     *)
OldestHeld == sent - Capacity + 1

(* Lagged: recv() logs and tries again, from the oldest event still held.  *)
recvLagged(s) ==
  /\ s \in Open
  /\ Overwritten(next[s])
  /\ next' = [next EXCEPT ![s] = OldestHeld]
  /\ UNCHANGED <<sent, buses, subscriber, joined, received>>

(* Mutant: a lag is taken for the end.                                     *)
ClosedOrLagged(s) == next[s] > sent \/ Overwritten(next[s])

(* Closed: every event was read and no sender is left.                     *)
Closed(s) == next[s] > sent /\ buses = 0

(* recv() returns None.                                                    *)
recvNone(s) ==
  /\ s \in Open
  /\ Closed(s)
  /\ subscriber' = [subscriber EXCEPT ![s] = "ended"]
  /\ UNCHANGED <<sent, buses, joined, next, received>>

DropSubscriber(s) ==
  /\ s \in Open
  /\ subscriber' = [subscriber EXCEPT ![s] = "dropped"]
  /\ UNCHANGED <<sent, buses, joined, next, received>>

Reads(s) == recv(s) \/ recvLagged(s) \/ recvNone(s)

(* Nothing is left to do; not an action of the code.                       *)
Terminated == buses = 0 /\ Open = {} /\ UNCHANGED vars

Next ==
  \/ CloneBus \/ DropBus \/ send
  \/ \E s \in Subscribers : subscribe(s) \/ Reads(s) \/ DropSubscriber(s)
  \/ Terminated

Spec == Init /\ [][Next]_vars

(* Each subscriber keeps reading.                                          *)
ReadingSpec == Spec /\ \A s \in Subscribers : WF_vars(Reads(s))

-----------------------------------------------------------------------------
(* A subscriber receives events in the order they were sent, none twice,   *)
(* and none sent before it subscribed, whoever else lags, reads or leaves. *)
InSendOrder ==
  \A s \in Subscribers :
    \A i \in DOMAIN received[s] :
      /\ received[s][i] > IF i = 1 THEN joined[s] ELSE received[s][i - 1]
      /\ received[s][i] < next[s]

ReceivedBy(s) == {received[s][i] : i \in DOMAIN received[s]}

(* What a subscriber missed was overwritten: a lag skips to "the oldest    *)
(* available message" and no further (event_bus.rs, Subscriber).           *)
MissesOnlyOverwritten ==
  \A s \in Subscribers :
    \A e \in joined[s] + 1 .. next[s] - 1 :
      e \in ReceivedBy(s) \/ Overwritten(e)

(* None comes after everything the channel still held, and only when no    *)
(* bus is left: "there are no more buffered messages" (recv).              *)
NoneAfterTheLast ==
  \A s \in Subscribers :
    subscriber[s] = "ended" => buses = 0 /\ next[s] = sent + 1

(* When the last bus is gone every subscriber that keeps reading gets to   *)
(* the end, however far it lagged.                                         *)
EndIsReached ==
  \A s \in Subscribers : buses = 0 ~> subscriber[s] # "open"
=============================================================================

-------------------------- MODULE EventBus_proofs --------------------------
(***************************************************************************)
(* Proofs about the broadcast bus, for every set of subscribers, every     *)
(* capacity and any number of events and clones.                           *)
(***************************************************************************)
EXTENDS EventBus, TLAPS

USE BoundsAssumption, CapacityAssumption

(* Every variable has its type.                                            *)
Typed ==
  /\ sent \in Nat
  /\ buses \in Nat
  /\ subscriber \in [Subscribers -> {"none", "open", "ended", "dropped"}]
  /\ joined \in [Subscribers -> Nat]
  /\ next \in [Subscribers -> Nat]
  /\ received \in [Subscribers -> Seq(Nat)]

(* A subscriber is past the events before it and not ahead of the senders, *)
(* and one that was not made yet has received nothing.                     *)
CursorOf(s) ==
  /\ joined[s] < next[s]
  /\ next[s] <= sent + 1
  /\ subscriber[s] = "none" => received[s] = <<>>

OrderOf(s) ==
  \A i \in DOMAIN received[s] :
    /\ received[s][i] > IF i = 1 THEN joined[s] ELSE received[s][i - 1]
    /\ received[s][i] < next[s]

MissesOf(s) ==
  \A e \in joined[s] + 1 .. next[s] - 1 : e \in ReceivedBy(s) \/ Overwritten(e)

EndOf(s) == subscriber[s] = "ended" => buses = 0 /\ next[s] = sent + 1

Good(s) == CursorOf(s) /\ OrderOf(s) /\ MissesOf(s) /\ EndOf(s)

IInv == Typed /\ \A s \in Subscribers : Good(s)

-----------------------------------------------------------------------------
LEMMA InitialState == Init => IInv
<1> SUFFICES ASSUME Init PROVE IInv
  OBVIOUS
<1>1. Typed
  BY DEF Init, Typed
<1>2. ASSUME NEW s \in Subscribers PROVE Good(s)
  BY DEF Init, Good, CursorOf, OrderOf, MissesOf, EndOf
<1> QED
  BY <1>1, <1>2 DEF IInv

(* What an action leaves of a subscriber that it does not touch: more may  *)
(* be overwritten, and an end was told only if no bus can send any more.   *)
Untouched(s) ==
  /\ subscriber'[s] = subscriber[s]
  /\ joined'[s] = joined[s]
  /\ next'[s] = next[s]
  /\ received'[s] = received[s]

LEMMA UntouchedStaysGood ==
  ASSUME Typed, sent' \in Nat, sent' >= sent,
         buses = 0 => buses' = 0 /\ sent' = sent,
         NEW s \in Subscribers, Good(s), Untouched(s)
  PROVE  Good(s)'
<1>0. /\ sent \in Nat /\ Capacity \in Nat
      /\ joined[s] \in Nat /\ next[s] \in Nat /\ received[s] \in Seq(Nat)
  BY DEF Typed
<1>1. CursorOf(s)'
  BY <1>0 DEF Good, CursorOf, Untouched
<1>2. OrderOf(s)'
  BY DEF Good, OrderOf, Untouched
<1>3. MissesOf(s)'
  <2> SUFFICES ASSUME NEW e \in joined[s] + 1 .. next[s] - 1
               PROVE  e \in ReceivedBy(s)' \/ Overwritten(e)'
    BY DEF MissesOf, Untouched
  <2>1. e \in ReceivedBy(s) \/ Overwritten(e)
    BY DEF Good, MissesOf
  <2>2. CASE e \in ReceivedBy(s)
    BY <2>2 DEF ReceivedBy, Untouched
  <2>3. CASE Overwritten(e)
    BY <2>3, <1>0 DEF Overwritten
  <2> QED
    BY <2>1, <2>2, <2>3
<1>4. EndOf(s)'
  BY <1>0 DEF Good, EndOf, Untouched
<1> QED
  BY <1>1, <1>2, <1>3, <1>4 DEF Good

-----------------------------------------------------------------------------
(* The buses and the senders.                                              *)
LEMMA BusStep == IInv /\ (CloneBus \/ DropBus \/ send) => IInv'
<1> SUFFICES ASSUME IInv, CloneBus \/ DropBus \/ send PROVE IInv'
  OBVIOUS
<1>1. Typed'
  BY DEF IInv, Typed, CloneBus, DropBus, send
<1>2. sent' \in Nat /\ sent' >= sent
  BY DEF IInv, Typed, CloneBus, DropBus, send
<1>3. buses = 0 => buses' = 0 /\ sent' = sent
  BY DEF IInv, Typed, CloneBus, DropBus, send
<1>4. ASSUME NEW s \in Subscribers PROVE Good(s)'
  <2>1. Untouched(s)
    BY DEF CloneBus, DropBus, send, Untouched
  <2>2. Typed /\ Good(s)
    BY DEF IInv
  <2> QED
    BY <1>2, <1>3, <2>1, <2>2, UntouchedStaysGood
<1> QED
  BY <1>1, <1>4 DEF IInv

(* A subscriber reads, comes or goes; the others see nothing of it.        *)
LEMMA OthersStayGood ==
  ASSUME IInv, sent' = sent, buses' = buses, NEW s \in Subscribers,
         NEW t \in Subscribers, Untouched(t)
  PROVE  Good(t)'
<1>1. Typed /\ Good(t) /\ sent' \in Nat /\ sent' >= sent
  BY DEF IInv, Typed
<1> QED
  BY <1>1, UntouchedStaysGood

LEMMA SubscribeStep ==
  ASSUME IInv, NEW s \in Subscribers, subscribe(s) PROVE IInv'
<1> USE DEF FirstEvent
<1>1. Typed'
  BY DEF IInv, Typed, subscribe
<1>2. received'[s] = <<>> /\ joined'[s] = sent /\ next'[s] = sent + 1
      /\ subscriber'[s] = "open" /\ sent' = sent /\ sent \in Nat
  BY DEF IInv, Typed, Good, CursorOf, subscribe
<1>3. Good(s)'
  BY <1>2 DEF Good, CursorOf, OrderOf, MissesOf, EndOf
<1>4. ASSUME NEW t \in Subscribers, t # s PROVE Good(t)'
  <2>1. Untouched(t) /\ sent' = sent /\ buses' = buses
    BY <1>4 DEF subscribe, Untouched, IInv, Typed
  <2> QED
    BY <2>1, OthersStayGood
<1> QED
  BY <1>1, <1>3, <1>4 DEF IInv

(* A delivery is added behind the earlier ones.                            *)
LEMMA AppendKeeps ==
  ASSUME NEW q \in Seq(Nat), NEW x \in Nat, NEW k \in 1 .. Len(q)
  PROVE  Append(q, x)[k] = q[k] /\ q[k] \in Nat
OBVIOUS

LEMMA RecvStep ==
  ASSUME IInv, NEW s \in Subscribers, recv(s) PROVE IInv'
<1>0. /\ sent \in Nat /\ joined[s] \in Nat /\ next[s] \in Nat
      /\ received[s] \in Seq(Nat) /\ Good(s)
  BY DEF IInv, Typed
<1>1. Typed'
  BY <1>0 DEF IInv, Typed, recv
<1>2. /\ received'[s] = Append(received[s], next[s])
      /\ next'[s] = next[s] + 1 /\ joined'[s] = joined[s]
      /\ sent' = sent /\ buses' = buses /\ subscriber' = subscriber
      /\ subscriber[s] = "open" /\ next[s] <= sent
  BY DEF IInv, Typed, recv, Open
<1>3. CursorOf(s)'
  BY <1>0, <1>2 DEF Good, CursorOf
<1>keeps. ASSUME NEW k \in 1 .. Len(received[s])
      PROVE  received'[s][k] = received[s][k] /\ received[s][k] \in Nat
  <2>1. received[s] \in Seq(Nat) /\ next[s] \in Nat
    BY <1>0
  <2>2. Append(received[s], next[s])[k] = received[s][k] /\ received[s][k] \in Nat
    BY <2>1, AppendKeeps
  <2>3. received'[s] = Append(received[s], next[s])
    BY <1>2
  <2> QED
    BY <2>2, <2>3
<1>4. OrderOf(s)'
  <2> SUFFICES ASSUME NEW i \in DOMAIN received'[s]
               PROVE  /\ received'[s][i] >
                           IF i = 1 THEN joined'[s] ELSE received'[s][i - 1]
                      /\ received'[s][i] < next'[s]
    BY DEF OrderOf
  <2>0. i \in 1 .. Len(received[s]) + 1 /\ DOMAIN received[s] = 1 .. Len(received[s])
    BY <1>0, <1>2
  <2>1. CASE i \in 1 .. Len(received[s])
    <3>1. /\ i \in Nat /\ received[s][i] \in Nat
          /\ received'[s][i] = received[s][i]
      BY <2>1, <1>keeps
    <3>2. /\ received[s][i] > IF i = 1 THEN joined[s] ELSE received[s][i - 1]
          /\ received[s][i] < next[s]
      BY <1>0, <2>0, <2>1 DEF Good, OrderOf
    <3>3. received'[s][i] < next'[s]
      <4>1. received[s][i] < next[s]
        BY <3>2
      <4>2. next[s] \in Nat /\ next'[s] = next[s] + 1
        BY <1>0, <1>2
      <4> QED
        BY <3>1, <4>1, <4>2
    <3>4. CASE i = 1
      BY <1>2, <3>1, <3>2, <3>3, <3>4
    <3>5. CASE i # 1
      <4>1. i - 1 \in 1 .. Len(received[s])
        BY <1>0, <2>1, <3>5
      <4>2. received'[s][i - 1] = received[s][i - 1]
        BY <4>1, <1>keeps
      <4> QED
        BY <3>1, <3>2, <3>3, <3>5, <4>2
    <3> QED
      BY <3>4, <3>5
  <2>2. CASE i = Len(received[s]) + 1
    <3>1. received'[s][i] = next[s]
      BY <1>0, <1>2, <2>2
    <3>2. CASE i = 1
      BY <1>0, <1>2, <3>1, <3>2 DEF Good, CursorOf
    <3>3. CASE i # 1
      <4>1. i - 1 \in 1 .. Len(received[s])
        BY <2>0, <2>2, <3>3, <1>0
      <4>2. received'[s][i - 1] = received[s][i - 1] /\ received[s][i - 1] \in Nat
        BY <4>1, <1>keeps
      <4>3. received[s][i - 1] < next[s]
        BY <1>0, <2>0, <4>1 DEF Good, OrderOf
      <4> QED
        BY <1>0, <1>2, <3>1, <3>3, <4>2, <4>3
    <3> QED
      BY <3>2, <3>3
  <2> QED
    BY <2>0, <2>1, <2>2, <1>0
<1>5. MissesOf(s)'
  <2> SUFFICES ASSUME NEW e \in joined[s] + 1 .. next[s]
               PROVE  e \in ReceivedBy(s)' \/ Overwritten(e)'
    BY <1>0, <1>2 DEF MissesOf
  <2>1. CASE e = next[s]
    <3>1. Len(received[s]) + 1 \in DOMAIN received'[s]
      BY <1>0, <1>2
    <3>2. received'[s][Len(received[s]) + 1] = e
      BY <1>0, <1>2, <2>1
    <3> QED
      BY <3>1, <3>2 DEF ReceivedBy
  <2>2. CASE e \in joined[s] + 1 .. next[s] - 1
    <3>1. e \in ReceivedBy(s) \/ Overwritten(e)
      BY <1>0, <2>2 DEF Good, MissesOf
    <3>2. ASSUME e \in ReceivedBy(s) PROVE e \in ReceivedBy(s)'
      <4>1. PICK i \in DOMAIN received[s] : received[s][i] = e
        BY <3>2 DEF ReceivedBy
      <4>2. i \in 1 .. Len(received[s])
        BY <1>0
      <4>3. i \in DOMAIN received'[s] /\ received'[s][i] = e
        BY <1>0, <1>2, <4>1, <4>2, <1>keeps
      <4> QED
        BY <4>3 DEF ReceivedBy
    <3>3. Overwritten(e) => Overwritten(e)'
      BY <1>2 DEF Overwritten
    <3> QED
      BY <3>1, <3>2, <3>3
  <2> QED
    BY <1>0, <2>1, <2>2
<1>6. EndOf(s)'
  BY <1>2 DEF EndOf
<1>7. ASSUME NEW t \in Subscribers, t # s PROVE Good(t)'
  <2>1. Untouched(t)
    BY <1>7 DEF recv, Untouched, IInv, Typed
  <2> QED
    BY <1>2, <2>1, OthersStayGood
<1> QED
  BY <1>1, <1>3, <1>4, <1>5, <1>6, <1>7 DEF IInv, Good

LEMMA LaggedStep ==
  ASSUME IInv, NEW s \in Subscribers, recvLagged(s) PROVE IInv'
<1>0. /\ sent \in Nat /\ joined[s] \in Nat /\ next[s] \in Nat
      /\ Capacity \in Nat \ {0}
      /\ received[s] \in Seq(Nat) /\ Good(s)
  BY DEF IInv, Typed
<1>2. /\ next'[s] = sent - Capacity + 1 /\ next[s] + Capacity <= sent
      /\ joined' = joined /\ received' = received /\ subscriber' = subscriber
      /\ sent' = sent /\ buses' = buses /\ subscriber[s] = "open"
  BY DEF IInv, Typed, recvLagged, Open, OldestHeld, Overwritten
<1>1. Typed'
  <2>1. sent - Capacity + 1 \in Nat
    BY <1>0, <1>2
  <2> QED
    BY <2>1 DEF IInv, Typed, recvLagged, OldestHeld
<1>3. CursorOf(s)'
  BY <1>0, <1>2 DEF Good, CursorOf
<1>4. OrderOf(s)'
  <2> SUFFICES ASSUME NEW i \in DOMAIN received[s]
               PROVE  /\ received[s][i] >
                           IF i = 1 THEN joined[s] ELSE received[s][i - 1]
                      /\ received[s][i] < next'[s]
    BY <1>2 DEF OrderOf
  <2>1. /\ received[s][i] > IF i = 1 THEN joined[s] ELSE received[s][i - 1]
        /\ received[s][i] < next[s]
    BY <1>0 DEF Good, OrderOf
  <2>2. received[s][i] \in Nat
    BY <1>0
  <2>3. next[s] < next'[s]
    BY <1>0, <1>2
  <2>4. received[s][i] < next'[s]
    BY <1>0, <1>2, <2>1, <2>2, <2>3
  <2> QED
    BY <2>1, <2>4
<1>5. MissesOf(s)'
  <2> SUFFICES ASSUME NEW e \in joined[s] + 1 .. sent - Capacity
               PROVE  e \in ReceivedBy(s)' \/ Overwritten(e)'
    BY <1>0, <1>2 DEF MissesOf
  <2> QED
    BY <1>0, <1>2 DEF Overwritten
<1>6. EndOf(s)'
  BY <1>2 DEF EndOf
<1>7. ASSUME NEW t \in Subscribers, t # s PROVE Good(t)'
  <2>1. Untouched(t)
    BY <1>7 DEF recvLagged, Untouched, IInv, Typed
  <2> QED
    BY <1>2, <2>1, OthersStayGood
<1> QED
  BY <1>1, <1>3, <1>4, <1>5, <1>6, <1>7 DEF IInv, Good

(* The end of a subscriber: recv() returns None, or it is dropped.         *)
LEMMA EndStep ==
  ASSUME IInv, NEW s \in Subscribers, recvNone(s) \/ DropSubscriber(s) PROVE IInv'
<1>0. /\ sent \in Nat /\ next[s] \in Nat /\ Good(s)
  BY DEF IInv, Typed
<1>1. Typed'
  BY DEF IInv, Typed, recvNone, DropSubscriber
<1>2. /\ subscriber'[s] \in {"ended", "dropped"}
      /\ subscriber'[s] = "ended" => next[s] > sent /\ buses = 0
      /\ joined' = joined /\ next' = next /\ received' = received
      /\ sent' = sent /\ buses' = buses
  BY DEF IInv, Typed, recvNone, DropSubscriber, Open, Closed
<1>3. CursorOf(s)' /\ OrderOf(s)'
  BY <1>0, <1>2 DEF Good, CursorOf, OrderOf
<1>4. MissesOf(s)'
  BY <1>0, <1>2 DEF Good, MissesOf, ReceivedBy, Overwritten
<1>5. EndOf(s)'
  BY <1>0, <1>2 DEF Good, CursorOf, EndOf
<1>6. ASSUME NEW t \in Subscribers, t # s PROVE Good(t)'
  <2>1. Untouched(t)
    BY <1>6, <1>2 DEF recvNone, DropSubscriber, Untouched, IInv, Typed
  <2> QED
    BY <1>2, <2>1, OthersStayGood
<1> QED
  BY <1>1, <1>3, <1>4, <1>5, <1>6 DEF IInv, Good

LEMMA Stutter == IInv /\ UNCHANGED vars => IInv'
BY DEF IInv, Typed, Good, CursorOf, OrderOf, MissesOf, EndOf, ReceivedBy,
       Overwritten, vars

LEMMA NextStep == IInv /\ [Next]_vars => IInv'
<1> SUFFICES ASSUME IInv, [Next]_vars PROVE IInv'
  OBVIOUS
<1>1. CASE CloneBus \/ DropBus \/ send
  BY <1>1, BusStep
<1>2. ASSUME NEW s \in Subscribers, subscribe(s) PROVE IInv'
  BY <1>2, SubscribeStep
<1>3. ASSUME NEW s \in Subscribers, Reads(s) PROVE IInv'
  BY <1>3, RecvStep, LaggedStep, EndStep DEF Reads
<1>4. ASSUME NEW s \in Subscribers, DropSubscriber(s) PROVE IInv'
  BY <1>4, EndStep
<1>5. CASE Terminated \/ UNCHANGED vars
  BY <1>5, Stutter DEF Terminated
<1> QED
  BY <1>1, <1>2, <1>3, <1>4, <1>5 DEF Next

LEMMA Inductive == Spec => []IInv
BY InitialState, NextStep, PTL DEF Spec

-----------------------------------------------------------------------------
(* Whoever lags, joins or leaves, a subscriber receives events in the      *)
(* order they were sent, none twice and none from before it subscribed.    *)
THEOREM SendOrder == Spec => []InSendOrder
<1>1. IInv => InSendOrder
  BY DEF IInv, Good, OrderOf, InSendOrder
<1> QED
  BY <1>1, Inductive, PTL

(* Whatever a subscriber missed since it joined was overwritten in the     *)
(* ring: the skip after a lag is never too long.                           *)
THEOREM OnlyLagLoses == Spec => []MissesOnlyOverwritten
<1>1. IInv => MissesOnlyOverwritten
  BY DEF IInv, Good, MissesOf, MissesOnlyOverwritten
<1> QED
  BY <1>1, Inductive, PTL

(* recv() returns None only after the last bus is gone and everything the  *)
(* ring held was read.                                                     *)
THEOREM EndIsLast == Spec => []NoneAfterTheLast
<1>1. IInv => NoneAfterTheLast
  BY DEF IInv, Good, EndOf, NoneAfterTheLast
<1> QED
  BY <1>1, Inductive, PTL
=============================================================================

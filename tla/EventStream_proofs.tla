------------------------- MODULE EventStream_proofs -------------------------
(***************************************************************************)
(* Proofs about the streaming pipeline, for every capacity, batch size and *)
(* log length: its types, that no step loses, repeats or reorders an       *)
(* event, and that it implements LogDelivery.                              *)
(***************************************************************************)
EXTENDS Integers, EventStream, TLAPS

USE CapacityAssumption, BoundsAssumption

-----------------------------------------------------------------------------
(* Facts about the items of one poll.                                      *)

(* The last event of a poll's entries is a bounded number not before base. *)
LEMMA LastEventType ==
  ASSUME NEW base \in Nat, NEW ends \in EntryEnds(base)
  PROVE  /\ LastEvent(base, ends) \in Nat
         /\ base <= LastEvent(base, ends)
<1>1. PICK n \in 0 .. MaxBatch : ends \in [1 .. n -> base .. MaxRead]
  BY DEF EntryEnds
<1>2. n = Len(ends) /\ Len(ends) \in Nat /\ DOMAIN ends = 1 .. n
  BY <1>1
<1>3. CASE ends = <<>>
  BY <1>3 DEF LastEvent
<1>4. CASE ends # <<>>
  <2>1. n \in 1 .. n
    BY <1>1, <1>2, <1>4
  <2>2. ends[n] \in base .. MaxRead
    BY <1>1, <2>1
  <2> QED
    BY <1>2, <1>4, <2>2 DEF LastEvent
<1> QED
  BY <1>3, <1>4

(* The entries of a poll are items, in order from base.                    *)
LEMMA EntriesFollow ==
  ASSUME NEW base \in Nat, NEW ends \in EntryEnds(base)
  PROVE  /\ Entries(base, ends) \in Seq(PipelineItem)
         /\ Follow(Entries(base, ends), base)
         /\ EndOf(Entries(base, ends), base) = LastEvent(base, ends)
<1> DEFINE es == Entries(base, ends)
<1>1. PICK n \in 0 .. MaxBatch : ends \in [1 .. n -> base .. MaxRead]
  BY DEF EntryEnds
<1>2. n = Len(ends) /\ DOMAIN ends = 1 .. n
  BY <1>1
<1>3. \A i \in 1 .. n : /\ ends[i] \in Nat /\ base <= ends[i]
                        /\ i # 1 => ends[i - 1] \in Nat
  BY <1>1, <1>2
<1>4. \A i \in 1 .. n :
         /\ i = 1 => base <= ends[i]
         /\ i # 1 => ends[i - 1] <= ends[i]
  <2>1. \A i, j \in 1 .. n : i <= j => ends[i] <= ends[j]
    BY <1>2 DEF EntryEnds
  <2> QED
    BY <1>3, <2>1
<1>5. \A i \in 1 .. n : es[i] \in PipelineItem
  BY <1>2, <1>3 DEF Entries, PipelineItem
<1>6. es \in Seq(PipelineItem) /\ Len(es) = n /\ DOMAIN es = 1 .. n
  <2>1. es = [i \in 1 .. n |-> es[i]]
    BY <1>2 DEF Entries
  <2>2. es \in [1 .. n -> PipelineItem]
    BY <1>5, <2>1
  <2> QED
    BY <2>2
<1>7. Follow(es, base)
  <2> SUFFICES ASSUME NEW i \in 1 .. n
               PROVE  /\ es[i].first = (IF i = 1 THEN base
                                        ELSE es[i - 1].last) + 1
                      /\ es[i].first <= es[i].last + 1
    BY <1>6 DEF Follow
  <2>1. i # 1 => i - 1 \in 1 .. n
    OBVIOUS
  <2> QED
    BY <1>2, <1>3, <1>4, <2>1 DEF Entries
<1>8. EndOf(es, base) = LastEvent(base, ends)
  <2>1. CASE n = 0
    BY <1>2, <1>6, <2>1 DEF EndOf, LastEvent
  <2>2. CASE n # 0
    <3>1. es # <<>> /\ ends # <<>> /\ n \in 1 .. n
      BY <1>2, <1>6, <2>2
    <3>2. es[n].last = ends[n]
      BY <1>2, <3>1 DEF Entries
    <3> QED
      BY <1>2, <1>6, <3>1, <3>2 DEF EndOf, LastEvent
  <2> QED
    BY <2>1, <2>2
<1> QED
  BY <1>6, <1>7, <1>8

(* A rotation and the entries after it are items, in order from n.         *)
LEMMA FollowCons ==
  ASSUME NEW n \in Nat, NEW item \in PipelineItem,
         NEW items \in Seq(PipelineItem),
         item.first = n + 1, item.first <= item.last + 1,
         Follow(items, item.last)
  PROVE  /\ <<item>> \o items \in Seq(PipelineItem)
         /\ Follow(<<item>> \o items, n)
         /\ EndOf(<<item>> \o items, n) = EndOf(items, item.last)
<1> DEFINE all == <<item>> \o items
<1>1. /\ all \in Seq(PipelineItem)
      /\ Len(all) = Len(items) + 1
      /\ all[1] = item
      /\ \A i \in 2 .. Len(items) + 1 : all[i] = items[i - 1]
  OBVIOUS
<1>2. Follow(all, n)
  <2> SUFFICES ASSUME NEW i \in 1 .. Len(items) + 1
               PROVE  /\ all[i].first = (IF i = 1 THEN n
                                         ELSE all[i - 1].last) + 1
                      /\ all[i].first <= all[i].last + 1
    BY <1>1 DEF Follow
  <2>1. CASE i = 1
    BY <1>1, <2>1
  <2>2. CASE i = 2
    <3>1. 1 \in DOMAIN items /\ all[2] = items[1]
      BY <1>1, <2>2
    <3> QED
      BY <1>1, <2>2, <3>1 DEF Follow
  <2>3. CASE i > 2
    <3>1. i - 1 \in DOMAIN items /\ i - 1 # 1 /\ i - 1 - 1 = i - 2
      BY <2>3
    <3>2. all[i] = items[i - 1] /\ all[i - 1] = items[i - 2]
      BY <1>1, <2>3
    <3> QED
      BY <2>3, <3>1, <3>2 DEF Follow
  <2> QED
    BY <2>1, <2>2, <2>3
<1>3. EndOf(all, n) = EndOf(items, item.last)
  <2>1. CASE items = <<>>
    BY <1>1, <2>1 DEF EndOf
  <2>2. CASE items # <<>>
    <3>1. Len(items) + 1 \in 2 .. Len(items) + 1
      BY <2>2
    <3> QED
      BY <1>1, <2>2, <3>1 DEF EndOf
  <2> QED
    BY <2>1, <2>2
<1> QED
  BY <1>1, <1>2, <1>3

(* Appending the item that comes next keeps a queue in order.              *)
LEMMA FollowAppend ==
  ASSUME NEW n \in Nat, NEW item \in PipelineItem,
         NEW items \in Seq(PipelineItem), Follow(items, n),
         item.first = EndOf(items, n) + 1, item.first <= item.last + 1
  PROVE  /\ Follow(Append(items, item), n)
         /\ EndOf(Append(items, item), n) = item.last
<1> DEFINE all == Append(items, item)
<1>1. /\ all \in Seq(PipelineItem)
      /\ Len(all) = Len(items) + 1
      /\ all[Len(items) + 1] = item
      /\ \A i \in 1 .. Len(items) : all[i] = items[i]
  OBVIOUS
<1>2. Follow(all, n)
  <2> SUFFICES ASSUME NEW i \in 1 .. Len(items) + 1
               PROVE  /\ all[i].first = (IF i = 1 THEN n
                                         ELSE all[i - 1].last) + 1
                      /\ all[i].first <= all[i].last + 1
    BY <1>1 DEF Follow
  <2>1. CASE i \in 1 .. Len(items)
    BY <1>1, <2>1 DEF Follow
  <2>2. CASE i = Len(items) + 1 /\ items = <<>>
    BY <1>1, <2>2 DEF EndOf
  <2>3. CASE i = Len(items) + 1 /\ items # <<>>
    <3>1. i # 1 /\ i - 1 = Len(items) /\ Len(items) \in 1 .. Len(items)
      BY <2>3
    <3>2. all[i - 1] = items[Len(items)]
      BY <1>1, <3>1
    <3> QED
      BY <1>1, <2>3, <3>1, <3>2 DEF EndOf
  <2> QED
    BY <2>1, <2>2, <2>3
<1>3. EndOf(all, n) = item.last
  <2>1. all # <<>>
    BY <1>1
  <2> HIDE DEF all
  <2> QED
    BY <1>1, <2>1 DEF EndOf
<1> QED
  BY <1>2, <1>3

(* Taking the head off leaves the rest in order, after the head.           *)
LEMMA FollowTail ==
  ASSUME NEW n \in Nat, NEW items \in Seq(PipelineItem), items # <<>>,
         Follow(items, n)
  PROVE  /\ Head(items).first = n + 1
         /\ Head(items).first <= Head(items).last + 1
         /\ Follow(Tail(items), Head(items).last)
         /\ EndOf(Tail(items), Head(items).last) = EndOf(items, n)
<1> DEFINE rest == Tail(items)
<1>1. /\ rest \in Seq(PipelineItem)
      /\ Len(rest) = Len(items) - 1
      /\ Head(items) = items[1]
      /\ 1 \in DOMAIN items
      /\ \A i \in 1 .. Len(rest) : rest[i] = items[i + 1]
  OBVIOUS
<1>2. Follow(rest, Head(items).last)
  <2> SUFFICES ASSUME NEW i \in 1 .. Len(rest)
               PROVE  /\ rest[i].first = (IF i = 1 THEN Head(items).last
                                          ELSE rest[i - 1].last) + 1
                      /\ rest[i].first <= rest[i].last + 1
    BY <1>1 DEF Follow
  <2>1. i + 1 \in DOMAIN items /\ i + 1 # 1 /\ i + 1 - 1 = i
    BY <1>1
  <2>2. items[i + 1].first = items[i].last + 1
        /\ items[i + 1].first <= items[i + 1].last + 1
    BY <2>1 DEF Follow
  <2>3. i # 1 => rest[i - 1] = items[i]
    BY <1>1
  <2> QED
    BY <1>1, <2>2, <2>3
<1>3. EndOf(rest, Head(items).last) = EndOf(items, n)
  <2>1. CASE rest = <<>>
    <3>1. Len(items) = 1
      <4> HIDE DEF rest
      <4>1. Len(rest) = 0
        BY <2>1
      <4> QED
        BY <1>1, <4>1
    <3> QED
      BY <1>1, <2>1, <3>1 DEF EndOf
  <2>2. CASE rest # <<>>
    <3>1. Len(rest) \in 1 .. Len(rest) /\ Len(rest) + 1 = Len(items)
      BY <1>1, <2>2
    <3>2. rest[Len(rest)] = items[Len(items)]
      BY <1>1, <3>1
    <3> HIDE DEF rest
    <3> QED
      BY <2>2, <3>2 DEF EndOf
  <2> QED
    BY <2>1, <2>2
<1> QED
  BY <1>1, <1>2, <1>3 DEF Follow

(* Routing an item that follows event n gives the events after n, in order.*)
LEMMA EventsOfType ==
  ASSUME NEW n \in Nat, NEW item \in PipelineItem,
         item.first = n + 1, item.first <= item.last + 1
  PROVE  /\ EventsOf(item) \in Seq(Nat)
         /\ n + Len(EventsOf(item)) = item.last
         /\ \A i \in DOMAIN EventsOf(item) : EventsOf(item)[i] = n + i
<1> DEFINE k == (item.last + 1) - item.first
<1>1. k \in Nat /\ n + k = item.last
  BY DEF PipelineItem
<1>2. EventsOf(item) = [i \in 1 .. k |-> n + i]
  BY DEF EventsOf, PipelineItem
<1> DEFINE es == [i \in 1 .. k |-> n + i]
<1> HIDE DEF k
<1>3. es \in [1 .. k -> Nat]
  BY <1>1
<1>4. es \in Seq(Nat) /\ Len(es) = k /\ DOMAIN es = 1 .. k
  BY <1>1, <1>3
<1>5. \A i \in 1 .. k : es[i] = n + i
  OBVIOUS
<1> HIDE DEF es
<1> QED
  BY <1>1, <1>2, <1>4, <1>5 DEF es

-----------------------------------------------------------------------------
(* Type correctness.                                                       *)

(* What a poll or a flush hands over is a sequence of items.               *)
LEMMA PollItemsType ==
  ASSUME TypeOK, NEW rotated \in BOOLEAN,
         NEW ends \in EntryEnds(IF rotated THEN read + 1 ELSE read)
  PROVE  /\ PollItems(rotated, ends) \in Seq(PipelineItem)
         /\ Follow(PollItems(rotated, ends), read)
         /\ EndOf(PollItems(rotated, ends), read)
              = LastEvent(IF rotated THEN read + 1 ELSE read, ends)
<1>1. read \in Nat /\ read + 1 \in Nat
  BY DEF TypeOK
<1>2. CASE rotated
  <2> DEFINE item == [kind |-> "Event", first |-> read + 1, last |-> read + 1]
  <2>1. item \in PipelineItem
    BY <1>1 DEF PipelineItem
  <2>2. ends \in EntryEnds(item.last)
    BY <1>2
  <2>3. /\ Entries(read + 1, ends) \in Seq(PipelineItem)
        /\ Follow(Entries(read + 1, ends), item.last)
        /\ EndOf(Entries(read + 1, ends), item.last)
             = LastEvent(read + 1, ends)
    BY <1>1, <2>2, EntriesFollow
  <2>4. item.first = read + 1 /\ item.first <= item.last + 1
    BY <1>1
  <2>5. PollItems(rotated, ends) = <<item>> \o Entries(read + 1, ends)
    BY <1>2 DEF PollItems
  <2> HIDE DEF item
  <2> QED
    BY <1>1, <1>2, <2>1, <2>3, <2>4, <2>5, FollowCons
<1>3. CASE ~rotated
  BY <1>1, <1>3, EntriesFollow DEF PollItems
<1> QED
  BY <1>2, <1>3

(* The initial state has the right types.                                  *)
LEMMA TypeInit == Init => TypeOK
<1> SUFFICES ASSUME Init PROVE TypeOK
  OBVIOUS
<1>1. <<>> \in Seq(PipelineItem) /\ <<>> \in Seq(Nat)
  OBVIOUS
<1>2. Len(item_queue) <= ItemCapacity /\ Len(event_queue) <= EventCapacity
  <2>1. Len(item_queue) = 0 /\ Len(event_queue) = 0
    BY DEF Init
  <2> QED
    BY <2>1
<1>3. once \in BOOLEAN /\ watching \in BOOLEAN /\ shutdown_sent \in BOOLEAN
      /\ handle_dropped \in BOOLEAN
  BY DEF Init
<1> QED
  BY <1>1, <1>2, <1>3 DEF Init, TypeOK, TailerState, RouterState, SubscriberState,
              PipelineState

(* Every step keeps the types.                                             *)
LEMMA TypeStep == TypeOK /\ [Next]_vars => TypeOK'
<1> SUFFICES ASSUME TypeOK, [Next]_vars
             PROVE  TypeOK'
  OBVIOUS
<1> USE DEF TypeOK, TailerState, RouterState, SubscriberState, PipelineState,
            tailerVars, routerVars, subscriberVars, handleVars
<1>1. CASE Poll
  <2>1. PICK rotated \in BOOLEAN :
          \E ends \in EntryEnds(IF rotated THEN read + 1 ELSE read) :
            /\ outgoing' = PollItems(rotated, ends)
            /\ read' = LastEvent(IF rotated THEN read + 1 ELSE read, ends)
    BY <1>1 DEF Poll
  <2> DEFINE base == IF rotated THEN read + 1 ELSE read
  <2>2. PICK ends \in EntryEnds(base) :
          /\ outgoing' = PollItems(rotated, ends)
          /\ read' = LastEvent(base, ends)
    BY <2>1
  <2>3. outgoing' \in Seq(PipelineItem)
    BY <2>2, PollItemsType
  <2>4. base \in Nat
    OBVIOUS
  <2>5. read' \in Nat
    <3> HIDE DEF base
    <3> QED
      BY <2>2, <2>4, LastEventType
  <2> QED
    BY <1>1, <2>3, <2>5 DEF Poll
<1>2. CASE PollError
  BY <1>2 DEF PollError
<1>3. CASE StopTailing
  <2>1. PICK ends \in EntryEnds(read) : /\ outgoing' = Entries(read, ends)
                                       /\ read' = LastEvent(read, ends)
    BY <1>3 DEF StopTailing
  <2>2. outgoing' \in Seq(PipelineItem) /\ read' \in Nat
    BY <2>1, EntriesFollow, LastEventType
  <2> QED
    BY <1>3, <2>2 DEF StopTailing
<1>4. CASE SendItem
  <2>1. /\ outgoing # <<>>
        /\ item_queue' = Append(item_queue, Head(outgoing))
        /\ outgoing' = Tail(outgoing)
        /\ Len(item_queue) < ItemCapacity
    BY <1>4 DEF SendItem
  <2>2. Head(outgoing) \in PipelineItem /\ outgoing' \in Seq(PipelineItem)
    BY <2>1
  <2>3. item_queue' \in Seq(PipelineItem)
        /\ Len(item_queue') = Len(item_queue) + 1
    BY <2>1, <2>2
  <2>4. Len(item_queue') <= ItemCapacity
    BY <2>1, <2>3
  <2>5. UNCHANGED <<tailer, router, batch, watching, event_queue, subscriber,
                    received, once, shutdown_sent, handle_dropped, pipeline,
                    read>>
    BY <1>4 DEF SendItem
  <2> QED
    BY <2>2, <2>3, <2>4, <2>5
<1>5. CASE SendFails
  <2>1. outgoing # <<>> /\ outgoing' \in {<<>>, Tail(outgoing)}
    BY <1>5 DEF SendFails
  <2>2. Tail(outgoing) \in Seq(PipelineItem) /\ <<>> \in Seq(PipelineItem)
    BY <2>1
  <2>3. outgoing' \in Seq(PipelineItem)
    BY <2>1, <2>2
  <2> QED
    BY <1>5, <2>3 DEF SendFails
<1>6. CASE AllSent
  BY <1>6 DEF AllSent, AfterSending
<1>7. CASE RouteItem
  <2>1. Head(item_queue) \in PipelineItem
    BY <1>7 DEF RouteItem
  <2>2. EventsOf(Head(item_queue)) \in Seq(Nat)
    <3> DEFINE item == Head(item_queue)
               k == (item.last + 1) - item.first
    <3>1. item.first \in Nat \ {0} /\ item.last \in Nat
      BY <2>1 DEF PipelineItem
    <3>2. k \in Int /\ (k \in Nat \/ 1 .. k = 1 .. 0)
      <4> HIDE DEF item
      <4> QED
        BY <3>1
    <3>3. \A i \in 1 .. k : item.first + i - 1 \in Nat
      <4> HIDE DEF item
      <4> QED
        BY <3>1
    <3> HIDE DEF item
    <3>4. EventsOf(item) \in [1 .. k -> Nat]
      BY <3>3 DEF EventsOf
    <3>5. \E n \in Nat : 1 .. k = 1 .. n
      BY <3>2
    <3>6. PICK n \in Nat : 1 .. k = 1 .. n
      BY <3>5
    <3>7. EventsOf(item) \in [1 .. n -> Nat]
      BY <3>4, <3>6
    <3>8. EventsOf(item) \in Seq(Nat)
      <4> HIDE DEF k
      <4> QED
        BY <3>7
    <3> QED
      BY <3>8 DEF item
  <2> QED
    BY <1>7, <2>2 DEF RouteItem
<1>8. CASE ItemsEnd
  BY <1>8 DEF ItemsEnd
<1>9. CASE DeliverEvent
  BY <1>9 DEF DeliverEvent, QueueHasRoom
<1>10. CASE BatchDelivered
  BY <1>10 DEF BatchDelivered
<1>11. CASE StopRouting
  BY <1>11 DEF StopRouting
<1>12. CASE StopWatching
  BY <1>12 DEF StopWatching
<1>13. CASE Recv
  BY <1>13 DEF Recv
<1>14. CASE RecvNone
  BY <1>14 DEF RecvNone
<1>15. CASE DropSubscriber
  BY <1>15 DEF DropSubscriber
<1>16. CASE Shutdown
  BY <1>16 DEF Shutdown
<1>17. CASE DropHandle
  BY <1>17 DEF DropHandle
<1>18. CASE Join
  BY <1>18 DEF Join
<1>19. CASE Terminated \/ UNCHANGED vars
  BY <1>19 DEF Terminated, vars
<1> QED
  BY <1>1, <1>2, <1>3, <1>4, <1>5, <1>6, <1>7, <1>8, <1>9, <1>10, <1>11,
     <1>12, <1>13, <1>14, <1>15, <1>16, <1>17, <1>18, <1>19
     DEF Next, TailerTask, RouterTask, Caller

(* In every behaviour every variable keeps its type, and neither queue     *)
(* ever exceeds its capacity, whatever the capacities are.                 *)
THEOREM TypeCorrect == Spec => []TypeOK
<1> QED
  BY TypeInit, TypeStep, PTL DEF Spec

-----------------------------------------------------------------------------
(* Order and loss.  NothingLost follows the events through every queue; it *)
(* needs to know that a task holds nothing when it is idle or has ended,   *)
(* and that a router that ended without a shutdown has delivered it all.   *)

IdleTasksHoldNothing ==
  /\ tailer \in {"polling", "done"} => outgoing = <<>>
  /\ router \in {"receiving", "done"} => batch = <<>>
  /\ router = "done" => item_queue = <<>>

WholeUnlessStopped ==
  /\ subscriber = "ended" => router = "done" /\ event_queue = <<>>
  /\ (router = "done" /\ subscriber # "dropped" /\ ~shutdown_sent)
       => tailer = "done" /\ Delivered = read

IInv == /\ TypeOK
        /\ InLogOrder
        /\ NothingLost
        /\ IdleTasksHoldNothing
        /\ WholeUnlessStopped

(* The initial state satisfies the inductive invariant.                    *)
LEMMA InvInit == Init => IInv
<1> SUFFICES ASSUME Init PROVE IInv
  OBVIOUS
<1>1. TypeOK
  BY TypeInit
<1>2. InLogOrder
  BY DEF Init, InLogOrder
<1>3. Delivered = 0 /\ Len(batch) = 0
  BY DEF Init, Delivered
<1>4. NothingLost
  BY <1>3 DEF Init, NothingLost, Follow, EndOf
<1>5. IdleTasksHoldNothing /\ WholeUnlessStopped
  BY DEF Init, IdleTasksHoldNothing, WholeUnlessStopped
<1> QED
  BY <1>1, <1>2, <1>4, <1>5 DEF IInv

(* Only receiving an event can disturb the order of what was received.     *)
LEMMA OrderStep == IInv /\ [Next]_vars => InLogOrder'
<1> SUFFICES ASSUME IInv, [Next]_vars PROVE InLogOrder'
  OBVIOUS
<1>1. CASE Recv
  <2>1. /\ subscriber = "open" /\ event_queue # <<>>
        /\ received' = Append(received, Head(event_queue))
    BY <1>1 DEF Recv
  <2>2. received \in Seq(Nat) /\ event_queue \in Seq(Nat)
    BY DEF IInv, TypeOK
  <2>3. Head(event_queue) = Len(received) + 1
    <3>1. 1 \in DOMAIN event_queue /\ Head(event_queue) = event_queue[1]
      BY <2>1, <2>2
    <3> QED
      BY <2>1, <3>1 DEF IInv, NothingLost
  <2> QED
    BY <2>1, <2>2, <2>3 DEF IInv, InLogOrder
<1>2. CASE UNCHANGED received
  BY <1>2 DEF IInv, InLogOrder
<1> QED
  BY <1>1, <1>2 DEF Next, TailerTask, RouterTask, Caller, Poll, PollError,
     StopTailing, SendItem, SendFails, AllSent, RouteItem, ItemsEnd,
     DeliverEvent, BatchDelivered, StopRouting, StopWatching, RecvNone,
     DropSubscriber, Shutdown, DropHandle, Join, Terminated, vars,
     tailerVars, routerVars, subscriberVars, handleVars

(* A task gives up what it holds before it waits or ends.                  *)
LEMMA IdleStep == IInv /\ [Next]_vars => IdleTasksHoldNothing'
<1> SUFFICES ASSUME IInv, [Next]_vars PROVE IdleTasksHoldNothing'
  OBVIOUS
<1> USE DEF IInv, IdleTasksHoldNothing, tailerVars, routerVars,
            subscriberVars, handleVars
<1>1. CASE Poll \/ PollError \/ StopTailing
  BY <1>1 DEF Poll, PollError, StopTailing
<1>2. CASE SendItem \/ AllSent
  BY <1>2 DEF SendItem, AllSent, AfterSending
<1>3. CASE SendFails
  BY <1>3 DEF SendFails
<1>4. CASE RouteItem \/ ItemsEnd \/ BatchDelivered
  BY <1>4 DEF RouteItem, ItemsEnd, ItemsClosed, BatchDelivered
<1>5. CASE DeliverEvent \/ StopRouting \/ StopWatching
  BY <1>5 DEF DeliverEvent, StopRouting, StopWatching, Blocked
<1>6. CASE Caller \/ Join \/ Terminated \/ UNCHANGED vars
  BY <1>6 DEF Caller, Recv, RecvNone, DropSubscriber, Shutdown, DropHandle,
              Join, Terminated, vars
<1> QED
  BY <1>1, <1>2, <1>3, <1>4, <1>5, <1>6 DEF Next, TailerTask, RouterTask

(* No step loses, repeats or reorders an event on its way.                 *)
LEMMA NothingLostStep == IInv /\ [Next]_vars => NothingLost'
<1> SUFFICES ASSUME IInv, [Next]_vars, subscriber' = "open"
             PROVE  NothingLost'
  BY DEF NothingLost
<1> DEFINE routed == Delivered + Len(batch)
           sent   == EndOf(item_queue, routed)
           QueueOK  == \A i \in DOMAIN event_queue :
                         event_queue[i] = Len(received) + i
           BatchOK  == \A i \in DOMAIN batch : batch[i] = Delivered + i
           ItemsOK  == Follow(item_queue, routed)
           OutOK    == Follow(outgoing, sent) /\ EndOf(outgoing, sent) = read
<1> USE DEF tailerVars, routerVars, subscriberVars, handleVars
<1>1. /\ TypeOK /\ IdleTasksHoldNothing
      /\ subscriber = "open" => QueueOK
      /\ subscriber = "open" /\ router # "done" => BatchOK /\ ItemsOK /\ OutOK
  BY DEF IInv, NothingLost
<1>2. SUFFICES /\ QueueOK'
               /\ router' # "done" => BatchOK' /\ ItemsOK' /\ OutOK'
  BY DEF NothingLost
<1>3. /\ Delivered \in Nat /\ routed \in Nat /\ Len(received) \in Nat
      /\ outgoing \in Seq(PipelineItem) /\ item_queue \in Seq(PipelineItem)
      /\ batch \in Seq(Nat) /\ event_queue \in Seq(Nat) /\ received \in Seq(Nat)
  BY <1>1 DEF TypeOK, Delivered
<1>4. sent \in Nat
  <2>1. CASE item_queue = <<>>
    BY <1>3, <2>1 DEF EndOf
  <2>2. CASE item_queue # <<>>
    <3>1. item_queue[Len(item_queue)] \in PipelineItem
      BY <1>3, <2>2
    <3> QED
      BY <2>2, <3>1 DEF EndOf, PipelineItem
  <2> QED
    BY <2>1, <2>2
<1>5. CASE Poll \/ StopTailing
  <2>1. /\ subscriber = "open" /\ outgoing = <<>>
        /\ UNCHANGED <<item_queue, router, batch, event_queue, received>>
    BY <1>1, <1>5 DEF Poll, StopTailing, IdleTasksHoldNothing
  <2>2. Follow(outgoing', read) /\ EndOf(outgoing', read) = read'
    <3>1. CASE Poll
      <4>1. PICK rotated \in BOOLEAN :
              \E ends \in EntryEnds(IF rotated THEN read + 1 ELSE read) :
                /\ outgoing' = PollItems(rotated, ends)
                /\ read' = LastEvent(IF rotated THEN read + 1 ELSE read, ends)
        BY <3>1 DEF Poll
      <4>2. PICK ends \in EntryEnds(IF rotated THEN read + 1 ELSE read) :
              /\ outgoing' = PollItems(rotated, ends)
              /\ read' = LastEvent(IF rotated THEN read + 1 ELSE read, ends)
        BY <4>1
      <4> QED
        BY <1>1, <4>2, PollItemsType
    <3>2. CASE StopTailing
      <4>1. PICK ends \in EntryEnds(read) : /\ outgoing' = Entries(read, ends)
                                           /\ read' = LastEvent(read, ends)
        BY <3>2 DEF StopTailing
      <4> QED
        BY <1>1, <4>1, EntriesFollow DEF TypeOK
    <3> QED
      BY <1>5, <3>1, <3>2
  <2>3. QueueOK'
    BY <1>1, <2>1
  <2>4. ASSUME router' # "done" PROVE BatchOK' /\ ItemsOK' /\ OutOK'
    <3>1. BatchOK /\ ItemsOK /\ OutOK
      BY <1>1, <2>1, <2>4
    <3>2. sent = read
      BY <2>1, <3>1 DEF EndOf
    <3>3. BatchOK' /\ ItemsOK' /\ sent' = sent
      BY <2>1, <3>1 DEF Delivered
    <3> HIDE DEF sent
    <3> QED
      BY <2>2, <3>2, <3>3
  <2> QED
    BY <2>3, <2>4
<1>6. CASE SendItem
  <2>1. /\ subscriber = "open" /\ router # "done" /\ outgoing # <<>>
        /\ item_queue' = Append(item_queue, Head(outgoing))
        /\ outgoing' = Tail(outgoing)
        /\ UNCHANGED <<batch, event_queue, received, read>>
    BY <1>6 DEF SendItem
  <2>2. QueueOK /\ BatchOK /\ ItemsOK /\ OutOK
    BY <1>1, <2>1
  <2>3. QueueOK' /\ BatchOK' /\ routed' = routed
    BY <2>1, <2>2 DEF Delivered
  <2>4. Head(outgoing) \in PipelineItem
    BY <1>3, <2>1
  <2>5. /\ Head(outgoing).first = sent + 1
        /\ Head(outgoing).first <= Head(outgoing).last + 1
        /\ Follow(Tail(outgoing), Head(outgoing).last)
        /\ EndOf(Tail(outgoing), Head(outgoing).last) = EndOf(outgoing, sent)
    <3> HIDE DEF sent
    <3> QED
      BY <1>3, <1>4, <2>1, <2>2, FollowTail
  <2>6. /\ Follow(item_queue', routed)
        /\ EndOf(item_queue', routed) = Head(outgoing).last
    <3> HIDE DEF routed
    <3> QED
      BY <1>3, <2>1, <2>2, <2>4, <2>5, FollowAppend
  <2>7. sent' = Head(outgoing).last
    BY <2>3, <2>6
  <2>8. ItemsOK'
    BY <2>3, <2>6
  <2>9. OutOK'
    <3> HIDE DEF sent
    <3> QED
      BY <2>1, <2>2, <2>5, <2>7
  <2> QED
    BY <2>3, <2>8, <2>9
<1>7. CASE PollError \/ AllSent \/ SendFails
  <2>1. /\ subscriber = "open"
        /\ UNCHANGED <<item_queue, router, batch, event_queue, received, read>>
        /\ router # "done" => outgoing' = outgoing
    BY <1>7 DEF PollError, AllSent, SendFails
  <2> QED
    BY <1>1, <2>1 DEF Delivered
<1>8. CASE RouteItem
  <2>1. /\ subscriber = "open" /\ router = "receiving" /\ item_queue # <<>>
        /\ batch' = EventsOf(Head(item_queue))
        /\ item_queue' = Tail(item_queue)
        /\ UNCHANGED <<outgoing, event_queue, received, read>>
    BY <1>8 DEF RouteItem
  <2>2. batch = <<>> /\ routed = Delivered
    BY <1>1, <1>3, <2>1 DEF IdleTasksHoldNothing
  <2>3. QueueOK /\ BatchOK /\ ItemsOK /\ OutOK
    BY <1>1, <2>1
  <2>4. Head(item_queue) \in PipelineItem
    BY <1>3, <2>1
  <2>5. /\ Head(item_queue).first = Delivered + 1
        /\ Head(item_queue).first <= Head(item_queue).last + 1
        /\ Follow(Tail(item_queue), Head(item_queue).last)
        /\ EndOf(Tail(item_queue), Head(item_queue).last) = sent
    <3> HIDE DEF routed
    <3> QED
      BY <1>3, <2>1, <2>2, <2>3, FollowTail
  <2>6. /\ Delivered + Len(batch') = Head(item_queue).last
        /\ \A i \in DOMAIN batch' : batch'[i] = Delivered + i
    BY <1>3, <2>1, <2>4, <2>5, EventsOfType
  <2>7. Delivered' = Delivered /\ QueueOK'
    BY <2>1, <2>3 DEF Delivered
  <2>8. routed' = Head(item_queue).last /\ BatchOK'
    BY <2>6, <2>7
  <2>9. ItemsOK' /\ sent' = sent
    <3> HIDE DEF routed
    <3> QED
      BY <2>1, <2>5, <2>8
  <2>10. OutOK'
    <3> HIDE DEF sent
    <3> QED
      BY <2>1, <2>3, <2>9
  <2> QED
    BY <2>7, <2>8, <2>9, <2>10
<1>9. CASE DeliverEvent
  <2>1. /\ subscriber = "open" /\ router # "done" /\ batch # <<>>
        /\ event_queue' = Append(event_queue, Head(batch))
        /\ batch' = Tail(batch)
        /\ UNCHANGED <<outgoing, item_queue, received, read>>
    BY <1>9 DEF DeliverEvent
  <2>2. QueueOK /\ BatchOK /\ ItemsOK /\ OutOK
    BY <1>1, <2>1
  <2>3. Head(batch) = Delivered + 1
    BY <1>3, <2>1, <2>2
  <2>4. /\ Delivered' = Delivered + 1
        /\ routed' = routed
    BY <1>3, <2>1 DEF Delivered
  <2>5. QueueOK'
    <3> SUFFICES ASSUME NEW i \in 1 .. Len(event_queue) + 1
                 PROVE  Append(event_queue, Head(batch))[i] = Len(received) + i
      BY <1>3, <2>1
    <3>1. CASE i \in 1 .. Len(event_queue)
      BY <1>3, <2>2, <3>1
    <3>2. CASE i = Len(event_queue) + 1
      BY <1>3, <2>3, <3>2 DEF Delivered
    <3> QED
      BY <3>1, <3>2
  <2>6. BatchOK'
    <3> SUFFICES ASSUME NEW i \in DOMAIN Tail(batch)
                 PROVE  Tail(batch)[i] = Delivered + 1 + i
      BY <2>1, <2>4
    <3>1. i + 1 \in DOMAIN batch /\ Tail(batch)[i] = batch[i + 1]
          /\ i \in Nat
      BY <1>3, <2>1
    <3> QED
      BY <1>3, <2>2, <3>1
  <2>7. ItemsOK' /\ sent' = sent
    BY <2>1, <2>2, <2>4
  <2>8. OutOK'
    <3> HIDE DEF sent
    <3> QED
      BY <2>1, <2>2, <2>7
  <2> QED
    BY <2>5, <2>6, <2>7, <2>8
<1>10. CASE Recv
  <2>1. /\ subscriber = "open" /\ event_queue # <<>>
        /\ received' = Append(received, Head(event_queue))
        /\ event_queue' = Tail(event_queue)
        /\ UNCHANGED <<outgoing, item_queue, router, batch, read>>
    BY <1>10 DEF Recv
  <2>2. QueueOK
    BY <1>1, <2>1
  <2>3. /\ Len(received') = Len(received) + 1
        /\ Len(event_queue') = Len(event_queue) - 1
    BY <1>3, <2>1
  <2>4. Delivered' = Delivered
    BY <1>3, <2>3 DEF Delivered
  <2>5. QueueOK'
    <3> SUFFICES ASSUME NEW i \in DOMAIN Tail(event_queue)
                 PROVE  Tail(event_queue)[i] = Len(received) + 1 + i
      BY <2>1, <2>3
    <3>1. /\ i + 1 \in DOMAIN event_queue /\ i \in Nat
          /\ Tail(event_queue)[i] = event_queue[i + 1]
      BY <1>3, <2>1
    <3> QED
      BY <1>3, <2>2, <3>1
  <2>6. router' # "done" => BatchOK' /\ ItemsOK' /\ OutOK'
    BY <1>1, <2>1, <2>4
  <2> QED
    BY <2>5, <2>6
<1>11. CASE ItemsEnd \/ BatchDelivered \/ StopRouting \/ StopWatching
            \/ RecvNone \/ DropSubscriber \/ Shutdown \/ DropHandle \/ Join
            \/ Terminated \/ UNCHANGED vars
  <2>1. /\ subscriber = "open"
        /\ UNCHANGED <<event_queue, received, read, outgoing>>
        /\ router' # "done" => UNCHANGED <<item_queue, batch>>
        /\ router' # "done" => router # "done"
    BY <1>11 DEF ItemsEnd, BatchDelivered, StopRouting, StopWatching,
       RecvNone, DropSubscriber, Shutdown, DropHandle, Join, Terminated, vars
  <2> QED
    BY <1>1, <2>1 DEF Delivered
<1> QED
  BY <1>5, <1>6, <1>7, <1>8, <1>9, <1>10, <1>11
     DEF Next, TailerTask, RouterTask, Caller

(* A router ends without a shutdown only after the tailer, and with        *)
(* nothing left to deliver.                                                *)
LEMMA WholeStep == IInv /\ [Next]_vars => WholeUnlessStopped'
<1> SUFFICES ASSUME IInv, [Next]_vars PROVE WholeUnlessStopped'
  OBVIOUS
<1> USE DEF tailerVars, routerVars, subscriberVars, handleVars
<1>1. /\ TypeOK /\ NothingLost /\ IdleTasksHoldNothing /\ WholeUnlessStopped
  BY DEF IInv
<1>2. CASE ItemsEnd
  <2>1. /\ router = "receiving" /\ item_queue = <<>> /\ tailer = "done"
        /\ UNCHANGED <<subscriber, event_queue, received, read, tailer,
                       shutdown_sent>>
    BY <1>2 DEF ItemsEnd, ItemsClosed
  <2>2. outgoing = <<>> /\ batch = <<>>
    BY <1>1, <2>1 DEF IdleTasksHoldNothing
  <2>3. subscriber # "dropped" => subscriber = "open"
    BY <1>1, <2>1 DEF WholeUnlessStopped, TypeOK, SubscriberState
  <2>4. subscriber = "open" => Delivered = read
    <3>1. Delivered \in Nat /\ Delivered + Len(batch) = Delivered
      BY <1>1, <2>2 DEF TypeOK, Delivered
    <3> QED
      BY <1>1, <2>1, <2>2, <3>1 DEF NothingLost, EndOf
  <2> QED
    BY <1>1, <2>1, <2>3, <2>4 DEF WholeUnlessStopped, Delivered
<1>3. CASE StopRouting
  <2>1. /\ router = "delivering"
        /\ subscriber = "dropped" \/ shutdown_sent
        /\ UNCHANGED <<subscriber, shutdown_sent>>
    BY <1>3 DEF StopRouting, Blocked, StopRequested
  <2> QED
    BY <1>1, <2>1 DEF WholeUnlessStopped
<1>4. CASE Recv
  <2>1. /\ subscriber = "open" /\ event_queue # <<>>
        /\ received' = Append(received, Head(event_queue))
        /\ event_queue' = Tail(event_queue)
        /\ UNCHANGED <<subscriber, router, shutdown_sent, tailer, read>>
    BY <1>4 DEF Recv
  <2>2. Delivered' = Delivered
    BY <1>1, <2>1 DEF TypeOK, Delivered
  <2> QED
    BY <1>1, <2>1, <2>2 DEF WholeUnlessStopped
<1>5. CASE Poll \/ PollError \/ StopTailing
  <2>1. /\ tailer = "polling"
        /\ UNCHANGED <<subscriber, event_queue, router, shutdown_sent>>
    BY <1>5 DEF Poll, PollError, StopTailing
  <2> QED
    BY <1>1, <2>1 DEF WholeUnlessStopped
<1>6. CASE SendItem \/ AllSent \/ SendFails
  <2>1. /\ tailer \in {"sending", "flushing"}
        /\ UNCHANGED <<subscriber, event_queue, router, shutdown_sent>>
    BY <1>6 DEF SendItem, AllSent, SendFails
  <2> QED
    BY <1>1, <2>1 DEF WholeUnlessStopped
<1>7. CASE RouteItem \/ DeliverEvent \/ BatchDelivered \/ StopWatching
  <2>1. /\ router # "done" /\ router' # "done"
        /\ UNCHANGED subscriber
    BY <1>7 DEF RouteItem, DeliverEvent, BatchDelivered, StopWatching, Blocked
  <2> QED
    BY <1>1, <2>1 DEF WholeUnlessStopped
<1>8. CASE RecvNone
  <2>1. /\ subscriber = "open" /\ router = "done" /\ event_queue = <<>>
        /\ UNCHANGED <<router, event_queue, received, read, tailer,
                       shutdown_sent>>
    BY <1>8 DEF RecvNone
  <2> QED
    BY <1>1, <2>1 DEF WholeUnlessStopped, Delivered
<1>9. CASE DropSubscriber
  BY <1>1, <1>9 DEF DropSubscriber, WholeUnlessStopped
<1>10. CASE Shutdown \/ DropHandle \/ Join \/ Terminated \/ UNCHANGED vars
  <2>1. /\ shutdown_sent => shutdown_sent'
        /\ UNCHANGED <<router, event_queue, received, read, tailer,
                       subscriber>>
    BY <1>10 DEF Shutdown, DropHandle, Join, Terminated, vars
  <2> QED
    BY <1>1, <2>1 DEF WholeUnlessStopped, Delivered
<1> QED
  BY <1>2, <1>3, <1>4, <1>5, <1>6, <1>7, <1>8, <1>9, <1>10
     DEF Next, TailerTask, RouterTask, Caller

(* The inductive invariant holds in every reachable state.                 *)
THEOREM Invariance == Spec => []IInv
<1>1. IInv /\ [Next]_vars => IInv'
  <2> SUFFICES ASSUME IInv, [Next]_vars PROVE IInv'
    OBVIOUS
  <2>1. TypeOK'
    BY TypeStep DEF IInv
  <2> QED
    BY <2>1, OrderStep, NothingLostStep, IdleStep, WholeStep DEF IInv
<1> QED
  BY <1>1, InvInit, PTL DEF Spec

(* Whatever shutdown, drops and full queues interleave to, the subscriber  *)
(* receives a gap-free prefix of the log's events in order.                *)
THEOREM LogOrder == Spec => []InLogOrder
<1>1. IInv => InLogOrder
  BY DEF IInv
<1> QED
  BY <1>1, Invariance, PTL

(* Nothing in flight is lost, repeated or reordered while both ends live.  *)
THEOREM Lossless == Spec => []NothingLost
<1>1. IInv => NothingLost
  BY DEF IInv
<1> QED
  BY <1>1, Invariance, PTL

(* The router gives up events only without a subscriber, or on shutdown    *)
(* with a full queue.                                                      *)
THEOREM StopPoint == Spec => StopsAtFullQueue
<1> DEFINE Legal == (router # "done" /\ router' = "done" /\ Delivered < read)
                      => \/ subscriber = "dropped"
                         \/ shutdown_sent /\ Len(event_queue) = EventCapacity
<1>1. IInv /\ [Next]_vars => [Legal]_vars
  <2> SUFFICES ASSUME IInv, Next, router # "done", router' = "done",
                      Delivered < read, subscriber # "dropped"
               PROVE  shutdown_sent /\ Len(event_queue) = EventCapacity
    BY Zenon
  <2> USE DEF tailerVars, routerVars, subscriberVars, handleVars
  <2>1. ItemsEnd \/ StopRouting
    BY DEF Next, TailerTask, RouterTask, Caller, Poll, PollError,
       StopTailing, SendItem, SendFails, AllSent, RouteItem, DeliverEvent,
       BatchDelivered, StopWatching, Recv, RecvNone, DropSubscriber,
       Shutdown, DropHandle, Join, Terminated, vars
  <2>2. CASE ItemsEnd
    <3>1. /\ router = "receiving" /\ item_queue = <<>> /\ tailer = "done"
      BY <2>2 DEF ItemsEnd, ItemsClosed
    <3>2. outgoing = <<>> /\ batch = <<>> /\ subscriber = "open"
      BY <3>1 DEF IInv, IdleTasksHoldNothing, WholeUnlessStopped, TypeOK,
                  SubscriberState
    <3>3. /\ Delivered \in Nat /\ Delivered + Len(batch) = Delivered
          /\ read \in Nat
      BY <3>2 DEF IInv, TypeOK, Delivered
    <3>4. Delivered = read
      BY <3>1, <3>2, <3>3 DEF IInv, NothingLost, EndOf
    <3> QED
      BY <3>3, <3>4
  <2>3. CASE StopRouting
    BY <2>3 DEF StopRouting, Blocked, StopRequested, QueueHasRoom, IInv, TypeOK
  <2> QED
    BY <2>1, <2>2, <2>3
<1> QED
  BY <1>1, Invariance, PTL DEF Spec, StopsAtFullQueue

(* What is delivered, routed, sent or held by the tailer was read.  The    *)
(* refinement needs it of a queued event: its receipt is a step of the     *)
(* abstract stream only when the event was read.                           *)
WithinRead ==
  subscriber = "open" =>
    /\ Delivered + Len(batch) <= read
    /\ \A i \in DOMAIN item_queue : item_queue[i].last <= read
    /\ \A i \in DOMAIN outgoing : outgoing[i].last <= read

(* No entry of a poll ends after the last event of the poll.               *)
LEMMA EntriesWithin ==
  ASSUME NEW base \in Nat, NEW ends \in EntryEnds(base)
  PROVE  \A i \in DOMAIN Entries(base, ends) :
           Entries(base, ends)[i].last <= LastEvent(base, ends)
<1>1. PICK n \in 0 .. MaxBatch : ends \in [1 .. n -> base .. MaxRead]
  BY DEF EntryEnds
<1>2. n = Len(ends) /\ DOMAIN ends = 1 .. n
  BY <1>1
<1> SUFFICES ASSUME NEW i \in 1 .. n
             PROVE  ends[i] <= LastEvent(base, ends)
  BY <1>2 DEF Entries
<1>3. ends # <<>> /\ n \in 1 .. n /\ i <= n
  BY <1>2
<1>4. ends[i] <= ends[n]
  BY <1>2, <1>3 DEF EntryEnds
<1> QED
  BY <1>2, <1>3, <1>4 DEF LastEvent

(* Nor does a rotation in front of them.                                   *)
LEMMA PollItemsWithin ==
  ASSUME TypeOK, NEW rotated \in BOOLEAN,
         NEW ends \in EntryEnds(IF rotated THEN read + 1 ELSE read)
  PROVE  \A i \in DOMAIN PollItems(rotated, ends) :
           PollItems(rotated, ends)[i].last
             <= LastEvent(IF rotated THEN read + 1 ELSE read, ends)
<1>1. read \in Nat /\ read + 1 \in Nat
  BY DEF TypeOK
<1>2. CASE rotated
  <2> DEFINE item == [kind |-> "Event", first |-> read + 1, last |-> read + 1]
             es   == Entries(read + 1, ends)
  <2>1. /\ es \in Seq(PipelineItem)
        /\ \A i \in DOMAIN es : es[i].last <= LastEvent(read + 1, ends)
    BY <1>1, <1>2, EntriesFollow, EntriesWithin
  <2>2. item.last <= LastEvent(read + 1, ends)
    BY <1>1, <1>2, LastEventType
  <2>3. PollItems(rotated, ends) = <<item>> \o es
    BY <1>2 DEF PollItems
  <2> HIDE DEF item, es
  <2>4. /\ Len(<<item>> \o es) = Len(es) + 1
        /\ (<<item>> \o es)[1] = item
        /\ \A i \in 2 .. Len(es) + 1 : (<<item>> \o es)[i] = es[i - 1]
    BY <2>1
  <2>5. DOMAIN (<<item>> \o es) = 1 .. Len(es) + 1 /\ Len(es) \in Nat
    BY <2>1, <2>4
  <2>6. \A i \in 1 .. Len(es) + 1 :
           (<<item>> \o es)[i].last <= LastEvent(read + 1, ends)
    <3> SUFFICES ASSUME NEW i \in 1 .. Len(es) + 1, i # 1
                 PROVE  (<<item>> \o es)[i].last <= LastEvent(read + 1, ends)
      BY <2>2, <2>4
    <3>1. i - 1 \in DOMAIN es /\ i \in 2 .. Len(es) + 1
      BY <2>1, <2>5
    <3> QED
      BY <2>1, <2>4, <3>1
  <2> QED
    BY <1>2, <2>3, <2>5, <2>6
<1>3. CASE ~rotated
  BY <1>1, <1>3, EntriesWithin DEF PollItems
<1> QED
  BY <1>2, <1>3

(* Nothing is delivered and nothing read at the start.                     *)
LEMMA WithinInit == Init => WithinRead
BY DEF Init, WithinRead, Delivered

(* Only the tailer adds events, and it counts them as read first.          *)
LEMMA WithinStep == IInv /\ WithinRead /\ [Next]_vars => WithinRead'
<1> SUFFICES ASSUME IInv, WithinRead, [Next]_vars, subscriber' = "open"
             PROVE  WithinRead'
  BY DEF WithinRead
<1> USE DEF tailerVars, routerVars, subscriberVars, handleVars
<1>1. subscriber = "open"
  BY DEF Next, TailerTask, RouterTask, Caller, Poll, PollError,
     StopTailing, SendItem, SendFails, AllSent, RouteItem, ItemsEnd,
     DeliverEvent, BatchDelivered, StopRouting, StopWatching, Recv, RecvNone,
     DropSubscriber, Shutdown, DropHandle, Join, Terminated, vars
<1>2. /\ Delivered + Len(batch) <= read
      /\ \A i \in DOMAIN item_queue : item_queue[i].last <= read
      /\ \A i \in DOMAIN outgoing : outgoing[i].last <= read
  BY <1>1 DEF WithinRead
<1>3. /\ outgoing \in Seq(PipelineItem) /\ item_queue \in Seq(PipelineItem)
      /\ batch \in Seq(Nat) /\ event_queue \in Seq(Nat) /\ received \in Seq(Nat)
      /\ Delivered \in Nat /\ read \in Nat /\ Len(batch) \in Nat
  BY DEF IInv, TypeOK, Delivered
<1>4. CASE Poll \/ StopTailing
  <2>1. UNCHANGED <<item_queue, batch, event_queue, received, subscriber>>
    BY <1>4 DEF Poll, StopTailing
  <2>2. /\ read' \in Nat /\ read <= read'
        /\ \A i \in DOMAIN outgoing' : outgoing'[i].last <= read'
    <3>1. CASE Poll
      <4>1. PICK rotated \in BOOLEAN :
              \E ends \in EntryEnds(IF rotated THEN read + 1 ELSE read) :
                /\ outgoing' = PollItems(rotated, ends)
                /\ read' = LastEvent(IF rotated THEN read + 1 ELSE read, ends)
        BY <3>1 DEF Poll
      <4> DEFINE base == IF rotated THEN read + 1 ELSE read
      <4>2. PICK ends \in EntryEnds(base) :
              /\ outgoing' = PollItems(rotated, ends)
              /\ read' = LastEvent(base, ends)
        BY <4>1
      <4>3. \A i \in DOMAIN outgoing' : outgoing'[i].last <= read'
        BY <4>2, PollItemsWithin DEF IInv
      <4>4. base \in Nat /\ read <= base
        BY <1>3
      <4> HIDE DEF base
      <4>5. read' \in Nat /\ base <= read'
        BY <4>2, <4>4, LastEventType
      <4> QED
        BY <1>3, <4>3, <4>4, <4>5
    <3>2. CASE StopTailing
      <4>1. PICK ends \in EntryEnds(read) : /\ outgoing' = Entries(read, ends)
                                           /\ read' = LastEvent(read, ends)
        BY <3>2 DEF StopTailing
      <4> QED
        BY <1>3, <4>1, EntriesWithin, LastEventType
    <3> QED
      BY <1>4, <3>1, <3>2
  <2>3. \A i \in DOMAIN item_queue : item_queue[i].last <= read'
    <3> SUFFICES ASSUME NEW i \in DOMAIN item_queue
                 PROVE  item_queue[i].last <= read'
      OBVIOUS
    <3>1. item_queue[i] \in PipelineItem
      BY <1>3
    <3> QED
      BY <1>2, <1>3, <2>2, <3>1 DEF PipelineItem
  <2> QED
    BY <1>2, <1>3, <2>1, <2>2, <2>3 DEF WithinRead, Delivered
<1>5. CASE SendItem
  <2>1. /\ outgoing # <<>>
        /\ item_queue' = Append(item_queue, Head(outgoing))
        /\ outgoing' = Tail(outgoing)
        /\ UNCHANGED <<batch, event_queue, received, read>>
    BY <1>5 DEF SendItem
  <2>2. 1 \in DOMAIN outgoing /\ Head(outgoing) = outgoing[1]
    BY <1>3, <2>1
  <2>3. \A i \in DOMAIN item_queue' : item_queue'[i].last <= read
    <3> DEFINE longer == Append(item_queue, Head(outgoing))
    <3>0. DOMAIN longer = 1 .. Len(item_queue) + 1
      BY <1>3
    <3> SUFFICES ASSUME NEW i \in 1 .. Len(item_queue) + 1
                 PROVE  longer[i].last <= read
      <4> HIDE DEF longer
      <4> QED
        BY <2>1, <3>0 DEF longer
    <3>1. CASE i \in DOMAIN item_queue
      BY <1>2, <1>3, <3>1
    <3>2. CASE i = Len(item_queue) + 1
      BY <1>2, <1>3, <2>2, <3>2
    <3> QED
      BY <1>3, <3>1, <3>2
  <2>4. \A i \in DOMAIN outgoing' : outgoing'[i].last <= read
    BY <1>2, <1>3, <2>1
  <2> QED
    BY <1>2, <2>1, <2>3, <2>4 DEF WithinRead, Delivered
<1>6. CASE SendFails
  <2>1. /\ outgoing # <<>> /\ outgoing' \in {<<>>, Tail(outgoing)}
        /\ UNCHANGED <<item_queue, batch, event_queue, received, read>>
    BY <1>6 DEF SendFails
  <2>2. \A i \in DOMAIN Tail(outgoing) : Tail(outgoing)[i].last <= read
    BY <1>2, <1>3, <2>1
  <2>3. \A i \in DOMAIN outgoing' : outgoing'[i].last <= read
    BY <2>1, <2>2
  <2> QED
    BY <1>2, <2>1, <2>3 DEF WithinRead, Delivered
<1>7. CASE RouteItem
  <2>1. /\ router = "receiving" /\ item_queue # <<>>
        /\ batch' = EventsOf(Head(item_queue))
        /\ item_queue' = Tail(item_queue)
        /\ UNCHANGED <<outgoing, event_queue, received, read>>
    BY <1>7 DEF RouteItem
  <2>2. batch = <<>> /\ Delivered + Len(batch) = Delivered
    BY <1>3, <2>1 DEF IInv, IdleTasksHoldNothing
  <2>3. /\ 1 \in DOMAIN item_queue /\ Head(item_queue) = item_queue[1]
        /\ Head(item_queue) \in PipelineItem
    BY <1>3, <2>1
  <2>4. /\ Head(item_queue).first = Delivered + 1
        /\ Head(item_queue).first <= Head(item_queue).last + 1
    BY <1>1, <2>1, <2>2, <2>3 DEF IInv, NothingLost, Follow
  <2>5. Delivered + Len(batch') = Head(item_queue).last
    BY <1>3, <2>1, <2>3, <2>4, EventsOfType
  <2>6. \A i \in DOMAIN item_queue' : item_queue'[i].last <= read
    BY <1>2, <1>3, <2>1
  <2> QED
    BY <1>2, <2>1, <2>3, <2>5, <2>6 DEF WithinRead, Delivered
<1>8. CASE DeliverEvent
  <2>1. /\ batch # <<>> /\ batch' = Tail(batch)
        /\ event_queue' = Append(event_queue, Head(batch))
        /\ UNCHANGED <<outgoing, item_queue, received, read>>
    BY <1>8 DEF DeliverEvent
  <2>2. Delivered' + Len(batch') = Delivered + Len(batch)
    BY <1>3, <2>1 DEF Delivered
  <2> QED
    BY <1>2, <2>1, <2>2 DEF WithinRead
<1>9. CASE Recv
  <2>1. /\ event_queue # <<>> /\ event_queue' = Tail(event_queue)
        /\ received' = Append(received, Head(event_queue))
        /\ UNCHANGED <<outgoing, item_queue, batch, read>>
    BY <1>9 DEF Recv
  <2>2. Delivered' = Delivered
    BY <1>3, <2>1 DEF Delivered
  <2> QED
    BY <1>2, <2>1, <2>2 DEF WithinRead
<1>10. CASE StopRouting
  <2>1. /\ batch' = <<>> /\ item_queue' = <<>>
        /\ UNCHANGED <<outgoing, event_queue, received, read>>
    BY <1>10 DEF StopRouting
  <2>2. Delivered' = Delivered /\ Delivered + Len(batch') <= read
    BY <1>2, <1>3, <2>1 DEF Delivered
  <2> QED
    BY <1>2, <2>1, <2>2 DEF WithinRead
<1>11. CASE PollError \/ AllSent \/ ItemsEnd \/ BatchDelivered
            \/ StopWatching \/ RecvNone \/ DropSubscriber \/ Shutdown
            \/ DropHandle \/ Join \/ Terminated \/ UNCHANGED vars
  <2>1. UNCHANGED <<outgoing, item_queue, batch, received, read>>
        /\ UNCHANGED event_queue
    BY <1>11 DEF PollError, AllSent, ItemsEnd, BatchDelivered, StopWatching,
       RecvNone, DropSubscriber, Shutdown, DropHandle, Join, Terminated, vars
  <2> QED
    BY <1>2, <2>1 DEF WithinRead, Delivered
<1> QED
  BY <1>4, <1>5, <1>6, <1>7, <1>8, <1>9, <1>10, <1>11
     DEF Next, TailerTask, RouterTask, Caller

(* No event is delivered, routed or sent before it was read.               *)
THEOREM ReadBeforeDelivered == Spec => []WithinRead
BY WithinInit, WithinStep, Invariance, PTL DEF Spec

-----------------------------------------------------------------------------
(* Refinement: the pipeline keeps the promise of LogDelivery.  Reading,    *)
(* receiving, shutdown and the end map to its actions, and every other     *)
(* step of a task to a stutter.                                            *)

(* The initial state maps to the abstract initial state.                   *)
LEMMA PromiseInit == Init => Promise!Init
BY DEF Init, Promise!Init

(* Every step maps to an abstract step or to a stutter.                    *)
LEMMA PromiseStep ==
  IInv /\ WithinRead /\ [Next]_vars => [Promise!Next]_(Promise!vars)
<1> SUFFICES ASSUME IInv, WithinRead, [Next]_vars
             PROVE  Promise!Next \/ UNCHANGED Promise!vars
  OBVIOUS
<1> USE DEF tailerVars, routerVars, subscriberVars, handleVars
<1>1. TypeOK /\ NothingLost /\ IdleTasksHoldNothing /\ WholeUnlessStopped
  BY DEF IInv
<1>2. CASE Poll \/ StopTailing
  <2>1. /\ tailer = "polling"
        /\ UNCHANGED <<received, shutdown_sent, subscriber>>
    BY <1>2 DEF Poll, StopTailing
  <2>2. read' \in Nat /\ read <= read'
    <3>1. CASE Poll
      <4>1. PICK rotated \in BOOLEAN :
              \E ends \in EntryEnds(IF rotated THEN read + 1 ELSE read) :
                read' = LastEvent(IF rotated THEN read + 1 ELSE read, ends)
        BY <3>1 DEF Poll
      <4> DEFINE base == IF rotated THEN read + 1 ELSE read
      <4>2. PICK ends \in EntryEnds(base) : read' = LastEvent(base, ends)
        BY <4>1
      <4>3. base \in Nat /\ read <= base /\ read \in Nat
        BY <1>1 DEF TypeOK
      <4> HIDE DEF base
      <4>4. read' \in Nat /\ base <= read'
        BY <4>2, <4>3, LastEventType
      <4> QED
        BY <4>3, <4>4
    <3>2. CASE StopTailing
      <4>1. PICK ends \in EntryEnds(read) : read' = LastEvent(read, ends)
        BY <3>2 DEF StopTailing
      <4> QED
        BY <1>1, <4>1, LastEventType DEF TypeOK
    <3> QED
      BY <1>2, <3>1, <3>2
  <2>3. subscriber = "ended" => shutdown_sent
    BY <1>1, <2>1 DEF WholeUnlessStopped
  <2>4. CASE read' = read
    BY <2>1, <2>4 DEF Promise!vars
  <2>5. CASE read' # read
    <3>1. read' > read
      BY <1>1, <2>2, <2>5 DEF TypeOK
    <3> QED
      BY <2>1, <2>2, <2>3, <3>1 DEF Promise!Next, Promise!ReadMore
  <2> QED
    BY <2>4, <2>5
<1>3. CASE Recv
  <2>1. /\ subscriber = "open" /\ event_queue # <<>>
        /\ received' = Append(received, Head(event_queue))
        /\ UNCHANGED <<subscriber, shutdown_sent, read>>
    BY <1>3 DEF Recv
  <2>2. received \in Seq(Nat) /\ event_queue \in Seq(Nat)
        /\ Len(received) \in Nat /\ Len(event_queue) \in Nat \ {0}
    BY <1>1, <2>1 DEF TypeOK
  <2>3. Head(event_queue) = Len(received) + 1
    <3>1. 1 \in DOMAIN event_queue /\ Head(event_queue) = event_queue[1]
      BY <2>1, <2>2
    <3> QED
      BY <1>1, <2>1, <3>1 DEF NothingLost
  <2>4. Delivered + Len(batch) <= read /\ Len(batch) \in Nat
    BY <1>1, <2>1 DEF WithinRead, TypeOK
  <2>5. Len(received) < read
    BY <1>1, <2>2, <2>4 DEF Delivered, TypeOK
  <2> QED
    BY <2>1, <2>3, <2>5 DEF Promise!Next, Promise!Receive
<1>4. CASE RecvNone
  <2>1. /\ subscriber = "open" /\ event_queue = <<>> /\ router = "done"
        /\ subscriber' = "ended"
        /\ UNCHANGED <<received, shutdown_sent, read>>
    BY <1>4 DEF RecvNone
  <2>2. shutdown_sent \/ Len(received) = read
    BY <1>1, <2>1 DEF WholeUnlessStopped, Delivered, TypeOK
  <2> QED
    BY <2>1, <2>2 DEF Promise!Next, Promise!End
<1>5. CASE Shutdown
  BY <1>5 DEF Shutdown, Promise!Next, Promise!Stop
<1>6. CASE DropSubscriber
  BY <1>6 DEF DropSubscriber, Promise!vars
<1>7. CASE PollError \/ SendItem \/ SendFails \/ AllSent \/ RouterTask
            \/ DropHandle \/ Join \/ Terminated \/ UNCHANGED vars
  BY <1>7 DEF PollError, SendItem, SendFails, AllSent, RouterTask, RouteItem,
     ItemsEnd, DeliverEvent, BatchDelivered, StopRouting, StopWatching,
     DropHandle, Join, Terminated, vars, Promise!vars
<1> QED
  BY <1>2, <1>3, <1>4, <1>5, <1>6, <1>7 DEF Next, TailerTask, Caller

(* The tasks, channels and queues together deliver the log in order and    *)
(* without a gap, and report the end early only after shutdown().          *)
THEOREM Refinement == Spec => ImplementsLogDelivery
BY PromiseInit, PromiseStep, Invariance, ReadBeforeDelivered, PTL
   DEF Spec, ImplementsLogDelivery, Promise!Spec
=============================================================================

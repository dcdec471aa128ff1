---------------------------- MODULE EventStream ----------------------------
(***************************************************************************)
(* The streaming pipeline of stream.rs: a tailer task, a bounded channel   *)
(* of pipeline items, a router task, the subscriber's bounded event queue, *)
(* the shutdown watch channel, and the supervisor that joins both tasks.   *)
(*                                                                         *)
(* The events that the log holds are numbered from 1 in log order.  What   *)
(* an entry says is left out: an entry is the interval of events that      *)
(* routing it yields (none, one, or several for a batched entry).          *)
(***************************************************************************)
EXTENDS Naturals, Sequences

CONSTANTS
  ItemCapacity,     \* PIPELINE_CAPACITY
  EventCapacity,    \* EVENT_QUEUE_CAPACITY
  MaxBatch,         \* entries one poll or flush returns, at most
  MaxEventsOfEntry, \* events one entry yields, at most
  MaxRead           \* events read, at most: bounds the log

ASSUME CapacityAssumption == /\ ItemCapacity \in Nat \ {0}
                             /\ EventCapacity \in Nat \ {0}
ASSUME BoundsAssumption == /\ MaxBatch \in Nat
                           /\ MaxEventsOfEntry \in Nat
                           /\ MaxRead \in Nat

VARIABLES
  once,            \* the caller chose start_once (TRUE) or start (FALSE)
  tailer,          \* where the tailer task is
  outgoing,        \* the items it has read and not yet sent
  item_queue,      \* the tailer-to-router channel
  router,          \* where the router task is
  batch,           \* the events of the routed item still to be delivered
  watching,        \* watching_shutdown in run_router
  event_queue,     \* the subscriber's queue
  subscriber,      \* the Subscriber: still open, told None, or dropped
  shutdown_sent,   \* shutdown() was called: the watch channel holds true
  handle_dropped,  \* the MtgaEventStream was dropped: the watch is closed
  pipeline,        \* what the supervisor task waits for
  read,            \* history: events of all the items the tailer returned
  received         \* history: events the subscriber received

tailerVars     == <<tailer, outgoing>>
routerVars     == <<router, batch, watching>>
subscriberVars == <<subscriber, received>>
handleVars     == <<once, shutdown_sent, handle_dropped>>
vars == <<tailerVars, item_queue, routerVars, event_queue, subscriberVars,
          handleVars, pipeline, read>>

TailerState == {"polling", "sending", "flushing", "done"}
RouterState == {"receiving", "delivering", "done"}
SubscriberState == {"open", "ended", "dropped"}
PipelineState == {"tailer", "router", "joined"}

(* An item stands for the events first..last of the log.                   *)
PipelineItem == [kind : {"Entry", "Event"}, first : Nat \ {0}, last : Nat]

(* Mutant: a batched entry delivers its first event only.                  *)
FirstEventOf(item) == IF item.first > item.last THEN <<>> ELSE <<item.first>>

(* What Router::route makes of an item: its events, in order.              *)
EventsOf(item) ==
  [i \in 1 .. (item.last + 1) - item.first |-> item.first + i - 1]

-----------------------------------------------------------------------------
Init ==
  /\ once \in BOOLEAN
  /\ tailer = "polling"
  /\ outgoing = <<>>
  /\ item_queue = <<>>
  /\ router = "receiving"
  /\ batch = <<>>
  /\ watching = TRUE
  /\ event_queue = <<>>
  /\ subscriber = "open"
  /\ shutdown_sent = FALSE
  /\ handle_dropped = FALSE
  /\ pipeline = "tailer"
  /\ read = 0
  /\ received = <<>>

-----------------------------------------------------------------------------
(* The tailer task.                                                        *)

(* The last events of the entries that follow event `base`: they grow, by  *)
(* as many events as an entry yields.                                      *)
EntryEnds(base) ==
  {ends \in UNION {[1 .. n -> base .. MaxRead] : n \in 0 .. MaxBatch} :
     /\ \A i, j \in DOMAIN ends : i <= j => ends[i] <= ends[j]
     /\ \A i \in DOMAIN ends :
          ends[i] <= (IF i = 1 THEN base ELSE ends[i - 1]) + MaxEventsOfEntry}

Entries(base, ends) ==
  [i \in 1 .. Len(ends) |->
     [kind  |-> "Entry",
      first |-> (IF i = 1 THEN base ELSE ends[i - 1]) + 1,
      last  |-> ends[i]]]

LastEvent(base, ends) == IF ends = <<>> THEN base ELSE ends[Len(ends)]

(* LogFileRotated goes out before the entries of the poll that found it.   *)
PollItems(rotated, ends) ==
  IF rotated
  THEN <<[kind |-> "Event", first |-> read + 1, last |-> read + 1]>>
         \o Entries(read + 1, ends)
  ELSE Entries(read, ends)

(* A tick won the select: the poll returns entries, after a rotation or    *)
(* not.  In one-shot mode the one read of the whole file returns them and  *)
(* a rotation is not looked at.                                            *)
Poll ==
  /\ tailer = "polling"
  /\ \E rotated \in IF once THEN {FALSE} ELSE BOOLEAN :
       LET base == IF rotated THEN read + 1 ELSE read
       IN  /\ base <= MaxRead
           /\ \E ends \in EntryEnds(base) :
                /\ outgoing' = PollItems(rotated, ends)
                /\ read' = LastEvent(base, ends)
  /\ tailer' = "sending"
  /\ UNCHANGED <<item_queue, routerVars, event_queue, subscriberVars,
                 handleVars, pipeline>>

(* The poll fails: the task returns and what it had read is lost.          *)
PollError ==
  /\ tailer = "polling"
  /\ tailer' = "done"
  /\ UNCHANGED <<outgoing, item_queue, routerVars, event_queue,
                 subscriberVars, handleVars, pipeline, read>>

(* Mutant: the tailer takes a closed watch for no change.                  *)
OnlyShutdown == shutdown_sent

(* shutdown.changed() resolves: a value was sent or the sender dropped.    *)
ShutdownChanged == shutdown_sent \/ handle_dropped

(* shutdown.changed() won the select, because shutdown() was called or the *)
(* handle was dropped: what the tailer still buffers is flushed.  The      *)
(* one-shot tailer does not watch shutdown.                                *)
StopTailing ==
  /\ ~once
  /\ tailer = "polling"
  /\ ShutdownChanged
  /\ \E ends \in EntryEnds(read) :
       /\ outgoing' = Entries(read, ends)
       /\ read' = LastEvent(read, ends)
  /\ tailer' = "flushing"
  /\ UNCHANGED <<item_queue, routerVars, event_queue, subscriberVars,
                 handleVars, pipeline>>

(* item_tx.send(item).await finds space.                                   *)
SendItem ==
  /\ tailer \in {"sending", "flushing"}
  /\ outgoing # <<>>
  /\ router # "done"
  /\ Len(item_queue) < ItemCapacity
  /\ item_queue' = Append(item_queue, Head(outgoing))
  /\ outgoing' = Tail(outgoing)
  /\ UNCHANGED <<tailer, routerVars, event_queue, subscriberVars,
                 handleVars, pipeline, read>>

(* item_tx.send(item).await fails, the router is gone: a poll's items are  *)
(* given up together, a flush ignores the error of each of its sends.      *)
SendFails ==
  /\ outgoing # <<>>
  /\ router = "done"
  /\ \/ /\ tailer = "sending"
        /\ tailer' = "done"
        /\ outgoing' = <<>>
     \/ /\ tailer = "flushing"
        /\ outgoing' = Tail(outgoing)
        /\ UNCHANGED tailer
  /\ UNCHANGED <<item_queue, routerVars, event_queue, subscriberVars,
                 handleVars, pipeline, read>>

(* Mutant: the one-shot tailer polls again.                                *)
KeepPolling == IF tailer = "sending" THEN "polling" ELSE "done"

(* What follows the last send: the next poll, or the task's return.        *)
AfterSending == IF tailer = "sending" /\ ~once THEN "polling" ELSE "done"

(* Everything was sent: poll again, or drop item_tx and return.            *)
AllSent ==
  /\ tailer \in {"sending", "flushing"}
  /\ outgoing = <<>>
  /\ tailer' = AfterSending
  /\ UNCHANGED <<outgoing, item_queue, routerVars, event_queue,
                 subscriberVars, handleVars, pipeline, read>>

-----------------------------------------------------------------------------
(* The router task.                                                        *)

(* item_rx.recv() returns an item, which is routed.                        *)
RouteItem ==
  /\ router = "receiving"
  /\ item_queue # <<>>
  /\ batch' = EventsOf(Head(item_queue))
  /\ item_queue' = Tail(item_queue)
  /\ router' = "delivering"
  /\ UNCHANGED <<tailerVars, watching, event_queue, subscriberVars,
                 handleVars, pipeline, read>>

(* Mutant: an empty channel is taken for a closed one (try_recv).          *)
EmptyIsClosed == item_queue = <<>>

(* No item is left and the tailer dropped item_tx.                         *)
ItemsClosed == item_queue = <<>> /\ tailer = "done"

(* item_rx.recv() returns None.                                            *)
ItemsEnd ==
  /\ router = "receiving"
  /\ ItemsClosed
  /\ router' = "done"
  /\ UNCHANGED <<tailerVars, item_queue, batch, watching, event_queue,
                 subscriberVars, handleVars, pipeline, read>>

(* Mutant: the queue takes one event more than its capacity.               *)
OneMoreFits == Len(event_queue) <= EventCapacity

(* event_tx.reserve() is granted at once.                                  *)
QueueHasRoom == Len(event_queue) < EventCapacity

(* event_tx.reserve() grants a permit and the event is sent.               *)
DeliverEvent ==
  /\ router = "delivering"
  /\ batch # <<>>
  /\ subscriber # "dropped"
  /\ QueueHasRoom
  /\ event_queue' = Append(event_queue, Head(batch))
  /\ batch' = Tail(batch)
  /\ UNCHANGED <<tailerVars, item_queue, router, watching, subscriberVars,
                 handleVars, pipeline, read>>

BatchDelivered ==
  /\ router = "delivering"
  /\ batch = <<>>
  /\ router' = "receiving"
  /\ UNCHANGED <<tailerVars, item_queue, batch, watching, event_queue,
                 subscriberVars, handleVars, pipeline, read>>

(* Mutant: a select without `biased`, which may look at shutdown first.    *)
UnbiasedSelect ==
  /\ router = "delivering"
  /\ batch # <<>>
  /\ subscriber # "dropped"

(* reserve() is pending, and so the biased select looks at shutdown.       *)
Blocked ==
  /\ router = "delivering"
  /\ batch # <<>>
  /\ subscriber # "dropped"
  /\ ~QueueHasRoom

(* Mutants: deliver never looks at shutdown; it takes a closed watch for a *)
(* stop request.                                                           *)
NeverStop == FALSE
ClosedIsStop == watching /\ (shutdown_sent \/ handle_dropped)

(* shutdown.changed() is Ok: the value sent counts even when the sender    *)
(* was dropped after it.                                                   *)
StopRequested == watching /\ shutdown_sent

(* deliver returns false: the subscriber was dropped, or the queue is full *)
(* and shutdown() was called.  item_rx and event_tx go with the task.      *)
StopRouting ==
  /\ \/ router = "delivering" /\ batch # <<>> /\ subscriber = "dropped"
     \/ Blocked /\ StopRequested
  /\ router' = "done"
  /\ batch' = <<>>
  /\ item_queue' = <<>>
  /\ UNCHANGED <<tailerVars, watching, event_queue, subscriberVars,
                 handleVars, pipeline, read>>

(* A blocked delivery finds the watch closed without a shutdown().         *)
StopWatching ==
  /\ Blocked
  /\ watching
  /\ handle_dropped
  /\ ~shutdown_sent
  /\ watching' = FALSE
  /\ UNCHANGED <<tailerVars, item_queue, router, batch, event_queue,
                 subscriberVars, handleVars, pipeline, read>>

-----------------------------------------------------------------------------
(* The subscriber, the handle and the supervisor.                          *)

(* Subscriber::recv() returns an event.                                    *)
Recv ==
  /\ subscriber = "open"
  /\ event_queue # <<>>
  /\ received' = Append(received, Head(event_queue))
  /\ event_queue' = Tail(event_queue)
  /\ UNCHANGED <<tailerVars, item_queue, routerVars, subscriber, handleVars,
                 pipeline, read>>

(* Subscriber::recv() returns None: the queue is empty and event_tx gone.  *)
RecvNone ==
  /\ subscriber = "open"
  /\ event_queue = <<>>
  /\ router = "done"
  /\ subscriber' = "ended"
  /\ UNCHANGED <<tailerVars, item_queue, routerVars, event_queue, received,
                 handleVars, pipeline, read>>

(* The caller drops the Subscriber, and the queue with it.                 *)
DropSubscriber ==
  /\ subscriber = "open"
  /\ subscriber' = "dropped"
  /\ event_queue' = <<>>
  /\ UNCHANGED <<tailerVars, item_queue, routerVars, received, handleVars,
                 pipeline, read>>

(* shutdown(): later calls send the same value again and change nothing    *)
(* that a task still reads.                                                *)
Shutdown ==
  /\ ~handle_dropped
  /\ ~shutdown_sent
  /\ shutdown_sent' = TRUE
  /\ UNCHANGED <<tailerVars, item_queue, routerVars, event_queue,
                 subscriberVars, once, handle_dropped, pipeline, read>>

DropHandle ==
  /\ ~handle_dropped
  /\ handle_dropped' = TRUE
  /\ UNCHANGED <<tailerVars, item_queue, routerVars, event_queue,
                 subscriberVars, once, shutdown_sent, pipeline, read>>

(* The supervisor awaits the tailer task, then the router task.            *)
Join ==
  /\ \/ pipeline = "tailer" /\ tailer = "done" /\ pipeline' = "router"
     \/ pipeline = "router" /\ router = "done" /\ pipeline' = "joined"
  /\ UNCHANGED <<tailerVars, item_queue, routerVars, event_queue,
                 subscriberVars, handleVars, read>>

-----------------------------------------------------------------------------
TailerTask == Poll \/ PollError \/ SendItem \/ SendFails \/ AllSent
                \/ StopTailing
RouterTask == RouteItem \/ ItemsEnd \/ DeliverEvent \/ BatchDelivered
                \/ StopRouting \/ StopWatching
Caller     == Recv \/ RecvNone \/ DropSubscriber \/ Shutdown \/ DropHandle

(* Everything is over; not an action of the code.                          *)
Terminated ==
  /\ pipeline = "joined"
  /\ subscriber # "open"
  /\ handle_dropped
  /\ UNCHANGED vars

Next == TailerTask \/ RouterTask \/ Caller \/ Join \/ Terminated

Spec == Init /\ [][Next]_vars

(* Each task runs whenever it can.  tokio::select! picks a ready branch at *)
(* random, so the tailer cannot pass over a shutdown forever (SF).         *)
TaskFairness ==
  /\ WF_vars(Poll \/ PollError)
  /\ WF_vars(SendItem \/ SendFails \/ AllSent)
  /\ SF_vars(StopTailing)
  /\ WF_vars(RouterTask)
  /\ WF_vars(Join)

(* Nothing is assumed of the subscriber, which may never read.             *)
FairSpec == Spec /\ TaskFairness

(* The caller's part: it reads for as long as the subscriber is not        *)
(* dropped.                                                                *)
KeepsReading == WF_vars(Recv \/ RecvNone)

-----------------------------------------------------------------------------
(* Every variable has its type and neither queue exceeds its capacity.     *)
TypeOK ==
  /\ once \in BOOLEAN
  /\ tailer \in TailerState
  /\ outgoing \in Seq(PipelineItem)
  /\ item_queue \in Seq(PipelineItem)
  /\ Len(item_queue) <= ItemCapacity
  /\ router \in RouterState
  /\ batch \in Seq(Nat)
  /\ watching \in BOOLEAN
  /\ event_queue \in Seq(Nat)
  /\ Len(event_queue) <= EventCapacity
  /\ subscriber \in SubscriberState
  /\ shutdown_sent \in BOOLEAN
  /\ handle_dropped \in BOOLEAN
  /\ pipeline \in PipelineState
  /\ read \in Nat
  /\ received \in Seq(Nat)

(* The subscriber receives the events of the log in log order, each once   *)
(* and without a gap, whatever the tasks, shutdown and drops interleave    *)
(* to: "a gap-free, in-order prefix" (stream.rs, Shutdown).                *)
InLogOrder == \A i \in DOMAIN received : received[i] = i

(* The events delivered so far, read from the queue or not.                *)
Delivered == Len(received) + Len(event_queue)

(* Items follow event n when each goes on where the one before it ended.   *)
EndOf(items, n) == IF items = <<>> THEN n ELSE items[Len(items)].last

Follow(items, n) ==
  \A i \in DOMAIN items :
    /\ items[i].first = (IF i = 1 THEN n ELSE items[i - 1].last) + 1
    /\ items[i].first <= items[i].last + 1

(* While the router and the subscriber live, what was received, queued,    *)
(* routed, sent and read is, in this order, the whole log so far: no step  *)
(* of any task drops, repeats or reorders an event on its way.             *)
NothingLost ==
  subscriber = "open" =>
    /\ \A i \in DOMAIN event_queue : event_queue[i] = Len(received) + i
    /\ router # "done" =>
         LET routed == Delivered + Len(batch)
             sent   == EndOf(item_queue, routed)
         IN  /\ \A i \in DOMAIN batch : batch[i] = Delivered + i
             /\ Follow(item_queue, routed)
             /\ Follow(outgoing, sent)
             /\ EndOf(outgoing, sent) = read

(* The router gives up events it could still get only when the subscriber  *)
(* is gone or when, after shutdown(), it has just found the queue full:    *)
(* "the prefix ends where the router found the queue full".                *)
StopsAtFullQueue ==
  [][(router # "done" /\ router' = "done" /\ Delivered < read)
       => \/ subscriber = "dropped"
          \/ shutdown_sent /\ Len(event_queue) = EventCapacity]_vars

(* The pipeline implements what it promises: in order, gap-free, and the   *)
(* end is told only when nothing is missing or after shutdown().           *)
Promise == INSTANCE LogDelivery WITH
  read     <- read,
  received <- received,
  stopped  <- shutdown_sent,
  ended    <- (subscriber = "ended")

ImplementsLogDelivery == Promise!Spec

(* shutdown() ends both tasks although the subscriber may never read and   *)
(* both queues may be full: "A subscriber that is never read does not keep *)
(* the pipeline alive".                                                    *)
ShutdownEndsPipeline == shutdown_sent ~> pipeline = "joined"

(* For a subscriber that keeps reading, or is dropped, dropping the handle *)
(* ends both tasks; without this, a queue that nobody empties holds them.  *)
HandleDropEndsPipeline ==
  KeepsReading => (handle_dropped ~> pipeline = "joined")

(* A one-shot stream ends by itself for a subscriber that keeps reading.   *)
OneShotEnds == KeepsReading => (once ~> subscriber # "open")

(* Unless shutdown() is called or the subscriber dropped, every event read *)
(* reaches a subscriber that keeps reading, also after the handle is gone: *)
(* "the subscriber receives every remaining event".                        *)
EveryEventArrives ==
  KeepsReading =>
    \A n \in 1 .. MaxRead :
      read >= n ~> (Len(received) >= n \/ shutdown_sent
                                       \/ subscriber = "dropped")
=============================================================================

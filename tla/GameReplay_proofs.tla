------------------------- MODULE GameReplay_proofs -------------------------
(***************************************************************************)
(* Proofs of MissedStatesNoticed, BoardIsGames, StoryIsGames and           *)
(* CardsFollowed for games of any length, any deck (instance ids leave     *)
(* room for 999 cards), and any states left out, sent again or rolled      *)
(* back.  The first one needs only the ids of the states (IInv); the       *)
(* others what the consumer has of each of them (BInv).                    *)
(***************************************************************************)
EXTENDS GameReplay, FiniteSetTheorems, TLAPS

(* The last state the consumer was told, or 0: those after it are missing. *)
LastTold ==
  /\ consumer.last \in 0 .. Len(states)
  /\ consumer.last \notin lost
  /\ consumer.last + 1 .. Len(states) \subseteq lost

(* A state before the last one told is missing, and no Full state was told *)
(* since.                                                                  *)
GapBefore(last, missing, full) ==
  \E k \in missing : k < last /\ \A f \in full \ missing : f < k

IInv ==
  /\ states \in Seq(ToSet(states))
  /\ lost \subseteq 1 .. Len(states)
  /\ DOMAIN whole \subseteq 1 .. Len(states)
  /\ states # <<>> => 1 \in DOMAIN whole
  /\ LastTold
  /\ consumer.sync \in BOOLEAN
  /\ consumer.sync <=> consumer.last # 0 /\ ~GapBefore(consumer.last, lost, DOMAIN whole)

(* The fields of two objects.                                              *)
LEMMA Merged ==
  ASSUME NEW f, NEW g
  PROVE  /\ DOMAIN (f ++ g) = DOMAIN f \cup DOMAIN g
         /\ \A x \in DOMAIN f : (f ++ g)[x] = f[x]
         /\ \A x \in DOMAIN g : x \notin DOMAIN f => (f ++ g)[x] = g[x]
BY DEF ++

(* The payload has the type, the id and the predecessor of the state.      *)
LEMMA Payload ==
  ASSUME NEW msg, "gameStateId" \in DOMAIN msg, "gameStateMessage" \in DOMAIN msg,
         NEW gsm, msg.gameStateMessage = gsm, "type" \in DOMAIN gsm
  PROVE  LET payload == build_game_state_message_payload(msg, lean)
         IN  /\ payload.game_state_type = <<gsm.type>>
             /\ payload.game_state_id = msg.gameStateId
             /\ payload.prev_game_state_id = get(gsm, "prevGameStateId")
<1>1. unwrap_or(get(msg, "gameStateMessage"), <<>>) = gsm
  BY DEF unwrap_or, get
<1>2. get(gsm, "type") = <<gsm.type>>
  BY DEF get
<1> DEFINE first == [type |-> IF unwrap_or(get(msg, "type"), "") = "QueuedGameStateMessage"
                THEN "queued_game_state_message" ELSE "game_state_message",
       game_state_type |-> get(gsm, "type"),
       update |-> update(gsm),
       prev_game_state_id |-> prev_game_state_id(gsm),
       game_info |-> get(gsm, "gameInfo"),
       turn_info |-> extract_turn_info(gsm),
       diff_deleted_instance_ids |-> diff_deleted_instance_ids(gsm)]
  ids == Copied(msg, [msg_id |-> Num("msgId"), game_state_id |-> Num("gameStateId")])
  rest == IF lean THEN <<>>
         ELSE [zones |-> extract_zones(gsm),
               game_objects |-> extract_game_objects(gsm),
               annotations |-> extract_annotations(gsm),
               persistent_annotations |-> extract_persistent_annotations(gsm),
               timers |-> extract_timers(gsm)]
<1>3. build_game_state_message_payload(msg, lean) = (first ++ ids) ++ rest
  BY <1>1 DEF build_game_state_message_payload
<1>4. /\ {"game_state_type", "prev_game_state_id"} \subseteq DOMAIN first
      /\ "game_state_id" \notin DOMAIN first
      /\ first["game_state_type"] = <<gsm.type>>
      /\ first["prev_game_state_id"] = get(gsm, "prevGameStateId")
  BY <1>2 DEF prev_game_state_id
<1>5. "game_state_id" \in DOMAIN ids /\ ids["game_state_id"] = msg.gameStateId
  BY DEF Copied, unwrap_or, get, Num, From
<1> HIDE DEF first, ids, rest
<1> DEFINE both == first ++ ids
           payload == both ++ rest
<1>6. payload = build_game_state_message_payload(msg, lean)
  BY <1>3
<1>7. /\ DOMAIN both = DOMAIN first \cup DOMAIN ids
      /\ \A x \in DOMAIN first : both[x] = first[x]
      /\ \A x \in DOMAIN ids : x \notin DOMAIN first => both[x] = ids[x]
  BY Merged
<1> HIDE DEF both
<1>8. \A x \in DOMAIN both : payload[x] = both[x]
  BY Merged
<1> HIDE DEF payload
<1>9. /\ payload["game_state_type"] = <<gsm.type>>
      /\ payload["prev_game_state_id"] = get(gsm, "prevGameStateId")
      /\ payload["game_state_id"] = msg.gameStateId
  BY <1>4, <1>5, <1>7, <1>8
<1> QED
  BY <1>6, <1>9

-----------------------------------------------------------------------------
(* The messages of the game, as far as the consumer asks for its place.    *)

Keeps(f, g) == \A x \in DOMAIN f : x \in DOMAIN g /\ g[x] = f[x]

LEMMA MergeKeeps ==
  ASSUME NEW f, NEW g
  PROVE  Keeps(f, f ++ g)
<1> DEFINE h == f ++ g
<1>1. DOMAIN h = DOMAIN f \cup DOMAIN g /\ \A x \in DOMAIN f : h[x] = f[x]
  BY Merged
<1> HIDE DEF h
<1>2. Keeps(f, h)
  BY <1>1 DEF Keeps
<1> QED
  BY <1>2 DEF h

LEMMA FullIsFull ==
  ASSUME NEW g
  PROVE  "type" \in DOMAIN FullState(g) /\ FullState(g)["type"] = "GameStateType_Full"
<1> DEFINE base ==
      [type |-> "GameStateType_Full", update |-> "GameStateUpdate_Send",
       gameStateId |-> Len(states) + 1,
       zones |-> [i \in 1 .. 3 |-> Zone(g, Ascending(Zones)[i])],
       timers |-> [seat \in 1 .. 2 |-> Timer(g, seat)],
       turnInfo |-> TurnInfo(g)]
    objects == Items("gameObjects", [i \in DOMAIN Ascending(Visible(g)) |->
                             Object(g, Ascending(Visible(g))[i])])
    grants == Items("persistentAnnotations",
           LET ids == Ascending(DOMAIN g.granted)
           IN  [i \in DOMAIN ids |-> Grant(g, ids[i])])
    more == base ++ objects
    all == more ++ grants
<1>1. FullState(g) = all
  BY DEF FullState
<1>2. "type" \in DOMAIN base /\ base["type"] = "GameStateType_Full"
  OBVIOUS
<1> HIDE DEF base, objects, grants
<1>3. Keeps(base, more)
  BY MergeKeeps
<1> HIDE DEF more
<1>4. Keeps(more, all)
  BY MergeKeeps
<1> HIDE DEF all
<1> QED
  BY <1>1, <1>2, <1>3, <1>4 DEF Keeps

LEMMA DiffIsDiff ==
  ASSUME NEW old, NEW g, NEW annotations
  PROVE  LET diff == DiffState(old, g, annotations)
         IN  /\ {"type", "prevGameStateId"} \subseteq DOMAIN diff
             /\ diff["type"] = "GameStateType_Diff"
             /\ diff["prevGameStateId"] = Len(states)
<1> DEFINE base ==
      [type |-> "GameStateType_Diff", update |-> "GameStateUpdate_SendHiFi",
       gameStateId |-> Len(states) + 1, prevGameStateId |-> Len(states)]
    zones   == Ascending({z \in Zones : old.zones[z] # g.zones[z]})
    objects == Ascending({id \in Visible(g) :
                           \/ id \notin Visible(old)
                           \/ Object(old, id) # Object(g, id)})
    grants  == Ascending(DOMAIN g.granted \ DOMAIN old.granted)
    d1 == base ++ Items("zones", [i \in DOMAIN zones |-> Zone(g, zones[i])])
    d2 == d1 ++ Items("gameObjects", [i \in DOMAIN objects |-> Object(g, objects[i])])
    d3 == d2 ++ Items("diffDeletedInstanceIds", Ascending(Visible(old) \ Visible(g)))
    d4 == d3 ++ Items("annotations", annotations)
    d5 == d4 ++ Items("persistentAnnotations",
               [i \in DOMAIN grants |-> Grant(g, grants[i])])
    diff == d5 ++ IF old.turn = g.turn THEN <<>>
         ELSE [turnInfo |-> TurnInfo(g),
               timers |-> [seat \in 1 .. 2 |-> Timer(g, seat)]]
<1>1. DiffState(old, g, annotations) = diff
  BY DEF DiffState
<1>2. /\ {"type", "prevGameStateId"} \subseteq DOMAIN base
      /\ base["type"] = "GameStateType_Diff"
      /\ base["prevGameStateId"] = Len(states)
  OBVIOUS
<1> HIDE DEF base, zones, objects, grants
<1>3. Keeps(base, d1)
  BY MergeKeeps
<1> HIDE DEF d1
<1>4. Keeps(d1, d2)
  BY MergeKeeps
<1> HIDE DEF d2
<1>5. Keeps(d2, d3)
  BY MergeKeeps
<1> HIDE DEF d3
<1>6. Keeps(d3, d4)
  BY MergeKeeps
<1> HIDE DEF d4
<1>7. Keeps(d4, d5)
  BY MergeKeeps
<1> HIDE DEF d5
<1>8. Keeps(d5, diff)
  BY MergeKeeps
<1> HIDE DEF diff
<1> QED
  BY <1>1, <1>2, <1>3, <1>4, <1>5, <1>6, <1>7, <1>8 DEF Keeps

LEMMA UndoIsFull ==
  ASSUME NEW g, NEW k
  PROVE  LET undo == [update |-> "GameStateUpdate_Undo", prevGameStateId |-> k]
                       ++ FullState(g)
         IN  "type" \in DOMAIN undo /\ undo["type"] = "GameStateType_Full"
<1> DEFINE head == [update |-> "GameStateUpdate_Undo", prevGameStateId |-> k]
           full == FullState(g)
<1>1. "type" \in DOMAIN full /\ full["type"] = "GameStateType_Full"
  BY FullIsFull
<1>2. "type" \notin DOMAIN head
  OBVIOUS
<1> HIDE DEF head, full
<1> DEFINE undo == head ++ full
<1>3. /\ DOMAIN undo = DOMAIN head \cup DOMAIN full
      /\ \A x \in DOMAIN full : x \notin DOMAIN head => undo[x] = full[x]
  BY Merged
<1> HIDE DEF undo
<1>4. "type" \in DOMAIN undo /\ undo["type"] = "GameStateType_Full"
  BY <1>1, <1>2, <1>3
<1> QED
  BY <1>4 DEF undo, head, full

-----------------------------------------------------------------------------
(* One more state of the game: told or left out, whole or as a difference. *)

(* What the consumer knows of its place after the message gsm.             *)
LEMMA Consumed ==
  ASSUME NEW gsm, "type" \in DOMAIN gsm, NEW msg,
         "gameStateId" \in DOMAIN msg, "gameStateMessage" \in DOMAIN msg,
         msg.gameStateMessage = gsm,
         Consume(build_game_state_message_payload(msg, lean))
  PROVE  /\ consumer'["last"] = msg.gameStateId
         /\ consumer'["sync"] = (\/ <<gsm.type>> = <<"GameStateType_Full">>
                                \/ /\ consumer.sync
                                   /\ get(gsm, "prevGameStateId") = <<consumer.last>>)
<1>1. PICK payload : payload = build_game_state_message_payload(msg, lean)
  OBVIOUS
<1>2. /\ payload.game_state_type = <<gsm.type>>
      /\ payload.game_state_id = msg.gameStateId
      /\ payload.prev_game_state_id = get(gsm, "prevGameStateId")
  BY <1>1, Payload
<1> DEFINE full  == payload.game_state_type = <<"GameStateType_Full">>
           sync  == \/ full
                    \/ consumer.sync /\ payload.prev_game_state_id = <<consumer.last>>
           story == StoryAfter(payload, full, sync)
           base  == [sync |-> sync, last |-> payload.game_state_id, story |-> story,
                     past |-> IF story = <<>> THEN consumer.past
                              ELSE Field(payload.game_state_id, Head(story))
                                     ++ consumer.past,
                     turn |-> IF payload.turn_info = <<>> THEN consumer.turn
                              ELSE Head(payload.turn_info).turn_number]
           rest  == IF lean THEN consumer ELSE Replayed(payload, full) ++ consumer
           known == base ++ rest
<1>3. consumer' = known
  BY <1>1 DEF Consume
<1>4. /\ {"sync", "last"} \subseteq DOMAIN base
      /\ base["sync"] = sync /\ base["last"] = payload.game_state_id
  OBVIOUS
<1> HIDE DEF base, rest
<1>5. Keeps(base, known)
  BY MergeKeeps
<1> HIDE DEF known
<1>6. known["sync"] = sync /\ known["last"] = payload.game_state_id
  BY <1>4, <1>5 DEF Keeps
<1> QED
  BY <1>2, <1>3, <1>6

LEMMA TellStep ==
  ASSUME IInv, NEW g, NEW gsm, "type" \in DOMAIN gsm, Tell(g, gsm),
         \/ gsm.type = "GameStateType_Full"
         \/ /\ gsm.type = "GameStateType_Diff" /\ states # <<>>
            /\ get(gsm, "prevGameStateId") = <<Len(states)>>
  PROVE  IInv'
<1>0. PICK n : n = Len(states) + 1
  OBVIOUS
<1>1. /\ states \in Seq(ToSet(states)) /\ Len(states) \in Nat
      /\ states' = Append(states, g)
      /\ whole' = IF gsm.type = "GameStateType_Full"
                  THEN Field(n, gsm.update) ++ whole ELSE whole
  BY <1>0 DEF IInv, Tell
<1>2. states' \in Seq(ToSet(states)') /\ Len(states') = n /\ states' # <<>>
  <2>1. states' \in Seq(ToSet(states) \cup {g}) /\ Len(states') = n
    BY <1>0, <1>1
  <2>2. PICK longer : longer = states'
    OBVIOUS
  <2>3. longer \in Seq(ToSet(longer))
    BY <2>1, <2>2 DEF ToSet
  <2>4. longer # <<>>
    BY <1>0, <1>1, <2>1, <2>2
  <2> QED
    BY <2>1, <2>2, <2>3, <2>4
<1>3. DOMAIN whole' = IF gsm.type = "GameStateType_Full"
                      THEN DOMAIN whole \cup {n} ELSE DOMAIN whole
  <2> DEFINE field == Field(n, gsm.update)
  <2>1. DOMAIN field = {n}
    BY DEF Field
  <2> HIDE DEF field
  <2> DEFINE more == field ++ whole
  <2>2. DOMAIN more = {n} \cup DOMAIN whole
    BY <2>1, Merged
  <2>3. whole' = IF gsm.type = "GameStateType_Full" THEN more ELSE whole
    BY <1>1 DEF field
  <2> HIDE DEF more
  <2> QED
    BY <2>2, <2>3
<1> DEFINE msg == [type |-> IF Len(states) % 2 = 0 THEN "GameStateMessage"
                                                   ELSE "QueuedGameStateMessage",
                   gameStateId |-> n, gameStateMessage |-> gsm]
<1> HIDE DEF msg
<1>4. /\ lost \subseteq 1 .. Len(states) /\ DOMAIN whole \subseteq 1 .. Len(states)
      /\ states # <<>> => 1 \in DOMAIN whole
      /\ consumer.last \in 0 .. Len(states) /\ consumer.last \notin lost
      /\ consumer.last + 1 .. Len(states) \subseteq lost
      /\ consumer.sync \in BOOLEAN
      /\ consumer.sync <=> consumer.last # 0 /\ ~GapBefore(consumer.last, lost, DOMAIN whole)
  BY DEF IInv, LastTold
<1>5. /\ DOMAIN whole' \subseteq 1 .. n /\ 1 \in DOMAIN whole'
      /\ states = <<>> => gsm.type = "GameStateType_Full"
  BY <1>0, <1>1, <1>3, <1>4
<1>6. ASSUME LastTold', consumer'.sync \in BOOLEAN, lost' \subseteq 1 .. n,
             consumer'.sync <=> /\ consumer'.last # 0
                                /\ ~GapBefore(consumer'.last, lost', DOMAIN whole')
      PROVE  IInv'
  BY <1>2, <1>5, <1>6 DEF IInv
<1>7. CASE Consume(build_game_state_message_payload(msg, lean)) /\ lost' = lost
  <2>1. /\ consumer'.last = n
        /\ consumer'.sync = (\/ gsm.type = "GameStateType_Full"
                             \/ /\ consumer.sync
                                /\ get(gsm, "prevGameStateId") = <<consumer.last>>)
    <3>1. /\ "gameStateId" \in DOMAIN msg /\ "gameStateMessage" \in DOMAIN msg
          /\ msg.gameStateMessage = gsm /\ msg.gameStateId = n
      BY DEF msg
    <3>2. <<gsm.type>> = <<"GameStateType_Full">> <=> gsm.type = "GameStateType_Full"
      OBVIOUS
    <3> QED
      BY <1>7, <3>1, <3>2, Consumed
  <2>2. LastTold' /\ lost' \subseteq 1 .. n /\ n # 0 /\ consumer'.sync \in BOOLEAN
    BY <1>0, <1>1, <1>2, <1>4, <1>7, <2>1 DEF LastTold
  <2>3. SUFFICES consumer'.sync <=> ~GapBefore(n, lost, DOMAIN whole')
    BY <1>6, <1>7, <2>1, <2>2
  <2>4. CASE gsm.type = "GameStateType_Full"
    <3>1. n \in DOMAIN whole' \ lost
      BY <1>0, <1>1, <1>3, <1>4, <2>4
    <3> QED
      BY <1>0, <1>1, <1>4, <2>1, <2>4, <3>1 DEF GapBefore
  <2>5. CASE gsm.type # "GameStateType_Full"
    <3>1. /\ DOMAIN whole' = DOMAIN whole /\ states # <<>>
          /\ consumer'.sync <=> consumer.sync /\ Len(states) = consumer.last
      <4>1. get(gsm, "prevGameStateId") = <<Len(states)>> /\ states # <<>>
        BY <2>5
      <4>2. <<Len(states)>> = <<consumer.last>> <=> Len(states) = consumer.last
        OBVIOUS
      <4> QED
        BY <1>3, <1>4, <2>1, <2>5, <4>1, <4>2
    <3>2. CASE consumer.last = Len(states)
      <4>1. \A k \in lost : k < n <=> k < consumer.last
        BY <1>0, <1>1, <1>4, <3>2
      <4>2. GapBefore(n, lost, DOMAIN whole)
              <=> GapBefore(consumer.last, lost, DOMAIN whole)
        BY <4>1 DEF GapBefore
      <4>3. consumer.last # 0
        BY <1>1, <3>1, <3>2
      <4> QED
        BY <1>4, <3>1, <3>2, <4>2, <4>3
    <3>3. CASE consumer.last # Len(states)
      <4>1. Len(states) \in lost
        BY <1>1, <1>4, <3>3
      <4>2. \A f \in DOMAIN whole \ lost : f < Len(states)
        BY <1>1, <1>4, <4>1
      <4>3. GapBefore(n, lost, DOMAIN whole)
        BY <1>0, <1>1, <4>1, <4>2 DEF GapBefore
      <4> QED
        BY <3>1, <3>3, <4>3
    <3> QED
      BY <3>2, <3>3
  <2> QED
    BY <2>4, <2>5
<1>8. CASE lost' = lost \cup {n} /\ consumer' = consumer
  <2>1. lost' \subseteq 1 .. n /\ n \notin DOMAIN whole
    <3>1. n \in 1 .. n /\ 1 .. Len(states) \subseteq 1 .. n
          /\ n \notin 1 .. Len(states)
      BY <1>0, <1>1
    <3> QED
      BY <1>4, <1>8, <3>1
  <2>4. LastTold'
    <3>1. consumer.last \in 0 .. n /\ consumer.last \notin lost'
      BY <1>0, <1>1, <1>4, <1>8
    <3>2. consumer.last + 1 .. n \subseteq lost'
      BY <1>0, <1>1, <1>4, <1>8
    <3> QED
      BY <1>2, <1>8, <3>1, <3>2 DEF LastTold
  <2>2. DOMAIN whole' \ lost' = DOMAIN whole \ lost
    BY <1>3, <1>8, <2>1
  <2>3. GapBefore(consumer.last, lost', DOMAIN whole')
          <=> GapBefore(consumer.last, lost, DOMAIN whole)
    BY <1>0, <1>1, <1>4, <1>8, <2>2 DEF GapBefore
  <2> QED
    BY <1>4, <1>6, <1>8, <2>1, <2>3, <2>4
<1> QED
  BY <1>0, <1>7, <1>8 DEF Tell, msg

-----------------------------------------------------------------------------
LEMMA InvInit == Init => IInv
<1> SUFFICES ASSUME Init PROVE IInv
  OBVIOUS
<1>1. /\ states = <<>> /\ whole = <<>> /\ lost = {}
      /\ consumer.sync = FALSE /\ consumer.last = 0
  BY DEF Init
<1>2. states \in Seq(ToSet(states)) /\ Len(states) = 0 /\ DOMAIN whole = {}
  BY <1>1 DEF ToSet
<1>3. LastTold
  <2>1. 0 + 1 .. 0 = {}
    OBVIOUS
  <2> QED
    BY <1>1, <1>2, <2>1 DEF LastTold
<1> QED
  BY <1>1, <1>2, <1>3 DEF IInv

LEMMA InvStep == IInv /\ [Next]_vars => IInv'
<1> SUFFICES ASSUME IInv, [Next]_vars PROVE IInv'
  OBVIOUS
<1>1. ASSUME NEW g, Tell(g, FullState(g)) PROVE IInv'
  BY <1>1, FullIsFull, TellStep
<1>2. ASSUME NEW g, NEW annotations, states # <<>>,
             Tell(g, DiffState(game, g, annotations))
      PROVE  IInv'
  <2> DEFINE diff == DiffState(game, g, annotations)
  <2>1. /\ "type" \in DOMAIN diff /\ diff["type"] = "GameStateType_Diff"
        /\ "prevGameStateId" \in DOMAIN diff
        /\ diff["prevGameStateId"] = Len(states)
    BY DiffIsDiff
  <2> HIDE DEF diff
  <2>2. get(diff, "prevGameStateId") = <<Len(states)>>
    BY <2>1 DEF get
  <2>3. Tell(g, diff)
    BY <1>2 DEF diff
  <2> QED
    BY <1>2, <2>1, <2>2, <2>3, TellStep
<1>3. ASSUME NEW g, NEW happening, NEW annotations, Playing,
             Step(g, happening, annotations)
      PROVE  IInv'
  BY <1>2, <1>3 DEF Step, Playing
<1>4. CASE Start
  BY <1>1, <1>4 DEF Start
<1>5. CASE Shuffle
  BY <1>3, <1>5 DEF Shuffle
<1>6. CASE ChangeLife
  BY <1>3, <1>6 DEF ChangeLife
<1>7. CASE NextTurn
  BY <1>2, <1>7 DEF NextTurn, Playing
<1>8. CASE Undo
  <2>1. PICK k : Tell(states[k], [update |-> "GameStateUpdate_Undo",
                                  prevGameStateId |-> k] ++ FullState(states[k]))
    BY <1>8 DEF Undo
  <2> QED
    BY <2>1, UndoIsFull, TellStep
<1>9. CASE Resend
  BY <1>1, <1>9 DEF Resend
<1>10. ASSUME NEW id, NEW to, Move(id, to) PROVE IInv'
  BY <1>3, <1>10 DEF Move
<1>11. ASSUME NEW id, ChangeCounters(id) PROVE IInv'
  BY <1>3, <1>11 DEF ChangeCounters
<1>12. ASSUME NEW id, GrantAbilities(id) PROVE IInv'
  BY <1>2, <1>12 DEF GrantAbilities, Playing
<1>13. ASSUME NEW id, Attack(id) PROVE IInv'
  BY <1>2, <1>13 DEF Attack, Playing
<1>14. CASE UNCHANGED vars
  BY <1>14 DEF vars, IInv, LastTold
<1> QED
  BY <1>4, <1>5, <1>6, <1>7, <1>8, <1>9, <1>10, <1>11, <1>12, <1>13, <1>14
     DEF Next, Terminated

LEMMA InvNotices == IInv => MissedStatesNoticed
<1> SUFFICES ASSUME IInv, UpToDate PROVE consumer.sync <=> ~Gap
  BY DEF MissedStatesNoticed
<1>1. Len(states) \in Nat /\ states # <<>> => Len(states) # 0
  BY DEF IInv
<1>2. /\ consumer.last = Len(states) /\ consumer.last # 0
      /\ \A k \in lost : k < consumer.last
  BY <1>1 DEF IInv, LastTold, UpToDate
<1>3. Gap <=> GapBefore(consumer.last, lost, DOMAIN whole)
  BY <1>2 DEF Gap, GapBefore
<1> QED
  BY <1>2, <1>3 DEF IInv

(* However many states the log leaves out, and wherever, the consumer of   *)
(* the states it is told knows by their prev_game_state_id exactly when it *)
(* has missed one, and that the next Full state makes good for it.         *)
THEOREM MissesKnown == Spec => []MissedStatesNoticed
<1>1. Spec => []IInv
  BY InvInit, InvStep, PTL DEF Spec
<1> QED
  BY <1>1, InvNotices, PTL

-----------------------------------------------------------------------------
(* Lists in ascending order, and lists at some of their places.            *)

(* The place of x in S in ascending order.                                 *)
Rank(S, x) == Cardinality({m \in S : m <= x})

(* Each element of a finite set of numbers has a place of its own, and     *)
(* each place an element.                                                  *)
LEMMA Ranks ==
  ASSUME NEW S \in SUBSET Int, IsFiniteSet(S)
  PROVE  /\ \A x \in S : Rank(S, x) \in 1 .. Cardinality(S)
         /\ \A x, y \in S : Rank(S, x) = Rank(S, y) => x = y
         /\ \A k \in 1 .. Cardinality(S) : \E x \in S : Rank(S, x) = k
<1> DEFINE n == Cardinality(S)
           below(x) == {m \in S : m <= x}
           r == [x \in S |-> Rank(S, x)]
<1>1. n \in Nat
  BY FS_CardinalityType
<1>2. ASSUME NEW x \in S
      PROVE  IsFiniteSet(below(x)) /\ Rank(S, x) \in 1 .. n
             /\ Rank(S, x) = Cardinality(below(x))
  <2>1. below(x) \in SUBSET S /\ x \in below(x)
    OBVIOUS
  <2>2. PICK B : B = below(x)
    OBVIOUS
  <2>3. IsFiniteSet(B) /\ Cardinality(B) <= n
    BY <2>1, <2>2, FS_Subset
  <2>4. Cardinality(B) \in Nat
    BY <2>3, FS_CardinalityType
  <2>5. Cardinality(B) # 0
    BY <2>1, <2>2, <2>3, FS_EmptySet
  <2>6. Rank(S, x) = Cardinality(B)
    BY <2>2 DEF Rank
  <2> QED
    BY <1>1, <2>2, <2>3, <2>4, <2>5, <2>6
<1>3. ASSUME NEW x \in S, NEW y \in S, x < y
      PROVE  Rank(S, x) # Rank(S, y)
  <2>1. PICK B, C : B = below(x) /\ C = below(y)
    OBVIOUS
  <2>2. x \in Int /\ y \in Int /\ x < y
    BY <1>3
  <2>3. \A m \in S : m <= x => m <= y
    BY <2>2
  <2>4. B \in SUBSET C
    BY <2>1, <2>3
  <2>5. y \in C /\ y \notin B
    BY <2>1, <2>2
  <2>6. IsFiniteSet(C) /\ Rank(S, x) = Cardinality(B) /\ Rank(S, y) = Cardinality(C)
    BY <1>2, <2>1
  <2> HIDE DEF below
  <2>7. IsFiniteSet(B) /\ (Cardinality(B) = Cardinality(C) => B = C)
    BY <2>4, <2>6, FS_Subset
  <2> QED
    BY <2>5, <2>6, <2>7
<1>4. ASSUME NEW x \in S, NEW y \in S, Rank(S, x) = Rank(S, y)
      PROVE  x = y
  <2>1. x \in Int /\ y \in Int /\ (x < y \/ y < x \/ x = y)
    OBVIOUS
  <2> QED
    BY <1>3, <1>4, <2>1
<1>5. r \in Injection(S, 1 .. n)
  <2>1. r \in [S -> 1 .. n]
    BY <1>2
  <2>2. \A x, y \in S : r[x] = r[y] => x = y
    BY <1>4
  <2> HIDE DEF r
  <2> QED
    BY <2>1, <2>2 DEF Injection, IsInjective
<1>6. IsFiniteSet(1 .. n) /\ Cardinality(1 .. n) = n
  BY <1>1, FS_Interval
<1>7. r \in Surjection(S, 1 .. n)
  <2> HIDE DEF r
  <2>1. Cardinality(S) = Cardinality(1 .. n)
    BY <1>6
  <2> QED
    BY <1>5, <1>6, <2>1, FS_Injection
<1>8. ASSUME NEW k \in 1 .. n PROVE \E x \in S : Rank(S, x) = k
  <2>1. PICK x \in S : r[x] = k
    BY <1>7 DEF Surjection
  <2> QED
    BY <2>1
<1> QED
  BY <1>2, <1>4, <1>8

(* Ascending(S) lists every element of S, each at its place.               *)
LEMMA AscendingFacts ==
  ASSUME NEW S \in SUBSET Int, IsFiniteSet(S)
  PROVE  /\ Cardinality(S) \in Nat
         /\ Ascending(S) \in [1 .. Cardinality(S) -> S]
         /\ \A k \in 1 .. Cardinality(S) : Rank(S, Ascending(S)[k]) = k
         /\ \A x \in S : \E k \in 1 .. Cardinality(S) : Ascending(S)[k] = x
<1> DEFINE n == Cardinality(S)
           a == Ascending(S)
           pick(k) == CHOOSE x \in S : Rank(S, x) = k
<1>1. n \in Nat
  BY FS_CardinalityType
<1>2. a = [k \in 1 .. n |-> pick(k)]
  BY DEF Ascending, Rank
<1>3. ASSUME NEW k \in 1 .. n PROVE pick(k) \in S /\ Rank(S, pick(k)) = k
  <2>1. \E x \in S : Rank(S, x) = k
    BY Ranks
  <2> QED
    BY <2>1
<1> HIDE DEF pick, a
<1>4. a \in [1 .. n -> S] /\ \A k \in 1 .. n : Rank(S, a[k]) = k
  BY <1>2, <1>3
<1>5. ASSUME NEW x \in S PROVE \E k \in 1 .. n : a[k] = x
  <2>1. PICK k : k = Rank(S, x)
    OBVIOUS
  <2>2. k \in 1 .. n
    BY <2>1, Ranks
  <2>3. a[k] \in S /\ Rank(S, a[k]) = Rank(S, x)
    BY <1>4, <2>1, <2>2
  <2>4. \A p, q \in S : Rank(S, p) = Rank(S, q) => p = q
    BY Ranks
  <2>5. a[k] = x
    BY <2>3, <2>4
  <2> QED
    BY <2>2, <2>5
<1> QED
  BY <1>1, <1>4, <1>5 DEF a

(* The numbers 1 to n are listed as they are.                              *)
LEMMA AscendingInterval ==
  ASSUME NEW n \in Nat
  PROVE  Ascending(1 .. n) = [k \in 1 .. n |-> k]
<1> DEFINE S == 1 .. n
           a == Ascending(S)
<1>1. S \in SUBSET Int /\ IsFiniteSet(S) /\ Cardinality(S) = n
  BY FS_Interval
<1>2. ASSUME NEW x \in S PROVE Rank(S, x) = x
  <2>1. {m \in S : m <= x} = 1 .. x
    OBVIOUS
  <2>2. Cardinality(1 .. x) = x
    BY FS_Interval
  <2> QED
    BY <2>1, <2>2 DEF Rank
<1>3. a \in [1 .. n -> S] /\ \A k \in 1 .. n : Rank(S, a[k]) = k
  <2> HIDE DEF S
  <2> QED
    BY <1>1, AscendingFacts
<1>4. \A k \in 1 .. n : a[k] = k
  BY <1>2, <1>3
<1> HIDE DEF a
<1>5. a = [k \in 1 .. n |-> k]
  BY <1>3, <1>4
<1> QED
  BY <1>5 DEF a

(* A list at all its places is the list.                                   *)
LEMMA AtAll ==
  ASSUME NEW n \in Nat, NEW s, s = [k \in 1 .. n |-> s[k]],
         NEW places, places = 1 .. n
  PROVE  At(s, places) = s
<1>1. Ascending(places) = [k \in 1 .. n |-> k]
  BY AscendingInterval
<1>2. At(s, places) = [k \in DOMAIN Ascending(places) |-> s[Ascending(places)[k]]]
  BY DEF At
<1>3. At(s, places) = [k \in 1 .. n |-> s[k]]
  BY <1>1, <1>2
<1> QED
  BY <1>3

(* A list at some places has exactly the elements of these places.         *)
LEMMA AtFacts ==
  ASSUME NEW s, NEW places \in SUBSET Int, IsFiniteSet(places)
  PROVE  /\ Cardinality(places) \in Nat
         /\ At(s, places) = [k \in 1 .. Cardinality(places) |-> At(s, places)[k]]
         /\ \A k \in 1 .. Cardinality(places) : \E i \in places : At(s, places)[k] = s[i]
         /\ \A i \in places : \E k \in 1 .. Cardinality(places) : At(s, places)[k] = s[i]
<1> DEFINE n == Cardinality(places)
           a == Ascending(places)
           t == At(s, places)
<1>1. /\ n \in Nat /\ a \in [1 .. n -> places]
      /\ \A x \in places : \E k \in 1 .. n : a[k] = x
  BY AscendingFacts
<1> HIDE DEF a
<1>2. t = [k \in 1 .. n |-> s[a[k]]]
  BY <1>1 DEF At, a
<1> HIDE DEF t
<1> QED
  BY <1>1, <1>2 DEF t

(* A list at one place has that element only.                              *)
LEMMA AtOne ==
  ASSUME NEW s, NEW i \in Int
  PROVE  At(s, {i}) = <<s[i]>>
<1>0. PICK P : P = {i}
  OBVIOUS
<1>1. P \in SUBSET Int /\ IsFiniteSet(P) /\ Cardinality(P) = 1
  BY <1>0, FS_Singleton
<1> DEFINE t == At(s, P)
<1>2. t = [k \in 1 .. 1 |-> t[k]] /\ \A k \in 1 .. 1 : t[k] = s[i]
  <2>1. /\ t = [k \in 1 .. Cardinality(P) |-> t[k]]
        /\ \A k \in 1 .. Cardinality(P) : \E j \in P : t[k] = s[j]
    BY <1>1, AtFacts
  <2> HIDE DEF t
  <2> QED
    BY <1>0, <1>1, <2>1
<1> HIDE DEF t
<1>3. t = <<s[i]>>
  BY <1>2
<1> QED
  BY <1>0, <1>3 DEF t

(* A list at no place is empty.                                            *)
LEMMA AtNone ==
  ASSUME NEW s
  PROVE  At(s, {}) = <<>>
<1> DEFINE t == At(s, {})
<1>1. {} \in SUBSET Int /\ IsFiniteSet({}) /\ Cardinality({}) = 0
  BY FS_EmptySet
<1>2. t = [k \in 1 .. 0 |-> t[k]]
  BY <1>1, AtFacts
<1> HIDE DEF t
<1>3. t = <<>>
  BY <1>2
<1> QED
  BY <1>3 DEF t

-----------------------------------------------------------------------------
(* What the messages of the game say.                                      *)

(* The list a message has under a key, perhaps empty.                      *)
Listed(gsm, key) == unwrap_or(get(gsm, key), <<>>)

(* Of two merged objects the first one decides where it has the key.       *)
LEMMA GetMerged ==
  ASSUME NEW f, NEW g, NEW x
  PROVE  get(f ++ g, x) = IF x \in DOMAIN f THEN get(f, x) ELSE get(g, x)
<1> DEFINE h == f ++ g
<1>1. /\ DOMAIN h = DOMAIN f \cup DOMAIN g
      /\ \A y \in DOMAIN f : h[y] = f[y]
      /\ \A y \in DOMAIN g : y \notin DOMAIN f => h[y] = g[y]
  BY Merged
<1> HIDE DEF h
<1>2. get(h, x) = IF x \in DOMAIN f THEN get(f, x) ELSE get(g, x)
  BY <1>1 DEF get
<1> QED
  BY <1>2 DEF h

(* An object without fields has nothing under any key.                     *)
LEMMA NoFields == DOMAIN <<>> = {} /\ \A x : get(<<>>, x) = <<>>
<1>1. DOMAIN <<>> = {}
  OBVIOUS
<1> QED
  BY <1>1 DEF get

(* A list that is added under a key of its own changes no other key.       *)
LEMMA ItemsFacts ==
  ASSUME NEW f, NEW key, key \notin DOMAIN f, NEW list
  PROVE  LET h == f ++ Items(key, list)
         IN  /\ Listed(h, key) = list
             /\ \A x : x # key => get(h, x) = get(f, x)
             /\ DOMAIN h \subseteq DOMAIN f \cup {key}
<1> DEFINE items == Items(key, list)
           h == f ++ items
<1>1. DOMAIN items = (IF list = <<>> THEN {} ELSE {key})
      /\ (list # <<>> => items[key] = list)
  BY NoFields DEF Items, Field
<1> HIDE DEF items
<1>2. DOMAIN h = DOMAIN f \cup DOMAIN items
  BY Merged
<1>3. \A x : get(h, x) = IF x \in DOMAIN f THEN get(f, x) ELSE get(items, x)
  BY GetMerged
<1> HIDE DEF h
<1>4. get(items, key) = IF list = <<>> THEN <<>> ELSE <<list>>
  BY <1>1 DEF get
<1>5. Listed(h, key) = list
  BY <1>3, <1>4 DEF Listed, unwrap_or
<1>6. \A x : x # key => get(h, x) = get(f, x)
  BY <1>1, <1>3 DEF get
<1>7. DOMAIN h \subseteq DOMAIN f \cup {key}
  BY <1>1, <1>2
<1> QED
  BY <1>5, <1>6, <1>7 DEF h, items

(* The zones, timers, objects and grants of a game, as a message lists     *)
(* them.                                                                   *)
ZonesListed(g) == [i \in 1 .. 3 |-> Zone(g, Ascending(Zones)[i])]
TimersListed(g) == [seat \in 1 .. 2 |-> Timer(g, seat)]
ObjectsListed(g, ids) == [i \in DOMAIN Ascending(ids) |-> Object(g, Ascending(ids)[i])]
GrantsListed(g, ids) == [i \in DOMAIN Ascending(ids) |-> Grant(g, Ascending(ids)[i])]

(* The zones and the objects that a difference lists.                      *)
ZonesChanged(old, g) == {z \in Zones : old.zones[z] # g.zones[z]}
ObjectsChanged(old, g) ==
  {id \in Visible(g) : id \notin Visible(old) \/ Object(old, id) # Object(g, id)}

(* What a message of the whole state says.                                 *)
TellsFull(gsm, g) ==
  /\ get(gsm, "type") = <<"GameStateType_Full">>
  /\ get(gsm, "turnInfo") = <<TurnInfo(g)>>
  /\ Listed(gsm, "zones") = ZonesListed(g)
  /\ Listed(gsm, "timers") = TimersListed(g)
  /\ Listed(gsm, "gameObjects") = ObjectsListed(g, Visible(g))
  /\ Listed(gsm, "persistentAnnotations") = GrantsListed(g, DOMAIN g.granted)
  /\ Listed(gsm, "annotations") = <<>>
  /\ Listed(gsm, "diffDeletedInstanceIds") = <<>>

(* What a message of the difference to the state before says.              *)
TellsDiff(gsm, old, g, annotations) ==
  /\ get(gsm, "type") = <<"GameStateType_Diff">>
  /\ get(gsm, "prevGameStateId") = <<Len(states)>>
  /\ get(gsm, "turnInfo") = IF old.turn = g.turn THEN <<>> ELSE <<TurnInfo(g)>>
  /\ Listed(gsm, "zones") = [i \in DOMAIN Ascending(ZonesChanged(old, g)) |->
                               Zone(g, Ascending(ZonesChanged(old, g))[i])]
  /\ Listed(gsm, "timers") = IF old.turn = g.turn THEN <<>> ELSE TimersListed(g)
  /\ Listed(gsm, "gameObjects") = ObjectsListed(g, ObjectsChanged(old, g))
  /\ Listed(gsm, "persistentAnnotations")
       = GrantsListed(g, DOMAIN g.granted \ DOMAIN old.granted)
  /\ Listed(gsm, "annotations") = annotations
  /\ Listed(gsm, "diffDeletedInstanceIds") = Ascending(Visible(old) \ Visible(g))

(* The game's Full state lists all there is, and nothing that happened.    *)
LEMMA FullSays ==
  ASSUME NEW g
  PROVE  LET gsm == FullState(g)
         IN  /\ get(gsm, "type") = <<"GameStateType_Full">>
             /\ get(gsm, "update") = <<"GameStateUpdate_Send">>
             /\ get(gsm, "prevGameStateId") = <<>>
             /\ get(gsm, "turnInfo") = <<TurnInfo(g)>>
             /\ Listed(gsm, "zones") = ZonesListed(g)
             /\ Listed(gsm, "timers") = TimersListed(g)
             /\ Listed(gsm, "gameObjects") = ObjectsListed(g, Visible(g))
             /\ Listed(gsm, "persistentAnnotations") = GrantsListed(g, DOMAIN g.granted)
             /\ Listed(gsm, "annotations") = <<>>
             /\ Listed(gsm, "diffDeletedInstanceIds") = <<>>
<1> DEFINE base ==
      [type |-> "GameStateType_Full", update |-> "GameStateUpdate_Send",
       gameStateId |-> Len(states) + 1,
       zones |-> ZonesListed(g), timers |-> TimersListed(g), turnInfo |-> TurnInfo(g)]
    objects == ObjectsListed(g, Visible(g))
    grants == GrantsListed(g, DOMAIN g.granted)
    more == base ++ Items("gameObjects", objects)
    all == more ++ Items("persistentAnnotations", grants)
<1>1. FullState(g) = all
  BY DEF FullState, ZonesListed, TimersListed, ObjectsListed, GrantsListed
<1>2. /\ get(base, "type") = <<"GameStateType_Full">>
      /\ get(base, "update") = <<"GameStateUpdate_Send">>
      /\ get(base, "prevGameStateId") = <<>>
      /\ get(base, "turnInfo") = <<TurnInfo(g)>>
      /\ get(base, "zones") = <<ZonesListed(g)>>
      /\ get(base, "timers") = <<TimersListed(g)>>
      /\ get(base, "annotations") = <<>>
      /\ get(base, "diffDeletedInstanceIds") = <<>>
      /\ "gameObjects" \notin DOMAIN base /\ "persistentAnnotations" \notin DOMAIN base
  BY DEF get
<1> HIDE DEF base, objects, grants
<1>3. /\ Listed(more, "gameObjects") = objects
      /\ \A x : x # "gameObjects" => get(more, x) = get(base, x)
      /\ DOMAIN more \subseteq DOMAIN base \cup {"gameObjects"}
  BY <1>2, ItemsFacts
<1>4. "persistentAnnotations" \notin DOMAIN more
  BY <1>2, <1>3
<1> HIDE DEF more
<1>5. /\ Listed(all, "persistentAnnotations") = grants
      /\ \A x : x # "persistentAnnotations" => get(all, x) = get(more, x)
  BY <1>4, ItemsFacts
<1> HIDE DEF all
<1>6. /\ get(all, "type") = <<"GameStateType_Full">>
      /\ get(all, "update") = <<"GameStateUpdate_Send">>
      /\ get(all, "prevGameStateId") = <<>>
      /\ get(all, "turnInfo") = <<TurnInfo(g)>>
      /\ Listed(all, "zones") = ZonesListed(g)
      /\ Listed(all, "timers") = TimersListed(g)
      /\ Listed(all, "gameObjects") = objects
      /\ Listed(all, "annotations") = <<>>
      /\ Listed(all, "diffDeletedInstanceIds") = <<>>
  BY <1>2, <1>3, <1>5 DEF Listed, unwrap_or
<1> QED
  BY <1>1, <1>5, <1>6 DEF objects, grants

(* A rollback is the Full state, marked and with the state it returns to.  *)
LEMMA UndoSays ==
  ASSUME NEW g, NEW k
  PROVE  LET full == FullState(g)
             undo == [update |-> "GameStateUpdate_Undo", prevGameStateId |-> k] ++ full
         IN  /\ get(undo, "update") = <<"GameStateUpdate_Undo">>
             /\ get(undo, "prevGameStateId") = <<k>>
             /\ \A x : x \notin {"update", "prevGameStateId"} =>
                  get(undo, x) = get(full, x)
<1> DEFINE head == [update |-> "GameStateUpdate_Undo", prevGameStateId |-> k]
           full == FullState(g)
<1> HIDE DEF full
<1>1. /\ DOMAIN head = {"update", "prevGameStateId"}
      /\ get(head, "update") = <<"GameStateUpdate_Undo">>
      /\ get(head, "prevGameStateId") = <<k>>
  BY DEF get
<1> HIDE DEF head
<1> DEFINE undo == head ++ full
<1>2. \A x : get(undo, x) = IF x \in DOMAIN head THEN get(head, x) ELSE get(full, x)
  BY GetMerged
<1> HIDE DEF undo
<1>3. /\ get(undo, "update") = <<"GameStateUpdate_Undo">>
      /\ get(undo, "prevGameStateId") = <<k>>
      /\ \A x : x \notin {"update", "prevGameStateId"} =>
           get(undo, x) = get(full, x)
  BY <1>1, <1>2
<1> QED
  BY <1>3 DEF undo, head, full

(* The game's Diff state lists what changed, what left and what happened.  *)
LEMMA DiffSays ==
  ASSUME NEW old, NEW g, NEW annotations
  PROVE  TellsDiff(DiffState(old, g, annotations), old, g, annotations)
<1> DEFINE base ==
      [type |-> "GameStateType_Diff", update |-> "GameStateUpdate_SendHiFi",
       gameStateId |-> Len(states) + 1, prevGameStateId |-> Len(states)]
    places  == Ascending(ZonesChanged(old, g))
    zones   == [i \in DOMAIN places |-> Zone(g, places[i])]
    objects == ObjectsListed(g, ObjectsChanged(old, g))
    deleted == Ascending(Visible(old) \ Visible(g))
    grants  == GrantsListed(g, DOMAIN g.granted \ DOMAIN old.granted)
    turn == IF old.turn = g.turn THEN <<>>
            ELSE [turnInfo |-> TurnInfo(g), timers |-> TimersListed(g)]
    d1 == base ++ Items("zones", zones)
    d2 == d1 ++ Items("gameObjects", objects)
    d3 == d2 ++ Items("diffDeletedInstanceIds", deleted)
    d4 == d3 ++ Items("annotations", annotations)
    d5 == d4 ++ Items("persistentAnnotations", grants)
    diff == d5 ++ turn
    keys == {"type", "update", "gameStateId", "prevGameStateId"}
<1>1. DiffState(old, g, annotations) = diff
  BY DEF DiffState, ZonesChanged, ObjectsChanged, ObjectsListed, GrantsListed,
         TimersListed
<1>2. /\ get(base, "type") = <<"GameStateType_Diff">>
      /\ get(base, "update") = <<"GameStateUpdate_SendHiFi">>
      /\ get(base, "prevGameStateId") = <<Len(states)>>
      /\ DOMAIN base = keys
  BY DEF get
<1>3. /\ get(turn, "turnInfo") = IF old.turn = g.turn THEN <<>> ELSE <<TurnInfo(g)>>
      /\ get(turn, "timers") = IF old.turn = g.turn THEN <<>> ELSE <<TimersListed(g)>>
      /\ DOMAIN turn \subseteq {"turnInfo", "timers"}
  <2>1. CASE old.turn = g.turn
    BY <2>1, NoFields
  <2>2. CASE old.turn # g.turn
    BY <2>2 DEF get
  <2> QED
    BY <2>1, <2>2
<1> HIDE DEF base, zones, objects, deleted, grants, turn
<1>4. /\ Listed(d1, "zones") = zones /\ \A x : x # "zones" => get(d1, x) = get(base, x)
      /\ DOMAIN d1 \subseteq keys \cup {"zones"}
  <2>1. "zones" \notin DOMAIN base
    BY <1>2
  <2>2. DOMAIN d1 \subseteq DOMAIN base \cup {"zones"}
    BY <2>1, ItemsFacts
  <2>3. Listed(d1, "zones") = zones /\ \A x : x # "zones" => get(d1, x) = get(base, x)
    BY <2>1, ItemsFacts
  <2> QED
    BY <1>2, <2>2, <2>3
<1> HIDE DEF d1
<1>5. /\ Listed(d2, "gameObjects") = objects
      /\ \A x : x # "gameObjects" => get(d2, x) = get(d1, x)
      /\ DOMAIN d2 \subseteq keys \cup {"zones", "gameObjects"}
  <2>1. "gameObjects" \notin DOMAIN d1
    BY <1>4
  <2>2. DOMAIN d2 \subseteq DOMAIN d1 \cup {"gameObjects"}
    BY <2>1, ItemsFacts
  <2> QED
    BY <1>4, <2>1, <2>2, ItemsFacts
<1> HIDE DEF d2
<1>6. /\ Listed(d3, "diffDeletedInstanceIds") = deleted
      /\ \A x : x # "diffDeletedInstanceIds" => get(d3, x) = get(d2, x)
      /\ DOMAIN d3 \subseteq keys \cup {"zones", "gameObjects", "diffDeletedInstanceIds"}
  <2>1. "diffDeletedInstanceIds" \notin DOMAIN d2
    BY <1>5
  <2>2. DOMAIN d3 \subseteq DOMAIN d2 \cup {"diffDeletedInstanceIds"}
    BY <2>1, ItemsFacts
  <2> QED
    BY <1>5, <2>1, <2>2, ItemsFacts
<1> HIDE DEF d3
<1>7. /\ Listed(d4, "annotations") = annotations
      /\ \A x : x # "annotations" => get(d4, x) = get(d3, x)
      /\ DOMAIN d4 \subseteq keys \cup {"zones", "gameObjects", "diffDeletedInstanceIds",
                                        "annotations"}
  <2>1. "annotations" \notin DOMAIN d3
    BY <1>6
  <2>2. DOMAIN d4 \subseteq DOMAIN d3 \cup {"annotations"}
    BY <2>1, ItemsFacts
  <2> QED
    BY <1>6, <2>1, <2>2, ItemsFacts
<1> HIDE DEF d4
<1>8. /\ Listed(d5, "persistentAnnotations") = grants
      /\ \A x : x # "persistentAnnotations" => get(d5, x) = get(d4, x)
      /\ "turnInfo" \notin DOMAIN d5 /\ "timers" \notin DOMAIN d5
  <2>1. "persistentAnnotations" \notin DOMAIN d4
    BY <1>7
  <2>2. DOMAIN d5 \subseteq DOMAIN d4 \cup {"persistentAnnotations"}
    BY <2>1, ItemsFacts
  <2> QED
    BY <1>7, <2>1, <2>2, ItemsFacts
<1> HIDE DEF d5
<1>9. /\ get(diff, "turnInfo") = get(turn, "turnInfo")
      /\ get(diff, "timers") = get(turn, "timers")
      /\ \A x : x \notin {"turnInfo", "timers"} => get(diff, x) = get(d5, x)
  <2>1. \A x : get(diff, x) = IF x \in DOMAIN d5 THEN get(d5, x) ELSE get(turn, x)
    BY GetMerged
  <2> HIDE DEF diff
  <2>2. \A x : x \notin {"turnInfo", "timers"} /\ x \notin DOMAIN d5 =>
          get(turn, x) = <<>> /\ get(d5, x) = <<>>
    BY <1>3 DEF get
  <2> QED
    BY <1>8, <2>1, <2>2
<1> HIDE DEF diff
<1>10. /\ get(diff, "type") = <<"GameStateType_Diff">>
       /\ get(diff, "update") = <<"GameStateUpdate_SendHiFi">>
       /\ get(diff, "prevGameStateId") = <<Len(states)>>
  BY <1>2, <1>4, <1>5, <1>6, <1>7, <1>8, <1>9
<1>11. /\ Listed(diff, "zones") = zones /\ Listed(diff, "gameObjects") = objects
       /\ Listed(diff, "diffDeletedInstanceIds") = deleted
       /\ Listed(diff, "annotations") = annotations
       /\ Listed(diff, "persistentAnnotations") = grants
  BY <1>4, <1>5, <1>6, <1>7, <1>8, <1>9 DEF Listed
<1>12. Listed(diff, "timers") = IF old.turn = g.turn THEN <<>> ELSE TimersListed(g)
  BY <1>3, <1>9 DEF Listed, unwrap_or
<1>13. TellsDiff(diff, old, g, annotations)
  <2>1. /\ zones = [i \in DOMAIN Ascending(ZonesChanged(old, g)) |->
                      Zone(g, Ascending(ZonesChanged(old, g))[i])]
        /\ objects = ObjectsListed(g, ObjectsChanged(old, g))
        /\ deleted = Ascending(Visible(old) \ Visible(g))
        /\ grants = GrantsListed(g, DOMAIN g.granted \ DOMAIN old.granted)
    BY DEF zones, objects, deleted, grants
  <2> QED
    BY <1>3, <1>9, <1>10, <1>11, <1>12, <2>1 DEF TellsDiff
<1> QED
  BY <1>1, <1>13

-----------------------------------------------------------------------------
(* What the payloads tell of them.                                         *)

(* Each part of the payload of a state is built from its own list          *)
(* (game_state.rs, build_game_state_message_payload); the lean one has no  *)
(* lists.                                                                  *)
LEMMA PayloadTells ==
  ASSUME NEW msg, "gameStateId" \in DOMAIN msg, "gameStateMessage" \in DOMAIN msg,
         NEW gsm, msg.gameStateMessage = gsm
  PROVE  LET payload == build_game_state_message_payload(msg, lean)
         IN  /\ payload.game_state_type = get(gsm, "type")
             /\ payload.game_state_id = msg.gameStateId
             /\ payload.prev_game_state_id = get(gsm, "prevGameStateId")
             /\ payload.update = get(gsm, "update")
             /\ payload.turn_info = extract_turn_info(gsm)
             /\ payload.diff_deleted_instance_ids = Listed(gsm, "diffDeletedInstanceIds")
             /\ "annotations" \in DOMAIN payload <=> ~lean
             /\ ~lean => /\ payload.zones = extract_zones(gsm)
                         /\ payload.game_objects = extract_game_objects(gsm)
                         /\ payload.annotations = extract_annotations(gsm)
                         /\ payload.persistent_annotations
                              = extract_persistent_annotations(gsm)
                         /\ payload.timers = extract_timers(gsm)
<1>1. unwrap_or(get(msg, "gameStateMessage"), <<>>) = gsm
  BY DEF unwrap_or, get
<1> DEFINE first == [type |-> IF unwrap_or(get(msg, "type"), "") = "QueuedGameStateMessage"
                THEN "queued_game_state_message" ELSE "game_state_message",
       game_state_type |-> get(gsm, "type"),
       update |-> update(gsm),
       prev_game_state_id |-> prev_game_state_id(gsm),
       game_info |-> get(gsm, "gameInfo"),
       turn_info |-> extract_turn_info(gsm),
       diff_deleted_instance_ids |-> diff_deleted_instance_ids(gsm)]
  ids == Copied(msg, [msg_id |-> Num("msgId"), game_state_id |-> Num("gameStateId")])
  rest == IF lean THEN <<>>
         ELSE [zones |-> extract_zones(gsm),
               game_objects |-> extract_game_objects(gsm),
               annotations |-> extract_annotations(gsm),
               persistent_annotations |-> extract_persistent_annotations(gsm),
               timers |-> extract_timers(gsm)]
  keys == {"game_state_type", "prev_game_state_id", "update", "turn_info",
           "diff_deleted_instance_ids"}
  elements == {"zones", "game_objects", "annotations", "persistent_annotations", "timers"}
<1>3. build_game_state_message_payload(msg, lean) = (first ++ ids) ++ rest
  BY <1>1 DEF build_game_state_message_payload
<1>4. /\ keys \subseteq DOMAIN first
      /\ "game_state_id" \notin DOMAIN first
      /\ DOMAIN first \cap elements = {}
      /\ first["game_state_type"] = get(gsm, "type")
      /\ first["prev_game_state_id"] = get(gsm, "prevGameStateId")
      /\ first["update"] = get(gsm, "update")
      /\ first["turn_info"] = extract_turn_info(gsm)
      /\ first["diff_deleted_instance_ids"] = Listed(gsm, "diffDeletedInstanceIds")
  BY DEF prev_game_state_id, update, diff_deleted_instance_ids, Listed
<1>5. /\ DOMAIN ids = {"msg_id", "game_state_id"}
      /\ ids["game_state_id"] = msg.gameStateId
  BY DEF Copied, unwrap_or, get, Num, From
<1>6. /\ "annotations" \in DOMAIN rest <=> ~lean
      /\ ~lean => /\ DOMAIN rest = elements
                  /\ rest["zones"] = extract_zones(gsm)
                  /\ rest["game_objects"] = extract_game_objects(gsm)
                  /\ rest["annotations"] = extract_annotations(gsm)
                  /\ rest["persistent_annotations"] = extract_persistent_annotations(gsm)
                  /\ rest["timers"] = extract_timers(gsm)
  BY NoFields
<1> HIDE DEF first, ids, rest
<1> DEFINE both == first ++ ids
           payload == both ++ rest
<1>7. payload = build_game_state_message_payload(msg, lean)
  BY <1>3
<1>8. /\ DOMAIN both = DOMAIN first \cup DOMAIN ids
      /\ \A x \in DOMAIN first : both[x] = first[x]
      /\ \A x \in DOMAIN ids : x \notin DOMAIN first => both[x] = ids[x]
  BY Merged
<1> HIDE DEF both
<1>9. /\ DOMAIN payload = DOMAIN both \cup DOMAIN rest
      /\ \A x \in DOMAIN both : payload[x] = both[x]
      /\ \A x \in DOMAIN rest : x \notin DOMAIN both => payload[x] = rest[x]
  BY Merged
<1> HIDE DEF payload
<1>10. /\ \A x \in keys : payload[x] = first[x]
       /\ payload["game_state_id"] = msg.gameStateId
       /\ DOMAIN both \cap elements = {}
  BY <1>4, <1>5, <1>8, <1>9
<1>11. "annotations" \in DOMAIN payload <=> ~lean
  BY <1>6, <1>9, <1>10
<1>12. ~lean => \A x \in elements : payload[x] = rest[x]
  BY <1>6, <1>9, <1>10
<1>13. /\ payload["game_state_type"] = get(gsm, "type")
       /\ payload["prev_game_state_id"] = get(gsm, "prevGameStateId")
       /\ payload["update"] = get(gsm, "update")
       /\ payload["turn_info"] = extract_turn_info(gsm)
       /\ payload["diff_deleted_instance_ids"] = Listed(gsm, "diffDeletedInstanceIds")
  BY <1>4, <1>10
<1>14. ~lean => /\ payload["zones"] = extract_zones(gsm)
                /\ payload["game_objects"] = extract_game_objects(gsm)
                /\ payload["annotations"] = extract_annotations(gsm)
                /\ payload["persistent_annotations"] = extract_persistent_annotations(gsm)
                /\ payload["timers"] = extract_timers(gsm)
  BY <1>6, <1>12
<1> QED
  BY <1>7, <1>10, <1>11, <1>13, <1>14

(* Copied gives every field its value or its default.                      *)
LEMMA CopiedFacts ==
  ASSUME NEW object, NEW fields
  PROVE  /\ DOMAIN Copied(object, fields) = DOMAIN fields
         /\ \A name \in DOMAIN fields :
              Copied(object, fields)[name]
                = unwrap_or(get(object, fields[name].key), fields[name].default)
BY DEF Copied

(* CopiedIfPresent gives the fields whose key is there.                    *)
LEMMA PresentFacts ==
  ASSUME NEW object, NEW fields
  PROVE  \A name : name \in DOMAIN CopiedIfPresent(object, fields)
                    <=> name \in DOMAIN fields /\ fields[name].key \in DOMAIN object
BY DEF CopiedIfPresent, Copied

(* A zone is told with its id and the ids of its objects, also when it is  *)
(* empty.                                                                  *)
LEMMA ZoneTold ==
  ASSUME NEW g, NEW z
  PROVE  /\ "zoneId" \in DOMAIN Zone(g, z)
         /\ extract_single_zone(Zone(g, z))["zone_id"] = z
         /\ extract_single_zone(Zone(g, z))["object_instance_ids"] = g.zones[z]
<1> DEFINE base == [zoneId |-> z, type |-> "ZoneType", visibility |-> "Visibility"]
           owner == Number("ownerSeatId", IF z = Battlefield THEN 0 ELSE 1)
           owned == base ++ owner
           zone == owned ++ Items("objectInstanceIds", g.zones[z])
<1>1. Zone(g, z) = zone
  BY DEF Zone
<1>2. "zoneId" \in DOMAIN base /\ get(base, "zoneId") = <<z>>
      /\ "objectInstanceIds" \notin DOMAIN base
  BY DEF get
<1>3. DOMAIN owner \subseteq {"ownerSeatId"}
  BY NoFields DEF Number, Field
<1> HIDE DEF base, owner
<1>4. /\ DOMAIN owned = DOMAIN base \cup DOMAIN owner
      /\ get(owned, "zoneId") = <<z>>
  BY <1>2, Merged, GetMerged
<1>5. "objectInstanceIds" \notin DOMAIN owned /\ "zoneId" \in DOMAIN owned
  BY <1>2, <1>3, <1>4
<1> HIDE DEF owned
<1>6. /\ Listed(zone, "objectInstanceIds") = g.zones[z]
      /\ get(zone, "zoneId") = <<z>>
  <2>1. /\ Listed(zone, "objectInstanceIds") = g.zones[z]
        /\ \A x : x # "objectInstanceIds" => get(zone, x) = get(owned, x)
    BY <1>5, ItemsFacts
  <2> HIDE DEF zone
  <2> QED
    BY <1>4, <2>1
<1>7. "zoneId" \in DOMAIN zone
  BY <1>5, Merged
<1> HIDE DEF zone
<1> DEFINE fields == [zone_id |-> Num("zoneId"), zone_type |-> From("type", "Unknown"),
                      owner_seat_id |-> Num("ownerSeatId"),
                      visibility |-> Text("visibility"),
                      object_instance_ids |-> List("objectInstanceIds")]
<1>8. extract_single_zone(zone) = Copied(zone, fields)
  BY DEF extract_single_zone
<1>9. /\ "zone_id" \in DOMAIN fields /\ "object_instance_ids" \in DOMAIN fields
      /\ fields["zone_id"].key = "zoneId"
      /\ fields["object_instance_ids"].key = "objectInstanceIds"
      /\ fields["object_instance_ids"].default = <<>>
  BY DEF Num, Text, List, From
<1> HIDE DEF fields
<1>10. /\ Copied(zone, fields)["zone_id"] = unwrap_or(<<z>>, fields["zone_id"].default)
       /\ Copied(zone, fields)["object_instance_ids"] = Listed(zone, "objectInstanceIds")
  BY <1>6, <1>9, CopiedFacts DEF Listed
<1>11. unwrap_or(<<z>>, fields["zone_id"].default) = z
  BY DEF unwrap_or
<1> QED
  BY <1>1, <1>6, <1>7, <1>8, <1>10, <1>11

(* A timer is told with its id, and as running exactly when it runs.       *)
LEMMA TimerTold ==
  ASSUME NEW g, NEW seat
  PROVE  /\ "timerId" \in DOMAIN Timer(g, seat)
         /\ extract_single_timer(Timer(g, seat))["timer_id"] = seat
         /\ "running" \in DOMAIN extract_single_timer(Timer(g, seat))
              <=> g.turn # 0 /\ g.active = seat
<1> DEFINE base == [timerId |-> seat, type |-> "TimerType_ActivePlayer"]
           running == Flag("running", g.turn # 0 /\ g.active = seat)
           timer == base ++ running
<1>1. Timer(g, seat) = timer
  BY DEF Timer
<1>2. get(base, "timerId") = <<seat>> /\ DOMAIN base = {"timerId", "type"}
  BY DEF get
<1>3. "running" \in DOMAIN running <=> g.turn # 0 /\ g.active = seat
  BY NoFields DEF Flag, Field
<1> HIDE DEF base, running
<1>4. get(timer, "timerId") = <<seat>>
  BY <1>2, GetMerged
<1>5. "timerId" \in DOMAIN timer
      /\ ("running" \in DOMAIN timer <=> g.turn # 0 /\ g.active = seat)
  <2>1. DOMAIN timer = DOMAIN base \cup DOMAIN running
    BY Merged
  <2> QED
    BY <1>2, <1>3, <2>1
<1> HIDE DEF timer
<1> DEFINE fields ==
             [timer_id |-> Num("timerId"), type |-> Text("type"),
              duration_sec |-> Num("durationSec"), behavior |-> Text("behavior")]
           more ==
             [elapsed_sec |-> Num("elapsedSec"), elapsed_ms |-> Num("elapsedMs"),
              running |-> From("running", FALSE),
              warning_threshold_sec |-> Num("warningThresholdSec")]
           first == Copied(timer, fields)
           rest == CopiedIfPresent(timer, more)
           told == first ++ rest
<1>6. extract_single_timer(timer) = told
  BY DEF extract_single_timer
<1>7. /\ DOMAIN fields = {"timer_id", "type", "duration_sec", "behavior"}
      /\ fields["timer_id"].key = "timerId"
      /\ "running" \in DOMAIN more /\ more["running"].key = "running"
  BY DEF Num, Text, From
<1> HIDE DEF fields, more
<1>8. /\ "timer_id" \in DOMAIN first /\ "running" \notin DOMAIN first
      /\ first["timer_id"] = unwrap_or(<<seat>>, fields["timer_id"].default)
  BY <1>4, <1>7, CopiedFacts
<1>9. "running" \in DOMAIN rest <=> "running" \in DOMAIN timer
  BY <1>7, PresentFacts
<1> HIDE DEF first, rest
<1>10. Keeps(first, told) /\ DOMAIN told = DOMAIN first \cup DOMAIN rest
  BY MergeKeeps, Merged
<1> HIDE DEF told
<1>11. unwrap_or(<<seat>>, fields["timer_id"].default) = seat
  BY DEF unwrap_or
<1>12. told["timer_id"] = seat /\ ("running" \in DOMAIN told <=> "running" \in DOMAIN timer)
  BY <1>8, <1>9, <1>10, <1>11 DEF Keeps
<1> QED
  BY <1>1, <1>5, <1>6, <1>12

(* An object is told with its id, card and zone, and as attacking exactly  *)
(* when it does.                                                           *)
LEMMA ObjectTold ==
  ASSUME NEW g, NEW id
  PROVE  /\ "instanceId" \in DOMAIN Object(g, id)
         /\ LET told == extract_single_game_object(Object(g, id))
            IN  /\ told["instance_id"] = id /\ told["grp_id"] = CardOf(id)
                /\ told["zone_id"] = ZoneOf(g, id)
                /\ "attack_state" \in DOMAIN told <=> id \in g.attacking
<1> DEFINE base == [instanceId |-> id, grpId |-> CardOf(id), type |-> "GameObjectType_Card",
                    zoneId |-> ZoneOf(g, id), ownerSeatId |-> 1, controllerSeatId |-> 1]
           attack == IF id \in g.attacking
                     THEN [attackState |-> "AttackState_Declared"] ELSE <<>>
           object == base ++ attack
<1>1. Object(g, id) = object
  BY DEF Object
<1>2. /\ get(base, "instanceId") = <<id>> /\ get(base, "grpId") = <<CardOf(id)>>
      /\ get(base, "zoneId") = <<ZoneOf(g, id)>>
      /\ "instanceId" \in DOMAIN base /\ "grpId" \in DOMAIN base /\ "zoneId" \in DOMAIN base
      /\ "attackState" \notin DOMAIN base /\ "blockInfo" \notin DOMAIN base
  BY DEF get
<1>3. /\ "attackState" \in DOMAIN attack <=> id \in g.attacking
      /\ DOMAIN attack \subseteq {"attackState"}
  BY NoFields
<1> HIDE DEF base, attack
<1>4. /\ get(object, "instanceId") = <<id>> /\ get(object, "grpId") = <<CardOf(id)>>
      /\ get(object, "zoneId") = <<ZoneOf(g, id)>>
  BY <1>2, GetMerged
<1>5. DOMAIN object = DOMAIN base \cup DOMAIN attack
  BY Merged
<1>6. /\ "instanceId" \in DOMAIN object /\ "blockInfo" \notin DOMAIN object
      /\ "attackState" \in DOMAIN object <=> id \in g.attacking
  BY <1>2, <1>3, <1>5
<1> HIDE DEF object
<1> DEFINE fields ==
      [instance_id |-> Num("instanceId"), grp_id |-> Num("grpId"),
       object_type |-> From("type", "Unknown"), zone_id |-> Num("zoneId"),
       visibility |-> Text("visibility"), owner_seat_id |-> Num("ownerSeatId"),
       controller_seat_id |-> Num("controllerSeatId"),
       card_types |-> List("cardTypes"), subtypes |-> List("subtypes"),
       abilities |-> List("abilities")]
    states_of == [attack_state |-> Text("attackState"), block_state |-> Text("blockState")]
    sources == [object_source_grp_id |-> Num("objectSourceGrpId"),
                parent_id |-> Num("parentId")]
    first == Copied(object, fields)
    nested == [name |-> get(object, "name"),
               power |-> extract_nested_value(object, "power"),
               toughness |-> extract_nested_value(object, "toughness")]
    combat == CopiedIfPresent(object, states_of)
    source == CopiedIfPresent(object, sources)
    t1 == first ++ nested
    t2 == t1 ++ combat
    t3 == t2 ++ block_info(object)
    told == t3 ++ source
<1>7. extract_single_game_object(object) = told
  BY DEF extract_single_game_object
<1>8. /\ {"instance_id", "grp_id", "zone_id"} \subseteq DOMAIN fields
      /\ "attack_state" \notin DOMAIN fields
      /\ fields["instance_id"].key = "instanceId"
      /\ fields["grp_id"].key = "grpId" /\ fields["zone_id"].key = "zoneId"
  BY DEF Num, Text, From, List
<1>9. "attack_state" \in DOMAIN states_of /\ states_of["attack_state"].key = "attackState"
      /\ "attack_state" \notin DOMAIN sources
  BY DEF Num, Text, From
<1> HIDE DEF fields, states_of, sources
<1>10. /\ {"instance_id", "grp_id", "zone_id"} \subseteq DOMAIN first
       /\ "attack_state" \notin DOMAIN first
       /\ first["instance_id"] = id /\ first["grp_id"] = CardOf(id)
       /\ first["zone_id"] = ZoneOf(g, id)
  <2>1. \A x, d : unwrap_or(<<x>>, d) = x
    BY DEF unwrap_or
  <2> QED
    BY <1>4, <1>8, <2>1, CopiedFacts
<1>11. /\ "attack_state" \in DOMAIN combat <=> "attackState" \in DOMAIN object
       /\ "attack_state" \notin DOMAIN source
  BY <1>9, PresentFacts
<1>12. "attack_state" \notin DOMAIN nested
  OBVIOUS
<1>13. DOMAIN block_info(object) = {}
  <2>1. get(object, "blockInfo") = <<>>
    BY <1>6 DEF get
  <2>2. unwrap_or(get(unwrap_or(get(object, "blockInfo"), <<>>), "attackerIds"), <<>>) = <<>>
    BY <2>1, NoFields DEF unwrap_or
  <2>3. block_info(object) = <<>>
    BY <2>2 DEF block_info
  <2> QED
    BY <2>3, NoFields
<1> HIDE DEF first, nested, combat, source
<1>14. Keeps(first, t1) /\ DOMAIN t1 = DOMAIN first \cup DOMAIN nested
  BY MergeKeeps, Merged
<1> HIDE DEF t1
<1>15. Keeps(t1, t2) /\ DOMAIN t2 = DOMAIN t1 \cup DOMAIN combat
  BY MergeKeeps, Merged
<1> HIDE DEF t2
<1>16. Keeps(t2, t3) /\ DOMAIN t3 = DOMAIN t2 \cup DOMAIN block_info(object)
  BY MergeKeeps, Merged
<1> HIDE DEF t3
<1>17. Keeps(t3, told) /\ DOMAIN told = DOMAIN t3 \cup DOMAIN source
  BY MergeKeeps, Merged
<1> HIDE DEF told
<1>18. told["instance_id"] = id /\ told["grp_id"] = CardOf(id)
       /\ told["zone_id"] = ZoneOf(g, id)
  BY <1>10, <1>14, <1>15, <1>16, <1>17 DEF Keeps
<1>19. "attack_state" \in DOMAIN told <=> id \in g.attacking
  BY <1>6, <1>10, <1>11, <1>12, <1>13, <1>14, <1>15, <1>16, <1>17
<1> QED
  BY <1>1, <1>6, <1>7, <1>18, <1>19

(* An annotation of one type is told with its type, id, affected ids and   *)
(* the fields of its type.                                                 *)
LEMMA AnnotationFacts ==
  ASSUME NEW a, "details" \in DOMAIN a, NEW type, read_annotation_type(a) = type
  PROVE  LET told == extract_single_annotation(a)
         IN  /\ told["type"] = type
             /\ told["id"] = unwrap_or(get(a, "id"), 0)
             /\ told["affected_ids"] = Listed(a, "affectedIds")
             /\ \A x : x \notin {"id", "affector_id", "affected_ids", "type", "types"} =>
                  get(told, x) = get(add_type_specific_fields(type,
                                       Listed(a, "affectedIds"), a.details), x)
<1> DEFINE fields == [id |-> Num("id"), affector_id |-> Num("affectorId"),
                      affected_ids |-> List("affectedIds")]
           base == Copied(a, fields)
           kind == [type |-> read_annotation_type(a), types |-> read_annotation_types(a)]
           rest == add_type_specific_fields(type, Listed(a, "affectedIds"), a.details)
           both == base ++ kind
           told == both ++ rest
<1>1. /\ DOMAIN fields = {"id", "affector_id", "affected_ids"}
      /\ fields["id"].key = "id" /\ fields["id"].default = 0
      /\ fields["affected_ids"].key = "affectedIds"
      /\ fields["affected_ids"].default = <<>>
  BY DEF Num, List, From
<1> HIDE DEF fields
<1>2. /\ DOMAIN base = {"id", "affector_id", "affected_ids"}
      /\ base["id"] = unwrap_or(get(a, "id"), 0)
      /\ base["affected_ids"] = Listed(a, "affectedIds")
  BY <1>1, CopiedFacts DEF Listed
<1>4. DOMAIN kind = {"type", "types"} /\ kind["type"] = type
  OBVIOUS
<1>5. extract_single_annotation(a) = told
  BY <1>2 DEF extract_single_annotation, fields
<1> HIDE DEF base, kind, rest
<1>6. /\ DOMAIN both = DOMAIN base \cup DOMAIN kind
      /\ \A x \in DOMAIN base : both[x] = base[x]
      /\ \A x \in DOMAIN kind : x \notin DOMAIN base => both[x] = kind[x]
  BY Merged
<1> HIDE DEF both
<1>7. Keeps(both, told)
  BY MergeKeeps
<1>8. \A x : get(told, x) = IF x \in DOMAIN both THEN get(both, x) ELSE get(rest, x)
  BY GetMerged
<1> HIDE DEF told
<1>9. /\ told["type"] = type
      /\ told["id"] = unwrap_or(get(a, "id"), 0)
      /\ told["affected_ids"] = Listed(a, "affectedIds")
  BY <1>2, <1>4, <1>6, <1>7 DEF Keeps
<1>10. \A x : x \notin {"id", "affector_id", "affected_ids", "type", "types"} =>
               get(told, x) = get(rest, x)
  BY <1>2, <1>4, <1>6, <1>8
<1> QED
  BY <1>5, <1>9, <1>10 DEF rest

(* The field of a type is the detail that the table names for it.          *)
LEMMA SpecificFacts ==
  ASSUME NEW type, NEW ids, NEW details, NEW fields,
         get(TypeFields, type) = <<fields>>, NEW x \in DOMAIN fields
  PROVE  get(add_type_specific_fields(type, ids, details), x)
           = <<detail(details, fields[x])>>
<1> DEFINE always == Always(details, fields)
           present == IfPresent(details, unwrap_or(get(TypeDetails, type), <<>>))
           instance == IF type = "Designation"
                       THEN [instance_id |-> IF ids = <<>> THEN 0 ELSE Head(ids)]
                       ELSE <<>>
           both == always ++ present
           all == both ++ instance
<1>1. unwrap_or(<<fields>>, <<>>) = fields
  BY DEF unwrap_or
<1>2. add_type_specific_fields(type, ids, details) = all
  BY <1>1 DEF add_type_specific_fields
<1>3. x \in DOMAIN always /\ always[x] = detail(details, fields[x])
  BY DEF Always
<1> HIDE DEF always, present, instance
<1>4. DOMAIN both = DOMAIN always \cup DOMAIN present /\ get(both, x) = get(always, x)
  BY <1>3, Merged, GetMerged
<1> HIDE DEF both
<1>5. get(all, x) = get(both, x)
  BY <1>3, <1>4, GetMerged
<1> HIDE DEF all
<1> QED
  BY <1>2, <1>3, <1>4, <1>5 DEF get

(* A key that one detail has is found there.                               *)
LEMMA DetailFound ==
  ASSUME NEW details, NEW key, NEW j \in DOMAIN details, j \in Int,
         \A i \in DOMAIN details : details[i].key = key <=> i = j
  PROVE  DetailOf(details, key) = details[j].values
<1>1. {i \in DOMAIN details : details[i].key = key} = {j}
  OBVIOUS
<1>2. At(details, {j}) = <<details[j]>>
  BY AtOne
<1> DEFINE found == At(details, {i \in DOMAIN details : details[i].key = key})
<1>3. found = <<details[j]>>
  BY <1>1, <1>2
<1>4. DetailOf(details, key) = IF found = <<>> THEN <<>> ELSE Head(found).values
  BY DEF DetailOf
<1> HIDE DEF found
<1> QED
  BY <1>3, <1>4

(* A detail that is a number is told as its only value.                    *)
LEMMA NumberDetail ==
  ASSUME NEW details, NEW key, NEW n, DetailOf(details, key) = <<n>>
  PROVE  detail(details, Num(key)) = n
BY DEF detail, Num, From

(* A detail that is a list is told whole.                                  *)
LEMMA ListDetail ==
  ASSUME NEW details, NEW key, NEW list, DetailOf(details, key) = list
  PROVE  detail(details, List(key)) = list
BY DEF detail, List

(* An annotation of the game with details, as it is told.                  *)
LEMMA AnnotationTold ==
  ASSUME NEW type, NEW affected, NEW details, details # <<>>
  PROVE  /\ "id" \in DOMAIN Annotation(type, affected, details)
         /\ LET told == extract_single_annotation(Annotation(type, affected, details))
            IN  /\ told["type"] = type
                /\ told["affected_ids"] = affected
                /\ \A fields, x : get(TypeFields, type) = <<fields>> /\ x \in DOMAIN fields
                     /\ x \notin {"id", "affector_id", "affected_ids", "type", "types"}
                     => told[x] = detail(details, fields[x])
<1> DEFINE base == [id |-> 1, type |-> <<type>>, affectedIds |-> affected]
           items == Items("details", details)
           a == base ++ items
<1>1. Annotation(type, affected, details) = a
  BY DEF Annotation
<1>2. DOMAIN items = {"details"} /\ items["details"] = details
  BY DEF Items, Field
<1>3. /\ DOMAIN base = {"id", "type", "affectedIds"}
      /\ get(base, "id") = <<1>> /\ get(base, "type") = <<<<type>>>>
      /\ get(base, "affectedIds") = <<affected>>
  BY DEF get
<1> HIDE DEF base, items
<1>4. /\ DOMAIN a = DOMAIN base \cup DOMAIN items
      /\ \A x \in DOMAIN items : x \notin DOMAIN base => a[x] = items[x]
  BY Merged
<1>5. /\ get(a, "id") = <<1>> /\ get(a, "type") = <<<<type>>>>
      /\ get(a, "affectedIds") = <<affected>>
  BY <1>3, GetMerged
<1> HIDE DEF a
<1>6. /\ "legacy_type" \notin DOMAIN a /\ "details" \in DOMAIN a /\ "id" \in DOMAIN a
      /\ a.details = details
  BY <1>2, <1>3, <1>4
<1>7. Listed(a, "affectedIds") = affected
  BY <1>5 DEF Listed, unwrap_or
<1>8. read_annotation_type(a) = type
  <2>1. unwrap_or(<<<<type>>>>, <<>>) = <<type>>
    BY DEF unwrap_or
  <2>2. read_annotation_types(a) = <<type>>
    BY <1>5, <1>6, <2>1 DEF read_annotation_types
  <2> QED
    BY <2>2 DEF read_annotation_type
<1> DEFINE told == extract_single_annotation(a)
<1>9. /\ told["type"] = type /\ told["affected_ids"] = affected
      /\ \A x : x \notin {"id", "affector_id", "affected_ids", "type", "types"} =>
           get(told, x) = get(add_type_specific_fields(type, affected, details), x)
  BY <1>6, <1>7, <1>8, AnnotationFacts
<1> HIDE DEF told
<1>10. ASSUME NEW fields, NEW x, get(TypeFields, type) = <<fields>>, x \in DOMAIN fields,
              x \notin {"id", "affector_id", "affected_ids", "type", "types"}
       PROVE  told[x] = detail(details, fields[x])
  <2>1. get(told, x) = <<detail(details, fields[x])>>
    BY <1>9, <1>10, SpecificFacts
  <2> QED
    BY <2>1 DEF get
<1> QED
  BY <1>1, <1>6, <1>9, <1>10 DEF told

(* A persistent annotation is told with its id and the abilities it        *)
(* grants.                                                                 *)
LEMMA GrantTold ==
  ASSUME NEW g, NEW id
  PROVE  /\ "id" \in DOMAIN Grant(g, id)
         /\ extract_single_annotation(Grant(g, id))["id"] = id
         /\ get(extract_single_annotation(Grant(g, id)), "granted_ability_grp_ids")
              = <<g.granted[id]>>
<1> DEFINE a == Grant(g, id)
           details == <<Detail("grpid", g.granted[id])>>
<1>1. /\ "legacy_type" \notin DOMAIN a /\ "details" \in DOMAIN a /\ "id" \in DOMAIN a
      /\ a.details = details
      /\ get(a, "id") = <<id>> /\ get(a, "affectedIds") = <<<<id>>>>
      /\ get(a, "type") = <<<<"AddAbility", "LayeredEffect">>>>
  BY DEF Grant, get
<1> HIDE DEF a
<1>2. unwrap_or(get(a, "id"), 0) = id
  BY <1>1 DEF unwrap_or
<1>3. read_annotation_type(a) = "AddAbility"
  BY <1>1 DEF read_annotation_type, read_annotation_types, unwrap_or
<1> DEFINE told == extract_single_annotation(a)
           fields == add_ability_fields
           rest == add_type_specific_fields("AddAbility", Listed(a, "affectedIds"), details)
<1>4. /\ told["id"] = id
      /\ \A x : x \notin {"id", "affector_id", "affected_ids", "type", "types"} =>
           get(told, x) = get(rest, x)
  <2> HIDE DEF details
  <2> QED
    BY <1>1, <1>2, <1>3, AnnotationFacts
<1> HIDE DEF told
<1>5. get(TypeFields, "AddAbility") = <<fields>>
  BY DEF get, TypeFields
<1>6. "granted_ability_grp_ids" \in DOMAIN fields
      /\ fields["granted_ability_grp_ids"] = List("grpid")
  BY DEF add_ability_fields
<1>7. get(rest, "granted_ability_grp_ids") = <<detail(details, List("grpid"))>>
  BY <1>5, <1>6, SpecificFacts
<1>8. DetailOf(details, "grpid") = g.granted[id]
  <2>1. /\ 1 \in DOMAIN details /\ details[1].values = g.granted[id]
        /\ \A i \in DOMAIN details : details[i].key = "grpid" <=> i = 1
    BY DEF Detail
  <2> HIDE DEF details
  <2> QED
    BY <2>1, DetailFound
<1>9. detail(details, List("grpid")) = g.granted[id]
  BY <1>8, ListDetail
<1> QED
  BY <1>1, <1>4, <1>7, <1>9 DEF told, a

-----------------------------------------------------------------------------
(* What they tell has happened.                                            *)

(* Without annotations nothing is told to have happened.                   *)
LEMMA StoryNone == Story(<<>>) = <<>>
<1> DEFINE none == <<>>
           places == {i \in DOMAIN none : none[i].type # "ObjectIdChanged"}
<1>1. places = {}
  BY NoFields
<1>2. At(none, places) = <<>>
  BY <1>1, AtNone
<1>3. Each(<<>>, Happening) = <<>>
  BY NoFields DEF Each
<1>4. Story(none) = Each(At(none, places), Happening)
  BY DEF Story
<1> QED
  BY <1>2, <1>3, <1>4

(* Of annotations of which only one is no change of an id, that one is the *)
(* story.                                                                  *)
LEMMA StoryOne ==
  ASSUME NEW list, NEW j \in DOMAIN list, j \in Int,
         \A i \in DOMAIN list : list[i].type # "ObjectIdChanged" <=> i = j
  PROVE  Story(list) = <<Happening(list[j])>>
<1> DEFINE places == {i \in DOMAIN list : list[i].type # "ObjectIdChanged"}
<1>1. places = {j}
  OBVIOUS
<1>2. At(list, {j}) = <<list[j]>>
  BY AtOne
<1>3. Each(<<list[j]>>, Happening) = <<Happening(list[j])>>
  BY DEF Each
<1>4. Story(list) = Each(At(list, places), Happening)
  BY DEF Story
<1> HIDE DEF places
<1>5. At(list, places) = <<list[j]>>
  BY <1>1, <1>2
<1>6. Story(list) = Each(<<list[j]>>, Happening)
  BY <1>4, <1>5
<1> QED
  BY <1>3, <1>6

(* A change of life is told with its amount.                               *)
LEMMA LifeTold ==
  ASSUME NEW ids, NEW change
  PROVE  LET told == extract_single_annotation(
                       Annotation("ModifiedLife", ids, <<Detail("life", <<change>>)>>))
         IN  told["type"] = "ModifiedLife"
             /\ Happening(told) = <<"ModifiedLife", ids, change>>
<1> DEFINE details == <<Detail("life", <<change>>)>>
           told == extract_single_annotation(Annotation("ModifiedLife", ids, details))
<1>1. detail(details, Num("life")) = change
  <2>1. /\ 1 \in DOMAIN details /\ details[1].values = <<change>>
        /\ \A i \in DOMAIN details : details[i].key = "life" <=> i = 1
    BY DEF Detail
  <2> HIDE DEF details
  <2> QED
    BY <2>1, DetailFound, NumberDetail
<1>2. details # <<>>
  OBVIOUS
<1>3. /\ get(TypeFields, "ModifiedLife") = <<modified_life_fields>>
      /\ "life" \in DOMAIN modified_life_fields
      /\ modified_life_fields["life"] = Num("life")
  BY DEF get, TypeFields, modified_life_fields
<1> HIDE DEF details
<1>4. /\ told["type"] = "ModifiedLife" /\ told["affected_ids"] = ids
      /\ told["life"] = change
  BY <1>1, <1>2, <1>3, AnnotationTold
<1> HIDE DEF told
<1>5. Happening(told) = <<"ModifiedLife", ids, change>>
  BY <1>4 DEF Happening
<1> QED
  BY <1>4, <1>5 DEF told, details

(* Counters that are added or removed are told with their number.          *)
LEMMA CountersTold ==
  ASSUME NEW ids, NEW type \in {"CounterAdded", "CounterRemoved"}
  PROVE  LET told == extract_single_annotation(
                       Annotation(type, ids, <<Detail("counter_type", <<1>>),
                                               Detail("transaction_amount", <<2>>)>>))
         IN  told["type"] = type /\ Happening(told) = <<type, ids, 2>>
<1> DEFINE details == <<Detail("counter_type", <<1>>),
                        Detail("transaction_amount", <<2>>)>>
           told == extract_single_annotation(Annotation(type, ids, details))
<1>1. detail(details, Num("transaction_amount")) = 2
  <2>1. /\ 2 \in DOMAIN details /\ details[2].values = <<2>>
        /\ \A i \in DOMAIN details : details[i].key = "transaction_amount" <=> i = 2
    BY DEF Detail
  <2> HIDE DEF details
  <2> QED
    BY <2>1, DetailFound, NumberDetail
<1>2. details # <<>>
  OBVIOUS
<1>3. /\ get(TypeFields, type) = <<counter_fields>>
      /\ "amount" \in DOMAIN counter_fields
      /\ counter_fields["amount"] = Num("transaction_amount")
  BY DEF get, TypeFields, counter_fields
<1> HIDE DEF details
<1>4. /\ told["type"] = type /\ told["affected_ids"] = ids
      /\ told["amount"] = 2
  BY <1>1, <1>2, <1>3, AnnotationTold
<1> HIDE DEF told
<1>5. Happening(told) = <<type, ids, 2>>
  BY <1>4 DEF Happening
<1> QED
  BY <1>4, <1>5 DEF told, details

(* A shuffle is told with the old ids and the new ones.                    *)
LEMMA ShuffleTold ==
  ASSUME NEW ids, NEW old, NEW new
  PROVE  LET told == extract_single_annotation(
                       Annotation("Shuffle", ids, <<Detail("OldIds", old),
                                                    Detail("NewIds", new)>>))
         IN  told["type"] = "Shuffle"
             /\ Happening(told) = <<"Shuffle", ids, old, new>>
<1> DEFINE details == <<Detail("OldIds", old), Detail("NewIds", new)>>
           told == extract_single_annotation(Annotation("Shuffle", ids, details))
<1>0. /\ 1 \in DOMAIN details /\ details[1].values = old
      /\ 2 \in DOMAIN details /\ details[2].values = new
      /\ \A i \in DOMAIN details : details[i].key = "OldIds" <=> i = 1
      /\ \A i \in DOMAIN details : details[i].key = "NewIds" <=> i = 2
  BY DEF Detail
<1>2. details # <<>>
  OBVIOUS
<1>3. /\ get(TypeFields, "Shuffle") = <<shuffle_fields>>
      /\ "old_ids" \in DOMAIN shuffle_fields /\ "new_ids" \in DOMAIN shuffle_fields
      /\ shuffle_fields["old_ids"] = List("OldIds")
      /\ shuffle_fields["new_ids"] = List("NewIds")
  BY DEF get, TypeFields, shuffle_fields
<1> HIDE DEF details
<1>1. detail(details, List("OldIds")) = old /\ detail(details, List("NewIds")) = new
  BY <1>0, DetailFound, ListDetail
<1>4. /\ told["type"] = "Shuffle" /\ told["affected_ids"] = ids
      /\ told["old_ids"] = old /\ told["new_ids"] = new
  BY <1>1, <1>2, <1>3, AnnotationTold
<1> HIDE DEF told
<1>5. Happening(told) = <<"Shuffle", ids, old, new>>
  BY <1>4 DEF Happening
<1> QED
  BY <1>4, <1>5 DEF told, details

(* A change of zones is told with the zone the card left and the one it    *)
(* entered.                                                                *)
LEMMA TransferTold ==
  ASSUME NEW ids, NEW from, NEW to
  PROVE  LET told == extract_single_annotation(
                       Annotation("ZoneTransfer", ids,
                                  <<Detail("zone_src", <<from>>),
                                    Detail("zone_dest", <<to>>),
                                    Detail("category", <<"Category">>)>>))
         IN  told["type"] = "ZoneTransfer"
             /\ Happening(told) = <<"ZoneTransfer", ids, from, to>>
<1> DEFINE details == <<Detail("zone_src", <<from>>), Detail("zone_dest", <<to>>),
                        Detail("category", <<"Category">>)>>
           told == extract_single_annotation(Annotation("ZoneTransfer", ids, details))
<1>2. details # <<>>
  OBVIOUS
<1>3. /\ get(TypeFields, "ZoneTransfer") = <<zone_transfer_fields>>
      /\ "zone_src" \in DOMAIN zone_transfer_fields
      /\ "zone_dest" \in DOMAIN zone_transfer_fields
      /\ zone_transfer_fields["zone_src"] = Num("zone_src")
      /\ zone_transfer_fields["zone_dest"] = Num("zone_dest")
  BY DEF get, TypeFields, zone_transfer_fields
<1>1. detail(details, Num("zone_src")) = from /\ detail(details, Num("zone_dest")) = to
  <2>1. DetailOf(details, "zone_src") = <<from>>
    <3>1. PICK j : j = 1
      OBVIOUS
    <3>2. /\ j \in DOMAIN details /\ details[j].values = <<from>>
          /\ \A i \in DOMAIN details : details[i].key = "zone_src" <=> i = j
      BY <3>1 DEF Detail
    <3> HIDE DEF details
    <3> QED
      BY <3>1, <3>2, DetailFound
  <2>2. DetailOf(details, "zone_dest") = <<to>>
    <3>1. /\ 2 \in DOMAIN details /\ details[2].values = <<to>>
          /\ \A i \in DOMAIN details : details[i].key = "zone_dest" <=> i = 2
      BY DEF Detail
    <3> HIDE DEF details
    <3> QED
      BY <3>1, DetailFound
  <2> QED
    BY <2>1, <2>2, NumberDetail
<1> HIDE DEF details
<1>4. /\ told["type"] = "ZoneTransfer" /\ told["affected_ids"] = ids
      /\ told["zone_src"] = from /\ told["zone_dest"] = to
  BY <1>1, <1>2, <1>3, AnnotationTold
<1> HIDE DEF told
<1>5. Happening(told) = <<"ZoneTransfer", ids, from, to>>
  BY <1>4 DEF Happening
<1> QED
  BY <1>4, <1>5 DEF told, details

(* A change of ids is told with the old one as old and the new one as new. *)
LEMMA RenameTold ==
  ASSUME NEW ids, NEW old, NEW new
  PROVE  LET told == extract_single_annotation(
                       Annotation("ObjectIdChanged", ids,
                                  <<Detail("orig_id", <<old>>), Detail("new_id", <<new>>)>>))
         IN  told["type"] = "ObjectIdChanged" /\ told["old_id"] = old /\ told["new_id"] = new
<1> DEFINE details == <<Detail("orig_id", <<old>>), Detail("new_id", <<new>>)>>
           told == extract_single_annotation(Annotation("ObjectIdChanged", ids, details))
<1>2. details # <<>>
  OBVIOUS
<1>3. /\ get(TypeFields, "ObjectIdChanged") = <<object_id_changed_fields>>
      /\ "old_id" \in DOMAIN object_id_changed_fields
      /\ "new_id" \in DOMAIN object_id_changed_fields
      /\ object_id_changed_fields["old_id"] = Num("orig_id")
      /\ object_id_changed_fields["new_id"] = Num("new_id")
  BY DEF get, TypeFields, object_id_changed_fields
<1>1. detail(details, Num("orig_id")) = old /\ detail(details, Num("new_id")) = new
  <2>1. DetailOf(details, "orig_id") = <<old>>
    <3>1. /\ 1 \in DOMAIN details /\ details[1].values = <<old>>
          /\ \A i \in DOMAIN details : details[i].key = "orig_id" <=> i = 1
      BY DEF Detail
    <3> HIDE DEF details
    <3> QED
      BY <3>1, DetailFound
  <2>2. DetailOf(details, "new_id") = <<new>>
    <3>1. /\ 2 \in DOMAIN details /\ details[2].values = <<new>>
          /\ \A i \in DOMAIN details : details[i].key = "new_id" <=> i = 2
      BY DEF Detail
    <3> HIDE DEF details
    <3> QED
      BY <3>1, DetailFound
  <2> QED
    BY <2>1, <2>2, NumberDetail
<1> HIDE DEF details
<1>4. /\ told["type"] = "ObjectIdChanged"
      /\ told["old_id"] = old /\ told["new_id"] = new
  BY <1>1, <1>2, <1>3, AnnotationTold
<1> QED
  BY <1>4 DEF details

-----------------------------------------------------------------------------
(* The lists they tell.                                                    *)

(* No element that has its id is left out.                                 *)
LEMMA IdentifiedAll ==
  ASSUME NEW gsm, NEW array, NEW id, NEW n \in Nat, NEW list,
         Listed(gsm, array) = list, list = [i \in 1 .. n |-> list[i]],
         \A i \in 1 .. n : id \in DOMAIN list[i]
  PROVE  Identified(gsm, array, id) = list
<1> DEFINE places == {i \in DOMAIN list : id \in DOMAIN list[i]}
<1>1. places = 1 .. n
  OBVIOUS
<1>2. Identified(gsm, array, id) = At(list, places)
  BY DEF Identified, Listed
<1> HIDE DEF places
<1> QED
  BY <1>1, <1>2, AtAll

(* A list of elements in the order of their keys is the function of the    *)
(* keys.                                                                   *)
LEMMA ByKeyOf ==
  ASSUME NEW S \in SUBSET Int, IsFiniteSet(S), NEW key, NEW F,
         F = [x \in S |-> F[x]], \A x \in S : F[x][key] = x, NEW list,
         list = [i \in DOMAIN Ascending(S) |-> F[Ascending(S)[i]]]
  PROVE  ByKey(list, key) = F
<1> DEFINE n == Cardinality(S)
           a == Ascending(S)
           keys == {list[i][key] : i \in DOMAIN list}
           pick(k) == CHOOSE i \in DOMAIN list : list[i][key] = k
<1>1. /\ a \in [1 .. n -> S] /\ \A x \in S : \E i \in 1 .. n : a[i] = x
  BY AscendingFacts
<1> HIDE DEF a, n
<1>2. DOMAIN list = 1 .. n /\ \A i \in 1 .. n : list[i] = F[a[i]] /\ list[i][key] = a[i]
  <2>1. list = [i \in 1 .. n |-> F[a[i]]]
    BY <1>1 DEF a
  <2> QED
    BY <1>1, <2>1
<1>3. ASSUME NEW x \in S PROVE \E i \in DOMAIN list : list[i][key] = x
  <2>1. PICK i \in 1 .. n : a[i] = x
    BY <1>1
  <2>2. i \in DOMAIN list /\ list[i][key] = x
    BY <1>2, <2>1
  <2> QED
    BY <2>2
<1>4. \A i \in DOMAIN list : list[i][key] \in S
  <2>1. \A i \in 1 .. n : a[i] \in S
    BY <1>1
  <2> QED
    BY <1>2, <2>1
<1>5. keys = S
  BY <1>3, <1>4
<1>6. ASSUME NEW k \in S PROVE list[pick(k)] = F[k]
  <2>1. \E i \in DOMAIN list : list[i][key] = k
    BY <1>3
  <2>2. pick(k) \in DOMAIN list /\ list[pick(k)][key] = k
    BY <2>1
  <2> HIDE DEF pick
  <2> QED
    BY <1>2, <2>2
<1>7. ByKey(list, key) = [k \in keys |-> list[pick(k)]]
  BY DEF ByKey
<1> HIDE DEF keys, pick
<1> QED
  BY <1>5, <1>6, <1>7

(* The zones listed are told, each under its id, and no other.             *)
LEMMA ZonesTold ==
  ASSUME NEW gsm, NEW g, NEW S \in SUBSET Int, IsFiniteSet(S),
         Listed(gsm, "zones")
           = [i \in DOMAIN Ascending(S) |-> Zone(g, Ascending(S)[i])]
  PROVE  ByKey(extract_zones(gsm), "zone_id")
           = [x \in S |-> extract_single_zone(Zone(g, x))]
<1> DEFINE n == Cardinality(S)
           a == Ascending(S)
           list == [i \in DOMAIN a |-> Zone(g, a[i])]
           F == [x \in S |-> extract_single_zone(Zone(g, x))]
           told == [i \in DOMAIN a |-> F[a[i]]]
<1>1. n \in Nat /\ a \in [1 .. n -> S]
  BY AscendingFacts
<1>2. Listed(gsm, "zones") = list
  OBVIOUS
<1> HIDE DEF a, n
<1>3. /\ DOMAIN list = 1 .. n /\ list = [i \in 1 .. n |-> list[i]]
      /\ \A i \in 1 .. n : list[i] = Zone(g, a[i])
  BY <1>1
<1> HIDE DEF list
<1>4. \A i \in 1 .. n : "zoneId" \in DOMAIN list[i]
  BY <1>3, ZoneTold
<1>5. Identified(gsm, "zones", "zoneId") = list
  BY <1>1, <1>2, <1>3, <1>4, IdentifiedAll
<1>6. extract_zones(gsm) = [i \in DOMAIN list |-> extract_single_zone(list[i])]
  BY <1>5 DEF extract_zones, Each
<1>7. extract_zones(gsm) = told
  BY <1>1, <1>3, <1>6
<1>8. F = [x \in S |-> F[x]] /\ \A x \in S : F[x]["zone_id"] = x
  BY ZoneTold
<1> HIDE DEF F
<1>9. ByKey(told, "zone_id") = F
  BY <1>8, ByKeyOf DEF a
<1> HIDE DEF told
<1> QED
  BY <1>7, <1>9 DEF F

(* The objects listed are told, each under its id, and no other.           *)
LEMMA ObjectsTold ==
  ASSUME NEW gsm, NEW g, NEW S \in SUBSET Int, IsFiniteSet(S),
         Listed(gsm, "gameObjects")
           = [i \in DOMAIN Ascending(S) |-> Object(g, Ascending(S)[i])]
  PROVE  ByKey(extract_game_objects(gsm), "instance_id")
           = [x \in S |-> extract_single_game_object(Object(g, x))]
<1> DEFINE n == Cardinality(S)
           a == Ascending(S)
           list == [i \in DOMAIN a |-> Object(g, a[i])]
           F == [x \in S |-> extract_single_game_object(Object(g, x))]
           told == [i \in DOMAIN a |-> F[a[i]]]
<1>1. n \in Nat /\ a \in [1 .. n -> S]
  BY AscendingFacts
<1>2. Listed(gsm, "gameObjects") = list
  OBVIOUS
<1> HIDE DEF a, n
<1>3. /\ DOMAIN list = 1 .. n /\ list = [i \in 1 .. n |-> list[i]]
      /\ \A i \in 1 .. n : list[i] = Object(g, a[i])
  BY <1>1
<1> HIDE DEF list
<1>4. \A i \in 1 .. n : "instanceId" \in DOMAIN list[i]
  BY <1>3, ObjectTold
<1>5. Identified(gsm, "gameObjects", "instanceId") = list
  BY <1>1, <1>2, <1>3, <1>4, IdentifiedAll
<1>6. extract_game_objects(gsm) = [i \in DOMAIN list |-> extract_single_game_object(list[i])]
  BY <1>5 DEF extract_game_objects, Each
<1>7. extract_game_objects(gsm) = told
  BY <1>1, <1>3, <1>6
<1>8. F = [x \in S |-> F[x]] /\ \A x \in S : F[x]["instance_id"] = x
  BY ObjectTold
<1> HIDE DEF F
<1>9. ByKey(told, "instance_id") = F
  BY <1>8, ByKeyOf DEF a
<1> HIDE DEF told
<1> QED
  BY <1>7, <1>9 DEF F

(* The timers listed are told, each under its id, and no other.            *)
LEMMA TimersTold ==
  ASSUME NEW gsm, NEW g, NEW S \in SUBSET Int, IsFiniteSet(S),
         Listed(gsm, "timers")
           = [i \in DOMAIN Ascending(S) |-> Timer(g, Ascending(S)[i])]
  PROVE  ByKey(extract_timers(gsm), "timer_id")
           = [x \in S |-> extract_single_timer(Timer(g, x))]
<1> DEFINE n == Cardinality(S)
           a == Ascending(S)
           list == [i \in DOMAIN a |-> Timer(g, a[i])]
           F == [x \in S |-> extract_single_timer(Timer(g, x))]
           told == [i \in DOMAIN a |-> F[a[i]]]
<1>1. n \in Nat /\ a \in [1 .. n -> S]
  BY AscendingFacts
<1>2. Listed(gsm, "timers") = list
  OBVIOUS
<1> HIDE DEF a, n
<1>3. /\ DOMAIN list = 1 .. n /\ list = [i \in 1 .. n |-> list[i]]
      /\ \A i \in 1 .. n : list[i] = Timer(g, a[i])
  BY <1>1
<1> HIDE DEF list
<1>4. \A i \in 1 .. n : "timerId" \in DOMAIN list[i]
  BY <1>3, TimerTold
<1>5. Identified(gsm, "timers", "timerId") = list
  BY <1>1, <1>2, <1>3, <1>4, IdentifiedAll
<1>6. extract_timers(gsm) = [i \in DOMAIN list |-> extract_single_timer(list[i])]
  BY <1>5 DEF extract_timers, Each
<1>7. extract_timers(gsm) = told
  BY <1>1, <1>3, <1>6
<1>8. F = [x \in S |-> F[x]] /\ \A x \in S : F[x]["timer_id"] = x
  BY TimerTold
<1> HIDE DEF F
<1>9. ByKey(told, "timer_id") = F
  BY <1>8, ByKeyOf DEF a
<1> HIDE DEF told
<1> QED
  BY <1>7, <1>9 DEF F

(* The persistent annotations listed are told, each under its id, and no   *)
(* other.                                                                  *)
LEMMA GrantsTold ==
  ASSUME NEW gsm, NEW g, NEW S \in SUBSET Int, IsFiniteSet(S),
         Listed(gsm, "persistentAnnotations")
           = [i \in DOMAIN Ascending(S) |-> Grant(g, Ascending(S)[i])]
  PROVE  ByKey(extract_persistent_annotations(gsm), "id")
           = [x \in S |-> extract_single_annotation(Grant(g, x))]
<1> DEFINE n == Cardinality(S)
           a == Ascending(S)
           list == [i \in DOMAIN a |-> Grant(g, a[i])]
           F == [x \in S |-> extract_single_annotation(Grant(g, x))]
           told == [i \in DOMAIN a |-> F[a[i]]]
<1>1. n \in Nat /\ a \in [1 .. n -> S]
  BY AscendingFacts
<1>2. Listed(gsm, "persistentAnnotations") = list
  OBVIOUS
<1> HIDE DEF a, n
<1>3. /\ DOMAIN list = 1 .. n /\ list = [i \in 1 .. n |-> list[i]]
      /\ \A i \in 1 .. n : list[i] = Grant(g, a[i])
  BY <1>1
<1> HIDE DEF list
<1>4. \A i \in 1 .. n : "id" \in DOMAIN list[i]
  BY <1>3, GrantTold
<1>5. Identified(gsm, "persistentAnnotations", "id") = list
  BY <1>1, <1>2, <1>3, <1>4, IdentifiedAll
<1>6. extract_persistent_annotations(gsm) = [i \in DOMAIN list |-> extract_single_annotation(list[i])]
  BY <1>5 DEF extract_persistent_annotations, Each
<1>7. extract_persistent_annotations(gsm) = told
  BY <1>1, <1>3, <1>6
<1>8. F = [x \in S |-> F[x]] /\ \A x \in S : F[x]["id"] = x
  BY GrantTold
<1> HIDE DEF F
<1>9. ByKey(told, "id") = F
  BY <1>8, ByKeyOf DEF a
<1> HIDE DEF told
<1> QED
  BY <1>7, <1>9 DEF F

(* Of a message without timers or annotations none are told.               *)
LEMMA NothingTold ==
  ASSUME NEW gsm
  PROVE  /\ Listed(gsm, "timers") = <<>> => ByKey(extract_timers(gsm), "timer_id") = <<>>
         /\ Listed(gsm, "annotations") = <<>> => extract_annotations(gsm) = <<>>
<1> DEFINE none == <<>>
<1>1. \A list, id : list = <<>> => At(list, {i \in DOMAIN list : id \in DOMAIN list[i]}) = <<>>
  <2> SUFFICES ASSUME NEW id
               PROVE  At(none, {i \in DOMAIN none : id \in DOMAIN none[i]}) = <<>>
    OBVIOUS
  <2>1. {i \in DOMAIN none : id \in DOMAIN none[i]} = {}
    BY NoFields
  <2> QED
    BY <2>1, AtNone
<1>2. ASSUME Listed(gsm, "timers") = <<>>
      PROVE  ByKey(extract_timers(gsm), "timer_id") = <<>>
  <2>1. Identified(gsm, "timers", "timerId") = <<>>
    BY <1>1, <1>2 DEF Identified, Listed
  <2>2. extract_timers(gsm) = <<>>
    BY <2>1, NoFields DEF extract_timers, Each
  <2> QED
    BY <2>2, NoFields DEF ByKey
<1>3. ASSUME Listed(gsm, "annotations") = <<>>
      PROVE  extract_annotations(gsm) = <<>>
  <2>1. Identified(gsm, "annotations", "id") = <<>>
    BY <1>1, <1>3 DEF Identified, Listed
  <2> QED
    BY <2>1, NoFields DEF extract_annotations, Each
<1> QED
  BY <1>2, <1>3

(* The turn of a message that has one is told.                             *)
LEMMA TurnTold ==
  ASSUME NEW gsm, NEW g, get(gsm, "turnInfo") = <<TurnInfo(g)>>
  PROVE  /\ extract_turn_info(gsm) # <<>>
         /\ Head(extract_turn_info(gsm)).turn_number = g.turn
<1> DEFINE fields == [turn_number |-> Num("turnNumber"), phase |-> Text("phase"),
                      step |-> Text("step"), active_player |-> Num("activePlayer"),
                      decision_player |-> Num("decisionPlayer")]
           base == [activePlayer |-> g.active]
           turn == Number("turnNumber", g.turn)
           info == base ++ turn
           told == Copied(info, fields)
<1>1. "turnInfo" \in DOMAIN gsm /\ gsm.turnInfo = info
  BY DEF get, TurnInfo
<1>2. extract_turn_info(gsm) = <<told>>
  BY <1>1 DEF extract_turn_info
<1>3. /\ "turn_number" \in DOMAIN fields
      /\ fields["turn_number"].key = "turnNumber" /\ fields["turn_number"].default = 0
  BY DEF Num, Text, From
<1>4. "turnNumber" \notin DOMAIN base
  OBVIOUS
<1>5. get(turn, "turnNumber") = IF g.turn = 0 THEN <<>> ELSE <<g.turn>>
  BY NoFields DEF Number, Field, get
<1> HIDE DEF fields, base, turn
<1>6. get(info, "turnNumber") = get(turn, "turnNumber")
  BY <1>4, GetMerged
<1> HIDE DEF info
<1>7. told["turn_number"] = unwrap_or(get(info, "turnNumber"), 0)
  BY <1>3, CopiedFacts
<1>8. unwrap_or(get(info, "turnNumber"), 0) = g.turn
  BY <1>5, <1>6 DEF unwrap_or
<1> HIDE DEF told
<1> QED
  BY <1>2, <1>7, <1>8

(* A message without a turn tells of none.                                 *)
LEMMA NoTurnTold ==
  ASSUME NEW gsm, get(gsm, "turnInfo") = <<>>
  PROVE  extract_turn_info(gsm) = <<>>
BY DEF get, extract_turn_info

-----------------------------------------------------------------------------
(* The invariant.                                                          *)

(* What a consumer knows that has the zones, objects, timers and grants of *)
(* a game.                                                                 *)
ZonesOf(g) == [z \in Zones |-> extract_single_zone(Zone(g, z))]
ObjectsOf(g) == [id \in Visible(g) |-> extract_single_game_object(Object(g, id))]
TimersOf(g) == [seat \in 1 .. 2 |-> extract_single_timer(Timer(g, seat))]
GrantsOf(g) == [id \in DOMAIN g.granted |-> extract_single_annotation(Grant(g, id))]

(* A game: a finite number of cards in its zones, and of abilities         *)
(* granted.                                                                *)
IsGame(g) ==
  /\ DOMAIN g = {"zones", "attacking", "granted", "story", "turn", "active"}
  /\ DOMAIN g.zones = Zones
  /\ \A z \in Zones : g.zones[z] \in Seq(Nat)
  /\ DOMAIN g.granted \in SUBSET Nat /\ IsFiniteSet(DOMAIN g.granted)
  /\ g.story \in Seq(ToSet(g.story))
  /\ g.turn \in Nat /\ g.active \in 1 .. 2

(* Every state of the game is one, and the last of them is the game's.     *)
GamesKept ==
  /\ IsGame(game)
  /\ \A k \in DOMAIN states : IsGame(states[k])
  /\ IF states = <<>> THEN game = NewGame ELSE game = states[Len(states)]

(* The consumer c has all of the game g. It may also have grants that      *)
(* ended.                                                                  *)
Follows(c, g) ==
  /\ c.zones = ZonesOf(g) /\ c.objects = ObjectsOf(g) /\ c.timers = TimersOf(g)
  /\ Keeps(GrantsOf(g), c.grants)
  /\ c.turn = g.turn

(* A consumer that has missed nothing since a Full state follows the game  *)
(* it was told last, wherever the game is by now.                          *)
BoardKept == consumer.sync /\ ~lean => Follows(consumer, states[consumer.last])

(* No state is missing, and those sent whole after the first are           *)
(* rollbacks.                                                              *)
OnlyUndone == lost = {} /\ \A f \in DOMAIN whole \ {1} : whole[f] = "GameStateUpdate_Undo"

(* The story the consumer has, and each it could be rolled back to, is     *)
(* that of its state; one that can be rolled back to every state has not   *)
(* lost it.                                                                *)
StoryKept ==
  ~lean =>
    /\ \/ consumer.story = <<>>
       \/ consumer.sync /\ consumer.story = <<states[consumer.last].story>>
    /\ \A k \in DOMAIN consumer.past :
         k \in DOMAIN states /\ consumer.past[k] = states[k].story
    /\ OnlyUndone =>
         /\ states # <<>> => consumer.story # <<>>
         /\ DOMAIN states \subseteq DOMAIN consumer.past

(* The ids of a state are less than those that later ones issue, so that   *)
(* none that is new was ever known.                                        *)
IdsIssued ==
  /\ IF states = <<>> THEN revealed = {}
     ELSE \A id \in revealed : id \in Nat /\ id < Issued(Len(states) + 1, 0)
  /\ \A k \in DOMAIN states : \A id \in Located(states[k]) :
        id < Issued(Len(states) + 1, 0)

(* No id is known as another card, and the cards revealed are known in     *)
(* every state, not in the last one only: a rollback may return to any.    *)
NamesKept ==
  /\ \A id \in DOMAIN consumer.names : consumer.names[id] = CardOf(id)
  /\ ~lean /\ lost = {} =>
       \A k \in DOMAIN states : Located(states[k]) \cap revealed \subseteq DOMAIN consumer.names

(* The inductive invariant, besides IInv.                                  *)
BInv ==
  /\ {"zones", "objects", "timers", "grants", "names"} \subseteq DOMAIN consumer
  /\ GamesKept /\ BoardKept /\ StoryKept /\ IdsIssued /\ NamesKept

(* A zone has a finite number of cards.                                    *)
LEMMA FiniteList ==
  ASSUME NEW s \in Seq(Nat)
  PROVE  ToSet(s) \in SUBSET Nat /\ IsFiniteSet(ToSet(s))
<1> DEFINE D == 1 .. Len(s)
<1>1. Len(s) \in Nat /\ DOMAIN s = D /\ s \in [D -> Nat]
  OBVIOUS
<1>2. IsFiniteSet(D)
  BY <1>1, FS_Interval
<1>3. ToSet(s) = {s[i] : i \in D}
  BY <1>1 DEF ToSet
<1>4. s \in Surjection(D, ToSet(s))
  <2> HIDE DEF D
  <2>1. s \in [D -> ToSet(s)]
    BY <1>1, <1>3
  <2>2. \A y \in ToSet(s) : \E i \in D : s[i] = y
    BY <1>3
  <2> QED
    BY <2>1, <2>2 DEF Surjection
<1> HIDE DEF D
<1>5. IsFiniteSet(ToSet(s))
  BY <1>2, <1>4, FS_Surjection
<1> QED
  BY <1>1, <1>3, <1>5

(* The sets that a state is listed from are finite sets of numbers.        *)
LEMMA GameSets ==
  ASSUME NEW g, IsGame(g)
  PROVE  /\ Visible(g) \in SUBSET Nat /\ IsFiniteSet(Visible(g))
         /\ Located(g) \in SUBSET Nat /\ Visible(g) \subseteq Located(g)
         /\ DOMAIN g.granted \in SUBSET Int /\ IsFiniteSet(DOMAIN g.granted)
<1>1. Hand \in Zones /\ Battlefield \in Zones
  BY DEF Zones
<1>2. \A z \in Zones : ToSet(g.zones[z]) \in SUBSET Nat /\ IsFiniteSet(ToSet(g.zones[z]))
  BY FiniteList DEF IsGame
<1>3. IsFiniteSet(Visible(g)) /\ Visible(g) \in SUBSET Nat
  BY <1>1, <1>2, FS_Union DEF Visible
<1>4. Located(g) \in SUBSET Nat /\ Visible(g) \subseteq Located(g)
  BY <1>1, <1>2 DEF Located, Visible
<1> QED
  BY <1>3, <1>4 DEF IsGame

(* There are three zones.                                                  *)
LEMMA ZonesFinite ==
  /\ Zones \in SUBSET Int /\ IsFiniteSet(Zones) /\ Cardinality(Zones) = 3
<1>1. PICK a, b, c : a = {Library} /\ b = {Library, Hand} /\ c = Zones
  OBVIOUS
<1>2. IsFiniteSet(a) /\ Cardinality(a) = 1
  BY <1>1, FS_Singleton
<1>3. b = a \cup {Hand} /\ Hand \notin a
  BY <1>1 DEF Library, Hand
<1>4. IsFiniteSet(b) /\ Cardinality(b) = 2
  BY <1>2, <1>3, FS_AddElement
<1>5. c = b \cup {Battlefield} /\ Battlefield \notin b
  BY <1>1 DEF Library, Hand, Battlefield, Zones
<1>6. IsFiniteSet(c) /\ Cardinality(c) = 3
  BY <1>4, <1>5, FS_AddElement
<1> QED
  BY <1>1, <1>6 DEF Library, Hand, Battlefield, Zones

(* A set listed in ascending order has the elements of the set.            *)
LEMMA AscendingOf ==
  ASSUME NEW S \in SUBSET Int, IsFiniteSet(S)
  PROVE  ToSet(Ascending(S)) = S
<1>1. /\ Ascending(S) \in [1 .. Cardinality(S) -> S]
      /\ \A x \in S : \E k \in 1 .. Cardinality(S) : Ascending(S)[k] = x
  BY AscendingFacts
<1> QED
  BY <1>1 DEF ToSet

-----------------------------------------------------------------------------
(* What the consumer makes of a payload.                                   *)

(* What the consumer knows of its place, and what of the board.            *)
Knows == {"sync", "last", "story", "past", "turn"}
Board == {"zones", "objects", "timers", "grants", "names"}

(* The consumer takes its place from the payload, and the board too unless *)
(* it is lean.                                                             *)
LEMMA Overlaid ==
  ASSUME NEW base, DOMAIN base = Knows, NEW replayed, DOMAIN replayed = Board,
         NEW rest, rest = (IF lean THEN consumer ELSE replayed ++ consumer),
         NEW known, known = base ++ rest
  PROVE  /\ \A x \in Knows : known[x] = base[x]
         /\ DOMAIN consumer \subseteq DOMAIN known
         /\ lean => \A x \in Board : x \in DOMAIN consumer => known[x] = consumer[x]
         /\ ~lean => \A x \in Board : known[x] = replayed[x]
<1>1. Knows \cap Board = {}
  BY DEF Knows, Board
<1>2. /\ DOMAIN known = DOMAIN base \cup DOMAIN rest
      /\ \A x \in DOMAIN base : known[x] = base[x]
      /\ \A x \in DOMAIN rest : x \notin DOMAIN base => known[x] = rest[x]
  BY DEF ++
<1>3. lean => rest = consumer
  OBVIOUS
<1>4. ASSUME ~lean
      PROVE  /\ DOMAIN rest = Board \cup DOMAIN consumer
             /\ \A x \in Board : rest[x] = replayed[x]
  BY <1>4 DEF ++
<1> QED
  BY <1>1, <1>2, <1>3, <1>4

(* All that a payload changes in what the consumer knows.                  *)
LEMMA ConsumedAll ==
  ASSUME NEW payload, Consume(payload), NEW full \in BOOLEAN, NEW sync \in BOOLEAN,
         NEW story, full <=> (payload.game_state_type = <<"GameStateType_Full">>),
         sync <=> (\/ full
                   \/ consumer.sync /\ payload.prev_game_state_id = <<consumer.last>>),
         story = StoryAfter(payload, full, sync),
         NEW past, past = Field(payload.game_state_id, Head(story)) ++ consumer.past,
         NEW replayed, replayed = Replayed(payload, full)
  PROVE  /\ consumer'["sync"] = sync
         /\ consumer'["last"] = payload.game_state_id
         /\ consumer'["story"] = story
         /\ consumer'["past"] = IF story = <<>> THEN consumer.past ELSE past
         /\ consumer'["turn"] = IF payload.turn_info = <<>> THEN consumer.turn
                                ELSE Head(payload.turn_info).turn_number
         /\ DOMAIN consumer \subseteq DOMAIN consumer'
         /\ lean => \A x \in Board : x \in DOMAIN consumer => consumer'[x] = consumer[x]
         /\ ~lean => \A x \in Board : consumer'[x] = replayed[x]
<1> DEFINE base  == [sync |-> sync, last |-> payload.game_state_id, story |-> story,
                     past |-> IF story = <<>> THEN consumer.past ELSE past,
                     turn |-> IF payload.turn_info = <<>> THEN consumer.turn
                              ELSE Head(payload.turn_info).turn_number]
           rest  == IF lean THEN consumer ELSE replayed ++ consumer
           known == base ++ rest
<1>1. consumer' = known
  BY DEF Consume
<1>2. DOMAIN base = Knows
  BY DEF Knows
<1>3. DOMAIN replayed = Board
  BY DEF Replayed, Board
<1>5. /\ base["sync"] = sync /\ base["last"] = payload.game_state_id
      /\ base["story"] = story
      /\ base["past"] = IF story = <<>> THEN consumer.past ELSE past
      /\ base["turn"] = IF payload.turn_info = <<>> THEN consumer.turn
                        ELSE Head(payload.turn_info).turn_number
  OBVIOUS
<1> HIDE DEF base
<1> HIDE DEF rest, known
<1>6. /\ \A x \in Knows : known[x] = base[x]
      /\ DOMAIN consumer \subseteq DOMAIN known
      /\ lean => \A x \in Board : x \in DOMAIN consumer => known[x] = consumer[x]
      /\ ~lean => \A x \in Board : known[x] = replayed[x]
  BY <1>2, <1>3, Overlaid DEF known, rest
<1>9. /\ known["sync"] = sync /\ known["last"] = payload.game_state_id
      /\ known["story"] = story
      /\ known["past"] = IF story = <<>> THEN consumer.past ELSE past
      /\ known["turn"] = IF payload.turn_info = <<>> THEN consumer.turn
                         ELSE Head(payload.turn_info).turn_number
  BY <1>5, <1>6 DEF Knows
<1> QED
  BY <1>1, <1>6, <1>9

(* The timers of both seats, told, are those of the game.                  *)
LEMMA TimersAll ==
  ASSUME NEW gsm, NEW g, Listed(gsm, "timers") = TimersListed(g)
  PROVE  ByKey(extract_timers(gsm), "timer_id") = TimersOf(g)
<1>1. PICK n \in Nat : n = 2
  OBVIOUS
<1>2. PICK S : S = 1 .. n
  OBVIOUS
<1>3. S \in SUBSET Int /\ IsFiniteSet(S)
  BY <1>2, FS_Interval
<1>4. Ascending(S) = [k \in S |-> k]
  BY <1>2, AscendingInterval
<1>5. TimersListed(g) = [seat \in S |-> Timer(g, seat)]
      /\ TimersOf(g) = [seat \in S |-> extract_single_timer(Timer(g, seat))]
  BY <1>1, <1>2 DEF TimersListed, TimersOf
<1>6. Listed(gsm, "timers") = [i \in DOMAIN Ascending(S) |-> Timer(g, Ascending(S)[i])]
  BY <1>4, <1>5
<1>7. ByKey(extract_timers(gsm), "timer_id")
        = [x \in S |-> extract_single_timer(Timer(g, x))]
  BY <1>3, <1>6, TimersTold
<1> QED
  BY <1>5, <1>7

(* The payload of a Full state has the board of the game, whatever the     *)
(* consumer knew.                                                          *)
LEMMA ReplayedFull ==
  ASSUME NEW gsm, NEW g, IsGame(g), NEW payload,
         NEW told, NEW full \in BOOLEAN, full,
         Listed(gsm, "zones") = ZonesListed(g),
         Listed(gsm, "timers") = TimersListed(g),
         Listed(gsm, "gameObjects") = ObjectsListed(g, Visible(g)),
         Listed(gsm, "persistentAnnotations") = GrantsListed(g, DOMAIN g.granted),
         payload.diff_deleted_instance_ids = <<>>,
         payload.zones = extract_zones(gsm),
         payload.game_objects = extract_game_objects(gsm),
         payload.persistent_annotations = extract_persistent_annotations(gsm),
         payload.timers = extract_timers(gsm)
  PROVE  told = Replayed(payload, full) =>
           /\ told["zones"] = ZonesOf(g) /\ told["objects"] = ObjectsOf(g)
           /\ told["timers"] = TimersOf(g) /\ told["grants"] = GrantsOf(g)
<1>1. /\ Visible(g) \in SUBSET Int /\ IsFiniteSet(Visible(g))
      /\ DOMAIN g.granted \in SUBSET Int /\ IsFiniteSet(DOMAIN g.granted)
  BY GameSets
<1>2. ByKey(payload.zones, "zone_id") = ZonesOf(g)
  <2>1. ZonesListed(g) = [i \in DOMAIN Ascending(Zones) |-> Zone(g, Ascending(Zones)[i])]
    <3>1. DOMAIN Ascending(Zones) = 1 .. 3
      BY ZonesFinite, AscendingFacts
    <3> QED
      BY <3>1 DEF ZonesListed
  <2>2. ByKey(extract_zones(gsm), "zone_id")
          = [z \in Zones |-> extract_single_zone(Zone(g, z))]
    <3>1. Listed(gsm, "zones")
            = [i \in DOMAIN Ascending(Zones) |-> Zone(g, Ascending(Zones)[i])]
      BY <2>1
    <3> QED
      BY ONLY <3>1, ZonesFinite, ZonesTold
  <2> QED
    BY <2>2 DEF ZonesOf
<1>3. ByKey(payload.game_objects, "instance_id") = ObjectsOf(g)
  BY <1>1, ObjectsTold DEF ObjectsListed, ObjectsOf
<1>4. ByKey(payload.persistent_annotations, "id") = GrantsOf(g)
  <2>1. PICK S : S = DOMAIN g.granted
    OBVIOUS
  <2>2. /\ S \in SUBSET Int /\ IsFiniteSet(S)
        /\ Listed(gsm, "persistentAnnotations")
             = [i \in DOMAIN Ascending(S) |-> Grant(g, Ascending(S)[i])]
    BY <1>1, <2>1 DEF GrantsListed
  <2>3. ByKey(extract_persistent_annotations(gsm), "id")
          = [x \in S |-> extract_single_annotation(Grant(g, x))]
    BY <2>2, GrantsTold
  <2> QED
    BY <2>1, <2>3 DEF GrantsOf
<1>5. ByKey(payload.timers, "timer_id") = TimersOf(g)
  BY TimersAll
<1>6. /\ ZonesOf(g) ++ <<>> = ZonesOf(g) /\ ObjectsOf(g) ++ <<>> = ObjectsOf(g)
      /\ GrantsOf(g) ++ <<>> = GrantsOf(g) /\ TimersOf(g) ++ <<>> = TimersOf(g)
  BY NoFields DEF ++, ZonesOf, ObjectsOf, GrantsOf, TimersOf
<1>7. Without(ObjectsOf(g), ToSet(<<>>)) = ObjectsOf(g)
  <2>1. ToSet(<<>>) = {}
    BY NoFields DEF ToSet
  <2> QED
    BY <2>1 DEF Without, ObjectsOf
<1>8. ASSUME told = Replayed(payload, full)
      PROVE
      /\ told["zones"] = ByKey(payload.zones, "zone_id") ++ <<>>
      /\ told["objects"] = Without(ByKey(payload.game_objects, "instance_id") ++ <<>>,
                                   ToSet(payload.diff_deleted_instance_ids))
      /\ told["timers"] = ByKey(payload.timers, "timer_id") ++ <<>>
      /\ told["grants"] = ByKey(payload.persistent_annotations, "id") ++ <<>>
  BY <1>8 DEF Replayed
<1> QED
  BY <1>2, <1>3, <1>4, <1>5, <1>6, <1>7, <1>8

(* The payload of a difference makes the board of the state before that of *)
(* the next.                                                               *)
LEMMA ReplayedDiff ==
  ASSUME NEW gsm, NEW old, IsGame(old), NEW g, IsGame(g), NEW payload,
         NEW told, NEW full \in BOOLEAN, ~full, Follows(consumer, old),
         old.turn = g.turn => old.active = g.active,
         \A id \in DOMAIN g.granted : id \in DOMAIN old.granted =>
            old.granted[id] = g.granted[id],
         NEW zones, zones = Ascending(ZonesChanged(old, g)),
         Listed(gsm, "zones") = [i \in DOMAIN zones |-> Zone(g, zones[i])],
         Listed(gsm, "timers") = IF old.turn = g.turn THEN <<>> ELSE TimersListed(g),
         Listed(gsm, "gameObjects") = ObjectsListed(g, ObjectsChanged(old, g)),
         Listed(gsm, "persistentAnnotations")
           = GrantsListed(g, DOMAIN g.granted \ DOMAIN old.granted),
         payload.diff_deleted_instance_ids = Ascending(Visible(old) \ Visible(g)),
         payload.zones = extract_zones(gsm),
         payload.game_objects = extract_game_objects(gsm),
         payload.persistent_annotations = extract_persistent_annotations(gsm),
         payload.timers = extract_timers(gsm)
  PROVE  told = Replayed(payload, full) =>
           /\ told["zones"] = ZonesOf(g) /\ told["objects"] = ObjectsOf(g)
           /\ told["timers"] = TimersOf(g) /\ Keeps(GrantsOf(g), told["grants"])
<1>1. PICK Z, S, D, G : /\ Z = ZonesChanged(old, g) /\ S = ObjectsChanged(old, g)
                           /\ D = Visible(old) \ Visible(g)
                           /\ G = DOMAIN g.granted \ DOMAIN old.granted
  OBVIOUS
<1>2. /\ Z \in SUBSET Int /\ IsFiniteSet(Z) /\ S \in SUBSET Int /\ IsFiniteSet(S)
      /\ D \in SUBSET Int /\ IsFiniteSet(D) /\ G \in SUBSET Int /\ IsFiniteSet(G)
      /\ Z \subseteq Zones /\ S \subseteq Visible(g)
  <2>1. /\ Z \subseteq Zones /\ S \subseteq Visible(g) /\ D \subseteq Visible(old)
        /\ G \subseteq DOMAIN g.granted
    BY <1>1 DEF ZonesChanged, ObjectsChanged
  <2>2. /\ Zones \in SUBSET Int /\ IsFiniteSet(Zones)
        /\ Visible(g) \in SUBSET Int /\ IsFiniteSet(Visible(g))
        /\ Visible(old) \in SUBSET Int /\ IsFiniteSet(Visible(old))
        /\ DOMAIN g.granted \in SUBSET Int /\ IsFiniteSet(DOMAIN g.granted)
    BY ZonesFinite, GameSets
  <2> QED
    BY <2>1, <2>2, FS_Subset
<1>3. /\ consumer.zones = ZonesOf(old) /\ consumer.objects = ObjectsOf(old)
      /\ consumer.timers = TimersOf(old) /\ Keeps(GrantsOf(old), consumer.grants)
  BY DEF Follows
<1>4. ASSUME told = Replayed(payload, full)
      PROVE
      /\ told["zones"] = ByKey(payload.zones, "zone_id") ++ ZonesOf(old)
      /\ told["objects"]
           = Without(ByKey(payload.game_objects, "instance_id") ++ ObjectsOf(old),
                     ToSet(payload.diff_deleted_instance_ids))
      /\ told["timers"] = ByKey(payload.timers, "timer_id") ++ TimersOf(old)
      /\ told["grants"] = ByKey(payload.persistent_annotations, "id") ++ consumer.grants
  BY <1>3, <1>4 DEF Replayed
<1>5. ByKey(payload.zones, "zone_id") ++ ZonesOf(old) = ZonesOf(g)
  <2>1. ByKey(payload.zones, "zone_id") = [z \in Z |-> extract_single_zone(Zone(g, z))]
    <3>1. Listed(gsm, "zones") = [i \in DOMAIN Ascending(Z) |-> Zone(g, Ascending(Z)[i])]
      BY <1>1
    <3>2. ByKey(extract_zones(gsm), "zone_id")
            = [z \in Z |-> extract_single_zone(Zone(g, z))]
      <4>1. /\ Z \in SUBSET Int /\ IsFiniteSet(Z)
        BY <1>2
      <4> QED
        BY ONLY <3>1, <4>1, ZonesTold
    <3> QED
      BY <3>2
  <2>2. \A z \in Zones : z \notin Z => Zone(old, z) = Zone(g, z)
    BY <1>1 DEF ZonesChanged, Zone
  <2> QED
    BY <1>2, <2>1, <2>2 DEF ++, ZonesOf
<1>6. Without(ByKey(payload.game_objects, "instance_id") ++ ObjectsOf(old),
              ToSet(payload.diff_deleted_instance_ids)) = ObjectsOf(g)
  <2>1. ByKey(payload.game_objects, "instance_id")
          = [id \in S |-> extract_single_game_object(Object(g, id))]
    BY <1>1, <1>2, ObjectsTold DEF ObjectsListed
  <2>2. \A id \in Visible(g) : id \notin S =>
          id \in Visible(old) /\ Object(old, id) = Object(g, id)
    BY <1>1 DEF ObjectsChanged
  <2>3. ToSet(payload.diff_deleted_instance_ids) = D
    BY <1>1, <1>2, AscendingOf
  <2>4. (S \cup Visible(old)) \ D = Visible(g)
    BY <1>1, <1>2, <2>2
  <2> DEFINE both == ByKey(payload.game_objects, "instance_id") ++ ObjectsOf(old)
  <2>5. /\ DOMAIN both = S \cup Visible(old)
        /\ \A id \in S : both[id] = extract_single_game_object(Object(g, id))
        /\ \A id \in Visible(old) : id \notin S =>
             both[id] = extract_single_game_object(Object(old, id))
    BY <2>1 DEF ++, ObjectsOf
  <2> HIDE DEF both
  <2>6. \A id \in Visible(g) : both[id] = extract_single_game_object(Object(g, id))
    BY <2>2, <2>5
  <2>7. Without(both, D) = [id \in Visible(g) |-> both[id]]
    BY <2>4, <2>5 DEF Without
  <2>8. Without(both, D) = ObjectsOf(g)
    BY <2>6, <2>7 DEF ObjectsOf
  <2> QED
    BY <2>3, <2>8 DEF both
<1>7. ByKey(payload.timers, "timer_id") ++ TimersOf(old) = TimersOf(g)
  <2>1. CASE old.turn = g.turn
    <3>1. ByKey(payload.timers, "timer_id") = <<>>
      BY <2>1, NothingTold
    <3>2. \A seat : Timer(old, seat) = Timer(g, seat)
      BY <2>1 DEF Timer
    <3> QED
      BY <3>1, <3>2, NoFields DEF ++, TimersOf
  <2>2. CASE old.turn # g.turn
    <3>1. ByKey(extract_timers(gsm), "timer_id") = TimersOf(g)
      BY <2>2, TimersAll
    <3> QED
      BY <3>1 DEF ++, TimersOf
  <2> QED
    BY <2>1, <2>2
<1>8. Keeps(GrantsOf(g), ByKey(payload.persistent_annotations, "id") ++ consumer.grants)
  <2>1. Listed(gsm, "persistentAnnotations")
          = [i \in DOMAIN Ascending(G) |-> Grant(g, Ascending(G)[i])]
    BY <1>1 DEF GrantsListed
  <2>2. ByKey(payload.persistent_annotations, "id")
          = [x \in G |-> extract_single_annotation(Grant(g, x))]
    BY <1>2, <2>1, GrantsTold
  <2>3. \A id \in DOMAIN g.granted : id \notin G =>
          id \in DOMAIN old.granted /\ Grant(old, id) = Grant(g, id)
    BY <1>1 DEF Grant
  <2>4. \A id \in DOMAIN g.granted : id \notin G =>
          /\ id \in DOMAIN consumer.grants
          /\ consumer.grants[id] = extract_single_annotation(Grant(g, id))
    BY <1>3, <2>3 DEF Keeps, GrantsOf
  <2> QED
    BY <1>1, <2>2, <2>4 DEF ++, Keeps, GrantsOf
<1> QED
  BY <1>4, <1>5, <1>6, <1>7, <1>8

(* Objects and changes of ids add cards to those known, and never a wrong  *)
(* one.                                                                    *)
LEMMA NamedFacts ==
  ASSUME NEW names, NEW payload, NEW S, NEW F, NEW n \in Nat,
         NEW known, known = Named(names, payload)
  PROVE      /\ ByKey(payload.game_objects, "instance_id") = F /\ DOMAIN F = S
             /\ \A id \in S : F[id].grp_id = CardOf(id)
             /\ \A id \in DOMAIN names : names[id] = CardOf(id)
             /\ DOMAIN payload.annotations = 1 .. n
             /\ \A i \in 1 .. n :
                  payload.annotations[i].type = "ObjectIdChanged" =>
                    CardOf(payload.annotations[i].old_id)
                      = CardOf(payload.annotations[i].new_id)
             => /\ \A id \in DOMAIN known : known[id] = CardOf(id)
                /\ S \cup DOMAIN names \subseteq DOMAIN known
                /\ \A i \in 1 .. n :
                     /\ payload.annotations[i].type = "ObjectIdChanged"
                     /\ payload.annotations[i].old_id \in DOMAIN names
                     => payload.annotations[i].new_id \in DOMAIN known
<1> DEFINE told == payload.annotations
           places == {i \in DOMAIN told : told[i].type = "ObjectIdChanged"}
           changes == At(told, places)
           renamed == {i \in DOMAIN changes : changes[i].old_id \in DOMAIN names}
           pick(id) == CHOOSE i \in renamed : changes[i].new_id = id
           shown == [id \in DOMAIN F |-> F[id].grp_id]
           ids == {changes[i].new_id : i \in renamed}
           moved == [id \in ids |-> names[changes[pick(id)].old_id]]
           both == shown ++ moved
           all == both ++ names
<1>0. SUFFICES ASSUME
          ByKey(payload.game_objects, "instance_id") = F, DOMAIN F = S,
          \A id \in S : F[id].grp_id = CardOf(id),
          \A id \in DOMAIN names : names[id] = CardOf(id),
          DOMAIN told = 1 .. n,
          \A i \in 1 .. n : told[i].type = "ObjectIdChanged" =>
             CardOf(told[i].old_id) = CardOf(told[i].new_id)
        PROVE
          /\ \A id \in DOMAIN known : known[id] = CardOf(id)
          /\ S \cup DOMAIN names \subseteq DOMAIN known
          /\ \A i \in 1 .. n :
               told[i].type = "ObjectIdChanged" /\ told[i].old_id \in DOMAIN names
               => told[i].new_id \in DOMAIN known
  OBVIOUS
<1>1. known = all
  BY <1>0 DEF Named
<1>2. DOMAIN shown = S /\ \A id \in S : shown[id] = CardOf(id)
  BY <1>0
<1>3. places \in SUBSET Int /\ IsFiniteSet(places)
  <2>1. \A m \in Int : IsFiniteSet(1 .. m)
    BY FS_Interval
  <2>2. places \subseteq 1 .. n
    BY <1>0
  <2> QED
    BY <2>1, <2>2, FS_Subset
<1>4. /\ \A k \in DOMAIN changes : \E i \in places : changes[k] = told[i]
      /\ \A i \in places : \E k \in DOMAIN changes : changes[k] = told[i]
  <2> HIDE DEF places
  <2>1. /\ DOMAIN changes = 1 .. Cardinality(places)
        /\ \A k \in 1 .. Cardinality(places) : \E i \in places : changes[k] = told[i]
        /\ \A i \in places : \E k \in 1 .. Cardinality(places) : changes[k] = told[i]
    BY <1>3, AtFacts
  <2> HIDE DEF changes
  <2> QED
    BY <2>1
<1> HIDE DEF changes, shown
<1>5. \A k \in DOMAIN changes : CardOf(changes[k].old_id) = CardOf(changes[k].new_id)
  BY <1>0, <1>4
<1> HIDE DEF places
<1>6. \A id \in ids : moved[id] = CardOf(id)
  <2> TAKE id \in ids
  <2>1. pick(id) \in renamed /\ changes[pick(id)].new_id = id
    <3>1. \E i \in renamed : changes[i].new_id = id
      OBVIOUS
    <3> HIDE DEF renamed
    <3> QED
      BY <3>1
  <2> HIDE DEF pick
  <2>2. names[changes[pick(id)].old_id] = CardOf(id)
    BY <1>0, <1>5, <2>1
  <2> QED
    BY <2>2
<1>7. DOMAIN moved = ids
  OBVIOUS
<1> HIDE DEF moved
<1>8. /\ DOMAIN all = S \cup ids \cup DOMAIN names
      /\ \A id \in S : all[id] = shown[id]
      /\ \A id \in ids : id \notin S => all[id] = moved[id]
      /\ \A id \in DOMAIN names : id \notin S /\ id \notin ids => all[id] = names[id]
  <2>1. PICK f, g : f = shown /\ g = moved
    OBVIOUS
  <2>2. all = (f ++ g) ++ names /\ DOMAIN f = S /\ DOMAIN g = ids
    BY <1>2, <1>7, <2>1
  <2> HIDE DEF both, all, ids, renamed, pick, told
  <2> DEFINE two == f ++ g
             full == two ++ names
  <2>3. /\ DOMAIN two = DOMAIN f \cup DOMAIN g
        /\ \A x \in DOMAIN f : two[x] = f[x]
        /\ \A x \in DOMAIN g : x \notin DOMAIN f => two[x] = g[x]
    BY Merged
  <2>4. all = full
    BY <2>2
  <2> HIDE DEF two
  <2>5. /\ DOMAIN full = DOMAIN two \cup DOMAIN names
        /\ \A x \in DOMAIN two : full[x] = two[x]
        /\ \A x \in DOMAIN names : x \notin DOMAIN two => full[x] = names[x]
    BY Merged
  <2> HIDE DEF full
  <2> QED
    BY <2>1, <2>2, <2>3, <2>4, <2>5
<1> HIDE DEF all
<1>10. \A id \in DOMAIN all : all[id] = CardOf(id)
  <2> HIDE DEF ids
  <2> QED
    BY <1>0, <1>2, <1>6, <1>8
<1>11. ASSUME NEW i \in 1 .. n, told[i].type = "ObjectIdChanged",
              told[i].old_id \in DOMAIN names
       PROVE  told[i].new_id \in DOMAIN all
  <2>1. i \in places
    BY <1>0, <1>11 DEF places
  <2>2. PICK k \in DOMAIN changes : changes[k] = told[i]
    BY <1>4, <2>1
  <2>3. k \in renamed /\ changes[k].new_id = told[i].new_id
    BY <1>11, <2>2
  <2>4. told[i].new_id \in ids
    BY <2>3
  <2> HIDE DEF ids
  <2> QED
    BY <1>8, <2>4
<1>12. S \cup DOMAIN names \subseteq DOMAIN all
  <2> HIDE DEF ids
  <2> QED
    BY <1>8
<1> QED
  BY <1>1, <1>10, <1>11, <1>12

(* Annotations, as they are told.                                          *)
Told(annotations) == [i \in DOMAIN annotations |-> extract_single_annotation(annotations[i])]

(* Annotations that have their ids are all told.                           *)
LEMMA AnnotationsTold ==
  ASSUME NEW gsm, NEW annotations, NEW m \in Nat,
         Listed(gsm, "annotations") = annotations,
         annotations = [i \in 1 .. m |-> annotations[i]],
         \A i \in 1 .. m : "id" \in DOMAIN annotations[i]
  PROVE  extract_annotations(gsm) = Told(annotations)
<1>1. Identified(gsm, "annotations", "id") = annotations
  BY IdentifiedAll
<1> QED
  BY <1>1 DEF extract_annotations, Each, Told

(* What the consumer knows after a message of the whole state, with the id *)
(* n.                                                                      *)
LEMMA ToldFull ==
  ASSUME NEW n, NEW msg, "gameStateId" \in DOMAIN msg, "gameStateMessage" \in DOMAIN msg,
         msg.gameStateId = n, NEW gsm, msg.gameStateMessage = gsm,
         NEW g, IsGame(g), TellsFull(gsm, g), Board \subseteq DOMAIN consumer,
         \A id \in DOMAIN consumer.names : consumer.names[id] = CardOf(id),
         Consume(build_game_state_message_payload(msg, lean))
  PROVE  /\ consumer'["sync"] = TRUE /\ consumer'["last"] = n
         /\ ~lean => Follows(consumer', g)
         /\ consumer'["story"] =
              IF lean THEN <<>>
              ELSE IF get(gsm, "update") = <<"GameStateUpdate_Undo">>
              THEN get(consumer.past, Head(get(gsm, "prevGameStateId")))
              ELSE IF n = 1 THEN <<<<>>>> ELSE <<>>
         /\ consumer'["past"] = IF consumer'["story"] = <<>> THEN consumer.past
                                ELSE Field(n, Head(consumer'["story"])) ++ consumer.past
         /\ Board \subseteq DOMAIN consumer'
         /\ \A id \in DOMAIN consumer'["names"] : consumer'["names"][id] = CardOf(id)
         /\ ~lean => DOMAIN consumer.names \subseteq DOMAIN consumer'["names"]
<1>1. PICK payload : payload = build_game_state_message_payload(msg, lean)
  OBVIOUS
<1>2. /\ payload.game_state_type = get(gsm, "type")
      /\ payload.game_state_id = n
      /\ payload.prev_game_state_id = get(gsm, "prevGameStateId")
      /\ payload.update = get(gsm, "update")
      /\ payload.turn_info = extract_turn_info(gsm)
      /\ payload.diff_deleted_instance_ids = Listed(gsm, "diffDeletedInstanceIds")
      /\ "annotations" \in DOMAIN payload <=> ~lean
      /\ ~lean => /\ payload.zones = extract_zones(gsm)
                  /\ payload.game_objects = extract_game_objects(gsm)
                  /\ payload.annotations = extract_annotations(gsm)
                  /\ payload.persistent_annotations
                       = extract_persistent_annotations(gsm)
                  /\ payload.timers = extract_timers(gsm)
  BY <1>1, PayloadTells
<1>3. PICK full \in BOOLEAN, sync \in BOOLEAN : full /\ sync
  OBVIOUS
<1>4. /\ full <=> payload.game_state_type = <<"GameStateType_Full">>
      /\ sync <=> (\/ full
                   \/ consumer.sync /\ payload.prev_game_state_id = <<consumer.last>>)
  BY <1>2, <1>3 DEF TellsFull
<1>5. Consume(payload)
  BY <1>1
<1>11. PICK story : story = StoryAfter(payload, full, sync)
  OBVIOUS
<1>12. PICK past, told : /\ past = Field(payload.game_state_id, Head(story)) ++ consumer.past
                         /\ told = Replayed(payload, full)
  OBVIOUS
<1>6. /\ consumer'["sync"] = sync
      /\ consumer'["last"] = payload.game_state_id
      /\ consumer'["story"] = story
      /\ consumer'["past"] = IF story = <<>> THEN consumer.past ELSE past
      /\ consumer'["turn"] = IF payload.turn_info = <<>> THEN consumer.turn
                             ELSE Head(payload.turn_info).turn_number
      /\ DOMAIN consumer \subseteq DOMAIN consumer'
      /\ lean => \A x \in Board : x \in DOMAIN consumer => consumer'[x] = consumer[x]
      /\ ~lean => \A x \in Board : consumer'[x] = told[x]
  BY <1>4, <1>5, <1>11, <1>12, ConsumedAll
<1>7. story = IF lean THEN <<>>
              ELSE IF get(gsm, "update") = <<"GameStateUpdate_Undo">>
              THEN get(consumer.past, Head(get(gsm, "prevGameStateId")))
              ELSE IF n = 1 THEN <<<<>>>> ELSE <<>>
  BY <1>2, <1>3, <1>11 DEF StoryAfter
<1>8. consumer'["turn"] = g.turn
  <2>1. extract_turn_info(gsm) # <<>> /\ Head(extract_turn_info(gsm)).turn_number = g.turn
    BY TurnTold DEF TellsFull
  <2> QED
    BY <1>2, <1>6, <2>1
<1>9. ASSUME ~lean
      PROVE  /\ Follows(consumer', g)
             /\ \A id \in DOMAIN consumer'["names"] : consumer'["names"][id] = CardOf(id)
             /\ DOMAIN consumer.names \subseteq DOMAIN consumer'["names"]
  <2>1. \A x \in Board : consumer'[x] = told[x]
    BY <1>6, <1>9
  <2>2. /\ told["zones"] = ZonesOf(g) /\ told["objects"] = ObjectsOf(g)
        /\ told["timers"] = TimersOf(g) /\ told["grants"] = GrantsOf(g)
    <3>1. /\ Listed(gsm, "zones") = ZonesListed(g)
          /\ Listed(gsm, "timers") = TimersListed(g)
          /\ Listed(gsm, "gameObjects") = ObjectsListed(g, Visible(g))
          /\ Listed(gsm, "persistentAnnotations") = GrantsListed(g, DOMAIN g.granted)
          /\ payload.diff_deleted_instance_ids = <<>>
          /\ IsGame(g) /\ full \in BOOLEAN /\ full
      BY <1>2, <1>3 DEF TellsFull
    <3>2. /\ payload.zones = extract_zones(gsm)
          /\ payload.game_objects = extract_game_objects(gsm)
          /\ payload.persistent_annotations = extract_persistent_annotations(gsm)
          /\ payload.timers = extract_timers(gsm)
          /\ told = Replayed(payload, full)
      BY <1>2, <1>9, <1>12
    <3> QED
      BY ONLY <3>1, <3>2, ReplayedFull
  <2>3. told["names"] = Named(consumer.names, payload)
    BY <1>12 DEF Replayed
  <2>4. Follows(consumer', g)
    BY <1>8, <2>1, <2>2 DEF Follows, Board, Keeps
  <2>5. /\ ByKey(payload.game_objects, "instance_id") = ObjectsOf(g)
        /\ DOMAIN ObjectsOf(g) = Visible(g)
        /\ \A id \in Visible(g) : ObjectsOf(g)[id].grp_id = CardOf(id)
    <3>1. Visible(g) \in SUBSET Int /\ IsFiniteSet(Visible(g))
      BY GameSets
    <3>2. ByKey(extract_game_objects(gsm), "instance_id") = ObjectsOf(g)
      <4>1. PICK S : S = Visible(g)
        OBVIOUS
      <4>2. Listed(gsm, "gameObjects")
              = [i \in DOMAIN Ascending(S) |-> Object(g, Ascending(S)[i])]
        BY <4>1 DEF TellsFull, ObjectsListed
      <4>3. ByKey(extract_game_objects(gsm), "instance_id")
              = [x \in S |-> extract_single_game_object(Object(g, x))]
        BY <3>1, <4>1, <4>2, ObjectsTold
      <4> QED
        BY <4>1, <4>3 DEF ObjectsOf
    <3>3. ByKey(payload.game_objects, "instance_id") = ObjectsOf(g)
      BY <1>2, <1>9, <3>2
    <3> QED
      BY <3>3, ObjectTold DEF ObjectsOf
  <2>6. payload.annotations = <<>> /\ DOMAIN <<>> = 1 .. 0
    BY <1>2, <1>9, NothingTold, NoFields DEF TellsFull
  <2>7. PICK none \in Nat : none = 0
    OBVIOUS
  <2>8. /\ DOMAIN payload.annotations = 1 .. none
        /\ \A i \in 1 .. none : payload.annotations[i].type = "ObjectIdChanged" =>
              CardOf(payload.annotations[i].old_id) = CardOf(payload.annotations[i].new_id)
    BY <2>6, <2>7
  <2>9. PICK known : known = Named(consumer.names, payload)
    OBVIOUS
  <2>10. /\ \A id \in DOMAIN known : known[id] = CardOf(id)
         /\ DOMAIN consumer.names \subseteq DOMAIN known
    BY <2>5, <2>8, <2>9, NamedFacts
  <2>11. consumer'["names"] = known
    BY <2>1, <2>3, <2>9 DEF Board
  <2> QED
    BY <2>4, <2>10, <2>11
<1>10. ASSUME lean
       PROVE  \A id \in DOMAIN consumer'["names"] : consumer'["names"][id] = CardOf(id)
  <2>1. "names" \in Board
    BY DEF Board
  <2>2. consumer'["names"] = consumer["names"]
    BY <1>6, <1>10, <2>1
  <2> QED
    BY <2>2
<1> QED
  BY <1>2, <1>3, <1>6, <1>7, <1>9, <1>10, <1>12

(* A difference the consumer can follow: without a new turn the active     *)
(* player stays, and what is granted stays as it was granted.              *)
MayFollow(old, g) ==
  /\ old.turn = g.turn => old.active = g.active
  /\ \A id \in DOMAIN g.granted : id \in DOMAIN old.granted =>
        old.granted[id] = g.granted[id]

(* There are m annotations; changes of ids among them keep the card.       *)
Annotates(annotations, m) ==
  /\ annotations = [i \in 1 .. m |-> annotations[i]]
  /\ \A i \in 1 .. m :
       /\ "id" \in DOMAIN annotations[i]
       /\ Told(annotations)[i].type = "ObjectIdChanged" =>
            CardOf(Told(annotations)[i].old_id) = CardOf(Told(annotations)[i].new_id)

(* The consumer after a difference, of the state n, that told `tale'.      *)
AfterDiff(n, old, g, tale, m, longer) ==
  /\ consumer'["last"] = n
  /\ consumer'["sync"] \in BOOLEAN
  /\ consumer'["sync"] <=> (consumer.sync /\ Len(states) = consumer.last)
  /\ ~lean /\ Follows(consumer, old) => Follows(consumer', g)
  /\ consumer'["story"] =
       IF lean \/ ~consumer'["sync"] \/ consumer.story = <<>> THEN <<>> ELSE longer
  /\ consumer'["past"] = IF consumer'["story"] = <<>> THEN consumer.past
                         ELSE Field(n, Head(consumer'["story"])) ++ consumer.past
  /\ Board \subseteq DOMAIN consumer'
  /\ \A id \in DOMAIN consumer'["names"] : consumer'["names"][id] = CardOf(id)
  /\ ~lean =>
       /\ DOMAIN consumer.names \cup ObjectsChanged(old, g)
            \subseteq DOMAIN consumer'["names"]
       /\ \A i \in 1 .. m :
            /\ tale[i].type = "ObjectIdChanged"
            /\ tale[i].old_id \in DOMAIN consumer.names
            => tale[i].new_id \in DOMAIN consumer'["names"]

(* What the consumer knows after a difference, with the id n.              *)
LEMMA ToldDiff ==
  ASSUME NEW n, NEW msg, "gameStateId" \in DOMAIN msg, "gameStateMessage" \in DOMAIN msg,
         msg.gameStateId = n, NEW gsm, msg.gameStateMessage = gsm,
         NEW old, IsGame(old), NEW g, IsGame(g), NEW annotations, NEW m \in Nat,
         TellsDiff(gsm, old, g, annotations), Board \subseteq DOMAIN consumer,
         MayFollow(old, g), Annotates(annotations, m),
         \A id \in DOMAIN consumer.names : consumer.names[id] = CardOf(id),
         consumer.sync \in BOOLEAN,
         NEW tale, tale = Told(annotations),
         NEW longer, longer = <<Head(consumer.story) \o Story(tale)>>,
         Consume(build_game_state_message_payload(msg, lean))
  PROVE  AfterDiff(n, old, g, tale, m, longer)
<1>1. PICK payload : payload = build_game_state_message_payload(msg, lean)
  OBVIOUS
<1>2. /\ payload.game_state_type = get(gsm, "type")
      /\ payload.game_state_id = n
      /\ payload.prev_game_state_id = get(gsm, "prevGameStateId")
      /\ payload.turn_info = extract_turn_info(gsm)
      /\ payload.diff_deleted_instance_ids = Listed(gsm, "diffDeletedInstanceIds")
      /\ "annotations" \in DOMAIN payload <=> ~lean
      /\ ~lean => /\ payload.zones = extract_zones(gsm)
                  /\ payload.game_objects = extract_game_objects(gsm)
                  /\ payload.annotations = extract_annotations(gsm)
                  /\ payload.persistent_annotations
                       = extract_persistent_annotations(gsm)
                  /\ payload.timers = extract_timers(gsm)
  BY <1>1, PayloadTells
<1>3. PICK full \in BOOLEAN, sync \in BOOLEAN :
        /\ ~full
        /\ sync <=> (consumer.sync /\ Len(states) = consumer.last)
  OBVIOUS
<1>4. /\ full <=> payload.game_state_type = <<"GameStateType_Full">>
      /\ sync <=> (\/ full
                   \/ consumer.sync /\ payload.prev_game_state_id = <<consumer.last>>)
  <2>1. payload.game_state_type # <<"GameStateType_Full">>
    BY <1>2 DEF TellsDiff
  <2>2. payload.prev_game_state_id = <<Len(states)>>
    BY <1>2 DEF TellsDiff
  <2>3. <<Len(states)>> = <<consumer.last>> <=> Len(states) = consumer.last
    OBVIOUS
  <2> QED
    BY <1>3, <2>1, <2>2, <2>3
<1>5. Consume(payload)
  BY <1>1
<1>14. PICK story : story = StoryAfter(payload, full, sync)
  OBVIOUS
<1>15. PICK past, told : /\ past = Field(payload.game_state_id, Head(story)) ++ consumer.past
                         /\ told = Replayed(payload, full)
  OBVIOUS
<1>6. /\ consumer'["sync"] = sync
      /\ consumer'["last"] = payload.game_state_id
      /\ consumer'["story"] = story
      /\ consumer'["past"] = IF story = <<>> THEN consumer.past ELSE past
      /\ consumer'["turn"] = IF payload.turn_info = <<>> THEN consumer.turn
                             ELSE Head(payload.turn_info).turn_number
      /\ DOMAIN consumer \subseteq DOMAIN consumer'
      /\ lean => \A x \in Board : x \in DOMAIN consumer => consumer'[x] = consumer[x]
      /\ ~lean => \A x \in Board : consumer'[x] = told[x]
  BY <1>4, <1>5, <1>14, <1>15, ConsumedAll
<1>7. ~lean => payload.annotations = Told(annotations)
  <2>1. Listed(gsm, "annotations") = annotations
    BY DEF TellsDiff
  <2>2. /\ annotations = [i \in 1 .. m |-> annotations[i]]
        /\ \A i \in 1 .. m : "id" \in DOMAIN annotations[i]
    BY DEF Annotates
  <2>3. extract_annotations(gsm) = Told(annotations)
    BY ONLY m \in Nat, <2>1, <2>2, AnnotationsTold
  <2> QED
    BY <1>2, <2>3
<1>8. story = IF lean \/ ~sync \/ consumer.story = <<>> THEN <<>>
              ELSE longer
  BY <1>2, <1>3, <1>7, <1>14 DEF StoryAfter
<1>9. consumer.turn = old.turn => consumer'["turn"] = g.turn
  <2>1. CASE old.turn = g.turn
    <3>1. extract_turn_info(gsm) = <<>>
      BY <2>1, NoTurnTold DEF TellsDiff
    <3> QED
      BY <1>2, <1>6, <2>1, <3>1
  <2>2. CASE old.turn # g.turn
    <3>1. extract_turn_info(gsm) # <<>> /\ Head(extract_turn_info(gsm)).turn_number = g.turn
      BY <2>2, TurnTold DEF TellsDiff
    <3> QED
      BY <1>2, <1>6, <3>1
  <2> QED
    BY <2>1, <2>2
<1>10. ~lean => \A x \in Board : consumer'[x] = told[x]
  BY <1>6
<1>11. ASSUME ~lean, Follows(consumer, old)
       PROVE  Follows(consumer', g)
  <2>1. /\ told["zones"] = ZonesOf(g) /\ told["objects"] = ObjectsOf(g)
        /\ told["timers"] = TimersOf(g) /\ Keeps(GrantsOf(g), told["grants"])
    <3>1. PICK zones : zones = Ascending(ZonesChanged(old, g))
      OBVIOUS
    <3>2. Listed(gsm, "zones") = [i \in DOMAIN zones |-> Zone(g, zones[i])]
      BY <3>1 DEF TellsDiff
    <3>3. /\ Listed(gsm, "timers") = IF old.turn = g.turn THEN <<>> ELSE TimersListed(g)
          /\ Listed(gsm, "gameObjects") = ObjectsListed(g, ObjectsChanged(old, g))
          /\ Listed(gsm, "persistentAnnotations")
               = GrantsListed(g, DOMAIN g.granted \ DOMAIN old.granted)
          /\ payload.diff_deleted_instance_ids = Ascending(Visible(old) \ Visible(g))
      BY <1>2 DEF TellsDiff
    <3>4. /\ payload.zones = extract_zones(gsm)
          /\ payload.game_objects = extract_game_objects(gsm)
          /\ payload.persistent_annotations = extract_persistent_annotations(gsm)
          /\ payload.timers = extract_timers(gsm)
          /\ told = Replayed(payload, full) /\ full \in BOOLEAN /\ ~full
      BY <1>2, <1>3, <1>11, <1>15
    <3>5. /\ old.turn = g.turn => old.active = g.active
          /\ \A id \in DOMAIN g.granted : id \in DOMAIN old.granted =>
                old.granted[id] = g.granted[id]
          /\ Follows(consumer, old)
      BY <1>11 DEF MayFollow
    <3> QED
      BY ONLY IsGame(old), IsGame(g), <3>1, <3>2, <3>3, <3>4, <3>5, ReplayedDiff
  <2>2. consumer'["turn"] = g.turn
    BY <1>9, <1>11 DEF Follows
  <2> QED
    BY <1>10, <1>11, <2>1, <2>2 DEF Follows, Board
<1>12. ASSUME ~lean
       PROVE  /\ \A id \in DOMAIN consumer'["names"] : consumer'["names"][id] = CardOf(id)
              /\ DOMAIN consumer.names \cup ObjectsChanged(old, g)
                   \subseteq DOMAIN consumer'["names"]
              /\ \A i \in 1 .. m :
                   /\ tale[i].type = "ObjectIdChanged"
                   /\ tale[i].old_id \in DOMAIN consumer.names
                   => tale[i].new_id \in DOMAIN consumer'["names"]
  <2>1. told["names"] = Named(consumer.names, payload)
    BY <1>15 DEF Replayed
  <2>2. PICK known : known = Named(consumer.names, payload)
    OBVIOUS
  <2>11. consumer'["names"] = known
    BY <1>10, <1>12, <2>1, <2>2 DEF Board
  <2> DEFINE S == ObjectsChanged(old, g)
             F == [id \in S |-> extract_single_game_object(Object(g, id))]
  <2>3. S \in SUBSET Int /\ IsFiniteSet(S)
    <3>1. S \subseteq Visible(g) /\ Visible(g) \in SUBSET Int /\ IsFiniteSet(Visible(g))
      BY GameSets DEF ObjectsChanged
    <3> HIDE DEF S
    <3> QED
      BY <3>1, FS_Subset
  <2>4. Listed(gsm, "gameObjects") = [i \in DOMAIN Ascending(S) |-> Object(g, Ascending(S)[i])]
    BY DEF TellsDiff, ObjectsListed
  <2> HIDE DEF S
  <2>5. ByKey(payload.game_objects, "instance_id") = F
    <3>1. ByKey(extract_game_objects(gsm), "instance_id") = F
      BY ONLY <2>3, <2>4, ObjectsTold DEF F
    <3> QED
      BY <1>2, <1>12, <3>1
  <2>6. DOMAIN F = S /\ \A id \in S : F[id].grp_id = CardOf(id)
    BY ObjectTold
  <2> HIDE DEF F
  <2>7. DOMAIN payload.annotations = 1 .. m
    BY <1>7, <1>12 DEF Told, Annotates
  <2>8. PICK a : a = Told(annotations) /\ a = payload.annotations
    BY <1>7, <1>12
  <2>9. \A i \in 1 .. m : payload.annotations[i].type = "ObjectIdChanged" =>
          CardOf(payload.annotations[i].old_id) = CardOf(payload.annotations[i].new_id)
    BY <2>8 DEF Annotates
  <2>10. /\ \A id \in DOMAIN known : known[id] = CardOf(id)
         /\ S \cup DOMAIN consumer.names \subseteq DOMAIN known
         /\ \A i \in 1 .. m :
              /\ payload.annotations[i].type = "ObjectIdChanged"
              /\ payload.annotations[i].old_id \in DOMAIN consumer.names
              => payload.annotations[i].new_id \in DOMAIN known
    <3>1. PICK names, shown : names = consumer.names /\ shown = F
      OBVIOUS
    <3>2. /\ known = Named(names, payload) /\ m \in Nat
          /\ ByKey(payload.game_objects, "instance_id") = shown /\ DOMAIN shown = S
          /\ \A id \in S : shown[id].grp_id = CardOf(id)
          /\ \A id \in DOMAIN names : names[id] = CardOf(id)
      BY <2>2, <2>5, <2>6, <3>1
    <3>3. /\ \A id \in DOMAIN known : known[id] = CardOf(id)
          /\ S \cup DOMAIN names \subseteq DOMAIN known
          /\ \A i \in 1 .. m :
               /\ payload.annotations[i].type = "ObjectIdChanged"
               /\ payload.annotations[i].old_id \in DOMAIN names
               => payload.annotations[i].new_id \in DOMAIN known
      BY ONLY <2>7, <2>9, <3>2, NamedFacts
    <3> QED
      BY <3>1, <3>3
  <2> QED
    BY <2>8, <2>10, <2>11 DEF S
<1>13. ASSUME lean
       PROVE  \A id \in DOMAIN consumer'["names"] : consumer'["names"][id] = CardOf(id)
  <2>1. "names" \in Board
    BY DEF Board
  <2>2. consumer'["names"] = consumer["names"]
    BY <1>6, <1>13, <2>1
  <2> QED
    BY <2>2
<1> QED
  BY <1>2, <1>3, <1>6, <1>8, <1>11, <1>12, <1>13, <1>14, <1>15 DEF AfterDiff

-----------------------------------------------------------------------------
(* One more state of the game.                                             *)

(* One more state is the last, and leaves the others as they are.          *)
LEMMA Appended ==
  ASSUME IInv, NEW g, states' = Append(states, g), NEW n, n = Len(states) + 1
  PROVE  /\ n \in Nat /\ n # 0 /\ Len(states) = n - 1 /\ Len(states') = n
         /\ DOMAIN states = 1 .. n - 1 /\ DOMAIN states' = 1 .. n
         /\ states'[n] = g /\ \A k \in DOMAIN states : states'[k] = states[k]
         /\ states' # <<>> /\ (states = <<>> <=> n = 1)
<1>1. states \in Seq(ToSet(states)) /\ Len(states) \in Nat
  BY DEF IInv
<1>2. PICK S : S = ToSet(states) \cup {g}
  OBVIOUS
<1>3. states \in Seq(S) /\ g \in S
  BY <1>1, <1>2
<1>4. PICK old, longer : old = states /\ longer = states'
  OBVIOUS
<1>5. old \in Seq(S) /\ longer = Append(old, g) /\ n = Len(old) + 1
  BY <1>3, <1>4
<1>6. /\ n \in Nat /\ n # 0 /\ Len(old) = n - 1 /\ Len(longer) = n
      /\ DOMAIN old = 1 .. n - 1 /\ DOMAIN longer = 1 .. n
      /\ longer[n] = g /\ \A k \in DOMAIN old : longer[k] = old[k]
      /\ longer # <<>> /\ (old = <<>> <=> n = 1)
  BY ONLY <1>3, <1>5
<1> QED
  BY <1>4, <1>6

(* A state that is a game keeps them games.                                *)
LEMMA GamesStep ==
  ASSUME IInv, GamesKept, NEW g, IsGame(g), game' = g, states' = Append(states, g)
  PROVE  GamesKept'
<1>1. PICK n : n = Len(states) + 1
  OBVIOUS
<1>2. /\ n \in Nat /\ n # 0 /\ Len(states) = n - 1 /\ Len(states') = n
      /\ DOMAIN states = 1 .. n - 1 /\ DOMAIN states' = 1 .. n
      /\ states'[n] = g /\ \A k \in DOMAIN states : states'[k] = states[k]
      /\ states' # <<>>
  BY <1>1, Appended
<1>3. \A k \in 1 .. n : k \in 1 .. n - 1 \/ k = n
  BY <1>2
<1>4. \A k \in DOMAIN states' : IsGame(states'[k])
  BY <1>2, <1>3 DEF GamesKept
<1> QED
  BY <1>2, <1>4 DEF GamesKept

(* A state that issues its ids in order keeps them in order, and of the    *)
(* ids of earlier states it reveals no other.                              *)
LEMMA IdsStep ==
  ASSUME IInv, IdsIssued, NEW g, states' = Append(states, g),
         NEW n, n = Len(states) + 1,
         \A id \in Located(g) : id < Issued(n + 1, 0),
         states = <<>> => revealed' = {},
         revealed \subseteq revealed',
         \A id \in revealed' \ revealed :
            id \in Nat /\ Issued(n, 0) <= id /\ id < Issued(n + 1, 0),
         GamesKept
  PROVE  /\ IdsIssued'
         /\ \A k \in DOMAIN states : Located(states[k]) \cap revealed' \subseteq revealed
<1>1. /\ n \in Nat /\ n # 0 /\ Len(states) = n - 1 /\ Len(states') = n
      /\ DOMAIN states = 1 .. n - 1 /\ DOMAIN states' = 1 .. n
      /\ states'[n] = g /\ \A k \in DOMAIN states : states'[k] = states[k]
      /\ states' # <<>>
  BY Appended
<1>2. Issued(n, 0) = 1000 * n /\ Issued(n + 1, 0) = 1000 * n + 1000
  BY <1>1 DEF Issued
<1>3. \A k \in DOMAIN states : \A id \in Located(states[k]) :
         id \in Nat /\ id < Issued(n, 0)
  <2>1. \A k \in DOMAIN states : Located(states[k]) \in SUBSET Nat
    BY GameSets DEF GamesKept
  <2> QED
    BY <2>1 DEF IdsIssued
<1>4. \A id \in revealed' : id \in Nat /\ id < Issued(n + 1, 0)
  <2>1. \A id \in revealed : id \in Nat /\ id < Issued(n, 0)
    BY DEF IdsIssued
  <2> QED
    BY <1>1, <1>2, <2>1
<1>5. \A k \in DOMAIN states' : \A id \in Located(states'[k]) : id < Issued(n + 1, 0)
  <2>1. \A k \in 1 .. n : k \in 1 .. n - 1 \/ k = n
    BY <1>1
  <2>2. \A k \in DOMAIN states : \A id \in Located(states'[k]) : id < Issued(n + 1, 0)
    BY <1>1, <1>2, <1>3
  <2> QED
    BY <1>1, <2>1, <2>2
<1>6. IdsIssued'
  BY <1>1, <1>4, <1>5 DEF IdsIssued
<1>7. \A k \in DOMAIN states : Located(states[k]) \cap revealed' \subseteq revealed
  BY <1>1, <1>2, <1>3
<1> QED
  BY <1>6, <1>7

(* The ids the next state has and reveals are known, or those it issues.   *)
Reveals(g) ==
  /\ \A id \in Located(g) : id < Issued(Len(states) + 2, 0)
  /\ states = <<>> => revealed' = {}
  /\ revealed \subseteq revealed'
  /\ \A id \in revealed' \ revealed :
        /\ id \in Nat /\ Issued(Len(states) + 1, 0) <= id
        /\ id < Issued(Len(states) + 2, 0)

(* A state that is missing changes nothing the consumer knows.             *)
LEMMA LostStep ==
  ASSUME IInv, BInv, NEW g, IsGame(g), Reveals(g), game' = g,
         states' = Append(states, g), lean' = lean, consumer' = consumer,
         lost' # {}
  PROVE  BInv'
<1>1. PICK n : n = Len(states) + 1
  OBVIOUS
<1>2. /\ n \in Nat /\ n # 0 /\ Len(states) = n - 1 /\ Len(states') = n
      /\ DOMAIN states = 1 .. n - 1 /\ DOMAIN states' = 1 .. n
      /\ states'[n] = g /\ \A k \in DOMAIN states : states'[k] = states[k]
      /\ states' # <<>>
  BY <1>1, Appended
<1>3. GamesKept'
  BY GamesStep DEF BInv
<1>4. IdsIssued'
  <2>1. Len(states) + 2 = n + 1
    BY <1>1, <1>2
  <2> QED
    BY <1>1, <2>1, IdsStep DEF BInv, Reveals
<1>5. consumer.sync => consumer.last \in DOMAIN states
  BY <1>2 DEF IInv, LastTold
<1>6. BoardKept'
  BY <1>2, <1>5 DEF BInv, BoardKept
<1>7. StoryKept'
  <2>1. ~OnlyUndone'
    BY DEF OnlyUndone
  <2> QED
    BY <1>2, <1>5, <2>1 DEF BInv, StoryKept
<1>8. NamesKept'
  BY DEF BInv, NamesKept
<1> QED
  BY <1>3, <1>4, <1>6, <1>7, <1>8 DEF BInv

(* A consumer that learned the cards of the state knows the cards of all.  *)
LEMMA NamesStep ==
  ASSUME IInv, BInv, NEW g, IsGame(g), Reveals(g), game' = g,
         states' = Append(states, g), lean' = lean, lost' = lost,
         \A id \in DOMAIN consumer'.names : consumer'.names[id] = CardOf(id),
         ~lean => DOMAIN consumer.names \subseteq DOMAIN consumer'.names,
         ~lean /\ lost = {} => Located(g) \cap revealed' \subseteq DOMAIN consumer'.names
  PROVE  IdsIssued' /\ NamesKept'
<1>1. PICK n : n = Len(states) + 1
  OBVIOUS
<1>2. /\ n \in Nat /\ n # 0 /\ Len(states) = n - 1 /\ Len(states') = n
      /\ DOMAIN states = 1 .. n - 1 /\ DOMAIN states' = 1 .. n
      /\ states'[n] = g /\ \A k \in DOMAIN states : states'[k] = states[k]
  BY <1>1, Appended
<1>3. /\ IdsIssued'
      /\ \A k \in DOMAIN states : Located(states[k]) \cap revealed' \subseteq revealed
  <2>1. Len(states) + 2 = n + 1
    BY <1>1, <1>2
  <2> QED
    BY <1>1, <2>1, IdsStep DEF BInv, Reveals
<1>4. ASSUME ~lean, lost = {}, NEW k \in DOMAIN states'
      PROVE  Located(states'[k]) \cap revealed' \subseteq DOMAIN consumer'.names
  <2>1. CASE k = n
    BY <1>2, <1>4, <2>1
  <2>2. CASE k # n
    <3>1. k \in DOMAIN states
      BY <1>2, <2>2
    <3>2. Located(states[k]) \cap revealed \subseteq DOMAIN consumer.names
      BY <1>4, <3>1 DEF BInv, NamesKept
    <3> QED
      BY <1>2, <1>3, <1>4, <3>1, <3>2
  <2> QED
    BY <2>1, <2>2
<1> QED
  BY <1>3, <1>4 DEF NamesKept

(* A consumer that has the story of the state, or gave its own up, has     *)
(* that of every state it could be rolled back to.                         *)
LEMMA StoryStep ==
  ASSUME IInv, BInv, NEW g, states' = Append(states, g), NEW n, n = Len(states) + 1,
         ~lean', consumer'.last = n, consumer'.story # <<>> => consumer'.sync,
         consumer'.story \in {<<>>, <<g.story>>},
         consumer'.past = IF consumer'.story = <<>> THEN consumer.past
                          ELSE Field(n, Head(consumer'.story)) ++ consumer.past,
         lean' = lean,
         OnlyUndone' => /\ consumer'.story # <<>>
                        /\ DOMAIN states \subseteq DOMAIN consumer.past
  PROVE  StoryKept'
<1>1. /\ n \in Nat /\ n # 0 /\ Len(states) = n - 1 /\ Len(states') = n
      /\ DOMAIN states = 1 .. n - 1 /\ DOMAIN states' = 1 .. n
      /\ states'[n] = g /\ \A k \in DOMAIN states : states'[k] = states[k]
  BY Appended
<1>2. \A k \in DOMAIN consumer.past :
         k \in DOMAIN states /\ consumer.past[k] = states[k].story
  BY DEF BInv, StoryKept
<1>3. \/ consumer'.story = <<>>
      \/ consumer'.sync /\ consumer'.story = <<states'[consumer'.last].story>>
  BY <1>1
<1>4. CASE consumer'.story = <<>>
  <2>1. consumer'.past = consumer.past
    BY <1>4
  <2>2. \A k \in DOMAIN consumer'.past :
           k \in DOMAIN states' /\ consumer'.past[k] = states'[k].story
    BY <1>1, <1>2, <2>1
  <2> QED
    BY <1>3, <1>4, <2>2 DEF StoryKept
<1>5. CASE consumer'.story # <<>>
  <2>1. consumer'.story = <<g.story>> /\ Head(consumer'.story) = g.story
    BY <1>5
  <2>2. PICK told : told = g.story
    OBVIOUS
  <2> DEFINE this == Field(n, told)
             past == this ++ consumer.past
  <2>3. consumer'.past = past
    BY <1>5, <2>1, <2>2
  <2>4. DOMAIN this = {n} /\ this[n] = told
    BY DEF Field
  <2> HIDE DEF this
  <2>5. /\ DOMAIN past = DOMAIN this \cup DOMAIN consumer.past
        /\ \A x \in DOMAIN this : past[x] = this[x]
        /\ \A x \in DOMAIN consumer.past : x \notin DOMAIN this => past[x] = consumer.past[x]
    BY Merged
  <2> HIDE DEF past
  <2>6. /\ DOMAIN past = {n} \cup DOMAIN consumer.past /\ past[n] = told
        /\ \A k \in DOMAIN consumer.past : k # n => past[k] = consumer.past[k]
    BY <2>4, <2>5
  <2>7. \A k \in DOMAIN past : k \in DOMAIN states' /\ past[k] = states'[k].story
    BY <1>1, <1>2, <2>2, <2>6
  <2>8. OnlyUndone' => DOMAIN states' \subseteq DOMAIN past
    BY <1>1, <2>6
  <2> QED
    BY <1>3, <1>5, <2>3, <2>7, <2>8 DEF StoryKept
<1> QED
  BY <1>4, <1>5

(* A message of the whole state: the first, or one that is sent again.     *)
SentFull(g, gsm) ==
  /\ get(gsm, "update") = <<"GameStateUpdate_Send">>
  /\ IF states = <<>> THEN g.story = <<>>
     ELSE \E k \in DOMAIN states : g = states[k]

(* A message of the whole state that returns to the state k.               *)
SentUndo(g, gsm) ==
  /\ get(gsm, "update") = <<"GameStateUpdate_Undo">>
  /\ \E k \in DOMAIN states : g = states[k] /\ get(gsm, "prevGameStateId") = <<k>>

(* After another Full state than a rollback they are not only rollbacks.   *)
LEMMA WholeStep ==
  ASSUME IInv, NEW g, NEW gsm, Tell(g, gsm), gsm.type = "GameStateType_Full",
         NEW n, n = Len(states) + 1
  PROVE  /\ OnlyUndone' => OnlyUndone
         /\ OnlyUndone' /\ n # 1 => gsm.update = "GameStateUpdate_Undo"
<1>0. /\ n \in Nat /\ DOMAIN whole \subseteq 1 .. n - 1 /\ n \notin DOMAIN whole
  BY DEF IInv
<1> DEFINE this == Field(n, gsm.update)
           all == this ++ whole
<1>1. whole' = all
  BY DEF Tell
<1>2. DOMAIN this = {n} /\ this[n] = gsm.update
  BY DEF Field
<1> HIDE DEF this
<1>3. /\ DOMAIN all = DOMAIN this \cup DOMAIN whole
      /\ \A x \in DOMAIN this : all[x] = this[x]
      /\ \A x \in DOMAIN whole : x \notin DOMAIN this => all[x] = whole[x]
  BY Merged
<1> HIDE DEF all
<1>4. /\ n \in DOMAIN all /\ all[n] = gsm.update
      /\ \A f \in DOMAIN whole : f \in DOMAIN all /\ all[f] = whole[f]
  BY <1>0, <1>2, <1>3
<1>5. lost' = {} => lost = {}
  BY DEF Tell
<1> QED
  BY <1>1, <1>4, <1>5 DEF OnlyUndone

(* A message of the whole state, told or missing, keeps BInv.              *)
LEMMA FullStep ==
  ASSUME IInv, BInv, NEW g, IsGame(g), Reveals(g), revealed' = revealed,
         NEW gsm, Tell(g, gsm), TellsFull(gsm, g),
         SentFull(g, gsm) \/ SentUndo(g, gsm)
  PROVE  BInv'
<1>1. PICK n : n = Len(states) + 1
  OBVIOUS
<1>2. game' = g /\ states' = Append(states, g) /\ lean' = lean
  BY DEF Tell
<1>3. /\ n \in Nat /\ n # 0 /\ Len(states) = n - 1 /\ Len(states') = n
      /\ DOMAIN states = 1 .. n - 1 /\ DOMAIN states' = 1 .. n
      /\ states'[n] = g /\ (states = <<>> <=> n = 1)
  BY <1>1, <1>2, Appended
<1> DEFINE msg == [type |-> IF Len(states) % 2 = 0 THEN "GameStateMessage"
                                                   ELSE "QueuedGameStateMessage",
                   gameStateId |-> Len(states) + 1, gameStateMessage |-> gsm]
<1>4. \/ Consume(build_game_state_message_payload(msg, lean)) /\ lost' = lost
      \/ lost' = lost \cup {Len(states) + 1} /\ consumer' = consumer
  BY DEF Tell
<1>5. /\ "gameStateId" \in DOMAIN msg /\ "gameStateMessage" \in DOMAIN msg
      /\ msg.gameStateId = n /\ msg.gameStateMessage = gsm
  BY <1>1
<1> HIDE DEF msg
<1>6. CASE lost' = lost \cup {Len(states) + 1} /\ consumer' = consumer
  <2>1. lost' # {}
    BY <1>6
  <2> QED
    BY <1>2, <1>6, <2>1, LostStep
<1>7. CASE Consume(build_game_state_message_payload(msg, lean)) /\ lost' = lost
  <2>1. /\ Board \subseteq DOMAIN consumer
        /\ \A id \in DOMAIN consumer.names : consumer.names[id] = CardOf(id)
    BY DEF BInv, NamesKept, Board
  <2>2. PICK story : story =
              IF lean THEN <<>>
              ELSE IF get(gsm, "update") = <<"GameStateUpdate_Undo">>
              THEN get(consumer.past, Head(get(gsm, "prevGameStateId")))
              ELSE IF n = 1 THEN <<<<>>>> ELSE <<>>
    OBVIOUS
  <2>3. /\ consumer'["sync"] = TRUE /\ consumer'["last"] = n
        /\ ~lean => Follows(consumer', g)
        /\ consumer'["story"] = story
        /\ consumer'["past"] = IF consumer'["story"] = <<>> THEN consumer.past
                               ELSE Field(n, Head(consumer'["story"])) ++ consumer.past
        /\ Board \subseteq DOMAIN consumer'
        /\ \A id \in DOMAIN consumer'["names"] : consumer'["names"][id] = CardOf(id)
        /\ ~lean => DOMAIN consumer.names \subseteq DOMAIN consumer'["names"]
    BY <1>5, <1>7, <2>1, <2>2, ToldFull
  <2>4. GamesKept'
    BY <1>2, GamesStep DEF BInv
  <2>5. BoardKept'
    BY <1>2, <1>3, <2>3 DEF BoardKept
  <2>6. IdsIssued' /\ NamesKept'
    <3>1. ~lean /\ lost = {} => Located(g) \cap revealed' \subseteq DOMAIN consumer'["names"]
      <4>1. states = <<>> => revealed = {}
        BY DEF BInv, IdsIssued
      <4>2. states # <<>> => \E k \in DOMAIN states : g = states[k]
        BY DEF SentFull, SentUndo
      <4> QED
        BY <2>3, <4>1, <4>2 DEF BInv, NamesKept
    <3> QED
      BY <1>2, <1>7, <2>3, <3>1, NamesStep
  <2>7. StoryKept'
    <3>1. CASE lean
      BY <1>2, <3>1 DEF StoryKept
    <3>2. CASE ~lean /\ SentFull(g, gsm)
      <4>1. story = IF n = 1 THEN <<<<>>>> ELSE <<>>
        BY <2>2, <3>2 DEF SentFull
      <4>2. n = 1 => g.story = <<>>
        BY <1>3, <3>2 DEF SentFull
      <4>3. OnlyUndone' => n = 1 /\ DOMAIN states \subseteq DOMAIN consumer.past
        <5>1. get(gsm, "update") = <<"GameStateUpdate_Send">>
          BY <3>2 DEF SentFull
        <5>2. gsm.update = "GameStateUpdate_Send"
          BY <5>1 DEF get
        <5>3. get(gsm, "type") = <<"GameStateType_Full">>
          BY DEF TellsFull
        <5>4. gsm.type = "GameStateType_Full"
          BY <5>3 DEF get
        <5>5. OnlyUndone' => n = 1
          BY <1>1, <5>2, <5>4, WholeStep
        <5> QED
          BY <1>3, <5>5
      <4> QED
        BY <1>1, <1>2, <2>3, <3>2, <4>1, <4>2, <4>3, StoryStep
    <3>3. CASE ~lean /\ SentUndo(g, gsm)
      <4>1. PICK k \in DOMAIN states :
              g = states[k] /\ get(gsm, "prevGameStateId") = <<k>>
        BY <3>3 DEF SentUndo
      <4>2. story = get(consumer.past, k)
        BY <2>2, <3>3, <4>1 DEF SentUndo
      <4>3. k \in DOMAIN consumer.past => consumer.past[k] = g.story
        BY <3>3, <4>1 DEF BInv, StoryKept
      <4>4. story = IF k \in DOMAIN consumer.past THEN <<g.story>> ELSE <<>>
        BY <4>2, <4>3 DEF get
      <4>5. OnlyUndone' => DOMAIN states \subseteq DOMAIN consumer.past
        <5>1. get(gsm, "type") = <<"GameStateType_Full">>
          BY DEF TellsFull
        <5>2. gsm.type = "GameStateType_Full"
          BY <5>1 DEF get
        <5>3. OnlyUndone' => OnlyUndone
          BY <1>1, <5>2, WholeStep
        <5> QED
          BY <3>3, <5>3 DEF BInv, StoryKept
      <4>6. OnlyUndone' => story # <<>>
        BY <4>1, <4>4, <4>5
      <4> QED
        BY <1>1, <1>2, <2>3, <3>3, <4>4, <4>5, <4>6, StoryStep
    <3> QED
      BY <3>1, <3>2, <3>3
  <2> QED
    BY <2>3, <2>4, <2>5, <2>6, <2>7 DEF BInv, Board
<1> QED
  BY <1>4, <1>6, <1>7

(* The annotations tell what happened between the two states.              *)
Tells(g, annotations, m) ==
  /\ Annotates(annotations, m)
  /\ g.story = game.story \o Story(Told(annotations))

(* Each card it leaves revealed was, is shown, or has its new id told.     *)
Traced(g, annotations, m) ==
  \A id \in Located(g) \cap revealed' :
    \/ id \in Located(game) \cap revealed
    \/ id \in ObjectsChanged(game, g)
    \/ \E i \in 1 .. m :
         /\ Told(annotations)[i].type = "ObjectIdChanged"
         /\ Told(annotations)[i].new_id = id
         /\ Told(annotations)[i].old_id \in Located(game) \cap revealed

(* A difference, told or missing, keeps BInv.                              *)
LEMMA DiffStep ==
  ASSUME IInv, BInv, states # <<>>, NEW g, IsGame(g), Reveals(g),
         NEW annotations, NEW m \in Nat,
         MayFollow(game, g), Tells(g, annotations, m), Traced(g, annotations, m),
         NEW gsm, Tell(g, gsm), TellsDiff(gsm, game, g, annotations)
  PROVE  BInv'
<1>1. PICK n : n = Len(states) + 1
  OBVIOUS
<1>2. game' = g /\ states' = Append(states, g) /\ lean' = lean
  BY DEF Tell
<1>3. /\ n \in Nat /\ n # 0 /\ Len(states) = n - 1 /\ Len(states') = n
      /\ DOMAIN states = 1 .. n - 1 /\ DOMAIN states' = 1 .. n
      /\ states'[n] = g /\ (states = <<>> <=> n = 1)
  BY <1>1, <1>2, Appended
<1>4. Len(states) \in DOMAIN states /\ game = states[Len(states)] /\ IsGame(game)
  BY <1>3 DEF BInv, GamesKept
<1> DEFINE msg == [type |-> IF Len(states) % 2 = 0 THEN "GameStateMessage"
                                                   ELSE "QueuedGameStateMessage",
                   gameStateId |-> Len(states) + 1, gameStateMessage |-> gsm]
<1>5. \/ Consume(build_game_state_message_payload(msg, lean)) /\ lost' = lost
      \/ lost' = lost \cup {Len(states) + 1} /\ consumer' = consumer
  BY DEF Tell
<1>6. /\ "gameStateId" \in DOMAIN msg /\ "gameStateMessage" \in DOMAIN msg
      /\ msg.gameStateId = n /\ msg.gameStateMessage = gsm
  BY <1>1
<1> HIDE DEF msg
<1>7. CASE lost' = lost \cup {Len(states) + 1} /\ consumer' = consumer
  <2>1. lost' # {}
    BY <1>7
  <2> QED
    BY <1>2, <1>7, <2>1, LostStep
<1>8. CASE Consume(build_game_state_message_payload(msg, lean)) /\ lost' = lost
  <2>1. /\ Board \subseteq DOMAIN consumer /\ consumer.sync \in BOOLEAN
        /\ \A id \in DOMAIN consumer.names : consumer.names[id] = CardOf(id)
    BY DEF BInv, NamesKept, Board, IInv
  <2>2. PICK told, old : told = Told(annotations) /\ old = game
    OBVIOUS
  <2>3. PICK longer : longer = <<Head(consumer.story) \o Story(told)>>
    OBVIOUS
  <2>12. AfterDiff(n, old, g, told, m, longer)
    <3>1. MayFollow(old, g) /\ IsGame(old) /\ TellsDiff(gsm, old, g, annotations)
      BY <1>4, <2>2
    <3>2. Annotates(annotations, m)
      BY DEF Tells
    <3> QED
      BY ONLY m \in Nat, IsGame(g), <1>6, <1>8, <2>1, <2>2, <2>3, <3>1, <3>2, ToldDiff
  <2>4. /\ consumer'["last"] = n
        /\ consumer'["sync"] \in BOOLEAN
        /\ consumer'["sync"] <=> (consumer.sync /\ Len(states) = consumer.last)
        /\ ~lean /\ Follows(consumer, old) => Follows(consumer', g)
        /\ consumer'["story"] =
             IF lean \/ ~consumer'["sync"] \/ consumer.story = <<>> THEN <<>>
             ELSE longer
        /\ consumer'["past"] = IF consumer'["story"] = <<>> THEN consumer.past
                               ELSE Field(n, Head(consumer'["story"])) ++ consumer.past
        /\ Board \subseteq DOMAIN consumer'
        /\ \A id \in DOMAIN consumer'["names"] : consumer'["names"][id] = CardOf(id)
        /\ ~lean =>
             /\ DOMAIN consumer.names \cup ObjectsChanged(old, g)
                  \subseteq DOMAIN consumer'["names"]
             /\ \A i \in 1 .. m :
                  /\ told[i].type = "ObjectIdChanged"
                  /\ told[i].old_id \in DOMAIN consumer.names
                  => told[i].new_id \in DOMAIN consumer'["names"]
    BY <2>12 DEF AfterDiff
  <2>5. GamesKept'
    BY <1>2, GamesStep DEF BInv
  <2>6. consumer'["sync"] => consumer.sync /\ consumer.last = Len(states)
    BY <2>4
  <2>7. BoardKept'
    BY <1>2, <1>3, <1>4, <2>2, <2>4, <2>6 DEF BInv, BoardKept
  <2>8. IdsIssued' /\ NamesKept'
    <3>1. ~lean /\ lost = {} => Located(g) \cap revealed' \subseteq DOMAIN consumer'["names"]
      <4>1. ~lean /\ lost = {} => Located(game) \cap revealed \subseteq DOMAIN consumer.names
        BY <1>4 DEF BInv, NamesKept
      <4> QED
        BY <2>2, <2>4, <4>1 DEF Traced
    <3> QED
      BY <1>2, <1>8, <2>4, <3>1, NamesStep
  <2>9. StoryKept'
    <3>1. CASE lean
      BY <1>2, <3>1 DEF StoryKept
    <3>2. CASE ~lean
      <4>1. consumer.story # <<>> =>
              consumer.sync /\ consumer.story = <<states[consumer.last].story>>
        BY <3>2 DEF BInv, StoryKept
      <4>2. consumer'["story"] # <<>> => consumer'["sync"] /\ consumer.story # <<>>
        BY <2>4
      <4>3. consumer'["story"] # <<>> => consumer'["story"] = <<g.story>>
        <5>1. SUFFICES ASSUME consumer'["story"] # <<>>
                       PROVE  longer = <<g.story>>
          BY <2>4
        <5>2. consumer.story = <<game.story>>
          BY <1>4, <2>6, <4>1, <4>2, <5>1
        <5>3. Head(consumer.story) = game.story
          BY <5>2
        <5> QED
          BY <2>2, <2>3, <5>3 DEF Tells
      <4>4. OnlyUndone' => OnlyUndone
        <5>1. get(gsm, "type") = <<"GameStateType_Diff">>
          BY DEF TellsDiff
        <5>2. gsm.type # "GameStateType_Full"
          BY <5>1 DEF get
        <5> QED
          BY <1>8, <5>2 DEF Tell, OnlyUndone
      <4>5. OnlyUndone' => /\ consumer'["story"] # <<>>
                           /\ DOMAIN states \subseteq DOMAIN consumer.past
        <5>1. SUFFICES ASSUME OnlyUndone
                       PROVE  /\ consumer'["story"] # <<>>
                              /\ DOMAIN states \subseteq DOMAIN consumer.past
          BY <4>4
        <5>2. consumer.story # <<>> /\ DOMAIN states \subseteq DOMAIN consumer.past
          BY <3>2, <5>1 DEF BInv, StoryKept
        <5>3. consumer.last = Len(states)
          <6>1. /\ consumer.last \in 0 .. Len(states)
                /\ consumer.last + 1 .. Len(states) \subseteq {}
            BY <5>1 DEF IInv, LastTold, OnlyUndone
          <6>2. PICK a, b : a = consumer.last /\ b = Len(states)
            OBVIOUS
          <6>3. b \in Nat /\ a \in 0 .. b /\ a + 1 .. b \subseteq {}
            BY <1>3, <6>1, <6>2
          <6>4. a # b => b \in a + 1 .. b
            BY ONLY <6>3
          <6> QED
            BY <6>2, <6>3, <6>4
        <5>4. longer # <<>>
          BY <2>3
        <5> QED
          BY <2>4, <3>2, <4>1, <5>2, <5>3, <5>4
      <4> QED
        BY <1>1, <1>2, <2>4, <3>2, <4>2, <4>3, <4>5, StoryStep
    <3> QED
      BY <3>1, <3>2
  <2> QED
    BY <2>4, <2>5, <2>7, <2>8, <2>9 DEF BInv, Board
<1> QED
  BY <1>5, <1>7, <1>8

(* A Full state, the first or one sent again, keeps BInv.                  *)
LEMMA FullTold ==
  ASSUME IInv, BInv, NEW g, IsGame(g), Reveals(g), revealed' = revealed,
         Tell(g, FullState(g)),
         IF states = <<>> THEN g.story = <<>> ELSE \E k \in DOMAIN states : g = states[k]
  PROVE  BInv'
<1>1. PICK gsm : gsm = FullState(g)
  OBVIOUS
<1>2. TellsFull(gsm, g) /\ get(gsm, "update") = <<"GameStateUpdate_Send">>
  BY <1>1, FullSays DEF TellsFull
<1>3. Tell(g, gsm) /\ SentFull(g, gsm)
  BY <1>1, <1>2 DEF SentFull
<1> QED
  BY <1>2, <1>3, FullStep

(* A rollback to any earlier state keeps BInv.                             *)
LEMMA UndoTold ==
  ASSUME IInv, BInv, NEW k \in DOMAIN states, NEW g, g = states[k], IsGame(g),
         Reveals(g), revealed' = revealed,
         Tell(g, [update |-> "GameStateUpdate_Undo", prevGameStateId |-> k]
                   ++ FullState(g))
  PROVE  BInv'
<1>1. PICK full, gsm : full = FullState(g)
        /\ gsm = [update |-> "GameStateUpdate_Undo", prevGameStateId |-> k] ++ full
  OBVIOUS
<1>2. TellsFull(full, g)
  BY <1>1, FullSays DEF TellsFull
<1>3. /\ get(gsm, "update") = <<"GameStateUpdate_Undo">>
      /\ get(gsm, "prevGameStateId") = <<k>>
      /\ \A x : x \notin {"update", "prevGameStateId"} => get(gsm, x) = get(full, x)
  BY <1>1, UndoSays
<1>4. TellsFull(gsm, g)
  BY <1>2, <1>3 DEF TellsFull, Listed
<1>5. Tell(g, gsm)
  BY <1>1
<1>6. SentUndo(g, gsm)
  BY <1>3 DEF SentUndo
<1> QED
  BY <1>4, <1>5, <1>6, FullStep

(* A difference the game sends keeps BInv.                                 *)
LEMMA DiffTold ==
  ASSUME IInv, BInv, states # <<>>, NEW g, IsGame(g), Reveals(g),
         NEW annotations, NEW m \in Nat,
         MayFollow(game, g), Tells(g, annotations, m), Traced(g, annotations, m),
         Tell(g, DiffState(game, g, annotations))
  PROVE  BInv'
<1>1. PICK gsm, old : old = game /\ gsm = DiffState(old, g, annotations)
  OBVIOUS
<1>2. TellsDiff(gsm, old, g, annotations)
  BY <1>1, DiffSays
<1>3. Tell(g, gsm) /\ TellsDiff(gsm, game, g, annotations)
  BY <1>1, <1>2
<1> QED
  BY <1>3, DiffStep

(* No annotations tell that nothing happened.                              *)
LEMMA NoneTold ==
  /\ Annotates(<<>>, 0) /\ Story(Told(<<>>)) = <<>>
<1>1. Told(<<>>) = <<>>
  BY DEF Told
<1> QED
  BY <1>1, StoryNone DEF Annotates

(* One annotation tells what happened.                                     *)
LEMMA OneTold ==
  ASSUME NEW a, "id" \in DOMAIN a, NEW told, told = extract_single_annotation(a),
         told["type"] # "ObjectIdChanged", NEW happening, Happening(told) = happening
  PROVE  Annotates(<<a>>, 1) /\ Story(Told(<<a>>)) = <<happening>>
<1>1. Told(<<a>>) = <<told>>
  BY DEF Told
<1>2. Annotates(<<a>>, 1)
  BY <1>1 DEF Annotates
<1>3. PICK list, j : list = <<told>> /\ j = 1
  OBVIOUS
<1>4. /\ j \in DOMAIN list /\ j \in Int /\ list[j] = told
      /\ \A i \in DOMAIN list : list[i].type # "ObjectIdChanged" <=> i = j
  BY <1>3
<1>5. Story(list) = <<Happening(list[j])>>
  BY ONLY <1>4, StoryOne
<1> QED
  BY <1>1, <1>2, <1>3, <1>4, <1>5

(* A state with no other cards than an earlier one issues no ids.          *)
LEMMA SameCards ==
  ASSUME IInv, BInv, NEW k \in DOMAIN states, NEW g,
         Located(g) \subseteq Located(states[k]), revealed' = revealed
  PROVE  Reveals(g)
<1>1. Len(states) \in Nat /\ states # <<>>
  BY DEF IInv
<1>2. \A id \in Located(states[k]) : id \in Nat /\ id < Issued(Len(states) + 1, 0)
  <2>1. Located(states[k]) \in SUBSET Nat
    BY GameSets DEF BInv, GamesKept
  <2> QED
    BY <2>1 DEF BInv, IdsIssued
<1>3. \A id \in Located(g) : id < Issued(Len(states) + 2, 0)
  BY <1>1, <1>2 DEF Issued
<1> QED
  BY <1>1, <1>3 DEF Reveals

(* The game is in the last of its states.                                  *)
LEMMA LastState ==
  ASSUME IInv, BInv, states # <<>>
  PROVE  /\ Len(states) \in DOMAIN states /\ game = states[Len(states)]
         /\ IsGame(game)
BY DEF IInv, BInv, GamesKept

(* A step that moves no card keeps BInv.                                   *)
LEMMA QuietStep ==
  ASSUME IInv, BInv, states # <<>>, NEW g, IsGame(g), Located(g) = Located(game),
         NEW annotations, NEW m \in Nat, MayFollow(game, g),
         Tells(g, annotations, m), revealed' = revealed,
         Tell(g, DiffState(game, g, annotations))
  PROVE  BInv'
<1>1. Reveals(g)
  BY LastState, SameCards
<1>2. Traced(g, annotations, m)
  BY DEF Traced
<1> QED
  BY <1>1, <1>2, DiffTold

(* A game to which something happened that moves no card.                  *)
LEMMA Storied ==
  ASSUME NEW old, IsGame(old), NEW happening, NEW g,
         g = [old EXCEPT !.story = Append(@, happening)]
  PROVE  /\ IsGame(g) /\ g.zones = old.zones /\ g.granted = old.granted
         /\ g.turn = old.turn /\ g.active = old.active
         /\ g.story = old.story \o <<happening>>
         /\ Located(g) = Located(old)
<1>1. /\ DOMAIN g = DOMAIN old /\ g.zones = old.zones /\ g.granted = old.granted
      /\ g.turn = old.turn /\ g.active = old.active
      /\ g.story = Append(old.story, happening)
  BY DEF IsGame
<1>2. PICK s, t : s = old.story /\ t = g.story
  OBVIOUS
<1>3. s \in Seq(ToSet(s)) /\ t = Append(s, happening)
  BY <1>1, <1>2 DEF IsGame
<1>4. t \in Seq(ToSet(t)) /\ t = s \o <<happening>>
  <2>1. PICK S : S = ToSet(s) \cup {happening}
    OBVIOUS
  <2>2. s \in Seq(S) /\ happening \in S
    BY <1>3, <2>1
  <2>3. t \in Seq(S) /\ t = s \o <<happening>>
    BY ONLY <1>3, <2>2
  <2>4. t \in Seq(ToSet(t))
    BY ONLY <2>3 DEF ToSet
  <2> QED
    BY <2>3, <2>4
<1> QED
  BY <1>1, <1>2, <1>4 DEF IsGame, Located

-----------------------------------------------------------------------------
(* The steps of the game.                                                  *)

(* A change of life keeps BInv.                                            *)
LEMMA LifeStep ==
  ASSUME IInv, BInv, ChangeLife PROVE BInv'
<1>1. states # <<>> /\ revealed' = revealed
  BY DEF ChangeLife, Playing
<1>2. PICK change \in {-2, 1} :
        Step(game, <<"ModifiedLife", <<2>>, change>>,
             <<Annotation("ModifiedLife", <<2>>, <<Detail("life", <<change>>)>>)>>)
  BY DEF ChangeLife
<1>3. PICK ids, happening, details, a, told :
        /\ ids = <<2>> /\ happening = <<"ModifiedLife", ids, change>>
        /\ details = <<Detail("life", <<change>>)>>
        /\ a = Annotation("ModifiedLife", ids, details)
        /\ told = extract_single_annotation(a)
  OBVIOUS
<1>4. Annotates(<<a>>, 1) /\ Story(Told(<<a>>)) = <<happening>>
  <2>1. told["type"] = "ModifiedLife" /\ Happening(told) = happening
    BY <1>3, LifeTold
  <2>2. "id" \in DOMAIN a
    BY <1>3, AnnotationTold
  <2> QED
    BY <1>3, <2>1, <2>2, OneTold
<1>5. PICK g : g = [game EXCEPT !.story = Append(@, happening)]
  OBVIOUS
<1>6. /\ IsGame(g) /\ g.zones = game.zones /\ g.granted = game.granted
      /\ g.turn = game.turn /\ g.active = game.active
      /\ g.story = game.story \o <<happening>>
      /\ Located(g) = Located(game)
  BY <1>1, <1>5, LastState, Storied
<1>7. MayFollow(game, g) /\ Tells(g, <<a>>, 1)
  BY <1>4, <1>6 DEF MayFollow, Tells
<1>8. Tell(g, DiffState(game, g, <<a>>))
  BY <1>2, <1>3, <1>5 DEF Step
<1> QED
  BY <1>1, <1>6, <1>7, <1>8, QuietStep

(* A change of counters keeps BInv.                                        *)
LEMMA CountersStep ==
  ASSUME IInv, BInv, NEW id, ChangeCounters(id) PROVE BInv'
<1>1. states # <<>> /\ revealed' = revealed
  BY DEF ChangeCounters, Playing
<1>2. PICK type \in {"CounterAdded", "CounterRemoved"} :
       Step(game, <<type, <<id>>, 2>>,
            <<Annotation(type, <<id>>, <<Detail("counter_type", <<1>>),
                                         Detail("transaction_amount", <<2>>)>>)>>)
  BY DEF ChangeCounters
<1>3. PICK ids, happening, details, a, told :
        /\ ids = <<id>> /\ happening = <<type, ids, 2>>
        /\ details = <<Detail("counter_type", <<1>>), Detail("transaction_amount", <<2>>)>>
        /\ a = Annotation(type, ids, details)
        /\ told = extract_single_annotation(a)
  OBVIOUS
<1>4. Annotates(<<a>>, 1) /\ Story(Told(<<a>>)) = <<happening>>
  <2>1. told["type"] = type /\ Happening(told) = happening
    BY <1>3, CountersTold
  <2>2. "id" \in DOMAIN a
    BY <1>3, AnnotationTold
  <2> QED
    BY <1>3, <2>1, <2>2, OneTold
<1>5. PICK g : g = [game EXCEPT !.story = Append(@, happening)]
  OBVIOUS
<1>6. /\ IsGame(g) /\ g.zones = game.zones /\ g.granted = game.granted
      /\ g.turn = game.turn /\ g.active = game.active
      /\ g.story = game.story \o <<happening>>
      /\ Located(g) = Located(game)
  BY <1>1, <1>5, LastState, Storied
<1>7. MayFollow(game, g) /\ Tells(g, <<a>>, 1)
  BY <1>4, <1>6 DEF MayFollow, Tells
<1>8. Tell(g, DiffState(game, g, <<a>>))
  BY <1>2, <1>3, <1>5 DEF Step
<1> QED
  BY <1>1, <1>6, <1>7, <1>8, QuietStep

(* Granting abilities keeps BInv.                                          *)
LEMMA GrantStep ==
  ASSUME IInv, BInv, NEW id, GrantAbilities(id) PROVE BInv'
<1>1. states # <<>> /\ revealed' = revealed /\ IsGame(game)
  BY LastState DEF GrantAbilities, Playing
<1>2. id \in Nat
  <2>1. Battlefield \in Zones
    BY DEF Zones
  <2>2. game.zones[Battlefield] \in Seq(Nat)
    BY <1>1, <2>1 DEF IsGame
  <2>3. ToSet(game.zones[Battlefield]) \in SUBSET Nat
    BY <2>2, FiniteList
  <2> QED
    BY <2>3 DEF GrantAbilities
<1>3. PICK granted : granted = Field(id, <<8, 9>>) ++ game.granted
  OBVIOUS
<1>4. PICK g : g = [game EXCEPT !.granted = granted]
  OBVIOUS
<1>5. /\ DOMAIN granted = {id} \cup DOMAIN game.granted
      /\ id \notin DOMAIN game.granted
      /\ \A x \in DOMAIN game.granted : granted[x] = game.granted[x]
  <2>1. id \notin DOMAIN game.granted
    BY DEF GrantAbilities
  <2> QED
    BY <1>3, <2>1 DEF Field, ++
<1>6. DOMAIN granted \in SUBSET Nat /\ IsFiniteSet(DOMAIN granted)
  <2>1. DOMAIN game.granted \in SUBSET Nat /\ IsFiniteSet(DOMAIN game.granted)
    BY <1>1 DEF IsGame
  <2>2. IsFiniteSet({id})
    BY FS_Singleton
  <2> QED
    BY <1>2, <1>5, <2>1, <2>2, FS_Union
<1>7. /\ DOMAIN g = DOMAIN game /\ g.zones = game.zones /\ g.granted = granted
      /\ g.turn = game.turn /\ g.active = game.active /\ g.story = game.story
  BY <1>1, <1>4 DEF IsGame
<1>8. IsGame(g) /\ Located(g) = Located(game)
  BY <1>1, <1>6, <1>7 DEF IsGame, Located
<1>9. MayFollow(game, g)
  BY <1>5, <1>7 DEF MayFollow
<1>10. Tells(g, <<>>, 0)
  BY <1>1, <1>7, NoneTold DEF Tells, IsGame
<1>11. Tell(g, DiffState(game, g, <<>>))
  BY <1>3, <1>4 DEF GrantAbilities
<1> QED
  BY <1>1, <1>8, <1>9, <1>10, <1>11, QuietStep

(* Combat keeps BInv.                                                      *)
LEMMA AttackStep ==
  ASSUME IInv, BInv, NEW id, Attack(id) PROVE BInv'
<1>1. states # <<>> /\ revealed' = revealed /\ IsGame(game)
  BY LastState DEF Attack, Playing
<1>2. PICK attacking : attacking = IF id \in game.attacking THEN {} ELSE {id}
  OBVIOUS
<1>3. PICK g : g = [game EXCEPT !.attacking = attacking]
  OBVIOUS
<1>4. /\ DOMAIN g = DOMAIN game /\ g.zones = game.zones /\ g.granted = game.granted
      /\ g.turn = game.turn /\ g.active = game.active /\ g.story = game.story
  BY <1>1, <1>3 DEF IsGame
<1>5. IsGame(g) /\ Located(g) = Located(game)
  BY <1>1, <1>4 DEF IsGame, Located
<1>6. MayFollow(game, g)
  BY <1>4 DEF MayFollow
<1>7. Tells(g, <<>>, 0)
  BY <1>1, <1>4, NoneTold DEF Tells, IsGame
<1>8. Tell(g, DiffState(game, g, <<>>))
  BY <1>2, <1>3 DEF Attack
<1> QED
  BY <1>1, <1>5, <1>6, <1>7, <1>8, QuietStep

(* The next turn keeps BInv.                                               *)
LEMMA TurnStep ==
  ASSUME IInv, BInv, NextTurn PROVE BInv'
<1>1. states # <<>> /\ revealed' = revealed /\ IsGame(game)
  BY LastState DEF NextTurn, Playing
<1>2. PICK g : g = [game EXCEPT !.turn = @ + 1, !.active = 3 - @]
  OBVIOUS
<1>3. /\ DOMAIN g = DOMAIN game /\ g.zones = game.zones /\ g.granted = game.granted
      /\ g.turn = game.turn + 1 /\ g.active = 3 - game.active /\ g.story = game.story
  BY <1>1, <1>2 DEF IsGame
<1>4. IsGame(g) /\ Located(g) = Located(game)
  BY <1>1, <1>3 DEF IsGame, Located
<1>5. MayFollow(game, g)
  BY <1>1, <1>3 DEF MayFollow, IsGame
<1>6. Tells(g, <<>>, 0)
  BY <1>1, <1>3, NoneTold DEF Tells, IsGame
<1>7. Tell(g, DiffState(game, g, <<>>))
  BY <1>2 DEF NextTurn
<1> QED
  BY <1>1, <1>4, <1>5, <1>6, <1>7, QuietStep

(* Undo keeps BInv.                                                        *)
LEMMA UndoStep ==
  ASSUME IInv, BInv, Undo PROVE BInv'
<1>1. states # <<>> /\ revealed' = revealed
  BY DEF Undo, Playing
<1>2. PICK k \in 1 .. Len(states) - 1 :
        Tell(states[k], [update |-> "GameStateUpdate_Undo", prevGameStateId |-> k]
                          ++ FullState(states[k]))
  BY DEF Undo
<1>3. PICK g : g = states[k]
  OBVIOUS
<1>4. k \in DOMAIN states
  BY DEF IInv
<1>5. IsGame(g) /\ Reveals(g)
  BY <1>1, <1>3, <1>4, SameCards DEF BInv, GamesKept
<1>6. Tell(g, [update |-> "GameStateUpdate_Undo", prevGameStateId |-> k] ++ FullState(g))
  BY <1>2, <1>3
<1> QED
  BY <1>1, <1>3, <1>4, <1>5, <1>6, UndoTold

(* A Full state sent again keeps BInv.                                     *)
LEMMA ResendStep ==
  ASSUME IInv, BInv, Resend PROVE BInv'
<1>1. states # <<>> /\ revealed' = revealed /\ Tell(game, FullState(game))
  BY DEF Resend, Playing
<1>2. Len(states) \in DOMAIN states /\ game = states[Len(states)] /\ IsGame(game)
  BY <1>1, LastState
<1>3. Reveals(game)
  BY <1>1, <1>2, SameCards
<1> QED
  BY <1>1, <1>2, <1>3, FullTold

(* A new game is a game, with the ids issued for its first state.          *)
LEMMA NewGameFacts ==
  /\ IsGame(NewGame) /\ NewGame.story = <<>>
  /\ \A id \in Located(NewGame) : id < Issued(2, 0)
<1>1. PICK n, list : /\ n = Cardinality(Cards)
                     /\ list = [i \in 1 .. n |-> Issued(1, Ascending(Cards)[i])]
  OBVIOUS
<1>2. /\ Cards \in SUBSET Int /\ IsFiniteSet(Cards)
      /\ \A c \in Cards : c \in Nat /\ c < 1000
  <2>1. Cards \subseteq 1 .. 999 /\ Cards \in SUBSET Int
    BY BoundsAssumption
  <2>2. PICK a \in Int, b \in Int : a = 1 /\ b = 999
    OBVIOUS
  <2>3. PICK S : S = a .. b
    OBVIOUS
  <2>4. IsFiniteSet(S)
    BY <2>3, FS_Interval
  <2>5. Cards \subseteq S
    BY <2>1, <2>2, <2>3
  <2>6. IsFiniteSet(Cards)
    BY ONLY <2>4, <2>5, FS_Subset
  <2>7. \A c \in Cards : c \in Nat /\ c < 1000
    BY <2>1
  <2> QED
    BY <2>1, <2>6, <2>7
<1>3. n \in Nat /\ \A i \in 1 .. n : list[i] \in Nat /\ list[i] < Issued(2, 0)
  <2>1. n \in Nat /\ Ascending(Cards) \in [1 .. n -> Cards]
    BY <1>1, <1>2, AscendingFacts
  <2>2. \A i \in 1 .. n : /\ Ascending(Cards)[i] \in Nat
                           /\ Ascending(Cards)[i] < 1000
    BY <1>2, <2>1
  <2>3. \A c \in Nat : c < 1000 => Issued(1, c) \in Nat /\ Issued(1, c) < Issued(2, 0)
    BY DEF Issued
  <2> QED
    BY <1>1, <2>1, <2>2, <2>3
<1>4. list \in Seq(Nat) /\ \A id \in ToSet(list) : id < Issued(2, 0)
  <2>1. DOMAIN list = 1 .. n /\ list = [i \in 1 .. n |-> list[i]]
    BY <1>1
  <2>2. list \in Seq(Nat)
    BY ONLY <1>3, <2>1
  <2> QED
    BY <1>3, <2>1, <2>2 DEF ToSet
<1> DEFINE zones == [zone \in Zones |-> IF zone = Library THEN list ELSE <<>>]
<1>5. /\ DOMAIN NewGame = {"zones", "attacking", "granted", "story", "turn", "active"}
      /\ NewGame.zones = zones /\ NewGame.granted = <<>> /\ NewGame.story = <<>>
      /\ NewGame.turn = 0 /\ NewGame.active = 1
  BY <1>1 DEF NewGame
<1> DEFINE g == NewGame
<1> HIDE DEF g
<1>6. /\ DOMAIN g = {"zones", "attacking", "granted", "story", "turn", "active"}
      /\ g.zones = zones /\ g.granted = <<>> /\ g.story = <<>>
      /\ g.turn = 0 /\ g.active = 1
  BY <1>5 DEF g
<1>7. /\ DOMAIN zones = Zones /\ \A z \in Zones : zones[z] \in Seq(Nat)
      /\ \A z \in Zones : \A id \in ToSet(zones[z]) : id < Issued(2, 0)
  <2>1. <<>> \in Seq(Nat) /\ ToSet(<<>>) = {}
    BY NoFields DEF ToSet
  <2> QED
    BY <1>4, <2>1
<1> HIDE DEF zones
<1>8. DOMAIN g.granted = {} /\ IsFiniteSet({})
  BY <1>6, NoFields, FS_EmptySet
<1>9. g.story \in Seq(ToSet(g.story))
  BY <1>6
<1>10. IsGame(g)
  BY <1>6, <1>7, <1>8, <1>9 DEF IsGame
<1>11. \A id \in Located(g) : id < Issued(2, 0)
  BY <1>6, <1>7 DEF Located
<1> QED
  BY <1>6, <1>10, <1>11 DEF g

(* The first state of a game keeps BInv.                                   *)
LEMMA StartStep ==
  ASSUME IInv, BInv, Start PROVE BInv'
<1>1. states = <<>> /\ revealed' = revealed /\ Tell(game, FullState(game))
  BY DEF Start
<1>2. game = NewGame /\ revealed = {}
  BY <1>1 DEF BInv, GamesKept, IdsIssued
<1>3. IsGame(game) /\ game.story = <<>>
  BY <1>2, NewGameFacts
<1>4. Len(states) + 2 = 2
  BY <1>1
<1>5. Reveals(game)
  BY <1>1, <1>2, <1>4, NewGameFacts DEF Reveals
<1> QED
  BY <1>1, <1>3, <1>5, FullTold

(* Initially the consumer knows nothing, and there is nothing to know.     *)
LEMMA BInvInit == Init => BInv
<1> SUFFICES ASSUME Init PROVE BInv
  OBVIOUS
<1>1. /\ game = NewGame /\ revealed = {} /\ states = <<>> /\ DOMAIN states = {}
      /\ consumer = [sync |-> FALSE, last |-> 0, story |-> <<>>, past |-> <<>>,
                     turn |-> 0, zones |-> <<>>, objects |-> <<>>, timers |-> <<>>,
                     grants |-> <<>>, names |-> <<>>]
  BY DEF Init
<1>2. /\ {"zones", "objects", "timers", "grants", "names"} \subseteq DOMAIN consumer
      /\ consumer.sync = FALSE /\ consumer.story = <<>> /\ consumer.past = <<>>
      /\ consumer.names = <<>>
  BY <1>1
<1>3. DOMAIN <<>> = {}
  BY NoFields
<1>4. GamesKept
  BY <1>1, NewGameFacts DEF GamesKept
<1>5. BoardKept /\ StoryKept
  BY <1>1, <1>2, <1>3 DEF BoardKept, StoryKept
<1>6. IdsIssued /\ NamesKept
  BY <1>1, <1>2, <1>3 DEF IdsIssued, NamesKept
<1> QED
  BY <1>2, <1>4, <1>5, <1>6 DEF BInv

(* A card that is issued a new id keeps the card of the old one.           *)
LEMMA IssuedFacts ==
  ASSUME NEW n \in Nat, NEW id \in Nat
  PROVE  LET new == Issued(n, CardOf(id))
         IN  /\ CardOf(new) = CardOf(id) /\ new \in Nat
             /\ Issued(n, 0) <= new /\ new < Issued(n + 1, 0)
BY DEF Issued, CardOf

(* The ids known before a state are less than those it issues.             *)
LEMMA IdsBefore ==
  ASSUME IInv, BInv, states # <<>>
  PROVE  /\ Len(states) \in Nat
         /\ \A id \in Located(game) \cup revealed :
              id \in Nat /\ id < Issued(Len(states) + 1, 0)
<1>1. Len(states) \in DOMAIN states /\ game = states[Len(states)] /\ IsGame(game)
  BY LastState
<1>2. Located(game) \in SUBSET Nat
  BY <1>1, GameSets
<1>3. \A id \in Located(game) : id < Issued(Len(states) + 1, 0)
  BY <1>1 DEF BInv, IdsIssued
<1>4. \A id \in revealed : id \in Nat /\ id < Issued(Len(states) + 1, 0)
  BY DEF BInv, IdsIssued
<1>5. Len(states) \in Nat
  BY DEF IInv
<1> QED
  BY <1>2, <1>3, <1>4, <1>5

(* A shuffle, which issues new ids to the library and forgets the old      *)
(* ones, keeps BInv.                                                       *)
LEMMA ShuffleStep ==
  ASSUME IInv, BInv, Shuffle PROVE BInv'
<1>1. states # <<>> /\ revealed' = revealed
  BY DEF Shuffle, Playing
<1>2. PICK cards : cards = {CardOf(id) : id \in ToSet(game.zones[Library])}
  OBVIOUS
<1>3. PICK order \in SetToSeqs(cards) :
       LET new == [i \in DOMAIN order |-> Issued(Len(states) + 1, order[i])]
       IN  Step([game EXCEPT !.zones = [@ EXCEPT ![Library] = new]],
                <<"Shuffle", <<1>>, game.zones[Library], new>>,
                <<Annotation("Shuffle", <<1>>,
                             <<Detail("OldIds", game.zones[Library]),
                               Detail("NewIds", new)>>)>>)
  BY <1>2 DEF Shuffle
<1>4. PICK n, new, old, ids, happening, details, a, told :
        /\ n = Len(states) + 1
        /\ new = [i \in DOMAIN order |-> Issued(n, order[i])]
        /\ old = game.zones[Library] /\ ids = <<1>>
        /\ happening = <<"Shuffle", ids, old, new>>
        /\ details = <<Detail("OldIds", old), Detail("NewIds", new)>>
        /\ a = Annotation("Shuffle", ids, details)
        /\ told = extract_single_annotation(a)
  OBVIOUS
<1>5. Annotates(<<a>>, 1) /\ Story(Told(<<a>>)) = <<happening>>
  <2>1. told["type"] = "Shuffle" /\ Happening(told) = happening
    BY <1>4, ShuffleTold
  <2>2. "id" \in DOMAIN a
    BY <1>4, AnnotationTold
  <2> QED
    BY <1>4, <2>1, <2>2, OneTold
<1>6. PICK moved, g : /\ moved = [game EXCEPT !.zones = [@ EXCEPT ![Library] = new]]
                      /\ g = [moved EXCEPT !.story = Append(@, happening)]
  OBVIOUS
<1>7. IsGame(game) /\ Library \in Zones /\ n \in Nat
  BY <1>1, <1>4, LastState, IdsBefore DEF Zones
<1>8. /\ DOMAIN moved = DOMAIN game /\ DOMAIN moved.zones = Zones
      /\ moved.zones[Library] = new
      /\ \A z \in Zones : z # Library => moved.zones[z] = game.zones[z]
      /\ moved.granted = game.granted /\ moved.story = game.story
      /\ moved.turn = game.turn /\ moved.active = game.active
  BY <1>6, <1>7 DEF IsGame
<1>9. /\ new \in Seq(Nat)
      /\ \A id \in ToSet(new) : Issued(n, 0) <= id /\ id < Issued(n + 1, 0)
  <2>1. old \in Seq(Nat)
    BY <1>4, <1>7 DEF IsGame
  <2>2. ToSet(old) \in SUBSET Nat /\ IsFiniteSet(ToSet(old))
    BY <2>1, FiniteList
  <2>3. \A c \in cards : c \in Nat /\ c < 1000
    BY <1>2, <1>4, <2>2 DEF CardOf
  <2>4. IsFiniteSet(cards)
    <3>1. PICK S : S = ToSet(old)
      OBVIOUS
    <3>2. PICK f : f = [x \in S |-> CardOf(x)]
      OBVIOUS
    <3>3. f \in Surjection(S, cards)
      BY <1>2, <1>4, <3>1, <3>2 DEF Surjection
    <3>4. IsFiniteSet(S)
      BY <2>2, <3>1
    <3> QED
      BY ONLY <3>3, <3>4, FS_Surjection
  <2>5. PICK k : k = Cardinality(cards)
    OBVIOUS
  <2>6. k \in Nat /\ order \in [1 .. k -> cards]
    BY <2>4, <2>5, FS_CardinalityType DEF SetToSeqs
  <2>7. DOMAIN order = 1 .. k /\ \A i \in 1 .. k : order[i] \in Nat /\ order[i] < 1000
    BY <2>3, <2>6
  <2>8. \A c \in Nat : c < 1000 =>
         /\ Issued(n, c) \in Nat /\ Issued(n, 0) <= Issued(n, c)
         /\ Issued(n, c) < Issued(n + 1, 0)
    BY <1>7 DEF Issued
  <2>9. /\ DOMAIN new = 1 .. k /\ new = [i \in 1 .. k |-> new[i]]
        /\ \A i \in 1 .. k : /\ new[i] \in Nat /\ Issued(n, 0) <= new[i]
                             /\ new[i] < Issued(n + 1, 0)
    BY <1>4, <2>7, <2>8
  <2>10. new \in Seq(Nat)
    BY ONLY <2>6, <2>9
  <2> QED
    BY <2>9, <2>10 DEF ToSet
<1>10. IsGame(moved)
  BY <1>7, <1>8, <1>9 DEF IsGame
<1>11. /\ IsGame(g) /\ g.zones = moved.zones /\ g.granted = game.granted
       /\ g.turn = game.turn /\ g.active = game.active
       /\ g.story = game.story \o <<happening>>
       /\ Located(g) = Located(moved)
  <2>1. g = [moved EXCEPT !.story = Append(@, happening)]
    BY <1>6
  <2>2. /\ IsGame(g) /\ g.zones = moved.zones /\ g.granted = moved.granted
        /\ g.turn = moved.turn /\ g.active = moved.active
        /\ g.story = moved.story \o <<happening>>
        /\ Located(g) = Located(moved)
    BY ONLY <1>10, <2>1, Storied
  <2> QED
    BY <1>8, <2>2
<1>12. MayFollow(game, g) /\ Tells(g, <<a>>, 1)
  BY <1>5, <1>11 DEF MayFollow, Tells
<1>13. Located(g) \subseteq Located(game) \cup ToSet(new)
  BY <1>8, <1>11 DEF Located
<1>14. \A id \in Located(game) \cup revealed : id \in Nat /\ id < Issued(n, 0)
  BY <1>1, <1>4, IdsBefore
<1>15. Issued(n, 0) \in Nat /\ Issued(n, 0) < Issued(n + 1, 0) /\ Len(states) + 2 = n + 1
  BY <1>1, <1>4, IdsBefore DEF Issued
<1>16. Reveals(g)
  <2>1. \A id \in Located(g) : id < Issued(n + 1, 0)
    <3>1. PICK low, high : low = Issued(n, 0) /\ high = Issued(n + 1, 0)
      OBVIOUS
    <3>2. low \in Nat /\ high \in Nat /\ low < high
      BY <1>7, <1>15, <3>1 DEF Issued
    <3>3. \A id \in Located(game) : id \in Nat /\ id < high
      BY <1>14, <3>1, <3>2
    <3>4. \A id \in ToSet(new) : id < high
      BY <1>9, <3>1
    <3> QED
      BY <1>13, <3>1, <3>3, <3>4
  <2> QED
    BY <1>1, <1>15, <2>1 DEF Reveals
<1>17. Traced(g, <<a>>, 1)
  <2>1. \A id \in revealed : id \notin ToSet(new)
    BY <1>9, <1>14, <1>15
  <2> QED
    BY <1>1, <1>13, <2>1 DEF Traced
<1>18. Tell(g, DiffState(game, g, <<a>>))
  BY <1>3, <1>4, <1>6 DEF Step
<1> QED
  BY <1>1, <1>11, <1>12, <1>16, <1>17, <1>18, DiffTold

(* A card that is somewhere in the game is in its zone.                    *)
LEMMA ZoneOfFacts ==
  ASSUME NEW g, NEW id \in Located(g)
  PROVE  ZoneOf(g, id) \in Zones /\ id \in ToSet(g.zones[ZoneOf(g, id)])
BY DEF Located, ZoneOf

(* The annotation of the change of the id in a move.                       *)
Rename(id, new) ==
  Annotation("ObjectIdChanged", <<id>>,
             <<Detail("orig_id", <<id>>), Detail("new_id", <<new>>)>>)

(* The annotation of the change of zones in a move.                        *)
Transfer(new, from, to) ==
  Annotation("ZoneTransfer", <<new>>,
             <<Detail("zone_src", <<from>>), Detail("zone_dest", <<to>>),
               Detail("category", <<"Category">>)>>)

(* What happened in a move.                                                *)
Moved(new, from, to) == <<"ZoneTransfer", <<new>>, from, to>>

(* A move is told by both: the id first, then the zones under the new id.  *)
LEMMA MoveTold ==
  ASSUME NEW id, NEW new, CardOf(new) = CardOf(id), NEW from, NEW to,
         NEW rename, rename = Rename(id, new),
         NEW transfer, transfer = Transfer(new, from, to),
         NEW both, both = <<rename, transfer>>, NEW tale, tale = Told(both),
         NEW happening, happening = Moved(new, from, to)
  PROVE  /\ Annotates(both, 2) /\ Story(tale) = <<happening>>
         /\ tale[1].type = "ObjectIdChanged" /\ tale[1].old_id = id
         /\ tale[1].new_id = new
<1>1. PICK first, second : /\ first = extract_single_annotation(rename)
                           /\ second = extract_single_annotation(transfer)
  OBVIOUS
<1>2. first["type"] = "ObjectIdChanged" /\ first["old_id"] = id /\ first["new_id"] = new
  <2>1. PICK ids : ids = <<id>>
    OBVIOUS
  <2>2. first = extract_single_annotation(Annotation("ObjectIdChanged", ids,
                  <<Detail("orig_id", <<id>>), Detail("new_id", <<new>>)>>))
    BY <1>1, <2>1 DEF Rename
  <2> QED
    BY ONLY <2>2, RenameTold
<1>3. second["type"] = "ZoneTransfer" /\ Happening(second) = happening
  <2>1. PICK ids : ids = <<new>>
    OBVIOUS
  <2>2. second = extract_single_annotation(Annotation("ZoneTransfer", ids,
                                  <<Detail("zone_src", <<from>>),
                                    Detail("zone_dest", <<to>>),
                                    Detail("category", <<"Category">>)>>))
    BY <1>1, <2>1 DEF Transfer
  <2>3. second["type"] = "ZoneTransfer"
        /\ Happening(second) = <<"ZoneTransfer", ids, from, to>>
    BY ONLY <2>2, TransferTold
  <2> QED
    BY <1>1, <2>1, <2>3 DEF Moved
<1>4. "id" \in DOMAIN rename /\ "id" \in DOMAIN transfer
  <2>1. PICK d, e, ids, others :
          /\ d = <<Detail("orig_id", <<id>>), Detail("new_id", <<new>>)>>
          /\ e = <<Detail("zone_src", <<from>>), Detail("zone_dest", <<to>>),
                   Detail("category", <<"Category">>)>>
          /\ ids = <<id>> /\ others = <<new>>
    OBVIOUS
  <2>2. d # <<>> /\ e # <<>>
    BY ONLY <2>1
  <2>3. rename = Annotation("ObjectIdChanged", ids, d)
        /\ transfer = Annotation("ZoneTransfer", others, e)
    BY <2>1 DEF Rename, Transfer
  <2> QED
    BY ONLY <2>2, <2>3, AnnotationTold
<1>5. PICK list, j : list = <<first, second>> /\ j = 2
  OBVIOUS
<1>6. tale = list
  BY <1>1, <1>5 DEF Told
<1>7. /\ j \in DOMAIN list /\ j \in Int /\ list[j] = second /\ list[1] = first
      /\ \A i \in DOMAIN list : list[i].type # "ObjectIdChanged" <=> i = j
  BY ONLY <1>2, <1>3, <1>5
<1>8. Story(list) = <<Happening(list[j])>>
  BY ONLY <1>7, StoryOne
<1>9. Annotates(both, 2)
  <2>1. list[1].type = "ObjectIdChanged" /\ list[1].old_id = id /\ list[1].new_id = new
        /\ list[2].type # "ObjectIdChanged"
    BY <1>2, <1>3, <1>5
  <2> QED
    BY <1>4, <1>6, <2>1 DEF Annotates
<1> QED
  BY <1>1, <1>2, <1>3, <1>6, <1>7, <1>8, <1>9

(* A move between any two zones, which gives the card a new id, keeps      *)
(* BInv.                                                                   *)
LEMMA MoveStep ==
  ASSUME IInv, BInv, NEW id \in Located(game), NEW to \in Zones, Move(id, to)
  PROVE  BInv'
<1>1. states # <<>>
  BY DEF Move, Playing
<1>2. PICK n, from, new, places, rest, happening :
        /\ n = Len(states) + 1 /\ from = ZoneOf(game, id)
        /\ new = Issued(n, CardOf(id))
        /\ places = {i \in DOMAIN game.zones[from] : game.zones[from][i] # id}
        /\ rest = At(game.zones[from], places)
        /\ happening = Moved(new, from, to)
  OBVIOUS
<1>3. PICK rename, transfer :
        rename = Rename(id, new) /\ transfer = Transfer(new, from, to)
  OBVIOUS
<1>4. PICK moved, g :
        /\ moved = [game EXCEPT
                      !.zones = [@ EXCEPT ![from] = rest,
                                          ![to] = <<new>> \o game.zones[to]],
                      !.attacking = @ \ {id},
                      !.granted = Without(@, {id})]
        /\ g = [moved EXCEPT !.story = Append(@, happening)]
  OBVIOUS
<1>5. /\ from # to
      /\ revealed' = IF to # Library \/ id \in revealed
                     THEN revealed \cup {new} ELSE revealed
      /\ Tell(g, DiffState(game, g, <<rename, transfer>>))
  BY <1>2, <1>3, <1>4 DEF Move, Step, Rename, Transfer, Moved
<1>6. /\ IsGame(game) /\ from \in Zones /\ id \in ToSet(game.zones[from])
      /\ Len(states) \in Nat /\ n \in Nat /\ id \in Nat
      /\ \A x \in Located(game) \cup revealed : x \in Nat /\ x < Issued(n, 0)
  BY <1>1, <1>2, LastState, IdsBefore, ZoneOfFacts
<1>7. /\ CardOf(new) = CardOf(id) /\ new \in Nat
      /\ Issued(n, 0) <= new /\ new < Issued(n + 1, 0)
  BY <1>2, <1>6, IssuedFacts
<1>8. rest \in Seq(Nat) /\ ToSet(rest) \subseteq ToSet(game.zones[from])
  <2>1. PICK s : s = game.zones[from]
    OBVIOUS
  <2>2. s \in Seq(Nat) /\ rest = At(s, places) /\ places \subseteq DOMAIN s
    BY <1>2, <1>6, <2>1 DEF IsGame
  <2>3. PICK k \in Nat : k = Len(s)
    BY <2>2
  <2>4. places \in SUBSET Int /\ IsFiniteSet(places)
    <3>1. PICK S : S = 1 .. k
      OBVIOUS
    <3>2. IsFiniteSet(S) /\ S \in SUBSET Int /\ places \subseteq S
      BY <2>2, <2>3, <3>1, FS_Interval
    <3> QED
      BY ONLY <3>2, FS_Subset
  <2>5. PICK c : c = Cardinality(places)
    OBVIOUS
  <2>6. /\ c \in Nat /\ rest = [i \in 1 .. c |-> rest[i]]
        /\ \A i \in 1 .. c : \E p \in places : rest[i] = s[p]
    <3>1. PICK r : r = At(s, places)
      OBVIOUS
    <3>2. /\ Cardinality(places) \in Nat
          /\ At(s, places) = [i \in 1 .. Cardinality(places) |-> At(s, places)[i]]
          /\ \A i \in 1 .. Cardinality(places) : \E p \in places : At(s, places)[i] = s[p]
      BY ONLY <2>4, AtFacts
    <3>3. /\ c \in Nat /\ r = [i \in 1 .. c |-> r[i]]
          /\ \A i \in 1 .. c : \E p \in places : r[i] = s[p]
      BY ONLY <2>5, <3>1, <3>2
    <3> QED
      BY <2>2, <3>1, <3>3
  <2>7. \A i \in 1 .. c : rest[i] \in Nat /\ rest[i] \in ToSet(s)
    BY <2>2, <2>6 DEF ToSet
  <2>8. rest \in Seq(Nat)
    BY ONLY <2>6, <2>7
  <2>9. ToSet(rest) \subseteq ToSet(s)
    <3>1. DOMAIN rest = 1 .. c
      BY <2>6
    <3> QED
      BY <2>7, <3>1 DEF ToSet
  <2> QED
    BY <2>1, <2>8, <2>9
<1>9. PICK put : put = <<new>> \o game.zones[to]
  OBVIOUS
<1>10. put \in Seq(Nat) /\ ToSet(put) = {new} \cup ToSet(game.zones[to])
  <2>1. PICK s : s = game.zones[to]
    OBVIOUS
  <2>2. s \in Seq(Nat) /\ put = <<new>> \o s
    BY <1>6, <1>9, <2>1 DEF IsGame
  <2>3. /\ put \in Seq(Nat) /\ DOMAIN put = 1 .. Len(s) + 1 /\ put[1] = new
        /\ Len(s) \in Nat /\ DOMAIN s = 1 .. Len(s)
        /\ \A i \in 1 .. Len(s) : put[i + 1] = s[i]
    BY <1>7, <2>2
  <2>4. \A i \in 1 .. Len(s) + 1 : i = 1 \/ i - 1 \in 1 .. Len(s)
    BY <2>3
  <2>5. \A i \in 1 .. Len(s) + 1 : put[i] = new \/ \E j \in 1 .. Len(s) : put[i] = s[j]
    <3> TAKE i \in 1 .. Len(s) + 1
    <3>1. CASE i = 1
      BY <2>3, <3>1
    <3>2. CASE i # 1
      <4>1. i - 1 \in 1 .. Len(s) /\ (i - 1) + 1 = i
        BY <2>3, <3>2
      <4> QED
        BY <2>3, <4>1
    <3> QED
      BY <3>1, <3>2
  <2>6. ToSet(put) \subseteq {new} \cup ToSet(s)
    <3>1. ASSUME NEW x \in ToSet(put) PROVE x \in {new} \cup ToSet(s)
      <4>1. PICK i \in 1 .. Len(s) + 1 : x = put[i]
        BY <2>3, <3>1 DEF ToSet
      <4>2. CASE x = new
        BY <4>2
      <4>3. CASE \E j \in 1 .. Len(s) : x = s[j]
        BY <2>3, <4>3 DEF ToSet
      <4> QED
        BY <2>5, <4>1, <4>2, <4>3
    <3> QED
      BY <3>1
  <2>7. {new} \cup ToSet(s) \subseteq ToSet(put)
    <3>1. 1 \in DOMAIN put /\ \A i \in DOMAIN s : i + 1 \in DOMAIN put
      BY <2>3
    <3> QED
      BY <2>3, <3>1 DEF ToSet
  <2> QED
    BY <2>1, <2>3, <2>6, <2>7
<1>11. /\ DOMAIN moved = DOMAIN game /\ DOMAIN moved.zones = Zones
       /\ moved.zones[from] = rest /\ moved.zones[to] = put
       /\ \A z \in Zones : z # from /\ z # to => moved.zones[z] = game.zones[z]
       /\ moved.granted = Without(game.granted, {id}) /\ moved.story = game.story
       /\ moved.turn = game.turn /\ moved.active = game.active
  <2>1. /\ moved = [game EXCEPT
                      !.zones = [@ EXCEPT ![from] = rest, ![to] = put],
                      !.attacking = @ \ {id},
                      !.granted = Without(@, {id})]
    BY <1>4, <1>5, <1>9
  <2>2. DOMAIN game = {"zones", "attacking", "granted", "story", "turn", "active"}
        /\ DOMAIN game.zones = Zones
    BY <1>6 DEF IsGame
  <2>3. PICK zones : zones = [game.zones EXCEPT ![from] = rest, ![to] = put]
    OBVIOUS
  <2>4. /\ DOMAIN moved = DOMAIN game /\ moved.zones = zones
        /\ moved.granted = Without(game.granted, {id}) /\ moved.story = game.story
        /\ moved.turn = game.turn /\ moved.active = game.active
    BY ONLY <2>1, <2>2, <2>3
  <2>5. /\ DOMAIN zones = Zones /\ zones[from] = rest /\ zones[to] = put
        /\ \A z \in Zones : z # from /\ z # to => zones[z] = game.zones[z]
    BY ONLY <1>5, <1>6, <2>2, <2>3, to \in Zones
  <2> QED
    BY <2>4, <2>5
<1>12. /\ DOMAIN moved.granted \subseteq DOMAIN game.granted
       /\ \A x \in DOMAIN moved.granted : moved.granted[x] = game.granted[x]
  BY <1>11 DEF Without
<1>13. IsGame(moved)
  <2>1. DOMAIN moved.granted \in SUBSET Nat /\ IsFiniteSet(DOMAIN moved.granted)
    BY <1>6, <1>12, FS_Subset DEF IsGame
  <2>2. \A z \in Zones : moved.zones[z] \in Seq(Nat)
    BY <1>6, <1>8, <1>10, <1>11 DEF IsGame
  <2> QED
    BY <1>6, <1>11, <2>1, <2>2 DEF IsGame
<1>14. /\ IsGame(g) /\ g.zones = moved.zones /\ g.granted = moved.granted
       /\ g.turn = game.turn /\ g.active = game.active
       /\ g.story = game.story \o <<happening>>
       /\ Located(g) = Located(moved)
  <2>1. g = [moved EXCEPT !.story = Append(@, happening)]
    BY <1>4
  <2>2. /\ IsGame(g) /\ g.zones = moved.zones /\ g.granted = moved.granted
        /\ g.turn = moved.turn /\ g.active = moved.active
        /\ g.story = moved.story \o <<happening>>
        /\ Located(g) = Located(moved)
    BY ONLY <1>13, <2>1, Storied
  <2> QED
    BY <1>11, <2>2
<1>15. Located(g) \subseteq Located(game) \cup {new}
  <2>1. \A z \in Zones : ToSet(moved.zones[z]) \subseteq Located(game) \cup {new}
    <3> TAKE z \in Zones
    <3>1. ToSet(game.zones[z]) \subseteq Located(game)
      BY DEF Located
    <3>2. ToSet(game.zones[from]) \subseteq Located(game)
      BY <1>6 DEF Located
    <3> QED
      BY <1>8, <1>10, <1>11, <3>1, <3>2
  <2> QED
    BY <1>14, <2>1 DEF Located
<1>16. PICK both, tale : both = <<rename, transfer>> /\ tale = Told(both)
  OBVIOUS
<1>17. /\ Annotates(both, 2) /\ Story(tale) = <<happening>>
       /\ tale[1].type = "ObjectIdChanged" /\ tale[1].old_id = id
       /\ tale[1].new_id = new
  BY ONLY <1>2, <1>3, <1>7, <1>16, MoveTold
<1>18. MayFollow(game, g) /\ Tells(g, both, 2)
  BY <1>11, <1>12, <1>14, <1>16, <1>17 DEF MayFollow, Tells
<1>19. PICK low, high : low = Issued(n, 0) /\ high = Issued(n + 1, 0)
  OBVIOUS
<1>20. /\ low \in Nat /\ high \in Nat /\ low < high /\ low <= new /\ new < high
       /\ \A x \in Located(game) \cup revealed : x \in Nat /\ x < low
       /\ Len(states) + 1 = n /\ Len(states) + 2 = n + 1
  BY <1>2, <1>6, <1>7, <1>19 DEF Issued
<1>21. \A x \in Located(game) \cup revealed : x < high /\ x # new
  BY <1>7, <1>20
<1>22. Reveals(g)
  <2>1. \A x \in Located(g) : x < high
    BY <1>15, <1>20, <1>21
  <2>2. revealed \subseteq revealed' /\ revealed' \subseteq revealed \cup {new}
    BY <1>5
  <2> QED
    BY <1>1, <1>7, <1>19, <1>20, <2>1, <2>2 DEF Reveals
<1>23. Traced(g, both, 2)
  <2>1. SUFFICES ASSUME NEW x \in Located(g) \cap revealed'
                 PROVE  \/ x \in Located(game) \cap revealed
                        \/ x \in ObjectsChanged(game, g)
                        \/ \E i \in 1 .. 2 : /\ tale[i].type = "ObjectIdChanged"
                                             /\ tale[i].new_id = x
                                             /\ tale[i].old_id \in Located(game) \cap revealed
    BY <1>16 DEF Traced
  <2>2. CASE x # new
    BY <1>5, <1>15, <2>1, <2>2
  <2>3. CASE x = new /\ id \in revealed
    BY <1>17, <2>3
  <2>4. CASE x = new /\ id \notin revealed
    <3>1. to # Library
      BY <1>5, <1>21, <2>1, <2>4
    <3>2. new \in Visible(g)
      BY <1>10, <1>11, <1>14, <3>1 DEF Visible, Zones
    <3>3. new \notin Visible(game)
      BY <1>6, <1>21, GameSets
    <3> QED
      BY <2>4, <3>2, <3>3 DEF ObjectsChanged
  <2> QED
    BY <2>2, <2>3, <2>4
<1>24. Tell(g, DiffState(game, g, both))
  BY <1>5, <1>16
<1> QED
  BY <1>1, <1>14, <1>18, <1>22, <1>23, <1>24, DiffTold

(* Every step keeps BInv.                                                  *)
LEMMA BInvStep == IInv /\ BInv /\ [Next]_vars => BInv'
<1> SUFFICES ASSUME IInv, BInv, [Next]_vars PROVE BInv'
  OBVIOUS
<1>1. CASE Start
  BY <1>1, StartStep
<1>2. CASE Shuffle
  BY <1>2, ShuffleStep
<1>3. CASE ChangeLife
  BY <1>3, LifeStep
<1>4. CASE NextTurn
  BY <1>4, TurnStep
<1>5. CASE Undo
  BY <1>5, UndoStep
<1>6. CASE Resend
  BY <1>6, ResendStep
<1>7. ASSUME NEW id \in Located(game), NEW to \in Zones, Move(id, to) PROVE BInv'
  BY <1>7, MoveStep
<1>8. ASSUME NEW id, ChangeCounters(id) PROVE BInv'
  BY <1>8, CountersStep
<1>9. ASSUME NEW id, GrantAbilities(id) PROVE BInv'
  BY <1>9, GrantStep
<1>10. ASSUME NEW id, Attack(id) PROVE BInv'
  BY <1>10, AttackStep
<1>11. CASE UNCHANGED vars
  BY <1>11 DEF vars, BInv, GamesKept, BoardKept, StoryKept, OnlyUndone, IdsIssued,
               NamesKept
<1> QED
  BY <1>1, <1>2, <1>3, <1>4, <1>5, <1>6, <1>7, <1>8, <1>9, <1>10, <1>11
     DEF Next, Terminated

-----------------------------------------------------------------------------
(* The theorems.                                                           *)

(* A consumer that was told the last state is told of the game as it is.   *)
LEMMA LastKnown ==
  ASSUME IInv, BInv, UpToDate
  PROVE  states # <<>> /\ consumer.last = Len(states) /\ game = states[consumer.last]
<1>1. PICK a, b : a = consumer.last /\ b = Len(states)
  OBVIOUS
<1>2. /\ b \in Nat /\ a \in 0 .. b /\ a + 1 .. b \subseteq lost /\ b \notin lost
      /\ states # <<>>
  BY <1>1 DEF IInv, LastTold, UpToDate
<1>3. a # b => b \in a + 1 .. b
  BY ONLY <1>2
<1>4. a = b
  BY <1>2, <1>3
<1> QED
  BY <1>1, <1>2, <1>4 DEF BInv, GamesKept

(* The consumer follows the last state told, which is the game's.          *)
LEMMA InvBoard == IInv /\ BInv => BoardIsGames
<1> SUFFICES ASSUME IInv, BInv, UpToDate, consumer.sync, ~lean
             PROVE
    /\ \A zone \in Zones :
         /\ zone \in DOMAIN consumer.zones
         /\ consumer.zones[zone].object_instance_ids = game.zones[zone]
    /\ DOMAIN consumer.objects = Visible(game)
    /\ \A id \in Visible(game) :
         /\ consumer.objects[id].grp_id = CardOf(id)
         /\ consumer.objects[id].zone_id = ZoneOf(game, id)
         /\ ("attack_state" \in DOMAIN consumer.objects[id])
              <=> id \in game.attacking
    /\ \A id \in DOMAIN game.granted :
         /\ id \in DOMAIN consumer.grants
         /\ get(consumer.grants[id], "granted_ability_grp_ids") = <<game.granted[id]>>
    /\ consumer.turn = game.turn
    /\ {t \in DOMAIN consumer.timers : "running" \in DOMAIN consumer.timers[t]}
         = (IF game.turn = 0 THEN {} ELSE {game.active})
  BY DEF BoardIsGames
<1>1. /\ consumer.zones = ZonesOf(game) /\ consumer.objects = ObjectsOf(game)
      /\ consumer.timers = TimersOf(game) /\ Keeps(GrantsOf(game), consumer.grants)
      /\ consumer.turn = game.turn /\ IsGame(game)
  BY LastKnown DEF BInv, BoardKept, Follows, GamesKept
<1>2. ASSUME NEW zone \in Zones
      PROVE  /\ zone \in DOMAIN consumer.zones
             /\ consumer.zones[zone].object_instance_ids = game.zones[zone]
  BY <1>1, ZoneTold DEF ZonesOf
<1>3. /\ DOMAIN consumer.objects = Visible(game)
      /\ \A id \in Visible(game) :
           consumer.objects[id] = extract_single_game_object(Object(game, id))
  BY <1>1 DEF ObjectsOf
<1>4. ASSUME NEW id \in Visible(game)
      PROVE  /\ consumer.objects[id].grp_id = CardOf(id)
             /\ consumer.objects[id].zone_id = ZoneOf(game, id)
             /\ ("attack_state" \in DOMAIN consumer.objects[id])
                  <=> id \in game.attacking
  BY <1>3, ObjectTold
<1>5. ASSUME NEW id \in DOMAIN game.granted
      PROVE  /\ id \in DOMAIN consumer.grants
             /\ get(consumer.grants[id], "granted_ability_grp_ids") = <<game.granted[id]>>
  <2>1. /\ id \in DOMAIN consumer.grants
        /\ consumer.grants[id] = extract_single_annotation(Grant(game, id))
    BY <1>1 DEF Keeps, GrantsOf
  <2> QED
    BY <2>1, GrantTold
<1>6. {t \in DOMAIN consumer.timers : "running" \in DOMAIN consumer.timers[t]}
        = (IF game.turn = 0 THEN {} ELSE {game.active})
  <2>1. \A t : "running" \in DOMAIN extract_single_timer(Timer(game, t))
                 <=> game.turn # 0 /\ game.active = t
    BY TimerTold
  <2>2. /\ DOMAIN consumer.timers = 1 .. 2
        /\ \A t \in 1 .. 2 : consumer.timers[t] = extract_single_timer(Timer(game, t))
    BY <1>1 DEF TimersOf
  <2>3. game.active \in 1 .. 2
    BY <1>1 DEF IsGame
  <2> QED
    BY <2>1, <2>2, <2>3
<1> QED
  BY <1>1, <1>2, <1>3, <1>4, <1>5, <1>6

(* The story of the last state told is the game's, if the consumer kept    *)
(* it.                                                                     *)
LEMMA InvStory == IInv /\ BInv => StoryIsGames
<1> SUFFICES ASSUME IInv, BInv, UpToDate, ~lean
             PROVE  /\ consumer.story \in {<<>>, <<game.story>>}
                    /\ OnlyUndone => consumer.story # <<>>
  BY DEF StoryIsGames, OnlyUndone
<1>1. states # <<>> /\ game = states[consumer.last]
  BY LastKnown
<1> QED
  BY <1>1 DEF BInv, StoryKept

(* The ids the consumer knows, and those revealed, have their cards.       *)
LEMMA InvCards == IInv /\ BInv => CardsFollowed
<1> SUFFICES ASSUME IInv, BInv PROVE CardsFollowed
  OBVIOUS
<1>1. \A id \in DOMAIN consumer.names : consumer.names[id] = CardOf(id)
  BY DEF BInv, NamesKept
<1>2. ASSUME ~lean, lost = {}
      PROVE  Located(game) \cap revealed \subseteq DOMAIN consumer.names
  <2>1. CASE states = <<>>
    BY <2>1 DEF BInv, IdsIssued
  <2>2. CASE states # <<>>
    BY <1>2, <2>2, LastState DEF BInv, NamesKept
  <2> QED
    BY <2>1, <2>2
<1> QED
  BY <1>1, <1>2 DEF CardsFollowed

(* Both invariants hold throughout.                                        *)
LEMMA InvAlways == Spec => [](IInv /\ BInv)
<1>1. Init => IInv /\ BInv
  BY InvInit, BInvInit
<1>2. IInv /\ BInv /\ [Next]_vars => IInv' /\ BInv'
  BY InvStep, BInvStep
<1> QED
  BY <1>1, <1>2, PTL DEF Spec

(* However long the game and whatever happens in it, a consumer that has   *)
(* applied every payload, or every one since a Full state, has the game's  *)
(* board, objects, granted abilities, turn and clock.                      *)
THEOREM BoardRebuilt == Spec => []BoardIsGames
BY InvAlways, InvBoard, PTL

(* What a consumer was told has happened is what has happened, in order    *)
(* and once, also after rollbacks; one that missed nothing knows it.       *)
THEOREM StoryTold == Spec => []StoryIsGames
BY InvAlways, InvStory, PTL

(* No id is ever taken for another card, and a card once revealed is known *)
(* under each id it has had since, if no state was missed.                 *)
THEOREM CardsTraced == Spec => []CardsFollowed
BY InvAlways, InvCards, PTL
=============================================================================

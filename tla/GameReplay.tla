----------------------------- MODULE GameReplay -----------------------------
(***************************************************************************)
(* What the GameState events of a game tell: the game (external) plays,    *)
(* and writes each new state, as a Full state or as the difference to the  *)
(* one before it; the log may have only a summary marker for a state.  A   *)
(* consumer (external) follows the game from the payloads alone: by        *)
(* prev_game_state_id it knows whether it missed a state.                  *)
(***************************************************************************)
EXTENDS GamePayload

CONSTANTS
  Cards,     \* the grpIds of the cards of the deck
  MaxState,  \* states of the game, at most
  MaxLost    \* states of which the log has only a marker, at most

ASSUME BoundsAssumption ==
  Cards \subseteq 1 .. 999 /\ MaxState \in Nat /\ MaxLost \in Nat

VARIABLES
  lean,      \* the cargo feature
  game,      \* the state of the game now
  revealed,  \* the instance ids whose card a player of seat 1 knows
  states,    \* history: the states of the game, by game state id
  whole,     \* history: what each Full state was for
  lost,      \* history: the ids of the states the log has no message of
  consumer   \* what the consumer knows

vars == <<lean, game, revealed, states, whole, lost, consumer>>

Library == 32
Hand == 31
Battlefield == 28
Zones == {Library, Hand, Battlefield}

(* An instance id is issued for a card by a state; which card it is, only  *)
(* the game can tell from it.                                              *)
Issued(id_of_state, c) == 1000 * id_of_state + c
CardOf(id) == id % 1000

ZoneOf(g, id) == CHOOSE zone \in Zones : id \in ToSet(g.zones[zone])
Located(g) == UNION {ToSet(g.zones[zone]) : zone \in Zones}
Visible(g) == ToSet(g.zones[Hand]) \cup ToSet(g.zones[Battlefield])

-----------------------------------------------------------------------------
(* The messages of the game.  Its JSON leaves out numbers that are 0,      *)
(* flags that are false and lists that are empty.                          *)

Number(key, n) == IF n = 0 THEN <<>> ELSE Field(key, n)
Items(key, list) == IF list = <<>> THEN <<>> ELSE Field(key, list)
Flag(key, flag) == IF flag THEN Field(key, TRUE) ELSE <<>>

Zone(g, zone) ==
  [zoneId |-> zone, type |-> "ZoneType", visibility |-> "Visibility"]
  ++ Number("ownerSeatId", IF zone = Battlefield THEN 0 ELSE 1)
  ++ Items("objectInstanceIds", g.zones[zone])

Object(g, id) ==
  [instanceId |-> id, grpId |-> CardOf(id), type |-> "GameObjectType_Card",
   zoneId |-> ZoneOf(g, id), ownerSeatId |-> 1, controllerSeatId |-> 1]
  ++ IF id \in g.attacking THEN [attackState |-> "AttackState_Declared"] ELSE <<>>

Timer(g, seat) ==
  [timerId |-> seat, type |-> "TimerType_ActivePlayer"]
  ++ Flag("running", g.turn # 0 /\ g.active = seat)

TurnInfo(g) == [activePlayer |-> g.active] ++ Number("turnNumber", g.turn)

Detail(key, values) == [key |-> key, values |-> values]

Annotation(type, affected, details) ==
  [id |-> 1, type |-> <<type>>, affectedIds |-> affected]
  ++ Items("details", details)

(* The abilities an object was granted are told by a persistent annotation *)
(* of two types.                                                           *)
Grant(g, id) ==
  [id |-> id, type |-> <<"AddAbility", "LayeredEffect">>,
   affectedIds |-> <<id>>, details |-> <<Detail("grpid", g.granted[id])>>]

FullState(g) ==
  [type |-> "GameStateType_Full", update |-> "GameStateUpdate_Send",
   gameStateId |-> Len(states) + 1,
   zones |-> [i \in 1 .. 3 |-> Zone(g, Ascending(Zones)[i])],
   timers |-> [seat \in 1 .. 2 |-> Timer(g, seat)],
   turnInfo |-> TurnInfo(g)]
  ++ Items("gameObjects", [i \in DOMAIN Ascending(Visible(g)) |->
                             Object(g, Ascending(Visible(g))[i])])
  ++ Items("persistentAnnotations",
           LET ids == Ascending(DOMAIN g.granted)
           IN  [i \in DOMAIN ids |-> Grant(g, ids[i])])

(* What is not as it was in the state before, `old'.                       *)
DiffState(old, g, annotations) ==
  LET zones   == Ascending({z \in Zones : old.zones[z] # g.zones[z]})
      objects == Ascending({id \in Visible(g) :
                           \/ id \notin Visible(old)
                           \/ Object(old, id) # Object(g, id)})
      grants  == Ascending(DOMAIN g.granted \ DOMAIN old.granted)
  IN  [type |-> "GameStateType_Diff", update |-> "GameStateUpdate_SendHiFi",
       gameStateId |-> Len(states) + 1, prevGameStateId |-> Len(states)]
      ++ Items("zones", [i \in DOMAIN zones |-> Zone(g, zones[i])])
      ++ Items("gameObjects", [i \in DOMAIN objects |-> Object(g, objects[i])])
      ++ Items("diffDeletedInstanceIds", Ascending(Visible(old) \ Visible(g)))
      ++ Items("annotations", annotations)
      ++ Items("persistentAnnotations",
               [i \in DOMAIN grants |-> Grant(g, grants[i])])
      ++ IF old.turn = g.turn THEN <<>>
         ELSE [turnInfo |-> TurnInfo(g),
               timers |-> [seat \in 1 .. 2 |-> Timer(g, seat)]]

-----------------------------------------------------------------------------
(* The consumer.                                                           *)

ByKey(elements, key) ==
  [k \in {elements[i][key] : i \in DOMAIN elements} |->
     elements[CHOOSE i \in DOMAIN elements : elements[i][key] = k]]

Without(f, keys) == [k \in DOMAIN f \ keys |-> f[k]]

(* What happened, as annotations tell it.                                  *)
Happening(a) ==
  CASE a.type = "ModifiedLife" -> <<a.type, a.affected_ids, a.life>>
    [] a.type \in {"CounterAdded", "CounterRemoved"} ->
         <<a.type, a.affected_ids, a.amount>>
    [] a.type = "ZoneTransfer" ->
         <<a.type, a.affected_ids, a.zone_src, a.zone_dest>>
    [] a.type = "Shuffle" -> <<a.type, a.affected_ids, a.old_ids, a.new_ids>>
    [] OTHER -> <<a.type, a.affected_ids>>

Story(annotations) ==
  Each(At(annotations, {i \in DOMAIN annotations :
                          annotations[i].type # "ObjectIdChanged"}), Happening)

(* A card is known by its id once its object was told; the id may change.  *)
Named(names, payload) ==
  LET objects == ByKey(payload.game_objects, "instance_id")
      changes == At(payload.annotations,
                    {i \in DOMAIN payload.annotations :
                       payload.annotations[i].type = "ObjectIdChanged"})
      renamed == {i \in DOMAIN changes : changes[i].old_id \in DOMAIN names}
  IN  [id \in DOMAIN objects |-> objects[id].grp_id]
      ++ [id \in {changes[i].new_id : i \in renamed} |->
            names[changes[CHOOSE i \in renamed : changes[i].new_id = id].old_id]]
      ++ names

(* The board after a payload that is the whole state, or the difference to *)
(* the one the consumer has.                                               *)
Replayed(payload, full) ==
  LET merged(old, elements, key) ==
        ByKey(elements, key) ++ (IF full THEN <<>> ELSE old)
  IN  [zones   |-> merged(consumer.zones, payload.zones, "zone_id"),
       objects |-> Without(merged(consumer.objects, payload.game_objects,
                                  "instance_id"),
                           ToSet(payload.diff_deleted_instance_ids)),
       timers  |-> merged(consumer.timers, payload.timers, "timer_id"),
       grants  |-> merged(consumer.grants, payload.persistent_annotations, "id"),
       names   |-> Named(consumer.names, payload)]

(* A rollback goes back to what had happened at an earlier state, if the   *)
(* consumer has it; another Full state does not tell what had happened.    *)
StoryAfter(payload, full, sync) ==
  IF "annotations" \notin DOMAIN payload \/ ~sync THEN <<>>
  ELSE IF ~full
  THEN IF consumer.story = <<>> THEN <<>>
       ELSE <<Head(consumer.story) \o Story(payload.annotations)>>
  ELSE IF payload.update = <<"GameStateUpdate_Undo">>
  THEN get(consumer.past, Head(payload.prev_game_state_id))
  ELSE IF payload.game_state_id = 1 THEN <<<<>>>> ELSE <<>>

Consume(payload) ==
  LET full  == payload.game_state_type = <<"GameStateType_Full">>
      sync  == \/ full
               \/ consumer.sync /\ payload.prev_game_state_id = <<consumer.last>>
      story == StoryAfter(payload, full, sync)
  IN  consumer' =
        [sync |-> sync, last |-> payload.game_state_id, story |-> story,
         past |-> IF story = <<>> THEN consumer.past
                  ELSE Field(payload.game_state_id, Head(story)) ++ consumer.past,
         turn |-> IF payload.turn_info = <<>> THEN consumer.turn
                  ELSE Head(payload.turn_info).turn_number]
        ++ IF lean THEN consumer ELSE Replayed(payload, full) ++ consumer

-----------------------------------------------------------------------------
NewGame ==
  [zones |-> [zone \in Zones |->
                IF zone = Library
                THEN [i \in 1 .. Cardinality(Cards) |-> Issued(1, Ascending(Cards)[i])]
                ELSE <<>>],
   attacking |-> {}, granted |-> <<>>, story |-> <<>>, turn |-> 0, active |-> 1]

Init ==
  /\ lean \in BOOLEAN
  /\ game = NewGame
  /\ revealed = {}
  /\ states = <<>>
  /\ whole = <<>>
  /\ lost = {}
  /\ consumer = [sync |-> FALSE, last |-> 0, story |-> <<>>, past |-> <<>>,
                 turn |-> 0, zones |-> <<>>, objects |-> <<>>, timers |-> <<>>,
                 grants |-> <<>>, names |-> <<>>]

(* The game comes to the state g and writes gsm.  Here every second state  *)
(* is a queued one.                                                        *)
Tell(g, gsm) ==
  /\ game' = g
  /\ states' = Append(states, g)
  /\ whole' = IF gsm.type = "GameStateType_Full"
              THEN Field(Len(states) + 1, gsm.update) ++ whole ELSE whole
  /\ \/ /\ Consume(build_game_state_message_payload(
              [type |-> IF Len(states) % 2 = 0 THEN "GameStateMessage"
                                              ELSE "QueuedGameStateMessage",
               gameStateId |-> Len(states) + 1, gameStateMessage |-> gsm], lean))
        /\ UNCHANGED lost
     \/ /\ Cardinality(lost) < MaxLost
        /\ lost' = lost \cup {Len(states) + 1}
        /\ UNCHANGED consumer
  /\ UNCHANGED lean

Start ==
  /\ states = <<>>
  /\ Tell(game, FullState(game))
  /\ UNCHANGED revealed

Playing == states # <<>> /\ Len(states) < MaxState

(* The state that follows, in which `happening' came about.                *)
Step(g, happening, annotations) ==
  LET new == [g EXCEPT !.story = Append(@, happening)]
  IN  Tell(new, DiffState(game, new, annotations))

(* A card moves and gets a new id; a draw takes the top of the library,    *)
(* and a card that is put back goes on top.                                *)
Move(id, to) ==
  LET from == ZoneOf(game, id)
      new  == Issued(Len(states) + 1, CardOf(id))
      rest == At(game.zones[from], {i \in DOMAIN game.zones[from] :
                                      game.zones[from][i] # id})
  IN  /\ Playing
      /\ from # to
      /\ from = Library => id = Head(game.zones[Library])
      /\ revealed' = IF to # Library \/ id \in revealed
                     THEN revealed \cup {new} ELSE revealed
      /\ Step([game EXCEPT !.zones = [@ EXCEPT ![from] = rest,
                                               ![to] = <<new>> \o game.zones[to]],
                           !.attacking = @ \ {id},
                           !.granted = Without(@, {id})],
              <<"ZoneTransfer", <<new>>, from, to>>,
              <<Annotation("ObjectIdChanged", <<id>>,
                           <<Detail("orig_id", <<id>>), Detail("new_id", <<new>>)>>),
                Annotation("ZoneTransfer", <<new>>,
                           <<Detail("zone_src", <<from>>),
                             Detail("zone_dest", <<to>>),
                             Detail("category", <<"Category">>)>>)>>)

(* A shuffle gives every card of the library a new id.                     *)
Shuffle ==
  /\ Playing
  /\ game.zones[Library] # <<>>
  /\ \E order \in SetToSeqs({CardOf(id) : id \in ToSet(game.zones[Library])}) :
       LET new == [i \in DOMAIN order |-> Issued(Len(states) + 1, order[i])]
       IN  Step([game EXCEPT !.zones = [@ EXCEPT ![Library] = new]],
                <<"Shuffle", <<1>>, game.zones[Library], new>>,
                <<Annotation("Shuffle", <<1>>,
                             <<Detail("OldIds", game.zones[Library]),
                               Detail("NewIds", new)>>)>>)
  /\ UNCHANGED revealed

(* A player loses or gains life, counters are put on an object or removed. *)
ChangeLife ==
  /\ Playing
  /\ \E change \in {-2, 1} :
       Step(game, <<"ModifiedLife", <<2>>, change>>,
            <<Annotation("ModifiedLife", <<2>>, <<Detail("life", <<change>>)>>)>>)
  /\ UNCHANGED revealed

ChangeCounters(id) ==
  /\ Playing
  /\ id \in ToSet(game.zones[Battlefield])
  /\ \E type \in {"CounterAdded", "CounterRemoved"} :
       Step(game, <<type, <<id>>, 2>>,
            <<Annotation(type, <<id>>, <<Detail("counter_type", <<1>>),
                                         Detail("transaction_amount", <<2>>)>>)>>)
  /\ UNCHANGED revealed

(* Two abilities at once.                                                  *)
GrantAbilities(id) ==
  LET new == [game EXCEPT !.granted = Field(id, <<8, 9>>) ++ @]
  IN  /\ Playing
      /\ id \in ToSet(game.zones[Battlefield]) \ DOMAIN game.granted
      /\ Tell(new, DiffState(game, new, <<>>))
      /\ UNCHANGED revealed

(* A creature attacks, or the combat is over.                              *)
Attack(id) ==
  LET attacking == IF id \in game.attacking THEN {} ELSE {id}
      new == [game EXCEPT !.attacking = attacking]
  IN  /\ Playing
      /\ id \in ToSet(game.zones[Battlefield])
      /\ Tell(new, DiffState(game, new, <<>>))
      /\ UNCHANGED revealed

(* The next turn begins, and the clock of the other player runs.           *)
NextTurn ==
  LET new == [game EXCEPT !.turn = @ + 1, !.active = 3 - @]
  IN  /\ Playing
      /\ Tell(new, DiffState(game, new, <<>>))
      /\ UNCHANGED revealed

(* A rollback to an earlier state, with a Full state that names it.        *)
Undo ==
  /\ Playing
  /\ \E k \in 1 .. Len(states) - 1 :
       Tell(states[k], [update |-> "GameStateUpdate_Undo", prevGameStateId |-> k]
                         ++ FullState(states[k]))
  /\ UNCHANGED revealed

(* The game sends the whole state again.                                   *)
Resend ==
  /\ Playing
  /\ Tell(game, FullState(game))
  /\ UNCHANGED revealed

Terminated == Len(states) = MaxState /\ UNCHANGED vars

Next ==
  \/ Start \/ Shuffle \/ ChangeLife \/ NextTurn \/ Undo \/ Resend \/ Terminated
  \/ \E id \in Located(game) :
       \/ \E to \in Zones : Move(id, to)
       \/ ChangeCounters(id) \/ GrantAbilities(id) \/ Attack(id)

Spec == Init /\ [][Next]_vars

-----------------------------------------------------------------------------
(* The consumer was told the state the game is in.                         *)
UpToDate == states # <<>> /\ Len(states) \notin lost

(* A state is missing since the last Full state that was told.             *)
Gap == \E k \in lost : \A f \in DOMAIN whole \ lost : f < k

(* By prev_game_state_id a consumer knows exactly when a state is missing, *)
(* with `lean' or without (game_state.rs:54-58); a rollback is no gap.     *)
MissedStatesNoticed == UpToDate => (consumer.sync <=> ~Gap)

(* As long as no state is missing, what the consumer has built from the    *)
(* differences is the game: the ids in each zone, also in one that was     *)
(* emptied, the objects without those that left, attackers, the abilities  *)
(* granted, the turn and the clock that runs.                              *)
BoardIsGames ==
  UpToDate /\ consumer.sync /\ ~lean =>
    /\ \A zone \in Zones :
         /\ zone \in DOMAIN consumer.zones
         /\ consumer.zones[zone].object_instance_ids = game.zones[zone]
    /\ DOMAIN consumer.objects = Visible(game)
    /\ \A id \in Visible(game) :
         /\ consumer.objects[id].grp_id = CardOf(id)
         /\ consumer.objects[id].zone_id = ZoneOf(game, id)
         /\ ("attack_state" \in DOMAIN consumer.objects[id])
              <=> id \in game.attacking
    /\ \A id \in DOMAIN game.granted :
         /\ id \in DOMAIN consumer.grants
         /\ get(consumer.grants[id], "granted_ability_grp_ids") = <<game.granted[id]>>
    /\ consumer.turn = game.turn
    /\ {t \in DOMAIN consumer.timers : "running" \in DOMAIN consumer.timers[t]}
         = (IF game.turn = 0 THEN {} ELSE {game.active})

(* What happened on the way is told once, in order and in full; after a    *)
(* rollback it is what had happened by the state the game went back to,    *)
(* although more was told since.  A consumer that missed no state, and was *)
(* sent no Full state but the first and those of rollbacks, has it all.    *)
StoryIsGames ==
  UpToDate /\ ~lean =>
    /\ consumer.story \in {<<>>, <<game.story>>}
    /\ lost = {} /\ (\A f \in DOMAIN whole \ {1} : whole[f] = "GameStateUpdate_Undo")
         => consumer.story # <<>>

(* A card that was shown is followed through its changes of id, also where *)
(* it is hidden; no id is ever taken for another card.                     *)
CardsFollowed ==
  /\ \A id \in DOMAIN consumer.names : consumer.names[id] = CardOf(id)
  /\ ~lean /\ lost = {} =>
       Located(game) \cap revealed \subseteq DOMAIN consumer.names
=============================================================================

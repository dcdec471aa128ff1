------------------------------ MODULE MatchLog ------------------------------
(***************************************************************************)
(* What a consumer learns of a session: the game (external) plays matches  *)
(* and writes them to its log, the router makes events of the entries.     *)
(* The pipeline between log and consumer keeps order and loses nothing     *)
(* (EventStream), so an entry is routed when it is written.                *)
(*                                                                         *)
(* The game collects the messages of its server in a bundle and writes it  *)
(* as one entry (WriteBundle), or only a marker if the bundle is too large *)
(* (SummarizeBundle).  A match is one game or more; each game ends with a  *)
(* GameComplete message, the match with a MatchComplete message after it.  *)
(***************************************************************************)
EXTENDS Router

CONSTANTS
  Forms,       \* the other entries the game may write, see Documented
  MaxStates,   \* GameStateMessages during games
  MaxMinor,    \* messages of other types
  MaxGames,    \* games of the match
  MaxBundle,   \* messages of one entry
  MaxOthers    \* entries of Forms

ASSUME BoundsAssumption ==
  /\ MaxStates \in Nat /\ MaxMinor \in Nat /\ MaxGames \in Nat
  /\ MaxBundle \in Nat /\ MaxOthers \in Nat

(* Forms are entries of the other parsers.                                 *)
ASSUME FormsAssumption ==
  \A form \in Forms :
    /\ form.header # "TruncationMarker"
    /\ form.msgs = <<>> /\ form.lost = <<>> /\ form.courses \in Seq(BOOLEAN)

VARIABLES
  seat,      \* the local player's
  phase,     \* "lobby", "playing", "between" games, "done"
  winners,   \* of the games that are over
  last_id,   \* gameStateId of the last state
  used,      \* messages of each bounded sort so far
  bundle,    \* the messages collected for the next entry
  log,       \* history: entries written, with the messages left out (`lost')
  events,    \* history: what route() returned
  counted    \* history: entries written before the last reset()

vars ==
  <<stats, seat, phase, winners, last_id, used, bundle, log, events, counted>>

Seats == {1, 2}
Opponent == 3 - seat

Init ==
  /\ stats = NewStats
  /\ seat \in Seats
  /\ phase \in {"lobby", "playing"}  \* the log may begin in a game
  /\ winners = <<>>
  /\ last_id = 0
  /\ used = [states |-> 0, minor |-> 0, others |-> 0]
  /\ bundle = <<>>
  /\ log = <<>>
  /\ events = <<>>
  /\ counted = 0

-----------------------------------------------------------------------------
IsState(msg) == msg.type \in GSM_TYPES

Message(type, seats) ==
  [type |-> type, seats |-> seats, id |-> 0, stage |-> "none",
   match_state |-> "none", results |-> <<>>, annotated |-> FALSE]

GameResults ==
  [i \in DOMAIN winners |->
     [scope |-> "MatchScope_Game", winningTeamId |-> winners[i]]]

(* A state is addressed to the local player; beside a ConnectResp it may   *)
(* be addressed to the opponent alone.                                     *)
StateSeats ==
  {<<seat>>} \cup
  (IF find_message_by_type(bundle, "ConnectResp") # 0 THEN {<<Opponent>>} ELSE {})

Receive(message) ==
  /\ Len(bundle) < MaxBundle
  /\ bundle' = Append(bundle, message)
  /\ UNCHANGED <<stats, seat, log, events, counted>>

StartGame ==
  /\ \/ phase = "lobby"
     \/ phase = "between" /\ Len(winners) < MaxGames
  /\ phase' = "playing"
  /\ Receive(Message("ConnectResp", <<1, 2>>))
  /\ UNCHANGED <<winners, last_id, used>>

State ==
  /\ phase = "playing"
  /\ used.states < MaxStates
  /\ used' = [used EXCEPT !.states = @ + 1]
  /\ last_id' = last_id + 1
  /\ \E type \in GSM_TYPES, seats \in StateSeats :
       Receive([Message(type, seats) EXCEPT !.id = last_id + 1,
                                            !.stage = "Play",
                                            !.results = GameResults])
  /\ UNCHANGED <<phase, winners>>

(* A request to the local player, the die roll, a settings acknowledgment, *)
(* an emote, the turn timer.                                               *)
Minor ==
  /\ phase \in {"playing", "between"}
  /\ used.minor < MaxMinor
  /\ used' = [used EXCEPT !.minor = @ + 1]
  /\ \/ Receive(Message("MulliganReq", <<seat>>))
     \/ Receive(Message("DieRollResultsResp", <<1, 2>>))
     \/ \E type \in ToSet(NOISE_MESSAGE_TYPES) :
          Receive(Message(type, <<Opponent>>))
  /\ UNCHANGED <<phase, winners, last_id>>

EndGame ==
  /\ phase = "playing"
  /\ phase' = "between"
  /\ last_id' = last_id + 1
  /\ \E winner \in {1, 2}, annotated \in BOOLEAN :
       /\ winners' = Append(winners, winner)
       /\ Receive([Message("GameStateMessage", <<seat>>) EXCEPT
                     !.id = last_id + 1,
                     !.stage = "GameOver", !.match_state = "GameComplete",
                     !.results = GameResults', !.annotated = annotated])
  /\ UNCHANGED used

EndMatch ==
  /\ phase = "between"
  /\ phase' = "done"
  /\ last_id' = last_id + 1
  /\ \E seats \in {<<seat>>, <<1, 2>>} :
       Receive([Message("GameStateMessage", seats) EXCEPT
                  !.id = last_id + 1,
                  !.stage = "GameOver", !.match_state = "MatchComplete",
                  !.results = Append(GameResults,
                    [scope |-> "MatchScope_Match",
                     winningTeamId |-> Last(winners)])])
  /\ UNCHANGED <<winners, used>>

-----------------------------------------------------------------------------
(* An entry; `documented' are the kinds of the events that the docs of the *)
(* parsers promise for it.                                                 *)
Entry(header, has, json, keys, documented) ==
  [header |-> header, dated |-> header = "UnityCrossThreadLogger",
   has |-> has, json |-> json, keys |-> keys, msgs |-> <<>>,
   courses |-> <<>>, lost |-> <<>>, documented |-> documented]

Write(entry) ==
  /\ route(entry)
  /\ events' = events \o dispatch_to_parsers(entry)
  /\ log' = Append(log, entry)

WriteBundle ==
  /\ bundle # <<>>
  /\ bundle' = <<>>
  /\ Write([Entry("UnityCrossThreadLogger", {<<"text", "greToClientEvent">>},
                  "ok", {}, <<>>) EXCEPT !.msgs = bundle])
  /\ UNCHANGED <<seat, phase, winners, last_id, used, counted>>

SummarizeBundle ==
  /\ \E msg \in ToSet(bundle) : IsState(msg)
  /\ bundle' = <<>>
  /\ Write([Entry("TruncationMarker",
                  {<<"text", "GameObject Count">>, <<"text", "Annotation Count">>},
                  "none", {}, <<>>) EXCEPT !.lost = bundle])
  /\ UNCHANGED <<seat, phase, winners, last_id, used, counted>>

WriteOther ==
  /\ phase = "lobby"
  /\ used.others < MaxOthers
  /\ used' = [used EXCEPT !.others = @ + 1]
  /\ \E entry \in Forms : Write(entry)
  /\ UNCHANGED <<seat, phase, winners, last_id, bundle, counted>>

(* The host reads the counters and starts them anew.                       *)
ResetStats ==
  /\ phase = "lobby"
  /\ counted < Len(log)
  /\ stats' = NewStats
  /\ counted' = Len(log)
  /\ UNCHANGED <<seat, phase, winners, last_id, used, bundle, log, events>>

(* The match is over and written.                                          *)
Terminated ==
  /\ phase = "done" /\ bundle = <<>>
  /\ UNCHANGED vars

Next ==
  \/ StartGame \/ State \/ Minor \/ EndGame \/ EndMatch
  \/ WriteBundle \/ SummarizeBundle \/ WriteOther \/ ResetStats
  \/ Terminated

Spec == Init /\ [][Next]_vars

-----------------------------------------------------------------------------
(* The messages the log holds, and those it has only a marker for.         *)
Logged == UNION {ToSet(log[i].msgs) : i \in DOMAIN log}
Lost == UNION {ToSet(log[i].lost) : i \in DOMAIN log}

IsStateEvent(event) == event.kind = "GameState" /\ event.type \in GSM_TYPES

Told(kind) == {i \in DOMAIN events : events[i].kind = kind}
ToldStates == {i \in DOMAIN events : IsStateEvent(events[i])}

(* However the game bundles its messages, a consumer gets every state the  *)
(* log holds, once and in the order of the game, except the ends of games  *)
(* that carry no annotation and the end of the match (gre/mod.rs:146-284). *)
StatesInOrder ==
  LET news == {msg \in Logged :
                 \/ msg.stage = "Play"
                 \/ msg.match_state = "GameComplete" /\ msg.annotated}
  IN  /\ {events[i].game_state_id : i \in ToldStates} = {msg.id : msg \in news}
      /\ \A i, j \in ToldStates :
           i < j => events[i].game_state_id < events[j].game_state_id

(* The messages that end a game.                                           *)
GameEnds == {msg \in Logged : msg.match_state = "GameComplete"}

(* One GameResult for each game whose end the log holds, with the winner   *)
(* of that game, although the results of the games before it, and a second *)
(* GameOver message after it, are in the log too (gre/mod.rs:31-37,        *)
(* game_result.rs:87-98).                                                  *)
OneResultPerGame ==
  LET game(i) == Len(events[i].results)
  IN  /\ {game(i) : i \in Told("GameResult")}
           = {Len(msg.results) : msg \in GameEnds}
      /\ \A i, j \in Told("GameResult") : i < j => game(i) < game(j)
      /\ \A i \in Told("GameResult") :
           events[i].winning_team_id = winners[game(i)]

(* The annotations that end a game reach the consumer right before its     *)
(* result (gre/mod.rs:238-244).                                            *)
KillingBlowFirst ==
  \A i \in Told("GameResult"), msg \in GameEnds :
    msg.annotated /\ msg.results = events[i].results =>
      /\ i - 1 \in ToldStates
      /\ events[i - 1].game_state_id = msg.id
      /\ events[i - 1].annotated

(* The end of a game is told: once, with its winner, right after the state *)
(* that shows it (gre/mod.rs:31-37, 238-244).                              *)
GameEndTold == OneResultPerGame /\ KillingBlowFirst

(* A LocalSeat never names the opponent's seat, although messages to the   *)
(* opponent alone are in the log (gre/mod.rs:313-338).                     *)
SeatIsLocal == \A i \in Told("LocalSeat") : events[i].seat = seat

(* Without any ConnectResp in the log the consumer knows the seat as soon  *)
(* as a game message to the local player is in it (gre/mod.rs:204-213).    *)
SeatRecovered ==
  /\ ~\E msg \in Logged : msg.type = "ConnectResp"
  /\ \E msg \in Logged :
       msg.seats = <<seat>> /\ msg.type \notin ToSet(NOISE_MESSAGE_TYPES)
  => Told("LocalSeat") # {}

(* The consumer learns the seat of the local player, as soon as the log    *)
(* tells it, and no other (gre/mod.rs:204-213, 313-338).                   *)
LocalSeatTold == SeatIsLocal /\ SeatRecovered

(* If the log only marks a state, and the consumer has states from before  *)
(* and after it, a Truncation event stands between them                    *)
(* (truncation.rs:23-25).                                                  *)
GapsMarked ==
  \A msg \in {m \in Lost : IsState(m)}, i, j \in ToldStates :
    /\ events[i].game_state_id < msg.id
    /\ msg.id < events[j].game_state_id
    => \E t \in Told("Truncation") : i < t /\ t < j

(* What tells of a message if nothing richer is in its entry.              *)
IsNoise(msg) == msg.type \in ToSet(NOISE_MESSAGE_TYPES)
IsRich(msg) == \/ msg.type = "ConnectResp"
               \/ IsState(msg) /\ msg.match_state # "MatchComplete"

IsMarker(event) ==
  event.kind = "GameState" /\ event.type \in ToSet(NOISE_MESSAGE_TYPES)

OnlyNoise(entry) == /\ \E msg \in ToSet(entry.msgs) : IsNoise(msg)
                    /\ ~\E msg \in ToSet(entry.msgs) : IsRich(msg)

(* An entry that has noise, and nothing richer, is marked as such, once;   *)
(* no other entry is, and a seat beside it changes nothing                 *)
(* (gre/mod.rs:186-203).                                                   *)
NoiseMarked ==
  Cardinality({i \in DOMAIN events : IsMarker(events[i])})
    = Cardinality({i \in DOMAIN log : OnlyNoise(log[i])})

(* An entry of which nobody is told: requests and notices without a seat,  *)
(* the end of a match, bare markers, ignored responses.                    *)
Untold(entry) ==
  /\ entry.documented = <<>>
  /\ entry.lost = <<>>
  /\ ~\E msg \in ToSet(entry.msgs) :
        IsRich(msg) \/ IsNoise(msg) \/ msg.seats = <<seat>>

(* Since the last reset these are the entries counted as unknown, and the  *)
(* others as routed (router.rs:41-83).                                     *)
UnknownCounted ==
  /\ stats.unknown = Cardinality({i \in counted + 1 .. Len(log) : Untold(log[i])})
  /\ stats.routed = Len(log) - counted - stats.unknown

(* No entry is dropped without a trace: it yields an event, its noise a    *)
(* marker, or it is counted as unknown (gre/mod.rs:186-203,                *)
(* router.rs:41-83).                                                       *)
EntriesAccounted == NoiseMarked /\ UnknownCounted

(* The kinds of the events that are not of GRE, in order.                  *)
OtherKindsTold(evs) ==
  LET ofGre == {"GameState", "GameResult", "LocalSeat", "Truncation"}
  IN  FlattenSeq([i \in DOMAIN evs |->
        IF evs[i].kind \in ofGre THEN <<>> ELSE <<evs[i].kind>>])

(* Each entry other than those of GRE yields the events its parser's docs  *)
(* promise: one for a request and none for the response that only confirms *)
(* it, none for a bare marker and one for the line after it, and so on.    *)
AsDocumented ==
  OtherKindsTold(events)
    = FlattenSeq([i \in DOMAIN log |-> log[i].documented])

(* "<== StartHook responses contain both InventoryInfo and                 *)
(* Decks/DeckSummaries, so the inventory and collection parsers            *)
(* legitimately claim the same entry -- each extracting different data"    *)
(* (tests/smoke_parsers.rs:307-309).                                       *)
StartHookTellsInventory ==
  \A i \in DOMAIN log :
    /\ is_api_response(log[i], "StartHook") /\ Parsed(log[i])
    /\ "InventoryInfo" \in log[i].keys
    => \E k \in DOMAIN events : events[k].kind = "Inventory"
=============================================================================

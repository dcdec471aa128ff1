-------------------------------- MODULE Gre --------------------------------
(***************************************************************************)
(* parsers/gre: the events that one greToClientEvent entry yields.  A      *)
(* message of the entry is a record                                        *)
(*   type, seats   the wrapper's type and systemSeatIds                    *)
(*   id            gameStateId                                             *)
(*   stage, match_state, results   of gameInfo; a result has a scope and a *)
(*                 winningTeamId                                           *)
(*   annotated     annotations or persistentAnnotations is not empty       *)
(* and what a payload builder copies is kept as far as a property needs    *)
(* it.                                                                     *)
(***************************************************************************)
EXTENDS Integers, SequencesExt

GSM_TYPES == {"GameStateMessage", "QueuedGameStateMessage"}

(* In the order in which the fallback of try_parse looks for them.         *)
NOISE_MESSAGE_TYPES ==
  <<"UIMessage", "TimerStateMessage", "SetSettingsResp">>

is_game_over(msg) == msg.stage = "GameOver"
is_match_complete(msg) == msg.match_state = "MatchComplete"
has_annotation_data(msg) == msg.annotated

(* Mutant: the search starts at the front.                                 *)
FirstGameResult(results) ==
  SelectInSeq(results, LAMBDA r : r.scope = "MatchScope_Game")

(* The latest result of a single game, 0 if there is none.                 *)
game_scope_result(results) ==
  SelectLastInSeq(results, LAMBDA r : r.scope = "MatchScope_Game")

connect_resp(msg) ==
  [kind |-> "GameState", type |-> "connect_resp", system_seat_ids |-> msg.seats]

game_state_message(msg) ==
  [kind |-> "GameState", type |-> msg.type, game_state_id |-> msg.id,
   results |-> msg.results, annotated |-> msg.annotated]

game_result(msg) ==
  LET latest == game_scope_result(msg.results)
  IN  [kind |-> "GameResult", results |-> msg.results,
       winning_team_id |->
         IF latest = 0 THEN 0 ELSE msg.results[latest].winningTeamId]

recognized_type(type) == [kind |-> "GameState", type |-> type]

local_seat(seat) == [kind |-> "LocalSeat", seat |-> seat]

(* Of the two GameOver messages that end a match, the MatchComplete one    *)
(* yields nothing.                                                         *)
emit_gsm_events(msg) ==
  IF msg.type \notin GSM_TYPES THEN <<>>
  ELSE IF ~is_game_over(msg) THEN <<game_state_message(msg)>>
  ELSE IF is_match_complete(msg) THEN <<>>
  ELSE IF has_annotation_data(msg)
       THEN <<game_state_message(msg), game_result(msg)>>
  ELSE <<game_result(msg)>>

(* Position of the first message of a type, 0 if there is none.            *)
find_message_by_type(messages, type) ==
  SelectInSeq(messages, LAMBDA msg : msg.type = type)

(* Mutant: a sibling of a ConnectResp names the seat.                      *)
SeatOfAnyMessage(messages) ==
  SelectInSeq(messages, LAMBDA msg :
    msg.type \notin ToSet(NOISE_MESSAGE_TYPES) /\ Len(msg.seats) = 1)

(* Position of the message that tells the local seat: the first one that   *)
(* is addressed to one seat and is no noise, unless a ConnectResp speaks   *)
(* for the entry.                                                          *)
find_local_seat(messages) ==
  IF find_message_by_type(messages, "ConnectResp") # 0 THEN 0
  ELSE SelectInSeq(messages, LAMBDA msg :
         /\ msg.type \notin ToSet(NOISE_MESSAGE_TYPES)
         /\ Len(msg.seats) = 1)

(* Mutant: the siblings of a ConnectResp are dropped.                      *)
ConnectRespAlone(messages) ==
  LET connect == find_message_by_type(messages, "ConnectResp")
  IN  IF connect # 0 THEN <<connect_resp(messages[connect])>>
      ELSE FlattenSeq([i \in DOMAIN messages |-> emit_gsm_events(messages[i])])

(* The ConnectResp first, then every state message in the order of the     *)
(* array.                                                                  *)
RichEvents(messages) ==
  LET connect == find_message_by_type(messages, "ConnectResp")
  IN  (IF connect = 0 THEN <<>> ELSE <<connect_resp(messages[connect])>>)
      \o FlattenSeq([i \in DOMAIN messages |-> emit_gsm_events(messages[i])])

(* Mutant: the seat is taken for the claim, and the noise is left out.     *)
NoiseUnlessSeat(messages) ==
  LET noise == SelectInSeq(NOISE_MESSAGE_TYPES, LAMBDA type :
                 find_message_by_type(messages, type) # 0)
  IN  IF noise = 0 \/ RichEvents(messages) # <<>> \/ find_local_seat(messages) # 0
      THEN <<>> ELSE <<recognized_type(NOISE_MESSAGE_TYPES[noise])>>

(* The first noise type, in the order of the list, of which a message is   *)
(* there; only for an entry that has yielded nothing.                      *)
NoiseEvents(messages) ==
  LET noise == SelectInSeq(NOISE_MESSAGE_TYPES, LAMBDA type :
                 find_message_by_type(messages, type) # 0)
  IN  IF noise = 0 \/ RichEvents(messages) # <<>> THEN <<>>
      ELSE <<recognized_type(NOISE_MESSAGE_TYPES[noise])>>

SeatEvents(messages) ==
  LET seat == find_local_seat(messages)
  IN  IF seat = 0 THEN <<>> ELSE <<local_seat(messages[seat].seats[1])>>

gre_try_parse(messages) ==
  RichEvents(messages) \o NoiseEvents(messages) \o SeatEvents(messages)
=============================================================================

----------------------------- MODULE RunPayload -----------------------------
(***************************************************************************)
(* What the events tell of a run in an event of Magic: the parsers of      *)
(* drafts, decks, courses, event calls and matches.  An entry is a call    *)
(* (direction, method, JSON).  JSON escaped in a string is the record      *)
(* [escaped |-> object].                                                   *)
(***************************************************************************)
EXTENDS Integers, SequencesExt, JsonValue

is_api_request(entry, method) == entry.direction = "==>" /\ entry.method = method
is_api_response(entry, method) == entry.direction = "<==" /\ entry.method = method

parse_nested_json(value, field) ==
  IF field \in DOMAIN value /\ "escaped" \in DOMAIN value[field]
  THEN <<value[field].escaped>> ELSE <<>>

(* Event names are at the top, in a Course or PickInfo, or the same in a   *)
(* request; one request does not hold another.                             *)
NameIn(value) ==
  LET top == or_else(get(value, "EventName"), get(value, "InternalEventName"))
      inner(field) == or_else(and_get(get(value, field), "InternalEventName"),
                              and_get(get(value, field), "EventName"))
  IN  or_else(top, or_else(inner("Course"), inner("PickInfo")))

extract_event_name(value) ==
  LET request == parse_nested_json(value, "request")
  IN  unwrap_or(or_else(NameIn(value),
                        IF request = <<>> THEN <<>> ELSE NameIn(Head(request))), "")

(* Mutant: the cards as they come.                                         *)
Unsorted(maindeck) ==
  IF maindeck = <<>> THEN <<>>
  ELSE <<[i \in DOMAIN maindeck |-> <<maindeck[i].cardId, maindeck[i].quantity>>]>>

(* The hash stands for what is hashed: the pairs of card and quantity, in  *)
(* ascending order.  All or nothing.                                       *)
maindeck_hash(maindeck) ==
  IF \/ maindeck = <<>>
     \/ \E i \in DOMAIN maindeck :
          ~({"cardId", "quantity"} \subseteq DOMAIN maindeck[i])
  THEN <<>>
  ELSE <<SortSeq([i \in DOMAIN maindeck |-> <<maindeck[i].cardId, maindeck[i].quantity>>],
                 LAMBDA p, q : p[1] < q[1] \/ (p[1] = q[1] /\ p[2] < q[2]))>>

extract_format_attribute(summary) ==
  LET formats == SelectSeq(unwrap_or(get(summary, "Attributes"), <<>>),
                           LAMBDA attribute : get(attribute, "name") = <<"Format">>)
  IN  IF formats = <<>> THEN <<>> ELSE get(Head(formats), "value")

(* (The payload of a course calls the last one "format".)                  *)
SummaryFields(summary) ==
  [deck_id |-> and_get(summary, "DeckId"), name |-> and_get(summary, "Name"),
   deck_format |-> IF summary = <<>> THEN <<>>
                   ELSE extract_format_attribute(Head(summary))]

-----------------------------------------------------------------------------
(* Drafts.  The ids of cards are numbers here; in the log also strings.    *)

Numbered(object) == Copied(object, [pack_number |-> Num("PackNumber"),
                                    pick_number |-> Num("PickNumber")])

(* bot.rs: a pack, in the response to a status request or a pick.          *)
try_parse_pack_presentation(entry) ==
  LET parsed == parse_nested_json(entry.json, "Payload")
  IN  IF /\ \/ is_api_response(entry, "BotDraftDraftStatus")
            \/ is_api_response(entry, "BotDraftDraftPick")
         /\ and_get(parsed, "DraftStatus") = <<"PickNext">>
      THEN <<[type |-> "draft_bot_pack",
              event_name |-> extract_event_name(Head(parsed)),
              draft_pack |-> unwrap_or(and_get(parsed, "DraftPack"), <<>>)]
             ++ Numbered(Head(parsed))>>
      ELSE <<>>

(* bot.rs: a pick, in the request.                                         *)
try_parse_draft_pick(entry) ==
  LET parsed == parse_nested_json(entry.json, "request")
      pick_info == and_get(parsed, "PickInfo")
      card_ids == unwrap_or(and_get(pick_info, "CardIds"), <<>>)
  IN  IF /\ is_api_request(entry, "BotDraftDraftPick")
         /\ card_ids # <<>>
         /\ Head(card_ids) # 0
      THEN <<[type |-> "draft_bot_pick", card_id |-> Head(card_ids),
              event_name |-> extract_event_name(Head(parsed))]
             ++ Numbered(Head(pick_info))>>
      ELSE <<>>

(* human.rs: a pack, in a notification.                                    *)
try_parse_draft_notify(entry) ==
  IF /\ entry.method = "Draft.Notify"
     /\ {"PackCards", "SelfPack"} \cap DOMAIN entry.json # {}
  THEN <<[type |-> "draft_human_notify"]
         ++ Copied(entry.json,
              [draft_id |-> Text("draftId"), pack_number |-> Num("SelfPack"),
               pick_number |-> Num("SelfPick"), pack_cards |-> List("PackCards")])>>
  ELSE <<>>

(* Mutant: only the names of a PickInfo.                                   *)
LongNamesOnly(pick_info) == Numbered(pick_info)

PickNumbers(pick_info) ==
  LET number(long, short) ==
        unwrap_or(or_else(get(pick_info, long), get(pick_info, short)), 0)
  IN  [pack_number |-> number("PackNumber", "Pack"),
       pick_number |-> number("PickNumber", "Pick")]

(* human.rs: a pick, in a request or a line without direction.             *)
try_parse_make_pick(entry) ==
  LET parsed == entry.json
      pick_info == unwrap_or(get(parsed, "PickInfo"),
                     unwrap_or(parse_nested_json(parsed, "request"), parsed))
      draft_id(object) == or_else(get(object, "DraftId"), get(object, "draftId"))
      grp_ids == unwrap_or(get(pick_info, "GrpIds"), <<>>)
      card == or_else(get(pick_info, "CardId"),
                      IF grp_ids = <<>> THEN <<>> ELSE <<Head(grp_ids)>>)
  IN  IF /\ entry.method = "EventPlayerDraftMakePick"
         /\ ~is_api_response(entry, "EventPlayerDraftMakePick")
         /\ card # <<>>
      THEN <<[type |-> "draft_human_pick", card_id |-> Head(card),
              draft_id |-> unwrap_or(or_else(draft_id(pick_info), draft_id(parsed)), ""),
              event_name |-> unwrap_or(or_else(get(parsed, "EventName"),
                                               get(pick_info, "EventName")), ""),
              card_ids |-> unwrap_or(get(pick_info, "CardIds"), <<>>)]
             ++ PickNumbers(pick_info)>>
      ELSE <<>>

(* complete.rs: the request has its id, the response one in its header.    *)
draft_complete(entry) ==
  LET id == or_else(get(entry.json, "DraftId"),
              or_else(get(entry.json, "draftId"),
                or_else(get(entry.json, "id"), get(entry, "uuid"))))
  IN  IF entry.method = "DraftCompleteDraft"
      THEN <<[type |-> "draft_complete", draft_id |-> unwrap_or(id, ""),
              event_name |-> extract_event_name(entry.json)]>>
      ELSE <<>>

-----------------------------------------------------------------------------
(* Decks, courses, event calls, matches.                                   *)

deck_submission(entry) ==
  LET request == parse_nested_json(entry.json, "request")
      deck == and_get(request, "Deck")
  IN  IF /\ entry.direction = "==>"
         /\ entry.method \in {"EventSetDeckV2", "EventSetDeckV3"}
         /\ request # <<>>
      THEN <<[type |-> "deck_submission",
              event_name |-> extract_event_name(entry.json),
              is_singleton |-> unwrap_or(and_get(deck, "CommandZone"), <<>>) # <<>>,
              maindeck_hash |-> maindeck_hash(unwrap_or(and_get(deck, "MainDeck"), <<>>))]
             ++ SummaryFields(and_get(request, "Summary"))>>
      ELSE <<>>

build_course_event(course) ==
  [type |-> "course_deck", maindeck_hash |-> maindeck_hash(course.CourseDeck.MainDeck),
   internal_event_name |-> get(course, "InternalEventName"),
   course_id |-> get(course, "CourseId")]
  ++ SummaryFields(get(course, "CourseDeckSummary"))

HasDeck(course) ==
  unwrap_or(and_get(get(course, "CourseDeck"), "MainDeck"), <<>>) # <<>>

(* One event for each course that has a deck.                              *)
course_deck(entry) ==
  IF is_api_response(entry, "EventGetCoursesV2")
  THEN Each(SelectSeq(unwrap_or(get(entry.json, "Courses"), <<>>), HasDeck),
            build_course_event)
  ELSE <<>>

LIFECYCLE_METHODS == {"EventJoin", "EventClaimPrize", "EventEnterPairing"}

(* The requests, and of the responses the one that tells the prize.        *)
event_lifecycle(entry) ==
  LET course == get(entry.json, "Course")
      event(name) == [type |-> "event_lifecycle", action |-> entry.method,
                      event_name |-> name]
  IN  IF \E method \in LIFECYCLE_METHODS : is_api_request(entry, method)
      THEN <<event(extract_event_name(entry.json))>>
      ELSE IF ~is_api_response(entry, "EventClaimPrize") THEN <<>>
      ELSE IF course = <<>> THEN <<event(extract_event_name(entry.json))>>
      ELSE <<event(unwrap_or(and_get(course, "InternalEventName"), ""))
             ++ CopiedIfPresent(Head(course), [current_wins |-> Num("CurrentWins"),
                                               current_losses |-> Num("CurrentLosses")])>>

extract_players(config) ==
  Each(unwrap_or(and_get(config, "reservedPlayers"), <<>>),
       LAMBDA player : Copied(player,
         [user_id |-> Text("userId"), player_name |-> Text("playerName"),
          system_seat_id |-> Num("systemSeatId"), team_id |-> Num("teamId")]))

build_game_results(result_list) ==
  Each(result_list, LAMBDA result : Copied(result,
         [scope |-> Text("scope"), result |-> Text("result"),
          winning_team_id |-> Num("winningTeamId")]))

Lifecycle(state_type) ==
  CASE state_type = "MatchGameRoomStateType_Playing" -> "match_started"
    [] state_type = "MatchGameRoomStateType_MatchCompleted" -> "match_completed"
    [] OTHER -> "state_changed"

(* The event id is in the configuration or with the first player.          *)
match_state(entry) ==
  LET state_event == or_else(get(entry.json, "matchGameRoomStateChangedEvent"),
                             IF "gameRoomInfo" \in DOMAIN entry.json
                             THEN <<entry.json>> ELSE <<>>)
      info == and_get(state_event, "gameRoomInfo")
      state_type == unwrap_or(and_get(info, "stateType"), "")
      config == and_get(info, "gameRoomConfig")
      players == unwrap_or(and_get(config, "reservedPlayers"), <<>>)
      final == and_get(info, "finalMatchResult")
  IN  IF entry.method # "matchGameRoomStateChangedEvent" \/ state_event = <<>> THEN <<>>
      ELSE <<[type |-> Lifecycle(state_type), state_type |-> state_type,
              match_id |-> unwrap_or(and_get(config, "matchId"), ""),
              event_id |-> unwrap_or(or_else(and_get(config, "eventId"),
                             IF players = <<>> THEN <<>>
                             ELSE get(Head(players), "eventId")), ""),
              players |-> extract_players(config)]
             ++ IF final = <<>> THEN <<>>
                ELSE [match_completed_reason |->
                        unwrap_or(and_get(final, "matchCompletedReason"), ""),
                      game_results |-> build_game_results(
                        unwrap_or(and_get(final, "resultList"), <<>>))]>>

(* The events of an entry: the first parser that claims it has it all.     *)
events_of(entry) ==
  or_else(course_deck(entry),
  or_else(match_state(entry),
  or_else(try_parse_pack_presentation(entry),
  or_else(try_parse_draft_pick(entry),
  or_else(try_parse_draft_notify(entry),
  or_else(try_parse_make_pick(entry),
  or_else(draft_complete(entry),
  or_else(event_lifecycle(entry), deck_submission(entry)))))))))
=============================================================================

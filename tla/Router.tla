------------------------------- MODULE Router -------------------------------
(***************************************************************************)
(* Router (router.rs) and what each category parser claims.  An entry is a *)
(* record                                                                  *)
(*   header   its EntryHeader                                              *)
(*   dated    its first line carries a timestamp that can be parsed        *)
(*   has      the markers its body contains                                *)
(*   json     "ok", "bad" or "none": the JSON found in the body            *)
(*   keys     the fields of that JSON the parsers ask for, nested JSON     *)
(*            texts included                                               *)
(*   msgs     the greToClientMessages                                      *)
(*   courses  one BOOLEAN for each Course: it has a registered deck        *)
(* A parser yields a sequence of events.  Payloads other than those of Gre *)
(* are left out.                                                           *)
(***************************************************************************)
EXTENDS Gre, FiniteSets

VARIABLE stats  \* RouterStats

Event(kind) == [kind |-> kind]

(* Option<GameEvent>.                                                      *)
EventIf(claimed, kind) == IF claimed THEN <<Event(kind)>> ELSE <<>>

Parsed(entry) == entry.json = "ok"

(* An API request or response of a method is in the body.                  *)
is_api_request(entry, method) == <<"request", method>> \in entry.has
is_api_response(entry, method) == <<"response", method>> \in entry.has

(* A text in the body.                                                     *)
Has(entry, text) == <<"text", text>> \in entry.has

IsUnity(entry) == entry.header = "UnityCrossThreadLogger"

-----------------------------------------------------------------------------
metadata(entry) ==
  EventIf(/\ entry.header = "Metadata"
          /\ \/ Has(entry, "DETAILED LOGS: ENABLED")
             \/ Has(entry, "DETAILED LOGS: DISABLED"),
          "DetailedLoggingStatus")

(* Mutant: the event needs a timestamp, which a marker never has.          *)
DatedTruncation(entry) ==
  EventIf(/\ entry.header = "TruncationMarker"
          /\ entry.dated
          /\ Has(entry, "GameObject Count")
          /\ Has(entry, "Annotation Count"),
          "Truncation")

(* Both counts are needed.                                                 *)
truncation(entry) ==
  EventIf(/\ entry.header = "TruncationMarker"
          /\ Has(entry, "GameObject Count")
          /\ Has(entry, "Annotation Count"),
          "Truncation")

gre(entry) ==
  IF Has(entry, "greToClientEvent") /\ Parsed(entry) /\ entry.msgs # <<>>
  THEN gre_try_parse(entry.msgs)
  ELSE <<>>

course_deck(entry) ==
  IF is_api_response(entry, "EventGetCoursesV2") /\ Parsed(entry)
  THEN [i \in 1 .. Cardinality({k \in DOMAIN entry.courses : entry.courses[k]}) |->
          Event("CourseDeck")]
  ELSE <<>>

client_actions(entry) ==
  EventIf(/\ Parsed(entry)
          /\ \/ Has(entry, "ClientToGREUIMessage")
             \/ Has(entry, "ClientToGREMessage") /\ "payload" \in entry.keys,
          "ClientAction")

match_state(entry) ==
  EventIf(/\ Has(entry, "matchGameRoomStateChangedEvent")
          /\ Parsed(entry)
          /\ \/ "matchGameRoomStateChangedEvent" \in entry.keys
             \/ "gameRoomInfo" \in entry.keys,
          "MatchState")

(* A malformed authenticateResponse is claimed as well.                    *)
session(entry) ==
  EventIf(\/ Has(entry, "authenticateResponse")
          \/ Has(entry, "FrontDoorConnection.Close"),
          "Session")

(* A pack to pick from (DraftStatus is "PickNext"), or the pick of a card  *)
(* (CardIds begins with a card).                                           *)
draft_bot(entry) ==
  EventIf(\/ /\ \/ is_api_response(entry, "BotDraftDraftStatus")
                \/ is_api_response(entry, "BotDraftDraftPick")
             /\ Parsed(entry)
             /\ "PickNext" \in entry.keys
          \/ /\ is_api_request(entry, "BotDraftDraftPick")
             /\ Parsed(entry)
             /\ "CardIds" \in entry.keys,
          "DraftBot")

(* The response to a pick only confirms it.                                *)
draft_human(entry) ==
  EventIf(\/ /\ Has(entry, "Draft.Notify")
             /\ Parsed(entry)
             /\ entry.keys \cap {"PackCards", "SelfPack"} # {}
          \/ /\ Has(entry, "EventPlayerDraftMakePick")
             /\ ~is_api_response(entry, "EventPlayerDraftMakePick")
             /\ Parsed(entry)
             /\ entry.keys \cap {"CardId", "GrpIds"} # {},
          "DraftHuman")

draft_complete(entry) ==
  EventIf(Has(entry, "DraftCompleteDraft") /\ Parsed(entry), "DraftComplete")

(* Of the responses only that of EventClaimPrize is claimed.               *)
event_lifecycle(entry) ==
  EventIf(/\ Parsed(entry)
          /\ \/ \E method \in {"EventJoin", "EventClaimPrize", "EventEnterPairing"} :
                  is_api_request(entry, method)
             \/ is_api_response(entry, "EventClaimPrize"),
          "EventLifecycle")

rank(entry) ==
  EventIf(is_api_response(entry, "RankGetCombinedRankInfo") /\ Parsed(entry),
          "Rank")

deck_collection(entry) ==
  EventIf(/\ is_api_response(entry, "StartHook")
          /\ Parsed(entry)
          /\ {"DeckSummaries", "Decks"} \subseteq entry.keys,
          "DeckCollection")

inventory(entry) ==
  EventIf(/\ is_api_response(entry, "StartHook")
          /\ Parsed(entry)
          /\ "InventoryInfo" \in entry.keys,
          "Inventory")

(* The request of EventSetDeck in any version.                             *)
deck_submission(entry) ==
  EventIf(/\ Has(entry, "==> EventSetDeck")
          /\ Parsed(entry)
          /\ "request" \in entry.keys,
          "DeckSubmission")

connection_state(entry) ==
  EventIf(/\ IsUnity(entry)
          /\ Has(entry, "STATE CHANGED")
          /\ Parsed(entry)
          /\ {"old", "new"} \subseteq entry.keys,
          "MatchConnectionState")

(* A bare marker, without JSON, announces the line that has it.            *)
connection_close(entry) ==
  IF ~IsUnity(entry) \/ ~Parsed(entry) THEN <<>>
  ELSE IF Has(entry, "Client.TcpConnection.Close")
       THEN <<Event("TcpConnectionClose")>>
  ELSE EventIf(Has(entry, "GREConnection.HandleWebSocketClosed"),
               "WebSocketClosed")

connection_error(entry) ==
  EventIf(\/ /\ IsUnity(entry)
             /\ Parsed(entry)
             /\ \E marker \in {"TcpConnection.ProcessRead.Exception",
                               "Client.TcpConnection.ProcessFailure",
                               "GREConnection.MatchDoorConnectionError",
                               "TcpConnection.Close.Exception"} :
                  Has(entry, marker)
          \/ /\ entry.header = "ConnectionManager"
             /\ \E text \in {"Reconnect result : Connected",
                             "Reconnect result : Error",
                             "Reconnect result : None",
                             "Reconnect succeeded after ",
                             "Reconnect failed", "Reconnect timed out"} :
                  Has(entry, text)
          \/ /\ entry.header = "Matchmaking"
             /\ Has(entry, "Matchmaking: GRE connection lost"),
          "ConnectionError")

-----------------------------------------------------------------------------
(* Mutant: the parsers of StartHook change places.                         *)
InventoryFirst(entry) ==
  <<metadata(entry), truncation(entry), gre(entry), course_deck(entry),
    client_actions(entry), match_state(entry), session(entry),
    draft_bot(entry), draft_human(entry), draft_complete(entry),
    event_lifecycle(entry), rank(entry), inventory(entry),
    deck_collection(entry), deck_submission(entry), connection_state(entry),
    connection_close(entry), connection_error(entry)>>

(* What each parser would make of the entry, in order of priority.         *)
claims(entry) ==
  <<metadata(entry), truncation(entry), gre(entry), course_deck(entry),
    client_actions(entry), match_state(entry), session(entry),
    draft_bot(entry), draft_human(entry), draft_complete(entry),
    event_lifecycle(entry), rank(entry), deck_collection(entry),
    inventory(entry), deck_submission(entry), connection_state(entry),
    connection_close(entry), connection_error(entry)>>

(* The first parser that yields an event has the entry.                    *)
dispatch_to_parsers(entry) ==
  LET first == SelectInSeq(claims(entry), LAMBDA events : events # <<>>)
  IN  IF first = 0 THEN <<>> ELSE claims(entry)[first]

(* new() and reset().                                                      *)
NewStats == [routed |-> 0, unknown |-> 0, timestamp_failures |-> 0]

One(condition) == IF condition THEN 1 ELSE 0

(* The counters route() leaves; its result is dispatch_to_parsers(entry).  *)
route(entry) ==
  LET unknown == dispatch_to_parsers(entry) = <<>>
  IN  stats' = [routed |-> stats.routed + One(~unknown),
                unknown |-> stats.unknown + One(unknown),
                timestamp_failures |->
                  stats.timestamp_failures + One(~entry.dated)]
=============================================================================

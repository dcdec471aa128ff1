----------------------------- MODULE MCMatchLog -----------------------------
(* The entries beside those of GRE, each with the events its docs promise: *)
(* the tables at the head of the parsers and of GameEvent (events.rs).     *)
EXTENDS MatchLog

Unity(has, json, keys, documented) ==
  Entry("UnityCrossThreadLogger", has, json, keys, documented)

Text(text, json, keys, documented) ==
  Unity({<<"text", text>>}, json, keys, documented)

Response(method, json, keys, documented) ==
  Unity({<<"response", method>>, <<"text", method>>}, json, keys, documented)

Request(method, keys, documented) ==
  Unity({<<"request", method>>, <<"text", method>>}, "ok", keys, documented)

Inventory == {"InventoryInfo"}
Decks == {"DeckSummaries", "Decks"}

StartHooks ==
  {Response("StartHook", "ok", Inventory, <<"Inventory">>),
   Response("StartHook", "ok", Decks, <<"DeckCollection">>),
   Response("StartHook", "ok", Inventory \cup {"DeckSummaries"}, <<"Inventory">>),
   Response("StartHook", "ok", Inventory \cup Decks, <<"DeckCollection">>),
   Response("StartHook", "none", {}, <<>>)}

DraftForms ==
  {Response("BotDraftDraftStatus", "ok", {"PickNext"}, <<"DraftBot">>),
   Request("BotDraftDraftPick", {"CardIds"}, <<"DraftBot">>),
   Response("BotDraftDraftPick", "ok", {"PickNext"}, <<"DraftBot">>),
   Response("BotDraftDraftPick", "ok", {}, <<>>),
   Text("Draft.Notify", "ok", {"SelfPack", "PackCards"}, <<"DraftHuman">>),
   Request("EventPlayerDraftMakePick", {"GrpIds"}, <<"DraftHuman">>),
   Response("EventPlayerDraftMakePick", "ok", {}, <<>>),
   Request("DraftCompleteDraft", {}, <<"DraftComplete">>),
   Response("DraftCompleteDraft", "ok", {}, <<"DraftComplete">>)}

EventForms ==
  UNION {{Request(method, {"request"}, <<"EventLifecycle">>),
          Response(method, "ok", {"Course"},
                   IF method = "EventClaimPrize" THEN <<"EventLifecycle">> ELSE <<>>)} :
           method \in {"EventJoin", "EventClaimPrize", "EventEnterPairing"}}
  \cup
  {Text("==> EventSetDeck", "ok", {"request"}, <<"DeckSubmission">>),
   Response("EventSetDeckV3", "ok", {}, <<>>),
   Response("RankGetCombinedRankInfo", "ok", {}, <<"Rank">>),
   Response("RankGetCombinedRankInfo", "bad", {}, <<>>),
   [Response("EventGetCoursesV2", "ok", {"Courses"}, <<"CourseDeck", "CourseDeck">>)
      EXCEPT !.courses = <<TRUE, FALSE, TRUE>>],
   [Response("EventGetCoursesV2", "ok", {"Courses"}, <<>>)
      EXCEPT !.courses = <<FALSE>>]}

(* Errors are written twice: a bare marker, and a line with JSON.          *)
ConnectionForms ==
  {Text(marker, "none", {}, <<>>) :
     marker \in {"Client.TcpConnection.Close", "TcpConnection.Close.Exception"}}
  \cup
  {Text("Client.TcpConnection.Close", "ok", {}, <<"TcpConnectionClose">>),
   Text("GREConnection.HandleWebSocketClosed", "ok", {}, <<"WebSocketClosed">>),
   Text("TcpConnection.Close.Exception", "ok", {}, <<"ConnectionError">>),
   Text("STATE CHANGED", "ok", {"old", "new"}, <<"MatchConnectionState">>),
   Text("FrontDoorConnection.Close", "none", {}, <<"Session">>),
   Entry("ConnectionManager", {<<"text", "Reconnect failed">>}, "none", {},
         <<"ConnectionError">>),
   Entry("Matchmaking", {<<"text", "Matchmaking: GRE connection lost">>}, "none",
         {}, <<"ConnectionError">>)}

SessionForms ==
  {Entry("Metadata", {<<"text", "DETAILED LOGS: ENABLED">>}, "none", {},
         <<"DetailedLoggingStatus">>),
   Text("authenticateResponse", "ok", {}, <<"Session">>),
   Text("authenticateResponse", "bad", {}, <<"Session">>),
   Text("matchGameRoomStateChangedEvent", "ok", {"gameRoomInfo"}, <<"MatchState">>),
   Text("ClientToGREMessage", "ok", {"payload"}, <<"ClientAction">>),
   Text("ClientToGREMessage", "ok", {}, <<>>),
   Text("ClientToGREUIMessage", "ok", {}, <<"ClientAction">>)}

(* Messages of a session, and bundles of which the log has only a marker.  *)
MaxMessages == 5
MaxGaps == 1

(* The seats are alike.  An entry is routed whatever came before it, so    *)
(* the other entries are tried without a match after them.                 *)
Bounded ==
  /\ seat = 2
  /\ Len(FlattenSeq([i \in DOMAIN log |-> log[i].msgs \o log[i].lost]))
       + Len(bundle) <= MaxMessages
  /\ Len(SelectSeq(log, LAMBDA entry : entry.lost # <<>>)) <= MaxGaps
  /\ used.others = 0 \/ phase = "lobby"

AllForms ==
  StartHooks \cup DraftForms \cup EventForms \cup ConnectionForms \cup SessionForms
=============================================================================

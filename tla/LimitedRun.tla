----------------------------- MODULE LimitedRun -----------------------------
(***************************************************************************)
(* What a consumer learns of the runs of a player: the game (external)     *)
(* enters events, drafts against bots or in a pod, builds and edits decks, *)
(* plays matches and claims prizes, in several events at a time and in the *)
(* same event again, and writes its calls to the log.  The consumer        *)
(* (external) knows the events of those entries only.                      *)
(***************************************************************************)
EXTENDS RunPayload, TLC

CONSTANTS
  BotEvents,    \* events with a draft against bots
  PodEvents,    \* events with a draft in a pod
  Packs, Picks, \* packs of a draft, picks of a pack
  MaxJoins,      \* runs, at most
  MaxSubmissions \* decks submitted, but for the first of a run, at most

ASSUME BoundsAssumption ==
  /\ BotEvents \cap PodEvents = {}
  /\ Packs \in 1 .. 3 /\ Picks \in 1 .. 3 /\ MaxJoins \in Nat /\ MaxSubmissions \in Nat

Events == BotEvents \cup PodEvents

VARIABLES
  runs,      \* the runs in progress, by event
  joins,     \* runs begun
  playing,   \* the event whose match is being played, or <<>>
  listed,    \* history: the decks of the course list written last, by event
  consumer   \* what the consumer knows

vars == <<runs, joins, playing, listed, consumer>>

-----------------------------------------------------------------------------
(* The game.  A pack is passed on with a card less.                        *)

PackOf(pick) == [i \in 1 .. Picks - pick |-> i]

PackNumber(run) == Len(run.picks) \div Picks
PickNumber(run) == Len(run.picks) % Picks
Drafting(run) == run.draft = "open" /\ Len(run.picks) < Packs * Picks

(* The cards picked, each with its number, or all but the first pick.      *)
CardCount(cards, card) == Len(SelectSeq(cards, LAMBDA other : other = card))

Pool(picks) == [card \in ToSet(picks) |-> CardCount(picks, card)]

Decks(picks) == {Pool(picks), Pool(Tail(picks))}

(* A deck is written as a list of its cards in any order.                  *)
CardLists(deck) ==
  {[i \in DOMAIN order |-> [cardId |-> order[i], quantity |-> deck[order[i]]]] :
     order \in SetToSeqs(DOMAIN deck)}

Call(direction, method, json) ==
  [direction |-> direction, method |-> method, json |-> json]

Request(method, json) ==
  Call("==>", method, [id |-> "uuid", request |-> [escaped |-> json]])

Summary(event) ==
  [DeckId |-> event, Name |-> "name",
   Attributes |-> <<[name |-> "Version", value |-> "1"],
                    [name |-> "Format", value |-> "Draft"]>>]

BotPack(run, event, method) ==
  Call("<==", method,
       [Payload |-> [escaped |->
          IF Drafting(run)
          THEN [EventName |-> event, DraftStatus |-> "PickNext",
                PackNumber |-> PackNumber(run), PickNumber |-> PickNumber(run),
                DraftPack |-> PackOf(PickNumber(run))]
          ELSE [EventName |-> event, DraftStatus |-> "Completed"]]])

PodPack(run) ==
  Call("", "Draft.Notify",
       [draftId |-> run.draftId, SelfPack |-> PackNumber(run),
        SelfPick |-> PickNumber(run), PackCards |-> PackOf(PickNumber(run))])

(* The request of a pick in a pod has one of three forms.                  *)
PodPickForms(run, event, card) ==
  {Request("EventPlayerDraftMakePick",
     [DraftId |-> run.draftId, GrpIds |-> <<card>>,
      Pack |-> PackNumber(run), Pick |-> PickNumber(run)]),
   Call("", "EventPlayerDraftMakePick",
     [EventName |-> event, DraftId |-> run.draftId,
      PickInfo |-> [CardId |-> card, PackNumber |-> PackNumber(run),
                    PickNumber |-> PickNumber(run)]]),
   Call("", "EventPlayerDraftMakePick",
     [EventName |-> event, draftId |-> run.draftId, CardId |-> card,
      PackNumber |-> PackNumber(run), PickNumber |-> PickNumber(run)])}

Course(event, run) ==
  [InternalEventName |-> event, CourseId |-> event]
  ++ IF run.deck = <<>> THEN <<>>
     ELSE [CourseDeckSummary |-> Summary(event),
           CourseDeck |-> [MainDeck |-> Head(SetToSeq(CardLists(Head(run.deck))))]]

Room(event, inFirstPlayer, rest) ==
  LET player(team) == [userId |-> team, playerName |-> team, systemSeatId |-> team,
                       teamId |-> team]
  IN  Call("", "matchGameRoomStateChangedEvent",
        [matchGameRoomStateChangedEvent |-> [gameRoomInfo |-> rest ++
          [gameRoomConfig |->
             IF inFirstPlayer
             THEN [matchId |-> "match",
                   reservedPlayers |-> <<[eventId |-> event] ++ player(1), player(2)>>]
             ELSE [matchId |-> "match", eventId |-> event,
                   reservedPlayers |-> <<player(1), player(2)>>]]]])

-----------------------------------------------------------------------------
(* The consumer.  It is the player of team 1.  The picks and packs of a    *)
(* draft against bots go by its event, those of a pod by the draft's id.   *)

NewReport == [wins |-> 0, losses |-> 0, prize |-> <<>>, deck |-> <<>>]

Numbers(payload) == <<payload.pack_number, payload.pick_number>>

AddPack(known, key, payload, cards) ==
  [known EXCEPT !.packs = Field(<<key, Numbers(payload)>>, cards) ++ @]

AddPick(known, key, payload) ==
  [known EXCEPT !.picks = Field(key, Append(unwrap_or(get(@, key), <<>>),
                                              Numbers(payload) \o <<payload.card_id>>))
                                   ++ @]

Report(known, event) == unwrap_or(get(known.reports, event), NewReport)

DeckTold(payload) ==
  <<[id |-> payload.deck_id, format |-> payload.deck_format,
     hash |-> payload.maindeck_hash]>>

Update(known, event, report) ==
  [known EXCEPT !.reports = Field(event, report) ++ @]

(* A prize without a record is told by the request, too.                   *)
Learn(known, payload) ==
  CASE payload.type = "draft_bot_pack" ->
         AddPack(known, payload.event_name, payload, payload.draft_pack)
    [] payload.type = "draft_bot_pick" ->
         AddPick(known, payload.event_name, payload)
    [] payload.type = "draft_human_notify" ->
         AddPack(known, payload.draft_id, payload, payload.pack_cards)
    [] payload.type = "draft_human_pick" ->
         AddPick(known, payload.draft_id, payload)
    [] payload.type = "draft_complete" ->
         [known EXCEPT !.drafts = Field(payload.event_name, payload.draft_id)
                                    ++ @]
    [] payload.type = "deck_submission" ->
         Update(known, payload.event_name,
                [Report(known, payload.event_name) EXCEPT !.deck = DeckTold(payload)])
    [] payload.type = "course_deck" ->
         [known EXCEPT !.courses = Field(Head(payload.internal_event_name),
                                           DeckTold(payload))
                                     ++ @]
    [] payload.type = "event_lifecycle" /\ payload.action = "EventJoin" ->
         [Update(known, payload.event_name, NewReport)
            EXCEPT !.picks = Field(payload.event_name, <<>>) ++ @]
    [] payload.type = "event_lifecycle" /\ "current_wins" \in DOMAIN payload ->
         Update(known, payload.event_name,
                [Report(known, payload.event_name) EXCEPT
                   !.prize = <<<<payload.current_wins, payload.current_losses>>>>])
    [] payload.type = "match_completed" ->
         LET result == SelectSeq(payload.game_results,
                                 LAMBDA r : r.scope = "MatchScope_Match")
             won == Head(result).winning_team_id = 1
         IN  Update(known, payload.event_id,
                    [Report(known, payload.event_id) EXCEPT
                       !.wins = IF won THEN @ + 1 ELSE @,
                       !.losses = IF won THEN @ ELSE @ + 1])
    [] OTHER -> known

Write(entries) ==
  consumer' = FoldLeft(Learn, consumer, FlattenSeq(Each(entries, events_of)))

-----------------------------------------------------------------------------
Init ==
  /\ runs = <<>>
  /\ joins = 0
  /\ playing = <<>>
  /\ listed = <<>>
  /\ consumer = [picks |-> <<>>, packs |-> <<>>, drafts |-> <<>>,
                 reports |-> <<>>, courses |-> <<>>]

NewRun ==
  [draft |-> "open", draftId |-> ToString(joins + 1), shown |-> FALSE,
   picks |-> <<>>, mine |-> <<>>, deck |-> <<>>, submissions |-> 0,
   wins |-> 0, losses |-> 0, claimed |-> FALSE]

InProgress(event) == event \in DOMAIN runs /\ ~runs[event].claimed

SetRun(event, run) == runs' = [runs EXCEPT ![event] = run]

Join(event) ==
  /\ joins < MaxJoins
  /\ ~InProgress(event)
  /\ runs' = Field(event, NewRun) ++ runs
  /\ joins' = joins + 1
  /\ Write(<<Request("EventJoin", [EventName |-> event]),
             Call("<==", "EventJoin", [Course |-> [InternalEventName |-> event]])>>)
  /\ UNCHANGED <<playing, listed>>

(* The draft against bots is opened, also once more after a restart of the *)
(* game.                                                                   *)
OpenBotDraft(event) ==
  /\ InProgress(event) /\ event \in BotEvents
  /\ runs[event].draft = "open"
  /\ SetRun(event, [runs[event] EXCEPT !.shown = TRUE])
  /\ Write(<<BotPack(runs[event], event, "BotDraftDraftStatus")>>)
  /\ UNCHANGED <<joins, playing, listed>>

NotifyPack(event) ==
  /\ InProgress(event) /\ event \in PodEvents
  /\ Drafting(runs[event])
  /\ SetRun(event, [runs[event] EXCEPT !.shown = TRUE])
  /\ Write(<<PodPack(runs[event])>>)
  /\ UNCHANGED <<joins, playing, listed>>

(* The run after a pick, by the player or, when time is up, by the game.   *)
AfterPick(run, card, byPlayer) ==
  [run EXCEPT
     !.picks = Append(@, card),
     !.mine  = IF byPlayer
               THEN Append(@, <<PackNumber(run), PickNumber(run), card>>) ELSE @,
     !.shown = FALSE]

Pick(event) ==
  LET run == runs[event]
  IN  /\ InProgress(event)
      /\ Drafting(run) /\ run.shown
      /\ \E card \in ToSet(PackOf(PickNumber(run))) :
           LET new == [AfterPick(run, card, TRUE) EXCEPT !.shown = event \in BotEvents]
               info == [EventName |-> event, CardIds |-> <<card>>,
                        PackNumber |-> PackNumber(run), PickNumber |-> PickNumber(run)]
           IN  /\ SetRun(event, new)
               /\ IF event \in BotEvents
                  THEN Write(<<Request("BotDraftDraftPick",
                                       [EventName |-> event, PickInfo |-> info]),
                               BotPack(new, event, "BotDraftDraftPick")>>)
                  ELSE \E request \in PodPickForms(run, event, card) :
                         Write(<<request, Call("<==", "EventPlayerDraftMakePick",
                                               [IsPickSuccessful |-> TRUE])>>)
      /\ UNCHANGED <<joins, playing, listed>>

(* (Here at the last pick of a pack.)                                      *)
PickTimesOut(event) ==
  LET run == runs[event]
  IN  /\ InProgress(event) /\ event \in PodEvents
      /\ Drafting(run) /\ run.shown /\ PickNumber(run) = Picks - 1
      /\ SetRun(event, AfterPick(run, 1, FALSE))
      /\ UNCHANGED <<joins, playing, listed, consumer>>

CompleteDraft(event) ==
  LET run == runs[event]
  IN  /\ InProgress(event)
      /\ run.draft = "open" /\ ~Drafting(run)
      /\ SetRun(event, [run EXCEPT !.draft = "complete"])
      /\ Write(<<[Request("DraftCompleteDraft", [EventName |-> event])
                    EXCEPT !.json = [id |-> run.draftId] ++ @],
                 [uuid |-> run.draftId] ++
                 Call("<==", "DraftCompleteDraft",
                      [CourseId |-> event, InternalEventName |-> event])>>)
      /\ UNCHANGED <<joins, playing, listed>>

SubmitDeck(event) ==
  LET run == runs[event]
  IN  /\ InProgress(event)
      /\ run.draft = "complete" /\ playing = <<>>
      /\ \/ run.submissions = 0
         \/ FoldFunction(LAMBDA r, n : n + r.submissions, 0, runs) < MaxSubmissions
      /\ \E deck \in Decks(run.picks), method \in {"EventSetDeckV2", "EventSetDeckV3"} :
           \E list \in CardLists(deck) :
             /\ SetRun(event, [run EXCEPT !.deck = <<deck>>,
                                          !.submissions = @ + 1])
             /\ Write(<<Request(method, [EventName |-> event, Summary |-> Summary(event),
                                         Deck |-> [MainDeck |-> list, CommandZone |-> <<>>]])>>)
      /\ UNCHANGED <<joins, playing, listed>>

(* The courses in progress, those without a deck among them.               *)
ListCourses ==
  LET events == SelectSeq(SetToSeq(DOMAIN runs), InProgress)
      decks  == [event \in {e \in ToSet(events) : runs[e].deck # <<>>} |->
                   Head(runs[event].deck)]
  IN  /\ decks # <<>>
      /\ listed' = decks ++ listed
      /\ Write(<<Call("<==", "EventGetCoursesV2",
                      [Courses |-> Each(events, LAMBDA e : Course(e, runs[e]))])>>)
      /\ UNCHANGED <<runs, joins, playing>>

StartMatch(event) ==
  /\ InProgress(event)
  /\ runs[event].deck # <<>> /\ runs[event].wins + runs[event].losses = 0
  /\ playing = <<>>
  /\ playing' = <<event>>
  /\ \E inFirstPlayer \in BOOLEAN :
       Write(<<Request("EventEnterPairing", [EventName |-> event]),
               Room(event, inFirstPlayer,
                    [stateType |-> "MatchGameRoomStateType_Playing"])>>)
  /\ UNCHANGED <<runs, joins, listed>>

(* The other side wins the first game in any case.                         *)
EndMatch ==
  \E event \in ToSet(playing), won \in BOOLEAN, inFirstPlayer \in BOOLEAN :
    LET winner == IF won THEN 1 ELSE 2
        result(scope, team) == [scope |-> scope, result |-> "ResultType_WinLoss",
                                winningTeamId |-> team]
    IN  /\ playing' = <<>>
        /\ SetRun(event, [runs[event] EXCEPT !.wins = IF won THEN @ + 1 ELSE @,
                                             !.losses = IF won THEN @ ELSE @ + 1])
        /\ Write(<<Room(event, inFirstPlayer,
                [stateType |-> "MatchGameRoomStateType_MatchCompleted",
                 finalMatchResult |->
                   [matchCompletedReason |-> "MatchCompletedReasonType_Success",
                    resultList |-> <<result("MatchScope_Game", 3 - winner),
                                     result("MatchScope_Game", winner),
                                     result("MatchScope_Game", winner),
                                     result("MatchScope_Match", winner)>>]])>>)
        /\ UNCHANGED <<joins, listed>>

ClaimPrize(event) ==
  LET run == runs[event]
  IN  /\ InProgress(event)
      /\ run.wins + run.losses > 0
      /\ SetRun(event, [run EXCEPT !.claimed = TRUE])
      /\ Write(<<Request("EventClaimPrize", [EventName |-> event]),
                 Call("<==", "EventClaimPrize",
                      [Course |-> [InternalEventName |-> event, CurrentWins |-> run.wins,
                                   CurrentLosses |-> run.losses]])>>)
      /\ UNCHANGED <<joins, playing, listed>>

(* Every run is over; not an action of the game.                           *)
Terminated ==
  /\ joins = MaxJoins /\ \A event \in Events : ~InProgress(event)
  /\ UNCHANGED vars

Next ==
  \/ ListCourses \/ EndMatch \/ Terminated
  \/ \E event \in Events :
       \/ Join(event) \/ OpenBotDraft(event) \/ NotifyPack(event)
       \/ Pick(event) \/ PickTimesOut(event) \/ CompleteDraft(event)
       \/ SubmitDeck(event) \/ StartMatch(event) \/ ClaimPrize(event)

Spec == Init /\ [][Next]_vars

-----------------------------------------------------------------------------
(* Each run is told as it went, although others go on beside it and the    *)
(* same event was played before: every pick of the player once, in order,  *)
(* with its numbers and out of the pack that was told under them; the      *)
(* draft that belongs to the event, by request and response alike; and the *)
(* matches, won and lost, as the prize has them (draft/bot.rs:1-23,        *)
(* draft/human.rs:1-16, draft/complete.rs:1-14, event_lifecycle.rs:20-34). *)
RunTold ==
  \A event \in DOMAIN runs :
    LET run    == runs[event]
        key    == IF event \in BotEvents THEN event ELSE run.draftId
        report == Report(consumer, event)
    IN  /\ unwrap_or(get(consumer.picks, key), <<>>) = run.mine
        /\ \A i \in DOMAIN run.mine :
             run.mine[i][3] \in ToSet(unwrap_or(
               get(consumer.packs, <<key, SubSeq(run.mine[i], 1, 2)>>), <<>>))
        /\ run.draft = "complete" => get(consumer.drafts, event) = <<run.draftId>>
        /\ report.wins = run.wins /\ report.losses = run.losses
        /\ report.prize = IF run.claimed THEN <<<<run.wins, run.losses>>>> ELSE <<>>

(* A deck and what was told of it, last, when it was submitted or listed.  *)
Tellings ==
  {<<Head(runs[e].deck), Report(consumer, e).deck>> :
     e \in {e \in DOMAIN runs : runs[e].deck # <<>>}}
  \cup {<<listed[e], unwrap_or(get(consumer.courses, e), <<>>)>> : e \in DOMAIN listed}

(* "Downstream consumers can compare deck identity across the two event    *)
(* types" (api_common.rs:160-162): decks have the same hash if and only if *)
(* they are the same cards, in whatever order either list has them.        *)
DeckIdentity ==
  \A x, y \in Tellings :
    /\ x[2] # <<>> /\ Head(x[2]).hash # <<>> /\ Head(x[2]).format = <<"Draft">>
    /\ Head(x[2]).hash = Head(y[2]).hash <=> x[1] = y[1]
=============================================================================

-------------------------- MODULE MatchLog_proofs --------------------------
(***************************************************************************)
(* What a consumer is told of a match, for every match of any number of    *)
(* games, every way the game bundles its messages and leaves some out, and *)
(* every other entry between them.                                         *)
(***************************************************************************)
EXTENDS MatchLog, Walks, FiniteSetTheorems, SequenceTheorems

NoiseTypes == ToSet(NOISE_MESSAGE_TYPES)

Results ==
  Seq([scope : {"MatchScope_Game", "MatchScope_Match"}, winningTeamId : Seats])

Messages ==
  [type : GSM_TYPES \cup NoiseTypes
            \cup {"ConnectResp", "MulliganReq", "DieRollResultsResp"},
   seats : Seq(Seats), id : Nat, stage : {"none", "Play", "GameOver"},
   match_state : {"none", "GameComplete", "MatchComplete"},
   results : Results, annotated : BOOLEAN]

GreEntries ==
  [header : {"UnityCrossThreadLogger", "TruncationMarker"}, dated : BOOLEAN,
   has : SUBSET ({"text"} \X
           {"greToClientEvent", "GameObject Count", "Annotation Count"}),
   json : {"ok", "none"}, keys : {{}}, msgs : Seq(Messages),
   courses : {<<>>}, lost : Seq(Messages), documented : {<<>>}]

(* Kinds of the events of the other parsers.                               *)
OtherKinds ==
  {"DetailedLoggingStatus", "CourseDeck", "ClientAction",
   "MatchState", "Session", "DraftBot", "DraftHuman", "DraftComplete",
   "EventLifecycle", "Rank", "DeckCollection", "Inventory",
   "DeckSubmission", "MatchConnectionState", "TcpConnectionClose",
   "WebSocketClosed", "ConnectionError"}

StateEvents ==
  [kind : {"GameState"}, type : GSM_TYPES, game_state_id : Nat,
   results : Results, annotated : BOOLEAN]

ResultEvents ==
  [kind : {"GameResult"}, results : Results, winning_team_id : {0} \cup Seats]

SeatEventsOf(seats) == [kind : {"LocalSeat"}, seat : seats]

(* The events that tell of nothing below.                                  *)
QuietEvents ==
  [kind : {"GameState"}, type : {"connect_resp"}, system_seat_ids : Seq(Seats)]
  \cup [kind : {"GameState"}, type : NoiseTypes]
  \cup [kind : {"Truncation"} \cup OtherKinds]

Events == StateEvents \cup ResultEvents \cup SeatEventsOf(Seats) \cup QuietEvents

TypeOK ==
  /\ seat \in Seats
  /\ winners \in Seq(Seats)
  /\ last_id \in Nat
  /\ bundle \in Seq(Messages)
  /\ log \in Seq(Forms \cup GreEntries)
  /\ events \in Seq(Events)

-----------------------------------------------------------------------------
(* What the game writes.                                                   *)

(* The message shows the winners of the games so far, and no more.         *)
ShowsWinners(msg, wins) ==
  /\ Len(msg.results) \in 1 .. Len(wins)
  /\ \A k \in 1 .. Len(msg.results) :
       msg.results[k] = [scope |-> "MatchScope_Game", winningTeamId |-> wins[k]]

Sound(msg, wins, last) ==
  /\ msg.id <= last
  /\ IsState(msg) <=> msg.stage # "none"
  /\ msg.stage = "GameOver" <=> msg.match_state # "none"
  /\ msg.match_state = "GameComplete" => ShowsWinners(msg, wins)

(* One message of the game is from before another.                         *)
Before(one, other) ==
  /\ IsState(one) /\ IsState(other) => one.id < other.id
  /\ one.match_state = "GameComplete" /\ other.match_state = "GameComplete"
     => Len(one.results) < Len(other.results)

(* A message to one seat is one to the local player.                       *)
Addressed(msg, local) ==
  msg.type \notin NoiseTypes /\ Len(msg.seats) = 1 => msg.seats = <<local>>

HasConnect(msgs) == \E msg \in msgs : msg.type = "ConnectResp"

GameOK ==
  /\ phase = "between" => winners # <<>>
  /\ Logged \subseteq Messages /\ Lost \subseteq Messages
  /\ \A msg \in Logged \cup Lost \cup ToSet(bundle) : Sound(msg, winners, last_id)
  /\ \A one \in Logged \cup Lost, other \in ToSet(bundle) : Before(one, other)
  /\ \A i, j \in DOMAIN bundle : i < j => Before(bundle[i], bundle[j])
  /\ HasConnect(ToSet(bundle)) \/ \A msg \in ToSet(bundle) : Addressed(msg, seat)

-----------------------------------------------------------------------------
(* What the events tell, of any sequence of events.                        *)

StatesOf(evs) == {i \in DOMAIN evs : IsStateEvent(evs[i])}
ResultsOf(evs) == {i \in DOMAIN evs : evs[i].kind = "GameResult"}

(* The states that are news, in the order of the game.                     *)
StatesTold(evs, news) ==
  /\ \A i \in StatesOf(evs) : \E msg \in news : evs[i].game_state_id = msg.id
  /\ \A msg \in news : \E i \in StatesOf(evs) : evs[i].game_state_id = msg.id
  /\ \A i, j \in StatesOf(evs) :
       i < j => evs[i].game_state_id < evs[j].game_state_id

(* The ends of games, in order, with their winners.                        *)
EndsTold(evs, ends, wins) ==
  /\ \A i \in ResultsOf(evs) : \E msg \in ends : evs[i].results = msg.results
  /\ \A msg \in ends : \E i \in ResultsOf(evs) : evs[i].results = msg.results
  /\ \A i, j \in ResultsOf(evs) :
       i < j => Len(evs[i].results) < Len(evs[j].results)
  /\ \A i \in ResultsOf(evs) :
       evs[i].winning_team_id = wins[Len(evs[i].results)]

(* The state that shows the end, right before the result.                  *)
BlowsTold(evs, ends) ==
  \A i \in ResultsOf(evs), msg \in ends :
    msg.annotated /\ msg.results = evs[i].results =>
      /\ i - 1 \in StatesOf(evs)
      /\ evs[i - 1].game_state_id = msg.id
      /\ evs[i - 1].annotated

(* A place in the events for every state that is missing.                  *)
GapsTold(evs, lost) ==
  \A msg \in lost : IsState(msg) =>
    \E t \in DOMAIN evs :
      /\ evs[t].kind = "Truncation"
      /\ \A i \in StatesOf(evs) :
           /\ i < t => evs[i].game_state_id < msg.id
           /\ t < i => msg.id < evs[i].game_state_id

SeatsTold(evs, local) ==
  \A i \in DOMAIN evs : evs[i].kind = "LocalSeat" => evs[i].seat = local

Report(evs, news, ends, lost, wins, local) ==
  /\ StatesTold(evs, news)
  /\ EndsTold(evs, ends, wins)
  /\ BlowsTold(evs, ends)
  /\ GapsTold(evs, lost)
  /\ SeatsTold(evs, local)

News(msgs) ==
  {msg \in msgs : \/ msg.stage = "Play"
                  \/ msg.match_state = "GameComplete" /\ msg.annotated}
Ends(msgs) == {msg \in msgs : msg.match_state = "GameComplete"}

IInv ==
  /\ TypeOK
  /\ GameOK
  /\ Report(events, News(Logged), Ends(Logged), Lost, winners, seat)
  /\ SeatRecovered


-----------------------------------------------------------------------------
(* One event more.                                                         *)
Grown(evs, e, more) ==
  /\ Len(evs) \in Nat
  /\ DOMAIN evs = 1 .. Len(evs)
  /\ DOMAIN more = 1 .. Len(evs) + 1
  /\ \A i \in 1 .. Len(evs) : more[i] = evs[i]
  /\ more[Len(evs) + 1] = e

(* Append is such a growth.                                                *)
LEMMA AppendGrows ==
  ASSUME NEW S, NEW evs \in Seq(S), NEW e \in S
  PROVE  Append(evs, e) \in Seq(S) /\ Grown(evs, e, Append(evs, e))
BY DEF Grown

(* The members are those from before and the new one.                      *)
LEMMA GrownMembers ==
  ASSUME NEW seq, NEW e, NEW more, Grown(seq, e, more)
  PROVE  ToSet(more) = ToSet(seq) \cup {e}
<1>1. ASSUME NEW i \in DOMAIN more PROVE more[i] \in ToSet(seq) \cup {e}
  BY DEF Grown, ToSet
<1>2. ToSet(seq) \subseteq ToSet(more)
  <2>1. \A i \in DOMAIN seq : i \in DOMAIN more /\ more[i] = seq[i]
    BY DEF Grown
  <2> QED
    BY <2>1 DEF ToSet
<1>3. e \in ToSet(more)
  <2>1. Len(seq) + 1 \in DOMAIN more
    BY DEF Grown
  <2> QED
    BY <2>1 DEF Grown, ToSet
<1>4. ToSet(more) \subseteq ToSet(seq) \cup {e}
  BY <1>1 DEF ToSet
<1> QED
  BY <1>2, <1>3, <1>4

IsResult(e) == e.kind = "GameResult"

(* Which of the events are states and results then.                        *)
LEMMA GrownStates ==
  ASSUME NEW evs, NEW e, NEW more, Grown(evs, e, more)
  PROVE  /\ StatesOf(evs) \subseteq 1 .. Len(evs)
         /\ IsStateEvent(e) => StatesOf(more) = StatesOf(evs) \cup {Len(evs) + 1}
         /\ ~IsStateEvent(e) => StatesOf(more) = StatesOf(evs)
BY DEF Grown, StatesOf

(* Which of them are results.                                              *)
LEMMA GrownResults ==
  ASSUME NEW evs, NEW e, NEW more, Grown(evs, e, more)
  PROVE  /\ ResultsOf(evs) \subseteq 1 .. Len(evs)
         /\ IsResult(e) => ResultsOf(more) = ResultsOf(evs) \cup {Len(evs) + 1}
         /\ ~IsResult(e) => ResultsOf(more) = ResultsOf(evs)
BY DEF Grown, ResultsOf, IsResult

(* An event that is no state leaves the states as they are told.           *)
LEMMA StatesStay ==
  ASSUME NEW evs, NEW e, NEW more, Grown(evs, e, more), NEW news,
         ~IsStateEvent(e), StatesTold(evs, news)
  PROVE  StatesTold(more, news)
<1>1. /\ StatesOf(evs) \subseteq 1 .. Len(evs)
      /\ StatesOf(more) = StatesOf(evs)
      /\ \A i \in StatesOf(evs) : more[i] = evs[i]
  BY GrownStates DEF Grown
<1> QED
  BY <1>1 DEF StatesTold

(* A state that is from after those that were news is told in order.       *)
LEMMA StatesGrow ==
  ASSUME NEW evs, NEW e, NEW more, Grown(evs, e, more),
         NEW news, NEW msg, \A one \in news : one.id < msg.id,
         IsStateEvent(e), e.game_state_id = msg.id, StatesTold(evs, news)
  PROVE  StatesTold(more, news \cup {msg})
<1>1. /\ StatesOf(evs) \subseteq 1 .. Len(evs)
      /\ StatesOf(more) = StatesOf(evs) \cup {Len(evs) + 1}
      /\ \A i \in StatesOf(evs) : more[i] = evs[i]
      /\ more[Len(evs) + 1] = e /\ Len(evs) \in Nat
  BY GrownStates DEF Grown
<1>2. \A i \in StatesOf(evs) : evs[i].game_state_id < msg.id
  BY DEF StatesTold
<1>3. \A i \in StatesOf(more) :
        \E one \in news \cup {msg} : more[i].game_state_id = one.id
  BY <1>1 DEF StatesTold
<1>4. \A one \in news \cup {msg} :
        \E i \in StatesOf(more) : more[i].game_state_id = one.id
  BY <1>1 DEF StatesTold
<1>5. ASSUME NEW i \in StatesOf(more), NEW j \in StatesOf(more), i < j
      PROVE  more[i].game_state_id < more[j].game_state_id
  <2>1. i \in StatesOf(evs)
    BY <1>1, <1>5
  <2>2. CASE j \in StatesOf(evs)
    BY <1>1, <1>5, <2>1, <2>2 DEF StatesTold
  <2>3. CASE j = Len(evs) + 1
    BY <1>1, <1>2, <2>1, <2>3
  <2> QED
    BY <1>1, <2>2, <2>3
<1> QED
  BY <1>3, <1>4, <1>5 DEF StatesTold

(* The same of the ends of games.                                          *)
LEMMA EndsStay ==
  ASSUME NEW evs, NEW e, NEW more, Grown(evs, e, more), NEW ends, NEW wins,
         ~IsResult(e), EndsTold(evs, ends, wins)
  PROVE  EndsTold(more, ends, wins)
<1>1. /\ ResultsOf(evs) \subseteq 1 .. Len(evs)
      /\ ResultsOf(more) = ResultsOf(evs)
      /\ \A i \in ResultsOf(evs) : more[i] = evs[i]
  BY GrownResults DEF Grown
<1>2. \A i \in ResultsOf(more) : \E msg \in ends : more[i].results = msg.results
  BY <1>1 DEF EndsTold
<1>3. \A msg \in ends : \E i \in ResultsOf(more) : more[i].results = msg.results
  BY <1>1 DEF EndsTold
<1>4. \A i, j \in ResultsOf(more) :
        i < j => Len(more[i].results) < Len(more[j].results)
  BY <1>1 DEF EndsTold
<1>5. \A i \in ResultsOf(more) :
        more[i].winning_team_id = wins[Len(more[i].results)]
  BY <1>1 DEF EndsTold
<1> QED
  BY <1>2, <1>3, <1>4, <1>5 DEF EndsTold

(* The end of a later game is told in order.                               *)
LEMMA EndsGrow ==
  ASSUME NEW evs, NEW e, NEW more, Grown(evs, e, more), NEW wins,
         NEW ends, NEW msg, \A one \in ends : Len(one.results) < Len(msg.results),
         IsResult(e), e.results = msg.results,
         e.winning_team_id = wins[Len(msg.results)], EndsTold(evs, ends, wins)
  PROVE  EndsTold(more, ends \cup {msg}, wins)
<1>1. /\ ResultsOf(evs) \subseteq 1 .. Len(evs)
      /\ ResultsOf(more) = ResultsOf(evs) \cup {Len(evs) + 1}
      /\ \A i \in ResultsOf(evs) : more[i] = evs[i]
      /\ more[Len(evs) + 1] = e /\ Len(evs) \in Nat
  BY GrownResults DEF Grown
<1>2. \A i \in ResultsOf(evs) : Len(evs[i].results) < Len(msg.results)
  BY DEF EndsTold
<1>3. \A i \in ResultsOf(more) :
        \E one \in ends \cup {msg} : more[i].results = one.results
  BY <1>1 DEF EndsTold
<1>4. \A one \in ends \cup {msg} :
        \E i \in ResultsOf(more) : more[i].results = one.results
  BY <1>1 DEF EndsTold
<1>5. ASSUME NEW i \in ResultsOf(more), NEW j \in ResultsOf(more), i < j
      PROVE  Len(more[i].results) < Len(more[j].results)
  <2>1. i \in ResultsOf(evs)
    BY <1>1, <1>5
  <2>2. CASE j \in ResultsOf(evs)
    BY <1>1, <1>5, <2>1, <2>2 DEF EndsTold
  <2>3. CASE j = Len(evs) + 1
    BY <1>1, <1>2, <2>1, <2>3
  <2> QED
    BY <1>1, <2>2, <2>3
<1>6. \A i \in ResultsOf(more) :
        more[i].winning_team_id = wins[Len(more[i].results)]
  BY <1>1 DEF EndsTold
<1> QED
  BY <1>3, <1>4, <1>5, <1>6 DEF EndsTold

(* The same of the states before the results.                              *)
LEMMA BlowsStay ==
  ASSUME NEW evs, NEW e, NEW more, Grown(evs, e, more), NEW ends,
         ~IsResult(e), BlowsTold(evs, ends)
  PROVE  BlowsTold(more, ends)
<1>1. /\ ResultsOf(evs) \subseteq 1 .. Len(evs)
      /\ ResultsOf(more) = ResultsOf(evs)
      /\ StatesOf(evs) \subseteq StatesOf(more)
      /\ StatesOf(evs) \subseteq 1 .. Len(evs)
      /\ \A i \in 1 .. Len(evs) : more[i] = evs[i]
  BY GrownResults, GrownStates DEF Grown
<1> QED
  BY <1>1 DEF BlowsTold

(* The result that comes right after the state that shows it.              *)
LEMMA BlowsGrow ==
  ASSUME NEW evs, NEW e, NEW more, Grown(evs, e, more), NEW wins,
         NEW ends, NEW msg, \A one \in ends : Len(one.results) < Len(msg.results),
         Len(msg.results) \in Nat,
         IsResult(e), e.results = msg.results,
         EndsTold(evs, ends, wins), BlowsTold(evs, ends),
         msg.annotated => /\ Len(evs) \in StatesOf(evs)
                          /\ evs[Len(evs)].game_state_id = msg.id
                          /\ evs[Len(evs)].annotated
  PROVE  BlowsTold(more, ends \cup {msg})
<1>1. /\ ResultsOf(evs) \subseteq 1 .. Len(evs)
      /\ ResultsOf(more) = ResultsOf(evs) \cup {Len(evs) + 1}
      /\ StatesOf(evs) \subseteq StatesOf(more)
      /\ StatesOf(evs) \subseteq 1 .. Len(evs)
      /\ \A i \in 1 .. Len(evs) : more[i] = evs[i]
      /\ more[Len(evs) + 1] = e /\ Len(evs) \in Nat
  <2>1. /\ ResultsOf(evs) \subseteq 1 .. Len(evs)
        /\ ResultsOf(more) = ResultsOf(evs) \cup {Len(evs) + 1}
    BY GrownResults
  <2>2. /\ StatesOf(evs) \subseteq StatesOf(more)
        /\ StatesOf(evs) \subseteq 1 .. Len(evs)
    BY GrownStates
  <2> QED
    BY <2>1, <2>2 DEF Grown
<1>2. \A i \in ResultsOf(evs) : Len(evs[i].results) < Len(msg.results)
  BY DEF EndsTold
<1> SUFFICES ASSUME NEW i \in ResultsOf(more), NEW one \in ends \cup {msg},
                    one.annotated, one.results = more[i].results
             PROVE  /\ i - 1 \in StatesOf(more)
                    /\ more[i - 1].game_state_id = one.id
                    /\ more[i - 1].annotated
  BY DEF BlowsTold
<1>3. CASE i \in ResultsOf(evs)
  <2>1. one \in ends
    BY <1>1, <1>2, <1>3
  <2>2. /\ i - 1 \in StatesOf(evs)
        /\ evs[i - 1].game_state_id = one.id
        /\ evs[i - 1].annotated
    BY <1>1, <1>3, <2>1 DEF BlowsTold
  <2> QED
    BY <1>1, <2>2
<1>4. CASE i = Len(evs) + 1
  <2>1. one = msg
    BY <1>1, <1>4
  <2>2. i - 1 = Len(evs)
    BY <1>1, <1>4
  <2> QED
    BY <1>1, <2>1, <2>2
<1> QED
  BY <1>1, <1>3, <1>4

(* The same of the gaps.                                                   *)
LEMMA GapsStay ==
  ASSUME NEW evs, NEW e, NEW more, Grown(evs, e, more), NEW lost,
         ~IsStateEvent(e), GapsTold(evs, lost)
  PROVE  GapsTold(more, lost)
<1>1. /\ StatesOf(more) = StatesOf(evs) /\ StatesOf(evs) \subseteq 1 .. Len(evs)
      /\ DOMAIN evs \subseteq DOMAIN more
      /\ \A i \in DOMAIN evs : more[i] = evs[i]
      /\ StatesOf(evs) \subseteq DOMAIN evs
  BY GrownStates DEF Grown
<1> QED
  BY <1>1 DEF GapsTold

(* A state from after the gaps is told behind them.                        *)
LEMMA GapsBehind ==
  ASSUME NEW evs, NEW e, NEW more, Grown(evs, e, more), NEW lost,
         IsStateEvent(e), GapsTold(evs, lost),
         \A msg \in lost : IsState(msg) => msg.id < e.game_state_id
  PROVE  GapsTold(more, lost)
<1>1. /\ StatesOf(more) = StatesOf(evs) \cup {Len(evs) + 1}
      /\ DOMAIN evs \subseteq DOMAIN more
      /\ \A i \in DOMAIN evs : more[i] = evs[i]
      /\ StatesOf(evs) \subseteq DOMAIN evs
      /\ DOMAIN evs = 1 .. Len(evs) /\ Len(evs) \in Nat
      /\ more[Len(evs) + 1] = e
  BY GrownStates DEF Grown
<1> SUFFICES ASSUME NEW msg \in lost, IsState(msg)
             PROVE  \E t \in DOMAIN more :
                      /\ more[t].kind = "Truncation"
                      /\ \A i \in StatesOf(more) :
                           /\ i < t => more[i].game_state_id < msg.id
                           /\ t < i => msg.id < more[i].game_state_id
  BY DEF GapsTold
<1>2. PICK t \in DOMAIN evs :
        /\ evs[t].kind = "Truncation"
        /\ \A i \in StatesOf(evs) :
             /\ i < t => evs[i].game_state_id < msg.id
             /\ t < i => msg.id < evs[i].game_state_id
  BY DEF GapsTold
<1>3. t \in DOMAIN more /\ more[t].kind = "Truncation"
  BY <1>1, <1>2
<1>4. ASSUME NEW i \in StatesOf(more)
      PROVE  /\ i < t => more[i].game_state_id < msg.id
             /\ t < i => msg.id < more[i].game_state_id
  <2>1. CASE i \in StatesOf(evs)
    BY <1>1, <1>2, <2>1
  <2>2. CASE i = Len(evs) + 1
    BY <1>1, <2>2
  <2> QED
    BY <1>1, <2>1, <2>2
<1> QED
  BY <1>3, <1>4

(* A mark behind all states stands for every state from after them.        *)
LEMMA GapsMark ==
  ASSUME NEW evs, NEW e, NEW more, Grown(evs, e, more), NEW lost, NEW new,
         e.kind = "Truncation", GapsTold(evs, lost),
         \A i \in StatesOf(evs), msg \in new :
           IsState(msg) => evs[i].game_state_id < msg.id
  PROVE  GapsTold(more, lost \cup new)
<1>1. ~IsStateEvent(e)
  BY DEF IsStateEvent
<1>2. GapsTold(more, lost)
  BY <1>1, GapsStay
<1>3. /\ StatesOf(more) = StatesOf(evs) /\ StatesOf(evs) \subseteq 1 .. Len(evs)
      /\ \A i \in StatesOf(evs) : more[i] = evs[i]
      /\ Len(evs) \in Nat /\ Len(evs) + 1 \in DOMAIN more
      /\ more[Len(evs) + 1] = e
  BY <1>1, GrownStates DEF Grown
<1>4. ASSUME NEW msg \in new, IsState(msg)
      PROVE  /\ more[Len(evs) + 1].kind = "Truncation"
             /\ \A i \in StatesOf(more) :
                  /\ i < Len(evs) + 1 => more[i].game_state_id < msg.id
                  /\ Len(evs) + 1 < i => msg.id < more[i].game_state_id
  BY <1>3, <1>4
<1> QED
  BY <1>2, <1>3, <1>4 DEF GapsTold

(* Another event, and the seat it may tell.                                *)
LEMMA SeatsGrow ==
  ASSUME NEW evs, NEW e, NEW more, Grown(evs, e, more), NEW local,
         SeatsTold(evs, local), e.kind = "LocalSeat" => e.seat = local
  PROVE  SeatsTold(more, local)
BY DEF SeatsTold, Grown

-----------------------------------------------------------------------------
(* What an event adds to the report.                                       *)

(* An event that is neither state nor result adds nothing.                 *)
LEMMA ReportStays ==
  ASSUME NEW evs \in Seq(Events), NEW e \in Events,
         NEW news, NEW ends, NEW lost, NEW wins, NEW local,
         ~IsStateEvent(e), ~IsResult(e), e.kind = "LocalSeat" => e.seat = local,
         Report(evs, news, ends, lost, wins, local)
  PROVE  Report(Append(evs, e), news, ends, lost, wins, local)
<1> DEFINE more == Append(evs, e)
<1>1. Grown(evs, e, more)
  BY AppendGrows
<1>2. StatesTold(more, news)
  BY <1>1, StatesStay DEF Report
<1>3. EndsTold(more, ends, wins)
  BY <1>1, EndsStay DEF Report
<1>4. BlowsTold(more, ends)
  BY <1>1, BlowsStay DEF Report
<1>5. GapsTold(more, lost)
  BY <1>1, GapsStay DEF Report
<1>6. SeatsTold(more, local)
  BY <1>1, SeatsGrow DEF Report
<1> QED
  BY <1>2, <1>3, <1>4, <1>5, <1>6 DEF Report

(* A state tells a message that is from after everything before it.        *)
LEMMA ReportState ==
  ASSUME NEW evs \in Seq(Events), NEW e \in Events,
         NEW news, NEW ends, NEW lost, NEW wins, NEW local, NEW msg,
         IsStateEvent(e), e.game_state_id = msg.id,
         \A one \in news : one.id < msg.id,
         \A one \in lost : IsState(one) => one.id < msg.id,
         Report(evs, news, ends, lost, wins, local)
  PROVE  Report(Append(evs, e), news \cup {msg}, ends, lost, wins, local)
<1> DEFINE more == Append(evs, e)
<1>1. Grown(evs, e, more)
  BY AppendGrows
<1>2. ~IsResult(e) /\ e.kind # "LocalSeat"
  BY DEF IsStateEvent, IsResult
<1>3. StatesTold(more, news \cup {msg})
  BY <1>1, StatesGrow DEF Report
<1>4. EndsTold(more, ends, wins)
  BY <1>1, <1>2, EndsStay DEF Report
<1>5. BlowsTold(more, ends)
  BY <1>1, <1>2, BlowsStay DEF Report
<1>6. GapsTold(more, lost)
  BY <1>1, GapsBehind DEF Report
<1>7. SeatsTold(more, local)
  BY <1>1, <1>2, SeatsGrow DEF Report
<1> QED
  BY <1>3, <1>4, <1>5, <1>6, <1>7 DEF Report

(* A result tells the end of the game after those that were told.          *)
LEMMA ReportResult ==
  ASSUME NEW evs \in Seq(Events), NEW e \in Events,
         NEW news, NEW ends, NEW lost, NEW wins, NEW local, NEW msg,
         IsResult(e), e.results = msg.results, Len(msg.results) \in Nat,
         e.winning_team_id = wins[Len(msg.results)],
         \A one \in ends : Len(one.results) < Len(msg.results),
         msg.annotated => /\ Len(evs) \in StatesOf(evs)
                          /\ evs[Len(evs)].game_state_id = msg.id
                          /\ evs[Len(evs)].annotated,
         Report(evs, news, ends, lost, wins, local)
  PROVE  Report(Append(evs, e), news, ends \cup {msg}, lost, wins, local)
<1> DEFINE more == Append(evs, e)
<1>1. Grown(evs, e, more)
  BY AppendGrows
<1>2. ~IsStateEvent(e) /\ e.kind # "LocalSeat"
  BY DEF IsStateEvent, IsResult
<1>3. StatesTold(more, news)
  BY <1>1, <1>2, StatesStay DEF Report
<1>4. EndsTold(more, ends \cup {msg}, wins)
  BY <1>1, EndsGrow DEF Report
<1>5. BlowsTold(more, ends \cup {msg})
  BY <1>1, BlowsGrow DEF Report
<1>6. GapsTold(more, lost)
  BY <1>1, <1>2, GapsStay DEF Report
<1>7. SeatsTold(more, local)
  BY <1>1, <1>2, SeatsGrow DEF Report
<1> QED
  BY <1>3, <1>4, <1>5, <1>6, <1>7 DEF Report


-----------------------------------------------------------------------------
(* The events of one message, emit_gsm_events.                             *)

(* The latest result in the message that ends a game is that game's.       *)
LEMMA LatestResult ==
  ASSUME NEW msg, NEW wins, ShowsWinners(msg, wins), Len(wins) \in Nat
  PROVE  /\ game_scope_result(msg.results) = Len(msg.results)
         /\ game_result(msg).winning_team_id = wins[Len(msg.results)]
<1> DEFINE n == Len(msg.results)
           found == {i \in 1 .. n : msg.results[i].scope = "MatchScope_Game"}
<1>0. ASSUME NEW k \in 1 .. n
      PROVE  /\ msg.results[k].scope = "MatchScope_Game"
             /\ msg.results[k].winningTeamId = wins[k]
  <2>1. msg.results[k]
          = [scope |-> "MatchScope_Game", winningTeamId |-> wins[k]]
    BY DEF ShowsWinners
  <2> QED
    BY <2>1
<1>1. n \in Nat /\ n > 0
  BY DEF ShowsWinners
<1>2. found = 1 .. n
  <2>1. \A i \in 1 .. n : msg.results[i].scope = "MatchScope_Game"
    BY <1>0
  <2> QED
    BY <2>1
<1>3. Max(1 .. n) = n
  <2>1. n \in 1 .. n /\ \A y \in 1 .. n : n >= y
    BY <1>1
  <2>2. \A x \in 1 .. n : (\A y \in 1 .. n : x >= y) => x = n
    BY <1>1
  <2> HIDE DEF n
  <2> QED
    BY <2>1, <2>2 DEF Max
<1>4. game_scope_result(msg.results) = IF found # {} THEN Max(found) ELSE 0
  BY DEF game_scope_result, SelectLastInSeq
<1>5. found # {}
  BY <1>1, <1>2
<1>6. game_scope_result(msg.results) = n
  BY <1>2, <1>3, <1>4, <1>5
<1>7. game_result(msg).winning_team_id = msg.results[n].winningTeamId
  BY <1>1, <1>6 DEF game_result
<1>8. n \in 1 .. n
  BY <1>1
<1>9. msg.results[n].winningTeamId = wins[n]
  BY <1>0, <1>8
<1> QED
  BY <1>6, <1>7, <1>9

(* The event of a result is one, and has the winner of its game.           *)
LEMMA ResultEvent ==
  ASSUME NEW msg \in Messages, NEW wins \in Seq(Seats), ShowsWinners(msg, wins)
  PROVE  /\ game_result(msg) \in ResultEvents
         /\ game_result(msg).kind = "GameResult"
         /\ game_result(msg).results = msg.results
         /\ game_result(msg).winning_team_id = wins[Len(msg.results)]
<1>1. game_result(msg).winning_team_id = wins[Len(msg.results)]
  BY LatestResult
<1>2. wins[Len(msg.results)] \in Seats
  BY DEF ShowsWinners
<1>3. /\ game_result(msg).kind = "GameResult"
      /\ game_result(msg).results = msg.results
  BY DEF game_result
<1>4. PICK w : game_result(msg) = [kind |-> "GameResult",
                                   results |-> msg.results,
                                   winning_team_id |-> w]
  BY DEF game_result
<1>5. w \in Seats /\ msg.results \in Results
  BY <1>1, <1>2, <1>4 DEF Messages
<1> QED
  BY <1>1, <1>3, <1>4, <1>5 DEF ResultEvents

(* The event of a state is one, with its number.                           *)
LEMMA StateEvent ==
  ASSUME NEW msg \in Messages, IsState(msg)
  PROVE  /\ game_state_message(msg) \in StateEvents
         /\ IsStateEvent(game_state_message(msg))
         /\ game_state_message(msg).game_state_id = msg.id
         /\ game_state_message(msg).annotated = msg.annotated
BY DEF Messages, StateEvents, IsStateEvent, game_state_message, IsState

(* A sequence of one or two events is appended one by one.                 *)
LEMMA AppendedOneByOne ==
  ASSUME NEW S, NEW evs \in Seq(S), NEW e \in S, NEW r \in S
  PROVE  /\ evs \o <<>> = evs
         /\ evs \o <<e>> = Append(evs, e)
         /\ evs \o <<e, r>> = Append(Append(evs, e), r)
OBVIOUS

(* Sequences of events are put together in any order.                      *)
Joined(a, b) == a \o b

(* Joining is associative.                                                 *)
LEMMA JoinedInAnyOrder ==
  ASSUME NEW a \in Seq(Events), NEW b \in Seq(Events), NEW c \in Seq(Events)
  PROVE  /\ Joined(a, b) \in Seq(Events)
         /\ Joined(Joined(a, b), c) = Joined(a, Joined(b, c))
BY ConcatProperties, ConcatAssociative DEF Joined

(* The same, of three sequences after another.                             *)
LEMMA ThreeParts ==
  ASSUME NEW evs \in Seq(Events), NEW a \in Seq(Events), NEW b \in Seq(Events)
  PROVE  a \o b \in Seq(Events) /\ (evs \o a) \o b = evs \o (a \o b)
<1>1. /\ Joined(a, b) \in Seq(Events)
      /\ Joined(Joined(evs, a), b) = Joined(evs, Joined(a, b))
  BY JoinedInAnyOrder
<1> QED
  BY <1>1 DEF Joined

(* And of four.                                                            *)
LEMMA FourParts ==
  ASSUME NEW evs \in Seq(Events), NEW a \in Seq(Events), NEW b \in Seq(Events),
         NEW c \in Seq(Events), NEW d \in Seq(Events)
  PROVE  /\ Joined(Joined(Joined(a, b), c), d) \in Seq(Events)
         /\ Joined(evs, Joined(Joined(Joined(a, b), c), d))
              = Joined(Joined(Joined(Joined(evs, a), b), c), d)
<1>1. Joined(a, b) \in Seq(Events) /\ Joined(evs, a) \in Seq(Events)
  BY JoinedInAnyOrder
<1>2. Joined(Joined(a, b), c) \in Seq(Events)
  BY <1>1, JoinedInAnyOrder
<1>3. Joined(Joined(Joined(a, b), c), d) \in Seq(Events)
  BY <1>2, JoinedInAnyOrder
<1>4. Joined(Joined(evs, a), b) = Joined(evs, Joined(a, b))
  BY JoinedInAnyOrder
<1>5. Joined(Joined(evs, Joined(a, b)), c) = Joined(evs, Joined(Joined(a, b), c))
  BY <1>1, JoinedInAnyOrder
<1>6. Joined(Joined(evs, Joined(Joined(a, b), c)), d)
        = Joined(evs, Joined(Joined(Joined(a, b), c), d))
  BY <1>2, JoinedInAnyOrder
<1> QED
  BY <1>3, <1>4, <1>5, <1>6

(* Earlier(M, lost, msg): what the log holds and lacks is from before msg. *)
Earlier(held, lost, msg) ==
  \A one \in held \cup lost : Before(one, msg)

(* What is news is a state of the game.                                    *)
LEMMA NewsAreStates ==
  ASSUME NEW held, NEW wins, NEW last, NEW lost, NEW msg,
         \A one \in held : Sound(one, wins, last),
         Earlier(held, lost, msg), IsState(msg)
  PROVE  /\ \A one \in News(held) : one.id < msg.id
         /\ \A one \in lost : IsState(one) => one.id < msg.id
         /\ msg.match_state = "GameComplete" =>
              \A one \in Ends(held) : Len(one.results) < Len(msg.results)
<1>1. \A one \in News(held) : one \in held /\ IsState(one)
  BY DEF News, Sound
<1>2. \A one \in Ends(held) : one \in held /\ one.match_state = "GameComplete"
  BY DEF Ends
<1> QED
  BY <1>1, <1>2 DEF Earlier, Before

(* The events of one message report it.                                    *)
LEMMA EmitReports ==
  ASSUME NEW evs \in Seq(Events), NEW held, NEW lost, NEW wins \in Seq(Seats),
         NEW last, NEW local, NEW msg \in Messages,
         Sound(msg, wins, last), \A one \in held : Sound(one, wins, last),
         Earlier(held, lost, msg),
         Report(evs, News(held), Ends(held), lost, wins, local)
  PROVE  /\ emit_gsm_events(msg) \in Seq(StateEvents \cup ResultEvents)
         /\ evs \o emit_gsm_events(msg) \in Seq(Events)
         /\ Report(evs \o emit_gsm_events(msg), News(held \cup {msg}),
                   Ends(held \cup {msg}), lost, wins, local)
<1> DEFINE out == emit_gsm_events(msg)
           s == game_state_message(msg)
           r == game_result(msg)
           all == held \cup {msg}
<1>0. /\ evs \o <<>> = evs /\ <<>> \in Seq(StateEvents \cup ResultEvents)
      /\ StateEvents \subseteq Events /\ ResultEvents \subseteq Events
  BY DEF Events
<1>1. CASE ~IsState(msg)
  <2>1. out = <<>>
    BY <1>1 DEF emit_gsm_events, IsState
  <2>2. News(all) = News(held) /\ Ends(all) = Ends(held)
    BY <1>1 DEF News, Ends, Sound
  <2> QED
    BY <1>0, <2>1, <2>2
<1>2. CASE IsState(msg) /\ msg.stage = "Play"
  <2>1. out = <<s>>
    BY <1>2 DEF emit_gsm_events, IsState, is_game_over
  <2>2. News(all) = News(held) \cup {msg} /\ Ends(all) = Ends(held)
    BY <1>2 DEF News, Ends, Sound
  <2>3. /\ s \in StateEvents /\ IsStateEvent(s) /\ s.game_state_id = msg.id
    BY <1>2, StateEvent
  <2> HIDE DEF s
  <2>4. Report(Append(evs, s), News(held) \cup {msg}, Ends(held), lost, wins,
               local)
    BY <1>0, <1>2, <2>3, NewsAreStates, ReportState
  <2>5. evs \o <<s>> = Append(evs, s) /\ Append(evs, s) \in Seq(Events)
    BY <1>0, <2>3, AppendedOneByOne
  <2>6. out \in Seq(StateEvents \cup ResultEvents)
    BY <2>1, <2>3
  <2> QED
    BY <2>1, <2>2, <2>4, <2>5, <2>6
<1>3. CASE /\ IsState(msg) /\ msg.stage = "GameOver"
           /\ msg.match_state = "MatchComplete"
  <2>1. out = <<>>
    BY <1>3 DEF emit_gsm_events, IsState, is_game_over, is_match_complete
  <2>2. News(all) = News(held) /\ Ends(all) = Ends(held)
    BY <1>3 DEF News, Ends
  <2> QED
    BY <1>0, <2>1, <2>2
<1>4. CASE /\ IsState(msg) /\ msg.stage = "GameOver"
           /\ msg.match_state = "GameComplete"
  <2>1. /\ r \in ResultEvents /\ IsResult(r) /\ r.results = msg.results
        /\ r.winning_team_id = wins[Len(msg.results)]
    BY <1>4, ResultEvent DEF Sound, IsResult
  <2>2. s \in StateEvents /\ IsStateEvent(s) /\ s.game_state_id = msg.id
        /\ s.annotated = msg.annotated
    BY <1>4, StateEvent
  <2>3. /\ \A one \in News(held) : one.id < msg.id
        /\ \A one \in lost : IsState(one) => one.id < msg.id
        /\ \A one \in Ends(held) : Len(one.results) < Len(msg.results)
    BY <1>4, NewsAreStates
  <2>7. Len(msg.results) \in Nat
    <3>1. msg.results \in Results
      BY DEF Messages
    <3> QED
      BY <3>1 DEF Results
  <2>4. Ends(all) = Ends(held) \cup {msg}
    BY <1>4 DEF Ends
  <2>5. CASE ~msg.annotated
    <3>1. out = <<r>>
      BY <1>4, <2>5 DEF emit_gsm_events, IsState, is_game_over,
                        is_match_complete, has_annotation_data
    <3>2. News(all) = News(held)
      BY <1>4, <2>5 DEF News
    <3> HIDE DEF r
    <3>3. Report(Append(evs, r), News(held), Ends(held) \cup {msg}, lost, wins,
                 local)
      BY <1>0, <2>1, <2>3, <2>5, <2>7, ReportResult
    <3>4. evs \o <<r>> = Append(evs, r) /\ Append(evs, r) \in Seq(Events)
      BY <1>0, <2>1, AppendedOneByOne
    <3>5. out \in Seq(StateEvents \cup ResultEvents)
      BY <2>1, <3>1
    <3> QED
      BY <2>4, <3>1, <3>2, <3>3, <3>4, <3>5
  <2>6. CASE msg.annotated
    <3>1. out = <<s, r>>
      BY <1>4, <2>6 DEF emit_gsm_events, IsState, is_game_over,
                        is_match_complete, has_annotation_data
    <3>2. News(all) = News(held) \cup {msg}
      BY <1>4, <2>6 DEF News
    <3> HIDE DEF r, s
    <3> DEFINE shown == Append(evs, s)
    <3>3. Report(shown, News(held) \cup {msg}, Ends(held), lost, wins, local)
      BY <1>0, <2>2, <2>3, ReportState
    <3>4. shown \in Seq(Events) /\ Grown(evs, s, shown)
      BY <1>0, <2>2, AppendGrows
    <3>5. Len(shown) = Len(evs) + 1
      BY <1>0, <2>2
    <3>6. /\ Len(shown) \in StatesOf(shown)
          /\ shown[Len(shown)].game_state_id = msg.id
          /\ shown[Len(shown)].annotated
      <4>1. shown[Len(shown)] = s
        BY <3>4, <3>5 DEF Grown
      <4>2. Len(shown) \in StatesOf(shown)
        BY <2>2, <3>4, <3>5, GrownStates
      <4> QED
        BY <2>2, <2>6, <4>1, <4>2
    <3> HIDE DEF shown
    <3>7. Report(Append(shown, r), News(held) \cup {msg}, Ends(held) \cup {msg},
                 lost, wins, local)
      BY <1>0, <2>1, <2>3, <2>7, <3>3, <3>4, <3>6, ReportResult
    <3>8. /\ evs \o <<s, r>> = Append(shown, r)
          /\ Append(shown, r) \in Seq(Events)
      BY <1>0, <2>1, <2>2, AppendedOneByOne DEF shown
    <3>9. out \in Seq(StateEvents \cup ResultEvents)
      BY <2>1, <2>2, <3>1
    <3> QED
      BY <2>4, <3>1, <3>2, <3>7, <3>8, <3>9
  <2> QED
    BY <2>5, <2>6
<1>5. \/ ~IsState(msg) \/ msg.stage = "Play"
      \/ msg.stage = "GameOver" /\ msg.match_state = "MatchComplete"
      \/ msg.stage = "GameOver" /\ msg.match_state = "GameComplete"
  BY DEF Messages, Sound
<1> QED
  BY <1>1, <1>2, <1>3, <1>4, <1>5


-----------------------------------------------------------------------------
(* The events of one entry, gre_try_parse.                                 *)

(* FlattenSeq joins one sequence after the other.                          *)
IsFlattening(f, s, S) ==
  /\ DOMAIN f = 0 .. Len(s)
  /\ \A i \in 0 .. Len(s) : f[i] \in Seq(S)
  /\ f[0] = <<>>
  /\ \A i \in 1 .. Len(s) : f[i] = f[i - 1] \o s[i]

(* FlattenSeq joins the sequences one by one.                              *)
LEMMA FlattenWalk ==
  ASSUME NEW S, NEW s \in Seq(Seq(S))
  PROVE  \E f : IsFlattening(f, s, S) /\ FlattenSeq(s) = f[Len(s)]
<1> DEFINE n == Len(s)
           X == Seq(S)
           G == [p \in X \X (1 .. n) |-> p[1] \o s[p[2]]]
           Solves(f) ==
             f = [i \in 1 .. n |-> IF i = 1 THEN s[i] ELSE f[i - 1] \o s[i]]
           h == CHOOSE f : Solves(f)
<1>1. n \in Nat /\ \A i \in 1 .. n : s[i] \in X
  OBVIOUS
<1>2. \A a, b \in X : a \o b \in X
  OBVIOUS
<1>3. <<>> \in X /\ \A a \in X : <<>> \o a = a
  OBVIOUS
<1> HIDE DEF X, n
<1>4. IsStep(G, X, n)
  <2>1. ASSUME NEW p \in X \X (1 .. n) PROVE p[1] \o s[p[2]] \in X
    <3>1. p[1] \in X /\ s[p[2]] \in X
      BY <1>1
    <3> QED
      BY <1>2, <3>1
  <2> QED
    BY <2>1 DEF IsStep
<1>5. PICK g : IsWalk(g, G, X, <<>>, n)
  <2> HIDE DEF G
  <2> QED
    BY <1>1, <1>3, <1>4, Walk
<1>6. /\ \A i \in 0 .. n : g[i] \in X
      /\ g[0] = <<>> /\ DOMAIN g = 0 .. n
      /\ \A i \in 1 .. n : g[i] = g[i - 1] \o s[i]
  <2>1. /\ g \in [0 .. n -> X] /\ g[0] = <<>>
        /\ \A i \in 1 .. n : g[i] = G[<<g[i - 1], i>>]
    BY <1>5 DEF IsWalk
  <2> HIDE DEF G
  <2>2. ASSUME NEW i \in 1 .. n PROVE g[i] = g[i - 1] \o s[i]
    <3>1. i - 1 \in 0 .. n
      BY <1>1
    <3>2. g[i - 1] \in X
      BY <2>1, <3>1
    <3>3. G[<<g[i - 1], i>>] = g[i - 1] \o s[i]
      BY <3>2 DEF G
    <3> QED
      BY <2>1, <3>3
  <2> QED
    BY <2>1, <2>2
<1>7. CASE n = 0
  <2>1. FlattenSeq(s) = <<>>
    BY <1>7 DEF FlattenSeq, n
  <2>2. IsFlattening(g, s, S)
    BY <1>6 DEF IsFlattening, n, X
  <2> QED
    BY <1>6, <1>7, <2>1, <2>2 DEF n
<1>8. CASE n # 0
  <2> DEFINE f == [i \in 1 .. n |-> g[i]]
  <2>1. ASSUME NEW i \in 1 .. n
        PROVE  f[i] = IF i = 1 THEN s[i] ELSE f[i - 1] \o s[i]
    <3>1. CASE i = 1
      <4>0. 1 \in 1 .. n /\ 1 - 1 = 0
        BY <3>1
      <4>1. g[1] = g[0] \o s[1] /\ s[1] \in X
        BY <1>1, <1>6, <4>0
      <4> QED
        BY <1>3, <1>6, <3>1, <4>1
    <3>2. CASE i # 1
      <4>1. i - 1 \in 1 .. n
        BY <1>1, <3>2
      <4> QED
        BY <1>6, <3>2, <4>1
    <3> QED
      BY <3>1, <3>2
  <2>2. Solves(f)
    <3>1. f = [i \in 1 .. n |-> f[i]]
      OBVIOUS
    <3> HIDE DEF f
    <3> QED
      BY <2>1, <3>1
  <2>3. Solves(h)
    <3> HIDE DEF Solves
    <3> QED
      BY <2>2
  <2>4. FlattenSeq(s) = h[n]
    BY <1>8 DEF FlattenSeq, n
  <2>5. /\ h[1] = s[1]
        /\ \A i \in 1 .. n : i # 1 => h[i] = h[i - 1] \o s[i]
    <3>1. 1 \in 1 .. n
      BY <1>1, <1>8
    <3> HIDE DEF h
    <3> QED
      BY <2>3, <3>1
  <2> HIDE DEF h
  <2> DEFINE T == {i \in 0 .. n : i # 0 => h[i] = g[i]}
  <2>6. 0 \in T
    BY <1>1
  <2>7. ASSUME NEW i \in 1 .. n, i - 1 \in T PROVE i \in T
    <3>1. i \in 0 .. n
      BY <1>1
    <3>2. CASE i = 1
      <4>1. g[1] = s[1]
        BY <1>1, <1>3, <1>6, <3>2
      <4> QED
        BY <2>5, <3>1, <3>2, <4>1
    <3>3. CASE i # 1
      <4>0. i - 1 # 0
        BY <3>3
      <4>1. h[i] = h[i - 1] \o s[i] /\ h[i - 1] = g[i - 1]
        BY <2>5, <2>7, <3>3, <4>0
      <4> QED
        BY <1>6, <3>1, <4>1
    <3> QED
      BY <3>2, <3>3
  <2> HIDE DEF T
  <2>8. 0 .. n \subseteq T
    BY <1>1, <2>6, <2>7, InductionUpTo
  <2>9. h[n] = g[n]
    <3>1. n \in 0 .. n
      BY <1>1
    <3> QED
      BY <1>8, <2>8, <3>1 DEF T
  <2>10. IsFlattening(g, s, S)
    BY <1>6 DEF IsFlattening, n, X
  <2> QED
    BY <2>4, <2>9, <2>10 DEF n
<1> QED
  BY <1>7, <1>8

(* One message yields states and results only.                             *)
LEMMA EmitTyped ==
  ASSUME NEW msg \in Messages, NEW wins \in Seq(Seats), NEW last,
         Sound(msg, wins, last)
  PROVE  emit_gsm_events(msg) \in Seq(StateEvents \cup ResultEvents)
<1> DEFINE s == game_state_message(msg)
           r == game_result(msg)
<1>1. IsState(msg) => s \in StateEvents
  BY StateEvent
<1>2. msg.match_state = "GameComplete" => r \in ResultEvents
  BY ResultEvent DEF Sound
<1>3. IsState(msg) /\ ~is_game_over(msg) => s \in StateEvents
  BY <1>1
<1>4. IsState(msg) /\ is_game_over(msg) /\ ~is_match_complete(msg)
      => s \in StateEvents /\ r \in ResultEvents
  BY <1>1, <1>2 DEF Sound, is_game_over, is_match_complete, Messages
<1>5. \/ emit_gsm_events(msg) = <<>>
      \/ emit_gsm_events(msg) = <<s>> /\ IsState(msg) /\ ~is_game_over(msg)
      \/ /\ emit_gsm_events(msg) \in {<<s, r>>, <<r>>}
         /\ IsState(msg) /\ is_game_over(msg) /\ ~is_match_complete(msg)
  BY DEF emit_gsm_events, IsState
<1> DEFINE told == StateEvents \cup ResultEvents
           out == emit_gsm_events(msg)
<1>6. /\ <<>> \in Seq(told)
      /\ \A a, b \in told : <<a>> \in Seq(told) /\ <<a, b>> \in Seq(told)
  OBVIOUS
<1>7. \/ out = <<>>
      \/ out = <<s>> /\ s \in told
      \/ out \in {<<s, r>>, <<r>>} /\ s \in told /\ r \in told
  BY <1>3, <1>4, <1>5
<1> HIDE DEF s, r, told, out
<1>8. out \in Seq(told)
  BY <1>6, <1>7
<1> QED
  BY <1>8 DEF out, told

(* What is known of the messages of an entry and of those before it.       *)
FromTheGame(msgs, held, lost, wins, last) ==
  /\ \A msg \in held : Sound(msg, wins, last)
  /\ \A i \in DOMAIN msgs : Sound(msgs[i], wins, last)
  /\ \A i \in DOMAIN msgs : Earlier(held, lost, msgs[i])
  /\ \A i, j \in DOMAIN msgs : i < j => Before(msgs[i], msgs[j])

(* The rich events of an entry report its messages, taken one by one.      *)
LEMMA FlatReports ==
  ASSUME NEW evs \in Seq(Events), NEW msgs \in Seq(Messages),
         NEW held, NEW lost, NEW wins \in Seq(Seats), NEW last, NEW local,
         FromTheGame(msgs, held, lost, wins, last),
         Report(evs, News(held), Ends(held), lost, wins, local),
         NEW flat,
         flat = FlattenSeq([i \in DOMAIN msgs |-> emit_gsm_events(msgs[i])])
  PROVE  /\ flat \in Seq(StateEvents \cup ResultEvents)
         /\ evs \o flat \in Seq(Events)
         /\ Report(evs \o flat, News(held \cup ToSet(msgs)),
                   Ends(held \cup ToSet(msgs)), lost, wins, local)
<1> DEFINE told == StateEvents \cup ResultEvents
           s == [i \in DOMAIN msgs |-> emit_gsm_events(msgs[i])]
           n == Len(msgs)
           upto(k) == held \cup {msgs[i] : i \in 1 .. k}
           Good(x, k) == /\ x \in Seq(Events)
                         /\ Report(x, News(upto(k)), Ends(upto(k)), lost, wins,
                                   local)
<1>1. /\ n \in Nat /\ DOMAIN msgs = 1 .. n
      /\ \A i \in 1 .. n : msgs[i] \in Messages
  OBVIOUS
<1>2. told \subseteq Events
  BY DEF Events
<1>3. \A i \in 1 .. n : s[i] = emit_gsm_events(msgs[i]) /\ s[i] \in Seq(told)
  BY <1>1, EmitTyped DEF FromTheGame
<1>4. s \in Seq(Seq(told)) /\ Len(s) = n
  <2>1. s = [i \in 1 .. n |-> s[i]]
    BY <1>1
  <2> HIDE DEF s, told
  <2> QED
    BY <1>1, <1>3, <2>1
<1> HIDE DEF s, told
<1>5. PICK f : IsFlattening(f, s, told) /\ FlattenSeq(s) = f[n]
  BY <1>4, FlattenWalk
<1>6. /\ \A i \in 0 .. n : f[i] \in Seq(told) /\ f[i] \in Seq(Events)
      /\ f[0] = <<>>
      /\ \A i \in 1 .. n : f[i] = f[i - 1] \o s[i]
  <2>1. \A x \in Seq(told) : x \in Seq(Events)
    BY <1>2
  <2> QED
    BY <1>4, <1>5, <2>1 DEF IsFlattening
<1> HIDE DEF n
<1> DEFINE T == {k \in 0 .. n : Good(evs \o f[k], k)}
<1>7. 0 \in T
  <2>1. evs \o f[0] = evs /\ upto(0) = held /\ 0 \in 0 .. n
    BY <1>1, <1>6
  <2> HIDE DEF upto
  <2> QED
    BY <2>1
<1>8. ASSUME NEW k \in 1 .. n, k - 1 \in T PROVE k \in T
  <2> DEFINE before == evs \o f[k - 1]
  <2>1. /\ before \in Seq(Events) /\ k \in 0 .. n /\ k - 1 \in 0 .. n
        /\ Report(before, News(upto(k - 1)), Ends(upto(k - 1)), lost, wins,
                  local)
    BY <1>1, <1>8
  <2>2. upto(k) = upto(k - 1) \cup {msgs[k]}
    <3>1. 1 .. k = (1 .. k - 1) \cup {k}
      BY <1>1
    <3> QED
      BY <3>1
  <2>3. \A one \in upto(k - 1) : Sound(one, wins, last)
    BY <1>1 DEF FromTheGame
  <2>4. Earlier(upto(k - 1), lost, msgs[k])
    <3>1. \A one \in held \cup lost : Before(one, msgs[k])
      BY <1>1 DEF FromTheGame, Earlier
    <3>2. ASSUME NEW i \in 1 .. k - 1 PROVE Before(msgs[i], msgs[k])
      <4>1. i \in DOMAIN msgs /\ k \in DOMAIN msgs /\ i < k
        BY <1>1
      <4> QED
        BY <4>1 DEF FromTheGame
    <3> QED
      BY <3>1, <3>2 DEF Earlier
  <2>5. msgs[k] \in Messages /\ Sound(msgs[k], wins, last)
    BY <1>1 DEF FromTheGame
  <2>6. evs \o f[k] = before \o emit_gsm_events(msgs[k])
    <3>1. /\ f[k - 1] \in Seq(Events) /\ s[k] \in Seq(Events)
          /\ f[k] = f[k - 1] \o s[k] /\ s[k] = emit_gsm_events(msgs[k])
      <4>1. \A x \in Seq(told) : x \in Seq(Events)
        BY <1>2
      <4> QED
        BY <1>3, <1>6, <2>1, <4>1
    <3>2. (evs \o f[k - 1]) \o s[k] = evs \o (f[k - 1] \o s[k])
      BY <3>1, ThreeParts
    <3> QED
      BY <3>1, <3>2
  <2> HIDE DEF before, upto
  <2>7. /\ before \o emit_gsm_events(msgs[k]) \in Seq(Events)
        /\ Report(before \o emit_gsm_events(msgs[k]),
                  News(upto(k - 1) \cup {msgs[k]}),
                  Ends(upto(k - 1) \cup {msgs[k]}), lost, wins, local)
    BY <2>1, <2>3, <2>4, <2>5, EmitReports
  <2> QED
    BY <2>1, <2>2, <2>6, <2>7
<1> HIDE DEF T
<1>9. 0 .. n \subseteq T
  BY <1>1, <1>7, <1>8, InductionUpTo
<1>10. n \in T /\ n \in 0 .. n
  BY <1>1, <1>9
<1>11. upto(n) = held \cup ToSet(msgs)
  BY <1>1 DEF ToSet
<1>12. flat = f[n]
  BY <1>5 DEF s
<1> HIDE DEF upto
<1> QED
  BY <1>6, <1>10, <1>11, <1>12 DEF T, told

-----------------------------------------------------------------------------
(* Searches for a message.                                                 *)
LEMMA MinIsIn ==
  ASSUME NEW T, T \subseteq Nat, T # {}
  PROVE  Min(T) \in T
BY Least DEF Min

(* The search by type finds a message where there is one.                  *)
LEMMA FindByType ==
  ASSUME NEW msgs \in Seq(Messages), NEW type
  PROVE  /\ find_message_by_type(msgs, type) \in 0 .. Len(msgs)
         /\ find_message_by_type(msgs, type) # 0
              <=> \E msg \in ToSet(msgs) : msg.type = type
<1> DEFINE found == {i \in 1 .. Len(msgs) : msgs[i].type = type}
<1>1. find_message_by_type(msgs, type)
        = IF found # {} THEN Min(found) ELSE 0
  BY DEF find_message_by_type, SelectInSeq
<1>2. found # {} => Min(found) \in found
  <2>1. found \subseteq Nat
    OBVIOUS
  <2> HIDE DEF found
  <2> QED
    BY <2>1, MinIsIn
<1>3. found # {} <=> \E msg \in ToSet(msgs) : msg.type = type
  BY DEF ToSet
<1>4. Len(msgs) \in Nat /\ found \subseteq 1 .. Len(msgs)
  OBVIOUS
<1> HIDE DEF found
<1>5. CASE found = {}
  BY <1>1, <1>3, <1>4, <1>5
<1>6. CASE found # {}
  <2>1. find_message_by_type(msgs, type) \in 1 .. Len(msgs)
    BY <1>1, <1>2, <1>4, <1>6
  <2>2. \A k \in 1 .. Len(msgs) : k \in 0 .. Len(msgs) /\ k # 0
    BY <1>4
  <2> QED
    BY <1>3, <1>6, <2>1, <2>2
<1> QED
  BY <1>5, <1>6

(* The message that tells the local seat.                                  *)
LEMMA FindSeat ==
  ASSUME NEW msgs \in Seq(Messages), NEW local,
         HasConnect(ToSet(msgs)) \/ \A msg \in ToSet(msgs) : Addressed(msg, local)
  PROVE  /\ find_local_seat(msgs) # 0 =>
              /\ find_local_seat(msgs) \in DOMAIN msgs
              /\ msgs[find_local_seat(msgs)].seats = <<local>>
         /\ /\ ~HasConnect(ToSet(msgs))
            /\ \E msg \in ToSet(msgs) :
                 msg.seats = <<local>> /\ msg.type \notin NoiseTypes
            => find_local_seat(msgs) # 0
<1> DEFINE found == {i \in 1 .. Len(msgs) :
                       msgs[i].type \notin NoiseTypes /\ Len(msgs[i].seats) = 1}
<1>1. find_local_seat(msgs)
        = IF HasConnect(ToSet(msgs)) THEN 0
          ELSE IF found # {} THEN Min(found) ELSE 0
  <2>1. find_message_by_type(msgs, "ConnectResp") # 0 <=> HasConnect(ToSet(msgs))
    BY FindByType DEF HasConnect
  <2>2. SelectInSeq(msgs, LAMBDA msg :
          /\ msg.type \notin ToSet(NOISE_MESSAGE_TYPES)
          /\ Len(msg.seats) = 1) = IF found # {} THEN Min(found) ELSE 0
    BY DEF SelectInSeq, NoiseTypes
  <2> QED
    BY <2>1, <2>2 DEF find_local_seat
<1>2. found # {} => Min(found) \in found
  <2>1. found \subseteq Nat
    OBVIOUS
  <2> HIDE DEF found
  <2> QED
    BY <2>1, MinIsIn
<1>3. \A i \in found : i # 0 /\ i \in DOMAIN msgs
  OBVIOUS
<1>4. ASSUME ~HasConnect(ToSet(msgs)), NEW i \in found
      PROVE  msgs[i].seats = <<local>>
  BY <1>4 DEF Addressed, ToSet
<1>5. ASSUME NEW msg \in ToSet(msgs), msg.seats = <<local>>,
             msg.type \notin NoiseTypes
      PROVE  found # {}
  <2>1. Len(<<local>>) = 1
    OBVIOUS
  <2>2. PICK i \in 1 .. Len(msgs) : msgs[i] = msg
    BY <1>5 DEF ToSet
  <2>3. i \in found
    BY <1>5, <2>1, <2>2
  <2> QED
    BY <2>3
<1> HIDE DEF found
<1> QED
  BY <1>1, <1>2, <1>3, <1>4, <1>5


-----------------------------------------------------------------------------
(* Events that change no report.                                           *)
Silent(local) == QuietEvents \cup SeatEventsOf({local})

(* They are events, none of them a state or a result.                      *)
LEMMA SilentEvents ==
  ASSUME NEW local \in Seats, NEW e \in Silent(local)
  PROVE  /\ e \in Events /\ ~IsStateEvent(e) /\ ~IsResult(e)
         /\ e.kind = "LocalSeat" => e.seat = local
<1>1. CASE e \in SeatEventsOf({local})
  BY <1>1 DEF SeatEventsOf, Events, IsStateEvent, IsResult
<1>2. CASE e \in [kind : {"GameState"}, type : {"connect_resp"},
                  system_seat_ids : Seq(Seats)]
  BY <1>2 DEF QuietEvents, Events, IsStateEvent, IsResult, GSM_TYPES
<1>3. CASE e \in [kind : {"GameState"}, type : NoiseTypes]
  <2>1. NoiseTypes = {"UIMessage", "TimerStateMessage", "SetSettingsResp"}
    BY DEF NoiseTypes, NOISE_MESSAGE_TYPES, ToSet
  <2> QED
    BY <1>3, <2>1 DEF QuietEvents, Events, IsStateEvent, IsResult, GSM_TYPES
<1>4. CASE e \in [kind : {"Truncation"} \cup OtherKinds]
  <2>1. e.kind \in {"Truncation"} \cup OtherKinds /\ e \in Events
    BY <1>4 DEF QuietEvents, Events
  <2> QED
    BY <2>1 DEF OtherKinds, IsStateEvent, IsResult
<1> QED
  BY <1>1, <1>2, <1>3, <1>4 DEF Silent, QuietEvents

(* At most one of them, as the parts of gre_try_parse.                     *)
LEMMA SilentReports ==
  ASSUME NEW evs \in Seq(Events), NEW local \in Seats, NEW out,
         out = <<>> \/ \E e \in Silent(local) : out = <<e>>,
         NEW news, NEW ends, NEW lost, NEW wins,
         Report(evs, news, ends, lost, wins, local)
  PROVE  /\ out \in Seq(Events) /\ evs \o out \in Seq(Events)
         /\ Report(evs \o out, news, ends, lost, wins, local)
<1>1. CASE out = <<>>
  BY <1>1
<1>2. ASSUME NEW e \in Silent(local), out = <<e>>
      PROVE  /\ out \in Seq(Events) /\ evs \o out \in Seq(Events)
             /\ Report(evs \o out, news, ends, lost, wins, local)
  <2>1. /\ e \in Events /\ ~IsStateEvent(e) /\ ~IsResult(e)
        /\ e.kind = "LocalSeat" => e.seat = local
    BY SilentEvents
  <2>2. Report(Append(evs, e), news, ends, lost, wins, local)
    BY <2>1, ReportStays
  <2>3. /\ evs \o <<e>> = Append(evs, e) /\ Append(evs, e) \in Seq(Events)
        /\ <<e>> \in Seq(Events)
    BY <2>1, AppendedOneByOne
  <2> QED
    BY <1>2, <2>2, <2>3
<1> QED
  BY <1>1, <1>2

(* Any number of them.                                                     *)
LEMMA SilentSequence ==
  ASSUME NEW evs \in Seq(Events), NEW local \in Seats,
         NEW out \in Seq(Silent(local)),
         NEW news, NEW ends, NEW lost, NEW wins,
         Report(evs, news, ends, lost, wins, local)
  PROVE  /\ evs \o out \in Seq(Events)
         /\ Report(evs \o out, news, ends, lost, wins, local)
<1> DEFINE n == Len(out)
           part(k) == [i \in 1 .. k |-> out[i]]
           T == {k \in 0 .. n :
                   /\ evs \o part(k) \in Seq(Events)
                   /\ Report(evs \o part(k), news, ends, lost, wins, local)}
<1>1. n \in Nat /\ \A i \in 1 .. n : out[i] \in Silent(local)
  OBVIOUS
<1>2. \A k \in 0 .. n : part(k) \in Seq(Events)
  <2>1. \A i \in 1 .. n : out[i] \in Events
    BY <1>1, SilentEvents
  <2> QED
    BY <1>1, <2>1
<1>3. part(0) = <<>> /\ part(n) = out
  OBVIOUS
<1>4. \A k \in 1 .. n : part(k) = part(k - 1) \o <<out[k]>>
  BY <1>1
<1> HIDE DEF part, n
<1>5. 0 \in T
  <2>1. evs \o <<>> = evs
    OBVIOUS
  <2>2. evs \o part(0) = evs /\ 0 \in 0 .. n
    BY <1>1, <1>3, <2>1
  <2> QED
    BY <2>2
<1>6. ASSUME NEW k \in 1 .. n, k - 1 \in T PROVE k \in T
  <2>1. k - 1 \in 0 .. n /\ k \in 0 .. n
    BY <1>1
  <2> DEFINE before == evs \o part(k - 1)
             one == <<out[k]>>
  <2>2. /\ before \in Seq(Events)
        /\ Report(before, news, ends, lost, wins, local)
    BY <1>6
  <2>3. \E e \in Silent(local) : one = <<e>>
    BY <1>1
  <2> HIDE DEF one, before
  <2>4. /\ one \in Seq(Events) /\ before \o one \in Seq(Events)
        /\ Report(before \o one, news, ends, lost, wins, local)
    BY <2>2, <2>3, SilentReports
  <2>5. before \o one = evs \o part(k)
    <3>1. part(k - 1) \in Seq(Events) /\ part(k) = part(k - 1) \o one
      BY <1>2, <1>4, <2>1 DEF one
    <3>2. (evs \o part(k - 1)) \o one = evs \o (part(k - 1) \o one)
      BY <2>4, <3>1, ThreeParts
    <3> QED
      BY <3>1, <3>2 DEF before
  <2> QED
    BY <2>1, <2>4, <2>5
<1> HIDE DEF T
<1>7. 0 .. n \subseteq T
  BY <1>1, <1>5, <1>6, InductionUpTo
<1>8. n \in T
  BY <1>1, <1>7
<1> QED
  BY <1>3, <1>8 DEF T

(* The events of an entry report its messages.                             *)
LEMMA GreReports ==
  ASSUME NEW evs \in Seq(Events), NEW msgs \in Seq(Messages),
         NEW held, NEW lost, NEW wins \in Seq(Seats), NEW last,
         NEW local \in Seats,
         FromTheGame(msgs, held, lost, wins, last),
         HasConnect(ToSet(msgs)) \/ \A msg \in ToSet(msgs) : Addressed(msg, local),
         Report(evs, News(held), Ends(held), lost, wins, local)
  PROVE  /\ gre_try_parse(msgs) \in Seq(Events)
         /\ evs \o gre_try_parse(msgs) \in Seq(Events)
         /\ Report(evs \o gre_try_parse(msgs), News(held \cup ToSet(msgs)),
                   Ends(held \cup ToSet(msgs)), lost, wins, local)
         /\ find_local_seat(msgs) # 0 =>
              \E i \in DOMAIN (evs \o gre_try_parse(msgs)) :
                (evs \o gre_try_parse(msgs))[i].kind = "LocalSeat"
<1> DEFINE connect == find_message_by_type(msgs, "ConnectResp")
           first == IF connect = 0 THEN <<>> ELSE <<connect_resp(msgs[connect])>>
           flat == FlattenSeq([i \in DOMAIN msgs |-> emit_gsm_events(msgs[i])])
           noise == NoiseEvents(msgs)
           told == SeatEvents(msgs)
           news == News(held \cup ToSet(msgs))
           ends == Ends(held \cup ToSet(msgs))
<1>1. gre_try_parse(msgs) = ((first \o flat) \o noise) \o told
  BY DEF gre_try_parse, RichEvents
<1>2. first = <<>> \/ \E e \in Silent(local) : first = <<e>>
  <2> SUFFICES ASSUME connect # 0
               PROVE  connect_resp(msgs[connect]) \in Silent(local)
    OBVIOUS
  <2>1. connect \in 0 .. Len(msgs) /\ Len(msgs) \in Nat
    BY FindByType
  <2> HIDE DEF connect
  <2>2. connect \in 1 .. Len(msgs)
    BY <2>1
  <2>3. msgs[connect].seats \in Seq(Seats)
    <3>1. msgs[connect] \in Messages
      BY <2>2
    <3> QED
      BY <3>1 DEF Messages
  <2> QED
    BY <2>3 DEF Silent, QuietEvents, connect_resp
<1>3. noise = <<>> \/ \E e \in Silent(local) : noise = <<e>>
  <2> DEFINE k == SelectInSeq(NOISE_MESSAGE_TYPES, LAMBDA type :
                    find_message_by_type(msgs, type) # 0)
             found == {i \in 1 .. Len(NOISE_MESSAGE_TYPES) :
                         find_message_by_type(msgs, NOISE_MESSAGE_TYPES[i]) # 0}
  <2>1. k = IF found # {} THEN Min(found) ELSE 0
    BY DEF SelectInSeq
  <2>2. found # {} => Min(found) \in found
    <3>1. found \subseteq Nat
      BY DEF NOISE_MESSAGE_TYPES
    <3> HIDE DEF found
    <3> QED
      BY <3>1, MinIsIn
  <2>3. k = 0 \/ k \in DOMAIN NOISE_MESSAGE_TYPES
    BY <2>1, <2>2 DEF NOISE_MESSAGE_TYPES
  <2>4. \/ noise = <<>>
        \/ noise = <<recognized_type(NOISE_MESSAGE_TYPES[k])>> /\ k # 0
    BY DEF NoiseEvents
  <2> HIDE DEF k, noise
  <2>5. k # 0 => recognized_type(NOISE_MESSAGE_TYPES[k]) \in Silent(local)
    BY <2>3 DEF recognized_type, Silent, QuietEvents, NoiseTypes, ToSet
  <2> QED
    BY <2>4, <2>5
<1>4. /\ told = <<>> \/ \E e \in Silent(local) : told = <<e>>
      /\ find_local_seat(msgs) # 0 =>
           \E e : told = <<e>> /\ e.kind = "LocalSeat"
  <2> DEFINE k == find_local_seat(msgs)
  <2>1. k # 0 => k \in DOMAIN msgs /\ msgs[k].seats = <<local>>
    BY FindSeat
  <2>2. told = IF k = 0 THEN <<>> ELSE <<local_seat(msgs[k].seats[1])>>
    BY DEF SeatEvents
  <2> HIDE DEF k, told
  <2>3. ASSUME k # 0
        PROVE  /\ local_seat(msgs[k].seats[1]) \in Silent(local)
               /\ local_seat(msgs[k].seats[1]).kind = "LocalSeat"
    <3>1. msgs[k].seats[1] = local
      BY <2>1, <2>3
    <3> QED
      BY <3>1 DEF local_seat, Silent, SeatEventsOf
  <2> QED
    BY <2>2, <2>3 DEF k
<1> HIDE DEF first, noise, told
<1>5. /\ first \in Seq(Events) /\ evs \o first \in Seq(Events)
      /\ Report(evs \o first, News(held), Ends(held), lost, wins, local)
  BY <1>2, SilentReports
<1>6. /\ flat \in Seq(StateEvents \cup ResultEvents)
      /\ (evs \o first) \o flat \in Seq(Events)
      /\ Report((evs \o first) \o flat, news, ends, lost, wins, local)
  BY <1>5, FlatReports
<1> HIDE DEF flat, news, ends
<1>7. /\ noise \in Seq(Events)
      /\ ((evs \o first) \o flat) \o noise \in Seq(Events)
      /\ Report(((evs \o first) \o flat) \o noise, news, ends, lost, wins, local)
  BY <1>3, <1>6, SilentReports
<1>8. /\ told \in Seq(Events)
      /\ (((evs \o first) \o flat) \o noise) \o told \in Seq(Events)
      /\ Report((((evs \o first) \o flat) \o noise) \o told, news, ends, lost,
                wins, local)
  BY <1>4, <1>7, SilentReports
<1>9. flat \in Seq(Events)
  <2>1. StateEvents \cup ResultEvents \subseteq Events
    BY DEF Events
  <2> QED
    BY <1>6, <2>1
<1>10. /\ gre_try_parse(msgs) \in Seq(Events)
       /\ evs \o gre_try_parse(msgs)
            = (((evs \o first) \o flat) \o noise) \o told
  <2>1. /\ first \in Seq(Events) /\ flat \in Seq(Events)
        /\ noise \in Seq(Events) /\ told \in Seq(Events)
    BY <1>5, <1>7, <1>8, <1>9
  <2>2. /\ Joined(Joined(Joined(first, flat), noise), told) \in Seq(Events)
        /\ Joined(evs, Joined(Joined(Joined(first, flat), noise), told))
             = Joined(Joined(Joined(Joined(evs, first), flat), noise), told)
    BY <2>1, FourParts
  <2>3. gre_try_parse(msgs) = Joined(Joined(Joined(first, flat), noise), told)
    BY <1>1 DEF Joined
  <2>4. /\ gre_try_parse(msgs) \in Seq(Events)
        /\ Joined(evs, gre_try_parse(msgs))
             = Joined(Joined(Joined(Joined(evs, first), flat), noise), told)
    BY <2>2, <2>3
  <2> QED
    BY <2>4 DEF Joined
<1>11. ASSUME find_local_seat(msgs) # 0
       PROVE  \E i \in DOMAIN (evs \o gre_try_parse(msgs)) :
                (evs \o gre_try_parse(msgs))[i].kind = "LocalSeat"
  <2> DEFINE before == ((evs \o first) \o flat) \o noise
  <2>1. before \in Seq(Events)
    BY <1>7
  <2>2. PICK e : told = <<e>> /\ e.kind = "LocalSeat"
    BY <1>4, <1>11
  <2> HIDE DEF before
  <2>3. e \in Events
    BY <1>8, <2>2
  <2>4. /\ Len(before) + 1 \in DOMAIN (before \o <<e>>)
        /\ (before \o <<e>>)[Len(before) + 1] = e
    BY <2>3
  <2>5. evs \o gre_try_parse(msgs) = before \o <<e>>
    BY <1>10, <2>2 DEF before
  <2> QED
    BY <2>2, <2>4, <2>5
<1> QED
  BY <1>8, <1>10, <1>11 DEF news, ends


-----------------------------------------------------------------------------
(* The router.  The result is the first claim that is not empty.           *)
LEMMA DispatchClaims ==
  ASSUME NEW entry
  PROVE  \/ /\ dispatch_to_parsers(entry) = <<>>
            /\ \A i \in 1 .. 18 : claims(entry)[i] = <<>>
         \/ \E i \in 1 .. 18 : /\ claims(entry)[i] # <<>>
                               /\ dispatch_to_parsers(entry) = claims(entry)[i]
<1> DEFINE c == claims(entry)
           found == {i \in 1 .. Len(c) : c[i] # <<>>}
           k == SelectInSeq(c, LAMBDA some : some # <<>>)
<1>1. Len(c) = 18
  BY DEF claims
<1>2. k = IF found # {} THEN Min(found) ELSE 0
  BY DEF SelectInSeq
<1>3. dispatch_to_parsers(entry) = IF k = 0 THEN <<>> ELSE c[k]
  BY DEF dispatch_to_parsers
<1> HIDE DEF k, c
<1>4. found # {} => Min(found) \in found
  <2>1. found \subseteq Nat
    BY <1>1
  <2> HIDE DEF found
  <2> QED
    BY <2>1, MinIsIn
<1>5. CASE found = {}
  BY <1>1, <1>2, <1>3, <1>5 DEF c
<1>6. CASE found # {}
  <2>1. k \in 1 .. 18 /\ c[k] # <<>>
    BY <1>1, <1>2, <1>4, <1>6
  <2>2. k # 0
    BY <2>1
  <2> QED
    BY <1>3, <2>1, <2>2 DEF c
<1> QED
  BY <1>5, <1>6

(* If only one parser may claim an entry, its claim is the result.         *)
LEMMA OneClaim ==
  ASSUME NEW entry, NEW i \in 1 .. 18,
         \A k \in 1 .. 18 : k # i => claims(entry)[k] = <<>>
  PROVE  dispatch_to_parsers(entry) = claims(entry)[i]
<1> DEFINE c == claims(entry)
           out == dispatch_to_parsers(entry)
<1>1. \/ out = <<>> /\ \A k \in 1 .. 18 : c[k] = <<>>
      \/ \E k \in 1 .. 18 : c[k] # <<>> /\ out = c[k]
  BY DispatchClaims
<1> HIDE DEF c, out
<1>2. \A k \in 1 .. 18 : k # i => c[k] = <<>>
  BY DEF c
<1> QED
  BY <1>1, <1>2 DEF c, out

(* The second of them is truncation.                                       *)
LEMMA SecondClaim ==
  ASSUME NEW entry,
         \A k \in 1 .. 18 : k # 2 => claims(entry)[k] = <<>>
  PROVE  dispatch_to_parsers(entry) = claims(entry)[2]
<1>1. 2 \in 1 .. 18
  OBVIOUS
<1> QED
  BY <1>1, OneClaim

(* Only the third parser claims the entry.                                 *)
LEMMA ThirdClaim ==
  ASSUME NEW entry,
         \A k \in 1 .. 18 : k # 3 => claims(entry)[k] = <<>>
  PROVE  dispatch_to_parsers(entry) = claims(entry)[3]
<1>1. 3 \in 1 .. 18
  OBVIOUS
<1> QED
  BY <1>1, OneClaim

(* The claims, one by one.                                                 *)
LEMMA ClaimsAre ==
  ASSUME NEW entry
  PROVE  /\ claims(entry)[1] = metadata(entry)
         /\ claims(entry)[2] = truncation(entry)
         /\ claims(entry)[3] = gre(entry)
         /\ claims(entry)[4] = course_deck(entry)
         /\ claims(entry)[5] = client_actions(entry)
         /\ claims(entry)[6] = match_state(entry)
         /\ claims(entry)[7] = session(entry)
         /\ claims(entry)[8] = draft_bot(entry)
         /\ claims(entry)[9] = draft_human(entry)
         /\ claims(entry)[10] = draft_complete(entry)
         /\ claims(entry)[11] = event_lifecycle(entry)
         /\ claims(entry)[12] = rank(entry)
         /\ claims(entry)[13] = deck_collection(entry)
         /\ claims(entry)[14] = inventory(entry)
         /\ claims(entry)[15] = deck_submission(entry)
         /\ claims(entry)[16] = connection_state(entry)
         /\ claims(entry)[17] = connection_close(entry)
         /\ claims(entry)[18] = connection_error(entry)
BY DEF claims

(* Nothing but texts of GRE in the body: the other parsers claim nothing.  *)
GreTexts ==
  {"text"} \X {"greToClientEvent", "GameObject Count", "Annotation Count"}

(* An entry of GRE carries the markers of no other parser.                 *)
LEMMA OthersSilent ==
  ASSUME NEW entry, entry.has \subseteq GreTexts,
         entry.header \in {"UnityCrossThreadLogger", "TruncationMarker"}
  PROVE  \A k \in 1 .. 18 : k \notin {2, 3} => claims(entry)[k] = <<>>
<1>1. ASSUME NEW method
      PROVE  ~is_api_request(entry, method) /\ ~is_api_response(entry, method)
  BY DEF is_api_request, is_api_response, GreTexts
<1>2. ASSUME NEW text, text \notin {"greToClientEvent", "GameObject Count",
                                    "Annotation Count"}
      PROVE  ~Has(entry, text)
  BY <1>2 DEF Has, GreTexts
<1>3. \A condition, kind : ~condition => EventIf(condition, kind) = <<>>
  BY DEF EventIf
<1>4. metadata(entry) = <<>> /\ course_deck(entry) = <<>>
  BY <1>1 DEF metadata, course_deck, EventIf
<1>5. client_actions(entry) = <<>> /\ match_state(entry) = <<>>
  BY <1>2 DEF client_actions, match_state, EventIf
<1>6. session(entry) = <<>> /\ draft_complete(entry) = <<>>
  BY <1>2 DEF session, draft_complete, EventIf
<1>7. draft_bot(entry) = <<>> /\ rank(entry) = <<>>
  BY <1>1 DEF draft_bot, rank, EventIf
<1>8. draft_human(entry) = <<>> /\ deck_submission(entry) = <<>>
  BY <1>2 DEF draft_human, deck_submission, EventIf
<1>9. event_lifecycle(entry) = <<>>
  BY <1>1 DEF event_lifecycle, EventIf
<1>10. deck_collection(entry) = <<>> /\ inventory(entry) = <<>>
  BY <1>1 DEF deck_collection, inventory, EventIf
<1>11. connection_state(entry) = <<>> /\ connection_close(entry) = <<>>
  BY <1>2 DEF connection_state, connection_close, EventIf
<1>12. connection_error(entry) = <<>>
  BY <1>2 DEF connection_error, EventIf
<1> QED
  BY <1>4, <1>5, <1>6, <1>7, <1>8, <1>9, <1>10, <1>11, <1>12, ClaimsAre

(* An entry with messages is that of the GRE parser.                       *)
LEMMA DispatchGre ==
  ASSUME NEW entry, entry.header = "UnityCrossThreadLogger",
         entry.has = {<<"text", "greToClientEvent">>}, entry.json = "ok",
         entry.msgs # <<>>
  PROVE  dispatch_to_parsers(entry) = gre_try_parse(entry.msgs)
<1>1. \A k \in 1 .. 18 : k \notin {2, 3} => claims(entry)[k] = <<>>
  <2>1. /\ <<"text", "greToClientEvent">> \in GreTexts
        /\ <<"text", "GameObject Count">> \in GreTexts
        /\ <<"text", "Annotation Count">> \in GreTexts
    BY DEF GreTexts
  <2> QED
    BY <2>1, OthersSilent
<1>2. claims(entry)[2] = <<>>
  BY ClaimsAre DEF truncation, EventIf
<1>3. claims(entry)[3] = gre_try_parse(entry.msgs)
  BY ClaimsAre DEF gre, Has, Parsed
<1>4. \A k \in 1 .. 18 : k # 3 => claims(entry)[k] = <<>>
  BY <1>1, <1>2
<1>5. dispatch_to_parsers(entry) = claims(entry)[3]
  BY <1>4, ThirdClaim
<1> QED
  BY <1>3, <1>5

(* A marker is that of the truncation parser.                              *)
LEMMA DispatchMarker ==
  ASSUME NEW entry, entry.header = "TruncationMarker",
         entry.has = {<<"text", "GameObject Count">>,
                      <<"text", "Annotation Count">>},
         entry.msgs = <<>>
  PROVE  dispatch_to_parsers(entry) = <<Event("Truncation")>>
<1>1. \A k \in 1 .. 18 : k \notin {2, 3} => claims(entry)[k] = <<>>
  <2>1. /\ <<"text", "greToClientEvent">> \in GreTexts
        /\ <<"text", "GameObject Count">> \in GreTexts
        /\ <<"text", "Annotation Count">> \in GreTexts
    BY DEF GreTexts
  <2> QED
    BY <2>1, OthersSilent
<1>2. claims(entry)[2] = <<Event("Truncation")>>
  BY ClaimsAre DEF truncation, EventIf, Has
<1>3. claims(entry)[3] = <<>>
  BY ClaimsAre DEF gre
<1>4. \A k \in 1 .. 18 : k # 2 => claims(entry)[k] = <<>>
  BY <1>1, <1>3
<1>5. dispatch_to_parsers(entry) = claims(entry)[2]
  BY <1>4, SecondClaim
<1> QED
  BY <1>2, <1>5

(* An entry without messages yields events of the other parsers.           *)
LEMMA DispatchOther ==
  ASSUME NEW entry, entry.header # "TruncationMarker", entry.msgs = <<>>,
         entry.courses \in Seq(BOOLEAN)
  PROVE  dispatch_to_parsers(entry) \in Seq([kind : OtherKinds])
<1> DEFINE X == [kind : OtherKinds]
<1>1. ASSUME NEW condition, NEW kind \in OtherKinds
      PROVE  EventIf(condition, kind) \in Seq(X)
  <2>1. Event(kind) \in X
    BY DEF Event
  <2> HIDE DEF X
  <2> QED
    BY <2>1 DEF EventIf
<1>2. \A kind \in OtherKinds : <<Event(kind)>> \in Seq(X)
  <2>1. \A kind \in OtherKinds : Event(kind) \in X
    BY DEF Event
  <2> HIDE DEF X
  <2> QED
    BY <2>1
<1>3. <<>> \in Seq(X)
  OBVIOUS
<1> USE DEF OtherKinds
<1>4. metadata(entry) \in Seq(X) /\ truncation(entry) \in Seq(X)
  BY <1>1, <1>3 DEF metadata, truncation, EventIf
<1>5. gre(entry) \in Seq(X)
  BY <1>3 DEF gre
<1>6. course_deck(entry) \in Seq(X)
  <2> DEFINE found == {k \in DOMAIN entry.courses : entry.courses[k]}
  <2>1. IsFiniteSet(found)
    <3>1. /\ Len(entry.courses) \in Nat
          /\ DOMAIN entry.courses = 1 .. Len(entry.courses)
      OBVIOUS
    <3>2. IsFiniteSet(1 .. Len(entry.courses))
      BY <3>1, FS_Interval
    <3> QED
      BY <3>1, <3>2, FS_Subset
  <2>2. Cardinality(found) \in Nat
    BY <2>1, FS_CardinalityType
  <2>3. Event("CourseDeck") \in X
    BY DEF Event
  <2>4. [i \in 1 .. Cardinality(found) |-> Event("CourseDeck")] \in Seq(X)
    <3> HIDE DEF found, X
    <3> QED
      BY <2>2, <2>3
  <2> QED
    BY <1>3, <2>4 DEF course_deck
<1>7. client_actions(entry) \in Seq(X) /\ match_state(entry) \in Seq(X)
  BY <1>1 DEF client_actions, match_state
<1>8. session(entry) \in Seq(X) /\ draft_bot(entry) \in Seq(X)
  BY <1>1 DEF session, draft_bot
<1>9. draft_human(entry) \in Seq(X) /\ draft_complete(entry) \in Seq(X)
  BY <1>1 DEF draft_human, draft_complete
<1>10. event_lifecycle(entry) \in Seq(X) /\ rank(entry) \in Seq(X)
  BY <1>1 DEF event_lifecycle, rank
<1>11. deck_collection(entry) \in Seq(X) /\ inventory(entry) \in Seq(X)
  BY <1>1 DEF deck_collection, inventory
<1>12. deck_submission(entry) \in Seq(X) /\ connection_state(entry) \in Seq(X)
  BY <1>1 DEF deck_submission, connection_state
<1>13. connection_close(entry) \in Seq(X)
  BY <1>1, <1>2, <1>3 DEF connection_close
<1>14. connection_error(entry) \in Seq(X)
  BY <1>1 DEF connection_error
<1> HIDE DEF X
<1>15. \A k \in 1 .. 18 : claims(entry)[k] \in Seq(X)
  <2> DEFINE c == claims(entry)
             Y == Seq(X)
  <2>1. c[1] \in Y /\ c[2] \in Y /\ c[3] \in Y /\ c[4] \in Y
    BY <1>4, <1>5, <1>6, ClaimsAre
  <2>2. c[5] \in Y /\ c[6] \in Y /\ c[7] \in Y /\ c[8] \in Y
    BY <1>7, <1>8, ClaimsAre
  <2>3. c[9] \in Y /\ c[10] \in Y /\ c[11] \in Y /\ c[12] \in Y
    BY <1>9, <1>10, ClaimsAre
  <2>4. c[13] \in Y /\ c[14] \in Y /\ c[15] \in Y /\ c[16] \in Y
    BY <1>11, <1>12, ClaimsAre
  <2>5. c[17] \in Y /\ c[18] \in Y
    BY <1>13, <1>14, ClaimsAre
  <2> HIDE DEF c, Y
  <2>6. \A k \in 1 .. 6 : c[k] \in Y
    BY <2>1, <2>2
  <2>7. \A k \in 7 .. 12 : c[k] \in Y
    BY <2>2, <2>3
  <2>8. \A k \in 13 .. 18 : c[k] \in Y
    BY <2>4, <2>5
  <2>9. 1 .. 18 = (1 .. 6) \cup (7 .. 12) \cup (13 .. 18)
    OBVIOUS
  <2> QED
    BY <2>6, <2>7, <2>8, <2>9 DEF c, Y
<1>16. dispatch_to_parsers(entry) \in Seq(X)
  BY <1>3, <1>15, DispatchClaims
<1> QED
  BY <1>16 DEF X


-----------------------------------------------------------------------------
(* The game adds a message to the bundle.                                  *)

(* What was sound stays so when games end and states pass.                 *)
Continues(wins, more) ==
  /\ Len(wins) \in Nat /\ Len(more) \in Nat /\ Len(wins) <= Len(more)
  /\ \A k \in 1 .. Len(wins) : more[k] = wins[k]

(* What was sound stays so.                                                *)
LEMMA SoundStays ==
  ASSUME NEW msg \in Messages, NEW wins, NEW more, Continues(wins, more),
         NEW last \in Nat, NEW later \in Nat, last <= later,
         Sound(msg, wins, last)
  PROVE  Sound(msg, more, later)
<1>1. msg.id \in Nat
  BY DEF Messages
<1>2. msg.id <= later
  BY <1>1 DEF Sound
<1>3. ShowsWinners(msg, wins) => ShowsWinners(msg, more)
  <2> SUFFICES ASSUME ShowsWinners(msg, wins) PROVE ShowsWinners(msg, more)
    OBVIOUS
  <2> DEFINE n == Len(msg.results)
  <2>1. n \in 1 .. Len(wins)
    BY DEF ShowsWinners
  <2>2. n \in 1 .. Len(more) /\ \A k \in 1 .. n : more[k] = wins[k]
    BY <2>1 DEF Continues
  <2> QED
    BY <2>2 DEF ShowsWinners
<1> QED
  BY <1>2, <1>3 DEF Sound

(* And so does what was told of ends.                                      *)
LEMMA EndsContinue ==
  ASSUME NEW evs, NEW held, NEW wins, NEW more, Continues(wins, more),
         NEW last, \A msg \in held : Sound(msg, wins, last),
         EndsTold(evs, Ends(held), wins)
  PROVE  EndsTold(evs, Ends(held), more)
<1>1. ASSUME NEW i \in ResultsOf(evs)
      PROVE  evs[i].winning_team_id = more[Len(evs[i].results)]
  <2>1. PICK msg \in Ends(held) : evs[i].results = msg.results
    BY DEF EndsTold
  <2>2. ShowsWinners(msg, wins)
    BY DEF Ends, Sound
  <2>3. Len(evs[i].results) \in 1 .. Len(wins)
    BY <2>1, <2>2 DEF ShowsWinners
  <2> QED
    BY <2>3 DEF EndsTold, Continues
<1> QED
  BY <1>1 DEF EndsTold

(* A message that comes is from after everything there was.                *)
NewMessage(msg) ==
  /\ msg \in Messages
  /\ IsState(msg) => last_id < msg.id
  /\ msg.match_state = "GameComplete" => Len(winners) < Len(msg.results)
  /\ HasConnect(ToSet(bundle) \cup {msg}) \/ Addressed(msg, seat)

(* All that was collected or written is from before the next state.        *)
LEMMA SeenIsBefore ==
  ASSUME TypeOK, NEW one \in Messages, Sound(one, winners, last_id),
         NEW msg, NewMessage(msg)
  PROVE  Before(one, msg)
<1>1. /\ one.id \in Nat /\ msg.id \in Nat /\ last_id \in Nat
      /\ Len(winners) \in Nat
  BY DEF TypeOK, NewMessage, Messages
<1>2. Len(one.results) \in Nat /\ Len(msg.results) \in Nat
  <2>1. one.results \in Results /\ msg.results \in Results
    BY DEF NewMessage, Messages
  <2> QED
    BY <2>1 DEF Results
<1>3. one.id <= last_id
  BY DEF Sound
<1>4. one.match_state = "GameComplete" => Len(one.results) <= Len(winners)
  BY <1>1 DEF Sound, ShowsWinners
<1> QED
  BY <1>1, <1>2, <1>3, <1>4 DEF Before, NewMessage

(* A message that follows all others keeps the invariant.                  *)
LEMMA ReceiveStep ==
  ASSUME IInv, NEW msg, NewMessage(msg), bundle' = Append(bundle, msg),
         UNCHANGED <<seat, log, events>>,
         winners' \in Seq(Seats), Continues(winners, winners'),
         last_id' \in Nat, last_id <= last_id',
         Sound(msg, winners', last_id'),
         phase' = "between" => winners' # <<>>
  PROVE  IInv'
<1>1. /\ bundle \in Seq(Messages) /\ msg \in Messages /\ last_id \in Nat
      /\ winners \in Seq(Seats)
  BY DEF IInv, TypeOK, NewMessage
<1>2. Logged' = Logged /\ Lost' = Lost
  BY DEF Logged, Lost
<1>3. /\ ToSet(bundle') = ToSet(bundle) \cup {msg}
      /\ Len(bundle) \in Nat /\ DOMAIN bundle = 1 .. Len(bundle)
      /\ DOMAIN bundle' = 1 .. Len(bundle) + 1
      /\ \A i \in 1 .. Len(bundle) : bundle'[i] = bundle[i]
      /\ bundle'[Len(bundle) + 1] = msg
  <2>1. PICK more : more = bundle'
    OBVIOUS
  <2>2. Grown(bundle, msg, more)
    BY <1>1, <2>1, AppendGrows
  <2>3. ToSet(more) = ToSet(bundle) \cup {msg}
    BY <2>2, GrownMembers
  <2>4. ToSet(bundle') = ToSet(more)
    BY <2>1 DEF ToSet
  <2> QED
    BY <2>1, <2>2, <2>3, <2>4 DEF Grown
<1>4. TypeOK'
  BY <1>1 DEF IInv, TypeOK
<1>5. \A one \in Logged \cup Lost \cup ToSet(bundle) :
        one \in Messages /\ Sound(one, winners, last_id)
  BY <1>1 DEF IInv, GameOK, ToSet
<1>6. \A one \in Logged \cup Lost \cup ToSet(bundle) : Before(one, msg)
  BY <1>5, SeenIsBefore DEF IInv
<1>7. \A one \in Logged \cup Lost \cup ToSet(bundle) :
        Sound(one, winners', last_id')
  BY <1>1, <1>5, SoundStays
<1>8. GameOK'
  <2>1. (Logged \subseteq Messages /\ Lost \subseteq Messages)'
    BY <1>2, <1>5
  <2>2. \A one \in Logged' \cup Lost' \cup ToSet(bundle') :
          Sound(one, winners', last_id')
    BY <1>2, <1>3, <1>7
  <2>3. \A one \in Logged' \cup Lost', other \in ToSet(bundle') :
          Before(one, other)
    BY <1>2, <1>3, <1>6 DEF IInv, GameOK
  <2>4. ASSUME NEW i \in DOMAIN bundle', NEW j \in DOMAIN bundle', i < j
        PROVE  Before(bundle'[i], bundle'[j])
    <3>1. i \in 1 .. Len(bundle)
      BY <1>3, <2>4
    <3>2. CASE j \in 1 .. Len(bundle)
      BY <1>3, <2>4, <3>1, <3>2 DEF IInv, GameOK
    <3>3. CASE j = Len(bundle) + 1
      BY <1>3, <1>6, <3>1, <3>3 DEF ToSet
    <3> QED
      BY <1>3, <3>2, <3>3
  <2>5. \/ HasConnect(ToSet(bundle'))
        \/ \A one \in ToSet(bundle') : Addressed(one, seat')
    BY <1>3 DEF IInv, GameOK, NewMessage, HasConnect
  <2> QED
    BY <2>1, <2>2, <2>3, <2>4, <2>5 DEF GameOK
<1>9. Report(events', News(Logged'), Ends(Logged'), Lost', winners', seat')
  <2>1. EndsTold(events, Ends(Logged), winners')
    BY <1>5, EndsContinue DEF IInv, Report
  <2> QED
    BY <1>2, <2>1 DEF IInv, Report
<1>10. SeatRecovered'
  BY <1>2 DEF IInv, SeatRecovered, Told
<1> QED
  BY <1>4, <1>8, <1>9, <1>10 DEF IInv

(* The messages of the game are new.                                       *)
LEMMA Unchanged ==
  ASSUME TypeOK
  PROVE  Continues(winners, winners) /\ last_id \in Nat /\ winners \in Seq(Seats)
BY DEF TypeOK, Continues

(* The messages of the game, one action each.                              *)
LEMMA StartGameStep ==
  ASSUME IInv, StartGame
  PROVE  IInv'
<1> DEFINE msg == Message("ConnectResp", <<1, 2>>)
<1>1. /\ Continues(winners, winners) /\ last_id \in Nat /\ winners \in Seq(Seats)
  BY Unchanged DEF IInv
<1>2. msg \in Messages /\ msg.type = "ConnectResp"
  BY DEF Message, Messages, Seats, Results
<1>3. ~IsState(msg) /\ msg.match_state = "none" /\ msg.stage = "none"
  BY DEF Message, IsState, GSM_TYPES
<1>4. NewMessage(msg)
  BY <1>2, <1>3 DEF NewMessage, HasConnect
<1>5. Sound(msg, winners, last_id)
  BY <1>1, <1>3 DEF Sound, Message
<1>6. /\ bundle' = Append(bundle, msg) /\ phase' = "playing"
      /\ UNCHANGED <<seat, log, events, winners, last_id>>
  BY DEF StartGame, Receive
<1> HIDE DEF msg
<1> QED
  BY <1>1, <1>4, <1>5, <1>6, ReceiveStep

(* Of two seats the other is one.                                          *)
LEMMA OpponentIsASeat ==
  ASSUME TypeOK
  PROVE  Opponent \in Seats /\ seat \in Seats
BY DEF TypeOK, Seats, Opponent

(* The results a message shows are those of the games so far.              *)
LEMMA GameResultsAre ==
  ASSUME TypeOK
  PROVE  GameResults \in Results /\ Len(GameResults) = Len(winners)
<1>1. winners \in Seq(Seats) /\ Len(winners) \in Nat
  BY DEF TypeOK
<1>2. \A i \in 1 .. Len(winners) : winners[i] \in Seats
  BY <1>1
<1>3. GameResults
        = [i \in 1 .. Len(winners) |-> [scope |-> "MatchScope_Game",
                                        winningTeamId |-> winners[i]]]
  BY <1>1 DEF GameResults
<1> QED
  BY <1>1, <1>2, <1>3 DEF Results

(* A message keeps its type when its fields are filled in.                 *)
LEMMA Filled ==
  ASSUME NEW msg \in Messages
  PROVE  /\ \A id \in Nat : [msg EXCEPT !.id = id] \in Messages
         /\ \A stage \in {"none", "Play", "GameOver"} :
              [msg EXCEPT !.stage = stage] \in Messages
         /\ \A state \in {"none", "GameComplete", "MatchComplete"} :
              [msg EXCEPT !.match_state = state] \in Messages
         /\ \A results \in Results : [msg EXCEPT !.results = results] \in Messages
         /\ \A flag \in BOOLEAN : [msg EXCEPT !.annotated = flag] \in Messages
BY DEF Messages

(* A message without a state.                                              *)
LEMMA EmptyMessage ==
  ASSUME NEW type \in GSM_TYPES \cup NoiseTypes
                       \cup {"ConnectResp", "MulliganReq", "DieRollResultsResp"},
         NEW seats \in Seq(Seats)
  PROVE  Message(type, seats) \in Messages
<1>1. <<>> \in Results
  BY DEF Results
<1> QED
  BY <1>1 DEF Message, Messages

StateMessage(type, seats, id, stage, results) ==
  [Message(type, seats) EXCEPT !.id = id, !.stage = stage, !.results = results]

EndMessage(type, seats, id, stage, state, results) ==
  [Message(type, seats) EXCEPT !.id = id, !.stage = stage,
                               !.match_state = state, !.results = results]

(* A state of a game.                                                      *)
LEMMA FilledState ==
  ASSUME NEW type \in GSM_TYPES, NEW seats \in Seq(Seats), NEW id \in Nat,
         NEW stage \in {"none", "Play", "GameOver"},
         NEW results \in Results, NEW msg,
         msg = StateMessage(type, seats, id, stage, results)
  PROVE  /\ msg \in Messages
         /\ msg.type = type /\ msg.seats = seats /\ msg.id = id
         /\ msg.stage = stage /\ msg.match_state = "none"
         /\ msg.results = results
<1>1. PICK m1 : m1 = Message(type, seats)
  OBVIOUS
<1>2. PICK m2 : m2 = [m1 EXCEPT !.id = id]
  OBVIOUS
<1>3. PICK m3 : m3 = [m2 EXCEPT !.stage = stage]
  OBVIOUS
<1>4. msg = [m3 EXCEPT !.results = results]
  BY <1>1, <1>2, <1>3 DEF StateMessage
<1>5. m1 \in Messages
  BY <1>1, EmptyMessage
<1>6. m3 \in Messages
  BY <1>2, <1>3, <1>5, Filled
<1>7. msg \in Messages
  BY <1>4, <1>6, Filled
<1> QED
  BY <1>7 DEF StateMessage, Message

(* A state that ends a game or the match.                                  *)
LEMMA FilledEnd ==
  ASSUME NEW type \in GSM_TYPES, NEW seats \in Seq(Seats), NEW id \in Nat,
         NEW stage \in {"none", "Play", "GameOver"},
         NEW state \in {"none", "GameComplete", "MatchComplete"},
         NEW results \in Results, NEW msg,
         msg = EndMessage(type, seats, id, stage, state, results)
  PROVE  /\ msg \in Messages
         /\ msg.type = type /\ msg.seats = seats /\ msg.id = id
         /\ msg.stage = stage /\ msg.match_state = state
         /\ msg.results = results
<1>1. PICK m1 : m1 = Message(type, seats)
  OBVIOUS
<1>2. PICK m2 : m2 = [m1 EXCEPT !.id = id]
  OBVIOUS
<1>3. PICK m3 : m3 = [m2 EXCEPT !.stage = stage]
  OBVIOUS
<1>4. PICK m4 : m4 = [m3 EXCEPT !.match_state = state]
  OBVIOUS
<1>5. msg = [m4 EXCEPT !.results = results]
  BY <1>1, <1>2, <1>3, <1>4 DEF EndMessage
<1>6. m1 \in Messages
  BY <1>1, EmptyMessage
<1>7. m4 \in Messages
  BY <1>2, <1>3, <1>4, <1>6, Filled
<1>8. msg \in Messages
  BY <1>5, <1>7, Filled
<1> QED
  BY <1>8 DEF EndMessage, Message

(* A state is news, whoever it is addressed to.                            *)
LEMMA StateStep ==
  ASSUME IInv, State
  PROVE  IInv'
<1>1. /\ Continues(winners, winners) /\ last_id \in Nat
      /\ winners \in Seq(Seats) /\ bundle \in Seq(Messages)
  BY Unchanged DEF IInv, TypeOK
<1>2. PICK type \in GSM_TYPES, seats \in StateSeats :
        Receive([Message(type, seats) EXCEPT !.id = last_id + 1,
                                             !.stage = "Play",
                                             !.results = GameResults])
  BY DEF State
<1> DEFINE msg == [Message(type, seats) EXCEPT !.id = last_id + 1,
                                               !.stage = "Play",
                                               !.results = GameResults]
<1>4. /\ bundle' = Append(bundle, msg)
      /\ UNCHANGED <<seat, log, events, winners, phase>>
      /\ last_id' = last_id + 1
  BY <1>2 DEF State, Receive
<1>5. \/ seats = <<seat>>
      \/ seats = <<Opponent>> /\ HasConnect(ToSet(bundle))
  BY <1>1, FindByType DEF StateSeats, HasConnect
<1>6. seats \in Seq(Seats)
  <2>1. <<seat>> \in Seq(Seats) /\ <<Opponent>> \in Seq(Seats)
    BY OpponentIsASeat DEF IInv
  <2> QED
    BY <1>5, <2>1
<1> HIDE DEF msg
<1>7. /\ msg \in Messages
      /\ msg.type = type /\ msg.seats = seats /\ msg.id = last_id + 1
      /\ msg.stage = "Play" /\ msg.match_state = "none"
  <2>1. GameResults \in Results /\ last_id + 1 \in Nat
    BY <1>1, GameResultsAre DEF IInv
  <2>2. /\ "Play" \in {"none", "Play", "GameOver"}
        /\ msg = StateMessage(type, seats, last_id + 1, "Play", GameResults)
    BY DEF msg, StateMessage
  <2> QED
    BY <1>6, <2>1, <2>2, FilledState
<1>8. IsState(msg)
  BY <1>7 DEF IsState
<1>9. NewMessage(msg)
  <2>1. HasConnect(ToSet(bundle) \cup {msg}) \/ Addressed(msg, seat)
    BY <1>5, <1>7 DEF HasConnect, Addressed
  <2> QED
    BY <1>1, <1>7, <1>8, <2>1 DEF NewMessage
<1>10. Sound(msg, winners, last_id + 1)
  BY <1>1, <1>7, <1>8 DEF Sound
<1>11. /\ winners' = winners /\ last_id' \in Nat /\ last_id <= last_id'
       /\ phase' = "between" => winners' # <<>>
  BY <1>1, <1>4 DEF IInv, GameOK
<1>12. Sound(msg, winners', last_id')
  BY <1>4, <1>10
<1>13. Continues(winners, winners')
  BY <1>1, <1>4
<1> QED
  BY <1>1, <1>4, <1>9, <1>11, <1>12, <1>13, ReceiveStep

(* A message of a minor type.                                              *)
LEMMA MinorStep ==
  ASSUME IInv, Minor
  PROVE  IInv'
<1>1. /\ Continues(winners, winners) /\ last_id \in Nat
      /\ winners \in Seq(Seats) /\ seat \in Seats /\ Opponent \in Seats
  BY Unchanged, OpponentIsASeat DEF IInv
<1>2. NoiseTypes = {"UIMessage", "TimerStateMessage", "SetSettingsResp"}
  BY DEF NoiseTypes, NOISE_MESSAGE_TYPES, ToSet
<1>3. PICK type, seats :
        /\ Receive(Message(type, seats))
        /\ \/ type = "MulliganReq" /\ seats = <<seat>>
           \/ type = "DieRollResultsResp" /\ seats = <<1, 2>>
           \/ type \in NoiseTypes /\ seats = <<Opponent>>
  BY DEF Minor, NoiseTypes
<1> DEFINE msg == Message(type, seats)
<1>4. /\ bundle' = Append(bundle, msg)
      /\ UNCHANGED <<seat, log, events, winners, last_id>>
      /\ phase' = "between" => winners' # <<>>
  BY <1>3 DEF Minor, Receive, IInv, GameOK
<1>5. seats \in Seq(Seats)
  <2>1. <<seat>> \in Seq(Seats) /\ <<Opponent>> \in Seq(Seats)
    BY <1>1
  <2>2. <<1, 2>> \in Seq(Seats)
    BY DEF Seats
  <2> QED
    BY <1>3, <2>1, <2>2
<1>6. type \in NoiseTypes \cup {"MulliganReq", "DieRollResultsResp"}
  BY <1>3
<1>7. msg \in Messages
  BY <1>5, <1>6 DEF Message, Messages, Results
<1>8. ~IsState(msg) /\ msg.match_state = "none" /\ msg.stage = "none"
  BY <1>2, <1>6 DEF Message, IsState, GSM_TYPES
<1>9. Addressed(msg, seat)
  <2>1. Len(<<1, 2>>) = 2
    OBVIOUS
  <2>2. msg.type = type /\ msg.seats = seats
    BY DEF Message
  <2> HIDE DEF msg
  <2> QED
    BY <1>3, <2>1, <2>2 DEF Addressed
<1>10. Sound(msg, winners, last_id)
  BY <1>1, <1>8 DEF Sound, Message
<1> HIDE DEF msg
<1>11. NewMessage(msg)
  BY <1>7, <1>8, <1>9 DEF NewMessage
<1> QED
  BY <1>1, <1>4, <1>10, <1>11, ReceiveStep

(* A game is over: its result is behind those of the games before it.      *)
LEMMA EndGameStep ==
  ASSUME IInv, EndGame
  PROVE  IInv'
<1>1. /\ last_id \in Nat /\ winners \in Seq(Seats) /\ seat \in Seats
      /\ Len(winners) \in Nat
  BY DEF IInv, TypeOK
<1>2. PICK winner \in {1, 2}, annotated \in BOOLEAN :
        /\ winners' = Append(winners, winner)
        /\ Receive([Message("GameStateMessage", <<seat>>) EXCEPT
                      !.id = last_id + 1,
                      !.stage = "GameOver", !.match_state = "GameComplete",
                      !.results = GameResults', !.annotated = annotated])
  BY DEF EndGame
<1>3. PICK more : more = winners'
  OBVIOUS
<1>4. /\ more \in Seq(Seats) /\ Len(more) = Len(winners) + 1
      /\ \A k \in 1 .. Len(winners) : more[k] = winners[k]
  BY <1>1, <1>2, <1>3 DEF Seats
<1> DEFINE won == GameResults'
           msg == [Message("GameStateMessage", <<seat>>) EXCEPT
                     !.id = last_id + 1,
                     !.stage = "GameOver", !.match_state = "GameComplete",
                     !.results = won, !.annotated = annotated]
           plain == [Message("GameStateMessage", <<seat>>) EXCEPT
                       !.id = last_id + 1,
                       !.stage = "GameOver", !.match_state = "GameComplete",
                       !.results = won]
<1>5. won = [i \in 1 .. Len(more) |-> [scope |-> "MatchScope_Game",
                                       winningTeamId |-> more[i]]]
  <2>1. DOMAIN more = 1 .. Len(more)
    BY <1>4
  <2> QED
    BY <1>3, <2>1 DEF GameResults
<1>6. /\ bundle' = Append(bundle, msg)
      /\ UNCHANGED <<seat, log, events>>
      /\ last_id' = last_id + 1
  BY <1>2 DEF EndGame, Receive
<1> HIDE DEF won
<1>7. won \in Results /\ Len(won) = Len(more)
  <2>1. \A i \in 1 .. Len(more) : more[i] \in Seats
    BY <1>4
  <2>2. Len(more) \in Nat
    BY <1>4
  <2> QED
    BY <1>5, <2>1, <2>2 DEF Results
<1>8. \A k \in 1 .. Len(won) :
        won[k] = [scope |-> "MatchScope_Game", winningTeamId |-> more[k]]
  BY <1>5, <1>7
<1>9. msg = [plain EXCEPT !.annotated = annotated]
  OBVIOUS
<1> HIDE DEF msg, plain
<1>10. /\ plain \in Messages
       /\ plain.type = "GameStateMessage" /\ plain.seats = <<seat>>
       /\ plain.id = last_id + 1 /\ plain.stage = "GameOver"
       /\ plain.match_state = "GameComplete" /\ plain.results = won
  <2>1. <<seat>> \in Seq(Seats) /\ last_id + 1 \in Nat
    BY <1>1
  <2>2. "GameStateMessage" \in GSM_TYPES
    BY DEF GSM_TYPES
  <2>3. /\ "GameOver" \in {"none", "Play", "GameOver"}
        /\ "GameComplete" \in {"none", "GameComplete", "MatchComplete"}
        /\ plain = EndMessage("GameStateMessage", <<seat>>, last_id + 1,
                              "GameOver", "GameComplete", won)
    BY DEF plain, EndMessage
  <2>4. PICK w, seats, id : w = won /\ seats = <<seat>> /\ id = last_id + 1
    OBVIOUS
  <2>5. /\ w \in Results /\ seats \in Seq(Seats) /\ id \in Nat
        /\ plain = EndMessage("GameStateMessage", seats, id, "GameOver",
                              "GameComplete", w)
    BY <1>7, <2>1, <2>3, <2>4
  <2>6. /\ plain \in Messages
        /\ plain.type = "GameStateMessage" /\ plain.seats = seats
        /\ plain.id = id /\ plain.stage = "GameOver"
        /\ plain.match_state = "GameComplete" /\ plain.results = w
    BY <2>2, <2>3, <2>5, FilledEnd
  <2> QED
    BY <2>4, <2>6
<1>16. /\ msg \in Messages
       /\ msg.type = "GameStateMessage" /\ msg.seats = <<seat>>
       /\ msg.id = last_id + 1 /\ msg.stage = "GameOver"
       /\ msg.match_state = "GameComplete" /\ msg.results = won
  <2>1. msg \in Messages
    BY <1>9, <1>10, Filled
  <2> QED
    BY <1>9, <1>10, <2>1 DEF Messages
<1>17. IsState(msg)
  BY <1>16 DEF IsState, GSM_TYPES
<1>11. NewMessage(msg)
  BY <1>1, <1>4, <1>7, <1>16 DEF NewMessage, Addressed
<1>12. ShowsWinners(msg, more)
  BY <1>1, <1>4, <1>7, <1>8, <1>16 DEF ShowsWinners
<1>13. Sound(msg, more, last_id + 1)
  BY <1>1, <1>12, <1>16, <1>17 DEF Sound
<1>14. Continues(winners, more)
  BY <1>1, <1>4 DEF Continues
<1>15. /\ winners' \in Seq(Seats) /\ Continues(winners, winners')
       /\ last_id' \in Nat /\ last_id <= last_id'
       /\ Sound(msg, winners', last_id')
       /\ winners' # <<>>
  BY <1>1, <1>3, <1>4, <1>6, <1>13, <1>14
<1> QED
  BY <1>6, <1>11, <1>15, ReceiveStep

(* The end of the match.                                                   *)
LEMMA EndMatchStep ==
  ASSUME IInv, EndMatch
  PROVE  IInv'
<1>1. /\ Continues(winners, winners) /\ last_id \in Nat
      /\ winners \in Seq(Seats) /\ seat \in Seats
      /\ winners # <<>>
  BY Unchanged DEF IInv, TypeOK, GameOK, EndMatch
<1> DEFINE results == Append(GameResults, [scope |-> "MatchScope_Match",
                                           winningTeamId |-> Last(winners)])
<1>2. PICK seats \in {<<seat>>, <<1, 2>>} :
        Receive([Message("GameStateMessage", seats) EXCEPT
                   !.id = last_id + 1, !.stage = "GameOver",
                   !.match_state = "MatchComplete", !.results = results])
  BY DEF EndMatch
<1> DEFINE msg == [Message("GameStateMessage", seats) EXCEPT
                     !.id = last_id + 1, !.stage = "GameOver",
                     !.match_state = "MatchComplete", !.results = results]
<1>3. /\ bundle' = Append(bundle, msg)
      /\ UNCHANGED <<seat, log, events, winners>>
      /\ last_id' = last_id + 1
  BY <1>2 DEF EndMatch, Receive
<1>4. results \in Results
  <2>1. GameResults \in Results
    BY GameResultsAre DEF IInv
  <2>2. Last(winners) \in Seats
    BY <1>1 DEF Last
  <2> QED
    BY <2>1, <2>2 DEF Results
<1> HIDE DEF msg, results
<1>5. seats \in Seq(Seats) /\ (Len(seats) = 1 => seats = <<seat>>)
  <2>1. <<seat>> \in Seq(Seats)
    BY <1>1
  <2>2. <<1, 2>> \in Seq(Seats) /\ Len(<<1, 2>>) = 2
    BY DEF Seats
  <2>3. CASE seats = <<seat>>
    BY <2>1, <2>3
  <2>4. CASE seats = <<1, 2>>
    BY <2>2, <2>4
  <2> QED
    BY <1>2, <2>3, <2>4
<1>6. /\ msg \in Messages
      /\ msg.type = "GameStateMessage" /\ msg.seats = seats
      /\ msg.id = last_id + 1 /\ msg.stage = "GameOver"
      /\ msg.match_state = "MatchComplete"
  <2>1. last_id + 1 \in Nat
    BY <1>1
  <2>2. "GameStateMessage" \in GSM_TYPES
    BY DEF GSM_TYPES
  <2>3. /\ "GameOver" \in {"none", "Play", "GameOver"}
        /\ "MatchComplete" \in {"none", "GameComplete", "MatchComplete"}
        /\ msg = EndMessage("GameStateMessage", seats, last_id + 1, "GameOver",
                            "MatchComplete", results)
    BY DEF msg, EndMessage
  <2> QED
    BY <1>4, <1>5, <2>1, <2>2, <2>3, FilledEnd
<1>7. IsState(msg)
  BY <1>6 DEF IsState, GSM_TYPES
<1>8. NewMessage(msg)
  BY <1>1, <1>5, <1>6 DEF NewMessage, Addressed
<1>9. Sound(msg, winners, last_id + 1)
  BY <1>1, <1>6, <1>7 DEF Sound
<1>10. /\ winners' \in Seq(Seats) /\ Continues(winners, winners')
       /\ last_id' \in Nat /\ last_id <= last_id'
       /\ Sound(msg, winners', last_id')
       /\ winners' # <<>>
  BY <1>1, <1>3, <1>9
<1> QED
  BY <1>3, <1>8, <1>10, ReceiveStep


-----------------------------------------------------------------------------
(* The game writes an entry, the router makes events of it.                *)
LEMMA LogGrows ==
  ASSUME TypeOK, NEW entry \in Forms \cup GreEntries, log' = Append(log, entry)
  PROVE  /\ log' \in Seq(Forms \cup GreEntries)
         /\ Logged' = Logged \cup ToSet(entry.msgs)
         /\ Lost' = Lost \cup ToSet(entry.lost)
<1>1. log \in Seq(Forms \cup GreEntries)
  BY DEF TypeOK
<1>2. PICK more : more = log'
  OBVIOUS
<1>3. more \in Seq(Forms \cup GreEntries) /\ Grown(log, entry, more)
  BY <1>1, <1>2, AppendGrows
<1> DEFINE MsgsOf(s) == UNION {ToSet(s[i].msgs) : i \in DOMAIN s}
           LostOf(s) == UNION {ToSet(s[i].lost) : i \in DOMAIN s}
<1>4. /\ Logged = MsgsOf(log) /\ Lost = LostOf(log)
      /\ Logged' = MsgsOf(more) /\ Lost' = LostOf(more)
  BY <1>2 DEF Logged, Lost
<1>5. /\ DOMAIN more = DOMAIN log \cup {Len(log) + 1}
      /\ \A i \in DOMAIN log : more[i] = log[i]
      /\ more[Len(log) + 1] = entry
  BY <1>3 DEF Grown
<1>6. MsgsOf(more) = MsgsOf(log) \cup ToSet(entry.msgs)
  BY <1>5
<1>7. LostOf(more) = LostOf(log) \cup ToSet(entry.lost)
  BY <1>5
<1> QED
  BY <1>2, <1>3, <1>4, <1>6, <1>7

(* The consumer still knows the seat.                                      *)
LEMMA SeatStaysKnown ==
  ASSUME events \in Seq(Events), NEW out \in Seq(Events),
         events' = events \o out, Told("LocalSeat") # {}
  PROVE  Told("LocalSeat")' # {}
<1>1. PICK i \in DOMAIN events : events[i].kind = "LocalSeat"
  BY DEF Told
<1>2. PICK evs : evs = events'
  OBVIOUS
<1>3. i \in DOMAIN evs /\ evs[i] = events[i]
  BY <1>2
<1> QED
  BY <1>1, <1>2, <1>3 DEF Told

(* What is left of the invariant when the bundle is written in some form.  *)
LEMMA WrittenStep ==
  ASSUME IInv, NEW entry \in Forms \cup GreEntries, log' = Append(log, entry),
         ToSet(entry.msgs) \cup ToSet(entry.lost) \subseteq ToSet(bundle),
         bundle' \in {bundle, <<>>},
         bundle' = bundle =>
           ToSet(entry.msgs) = {} /\ ToSet(entry.lost) = {},
         events' \in Seq(Events),
         UNCHANGED <<seat, phase, winners, last_id>>
  PROVE  TypeOK' /\ GameOK'
<1>1. /\ log' \in Seq(Forms \cup GreEntries)
      /\ Logged' = Logged \cup ToSet(entry.msgs)
      /\ Lost' = Lost \cup ToSet(entry.lost)
  BY LogGrows DEF IInv
<1>2. bundle \in Seq(Messages) /\ bundle' \in Seq(Messages)
  <2>1. bundle \in Seq(Messages)
    BY DEF IInv, TypeOK
  <2>2. <<>> \in Seq(Messages)
    OBVIOUS
  <2>3. bundle' = bundle \/ bundle' = <<>>
    OBVIOUS
  <2> QED
    BY <2>1, <2>2, <2>3
<1>3. TypeOK'
  BY <1>1, <1>2 DEF IInv, TypeOK
<1>4. ToSet(bundle) \subseteq Messages
  BY <1>2 DEF ToSet
<1>5. Logged' \subseteq Messages /\ Lost' \subseteq Messages
  BY <1>1, <1>4 DEF IInv, GameOK
<1>6. ToSet(bundle') \subseteq ToSet(bundle)
  BY DEF ToSet
<1>7. \A msg \in Logged' \cup Lost' \cup ToSet(bundle') :
        Sound(msg, winners', last_id')
  BY <1>1, <1>6 DEF IInv, GameOK
<1>8. /\ \A one \in Logged' \cup Lost', other \in ToSet(bundle') :
           Before(one, other)
      /\ \A i, j \in DOMAIN bundle' : i < j => Before(bundle'[i], bundle'[j])
      /\ \/ HasConnect(ToSet(bundle'))
         \/ \A msg \in ToSet(bundle') : Addressed(msg, seat')
  <2>1. CASE bundle' = bundle
    <3>1. Logged' = Logged /\ Lost' = Lost
      BY <1>1, <2>1
    <3> QED
      BY <2>1, <3>1 DEF IInv, GameOK
  <2>2. CASE bundle' = <<>>
    <3>1. ToSet(bundle') = {} /\ DOMAIN bundle' = {}
      BY <2>2 DEF ToSet
    <3> QED
      BY <3>1
  <2> QED
    BY <2>1, <2>2
<1>9. phase' = "between" => winners' # <<>>
  BY DEF IInv, GameOK
<1> QED
  BY <1>3, <1>5, <1>7, <1>8, <1>9 DEF GameOK

(* The two forms the game writes a bundle in, while they are still empty.   *)
LEMMA PlainEntries ==
  /\ Entry("UnityCrossThreadLogger", {<<"text", "greToClientEvent">>}, "ok", {},
           <<>>) \in GreEntries
  /\ Entry("TruncationMarker",
           {<<"text", "GameObject Count">>, <<"text", "Annotation Count">>},
           "none", {}, <<>>) \in GreEntries
<1> DEFINE Marks == {"text"} \X
             {"greToClientEvent", "GameObject Count", "Annotation Count"}
<1>0. ASSUME NEW A, NEW B, NEW a \in A, NEW b \in B, NEW c \in B
      PROVE  {<<a, b>>} \in SUBSET (A \X B)
             /\ {<<a, b>>, <<a, c>>} \in SUBSET (A \X B)
  <2>1. <<a, b>> \in A \X B /\ <<a, c>> \in A \X B
    OBVIOUS
  <2> QED
    BY <2>1
<1>1. {<<"text", "greToClientEvent">>} \in SUBSET Marks
  BY <1>0, Zenon
<1>2. {<<"text", "GameObject Count">>, <<"text", "Annotation Count">>}
        \in SUBSET Marks
  <2>1. /\ "GameObject Count" \in {"greToClientEvent", "GameObject Count",
                                    "Annotation Count"}
        /\ "Annotation Count" \in {"greToClientEvent", "GameObject Count",
                                    "Annotation Count"}
        /\ "text" \in {"text"}
    OBVIOUS
  <2> QED
    BY <1>0, <2>1, Zenon
<1>3. PICK one : one = {<<"text", "greToClientEvent">>}
  OBVIOUS
<1>4. PICK two : two = {<<"text", "GameObject Count">>,
                        <<"text", "Annotation Count">>}
  OBVIOUS
<1>5. one \in SUBSET Marks /\ two \in SUBSET Marks
  BY <1>1, <1>2, <1>3, <1>4
<1>6. PICK none : none = <<>> /\ none \in Seq(Messages)
  BY EmptySeq
<1>7. GreEntries = [header : {"UnityCrossThreadLogger", "TruncationMarker"},
                    dated : BOOLEAN, has : SUBSET Marks, json : {"ok", "none"},
                    keys : {{}}, msgs : Seq(Messages), courses : {<<>>},
                    lost : Seq(Messages), documented : {<<>>}]
  BY DEF GreEntries
<1> HIDE DEF Marks
<1>8. Entry("UnityCrossThreadLogger", one, "ok", {}, none) \in GreEntries
  BY <1>5, <1>6, <1>7 DEF Entry
<1>9. Entry("TruncationMarker", two, "none", {}, none) \in GreEntries
  BY <1>5, <1>6, <1>7 DEF Entry
<1> QED
  BY <1>3, <1>4, <1>6, <1>8, <1>9

(* The bundle is written, and the consumer told of its messages.           *)
LEMMA WriteBundleStep ==
  ASSUME IInv, WriteBundle
  PROVE  IInv'
<1> DEFINE plain == Entry("UnityCrossThreadLogger",
                          {<<"text", "greToClientEvent">>}, "ok", {}, <<>>)
           entry == [plain EXCEPT !.msgs = bundle]
           out == gre_try_parse(bundle)
<1>1. /\ bundle # <<>> /\ bundle' = <<>>
      /\ log' = Append(log, entry)
      /\ events' = events \o dispatch_to_parsers(entry)
      /\ UNCHANGED <<seat, phase, winners, last_id>>
  BY DEF WriteBundle, Write
<1>2. /\ bundle \in Seq(Messages) /\ events \in Seq(Events)
      /\ winners \in Seq(Seats) /\ seat \in Seats
  BY DEF IInv, TypeOK
<1>3. entry \in GreEntries
  <2>1. plain \in GreEntries
    BY PlainEntries
  <2> HIDE DEF plain
  <2> QED
    BY <1>2, <2>1 DEF GreEntries
<1>4. /\ entry.header = "UnityCrossThreadLogger" /\ entry.json = "ok"
      /\ entry.has = {<<"text", "greToClientEvent">>}
      /\ entry.msgs = bundle /\ entry.lost = <<>>
  BY DEF Entry
<1> HIDE DEF entry
<1>5. dispatch_to_parsers(entry) = out
  BY <1>1, <1>4, DispatchGre
<1>6. FromTheGame(bundle, Logged, Lost, winners, last_id)
  BY DEF IInv, GameOK, FromTheGame, Earlier, ToSet
<1>7. HasConnect(ToSet(bundle)) \/ \A msg \in ToSet(bundle) : Addressed(msg, seat)
  BY DEF IInv, GameOK
<1>8. /\ out \in Seq(Events) /\ events \o out \in Seq(Events)
      /\ Report(events \o out, News(Logged \cup ToSet(bundle)),
                Ends(Logged \cup ToSet(bundle)), Lost, winners, seat)
      /\ find_local_seat(bundle) # 0 =>
           \E i \in DOMAIN (events \o out) :
             (events \o out)[i].kind = "LocalSeat"
  BY <1>2, <1>6, <1>7, GreReports DEF IInv
<1> HIDE DEF out
<1>9. Logged' = Logged \cup ToSet(bundle) /\ Lost' = Lost
  <2>1. ToSet(<<>>) = {}
    BY DEF ToSet
  <2> QED
    BY <1>1, <1>3, <1>4, <2>1, LogGrows DEF IInv
<1>10. TypeOK' /\ GameOK'
  <2>1. ToSet(<<>>) = {}
    BY DEF ToSet
  <2>2. events' \in Seq(Events)
    BY <1>1, <1>5, <1>8
  <2> QED
    BY <1>1, <1>3, <1>4, <2>1, <2>2, WrittenStep
<1>11. Report(events', News(Logged'), Ends(Logged'), Lost', winners', seat')
  BY <1>1, <1>5, <1>8, <1>9
<1>12. SeatRecovered'
  <2> SUFFICES ASSUME ~HasConnect(Logged'),
                      NEW msg \in Logged', msg.seats = <<seat>>,
                      msg.type \notin NoiseTypes
               PROVE  Told("LocalSeat")' # {}
    BY <1>1 DEF SeatRecovered, HasConnect, NoiseTypes
  <2>1. CASE msg \in Logged
    <3>1. Told("LocalSeat") # {}
      BY <1>9, <2>1 DEF IInv, SeatRecovered, HasConnect, NoiseTypes
    <3> QED
      BY <1>1, <1>2, <1>5, <1>8, <3>1, SeatStaysKnown
  <2>2. CASE msg \in ToSet(bundle)
    <3>1. ~HasConnect(ToSet(bundle))
      BY <1>9 DEF HasConnect
    <3>2. find_local_seat(bundle) # 0
      BY <1>2, <1>7, <2>2, <3>1, FindSeat
    <3>3. \E i \in DOMAIN (events \o out) :
            (events \o out)[i].kind = "LocalSeat"
      BY <1>8, <3>2
    <3> QED
      BY <1>1, <1>5, <3>3 DEF Told
  <2> QED
    BY <1>9, <2>1, <2>2
<1> QED
  BY <1>10, <1>11, <1>12 DEF IInv

(* Every state the consumer has is from before those in the bundle.        *)
LEMMA ToldIsBefore ==
  ASSUME IInv
  PROVE  \A i \in StatesOf(events), msg \in ToSet(bundle) :
           IsState(msg) => events[i].game_state_id < msg.id
<1> SUFFICES ASSUME NEW i \in StatesOf(events), NEW msg \in ToSet(bundle),
                    IsState(msg)
             PROVE  events[i].game_state_id < msg.id
  OBVIOUS
<1>1. PICK one \in News(Logged) : events[i].game_state_id = one.id
  BY DEF IInv, Report, StatesTold
<1>2. one \in Logged /\ IsState(one)
  BY DEF News, IInv, GameOK, Sound
<1>3. Before(one, msg)
  BY <1>2 DEF IInv, GameOK
<1> QED
  BY <1>1, <1>2, <1>3 DEF Before

(* Only a marker is written, and the gap is told.                          *)
LEMMA SummarizeBundleStep ==
  ASSUME IInv, SummarizeBundle
  PROVE  IInv'
<1> DEFINE plain == Entry("TruncationMarker",
                          {<<"text", "GameObject Count">>,
                           <<"text", "Annotation Count">>}, "none", {}, <<>>)
           entry == [plain EXCEPT !.lost = bundle]
           e == Event("Truncation")
<1>1. /\ bundle' = <<>>
      /\ log' = Append(log, entry)
      /\ events' = events \o dispatch_to_parsers(entry)
      /\ UNCHANGED <<seat, phase, winners, last_id>>
  BY DEF SummarizeBundle, Write
<1>2. /\ bundle \in Seq(Messages) /\ events \in Seq(Events) /\ seat \in Seats
  BY DEF IInv, TypeOK
<1>3. entry \in GreEntries
  <2>1. plain \in GreEntries
    BY PlainEntries
  <2> HIDE DEF plain
  <2> QED
    BY <1>2, <2>1 DEF GreEntries
<1>4. /\ entry.header = "TruncationMarker"
      /\ entry.has = {<<"text", "GameObject Count">>,
                      <<"text", "Annotation Count">>}
      /\ entry.msgs = <<>> /\ entry.lost = bundle
  BY DEF Entry
<1> HIDE DEF entry
<1>5. dispatch_to_parsers(entry) = <<e>>
  BY <1>4, DispatchMarker
<1>6. e.kind = "Truncation" /\ e \in Silent(seat)
  BY DEF Event, Silent, QuietEvents, OtherKinds
<1> HIDE DEF e
<1>7. e \in Events /\ ~IsStateEvent(e) /\ ~IsResult(e) /\ e.kind # "LocalSeat"
  BY <1>2, <1>6, SilentEvents
<1>8. /\ events \o <<e>> = Append(events, e) /\ Append(events, e) \in Seq(Events)
      /\ <<e>> \in Seq(Events)
  BY <1>2, <1>7, AppendedOneByOne
<1>9. Report(Append(events, e), News(Logged), Ends(Logged), Lost, winners, seat)
  BY <1>2, <1>7, ReportStays DEF IInv
<1>10. GapsTold(Append(events, e), Lost \cup ToSet(bundle))
  <2>1. Grown(events, e, Append(events, e))
    BY <1>2, <1>7, AppendGrows
  <2>2. GapsTold(events, Lost)
    BY DEF IInv, Report
  <2> QED
    BY <1>6, <2>1, <2>2, ToldIsBefore, GapsMark
<1>11. Logged' = Logged /\ Lost' = Lost \cup ToSet(bundle)
  <2>1. ToSet(<<>>) = {}
    BY DEF ToSet
  <2> QED
    BY <1>1, <1>3, <1>4, <2>1, LogGrows DEF IInv
<1>12. TypeOK' /\ GameOK'
  <2>1. ToSet(<<>>) = {}
    BY DEF ToSet
  <2>2. events' \in Seq(Events)
    BY <1>1, <1>5, <1>8
  <2>3. bundle' = bundle => ToSet(bundle) = {}
    BY <1>1, <2>1
  <2> QED
    BY <1>1, <1>3, <1>4, <2>1, <2>2, <2>3, WrittenStep
<1>13. Report(events', News(Logged'), Ends(Logged'), Lost', winners', seat')
  <2>1. events' = Append(events, e)
    BY <1>1, <1>5, <1>8
  <2> QED
    BY <1>1, <1>9, <1>10, <1>11, <2>1 DEF Report
<1>14. SeatRecovered'
  <2>1. Told("LocalSeat") # {} => Told("LocalSeat")' # {}
    BY <1>1, <1>2, <1>5, <1>8, SeatStaysKnown
  <2> QED
    BY <1>1, <1>11, <2>1 DEF IInv, SeatRecovered
<1> QED
  BY <1>12, <1>13, <1>14 DEF IInv

(* An entry of another parser changes no report.                           *)
LEMMA WriteOtherStep ==
  ASSUME IInv, WriteOther
  PROVE  IInv'
<1>1. PICK entry \in Forms : Write(entry)
  BY DEF WriteOther
<1> DEFINE out == dispatch_to_parsers(entry)
<1>2. /\ log' = Append(log, entry) /\ events' = events \o out
      /\ UNCHANGED <<seat, phase, winners, last_id, bundle>>
  BY <1>1 DEF WriteOther, Write
<1>3. /\ events \in Seq(Events) /\ seat \in Seats /\ bundle \in Seq(Messages)
  BY DEF IInv, TypeOK
<1>4. /\ entry.msgs = <<>> /\ entry.lost = <<>> /\ entry.courses \in Seq(BOOLEAN)
      /\ entry.header # "TruncationMarker"
  BY FormsAssumption
<1>5. ToSet(entry.msgs) = {} /\ ToSet(entry.lost) = {}
  BY <1>4 DEF ToSet
<1>6. out \in Seq([kind : OtherKinds])
  BY <1>4, DispatchOther
<1> HIDE DEF out
<1>7. out \in Seq(Silent(seat)) /\ out \in Seq(Events)
  <2>1. [kind : OtherKinds] \subseteq Silent(seat)
    BY DEF Silent, QuietEvents
  <2>2. [kind : OtherKinds] \subseteq Events
    BY DEF Events, QuietEvents
  <2>3. PICK narrow, quiet, all :
          /\ narrow = [kind : OtherKinds] /\ quiet = Silent(seat) /\ all = Events
          /\ narrow \subseteq quiet /\ narrow \subseteq all
    BY <2>1, <2>2
  <2>4. out \in Seq(narrow)
    BY <1>6, <2>3
  <2>5. out \in Seq(quiet) /\ out \in Seq(all)
    BY <2>3, <2>4, SeqMonotonic
  <2> QED
    BY <2>3, <2>5
<1>8. /\ events \o out \in Seq(Events)
      /\ Report(events \o out, News(Logged), Ends(Logged), Lost, winners, seat)
  BY <1>3, <1>7, SilentSequence DEF IInv
<1>9. Logged' = Logged /\ Lost' = Lost
  BY <1>2, <1>5, LogGrows DEF IInv
<1>10. TypeOK' /\ GameOK'
  <2>1. events' \in Seq(Events)
    BY <1>2, <1>8
  <2> QED
    BY <1>2, <1>5, <2>1, WrittenStep
<1>11. Report(events', News(Logged'), Ends(Logged'), Lost', winners', seat')
  BY <1>2, <1>8, <1>9
<1>12. SeatRecovered'
  <2>1. Told("LocalSeat") # {} => Told("LocalSeat")' # {}
    BY <1>2, <1>3, <1>7, SeatStaysKnown
  <2> QED
    BY <1>2, <1>9, <2>1 DEF IInv, SeatRecovered
<1> QED
  BY <1>10, <1>11, <1>12 DEF IInv

(* Steps that write nothing.                                               *)
LEMMA Stutter ==
  ASSUME IInv, UNCHANGED <<seat, phase, winners, last_id, bundle, log, events>>
  PROVE  IInv'
<1>1. Logged' = Logged /\ Lost' = Lost /\ Told("LocalSeat")' = Told("LocalSeat")
  BY DEF Logged, Lost, Told
<1>2. TypeOK'
  BY DEF IInv, TypeOK
<1>3. GameOK'
  BY <1>1 DEF IInv, GameOK
<1>4. SeatRecovered'
  BY <1>1 DEF IInv, SeatRecovered
<1>5. Report(events', News(Logged'), Ends(Logged'), Lost', winners', seat')
  BY <1>1 DEF IInv
<1> QED
  BY <1>2, <1>3, <1>4, <1>5 DEF IInv

-----------------------------------------------------------------------------
(* The invariant holds before the first message.                           *)
LEMMA InvInit == Init => IInv
<1> SUFFICES ASSUME Init PROVE IInv
  OBVIOUS
<1>1. /\ seat \in Seats /\ winners = <<>> /\ last_id = 0 /\ bundle = <<>>
      /\ log = <<>> /\ events = <<>> /\ phase # "between"
  BY DEF Init
<1>2. TypeOK
  BY <1>1 DEF TypeOK
<1>3. Logged = {} /\ Lost = {} /\ ToSet(bundle) = {} /\ DOMAIN bundle = {}
  BY <1>1 DEF Logged, Lost, ToSet
<1>4. GameOK
  BY <1>1, <1>3 DEF GameOK
<1>5. News({}) = {} /\ Ends({}) = {}
  BY DEF News, Ends
<1>6. Report(<<>>, {}, {}, {}, winners, seat)
  <2>1. StatesOf(<<>>) = {} /\ ResultsOf(<<>>) = {}
    BY DEF StatesOf, ResultsOf
  <2>2. StatesTold(<<>>, {})
    BY <2>1 DEF StatesTold
  <2>3. EndsTold(<<>>, {}, winners)
    BY <2>1 DEF EndsTold
  <2>4. BlowsTold(<<>>, {}) /\ GapsTold(<<>>, {}) /\ SeatsTold(<<>>, seat)
    BY <2>1 DEF BlowsTold, GapsTold, SeatsTold
  <2> QED
    BY <2>2, <2>3, <2>4 DEF Report
<1>7. SeatRecovered
  BY <1>3 DEF SeatRecovered
<1> QED
  BY <1>1, <1>2, <1>3, <1>4, <1>5, <1>6, <1>7 DEF IInv

(* Every step keeps it.                                                    *)
LEMMA InvStep == IInv /\ [Next]_vars => IInv'
<1> SUFFICES ASSUME IInv, [Next]_vars PROVE IInv'
  OBVIOUS
<1>1. CASE StartGame
  BY <1>1, StartGameStep
<1>2. CASE State
  BY <1>2, StateStep
<1>3. CASE Minor
  BY <1>3, MinorStep
<1>4. CASE EndGame
  BY <1>4, EndGameStep
<1>5. CASE EndMatch
  BY <1>5, EndMatchStep
<1>6. CASE WriteBundle
  BY <1>6, WriteBundleStep
<1>7. CASE SummarizeBundle
  BY <1>7, SummarizeBundleStep
<1>8. CASE WriteOther
  BY <1>8, WriteOtherStep
<1>9. CASE ResetStats
  BY <1>9, Stutter DEF ResetStats
<1>10. CASE Terminated \/ UNCHANGED vars
  BY <1>10, Stutter DEF Terminated, vars
<1> QED
  BY <1>1, <1>2, <1>3, <1>4, <1>5, <1>6, <1>7, <1>8, <1>9, <1>10 DEF Next

(* The properties follow from the report.                                  *)
LEMMA ReportTells ==
  ASSUME IInv
  PROVE  StatesInOrder /\ GameEndTold /\ LocalSeatTold /\ GapsMarked
<1>1. /\ StatesTold(events, News(Logged))
      /\ EndsTold(events, Ends(Logged), winners)
      /\ BlowsTold(events, Ends(Logged))
      /\ GapsTold(events, Lost) /\ SeatsTold(events, seat)
  BY DEF IInv, Report
<1>2. /\ StatesOf(events) = ToldStates
      /\ ResultsOf(events) = Told("GameResult")
      /\ Ends(Logged) = GameEnds
  BY DEF StatesOf, ToldStates, ResultsOf, Told, Ends, GameEnds
<1>3. StatesInOrder
  BY <1>1, <1>2 DEF StatesTold, StatesInOrder, News
<1>4. OneResultPerGame
  BY <1>1, <1>2 DEF EndsTold, OneResultPerGame
<1>5. KillingBlowFirst
  BY <1>1, <1>2 DEF BlowsTold, KillingBlowFirst
<1>6. SeatIsLocal
  BY <1>1 DEF SeatsTold, SeatIsLocal, Told
<1>7. GapsMarked
  <2> SUFFICES ASSUME NEW msg \in Lost, IsState(msg),
                      NEW i \in ToldStates, NEW j \in ToldStates,
                      events[i].game_state_id < msg.id,
                      msg.id < events[j].game_state_id
               PROVE  \E t \in Told("Truncation") : i < t /\ t < j
    BY DEF GapsMarked
  <2>1. PICK t \in DOMAIN events :
          /\ events[t].kind = "Truncation"
          /\ \A k \in ToldStates :
               /\ k < t => events[k].game_state_id < msg.id
               /\ t < k => msg.id < events[k].game_state_id
    BY <1>1, <1>2 DEF GapsTold
  <2>2. t \notin ToldStates
    BY <2>1 DEF ToldStates, IsStateEvent
  <2>3. /\ i \in Nat /\ j \in Nat /\ t \in Nat
        /\ msg.id \in Nat
        /\ events[i].game_state_id \in Nat /\ events[j].game_state_id \in Nat
    <3>1. events \in Seq(Events) /\ Lost \subseteq Messages /\ Logged \subseteq Messages
      BY DEF IInv, TypeOK, GameOK
    <3>2. \A k \in ToldStates : \E one \in Logged : events[k].game_state_id = one.id
      BY <1>1, <1>2 DEF StatesTold, News
    <3>3. \A one \in Messages : one.id \in Nat
      BY DEF Messages
    <3> QED
      BY <3>1, <3>2, <3>3 DEF ToldStates
  <2>4. i < t
    BY <2>1, <2>2, <2>3
  <2>5. t < j
    BY <2>1, <2>2, <2>3
  <2> QED
    BY <2>1, <2>4, <2>5 DEF Told
<1> QED
  BY <1>3, <1>4, <1>5, <1>6, <1>7 DEF GameEndTold, LocalSeatTold, IInv

(* The invariant holds in every session.                                   *)
THEOREM Invariance == Spec => []IInv
BY InvInit, InvStep, PTL DEF Spec

(* However the game bundles its messages and whatever it leaves out, the   *)
(* states of the log are told once and in the order of the game.           *)
THEOREM OrderTold == Spec => []StatesInOrder
BY Invariance, ReportTells, PTL

(* Of a match of any number of games each end the log holds is told, once, *)
(* with its winner, behind the state that shows it.                        *)
THEOREM EndsOfGamesTold == Spec => []GameEndTold
BY Invariance, ReportTells, PTL

(* The seat is told as soon as the log tells it, and never the opponent's. *)
THEOREM SeatTold == Spec => []LocalSeatTold
BY Invariance, ReportTells, PTL

(* Every state that is only marked leaves a Truncation at its place.       *)
THEOREM GapsTruncated == Spec => []GapsMarked
BY Invariance, ReportTells, PTL

-----------------------------------------------------------------------------
(* Sequences joined: how many elements of a kind they have, and what they  *)
(* are flattened to.                                                       *)

(* The places of the members of S in a sequence.                           *)
Places(s, S) == {i \in DOMAIN s : s[i] \in S}

(* Places are finitely many.                                               *)
LEMMA PlacesFinite ==
  ASSUME NEW T, NEW s \in Seq(T), NEW S
  PROVE  IsFiniteSet(Places(s, S)) /\ Cardinality(Places(s, S)) \in Nat
<1>1. Len(s) \in Nat /\ DOMAIN s = 1 .. Len(s)
  OBVIOUS
<1>2. PICK n : n = Len(s)
  OBVIOUS
<1>3. PICK D, P : D = 1 .. n /\ P = Places(s, S)
  OBVIOUS
<1>4. P \subseteq D
  BY <1>1, <1>2, <1>3 DEF Places
<1>5. IsFiniteSet(D)
  BY <1>1, <1>2, <1>3, FS_Interval
<1>6. IsFiniteSet(P) /\ Cardinality(P) \in Nat
  BY ONLY <1>4, <1>5, FS_Subset, FS_CardinalityType
<1> QED
  BY <1>3, <1>6

(* Of two sequences there are the members of both.                         *)
LEMMA CountJoined ==
  ASSUME NEW T, NEW s \in Seq(T), NEW t \in Seq(T), NEW S
  PROVE  Cardinality(Places(s \o t, S))
           = Cardinality(Places(s, S)) + Cardinality(Places(t, S))
<1>1. /\ Len(s) \in Nat /\ DOMAIN s = 1 .. Len(s)
      /\ Len(t) \in Nat /\ DOMAIN t = 1 .. Len(t)
      /\ DOMAIN (s \o t) = 1 .. Len(s) + Len(t)
      /\ \A i \in 1 .. Len(s) + Len(t) :
           (s \o t)[i] = IF i <= Len(s) THEN s[i] ELSE t[i - Len(s)]
  OBVIOUS
<1>2. PICK n, m : n = Len(s) /\ m = Len(t)
  OBVIOUS
<1>3. PICK A, B, C, J : /\ A = Places(s, S) /\ B = Places(t, S)
                        /\ C = {n + i : i \in B} /\ J = Places(s \o t, S)
  OBVIOUS
<1>4. A \subseteq 1 .. n /\ B \subseteq 1 .. m /\ n \in Nat /\ m \in Nat
  BY <1>1, <1>2, <1>3 DEF Places
<1>5. J = A \cup C
  <2>1. ASSUME NEW i \in J PROVE i \in A \cup C
    <3>1. i \in 1 .. n + m /\ (s \o t)[i] \in S
      BY <1>1, <1>2, <1>3 DEF Places
    <3>2. CASE i <= n
      <4>1. i \in 1 .. n /\ s[i] \in S
        BY <1>1, <1>2, <1>4, <3>1, <3>2
      <4> QED
        BY <1>1, <1>2, <1>3, <4>1 DEF Places
    <3>3. CASE ~(i <= n)
      <4>1. i - n \in 1 .. m /\ t[i - n] \in S /\ i = n + (i - n)
        BY <1>1, <1>2, <1>4, <3>1, <3>3
      <4>2. i - n \in B
        BY <1>1, <1>2, <1>3, <4>1 DEF Places
      <4> QED
        BY <1>3, <4>1, <4>2
    <3> QED
      BY <3>2, <3>3
  <2>2. ASSUME NEW i \in A PROVE i \in J
    <3>1. i \in 1 .. n /\ s[i] \in S
      BY <1>1, <1>2, <1>3 DEF Places
    <3>2. i \in 1 .. n + m /\ (s \o t)[i] = s[i]
      BY <1>1, <1>2, <1>4, <3>1
    <3> QED
      BY <1>1, <1>2, <1>3, <3>1, <3>2 DEF Places
  <2>3. ASSUME NEW i \in C PROVE i \in J
    <3>1. PICK k \in B : i = n + k
      BY <1>3
    <3>2. k \in 1 .. m /\ t[k] \in S
      BY <1>1, <1>2, <1>3 DEF Places
    <3>3. i \in 1 .. n + m /\ ~(i <= n) /\ i - n = k
      BY <1>4, <3>1, <3>2
    <3>4. (s \o t)[i] = t[k]
      BY <1>1, <1>2, <3>3
    <3> QED
      BY <1>1, <1>2, <1>3, <3>2, <3>3, <3>4 DEF Places
  <2> QED
    BY <2>1, <2>2, <2>3
<1>6. IsFiniteSet(A) /\ IsFiniteSet(B)
  BY <1>3, PlacesFinite
<1>7. IsFiniteSet(C) /\ Cardinality(C) = Cardinality(B)
  <2>1. PICK f : f = [i \in B |-> n + i]
    OBVIOUS
  <2>2. \A i \in B : i \in Nat
    BY <1>4
  <2>3. f \in Bijection(B, C)
    <3>1. f \in [B -> C]
      BY <1>3, <2>1
    <3>2. \A i, j \in B : f[i] = f[j] => i = j
      BY <1>4, <2>1, <2>2
    <3>3. \A y \in C : \E i \in B : f[i] = y
      BY <1>3, <2>1
    <3> QED
      BY <3>1, <3>2, <3>3 DEF Bijection, Injection, IsInjective, Surjection
  <2>4. ExistsBijection(B, C)
    BY <2>3 DEF ExistsBijection
  <2> QED
    BY <1>6, <2>4, FS_Bijection
<1>8. A \cap C = {}
  BY <1>3, <1>4
<1>9. Cardinality(J) = Cardinality(A) + Cardinality(C) - Cardinality({})
  BY <1>5, <1>6, <1>7, <1>8, FS_Union
<1>10. /\ Cardinality(A) \in Nat /\ Cardinality(C) \in Nat
       /\ Cardinality({}) = 0
  BY <1>6, <1>7, FS_CardinalityType, FS_EmptySet
<1>11. Cardinality(J) = Cardinality(A) + Cardinality(B)
  BY <1>7, <1>9, <1>10
<1> QED
  BY <1>3, <1>11

(* A single one is counted or not.                                         *)
LEMMA CountOne ==
  ASSUME NEW e, NEW S
  PROVE  Cardinality(Places(<<e>>, S)) = One(e \in S)
<1>1. Places(<<e>>, S) = IF e \in S THEN {1} ELSE {}
  BY DEF Places
<1>2. Cardinality({1}) = 1 /\ Cardinality({}) = 0
  BY FS_Singleton, FS_EmptySet
<1> QED
  BY <1>1, <1>2 DEF One

(* A sequence without members of S has none.                               *)
LEMMA CountNone ==
  ASSUME NEW s, NEW S, \A i \in DOMAIN s : s[i] \notin S
  PROVE  Cardinality(Places(s, S)) = 0
<1>1. Places(s, S) = {}
  BY DEF Places
<1> QED
  BY <1>1, FS_EmptySet

(* What is flattened is empty when all its parts are.                      *)
LEMMA FlattenEmpty ==
  ASSUME NEW S, NEW s \in Seq(Seq(S))
  PROVE  /\ FlattenSeq(s) \in Seq(S)
         /\ FlattenSeq(s) = <<>> <=> \A i \in DOMAIN s : s[i] = <<>>
<1> DEFINE n == Len(s)
<1>1. n \in Nat /\ DOMAIN s = 1 .. n /\ \A i \in 1 .. n : s[i] \in Seq(S)
  OBVIOUS
<1>2. PICK f : IsFlattening(f, s, S) /\ FlattenSeq(s) = f[n]
  BY FlattenWalk
<1> HIDE DEF n
<1>3. /\ \A i \in 0 .. n : f[i] \in Seq(S)
      /\ f[0] = <<>>
      /\ \A i \in 1 .. n : f[i] = f[i - 1] \o s[i]
  BY <1>2 DEF IsFlattening, n
<1>4. \A a, b \in Seq(S) : a \o b = <<>> <=> a = <<>> /\ b = <<>>
  OBVIOUS
<1> DEFINE T == {i \in 0 .. n : f[i] = <<>> <=> \A j \in 1 .. i : s[j] = <<>>}
<1>5. 0 \in T
  BY <1>1, <1>3
<1>6. ASSUME NEW i \in 1 .. n, i - 1 \in T PROVE i \in T
  <2>1. i - 1 \in 0 .. n /\ i \in 0 .. n /\ 1 .. i = (1 .. i - 1) \cup {i}
    BY <1>1
  <2>2. f[i] = <<>> <=> f[i - 1] = <<>> /\ s[i] = <<>>
    BY <1>1, <1>3, <1>4, <2>1
  <2> QED
    BY <1>6, <2>1, <2>2
<1> HIDE DEF T
<1>7. 0 .. n \subseteq T
  BY <1>1, <1>5, <1>6, InductionUpTo
<1>8. n \in T /\ n \in 0 .. n
  BY <1>1, <1>7
<1> QED
  BY <1>1, <1>2, <1>3, <1>8 DEF T

(* Two sequences are flattened one after the other.                        *)
LEMMA FlattenJoined ==
  ASSUME NEW S, NEW s \in Seq(Seq(S)), NEW t \in Seq(Seq(S))
  PROVE  FlattenSeq(s \o t) = FlattenSeq(s) \o FlattenSeq(t)
<1> DEFINE n == Len(s)
           m == Len(t)
           X == Seq(S)
<1>1. /\ n \in Nat /\ m \in Nat /\ Len(s \o t) = n + m /\ s \o t \in Seq(Seq(S))
      /\ \A i \in 1 .. n : (s \o t)[i] = s[i] /\ s[i] \in X
      /\ \A i \in 1 .. m : (s \o t)[n + i] = t[i] /\ t[i] \in X
  OBVIOUS
<1>2. PICK h : IsFlattening(h, s \o t, S) /\ FlattenSeq(s \o t) = h[n + m]
  BY <1>1, FlattenWalk
<1>3. PICK f : IsFlattening(f, s, S) /\ FlattenSeq(s) = f[n]
  BY FlattenWalk
<1>4. PICK g : IsFlattening(g, t, S) /\ FlattenSeq(t) = g[m]
  BY FlattenWalk
<1>5. /\ \A a, b \in X : a \o b \in X
      /\ \A a \in X : a \o <<>> = a
      /\ \A a, b, c \in X : (a \o b) \o c = a \o (b \o c)
  OBVIOUS
<1>6. /\ h[0] = <<>> /\ \A i \in 1 .. n + m : h[i] = h[i - 1] \o (s \o t)[i]
      /\ f[0] = <<>> /\ \A i \in 1 .. n : f[i] = f[i - 1] \o s[i]
      /\ g[0] = <<>> /\ \A i \in 1 .. m : g[i] = g[i - 1] \o t[i]
      /\ \A i \in 0 .. n : f[i] \in X
      /\ \A i \in 0 .. m : g[i] \in X
  BY <1>1, <1>2, <1>3, <1>4 DEF IsFlattening
<1> HIDE DEF n, m, X
<1> DEFINE T == {i \in 0 .. n : h[i] = f[i]}
           U == {i \in 0 .. m : h[n + i] = f[n] \o g[i]}
<1>7. 0 .. n \subseteq T
  <2>1. 0 \in T
    BY <1>1, <1>6
  <2>2. ASSUME NEW i \in 1 .. n, i - 1 \in T PROVE i \in T
    <3>1. i \in 0 .. n /\ i \in 1 .. n + m
      BY <1>1
    <3> QED
      BY <1>1, <1>6, <2>2, <3>1
  <2> HIDE DEF T
  <2> QED
    BY <1>1, <2>1, <2>2, InductionUpTo
<1>8. n \in 0 .. n /\ m \in 0 .. m /\ n + 0 = n
  BY <1>1
<1>9. 0 .. m \subseteq U
  <2>1. 0 \in U
    <3>1. h[n] = f[n] /\ f[n] \in X
      BY <1>6, <1>7, <1>8
    <3>2. h[n + 0] = f[n] \o g[0] /\ 0 \in 0 .. m
      BY <1>1, <1>5, <1>6, <1>8, <3>1
    <3> QED
      BY <3>2
  <2>2. ASSUME NEW i \in 1 .. m, i - 1 \in U PROVE i \in U
    <3>1. /\ i \in 0 .. m /\ i - 1 \in 0 .. m
          /\ n + i \in 1 .. n + m /\ (n + i) - 1 = n + (i - 1)
      BY <1>1
    <3>2. h[n + i] = (f[n] \o g[i - 1]) \o t[i]
      <4>1. h[n + i] = h[n + (i - 1)] \o (s \o t)[n + i]
        BY <1>6, <3>1
      <4>2. h[n + (i - 1)] = f[n] \o g[i - 1]
        BY <2>2
      <4> QED
        BY <1>1, <4>1, <4>2
    <3>3. f[n] \in X /\ g[i - 1] \in X /\ t[i] \in X
      BY <1>1, <1>6, <1>8, <3>1
    <3>4. h[n + i] = f[n] \o (g[i - 1] \o t[i])
      BY <1>5, <3>2, <3>3
    <3> QED
      BY <1>6, <3>1, <3>4
  <2> HIDE DEF U
  <2> QED
    BY <1>1, <2>1, <2>2, InductionUpTo
<1>10. h[n + m] = f[n] \o g[m]
  BY <1>8, <1>9
<1> QED
  BY <1>2, <1>3, <1>4, <1>10

-----------------------------------------------------------------------------
(* What the events of an entry account for.                                *)

(* The events of the richer messages, and the markers of noise.            *)
RichOnes ==
  StateEvents \cup ResultEvents
  \cup [kind : {"GameState"}, type : {"connect_resp"}, system_seat_ids : Seq(Seats)]

NoiseOnes == [kind : {"GameState"}, type : NoiseTypes]

(* The types of noise, by name.                                           *)
LEMMA NoiseTypesAre ==
  NoiseTypes = {"UIMessage", "TimerStateMessage", "SetSettingsResp"}
BY DEF NoiseTypes, NOISE_MESSAGE_TYPES, ToSet

(* A message of a state yields an event unless it ends the match.          *)
LEMMA EmitTells ==
  ASSUME NEW msg \in Messages, NEW wins, NEW last, Sound(msg, wins, last)
  PROVE  emit_gsm_events(msg) # <<>>
           <=> IsState(msg) /\ msg.match_state # "MatchComplete"
<1>1. msg.match_state = "MatchComplete" => msg.stage = "GameOver"
  BY DEF Sound
<1>2. \A a, b : <<a>> # <<>> /\ <<a, b>> # <<>>
  OBVIOUS
<1> QED
  BY <1>1, <1>2 DEF emit_gsm_events, IsState, is_game_over, is_match_complete

(* The rich events are there when there is a message for one.              *)
LEMMA RichTells ==
  ASSUME NEW msgs \in Seq(Messages), NEW wins \in Seq(Seats), NEW last,
         \A i \in DOMAIN msgs : Sound(msgs[i], wins, last)
  PROVE  /\ RichEvents(msgs) \in Seq(RichOnes)
         /\ RichEvents(msgs) # <<>> <=> \E msg \in ToSet(msgs) : IsRich(msg)
<1> DEFINE connect == find_message_by_type(msgs, "ConnectResp")
           first == IF connect = 0 THEN <<>> ELSE <<connect_resp(msgs[connect])>>
           parts == [i \in DOMAIN msgs |-> emit_gsm_events(msgs[i])]
           flat == FlattenSeq(parts)
           Reported == StateEvents \cup ResultEvents
<1>1. RichEvents(msgs) = first \o flat
  BY DEF RichEvents
<1>2. connect \in 0 .. Len(msgs) /\ (connect # 0 <=> HasConnect(ToSet(msgs)))
  BY FindByType DEF HasConnect
<1>3. DOMAIN msgs = 1 .. Len(msgs) /\ Len(msgs) \in Nat
      /\ \A i \in 1 .. Len(msgs) : msgs[i] \in Messages
  OBVIOUS
<1>4. /\ first \in Seq(RichOnes)
      /\ first # <<>> <=> HasConnect(ToSet(msgs))
  <2>1. CASE connect = 0
    BY <1>2, <2>1
  <2>2. CASE connect # 0
    <3>1. connect \in 1 .. Len(msgs)
      BY <1>2, <1>3, <2>2
    <3>2. msgs[connect].seats \in Seq(Seats)
      BY <1>3, <3>1 DEF Messages
    <3>3. PICK e \in RichOnes : e = connect_resp(msgs[connect])
      BY <3>2 DEF connect_resp, RichOnes
    <3>4. first = <<e>>
      BY <2>2, <3>3
    <3> QED
      BY <1>2, <2>2, <3>4
  <2> QED
    BY <2>1, <2>2
<1>5. parts \in Seq(Seq(Reported))
  <2>1. \A i \in 1 .. Len(msgs) : emit_gsm_events(msgs[i]) \in Seq(Reported)
    BY <1>3, EmitTyped
  <2> HIDE DEF Reported
  <2> QED
    BY <1>3, <2>1
<1>6. flat \in Seq(Reported) /\ (flat = <<>> <=> \A i \in DOMAIN parts : parts[i] = <<>>)
  BY ONLY <1>5, FlattenEmpty
<1>7. flat # <<>> <=> \E msg \in ToSet(msgs) :
                        IsState(msg) /\ msg.match_state # "MatchComplete"
  <2>1. \A i \in 1 .. Len(msgs) : parts[i] # <<>>
          <=> IsState(msgs[i]) /\ msgs[i].match_state # "MatchComplete"
    BY <1>3, EmitTells
  <2>2. DOMAIN parts = 1 .. Len(msgs)
    BY <1>3
  <2> HIDE DEF parts, flat
  <2>3. flat # <<>> <=> \E i \in 1 .. Len(msgs) :
          IsState(msgs[i]) /\ msgs[i].match_state # "MatchComplete"
    BY <1>6, <2>1, <2>2
  <2> QED
    BY <1>3, <2>3 DEF ToSet
<1> HIDE DEF first, flat
<1>8. flat \in Seq(RichOnes)
  <2>1. Reported \subseteq RichOnes
    BY DEF RichOnes
  <2>2. PICK A, B : A = Reported /\ B = RichOnes
    OBVIOUS
  <2>3. flat \in Seq(A) /\ A \subseteq B
    BY <1>6, <2>1, <2>2
  <2>4. flat \in Seq(B)
    BY ONLY <2>3, SeqMonotonic
  <2> QED
    BY <2>2, <2>4
<1>9. \A A : \A a, b \in Seq(A) : a \o b \in Seq(A)
                                  /\ (a \o b = <<>> <=> a = <<>> /\ b = <<>>)
  OBVIOUS
<1>10. /\ RichEvents(msgs) \in Seq(RichOnes)
       /\ RichEvents(msgs) = <<>> <=> first = <<>> /\ flat = <<>>
  BY ONLY <1>1, <1>4, <1>8, <1>9
<1> QED
  BY <1>4, <1>7, <1>10 DEF IsRich, HasConnect

(* Noise is marked, once, where nothing is richer.                         *)
LEMMA NoiseTells ==
  ASSUME NEW msgs \in Seq(Messages), NEW rich \in BOOLEAN,
         RichEvents(msgs) # <<>> <=> rich
  PROVE  IF ~rich /\ \E msg \in ToSet(msgs) : IsNoise(msg)
         THEN \E e \in NoiseOnes : NoiseEvents(msgs) = <<e>>
         ELSE NoiseEvents(msgs) = <<>>
<1> DEFINE k == SelectInSeq(NOISE_MESSAGE_TYPES, LAMBDA type :
                  find_message_by_type(msgs, type) # 0)
           n == Len(NOISE_MESSAGE_TYPES)
           found == {i \in 1 .. n : find_message_by_type(msgs, NOISE_MESSAGE_TYPES[i]) # 0}
<1>1. k = IF found # {} THEN Min(found) ELSE 0
  BY DEF SelectInSeq
<1>2. n = 3 /\ NoiseTypes = {NOISE_MESSAGE_TYPES[i] : i \in 1 .. n}
  BY DEF NOISE_MESSAGE_TYPES, NoiseTypes, ToSet
<1>3. found # {} => Min(found) \in found
  <2>1. found \subseteq Nat
    BY <1>2
  <2> HIDE DEF found
  <2> QED
    BY <2>1, MinIsIn
<1>4. found # {} <=> \E msg \in ToSet(msgs) : IsNoise(msg)
  <2>1. \A i \in 1 .. n : i \in found
          <=> \E msg \in ToSet(msgs) : msg.type = NOISE_MESSAGE_TYPES[i]
    BY FindByType
  <2>2. \A msg : IsNoise(msg) <=> \E i \in 1 .. n : msg.type = NOISE_MESSAGE_TYPES[i]
    BY <1>2 DEF IsNoise, NoiseTypes
  <2>3. found \subseteq 1 .. n
    OBVIOUS
  <2> HIDE DEF found, n
  <2> QED
    BY <2>1, <2>2, <2>3
<1>5. NoiseEvents(msgs) = IF k = 0 \/ rich THEN <<>>
                          ELSE <<recognized_type(NOISE_MESSAGE_TYPES[k])>>
  BY DEF NoiseEvents
<1>6. found \subseteq 1 .. n
  OBVIOUS
<1> HIDE DEF k, found, n
<1>7. k # 0 <=> found # {}
  BY <1>1, <1>2, <1>3, <1>6
<1>8. k # 0 => recognized_type(NOISE_MESSAGE_TYPES[k]) \in NoiseOnes
  <2>1. k # 0 => k \in 1 .. n
    BY <1>1, <1>3, <1>6
  <2> QED
    BY <1>2, <2>1 DEF recognized_type, NoiseOnes
<1> QED
  BY <1>4, <1>5, <1>7, <1>8

(* The seat is told where find_local_seat finds it.                        *)
LEMMA SeatTells ==
  ASSUME NEW msgs \in Seq(Messages), NEW local,
         HasConnect(ToSet(msgs)) \/ \A msg \in ToSet(msgs) : Addressed(msg, local)
  PROVE  IF find_local_seat(msgs) # 0
         THEN \E e \in SeatEventsOf({local}) : SeatEvents(msgs) = <<e>>
         ELSE SeatEvents(msgs) = <<>>
<1> DEFINE k == find_local_seat(msgs)
<1>1. k # 0 => k \in DOMAIN msgs /\ msgs[k].seats = <<local>>
  BY FindSeat
<1>2. SeatEvents(msgs) = IF k = 0 THEN <<>> ELSE <<local_seat(msgs[k].seats[1])>>
  BY DEF SeatEvents
<1> HIDE DEF k
<1>3. k # 0 => local_seat(msgs[k].seats[1]) \in SeatEventsOf({local})
  BY <1>1 DEF local_seat, SeatEventsOf
<1> QED
  BY <1>2, <1>3 DEF k

(* The events that mark noise.                                             *)
MarkerEvents == {e \in Events : IsMarker(e)}

GreKinds == {"GameState", "GameResult", "LocalSeat", "Truncation"}

(* The events of GRE, and which of them are markers.                       *)
LEMMA GreEventsAre ==
  /\ \A e \in RichOnes : e \in Events /\ e.kind \in GreKinds /\ ~IsMarker(e)
  /\ \A e \in NoiseOnes : e \in Events /\ e.kind \in GreKinds /\ IsMarker(e)
  /\ \A local \in Seats : \A e \in SeatEventsOf({local}) :
       e \in Events /\ e.kind \in GreKinds /\ ~IsMarker(e)
<1>1. ASSUME NEW e \in RichOnes
      PROVE  e \in Events /\ e.kind \in GreKinds /\ ~IsMarker(e)
  <2>1. CASE e \in StateEvents
    <3>1. e.type \in GSM_TYPES /\ e.kind = "GameState"
      BY <2>1 DEF StateEvents
    <3>2. e.type \notin NoiseTypes
      BY <3>1, NoiseTypesAre DEF GSM_TYPES
    <3> QED
      BY <2>1, <3>1, <3>2 DEF Events, GreKinds, IsMarker, NoiseTypes
  <2>2. CASE e \in ResultEvents
    BY <2>2 DEF ResultEvents, Events, GreKinds, IsMarker
  <2>3. CASE e \in [kind : {"GameState"}, type : {"connect_resp"},
                    system_seat_ids : Seq(Seats)]
    <3>1. e.type = "connect_resp" /\ e.kind = "GameState"
      BY <2>3
    <3>2. e.type \notin NoiseTypes
      BY <3>1, NoiseTypesAre
    <3>3. e \in QuietEvents
      BY <2>3 DEF QuietEvents
    <3> QED
      BY <3>1, <3>2, <3>3 DEF Events, GreKinds, IsMarker, NoiseTypes
  <2> QED
    BY <2>1, <2>2, <2>3 DEF RichOnes
<1>2. ASSUME NEW e \in NoiseOnes
      PROVE  e \in Events /\ e.kind \in GreKinds /\ IsMarker(e)
  BY DEF NoiseOnes, Events, QuietEvents, GreKinds, IsMarker, NoiseTypes
<1>3. ASSUME NEW local \in Seats, NEW e \in SeatEventsOf({local})
      PROVE  e \in Events /\ e.kind \in GreKinds /\ ~IsMarker(e)
  <2>1. e \in SeatEventsOf(Seats) /\ e.kind = "LocalSeat"
    BY <1>3 DEF SeatEventsOf
  <2> QED
    BY <2>1 DEF Events, GreKinds, IsMarker
<1> QED
  BY <1>1, <1>2, <1>3

(* At most one event, all of a set.                                        *)
LEMMA OneOrNone ==
  ASSUME NEW A, NEW t, NEW there \in BOOLEAN,
         IF there THEN \E e \in A : t = <<e>> ELSE t = <<>>
  PROVE  t \in Seq(A) /\ (t = <<>> <=> ~there)
<1>1. CASE there
  <2>1. PICK e \in A : t = <<e>>
    BY <1>1
  <2> QED
    BY <1>1, <2>1
<1>2. CASE ~there
  BY <1>2
<1> QED
  BY <1>1, <1>2

(* What an entry of GRE accounts for.                                      *)
LEMMA GreTells ==
  ASSUME NEW msgs \in Seq(Messages), NEW wins \in Seq(Seats), NEW last,
         \A i \in DOMAIN msgs : Sound(msgs[i], wins, last),
         NEW local \in Seats,
         HasConnect(ToSet(msgs)) \/ \A msg \in ToSet(msgs) : Addressed(msg, local)
  PROVE  /\ gre_try_parse(msgs) \in Seq({e \in Events : e.kind \in GreKinds})
         /\ Cardinality(Places(gre_try_parse(msgs), MarkerEvents))
              = One(/\ \E msg \in ToSet(msgs) : IsNoise(msg)
                    /\ ~\E msg \in ToSet(msgs) : IsRich(msg))
         /\ gre_try_parse(msgs) = <<>>
              <=> ~\E msg \in ToSet(msgs) :
                     IsRich(msg) \/ IsNoise(msg) \/ msg.seats = <<local>>
<1> DEFINE G == {e \in Events : e.kind \in GreKinds}
           rich == \E msg \in ToSet(msgs) : IsRich(msg)
           noisy == \E msg \in ToSet(msgs) : IsNoise(msg)
           marked == noisy /\ ~rich
           seated == find_local_seat(msgs) # 0
           r == RichEvents(msgs)
           n == NoiseEvents(msgs)
           s == SeatEvents(msgs)
           K == SeatEventsOf({local})
<1>1. r \in Seq(RichOnes) /\ (r = <<>> <=> ~rich)
  BY RichTells
<1>2. IF marked THEN \E e \in NoiseOnes : n = <<e>> ELSE n = <<>>
  <2>1. RichEvents(msgs) # <<>> <=> rich
    BY <1>1
  <2> HIDE DEF r, n
  <2>2. IF ~rich /\ \E msg \in ToSet(msgs) : IsNoise(msg)
        THEN \E e \in NoiseOnes : NoiseEvents(msgs) = <<e>>
        ELSE NoiseEvents(msgs) = <<>>
    BY <2>1, NoiseTells
  <2> QED
    BY <2>2 DEF n
<1>3. IF seated THEN \E e \in K : s = <<e>> ELSE s = <<>>
  BY SeatTells
<1>4. gre_try_parse(msgs) = (r \o n) \o s
  BY DEF gre_try_parse
<1>5. ~rich /\ ~noisy => (seated <=> \E msg \in ToSet(msgs) : msg.seats = <<local>>)
  <2>1. \A msg \in ToSet(msgs) : msg.type = "ConnectResp" => IsRich(msg)
    BY DEF IsRich
  <2>2. \A msg \in ToSet(msgs) : msg.type \in NoiseTypes => IsNoise(msg)
    BY DEF IsNoise, NoiseTypes
  <2>3. seated => \E msg \in ToSet(msgs) : msg.seats = <<local>>
    <3>1. seated => /\ find_local_seat(msgs) \in DOMAIN msgs
                    /\ msgs[find_local_seat(msgs)].seats = <<local>>
      BY FindSeat
    <3> QED
      BY <3>1 DEF ToSet
  <2>4. ASSUME ~rich, ~noisy, NEW msg \in ToSet(msgs), msg.seats = <<local>>
        PROVE  seated
    <3>1. ~HasConnect(ToSet(msgs)) /\ msg.type \notin NoiseTypes
      BY <2>1, <2>2, <2>4 DEF HasConnect
    <3> QED
      BY <2>4, <3>1, FindSeat
  <2> HIDE DEF seated
  <2> QED
    BY <2>3, <2>4
<1> HIDE DEF rich, noisy, seated, r, n, s, K
<1>6. /\ n \in Seq(NoiseOnes) /\ (n = <<>> <=> ~marked)
      /\ s \in Seq(K) /\ (s = <<>> <=> ~seated)
  <2>1. marked \in BOOLEAN /\ seated \in BOOLEAN
    BY DEF seated
  <2> HIDE DEF marked
  <2>2. n \in Seq(NoiseOnes) /\ (n = <<>> <=> ~marked)
    BY ONLY <1>2, <2>1, OneOrNone
  <2>3. s \in Seq(K) /\ (s = <<>> <=> ~seated)
    BY ONLY <1>3, <2>1, OneOrNone
  <2> QED
    BY <2>2, <2>3
<1>7. RichOnes \subseteq G /\ NoiseOnes \subseteq G /\ K \subseteq G
  BY GreEventsAre DEF K
<1> HIDE DEF G, marked
<1>8. r \in Seq(G) /\ n \in Seq(G) /\ s \in Seq(G)
  BY ONLY <1>1, <1>6, <1>7, SeqMonotonic
<1>9. /\ r \o n \in Seq(G) /\ (r \o n) \o s \in Seq(G)
      /\ (r \o n) \o s = <<>> <=> r = <<>> /\ n = <<>> /\ s = <<>>
  <2>1. \A a, b \in Seq(G) : a \o b \in Seq(G)
                              /\ (a \o b = <<>> <=> a = <<>> /\ b = <<>>)
    OBVIOUS
  <2> QED
    BY ONLY <1>8, <2>1
<1> DEFINE M == MarkerEvents
           C(t) == Cardinality(Places(t, M))
<1>10. C((r \o n) \o s) = (C(r) + C(n)) + C(s)
  <2>1. C((r \o n) \o s) = C(r \o n) + C(s)
    <3>1. PICK a : a = r \o n
      OBVIOUS
    <3>2. a \in Seq(G) /\ s \in Seq(G)
      BY <1>8, <1>9, <3>1
    <3>3. C(a \o s) = C(a) + C(s)
      BY ONLY <3>2, CountJoined
    <3> QED
      BY <3>1, <3>3
  <2>2. C(r \o n) = C(r) + C(n)
    BY <1>8, CountJoined
  <2> QED
    BY <2>1, <2>2
<1>11. C(r) = 0
  <2>1. \A i \in DOMAIN r : r[i] \in RichOnes
    BY <1>1
  <2>2. \A i \in DOMAIN r : r[i] \notin M
    BY <2>1, GreEventsAre DEF MarkerEvents
  <2> QED
    BY <2>2, CountNone
<1>12. C(s) = 0
  <2>1. \A i \in DOMAIN s : s[i] \in K
    BY <1>6
  <2>2. \A i \in DOMAIN s : s[i] \notin M
    BY <2>1, GreEventsAre DEF MarkerEvents, K
  <2> QED
    BY <2>2, CountNone
<1>13. C(n) = One(marked)
  <2>1. CASE marked
    <3>1. PICK e \in NoiseOnes : n = <<e>>
      BY <1>2, <2>1
    <3>2. e \in M
      BY GreEventsAre DEF MarkerEvents
    <3>3. C(n) = One(e \in M)
      BY <3>1, CountOne
    <3> QED
      BY <2>1, <3>2, <3>3 DEF One
  <2>2. CASE ~marked
    <3>1. n = <<>> /\ DOMAIN n = {}
      BY <1>2, <2>2
    <3>2. C(n) = 0
      BY <3>1, CountNone
    <3> QED
      BY <2>2, <3>2 DEF One
  <2> QED
    BY <2>1, <2>2
<1>14. C(gre_try_parse(msgs)) = One(marked)
  <2>1. One(marked) \in Nat
    BY DEF One
  <2> HIDE DEF C
  <2> QED
    BY <1>4, <1>10, <1>11, <1>12, <1>13, <2>1
<1>15. gre_try_parse(msgs) = <<>> <=> ~rich /\ ~noisy /\ ~seated
  <2>1. gre_try_parse(msgs) = <<>> <=> r = <<>> /\ n = <<>> /\ s = <<>>
    BY <1>4, <1>9
  <2> QED
    BY <1>1, <1>6, <2>1 DEF marked
<1>16. gre_try_parse(msgs) = <<>>
         <=> ~\E msg \in ToSet(msgs) :
                IsRich(msg) \/ IsNoise(msg) \/ msg.seats = <<local>>
  BY <1>5, <1>15 DEF rich, noisy
<1> QED
  BY <1>4, <1>9, <1>14, <1>16 DEF marked, rich, noisy, G

(* Each form alone yields the events its docs promise.                     *)
FormsDocumented ==
  \A form \in Forms : OtherKindsTold(dispatch_to_parsers(form)) = form.documented

Kinds == GreKinds \cup OtherKinds

KindOf(e) == IF e.kind \in GreKinds THEN <<>> ELSE <<e.kind>>

KindsOf(evs) == [i \in DOMAIN evs |-> KindOf(evs[i])]

(* The kinds told are flattened from those of the single events.           *)
LEMMA KindsTold ==
  ASSUME NEW evs \in Seq(Events)
  PROVE  /\ OtherKindsTold(evs) = FlattenSeq(KindsOf(evs))
         /\ KindsOf(evs) \in Seq(Seq(Kinds))
<1>1. OtherKindsTold(evs) = FlattenSeq(KindsOf(evs))
  BY DEF OtherKindsTold, KindsOf, KindOf, GreKinds
<1>2. \A e \in Events : e.kind \in Kinds
  BY DEF Events, StateEvents, ResultEvents, SeatEventsOf, QuietEvents, Kinds,
         GreKinds
<1>3. \A e \in Events : KindOf(e) \in Seq(Kinds)
  <2>1. ASSUME NEW e \in Events PROVE KindOf(e) \in Seq(Kinds)
    <3>1. PICK k \in Kinds : k = e.kind
      BY <1>2
    <3>2. <<k>> \in Seq(Kinds) /\ <<>> \in Seq(Kinds)
      OBVIOUS
    <3> QED
      BY <3>1, <3>2 DEF KindOf
  <2> QED
    BY <2>1
<1>4. DOMAIN evs = 1 .. Len(evs) /\ Len(evs) \in Nat
      /\ \A i \in 1 .. Len(evs) : evs[i] \in Events
  OBVIOUS
<1>5. KindsOf(evs) \in Seq(Seq(Kinds))
  <2>1. PICK S : S = Seq(Kinds)
    OBVIOUS
  <2>2. \A i \in 1 .. Len(evs) : KindOf(evs[i]) \in S
    BY <1>3, <1>4, <2>1
  <2>3. [i \in 1 .. Len(evs) |-> KindOf(evs[i])] \in Seq(S)
    BY <1>4, <2>2
  <2> QED
    BY <1>4, <2>1, <2>3 DEF KindsOf
<1> QED
  BY <1>1, <1>5

(* The kinds told are joined as the events are.                            *)
LEMMA KindsJoined ==
  ASSUME NEW s \in Seq(Events), NEW t \in Seq(Events)
  PROVE  OtherKindsTold(s \o t) = OtherKindsTold(s) \o OtherKindsTold(t)
<1>1. s \o t \in Seq(Events)
  OBVIOUS
<1>2. PICK u : u = s \o t
  OBVIOUS
<1>3. KindsOf(u) = KindsOf(s) \o KindsOf(t)
  <2>1. /\ Len(s) \in Nat /\ DOMAIN s = 1 .. Len(s)
        /\ Len(t) \in Nat /\ DOMAIN t = 1 .. Len(t)
        /\ DOMAIN u = 1 .. Len(s) + Len(t)
        /\ \A i \in 1 .. Len(s) + Len(t) :
             u[i] = IF i <= Len(s) THEN s[i] ELSE t[i - Len(s)]
    BY <1>2
  <2>2. PICK a, b : a = KindsOf(s) /\ b = KindsOf(t)
    OBVIOUS
  <2>3. a \in Seq(Seq(Kinds)) /\ b \in Seq(Seq(Kinds))
    BY <2>2, KindsTold
  <2>4. /\ Len(a) = Len(s) /\ \A i \in 1 .. Len(s) : a[i] = KindOf(s[i])
        /\ Len(b) = Len(t) /\ \A i \in 1 .. Len(t) : b[i] = KindOf(t[i])
    BY <2>1, <2>2, <2>3 DEF KindsOf
  <2>5. a \o b = [i \in 1 .. Len(s) + Len(t) |->
                    IF i <= Len(s) THEN a[i] ELSE b[i - Len(s)]]
    <3>1. PICK T : T = Seq(Kinds)
      OBVIOUS
    <3>2. a \in Seq(T) /\ b \in Seq(T) /\ Len(a) = Len(s) /\ Len(b) = Len(t)
      BY <2>3, <2>4, <3>1
    <3>3. PICK n, m : n = Len(s) /\ m = Len(t)
      OBVIOUS
    <3>4. n \in Nat /\ m \in Nat /\ Len(a) = n /\ Len(b) = m
      BY <2>1, <3>2, <3>3
    <3>5. PICK c : c = a \o b
      OBVIOUS
    <3>6. /\ c = [i \in DOMAIN c |-> c[i]] /\ DOMAIN c = 1 .. n + m
          /\ \A i \in 1 .. n + m : c[i] = IF i <= n THEN a[i] ELSE b[i - n]
      <4>1. c \in Seq(T) /\ Len(c) = Len(a) + Len(b)
        BY ONLY <3>2, <3>5, ConcatProperties
      <4>2. \A i \in 1 .. Len(a) + Len(b) :
              c[i] = IF i <= Len(a) THEN a[i] ELSE b[i - Len(a)]
        BY ONLY <3>2, <3>5, ConcatProperties
      <4>3. c = [i \in DOMAIN c |-> c[i]] /\ DOMAIN c = 1 .. Len(c)
        <5>1. c \in [1 .. Len(c) -> T]
          BY ONLY <4>1
        <5> QED
          BY ONLY <5>1
      <4> QED
        BY ONLY <3>4, <4>1, <4>2, <4>3
    <3>7. c = [i \in 1 .. n + m |-> IF i <= n THEN a[i] ELSE b[i - n]]
      BY ONLY <3>6
    <3> QED
      BY <3>3, <3>5, <3>7
  <2>6. ASSUME NEW i \in 1 .. Len(s) + Len(t)
        PROVE  KindOf(u[i]) = IF i <= Len(s) THEN a[i] ELSE b[i - Len(s)]
    <3>1. CASE i <= Len(s)
      BY <2>1, <2>4, <3>1
    <3>2. CASE ~(i <= Len(s))
      <4>1. i - Len(s) \in 1 .. Len(t)
        BY <2>1, <3>2
      <4> QED
        BY <2>1, <2>4, <3>2, <4>1
    <3> QED
      BY <3>1, <3>2
  <2>7. KindsOf(u) = [i \in 1 .. Len(s) + Len(t) |-> KindOf(u[i])]
    BY <2>1 DEF KindsOf
  <2>8. KindsOf(u) = a \o b
    BY <2>5, <2>6, <2>7
  <2> QED
    BY <2>2, <2>8
<1>4. /\ OtherKindsTold(u) = FlattenSeq(KindsOf(u))
      /\ OtherKindsTold(s) = FlattenSeq(KindsOf(s))
      /\ OtherKindsTold(t) = FlattenSeq(KindsOf(t))
  BY <1>1, <1>2, KindsTold
<1>5. PICK a, b : a = KindsOf(s) /\ b = KindsOf(t)
  OBVIOUS
<1>6. a \in Seq(Seq(Kinds)) /\ b \in Seq(Seq(Kinds))
  BY <1>5, KindsTold
<1>7. FlattenSeq(a \o b) = FlattenSeq(a) \o FlattenSeq(b)
  BY ONLY <1>6, FlattenJoined
<1> QED
  BY <1>2, <1>3, <1>4, <1>5, <1>7

(* None are told if all are of GRE, and only then.                         *)
LEMMA NoneTold ==
  ASSUME NEW evs \in Seq(Events)
  PROVE  /\ OtherKindsTold(evs) \in Seq(Kinds)
         /\ OtherKindsTold(evs) = <<>>
              <=> \A i \in DOMAIN evs : evs[i].kind \in GreKinds
<1>1. PICK a : a = KindsOf(evs)
  OBVIOUS
<1>2. a \in Seq(Seq(Kinds)) /\ OtherKindsTold(evs) = FlattenSeq(a)
  BY <1>1, KindsTold
<1>3. /\ FlattenSeq(a) \in Seq(Kinds)
      /\ FlattenSeq(a) = <<>> <=> \A i \in DOMAIN a : a[i] = <<>>
  BY ONLY <1>2, FlattenEmpty
<1>4. DOMAIN a = DOMAIN evs /\ \A i \in DOMAIN evs : a[i] = KindOf(evs[i])
  BY <1>1 DEF KindsOf
<1>5. \A e : KindOf(e) = <<>> <=> e.kind \in GreKinds
  BY DEF KindOf
<1> QED
  BY <1>2, <1>3, <1>4, <1>5

(* Of the other parsers none yields an event of GRE.                       *)
LEMMA OthersAreOthers ==
  ASSUME NEW e \in [kind : OtherKinds]
  PROVE  e \in Events /\ e.kind \notin GreKinds /\ ~IsMarker(e)
<1>1. e.kind \in OtherKinds /\ e \in QuietEvents
  BY DEF QuietEvents
<1> QED
  BY <1>1 DEF Events, OtherKinds, GreKinds, IsMarker

(* What an entry of the other parsers accounts for.                        *)
LEMMA FormTells ==
  ASSUME NEW form \in Forms
  PROVE  /\ dispatch_to_parsers(form) \in Seq(Events)
         /\ Cardinality(Places(dispatch_to_parsers(form), MarkerEvents)) = 0
         /\ FormsDocumented =>
              /\ form.documented \in Seq(Kinds)
              /\ dispatch_to_parsers(form) = <<>> <=> form.documented = <<>>
<1>1. PICK out : out = dispatch_to_parsers(form)
  OBVIOUS
<1>2. /\ form.msgs = <<>> /\ form.courses \in Seq(BOOLEAN)
      /\ form.header # "TruncationMarker"
  BY FormsAssumption
<1>3. out \in Seq([kind : OtherKinds])
  BY <1>1, <1>2, DispatchOther
<1>4. \A i \in DOMAIN out : out[i] \in [kind : OtherKinds]
  <2>1. PICK A : A = [kind : OtherKinds]
    OBVIOUS
  <2>2. out \in Seq(A)
    BY <1>3, <2>1
  <2>3. \A i \in DOMAIN out : out[i] \in A
    BY ONLY <2>2
  <2> QED
    BY <2>1, <2>3
<1>5. out \in Seq(Events)
  <2>1. PICK A, B : A = [kind : OtherKinds] /\ B = Events
    OBVIOUS
  <2>2. out \in Seq(A) /\ A \subseteq B
    BY <1>3, <2>1, OthersAreOthers
  <2>3. out \in Seq(B)
    BY ONLY <2>2, SeqMonotonic
  <2> QED
    BY <2>1, <2>3
<1>6. Cardinality(Places(out, MarkerEvents)) = 0
  <2>1. \A i \in DOMAIN out : out[i] \notin MarkerEvents
    BY <1>4, OthersAreOthers DEF MarkerEvents
  <2> QED
    BY <2>1, CountNone
<1>7. OtherKindsTold(out) \in Seq(Kinds) /\ (OtherKindsTold(out) = <<>> <=> out = <<>>)
  <2>1. OtherKindsTold(out) = <<>> <=> \A i \in DOMAIN out : out[i].kind \in GreKinds
    BY <1>5, NoneTold
  <2>2. \A i \in DOMAIN out : out[i].kind \notin GreKinds
    BY <1>4, OthersAreOthers
  <2>3. out = <<>> <=> DOMAIN out = {}
    BY <1>5
  <2> QED
    BY <1>5, <2>1, <2>2, <2>3, NoneTold
<1> QED
  BY <1>1, <1>5, <1>6, <1>7 DEF FormsDocumented

Entries == Forms \cup GreEntries

NoiseEntries == {entry \in Entries : OnlyNoise(entry)}

UntoldEntries(local) ==
  {entry \in Entries :
     /\ entry.documented = <<>> /\ entry.lost = <<>>
     /\ ~\E msg \in ToSet(entry.msgs) :
           IsRich(msg) \/ IsNoise(msg) \/ msg.seats = <<local>>}

(* The places behind the first ones.                                       *)
LatePlaces(s, first, S) == {i \in first + 1 .. Len(s) : s[i] \in S}

(* One entry more counts if it is one of them.                             *)
LEMMA LateGrows ==
  ASSUME NEW T, NEW s \in Seq(T), NEW e \in T, NEW first \in 0 .. Len(s), NEW S
  PROVE  /\ Cardinality(LatePlaces(s, first, S)) \in Nat
         /\ Cardinality(LatePlaces(Append(s, e), first, S))
              = Cardinality(LatePlaces(s, first, S)) + One(e \in S)
<1>1. PICK n, t : n = Len(s) /\ t = Append(s, e)
  OBVIOUS
<1>2. /\ n \in Nat /\ Len(t) = n + 1 /\ t[n + 1] = e /\ first \in 0 .. n
      /\ \A i \in 1 .. n : t[i] = s[i]
  BY <1>1
<1>3. PICK A, B : A = LatePlaces(s, first, S) /\ B = LatePlaces(t, first, S)
  OBVIOUS
<1>4. A \subseteq 1 .. n
  BY <1>1, <1>2, <1>3 DEF LatePlaces
<1>5. IsFiniteSet(A) /\ Cardinality(A) \in Nat
  <2>1. IsFiniteSet(1 .. n)
    BY <1>2, FS_Interval
  <2> QED
    BY <1>4, <2>1, FS_Subset, FS_CardinalityType
<1>6. first + 1 .. n + 1 = (first + 1 .. n) \cup {n + 1}
  BY <1>2
<1>7. first + 1 .. n \subseteq 1 .. n
  BY <1>2
<1>8. A = {i \in first + 1 .. n : s[i] \in S}
  BY <1>1, <1>3 DEF LatePlaces
<1>9. B = {i \in (first + 1 .. n) \cup {n + 1} : t[i] \in S}
  BY <1>2, <1>3, <1>6 DEF LatePlaces
<1>10. B = IF e \in S THEN A \cup {n + 1} ELSE A
  <2>1. \A i \in first + 1 .. n : t[i] \in S <=> s[i] \in S
    BY <1>2, <1>7
  <2>2. t[n + 1] \in S <=> e \in S
    BY <1>2
  <2> QED
    BY ONLY <1>8, <1>9, <2>1, <2>2
<1>11. n + 1 \notin A
  BY <1>2, <1>4
<1>12. Cardinality(A \cup {n + 1}) = Cardinality(A) + 1
  BY <1>5, <1>11, FS_AddElement
<1>13. Cardinality(B) = Cardinality(A) + One(e \in S)
  BY <1>5, <1>10, <1>12 DEF One
<1> QED
  BY <1>1, <1>3, <1>5, <1>13

(* The places the properties count.                                        *)
LEMMA PlacesCounted ==
  ASSUME NEW evs \in Seq(Events), NEW written \in Seq(Entries), NEW first \in Nat
  PROVE  /\ {i \in DOMAIN evs : IsMarker(evs[i])} = Places(evs, MarkerEvents)
         /\ {i \in DOMAIN written : OnlyNoise(written[i])}
              = Places(written, NoiseEntries)
         /\ {i \in first + 1 .. Len(written) : Untold(written[i])}
              = LatePlaces(written, first, UntoldEntries(seat))
<1>1. \A i \in DOMAIN evs : evs[i] \in Events
  <2>1. PICK T : T = Events
    OBVIOUS
  <2> QED
    BY <2>1
<1>2. /\ \A i \in DOMAIN written : written[i] \in Entries
      /\ first + 1 .. Len(written) \subseteq DOMAIN written
  <2>1. PICK T : T = Entries
    OBVIOUS
  <2> QED
    BY <2>1
<1>3. {i \in DOMAIN evs : IsMarker(evs[i])} = Places(evs, MarkerEvents)
  BY <1>1 DEF Places, MarkerEvents
<1>4. {i \in DOMAIN written : OnlyNoise(written[i])} = Places(written, NoiseEntries)
  BY <1>2 DEF Places, NoiseEntries
<1>5. \A entry \in Entries : entry \in UntoldEntries(seat) <=> Untold(entry)
  BY DEF UntoldEntries, Untold
<1>6. {i \in first + 1 .. Len(written) : Untold(written[i])}
        = LatePlaces(written, first, UntoldEntries(seat))
  BY <1>2, <1>5 DEF LatePlaces
<1> QED
  BY <1>3, <1>4, <1>6

(* The counters were reset at a place in the log.                          *)
CountedOK == counted \in 0 .. Len(log)

(* An entry is written whose noise is marked.                              *)
LEMMA NoiseMarkedStep ==
  ASSUME IInv, IInv', NoiseMarked, NEW entry \in Entries, Write(entry),
         dispatch_to_parsers(entry) \in Seq(Events),
         Cardinality(Places(dispatch_to_parsers(entry), MarkerEvents))
           = One(OnlyNoise(entry))
  PROVE  NoiseMarked'
<1>1. PICK out, evs, written :
        out = dispatch_to_parsers(entry) /\ evs = events' /\ written = log'
  OBVIOUS
<1>2. evs = events \o out /\ written = log \o <<entry>>
  <2>1. log \in Seq(Entries)
    BY DEF IInv, TypeOK, Entries
  <2>2. PICK T : T = Entries
    OBVIOUS
  <2>3. Append(log, entry) = log \o <<entry>>
    BY <2>1, <2>2
  <2> QED
    BY <1>1, <2>3 DEF Write
<1>3. /\ events \in Seq(Events) /\ out \in Seq(Events) /\ evs \in Seq(Events)
      /\ log \in Seq(Entries) /\ written \in Seq(Entries)
  BY <1>1 DEF IInv, TypeOK, Entries
<1> DEFINE M(s) == Cardinality(Places(s, MarkerEvents))
           N(s) == Cardinality(Places(s, NoiseEntries))
<1>4. M(events \o out) = M(events) + M(out)
  BY <1>3, CountJoined
<1>5. N(log \o <<entry>>) = N(log) + N(<<entry>>)
  <2>1. PICK T, one : T = Entries /\ one = <<entry>>
    OBVIOUS
  <2>2. one \in Seq(T) /\ log \in Seq(T)
    BY <1>3, <2>1
  <2>3. N(log \o one) = N(log) + N(one)
    BY <2>2, CountJoined
  <2> QED
    BY <2>1, <2>3
<1>6. N(<<entry>>) = One(OnlyNoise(entry))
  <2>1. N(<<entry>>) = One(entry \in NoiseEntries)
    BY CountOne
  <2>2. entry \in NoiseEntries <=> OnlyNoise(entry)
    BY DEF NoiseEntries
  <2> QED
    BY <2>1, <2>2 DEF One
<1>7. M(events) = N(log)
  <2>1. 0 \in Nat
    OBVIOUS
  <2>2. /\ {i \in DOMAIN events : IsMarker(events[i])} = Places(events, MarkerEvents)
        /\ {i \in DOMAIN log : OnlyNoise(log[i])} = Places(log, NoiseEntries)
    BY ONLY <1>3, <2>1, PlacesCounted
  <2> QED
    BY <2>2 DEF NoiseMarked
<1>8. M(evs) = N(written)
  BY <1>1, <1>2, <1>4, <1>5, <1>6, <1>7
<1>9. /\ {i \in DOMAIN evs : IsMarker(evs[i])} = Places(evs, MarkerEvents)
      /\ {i \in DOMAIN written : OnlyNoise(written[i])} = Places(written, NoiseEntries)
  <2>1. 0 \in Nat
    OBVIOUS
  <2> QED
    BY ONLY <1>3, <2>1, PlacesCounted
<1>10. Cardinality({i \in DOMAIN evs : IsMarker(evs[i])})
         = Cardinality({i \in DOMAIN written : OnlyNoise(written[i])})
  BY <1>8, <1>9
<1> QED
  BY <1>1, <1>10 DEF NoiseMarked

(* An entry is written, and counted by what it yields.                     *)
LEMMA UnknownCountedStep ==
  ASSUME IInv, IInv', CountedOK, UnknownCounted, NEW entry \in Entries,
         Write(entry), UNCHANGED <<seat, counted>>,
         dispatch_to_parsers(entry) = <<>> <=> Untold(entry)
  PROVE  CountedOK' /\ UnknownCounted'
<1>1. /\ log \in Seq(Entries) /\ log' = Append(log, entry) /\ log' \in Seq(Entries)
      /\ events \in Seq(Events) /\ seat' = seat /\ counted' = counted
  BY DEF IInv, TypeOK, Entries, Write
<1>2. PICK written, local, U : /\ written = log' /\ local = seat
                               /\ U = UntoldEntries(local)
  OBVIOUS
<1>3. PICK T : T = Entries
  OBVIOUS
<1>4. /\ counted \in Nat /\ counted \in 0 .. Len(log) /\ log \in Seq(T)
      /\ entry \in T /\ Len(log) \in Nat
      /\ written = Append(log, entry) /\ Len(written) = Len(log) + 1
  BY <1>1, <1>2, <1>3 DEF CountedOK
<1>5. CountedOK'
  <2>1. counted \in 0 .. Len(written)
    BY <1>4
  <2> QED
    BY <1>1, <1>2, <2>1 DEF CountedOK
<1>6. /\ Cardinality(LatePlaces(log, counted, U)) \in Nat
      /\ Cardinality(LatePlaces(written, counted, U))
           = Cardinality(LatePlaces(log, counted, U)) + One(entry \in U)
  BY ONLY <1>4, LateGrows
<1>7. {i \in counted + 1 .. Len(log) : Untold(log[i])} = LatePlaces(log, counted, U)
  BY <1>1, <1>2, <1>4, PlacesCounted
<1>8. {i \in counted + 1 .. Len(log) : Untold(log[i])}'
        = LatePlaces(written, counted, U)
  <2>1. {i \in counted + 1 .. Len(written) : Untold(written[i])}
          = LatePlaces(written, counted, U)
    BY <1>1, <1>2, <1>4, PlacesCounted
  <2>2. \A i : Untold(log[i])' <=> Untold(written[i])
    BY <1>1, <1>2 DEF Untold
  <2> QED
    BY <1>1, <1>2, <2>1, <2>2
<1>9. entry \in U <=> Untold(entry)
  BY <1>2 DEF UntoldEntries, Untold
<1>10. /\ stats'.unknown = stats.unknown + One(entry \in U)
       /\ stats'.routed = stats.routed + One(~(entry \in U))
  <2>1. PICK made : made = dispatch_to_parsers(entry)
    OBVIOUS
  <2>2. made = <<>> <=> entry \in U
    BY <1>9, <2>1
  <2>3. /\ stats'.unknown = stats.unknown + One(made = <<>>)
        /\ stats'.routed = stats.routed + One(~(made = <<>>))
    BY <2>1 DEF Write, route
  <2> QED
    BY <2>2, <2>3 DEF One
<1>11. /\ stats.unknown = Cardinality(LatePlaces(log, counted, U))
       /\ stats.routed = Len(log) - counted - stats.unknown
  BY <1>7 DEF UnknownCounted
<1>12. stats'.unknown = Cardinality(LatePlaces(written, counted, U))
  BY <1>6, <1>10, <1>11
<1>13. stats'.routed = Len(written) - counted - stats'.unknown
  BY <1>4, <1>6, <1>10, <1>11 DEF One
<1>14. /\ stats'.unknown
            = Cardinality({i \in counted + 1 .. Len(log) : Untold(log[i])}')
       /\ stats'.routed = Len(log') - counted' - stats'.unknown
  BY <1>1, <1>2, <1>8, <1>12, <1>13
<1> QED
  BY <1>5, <1>14 DEF UnknownCounted

(* One sequence alone is flattened to itself.                              *)
LEMMA FlattenOne ==
  ASSUME NEW S, NEW x \in Seq(S)
  PROVE  FlattenSeq(<<x>>) = x
<1>1. PICK X, s : X = Seq(S) /\ s = <<x>>
  OBVIOUS
<1>2. s \in Seq(X) /\ Len(s) = 1 /\ s[1] = x
  BY <1>1
<1>3. PICK f : IsFlattening(f, s, S) /\ FlattenSeq(s) = f[1]
  BY <1>1, <1>2, FlattenWalk
<1>4. f[0] = <<>> /\ f[1] = f[0] \o s[1]
  <2>1. 1 \in 1 .. Len(s) /\ 1 - 1 = 0
    BY <1>2
  <2> QED
    BY <1>3, <2>1 DEF IsFlattening
<1>5. <<>> \o x = x
  OBVIOUS
<1> QED
  BY <1>1, <1>2, <1>3, <1>4, <1>5

(* The kinds of an entry of the log are known.                             *)
LEMMA DocumentedKinds ==
  ASSUME FormsDocumented, NEW entry \in Entries
  PROVE  entry.documented \in Seq(Kinds)
<1>1. CASE entry \in Forms
  BY <1>1, FormTells
<1>2. CASE entry \in GreEntries
  <2>1. entry.documented = <<>>
    BY <1>2 DEF GreEntries
  <2> QED
    BY <2>1
<1> QED
  BY <1>1, <1>2 DEF Entries

(* An entry is written, and yields what is documented of it.               *)
LEMMA DocumentedStep ==
  ASSUME FormsDocumented, IInv, AsDocumented, NEW entry \in Entries, Write(entry),
         dispatch_to_parsers(entry) \in Seq(Events),
         OtherKindsTold(dispatch_to_parsers(entry)) = entry.documented
  PROVE  AsDocumented'
<1>1. PICK out, written, D, docs, K, doc :
        /\ out = dispatch_to_parsers(entry) /\ written = log'
        /\ D = [i \in DOMAIN log |-> log[i].documented]
        /\ docs = [i \in DOMAIN written |-> written[i].documented]
        /\ K = Seq(Kinds) /\ doc = entry.documented
  OBVIOUS
<1>2. PICK T : T = Entries
  OBVIOUS
<1>3. /\ log \in Seq(T) /\ entry \in T /\ written = Append(log, entry)
      /\ events \in Seq(Events) /\ out \in Seq(Events) /\ events' = events \o out
  BY <1>1, <1>2 DEF IInv, TypeOK, Entries, Write
<1>4. /\ Len(log) \in Nat /\ DOMAIN log = 1 .. Len(log)
      /\ DOMAIN written = 1 .. Len(log) + 1 /\ written[Len(log) + 1] = entry
      /\ \A i \in 1 .. Len(log) : written[i] = log[i] /\ log[i] \in T
  BY ONLY <1>3
<1>5. D \in Seq(K) /\ Len(D) = Len(log) /\ doc \in K
  <2>1. \A i \in 1 .. Len(log) : log[i].documented \in K
    BY <1>1, <1>2, <1>4, DocumentedKinds
  <2>2. [i \in 1 .. Len(log) |-> log[i].documented] \in Seq(K)
    BY <1>4, <2>1
  <2>3. Len([i \in 1 .. Len(log) |-> log[i].documented]) = Len(log)
    BY <1>4
  <2> QED
    BY <1>1, <1>4, <2>2, <2>3, DocumentedKinds
<1>6. docs = Append(D, doc)
  <2>1. Append(D, doc) = [i \in 1 .. Len(log) + 1 |->
                            IF i = Len(log) + 1 THEN doc ELSE D[i]]
    <3>1. PICK c, n : c = Append(D, doc) /\ n = Len(log)
      OBVIOUS
    <3>2. /\ n \in Nat /\ c \in [1 .. n + 1 -> K] /\ c[n + 1] = doc
          /\ \A i \in 1 .. n : c[i] = D[i]
      <4>1. n \in Nat /\ Len(D) = n /\ D \in Seq(K) /\ doc \in K
        BY <1>4, <1>5, <3>1
      <4>2. /\ c \in Seq(K) /\ Len(c) = Len(D) + 1 /\ c[Len(D) + 1] = doc
            /\ \A i \in 1 .. Len(D) : c[i] = D[i]
        BY ONLY <3>1, <4>1, AppendProperties
      <4> QED
        BY ONLY <4>1, <4>2
    <3>3. \A i \in 1 .. n + 1 : i # n + 1 => i \in 1 .. n
      BY <3>2
    <3>4. \A i \in 1 .. n + 1 : c[i] = IF i = n + 1 THEN doc ELSE D[i]
      BY ONLY <3>2, <3>3
    <3>5. c = [i \in 1 .. n + 1 |-> IF i = n + 1 THEN doc ELSE D[i]]
      BY ONLY <3>2, <3>4
    <3> QED
      BY <3>1, <3>5
  <2>2. \A i \in 1 .. Len(log) + 1 :
          written[i].documented = IF i = Len(log) + 1 THEN doc ELSE D[i]
    BY <1>1, <1>4
  <2>3. docs = [i \in 1 .. Len(log) + 1 |-> written[i].documented]
    BY <1>1, <1>4
  <2> QED
    BY <1>5, <2>1, <2>2, <2>3
<1>7. FlattenSeq(docs) = FlattenSeq(D) \o doc
  <2>1. docs = D \o <<doc>> /\ <<doc>> \in Seq(K)
    BY <1>5, <1>6
  <2>2. PICK one : one = <<doc>>
    OBVIOUS
  <2>3. D \in Seq(Seq(Kinds)) /\ one \in Seq(Seq(Kinds))
    BY <1>1, <1>5, <2>1, <2>2
  <2>4. FlattenSeq(D \o one) = FlattenSeq(D) \o FlattenSeq(one)
    BY ONLY <2>3, FlattenJoined
  <2>5. FlattenSeq(one) = doc
    BY <1>1, <1>5, <2>2, FlattenOne
  <2> QED
    BY <2>1, <2>2, <2>4, <2>5
<1>8. OtherKindsTold(events \o out) = OtherKindsTold(events) \o doc
  BY <1>1, <1>3, KindsJoined
<1>9. OtherKindsTold(events) = FlattenSeq(D)
  BY <1>1 DEF AsDocumented
<1>10. OtherKindsTold(events)' = FlattenSeq(docs)
  <2>1. OtherKindsTold(events)' = OtherKindsTold(events \o out)
    BY <1>3 DEF OtherKindsTold
  <2> QED
    BY <1>7, <1>8, <1>9, <2>1
<1> QED
  BY <1>1, <1>10 DEF AsDocumented

(* What the entries account for.  The noise needs no word on the forms.    *)
Accounts ==
  /\ NoiseMarked
  /\ FormsDocumented => CountedOK /\ UnknownCounted /\ AsDocumented

(* A step that writes an entry keeps the accounts.                         *)
LEMMA WriteAccounts ==
  ASSUME IInv, IInv', Accounts, NEW entry \in Entries,
         Write(entry), UNCHANGED <<seat, counted>>,
         dispatch_to_parsers(entry) \in Seq(Events),
         Cardinality(Places(dispatch_to_parsers(entry), MarkerEvents))
           = One(OnlyNoise(entry)),
         FormsDocumented =>
           /\ dispatch_to_parsers(entry) = <<>> <=> Untold(entry)
           /\ OtherKindsTold(dispatch_to_parsers(entry)) = entry.documented
  PROVE  Accounts'
<1>1. NoiseMarked'
  BY NoiseMarkedStep DEF Accounts
<1>2. FormsDocumented => CountedOK' /\ UnknownCounted'
  BY UnknownCountedStep DEF Accounts
<1>3. FormsDocumented => AsDocumented'
  BY DocumentedStep DEF Accounts
<1> QED
  BY <1>1, <1>2, <1>3 DEF Accounts

(* One that writes none does.                                              *)
LEMMA KeptAccounts ==
  ASSUME Accounts, UNCHANGED <<stats, seat, log, events, counted>>
  PROVE  Accounts'
<1>1. /\ NoiseMarked'
      /\ FormsDocumented => CountedOK' /\ AsDocumented'
  BY DEF Accounts, CountedOK, NoiseMarked, AsDocumented
<1>2. {i \in counted + 1 .. Len(log) : Untold(log[i])}'
        = {i \in counted + 1 .. Len(log) : Untold(log[i])}
  BY DEF Untold
<1>3. FormsDocumented => UnknownCounted'
  BY <1>2 DEF Accounts, UnknownCounted
<1> QED
  BY <1>1, <1>3 DEF Accounts

(* A bundle.                                                               *)
LEMMA WriteBundleAccounts ==
  ASSUME IInv, IInv', Accounts, WriteBundle
  PROVE  Accounts'
<1> DEFINE plain == Entry("UnityCrossThreadLogger",
                          {<<"text", "greToClientEvent">>}, "ok", {}, <<>>)
           entry == [plain EXCEPT !.msgs = bundle]
<1>1. /\ bundle # <<>> /\ Write(entry) /\ UNCHANGED <<seat, counted>>
  BY DEF WriteBundle
<1>2. /\ bundle \in Seq(Messages) /\ winners \in Seq(Seats) /\ seat \in Seats
  BY DEF IInv, TypeOK
<1>3. entry \in GreEntries
  <2>1. plain \in GreEntries
    BY PlainEntries
  <2> HIDE DEF plain
  <2> QED
    BY <1>2, <2>1 DEF GreEntries
<1>4. /\ entry.header = "UnityCrossThreadLogger" /\ entry.json = "ok"
      /\ entry.has = {<<"text", "greToClientEvent">>}
      /\ entry.msgs = bundle /\ entry.lost = <<>> /\ entry.documented = <<>>
  BY DEF Entry
<1> HIDE DEF entry
<1>5. PICK out : out = gre_try_parse(bundle)
  OBVIOUS
<1>6. dispatch_to_parsers(entry) = out
  BY <1>1, <1>4, <1>5, DispatchGre
<1>7. /\ out \in Seq({e \in Events : e.kind \in GreKinds})
      /\ Cardinality(Places(out, MarkerEvents)) = One(OnlyNoise(entry))
      /\ out = <<>> <=> Untold(entry)
  <2>1. \A i \in DOMAIN bundle : Sound(bundle[i], winners, last_id)
    BY DEF IInv, GameOK, ToSet
  <2>2. HasConnect(ToSet(bundle)) \/ \A msg \in ToSet(bundle) : Addressed(msg, seat)
    BY DEF IInv, GameOK
  <2>3. /\ out \in Seq({e \in Events : e.kind \in GreKinds})
        /\ Cardinality(Places(out, MarkerEvents))
             = One(/\ \E msg \in ToSet(bundle) : IsNoise(msg)
                   /\ ~\E msg \in ToSet(bundle) : IsRich(msg))
        /\ out = <<>>
             <=> ~\E msg \in ToSet(bundle) :
                    IsRich(msg) \/ IsNoise(msg) \/ msg.seats = <<seat>>
    BY <1>2, <1>5, <2>1, <2>2, GreTells
  <2> QED
    BY <1>4, <2>3 DEF OnlyNoise, Untold
<1>8. out \in Seq(Events) /\ \A i \in DOMAIN out : out[i].kind \in GreKinds
  <2>1. PICK A, B : A = {e \in Events : e.kind \in GreKinds} /\ B = Events
    OBVIOUS
  <2>2. out \in Seq(A) /\ A \subseteq B
    BY <1>7, <2>1
  <2>3. out \in Seq(B) /\ \A i \in DOMAIN out : out[i] \in A
    BY ONLY <2>2, SeqMonotonic
  <2> QED
    BY <2>1, <2>3
<1>9. OtherKindsTold(out) = <<>>
  BY <1>8, NoneTold
<1> QED
  BY <1>1, <1>3, <1>4, <1>6, <1>7, <1>8, <1>9, WriteAccounts DEF Entries

(* The marker of a bundle.                                                 *)
LEMMA SummarizeBundleAccounts ==
  ASSUME IInv, IInv', Accounts, SummarizeBundle
  PROVE  Accounts'
<1> DEFINE plain == Entry("TruncationMarker",
                          {<<"text", "GameObject Count">>,
                           <<"text", "Annotation Count">>}, "none", {}, <<>>)
           entry == [plain EXCEPT !.lost = bundle]
<1>1. /\ ToSet(bundle) # {} /\ Write(entry) /\ UNCHANGED <<seat, counted>>
  BY DEF SummarizeBundle
<1>2. bundle \in Seq(Messages) /\ bundle # <<>>
  <2>1. ToSet(<<>>) = {}
    BY DEF ToSet
  <2> QED
    BY <1>1, <2>1 DEF IInv, TypeOK
<1>3. entry \in GreEntries
  <2>1. plain \in GreEntries
    BY PlainEntries
  <2> HIDE DEF plain
  <2> QED
    BY <1>2, <2>1 DEF GreEntries
<1>4. /\ entry.header = "TruncationMarker"
      /\ entry.has = {<<"text", "GameObject Count">>,
                      <<"text", "Annotation Count">>}
      /\ entry.msgs = <<>> /\ entry.lost = bundle /\ entry.documented = <<>>
  BY DEF Entry
<1> HIDE DEF entry
<1>5. PICK e, out : e = Event("Truncation") /\ out = <<e>>
  OBVIOUS
<1>6. dispatch_to_parsers(entry) = out
  BY <1>4, <1>5, DispatchMarker
<1>7. e.kind = "Truncation" /\ e \in Events /\ out \in Seq(Events)
  <2>1. e.kind = "Truncation" /\ e \in Events
    BY <1>5 DEF Event, Events, QuietEvents
  <2> QED
    BY <1>5, <2>1
<1>8. Cardinality(Places(out, MarkerEvents)) = One(OnlyNoise(entry))
  <2>1. e \notin MarkerEvents
    BY <1>7 DEF MarkerEvents, IsMarker
  <2>2. ~OnlyNoise(entry)
    <3>1. ToSet(<<>>) = {}
      BY DEF ToSet
    <3> QED
      BY <1>4, <3>1 DEF OnlyNoise
  <2>3. Cardinality(Places(out, MarkerEvents)) = One(e \in MarkerEvents)
    BY <1>5, CountOne
  <2> QED
    BY <2>1, <2>2, <2>3 DEF One
<1>9. out # <<>> /\ ~Untold(entry)
  BY <1>2, <1>4, <1>5 DEF Untold
<1>10. OtherKindsTold(out) = <<>>
  <2>1. \A i \in DOMAIN out : out[i].kind \in GreKinds
    BY <1>5, <1>7 DEF GreKinds
  <2> QED
    BY <1>7, <2>1, NoneTold
<1> QED
  BY <1>1, <1>3, <1>4, <1>6, <1>7, <1>8, <1>9, <1>10, WriteAccounts DEF Entries

(* An entry of the other parsers.                                          *)
LEMMA WriteOtherAccounts ==
  ASSUME IInv, IInv', Accounts, WriteOther
  PROVE  Accounts'
<1>1. PICK entry \in Forms : Write(entry)
  BY DEF WriteOther
<1>2. UNCHANGED <<seat, counted>>
  BY DEF WriteOther
<1>3. entry.msgs = <<>> /\ entry.lost = <<>>
  BY FormsAssumption
<1>4. /\ dispatch_to_parsers(entry) \in Seq(Events)
      /\ Cardinality(Places(dispatch_to_parsers(entry), MarkerEvents)) = 0
      /\ FormsDocumented =>
           (dispatch_to_parsers(entry) = <<>> <=> entry.documented = <<>>)
  BY FormTells
<1>5. One(OnlyNoise(entry)) = 0
  BY <1>3 DEF OnlyNoise, ToSet, One
<1>6. Untold(entry) <=> entry.documented = <<>>
  BY <1>3 DEF Untold, ToSet
<1>7. FormsDocumented =>
        OtherKindsTold(dispatch_to_parsers(entry)) = entry.documented
  BY DEF FormsDocumented
<1>8. entry \in Entries
  BY DEF Entries
<1>9. /\ Cardinality(Places(dispatch_to_parsers(entry), MarkerEvents))
           = One(OnlyNoise(entry))
      /\ FormsDocumented => (dispatch_to_parsers(entry) = <<>> <=> Untold(entry))
  BY <1>4, <1>5, <1>6
<1> QED
  BY <1>1, <1>2, <1>4, <1>7, <1>8, <1>9, WriteAccounts

(* The host starts the counters anew.                                      *)
LEMMA ResetAccounts ==
  ASSUME IInv, Accounts, ResetStats
  PROVE  Accounts'
<1>1. /\ seat' = seat /\ log' = log /\ events' = events
      /\ stats' = NewStats /\ counted' = Len(log)
  BY DEF ResetStats
<1>2. Len(log) \in Nat
  BY DEF IInv, TypeOK
<1>3. NoiseMarked' /\ (FormsDocumented => AsDocumented')
  BY <1>1 DEF Accounts, NoiseMarked, AsDocumented
<1>4. CountedOK'
  BY <1>1, <1>2 DEF CountedOK
<1>5. {i \in counted + 1 .. Len(log) : Untold(log[i])}' = {}
  <2>1. Len(log) + 1 .. Len(log) = {}
    BY <1>2
  <2> QED
    BY <1>1, <2>1
<1>6. UnknownCounted'
  <2>1. Cardinality({}) = 0
    BY FS_EmptySet
  <2>2. stats'.unknown = 0 /\ stats'.routed = 0
    BY <1>1 DEF NewStats
  <2>3. stats'.unknown
          = Cardinality({i \in counted + 1 .. Len(log) : Untold(log[i])}')
    BY <1>5, <2>1, <2>2
  <2>4. stats'.routed = Len(log') - counted' - stats'.unknown
    BY <1>1, <1>2, <2>2
  <2> QED
    BY <2>3, <2>4 DEF UnknownCounted
<1> QED
  BY <1>3, <1>4, <1>6 DEF Accounts

(* Nothing is written yet.                                                 *)
LEMMA AccountsInit == Init => Accounts
<1> SUFFICES ASSUME Init PROVE Accounts
  OBVIOUS
<1>1. log = <<>> /\ events = <<>> /\ stats = NewStats /\ counted = 0
  BY DEF Init
<1>2. Cardinality({}) = 0
  BY FS_EmptySet
<1>3. CountedOK
  BY <1>1 DEF CountedOK
<1>4. NoiseMarked
  <2>1. /\ {i \in DOMAIN events : IsMarker(events[i])} = {}
        /\ {i \in DOMAIN log : OnlyNoise(log[i])} = {}
    BY <1>1
  <2> QED
    BY <1>2, <2>1 DEF NoiseMarked
<1>5. UnknownCounted
  <2>1. {i \in counted + 1 .. Len(log) : Untold(log[i])} = {}
    BY <1>1
  <2>2. stats.unknown = 0 /\ stats.routed = 0
    BY <1>1 DEF NewStats
  <2>3. stats.routed = Len(log) - counted - stats.unknown
    BY <1>1, <2>2
  <2> QED
    BY <1>2, <2>1, <2>2, <2>3 DEF UnknownCounted
<1>6. AsDocumented
  <2>1. events \in Seq(Events)
    BY <1>1
  <2>2. \A i \in DOMAIN events : events[i].kind \in GreKinds
    BY <1>1
  <2>3. OtherKindsTold(events) = <<>>
    BY <2>1, <2>2, NoneTold
  <2>4. PICK none : none = [i \in DOMAIN log |-> log[i].documented]
    OBVIOUS
  <2>5. none \in Seq(Seq(Kinds)) /\ DOMAIN none = {}
    BY <1>1, <2>4
  <2>6. FlattenSeq(none) = <<>>
    BY <2>5, FlattenEmpty
  <2> QED
    BY <2>3, <2>4, <2>6 DEF AsDocumented
<1> QED
  BY <1>3, <1>4, <1>5, <1>6 DEF Accounts

(* Every step keeps the accounts.                                          *)
LEMMA AccountsStep ==
  ASSUME IInv, IInv', Accounts, [Next]_vars
  PROVE  Accounts'
<1>1. CASE StartGame \/ State \/ Minor \/ EndGame \/ EndMatch
  <2>1. UNCHANGED <<stats, seat, log, events, counted>>
    BY <1>1 DEF StartGame, State, Minor, EndGame, EndMatch, Receive
  <2> QED
    BY <2>1, KeptAccounts
<1>2. CASE WriteBundle
  BY <1>2, WriteBundleAccounts
<1>3. CASE SummarizeBundle
  BY <1>3, SummarizeBundleAccounts
<1>4. CASE WriteOther
  BY <1>4, WriteOtherAccounts
<1>5. CASE ResetStats
  BY <1>5, ResetAccounts
<1>6. CASE Terminated \/ UNCHANGED vars
  BY <1>6, KeptAccounts DEF Terminated, vars
<1> QED
  BY <1>1, <1>2, <1>3, <1>4, <1>5, <1>6 DEF Next

(* The accounts hold in every session, next to the report of the match.    *)
THEOREM AccountsKept == Spec => []Accounts
<1>1. Init => Accounts
  BY AccountsInit
<1>2. IInv /\ IInv' /\ Accounts /\ [Next]_vars => Accounts'
  BY AccountsStep
<1> QED
  BY <1>1, <1>2, Invariance, PTL DEF Spec

(* Each entry of noise is marked, once, and no other.                      *)
THEOREM NoiseToldOnce == Spec => []NoiseMarked
<1>1. Accounts => NoiseMarked
  BY DEF Accounts
<1> QED
  BY <1>1, AccountsKept, PTL

(* If each form alone yields what is documented of it, then in no session, *)
(* of any length, is an entry dropped without a trace.                     *)
THEOREM EveryEntryAccounted ==
  ASSUME FormsDocumented
  PROVE  Spec => []EntriesAccounted
<1>1. Accounts => EntriesAccounted
  BY DEF Accounts, EntriesAccounted
<1> QED
  BY <1>1, AccountsKept, PTL

(* Nor is an event of the other parsers made of anything else, or out of   *)
(* the order of the log.                                                   *)
THEOREM ToldAsDocumented ==
  ASSUME FormsDocumented
  PROVE  Spec => []AsDocumented
<1>1. Accounts => AsDocumented
  BY DEF Accounts
<1> QED
  BY <1>1, AccountsKept, PTL
=============================================================================

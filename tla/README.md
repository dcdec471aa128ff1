# TLA+ models of manasight-parser

manasight-parser tails MTG Arena's `Player.log` and turns it into typed game
events. These modules model the parts of the crate that keep state between
calls or run concurrently, check them with TLC on small instances, and prove
some of the results with TLAPS for every value of the constants. Paths are
relative to the repository (`src/` in the map of `PROJECT.json`).

## 1. The system

```text
 MTG Arena ──writes──▸ Player.log
                          │ polled: stat, reopen, chunked reads
                     FileTailer ── lines ──▸ LineBuffer ── entries ─┐
   tailer task (stream.rs)                                          │
        │  mpsc, PIPELINE_CAPACITY: entries and rotation marks ◂────┘
   router task: Router::route ──▸ category parsers ──▸ 0..n events
        │  mpsc, EVENT_QUEUE_CAPACITY
   Subscriber::recv          (shutdown: watch channel, seen by both tasks)

 WASM / whole file:  StreamingParser or parse_whole_log ──▸ LineBuffer ──▸ Router
 Host application:   EventBus (broadcast) ──▸ Subscribers
```

| Component | State | Operations | What is hard | What makes it correct |
|---|---|---|---|---|
| `stream.rs` pipeline | two tasks, two bounded queues, watch channel, batch in delivery | `start`, `start_once`, `shutdown`, drop of handle or subscriber, `recv` | every interleaving of tasks, full queues, shutdown and drops | gap-free, in-order prefix; nothing in flight lost; both tasks end |
| `log/tailer.rs` | open file, offset, last mtime, partial line, line buffer | `open`, `open_from_start`, `poll`, `flush`, `run`, `run_once` | the game writes or replaces the file between two steps of a poll; detection by size and mtime only | whole lines, once, in order; rotation between logs; real rotations only; catches up |
| `log/entry.rs` `LineBuffer` | entry in progress, brace scanner | `push_line`, `flush`, `reset` | every order of headers, bodies, orphans, markers; strings and escapes over line ends | entries partition the log and are the ones the whole text has |
| `wasm.rs` `StreamingParser` | held-back partial line | `push_chunk`, `finish` | chunk boundaries anywhere, `\r\n` included | the lines of the whole text, each as early as possible |
| `event_bus.rs` | ring, cursors, clones | `send`, `subscribe`, `recv`, clone, drop | lagging subscribers; the end | a subscriber misses only what was overwritten and is told the end |
| `router.rs` | three counters | `route`, `reset` | two parsers that could claim one entry | every entry's events and counters are the documented ones |
| `parsers/gre` | none | `try_parse` | batches, the repeated end of a match, messages to the other seat, summarised entries; states that are differences, rollbacks, ids that change | states once and in order, one result per game, the local seat, gaps marked; a consumer can rebuild the game |
| drafts, decks, courses, event calls, `match_state` | none | `try_parse` | requests and their confirmations, several forms of one call, runs side by side | each run is told as it went; decks are told apart |
| other `parsers/*` | none | `try_parse` | bare markers, malformed JSON | one event per fact |
| `parsers/api_common.rs` | none | `extract_json_from_body` and helpers | a second copy of the brace scanner | a cut entry holds its JSON |
| `log/timestamp.rs`, `router.rs` `extract_timestamp` | none | `parse_log_timestamp` | ambiguous dates, 12-hour clocks, punctuation | the time as it was written |
| `log/discovery.rs`, `log/steam.rs` | none; many looks at the file system | `discover_log_file` | the files change during the search; stale logs | the freshest log within reach |
| `sanitize.rs`, `util.rs`, `events.rs` | none | pure | – | – |

## 2. Modules

### EventStream (with LogDelivery) – `stream.rs`

`EventStream` models both constructors: the caller's choice between `start` and
`start_once` is the variable `once`, which `Init` leaves open. An *entry* is the
interval of event numbers that routing it yields (none, one or several); the
parsers are inside `EventsOf`. Variables follow the code: `tailer`/`outgoing`
(where `run_tailer` is and what it still has to send), `item_queue`,
`router`/`batch`/`watching` (`run_router`, `deliver`), `event_queue`,
`shutdown_sent`/`handle_dropped` (the watch channel), `pipeline` (the
supervisor's joins). `read` and `received` are histories. Every `.await` at which
another task can run is a step of its own: one send, one receive, one delivery.
`deliver`'s biased select is `DeliverEvent` (a permit is there) and, only when the
queue is full (`Blocked`), `StopRouting` or `StopWatching`. Leaving a task drops
its channel ends: `StopRouting` empties `item_queue`.

`LogDelivery` is the promise to the subscriber: events are received in order
without a gap, and the end is told only when nothing that was read is missing,
unless `shutdown()` was called. `ImplementsLogDelivery` is `EventStream`'s
refinement of it.

### FileTailer, MCFileTailer – `log/tailer.rs`

One state per system call: `Open`, `InitialMtime` (a second `stat` by path, which
may see another file), `SeekEnd`; a poll is `NoCheck`/`CheckRotation`, `Reopen`,
any number of `ReadChunk`s and `EndPoll`. Between any two, the game (external)
may `Write`, `MoveAway` and `Create`, or `Truncate` its log. A line is two
*pieces*, its text and its newline; sizes, offsets and the read buffer count
pieces, so that a chunk may end within a line. `Kind` says what each line is to
the line buffer (`PushLine` is `LineBuffer` with the text left out). A line is
identified by the game's line numbers whose text it holds: a whole line is a
sequence of length 1, and a joined, torn or empty one is not. A truncated log is a
new one under the same handle, whose position is then behind its end.
`sent` is what the polls handed on, `Rotation` included; for `run_once` it is the
`all_entries` it returns.

### TextLines, TailerText, StreamingParser – bytes, characters, lines

`TextLines` defines `lines` (what `str::lines` gives, the reference used by
`parse_whole_log`), the splitting both `push_chunk` and `poll` do, and
`String::from_utf8_lossy`, one byte after the other.
`StreamingParser` feeds every text over `\r`, `\n` and another character in every
division into chunks. `TailerText` feeds bytes, some of them halves of a
two-byte character, through `from_utf8_lossy` one read at a time.
`MCText` runs one of the two, or reads one header line with `Timestamps`.

### Timestamps – `log/timestamp.rs`, `router.rs`

A header line is a sequence of words; a date is its separator and three numbers.
`parse_log_timestamp` tries `LOCALE_FORMATS` in order, `extract_timestamp` prefixes
of 4 to 2 words without the punctuation at their end. A date has the format only if
its month has the day (`DaysIn`). `MCText` writes the dates of a common and a leap
year in each locale's form, at noon and midnight, with an event name and a colon behind,
and `TimeAsWritten` asks for the time that was meant wherever the form tells it,
and else for the documented preference for American dates.

### LineBuffer, EntryBody, MCLineBuffer – `log/entry.rs`

A line is its header kind, the number of frame-counter prefixes before it, and the
characters the brace scanner tells apart. `push_line` has one disjunct per branch
of the code. `MatchesWholeInput` compares the incremental buffer with a
declarative reading of the whole input (`Extent`, `CompleteAt`, `LastOf`).

### JsonExtract – `parsers/api_common.rs`

`extract_json_from_body`, the scan by which each parser finds the JSON in an entry.
`EntryBody` puts it behind the line buffer, over the joined lines of `take_entry`:
`EntryHoldsItsJson` says that where the buffer cuts an entry by its braces, the scan, a
second implementation of the same strings and escapes, finds a complete JSON text in
what was cut. It speaks of entries as MTG Arena writes them (`WrittenByArena`): no JSON
on the header line, a body that begins with an object if with anything, no line break
within an escape.

### EventBus – `event_bus.rs`

Senders are clones of the bus; the ring holds the last `Capacity` events; a
subscriber is a cursor. Tokio rounds the requested capacity up to a power of two,
and `Capacity` does. `recv` logs a lag and goes on at the oldest event held.

### Gre, Router, MatchLog, MCMatchLog – `router.rs`, `parsers/*`

`Gre` has the rules for one `greToClientEvent` entry: `emit_gsm_events`,
`find_local_seat`, the choice of `game_scope_result`, and `gre_try_parse`, which
joins them. `Router` has one operator per parser – the condition under which it
claims an entry, with every error that makes it decline – and `claims` lists them
in the order of `dispatch_to_parsers`. The body of an entry is the set of markers
in it, what became of its JSON, and the fields the parsers ask for.

Neither keeps state beyond the counters, so the interesting question is about
sequences of entries. `MatchLog` is the game (external) as it plays a match: it
collects messages of its server in a bundle and writes the bundle as one entry
(`WriteBundle`) or as a summary marker (`SummarizeBundle`); each entry is routed
when it is written. The log may begin in the middle of a game, without a
ConnectResp. `log` and `events` are histories, and the properties compare what a
consumer is told with what the game did: the set of states told is the set of
states logged and their numbers increase, so that each is told once and in order;
the same for the ends of games. `MCMatchLog` lists the other entries,
each with the kinds of event the documentation at the head of its parser promises.
All that `MatchLog` assumes of them (`FormsAssumption`) is that they have no messages
of the game, are no truncation markers, and that the courses in them form a list.

### JsonValue, GamePayload, GameReplay – payloads of game states

`GamePayload` has the builders of `game_state.rs`, `turn_info.rs` and
`annotations.rs` as tables of fields, each with its key and default
(`JsonValue!Copied`); objects are functions from keys, so a key that the game leaves
out is not in the domain. A payload is a copy, and whether the copy is right shows
only in what a consumer makes of it. `GameReplay` is therefore the game (external)
and a consumer: the game moves and shuffles cards, which changes their ids, fights,
grants abilities, turns, rolls back and resends; it writes each state as a
difference, leaving out what is zero or empty, or only a marker. The consumer
applies the payloads and nothing else. Its properties compare its board, its story
of annotations and its names of cards with the game's.

### RunPayload, LimitedRun – drafts, decks, courses, matches

`RunPayload` has the parsers of a run from draft to prize and `events_of`, their
priority. In `LimitedRun` the game (external) joins events with a draft against
bots or in a pod, shows packs, takes picks in each of the forms the parsers
document, submits decks with their cards in any order, lists courses, plays a match
and claims the prize; every call is a request, a response, or both. The consumer
files what it is told by event or draft id.

### Discovery, LogDiscovery – `log/discovery.rs`, `log/steam.rs`

Each look at the file system is a step: `ProbeRoot` (canonicalise, read
`libraryfolders.vdf` with the line scanner, else `compatdata`), `ReadTime` of one
candidate, `check_existence`. `LogDiscovery` lets Steam rewrite the files, the game
write its log and logs vanish between them. `due` keeps the logs that the search has
been bound to find since it began: of the only library an installation lists, of
its own directory, and of Lutris.

## 3. Runs

| Run | Bounds | Shows |
|---|---|---|
| Stream | queues of 2, polls of 2 entries with up to 2 events, 5 events | losslessness, the stop point, refinement of LogDelivery; shutdown, handle drop and one-shot end; every event arrives |
| Lines | 19 kinds of line, 4 or 6 calls | segmentation, and the JSON of each entry that is cut by its braces |
| Tail | 5 lines, 2 logs, 2 ticks, read buffer 3 pieces | whole lines, in order, once; rotations; the offset; catching up; `run_once` ends after the last write |
| TailPause | pause of 2 ticks, threshold 1 | *violation*: a rotation reported for a log nobody replaced |
| Text | texts up to 7 characters in chunks; bytes in reads; every header form | lines of chunks and reads; timestamps |
| TextSplitCharacter | see cfg | *violation*: valid text changed by a read boundary |
| BusLag | ring of 2, 5 sends, 2 subscribers, 2 clones | lag, order and end |
| MatchReport | 5 messages in entries of up to 3, 2 games, 1 gap; or 2 of the 42 other forms of entry | what a consumer learns of a match; counters; documented events |
| MatchInventory | 1 entry | *violation*: a StartHook response's inventory is not told |
| GameReplay | see cfg | a consumer rebuilds the game |
| LimitedRun | 2 runs in 2 events, 2 packs of 2 picks, 2 more decks | runs and decks as they were |
| LogDiscovery | 2 installations, a shared disk and Lutris; 2 rewritten files, 2 times | the freshest log is found |

Why the bounds suffice. A queue of capacity 1 or 2 is empty, partly full and full;
with both queues full, a batch in delivery and items still to send, every place a
task can block is reached with 4 events. The tailer's read buffer of 3 pieces ends
a chunk inside a line, at a line end and in the middle of a second line; 5 lines
hold a multi-line entry that its own last line ends and one that the next header
ends; 2 logs give one
rotation at every point of a poll. In `Lines` a behaviour
takes its lines either from the segmentation set (headers of all classes, frame
prefixes, orphans; 4 calls) or from the string set (6 calls), which the state
constraint `OneSetOfLines` expresses. In `MatchReport` 5 messages are two games
with the ConnectResp between them and the end of the match, or one game with a
state, a request or noise and both of its ends, in every division into entries;
the seats are interchangeable, so the constraint `Bounded` fixes one, and since
routing depends on nothing but the entry, other entries are tried without a match
after them. `BusLag` sends more than twice the ring. In `GameReplay` a state can be
lost, followed by a rollback to a state before or after it and by another
difference. Two runs in `LimitedRun` are two events side by side, or the same one
twice; two packs of two picks have a first and a last pick in a first and a last
pack. In `LogDiscovery` two rewritten files move the game from one library to
another, and two times are a stale log and a fresh one.

Deadlock is checked except where `MaxInput` or the text bounds the input
(`Lines`, `Text`); `Terminated` is the stuttering of a finished system.

### Assumptions about the environment

* **Fairness.** Tasks that can run do (tokio's scheduler); `tokio::select!` without
  `biased` picks a ready branch at random, so `run_tailer` cannot pass over a
  pending shutdown for ever: `SF_vars(StopTailing)`. Nothing is assumed of the
  subscriber except where a property says `KeepsReading`. The tailer's interval
  timer keeps ticking and file operations return: `WF_vars(Poll)`. Nothing is
  assumed of the game.
* **The game falls silent.** It writes at most `MaxLines` lines, so `CatchesUp` and
  `OneShotEnds` speak of a game that has no more to write. `run_once` polls "until no
  new complete entries are returned" (`tailer.rs:540`): beside a game that completes
  an entry during every poll the code does not end, and the property does not say it
  does. It is meant for logs that are complete ("batch processing",
  `Player-prev.log`, `tailer.rs:546-548`); that writes between and within its polls
  do not keep it from ending later is what the run shows.
* **Polls are frequent.** A tick of the clock (a large part of the 60 s threshold)
  is preceded by a whole poll of what the game did before (`polled` in `Tick`);
  backpressure that delays polls by a minute is outside the model.
* **What the tailer cannot notice.** Replacement shows only in the size and mtime of
  the path. A new log that is longer than the offset when the next poll looks, or
  just as long without a jump of the mtime, is indistinguishable and is never read:
  the old handle is polled for ever. `Write` therefore assumes that a new log shows
  a signal until it is noticed: it stays below the offset, or it reaches it
  (`AsLongAfterPause`, for a log at a new file) more than the threshold after the
  mtime that the tailer knows. `CatchesUp` fails without that conjunct, and without
  either signal in `Rotated`. `Truncate` assumes that something of
  the log was read before, because an unread log is not compared at all.
* **What the game addresses.** In `MatchLog` a state is addressed to the opponent
  alone only beside a ConnectResp, as the comment on `find_local_seat` has it
  (`parsers/gre/mod.rs:313-331`); noise may be addressed to anyone. If the game
  wrote a state to the opponent alone without a ConnectResp in the entry, a
  `LocalSeat` would name the opponent's seat.
* **Pauses of the game.** `RotationsAreReal` and `EntriesInLogOrder` need pauses in
  the writing that are short beside `MTIME_JUMP_THRESHOLD_SECS`, as `TailPause`
  shows. `RotationsCorrect` and `EntriesOrdered` prove them, for any number of logs,
  if `2 * MaxPause <= JumpThreshold`: the mtime that a check compares with is at most
  one pause old when it is read, and one more may pass while the log is empty. Run
  Tail has the weaker `MaxPause = JumpThreshold`, which two logs allow; with a third
  one, and a game that restarts twice between the `stat` and the reopening of one
  poll, it does not, and a rotation is reported of a log nobody replaced.

## 4. Findings

* `check_rotation` compares the mtime with that of the *previous poll's stat*, even
  if the data behind the jump has been read since (`log/tailer.rs:331`), and it
  returns before refreshing the mtime while the offset is 0 (`:305`). A log that is
  opened empty and first written after more than 60 s is read twice, with a
  `LogFileRotated` in between (TailPause).
* Reads are decoded one by one (`log/tailer.rs:416`), so a multi-byte character cut
  by a read becomes U+FFFD although the log is valid UTF-8 (TextSplitCharacter).
* The first parser that claims an entry has it, and `deck_collection` is asked
  before `inventory` (`router.rs:298`). A StartHook response with both yields no
  `Inventory`, although `tests/smoke_parsers.rs:307-309` says that both parsers
  extract their data from it (MatchInventory).
* Not a run: the MatchComplete message is suppressed because "the prior
  game-complete entry already produced" the result (`parsers/gre/mod.rs:236`). If
  that entry was summarised, the last game has no result. An entry with only a
  MatchComplete message is counted as unknown.
* Not a run: `connect_resp.rs:27` says the wrapper seats are "typically [1, 2]",
  `gre/mod.rs:319` that a ConnectResp surfaces the local seat.
* Not a run: `steam_libraries_for_appid_in` is documented to "locate every Steam
  library that contains `appid`" (`log/steam.rs:59`), but `library_for_root` returns
  the first one a file lists (`:172`). If an installation lists the game in two
  libraries, as the example at the head of `steam.rs` does, the second is no
  candidate, and "a stale leftover log in one candidate must not shadow a live log
  in another" (`log/discovery.rs:131`) does not hold of it. `LiveLogFound` speaks of
  installations that list the game once.
* Not a run: the eleventh of the `LOCALE_FORMATS` (a `T` between date and time) is
  one word, and `extract_timestamp` tries two or more (`router.rs:221`), so it is
  never read from a header. A localised AM or PM, which chrono does not know, makes
  the 24-hour format match the two words before it: the time is 12 hours off in
  the afternoon.
* Not a run: the documentation of a game state takes the turn from
  `gameInfo.turnInfo` (`gre/game_state.rs:37`), the code from
  `gameStateMessage.turnInfo` (`gre/turn_info.rs`).
* Not a run: an entry whose JSON is an array is flushed after the first object in
  it, because the line buffer counts braces only (`log/entry.rs:578`).
* Not a run: `events.rs:229-235` describes a 30 s wait for the `DETAILED LOGS` line
  that nothing implements.

## 5. Proofs

| Theorem | Says |
|---|---|
| `EventStream_proofs!TypeCorrect` | types and queue capacities |
| `EventStream_proofs!LogOrder` | what the subscriber receives is 1, 2, 3, … |
| `EventStream_proofs!Lossless` | received, queued, routed, sent and read follow each other without a gap |
| `EventStream_proofs!StopPoint` | the router gives up events only without a subscriber, or after `shutdown()` at a full queue |
| `EventStream_proofs!Refinement` | `Spec => LogDelivery!Spec` |
| `LineBuffer_proofs!TypeCorrect`, `Partition` | entries are disjoint runs of consecutive lines, header first, in log order, with the feature on or off |
| `LineBuffer_proofs!WholeInputMatched` | what was emitted is what the whole input has, however its lines arrived |
| `LineBuffer_proofs!JsonHeld` | an entry that is given out before the next header holds its whole JSON, the one its parser would find in all lines up to that header |
| `EventBus_proofs!SendOrder`, `OnlyLagLoses`, `EndIsLast` | a subscriber gets events in send order, misses only what was overwritten, and is told the end after the last one |
| `FileTailer_proofs!OffsetCorrect` | between polls `offset` is the position of the handle |
| `FileTailer_proofs!LogsFollow` | the tailer's handle, position and mtime stay in step with the game's logs |
| `FileTailer_proofs!RotationsCorrect` | every rotation that is reported is one (pauses at most half of the threshold) |
| `FileTailer_proofs!WholeLines` | every line in an entry is one whole line of the game |
| `FileTailer_proofs!NoneSkipped` | a tailer that began at the start has taken every header below its position in the log it has open, unless it failed or that log was truncated under its handle |
| `FileTailer_proofs!FilesSeparated` | no entry mixes logs, and a rotation stands between those of two logs |
| `FileTailer_proofs!EntriesOrdered` | entries come in the order of the game, each line once, over all logs (same pauses) |
| `StreamingParser_proofs!LinesPushed` | the lines pushed are those of the whole text, however it is cut into chunks |
| `StreamingParser_proofs!AsciiSurvives` | the tailer's lines have the ASCII characters of the lines of what it read, however the reads cut the bytes |
| `MatchLog_proofs!OrderTold` | each game state the log holds is told once, in the order of the game |
| `MatchLog_proofs!EndsOfGamesTold` | each end of a game in the log is told once, with its winner, behind its annotations |
| `MatchLog_proofs!SeatTold` | the local seat is told as soon as the log tells it, the opponent's never |
| `MatchLog_proofs!GapsTruncated` | a state that is only summarised leaves a Truncation at its place |
| `MatchLog_proofs!NoiseToldOnce` | an entry of noise is marked as such, once; no other entry is |
| `MatchLog_proofs!EveryEntryAccounted` | no entry is dropped without a trace, and the counters know of it, also after resets (forms alone as documented) |
| `MatchLog_proofs!ToldAsDocumented` | the events of the other parsers are the documented ones of the log's entries, in its order (forms alone as documented) |
| `GameReplay_proofs!MissesKnown` | a consumer of payloads knows when it has missed a state, and when a Full one has made good for it |
| `GameReplay_proofs!BoardRebuilt` | a consumer that missed nothing since a Full state has the board, objects, abilities, turn and clock of the game |
| `GameReplay_proofs!StoryTold` | what it was told has happened is what has happened, in order and once, also after rollbacks |
| `GameReplay_proofs!CardsTraced` | no id is taken for another card; a card once revealed is known under every later id |

They hold for every capacity, batch size, log, read buffer and chunk, and for matches
of any number of games, states and messages to an entry, from the named
assumptions on the constants; `LinesPushed` and `MissesKnown` need none, the other
three of `GameReplay` that instance ids leave room for 999 cards (`BoundsAssumption`).
**EventStream.** Neither order nor losslessness is
inductive alone. `IInv` joins `TypeOK`, `InLogOrder`, `NothingLost`, that idle
tasks hold nothing, that the log is whole unless the pipeline was stopped
(`WholeUnlessStopped`) and that nothing received exceeds what was read: items
*follow* each other from the last delivered event to the last one read, each
action moves one event over one boundary of that chain, and the refinement's
"told the end" step needs the chain to be empty. **LineBuffer.** The invariant adds
that the entry in progress ends at the last line of the input, after all emitted
entries. For `WholeInputMatched` it also adds `MatchOK`: the brace state is
the scan of the open entry's body in one go (a scan may be interrupted,
`ScanConcat`), the headers of the input that have their entry are those of
`emitted`, and of the others only the last may still be open, as the entry in
progress. What one more call does to a header is one of three lemmas: out or
dropped it stays so (`OutStays`, `DroppedStays`), open it comes out, is dropped
or grows by the line (`OpenGrows`). The counts agree because headers and the entries
they give are in bijection.

`JsonHeld` compares two scans that are not the same: the brace counter goes over the
lines and forgets a `}` too many, the parsers' scan goes over the joined body, with
its header and line breaks, from the first bracket on. `Lockstep` says what a body and
the text of its lines have in common: in both nothing was opened yet (`Unstarted`), or
in both the JSON is open, at the same depth and in the same place of a string
(`Within`), or the parsers' scan has come to its end (`Found`). A character of a line
keeps this (`LockstepText`), a line break too (`LockstepBreak`), unless an escape is
pending, and so a line does (`LockstepLine`); once the end is found, nothing put behind
it changes the JSON (`FoundStays`). The buffer cuts where its depth is 0 again, which
of the three leaves only the last (`CompleteFound`), and by `WholeInputMatched`'s
invariant it cuts there at the earliest. A header line with JSON on it and a body
that begins with an array or a string are excluded by `WrittenByArena`, and there the
scans do differ.

**EventBus.** `Good(s)` ties what
one subscriber received to its cursor: the cursor is past the events before it
joined and at most one past the last event sent, what it received is increasing and
before the cursor, and every other event before the cursor was overwritten. A step
of one subscriber leaves the others untouched, and sending can only overwrite more
(`UntouchedStaysGood`). Of the capacity the proof uses only `CapacityAssumption`,
that it is not 0: the installed provers have no theory of powers of two, so TLC
evaluates that fact for the capacity of the run.

**FileTailer.** Five layers, each inductive relative to those before it.
(1) `PositionsOK` and `Accounted`: the position is `offset` plus the `total` of the
running poll, by program counter. (2) `LogsOK` is about the game: a log ends before
the next begins and the last one with the line written last. `HandleOK` is about the
handle: until the log is replaced it is on the log at the path and not behind its
end; once the log was truncated under it, it is behind the end and nothing can be
read. `Write`'s assumption on a new log that was not noticed yet enters here and
nowhere else, in that a log truncated under its handle stays below the offset. (3) `Timing` bounds how far `last_mtime` may be behind
the clock, and by it `RotationsFound`: `reopening` is reached of a replaced log only.
(4) `LinesOK` says what the bytes held so far are: `partial_line` is empty when the
position is at the start of a line and else the text of the line it is in, and what
was handed on or is held are whole lines from before the position. `HeadersTaken`
adds that none of the headers below the position is missing. (5) `SessionOK` says
that what was handed on since the last rotation is of one log, `OrderOK` that it is
in order and, of a replaced log, older than every line at the path. A read is the
fold `FeedAll` over its pieces; `ReadOne` is what one piece does to all of (4) and (5),
`ReadAll` the induction over the pieces. `NothingSkipped` and the rest speak of the
entries in progress too, so that the last step of each proof is that a flush, or the
end of a poll, moves lines from what is held to what was handed on.

**MatchLog.** The invariant has two sides. `GameOK` is about the game: every message
is `Sound` (its number is not beyond `last_id`, an end of a game shows the winners so
far), the messages in the bundle are in order and come after whatever the log holds
or lacks (`Before`), and a bundle without a ConnectResp addresses nothing but noise to the
opponent alone (`Addressed`). `Report` is about the consumer and speaks of *any*
sequence of events: the states told are the news in order (`StatesTold`), the results
the ends of games (`EndsTold`), each behind the state that shows it (`BlowsTold`), no
seat but the local one, and for every state that was lost a place in the sequence
such that the states before and after it stand before and after that place
(`GapsTold`). The last is stronger than `GapsMarked`, which says nothing while no later
state has been told, and so is not inductive. A lemma for each part says what one more
event does to it (`StatesGrow`, `EndsStay`, `GapsMark`, …). An entry of the game is
then walked message by message: `emit_gsm_events` adds one state, one state with a
result, or nothing, and if the log had what is before that message, it has now what
is before the next (`EmitReports`, `FlatReports`, `GreReports`). `DispatchGre`,
`DispatchMarker` and `DispatchOther` say which of the eighteen parsers claims an entry:
no other parser looks at one of GRE, and those of `Forms` yield neither states nor
results nor seats, whatever is in them. TLC checks the invariant on the run's
instance.

`Accounts` is what the entries account for. Both sides of `NoiseMarked` and of
`UnknownCounted` count places in sequences that only grow, so a step keeps them if the
entry it writes adds the same to both (`CountJoined`, `LateGrows`), and `AsDocumented`
compares two flattened sequences, of which it has to add the same to both
(`FlattenJoined`). For an entry of GRE that is `GreTells`, of its three parts: it
yields a marker iff it has noise and nothing richer, nothing at all iff no message in
it is worth an event, and this rests on `GameOK`, because a seat is found only where
the messages address the local player. For an entry of `Forms` it is
the hypothesis `FormsDocumented`: each form *alone* yields what is documented of it.
That is a finite table, about code and documentation that say the same thing twice,
and TLC checks it form by form (a session of `MatchReport` that writes one entry).
The theorems extend it to sessions of any length, with a match before, between and
after, and resets of the counters. `NoiseToldOnce` does not need it.

**StreamingParser.** `lines` counts newlines, `split` cuts piece by piece; `IsCut`
joins the two. It says where each piece of a text starts, that the pieces with the
newlines at their ends cover the text in order, and that no piece holds a newline.
`split` cuts every text (`SplitIsCut`, one character at a time: `CutOneMore`). A place
in piece k has k - 1 newlines before it, the ends of the pieces before
(`NewlinesOfCut`), so the places of line k are those of piece k without a `'\r'` at
its end (`PlacesOfCut`), and the lines are the pieces, without the last one if it is
empty (`LinesOfCut`). The invariant is that what was pushed and the tail are the
pieces of the text so far. A chunk keeps it because the last piece, with the chunk
behind it, can be cut on its own (`CutOfConcat`): a newline never joins pieces, and a
`'\r'` at the end of the tail is still there when its `'\n'` comes.

`AsciiSurvives` rests on the same cuts. What the tailer decoded, read by read, and what
it would decode in one go are different texts (a cut character is two U+FFFD in the
one and one character in the other), so neither can be the invariant of the other:
both are compared with the *bytes*, which no read changes. A text and bytes are
`Alike` if they have equally many pieces and each piece of the one has the ASCII
characters of the other's, is empty only with it, and ends in `'\r'` only with it (the
last two because of `TailLine` and `StripCr`). The invariant (`ReadsLookAlike`) is that
the lines pushed and the one held back are those of some text that is `Alike` the
bytes read. Decoding keeps it byte by byte (`DecodedAlike`): an ASCII byte is itself in
both, any other adds something that is not ASCII to both, and the second half of a
character adds to the bytes alone, where the piece it falls in is neither empty nor
ends in `'\r'` (`TrailGrows`).

**GameReplay.** Of the payload the proof needs what the merges of `GamePayload` leave
untouched: the number of a state, whether it is Full, and its `prev_game_state_id`,
through every field a difference leaves out (`FullIsFull`, `DiffIsDiff`,
`UndoIsFull`; objects are merged with `JsonValue!++`, because the provers do not know
`@@` of the module TLC). The invariant (`LastTold`) is that every state after the
last one told was left out, so a difference is of the state before it exactly if
nothing was left out in between; and that the consumer is in step iff no state before
the last one told is missing that no later Full state made good for (`GapBefore`).
`MissedStatesNoticed` is this at the moments when the last state was told.

The other three properties need what the consumer *has* (`BInv`). None of them is
inductive: they speak of the moments when the consumer is up to date, and a game may
return to any earlier state at any later moment. So `BoardKept` and `StoryKept` speak
of the state the consumer was told *last*, wherever the game is by now, `StoryKept`
also of every state it could be rolled back to, and `NamesKept` of the cards in every
state so far. `GamesKept` says that these are games (finitely many cards and grants),
`IdsIssued` that the ids a state issues were never known before, so that what a
shuffle or a move reveals is news. The proof goes in four layers. What the game's
messages list (`FullSays`, `DiffSays`): the lists are ascending lists of finite sets
(`AscendingFacts`, by the rank of an element). What the payload makes of them, builder
by builder (`ZoneTold` to `RenameTold`, `ZonesTold` to `TurnTold`), with every default
and every field that is left out. What the consumer makes of a payload: the whole one
is the board (`ReplayedFull`), a difference turns the board of the state before into
that of the next (`ReplayedDiff`), the names only ever grow by right ones
(`NamedFacts`). And what each step of the game may change (`MayFollow`, `Traced`),
action by action (`LifeStep` to `MoveStep`), told, left out or as a Full state. TLC
checked `IInv` and `BInv` with the bounds of the run before they were proved.

**Recursive functions.** `Walks` proves induction over the natural numbers, and over
an interval, for a *set* instead of an operator, from the library's theorem that
every set with a well-founded relation has a minimal element; and from it that a
function that is defined by taking one step for each place of an interval exists.
A recursive function of a model is shown to be such a walk (`FeedAllWalk`), after
which its recursion equations can be used; the events of a bundle are the fold of
those of its messages by the same argument (`FlattenWalk`), and so are `split` of a
text (`SplitIsCut`), its ASCII characters (`AsciiIsKept`) and the characters of bytes
(`LossyIsDecoded`).

Model-checked only: liveness (`EntryArrives` and its like, `CatchesUp`,
`OneShotEnds`), for which the prover has no rules; `Timestamps`, `LimitedRun` and
`LogDiscovery`, whose properties compare tables of finitely many forms, which TLC
enumerates and a proof would list again; and the table `FormsDocumented` for the
same reason.

## 6. Not modelled, and the plan

Left out on purpose: logging and `has_emitted_anything`-style diagnostics,
`last_event_at`, the payload of `RotationInfo`, the u32 width of the brace depth
(4·10⁹ open braces), panics of tasks, and the wasm-bindgen type conversions.
Payloads that are copies without a decision (`client_actions`, `session`, `rank`,
`inventory`, `deck_collection`, the connection parsers, decks and settings of
ConnectResp, the players of a GameResult) are not modelled: nothing relates their
fields to each other or to another entry, so a property could only repeat the
copy. `parse_epoch_millis`, `parse_dotnet_ticks` and `parse_iso8601` are
conversions no parser calls. The sanitiser replaces what regular expressions match;
its content is in the patterns. `events.rs` and `util.rs` are types, serialisation,
hashing and compression.

**Coverage.** Of the 32,000 lines under `src/src` some 4,300 are code; the rest are
the inline `mod tests` of each file, comments and blank lines, which no definition
stands for: `annotations.rs` has 561 lines before its tests of 2778, `game_state.rs`
468 of 2169. The map names code only, so its share of all lines stays low although
it has most functions that decide anything.

Open, in this order:

1. A composition of `FileTailer` and `EventStream` through `LogDelivery`.
2. An abstract report of a match that `MatchLog` is shown to implement.
3. A proof of `RunTold` of `LimitedRun`.

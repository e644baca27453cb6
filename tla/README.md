# VSTradingAI in TLA+

VSTradingAI is a FastAPI and SQLite backend (`src/backend/app`) with a React
dashboard (`src/frontend`). It turns market data into graded trade decisions,
stores the tradable ones as setups, lets an operator review them and execute
them as paper trades behind a risk gate, and watches the open paper trade until
it exits. This directory specifies and verifies the parts of it that are hard
to test: handlers on several threads over a database without read transactions,
background loops that can fail or be restarted, limits that span a whole day,
the decision function, and the historical replay by which strategies are judged.

TLC checks every specification on a small instance. For every specification TLAPS
proves its type, nearly all of its safety properties and its refinements for
every value of the constants; what is left to TLC is named under
[proofs](#proofs).

Contents: [how the program runs](#how-the-program-runs),
[components](#components), [modules](#modules), [runs](#runs-and-bounds),
[fairness](#fairness), [proofs](#proofs),
[disagreements](#where-the-code-disagrees-with-its-documentation), [not
modelled](#what-is-not-modelled), [plan](#plan).

## How the program runs

* Request handlers of `routes.py` are synchronous functions; FastAPI runs each
  on a thread of its pool, so any two of them may interleave.
* `main.py` (19-59) starts two tasks on the event loop: the paper monitor, whose
  iteration `monitor_once` runs on a thread every few seconds, and the
  market-data supervisor, which polls on the loop itself.
* Each WebSocket on `/ws/decision` has a loop that runs the pipeline on a thread.
* Every function of `store.py` opens its own SQLite connection. A SELECT opens
  no transaction, so a function that reads and then writes can be overtaken
  between the two. Any call may raise (the database stays locked, the disk is
  full), and the process may be restarted between any two of them.
* Nothing of the session counters, setups, trades or kill switch is kept in
  memory. Orders, the feed state and the remembered decision signature are.

So an action of these modules is one SELECT, one write transaction with the
local code after it, one critical section of a lock, or one call to something
outside, and everything else can happen in between.

## Components

| Component | State | Operations | What is hard | What makes it correct |
|---|---|---|---|---|
| Session counters (`store.py` 145-192) | one `sessions` row per trading day: trades, pnl, wins, losses, loss streak | get or create the row, record a result | first readers race to create the row; streak is read, then written; midnight | totals are exact, no row is wiped, the streak invents no loss |
| Paper trade lifecycle (`store.py`, `routes.py` 433-571, `paper_monitor.py`) | `trade_setups`, `paper_trades` | create, review, execute, close a setup | two closers, two executors, stale reads, crash between close and count | one open trade, one trade per setup, setup status and trade agree, session counts each trade once |
| Risk supervisor (`risk_supervisor.py`) | `risk_state.kill_switch`; reads the counters and the open trade | entry gate, kill switch | four reads at four times | no entry while a limit has held throughout; daily limit; lockout |
| Paper monitor (`paper_monitor.py`) | loop state, newest trade | iterate, exit, record, notify | calls that raise at each place; the trade it read is closed by another | exits are taken, at a quote and for a reason that fit the trade |
| Market-data supervisor (`market_data_service.py`) | `_state` under a lock, state file | poll (loop and endpoints), start, stop, restart | overlapping polls; writes that fail; old state after a restart; timestamps that lie in the host's future | an outage is NO_TRADE, a failed poll is NO_TRADE, a session that is lost counts as an outage, the feed recovers |
| Execution readiness (`execution_readiness.py`) | previews, orders, keys, in memory | preview, confirm | one key on many previews, confirms in any order | one order per key; queue and previews agree; lot size and capital |
| Decision pipeline (`pipeline.py`, `agents/*`) | none between polls | run the agents, align, grade, decide | thresholds and weights that meet in few places | grade and decision agree; no buy against the tape; calls and puts are treated alike |
| Live decision log (`routes.py` 97-107, 770-823, `audit_log.py`) | remembered signature, audit log, setups | build, log, create a setup, remember | failure between two writes; a thread per socket and request | what is shown is on record |
| Dashboard live feed (`useLiveDecision.ts`, `api.ts` 7-19) | socket, failure count, timers | connect, close, poll, give a poll up, unmount | every order of close, open, poll and unmount; a poll given up while its server call goes on | never dark, falls back, keeps receiving |
| Manual positions (`store.py` 203-235, `routes.py` 326-353) | `positions` | open, close | two closes of one position, or a close overtaken by the next position; the result recorded in a second transaction | one result per position unless closes meet, and even then what its row shows is counted |
| Zerodha session (`zerodha_client.py` 27-87) | `_connected`, in memory | validate when built, check health | one failed profile call clears it for good | outages are noticed, a restart recovers |
| Strategy lab (`strategy_lab.py`, `strategy_validation.py`) | none between requests | replay signals, sum up, split | ambiguous candles, gaps, the ends of frame and holding period | no look-ahead, pessimistic exits, drawdown, splits do not leak |
| Institutional flow history (`institutional_flow_history.py`) | snapshots in a table | record, read | reads and inserts of two calls interleave; days beyond the row limit; days that change | a flag compares with what it says it does |

How they interact: the live decision runs the pipeline, which reads the session
counters and the feed; a tradable decision becomes a setup; review and execute
move the setup, and execute asks the risk supervisor, which reads the counters;
the monitor and the close endpoints close the trade and record its result in
the counters, which closes the circle. `PROJECT.json` lists every component
with its files, and every hazard at its line.

## Modules

| Module | Models | Uses |
|---|---|---|
| `DailyLedger` | abstract: a day's totals, a result enters them in one step | |
| `Sessions` | the `sessions` table and the two calls on it, statement by statement | implements `DailyLedger` |
| `PaperBook` | abstract: one open trade, one trade per setup, no reopening | |
| `PaperTrading` | setups, review, risk gate, execute, close, kill switch, rollover | extends `Sessions`, implements `PaperBook` |
| `Positions` | manual positions and the results they record | extends `Sessions` |
| `MonitorLoop` | `run_monitor_loop` and `monitor_once` | |
| `MarketFeed` | the supervisor's polls, loop, state file, the client's session, restarts | |
| `OrderDesk` | previews, confirmations, keys, restarts | |
| `Agents` | the readings of the eight analysing agents | |
| `Pipeline` | Risk Agent, alignment, grade, checklist, decision, one poll | extends `Agents` |
| `LiveDecision` | the server call behind a live decision, and the dashboard's hook | |
| `Replay` | one strategy-lab request: replay, summary, walk-forward splits | |
| `FlowHistory` | recording of institutional-flow snapshots | |
| `SumProofs` | lemmas: sums over finite sets and functions | |
| `SessionsProofs` | the theorems about `Sessions` | extends it, `SumProofs` |
| `PaperProofs` | about `PaperTrading` and `PaperBook` | extends `SessionsProofs` |
| `ManualTradingProofs` | about `Positions` and `OrderDesk`: the trades an operator makes by hand | extends `SessionsProofs` |
| `BackgroundProofs` | about `MarketFeed` and `MonitorLoop`: the two background tasks | |
| `PipelineProofs` | about `Pipeline` and `Agents` | extends `SumProofs` |
| `RecordProofs` | about `FlowHistory` and `LiveDecision`: the records that requests append to | |
| `ReplayProofs` | about `Replay` | |
| `MC*` | values of the constants for TLC | extend it |

**Sessions.** `call[p]` is the activation of `get_session_dict` or
`record_trade_result` on thread `p`: its `day` is fixed on entry, as `_today()`
is, and `row` is what it read. `LookupRow`, `InsertRow`, `ReadRow`, `UpdateRow`
are its statements. In `UpdatedRow` the totals add to the row as it is now
(`col = col + ?`) while the streak is computed from the row as it was read.
`results` is history: the results in the order of their UPDATEs.

**PaperTrading.** `pc[p]` and `job[p]` are a handler and its locals. Review is
`ReadReview`, `WriteReview`; execute is `ReadSetup`, `ReadRiskState`, a call of
`Sessions`, `RiskGate`, `RecheckSetup`, `InsertTrade`; closing is `FindOpen`,
`CheckOpen`, `CloseTrade`, a call of `Sessions`, `ResultRecorded`. `CloseTrade`
commits and enters `record_trade_result` in one action: nothing lies between
the two but local code, and what can fail there is covered by a failure of the
call. Sizing and reward/risk depend on the request alone, so `RiskGate` may
refuse anything. A trade has the name of its setup, since `setup_id` is unique.
`closes`, `counted` and `barred` are history.

**Positions.** `step[p]` and `held[p]` are the close endpoint on thread `p` and the
position it has read. `FindOpen` is the SELECT, `ClosePosition` the UPDATE, which
names the row by its id and whose transaction is followed by
`record_trade_result` with nothing but local code between; the statements of that
call are the actions of `Sessions`, so that closes, status requests and midnight
interleave with them. The index `one_open_position` is a guard of `OpenPosition`.
`booked` (how often a position was counted), `amounts` (with which results),
`raised` and `overlap` are history.

**MonitorLoop.** Here the question is whether exits are taken, so of the tables
only the newest trade is left, and prices are the zones between stop and
targets. Each call that may raise is a step of its own, and what the code does
with the exception (the inner handler, the outer one, none) is what decides
whether the worker survives. `quoted` is history: the newest trade when the
price was fetched, which is what the reason found for it has to fit.

**MarketFeed.** One action is one critical section of `poll_once`, or the calls
between two. A timestamp is what the host takes for its age, in ticks, from
`-Ahead` to `Old`: Kite's quotes carry India's time without a zone, which
`astimezone` reads as the host's, so on a host that keeps UTC they lie 5.5 hours in
the future. `AgeSec` clamps such a reading to 0, as `snapshot` does, until ticks
have brought it there. `solo` says that no other poll
overlapped with the latest when it began; `FailureIsSafe` needs it, because an
older poll that is still under way may publish after a newer one has failed.
`session` is the client's `_connected`: `none` before the client is built, `lost`
once a profile call has raised, and every getter raises then (`Answers`). Nothing
sets it again, so only `Restart` brings it back. `UseSource` is any other handler
that builds the client or asks for its health.

**OrderDesk.** `create_preview` touches shared state once, and `confirm` runs under
the lock from end to end: one action each. Restart empties everything,
since nothing is stored.

**Agents, Pipeline.** Integers only: weights in hundredths, effective weights in
units of 10^-5, confidence in 10^-4, prices as gaps. A snapshot is a record of
the readings that the agents branch on, and `Decide` is `run_pipeline` after the
fetch. Two readings are not sampled: a put-call ratio of None (no call open
interest) and a chain without walls.

**LiveDecision.** `calls[c]` is the activation of `_build_and_log_live_decision`
for the socket, for a poll, or for nobody any more (`Abandoned`: the socket is
gone, or the poll was given up, and its thread goes on to log and store). `Abort`
is the timeout of `requestJSON`, 8 seconds: it may strike wherever the server is
by then, the hook gets an error and polls again. `decide`, `compare`, `log`,
`setup`, `remember` are the steps of a call, and the first, third and fourth may
raise. `mounted`, `socket`, `failures`, `reconnect`, `polling` are the variables
of the hook's closure. What the pipeline decides is any element of `Decisions`:
module `Pipeline` says which.

**Replay.** One action is one iteration of a loop of `replay_signals`,
`summarize_trades` or `walk_forward_splits`, or the step between two. Prices are
integers and money is counted in units in which the cost rate is whole, so no
rounding is involved. A signal is known by the number of candles at or before its
time, which is all `searchsorted` uses. `IsReplay` and `Fills` are reference
definitions, said without the loop: what a trade over given candles is, and at
which prices a market could have filled its orders within a candle.

**FlowHistory.** `call[p]` is a `record_flow_snapshot`: `Capture` takes its time and
day, `Judge` reads the history of that day and finds the codes, `Insert` writes the
row. Scores are whole points and ratios hundredths, so the z-score test is an
integer comparison without roots (`Outlier`). `alone` and `plain` are history: the
call met no other, and read the whole day.

## Runs and bounds

| Run | Instance | Shows |
|---|---|---|
| `positions` | 2 threads, 2 positions, 2 days, a loss and a win, faults | the session's totals exact through every race (`LedgerSpec`), rows never wiped, the streak wrong only if two results are recorded at once, each closed position counted once unless closes meet, and what its row shows counted even then |
| `paper_concurrent` | 2 threads, one of which reviews, 2 setups, 2 days, faults, limits of 1 trade, 1 loss | one open trade (`BookSpec`), no entry while barred throughout, the session never ahead of the ledger, entries are approved |
| `paper_apart` | 2 threads that review and close, one of which trades, 3 setups, a loss and a win, no faults, limits of 2 trades, 1 loss, 2 losses in a row | which overlaps are all that can part setup from trade or counters from ledger, or pass the limits of a day that reaches them over several trades |
| `feed` | loop and one endpoint thread, timestamps up to 1 tick ahead, 1 restart, counters to 1 | outages longer than the limit and that lead, lost sessions and failed polls are NO_TRADE, the feed recovers |
| `monitor` | 2 trades with 0, 1 or 2 targets, 1 restart | exits are taken, at a quote and for a reason of the trade that is closed |
| `orders` | 3 previews, one key or none, 2 quantities, 2 prices or none | one order per key, queue and previews agree |
| `decisions` | 110,592 markets under the weights of the code | grade and decision agree, no buy against the tape, nothing graded A_PLUS, puts on no easier terms than calls except exactly on a level |
| `live` | no trade and two strikes of one buy, a socket, an abandoned call, a poll | what is shown is on record, never dark, falls back, keeps receiving |
| `replay` | 1 or 2 signals on 2 or 3 of 7 candle shapes, with and without slippage, held 2 or 3 candles; walk-forward sizes from -1 to 3 on 3 to 9 candles | no look-ahead, no worse market, the drawdown, no leaking split |
| `flow` | 2 threads, 3 summaries, 5 captures over 2 days, at most 3 rows read, outliers from 3 samples, failures | reversals are since the previous snapshot, flags have a cause |

Why these bounds are enough. A race of the session calls needs two threads, a
second position is what an overtaken close could hit, and a second day is what
midnight needs. In `paper_concurrent` two setups are what a second open trade
needs, and limits of one make each of them bite after one result. In `paper_apart`
the conditions speak of two handlers, so two threads are what can break and what
can keep them; its properties have the form `[]P => []Q`, which TLC checks as
temporal formulas, without symmetry. Three setups and a win let two wins reach the
trade limit alone, and one loss the loss limit alone, exactly; the third setup is
the trade that must not be opened. That is as much as this form allows: faults,
midnight and rejections are left to `paper_concurrent`, and two losses in a row
come after the loss limit, so there the streak only bars what is barred. The
theorems have none of these bounds, and `positions` has the races of the streak.
Two overlapping polls make every race of the feed, since its state is only
compared with that of one other poll; a counter that stays at 1 still tells no
failure from some, which is all the code asks of it; timestamps from one tick
ahead of the host to one past the limit take each side of both comparisons. A
second trade is what the worker could mistake for the first. Three previews let a
key be shared, confirmed and tried again. One abandoned call is enough for the
server to write behind the dashboard's back. In `decisions` the readings are
chosen at the ends of each agent's range, where scores, caps and thresholds are
decided, and on both sides of each checklist item, and where an agent takes
equality for below (the day's open, a momentum of nothing, a timeframe without
bias); two agents under one family cap already exceed it. In `replay` the candles
touch neither level, either, both, and open beyond each; three of them hold an
entry, a middle and an end of the holding period. In `flow` five captures pass the
limit of three rows within a day and start another one; the limits 60 and 5 of the
code are constants, and the theorems hold for any.

Deadlock is checked in every run but `replay`, where a request simply ends.
Mutants: each property of a passing run comes with a plausible defect of the
code, defined in the module before the definition it mutates and commented
`mutant:`, under which the property fails.

## Fairness

Safety properties need none. For the others:

* `FeedRecovers`: weak fairness of the loop's step and of each polling thread's
  step. The loop sleeps for a bounded time, and the client's calls time out, so
  each returns or raises. It supposes that the state file can be written and that
  the broker ends up answering with the session not lost: a lost session is
  never validated again, so nothing recovers before a restart.
* `ExitsAreTaken`: weak fairness of the worker's step, for the same reason. The
  property supposes a database that works, and a quote for the end-of-day exit:
  without a quote the code has nothing to close at. A store error at some places
  ends the worker for good (`monitor_dies`).
* `FallsBack`, `KeepsReceiving`: the browser's timers fire, a connection attempt
  ends one way or the other, a socket whose loop has ended closes, server calls
  return. Not assumed: that the socket ever opens, stays open, or that the
  server works. A socket that opens and drops for ever, each time before a push,
  resets the failure count (`useLiveDecision.ts` 85) and never leads to polling:
  `KeepsReceiving` supposes that it settles, and the hazard is listed. Nor is it
  assumed that an answer reaches a poll: `Abort` may come first, any number of times.
  For polls the property supposes that in the end none is given up any more, which is
  a server that answers within the 8 seconds; one that works and is slower leaves the
  polling dashboard with errors only. Over an open socket no such thing is supposed.

## Proofs

All theorems hold for every value of the constants under the named assumptions
of the modules. Each section of a `*Proofs` module has one inductive invariant, a
lemma per action or group of actions, and the theorems.

* `SumProofs`: a sum over a finite set is the sum over the rest plus the element
  taken out, whichever it is. The sums of the community modules are folds over
  `CHOOSE`n elements; induction over the set is replaced by a least
  counterexample under strict inclusion (`FS_StrictSubsetOrderingWellFounded`),
  so no theorem with an operator parameter is needed.
* `SessionsProofs`: type, `CountersMatchResults`, `StreakWithinLosses`, that the
  pnl of a day is the sum of its results (`PnlIsTheSum`), and that `Sessions`
  implements `DailyLedger`. The invariant adds `EmptyRows` (a day without a row
  has counters of zero, so that creating it wipes nothing), `CallsMakeSense` (a
  call that reads or updates has its row), and `ReadStreak` (the streak a call has
  read is within the losses as they are now, since losses only grow). In behaviours
  in which no two threads are between the SELECT and the UPDATE of one row
  (`UpdatesApart`) what a call has read is still current at its UPDATE, and the streak
  is exactly the losses since the last win, for any threads, days and faults
  (`StreakIsExact`). So that overlap is all that can falsify it.
* `PaperProofs`: type, that `PaperTrading` implements `PaperBook`,
  `NoEntryWhileBarred` and `SessionBehindLedger`, for any handlers and faults. A
  double close is a stutter of the book. The invariant ties a handler's step to its
  call (`HandlerInCall`), its trade (`HandlerHasTrade`) and its verdict.
  `NoEntryWhileBarred` rests on what the gate has seen: a reason that has held since
  the request came in was there at each of the four reads. The session stays behind
  the ledger because each handler in its call is one close that is not yet counted.

  Five more promises are ones that racing handlers can break. Each is proved for any
  number of threads, with faults and midnight at any step, from the absence of the
  overlaps that break it and of nothing else, so each theorem says where a lock is
  missing. The condition is a state predicate that has to hold throughout.

  | Theorem | Promise | What may not happen |
  |---|---|---|
  | `SetupShowsTrade` | `SetupMatchesTrade` | two reviews of one setup overlap (`ReviewsApart`) |
  | `EntriesAreApproved` | `EntryOnlyFromApproved` | the same |
  | `LedgerIsCounted` | `SessionMatchesLedger` | two threads close one trade (`ClosesApart`); a call raises after a close (`ResultsStored`) |
  | `TradeLimitHolds` | `DailyTradeLimit` | an INSERT or the recording of a result by another thread between gate and INSERT (`EntriesApart`); a call raises after a close |
  | `LockoutIsKept` | `LockoutHolds` | `EntriesApart` broken; two results recorded at once (`UpdatesApart`) |

  The first two rest on `ReviewFresh` (a review that is about to be written has
  read what still stands) and `ApprovalStands`. `LedgerIsCounted` has its own
  invariant: a closed trade is counted once, or is being counted by exactly one
  thread, and the pnl of the sessions is the sum over the counted trades. The
  limits rest on what the gate has read being still true: past it, the trades and
  the results of the day leave room for one more. `DailyTradeLimit` survives
  double closes, since a trade counted twice only makes the gate stricter, and
  `LockoutHolds` survives calls that raise, since it is about the results that
  were recorded. None of the conditions can be spared: with any one of them left
  out TLC finds a behaviour that breaks the promise.
* `ManualTradingProofs`: for `Positions` the type, `CountersMatchResults`,
  `StreakWithinLosses`, `StreakIfApart`, `PositionsBooked`, `ShownIsCounted` and
  `LedgerSpec`. Each step of the close endpoint is one of `SessionsSpec` or a
  stutter of it, so what holds of the table under arbitrary callers holds here.
  `ShownIsCounted` holds although closes meet: a position is CLOSED before any
  result of it is recorded, no step takes it back, and whichever close wrote its
  row last has recorded, or will record, what it wrote. For `OrderDesk` the type,
  `OneOrderPerKey` and `QueueMatchesPreviews`: a preview is READY only within lot
  size and capital, an order belongs to a preview, and a preview is CONFIRMED
  exactly when it is queued.
* `BackgroundProofs`: for `MarketFeed` the type, `OutageIsSafe`, `FailureIsSafe`.
  During an outage no timestamp held anywhere (feed, file, a poll under way) is
  further behind the length of the outage than `Ahead`: it was at least `-Ahead`
  when it was fetched, and both grow with each tick. So `OutageIsSafe` holds for
  timestamps any time ahead of the host, with that time added to the limit, and
  for a host that keeps India's time (`Ahead = 0`) it is what the release notes
  promise. `FailureIsSafe` holds because polls that do not overlap finish in
  order, and a failure is stored in the file before the next poll begins, so a
  restart does not lose it. For `MonitorLoop` the type, that the status endpoint
  tells the truth about the worker, and `ExitFitsTrade`: what the worker has found
  is the newest trade with the targets it still has, or an older one, which the
  check by id turns away; ids only grow and a trade that is closed stays so, so
  one that is still open at the UPDATE was open when the price was fetched, and
  the reason found at that price is one of its own plan.
* `PipelineProofs`: for any market, weights and limits, `GradeMatchesDecision` and
  `BuyGoesWithTrend`. One invariant, that a poll carries the decision for the
  snapshot it read, reduces both to facts about `Decide`: an unpriced plan fails
  the risk/reward item, and VWAP and EMA items that pass fix the sign of the Trend
  Agent's score whatever the day's open. `NoTopGrade` is proved for any market and
  limits under the weights of the code (`Weight = DefaultWeights`): in every
  regime the caps leave the trend family at most a quarter of the weight and the
  four agents with a ceiling at least 0.30 of it, which keeps a sum of
  contributions below 0.85 of the weight in use. `PutsNoEasier` too is proved
  under these weights. Each agent's reading of the market upside down is the
  opposite of its reading of the market (`Opposite`), off the levels where
  equality counts as below and where the checklist leaves no trap. The two
  alignments then differ only in the side that the Risk Agent's vote joins. A
  score of 72 with the Trend, Higher-timeframe and Options Agents bearish puts the
  bears so far ahead of the bulls (`BearsLead`) that its vote disagrees less with
  them than with the bulls, whatever the rounding; the grade can only rise.
* `RecordProofs`: for `LiveDecision` the type, `ShownIsOnRecord`, `NeverDark`, for
  any decisions and any number of polls. What is remembered is on record, because
  the signature is set after both writes; so what is served without logging is
  too. Decisions with one signature are all tradable or all not
  (`LiveDecisionAssumption`; the signature contains decision and approval). For
  `FlowHistory` the type, `ReversalIsSincePrevious`, `FlagsHaveACause`. Two calls
  that meet know of each other, so a call that met none is the only one under way:
  until its INSERT the table is what it read, and every row of it older. Whatever
  is under way after the INSERT was captured later, so the rows before a plain row
  never change.
* `ReplayProofs`: type, `NoLookAhead`, `NoBetterThanMarket`, `SplitsDoNotLeak`,
  `DrawdownIsWorstFall`. While the inner loop is at a candle no earlier one has
  touched the stop or the target; what a trade is then depends on the candles up
  to its exit, which every longer frame shares, and a market that fills it earlier
  or elsewhere fills it no worse. A split ends where the next begins, so with the
  default step each candle after the first training window lies in one test or
  beyond the last. The account after `n` trades is a function that exists by a
  least-counterexample argument over its length; the running peak is its greatest
  value so far and the drawdown the worst fall from any of them.

The theorems of `SessionsProofs` are about the table under arbitrary callers
(`SessionsSpec`, whose bound `MaxResults` is any number); `ManualTradingProofs`
carries them over to the callers that run `positions` checks.

Every safety invariant and action property that a passing run checks is
stated by a theorem. Only model-checked: liveness (`FeedRecovers`, `ExitsAreTaken`,
`FallsBack`, `KeepsReceiving`), which is out of the prover's reach, as is ENABLED.
Also out of its reach is induction by the theorems of the library, which take an
operator: the least-counterexample arguments of `SumProofs`, `PipelineProofs` and
`ReplayProofs` stand in for it.

## Where the code disagrees with its documentation

Two runs end with a counterexample of TLC.

* `paper_double_close`: the monitor and the close endpoint both close one trade
  and record two results.
* `monitor_dies`: a store call outside the handlers ends the worker, and the open
  trade passes the end of the day although the database answers again.

Others follow from the models without a run of their own.

* `record_trade_result` "updates daily counters atomically" (`store.py` 167), but its
  streak comes from a SELECT that opens no transaction (171-174): two losses
  recorded at once count as a streak of one, and a loss may undo a win. The totals
  stay exact (`LedgerSpec`), and nothing else falsifies the streak (`StreakIfApart`).
* The gate counts recorded results, not opened trades, and reads the counters before
  it looks for an open trade (`risk_supervisor.py` 25-33): a request handled while
  the monitor is between close and count opens one trade more than
  `max_trades_per_day`. `LimitIfApart` says that this overlap and a lost result are
  all that can break the limit, `LockoutIfApart` the like of the lockout.
* Two requests that close one manual position both record its result
  (`store.py` 223-235 neither checks nor repeats the status); `PositionsBooked`
  supposes that they do not meet, `ShownIsCounted` does not.
* The release notes promise an "Automatic safe NO_TRADE state when data is stale
  or unavailable." (`RELEASE_NOTES_2.5.0_RC1.md` 12). On a host that keeps UTC a
  quote's timestamp lies 5.5 hours ahead (`zerodha_client.py` 219-221) and its age
  is 0 until then (`market_data_service.py` 125-126), so a feed that was connected
  stays fresh all that time when its loop has ended, its poll hangs, or the
  process has just read its old state file. `OutageIsSafe` bounds it by
  `StaleAfter + Ahead`.
* The replay is "deliberately pessimistic" (`strategy_validation.py` 4,
  `README.md` 306) within a candle, but a candle that opens beyond the stop is
  filled at the stop (line 124), where the market gives the open; and a time exit
  pays no slippage (line 110), although entry, stop and target do.
* With a step smaller than the test window the splits test candles twice; "no
  overlap leakage" (`strategy_validation.py` 191) is true of training and test of one
  split, and of tests among themselves only from the default step on.
* The history of a day is read oldest first and cut at 60 rows
  (`institutional_flow_history.py` 114, 155): from the 61st snapshot on, a reversal
  "since the previous snapshot" (97) is one since the 60th.

Two weaknesses contradict no document. A failure or restart between the close and the
count of a trade loses the count for good (`paper_monitor.py` 86-89); `LedgerIfApart`
names it as `ResultsStored`. And a review is written without a second look at the
status (`store.py` 290), so two reviewers of one setup can withdraw an approval on
which a trade was opened; `StatusIfApart` names it as `ReviewsApart`.

Worth knowing from the decision model, without any document to contradict:
A_PLUS (score 85) is out of reach since the ceilings of the agents keep the score
below it; the score adds convinced dissenters to the side they dissent from;
the Risk Agent's approval is a bullish vote, so some calls are bought whose
mirror image among puts is not; an agent that asks "above?" takes equality for
below, so exactly on the day's open, without momentum, or with a timeframe that
has no bias, some puts are bought whose mirror image among calls is not.

## What is not modelled

* The audit rows of `paper_monitor_events`, the counters of status endpoints, log
  wording: nothing reads them back.
* In `PaperTrading` manual positions are absent, so its ledger properties are about
  paper trades; module `Positions` has them, without paper trades.
* Candle aggregation of the supervisor, which only status endpoints show; the
  client's caches, the choice of instruments and the conversion of quotes;
  `place_order`, which nothing calls.
* Ratios and groups of the replay's summary; `backtest.py`, which runs the decision
  pipeline over loaded days; the loading itself.
* The severity of a flow snapshot, the trend and nearest-snapshot reads, the scores
  (floating-point statistics of one option chain), and the skip counters of
  `record_skip`, which has no caller.
* `expires_at` of a preview, which no code reads.
* How often a decision is logged (the log of `LiveDecision` is a set), the order
  of payloads, and the trading day in a setup's signature.
* Indicator arithmetic before the readings (floating point), Greeks, market
  structure and narrative (displayed, decide nothing), the derived
  "intelligence" scores, the reports, the pages, and the deployment scripts.
* Configuration and migrations: read or run once at startup.

## Plan

What is left, in the order of its worth.

1. Manual positions and paper trades together as closers of one session
   (`Positions` and `PaperTrading` over one `Sessions`), and `RiskSizing`.
2. The phase of the day in `Pipeline`: the veto for the closing minutes ends with
   the session (`agents/risk.py` 48).
3. Order and number of log entries in `LiveDecision` (timestamps of payloads,
   alternating results of two threads, change of day).
4. The day cache of instruments in the client, cleared before a forced sync fetches.
5. Proofs of what 1 to 4 add.

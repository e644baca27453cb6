----------------------------- MODULE MarketFeed -----------------------------
(***************************************************************************)
(* The market-data supervisor, app/market_data_service.py: the feed state  *)
(* shared by the polling loop on the event loop and by the poll and        *)
(* refresh endpoints on worker threads, its copy in the state file, and    *)
(* restarts.                                                               *)
(*                                                                         *)
(* One action is one critical section of poll_once, or the calls to the    *)
(* data source between two of them.  Time is abstract: a timestamp is      *)
(* represented by what the host takes for its age, in ticks, from -Ahead   *)
(* up to Old, which also stands for no timestamp.  Kite's quotes carry the *)
(* time of India without a zone, and astimezone takes it for the host's    *)
(* own: on a host that keeps UTC it lies 5.5 hours in the future.          *)
(* safe_no_trade of the stored state is ~connected and that of snapshot is *)
(* ~Fresh.  The data source is ZerodhaDataSource: its flag     *)
(* _connected is set when the client is built, cleared by a failed profile *)
(* call, and never set again.  Quotes, messages and candles are left out.  *)
(***************************************************************************)
EXTENDS Integers

CONSTANTS
  Loop,        \* supervisor.run on the event loop
  Endpoints,   \* threads that serve poll, refresh and instruments/sync
  StaleAfter,  \* stale_after_sec, in ticks
  Ahead,       \* ticks a timestamp may lie in the future; 0 on a host that keeps India's time
  MaxCount,    \* bound: counters stay at this value
  MaxRestarts  \* bound: restarts of the process

ASSUME MarketFeedAssumption ==
  /\ Loop \notin Endpoints
  /\ StaleAfter \in Nat
  /\ Ahead \in Nat
  /\ MaxCount \in Nat \ {0}
  /\ MaxRestarts \in Nat

VARIABLES
  feed,      \* _state
  file,      \* the state file
  up,        \* the broker answers, and accepts the access token
  session,   \* the client's _connected; "none" before the client is built
  pc,        \* where in poll_once or run each thread is
  stamp,     \* the market timestamp a poll has fetched
  seen,      \* the failure count a failing poll is going to write
  restarts,
  outage,    \* history: how long the source has been unable to answer
  latest,    \* history: the thread whose poll began last, how that went,
  outcome,   \*   and
  solo,      \*   that no other poll overlapped with it
  healthy    \* history: the state file could always be written, and the source built

locals == <<pc, stamp, seen>>
lastPoll == <<latest, outcome, solo>>
vars == <<feed, file, up, session, locals, restarts, outage, lastPoll, healthy>>

Threads == {Loop} \cup Endpoints

Old == StaleAfter + 1
Reading == -Ahead..Old
Outage == 0..(Old + Ahead)
Count == 0..MaxCount

Feed == [running : BOOLEAN, connected : BOOLEAN, stamp : Reading, consecutive_failures : Count,
         polls : Count, successful_polls : Count, reconnects : Count]

NewFeed == [running |-> FALSE, connected |-> FALSE, stamp |-> Old, consecutive_failures |-> 0,
            polls |-> 0, successful_polls |-> 0, reconnects |-> 0]

\* start to dead: the loop only.
Pc == {"start", "build", "idle", "fetch", "count", "publish", "failed", "report", "stop", "dead"}

FeedTypeOK ==
  /\ feed \in Feed
  /\ file \in Feed
  /\ up \in BOOLEAN
  /\ session \in {"none", "ok", "lost"}
  /\ pc \in [Threads -> Pc]
  /\ stamp \in [Threads -> Reading]
  /\ seen \in [Threads -> Count]
  /\ restarts \in 0..MaxRestarts
  /\ outage \in Outage
  /\ latest \in Threads
  /\ outcome \in {"none", "ok", "failed"}
  /\ solo \in BOOLEAN
  /\ healthy \in BOOLEAN

Boot == [t \in Threads |-> IF t = Loop THEN "start" ELSE "idle"]

Init ==
  /\ feed = NewFeed
  /\ file = NewFeed
  /\ up \in BOOLEAN
  /\ session = "none"
  /\ pc = Boot
  /\ stamp = [t \in Threads |-> Old]
  /\ seen = [t \in Threads |-> 0]
  /\ restarts = 0
  /\ outage = 0
  /\ latest = Loop
  /\ outcome = "none"
  /\ solo = FALSE
  /\ healthy = TRUE

-----------------------------------------------------------------------------
Bump(n) == IF n < MaxCount THEN n + 1 ELSE n

\* snapshot()["age_sec"]: a timestamp in the future is of age 0.
AgeSec == IF feed.stamp < 0 THEN 0 ELSE feed.stamp

\* snapshot()["fresh"]
Fresh == feed.connected /\ AgeSec <= StaleAfter

\* get_data_source: the first call of a process builds the client, which asks the
\* broker for the profile.
Validated ==
  IF session = "none" THEN (IF up THEN "ok" ELSE "lost") ELSE session

\* token_health: a profile call that raises clears the flag.  With the broker
\* down that call, or only a later one, may raise.
HealthChecked == IF session = "ok" /\ ~up THEN {"ok", "lost"} ELSE {session}

\* Every getter of the client raises when the flag is not set.
Answers == up /\ session # "lost"

Goto(t, next) == pc' = [pc EXCEPT ![t] = next]

Polling(t) == pc[t] \in {"fetch", "count", "publish", "failed", "report"}

\* If the poll of t has come to its end, and began last, the history keeps how.
Ends(t, how) == outcome' = IF t = latest /\ ~Polling(t)' THEN how ELSE outcome

(***************************************************************************)
(* _update: the values are set in memory, then the state file is replaced. *)
(* If that raises, the file stays as it was and the caller sees the error. *)
(***************************************************************************)
Update(t, new, next, onError) ==
  /\ feed' = new
  /\ \/ file' = new /\ Goto(t, next) /\ UNCHANGED healthy
     \/ UNCHANGED file /\ Goto(t, onError) /\ healthy' = FALSE

\* run: the first _update is outside the try block.
StartLoop ==
  /\ pc[Loop] = "start"
  /\ Update(Loop, [feed EXCEPT !.running = TRUE], "build", "dead")
  /\ UNCHANGED <<up, session, stamp, seen, restarts, outage, lastPoll>>

\* get_data_source of the first iteration builds the client, or raises.
BuildSource ==
  /\ pc[Loop] = "build"
  /\ \/ Goto(Loop, "idle") /\ session' = Validated /\ UNCHANGED healthy
     \/ Goto(Loop, "stop") /\ healthy' = FALSE /\ UNCHANGED session
  /\ UNCHANGED <<feed, file, up, stamp, seen, restarts, outage, lastPoll>>

\* The finally clause of run.
StopLoop ==
  /\ pc[Loop] = "stop"
  /\ Update(Loop, [feed EXCEPT !.running = FALSE], "dead", "dead")
  /\ UNCHANGED <<up, session, stamp, seen, restarts, outage, lastPoll>>

-----------------------------------------------------------------------------
(* poll_once *)

BeginPoll(t) ==
  /\ pc[t] = "idle"
  /\ feed' = [feed EXCEPT !.polls = Bump(@)]
  /\ Goto(t, "fetch")
  /\ session' = Validated
  /\ latest' = t
  /\ outcome' = "none"
  /\ solo' = \A u \in Threads : ~Polling(u)
  /\ UNCHANGED <<file, up, stamp, seen, restarts, outage, healthy>>

\* The data source answers with a timestamp of its own, of a quote or of a
\* candle, or any call raises.
Fetch(t) ==
  /\ pc[t] = "fetch"
  /\ session' \in HealthChecked
  /\ \/ Answers /\ Goto(t, "count") /\ \E age \in Reading : stamp' = [stamp EXCEPT ![t] = age]
     \/ ~Answers /\ Goto(t, "failed") /\ UNCHANGED stamp
  /\ UNCHANGED <<feed, file, up, seen, restarts, outage, lastPoll, healthy>>

Counted ==
  [feed EXCEPT !.successful_polls = Bump(@),
               !.reconnects = IF feed.consecutive_failures > 0 THEN Bump(@) ELSE @]

CountSuccess(t) ==
  /\ pc[t] = "count"
  /\ feed' = Counted
  /\ Goto(t, "publish")
  /\ UNCHANGED <<file, up, session, stamp, seen, restarts, outage, lastPoll, healthy>>

\* mutant: the time of the update instead of that of the data
PublishedNow(t) ==
  [feed EXCEPT !.running = TRUE, !.connected = TRUE, !.consecutive_failures = 0, !.stamp = 0]

Published(t) ==
  [feed EXCEPT !.running = TRUE, !.connected = TRUE, !.consecutive_failures = 0,
               !.stamp = stamp[t]]

\* The last _update of the try block: its error ends in the except clause.
Publish(t) ==
  /\ pc[t] = "publish"
  /\ Update(t, Published(t), "idle", "failed")
  /\ stamp' = [stamp EXCEPT ![t] = Old]
  /\ Ends(t, "ok")
  /\ UNCHANGED <<up, session, seen, restarts, outage, latest, solo>>

ReadFailures(t) ==
  /\ pc[t] = "failed"
  /\ seen' = [seen EXCEPT ![t] = Bump(feed.consecutive_failures)]
  /\ Goto(t, "report")
  /\ UNCHANGED <<feed, file, up, session, stamp, restarts, outage, lastPoll, healthy>>

\* mutant: the failure is counted and the connection left as it was
ReportedCountOnly(t) ==
  [feed EXCEPT !.running = TRUE, !.consecutive_failures = seen[t]]

\* mutant: the failure is counted once more
ReportedTwice(t) ==
  [feed EXCEPT !.running = TRUE, !.connected = FALSE, !.consecutive_failures = seen[t] + 1]

Reported(t) ==
  [feed EXCEPT !.running = TRUE, !.connected = FALSE, !.consecutive_failures = seen[t]]

\* mutant: the error of the source leaves poll_once
AfterFailureStop(t) == IF t = Loop THEN "stop" ELSE "idle"

\* The error of the source is swallowed, and the next poll tries again.
AfterFailure(t) == "idle"

\* The _update of the except clause: its error leaves poll_once, and ends the
\* loop.
Report(t) ==
  /\ pc[t] = "report"
  /\ Update(t, Reported(t), AfterFailure(t), IF t = Loop THEN "stop" ELSE "idle")
  /\ seen' = [seen EXCEPT ![t] = 0]
  /\ Ends(t, "failed")
  /\ UNCHANGED <<up, session, stamp, restarts, outage, latest, solo>>

\* sync_instruments, once the source has answered.
Sync(t) ==
  /\ pc[t] = "idle"
  /\ Update(t, feed, "idle", "idle")
  /\ session' = Validated
  /\ UNCHANGED <<up, stamp, seen, restarts, outage, lastPoll>>

\* Any other handler builds the client, or asks for the session's health.
UseSource ==
  /\ session' \in {Validated} \cup HealthChecked
  /\ session' # session
  /\ UNCHANGED <<feed, file, up, locals, restarts, outage, lastPoll, healthy>>

-----------------------------------------------------------------------------
(* The world around. *)

Older(age) == IF age < Old THEN age + 1 ELSE age

Longer(time) == IF time < Old + Ahead THEN time + 1 ELSE time

Tick ==
  /\ feed' = [feed EXCEPT !.stamp = Older(@)]
  /\ file' = [file EXCEPT !.stamp = Older(@)]
  /\ stamp' = [t \in Threads |-> Older(stamp[t])]
  /\ outage' = IF Answers THEN 0 ELSE Longer(outage)
  /\ UNCHANGED <<up, session, pc, seen, restarts, lastPoll, healthy>>

SourceChanges ==
  /\ up' = ~up
  /\ outage' = IF session = "lost" THEN outage ELSE 0
  /\ UNCHANGED <<feed, file, session, locals, restarts, lastPoll, healthy>>

\* _load; the flag of the old process is reset.
Loaded(stored) == [stored EXCEPT !.running = FALSE]

\* The process ends, after the finally clause of run if it is stopped in
\* order, and starts again.
Restart ==
  /\ restarts < MaxRestarts
  /\ restarts' = restarts + 1
  /\ \/ UNCHANGED file
     \/ pc[Loop] = "idle" /\ file' = [feed EXCEPT !.running = FALSE]
  /\ feed' = Loaded(file')
  /\ pc' = Boot
  /\ stamp' = [t \in Threads |-> Old]
  /\ seen' = [t \in Threads |-> 0]
  /\ session' = "none"
  /\ outage' = IF up THEN 0 ELSE outage
  /\ UNCHANGED <<up, lastPoll, healthy>>

-----------------------------------------------------------------------------
\* The steps of a poll that has begun.
PollStep(t) == Fetch(t) \/ CountSuccess(t) \/ Publish(t) \/ ReadFailures(t) \/ Report(t)

LoopStep == StartLoop \/ BuildSource \/ StopLoop \/ BeginPoll(Loop) \/ PollStep(Loop)

Next ==
  \/ LoopStep
  \/ \E t \in Endpoints : BeginPoll(t) \/ PollStep(t) \/ Sync(t)
  \/ UseSource
  \/ Tick
  \/ SourceChanges
  \/ Restart

(***************************************************************************)
(* The event loop wakes run up after poll_interval_sec, and the calls of a *)
(* poll return: kiteconnect gives up after a timeout of its own.  Nothing  *)
(* obliges anyone to use an endpoint.                                      *)
(***************************************************************************)
Fairness == WF_vars(LoopStep) /\ \A t \in Endpoints : WF_vars(PollStep(t))

Spec == Init /\ [][Next]_vars

FairSpec == Spec /\ Fairness

-----------------------------------------------------------------------------
(***************************************************************************)
(* The automatic safe NO_TRADE state: once the source has been unable to   *)
(* answer for longer than stale_after_sec and the time a timestamp may lie *)
(* ahead of the host, because the broker is down or the session was lost,  *)
(* the feed is not fresh, whatever polls are still in flight, whether or   *)
(* not the state file can be written or the loop runs, and after a restart *)
(* from an old state file too.  The release notes promise it after         *)
(* stale_after_sec alone: the code keeps that where Ahead is 0, not on a   *)
(* host that keeps UTC.                                                    *)
(***************************************************************************)
OutageIsSafe == outage > StaleAfter + Ahead => ~Fresh

\* A poll that failed leaves the feed in NO_TRADE until a later one succeeds,
\* even across a restart, unless an earlier poll was still on its way when it
\* began: that one may yet publish what it fetched before the failure.
FailureIsSafe == solo /\ outcome = "failed" /\ healthy => ~Fresh

\* When the broker is back for good and no failed profile call has cost the
\* client its session, the feed connects again and again, unless the loop was
\* ended by a state file that could not be written or a source that could not
\* be built.  A session that is lost stays lost until a restart.
FeedRecovers == []healthy /\ <>[]Answers => []<>feed.connected
=============================================================================

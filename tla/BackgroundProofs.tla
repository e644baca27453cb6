--------------------------- MODULE BackgroundProofs ---------------------------
(***************************************************************************)
(* The two tasks that run for as long as the process does: the supervisor  *)
(* of the market data, and the worker that watches the paper trade.        *)
(***************************************************************************)
EXTENDS MarketFeed, MonitorLoop, TLAPS

-----------------------------------------------------------------------------
(***************************************************************************)
(* The market data.  For any number of endpoint threads, any staleness     *)
(* limit, any host and any number of restarts, a long outage and a failed  *)
(* poll leave the feed in NO_TRADE.                                        *)
(***************************************************************************)

\* No timestamp, wherever it is kept, is younger than the outage by more than
\* it may have been ahead when it was fetched.
NothingYoungerThanOutage ==
  /\ Answers => outage = 0
  /\ outage <= feed.stamp + Ahead
  /\ outage <= file.stamp + Ahead
  /\ \A t \in Threads : outage <= stamp[t] + Ahead

\* A poll that began last and alone has ended when its outcome is known, and no
\* other is on its way.
PollsInOrder ==
  /\ outcome # "none" => ~Polling(latest)
  /\ solo => \A t \in Threads \ {latest} : ~Polling(t)

\* What a failed poll has left behind, in memory and in the state file.
FailureIsStored ==
  solo /\ outcome = "failed" /\ healthy => ~feed.connected /\ ~file.connected

FeedInv ==
  /\ FeedTypeOK
  /\ NothingYoungerThanOutage
  /\ PollsInOrder
  /\ FailureIsStored

-----------------------------------------------------------------------------
LEMMA CountFacts ==
  /\ StaleAfter \in Nat /\ Ahead \in Nat /\ Old = StaleAfter + 1
  /\ Loop \in Threads /\ Endpoints \subseteq Threads
  /\ 0 \in Count /\ 0 \in Outage /\ Old \in Reading
  /\ Reading \subseteq Int /\ \A n \in Reading : 0 <= n + Ahead /\ n <= Old
  /\ Outage \subseteq Int /\ \A m \in Outage : 0 <= m /\ m <= Old + Ahead
  /\ \A n \in Count : Bump(n) \in Count
  /\ \A n \in Reading : Older(n) \in Reading
  /\ \A m \in Outage : Longer(m) \in Outage
  /\ \A m \in Outage, n \in Reading : m <= n + Ahead => Longer(m) <= Older(n) + Ahead
  BY MarketFeedAssumption DEF Bump, Older, Longer, Threads, Reading, Outage, Count, Old

LEMMA InitInv == Init => FeedInv
  <1> SUFFICES ASSUME Init PROVE FeedInv
    OBVIOUS
  <1>0. NewFeed \in Feed /\ NewFeed.stamp = Old
    BY CountFacts DEF NewFeed, Feed
  <1>1. FeedTypeOK
    <2>1. Boot \in [Threads -> Pc]
      BY DEF Boot, Pc
    <2>2. 0 \in 0..MaxRestarts
      BY MarketFeedAssumption
    <2> QED
      BY <1>0, <2>1, <2>2, CountFacts DEF Init, FeedTypeOK
  <1>2. NothingYoungerThanOutage
    BY <1>0, CountFacts DEF Init, NothingYoungerThanOutage
  <1>3. PollsInOrder /\ FailureIsStored
    BY DEF Init, PollsInOrder, FailureIsStored, Boot, Polling
  <1> QED
    BY <1>1, <1>2, <1>3 DEF FeedInv

-----------------------------------------------------------------------------
(***************************************************************************)
(* The types.                                                              *)
(***************************************************************************)

\* What an _update keeps, whatever it writes.
LEMMA UpdateType ==
  ASSUME FeedTypeOK, NEW t \in Threads, NEW new \in Feed, NEW next \in Pc, NEW onError \in Pc,
         Update(t, new, next, onError)
  PROVE  /\ feed' \in Feed /\ file' \in Feed
         /\ pc' \in [Threads -> Pc] /\ healthy' \in BOOLEAN
  BY DEF Update, Goto, FeedTypeOK

LEMMA NewStates ==
  ASSUME FeedTypeOK, NEW t \in Threads
  PROVE  /\ Counted \in Feed /\ Counted.stamp = feed.stamp /\ Counted.connected = feed.connected
         /\ Published(t) \in Feed /\ Published(t).stamp = stamp[t]
         /\ Reported(t) \in Feed /\ Reported(t).stamp = feed.stamp
         /\ Reported(t).connected = FALSE
         /\ \A b \in BOOLEAN : /\ [feed EXCEPT !.running = b] \in Feed
                               /\ [feed EXCEPT !.running = b].stamp = feed.stamp
                               /\ [feed EXCEPT !.running = b].connected = feed.connected
         /\ \A n \in Count : /\ [feed EXCEPT !.polls = n] \in Feed
                             /\ [feed EXCEPT !.polls = n].stamp = feed.stamp
                             /\ [feed EXCEPT !.polls = n].connected = feed.connected
  <1>1. feed \in Feed /\ stamp[t] \in Reading /\ seen[t] \in Count
    BY DEF FeedTypeOK
  <1>2. feed.stamp \in Reading /\ feed.successful_polls \in Count /\ feed.reconnects \in Count
    BY <1>1 DEF Feed
  <1>3. Counted \in Feed /\ Counted.stamp = feed.stamp /\ Counted.connected = feed.connected
    <2> DEFINE s == Bump(feed.successful_polls)
               c == IF feed.consecutive_failures > 0 THEN Bump(feed.reconnects)
                    ELSE feed.reconnects
    <2>1. s \in Count /\ c \in Count
      BY <1>2, CountFacts
    <2>2. Counted = [feed EXCEPT !.successful_polls = s, !.reconnects = c]
      BY DEF Counted
    <2> HIDE DEF s, c
    <2> QED
      BY <1>1, <2>1, <2>2 DEF Feed
  <1>4. Published(t) \in Feed /\ Published(t).stamp = stamp[t]
    BY <1>1, CountFacts DEF Published, Feed
  <1>5. Reported(t) \in Feed /\ Reported(t).stamp = feed.stamp /\ Reported(t).connected = FALSE
    BY <1>1 DEF Reported, Feed
  <1> QED
    BY <1>1, <1>3, <1>4, <1>5 DEF Feed

\* What the handlers make of the session.
LEMMA SessionFacts ==
  ASSUME FeedTypeOK
  PROVE  /\ Validated \in {"none", "ok", "lost"}
         /\ HealthChecked \subseteq {"none", "ok", "lost"}
  BY DEF Validated, HealthChecked, FeedTypeOK

\* A lost session does not come back.
LEMMA NoRevival ==
  ASSUME FeedTypeOK, session' \in {Validated, session} \cup HealthChecked, up' = up
  PROVE  Answers' => Answers
  BY DEF Validated, HealthChecked, Answers, FeedTypeOK

LEMMA TypeStep == ASSUME FeedTypeOK, [Next]_vars PROVE FeedTypeOK'
  <1> USE DEF FeedTypeOK
  <1> USE CountFacts, SessionFacts
  <1>1. CASE StartLoop
    BY <1>1, UpdateType, NewStates DEF StartLoop, lastPoll, Pc
  <1>2. CASE BuildSource
    BY <1>2 DEF BuildSource, Goto, lastPoll, Pc
  <1>3. CASE StopLoop
    BY <1>3, UpdateType, NewStates DEF StopLoop, lastPoll, Pc
  <1>4. ASSUME NEW t \in Threads, BeginPoll(t) PROVE FeedTypeOK'
    <2>1. feed' \in Feed
      <3>1. Bump(feed.polls) \in Count
        BY DEF Feed
      <3> QED
        BY <1>4, <3>1, NewStates DEF BeginPoll
    <2>2. pc' \in [Threads -> Pc]
      BY <1>4 DEF BeginPoll, Goto, Pc
    <2> QED
      BY <1>4, <2>1, <2>2 DEF BeginPoll
  <1>5. ASSUME NEW t \in Threads, PollStep(t) PROVE FeedTypeOK'
    <2>1. CASE Fetch(t)
      BY <2>1 DEF Fetch, Goto, lastPoll, Pc
    <2>2. CASE CountSuccess(t)
      BY <2>2, NewStates DEF CountSuccess, Goto, lastPoll, Pc
    <2>3. CASE Publish(t)
      <3>1. feed' \in Feed /\ file' \in Feed /\ pc' \in [Threads -> Pc] /\ healthy' \in BOOLEAN
        BY <2>3, UpdateType, NewStates DEF Publish, Pc
      <3> QED
        BY <2>3, <3>1 DEF Publish, Ends
    <2>4. CASE ReadFailures(t)
      <3>1. Bump(feed.consecutive_failures) \in Count
        BY DEF Feed
      <3> QED
        BY <2>4, <3>1 DEF ReadFailures, Goto, lastPoll, Pc
    <2>5. CASE Report(t)
      <3>1. AfterFailure(t) \in Pc /\ (IF t = Loop THEN "stop" ELSE "idle") \in Pc
        BY DEF AfterFailure, Pc
      <3>2. feed' \in Feed /\ file' \in Feed /\ pc' \in [Threads -> Pc] /\ healthy' \in BOOLEAN
        BY <2>5, <3>1, UpdateType, NewStates DEF Report
      <3> QED
        BY <2>5, <3>2 DEF Report, Ends
    <2> QED
      BY <1>5, <2>1, <2>2, <2>3, <2>4, <2>5 DEF PollStep
  <1>6. ASSUME NEW t \in Endpoints, Sync(t) PROVE FeedTypeOK'
    BY <1>6, UpdateType DEF Sync, lastPoll, Pc
  <1>7. CASE Tick
    <2>1. feed' \in Feed /\ file' \in Feed
      BY <1>7 DEF Tick, Feed
    <2> QED
      BY <1>7, <2>1 DEF Tick, lastPoll
  <1>8. CASE SourceChanges
    BY <1>8 DEF SourceChanges, locals, lastPoll
  <1>9. CASE Restart
    <2>1. file' \in Feed
      BY <1>9, NewStates DEF Restart
    <2>2. feed' \in Feed
      BY <1>9, <2>1 DEF Restart, Loaded, Feed
    <2>3. Boot \in [Threads -> Pc]
      BY DEF Boot, Pc
    <2>4. restarts' \in 0..MaxRestarts
      BY <1>9, MarketFeedAssumption DEF Restart
    <2> QED
      BY <1>9, <2>1, <2>2, <2>3, <2>4 DEF Restart, lastPoll
  <1>10. CASE UNCHANGED vars
    BY <1>10 DEF vars, locals, lastPoll
  <1>11. CASE UseSource
    BY <1>11 DEF UseSource, locals, lastPoll
  <1> QED
    BY <1>1, <1>2, <1>3, <1>4, <1>5, <1>6, <1>7, <1>8, <1>9, <1>10, <1>11 DEF Next, LoopStep

-----------------------------------------------------------------------------
(***************************************************************************)
(* Timestamps and the outage.                                              *)
(***************************************************************************)

\* An _update keeps the bounds if what it writes does.
LEMMA UpdateAges ==
  ASSUME FeedTypeOK, NothingYoungerThanOutage, NEW t \in Threads, NEW new, NEW next, NEW onError,
         Update(t, new, next, onError), UNCHANGED <<up, session, outage>>,
         outage <= new.stamp + Ahead, \A u \in Threads : outage <= stamp'[u] + Ahead
  PROVE  NothingYoungerThanOutage'
  BY DEF Update, NothingYoungerThanOutage, Answers

LEMMA AgeStep ==
  ASSUME FeedTypeOK, NothingYoungerThanOutage, [Next]_vars PROVE NothingYoungerThanOutage'
  <1> USE CountFacts
  <1>0. /\ outage \in Outage /\ outage <= Old + Ahead
        /\ feed.stamp \in Reading /\ file.stamp \in Reading
        /\ stamp \in [Threads -> Reading] /\ feed \in Feed /\ file \in Feed
    BY DEF FeedTypeOK, Feed
  <1>1. /\ outage <= feed.stamp + Ahead /\ outage <= file.stamp + Ahead
        /\ \A t \in Threads : outage <= stamp[t] + Ahead
        /\ Answers => outage = 0
    BY DEF NothingYoungerThanOutage
  <1>a. ASSUME session' \in {Validated, session} \cup HealthChecked, up' = up,
               UNCHANGED <<feed, file, outage>>, \A u \in Threads : outage <= stamp'[u] + Ahead
        PROVE  NothingYoungerThanOutage'
    BY <1>1, <1>a, NoRevival DEF NothingYoungerThanOutage
  <1>2. CASE StartLoop \/ StopLoop
    BY <1>1, <1>2, UpdateAges, NewStates DEF StartLoop, StopLoop
  <1>3. CASE BuildSource
    BY <1>1, <1>3, <1>a DEF BuildSource
  <1>4. ASSUME NEW t \in Threads, BeginPoll(t) PROVE NothingYoungerThanOutage'
    <2>1. feed'.stamp = feed.stamp
      BY <1>0, <1>4 DEF BeginPoll, Feed
    <2>2. Answers' => Answers
      BY <1>4, NoRevival DEF BeginPoll
    <2> QED
      BY <1>1, <1>4, <2>1, <2>2 DEF BeginPoll, NothingYoungerThanOutage
  <1>5. ASSUME NEW t \in Threads, PollStep(t) PROVE NothingYoungerThanOutage'
    <2>1. CASE Fetch(t)
      <3>1. UNCHANGED <<feed, file, up, outage>> /\ session' \in HealthChecked
        BY <2>1 DEF Fetch
      <3>2. \A u \in Threads : outage <= stamp'[u] + Ahead
        BY <1>0, <1>1, <2>1 DEF Fetch
      <3> QED
        BY <3>1, <3>2, <1>a
    <2>2. CASE CountSuccess(t)
      BY <1>1, <2>2, NewStates DEF CountSuccess, NothingYoungerThanOutage, Answers
    <2>3. CASE Publish(t)
      <3>1. \A u \in Threads : outage <= stamp'[u] + Ahead
        BY <1>0, <1>1, <2>3 DEF Publish
      <3> QED
        BY <1>1, <2>3, <3>1, UpdateAges, NewStates DEF Publish
    <2>4. CASE ReadFailures(t)
      BY <1>1, <2>4, <1>a DEF ReadFailures
    <2>5. CASE Report(t)
      BY <1>1, <2>5, UpdateAges, NewStates DEF Report
    <2> QED
      BY <1>5, <2>1, <2>2, <2>3, <2>4, <2>5 DEF PollStep
  <1>6. ASSUME NEW t \in Endpoints, Sync(t) PROVE NothingYoungerThanOutage'
    <2>1. /\ feed' = feed /\ file' \in {feed, file} /\ UNCHANGED <<stamp, outage>>
          /\ Answers' => Answers
      BY <1>6, NoRevival DEF Sync, Update
    <2> QED
      BY <1>1, <2>1 DEF NothingYoungerThanOutage
  <1>7. CASE Tick
    <2>1. /\ feed'.stamp = Older(feed.stamp) /\ file'.stamp = Older(file.stamp)
          /\ \A t \in Threads : stamp'[t] = Older(stamp[t])
          /\ outage' = (IF Answers THEN 0 ELSE Longer(outage)) /\ Answers' = Answers
      BY <1>0, <1>7 DEF Tick, Feed, Answers
    <2>2. \A age \in Reading : outage <= age + Ahead => outage' <= Older(age) + Ahead
      <3>1. \A age \in Reading : 0 <= Older(age) + Ahead
        OBVIOUS
      <3> QED
        BY <1>0, <2>1, <3>1
    <2> QED
      BY <1>0, <1>1, <2>1, <2>2 DEF NothingYoungerThanOutage
  <1>8. CASE SourceChanges
    BY <1>0, <1>1, <1>8 DEF SourceChanges, locals, NothingYoungerThanOutage, Answers
  <1>9. CASE Restart
    <2>1. file' \in Feed /\ outage <= file'.stamp + Ahead
      BY <1>0, <1>1, <1>9, NewStates DEF Restart
    <2>2. feed'.stamp = file'.stamp
      BY <1>9, <2>1 DEF Restart, Loaded, Feed
    <2> QED
      <3>1. /\ outage' <= outage /\ (up' => outage' = 0) /\ outage' \in Outage
            /\ stamp' = [t \in Threads |-> Old]
        BY <1>0, <1>9 DEF Restart
      <3>2. file'.stamp \in Reading
        BY <2>1 DEF Feed
      <3>3. outage' <= file'.stamp + Ahead /\ outage' <= Old + Ahead
        <4>1. /\ outage \in Int /\ outage' \in Int /\ file'.stamp \in Int
              /\ Old \in Int
          BY <1>0, <3>1, <3>2
        <4>2. outage <= file'.stamp + Ahead /\ outage <= Old + Ahead /\ outage' <= outage
          BY <1>0, <2>1, <3>1
        <4> QED
          BY <4>1, <4>2
      <3>4. \A t \in Threads : stamp'[t] = Old
        BY <3>1
      <3>5. Answers' => outage' = 0
        BY <1>9, <3>1 DEF Restart, Answers
      <3> QED
        BY <2>2, <3>3, <3>4, <3>5 DEF NothingYoungerThanOutage
  <1>10. CASE UNCHANGED vars
    BY <1>1, <1>10, <1>a DEF vars, locals
  <1>11. CASE UseSource
    BY <1>1, <1>11, <1>a DEF UseSource, locals
  <1> QED
    BY <1>2, <1>3, <1>4, <1>5, <1>6, <1>7, <1>8, <1>9, <1>10, <1>11 DEF Next, LoopStep

-----------------------------------------------------------------------------
(***************************************************************************)
(* Failed polls.                                                           *)
(***************************************************************************)
LEMMA OrderStep == ASSUME FeedTypeOK, PollsInOrder, [Next]_vars PROVE PollsInOrder'
  <1> USE CountFacts DEF PollsInOrder, Polling
  <1>0. pc \in [Threads -> Pc] /\ latest \in Threads /\ solo \in BOOLEAN
    BY DEF FeedTypeOK
  <1>1. CASE UNCHANGED <<latest, outcome, solo>> /\ \A t \in Threads : Polling(t)' => Polling(t)
    BY <1>0, <1>1, Zenon
  <1>2. CASE StartLoop \/ BuildSource \/ StopLoop
    BY <1>0, <1>1, <1>2
    DEF StartLoop, BuildSource, StopLoop, Update, Goto, Polling, lastPoll
  <1>3. ASSUME NEW t \in Threads, BeginPoll(t) PROVE PollsInOrder'
    <2>1. /\ latest' = t /\ outcome' = "none" /\ solo' = \A u \in Threads : ~Polling(u)
          /\ \A u \in Threads \ {t} : Polling(u)' = Polling(u)
      BY <1>0, <1>3 DEF BeginPoll, Goto, Polling
    <2> QED
      BY <2>1
  <1>4. ASSUME NEW t \in Threads, Fetch(t) \/ CountSuccess(t) \/ ReadFailures(t)
        PROVE  PollsInOrder'
    <2>1. UNCHANGED <<latest, outcome, solo>>
      BY <1>4 DEF Fetch, CountSuccess, ReadFailures, lastPoll
    <2>2. Polling(t) /\ \A u \in Threads \ {t} : pc'[u] = pc[u]
      BY <1>0, <1>4 DEF Fetch, CountSuccess, ReadFailures, Polling, Goto
    <2> QED
      BY <1>1, <2>1, <2>2 DEF Polling
  <1>5. ASSUME NEW t \in Threads, Publish(t) \/ Report(t) PROVE PollsInOrder'
    <2>1. /\ UNCHANGED <<latest, solo>>
          /\ outcome' = outcome \/ (t = latest /\ ~Polling(t)')
      BY <1>5 DEF Publish, Report, Ends
    <2>2. Polling(t) /\ \A u \in Threads \ {t} : pc'[u] = pc[u]
      BY <1>0, <1>5 DEF Publish, Report, Update, Goto, Polling
    <2>3. outcome' # "none" => ~Polling(latest)'
      BY <1>0, <2>1, <2>2
    <2>4. solo' => \A u \in Threads \ {latest} : ~Polling(u)'
      BY <1>0, <2>1, <2>2
    <2> QED
      BY <2>1, <2>3, <2>4
  <1>6. ASSUME NEW t \in Endpoints, Sync(t) PROVE PollsInOrder'
    BY <1>0, <1>1, <1>6 DEF Sync, Update, Goto, Polling, lastPoll
  <1>7. CASE Tick \/ SourceChanges \/ UseSource
    BY <1>1, <1>7 DEF Tick, SourceChanges, UseSource, locals, lastPoll, Polling
  <1>8. CASE Restart
    BY <1>0, <1>1, <1>8 DEF Restart, Boot, Polling, lastPoll
  <1>9. CASE UNCHANGED vars
    BY <1>1, <1>9 DEF vars, locals, lastPoll, Polling
  <1> QED
    BY <1>2, <1>3, <1>4, <1>5, <1>6, <1>7, <1>8, <1>9 DEF Next, LoopStep, PollStep

\* With the state file written, what is in memory about the connection is what
\* is stored.
LEMMA FailureStep ==
  ASSUME FeedTypeOK, PollsInOrder, PollsInOrder', FailureIsStored, [Next]_vars
  PROVE  FailureIsStored'
  <1> USE CountFacts
  <1>0. /\ feed \in Feed /\ file \in Feed /\ solo \in BOOLEAN /\ healthy \in BOOLEAN
        /\ latest \in Threads
    BY DEF FeedTypeOK
  <1>1. CASE /\ UNCHANGED <<outcome, solo>>
             /\ healthy' => healthy
             /\ feed'.connected = feed.connected
             /\ file'.connected \in {feed.connected, file.connected}
    <2> SUFFICES ASSUME solo', outcome' = "failed", healthy'
                 PROVE  feed'.connected = FALSE /\ file'.connected = FALSE
      BY DEF FailureIsStored
    <2>1. solo /\ outcome = "failed" /\ healthy
      BY <1>1
    <2>2. ~feed.connected /\ ~file.connected
      BY <2>1 DEF FailureIsStored
    <2>3. feed.connected \in BOOLEAN /\ file.connected \in BOOLEAN
      BY <1>0 DEF Feed
    <2> QED
      BY <1>1, <2>2, <2>3
  <1>2. CASE StartLoop \/ StopLoop
    BY <1>1, <1>2, NewStates DEF StartLoop, StopLoop, Update, lastPoll
  <1>3. CASE BuildSource
    BY <1>1, <1>3 DEF BuildSource, lastPoll
  <1>4. ASSUME NEW t \in Threads, BeginPoll(t) PROVE FailureIsStored'
    BY <1>4 DEF BeginPoll, FailureIsStored
  <1>5. ASSUME NEW t \in Threads, Fetch(t) \/ CountSuccess(t) \/ ReadFailures(t)
        PROVE  FailureIsStored'
    BY <1>1, <1>5, NewStates DEF Fetch, CountSuccess, ReadFailures, lastPoll
  <1>6. ASSUME NEW t \in Threads, Publish(t) PROVE FailureIsStored'
    <2>1. solo' => t = latest
      BY <1>0, <1>6 DEF Publish, PollsInOrder, Polling
    <2>2. Polling(latest)' \/ outcome' = "ok" \/ t # latest
      BY <1>6 DEF Publish, Ends
    <2>3. latest' = latest
      BY <1>6 DEF Publish
    <2> QED
      BY <2>1, <2>2, <2>3 DEF PollsInOrder, FailureIsStored, Polling
  <1>7. ASSUME NEW t \in Threads, Report(t) PROVE FailureIsStored'
    <2>1. feed' = Reported(t) /\ (healthy' => file' = Reported(t))
      BY <1>7 DEF Report, Update
    <2> QED
      BY <2>1, NewStates DEF FailureIsStored
  <1>8. ASSUME NEW t \in Endpoints, Sync(t) PROVE FailureIsStored'
    BY <1>1, <1>8 DEF Sync, Update, lastPoll
  <1>9. CASE Tick
    BY <1>0, <1>1, <1>9 DEF Tick, lastPoll, Feed
  <1>10. CASE SourceChanges \/ UseSource
    BY <1>1, <1>10 DEF SourceChanges, UseSource, lastPoll
  <1>11. CASE Restart
    <2>1. /\ file' \in Feed
          /\ file'.connected \in {feed.connected, file.connected}
      BY <1>0, <1>11, NewStates DEF Restart
    <2>2. feed'.connected = file'.connected
      BY <1>11, <2>1 DEF Restart, Loaded, Feed
    <2> QED
      BY <1>0, <1>11, <2>1, <2>2 DEF Restart, lastPoll, FailureIsStored, Feed
  <1>12. CASE UNCHANGED vars
    BY <1>1, <1>12 DEF vars, lastPoll
  <1> QED
    BY <1>2, <1>3, <1>4, <1>5, <1>6, <1>7, <1>8, <1>9, <1>10, <1>11, <1>12
    DEF Next, LoopStep, PollStep

-----------------------------------------------------------------------------
\* The inductive invariant of the feed.
THEOREM FeedInvariant == Spec => []FeedInv
  <1>1. FeedInv /\ [Next]_vars => FeedInv'
    BY TypeStep, AgeStep, OrderStep, FailureStep DEF FeedInv
  <1> QED
    BY <1>1, InitInv, PTL DEF Spec

\* Every reachable state of the feed is well typed.
THEOREM FeedTypeCorrect == Spec => []FeedTypeOK
  <1>1. FeedInv => FeedTypeOK
    BY DEF FeedInv
  <1> QED
    BY <1>1, FeedInvariant, PTL

\* After an outage longer than stale_after_sec and the lead of the timestamps
\* the feed is in NO_TRADE.
THEOREM OutageMeansNoTrade == Spec => []OutageIsSafe
  <1>1. FeedInv => OutageIsSafe
    <2>1. FeedInv => outage <= feed.stamp + Ahead /\ outage \in Int /\ feed.stamp \in Int
      BY CountFacts DEF FeedInv, FeedTypeOK, NothingYoungerThanOutage, Feed
    <2> QED
      BY <2>1, CountFacts DEF OutageIsSafe, Fresh, AgeSec
  <1> QED
    BY <1>1, FeedInvariant, PTL

\* A failed poll that overlapped with no earlier one leaves the feed in
\* NO_TRADE.
THEOREM FailureMeansNoTrade == Spec => []FailureIsSafe
  <1>1. FeedInv => FailureIsSafe
    BY DEF FeedInv, FailureIsStored, FailureIsSafe, Fresh
  <1> QED
    BY <1>1, FeedInvariant, PTL


-----------------------------------------------------------------------------
(***************************************************************************)
(* The paper monitor.  What the worker found is the newest trade or an     *)
(* older one, and the levels of a trade never change; so a decision made   *)
(* on the levels found is right for the trade that has that id, however    *)
(* much has happened since.                                                *)
(***************************************************************************)

\* From the decision on, and while the trade is being judged.
Decided == {"close", "record", "event", "notify"}
Judging == {"quote", "judge", "hold"} \cup Decided

FoundTrade ==
  worker \in Judging =>
    /\ found.open /\ 0 < found.id /\ found.id <= trade.id
    /\ found.id = trade.id => found.targets = trade.targets

\* The quote was fetched when the trade found was the newest row, or later.
QuotedSince ==
  worker \in {"judge", "hold"} \cup Decided =>
    /\ found.id <= quoted.id /\ quoted.id <= trade.id
    /\ quoted.id = trade.id /\ trade.open => quoted.open

\* The decision is that of the quote and the levels found.
Justified ==
  worker \in Decided =>
    /\ quote # "none" /\ exit # "none"
    /\ \E late \in BOOLEAN : exit = ExitReason(quote, late, found.targets)

\* Once the worker goes on to record, the trade it found is closed.
FoundClosed == worker \in {"record", "event", "notify"} => ~(trade.id = found.id /\ trade.open)

\* What the status endpoint says of the worker is so.
StatusIsTrue == running <=> worker \notin {"start", "dead"}

MonitorInv ==
  /\ MonitorTypeOK
  /\ trade.id = 0 => ~trade.open
  /\ worker = "judge" => quote # "none"
  /\ FoundTrade
  /\ QuotedSince
  /\ Justified
  /\ FoundClosed
  /\ StatusIsTrue

LEMMA NoTradeFacts == NoTrade \in Trade /\ NoTrade.id = 0 /\ ~NoTrade.open
  BY MonitorLoopAssumption DEF NoTrade, Trade

LEMMA MonitorInitInv == MonitorInit => MonitorInv
  <1> SUFFICES ASSUME MonitorInit PROVE MonitorInv
    OBVIOUS
  <1>1. 0 \in 0..MaxReboots
    BY MonitorLoopAssumption
  <1>2. MonitorTypeOK
    BY <1>1, NoTradeFacts DEF MonitorInit, MonitorTypeOK, WorkerPc
  <1> QED
    BY <1>2, NoTradeFacts
    DEF MonitorInit, MonitorInv, FoundTrade, QuotedSince, Justified, FoundClosed, StatusIsTrue,
        Judging, Decided

LEMMA ExitReasonType ==
  ASSUME NEW zone \in Zone, NEW late \in BOOLEAN, NEW targets
  PROVE  ExitReason(zone, late, targets) \in Reason \cup {"none"}
  BY DEF ExitReason, Zone, Reason

\* A step of the worker that ends the iteration, or the task.
LEMMA MonitorEnds ==
  ASSUME MonitorInv, UNCHANGED <<trade, market, reboots>>, built' \in BOOLEAN,
         Forget, running' = (worker' = "sleep"), worker' \in {"sleep", "dead", "start"}
  PROVE  MonitorInv'
  <1>1. MonitorTypeOK'
    BY NoTradeFacts DEF MonitorInv, MonitorTypeOK, Forget, market, WorkerPc
  <1> QED
    BY <1>1 DEF MonitorInv, FoundTrade, QuotedSince, Justified, FoundClosed, StatusIsTrue, Judging, Decided

\* A step of the worker within the iteration that keeps what it found.
LEMMA MonitorGoesOn ==
  ASSUME MonitorInv, UNCHANGED <<trade, market, workerLocals, running, built, reboots>>,
         \/ worker = "sleep" /\ worker' = "look"
         \/ worker \in Judging /\ worker' = "error"
         \/ worker = "record" /\ worker' = "event"
         \/ worker = "event" /\ worker' = "notify"
  PROVE  MonitorInv'
  <1>1. MonitorTypeOK'
    BY DEF MonitorInv, MonitorTypeOK, workerLocals, market, WorkerPc
  <1> QED
    BY <1>1
    DEF MonitorInv, FoundTrade, QuotedSince, Justified, FoundClosed, StatusIsTrue, Judging, Decided,
        workerLocals

LEMMA WorkerInv == ASSUME MonitorInv, WorkerStep PROVE MonitorInv'
  <1> USE DEF Judging, Decided
  <1>0. worker \in WorkerPc /\ running \in BOOLEAN /\ built \in BOOLEAN /\ MonitorTypeOK
    BY DEF MonitorInv, MonitorTypeOK
  <1>1. CASE StartWorker
    <2>1. CASE Escape /\ built' = FALSE
      BY <1>1, <2>1, MonitorEnds DEF StartWorker, Escape
    <2>2. CASE worker' = "look" /\ running' = TRUE /\ UNCHANGED <<workerLocals, built>>
      BY <1>1, <2>2
      DEF StartWorker, MonitorInv, MonitorTypeOK, workerLocals, market, WorkerPc,
          FoundTrade, QuotedSince, Justified, FoundClosed, StatusIsTrue
    <2> QED
      BY <1>1, <2>1, <2>2 DEF StartWorker
  <1>2. CASE Wake
    BY <1>2, MonitorGoesOn DEF Wake, Continue, workerLocals
  <1>3. CASE Look
    <2>1. CASE Escape \/ Return
      BY <1>0, <1>3, <2>1, MonitorEnds DEF Look, Escape, Return, MonitorInv, StatusIsTrue
    <2>2. CASE store /\ trade.open /\ worker' = "quote" /\ found' = trade
               /\ UNCHANGED <<quote, quoted, exit, running>>
      <3>1. MonitorTypeOK'
        BY <1>0, <1>3, <2>2 DEF Look, MonitorTypeOK, market, WorkerPc
      <3>2. trade.id # 0 /\ trade.id \in Nat
        BY <1>0, <2>2 DEF MonitorInv, MonitorTypeOK, Trade
      <3> QED
        BY <1>3, <2>2, <3>1, <3>2
        DEF Look, MonitorInv, FoundTrade, QuotedSince, Justified, FoundClosed, StatusIsTrue
    <2> QED
      BY <1>3, <2>1, <2>2 DEF Look
  <1>4. CASE Quote
    <2>1. CASE Caught
      BY <1>4, <2>1, MonitorGoesOn DEF Quote, Caught
    <2>2. CASE price # "none" /\ worker' = "judge" /\ quote' = price /\ quoted' = trade
               /\ UNCHANGED <<found, exit, running>>
      <3>1. MonitorTypeOK'
        BY <1>0, <1>4, <2>2 DEF Quote, MonitorTypeOK, market, WorkerPc
      <3>2. found.id \in Nat /\ trade.id \in Nat
        BY <1>0 DEF MonitorTypeOK, Trade
      <3> QED
        BY <1>4, <2>2, <3>1, <3>2
        DEF Quote, MonitorInv, FoundTrade, QuotedSince, Justified, FoundClosed, StatusIsTrue
    <2> QED
      BY <1>4, <2>1, <2>2 DEF Quote
  <1>5. CASE Judge
    <2>1. quote \in Zone /\ eod \in BOOLEAN
      BY <1>0, <1>5 DEF Judge, MonitorInv, MonitorTypeOK
    <2>2. /\ exit' = ExitReason(quote, eod, found.targets)
          /\ exit' \in Reason \cup {"none"}
          /\ worker' \in {"hold", "close"} /\ (worker' = "close" => exit' # "none")
          /\ UNCHANGED <<trade, market, found, quote, quoted, running, built, reboots>>
      BY <1>5, <2>1, ExitReasonType DEF Judge
    <2>3. MonitorTypeOK'
      BY <1>0, <2>2 DEF MonitorTypeOK, market, WorkerPc
    <2>4. Justified'
      <3>1. quote # "none"
        BY <2>1 DEF Zone
      <3>2. ExitReason(quote, eod, found.targets)' = ExitReason(quote', eod', found'.targets)
        BY DEF ExitReason
      <3> QED
        BY <2>1, <2>2, <3>1 DEF Justified, ExitReason
    <2> QED
      BY <1>5, <2>2, <2>3, <2>4 DEF Judge, MonitorInv, FoundTrade, QuotedSince, FoundClosed, StatusIsTrue
  <1>6. CASE Hold \/ Notify
    BY <1>0, <1>6, MonitorEnds, MonitorGoesOn
    DEF Hold, Notify, Return, Caught, MonitorInv, StatusIsTrue
  <1>7. CASE Close
    <2>1. CASE Caught /\ UNCHANGED trade
      BY <1>7, <2>1, MonitorGoesOn DEF Close, Caught
    <2>2. CASE Return /\ UNCHANGED trade
      BY <1>0, <1>7, <2>2, MonitorEnds DEF Close, Return, MonitorInv, StatusIsTrue
    <2>3. CASE StillOpen /\ Continue("record") /\ trade' = [trade EXCEPT !.open = FALSE]
      <3>1. /\ trade' \in Trade /\ trade'.id = trade.id /\ trade'.targets = trade.targets
            /\ ~trade'.open
        BY <1>0, <2>3 DEF MonitorTypeOK, Trade
      <3>2. MonitorTypeOK'
        BY <1>0, <1>7, <2>3, <3>1
        DEF Close, Continue, MonitorTypeOK, market, workerLocals, WorkerPc
      <3> QED
        BY <1>7, <2>3, <3>1, <3>2
        DEF Close, Continue, MonitorInv, FoundTrade, QuotedSince, Justified, FoundClosed,
            StatusIsTrue,
            workerLocals, ExitReason
    <2> QED
      BY <1>7, <2>1, <2>2, <2>3 DEF Close
  <1>8. CASE AfterClose("record", "event") \/ AfterClose("event", "notify")
    BY <1>8, MonitorGoesOn DEF AfterClose, Continue, Caught
  <1>9. CASE HandleError
    BY <1>0, <1>9, MonitorEnds DEF HandleError, Return, Escape, MonitorInv, StatusIsTrue
  <1> QED
    BY <1>1, <1>2, <1>3, <1>4, <1>5, <1>6, <1>7, <1>8, <1>9 DEF WorkerStep

LEMMA OthersInv ==
  ASSUME MonitorInv, OpenTrade \/ CloseElsewhere \/ WorldChanges \/ RestartProcess
  PROVE  MonitorInv'
  <1>0. MonitorTypeOK /\ trade \in Trade /\ trade.id \in 0..MaxTrades /\ found.id \in Nat
    BY DEF MonitorInv, MonitorTypeOK, Trade
  <1>1. CASE OpenTrade
    <2>1. PICK plan \in Plans : trade' = [id |-> trade.id + 1, open |-> TRUE, targets |-> plan]
      BY <1>1 DEF OpenTrade
    <2>2. /\ trade'.id = trade.id + 1 /\ trade'.open /\ trade' \in Trade
          /\ trade'.id # 0
      BY <1>0, <1>1, <2>1, MonitorLoopAssumption DEF OpenTrade, Trade
    <2>3. MonitorTypeOK'
      BY <1>0, <1>1, <2>2 DEF OpenTrade, MonitorTypeOK, market, workerLocals
    <2>4. /\ found.id <= trade.id => found.id <= trade'.id /\ found.id # trade'.id
          /\ quoted.id <= trade.id => quoted.id <= trade'.id /\ quoted.id # trade'.id
      BY <1>0, <2>2 DEF MonitorTypeOK, Trade
    <2> QED
      BY <1>1, <2>2, <2>3, <2>4
      DEF OpenTrade, MonitorInv, FoundTrade, QuotedSince, Justified, FoundClosed, StatusIsTrue,
          Judging, Decided, workerLocals, ExitReason
  <1>2. CASE CloseElsewhere
    <2>1. /\ trade' \in Trade /\ trade'.id = trade.id /\ trade'.targets = trade.targets
          /\ ~trade'.open
      BY <1>0, <1>2 DEF CloseElsewhere, Trade
    <2>2. MonitorTypeOK'
      BY <1>0, <1>2, <2>1 DEF CloseElsewhere, MonitorTypeOK, market, workerLocals
    <2> QED
      BY <1>2, <2>1, <2>2
      DEF CloseElsewhere, MonitorInv, FoundTrade, QuotedSince, Justified, FoundClosed, StatusIsTrue,
          Judging, Decided, workerLocals, ExitReason
  <1>3. CASE WorldChanges
    <2>1. MonitorTypeOK'
      BY <1>0, <1>3 DEF WorldChanges, MonitorTypeOK, workerLocals
    <2> QED
      BY <1>3, <2>1
      DEF WorldChanges, MonitorInv, FoundTrade, QuotedSince, Justified, FoundClosed, StatusIsTrue,
          Judging, Decided, workerLocals, ExitReason
  <1>4. CASE RestartProcess
    <2>1. reboots' \in 0..MaxReboots
      BY <1>0, <1>4, MonitorLoopAssumption DEF RestartProcess, MonitorTypeOK
    <2>2. MonitorTypeOK'
      BY <1>0, <1>4, <2>1, NoTradeFacts
      DEF RestartProcess, MonitorTypeOK, Forget, market, WorkerPc
    <2> QED
      BY <1>4, <2>2
      DEF RestartProcess, MonitorInv, FoundTrade, QuotedSince, Justified, FoundClosed, StatusIsTrue,
          Judging, Decided
  <1> QED
    BY <1>1, <1>2, <1>3, <1>4

LEMMA MonitorInvariant == MonitorSpec => []MonitorInv
  <1>1. MonitorInv /\ [MonitorNext]_monitorVars => MonitorInv'
    <2> SUFFICES ASSUME MonitorInv, [MonitorNext]_monitorVars PROVE MonitorInv'
      OBVIOUS
    <2>1. CASE UNCHANGED monitorVars
      BY <2>1
      DEF monitorVars, MonitorInv, MonitorTypeOK, FoundTrade, QuotedSince, Justified, FoundClosed,
          StatusIsTrue, Judging, Decided, workerLocals, market, ExitReason
    <2> QED
      BY <2>1, WorkerInv, OthersInv DEF MonitorNext
  <1> QED
    BY MonitorInitInv, <1>1, PTL DEF MonitorSpec

\* The state and the locals of the monitor keep their types.
THEOREM MonitorTypeCorrect == MonitorSpec => []MonitorTypeOK
  BY MonitorInvariant, PTL DEF MonitorInv

\* The status endpoint reports the worker as running exactly while its task runs.
THEOREM MonitorStatusIsTrue == MonitorSpec => []StatusIsTrue
  BY MonitorInvariant, PTL DEF MonitorInv

\* Whatever happened since the worker looked, a trade is closed on a quote that
\* was fetched while it was open, for a reason that its own stop and targets, or
\* the end of the day, give at that quote.
THEOREM MonitorExitsFitTrade == MonitorSpec => ExitFitsTrade
  <1>1. MonitorInv /\ [MonitorNext]_monitorVars =>
          [worker = "close" /\ worker' = "record" =>
             /\ quoted.open /\ quoted.id = trade.id
             /\ exit # "none"
             /\ \E late \in BOOLEAN : exit = ExitReason(quote, late, trade.targets)]_monitorVars
    <2> SUFFICES ASSUME MonitorInv, MonitorNext, worker = "close", worker' = "record"
                 PROVE  /\ quoted.open /\ quoted.id = trade.id
                        /\ exit # "none"
                        /\ \E late \in BOOLEAN : exit = ExitReason(quote, late, trade.targets)
      OBVIOUS
    <2>1. Close
      BY DEF MonitorNext, WorkerStep, StartWorker, Wake, Look, Quote, Judge, Hold, AfterClose,
             Notify, HandleError, OpenTrade, CloseElsewhere, WorldChanges, RestartProcess
    <2>2. StillOpen
      BY <2>1 DEF Close, Caught, Return
    <2>3. found.targets = trade.targets
      BY <2>2 DEF StillOpen, MonitorInv, FoundTrade, Judging, Decided
    <2>4. quoted.open /\ quoted.id = trade.id
      <3>1. quoted.id \in Nat /\ trade.id \in Nat
        BY DEF MonitorInv, MonitorTypeOK, Trade
      <3> QED
        BY <2>2, <3>1 DEF StillOpen, MonitorInv, QuotedSince, Decided
    <2> QED
      BY <2>3, <2>4 DEF MonitorInv, Justified, Decided
  <1> QED
    BY MonitorInvariant, <1>1, PTL DEF MonitorSpec, ExitFitsTrade
=============================================================================

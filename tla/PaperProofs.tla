---------------------------- MODULE PaperProofs ----------------------------
(***************************************************************************)
(* The paper-trade lifecycle for any threads, setups, days, results and    *)
(* limits, with and without faults.                                        *)
(***************************************************************************)
EXTENDS PaperTrading, SessionsProofs

(***************************************************************************)
(* The inductive invariant: the sessions table's own, the types, and what  *)
(* the position of a handler says of its locals.                           *)
(***************************************************************************)

\* A thread is in a store call exactly while its handler waits for one.
HandlerInCall ==
  \A p \in Threads :
    /\ pc[p] \notin {"session", "record"} => call[p].pc = "none"
    /\ pc[p] = "session" => call[p].pc # "none" /\ call[p].op = "get"
    /\ pc[p] = "record" => call[p].pc # "none" /\ call[p].op = "record"

\* A closing handler has found a trade, and the result it computes for it is
\* one a trade can have.
HandlerHasTrade ==
  \A p \in Threads :
    pc[p] \in {"check", "close"} =>
      trade[job[p].setup].status # "NONE" /\ job[p].net \in Pnls

\* A review is run by a reviewer, with a verdict.
HandlerHasVerdict ==
  \A p \in Threads : pc[p] = "review" => p \in Reviewers /\ job[p].status \in Verdicts

PaperInv ==
  /\ SessionsInv
  /\ PaperTypeOK
  /\ HandlerInCall
  /\ HandlerHasTrade
  /\ HandlerHasVerdict

-----------------------------------------------------------------------------
(***************************************************************************)
(* The sessions table is used only through the steps of module Sessions,   *)
(* so its invariant carries over.                                          *)
(***************************************************************************)
LEMMA PaperKeepsSessionsInv == ASSUME PaperInv, Step PROVE SessionsInv'
  <1> USE DEF PaperInv
  <1>1. ASSUME UNCHANGED sessionVars PROVE SessionsInv'
    BY <1>1, SessionsKept
  <1>2. ASSUME NEW s \in Setups, CreateSetup(s) PROVE SessionsInv'
    BY <1>1, <1>2 DEF CreateSetup, sessionVars
  <1>3. ASSUME NEW enabled \in BOOLEAN, SetKillSwitch(enabled) PROVE SessionsInv'
    BY <1>1, <1>3 DEF SetKillSwitch, sessionVars
  <1>4. ASSUME NEW p \in Reviewers, Review(p) PROVE SessionsInv'
    BY <1>1, <1>4 DEF Review, ReadReview, WriteReview, sessionVars
  <1>5. ASSUME NEW p \in Traders, Execute(p) PROVE SessionsInv'
    <2> p \in Threads
      BY PaperTradingAssumption
    <2>1. CASE (\E s \in Setups : ReadSetup(p, s)) \/ RecheckSetup(p) \/ InsertTrade(p)
      BY <1>1, <2>1 DEF ReadSetup, RecheckSetup, InsertTrade, sessionVars
    <2>2. CASE ReadRiskState(p)
      BY <2>2, BeginInv DEF ReadRiskState, BeginGet
    <2>3. CASE RiskGate(p) \/ GateFails(p)
      BY <2>3, ReturnInv DEF RiskGate, GateFails
    <2> QED
      BY <1>5, <2>1, <2>2, <2>3 DEF Execute
  <1>6. ASSUME NEW p \in Closers, CloseOpen(p) PROVE SessionsInv'
    <2> p \in Threads
      BY PaperTradingAssumption
    <2>1. CASE (\E net \in Pnls : FindOpen(p, net)) \/ CheckOpen(p)
      BY <1>1, <2>1 DEF FindOpen, CheckOpen, sessionVars
    <2>2. CASE CloseTrade(p)
      <3>1. job[p].net \in Pnls /\ job[p].net \in Int
        BY <2>2, SessionsAssumption DEF CloseTrade, HandlerHasTrade
      <3> QED
        BY <2>2, <3>1, BeginInv DEF CloseTrade, BeginRecord
    <2>3. CASE ResultRecorded(p)
      BY <2>3, ReturnInv DEF ResultRecorded
    <2> QED
      BY <1>6, <2>1, <2>2, <2>3 DEF CloseOpen
  <1>7. ASSUME NEW p \in Threads, SessionCall(p) \/ HandlerFails(p) PROVE SessionsInv'
    BY <1>1, <1>7, CallStepInv DEF SessionCall, HandlerFails, sessionVars
  <1>8. CASE Rollover
    BY <1>8, NextDayInv DEF Rollover
  <1> QED
    BY <1>2, <1>3, <1>4, <1>5, <1>6, <1>7, <1>8 DEF Step

-----------------------------------------------------------------------------
(***************************************************************************)
(* The types and the positions of the handlers.                            *)
(***************************************************************************)
LEMMA InForceIsReasons == InForce \subseteq Reason
  BY DEF InForce, KillReason, LimitReasons, Reason

LEMMA NoJobIsJob == NoJob \in Job
  BY DEF NoJob, NewJob, Job, SetupStatus

LEMMA PaperInitInv == PaperInit => PaperInv
  <1> SUFFICES ASSUME PaperInit PROVE PaperInv
    OBVIOUS
  <1>1. SessionsInv
    BY InitInv DEF PaperInit
  <1>2. NoTrade \in Trade
    BY <1>1 DEF SessionsInv, SessionsTypeOK, NoTrade, Trade, PaperInit, SessionsInit
  <1>3. PaperTypeOK
    BY <1>1, <1>2, NoJobIsJob
    DEF PaperTypeOK, SessionsInv, PaperInit, SetupStatus, Pc, NoJob
  <1>4. HandlerInCall /\ HandlerHasTrade /\ HandlerHasVerdict
    BY DEF PaperInit, SessionsInit, NoCall, HandlerInCall, HandlerHasTrade, HandlerHasVerdict
  <1> QED
    BY <1>1, <1>3, <1>4 DEF PaperInv

\* The variables of the handlers keep their types, and their positions their
\* meaning; the sessions table is the business of PaperKeepsSessionsInv.
HandlersInv ==
  /\ setup \in [Setups -> SetupStatus]
  /\ trade \in [Setups -> Trade]
  /\ killSwitch \in BOOLEAN
  /\ pc \in [Threads -> Pc]
  /\ job \in [Threads -> Job]
  /\ \A p \in Threads : pc[p] # "idle" => job[p].setup \in Setups
  /\ closes \in [Setups -> Nat]
  /\ counted \in [Setups -> Nat]
  /\ HandlerInCall
  /\ HandlerHasTrade
  /\ HandlerHasVerdict

\* The locals with which a handler starts.
LEMMA NewJobFacts ==
  ASSUME NEW s \in Setups, NEW status \in SetupStatus, NEW net \in Int
  PROVE  LET j == NewJob(s, status, net) IN
         j \in Job /\ j.setup = s /\ j.status = status /\ j.net = net
  BY DEF NewJob, Job

LEMMA PaperInvParts ==
  PaperInv <=> SessionsInv /\ HandlersInv /\ barred \in [Threads -> SUBSET Reason]
  BY DEF PaperInv, PaperTypeOK, HandlersInv, SessionsInv

LEMMA ReviewInv ==
  ASSUME PaperInv, NEW p \in Reviewers, Review(p) PROVE HandlersInv'
  <1> USE DEF HandlersInv
  <1>0. p \in Threads /\ HandlersInv
    BY PaperTradingAssumption, PaperInvParts
  <1>1. ASSUME NEW s \in Setups, NEW verdict \in Verdicts, ReadReview(p, s, verdict)
        PROVE  HandlersInv'
    <2> DEFINE j == NewJob(s, verdict, 0)
    <2>0. verdict \in SetupStatus
      BY PaperTradingAssumption DEF SetupStatus
    <2>1. j \in Job /\ j.setup = s /\ j.status = verdict
      BY <2>0, NewJobFacts
    <2>2. job' = [job EXCEPT ![p] = j] /\ pc' = [pc EXCEPT ![p] = "review"]
      BY <1>1 DEF ReadReview, Goto
    <2> HIDE DEF j
    <2>3. UNCHANGED <<setup, trade, killSwitch, call, closes, counted>>
      BY <1>1 DEF ReadReview, tables, history, sessionVars
    <2>4. pc[p] = "idle"
      BY <1>1 DEF ReadReview
    <2>5. HandlerInCall'
      BY <1>0, <2>2, <2>3, <2>4 DEF HandlerInCall
    <2>6. HandlerHasTrade'
      BY <1>0, <2>1, <2>2, <2>3 DEF HandlerHasTrade
    <2>7. HandlerHasVerdict'
      BY <1>0, <2>1, <2>2, <2>3 DEF HandlerHasVerdict
    <2> QED
      BY <1>0, <2>1, <2>2, <2>3, <2>5, <2>6, <2>7 DEF Pc
  <1>2. CASE WriteReview(p)
    <2>1. Verdicts \subseteq SetupStatus
      BY PaperTradingAssumption DEF SetupStatus
    <2> QED
      BY <1>0, <1>2, <2>1, NoJobIsJob
      DEF WriteReview, Finish, history, sessionVars, Pc,
          HandlerInCall, HandlerHasTrade, HandlerHasVerdict
  <1> QED
    BY <1>1, <1>2 DEF Review

LEMMA ExecuteInv ==
  ASSUME PaperInv, NEW p \in Traders, Execute(p) PROVE HandlersInv'
  <1> USE DEF HandlersInv
  <1>0. p \in Threads /\ HandlersInv /\ SessionsTypeOK
    BY PaperTradingAssumption, PaperInvParts DEF SessionsInv
  <1>1. ASSUME NEW s \in Setups, ReadSetup(p, s) PROVE HandlersInv'
    <2> DEFINE j == NewJob(s, setup[s], 0)
    <2>1. j \in Job /\ j.setup = s
      BY <1>0, NewJobFacts
    <2>2. job' = [job EXCEPT ![p] = j] /\ pc' = [pc EXCEPT ![p] = "risk"]
      BY <1>1 DEF ReadSetup, Goto
    <2> HIDE DEF j
    <2>3. UNCHANGED <<setup, trade, killSwitch, call, closes, counted>>
      BY <1>1 DEF ReadSetup, tables, history, sessionVars
    <2>4. pc[p] = "idle"
      BY <1>1 DEF ReadSetup
    <2>5. HandlerInCall'
      BY <1>0, <2>2, <2>3, <2>4 DEF HandlerInCall
    <2>6. HandlerHasTrade'
      BY <1>0, <2>1, <2>2, <2>3 DEF HandlerHasTrade
    <2>7. HandlerHasVerdict'
      BY <1>0, <2>1, <2>2, <2>3 DEF HandlerHasVerdict
    <2> QED
      BY <1>0, <2>1, <2>2, <2>3, <2>5, <2>6, <2>7 DEF Pc
  <1>2. CASE ReadRiskState(p)
    <2>1. pc[p] = "risk" /\ pc' = [pc EXCEPT ![p] = "session"]
      BY <1>2 DEF ReadRiskState, Goto
    <2>2. UNCHANGED <<setup, trade, killSwitch, closes, counted>>
      BY <1>2 DEF ReadRiskState, tables, history
    <2>3. job' = [job EXCEPT ![p].kill = killSwitch]
      BY <1>2 DEF ReadRiskState
    <2>4. /\ job' \in [Threads -> Job]
          /\ \A q \in Threads \ {p} : job'[q] = job[q]
          /\ job'[p].setup = job[p].setup
      BY <1>0, <2>3 DEF Job
    <2>5. \A q \in Threads : q # p => call'[q] = call[q]
      BY <1>0, <1>2 DEF ReadRiskState, BeginGet, Begin, SessionsTypeOK
    <2>6. call'[p].pc = "lookup" /\ call'[p].op = "get"
      BY <1>0, <1>2 DEF ReadRiskState, BeginGet, Begin, SessionsTypeOK
    <2>7. HandlerInCall'
      BY <1>0, <2>1, <2>5, <2>6 DEF HandlerInCall
    <2>8. HandlerHasTrade'
      BY <1>0, <2>1, <2>2, <2>4 DEF HandlerHasTrade
    <2>9. HandlerHasVerdict'
      BY <1>0, <2>1, <2>2, <2>4 DEF HandlerHasVerdict
    <2> QED
      BY <1>0, <2>1, <2>2, <2>4, <2>7, <2>8, <2>9 DEF Pc
  <1>3. CASE RiskGate(p) \/ GateFails(p)
    <2>1. /\ pc[p] = "session"
          /\ \/ pc' = [pc EXCEPT ![p] = "recheck"] /\ job' = job
             \/ pc' = [pc EXCEPT ![p] = "idle"] /\ job' = [job EXCEPT ![p] = NoJob]
          /\ UNCHANGED <<setup, trade, killSwitch, closes, counted>>
      BY <1>3 DEF RiskGate, GateFails, Goto, Finish, tables, history
    <2>2. call' = [call EXCEPT ![p] = NoCall]
      BY <1>3 DEF RiskGate, GateFails, Return
    <2>3. job' \in [Threads -> Job] /\ \A q \in Threads \ {p} : job'[q] = job[q]
      BY <1>0, <2>1, NoJobIsJob
    <2>4. HandlerInCall'
      BY <1>0, <2>1, <2>2 DEF HandlerInCall, NoCall, SessionsTypeOK
    <2>5. HandlerHasTrade'
      BY <1>0, <2>1, <2>3 DEF HandlerHasTrade
    <2>6. HandlerHasVerdict'
      BY <1>0, <2>1, <2>3 DEF HandlerHasVerdict
    <2>7. \A q \in Threads : pc'[q] # "idle" => job'[q].setup \in Setups
      BY <1>0, <2>1, <2>3
    <2>8. pc' \in [Threads -> Pc]
      BY <1>0, <2>1 DEF Pc
    <2> QED
      BY <1>0, <2>1, <2>3, <2>4, <2>5, <2>6, <2>7, <2>8
  <1>5. CASE RecheckSetup(p)
    BY <1>0, <1>5, NoJobIsJob
    DEF RecheckSetup, Goto, Finish, tables, history, sessionVars, Pc,
        HandlerInCall, HandlerHasTrade, HandlerHasVerdict
  <1>6. CASE InsertTrade(p)
    <2> DEFINE s == job[p].setup
               new == [status |-> "OPEN", day |-> today, net |-> 0]
    <2>1. s \in Setups /\ new \in Trade /\ new.status = "OPEN"
      BY <1>0, <1>6 DEF InsertTrade, Trade, SessionsTypeOK
    <2>2. /\ trade' = [trade EXCEPT ![s] = new] \/ trade' = trade
          /\ setup' = [setup EXCEPT ![s] = "PAPER_OPEN"] \/ setup' = setup
      BY <1>6 DEF InsertTrade
    <2>3. /\ trade' \in [Setups -> Trade]
          /\ \A t \in Setups : trade[t].status # "NONE" => trade'[t].status # "NONE"
      BY <1>0, <2>1, <2>2
    <2> QED
      BY <1>0, <1>6, <2>1, <2>2, <2>3, NoJobIsJob
      DEF InsertTrade, Finish, history, sessionVars, Pc, SetupStatus,
          HandlerInCall, HandlerHasTrade, HandlerHasVerdict
  <1> QED
    BY <1>1, <1>2, <1>3, <1>5, <1>6 DEF Execute

LEMMA CloseInv ==
  ASSUME PaperInv, NEW p \in Closers, CloseOpen(p) PROVE HandlersInv'
  <1> USE DEF HandlersInv
  <1>0. p \in Threads /\ HandlersInv /\ SessionsTypeOK
    BY PaperTradingAssumption, PaperInvParts DEF SessionsInv
  <1>1. ASSUME NEW net \in Pnls, FindOpen(p, net) PROVE HandlersInv'
    <2>1. PICK s \in Setups :
            IsOpen(s) /\ job' = [job EXCEPT ![p] = NewJob(s, "NONE", net)]
      BY <1>1 DEF FindOpen
    <2> DEFINE j == NewJob(s, "NONE", net)
    <2>0. "NONE" \in SetupStatus /\ net \in Int
      BY SessionsAssumption DEF SetupStatus
    <2>2. j \in Job /\ j.setup = s /\ j.net = net
      BY <2>0, NewJobFacts
    <2>3. job' = [job EXCEPT ![p] = j] /\ pc' = [pc EXCEPT ![p] = "check"]
      BY <1>1, <2>1 DEF FindOpen, Goto
    <2> HIDE DEF j
    <2>4. UNCHANGED <<setup, trade, killSwitch, call, closes, counted>>
      BY <1>1 DEF FindOpen, tables, history, sessionVars
    <2>5. pc[p] = "idle"
      BY <1>1 DEF FindOpen
    <2>6. HandlerInCall'
      BY <1>0, <2>3, <2>4, <2>5 DEF HandlerInCall
    <2>7. HandlerHasTrade'
      BY <1>0, <2>1, <2>2, <2>3, <2>4 DEF HandlerHasTrade, IsOpen
    <2>8. HandlerHasVerdict'
      BY <1>0, <2>1, <2>2, <2>3, <2>4 DEF HandlerHasVerdict
    <2> QED
      BY <1>0, <2>1, <2>2, <2>3, <2>4, <2>6, <2>7, <2>8 DEF Pc
  <1>2. CASE CheckOpen(p)
    BY <1>0, <1>2, NoJobIsJob
    DEF CheckOpen, Goto, Finish, tables, history, sessionVars, Pc,
        HandlerInCall, HandlerHasTrade, HandlerHasVerdict
  <1>3. CASE CloseTrade(p)
    <2> DEFINE s == job[p].setup
               new == [status |-> "CLOSED", day |-> trade[s].day, net |-> job[p].net]
    <2>1. s \in Setups /\ new \in Trade /\ new.status = "CLOSED"
      BY <1>0, <1>3 DEF CloseTrade, Trade, Job
    <2>2. /\ trade' = [trade EXCEPT ![s] = new]
          /\ setup' = [setup EXCEPT ![s] = "PAPER_CLOSED"]
          /\ closes' = [closes EXCEPT ![s] = closes[s] + 1]
          /\ pc' = [pc EXCEPT ![p] = "record"]
          /\ UNCHANGED <<killSwitch, job, counted>>
      BY <1>3 DEF CloseTrade, ClosedSetup, Goto
    <2>3. call'[p].pc = "lookup" /\ call'[p].op = "record"
          /\ \A q \in Threads \ {p} : call'[q] = call[q]
      BY <1>0, <1>3 DEF CloseTrade, BeginRecord, Begin, SessionsTypeOK
    <2> HIDE DEF new
    <2>4. /\ trade' \in [Setups -> Trade]
          /\ \A t \in Setups : trade[t].status # "NONE" => trade'[t].status # "NONE"
      BY <1>0, <2>1, <2>2
    <2>5. HandlerHasTrade' /\ HandlerHasVerdict'
      BY <1>0, <2>2, <2>4 DEF HandlerHasTrade, HandlerHasVerdict
    <2>6. HandlerInCall'
      BY <1>0, <2>2, <2>3 DEF HandlerInCall
    <2> QED
      BY <1>0, <1>3, <2>1, <2>2, <2>4, <2>5, <2>6 DEF CloseTrade, SetupStatus, Pc
  <1>4. CASE ResultRecorded(p)
    BY <1>0, <1>4, NoJobIsJob
    DEF ResultRecorded, Return, NoCall, Finish, tables, history, Pc, SessionsTypeOK,
        HandlerInCall, HandlerHasTrade, HandlerHasVerdict
  <1> QED
    BY <1>1, <1>2, <1>3, <1>4 DEF CloseOpen

LEMMA ThreadInv ==
  ASSUME PaperInv, NEW p \in Threads, SessionCall(p) \/ HandlerFails(p)
  PROVE  HandlersInv'
  <1> USE DEF HandlersInv
  <1>0. HandlersInv /\ SessionsTypeOK
    BY PaperInvParts DEF SessionsInv
  <1>1. CASE SessionCall(p)
    <2>1. CallStep(p) /\ UNCHANGED <<tables, pc, job, closes>>
      BY <1>1 DEF SessionCall
    <2>2. HandlerInCall'
      BY <1>0, <2>1, CallStepFacts DEF HandlerInCall
    <2>3. counted' \in [Setups -> Nat]
      BY <1>0, <1>1 DEF SessionCall
    <2> QED
      BY <1>0, <2>1, <2>2, <2>3 DEF tables, HandlerHasTrade, HandlerHasVerdict
  <1>2. CASE HandlerFails(p)
    BY <1>0, <1>2, NoJobIsJob
    DEF HandlerFails, Finish, tables, history, sessionVars, Pc,
        HandlerInCall, HandlerHasTrade, HandlerHasVerdict
  <1> QED
    BY <1>1, <1>2

LEMMA StepInv == ASSUME PaperInv, Step PROVE HandlersInv'
  <1> USE DEF HandlersInv
  <1>0. HandlersInv
    BY PaperInvParts
  <1>1. ASSUME NEW s \in Setups, CreateSetup(s) PROVE HandlersInv'
    BY <1>0, <1>1
    DEF CreateSetup, history, sessionVars, SetupStatus,
        HandlerInCall, HandlerHasTrade, HandlerHasVerdict
  <1>2. ASSUME NEW enabled \in BOOLEAN, SetKillSwitch(enabled) PROVE HandlersInv'
    BY <1>0, <1>2
    DEF SetKillSwitch, history, sessionVars, HandlerInCall, HandlerHasTrade, HandlerHasVerdict
  <1>3. CASE Rollover
    BY <1>0, <1>3
    DEF Rollover, NextDay, paperVars, HandlerInCall, HandlerHasTrade, HandlerHasVerdict
  <1> QED
    BY <1>1, <1>2, <1>3, ReviewInv, ExecuteInv, CloseInv, ThreadInv DEF Step

LEMMA WatchType ==
  ASSUME barred \in [Threads -> SUBSET Reason], Watch
  PROVE  barred' \in [Threads -> SUBSET Reason]
  <1>1. InForce' \subseteq Reason
    BY DEF InForce, KillReason, LimitReasons, Reason
  <1> QED
    BY <1>1 DEF Watch

\* The inductive invariant holds of every behaviour of the lifecycle.
THEOREM PaperInvariant == PaperSpec => []PaperInv
  <1>1. PaperInv /\ [PaperNext]_vars => PaperInv'
    <2> SUFFICES ASSUME PaperInv, [PaperNext]_vars PROVE PaperInv'
      OBVIOUS
    <2>1. CASE PaperNext
      <3>1. SessionsInv' /\ HandlersInv'
        BY <2>1, PaperKeepsSessionsInv, StepInv DEF PaperNext
      <3>2. (barred \in [Threads -> SUBSET Reason])'
        BY <2>1, PaperInvParts, WatchType DEF PaperNext
      <3> QED
        BY <3>1, <3>2
        DEF PaperInv, PaperTypeOK, HandlersInv, SessionsInv
    <2>2. CASE UNCHANGED vars
      BY <2>2
      DEF vars, sessionVars, paperVars, PaperInv, PaperTypeOK, SessionsInv, SessionsTypeOK,
          CountersMatchResults, PnlMatchesResults, StreakWithinLosses, EmptyRows, CallsMakeSense, ReadStreak,
          HandlerInCall, HandlerHasTrade, HandlerHasVerdict
    <2> QED
      BY <2>1, <2>2
  <1> QED
    BY PaperInitInv, <1>1, PTL DEF PaperSpec

\* Every table and every local variable of a handler keeps its type.
THEOREM PaperTypeCorrect == PaperSpec => []PaperTypeOK
  BY PaperInvariant, PTL DEF PaperInv

-----------------------------------------------------------------------------
(***************************************************************************)
(* The paper_trades table implements PaperBook.  InsertTrade is Book!Open  *)
(* by the two unique indexes; CloseTrade is Book!Close, or a stutter when  *)
(* another thread has closed the trade first; a closing thread never meets *)
(* a trade that does not exist, because trades are never deleted           *)
(* (HandlerHasTrade).                                                      *)
(***************************************************************************)

\* Only these two actions write the table.
LEMMA TradeWriters ==
  ASSUME Step, ~UNCHANGED trade
  PROVE  \/ \E p \in Traders : InsertTrade(p)
         \/ \E p \in Closers : CloseTrade(p)
  BY DEF Step, CreateSetup, SetKillSwitch, Review, ReadReview, WriteReview, Execute,
         ReadSetup, ReadRiskState, RiskGate, GateFails, RecheckSetup, CloseOpen, FindOpen,
         CheckOpen, ResultRecorded, SessionCall, HandlerFails, Rollover, paperVars, tables

LEMMA InsertOpens ==
  ASSUME PaperInv, NEW p \in Threads, InsertTrade(p)
  PROVE  \/ UNCHANGED trade
         \/ LET s == job[p].setup IN
            /\ s \in Setups /\ Unique(s)
            /\ trade' = [trade EXCEPT ![s] = [status |-> "OPEN", day |-> today, net |-> 0]]
            /\ setup' = [setup EXCEPT ![s] = "PAPER_OPEN"]
            /\ Book!Open(s)
  <1> DEFINE s == job[p].setup
             new == [status |-> "OPEN", day |-> today, net |-> 0]
  <1>1. s \in Setups /\ trade \in [Setups -> Trade]
    BY DEF PaperInv, PaperTypeOK, InsertTrade
  <1>2. SUFFICES ASSUME /\ Unique(s)
                        /\ trade' = [trade EXCEPT ![s] = new]
                        /\ setup' = [setup EXCEPT ![s] = "PAPER_OPEN"]
                 PROVE  Book!Open(s)
    BY <1>1 DEF InsertTrade
  <1>3. new.status = "OPEN"
    OBVIOUS
  <1> HIDE DEF new
  <1>4. [t \in Setups |-> trade'[t].status]
          = [[t \in Setups |-> trade[t].status] EXCEPT ![s] = "OPEN"]
    BY <1>1, <1>2, <1>3
  <1> QED
    BY <1>1, <1>2, <1>4 DEF Book!Open, Unique, NothingOpen, IsOpen

LEMMA CloseCloses ==
  ASSUME PaperInv, NEW p \in Threads, CloseTrade(p)
  PROVE  LET s == job[p].setup IN
         /\ s \in Setups /\ trade[s].status # "NONE"
         /\ trade' = [trade EXCEPT ![s] = [status |-> "CLOSED", day |-> trade[s].day,
                                           net |-> job[p].net]]
         /\ setup' = [setup EXCEPT ![s] = "PAPER_CLOSED"]
         /\ Book!Close(s) \/ UNCHANGED [t \in Setups |-> trade[t].status]
  <1> DEFINE s == job[p].setup
             new == [status |-> "CLOSED", day |-> trade[s].day, net |-> job[p].net]
  <1>1. s \in Setups /\ trade \in [Setups -> Trade] /\ trade[s].status # "NONE"
    BY DEF PaperInv, PaperTypeOK, HandlerHasTrade, CloseTrade
  <1>2. trade' = [trade EXCEPT ![s] = new] /\ setup' = [setup EXCEPT ![s] = "PAPER_CLOSED"]
    BY DEF CloseTrade, ClosedSetup
  <1>3. new.status = "CLOSED" /\ trade[s].status \in {"OPEN", "CLOSED"}
    BY <1>1 DEF Trade
  <1> HIDE DEF new
  <1>4. [t \in Setups |-> trade'[t].status]
          = [[t \in Setups |-> trade[t].status] EXCEPT ![s] = "CLOSED"]
    BY <1>1, <1>2, <1>3
  <1>5. ASSUME trade[s].status = "OPEN" PROVE Book!Close(s)
    BY <1>1, <1>4, <1>5 DEF Book!Close
  <1>6. ASSUME trade[s].status = "CLOSED" PROVE UNCHANGED [t \in Setups |-> trade[t].status]
    BY <1>1, <1>4, <1>6
  <1>7. Book!Close(s) \/ UNCHANGED [t \in Setups |-> trade[t].status]
    BY <1>3, <1>5, <1>6
  <1> QED
    BY <1>1, <1>2, <1>7 DEF new

\* Through all races of executions and closes the ledger keeps PaperBook's
\* promise: one open trade, one trade per setup, closed for good.
THEOREM ImplementsBook == PaperSpec => BookSpec
  <1>1. PaperInit => Book!Init
    BY DEF PaperInit, Book!Init, NoTrade
  <1>2. PaperInv /\ [PaperNext]_vars => [Book!Next]_[s \in Setups |-> trade[s].status]
    <2> SUFFICES ASSUME PaperInv, PaperNext, ~UNCHANGED trade
                 PROVE  [Book!Next]_[s \in Setups |-> trade[s].status]
      BY DEF vars, paperVars
    <2>1. ASSUME NEW p \in Traders, InsertTrade(p) PROVE Book!Next
      <3>1. p \in Threads
        BY PaperTradingAssumption
      <3>2. job[p].setup \in Setups /\ Book!Open(job[p].setup)
        BY <2>1, <3>1, InsertOpens DEF Book!Open
      <3> QED
        BY <3>2 DEF Book!Next, Book!Open
    <2>2. ASSUME NEW p \in Closers, CloseTrade(p)
          PROVE  [Book!Next]_[s \in Setups |-> trade[s].status]
      <3>1. p \in Threads
        BY PaperTradingAssumption
      <3>2. /\ job[p].setup \in Setups
            /\ \/ Book!Close(job[p].setup)
               \/ UNCHANGED [t \in Setups |-> trade[t].status]
        BY <2>2, <3>1, CloseCloses DEF Book!Close
      <3> QED
        BY <3>2 DEF Book!Next, Book!Close
    <2> QED
      BY <2>1, <2>2, TradeWriters DEF PaperNext
  <1> QED
    BY <1>1, <1>2, PaperInvariant, PTL DEF PaperSpec, BookSpec, Book!Spec

-----------------------------------------------------------------------------
(***************************************************************************)
(* The status of a setup follows its trade, whoever reviews, trades and    *)
(* closes, unless two reviews of one setup are under way at once.  The     *)
(* UPDATE of a review does not look at the status again, so this rests on  *)
(* ReviewFresh: what a reviewer has read as GENERATED stays so.            *)
(***************************************************************************)

ReviewFresh == \A p \in Threads : pc[p] = "review" => setup[job[p].setup] = "GENERATED"

\* An execution past its second look at the setup still has the approval,
\* unless the setup has been traded by another one.
ApprovalStands ==
  \A p \in Threads :
    pc[p] = "insert" /\ trade[job[p].setup].status = "NONE" =>
      setup[job[p].setup] = "APPROVED"

ApprovalInv == SetupMatchesTrade /\ ReviewFresh /\ ApprovalStands

LEMMA ApprovalStep ==
  ASSUME ReviewsApart, PaperInv, ApprovalInv, Step PROVE ApprovalInv'
  <1> USE DEF ApprovalInv
  <1>0. /\ setup \in [Setups -> SetupStatus] /\ trade \in [Setups -> Trade]
        /\ pc \in [Threads -> Pc] /\ job \in [Threads -> Job]
        /\ \A p \in Threads : pc[p] # "idle" => job[p].setup \in Setups
    BY DEF PaperInv, PaperTypeOK
  <1>1. ASSUME NEW s \in Setups, CreateSetup(s) PROVE ApprovalInv'
    BY <1>0, <1>1 DEF CreateSetup, SetupMatchesTrade, ReviewFresh, ApprovalStands
  <1>2. ASSUME NEW p \in Reviewers, WriteReview(p) PROVE ApprovalInv'
    <2> DEFINE s == job[p].setup
    <2>1. /\ p \in Threads /\ s \in Setups /\ setup[s] = "GENERATED"
          /\ job[p].status \in Verdicts /\ trade[s].status = "NONE"
      BY <1>0, <1>2, PaperTradingAssumption
      DEF WriteReview, ReviewFresh, PaperInv, HandlerHasVerdict, SetupMatchesTrade, Trade
    <2>2. /\ setup' = [setup EXCEPT ![s] = job[p].status] /\ UNCHANGED trade
          /\ pc' = [pc EXCEPT ![p] = "idle"] /\ job' = [job EXCEPT ![p] = NoJob]
      BY <1>2 DEF WriteReview, Finish
    <2>3. SetupMatchesTrade'
      BY <1>0, <2>1, <2>2, PaperTradingAssumption DEF SetupMatchesTrade
    <2>4. ReviewFresh'
      <3>1. \A q \in Threads \ {p} : pc[q] = "review" => job[q].setup # s
        BY <1>2, <2>1 DEF ReviewsApart, WriteReview
      <3> QED
        BY <1>0, <2>1, <2>2, <3>1 DEF ReviewFresh
    <2>5. ApprovalStands'
      BY <1>0, <2>1, <2>2 DEF ApprovalStands
    <2> QED
      BY <2>3, <2>4, <2>5
  <1>3. ASSUME NEW p \in Traders, InsertTrade(p) PROVE ApprovalInv'
    <2> p \in Threads
      BY PaperTradingAssumption
    <2>1. pc' = [pc EXCEPT ![p] = "idle"] /\ job' = [job EXCEPT ![p] = NoJob]
      BY <1>3 DEF InsertTrade, Finish
    <2>2. CASE UNCHANGED <<setup, trade>>
      BY <1>0, <2>1, <2>2 DEF SetupMatchesTrade, ReviewFresh, ApprovalStands
    <2>3. CASE ~UNCHANGED <<setup, trade>>
      <3> DEFINE s == job[p].setup
                 new == [status |-> "OPEN", day |-> today, net |-> 0]
      <3>1. /\ s \in Setups /\ Unique(s)
            /\ trade' = [trade EXCEPT ![s] = new]
            /\ setup' = [setup EXCEPT ![s] = "PAPER_OPEN"]
        BY <1>0, <1>3, <2>3 DEF InsertTrade
      <3>2. new.status = "OPEN" /\ setup[s] = "APPROVED"
        BY <1>3, <3>1 DEF ApprovalStands, InsertTrade, Unique
      <3> HIDE DEF new
      <3>3. SetupMatchesTrade'
        BY <1>0, <3>1, <3>2 DEF SetupMatchesTrade
      <3>4. ReviewFresh'
        BY <1>0, <2>1, <3>1, <3>2 DEF ReviewFresh
      <3>5. ApprovalStands'
        BY <1>0, <2>1, <3>1, <3>2 DEF ApprovalStands
      <3> QED
        BY <3>3, <3>4, <3>5
    <2> QED
      BY <2>2, <2>3
  <1>4. ASSUME NEW p \in Closers, CloseTrade(p) PROVE ApprovalInv'
    <2> DEFINE s == job[p].setup
               new == [status |-> "CLOSED", day |-> trade[s].day, net |-> job[p].net]
    <2>1. /\ p \in Threads /\ s \in Setups /\ trade[s].status # "NONE"
          /\ trade' = [trade EXCEPT ![s] = new]
          /\ setup' = [setup EXCEPT ![s] = "PAPER_CLOSED"]
      BY <1>4, CloseCloses, PaperTradingAssumption
    <2>2. pc' = [pc EXCEPT ![p] = "record"] /\ UNCHANGED job
      BY <1>4 DEF CloseTrade, Goto
    <2>3. new.status = "CLOSED" /\ setup[s] # "GENERATED"
      BY <1>0, <2>1 DEF SetupMatchesTrade, Trade
    <2> HIDE DEF new
    <2>4. SetupMatchesTrade'
      BY <1>0, <2>1, <2>3 DEF SetupMatchesTrade
    <2>5. ReviewFresh'
      BY <1>0, <2>1, <2>2, <2>3 DEF ReviewFresh
    <2>6. ApprovalStands'
      BY <1>0, <2>1, <2>2, <2>3 DEF ApprovalStands
    <2> QED
      BY <2>4, <2>5, <2>6
  <1>6. ASSUME UNCHANGED <<setup, trade>>, NEW p \in Threads,
               NEW next \in Pc \ {"review", "insert"}, NEW j,
               pc' = [pc EXCEPT ![p] = next], job' = [job EXCEPT ![p] = j]
        PROVE  ApprovalInv'
    BY <1>0, <1>6 DEF SetupMatchesTrade, ReviewFresh, ApprovalStands
  <1>7. ASSUME UNCHANGED <<setup, trade, pc, job>> PROVE ApprovalInv'
    BY <1>7 DEF SetupMatchesTrade, ReviewFresh, ApprovalStands
  <1>8. ASSUME UNCHANGED <<setup, trade>>, NEW p \in Threads, Finish(p) PROVE ApprovalInv'
    BY <1>6, <1>8 DEF Finish, Pc
  <1>9. ASSUME UNCHANGED <<setup, trade, job>>, NEW p \in Threads,
               NEW next \in Pc \ {"review", "insert"}, Goto(p, next)
        PROVE  ApprovalInv'
    <2>1. job' = [job EXCEPT ![p] = job[p]]
      BY <1>0, <1>9
    <2> QED
      BY <1>6, <1>9, <2>1 DEF Goto
  <1>10. ASSUME NEW p \in Reviewers, Review(p) PROVE ApprovalInv'
    <2> p \in Threads
      BY PaperTradingAssumption
    <2>1. ASSUME NEW s \in Setups, NEW verdict \in Verdicts, ReadReview(p, s, verdict)
          PROVE  ApprovalInv'
      <3> DEFINE j == NewJob(s, verdict, 0)
      <3>1. /\ UNCHANGED <<setup, trade>> /\ setup[s] = "GENERATED" /\ j.setup = s
            /\ pc' = [pc EXCEPT ![p] = "review"] /\ job' = [job EXCEPT ![p] = j]
        BY <2>1 DEF ReadReview, tables, Goto, NewJob
      <3> HIDE DEF j
      <3> QED
        BY <1>0, <3>1 DEF SetupMatchesTrade, ReviewFresh, ApprovalStands
    <2> QED
      BY <1>2, <1>10, <2>1 DEF Review
  <1>11. ASSUME NEW p \in Traders, Execute(p) PROVE ApprovalInv'
    <2> p \in Threads
      BY PaperTradingAssumption
    <2>1. ASSUME NEW s \in Setups, ReadSetup(p, s) PROVE ApprovalInv'
      BY <1>6, <2>1 DEF ReadSetup, tables, Goto, Pc
    <2>2. CASE ReadRiskState(p)
      BY <1>6, <2>2 DEF ReadRiskState, tables, Goto, Pc
    <2>3. CASE RiskGate(p)
      BY <1>8, <1>9, <2>3 DEF RiskGate, tables, Pc
    <2>4. CASE GateFails(p)
      BY <1>8, <2>4 DEF GateFails, tables
    <2>5. CASE RecheckSetup(p)
      <3>1. CASE setup[job[p].setup] = "APPROVED" /\ Goto(p, "insert") /\ UNCHANGED job
        BY <1>0, <2>5, <3>1
        DEF RecheckSetup, tables, Goto, SetupMatchesTrade, ReviewFresh, ApprovalStands
      <3> QED
        BY <1>8, <2>5, <3>1 DEF RecheckSetup, tables
    <2> QED
      BY <1>3, <1>11, <2>1, <2>2, <2>3, <2>4, <2>5 DEF Execute
  <1>12. ASSUME NEW p \in Closers, CloseOpen(p) PROVE ApprovalInv'
    <2> p \in Threads
      BY PaperTradingAssumption
    <2>1. ASSUME NEW net \in Pnls, FindOpen(p, net) PROVE ApprovalInv'
      BY <1>6, <2>1 DEF FindOpen, tables, Goto, Pc
    <2>2. CASE CheckOpen(p)
      BY <1>8, <1>9, <2>2 DEF CheckOpen, tables, Pc
    <2>3. CASE ResultRecorded(p)
      BY <1>8, <2>3 DEF ResultRecorded, tables
    <2> QED
      BY <1>4, <1>12, <2>1, <2>2, <2>3 DEF CloseOpen
  <1>13. ASSUME NEW p \in Threads, SessionCall(p) \/ HandlerFails(p) PROVE ApprovalInv'
    BY <1>7, <1>8, <1>13 DEF SessionCall, HandlerFails, tables
  <1>14. ASSUME NEW enabled \in BOOLEAN, SetKillSwitch(enabled) PROVE ApprovalInv'
    BY <1>7, <1>14 DEF SetKillSwitch
  <1>15. CASE Rollover
    BY <1>7, <1>15 DEF Rollover, paperVars
  <1> QED
    BY <1>1, <1>10, <1>11, <1>12, <1>13, <1>14, <1>15 DEF Step

LEMMA ApprovalInvariant == PaperSpec /\ []ReviewsApart => [](PaperInv /\ ApprovalInv)
  <1>1. PaperInit => ApprovalInv
    BY DEF PaperInit, ApprovalInv, SetupMatchesTrade, ReviewFresh, ApprovalStands, NoTrade
  <1>2. ReviewsApart /\ PaperInv /\ ApprovalInv /\ [PaperNext]_vars => ApprovalInv'
    <2>1. CASE UNCHANGED vars
      BY <2>1
      DEF vars, paperVars, ApprovalInv, SetupMatchesTrade, ReviewFresh, ApprovalStands
    <2> QED
      BY <2>1, ApprovalStep DEF PaperNext
  <1> QED
    BY PaperInvariant, <1>1, <1>2, PTL DEF PaperSpec

\* Only two reviews of one setup under way at once can make the status shown for a
\* setup another than that of its trade; no race of executions, closes and one review
\* of each setup does, nor a fault.
THEOREM SetupShowsTrade == PaperSpec => StatusIfApart
  BY ApprovalInvariant, PTL DEF ApprovalInv, StatusIfApart

\* Only two reviews of one setup under way at once can withdraw an approval before
\* the INSERT that relies on it.
THEOREM EntriesAreApproved == PaperSpec /\ []ReviewsApart => EntryOnlyFromApproved
  <1>1. PaperInv /\ ApprovalInv /\ [PaperNext]_vars =>
          [\A s \in Setups :
             trade[s].status = "NONE" /\ trade'[s].status = "OPEN" =>
               setup[s] = "APPROVED"]_vars
    <2> SUFFICES ASSUME PaperInv, ApprovalInv, PaperNext, NEW s \in Setups,
                        trade[s].status = "NONE", trade'[s].status = "OPEN"
                 PROVE  setup[s] = "APPROVED"
      OBVIOUS
    <2>0. trade \in [Setups -> Trade]
      BY DEF PaperInv, PaperTypeOK
    <2>1. ASSUME NEW p \in Traders, InsertTrade(p) PROVE setup[s] = "APPROVED"
      <3> p \in Threads
        BY PaperTradingAssumption
      <3>1. s = job[p].setup
        BY <2>0, <2>1 DEF InsertTrade
      <3> QED
        BY <2>1, <3>1 DEF ApprovalInv, ApprovalStands, InsertTrade
    <2>2. ASSUME NEW p \in Closers, CloseTrade(p) PROVE FALSE
      <3> p \in Threads
        BY PaperTradingAssumption
      <3> DEFINE t == job[p].setup
                 new == [status |-> "CLOSED", day |-> trade[t].day, net |-> job[p].net]
      <3>1. trade' = [trade EXCEPT ![t] = new] /\ new.status = "CLOSED"
        BY <2>2 DEF CloseTrade
      <3> QED
        BY <2>0, <3>1
    <2> QED
      BY <2>1, <2>2, TradeWriters DEF PaperNext
  <1> QED
    BY ApprovalInvariant, <1>1, PTL DEF PaperSpec, EntryOnlyFromApproved

-----------------------------------------------------------------------------
(***************************************************************************)
(* The risk gate.  barred[p] only shrinks while a request is under way, so *)
(* a reason left in it when the gate decides was in force at each of the   *)
(* gate's reads.  Midnight ends the reasons of the old day, because the    *)
(* row of a day that has not begun is empty.                               *)
(***************************************************************************)
LimitReason == Reason \ {"kill_switch"}

\* No call is for a day to come, and no result is recorded for one.
DaysAhead ==
  /\ \A p \in Threads : call[p].day <= today
  /\ \A d \in Day : d > today => session[d] = EmptyRow

\* What hangs over a request shows in what the gate has read so far.
GateHasSeen ==
  \A p \in Threads :
    pc[p] = "session" =>
      /\ "kill_switch" \in barred[p] => job[p].kill
      /\ barred[p] \cap LimitReason # {} => call[p].day = today
      /\ call[p].pc = "done" => barred[p] \cap LimitReason \subseteq LimitReasons(call[p].row)

GateInv == DaysAhead /\ GateHasSeen /\ NoEntryWhileBarred

\* The kill switch is no session limit, and an empty row reaches none.
LEMMA LimitReasonsFacts ==
  /\ \A row : LimitReasons(row) \subseteq LimitReason
  /\ LimitReasons(EmptyRow) = {}
  <1>1. \A row : LimitReasons(row) \subseteq LimitReason
    BY DEF LimitReasons, LimitReason, Reason
  <1>2. LimitReasons(EmptyRow) = {}
    BY PaperTradingAssumption DEF LimitReasons, EmptyRow
  <1> QED
    BY <1>1, <1>2

\* What hangs over a request after a step: it hung over it before, or the request
\* has just come in, and it is in force.
LEMMA WatchFacts ==
  ASSUME Watch, NEW p \in Threads
  PROVE  /\ barred'[p] # {} => pc'[p] \in {"risk", "session", "recheck", "insert"}
         /\ pc[p] # "idle" => barred'[p] \subseteq barred[p]
         /\ "kill_switch" \in barred'[p] => killSwitch'
         /\ barred'[p] \cap LimitReason \subseteq LimitReasons(session'[today'])
  <1>1. barred'[p] \subseteq InForce'
    BY DEF Watch
  <1>2. /\ InForce' = KillReason(killSwitch)' \cup LimitReasons(session[today])'
        /\ LimitReasons(session[today])' = LimitReasons(session'[today'])
    BY DEF InForce, LimitReasons
  <1>3. KillReason(killSwitch)' \subseteq {"kill_switch"}
        /\ ("kill_switch" \in KillReason(killSwitch)' => killSwitch')
    BY DEF KillReason
  <1>4. "kill_switch" \notin LimitReason
    BY DEF LimitReason
  <1>5. LimitReasons(session'[today']) \subseteq LimitReason
    BY LimitReasonsFacts
  <1>6. /\ barred'[p] # {} => pc'[p] \in {"risk", "session", "recheck", "insert"}
        /\ pc[p] # "idle" => barred'[p] \subseteq barred[p]
    BY DEF Watch
  <1> QED
    BY <1>1, <1>2, <1>3, <1>4, <1>5, <1>6

LEMMA DaysAheadStep == ASSUME PaperInv, DaysAhead, Step PROVE DaysAhead'
  <1>0. /\ today \in Day /\ Day \subseteq Int /\ session \in [Day -> Row]
        /\ call \in [Threads -> Call] /\ \A p \in Threads : call[p].day \in Day
    BY DEF PaperInv, PaperTypeOK, SessionsTypeOK, Call, Day
  <1>1. ASSUME UNCHANGED <<today, session, call>> PROVE DaysAhead'
    BY <1>1 DEF DaysAhead
  <1>2. ASSUME UNCHANGED <<today, session>>, NEW p \in Threads,
               Return(p) \/ \E op \in {"get", "record"}, pnl \in Int : Begin(p, op, pnl)
        PROVE  DaysAhead'
    <2>1. \A q \in Threads : call'[q].day \in {call[q].day, today, 1}
      BY <1>0, <1>2 DEF Return, Begin, NoCall
    <2>2. 1 <= today
      BY <1>0 DEF Day
    <2>3. \A q \in Threads : call'[q].day <= today
      BY <1>0, <2>1, <2>2 DEF DaysAhead
    <2> QED
      BY <1>2, <2>3 DEF DaysAhead
  <1>3. ASSUME NEW p \in Threads, CallStep(p) PROVE DaysAhead'
    <2>1. /\ \A q \in Threads : call'[q].day = call[q].day
          /\ today' = today
      BY <1>3, CallStepFacts DEF PaperInv, PaperTypeOK
    <2>2. \A d \in Day \ {call[p].day} : session'[d] = session[d]
      BY <1>0, <1>3 DEF CallStep, LookupRow, InsertRow, ReadRow, UpdateRow, StoreError
    <2>3. call[p].day <= today
      BY DEF DaysAhead
    <2>4. \A d \in Day : d > today => d # call[p].day
      BY <1>0, <2>3
    <2> QED
      BY <2>1, <2>2, <2>4 DEF DaysAhead
  <1>4. CASE Rollover
    <2>1. today' = today + 1 /\ UNCHANGED <<session, call>>
      BY <1>4 DEF Rollover, NextDay
    <2>2. ASSUME NEW p \in Threads PROVE call[p].day <= today + 1
      <3>1. call[p].day \in Int /\ today \in Int
        BY <1>0
      <3>2. call[p].day <= today
        BY DEF DaysAhead
      <3> QED
        BY <3>1, <3>2
    <2>3. \A d \in Day : d > today + 1 => session[d] = EmptyRow
      BY <1>0 DEF DaysAhead
    <2> QED
      BY <2>1, <2>2, <2>3 DEF DaysAhead
  <1>5. ASSUME NEW p \in Traders, Execute(p) PROVE DaysAhead'
    <2> p \in Threads
      BY PaperTradingAssumption
    <2>1. CASE (\E s \in Setups : ReadSetup(p, s)) \/ RecheckSetup(p) \/ InsertTrade(p)
      BY <1>1, <2>1 DEF ReadSetup, RecheckSetup, InsertTrade, sessionVars
    <2>2. CASE ReadRiskState(p)
      BY <1>2, <2>2 DEF ReadRiskState, BeginGet
    <2>3. CASE RiskGate(p) \/ GateFails(p)
      BY <1>2, <2>3 DEF RiskGate, GateFails
    <2> QED
      BY <1>5, <2>1, <2>2, <2>3 DEF Execute
  <1>6. ASSUME NEW p \in Closers, CloseOpen(p) PROVE DaysAhead'
    <2> p \in Threads
      BY PaperTradingAssumption
    <2>1. CASE (\E net \in Pnls : FindOpen(p, net)) \/ CheckOpen(p)
      BY <1>1, <2>1 DEF FindOpen, CheckOpen, sessionVars
    <2>2. CASE CloseTrade(p)
      <3>1. job[p].net \in Int
        BY <2>2 DEF PaperInv, PaperTypeOK, Job
      <3> QED
        BY <1>2, <2>2, <3>1 DEF CloseTrade, BeginRecord
    <2>3. CASE ResultRecorded(p)
      BY <1>2, <2>3 DEF ResultRecorded
    <2> QED
      BY <1>6, <2>1, <2>2, <2>3 DEF CloseOpen
  <1>7. CASE \/ \E s \in Setups : CreateSetup(s)
             \/ \E enabled \in BOOLEAN : SetKillSwitch(enabled)
             \/ \E p \in Reviewers : Review(p)
             \/ \E p \in Threads : HandlerFails(p)
    BY <1>1, <1>7
    DEF CreateSetup, SetKillSwitch, Review, ReadReview, WriteReview, HandlerFails, sessionVars
  <1> QED
    BY <1>3, <1>4, <1>5, <1>6, <1>7 DEF Step, SessionCall

\* How a thread gets to, and stays in, the middle of the gate.
LEMMA AtSession ==
  ASSUME PaperInv, Step, NEW q \in Threads, pc'[q] = "session"
  PROVE  \/ ReadRiskState(q)
         \/ /\ pc[q] = "session" /\ job'[q] = job[q]
            /\ call'[q] = call[q] \/ CallStep(q)
            /\ today' = today \/ Rollover
  <1>0. /\ pc \in [Threads -> Pc] /\ job \in [Threads -> Job]
        /\ call \in [Threads -> Call] /\ SessionsTypeOK
    BY DEF PaperInv, PaperTypeOK, SessionsTypeOK
  <1>1. CASE \/ \E s \in Setups : CreateSetup(s)
             \/ \E enabled \in BOOLEAN : SetKillSwitch(enabled)
             \/ Rollover
    BY <1>1 DEF CreateSetup, SetKillSwitch, Rollover, NextDay, paperVars, sessionVars
  <1>2. ASSUME NEW p \in Reviewers, Review(p)
        PROVE  pc[q] = "session" /\ UNCHANGED <<job[q], call, today>>
    <2> p \in Threads
      BY PaperTradingAssumption
    <2> QED
      BY <1>0, <1>2 DEF Review, ReadReview, WriteReview, Goto, Finish, sessionVars
  <1>3. ASSUME NEW p \in Traders, Execute(p)
        PROVE  \/ ReadRiskState(q)
               \/ pc[q] = "session" /\ UNCHANGED <<job[q], call[q], today>>
    <2> p \in Threads
      BY PaperTradingAssumption
    <2>1. CASE (\E s \in Setups : ReadSetup(p, s)) \/ RecheckSetup(p) \/ InsertTrade(p)
      BY <1>0, <2>1 DEF ReadSetup, RecheckSetup, InsertTrade, Goto, Finish, sessionVars
    <2>2. CASE ReadRiskState(p)
      BY <1>0, <2>2 DEF ReadRiskState, BeginGet, Begin, Goto
    <2>3. CASE RiskGate(p) \/ GateFails(p)
      BY <1>0, <2>3 DEF RiskGate, GateFails, Return, Goto, Finish
    <2> QED
      BY <1>3, <2>1, <2>2, <2>3 DEF Execute
  <1>4. ASSUME NEW p \in Closers, CloseOpen(p)
        PROVE  pc[q] = "session" /\ UNCHANGED <<job[q], call[q], today>>
    <2> p \in Threads
      BY PaperTradingAssumption
    <2>1. CASE (\E net \in Pnls : FindOpen(p, net)) \/ CheckOpen(p)
      BY <1>0, <2>1 DEF FindOpen, CheckOpen, Goto, Finish, sessionVars
    <2>2. CASE CloseTrade(p) \/ ResultRecorded(p)
      BY <1>0, <2>2
      DEF CloseTrade, ResultRecorded, BeginRecord, Begin, Return, Goto, Finish
    <2> QED
      BY <1>4, <2>1, <2>2 DEF CloseOpen
  <1>5. ASSUME NEW p \in Threads, SessionCall(p)
        PROVE  /\ pc[q] = "session" /\ UNCHANGED <<job[q], today>>
               /\ call'[q] = call[q] \/ CallStep(q)
    BY <1>0, <1>5, CallStepFacts DEF SessionCall
  <1>6. ASSUME NEW p \in Threads, HandlerFails(p)
        PROVE  pc[q] = "session" /\ UNCHANGED <<job[q], call, today>>
    BY <1>0, <1>6 DEF HandlerFails, Finish, sessionVars
  <1> QED
    BY <1>1, <1>2, <1>3, <1>4, <1>5, <1>6 DEF Step

\* A thread that the gate has let through was let through by RiskGate.
LEMMA PastGate ==
  ASSUME PaperInv, Step, NEW q \in Threads, pc'[q] \in {"recheck", "insert"}
  PROVE  \/ pc[q] = "session" /\ call[q].pc = "done" /\ GateApproves(q)
         \/ pc[q] \in {"recheck", "insert"}
  <1>0. pc \in [Threads -> Pc]
    BY DEF PaperInv, PaperTypeOK
  <1>1. CASE UNCHANGED pc
    BY <1>1
  <1>2. ASSUME NEW p \in Threads, UNCHANGED pc \/ Finish(p) PROVE pc'[q] \in {"idle", pc[q]}
    BY <1>0, <1>2 DEF Finish
  <1>3. ASSUME NEW p \in Threads, NEW next \in Pc \ {"recheck", "insert"}, Goto(p, next)
        PROVE  p # q /\ pc'[q] = pc[q]
    BY <1>0, <1>3 DEF Goto
  <1>4. CASE (\E s \in Setups : CreateSetup(s)) \/ (\E on \in BOOLEAN : SetKillSwitch(on)) \/ Rollover
    BY <1>1, <1>4 DEF CreateSetup, SetKillSwitch, Rollover, paperVars
  <1>5. ASSUME NEW p \in Reviewers, Review(p) PROVE pc[q] \in {"recheck", "insert"}
    BY <1>2, <1>3, <1>5, PaperTradingAssumption DEF Review, ReadReview, WriteReview, Pc
  <1>6. ASSUME NEW p \in Closers, CloseOpen(p) PROVE pc[q] \in {"recheck", "insert"}
    BY <1>2, <1>3, <1>6, PaperTradingAssumption
    DEF CloseOpen, FindOpen, CheckOpen, CloseTrade, ResultRecorded, Pc
  <1>7. ASSUME NEW p \in Threads, SessionCall(p) \/ HandlerFails(p)
        PROVE  pc[q] \in {"recheck", "insert"}
    BY <1>2, <1>7 DEF SessionCall, HandlerFails
  <1>8. ASSUME NEW p \in Traders, Execute(p)
        PROVE  \/ pc[q] = "session" /\ call[q].pc = "done" /\ GateApproves(q)
               \/ pc[q] \in {"recheck", "insert"}
    <2> p \in Threads
      BY PaperTradingAssumption
    <2>1. CASE (\E s \in Setups : ReadSetup(p, s)) \/ ReadRiskState(p)
      BY <1>3, <2>1 DEF ReadSetup, ReadRiskState, Pc
    <2>2. CASE RiskGate(p)
      BY <1>0, <1>2, <2>2 DEF RiskGate, Goto
    <2>3. CASE GateFails(p) \/ InsertTrade(p)
      BY <1>2, <2>3 DEF GateFails, InsertTrade
    <2>4. CASE RecheckSetup(p)
      BY <1>0, <1>2, <2>4 DEF RecheckSetup, Goto
    <2> QED
      BY <1>8, <2>1, <2>2, <2>3, <2>4 DEF Execute
  <1> QED
    BY <1>1, <1>4, <1>5, <1>6, <1>7, <1>8 DEF Step

\* get_session_dict returns the row as it is then.
LEMMA GetReturnsRow ==
  ASSUME SessionsTypeOK, CallsMakeSense, NEW p \in Threads, CallStep(p),
         call[p].op = "get", call'[p].pc = "done"
  PROVE  call'[p].row = session'[call[p].day]
  BY DEF CallStep, LookupRow, InsertRow, ReadRow, UpdateRow, StoreError, RowAvailable,
         SessionsTypeOK, Call, CallsMakeSense

LEMMA GateStep ==
  ASSUME PaperInv, GateInv, Step, Watch, DaysAhead' PROVE GateInv'
  <1> USE DEF GateInv
  <1>1. GateHasSeen'
    <2> SUFFICES ASSUME NEW q \in Threads, pc'[q] = "session"
                 PROVE  /\ "kill_switch" \in barred'[q] => job'[q].kill
                        /\ barred'[q] \cap LimitReason # {} => call'[q].day = today'
                        /\ call'[q].pc = "done" =>
                             barred'[q] \cap LimitReason \subseteq LimitReasons(call'[q].row)
      BY DEF GateHasSeen, LimitReasons
    <2>0. /\ job \in [Threads -> Job] /\ call \in [Threads -> Call]
          /\ SessionsTypeOK /\ CallsMakeSense /\ today \in Day
      BY DEF PaperInv, PaperTypeOK, SessionsInv, SessionsTypeOK
    <2>1. CASE ReadRiskState(q)
      <3>1. job'[q].kill = killSwitch' /\ call'[q].pc = "lookup" /\ call'[q].day = today'
        BY <2>0, <2>1 DEF ReadRiskState, tables, BeginGet, Begin, Job
      <3> QED
        BY <3>1, WatchFacts
    <2>2. CASE /\ pc[q] = "session" /\ job'[q] = job[q]
               /\ call'[q] = call[q] \/ CallStep(q)
               /\ today' = today \/ Rollover
      <3>1. /\ barred'[q] \subseteq barred[q]
            /\ barred'[q] \cap LimitReason \subseteq LimitReasons(session'[today'])
        BY <2>2, WatchFacts
      <3>2. call'[q].day = call[q].day
        BY <2>0, <2>2, CallStepFacts
      <3>3. CASE barred'[q] \cap LimitReason = {}
        BY <2>2, <3>1, <3>3 DEF GateHasSeen
      <3>4. CASE barred'[q] \cap LimitReason # {}
        <4>1. call[q].day = today
          BY <2>2, <3>1, <3>4 DEF GateHasSeen
        <4>2. today' = today
          <5>1. ASSUME Rollover PROVE FALSE
            <6>1. today' = today + 1 /\ session' = session /\ today + 1 \in Day
              BY <2>0, <5>1, SessionsAssumption DEF Rollover, NextDay, Day
            <6>2. session'[today'] = EmptyRow
              BY <2>0, <6>1 DEF DaysAhead, Day
            <6> QED
              BY <3>1, <3>4, <6>2, LimitReasonsFacts
          <5> QED
            BY <2>2, <5>1
        <4>3. call'[q].pc = "done" =>
                barred'[q] \cap LimitReason \subseteq LimitReasons(call'[q].row)
          <5>1. CASE call'[q] = call[q]
            BY <2>2, <3>1, <5>1 DEF GateHasSeen
          <5>2. CASE CallStep(q)
            <6>1. call[q].op = "get"
              BY <2>2 DEF PaperInv, HandlerInCall
            <6>2. call'[q].pc = "done" => call'[q].row = session'[today']
              BY <2>0, <4>1, <4>2, <5>2, <6>1, GetReturnsRow
            <6> QED
              BY <3>1, <6>2
          <5> QED
            BY <2>2, <5>1, <5>2
        <4> QED
          BY <2>2, <3>1, <3>2, <4>1, <4>2, <4>3 DEF GateHasSeen
      <3> QED
        BY <3>3, <3>4
    <2> QED
      BY <2>1, <2>2, AtSession
  <1>2. NoEntryWhileBarred'
    <2> SUFFICES ASSUME NEW q \in Threads, pc'[q] \in {"recheck", "insert"}
                 PROVE  barred'[q] = {}
      BY DEF NoEntryWhileBarred
    <2>0. barred[q] \subseteq Reason
      BY DEF PaperInv, PaperTypeOK
    <2>1. CASE pc[q] = "session" /\ call[q].pc = "done" /\ GateApproves(q)
      <3>1. "kill_switch" \notin barred[q] /\ barred[q] \cap LimitReason = {}
        BY <2>1 DEF GateHasSeen, GateApproves, KillReason
      <3>2. barred[q] = {}
        BY <2>0, <3>1 DEF LimitReason
      <3> QED
        BY <2>1, <3>2, WatchFacts
    <2>2. CASE pc[q] \in {"recheck", "insert"}
      BY <2>2, WatchFacts DEF NoEntryWhileBarred
    <2> QED
      BY <2>1, <2>2, PastGate
  <1> QED
    BY <1>1, <1>2

LEMMA GateInvariant == PaperSpec => [](PaperInv /\ GateInv)
  <1>1. PaperInit => GateInv
    <2> SUFFICES ASSUME PaperInit PROVE GateInv
      OBVIOUS
    <2>1. DaysAhead
      BY DEF PaperInit, SessionsInit, NoCall, DaysAhead
    <2> QED
      BY <2>1 DEF PaperInit, GateInv, GateHasSeen, NoEntryWhileBarred
  <1>2. PaperInv /\ GateInv /\ [PaperNext]_vars => GateInv'
    <2> SUFFICES ASSUME PaperInv, GateInv, [PaperNext]_vars PROVE GateInv'
      OBVIOUS
    <2>1. CASE PaperNext
      BY <2>1, DaysAheadStep, GateStep DEF PaperNext, GateInv
    <2>2. CASE UNCHANGED vars
      BY <2>2
      DEF vars, sessionVars, paperVars, GateInv, DaysAhead, GateHasSeen, NoEntryWhileBarred,
          LimitReasons
    <2> QED
      BY <2>1, <2>2
  <1> QED
    BY PaperInvariant, <1>1, <1>2, PTL DEF PaperSpec

\* The gate never lets a request through over which one and the same reason has
\* hung since it came in, however its reads interleave with other threads.
THEOREM GateRespectsBars == PaperSpec => []NoEntryWhileBarred
  BY GateInvariant, PTL DEF GateInv

-----------------------------------------------------------------------------
(***************************************************************************)
(* The session behind the ledger.  A thread is counting from the commit of *)
(* its close to the UPDATE of the session, or to the exception that keeps  *)
(* it from it; the close has been added to closes by then, and the UPDATE  *)
(* that adds one to counted takes the thread out of Counting.              *)
(***************************************************************************)
IsCounting(p) == pc[p] = "record" /\ call[p].pc \notin {"done", "failed"}

BehindInv ==
  \A s \in Setups :
    /\ IsFiniteSet(Counting(s))
    /\ counted[s] + Cardinality(Counting(s)) <= closes[s]

\* A step of a thread that is not counting, neither before nor after it.
LEMMA BehindKept ==
  ASSUME BehindInv, UNCHANGED <<closes, counted>>, NEW p,
         \A q \in Threads \ {p} :
           pc'[q] = pc[q] /\ call'[q] = call[q] /\ job'[q] = job[q],
         p \in Threads => ~IsCounting(p) /\ ~IsCounting(p)'
  PROVE  BehindInv'
  <1>1. ASSUME NEW s \in Setups PROVE Counting(s)' = Counting(s)
    BY DEF Counting, IsCounting
  <1> QED
    BY <1>1 DEF BehindInv

\* Only these two actions enter or leave "record" with a result uncounted.
LEMMA BehindOthers ==
  ASSUME PaperInv, BehindInv, Step,
         ~\E p \in Closers : CloseTrade(p), ~\E p \in Threads : SessionCall(p)
  PROVE  BehindInv'
  <1>0. /\ pc \in [Threads -> Pc] /\ job \in [Threads -> Job] /\ call \in [Threads -> Call]
        /\ Reviewers \subseteq Threads /\ Traders \subseteq Threads /\ Closers \subseteq Threads
    BY PaperTradingAssumption DEF PaperInv, PaperTypeOK, SessionsTypeOK
  <1>1. CASE \/ \E s \in Setups : CreateSetup(s)
             \/ \E enabled \in BOOLEAN : SetKillSwitch(enabled)
             \/ Rollover
    <2>1. UNCHANGED <<pc, job, call, closes, counted>>
      BY <1>1
      DEF CreateSetup, SetKillSwitch, Rollover, NextDay, paperVars, sessionVars, history
    <2> QED
      BY <2>1 DEF BehindInv, Counting
  <1>2. ASSUME NEW p \in Reviewers, Review(p) PROVE BehindInv'
    BY <1>0, <1>2, BehindKept
    DEF Review, ReadReview, WriteReview, Goto, Finish, sessionVars, history, IsCounting
  <1>3. ASSUME NEW p \in Traders, Execute(p) PROVE BehindInv'
    <2>1. CASE (\E s \in Setups : ReadSetup(p, s)) \/ RecheckSetup(p) \/ InsertTrade(p)
      BY <1>0, <2>1, BehindKept
      DEF ReadSetup, RecheckSetup, InsertTrade, Goto, Finish, sessionVars, history, IsCounting
    <2>2. CASE ReadRiskState(p)
      BY <1>0, <2>2, BehindKept
      DEF ReadRiskState, BeginGet, Begin, Goto, history, IsCounting
    <2>3. CASE RiskGate(p) \/ GateFails(p)
      BY <1>0, <2>3, BehindKept
      DEF RiskGate, GateFails, Return, Goto, Finish, history, IsCounting
    <2> QED
      BY <1>3, <2>1, <2>2, <2>3 DEF Execute
  <1>4. ASSUME NEW p \in Closers, CloseOpen(p) PROVE BehindInv'
    <2>1. CASE (\E net \in Pnls : FindOpen(p, net)) \/ CheckOpen(p)
      BY <1>0, <2>1, BehindKept
      DEF FindOpen, CheckOpen, Goto, Finish, sessionVars, history, IsCounting
    <2>2. CASE ResultRecorded(p)
      BY <1>0, <2>2, BehindKept DEF ResultRecorded, Return, Finish, history, IsCounting
    <2> QED
      BY <1>4, <2>1, <2>2 DEF CloseOpen
  <1>5. ASSUME NEW p \in Threads, HandlerFails(p) PROVE BehindInv'
    BY <1>0, <1>5, BehindKept DEF HandlerFails, Finish, sessionVars, history, IsCounting
  <1> QED
    BY <1>1, <1>2, <1>3, <1>4, <1>5 DEF Step

LEMMA BehindClose ==
  ASSUME PaperInv, BehindInv, NEW p \in Threads, CloseTrade(p) PROVE BehindInv'
  <1>0. /\ pc \in [Threads -> Pc] /\ call \in [Threads -> Call]
        /\ closes \in [Setups -> Nat] /\ counted \in [Setups -> Nat]
        /\ job[p].setup \in Setups
    BY DEF PaperInv, PaperTypeOK, SessionsTypeOK, CloseTrade
  <1> PICK s \in Setups : s = job[p].setup
    BY <1>0
  <1>1. /\ pc' = [pc EXCEPT ![p] = "record"] /\ UNCHANGED <<job, counted>>
        /\ closes' = [closes EXCEPT ![s] = closes[s] + 1]
        /\ call'[p].pc = "lookup" /\ \A q \in Threads \ {p} : call'[q] = call[q]
        /\ pc[p] = "close"
    BY <1>0 DEF CloseTrade, Goto, BeginRecord, Begin
  <1>2. Counting(s)' = Counting(s) \cup {p} /\ p \notin Counting(s)
    BY <1>0, <1>1 DEF Counting
  <1>3. ASSUME NEW u \in Setups, u # s PROVE Counting(u)' = Counting(u)
    BY <1>0, <1>1, <1>3 DEF Counting
  <1>4. /\ IsFiniteSet(Counting(s)') /\ Cardinality(Counting(s)) \in Nat
        /\ Cardinality(Counting(s)') = Cardinality(Counting(s)) + 1
    BY <1>0, <1>2, FS_AddElement, FS_CardinalityType DEF BehindInv
  <1>5. counted[s] + Cardinality(Counting(s)) <= closes[s]
    BY <1>0 DEF BehindInv
  <1>6. closes'[s] = closes[s] + 1 /\ counted'[s] = counted[s]
    BY <1>0, <1>1
  <1>7. /\ IsFiniteSet(Counting(s)')
        /\ counted'[s] + Cardinality(Counting(s)') <= closes'[s]
    BY <1>0, <1>4, <1>5, <1>6
  <1>8. ASSUME NEW u \in Setups, u # s
        PROVE  IsFiniteSet(Counting(u)') /\ counted'[u] + Cardinality(Counting(u)') <= closes'[u]
    <2>1. closes'[u] = closes[u] /\ counted'[u] = counted[u]
      BY <1>0, <1>1, <1>8
    <2> QED
      BY <1>3, <1>8, <2>1 DEF BehindInv
  <1> QED
    BY <1>7, <1>8 DEF BehindInv

LEMMA BehindCall ==
  ASSUME PaperInv, BehindInv, NEW p \in Threads, SessionCall(p) PROVE BehindInv'
  <1>0. /\ SessionsTypeOK /\ call \in [Threads -> Call] /\ results \in [Day -> Seq(Pnls)]
        /\ closes \in [Setups -> Nat] /\ counted \in [Setups -> Nat]
        /\ CallStep(p) /\ UNCHANGED <<pc, job, closes>>
    BY DEF PaperInv, PaperTypeOK, SessionsTypeOK, SessionCall
  <1>1. /\ call[p].pc \notin {"none", "done", "failed"}
        /\ \A q \in Threads \ {p} : call'[q] = call[q]
    BY <1>0, CallStepFacts
  <1>2. CASE UNCHANGED counted
    <2>1. \A u \in Setups : Counting(u)' \subseteq Counting(u)
      BY <1>0, <1>1 DEF Counting
    <2>2. ASSUME NEW u \in Setups
          PROVE  IsFiniteSet(Counting(u)') /\ counted'[u] + Cardinality(Counting(u)') <= closes'[u]
      <3>1. /\ IsFiniteSet(Counting(u)) /\ counted[u] + Cardinality(Counting(u)) <= closes[u]
            /\ Counting(u)' \subseteq Counting(u)
        BY <2>1 DEF BehindInv
      <3>2. /\ IsFiniteSet(Counting(u)')
            /\ Cardinality(Counting(u)') <= Cardinality(Counting(u))
            /\ Cardinality(Counting(u)') \in Nat /\ Cardinality(Counting(u)) \in Nat
        BY <3>1, FS_Subset, FS_CardinalityType
      <3> QED
        BY <1>0, <1>2, <3>1, <3>2
    <2> QED
      BY <2>2 DEF BehindInv
  <1>3. CASE ~UNCHANGED counted
    <2>1. PICK s \in Setups :
            /\ s = job[p].setup /\ pc[p] = "record" /\ results' # results
            /\ counted' = [counted EXCEPT ![s] = counted[s] + 1]
      BY <1>3 DEF SessionCall, PaperInv, PaperTypeOK
    <2>3. call'[p].pc = "done"
      BY <1>0, <2>1 DEF CallStep, LookupRow, InsertRow, ReadRow, UpdateRow, StoreError, Call
    <2>4. p \in Counting(s) /\ Counting(s)' = Counting(s) \ {p}
      BY <1>0, <1>1, <2>1, <2>3 DEF Counting
    <2>5. ASSUME NEW u \in Setups, u # s PROVE Counting(u)' = Counting(u)
      BY <1>0, <1>1, <2>1, <2>5 DEF Counting
    <2>6. /\ IsFiniteSet(Counting(s)') /\ Cardinality(Counting(s)) \in Nat
          /\ Cardinality(Counting(s)') = Cardinality(Counting(s)) - 1
      BY <2>4, FS_RemoveElement, FS_CardinalityType DEF BehindInv
    <2>7. counted[s] + Cardinality(Counting(s)) <= closes[s] /\ counted'[s] = counted[s] + 1
      BY <1>0, <2>1 DEF BehindInv
    <2>8. /\ IsFiniteSet(Counting(s)')
          /\ counted'[s] + Cardinality(Counting(s)') <= closes'[s]
      BY <1>0, <2>6, <2>7
    <2>9. ASSUME NEW u \in Setups, u # s
          PROVE  /\ IsFiniteSet(Counting(u)')
                 /\ counted'[u] + Cardinality(Counting(u)') <= closes'[u]
      <3>1. closes'[u] = closes[u] /\ counted'[u] = counted[u]
        BY <1>0, <2>1, <2>9
      <3> QED
        BY <2>5, <2>9, <3>1 DEF BehindInv
    <2> QED
      BY <2>8, <2>9 DEF BehindInv
  <1> QED
    BY <1>2, <1>3

\* Through all races and faults, double closes included, the session never counts
\* more results of a paper trade than there were closes of it.
THEOREM SessionStaysBehind == PaperSpec => []SessionBehindLedger
  <1>1. PaperInit => BehindInv
    <2> SUFFICES ASSUME PaperInit, NEW s \in Setups
                 PROVE  /\ IsFiniteSet(Counting(s))
                        /\ counted[s] + Cardinality(Counting(s)) <= closes[s]
      BY DEF BehindInv
    <2>1. Counting(s) = {} /\ counted[s] = 0 /\ closes[s] = 0
      BY DEF PaperInit, Counting
    <2> QED
      BY <2>1, FS_EmptySet
  <1>2. PaperInv /\ BehindInv /\ [PaperNext]_vars => BehindInv'
    <2> SUFFICES ASSUME PaperInv, BehindInv, [PaperNext]_vars PROVE BehindInv'
      OBVIOUS
    <2>1. CASE Step
      BY <2>1, BehindOthers, BehindClose, BehindCall, PaperTradingAssumption
    <2>2. CASE UNCHANGED vars
      BY <2>2 DEF vars, sessionVars, paperVars, BehindInv, Counting
    <2> QED
      BY <2>1, <2>2 DEF PaperNext
  <1>3. BehindInv => SessionBehindLedger
    BY DEF BehindInv, SessionBehindLedger
  <1> QED
    BY PaperInvariant, <1>1, <1>2, <1>3, PTL DEF PaperSpec
-----------------------------------------------------------------------------
(***************************************************************************)
(* When the counters can be relied upon.  Any number of threads trade and  *)
(* close, store calls raise, days end at any step; the theorems of this    *)
(* section name the overlaps of two handlers, and the failures, that must  *)
(* not happen for a promise of the lifecycle to hold.  Each of them is a   *)
(* property of the states alone, so it says where a lock would be needed.  *)
(***************************************************************************)

\* A step of thread p that leaves the tables alone and is not one of a store call.
Move(p) ==
  /\ UNCHANGED <<today, session, results, trade, counted>>
  /\ \A q \in Threads \ {p} : pc'[q] = pc[q] /\ job'[q] = job[q] /\ call'[q] = call[q]
  /\ pc[p] = "record" => call[p].pc \in {"done", "failed"}
  /\ pc'[p] # "record"
  /\ pc'[p] = "close" => IsOpen(job'[p].setup)
  /\ pc'[p] = "session" => call'[p].day = today
  /\ pc'[p] = "recheck" => pc[p] = "session" /\ call[p].pc = "done" /\ GateApproves(p)
  /\ pc'[p] = "insert" => pc[p] = "recheck"
  /\ call'[p].pc \in {"none", "lookup"}

\* A step that none of the invariants below can see.
Unseen == UNCHANGED <<today, session, results, call, trade, pc, job, counted>>

\* The steps of the lifecycle, as far as the tables and the counters go.
LEMMA StepKinds ==
  ASSUME PaperInv, Step
  PROVE  \/ Rollover
         \/ Unseen
         \/ \E p \in Threads : Move(p)
         \/ \E p \in Threads : InsertTrade(p) /\ ~UNCHANGED trade
         \/ \E p \in Threads : CloseTrade(p)
         \/ \E p \in Threads : SessionCall(p)
  <1>0. /\ pc \in [Threads -> Pc] /\ job \in [Threads -> Job] /\ call \in [Threads -> Call]
        /\ Reviewers \subseteq Threads /\ Traders \subseteq Threads /\ Closers \subseteq Threads
        /\ HandlerInCall
    BY PaperTradingAssumption DEF PaperInv, PaperTypeOK, SessionsTypeOK
  <1>1. CASE (\E s \in Setups : CreateSetup(s)) \/ (\E on \in BOOLEAN : SetKillSwitch(on))
    BY <1>1 DEF CreateSetup, SetKillSwitch, sessionVars, history, Unseen
  <1>2. ASSUME NEW p \in Reviewers, Review(p) PROVE Move(p)
    BY <1>0, <1>2
    DEF Move, HandlerInCall, Review, ReadReview, WriteReview, Goto, Finish, sessionVars, tables,
        history
  <1>3. ASSUME NEW p \in Traders, Execute(p)
        PROVE  Move(p) \/ (InsertTrade(p) /\ ~UNCHANGED trade)
    <2>0. p \in Threads
      BY <1>0
    <2>1. CASE \E s \in Setups : ReadSetup(p, s)
      BY <1>0, <2>0, <2>1
      DEF Move, HandlerInCall, ReadSetup, Goto, sessionVars, tables, history
    <2>2. CASE ReadRiskState(p)
      BY <1>0, <2>0, <2>2
      DEF Move, HandlerInCall, ReadRiskState, BeginGet, Begin, Goto, tables, history
    <2>3. CASE RiskGate(p)
      BY <1>0, <2>0, <2>3
      DEF Move, RiskGate, Return, NoCall, Goto, Finish, tables, history
    <2>4. CASE GateFails(p)
      BY <1>0, <2>0, <2>4 DEF Move, GateFails, Return, NoCall, Finish, tables, history
    <2>5. CASE RecheckSetup(p)
      BY <1>0, <2>0, <2>5
      DEF Move, HandlerInCall, RecheckSetup, Goto, Finish, sessionVars, tables, history
    <2>6. CASE InsertTrade(p) /\ UNCHANGED trade
      BY <1>0, <2>0, <2>6
      DEF Move, HandlerInCall, InsertTrade, Finish, sessionVars, history
    <2> QED
      BY <1>3, <2>1, <2>2, <2>3, <2>4, <2>5, <2>6 DEF Execute
  <1>4. ASSUME NEW p \in Closers, CloseOpen(p) PROVE Move(p) \/ CloseTrade(p)
    <2>0. p \in Threads
      BY <1>0
    <2>1. CASE \E net \in Pnls : FindOpen(p, net)
      BY <1>0, <2>0, <2>1
      DEF Move, HandlerInCall, FindOpen, Goto, sessionVars, tables, history
    <2>2. CASE CheckOpen(p)
      BY <1>0, <2>0, <2>2
      DEF Move, HandlerInCall, CheckOpen, Goto, Finish, sessionVars, tables, history
    <2>3. CASE ResultRecorded(p)
      BY <1>0, <2>0, <2>3 DEF Move, ResultRecorded, Return, NoCall, Finish, tables, history
    <2> QED
      BY <1>4, <2>1, <2>2, <2>3 DEF CloseOpen
  <1>5. ASSUME NEW p \in Threads, HandlerFails(p) PROVE Move(p)
    BY <1>0, <1>5
    DEF Move, HandlerInCall, HandlerFails, Finish, sessionVars, tables, history
  <1> QED
    BY <1>0, <1>1, <1>2, <1>3, <1>4, <1>5 DEF Step

\* A step of a store call of thread p that changes no row.
Looks(p) ==
  /\ UNCHANGED <<session, results, counted>>
  /\ call'[p].pnl = call[p].pnl
  /\ pc[p] = "record" => call'[p].pc # "done"
  /\ pc[p] = "session" /\ call'[p].pc = "done" => call'[p].row = session[call[p].day]

\* The step that changes one: the UPDATE with the result of a close.
Counts(p) ==
  /\ pc[p] = "record" /\ call'[p].pc = "done" /\ call'[p].pnl = call[p].pnl
  /\ call[p].pnl \in Pnls
  /\ session' = [session EXCEPT
       ![call[p].day] = UpdatedRow(session[call[p].day], call[p].row, call[p].pnl)]
  /\ results' = [results EXCEPT
       ![call[p].day] = Append(results[call[p].day], call[p].pnl)]
  /\ counted' = [counted EXCEPT ![job[p].setup] = counted[job[p].setup] + 1]

LEMMA CallKinds ==
  ASSUME PaperInv, NEW p \in Threads, SessionCall(p)
  PROVE  /\ UNCHANGED <<today, trade, pc, job>>
         /\ \A q \in Threads \ {p} : call'[q] = call[q]
         /\ pc[p] \in {"session", "record"}
         /\ call[p].pc \notin {"none", "done", "failed"}
         /\ call'[p].day = call[p].day
         /\ Looks(p) \/ Counts(p)
  <1>0. /\ SessionsInv /\ SessionsTypeOK /\ CallsMakeSense /\ EmptyRows
        /\ CallStep(p) /\ UNCHANGED <<tables, pc, job>>
        /\ call \in [Threads -> Call] /\ session \in [Day -> Row]
        /\ results \in [Day -> Seq(Pnls)] /\ call[p].day \in Day
    BY DEF PaperInv, SessionsInv, SessionsTypeOK, SessionCall, Call
  <1>1. /\ call[p].pc \notin {"none", "done", "failed"}
        /\ call'[p].day = call[p].day /\ today' = today
        /\ \A q \in Threads \ {p} : call'[q] = call[q]
    BY <1>0, CallStepFacts
  <1>2. \/ pc[p] = "session" /\ call[p].op = "get"
        \/ pc[p] = "record" /\ call[p].op = "record"
    BY <1>1 DEF PaperInv, HandlerInCall
  <1>3. CASE UpdateRow(p)
    <2>1. pc[p] = "record" /\ call[p].pnl \in Pnls
      BY <1>0, <1>2, <1>3 DEF UpdateRow, CallsMakeSense
    <2>2. /\ session' = [session EXCEPT
               ![call[p].day] = UpdatedRow(session[call[p].day], call[p].row, call[p].pnl)]
          /\ results' = [results EXCEPT
               ![call[p].day] = Append(results[call[p].day], call[p].pnl)]
          /\ call'[p].pc = "done" /\ call'[p].pnl = call[p].pnl
      BY <1>0, <1>3 DEF UpdateRow, Call
    <2>3. results' # results
      <3>1. Len(Append(results[call[p].day], call[p].pnl)) = Len(results[call[p].day]) + 1
        BY <1>0, <2>1
      <3>2. Len(results[call[p].day]) \in Nat
        BY <1>0
      <3> QED
        BY <1>0, <2>2, <3>1, <3>2
    <2>4. counted' = [counted EXCEPT ![job[p].setup] = counted[job[p].setup] + 1]
      BY <2>1, <2>3 DEF SessionCall
    <2> QED
      BY <1>0, <1>1, <1>2, <2>1, <2>2, <2>4 DEF Counts, tables
  <1>4. CASE LookupRow(p) \/ InsertRow(p) \/ ReadRow(p) \/ StoreError(p)
    <2>1. UNCHANGED <<session, results>>
      BY <1>0, <1>4 DEF LookupRow, InsertRow, ReadRow, StoreError, EmptyRows, Call
    <2>2. UNCHANGED counted
      BY <2>1 DEF SessionCall
    <2>3. call'[p].pnl = call[p].pnl /\ (pc[p] = "record" => call'[p].pc # "done")
      BY <1>0, <1>2, <1>4 DEF LookupRow, InsertRow, ReadRow, StoreError, RowAvailable, Call
    <2>4. pc[p] = "session" /\ call'[p].pc = "done" => call'[p].row = session[call[p].day]
      BY <1>0, <1>2, <2>1, GetReturnsRow
    <2> QED
      BY <1>0, <1>1, <1>2, <2>1, <2>2, <2>3, <2>4 DEF Looks, tables
  <1> QED
    BY <1>0, <1>3, <1>4 DEF CallStep

(***************************************************************************)
(* The ledger.  Booked are the trades that the session has counted; if two *)
(* threads never close the same trade and every result gets counted, they  *)
(* are the closed ones but for those being counted, once each.             *)
(***************************************************************************)
ClosesOpen == \A p \in Threads : pc[p] = "close" => IsOpen(job[p].setup)

\* A recording thread counts what it has just written, and no other does.
RecordsClosed ==
  \A p \in Threads :
    pc[p] = "record" =>
      /\ trade[job[p].setup].status = "CLOSED"
      /\ trade[job[p].setup].net = call[p].pnl
      /\ \A q \in Threads : pc[q] = "record" /\ job[q].setup = job[p].setup => q = p

CountedOnce ==
  \A s \in Setups :
    counted[s] = IF \/ trade[s].status # "CLOSED"
                    \/ \E p \in Threads : IsCounting(p) /\ job[p].setup = s
                 THEN 0 ELSE 1

Booked == {s \in Setups : counted[s] # 0}

SessionPnl == SumFunction([d \in Day |-> session[d].daily_pnl])
BookedPnl == SumFunction([s \in Booked |-> trade[s].net])

PnlBooked == IsFiniteSet(Booked) /\ SessionPnl = BookedPnl

BookedInv == ClosesOpen /\ RecordsClosed /\ CountedOnce /\ PnlBooked

LEMMA BookedInit == PaperInit => BookedInv
  <1> SUFFICES ASSUME PaperInit PROVE BookedInv
    OBVIOUS
  <1>1. SessionsInit /\ Booked = {}
    BY DEF PaperInit, Booked
  <1>2. ClosesOpen /\ RecordsClosed /\ CountedOnce
    BY DEF PaperInit, ClosesOpen, RecordsClosed, CountedOnce, NoTrade
  <1>3. SessionPnl = 0
    <2> DEFINE f == [d \in Day |-> session[d].daily_pnl]
    <2>1. (\A d \in Day : f[d] = 0) /\ DOMAIN f = Day
      BY <1>1 DEF SessionsInit, EmptyRow
    <2>2. IsFiniteSet(Day)
      BY SessionsAssumption, FS_Interval DEF Day
    <2> HIDE DEF f
    <2>3. SumFunctionOnSet(f, Day) = 0
      BY <2>1, <2>2, SumZero
    <2> QED
      BY <2>1, <2>3 DEF SessionPnl, SumFunction, f
  <1>4. BookedPnl = 0
    <2> DEFINE f == [s \in Booked |-> trade[s].net]
    <2>1. DOMAIN f = {}
      BY <1>1
    <2> HIDE DEF f
    <2>2. SumFunctionOnSet(f, {}) = 0
      BY SumEmpty
    <2> QED
      BY <2>1, <2>2 DEF BookedPnl, SumFunction, f
  <1> QED
    BY <1>1, <1>2, <1>3, <1>4, FS_EmptySet DEF BookedInv, PnlBooked

\* The trades that are booked, and the sum of the sessions, stay as they are.
LEMMA BookedSame ==
  ASSUME PaperInv, PnlBooked, UNCHANGED <<session, counted>>,
         \A s \in Setups : counted[s] # 0 => trade'[s].net = trade[s].net
  PROVE  PnlBooked'
  <1> DEFINE f == [s \in Booked |-> trade[s].net]
             g == [s \in Booked' |-> trade'[s].net]
  <1>1. Booked' = Booked /\ SessionPnl' = SessionPnl
    BY DEF Booked, SessionPnl
  <1>2. f = g
    BY <1>1 DEF Booked
  <1>3. BookedPnl' = SumFunction(g) /\ BookedPnl = SumFunction(f)
    BY DEF BookedPnl
  <1> QED
    BY <1>1, <1>2, <1>3 DEF PnlBooked

LEMMA BookedMove ==
  ASSUME PaperInv, BookedInv, NEW p \in Threads, Move(p) PROVE BookedInv'
  <1> USE DEF BookedInv
  <1>1. ~IsCounting(p) /\ ~IsCounting(p)'
    BY DEF Move, IsCounting
  <1>2. \A q \in Threads \ {p} : IsCounting(q)' <=> IsCounting(q)
    BY DEF Move, IsCounting
  <1>3. ClosesOpen' /\ RecordsClosed'
    BY DEF Move, ClosesOpen, RecordsClosed, IsOpen
  <1>4. CountedOnce'
    BY <1>1, <1>2 DEF Move, CountedOnce
  <1> QED
    BY <1>3, <1>4, BookedSame DEF Move

LEMMA BookedInsert ==
  ASSUME PaperInv, BookedInv, NEW p \in Threads, InsertTrade(p), ~UNCHANGED trade
  PROVE  BookedInv'
  <1> DEFINE s == job[p].setup
  <1>0. /\ s \in Setups /\ pc \in [Threads -> Pc] /\ job \in [Threads -> Job]
        /\ trade \in [Setups -> Trade]
    BY DEF PaperInv, PaperTypeOK, InsertTrade
  <1>1. /\ UNCHANGED <<session, call, counted>>
        /\ pc[p] = "insert" /\ pc'[p] = "idle"
        /\ \A q \in Threads \ {p} : pc'[q] = pc[q] /\ job'[q] = job[q]
    BY <1>0 DEF InsertTrade, Finish, sessionVars, history
  <1>2. /\ trade[s].status = "NONE" /\ trade'[s].status = "OPEN"
        /\ \A t \in Setups \ {s} : trade'[t] = trade[t]
    BY <1>0 DEF InsertTrade, Unique
  <1>3. \A q \in Threads : IsCounting(q)' <=> IsCounting(q)
    BY <1>1 DEF IsCounting
  <1>4. \A q \in Threads \ {p} : pc[q] \in {"close", "record"} => job[q].setup \in Setups \ {s}
    BY <1>2 DEF BookedInv, ClosesOpen, RecordsClosed, IsOpen, PaperInv, PaperTypeOK
  <1>5. ClosesOpen' /\ RecordsClosed'
    BY <1>1, <1>2, <1>4 DEF BookedInv, ClosesOpen, RecordsClosed, IsOpen
  <1>6. CountedOnce'
    <2> SUFFICES ASSUME NEW t \in Setups
                 PROVE  counted[t] = IF \/ trade'[t].status # "CLOSED"
                                        \/ \E q \in Threads : IsCounting(q) /\ job[q].setup = t
                                     THEN 0 ELSE 1
      BY <1>1, <1>3 DEF CountedOnce, IsCounting
    <2> QED
      BY <1>2 DEF BookedInv, CountedOnce
  <1>7. \A t \in Setups : counted[t] # 0 => trade'[t].net = trade[t].net
    BY <1>2 DEF BookedInv, CountedOnce
  <1> QED
    BY <1>1, <1>5, <1>6, <1>7, BookedSame DEF BookedInv

LEMMA BookedClose ==
  ASSUME PaperInv, BookedInv, ClosesApart, NEW p \in Threads, CloseTrade(p)
  PROVE  BookedInv'
  <1> DEFINE s == job[p].setup
             new == [status |-> "CLOSED", day |-> trade[s].day, net |-> job[p].net]
  <1>0. /\ s \in Setups /\ pc \in [Threads -> Pc] /\ trade \in [Setups -> Trade]
        /\ call \in [Threads -> Call]
    BY DEF PaperInv, PaperTypeOK, SessionsTypeOK, CloseTrade
  <1>1. /\ UNCHANGED <<session, job, counted>>
        /\ pc[p] = "close" /\ pc'[p] = "record"
        /\ call'[p].pc = "lookup" /\ call'[p].pnl = job[p].net
        /\ \A q \in Threads \ {p} : pc'[q] = pc[q] /\ call'[q] = call[q]
    BY <1>0 DEF CloseTrade, Goto, BeginRecord, Begin
  <1>2. trade' = [trade EXCEPT ![s] = new] /\ new.status = "CLOSED" /\ new.net = job[p].net
    BY DEF CloseTrade
  <1> HIDE DEF new
  <1>3. /\ trade'[s].status = "CLOSED" /\ trade'[s].net = job[p].net
        /\ \A t \in Setups \ {s} : trade'[t] = trade[t]
    BY <1>0, <1>2
  <1>4. trade[s].status = "OPEN"
    BY <1>1 DEF BookedInv, ClosesOpen, IsOpen
  <1>5. \A q \in Threads \ {p} :
          pc[q] \in {"close", "record"} => job[q].setup \in Setups \ {s}
    BY <1>1, <1>4 DEF BookedInv, ClosesApart, RecordsClosed, PaperInv, PaperTypeOK
  <1>6. ClosesOpen'
    BY <1>1, <1>3, <1>5 DEF BookedInv, ClosesOpen, IsOpen
  <1>7. RecordsClosed'
    BY <1>1, <1>3, <1>5 DEF BookedInv, RecordsClosed
  <1>8. /\ ~IsCounting(p) /\ IsCounting(p)'
        /\ \A q \in Threads \ {p} : IsCounting(q)' <=> IsCounting(q)
    BY <1>1 DEF IsCounting
  <1>9. CountedOnce'
    <2> SUFFICES ASSUME NEW t \in Setups
                 PROVE  counted[t] = IF \/ trade'[t].status # "CLOSED" \/ t = s
                                        \/ \E q \in Threads \ {p} : IsCounting(q) /\ job[q].setup = t
                                     THEN 0 ELSE 1
      BY <1>1, <1>8 DEF CountedOnce
    <2>1. counted[t] = IF \/ trade[t].status # "CLOSED"
                          \/ \E q \in Threads \ {p} : IsCounting(q) /\ job[q].setup = t
                       THEN 0 ELSE 1
      BY <1>8 DEF BookedInv, CountedOnce
    <2> QED
      BY <1>3, <1>4, <2>1
  <1>10. \A t \in Setups : counted[t] # 0 => trade'[t].net = trade[t].net
    BY <1>3, <1>4 DEF BookedInv, CountedOnce
  <1> QED
    BY <1>1, <1>6, <1>7, <1>9, <1>10, BookedSame DEF BookedInv

\* The UPDATE of the session by a closing thread.
LEMMA BookedCounts ==
  ASSUME PaperInv, BookedInv, NEW p \in Threads, SessionCall(p), Counts(p)
  PROVE  BookedInv'
  <1> DEFINE s == job[p].setup
             d == call[p].day
             pnl == call[p].pnl
             row == UpdatedRow(session[d], call[p].row, pnl)
  <1>0. /\ s \in Setups /\ d \in Day /\ pnl \in Int
        /\ trade \in [Setups -> Trade] /\ session \in [Day -> Row]
        /\ counted \in [Setups -> Nat]
    BY SessionsAssumption DEF PaperInv, PaperTypeOK, SessionsTypeOK, Counts, Call
  <1>1. /\ UNCHANGED <<trade, pc, job>> /\ pc[p] = "record"
        /\ \A q \in Threads \ {p} : call'[q] = call[q]
        /\ call[p].pc \notin {"done", "failed"} /\ call'[p].pc = "done" /\ call'[p].pnl = pnl
        /\ session' = [session EXCEPT ![d] = row]
        /\ counted' = [counted EXCEPT ![s] = counted[s] + 1]
    BY CallKinds DEF Counts
  <1>2. trade[s].status = "CLOSED" /\ trade[s].net = pnl
    BY <1>1 DEF BookedInv, RecordsClosed
  <1>3. /\ IsCounting(p) /\ ~IsCounting(p)'
        /\ \A q \in Threads \ {p} : IsCounting(q)' <=> IsCounting(q)
        /\ \A q \in Threads \ {p} : IsCounting(q) => job[q].setup # s
    BY <1>1 DEF IsCounting, BookedInv, RecordsClosed
  <1>4. counted[s] = 0 /\ counted'[s] = 1 /\ \A t \in Setups \ {s} : counted'[t] = counted[t]
    <2>1. counted[s] = 0
      BY <1>0, <1>3 DEF BookedInv, CountedOnce
    <2> QED
      BY <1>0, <1>1, <2>1
  <1>5. ClosesOpen' /\ RecordsClosed'
    BY <1>1 DEF BookedInv, ClosesOpen, RecordsClosed, IsOpen
  <1>6. CountedOnce'
    <2> SUFFICES ASSUME NEW t \in Setups
                 PROVE  counted'[t] = IF \/ trade[t].status # "CLOSED"
                                         \/ \E q \in Threads \ {p} : IsCounting(q) /\ job[q].setup = t
                                      THEN 0 ELSE 1
      BY <1>1, <1>3 DEF CountedOnce
    <2>1. CASE t = s
      BY <1>2, <1>3, <1>4, <2>1
    <2>2. CASE t # s
      BY <1>4, <2>2 DEF BookedInv, CountedOnce
    <2> QED
      BY <2>1, <2>2
  <1>7. PnlBooked'
    <2> DEFINE f == [e \in Day |-> session[e].daily_pnl]
               g == [e \in Day |-> session'[e].daily_pnl]
               u == [t \in Booked |-> trade[t].net]
               v == [t \in Booked' |-> trade[t].net]
    <2>1. Booked' = Booked \cup {s} /\ s \notin Booked /\ IsFiniteSet(Booked)
      BY <1>0, <1>4 DEF Booked, BookedInv, PnlBooked
    <2>2. /\ \A e \in Day : f[e] \in Int
          /\ \A e \in Day \ {d} : g[e] = f[e]
          /\ g[d] = f[d] + pnl /\ g[d] \in Int
          /\ DOMAIN f = Day /\ DOMAIN g = Day /\ IsFiniteSet(Day)
      <3>1. \A e \in Day : session[e].daily_pnl \in Int
        BY <1>0 DEF Row
      <3>2. session'[d] = row /\ \A e \in Day \ {d} : session'[e] = session[e]
        BY <1>0, <1>1
      <3>3. row.daily_pnl = session[d].daily_pnl + pnl
        BY DEF UpdatedRow
      <3>4. IsFiniteSet(Day)
        BY SessionsAssumption, FS_Interval DEF Day
      <3> HIDE DEF row
      <3> QED
        BY <1>0, <3>1, <3>2, <3>3, <3>4
    <2>3. /\ \A t \in Booked : u[t] \in Int /\ v[t] = u[t]
          /\ v[s] = pnl /\ DOMAIN u = Booked /\ DOMAIN v = Booked'
      <3>1. \A t \in Setups : trade[t].net \in Int
        BY <1>0 DEF Trade
      <3> QED
        BY <1>2, <2>1, <3>1 DEF Booked
    <2> HIDE DEF f, g, u, v
    <2>4. SumFunctionOnSet(g, Day) = SumFunctionOnSet(f, Day) - f[d] + g[d]
      BY <1>0, <2>2, SumReplace
    <2>5. SumFunctionOnSet(v, Booked \cup {s}) = SumFunctionOnSet(u, Booked) + v[s]
      BY <1>0, <2>1, <2>3, SumAdd
    <2>6. SumFunctionOnSet(f, Day) \in Int
      BY <2>2, SumType
    <2>7. /\ SessionPnl = SumFunctionOnSet(f, Day) /\ SessionPnl' = SumFunctionOnSet(g, Day)
      BY <2>2 DEF SessionPnl, SumFunction, f, g
    <2>8. BookedPnl = SumFunctionOnSet(u, Booked)
      BY <2>3 DEF BookedPnl, SumFunction, u
    <2>9. BookedPnl' = SumFunctionOnSet(v, Booked \cup {s})
      <3>1. BookedPnl' = SumFunction(v)
        BY <1>1 DEF BookedPnl, v
      <3> QED
        BY <2>1, <2>3, <3>1 DEF SumFunction
    <2>10. SessionPnl' = SessionPnl + pnl /\ BookedPnl' = BookedPnl + pnl
      BY <1>0, <2>2, <2>3, <2>4, <2>5, <2>6, <2>7, <2>8, <2>9
    <2>11. IsFiniteSet(Booked')
      BY <2>1, FS_AddElement
    <2> QED
      BY <2>10, <2>11 DEF BookedInv, PnlBooked
  <1> QED
    BY <1>5, <1>6, <1>7 DEF BookedInv

\* Any other step of a store call that does not raise after a close.
LEMMA BookedLooks ==
  ASSUME PaperInv, BookedInv, ResultsStored', NEW p \in Threads, SessionCall(p), Looks(p)
  PROVE  BookedInv'
  <1> USE DEF BookedInv
  <1>1. /\ UNCHANGED <<trade, pc, job, session, counted>>
        /\ \A q \in Threads \ {p} : call'[q] = call[q]
        /\ call[p].pc \notin {"none", "done", "failed"} /\ call'[p].pnl = call[p].pnl
        /\ pc[p] = "record" => call'[p].pc \notin {"done", "failed"}
    BY CallKinds DEF Looks, ResultsStored
  <1>2. \A q \in Threads : IsCounting(q)' <=> IsCounting(q)
    BY <1>1 DEF IsCounting
  <1>3. ClosesOpen' /\ RecordsClosed'
    BY <1>1 DEF ClosesOpen, RecordsClosed, IsOpen
  <1>4. CountedOnce'
    BY <1>1, <1>2 DEF CountedOnce
  <1> QED
    BY <1>1, <1>3, <1>4, BookedSame

LEMMA BookedKept ==
  ASSUME PaperInv, BookedInv, UNCHANGED <<session, call, trade, pc, job, counted>>
  PROVE  BookedInv'
  <1> USE DEF BookedInv
  <1>1. \A q : IsCounting(q)' <=> IsCounting(q)
    BY DEF IsCounting
  <1>2. ClosesOpen' /\ RecordsClosed' /\ CountedOnce'
    BY <1>1 DEF ClosesOpen, RecordsClosed, CountedOnce, IsOpen
  <1> QED
    BY <1>2, BookedSame

\* Two threads that close the same trade, and a call that raises after the close, are
\* all that can set the counters and the ledger apart.  In any behaviour without them,
\* whenever no handler runs each closed paper trade has been counted once and the
\* sessions add up to the results of the ledger.
THEOREM LedgerIsCounted == PaperSpec => LedgerIfApart
  <1>1. PaperInv /\ BookedInv /\ ClosesApart /\ ResultsStored' /\ [PaperNext]_vars => BookedInv'
    <2> SUFFICES ASSUME PaperInv, BookedInv, ClosesApart, ResultsStored', [PaperNext]_vars
                 PROVE  BookedInv'
      OBVIOUS
    <2>1. CASE Rollover \/ Unseen \/ UNCHANGED vars
      BY <2>1, BookedKept DEF Rollover, NextDay, Unseen, vars, sessionVars, paperVars
    <2>2. ASSUME NEW p \in Threads, SessionCall(p) PROVE BookedInv'
      BY <2>2, CallKinds, BookedLooks, BookedCounts
    <2> QED
      BY <2>1, <2>2, StepKinds, BookedMove, BookedInsert, BookedClose DEF PaperNext
  <1>2. BookedInv => SessionMatchesLedger
    <2> SUFFICES ASSUME BookedInv, \A p \in Threads : pc[p] = "idle"
                 PROVE  /\ \A s \in Setups : counted[s] = IF s \in Closed THEN 1 ELSE 0
                        /\ SessionPnl = SumFunction([s \in Closed |-> trade[s].net])
      BY DEF SessionMatchesLedger, SessionPnl
    <2>1. \A s \in Setups : counted[s] = IF s \in Closed THEN 1 ELSE 0
      BY DEF BookedInv, CountedOnce, IsCounting, Closed
    <2>2. Booked = Closed
      BY <2>1 DEF Booked, Closed
    <2>3. [s \in Booked |-> trade[s].net] = [s \in Closed |-> trade[s].net]
      BY <2>2
    <2>4. SessionPnl = SumFunction([s \in Booked |-> trade[s].net])
      BY DEF BookedInv, PnlBooked, BookedPnl
    <2> QED
      BY <2>1, <2>3, <2>4
  <1> QED
    BY PaperInvariant, BookedInit, <1>1, <1>2, PTL DEF PaperSpec, LedgerIfApart

-----------------------------------------------------------------------------
(***************************************************************************)
(* The entries.  What the gate has read is still true at the INSERT if no  *)
(* other thread inserts or records in between.  Midnight may pass at any   *)
(* step, also between the gate and the INSERT: the new day then has no     *)
(* trades and no results.                                                  *)
(***************************************************************************)
OpenedOn(d) == {s \in Setups : trade[s].status # "NONE" /\ trade[s].day = d}

\* No trade is of a day to come, and none is closed on a day before its own.
DaysPast ==
  /\ \A s \in Setups : trade[s].status # "NONE" => trade[s].day <= today
  /\ \A p \in Threads :
       pc[p] = "record" =>
         trade[job[p].setup].status = "CLOSED" /\ trade[job[p].setup].day <= call[p].day

\* The row that get_session_dict has returned to the gate is the row as it is.
RowCurrent ==
  \A p \in Threads :
    pc[p] = "session" /\ call[p].pc = "done" => call[p].row = session[call[p].day]

\* If midnight has passed since the gate asked for its row, nothing has happened
\* on the new day.
GateOfToday ==
  \A p \in Threads :
    pc[p] = "session" /\ call[p].day # today => OpenedOn(today) = {} /\ results[today] = << >>

EntryInv == DaysAhead /\ DaysPast /\ RowCurrent /\ GateOfToday

\* Days to come have no trades and no results.
LEMMA DayToCome ==
  ASSUME PaperInv, DaysAhead, DaysPast, NEW d \in Day, d > today
  PROVE  OpenedOn(d) = {} /\ results[d] = << >>
  <1>1. today \in Int /\ \A s \in Setups : trade[s].day \in Day /\ Day \subseteq Int
    BY DEF PaperInv, PaperTypeOK, SessionsTypeOK, Trade, Day
  <1>2. OpenedOn(d) = {}
    BY <1>1 DEF DaysPast, OpenedOn
  <1>3. session[d].trades_today = 0 /\ session[d].trades_today = Len(results[d])
    BY DEF DaysAhead, EmptyRow, PaperInv, SessionsInv, CountersMatchResults
  <1>4. results[d] = << >>
    BY <1>3 DEF PaperInv, PaperTypeOK, SessionsTypeOK
  <1> QED
    BY <1>2, <1>4

\* Midnight comes.
LEMMA NewDay ==
  ASSUME PaperInv, DaysAhead, DaysPast, Rollover
  PROVE  /\ today' \in Day /\ today' = today + 1
         /\ UNCHANGED <<session, results, call, trade, pc, job, counted>>
         /\ OpenedOn(today') = {} /\ results[today'] = << >>
         /\ \A d \in Day : OpenedOn(d)' = OpenedOn(d)
  <1>1. /\ today \in Day /\ today' = today + 1 /\ today' \in Day /\ today' > today
        /\ UNCHANGED <<session, results, call, trade, pc, job, counted>>
    BY SessionsAssumption
    DEF PaperInv, PaperTypeOK, SessionsTypeOK, Rollover, NextDay, paperVars, Day
  <1>2. PICK d \in Day : d = today'
    BY <1>1
  <1>3. OpenedOn(d) = {} /\ results[d] = << >>
    BY <1>1, <1>2, DayToCome
  <1> QED
    BY <1>1, <1>2, <1>3 DEF OpenedOn

\* Opening a trade adds it to the trades of the day, closing one changes none.
LEMMA InsertCounts ==
  ASSUME PaperInv, NEW p \in Threads, InsertTrade(p), ~UNCHANGED trade
  PROVE  LET s == job[p].setup IN
         /\ s \in Setups /\ trade[s].status = "NONE"
         /\ trade'[s].status = "OPEN" /\ trade'[s].day = today
         /\ \A t \in Setups \ {s} : trade'[t] = trade[t]
         /\ OpenedOn(today)' = OpenedOn(today) \cup {s} /\ s \notin OpenedOn(today)
         /\ \A d \in Day \ {today} : OpenedOn(d)' = OpenedOn(d)
         /\ UNCHANGED <<today, session, results, call, counted>>
         /\ pc[p] = "insert" /\ pc'[p] = "idle"
         /\ \A q \in Threads \ {p} : pc'[q] = pc[q] /\ job'[q] = job[q]
  <1> DEFINE s == job[p].setup
             new == [status |-> "OPEN", day |-> today, net |-> 0]
  <1>1. /\ s \in Setups /\ trade \in [Setups -> Trade] /\ today \in Day
        /\ pc \in [Threads -> Pc] /\ job \in [Threads -> Job]
    BY DEF PaperInv, PaperTypeOK, SessionsTypeOK, InsertTrade
  <1>2. trade[s].status = "NONE" /\ trade' = [trade EXCEPT ![s] = new]
    BY DEF InsertTrade, Unique
  <1>3. new.status = "OPEN" /\ new.day = today
    OBVIOUS
  <1> HIDE DEF new, s
  <1>4. /\ trade'[s] = new /\ \A t \in Setups \ {s} : trade'[t] = trade[t]
        /\ today' = today
    BY <1>1, <1>2 DEF InsertTrade, sessionVars
  <1>5. /\ OpenedOn(today)' = OpenedOn(today) \cup {s} /\ s \notin OpenedOn(today)
        /\ \A d \in Day \ {today} : OpenedOn(d)' = OpenedOn(d)
    BY <1>1, <1>2, <1>3, <1>4 DEF OpenedOn
  <1>6. /\ UNCHANGED <<today, session, results, call, counted>>
        /\ pc[p] = "insert" /\ pc'[p] = "idle"
        /\ \A q \in Threads \ {p} : pc'[q] = pc[q] /\ job'[q] = job[q]
    BY <1>1 DEF InsertTrade, Finish, sessionVars, history
  <1> QED
    BY <1>1, <1>2, <1>3, <1>4, <1>5, <1>6 DEF s

LEMMA CloseCounts ==
  ASSUME PaperInv, NEW p \in Threads, CloseTrade(p)
  PROVE  LET s == job[p].setup IN
         /\ s \in Setups /\ trade[s].status # "NONE"
         /\ trade'[s].status = "CLOSED" /\ trade'[s].day = trade[s].day
         /\ \A t \in Setups \ {s} : trade'[t] = trade[t]
         /\ \A d \in Day : OpenedOn(d)' = OpenedOn(d)
         /\ UNCHANGED <<today, session, results, job, counted>>
         /\ pc[p] = "close" /\ pc'[p] = "record"
         /\ call'[p].pc = "lookup" /\ call'[p].day = today
         /\ \A q \in Threads \ {p} : pc'[q] = pc[q] /\ call'[q] = call[q]
  <1> DEFINE s == job[p].setup
             new == [status |-> "CLOSED", day |-> trade[s].day, net |-> job[p].net]
  <1>1. /\ s \in Setups /\ trade \in [Setups -> Trade] /\ today \in Day
        /\ pc \in [Threads -> Pc] /\ call \in [Threads -> Call]
    BY DEF PaperInv, PaperTypeOK, SessionsTypeOK, CloseTrade
  <1>2. trade[s].status # "NONE" /\ trade' = [trade EXCEPT ![s] = new]
    BY CloseCloses
  <1>3. new.status = "CLOSED" /\ new.day = trade[s].day
    OBVIOUS
  <1> HIDE DEF new, s
  <1>4. /\ trade'[s] = new /\ \A t \in Setups \ {s} : trade'[t] = trade[t]
    BY <1>1, <1>2
  <1>5. \A d \in Day : OpenedOn(d)' = OpenedOn(d)
    BY <1>1, <1>2, <1>3, <1>4 DEF OpenedOn
  <1>6. /\ UNCHANGED <<today, session, results, job, counted>>
        /\ pc[p] = "close" /\ pc'[p] = "record"
        /\ call'[p].pc = "lookup" /\ call'[p].day = today
        /\ \A q \in Threads \ {p} : pc'[q] = pc[q] /\ call'[q] = call[q]
    BY <1>1 DEF CloseTrade, Goto, BeginRecord, Begin
  <1> QED
    BY <1>1, <1>2, <1>3, <1>4, <1>5, <1>6 DEF s

LEMMA DaysPastStep ==
  ASSUME PaperInv, DaysAhead, DaysPast, Step PROVE DaysPast'
  <1>0. /\ today \in Int /\ \A s \in Setups : trade[s].day \in Int
        /\ \A p \in Threads : call[p].day \in Int
        /\ \A p \in Threads : pc[p] # "idle" => job[p].setup \in Setups
    BY DEF PaperInv, PaperTypeOK, SessionsTypeOK, Trade, Call, Day
  <1>1. CASE Rollover
    BY <1>0, <1>1, NewDay DEF DaysPast
  <1>2. CASE Unseen
    BY <1>2 DEF Unseen, DaysPast
  <1>3. ASSUME NEW p \in Threads, Move(p) PROVE DaysPast'
    BY <1>3 DEF Move, DaysPast
  <1>4. ASSUME NEW p \in Threads, InsertTrade(p), ~UNCHANGED trade PROVE DaysPast'
    BY <1>0, <1>4, InsertCounts DEF DaysPast
  <1>5. ASSUME NEW p \in Threads, CloseTrade(p) PROVE DaysPast'
    BY <1>0, <1>5, CloseCounts DEF DaysPast
  <1>6. ASSUME NEW p \in Threads, SessionCall(p) PROVE DaysPast'
    BY <1>6, CallKinds DEF DaysPast
  <1> QED
    BY <1>1, <1>2, <1>3, <1>4, <1>5, <1>6, StepKinds

LEMMA EntryStep ==
  ASSUME PaperInv, EntryInv, EntriesApart, Step PROVE EntryInv'
  <1> USE DEF EntryInv
  <1>0. /\ DaysAhead' /\ DaysPast'
        /\ call \in [Threads -> Call] /\ today \in Day
    BY DaysAheadStep, DaysPastStep DEF PaperInv, PaperTypeOK, SessionsTypeOK
  <1>1. CASE Rollover
    BY <1>0, <1>1, NewDay DEF RowCurrent, GateOfToday, OpenedOn
  <1>2. CASE Unseen
    BY <1>0, <1>2 DEF Unseen, RowCurrent, GateOfToday, OpenedOn
  <1>3. ASSUME NEW p \in Threads, Move(p) PROVE RowCurrent' /\ GateOfToday'
    BY <1>3 DEF Move, RowCurrent, GateOfToday, OpenedOn
  <1>4. ASSUME NEW p \in Threads, InsertTrade(p), ~UNCHANGED trade
        PROVE  RowCurrent' /\ GateOfToday'
    <2>1. \A q \in Threads \ {p} : pc[q] # "session"
      BY <1>4, InsertCounts DEF EntriesApart
    <2>2. \A q \in Threads : pc'[q] # "session"
      BY <1>4, <2>1, InsertCounts
    <2> QED
      BY <2>2 DEF RowCurrent, GateOfToday
  <1>5. ASSUME NEW p \in Threads, CloseTrade(p) PROVE RowCurrent' /\ GateOfToday'
    BY <1>0, <1>5, CloseCounts DEF RowCurrent, GateOfToday
  <1>6. ASSUME NEW p \in Threads, SessionCall(p), Looks(p) PROVE RowCurrent' /\ GateOfToday'
    <2>1. /\ UNCHANGED <<today, trade, pc, session, results>>
          /\ \A q \in Threads \ {p} : call'[q] = call[q]
          /\ call'[p].day = call[p].day
          /\ pc[p] = "session" /\ call'[p].pc = "done" => call'[p].row = session[call[p].day]
      BY <1>6, CallKinds DEF Looks
    <2> QED
      BY <2>1 DEF RowCurrent, GateOfToday, OpenedOn
  <1>7. ASSUME NEW p \in Threads, SessionCall(p), Counts(p) PROVE RowCurrent' /\ GateOfToday'
    <2>1. \A q \in Threads : pc'[q] # "session"
      BY <1>7, CallKinds DEF Counts, EntriesApart
    <2> QED
      BY <2>1 DEF RowCurrent, GateOfToday
  <1> QED
    BY <1>0, <1>1, <1>2, <1>3, <1>4, <1>5, <1>6, <1>7, StepKinds, CallKinds

LEMMA EntryInvariant == PaperSpec /\ []EntriesApart => [](PaperInv /\ EntryInv)
  <1>1. PaperInit => EntryInv
    BY DEF PaperInit, SessionsInit, NoCall, NoTrade, DaysAhead, DaysPast, RowCurrent, GateOfToday,
           EntryInv
  <1>2. PaperInv /\ EntryInv /\ EntriesApart /\ [PaperNext]_vars => EntryInv'
    <2> SUFFICES ASSUME PaperInv, EntryInv, EntriesApart, [PaperNext]_vars PROVE EntryInv'
      OBVIOUS
    <2>1. CASE UNCHANGED vars
      BY <2>1
      DEF vars, sessionVars, paperVars, EntryInv, DaysAhead, DaysPast, RowCurrent, GateOfToday,
          OpenedOn
    <2> QED
      BY <2>1, EntryStep DEF PaperNext
  <1> QED
    BY PaperInvariant, <1>1, <1>2, PTL DEF PaperSpec

(***************************************************************************)
(* The trade limit.  The gate compares it with the results counted on the  *)
(* day; with nothing open and nothing being counted these are the trades   *)
(* of the day, if none was lost.                                           *)
(***************************************************************************)
CountedOn(d) == {s \in OpenedOn(d) : counted[s] # 0}

\* A closed trade has been counted or is being counted, and no other has.
ClosedCounted ==
  \A s \in Setups :
    /\ counted[s] # 0 => trade[s].status = "CLOSED"
    /\ trade[s].status = "CLOSED" =>
         counted[s] # 0 \/ \E p \in Threads : IsCounting(p) /\ job[p].setup = s

\* The trades counted of today were all counted today.
CountedToday ==
  /\ \A d \in Day : IsFiniteSet(OpenedOn(d))
  /\ Cardinality(CountedOn(today)) <= session[today].trades_today

\* Past the gate there is room for a trade.
RoomForTrade ==
  \A p \in Threads :
    pc[p] \in {"recheck", "insert"} => Cardinality(OpenedOn(today)) < MaxTrades

TradesInv == ClosedCounted /\ CountedToday /\ RoomForTrade /\ DailyTradeLimit

LEMMA TradesInit == PaperInit => TradesInv
  <1> SUFFICES ASSUME PaperInit PROVE TradesInv
    OBVIOUS
  <1>1. ClosedCounted /\ RoomForTrade
    BY DEF PaperInit, NoTrade, ClosedCounted, RoomForTrade
  <1>2. \A d : OpenedOn(d) = {} /\ CountedOn(d) = {}
    BY DEF PaperInit, NoTrade, OpenedOn, CountedOn
  <1>3. IsFiniteSet({}) /\ Cardinality({}) = 0
    BY FS_EmptySet
  <1>4. session[today].trades_today = 0
    BY SessionsAssumption DEF PaperInit, SessionsInit, EmptyRow, Day
  <1>5. CountedToday
    BY <1>2, <1>3, <1>4 DEF CountedToday
  <1>6. DailyTradeLimit
    BY <1>2, <1>3, PaperTradingAssumption DEF DailyTradeLimit, OpenedOn
  <1> QED
    BY <1>1, <1>5, <1>6 DEF TradesInv

\* What the gate approves leaves room for a trade.
LEMMA GateSeesTrades ==
  ASSUME PaperInv, EntryInv, TradesInv, EntriesApart, NEW p \in Threads,
         pc[p] = "session", call[p].pc = "done", GateApproves(p)
  PROVE  Cardinality(OpenedOn(today)) < MaxTrades
  <1>0. /\ today \in Day /\ session[today] \in Row /\ MaxTrades \in Nat \ {0}
        /\ Cardinality({}) = 0
    BY PaperTradingAssumption, FS_EmptySet DEF PaperInv, PaperTypeOK, SessionsTypeOK
  <1>1. CASE call[p].day # today
    <2>1. OpenedOn(today) = {}
      BY <1>1 DEF EntryInv, GateOfToday
    <2> QED
      BY <1>0, <2>1
  <1>2. CASE call[p].day = today
    <2>1. session[today].trades_today < MaxTrades
      <3>1. LimitReasons(session[today]) = {}
        BY <1>2 DEF EntryInv, RowCurrent, GateApproves
      <3>2. ~(session[today].trades_today >= MaxTrades)
        BY <3>1 DEF LimitReasons
      <3> QED
        BY <1>0, <3>2 DEF Row
    <2>2. \A q \in Threads : ~IsCounting(q)
      BY DEF EntriesApart, IsCounting
    <2>3. OpenedOn(today) = CountedOn(today)
      BY <2>2
      DEF GateApproves, NothingOpen, IsOpen, OpenedOn, CountedOn, TradesInv, ClosedCounted,
          PaperInv, PaperTypeOK, Trade
    <2>4. /\ Cardinality(OpenedOn(today)) <= session[today].trades_today
          /\ IsFiniteSet(OpenedOn(today))
      BY <1>0, <2>3 DEF TradesInv, CountedToday
    <2>5. Cardinality(OpenedOn(today)) \in Nat
      BY <2>4, FS_CardinalityType
    <2> QED
      BY <1>0, <2>1, <2>4, <2>5 DEF Row
  <1> QED
    BY <1>1, <1>2

\* A step that neither opens nor counts a trade.
LEMMA TradesSame ==
  ASSUME TradesInv, UNCHANGED <<today, session, counted>>,
         \A s \in Setups : (trade'[s].status = "NONE") = (trade[s].status = "NONE"),
         \A s \in Setups : trade'[s].day = trade[s].day
  PROVE  CountedToday' /\ DailyTradeLimit' /\ \A d : OpenedOn(d)' = OpenedOn(d)
  <1>1. \A d : OpenedOn(d)' = OpenedOn(d)
    BY DEF OpenedOn
  <1>2. \A d : CountedOn(d)' = CountedOn(d)
    BY <1>1 DEF CountedOn
  <1> QED
    BY <1>1, <1>2 DEF TradesInv, CountedToday, DailyTradeLimit, OpenedOn

LEMMA TradesMove ==
  ASSUME PaperInv, EntryInv, TradesInv, EntriesApart, NEW p \in Threads, Move(p)
  PROVE  TradesInv'
  <1>1. CountedToday' /\ DailyTradeLimit' /\ OpenedOn(today)' = OpenedOn(today)
    BY TradesSame DEF Move
  <1>2. /\ ~IsCounting(p) /\ ~IsCounting(p)'
        /\ \A q \in Threads \ {p} : (IsCounting(q)' <=> IsCounting(q)) /\ job'[q] = job[q]
    BY DEF Move, IsCounting
  <1>3. ClosedCounted'
    BY <1>2 DEF Move, TradesInv, ClosedCounted
  <1>4. pc'[p] \in {"recheck", "insert"} => Cardinality(OpenedOn(today)) < MaxTrades
    BY GateSeesTrades DEF Move, TradesInv, RoomForTrade
  <1>5. RoomForTrade'
    BY <1>1, <1>4 DEF Move, TradesInv, RoomForTrade
  <1> QED
    BY <1>1, <1>3, <1>5 DEF TradesInv

LEMMA TradesInsert ==
  ASSUME PaperInv, TradesInv, EntriesApart, NEW p \in Threads, InsertTrade(p), ~UNCHANGED trade
  PROVE  TradesInv'
  <1> DEFINE s == job[p].setup
  <1>0. /\ s \in Setups /\ trade[s].status = "NONE" /\ trade'[s].status = "OPEN"
        /\ \A t \in Setups \ {s} : trade'[t] = trade[t]
        /\ OpenedOn(today)' = OpenedOn(today) \cup {s} /\ s \notin OpenedOn(today)
        /\ \A d \in Day \ {today} : OpenedOn(d)' = OpenedOn(d)
        /\ UNCHANGED <<today, session, call, counted>>
        /\ pc[p] = "insert" /\ pc'[p] = "idle" /\ today \in Day
        /\ \A q \in Threads \ {p} : pc'[q] = pc[q] /\ job'[q] = job[q]
    BY InsertCounts DEF PaperInv, PaperTypeOK, SessionsTypeOK
  <1>1. counted[s] = 0
    BY <1>0 DEF TradesInv, ClosedCounted
  <1>2. ClosedCounted'
    <2>1. \A q \in Threads : (IsCounting(q)' <=> IsCounting(q)) /\ (IsCounting(q) => q # p)
      BY <1>0 DEF IsCounting
    <2> QED
      BY <1>0, <2>1 DEF TradesInv, ClosedCounted
  <1>3. CountedOn(today)' = CountedOn(today)
    BY <1>0, <1>1 DEF CountedOn
  <1>4. /\ IsFiniteSet(OpenedOn(today)')
        /\ Cardinality(OpenedOn(today)) \in Nat
        /\ Cardinality(OpenedOn(today)') = Cardinality(OpenedOn(today)) + 1
    <2>1. IsFiniteSet(OpenedOn(today))
      BY <1>0 DEF TradesInv, CountedToday
    <2> HIDE DEF s
    <2> QED
      BY <1>0, <2>1, FS_AddElement, FS_CardinalityType
  <1>5. CountedToday'
    BY <1>0, <1>3, <1>4 DEF TradesInv, CountedToday
  <1>6. RoomForTrade'
    BY <1>0 DEF EntriesApart, RoomForTrade
  <1>7. DailyTradeLimit'
    <2>1. Cardinality(OpenedOn(today)) < MaxTrades
      BY <1>0 DEF TradesInv, RoomForTrade
    <2>2. Cardinality(OpenedOn(today)') <= MaxTrades
      BY <1>4, <2>1, PaperTradingAssumption
    <2>3. \A d \in Day : Cardinality(OpenedOn(d)) <= MaxTrades
      BY DEF TradesInv, DailyTradeLimit, OpenedOn
    <2>4. \A d \in Day : Cardinality(OpenedOn(d)') <= MaxTrades
      BY <1>0, <2>2, <2>3
    <2> QED
      BY <2>4 DEF DailyTradeLimit, OpenedOn
  <1> QED
    BY <1>2, <1>5, <1>6, <1>7 DEF TradesInv

LEMMA TradesClose ==
  ASSUME PaperInv, TradesInv, NEW p \in Threads, CloseTrade(p) PROVE TradesInv'
  <1> DEFINE s == job[p].setup
  <1>0. /\ s \in Setups /\ trade[s].status # "NONE"
        /\ trade'[s].status = "CLOSED" /\ trade'[s].day = trade[s].day
        /\ \A t \in Setups \ {s} : trade'[t] = trade[t]
        /\ UNCHANGED <<today, session, job, counted>>
        /\ pc[p] = "close" /\ pc'[p] = "record" /\ call'[p].pc = "lookup"
        /\ \A q \in Threads \ {p} : pc'[q] = pc[q] /\ call'[q] = call[q]
    BY CloseCounts
  <1>1. CountedToday' /\ DailyTradeLimit' /\ OpenedOn(today)' = OpenedOn(today)
    BY <1>0, TradesSame
  <1>2. IsCounting(p)' /\ \A q \in Threads : IsCounting(q) => IsCounting(q)'
    BY <1>0 DEF IsCounting
  <1>3. ClosedCounted'
    BY <1>0, <1>2 DEF TradesInv, ClosedCounted
  <1>4. RoomForTrade'
    BY <1>0, <1>1 DEF TradesInv, RoomForTrade
  <1> QED
    BY <1>1, <1>3, <1>4 DEF TradesInv

\* The UPDATE of the session: the trade it counts, if one of today, is added to the
\* session of today.
LEMMA TradesCounts ==
  ASSUME PaperInv, EntryInv, TradesInv, NEW p \in Threads, SessionCall(p), Counts(p)
  PROVE  TradesInv'
  <1> DEFINE s == job[p].setup
             d == call[p].day
             row == UpdatedRow(session[d], call[p].row, call[p].pnl)
  <1>0. /\ s \in Setups /\ d \in Day /\ today \in Day /\ d <= today /\ Day \subseteq Int
        /\ session \in [Day -> Row] /\ counted \in [Setups -> Nat]
        /\ \A t \in Setups : trade[t].day \in Day
    BY DEF PaperInv, PaperTypeOK, SessionsTypeOK, Counts, Call, EntryInv, DaysAhead, Trade, Day
  <1>1. /\ UNCHANGED <<today, trade, pc, job>> /\ pc[p] = "record"
        /\ \A q \in Threads \ {p} : call'[q] = call[q]
        /\ session' = [session EXCEPT ![d] = row]
        /\ counted' = [counted EXCEPT ![s] = counted[s] + 1]
    BY CallKinds DEF Counts
  <1>2. row.trades_today = session[d].trades_today + 1
    BY DEF UpdatedRow
  <1> HIDE DEF row
  <1>3. trade[s].status = "CLOSED" /\ trade[s].day <= d
    BY <1>1 DEF EntryInv, DaysPast
  <1>4. counted'[s] # 0 /\ \A t \in Setups \ {s} : counted'[t] = counted[t]
    BY <1>0, <1>1
  <1>5. \A e : OpenedOn(e)' = OpenedOn(e)
    BY <1>1 DEF OpenedOn
  <1>6. ClosedCounted'
    <2>1. \A q \in Threads : IsCounting(q) => IsCounting(q)' \/ job[q].setup = s
      BY <1>1 DEF IsCounting
    <2> QED
      BY <1>1, <1>3, <1>4, <2>1 DEF TradesInv, ClosedCounted
  <1>7. CountedToday'
    <2>1. IsFiniteSet(CountedOn(today)) /\ Cardinality(CountedOn(today)) \in Nat
      <3>1. IsFiniteSet(OpenedOn(today)) /\ CountedOn(today) \subseteq OpenedOn(today)
        BY <1>0 DEF TradesInv, CountedToday, CountedOn
      <3> QED
        BY <3>1, FS_Subset, FS_CardinalityType
    <2>2. Cardinality(CountedOn(today)) <= session[today].trades_today
      BY DEF TradesInv, CountedToday
    <2>3. session[today].trades_today \in Nat
      BY <1>0 DEF Row
    <2>4. CASE trade[s].day = today
      <3>1. d = today
        BY <1>0, <1>3, <2>4
      <3>2. session'[today].trades_today = session[today].trades_today + 1
        BY <1>0, <1>1, <1>2, <3>1
      <3>3. CountedOn(today)' = CountedOn(today) \cup {s}
        BY <1>0, <1>1, <1>3, <1>4, <1>5, <2>4 DEF CountedOn, OpenedOn
      <3>4. /\ Cardinality(CountedOn(today) \cup {s}) <= Cardinality(CountedOn(today)) + 1
            /\ Cardinality(CountedOn(today) \cup {s}) \in Nat
        <4> HIDE DEF s
        <4> DEFINE C == CountedOn(today)
        <4>1. IsFiniteSet(C) /\ Cardinality(C) \in Nat
          BY <2>1
        <4> HIDE DEF C
        <4>2. Cardinality(C \cup {s}) = IF s \in C THEN Cardinality(C) ELSE Cardinality(C) + 1
          BY <4>1, FS_AddElement
        <4> QED
          BY <4>1, <4>2 DEF C
      <3>5. Cardinality(CountedOn(today)') <= session'[today].trades_today
        BY <2>1, <2>2, <2>3, <3>2, <3>3, <3>4
      <3> QED
        BY <1>1, <1>5, <3>5 DEF TradesInv, CountedToday
    <2>5. CASE trade[s].day # today
      <3>1. CountedOn(today)' = CountedOn(today)
        BY <1>1, <1>4, <1>5, <2>5 DEF CountedOn, OpenedOn
      <3>2. session'[today].trades_today \in {session[today].trades_today,
                                              session[today].trades_today + 1}
        BY <1>0, <1>1, <1>2
      <3>3. Cardinality(CountedOn(today)') <= session'[today].trades_today
        BY <2>1, <2>2, <2>3, <3>1, <3>2
      <3> QED
        BY <1>1, <1>5, <3>3 DEF TradesInv, CountedToday
    <2> QED
      BY <2>4, <2>5
  <1>8. RoomForTrade' /\ DailyTradeLimit'
    BY <1>1, <1>5 DEF TradesInv, RoomForTrade, DailyTradeLimit, OpenedOn
  <1> QED
    BY <1>6, <1>7, <1>8 DEF TradesInv

LEMMA TradesLooks ==
  ASSUME PaperInv, TradesInv, ResultsStored', NEW p \in Threads, SessionCall(p), Looks(p)
  PROVE  TradesInv'
  <1>1. /\ UNCHANGED <<today, trade, pc, job, session, counted>>
        /\ \A q \in Threads \ {p} : call'[q] = call[q]
        /\ pc[p] = "record" => call'[p].pc \notin {"done", "failed"}
    BY CallKinds DEF Looks, ResultsStored
  <1>2. \A q \in Threads : IsCounting(q) => IsCounting(q)'
    BY <1>1 DEF IsCounting
  <1>3. CountedToday' /\ DailyTradeLimit' /\ OpenedOn(today)' = OpenedOn(today)
    BY <1>1, TradesSame
  <1>4. ClosedCounted'
    BY <1>1, <1>2 DEF TradesInv, ClosedCounted
  <1>5. RoomForTrade'
    BY <1>1, <1>3 DEF TradesInv, RoomForTrade
  <1> QED
    BY <1>3, <1>4, <1>5 DEF TradesInv

LEMMA TradesRollover ==
  ASSUME PaperInv, EntryInv, TradesInv, Rollover PROVE TradesInv'
  <1>1. /\ today' \in Day /\ UNCHANGED <<session, call, trade, pc, job, counted>>
        /\ OpenedOn(today') = {} /\ \A d \in Day : OpenedOn(d)' = OpenedOn(d)
    BY NewDay DEF EntryInv
  <1>2. OpenedOn(today)' = {} /\ CountedOn(today)' = {} /\ Cardinality({}) = 0
    BY <1>1, FS_EmptySet DEF OpenedOn, CountedOn
  <1>3. session'[today'].trades_today \in Nat /\ MaxTrades \in Nat \ {0}
    BY <1>1, PaperTradingAssumption DEF PaperInv, PaperTypeOK, SessionsTypeOK, Row
  <1>4. ClosedCounted'
    BY <1>1 DEF TradesInv, ClosedCounted, IsCounting
  <1>5. CountedToday' /\ RoomForTrade'
    BY <1>1, <1>2, <1>3 DEF TradesInv, CountedToday, RoomForTrade
  <1>6. DailyTradeLimit'
    BY <1>1 DEF TradesInv, DailyTradeLimit, OpenedOn
  <1> QED
    BY <1>4, <1>5, <1>6 DEF TradesInv

LEMMA TradesKept == ASSUME TradesInv, Unseen PROVE TradesInv'
  <1>1. CountedToday' /\ DailyTradeLimit' /\ OpenedOn(today)' = OpenedOn(today)
    BY TradesSame DEF Unseen
  <1>2. ClosedCounted' /\ RoomForTrade'
    BY <1>1 DEF Unseen, TradesInv, ClosedCounted, IsCounting, RoomForTrade
  <1> QED
    BY <1>1, <1>2 DEF TradesInv

\* Another thread that inserts a trade, or is recording a result, between a request's
\* gate and its INSERT, and a close whose result is lost, are all that can break the trade
\* limit.  In any behaviour without them no day sees more paper trades than the limit,
\* though trades are closed twice and days end at any step.
THEOREM TradeLimitHolds == PaperSpec => LimitIfApart
  <1>1. PaperInv /\ EntryInv /\ TradesInv /\ EntriesApart /\ ResultsStored' /\ [PaperNext]_vars
          => TradesInv'
    <2> SUFFICES ASSUME PaperInv, EntryInv, TradesInv, EntriesApart, ResultsStored',
                        [PaperNext]_vars
                 PROVE  TradesInv'
      OBVIOUS
    <2>1. CASE UNCHANGED vars
      BY <2>1, TradesKept DEF vars, sessionVars, paperVars, Unseen
    <2>2. ASSUME NEW p \in Threads, SessionCall(p) PROVE TradesInv'
      BY <2>2, CallKinds, TradesLooks, TradesCounts
    <2> QED
      BY <2>1, <2>2, StepKinds, TradesKept, TradesRollover, TradesMove, TradesInsert, TradesClose
      DEF PaperNext
  <1>2. TradesInv => DailyTradeLimit
    BY DEF TradesInv
  <1> QED
    BY EntryInvariant, TradesInit, <1>1, <1>2, PTL DEF PaperSpec, LimitIfApart

(***************************************************************************)
(* The lockout and the loss limit.  The gate compares them with the streak *)
(* and the pnl of the row; these are exact as long as no two threads are   *)
(* between the SELECT and the UPDATE of one row, whether or not each close *)
(* gets its result recorded.                                               *)
(***************************************************************************)

\* The results of a day leave room for one more loss.
RoomForLoss(d) ==
  /\ TrailingLosses(results[d]) < MaxStreak
  /\ SumFunction(results[d]) > -LossLimit

\* Past the gate there is such room.
LossesAllow == \A p \in Threads : pc[p] \in {"recheck", "insert"} => RoomForLoss(today)

LossesInv == StreakInv /\ LossesAllow

\* Nothing but a store call changes a row, and only the thread that enters one, or
\* leaves one, changes its call.
LEMMA PaperKeepsStreak ==
  ASSUME PaperInv, DaysAhead, DaysPast, StreakInv, UpdatesApart, Step PROVE StreakInv'
  <1>1. SessionsInv /\ SessionsTypeOK
    BY DEF PaperInv, SessionsInv
  <1>2. CASE Rollover
    BY <1>2, NewDay, StreakKept
  <1>3. CASE Unseen
    BY <1>3, StreakKept DEF Unseen
  <1>4. ASSUME NEW p \in Threads, Move(p) PROVE StreakInv'
    BY <1>4, StreakKept DEF Move
  <1>5. ASSUME NEW p \in Threads, InsertTrade(p), ~UNCHANGED trade PROVE StreakInv'
    BY <1>5, InsertCounts, StreakKept
  <1>6. ASSUME NEW p \in Threads, CloseTrade(p) PROVE StreakInv'
    <2>1. /\ UNCHANGED <<session, results>> /\ call'[p].pc = "lookup"
          /\ \A q \in Threads \ {p} : call'[q] = call[q]
      BY <1>6, CloseCounts
    <2> QED
      BY <2>1, StreakKept
  <1>7. ASSUME NEW p \in Threads, SessionCall(p) PROVE StreakInv'
    BY <1>1, <1>7, StreakStep DEF SessionCall
  <1> QED
    BY <1>2, <1>3, <1>4, <1>5, <1>6, <1>7, StepKinds

\* What the gate approves leaves room for a loss.
LEMMA GateSeesLosses ==
  ASSUME PaperInv, EntryInv, StreakInv, NEW p \in Threads,
         pc[p] = "session", call[p].pc = "done", GateApproves(p)
  PROVE  RoomForLoss(today)
  <1>0. /\ today \in Day /\ session[today] \in Row
        /\ MaxStreak \in Nat \ {0} /\ LossLimit \in Nat \ {0}
    BY PaperTradingAssumption DEF PaperInv, PaperTypeOK, SessionsTypeOK
  <1>1. CASE call[p].day # today
    <2>1. results[today] = << >>
      BY <1>1 DEF EntryInv, GateOfToday
    <2>2. TrailingLosses(<< >>) = 0 /\ SumFunction(<< >>) = 0
      BY NoTrailingLosses, SumOfNoResults
    <2> QED
      BY <1>0, <2>1, <2>2 DEF RoomForLoss
  <1>2. CASE call[p].day = today
    <2>1. LimitReasons(session[today]) = {}
      BY <1>2 DEF EntryInv, RowCurrent, GateApproves
    <2>2. /\ ~(session[today].daily_pnl <= -LossLimit)
          /\ ~(session[today].consecutive_losses >= MaxStreak)
      BY <2>1 DEF LimitReasons
    <2>3. /\ session[today].consecutive_losses < MaxStreak
          /\ session[today].daily_pnl > -LossLimit
      BY <1>0, <2>2 DEF Row
    <2>4. /\ session[today].consecutive_losses = TrailingLosses(results[today])
          /\ session[today].daily_pnl = SumFunction(results[today])
      BY <1>0 DEF StreakInv, StreakExact, PaperInv, SessionsInv, PnlMatchesResults
    <2> QED
      BY <2>3, <2>4 DEF RoomForLoss
  <1> QED
    BY <1>1, <1>2

LEMMA LossesStep ==
  ASSUME PaperInv, EntryInv, LossesInv, EntriesApart, UpdatesApart, Step PROVE LossesInv'
  <1> USE DEF LossesInv
  <1>0. StreakInv'
    BY PaperKeepsStreak DEF EntryInv
  <1>1. CASE Rollover
    <2>1. today' \in Day /\ results'[today'] = << >>
      BY <1>1, NewDay DEF EntryInv
    <2>2. TrailingLosses(<< >>) = 0 /\ SumFunction(<< >>) = 0
      BY NoTrailingLosses, SumOfNoResults
    <2>3. 0 < MaxStreak /\ 0 > -LossLimit
      BY PaperTradingAssumption
    <2>4. LossesAllow'
      BY <2>1, <2>2, <2>3 DEF LossesAllow, RoomForLoss
    <2> QED
      BY <1>0, <2>4
  <1>2. CASE Unseen
    BY <1>0, <1>2 DEF Unseen, LossesAllow, RoomForLoss
  <1>3. ASSUME NEW p \in Threads, Move(p) PROVE LossesInv'
    <2>1. pc'[p] \in {"recheck", "insert"} => RoomForLoss(today)
      BY <1>3, GateSeesLosses DEF Move, LossesAllow
    <2> QED
      BY <1>0, <1>3, <2>1 DEF Move, LossesAllow, RoomForLoss
  <1>4. ASSUME NEW p \in Threads, InsertTrade(p), ~UNCHANGED trade PROVE LossesInv'
    BY <1>0, <1>4, InsertCounts DEF LossesAllow, RoomForLoss
  <1>5. ASSUME NEW p \in Threads, CloseTrade(p) PROVE LossesInv'
    BY <1>0, <1>5, CloseCounts DEF LossesAllow, RoomForLoss
  <1>6. ASSUME NEW p \in Threads, SessionCall(p), Looks(p) PROVE LossesInv'
    BY <1>0, <1>6, CallKinds DEF Looks, LossesAllow, RoomForLoss
  <1>7. ASSUME NEW p \in Threads, SessionCall(p), Counts(p) PROVE LossesInv'
    <2>1. UNCHANGED pc /\ \A q \in Threads : pc[q] \notin {"recheck", "insert"}
      BY <1>7, CallKinds DEF Counts, EntriesApart
    <2> QED
      BY <1>0, <2>1 DEF LossesAllow
  <1> QED
    BY <1>1, <1>2, <1>3, <1>4, <1>5, <1>6, <1>7, StepKinds, CallKinds

\* Another thread that inserts a trade, or is recording a result, between a request's
\* gate and its INSERT, and two results recorded at once, are all that can break the lockout.
\* In any behaviour without them no paper trade is opened while the day's results end
\* in a streak of losses as long as the lockout or reach the loss limit, though calls
\* raise and days end at any step.
THEOREM LockoutIsKept == PaperSpec => LockoutIfApart
  <1>1. PaperInit => LossesInv
    BY StreakInit DEF PaperInit, LossesInv, LossesAllow
  <1>2. PaperInv /\ EntryInv /\ LossesInv /\ EntriesApart /\ UpdatesApart /\ [PaperNext]_vars
          => LossesInv'
    <2> SUFFICES ASSUME PaperInv, EntryInv, LossesInv, EntriesApart, UpdatesApart,
                        [PaperNext]_vars
                 PROVE  LossesInv'
      OBVIOUS
    <2>1. CASE UNCHANGED vars
      <3>1. Unseen
        BY <2>1 DEF vars, sessionVars, paperVars, Unseen
      <3>2. StreakInv'
        BY <3>1, StreakKept DEF Unseen, LossesInv
      <3> QED
        BY <3>1, <3>2 DEF Unseen, LossesInv, LossesAllow, RoomForLoss
    <2> QED
      BY <2>1, LossesStep DEF PaperNext
  <1>3. LossesInv => LockoutHolds
    BY DEF LossesInv, LossesAllow, RoomForLoss, LockoutHolds
  <1> QED
    BY EntryInvariant, <1>1, <1>2, <1>3, PTL DEF PaperSpec, LockoutIfApart
=============================================================================

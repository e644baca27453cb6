---------------------------- MODULE PaperTrading ----------------------------
(***************************************************************************)
(* The paper-trade lifecycle: trade_setups, paper_trades and risk_state of *)
(* app/store.py, and the handlers of app/routes.py, app/paper_monitor.py   *)
(* and app/risk_supervisor.py that work on them from several threads.      *)
(*                                                                         *)
(* A setup is generated, reviewed, executed as a paper trade after the     *)
(* risk gate, and closed by the monitor thread or by an endpoint, which    *)
(* then records the result in the sessions table (module Sessions).  Each  *)
(* store function is a connection of its own, so a handler is a sequence   *)
(* of steps with other threads in between; one action is one SELECT, or    *)
(* one write transaction with the local code after it.                     *)
(*                                                                         *)
(* setup_id is UNIQUE in paper_trades, so a paper trade is named by its    *)
(* setup.  Prices, quantities and costs appear as the net result they      *)
(* lead to, the four CLOSED_* exits as CLOSED, and the audit rows of       *)
(* paper_monitor_events, which nothing reads back, are left out.           *)
(***************************************************************************)
EXTENDS Sessions, FiniteSets, Functions

CONSTANTS
  Setups,     \* the setups the strategy generates
  NoSetup,    \* the setup of a thread that runs no handler
  Verdicts,   \* the review verdicts in use, APPROVED among them
  Reviewers,  \* the threads that run the review endpoint,
  Traders,    \*   the execute endpoint,
  Closers,    \*   the monitor worker and the close endpoints
  MaxTrades,  \* settings.max_trades_per_day
  LossLimit,  \* settings.daily_loss_limit
  MaxStreak   \* settings.max_consecutive_losses

ASSUME PaperTradingAssumption ==
  /\ NoSetup \notin Setups
  /\ Reviewers \subseteq Threads
  /\ Traders \subseteq Threads
  /\ Closers \subseteq Threads
  /\ Verdicts \subseteq {"APPROVED", "REJECTED", "EXPIRED", "CANCELLED"}
  /\ MaxTrades \in Nat \ {0}
  /\ LossLimit \in Nat \ {0}
  /\ MaxStreak \in Nat \ {0}

VARIABLES
  setup,       \* trade_setups.status; "NONE" where there is no row
  trade,       \* the paper_trades row of each setup
  killSwitch,  \* risk_state.kill_switch
  pc,          \* the next step of the handler each thread runs
  job,         \* the local variables of that handler
  closes,      \* history: the UPDATEs that closed the trade of each setup
  counted,     \* history: the times the session counted a result of it
  barred       \* history: the gate's reasons that held since a request came in

tables == <<setup, trade, killSwitch>>
history == <<closes, counted>>
paperVars == <<setup, trade, killSwitch, pc, job, closes, counted>>
vars == <<sessionVars, paperVars, barred>>

SetupStatus ==
  {"NONE", "GENERATED", "APPROVED", "REJECTED", "EXPIRED", "CANCELLED",
   "PAPER_OPEN", "PAPER_CLOSED"}

Trade == [status : {"NONE", "OPEN", "CLOSED"}, day : Day, net : Int]

NoTrade == [status |-> "NONE", day |-> 1, net |-> 0]

Pc == {"idle", "review", "risk", "session", "recheck", "insert", "check",
       "close", "record"}

\* setup and the status read or wanted; kill: the kill switch as read; net: the
\* result at the price the closing thread has.
Job == [setup : Setups \cup {NoSetup}, status : SetupStatus, kill : BOOLEAN, net : Int]

NewJob(s, status, net) == [setup |-> s, status |-> status, kill |-> FALSE, net |-> net]

NoJob == NewJob(NoSetup, "NONE", 0)

Reason == {"kill_switch", "max_trades", "daily_loss", "consecutive_losses"}

PaperTypeOK ==
  /\ SessionsTypeOK
  /\ setup \in [Setups -> SetupStatus]
  /\ trade \in [Setups -> Trade]
  /\ killSwitch \in BOOLEAN
  /\ pc \in [Threads -> Pc]
  /\ job \in [Threads -> Job]
  /\ \A p \in Threads : pc[p] # "idle" => job[p].setup \in Setups
  /\ closes \in [Setups -> Nat]
  /\ counted \in [Setups -> Nat]
  /\ barred \in [Threads -> SUBSET Reason]

PaperInit ==
  /\ SessionsInit
  /\ setup = [s \in Setups |-> "NONE"]
  /\ trade = [s \in Setups |-> NoTrade]
  /\ killSwitch = FALSE
  /\ pc = [p \in Threads |-> "idle"]
  /\ job = [p \in Threads |-> NoJob]
  /\ closes = [s \in Setups |-> 0]
  /\ counted = [s \in Setups |-> 0]
  /\ barred = [p \in Threads |-> {}]

-----------------------------------------------------------------------------
(* Helpers. *)

IsOpen(s) == trade[s].status = "OPEN"

\* get_open_paper_trade finds no row
NothingOpen == \A s \in Setups : ~IsOpen(s)

Goto(p, next) == pc' = [pc EXCEPT ![p] = next]

\* The handler returns or raises: its locals are gone.
Finish(p) ==
  /\ pc' = [pc EXCEPT ![p] = "idle"]
  /\ job' = [job EXCEPT ![p] = NoJob]

\* mutant: trade and loss limits that only bite once they are exceeded
LimitReasonsStrict(row) ==
  (IF row.trades_today > MaxTrades THEN {"max_trades"} ELSE {})
    \cup (IF row.daily_pnl < -LossLimit THEN {"daily_loss"} ELSE {})
    \cup (IF row.consecutive_losses >= MaxStreak THEN {"consecutive_losses"} ELSE {})

\* The reasons evaluate_paper_entry finds in a session row.
LimitReasons(row) ==
  (IF row.trades_today >= MaxTrades THEN {"max_trades"} ELSE {})
    \cup (IF row.daily_pnl <= -LossLimit THEN {"daily_loss"} ELSE {})
    \cup (IF row.consecutive_losses >= MaxStreak THEN {"consecutive_losses"} ELSE {})

KillReason(on) == IF on THEN {"kill_switch"} ELSE {}

-----------------------------------------------------------------------------
(* Generating and reviewing setups. *)

\* create_trade_setup; the signature is UNIQUE, so a setup is created once.
CreateSetup(s) ==
  /\ setup[s] = "NONE"
  /\ setup' = [setup EXCEPT ![s] = "GENERATED"]
  /\ UNCHANGED <<sessionVars, trade, killSwitch, pc, job, history>>

\* mutant: the status is not checked
ReadReviewAnyStatus(p, s, verdict) ==
  /\ pc[p] = "idle"
  /\ setup[s] # "NONE"
  /\ job' = [job EXCEPT ![p] = NewJob(s, verdict, 0)]
  /\ Goto(p, "review")
  /\ UNCHANGED <<sessionVars, tables, history>>

\* review_trade_setup, the SELECT: a setup that is not GENERATED is refused.
ReadReview(p, s, verdict) ==
  /\ pc[p] = "idle"
  /\ setup[s] = "GENERATED"
  /\ job' = [job EXCEPT ![p] = NewJob(s, verdict, 0)]
  /\ Goto(p, "review")
  /\ UNCHANGED <<sessionVars, tables, history>>

\* review_trade_setup, the UPDATE: WHERE id = ?, whatever the status is by now.
WriteReview(p) ==
  /\ pc[p] = "review"
  /\ setup' = [setup EXCEPT ![job[p].setup] = job[p].status]
  /\ Finish(p)
  /\ UNCHANGED <<sessionVars, trade, killSwitch, history>>

SetKillSwitch(enabled) ==
  /\ killSwitch' = enabled
  /\ UNCHANGED <<sessionVars, setup, trade, pc, job, history>>

-----------------------------------------------------------------------------
(* execute_paper_trade: the risk gate, then the INSERT. *)

ReadSetup(p, s) ==
  /\ pc[p] = "idle"
  /\ setup[s] # "NONE"
  /\ job' = [job EXCEPT ![p] = NewJob(s, setup[s], 0)]
  /\ Goto(p, "risk")
  /\ UNCHANGED <<sessionVars, tables, history>>

\* evaluate_paper_entry: get_risk_state, and entering get_session_dict.
ReadRiskState(p) ==
  /\ pc[p] = "risk"
  /\ job' = [job EXCEPT ![p].kill = killSwitch]
  /\ BeginGet(p)
  /\ Goto(p, "session")
  /\ UNCHANGED <<today, rows, session, results, tables, history>>

\* mutant: the kill switch is not a reason
GateApprovesIgnoringKill(p) ==
  /\ NothingOpen
  /\ job[p].status = "APPROVED"
  /\ LimitReasons(call[p].row) = {}

(***************************************************************************)
(* evaluate_paper_entry with the risk state and the session row read       *)
(* before, and the open trade as it is now.  Sizing and risk/reward        *)
(* depend on the request alone: RiskGate lets them refuse any request.     *)
(***************************************************************************)
GateApproves(p) ==
  /\ KillReason(job[p].kill) = {}
  /\ NothingOpen
  /\ job[p].status = "APPROVED"
  /\ LimitReasons(call[p].row) = {}

RiskGate(p) ==
  /\ pc[p] = "session"
  /\ call[p].pc = "done"
  /\ Return(p)
  /\ \/ GateApproves(p) /\ Goto(p, "recheck") /\ UNCHANGED job
     \/ Finish(p)
  /\ UNCHANGED <<today, rows, session, results, tables, history>>

\* open_paper_trade reads the setup again.  It refuses one that is no longer
\* APPROVED, or whose plan lacks the option, the strike or the stop.
RecheckSetup(p) ==
  /\ pc[p] = "recheck"
  /\ \/ setup[job[p].setup] = "APPROVED" /\ Goto(p, "insert") /\ UNCHANGED job
     \/ Finish(p)
  /\ UNCHANGED <<sessionVars, tables, history>>

\* mutant: no unique index on setup_id
UniqueWithoutSetup(s) == NothingOpen

\* setup_id UNIQUE and the partial index one_open_paper_trade.
Unique(s) == trade[s].status = "NONE" /\ NothingOpen

\* The INSERT, and the UPDATE of the setup in the same transaction.  A UNIQUE
\* violation is answered with 409.
InsertTrade(p) ==
  LET s == job[p].setup IN
  /\ pc[p] = "insert"
  /\ \/ /\ Unique(s)
        /\ trade' = [trade EXCEPT ![s] = [status |-> "OPEN", day |-> today, net |-> 0]]
        /\ setup' = [setup EXCEPT ![s] = "PAPER_OPEN"]
     \/ ~Unique(s) /\ UNCHANGED <<trade, setup>>
  /\ Finish(p)
  /\ UNCHANGED <<sessionVars, killSwitch, history>>

-----------------------------------------------------------------------------
(***************************************************************************)
(* Closing: monitor_once of the worker, and the close and monitor          *)
(* endpoints.  They differ in where the price comes from and in the audit  *)
(* rows they write.                                                        *)
(***************************************************************************)

\* get_open_paper_trade, then a price that calls for an exit.
FindOpen(p, net) ==
  /\ pc[p] = "idle"
  /\ \E s \in Setups :
       /\ IsOpen(s)
       /\ job' = [job EXCEPT ![p] = NewJob(s, "NONE", net)]
  /\ Goto(p, "check")
  /\ UNCHANGED <<sessionVars, tables, history>>

\* mutant: the handler records a result although close_paper_trade returned None
CheckOpenRecordingAnyway(p) ==
  /\ pc[p] = "check"
  /\ \/ IsOpen(job[p].setup) /\ Goto(p, "close") /\ UNCHANGED call
     \/ ~IsOpen(job[p].setup) /\ Goto(p, "record") /\ BeginRecord(p, job[p].net)
  /\ UNCHANGED <<today, rows, session, results, tables, job, history>>

\* close_paper_trade, the SELECT.  If the trade is no longer OPEN it returns
\* None: ALREADY_CLOSED in the worker, an exception in the endpoints.
CheckOpen(p) ==
  /\ pc[p] = "check"
  /\ \/ IsOpen(job[p].setup) /\ Goto(p, "close") /\ UNCHANGED job
     \/ ~IsOpen(job[p].setup) /\ Finish(p)
  /\ UNCHANGED <<sessionVars, tables, history>>

\* mutant: the setup row is left behind
ClosedSetupForgotten(s) == setup

\* mutant: the status of the trade instead of that of the setup
ClosedSetupAsTrade(s) == [setup EXCEPT ![s] = "CLOSED"]

\* The second UPDATE of close_paper_trade.
ClosedSetup(s) == [setup EXCEPT ![s] = "PAPER_CLOSED"]

\* close_paper_trade, the UPDATEs: WHERE id = ?, whatever the status is by now.
\* With the commit done the handler enters record_trade_result.
CloseTrade(p) ==
  LET s == job[p].setup IN
  /\ pc[p] = "close"
  /\ trade' = [trade EXCEPT ![s] = [status |-> "CLOSED", day |-> @.day, net |-> job[p].net]]
  /\ setup' = ClosedSetup(s)
  /\ closes' = [closes EXCEPT ![s] = @ + 1]
  /\ BeginRecord(p, job[p].net)
  /\ Goto(p, "record")
  /\ UNCHANGED <<today, rows, session, results, killSwitch, job, counted>>

-----------------------------------------------------------------------------
(* Store calls in progress, their outcome, and faults. *)

SessionCall(p) ==
  /\ CallStep(p)
  /\ counted' = IF pc[p] = "record" /\ results' # results
                THEN [counted EXCEPT ![job[p].setup] = @ + 1]
                ELSE counted
  /\ UNCHANGED <<tables, pc, job, closes>>

\* record_trade_result returned or raised: the closing handler is over.
ResultRecorded(p) ==
  /\ pc[p] = "record"
  /\ Return(p)
  /\ Finish(p)
  /\ UNCHANGED <<today, rows, session, results, tables, history>>

\* get_session_dict raised inside the risk gate: 500.
GateFails(p) ==
  /\ pc[p] = "session"
  /\ call[p].pc = "failed"
  /\ Return(p)
  /\ Finish(p)
  /\ UNCHANGED <<today, rows, session, results, tables, history>>

\* A store call outside the sessions table raises, or the process dies.
HandlerFails(p) ==
  /\ Faults
  /\ pc[p] \notin {"idle", "session", "record"}
  /\ Finish(p)
  /\ UNCHANGED <<sessionVars, tables, history>>

Rollover == NextDay /\ UNCHANGED paperVars

-----------------------------------------------------------------------------
Review(p) == (\E s \in Setups, v \in Verdicts : ReadReview(p, s, v)) \/ WriteReview(p)

Execute(p) ==
  \/ \E s \in Setups : ReadSetup(p, s)
  \/ ReadRiskState(p)
  \/ RiskGate(p)
  \/ GateFails(p)
  \/ RecheckSetup(p)
  \/ InsertTrade(p)

CloseOpen(p) ==
  \/ \E net \in Pnls : FindOpen(p, net)
  \/ CheckOpen(p)
  \/ CloseTrade(p)
  \/ ResultRecorded(p)

Step ==
  \/ \E s \in Setups : CreateSetup(s)
  \/ \E enabled \in BOOLEAN : SetKillSwitch(enabled)
  \/ \E p \in Reviewers : Review(p)
  \/ \E p \in Traders : Execute(p)
  \/ \E p \in Closers : CloseOpen(p)
  \/ \E p \in Threads : SessionCall(p) \/ HandlerFails(p)
  \/ Rollover

\* The gate's reasons that hold now.
InForce == KillReason(killSwitch) \cup LimitReasons(session[today])

\* barred[p] is InForce when the request of p comes in, and loses a reason as
\* soon as it ceases to hold.
Watch ==
  barred' = [p \in Threads |->
    IF pc'[p] \notin {"risk", "session", "recheck", "insert"} THEN {}
    ELSE IF pc[p] = "idle" THEN InForce'
    ELSE barred[p] \cap InForce']

PaperNext == Step /\ Watch

PaperSpec == PaperInit /\ [][PaperNext]_vars

-----------------------------------------------------------------------------
(***************************************************************************)
(* Properties that hold whatever the threads do.                           *)
(***************************************************************************)

\* Through every race of executions and closes, double closes included, the
\* paper_trades table keeps the promise of PaperBook: one open trade at a time,
\* one trade per setup, and no closed trade becomes open again.
Book == INSTANCE PaperBook WITH book <- [s \in Setups |-> trade[s].status]

BookSpec == Book!Spec

\* The reads of the gate are spread over time, but it never passes a request
\* over which one and the same reason (kill switch, trade limit, loss limit,
\* lockout) has hung since the request came in.
NoEntryWhileBarred ==
  \A p \in Threads : pc[p] \in {"recheck", "insert"} => barred[p] = {}

\* The session never runs ahead of the ledger: the results counted for a trade,
\* plus those its closers are still about to count, are at most the closes.
Counting(s) ==
  {p \in Threads : /\ pc[p] = "record"
                   /\ job[p].setup = s
                   /\ call[p].pc \notin {"done", "failed"}}

SessionBehindLedger ==
  \A s \in Setups : counted[s] + Cardinality(Counting(s)) <= closes[s]

(***************************************************************************)
(* Properties of reviews, which write without a second look at the status. *)
(***************************************************************************)

\* The status shown for a setup is the state of its paper trade.
SetupMatchesTrade ==
  \A s \in Setups :
    /\ setup[s] = "PAPER_OPEN" <=> trade[s].status = "OPEN"
    /\ setup[s] = "PAPER_CLOSED" <=> trade[s].status = "CLOSED"

\* No two threads are between the SELECT and the UPDATE of a review of one setup.
ReviewsApart ==
  \A p, q \in Threads :
    pc[p] = "review" /\ pc[q] = "review" /\ job[p].setup = job[q].setup => p = q

\* Two reviews of one setup under way at once are all that can make the status
\* shown for it another than that of its trade: no race of executions, closes and
\* one review of each setup does, nor a fault.
StatusIfApart == []ReviewsApart => []SetupMatchesTrade

\* While no two reviews of one setup overlap, a trade is opened only on a setup
\* whose approval still stands when the row is inserted, however long ago the gate
\* looked at it.
EntryOnlyFromApproved ==
  [][\A s \in Setups :
       trade[s].status = "NONE" /\ trade'[s].status = "OPEN" => setup[s] = "APPROVED"]_vars

(***************************************************************************)
(* The counters and the limits that rest on them.  Racing handlers break   *)
(* these promises; the last three properties say which overlaps do.        *)
(***************************************************************************)
Closed == {s \in Setups : trade[s].status = "CLOSED"}

\* When no handler is running, the session counters are those of the closed
\* paper trades: each of them was counted once, with its net result.
SessionMatchesLedger ==
  (\A p \in Threads : pc[p] = "idle") =>
    /\ \A s \in Setups : counted[s] = IF s \in Closed THEN 1 ELSE 0
    /\ SumFunction([d \in Day |-> session[d].daily_pnl])
         = SumFunction([s \in Closed |-> trade[s].net])

\* max_trades_per_day of the risk supervisor: no more paper trades than that
\* are opened on a trading day.
DailyTradeLimit ==
  \A d \in Day :
    Cardinality({s \in Setups : trade[s].status # "NONE" /\ trade[s].day = d}) <= MaxTrades

\* The consecutive-loss lockout and the daily loss limit: no request is about to
\* insert a paper trade while the results of the day end in max_consecutive_losses
\* losses, or add up to the limit.
LockoutHolds ==
  \A p \in Threads :
    pc[p] = "insert" =>
      /\ TrailingLosses(results[today]) < MaxStreak
      /\ SumFunction(results[today]) > -LossLimit

\* No two threads close the same trade: from finding it to its UPDATE.
ClosesApart ==
  \A p, q \in Threads :
    /\ pc[p] \in {"check", "close"} /\ pc[q] \in {"check", "close"}
    /\ job[p].setup = job[q].setup
    => p = q

\* No store call raises once a close is committed: its result gets counted.
ResultsStored == \A p \in Threads : pc[p] = "record" => call[p].pc # "failed"

\* While a request is between the gate and its INSERT no other thread inserts a
\* trade or records a result.
EntriesApart ==
  \A p, q \in Threads :
    p # q /\ pc[p] \in {"session", "recheck", "insert"} => pc[q] \notin {"insert", "record"}

\* Two threads that close the same trade, and a call that raises after the close,
\* are all that can set the counters and the ledger apart.
LedgerIfApart == [](ClosesApart /\ ResultsStored) => []SessionMatchesLedger

\* Another thread that inserts a trade, or is recording a result, between a
\* request's gate and its INSERT, and a close whose result is lost, are all that
\* can break the daily trade limit: trades closed twice and midnight cannot.
LimitIfApart == [](EntriesApart /\ ResultsStored) => []DailyTradeLimit

\* The first of these, and two results recorded at once, are all that can break
\* the lockout: calls that raise and midnight cannot.
LockoutIfApart == [](EntriesApart /\ UpdatesApart) => []LockoutHolds
=============================================================================

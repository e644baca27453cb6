----------------------------- MODULE MonitorLoop -----------------------------
(***************************************************************************)
(* The worker of app/paper_monitor.py: run_monitor_loop and its iteration  *)
(* monitor_once, which watches the open paper trade and closes it at the   *)
(* stop, at a target or at the end of the day.  The question here is       *)
(* whether exits are taken, so of the tables only the newest trade is      *)
(* kept; what a close does to them is in module PaperTrading.              *)
(*                                                                         *)
(* A price is the zone it lies in.  The counters of the status endpoint,   *)
(* the monitor events and the notification file are left out: what matters *)
(* here is that writing them may raise.                                    *)
(***************************************************************************)
EXTENDS Naturals

CONSTANTS
  Plans,       \* the sets of targets a trade may have
  MaxTrades,   \* bound: trades opened
  MaxReboots   \* bound: restarts of the process

ASSUME MonitorLoopAssumption ==
  /\ Plans \subseteq SUBSET {"target_1", "target_2"}
  /\ MaxTrades \in Nat
  /\ MaxReboots \in Nat

VARIABLES
  trade,     \* the newest row of paper_trades; id 0 is none
  price,     \* the zone of the market price of its option, or "none": no quote
  eod,       \* it is past paper_eod_exit_time
  store,     \* the database and the notification file can be written
  worker,    \* where the worker is
  found,     \* local trade of monitor_once
  quote,     \* local current_price
  quoted,    \* history: the newest row when that price was fetched
  exit,      \* local reason of _close_if_required
  running,   \* _state.running
  built,     \* history: data_source_factory never raised
  reboots

workerLocals == <<found, quote, quoted, exit>>
market == <<price, eod, store>>
monitorVars == <<trade, market, worker, workerLocals, running, built, reboots>>

\* In ascending order; "stop" ends, and each other zone begins, with its level.
Zone == {"stop", "between", "target_1", "target_2"}

Trade == [id : 0..MaxTrades, open : BOOLEAN, targets : Plans \cup {{}}]

NoTrade == [id |-> 0, open |-> FALSE, targets |-> {}]

Reason == {"END_OF_DAY", "STOP_LOSS", "TARGET_1", "TARGET_2"}

WorkerPc ==
  {"start", "look", "quote", "judge", "hold", "close", "record", "event", "notify", "error", "sleep", "dead"}

MonitorTypeOK ==
  /\ trade \in Trade
  /\ price \in Zone \cup {"none"}
  /\ eod \in BOOLEAN
  /\ store \in BOOLEAN
  /\ worker \in WorkerPc
  /\ found \in Trade
  /\ quote \in Zone \cup {"none"}
  /\ quoted \in Trade
  /\ exit \in Reason \cup {"none"}
  /\ running \in BOOLEAN
  /\ built \in BOOLEAN
  /\ reboots \in 0..MaxReboots

MonitorInit ==
  /\ trade = NoTrade
  /\ price \in Zone \cup {"none"}
  /\ eod = FALSE
  /\ store = TRUE
  /\ worker = "start"
  /\ found = NoTrade
  /\ quote = "none"
  /\ quoted = NoTrade
  /\ exit = "none"
  /\ running = FALSE
  /\ built = TRUE
  /\ reboots = 0

-----------------------------------------------------------------------------
\* The locals of monitor_once are gone.
Forget ==
  /\ found' = NoTrade
  /\ quote' = "none"
  /\ quoted' = NoTrade
  /\ exit' = "none"

\* The iteration returns.
Return ==
  /\ worker' = "sleep"
  /\ Forget
  /\ UNCHANGED running

\* An exception reaches run_monitor_loop, which handles cancellation only:
\* the task ends, after the finally clause.
Escape ==
  /\ worker' = "dead"
  /\ Forget
  /\ running' = FALSE

\* An exception in the try block of monitor_once.
Caught ==
  /\ worker' = "error"
  /\ UNCHANGED <<workerLocals, running>>

Continue(next) ==
  /\ worker' = next
  /\ UNCHANGED <<workerLocals, running>>

\* data_source_factory builds the client in the first iteration, on the event
\* loop, and may raise.
StartWorker ==
  /\ worker = "start"
  /\ \/ worker' = "look" /\ running' = TRUE /\ UNCHANGED <<workerLocals, built>>
     \/ Escape /\ built' = FALSE
  /\ UNCHANGED <<trade, market, reboots>>

\* asyncio.sleep is over.
Wake ==
  /\ worker = "sleep"
  /\ Continue("look")
  /\ UNCHANGED <<trade, market, built, reboots>>

-----------------------------------------------------------------------------
(* monitor_once *)

\* get_open_paper_trade is called outside the try block.
Look ==
  /\ worker = "look"
  /\ \/ ~store /\ Escape
     \/ store /\ ~trade.open /\ Return
     \/ store /\ trade.open /\ worker' = "quote" /\ found' = trade
        /\ UNCHANGED <<quote, quoted, exit, running>>
  /\ UNCHANGED <<trade, market, built, reboots>>

\* _option_price raises if the chain has no quote of the strike.
Quote ==
  /\ worker = "quote"
  /\ \/ price = "none" /\ Caught
     \/ price # "none" /\ worker' = "judge" /\ quote' = price /\ quoted' = trade
        /\ UNCHANGED <<found, exit, running>>
  /\ UNCHANGED <<trade, market, built, reboots>>

\* mutant: the action is returned as if it were a reason
ExitReasonHold(zone, late, targets) ==
  IF late THEN "END_OF_DAY" ELSE IF zone = "stop" THEN "STOP_LOSS" ELSE "HOLD"

\* mutant: the end of the day does not force an exit
ExitReasonNotLate(zone, late, targets) ==
  CASE zone = "stop" -> "STOP_LOSS"
    [] zone \in {"target_1", "target_2"} /\ targets # {} -> "TARGET_1"
    [] OTHER -> "none"

\* The exit that _close_if_required finds.
ExitReason(zone, late, targets) ==
  CASE late -> "END_OF_DAY"
    [] ~late /\ zone = "stop" -> "STOP_LOSS"
    [] ~late /\ zone = "target_2" /\ "target_2" \in targets -> "TARGET_2"
    [] ~late /\ zone = "target_2" /\ targets = {"target_1"} -> "TARGET_1"
    [] ~late /\ zone = "target_1" /\ "target_1" \in targets -> "TARGET_1"
    [] OTHER -> "none"

Judge ==
  /\ worker = "judge"
  /\ exit' = ExitReason(quote, eod, found.targets)
  /\ worker' = IF exit' = "none" THEN "hold" ELSE "close"
  /\ UNCHANGED <<trade, market, found, quote, quoted, running, built, reboots>>

\* record_paper_monitor_event of a trade that is kept.
Hold ==
  /\ worker = "hold"
  /\ IF store THEN Return ELSE Caught
  /\ UNCHANGED <<trade, market, built, reboots>>

\* mutant: whichever trade is open is closed
StillOpenAny == trade.open

\* What close_paper_trade checks of the row it reads again, by its id.
StillOpen == trade.open /\ trade.id = found.id

\* close_paper_trade; None is ALREADY_CLOSED.
Close ==
  /\ worker = "close"
  /\ \/ ~store /\ Caught /\ UNCHANGED trade
     \/ store /\ ~StillOpen /\ Return /\ UNCHANGED trade
     \/ store /\ StillOpen /\ Continue("record") /\ trade' = [trade EXCEPT !.open = FALSE]
  /\ UNCHANGED <<market, built, reboots>>

\* record_trade_result, and then record_paper_monitor_event.
AfterClose(here, next) ==
  /\ worker = here
  /\ IF store THEN Continue(next) ELSE Caught
  /\ UNCHANGED <<trade, market, built, reboots>>

\* _write_notification.
Notify ==
  /\ worker = "notify"
  /\ IF store THEN Return ELSE Caught
  /\ UNCHANGED <<trade, market, built, reboots>>

\* The except clause calls the store once more, and nothing catches that.
HandleError ==
  /\ worker = "error"
  /\ IF store THEN Return ELSE Escape
  /\ UNCHANGED <<trade, market, built, reboots>>

WorkerStep ==
  \/ StartWorker \/ Wake \/ Look \/ Quote \/ Judge \/ Hold \/ Close
  \/ AfterClose("record", "event") \/ AfterClose("event", "notify") \/ Notify
  \/ HandleError

-----------------------------------------------------------------------------
(* The others, and the world around. *)

\* The execute endpoint; one trade is open at a time.
OpenTrade ==
  /\ ~trade.open
  /\ trade.id < MaxTrades
  /\ \E plan \in Plans : trade' = [id |-> trade.id + 1, open |-> TRUE, targets |-> plan]
  /\ UNCHANGED <<market, worker, workerLocals, running, built, reboots>>

\* The close endpoint, or an iteration that the run-once endpoint asked for.
CloseElsewhere ==
  /\ trade.open
  /\ trade' = [trade EXCEPT !.open = FALSE]
  /\ UNCHANGED <<market, worker, workerLocals, running, built, reboots>>

\* The price moves, the exit time passes or midnight does, the disk is full or
\* the database locked.
WorldChanges ==
  /\ \/ price' \in (Zone \cup {"none"}) \ {price} /\ UNCHANGED <<eod, store>>
     \/ eod' = ~eod /\ UNCHANGED <<price, store>>
     \/ store' = ~store /\ UNCHANGED <<price, eod>>
  /\ UNCHANGED <<trade, worker, workerLocals, running, built, reboots>>

\* The process ends anywhere and starts again.
RestartProcess ==
  /\ reboots < MaxReboots
  /\ reboots' = reboots + 1
  /\ worker' = "start"
  /\ Forget
  /\ running' = FALSE
  /\ UNCHANGED <<trade, market, built>>

MonitorNext == WorkerStep \/ OpenTrade \/ CloseElsewhere \/ WorldChanges \/ RestartProcess

\* The event loop wakes the worker after paper_monitor_interval_sec, and its
\* calls return: kiteconnect and SQLite give up after timeouts of their own.
MonitorSpec == MonitorInit /\ [][MonitorNext]_monitorVars /\ WF_monitorVars(WorkerStep)

-----------------------------------------------------------------------------
\* However slowly an iteration goes, and whatever opens and closes meanwhile, a
\* trade is closed on a quote that was fetched while that very trade was open,
\* for a reason which its own stop and targets, or the end of the day, give at
\* that quote.
ExitFitsTrade ==
  [][worker = "close" /\ worker' = "record" =>
       /\ quoted.open /\ quoted.id = trade.id
       /\ exit # "none"
       /\ \E late \in BOOLEAN : exit = ExitReason(quote, late, trade.targets)]_monitorVars

\* Exits are taken: while the database can be written, no trade stays open for
\* ever at its stop, at a target of its plan, or past the end of the day with
\* a quote, also when the process is restarted on the way.
ExitsAreTaken ==
  [](store /\ built) =>
    /\ <>[](price = "stop") => []<>~trade.open
    /\ <>[](price = "target_2") => []<>(trade.open => trade.targets = {})
    /\ <>[](eod /\ price # "none") => []<>~trade.open

\* What the README promises of the monitor without conditions, once nothing is
\* wrong any more: the open trade is closed at the end of the day.
EndOfDayExit ==
  []built /\ <>[](store /\ eod /\ price # "none") => []<>~trade.open
=============================================================================

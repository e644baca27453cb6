------------------------------ MODULE Sessions ------------------------------
(***************************************************************************)
(* The sessions table of app/store.py: one row of counters per trading     *)
(* day, created on demand and updated whenever a position or paper trade   *)
(* is closed.                                                              *)
(*                                                                         *)
(* FastAPI runs the synchronous handlers in a thread pool and the paper    *)
(* monitor in a worker thread, so several threads call the store at once.  *)
(* Each store function opens its own SQLite connection.  Python's sqlite3  *)
(* opens a transaction only before the first INSERT or UPDATE: a SELECT    *)
(* stands alone, and one action below is one SELECT or one write with the  *)
(* commit that follows it.                                                 *)
(*                                                                         *)
(* A row keeps the columns the risk gate and the analytics read.  gross_pnl*)
(* and the grade and skip counters are further "col = col + x" columns;    *)
(* best_trade and worst_trade are computed from the same SELECT as         *)
(* consecutive_losses.                                                     *)
(***************************************************************************)
EXTENDS Integers, Sequences

CONSTANTS
  Threads,    \* the threads that may call the store
  NumDays,    \* the number of trading days of a behaviour
  Pnls,       \* the results a trade can have, in rupees
  Faults,     \* whether a store call may raise (a locked database, a crash)
  MaxResults  \* bound of SessionsNext: results recorded per day

ASSUME SessionsAssumption ==
  /\ NumDays \in Nat \ {0}
  /\ Pnls \subseteq Int
  /\ Faults \in BOOLEAN
  /\ MaxResults \in Nat

Day == 1 .. NumDays

VARIABLES
  today,    \* the date in the app's timezone
  rows,     \* the trading days that have a row
  session,  \* the row of each day; EmptyRow where there is none
  results,  \* history: for each day, the results in the order of the UPDATEs
  call      \* the store call each thread is in, with its local variables

sessionVars == <<today, rows, session, results, call>>

EmptyRow ==
  [trades_today |-> 0, daily_pnl |-> 0, wins |-> 0, losses |-> 0,
   consecutive_losses |-> 0]

Row ==
  [trades_today : Nat, daily_pnl : Int, wins : Nat, losses : Nat,
   consecutive_losses : Nat]

CallPc == {"none", "lookup", "insert", "read", "update", "done", "failed"}

\* op "get" is get_session_dict, op "record" is record_trade_result.
Call == [pc : CallPc, op : {"get", "record"}, day : Day, pnl : Int, row : Row]

NoCall == [pc |-> "none", op |-> "get", day |-> 1, pnl |-> 0, row |-> EmptyRow]

SessionsTypeOK ==
  /\ today \in Day
  /\ rows \subseteq Day
  /\ session \in [Day -> Row]
  /\ results \in [Day -> Seq(Pnls)]
  /\ call \in [Threads -> Call]

SessionsInit ==
  /\ today = 1
  /\ rows = {}
  /\ session = [d \in Day |-> EmptyRow]
  /\ results = [d \in Day |-> << >>]
  /\ call = [p \in Threads |-> NoCall]

-----------------------------------------------------------------------------
(***************************************************************************)
(* Calls.  Both functions fix the trading day when they are entered.       *)
(***************************************************************************)
Begin(p, op, pnl) ==
  /\ call[p].pc = "none"
  /\ call' = [call EXCEPT ![p] =
       [pc |-> "lookup", op |-> op, day |-> today, pnl |-> pnl, row |-> EmptyRow]]

BeginGet(p) == Begin(p, "get", 0)

BeginRecord(p, pnl) == Begin(p, "record", pnl)

(***************************************************************************)
(* get_or_create_session_row returned: get_session_dict is complete, and   *)
(* record_trade_result goes on with a SELECT of its own.                   *)
(***************************************************************************)
RowAvailable(p, row) ==
  call' = [call EXCEPT ![p].pc = IF call[p].op = "get" THEN "done" ELSE "read",
                       ![p].row = row]

LookupRow(p) ==
  LET d == call[p].day IN
  /\ call[p].pc = "lookup"
  /\ \/ d \in rows /\ RowAvailable(p, session[d])
     \/ d \notin rows /\ call' = [call EXCEPT ![p].pc = "insert"]
  /\ UNCHANGED <<today, rows, session, results>>

\* mutant: INSERT OR REPLACE instead of INSERT
InsertRowReplacing(p) ==
  LET d == call[p].day IN
  /\ call[p].pc = "insert"
  /\ rows' = rows \cup {d}
  /\ session' = [session EXCEPT ![d] = EmptyRow]
  /\ RowAvailable(p, EmptyRow)
  /\ UNCHANGED <<today, results>>

\* trading_day is the PRIMARY KEY: a row another thread created since LookupRow
\* makes this INSERT raise IntegrityError.
InsertRow(p) ==
  LET d == call[p].day IN
  /\ call[p].pc = "insert"
  /\ \/ /\ d \notin rows
        /\ rows' = rows \cup {d}
        /\ session' = [session EXCEPT ![d] = EmptyRow]
        /\ RowAvailable(p, EmptyRow)
     \/ /\ d \in rows
        /\ call' = [call EXCEPT ![p].pc = "failed"]
        /\ UNCHANGED <<rows, session>>
  /\ UNCHANGED <<today, results>>

ReadRow(p) ==
  /\ call[p].pc = "read"
  /\ call' = [call EXCEPT ![p].pc = "update", ![p].row = session[call[p].day]]
  /\ UNCHANGED <<today, rows, session, results>>

\* mutant: every counter written back from the SELECT
UpdatedRowFromRead(current, read, pnl) ==
  [trades_today |-> read.trades_today + 1,
   daily_pnl    |-> read.daily_pnl + pnl,
   wins         |-> IF pnl > 0 THEN read.wins + 1 ELSE read.wins,
   losses       |-> IF pnl > 0 THEN read.losses ELSE read.losses + 1,
   consecutive_losses |-> IF pnl > 0 THEN 0 ELSE read.consecutive_losses + 1]

\* mutant: the streak grows with every result
UpdatedRowEveryResult(current, read, pnl) ==
  [trades_today |-> current.trades_today + 1,
   daily_pnl    |-> current.daily_pnl + pnl,
   wins         |-> IF pnl > 0 THEN current.wins + 1 ELSE current.wins,
   losses       |-> IF pnl > 0 THEN current.losses ELSE current.losses + 1,
   consecutive_losses |-> read.consecutive_losses + 1]

\* mutant: a win takes one loss off the streak
UpdatedRowWinSubtracts(current, read, pnl) ==
  [UpdatedRowEveryResult(current, read, pnl) EXCEPT
     !.consecutive_losses = IF pnl > 0 THEN read.consecutive_losses - 1 ELSE @]

\* mutant: the absolute result, as in gross_pnl, enters daily_pnl
UpdatedRowGross(current, read, pnl) ==
  [UpdatedRowFromRead(current, current, pnl) EXCEPT
     !.daily_pnl = current.daily_pnl + (IF pnl > 0 THEN pnl ELSE -pnl)]

(***************************************************************************)
(* The UPDATE of record_trade_result: the totals are "col = col + x" of    *)
(* the row as it is now, the streak is computed from the row read before.  *)
(***************************************************************************)
UpdatedRow(current, read, pnl) ==
  [trades_today |-> current.trades_today + 1,
   daily_pnl    |-> current.daily_pnl + pnl,
   wins         |-> IF pnl > 0 THEN current.wins + 1 ELSE current.wins,
   losses       |-> IF pnl > 0 THEN current.losses ELSE current.losses + 1,
   consecutive_losses |-> IF pnl > 0 THEN 0 ELSE read.consecutive_losses + 1]

UpdateRow(p) ==
  LET c == call[p] IN
  /\ c.pc = "update"
  /\ session' = [session EXCEPT ![c.day] = UpdatedRow(@, c.row, c.pnl)]
  /\ results' = [results EXCEPT ![c.day] = Append(@, c.pnl)]
  /\ call' = [call EXCEPT ![p].pc = "done"]
  /\ UNCHANGED <<today, rows>>

\* A statement raises (the database stays locked beyond the timeout) or the
\* process dies; what is not committed is gone.
StoreError(p) ==
  /\ Faults
  /\ call[p].pc \in {"lookup", "insert", "read", "update"}
  /\ call' = [call EXCEPT ![p].pc = "failed"]
  /\ UNCHANGED <<today, rows, session, results>>

CallStep(p) ==
  \/ LookupRow(p)
  \/ InsertRow(p)
  \/ ReadRow(p)
  \/ UpdateRow(p)
  \/ StoreError(p)

\* The caller takes the returned value, or the exception.
Return(p) ==
  /\ call[p].pc \in {"done", "failed"}
  /\ call' = [call EXCEPT ![p] = NoCall]

NextDay ==
  /\ today < NumDays
  /\ today' = today + 1
  /\ UNCHANGED <<rows, session, results, call>>

-----------------------------------------------------------------------------
(***************************************************************************)
(* The table by itself, under any callers: the status and analytics        *)
(* endpoints get the row, the handlers that close a position or a paper    *)
(* trade record a result.                                                  *)
(***************************************************************************)
Caller(p) ==
  \/ BeginGet(p) /\ UNCHANGED <<today, rows, session, results>>
  \/ /\ Len(results[today]) < MaxResults
     /\ \E pnl \in Pnls : BeginRecord(p, pnl)
     /\ UNCHANGED <<today, rows, session, results>>
  \/ Return(p) /\ UNCHANGED <<today, rows, session, results>>

SessionsNext ==
  \/ \E p \in Threads : Caller(p) \/ CallStep(p)
  \/ NextDay

SessionsSpec == SessionsInit /\ [][SessionsNext]_sessionVars

-----------------------------------------------------------------------------
(***************************************************************************)
(* Properties of record_trade_result (store.py, lines 166-192).            *)
(***************************************************************************)

\* The totals of a row.
Totals(row) ==
  [trades_today |-> row.trades_today, daily_pnl |-> row.daily_pnl,
   wins |-> row.wins, losses |-> row.losses]

Ledger == INSTANCE DailyLedger WITH total <- [d \in Day |-> Totals(session[d])]

\* Whatever the threads do, the totals move as if each result entered them
\* in one step: none is lost to, or counted twice by, a concurrent call.
LedgerSpec == Ledger!Spec

\* Creating the row of a day never wipes results recorded on it: trades_today
\* is the number of results of the day, each of them a win or a loss.
CountersMatchResults ==
  \A d \in Day :
    /\ session[d].trades_today = Len(results[d])
    /\ session[d].trades_today = session[d].wins + session[d].losses

\* Two overlapping calls both write the streak that they read before, and lose
\* a loss, or a win.  But the lockout counter never exceeds the losses recorded
\* that day: trading is not locked out after N consecutive losses unless there
\* were N losses.
StreakWithinLosses ==
  \A d \in Day : session[d].consecutive_losses <= session[d].losses

\* The number of losses since the last win, in the order of the UPDATEs.
TrailingLosses(s) ==
  LET wonAt == {i \in DOMAIN s : s[i] > 0} IN
  IF wonAt = {} THEN Len(s)
  ELSE Len(s) - (CHOOSE i \in wonAt : \A j \in wonAt : j <= i)

StreakExact == \A d \in Day : session[d].consecutive_losses = TrailingLosses(results[d])

\* No two threads are between the SELECT and the UPDATE of one row.
UpdatesApart ==
  \A p, q \in Threads :
    call[p].pc = "update" /\ call[q].pc = "update" /\ call[p].day = call[q].day => p = q

\* Two threads between the SELECT and the UPDATE of one row are all that can falsify
\* the lockout counter.  In any behaviour without that, it is the number of losses
\* since the last win of the day, whatever rows are created, days end or calls raise.
StreakIfApart == []UpdatesApart => []StreakExact
=============================================================================

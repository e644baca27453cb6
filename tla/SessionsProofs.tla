--------------------------- MODULE SessionsProofs ---------------------------
(***************************************************************************)
(* The properties of the sessions table for any number of threads and      *)
(* days, any results, with and without faults.                             *)
(***************************************************************************)
EXTENDS Sessions, SumProofs, TLAPS

(***************************************************************************)
(* The inductive invariant.  The stated properties are not inductive by    *)
(* themselves: that InsertRow wipes nothing needs EmptyRows, and that the  *)
(* streak written back is no longer than the losses needs ReadStreak, for  *)
(* a row that was read before other threads recorded their results.        *)
(***************************************************************************)

\* A day without a row has no results yet.
EmptyRows ==
  \A d \in Day \ rows : session[d] = EmptyRow /\ results[d] = << >>

\* The steps after get_or_create_session_row belong to record_trade_result, whose
\* result is one a trade can have, and find a row.
CallsMakeSense ==
  \A p \in Threads :
    /\ call[p].pc \in {"read", "update"} => call[p].op = "record" /\ call[p].day \in rows
    /\ call[p].op = "record" => call[p].pnl \in Pnls

\* The streak a thread has read is within the losses recorded by now.
ReadStreak ==
  \A p \in Threads :
    call[p].pc = "update" =>
      call[p].row.consecutive_losses <= session[call[p].day].losses

\* The pnl of a day is the sum of its results.
PnlMatchesResults == \A d \in Day : session[d].daily_pnl = SumFunction(results[d])

SessionsInv ==
  /\ SessionsTypeOK
  /\ CountersMatchResults
  /\ PnlMatchesResults
  /\ StreakWithinLosses
  /\ EmptyRows
  /\ CallsMakeSense
  /\ ReadStreak

-----------------------------------------------------------------------------
(***************************************************************************)
(* The streak that TrailingLosses finds in a sequence of results.          *)
(***************************************************************************)
WonAt(s) == {i \in DOMAIN s : s[i] > 0}

LastOf(W) == CHOOSE i \in W : \A j \in W : j <= i

\* A set of positions has a last one.
LEMMA LastPosition ==
  ASSUME NEW n \in Nat, NEW W, W \subseteq 1 .. n, W # {}
  PROVE  LastOf(W) \in W /\ \A j \in W : j <= LastOf(W)
  <1> DEFINE left == {n - i : i \in W}
             less == OpToRel(<, Nat)
  <1>1. left \subseteq Nat /\ left # {}
    <2>1. \A i \in W : n - i \in Nat
      OBVIOUS
    <2> QED
      BY <2>1
  <1>2. PICK x \in left : \A y \in left : ~(<<y, x>> \in less)
    BY <1>1, NatLessThanWellFounded, WFMin
  <1>3. \A y \in left : x <= y
    <2>1. \A y, z \in Nat : y < z => <<y, z>> \in {ss \in Nat \X Nat : ss[1] < ss[2]}
      OBVIOUS
    <2>2. less = {ss \in Nat \X Nat : ss[1] < ss[2]}
      BY DEF OpToRel
    <2>3. \A y \in left : ~(y < x)
      BY <1>1, <1>2, <2>1, <2>2
    <2> HIDE DEF left
    <2>4. x \in Nat /\ \A y \in left : y \in Nat
      BY <1>1
    <2> QED
      BY <2>3, <2>4
  <1>4. PICK i \in W : x = n - i
    OBVIOUS
  <1>5. \A j \in W : n - i <= n - j /\ i \in 1 .. n /\ j \in 1 .. n
    BY <1>3, <1>4
  <1>6. \A j \in W : j <= i
    BY <1>5
  <1> QED
    BY <1>6 DEF LastOf

LEMMA TrailingFacts ==
  ASSUME NEW s
  PROVE  TrailingLosses(s)
           = IF WonAt(s) = {} THEN Len(s) ELSE Len(s) - LastOf(WonAt(s))
  BY DEF TrailingLosses, WonAt, LastOf

\* A streak starts at 0; a win ends it, a loss makes it longer.
LEMMA NoTrailingLosses == TrailingLosses(<< >>) = 0
  <1>1. WonAt(<< >>) = {}
    BY DEF WonAt
  <1> QED
    BY <1>1, TrailingFacts

LEMMA TrailingAppend ==
  ASSUME NEW R, R \subseteq Int, NEW s \in Seq(R), NEW e \in R
  PROVE  TrailingLosses(Append(s, e)) = IF e > 0 THEN 0 ELSE TrailingLosses(s) + 1
  <1> DEFINE t == Append(s, e)
             n == Len(s)
  <1>1. /\ n \in Nat /\ DOMAIN s = 1 .. n /\ DOMAIN t = 1 .. (n + 1)
        /\ Len(s) = n /\ Len(t) = n + 1
    OBVIOUS
  <1>2. t[n + 1] = e /\ \A i \in 1 .. n : t[i] = s[i]
    OBVIOUS
  <1> SUFFICES TrailingLosses(t) = IF e > 0 THEN 0 ELSE TrailingLosses(s) + 1
    OBVIOUS
  <1> HIDE DEF t, n
  <1>3. /\ TrailingLosses(t) = IF WonAt(t) = {} THEN Len(t) ELSE Len(t) - LastOf(WonAt(t))
        /\ TrailingLosses(s) = IF WonAt(s) = {} THEN Len(s) ELSE Len(s) - LastOf(WonAt(s))
    BY Zenon, TrailingFacts
  <1>4. CASE e > 0
    <2>1. n + 1 \in WonAt(t) /\ WonAt(t) \subseteq 1 .. (n + 1)
      BY <1>1, <1>2, <1>4 DEF WonAt
    <2>2. LastOf(WonAt(t)) \in 1 .. (n + 1) /\ n + 1 <= LastOf(WonAt(t))
      BY <1>1, <2>1, LastPosition
    <2> QED
      BY <1>1, <1>3, <1>4, <2>1, <2>2
  <1>5. CASE ~(e > 0)
    <2>1. WonAt(t) = WonAt(s) /\ WonAt(s) \subseteq 1 .. n
      BY <1>1, <1>2, <1>5 DEF WonAt
    <2>2. WonAt(s) # {} => LastOf(WonAt(s)) \in 1 .. n
      BY <1>1, <2>1, LastPosition
    <2> QED
      BY <1>1, <1>3, <1>5, <2>1, <2>2
  <1> QED
    BY <1>4, <1>5

-----------------------------------------------------------------------------
\* A new row is a row of zeros.
LEMMA EmptyRowIsRow == EmptyRow \in Row
  BY DEF EmptyRow, Row

\* The UPDATE keeps the types, counts one result, and leaves a streak within
\* the losses if the streak it read was.
LEMMA UpdatedRowFacts ==
  ASSUME NEW current \in Row, NEW read \in Row, NEW pnl \in Int
  PROVE  LET new == UpdatedRow(current, read, pnl) IN
         /\ new \in Row
         /\ new.trades_today = current.trades_today + 1
         /\ new.wins + new.losses = current.wins + current.losses + 1
         /\ new.daily_pnl = current.daily_pnl + pnl
         /\ new.losses >= current.losses
         /\ read.consecutive_losses <= current.losses =>
              new.consecutive_losses <= new.losses
  BY DEF UpdatedRow, Row

-----------------------------------------------------------------------------
(***************************************************************************)
(* The invariant holds initially and is preserved by each step of a call,  *)
(* whoever makes it.                                                       *)
(***************************************************************************)
\* A step that leaves the table and the calls alone.
LEMMA SessionsKept == ASSUME SessionsInv, UNCHANGED sessionVars PROVE SessionsInv'
  BY DEF sessionVars, SessionsInv, SessionsTypeOK, CountersMatchResults, PnlMatchesResults,
         StreakWithinLosses, EmptyRows, CallsMakeSense, ReadStreak

LEMMA InitInv == SessionsInit => SessionsInv
  <1> SUFFICES ASSUME SessionsInit PROVE SessionsInv
    OBVIOUS
  <1>1. 1 \in Day
    BY SessionsAssumption DEF Day
  <1>2. SessionsTypeOK
    BY <1>1, EmptyRowIsRow DEF SessionsInit, SessionsTypeOK, NoCall, Call, CallPc
  <1>3. CountersMatchResults /\ PnlMatchesResults /\ StreakWithinLosses /\ EmptyRows
    BY SumOfNoResults
    DEF SessionsInit, CountersMatchResults, PnlMatchesResults, StreakWithinLosses, EmptyRows,
        EmptyRow
  <1>4. CallsMakeSense /\ ReadStreak
    BY DEF SessionsInit, CallsMakeSense, ReadStreak, NoCall
  <1> QED
    BY <1>2, <1>3, <1>4 DEF SessionsInv

\* A thread enters a store function.
LEMMA BeginInv ==
  ASSUME SessionsInv, NEW p \in Threads, NEW op \in {"get", "record"}, NEW pnl \in Int,
         op = "record" => pnl \in Pnls,
         Begin(p, op, pnl), UNCHANGED <<today, rows, session, results>>
  PROVE  SessionsInv'
  <1> USE DEF SessionsInv
  <1>1. SessionsTypeOK'
    BY EmptyRowIsRow DEF SessionsTypeOK, Begin, Call, CallPc
  <1>2. (CountersMatchResults /\ PnlMatchesResults /\ StreakWithinLosses /\ EmptyRows)'
    BY DEF CountersMatchResults, PnlMatchesResults, StreakWithinLosses, EmptyRows
  <1>3. (CallsMakeSense /\ ReadStreak)'
    BY DEF CallsMakeSense, ReadStreak, Begin, SessionsTypeOK
  <1> QED
    BY <1>1, <1>2, <1>3

\* A caller takes the outcome of its call.
LEMMA ReturnInv ==
  ASSUME SessionsInv, NEW p \in Threads,
         Return(p), UNCHANGED <<today, rows, session, results>>
  PROVE  SessionsInv'
  <1> USE DEF SessionsInv
  <1>1. SessionsTypeOK'
    <2>1. NoCall \in Call
      BY EmptyRowIsRow, SessionsAssumption DEF NoCall, Call, CallPc, Day
    <2> QED
      BY <2>1 DEF SessionsTypeOK, Return
  <1>2. (CountersMatchResults /\ PnlMatchesResults /\ StreakWithinLosses /\ EmptyRows)'
    BY DEF CountersMatchResults, PnlMatchesResults, StreakWithinLosses, EmptyRows
  <1>3. (CallsMakeSense /\ ReadStreak)'
    BY DEF CallsMakeSense, ReadStreak, Return, NoCall, SessionsTypeOK
  <1> QED
    BY <1>1, <1>2, <1>3

\* Midnight passes.
LEMMA NextDayInv == ASSUME SessionsInv, NextDay PROVE SessionsInv'
  BY SessionsAssumption
  DEF SessionsInv, NextDay, SessionsTypeOK, CountersMatchResults, PnlMatchesResults, StreakWithinLosses,
      EmptyRows, CallsMakeSense, ReadStreak, Day

-----------------------------------------------------------------------------
(***************************************************************************)
(* The steps inside a call.                                                *)
(***************************************************************************)

\* A step that only moves a thread on, to a row it may have, changes no table.
LEMMA MoveInv ==
  ASSUME SessionsInv, NEW p \in Threads, NEW c \in Call,
         c.pc \in {"read", "update"} => c.op = "record" /\ c.day \in rows,
         c.op = "record" => c.pnl \in Pnls,
         c.pc = "update" =>
           c.row.consecutive_losses <= session[c.day].losses,
         call' = [call EXCEPT ![p] = c], UNCHANGED <<today, rows, session, results>>
  PROVE  SessionsInv'
  <1> USE DEF SessionsInv
  <1>1. SessionsTypeOK'
    BY DEF SessionsTypeOK
  <1>2. (CountersMatchResults /\ PnlMatchesResults /\ StreakWithinLosses /\ EmptyRows)'
    BY DEF CountersMatchResults, PnlMatchesResults, StreakWithinLosses, EmptyRows
  <1>3. (CallsMakeSense /\ ReadStreak)'
    BY DEF CallsMakeSense, ReadStreak, SessionsTypeOK
  <1> QED
    BY <1>1, <1>2, <1>3

\* Once the row is there, a thread goes on with a SELECT or is done.
LEMMA RowAvailableFacts ==
  ASSUME SessionsTypeOK, NEW p \in Threads, NEW row \in Row, RowAvailable(p, row)
  PROVE  \E c \in Call :
           /\ call' = [call EXCEPT ![p] = c]
           /\ c.pc \in {"done", "read"}
           /\ c.pc = "read" => c.op # "get"
           /\ c.op = call[p].op /\ c.pnl = call[p].pnl /\ c.day = call[p].day
  <1> DEFINE c == [call[p] EXCEPT !.pc = IF call[p].op = "get" THEN "done" ELSE "read",
                                  !.row = row]
  <1>1. c \in Call
    BY DEF SessionsTypeOK, Call, CallPc
  <1>2. /\ c.pc = IF call[p].op = "get" THEN "done" ELSE "read"
        /\ c.op = call[p].op /\ c.pnl = call[p].pnl /\ c.day = call[p].day
    BY DEF SessionsTypeOK, Call
  <1>3. call' = [call EXCEPT ![p] = c]
    BY DEF SessionsTypeOK, RowAvailable
  <1> HIDE DEF c
  <1> QED
    BY <1>1, <1>2, <1>3

LEMMA LookupRowInv ==
  ASSUME SessionsInv, NEW p \in Threads, LookupRow(p) PROVE SessionsInv'
  <1> USE DEF SessionsInv
  <1>1. CASE call[p].day \in rows /\ RowAvailable(p, session[call[p].day])
    <2>1. session[call[p].day] \in Row
      BY DEF SessionsTypeOK, Call
    <2>2. PICK c \in Call :
             /\ call' = [call EXCEPT ![p] = c]
             /\ c.pc \in {"done", "read"}
             /\ c.pc = "read" => c.op # "get"
             /\ c.op = call[p].op /\ c.pnl = call[p].pnl /\ c.day = call[p].day
      BY <1>1, <2>1, RowAvailableFacts
    <2>3. c.op \in {"get", "record"}
      BY DEF Call
    <2>4. c.op = "record" => c.pnl \in Pnls
      BY <2>2 DEF CallsMakeSense
    <2>5. c.day \in rows
      BY <1>1, <2>2
    <2> QED
      BY <2>2, <2>3, <2>4, <2>5, MoveInv DEF LookupRow
  <1>2. CASE call' = [call EXCEPT ![p].pc = "insert"]
    <2> DEFINE c == [call[p] EXCEPT !.pc = "insert"]
    <2>1. /\ c \in Call /\ c.pc = "insert" /\ c.op = call[p].op /\ c.pnl = call[p].pnl
          /\ call' = [call EXCEPT ![p] = c]
      BY <1>2 DEF SessionsTypeOK, Call, CallPc
    <2> HIDE DEF c
    <2> QED
      BY <2>1, MoveInv DEF LookupRow, CallsMakeSense
  <1> QED
    BY <1>1, <1>2 DEF LookupRow

LEMMA InsertRowInv ==
  ASSUME SessionsInv, NEW p \in Threads, InsertRow(p) PROVE SessionsInv'
  <1> USE DEF SessionsInv
  <1> DEFINE d == call[p].day
  <1>0. d \in Day
    BY DEF SessionsTypeOK, Call
  <1>1. CASE /\ d \notin rows
             /\ rows' = rows \cup {d}
             /\ session' = [session EXCEPT ![d] = EmptyRow]
             /\ RowAvailable(p, EmptyRow)
    <2>1. PICK c \in Call :
             /\ call' = [call EXCEPT ![p] = c]
             /\ c.pc \in {"done", "read"}
             /\ c.pc = "read" => c.op # "get"
             /\ c.op = call[p].op /\ c.pnl = call[p].pnl /\ c.day = call[p].day
      BY <1>1, EmptyRowIsRow, RowAvailableFacts
    <2>2. session' = session /\ UNCHANGED <<today, results>>
      BY <1>0, <1>1 DEF EmptyRows, SessionsTypeOK, InsertRow
    <2>3. SessionsTypeOK'
      BY <1>0, <1>1, <2>1, <2>2 DEF SessionsTypeOK
    <2>4. (CountersMatchResults /\ PnlMatchesResults /\ StreakWithinLosses /\ EmptyRows)'
      BY <1>1, <2>2 DEF CountersMatchResults, PnlMatchesResults, StreakWithinLosses, EmptyRows
    <2>5. c.op \in {"get", "record"}
      BY DEF Call
    <2>6. c.day \in rows'
      BY <1>1, <2>1
    <2>7. c.op = "record" => c.pnl \in Pnls
      BY <2>1 DEF CallsMakeSense
    <2>8. CallsMakeSense'
      BY <1>1, <2>1, <2>5, <2>6, <2>7 DEF CallsMakeSense, SessionsTypeOK
    <2>9. ReadStreak'
      BY <2>1, <2>2 DEF ReadStreak, SessionsTypeOK
    <2> QED
      BY <2>3, <2>4, <2>8, <2>9
  <1>2. CASE call' = [call EXCEPT ![p].pc = "failed"] /\ UNCHANGED <<rows, session>>
    <2> DEFINE c == [call[p] EXCEPT !.pc = "failed"]
    <2>1. /\ c \in Call /\ c.pc = "failed" /\ c.op = call[p].op /\ c.pnl = call[p].pnl
          /\ call' = [call EXCEPT ![p] = c]
      BY <1>2 DEF SessionsTypeOK, Call, CallPc
    <2> HIDE DEF c
    <2> QED
      BY <1>2, <2>1, MoveInv DEF InsertRow, CallsMakeSense
  <1> QED
    BY <1>1, <1>2 DEF InsertRow

LEMMA ReadRowInv ==
  ASSUME SessionsInv, NEW p \in Threads, ReadRow(p) PROVE SessionsInv'
  <1> USE DEF SessionsInv
  <1> DEFINE c == [call[p] EXCEPT !.pc = "update", !.row = session[call[p].day]]
  <1>1. session[call[p].day] \in Row /\ call[p].day \in Day
    BY DEF SessionsTypeOK, Call
  <1>2. /\ c \in Call /\ c.pc = "update" /\ c.op = call[p].op /\ c.pnl = call[p].pnl
        /\ c.day = call[p].day /\ c.row = session[call[p].day]
        /\ call' = [call EXCEPT ![p] = c]
    BY <1>1 DEF ReadRow, SessionsTypeOK, Call, CallPc
  <1> HIDE DEF c
  <1>3. c.op = "record" /\ c.pnl \in Pnls /\ c.day \in rows
    BY <1>2 DEF ReadRow, CallsMakeSense
  <1>4. c.row.consecutive_losses <= session[c.day].losses
    BY <1>1, <1>2 DEF StreakWithinLosses
  <1> QED
    BY <1>2, <1>3, <1>4, MoveInv DEF ReadRow

LEMMA StoreErrorInv ==
  ASSUME SessionsInv, NEW p \in Threads, StoreError(p) PROVE SessionsInv'
  <1> USE DEF SessionsInv
  <1> DEFINE c == [call[p] EXCEPT !.pc = "failed"]
  <1>1. /\ c \in Call /\ c.pc = "failed" /\ c.op = call[p].op /\ c.pnl = call[p].pnl
        /\ call' = [call EXCEPT ![p] = c]
    BY DEF StoreError, SessionsTypeOK, Call, CallPc
  <1> HIDE DEF c
  <1> QED
    BY <1>1, MoveInv DEF StoreError, CallsMakeSense

\* The one step that changes counters: a result of p's day is counted.
LEMMA UpdateRowInv ==
  ASSUME SessionsInv, NEW p \in Threads, UpdateRow(p) PROVE SessionsInv'
  <1> USE DEF SessionsInv
  <1> DEFINE d == call[p].day
             pnl == call[p].pnl
             read == call[p].row
             new == UpdatedRow(session[d], read, pnl)
  <1>1. /\ d \in Day /\ pnl \in Pnls /\ pnl \in Int /\ read \in Row
        /\ session[d] \in Row /\ results[d] \in Seq(Pnls)
        /\ read.consecutive_losses <= session[d].losses
    BY DEF UpdateRow, SessionsTypeOK, CallsMakeSense, ReadStreak, Call
  <1>2. /\ new \in Row
        /\ new.trades_today = session[d].trades_today + 1
        /\ new.wins + new.losses = session[d].wins + session[d].losses + 1
        /\ new.daily_pnl = session[d].daily_pnl + pnl
        /\ new.losses >= session[d].losses
        /\ new.consecutive_losses <= new.losses
    BY <1>1, UpdatedRowFacts
  <1>3. /\ session' = [session EXCEPT ![d] = new]
        /\ results' = [results EXCEPT ![d] = Append(results[d], pnl)]
        /\ call' = [call EXCEPT ![p].pc = "done"]
        /\ UNCHANGED <<today, rows>>
    BY DEF UpdateRow
  <1>4. /\ session'[d] = new
        /\ \A e \in Day \ {d} : session'[e] = session[e] /\ results'[e] = results[e]
        /\ results'[d] = Append(results[d], pnl)
    BY <1>1, <1>3 DEF SessionsTypeOK
  <1>5. Append(results[d], pnl) \in Seq(Pnls) /\ Len(Append(results[d], pnl)) = Len(results[d]) + 1
    BY <1>1
  <1>6. d \in rows
    BY DEF UpdateRow, CallsMakeSense
  <1>7. SessionsTypeOK'
    BY <1>1, <1>2, <1>3, <1>5 DEF SessionsTypeOK, Call, CallPc
  <1>8. CountersMatchResults'
    <2> SUFFICES ASSUME NEW e \in Day
                 PROVE  /\ session'[e].trades_today = Len(results'[e])
                        /\ session'[e].trades_today = session'[e].wins + session'[e].losses
      BY DEF CountersMatchResults
    <2>1. CASE e = d
      BY <2>1, <1>1, <1>2, <1>4, <1>5 DEF CountersMatchResults
    <2>2. CASE e # d
      BY <2>2, <1>4 DEF CountersMatchResults
    <2> QED
      BY <2>1, <2>2
  <1>9. StreakWithinLosses'
    BY <1>2, <1>4 DEF StreakWithinLosses
  <1>10. EmptyRows'
    BY <1>3, <1>4, <1>6 DEF EmptyRows
  <1>11. CallsMakeSense'
    BY <1>3 DEF CallsMakeSense, SessionsTypeOK
  <1>12. ReadStreak'
    <2> SUFFICES ASSUME NEW q \in Threads, call'[q].pc = "update"
                 PROVE  call'[q].row.consecutive_losses <= session'[call'[q].day].losses
      BY DEF ReadStreak
    <2>1. q # p /\ call'[q] = call[q] /\ call[q] \in Call
      BY <1>3 DEF SessionsTypeOK, Call
    <2>2. /\ call[q].row.consecutive_losses <= session[call[q].day].losses
          /\ call[q].day \in Day
          /\ call[q].row.consecutive_losses \in Nat
          /\ session[call[q].day].losses \in Nat
      BY <2>1 DEF ReadStreak, SessionsTypeOK, Call, Row
    <2>3. CASE call[q].day = d
      <3>1. session[d].losses \in Nat /\ new.losses \in Nat
        BY <1>1, <1>2 DEF Row
      <3> QED
        BY <2>1, <2>2, <2>3, <3>1, <1>2, <1>4
    <2>4. CASE call[q].day # d
      BY <2>1, <2>2, <2>4, <1>4
    <2> QED
      BY <2>3, <2>4
  <1>13. PnlMatchesResults'
    <2>1. SumFunction(Append(results[d], pnl)) = SumFunction(results[d]) + pnl
      BY <1>1, SessionsAssumption, SumAppend
    <2>2. session'[d].daily_pnl = SumFunction(results'[d])
      BY <1>1, <1>2, <1>4, <2>1 DEF PnlMatchesResults
    <2>3. \A e \in Day : e # d => session'[e].daily_pnl = SumFunction(results'[e])
      BY <1>4 DEF PnlMatchesResults
    <2> QED
      BY <2>2, <2>3 DEF PnlMatchesResults
  <1> QED
    BY <1>7, <1>8, <1>9, <1>10, <1>11, <1>12, <1>13

\* Inside a call a thread stays in it, for the same operation and day.
LEMMA CallStepFacts ==
  ASSUME SessionsTypeOK, NEW p \in Threads, CallStep(p)
  PROVE  /\ call[p].pc \notin {"none", "done", "failed"}
         /\ call'[p].pc # "none" /\ call'[p].op = call[p].op /\ call'[p].day = call[p].day
         /\ \A q \in Threads \ {p} : call'[q] = call[q]
         /\ today' = today
  BY DEF CallStep, LookupRow, InsertRow, ReadRow, UpdateRow, StoreError, RowAvailable,
         SessionsTypeOK, Call

LEMMA CallStepInv ==
  ASSUME SessionsInv, NEW p \in Threads, CallStep(p) PROVE SessionsInv'
  BY LookupRowInv, InsertRowInv, ReadRowInv, UpdateRowInv, StoreErrorInv DEF CallStep

-----------------------------------------------------------------------------
(***************************************************************************)
(* The theorems of the table under arbitrary callers.                      *)
(***************************************************************************)

\* The inductive invariant holds of every behaviour of the sessions table.
THEOREM SessionsInvariant == SessionsSpec => []SessionsInv
  <1>1. SessionsInv /\ [SessionsNext]_sessionVars => SessionsInv'
    <2> SUFFICES ASSUME SessionsInv, [SessionsNext]_sessionVars PROVE SessionsInv'
      OBVIOUS
    <2>1. ASSUME NEW p \in Threads, Caller(p) PROVE SessionsInv'
      <3>1. CASE BeginGet(p) /\ UNCHANGED <<today, rows, session, results>>
        BY <3>1, BeginInv DEF BeginGet
      <3>2. ASSUME NEW pnl \in Pnls, BeginRecord(p, pnl),
                   UNCHANGED <<today, rows, session, results>>
            PROVE  SessionsInv'
        <4>1. pnl \in Int
          BY SessionsAssumption
        <4> QED
          BY <3>2, <4>1, BeginInv DEF BeginRecord
      <3>3. CASE Return(p) /\ UNCHANGED <<today, rows, session, results>>
        BY <3>3, ReturnInv
      <3> QED
        BY <2>1, <3>1, <3>2, <3>3 DEF Caller
    <2>2. CASE UNCHANGED sessionVars
      BY <2>2, SessionsKept
    <2> QED
      BY <2>1, <2>2, CallStepInv, NextDayInv DEF SessionsNext
  <1> QED
    BY InitInv, <1>1, PTL DEF SessionsSpec

\* Every column keeps its type, for any threads, days and results.
THEOREM SessionsTypeCorrect == SessionsSpec => []SessionsTypeOK
  BY SessionsInvariant, PTL DEF SessionsInv

\* No row is wiped and no result is dropped: the counters of a day account for
\* each result recorded on it.
THEOREM CountersAlwaysMatch == SessionsSpec => []CountersMatchResults
  BY SessionsInvariant, PTL DEF SessionsInv

\* Though threads interleave, the pnl of a day is the sum of the results recorded
\* on it: what evaluate_paper_entry compares with the daily loss limit.
THEOREM PnlIsTheSum == SessionsSpec => []PnlMatchesResults
  BY SessionsInvariant, PTL DEF SessionsInv

\* A lockout after N consecutive losses implies N losses that day.
THEOREM LockoutNeedsLosses == SessionsSpec => []StreakWithinLosses
  BY SessionsInvariant, PTL DEF SessionsInv

-----------------------------------------------------------------------------
(***************************************************************************)
(* The table implements DailyLedger: UpdateRow is Ledger!Record, all other *)
(* steps leave the totals alone, InsertRow because of EmptyRows.           *)
(***************************************************************************)

LEMMA LedgerInit == SessionsInit => Ledger!Init
  BY DEF SessionsInit, Ledger!Init, Ledger!Zero, Totals, EmptyRow

\* What the UPDATE does to the totals does not depend on the row read before.
LEMMA UpdatedTotals ==
  ASSUME NEW current \in Row, NEW read, NEW pnl
  PROVE  Totals(UpdatedRow(current, read, pnl)) = Ledger!Add(Totals(current), pnl)
  BY DEF Totals, UpdatedRow, Ledger!Add

LEMMA LedgerStep ==
  ASSUME SessionsInv, NEW p \in Threads, CallStep(p)
  PROVE  Ledger!Next \/ UNCHANGED session
  <1> USE DEF SessionsInv
  <1>1. CASE InsertRow(p)
    BY <1>1 DEF InsertRow, EmptyRows, SessionsTypeOK, Call
  <1>2. CASE UpdateRow(p)
    <2> DEFINE d == call[p].day
               pnl == call[p].pnl
    <2>1. d \in Day /\ pnl \in Pnls /\ session[d] \in Row
      BY <1>2 DEF UpdateRow, SessionsTypeOK, CallsMakeSense, Call
    <2>2. session' = [session EXCEPT ![d] = UpdatedRow(session[d], call[p].row, pnl)]
      BY <1>2 DEF UpdateRow
    <2>3. Totals(UpdatedRow(session[d], call[p].row, pnl)) = Ledger!Add(Totals(session[d]), pnl)
      BY <2>1, UpdatedTotals
    <2>4. [e \in Day |-> Totals(session'[e])]
            = [[e \in Day |-> Totals(session[e])] EXCEPT
                 ![d] = Ledger!Add(Totals(session[d]), pnl)]
      BY <2>1, <2>2, <2>3 DEF SessionsTypeOK
    <2>5. Ledger!Record(d, pnl)
      BY <2>1, <2>4 DEF Ledger!Record
    <2> QED
      BY <2>1, <2>5 DEF Ledger!Next
  <1> QED
    BY <1>1, <1>2 DEF CallStep, LookupRow, ReadRow, StoreError

\* The concurrent table implements the one in which each result is counted in a
\* single indivisible step.
THEOREM ImplementsLedger == SessionsSpec => LedgerSpec
  <1>1. SessionsInv /\ [SessionsNext]_sessionVars
          => [Ledger!Next]_[d \in Day |-> Totals(session[d])]
    <2> SUFFICES ASSUME SessionsInv, [SessionsNext]_sessionVars
                 PROVE  Ledger!Next \/ UNCHANGED session
      OBVIOUS
    <2>1. ASSUME NEW p \in Threads, Caller(p) PROVE UNCHANGED session
      BY <2>1 DEF Caller
    <2>2. CASE NextDay \/ UNCHANGED sessionVars
      BY <2>2 DEF NextDay, sessionVars
    <2> QED
      BY <2>1, <2>2, LedgerStep DEF SessionsNext
  <1> QED
    BY LedgerInit, SessionsInvariant, <1>1, PTL DEF SessionsSpec, LedgerSpec, Ledger!Spec
-----------------------------------------------------------------------------
(***************************************************************************)
(* The streak.  The UPDATE writes it back from an earlier SELECT, and this *)
(* goes wrong in one way only: two threads are between their SELECT and    *)
(* their UPDATE of one row.  As long as that does not happen the streak is *)
(* exact, for any number of threads, with rows created and days ending at  *)
(* any step and with calls that raise.                                     *)
(***************************************************************************)
\* The streak a thread has read is still there.
StreakRead ==
  \A p \in Threads :
    call[p].pc = "update" =>
      call[p].row.consecutive_losses = session[call[p].day].consecutive_losses

StreakInv == StreakExact /\ StreakRead

LEMMA StreakInit == SessionsInit => StreakInv
  BY NoTrailingLosses DEF SessionsInit, StreakInv, StreakRead, StreakExact, NoCall, EmptyRow

\* A step in which no thread comes to its UPDATE, and no row changes.
LEMMA StreakKept ==
  ASSUME StreakInv, UNCHANGED <<session, results>>,
         \A p \in Threads : call'[p].pc = "update" => call'[p] = call[p]
  PROVE  StreakInv'
  BY DEF StreakInv, StreakRead, StreakExact

\* A thread enters a store function, or takes the outcome of its call.
LEMMA StreakCaller ==
  ASSUME SessionsTypeOK, StreakInv, NEW p \in Threads,
         Return(p) \/ \E op, pnl : Begin(p, op, pnl),
         UNCHANGED <<session, results>>
  PROVE  StreakInv'
  <1>1. /\ call'[p].pc \in {"none", "lookup"}
        /\ \A q \in Threads \ {p} : call'[q] = call[q]
    BY DEF Return, Begin, NoCall, SessionsTypeOK
  <1> QED
    BY <1>1, StreakKept

\* A step inside a call.
LEMMA StreakStep ==
  ASSUME SessionsInv, StreakInv, UpdatesApart, NEW p \in Threads, CallStep(p)
  PROVE  StreakInv'
  <1> DEFINE c == call[p]
             d == c.day
  <1>0. /\ d \in Day /\ c \in Call
        /\ SessionsTypeOK /\ EmptyRows /\ CallsMakeSense /\ StreakRead /\ StreakExact
        /\ call \in [Threads -> Call] /\ session \in [Day -> Row]
    BY DEF SessionsInv, SessionsTypeOK, Call, StreakInv
  <1>1. CASE LookupRow(p) \/ InsertRow(p) \/ StoreError(p)
    <2>1. UNCHANGED <<session, results>>
      <3>1. d \notin rows => session[d] = EmptyRow
        BY <1>0 DEF EmptyRows
      <3> QED
        BY <1>0, <1>1, <3>1 DEF LookupRow, InsertRow, StoreError
    <2>2. call'[p].pc # "update" /\ \A q \in Threads \ {p} : call'[q] = call[q]
      BY <1>0, <1>1 DEF LookupRow, InsertRow, StoreError, RowAvailable, Call
    <2> QED
      BY <2>1, <2>2, StreakKept
  <1>2. CASE ReadRow(p)
    <2>1. UNCHANGED <<rows, session, results>>
      BY <1>2 DEF ReadRow
    <2>2. /\ call'[p].pc = "update" /\ call'[p].day = d /\ call'[p].row = session[d]
          /\ \A q \in Threads \ {p} : call'[q] = call[q]
      BY <1>0, <1>2 DEF ReadRow, Call
    <2> QED
      BY <1>0, <2>1, <2>2 DEF StreakInv, StreakRead, StreakExact
  <1>3. CASE UpdateRow(p)
    <2>1. /\ c.op = "record" /\ c.pnl \in Pnls /\ results[d] \in Seq(Pnls)
          /\ c.row.consecutive_losses = session[d].consecutive_losses
      BY <1>0, <1>3 DEF UpdateRow, CallsMakeSense, StreakRead, SessionsTypeOK
    <2>2. /\ session' = [session EXCEPT ![d] = UpdatedRow(session[d], c.row, c.pnl)]
          /\ results' = [results EXCEPT ![d] = Append(results[d], c.pnl)]
          /\ call' = [call EXCEPT ![p].pc = "done"]
      BY <1>3 DEF UpdateRow
    <2>3. TrailingLosses(Append(results[d], c.pnl))
            = IF c.pnl > 0 THEN 0 ELSE TrailingLosses(results[d]) + 1
      BY <2>1, SessionsAssumption, TrailingAppend
    <2>4. session'[d].consecutive_losses
            = IF c.pnl > 0 THEN 0 ELSE session[d].consecutive_losses + 1
      BY <1>0, <2>1, <2>2 DEF UpdatedRow
    <2>5. session'[d].consecutive_losses = TrailingLosses(results'[d])
      BY <1>0, <2>2, <2>3, <2>4 DEF StreakExact, SessionsTypeOK
    <2>6. \A e \in Day \ {d} : session'[e] = session[e] /\ results'[e] = results[e]
      BY <1>0, <2>2 DEF SessionsTypeOK
    <2>7. StreakExact'
      BY <1>0, <2>5, <2>6 DEF StreakExact
    <2>8. call'[p].pc = "done" /\ \A q \in Threads \ {p} : call'[q] = call[q]
      BY <1>0, <2>2 DEF Call
    <2>9. \A q \in Threads \ {p} : call[q].pc = "update" => call[q].day \in Day \ {d}
      BY <1>0, <1>3 DEF UpdatesApart, UpdateRow, Call
    <2>10. StreakRead'
      BY <1>0, <2>6, <2>8, <2>9 DEF StreakRead
    <2> QED
      BY <2>7, <2>10 DEF StreakInv
  <1> QED
    BY <1>1, <1>2, <1>3 DEF CallStep

\* Only two threads that are between the SELECT and the UPDATE of one row can falsify
\* the lockout counter.  In any behaviour without that, it is the number of losses since
\* the last win of the day.
THEOREM StreakIsExact == SessionsSpec => StreakIfApart
  <1>1. SessionsInv /\ StreakInv /\ UpdatesApart /\ [SessionsNext]_sessionVars => StreakInv'
    <2> SUFFICES ASSUME SessionsInv, StreakInv, UpdatesApart, [SessionsNext]_sessionVars
                 PROVE  StreakInv'
      OBVIOUS
    <2>0. SessionsTypeOK
      BY DEF SessionsInv
    <2>1. ASSUME NEW p \in Threads, Caller(p) PROVE StreakInv'
      BY <2>0, <2>1, StreakCaller DEF Caller, BeginGet, BeginRecord
    <2>2. CASE NextDay \/ UNCHANGED sessionVars
      BY <2>2, StreakKept DEF NextDay, sessionVars
    <2> QED
      BY <2>1, <2>2, StreakStep DEF SessionsNext
  <1> QED
    BY SessionsInvariant, StreakInit, <1>1, PTL DEF SessionsSpec, StreakInv, StreakIfApart
=============================================================================

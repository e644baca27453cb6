------------------------------ MODULE RecordProofs ------------------------------
(***************************************************************************)
(* The two records that request threads append to: the history of          *)
(* institutional flow, and the log of live decisions with their setups.    *)
(* Both promises rest on the order of the steps of one call, and hold for  *)
(* any threads, requests, summaries and decisions.                         *)
(***************************************************************************)
EXTENDS FlowHistory, LiveDecision, TLAPS, FiniteSetTheorems, WellFoundedInduction

-----------------------------------------------------------------------------
(***************************************************************************)
(* The flow history.  Two calls that meet know of each other, so that a    *)
(* call which met none is the only one under way: until its INSERT the     *)
(* table is the one it read, every row of it captured earlier, and         *)
(* whatever is under way after the INSERT was captured later.              *)
(***************************************************************************)

\* Capture times, from the one clock.
TimesInv ==
  /\ \A r \in rows : r.at <= now
  /\ \A p \in Threads : Active(p) => call[p].at <= now
  /\ \A p \in Threads : Active(p) => \A r \in rows : r.at # call[p].at
  /\ \A p, q \in Threads : p # q /\ Active(p) /\ Active(q) => call[p].at # call[q].at
  /\ \A t \in plain : t <= now
  /\ \A p \in Threads : Active(p) => call[p].at \notin plain

\* A call that met no other.
AloneInv ==
  \A p \in Threads : Active(p) /\ call[p].alone =>
    /\ \A q \in Threads : Active(q) => q = p
    /\ \A r \in rows : r.at < call[p].at

\* The flag of a call that is about to insert.
JudgedInv ==
  \A p \in Threads : call[p].pc = "insert" /\ call[p].alone =>
    ("RAPID_FLOW_REVERSAL" \in call[p].codes
       <=> Reversal(call[p].summary.score, OfDay(call[p].day)))

\* The rows that were captured before r on its day.
Before(r) == {q \in OfDay(r.day) : q.at < r.at}

\* What is under way was captured after each plain row.
PlainInv ==
  \A r \in rows : r.at \in plain =>
    /\ \A p \in Threads : Active(p) => call[p].at > r.at
    /\ "RAPID_FLOW_REVERSAL" \in r.codes <=> Reversal(r.score, Before(r))

\* The reasons of flags, in the table and about to enter it.
Caused(codes, score, others) ==
  /\ "RAPID_FLOW_REVERSAL" \in codes => \E q \in others : Distance(score, q.score) >= Swing
  /\ codes \cap {"PCR_OUTLIER", "FLOW_SCORE_OUTLIER"} # {} => Cardinality(others) >= MinSamples

CauseInv ==
  \A p \in Threads : call[p].pc = "insert" =>
    Caused(call[p].codes, call[p].summary.score, OfDay(call[p].day))

FlowInv ==
  /\ FlowTypeOK
  /\ TimesInv
  /\ AloneInv
  /\ JudgedInv
  /\ PlainInv
  /\ CauseInv
  /\ FlagsHaveACause

-----------------------------------------------------------------------------
(***************************************************************************)
(* Facts about the operators.                                              *)
(***************************************************************************)
CallRecord ==
  [pc : {"idle", "read", "insert"}, at : Nat, day : 1 .. NumDays,
   summary : Summaries, codes : SUBSET Codes, alone : BOOLEAN]

LEMMA NoCaptureTyped == NoCapture \in CallRecord
<1>1. 1 \in 1 .. NumDays
  BY FlowAssumption
<1>2. (CHOOSE s \in Summaries : TRUE) \in Summaries
  BY FlowAssumption
<1> QED
  BY <1>1, <1>2 DEF NoCapture, CallRecord

\* Rows captured up to a moment have a latest one.
LEMMA PreviousIsLatest ==
  ASSUME NEW S, S # {}, NEW n \in Nat, \A q \in S : q.at \in 0 .. n
  PROVE  Previous(S) \in S /\ \A q \in S : q.at <= Previous(S).at
<1> DEFINE age == {n - q.at : q \in S}
           less == OpToRel(<, Nat)
<1>1. age \subseteq Nat /\ age # {}
  OBVIOUS
<1>2. PICK x \in age : \A y \in age : ~(<<y, x>> \in less)
  BY <1>1, NatLessThanWellFounded, WFMin
<1>3. \A y \in age : x <= y
  <2>1. \A y, z \in Nat : y < z => <<y, z>> \in {ss \in Nat \X Nat : ss[1] < ss[2]}
    OBVIOUS
  <2>2. less = {ss \in Nat \X Nat : ss[1] < ss[2]}
    BY DEF OpToRel
  <2>3. \A y \in age : ~(y < x)
    BY <1>1, <1>2, <2>1, <2>2
  <2> HIDE DEF age
  <2>4. x \in Nat /\ \A y \in age : y \in Nat
    BY <1>1
  <2> QED
    BY <2>3, <2>4
<1>4. PICK r \in S : x = n - r.at
  OBVIOUS
<1>5. \A q \in S : n - r.at <= n - q.at /\ q.at \in Nat
  BY <1>3, <1>4
<1>6. \A q \in S : q.at <= r.at
  BY <1>5
<1> QED
  BY <1>6 DEF Previous

\* A flag that compares has its reason among the rows that were read.
LEMMA AnomaliesHaveACause ==
  ASSUME NEW m, NEW S, NEW T, S \subseteq T, IsFiniteSet(T),
         NEW n \in Nat, \A q \in S : q.at \in 0 .. n
  PROVE  Anomalies(m, S) \subseteq Codes /\ Caused(Anomalies(m, S), m.score, T)
<1>1. Anomalies(m, S) \subseteq Codes
  BY DEF Anomalies
<1>2. "RAPID_FLOW_REVERSAL" \in Anomalies(m, S) => Reversal(m.score, S)
  BY DEF Anomalies
<1>3. \A c \in {"PCR_OUTLIER", "FLOW_SCORE_OUTLIER"} :
        c \in Anomalies(m, S) => Cardinality(S) >= MinSamples
  <2>1. \A x, f : Outlier(x, f) => Cardinality(DOMAIN f) >= MinSamples
    BY DEF Outlier
  <2>2. /\ DOMAIN [r \in S |-> r.pcr] = S
        /\ DOMAIN [r \in S |-> r.score] = S
    OBVIOUS
  <2>3. /\ "PCR_OUTLIER" \in Anomalies(m, S) => Outlier(m.pcr, [r \in S |-> r.pcr])
        /\ "FLOW_SCORE_OUTLIER" \in Anomalies(m, S) => Outlier(m.score, [r \in S |-> r.score])
    BY DEF Anomalies
  <2> QED
    BY <2>1, <2>2, <2>3
<1>4. Cardinality(S) <= Cardinality(T) /\ Cardinality(S) \in Nat /\ Cardinality(T) \in Nat
  BY FS_Subset, FS_CardinalityType
<1>5. MinSamples \in Nat
  BY FlowAssumption
<1>6. ASSUME Reversal(m.score, S)
      PROVE  \E q \in T : Distance(m.score, q.score) >= Swing
  <2>1. Previous(S) \in S
    BY <1>6, PreviousIsLatest DEF Reversal
  <2> QED
    BY <1>6, <2>1 DEF Reversal
<1> QED
  BY <1>1, <1>2, <1>3, <1>4, <1>5, <1>6 DEF Caused

-----------------------------------------------------------------------------
(***************************************************************************)
(* The invariant.                                                          *)
(***************************************************************************)
LEMMA InitFlowInv == FlowInit => FlowInv
<1> SUFFICES ASSUME FlowInit PROVE FlowInv
  OBVIOUS
<1>1. 1 \in 1 .. NumDays
  BY FlowAssumption
<1>2. FlowTypeOK
  BY <1>1, NoCaptureTyped, FS_EmptySet DEF FlowInit, FlowTypeOK, CallRecord
<1>3. \A p \in Threads : call[p].pc = "idle"
  BY DEF FlowInit, NoCapture
<1>4. TimesInv /\ AloneInv /\ JudgedInv /\ CauseInv
  BY <1>3 DEF FlowInit, TimesInv, AloneInv, JudgedInv, CauseInv, Active
<1>5. PlainInv /\ FlagsHaveACause
  BY DEF FlowInit, PlainInv, FlagsHaveACause
<1> QED
  BY <1>2, <1>4, <1>5 DEF FlowInv

\* Rows, calls and times, typed.
LEMMA Typed ==
  ASSUME FlowInv
  PROVE  /\ now \in Nat
         /\ IsFiniteSet(rows)
         /\ \A r \in rows : r \in Row /\ r.at \in 0 .. now
         /\ \A p \in Threads : call[p] \in CallRecord
         /\ \A p \in Threads : Active(p) <=> call[p].pc \in {"read", "insert"}
         /\ \A d : IsFiniteSet(OfDay(d)) /\ OfDay(d) \subseteq rows
<1>1. /\ now \in Nat /\ rows \subseteq Row /\ IsFiniteSet(rows)
      /\ call \in [Threads -> CallRecord]
      /\ \A r \in rows : r.at <= now
  BY DEF FlowInv, FlowTypeOK, TimesInv, CallRecord
<1>2. \A r \in rows : r \in Row /\ r.at \in 0 .. now
  BY <1>1 DEF Row
<1>3. \A p \in Threads : call[p] \in CallRecord
  BY <1>1
<1>4. \A p \in Threads : Active(p) <=> call[p].pc \in {"read", "insert"}
  BY <1>3 DEF Active, CallRecord
<1>5. \A d : OfDay(d) \in SUBSET rows
  BY DEF OfDay
<1>6. \A d : IsFiniteSet(OfDay(d)) /\ OfDay(d) \subseteq rows
  BY <1>1, <1>5, FS_Subset
<1> QED
  BY <1>1, <1>2, <1>3, <1>4, <1>6

\* Nothing about the rows changes while they stay.
LEMMA SameRows ==
  ASSUME UNCHANGED <<rows, plain>>
  PROVE  /\ FlagsHaveACause => FlagsHaveACause'
         /\ \A d : OfDay(d)' = OfDay(d)
  BY DEF FlagsHaveACause, OfDay

LEMMA CaptureStep ==
  ASSUME FlowInv, NEW p \in Threads, NEW m \in Summaries, Capture(p, m)
  PROVE  FlowInv'
<1> DEFINE met == \E q \in Threads : Active(q)
           new == [pc |-> "read", at |-> now + 1, day |-> today, summary |-> m,
                   codes |-> {}, alone |-> ~met]
<1>1. /\ ~Active(p)
      /\ now' = now + 1
      /\ \A q \in Threads : call'[q] = IF q = p THEN new
                                       ELSE [call[q] EXCEPT !.alone = @ /\ ~Active(q)]
      /\ UNCHANGED <<today, rows, plain>>
      /\ call' = [q \in Threads |-> IF q = p THEN new
                                    ELSE [call[q] EXCEPT !.alone = @ /\ ~Active(q)]]
  BY DEF Capture
<1>2. \A q \in Threads : q # p =>
        /\ call'[q].pc = call[q].pc
        /\ call'[q].at = call[q].at
        /\ call'[q].day = call[q].day
        /\ call'[q].summary = call[q].summary
        /\ call'[q].codes = call[q].codes
        /\ call'[q].alone => call[q].alone /\ ~Active(q)
        /\ Active(q)' = Active(q)
        /\ call'[q] \in CallRecord
  BY <1>1, Typed DEF CallRecord, Active
<1>3. /\ call'[p] = new
      /\ new \in CallRecord
      /\ Active(p)'
      /\ call'[p].at = now + 1
      /\ call'[p].pc = "read"
      /\ call'[p].alone = ~met
  <2>1. today \in 1 .. NumDays /\ now + 1 \in Nat
    BY DEF FlowInv, FlowTypeOK
  <2> QED
    BY <1>1, <2>1 DEF Active, CallRecord
<1> HIDE DEF new
<1>4. FlowTypeOK'
  <2>1. call' \in [Threads -> CallRecord]
    BY <1>1, <1>2, <1>3
  <2> QED
    BY <1>1, <2>1 DEF FlowInv, FlowTypeOK, CallRecord
<1>5. TimesInv'
  <2>1. /\ \A r \in rows : r.at \in Nat /\ r.at <= now
        /\ \A q \in Threads : call[q].at \in Nat
        /\ plain \subseteq Nat /\ now \in Nat
    BY Typed DEF FlowInv, FlowTypeOK, CallRecord
  <2> QED
    BY <1>1, <1>2, <1>3, <2>1 DEF FlowInv, TimesInv
<1>6. AloneInv'
  <2>1. \A q \in Threads : Active(q)' /\ call'[q].alone => q = p /\ ~met
    BY <1>2, <1>3
  <2>2. ~met => \A q \in Threads : Active(q)' => q = p
    BY <1>2
  <2>3. \A r \in rows' : r.at < call'[p].at
    BY <1>1, <1>3, Typed DEF Row
  <2> QED
    BY <2>1, <2>2, <2>3 DEF AloneInv
<1>7. JudgedInv' /\ CauseInv'
  <2>1. \A q \in Threads : call'[q].pc = "insert" => q # p /\ Active(q)
    BY <1>2, <1>3 DEF Active
  <2>2. JudgedInv'
    BY <1>1, <1>2, <2>1 DEF FlowInv, JudgedInv, OfDay
  <2>3. CauseInv'
    BY <1>1, <1>2, <2>1 DEF FlowInv, CauseInv, OfDay
  <2> QED
    BY <2>2, <2>3
<1>8. PlainInv'
  <2>1. \A r \in rows : Before(r)' = Before(r)
    BY <1>1 DEF Before, OfDay
  <2>2. \A r \in rows : r.at < now + 1
    BY Typed
  <2> QED
    BY <1>1, <1>2, <1>3, <2>1, <2>2 DEF FlowInv, PlainInv
<1> QED
  BY <1>1, <1>4, <1>5, <1>6, <1>7, <1>8, SameRows DEF FlowInv

LEMMA JudgeStep ==
  ASSUME FlowInv, NEW p \in Threads, Judge(p)
  PROVE  FlowInv'
<1> DEFINE c == call[p]
           S == History(c.day)
           codes == Anomalies(c.summary, S)
<1>1. /\ c.pc = "read"
      /\ call' = [call EXCEPT ![p] = [c EXCEPT !.pc = "insert", !.codes = codes,
                                               !.alone = @ /\ S = OfDay(c.day)]]
      /\ UNCHANGED <<now, today, rows, plain>>
  BY DEF Judge
<1>2. c \in CallRecord /\ call \in [Threads -> CallRecord]
  BY Typed DEF FlowInv, FlowTypeOK, CallRecord
<1>3. codes \subseteq Codes /\ Caused(codes, c.summary.score, OfDay(c.day))
  <2>1. S \subseteq OfDay(c.day)
    BY DEF History
  <2> QED
    BY <2>1, Typed, AnomaliesHaveACause
<1> HIDE DEF codes, S
<1>4. /\ call'[p].pc = "insert"
      /\ call'[p].at = c.at
      /\ call'[p].day = c.day
      /\ call'[p].summary = c.summary
      /\ call'[p].codes = codes
      /\ call'[p].alone = (c.alone /\ S = OfDay(c.day))
      /\ call'[p] \in CallRecord
  BY <1>1, <1>2, <1>3 DEF CallRecord
<1>5. /\ \A q \in Threads : q # p => call'[q] = call[q]
      /\ call' \in [Threads -> CallRecord]
  BY <1>1, <1>2, <1>4
<1>6. \A q \in Threads : /\ Active(q)' = Active(q)
                         /\ call'[q].at = call[q].at
                         /\ call'[q].alone => call[q].alone
  BY <1>1, <1>2, <1>4, <1>5 DEF Active, CallRecord
<1>7. FlowTypeOK'
  BY <1>1, <1>5 DEF FlowInv, FlowTypeOK, CallRecord
<1>8. TimesInv' /\ AloneInv'
  BY <1>1, <1>6 DEF FlowInv, TimesInv, AloneInv
<1>9. /\ OfDay(call[p].day)' = OfDay(c.day)
      /\ \A q \in Threads : q # p => OfDay(call[q].day)' = OfDay(call[q].day)
  BY <1>1, <1>4, <1>5 DEF OfDay
<1>10. JudgedInv' /\ CauseInv'
  <2>1. "RAPID_FLOW_REVERSAL" \in codes <=> Reversal(c.summary.score, S)
    BY DEF codes, Anomalies, Codes
  <2>2. ASSUME NEW q \in Threads, call'[q].pc = "insert"
        PROVE  /\ call'[q].alone =>
                    ("RAPID_FLOW_REVERSAL" \in call'[q].codes
                       <=> Reversal(call'[q].summary.score, OfDay(call[q].day)'))
               /\ Caused(call'[q].codes, call'[q].summary.score, OfDay(call[q].day)')
    <3>1. CASE q = p
      BY <1>3, <1>4, <1>9, <2>1, <3>1
    <3>2. CASE q # p
      BY <1>5, <1>9, <2>2, <3>2 DEF FlowInv, JudgedInv, CauseInv
    <3> QED
      BY <3>1, <3>2
  <2> QED
    BY <2>2 DEF JudgedInv, CauseInv
<1>11. PlainInv'
  <2>1. \A r \in rows : Before(r)' = Before(r)
    BY <1>1 DEF Before, OfDay
  <2> QED
    BY <1>1, <1>6, <2>1 DEF FlowInv, PlainInv
<1> QED
  BY <1>1, <1>7, <1>8, <1>10, <1>11, SameRows DEF FlowInv

\* More rows are no less of a reason.
LEMMA CausedGrows ==
  ASSUME NEW codes, NEW score, NEW S, NEW T, S \subseteq T, IsFiniteSet(T),
         Caused(codes, score, S)
  PROVE  Caused(codes, score, T)
<1>1. Cardinality(S) <= Cardinality(T) /\ Cardinality(S) \in Nat /\ Cardinality(T) \in Nat
  BY FS_Subset, FS_CardinalityType
<1>2. MinSamples \in Nat
  BY FlowAssumption
<1> QED
  BY <1>1, <1>2 DEF Caused

LEMMA InsertStep ==
  ASSUME FlowInv, NEW p \in Threads, Insert(p)
  PROVE  FlowInv'
<1> DEFINE c == call[p]
           new == [at |-> c.at, day |-> c.day, score |-> c.summary.score,
                   pcr |-> c.summary.pcr, codes |-> c.codes]
<1>1. /\ c.pc = "insert"
      /\ rows' = rows \cup {new}
      /\ plain' = IF c.alone THEN plain \cup {c.at} ELSE plain
      /\ call' = [call EXCEPT ![p] = NoCapture]
      /\ UNCHANGED <<now, today>>
  BY DEF Insert
<1>2. c \in CallRecord /\ call \in [Threads -> CallRecord] /\ c.summary \in Summary
  BY Typed, FlowAssumption DEF FlowInv, FlowTypeOK, CallRecord
<1>3. new \in Row /\ new.at = c.at /\ new.day = c.day /\ new.codes = c.codes
        /\ new.score = c.summary.score
  BY <1>2 DEF Row, CallRecord, Summary
<1> HIDE DEF new
<1>4. Active(p) /\ c.at \in 0 .. now /\ c.at \notin plain /\ \A r \in rows : r.at # c.at
  BY <1>1, <1>2 DEF Active, FlowInv, TimesInv, CallRecord
<1>5. /\ call'[p].pc = "idle"
      /\ \A q \in Threads : q # p => call'[q] = call[q]
      /\ call' \in [Threads -> CallRecord]
  BY <1>1, <1>2, NoCaptureTyped DEF NoCapture
<1>6. \A q \in Threads : Active(q)' => q # p /\ Active(q) /\ call'[q] = call[q]
  BY <1>5 DEF Active
<1>7. \A d : /\ d = c.day => OfDay(d)' = OfDay(d) \cup {new}
             /\ d # c.day => OfDay(d)' = OfDay(d)
             /\ new \notin OfDay(d)
  <2>1. ASSUME NEW d
        PROVE  {r \in rows' : r.day = d} =
                 IF d = c.day THEN {r \in rows : r.day = d} \cup {new}
                 ELSE {r \in rows : r.day = d}
    BY <1>1, <1>3
  <2>2. new \notin rows
    BY <1>3, <1>4
  <2> QED
    BY <2>1, <2>2 DEF OfDay
<1>8. FlowTypeOK'
  <2>1. IsFiniteSet(rows')
    BY <1>1, Typed, FS_AddElement
  <2>2. rows' \subseteq Row /\ plain' \subseteq Nat
    BY <1>1, <1>2, <1>3 DEF FlowInv, FlowTypeOK, CallRecord
  <2> QED
    BY <1>1, <1>5, <2>1, <2>2 DEF FlowInv, FlowTypeOK, CallRecord
<1>9. TimesInv'
  BY <1>1, <1>3, <1>4, <1>6 DEF FlowInv, TimesInv
<1>10. \A q \in Threads : Active(q)' => ~call'[q].alone
  BY <1>4, <1>6 DEF FlowInv, AloneInv
<1>11. AloneInv' /\ JudgedInv'
  BY <1>10 DEF AloneInv, JudgedInv, Active
<1>12. CauseInv'
  <2> SUFFICES ASSUME NEW q \in Threads, call'[q].pc = "insert"
               PROVE  Caused(call'[q].codes, call'[q].summary.score, OfDay(call[q].day)')
    BY DEF CauseInv
  <2>1. q # p /\ call'[q] = call[q]
    BY <1>5
  <2>2. Caused(call[q].codes, call[q].summary.score, OfDay(call[q].day))
    BY <2>1 DEF FlowInv, CauseInv
  <2>3. OfDay(call[q].day)' = {r \in rows' : r.day = call[q].day}
    BY <2>1 DEF OfDay
  <2>4. OfDay(call[q].day) \subseteq OfDay(call[q].day)'
    BY <1>1, <2>3 DEF OfDay
  <2>5. IsFiniteSet(OfDay(call[q].day)')
    <3>1. IsFiniteSet(rows') /\ OfDay(call[q].day)' \in SUBSET rows'
      BY <1>8, <2>3 DEF FlowTypeOK
    <3> QED
      BY <3>1, FS_Subset
  <2> QED
    BY <2>1, <2>2, <2>4, <2>5, CausedGrows
<1>13. PlainInv'
  <2> SUFFICES ASSUME NEW r \in rows', r.at \in plain'
               PROVE  /\ \A q \in Threads : Active(q)' => call'[q].at > r.at
                      /\ "RAPID_FLOW_REVERSAL" \in r.codes
                           <=> Reversal(r.score, {q \in OfDay(r.day)' : q.at < r.at})
    BY DEF PlainInv, Before, Reversal, Previous
  <2>1. CASE r = new
    <3>1. c.alone
      BY <1>1, <1>3, <1>4, <2>1
    <3>2. \A q \in Threads : ~Active(q)'
      BY <1>4, <1>6, <3>1 DEF FlowInv, AloneInv
    <3>3. \A q \in OfDay(c.day) : q.at < c.at
      BY <1>4, <3>1 DEF FlowInv, AloneInv, OfDay
    <3>4. {q \in OfDay(r.day)' : q.at < r.at} = OfDay(c.day)
      <4>1. ~(new.at < c.at)
        BY <1>3, <1>4
      <4>2. OfDay(r.day)' = OfDay(c.day) \cup {new}
        BY <1>3, <1>7, <2>1
      <4> QED
        BY <1>3, <2>1, <3>3, <4>1, <4>2
    <3>5. "RAPID_FLOW_REVERSAL" \in c.codes <=> Reversal(c.summary.score, OfDay(c.day))
      BY <1>1, <3>1 DEF FlowInv, JudgedInv
    <3> QED
      BY <1>3, <2>1, <3>2, <3>4, <3>5
  <2>2. CASE r # new
    <3>1. r \in rows /\ r.at \in plain
      BY <1>1, <1>4, <2>2
    <3>2. c.at > r.at /\ \A q \in Threads : Active(q)' => call'[q].at > r.at
      BY <1>4, <1>6, <3>1 DEF FlowInv, PlainInv
    <3>3. ~(new.at < r.at)
      BY <1>3, <1>4, <3>1, <3>2, Typed
    <3>4. {q \in OfDay(r.day)' : q.at < r.at} = Before(r)
      BY <1>7, <3>3 DEF Before
    <3>5. "RAPID_FLOW_REVERSAL" \in r.codes <=> Reversal(r.score, Before(r))
      BY <3>1 DEF FlowInv, PlainInv
    <3> QED
      BY <3>2, <3>4, <3>5
  <2> QED
    BY <2>1, <2>2
<1>14. FlagsHaveACause'
  <2>1. \A r \in rows : Caused(r.codes, r.score, OfDay(r.day) \ {r})
    BY DEF FlowInv, FlagsHaveACause, Caused
  <2>2. ASSUME NEW r \in rows'
        PROVE  Caused(r.codes, r.score, OfDay(r.day)' \ {r})
    <3>1. CASE r = new
      <4>1. OfDay(r.day)' \ {r} = OfDay(c.day)
        BY <1>3, <1>7, <3>1
      <4>2. Caused(c.codes, c.summary.score, OfDay(c.day))
        BY <1>1 DEF FlowInv, CauseInv
      <4> QED
        BY <1>3, <3>1, <4>1, <4>2
    <3>2. CASE r # new
      <4>1. r \in rows
        BY <1>1, <3>2
      <4>2. OfDay(r.day) \ {r} \subseteq OfDay(r.day)' \ {r}
        BY <1>7
      <4>3. IsFiniteSet(OfDay(r.day)' \ {r})
        <5>1. IsFiniteSet(rows') /\ OfDay(r.day)' \in SUBSET rows'
          BY <1>8 DEF FlowTypeOK, OfDay
        <5> QED
          BY <5>1, FS_Subset
      <4> QED
        BY <2>1, <4>1, <4>2, <4>3, CausedGrows
    <3> QED
      BY <3>1, <3>2
  <2> QED
    BY <2>2 DEF FlagsHaveACause, Caused
<1> QED
  BY <1>8, <1>9, <1>11, <1>12, <1>13, <1>14 DEF FlowInv

\* A call that fails is gone; the other steps leave the calls alone.
LEMMA FailStep ==
  ASSUME FlowInv, NEW p \in Threads, RecordFails(p)
  PROVE  FlowInv'
<1>1. call \in [Threads -> CallRecord] /\ UNCHANGED <<now, today, rows, plain>>
        /\ call' = [call EXCEPT ![p] = NoCapture]
  BY DEF RecordFails, FlowInv, FlowTypeOK, CallRecord
<1>2. /\ call'[p].pc = "idle"
      /\ \A q \in Threads : q # p => call'[q] = call[q]
      /\ call' \in [Threads -> CallRecord]
  BY <1>1, NoCaptureTyped DEF NoCapture
<1>3. \A q \in Threads : Active(q)' => q # p /\ Active(q) /\ call'[q] = call[q]
  BY <1>2 DEF Active
<1>4. FlowTypeOK'
  BY <1>1, <1>2 DEF FlowInv, FlowTypeOK, CallRecord
<1>5. TimesInv' /\ AloneInv'
  BY <1>1, <1>3 DEF FlowInv, TimesInv, AloneInv
<1>6. JudgedInv' /\ CauseInv'
  <2>1. \A q \in Threads : call'[q].pc = "insert" =>
          call'[q] = call[q] /\ OfDay(call[q].day)' = OfDay(call[q].day)
    BY <1>1, <1>2 DEF OfDay
  <2> QED
    BY <2>1 DEF FlowInv, JudgedInv, CauseInv
<1>7. PlainInv'
  <2>1. \A r \in rows : Before(r)' = Before(r)
    BY <1>1 DEF Before, OfDay
  <2> QED
    BY <1>1, <1>3, <2>1 DEF FlowInv, PlainInv
<1> QED
  BY <1>1, <1>4, <1>5, <1>6, <1>7, SameRows DEF FlowInv

LEMMA QuietStep ==
  ASSUME FlowInv, NextDay \/ UNCHANGED flowVars
  PROVE  FlowInv'
<1>1. UNCHANGED <<now, rows, call, plain>> /\ today' \in 1 .. NumDays
  <2>1. NumDays \in Nat
    BY FlowAssumption
  <2> QED
    BY <2>1 DEF NextDay, flowVars, FlowInv, FlowTypeOK
<1>2. FlowTypeOK'
  BY <1>1 DEF FlowInv, FlowTypeOK
<1>3. TimesInv' /\ AloneInv'
  BY <1>1 DEF FlowInv, TimesInv, AloneInv, Active
<1>4. JudgedInv' /\ CauseInv'
  BY <1>1 DEF FlowInv, JudgedInv, CauseInv, OfDay
<1>5. PlainInv'
  BY <1>1 DEF FlowInv, PlainInv, Before, OfDay, Active
<1> QED
  BY <1>1, <1>2, <1>3, <1>4, <1>5, SameRows DEF FlowInv

(***************************************************************************)
(* The invariant holds in every reachable state.                           *)
(***************************************************************************)
THEOREM FlowInvariant == FlowSpec => []FlowInv
<1>1. FlowInv /\ [FlowNext]_flowVars => FlowInv'
  <2> SUFFICES ASSUME FlowInv, [FlowNext]_flowVars PROVE FlowInv'
    OBVIOUS
  <2>1. ASSUME NEW p \in Threads, NEW m \in Summaries, Capture(p, m) PROVE FlowInv'
    BY <2>1, CaptureStep
  <2>2. ASSUME NEW p \in Threads, Judge(p) PROVE FlowInv'
    BY <2>2, JudgeStep
  <2>3. ASSUME NEW p \in Threads, Insert(p) PROVE FlowInv'
    BY <2>3, InsertStep
  <2>4. ASSUME NEW p \in Threads, RecordFails(p) PROVE FlowInv'
    BY <2>4, FailStep
  <2>5. ASSUME NEW p \in Threads, ReadEndpoint(p) PROVE FlowInv'
    BY <2>5, QuietStep DEF ReadEndpoint
  <2>6. CASE NextDay \/ UNCHANGED flowVars
    BY <2>6, QuietStep
  <2> QED
    BY <2>1, <2>2, <2>3, <2>4, <2>5, <2>6 DEF FlowNext
<1> QED
  BY <1>1, InitFlowInv, PTL DEF FlowSpec

(***************************************************************************)
(* Rows, calls and flags keep their types: every day and every flag that   *)
(* is stored is one that the code names.                                   *)
(***************************************************************************)
THEOREM FlowTypeCorrect == FlowSpec => []FlowTypeOK
<1>1. FlowInv => FlowTypeOK
  BY DEF FlowInv
<1> QED
  BY <1>1, FlowInvariant, PTL

(***************************************************************************)
(* The rapid-reversal flag of a snapshot whose capture met no other, on a  *)
(* day whose rows were all read, compares with the snapshot before it.     *)
(***************************************************************************)
THEOREM ReversalsAreSincePrevious == FlowSpec => []ReversalIsSincePrevious
<1>1. FlowInv => ReversalIsSincePrevious
  BY DEF FlowInv, PlainInv, Before, Reversal, ReversalIsSincePrevious
<1> QED
  BY <1>1, FlowInvariant, PTL

(***************************************************************************)
(* A flag that compares has something to compare with, however the calls   *)
(* of the endpoints interleave.                                            *)
(***************************************************************************)
THEOREM FlagsAlwaysCaused == FlowSpec => []FlagsHaveACause
<1>1. FlowInv => FlagsHaveACause
  BY DEF FlowInv
<1> QED
  BY <1>1, FlowInvariant, PTL

-----------------------------------------------------------------------------
(***************************************************************************)
(* The live decision.  That what is shown is on record rests on an order   *)
(* of steps: a signature is remembered after the record is complete, so    *)
(* what is remembered is on record, and with it what is served without     *)
(* logging.                                                                *)
(***************************************************************************)

\* A call knows its decision once it is past the pipeline, its decision is in
\* the log once it has been logged, and on record before it is remembered.
CallOnRecord(c) ==
  /\ calls[c].pc \notin {"idle", "decide", "failed"} => Decision(c) \in Decisions
  /\ calls[c].pc = "setup" => Generated(Decision(c))
  /\ calls[c].pc = "setup" => Signature[Decision(c)] \in log
  /\ calls[c].pc \in {"remember", "reply"} => OnRecord(Decision(c))

CallsOnRecord == \A c \in Channels : CallOnRecord(c)

RememberedIsOnRecord ==
  \A d \in Decisions : Signature[d] = last => OnRecord(d)

LiveInv ==
  /\ LiveTypeOK
  /\ NeverDark
  /\ CallsOnRecord
  /\ RememberedIsOnRecord
  /\ ShownIsOnRecord

\* The part of LiveInv that is about the record.
ServerInv == CallsOnRecord /\ RememberedIsOnRecord /\ ShownIsOnRecord

-----------------------------------------------------------------------------
\* The log and the setups only grow, so what is on record stays on record.
LEMMA RecordGrows ==
  ASSUME NEW d, log \subseteq log', setups \subseteq setups', OnRecord(d)
  PROVE  OnRecord(d)'
BY DEF OnRecord

\* Decisions with one signature are on record together.
LEMMA RecordIsBySignature ==
  ASSUME NEW d \in Decisions, NEW e \in Decisions, Signature[d] = Signature[e], OnRecord(d)
  PROVE  OnRecord(e)
BY LiveDecisionAssumption DEF OnRecord

\* Steps that leave the record, what is remembered and what is shown alone, and
\* change calls only to ones that know nothing yet or that were there before.
LEMMA OtherCalls ==
  ASSUME LiveInv, UNCHANGED <<last, log, setups, shown>>,
         \A c \in Channels :
           calls'[c].pc \in {"idle", "decide", "failed"} \/ \E o \in Channels : calls'[c] = calls[o]
  PROVE  ServerInv'
<1>1. ASSUME NEW c \in Channels
      PROVE  CallOnRecord(c)'
  <2>1. CASE calls'[c].pc \in {"idle", "decide", "failed"}
    BY <2>1 DEF CallOnRecord
  <2>2. CASE \E o \in Channels : calls'[c] = calls[o]
    <3> PICK o \in Channels : calls'[c] = calls[o]
      BY <2>2
    <3> QED
      BY DEF LiveInv, CallsOnRecord, CallOnRecord, Decision, Generated, OnRecord
  <2> QED
    BY <2>1, <2>2
<1> QED
  BY <1>1 DEF LiveInv, ServerInv, CallsOnRecord, RememberedIsOnRecord, ShownIsOnRecord, OnRecord

-----------------------------------------------------------------------------
LEMMA InitLiveInv == Init => LiveInv
<1> SUFFICES ASSUME Init
             PROVE  LiveInv
  OBVIOUS
<1>1. LiveTypeOK
  <2>1. NoCall \in [pc : Running \cup {"idle", "reply", "failed"}, decision : Decisions \cup {Nothing}]
    BY DEF NoCall, Running
  <2>2. calls \in [Channels -> [pc : Running \cup {"idle", "reply", "failed"}, decision : Decisions \cup {Nothing}]]
    BY <2>1 DEF Init
  <2>3. failures \in 0..2
    BY DEF Init
  <2>4. log \subseteq Signatures /\ setups \subseteq Setups
    BY DEF Init
  <2> QED
    BY <2>2, <2>3, <2>4, Zenon DEF Init, LiveTypeOK
<1>2. NeverDark
  BY DEF Init, NeverDark
<1>3. CallsOnRecord
  BY DEF Init, CallsOnRecord, CallOnRecord, NoCall
<1>4. RememberedIsOnRecord /\ ShownIsOnRecord
  BY LiveDecisionAssumption DEF Init, RememberedIsOnRecord, ShownIsOnRecord
<1> QED
  BY <1>1, <1>2, <1>3, <1>4 DEF LiveInv

LEMMA TypeStep == LiveInv /\ [Next]_vars => LiveTypeOK'
<1> SUFFICES ASSUME LiveInv, [Next]_vars
             PROVE  LiveTypeOK'
  OBVIOUS
<1> USE DEF LiveInv, LiveTypeOK, NoCall, FailedCall, Running, Goto, Decision
<1>1. ASSUME NEW c \in Channels, ServerStep(c)
      PROVE  LiveTypeOK'
  <2> USE <1>1 DEF ServerStep, hook
  <2>1. CASE Raise(c)
    BY <2>1 DEF Raise
  <2>2. CASE Decide(c)
    BY <2>2 DEF Decide
  <2>3. CASE Compare(c)
    BY <2>3 DEF Compare
  <2>4. CASE Log(c)
    BY <2>4 DEF Log, CallsOnRecord, CallOnRecord, Signatures
  <2>5. CASE CreateSetup(c)
    BY <2>5 DEF CreateSetup, CallsOnRecord, CallOnRecord, Setups, Generated
  <2>6. CASE Remember(c)
    BY <2>6 DEF Remember, CallsOnRecord, CallOnRecord, Signatures
  <2> QED
    BY <2>1, <2>2, <2>3, <2>4, <2>5, <2>6
<1>2. ASSUME NEW c \in Channels, Receive(c)
      PROVE  LiveTypeOK'
  BY <1>2 DEF Receive
<1>3. ASSUME NEW r \in Requests, Poll(r) \/ ReceiveError(r) \/ Abort(r)
      PROVE  LiveTypeOK'
  BY <1>3 DEF Poll, ReceiveError, Abort, LeaveCall, hook, Channels
<1>4. CASE NextPush \/ \E a \in Abandoned : Discard(a)
  BY <1>4 DEF NextPush, Discard, hook
<1>5. CASE Restart
  BY <1>5 DEF Restart, hook
<1>6. CASE ServerChanges \/ SocketOpens \/ Reconnect
  <2>1. CASE ServerChanges
    BY <2>1 DEF ServerChanges, hook, server
  <2>2. CASE SocketOpens
    <3>1. failures' \in 0..2
      BY <2>2 DEF SocketOpens
    <3> QED
      BY <2>2, <3>1, Zenon DEF SocketOpens, server
  <2>3. CASE Reconnect
    BY <2>3 DEF Reconnect, server
  <2> QED
    BY <1>6, <2>1, <2>2, <2>3
<1>7. CASE SocketCloses \/ Unmount
  <2>1. calls' \in [Channels -> [pc : Running \cup {"idle", "reply", "failed"}, decision : Decisions \cup {Nothing}]]
    BY <1>7 DEF SocketCloses, Unmount, LeaveCall, Channels
  <2>2. CASE SocketCloses
    BY <2>1, <2>2 DEF SocketCloses, CountFailure
  <2>3. CASE Unmount
    BY <2>1, <2>3 DEF Unmount
  <2> QED
    BY <1>7, <2>2, <2>3
<1>8. CASE UNCHANGED vars
  BY <1>8 DEF vars, hook, server
<1> QED
  BY <1>1, <1>2, <1>3, <1>4, <1>5, <1>6, <1>7, <1>8 DEF Next

LEMMA NeverDarkStep == LiveInv /\ [Next]_vars => NeverDark'
<1> SUFFICES ASSUME LiveInv, [Next]_vars
             PROVE  NeverDark'
  OBVIOUS
<1>1. CASE UNCHANGED hook
  BY <1>1 DEF LiveInv, NeverDark, hook
<1>2. CASE \E c \in Channels : Receive(c)
  BY <1>2 DEF Receive, LiveInv, NeverDark
<1>3. CASE SocketOpens \/ SocketCloses \/ Reconnect \/ Unmount
  BY <1>3 DEF SocketOpens, SocketCloses, Reconnect, Unmount, LiveInv, NeverDark
<1>4. ASSUME NEW c \in Channels, ServerStep(c)
      PROVE  UNCHANGED hook
  BY <1>4 DEF ServerStep
<1>5. ASSUME NEW r \in Requests, Poll(r) \/ ReceiveError(r) \/ Abort(r)
      PROVE  UNCHANGED hook
  BY <1>5 DEF Poll, ReceiveError, Abort
<1>6. CASE NextPush \/ (\E a \in Abandoned : Discard(a)) \/ Restart \/ ServerChanges \/ UNCHANGED vars
  BY <1>1, <1>6 DEF NextPush, Discard, Restart, ServerChanges, vars
<1> QED
  BY <1>1, <1>2, <1>3, <1>4, <1>5, <1>6 DEF Next

\* The steps of one server call.
LEMMA ServerStepKeepsRecord ==
  ASSUME LiveInv, NEW c \in Channels, ServerStep(c)
  PROVE  ServerInv'
<1> USE DEF LiveInv, LiveTypeOK, Goto, ServerStep, hook
<1>1. CASE Raise(c)
  BY <1>1, OtherCalls DEF Raise, FailedCall
<1>2. CASE Decide(c)
  BY <1>2 DEF Decide, ServerInv, CallsOnRecord, CallOnRecord, Decision, Generated, OnRecord,
              RememberedIsOnRecord, ShownIsOnRecord
<1>3. CASE Compare(c)
  <2>1. Decision(c) \in Decisions
    BY <1>3 DEF Compare, CallsOnRecord, CallOnRecord
  <2>2. Signature[Decision(c)] = last => OnRecord(Decision(c))
    BY <2>1 DEF RememberedIsOnRecord
  <2> QED
    BY <1>3, <2>1, <2>2 DEF Compare, ServerInv, CallsOnRecord, CallOnRecord, Decision, Generated,
                            OnRecord, RememberedIsOnRecord, ShownIsOnRecord
<1>4. CASE Log(c)
  <2>1. \A d : OnRecord(d) => OnRecord(d)'
    BY <1>4, RecordGrows DEF Log
  <2>2. RememberedIsOnRecord' /\ ShownIsOnRecord'
    BY <1>4, <2>1 DEF Log, RememberedIsOnRecord, ShownIsOnRecord
  <2>3. CallOnRecord(c)'
    BY <1>4 DEF Log, CallsOnRecord, CallOnRecord, Decision, Generated, OnRecord
  <2>4. ASSUME NEW o \in Channels, o # c
        PROVE  CallOnRecord(o)'
    BY <1>4, <2>1, <2>4 DEF Log, CallsOnRecord, CallOnRecord, Decision, Generated
  <2> QED
    BY <2>2, <2>3, <2>4 DEF ServerInv, CallsOnRecord
<1>5. CASE CreateSetup(c)
  <2>1. \A d : OnRecord(d) => OnRecord(d)'
    BY <1>5, RecordGrows DEF CreateSetup
  <2>2. RememberedIsOnRecord' /\ ShownIsOnRecord'
    BY <1>5, <2>1 DEF CreateSetup, RememberedIsOnRecord, ShownIsOnRecord
  <2>3. CallOnRecord(c)'
    BY <1>5 DEF CreateSetup, CallsOnRecord, CallOnRecord, Decision, Generated, OnRecord
  <2>4. ASSUME NEW o \in Channels, o # c
        PROVE  CallOnRecord(o)'
    BY <1>5, <2>1, <2>4 DEF CreateSetup, CallsOnRecord, CallOnRecord, Decision, Generated
  <2> QED
    BY <2>2, <2>3, <2>4 DEF ServerInv, CallsOnRecord
<1>6. CASE Remember(c)
  <2>1. Decision(c) \in Decisions /\ OnRecord(Decision(c))
    BY <1>6 DEF Remember, CallsOnRecord, CallOnRecord
  <2>2. \A d : OnRecord(d) => OnRecord(d)'
    BY <1>6, RecordGrows DEF Remember
  <2>3. RememberedIsOnRecord'
    BY <1>6, <2>1, <2>2, RecordIsBySignature DEF Remember, RememberedIsOnRecord
  <2>4. ShownIsOnRecord'
    BY <1>6, <2>2 DEF Remember, ShownIsOnRecord
  <2>5. CallOnRecord(c)'
    BY <1>6, <2>1, <2>2 DEF Remember, CallOnRecord, Decision
  <2>6. ASSUME NEW o \in Channels, o # c
        PROVE  CallOnRecord(o)'
    BY <1>6, <2>2, <2>6 DEF Remember, CallsOnRecord, CallOnRecord, Decision, Generated
  <2> QED
    BY <2>3, <2>4, <2>5, <2>6 DEF ServerInv, CallsOnRecord
<1> QED
  BY <1>1, <1>2, <1>3, <1>4, <1>5, <1>6

LEMMA RecordStep == LiveInv /\ [Next]_vars => ServerInv'
<1> SUFFICES ASSUME LiveInv, [Next]_vars
             PROVE  ServerInv'
  OBVIOUS
<1> USE DEF LiveInv, LiveTypeOK, Goto
<1>0. ASSUME UNCHANGED <<shown, last, log, setups>>,
             \A c \in Channels :
               calls'[c].pc \in {"idle", "decide", "failed"} \/ \E o \in Channels : calls'[c] = calls[o]
      PROVE  ServerInv'
  BY <1>0, OtherCalls
<1>1. CASE \E c \in Channels : ServerStep(c)
  BY <1>1, ServerStepKeepsRecord
<1>2. ASSUME NEW c \in Channels, Receive(c)
      PROVE  ServerInv'
  <2>1. OnRecord(Decision(c))
    BY <1>2 DEF Receive, CallsOnRecord, CallOnRecord
  <2>2. \A d : OnRecord(d) => OnRecord(d)'
    BY <1>2, RecordGrows DEF Receive
  <2>3. ShownIsOnRecord'
    BY <1>2, <2>1, <2>2 DEF Receive, ShownIsOnRecord
  <2>4. RememberedIsOnRecord'
    BY <1>2, <2>2 DEF Receive, RememberedIsOnRecord
  <2>5. ASSUME NEW o \in Channels
        PROVE  CallOnRecord(o)'
    BY <1>2, <2>2 DEF Receive, CallsOnRecord, CallOnRecord, Decision, Generated, NoCall
  <2> QED
    BY <2>3, <2>4, <2>5 DEF ServerInv, CallsOnRecord
<1>3. ASSUME NEW r \in Requests, Poll(r) \/ ReceiveError(r) \/ Abort(r)
      PROVE  ServerInv'
  BY <1>0, <1>3 DEF Poll, ReceiveError, Abort, LeaveCall, hook, NoCall, Channels
<1>4. CASE NextPush \/ \E a \in Abandoned : Discard(a)
  BY <1>0, <1>4 DEF NextPush, Discard, hook, NoCall
<1>5. CASE Restart
  BY <1>5, LiveDecisionAssumption DEF Restart, hook, NoCall, FailedCall, ServerInv, CallsOnRecord, CallOnRecord,
              RememberedIsOnRecord, ShownIsOnRecord, OnRecord
<1>6. CASE ServerChanges \/ SocketOpens \/ Reconnect \/ UNCHANGED vars
  BY <1>0, <1>6 DEF ServerChanges, SocketOpens, Reconnect, vars, hook, server
<1>7. CASE SocketCloses \/ Unmount
  BY <1>0, <1>7 DEF SocketCloses, Unmount, LeaveCall, NoCall, Channels
<1> QED
  BY <1>1, <1>2, <1>3, <1>4, <1>5, <1>6, <1>7 DEF Next

-----------------------------------------------------------------------------
\* The inductive invariant: types, the hook's timers, and the order in which a
\* server call completes the record and remembers it.
THEOREM LiveInvariant == Spec => []LiveInv
<1>1. LiveInv /\ [Next]_vars => LiveInv'
  BY TypeStep, NeverDarkStep, RecordStep DEF LiveInv, ServerInv
<1> QED
  BY InitLiveInv, <1>1, PTL DEF Spec

\* Every reachable state of the live feed is well typed.
THEOREM LiveTypeCorrect == Spec => []LiveTypeOK
<1>1. LiveInv => LiveTypeOK
  BY DEF LiveInv
<1> QED
  BY <1>1, LiveInvariant, PTL

\* A decision that is shown is in the audit log, and a buy has a setup with its
\* signature, through any failures, restarts and overlapping calls.
THEOREM ShownDecisionIsOnRecord == Spec => []ShownIsOnRecord
<1>1. LiveInv => ShownIsOnRecord
  BY DEF LiveInv
<1> QED
  BY <1>1, LiveInvariant, PTL

\* While the dashboard is mounted something is under way that can bring a
\* decision, and after the unmount nothing.
THEOREM DashboardNeverDark == Spec => []NeverDark
<1>1. LiveInv => NeverDark
  BY DEF LiveInv
<1> QED
  BY <1>1, LiveInvariant, PTL
=============================================================================

----------------------------- MODULE FlowHistory -----------------------------
(***************************************************************************)
(* The history of institutional-flow snapshots that                        *)
(* app/institutional_flow_history.py keeps in SQLite.  The summary and the *)
(* intelligence endpoints call record_flow_snapshot from pool threads: the *)
(* capture time is taken first, then the history of the day is read on one *)
(* connection, judged, and the row is inserted on another.                 *)
(*                                                                         *)
(* Capture times are counted, ratios are in hundredths, scores are whole   *)
(* points; a summary always has a ratio, since the analysis puts 1.00 for a *)
(* missing one.  The severity, the texts and the columns that are only     *)
(* stored are left out.                                                    *)
(***************************************************************************)
EXTENDS Integers, FiniteSets, Functions

CONSTANTS
  Threads,      \* the threads that serve the endpoints
  Summaries,    \* what analyse_institutional_flow may return
  Limit,        \* rows of the day that are read: 60
  MinSamples,   \* rows below which there is no z-score: 5
  Swing,        \* change of the score that is a reversal: 35
  NumDays,      \* bound: days of a behaviour
  MaxCaptures   \* bound: captures of a behaviour

Summary ==
  [score : Int, pcr : Nat \ {0}, bias : {"BULLISH", "BEARISH", "NEUTRAL"}, confident : BOOLEAN]

ASSUME FlowAssumption ==
  /\ Summaries \subseteq Summary /\ Summaries # {}
  /\ {Limit, MinSamples, Swing, NumDays} \subseteq Nat \ {0}
  /\ MaxCaptures \in Nat

Codes ==
  {"PCR_OUTLIER", "FLOW_SCORE_OUTLIER", "BULLISH_PCR_DIVERGENCE",
   "BEARISH_PCR_DIVERGENCE", "RAPID_FLOW_REVERSAL"}

Row == [at : Nat, day : 1 .. NumDays, score : Int, pcr : Nat \ {0},
        codes : SUBSET Codes]

VARIABLES
  now,    \* the captures so far
  today,  \* the trading day
  rows,   \* the table
  call,   \* the record_flow_snapshot each thread is in
  plain   \* history: the captures that met no other and read the whole day

flowVars == <<now, today, rows, call, plain>>

NoCapture == [pc |-> "idle", at |-> 0, day |-> 1, summary |-> CHOOSE s \in Summaries : TRUE,
              codes |-> {}, alone |-> TRUE]

FlowTypeOK ==
  /\ now \in Nat
  /\ today \in 1 .. NumDays
  /\ rows \subseteq Row
  /\ IsFiniteSet(rows)
  /\ call \in [Threads -> [pc : {"idle", "read", "insert"}, at : Nat, day : 1 .. NumDays,
                           summary : Summaries, codes : SUBSET Codes, alone : BOOLEAN]]
  /\ plain \subseteq Nat

FlowInit ==
  /\ now = 0
  /\ today = 1
  /\ rows = {}
  /\ call = [p \in Threads |-> NoCapture]
  /\ plain = {}

-----------------------------------------------------------------------------
(***************************************************************************)
(* list_flow_history of a day.                                             *)
(***************************************************************************)
OfDay(d) == {r \in rows : r.day = d}

\* mutant: without the day
HistoryAnyDay(d) == {r \in rows : Cardinality({q \in rows : q.at < r.at}) < Limit}

\* ORDER BY captured_at ASC LIMIT: the first rows of the day.
History(d) == {r \in OfDay(d) : Cardinality({q \in OfDay(d) : q.at < r.at}) < Limit}

(***************************************************************************)
(* detect_flow_anomalies.                                                  *)
(***************************************************************************)
Distance(a, b) == IF a <= b THEN b - a ELSE a - b

\* mutant: no minimum of samples
OutlierOfAny(x, f) ==
  LET n == Cardinality(DOMAIN f)
      s == SumFunction(f)
      spread == n * SumFunction([r \in DOMAIN f |-> f[r] * f[r]]) - s * s
  IN spread > 0 /\ (n * x - s) * (n * x - s) >= 4 * spread

(***************************************************************************)
(* abs(_zscore(x, values)) >= 2, for the values f takes on the rows that   *)
(* were read: squared and without the divisions.                           *)
(***************************************************************************)
Outlier(x, f) ==
  LET n == Cardinality(DOMAIN f)
      s == SumFunction(f)
      spread == n * SumFunction([r \in DOMAIN f |-> f[r] * f[r]]) - s * s
  IN n >= MinSamples /\ spread > 0 /\ (n * x - s) * (n * x - s) >= 4 * spread

\* recent[-1].
Previous(S) == CHOOSE r \in S : \A q \in S : q.at <= r.at

\* mutant: recent[0]
PreviousFirst(S) == CHOOSE r \in S : \A q \in S : q.at >= r.at

Reversal(x, S) == S # {} /\ Distance(x, Previous(S).score) >= Swing

Anomalies(m, S) ==
  {c \in Codes :
     \/ c = "PCR_OUTLIER" /\ Outlier(m.pcr, [r \in S |-> r.pcr])
     \/ c = "FLOW_SCORE_OUTLIER" /\ Outlier(m.score, [r \in S |-> r.score])
     \/ c = "BULLISH_PCR_DIVERGENCE" /\ m.confident /\ m.bias = "BULLISH" /\ m.pcr < 75
     \/ c = "BEARISH_PCR_DIVERGENCE" /\ m.confident /\ m.bias = "BEARISH" /\ m.pcr > 130
     \/ c = "RAPID_FLOW_REVERSAL" /\ Reversal(m.score, S)}

-----------------------------------------------------------------------------
(***************************************************************************)
(* record_flow_snapshot.                                                   *)
(***************************************************************************)
Active(p) == call[p].pc # "idle"

\* captured_at and its day.  Two calls that meet are noted in both.
Capture(p, m) ==
  LET met == \E q \in Threads : Active(q) IN
  /\ ~Active(p)
  /\ now < MaxCaptures
  /\ now' = now + 1
  /\ call' = [q \in Threads |->
       IF q = p
       THEN [pc |-> "read", at |-> now', day |-> today, summary |-> m, codes |-> {},
             alone |-> ~met]
       ELSE [call[q] EXCEPT !.alone = @ /\ ~Active(q)]]
  /\ UNCHANGED <<today, rows, plain>>

Judge(p) ==
  LET c == call[p]
      S == History(c.day) IN
  /\ c.pc = "read"
  /\ call' = [call EXCEPT ![p].pc = "insert",
                          ![p].codes = Anomalies(c.summary, S),
                          ![p].alone = @ /\ S = OfDay(c.day)]
  /\ UNCHANGED <<now, today, rows, plain>>

\* mutant: the row carries the time and the day of the INSERT
InsertLate(p) ==
  LET c == call[p] IN
  /\ c.pc = "insert"
  /\ rows' = rows \cup {[at |-> c.at, day |-> today, score |-> c.summary.score,
                         pcr |-> c.summary.pcr, codes |-> c.codes]}
  /\ plain' = IF c.alone THEN plain \cup {c.at} ELSE plain
  /\ call' = [call EXCEPT ![p] = NoCapture]
  /\ UNCHANGED <<now, today>>

Insert(p) ==
  LET c == call[p] IN
  /\ c.pc = "insert"
  /\ rows' = rows \cup {[at |-> c.at, day |-> c.day, score |-> c.summary.score,
                         pcr |-> c.summary.pcr, codes |-> c.codes]}
  /\ plain' = IF c.alone THEN plain \cup {c.at} ELSE plain
  /\ call' = [call EXCEPT ![p] = NoCapture]
  /\ UNCHANGED <<now, today>>

\* The SELECT or the INSERT raises; the intelligence endpoint goes on without
\* the flow.
RecordFails(p) ==
  /\ Active(p)
  /\ call' = [call EXCEPT ![p] = NoCapture]
  /\ UNCHANGED <<now, today, rows, plain>>

\* The history, trend and anomaly endpoints: one SELECT, and no change.
ReadEndpoint(p) == ~Active(p) /\ UNCHANGED flowVars

NextDay ==
  /\ today < NumDays
  /\ today' = today + 1
  /\ UNCHANGED <<now, rows, call, plain>>

FlowNext ==
  \/ \E p \in Threads :
       \/ \E m \in Summaries : Capture(p, m)
       \/ Judge(p)
       \/ Insert(p)
       \/ RecordFails(p)
       \/ ReadEndpoint(p)
  \/ NextDay

FlowSpec == FlowInit /\ [][FlowNext]_flowVars

-----------------------------------------------------------------------------
(***************************************************************************)
(* "Composite flow changed ... since the previous snapshot" (line 97): the *)
(* flag says whether the score swung since the snapshot captured just      *)
(* before on the same day.  It needs the call to meet no other, whose row  *)
(* it would miss, and the day to have at most Limit rows, since the oldest *)
(* Limit are read: after them every snapshot is compared with the last of  *)
(* those.                                                                  *)
(***************************************************************************)
ReversalIsSincePrevious ==
  \A r \in rows : r.at \in plain =>
    LET before == {q \in OfDay(r.day) : q.at < r.at} IN
    "RAPID_FLOW_REVERSAL" \in r.codes <=>
      before # {} /\ Distance(r.score, Previous(before).score) >= Swing

(***************************************************************************)
(* However the calls interleave and however long the day, a flag that      *)
(* compares has something to compare with: a reversal has a snapshot of    *)
(* the same day that is that far away, an outlier has its samples.  A day  *)
(* never starts with a reversal against the close of the day before.       *)
(***************************************************************************)
FlagsHaveACause ==
  \A r \in rows :
    LET others == OfDay(r.day) \ {r} IN
    /\ "RAPID_FLOW_REVERSAL" \in r.codes =>
         \E q \in others : Distance(r.score, q.score) >= Swing
    /\ r.codes \cap {"PCR_OUTLIER", "FLOW_SCORE_OUTLIER"} # {} =>
         Cardinality(others) >= MinSamples
=============================================================================

----------------------------- MODULE PaperBook -----------------------------
(***************************************************************************)
(* What the paper ledger promises: a setup is traded at most once, at most *)
(* one paper trade is open at a time, and a trade that is closed stays     *)
(* closed.  No threads, no review, no risk gate.                           *)
(***************************************************************************)
CONSTANT Setups

VARIABLE book   \* the state of the paper trade of each setup

Init == book = [s \in Setups |-> "NONE"]

Open(s) ==
  /\ book[s] = "NONE"
  /\ \A t \in Setups : book[t] # "OPEN"
  /\ book' = [book EXCEPT ![s] = "OPEN"]

Close(s) ==
  /\ book[s] = "OPEN"
  /\ book' = [book EXCEPT ![s] = "CLOSED"]

Next == \E s \in Setups : Open(s) \/ Close(s)

Spec == Init /\ [][Next]_book

\* The README's "single-open-position protection" for paper trades.
OneOpen == \A s, t \in Setups : book[s] = "OPEN" /\ book[t] = "OPEN" => s = t
=============================================================================

------------------------------ MODULE OrderDesk ------------------------------
(***************************************************************************)
(* Manual execution readiness, app/execution_readiness.py: an order is     *)
(* previewed, checked against lot size and capital, and confirmed by hand. *)
(* Confirmation queues it under an idempotency key and submits nothing.    *)
(*                                                                         *)
(* Previews and orders are module globals, written under one lock, so the  *)
(* dictionary insert and the whole of confirm are one step each; a restart *)
(* forgets both.  A preview id hashes the key and the time in              *)
(* microseconds and is taken as fresh: the id is the position in previews, *)
(* as an order's id is its position in orders.                             *)
(***************************************************************************)
EXTENDS Integers, Sequences

CONSTANTS
  Keys,            \* the idempotency keys clients send
  NoKey,           \* no key sent
  NoPrice,         \* no limit price sent
  Quantities, Prices,
  LotSize,         \* settings.nifty_lot_size
  MaxNotional,     \* settings.paper_capital * max_capital_utilization_pct / 100
  MaxPreviews      \* bound: previews between two restarts

ASSUME OrderDeskAssumption ==
  /\ NoKey \notin Keys
  /\ Quantities \subseteq Nat \ {0}
  /\ Prices \subseteq Nat \ {0}
  /\ NoPrice \notin Prices
  /\ LotSize \in Nat \ {0}
  /\ MaxNotional \in Nat
  /\ MaxPreviews \in Nat

VARIABLES
  previews,  \* _previews, in order of creation
  orders     \* _orders

deskVars == <<previews, orders>>

\* OrderPreviewRequest
Request == [idempotency_key : Keys \cup {NoKey}, quantity : Quantities,
            price : Prices \cup {NoPrice}, estimated_price : Prices]

\* mutant: no key is made up
IdemAsSent(r) == r.idempotency_key

\* Without a key of the client's, the hash of the whole request.
Idem(r) == IF r.idempotency_key # NoKey THEN r.idempotency_key ELSE r

Price(r) == IF r.price # NoPrice THEN r.price ELSE r.estimated_price

Preview == [order : Request, status : {"READY", "BLOCKED", "CONFIRMED"}]

Order == [preview_id : Nat, idempotency_key : Keys \cup Request, order : Request]

OrderDeskTypeOK ==
  /\ previews \in Seq(Preview)
  /\ orders \in Seq(Order)

Init ==
  /\ previews = <<>>
  /\ orders = <<>>

-----------------------------------------------------------------------------
\* mutant: the price sent for a limit order is not looked at
ApprovedAtEstimate(r) ==
  /\ r.quantity % LotSize = 0
  /\ r.quantity * r.estimated_price <= MaxNotional

\* The checks of create_preview; the schema keeps quantity and prices positive.
Approved(r) ==
  /\ r.quantity % LotSize = 0
  /\ r.quantity * Price(r) <= MaxNotional

CreatePreview(r) ==
  /\ Len(previews) < MaxPreviews
  /\ previews' = Append(previews, [order |-> r,
                                   status |-> IF Approved(r) THEN "READY" ELSE "BLOCKED"])
  /\ UNCHANGED orders

\* mutant: only the preview's own orders are looked at
DuplicateOfPreview(i) == \E n \in 1..Len(orders) : orders[n].preview_id = i

Duplicate(i) ==
  \E n \in 1..Len(orders) : orders[n].idempotency_key = Idem(previews[i].order)

\* record.status = "CONFIRMED"
Marked(i) == [previews EXCEPT ![i].status = "CONFIRMED"]

\* confirm; a preview that is not READY or a duplicate key is refused.
Confirm(i) ==
  /\ previews[i].status = "READY"
  /\ ~Duplicate(i)
  /\ orders' = Append(orders, [preview_id |-> i,
                               idempotency_key |-> Idem(previews[i].order),
                               order |-> previews[i].order])
  /\ previews' = Marked(i)

\* The process ends and starts again: its globals are empty.
Restart ==
  /\ previews' = <<>>
  /\ orders' = <<>>

Next ==
  \/ \E r \in Request : CreatePreview(r)
  \/ \E i \in 1..Len(previews) : Confirm(i)
  \/ Restart

Spec == Init /\ [][Next]_deskVars

-----------------------------------------------------------------------------
\* Idempotency duplicate prevention: however often an order is previewed, and
\* whichever of its previews are confirmed, it is queued once per process.
OneOrderPerKey ==
  \A m, n \in 1..Len(orders) :
    orders[m].idempotency_key = orders[n].idempotency_key => m = n

\* The queue and the previews tell the same story: a preview is CONFIRMED if
\* and only if the queue holds an order made from it, and that order is within
\* lot size and capital.
QueueMatchesPreviews ==
  /\ \A i \in 1..Len(previews) :
       previews[i].status = "CONFIRMED" <=> \E n \in 1..Len(orders) : orders[n].preview_id = i
  /\ \A n \in 1..Len(orders) :
       /\ orders[n].order = previews[orders[n].preview_id].order
       /\ orders[n].order.quantity % LotSize = 0
       /\ orders[n].order.quantity * Price(orders[n].order) <= MaxNotional
=============================================================================

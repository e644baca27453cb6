------------------------- MODULE ManualTradingProofs -------------------------
(***************************************************************************)
(* What is traded by hand, for any threads, positions, keys and limits.    *)
(* Execution readiness: an idempotency key is queued once, and the queue   *)
(* holds exactly the confirmed previews, each within lot size and capital. *)
(* Manual positions: each closed position enters the session once, as long *)
(* as close requests do not overlap and their calls do not raise.          *)
(***************************************************************************)
EXTENDS OrderDesk, Positions, SessionsProofs

-----------------------------------------------------------------------------
(***************************************************************************)
(* Execution readiness.                                                    *)
(***************************************************************************)

\* What was checked when a preview was made still holds of it later.
ReadyWasApproved ==
  \A i \in 1..Len(previews) : previews[i].status # "BLOCKED" => Approved(previews[i].order)

\* An order refers to a preview of this process.
OrdersHavePreviews ==
  \A n \in 1..Len(orders) :
    /\ orders[n].preview_id \in 1..Len(previews)
    /\ orders[n].order = previews[orders[n].preview_id].order

ConfirmedIffQueued ==
  \A i \in 1..Len(previews) :
    previews[i].status = "CONFIRMED" <=> \E n \in 1..Len(orders) : orders[n].preview_id = i

DeskInv ==
  /\ OrderDeskTypeOK
  /\ ReadyWasApproved
  /\ OrdersHavePreviews
  /\ ConfirmedIffQueued
  /\ OneOrderPerKey

-----------------------------------------------------------------------------
LEMMA EmptyDesk ==
  ASSUME previews = <<>>, orders = <<>> PROVE DeskInv
  BY DEF DeskInv, OrderDeskTypeOK, ReadyWasApproved, OrdersHavePreviews,
         ConfirmedIffQueued, OneOrderPerKey

LEMMA IdemType == ASSUME NEW r \in Request PROVE Idem(r) \in Keys \cup Request
  BY DEF Idem, Request

\* A new preview is not CONFIRMED, and the earlier ones keep their place.
LEMMA PreviewInv ==
  ASSUME DeskInv, NEW r \in Request, CreatePreview(r) PROVE DeskInv'
  <1> USE DEF DeskInv
  <1> DEFINE p == [order |-> r, status |-> IF Approved(r) THEN "READY" ELSE "BLOCKED"]
  <1>1. /\ p \in Preview /\ p.order = r /\ p.status # "CONFIRMED"
        /\ p.status # "BLOCKED" => Approved(r)
    BY DEF Preview
  <1>2. previews' = Append(previews, p) /\ orders' = orders
    BY DEF CreatePreview
  <1> HIDE DEF p
  <1>3. /\ previews' \in Seq(Preview)
        /\ Len(previews') = Len(previews) + 1
        /\ previews'[Len(previews')] = p
        /\ \A i \in 1..Len(previews) : previews'[i] = previews[i]
    BY <1>1, <1>2 DEF OrderDeskTypeOK
  <1>4. Len(previews) \in Nat
    BY DEF OrderDeskTypeOK
  <1>5. OrderDeskTypeOK' /\ OneOrderPerKey'
    BY <1>2, <1>3 DEF OrderDeskTypeOK, OneOrderPerKey
  <1>6. ReadyWasApproved'
    BY <1>1, <1>3, <1>4 DEF ReadyWasApproved, Approved, Price
  <1>7. OrdersHavePreviews'
    BY <1>2, <1>3, <1>4 DEF OrdersHavePreviews
  <1>8. ConfirmedIffQueued'
    <2> SUFFICES ASSUME NEW i \in 1..Len(previews')
                 PROVE  previews'[i].status = "CONFIRMED"
                          <=> \E n \in 1..Len(orders) : orders[n].preview_id = i
      BY <1>2 DEF ConfirmedIffQueued
    <2>1. CASE i \in 1..Len(previews)
      BY <1>3, <2>1 DEF ConfirmedIffQueued
    <2>2. CASE i = Len(previews')
      BY <1>1, <1>3, <1>4, <2>2 DEF OrdersHavePreviews
    <2> QED
      BY <1>3, <1>4, <2>1, <2>2
  <1> QED
    BY <1>5, <1>6, <1>7, <1>8

\* The new order has a key that no other has, and it is of the one preview that
\* becomes CONFIRMED.
LEMMA ConfirmInv ==
  ASSUME DeskInv, NEW i \in 1..Len(previews), Confirm(i) PROVE DeskInv'
  <1> USE DEF DeskInv
  <1> DEFINE o == [preview_id |-> i, idempotency_key |-> Idem(previews[i].order),
                   order |-> previews[i].order]
  <1>1. previews[i] \in Preview /\ Len(previews) \in Nat /\ Len(orders) \in Nat
    BY DEF OrderDeskTypeOK
  <1>2. o \in Order /\ o.preview_id = i /\ o.order = previews[i].order
        /\ o.idempotency_key = Idem(previews[i].order)
    BY <1>1, IdemType DEF Order, Preview
  <1>3. orders' = Append(orders, o) /\ previews' = [previews EXCEPT ![i].status = "CONFIRMED"]
    BY DEF Confirm, Marked
  <1>4. previews[i].status = "READY" /\ \A n \in 1..Len(orders) :
                                           orders[n].idempotency_key # o.idempotency_key
    BY <1>2 DEF Confirm, Duplicate
  <1> HIDE DEF o
  <1>5. /\ orders' \in Seq(Order)
        /\ Len(orders') = Len(orders) + 1
        /\ orders'[Len(orders')] = o
        /\ \A n \in 1..Len(orders) : orders'[n] = orders[n]
    BY <1>2, <1>3 DEF OrderDeskTypeOK
  <1>6. /\ previews' \in Seq(Preview)
        /\ Len(previews') = Len(previews)
        /\ \A j \in 1..Len(previews) : previews'[j].order = previews[j].order
        /\ \A j \in 1..Len(previews) : j # i => previews'[j] = previews[j]
        /\ previews'[i].status = "CONFIRMED"
    <2> DEFINE c == [order |-> previews[i].order, status |-> "CONFIRMED"]
    <2>1. c \in Preview /\ c.order = previews[i].order /\ c.status = "CONFIRMED"
      BY <1>1 DEF Preview
    <2>2. [previews[i] EXCEPT !.status = "CONFIRMED"] = c
      BY <1>1 DEF Preview
    <2>3. previews' = [previews EXCEPT ![i] = c]
      BY <1>3, <2>2
    <2> HIDE DEF c
    <2> QED
      BY <1>1, <2>1, <2>3 DEF OrderDeskTypeOK
  <1>7. OrderDeskTypeOK'
    BY <1>5, <1>6 DEF OrderDeskTypeOK
  <1>8. ReadyWasApproved'
    <2> SUFFICES ASSUME NEW j \in 1..Len(previews), previews'[j].status # "BLOCKED"
                 PROVE  Approved(previews[j].order)
      BY <1>6 DEF ReadyWasApproved, Approved, Price
    <2> QED
      BY <1>4, <1>6 DEF ReadyWasApproved
  <1>9. OrdersHavePreviews'
    <2> SUFFICES ASSUME NEW n \in 1..Len(orders')
                 PROVE  /\ orders'[n].preview_id \in 1..Len(previews)
                        /\ orders'[n].order = previews[orders'[n].preview_id].order
      BY <1>6 DEF OrdersHavePreviews
    <2>1. CASE n = Len(orders')
      BY <1>2, <1>5, <2>1
    <2>2. CASE n \in 1..Len(orders)
      BY <1>5, <2>2 DEF OrdersHavePreviews
    <2> QED
      BY <1>1, <1>5, <2>1, <2>2
  <1>10. ConfirmedIffQueued'
    <2> SUFFICES ASSUME NEW j \in 1..Len(previews)
                 PROVE  previews'[j].status = "CONFIRMED"
                          <=> \E n \in 1..Len(orders') : orders'[n].preview_id = j
      BY <1>6 DEF ConfirmedIffQueued
    <2>1. CASE j = i
      <3>1. Len(orders') \in 1..Len(orders') /\ orders'[Len(orders')].preview_id = i
        BY <1>1, <1>2, <1>5
      <3> QED
        BY <1>6, <2>1, <3>1
    <2>2. CASE j # i
      <3>1. previews'[j] = previews[j]
        BY <1>6, <2>2
      <3>2. \A n \in 1..Len(orders') :
              orders'[n].preview_id = j => n \in 1..Len(orders) /\ orders[n].preview_id = j
        BY <1>1, <1>2, <1>5, <2>2
      <3>3. \A n \in 1..Len(orders) :
              n \in 1..Len(orders') /\ orders'[n].preview_id = orders[n].preview_id
        BY <1>1, <1>5
      <3>4. (\E n \in 1..Len(orders') : orders'[n].preview_id = j)
              <=> \E n \in 1..Len(orders) : orders[n].preview_id = j
        BY <3>2, <3>3
      <3> QED
        BY <3>1, <3>4 DEF ConfirmedIffQueued
    <2> QED
      BY <2>1, <2>2
  <1>11. OneOrderPerKey'
    BY <1>1, <1>4, <1>5 DEF OneOrderPerKey
  <1> QED
    BY <1>7, <1>8, <1>9, <1>10, <1>11

\* The inductive invariant of the desk.
THEOREM DeskInvariant == Spec => []DeskInv
  <1>1. Init => DeskInv
    BY EmptyDesk DEF Init
  <1>2. DeskInv /\ [Next]_deskVars => DeskInv'
    <2> SUFFICES ASSUME DeskInv, [Next]_deskVars PROVE DeskInv'
      OBVIOUS
    <2>1. ASSUME NEW r \in Request, CreatePreview(r) PROVE DeskInv'
      BY <2>1, PreviewInv
    <2>2. ASSUME NEW i \in 1..Len(previews), Confirm(i) PROVE DeskInv'
      BY <2>2, ConfirmInv
    <2>3. CASE Restart
      BY <2>3 DEF Restart, DeskInv, OrderDeskTypeOK, ReadyWasApproved, OrdersHavePreviews,
                  ConfirmedIffQueued, OneOrderPerKey
    <2>4. CASE UNCHANGED deskVars
      BY <2>4 DEF deskVars, DeskInv, OrderDeskTypeOK, ReadyWasApproved, OrdersHavePreviews,
                  ConfirmedIffQueued, OneOrderPerKey, Approved, Price
    <2> QED
      BY <2>1, <2>2, <2>3, <2>4 DEF Next
  <1> QED
    BY <1>1, <1>2, PTL DEF Spec

\* Every reachable state of the desk is well typed.
THEOREM DeskTypeCorrect == Spec => []OrderDeskTypeOK
  <1>1. DeskInv => OrderDeskTypeOK
    BY DEF DeskInv
  <1> QED
    BY <1>1, DeskInvariant, PTL

\* confirm queues an idempotency key at most once in the life of a process.
THEOREM NoDuplicateOrder == Spec => []OneOrderPerKey
  <1>1. DeskInv => OneOrderPerKey
    BY DEF DeskInv
  <1> QED
    BY <1>1, DeskInvariant, PTL

\* The queue holds exactly the CONFIRMED previews, each within the limits that
\* create_preview checked.
THEOREM QueueIsConfirmed == Spec => []QueueMatchesPreviews
  <1>1. DeskInv => QueueMatchesPreviews
    <2> SUFFICES ASSUME DeskInv PROVE QueueMatchesPreviews
      OBVIOUS
    <2>1. ASSUME NEW n \in 1..Len(orders)
          PROVE  /\ orders[n].order = previews[orders[n].preview_id].order
                 /\ Approved(orders[n].order)
      <3> DEFINE i == orders[n].preview_id
      <3>1. i \in 1..Len(previews) /\ orders[n].order = previews[i].order
        BY DEF DeskInv, OrdersHavePreviews
      <3>2. previews[i].status = "CONFIRMED"
        BY <3>1 DEF DeskInv, ConfirmedIffQueued
      <3> QED
        BY <3>1, <3>2 DEF DeskInv, ReadyWasApproved
    <2> QED
      BY <2>1 DEF QueueMatchesPreviews, Approved, DeskInv, ConfirmedIffQueued
  <1> QED
    BY <1>1, DeskInvariant, PTL

-----------------------------------------------------------------------------
(***************************************************************************)
(* Manual positions.  The inductive invariant: that of the sessions table, *)
(* the types, and what the step of an endpoint says of its locals.         *)
(***************************************************************************)
Endpoints ==
  \A p \in Threads :
    /\ step[p] = "idle" =>
         held[p] = NoPosition /\ (call[p].pc = "none" \/ call[p].op = "get")
    /\ step[p] = "close" => call[p].pc = "none"
    /\ step[p] = "record" => call[p].pc # "none" /\ call[p].op = "record"
    /\ step[p] # "idle" => held[p] \in Positions
    /\ step[p] = "close" => position[held[p]].status # "NONE"
    /\ step[p] = "record" => position[held[p]].status = "CLOSED"

PositionsInv == SessionsInv /\ PositionsTypeOK /\ Endpoints

IsRecording(p) == step[p] = "record" /\ call[p].pc # "done"

\* No two threads hold one position, so the one that is about to close it finds
\* it open.
OneHolder ==
  /\ \A p, q \in Threads : held[p] = held[q] /\ held[p] # NoPosition => p = q
  /\ \A p \in Threads : step[p] = "close" => IsOpen(held[p])

\* A closed position is counted, or it is being counted with the pnl of its row.
BookedOnce ==
  /\ \A p \in Threads : IsRecording(p) =>
       call[p].pc # "failed" /\ call[p].pnl = position[held[p]].pnl
  /\ \A x \in Positions :
       booked[x] = IF \/ position[x].status # "CLOSED"
                      \/ \E p \in Threads : IsRecording(p) /\ held[p] = x
                   THEN 0 ELSE 1

BookingInv ==
  /\ ~overlap => OneHolder
  /\ ~overlap /\ ~raised => BookedOnce

LEMMA PositionsInitInv == PositionsInit => PositionsInv /\ BookingInv
  <1> SUFFICES ASSUME PositionsInit PROVE PositionsInv /\ BookingInv
    OBVIOUS
  <1>1. SessionsInv
    BY InitInv DEF PositionsInit
  <1>2. \A p \in Threads : call[p].pc = "none" /\ call[p].op = "get"
    BY DEF PositionsInit, SessionsInit, NoCall
  <1>3. PositionsTypeOK
    <2>1. [status |-> "NONE", pnl |-> 0] \in Position
      BY DEF Position
    <2> QED
      BY <1>1, <2>1 DEF SessionsInv, PositionsInit, PositionsTypeOK
  <1>5. Endpoints
    BY <1>2 DEF PositionsInit, Endpoints
  <1>4. OneHolder /\ BookedOnce
    BY <1>2 DEF PositionsInit, OneHolder, BookedOnce, IsRecording
  <1> QED
    BY <1>1, <1>3, <1>4, <1>5 DEF PositionsInv, BookingInv

LEMMA PositionsKeepSessionsInv ==
  ASSUME PositionsInv, [PositionsNext]_vars PROVE SessionsInv'
  <1> USE DEF PositionsInv
  <1>1. ASSUME UNCHANGED sessionVars PROVE SessionsInv'
    BY <1>1, SessionsKept
  <1>2. ASSUME NEW p \in Threads, NEW x \in Positions, OpenPosition(p, x) \/ FindOpen(p, x)
        PROVE  SessionsInv'
    BY <1>1, <1>2 DEF OpenPosition, FindOpen
  <1>3. ASSUME NEW p \in Threads, NEW pnl \in Pnls, ClosePosition(p, pnl) PROVE SessionsInv'
    <2>1. pnl \in Int
      BY SessionsAssumption
    <2> QED
      BY <1>3, <2>1, BeginInv DEF ClosePosition, BeginRecord
  <1>4. ASSUME NEW p \in Threads, ResultRecorded(p) \/ EndpointFails(p) PROVE SessionsInv'
    BY <1>1, <1>4, ReturnInv DEF ResultRecorded, EndpointFails
  <1>5. ASSUME NEW p \in Threads, SessionCall(p) PROVE SessionsInv'
    BY <1>5, CallStepInv DEF SessionCall
  <1>6. ASSUME NEW p \in Threads, StatusEndpoint(p) PROVE SessionsInv'
    BY <1>6, BeginInv, ReturnInv DEF StatusEndpoint, BeginGet
  <1>7. CASE NextDay \/ UNCHANGED vars
    BY <1>1, <1>7, NextDayInv DEF vars
  <1> QED
    BY <1>2, <1>3, <1>4, <1>5, <1>6, <1>7 DEF PositionsNext, PositionEndpoint

\* The row a close request writes, and the call it enters.
LEMMA CloseFacts ==
  ASSUME PositionsInv, NEW p \in Threads, NEW pnl \in Pnls, ClosePosition(p, pnl)
  PROVE  LET x == held[p] IN
         /\ x \in Positions /\ pnl \in Int
         /\ step[p] = "close" /\ step' = [step EXCEPT ![p] = "record"]
         /\ position'[x].status = "CLOSED" /\ position'[x].pnl = pnl
         /\ position'[x] \in Position
         /\ \A y \in Positions \ {x} : position'[y] = position[y]
         /\ position' = [position EXCEPT ![x] = position'[x]]
         /\ call'[p].pc = "lookup" /\ call'[p].op = "record" /\ call'[p].pnl = pnl
         /\ \A q \in Threads \ {p} : call'[q] = call[q]
         /\ UNCHANGED <<held, booked, amounts, raised, overlap>>
  BY SessionsAssumption
  DEF PositionsInv, PositionsTypeOK, SessionsTypeOK, Endpoints, ClosePosition, Written,
      BeginRecord, Begin, Position

LEMMA EndpointsStep ==
  ASSUME PositionsInv, [PositionsNext]_vars, SessionsInv'
  PROVE  (PositionsTypeOK /\ Endpoints)'
  <1> USE DEF PositionsInv
  <1>0. /\ SessionsTypeOK' /\ SessionsTypeOK /\ call \in [Threads -> Call]
        /\ step \in [Threads -> {"idle", "close", "record"}]
        /\ held \in [Threads -> Positions \cup {NoPosition}]
        /\ position \in [Positions -> Position]
        /\ NoPosition \notin Positions
    BY PositionsAssumption DEF SessionsInv, SessionsTypeOK, PositionsTypeOK
  <1>1. ASSUME NEW p \in Threads, NEW x \in Positions, OpenPosition(p, x)
        PROVE  (PositionsTypeOK /\ Endpoints)'
    <2>1. /\ position' \in [Positions -> Position] /\ position'[x].status = "OPEN"
          /\ position[x].status = "NONE"
          /\ \A y \in Positions \ {x} : position'[y] = position[y]
          /\ UNCHANGED <<call, step, held, booked, amounts, raised, overlap>>
      BY <1>0, <1>1 DEF OpenPosition, Position, sessionVars
    <2>2. PositionsTypeOK'
      BY <1>0, <2>1 DEF PositionsTypeOK
    <2>3. Endpoints'
      BY <1>0, <2>1 DEF Endpoints
    <2> QED
      BY <2>2, <2>3
  <1>2. ASSUME NEW p \in Threads, NEW x \in Positions, FindOpen(p, x)
        PROVE  (PositionsTypeOK /\ Endpoints)'
    BY <1>0, <1>2 DEF FindOpen, Idle, IsOpen, PositionsTypeOK, Endpoints, sessionVars
  <1>3. ASSUME NEW p \in Threads, NEW pnl \in Pnls, ClosePosition(p, pnl)
        PROVE  (PositionsTypeOK /\ Endpoints)'
    <2>1. PositionsTypeOK'
      BY <1>0, <1>3, CloseFacts DEF PositionsTypeOK
    <2>2. Endpoints'
      BY <1>0, <1>3, CloseFacts DEF Endpoints
    <2> QED
      BY <2>1, <2>2
  <1>4. ASSUME NEW p \in Threads, ResultRecorded(p) \/ EndpointFails(p)
        PROVE  (PositionsTypeOK /\ Endpoints)'
    <2>1. /\ step' = [step EXCEPT ![p] = "idle"] /\ held' = [held EXCEPT ![p] = NoPosition]
          /\ position' = position /\ booked' = booked /\ amounts' = amounts
          /\ overlap' = overlap
          /\ raised' \in BOOLEAN
      BY <1>4 DEF ResultRecorded, EndpointFails, Finish, PositionsTypeOK
    <2>4. call'[p].pc = "none" /\ \A q \in Threads \ {p} : call'[q] = call[q]
      <3>1. CASE ResultRecorded(p)
        BY <1>0, <3>1 DEF ResultRecorded, Return, NoCall
      <3>2. CASE EndpointFails(p)
        BY <1>0, <3>2 DEF EndpointFails, sessionVars, Endpoints
      <3> QED
        BY <1>4, <3>1, <3>2
    <2>2. PositionsTypeOK'
      BY <1>0, <2>1 DEF PositionsTypeOK
    <2>3. Endpoints'
      BY <1>0, <2>1, <2>4 DEF Endpoints
    <2> QED
      BY <2>2, <2>3
  <1>5. ASSUME NEW p \in Threads, SessionCall(p) PROVE (PositionsTypeOK /\ Endpoints)'
    <2>1. /\ call[p].pc # "none"
          /\ call'[p].pc # "none" /\ call'[p].op = call[p].op
          /\ \A q \in Threads \ {p} : call'[q] = call[q]
      BY <1>0, <1>5, CallStepFacts DEF SessionCall
    <2>2. UNCHANGED <<position, step, held, overlap>>
      BY <1>5 DEF SessionCall
    <2>3. /\ booked' \in [Positions -> Nat] /\ raised' \in BOOLEAN
          /\ amounts' \in [Positions -> SUBSET Pnls]
      <3>1. step[p] = "record" => held[p] \in Positions /\ call[p].pnl \in Pnls
        BY DEF Endpoints, SessionsInv, CallsMakeSense
      <3> QED
        BY <1>0, <1>5, <3>1 DEF SessionCall, PositionsTypeOK
    <2>4. PositionsTypeOK'
      BY <1>0, <2>2, <2>3 DEF PositionsTypeOK
    <2>5. Endpoints'
      BY <1>0, <2>1, <2>2 DEF Endpoints
    <2> QED
      BY <2>4, <2>5
  <1>6. ASSUME NEW p \in Threads, StatusEndpoint(p) PROVE (PositionsTypeOK /\ Endpoints)'
    <2>1. /\ call'[p].pc = "none" \/ call'[p].op = "get"
          /\ \A q \in Threads \ {p} : call'[q] = call[q]
          /\ step[p] = "idle" /\ UNCHANGED positionVars
      BY <1>0, <1>6 DEF StatusEndpoint, BeginGet, Begin, Return, NoCall
    <2> QED
      BY <1>0, <2>1 DEF positionVars, PositionsTypeOK, Endpoints
  <1>7. CASE UNCHANGED <<call, positionVars>>
    BY <1>0, <1>7 DEF positionVars, PositionsTypeOK, Endpoints
  <1> QED
    BY <1>1, <1>2, <1>3, <1>4, <1>5, <1>6, <1>7
    DEF PositionsNext, PositionEndpoint, NextDay, vars, sessionVars

LEMMA OneHolderStep ==
  ASSUME PositionsInv, [PositionsNext]_vars, OneHolder, ~overlap' PROVE OneHolder'
  <1>0. /\ call \in [Threads -> Call] /\ SessionsTypeOK
        /\ step \in [Threads -> {"idle", "close", "record"}]
        /\ held \in [Threads -> Positions \cup {NoPosition}]
        /\ position \in [Positions -> Position]
        /\ NoPosition \notin Positions
        /\ \A p \in Threads : step[p] # "idle" => held[p] \in Positions
    BY PositionsAssumption DEF PositionsInv, PositionsTypeOK, SessionsTypeOK, Endpoints
  <1>1. ASSUME NEW p \in Threads, NEW x \in Positions, OpenPosition(p, x) PROVE OneHolder'
    <2>1. /\ position'[x].status = "OPEN"
          /\ \A y \in Positions \ {x} : position'[y] = position[y]
          /\ UNCHANGED <<step, held>>
      BY <1>0, <1>1 DEF OpenPosition, Position
    <2> QED
      BY <1>0, <2>1 DEF OneHolder, IsOpen
  <1>2. ASSUME NEW p \in Threads, NEW x \in Positions, FindOpen(p, x) PROVE OneHolder'
    BY <1>0, <1>2 DEF FindOpen, OneHolder, IsOpen
  <1>3. ASSUME NEW p \in Threads, NEW pnl \in Pnls, ClosePosition(p, pnl) PROVE OneHolder'
    <2>1. \A q \in Threads \ {p} : held[q] # held[p]
      BY <1>0, <1>3, CloseFacts DEF OneHolder
    <2> QED
      BY <1>0, <1>3, <2>1, CloseFacts DEF OneHolder, IsOpen
  <1>4. ASSUME NEW p \in Threads, ResultRecorded(p) \/ EndpointFails(p) PROVE OneHolder'
    BY <1>0, <1>4 DEF ResultRecorded, EndpointFails, Finish, OneHolder, IsOpen
  <1>5. CASE UNCHANGED <<position, step, held>>
    BY <1>5 DEF OneHolder, IsOpen
  <1> QED
    BY <1>1, <1>2, <1>3, <1>4, <1>5
    DEF PositionsNext, PositionEndpoint, SessionCall, StatusEndpoint, vars, positionVars

LEMMA BookedOnceStep ==
  ASSUME PositionsInv, [PositionsNext]_vars, OneHolder, BookedOnce, ~raised'
  PROVE  BookedOnce'
  <1>0. /\ call \in [Threads -> Call] /\ SessionsTypeOK
        /\ step \in [Threads -> {"idle", "close", "record"}]
        /\ held \in [Threads -> Positions \cup {NoPosition}]
        /\ position \in [Positions -> Position]
        /\ booked \in [Positions -> Nat]
        /\ NoPosition \notin Positions
        /\ \A p \in Threads : step[p] # "idle" => held[p] \in Positions
        /\ \A p \in Threads : step[p] = "record" => position[held[p]].status = "CLOSED"
    BY PositionsAssumption DEF PositionsInv, PositionsTypeOK, SessionsTypeOK, Endpoints
  <1>1. ASSUME NEW p \in Threads, NEW x \in Positions, OpenPosition(p, x) PROVE BookedOnce'
    <2>1. /\ position'[x].status = "OPEN" /\ position[x].status = "NONE"
          /\ \A y \in Positions \ {x} : position'[y] = position[y]
          /\ UNCHANGED <<call, step, held, booked>>
      BY <1>0, <1>1 DEF OpenPosition, Position, sessionVars
    <2>2. \A q \in Threads : step[q] = "record" => position'[held[q]] = position[held[q]]
      BY <1>0, <2>1
    <2> QED
      BY <1>0, <2>1, <2>2 DEF BookedOnce, IsRecording
  <1>2. ASSUME NEW p \in Threads,
               UNCHANGED <<position, booked>>, ~IsRecording(p), ~IsRecording(p)',
               \A q \in Threads \ {p} :
                 step'[q] = step[q] /\ held'[q] = held[q] /\ call'[q] = call[q]
        PROVE  BookedOnce'
    BY <1>2 DEF BookedOnce, IsRecording
  <1>3. ASSUME NEW p \in Threads, NEW x \in Positions, FindOpen(p, x) PROVE BookedOnce'
    BY <1>0, <1>2, <1>3 DEF FindOpen, Idle, IsRecording, sessionVars
  <1>4. ASSUME NEW p \in Threads, NEW pnl \in Pnls, ClosePosition(p, pnl) PROVE BookedOnce'
    <2> DEFINE x == held[p]
    <2>1. \A q \in Threads \ {p} : held[q] # x
      BY <1>0, <1>4, CloseFacts DEF OneHolder
    <2>2. booked[x] = 0 /\ position[x].status # "CLOSED" /\ x \in Positions
      BY <1>0, <1>4, CloseFacts DEF OneHolder, IsOpen, BookedOnce
    <2>3. ~IsRecording(p) /\ IsRecording(p)'
      BY <1>0, <1>4, CloseFacts DEF IsRecording
    <2>4. \A q \in Threads \ {p} : IsRecording(q)' <=> IsRecording(q)
      BY <1>0, <1>4, CloseFacts DEF IsRecording
    <2>5. \A q \in Threads \ {p} : IsRecording(q) =>
            call'[q] = call[q] /\ position'[held[q]] = position[held[q]]
      BY <1>0, <1>4, <2>1, CloseFacts DEF IsRecording
    <2>6. \A y \in Positions \ {x} : position'[y] = position[y] /\ booked'[y] = booked[y]
      BY <1>4, CloseFacts
    <2>7. ASSUME NEW q \in Threads, IsRecording(q)'
          PROVE  call'[q].pc # "failed" /\ call'[q].pnl = position'[held'[q]].pnl
      <3>1. CASE q = p
        BY <1>4, <3>1, CloseFacts
      <3>2. CASE q # p
        BY <1>4, <2>4, <2>5, <2>7, <3>2, CloseFacts DEF BookedOnce
      <3> QED
        BY <3>1, <3>2
    <2>8. ASSUME NEW y \in Positions
          PROVE  booked'[y] = IF \/ position'[y].status # "CLOSED"
                                 \/ \E q \in Threads : IsRecording(q)' /\ held'[q] = y
                              THEN 0 ELSE 1
      <3>1. CASE y = x
        BY <1>4, <2>2, <2>3, <3>1, CloseFacts
      <3>2. CASE y # x
        <4>1. (\E q \in Threads : IsRecording(q)' /\ held'[q] = y)
                <=> (\E q \in Threads : IsRecording(q) /\ held[q] = y)
          BY <1>4, <2>3, <2>4, <3>2, CloseFacts
        <4> QED
          BY <2>6, <3>2, <4>1 DEF BookedOnce
      <3> QED
        BY <3>1, <3>2
    <2> QED
      BY <2>7, <2>8 DEF BookedOnce
  <1>5. ASSUME NEW p \in Threads, ResultRecorded(p) PROVE BookedOnce'
    <2>1. ~IsRecording(p)
      BY <1>5 DEF ResultRecorded, Return, BookedOnce, IsRecording
    <2>2. /\ step'[p] = "idle" /\ UNCHANGED <<position, booked>>
          /\ \A q \in Threads \ {p} :
               step'[q] = step[q] /\ held'[q] = held[q] /\ call'[q] = call[q]
      BY <1>0, <1>5 DEF ResultRecorded, Finish, Return
    <2> QED
      BY <1>2, <2>1, <2>2 DEF IsRecording
  <1>6. ASSUME NEW p \in Threads, SessionCall(p) PROVE BookedOnce'
    <2>0. /\ CallStep(p) /\ UNCHANGED <<position, step, held>>
          /\ step[p] = "record" => call'[p].pc # "failed"
          /\ \A q \in Threads \ {p} : call'[q] = call[q]
          /\ call[p].pc \notin {"none", "done", "failed"}
      BY <1>0, <1>6, CallStepFacts DEF SessionCall
    <2>1. CASE step[p] # "record"
      BY <1>2, <1>6, <2>0, <2>1 DEF SessionCall, IsRecording
    <2>2. CASE step[p] = "record" /\ UpdateRow(p)
      <3> DEFINE x == held[p]
      <3>1. call'[p].pc = "done" /\ x \in Positions
        BY <1>0, <2>2 DEF UpdateRow, Call
      <3>2. results' # results
        <4>1. call[p].pnl \in Pnls /\ call[p].day \in Day
          BY <1>0, <2>2 DEF PositionsInv, SessionsInv, CallsMakeSense, Endpoints, Call
        <4>2. results \in [Day -> Seq(Pnls)]
          BY <1>0 DEF SessionsTypeOK
        <4>3. Len(Append(results[call[p].day], call[p].pnl)) = Len(results[call[p].day]) + 1
          BY <4>1, <4>2
        <4>4. results'[call[p].day] = Append(results[call[p].day], call[p].pnl)
          BY <2>2, <4>1, <4>2 DEF UpdateRow
        <4>5. Len(results[call[p].day]) \in Nat
          BY <4>1, <4>2
        <4> QED
          BY <4>3, <4>4, <4>5
      <3>3. booked' = [booked EXCEPT ![x] = booked[x] + 1]
        BY <1>6, <2>2, <3>2 DEF SessionCall
      <3>4. IsRecording(p) /\ ~IsRecording(p)'
        BY <2>0, <2>2, <3>1 DEF IsRecording
      <3>5. \A q \in Threads \ {p} : (IsRecording(q)' <=> IsRecording(q)) /\ held[q] # x
        BY <1>0, <2>0, <3>1 DEF OneHolder, IsRecording
      <3>6. \A q \in Threads : IsRecording(q)' =>
              call'[q].pc # "failed" /\ call'[q].pnl = position'[held'[q]].pnl
        BY <2>0, <3>4, <3>5 DEF BookedOnce
      <3>7. ASSUME NEW y \in Positions
            PROVE  booked'[y] = IF \/ position'[y].status # "CLOSED"
                                   \/ \E q \in Threads : IsRecording(q)' /\ held'[q] = y
                                THEN 0 ELSE 1
        <4>1. CASE y = x
          BY <1>0, <2>0, <2>2, <3>3, <3>4, <3>5, <4>1 DEF BookedOnce
        <4>2. CASE y # x
          <5>1. (\E q \in Threads : IsRecording(q)' /\ held'[q] = y)
                  <=> (\E q \in Threads : IsRecording(q) /\ held[q] = y)
            BY <2>0, <3>4, <3>5, <4>2
          <5> QED
            BY <1>0, <2>0, <3>3, <4>2, <5>1 DEF BookedOnce
        <4> QED
          BY <4>1, <4>2
      <3> QED
        BY <3>6, <3>7 DEF BookedOnce
    <2>3. CASE step[p] = "record" /\ ~UpdateRow(p)
      <3>1. LookupRow(p) \/ InsertRow(p) \/ ReadRow(p) \/ StoreError(p)
        BY <2>0, <2>3 DEF CallStep
      <3>2. call[p].op = "record"
        BY <2>3 DEF PositionsInv, Endpoints
      <3>3. call'[p].pc # "done" /\ call'[p].pnl = call[p].pnl
        BY <1>0, <3>1, <3>2
        DEF LookupRow, InsertRow, ReadRow, StoreError, RowAvailable, Call
      <3>4. UNCHANGED booked
        BY <1>6, <3>1 DEF SessionCall, LookupRow, InsertRow, ReadRow, StoreError
      <3>5. \A q \in Threads : (IsRecording(q)' <=> IsRecording(q)) /\ call'[q].pnl = call[q].pnl
        BY <2>0, <3>3 DEF IsRecording
      <3>6. \A q \in Threads : IsRecording(q)' => call'[q].pc # "failed"
        BY <2>0, <2>3, <3>5 DEF BookedOnce
      <3> QED
        BY <2>0, <3>4, <3>5, <3>6 DEF BookedOnce
    <2> QED
      BY <2>1, <2>2, <2>3
  <1>7. ASSUME NEW p \in Threads, StatusEndpoint(p) PROVE BookedOnce'
    <2>1. /\ \A q \in Threads \ {p} : call'[q] = call[q]
          /\ step[p] = "idle" /\ UNCHANGED positionVars
      BY <1>0, <1>7 DEF StatusEndpoint, BeginGet, Begin, Return
    <2> QED
      BY <1>2, <2>1 DEF positionVars, IsRecording
  <1>8. CASE UNCHANGED <<call, positionVars>>
    BY <1>8 DEF positionVars, BookedOnce, IsRecording
  <1> QED
    BY <1>1, <1>3, <1>4, <1>5, <1>6, <1>7, <1>8
    DEF PositionsNext, PositionEndpoint, EndpointFails, NextDay, vars, sessionVars

LEMMA PositionsInvariant == PositionsSpec => [](PositionsInv /\ BookingInv)
  <1>1. PositionsInv /\ [PositionsNext]_vars => PositionsInv'
    BY PositionsKeepSessionsInv, EndpointsStep DEF PositionsInv
  <1>2. PositionsInv /\ BookingInv /\ [PositionsNext]_vars => BookingInv'
    <2> SUFFICES ASSUME PositionsInv, BookingInv, [PositionsNext]_vars PROVE BookingInv'
      OBVIOUS
    <2>1. ASSUME NEW p \in Threads, NEW x \in Positions, FindOpen(p, x) PROVE overlap => overlap'
      BY <2>1, Zenon DEF FindOpen
    <2>2. ASSUME NEW p \in Threads, SessionCall(p) PROVE raised => raised'
      BY <2>2, Zenon DEF SessionCall
    <2>3. \/ overlap' = overlap
          \/ \E p \in Threads, x \in Positions : FindOpen(p, x)
      BY DEF PositionsNext, PositionEndpoint, OpenPosition, ClosePosition,
             ResultRecorded, EndpointFails, SessionCall, StatusEndpoint, vars, positionVars
    <2>4. \/ raised' = raised \/ raised'
          \/ \E p \in Threads : SessionCall(p)
      BY DEF PositionsNext, PositionEndpoint, OpenPosition, FindOpen, ClosePosition,
             ResultRecorded, EndpointFails, StatusEndpoint, vars, positionVars
    <2>5. (overlap => overlap') /\ (raised => raised')
      BY <2>1, <2>2, <2>3, <2>4
    <2> QED
      BY <2>5, OneHolderStep, BookedOnceStep DEF BookingInv
  <1> QED
    BY PositionsInitInv, <1>1, <1>2, PTL DEF PositionsSpec

\* The columns and locals keep their types under any callers and faults.
THEOREM PositionsTypeCorrect == PositionsSpec => []PositionsTypeOK
  BY PositionsInvariant, PTL DEF PositionsInv

\* Under the close and status endpoints, as under any callers, no result is dropped.
THEOREM PositionsCountersMatch == PositionsSpec => []CountersMatchResults
  BY PositionsInvariant, PTL DEF PositionsInv, SessionsInv

\* A lockout after N losses implies N losses that day.
THEOREM PositionsLockoutNeedsLosses == PositionsSpec => []StreakWithinLosses
  BY PositionsInvariant, PTL DEF PositionsInv, SessionsInv

\* Under the close and status endpoints too, only two results recorded at once can
\* falsify the lockout counter.
THEOREM PositionsStreakIsExact == PositionsSpec => StreakIfApart
  <1>1. PositionsInv /\ StreakInv /\ UpdatesApart /\ [PositionsNext]_vars => StreakInv'
    <2> SUFFICES ASSUME PositionsInv, StreakInv, UpdatesApart, [PositionsNext]_vars
                 PROVE  StreakInv'
      OBVIOUS
    <2>0. SessionsInv /\ SessionsTypeOK
      BY DEF PositionsInv, SessionsInv
    <2>1. ASSUME NEW p \in Threads,
                 \/ \E x \in Positions : OpenPosition(p, x) \/ FindOpen(p, x)
                 \/ EndpointFails(p)
          PROVE  StreakInv'
      BY <2>1, StreakKept DEF OpenPosition, FindOpen, EndpointFails, sessionVars
    <2>2. ASSUME NEW p \in Threads, NEW pnl \in Pnls, ClosePosition(p, pnl) PROVE StreakInv'
      BY <2>0, <2>2, StreakCaller DEF ClosePosition, BeginRecord
    <2>3. ASSUME NEW p \in Threads, ResultRecorded(p) \/ StatusEndpoint(p) PROVE StreakInv'
      BY <2>0, <2>3, StreakCaller DEF ResultRecorded, StatusEndpoint, BeginGet
    <2>4. ASSUME NEW p \in Threads, SessionCall(p) PROVE StreakInv'
      BY <2>0, <2>4, StreakStep DEF SessionCall
    <2>5. CASE NextDay \/ UNCHANGED vars
      BY <2>5, StreakKept DEF NextDay, vars, sessionVars
    <2> QED
      BY <2>1, <2>2, <2>3, <2>4, <2>5 DEF PositionsNext, PositionEndpoint
  <1> QED
    BY PositionsInvariant, StreakInit, <1>1, PTL
    DEF PositionsSpec, PositionsInit, PositionsInv, StreakInv, StreakIfApart

\* While no two close requests hold one position and none of their calls raises,
\* each closed position is counted once, with the pnl of its row.
THEOREM ClosedPositionsAreBooked == PositionsSpec => []PositionsBooked
  <1>1. PositionsInv /\ BookingInv => PositionsBooked
    <2> SUFFICES ASSUME PositionsInv, BookingInv, ~overlap, ~raised, NEW x \in Positions
                 PROVE  /\ booked[x] + Cardinality(Recording(x))
                             = (IF position[x].status = "CLOSED" THEN 1 ELSE 0)
                        /\ \A p \in Recording(x) : call[p].pnl = position[x].pnl
      BY DEF PositionsBooked
    <2>0. /\ OneHolder /\ BookedOnce /\ x # NoPosition
          /\ \A p : p \in Recording(x) <=> p \in Threads /\ IsRecording(p) /\ held[p] = x
      BY PositionsAssumption DEF BookingInv, IsRecording, Recording
    <2>1. \A p \in Recording(x) : IsRecording(p) /\ held[p] = x /\ position[x].status = "CLOSED"
      BY DEF IsRecording, Recording, PositionsInv, Endpoints
    <2>2. \A p \in Recording(x) : call[p].pnl = position[x].pnl
      BY <2>0, <2>1 DEF BookedOnce
    <2>3. CASE Recording(x) = {}
      <3>1. booked[x] = IF position[x].status # "CLOSED" THEN 0 ELSE 1
        BY <2>0, <2>3 DEF BookedOnce, IsRecording, Recording
      <3>2. Cardinality(Recording(x)) = 0
        BY <2>3, FS_EmptySet
      <3> QED
        BY <2>2, <3>1, <3>2
    <2>4. CASE Recording(x) # {}
      <3>1. PICK p \in Threads : p \in Recording(x)
        BY <2>0, <2>4
      <3>2. Recording(x) = {p}
        BY <2>0, <3>1 DEF OneHolder, Recording
      <3>3. Cardinality(Recording(x)) = 1
        BY <3>2, FS_Singleton
      <3>4. booked[x] = 0 /\ position[x].status = "CLOSED"
        BY <2>0, <2>1, <3>1 DEF BookedOnce
      <3> QED
        BY <2>2, <3>3, <3>4
    <2> QED
      BY <2>3, <2>4
  <1> QED
    BY PositionsInvariant, <1>1, PTL

\* The session totals under the position endpoints still implement DailyLedger.
THEOREM PositionsImplementLedger == PositionsSpec => LedgerSpec
  <1>1. PositionsInv /\ [PositionsNext]_vars
          => [Ledger!Next]_[d \in Day |-> Totals(session[d])]
    <2> SUFFICES ASSUME PositionsInv, [PositionsNext]_vars
                 PROVE  Ledger!Next \/ UNCHANGED session
      OBVIOUS
    <2>1. ASSUME NEW p \in Threads, SessionCall(p) PROVE Ledger!Next \/ UNCHANGED session
      BY <2>1, LedgerStep DEF PositionsInv, SessionCall
    <2>2. CASE ~\E p \in Threads : SessionCall(p)
      BY <2>2
      DEF PositionsNext, PositionEndpoint, OpenPosition, FindOpen, ClosePosition,
          ResultRecorded, EndpointFails, StatusEndpoint, NextDay, vars, sessionVars
    <2> QED
      BY <2>1, <2>2
  <1> QED
    BY LedgerInit, PositionsInvariant, <1>1, PTL
    DEF PositionsSpec, PositionsInit, LedgerSpec, Ledger!Spec

-----------------------------------------------------------------------------
(***************************************************************************)
(* Close requests that meet.  A close that was overtaken writes a row that *)
(* is CLOSED already and records its result for that row, so the row shows *)
(* the result of the request that wrote last.                              *)
(***************************************************************************)
RecordingHasNotFailed == \A p \in Threads : step[p] = "record" => call[p].pc # "failed"

\* The pnl of the row of x entered the session, or is on its way there.
Counted(x) ==
  \/ position[x].pnl \in amounts[x]
  \/ \E p \in Threads : IsRecording(p) /\ held[p] = x /\ call[p].pnl = position[x].pnl

AmountsInv ==
  /\ \A x \in Positions : position[x].status # "CLOSED" => amounts[x] = {}
  /\ ~raised =>
       /\ RecordingHasNotFailed
       /\ \A x \in Positions : position[x].status = "CLOSED" => Counted(x)

\* A step that neither closes nor counts, nor ends a request that records.
Quiet(p) ==
  /\ \A x \in Positions :
       \/ position'[x] = position[x]
       \/ position[x].status # "CLOSED" /\ position'[x].status # "CLOSED"
  /\ amounts' = amounts
  /\ raised => raised'
  /\ IsRecording(p) => IsRecording(p)' /\ held'[p] = held[p] /\ call'[p].pnl = call[p].pnl
  /\ ~raised' /\ step'[p] = "record" => call'[p].pc # "failed"
  /\ \A q \in Threads \ {p} :
       step'[q] = step[q] /\ held'[q] = held[q] /\ call'[q] = call[q]

LEMMA AmountsKept ==
  ASSUME PositionsInv, AmountsInv, NEW p \in Threads, Quiet(p) PROVE AmountsInv'
  <1> USE DEF Quiet
  <1>1. ASSUME ~raised' PROVE RecordingHasNotFailed'
    BY <1>1 DEF AmountsInv, RecordingHasNotFailed
  <1>2. ASSUME ~raised', NEW x \in Positions, position'[x].status = "CLOSED" PROVE Counted(x)'
    <2>1. position'[x] = position[x] /\ Counted(x)
      BY <1>2 DEF AmountsInv
    <2>2. CASE position[x].pnl \in amounts[x]
      BY <2>1, <2>2 DEF Counted
    <2>3. ASSUME NEW q \in Threads,
                 IsRecording(q), held[q] = x, call[q].pnl = position[x].pnl
          PROVE  IsRecording(q)' /\ held'[q] = x /\ call'[q].pnl = position'[x].pnl
      BY <2>1, <2>3 DEF IsRecording
    <2> QED
      BY <2>1, <2>2, <2>3 DEF Counted
  <1> QED
    BY <1>1, <1>2 DEF AmountsInv

\* The row is overwritten by the request that is about to record that result.
LEMMA AmountsClose ==
  ASSUME PositionsInv, AmountsInv, NEW p \in Threads, NEW pnl \in Pnls, ClosePosition(p, pnl)
  PROVE  AmountsInv'
  <1> DEFINE x == held[p]
  <1>1. /\ step \in [Threads -> {"idle", "close", "record"}]
        /\ step'[p] = "record" /\ held' = held /\ amounts' = amounts /\ raised' = raised
        /\ x \in Positions /\ position'[x].status = "CLOSED" /\ position'[x].pnl = pnl
        /\ \A y \in Positions \ {x} : position'[y] = position[y]
        /\ call'[p].pc = "lookup" /\ call'[p].pnl = pnl
        /\ step[p] = "close"
        /\ \A q \in Threads \ {p} : step'[q] = step[q] /\ call'[q] = call[q]
    BY CloseFacts DEF PositionsInv, PositionsTypeOK
  <1>2. IsRecording(p)' /\ ~IsRecording(p)
    BY <1>1 DEF IsRecording
  <1>3. Counted(x)'
    BY <1>1, <1>2 DEF Counted
  <1>4. ASSUME NEW y \in Positions, y # x, Counted(y) PROVE Counted(y)'
    BY <1>1, <1>2, <1>4 DEF Counted, IsRecording
  <1>5. ~raised => RecordingHasNotFailed'
    BY <1>1 DEF AmountsInv, RecordingHasNotFailed
  <1> QED
    BY <1>1, <1>3, <1>4, <1>5 DEF AmountsInv

\* The UPDATE of the session counts the result that was on its way.
LEMMA AmountsCall ==
  ASSUME PositionsInv, AmountsInv, NEW p \in Threads, SessionCall(p) PROVE AmountsInv'
  <1>0. /\ call \in [Threads -> Call] /\ SessionsTypeOK /\ amounts \in [Positions -> SUBSET Pnls]
        /\ CallStep(p) /\ UNCHANGED <<position, step, held>>
        /\ \A q \in Threads \ {p} : call'[q] = call[q]
        /\ call[p].pc \notin {"none", "done", "failed"}
        /\ step[p] = "record" => held[p] \in Positions /\ call[p].op = "record"
        /\ step[p] = "record" => position[held[p]].status = "CLOSED"
        /\ raised => raised'
        /\ ~raised' /\ step[p] = "record" => call'[p].pc # "failed"
    BY CallStepFacts
    DEF PositionsInv, PositionsTypeOK, SessionsTypeOK, Endpoints, SessionCall
  <1>1. CASE step[p] = "record" /\ UpdateRow(p)
    <2> DEFINE x == held[p]
    <2>1. call'[p].pc = "done" /\ call'[p].pnl = call[p].pnl /\ x \in Positions
      BY <1>0, <1>1 DEF UpdateRow, Call
    <2>2. amounts' = [amounts EXCEPT ![x] = amounts[x] \cup {call[p].pnl}] \/ amounts' = amounts
      BY <1>0 DEF SessionCall
    <2>3. results' # results
      <3>1. call[p].pnl \in Pnls /\ call[p].day \in Day
        BY <1>0, <1>1 DEF PositionsInv, SessionsInv, CallsMakeSense, Endpoints, Call
      <3>2. results \in [Day -> Seq(Pnls)]
        BY <1>0 DEF SessionsTypeOK
      <3>3. Len(Append(results[call[p].day], call[p].pnl)) = Len(results[call[p].day]) + 1
        BY <3>1, <3>2
      <3>4. results'[call[p].day] = Append(results[call[p].day], call[p].pnl)
        BY <1>1, <3>1, <3>2 DEF UpdateRow
      <3>5. Len(results[call[p].day]) \in Nat
        BY <3>1, <3>2
      <3> QED
        BY <3>3, <3>4, <3>5
    <2>4. amounts' = [amounts EXCEPT ![x] = amounts[x] \cup {call[p].pnl}]
      BY <1>1, <2>3 DEF SessionCall
    <2>5. /\ amounts'[x] = amounts[x] \cup {call[p].pnl}
          /\ \A y \in Positions \ {x} : amounts'[y] = amounts[y]
      BY <1>0, <2>1, <2>4
    <2>6. ASSUME NEW y \in Positions, Counted(y) PROVE Counted(y)'
      <3>1. CASE position[y].pnl \in amounts[y]
        BY <1>0, <2>5, <3>1 DEF Counted
      <3>2. ASSUME NEW q \in Threads,
                   IsRecording(q), held[q] = y, call[q].pnl = position[y].pnl
            PROVE  Counted(y)'
        <4>1. CASE q = p
          BY <1>0, <2>5, <3>2, <4>1 DEF Counted
        <4>2. CASE q # p
          BY <1>0, <3>2, <4>2 DEF Counted, IsRecording
        <4> QED
          BY <4>1, <4>2
      <3> QED
        BY <2>6, <3>1, <3>2 DEF Counted
    <2>7. ~raised' => RecordingHasNotFailed'
      BY <1>0, <2>1 DEF AmountsInv, RecordingHasNotFailed
    <2>8. \A y \in Positions : position'[y].status # "CLOSED" => amounts'[y] = {}
      BY <1>0, <1>1, <2>5 DEF AmountsInv
    <2> QED
      BY <1>0, <2>6, <2>7, <2>8 DEF AmountsInv
  <1>2. CASE step[p] = "record" /\ ~UpdateRow(p)
    <2>1. LookupRow(p) \/ InsertRow(p) \/ ReadRow(p) \/ StoreError(p)
      BY <1>0, <1>2 DEF CallStep
    <2>2. call'[p].pc # "done" /\ call'[p].pnl = call[p].pnl
      BY <1>0, <1>2, <2>1 DEF LookupRow, InsertRow, ReadRow, StoreError, RowAvailable, Call
    <2>3. UNCHANGED amounts
      BY <2>1 DEF SessionCall, LookupRow, InsertRow, ReadRow, StoreError
    <2>4. Quiet(p)
      BY <1>0, <2>2, <2>3 DEF Quiet, IsRecording
    <2> QED
      BY <2>4, AmountsKept
  <1>3. CASE step[p] # "record"
    <2>1. UNCHANGED amounts
      BY <1>3 DEF SessionCall
    <2>2. Quiet(p)
      BY <1>0, <1>3, <2>1 DEF Quiet, IsRecording
    <2> QED
      BY <2>2, AmountsKept
  <1> QED
    BY <1>1, <1>2, <1>3

LEMMA AmountsStep ==
  ASSUME PositionsInv, AmountsInv, [PositionsNext]_vars PROVE AmountsInv'
  <1>0. /\ call \in [Threads -> Call] /\ SessionsTypeOK
        /\ step \in [Threads -> {"idle", "close", "record"}]
        /\ held \in [Threads -> Positions \cup {NoPosition}]
        /\ position \in [Positions -> Position]
    BY DEF PositionsInv, PositionsTypeOK, SessionsTypeOK
  <1>1. ASSUME NEW p \in Threads, NEW x \in Positions, OpenPosition(p, x) PROVE AmountsInv'
    <2>1. /\ position'[x].status = "OPEN" /\ position[x].status = "NONE"
          /\ \A y \in Positions \ {x} : position'[y] = position[y]
          /\ UNCHANGED <<call, step, held, amounts, raised>>
      BY <1>0, <1>1 DEF OpenPosition, Position, sessionVars
    <2>2. ~raised /\ step[p] = "record" => call[p].pc # "failed"
      BY DEF AmountsInv, RecordingHasNotFailed
    <2>3. Quiet(p)
      BY <2>1, <2>2 DEF Quiet, IsRecording
    <2> QED
      BY <2>3, AmountsKept
  <1>2. ASSUME NEW p \in Threads, NEW x \in Positions, FindOpen(p, x) PROVE AmountsInv'
    <2>1. /\ step[p] = "idle" /\ step'[p] = "close"
          /\ \A q \in Threads \ {p} : step'[q] = step[q] /\ held'[q] = held[q]
          /\ UNCHANGED <<call, position, amounts, raised>>
      BY <1>0, <1>2 DEF FindOpen, Idle, sessionVars
    <2>2. Quiet(p)
      BY <2>1 DEF Quiet, IsRecording
    <2> QED
      BY <2>2, AmountsKept
  <1>3. ASSUME NEW p \in Threads, ResultRecorded(p) \/ EndpointFails(p) PROVE AmountsInv'
    <2>1. /\ step'[p] = "idle" /\ UNCHANGED <<position, amounts>>
          /\ \A q \in Threads \ {p} :
               step'[q] = step[q] /\ held'[q] = held[q] /\ call'[q] = call[q]
      BY <1>0, <1>3 DEF ResultRecorded, EndpointFails, Finish, Return, sessionVars
    <2>2. CASE ResultRecorded(p)
      <3>1. raised' = raised /\ step[p] = "record" /\ call[p].pc \in {"done", "failed"}
        BY <2>2 DEF ResultRecorded, Return
      <3>2. CASE raised
        BY <2>1, <3>1, <3>2 DEF AmountsInv
      <3>3. CASE ~raised
        <4>1. call[p].pc = "done"
          BY <3>1, <3>3 DEF AmountsInv, RecordingHasNotFailed
        <4>2. Quiet(p)
          BY <2>1, <3>1, <4>1 DEF Quiet, IsRecording
        <4> QED
          BY <4>2, AmountsKept
      <3> QED
        BY <3>2, <3>3
    <2>3. CASE EndpointFails(p)
      BY <2>1, <2>3 DEF EndpointFails, AmountsInv
    <2> QED
      BY <1>3, <2>2, <2>3
  <1>4. ASSUME NEW p \in Threads, StatusEndpoint(p) PROVE AmountsInv'
    <2>1. /\ \A q \in Threads \ {p} : call'[q] = call[q]
          /\ step[p] = "idle" /\ UNCHANGED positionVars
      BY <1>0, <1>4 DEF StatusEndpoint, BeginGet, Begin, Return
    <2>2. Quiet(p)
      BY <2>1 DEF Quiet, IsRecording, positionVars
    <2> QED
      BY <2>2, AmountsKept
  <1>5. CASE UNCHANGED <<call, positionVars>>
    BY <1>5 DEF positionVars, AmountsInv, RecordingHasNotFailed, Counted, IsRecording
  <1> QED
    BY <1>1, <1>2, <1>3, <1>4, <1>5, AmountsClose, AmountsCall
    DEF PositionsNext, PositionEndpoint, NextDay, vars, sessionVars

\* However close requests meet, no result of a position that is not closed is
\* counted, and the pnl shown for a closed one is counted unless a call raised.
THEOREM ShownResultsAreCounted == PositionsSpec => []ShownIsCounted
  <1>1. PositionsInit => AmountsInv
    BY DEF PositionsInit, AmountsInv, RecordingHasNotFailed
  <1>2. PositionsInv /\ AmountsInv /\ [PositionsNext]_vars => AmountsInv'
    BY AmountsStep
  <1>3. PositionsInv /\ AmountsInv => ShownIsCounted
    <2> SUFFICES ASSUME PositionsInv, AmountsInv, NEW x \in Positions
                 PROVE  LET owed == {call[p].pnl : p \in Recording(x)} IN
                        /\ position[x].status # "CLOSED" => amounts[x] \cup owed = {}
                        /\ position[x].status = "CLOSED" /\ ~raised =>
                             position[x].pnl \in amounts[x] \cup owed
      BY DEF ShownIsCounted
    <2>1. position[x].status # "CLOSED" => Recording(x) = {} /\ amounts[x] = {}
      BY DEF Recording, PositionsInv, Endpoints, AmountsInv
    <2>2. position[x].status = "CLOSED" /\ ~raised =>
            \/ position[x].pnl \in amounts[x]
            \/ \E p \in Recording(x) : call[p].pnl = position[x].pnl
      BY DEF AmountsInv, Counted, IsRecording, Recording
    <2> QED
      BY <2>1, <2>2
  <1> QED
    BY PositionsInvariant, <1>1, <1>2, <1>3, PTL DEF PositionsSpec
=============================================================================

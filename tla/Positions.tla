------------------------------ MODULE Positions ------------------------------
(***************************************************************************)
(* Manual positions: the positions table of app/store.py and the open and  *)
(* close endpoints of app/routes.py, over the sessions table that a close  *)
(* records its result in (module Sessions).  Any thread may serve these    *)
(* endpoints, or the status endpoints, which create the row of the day.    *)
(*                                                                         *)
(* A position appears as its id, its status and its result; what a request *)
(* is refused for before it reaches the store is left out, as are the      *)
(* three CLOSED_* labels.                                                  *)
(***************************************************************************)
EXTENDS Sessions, FiniteSets

CONSTANTS
  Positions,   \* the ids of the rows
  NoPosition   \* the position of a thread that closes none

ASSUME PositionsAssumption == NoPosition \notin Positions

VARIABLES
  position,  \* the status and the pnl of each row; "NONE" where there is none
  step,      \* the next step of the close endpoint on each thread
  held,      \* the position it has read
  booked,    \* history: the times a result of it entered the session
  amounts,   \* history: those results
  raised,    \* history: a store call of a close request has raised
  overlap    \* history: two close requests have held one position

positionVars == <<position, step, held, booked, amounts, raised, overlap>>
vars == <<sessionVars, positionVars>>

Position == [status : {"NONE", "OPEN", "CLOSED"}, pnl : Int]

PositionsTypeOK ==
  /\ SessionsTypeOK
  /\ position \in [Positions -> Position]
  /\ step \in [Threads -> {"idle", "close", "record"}]
  /\ held \in [Threads -> Positions \cup {NoPosition}]
  /\ booked \in [Positions -> Nat]
  /\ amounts \in [Positions -> SUBSET Pnls]
  /\ raised \in BOOLEAN
  /\ overlap \in BOOLEAN

PositionsInit ==
  /\ SessionsInit
  /\ position = [x \in Positions |-> [status |-> "NONE", pnl |-> 0]]
  /\ step = [p \in Threads |-> "idle"]
  /\ held = [p \in Threads |-> NoPosition]
  /\ booked = [x \in Positions |-> 0]
  /\ amounts = [x \in Positions |-> {}]
  /\ raised = FALSE
  /\ overlap = FALSE

-----------------------------------------------------------------------------
Idle(p) == step[p] = "idle" /\ call[p].pc = "none"

IsOpen(x) == position[x].status = "OPEN"

\* The endpoint of p returns or raises.
Finish(p) ==
  /\ step' = [step EXCEPT ![p] = "idle"]
  /\ held' = [held EXCEPT ![p] = NoPosition]

\* The INSERT.  The partial index one_open_position makes it raise, and the
\* endpoint answer 409, while another position is open.
OpenPosition(p, x) ==
  /\ Idle(p)
  /\ position[x].status = "NONE"
  /\ \A y \in Positions : ~IsOpen(y)
  /\ position' = [position EXCEPT ![x].status = "OPEN"]
  /\ UNCHANGED <<sessionVars, step, held, booked, amounts, raised, overlap>>

\* get_open_position; 404 if there is none.
FindOpen(p, x) ==
  /\ Idle(p)
  /\ IsOpen(x)
  /\ step' = [step EXCEPT ![p] = "close"]
  /\ held' = [held EXCEPT ![p] = x]
  /\ overlap' = (overlap \/ \E q \in Threads : held[q] = x)
  /\ UNCHANGED <<sessionVars, position, booked, amounts, raised>>

\* mutant: WHERE status = 'OPEN' instead of WHERE id = ?
WrittenIfOpen(x, pnl) ==
  [y \in Positions |-> IF IsOpen(y) THEN [status |-> "CLOSED", pnl |-> pnl] ELSE position[y]]

\* mutant: the row keeps the pnl it had
WrittenStatusOnly(x, pnl) == [position EXCEPT ![x].status = "CLOSED"]

\* The UPDATE of close_position, whatever the status of the row is by now.
Written(x, pnl) == [position EXCEPT ![x] = [status |-> "CLOSED", pnl |-> pnl]]

\* close_position.  The SELECT before its UPDATE reads the entry price, which
\* never changes.  With the commit done the endpoint enters record_trade_result.
ClosePosition(p, pnl) ==
  LET x == held[p] IN
  /\ step[p] = "close"
  /\ position' = Written(x, pnl)
  /\ BeginRecord(p, pnl)
  /\ step' = [step EXCEPT ![p] = "record"]
  /\ UNCHANGED <<today, rows, session, results, held, booked, amounts, raised, overlap>>

\* record_trade_result has returned or raised.
ResultRecorded(p) ==
  /\ step[p] = "record"
  /\ Return(p)
  /\ Finish(p)
  /\ UNCHANGED <<today, rows, session, results, position, booked, amounts, raised, overlap>>

\* get_open_position or close_position raises, or the process dies.
EndpointFails(p) ==
  /\ Faults
  /\ step[p] = "close"
  /\ Finish(p)
  /\ raised' = TRUE
  /\ UNCHANGED <<sessionVars, position, booked, amounts, overlap>>

\* A step of get_session_dict or record_trade_result.
SessionCall(p) ==
  /\ CallStep(p)
  /\ IF step[p] = "record" /\ results' # results
     THEN /\ booked' = [booked EXCEPT ![held[p]] = @ + 1]
          /\ amounts' = [amounts EXCEPT ![held[p]] = @ \cup {call[p].pnl}]
     ELSE UNCHANGED <<booked, amounts>>
  /\ raised' = (raised \/ (step[p] = "record" /\ call'[p].pc = "failed"))
  /\ UNCHANGED <<position, step, held, overlap>>

\* The status and analytics endpoints: get_session_dict, which creates the row.
StatusEndpoint(p) ==
  /\ step[p] = "idle"
  /\ BeginGet(p) \/ Return(p)
  /\ UNCHANGED <<today, rows, session, results, positionVars>>

PositionEndpoint(p) ==
  \/ \E x \in Positions : OpenPosition(p, x) \/ FindOpen(p, x)
  \/ \E pnl \in Pnls : ClosePosition(p, pnl)
  \/ ResultRecorded(p)
  \/ EndpointFails(p)

PositionsNext ==
  \/ \E p \in Threads : PositionEndpoint(p)
  \/ \E p \in Threads : SessionCall(p)
  \/ \E p \in Threads : StatusEndpoint(p)
  \/ NextDay /\ UNCHANGED positionVars

PositionsSpec == PositionsInit /\ [][PositionsNext]_vars

-----------------------------------------------------------------------------
\* The requests that have closed x and are still to record its result.
Recording(x) ==
  {p \in Threads : step[p] = "record" /\ held[p] = x /\ call[p].pc # "done"}

(***************************************************************************)
(* Close requests may meet, be overtaken by another close and by the       *)
(* opening of the next position, and then overwrite what another request   *)
(* wrote.  Still the session and the table agree on what has ended: no     *)
(* result of a position that is not closed is counted, and, unless a store *)
(* call of a close request raised, the pnl that the row of a closed one    *)
(* shows is a result that is counted for it, or about to be.               *)
(***************************************************************************)
ShownIsCounted ==
  \A x \in Positions :
    LET owed == {call[p].pnl : p \in Recording(x)} IN
    /\ position[x].status # "CLOSED" => amounts[x] \cup owed = {}
    /\ position[x].status = "CLOSED" /\ ~raised => position[x].pnl \in amounts[x] \cup owed

(***************************************************************************)
(* As long as no two close requests hold one position and no store call of *)
(* theirs raises, the session counts each closed position once, with the   *)
(* pnl that its row shows.  (Otherwise close_position, which neither       *)
(* checks nor repeats the status, lets both requests record a result.)     *)
(***************************************************************************)
PositionsBooked ==
  ~overlap /\ ~raised =>
    \A x \in Positions :
      /\ booked[x] + Cardinality(Recording(x))
           = (IF position[x].status = "CLOSED" THEN 1 ELSE 0)
      /\ \A p \in Recording(x) : call[p].pnl = position[x].pnl
=============================================================================

----------------------------- MODULE LiveDecision -----------------------------
(***************************************************************************)
(* The live decision on its way to the dashboard: the hook                 *)
(* useLiveDecision.ts, which prefers a WebSocket and falls back to         *)
(* polling, and _build_and_log_live_decision of app/routes.py, which the   *)
(* socket's loop and each request run on worker threads of their own: it   *)
(* runs the pipeline, and logs a decision that has changed and makes a     *)
(* setup of one that can be traded.                                        *)
(*                                                                         *)
(* What the pipeline decides is any element of Decisions (module Pipeline  *)
(* says which).  Every payload has a timestamp of its own, so the hook     *)
(* shows each one that reaches it.  The error, loading and transport flags *)
(* of the hook are only displayed and left out.                            *)
(***************************************************************************)
EXTENDS Naturals

CONSTANTS
  Decisions,   \* what the pipeline may decide
  Signature,   \* decision -> _decision_signature
  SetupOf,     \* decision -> setup_signature of a GENERATED decision, NoSetup of another
  NoSetup,
  Nothing,     \* no decision, no signature
  Socket,      \* the channel of the WebSocket
  Abandoned,   \* the threads that go on for nobody: their number is a bound
  Requests     \* the polls that may be under way together

ASSUME LiveDecisionAssumption ==
  /\ Nothing \notin Decisions
  /\ Socket \notin Requests /\ Abandoned \cap ({Socket} \cup Requests) = {}
  /\ DOMAIN Signature = Decisions /\ DOMAIN SetupOf = Decisions
  /\ \A d \in Decisions : Signature[d] # Nothing
  /\ \A d, e \in Decisions :
       Signature[d] = Signature[e] => (SetupOf[d] = NoSetup <=> SetupOf[e] = NoSetup)

VARIABLES
  mounted,    \* ~cancelled
  socket,     \* the hook's ws
  failures,   \* wsFailureCount; 2 stands for more, too
  reconnect,  \* reconnectId is pending
  polling,    \* pollId is set
  shown,      \* data
  calls,      \* the server's call for each channel
  last,       \* _last_logged_signature
  log,        \* the signatures in the audit log
  setups,     \* the signatures in trade_setups
  ok          \* the server is up, its disk and database can be written

hook == <<mounted, socket, failures, reconnect, polling, shown>>
server == <<calls, last, log, setups>>
vars == <<hook, server, ok>>

Channels == {Socket} \cup Abandoned \cup Requests

Signatures == {Signature[d] : d \in Decisions}

Setups == {SetupOf[d] : d \in Decisions} \ {NoSetup}

NoCall == [pc |-> "idle", decision |-> Nothing]

FailedCall == [pc |-> "failed", decision |-> Nothing]

Running == {"decide", "compare", "log", "setup", "remember"}

LiveTypeOK ==
  /\ mounted \in BOOLEAN
  /\ socket \in {"none", "connecting", "open"}
  /\ failures \in 0..2
  /\ reconnect \in BOOLEAN
  /\ polling \in BOOLEAN
  /\ shown \in Decisions \cup {Nothing}
  /\ calls \in [Channels -> [pc : Running \cup {"idle", "reply", "failed"}, decision : Decisions \cup {Nothing}]]
  /\ last \in Signatures \cup {Nothing}
  /\ log \subseteq Signatures
  /\ setups \subseteq Setups
  /\ ok \in BOOLEAN

\* connectWebSocket of the first render: with a URL the constructor refuses it
\* polls, and tries no socket again.
Init ==
  /\ mounted = TRUE
  /\ \/ socket = "connecting" /\ polling = FALSE
     \/ socket = "none" /\ polling = TRUE
  /\ failures = 0
  /\ reconnect = FALSE
  /\ shown = Nothing
  /\ calls = [c \in Channels |-> NoCall]
  /\ last = Nothing
  /\ log = {}
  /\ setups = {}
  /\ ok = TRUE

-----------------------------------------------------------------------------
(* The server: _build_and_log_live_decision, one call per channel. *)

Goto(c, pc) == calls' = [calls EXCEPT ![c].pc = pc]

Decision(c) == calls[c].decision

\* An exception: 500 for a request, the end of the loop for the socket.
Raise(c) ==
  /\ ~ok
  /\ calls[c].pc \in {"decide", "log", "setup"}
  /\ calls' = [calls EXCEPT ![c] = FailedCall]
  /\ UNCHANGED <<last, log, setups>>

\* run_observed_pipeline
Decide(c) ==
  /\ ok
  /\ calls[c].pc = "decide"
  /\ \E d \in Decisions : calls' = [calls EXCEPT ![c] = [pc |-> "compare", decision |-> d]]
  /\ UNCHANGED <<last, log, setups>>

Compare(c) ==
  /\ calls[c].pc = "compare"
  /\ Goto(c, IF Signature[Decision(c)] = last THEN "reply" ELSE "log")
  /\ UNCHANGED <<last, log, setups>>

\* mutant: a setup of every decision
Always(d) == TRUE

\* outcome == "GENERATED"
Generated(d) == SetupOf[d] # NoSetup

\* mutant: the decision is remembered as soon as it is logged
LogRemembering(c) ==
  /\ ok
  /\ calls[c].pc = "log"
  /\ log' = log \cup {Signature[Decision(c)]}
  /\ last' = Signature[Decision(c)]
  /\ Goto(c, IF Generated(Decision(c)) THEN "setup" ELSE "remember")
  /\ UNCHANGED setups

\* log_decision
Log(c) ==
  /\ ok
  /\ calls[c].pc = "log"
  /\ log' = log \cup {Signature[Decision(c)]}
  /\ Goto(c, IF Generated(Decision(c)) THEN "setup" ELSE "remember")
  /\ UNCHANGED <<last, setups>>

\* create_trade_setup: None for a signature that is already there.
CreateSetup(c) ==
  /\ ok
  /\ calls[c].pc = "setup"
  /\ setups' = setups \cup {SetupOf[Decision(c)]}
  /\ Goto(c, "remember")
  /\ UNCHANGED <<last, log>>

Remember(c) ==
  /\ calls[c].pc = "remember"
  /\ last' = Signature[Decision(c)]
  /\ Goto(c, "reply")
  /\ UNCHANGED <<log, setups>>

ServerStep(c) ==
  /\ \/ Raise(c) \/ Decide(c) \/ Compare(c) \/ Log(c) \/ CreateSetup(c) \/ Remember(c)
  /\ UNCHANGED <<hook, ok>>

\* ws_decision after its sleep.
NextPush ==
  /\ socket = "open"
  /\ calls[Socket].pc = "idle"
  /\ Goto(Socket, "decide")
  /\ UNCHANGED <<hook, last, log, setups, ok>>

\* The process is restarted: its connections and what it was doing are lost, the
\* log and the setups are not.
Restart ==
  /\ ~ok
  /\ ok' = TRUE
  /\ last' = Nothing
  /\ calls' = [c \in Channels |->
       IF calls[c].pc # "idle" \/ (c = Socket /\ socket = "open") THEN FailedCall ELSE NoCall]
  /\ UNCHANGED <<hook, log, setups>>

ServerChanges ==
  /\ ok' = ~ok
  /\ UNCHANGED <<hook, server>>

-----------------------------------------------------------------------------
(* The hook. *)

\* ws.onopen
SocketOpens ==
  /\ socket = "connecting"
  /\ socket' = "open"
  /\ failures' = 0
  /\ polling' = FALSE
  /\ UNCHANGED <<mounted, reconnect, shown, server, ok>>

\* Nobody waits for the call of channel c any more, but its thread goes on.
LeaveCall(c) ==
  IF calls[c].pc \in Running
  THEN \E a \in Abandoned :
         /\ calls[a].pc = "idle"
         /\ calls' = [calls EXCEPT ![c] = NoCall, ![a] = calls[c]]
  ELSE calls' = [calls EXCEPT ![c] = NoCall]

\* mutant: each close counts as the first
FirstFailure(n) == 1

\* wsFailureCount += 1
CountFailure(n) == IF n < 2 THEN n + 1 ELSE n

\* mutant: it tries again only once it polls
SocketClosesForGood ==
  /\ socket # "none"
  /\ socket' = "none"
  /\ failures' = CountFailure(failures)
  /\ polling' = (polling \/ failures' >= 2)
  /\ reconnect' = (failures' >= 2)
  /\ LeaveCall(Socket)
  /\ UNCHANGED <<mounted, shown, last, log, setups, ok>>

\* ws.onclose, of a socket that never opened, was dropped, or whose loop ended
\* at the server.
SocketCloses ==
  /\ socket # "none"
  /\ socket' = "none"
  /\ failures' = CountFailure(failures)
  /\ polling' = (polling \/ failures' >= 2)
  /\ reconnect' = TRUE
  /\ LeaveCall(Socket)
  /\ UNCHANGED <<mounted, shown, last, log, setups, ok>>

\* connectWebSocket
Reconnect ==
  /\ reconnect
  /\ reconnect' = FALSE
  /\ socket' = "connecting"
  /\ UNCHANGED <<mounted, failures, polling, shown, server, ok>>

\* mutant: no interval, one answer is all
PollOnce(r) ==
  /\ polling
  /\ shown = Nothing
  /\ calls[r].pc = "idle"
  /\ Goto(r, "decide")
  /\ UNCHANGED <<hook, last, log, setups, ok>>

\* poll(): at once when polling starts, and at each interval, though an earlier
\* one may still be under way.
Poll(r) ==
  /\ polling
  /\ calls[r].pc = "idle"
  /\ Goto(r, "decide")
  /\ UNCHANGED <<hook, last, log, setups, ok>>

\* applyPayload of what a channel brings
Receive(c) ==
  /\ c \notin Abandoned
  /\ calls[c].pc = "reply"
  /\ shown' = IF mounted THEN Decision(c) ELSE shown
  /\ calls' = [calls EXCEPT ![c] = NoCall]
  /\ UNCHANGED <<mounted, socket, failures, reconnect, polling, last, log, setups, ok>>

\* A request is answered with an error; the socket closes instead.
ReceiveError(r) ==
  /\ calls[r].pc = "failed"
  /\ calls' = [calls EXCEPT ![r] = NoCall]
  /\ UNCHANGED <<hook, last, log, setups, ok>>

\* requestJSON gives a poll up after timeoutMs, wherever the server is by then; the
\* hook gets an error, the server does not notice.
Abort(r) ==
  /\ calls[r].pc \in Running \cup {"reply"}
  /\ LeaveCall(r)
  /\ UNCHANGED <<hook, last, log, setups, ok>>

Discard(a) ==
  /\ calls[a].pc \in {"reply", "failed"}
  /\ calls' = [calls EXCEPT ![a] = NoCall]
  /\ UNCHANGED <<hook, last, log, setups, ok>>

\* The effect's cleanup: answers to polls that are under way will be ignored.
Unmount ==
  /\ mounted
  /\ mounted' = FALSE
  /\ polling' = FALSE
  /\ reconnect' = FALSE
  /\ socket' = "none"
  /\ LeaveCall(Socket)
  /\ UNCHANGED <<failures, shown, last, log, setups, ok>>

Next ==
  \/ \E c \in Channels : ServerStep(c) \/ Receive(c)
  \/ \E r \in Requests : Poll(r) \/ ReceiveError(r) \/ Abort(r)
  \/ \E a \in Abandoned : Discard(a)
  \/ NextPush \/ Restart \/ ServerChanges
  \/ SocketOpens \/ SocketCloses \/ Reconnect \/ Unmount

(***************************************************************************)
(* The browser's timers fire, a connection attempt ends one way or the     *)
(* other, a socket whose loop has ended closes, and server calls return,   *)
(* sooner or later: an answer that is there reaches a poll which has not   *)
(* been given up by then.                                                  *)
(***************************************************************************)
Fairness ==
  /\ \A c \in Channels : WF_vars(ServerStep(c)) /\ WF_vars(Receive(c))
  /\ \A r \in Requests : WF_vars(Poll(r)) /\ WF_vars(ReceiveError(r))
  /\ \A a \in Abandoned : WF_vars(Discard(a))
  /\ WF_vars(NextPush)
  /\ WF_vars(Reconnect)
  /\ WF_vars(socket = "connecting" /\ (SocketOpens \/ SocketCloses))
  /\ WF_vars(calls[Socket].pc = "failed" /\ SocketCloses)

Spec == Init /\ [][Next]_vars /\ Fairness

-----------------------------------------------------------------------------
OnRecord(d) ==
  /\ Signature[d] \in log
  /\ SetupOf[d] # NoSetup =>
       \E e \in Decisions : Signature[e] = Signature[d] /\ SetupOf[e] \in setups

\* What the dashboard shows has been stored: a decision it shows is in the
\* audit log, and if it is a buy a setup was made for it, though perhaps at
\* another strike, which the signature leaves out.  (The setup may have been
\* reviewed or traded since.)  A failure or a restart between logging and
\* storing the setup is made up for before the decision is shown again.
ShownIsOnRecord == shown # Nothing => OnRecord(shown)

\* "So the dashboard degrades gracefully instead of going dark": there is always
\* something under way that can bring a decision; and after the cleanup nothing.
NeverDark ==
  mounted <=> (socket # "none" \/ reconnect \/ polling)

\* If the socket cannot connect or does not come back the hook polls for good,
\* and goes on polling while it tries the socket again in the background.
FallsBack == []mounted /\ <>[](socket # "open") => <>[]polling

\* Once the server works for good, decisions keep reaching the dashboard: over
\* a socket that stays open, however slow the pipeline; over the polls while no
\* socket opens, if in the end they are answered within their timeout.  A server
\* that works and is slower than that leaves the polling dashboard with errors.
KeepsReceiving ==
  []mounted /\ <>[]ok =>
    /\ <>[](socket = "open") => []<><<Receive(Socket)>>_vars
    /\ <>[](socket # "open") /\ <>[][\A r \in Requests : ~Abort(r)]_vars
         => []<><<\E r \in Requests : Receive(r)>>_vars
=============================================================================

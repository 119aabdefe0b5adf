------------------------------ MODULE WsClient ------------------------------
(***************************************************************************)
(* The browser client's connection to the broker (websocket/core): one     *)
(* object that opens sockets, authenticates them, reconnects when they     *)
(* fail and keeps the requests that wait for an answer.                    *)
(*                                                                         *)
(* An action is a callback: the script runs it to its end before the next. *)
(* The object has one field ws, but every socket it ever opened keeps its  *)
(* callbacks, and they work on whatever ws is when they run.  The options  *)
(* are those of the only caller: autoReconnect is on.  The address of the  *)
(* broker is a constant of the build, so that opening a socket never       *)
(* throws.  An error event of an open socket would only settle a promise   *)
(* sooner, and a status that the same callback replaces is never seen:     *)
(* both are left out.  The broker answers a refused request under the      *)
(* request's id and in the field of a result (ws.go sendErrorResponse),    *)
(* hence a refusal resolves its request like an answer.  Only errors about *)
(* no request, those of the authentication among them, carry the id 0:     *)
(* they settle no request and end no authentication; time-outs do.         *)
(***************************************************************************)
EXTENDS Naturals

CONSTANTS
  Socks,          \* sockets, taken again when nothing refers to them
  Reqs,           \* requests, taken again when they are settled
  MaxAttempts,    \* options.maxReconnectAttempts
  None

ASSUME WsClientAssumption == MaxAttempts \in Nat /\ None \notin Socks

VARIABLES
  ready,          \* readyState; "aborting" is closed by us before it opened
  served,         \* sockets the broker has authenticated
  ws,             \* this.ws
  login,          \* authenticate(), while it runs, of the onopen of a socket
  target,         \* the socket it authenticates, while it does
  unsettled,      \* sockets whose connect() has neither resolved nor rejected
  retry,          \* whether reconnectTimeout runs
  attempts,       \* reconnectAttempts
  status,         \* the last status reported
  pending,        \* pendingRequests
  req,            \* what became of a request
  sentOn,         \* the socket it was sent on, while it waits
  wanted          \* history: the application called connect() after close()

authVars == <<served, login, target>>
timerVars == <<retry, attempts, status>>
reqVars == <<pending, req, sentOn>>
vars == <<ready, authVars, ws, unsettled, timerVars, reqVars, wanted>>

TypeOK ==
  /\ ready \in [Socks -> {"connecting", "open", "closing", "aborting", "closed"}]
  /\ served \subseteq Socks
  /\ ws \in Socks \cup {None}
  /\ login \in [Socks -> {"none", "signing", "waiting"}]
  /\ target \in [Socks -> Socks \cup {None}]
  /\ unsettled \subseteq Socks
  /\ retry \in BOOLEAN
  /\ attempts \in 0 .. MaxAttempts
  /\ status \in {"disconnected", "connecting", "authenticating", "connected",
                 "reconnecting", "reconnect_failed"}
  /\ pending \subseteq Reqs
  /\ req \in [Reqs -> {"none", "waiting", "resolved", "rejected"}]
  /\ sentOn \in [Reqs -> Socks \cup {None}]
  /\ wanted \in BOOLEAN

Init ==
  /\ ready = [s \in Socks |-> "closed"]
  /\ served = {}
  /\ ws = None
  /\ login = [s \in Socks |-> "none"]
  /\ target = [s \in Socks |-> None]
  /\ unsettled = {}
  /\ retry = FALSE
  /\ attempts = 0
  /\ status = "disconnected"
  /\ pending = {}
  /\ req = [r \in Reqs |-> "none"]
  /\ sentOn = [r \in Reqs |-> None]
  /\ wanted = FALSE

IsConnected == ws # None /\ ready[ws] = "open"

LoggingIn(s) == login[s] \in {"signing", "waiting"}

-----------------------------------------------------------------------------
(* Parts that several callbacks share.                                     *)

\* Mutants: without the limit; giving up without a word.
HandleReconnect_Unlimited(timer) ==
  /\ attempts' = attempts + 1 /\ attempts <= MaxAttempts
  /\ status' = "reconnecting" /\ retry' = (timer \/ TRUE)

HandleReconnect_Silent(timer) ==
  \/ /\ attempts >= MaxAttempts
     /\ status' = "disconnected" /\ retry' = timer
     /\ UNCHANGED attempts
  \/ /\ attempts < MaxAttempts
     /\ attempts' = attempts + 1 /\ status' = "reconnecting" /\ retry' = TRUE

\* timer: whether reconnectTimeout runs at the call.
HandleReconnect(timer) ==
  \/ /\ attempts >= MaxAttempts
     /\ status' = "reconnect_failed"
     /\ retry' = timer
     /\ UNCHANGED attempts
  \/ /\ attempts < MaxAttempts
     /\ attempts' = attempts + 1
     /\ status' = "reconnecting"
     /\ retry' = TRUE

\* Mutant: the table is cleared and the callers are forgotten.
RejectAll_Forgets == pending' = {} /\ UNCHANGED <<req, sentOn>>

RejectAll ==
  /\ req' = [r \in Reqs |-> IF r \in pending THEN "rejected" ELSE req[r]]
  /\ pending' = {}
  /\ sentOn' = [r \in Reqs |-> None]

\* close(), except for the timer and the status; now: the sockets' states.
Shut(now) ==
  /\ ready' = [s \in Socks |->
       IF s # ws THEN now[s]
       ELSE CASE now[s] = "open" -> "closing"
              [] now[s] = "connecting" -> "aborting"
              [] OTHER -> now[s]]
  /\ ws' = None
  /\ RejectAll

\* The catch of onopen: the connection is closed, whatever socket it has by
\* now, and a reconnection is planned.
LoginFails(s, now) ==
  /\ login' = [login EXCEPT ![s] = "none"]
  /\ target' = [target EXCEPT ![s] = None]
  /\ unsettled' = unsettled \ {s}
  /\ Shut(now)
  /\ HandleReconnect(FALSE)
  /\ UNCHANGED <<served, wanted>>

\* Mutant: without the onerror.
OnClose_NoError(s) ==
  /\ ready' = [ready EXCEPT ![s] = "closed"]
  /\ ws' = None
  /\ RejectAll
  /\ HandleReconnect(retry)
  /\ served' = served \ {s}
  /\ UNCHANGED <<unsettled, login, target, wanted>>

\* onclose of a socket, after its onerror when it never opened.
OnClose(s) ==
  /\ ready' = [ready EXCEPT ![s] = "closed"]
  /\ IF ready[s] \in {"connecting", "aborting"}
       THEN unsettled' = unsettled \ {s}
       ELSE UNCHANGED unsettled
  /\ ws' = None
  /\ RejectAll
  /\ HandleReconnect(retry)
  /\ served' = served \ {s}
  /\ UNCHANGED <<login, target, wanted>>

-----------------------------------------------------------------------------
(* Connecting.                                                             *)

\* No socket can be spared: the bound of the model.
Spare(s) ==
  /\ ready[s] = "closed" /\ ws # s
  /\ ~LoggingIn(s) /\ \A t \in Socks : target[t] # s

NewSocket(s) ==
  /\ ready' = [ready EXCEPT ![s] = "connecting"]
  /\ unsettled' = unsettled \cup {s}
  /\ UNCHANGED authVars
  /\ ws' = s
  /\ status' = "connecting"

\* Mutant: does not look whether there is a connection.
Connect_Always ==
  /\ retry' = FALSE
  /\ \E s \in Socks : Spare(s) /\ NewSocket(s)
  /\ UNCHANGED <<attempts, reqVars>>

\* A socket that is still connecting or closing is forgotten, not closed.
Connect ==
  /\ retry' = FALSE
  /\ \/ IsConnected /\ UNCHANGED <<ready, authVars, unsettled, ws, status>>
     \/ ~IsConnected /\ \E s \in Socks : Spare(s) /\ NewSocket(s)
  /\ UNCHANGED <<attempts, reqVars>>

UserConnects == Connect /\ wanted' = TRUE

TimerFires == retry /\ Connect /\ UNCHANGED wanted

Close ==
  /\ Shut(ready)
  /\ retry' = FALSE
  /\ status' = "disconnected"
  /\ wanted' = FALSE
  /\ UNCHANGED <<authVars, unsettled, attempts>>

-----------------------------------------------------------------------------
(* The sockets' events and authenticate().                                 *)

\* onopen authenticates this.ws, which need not be the socket that opened.
Opened(s) ==
  /\ ready[s] = "connecting"
  /\ LET now == [ready EXCEPT ![s] = "open"]
     IN \/ /\ ws # None
           /\ ready' = now
           /\ login' = [login EXCEPT ![s] = "signing"]
           /\ target' = [target EXCEPT ![s] = ws]
           /\ status' = "authenticating"
           /\ UNCHANGED <<served, unsettled, ws, retry, attempts, reqVars, wanted>>
        \/ ws = None /\ LoginFails(s, now)

\* A send throws on a connecting socket and is lost on a closed one.
SendAuth(s) ==
  /\ login[s] = "signing"
  /\ \/ /\ ready[target[s]] # "connecting"
        /\ login' = [login EXCEPT ![s] = "waiting"]
        /\ UNCHANGED <<ready, served, target, unsettled, ws, timerVars, reqVars, wanted>>
     \/ ready[target[s]] = "connecting" /\ LoginFails(s, ready)

\* The broker authenticates a connection once; everyone who listens hears it.
AuthVerified(t) ==
  LET done == {s \in Socks : login[s] = "waiting" /\ target[s] = t}
  IN /\ ready[t] = "open" /\ t \notin served /\ done # {}
     /\ served' = served \cup {t}
     /\ login' = [s \in Socks |-> IF s \in done THEN "none" ELSE login[s]]
     /\ target' = [s \in Socks |-> IF s \in done THEN None ELSE target[s]]
     /\ unsettled' = unsettled \ done
     /\ status' = "connected"
     /\ attempts' = 0
     /\ UNCHANGED <<ready, ws, retry, reqVars, wanted>>

AuthTimeout(s) == login[s] = "waiting" /\ LoginFails(s, ready)

\* The broker has begun to close; onclose is still to come.
PeerCloses(s) ==
  /\ ready[s] = "open"
  /\ ready' = [ready EXCEPT ![s] = "closing"]
  /\ UNCHANGED <<authVars, unsettled, ws, timerVars, reqVars, wanted>>

CloseEvent(s) == ready[s] \in {"closing", "aborting"} /\ OnClose(s)

\* The network fails, or the broker is not there.
Drop(s) == ready[s] \in {"connecting", "open"} /\ OnClose(s)

-----------------------------------------------------------------------------
(* Requests.                                                               *)

SendRequest(r) ==
  /\ req[r] # "waiting" /\ IsConnected
  /\ pending' = pending \cup {r}
  /\ req' = [req EXCEPT ![r] = "waiting"]
  /\ sentOn' = [sentOn EXCEPT ![r] = ws]
  /\ UNCHANGED <<ready, authVars, unsettled, ws, timerVars, wanted>>

Finish(r, outcome) ==
  /\ r \in pending
  /\ pending' = pending \ {r}
  /\ req' = [req EXCEPT ![r] = outcome]
  /\ sentOn' = [sentOn EXCEPT ![r] = None]
  /\ UNCHANGED <<ready, authVars, unsettled, ws, timerVars, wanted>>

\* The broker answers who is authenticated; a refusal is an answer, too.
Answered(r) ==
  /\ sentOn[r] \in served /\ ready[sentOn[r]] = "open"
  /\ Finish(r, "resolved")

RequestTimeout(r) == Finish(r, "rejected")

-----------------------------------------------------------------------------
Next ==
  \/ UserConnects \/ TimerFires \/ Close
  \/ \E s \in Socks :
       \/ Opened(s) \/ SendAuth(s) \/ AuthVerified(s) \/ AuthTimeout(s)
       \/ PeerCloses(s) \/ CloseEvent(s) \/ Drop(s)
  \/ \E r \in Reqs : SendRequest(r) \/ Answered(r) \/ RequestTimeout(r)

Spec == Init /\ [][Next]_vars

\* What goes on for a socket comes to its end: connecting ends in onopen or
\* onerror, closing in onclose, signing in a send, and authentication in the
\* broker's answer or the time-out.
Fairness ==
  \A s \in Socks : WF_vars(\/ Opened(s) \/ (ready[s] = "connecting" /\ Drop(s))
                         \/ CloseEvent(s) \/ SendAuth(s) \/ AuthTimeout(s))

FairSpec == Spec /\ Fairness

-----------------------------------------------------------------------------
(* Properties.                                                             *)

\* The table holds exactly the requests whose callers wait: nobody waits for
\* an answer that could not reach him, and no entry outlives its request, in
\* whatever order closing, reconnection, answers and time-outs come.
PendingExact == pending = {r \in Reqs : req[r] = "waiting"}

\* Nobody waits for an answer on a connection that is gone: a request that
\* waits was sent on the present socket, or on one whose onclose, still to
\* come, rejects it.
NoneLeftBehind ==
  \A r \in Reqs : req[r] = "waiting" =>
    \/ sentOn[r] = ws /\ IsConnected
    \/ sentOn[r] # None /\ ready[sentOn[r]] = "closing"

\* While the application wants a connection and has none, a reconnection is
\* planned or it was told that there will be none.  (When a socket that was
\* given up authenticates late it is told "connected" instead.)
NeverStranded ==
  wanted /\ ws = None => retry \/ status \in {"reconnect_failed", "connected"}

\* Every connect() is settled, whatever becomes of its socket and of the
\* other sockets it finds or leaves behind.
ConnectSettles ==
  \A s \in Socks : s \in unsettled ~> s \notin unsettled

\* close() closes the connection for good: there is none until the
\* application asks for one.
ClosedStaysClosed == ~wanted => ws = None
=============================================================================

--------------------------- MODULE WsClientProofs ---------------------------
(***************************************************************************)
(* The safety invariants of WsClient hold for any number of sockets,       *)
(* requests and attempts.                                                  *)
(*                                                                         *)
(* NoneLeftBehind needs PendingExact: when the onclose of some socket, or  *)
(* close(), rejects what is in the table, it is by PendingExact that       *)
(* nobody else waits.  Together with the types they are inductive.         *)
(***************************************************************************)
EXTENDS WsClient, TLAPS

IInv == TypeOK /\ PendingExact /\ NoneLeftBehind /\ NeverStranded

\* What rejecting every request leaves: an exact and empty table.
LEMMA RejectAllEffect ==
  ASSUME TypeOK, PendingExact, RejectAll
  PROVE  /\ pending' \subseteq Reqs /\ req' \in [Reqs -> {"none", "waiting", "resolved", "rejected"}]
         /\ sentOn' \in [Reqs -> Socks \cup {None}]
         /\ \A r \in Reqs : req'[r] # "waiting"
         /\ PendingExact' /\ NoneLeftBehind'
<1>1. /\ req' = [r \in Reqs |-> IF r \in pending THEN "rejected" ELSE req[r]]
      /\ pending' = {} /\ sentOn' = [r \in Reqs |-> None]
  BY DEF RejectAll
<1>2. req \in [Reqs -> {"none", "waiting", "resolved", "rejected"}]
  BY DEF TypeOK
<1>3. \A r \in Reqs : req'[r] # "waiting"
  BY <1>1, <1>2 DEF PendingExact
<1>4. /\ req' \in [Reqs -> {"none", "waiting", "resolved", "rejected"}]
      /\ sentOn' \in [Reqs -> Socks \cup {None}]
  BY <1>1, <1>2
<1> QED
  BY <1>1, <1>3, <1>4 DEF PendingExact, NoneLeftBehind

\* After handleReconnect the timer runs or the application has been told that
\* the client gives up; the attempts stay within their limit.
LEMMA ReconnectEffect ==
  ASSUME TypeOK, NEW timer \in BOOLEAN, HandleReconnect(timer)
  PROVE  /\ attempts' \in 0 .. MaxAttempts /\ retry' \in BOOLEAN
         /\ status' \in {"reconnecting", "reconnect_failed"}
         /\ retry' \/ status' = "reconnect_failed"
<1>1. attempts \in 0 .. MaxAttempts /\ MaxAttempts \in Nat
  BY WsClientAssumption DEF TypeOK
<1>2. CASE attempts >= MaxAttempts /\ status' = "reconnect_failed" /\ retry' = timer
           /\ attempts' = attempts
  BY <1>1, <1>2
<1>3. CASE attempts < MaxAttempts /\ attempts' = attempts + 1
           /\ status' = "reconnecting" /\ retry' = TRUE
  <2>1. attempts' \in 0 .. MaxAttempts
    BY <1>1, <1>3
  <2> QED
    BY <1>3, <2>1, Zenon
<1> QED
  BY <1>2, <1>3 DEF HandleReconnect

\* A failed authentication, with the sockets' states as onopen may just have
\* set them.
LEMMA LoginFailsKeeps ==
  ASSUME IInv, NEW s \in Socks, NEW now, LoginFails(s, now),
         now \in [Socks -> {"connecting", "open", "closing", "aborting", "closed"}]
  PROVE  IInv'
<1>1. /\ ready' \in [Socks -> {"connecting", "open", "closing", "aborting", "closed"}]
      /\ ws' = None
  BY DEF LoginFails, Shut
<1>2. /\ login' \in [Socks -> {"none", "signing", "waiting"}]
      /\ target' \in [Socks -> Socks \cup {None}]
      /\ unsettled' \subseteq Socks /\ served' \subseteq Socks /\ wanted' \in BOOLEAN
  BY DEF LoginFails, IInv, TypeOK
<1>3. HandleReconnect(FALSE) /\ RejectAll
  BY DEF LoginFails, Shut
<1>4. /\ attempts' \in 0 .. MaxAttempts /\ retry' \in BOOLEAN
      /\ status' \in {"reconnecting", "reconnect_failed"}
      /\ retry' \/ status' = "reconnect_failed"
  BY <1>3, ReconnectEffect DEF IInv
<1>5. /\ pending' \subseteq Reqs /\ req' \in [Reqs -> {"none", "waiting", "resolved", "rejected"}]
      /\ sentOn' \in [Reqs -> Socks \cup {None}]
      /\ PendingExact' /\ NoneLeftBehind'
  BY <1>3, RejectAllEffect DEF IInv
<1> QED
  BY <1>1, <1>2, <1>4, <1>5 DEF IInv, TypeOK, NeverStranded

\* The onclose of any socket.
LEMMA OnCloseKeeps ==
  ASSUME IInv, NEW s \in Socks, OnClose(s)
  PROVE  IInv'
<1>1. /\ ready' \in [Socks -> {"connecting", "open", "closing", "aborting", "closed"}]
      /\ ws' = None
      /\ login' \in [Socks -> {"none", "signing", "waiting"}]
      /\ target' \in [Socks -> Socks \cup {None}]
      /\ unsettled' \subseteq Socks /\ served' \subseteq Socks /\ wanted' \in BOOLEAN
  BY DEF OnClose, IInv, TypeOK
<1>2. HandleReconnect(retry) /\ RejectAll /\ retry \in BOOLEAN
  BY DEF OnClose, IInv, TypeOK
<1>3. /\ attempts' \in 0 .. MaxAttempts /\ retry' \in BOOLEAN
      /\ status' \in {"reconnecting", "reconnect_failed"}
      /\ retry' \/ status' = "reconnect_failed"
  BY <1>2, ReconnectEffect DEF IInv
<1>4. /\ pending' \subseteq Reqs /\ req' \in [Reqs -> {"none", "waiting", "resolved", "rejected"}]
      /\ sentOn' \in [Reqs -> Socks \cup {None}]
      /\ PendingExact' /\ NoneLeftBehind'
  BY <1>2, RejectAllEffect DEF IInv
<1> QED
  BY <1>1, <1>3, <1>4 DEF IInv, TypeOK, NeverStranded

\* connect(), by the application or by the timer: a new socket is taken only
\* when nobody waits on the present one.
LEMMA ConnectKeeps ==
  ASSUME IInv, Connect, wanted' \in BOOLEAN
  PROVE  IInv'
<1>1. CASE IsConnected /\ UNCHANGED <<ready, authVars, unsettled, ws, status>>
  BY <1>1 DEF IInv, TypeOK, PendingExact, NoneLeftBehind, NeverStranded, Connect,
              IsConnected, authVars, reqVars
<1>2. ASSUME ~IsConnected, NEW s \in Socks, Spare(s), NewSocket(s) PROVE IInv'
  <2>1. /\ ready' \in [Socks -> {"connecting", "open", "closing", "aborting", "closed"}]
        /\ ws' = s /\ ws' # None /\ unsettled' \subseteq Socks
        /\ status' = "connecting" /\ retry' = FALSE
        /\ UNCHANGED <<authVars, attempts, reqVars>>
    BY <1>2, WsClientAssumption DEF NewSocket, Connect, IInv, TypeOK
  <2>2. TypeOK'
    BY <2>1 DEF IInv, TypeOK, authVars, reqVars
  <2>3. PendingExact' /\ NeverStranded'
    BY <2>1 DEF IInv, PendingExact, NeverStranded, reqVars
  <2>4. ASSUME NEW r \in Reqs, req'[r] = "waiting"
        PROVE  sentOn'[r] # None /\ ready'[sentOn'[r]] = "closing"
    <3>1. sentOn[r] # None /\ ready[sentOn[r]] = "closing" /\ sentOn[r] \in Socks
      BY <1>2, <2>1, <2>4 DEF IInv, TypeOK, NoneLeftBehind, reqVars
    <3>2. sentOn[r] # s
      BY <1>2, <3>1 DEF Spare
    <3> QED
      BY <1>2, <2>1, <3>1, <3>2 DEF NewSocket, reqVars, IInv, TypeOK
  <2> QED
    BY <2>2, <2>3, <2>4 DEF IInv, NoneLeftBehind
<1> QED
  BY <1>1, <1>2 DEF Connect

\* close().
LEMMA CloseKeeps ==
  ASSUME IInv, Close
  PROVE  IInv'
<1>1. /\ ready' \in [Socks -> {"connecting", "open", "closing", "aborting", "closed"}]
      /\ ws' = None /\ wanted' = FALSE
      /\ status' = "disconnected" /\ retry' = FALSE
      /\ UNCHANGED <<authVars, unsettled, attempts>>
  BY DEF Close, Shut, IInv, TypeOK
<1>2. /\ pending' \subseteq Reqs /\ req' \in [Reqs -> {"none", "waiting", "resolved", "rejected"}]
      /\ sentOn' \in [Reqs -> Socks \cup {None}]
      /\ PendingExact' /\ NoneLeftBehind'
  BY RejectAllEffect DEF IInv, Close, Shut
<1> QED
  BY <1>1, <1>2 DEF IInv, TypeOK, NeverStranded, authVars

\* onopen, while the connection has a socket: it authenticates that one.
LEMMA OpenedKeeps ==
  ASSUME IInv, NEW s \in Socks, Opened(s)
  PROVE  IInv'
<1> DEFINE now == [ready EXCEPT ![s] = "open"]
<1>1. now \in [Socks -> {"connecting", "open", "closing", "aborting", "closed"}]
  BY DEF IInv, TypeOK
<1>2. CASE ws = None /\ LoginFails(s, now)
  BY <1>1, <1>2, LoginFailsKeeps
<1>3. ASSUME ws # None, ready' = now, UNCHANGED <<ws, reqVars, wanted, retry>>,
             login' = [login EXCEPT ![s] = "signing"],
             target' = [target EXCEPT ![s] = ws], status' = "authenticating",
             UNCHANGED <<served, unsettled, attempts>>
      PROVE  IInv'
  <2>1. TypeOK'
    BY <1>1, <1>3 DEF IInv, TypeOK, reqVars
  <2>2. PendingExact' /\ NeverStranded'
    BY <1>3 DEF IInv, PendingExact, NeverStranded, reqVars
  <2>3. NoneLeftBehind'
    BY <1>3 DEF IInv, TypeOK, NoneLeftBehind, IsConnected, reqVars, Opened
  <2> QED
    BY <2>1, <2>2, <2>3 DEF IInv
<1> QED
  BY <1>2, <1>3 DEF Opened

\* The other steps of authenticate() and of a peer that closes.
LEMMA SocketKeeps ==
  ASSUME IInv, NEW s \in Socks, SendAuth(s) \/ AuthVerified(s) \/ AuthTimeout(s) \/ PeerCloses(s)
  PROVE  IInv'
<1>1. ready \in [Socks -> {"connecting", "open", "closing", "aborting", "closed"}]
  BY DEF IInv, TypeOK
<1>2. CASE LoginFails(s, ready)
  BY <1>1, <1>2, LoginFailsKeeps
<1>3. CASE SendAuth(s) /\ ~LoginFails(s, ready)
  BY <1>3 DEF SendAuth, IInv, TypeOK, PendingExact, NoneLeftBehind, NeverStranded,
              IsConnected, timerVars, reqVars
<1>4. CASE AuthVerified(s)
  <2>1. UNCHANGED <<ready, ws, retry, reqVars, wanted>> /\ status' = "connected"
    BY <1>4 DEF AuthVerified
  <2>2. TypeOK'
    BY <1>4, WsClientAssumption DEF AuthVerified, IInv, TypeOK, reqVars
  <2>3. PendingExact' /\ NoneLeftBehind' /\ NeverStranded'
    BY <2>1 DEF IInv, PendingExact, NoneLeftBehind, NeverStranded, IsConnected, reqVars
  <2> QED
    BY <2>2, <2>3 DEF IInv
<1>5. CASE PeerCloses(s)
  BY <1>5 DEF PeerCloses, IInv, TypeOK, PendingExact, NoneLeftBehind, NeverStranded,
              IsConnected, authVars, timerVars, reqVars
<1> QED
  BY <1>2, <1>3, <1>4, <1>5 DEF AuthTimeout

\* A request that is sent, answered or timed out.
LEMMA RequestKeeps ==
  ASSUME IInv, NEW r \in Reqs, SendRequest(r) \/ Answered(r) \/ RequestTimeout(r)
  PROVE  IInv'
<1>1. CASE SendRequest(r)
  BY <1>1 DEF SendRequest, IInv, TypeOK, PendingExact, NoneLeftBehind, NeverStranded,
              IsConnected, authVars, timerVars
<1>2. ASSUME NEW outcome \in {"resolved", "rejected"}, Finish(r, outcome) PROVE IInv'
  BY <1>2 DEF Finish, IInv, TypeOK, PendingExact, NoneLeftBehind, NeverStranded,
              IsConnected, authVars, timerVars
<1> QED
  BY <1>1, <1>2 DEF Answered, RequestTimeout

\* IInv holds in every reachable state.
LEMMA Inductive == Spec => []IInv
<1>1. Init => IInv
  <2> SUFFICES ASSUME Init PROVE IInv
    OBVIOUS
  <2>1. \A r \in Reqs : req[r] = "none"
    BY DEF Init
  <2>2. TypeOK
    <3>1. retry \in BOOLEAN /\ wanted \in BOOLEAN
      BY Zenon DEF Init
    <3>2. attempts \in 0 .. MaxAttempts
      BY WsClientAssumption DEF Init
    <3>3. /\ ready \in [Socks -> {"connecting", "open", "closing", "aborting", "closed"}]
          /\ login \in [Socks -> {"none", "signing", "waiting"}]
          /\ target \in [Socks -> Socks \cup {None}]
          /\ req \in [Reqs -> {"none", "waiting", "resolved", "rejected"}]
          /\ sentOn \in [Reqs -> Socks \cup {None}]
      BY DEF Init
    <3>4. /\ served \subseteq Socks /\ ws \in Socks \cup {None} /\ unsettled \subseteq Socks
          /\ pending \subseteq Reqs
          /\ status \in {"disconnected", "connecting", "authenticating", "connected",
                         "reconnecting", "reconnect_failed"}
      BY DEF Init
    <3> QED
      BY <3>1, <3>2, <3>3, <3>4 DEF TypeOK
  <2>3. PendingExact /\ NoneLeftBehind
    BY <2>1 DEF Init, PendingExact, NoneLeftBehind
  <2>4. NeverStranded
    BY DEF Init, NeverStranded
  <2> QED
    BY <2>2, <2>3, <2>4 DEF IInv
<1>2. IInv /\ [Next]_vars => IInv'
  <2> SUFFICES ASSUME IInv, [Next]_vars PROVE IInv'
    OBVIOUS
  <2>1. CASE UserConnects \/ TimerFires
    BY <2>1, ConnectKeeps DEF UserConnects, TimerFires, IInv, TypeOK
  <2>2. CASE Close
    BY <2>2, CloseKeeps
  <2>3. ASSUME NEW s \in Socks, Opened(s) PROVE IInv'
    BY <2>3, OpenedKeeps
  <2>4. ASSUME NEW s \in Socks, CloseEvent(s) \/ Drop(s) PROVE IInv'
    BY <2>4, OnCloseKeeps DEF CloseEvent, Drop
  <2>5. ASSUME NEW s \in Socks,
               SendAuth(s) \/ AuthVerified(s) \/ AuthTimeout(s) \/ PeerCloses(s)
        PROVE  IInv'
    BY <2>5, SocketKeeps
  <2>6. ASSUME NEW r \in Reqs, SendRequest(r) \/ Answered(r) \/ RequestTimeout(r) PROVE IInv'
    BY <2>6, RequestKeeps
  <2>7. CASE UNCHANGED vars
    BY <2>7 DEF vars, authVars, timerVars, reqVars, IInv, TypeOK, PendingExact,
                NoneLeftBehind, NeverStranded, IsConnected
  <2> QED
    BY <2>1, <2>2, <2>3, <2>4, <2>5, <2>6, <2>7 DEF Next
<1> QED
  BY <1>1, <1>2, PTL DEF Spec

-----------------------------------------------------------------------------
\* The client's variables are well typed; the attempts never pass their limit.
THEOREM ClientTypeCorrect == Spec => []TypeOK
<1>1. IInv => TypeOK
  BY DEF IInv
<1> QED BY <1>1, Inductive, PTL

\* The table of requests and the callers who wait always agree, whatever
\* sockets open, fail, close or are forgotten (connection.ts, requests.ts).
THEOREM TableExact == Spec => []PendingExact
<1>1. IInv => PendingExact
  BY DEF IInv
<1> QED BY <1>1, Inductive, PTL

\* Nobody waits on a connection that is gone: connection.ts rejects in time.
THEOREM NobodyLeftBehind == Spec => []NoneLeftBehind
<1>1. IInv => NoneLeftBehind
  BY DEF IInv
<1> QED BY <1>1, Inductive, PTL

\* A wanted connection is planned or given up aloud (handleReconnect).
THEOREM Retried == Spec => []NeverStranded
<1>1. IInv => NeverStranded
  BY DEF IInv
<1> QED BY <1>1, Inductive, PTL
=============================================================================

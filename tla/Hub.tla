-------------------------------- MODULE Hub --------------------------------
(***************************************************************************)
(* The websocket handler (ws.go): one goroutine per connection, which      *)
(* authenticates its client, enters itself under the client's address in   *)
(* the table of connections, and then serves messages: requests to the     *)
(* broker, which it answers, and messages for an application, which it     *)
(* forwards to the connections of the other members.                       *)
(*                                                                         *)
(* What a request does to the ledger is in Broker.tla; here it is answered *)
(* or fails.  There is one application; its row is read by every forward.  *)
(* A message is written to a connection by NextWriter, Write and Close, by *)
(* any goroutine and without a lock.                                       *)
(***************************************************************************)
EXTENDS Auth

CONSTANTS
  Conns,          \* connections, one handler goroutine each
  Canonical,      \* the checksum spelling of a name
  Members,        \* participants of the application, as it spells them
  SignerSets,     \* whose signatures a forwarded message may carry
  None

ASSUME HubAssumption ==
  /\ Canonical \in [Names -> Names]
  /\ \A n \in Names : Canonical[Canonical[n]] = Canonical[n]
  /\ Members \subseteq Names
  /\ SignerSets \subseteq SUBSET Names
  /\ None \notin Names \cup Tokens \cup Conns

VARIABLES
  pc,             \* where the goroutine of a connection stands
  name,           \* the address it has authenticated
  token,          \* the challenge it was authenticated with
  msg,            \* the message it is serving
  todo,           \* members it has still to forward the message to
  to,             \* the connection it is writing to
  registry,       \* h.connections
  app,            \* status of the application's row
  writer,         \* per connection, the goroutine whose writer is current
  torn            \* connections that were sent an incomplete message

hubVars == <<authVars, pc, name, token, msg, todo, to, registry, app, writer, torn>>

Serving == {"ready", "update", "dispatch", "forward", "write", "open", "written"}

Messages ==
  [kind : {"none", "request", "expired"}] \cup [kind : {"forward"}, signers : SignerSets]

NoMessage == [kind |-> "none"]

HubTyped ==
  /\ AuthTypeOK
  /\ pc \in [Conns -> Serving \cup {"free", "auth", "register", "leaving", "ended"}]
  /\ name \in [Conns -> Names \cup {None}]
  /\ token \in [Conns -> Tokens \cup {None}]
  /\ msg \in [Conns -> Messages]
  /\ todo \in [Conns -> SUBSET Names]
  /\ to \in [Conns -> Conns \cup {None}]
  /\ registry \in [Names -> Conns \cup {None}]
  /\ app \in {"none", "open", "closed"}
  /\ writer \in [Conns -> Conns \cup {None}]
  /\ torn \subseteq Conns

\* A goroutine that is writing writes to a connection, never to a missing one.
Aimed == \A k \in Conns : pc[k] \in {"write", "open", "written"} => to[k] \in Conns

HubTypeOK == HubTyped /\ Aimed

HubInit ==
  /\ AuthInit
  /\ pc = [k \in Conns |-> "free"]
  /\ name = [k \in Conns |-> None]
  /\ token = [k \in Conns |-> None]
  /\ msg = [k \in Conns |-> NoMessage]
  /\ todo = [k \in Conns |-> {}]
  /\ to = [k \in Conns |-> None]
  /\ registry = [n \in Names |-> None]
  /\ app = "none"
  /\ writer = [k \in Conns |-> None]
  /\ torn = {}

Goto(k, place) == pc' = [pc EXCEPT ![k] = place]

idVars == <<name, token>>
workVars == <<msg, todo, to>>
wireVars == <<writer, torn>>

-----------------------------------------------------------------------------
(* Authentication.                                                         *)

Accept(k) ==
  /\ pc[k] = "free"
  /\ Goto(k, "auth")
  /\ UNCHANGED <<authVars, idVars, workVars, registry, app, wireVars>>

\* auth_request; with the table full the client gets an error.
AuthRequest(k, t, n) ==
  /\ pc[k] = "auth"
  /\ GenerateChallenge(t, n)
  /\ UNCHANGED <<pc, idVars, workVars, registry, app, wireVars>>

\* auth_verify with a signature of n.  The challenge is spent before the
\* answer is written; when the write fails the next read fails too.
AuthVerify(k, t, n) ==
  /\ pc[k] = "auth"
  /\ AcceptChallenge(t, n)
  /\ name' = [name EXCEPT ![k] = n]
  /\ token' = [token EXCEPT ![k] = t]
  /\ Goto(k, "register") \/ Goto(k, "ended")
  /\ UNCHANGED <<workVars, registry, app, wireVars>>

AuthFails(k, t, n) ==
  /\ pc[k] = "auth"
  /\ RefuseChallenge(t, n)
  /\ UNCHANGED <<pc, idVars, workVars, registry, app, wireVars>>

Register(k) ==
  /\ pc[k] = "register"
  /\ registry' = [registry EXCEPT ![name[k]] = k]
  /\ Goto(k, "ready")
  /\ UNCHANGED <<authVars, idVars, workVars, app, wireVars>>

\* The client closes or loses the connection, or the server shuts down.
Disconnect(k) ==
  /\ \/ pc[k] = "auth" /\ Goto(k, "ended")
     \/ pc[k] = "ready" /\ Goto(k, "leaving")
  /\ UNCHANGED <<authVars, idVars, workVars, registry, app, wireVars>>

\* Mutant: the entry stays when the goroutine ends.
Leave_KeepsEntry(k) ==
  /\ pc[k] = "leaving"
  /\ Goto(k, "ended")
  /\ UNCHANGED <<authVars, idVars, workVars, registry, app, wireVars>>

\* The deferred function: whatever is under the address is deleted.
Leave(k) ==
  /\ pc[k] = "leaving"
  /\ registry' = [registry EXCEPT ![name[k]] = None]
  /\ Goto(k, "ended")
  /\ UNCHANGED <<authVars, idVars, workVars, app, wireVars>>

-----------------------------------------------------------------------------
(* The message loop.                                                       *)

\* A message is read and the session checked.  Without a valid session the
\* client is told so and the loop ends.
Receive(k, m) ==
  /\ pc[k] = "ready"
  /\ IF ValidateSession(name[k])
     THEN Goto(k, "update") /\ msg' = [msg EXCEPT ![k] = m] /\ UNCHANGED to
     ELSE /\ Goto(k, "write")
          /\ msg' = [msg EXCEPT ![k] = [kind |-> "expired"]]
          /\ to' = [to EXCEPT ![k] = k]
  /\ UNCHANGED <<authVars, idVars, todo, registry, app, wireVars>>

Update(k) ==
  /\ pc[k] = "update"
  /\ UpdateSession(name[k])
  /\ Goto(k, "dispatch")
  /\ UNCHANGED <<challenges, cleaner, idVars, workVars, registry, app, wireVars>>

\* A request to the broker is answered, with a result or an error; one without
\* a signature, or for a channel the broker does not know, panics.
Dispatch(k) ==
  /\ pc[k] = "dispatch"
  /\ msg[k].kind = "request"
  /\ \/ Goto(k, "write") /\ to' = [to EXCEPT ![k] = k]
     \/ Goto(k, "leaving") /\ UNCHANGED to
  /\ UNCHANGED <<authVars, idVars, msg, todo, registry, app, wireVars>>

\* Mutant: the sender is a recipient too.
Recipients_All(k) == Members

Recipients(k) == Members \ {name[k]}

\* The spellings RecoverAddress gives are canonical; the sender's own is
\* looked up among them as he spelled it when he authenticated.
Authorised(k) == name[k] \in {Canonical[n] : n \in msg[k].signers} /\ app # "none"

\* forwardMessage: signatures are checked and the application's row is read,
\* whatever its status.
Forward(k) ==
  /\ pc[k] = "dispatch"
  /\ msg[k].kind = "forward"
  /\ IF Authorised(k)
     THEN Goto(k, "forward") /\ todo' = [todo EXCEPT ![k] = Recipients(k)] /\ UNCHANGED to
     ELSE Goto(k, "write") /\ to' = [to EXCEPT ![k] = k] /\ UNCHANGED todo
  /\ UNCHANGED <<authVars, idVars, msg, registry, app, wireVars>>

\* Mutant: a recipient is taken to be connected.
LookUp_Unchecked(k, n) ==
  /\ pc[k] = "forward"
  /\ n \in todo[k]
  /\ todo' = [todo EXCEPT ![k] = @ \ {n}]
  /\ Goto(k, "write")
  /\ to' = [to EXCEPT ![k] = registry[n]]
  /\ UNCHANGED <<authVars, idVars, msg, registry, app, wireVars>>

\* The next recipient's connection is looked up under the read lock.
LookUp(k, n) ==
  /\ pc[k] = "forward"
  /\ n \in todo[k]
  /\ todo' = [todo EXCEPT ![k] = @ \ {n}]
  /\ IF registry[n] = None
     THEN UNCHANGED <<pc, to>>
     ELSE Goto(k, "write") /\ to' = [to EXCEPT ![k] = registry[n]]
  /\ UNCHANGED <<authVars, idVars, msg, registry, app, wireVars>>

ForwardDone(k) ==
  /\ pc[k] = "forward"
  /\ todo[k] = {}
  /\ Goto(k, "ready")
  /\ msg' = [msg EXCEPT ![k] = NoMessage]
  /\ UNCHANGED <<authVars, idVars, todo, to, registry, app, wireVars>>

-----------------------------------------------------------------------------
(* Writing to a connection (external: the connection's write methods).     *)

\* After a write: on to the next recipient, back to the loop, or out of it.
Proceed(k) ==
  /\ Goto(k, IF msg[k].kind = "expired" THEN "leaving" ELSE "forward")
  /\ to' = [to EXCEPT ![k] = None]

\* NextWriter.  A writer that another goroutine has open on the connection is
\* closed, which sends what it holds by then.
NextWriter(k) ==
  /\ pc[k] = "write"
  /\ IF pc[to[k]] = "ended"
     THEN Proceed(k) /\ UNCHANGED wireVars
     ELSE /\ Goto(k, "open")
          /\ writer' = [writer EXCEPT ![to[k]] = k]
          /\ torn' = IF writer[to[k]] # None /\ pc[writer[to[k]]] = "open"
                     THEN torn \cup {to[k]} ELSE torn
          /\ UNCHANGED to
  /\ UNCHANGED <<authVars, idVars, msg, todo, registry, app>>

\* Write.  A writer closed by another goroutine gives an error, and the
\* message is dropped.
WriteMessage(k) ==
  /\ pc[k] = "open"
  /\ IF writer[to[k]] = k THEN Goto(k, "written") /\ UNCHANGED to ELSE Proceed(k)
  /\ UNCHANGED <<authVars, idVars, msg, todo, registry, app, wireVars>>

\* Close flushes the message.  Two goroutines that flush one connection at a
\* time make the library panic.
CloseWriter(k) ==
  /\ pc[k] = "written"
  /\ writer' = [writer EXCEPT ![to[k]] = IF @ = k THEN None ELSE @]
  /\ \/ Proceed(k)
     \/ /\ \E other \in Conns \ {k} : pc[other] = "write" /\ to[other] = to[k]
        /\ Goto(k, "leaving")
        /\ to' = [to EXCEPT ![k] = None]
  /\ UNCHANGED <<authVars, idVars, msg, todo, registry, app, torn>>

-----------------------------------------------------------------------------

\* create_app_session and close_app_session set the status of the row.
AppChanges ==
  /\ \/ app = "none" /\ app' = "open"
     \/ app = "open" /\ app' = "closed"
  /\ UNCHANGED <<authVars, pc, idVars, workVars, registry, wireVars>>

TimeStep ==
  /\ (\E t \in Tokens : ChallengeExpires(t)) \/ (\E n \in Names : SessionExpires(n)) \/ Cleanup
  /\ UNCHANGED <<pc, idVars, workVars, registry, app, wireVars>>

AuthStep(k) ==
  \/ Accept(k)
  \/ \E t \in Tokens, n \in Names : AuthRequest(k, t, n) \/ AuthVerify(k, t, n) \/ AuthFails(k, t, n)
  \/ Register(k)

LoopStep(k) ==
  \/ \E m \in Messages : m.kind \in {"request", "forward"} /\ Receive(k, m)
  \/ Update(k)
  \/ Dispatch(k)
  \/ Forward(k)
  \/ \E n \in Names : LookUp(k, n)
  \/ ForwardDone(k)

WriteStep(k) == NextWriter(k) \/ WriteMessage(k) \/ CloseWriter(k)

HubNext ==
  \/ \E k \in Conns : AuthStep(k) \/ LoopStep(k) \/ WriteStep(k) \/ Disconnect(k) \/ Leave(k)
  \/ AppChanges
  \/ TimeStep

HubSpec == HubInit /\ [][HubNext]_hubVars

\* Time passes and the cleaning goroutine runs.
HubFairness ==
  /\ \A t \in Tokens :
       WF_hubVars(ChallengeExpires(t) /\ UNCHANGED <<pc, idVars, workVars, registry, app, wireVars>>)
  /\ WF_hubVars(Cleanup /\ UNCHANGED <<pc, idVars, workVars, registry, app, wireVars>>)

HubFairSpec == HubSpec /\ HubFairness

-----------------------------------------------------------------------------
(* Safety.                                                                 *)

\* One challenge authenticates one connection, however often its answer is
\* sent and whichever goroutine handles it first.
ChallengeOnce ==
  \A k, l \in Conns : token[k] = token[l] /\ token[k] # None => k = l

\* An entry in the table of connections is always that of a goroutine which
\* authenticated this very address and has not ended: forwarded messages never
\* reach another client, and the table never leaks a dead connection.
RegistrySound ==
  \A n \in Names : registry[n] # None =>
    name[registry[n]] = n /\ pc[registry[n]] \in Serving \cup {"leaving"}

\* A forwarded message is written to connections of the other members only.
ForwardedToMembers ==
  \A k \in Conns : to[k] # None /\ to[k] # k =>
    name[to[k]] \in Members \ {name[k]}

\* An address that has a connection being served can be reached.
Reachable == \A k \in Conns : pc[k] \in Serving => registry[name[k]] # None

(* Liveness.                                                               *)

\* A full table of challenges does not stay full: clients are let in again.
TableFrees == TableFull ~> ~TableFull
=============================================================================

----------------------------- MODULE HubProofs -----------------------------
(***************************************************************************)
(* Proofs about Hub: the table of connections is sound and a challenge     *)
(* authenticates one connection, for any number of connections, addresses  *)
(* and challenges.                                                         *)
(***************************************************************************)
EXTENDS Hub, TLAPS

\* A challenge that can not be answered any more.
Spent(t) == challenges[t].state \in {"completed", "removed"}

\* Every connection that has an address got it with a challenge that is spent.
TokenSpent == \A k \in Conns : token[k] # None => Spent(token[k])

HubInv == HubTyped /\ TokenSpent /\ Aimed /\ ChallengeOnce /\ RegistrySound

-----------------------------------------------------------------------------
(* The authentication manager.                                             *)

\* Replacing one challenge by another keeps the table of challenges typed.
LEMMA ReplaceChallenge ==
  ASSUME AuthTypeOK, NEW t \in Tokens, NEW c \in Challenge,
         challenges' = [challenges EXCEPT ![t] = c],
         Spent(t) => c.state \in {"completed", "removed"}
  PROVE  /\ challenges' \in [Tokens -> Challenge]
         /\ \A u \in Tokens : Spent(u) => Spent(u)'
BY DEF AuthTypeOK, Spent

\* Every step of the manager keeps its tables typed, and a spent challenge spent.
LEMMA AuthKeeps ==
  ASSUME AuthTypeOK,
         \/ \E t \in Tokens, n \in Names :
              GenerateChallenge(t, n) \/ AcceptChallenge(t, n) \/ RefuseChallenge(t, n)
         \/ \E t \in Tokens : ChallengeExpires(t)
         \/ \E n \in Names : SessionExpires(n)
         \/ Cleanup
  PROVE  AuthTypeOK' /\ \A u \in Tokens : Spent(u) => Spent(u)'
<1>1. ASSUME NEW t \in Tokens, NEW n \in Names, GenerateChallenge(t, n)
      PROVE  AuthTypeOK' /\ \A u \in Tokens : Spent(u) => Spent(u)'
  <2> DEFINE c == [state |-> "pending", owner |-> n, expired |-> FALSE]
  <2>1. c \in Challenge
    BY DEF Challenge
  <2>2. challenges' = [challenges EXCEPT ![t] = c] /\ ~Spent(t)
    BY <1>1 DEF GenerateChallenge, Spent
  <2> HIDE DEF c
  <2>3. challenges' \in [Tokens -> Challenge] /\ \A u \in Tokens : Spent(u) => Spent(u)'
    BY <2>1, <2>2, ReplaceChallenge
  <2> QED
    BY <1>1, <2>3 DEF GenerateChallenge, AuthTypeOK
<1>2. ASSUME NEW t \in Tokens, NEW n \in Names, AcceptChallenge(t, n)
      PROVE  AuthTypeOK' /\ \A u \in Tokens : Spent(u) => Spent(u)'
  <2> DEFINE c == [challenges[t] EXCEPT !.state = "completed"]
  <2>1. challenges[t] \in [state : {"pending", "completed"}, owner : Names, expired : BOOLEAN]
    BY <1>2 DEF AcceptChallenge, Answers, AuthTypeOK, Challenge
  <2>2. c \in [state : {"pending", "completed"}, owner : Names, expired : BOOLEAN]
        /\ c.state = "completed"
    BY ONLY <2>1
  <2>3. challenges' = [challenges EXCEPT ![t] = c]
    BY <1>2 DEF AcceptChallenge, AuthTypeOK
  <2>4. c \in Challenge
    BY <2>2 DEF Challenge
  <2> HIDE DEF c
  <2>5. challenges' \in [Tokens -> Challenge] /\ \A u \in Tokens : Spent(u) => Spent(u)'
    BY <2>2, <2>3, <2>4, ReplaceChallenge
  <2> QED
    BY <1>2, <2>5 DEF AcceptChallenge, AuthTypeOK
<1>3. ASSUME NEW t \in Tokens, NEW n \in Names, RefuseChallenge(t, n)
      PROVE  AuthTypeOK' /\ \A u \in Tokens : Spent(u) => Spent(u)'
  <2>1. Removed \in Challenge /\ Removed.state = "removed"
    BY DEF Removed, Challenge
  <2>2. CASE challenges' = [challenges EXCEPT ![t] = Removed]
    <3>1. challenges' \in [Tokens -> Challenge] /\ \A u \in Tokens : Spent(u) => Spent(u)'
      BY <2>1, <2>2, ReplaceChallenge
    <3> QED
      BY <1>3, <3>1 DEF RefuseChallenge, AuthTypeOK
  <2>3. CASE challenges' = challenges
    BY <1>3, <2>3 DEF RefuseChallenge, AuthTypeOK, Spent
  <2> QED
    BY <1>3, <2>2, <2>3 DEF RefuseChallenge
<1>4. ASSUME NEW t \in Tokens, ChallengeExpires(t)
      PROVE  AuthTypeOK' /\ \A u \in Tokens : Spent(u) => Spent(u)'
  <2> DEFINE c == [challenges[t] EXCEPT !.expired = TRUE]
  <2>1. challenges[t] \in [state : {"pending", "completed"}, owner : Names, expired : BOOLEAN]
    BY <1>4 DEF ChallengeExpires, Stored, AuthTypeOK, Challenge
  <2>2. c \in [state : {"pending", "completed"}, owner : Names, expired : BOOLEAN]
        /\ c.state = challenges[t].state
    BY ONLY <2>1
  <2>3. challenges' = [challenges EXCEPT ![t] = c]
    BY <1>4 DEF ChallengeExpires, AuthTypeOK
  <2>4. c \in Challenge /\ (Spent(t) => c.state \in {"completed", "removed"})
    BY <2>2 DEF Challenge, Spent
  <2> HIDE DEF c
  <2>5. challenges' \in [Tokens -> Challenge] /\ \A u \in Tokens : Spent(u) => Spent(u)'
    BY <2>3, <2>4, ReplaceChallenge
  <2> QED
    BY <1>4, <2>5 DEF ChallengeExpires, AuthTypeOK
<1>5. ASSUME NEW n \in Names, SessionExpires(n)
      PROVE  AuthTypeOK' /\ \A u \in Tokens : Spent(u) => Spent(u)'
  BY <1>5 DEF SessionExpires, AuthTypeOK, Spent
<1>6. ASSUME Cleanup
      PROVE  AuthTypeOK' /\ \A u \in Tokens : Spent(u) => Spent(u)'
  <2>1. Removed \in Challenge /\ Removed.state = "removed"
    BY DEF Removed, Challenge
  <2>2. CASE CleanChallenges
    BY <2>1, <2>2 DEF CleanChallenges, AuthTypeOK, Spent
  <2>3. CASE CleanSessions
    BY <2>3 DEF CleanSessions, AuthTypeOK, Spent
  <2> QED
    BY <1>6, <2>2, <2>3 DEF Cleanup
<1> QED
  BY <1>1, <1>2, <1>3, <1>4, <1>5, <1>6

-----------------------------------------------------------------------------
(* The invariant.                                                          *)

\* The initial state satisfies the invariant: nobody is connected.
LEMMA HubInitInv == HubInit => HubInv
<1> SUFFICES ASSUME HubInit PROVE HubInv
  OBVIOUS
<1>1. AuthTypeOK
  <2>1. [state |-> "unissued"] \in Challenge
    BY DEF Challenge
  <2> QED
    BY <2>1 DEF HubInit, AuthInit, AuthTypeOK
<1>2. HubTyped
  BY <1>1 DEF HubInit, HubTyped, Messages, NoMessage, Serving
<1> QED
  BY <1>2 DEF HubInit, HubInv, TokenSpent, Aimed, ChallengeOnce, RegistrySound

\* A step that leaves names, challenges answered and the table of connections
\* alone keeps the invariant if no connection in the table ends by it.
LEMMA LoopKeeps ==
  ASSUME HubInv, HubTyped', Aimed', \A u \in Tokens : Spent(u) => Spent(u)',
         UNCHANGED <<name, token, registry>>,
         \A k \in Conns : pc[k] \in Serving \cup {"leaving"} => pc'[k] \in Serving \cup {"leaving"}
  PROVE  HubInv'
<1>1. TokenSpent'
  BY DEF HubInv, TokenSpent, HubTyped
<1>2. ChallengeOnce'
  BY DEF HubInv, ChallengeOnce
<1>3. RegistrySound'
  BY DEF HubInv, RegistrySound, HubTyped
<1> QED
  BY <1>1, <1>2, <1>3 DEF HubInv

\* The steps of authentication, and the end of a connection.
LEMMA AuthStepKeeps ==
  ASSUME HubInv, NEW k \in Conns, AuthStep(k) \/ Disconnect(k) \/ Leave(k)
  PROVE  HubInv'
<1> USE DEF HubInv
<1>1. CASE Accept(k)
  <2>1. HubTyped' /\ Aimed' /\ \A u \in Tokens : Spent(u) => Spent(u)'
    BY <1>1 DEF Accept, Goto, HubTyped, Aimed, AuthTypeOK, authVars, idVars, workVars, wireVars, Spent
  <2>2. UNCHANGED <<name, token, registry>>
    BY <1>1 DEF Accept, idVars
  <2>3. \A l \in Conns : pc[l] \in Serving \cup {"leaving"} => pc'[l] \in Serving \cup {"leaving"}
    BY <1>1 DEF Accept, Goto, Serving, HubTyped
  <2> QED
    BY <2>1, <2>2, <2>3, LoopKeeps
<1>2. ASSUME NEW t \in Tokens, NEW n \in Names, AuthRequest(k, t, n) \/ AuthFails(k, t, n)
      PROVE  HubInv'
  <2>1. AuthTypeOK' /\ \A u \in Tokens : Spent(u) => Spent(u)'
    BY <1>2, AuthKeeps DEF AuthRequest, AuthFails, HubTyped
  <2>2. UNCHANGED <<pc, name, token, msg, todo, to, registry, app, writer, torn>>
    BY <1>2 DEF AuthRequest, AuthFails, idVars, workVars, wireVars
  <2>3. HubTyped' /\ Aimed'
    BY <2>1, <2>2 DEF HubTyped, Aimed
  <2> QED
    BY <2>1, <2>2, <2>3, LoopKeeps
<1>3. ASSUME NEW t \in Tokens, NEW n \in Names, AuthVerify(k, t, n)
      PROVE  HubInv'
  <2>1. AuthTypeOK' /\ \A u \in Tokens : Spent(u) => Spent(u)'
    BY <1>3, AuthKeeps DEF AuthVerify, HubTyped
  <2>2. /\ UNCHANGED <<msg, todo, to, registry, app, writer, torn>>
        /\ name' = [name EXCEPT ![k] = n]
        /\ token' = [token EXCEPT ![k] = t]
        /\ pc[k] = "auth"
        /\ pc' = [pc EXCEPT ![k] = "register"] \/ pc' = [pc EXCEPT ![k] = "ended"]
    BY <1>3 DEF AuthVerify, Goto, workVars, wireVars
  <2>3. HubTyped' /\ Aimed'
    BY <2>1, <2>2 DEF HubTyped, Aimed
  <2>4. ~Spent(t) /\ Spent(t)'
    <3>1. challenges[t].state = "pending"
      BY <1>3 DEF AuthVerify, AcceptChallenge, Answers
    <3>2. challenges[t] \in [state : {"pending", "completed"}, owner : Names, expired : BOOLEAN]
      BY <3>1 DEF HubTyped, AuthTypeOK, Challenge
    <3>3. [challenges[t] EXCEPT !.state = "completed"].state = "completed"
      BY ONLY <3>2
    <3>4. challenges'[t] = [challenges[t] EXCEPT !.state = "completed"]
      BY <1>3 DEF AuthVerify, AcceptChallenge, HubTyped, AuthTypeOK
    <3> QED
      BY <3>1, <3>3, <3>4 DEF Spent
  <2>5. TokenSpent'
    BY <2>1, <2>2, <2>4 DEF TokenSpent, HubTyped
  <2>6. ChallengeOnce'
    BY <2>2, <2>4 DEF TokenSpent, ChallengeOnce, HubTyped
  <2>7. \A m \in Names : registry[m] # k
    BY <2>2, HubAssumption DEF RegistrySound, Serving, HubTyped
  <2>8. RegistrySound'
    BY <2>2, <2>7 DEF RegistrySound, HubTyped
  <2> QED
    BY <2>3, <2>5, <2>6, <2>8
<1>4. CASE Register(k)
  <2>1. /\ UNCHANGED <<challenges, sessions, cleaner, name, token, msg, todo, to, app, writer, torn>>
        /\ pc[k] = "register"
        /\ pc' = [pc EXCEPT ![k] = "ready"]
        /\ registry' = [registry EXCEPT ![name[k]] = k]
    BY <1>4 DEF Register, Goto, authVars, idVars, workVars, wireVars
  <2>2. HubTyped' /\ Aimed'
    BY <2>1 DEF HubTyped, AuthTypeOK, Serving, Aimed
  <2>3. TokenSpent' /\ ChallengeOnce'
    BY <2>1 DEF TokenSpent, ChallengeOnce, Spent
  <2>4. RegistrySound'
    BY <2>1 DEF RegistrySound, HubTyped, Serving
  <2> QED
    BY <2>2, <2>3, <2>4
<1>5. CASE Disconnect(k)
  <2>1. /\ UNCHANGED <<challenges, sessions, cleaner, name, token, msg, todo, to, registry, app, writer, torn>>
        /\ \/ pc[k] = "auth" /\ pc' = [pc EXCEPT ![k] = "ended"]
           \/ pc[k] = "ready" /\ pc' = [pc EXCEPT ![k] = "leaving"]
    BY <1>5 DEF Disconnect, Goto, authVars, idVars, workVars, wireVars
  <2>2. HubTyped' /\ Aimed' /\ \A u \in Tokens : Spent(u) => Spent(u)'
    BY <2>1 DEF HubTyped, AuthTypeOK, Spent, Aimed
  <2>3. \A l \in Conns : pc[l] \in Serving \cup {"leaving"} => pc'[l] \in Serving \cup {"leaving"}
    BY <2>1 DEF HubTyped, Serving
  <2> QED
    BY <2>1, <2>2, <2>3, LoopKeeps
<1>6. CASE Leave(k)
  <2>1. /\ UNCHANGED <<challenges, sessions, cleaner, name, token, msg, todo, to, app, writer, torn>>
        /\ pc' = [pc EXCEPT ![k] = "ended"]
        /\ registry' = [registry EXCEPT ![name[k]] = None]
    BY <1>6 DEF Leave, Goto, authVars, idVars, workVars, wireVars
  <2>2. HubTyped' /\ Aimed'
    BY <2>1 DEF HubTyped, AuthTypeOK, Aimed
  <2>3. TokenSpent' /\ ChallengeOnce'
    BY <2>1 DEF TokenSpent, ChallengeOnce, Spent
  <2>4. \A n \in Names : registry'[n] # None => registry'[n] = registry[n] /\ registry[n] # k
    BY <2>1 DEF RegistrySound, HubTyped
  <2>5. RegistrySound'
    BY <2>1, <2>4 DEF RegistrySound, HubTyped
  <2> QED
    BY <2>2, <2>3, <2>5
<1> QED
  BY <1>1, <1>2, <1>3, <1>4, <1>5, <1>6 DEF AuthStep

\* Serving a message: the session may be refreshed, nobody enters or leaves.
LEMMA LoopStepKeeps ==
  ASSUME HubInv, NEW k \in Conns, LoopStep(k)
  PROVE  HubInv'
<1> USE DEF HubInv
<1>1. ASSUME NEW m \in Messages, Receive(k, m) PROVE HubInv'
  <2>1. /\ UNCHANGED <<challenges, sessions, cleaner, name, token, todo, registry, app, writer, torn>>
        /\ \/ pc' = [pc EXCEPT ![k] = "update"] /\ msg' = [msg EXCEPT ![k] = m] /\ to' = to
           \/ /\ pc' = [pc EXCEPT ![k] = "write"] /\ to' = [to EXCEPT ![k] = k]
              /\ msg' = [msg EXCEPT ![k] = [kind |-> "expired"]]
    BY <1>1 DEF Receive, Goto, authVars, idVars, wireVars
  <2>2. [kind |-> "expired"] \in Messages
    BY DEF Messages
  <2>3. HubTyped' /\ Aimed' /\ \A u \in Tokens : Spent(u) => Spent(u)'
    BY <2>1, <2>2 DEF HubTyped, AuthTypeOK, Serving, Spent, Aimed
  <2>4. \A l \in Conns : pc[l] \in Serving \cup {"leaving"} => pc'[l] \in Serving \cup {"leaving"}
    BY <2>1 DEF HubTyped, Serving
  <2> QED
    BY <2>1, <2>3, <2>4, LoopKeeps
<1>2. CASE Update(k)
  <2>1. /\ UNCHANGED <<challenges, cleaner, name, token, msg, todo, to, registry, app, writer, torn>>
        /\ pc[k] = "update"
        /\ pc' = [pc EXCEPT ![k] = "dispatch"]
        /\ UpdateSession(name[k])
    BY <1>2 DEF Update, Goto, idVars, workVars, wireVars
  <2>2. AuthTypeOK' /\ \A u \in Tokens : Spent(u) => Spent(u)'
    BY <2>1 DEF HubTyped, AuthTypeOK, UpdateSession, Spent
  <2>3. HubTyped' /\ Aimed'
    BY <2>1, <2>2 DEF HubTyped, Serving, Aimed
  <2>4. \A l \in Conns : pc[l] \in Serving \cup {"leaving"} => pc'[l] \in Serving \cup {"leaving"}
    BY <2>1 DEF HubTyped, Serving
  <2> QED
    BY <2>1, <2>2, <2>3, <2>4, LoopKeeps
<1>3. CASE Dispatch(k)
  <2>1. /\ UNCHANGED <<challenges, sessions, cleaner, name, token, msg, todo, registry, app, writer, torn>>
        /\ \/ to' = [to EXCEPT ![k] = k] /\ pc' = [pc EXCEPT ![k] = "write"]
           \/ to' = to /\ pc' = [pc EXCEPT ![k] = "leaving"]
    BY <1>3 DEF Dispatch, Goto, authVars, idVars, wireVars
  <2>2. HubTyped' /\ Aimed' /\ \A u \in Tokens : Spent(u) => Spent(u)'
    BY <2>1 DEF HubTyped, AuthTypeOK, Serving, Spent, Aimed
  <2>3. \A l \in Conns : pc[l] \in Serving \cup {"leaving"} => pc'[l] \in Serving \cup {"leaving"}
    BY <2>1 DEF HubTyped, Serving
  <2> QED
    BY <2>1, <2>2, <2>3, LoopKeeps
<1>4. CASE Forward(k)
  <2>1. /\ UNCHANGED <<challenges, sessions, cleaner, name, token, msg, registry, app, writer, torn>>
        /\ \/ pc' = [pc EXCEPT ![k] = "forward"] /\ todo' = [todo EXCEPT ![k] = Recipients(k)] /\ to' = to
           \/ pc' = [pc EXCEPT ![k] = "write"] /\ to' = [to EXCEPT ![k] = k] /\ todo' = todo
    BY <1>4 DEF Forward, Goto, authVars, idVars, wireVars
  <2>2. Recipients(k) \in SUBSET Names
    BY HubAssumption DEF Recipients
  <2>3. HubTyped' /\ Aimed' /\ \A u \in Tokens : Spent(u) => Spent(u)'
    BY <2>1, <2>2 DEF HubTyped, AuthTypeOK, Serving, Spent, Aimed
  <2>4. \A l \in Conns : pc[l] \in Serving \cup {"leaving"} => pc'[l] \in Serving \cup {"leaving"}
    BY <2>1 DEF HubTyped, Serving
  <2> QED
    BY <2>1, <2>3, <2>4, LoopKeeps
<1>5. ASSUME NEW n \in Names, LookUp(k, n) PROVE HubInv'
  <2>1. /\ UNCHANGED <<challenges, sessions, cleaner, name, token, msg, registry, app, writer, torn>>
        /\ todo' = [todo EXCEPT ![k] = @ \ {n}]
        /\ \/ pc' = pc /\ to' = to
           \/ /\ pc' = [pc EXCEPT ![k] = "write"] /\ to' = [to EXCEPT ![k] = registry[n]]
              /\ registry[n] # None
    BY <1>5 DEF LookUp, Goto, authVars, idVars, wireVars
  <2>2. HubTyped' /\ Aimed' /\ \A u \in Tokens : Spent(u) => Spent(u)'
    BY <2>1 DEF HubTyped, AuthTypeOK, Serving, Spent, Aimed
  <2>3. \A l \in Conns : pc[l] \in Serving \cup {"leaving"} => pc'[l] \in Serving \cup {"leaving"}
    BY <2>1 DEF HubTyped, Serving
  <2> QED
    BY <2>1, <2>2, <2>3, LoopKeeps
<1>6. CASE ForwardDone(k)
  <2>1. /\ UNCHANGED <<challenges, sessions, cleaner, name, token, todo, to, registry, app, writer, torn>>
        /\ msg' = [msg EXCEPT ![k] = NoMessage]
        /\ pc' = [pc EXCEPT ![k] = "ready"]
    BY <1>6 DEF ForwardDone, Goto, authVars, idVars, wireVars
  <2>2. NoMessage \in Messages
    BY DEF Messages, NoMessage
  <2>3. HubTyped' /\ Aimed' /\ \A u \in Tokens : Spent(u) => Spent(u)'
    BY <2>1, <2>2 DEF HubTyped, AuthTypeOK, Serving, Spent, Aimed
  <2>4. \A l \in Conns : pc[l] \in Serving \cup {"leaving"} => pc'[l] \in Serving \cup {"leaving"}
    BY <2>1 DEF HubTyped, Serving
  <2> QED
    BY <2>1, <2>3, <2>4, LoopKeeps
<1> QED
  BY <1>1, <1>2, <1>3, <1>4, <1>5, <1>6 DEF LoopStep

\* Writing to a connection, one's own or another's.
LEMMA WriteStepKeeps ==
  ASSUME HubInv, NEW k \in Conns, WriteStep(k)
  PROVE  HubInv'
<1> USE DEF HubInv
<1>1. /\ UNCHANGED <<challenges, sessions, cleaner, name, token, msg, todo, registry, app>>
      /\ pc[k] \in {"write", "open", "written"}
      /\ \/ to' = to /\ \E place \in {"open", "written"} : pc' = [pc EXCEPT ![k] = place]
         \/ /\ to' = [to EXCEPT ![k] = None]
            /\ \E place \in {"forward", "leaving"} : pc' = [pc EXCEPT ![k] = place]
  BY DEF WriteStep, NextWriter, WriteMessage, CloseWriter, Proceed, Goto, authVars, idVars
<1>2. writer' \in [Conns -> Conns \cup {None}] /\ torn' \subseteq Conns
  <2>1. CASE NextWriter(k) /\ pc[to[k]] = "ended"
    BY <2>1 DEF NextWriter, wireVars, HubTyped
  <2>2. CASE NextWriter(k) /\ pc[to[k]] # "ended"
    <3>1. writer' = [writer EXCEPT ![to[k]] = k]
      BY <2>2 DEF NextWriter
    <3>2. torn' = torn \/ (torn' = torn \cup {to[k]} /\ writer[to[k]] # None)
      BY <2>2 DEF NextWriter
    <3> QED
      BY <1>1, <3>1, <3>2 DEF HubTyped, Aimed
  <2>3. CASE WriteMessage(k)
    BY <2>3 DEF WriteMessage, wireVars, HubTyped
  <2>4. CASE CloseWriter(k)
    BY <2>4 DEF CloseWriter, HubTyped
  <2> QED
    BY <2>1, <2>2, <2>3, <2>4 DEF WriteStep
<1>3. \A u \in Tokens : Spent(u) => Spent(u)'
  BY <1>1 DEF Spent
<1>4. pc' \in [Conns -> Serving \cup {"free", "auth", "register", "leaving", "ended"}]
      /\ to' \in [Conns -> Conns \cup {None}] /\ Aimed'
  BY <1>1 DEF HubTyped, Serving, Aimed
<1>5. HubTyped'
  BY <1>1, <1>2, <1>4 DEF HubTyped, AuthTypeOK
<1>6. \A l \in Conns : pc[l] \in Serving \cup {"leaving"} => pc'[l] \in Serving \cup {"leaving"}
  BY <1>1 DEF HubTyped, Serving
<1> QED
  BY <1>1, <1>3, <1>4, <1>5, <1>6, LoopKeeps

\* Time, the cleaning goroutine and the application's row leave connections alone.
LEMMA OutsideKeeps ==
  ASSUME HubInv, TimeStep \/ AppChanges
  PROVE  HubInv'
<1> USE DEF HubInv
<1>1. CASE TimeStep
  <2>1. UNCHANGED <<pc, name, token, msg, todo, to, registry, app, writer, torn>>
    BY <1>1 DEF TimeStep, idVars, workVars, wireVars
  <2>2. AuthTypeOK' /\ \A u \in Tokens : Spent(u) => Spent(u)'
    BY <1>1, AuthKeeps DEF TimeStep, HubTyped
  <2>3. HubTyped' /\ Aimed'
    BY <2>1, <2>2 DEF HubTyped, Aimed
  <2> QED
    BY <2>1, <2>2, <2>3, LoopKeeps
<1>2. CASE AppChanges
  <2>1. /\ UNCHANGED <<challenges, sessions, cleaner, pc, name, token, msg, todo, to,
                       registry, writer, torn>>
        /\ app' \in {"open", "closed"}
    BY <1>2 DEF AppChanges, authVars, idVars, workVars, wireVars
  <2>2. HubTyped' /\ Aimed' /\ \A u \in Tokens : Spent(u) => Spent(u)'
    BY <2>1 DEF HubTyped, AuthTypeOK, Spent, Aimed
  <2> QED
    BY <2>1, <2>2, LoopKeeps
<1> QED
  BY <1>1, <1>2

\* The invariant is inductive, and holds in every reachable state.
LEMMA HubInductive == HubSpec => []HubInv
<1>1. HubInit => HubInv
  BY HubInitInv
<1>2. HubInv /\ [HubNext]_hubVars => HubInv'
  <2> SUFFICES ASSUME HubInv, [HubNext]_hubVars PROVE HubInv'
    OBVIOUS
  <2>1. ASSUME NEW k \in Conns, AuthStep(k) \/ Disconnect(k) \/ Leave(k) PROVE HubInv'
    BY <2>1, AuthStepKeeps
  <2>2. ASSUME NEW k \in Conns, LoopStep(k) PROVE HubInv'
    BY <2>2, LoopStepKeeps
  <2>3. ASSUME NEW k \in Conns, WriteStep(k) PROVE HubInv'
    BY <2>3, WriteStepKeeps
  <2>4. CASE TimeStep \/ AppChanges
    BY <2>4, OutsideKeeps
  <2>5. CASE UNCHANGED hubVars
    BY <2>5 DEF hubVars, authVars, HubInv, HubTyped, AuthTypeOK, TokenSpent, Spent,
                Aimed, ChallengeOnce, RegistrySound
  <2> QED
    BY <2>1, <2>2, <2>3, <2>4, <2>5 DEF HubNext
<1> QED
  BY <1>1, <1>2, PTL DEF HubSpec

-----------------------------------------------------------------------------
(* Routing.                                                                *)

\* Before it is authenticated a connection has nothing to do with messages.
Outside == {"free", "auth"}

IdleOutside == \A k \in Conns : pc[k] \in Outside => todo[k] = {} /\ to[k] = None

\* Whom a message is still to go to, and whom it is going to.
RouteTodo == \A k \in Conns : todo[k] \subseteq Members \ {name[k]}

RouteTo == \A k \in Conns : to[k] # None /\ to[k] # k =>
             name[to[k]] \in Members \ {name[k]} /\ pc[to[k]] \notin Outside

RouteInv == IdleOutside /\ RouteTodo /\ RouteTo

\* Steps that turn no connection to another one keep the routes.
LEMMA RouteKeeps ==
  ASSUME HubTyped, HubTyped', RouteInv, NEW k \in Conns,
         UNCHANGED <<name, todo>>,
         \A l \in Conns : pc'[l] \in Outside => pc[l] \in Outside,
         \A l \in Conns \ {k} : to'[l] = to[l],
         to'[k] \in {to[k], None} \/ (to'[k] = k /\ pc'[k] \notin Outside)
  PROVE  RouteInv'
<1>1. IdleOutside'
  BY DEF RouteInv, IdleOutside, HubTyped
<1>2. RouteTodo'
  BY DEF RouteInv, RouteTodo, HubTyped
<1>3. RouteTo'
  BY DEF RouteInv, RouteTo, HubTyped
<1> QED
  BY <1>1, <1>2, <1>3 DEF RouteInv

\* Entering and leaving.
LEMMA RouteAuthStep ==
  ASSUME HubInv, HubTyped', RouteInv, NEW k \in Conns, AuthStep(k) \/ Disconnect(k) \/ Leave(k)
  PROVE  RouteInv'
<1> USE DEF Outside
<1>0. HubTyped
  BY DEF HubInv
<1>1. CASE Accept(k) \/ Register(k) \/ Disconnect(k) \/ Leave(k)
  <2>1. UNCHANGED <<name, todo, to>> /\ \A l \in Conns : pc'[l] \in Outside => pc[l] \in Outside
    BY <1>0, <1>1 DEF Accept, Register, Disconnect, Leave, Goto, idVars, workVars, HubTyped
  <2> QED
    BY <1>0, <2>1, RouteKeeps
<1>2. ASSUME NEW t \in Tokens, NEW n \in Names, AuthRequest(k, t, n) \/ AuthFails(k, t, n)
      PROVE  RouteInv'
  <2>1. UNCHANGED <<pc, name, todo, to>>
    BY <1>2 DEF AuthRequest, AuthFails, idVars, workVars
  <2> QED
    BY <1>0, <2>1, RouteKeeps
<1>3. ASSUME NEW t \in Tokens, NEW n \in Names, AuthVerify(k, t, n)
      PROVE  RouteInv'
  <2>1. /\ UNCHANGED <<todo, to>>
        /\ name' = [name EXCEPT ![k] = n]
        /\ pc[k] = "auth" /\ pc'[k] \notin Outside
        /\ \A l \in Conns \ {k} : pc'[l] = pc[l]
    BY <1>0, <1>3 DEF AuthVerify, Goto, workVars, HubTyped
  <2>2. todo[k] = {} /\ to[k] = None /\ \A l \in Conns : to[l] # k
    BY <1>0, <2>1, HubAssumption DEF RouteInv, IdleOutside, RouteTo, HubTyped
  <2>3. IdleOutside'
    BY <2>1, <2>2 DEF RouteInv, IdleOutside
  <2>4. RouteTodo'
    BY <1>0, <2>1, <2>2 DEF RouteInv, RouteTodo, HubTyped
  <2>5. RouteTo'
    BY <1>0, <2>1, <2>2 DEF RouteInv, RouteTo, HubTyped
  <2> QED
    BY <2>3, <2>4, <2>5 DEF RouteInv
<1> QED
  BY <1>1, <1>2, <1>3 DEF AuthStep

\* Serving a message.
LEMMA RouteLoopStep ==
  ASSUME HubInv, HubTyped', RouteInv, NEW k \in Conns, LoopStep(k)
  PROVE  RouteInv'
<1> USE DEF Outside
<1>0. HubTyped
  BY DEF HubInv
<1>1. CASE (\E m \in Messages : Receive(k, m)) \/ Update(k) \/ Dispatch(k) \/ ForwardDone(k)
  <2>1. /\ UNCHANGED <<name, todo>>
        /\ \A l \in Conns : pc'[l] \in Outside => pc[l] \in Outside
        /\ \A l \in Conns \ {k} : to'[l] = to[l]
        /\ to'[k] = to[k] \/ (to'[k] = k /\ pc'[k] \notin Outside)
    BY <1>0, <1>1 DEF Receive, Update, Dispatch, ForwardDone, Goto, idVars, workVars, HubTyped
  <2> QED
    BY <1>0, <2>1, RouteKeeps
<1>2. CASE Forward(k)
  <2>1. CASE Authorised(k)
    <3>1. /\ UNCHANGED <<name, to>>
          /\ todo' = [todo EXCEPT ![k] = Members \ {name[k]}]
          /\ pc[k] = "dispatch" /\ pc' = [pc EXCEPT ![k] = "forward"]
      BY <1>2, <2>1 DEF Forward, Goto, Recipients, idVars
    <3>2. IdleOutside' /\ RouteTodo' /\ RouteTo'
      BY <1>0, <3>1 DEF RouteInv, IdleOutside, RouteTodo, RouteTo, HubTyped
    <3> QED
      BY <3>2 DEF RouteInv
  <2>2. CASE ~Authorised(k)
    <3>1. UNCHANGED <<name, todo>> /\ to' = [to EXCEPT ![k] = k] /\ pc' = [pc EXCEPT ![k] = "write"]
      BY <1>2, <2>2 DEF Forward, Goto, idVars
    <3> QED
      BY <1>0, <3>1, RouteKeeps DEF HubTyped
  <2> QED
    BY <2>1, <2>2
<1>3. ASSUME NEW n \in Names, LookUp(k, n) PROVE RouteInv'
  <2>1. /\ UNCHANGED <<name, registry>>
        /\ pc[k] = "forward" /\ n \in todo[k]
        /\ todo' = [todo EXCEPT ![k] = @ \ {n}]
        /\ \/ pc' = pc /\ to' = to
           \/ /\ pc' = [pc EXCEPT ![k] = "write"] /\ to' = [to EXCEPT ![k] = registry[n]]
              /\ registry[n] # None
    BY <1>3 DEF LookUp, Goto, idVars
  <2>2. n \in Members \ {name[k]}
    BY <2>1 DEF RouteInv, RouteTodo
  <2>3. registry[n] # None => name[registry[n]] = n /\ pc[registry[n]] \notin Outside
    BY DEF HubInv, RegistrySound, Serving
  <2>4. IdleOutside' /\ RouteTodo'
    BY <1>0, <2>1 DEF RouteInv, IdleOutside, RouteTodo, HubTyped
  <2>5. RouteTo'
    BY <1>0, <2>1, <2>2, <2>3 DEF RouteInv, RouteTo, HubTyped
  <2> QED
    BY <2>4, <2>5 DEF RouteInv
<1> QED
  BY <1>1, <1>2, <1>3 DEF LoopStep

\* Writing, and what happens outside the connections.
LEMMA RouteOther ==
  ASSUME HubInv, HubTyped', RouteInv,
         (\E k \in Conns : WriteStep(k)) \/ TimeStep \/ AppChanges
  PROVE  RouteInv'
<1>0. HubTyped
  BY DEF HubInv
<1>1. ASSUME NEW k \in Conns, WriteStep(k) PROVE RouteInv'
  <2>1. /\ UNCHANGED <<name, todo>>
        /\ to' = to \/ to' = [to EXCEPT ![k] = None]
        /\ \E place \in {"open", "written", "forward", "leaving"} : pc' = [pc EXCEPT ![k] = place]
    BY <1>1 DEF WriteStep, NextWriter, WriteMessage, CloseWriter, Proceed, Goto, idVars
  <2> QED
    BY <1>0, <2>1, RouteKeeps DEF HubTyped, Outside
<1>2. CASE TimeStep \/ AppChanges
  <2>1. UNCHANGED <<pc, name, todo, to>>
    BY <1>2 DEF TimeStep, AppChanges, idVars, workVars
  <2> QED
    BY <1>0, <2>1 DEF RouteInv, IdleOutside, RouteTodo, RouteTo
<1> QED
  BY <1>1, <1>2

\* Routes are right in every reachable state.
LEMMA RouteInductive == HubSpec => []RouteInv
<1>1. HubInit => RouteInv
  BY DEF HubInit, RouteInv, IdleOutside, RouteTodo, RouteTo
<1>2. HubInv /\ HubInv' /\ RouteInv /\ [HubNext]_hubVars => RouteInv'
  <2> SUFFICES ASSUME HubInv, HubInv', RouteInv, [HubNext]_hubVars PROVE RouteInv'
    OBVIOUS
  <2>0. HubTyped'
    BY DEF HubInv
  <2>1. ASSUME NEW k \in Conns, AuthStep(k) \/ Disconnect(k) \/ Leave(k) PROVE RouteInv'
    BY <2>0, <2>1, RouteAuthStep
  <2>2. ASSUME NEW k \in Conns, LoopStep(k) PROVE RouteInv'
    BY <2>0, <2>2, RouteLoopStep
  <2>3. CASE (\E k \in Conns : WriteStep(k)) \/ TimeStep \/ AppChanges
    BY <2>0, <2>3, RouteOther
  <2>4. CASE UNCHANGED hubVars
    BY <2>4 DEF hubVars, idVars, workVars, RouteInv, IdleOutside, RouteTodo, RouteTo
  <2> QED
    BY <2>1, <2>2, <2>3, <2>4 DEF HubNext
<1> QED
  BY <1>1, <1>2, HubInductive, PTL DEF HubSpec

-----------------------------------------------------------------------------
(* What every execution of the hub satisfies.                              *)

\* The tables of the manager and of the handler, and every goroutine's local
\* variables, keep their types through every step of ws.go and auth.go.
THEOREM HubTypeCorrect == HubSpec => []HubTypeOK
BY HubInductive, PTL DEF HubInv, HubTypeOK

\* However the goroutines interleave, ValidateChallenge accepts the answer to a
\* challenge once: no two connections are let in by one challenge.
THEOREM OneConnectionPerChallenge == HubSpec => []ChallengeOnce
BY HubInductive, PTL DEF HubInv

\* The table of connections only ever holds goroutines that authenticated the
\* address they are entered under and have not ended.
THEOREM RegistryAlwaysSound == HubSpec => []RegistrySound
BY HubInductive, PTL DEF HubInv

\* A forwarded message is only ever written to connections of other members of
\* the application, although connections come and go while it is forwarded.
THEOREM ForwardsStayInside == HubSpec => []ForwardedToMembers
<1>1. RouteInv => ForwardedToMembers
  BY DEF RouteInv, RouteTo, ForwardedToMembers
<1> QED
  BY <1>1, RouteInductive, PTL
=============================================================================

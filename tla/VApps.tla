------------------------------- MODULE VApps -------------------------------
(***************************************************************************)
(* Virtual applications (handlers.go HandleCreateApplication and           *)
(* HandleCloseApplication).  Each handler runs in one database             *)
(* transaction; here the transaction is one step, which is what SQLite,    *)
(* the default database, gives.  Rejected requests change nothing and are  *)
(* not steps.                                                              *)
(*                                                                         *)
(* Abstractions: an application's id is a constant (in the code the hash   *)
(* of participants, challenge and nonce), the participants of one          *)
(* application are distinct, and its token is left out: no handler         *)
(* compares it with the token of a channel.                                *)
(***************************************************************************)
EXTENDS BrokerDB

CONSTANTS
  Allocations,    \* amounts a request may name, negative ones included
  Weights,        \* weights a definition may give a participant
  Quorums,        \* quorums a definition may ask for
  MaxSignatures   \* bound: signatures of one participant in one request

ASSUME AppInputsAssumption ==
  /\ Allocations \subseteq Int
  /\ Weights \subseteq Int
  /\ Quorums \subseteq Nat
  /\ MaxSignatures \in Nat

\* One channel account for each member, as getChannelForParticipant picks it.
ChannelChoices(members) ==
  {via \in [members -> ChannelIds] : \A p \in members : via[p] \in ParticipantChannels(p)}

\* Transfer(channel account -> application account) for every member.
CreatePosting(v, alloc, via) ==
  [x \in Accounts |-> [p \in Participants |->
     IF p \notin DOMAIN alloc THEN 0
     ELSE IF x = v THEN alloc[p]
     ELSE IF x = via[p] THEN -alloc[p]
     ELSE 0]]

\* gorm inserts the column's default, 100, for a quorum of zero.
StoredQuorum(quorum) == IF quorum = 0 THEN 100 ELSE quorum

\* Mutant: the funds are not checked.
CanAllocate_NoFundsCheck(alloc, via, signers) ==
  \A p \in DOMAIN alloc : alloc[p] >= 0 /\ (alloc[p] > 0 => p \in signers)

\* What create_app_session asks of each member; the balance is checked by the
\* handler and once more by Transfer.
CanAllocate(alloc, via, signers) ==
  \A p \in DOMAIN alloc :
    /\ alloc[p] >= 0
    /\ alloc[p] > 0 => p \in signers
    /\ balance[via[p]][p] >= alloc[p]

\* create_app_session.  `signers` are the addresses recovered from the
\* signatures (a set in the code); the unique index on app_id refuses a
\* request that is sent again.
CreateApplication(v, alloc, via, signers, weight, quorum) ==
  LET members == DOMAIN alloc IN
  /\ Cardinality(members) >= 2
  /\ via \in ChannelChoices(members)
  /\ CanAllocate(alloc, via, signers)
  /\ apps[v].status = "none"
  /\ Post(CreatePosting(v, alloc, via))
  /\ apps' = [apps EXCEPT ![v] = [status |-> "open", members |-> members,
                                  weight |-> weight, quorum |-> StoredQuorum(quorum)]]
  /\ UNCHANGED channels

\* Weight of a list of signatures: `sigs` counts the signatures of each
\* address, and every one of them adds the weight of its signer.
TotalWeight(v, sigs) ==
  MapThenSumSet(LAMBDA p : IF apps[v].weight[p] > 0 THEN sigs[p] * apps[v].weight[p] ELSE 0,
                apps[v].members)

\* Mutant: the application account is debited by the final allocation.
ClosePosting_DebitsAllocation(v, alloc, via) ==
  [x \in Accounts |-> [p \in Participants |->
     IF p \notin DOMAIN alloc THEN 0
     ELSE IF x = v THEN -alloc[p]
     ELSE IF x = via[p] THEN alloc[p]
     ELSE 0]]

\* The application account is emptied and every member's channel credited.
ClosePosting(v, alloc, via) ==
  [x \in Accounts |-> [p \in Participants |->
     IF p \notin DOMAIN alloc THEN 0
     ELSE IF x = v THEN -balance[v][p]
     ELSE IF x = via[p] THEN alloc[p]
     ELSE 0]]

\* Mutant: final allocations are not compared with the funds.
SumsMatch_Unchecked(v, alloc) == TRUE

\* The check after the loop of close_app_session: what is handed out is what
\* the members' application accounts held.
SumsMatch(v, alloc) ==
  SumFunction(alloc) = SumFunctionOnSet(balance[v], DOMAIN alloc)

\* close_app_session.
CloseApplication(v, alloc, via, sigs) ==
  LET members == apps[v].members IN
  /\ apps[v].status = "open"
  /\ TotalWeight(v, sigs) >= apps[v].quorum
  /\ DOMAIN alloc = members
  /\ via \in ChannelChoices(members)
  /\ \A p \in members : alloc[p] >= 0
  /\ SumsMatch(v, alloc)
  /\ Post(ClosePosting(v, alloc, via))
  /\ apps' = [apps EXCEPT ![v].status = "closed"]
  /\ UNCHANGED channels

CreateSome(v) ==
  \E members \in SUBSET Participants :
    \E alloc \in [members -> Allocations], via \in ChannelChoices(members),
       signers \in SUBSET Participants, weight \in [Participants -> Weights],
       quorum \in Quorums :
         CreateApplication(v, alloc, via, signers, weight, quorum)

CloseSome(v) ==
  \E alloc \in [apps[v].members -> Allocations], via \in ChannelChoices(apps[v].members),
     sigs \in [Participants -> 0..MaxSignatures] :
       CloseApplication(v, alloc, via, sigs)
=============================================================================

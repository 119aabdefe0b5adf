---------------------------- MODULE BrokerProofs ----------------------------
(***************************************************************************)
(* The safety invariants of Broker hold for every set of participants,     *)
(* channels, networks and applications, every bound and every input, and   *)
(* with every fault that Broker has.                                       *)
(*                                                                         *)
(* NoOverdraft, FundsBelong and ClosedChannelEmpty are not inductive by    *)
(* themselves: a credit is recorded by a handler that has read its channel *)
(* from an event some steps before, so the proof carries where events come *)
(* from (EventsKnown) and what a handler in the middle of the Created      *)
(* branch may still rely on (HandlerOwnsRow).                              *)
(*                                                                         *)
(* The second part is about a broker without faults: there the rows follow *)
(* the contract (MirrorsChain), and for clients that settle one thing at a *)
(* time a close pays what the journal owes (CloseSettlesBalance).          *)
(*                                                                         *)
(* The third part adds the journal up, with the lemmas on sums of          *)
(* DataTheorems: applications conserve it (AppsConserve), deposits back it *)
(* (LedgerBacked), and without faults it is what the contract holds and    *)
(* what the broker took out (Solvent).                                     *)
(*                                                                         *)
(* CloseSettlesBalance and Solvent ask the clients for a discipline that   *)
(* the code does not enforce; what it gives to clients of any kind, with   *)
(* every fault, is StaleByOwner: only an application of its owner makes a  *)
(* signed close stale.                                                     *)
(*                                                                         *)
(* The last part is the refinement: with every fault, the broker           *)
(* implements BrokerPromise (PromiseKept).                                 *)
(***************************************************************************)
EXTENDS Broker, DataTheorems

\* Every event a listener of a network has waiting was emitted there, and is
\* about a channel of that network.
EventsKnown ==
  \A n \in Networks :
    /\ \A e \in emitted[n] : NetworkOf[e.chan] = n
    /\ \A i \in 1..Len(events[n]) : events[n][i] \in emitted[n]

\* Between the insert of a row and its credit the row stays "joining".
HandlerOwnsRow ==
  \A n \in Networks :
    handler[n] # Idle =>
      /\ channels[handler[n].chan].status = "joining"
      /\ NetworkOf[handler[n].chan] = n

Wiring == EventsKnown /\ HandlerOwnsRow

Money == NoOverdraft /\ FundsBelong /\ ClosedChannelEmpty

IInv == TypeOK /\ Wiring /\ Money

-----------------------------------------------------------------------------
(* What the writes to the journal do.                                      *)

\* Posting to the journal keeps its type and moves every balance by the amount
\* posted (ledger.go Record, through Post).
LEMMA PostEffect ==
  ASSUME balance \in Postings, NEW posting \in Postings, Post(posting)
  PROVE  /\ balance' \in Postings
         /\ \A x \in Accounts, p \in Participants :
              balance'[x][p] = balance[x][p] + posting[x][p]
BY DEF Post, Postings

\* One Record moves one balance.
LEMMA RecordEffect ==
  ASSUME balance \in Postings, NEW account, NEW p, NEW amount \in Int,
         Record(account, p, amount)
  PROVE  /\ balance' \in Postings
         /\ \A x \in Accounts, q \in Participants :
              balance'[x][q] = IF x = account /\ q = p THEN balance[x][q] + amount
                               ELSE balance[x][q]
<1> DEFINE posting == [x \in Accounts |-> [q \in Participants |->
                         IF x = account /\ q = p THEN amount ELSE 0]]
<1>1. posting \in Postings
  BY DEF Postings
<1>2. Post(posting)
  BY DEF Record
<1>3. \A x \in Accounts, q \in Participants :
        posting[x][q] = IF x = account /\ q = p THEN amount ELSE 0
  OBVIOUS
<1>4. \A x \in Accounts, q \in Participants : balance[x][q] \in Int
  BY DEF Postings
<1> HIDE DEF posting
<1> QED BY <1>1, <1>2, <1>3, <1>4, PostEffect

\* create_app_session: each member's allocation leaves the channel account the
\* handler chose and arrives on the application account.
LEMMA CreateEffect ==
  ASSUME TypeOK, NEW v \in AppIds, NEW members \in SUBSET Participants,
         NEW alloc \in [members -> Allocations], NEW via \in ChannelChoices(members),
         Post(CreatePosting(v, alloc, via))
  PROVE  /\ balance' \in Postings
         /\ \A x \in Accounts, p \in Participants :
              balance'[x][p] = IF p \notin members THEN balance[x][p]
                               ELSE IF x = v THEN balance[x][p] + alloc[p]
                               ELSE IF x = via[p] THEN balance[x][p] - alloc[p]
                               ELSE balance[x][p]
<1> DEFINE posting == CreatePosting(v, alloc, via)
<1>1. \A p \in members : alloc[p] \in Int
  BY AppInputsAssumption
<1>2. \A x \in Accounts, p \in Participants :
        posting[x][p] = IF p \notin members THEN 0
                        ELSE IF x = v THEN alloc[p]
                        ELSE IF x = via[p] THEN -alloc[p]
                        ELSE 0
  BY DEF CreatePosting
<1>3. posting \in Postings
  BY <1>1 DEF CreatePosting, Postings
<1>4. \A x \in Accounts, p \in Participants : balance[x][p] \in Int
  BY DEF TypeOK, DBTypeOK, Postings
<1>5. balance \in Postings /\ Post(posting)
  BY DEF TypeOK, DBTypeOK
<1> HIDE DEF posting
<1> QED BY <1>1, <1>2, <1>3, <1>4, <1>5, PostEffect

\* close_app_session: each member's application account is emptied and his
\* allocation arrives on the channel account the handler chose.
LEMMA CloseEffect ==
  ASSUME TypeOK, NEW v \in AppIds, NEW members \in SUBSET Participants,
         NEW alloc \in [members -> Allocations], NEW via \in ChannelChoices(members),
         Post(ClosePosting(v, alloc, via))
  PROVE  /\ balance' \in Postings
         /\ \A x \in Accounts, p \in Participants :
              balance'[x][p] = IF p \notin members THEN balance[x][p]
                               ELSE IF x = v THEN 0
                               ELSE IF x = via[p] THEN balance[x][p] + alloc[p]
                               ELSE balance[x][p]
<1> DEFINE posting == ClosePosting(v, alloc, via)
<1>1. \A p \in members : alloc[p] \in Int
  BY AppInputsAssumption
<1>2. \A x \in Accounts, p \in Participants : balance[x][p] \in Int
  BY DEF TypeOK, DBTypeOK, Postings
<1>3. v \in Accounts
  BY DEF Accounts
<1>4. \A x \in Accounts, p \in Participants :
        posting[x][p] = IF p \notin members THEN 0
                        ELSE IF x = v THEN -balance[v][p]
                        ELSE IF x = via[p] THEN alloc[p]
                        ELSE 0
  BY DEF ClosePosting
<1>5. posting \in Postings
  BY <1>1, <1>2, <1>3 DEF ClosePosting, Postings
<1>6. balance \in Postings /\ Post(posting)
  BY DEF TypeOK, DBTypeOK
<1> HIDE DEF posting
<1> QED BY <1>1, <1>2, <1>3, <1>4, <1>5, <1>6, PostEffect

\* The channel account chosen for a member is one of his own, and open.
LEMMA ChosenChannel ==
  ASSUME NEW members, NEW via \in ChannelChoices(members), NEW p \in members
  PROVE  /\ via[p] \in ChannelIds
         /\ Owner[via[p]] = p
         /\ channels[via[p]].status = "open"
BY DEF ChannelChoices, ParticipantChannels, OpenChannels

-----------------------------------------------------------------------------
(* Type correctness.                                                       *)

\* A log of the contract keeps the types of the logs and of the listeners.
LEMMA EmitTypes ==
  ASSUME CustodyTypeOK, NEW n \in Networks, NEW e \in Events, Emit(n, e)
  PROVE  /\ emitted' \in [Networks -> SUBSET Events]
         /\ events' \in [Networks -> Seq(Events)]
         /\ subscribed' \in [Networks -> BOOLEAN]
         /\ handler' \in [Networks -> HandlerStates]
BY DEF Emit, CustodyTypeOK

\* Every step of the contract keeps the types.
LEMMA ChainTypes == TypeOK /\ ChainStep => TypeOK'
<1> SUFFICES ASSUME TypeOK, ChainStep PROVE TypeOK'
  OBVIOUS
<1> USE DEF TypeOK, CustodyTypeOK
<1>1. DBTypeOK' /\ SettlementTypeOK'
  BY DEF ChainStep, ChainCreate, ChainJoin, ChainResize, ChainClose, dbVars,
         DBTypeOK, SettlementTypeOK, Postings, Accounts
<1>2. ASSUME NEW c \in ChannelIds, NEW amount \in Deposits, ChainCreate(c, amount)
      PROVE  CustodyTypeOK'
  <2>1. amount \in Nat /\ Owner[c] \in Parties /\ NetworkOf[c] \in Networks
    BY IdsAssumption, CustodyAssumption DEF Parties
  <2>2. [type |-> "Created", chan |-> c, amount |-> amount] \in Events
    BY <2>1 DEF Events
  <2>3. chain' \in [ChannelIds -> ContractRecord]
    <3>0. chain[c] \in ContractRecord /\ amount \in Int
      BY <2>1
    <3>1. [chain[c] EXCEPT !.status = "initial", !.amount = amount] \in ContractRecord
      BY ONLY <3>0 DEF ContractRecord
    <3>2. chain' = [chain EXCEPT ![c] = [chain[c] EXCEPT !.status = "initial", !.amount = amount]]
      BY <1>2 DEF ChainCreate
    <3> QED BY <3>1, <3>2
  <2>4. available' \in [Parties -> Int] /\ signed' \subseteq SignedStates
    BY <1>2, <2>1 DEF ChainCreate
  <2> QED BY <1>2, <2>1, <2>2, <2>3, <2>4, EmitTypes DEF ChainCreate
<1>3. ASSUME NEW c \in ChannelIds, ChainJoin(c)
      PROVE  CustodyTypeOK'
  <2>1. NetworkOf[c] \in Networks
    BY IdsAssumption
  <2>2. [type |-> "Joined", chan |-> c] \in Events
    BY DEF Events
  <2>3. chain' \in [ChannelIds -> ContractRecord]
    BY <1>3 DEF ChainJoin, ContractRecord
  <2>4. available' \in [Parties -> Int] /\ signed' \subseteq SignedStates
    BY <1>3 DEF ChainJoin
  <2> QED BY <1>3, <2>1, <2>2, <2>3, <2>4, EmitTypes DEF ChainJoin
<1>4. ASSUME NEW s \in signed, ChainResize(s) \/ ChainClose(s)
      PROVE  CustodyTypeOK'
  <2>1. s \in SignedStates
    OBVIOUS
  <2>2. /\ s.chan \in ChannelIds /\ s.version \in Nat /\ s.user \in Int /\ s.broker \in Int
        /\ s.addUser \in Int /\ s.addBroker \in Int
    BY <2>1 DEF SignedStates
  <2>3. Owner[s.chan] \in Parties /\ Broker \in Parties /\ NetworkOf[s.chan] \in Networks
    BY <2>2, IdsAssumption DEF Parties
  <2>4. /\ [type |-> "Resized", chan |-> s.chan, delta |-> s.addUser + s.addBroker] \in Events
        /\ [type |-> "Closed", chan |-> s.chan, user |-> s.user] \in Events
    BY <2>2 DEF Events
  <2>5. chain' \in [ChannelIds -> ContractRecord]
    <3>1. PICK status \in {"active", "final"} : Settle(s, status)
      BY <1>4 DEF ChainResize, ChainClose
    <3> DEFINE left == IF status = "final" THEN 0 ELSE s.user + s.broker
               new == [chain[s.chan] EXCEPT !.status = status, !.version = s.version,
                                            !.amount = left]
    <3>2. left \in Int
      BY <2>2
    <3>3. new \in ContractRecord
      <4> HIDE DEF left
      <4> QED BY ZenonT(60), <2>2, <3>2 DEF ContractRecord
    <3>4. chain' = [chain EXCEPT ![s.chan] = new]
      BY <3>1 DEF Settle
    <3> QED BY <2>2, <3>3, <3>4
  <2>6. available' \in [Parties -> Int] /\ signed' \subseteq SignedStates
    <3>1. CASE ChainResize(s)
      BY <2>2, <2>3, <3>1 DEF ChainResize
    <3>2. CASE ChainClose(s)
      BY <2>2, <2>3, <3>2 DEF ChainClose
    <3> QED BY <1>4, <3>1, <3>2
  <2> QED BY <1>4, <2>3, <2>4, <2>5, <2>6, EmitTypes DEF ChainResize, ChainClose
<1> QED BY <1>1, <1>2, <1>3, <1>4 DEF ChainStep

\* Taking an event off a listener's channel.
LEMMA ReceivesTypes ==
  ASSUME CustodyTypeOK, NEW n \in Networks, events[n] # <<>>, Receives(n, Head(events[n]))
  PROVE  /\ Head(events[n]) \in Events
         /\ events' \in [Networks -> Seq(Events)]
         /\ events' = [events EXCEPT ![n] = Tail(@)]
         /\ chain' \in [ChannelIds -> ContractRecord]
         /\ available' \in [Parties -> Int]
         /\ signed' \subseteq SignedStates
         /\ emitted' \in [Networks -> SUBSET Events]
         /\ subscribed' \in [Networks -> BOOLEAN]
BY DEF Receives, CustodyTypeOK, chainVars

\* Every event the handler takes keeps the types.
LEMMA HandleEventTypes ==
  ASSUME TypeOK, NEW n \in Networks, HandleEvent(n), UNCHANGED settling
  PROVE  TypeOK'
<1> DEFINE e == Head(events[n])
<1>0. /\ events[n] # <<>>
      /\ \/ HandleCreated(n, e) \/ HandleJoined(n, e) \/ HandleClosed(n, e)
         \/ HandleResized(n, e) \/ IgnoreEvent(n, e)
  BY DEF HandleEvent
<1>1. CustodyTypeOK /\ DBTypeOK
  BY DEF TypeOK
<1>2. Receives(n, e)
  BY <1>0 DEF HandleCreated, HandleJoined, HandleClosed, HandleResized, IgnoreEvent
<1>3. e \in Events
  BY <1>0, <1>1, <1>2, ReceivesTypes
<1>4. e.chan \in ChannelIds /\ Owner[e.chan] \in Participants
  BY <1>3, IdsAssumption DEF Events
<1> HIDE DEF e
<1>5. handler' \in [Networks -> HandlerStates]
  <2>1. CASE HandleCreated(n, e)
    <3>1. e.amount \in Nat
      BY <1>3, <2>1 DEF HandleCreated, Events
    <3>2. [step |-> "join", chan |-> e.chan, amount |-> e.amount] \in HandlerStates
      BY <1>4, <3>1 DEF HandlerStates
    <3> QED BY <1>1, <2>1, <3>2 DEF HandleCreated, CustodyTypeOK
  <2>2. CASE ~HandleCreated(n, e)
    BY <1>0, <1>1, <2>2 DEF HandleJoined, HandleClosed, HandleResized, IgnoreEvent, CustodyTypeOK, e
  <2> QED BY <2>1, <2>2
<1>6. CustodyTypeOK'
  <2>1. Receives(n, Head(events[n]))
    BY <1>2 DEF e
  <2> QED BY <1>0, <1>1, <1>5, <2>1, ReceivesTypes DEF CustodyTypeOK
<1>7. DBTypeOK'
  <2>1. CASE HandleCreated(n, e)
    <3>1. e.amount \in Nat
      BY <1>3, <2>1 DEF HandleCreated, Events
    <3> QED BY <1>1, <1>4, <2>1, <3>1 DEF HandleCreated, DBTypeOK, ChannelRow
  <2>2. CASE HandleJoined(n, e)
    BY <1>1, <1>4, <2>2 DEF HandleJoined, DBTypeOK, ChannelRow
  <2>3. CASE HandleClosed(n, e)
    <3>1. balance[e.chan][Owner[e.chan]] \in Int
      BY <1>1, <1>4 DEF DBTypeOK, Postings, Accounts
    <3>2. balance' \in Postings
      BY <1>1, <2>3, <3>1, RecordEffect DEF HandleClosed, DBTypeOK
    <3>3. channels' \in [ChannelIds -> ChannelRow]
      BY <1>1, <1>4, <2>3 DEF HandleClosed, DBTypeOK, ChannelRow
    <3> QED BY <1>1, <2>3, <3>2, <3>3 DEF HandleClosed, DBTypeOK
  <2>4. CASE HandleResized(n, e)
    <3>1. e.delta \in Int
      BY <1>3, <2>4 DEF HandleResized, Events
    <3> QED BY <1>1, <1>4, <2>4, <3>1 DEF HandleResized, DBTypeOK, ChannelRow
  <2>5. CASE IgnoreEvent(n, e)
    BY <1>1, <2>5 DEF IgnoreEvent, dbVars, DBTypeOK
  <2> QED BY <1>0, <2>1, <2>2, <2>3, <2>4, <2>5 DEF e
<1> QED BY <1>6, <1>7 DEF TypeOK, SettlementTypeOK

\* A handler in the middle of the Created branch knows a channel and an amount.
LEMMA HandlerBusy ==
  ASSUME TypeOK, NEW n \in Networks, handler[n].step \in {"join", "record"}
  PROVE  /\ handler[n] # Idle
         /\ handler[n].chan \in ChannelIds
         /\ handler[n].amount \in Nat
         /\ Owner[handler[n].chan] \in Participants
BY IdsAssumption DEF TypeOK, CustodyTypeOK, HandlerStates, Idle

\* The later steps of the Created branch keep the types.
LEMMA CreatedStepTypes ==
  ASSUME TypeOK, NEW n \in Networks, CreatedStep(n), UNCHANGED settling
  PROVE  TypeOK'
<1> USE DEF TypeOK, SettlementTypeOK
<1>1. CASE JoinSucceeds(n)
  <2>1. /\ handler[n].step = "join"
        /\ handler[n].chan \in ChannelIds /\ handler[n].amount \in Nat
    BY <1>1, HandlerBusy DEF JoinSucceeds
  <2>2. chain' \in [ChannelIds -> ContractRecord]
    BY <1>1, <2>1 DEF JoinSucceeds, CustodyTypeOK, ContractRecord
  <2>3. [handler[n] EXCEPT !.step = "record"] \in HandlerStates
    <3> DEFINE Busy == [step : {"join", "record"}, chan : ChannelIds, amount : Nat]
    <3>1. handler[n] \in Busy
      BY <2>1 DEF CustodyTypeOK, HandlerStates, Idle
    <3>2. [handler[n] EXCEPT !.step = "record"] \in Busy
      BY ONLY <3>1
    <3> QED BY <3>2 DEF HandlerStates
  <2>4. handler' \in [Networks -> HandlerStates]
    BY <1>1, <2>3 DEF JoinSucceeds, CustodyTypeOK
  <2> QED BY <1>1, <2>2, <2>4 DEF JoinSucceeds, CustodyTypeOK, DBTypeOK, dbVars
<1>2. CASE RecordCredit(n)
  <2>1. /\ handler[n].step = "record"
        /\ handler[n].chan \in ChannelIds /\ handler[n].amount \in Nat
    BY <1>2, HandlerBusy DEF RecordCredit
  <2>2. balance' \in Postings
    BY <1>2, <2>1, RecordEffect DEF RecordCredit, DBTypeOK
  <2>3. handler' \in [Networks -> HandlerStates]
    BY <1>2 DEF RecordCredit, CustodyTypeOK, HandlerStates
  <2> QED BY <1>2, <2>2, <2>3 DEF RecordCredit, CustodyTypeOK, DBTypeOK, chainVars
<1> QED BY <1>1, <1>2 DEF CreatedStep

\* Creating or closing an application keeps the types.
LEMMA AppTypes ==
  ASSUME TypeOK, NEW v \in AppIds, AppStep(v)
  PROVE  TypeOK'
<1>1. SUFFICES DBTypeOK'
  BY DEF AppStep, TypeOK, custodyVars, chainVars, listenerVars, CustodyTypeOK, SettlementTypeOK
<1>2. CASE CreateSome(v)
  <2>0. PICK members \in SUBSET Participants :
          \E alloc \in [members -> Allocations], via \in ChannelChoices(members),
             signers \in SUBSET Participants, weight \in [Participants -> Weights],
             quorum \in Quorums : CreateApplication(v, alloc, via, signers, weight, quorum)
    BY <1>2 DEF CreateSome
  <2>1. PICK alloc \in [members -> Allocations],
             via \in ChannelChoices(members), signers \in SUBSET Participants,
             weight \in [Participants -> Weights], quorum \in Quorums :
               CreateApplication(v, alloc, via, signers, weight, quorum)
    BY <2>0
  <2>2. balance' \in Postings
    BY <2>1, CreateEffect DEF CreateApplication
  <2>3. [status |-> "open", members |-> DOMAIN alloc, weight |-> weight,
         quorum |-> StoredQuorum(quorum)] \in AppRow
    <3>1. StoredQuorum(quorum) \in Int /\ DOMAIN alloc = members
      BY AppInputsAssumption DEF StoredQuorum
    <3>2. weight \in [Participants -> Int]
      BY AppInputsAssumption
    <3> QED BY <3>1, <3>2 DEF AppRow
  <2> QED BY <2>1, <2>2, <2>3 DEF CreateApplication, TypeOK, DBTypeOK
<1>3. CASE CloseSome(v)
  <2>0. apps[v] \in AppRow /\ apps[v].members \in SUBSET Participants
    BY DEF TypeOK, DBTypeOK, AppRow
  <2>1. PICK alloc \in [apps[v].members -> Allocations],
             via \in ChannelChoices(apps[v].members),
             sigs \in [Participants -> 0..MaxSignatures] :
               CloseApplication(v, alloc, via, sigs)
    BY <1>3 DEF CloseSome
  <2>2. balance' \in Postings
    BY <2>0, <2>1, CloseEffect DEF CloseApplication
  <2>3. [apps[v] EXCEPT !.status = "closed"] \in AppRow
    BY <2>0 DEF AppRow
  <2> QED BY <2>1, <2>2, <2>3 DEF CloseApplication, TypeOK, DBTypeOK
<1> QED BY <1>2, <1>3 DEF AppStep

\* Reading, signing and refusing keep the types.
LEMMA SettleTypes ==
  ASSUME TypeOK, NEW c \in ChannelIds, SettleStep(c)
  PROVE  TypeOK'
<1> USE DEF TypeOK
<1>1. CASE ReadSome(c)
  <2>1. PICK kind \in {"resize", "close"}, change \in Int : ReadChannel(c, kind, change)
    BY <1>1, SettlementAssumption DEF ReadSome
  <2>2. channels[c].amount \in Int /\ channels[c].version \in Nat
    BY DEF DBTypeOK, ChannelRow
  <2>3. [kind |-> kind, change |-> change, amount |-> channels[c].amount,
         version |-> channels[c].version] \in Requests
    BY <2>2 DEF Requests
  <2> QED BY <2>1, <2>3 DEF ReadChannel, custodyVars, chainVars, listenerVars, dbVars,
                            DBTypeOK, CustodyTypeOK, SettlementTypeOK
<1>2. CASE SignResize(c) \/ SignClose(c) \/ RefuseSettlement(c)
  <2> DEFINE bal == balance[c][Owner[c]]
             req == settling[c]
  <2>1. bal \in Int
    BY IdsAssumption DEF DBTypeOK, Postings, Accounts
  <2>2. settling' \in [ChannelIds -> Requests]
    BY <1>2 DEF SignResize, SignClose, RefuseSettlement, Reply, SettlementTypeOK, Requests
  <2>3. ASSUME req.kind \in {"resize", "close"}
        PROVE  /\ ResizeState(c, req, bal) \in SignedStates
               /\ CloseState(c, req, bal) \in SignedStates
    <3>1. req.change \in Int /\ req.amount \in Int /\ req.version \in Nat
      BY <2>3 DEF SettlementTypeOK, Requests, NoRequest
    <3> HIDE DEF bal, req
    <3> QED BY <2>1, <3>1 DEF ResizeState, CloseState, SignedStates
  <2>4. signed' \subseteq SignedStates
    BY <1>2, <2>3 DEF SignResize, SignClose, RefuseSettlement, CustodyTypeOK
  <2> QED BY <1>2, <2>2, <2>4 DEF SignResize, SignClose, RefuseSettlement, Reply, chainVars,
             listenerVars, dbVars, DBTypeOK, CustodyTypeOK, SettlementTypeOK
<1> QED BY <1>1, <1>2 DEF SettleStep

\* Every fault keeps the types.
LEMMA FaultTypes == TypeOK /\ FaultStep => TypeOK'
<1> SUFFICES ASSUME TypeOK, FaultStep PROVE TypeOK'
  OBVIOUS
<1> USE DEF TypeOK
<1>1. CASE Crash
  BY <1>1 DEF Crash, dbVars, chainVars, DBTypeOK, CustodyTypeOK, SettlementTypeOK,
              HandlerStates, Requests
<1>2. ASSUME NEW n \in Networks,
             JoinFails(n) \/ Subscribe(n) \/ SubscriptionFails(n),
             UNCHANGED settling
      PROVE  TypeOK'
  <2>1. DBTypeOK' /\ SettlementTypeOK'
    BY <1>2 DEF JoinFails, Subscribe, SubscriptionFails, dbVars, DBTypeOK, SettlementTypeOK
  <2>2. Idle \in HandlerStates /\ <<>> \in Seq(Events)
    BY DEF HandlerStates
  <2>3. CASE JoinFails(n)
    BY <2>1, <2>2, <2>3 DEF JoinFails, chainVars, CustodyTypeOK
  <2>4. CASE Subscribe(n)
    BY <2>1, <2>4 DEF Subscribe, chainVars, CustodyTypeOK
  <2>5. CASE SubscriptionFails(n)
    BY <2>1, <2>2, <2>5 DEF SubscriptionFails, chainVars, CustodyTypeOK
  <2> QED BY <1>2, <2>3, <2>4, <2>5
<1>3. ASSUME NEW n \in Networks, LogRepeats(n), UNCHANGED settling
      PROVE  TypeOK'
  <2>1. PICK e \in emitted[n] : events' = [events EXCEPT ![n] = Append(@, e)]
    BY <1>3 DEF LogRepeats
  <2>2. e \in Events
    BY <2>1 DEF CustodyTypeOK
  <2>3. events' \in [Networks -> Seq(Events)]
    BY <2>1, <2>2 DEF CustodyTypeOK
  <2> QED BY <1>3, <2>3 DEF LogRepeats, dbVars, chainVars, DBTypeOK, CustodyTypeOK,
                            SettlementTypeOK
<1> QED BY <1>1, <1>2, <1>3 DEF FaultStep

\* Every step keeps the types.
LEMMA NextTypes == TypeOK /\ [Next]_vars => TypeOK'
<1> SUFFICES ASSUME TypeOK, [Next]_vars PROVE TypeOK'
  OBVIOUS
<1>1. CASE ReliableNext
  <2>1. CASE ChainStep
    BY <2>1, ChainTypes
  <2>2. CASE ListenerStep
    BY <2>2, HandleEventTypes, CreatedStepTypes DEF ListenerStep
  <2>3. CASE \E v \in AppIds : AppStep(v)
    BY <2>3, AppTypes
  <2>4. CASE \E c \in ChannelIds : SettleStep(c)
    BY <2>4, SettleTypes
  <2> QED BY <1>1, <2>1, <2>2, <2>3, <2>4 DEF ReliableNext
<1>2. CASE FaultStep
  BY <1>2, FaultTypes
<1>3. CASE UNCHANGED vars
  BY <1>3 DEF vars, dbVars, custodyVars, chainVars, listenerVars, TypeOK, DBTypeOK,
              CustodyTypeOK, SettlementTypeOK
<1> QED BY <1>1, <1>2, <1>3 DEF Next

\* The initial states have the types.
LEMMA InitTypes == Init => TypeOK
<1> SUFFICES ASSUME Init PROVE TypeOK
  OBVIOUS
<1>1. DBTypeOK
  BY DEF Init, DBInit, DBTypeOK, ChannelRow, AppRow, Postings
<1>2. CustodyTypeOK
  BY CustodyAssumption DEF Init, CustodyInit, CustodyTypeOK, ContractRecord, HandlerStates
<1>3. SettlementTypeOK
  BY DEF Init, SettlementInit, SettlementTypeOK, Requests
<1> QED BY <1>1, <1>2, <1>3 DEF TypeOK

\* Every reachable state of the broker, its listeners and the contract has the
\* declared types: no row, balance, event or signed state ever gets a value the
\* code could not hold.
THEOREM TypeCorrect == Spec => []TypeOK
BY InitTypes, NextTypes, PTL DEF Spec

-----------------------------------------------------------------------------
(* Where events come from, and what a busy handler may rely on.            *)

\* A log about a channel of its network keeps EventsKnown.
LEMMA EmitKnown ==
  ASSUME TypeOK, EventsKnown, NEW n \in Networks, NEW e \in Events, NetworkOf[e.chan] = n,
         Emit(n, e)
  PROVE  EventsKnown'
<1> SUFFICES ASSUME NEW m \in Networks
             PROVE  /\ \A f \in emitted'[m] : NetworkOf[f.chan] = m
                    /\ \A i \in 1..Len(events'[m]) : events'[m][i] \in emitted'[m]
  BY DEF EventsKnown
<1>1. /\ emitted' = [emitted EXCEPT ![n] = @ \cup {e}]
      /\ events' = [events EXCEPT ![n] = Append(@, e)] \/ events' = events
  BY DEF Emit
<1>2. events[m] \in Seq(Events) /\ emitted \in [Networks -> SUBSET Events]
      /\ events \in [Networks -> Seq(Events)]
  BY DEF TypeOK, CustodyTypeOK
<1>3. CASE m = n
  <2>1. emitted'[m] = emitted[m] \cup {e}
    BY <1>1, <1>2, <1>3
  <2>2. \A i \in 1..Len(events[m]) : events[m][i] \in emitted'[m]
    BY <2>1 DEF EventsKnown
  <2>3. CASE events' = [events EXCEPT ![n] = Append(@, e)]
    <3>1. events'[m] = Append(events[m], e)
      BY <1>2, <1>3, <2>3
    <3>2. \A i \in 1..Len(events'[m]) :
            events'[m][i] = IF i = Len(events[m]) + 1 THEN e ELSE events[m][i]
      BY <1>2, <3>1
    <3>3. Len(events'[m]) = Len(events[m]) + 1 /\ Len(events[m]) \in Nat
      BY <1>2, <3>1
    <3> QED BY <1>3, <2>1, <2>2, <3>2, <3>3 DEF EventsKnown
  <2>4. CASE events' = events
    BY <1>3, <2>1, <2>2, <2>4 DEF EventsKnown
  <2> QED BY <1>1, <2>3, <2>4
<1>4. CASE m # n
  BY <1>1, <1>2, <1>4 DEF EventsKnown
<1> QED BY <1>3, <1>4

\* The events of a listener lose their first element.
LEMMA TailKnown ==
  ASSUME TypeOK, EventsKnown, NEW n \in Networks, events[n] # <<>>,
         events' = [events EXCEPT ![n] = Tail(@)], UNCHANGED emitted
  PROVE  EventsKnown'
<1> SUFFICES ASSUME NEW m \in Networks, NEW i \in 1..Len(events'[m])
             PROVE  events'[m][i] \in emitted[m]
  BY DEF EventsKnown
<1>1. events \in [Networks -> Seq(Events)]
  BY DEF TypeOK, CustodyTypeOK
<1>2. CASE m = n
  <2>1. /\ events'[m] = Tail(events[m]) /\ Len(events'[m]) = Len(events[m]) - 1
        /\ events'[m][i] = events[m][i + 1]
    BY <1>1, <1>2
  <2>2. i + 1 \in 1..Len(events[m])
    BY <1>1, <2>1
  <2> QED BY <2>1, <2>2 DEF EventsKnown
<1>3. CASE m # n
  BY <1>1, <1>3 DEF EventsKnown
<1> QED BY <1>2, <1>3

\* The event a listener takes is about a channel of its network.
LEMMA HeadKnown ==
  ASSUME TypeOK, EventsKnown, NEW n \in Networks, events[n] # <<>>
  PROVE  /\ Head(events[n]) \in Events
         /\ Head(events[n]).chan \in ChannelIds
         /\ NetworkOf[Head(events[n]).chan] = n
<1>1. events[n] \in Seq(Events) /\ emitted[n] \subseteq Events
  BY DEF TypeOK, CustodyTypeOK
<1>2. 1 \in 1..Len(events[n]) /\ Head(events[n]) = events[n][1]
  BY <1>1
<1>3. Head(events[n]) \in emitted[n]
  BY <1>2 DEF EventsKnown
<1> QED BY <1>1, <1>3 DEF EventsKnown, Events

\* Steps of the contract.
LEMMA ChainWiring == TypeOK /\ Wiring /\ ChainStep => Wiring'
<1> SUFFICES ASSUME TypeOK, Wiring, ChainStep PROVE Wiring'
  OBVIOUS
<1>1. HandlerOwnsRow'
  BY DEF ChainStep, ChainCreate, ChainJoin, ChainResize, ChainClose, Emit, dbVars, Wiring,
         HandlerOwnsRow
<1>2. PICK c \in ChannelIds, e \in Events : e.chan = c /\ Emit(NetworkOf[c], e)
  <2>1. ASSUME NEW c \in ChannelIds, NEW amount \in Deposits, ChainCreate(c, amount)
        PROVE  \E e \in Events : e.chan = c /\ Emit(NetworkOf[c], e)
    <3>1. [type |-> "Created", chan |-> c, amount |-> amount] \in Events
      BY CustodyAssumption DEF Events
    <3> QED BY <2>1, <3>1 DEF ChainCreate
  <2>2. ASSUME NEW c \in ChannelIds, ChainJoin(c)
        PROVE  \E e \in Events : e.chan = c /\ Emit(NetworkOf[c], e)
    <3>1. [type |-> "Joined", chan |-> c] \in Events
      BY DEF Events
    <3> QED BY <2>2, <3>1 DEF ChainJoin
  <2>3. ASSUME NEW s \in signed, ChainResize(s) \/ ChainClose(s)
        PROVE  \E c \in ChannelIds, e \in Events : e.chan = c /\ Emit(NetworkOf[c], e)
    <3>1. s.chan \in ChannelIds /\ s.user \in Int /\ s.addUser + s.addBroker \in Int
      BY DEF TypeOK, CustodyTypeOK, SignedStates
    <3>2. /\ [type |-> "Resized", chan |-> s.chan, delta |-> s.addUser + s.addBroker] \in Events
          /\ [type |-> "Closed", chan |-> s.chan, user |-> s.user] \in Events
      BY <3>1 DEF Events
    <3> QED BY <2>3, <3>1, <3>2 DEF ChainResize, ChainClose
  <2> QED BY <2>1, <2>2, <2>3 DEF ChainStep
<1>3. EventsKnown'
  <2>1. NetworkOf[c] \in Networks
    BY IdsAssumption
  <2> QED BY <1>2, <2>1, EmitKnown DEF Wiring
<1> QED BY <1>1, <1>3 DEF Wiring

\* Steps of the listeners: only the listener of a network touches the rows of
\* its channels, and it is busy with one event at a time.
LEMMA ListenerWiring ==
  ASSUME TypeOK, Wiring, NEW n \in Networks, HandleEvent(n) \/ CreatedStep(n)
  PROVE  Wiring'
<1>1. CASE HandleEvent(n)
  <2> DEFINE e == Head(events[n])
  <2>1. /\ events[n] # <<>>
        /\ \/ HandleCreated(n, e) \/ HandleJoined(n, e) \/ HandleClosed(n, e)
           \/ HandleResized(n, e) \/ IgnoreEvent(n, e)
    BY <1>1 DEF HandleEvent
  <2>2. Receives(n, e)
    BY <2>1 DEF HandleCreated, HandleJoined, HandleClosed, HandleResized, IgnoreEvent
  <2>3. e \in Events /\ e.chan \in ChannelIds /\ NetworkOf[e.chan] = n
    BY <2>1, HeadKnown DEF Wiring
  <2>4. EventsKnown'
    BY <2>1, <2>2, TailKnown DEF Receives, chainVars, Wiring
  <2> HIDE DEF e
  <2>5. ASSUME NEW m \in Networks, handler'[m] # Idle
        PROVE  channels'[handler'[m].chan].status = "joining" /\ NetworkOf[handler'[m].chan] = m
    <3>1. handler[n] = Idle
      BY <2>2 DEF Receives
    <3>2. channels \in [ChannelIds -> ChannelRow] /\ handler \in [Networks -> HandlerStates]
      BY DEF TypeOK, DBTypeOK, CustodyTypeOK
    <3>3. CASE m = n
      <4>1. HandleCreated(n, e)
        BY <2>1, <2>5, <3>1, <3>3
           DEF HandleJoined, HandleClosed, HandleResized, IgnoreEvent, e
      <4> QED BY <2>3, <3>2, <3>3, <4>1 DEF HandleCreated
    <3>4. CASE m # n
      <4>1. handler'[m] = handler[m]
        BY <2>1, <3>2, <3>4
           DEF HandleCreated, HandleJoined, HandleClosed, HandleResized, IgnoreEvent, e
      <4>2. /\ channels[handler[m].chan].status = "joining"
            /\ NetworkOf[handler[m].chan] = m
        BY <2>5, <4>1 DEF Wiring, HandlerOwnsRow
      <4>3. handler[m].chan # e.chan
        BY <2>3, <3>4, <4>2
      <4>4. handler[m].chan \in ChannelIds
        BY <2>5, <3>2, <4>1 DEF HandlerStates
      <4>5. \A c \in ChannelIds \ {e.chan} : channels'[c] = channels[c]
        <5>1. CASE HandleCreated(n, e)
          BY <3>2, <5>1 DEF HandleCreated
        <5>2. CASE HandleJoined(n, e)
          BY <3>2, <5>2 DEF HandleJoined
        <5>3. CASE HandleClosed(n, e)
          BY <3>2, <5>3 DEF HandleClosed
        <5>4. CASE HandleResized(n, e)
          BY <3>2, <5>4 DEF HandleResized
        <5>5. CASE IgnoreEvent(n, e)
          BY <5>5 DEF IgnoreEvent, dbVars
        <5> QED BY <2>1, <5>1, <5>2, <5>3, <5>4, <5>5 DEF e
      <4> QED BY <4>1, <4>2, <4>3, <4>4, <4>5
    <3> QED BY <3>3, <3>4
  <2>6. HandlerOwnsRow'
    BY <2>5 DEF HandlerOwnsRow
  <2> QED BY <2>4, <2>6 DEF Wiring
<1>2. CASE CreatedStep(n)
  <2>1. EventsKnown'
    BY <1>2 DEF CreatedStep, JoinSucceeds, RecordCredit, chainVars, Wiring, EventsKnown
  <2>2. HandlerOwnsRow'
    <3>1. handler \in [Networks -> HandlerStates] /\ UNCHANGED channels
      BY <1>2 DEF CreatedStep, JoinSucceeds, RecordCredit, TypeOK, CustodyTypeOK, dbVars
    <3>2. handler[n].step \in {"join", "record"} /\ handler[n] # Idle
      BY <1>2, HandlerBusy DEF CreatedStep, JoinSucceeds, RecordCredit
    <3>3. /\ handler' \in {[handler EXCEPT ![n].step = "record"], [handler EXCEPT ![n] = Idle]}
      BY <1>2 DEF CreatedStep, JoinSucceeds, RecordCredit
    <3>4. \A m \in Networks : handler'[m] # Idle => handler[m] # Idle /\ handler'[m].chan = handler[m].chan
      BY <3>1, <3>2, <3>3 DEF HandlerStates, Idle
    <3> QED BY <3>1, <3>4 DEF Wiring, HandlerOwnsRow
  <2> QED BY <2>1, <2>2 DEF Wiring
<1> QED BY <1>1, <1>2

\* The websocket handlers touch neither logs nor listeners nor channel rows.
LEMMA HandlersWiring ==
  ASSUME Wiring,
         (\E v \in AppIds : AppStep(v)) \/ (\E c \in ChannelIds : SettleStep(c))
  PROVE  Wiring'
<1>1. UNCHANGED <<events, emitted, handler, channels>>
  <2>1. ASSUME NEW v \in AppIds, AppStep(v)
        PROVE  UNCHANGED <<events, emitted, handler, channels>>
    BY <2>1 DEF AppStep, CreateSome, CloseSome, CreateApplication, CloseApplication,
                custodyVars, chainVars, listenerVars
  <2>2. ASSUME NEW c \in ChannelIds, SettleStep(c)
        PROVE  UNCHANGED <<events, emitted, handler, channels>>
    BY <2>2 DEF SettleStep, ReadSome, ReadChannel, SignResize, SignClose, RefuseSettlement,
                Reply, custodyVars, chainVars, listenerVars, dbVars
  <2> QED BY <2>1, <2>2
<1> QED BY <1>1 DEF Wiring, EventsKnown, HandlerOwnsRow

\* Faults forget events and handlers, or repeat an event that was emitted.
LEMMA FaultWiring == TypeOK /\ Wiring /\ FaultStep => Wiring'
<1> SUFFICES ASSUME TypeOK, Wiring, FaultStep PROVE Wiring'
  OBVIOUS
<1>1. CASE Crash
  BY <1>1 DEF Crash, Wiring, EventsKnown, HandlerOwnsRow, chainVars
<1>2. ASSUME NEW n \in Networks,
             JoinFails(n) \/ Subscribe(n) \/ SubscriptionFails(n)
      PROVE  Wiring'
  <2>1. handler \in [Networks -> HandlerStates] /\ events \in [Networks -> Seq(Events)]
    BY DEF TypeOK, CustodyTypeOK
  <2>2. CASE JoinFails(n)
    BY <2>1, <2>2 DEF JoinFails, Wiring, EventsKnown, HandlerOwnsRow, chainVars, dbVars
  <2>3. CASE Subscribe(n)
    BY <2>3 DEF Subscribe, Wiring, EventsKnown, HandlerOwnsRow, chainVars, dbVars
  <2>4. CASE SubscriptionFails(n)
    BY <2>1, <2>4 DEF SubscriptionFails, Wiring, EventsKnown, HandlerOwnsRow, chainVars, dbVars
  <2> QED BY <1>2, <2>2, <2>3, <2>4
<1>3. ASSUME NEW n \in Networks, LogRepeats(n)
      PROVE  Wiring'
  <2>1. PICK e \in emitted[n] : events' = [events EXCEPT ![n] = Append(@, e)]
    BY <1>3 DEF LogRepeats
  <2>2. /\ events \in [Networks -> Seq(Events)]
        /\ emitted[n] \subseteq Events /\ UNCHANGED <<emitted, handler, channels>>
    BY <1>3 DEF TypeOK, CustodyTypeOK, LogRepeats, chainVars, dbVars
  <2>3. ASSUME NEW m \in Networks, NEW i \in 1..Len(events'[m])
        PROVE  events'[m][i] \in emitted[m]
    <3>1. CASE m # n
      BY <2>1, <2>2, <3>1 DEF Wiring, EventsKnown
    <3>2. CASE m = n
      <4>1. events'[m] = Append(events[m], e) /\ events[m] \in Seq(Events)
        BY <2>1, <2>2, <3>2
      <4>2. events'[m][i] = IF i = Len(events[m]) + 1 THEN e ELSE events[m][i]
        BY <2>2, <4>1
      <4>3. i # Len(events[m]) + 1 => i \in 1..Len(events[m])
        BY <2>2, <4>1
      <4> QED BY <2>1, <3>2, <4>2, <4>3 DEF Wiring, EventsKnown
    <3> QED BY <3>1, <3>2
  <2> QED BY <2>2, <2>3 DEF Wiring, EventsKnown, HandlerOwnsRow
<1> QED BY <1>1, <1>2, <1>3 DEF FaultStep

\* Every step keeps Wiring.
LEMMA NextWiring == TypeOK /\ Wiring /\ [Next]_vars => Wiring'
<1> SUFFICES ASSUME TypeOK, Wiring, [Next]_vars PROVE Wiring'
  OBVIOUS
<1>1. CASE ChainStep
  BY <1>1, ChainWiring
<1>2. CASE ListenerStep
  BY <1>2, ListenerWiring DEF ListenerStep
<1>3. CASE (\E v \in AppIds : AppStep(v)) \/ (\E c \in ChannelIds : SettleStep(c))
  BY <1>3, HandlersWiring
<1>4. CASE FaultStep
  BY <1>4, FaultWiring
<1>5. CASE UNCHANGED vars
  BY <1>5 DEF vars, custodyVars, chainVars, listenerVars, dbVars, Wiring, EventsKnown,
              HandlerOwnsRow
<1> QED BY <1>1, <1>2, <1>3, <1>4, <1>5 DEF Next, ReliableNext

-----------------------------------------------------------------------------
(* The money.                                                              *)

\* Steps that leave the journal and the applications alone, and close no row.
LEMMA MoneyFrame ==
  ASSUME Money, UNCHANGED <<balance, apps>>,
         \A c \in ChannelIds : channels'[c].status = "closed" => channels[c].status = "closed"
  PROVE  Money'
BY DEF Money, NoOverdraft, FundsBelong, ClosedChannelEmpty

\* The Closed event empties the account of the channel it closes.
LEMMA ClosedMoney ==
  ASSUME TypeOK, Money, NEW n \in Networks, NEW e \in Events, HandleClosed(n, e)
  PROVE  Money'
<1> DEFINE c == e.chan
           p == Owner[c]
<1>1. c \in ChannelIds /\ c \in Accounts /\ c \notin AppIds /\ p \in Participants
  BY IdsAssumption DEF Events, Accounts
<1>2. \A x \in Accounts, q \in Participants : balance[x][q] \in Int
  BY DEF TypeOK, DBTypeOK, Postings
<1>3. \A x \in Accounts, q \in Participants :
        balance'[x][q] = IF x = c /\ q = p THEN 0 ELSE balance[x][q]
  <2>1. -balance[c][p] \in Int /\ balance \in Postings /\ Record(c, p, -balance[c][p])
    BY <1>1, <1>2 DEF HandleClosed, TypeOK, DBTypeOK
  <2>2. \A x \in Accounts, q \in Participants :
          balance'[x][q] = IF x = c /\ q = p THEN balance[x][q] + (-balance[c][p])
                           ELSE balance[x][q]
    BY <2>1, RecordEffect
  <2> QED BY <1>1, <1>2, <2>2
<1>4. apps' = apps /\ \A d \in ChannelIds \ {c} : channels'[d] = channels[d]
  BY <1>1 DEF HandleClosed, TypeOK, DBTypeOK
<1> HIDE DEF c, p
<1>5. NoOverdraft'
  BY <1>2, <1>3 DEF Money, NoOverdraft
<1>6. FundsBelong'
  BY <1>2, <1>3, <1>4 DEF Money, FundsBelong
<1>7. ClosedChannelEmpty'
  <2>1. \A q \in Participants : balance'[c][q] = 0
    BY <1>1, <1>2, <1>3 DEF Money, FundsBelong, p
  <2>2. ChannelIds \subseteq Accounts
    BY DEF Accounts
  <2> QED BY <1>3, <1>4, <2>1, <2>2 DEF Money, ClosedChannelEmpty
<1> QED BY <1>5, <1>6, <1>7 DEF Money

\* The credit of the Created branch goes to the owner of a channel whose row is
\* still "joining".
LEMMA CreditMoney ==
  ASSUME TypeOK, Wiring, Money, NEW n \in Networks, RecordCredit(n)
  PROVE  Money'
<1> DEFINE c == handler[n].chan
           p == Owner[c]
           amount == handler[n].amount
<1>1. /\ c \in ChannelIds /\ p \in Participants /\ amount \in Nat /\ handler[n] # Idle
  BY HandlerBusy DEF RecordCredit
<1>2. c \in Accounts /\ c \notin AppIds /\ ChannelIds \subseteq Accounts
  BY <1>1, IdsAssumption DEF Accounts
<1>3. channels[c].status = "joining"
  BY <1>1 DEF Wiring, HandlerOwnsRow
<1>4. \A x \in Accounts, q \in Participants : balance[x][q] \in Int
  BY DEF TypeOK, DBTypeOK, Postings
<1>5. \A x \in Accounts, q \in Participants :
        balance'[x][q] = IF x = c /\ q = p THEN balance[x][q] + amount ELSE balance[x][q]
  <2>1. amount \in Int /\ balance \in Postings /\ Record(c, p, amount)
    BY <1>1 DEF RecordCredit, TypeOK, DBTypeOK
  <2> HIDE DEF c, p, amount
  <2> QED BY <2>1, RecordEffect
<1>6. UNCHANGED <<apps, channels>>
  BY DEF RecordCredit
<1> HIDE DEF c, amount
<1>7. NoOverdraft'
  BY <1>1, <1>4, <1>5 DEF Money, NoOverdraft
<1>8. FundsBelong'
  BY <1>2, <1>4, <1>5, <1>6 DEF Money, FundsBelong
<1>9. ClosedChannelEmpty'
  BY <1>2, <1>3, <1>5, <1>6 DEF Money, ClosedChannelEmpty
<1> QED BY <1>7, <1>8, <1>9 DEF Money

\* Creating an application moves what its members have to spare.
LEMMA CreateMoney ==
  ASSUME TypeOK, Money, NEW v \in AppIds, CreateSome(v)
  PROVE  Money'
<1>0. PICK members \in SUBSET Participants :
        \E alloc \in [members -> Allocations], via \in ChannelChoices(members),
           signers \in SUBSET Participants, weight \in [Participants -> Weights],
           quorum \in Quorums : CreateApplication(v, alloc, via, signers, weight, quorum)
  BY DEF CreateSome
<1>1. PICK alloc \in [members -> Allocations], via \in ChannelChoices(members),
           signers \in SUBSET Participants, weight \in [Participants -> Weights],
           quorum \in Quorums : CreateApplication(v, alloc, via, signers, weight, quorum)
  BY <1>0
<1>2. \A x \in Accounts, p \in Participants :
        balance'[x][p] = IF p \notin members THEN balance[x][p]
                         ELSE IF x = v THEN balance[x][p] + alloc[p]
                         ELSE IF x = via[p] THEN balance[x][p] - alloc[p]
                         ELSE balance[x][p]
  BY <1>1, CreateEffect DEF CreateApplication
<1>3. \A p \in members : /\ alloc[p] \in Int /\ alloc[p] >= 0 /\ balance[via[p]][p] >= alloc[p]
  BY <1>1, AppInputsAssumption DEF CreateApplication, CanAllocate
<1>4. \A p \in members : /\ via[p] \in ChannelIds /\ Owner[via[p]] = p
                         /\ channels[via[p]].status = "open"
  BY <1>1, ChosenChannel
<1>5. \A x \in Accounts, p \in Participants : balance[x][p] \in Int /\ balance[x][p] >= 0
  BY DEF TypeOK, DBTypeOK, Postings, Money, NoOverdraft
<1>6. /\ v \in Accounts /\ ChannelIds \subseteq Accounts /\ AppIds \cap ChannelIds = {}
      /\ Accounts = ChannelIds \cup AppIds /\ members \subseteq Participants
  BY IdsAssumption DEF Accounts
<1>7. /\ apps[v].status = "none" /\ UNCHANGED channels
      /\ apps'[v].status = "open" /\ apps'[v].members = members
      /\ \A w \in AppIds \ {v} : apps'[w] = apps[w]
  BY <1>1 DEF CreateApplication, TypeOK, DBTypeOK
<1>8. NoOverdraft'
  BY <1>2, <1>3, <1>5 DEF NoOverdraft
<1>9. FundsBelong'
  <2> SUFFICES ASSUME NEW x \in Accounts, NEW p \in Participants, balance'[x][p] # 0
               PROVE  IF x \in AppIds THEN apps'[x].status = "open" /\ p \in apps'[x].members
                      ELSE p = Owner[x]
    BY DEF FundsBelong
  <2>1. CASE x = v
    <3>1. balance[v][p] = 0
      BY <1>6, <1>7 DEF Money, FundsBelong
    <3> QED BY <1>2, <1>6, <1>7, <2>1, <3>1
  <2>2. CASE x # v /\ x \in AppIds
    <3>1. balance'[x][p] = balance[x][p]
      BY <1>2, <1>4, <1>6, <2>2
    <3> QED BY <1>7, <2>2, <3>1 DEF Money, FundsBelong
  <2>3. CASE x \notin AppIds
    BY <1>2, <1>4, <1>6, <2>3 DEF Money, FundsBelong
  <2> QED BY <2>1, <2>2, <2>3
<1>10. ClosedChannelEmpty'
  <2> SUFFICES ASSUME NEW c \in ChannelIds, channels[c].status = "closed", NEW p \in Participants
               PROVE  balance'[c][p] = 0
    BY <1>7 DEF ClosedChannelEmpty
  <2>1. balance[c][p] = 0
    BY DEF Money, ClosedChannelEmpty
  <2>2. p \in members => via[p] # c
    BY <1>4
  <2> QED BY <1>2, <1>6, <2>1, <2>2
<1> QED BY <1>8, <1>9, <1>10 DEF Money

\* Closing an application leaves nothing on its account and credits open
\* channels of its members.
LEMMA CloseMoney ==
  ASSUME TypeOK, Money, NEW v \in AppIds, CloseSome(v)
  PROVE  Money'
<1> DEFINE members == apps[v].members
<1>1. PICK alloc \in [members -> Allocations], via \in ChannelChoices(members),
           sigs \in [Participants -> 0..MaxSignatures] :
             CloseApplication(v, alloc, via, sigs)
  BY DEF CloseSome
<1>2. members \in SUBSET Participants
  BY DEF TypeOK, DBTypeOK, AppRow
<1>3. /\ apps[v].status = "open" /\ UNCHANGED channels
      /\ apps'[v].status = "closed"
      /\ \A w \in AppIds \ {v} : apps'[w] = apps[w]
  BY <1>1 DEF CloseApplication, TypeOK, DBTypeOK
<1>4. \A p \in members : alloc[p] \in Int /\ alloc[p] >= 0
  BY <1>1, AppInputsAssumption DEF CloseApplication
<1>5. Post(ClosePosting(v, alloc, via))
  BY <1>1 DEF CloseApplication
<1> HIDE DEF members
<1>6. \A x \in Accounts, p \in Participants :
        balance'[x][p] = IF p \notin members THEN balance[x][p]
                         ELSE IF x = v THEN 0
                         ELSE IF x = via[p] THEN balance[x][p] + alloc[p]
                         ELSE balance[x][p]
  BY <1>2, <1>5, CloseEffect
<1>7. \A p \in members : /\ via[p] \in ChannelIds /\ Owner[via[p]] = p
                         /\ channels[via[p]].status = "open"
  BY ChosenChannel
<1>8. \A x \in Accounts, p \in Participants : balance[x][p] \in Int /\ balance[x][p] >= 0
  BY DEF TypeOK, DBTypeOK, Postings, Money, NoOverdraft
<1>9. /\ v \in Accounts /\ ChannelIds \subseteq Accounts /\ AppIds \cap ChannelIds = {}
      /\ Accounts = ChannelIds \cup AppIds
  BY IdsAssumption DEF Accounts
<1>10. NoOverdraft'
  BY <1>4, <1>6, <1>8 DEF NoOverdraft
<1>11. FundsBelong'
  <2> SUFFICES ASSUME NEW x \in Accounts, NEW p \in Participants, balance'[x][p] # 0
               PROVE  IF x \in AppIds THEN apps'[x].status = "open" /\ p \in apps'[x].members
                      ELSE p = Owner[x]
    BY DEF FundsBelong
  <2>1. x # v
    <3>1. p \notin members => balance[v][p] = 0
      BY <1>9 DEF Money, FundsBelong, members
    <3> QED BY <1>6, <1>9, <3>1
  <2>2. CASE x \in AppIds
    <3>1. balance'[x][p] = balance[x][p]
      BY <1>6, <1>7, <1>9, <2>1, <2>2
    <3> QED BY <1>3, <2>1, <2>2, <3>1 DEF Money, FundsBelong
  <2>3. CASE x \notin AppIds
    BY <1>6, <1>7, <1>9, <2>1, <2>3 DEF Money, FundsBelong
  <2> QED BY <2>2, <2>3
<1>12. ClosedChannelEmpty'
  <2> SUFFICES ASSUME NEW c \in ChannelIds, channels[c].status = "closed", NEW p \in Participants
               PROVE  balance'[c][p] = 0
    BY <1>3 DEF ClosedChannelEmpty
  <2>1. balance[c][p] = 0
    BY DEF Money, ClosedChannelEmpty
  <2>2. p \in members => via[p] # c
    BY <1>7
  <2> QED BY <1>6, <1>9, <2>1, <2>2
<1> QED BY <1>10, <1>11, <1>12 DEF Money

\* The listener's events.
LEMMA HandleEventMoney ==
  ASSUME TypeOK, Wiring, Money, NEW n \in Networks, HandleEvent(n)
  PROVE  Money'
<1> DEFINE e == Head(events[n])
<1>1. /\ events[n] # <<>>
      /\ \/ HandleCreated(n, e) \/ HandleJoined(n, e) \/ HandleClosed(n, e)
         \/ HandleResized(n, e) \/ IgnoreEvent(n, e)
  BY DEF HandleEvent
<1>2. e \in Events /\ e.chan \in ChannelIds
  BY <1>1, HeadKnown DEF Wiring
<1>3. channels \in [ChannelIds -> ChannelRow]
  BY DEF TypeOK, DBTypeOK
<1> HIDE DEF e
<1>4. CASE HandleClosed(n, e)
  BY <1>2, <1>4, ClosedMoney
<1>5. CASE HandleCreated(n, e)
  BY <1>2, <1>3, <1>5, MoneyFrame DEF HandleCreated
<1>6. CASE HandleJoined(n, e)
  BY <1>2, <1>3, <1>6, MoneyFrame DEF HandleJoined
<1>7. CASE HandleResized(n, e)
  <2>1. \A c \in ChannelIds : channels'[c].status = channels[c].status
    BY <1>2, <1>3, <1>7 DEF HandleResized, ChannelRow
  <2> QED BY <1>7, <2>1, MoneyFrame DEF HandleResized
<1>8. CASE IgnoreEvent(n, e)
  BY <1>8, MoneyFrame DEF IgnoreEvent, dbVars
<1> QED BY <1>1, <1>4, <1>5, <1>6, <1>7, <1>8 DEF e

\* Every step keeps Money.
LEMMA NextMoney == TypeOK /\ Wiring /\ Money /\ [Next]_vars => Money'
<1> SUFFICES ASSUME TypeOK, Wiring, Money, [Next]_vars PROVE Money'
  OBVIOUS
<1>1. CASE ChainStep
  BY <1>1, MoneyFrame DEF ChainStep, ChainCreate, ChainJoin, ChainResize, ChainClose, dbVars
<1>2. ASSUME NEW n \in Networks, HandleEvent(n)
      PROVE  Money'
  BY <1>2, HandleEventMoney
<1>3. ASSUME NEW n \in Networks, CreatedStep(n)
      PROVE  Money'
  <2>1. CASE JoinSucceeds(n)
    BY <2>1, MoneyFrame DEF JoinSucceeds, dbVars
  <2>2. CASE RecordCredit(n)
    BY <2>2, CreditMoney
  <2> QED BY <1>3, <2>1, <2>2 DEF CreatedStep
<1>4. ASSUME NEW v \in AppIds, AppStep(v)
      PROVE  Money'
  BY <1>4, CreateMoney, CloseMoney DEF AppStep
<1>5. ASSUME NEW c \in ChannelIds, SettleStep(c)
      PROVE  Money'
  BY <1>5, MoneyFrame DEF SettleStep, ReadSome, ReadChannel, SignResize, SignClose,
                          RefuseSettlement, Reply, dbVars
<1>6. CASE FaultStep
  BY <1>6, MoneyFrame DEF FaultStep, Crash, JoinFails, Subscribe, SubscriptionFails,
                          LogRepeats, dbVars
<1>7. CASE UNCHANGED vars
  BY <1>7, MoneyFrame DEF vars, dbVars
<1> QED BY <1>1, <1>2, <1>3, <1>4, <1>5, <1>6, <1>7 DEF Next, ReliableNext, ListenerStep

\* The inductive invariant holds initially and every step keeps it.
LEMMA InitIInv == Init => IInv
<1> SUFFICES ASSUME Init PROVE IInv
  OBVIOUS
<1>1. TypeOK
  BY InitTypes
<1>2. Wiring
  BY DEF Init, CustodyInit, Wiring, EventsKnown, HandlerOwnsRow
<1>3. Money
  BY DEF Init, DBInit, Money, NoOverdraft, FundsBelong, ClosedChannelEmpty, Accounts
<1> QED BY <1>1, <1>2, <1>3 DEF IInv

\* Every step of the broker, its listener, the clients and the contract keeps it.
LEMMA NextIInv == IInv /\ [Next]_vars => IInv'
BY NextTypes, NextWiring, NextMoney DEF IInv

\* So it holds in every reachable state.
LEMMA Inductive == Spec => []IInv
BY InitIInv, NextIInv, PTL DEF Spec

\* In every reachable state of the broker - with listeners, handlers, crashes,
\* lost and repeated events in any order - no account of the ledger is overdrawn.
THEOREM NeverOverdrawn == Spec => []NoOverdraft
<1>1. IInv => NoOverdraft
  BY DEF IInv, Money
<1> QED BY Inductive, <1>1, PTL

\* Money is only on a channel of its owner or in an open application of its
\* member: closing an application never strands funds on its account.
THEOREM FundsStayWhereTheyBelong == Spec => []FundsBelong
<1>1. IInv => FundsBelong
  BY DEF IInv, Money
<1> QED BY Inductive, <1>1, PTL

\* A channel whose row is closed has an empty account: no credit - of the
\* Created branch, of a closing application - arrives after the Closed event,
\* whatever the interleaving and whichever events are repeated.
THEOREM NothingAfterClose == Spec => []ClosedChannelEmpty
<1>1. IInv => ClosedChannelEmpty
  BY DEF IInv, Money
<1> QED BY Inductive, <1>1, PTL

-----------------------------------------------------------------------------
(* The rows follow the contract.                                           *)
(*                                                                         *)
(* Without faults the logs of a channel reach the listener once and in the *)
(* order in which the contract emits them.  How far a row may be behind    *)
(* the contract then depends on which of the channel's logs still wait,    *)
(* and the version in what was signed bounds how far ahead the contract    *)
(* can get: one settlement.                                                *)

\* The order in which a channel's logs are emitted.
Rank(type) == IF type = "Created" THEN 1 ELSE IF type = "Joined" THEN 2 ELSE 3

InOrder(q) ==
  \A i, j \in 1..Len(q) :
    i < j /\ q[i].chan = q[j].chan => Rank(q[i].type) < Rank(q[j].type)

\* The logs of channel c that wait in q, and in the listener's channel.
Of(q, c) == {q[i] : i \in {j \in 1..Len(q) : q[j].chan = c}}
Waiting(c) == Of(events[NetworkOf[c]], c)

CreatedLog(c, amount) == [type |-> "Created", chan |-> c, amount |-> amount]
JoinedLog(c) == [type |-> "Joined", chan |-> c]

\* The row and the contract agree but for one settlement that waits.
OneBehind(row, ch, waits) ==
  \/ /\ waits = {} /\ ch.status = "active"
     /\ row.amount = ch.amount /\ row.version = ch.version
  \/ \E e \in waits :
       /\ waits = {e} /\ e.type = "Resized" /\ ch.status = "active"
       /\ row.amount + e.delta = ch.amount /\ row.version + 1 = ch.version
  \/ \E e \in waits :
       /\ waits = {e} /\ e.type = "Closed" /\ ch.status = "final"
       /\ row.version + 1 = ch.version

\* The life of a channel, as its row, the contract and the logs between show it.
InPhase(c, row, ch, waits) ==
  \/ /\ row.status = "none" /\ ch.status = "void" /\ ch.version = 0 /\ ~ch.joining
     /\ waits = {}
  \/ /\ row.status = "none" /\ ch.status = "initial" /\ ch.version = 0 /\ ~ch.joining
     /\ waits \subseteq {CreatedLog(c, ch.amount)}
  \/ /\ row.status = "joining" /\ ch.status = "initial" /\ waits = {}
     /\ row.amount = ch.amount /\ row.version = ch.version
  \/ /\ row.status = "joining" /\ JoinedLog(c) \in waits
     /\ OneBehind(row, ch, waits \ {JoinedLog(c)})
  \/ row.status = "open" /\ OneBehind(row, ch, waits)
  \/ row.status = "closed" /\ ch.status = "final" /\ waits = {}

Phases == \A c \in ChannelIds : InPhase(c, channels[c], chain[c], Waiting(c))

\* What is read, or signed, is no newer than the row.
NoneAhead ==
  /\ \A c \in ChannelIds : settling[c] # NoRequest =>
       channels[c].status # "none" /\ settling[c].version <= channels[c].version
  /\ \A s \in signed :
       channels[s.chan].status # "none" /\ s.version <= channels[s.chan].version + 1

Listening == \A n \in Networks : subscribed[n] /\ InOrder(events[n])

Mirroring == Listening /\ Phases /\ NoneAhead

\* A sequence of logs with one more, or without the first.
LEMMA AppendOf ==
  ASSUME NEW q \in Seq(Events), NEW e \in Events, NEW c
  PROVE  Of(Append(q, e), c) = IF e.chan = c THEN Of(q, c) \cup {e} ELSE Of(q, c)
<1> DEFINE r == Append(q, e)
<1>1. /\ Len(r) = Len(q) + 1 /\ r[Len(q) + 1] = e
      /\ \A i \in 1..Len(q) : r[i] = q[i]
  OBVIOUS
<1>2. Len(q) \in Nat
  OBVIOUS
<1> HIDE DEF r
<1>3. ASSUME NEW f
      PROVE  f \in Of(r, c) <=> f \in Of(q, c) \/ (f = e /\ e.chan = c)
  <2>1. f \in Of(r, c) <=> \E i \in 1..Len(q) + 1 : r[i].chan = c /\ f = r[i]
    BY <1>1 DEF Of
  <2>2. f \in Of(q, c) <=> \E i \in 1..Len(q) : q[i].chan = c /\ f = q[i]
    BY DEF Of
  <2>3. 1..Len(q) + 1 = 1..Len(q) \cup {Len(q) + 1}
    BY <1>2
  <2> QED
    BY <1>1, <2>1, <2>2, <2>3
<1> QED
  BY <1>3 DEF r

\* A log that ranks behind its channel's others keeps the queue in order.
LEMMA AppendInOrder ==
  ASSUME NEW q \in Seq(Events), NEW e \in Events, InOrder(q),
         \A f \in Of(q, e.chan) : Rank(f.type) < Rank(e.type)
  PROVE  InOrder(Append(q, e))
<1> DEFINE r == Append(q, e)
<1>1. /\ Len(r) = Len(q) + 1 /\ r[Len(q) + 1] = e
      /\ \A i \in 1..Len(q) : r[i] = q[i]
  OBVIOUS
<1>2. Len(q) \in Nat
  OBVIOUS
<1> HIDE DEF r
<1>3. ASSUME NEW i \in 1..Len(r), NEW j \in 1..Len(r), i < j, r[i].chan = r[j].chan
      PROVE  Rank(r[i].type) < Rank(r[j].type)
  <2>1. i \in 1..Len(q)
    BY <1>1, <1>2, <1>3
  <2>2. CASE j \in 1..Len(q)
    BY <1>1, <1>3, <2>1, <2>2 DEF InOrder
  <2>3. CASE j = Len(q) + 1
    <3>1. r[i] \in Of(q, e.chan) /\ r[j] = e
      BY <1>1, <1>3, <2>1, <2>3 DEF Of
    <3> QED
      BY <3>1
  <2> QED
    BY <1>1, <1>2, <2>2, <2>3
<1> QED
  BY <1>3 DEF InOrder, r

\* Taking the head leaves every channel's logs but the head.
LEMMA TailOf ==
  ASSUME NEW q \in Seq(Events), q # <<>>, InOrder(q)
  PROVE  /\ Head(q) \in Of(q, Head(q).chan)
         /\ \A f \in Of(q, Head(q).chan) \ {Head(q)} : Rank(Head(q).type) < Rank(f.type)
         /\ \A c : Of(Tail(q), c) =
              IF c = Head(q).chan THEN Of(q, c) \ {Head(q)} ELSE Of(q, c)
         /\ InOrder(Tail(q))
<1> DEFINE h == Head(q)
           r == Tail(q)
<1>1. /\ Len(q) \in Nat \ {0} /\ h = q[1] /\ Len(r) = Len(q) - 1
      /\ \A i \in 1..Len(q) - 1 : r[i] = q[i + 1]
  BY HeadTailProperties
<1> HIDE DEF h, r
<1>2. h \in Of(q, h.chan)
  BY <1>1 DEF Of
<1>3. ASSUME NEW i \in 2..Len(q), q[i].chan = h.chan
      PROVE  Rank(h.type) < Rank(q[i].type) /\ q[i] # h
  <2>1. 1 \in 1..Len(q) /\ i \in 1..Len(q) /\ 1 < i
    BY <1>1
  <2>2. Rank(h.type) < Rank(q[i].type)
    BY <1>1, <1>3, <2>1 DEF InOrder
  <2>3. Rank(h.type) \in Nat
    BY DEF Rank
  <2> QED
    BY <2>2, <2>3
<1>4. \A f \in Of(q, h.chan) \ {h} : Rank(h.type) < Rank(f.type)
  <2>1. ASSUME NEW f \in Of(q, h.chan) \ {h}
        PROVE  Rank(h.type) < Rank(f.type)
    <3>1. PICK i \in 1..Len(q) : q[i].chan = h.chan /\ f = q[i]
      BY <2>1 DEF Of
    <3>2. i \in 2..Len(q)
      BY <1>1, <2>1, <3>1
    <3> QED
      BY <1>3, <3>1, <3>2
  <2> QED
    BY <2>1
<1>5. ASSUME NEW c
      PROVE  Of(r, c) = IF c = h.chan THEN Of(q, c) \ {h} ELSE Of(q, c)
  <2>1. ASSUME NEW f
        PROVE  f \in Of(r, c) <=> f \in Of(q, c) /\ (c = h.chan => f # h)
    <3>1. f \in Of(r, c) <=> \E i \in 1..Len(q) - 1 : q[i + 1].chan = c /\ f = q[i + 1]
      BY <1>1 DEF Of
    <3>2. f \in Of(q, c) <=> \E i \in 1..Len(q) : q[i].chan = c /\ f = q[i]
      BY DEF Of
    <3>3. \A i \in 1..Len(q) - 1 : i + 1 \in 2..Len(q) /\ i + 1 \in 1..Len(q)
      BY <1>1
    <3>4. \A i \in 2..Len(q) : i - 1 \in 1..Len(q) - 1 /\ (i - 1) + 1 = i
      BY <1>1
    <3>5. \A i \in 1..Len(q) : i = 1 \/ i \in 2..Len(q)
      BY <1>1
    <3>6. f \in Of(r, c) => f \in Of(q, c) /\ (c = h.chan => f # h)
      BY <1>3, <3>1, <3>2, <3>3
    <3>7. ASSUME f \in Of(q, c), c = h.chan => f # h
          PROVE  f \in Of(r, c)
      <4>1. PICK i \in 1..Len(q) : q[i].chan = c /\ f = q[i]
        BY <3>2, <3>7
      <4>2. i \in 2..Len(q)
        BY <1>1, <3>5, <3>7, <4>1
      <4> QED
        BY <3>1, <3>4, <4>1, <4>2
    <3> QED
      BY <3>6, <3>7
  <2> QED
    BY <2>1
<1>6. InOrder(r)
  <2>1. ASSUME NEW i \in 1..Len(r), NEW j \in 1..Len(r), i < j, r[i].chan = r[j].chan
        PROVE  Rank(r[i].type) < Rank(r[j].type)
    <3>1. i + 1 \in 1..Len(q) /\ j + 1 \in 1..Len(q) /\ i + 1 < j + 1
      BY <1>1, <2>1
    <3>2. r[i] = q[i + 1] /\ r[j] = q[j + 1]
      BY <1>1
    <3> QED
      BY <2>1, <3>1, <3>2 DEF InOrder
  <2> QED
    BY <2>1 DEF InOrder
<1> QED
  BY <1>2, <1>4, <1>5, <1>6 DEF h, r

\* The logs that wait, after the contract emits one.
LEMMA EmitWaits ==
  ASSUME TypeOK, Listening, NEW e \in Events, e.chan \in ChannelIds,
         Emit(NetworkOf[e.chan], e), \A f \in Waiting(e.chan) : Rank(f.type) < Rank(e.type)
  PROVE  /\ Listening'
         /\ Waiting(e.chan)' = Waiting(e.chan) \cup {e}
         /\ \A c \in ChannelIds \ {e.chan} : Waiting(c)' = Waiting(c)
<1> DEFINE n == NetworkOf[e.chan]
<1>1. /\ n \in Networks /\ events \in [Networks -> Seq(Events)]
      /\ \A c \in ChannelIds : NetworkOf[c] \in Networks
  BY IdsAssumption DEF TypeOK, CustodyTypeOK
<1>2. events' = [events EXCEPT ![n] = Append(@, e)] /\ UNCHANGED subscribed
  BY <1>1 DEF Emit, Listening
<1>3. events'[n] = Append(events[n], e) /\ \A m \in Networks \ {n} : events'[m] = events[m]
  BY <1>1, <1>2
<1>4. events[n] \in Seq(Events)
  BY <1>1
<1>5. InOrder(Append(events[n], e))
  BY <1>1, <1>4, AppendInOrder DEF Listening, Waiting
<1>6. Listening'
  BY <1>2, <1>3, <1>5 DEF Listening
<1>7. Waiting(e.chan)' = Waiting(e.chan) \cup {e}
  BY <1>3, <1>4, AppendOf DEF Waiting
<1>8. ASSUME NEW c \in ChannelIds \ {e.chan}
      PROVE  Waiting(c)' = Waiting(c)
  <2>1. CASE NetworkOf[c] = n
    <3>1. Of(Append(events[n], e), c) = Of(events[n], c)
      BY <1>4, <1>8, AppendOf
    <3> QED
      BY <1>3, <2>1, <3>1 DEF Waiting
  <2>2. CASE NetworkOf[c] # n
    BY <1>1, <1>3, <2>2 DEF Waiting
  <2> QED
    BY <2>1, <2>2
<1> QED
  BY <1>6, <1>7, <1>8

\* The logs that wait, after the listener of a network has received one.
LEMMA ReceiveWaits ==
  ASSUME TypeOK, EventsKnown, Listening, NEW n \in Networks, events[n] # <<>>,
         NEW e, e = Head(events[n]), Receives(n, e)
  PROVE  /\ e \in Events /\ e.chan \in ChannelIds /\ NetworkOf[e.chan] = n
         /\ e \in Waiting(e.chan)
         /\ \A f \in Waiting(e.chan) \ {e} : Rank(e.type) < Rank(f.type)
         /\ Listening'
         /\ Waiting(e.chan)' = Waiting(e.chan) \ {e}
         /\ \A c \in ChannelIds \ {e.chan} : Waiting(c)' = Waiting(c)
<1>1. e \in Events /\ e.chan \in ChannelIds /\ NetworkOf[e.chan] = n
  BY HeadKnown
<1>2. /\ events \in [Networks -> Seq(Events)] /\ events[n] \in Seq(Events)
      /\ \A c \in ChannelIds : NetworkOf[c] \in Networks
  BY IdsAssumption DEF TypeOK, CustodyTypeOK
<1>3. events' = [events EXCEPT ![n] = Tail(@)] /\ UNCHANGED subscribed
  BY DEF Receives
<1>4. events'[n] = Tail(events[n]) /\ \A m \in Networks \ {n} : events'[m] = events[m]
  BY <1>2, <1>3
<1>5. /\ e \in Of(events[n], e.chan)
      /\ \A f \in Of(events[n], e.chan) \ {e} : Rank(e.type) < Rank(f.type)
      /\ \A c : Of(Tail(events[n]), c) =
           IF c = e.chan THEN Of(events[n], c) \ {e} ELSE Of(events[n], c)
      /\ InOrder(Tail(events[n]))
  BY <1>2, TailOf DEF Listening
<1>6. Listening'
  BY <1>3, <1>4, <1>5 DEF Listening
<1>7. ASSUME NEW c \in ChannelIds \ {e.chan}
      PROVE  Waiting(c)' = Waiting(c)
  <2>1. CASE NetworkOf[c] = n
    BY <1>4, <1>5, <1>7, <2>1 DEF Waiting
  <2>2. CASE NetworkOf[c] # n
    BY <1>2, <1>4, <2>2 DEF Waiting
  <2> QED
    BY <2>1, <2>2
<1> QED
  BY <1>1, <1>4, <1>5, <1>6, <1>7 DEF Waiting

\* What Phases says of a channel stays when nothing it speaks of moves but the
\* joining flag of a row that is being joined.
LEMMA PhaseStays ==
  ASSUME NEW c, NEW row, NEW ch, NEW new, NEW waits, InPhase(c, row, ch, waits),
         new.status = ch.status, new.version = ch.version, new.amount = ch.amount,
         new.joining = ch.joining \/ row.status = "joining"
  PROVE  InPhase(c, row, new, waits)
BY DEF InPhase, OneBehind

-----------------------------------------------------------------------------
(* The contract's steps.                                                   *)

\* One channel moves on in the contract, and a log says so.
LEMMA ChainMoves ==
  ASSUME TypeOK, Mirroring, NEW c \in ChannelIds, NEW e \in Events, e.chan = c,
         Emit(NetworkOf[c], e), \A f \in Waiting(c) : Rank(f.type) < Rank(e.type),
         NEW r, chain' = [chain EXCEPT ![c] = r], UNCHANGED channels,
         InPhase(c, channels[c], r, Waiting(c) \cup {e})
  PROVE  Listening' /\ Phases'
<1>1. /\ Listening' /\ Waiting(c)' = Waiting(c) \cup {e}
      /\ \A d \in ChannelIds \ {c} : Waiting(d)' = Waiting(d)
  BY EmitWaits DEF Mirroring
<1>2. chain'[c] = r /\ \A d \in ChannelIds \ {c} : chain'[d] = chain[d]
  BY DEF TypeOK, CustodyTypeOK
<1>3. ASSUME NEW d \in ChannelIds
      PROVE  InPhase(d, channels'[d], chain'[d], Waiting(d)')
  <2>1. CASE d = c
    BY <1>1, <1>2, <2>1
  <2>2. CASE d # c
    BY <1>1, <1>2, <2>2 DEF Mirroring, Phases
  <2> QED
    BY <2>1, <2>2
<1> QED
  BY <1>1, <1>3 DEF Phases

\* A channel is created, or its join is mined.
LEMMA MirrorOpens ==
  ASSUME TypeOK, Mirroring, NEW c \in ChannelIds,
         (\E amount \in Deposits : ChainCreate(c, amount)) \/ ChainJoin(c)
  PROVE  Listening' /\ Phases'
<1>1. chain \in [ChannelIds -> ContractRecord] /\ UNCHANGED channels
  BY DEF TypeOK, CustodyTypeOK, ChainCreate, ChainJoin, dbVars
<1>2. InPhase(c, channels[c], chain[c], Waiting(c)) /\ chain[c] \in ContractRecord
  BY <1>1 DEF Mirroring, Phases
<1>4. ASSUME NEW amount \in Deposits, ChainCreate(c, amount)
      PROVE  Listening' /\ Phases'
  <2> DEFINE e == CreatedLog(c, amount)
             r == [chain[c] EXCEPT !.status = "initial", !.amount = amount]
  <2>1. e \in Events /\ e.chan = c
    BY CustodyAssumption DEF Events, CreatedLog
  <2>2. Emit(NetworkOf[c], e) /\ chain[c].status = "void"
    BY <1>4 DEF ChainCreate, CreatedLog
  <2>3. chain' = [chain EXCEPT ![c] = r]
    BY <1>1, <1>4 DEF ChainCreate
  <2>4. /\ r.status = "initial" /\ r.amount = amount /\ r.version = chain[c].version
        /\ r.joining = chain[c].joining
    BY <1>2 DEF ContractRecord
  <2>5. /\ channels[c].status = "none" /\ chain[c].version = 0 /\ ~chain[c].joining
        /\ Waiting(c) = {}
    BY <1>2, <2>2 DEF InPhase, OneBehind
  <2> HIDE DEF r
  <2>6. InPhase(c, channels[c], r, Waiting(c) \cup {e})
    BY <2>4, <2>5 DEF InPhase
  <2> HIDE DEF e
  <2> QED
    BY <1>1, <2>1, <2>2, <2>3, <2>5, <2>6, ChainMoves
<1>5. CASE ChainJoin(c)
  <2> DEFINE e == JoinedLog(c)
             r == [chain[c] EXCEPT !.status = "active", !.joining = FALSE]
  <2>1. e \in Events /\ e.chan = c
    BY DEF Events, JoinedLog
  <2>2. Emit(NetworkOf[c], e) /\ chain[c].status = "initial" /\ chain[c].joining
    BY <1>5 DEF ChainJoin, JoinedLog
  <2>3. chain' = [chain EXCEPT ![c] = r]
    BY <1>1, <1>5 DEF ChainJoin
  <2>4. r.status = "active" /\ r.amount = chain[c].amount /\ r.version = chain[c].version
    BY <1>2 DEF ContractRecord
  <2>5. /\ channels[c].status = "joining" /\ Waiting(c) = {}
        /\ channels[c].amount = chain[c].amount /\ channels[c].version = chain[c].version
    BY <1>2, <2>2 DEF InPhase, OneBehind
  <2> HIDE DEF r
  <2>6. InPhase(c, channels[c], r, Waiting(c) \cup {e})
    BY <2>4, <2>5 DEF InPhase, OneBehind
  <2> HIDE DEF e
  <2> QED
    BY <1>1, <2>1, <2>2, <2>3, <2>5, <2>6, ChainMoves
<1> QED
  BY <1>4, <1>5

\* A state is submitted whose version is above the contract's: nothing of the
\* channel waits but maybe its Joined, and the row has the contract's version.
LEMMA Submitted ==
  ASSUME TypeOK, Mirroring, NEW s \in signed, Acceptable(s)
  PROVE  /\ s \in SignedStates /\ s.chan \in ChannelIds
         /\ s.version \in Nat /\ s.user \in Int /\ s.broker \in Int
         /\ s.addUser \in Int /\ s.addBroker \in Int
         /\ chain[s.chan] \in ContractRecord /\ channels[s.chan] \in ChannelRow
         /\ s.version = channels[s.chan].version + 1
         /\ channels[s.chan].amount = chain[s.chan].amount
         /\ \/ channels[s.chan].status = "joining" /\ Waiting(s.chan) = {JoinedLog(s.chan)}
            \/ channels[s.chan].status = "open" /\ Waiting(s.chan) = {}
<1> DEFINE c == s.chan
<1>1. s \in SignedStates
  BY DEF TypeOK, CustodyTypeOK
<1>2. /\ c \in ChannelIds /\ s.version \in Nat /\ s.user \in Int /\ s.broker \in Int
      /\ s.addUser \in Int /\ s.addBroker \in Int
  BY <1>1 DEF SignedStates
<1>3. chain[c] \in ContractRecord /\ channels[c] \in ChannelRow
  BY <1>2 DEF TypeOK, CustodyTypeOK, DBTypeOK
<1>4. chain[c].status = "active" /\ s.version > chain[c].version
  BY DEF Acceptable
<1>5. s.version <= channels[c].version + 1
  BY DEF Mirroring, NoneAhead
<1>6. chain[c].version \in Nat /\ channels[c].version \in Nat
  BY <1>3 DEF ContractRecord, ChannelRow
<1>7. InPhase(c, channels[c], chain[c], Waiting(c))
  BY <1>2 DEF Mirroring, Phases
<1> HIDE DEF c
<1>8. \A waits : OneBehind(channels[c], chain[c], waits) =>
        /\ waits = {} /\ channels[c].amount = chain[c].amount
        /\ channels[c].version = chain[c].version
  BY <1>4, <1>5, <1>6, <1>2 DEF OneBehind
<1>9. \/ /\ channels[c].status = "joining" /\ JoinedLog(c) \in Waiting(c)
         /\ OneBehind(channels[c], chain[c], Waiting(c) \ {JoinedLog(c)})
      \/ channels[c].status = "open" /\ OneBehind(channels[c], chain[c], Waiting(c))
  BY <1>4, <1>7 DEF InPhase
<1>10. CASE /\ channels[c].status = "joining" /\ JoinedLog(c) \in Waiting(c)
            /\ OneBehind(channels[c], chain[c], Waiting(c) \ {JoinedLog(c)})
  <2>1. Waiting(c) \ {JoinedLog(c)} = {} /\ channels[c].amount = chain[c].amount
        /\ channels[c].version = chain[c].version
    BY <1>8, <1>10
  <2>2. Waiting(c) = {JoinedLog(c)}
    BY <1>10, <2>1
  <2>3. s.version = channels[c].version + 1
    BY <1>2, <1>4, <1>5, <1>6, <2>1
  <2> QED
    BY <1>1, <1>2, <1>3, <1>10, <2>1, <2>2, <2>3 DEF c
<1>11. CASE channels[c].status = "open" /\ OneBehind(channels[c], chain[c], Waiting(c))
  <2>1. Waiting(c) = {} /\ channels[c].amount = chain[c].amount
        /\ channels[c].version = chain[c].version
    BY <1>8, <1>11
  <2>2. s.version = channels[c].version + 1
    BY <1>2, <1>4, <1>5, <1>6, <2>1
  <2> QED
    BY <1>1, <1>2, <1>3, <1>11, <2>1, <2>2 DEF c
<1> QED
  BY <1>9, <1>10, <1>11

\* A channel is resized or closed in the contract.
LEMMA MirrorSettles ==
  ASSUME TypeOK, Mirroring, NEW s \in signed, ChainResize(s) \/ ChainClose(s)
  PROVE  Listening' /\ Phases'
<1> DEFINE c == s.chan
<1>1. Acceptable(s) /\ UNCHANGED channels
  BY DEF ChainResize, ChainClose, dbVars
<1>2. /\ c \in ChannelIds /\ s.version \in Nat /\ s.user \in Int /\ s.broker \in Int
      /\ s.addUser \in Int /\ s.addBroker \in Int
      /\ chain[c] \in ContractRecord /\ channels[c] \in ChannelRow
      /\ s.version = channels[c].version + 1 /\ channels[c].amount = chain[c].amount
      /\ \/ channels[c].status = "joining" /\ Waiting(c) = {JoinedLog(c)}
         \/ channels[c].status = "open" /\ Waiting(c) = {}
  BY <1>1, Submitted
<1>3. s.user + s.broker = chain[c].amount + s.addUser + s.addBroker
  BY <1>1 DEF Acceptable
<1>4. channels[c].amount \in Int /\ channels[c].version \in Nat /\ chain[c].amount \in Int
  BY <1>2 DEF ChannelRow, ContractRecord
<1>5. ASSUME NEW e, e.chan = c, e.type \in {"Resized", "Closed"}, NEW r,
             OneBehind(channels[c], r, {e})
      PROVE  /\ InPhase(c, channels[c], r, Waiting(c) \cup {e})
             /\ \A f \in Waiting(c) : Rank(f.type) < Rank(e.type)
  <2>1. e # JoinedLog(c)
    BY <1>5 DEF JoinedLog
  <2>2. CASE channels[c].status = "joining" /\ Waiting(c) = {JoinedLog(c)}
    <3>1. (Waiting(c) \cup {e}) \ {JoinedLog(c)} = {e}
      BY <2>1, <2>2
    <3>2. InPhase(c, channels[c], r, Waiting(c) \cup {e})
      BY <1>5, <2>2, <3>1 DEF InPhase
    <3>3. Rank(JoinedLog(c).type) < Rank(e.type)
      BY <1>5 DEF Rank, JoinedLog
    <3> QED
      BY <2>2, <3>2, <3>3
  <2>3. CASE channels[c].status = "open" /\ Waiting(c) = {}
    <3>1. Waiting(c) \cup {e} = {e}
      BY <2>3
    <3> QED
      BY <1>5, <2>3, <3>1 DEF InPhase
  <2> QED
    BY <1>2, <2>2, <2>3
<1>6. CASE ChainResize(s)
  <2> DEFINE e == [type |-> "Resized", chan |-> c, delta |-> s.addUser + s.addBroker]
             r == [chain[c] EXCEPT !.status = "active", !.version = s.version,
                                   !.amount = s.user + s.broker]
  <2>1. e \in Events /\ e.chan = c /\ e.type = "Resized" /\ e.delta = s.addUser + s.addBroker
    BY <1>2 DEF Events
  <2>2. Emit(NetworkOf[c], e)
    BY <1>6 DEF ChainResize
  <2>3. chain' = [chain EXCEPT ![c] = r]
    BY <1>2, <1>6 DEF ChainResize, Settle, TypeOK, CustodyTypeOK
  <2>4. r.status = "active" /\ r.version = s.version /\ r.amount = s.user + s.broker
    BY <1>2 DEF ContractRecord
  <2> HIDE DEF e, r
  <2>5. channels[c].amount + e.delta = r.amount /\ channels[c].version + 1 = r.version
    BY <1>2, <1>3, <1>4, <2>1, <2>4
  <2>6. OneBehind(channels[c], r, {e})
    BY <2>1, <2>4, <2>5 DEF OneBehind
  <2>7. /\ InPhase(c, channels[c], r, Waiting(c) \cup {e})
        /\ \A f \in Waiting(c) : Rank(f.type) < Rank(e.type)
    BY <1>5, <2>1, <2>6
  <2> QED
    BY <1>1, <1>2, <2>1, <2>2, <2>3, <2>7, ChainMoves
<1>7. CASE ChainClose(s)
  <2> DEFINE e == [type |-> "Closed", chan |-> c, user |-> s.user]
             r == [chain[c] EXCEPT !.status = "final", !.version = s.version, !.amount = 0]
  <2>1. e \in Events /\ e.chan = c /\ e.type = "Closed"
    BY <1>2 DEF Events
  <2>2. Emit(NetworkOf[c], e)
    BY <1>7 DEF ChainClose
  <2>3. chain' = [chain EXCEPT ![c] = r]
    BY <1>2, <1>7 DEF ChainClose, Settle, TypeOK, CustodyTypeOK
  <2>4. r.status = "final" /\ r.version = s.version
    BY <1>2 DEF ContractRecord
  <2> HIDE DEF e, r
  <2>5. OneBehind(channels[c], r, {e})
    BY <1>2, <2>1, <2>4 DEF OneBehind
  <2>6. /\ InPhase(c, channels[c], r, Waiting(c) \cup {e})
        /\ \A f \in Waiting(c) : Rank(f.type) < Rank(e.type)
    BY <1>5, <2>1, <2>5
  <2> QED
    BY <1>1, <1>2, <2>1, <2>2, <2>3, <2>6, ChainMoves
<1> QED
  BY <1>6, <1>7

-----------------------------------------------------------------------------
(* The listener's steps.                                                   *)

\* The listener receives a log of channel c, and its row becomes row.
LEMMA RowMoves ==
  ASSUME TypeOK, EventsKnown, Mirroring, NEW n \in Networks, events[n] # <<>>,
         NEW e, e = Head(events[n]), Receives(n, e), UNCHANGED settling,
         NEW row, channels' = [channels EXCEPT ![e.chan] = row],
         InPhase(e.chan, row, chain[e.chan], Waiting(e.chan) \ {e}),
         row.version \in Nat,
         channels[e.chan].status # "none" =>
           row.status # "none" /\ row.version >= channels[e.chan].version
  PROVE  Mirroring'
<1> DEFINE c == e.chan
<1>1. /\ c \in ChannelIds /\ Listening' /\ Waiting(c)' = Waiting(c) \ {e}
      /\ \A d \in ChannelIds \ {c} : Waiting(d)' = Waiting(d)
  BY ReceiveWaits DEF Mirroring
<1>2. UNCHANGED <<chain, signed>>
  BY DEF Receives, chainVars
<1>3. channels'[c] = row /\ \A d \in ChannelIds \ {c} : channels'[d] = channels[d]
  BY <1>1 DEF TypeOK, DBTypeOK
<1>4. Phases'
  <2>1. ASSUME NEW d \in ChannelIds
        PROVE  InPhase(d, channels'[d], chain'[d], Waiting(d)')
    <3>1. CASE d = c
      BY <1>1, <1>2, <1>3, <3>1
    <3>2. CASE d # c
      BY <1>1, <1>2, <1>3, <3>2 DEF Mirroring, Phases
    <3> QED
      BY <3>1, <3>2
  <2> QED
    BY <2>1 DEF Phases
<1>5. \A d \in ChannelIds : channels[d].version \in Nat /\ channels'[d].version \in Nat
  BY <1>3 DEF TypeOK, DBTypeOK, ChannelRow
<1>6. \A d \in ChannelIds : channels[d].status # "none" =>
        channels'[d].status # "none" /\ channels'[d].version >= channels[d].version
  BY <1>3, <1>5
<1>7. NoneAhead'
  <2>1. ASSUME NEW d \in ChannelIds, settling[d] # NoRequest
        PROVE  channels'[d].status # "none" /\ settling[d].version <= channels'[d].version
    <3>1. channels[d].status # "none" /\ settling[d].version <= channels[d].version
      BY <2>1 DEF Mirroring, NoneAhead
    <3>2. settling[d].version \in Nat
      BY <2>1 DEF TypeOK, SettlementTypeOK, Requests
    <3> QED
      BY <1>5, <1>6, <3>1, <3>2
  <2>2. ASSUME NEW s \in signed
        PROVE  channels'[s.chan].status # "none" /\ s.version <= channels'[s.chan].version + 1
    <3>1. channels[s.chan].status # "none" /\ s.version <= channels[s.chan].version + 1
      BY <2>2 DEF Mirroring, NoneAhead
    <3>2. s.version \in Nat /\ s.chan \in ChannelIds
      BY <2>2 DEF TypeOK, CustodyTypeOK, SignedStates
    <3> QED
      BY <1>5, <1>6, <3>1, <3>2
  <2> QED
    BY <1>2, <2>1, <2>2 DEF NoneAhead
<1> QED
  BY <1>1, <1>4, <1>7 DEF Mirroring

\* What a log at the head of the queue says of its channel.
LEMMA HeadPhase ==
  ASSUME TypeOK, EventsKnown, Mirroring, NEW n \in Networks, events[n] # <<>>,
         NEW e, e = Head(events[n]), Receives(n, e)
  PROVE  /\ e.type = "Created" =>
              /\ channels[e.chan].status = "none" /\ chain[e.chan].status = "initial"
              /\ chain[e.chan].version = 0 /\ ~chain[e.chan].joining
              /\ Waiting(e.chan) = {e} /\ e.amount = chain[e.chan].amount
         /\ e.type = "Joined" =>
              /\ e = JoinedLog(e.chan) /\ channels[e.chan].status = "joining"
              /\ OneBehind(channels[e.chan], chain[e.chan], Waiting(e.chan) \ {e})
         /\ e.type = "Resized" =>
              /\ channels[e.chan].status = "open" /\ chain[e.chan].status = "active"
              /\ Waiting(e.chan) = {e}
              /\ channels[e.chan].amount + e.delta = chain[e.chan].amount
              /\ channels[e.chan].version + 1 = chain[e.chan].version
         /\ e.type = "Closed" =>
              /\ channels[e.chan].status = "open" /\ chain[e.chan].status = "final"
              /\ Waiting(e.chan) = {e}
              /\ channels[e.chan].version + 1 = chain[e.chan].version
<1> DEFINE c == e.chan
<1>1. /\ e \in Events /\ c \in ChannelIds /\ e \in Waiting(c)
      /\ \A f \in Waiting(c) \ {e} : Rank(e.type) < Rank(f.type)
  BY ReceiveWaits DEF Mirroring
<1>2. InPhase(c, channels[c], chain[c], Waiting(c))
  BY <1>1 DEF Mirroring, Phases
<1> HIDE DEF c
<1>3. CASE e.type = "Created"
  <2>1. e # JoinedLog(c)
    BY <1>3 DEF JoinedLog
  <2>2. \A waits : e \in waits => ~OneBehind(channels[c], chain[c], waits)
    BY <1>3 DEF OneBehind
  <2>3. e \notin {JoinedLog(c)} /\ e \in Waiting(c) \ {JoinedLog(c)}
    BY <1>1, <2>1
  <2>4. /\ channels[c].status = "none" /\ chain[c].status = "initial"
        /\ chain[c].version = 0 /\ ~chain[c].joining
        /\ Waiting(c) \subseteq {CreatedLog(c, chain[c].amount)}
    BY <1>1, <1>2, <2>2, <2>3 DEF InPhase
  <2>5. e = CreatedLog(c, chain[c].amount)
    BY <1>1, <2>4
  <2>6. e.amount = chain[c].amount
    BY <2>5 DEF CreatedLog
  <2> QED
    BY <1>1, <1>3, <2>4, <2>5, <2>6 DEF c
<1>4. CASE e.type = "Joined"
  <2>1. e = JoinedLog(c)
    BY <1>1, <1>4 DEF Events, JoinedLog, c
  <2>2. \A waits : e \in waits => ~OneBehind(channels[c], chain[c], waits)
    BY <1>4 DEF OneBehind
  <2>3. e \notin {CreatedLog(c, chain[c].amount)}
    BY <1>4 DEF CreatedLog
  <2>4. /\ channels[c].status = "joining"
        /\ OneBehind(channels[c], chain[c], Waiting(c) \ {JoinedLog(c)})
    BY <1>1, <1>2, <2>2, <2>3 DEF InPhase
  <2> QED
    BY <1>4, <2>1, <2>4 DEF c
<1>5. CASE e.type \in {"Resized", "Closed"}
  <2>1. e \notin {CreatedLog(c, chain[c].amount)} /\ e # JoinedLog(c)
    BY <1>5 DEF CreatedLog, JoinedLog
  <2>2. JoinedLog(c) \notin Waiting(c)
    <3>1. ~(Rank(e.type) < Rank(JoinedLog(c).type))
      BY <1>5 DEF Rank, JoinedLog
    <3> QED
      BY <1>1, <2>1, <3>1
  <2>3. channels[c].status = "open" /\ OneBehind(channels[c], chain[c], Waiting(c))
    BY <1>1, <1>2, <2>1, <2>2 DEF InPhase
  <2>4. CASE e.type = "Resized"
    BY <1>1, <2>3, <2>4 DEF OneBehind, c
  <2>5. CASE e.type = "Closed"
    BY <1>1, <2>3, <2>5 DEF OneBehind, c
  <2> QED
    BY <1>5, <2>4, <2>5
<1> QED
  BY <1>3, <1>4, <1>5

\* The listener handles a log.
LEMMA MirrorHandles ==
  ASSUME TypeOK, EventsKnown, Mirroring, NEW n \in Networks, HandleEvent(n),
         UNCHANGED settling
  PROVE  Mirroring'
<1> DEFINE e == Head(events[n])
           c == e.chan
<1>1. /\ events[n] # <<>>
      /\ \/ HandleCreated(n, e) \/ HandleJoined(n, e) \/ HandleClosed(n, e)
         \/ HandleResized(n, e) \/ IgnoreEvent(n, e)
  BY DEF HandleEvent
<1>2. Receives(n, e)
  BY <1>1 DEF HandleCreated, HandleJoined, HandleClosed, HandleResized, IgnoreEvent
<1>3. e \in Events /\ c \in ChannelIds /\ channels \in [ChannelIds -> ChannelRow]
      /\ chain[c] \in ContractRecord
  BY <1>1, HeadKnown DEF TypeOK, DBTypeOK, CustodyTypeOK
<1>4. /\ e.type = "Created" =>
           /\ channels[c].status = "none" /\ chain[c].status = "initial"
           /\ chain[c].version = 0 /\ ~chain[c].joining
           /\ Waiting(c) = {e} /\ e.amount = chain[c].amount
      /\ e.type = "Joined" =>
           /\ e = JoinedLog(c) /\ channels[c].status = "joining"
           /\ OneBehind(channels[c], chain[c], Waiting(c) \ {e})
      /\ e.type = "Resized" =>
           /\ channels[c].status = "open" /\ chain[c].status = "active"
           /\ Waiting(c) = {e}
           /\ channels[c].amount + e.delta = chain[c].amount
           /\ channels[c].version + 1 = chain[c].version
      /\ e.type = "Closed" =>
           /\ channels[c].status = "open" /\ chain[c].status = "final"
           /\ Waiting(c) = {e}
           /\ channels[c].version + 1 = chain[c].version
  BY <1>1, <1>2, HeadPhase
<1> HIDE DEF e
<1>5. channels[c] \in ChannelRow /\ channels[c].version \in Nat
  BY <1>3 DEF ChannelRow
<1>6. CASE HandleCreated(n, e)
  <2> DEFINE row == [status |-> "joining", version |-> 0, amount |-> e.amount]
  <2>1. channels' = [channels EXCEPT ![c] = row] /\ e.type = "Created"
    BY <1>6 DEF HandleCreated
  <2>2. InPhase(c, row, chain[c], Waiting(c) \ {e})
    <3>1. row.status = "joining" /\ row.amount = chain[c].amount /\ row.version = chain[c].version
      BY <1>4, <2>1
    <3>2. Waiting(c) \ {e} = {} /\ chain[c].status = "initial"
      BY <1>4, <2>1
    <3> HIDE DEF row
    <3> QED
      BY <3>1, <3>2 DEF InPhase
  <2>3. row.version \in Nat /\ channels[c].status = "none"
    BY <1>4, <2>1
  <2> HIDE DEF row
  <2> QED
    BY <1>1, <1>2, <2>1, <2>2, <2>3, RowMoves DEF e
<1>7. CASE HandleJoined(n, e)
  <2> DEFINE row == [channels[c] EXCEPT !.status = "open"]
  <2>1. channels' = [channels EXCEPT ![c] = row] /\ e.type = "Joined"
    BY <1>3, <1>7 DEF HandleJoined
  <2>2. row.status = "open" /\ row.version = channels[c].version /\ row.amount = channels[c].amount
    BY <1>5 DEF ChannelRow
  <2> HIDE DEF row
  <2>3. InPhase(c, row, chain[c], Waiting(c) \ {e})
    BY <1>4, <2>1, <2>2 DEF InPhase, OneBehind
  <2>4. row.version \in Nat /\ row.status # "none" /\ row.version >= channels[c].version
    BY <1>5, <2>2
  <2> QED
    BY <1>1, <1>2, <2>1, <2>3, <2>4, RowMoves DEF e
<1>8. CASE HandleResized(n, e)
  <2> DEFINE row == [channels[c] EXCEPT !.version = @ + 1, !.amount = @ + e.delta]
  <2>1. channels' = [channels EXCEPT ![c] = row] /\ e.type = "Resized"
    BY <1>3, <1>8 DEF HandleResized
  <2>2. /\ row.status = channels[c].status /\ row.version = channels[c].version + 1
        /\ row.amount = channels[c].amount + e.delta
    BY <1>5 DEF ChannelRow
  <2> HIDE DEF row
  <2>3. Waiting(c) \ {e} = {}
    BY <1>4, <2>1
  <2>4. InPhase(c, row, chain[c], Waiting(c) \ {e})
    BY <1>4, <2>1, <2>2, <2>3 DEF InPhase, OneBehind
  <2>5. row.version \in Nat /\ row.status # "none" /\ row.version >= channels[c].version
    BY <1>4, <1>5, <2>1, <2>2
  <2> QED
    BY <1>1, <1>2, <2>1, <2>4, <2>5, RowMoves DEF e
<1>9. CASE HandleClosed(n, e)
  <2> DEFINE row == [status |-> "closed", version |-> channels[c].version + 1, amount |-> 0]
  <2>1. channels' = [channels EXCEPT ![c] = row] /\ e.type = "Closed"
    BY <1>3, <1>9 DEF HandleClosed
  <2>2. row.status = "closed" /\ row.version = channels[c].version + 1
    OBVIOUS
  <2> HIDE DEF row
  <2>3. Waiting(c) \ {e} = {}
    BY <1>4, <2>1
  <2>4. InPhase(c, row, chain[c], Waiting(c) \ {e})
    BY <1>4, <2>1, <2>2, <2>3 DEF InPhase
  <2>5. row.version \in Nat /\ row.status # "none" /\ row.version >= channels[c].version
    BY <1>5, <2>2
  <2> QED
    BY <1>1, <1>2, <2>1, <2>4, <2>5, RowMoves DEF e
<1>10. CASE IgnoreEvent(n, e)
  <2>1. e.type = "Created" /\ UNCHANGED channels
    <3>1. e.type # "Created" => channels[c].status = "none"
      BY <1>10 DEF IgnoreEvent
    <3>2. e.type \in {"Created", "Joined", "Closed", "Resized"}
      BY <1>3 DEF Events
    <3> QED
      BY <1>4, <1>10, <3>1, <3>2 DEF IgnoreEvent, dbVars
  <2>2. channels' = [channels EXCEPT ![c] = channels[c]]
    BY <1>3, <2>1
  <2>3. Waiting(c) \ {e} = {}
    BY <1>4, <2>1
  <2>4. InPhase(c, channels[c], chain[c], Waiting(c) \ {e})
    BY <1>4, <2>1, <2>3 DEF InPhase
  <2> QED
    BY <1>1, <1>2, <1>4, <1>5, <2>1, <2>2, <2>4, RowMoves DEF e
<1> QED
  BY <1>1, <1>6, <1>7, <1>8, <1>9, <1>10

-----------------------------------------------------------------------------
(* The other steps.                                                        *)

\* A step that moves no log and no row, but maybe the joining flag of a row
\* that is being joined.
LEMMA MirrorFrame ==
  ASSUME Mirroring, UNCHANGED <<events, subscribed, channels>>,
         \A c \in ChannelIds :
           /\ chain'[c].status = chain[c].status /\ chain'[c].version = chain[c].version
           /\ chain'[c].amount = chain[c].amount
           /\ chain'[c].joining = chain[c].joining \/ channels[c].status = "joining"
  PROVE  Listening' /\ Phases'
<1>1. \A c \in ChannelIds : Waiting(c)' = Waiting(c)
  BY DEF Waiting
<1>2. ASSUME NEW c \in ChannelIds
      PROVE  InPhase(c, channels[c], chain'[c], Waiting(c))
  <2>1. InPhase(c, channels[c], chain[c], Waiting(c))
    BY DEF Mirroring, Phases
  <2> QED
    BY <2>1, PhaseStays
<1> QED
  BY <1>1, <1>2 DEF Mirroring, Listening, Phases

\* A request is read, or signed, or refused: what it names is not ahead.
LEMMA MirrorSigns ==
  ASSUME TypeOK, Mirroring, NEW c \in ChannelIds, SettleStep(c)
  PROVE  Mirroring'
<1>1. UNCHANGED <<events, subscribed, channels, chain>>
  BY DEF SettleStep, ReadSome, ReadChannel, SignResize, SignClose, RefuseSettlement, Reply,
         custodyVars, chainVars, listenerVars, dbVars
<1>2. Listening' /\ Phases'
  BY <1>1, MirrorFrame
<1>3. settling \in [ChannelIds -> Requests] /\ channels \in [ChannelIds -> ChannelRow]
  BY DEF TypeOK, SettlementTypeOK, DBTypeOK
<1>4. channels[c].version \in Nat
  BY <1>3 DEF ChannelRow
<1>5. CASE ReadSome(c)
  <2>1. PICK kind, change : ReadChannel(c, kind, change)
    BY <1>5 DEF ReadSome
  <2> DEFINE r == [kind |-> kind, change |-> change, amount |-> channels[c].amount,
                   version |-> channels[c].version]
  <2>2. /\ settling' = [settling EXCEPT ![c] = r] /\ channels[c].status # "none"
        /\ UNCHANGED signed
    BY <2>1 DEF ReadChannel, custodyVars
  <2>3. r.version = channels[c].version
    OBVIOUS
  <2> HIDE DEF r
  <2>4. settling'[c] = r /\ \A d \in ChannelIds \ {c} : settling'[d] = settling[d]
    BY <1>3, <2>2
  <2>5. NoneAhead'
    BY <1>1, <1>4, <2>2, <2>3, <2>4 DEF Mirroring, NoneAhead
  <2> QED
    BY <1>2, <2>5 DEF Mirroring
<1>6. CASE SignResize(c) \/ SignClose(c) \/ RefuseSettlement(c)
  <2>1. settling' = [settling EXCEPT ![c] = NoRequest] /\ settling[c].kind \in {"resize", "close"}
    BY <1>6 DEF SignResize, SignClose, RefuseSettlement, Reply
  <2>2. settling'[c] = NoRequest /\ \A d \in ChannelIds \ {c} : settling'[d] = settling[d]
    BY <1>3, <2>1
  <2>3. settling[c] # NoRequest
    BY <2>1 DEF NoRequest
  <2>4. channels[c].status # "none" /\ settling[c].version <= channels[c].version
    BY <2>3 DEF Mirroring, NoneAhead
  <2>5. settling[c].version \in Nat
    BY <1>3, <2>3 DEF Requests
  <2>6. \A s \in signed' : s \in signed \/ (s.chan = c /\ s.version = settling[c].version + 1)
    BY <1>6 DEF SignResize, SignClose, RefuseSettlement, ResizeState, CloseState
  <2>7. \A s \in signed' :
          channels[s.chan].status # "none" /\ s.version <= channels[s.chan].version + 1
    <3>1. ASSUME NEW s \in signed', s.chan = c, s.version = settling[c].version + 1
          PROVE  channels[s.chan].status # "none" /\ s.version <= channels[s.chan].version + 1
      BY <1>4, <2>4, <2>5, <3>1
    <3> QED
      BY <2>6, <3>1 DEF Mirroring, NoneAhead
  <2>8. NoneAhead'
    BY <1>1, <2>2, <2>7 DEF Mirroring, NoneAhead
  <2> QED
    BY <1>2, <2>8 DEF Mirroring
<1> QED
  BY <1>5, <1>6 DEF SettleStep

\* A step without faults.
LEMMA ReliableMirrors ==
  ASSUME TypeOK, Wiring, Mirroring, [ReliableNext]_vars
  PROVE  Mirroring'
<1>1. CASE ChainStep
  <2>1. UNCHANGED <<settling, signed, channels>>
    BY <1>1 DEF ChainStep, ChainCreate, ChainJoin, ChainResize, ChainClose, dbVars
  <2>2. Listening' /\ Phases'
    BY <1>1, MirrorOpens, MirrorSettles DEF ChainStep
  <2> QED
    BY <2>1, <2>2 DEF Mirroring, NoneAhead
<1>2. ASSUME NEW n \in Networks, HandleEvent(n), UNCHANGED settling
      PROVE  Mirroring'
  BY <1>2, MirrorHandles DEF Wiring
<1>3. ASSUME NEW n \in Networks, CreatedStep(n), UNCHANGED settling
      PROVE  Mirroring'
  <2>1. UNCHANGED <<events, subscribed, channels, signed>>
    BY <1>3 DEF CreatedStep, JoinSucceeds, RecordCredit, dbVars
  <2>2. CASE JoinSucceeds(n)
    <3> DEFINE c == handler[n].chan
    <3>1. handler[n].step = "join" /\ chain' = [chain EXCEPT ![c].joining = TRUE]
      BY <2>2 DEF JoinSucceeds
    <3>2. handler[n] # Idle /\ c \in ChannelIds
      BY <3>1, HandlerBusy
    <3>3. channels[c].status = "joining"
      BY <3>2 DEF Wiring, HandlerOwnsRow
    <3>4. chain \in [ChannelIds -> ContractRecord] /\ chain[c] \in ContractRecord
      BY <3>2 DEF TypeOK, CustodyTypeOK
    <3>5. /\ chain'[c] = [chain[c] EXCEPT !.joining = TRUE]
          /\ \A d \in ChannelIds \ {c} : chain'[d] = chain[d]
      BY <3>1, <3>2, <3>4
    <3> HIDE DEF c
    <3>6. /\ chain'[c].status = chain[c].status /\ chain'[c].version = chain[c].version
          /\ chain'[c].amount = chain[c].amount
      BY <3>4, <3>5 DEF ContractRecord
    <3>7. \A d \in ChannelIds :
            /\ chain'[d].status = chain[d].status /\ chain'[d].version = chain[d].version
            /\ chain'[d].amount = chain[d].amount
            /\ chain'[d].joining = chain[d].joining \/ channels[d].status = "joining"
      BY <3>3, <3>5, <3>6
    <3>8. Listening' /\ Phases'
      BY <2>1, <3>7, MirrorFrame
    <3> QED
      BY <1>3, <2>1, <3>8 DEF Mirroring, NoneAhead
  <2>3. CASE RecordCredit(n)
    <3>1. UNCHANGED chain
      BY <2>3 DEF RecordCredit, chainVars
    <3>2. Listening' /\ Phases'
      BY <2>1, <3>1, MirrorFrame
    <3> QED
      BY <1>3, <2>1, <3>2 DEF Mirroring, NoneAhead
  <2> QED
    BY <1>3, <2>2, <2>3 DEF CreatedStep
<1>4. ASSUME NEW v \in AppIds, AppStep(v)
      PROVE  Mirroring'
  <2>1. UNCHANGED <<events, subscribed, channels, chain, signed, settling>>
    BY <1>4 DEF AppStep, CreateSome, CloseSome, CreateApplication, CloseApplication,
                custodyVars, chainVars, listenerVars
  <2>2. Listening' /\ Phases'
    BY <2>1, MirrorFrame
  <2> QED
    BY <2>1, <2>2 DEF Mirroring, NoneAhead
<1>5. CASE UNCHANGED vars
  <2>1. UNCHANGED <<events, subscribed, channels, chain, signed, settling>>
    BY <1>5 DEF vars, dbVars, custodyVars, chainVars, listenerVars
  <2>2. Listening' /\ Phases'
    BY <2>1, MirrorFrame
  <2> QED
    BY <2>1, <2>2 DEF Mirroring, NoneAhead
<1> QED
  BY <1>1, <1>2, <1>3, <1>4, <1>5, MirrorSigns DEF ReliableNext, ListenerStep

\* At first nothing waits and there is neither row nor channel.
LEMMA ReliableStarts == ReliableInit => Mirroring
<1> SUFFICES ASSUME ReliableInit PROVE Mirroring
  OBVIOUS
<1>1. Listening
  <2>1. \A n \in Networks : subscribed[n] /\ events[n] = <<>>
    BY DEF ReliableInit, Init, CustodyInit
  <2>2. InOrder(<<>>)
    BY DEF InOrder
  <2> QED
    BY <2>1, <2>2 DEF Listening
<1>2. \A c \in ChannelIds : Waiting(c) = {}
  <2>1. \A c \in ChannelIds : events[NetworkOf[c]] = <<>>
    BY IdsAssumption DEF ReliableInit, Init, CustodyInit
  <2> QED
    BY <2>1 DEF Waiting, Of
<1>3. \A c \in ChannelIds :
        /\ channels[c].status = "none" /\ chain[c].status = "void"
        /\ chain[c].version = 0 /\ chain[c].joining = FALSE
  BY DEF ReliableInit, Init, CustodyInit, DBInit
<1>4. Phases
  BY <1>2, <1>3 DEF Phases, InPhase
<1>5. NoneAhead
  BY DEF ReliableInit, Init, CustodyInit, SettlementInit, NoneAhead
<1> QED
  BY <1>1, <1>4, <1>5 DEF Mirroring

\* Without faults the rows are where the waiting logs say.
LEMMA ReliableInductive == ReliableSpec => [](IInv /\ Mirroring)
<1>1. ReliableInit => IInv /\ Mirroring
  BY InitIInv, ReliableStarts DEF ReliableInit
<1>2. IInv /\ Mirroring /\ [ReliableNext]_vars => (IInv /\ Mirroring)'
  <2>1. [ReliableNext]_vars => [Next]_vars
    BY DEF Next
  <2> QED
    BY <2>1, NextIInv, ReliableMirrors DEF IInv
<1> QED
  BY <1>1, <1>2, PTL DEF ReliableSpec

\* Without faults the row of an open channel has the amount and the version of
\* the contract, unless a log of a resize or a close still waits: the listener
\* applies each once and in order, and nothing that clients submit, from reads
\* however stale, gets the contract more than one settlement ahead.
THEOREM RowsMirrorChain == ReliableSpec => []MirrorsChain
<1>1. IInv /\ Mirroring => MirrorsChain
  <2> SUFFICES ASSUME IInv, Mirroring, NEW c \in ChannelIds,
                      channels[c].status = "open", ~Pending(c, {"Resized", "Closed"})
               PROVE  /\ chain[c].status = "active"
                      /\ channels[c].amount = chain[c].amount
                      /\ channels[c].version = chain[c].version
    BY DEF MirrorsChain
  <2>1. OneBehind(channels[c], chain[c], Waiting(c))
    BY DEF Mirroring, Phases, InPhase
  <2>2. \A e \in Waiting(c) : e.type \notin {"Resized", "Closed"}
    BY IdsAssumption DEF Pending, Waiting, Of
  <2> QED
    BY <2>1, <2>2 DEF OneBehind
<1> QED
  BY <1>1, ReliableInductive, PTL

-----------------------------------------------------------------------------
(* A close pays what the journal owes, where clients settle one thing at a *)
(* time.  The state was signed with the balance of that moment; the proof  *)
(* carries that nothing moves the balance as long as the state counts.     *)

\* Nothing is settled before the deposit is credited.
CreditedFirst ==
  \A c \in ChannelIds : channels[c].status = "joining" =>
    /\ settling[c] = NoRequest /\ \A s \in signed : s.chan # c
    /\ Waiting(c) \subseteq {JoinedLog(c)}

\* A close that the contract would still take pays what the journal owes.
ClosesFresh ==
  \A s \in signed :
    /\ s.kind = "close" /\ chain[s.chan].status = "active"
    /\ s.version > chain[s.chan].version
    => s.user = balance[s.chan][Owner[s.chan]]

\* A close whose log waits has paid what the journal owes.
PaidOut ==
  \A c \in ChannelIds : \A e \in Waiting(c) :
    e.type = "Closed" => e.user = balance[c][Owner[c]]

Paying == CreditedFirst /\ ClosesFresh /\ PaidOut

\* What waits after the contract has moved.
LEMMA ChainWaits ==
  ASSUME TypeOK, Mirroring, ChainStep
  PROVE  \E c \in ChannelIds : \E e \in Events :
           /\ e.chan = c /\ Waiting(c)' \subseteq Waiting(c) \cup {e}
           /\ \A d \in ChannelIds \ {c} : Waiting(d)' = Waiting(d) /\ chain'[d] = chain[d]
           /\ \/ \E amount \in Deposits : ChainCreate(c, amount) /\ e.type = "Created"
              \/ ChainJoin(c) /\ e = JoinedLog(c)
              \/ \E s \in signed : s.chan = c /\ ChainResize(s) /\ e.type = "Resized"
              \/ \E s \in signed :
                   s.chan = c /\ ChainClose(s) /\ e.type = "Closed" /\ e.user = s.user
<1>1. ASSUME NEW c \in ChannelIds, NEW e \in Events, e.chan = c, Emit(NetworkOf[c], e),
             NEW r, chain' = [chain EXCEPT ![c] = r]
      PROVE  /\ Waiting(c)' \subseteq Waiting(c) \cup {e}
             /\ \A d \in ChannelIds \ {c} : Waiting(d)' = Waiting(d) /\ chain'[d] = chain[d]
  <2> DEFINE n == NetworkOf[c]
  <2>1. /\ n \in Networks /\ events \in [Networks -> Seq(Events)] /\ events[n] \in Seq(Events)
        /\ \A d \in ChannelIds : NetworkOf[d] \in Networks
    BY IdsAssumption DEF TypeOK, CustodyTypeOK
  <2>2. events' = [events EXCEPT ![n] = Append(@, e)]
    BY <1>1, <2>1 DEF Emit, Mirroring, Listening
  <2>3. events'[n] = Append(events[n], e) /\ \A m \in Networks \ {n} : events'[m] = events[m]
    BY <2>1, <2>2
  <2>4. ASSUME NEW d \in ChannelIds
        PROVE  Waiting(d)' = IF d = c THEN Waiting(d) \cup {e} ELSE Waiting(d)
    <3>1. CASE NetworkOf[d] = n
      <4>1. Of(Append(events[n], e), d) =
              IF e.chan = d THEN Of(events[n], d) \cup {e} ELSE Of(events[n], d)
        BY <2>1, AppendOf
      <4> QED
        BY <1>1, <2>3, <3>1, <4>1 DEF Waiting
    <3>2. CASE NetworkOf[d] # n
      BY <2>1, <2>3, <3>2 DEF Waiting
    <3> QED
      BY <3>1, <3>2
  <2>5. \A d \in ChannelIds \ {c} : chain'[d] = chain[d]
    BY <1>1 DEF TypeOK, CustodyTypeOK
  <2> QED
    BY <2>4, <2>5
<1>2. ASSUME NEW c \in ChannelIds, NEW amount \in Deposits, ChainCreate(c, amount)
      PROVE  \E e \in Events :
           /\ e.chan = c /\ e.type = "Created" /\ Waiting(c)' \subseteq Waiting(c) \cup {e}
           /\ \A d \in ChannelIds \ {c} : Waiting(d)' = Waiting(d) /\ chain'[d] = chain[d]
  <2> DEFINE e == [type |-> "Created", chan |-> c, amount |-> amount]
  <2>1. e \in Events /\ e.chan = c /\ e.type = "Created"
    BY CustodyAssumption DEF Events
  <2>2. PICK r : chain' = [chain EXCEPT ![c] = r]
    BY <1>2 DEF ChainCreate, TypeOK, CustodyTypeOK
  <2>3. Emit(NetworkOf[c], e)
    BY <1>2 DEF ChainCreate
  <2> HIDE DEF e
  <2> QED
    BY <1>1, <2>1, <2>2, <2>3
<1>3. ASSUME NEW c \in ChannelIds, ChainJoin(c)
      PROVE  /\ JoinedLog(c) \in Events /\ JoinedLog(c).chan = c
             /\ Waiting(c)' \subseteq Waiting(c) \cup {JoinedLog(c)}
             /\ \A d \in ChannelIds \ {c} : Waiting(d)' = Waiting(d) /\ chain'[d] = chain[d]
  <2>1. JoinedLog(c) \in Events /\ JoinedLog(c).chan = c
    BY DEF Events, JoinedLog
  <2>2. PICK r : chain' = [chain EXCEPT ![c] = r]
    BY <1>3 DEF ChainJoin, TypeOK, CustodyTypeOK
  <2>3. Emit(NetworkOf[c], JoinedLog(c))
    BY <1>3 DEF ChainJoin, JoinedLog
  <2> QED
    BY <1>1, <2>1, <2>2, <2>3
<1>4. ASSUME NEW s \in signed, ChainResize(s) \/ ChainClose(s)
      PROVE  /\ s.chan \in ChannelIds
             /\ \E e \in Events :
                  /\ e.chan = s.chan /\ Waiting(s.chan)' \subseteq Waiting(s.chan) \cup {e}
                  /\ \A d \in ChannelIds \ {s.chan} : Waiting(d)' = Waiting(d) /\ chain'[d] = chain[d]
                  /\ \/ ChainResize(s) /\ e.type = "Resized"
                     \/ ChainClose(s) /\ e.type = "Closed" /\ e.user = s.user
  <2>1. /\ s.chan \in ChannelIds /\ s.user \in Int
        /\ s.addUser \in Int /\ s.addBroker \in Int
    BY DEF TypeOK, CustodyTypeOK, SignedStates
  <2>2. PICK r : chain' = [chain EXCEPT ![s.chan] = r]
    BY ZenonT(60), <1>4, <2>1 DEF ChainResize, ChainClose, Settle, TypeOK, CustodyTypeOK
  <2>3. CASE ChainResize(s)
    <3> DEFINE e == [type |-> "Resized", chan |-> s.chan, delta |-> s.addUser + s.addBroker]
    <3>1. e \in Events /\ e.chan = s.chan /\ e.type = "Resized"
      BY <2>1 DEF Events
    <3>2. Emit(NetworkOf[s.chan], e)
      BY <2>3 DEF ChainResize
    <3> HIDE DEF e
    <3> QED
      BY <1>1, <2>1, <2>2, <2>3, <3>1, <3>2
  <2>4. CASE ChainClose(s)
    <3> DEFINE e == [type |-> "Closed", chan |-> s.chan, user |-> s.user]
    <3>1. e \in Events /\ e.chan = s.chan /\ e.type = "Closed" /\ e.user = s.user
      BY <2>1 DEF Events
    <3>2. Emit(NetworkOf[s.chan], e)
      BY <2>4 DEF ChainClose
    <3> HIDE DEF e
    <3> QED
      BY <1>1, <2>1, <2>2, <2>4, <3>1, <3>2
  <2> QED
    BY <1>4, <2>3, <2>4
<1>5. CASE \E c \in ChannelIds : \E amount \in Deposits : ChainCreate(c, amount)
  BY <1>2, <1>5
<1>6. CASE \E c \in ChannelIds : ChainJoin(c)
  BY <1>3, <1>6
<1>7. CASE \E s \in signed : ChainResize(s) \/ ChainClose(s)
  BY <1>4, <1>7
<1> QED
  BY <1>5, <1>6, <1>7 DEF ChainStep

\* A step of the contract.
LEMMA PayChain ==
  ASSUME TypeOK, Mirroring, Paying, ChainStep
  PROVE  Paying'
<1>1. UNCHANGED <<settling, signed, channels, balance>>
  BY DEF ChainStep, ChainCreate, ChainJoin, ChainResize, ChainClose, dbVars
<1>2. PICK c \in ChannelIds, e \in Events :
        /\ e.chan = c /\ Waiting(c)' \subseteq Waiting(c) \cup {e}
        /\ \A d \in ChannelIds \ {c} : Waiting(d)' = Waiting(d) /\ chain'[d] = chain[d]
        /\ \/ \E amount \in Deposits : ChainCreate(c, amount) /\ e.type = "Created"
           \/ ChainJoin(c) /\ e = JoinedLog(c)
           \/ \E s \in signed : s.chan = c /\ ChainResize(s) /\ e.type = "Resized"
           \/ \E s \in signed :
                s.chan = c /\ ChainClose(s) /\ e.type = "Closed" /\ e.user = s.user
  BY ChainWaits
<1>3. InPhase(c, channels[c], chain[c], Waiting(c)) /\ chain[c] \in ContractRecord
  BY DEF Mirroring, Phases, TypeOK, CustodyTypeOK
<1>4. chain \in [ChannelIds -> ContractRecord] /\ \A s \in signed : s.version \in Nat /\ s.chan \in ChannelIds
  BY DEF TypeOK, CustodyTypeOK, SignedStates
<1>5. CASE \E amount \in Deposits : ChainCreate(c, amount) /\ e.type = "Created"
  <2>1. chain[c].status = "void" /\ chain'[c].status = "initial"
    BY <1>3, <1>4, <1>5 DEF ChainCreate, ContractRecord
  <2>2. channels[c].status = "none"
    BY <1>3, <2>1 DEF InPhase, OneBehind
  <2>3. CreditedFirst'
    BY <1>1, <1>2, <2>2 DEF Paying, CreditedFirst
  <2>4. ClosesFresh'
    BY <1>1, <1>2, <1>4, <2>1 DEF Paying, ClosesFresh
  <2>5. PaidOut'
    BY <1>1, <1>2, <1>5 DEF Paying, PaidOut
  <2> QED
    BY <2>3, <2>4, <2>5 DEF Paying
<1>6. CASE ChainJoin(c) /\ e = JoinedLog(c)
  <2>1. chain[c].status = "initial" /\ e.type = "Joined"
    BY <1>6 DEF ChainJoin, JoinedLog
  <2>2. channels[c].status \in {"none", "joining"}
    BY <1>3, <2>1 DEF InPhase, OneBehind
  <2>3. \A s \in signed : s.chan # c
    BY <2>2 DEF Mirroring, NoneAhead, Paying, CreditedFirst
  <2>4. CreditedFirst'
    BY <1>1, <1>2, <1>6 DEF Paying, CreditedFirst
  <2>5. ClosesFresh'
    BY <1>1, <1>2, <1>4, <2>3 DEF Paying, ClosesFresh
  <2>6. PaidOut'
    BY <1>1, <1>2, <2>1 DEF Paying, PaidOut
  <2> QED
    BY <2>4, <2>5, <2>6 DEF Paying
<1>7. ASSUME NEW s \in signed, s.chan = c, Acceptable(s), chain'[c].version = s.version,
             \/ chain'[c].status = "active" /\ e.type = "Resized"
             \/ chain'[c].status = "final" /\ (e.type = "Closed" => e.user = s.user)
                /\ s.kind = "close"
      PROVE  Paying'
  <2>1. chain[c].status = "active" /\ s.version > chain[c].version
    BY <1>7 DEF Acceptable
  <2>2. s.version \in Nat /\ chain[c].version \in Nat
    BY <1>3, <1>4 DEF ContractRecord
  <2>3. channels[c].status # "joining"
    BY <1>7 DEF Paying, CreditedFirst
  <2>4. CreditedFirst'
    BY <1>1, <1>2, <2>3 DEF Paying, CreditedFirst
  <2>5. ASSUME NEW t \in signed, t.kind = "close", chain'[t.chan].status = "active",
               t.version > chain'[t.chan].version
        PROVE  t.user = balance[t.chan][Owner[t.chan]]
    <3>1. CASE t.chan = c
      <4>1. t.version > chain[c].version
        BY <1>4, <1>7, <2>1, <2>2, <2>5, <3>1
      <4> QED
        BY <2>1, <2>5, <3>1, <4>1 DEF Paying, ClosesFresh
    <3>2. CASE t.chan # c
      BY <1>2, <1>4, <2>5, <3>2 DEF Paying, ClosesFresh
    <3> QED
      BY <3>1, <3>2
  <2>6. ClosesFresh'
    BY <1>1, <2>5 DEF ClosesFresh
  <2>7. e.type = "Closed" => e.user = balance[c][Owner[c]]
    BY <1>7, <2>1 DEF Paying, ClosesFresh
  <2>8. PaidOut'
    BY <1>1, <1>2, <2>7 DEF Paying, PaidOut
  <2> QED
    BY <2>4, <2>6, <2>8 DEF Paying
<1>8. CASE \E s \in signed : s.chan = c /\ ChainResize(s) /\ e.type = "Resized"
  <2>1. PICK s \in signed : s.chan = c /\ ChainResize(s) /\ e.type = "Resized"
    BY <1>8
  <2>2. Acceptable(s) /\ Settle(s, "active")
    BY <2>1 DEF ChainResize
  <2>3. chain'[c].version = s.version /\ chain'[c].status = "active"
    BY <1>3, <1>4, <2>1, <2>2 DEF Settle, ContractRecord
  <2> QED
    BY <1>7, <2>1, <2>2, <2>3
<1>9. CASE \E s \in signed : s.chan = c /\ ChainClose(s) /\ e.type = "Closed" /\ e.user = s.user
  <2>1. PICK s \in signed : s.chan = c /\ ChainClose(s) /\ e.type = "Closed" /\ e.user = s.user
    BY <1>9
  <2>2. Acceptable(s) /\ Settle(s, "final") /\ s.kind = "close"
    BY <2>1 DEF ChainClose
  <2>3. chain'[c].version = s.version /\ chain'[c].status = "final"
    BY <1>3, <1>4, <2>1, <2>2 DEF Settle, ContractRecord
  <2> QED
    BY <1>7, <2>1, <2>2, <2>3
<1> QED
  BY <1>2, <1>5, <1>6, <1>8, <1>9

\* The listener handles a log.
LEMMA PayHandles ==
  ASSUME TypeOK, EventsKnown, Mirroring, Paying, NEW n \in Networks, HandleEvent(n),
         UNCHANGED settling
  PROVE  Paying'
<1>0. events[n] # <<>>
  BY DEF HandleEvent
<1> PICK e \in Events : e = Head(events[n])
  BY <1>0, HeadKnown
<1> DEFINE c == e.chan
<1>1. /\ events[n] # <<>>
      /\ \/ HandleCreated(n, e) \/ HandleJoined(n, e) \/ HandleClosed(n, e)
         \/ HandleResized(n, e) \/ IgnoreEvent(n, e)
  BY DEF HandleEvent
<1>2. Receives(n, e) /\ UNCHANGED <<chain, signed>>
  BY <1>1 DEF HandleCreated, HandleJoined, HandleClosed, HandleResized, IgnoreEvent,
              Receives, chainVars
<1>3. /\ e \in Events /\ c \in ChannelIds /\ Waiting(c)' = Waiting(c) \ {e}
      /\ \A d \in ChannelIds \ {c} : Waiting(d)' = Waiting(d)
  BY <1>1, <1>2, ReceiveWaits DEF Mirroring
<1>4. /\ e.type = "Created" => channels[c].status = "none" /\ Waiting(c) = {e}
      /\ e.type = "Joined" => channels[c].status = "joining"
      /\ e.type = "Resized" => channels[c].status = "open"
      /\ e.type = "Closed" => chain[c].status = "final" /\ Waiting(c) = {e}
  BY <1>1, <1>2, HeadPhase
<1>5. e.type \in {"Created", "Joined", "Closed", "Resized"}
  BY <1>3 DEF Events
<1>6. /\ channels \in [ChannelIds -> ChannelRow] /\ channels[c] \in ChannelRow
      /\ balance \in Postings
  BY <1>3 DEF TypeOK, DBTypeOK
<1>7. \A d \in ChannelIds \ {c} : channels'[d] = channels[d]
  BY <1>1, <1>6 DEF HandleCreated, HandleJoined, HandleClosed, HandleResized, IgnoreEvent, dbVars
<1>8. channels'[c].status = "joining" => e.type = "Created"
  <2>1. CASE HandleCreated(n, e)
    BY <2>1 DEF HandleCreated
  <2>2. CASE HandleJoined(n, e)
    BY <1>3, <1>6, <2>2 DEF HandleJoined, ChannelRow
  <2>3. CASE HandleClosed(n, e)
    BY <1>3, <1>6, <2>3 DEF HandleClosed
  <2>4. CASE HandleResized(n, e)
    <3>1. /\ channels' = [channels EXCEPT ![c].version = @ + 1, ![c].amount = @ + e.delta]
          /\ e.type = "Resized"
      BY <2>4 DEF HandleResized
    <3>2. channels'[c] = [channels[c] EXCEPT !.version = @ + 1, !.amount = @ + e.delta]
      BY <1>3, <1>6, <3>1
    <3>3. channels'[c].status = channels[c].status
      BY <1>6, <3>2 DEF ChannelRow
    <3> QED
      BY <1>4, <3>1, <3>3
  <2>5. CASE IgnoreEvent(n, e)
    BY <1>4, <1>5, <2>5 DEF IgnoreEvent, dbVars
  <2> QED
    BY <1>1, <2>1, <2>2, <2>3, <2>4, <2>5
<1>9. CreditedFirst'
  <2>1. ASSUME NEW d \in ChannelIds, channels'[d].status = "joining"
        PROVE  /\ settling[d] = NoRequest /\ \A s \in signed : s.chan # d
               /\ Waiting(d)' \subseteq {JoinedLog(d)}
    <3>1. CASE d = c
      <4>1. channels[c].status = "none" /\ Waiting(c)' = {}
        BY <1>3, <1>4, <1>8, <2>1, <3>1
      <4> QED
        BY <1>3, <3>1, <4>1 DEF Mirroring, NoneAhead
    <3>2. CASE d # c
      BY <1>3, <1>7, <2>1, <3>2 DEF Paying, CreditedFirst
    <3> QED
      BY <3>1, <3>2
  <2> QED
    BY <1>2, <2>1 DEF CreditedFirst
<1>10. CASE ~HandleClosed(n, e)
  <2>1. UNCHANGED balance
    BY <1>1, <1>10 DEF HandleCreated, HandleJoined, HandleResized, IgnoreEvent, dbVars
  <2>2. ClosesFresh' /\ PaidOut'
    BY <1>2, <1>3, <2>1 DEF Paying, ClosesFresh, PaidOut
  <2> QED
    BY <1>9, <2>2 DEF Paying
<1>11. CASE HandleClosed(n, e)
  <2>1. e.type = "Closed" /\ Record(c, Owner[c], -balance[c][Owner[c]])
    BY <1>11 DEF HandleClosed
  <2>2. Owner[c] \in Participants /\ c \in Accounts
    BY <1>3, IdsAssumption DEF Accounts
  <2>3. balance[c][Owner[c]] \in Int
    BY <1>6, <2>2 DEF Postings
  <2>4. -balance[c][Owner[c]] \in Int
    BY <2>3
  <2>5. \A x \in Accounts, q \in Participants : x # c => balance'[x][q] = balance[x][q]
    BY <1>6, <2>1, <2>4, RecordEffect
  <2>6. \A d \in ChannelIds \ {c} : balance'[d][Owner[d]] = balance[d][Owner[d]]
    BY <2>5, IdsAssumption DEF Accounts
  <2>7. chain[c].status = "final" /\ Waiting(c)' = {}
    BY <1>3, <1>4, <2>1
  <2>8. ClosesFresh'
    <3>1. \A s \in signed : s.chan \in ChannelIds
      BY DEF TypeOK, CustodyTypeOK, SignedStates
    <3> QED
      BY <1>2, <2>6, <2>7, <3>1 DEF Paying, ClosesFresh
  <2>9. PaidOut'
    BY <1>3, <2>6, <2>7 DEF Paying, PaidOut
  <2> QED
    BY <1>9, <2>8, <2>9 DEF Paying
<1> QED
  BY <1>10, <1>11

\* The later steps of the Created branch: the channel is still being joined.
LEMMA PayCredits ==
  ASSUME TypeOK, Wiring, Mirroring, Paying, NEW n \in Networks, CreatedStep(n),
         UNCHANGED settling
  PROVE  Paying'
<1> PICK c : c = handler[n].chan
  OBVIOUS
<1>1. handler[n] # Idle /\ c \in ChannelIds /\ handler[n].amount \in Nat
      /\ handler[n].step \in {"join", "record"}
  BY HandlerBusy DEF CreatedStep, JoinSucceeds, RecordCredit
<1>2. channels[c].status = "joining"
  BY <1>1 DEF Wiring, HandlerOwnsRow
<1>3. UNCHANGED <<events, channels, signed>>
  BY DEF CreatedStep, JoinSucceeds, RecordCredit, dbVars
<1>4. \A d \in ChannelIds : Waiting(d)' = Waiting(d)
  BY <1>3 DEF Waiting
<1>5. CreditedFirst'
  BY <1>3, <1>4 DEF Paying, CreditedFirst
<1>6. /\ \A s \in signed : s.chan # c /\ s.chan \in ChannelIds
      /\ \A f \in Waiting(c) : f.type # "Closed"
  BY <1>1, <1>2 DEF Paying, CreditedFirst, JoinedLog, TypeOK, CustodyTypeOK, SignedStates
<1>7. CASE JoinSucceeds(n)
  <2>1. UNCHANGED balance /\ chain' = [chain EXCEPT ![c].joining = TRUE]
    BY <1>7 DEF JoinSucceeds, dbVars
  <2>2. \A d \in ChannelIds \ {c} : chain'[d] = chain[d]
    BY <2>1 DEF TypeOK, CustodyTypeOK
  <2>3. ClosesFresh' /\ PaidOut'
    BY <1>3, <1>4, <1>6, <2>1, <2>2 DEF Paying, ClosesFresh, PaidOut
  <2> QED
    BY <1>5, <2>3 DEF Paying
<1>8. CASE RecordCredit(n)
  <2>1. UNCHANGED chain /\ Record(c, Owner[c], handler[n].amount)
    BY <1>8 DEF RecordCredit, chainVars
  <2>2. balance \in Postings /\ handler[n].amount \in Int
    BY <1>1 DEF TypeOK, DBTypeOK
  <2>3. \A x \in Accounts, q \in Participants : x # c => balance'[x][q] = balance[x][q]
    BY <2>1, <2>2, RecordEffect
  <2>4. \A d \in ChannelIds \ {c} : balance'[d][Owner[d]] = balance[d][Owner[d]]
    BY <2>3, IdsAssumption DEF Accounts
  <2>5. ClosesFresh' /\ PaidOut'
    BY <1>3, <1>4, <1>6, <2>1, <2>4 DEF Paying, ClosesFresh, PaidOut
  <2> QED
    BY <1>5, <2>5 DEF Paying
<1> QED
  BY <1>7, <1>8 DEF CreatedStep

\* A request of an application moves the balance of a channel only for a
\* member of the application whose open channel it is.
LEMMA AppMoves ==
  ASSUME TypeOK, NEW v \in AppIds, AppStep(v), NEW c \in ChannelIds, NEW p \in Participants,
         balance'[c][p] # balance[c][p]
  PROVE  p \in apps'[v].members /\ c \in OpenChannels(p)
<1>1. c \in Accounts /\ c # v /\ apps \in [AppIds -> AppRow] /\ apps[v] \in AppRow
      /\ apps[v].members \in SUBSET Participants
  BY IdsAssumption DEF Accounts, TypeOK, DBTypeOK, AppRow
<1>2. CASE CreateSome(v)
  <2>0. PICK members \in SUBSET Participants :
          \E alloc \in [members -> Allocations], via \in ChannelChoices(members),
             signers \in SUBSET Participants, weight \in [Participants -> Weights],
             quorum \in Quorums : CreateApplication(v, alloc, via, signers, weight, quorum)
    BY <1>2 DEF CreateSome
  <2>1. PICK alloc \in [members -> Allocations], via \in ChannelChoices(members),
             signers \in SUBSET Participants, weight \in [Participants -> Weights],
             quorum \in Quorums : CreateApplication(v, alloc, via, signers, weight, quorum)
    BY <2>0
  <2>2. \A x \in Accounts, q \in Participants :
          balance'[x][q] = IF q \notin members THEN balance[x][q]
                           ELSE IF x = v THEN balance[x][q] + alloc[q]
                           ELSE IF x = via[q] THEN balance[x][q] - alloc[q]
                           ELSE balance[x][q]
    BY <2>1, CreateEffect DEF CreateApplication
  <2>3. p \in members /\ c = via[p]
    BY <1>1, <2>2
  <2>4. via[p] \in OpenChannels(p)
    BY <2>3 DEF ChannelChoices, ParticipantChannels
  <2>5. apps'[v].members = members
    BY <1>1, <2>1 DEF CreateApplication
  <2> QED
    BY <2>3, <2>4, <2>5
<1>3. CASE CloseSome(v)
  <2>0. PICK members : members = apps[v].members
    OBVIOUS
  <2>1. PICK alloc \in [members -> Allocations], via \in ChannelChoices(members),
             sigs \in [Participants -> 0..MaxSignatures] :
               CloseApplication(v, alloc, via, sigs)
    BY <1>3, <2>0 DEF CloseSome
  <2>2. \A x \in Accounts, q \in Participants :
          balance'[x][q] = IF q \notin members THEN balance[x][q]
                           ELSE IF x = v THEN 0
                           ELSE IF x = via[q] THEN balance[x][q] + alloc[q]
                           ELSE balance[x][q]
    BY <1>1, <2>0, <2>1, CloseEffect DEF CloseApplication
  <2>3. p \in members /\ c = via[p]
    BY <1>1, <2>2
  <2>4. via[p] \in OpenChannels(p)
    BY <2>3 DEF ChannelChoices, ParticipantChannels
  <2>5. apps' = [apps EXCEPT ![v].status = "closed"]
    BY <2>1 DEF CloseApplication
  <2>6. apps'[v] = [apps[v] EXCEPT !.status = "closed"]
    BY <1>1, <2>5
  <2>7. apps'[v].members = members
    BY <1>1, <2>0, <2>6 DEF AppRow
  <2> QED
    BY <2>3, <2>4, <2>7
<1> QED
  BY <1>2, <1>3 DEF AppStep

\* An application is created or closed while no member settles.
LEMMA PayApps ==
  ASSUME TypeOK, Mirroring, Paying, NEW v \in AppIds, DisciplinedAppStep(v)
  PROVE  Paying'
<1>1. /\ AppStep(v)
      /\ \A p \in apps'[v].members : \A c \in OpenChannels(p) : Settled(c)
  BY DEF DisciplinedAppStep
<1>2. UNCHANGED <<events, channels, chain, signed, settling>>
  BY <1>1 DEF AppStep, CreateSome, CloseSome, CreateApplication, CloseApplication,
              custodyVars, chainVars, listenerVars
<1>3. \A c \in ChannelIds : Waiting(c)' = Waiting(c)
  BY <1>2 DEF Waiting
<1>4. ASSUME NEW c \in ChannelIds, ~Settled(c)
      PROVE  balance'[c][Owner[c]] = balance[c][Owner[c]]
  BY <1>1, <1>4, AppMoves, IdsAssumption
<1>5. CreditedFirst'
  BY <1>2, <1>3 DEF Paying, CreditedFirst
<1>6. ClosesFresh'
  <2>1. ASSUME NEW s \in signed, s.version > chain[s.chan].version
        PROVE  s.chan \in ChannelIds /\ ~Settled(s.chan)
    <3>1. s.chan \in ChannelIds /\ s.version \in Nat
      BY DEF TypeOK, CustodyTypeOK, SignedStates
    <3>2. chain[s.chan].version \in Nat
      BY <3>1 DEF TypeOK, CustodyTypeOK, ContractRecord
    <3> QED
      BY <2>1, <3>1, <3>2 DEF Settled
  <2> QED
    BY <1>2, <1>4, <2>1 DEF Paying, ClosesFresh
<1>7. PaidOut'
  <2>1. ASSUME NEW c \in ChannelIds, NEW e \in Waiting(c), e.type = "Closed"
        PROVE  ~Settled(c)
    <3>1. InPhase(c, channels[c], chain[c], Waiting(c))
      BY DEF Mirroring, Phases
    <3>2. e \notin {CreatedLog(c, chain[c].amount)} /\ e # JoinedLog(c)
      BY <2>1 DEF CreatedLog, JoinedLog
    <3>3. \A waits : e \in waits /\ OneBehind(channels[c], chain[c], waits) =>
            chain[c].status = "final"
      BY <2>1 DEF OneBehind
    <3>4. e \in Waiting(c) \ {JoinedLog(c)}
      BY <3>2
    <3>5. chain[c].status # "active"
      BY <3>1, <3>2, <3>3, <3>4 DEF InPhase
    <3> QED
      BY <3>5 DEF Settled
  <2> QED
    BY <1>3, <1>4, <2>1 DEF Paying, PaidOut
<1> QED
  BY <1>5, <1>6, <1>7 DEF Paying

\* A request to settle is read, for an open channel, or signed, or refused.
LEMMA PaySigns ==
  ASSUME TypeOK, Mirroring, Paying, NEW c \in ChannelIds,
         \/ channels[c].status = "open" /\ ReadSome(c)
         \/ SignResize(c) \/ SignClose(c) \/ RefuseSettlement(c)
  PROVE  Paying'
<1>1. UNCHANGED <<events, channels, chain, balance>>
  BY DEF ReadSome, ReadChannel, SignResize, SignClose, RefuseSettlement, Reply,
         custodyVars, chainVars, listenerVars, dbVars
<1>2. \A d \in ChannelIds : Waiting(d)' = Waiting(d)
  BY <1>1 DEF Waiting
<1>3. channels[c].status # "joining"
  <2>1. CASE channels[c].status = "open"
    BY <2>1
  <2>2. CASE SignResize(c) \/ SignClose(c) \/ RefuseSettlement(c)
    <3>1. settling[c] # NoRequest
      BY <2>2 DEF SignResize, SignClose, RefuseSettlement, NoRequest
    <3> QED
      BY <3>1 DEF Paying, CreditedFirst
  <2> QED
    BY <2>1, <2>2
<1>4. \A d \in ChannelIds \ {c} : settling'[d] = settling[d]
  BY DEF ReadSome, ReadChannel, SignResize, SignClose, RefuseSettlement, Reply,
         TypeOK, SettlementTypeOK
<1>5. \A s \in signed' :
        s \in signed \/ (s.chan = c /\ (s.kind = "close" => s.user = balance[c][Owner[c]]))
  <2>1. CASE ReadSome(c)
    BY <2>1 DEF ReadSome, ReadChannel, custodyVars, chainVars
  <2>2. CASE SignResize(c)
    <3>1. signed' = signed \cup {ResizeState(c, settling[c], balance[c][Owner[c]])}
      BY <2>2 DEF SignResize
    <3> QED
      BY <3>1 DEF ResizeState
  <2>3. CASE SignClose(c)
    <3>1. signed' = signed \cup {CloseState(c, settling[c], balance[c][Owner[c]])}
      BY <2>3 DEF SignClose
    <3> QED
      BY <3>1 DEF CloseState
  <2>4. CASE RefuseSettlement(c)
    BY <2>4 DEF RefuseSettlement
  <2> QED
    BY <2>1, <2>2, <2>3, <2>4
<1>6. CreditedFirst'
  BY <1>1, <1>2, <1>3, <1>4, <1>5 DEF Paying, CreditedFirst
<1>7. ClosesFresh'
  BY <1>1, <1>5 DEF Paying, ClosesFresh
<1>8. PaidOut'
  BY <1>1, <1>2 DEF Paying, PaidOut
<1> QED
  BY <1>6, <1>7, <1>8 DEF Paying

\* Careful clients are a restriction of a broker without faults.
LEMMA DisciplinedIsReliable == [DisciplinedNext]_vars => [ReliableNext]_vars
BY DEF DisciplinedNext, ReliableNext, DisciplinedAppStep, SettleStep

\* Every step of careful clients keeps the closes payable.
LEMMA DisciplinedPays ==
  ASSUME TypeOK, Wiring, Mirroring, Paying, [DisciplinedNext]_vars
  PROVE  Paying'
<1>1. CASE UNCHANGED vars
  <2>1. UNCHANGED <<events, channels, chain, balance, signed, settling>>
    BY <1>1 DEF vars, dbVars, custodyVars, chainVars, listenerVars
  <2>2. \A d \in ChannelIds : Waiting(d)' = Waiting(d)
    BY <2>1 DEF Waiting
  <2> QED
    BY <2>1, <2>2 DEF Paying, CreditedFirst, ClosesFresh, PaidOut
<1>2. CASE ListenerStep
  BY <1>2, PayHandles, PayCredits DEF ListenerStep, Wiring
<1> QED
  BY <1>1, <1>2, PayChain, PayApps, PaySigns DEF DisciplinedNext

\* At first nothing is signed and no log waits.
LEMMA DisciplinedStarts == ReliableInit => Paying
<1> SUFFICES ASSUME ReliableInit PROVE Paying
  OBVIOUS
<1>1. \A c \in ChannelIds : Waiting(c) = {}
  <2>1. \A c \in ChannelIds : events[NetworkOf[c]] = <<>>
    BY IdsAssumption DEF ReliableInit, Init, CustodyInit
  <2> QED
    BY <2>1 DEF Waiting, Of
<1>2. signed = {} /\ \A c \in ChannelIds : channels[c].status = "none"
  BY DEF ReliableInit, Init, CustodyInit, DBInit
<1> QED
  BY <1>1, <1>2 DEF Paying, CreditedFirst, ClosesFresh, PaidOut

\* For clients that settle one thing at a time, a close pays out exactly what
\* the journal owes: from the signature to the Closed event no application, no
\* credit and no other settlement moves the balance the state was signed with.
THEOREM ClosePaysBalance == DisciplinedSpec => []CloseSettlesBalance
<1>1. ReliableInit => IInv /\ Mirroring /\ Paying
  BY InitIInv, ReliableStarts, DisciplinedStarts DEF ReliableInit
<1>2. IInv /\ Mirroring /\ Paying /\ [DisciplinedNext]_vars => (IInv /\ Mirroring /\ Paying)'
  <2>1. [ReliableNext]_vars => [Next]_vars
    BY DEF Next
  <2> QED
    BY <2>1, NextIInv, DisciplinedIsReliable, ReliableMirrors, DisciplinedPays DEF IInv
<1>3. IInv /\ Mirroring /\ Paying => CloseSettlesBalance
  <2> SUFFICES ASSUME IInv, Mirroring, Paying, NEW n \in Networks,
                      NEW i \in 1..Len(events[n]), events[n][i].type = "Closed"
               PROVE  balance[events[n][i].chan][Owner[events[n][i].chan]] = events[n][i].user
    BY DEF CloseSettlesBalance
  <2>1. events[n][i] \in emitted[n] /\ NetworkOf[events[n][i].chan] = n
    BY DEF IInv, Wiring, EventsKnown
  <2>2. events[n][i].chan \in ChannelIds
    BY <2>1 DEF IInv, TypeOK, CustodyTypeOK, Events
  <2>3. events[n][i] \in Waiting(events[n][i].chan)
    BY <2>1 DEF Waiting, Of
  <2> QED
    BY <2>2, <2>3 DEF Paying, PaidOut
<1> QED
  BY <1>1, <1>2, <1>3, PTL DEF DisciplinedSpec

-----------------------------------------------------------------------------
(* What the journal owes in all.                                           *)

\* The sum of a table of balances.
Total(m) == SumFunctionOnSet([x \in Accounts |-> SumFunctionOnSet(m[x], Participants)], Accounts)

\* There are finitely many accounts.
LEMMA AccountsFinite == IsFiniteSet(Accounts)
BY FiniteAssumption, FS_Union DEF Accounts

\* LedgerTotal is the sum of the table, as it is or as it will be.
LEMMA TotalOf ==
  ASSUME NEW m \in Postings
  PROVE  SumFunction([x \in Accounts |-> SumFunction(m[x])]) = Total(m)
<1>1. \A x \in Accounts : SumFunction(m[x]) = SumFunctionOnSet(m[x], Participants)
  <2> TAKE x \in Accounts
  <2>1. DOMAIN m[x] = Participants
    BY DEF Postings
  <2> QED
    BY <2>1 DEF SumFunction
<1>2. [x \in Accounts |-> SumFunction(m[x])]
        = [x \in Accounts |-> SumFunctionOnSet(m[x], Participants)]
  BY <1>1
<1> QED
  BY <1>2 DEF SumFunction, Total

\* What is owed now, and after a step.
LEMMA LedgerTotals ==
  /\ balance \in Postings => LedgerTotal = Total(balance)
  /\ balance' \in Postings => LedgerTotal' = Total(balance')
<1>1. ASSUME balance \in Postings PROVE LedgerTotal = Total(balance)
  BY <1>1, TotalOf DEF LedgerTotal
<1>2. ASSUME balance' \in Postings PROVE LedgerTotal' = Total(balance')
  <2>1. SumFunction([x \in Accounts |-> SumFunction(balance'[x])]) = Total(balance')
    BY <1>2, TotalOf
  <2> QED
    BY <2>1 DEF LedgerTotal, Accounts
<1> QED
  BY <1>1, <1>2

\* What one account holds is an integer.
LEMMA RowInt ==
  ASSUME NEW m \in Postings, NEW x \in Accounts
  PROVE  SumFunctionOnSet(m[x], Participants) \in Int
<1>1. \A p \in Participants : m[x][p] \in Int
  BY DEF Postings
<1> QED
  BY <1>1, FiniteAssumption, SumInt

\* What all accounts hold is an integer.
LEMMA TotalInt == ASSUME NEW m \in Postings PROVE Total(m) \in Int
<1> DEFINE row == [x \in Accounts |-> SumFunctionOnSet(m[x], Participants)]
<1>1. \A x \in Accounts : row[x] \in Int
  BY RowInt
<1> HIDE DEF row
<1>2. SumFunctionOnSet(row, Accounts) \in Int
  BY <1>1, AccountsFinite, SumInt
<1> QED
  BY <1>2 DEF Total, row

\* Two tables are added.
LEMMA TotalPlus ==
  ASSUME NEW m \in Postings, NEW q \in Postings, NEW r \in Postings,
         \A x \in Accounts, p \in Participants : r[x][p] = m[x][p] + q[x][p]
  PROVE  Total(r) = Total(m) + Total(q)
<1> DEFINE Row(t) == [x \in Accounts |-> SumFunctionOnSet(t[x], Participants)]
<1>1. PICK a, b, c : a = Row(m) /\ b = Row(q) /\ c = Row(r)
  OBVIOUS
<1>2. ASSUME NEW x \in Accounts
      PROVE  a[x] \in Int /\ b[x] \in Int /\ c[x] = a[x] + b[x]
  <2>1. /\ a[x] = SumFunctionOnSet(m[x], Participants)
        /\ b[x] = SumFunctionOnSet(q[x], Participants)
        /\ c[x] = SumFunctionOnSet(r[x], Participants)
    BY <1>1
  <2>2. PICK f, g, h : f = m[x] /\ g = q[x] /\ h = r[x]
    OBVIOUS
  <2>3. \A p \in Participants : f[p] \in Int /\ g[p] \in Int /\ h[p] = f[p] + g[p]
    BY <2>2 DEF Postings
  <2>4. SumFunctionOnSet(h, Participants)
          = SumFunctionOnSet(f, Participants) + SumFunctionOnSet(g, Participants)
    BY <2>3, FiniteAssumption, SumPlus
  <2>5. a[x] \in Int /\ b[x] \in Int
    BY <2>1, RowInt
  <2> QED
    BY <2>1, <2>2, <2>4, <2>5
<1>3. SumFunctionOnSet(c, Accounts) = SumFunctionOnSet(a, Accounts) + SumFunctionOnSet(b, Accounts)
  BY <1>2, AccountsFinite, SumPlus
<1> QED
  BY <1>1, <1>3 DEF Total

\* A posting adds its sum to what is owed.
LEMMA PostTotal ==
  ASSUME balance \in Postings, NEW posting \in Postings, Post(posting)
  PROVE  /\ LedgerTotal \in Int /\ Total(posting) \in Int
         /\ LedgerTotal' = LedgerTotal + Total(posting)
<1>1. /\ balance' \in Postings
      /\ \A x \in Accounts, p \in Participants :
           balance'[x][p] = balance[x][p] + posting[x][p]
  BY PostEffect
<1>2. Total(balance') = Total(balance) + Total(posting)
  BY <1>1, TotalPlus
<1> QED
  BY <1>1, <1>2, LedgerTotals, TotalInt

\* The sum of a table, a column of which is what one beneficiary has.
LEMMA TotalByColumns ==
  ASSUME NEW m \in Postings, NEW col \in [Participants -> Int],
         \A p \in Participants :
           SumFunctionOnSet([x \in Accounts |-> m[x][p]], Accounts) = col[p]
  PROVE  Total(m) = SumFunctionOnSet(col, Participants)
<1>1. m \in [Accounts -> [Participants -> Int]]
  BY DEF Postings
<1>2. Total(m) =
        SumFunctionOnSet([p \in Participants |->
          SumFunctionOnSet([x \in Accounts |-> m[x][p]], Accounts)], Participants)
  BY <1>1, AccountsFinite, FiniteAssumption, SumExchange DEF Total
<1>3. [p \in Participants |-> SumFunctionOnSet([x \in Accounts |-> m[x][p]], Accounts)]
        = [p \in Participants |-> col[p]]
  OBVIOUS
<1>4. col = [p \in Participants |-> col[p]]
  OBVIOUS
<1> QED
  BY <1>2, <1>3, <1>4

\* A posting to one balance.
LEMMA RecordTotal ==
  ASSUME balance \in Postings, NEW account \in Accounts, NEW p \in Participants,
         NEW amount \in Int, Record(account, p, amount)
  PROVE  LedgerTotal \in Int /\ LedgerTotal' = LedgerTotal + amount
<1> DEFINE posting == [x \in Accounts |-> [q \in Participants |->
                         IF x = account /\ q = p THEN amount ELSE 0]]
           col == [q \in Participants |-> IF q = p THEN amount ELSE 0]
<1>1. posting \in Postings /\ Post(posting) /\ col \in [Participants -> Int]
  BY DEF Record, Postings
<1>2. ASSUME NEW q \in Participants
      PROVE  SumFunctionOnSet([x \in Accounts |-> posting[x][q]], Accounts) = col[q]
  <2> DEFINE f == [x \in Accounts |-> posting[x][q]]
  <2>1. f[account] = col[q] /\ col[q] \in Int /\ \A x \in Accounts : x # account => f[x] = 0
    OBVIOUS
  <2> HIDE DEF f, col, posting
  <2>2. SumFunctionOnSet(f, Accounts) = f[account]
    BY <2>1, AccountsFinite, SumOne
  <2> QED
    BY <2>1, <2>2 DEF f
<1>3. col[p] = amount /\ \A q \in Participants : q # p => col[q] = 0
  OBVIOUS
<1> HIDE DEF posting, col
<1>4. SumFunctionOnSet(col, Participants) = amount
  BY <1>3, FiniteAssumption, SumOne
<1>5. Total(posting) = SumFunctionOnSet(col, Participants)
  BY <1>1, <1>2, TotalByColumns
<1> QED
  BY <1>1, <1>4, <1>5, PostTotal

-----------------------------------------------------------------------------
(* Applications.                                                           *)

\* What one member puts into an application is what his channel loses.
LEMMA CreateTotal ==
  ASSUME TypeOK, NEW v \in AppIds, NEW members \in SUBSET Participants,
         NEW alloc \in [members -> Allocations], NEW via \in ChannelChoices(members),
         Post(CreatePosting(v, alloc, via))
  PROVE  LedgerTotal' = LedgerTotal
<1> DEFINE posting == CreatePosting(v, alloc, via)
           col == [p \in Participants |-> 0]
<1>1. /\ balance \in Postings /\ posting \in Postings
      /\ \A p \in members : alloc[p] \in Int
  <2>1. \A p \in members : alloc[p] \in Int
    BY AppInputsAssumption
  <2>2. \A p \in members : -alloc[p] \in Int
    BY <2>1
  <2>3. posting \in Postings
    BY <2>1, <2>2 DEF CreatePosting, Postings
  <2> QED
    BY <2>1, <2>3 DEF TypeOK, DBTypeOK
<1>2. ASSUME NEW p \in Participants
      PROVE  SumFunctionOnSet([x \in Accounts |-> posting[x][p]], Accounts) = col[p]
  <2> DEFINE f == [x \in Accounts |-> posting[x][p]]
  <2>0. col[p] = 0
    OBVIOUS
  <2>1. CASE p \notin members
    <3>1. \A x \in Accounts : f[x] = 0
      BY <2>1 DEF CreatePosting
    <3> HIDE DEF f, posting
    <3>2. SumFunctionOnSet(f, Accounts) = 0
      BY <3>1, AccountsFinite, SumZero
    <3> QED
      BY <2>0, <3>2 DEF f
  <2>2. CASE p \in members
    <3>1. /\ v \in Accounts /\ via[p] \in Accounts /\ v # via[p]
      BY <2>2, IdsAssumption DEF ChannelChoices, Accounts
    <3>2. /\ f[v] = alloc[p] /\ f[via[p]] = -alloc[p]
          /\ \A x \in Accounts : x \notin {v, via[p]} => f[x] = 0
      BY <2>2, <3>1 DEF CreatePosting
    <3>3. alloc[p] \in Int /\ -alloc[p] \in Int
      BY <1>1, <2>2
    <3> HIDE DEF f, posting, col
    <3>4. SumFunctionOnSet(f, Accounts) = f[v] + f[via[p]]
      BY <3>1, <3>2, <3>3, AccountsFinite, SumTwo
    <3>5. SumFunctionOnSet(f, Accounts) = 0
      BY <3>2, <3>3, <3>4
    <3> QED
      BY <2>0, <3>5 DEF f
  <2> QED
    BY <2>1, <2>2
<1>3. col \in [Participants -> Int] /\ \A p \in Participants : col[p] = 0
  OBVIOUS
<1> HIDE DEF posting, col
<1>4. Total(posting) = SumFunctionOnSet(col, Participants)
  BY <1>1, <1>2, <1>3, TotalByColumns
<1>5. Total(posting) = 0
  BY <1>3, <1>4, FiniteAssumption, SumZero
<1>6. Post(posting)
  BY DEF posting
<1> QED
  BY <1>1, <1>5, <1>6, PostTotal

\* What an application's account held is what its members get.
LEMMA CloseTotal ==
  ASSUME TypeOK, NEW v \in AppIds, NEW members \in SUBSET Participants,
         NEW alloc \in [members -> Allocations], NEW via \in ChannelChoices(members),
         SumsMatch(v, alloc), Post(ClosePosting(v, alloc, via))
  PROVE  LedgerTotal' = LedgerTotal
<1> DEFINE posting == ClosePosting(v, alloc, via)
           col == [p \in Participants |-> IF p \in members THEN alloc[p] - balance[v][p] ELSE 0]
<1>0. v \in Accounts
  BY DEF Accounts
<1>1. /\ balance \in Postings /\ posting \in Postings
      /\ \A p \in members : alloc[p] \in Int /\ balance[v][p] \in Int
  <2>1. \A p \in members : alloc[p] \in Int
    BY AppInputsAssumption
  <2>2. balance \in Postings
    BY DEF TypeOK, DBTypeOK
  <2>3. \A p \in members : balance[v][p] \in Int
    BY <1>0, <2>2 DEF Postings
  <2>4. \A p \in members : -balance[v][p] \in Int
    BY <2>3
  <2>5. posting \in Postings
    BY <2>1, <2>4 DEF ClosePosting, Postings
  <2> QED
    BY <2>1, <2>2, <2>3, <2>5
<1>2. ASSUME NEW p \in Participants
      PROVE  SumFunctionOnSet([x \in Accounts |-> posting[x][p]], Accounts) = col[p]
  <2> DEFINE f == [x \in Accounts |-> posting[x][p]]
  <2>1. CASE p \notin members
    <3>0. col[p] = 0
      BY <2>1
    <3>1. \A x \in Accounts : f[x] = 0
      BY <2>1 DEF ClosePosting
    <3> HIDE DEF f, posting, col
    <3>2. SumFunctionOnSet(f, Accounts) = 0
      BY <3>1, AccountsFinite, SumZero
    <3> QED
      BY <3>0, <3>2 DEF f
  <2>2. CASE p \in members
    <3>0. col[p] = alloc[p] - balance[v][p]
      BY <2>2
    <3>1. /\ v \in Accounts /\ via[p] \in Accounts /\ v # via[p]
      BY <2>2, IdsAssumption DEF ChannelChoices, Accounts
    <3>2. /\ f[v] = -balance[v][p] /\ f[via[p]] = alloc[p]
          /\ \A x \in Accounts : x \notin {v, via[p]} => f[x] = 0
      BY <2>2, <3>1 DEF ClosePosting
    <3>3. alloc[p] \in Int /\ -balance[v][p] \in Int /\ balance[v][p] \in Int
      BY <1>1, <2>2
    <3> HIDE DEF f, posting, col
    <3>4. SumFunctionOnSet(f, Accounts) = f[v] + f[via[p]]
      BY <3>1, <3>2, <3>3, AccountsFinite, SumTwo
    <3>5. SumFunctionOnSet(f, Accounts) = alloc[p] - balance[v][p]
      BY <3>2, <3>3, <3>4
    <3> QED
      BY <3>0, <3>5 DEF f
  <2> QED
    BY <2>1, <2>2
<1>3. /\ col \in [Participants -> Int]
      /\ \A p \in members : col[p] \in Int /\ alloc[p] = balance[v][p] + col[p]
      /\ \A p \in Participants \ members : col[p] = 0
  BY <1>1
<1>4. IsFiniteSet(members)
  BY FiniteAssumption, FS_Subset
<1>5. SumFunctionOnSet(alloc, members) = SumFunctionOnSet(balance[v], members)
  BY DEF SumsMatch, SumFunction
<1> HIDE DEF posting, col
<1>6. SumFunctionOnSet(alloc, members)
        = SumFunctionOnSet(balance[v], members) + SumFunctionOnSet(col, members)
  BY <1>1, <1>3, <1>4, SumPlus
<1>7. SumFunctionOnSet(balance[v], members) \in Int /\ SumFunctionOnSet(col, members) \in Int
  BY <1>1, <1>3, <1>4, SumInt
<1>8. SumFunctionOnSet(col, members) = 0
  BY <1>5, <1>6, <1>7
<1>9. SumFunctionOnSet(col, Participants) = SumFunctionOnSet(col, members)
  BY <1>3, FiniteAssumption, SumOutside
<1>10. Total(posting) = SumFunctionOnSet(col, Participants)
  BY <1>1, <1>2, <1>3, TotalByColumns
<1>11. Post(posting)
  BY DEF posting
<1> QED
  BY <1>1, <1>8, <1>9, <1>10, <1>11, PostTotal

\* Opening and closing an application moves money.
LEMMA AppTotal ==
  ASSUME TypeOK, NEW v \in AppIds, AppStep(v)
  PROVE  LedgerTotal' = LedgerTotal
<1>1. CASE CreateSome(v)
  <2>1. PICK members \in SUBSET Participants : \E alloc \in [members -> Allocations],
             via \in ChannelChoices(members), signers \in SUBSET Participants,
             weight \in [Participants -> Weights], quorum \in Quorums :
               CreateApplication(v, alloc, via, signers, weight, quorum)
    BY <1>1 DEF CreateSome
  <2>2. PICK alloc \in [members -> Allocations], via \in ChannelChoices(members) :
             Post(CreatePosting(v, alloc, via))
    BY <2>1 DEF CreateApplication
  <2> QED
    BY <2>2, CreateTotal
<1>2. CASE CloseSome(v)
  <2>1. apps[v].members \in SUBSET Participants
    BY DEF TypeOK, DBTypeOK, AppRow
  <2>2. PICK alloc \in [apps[v].members -> Allocations], via \in ChannelChoices(apps[v].members) :
             SumsMatch(v, alloc) /\ Post(ClosePosting(v, alloc, via))
    BY <1>2 DEF CloseSome, CloseApplication
  <2> QED
    BY <2>1, <2>2, CloseTotal
<1> QED
  BY <1>1, <1>2 DEF AppStep

\* Where no balance moves, what is owed stays.
LEMMA SameTotal ==
  ASSUME UNCHANGED balance
  PROVE  LedgerTotal' = LedgerTotal
BY DEF LedgerTotal, Accounts

\* The journal is touched by applications and by listeners, and a listener
\* moves on whenever it credits or empties an account.
LEMMA OthersConserve ==
  ASSUME TypeOK, [Next]_vars, UNCHANGED <<events, handler>>
  PROVE  LedgerTotal' = LedgerTotal
<1>1. CASE UNCHANGED vars
  BY <1>1, SameTotal DEF vars, dbVars
<1>2. CASE ChainStep
  BY <1>2, SameTotal DEF ChainStep, ChainCreate, ChainJoin, ChainResize, ChainClose, dbVars
<1>3. ASSUME NEW n \in Networks, HandleEvent(n) PROVE FALSE
  <2>1. events[n] \in Seq(Events) /\ events[n] # <<>> /\ events'[n] = Tail(events[n])
    BY <1>3 DEF HandleEvent, HandleCreated, HandleJoined, HandleClosed, HandleResized,
                IgnoreEvent, Receives, TypeOK, CustodyTypeOK
  <2>2. Len(Tail(events[n])) # Len(events[n])
    BY <2>1
  <2> QED
    BY <2>1, <2>2
<1>4. ASSUME NEW n \in Networks, CreatedStep(n) PROVE LedgerTotal' = LedgerTotal
  <2>1. CASE JoinSucceeds(n)
    BY <2>1, SameTotal DEF JoinSucceeds, dbVars
  <2>2. CASE RecordCredit(n)
    <3>1. handler[n].step = "record" /\ handler'[n] = Idle
      BY <2>2 DEF RecordCredit, TypeOK, CustodyTypeOK
    <3>2. Idle.step # "record"
      BY DEF Idle
    <3> QED
      BY <3>1, <3>2
  <2> QED
    BY <1>4, <2>1, <2>2 DEF CreatedStep
<1>5. ASSUME NEW v \in AppIds, AppStep(v) PROVE LedgerTotal' = LedgerTotal
  BY <1>5, AppTotal
<1>6. ASSUME NEW c \in ChannelIds, SettleStep(c) PROVE LedgerTotal' = LedgerTotal
  BY <1>6, SameTotal DEF SettleStep, ReadSome, ReadChannel, SignResize, SignClose,
                         RefuseSettlement, Reply, dbVars
<1>7. CASE FaultStep
  BY <1>7, SameTotal DEF FaultStep, Crash, JoinFails, Subscribe, SubscriptionFails,
                         LogRepeats, dbVars
<1> QED
  BY <1>1, <1>2, <1>3, <1>4, <1>5, <1>6, <1>7 DEF Next, ReliableNext, ListenerStep

\* Applications and all other handlers but the listeners' conserve money: what
\* they take from one account they give to others, in whatever order requests
\* come (handlers.go HandleCreateApplication, HandleCloseApplication).
THEOREM HandlersConserve == Spec => AppsConserve
<1>1. TypeOK /\ [Next]_vars => [UNCHANGED <<events, handler>> => LedgerTotal' = LedgerTotal]_vars
  BY OthersConserve
<1> QED
  BY <1>1, TypeCorrect, PTL DEF Spec, AppsConserve

-----------------------------------------------------------------------------
(* What makes a signed close stale.                                        *)

\* The contract has logged the close of a channel only once it is final.
ClosesAreFinal ==
  \A n \in Networks : \A e \in emitted[n] :
    e.type = "Closed" => chain[e.chan].status = "final"

\* A step of the contract leaves a final channel alone, and logs a close only
\* of a channel it makes final.
LEMMA ChainFinal ==
  ASSUME TypeOK, ClosesAreFinal, ChainStep
  PROVE  ClosesAreFinal'
<1>0. chain \in [ChannelIds -> ContractRecord] /\ emitted \in [Networks -> SUBSET Events]
  BY DEF TypeOK, CustodyTypeOK
<1>1. ASSUME NEW c \in ChannelIds, NEW e, e.chan = c, Emit(NetworkOf[c], e),
             \A d \in ChannelIds \ {c} : chain'[d].status = chain[d].status,
             chain[c].status # "final", e.type = "Closed" => chain'[c].status = "final"
      PROVE  ClosesAreFinal'
  <2>1. \A n \in Networks : \A l \in emitted'[n] : l \in emitted[n] \/ l = e
    BY <1>0, <1>1 DEF Emit
  <2>2. \A n \in Networks : \A l \in emitted[n] : l.chan \in ChannelIds
    BY <1>0 DEF Events
  <2> QED
    BY <1>1, <2>1, <2>2 DEF ClosesAreFinal
<1>2. ASSUME NEW c \in ChannelIds, NEW amount \in Deposits, ChainCreate(c, amount)
      PROVE  ClosesAreFinal'
  <2>1. PICK e : e = [type |-> "Created", chan |-> c, amount |-> amount]
    OBVIOUS
  <2>2. e.chan = c /\ e.type # "Closed"
    BY <2>1
  <2>3. \A d \in ChannelIds \ {c} : chain'[d].status = chain[d].status
    BY <1>0, <1>2 DEF ChainCreate
  <2> QED
    BY <1>1, <1>2, <2>1, <2>2, <2>3 DEF ChainCreate
<1>3. ASSUME NEW c \in ChannelIds, ChainJoin(c)
      PROVE  ClosesAreFinal'
  <2>1. PICK e : e = [type |-> "Joined", chan |-> c]
    OBVIOUS
  <2>2. e.chan = c /\ e.type # "Closed"
    BY <2>1
  <2>3. \A d \in ChannelIds \ {c} : chain'[d].status = chain[d].status
    BY <1>0, <1>3 DEF ChainJoin
  <2> QED
    BY <1>1, <1>3, <2>1, <2>2, <2>3 DEF ChainJoin
<1>4. ASSUME NEW s \in signed, ChainResize(s) \/ ChainClose(s)
      PROVE  ClosesAreFinal'
  <2>1. s.chan \in ChannelIds
    BY DEF TypeOK, CustodyTypeOK, SignedStates
  <2>2. PICK status \in {"active", "final"} :
          Settle(s, status) /\ (ChainClose(s) => status = "final")
    BY <1>4 DEF ChainResize, ChainClose
  <2>3. /\ chain'[s.chan].status = status
        /\ \A d \in ChannelIds \ {s.chan} : chain'[d].status = chain[d].status
    BY <1>0, <2>1, <2>2 DEF Settle, ContractRecord
  <2>4. chain[s.chan].status # "final"
    BY <1>4 DEF ChainResize, ChainClose, Acceptable
  <2>5. CASE ChainResize(s)
    <3>1. PICK e : e = [type |-> "Resized", chan |-> s.chan, delta |-> s.addUser + s.addBroker]
      OBVIOUS
    <3>2. e.chan = s.chan /\ e.type # "Closed"
      BY <3>1
    <3> QED
      BY <1>1, <2>1, <2>3, <2>4, <2>5, <3>1, <3>2 DEF ChainResize
  <2>6. CASE ChainClose(s)
    <3>1. PICK e : e = [type |-> "Closed", chan |-> s.chan, user |-> s.user]
      OBVIOUS
    <3>2. e.chan = s.chan /\ status = "final"
      BY <2>2, <2>6, <3>1
    <3> QED
      BY <1>1, <2>1, <2>3, <2>4, <2>6, <3>1, <3>2 DEF ChainClose
  <2> QED
    BY <1>4, <2>5, <2>6
<1> QED
  BY <1>2, <1>3, <1>4 DEF ChainStep

\* Every step keeps ClosesAreFinal.
LEMMA NextFinal ==
  ASSUME TypeOK, ClosesAreFinal, [Next]_vars
  PROVE  ClosesAreFinal'
<1>1. ASSUME UNCHANGED <<chain, emitted>> PROVE ClosesAreFinal'
  BY <1>1 DEF ClosesAreFinal
<1>2. CASE ChainStep
  BY <1>2, ChainFinal
<1>3. ASSUME NEW n \in Networks, HandleEvent(n) \/ RecordCredit(n) PROVE ClosesAreFinal'
  <2>1. ASSUME NEW e, Receives(n, e) PROVE UNCHANGED <<chain, emitted>>
    BY <2>1 DEF Receives, chainVars
  <2>2. CASE HandleEvent(n)
    BY <1>1, <2>1, <2>2 DEF HandleEvent, HandleCreated, HandleJoined, HandleClosed,
                            HandleResized, IgnoreEvent
  <2>3. CASE RecordCredit(n)
    BY <1>1, <2>3 DEF RecordCredit, chainVars
  <2> QED
    BY <1>3, <2>2, <2>3
<1>4. ASSUME NEW n \in Networks, JoinSucceeds(n) PROVE ClosesAreFinal'
  <2>1. /\ handler[n].chan \in ChannelIds /\ chain \in [ChannelIds -> ContractRecord]
        /\ emitted \in [Networks -> SUBSET Events]
    BY <1>4, HandlerBusy DEF JoinSucceeds, TypeOK, CustodyTypeOK
  <2>2. UNCHANGED emitted /\ chain' = [chain EXCEPT ![handler[n].chan].joining = TRUE]
    BY <1>4 DEF JoinSucceeds
  <2>3. \A c \in ChannelIds : chain'[c].status = chain[c].status
    BY <2>1, <2>2 DEF ContractRecord
  <2>4. \A m \in Networks : \A e \in emitted[m] : e.chan \in ChannelIds
    BY <2>1 DEF Events
  <2> QED
    BY <2>2, <2>3, <2>4 DEF ClosesAreFinal
<1>5. ASSUME NEW v \in AppIds, AppStep(v) PROVE ClosesAreFinal'
  BY <1>1, <1>5 DEF AppStep, custodyVars, chainVars
<1>6. ASSUME NEW c \in ChannelIds, SettleStep(c) PROVE ClosesAreFinal'
  BY <1>1, <1>6 DEF SettleStep, ReadSome, ReadChannel, SignResize, SignClose,
                    RefuseSettlement, Reply, custodyVars, chainVars
<1>7. CASE FaultStep
  BY <1>1, <1>7 DEF FaultStep, Crash, JoinFails, Subscribe, SubscriptionFails, LogRepeats, chainVars
<1>8. CASE UNCHANGED vars
  BY <1>1, <1>8 DEF vars, custodyVars, chainVars
<1> QED
  BY <1>2, <1>3, <1>4, <1>5, <1>6, <1>7, <1>8 DEF Next, ReliableNext, ListenerStep, CreatedStep

\* An application that opens lowers the balance of a member's open channel, one
\* that closes raises it, and neither moves any other.
LEMMA AppStales ==
  ASSUME TypeOK, NEW v \in AppIds, AppStep(v), NEW c \in ChannelIds, NEW p \in Participants,
         balance'[c][p] # balance[c][p]
  PROVE  /\ p \in apps'[v].members /\ c \in OpenChannels(p)
         /\ \/ /\ apps[v].status = "none" /\ apps'[v].status = "open"
               /\ balance'[c][p] < balance[c][p]
            \/ /\ apps[v].status = "open" /\ apps'[v].status = "closed"
               /\ balance'[c][p] > balance[c][p]
<1>1. /\ c \in Accounts /\ c # v /\ apps \in [AppIds -> AppRow] /\ apps[v] \in AppRow
      /\ apps[v].members \in SUBSET Participants /\ balance[c][p] \in Int
  BY IdsAssumption DEF Accounts, TypeOK, DBTypeOK, AppRow, Postings
<1>2. p \in apps'[v].members /\ c \in OpenChannels(p)
  BY AppMoves
<1>3. CASE CreateSome(v)
  <2>0. PICK members \in SUBSET Participants :
          \E alloc \in [members -> Allocations], via \in ChannelChoices(members),
             signers \in SUBSET Participants, weight \in [Participants -> Weights],
             quorum \in Quorums : CreateApplication(v, alloc, via, signers, weight, quorum)
    BY <1>3 DEF CreateSome
  <2>1. PICK alloc \in [members -> Allocations], via \in ChannelChoices(members),
             signers \in SUBSET Participants, weight \in [Participants -> Weights],
             quorum \in Quorums : CreateApplication(v, alloc, via, signers, weight, quorum)
    BY <2>0
  <2>2. \A x \in Accounts, q \in Participants :
          balance'[x][q] = IF q \notin members THEN balance[x][q]
                           ELSE IF x = v THEN balance[x][q] + alloc[q]
                           ELSE IF x = via[q] THEN balance[x][q] - alloc[q]
                           ELSE balance[x][q]
    BY <2>1, CreateEffect DEF CreateApplication
  <2>3. p \in members /\ balance'[c][p] = balance[c][p] - alloc[p]
    BY <1>1, <2>2
  <2>4. alloc[p] \in Int /\ alloc[p] >= 0
    BY <2>1, <2>3, AppInputsAssumption DEF CreateApplication, CanAllocate
  <2>5. balance'[c][p] < balance[c][p]
    BY <1>1, <2>3, <2>4
  <2>6. apps[v].status = "none" /\ apps'[v].status = "open"
    BY <1>1, <2>1 DEF CreateApplication
  <2> QED
    BY <1>2, <2>5, <2>6
<1>4. CASE CloseSome(v)
  <2>0. PICK members : members = apps[v].members
    OBVIOUS
  <2>1. PICK alloc \in [members -> Allocations], via \in ChannelChoices(members),
             sigs \in [Participants -> 0..MaxSignatures] :
               CloseApplication(v, alloc, via, sigs)
    BY <1>4, <2>0 DEF CloseSome
  <2>2. \A x \in Accounts, q \in Participants :
          balance'[x][q] = IF q \notin members THEN balance[x][q]
                           ELSE IF x = v THEN 0
                           ELSE IF x = via[q] THEN balance[x][q] + alloc[q]
                           ELSE balance[x][q]
    BY <1>1, <2>0, <2>1, CloseEffect DEF CloseApplication
  <2>3. p \in members /\ balance'[c][p] = balance[c][p] + alloc[p]
    BY <1>1, <2>2
  <2>4. alloc[p] \in Int /\ alloc[p] >= 0
    BY <2>0, <2>1, <2>3, AppInputsAssumption DEF CloseApplication
  <2>5. balance'[c][p] > balance[c][p]
    BY <1>1, <2>3, <2>4
  <2>6. apps[v].status = "open" /\ apps' = [apps EXCEPT ![v].status = "closed"]
    BY <2>1 DEF CloseApplication
  <2>7. apps'[v] = [apps[v] EXCEPT !.status = "closed"]
    BY <1>1, <2>6
  <2>8. apps'[v].status = "closed"
    BY <1>1, <2>7 DEF AppRow
  <2> QED
    BY <1>2, <2>5, <2>6, <2>8
<1> QED
  BY <1>3, <1>4 DEF AppStep

\* The listeners move the balance of a channel whose deposit is booked and that
\* its contract has not closed: never.
LEMMA ListenersLeave ==
  ASSUME TypeOK, Wiring, ClosesAreFinal, NEW n \in Networks, HandleEvent(n) \/ CreatedStep(n),
         NEW c \in ChannelIds, Credited(c), chain[c].status # "final"
  PROVE  balance'[c][Owner[c]] = balance[c][Owner[c]]
<1>0. /\ c \in Accounts /\ Owner[c] \in Participants /\ balance \in Postings
      /\ \A x \in Accounts, p \in Participants : balance[x][p] \in Int
  BY IdsAssumption DEF Accounts, TypeOK, DBTypeOK, Postings
<1>1. CASE HandleEvent(n)
  <2>1. PICK e : e = Head(events[n])
    OBVIOUS
  <2>2. /\ events[n] # <<>> /\ e \in emitted[n] /\ e.chan \in ChannelIds
    <3>1. events[n] \in Seq(Events) /\ events[n] # <<>>
      BY <1>1 DEF HandleEvent, TypeOK, CustodyTypeOK
    <3>2. 1 \in 1..Len(events[n]) /\ e = events[n][1]
      BY <2>1, <3>1
    <3>3. e \in emitted[n]
      BY <3>2 DEF Wiring, EventsKnown
    <3> QED
      BY <2>1, <3>1, <3>3, HeadKnown DEF Wiring
  <2>3. \/ HandleCreated(n, e) \/ HandleJoined(n, e) \/ HandleClosed(n, e)
        \/ HandleResized(n, e) \/ IgnoreEvent(n, e)
    BY <1>1, <2>1 DEF HandleEvent
  <2>4. CASE HandleClosed(n, e)
    <3>1. e.chan # c
      BY <2>2, <2>4 DEF HandleClosed, ClosesAreFinal
    <3>2. /\ Record(e.chan, Owner[e.chan], -balance[e.chan][Owner[e.chan]])
          /\ -balance[e.chan][Owner[e.chan]] \in Int
      BY <1>0, <2>2, <2>4, IdsAssumption DEF HandleClosed, Accounts
    <3> QED
      BY <1>0, <3>1, <3>2, RecordEffect
  <2>5. CASE ~HandleClosed(n, e)
    BY <2>3, <2>5 DEF HandleCreated, HandleJoined, HandleResized, IgnoreEvent, dbVars
  <2> QED
    BY <2>4, <2>5
<1>2. CASE JoinSucceeds(n)
  BY <1>2 DEF JoinSucceeds, dbVars
<1>3. CASE RecordCredit(n)
  <2>1. handler[n] # Idle /\ handler[n].amount \in Int
    BY <1>3, HandlerBusy DEF RecordCredit
  <2>2. handler[n].chan # c
    BY <2>1 DEF Credited
  <2>3. Record(handler[n].chan, Owner[handler[n].chan], handler[n].amount)
    BY <1>3 DEF RecordCredit
  <2> QED
    BY <1>0, <2>1, <2>2, <2>3, RecordEffect
<1> QED
  BY <1>1, <1>2, <1>3 DEF CreatedStep

\* One step of the broker, with every fault.
LEMMA NextStales ==
  ASSUME TypeOK, Wiring, ClosesAreFinal, [Next]_vars,
         NEW s \in signed, Stands(s), Credited(s.chan),
         s.user = balance[s.chan][Owner[s.chan]], balance'[s.chan][Owner[s.chan]] # s.user
  PROVE  \E v \in AppIds :
           /\ Owner[s.chan] \in apps'[v].members /\ s.chan \in OpenChannels(Owner[s.chan])
           /\ \/ /\ apps[v].status = "none" /\ apps'[v].status = "open"
                 /\ balance'[s.chan][Owner[s.chan]] < s.user
              \/ /\ apps[v].status = "open" /\ apps'[v].status = "closed"
                 /\ balance'[s.chan][Owner[s.chan]] > s.user
<1>1. s.chan \in ChannelIds /\ Owner[s.chan] \in Participants
  BY IdsAssumption DEF TypeOK, CustodyTypeOK, SignedStates
<1>2. balance' # balance
  OBVIOUS
<1>3. ASSUME NEW v \in AppIds, AppStep(v)
      PROVE  /\ Owner[s.chan] \in apps'[v].members /\ s.chan \in OpenChannels(Owner[s.chan])
             /\ \/ /\ apps[v].status = "none" /\ apps'[v].status = "open"
                   /\ balance'[s.chan][Owner[s.chan]] < s.user
                \/ /\ apps[v].status = "open" /\ apps'[v].status = "closed"
                   /\ balance'[s.chan][Owner[s.chan]] > s.user
  BY <1>1, <1>3, AppStales
<1>4. ASSUME NEW n \in Networks, HandleEvent(n) \/ CreatedStep(n) PROVE FALSE
  <2>1. chain[s.chan].status # "final"
    BY DEF Stands
  <2> QED
    BY <1>1, <1>4, <2>1, ListenersLeave
<1>5. ~ChainStep
  BY <1>2 DEF ChainStep, ChainCreate, ChainJoin, ChainResize, ChainClose, dbVars
<1>6. \A c \in ChannelIds : ~SettleStep(c)
  BY <1>2 DEF SettleStep, ReadSome, ReadChannel, SignResize, SignClose, RefuseSettlement,
              Reply, dbVars
<1>7. ~FaultStep
  BY <1>2 DEF FaultStep, Crash, JoinFails, Subscribe, SubscriptionFails, LogRepeats, dbVars
<1>8. ~UNCHANGED vars
  BY <1>2 DEF vars, dbVars
<1>9. \E v \in AppIds : AppStep(v)
  BY <1>4, <1>5, <1>6, <1>7, <1>8 DEF Next, ReliableNext, ListenerStep
<1> QED
  BY <1>3, <1>9

\* With every fault and every interleaving, and for clients of any kind: a
\* signed close that may still be submitted (handlers.go HandleCloseChannel)
\* parts from the journal only by an application of its owner.
THEOREM StaleByOwnDeed == Spec => StaleByOwner
<1>1. Init => ClosesAreFinal
  BY DEF Init, CustodyInit, ClosesAreFinal
<1>2. IInv /\ ClosesAreFinal /\ [Next]_vars => ClosesAreFinal'
  BY NextFinal DEF IInv
<1>3. IInv /\ ClosesAreFinal /\ [Next]_vars =>
        [\A s \in signed :
           LET c == s.chan
               p == Owner[s.chan]
           IN  Stands(s) /\ Credited(c) /\ s.user = balance[c][p] =>
                 \/ balance'[c][p] = s.user
                 \/ \E v \in AppIds :
                      /\ p \in apps'[v].members /\ c \in OpenChannels(p)
                      /\ \/ /\ apps[v].status = "none" /\ apps'[v].status = "open"
                            /\ balance'[c][p] < s.user
                         \/ /\ apps[v].status = "open" /\ apps'[v].status = "closed"
                            /\ balance'[c][p] > s.user]_vars
  <2> SUFFICES ASSUME IInv, ClosesAreFinal, [Next]_vars, NEW s \in signed, Stands(s),
                      Credited(s.chan), s.user = balance[s.chan][Owner[s.chan]],
                      balance'[s.chan][Owner[s.chan]] # s.user
               PROVE  \E v \in AppIds :
                        /\ Owner[s.chan] \in apps'[v].members
                        /\ s.chan \in OpenChannels(Owner[s.chan])
                        /\ \/ /\ apps[v].status = "none" /\ apps'[v].status = "open"
                              /\ balance'[s.chan][Owner[s.chan]] < s.user
                           \/ /\ apps[v].status = "open" /\ apps'[v].status = "closed"
                              /\ balance'[s.chan][Owner[s.chan]] > s.user
    OBVIOUS
  <2> QED
    BY NextStales DEF IInv
<1> QED
  BY <1>1, <1>2, <1>3, Inductive, PTL DEF Spec, StaleByOwner

-----------------------------------------------------------------------------
(* What backs the journal.                                                 *)

Deposited(S) == SumFunction([e \in S |-> e.amount])

\* The deposits that have been credited, or will never be: their handler is
\* not in the Created branch.
Booked == {e \in KnownDeposits : Credited(e.chan)}

Backed == LedgerTotal <= Deposited(Booked)

\* A handler in the Created branch is to credit a deposit that was made.
HandlerPays ==
  \A n \in Networks :
    handler[n] # Idle => CreatedLog(handler[n].chan, handler[n].amount) \in emitted[n]

EmittedFinite == \A n \in Networks : IsFiniteSet(emitted[n])

Backing == EmittedFinite /\ HandlerPays /\ Backed

\* A part of the deposits, summed over the whole's function.
LEMMA DepositedOf ==
  ASSUME NEW S, IsFiniteSet(S), NEW T, T \subseteq S
  PROVE  Deposited(T) = SumFunctionOnSet([e \in S |-> e.amount], T)
<1> DEFINE f == [e \in S |-> e.amount]
           g == [e \in T |-> e.amount]
<1>1. Deposited(T) = SumFunctionOnSet(g, T)
  BY DEF Deposited, SumFunction
<1>2. IsFiniteSet(T) /\ \A e \in T : f[e] = g[e]
  BY FS_Subset
<1> HIDE DEF f, g
<1>3. SumFunctionOnSet(f, T) = SumFunctionOnSet(g, T)
  BY <1>2, SumSame
<1> QED
  BY <1>1, <1>3 DEF f

\* Fewer deposits are no more.
LEMMA DepositedGrows ==
  ASSUME NEW S, IsFiniteSet(S), NEW T, T \subseteq S, \A e \in S : e.amount \in Nat
  PROVE  Deposited(T) <= Deposited(S) /\ Deposited(T) \in Int /\ Deposited(S) \in Int
<1> DEFINE f == [e \in S |-> e.amount]
<1>1. \A e \in S : f[e] \in Nat
  OBVIOUS
<1>2. \A e \in S : f[e] \in Int
  BY <1>1
<1>3. Deposited(T) = SumFunctionOnSet(f, T) /\ Deposited(S) = SumFunctionOnSet(f, S)
  BY DepositedOf
<1>4. IsFiniteSet(T)
  BY FS_Subset
<1> HIDE DEF f
<1>5. SumFunctionOnSet(f, T) <= SumFunctionOnSet(f, S)
  BY <1>1, SumSubset
<1>6. \A e \in T : f[e] \in Int
  BY <1>2
<1>7. SumFunctionOnSet(f, S) \in Int
  BY <1>2, SumInt
<1>8. SumFunctionOnSet(f, T) \in Int
  BY <1>4, <1>6, SumInt
<1> QED
  BY <1>3, <1>5, <1>7, <1>8

\* One deposit more.
LEMMA DepositedAdds ==
  ASSUME NEW S, IsFiniteSet(S), NEW d, d \notin S, \A e \in S \cup {d} : e.amount \in Nat
  PROVE  Deposited(S \cup {d}) = d.amount + Deposited(S)
<1> DEFINE R == S \cup {d}
           f == [e \in R |-> e.amount]
<1>1. IsFiniteSet(R) /\ d \in R /\ R \ {d} = S /\ S \subseteq R
  BY FS_AddElement
<1>2. \A e \in R : f[e] \in Int
  OBVIOUS
<1>3. f[d] = d.amount
  OBVIOUS
<1> HIDE DEF R
<1>4. Deposited(R) = SumFunctionOnSet(f, R) /\ Deposited(S) = SumFunctionOnSet(f, S)
  BY <1>1, DepositedOf
<1> HIDE DEF f
<1>5. SumFunctionOnSet(f, R) = f[d] + SumFunctionOnSet(f, R \ {d})
  BY <1>1, <1>2, SumSplit
<1> QED
  BY <1>1, <1>3, <1>4, <1>5 DEF R

\* There are finitely many deposits.
LEMMA DepositsFinite ==
  ASSUME NEW log, \A n \in Networks : IsFiniteSet(log[n]) /\ log[n] \subseteq Events,
         NEW T, T \subseteq {e \in UNION {log[n] : n \in Networks} : e.type = "Created"}
  PROVE  IsFiniteSet(T) /\ \A e \in T : e.amount \in Nat /\ e.chan \in ChannelIds
<1> DEFINE all == {log[n] : n \in Networks}
           f == [n \in Networks |-> log[n]]
<1>1. f \in Surjection(Networks, all)
  BY DEF Surjection
<1>2. IsFiniteSet(all)
  BY <1>1, FiniteAssumption, FS_Surjection
<1>3. \A L \in all : IsFiniteSet(L)
  OBVIOUS
<1>4. IsFiniteSet(UNION all)
  BY <1>2, <1>3, FS_UNION
<1>5. T \subseteq UNION all
  OBVIOUS
<1>6. \A e \in T : e \in Events /\ e.type = "Created"
  OBVIOUS
<1> HIDE DEF all
<1>7. IsFiniteSet(T)
  BY <1>4, <1>5, FS_Subset
<1> QED
  BY <1>6, <1>7 DEF Events

\* A deposit once counted is counted from then on.
LEMMA BookedStays ==
  ASSUME TypeOK, \A n \in Networks : emitted[n] \subseteq emitted'[n],
         \A c \in ChannelIds : Credited(c) => Credited(c)'
  PROVE  Booked \subseteq Booked'
<1> SUFFICES ASSUME NEW e \in Booked PROVE e \in Booked'
  OBVIOUS
<1>1. PICK n \in Networks : e \in emitted[n] /\ e.type = "Created" /\ Credited(e.chan)
  BY DEF Booked, KnownDeposits
<1>2. e.chan \in ChannelIds
  BY <1>1 DEF TypeOK, CustodyTypeOK, Events
<1>3. Credited(e.chan)' /\ e \in emitted'[n]
  BY <1>1, <1>2
<1>4. channels'[e.chan].status # "none"
  BY <1>3 DEF Credited
<1>5. e \in UNION {emitted'[m] : m \in Networks}
  BY <1>3
<1> QED
  BY <1>1, <1>3, <1>4, <1>5 DEF Booked, KnownDeposits

\* Deposits become more and the debt does not.
LEMMA StaysBacked ==
  ASSUME TypeOK, TypeOK', EmittedFinite', Backed, Booked \subseteq Booked',
         LedgerTotal \in Int, LedgerTotal' \in Int, LedgerTotal' <= LedgerTotal
  PROVE  Backed'
<1>1. PICK S : S = Booked
  OBVIOUS
<1>2. PICK T : T = Booked'
  OBVIOUS
<1>3. \A n \in Networks : IsFiniteSet(emitted'[n]) /\ emitted'[n] \subseteq Events
  BY DEF EmittedFinite, TypeOK, CustodyTypeOK
<1>4. IsFiniteSet(T) /\ \A e \in T : e.amount \in Nat
  <2>1. T \subseteq {e \in UNION {emitted'[n] : n \in Networks} : e.type = "Created"}
    BY <1>2 DEF Booked, KnownDeposits
  <2> QED
    BY <1>3, <2>1, DepositsFinite
<1>5. Deposited(S) <= Deposited(T) /\ Deposited(S) \in Int /\ Deposited(T) \in Int
  BY <1>1, <1>2, <1>4, DepositedGrows
<1>6. LedgerTotal <= Deposited(S)
  BY <1>1 DEF Backed
<1>7. LedgerTotal' <= Deposited(T)
  BY <1>5, <1>6
<1> QED
  BY <1>2, <1>7 DEF Backed

\* Logs are emitted one at a time.
LEMMA EmittedGrows ==
  ASSUME TypeOK, [Next]_vars, EmittedFinite
  PROVE  EmittedFinite' /\ \A n \in Networks : emitted[n] \subseteq emitted'[n]
<1>1. CASE UNCHANGED emitted
  BY <1>1 DEF EmittedFinite
<1>2. ASSUME NEW n, NEW e, Emit(n, e)
      PROVE  EmittedFinite' /\ \A m \in Networks : emitted[m] \subseteq emitted'[m]
  <2>1. \A m \in Networks : emitted'[m] = emitted[m] \/ emitted'[m] = emitted[m] \cup {e}
    BY <1>2 DEF Emit, TypeOK, CustodyTypeOK
  <2>2. ASSUME NEW m \in Networks PROVE IsFiniteSet(emitted'[m])
    <3>1. IsFiniteSet(emitted[m]) /\ IsFiniteSet(emitted[m] \cup {e})
      BY FS_AddElement DEF EmittedFinite
    <3> QED
      BY <2>1, <3>1
  <2> QED
    BY <2>1, <2>2 DEF EmittedFinite
<1>3. CASE ChainStep
  BY <1>2, <1>3 DEF ChainStep, ChainCreate, ChainJoin, ChainResize, ChainClose
<1>4. CASE UNCHANGED vars
  BY <1>1, <1>4 DEF vars, custodyVars, chainVars
<1>5. ASSUME NEW n \in Networks, HandleEvent(n) \/ CreatedStep(n) PROVE UNCHANGED emitted
  BY <1>5 DEF HandleEvent, HandleCreated, HandleJoined, HandleClosed, HandleResized,
              IgnoreEvent, Receives, CreatedStep, JoinSucceeds, RecordCredit, chainVars
<1>6. ASSUME NEW v \in AppIds, AppStep(v) PROVE UNCHANGED emitted
  BY <1>6 DEF AppStep, custodyVars, chainVars
<1>7. ASSUME NEW c \in ChannelIds, SettleStep(c) PROVE UNCHANGED emitted
  BY <1>7 DEF SettleStep, ReadSome, ReadChannel, SignResize, SignClose, RefuseSettlement,
              Reply, custodyVars, chainVars
<1>8. CASE FaultStep
  <2>1. UNCHANGED emitted
    BY <1>8 DEF FaultStep, Crash, JoinFails, Subscribe, SubscriptionFails, LogRepeats, chainVars
  <2> QED
    BY <1>1, <2>1
<1> QED
  BY <1>1, <1>3, <1>4, <1>5, <1>6, <1>7, <1>8 DEF Next, ReliableNext, ListenerStep

\* The handler of network n takes a log: the deposit of a new row is the one
\* that the handler is to credit, and a close empties an account.
LEMMA HandleBacked ==
  ASSUME IInv, TypeOK', HandlerPays, NEW n \in Networks, HandleEvent(n)
  PROVE  /\ HandlerPays' /\ \A c \in ChannelIds : Credited(c) => Credited(c)'
         /\ LedgerTotal \in Int /\ LedgerTotal' \in Int /\ LedgerTotal' <= LedgerTotal
<1>0. PICK e : e = Head(events[n])
  OBVIOUS
<1>1. /\ e \in Events /\ e.chan \in ChannelIds /\ NetworkOf[e.chan] = n /\ e \in emitted[n]
      /\ \/ HandleCreated(n, e) \/ HandleJoined(n, e) \/ HandleClosed(n, e)
         \/ HandleResized(n, e) \/ IgnoreEvent(n, e)
  <2>1. events[n] # <<>>
    BY DEF HandleEvent
  <2>2. events[n] \in Seq(Events) /\ 1 \in 1..Len(events[n]) /\ e = events[n][1]
    BY <1>0, <2>1 DEF IInv, TypeOK, CustodyTypeOK
  <2> QED
    BY <1>0, <2>1, <2>2, HeadKnown DEF HandleEvent, IInv, Wiring, EventsKnown
<1>2. /\ channels \in [ChannelIds -> ChannelRow] /\ handler \in [Networks -> HandlerStates]
      /\ balance \in Postings /\ emitted' = emitted
  BY <1>1 DEF IInv, TypeOK, DBTypeOK, CustodyTypeOK, HandleCreated, HandleJoined, HandleClosed,
              HandleResized, IgnoreEvent, Receives, chainVars
<1>3. LedgerTotal \in Int
  BY <1>2, LedgerTotals, TotalInt
<1>4. CASE HandleCreated(n, e)
  <2>1. /\ channels' = [channels EXCEPT ![e.chan] =
                          [status |-> "joining", version |-> 0, amount |-> e.amount]]
        /\ handler' = [handler EXCEPT ![n] =
                          [step |-> "join", chan |-> e.chan, amount |-> e.amount]]
        /\ channels[e.chan].status = "none" /\ e.type = "Created" /\ UNCHANGED balance
    BY <1>4 DEF HandleCreated, CreateRefused
  <2>2. e = CreatedLog(e.chan, e.amount)
    BY <1>1, <2>1 DEF Events, CreatedLog
  <2>3. HandlerPays'
    BY <1>1, <1>2, <2>1, <2>2 DEF HandlerPays
  <2>4. ASSUME NEW c \in ChannelIds, Credited(c) PROVE Credited(c)'
    <3>1. c # e.chan
      BY <2>1, <2>4 DEF Credited
    <3>2. channels'[c] = channels[c]
      BY <1>2, <2>1, <3>1
    <3>3. \A m \in Networks : handler'[m] # Idle => handler'[m].chan # c
      BY <1>2, <2>1, <2>4, <3>1 DEF Credited
    <3> QED
      BY <2>4, <3>2, <3>3 DEF Credited
  <2> QED
    BY <1>3, <2>1, <2>3, <2>4, SameTotal
<1>5. ASSUME UNCHANGED handler,
             \A c \in ChannelIds : channels[c].status # "none" => channels'[c].status # "none"
      PROVE  HandlerPays' /\ \A c \in ChannelIds : Credited(c) => Credited(c)'
  BY <1>2, <1>5 DEF HandlerPays, Credited
<1>6. CASE HandleClosed(n, e)
  <2>1. UNCHANGED handler /\
        \A c \in ChannelIds : channels[c].status # "none" => channels'[c].status # "none"
    BY <1>1, <1>2, <1>6 DEF HandleClosed
  <2>2. /\ e.chan \in Accounts /\ Owner[e.chan] \in Participants
        /\ balance[e.chan][Owner[e.chan]] \in Nat
    BY <1>1, <1>2, IdsAssumption DEF IInv, Money, NoOverdraft, Accounts, Postings
  <2>3. PICK a \in Nat : a = balance[e.chan][Owner[e.chan]]
    BY <2>2
  <2>4. Record(e.chan, Owner[e.chan], -a)
    BY <1>6, <2>3 DEF HandleClosed
  <2>5. LedgerTotal' = LedgerTotal + (-a)
    BY <1>2, <2>2, <2>4, RecordTotal
  <2> QED
    BY <1>3, <1>5, <2>1, <2>5
<1>7. CASE HandleJoined(n, e) \/ HandleResized(n, e) \/ IgnoreEvent(n, e)
  <2>1. UNCHANGED <<handler, balance>>
    BY <1>7 DEF HandleJoined, HandleResized, IgnoreEvent, dbVars
  <2>2. ASSUME NEW c \in ChannelIds, channels[c].status # "none" PROVE channels'[c].status # "none"
    <3>1. CASE HandleJoined(n, e)
      BY <1>1, <1>2, <2>2, <3>1 DEF HandleJoined
    <3>2. CASE HandleResized(n, e)
      BY <1>1, <1>2, <2>2, <3>2 DEF HandleResized, ChannelRow
    <3>3. CASE IgnoreEvent(n, e)
      BY <2>2, <3>3 DEF IgnoreEvent, dbVars
    <3> QED
      BY <1>7, <3>1, <3>2, <3>3
  <2> QED
    BY <1>3, <1>5, <2>1, <2>2, SameTotal
<1> QED
  BY <1>1, <1>4, <1>6, <1>7

\* A credit is backed by the deposit that it is for.
LEMMA CreditBacked ==
  ASSUME IInv, TypeOK', Backing, NEW n \in Networks, RecordCredit(n)
  PROVE  Backing'
<1>1. /\ handler[n] # Idle /\ handler[n].chan \in ChannelIds /\ handler[n].amount \in Nat
      /\ Owner[handler[n].chan] \in Participants
  BY HandlerBusy DEF RecordCredit, IInv
<1>2. PICK c \in ChannelIds, a \in Nat : c = handler[n].chan /\ a = handler[n].amount
  BY <1>1
<1>3. /\ handler' = [handler EXCEPT ![n] = Idle] /\ Record(c, Owner[c], a)
      /\ UNCHANGED <<emitted, channels>> /\ handler \in [Networks -> HandlerStates]
      /\ balance \in Postings /\ c \in Accounts
  BY <1>2 DEF RecordCredit, chainVars, IInv, TypeOK, CustodyTypeOK, DBTypeOK, Accounts
<1>4. LedgerTotal \in Int /\ LedgerTotal' = LedgerTotal + a
  BY <1>1, <1>2, <1>3, RecordTotal
<1>5. PICK d : d = CreatedLog(c, a)
  OBVIOUS
<1>6. d \in emitted[n] /\ d.type = "Created" /\ d.chan = c /\ d.amount = a
  BY <1>1, <1>2, <1>5 DEF Backing, HandlerPays, CreatedLog
<1>7. channels[c].status # "none" /\ ~Credited(c)
  BY <1>1, <1>2 DEF IInv, Wiring, HandlerOwnsRow, Credited
<1>8. \A k \in ChannelIds : Credited(k) => Credited(k)'
  BY <1>3 DEF Credited
<1>9. Credited(c)'
  <2>1. \A m \in Networks : m # n => handler[m] = Idle \/ handler[m].chan # c
    BY <1>1, <1>2 DEF IInv, Wiring, HandlerOwnsRow
  <2> QED
    BY <1>3, <1>7, <2>1 DEF Credited
<1>10. PICK S : S = Booked
  OBVIOUS
<1>11. PICK T : T = Booked'
  OBVIOUS
<1>12. S \subseteq T
  BY <1>3, <1>8, <1>10, <1>11, BookedStays DEF IInv
<1>13. d \in T /\ d \notin S
  <2>1. d \in UNION {emitted'[m] : m \in Networks}
    BY <1>3, <1>6
  <2>2. d \in KnownDeposits'
    BY <1>3, <1>6, <1>7, <2>1 DEF KnownDeposits
  <2>3. d \in Booked'
    BY <1>6, <1>9, <2>2 DEF Booked
  <2>4. d \notin Booked
    BY <1>6, <1>7 DEF Booked
  <2> QED
    BY <1>10, <1>11, <2>3, <2>4
<1>14. EmittedFinite'
  BY <1>3 DEF Backing, EmittedFinite
<1>15. IsFiniteSet(T) /\ \A e \in T : e.amount \in Nat
  <2>1. \A m \in Networks : IsFiniteSet(emitted'[m]) /\ emitted'[m] \subseteq Events
    BY <1>14, <1>2 DEF EmittedFinite, TypeOK, CustodyTypeOK
  <2>2. T \subseteq {e \in UNION {emitted'[m] : m \in Networks} : e.type = "Created"}
    BY <1>11 DEF Booked, KnownDeposits
  <2> QED
    BY <2>1, <2>2, DepositsFinite
<1>16. IsFiniteSet(S) /\ \A e \in S \cup {d} : e.amount \in Nat
  BY <1>12, <1>13, <1>15, FS_Subset
<1>17. Deposited(S \cup {d}) = a + Deposited(S)
  BY <1>6, <1>13, <1>16, DepositedAdds
<1>18. S \cup {d} \subseteq T
  BY <1>12, <1>13
<1>19. Deposited(S \cup {d}) <= Deposited(T) /\ Deposited(T) \in Int
  BY <1>15, <1>18, DepositedGrows
<1>20. Deposited(S) \in Int /\ LedgerTotal <= Deposited(S)
  <2>1. Deposited(S) \in Int
    BY <1>12, <1>15, DepositedGrows
  <2> QED
    BY <1>10, <2>1 DEF Backing, Backed
<1>21. LedgerTotal' <= Deposited(T)
  BY <1>4, <1>17, <1>19, <1>20
<1>22. HandlerPays'
  BY <1>3 DEF Backing, HandlerPays
<1> QED
  BY <1>11, <1>14, <1>21, <1>22 DEF Backing, Backed

\* Every step keeps the backing.
LEMMA NextBacked ==
  ASSUME IInv, TypeOK', Backing, [Next]_vars
  PROVE  Backing'
<1>1. EmittedFinite' /\ \A n \in Networks : emitted[n] \subseteq emitted'[n]
  BY EmittedGrows DEF IInv, Backing
<1>2. LedgerTotal \in Int
  BY LedgerTotals, TotalInt DEF IInv, TypeOK, DBTypeOK
<1>3. ASSUME HandlerPays', \A c \in ChannelIds : Credited(c) => Credited(c)',
             LedgerTotal' \in Int, LedgerTotal' <= LedgerTotal
      PROVE  Backing'
  <2>1. Booked \subseteq Booked'
    BY <1>1, <1>3, BookedStays DEF IInv
  <2>2. Backed'
    BY <1>1, <1>2, <1>3, <2>1, StaysBacked DEF IInv, Backing
  <2> QED
    BY <1>1, <1>3, <2>2 DEF Backing
<1>4. ASSUME LedgerTotal' = LedgerTotal, channels' = channels,
             \A n \in Networks : handler'[n] \in {handler[n], Idle}
      PROVE  Backing'
  <2>1. HandlerPays'
    BY <1>1, <1>4 DEF Backing, HandlerPays
  <2>2. \A c \in ChannelIds : Credited(c) => Credited(c)'
    BY <1>4 DEF Credited
  <2> QED
    BY <1>2, <1>3, <1>4, <2>1, <2>2
<1>5. ASSUME UNCHANGED <<balance, channels, handler>> PROVE Backing'
  BY <1>4, <1>5, SameTotal
<1>6. CASE UNCHANGED vars
  BY <1>5, <1>6 DEF vars, dbVars, custodyVars, listenerVars
<1>7. CASE ChainStep
  BY <1>5, <1>7 DEF ChainStep, ChainCreate, ChainJoin, ChainResize, ChainClose, Emit, dbVars
<1>8. ASSUME NEW n \in Networks, HandleEvent(n) PROVE Backing'
  BY <1>3, <1>8, HandleBacked DEF Backing
<1>9. ASSUME NEW n \in Networks, JoinSucceeds(n) PROVE Backing'
  <2>1. /\ UNCHANGED <<balance, channels, emitted>>
        /\ handler[n].step = "join" /\ handler' = [handler EXCEPT ![n].step = "record"]
    BY <1>9 DEF JoinSucceeds, dbVars
  <2>2. /\ handler[n] # Idle /\ handler \in [Networks -> HandlerStates]
    BY <2>1, HandlerBusy DEF IInv, TypeOK, CustodyTypeOK
  <2>3. /\ handler'[n].chan = handler[n].chan /\ handler'[n].amount = handler[n].amount
        /\ \A m \in Networks \ {n} : handler'[m] = handler[m]
    BY <2>1, <2>2 DEF HandlerStates, Idle
  <2>4. HandlerPays'
    BY <2>1, <2>2, <2>3 DEF Backing, HandlerPays
  <2>5. \A c \in ChannelIds : Credited(c) => Credited(c)'
    BY <2>1, <2>2, <2>3 DEF Credited
  <2> QED
    BY <1>2, <1>3, <2>1, <2>4, <2>5, SameTotal
<1>10. ASSUME NEW n \in Networks, RecordCredit(n) PROVE Backing'
  BY <1>10, CreditBacked
<1>11. ASSUME NEW v \in AppIds, AppStep(v) PROVE Backing'
  <2>1. UNCHANGED <<channels, handler>>
    BY <1>11 DEF AppStep, CreateSome, CloseSome, CreateApplication, CloseApplication,
                 custodyVars, listenerVars
  <2>2. LedgerTotal' = LedgerTotal
    BY <1>11, AppTotal DEF IInv
  <2> QED
    BY <1>4, <2>1, <2>2
<1>12. ASSUME NEW c \in ChannelIds, SettleStep(c) PROVE Backing'
  BY <1>5, <1>12 DEF SettleStep, ReadSome, ReadChannel, SignResize, SignClose,
                     RefuseSettlement, Reply, dbVars, custodyVars, listenerVars
<1>13. CASE FaultStep
  <2>1. /\ UNCHANGED <<balance, channels>>
        /\ \A n \in Networks : handler'[n] \in {handler[n], Idle}
    BY <1>13 DEF FaultStep, Crash, JoinFails, Subscribe, SubscriptionFails, LogRepeats, dbVars,
                 IInv, TypeOK, CustodyTypeOK
  <2> QED
    BY <1>4, <2>1, SameTotal
<1> QED
  BY <1>6, <1>7, <1>8, <1>9, <1>10, <1>11, <1>12, <1>13
     DEF Next, ReliableNext, ListenerStep, CreatedStep

\* At first nothing is owed.
LEMMA InitOwes == Init => LedgerTotal = 0
<1> SUFFICES ASSUME Init PROVE LedgerTotal = 0
  OBVIOUS
<1> DEFINE col == [p \in Participants |-> 0]
<1>1. balance = [x \in Accounts |-> [p \in Participants |-> 0]]
  BY DEF Init, DBInit
<1>2. balance \in Postings /\ col \in [Participants -> Int] /\ \A p \in Participants : col[p] = 0
  BY <1>1 DEF Postings
<1>3. ASSUME NEW p \in Participants
      PROVE  SumFunctionOnSet([x \in Accounts |-> balance[x][p]], Accounts) = col[p]
  <2> DEFINE f == [x \in Accounts |-> balance[x][p]]
  <2>1. \A x \in Accounts : f[x] = 0
    BY <1>1
  <2> HIDE DEF f
  <2>2. SumFunctionOnSet(f, Accounts) = 0
    BY <2>1, AccountsFinite, SumZero
  <2> QED
    BY <2>2 DEF f
<1> HIDE DEF col
<1>4. Total(balance) = SumFunctionOnSet(col, Participants)
  BY <1>2, <1>3, TotalByColumns
<1>5. Total(balance) = 0
  BY <1>2, <1>4, FiniteAssumption, SumZero
<1> QED
  BY <1>2, <1>5, LedgerTotals

\* At first nothing is owed and nothing deposited.
LEMMA InitBacked == Init => Backing
<1> SUFFICES ASSUME Init PROVE Backing
  OBVIOUS
<1>1. emitted = [n \in Networks |-> {}] /\ handler = [n \in Networks |-> Idle]
  BY DEF Init, CustodyInit
<1>2. EmittedFinite /\ HandlerPays
  BY <1>1, FS_EmptySet DEF EmittedFinite, HandlerPays
<1>3. LedgerTotal = 0
  BY InitOwes
<1>4. Booked = {}
  BY <1>1 DEF Booked, KnownDeposits
<1>5. Deposited({}) = 0
  BY SumEmpty DEF Deposited, SumFunction
<1> QED
  BY <1>2, <1>3, <1>4, <1>5 DEF Backing, Backed

\* Every deposit is counted once: what the journal owes is covered by the
\* deposits of the channels it has rows for, whatever is lost, delivered again
\* or interrupted by a crash (custody.go handleBlockChainEvent).
THEOREM DebtIsBacked == Spec => []LedgerBacked
<1>1. Init => IInv /\ Backing
  BY InitIInv, InitBacked
<1>2. IInv /\ Backing /\ [Next]_vars => (IInv /\ Backing)'
  <2> SUFFICES ASSUME IInv, Backing, [Next]_vars PROVE IInv' /\ Backing'
    OBVIOUS
  <2>1. IInv'
    BY NextIInv
  <2> QED
    BY <2>1, NextBacked DEF IInv
<1>3. IInv /\ Backing => LedgerBacked
  <2> SUFFICES ASSUME IInv, Backing PROVE LedgerBacked
    OBVIOUS
  <2>0. \A n \in Networks : IsFiniteSet(emitted[n]) /\ emitted[n] \subseteq Events
    BY DEF IInv, Backing, EmittedFinite, TypeOK, CustodyTypeOK
  <2>1. /\ IsFiniteSet(KnownDeposits) /\ Booked \subseteq KnownDeposits
        /\ \A e \in KnownDeposits : e.amount \in Nat
    <3>1. KnownDeposits \subseteq {e \in UNION {emitted[n] : n \in Networks} : e.type = "Created"}
      BY DEF KnownDeposits
    <3> QED
      BY <2>0, <3>1, DepositsFinite DEF Booked
  <2>2. /\ Deposited(Booked) <= Deposited(KnownDeposits)
        /\ Deposited(Booked) \in Int /\ Deposited(KnownDeposits) \in Int
    BY <2>1, DepositedGrows
  <2>3. LedgerTotal \in Int
    BY LedgerTotals, TotalInt DEF IInv, TypeOK, DBTypeOK
  <2>4. LedgerTotal <= Deposited(KnownDeposits)
    BY <2>2, <2>3 DEF Backing, Backed
  <2> QED
    BY <2>4 DEF LedgerBacked, Deposited
<1> QED
  BY <1>1, <1>2, <1>3, PTL DEF Spec

-----------------------------------------------------------------------------
(* What covers the debt, channel by channel, where clients settle one      *)
(* thing at a time and no resize asks for a change of the participant's    *)
(* deposit.                                                                *)

Closing(c) == \E e \in Waiting(c) : e.type = "Closed"

Held(c) == IF Credited(c) THEN chain[c].amount ELSE 0
Paid(c) == IF Closing(c) THEN balance[c][Owner[c]] ELSE 0

\* What a channel stands for in the journal: what the contract holds, or what
\* a close whose log waits has paid out.
Due(c) == Held(c) + Paid(c)

Balanced ==
  LedgerTotal = SumFunctionOnSet([c \in ChannelIds |-> Due(c)], ChannelIds)
                  + available[Broker] - Liquidity

\* Nobody asks for, or gets signed, a change of what the participant put in.
NoAdd ==
  /\ Changes \subseteq {0}
  /\ \A c \in ChannelIds : settling[c] # NoRequest => settling[c].change = 0
  /\ \A s \in signed : s.addUser = 0 /\ (s.kind = "close" => s.addBroker = 0)

\* The row a handler is about to credit still shows the deposit.
HandlerRow ==
  \A n \in Networks :
    handler[n] # Idle => channels[handler[n].chan].amount = handler[n].amount

Covering == NoAdd /\ HandlerRow /\ Balanced

\* A channel's part of the debt is an integer.
LEMMA DueInt == TypeOK => \A c \in ChannelIds : Due(c) \in Int
<1> SUFFICES ASSUME TypeOK, NEW c \in ChannelIds PROVE Due(c) \in Int
  OBVIOUS
<1>1. chain[c].amount \in Int /\ balance[c][Owner[c]] \in Int
  BY IdsAssumption DEF TypeOK, CustodyTypeOK, ContractRecord, DBTypeOK, Postings, Accounts
<1>2. Held(c) \in Int /\ Paid(c) \in Int
  BY <1>1 DEF Held, Paid
<1> QED
  BY <1>2 DEF Due

\* One channel's part of the debt moves, and the rest with it.
LEMMA OneMoves ==
  ASSUME TypeOK, TypeOK', Balanced, NEW c \in ChannelIds, NEW a \in Int,
         Due(c)' \in Int,
         \A d \in ChannelIds \ {c} : Due(d)' = Due(d),
         LedgerTotal' + Due(c) = LedgerTotal + Due(c)' + a,
         available'[Broker] = available[Broker] + a
  PROVE  Balanced'
<1>1. PICK f : f = [d \in ChannelIds |-> Due(d)]
  OBVIOUS
<1>2. PICK g : g = [d \in ChannelIds |-> Due(d)']
  OBVIOUS
<1>3. /\ \A d \in ChannelIds : f[d] \in Int
      /\ f[c] = Due(c) /\ g[c] = Due(c)' /\ g[c] \in Int
      /\ \A d \in ChannelIds \ {c} : g[d] = f[d]
  BY <1>1, <1>2, DueInt
<1>4. SumFunctionOnSet(g, ChannelIds) = SumFunctionOnSet(f, ChannelIds) + g[c] - f[c]
  BY <1>3, FiniteAssumption, SumChange
<1>5. SumFunctionOnSet(f, ChannelIds) \in Int
  BY <1>3, FiniteAssumption, SumInt
<1>6. available[Broker] \in Int /\ Liquidity \in Int
  BY CustodyAssumption DEF TypeOK, CustodyTypeOK, Parties
<1>7. LedgerTotal \in Int /\ LedgerTotal' \in Int
  BY LedgerTotals, TotalInt DEF TypeOK, DBTypeOK
<1>8. LedgerTotal = SumFunctionOnSet(f, ChannelIds) + available[Broker] - Liquidity
  BY <1>1 DEF Balanced
<1>9. LedgerTotal' = SumFunctionOnSet(g, ChannelIds) + available'[Broker] - Liquidity
  <2>1. \A s, t, l, m, v, w, q, x, y \in Int :
          /\ t = s + y - x /\ l = s + v - q /\ m + x = l + y + a /\ w = v + a
          => m = t + w - q
    OBVIOUS
  <2>2. f[c] \in Int
    BY <1>3
  <2>3. SumFunctionOnSet(g, ChannelIds) \in Int
    BY <1>3, <1>4, <1>5, <2>2
  <2>4. available'[Broker] \in Int
    BY <1>6
  <2>5. LedgerTotal' + f[c] = LedgerTotal + g[c] + a
    BY <1>3
  <2> QED
    BY <1>3, <1>4, <1>5, <1>6, <1>7, <1>8, <2>1, <2>2, <2>3, <2>4, <2>5
<1> QED
  BY <1>2, <1>9 DEF Balanced

\* Nothing moves.
LEMMA NoneMoves ==
  ASSUME Balanced, \A d \in ChannelIds : Due(d)' = Due(d),
         LedgerTotal' = LedgerTotal, available'[Broker] = available[Broker]
  PROVE  Balanced'
<1>1. PICK f : f = [d \in ChannelIds |-> Due(d)]
  OBVIOUS
<1>2. f = [d \in ChannelIds |-> Due(d)']
  BY <1>1
<1>3. LedgerTotal = SumFunctionOnSet(f, ChannelIds) + available[Broker] - Liquidity
  BY <1>1 DEF Balanced
<1>4. LedgerTotal' = SumFunctionOnSet(f, ChannelIds) + available'[Broker] - Liquidity
  BY <1>3
<1> QED
  BY <1>2, <1>4 DEF Balanced

-----------------------------------------------------------------------------
(* The contract.                                                           *)

\* A channel that waits for a close is out of use.
LEMMA ClosingPhase ==
  ASSUME Mirroring, NEW c \in ChannelIds, Closing(c)
  PROVE  chain[c].status = "final" /\ channels[c].status \in {"joining", "open"}
<1>1. InPhase(c, channels[c], chain[c], Waiting(c))
  BY DEF Mirroring, Phases
<1>2. PICK e \in Waiting(c) : e.type = "Closed"
  BY DEF Closing
<1>3. e \notin {CreatedLog(c, chain[c].amount)} /\ e # JoinedLog(c)
  BY <1>2 DEF CreatedLog, JoinedLog
<1>4. \A waits : e \in waits /\ OneBehind(channels[c], chain[c], waits) =>
        chain[c].status = "final"
  BY <1>2 DEF OneBehind
<1>5. e \in Waiting(c) \ {JoinedLog(c)}
  BY <1>3
<1> QED
  BY <1>1, <1>3, <1>4, <1>5 DEF InPhase

\* A step of the contract.
LEMMA ChainBalances ==
  ASSUME IInv, TypeOK', Mirroring, Paying, Covering, ChainStep
  PROVE  Balanced'
<1>1. /\ UNCHANGED <<channels, balance, handler>> /\ TypeOK
      /\ chain \in [ChannelIds -> ContractRecord]
      /\ Broker \in Parties /\ available \in [Parties -> Int]
      /\ \A d \in ChannelIds : Owner[d] # Broker /\ Owner[d] \in Participants
  <2>1. UNCHANGED <<channels, balance, handler>>
    BY DEF ChainStep, ChainCreate, ChainJoin, ChainResize, ChainClose, Emit, dbVars
  <2>2. TypeOK /\ chain \in [ChannelIds -> ContractRecord] /\ available \in [Parties -> Int]
    BY DEF IInv, TypeOK, CustodyTypeOK
  <2>3. Broker \in Parties /\ \A d \in ChannelIds : Owner[d] # Broker /\ Owner[d] \in Participants
    BY IdsAssumption, CustodyAssumption DEF Parties
  <2> QED
    BY <2>1, <2>2, <2>3
<1>2. PICK c \in ChannelIds, e \in Events :
        /\ e.chan = c /\ Waiting(c)' \subseteq Waiting(c) \cup {e}
        /\ \A d \in ChannelIds \ {c} : Waiting(d)' = Waiting(d) /\ chain'[d] = chain[d]
        /\ \/ \E amount \in Deposits : ChainCreate(c, amount) /\ e.type = "Created"
           \/ ChainJoin(c) /\ e = JoinedLog(c)
           \/ \E s \in signed : s.chan = c /\ ChainResize(s) /\ e.type = "Resized"
           \/ \E s \in signed :
                s.chan = c /\ ChainClose(s) /\ e.type = "Closed" /\ e.user = s.user
  BY <1>1, ChainWaits
<1>3. \A d \in ChannelIds : Credited(d)' <=> Credited(d)
  BY <1>1 DEF Credited
<1>4. LedgerTotal' = LedgerTotal
  BY <1>1, SameTotal
<1>5. \A d \in ChannelIds \ {c} : Due(d)' = Due(d)
  BY <1>1, <1>2, <1>3 DEF Due, Held, Paid, Closing
<1>6. LedgerTotal \in Int /\ Due(c) \in Int /\ Due(c)' \in Int
  <2>1. LedgerTotal \in Int
    BY LedgerTotals, TotalInt DEF IInv, TypeOK, DBTypeOK
  <2>2. Due(c) \in Int
    BY <1>1, DueInt
  <2>3. chain'[c].amount \in Int /\ balance'[c][Owner[c]] \in Int
    BY <1>1, IdsAssumption DEF TypeOK, CustodyTypeOK, ContractRecord, DBTypeOK, Postings, Accounts
  <2>4. Held(c)' \in Int /\ Paid(c)' \in Int
    BY <2>3 DEF Held, Paid
  <2> QED
    BY <2>1, <2>2, <2>4 DEF Due
<1>7. InPhase(c, channels[c], chain[c], Waiting(c)) /\ chain[c] \in ContractRecord
  BY <1>1 DEF Mirroring, Phases
<1>8. ASSUME chain[c].status \in {"void", "initial"}, e.type # "Closed",
             available'[Broker] = available[Broker],
             chain'[c].amount = chain[c].amount \/ ~Credited(c)
      PROVE  Balanced'
  <2>1. ~Closing(c)
    BY <1>8, ClosingPhase
  <2>2. ~Closing(c)'
    BY <1>2, <1>8, <2>1 DEF Closing
  <2>3. Due(c)' = Due(c)
    BY <1>3, <1>8, <2>1, <2>2 DEF Due, Held, Paid
  <2> QED
    BY <1>4, <1>5, <1>8, <2>3, NoneMoves DEF Covering
<1>9. CASE \E amount \in Deposits : ChainCreate(c, amount) /\ e.type = "Created"
  <2>1. chain[c].status = "void" /\ available'[Broker] = available[Broker]
    BY <1>1, <1>9 DEF ChainCreate
  <2>2. ~Credited(c)
    BY <1>7, <2>1 DEF InPhase, OneBehind, Credited
  <2> QED
    BY <1>8, <1>9, <2>1, <2>2
<1>10. CASE ChainJoin(c) /\ e = JoinedLog(c)
  <2>1. /\ chain[c].status = "initial" /\ available' = available
        /\ chain' = [chain EXCEPT ![c].status = "active", ![c].joining = FALSE]
    BY <1>10 DEF ChainJoin
  <2>2. chain'[c] = [chain[c] EXCEPT !.status = "active", !.joining = FALSE]
    BY <1>1, <2>1
  <2>3. chain'[c].amount = chain[c].amount
    BY <1>7, <2>2 DEF ContractRecord
  <2>4. e.type # "Closed"
    BY <1>10 DEF JoinedLog
  <2> QED
    BY <1>8, <2>1, <2>3, <2>4
<1>11. ASSUME NEW s \in signed, s.chan = c, Acceptable(s)
       PROVE  /\ Credited(c) /\ Waiting(c) = {}
              /\ s.user \in Int /\ s.broker \in Int /\ s.addBroker \in Int
              /\ s.user + s.broker = chain[c].amount + s.addBroker
  <2>1. channels[c].status # "joining"
    BY <1>11 DEF Paying, CreditedFirst
  <2>2. /\ channels[c].status = "open" /\ Waiting(c) = {}
        /\ s.user \in Int /\ s.broker \in Int /\ s.addBroker \in Int
    BY <1>1, <1>11, <2>1, Submitted
  <2>3. s.addUser = 0 /\ s.user + s.broker = chain[c].amount + s.addUser + s.addBroker
    BY <1>11 DEF Covering, NoAdd, Acceptable
  <2>4. Credited(c)
    BY <2>2 DEF Credited, IInv, Wiring, HandlerOwnsRow
  <2>5. chain[c].amount \in Int
    BY <1>7 DEF ContractRecord
  <2> QED
    BY <2>2, <2>3, <2>4, <2>5
<1>12. CASE \E s \in signed : s.chan = c /\ ChainResize(s) /\ e.type = "Resized"
  <2>1. PICK s \in signed : s.chan = c /\ ChainResize(s) /\ e.type = "Resized"
    BY <1>12
  <2>2. /\ Acceptable(s) /\ Settle(s, "active")
        /\ available' = [available EXCEPT ![Owner[c]] = @ - s.addUser, ![Broker] = @ - s.addBroker]
    BY <2>1 DEF ChainResize
  <2>3. /\ Credited(c) /\ Waiting(c) = {}
        /\ s.user \in Int /\ s.broker \in Int /\ s.addBroker \in Int
        /\ s.user + s.broker = chain[c].amount + s.addBroker
    BY <1>11, <2>1, <2>2
  <2>4. chain'[c].amount = s.user + s.broker
    BY <1>1, <1>7, <2>1, <2>2 DEF Settle, ContractRecord
  <2>5. available'[Broker] = available[Broker] - s.addBroker
    BY <1>1, <2>2
  <2>6. ~Closing(c) /\ ~Closing(c)'
    BY <1>2, <2>1, <2>3 DEF Closing
  <2>7. Due(c) = chain[c].amount + 0 /\ Due(c)' = chain'[c].amount + 0
    BY <1>3, <2>3, <2>6 DEF Due, Held, Paid
  <2>8. chain[c].amount \in Int /\ available[Broker] \in Int
    BY <1>1, <1>7 DEF ContractRecord
  <2>9. PICK a \in Int : a = -s.addBroker
    BY <2>3
  <2>10. LedgerTotal' + Due(c) = LedgerTotal + Due(c)' + a
    BY <1>4, <1>6, <2>3, <2>4, <2>7, <2>8, <2>9
  <2>11. available'[Broker] = available[Broker] + a
    BY <2>3, <2>5, <2>8, <2>9
  <2> QED
    BY <1>1, <1>5, <1>6, <2>10, <2>11, OneMoves DEF Covering
<1>13. CASE \E s \in signed : s.chan = c /\ ChainClose(s) /\ e.type = "Closed" /\ e.user = s.user
  <2>1. PICK s \in signed : s.chan = c /\ ChainClose(s) /\ e.type = "Closed" /\ e.user = s.user
    BY <1>13
  <2>2. /\ Acceptable(s) /\ Settle(s, "final") /\ s.kind = "close"
        /\ available' = [available EXCEPT ![Owner[c]] = @ + s.user, ![Broker] = @ + s.broker]
        /\ Emit(NetworkOf[c], [type |-> "Closed", chan |-> c, user |-> s.user])
    BY <2>1 DEF ChainClose
  <2>3. /\ Credited(c) /\ Waiting(c) = {} /\ s.user \in Int /\ s.broker \in Int
        /\ s.user + s.broker = chain[c].amount + s.addBroker
    BY <1>11, <2>1, <2>2
  <2>4. s.addBroker = 0
    BY <2>2 DEF Covering, NoAdd
  <2>5. chain'[c].amount = 0
    BY <1>1, <1>7, <2>1, <2>2 DEF Settle, ContractRecord
  <2>6. available'[Broker] = available[Broker] + s.broker
    BY <1>1, <2>2
  <2>7. s.user = balance[c][Owner[c]]
    <3>1. chain[c].status = "active" /\ s.version > chain[c].version
      BY <2>1, <2>2 DEF Acceptable
    <3> QED
      BY <2>1, <2>2, <3>1 DEF Paying, ClosesFresh
  <2>8. ~Closing(c) /\ Closing(c)'
    <3> DEFINE l == [type |-> "Closed", chan |-> c, user |-> s.user]
    <3>1. l \in Events /\ l.chan = c /\ l.type = "Closed"
      BY <2>3 DEF Events
    <3>2. Emit(NetworkOf[c], l)
      BY <2>2
    <3> HIDE DEF l
    <3>3. Waiting(c)' = Waiting(c) \cup {l}
      BY <1>1, <2>3, <3>1, <3>2, EmitWaits DEF Mirroring
    <3> QED
      BY <2>3, <3>1, <3>3 DEF Closing
  <2>9. Due(c) = chain[c].amount + 0 /\ Due(c)' = 0 + s.user
    BY <1>1, <1>3, <2>3, <2>5, <2>7, <2>8 DEF Due, Held, Paid
  <2>10. chain[c].amount \in Int /\ available[Broker] \in Int
    BY <1>1, <1>7 DEF ContractRecord
  <2>11. LedgerTotal' + Due(c) = LedgerTotal + Due(c)' + s.broker
    BY <1>4, <1>6, <2>3, <2>4, <2>9, <2>10
  <2>12. s.broker \in Int
    BY <2>3
  <2> QED
    BY <1>1, <1>5, <1>6, <2>6, <2>11, <2>12, OneMoves DEF Covering
<1> QED
  BY <1>2, <1>9, <1>10, <1>12, <1>13

\* The listener handles a log.
LEMMA HandleBalances ==
  ASSUME IInv, TypeOK', Mirroring, Covering, NEW n \in Networks, HandleEvent(n)
  PROVE  HandlerRow' /\ Balanced'
<1>0. events[n] # <<>> /\ TypeOK /\ EventsKnown
  BY DEF HandleEvent, IInv, Wiring
<1> PICK e \in Events : e = Head(events[n])
  BY <1>0, HeadKnown
<1> DEFINE c == e.chan
<1>1. \/ HandleCreated(n, e) \/ HandleJoined(n, e) \/ HandleClosed(n, e)
      \/ HandleResized(n, e) \/ IgnoreEvent(n, e)
  BY DEF HandleEvent
<1>2. Receives(n, e) /\ UNCHANGED <<chain, available>> /\ handler[n] = Idle
  BY <1>1 DEF HandleCreated, HandleJoined, HandleClosed, HandleResized, IgnoreEvent,
              Receives, chainVars
<1>3. /\ c \in ChannelIds /\ NetworkOf[c] = n /\ Waiting(c)' = Waiting(c) \ {e}
      /\ \A d \in ChannelIds \ {c} : Waiting(d)' = Waiting(d)
  BY <1>0, <1>2, ReceiveWaits DEF Mirroring
<1>4. /\ e.type = "Created" => channels[c].status = "none" /\ Waiting(c) = {e}
      /\ e.type = "Closed" => channels[c].status = "open" /\ Waiting(c) = {e}
  BY <1>0, <1>2, HeadPhase
<1>5. /\ channels \in [ChannelIds -> ChannelRow] /\ balance \in Postings
      /\ handler \in [Networks -> HandlerStates]
  BY <1>0 DEF TypeOK, DBTypeOK, CustodyTypeOK
<1>6. \A d \in ChannelIds \ {c} : channels'[d] = channels[d]
  BY <1>1, <1>5 DEF HandleCreated, HandleJoined, HandleClosed, HandleResized, IgnoreEvent, dbVars
\* No other listener is in the Created branch of this channel.
<1>7. \A m \in Networks : handler[m] # Idle => handler[m].chan \in ChannelIds \ {c}
  <2> SUFFICES ASSUME NEW m \in Networks, handler[m] # Idle
               PROVE  handler[m].chan \in ChannelIds \ {c}
    OBVIOUS
  <2>1. handler[m].chan \in ChannelIds
    BY <1>5 DEF HandlerStates
  <2>2. NetworkOf[handler[m].chan] = m /\ m # n
    BY <1>2 DEF IInv, Wiring, HandlerOwnsRow
  <2> QED
    BY <1>3, <2>1, <2>2
<1>8. CASE HandleCreated(n, e)
  <2>1. /\ channels'[c].amount = e.amount /\ UNCHANGED balance
        /\ handler' = [handler EXCEPT ![n] = [step |-> "join", chan |-> c, amount |-> e.amount]]
        /\ e.type = "Created"
    BY <1>3, <1>5, <1>8 DEF HandleCreated
  <2>2. /\ handler'[n].chan = c /\ handler'[n].amount = e.amount /\ handler'[n] # Idle
        /\ \A m \in Networks \ {n} : handler'[m] = handler[m]
    BY <1>5, <2>1 DEF Idle
  <2>3. HandlerRow'
    BY <1>6, <1>7, <2>1, <2>2 DEF Covering, HandlerRow
  <2>4. ~Credited(c) /\ ~Credited(c)'
    BY <1>4, <2>1, <2>2 DEF Credited
  <2>5. \A d \in ChannelIds \ {c} : Credited(d)' <=> Credited(d)
    BY <1>2, <1>6, <2>2 DEF Credited
  <2>6. ~Closing(c) /\ ~Closing(c)'
    BY <1>3, <1>4, <2>1 DEF Closing
  <2>7. Due(c)' = Due(c)
    BY <2>4, <2>6 DEF Due, Held, Paid
  <2>8. \A d \in ChannelIds \ {c} : Due(d)' = Due(d)
    BY <1>2, <1>3, <2>1, <2>5 DEF Due, Held, Paid, Closing
  <2> QED
    BY <1>2, <2>1, <2>3, <2>7, <2>8, SameTotal, NoneMoves DEF Covering
<1>9. ASSUME UNCHANGED handler, channels[c].status # "none" <=> channels'[c].status # "none"
      PROVE  /\ HandlerRow' /\ \A d \in ChannelIds : Credited(d)' <=> Credited(d)
  <2>1. HandlerRow'
    BY <1>6, <1>7, <1>9 DEF Covering, HandlerRow
  <2>2. \A d \in ChannelIds : Credited(d)' <=> Credited(d)
    BY <1>6, <1>9 DEF Credited
  <2> QED
    BY <2>1, <2>2
<1>10. CASE HandleJoined(n, e) \/ HandleResized(n, e) \/ IgnoreEvent(n, e)
  <2>1. UNCHANGED <<handler, balance>>
    BY <1>10 DEF HandleJoined, HandleResized, IgnoreEvent, dbVars
  <2>2. e.type # "Closed"
    BY <1>4, <1>10 DEF HandleJoined, HandleResized, IgnoreEvent
  <2>3. channels[c].status # "none" <=> channels'[c].status # "none"
    <3>1. CASE HandleJoined(n, e)
      BY <1>3, <1>5, <3>1 DEF HandleJoined, ChannelRow
    <3>2. CASE HandleResized(n, e)
      <4>1. channels' = [channels EXCEPT ![c].version = @ + 1, ![c].amount = @ + e.delta]
        BY <3>2 DEF HandleResized
      <4>2. channels'[c] = [channels[c] EXCEPT !.version = @ + 1, !.amount = @ + e.delta]
        BY <1>3, <1>5, <4>1
      <4> QED
        BY <1>3, <1>5, <4>2 DEF ChannelRow
    <3>3. CASE IgnoreEvent(n, e)
      BY <3>3 DEF IgnoreEvent, dbVars
    <3> QED
      BY <1>10, <3>1, <3>2, <3>3
  <2>4. HandlerRow' /\ \A d \in ChannelIds : Credited(d)' <=> Credited(d)
    BY <1>9, <2>1, <2>3
  <2>5. \A d \in ChannelIds : Closing(d)' <=> Closing(d)
    BY <1>3, <2>2 DEF Closing
  <2>6. \A d \in ChannelIds : Due(d)' = Due(d)
    BY <1>2, <2>1, <2>4, <2>5 DEF Due, Held, Paid
  <2> QED
    BY <1>2, <2>1, <2>4, <2>6, SameTotal, NoneMoves DEF Covering
<1>11. CASE HandleClosed(n, e)
  <2>1. /\ UNCHANGED handler /\ e.type = "Closed" /\ channels'[c].status = "closed"
        /\ Record(c, Owner[c], -balance[c][Owner[c]])
    BY <1>3, <1>5, <1>11 DEF HandleClosed
  <2>2. HandlerRow' /\ \A d \in ChannelIds : Credited(d)' <=> Credited(d)
    BY <1>4, <1>9, <2>1
  <2>3. Owner[c] \in Participants /\ c \in Accounts
    BY <1>3, IdsAssumption DEF Accounts
  <2>4. PICK a \in Int : a = -balance[c][Owner[c]]
    BY <1>5, <2>3 DEF Postings
  <2>5. balance[c][Owner[c]] \in Int
    BY <1>5, <2>3 DEF Postings
  <2>6. LedgerTotal \in Int /\ LedgerTotal' = LedgerTotal + a
    BY <1>5, <2>1, <2>3, <2>4, RecordTotal
  <2>7. \A d \in ChannelIds \ {c} : balance'[d][Owner[d]] = balance[d][Owner[d]]
    <3>1. \A x \in Accounts, q \in Participants : x # c => balance'[x][q] = balance[x][q]
      BY SMTT(30), <1>5, <2>1, <2>4, RecordEffect
    <3> QED
      BY <3>1, IdsAssumption DEF Accounts
  <2>8. \A d \in ChannelIds \ {c} : Due(d)' = Due(d)
    BY <1>2, <1>3, <2>2, <2>7 DEF Due, Held, Paid, Closing
  <2>9. Closing(c) /\ ~Closing(c)'
    BY <1>3, <1>4, <2>1 DEF Closing
  <2>10. chain[c].amount \in Int
    BY <1>0, <1>3 DEF TypeOK, CustodyTypeOK, ContractRecord
  <2>11. PICK h \in Int : h = Held(c) /\ h = Held(c)'
    BY <1>2, <1>3, <2>2, <2>10 DEF Held
  <2>12. Due(c) = h + balance[c][Owner[c]] /\ Due(c)' = h + 0
    BY <2>9, <2>11 DEF Due, Paid
  <2>13. Due(c)' \in Int /\ LedgerTotal' + Due(c) = LedgerTotal + Due(c)' + 0
    BY <2>4, <2>5, <2>6, <2>11, <2>12
  <2>14. available'[Broker] = available[Broker] + 0
    BY <1>0, <1>2, CustodyAssumption DEF TypeOK, CustodyTypeOK, Parties
  <2>15. Balanced'
    BY <1>0, <1>3, <2>8, <2>13, <2>14, OneMoves DEF Covering
  <2> QED
    BY <2>2, <2>15
<1> QED
  BY <1>1, <1>8, <1>10, <1>11

\* The later steps of the Created branch.
LEMMA CreditBalances ==
  ASSUME IInv, TypeOK', Mirroring, Paying, Covering, NEW n \in Networks, CreatedStep(n)
  PROVE  HandlerRow' /\ Balanced'
<1>1. PICK c : c = handler[n].chan
  OBVIOUS
<1>2. /\ handler[n] # Idle /\ c \in ChannelIds /\ handler[n].amount \in Nat
      /\ handler[n].step \in {"join", "record"} /\ TypeOK
  BY <1>1, HandlerBusy DEF CreatedStep, JoinSucceeds, RecordCredit, IInv
<1>3. channels[c].status = "joining" /\ channels[c].amount = handler[n].amount
  BY <1>1, <1>2 DEF IInv, Wiring, HandlerOwnsRow, Covering, HandlerRow
<1>4. UNCHANGED <<events, channels, available>>
  BY DEF CreatedStep, JoinSucceeds, RecordCredit, dbVars, chainVars
<1>5. \A d \in ChannelIds : Waiting(d)' = Waiting(d)
  BY <1>4 DEF Waiting
<1>6. \A d \in ChannelIds : Closing(d)' <=> Closing(d)
  BY <1>5 DEF Closing
<1>7. ~Closing(c) /\ Waiting(c) \subseteq {JoinedLog(c)}
  BY <1>2, <1>3 DEF Paying, CreditedFirst, JoinedLog, Closing
<1>8. handler \in [Networks -> HandlerStates] /\ chain \in [ChannelIds -> ContractRecord]
  BY <1>2 DEF TypeOK, CustodyTypeOK
<1>9. CASE JoinSucceeds(n)
  <2>1. /\ UNCHANGED balance /\ chain' = [chain EXCEPT ![c].joining = TRUE]
        /\ handler' = [handler EXCEPT ![n].step = "record"]
    BY <1>1, <1>9 DEF JoinSucceeds, dbVars
  <2>2. /\ handler'[n] = [handler[n] EXCEPT !.step = "record"]
        /\ \A m \in Networks \ {n} : handler'[m] = handler[m]
    BY <1>8, <2>1
  <2>3. handler'[n] # Idle /\ handler'[n].chan = c /\ handler'[n].amount = handler[n].amount
    BY <1>1, <1>2, <1>8, <2>2 DEF HandlerStates, Idle
  <2>4. HandlerRow'
    BY <1>3, <1>4, <2>2, <2>3 DEF Covering, HandlerRow
  <2>5. \A d \in ChannelIds : Credited(d)' <=> Credited(d)
    BY <1>1, <1>2, <1>4, <2>2, <2>3 DEF Credited
  <2>6. \A d \in ChannelIds : chain'[d].amount = chain[d].amount
    BY <1>8, <2>1 DEF ContractRecord
  <2>7. \A d \in ChannelIds : Due(d)' = Due(d)
    BY <1>6, <2>1, <2>5, <2>6 DEF Due, Held, Paid
  <2> QED
    BY <1>4, <2>1, <2>4, <2>7, SameTotal, NoneMoves DEF Covering
<1>10. CASE RecordCredit(n)
  <2>1. /\ UNCHANGED chain /\ Record(c, Owner[c], handler[n].amount)
        /\ handler' = [handler EXCEPT ![n] = Idle]
    BY <1>1, <1>10 DEF RecordCredit, chainVars
  <2>2. handler'[n] = Idle /\ \A m \in Networks \ {n} : handler'[m] = handler[m]
    BY <1>8, <2>1
  <2>3. HandlerRow'
    BY <1>4, <2>2 DEF Covering, HandlerRow
  <2>4. ~Credited(c)
    BY <1>1, <1>2 DEF Credited
  <2>5. Credited(c)'
    <3>1. \A m \in Networks \ {n} : handler[m] # Idle => handler[m].chan # c
      BY <1>1, <1>2 DEF IInv, Wiring, HandlerOwnsRow
    <3> QED
      BY <1>3, <1>4, <2>2, <3>1 DEF Credited
  <2>6. \A d \in ChannelIds \ {c} : Credited(d)' <=> Credited(d)
    BY <1>1, <1>4, <2>2 DEF Credited
  <2>7. PICK a \in Int : a = handler[n].amount
    BY <1>2
  <2>8. Owner[c] \in Participants /\ c \in Accounts /\ balance \in Postings
    BY <1>2, IdsAssumption DEF Accounts, TypeOK, DBTypeOK
  <2>9. LedgerTotal \in Int /\ LedgerTotal' = LedgerTotal + a
    BY <2>1, <2>7, <2>8, RecordTotal
  <2>10. \A d \in ChannelIds \ {c} : balance'[d][Owner[d]] = balance[d][Owner[d]]
    <3>1. \A x \in Accounts, q \in Participants : x # c => balance'[x][q] = balance[x][q]
      BY <2>1, <2>7, <2>8, RecordEffect
    <3> QED
      BY <3>1, IdsAssumption DEF Accounts
  <2>11. \A d \in ChannelIds \ {c} : Due(d)' = Due(d)
    BY <1>6, <2>1, <2>6, <2>10 DEF Due, Held, Paid
  <2>12. chain[c].amount = a
    <3>1. InPhase(c, channels[c], chain[c], Waiting(c))
      BY <1>2 DEF Mirroring, Phases
    <3>2. Waiting(c) \ {JoinedLog(c)} = {}
      BY <1>7
    <3> QED
      BY <1>3, <2>7, <3>1, <3>2 DEF InPhase, OneBehind
  <2>13. Due(c) = 0 + 0 /\ Due(c)' = a + 0
    BY <1>2, <1>6, <1>7, <2>1, <2>4, <2>5, <2>12 DEF Due, Held, Paid
  <2>14. Due(c)' \in Int /\ LedgerTotal' + Due(c) = LedgerTotal + Due(c)' + 0
    BY <2>7, <2>9, <2>13
  <2>15. available'[Broker] = available[Broker] + 0
    BY <1>2, <1>4, CustodyAssumption DEF TypeOK, CustodyTypeOK, Parties
  <2>16. Balanced'
    BY <1>2, <2>11, <2>14, <2>15, OneMoves DEF Covering
  <2> QED
    BY <2>3, <2>16
<1> QED
  BY <1>9, <1>10 DEF CreatedStep

\* An application is created or closed while no member settles.
LEMMA AppsBalance ==
  ASSUME TypeOK, Mirroring, Covering, NEW v \in AppIds, DisciplinedAppStep(v)
  PROVE  Covering'
<1>1. /\ AppStep(v)
      /\ \A p \in apps'[v].members : \A c \in OpenChannels(p) : Settled(c)
  BY DEF DisciplinedAppStep
<1>2. UNCHANGED <<events, channels, chain, available, handler, signed, settling>>
  BY <1>1 DEF AppStep, CreateSome, CloseSome, CreateApplication, CloseApplication,
              custodyVars, chainVars, listenerVars
<1>3. \A c \in ChannelIds : Waiting(c)' = Waiting(c)
  BY <1>2 DEF Waiting
<1>4. ASSUME NEW c \in ChannelIds, Closing(c)
      PROVE  balance'[c][Owner[c]] = balance[c][Owner[c]]
  <2>1. ~Settled(c)
    BY <1>4, ClosingPhase DEF Settled
  <2> QED
    BY <1>1, <2>1, AppMoves, IdsAssumption
<1>5. \A c \in ChannelIds : Due(c)' = Due(c)
  <2> TAKE c \in ChannelIds
  <2>1. Held(c)' = Held(c)
    BY <1>2 DEF Held, Credited
  <2>2. Paid(c)' = Paid(c)
    BY <1>3, <1>4 DEF Paid, Closing
  <2> QED
    BY <2>1, <2>2 DEF Due
<1>6. LedgerTotal' = LedgerTotal
  BY <1>1, AppTotal
<1>7. Balanced'
  BY <1>2, <1>5, <1>6, NoneMoves DEF Covering
<1>8. NoAdd' /\ HandlerRow'
  BY <1>2 DEF Covering, NoAdd, HandlerRow
<1> QED
  BY <1>7, <1>8 DEF Covering

\* A request to settle moves nothing.
LEMMA SettleBalances ==
  ASSUME TypeOK, Covering, NEW c \in ChannelIds, SettleStep(c)
  PROVE  Covering'
<1>1. UNCHANGED <<balance, events, channels, chain, available, handler>>
  BY DEF SettleStep, ReadSome, ReadChannel, SignResize, SignClose, RefuseSettlement, Reply,
         dbVars, custodyVars, chainVars, listenerVars
<1>2. \A d \in ChannelIds : Due(d)' = Due(d)
  BY <1>1 DEF Due, Held, Paid, Credited, Closing, Waiting
<1>3. Balanced'
  BY <1>1, <1>2, SameTotal, NoneMoves DEF Covering
<1>4. HandlerRow'
  BY <1>1 DEF Covering, HandlerRow
<1>5. settling \in [ChannelIds -> Requests] /\ Changes \subseteq {0}
  BY DEF TypeOK, SettlementTypeOK, Covering, NoAdd
<1>6. \A d \in ChannelIds \ {c} : settling'[d] = settling[d]
  BY <1>5 DEF SettleStep, ReadSome, ReadChannel, SignResize, SignClose, RefuseSettlement, Reply
<1>7. settling'[c] # NoRequest => settling'[c].change = 0
  <2>1. CASE ReadSome(c)
    <3>1. PICK kind \in {"close", "resize"} : ReadChannel(c, kind, 0)
      BY <1>5, <2>1 DEF ReadSome
    <3>2. settling'[c].change = 0
      BY <1>5, <3>1 DEF ReadChannel
    <3> QED
      BY <3>2
  <2>2. CASE ~ReadSome(c)
    BY <1>5, <2>2 DEF SettleStep, SignResize, SignClose, RefuseSettlement, Reply
  <2> QED
    BY <2>1, <2>2
<1>8. ASSUME NEW s \in signed', s \notin signed
      PROVE  s.addUser = 0 /\ (s.kind = "close" => s.addBroker = 0)
  <2>1. CASE SignResize(c)
    <3>1. s = ResizeState(c, settling[c], balance[c][Owner[c]]) /\ settling[c].kind = "resize"
      BY <1>8, <2>1 DEF SignResize
    <3>2. settling[c].change = 0
      BY <3>1 DEF Covering, NoAdd, NoRequest
    <3> QED
      BY <3>1, <3>2 DEF ResizeState
  <2>2. CASE SignClose(c)
    <3>1. s = CloseState(c, settling[c], balance[c][Owner[c]])
      BY <1>8, <2>2 DEF SignClose
    <3> QED
      BY <3>1 DEF CloseState
  <2>3. CASE ReadSome(c) \/ RefuseSettlement(c)
    BY <1>8, <2>3 DEF ReadSome, ReadChannel, RefuseSettlement, custodyVars
  <2> QED
    BY <2>1, <2>2, <2>3 DEF SettleStep
<1>9. NoAdd'
  BY <1>5, <1>6, <1>7, <1>8 DEF Covering, NoAdd
<1> QED
  BY <1>3, <1>4, <1>9 DEF Covering

\* Every step of careful clients keeps the debt covered.
LEMMA DisciplinedBalances ==
  ASSUME IInv, TypeOK', Mirroring, Paying, Covering, [DisciplinedNext]_vars
  PROVE  Covering'
<1>0. TypeOK
  BY DEF IInv
<1>1. CASE UNCHANGED vars
  <2>1. UNCHANGED <<balance, events, channels, chain, available, handler, signed, settling>>
    BY <1>1 DEF vars, dbVars, custodyVars, chainVars, listenerVars
  <2>2. \A d \in ChannelIds : Due(d)' = Due(d)
    BY <2>1 DEF Due, Held, Paid, Credited, Closing, Waiting
  <2>3. Balanced'
    BY <2>1, <2>2, SameTotal, NoneMoves DEF Covering
  <2> QED
    BY <2>1, <2>3 DEF Covering, NoAdd, HandlerRow
<1>2. CASE ChainStep
  <2>1. UNCHANGED <<channels, handler, signed, settling>>
    BY <1>2 DEF ChainStep, ChainCreate, ChainJoin, ChainResize, ChainClose, Emit, dbVars
  <2>2. Balanced'
    BY <1>2, ChainBalances
  <2> QED
    BY <2>1, <2>2 DEF Covering, NoAdd, HandlerRow
<1>3. CASE ListenerStep
  <2>1. PICK n \in Networks : (HandleEvent(n) \/ CreatedStep(n)) /\ UNCHANGED settling
    BY <1>3 DEF ListenerStep
  <2>2. UNCHANGED signed
    BY <2>1 DEF HandleEvent, HandleCreated, HandleJoined, HandleClosed, HandleResized,
                IgnoreEvent, Receives, CreatedStep, JoinSucceeds, RecordCredit
  <2>3. NoAdd'
    BY <2>1, <2>2 DEF Covering, NoAdd
  <2>4. HandlerRow' /\ Balanced'
    BY <2>1, HandleBalances, CreditBalances
  <2> QED
    BY <2>3, <2>4 DEF Covering
<1>4. ASSUME NEW v \in AppIds, DisciplinedAppStep(v) PROVE Covering'
  BY <1>0, <1>4, AppsBalance
<1>5. ASSUME NEW c \in ChannelIds,
             \/ channels[c].status = "open" /\ ReadSome(c)
             \/ SignResize(c) \/ SignClose(c) \/ RefuseSettlement(c)
      PROVE  Covering'
  <2>1. SettleStep(c)
    BY <1>5 DEF SettleStep
  <2> QED
    BY <1>0, <2>1, SettleBalances
<1> QED
  BY <1>1, <1>2, <1>3, <1>4, <1>5 DEF DisciplinedNext

\* At first nothing is owed, nothing held, and the broker has his liquidity.
LEMMA StartsBalanced == Changes \subseteq {0} /\ ReliableInit => Covering
<1> SUFFICES ASSUME Changes \subseteq {0}, ReliableInit PROVE Covering
  OBVIOUS
<1>1. Init
  BY DEF ReliableInit
<1>2. /\ channels = [c \in ChannelIds |-> [status |-> "none", version |-> 0, amount |-> 0]]
      /\ events = [n \in Networks |-> <<>>] /\ handler = [n \in Networks |-> Idle]
      /\ available = [p \in Parties |-> IF p = Broker THEN Liquidity ELSE 0]
      /\ settling = [c \in ChannelIds |-> NoRequest] /\ signed = {}
  BY <1>1 DEF Init, DBInit, CustodyInit, SettlementInit
<1>3. NoAdd /\ HandlerRow
  BY <1>2 DEF NoAdd, HandlerRow
<1>4. LedgerTotal = 0
  BY <1>1, InitOwes
<1>5. \A c \in ChannelIds : Due(c) = 0
  <2> TAKE c \in ChannelIds
  <2>1. ~Credited(c)
    BY <1>2 DEF Credited
  <2>2. events[NetworkOf[c]] = <<>>
    BY <1>2, IdsAssumption
  <2>3. ~Closing(c)
    BY <2>2 DEF Closing, Waiting, Of
  <2> QED
    BY <2>1, <2>3 DEF Due, Held, Paid
<1>6. PICK f : f = [c \in ChannelIds |-> Due(c)]
  OBVIOUS
<1>7. SumFunctionOnSet(f, ChannelIds) = 0
  BY <1>5, <1>6, FiniteAssumption, SumZero
<1>8. available[Broker] = Liquidity /\ Liquidity \in Int
  BY <1>2, CustodyAssumption DEF Parties
<1>9. Balanced
  BY <1>4, <1>6, <1>7, <1>8 DEF Balanced
<1> QED
  BY <1>3, <1>9 DEF Covering

\* The sum over the channels is the two sums of Solvent.
LEMMA BalancedIsSolvent ==
  ASSUME IInv, Balanced
  PROVE  Solvent
<1>1. \A c \in ChannelIds : Closing(c) <=> Pending(c, {"Closed"})
  <2> TAKE c \in ChannelIds
  <2>1. ASSUME Closing(c) PROVE Pending(c, {"Closed"})
    BY <2>1, IdsAssumption DEF Closing, Waiting, Of, Pending
  <2>2. ASSUME Pending(c, {"Closed"}) PROVE Closing(c)
    <3>1. PICK n \in Networks : \E i \in 1..Len(events[n]) :
            events[n][i].chan = c /\ events[n][i].type = "Closed"
      BY <2>2 DEF Pending
    <3> PICK i \in 1..Len(events[n]) : events[n][i].chan = c /\ events[n][i].type = "Closed"
      BY <3>1
    <3>2. events[n][i] \in emitted[n] /\ NetworkOf[c] = n
      BY <3>1 DEF IInv, Wiring, EventsKnown
    <3>3. events[n][i] \in Waiting(c)
      BY <3>1, <3>2 DEF Waiting, Of
    <3> QED
      BY <3>1, <3>3 DEF Closing
  <2> QED
    BY <2>1, <2>2
<1>2. \A c \in ChannelIds : Held(c) \in Int /\ Paid(c) \in Int
                            /\ chain[c].amount \in Int /\ balance[c][Owner[c]] \in Int
  <2> TAKE c \in ChannelIds
  <2>1. chain[c].amount \in Int /\ balance[c][Owner[c]] \in Int
    BY IdsAssumption DEF IInv, TypeOK, CustodyTypeOK, ContractRecord, DBTypeOK, Postings, Accounts
  <2> QED
    BY <2>1 DEF Held, Paid
<1>3. PICK S : S = {d \in ChannelIds : Pending(d, {"Closed"})}
  OBVIOUS
<1>4. PICK T : T = {d \in ChannelIds : Credited(d)}
  OBVIOUS
<1>5. PICK h : h = [c \in ChannelIds |-> Held(c)]
  OBVIOUS
<1>6. PICK p : p = [c \in ChannelIds |-> Paid(c)]
  OBVIOUS
<1>7. PICK f : f = [c \in ChannelIds |-> Due(c)]
  OBVIOUS
<1>8. PICK hs : hs = [c \in T |-> chain[c].amount]
  OBVIOUS
<1>9. PICK ps : ps = [c \in S |-> balance[c][Owner[c]]]
  OBVIOUS
<1>10. S \subseteq ChannelIds /\ T \subseteq ChannelIds /\ IsFiniteSet(S) /\ IsFiniteSet(T)
  BY <1>3, <1>4, FiniteAssumption, FS_Subset
<1>11. SumFunctionOnSet(f, ChannelIds)
         = SumFunctionOnSet(h, ChannelIds) + SumFunctionOnSet(p, ChannelIds)
  <2>1. \A c \in ChannelIds : h[c] \in Int /\ p[c] \in Int /\ f[c] = h[c] + p[c]
    BY <1>2, <1>5, <1>6, <1>7 DEF Due
  <2> QED
    BY <2>1, FiniteAssumption, SumPlus
<1>12. SumFunctionOnSet(h, ChannelIds) = SumFunction(hs) /\ SumFunction(hs) \in Int
  <2>1. /\ \A c \in T : h[c] \in Int /\ hs[c] = h[c]
        /\ \A c \in ChannelIds \ T : h[c] = 0
    BY <1>2, <1>4, <1>5, <1>8 DEF Held
  <2>2. SumFunctionOnSet(h, ChannelIds) = SumFunctionOnSet(h, T)
    BY <1>10, <2>1, FiniteAssumption, SumOutside
  <2>3. SumFunctionOnSet(hs, T) = SumFunctionOnSet(h, T)
    BY <1>10, <2>1, SumSame
  <2>4. SumFunctionOnSet(h, T) \in Int
    BY <1>10, <2>1, SumInt
  <2>5. SumFunction(hs) = SumFunctionOnSet(hs, T)
    BY <1>8 DEF SumFunction
  <2> QED
    BY <2>2, <2>3, <2>4, <2>5
<1>13. SumFunctionOnSet(p, ChannelIds) = SumFunction(ps) /\ SumFunction(ps) \in Int
  <2>1. /\ \A c \in S : p[c] \in Int /\ ps[c] = p[c]
        /\ \A c \in ChannelIds \ S : p[c] = 0
    BY <1>1, <1>2, <1>3, <1>6, <1>9 DEF Paid
  <2>2. SumFunctionOnSet(p, ChannelIds) = SumFunctionOnSet(p, S)
    BY <1>10, <2>1, FiniteAssumption, SumOutside
  <2>3. SumFunctionOnSet(ps, S) = SumFunctionOnSet(p, S)
    BY <1>10, <2>1, SumSame
  <2>4. SumFunctionOnSet(p, S) \in Int
    BY <1>10, <2>1, SumInt
  <2>5. SumFunction(ps) = SumFunctionOnSet(ps, S)
    BY <1>9 DEF SumFunction
  <2> QED
    BY <2>2, <2>3, <2>4, <2>5
<1>14. LedgerTotal = SumFunctionOnSet(f, ChannelIds) + available[Broker] - Liquidity
  BY <1>7 DEF Balanced
<1>15. available[Broker] \in Int /\ Liquidity \in Int
  BY CustodyAssumption DEF IInv, TypeOK, CustodyTypeOK, Parties
<1>16. LedgerTotal - SumFunction(ps) = SumFunction(hs) + available[Broker] - Liquidity
  BY <1>11, <1>12, <1>13, <1>14, <1>15
<1> QED
  BY <1>3, <1>4, <1>8, <1>9, <1>16 DEF Solvent

\* The debt is covered at every moment: what the journal owes, less what closes
\* have paid out already, is what the contracts hold in credited channels plus
\* what the broker has taken out of them.  It is about clients that settle one
\* thing at a time and resize by nothing of their own: the Resized branch does
\* not book what a participant adds (custody.go handleBlockChainEvent).
THEOREM DebtIsCovered == Changes \subseteq {0} /\ DisciplinedSpec => []Solvent
<1>1. Changes \subseteq {0} /\ ReliableInit => IInv /\ Mirroring /\ Paying /\ Covering
  BY InitIInv, ReliableStarts, DisciplinedStarts, StartsBalanced DEF ReliableInit
<1>2. IInv /\ Mirroring /\ Paying /\ Covering /\ [DisciplinedNext]_vars
        => (IInv /\ Mirroring /\ Paying /\ Covering)'
  <2> SUFFICES ASSUME IInv, Mirroring, Paying, Covering, [DisciplinedNext]_vars
               PROVE  IInv' /\ Mirroring' /\ Paying' /\ Covering'
    OBVIOUS
  <2>1. [ReliableNext]_vars
    BY DisciplinedIsReliable
  <2>2. [Next]_vars
    BY <2>1 DEF Next
  <2>3. IInv'
    BY <2>2, NextIInv
  <2>4. Mirroring' /\ Paying'
    BY <2>1, ReliableMirrors, DisciplinedPays DEF IInv
  <2>5. Covering'
    BY <2>3, DisciplinedBalances DEF IInv
  <2> QED
    BY <2>3, <2>4, <2>5
<1>3. IInv /\ Covering => Solvent
  BY BalancedIsSolvent DEF Covering
<1> QED
  BY <1>1, <1>2, <1>3, PTL DEF DisciplinedSpec

-----------------------------------------------------------------------------
(* What the broker promises.                                               *)

\* A channel that its contract does not know has no deposit.
FirstDeposit ==
  \A c \in ChannelIds :
    chain[c].status = "void" =>
      \A n \in Networks : \A e \in emitted[n] : e.type = "Created" => e.chan # c

\* A log of channel c is emitted, of a deposit only when c is new.
LEMMA EmitFirst ==
  ASSUME TypeOK, FirstDeposit, NEW c \in ChannelIds, NEW e \in Events, e.chan = c,
         Emit(NetworkOf[c], e), NEW r, chain' = [chain EXCEPT ![c] = r], r.status # "void"
  PROVE  FirstDeposit'
<1>1. chain'[c] = r /\ \A d \in ChannelIds \ {c} : chain'[d] = chain[d]
  BY DEF TypeOK, CustodyTypeOK
<1>2. \A n \in Networks : \A l \in emitted'[n] : l \in emitted[n] \/ l = e
  BY DEF Emit, TypeOK, CustodyTypeOK
<1> QED
  BY <1>1, <1>2 DEF FirstDeposit

\* Every step of the contract emits one log, of a channel it then knows.
LEMMA ChainFirst ==
  ASSUME TypeOK, ChainStep
  PROVE  \E c \in ChannelIds, e \in Events : \E r :
           /\ e.chan = c /\ Emit(NetworkOf[c], e)
           /\ chain' = [chain EXCEPT ![c] = r] /\ r.status # "void"
           /\ UNCHANGED <<channels, apps, balance, handler>>
           /\ e.type = "Created" => e.amount \in Deposits /\ chain[c].status = "void"
<1>0. chain \in [ChannelIds -> ContractRecord]
  BY DEF TypeOK, CustodyTypeOK
<1>1. ASSUME NEW c \in ChannelIds, NEW amount \in Deposits, ChainCreate(c, amount)
      PROVE  \E e \in Events : \E r :
               /\ e.chan = c /\ Emit(NetworkOf[c], e)
               /\ chain' = [chain EXCEPT ![c] = r] /\ r.status # "void"
               /\ e.type = "Created" => e.amount \in Deposits /\ chain[c].status = "void"
  <2>1. PICK e : e = [type |-> "Created", chan |-> c, amount |-> amount]
    OBVIOUS
  <2>2. PICK r : r = [chain[c] EXCEPT !.status = "initial", !.amount = amount]
    OBVIOUS
  <2>3. amount \in Nat
    BY CustodyAssumption
  <2>4. e \in Events /\ e.chan = c /\ e.amount \in Deposits
    BY <2>1, <2>3 DEF Events
  <2>5. r.status # "void"
    BY <1>0, <2>2, <2>3 DEF ContractRecord
  <2>6. chain' = [chain EXCEPT ![c] = r]
    BY <1>0, <1>1, <2>2 DEF ChainCreate
  <2>7. Emit(NetworkOf[c], e) /\ chain[c].status = "void"
    BY <1>1, <2>1 DEF ChainCreate
  <2> QED
    BY <2>4, <2>5, <2>6, <2>7
<1>2. ASSUME NEW c \in ChannelIds, ChainJoin(c)
      PROVE  \E e \in Events : \E r :
               /\ e.chan = c /\ Emit(NetworkOf[c], e)
               /\ chain' = [chain EXCEPT ![c] = r] /\ r.status # "void"
               /\ e.type = "Created" => e.amount \in Deposits /\ chain[c].status = "void"
  <2>1. PICK e : e = [type |-> "Joined", chan |-> c]
    OBVIOUS
  <2>2. PICK r : r = [chain[c] EXCEPT !.status = "active", !.joining = FALSE]
    OBVIOUS
  <2>3. e \in Events /\ e.chan = c /\ e.type # "Created"
    BY <2>1 DEF Events
  <2>4. r.status # "void"
    BY <1>0, <2>2 DEF ContractRecord
  <2>5. chain' = [chain EXCEPT ![c] = r]
    BY <1>0, <1>2, <2>2 DEF ChainJoin
  <2> QED
    BY <1>2, <2>1, <2>3, <2>4, <2>5 DEF ChainJoin
<1>3. ASSUME NEW s \in signed, ChainResize(s) \/ ChainClose(s)
      PROVE  \E e \in Events : \E r :
               /\ e.chan = s.chan /\ Emit(NetworkOf[s.chan], e)
               /\ chain' = [chain EXCEPT ![s.chan] = r] /\ r.status # "void"
               /\ e.type = "Created" => e.amount \in Deposits /\ chain[s.chan].status = "void"
  <2>0. /\ s.chan \in ChannelIds /\ s.version \in Nat /\ s.user \in Int /\ s.broker \in Int
        /\ s.addUser \in Int /\ s.addBroker \in Int
    BY DEF TypeOK, CustodyTypeOK, SignedStates
  <2>1. ASSUME NEW status \in {"active", "final"}, Settle(s, status)
        PROVE  \E r :
                 chain' = [chain EXCEPT ![s.chan] = r] /\ r.status # "void"
    <3>1. PICK m \in Int : m = IF status = "final" THEN 0 ELSE s.user + s.broker
      BY <2>0
    <3>2. PICK r : r = [chain[s.chan] EXCEPT !.status = status, !.version = s.version, !.amount = m]
      OBVIOUS
    <3>3. r.status # "void"
      BY <1>0, <2>0, <3>1, <3>2 DEF ContractRecord
    <3>4. chain' = [chain EXCEPT ![s.chan].status = status, ![s.chan].version = s.version,
                                 ![s.chan].amount = m]
      BY <2>1, <3>1 DEF Settle
    <3>5. chain' = [chain EXCEPT ![s.chan] = r]
      BY <1>0, <2>0, <3>2, <3>4
    <3> QED
      BY <3>3, <3>5
  <2>2. CASE ChainResize(s)
    <3>1. PICK e : e = [type |-> "Resized", chan |-> s.chan, delta |-> s.addUser + s.addBroker]
      OBVIOUS
    <3>2. e \in Events /\ e.chan = s.chan /\ e.type # "Created"
      BY <2>0, <3>1 DEF Events
    <3>3. Emit(NetworkOf[s.chan], e) /\ Settle(s, "active")
      BY <2>2, <3>1 DEF ChainResize
    <3> QED
      BY <2>1, <3>2, <3>3
  <2>3. CASE ChainClose(s)
    <3>1. PICK e : e = [type |-> "Closed", chan |-> s.chan, user |-> s.user]
      OBVIOUS
    <3>2. e \in Events /\ e.chan = s.chan /\ e.type # "Created"
      BY <2>0, <3>1 DEF Events
    <3>3. Emit(NetworkOf[s.chan], e) /\ Settle(s, "final")
      BY <2>3, <3>1 DEF ChainClose
    <3> QED
      BY <2>1, <3>2, <3>3
  <2> QED
    BY <1>3, <2>2, <2>3
<1>4. UNCHANGED <<channels, apps, balance, handler>>
  BY DEF ChainStep, ChainCreate, ChainJoin, ChainResize, ChainClose, Emit, dbVars
<1>5. \A s \in signed : s.chan \in ChannelIds
  BY DEF TypeOK, CustodyTypeOK, SignedStates
<1> QED
  BY <1>1, <1>2, <1>3, <1>4, <1>5 DEF ChainStep

\* Every step keeps FirstDeposit.
LEMMA NextFirst ==
  ASSUME TypeOK, FirstDeposit, [Next]_vars
  PROVE  FirstDeposit'
<1>1. ASSUME UNCHANGED emitted, \A c \in ChannelIds : chain'[c].status = chain[c].status
      PROVE  FirstDeposit'
  BY <1>1 DEF FirstDeposit
<1>2. ASSUME UNCHANGED <<chain, emitted>> PROVE FirstDeposit'
  BY <1>2 DEF FirstDeposit
<1>3. CASE ChainStep
  BY <1>3, ChainFirst, EmitFirst
<1>4. ASSUME NEW n \in Networks, HandleEvent(n) \/ RecordCredit(n) PROVE FirstDeposit'
  BY <1>2, <1>4 DEF HandleEvent, HandleCreated, HandleJoined, HandleClosed, HandleResized,
                    IgnoreEvent, Receives, RecordCredit, chainVars
<1>5. ASSUME NEW n \in Networks, JoinSucceeds(n) PROVE FirstDeposit'
  <2>1. handler[n].chan \in ChannelIds /\ chain \in [ChannelIds -> ContractRecord]
    BY <1>5, HandlerBusy DEF JoinSucceeds, TypeOK, CustodyTypeOK
  <2>2. UNCHANGED emitted /\ chain' = [chain EXCEPT ![handler[n].chan].joining = TRUE]
    BY <1>5 DEF JoinSucceeds
  <2>3. \A c \in ChannelIds : chain'[c].status = chain[c].status
    BY <2>1, <2>2 DEF ContractRecord
  <2> QED
    BY <1>1, <2>2, <2>3
<1>6. ASSUME NEW v \in AppIds, AppStep(v) PROVE FirstDeposit'
  BY <1>2, <1>6 DEF AppStep, custodyVars, chainVars
<1>7. ASSUME NEW c \in ChannelIds, SettleStep(c) PROVE FirstDeposit'
  BY <1>2, <1>7 DEF SettleStep, ReadSome, ReadChannel, SignResize, SignClose,
                    RefuseSettlement, Reply, custodyVars, chainVars
<1>8. CASE FaultStep
  BY <1>2, <1>8 DEF FaultStep, Crash, JoinFails, Subscribe, SubscriptionFails, LogRepeats, chainVars
<1>9. CASE UNCHANGED vars
  BY <1>2, <1>9 DEF vars, custodyVars, chainVars
<1> QED
  BY <1>3, <1>4, <1>5, <1>6, <1>7, <1>8, <1>9 DEF Next, ReliableNext, ListenerStep, CreatedStep

-----------------------------------------------------------------------------
(* What a participant has free.                                            *)

\* What he has on all channels, in a table of balances.
FreeOf(m, p) == SumFunctionOnSet([c \in ChannelIds |-> m[c][p]], ChannelIds)

\* Before and after a step.
LEMMA FreeIs ==
  /\ Free = [p \in Participants |-> FreeOf(balance, p)]
  /\ Free' = [p \in Participants |-> FreeOf(balance', p)]
BY DEF Free, FreeOf, SumFunction

\* One term of a sum of natural numbers is no more than the sum.
LEMMA TermOfSum ==
  ASSUME NEW S, IsFiniteSet(S), NEW f, \A x \in S : f[x] \in Nat
  PROVE  /\ SumFunctionOnSet(f, S) \in Nat
         /\ \A x \in S : f[x] <= SumFunctionOnSet(f, S)
<1>1. SumFunctionOnSet(f, S) \in Int
  BY SumInt
<1>2. SumFunctionOnSet(f, {}) <= SumFunctionOnSet(f, S)
  BY SumSubset
<1>3. SumFunctionOnSet(f, S) \in Nat
  BY <1>1, <1>2, SumEmpty
<1>4. ASSUME NEW x \in S PROVE f[x] <= SumFunctionOnSet(f, S)
  <2>1. SumFunctionOnSet(f, {x}) <= SumFunctionOnSet(f, S)
    BY SumSubset
  <2>2. IsFiniteSet({x})
    BY FS_Singleton
  <2>3. SumFunctionOnSet(f, {x}) = f[x]
    BY <2>2, SumOne
  <2> QED
    BY <2>1, <2>3
<1> QED
  BY <1>3, <1>4

\* It is never negative, and no less than what is on one channel.
LEMMA FreeHolds ==
  ASSUME NEW m \in Postings, NEW p \in Participants, \A c \in ChannelIds : m[c][p] >= 0
  PROVE  /\ FreeOf(m, p) \in Nat
         /\ \A c \in ChannelIds : m[c][p] <= FreeOf(m, p)
<1> DEFINE f == [c \in ChannelIds |-> m[c][p]]
<1>1. \A c \in ChannelIds : f[c] \in Nat /\ f[c] = m[c][p]
  BY DEF Postings, Accounts
<1> HIDE DEF f
<1>2. /\ SumFunctionOnSet(f, ChannelIds) \in Nat
      /\ \A c \in ChannelIds : f[c] <= SumFunctionOnSet(f, ChannelIds)
  BY <1>1, FiniteAssumption, TermOfSum
<1>3. SumFunctionOnSet(f, ChannelIds) = FreeOf(m, p)
  BY DEF f, FreeOf
<1> QED
  BY <1>1, <1>2, <1>3

\* It changes as the balance of one channel does.
LEMMA FreeChange ==
  ASSUME NEW m \in Postings, NEW k \in Postings, NEW p \in Participants, NEW c \in ChannelIds,
         \A d \in ChannelIds \ {c} : k[d][p] = m[d][p]
  PROVE  FreeOf(k, p) = FreeOf(m, p) + k[c][p] - m[c][p]
<1> DEFINE f == [d \in ChannelIds |-> m[d][p]]
           g == [d \in ChannelIds |-> k[d][p]]
<1>1. /\ \A d \in ChannelIds : f[d] \in Int
      /\ \A d \in ChannelIds \ {c} : g[d] = f[d]
      /\ g[c] \in Int /\ f[c] = m[c][p] /\ g[c] = k[c][p]
  BY DEF Postings, Accounts
<1> HIDE DEF f, g
<1>2. SumFunctionOnSet(g, ChannelIds) = SumFunctionOnSet(f, ChannelIds) + g[c] - f[c]
  BY <1>1, FiniteAssumption, SumChange
<1>3. SumFunctionOnSet(f, ChannelIds) = FreeOf(m, p) /\ SumFunctionOnSet(g, ChannelIds) = FreeOf(k, p)
  BY DEF f, g, FreeOf
<1> QED
  BY <1>1, <1>2, <1>3

\* Where no channel's balance changes, it stays.
LEMMA FreeSame ==
  ASSUME NEW m, NEW k, NEW p, \A c \in ChannelIds : k[c][p] = m[c][p]
  PROVE  FreeOf(k, p) = FreeOf(m, p)
<1>1. [c \in ChannelIds |-> k[c][p]] = [c \in ChannelIds |-> m[c][p]]
  OBVIOUS
<1> QED
  BY <1>1 DEF FreeOf

-----------------------------------------------------------------------------
(* Each step is one of BrokerPromise, or changes nothing of it.            *)

\* Steps that neither deposit, credit nor move money.
LEMMA PromiseFrame ==
  ASSUME UNCHANGED <<Made, Dealt, balance, apps>>
  PROVE  UNCHANGED Promise!vars
<1>1. Free' = Free
  BY FreeIs
<1>2. Phase' = Phase /\ Members' = Members /\ Staked' = Staked
  BY DEF Phase, Members, Staked
<1> QED
  BY <1>1, <1>2 DEF Promise!vars

\* The deposits are what the logs of the networks say.
LEMMA SameLogs == UNCHANGED emitted => UNCHANGED Made
BY DEF Made

\* Nobody's deposit is dealt with where rows and handlers stay.
LEMMA SameDealt == UNCHANGED <<channels, handler>> => UNCHANGED Dealt
BY DEF Dealt, Credited

\* One journal account of one beneficiary changes.
LEMMA OneRecorded ==
  ASSUME TypeOK, NEW c \in ChannelIds, NEW p \in Participants, NEW a \in Int, Record(c, p, a)
  PROVE  /\ balance' \in Postings
         /\ Free[p] \in Int /\ Free' = [Free EXCEPT ![p] = @ + a]
         /\ Staked' = Staked
<1>1. balance \in Postings /\ ChannelIds \subseteq Accounts /\ AppIds \subseteq Accounts
  BY DEF TypeOK, DBTypeOK, Accounts
<1>2. /\ balance' \in Postings
      /\ \A x \in Accounts, q \in Participants :
           balance'[x][q] = IF x = c /\ q = p THEN balance[x][q] + a ELSE balance[x][q]
  BY <1>1, RecordEffect
<1>3. PICK m, k : m = balance /\ k = balance'
  OBVIOUS
<1>4. /\ m \in Postings /\ k \in Postings
      /\ \A x \in Accounts, q \in Participants :
           k[x][q] = IF x = c /\ q = p THEN m[x][q] + a ELSE m[x][q]
  BY <1>1, <1>2, <1>3
<1>5. /\ \A x \in Accounts, q \in Participants : m[x][q] \in Int
      /\ m[c][p] \in Int /\ k[c][p] = m[c][p] + a
  BY <1>1, <1>4 DEF Postings
<1>6. FreeOf(m, p) \in Int
  <2> DEFINE f == [d \in ChannelIds |-> m[d][p]]
  <2>1. \A d \in ChannelIds : f[d] \in Int
    BY <1>1, <1>5
  <2> HIDE DEF f
  <2>2. SumFunctionOnSet(f, ChannelIds) \in Int
    BY <2>1, FiniteAssumption, SumInt
  <2> QED
    BY <2>2 DEF f, FreeOf
<1>7. FreeOf(k, p) = FreeOf(m, p) + a
  <2>1. \A d \in ChannelIds \ {c} : k[d][p] = m[d][p]
    BY <1>1, <1>4
  <2>2. FreeOf(k, p) = FreeOf(m, p) + k[c][p] - m[c][p]
    BY <1>4, <2>1, FreeChange
  <2> QED
    BY <1>5, <1>6, <2>2
<1>8. \A q \in Participants \ {p} : FreeOf(k, q) = FreeOf(m, q)
  <2> TAKE q \in Participants \ {p}
  <2>1. \A d \in ChannelIds : k[d][q] = m[d][q]
    BY <1>1, <1>4
  <2> QED
    BY <2>1, FreeSame
<1>9. /\ Free = [q \in Participants |-> FreeOf(m, q)]
      /\ Free' = [q \in Participants |-> FreeOf(k, q)]
  BY <1>3, FreeIs
<1>10. Free[p] \in Int /\ Free' = [Free EXCEPT ![p] = @ + a]
  BY <1>6, <1>7, <1>8, <1>9
<1>11. \A v \in AppIds : k[v] = m[v]
  <2> TAKE v \in AppIds
  <2>1. v \in Accounts /\ v # c
    BY <1>1, IdsAssumption
  <2>2. \A q \in Participants : k[v][q] = m[v][q]
    BY <1>4, <2>1
  <2>3. k[v] \in [Participants -> Int] /\ m[v] \in [Participants -> Int]
    BY <1>4, <2>1 DEF Postings
  <2> QED
    BY <2>2, <2>3
<1>12. Staked' = Staked
  BY <1>3, <1>11 DEF Staked
<1> QED
  BY <1>2, <1>10, <1>12

\* What is made is what is logged.
LEMMA MadeIs ==
  ASSUME NEW c, NEW a, NEW n \in Networks, CreatedLog(c, a) \in emitted[n]
  PROVE  [chan |-> c, amount |-> a] \in Made
<1>1. PICK l : l = CreatedLog(c, a)
  OBVIOUS
<1>2. l \in UNION {emitted[m] : m \in Networks} /\ l.type = "Created" /\ l.chan = c /\ l.amount = a
  BY <1>1 DEF CreatedLog
<1> QED
  BY <1>2 DEF Made

\* The contract's steps: a log of type Created is a deposit.
LEMMA ChainKept ==
  ASSUME TypeOK, FirstDeposit, ChainStep
  PROVE  [Promise!Next]_Promise!vars
<1>1. PICK c \in ChannelIds, e \in Events :
        /\ e.chan = c /\ Emit(NetworkOf[c], e)
        /\ UNCHANGED <<channels, apps, balance, handler>>
        /\ e.type = "Created" => e.amount \in Deposits /\ chain[c].status = "void"
  BY ChainFirst
<1>2. NetworkOf[c] \in Networks /\ emitted \in [Networks -> SUBSET Events]
  BY IdsAssumption DEF TypeOK, CustodyTypeOK
<1>3. emitted' = [emitted EXCEPT ![NetworkOf[c]] = @ \cup {e}]
  BY <1>1 DEF Emit
<1>4. Dealt' = Dealt
  BY <1>1, SameDealt
<1>5. PICK U, V : U = UNION {emitted[n] : n \in Networks} /\ V = UNION {emitted'[n] : n \in Networks}
  OBVIOUS
<1>6. V = U \cup {e}
  BY <1>2, <1>3, <1>5
<1>7. /\ Made = {[chan |-> l.chan, amount |-> l.amount] : l \in {l \in U : l.type = "Created"}}
      /\ Made' = {[chan |-> l.chan, amount |-> l.amount] : l \in {l \in V : l.type = "Created"}}
  BY <1>5 DEF Made
<1>8. CASE e.type # "Created"
  <2>1. {l \in V : l.type = "Created"} = {l \in U : l.type = "Created"}
    BY <1>6, <1>8
  <2>2. Made' = Made
    BY <1>7, <2>1
  <2> QED
    BY <1>1, <1>4, <2>2, PromiseFrame
<1>9. CASE e.type = "Created"
  <2>1. Made' = Made \cup {[chan |-> c, amount |-> e.amount]}
    BY <1>1, <1>6, <1>7, <1>9
  <2>2. \A d \in Made : d.chan # c
    <3>1. \A l \in U : l.type = "Created" => l.chan # c
      BY <1>1, <1>5, <1>9 DEF FirstDeposit
    <3> QED
      BY <1>7, <3>1
  <2>3. Free' = Free
    BY <1>1, FreeIs
  <2>4. Phase' = Phase /\ Members' = Members /\ Staked' = Staked
    BY <1>1 DEF Phase, Members, Staked
  <2>5. Promise!Deposit(c)
    BY <1>1, <1>4, <1>9, <2>1, <2>2, <2>3, <2>4 DEF Promise!Deposit
  <2> QED
    BY <2>5 DEF Promise!Next
<1> QED
  BY <1>8, <1>9

\* The credit of the Created branch pays out the deposit it is for.
LEMMA CreditKept ==
  ASSUME IInv, HandlerPays, NEW n \in Networks, RecordCredit(n)
  PROVE  \E d \in Made : Promise!Credit(d)
<1>1. /\ handler[n] # Idle /\ handler[n].chan \in ChannelIds /\ handler[n].amount \in Nat
      /\ Owner[handler[n].chan] \in Participants
  BY HandlerBusy DEF RecordCredit, IInv
<1>2. PICK c \in ChannelIds, a \in Nat : c = handler[n].chan /\ a = handler[n].amount
  BY <1>1
<1>3. /\ handler' = [handler EXCEPT ![n] = Idle] /\ Record(c, Owner[c], a)
      /\ UNCHANGED <<emitted, channels, apps>> /\ handler \in [Networks -> HandlerStates]
  BY <1>2 DEF RecordCredit, chainVars, IInv, TypeOK, CustodyTypeOK
<1>4. Free' = [Free EXCEPT ![Owner[c]] = @ + a] /\ Staked' = Staked
  BY <1>1, <1>2, <1>3, OneRecorded DEF IInv
<1>5. channels[c].status # "none" /\ ~Credited(c)
  BY <1>1, <1>2 DEF IInv, Wiring, HandlerOwnsRow, Credited
<1>6. Credited(c)'
  <2>1. \A m \in Networks : m # n => handler[m] = Idle \/ handler[m].chan # c
    BY <1>1, <1>2 DEF IInv, Wiring, HandlerOwnsRow
  <2> QED
    BY <1>3, <1>5, <2>1 DEF Credited
<1>7. \A k \in ChannelIds \ {c} : Credited(k)' <=> Credited(k)
  BY <1>2, <1>3 DEF Credited
<1>8. Dealt' = Dealt \cup {c} /\ c \notin Dealt
  BY <1>5, <1>6, <1>7 DEF Dealt
<1>9. PICK d : d = [chan |-> c, amount |-> a]
  OBVIOUS
<1>10. d \in Made /\ d.chan = c /\ d.amount = a
  <2>1. CreatedLog(c, a) \in emitted[n]
    BY <1>1, <1>2 DEF HandlerPays
  <2> QED
    BY <1>9, <2>1, MadeIs
<1>11. Made' = Made
  BY <1>3, SameLogs
<1>12. Phase' = Phase /\ Members' = Members
  BY <1>3 DEF Phase, Members
<1>13. Promise!Credit(d)
  BY <1>4, <1>8, <1>10, <1>11, <1>12 DEF Promise!Credit
<1> QED
  BY <1>10, <1>13

\* The Closed event takes what is on the channel away from its owner.
LEMMA ClosedKept ==
  ASSUME IInv, NEW n \in Networks, NEW e \in Events, e.chan \in ChannelIds, HandleClosed(n, e)
  PROVE  Promise!Withdraw(Owner[e.chan])
<1>1. PICK c \in ChannelIds, p \in Participants : c = e.chan /\ p = Owner[c]
  BY IdsAssumption
<1>2. /\ balance \in Postings /\ ChannelIds \subseteq Accounts
      /\ channels \in [ChannelIds -> ChannelRow]
  BY DEF IInv, TypeOK, DBTypeOK, Accounts
<1>3. \A d \in ChannelIds : balance[d][p] \in Int /\ balance[d][p] >= 0
  BY <1>2 DEF IInv, Money, NoOverdraft, Postings
<1>4. PICK a \in Nat : a = balance[c][p]
  BY <1>3
<1>5. Record(c, p, -a)
  BY <1>1, <1>4 DEF HandleClosed
<1>6. /\ Free' = [Free EXCEPT ![p] = @ + (-a)] /\ Free[p] \in Int
      /\ Staked' = Staked
  <2>1. -a \in Int
    OBVIOUS
  <2> QED
    BY <1>5, <2>1, OneRecorded DEF IInv
<1>7. Free[p] \in Nat /\ a <= Free[p]
  <2>1. FreeOf(balance, p) \in Nat /\ balance[c][p] <= FreeOf(balance, p)
    BY <1>2, <1>3, FreeHolds
  <2>2. Free[p] = FreeOf(balance, p)
    BY FreeIs
  <2> QED
    BY <1>4, <2>1, <2>2
<1>8. PICK rest : rest = Free[p] + (-a)
  OBVIOUS
<1>9. rest \in 0..Free[p] /\ Free' = [Free EXCEPT ![p] = rest]
  BY <1>6, <1>7, <1>8
<1>10. Dealt' = Dealt
  <2>1. /\ channels[c].status # "none" /\ handler' = handler
        /\ channels' = [channels EXCEPT ![c] =
                          [status |-> "closed", version |-> @.version + 1, amount |-> 0]]
    BY <1>1 DEF HandleClosed
  <2>2. \A d \in ChannelIds : channels[d].status # "none" <=> channels'[d].status # "none"
    BY <1>2, <2>1
  <2> QED
    BY <2>1, <2>2 DEF Dealt, Credited
<1>11. Made' = Made
  BY SameLogs DEF HandleClosed, Receives, chainVars
<1>12. Phase' = Phase /\ Members' = Members
  BY DEF HandleClosed, Phase, Members
<1> QED
  BY <1>1, <1>6, <1>9, <1>10, <1>11, <1>12 DEF Promise!Withdraw

\* A log that is handled changes nothing of the promise, unless it closes a channel.
LEMMA HandleKept ==
  ASSUME IInv, NEW n \in Networks, HandleEvent(n)
  PROVE  [Promise!Next]_Promise!vars
<1>0. PICK e : e = Head(events[n])
  OBVIOUS
<1>1. /\ e \in Events /\ e.chan \in ChannelIds
      /\ \/ HandleCreated(n, e) \/ HandleJoined(n, e) \/ HandleClosed(n, e)
         \/ HandleResized(n, e) \/ IgnoreEvent(n, e)
  BY <1>0, HeadKnown DEF HandleEvent, IInv, Wiring
<1>2. /\ channels \in [ChannelIds -> ChannelRow] /\ handler \in [Networks -> HandlerStates]
      /\ UNCHANGED Made
  BY <1>1, SameLogs DEF IInv, TypeOK, DBTypeOK, CustodyTypeOK, HandleCreated, HandleJoined,
              HandleClosed, HandleResized, IgnoreEvent, Receives, chainVars
<1>3. CASE HandleClosed(n, e)
  <2>1. Promise!Withdraw(Owner[e.chan]) /\ Owner[e.chan] \in Participants
    BY <1>1, <1>3, ClosedKept, IdsAssumption
  <2> QED
    BY <2>1 DEF Promise!Next
<1>4. CASE HandleCreated(n, e)
  <2>1. /\ channels' = [channels EXCEPT ![e.chan] =
                          [status |-> "joining", version |-> 0, amount |-> e.amount]]
        /\ handler' = [handler EXCEPT ![n] =
                          [step |-> "join", chan |-> e.chan, amount |-> e.amount]]
        /\ channels[e.chan].status = "none" /\ handler[n] = Idle /\ UNCHANGED <<apps, balance>>
    BY <1>4 DEF HandleCreated, CreateRefused, Receives
  <2>2. ~Credited(e.chan) /\ ~Credited(e.chan)'
    <3>1. handler'[n] = [step |-> "join", chan |-> e.chan, amount |-> e.amount]
      BY <1>2, <2>1
    <3>2. handler'[n] # Idle /\ handler'[n].chan = e.chan
      BY <3>1 DEF Idle
    <3> QED
      BY <2>1, <3>2 DEF Credited
  <2>3. ASSUME NEW c \in ChannelIds \ {e.chan} PROVE Credited(c)' <=> Credited(c)
    <3>1. channels'[c] = channels[c]
      BY <1>2, <2>1
    <3>2. \A m \in Networks \ {n} : handler'[m] = handler[m]
      BY <1>2, <2>1
    <3>3. handler'[n].chan = e.chan
      BY <1>2, <2>1
    <3> QED
      BY <2>1, <3>1, <3>2, <3>3 DEF Credited
  <2>4. Dealt' = Dealt
    BY <1>1, <2>2, <2>3 DEF Dealt
  <2> QED
    BY <1>2, <2>1, <2>4, PromiseFrame
<1>5. CASE HandleJoined(n, e) \/ HandleResized(n, e) \/ IgnoreEvent(n, e)
  <2>1. UNCHANGED <<handler, balance, apps>>
    BY <1>5 DEF HandleJoined, HandleResized, IgnoreEvent, dbVars
  <2>2. ASSUME NEW c \in ChannelIds
        PROVE  channels'[c].status # "none" <=> channels[c].status # "none"
    <3>1. CASE HandleJoined(n, e)
      BY <1>1, <1>2, <2>2, <3>1 DEF HandleJoined, ChannelRow
    <3>2. CASE HandleResized(n, e)
      BY <1>1, <1>2, <2>2, <3>2 DEF HandleResized, ChannelRow
    <3>3. CASE IgnoreEvent(n, e)
      BY <2>2, <3>3 DEF IgnoreEvent, dbVars
    <3> QED
      BY <1>5, <3>1, <3>2, <3>3
  <2>3. Dealt' = Dealt
    BY <2>1, <2>2 DEF Dealt, Credited
  <2> QED
    BY <1>2, <2>1, <2>3, PromiseFrame
<1> QED
  BY <1>1, <1>3, <1>4, <1>5

\* The join call's success leaves the handler on its channel.
LEMMA JoinKept ==
  ASSUME IInv, NEW n \in Networks, JoinSucceeds(n)
  PROVE  UNCHANGED Promise!vars
<1>1. /\ UNCHANGED <<balance, apps, channels, emitted>>
      /\ handler[n].step = "join" /\ handler' = [handler EXCEPT ![n].step = "record"]
  BY DEF JoinSucceeds, dbVars
<1>2. handler[n] # Idle /\ handler \in [Networks -> HandlerStates]
  BY <1>1, HandlerBusy DEF IInv, TypeOK, CustodyTypeOK
<1>3. /\ handler'[n].step = "record" /\ handler'[n].chan = handler[n].chan
      /\ \A m \in Networks \ {n} : handler'[m] = handler[m]
  BY <1>1, <1>2 DEF HandlerStates, Idle
<1>4. handler'[n] # Idle
  BY <1>3 DEF Idle
<1>5. \A c \in ChannelIds : Credited(c)' <=> Credited(c)
  BY <1>1, <1>2, <1>3, <1>4 DEF Credited
<1>6. Dealt' = Dealt
  BY <1>5 DEF Dealt
<1> QED
  BY <1>1, <1>6, PromiseFrame, SameLogs

\* Handlers that stop in the Created branch leave their deposits dealt with.
LEMMA LostKept ==
  ASSUME IInv, HandlerPays, UNCHANGED <<channels, emitted, balance, apps>>,
         \A n \in Networks : handler'[n] \in {handler[n], Idle}
  PROVE  [Promise!Next]_Promise!vars
<1>1. PICK lost : lost = Dealt' \ Dealt
  OBVIOUS
<1>2. Dealt \subseteq Dealt'
  BY DEF Dealt, Credited
<1>3. ASSUME NEW c \in lost PROVE \E d \in Made : d.chan = c
  <2>1. PICK n \in Networks : handler[n] # Idle /\ handler[n].chan = c
    BY <1>1, <1>3 DEF Dealt, Credited
  <2>2. [chan |-> c, amount |-> handler[n].amount] \in Made
    BY <2>1, MadeIs DEF HandlerPays
  <2> QED
    BY <2>2
<1>4. lost \in SUBSET {d.chan : d \in Made}
  BY <1>3
<1>5. lost \cap Dealt = {} /\ Dealt' = Dealt \cup lost
  BY <1>1, <1>2
<1>6. Made' = Made /\ Free' = Free /\ Phase' = Phase /\ Members' = Members /\ Staked' = Staked
  BY SameLogs, FreeIs DEF Phase, Members, Staked
<1>7. Promise!Forgo(lost)
  BY <1>5, <1>6 DEF Promise!Forgo
<1> QED
  BY <1>4, <1>7 DEF Promise!Next

-----------------------------------------------------------------------------
(* Applications keep the promise.                                          *)

\* Both modules take sums and cardinalities alike.
LEMMA PromiseSums ==
  ASSUME NEW f
  PROVE  Promise!SumFunction(f) = SumFunction(f)
<1>1. PICK S : S = DOMAIN f
  OBVIOUS
<1>2. Promise!SumFunctionOnSet(f, S) = (CHOOSE g : IsSum(g, f, S))[S]
  BY DEF Promise!SumFunctionOnSet, Promise!FoldFunctionOnSet, Promise!MapThenFoldSet, Pick, IsSum
<1>3. Promise!SumFunctionOnSet(f, S) = SumFunctionOnSet(f, S)
  BY <1>2, SumUnfolded
<1> QED
  BY <1>1, <1>3 DEF Promise!SumFunction, SumFunction

LEMMA PromiseCardinality ==
  ASSUME NEW S
  PROVE  Promise!Cardinality(S) = Cardinality(S)
BY DEF Promise!Cardinality, Cardinality

\* No application that is not open has anything staked, nor has anybody in one
\* he is not a member of; and all that is free is there.
LEMMA WhatIsStaked ==
  ASSUME IInv
  PROVE  /\ balance \in Postings /\ apps \in [AppIds -> AppRow]
         /\ ChannelIds \subseteq Accounts /\ AppIds \subseteq Accounts
         /\ AppIds \cap ChannelIds = {}
         /\ \A x \in Accounts, p \in Participants : balance[x][p] \in Nat
         /\ \A v \in AppIds, p \in Participants :
              balance[v][p] # 0 => apps[v].status = "open" /\ p \in apps[v].members
<1>1. /\ balance \in Postings /\ apps \in [AppIds -> AppRow]
      /\ ChannelIds \subseteq Accounts /\ AppIds \subseteq Accounts /\ AppIds \cap ChannelIds = {}
  BY IdsAssumption DEF IInv, TypeOK, DBTypeOK, Accounts
<1>2. \A x \in Accounts, p \in Participants : balance[x][p] \in Int /\ balance[x][p] >= 0
  BY <1>1 DEF IInv, Money, NoOverdraft, Postings
<1>3. \A v \in AppIds, p \in Participants :
        balance[v][p] # 0 => apps[v].status = "open" /\ p \in apps[v].members
  BY <1>1 DEF IInv, Money, FundsBelong
<1> QED
  BY <1>1, <1>2, <1>3

\* One application's stakes change.
LEMMA OneStaked ==
  ASSUME balance \in Postings, balance' \in Postings, NEW v \in AppIds,
         \A w \in AppIds \ {v} : \A p \in Participants : balance'[w][p] = balance[w][p]
  PROVE  Staked' = [Staked EXCEPT ![v] = balance'[v]]
<1>1. ASSUME NEW w \in AppIds \ {v} PROVE balance'[w] = balance[w]
  <2>1. w \in Accounts
    BY DEF Accounts
  <2>2. balance[w] \in [Participants -> Int] /\ balance'[w] \in [Participants -> Int]
    BY <2>1 DEF Postings
  <2> QED
    BY <2>2
<1> QED
  BY <1>1 DEF Staked

\* Opening an application takes what its members have free.
LEMMA OpenKept ==
  ASSUME IInv, NEW v \in AppIds, CreateSome(v), UNCHANGED <<emitted, handler>>
  PROVE  Promise!Open(v)
<1>1. PICK who \in SUBSET Participants :
        \E alloc \in [who -> Allocations], via \in ChannelChoices(who),
           signers \in SUBSET Participants, weight \in [Participants -> Weights],
           quorum \in Quorums : CreateApplication(v, alloc, via, signers, weight, quorum)
  BY DEF CreateSome
<1>2. PICK alloc \in [who -> Allocations], via \in ChannelChoices(who),
           signers \in SUBSET Participants, weight \in [Participants -> Weights],
           quorum \in Quorums : CreateApplication(v, alloc, via, signers, weight, quorum)
  BY <1>1
<1>3. /\ Cardinality(who) >= 2 /\ apps[v].status = "none" /\ UNCHANGED channels
      /\ apps' = [apps EXCEPT ![v] = [status |-> "open", members |-> who,
                                      weight |-> weight, quorum |-> StoredQuorum(quorum)]]
      /\ CanAllocate(alloc, via, signers) /\ Post(CreatePosting(v, alloc, via))
      /\ DOMAIN alloc = who
  BY <1>2 DEF CreateApplication
<1>4. /\ balance' \in Postings
      /\ \A x \in Accounts, p \in Participants :
           balance'[x][p] = IF p \notin who THEN balance[x][p]
                            ELSE IF x = v THEN balance[x][p] + alloc[p]
                            ELSE IF x = via[p] THEN balance[x][p] - alloc[p]
                            ELSE balance[x][p]
  BY <1>3, CreateEffect DEF IInv
<1>5. PICK m, k : m = balance /\ k = balance'
  OBVIOUS
<1>6. /\ m \in Postings /\ k \in Postings /\ apps \in [AppIds -> AppRow]
      /\ ChannelIds \subseteq Accounts /\ v \in Accounts /\ v \notin ChannelIds
      /\ \A x \in Accounts, p \in Participants : m[x][p] \in Nat
  BY <1>4, <1>5, WhatIsStaked
<1>7. \A p \in Participants : m[v][p] = 0
  BY <1>3, <1>5, <1>6, WhatIsStaked
<1>8. \A p \in who : /\ alloc[p] \in Nat /\ alloc[p] <= m[via[p]][p]
                     /\ via[p] \in ChannelIds
  <2> TAKE p \in who
  <2>1. alloc[p] \in Int /\ alloc[p] >= 0 /\ m[via[p]][p] >= alloc[p]
    BY <1>3, <1>5, AppInputsAssumption DEF CanAllocate
  <2>2. via[p] \in ChannelIds
    BY ChosenChannel
  <2>3. m[via[p]][p] \in Nat
    BY <1>6, <2>2
  <2> QED
    BY <2>1, <2>2, <2>3
<1>9. PICK put : put = k[v]
  OBVIOUS
<1>10. \A p \in Participants : put[p] = IF p \in who THEN alloc[p] ELSE 0
  <2> TAKE p \in Participants
  <2>1. k[v][p] = IF p \in who THEN m[v][p] + alloc[p] ELSE m[v][p]
    BY <1>4, <1>5, <1>6
  <2> QED
    BY <1>7, <1>8, <1>9, <2>1
<1>11. ASSUME NEW p \in Participants
       PROVE  /\ FreeOf(m, p) \in Nat /\ put[p] \in 0..FreeOf(m, p)
              /\ FreeOf(k, p) = FreeOf(m, p) - put[p]
  <2>1. FreeOf(m, p) \in Nat /\ \A c \in ChannelIds : m[c][p] <= FreeOf(m, p)
    BY <1>6, FreeHolds
  <2>2. CASE p \in who
    <3>1. PICK c \in ChannelIds : c = via[p]
      BY <1>8, <2>2
    <3>2. alloc[p] \in Nat /\ alloc[p] <= m[c][p] /\ m[c][p] \in Nat
      BY <1>6, <1>8, <2>2, <3>1
    <3>3. /\ k[c][p] = m[c][p] - alloc[p]
          /\ \A d \in ChannelIds \ {c} : k[d][p] = m[d][p]
      BY <1>4, <1>5, <1>6, <2>2, <3>1
    <3>4. FreeOf(k, p) = FreeOf(m, p) + k[c][p] - m[c][p]
      BY <1>6, <3>3, FreeChange
    <3>5. put[p] = alloc[p] /\ m[c][p] <= FreeOf(m, p)
      BY <1>10, <2>1, <2>2
    <3> QED
      BY <2>1, <3>2, <3>3, <3>4, <3>5
  <2>3. CASE p \notin who
    <3>1. \A d \in ChannelIds : k[d][p] = m[d][p]
      BY <1>4, <1>5, <1>6, <2>3
    <3>2. FreeOf(k, p) = FreeOf(m, p)
      BY <3>1, FreeSame
    <3>3. put[p] = 0
      BY <1>10, <2>3
    <3> QED
      BY <2>1, <3>2, <3>3
  <2> QED
    BY <2>2, <2>3
<1>12. /\ Free = [p \in Participants |-> FreeOf(m, p)]
       /\ Free' = [p \in Participants |-> FreeOf(k, p)]
  BY <1>5, FreeIs
<1>13. Free' = [p \in Participants |-> Free[p] - put[p]]
  BY <1>11, <1>12
<1>14. put \in Promise!Stakes(who)
  <2>1. put \in [Participants -> Int]
    BY <1>6, <1>9 DEF Postings
  <2>2. \A p \in Participants : put[p] \in 0..Free[p] /\ Free[p] \in Nat
    BY <1>11, <1>12
  <2>3. put \in [Participants -> UNION {0..Free[p] : p \in Participants}]
    BY <2>1, <2>2
  <2>4. \A p \in Participants : put[p] <= Free[p] /\ (p \notin who => put[p] = 0)
    BY <1>10, <2>2
  <2> QED
    BY <2>3, <2>4 DEF Promise!Stakes
<1>15. Staked' = [Staked EXCEPT ![v] = put]
  <2>1. \A w \in AppIds \ {v} : \A p \in Participants : balance'[w][p] = balance[w][p]
    BY <1>4, <1>8, WhatIsStaked
  <2> QED
    BY <1>4, <1>5, <1>9, <2>1, OneStaked, WhatIsStaked
<1>16. /\ Phase[v] = "none" /\ Phase' = [Phase EXCEPT ![v] = "open"]
       /\ Members' = [Members EXCEPT ![v] = who]
  BY <1>3, <1>6 DEF Phase, Members
<1>17. Made' = Made /\ Dealt' = Dealt
  BY <1>3, SameLogs, SameDealt
<1>18. Promise!Cardinality(who) >= 2
  BY <1>3, PromiseCardinality
<1> QED
  BY <1>13, <1>14, <1>15, <1>16, <1>17, <1>18 DEF Promise!Open

\* Closing an application shares out what was staked in it.
LEMMA CloseKept ==
  ASSUME IInv, NEW v \in AppIds, CloseSome(v), UNCHANGED <<emitted, handler>>
  PROVE  Promise!Close(v)
<1>1. PICK who : who = apps[v].members
  OBVIOUS
<1>2. who \in SUBSET Participants
  BY <1>1, WhatIsStaked DEF AppRow
<1>3. PICK alloc \in [who -> Allocations], via \in ChannelChoices(who),
           sigs \in [Participants -> 0..MaxSignatures] :
             CloseApplication(v, alloc, via, sigs)
  BY <1>1 DEF CloseSome
<1>4. /\ apps[v].status = "open" /\ UNCHANGED channels
      /\ apps' = [apps EXCEPT ![v].status = "closed"]
      /\ \A p \in who : alloc[p] >= 0
      /\ SumsMatch(v, alloc) /\ Post(ClosePosting(v, alloc, via))
  BY <1>1, <1>3 DEF CloseApplication
<1>5. /\ balance' \in Postings
      /\ \A x \in Accounts, p \in Participants :
           balance'[x][p] = IF p \notin who THEN balance[x][p]
                            ELSE IF x = v THEN 0
                            ELSE IF x = via[p] THEN balance[x][p] + alloc[p]
                            ELSE balance[x][p]
  BY <1>2, <1>4, CloseEffect DEF IInv
<1>6. PICK m, k : m = balance /\ k = balance'
  OBVIOUS
<1>7. /\ m \in Postings /\ k \in Postings /\ apps \in [AppIds -> AppRow]
      /\ ChannelIds \subseteq Accounts /\ v \in Accounts /\ v \notin ChannelIds
      /\ \A x \in Accounts, p \in Participants : m[x][p] \in Nat
      /\ \A p \in Participants \ who : m[v][p] = 0
  BY <1>1, <1>5, <1>6, WhatIsStaked
<1>8. \A p \in who : alloc[p] \in Nat /\ via[p] \in ChannelIds
  BY <1>4, AppInputsAssumption, ChosenChannel
<1>9. PICK get : get = [p \in Participants |-> IF p \in who THEN alloc[p] ELSE 0]
  OBVIOUS
<1>10. \A p \in Participants : get[p] \in Nat
  BY <1>8, <1>9
<1>11. ASSUME NEW p \in Participants
       PROVE  FreeOf(m, p) \in Nat /\ FreeOf(k, p) = FreeOf(m, p) + get[p]
  <2>1. FreeOf(m, p) \in Nat
    BY <1>7, FreeHolds
  <2>2. CASE p \in who
    <3>1. PICK c \in ChannelIds : c = via[p]
      BY <1>8, <2>2
    <3>2. /\ k[c][p] = m[c][p] + alloc[p] /\ m[c][p] \in Nat /\ alloc[p] \in Nat
          /\ \A d \in ChannelIds \ {c} : k[d][p] = m[d][p]
      BY <1>5, <1>6, <1>7, <1>8, <2>2, <3>1
    <3>3. FreeOf(k, p) = FreeOf(m, p) + k[c][p] - m[c][p]
      BY <1>7, <3>2, FreeChange
    <3>4. get[p] = alloc[p]
      BY <1>9, <2>2
    <3> QED
      BY <2>1, <3>2, <3>3, <3>4
  <2>3. CASE p \notin who
    <3>1. \A d \in ChannelIds : k[d][p] = m[d][p]
      BY <1>5, <1>6, <1>7, <2>3
    <3>2. FreeOf(k, p) = FreeOf(m, p)
      BY <3>1, FreeSame
    <3>3. get[p] = 0
      BY <1>9, <2>3
    <3> QED
      BY <2>1, <3>2, <3>3
  <2> QED
    BY <2>2, <2>3
<1>12. Free' = [p \in Participants |-> Free[p] + get[p]]
  <2>1. /\ Free = [p \in Participants |-> FreeOf(m, p)]
        /\ Free' = [p \in Participants |-> FreeOf(k, p)]
    BY <1>6, FreeIs
  <2> QED
    BY <1>11, <2>1
<1>13. SumFunctionOnSet(get, Participants) = SumFunctionOnSet(m[v], Participants)
  <2>1. IsFiniteSet(who) /\ IsFiniteSet(Participants)
    BY <1>2, FiniteAssumption, FS_Subset
  <2>2. PICK row : row = m[v]
    OBVIOUS
  <2>3. /\ \A p \in Participants : row[p] \in Int
        /\ \A p \in Participants \ who : row[p] = 0
    BY <1>7, <2>2
  <2>4. \A p \in who : get[p] = alloc[p]
    BY <1>2, <1>9
  <2>5. /\ \A p \in Participants : get[p] \in Int
        /\ \A p \in Participants \ who : get[p] = 0
    BY <1>9, <1>10
  <2>6. SumFunctionOnSet(get, Participants) = SumFunctionOnSet(get, who)
    BY <1>2, <2>1, <2>5, SumOutside
  <2>7. SumFunctionOnSet(get, who) = SumFunctionOnSet(alloc, who)
    BY <2>1, <2>4, SumSame
  <2>8. SumFunctionOnSet(alloc, who) = SumFunctionOnSet(row, who)
    BY <1>4, <1>6, <2>2 DEF SumsMatch, SumFunction
  <2>9. SumFunctionOnSet(row, Participants) = SumFunctionOnSet(row, who)
    BY <1>2, <2>1, <2>3, SumOutside
  <2> QED
    BY <2>2, <2>6, <2>7, <2>8, <2>9
<1>14. PICK pot : pot = Promise!Pot(v)
  OBVIOUS
<1>15. pot = SumFunctionOnSet(m[v], Participants) /\ SumFunction(get) = pot
  <2>1. DOMAIN m[v] = Participants /\ DOMAIN get = Participants
    BY <1>7, <1>9 DEF Postings
  <2>2. Staked[v] = m[v]
    BY <1>6 DEF Staked
  <2>3. pot = SumFunction(m[v])
    BY <1>14, <2>2, PromiseSums DEF Promise!Pot
  <2>4. pot = SumFunctionOnSet(m[v], Participants)
    BY <2>1, <2>3 DEF SumFunction
  <2> QED
    BY <1>13, <2>1, <2>4 DEF SumFunction
<1>16. get \in Promise!Shares(v)
  <2>1. Members[v] = who
    BY <1>1 DEF Members
  <2>2. \A p \in Participants : get[p] <= SumFunctionOnSet(get, Participants)
    BY <1>10, FiniteAssumption, TermOfSum
  <2>3. pot \in Nat /\ SumFunctionOnSet(get, Participants) = pot
    BY <1>10, <1>13, <1>15, FiniteAssumption, TermOfSum
  <2>4. \A p \in Participants : get[p] \in 0..pot
    BY <1>10, <2>2, <2>3
  <2>5. get \in [Participants -> 0..pot]
    BY <1>9, <2>4
  <2>6. \A p \in Participants \ who : get[p] = 0
    BY <1>9
  <2>7. Promise!SumFunction(get) = pot
    BY <1>15, PromiseSums
  <2> QED
    BY <1>14, <2>1, <2>5, <2>6, <2>7 DEF Promise!Shares
<1>17. Staked' = [Staked EXCEPT ![v] = Promise!Nothing]
  <2>1. \A w \in AppIds \ {v} : \A p \in Participants : balance'[w][p] = balance[w][p]
    BY <1>5, <1>8, WhatIsStaked
  <2>2. Staked' = [Staked EXCEPT ![v] = balance'[v]]
    BY <1>5, <2>1, OneStaked, WhatIsStaked
  <2>3. \A p \in Participants : k[v][p] = 0
    BY <1>5, <1>6, <1>7
  <2>4. k[v] \in [Participants -> Int]
    BY <1>7 DEF Postings
  <2>5. k[v] = [p \in Participants |-> 0]
    BY <2>3, <2>4
  <2> QED
    BY <1>6, <2>2, <2>5 DEF Promise!Nothing
<1>18. /\ Phase[v] = "open" /\ Phase' = [Phase EXCEPT ![v] = "closed"] /\ Members' = Members
  BY <1>4, <1>7 DEF Phase, Members, AppRow
<1>19. Made' = Made /\ Dealt' = Dealt
  BY <1>4, SameLogs, SameDealt
<1> QED
  BY <1>12, <1>16, <1>17, <1>18, <1>19 DEF Promise!Close

-----------------------------------------------------------------------------
(* The refinement.                                                         *)

\* What BrokerPromise starts with.
LEMMA PromiseStarts == Init => Promise!Init /\ FirstDeposit
<1> SUFFICES ASSUME Init PROVE Promise!Init /\ FirstDeposit
  OBVIOUS
<1>1. /\ emitted = [n \in Networks |-> {}]
      /\ channels = [c \in ChannelIds |-> [status |-> "none", version |-> 0, amount |-> 0]]
      /\ balance = [x \in Accounts |-> [p \in Participants |-> 0]]
      /\ apps = [v \in AppIds |-> [status |-> "none", members |-> {},
                                   weight |-> [p \in Participants |-> 0], quorum |-> 0]]
  BY DEF Init, DBInit, CustodyInit
<1>2. Made = {} /\ FirstDeposit
  BY <1>1 DEF Made, FirstDeposit
<1>3. Dealt = {}
  BY <1>1 DEF Dealt, Credited
<1>4. Phase = [v \in AppIds |-> "none"] /\ Members = [v \in AppIds |-> {}]
  BY <1>1 DEF Phase, Members
<1>5. Staked = [v \in AppIds |-> Promise!Nothing]
  BY <1>1 DEF Staked, Promise!Nothing, Accounts
<1>6. Free = Promise!Nothing
  <2>1. ASSUME NEW p \in Participants PROVE FreeOf(balance, p) = 0
    <3> DEFINE f == [c \in ChannelIds |-> balance[c][p]]
    <3>1. \A c \in ChannelIds : f[c] = 0
      BY <1>1 DEF Accounts
    <3> HIDE DEF f
    <3>2. SumFunctionOnSet(f, ChannelIds) = 0
      BY <3>1, FiniteAssumption, SumZero
    <3> QED
      BY <3>2 DEF f, FreeOf
  <2>2. Free = [p \in Participants |-> FreeOf(balance, p)]
    BY FreeIs
  <2> QED
    BY <2>1, <2>2 DEF Promise!Nothing
<1> QED
  BY <1>2, <1>3, <1>4, <1>5, <1>6 DEF Promise!Init

\* Every step of the broker is one of BrokerPromise or a stutter.
LEMMA PromiseStep ==
  ASSUME IInv, HandlerPays, FirstDeposit, [Next]_vars
  PROVE  [Promise!Next]_Promise!vars
<1>1. ASSUME UNCHANGED <<emitted, channels, handler, balance, apps>>
      PROVE  [Promise!Next]_Promise!vars
  BY <1>1, PromiseFrame, SameLogs, SameDealt
<1>2. CASE UNCHANGED vars
  BY <1>1, <1>2 DEF vars, dbVars, custodyVars, chainVars, listenerVars
<1>3. CASE ChainStep
  BY <1>3, ChainKept DEF IInv
<1>4. ASSUME NEW n \in Networks, HandleEvent(n) PROVE [Promise!Next]_Promise!vars
  BY <1>4, HandleKept
<1>5. ASSUME NEW n \in Networks, JoinSucceeds(n) PROVE [Promise!Next]_Promise!vars
  BY <1>5, JoinKept
<1>6. ASSUME NEW n \in Networks, RecordCredit(n) PROVE [Promise!Next]_Promise!vars
  BY <1>6, CreditKept DEF Promise!Next
<1>7. ASSUME NEW v \in AppIds, AppStep(v) PROVE [Promise!Next]_Promise!vars
  <2>1. UNCHANGED <<emitted, handler>>
    BY <1>7 DEF AppStep, custodyVars, chainVars, listenerVars
  <2>2. Promise!Open(v) \/ Promise!Close(v)
    BY <1>7, <2>1, OpenKept, CloseKept DEF AppStep
  <2> QED
    BY <2>2 DEF Promise!Next
<1>8. ASSUME NEW c \in ChannelIds, SettleStep(c) PROVE [Promise!Next]_Promise!vars
  BY <1>1, <1>8 DEF SettleStep, ReadSome, ReadChannel, SignResize, SignClose,
                    RefuseSettlement, Reply, dbVars, custodyVars, chainVars, listenerVars
<1>9. CASE FaultStep
  <2>1. /\ UNCHANGED <<balance, channels, apps, emitted>>
        /\ \A n \in Networks : handler'[n] \in {handler[n], Idle}
    BY <1>9 DEF FaultStep, Crash, JoinFails, Subscribe, SubscriptionFails, LogRepeats, dbVars,
                chainVars, IInv, TypeOK, CustodyTypeOK
  <2> QED
    BY <2>1, LostKept
<1> QED
  BY <1>2, <1>3, <1>4, <1>5, <1>6, <1>7, <1>8, <1>9
     DEF Next, ReliableNext, ListenerStep, CreatedStep

\* The broker implements BrokerPromise: whatever the interleaving of listeners,
\* handlers and contracts, and with every crash, loss and repetition, a deposit
\* is credited at most once, in full and to its owner, and what goes into an
\* application comes out of it, once and to its members (custody.go
\* handleBlockChainEvent, handlers.go HandleCreateApplication and
\* HandleCloseApplication).
THEOREM BrokerKeepsPromise == Spec => PromiseKept
<1>1. Init => IInv /\ Backing /\ FirstDeposit /\ Promise!Init
  BY InitIInv, InitBacked, PromiseStarts
<1>2. IInv /\ Backing /\ FirstDeposit /\ [Next]_vars => (IInv /\ Backing /\ FirstDeposit)'
  <2> SUFFICES ASSUME IInv, Backing, FirstDeposit, [Next]_vars
               PROVE  IInv' /\ Backing' /\ FirstDeposit'
    OBVIOUS
  <2>1. IInv'
    BY NextIInv
  <2>2. Backing'
    BY <2>1, NextBacked DEF IInv
  <2>3. FirstDeposit'
    BY NextFirst DEF IInv
  <2> QED
    BY <2>1, <2>2, <2>3
<1>3. IInv /\ Backing /\ FirstDeposit /\ [Next]_vars => [Promise!Next]_Promise!vars
  BY PromiseStep DEF Backing
<1> QED
  BY <1>1, <1>2, <1>3, PTL DEF Spec, PromiseKept, Promise!Spec
=============================================================================

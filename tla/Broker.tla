------------------------------- MODULE Broker -------------------------------
(***************************************************************************)
(* The broker: the listeners of all networks, the websocket handlers that  *)
(* open and close virtual applications, and the ones that sign settlement  *)
(* states, over one database, with the custody contract as environment.    *)
(***************************************************************************)
EXTENDS VApps, Listener, Settlement

vars == <<dbVars, custodyVars, settling>>

TypeOK == DBTypeOK /\ CustodyTypeOK /\ SettlementTypeOK

Init == DBInit /\ CustodyInit /\ SettlementInit

-----------------------------------------------------------------------------
(* Environment: the custody contract and the clients that call it.         *)

ChainStep ==
  /\ \/ \E c \in ChannelIds : (\E amount \in Deposits : ChainCreate(c, amount)) \/ ChainJoin(c)
     \/ \E s \in signed : ChainResize(s) \/ ChainClose(s)
  /\ UNCHANGED settling

(* The listeners.                                                          *)

ListenerStep == (\E n \in Networks : HandleEvent(n) \/ CreatedStep(n)) /\ UNCHANGED settling

(* The websocket handlers.                                                 *)

AppStep(v) == (CreateSome(v) \/ CloseSome(v)) /\ UNCHANGED <<custodyVars, settling>>

SettleStep(c) == ReadSome(c) \/ SignResize(c) \/ SignClose(c) \/ RefuseSettlement(c)

(* Faults.                                                                 *)

\* The process dies and starts again: what is not in the database is gone.
\* It also stands for the Fatal exit of a listener that gave up resubscribing.
Crash ==
  /\ events' = [n \in Networks |-> <<>>]
  /\ subscribed' = [n \in Networks |-> FALSE]
  /\ handler' = [n \in Networks |-> Idle]
  /\ settling' = [c \in ChannelIds |-> NoRequest]
  /\ UNCHANGED <<dbVars, chainVars, signed>>

FaultStep ==
  \/ Crash
  \/ /\ \E n \in Networks :
          JoinFails(n) \/ Subscribe(n) \/ SubscriptionFails(n) \/ LogRepeats(n)
     /\ UNCHANGED settling

-----------------------------------------------------------------------------

ReliableNext ==
  \/ ChainStep
  \/ ListenerStep
  \/ \E v \in AppIds : AppStep(v)
  \/ \E c \in ChannelIds : SettleStep(c)

Next == ReliableNext \/ FaultStep

Spec == Init /\ [][Next]_vars

\* Every listener is subscribed from the start and nothing fails.
ReliableInit == Init /\ \A n \in Networks : subscribed[n]

Fairness ==
  /\ \A n \in Networks : WF_vars((HandleEvent(n) \/ CreatedStep(n)) /\ UNCHANGED settling)
  /\ \A c \in ChannelIds : WF_vars(ChainJoin(c) /\ UNCHANGED settling)

ReliableSpec == ReliableInit /\ [][ReliableNext]_vars

FairSpec == ReliableSpec /\ Fairness

\* Clients that settle one thing at a time: settlement is asked for open
\* channels only, and an application is created or closed only while no member
\* has a settlement under way.
Settled(c) ==
  /\ settling[c] = NoRequest
  /\ chain[c].status = "active"
  /\ \A s \in signed : s.chan = c => s.version <= chain[c].version

DisciplinedAppStep(v) ==
  /\ AppStep(v)
  /\ \A p \in apps'[v].members : \A c \in OpenChannels(p) : Settled(c)

DisciplinedNext ==
  \/ ChainStep
  \/ ListenerStep
  \/ \E v \in AppIds : DisciplinedAppStep(v)
  \/ \E c \in ChannelIds :
       \/ channels[c].status = "open" /\ ReadSome(c)
       \/ SignResize(c) \/ SignClose(c) \/ RefuseSettlement(c)

DisciplinedSpec == ReliableInit /\ [][DisciplinedNext]_vars

-----------------------------------------------------------------------------
(* Safety.                                                                 *)

\* No account is ever overdrawn: every debit the handlers and the listeners
\* record (Transfer, close_app_session, Closed) is covered by what is there.
NoOverdraft == \A x \in Accounts, p \in Participants : balance[x][p] >= 0

\* Money is only where its beneficiary belongs: on a channel of its owner, or in
\* an application that is open and has him as a member.  Closing an application
\* leaves nothing behind, and no handler credits another's channel.
FundsBelong ==
  \A x \in Accounts, p \in Participants :
    balance[x][p] # 0 =>
      IF x \in AppIds THEN apps[x].status = "open" /\ p \in apps[x].members
      ELSE p = Owner[x]

\* Once the row of a channel is closed its account is empty, whatever credits
\* and application closings were under way when the Closed event came.
ClosedChannelEmpty ==
  \A c \in ChannelIds : channels[c].status = "closed" => \A p \in Participants : balance[c][p] = 0

\* The deposits into channels that have a row.
KnownDeposits ==
  {e \in UNION {emitted[n] : n \in Networks} :
     e.type = "Created" /\ channels[e.chan].status # "none"}

\* What the journal owes is covered by the deposits of the channels it knows,
\* each counted once, however often its Created event is delivered.
LedgerBacked == LedgerTotal <= SumFunction([e \in KnownDeposits |-> e.amount])

Pending(c, type) ==
  \E n \in Networks : \E i \in 1..Len(events[n]) :
    events[n][i].chan = c /\ events[n][i].type \in type

\* When no event about an open channel is waiting, its row and the contract
\* agree: an event applied twice, skipped or out of order shows here.
MirrorsChain ==
  \A c \in ChannelIds :
    channels[c].status = "open" /\ ~Pending(c, {"Resized", "Closed"}) =>
      /\ chain[c].status = "active"
      /\ channels[c].amount = chain[c].amount
      /\ channels[c].version = chain[c].version

Credited(c) ==
  channels[c].status # "none" /\ \A n \in Networks : handler[n] # Idle => handler[n].chan # c

\* What the journal owes, less what a close already paid out on chain, is what
\* the channels hold plus what the broker took out of them.
Solvent ==
  LedgerTotal
    - SumFunction([c \in {d \in ChannelIds : Pending(d, {"Closed"})} |-> balance[c][Owner[c]]])
  = SumFunction([c \in {d \in ChannelIds : Credited(d)} |-> chain[c].amount])
      + available[Broker] - Liquidity

\* While the Closed event of a channel is on its way, the journal still owes
\* its owner exactly what the contract has paid him.
CloseSettlesBalance ==
  \A n \in Networks : \A i \in 1..Len(events[n]) :
    LET e == events[n][i] IN e.type = "Closed" => balance[e.chan][Owner[e.chan]] = e.user

\* Where no application is in use, an open channel has its whole amount
\* credited to its owner.
OpenIsCredited ==
  \A c \in ChannelIds : channels[c].status = "open" => balance[c][Owner[c]] = channels[c].amount

-----------------------------------------------------------------------------
(* Action properties.                                                      *)

\* Opening and closing applications moves money but neither makes nor loses
\* any: the total changes only with a step of a listener.
AppsConserve == [][UNCHANGED <<events, handler>> => LedgerTotal' = LedgerTotal]_vars

\* The contract would take this close.
Stands(s) ==
  /\ s.kind = "close"
  /\ chain[s.chan].status = "active"
  /\ s.version > chain[s.chan].version

\* A signed close may wait for any time.  While the contract would take it and
\* its deposit is booked, nothing the listeners receive - repeated, late or
\* lost - parts what it pays its owner from what the journal owes him: only an
\* application of his does, one that opens by lowering the debt and one that
\* closes by raising it.
StaleByOwner ==
  [][\A s \in signed :
       LET c == s.chan
           p == Owner[s.chan]
       IN  Stands(s) /\ Credited(c) /\ s.user = balance[c][p] =>
             \/ balance'[c][p] = s.user
             \/ \E v \in AppIds :
                  /\ p \in apps'[v].members /\ c \in OpenChannels(p)
                  /\ \/ /\ apps[v].status = "none" /\ apps'[v].status = "open"
                        /\ balance'[c][p] < s.user
                     \/ /\ apps[v].status = "open" /\ apps'[v].status = "closed"
                        /\ balance'[c][p] > s.user]_vars

-----------------------------------------------------------------------------
(* What the broker promises.                                               *)

\* What a participant has on channels, whoever opened them.
Free == [p \in Participants |-> SumFunction([c \in ChannelIds |-> balance[c][p]])]

\* The deposits the contracts have logged.
Made ==
  {[chan |-> e.chan, amount |-> e.amount] :
     e \in {l \in UNION {emitted[n] : n \in Networks} : l.type = "Created"}}

\* The channels whose deposit no handler will book any more.
Dealt == {c \in ChannelIds : Credited(c)}

Phase == [v \in AppIds |-> apps[v].status]
Members == [v \in AppIds |-> apps[v].members]
Staked == [v \in AppIds |-> balance[v]]

Promise == INSTANCE BrokerPromise WITH
  deposits <- Made, booked <- Dealt, free <- Free,
  phase <- Phase, members <- Members, stake <- Staked

\* Listeners, handlers, crashes and repeated or lost logs together do no more
\* than BrokerPromise allows: a deposit is credited at most once, in full and to
\* its owner; an application takes what its members have free, and pays all of
\* it out to them, once.
PromiseKept == Promise!Spec

-----------------------------------------------------------------------------
(* Liveness, under FairSpec.                                               *)

\* The Created event of a channel waits for the listener of its network.
CreatedWaits(c, amount) ==
  \E i \in 1..Len(events[NetworkOf[c]]) :
    LET e == events[NetworkOf[c]][i]
    IN e.type = "Created" /\ e.chan = c /\ e.amount = amount

\* A deposit whose event is on its way comes to a moment at which its row is
\* open and its owner's balance is the amount of the event; or it was refused,
\* without a row, while its owner has another open channel on the network.
DepositOpens ==
  \A c \in ChannelIds, amount \in Deposits :
    CreatedWaits(c, amount) ~>
      \/ channels[c].status = "open" /\ balance[c][Owner[c]] = amount
      \/ /\ channels[c].status = "none" /\ ~CreatedWaits(c, amount)
         /\ ExistingChannels(Owner[c], NetworkOf[c]) # {}

\* A close made on chain reaches the database: the row is closed and the
\* account of the channel empty.
CloseReachesLedger ==
  \A c \in ChannelIds :
    chain[c].status = "final" ~> channels[c].status = "closed" /\ balance[c][Owner[c]] = 0
=============================================================================

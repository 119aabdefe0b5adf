------------------------------ MODULE Custody ------------------------------
(***************************************************************************)
(* The custody contracts as the broker and its clients see them, and what  *)
(* stands between a contract and the listener of its network: the logs a   *)
(* contract has emitted, the subscription, the channel of logs and the     *)
(* place of the listener goroutine in its handler.                         *)
(*                                                                         *)
(* The contract is external: a channel is created by its owner with a      *)
(* deposit, becomes active when the broker's join is mined, and is then    *)
(* resized or closed by a state both parties signed, whose version must be *)
(* above the last one.  Both parties' funds outside channels are the net   *)
(* amounts in `available`.                                                 *)
(***************************************************************************)
EXTENDS BrokerDB, Sequences

CONSTANTS
  Deposits,       \* amounts a channel may be created with
  Liquidity,      \* the broker's own funds in the custody contract
  Broker,         \* the broker's address
  MaxQueue,       \* bound: undelivered events for which a repeat may come
  MaxRepeat       \* bound: row version up to which the channel's logs repeat

ASSUME CustodyAssumption ==
  /\ Deposits \subseteq Nat
  /\ Liquidity \in Nat
  /\ Broker \notin Participants
  /\ MaxQueue \in Nat
  /\ MaxRepeat \in Nat

VARIABLES
  chain,          \* the contract's record of each channel
  available,      \* net funds of each party outside channels
  signed,         \* states the broker has signed, which clients may submit
  emitted,        \* events each network has emitted
  events,         \* logs in the listener's channel, per network
  subscribed,     \* whether the listener of a network has a subscription
  handler         \* where the listener stands in the Created branch

chainVars == <<chain, available, emitted>>
listenerVars == <<events, subscribed, handler>>
custodyVars == <<chainVars, listenerVars, signed>>

Parties == Participants \cup {Broker}

Idle == [step |-> "idle"]

HandlerStates ==
  {Idle} \cup [step : {"join", "record"}, chan : ChannelIds, amount : Nat]

Events ==
  [type : {"Created"}, chan : ChannelIds, amount : Nat]
    \cup [type : {"Joined"}, chan : ChannelIds]
    \cup [type : {"Closed"}, chan : ChannelIds, user : Int]
    \cup [type : {"Resized"}, chan : ChannelIds, delta : Int]

\* A state with the broker's signature: what user and broker hold after it,
\* and what each of them adds to the channel.
SignedStates ==
  [kind : {"resize", "close"}, chan : ChannelIds, version : Nat,
   user : Int, broker : Int, addUser : Int, addBroker : Int]

ContractRecord ==
  [status : {"void", "initial", "active", "final"}, version : Nat,
   amount : Int, joining : BOOLEAN]

CustodyTypeOK ==
  /\ chain \in [ChannelIds -> ContractRecord]
  /\ available \in [Parties -> Int]
  /\ signed \subseteq SignedStates
  /\ emitted \in [Networks -> SUBSET Events]
  /\ events \in [Networks -> Seq(Events)]
  /\ subscribed \in [Networks -> BOOLEAN]
  /\ handler \in [Networks -> HandlerStates]

CustodyInit ==
  /\ chain = [c \in ChannelIds |-> [status |-> "void", version |-> 0,
                                    amount |-> 0, joining |-> FALSE]]
  /\ available = [p \in Parties |-> IF p = Broker THEN Liquidity ELSE 0]
  /\ signed = {}
  /\ emitted = [n \in Networks |-> {}]
  /\ events = [n \in Networks |-> <<>>]
  /\ subscribed \in [Networks -> BOOLEAN]
  /\ handler = [n \in Networks |-> Idle]

-----------------------------------------------------------------------------
(* The contract (external).                                                *)

\* The contract emits a log: a listener that has no subscription never sees it.
Emit(n, e) ==
  /\ emitted' = [emitted EXCEPT ![n] = @ \cup {e}]
  /\ events' = IF subscribed[n] THEN [events EXCEPT ![n] = Append(@, e)] ELSE events
  /\ UNCHANGED <<subscribed, handler>>

ChainCreate(c, amount) ==
  /\ chain[c].status = "void"
  /\ chain' = [chain EXCEPT ![c].status = "initial", ![c].amount = amount]
  /\ available' = [available EXCEPT ![Owner[c]] = @ - amount]
  /\ Emit(NetworkOf[c], [type |-> "Created", chan |-> c, amount |-> amount])
  /\ UNCHANGED <<signed, dbVars>>

\* The broker's join transaction is mined.
ChainJoin(c) ==
  /\ chain[c].status = "initial"
  /\ chain[c].joining
  /\ chain' = [chain EXCEPT ![c].status = "active", ![c].joining = FALSE]
  /\ Emit(NetworkOf[c], [type |-> "Joined", chan |-> c])
  /\ UNCHANGED <<available, signed, dbVars>>

\* What the contract requires of a state the client submits.
Acceptable(s) ==
  /\ chain[s.chan].status = "active"
  /\ s.version > chain[s.chan].version
  /\ s.user + s.broker = chain[s.chan].amount + s.addUser + s.addBroker
  /\ s.addBroker <= available[Broker]

Settle(s, status) ==
  chain' = [chain EXCEPT ![s.chan].status = status, ![s.chan].version = s.version,
                         ![s.chan].amount = IF status = "final" THEN 0 ELSE s.user + s.broker]

ChainResize(s) ==
  /\ s.kind = "resize"
  /\ Acceptable(s)
  /\ Settle(s, "active")
  /\ available' = [available EXCEPT ![Owner[s.chan]] = @ - s.addUser, ![Broker] = @ - s.addBroker]
  /\ Emit(NetworkOf[s.chan],
          [type |-> "Resized", chan |-> s.chan, delta |-> s.addUser + s.addBroker])
  /\ UNCHANGED <<signed, dbVars>>

ChainClose(s) ==
  /\ s.kind = "close"
  /\ Acceptable(s)
  /\ Settle(s, "final")
  /\ available' = [available EXCEPT ![Owner[s.chan]] = @ + s.user, ![Broker] = @ + s.broker]
  /\ Emit(NetworkOf[s.chan], [type |-> "Closed", chan |-> s.chan, user |-> s.user])
  /\ UNCHANGED <<signed, dbVars>>
=============================================================================

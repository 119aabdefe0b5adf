------------------------------ MODULE BrokerDB ------------------------------
(***************************************************************************)
(* The broker's database: the channels table (channel.go), the v_app       *)
(* table (vapp.go) and the double-entry journal (ledger.go).               *)
(*                                                                         *)
(* The journal is kept as the balance of every account and beneficiary:    *)
(* the code never reads an entry except through the sums of Balance() and  *)
(* GetAccountBalances().  A row that does not exist has status "none".     *)
(* The columns of a channel that never change after CreateChannel          *)
(* (participant_a, nonce, network_id) are constants, indexed by channel.   *)
(***************************************************************************)
EXTENDS Integers, FiniteSets, FiniteSetsExt

CONSTANTS
  Participants,   \* wallet addresses that talk to the broker
  ChannelIds,     \* ledger accounts of the on-chain channels
  AppIds,         \* ledger accounts of the virtual applications
  Networks,       \* chain ids, one custody contract and one listener each
  Owner,          \* participant_a of a channel
  NetworkOf,      \* network_id of a channel
  Nonce           \* nonce of a channel

ASSUME IdsAssumption ==
  /\ ChannelIds \cap AppIds = {}
  /\ Owner \in [ChannelIds -> Participants]
  /\ NetworkOf \in [ChannelIds -> Networks]
  /\ Nonce \in [ChannelIds -> Nat]

ASSUME FiniteAssumption ==
  /\ IsFiniteSet(Participants) /\ IsFiniteSet(Networks)
  /\ IsFiniteSet(ChannelIds) /\ IsFiniteSet(AppIds)

VARIABLES
  channels,       \* ChannelIds -> row of the channels table
  apps,           \* AppIds -> row of the v_app table
  balance         \* account -> beneficiary -> credit minus debit

dbVars == <<channels, apps, balance>>

Accounts == ChannelIds \cup AppIds

ChannelRow ==
  [status : {"none", "joining", "open", "closed"}, version : Nat, amount : Int]

AppRow ==
  [status : {"none", "open", "closed"}, members : SUBSET Participants,
   weight : [Participants -> Int], quorum : Int]

Postings == [Accounts -> [Participants -> Int]]

DBTypeOK ==
  /\ channels \in [ChannelIds -> ChannelRow]
  /\ apps \in [AppIds -> AppRow]
  /\ balance \in Postings

DBInit ==
  /\ channels = [c \in ChannelIds |-> [status |-> "none", version |-> 0, amount |-> 0]]
  /\ apps = [v \in AppIds |-> [status |-> "none", members |-> {},
                               weight |-> [p \in Participants |-> 0], quorum |-> 0]]
  /\ balance = [x \in Accounts |-> [p \in Participants |-> 0]]

-----------------------------------------------------------------------------
(* Queries of channel.go.                                                  *)

OpenChannels(p) == {c \in ChannelIds : Owner[c] = p /\ channels[c].status = "open"}

\* getChannelForParticipant: the open channel of highest nonce, whatever its
\* network or token; two channels of one nonce are equally good.
ParticipantChannels(p) ==
  {c \in OpenChannels(p) : \A d \in OpenChannels(p) : Nonce[d] <= Nonce[c]}

\* CheckExistingChannels: only a channel already "open" counts.
ExistingChannels(p, n) == {c \in OpenChannels(p) : NetworkOf[c] = n}

-----------------------------------------------------------------------------
(* Writes to the journal.                                                  *)

\* A journal transaction: every beneficiary of every account moves by the
\* amount posted to it.
Post(posting) ==
  balance' = [x \in Accounts |-> [p \in Participants |-> balance[x][p] + posting[x][p]]]

\* Record(amount) on one beneficiary account: a credit, a debit or a zero entry.
Record(account, p, amount) ==
  Post([x \in Accounts |-> [q \in Participants |->
          IF x = account /\ q = p THEN amount ELSE 0]])

\* Everything the journal owes to participants, over all accounts.
LedgerTotal ==
  SumFunction([x \in Accounts |-> SumFunction(balance[x])])
=============================================================================

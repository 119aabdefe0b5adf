# Verification of the ClearNet broker and its browser client

The repository holds a small payment network: a broker (`src/clearnet`, Go)
that keeps a ledger over on-chain state channels, a browser client
(`src/frontend`, TypeScript), and the contracts of a token drop (`src/yuzu`,
Solidity). This directory holds TLA+ models of its protocol logic, the TLC
configurations that check them on small instances, and machine-checked proofs
of the main safety properties.

1. [The system](#the-system)
2. [The models](#the-models)
3. [The runs](#the-runs)
4. [The proofs](#the-proofs)
5. [Where the code departs from its documents](#where-the-code-departs-from-its-documents)
6. [What is not modelled](#what-is-not-modelled)
7. [The plan](#the-plan)

To check a run: `tlc -config hub.cfg MCHub.tla`. To check the proofs:
`tlapm BrokerProofs.tla`, and likewise `HubProofs`, `WsClientProofs`, `PaymentProofs`,
`NetworkProofs`, `ViewsProofs`, `AmountsProofs` and `DataTheorems`.

## The system

A user opens a channel with the broker in the custody contract of some network
and deposits into it. The broker watches the contract, joins the channel and
credits the deposit in its ledger. Users then move funds between their channel
accounts and the accounts of *virtual applications* by websocket requests that
they sign; nothing happens on chain. At the end the broker signs a state that
the user submits to the contract, to resize or to close the channel.

| Component | State | Operations |
|---|---|---|
| Ledger journal (`ledger.go`) | entries: account, beneficiary, credit, debit | `Record`, `Transfer`, `Balance` |
| Channel table (`channel.go`) | one row for each on-chain channel: status, version, amount | insert, update, three queries |
| Virtual applications (`vapp.go`, `handlers.go`) | one row for each application: members, weights, quorum, status | `create_app_session`, `close_app_session` |
| Custody event handler (`custody.go`) | none of its own; writes rows and journal, calls `join` | Created, Joined, Closed, Resized |
| Event listener (`eth_listener.go`) | subscription, channel of logs, retry count | subscribe, receive, fail |
| Channel settlement (`handlers.go`) | none; signs states | `resize_channel`, `close_channel` |
| Authentication (`auth.go`) | challenges, sessions, two locks | challenge, verify, validate, refresh, clean up |
| WebSocket handler (`ws.go`) | table of connections; one goroutine each | accept, authenticate, dispatch, forward, end |
| Client connection (`frontend/src/websocket`) | socket, pending requests, timer, attempts | connect, authenticate, request, reconnect, close |
| Payment sheet (`mini-apps/yuzux`, `hooks/channel`) | step, payee, sum, stored session id | scan, type, pay, leave |
| Channels in the client (`Deposit`, `AccountInterface`, `useChannel*`) | stored channel, flags, memos | deposit, create, close, resize, challenge, withdraw, refresh |
| Wallet, network, assets (`hooks/wallet`, `WalletStore`, `SettingsStore`, `AssetsStore`) | account, network, assets, balances | connect, switch, log out, fetch |
| Keys and clients (`WebSocketContext`, `NitroliteClientWrapper`, `NitroliteStore`) | stored key pair, signers, Nitrolite client | initialise, sign, make a client |
| Views (`Modal`, `QrScanner`, `client.tsx`, `Header`) | animations, timers, camera, intervals | open, leave, resize, poll |
| Sums (`useAmountInput`, `precision.ts`, `tokenDecimals.ts`) | the text of a field | type, paste, show, convert |
| Messages (`MessageService`, `messageHandler`) | the list | add, clear |
| Token distributor (`yuzu/src/Distributor.sol`) | treasury, start of the sale, last purchase of each buyer | start, order, quote |

**How they interact.** There is one listener goroutine for each network and one
handler goroutine for each websocket connection. They share the database, with
transactions around some of their writes and none around others. A listener
learns of the contract through logs, which the network's node delivers at least
once while the subscription lives and not at all otherwise. A listener calls
the contract (`join`) and finds out by another log what came of it. The handlers
share the table of connections (a lock), the authentication tables (two locks)
and, without a lock, the connections they write to. The client has one
connection object whose callbacks belong to sockets it may have forgotten. Its
views share stores (valtio proxies) and the browser's storage; every handler that
waits for the wallet, the contract or the broker goes on afterwards, whatever page,
account or network there is by then. The token distributor is a contract of its own, which nothing
else in the repository calls.

**What is hard, and what must be right.**

| Component | Hard behaviour | Correct when |
|---|---|---|
| Custody events | three writes of the Created branch with other goroutines, a crash or a failed join in between; repeated and lost logs; two networks | no account is overdrawn, money is only where its owner may have it, a deposit is counted once, a closed channel holds nothing |
| Applications | journal written before the sums are compared; funds return to whichever channel is open by then | money moves and is neither made nor lost |
| Settlement | two reads, then a signature that stays valid while the ledger moves on | the contract pays what the journal owes |
| Authentication | one answer sent twice, or on two connections; a full table | a challenge lets in one connection; the table frees |
| WebSocket handler | entries of old and new connections of one address; a connection looked up under a lock and written to after it | the table holds living connections under their own address; messages stay among the members |
| Client connection | late events of forgotten sockets; time-outs racing answers and reconnections | every caller hears; a lost connection is retried or given up aloud |
| Payment sheet | a call outlives the sheet that started it; the session's id goes through the storage | a payment moves its sum to its payee at most once, and "Payment sent" is true |
| Channels in the client | storage, store and contract each say whether there is a channel; reloads, lost answers, calls that share a flag | the stored channel is the open one; nothing turns for ever |
| Wallet and network | four sources of a network change; answers in any order | what is shown belongs to account and network |
| Keys and clients | four places make a key pair; clients for older networks are ready later | one key pair signs everything; the client is that of the network |
| Views | timers that nothing cancels; a camera that is still starting; intervals that captured a signer | the sheet shows what the store says; cameras and intervals end with their view |
| Sums | eight text replacements one after another | a number stays itself; what is paid is covered |

`PROJECT.json` lists the hazards one by one, each with its line.

## The models

```
 BrokerDB ── VApps ───────────────┐
     └────── Custody ── Listener ─┼── Broker ── MCBroker
                  └──── Settlement┤      └───── BrokerProofs
                     BrokerPromise┘

 Auth ── Hub ── MCHub              WsClient ── MCWsClient
          └─── HubProofs               └────── WsClientProofs

 PaymentPromise ── Payment ── MCPayment          Network ── MCNetwork
                      └────── PaymentProofs         └────── NetworkProofs

 PageConstants ── Funding, Clients, Scanner, Home ─┐
                                         Messages ─┼── Views ── MCViews
                                          Amounts ─┘     │
                                             │           │
                                      AmountsProofs ── ViewsProofs

 DataTheorems ── BrokerProofs, NetworkProofs, AmountsProofs
```

**BrokerDB** - the database. `channels` and `apps` are the rows (status
`"none"`: no row); the columns of a channel that never change are the constants
`Owner`, `NetworkOf`, `Nonce`. The journal is kept as `balance[account][beneficiary]`,
since the code reads entries only through their sums. `Post` writes a set of
entries, `Record` one of them. `ParticipantChannels` and `ExistingChannels` are the
two queries that choose a channel.

**VApps** - `CreateApplication` and `CloseApplication`, one step each: the
handlers work in a transaction, and SQLite, the default database, runs
transactions one at a time. A refused request is rolled back and is no step.
`sigs` counts signatures, because the handler adds a signer's weight for every
signature; a stored quorum of 0 becomes the column's default of 100, as gorm
does it. The participants of one application are distinct.

**Custody** - the contract (external) and what stands between it and the
listener: `emitted` logs, the queue `events`, `subscribed`, and `handler`, the place
of the listener in the Created branch. `chain` is the contract's own record, `signed`
the states that the broker has signed; a signed state is never removed, hence a
client may submit it at any time and the contract accepts it when its version
and sums allow.

**Listener** - one action for each branch of `handleBlockChainEvent`. The Created
branch is three actions (`HandleCreated`, `JoinSucceeds` or `JoinFails`,
`RecordCredit`), because it writes outside a transaction. `IgnoreEvent` is every
path that logs and returns. `SubscriptionFails` drops what is queued, `LogRepeats`
delivers an emitted log again.

**Settlement** - `ReadChannel` is the first query of `resize_channel` and
`close_channel`; `SignResize`, `SignClose` and `RefuseSettlement` the second one and the
answer. Other steps may come between.

**Broker** - composes them. `Next` has all faults (`Crash` forgets what is not in
the database; `JoinFails`, lost subscriptions, repeated logs). `ReliableNext` has
none. `DisciplinedNext` has clients which settle one thing at a time: no
application is created or closed while a member has a settlement under way.

**BrokerPromise** - what a wallet that deposits may rely on, without events, handlers,
accounts or a journal: what each participant has `free`, and what he has at `stake` in
which application. A deposit is booked once, in full or (when the broker fails in
the middle) not at all; an application is opened once with what its members have
free, and closed once with its whole pot shared out among them; else free funds only
leave by `Withdraw`. `Broker!PromiseKept` is the refinement: `Free` adds up a participant's
balances over all channels, so that it does not say on which of them a close returns
funds; `Staked` is what the applications' accounts hold; `Dealt` are the channels with a row
and no handler in the Created branch, hence a `Crash` there is the abstract `Forgo`.

**Auth**, **Hub** - `Auth` has the two tables and the cleaning goroutine; `Hub` one
goroutine for each connection, whose `pc` runs through `auth`, `register`, the
message loop (`ready`, `update`, `dispatch`, `forward`), the three calls that write
a message (`write`, `open`, `written`) and `leaving`. Each lock region is a step, so
that expiry and other goroutines come in between. An address is a *name* with a
spelling: `forwardMessage` compares signers in checksum spelling with the sender's own
spelling. `writer` and `torn` model the websocket library's single current writer:
taking a new one flushes the message that another goroutine has open.

**WsClient** - an action is a callback, which the script runs to its end. The
object has one field `ws`, but every socket keeps its callbacks, and these work
on whatever `ws` is when they run: `onopen` authenticates `this.ws`, a failed
authentication closes it, any `onclose` clears it. `ready` is a socket's state
(`aborting`: closed by us before it opened), `login` and `target` the running
`authenticate()`, `unsettled` the promises of `connect()`. A refused request is answered
under its own id and in the field of a result, so that a refusal resolves the request
like any answer (`Answered`). Only errors about no request, those of the authentication
among them, have the id 0 and settle nothing: there the time-out does.

**Payment**, **PaymentPromise** - the sheet of the Yuzux app and the calls of
`processPayment`. `PaymentPromise` says what a payer may rely on: a payment that was
confirmed moves at most once, in the sum and to the payee confirmed, and for each payment
reported as sent there is a move of its own with the same terms. `Payment` is
the code: a call opens a session (`Send`, then the answer or the time-out), stores
the session's id and reads it again, closes that session with the sum on the
payee's side, refreshes and moves the sheet on. The calls go on when the sheet, the
app or the page is left (`attached`); the service executes a request, or refuses it,
at any time or never. A refused session is an answer like any other (`Created` with
`wire` at "refused"): the client counts it as a success, stores nothing and closes the
session whose id is in the storage. `Promised` is the refinement, with `moved` the
sessions that were closed and `told` the session each call that reported success had
closed. That session may be an earlier payment's, whose close was lost, when the sum and
the payee are the same; `PaymentPromise` therefore counts the moves and does not
ask that a payment's own money moved. The client's dialect differs from the
broker's (it reads `app_session_id` where the broker answers `app_id`), so that
`named`, whether answers name the session, is open.

**Network** - the wallet (MetaMask, or one of Privy), the network of the settings and
what is fetched for it. `calls` are the questions the wallet has not answered,
`asked` those the broker's and the networks' nodes have not. Effects and subscriptions
(`useAssetsStore`, `ConnectButton`, `SettingsStore`) are part of the step that changes
what they watch. Both builds are checked. `Shown` makes one step of the two questions that
`connect` puts to the wallet, for its accounts and then for its network.

**Funding** - the deposit sheet and the account page. A *slot* runs one handler call;
`at` is what it waits for (the broker's state, the transaction to be mined, the
refresh), `life` whether its view is still mounted, or its page was reloaded. The
contract (external) mines or refuses at any time, after a reload also. `Memoised` are
the memos of the buttons, which are computed anew only when something they list changes: a
new client or a new signer object among them.

**Clients** - who reads and makes the key pair, and what is made from it.
`NitroliteClientWrapper` starts a new client for every network and account; the wallet
answers each at any time, and the last to be ready stays.

**Scanner** - `Modal`'s four animation states and its uncancelled timers, and
`QrScanner`'s way through three waits (a camera, a permission, the start).

**Home** - the pages and the ways between them, the interval of the home page and what it
asks. Of header and sidebar there is only where they lead.

**Amounts** - mostly pure: the texts of the two sum fields, the eight replacements of
`cleanPositiveFloatInput`, the number pad, the quick amounts, the conversion to units
of the token, and `toSignificant`. The state is one field, so that an entry meets what
was entered before. A text is a sequence of characters, its value the sum of what its
digits are worth at their places (`Worth`, `Value`), counted in units of ten to the minus
`Scale`. Loops over a text are recursive functions on its positions (`Only`, `toSignificant`,
`Separated`), so that they can be proved about.

**Messages** - the list of `MessageService`, cut at its limit, and which messages come
into it. The channel of the conversation is left out: the connection forgets it whenever it
closes and the service never does, and nothing reads either of them.

**PageConstants** - the networks and `None`, which four of these modules speak of.

**Views**, **MCViews** - `Views` composes the last six modules, which share no state: `part`
chooses one of them, the variables of the others stay at a fixed value (`NoFunding`,
`NoClients` and so on), and the state spaces are added. The checked properties are those of
the modules themselves: a part that does not move has a state in which its properties are
true. `MCViews` gives the constants their values. The networks of `Chains` are
interchangeable in `Funding` and `Clients`, and so are the slots of `Funding`: the run
uses both symmetries.

**History variables.** `wanted` (`WsClient`: was the last call `connect` or `close`),
`newest` (`Network`, `Clients`: what became of the newest question), `lapse` (`Funding`:
creations overlapped, or an answer was lost after the fact), `late` (`Scanner`: cameras
that started after their view), `entered` (`Amounts`: the last entry), `added`
(`Messages`). No guard reads them, but that `added` numbers the messages and bounds
them. `emitted` in `Custody` is the chain's own log.

Operators marked *Mutant* are plausible bugs (a dropped guard, a missing reset).
No specification uses them; each is there to show that some property notices.

## The runs

| Run | Question | Instance | States |
|---|---|---|---|
| `broker_faults` | Is the ledger safe with every fault? | 2 wallets, 2 channels, 1 application, 1 repeat in the queue | 103,226 |
| `broker_disciplined` | Do journal and contract agree, if clients are careful? | 2 signatures for each channel, 1 application | 18,727 |
| `broker_live` | Is every deposit opened and every close booked? Do rows follow the contract? | 2 channels of one wallet, resizes up and down | 121,666 |
| `resize_credit` | *violation*: is a deposit by resize credited? | 1 resize | |
| `hub` | Are authentication, connections and forwarding sound? | 2 connections, 3 spellings of 2 addresses, 2 challenges | 1,876,146 |
| `hub_live` | Does a full challenge table empty? | 1 connection, table of 1 | 12,198 |
| `lost_route` | *violation*: can a served client be reached? | 2 connections | |
| `ws_client` | Does every caller hear, and is a lost connection retried? | 2 sockets, 2 requests, 2 attempts | 38,294 |
| `client_payment` | Do payments keep their promise? | 2 payments, 2 sums, funds for two of the small one, up to the names of the payments | 2,546,443 |
| `client_network` | Does what is shown settle? | 2 networks and a foreign one, 2 accounts, both builds | 1,755,766 |
| `client_views` | Six parts of the page, each on its own | 2 channels, 2 networks, 3 calls; 3 key pairs; 2 cameras; texts of 4 characters | 711,763 |
| `closed_reconnects` | *violation*: does a closed connection stay closed? | 2 sockets | |

**What the properties say.**

- `NoOverdraft`, `FundsBelong`, `ClosedChannelEmpty`, `LedgerBacked` (`broker_faults`): the
  ledger's safety. `LedgerBacked` bounds what is owed by the deposits of the
  channels it has rows for, each counted once: a Created log that is delivered
  again must not credit again.
- `PromiseKept` (`broker_faults`): the broker with its faults implements `BrokerPromise`. It says
  of steps what the invariants say of states: a credit is the whole of one deposit and
  goes to its owner, once; opening takes no more than is free; a close hands out the pot,
  no more and no less, to members only; nothing else adds to what a participant has.
- `MirrorsChain` (`broker_live`): when no Resized or Closed log of an open channel is
  waiting, row and contract have the same amount and version.
- `Solvent`, `CloseSettlesBalance` (`broker_disciplined`): the journal's debt is
  covered, and a close pays exactly what is owed. Neither holds without the
  discipline: a close that was signed early pays what was owed then.
- `StaleByOwner` (`broker_faults`): a signed close may be submitted at any time, and no
  code compares it with the journal then. As long as the contract would take it, nothing
  the listeners receive, repeated or late as it may be, parts what it pays the owner
  from what the journal owes him. Only an application of the owner does: one that opens
  lowers the debt, so that the contract would pay too much; one that closes raises it, and he
  would lose the difference. For clients of any kind this is all there is: the contract may
  pay something else than the journal owes.
- `DepositOpens`, `CloseReachesLedger` (`broker_live`): liveness without faults. A deposit
  whose log is on its way comes to a moment with its row open and the amount of the log on
  its owner's account, or has been refused, without a row, while its owner has another
  open channel on the network. A close comes to a closed row and an empty account.
- `ChallengeOnce`, `RegistrySound`, `ForwardedToMembers` (`hub`) and `TableFrees` (`hub_live`).
- `PendingExact`, `NoneLeftBehind`, `NeverStranded`, `ConnectSettles` (`ws_client`).
- `Promised` (`client_payment`): the refinement: "Payment sent" is told as often as money of
  these terms moved, at most. `NoIdleSpinner`: "Processing" is shown
  only while a payment of this sheet is under way.
- `BalancesSettle` (`client_network`): once the newest question was answered, and no
  older answer came after it, the balances are those of the network and the assets shown,
  and under MetaMask of the account shown; a flag that says "loading" has a question
  behind it. An older answer that comes later is installed, and nothing corrects it: that
  is what the code does, and the property is about the other case only.
  `AccountKnowsLogout`: the account page never shows an account that Privy logged out.
- `StorageFollowsChain` (`client_views`, Funding): the stored channel is the open one,
  or a handler is about to see to it. `SpinnersTurn`: every flag has its call.
- `OneKey`, `ClientSettles` (Clients); `SheetSettles`, `CameraReleased` (Scanner);
  `PollsWhileConnected` (Home): see the table of what must be right. `ClientSettles` exempts
  an older client that is ready after the newest, `CameraReleased` a scanner that was
  still starting when its view went: the code keeps the one and forgets the other.
- `EntryKeepsValue`: a number that is entered, separators and sign aside, is taken at
  its value or not at all. `PayableIsCovered`, `ShownIsCutOff` (Amounts).
- `NewestKept` (Messages): the newest messages, in their order and without a gap.

**Bounds.** Every bound is a constant or is named in a guard.

- `MaxQueue` and `MaxRepeat` bound repeated logs: a repeat comes only while fewer than
  `MaxQueue` logs wait, for channels whose row's version is below `MaxRepeat`. Without
  it a repeated Resized or Closed log would raise versions for ever. One repeat at
  a time suffices to repeat each kind of log after each later one, which is where
  the order matters.
- `MaxSigned` bounds the states signed for a channel. With two, a stale one and a
  fresh one exist together.
- Two wallets, one application and amounts of -1, 0 and 1: negative allocations
  are refused, zero and one tell an empty account from a full one.
- Two connections let an old and a new connection of one address, or two writers,
  meet. Two challenges with room for one fill the table.
- Two sockets are the forgotten and the current one; a closed socket is taken
  again once nothing refers to it (`Spare`), so runs are not limited to two
  connections. The proofs have no such bound.
- `Solvent` is checked with resizes that change nothing on the user's side
  (`Changes = {0}`), because `resize_credit` breaks it otherwise.
- Two payments overlap, or the second finds what the first left; the funds of 2 cover
  two small sums or a large one, so that the second payment may lack funds.
- `Network`: two questions of a kind wait at a time, four changes by user, wallet and
  Privy. Two answers can pass each other; a change there, and one back, fit.
- `Funding`: two calls at a time and three in all: a creation, a close and a later
  creation, or one call that races two others. Ids of channels are taken in a fixed
  order.
- `Amounts`: every text of up to four characters of `0 5 . - , $`, and all that follows
  from editing it; the limits of 9, 7 and 5 digits are scaled to 3, 2 and 2, the token's
  6 decimals to 2, so that texts on both sides of each limit are within reach.
- `Scanner`: two timers of a kind, two cameras. `Home`: two signers, the old and the new
  one. `Messages`: seven messages with room for three.
- Deadlock is not checked in the runs of `Broker`, `Hub` and `Views`: the system
  really may stop, when all channels are final and all challenges used, or when all
  cameras, calls and messages of the bound are. The other runs have none.

**Fairness.** `Broker!Fairness` asks that a listener goes on with its queue and with
the branch it is in (a goroutine that nothing blocks), and that a join transaction is
mined. It asks nothing of clients. `DepositOpens` also needs the absence of faults:
after a crash between two steps nothing resumes them. `HubFairness` asks that a
challenge which stays grows old and that the cleaning goroutine runs (a ticker).
`WsClient!Fairness` asks, for each socket, that what goes on comes to its end:
connecting in `onopen` or `onerror`, closing in `onclose`, signing in a send, waiting in
an answer or in the time-out that the code sets. The models of the views state no
fairness: their properties are about every state.

Each property also has a mutant: a change of a modelled definition, listed in
`PROJECT.json`, under which the same run finds the property violated.

## The proofs

TLAPS checks the proofs for all values of the constants that satisfy the named
assumptions. TLC evaluates every one of them in a passing run.

- `IdsAssumption`, `CustodyAssumption`, `AppInputsAssumption`, `SettlementAssumption` (the
  broker): identifiers are distinct, amounts and bounds are of their type.
  `FiniteAssumption`: there are finitely many wallets, networks, channels and applications,
  any number of each; without it the sum of a journal says nothing.
- `AuthAssumption`, `HubAssumption`: there is room for a challenge, and spelling in checksum
  form is idempotent. `WsClientAssumption`, `PaymentAssumption`, `NetworkAssumption`: types,
  and `None` is none of the values it is told apart from.
- `FundingAssumption`, `ClientsAssumption`, `ScannerAssumption`, `HomeAssumption`,
  `MessagesAssumption`, `AmountsAssumption` are hypotheses of the theorems about these
  modules, and conjuncts of `MCViews!ViewsAssumption`. `AmountsAssumption` says of the
  balances what the broker's are: numbers without a sign and without a zero in front of
  another digit; and of `Scale` that it counts every digit of the texts.

| Theorem | Says |
|---|---|
| `BrokerProofs!TypeCorrect` | `Spec => []TypeOK` |
| `BrokerProofs!NeverOverdrawn` | `Spec => []NoOverdraft` |
| `BrokerProofs!FundsStayWhereTheyBelong` | `Spec => []FundsBelong` |
| `BrokerProofs!NothingAfterClose` | `Spec => []ClosedChannelEmpty` |
| `BrokerProofs!BrokerKeepsPromise` | `Spec => PromiseKept`, the refinement of `BrokerPromise` |
| `BrokerProofs!HandlersConserve` | `Spec => AppsConserve` |
| `BrokerProofs!DebtIsBacked` | `Spec => []LedgerBacked` |
| `BrokerProofs!RowsMirrorChain` | `ReliableSpec => []MirrorsChain` |
| `BrokerProofs!StaleByOwnDeed` | `Spec => StaleByOwner` |
| `HubProofs!HubTypeCorrect` | `HubSpec => []HubTypeOK` |
| `HubProofs!OneConnectionPerChallenge` | `HubSpec => []ChallengeOnce` |
| `HubProofs!RegistryAlwaysSound` | `HubSpec => []RegistrySound` |
| `HubProofs!ForwardsStayInside` | `HubSpec => []ForwardedToMembers` |
| `WsClientProofs!ClientTypeCorrect` | `Spec => []TypeOK` |
| `WsClientProofs!TableExact` | `Spec => []PendingExact` |
| `WsClientProofs!NobodyLeftBehind` | `Spec => []NoneLeftBehind` |
| `WsClientProofs!Retried` | `Spec => []NeverStranded` |
| `PaymentProofs!TypeCorrect` | `Spec => []TypeOK` |
| `PaymentProofs!PaymentsKeepPromise` | `Spec => Promised`, the refinement of `PaymentPromise` |
| `PaymentProofs!NobodyWaitsForNothing` | `Spec => []NoIdleSpinner` |
| `NetworkProofs!TypeCorrect` | `Spec => []TypeOK` |
| `NetworkProofs!SheetSettlesDown` | `Spec => []BalancesSettle` |
| `NetworkProofs!LogoutReachesAccount` | `Spec => []AccountKnowsLogout` |
| `ViewsProofs!FundingTypeCorrect` | `FundingSpec => []FundingTypeOK` |
| `ViewsProofs!EverySpinnerTurns` | `FundingSpec => []SpinnersTurn` |
| `ViewsProofs!StorageKnowsChannel` | `FundingSpec => []StorageFollowsChain` |
| `ViewsProofs!OneIdentity` | `ClientsSpec => []OneKey` |
| `ViewsProofs!ClientFollowsNetwork` | `ClientsSpec => []ClientSettles` |
| `ViewsProofs!SheetComesToRest` | `ScannerSpec => []SheetSettles` |
| `ViewsProofs!NoCameraLeftOn` | `ScannerSpec => []CameraReleased` |
| `ViewsProofs!NoStrayInterval` | `HomeSpec => []PollsWhileConnected` |
| `ViewsProofs!ConversationRemembered` | `MessagesSpec => []NewestKept` |
| `AmountsProofs!EntriesKeepTheirValue` | `AmountsSpec => []EntryKeepsValue` |
| `AmountsProofs!PaymentsCovered` | `AmountsSpec => []PayableIsCovered` |
| `AmountsProofs!BalancesCutOff` | `AmountsSpec => []ShownIsCutOff` |
| `ViewsProofs!PartsMoveAlone` | `Spec => (part = "keys" => ClientsSpec)`, and so for each part |
| `ViewsProofs!TypesOfParts` | `Spec => []TypeOK`, with `Spec` and `TypeOK` of `Views` |

**The broker, with faults.** `IInv == TypeOK /\ Wiring /\ Money`. `Money`, the three safety
invariants, is not inductive. `RecordCredit` credits a channel some steps after its
handler read an event: nothing in `Money` says that the row has not been closed in
the meantime, and the closed channel would then hold money. `Wiring` says it.
`HandlerOwnsRow`: while a handler is in the Created branch the row stays `joining`,
since only the same listener handles events of this network. `EventsKnown`: events
of a network are about channels of that network. The proof goes through the
steps in three layers, each resting on the one before: types, then wiring, then money. `PostEffect`,
`RecordEffect`, `CreateEffect` and `CloseEffect` say what a posting does to every
account; `CloseMoney` needs no sum, because a close empties the application's accounts
whatever it hands out.

**The broker, without faults.** `MirrorsChain` speaks of channels for which no log waits.
What it rests on is what may be said while logs wait. `InPhase` relates a channel's row, its
contract and the set of its waiting logs, in six cases from "no row" to "closed". At
most one settlement lies between contract and row (`OneBehind`), for a reason that is not in
the listener at all: the broker signs version `v + 1` only after its row has
reached `v` (`NoneAhead`), so the contract cannot take a second state before the first one's
log was handled. `InOrder` says that a channel's logs wait in the order in which they
were emitted; with `Of`, the set of a channel's logs in a queue, `AppendInOrder`
and `TailOf` reduce steps on the queue to steps on sets. `Mirroring`, the conjunction,
is inductive under `ReliableNext`. Faults break it: after a lost Resized log the row's version
stays behind for ever.

**The broker, with clients of any kind.** `StaleByOwner` needs one invariant more,
`ClosesAreFinal`: the contract logs a close only of a channel it has made final, and final it
stays. So a Closed log, whenever it is handled and however often it comes, empties no account
for which the contract would still take a signed close (`ListenersLeave`). The credit of the
Created branch is out of the way by hypothesis (`Credited`), and what applications do is
read off their postings (`AppStales`).

**The broker, with careful clients.** Two theorems more are conditional: `ClosePaysBalance`
(`DisciplinedSpec => []CloseSettlesBalance`) and `DebtIsCovered` (`Changes \subseteq {0} /\
DisciplinedSpec => []Solvent`). They say how much the clients would have to do; the code
enforces neither hypothesis. A client that opens an application while a signed close of his
is about breaks both, and so does a resize that adds funds the second.

`Paying` follows the balance from the signature to the
Closed log. A close that the contract would still take (`ClosesFresh`), or whose log waits
(`PaidOut`), pays what the journal owes; before a deposit is credited there is no
settlement that could miss it (`CreditedFirst`). Every step that moves the balance of a
channel must find nothing of this kind: for applications that is the discipline of
`DisciplinedSpec` (`AppMoves`: only accounts of members and their open channels
move), for the listener's credit it is `CreditedFirst`.

**Sums.** The library's induction theorems take the statement as an operator, which the
provers cannot instantiate. `DataTheorems` states induction over finite sets for the *set*
of the subsets of which something holds (`SetInduction`, from the well-foundedness of
inclusion). With it come the lemmas about `SumFunctionOnSet`: there is one sum, in whatever
order the elements are picked (`SumExists`, `SumUnique`, `SumSplit`); two functions are added
(`SumPlus`), one term changes (`SumChange`), rows and columns are exchanged (`SumExchange`).

**The journal's total.** A posting adds its own total (`PostTotal`). An application's posting
has more entries than one, so it is added up by beneficiary instead of by account
(`TotalByColumns`): what a member puts in leaves his channel (`CreateTotal`); at a close
a column is the final allocation less what the application held for that member,
and the columns add up to nothing by `SumsMatch` (`CloseTotal`). `AppsConserve` (only a step
of a listener changes the total) follows, because every such step which writes to the journal
also moves its queue or its handler. No run checks it: `PromiseKept` says more.

**What backs it.** `LedgerBacked` is not inductive: while a handler is in the Created branch, its
deposit already counts and is not yet credited, and nothing says that one deposit is there for
each credit to come. `Backed` counts only deposits whose channel no handler is about to credit
(`Booked`); `HandlerPays` says that the amount a handler holds was deposited, and by
`HandlerOwnsRow` no other handler is on that channel. A credit then finds a deposit that was not
counted before. After a crash the deposit is booked without a credit, which errs on the safe side.

**What it promises.** Each step of `Broker` is mapped to one of `BrokerPromise` or to a stutter, by a
lemma for each kind of step. `IInv` and `HandlerPays` are needed, and one invariant more:
`FirstDeposit`, a channel its contract does not know has no deposit logged, which makes a
`ChainCreate` a first `Deposit`. A credit needs that its handler is the only one on the
channel (`CreditKept`); a Closed log takes what one channel holds, which is no more than what is
free on all of them because none is overdrawn (`ClosedKept`, `FreeHolds`). For applications
`FreeChange` follows the one channel of each member that moves. That an account starts and ends
at zero is `FundsBelong` (`WhatIsStaked`), and that a close hands out the pot is `SumsMatch`,
extended from the members to all participants (`CloseKept`). `PromiseSums` is there because an
instance has its own copies of the library's operators.

**What covers it.** `Solvent` compares two sums over channels that change in different steps.
`Balanced` makes one of them: what a channel is due (`Due`) is what the contract holds in it,
once credited, plus what a close that is not yet handled has paid out. Every step moves the due
of one channel at most (`OneMoves`), by as much as the journal and the broker's funds move. It
rests on what was proved before: a settled channel has been credited (`CreditedFirst`), a close
pays the balance (`ClosesFresh`), the row shows the deposit while it is joined (`InPhase`,
`HandlerRow`), and what waits for a close is out of use for applications (`ClosingPhase`). The
hypothesis on `Changes` is the one of the run.

**The hub.** `HubInv` adds to the types and the two invariants `TokenSpent`: the
challenge with which a goroutine was authenticated is completed or removed, hence
nobody else can be. Routing has an invariant of its own on top of it, `RouteInv`: an
unauthenticated connection has no message to forward, and whoever is still to be
written to, or is being written to, is another member. That is kept
although the connection is looked up under the lock and written to after it,
because a connection never changes its name.

**The client's connection.** `IInv` is the conjunction of the four invariants. `NoneLeftBehind` needs
`PendingExact`: `onclose` and `close()` reject what is in the table, and by `PendingExact`
nobody else waits.

**Payments.** The refinement maps initial states to initial states, and each of the steps of
`Payment` to a step of `PaymentPromise` or to a stutter. It needs `Protocol`. `InStep` ties a
call, its request and the session together: nothing is opened before it is asked for, a request
to close that was executed closed a session of the same terms, and who is told "sent" has had
one closed. That session need not be the call's own. `Apart` says that no two calls had the same
one closed: the service closes a session once, and only the request that closed it is
answered so. Hence each "sent" has a move of its own.

**The network.** `BalancesSettle` speaks of an answer; `Asking` of the question it
answers: the newest one that waits is for what is shown now, because the sheet's effect
asks again in the very step in which account, network or list change. `Wiring` keeps the
two builds apart: a wallet is asked only the questions of its build.

**The client's channels.** `SpinnersTurn` needs `Refreshing`: what refreshes is not a deposit or a
creation. `StorageFollowsChain` needs `Known`, the channels that storage and calls name were
created, and, while there was no `lapse`, `Orderly`: how two calls under way, the stored
channel and the contract's channels may stand to one another.

**Keys and clients.** `Makings` speaks of clients that are still being made: each has the
stored key, and the newest is for the network chosen.

**Views.** `Driven`: an animation that moves has a timer behind it, and one that rests shows what
the store says. `PagesInv` and `ListInv` add only the types. Of the page as
a whole there is one fact to prove, `PartsMoveAlone`: its behaviours are those of its parts, so
that the theorems about these are true of the specification that `client_views` checks.

**The sums.** A value is a sum over the places of a number, not over its characters, so that
two texts have the same value when each place is worth the same in both (`SameValue`). Then the
replacements are taken one by one. Zeros in front of another digit may go, and a zero may be
put in front of a dot: neither moves a place that counts (`Drops`, `DropsAlike`). Separators
and the sign are no digits (`OnlyKept`, `ReplaceSign`); a number has one dot and no run of
them (`ReplaceDot`). `CleanAlike` follows for the eight of them, `DepositChangeIs` for the branches
of the deposit field. Of the two properties about entries only `EntryKeepsValue` needs more than
one state, and `AmountsInv` is it, the types, and that the balance of a deposit is a whole
number of the token's units; `RoundingStays` uses the last: rounding to units cannot pass
what is a number of units.

`toSignificant` counts while it takes characters. What it has taken after n of them is the
start of the number, and the first digit of it that is not zero is as many places before the
last one as it has counted (`Took`, `TookNext`). Filled up with zeros, or relieved of a fraction
of zeros, this is the number cut off (`PaddedIs`, `CutAfter`). What is lost is what the places
below the cut are worth, and that is less than one of the place above (`TotalBelow`), which the
leading digit's place makes the unit of the property (`DigitCounts`).

The recursive functions are the one induction over data that the prover admits: `FromZero` speaks
of a set of numbers instead of a predicate, and `StepByStep` and `StepUpTo` of `DataTheorems` show that
a function with a first value and a step from each value to the next exists, so that the
recursive definitions are what they say (`PowerIs`, `OnlyRuns`, `SeparatedRuns`, `TakenRuns`).

**What stays with TLC.** Liveness under fairness (`DepositOpens`, `CloseReachesLedger`,
`TableFrees`, `ConnectSettles`) and `ENABLED` are beyond the prover. Every other property of the
passing runs is proved for all values of the constants, but that the proofs about `Solvent` and
`CloseSettlesBalance` keep the discipline, and the one about `MirrorsChain` the absence of
faults, which their runs have too; and that `BalancesSettle`, `ClientSettles` and `CameraReleased`
make their exceptions in the proofs as in the runs. What a mutant does, and the three violations, are TLC's.

## Where the code departs from its documents

Three runs end in a violation, each of a sentence in the repository:

- `resize_credit`: a Resized event changes the row and writes no journal entry
  (`custody.go:293`), so what was deposited by a resize can never be used.
- `lost_route`: a connection that ends deletes the entry of its successor (`ws.go:135`).
- `closed_reconnects`: `close()` is followed by an `onclose`, which reconnects
  (`connection.ts:151`).

Seen while modelling, and contained in the models' behaviours:

- Two channels of one wallet and network that wait for their join at the same time
  are both opened: `CheckExistingChannels` counts open ones only (`custody.go:138`).
- A crash, or a failed join, after the row was inserted strands the deposit: the
  repeated event is refused by the unique index. A crash between join and credit
  leaves an open channel without credit.
- A close that is signed between join and credit gives the user nothing.
- A signed close stays valid while applications move the balance; the Closed event then
  wipes whatever the account holds (`custody.go:262`). `CloseSettlesBalance` therefore
  holds under `DisciplinedSpec` only.
- Two goroutines may write to one connection, and the library sends what the first one
  had written so far (`ws.go:410`; `torn` in `Hub`).
- The delay of the listener's next attempt is `2^n - 1` with Go's exclusive or, hence
  2, -1, 0, 5, 6 seconds and not exponential (`eth_listener.go:99`).
- A lost Resized event leaves the row's version behind, and every state that is signed
  later is refused by the contract.
- Messages for a closed application are still forwarded (`ws.go:325`), while
  `clearnet/docs/Broker.spec.md:38` has the routing stop.
- A client that authenticates with a lower-case address cannot forward: signers are
  compared in checksum spelling (`ws.go:318`).
- Each signature adds the weight of its signer, also when he signs twice
  (`handlers.go:377`).
- The time-out of an authentication whose socket was lost closes the connection that
  replaced it (`connection.ts:123`), and a forgotten socket that authenticates late
  reports "connected" while there is no connection (`connection.ts:116`).
  `NeverStranded` names this case.

Seen in the client, and contained in its models' behaviours:

- *Payments.* A refused session counts as opened (`useCreateApplicationSession.ts:68`). If an
  earlier payment's id is still stored, because the answer to its close was lost, the refused
  payment closes the earlier one's session; with the same sum and payee it is reported as sent,
  though nothing of its own has moved. With another sum or payee the close is refused,
  which is reported as a failure. A timer or a failure of an older payment changes the sheet
  of a newer one. A
  payment that is reported as failed may have moved its money. A text that is pasted, or
  scanned, is taken as the payee unchecked. "Try Again" is never shown: the sheet leaves the
  processing step whenever there is an error, and a new call clears it.
- *Network.* The first list of assets does not record its network
  (`AssetsStore.ts:114`), late answers are installed, and an older switch overwrites newer
  settings. Privy's fetches are for the account they captured. A disconnection may be
  undone by a reconnection under way.
- *Channels.* "Success" is shown although the channel was not created, because
  `handleCreateChannel` swallows its failure (`Deposit.tsx:234`); it uses the client of
  that moment, maybe another network's. The close button stays enabled during a
  close, because its memo reads `loading.clos` (`AccountInterface.tsx:186`). A resize
  shares the flag of a close. Keys the deposit sheet makes connect nothing before the
  page is loaded again (`WebSocketContext.tsx:46`).
- *Camera.* A scanner that is still starting when its view goes is never stopped and
  scans on.
- *Sums.* A pasted "$.50" becomes "50", which is why `EntryKeepsValue` speaks of numbers
  only; typed texts bypass the limits of the pad; a quick amount may be rounded above
  the balance and is then unpayable. For a token that is not listed, the decimals are
  undefined (`tokenDecimals.ts:20`), which the model leaves out.

## What is not modelled

- JSON encoding, hashing, signatures: a signature is the address it recovers to.
- The RPC store, metrics and configuration: append-only logs and plain I/O.
- Widths of numbers: amounts are integers; the code cuts 256 bits to int64
  (`custody.go:150`).
- Database interleavings inside a transaction. On a database with weaker isolation
  than SQLite's the two reads of a balance may be stale.
- The retry loop of `eth_listener.go`, beyond loss and restart; the final `Fatal` is a
  `Crash`.
- The client's markup, styles, icons and wording, and its components that nothing
  renders (`YuzuxSection`, the headers other than the layout's, `TokenSelector`,
  `NetworkDropdown`, `ChannelStatus` and others), stores that nothing uses
  (`ConfigStore`, `DebugStore`).
- The client's modules are not composed with one another: each has the others as an
  environment that may do anything they do.
- The sale of the Yuzu token, `Distributor.sol`. As committed it does not compile: it imports
  `./IDistributor.sol`, which is in `interfaces/`, and calls `decimals` on an `IERC20`, which has
  none. Of what it would do: the square of b is divided by `PRICE_PRECISION` (line 183) where
  4ac is multiplied by it and b is subtracted undivided, so that after a first order a
  second of the same sum gets almost nothing, and is refused when that is nothing.
- `Token.sol`, which mints the supply of a library's token once, and `yuzu-client`, the
  unchanged template of a web application.

## The plan

Groups 1 to 10 are done; the others would be next.

1. `BrokerDB`, `VApps`, `Custody`, `Listener`, `Settlement`, `Broker`: the money. Runs
   `broker_*`; `BrokerProofs`.
2. `Auth`, `Hub`: who is who and who gets which message. Runs `hub*`; `HubProofs`.
3. `WsClient`: the client's connection. Run `ws_client`; `WsClientProofs`.
4. `Payment` and its abstract specification `PaymentPromise`. Run `client_payment`.
5. `Network`. Run `client_network`.
6. `Funding`, `Clients`, `Scanner`, `Home`, `Amounts`, `Messages`. Run `client_views`.
7. Proofs about them: `PaymentProofs` (with the refinement), `NetworkProofs`,
   `ViewsProofs`.
8. `MirrorsChain` under `ReliableSpec` and `CloseSettlesBalance` under `DisciplinedSpec`.
9. `DataTheorems`, and with it `AppsConserve`, `LedgerBacked` and `Solvent`.
10. `AmountsProofs`: the sums, for texts of any length; `Views` as a module that is proved
    about; `BrokerPromise` and the proof that the broker implements it.
11. `Distributor`, once it compiles: orders by several buyers, with tokens sent to the treasury
   in between. What left the treasury was paid for along the price line, and no token
   costs more than the target price.
12. `EventListener`: the retry loop with its delay and limit, refining the subscription of
    `Listener`; the statements of the application handlers one by one, refining `VApps`;
    widths of amounts.

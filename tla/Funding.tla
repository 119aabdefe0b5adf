------------------------------ MODULE Funding ------------------------------
(***************************************************************************)
(* Channels in the browser client: the deposit sheet, which pays into the  *)
(* custody contract and then creates a channel (Deposit, useChannelCreate),*)
(* the account page, which closes, resizes, challenges, withdraws and      *)
(* refreshes (AccountInterface, useChannelClose, useResize).               *)
(*                                                                         *)
(* A slot runs one call of a handler.  Between two of its waits anything   *)
(* else may happen: the sheet or the page is left, which unmounts what the *)
(* call wants to set, the network changes, which changes the client its    *)
(* next transaction is sent with (module Clients says how), another call   *)
(* starts, the page is reloaded, which loses the call, not its transaction.*)
(*                                                                         *)
(* The contract and the broker are external: they accept or refuse, and an *)
(* answer may be lost after the fact.  Amounts are left out, so that the   *)
(* contract may refuse any transaction for want of funds, and so are the   *)
(* lists the broker answers with, so that a resize may find its channel in *)
(* them or not.  The wallet is connected; the expiry of a challenge is not *)
(* modelled.                                                               *)
(***************************************************************************)
EXTENDS Naturals, PageConstants

CONSTANTS
  Channels,         \* channels that can be created: a bound
  Slots,            \* calls that run at a time: a bound
  MaxCalls          \* calls that are started at all: a bound

\* What the constants are: an assumption of MCViews.
FundingAssumption ==
  /\ MaxCalls \in Nat /\ Channels # {}
  /\ None \notin Chains \cup Channels \cup BOOLEAN

VARIABLES
  started,          \* calls started, up to the bound
  page, sheet,      \* the page, AppStore.isDepositOpen
  keys,             \* crypto_keypair is not there, made, or was when loaded
  online,           \* the status of the broker's connection is "connected"
  clientChain,      \* the network of NitroliteStore.client
  status,           \* Deposit.transactionStatus
  typed,            \* channelOpen as onDeposit saw it when a sum was typed
  offered,          \* buttons of the account page, as memoised
  loading,          \* AccountInterface.loading
  calls,            \* handlers that wait
  stored,           \* nitrolite_channel_id and _state of the browser's storage
  channelOpen,      \* WalletStore.channelOpen
  chan,             \* the contract's channels
  lapse             \* history: two creations overlapped, or an answer was lost

shown == <<page, sheet, status, typed, offered, loading>>
clients == <<keys, online, clientChain>>
kept == <<stored, channelOpen, chan, lapse>>
fundingVars == <<started, shown, clients, calls, kept>>

Idle == [op |-> "none", at |-> "none", chain |-> None, id |-> None,
         seen |-> FALSE, life |-> "none"]
Flags == {"close", "challenge", "withdrawal", "refresh"}
Buttons == {"close", "resize", "challenge"}

FundingTypeOK ==
  /\ started \in 0..MaxCalls
  /\ page \in {"home", "account"} /\ sheet \in BOOLEAN
  /\ keys \in {"none", "made", "loaded"} /\ clientChain \in Chains \cup {None}
  /\ online \in BOOLEAN /\ (online => keys = "loaded")
  /\ status \in {"idle", "processing", "success"}
  /\ typed \in BOOLEAN \cup {None}
  /\ offered \in [Buttons -> BOOLEAN] /\ loading \in [Flags -> BOOLEAN]
  /\ calls \in [Slots ->
       [op : {"none", "deposit", "create", "close", "resize", "challenge",
              "withdrawal", "refresh"},
        at : {"none", "asked", "sent", "mined", "refresh"},
        chain : Chains \cup {None}, id : Channels \cup {None},
        seen : BOOLEAN, life : {"none", "view", "page", "lost"}]]
  /\ \A s \in Slots : calls[s].op = "none" => calls[s] = Idle
  /\ stored \in Channels \cup {None} /\ channelOpen \in BOOLEAN
  /\ chan \in [Channels -> [is : {"none", "open", "challenged", "closed"},
                            chain : Chains \cup {None}]]
  /\ lapse \in BOOLEAN

-----------------------------------------------------------------------------
(* What is computed again when something changes.                          *)

\* The three memos of the account page read the storage, on which none of
\* them depends, and the one for "close" a flag on which it does not either.
\* Where there is a connection there is a signer; a new one is another object,
\* on which the memos for "close" and "resize" depend.
Offers(b) ==
  /\ online' /\ stored' # None
  /\ b = "close" => ~loading'["close"]
  /\ b = "challenge" => clientChain' # None /\ ~loading'["challenge"]

Memoised(anew) ==
  offered' = [b \in Buttons |->
    IF \/ b \in anew \/ online' # online
       \/ /\ b = "challenge"
          /\ clientChain' # clientChain \/ loading'["challenge"] # loading["challenge"]
      THEN page' = "account" /\ Offers(b)
      ELSE offered[b]]

\* The deposit sheet when it opens, also by being mounted open.
Opened == status' = "idle" /\ typed' = None

\* initializeKeys
Keyed == keys' = IF keys = "none" THEN "made" ELSE keys

\* An earlier page may have left keys, and a channel.
FundingInit ==
  /\ started = 0
  /\ page = "home" /\ sheet = FALSE
  /\ keys \in {"none", "loaded"} /\ online = FALSE /\ clientChain = None
  /\ status = "idle" /\ typed = None
  /\ offered = [b \in Buttons |-> FALSE] /\ loading = [f \in Flags |-> FALSE]
  /\ calls = [s \in Slots |-> Idle]
  /\ channelOpen = FALSE
  /\ stored \in {None, CHOOSE c \in Channels : TRUE}
  /\ stored # None => keys = "loaded"
  /\ \E n \in Chains :
       chan = [c \in Channels |-> IF c = stored THEN [is |-> "open", chain |-> n]
                                               ELSE [is |-> "none", chain |-> None]]
  /\ lapse = FALSE

-----------------------------------------------------------------------------
(* The page.                                                               *)

\* What is mounted is mounted anew, and its calls have no view any more.
Visit(p) ==
  /\ p # page /\ page' = p
  /\ loading' = [f \in Flags |-> FALSE]
  /\ calls' = [s \in Slots |->
       IF calls[s].life = "view" THEN [calls[s] EXCEPT !.life = "page"] ELSE calls[s]]
  /\ Opened /\ UNCHANGED <<sheet, clients, kept>>
  /\ Memoised(Buttons)

\* Only the storage is left.  What a call waits for is lost with it, except
\* that its transaction may still be mined.
ReloadPage ==
  /\ sheet' = FALSE /\ Opened
  /\ loading' = [f \in Flags |-> FALSE]
  /\ offered' = [b \in Buttons |-> FALSE]
  /\ keys' = IF keys = "none" THEN "none" ELSE "loaded"
  /\ online' = FALSE /\ clientChain' = None
  /\ calls' = [s \in Slots |->
       IF calls[s].at = "sent" THEN [calls[s] EXCEPT !.life = "lost"] ELSE Idle]
  /\ channelOpen' = FALSE
  /\ lapse' = (lapse \/ \E s \in Slots : /\ calls[s].op \in {"create", "close"}
                                         /\ calls[s].at \in {"sent", "mined"})
  /\ UNCHANGED <<page, stored, chan>>

OpenSheet ==
  /\ page = "home" /\ ~sheet /\ sheet' = TRUE
  /\ Opened
  /\ UNCHANGED <<page, offered, loading, clients, calls, kept>>

CloseSheet ==
  /\ sheet /\ sheet' = FALSE
  /\ UNCHANGED <<page, status, typed, offered, loading, clients, calls, kept>>

\* Two and a half seconds of success.
SuccessTimer == status = "success" /\ CloseSheet

\* The network or the list of assets changes: the sum starts from zero.
SumReset ==
  /\ sheet /\ typed # None /\ typed' = None
  /\ UNCHANGED <<page, sheet, status, offered, loading, clients, calls, kept>>

\* A sum is typed, or the balance it is compared with arrives.
TypeAmount ==
  /\ sheet /\ status = "idle"
  /\ typed' = channelOpen
  /\ UNCHANGED <<page, sheet, status, offered, loading, clients, calls, kept>>

-----------------------------------------------------------------------------
(* The connection, which module WsClient models, and the client.           *)

\* Mutant: the provider is told of new keys.
GoesOnline_AnyKeys ==
  /\ keys # "none" /\ ~online /\ online' = TRUE
  /\ UNCHANGED <<page, sheet, status, typed, loading, keys, clientChain, calls, kept>>
  /\ Memoised({})

\* WebSocketProvider reads the keys when the page is loaded: keys that the
\* sheet makes connect nothing before that.
GoesOnline ==
  /\ keys = "loaded" /\ ~online /\ online' = TRUE
  /\ UNCHANGED <<page, sheet, status, typed, loading, keys, clientChain, calls, kept>>
  /\ Memoised({})

GoesOffline ==
  /\ online /\ online' = FALSE
  /\ UNCHANGED <<page, sheet, status, typed, loading, keys, clientChain, calls, kept>>
  /\ Memoised({})

\* The client's keys, too, come with a new signer.
NewClient(c) ==
  /\ clientChain' = c /\ Keyed
  /\ UNCHANGED <<page, sheet, status, typed, loading, online, calls, kept>>
  /\ Memoised(Buttons)

-----------------------------------------------------------------------------
(* Calls.                                                                  *)

InView(s) == calls[s].life = "view"
Alive(s) == calls[s].life \in {"view", "page"}

Starts(s, op, at) ==
  /\ calls[s] = Idle
  /\ calls' = [calls EXCEPT ![s] = [op |-> op, at |-> at,
                 id |-> IF op \in {"close", "resize", "challenge"} THEN stored ELSE None,
                 chain |-> IF at = "sent" THEN clientChain ELSE None,
                 seen |-> op = "deposit" /\ typed = TRUE, life |-> "view"]]

Refreshes(s) == calls' = [calls EXCEPT ![s].at = "refresh", ![s].id = None]
\* openChannel, closeChannel
setChannelOpen(b) == channelOpen' = b

Ends(s) == calls' = [calls EXCEPT ![s] = Idle]
Says(s, view) == status' = IF InView(s) THEN view ELSE status

\* onDeposit up to its first wait for the wallet, with a new signer.  Without a
\* client it fails.
DepositClick(s) ==
  /\ sheet /\ status = "idle" /\ typed # None
  /\ Keyed /\ UNCHANGED loading
  /\ IF clientChain = None
       THEN UNCHANGED <<status, calls>>
       ELSE status' = "processing" /\ Starts(s, "deposit", "sent")
  /\ UNCHANGED <<page, sheet, typed, online, clientChain, kept>>
  /\ Memoised({"close", "resize"})

\* Mutant: the storage is not looked at.
Exists_Unstored(s) == calls[s].seen

\* checkForExistingChannel: the storage as it is, the flag as it was.
Exists(s) == stored # None \/ calls[s].seen

Creating == {s \in Slots : calls[s].op = "create"}

\* The deposit is mined: handleCreateChannel is next, with the client of now.
\* That a channel exists is told by an alert, and then all is a success.
Deposited(s) ==
  /\ Alive(s) /\ calls[s].op = "deposit" /\ calls[s].at = "mined"
  /\ setChannelOpen(TRUE)
  /\ IF Exists(s)
       THEN Ends(s) /\ Says(s, "success") /\ UNCHANGED lapse
       ELSE /\ calls' = [calls EXCEPT ![s].op = "create", ![s].at = "sent",
                                      ![s].chain = clientChain, ![s].seen = FALSE]
            /\ lapse' = (lapse \/ Creating # {}) /\ UNCHANGED status
  /\ UNCHANGED <<page, sheet, typed, offered, loading, clients, stored, chan>>

\* saveChannelToStorage
Created(s) ==
  /\ Alive(s) /\ calls[s].op = "create" /\ calls[s].at = "mined"
  /\ stored' = calls[s].id /\ setChannelOpen(TRUE)
  /\ Ends(s) /\ Says(s, "success")
  /\ UNCHANGED <<page, sheet, typed, offered, loading, clients, chan, lapse>>

\* The button of the account page; flag is the one the handler sets.
Clicks(s, op, flag, at) ==
  /\ page = "account" /\ online
  /\ Starts(s, op, at)
  /\ loading' = [loading EXCEPT ![flag] = TRUE]
  /\ UNCHANGED <<page, sheet, status, typed, clients, kept>>
  /\ Memoised({})

\* Without a stored channel the handlers give up at once.
CloseClick(s) ==
  /\ offered["close"] /\ stored # None
  /\ Clicks(s, "close", "close", "asked")

ResizeClick(s) ==
  /\ offered["resize"] /\ stored # None
  /\ Clicks(s, "resize", "close", "asked")

ChallengeClick(s) ==
  /\ offered["challenge"] /\ stored # None /\ clientChain # None
  /\ Clicks(s, "challenge", "challenge", "sent")

WithdrawClick(s) ==
  /\ ~loading["withdrawal"] /\ clientChain # None
  /\ Clicks(s, "withdrawal", "withdrawal", "sent")

RefreshClick(s) ==
  /\ page = "account" /\ ~loading["refresh"]
  /\ Starts(s, "refresh", "refresh")
  /\ loading' = [loading EXCEPT !["refresh"] = TRUE]
  /\ UNCHANGED <<page, sheet, status, typed, offered, clients, kept>>

\* The broker's state for a close or a resize, sent with the client of now.
Signed(s) ==
  /\ Alive(s) /\ calls[s].at = "asked" /\ online /\ clientChain # None
  /\ calls' = [calls EXCEPT ![s].at = "sent", ![s].chain = clientChain]
  /\ UNCHANGED <<shown, clients, kept>>

\* clearStoredChannel, whatever is stored by now.
Closed(s) ==
  /\ Alive(s) /\ calls[s].op = "close" /\ calls[s].at = "mined"
  /\ stored' = None /\ setChannelOpen(FALSE)
  /\ Refreshes(s)
  /\ UNCHANGED <<shown, clients, chan, lapse>>

Done(s) ==
  /\ Alive(s) /\ calls[s].op \in {"resize", "challenge", "withdrawal"}
  /\ calls[s].at = "mined"
  /\ Refreshes(s)
  /\ UNCHANGED <<shown, clients, kept>>

FlagOf(op) == IF op = "resize" THEN "close" ELSE op

\* finally: the flag is cleared, also under another call that set it.
Unflags(s) ==
  /\ loading' = IF InView(s) /\ calls[s].op \notin {"deposit", "create"}
                  THEN [loading EXCEPT ![FlagOf(calls[s].op)] = FALSE] ELSE loading
  /\ Memoised({})

\* Both answers of the refresh; their failures are swallowed.
Refreshed(s) ==
  /\ Alive(s) /\ calls[s].at = "refresh"
  /\ UNCHANGED <<page, sheet, status, typed, clients, kept>>
  /\ Ends(s) /\ Unflags(s)

\* Mutant: a deposit that fails leaves the spinner.
Fails_Silently(s) ==
  /\ Alive(s) /\ calls[s].at \in {"asked", "sent", "mined"}
  /\ UNCHANGED <<page, sheet, typed, clients, stored, chan>>
  /\ Ends(s) /\ Unflags(s)
  /\ Says(s, IF calls[s].op = "create" THEN "success" ELSE status)
  /\ channelOpen' \in CASE calls[s].op = "create" -> {FALSE}
                        [] calls[s].op = "close" /\ calls[s].at # "asked" -> {FALSE}
                        [] calls[s].op = "close" -> {FALSE, channelOpen}
                        [] OTHER -> {channelOpen}
  /\ lapse' = (lapse \/ (calls[s].op \in {"create", "close"} /\ calls[s].at = "mined"))

\* A refusal of the broker, of the user or of the contract, or a lost answer.
\* A channel that could not be created is a success all the same.  The broker
\* may also answer with a state that handleCloseChannel trips over.
Fails(s) ==
  /\ Alive(s) /\ calls[s].at \in {"asked", "sent", "mined"}
  /\ UNCHANGED <<page, sheet, typed, clients, stored, chan>>
  /\ Ends(s) /\ Unflags(s)
  /\ Says(s, CASE calls[s].op = "create" -> "success"
               [] calls[s].op = "deposit" -> "idle"
               [] OTHER -> status)
  /\ channelOpen' \in CASE calls[s].op = "create" -> {FALSE}
                        [] calls[s].op = "close" /\ calls[s].at # "asked" -> {FALSE}
                        [] calls[s].op = "close" -> {FALSE, channelOpen}
                        [] OTHER -> {channelOpen}
  /\ lapse' = (lapse \/ (calls[s].op \in {"create", "close"} /\ calls[s].at = "mined"))

-----------------------------------------------------------------------------
(* The contract of the network a transaction was sent to.                  *)

There(s) ==
  calls[s].at = "sent" /\ chan[calls[s].id].chain = calls[s].chain

\* A transaction is mined.  Nobody waits for that of a lost page.
Mined(s, id) ==
  /\ calls[s].at = "sent"
  /\ calls' = [calls EXCEPT ![s] =
                 IF Alive(s) THEN [@ EXCEPT !.at = "mined", !.id = id, !.chain = None] ELSE Idle]
  /\ UNCHANGED <<shown, clients, stored, channelOpen, lapse>>

PlainMined(s) ==
  /\ calls[s].op \in {"deposit", "withdrawal"}
  /\ Mined(s, calls[s].id) /\ UNCHANGED chan

\* The ids of channels are taken in a fixed order: one is as good as another.
Unused == {c \in Channels : chan[c].is = "none"}

CreateMined(s) ==
  /\ calls[s].op = "create"
  /\ Unused # {}
  /\ LET c == CHOOSE c \in Unused : TRUE
     IN  /\ chan' = [chan EXCEPT ![c] = [is |-> "open", chain |-> calls[s].chain]]
         /\ Mined(s, c)

CloseMined(s) ==
  /\ calls[s].op = "close" /\ There(s)
  /\ chan[calls[s].id].is \in {"open", "challenged"}
  /\ chan' = [chan EXCEPT ![calls[s].id].is = "closed"]
  /\ Mined(s, calls[s].id)

ResizeMined(s) ==
  /\ calls[s].op = "resize" /\ There(s)
  /\ chan[calls[s].id].is = "open" /\ UNCHANGED chan
  /\ Mined(s, calls[s].id)

ChallengeMined(s) ==
  /\ calls[s].op = "challenge" /\ There(s)
  /\ chan[calls[s].id].is = "open"
  /\ chan' = [chan EXCEPT ![calls[s].id].is = "challenged"]
  /\ Mined(s, calls[s].id)

\* A transaction that outlived its page is refused.
Dropped(s) ==
  /\ calls[s].life = "lost" /\ Ends(s)
  /\ UNCHANGED <<shown, clients, kept>>

-----------------------------------------------------------------------------
Page ==
  \/ ReloadPage \/ OpenSheet \/ CloseSheet \/ SuccessTimer \/ TypeAmount \/ SumReset
  \/ GoesOnline \/ GoesOffline
  \/ \E p \in {"home", "account"} : Visit(p)
  \/ \E c \in Chains : NewClient(c)

Contract(s) ==
  \/ PlainMined(s) \/ CreateMined(s) \/ CloseMined(s) \/ ResizeMined(s)
  \/ ChallengeMined(s) \/ Dropped(s)

Click(s) ==
  \/ DepositClick(s) \/ CloseClick(s) \/ ResizeClick(s) \/ ChallengeClick(s)
  \/ WithdrawClick(s) \/ RefreshClick(s)

GoesOn(s) ==
  \/ Deposited(s) \/ Created(s) \/ Signed(s) \/ Closed(s) \/ Done(s)
  \/ Refreshed(s) \/ Fails(s)

FundingNext ==
  \/ /\ started < MaxCalls /\ started' = started + 1
     /\ \E s \in Slots : Click(s)
  \/ /\ UNCHANGED started
     /\ Page \/ \E s \in Slots : GoesOn(s) \/ Contract(s)

FundingSpec == FundingInit /\ [][FundingNext]_fundingVars

-----------------------------------------------------------------------------
(* Properties.                                                             *)

\* The answer of a transaction is on its way to a handler.
Told(op, c) ==
  \E s \in Slots : /\ Alive(s) /\ calls[s].op = op
                   /\ calls[s].at = "mined" /\ calls[s].id = c

\* The storage knows the user's channel: as long as creations do not overlap
\* and no answer is lost, a channel that is open is the stored one, or the
\* handler is about to store it, and a stored one is open, or the handler is
\* about to forget it.  No channel is forgotten by a close that comes late.
StorageFollowsChain ==
  ~lapse =>
    /\ \A c \in Channels :
         chan[c].is \in {"open", "challenged"} => stored = c \/ Told("create", c)
    /\ stored # None =>
         \/ chan[stored].is \in {"open", "challenged"} \/ Told("close", stored)

\* What turns has something behind it: "Processing" a deposit of this sheet
\* that goes on, "Closing..." and the others a call of their handler.
SpinnersTurn ==
  /\ status = "processing" =>
       \E s \in Slots : InView(s) /\ calls[s].op \in {"deposit", "create"}
  /\ \A f \in Flags : loading[f] =>
       \E s \in Slots : InView(s) /\ FlagOf(calls[s].op) = f
=============================================================================

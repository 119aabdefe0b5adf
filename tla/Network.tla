------------------------------ MODULE Network ------------------------------
(***************************************************************************)
(* The wallet and the network the client works with: who is connected,     *)
(* which network the settings name, and what is fetched for the account    *)
(* on that network, the list of assets and the balances of the deposit     *)
(* sheet.                                                                  *)
(*                                                                         *)
(* The network can be changed by the sheet when it opens, by the selector, *)
(* by the wallet and by the answer to an older request to the wallet.      *)
(* Nothing that was asked before is cancelled, and answers are applied in  *)
(* whatever order they come.  What effects and subscriptions do about a    *)
(* change is part of the step that makes it.                               *)
(*                                                                         *)
(* The wallet and Privy are external.  WalletStore.chainId and the error   *)
(* texts, which nothing on a page reads, are left out; a build without     *)
(* Privy has nobody log in to it.                                          *)
(***************************************************************************)
EXTENDS Integers, Sequences, SequencesExt

CONSTANTS
  Chains,       \* networks of the application
  Polygon,      \* the one the deposit sheet chooses
  Foreign,      \* networks of the wallet the application does not know
  Accounts,     \* accounts of the wallet
  Builds,       \* NEXT_PUBLIC_ENABLE_PRIVY
  None,         \* no account, no network, no assets
  MaxAsked,     \* bound on the questions of a kind that wait
  MaxChanges    \* bound on what user, wallet and Privy do

ASSUME NetworkAssumption ==
  /\ Polygon \in Chains /\ Chains \cap Foreign = {}
  /\ None \notin Chains \cup Foreign \cup Accounts
  /\ None \notin [who : Accounts, chain : Chains, tokens : Chains \cup {None}]
  /\ Builds \subseteq {"privy", "metamask"}
  /\ MaxAsked \in Nat \ {0} /\ MaxChanges \in Nat

VARIABLES
  build, named,     \* how it is built, whether Privy's wallet names its
                    \* network the way the list of networks does
  page, sheet,      \* the page shown, AppStore.isDepositOpen
  authenticated,    \* Privy is ready and has a session
  address, provider,\* WalletStore
  saved,            \* wallet_connection of the storage
  wallet,           \* the wallet: its account, if it is shown, and network
  calls,            \* what the wallet was asked, oldest first
  activeChain,      \* SettingsStore, and the storage
  prevChain,        \* prevActiveChain of AssetsStore
  assets,           \* the network whose assets are listed
  balances,         \* what the balances shown were fetched for
  asked,            \* answers that are awaited, oldest first
  loading,          \* the flags of AssetsStore
  newest,           \* whether the newest question about balances has been
                    \* answered, and its answer stands (history)
  changes           \* counts what user, wallet and Privy do

vars == <<build, named, page, sheet, authenticated, address, provider, saved,
          wallet, calls, activeChain, prevChain, assets, balances, asked,
          loading, newest, changes>>

Kinds == {"assets", "balances"}
Queries == [who : Accounts, chain : Chains, tokens : Chains \cup {None}]
Calls == [op : {"connect", "reconnect", "switch", "privy"},
          chain : Chains, who : Accounts \cup {None}, granted : BOOLEAN]

TypeOK ==
  /\ build \in Builds /\ named \in BOOLEAN
  /\ page \in {"home", "account"} /\ sheet \in BOOLEAN
  /\ authenticated \in BOOLEAN
  /\ address \in Accounts \cup {None}
  /\ provider \in {"privy", "metamask", "none"}
  /\ saved \in BOOLEAN
  /\ wallet \in [shows : Accounts \cup {None}, chain : Chains \cup Foreign]
  /\ calls \in Seq(Calls)
  /\ {activeChain, prevChain} \subseteq Chains
  /\ assets \in Chains \cup {None}
  /\ balances \in Queries \cup {None}
  /\ asked \in [assets : Seq(Chains), balances : Seq(Queries)]
  /\ loading \in [assets : BOOLEAN, balances : BOOLEAN]
  /\ newest \in {"asked", "shown", "lost"}
  /\ changes \in 0..MaxChanges

Connected == address # None

\* The header has its button only then, and the wallet's events a listener.
ButtonShown == ~Connected \/ page = "account"
Listening == build = "metamask" /\ ButtonShown
-----------------------------------------------------------------------------
(* What effects and subscriptions do about a change of the stores.         *)

\* The deposit sheet's effect, with its list of dependencies.
SheetBalances(again) ==
  IF /\ sheet' /\ address' # None
     /\ \/ again
        \/ <<sheet, address, activeChain>> # <<sheet', address', activeChain'>>
    THEN <<[who |-> address', chain |-> activeChain', tokens |-> assets']>>
    ELSE <<>>

\* The subscription of AssetsStore acts on two grounds; on the first it does
\* not note the network it asks for.
FirstList == activeChain' # activeChain /\ assets = None
NewList == activeChain' # activeChain /\ assets # None /\ activeChain' # prevChain

Call(op, c) == <<[op |-> op, chain |-> c, who |-> address, granted |-> FALSE]>>

\* useMetaMask, when it is mounted and when what it depends on changes.
Reconnects(mounted) ==
  IF /\ build = "metamask" /\ saved' /\ address' = None
     /\ mounted \/ activeChain' # activeChain \/ address # None
    THEN Call("reconnect", activeChain')
    ELSE <<>>

Noted(old, more) == IF more = <<>> THEN old ELSE "asked"

\* A change of the stores, with what the code that makes it asks for itself:
\* assets, balances, answers of the wallet.
Effects(moreAssets, moreBalances, waiting, mounted) ==
  LET sheetAsks == SheetBalances(mounted)
      as == moreAssets \o (IF FirstList \/ NewList THEN <<activeChain'>> ELSE <<>>)
      bs == moreBalances \o sheetAsks
  IN /\ UNCHANGED <<build, named, assets>>
     /\ prevChain' = IF NewList THEN activeChain' ELSE prevChain
     /\ balances' = IF NewList THEN None ELSE balances
     /\ asked' = [assets |-> asked.assets \o as,
                  balances |-> asked.balances \o bs]
     /\ newest' = Noted(newest, bs)
     /\ loading' = [assets |-> loading.assets \/ as # <<>>,
                    balances |-> \/ sheetAsks # <<>>
                                 \/ ~NewList /\ (loading.balances \/ bs # <<>>)]
     /\ calls' = waiting \o Reconnects(mounted)
     /\ \A k \in Kinds : Len(asked'[k]) <= MaxAsked
     /\ Len(calls') <= MaxAsked

\* WalletStore.connect and disconnect.
Connects(a) == address' = a /\ provider' = build
Disconnects == address' = None /\ provider' = "none"
SameWallet == UNCHANGED <<address, provider>>

-----------------------------------------------------------------------------
(* The page.                                                               *)

Init ==
  /\ build \in Builds /\ named \in {FALSE, build = "privy"}
  /\ page = "home" /\ sheet = FALSE
  /\ authenticated = FALSE
  /\ address = None /\ provider = "none" /\ saved = FALSE
  /\ wallet = [shows |-> None, chain |-> Polygon]
  /\ calls = <<>>
  /\ activeChain \in Chains /\ prevChain = activeChain
  /\ assets = None /\ balances = None
  /\ asked = [assets |-> <<activeChain>>, balances |-> <<>>]
  /\ loading = [assets |-> TRUE, balances |-> FALSE]
  /\ newest = "lost" /\ changes = 0

\* The storage stays, and Privy's session, which it finds again at "Login".
Reload ==
  /\ sheet' = FALSE /\ authenticated' = FALSE
  /\ address' = None /\ provider' = "none"
  /\ prevChain' = activeChain
  /\ assets' = None /\ balances' = None
  /\ asked' = [assets |-> <<activeChain>>, balances |-> <<>>]
  /\ loading' = [assets |-> TRUE, balances |-> FALSE]
  /\ newest' = "lost"
  /\ UNCHANGED <<build, named, page, saved, wallet, activeChain>>
  /\ calls' = Reconnects(TRUE)

SheetChain == IF sheet' THEN Polygon ELSE activeChain

\* Mutant: the account page does not look at the session.
Visit_KeepsWallet(p) ==
  /\ p # page /\ page' = p /\ SameWallet
  /\ UNCHANGED <<sheet, authenticated, saved, wallet>>
  /\ activeChain' = SheetChain
  /\ Effects(IF sheet THEN <<Polygon, Polygon>> ELSE <<activeChain>>,
             <<>>, calls, TRUE)

\* The pages list the assets again, and an open sheet starts anew.
Visit(p) ==
  /\ p # page /\ page' = p
  /\ IF build = "privy" /\ p = "account" /\ ~authenticated
       THEN Disconnects
       ELSE SameWallet
  /\ UNCHANGED <<sheet, authenticated, saved, wallet>>
  /\ activeChain' = SheetChain
  /\ Effects(IF sheet THEN <<Polygon, Polygon>> ELSE <<activeChain>>,
             <<>>, calls, TRUE)

\* With an address the card opens the sheet.  Its effect on the balances
\* first runs for the network that was chosen before.
OpenSheet ==
  /\ page = "home" /\ Connected /\ ~sheet /\ sheet' = TRUE
  /\ UNCHANGED <<page, authenticated, address, provider, saved, wallet>>
  /\ activeChain' = SheetChain
  /\ Effects(<<Polygon>>,
             IF activeChain = Polygon THEN <<>>
               ELSE <<[who |-> address, chain |-> activeChain, tokens |-> assets]>>,
             calls, FALSE)

CloseSheet ==
  /\ sheet /\ sheet' = FALSE
  /\ UNCHANGED <<build, named, page, authenticated, address, provider, saved,
                 wallet, calls, activeChain, prevChain, assets, balances,
                 asked, loading, newest>>

\* The settings first, then the wallet.
SelectChain(c) ==
  /\ sheet /\ activeChain' = c
  /\ UNCHANGED <<page, sheet, authenticated, address, provider, saved, wallet>>
  /\ Effects(<<>>, <<>>,
             calls \o CASE provider = "metamask" -> Call("switch", c)
                        [] provider = "privy" /\ authenticated -> Call("privy", c)
                        [] OTHER -> <<>>,
             FALSE)

-----------------------------------------------------------------------------
(* Privy.                                                                  *)

\* A session is found, or the user logs in.
Login(a) ==
  /\ build = "privy" /\ ~authenticated /\ ButtonShown
  /\ authenticated' = TRUE
  /\ wallet' = [wallet EXCEPT !.shows = a]
  /\ Connects(a)
  /\ activeChain' = IF named /\ wallet.chain \in Chains THEN wallet.chain ELSE activeChain
  /\ UNCHANGED <<page, sheet, saved>>
  /\ Effects(<<>>, <<[who |-> a, chain |-> activeChain, tokens |-> assets]>>,
             calls, FALSE)

\* Only the header's button notices.
SessionEnds ==
  /\ authenticated /\ authenticated' = FALSE
  /\ wallet' = [wallet EXCEPT !.shows = None]
  /\ IF ButtonShown THEN Disconnects ELSE SameWallet
  /\ UNCHANGED <<page, sheet, saved, activeChain>>
  /\ Effects(<<>>, <<>>, calls, FALSE)

-----------------------------------------------------------------------------
(* MetaMask.                                                               *)

ConnectClick ==
  /\ build = "metamask" /\ ~Connected
  /\ UNCHANGED <<page, sheet, authenticated, address, provider, saved, wallet, activeChain>>
  /\ Effects(<<>>, <<>>, calls \o Call("connect", activeChain), FALSE)

DisconnectClick ==
  /\ build = "metamask" /\ page = "account" /\ Connected
  /\ Disconnects /\ saved' = FALSE
  /\ UNCHANGED <<page, sheet, authenticated, wallet, activeChain>>
  /\ Effects(<<>>, <<>>, calls, FALSE)

\* accountsChanged
WalletShows(a) ==
  /\ build = "metamask" /\ a # wallet.shows
  /\ wallet' = [wallet EXCEPT !.shows = a]
  /\ CASE ~Listening -> SameWallet /\ UNCHANGED saved
       [] Listening /\ a = None -> Disconnects /\ saved' = FALSE
       [] OTHER -> Connects(a) /\ saved' = (saved \/ a # address)
  /\ UNCHANGED <<page, sheet, authenticated, activeChain>>
  /\ Effects(<<>>, <<>>, calls, FALSE)

\* Mutant: any network is followed.
FollowedChain_Any(c) == IF Listening THEN c ELSE activeChain

\* chainChanged, WalletStore.setChainId: a network the application does not
\* know leaves the settings alone.
FollowedChain(c) == IF Listening /\ c \in Chains THEN c ELSE activeChain

WalletMoves(c) ==
  /\ c # wallet.chain
  /\ wallet' = [wallet EXCEPT !.chain = c]
  /\ activeChain' = FollowedChain(c)
  /\ UNCHANGED <<page, sheet, authenticated, address, provider, saved>>
  /\ Effects(<<>>, <<>>, calls, FALSE)

\* connect and reconnectWallet, when the wallet has shown an account.  The two
\* questions they put to it one after the other, for the accounts and for the
\* network, are one here: what is compared is the network of the later answer.
Shown(i) ==
  LET call == calls[i]
      switch == IF call.chain = wallet.chain THEN <<>> ELSE Call("switch", call.chain)
  IN /\ call.op \in {"connect", "reconnect"}
     /\ \E a \in Accounts :
          /\ call.op = "reconnect" \/ wallet.shows # None => wallet.shows = a
          /\ wallet' = [wallet EXCEPT !.shows = a]
          /\ Connects(a)
     /\ saved' = (saved \/ call.op = "connect")
     /\ UNCHANGED <<page, sheet, authenticated, activeChain>>
     /\ Effects(<<>>, <<>>, RemoveAt(calls, i) \o switch, FALSE)

\* The wallet moves; the page hears of it before its request is answered.
Granted(i) ==
  LET call == calls[i]
  IN /\ call.op \in {"switch", "privy"}
     /\ \A j \in DOMAIN calls : ~calls[j].granted
     /\ wallet' = [wallet EXCEPT !.chain = call.chain]
     /\ activeChain' = FollowedChain(call.chain)
     /\ UNCHANGED <<page, sheet, authenticated, address, provider, saved>>
     /\ Effects(<<>>, <<>>, [calls EXCEPT ![i].granted = TRUE], FALSE)

\* What waited for the wallet goes on: the settings become what was asked
\* for, whatever was chosen since.
Switched(i) ==
  LET call == calls[i]
  IN /\ call.granted
     /\ activeChain' = call.chain
     /\ UNCHANGED <<page, sheet, authenticated, address, provider, saved, wallet>>
     /\ Effects(<<>>,
                IF call.op = "privy" /\ call.who # None
                  THEN <<[who |-> call.who, chain |-> call.chain, tokens |-> assets]>>
                  ELSE <<>>,
                RemoveAt(calls, i), FALSE)

\* The wallet, or its owner, does not.
Refused(i) ==
  /\ ~calls[i].granted /\ calls' = RemoveAt(calls, i)
  /\ UNCHANGED <<build, named, page, sheet, authenticated, address, provider,
                 saved, wallet, activeChain, prevChain, assets, balances,
                 asked, loading, newest>>

-----------------------------------------------------------------------------
(* Answers.  None is dropped for being late.                               *)

SameNetwork == UNCHANGED <<build, named, page, sheet, authenticated, address,
                           provider, saved, wallet, calls, activeChain, prevChain>>

\* Mutant: the sheet does not depend on the assets.
AssetsAnswered_Alone(i, ok) ==
  /\ SameNetwork /\ UNCHANGED <<balances, newest>>
  /\ assets' = IF ok THEN asked.assets[i] ELSE None
  /\ asked' = [asked EXCEPT !.assets = RemoveAt(@, i)]
  /\ loading' = [loading EXCEPT !.assets = FALSE]

\* fetchAssets: a failure is an empty list.  The sheet then asks for balances.
AssetsAnswered(i, ok) ==
  /\ SameNetwork /\ UNCHANGED balances
  /\ assets' = IF ok THEN asked.assets[i] ELSE None
  /\ LET bs == SheetBalances(TRUE)
     IN /\ asked' = [asked EXCEPT !.assets = RemoveAt(@, i), !.balances = @ \o bs]
        /\ Len(asked'.balances) <= MaxAsked
        /\ newest' = Noted(newest, bs)
        /\ loading' = [assets |-> FALSE, balances |-> loading.balances \/ bs # <<>>]

\* fetchBalances: a failure leaves what is shown.
BalancesAnswered(i, ok) ==
  LET query == asked.balances[i]
  IN /\ SameNetwork /\ UNCHANGED assets
     /\ balances' = CASE ~ok -> balances
                      [] ok /\ query.tokens = None -> None
                      [] OTHER -> query
     /\ loading' = [loading EXCEPT !.balances = FALSE]
     /\ asked' = [asked EXCEPT !.balances = RemoveAt(@, i)]
     /\ newest' = CASE newest = "asked" /\ i < Len(asked.balances) -> "asked"
                    [] newest = "asked" /\ i = Len(asked.balances)
                         -> IF ok THEN "shown" ELSE "lost"
                    [] OTHER -> IF ok THEN "lost" ELSE newest

-----------------------------------------------------------------------------
Changes ==
  \/ OpenSheet \/ SessionEnds \/ ConnectClick \/ DisconnectClick
  \/ \E p \in {"home", "account"} : Visit(p)
  \/ \E c \in Chains : SelectChain(c)
  \/ \E a \in Accounts : Login(a)
  \/ \E a \in Accounts \cup {None} : WalletShows(a)
  \/ \E c \in Chains \cup Foreign : WalletMoves(c)

Answers ==
  \/ Reload \/ CloseSheet
  \/ \E i \in DOMAIN calls : Shown(i) \/ Granted(i) \/ Switched(i) \/ Refused(i)
  \/ \E ok \in BOOLEAN :
       \/ \E i \in DOMAIN asked.assets : AssetsAnswered(i, ok)
       \/ \E i \in DOMAIN asked.balances : BalancesAnswered(i, ok)

Next ==
  \/ changes < MaxChanges /\ Changes /\ changes' = changes + 1
  \/ Answers /\ UNCHANGED changes

Spec == Init /\ [][Next]_vars

-----------------------------------------------------------------------------
(* Properties.                                                             *)

\* A flag that says "loading" has a question behind it that will clear it.
LoadingTracked ==
  /\ loading.assets => asked.assets # <<>>
  /\ loading.balances => asked.balances # <<>>

\* The open sheet settles: once the newest of its questions was answered,
\* and no older answer came after it, the balances shown are those of the
\* connected account, on the network chosen, for the assets listed, however
\* account, network and list changed meanwhile.  (Under Privy they may be
\* another account's: switchNetwork asks for the account it was called under.)
NewestShown ==
  newest = "shown" /\ sheet /\ Connected =>
    IF assets = None
      THEN balances = None
      ELSE /\ balances # None
           /\ balances.chain = activeChain /\ balances.tokens = assets
           /\ provider = "metamask" => balances.who = address

\* What the sheet shows settles: it does not load for ever, and shows the
\* answer to the newest question.
BalancesSettle == LoadingTracked /\ NewestShown

\* The account page never shows an account Privy has logged out, although
\* other pages go on showing it.
AccountKnowsLogout ==
  build = "privy" /\ page = "account" /\ Connected => authenticated
=============================================================================

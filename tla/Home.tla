-------------------------------- MODULE Home --------------------------------
(***************************************************************************)
(* The pages of the client and what the home page asks the broker for: the *)
(* balances, every ten seconds, and the channels, once.                    *)
(*                                                                         *)
(* The stores stay when another page is shown.  Effects run in the step    *)
(* that changes what they depend on.  Wallet and connection come and go    *)
(* (modules Network and WsClient), a signer comes before a connection.     *)
(* Header and sidebar are left out but for where they lead: the header to  *)
(* the account, the logo of one of them home, all links to other sites.    *)
(***************************************************************************)
EXTENDS Naturals, PageConstants

CONSTANTS
  Signers,      \* signers: a bound
  MaxAsked      \* requests of one kind that wait for an answer: a bound

\* What the constants are: an assumption of MCViews.
HomeAssumption == None \notin Signers /\ MaxAsked \in Nat

VARIABLES
  pathname,     \* the page shown
  connected,    \* WalletStore: connected, and its address
  signer,       \* NitroliteStore
  isConnected,  \* the connection to the broker
  intervals,    \* the signers for which the home page polls
  asked,        \* requests that wait for an answer
  account,      \* NitroliteStore.userAccountFromParticipants is there
  ledgerChannels        \* NitroliteStore.ledgerChannels is not empty

outside == <<connected, signer, isConnected>>
stores == <<account, ledgerChannels>>
homeVars == <<pathname, outside, intervals, asked, stores>>

-----------------------------------------------------------------------------
HomeTypeOK ==
  /\ pathname \in {"/", "/account"}
  /\ connected \in BOOLEAN /\ isConnected \in BOOLEAN
  /\ signer \in Signers \cup {None}
  /\ isConnected => signer # None
  /\ intervals \subseteq Signers \cup {None}
  /\ asked \in [{"balances", "channels"} -> 0 .. MaxAsked]
  /\ account \in BOOLEAN /\ ledgerChannels \in BOOLEAN

HomeInit ==
  /\ pathname \in {"/", "/account"}
  /\ connected = FALSE /\ isConnected = FALSE /\ signer = None
  /\ intervals = {} /\ asked = [what \in {"balances", "channels"} |-> 0]
  /\ account = FALSE /\ ledgerChannels = FALSE

-----------------------------------------------------------------------------
(* The effects of the home page.                                           *)

AtHome == pathname = "/" /\ connected /\ isConnected

\* What the effects depend on: getParticipants and getLedgerChannels are new
\* whenever the signer is.
Changed == <<pathname, outside>>' # <<pathname, outside>>

\* Mutant: the interval is not cleared.
Polls_Leak ==
  intervals' = IF Changed /\ AtHome' THEN intervals \cup {signer'}
               ELSE intervals

\* The interval is cleared, and one set for the signer of now.
Polls ==
  intervals' = CASE ~Changed -> intervals
                 [] Changed /\ AtHome' -> {signer'}
                 [] OTHER -> {}

\* The channels are asked for unless some are known.
AsksChannels ==
  LET asks == Changed /\ AtHome' /\ ~ledgerChannels /\ signer' # None
  IN /\ asks => asked["channels"] < MaxAsked
     /\ asked' = IF asks THEN [asked EXCEPT !["channels"] = @ + 1] ELSE asked

Effects == Polls /\ AsksChannels

WalletChanges ==
  /\ connected' = ~connected
  /\ UNCHANGED <<signer, isConnected, pathname, stores>>
  /\ Effects

SignerComes ==
  /\ \E s \in Signers : signer' = s /\ s # signer
  /\ UNCHANGED <<connected, isConnected, pathname, stores>>
  /\ Effects

ConnectionChanges ==
  /\ signer # None /\ isConnected' = ~isConnected
  /\ UNCHANGED <<connected, signer, pathname, stores>>
  /\ Effects

\* getParticipants.  The interval may outlive its conditions by no step, so
\* that the connection is there; without a signer nothing is asked.
Tick ==
  /\ \E s \in intervals : s # None
  /\ asked["balances"] < MaxAsked
  /\ asked' = [asked EXCEPT !["balances"] = @ + 1]
  /\ UNCHANGED <<pathname, outside, intervals, stores>>

\* An answer names the user's account or not; one of an unknown form and a
\* failure count as an empty list.
BalancesAnswered ==
  /\ asked["balances"] > 0
  /\ asked' = [asked EXCEPT !["balances"] = @ - 1]
  /\ account' \in BOOLEAN
  /\ UNCHANGED <<pathname, outside, intervals, ledgerChannels>>

ChannelsAnswered ==
  /\ asked["channels"] > 0
  /\ asked' = [asked EXCEPT !["channels"] = @ - 1]
  /\ ledgerChannels' \in BOOLEAN
  /\ UNCHANGED <<pathname, outside, intervals, account>>

-----------------------------------------------------------------------------
(* Navigation.                                                             *)

\* Another page, or the same.  The requests under way go on.
Goes(to) ==
  /\ pathname' = to
  /\ UNCHANGED <<outside, stores>> /\ Effects

\* The header's button is a link to the account, or one that connects.
GoAccount == connected /\ pathname # "/account" /\ Goes("/account")

\* The logo of the header, or of the sidebar's overlay.
GoHome == Goes("/")

\* A link that leaves the client, which is loaded anew afterwards.
LeaveSite ==
  /\ pathname' \in {"/", "/account"}
  /\ connected' = FALSE /\ isConnected' = FALSE /\ signer' = None
  /\ intervals' = {} /\ asked' = [what \in DOMAIN asked |-> 0]
  /\ account' = FALSE /\ ledgerChannels' = FALSE

HomeNext ==
  \/ WalletChanges \/ SignerComes \/ ConnectionChanges
  \/ Tick \/ BalancesAnswered \/ ChannelsAnswered
  \/ GoAccount \/ GoHome \/ LeaveSite

HomeSpec == HomeInit /\ [][HomeNext]_homeVars

-----------------------------------------------------------------------------
\* The home page polls for the signer of now while it is connected, and for
\* nothing else: no interval is left behind by a page, a wallet or a
\* connection that is gone.  (client.tsx:59-67)
PollsWhileConnected ==
  intervals = IF AtHome THEN {signer} ELSE {}
=============================================================================

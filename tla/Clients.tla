------------------------------ MODULE Clients ------------------------------
(***************************************************************************)
(* The keys of the browser client and who signs with them: the connection  *)
(* to the broker (WebSocketProvider), the store's signer, which signs the  *)
(* requests, and the Nitrolite client, which NitroliteClientWrapper makes  *)
(* anew for each network chosen and which signs the states.  Four places   *)
(* read the key pair of the browser's storage, and make one if none is     *)
(* there: the provider, the wrapper, the deposit sheet and the Yuzux app.  *)
(*                                                                         *)
(* Reading, making and storing the key pair is one step: nothing else runs *)
(* in the page before it is stored.  A stored text that is no key pair is  *)
(* removed when the page is loaded and counts as none; the wallet answers  *)
(* the wrapper in any order or not at all.  How the connection comes and   *)
(* goes is in module WsClient.                                             *)
(***************************************************************************)
EXTENDS Naturals, Sequences, SequencesExt, PageConstants

CONSTANTS
  Keys,         \* key pairs that can be made: a bound
  MaxInits      \* clients being made at a time: a bound

\* What the constants are: an assumption of MCViews.
ClientsAssumption ==
  /\ None \notin Keys \cup Chains \cup [chain : Chains, key : Keys]
  /\ MaxInits \in Nat \ {0}

VARIABLES
  storedKey,    \* crypto_keypair of the browser's storage
  made,         \* key pairs made so far
  keyPair,      \* WebSocketProvider's keyPair
  currentSigner,\* WebSocketProvider's signer
  stateSigner,  \* NitroliteStore.stateSigner
  socketKey,    \* what the connection's client authenticates with
  socketUp,     \* it is connected
  appOpen,      \* YuzuxApp is mounted
  ready,        \* Privy is ready and shows a wallet
  activeChain,  \* SettingsStore
  inits,        \* clients being made, in order
  client,       \* NitroliteStore.client
  newest        \* history: what became of the newest of inits

provider == <<keyPair, currentSigner, socketKey, socketUp>>
wrapper == <<ready, activeChain, inits, client, newest>>
clientsVars == <<storedKey, made, provider, stateSigner, appOpen, wrapper>>

ClientOf == [chain : Chains, key : Keys]

ClientsTypeOK ==
  /\ storedKey \in made \cup {None} /\ made \subseteq Keys
  /\ {keyPair, currentSigner, stateSigner, socketKey} \subseteq made \cup {None}
  /\ socketUp \in BOOLEAN /\ (socketUp => socketKey # None)
  /\ appOpen \in BOOLEAN /\ ready \in BOOLEAN
  /\ activeChain \in Chains
  /\ inits \in Seq(ClientOf) /\ Len(inits) <= MaxInits
  /\ client \in ClientOf \cup {None}
  /\ newest \in {"asked", "made", "lost"}

-----------------------------------------------------------------------------
(* The key pair.                                                           *)

\* Mutant: whoever needs a key pair makes one.
KeyPairOf_New(k) == k \in Keys \ made /\ made' = made \cup {k} /\ storedKey' = k

\* initializeKeys: the stored key pair, or a random one, which is stored.
KeyPairOf(k) ==
  IF storedKey # None
    THEN k = storedKey /\ UNCHANGED <<storedKey, made>>
    ELSE k \in Keys \ made /\ made' = made \cup {k} /\ storedKey' = k

\* The provider's effects when the page is loaded: a key pair that is stored
\* becomes a signer, a signer a connection.
ClientsInit ==
  /\ storedKey \in Keys \cup {None} /\ made = {storedKey} \ {None}
  /\ keyPair = storedKey /\ currentSigner = storedKey
  /\ stateSigner = storedKey /\ socketKey = storedKey
  /\ socketUp = FALSE /\ appOpen = FALSE /\ ready = FALSE
  /\ activeChain \in Chains
  /\ inits = <<>> /\ client = None /\ newest = "lost"

Reload ==
  /\ keyPair' = storedKey /\ currentSigner' = storedKey
  /\ stateSigner' = storedKey /\ socketKey' = storedKey
  /\ socketUp' = FALSE /\ appOpen' = FALSE /\ ready' = FALSE
  /\ inits' = <<>> /\ client' = None /\ newest' = "lost"
  /\ UNCHANGED <<storedKey, made, activeChain>>

\* The deposit sheet's initializeKeys.  The provider is not told.
Deposit ==
  \E k \in Keys :
    /\ KeyPairOf(k) /\ stateSigner' = k
    /\ UNCHANGED <<provider, appOpen, wrapper>>

-----------------------------------------------------------------------------
(* The connection.                                                         *)

\* YuzuxApp's effect.  Without keys it calls generateKeys, which reads the
\* storage as well, and whose signer starts a connection; with keys it calls
\* connect.
OpenYuzux ==
  /\ ~appOpen /\ appOpen' = TRUE
  /\ IF keyPair = None
       THEN \E k \in Keys :
              /\ KeyPairOf(k)
              /\ keyPair' = k /\ currentSigner' = k /\ socketKey' = k
              /\ stateSigner' = k
       ELSE UNCHANGED <<storedKey, made, keyPair, currentSigner, socketKey,
                        stateSigner>>
  /\ UNCHANGED <<socketUp, wrapper>>

CloseYuzux ==
  /\ appOpen /\ appOpen' = FALSE
  /\ UNCHANGED <<storedKey, made, provider, stateSigner, wrapper>>

SocketChanges ==
  /\ socketKey # None /\ socketUp' = ~socketUp
  /\ UNCHANGED <<storedKey, made, keyPair, currentSigner, stateSigner,
                 socketKey, appOpen, wrapper>>

-----------------------------------------------------------------------------
(* The Nitrolite client.                                                   *)

\* Mutant: the network a client was first made for.
MakesFor_Ready(c) == IF client = None THEN c ELSE client.chain

MakesFor(c) == c

\* The wrapper's effect: the keys at once, then it waits for the wallet.
Makes(c) ==
  \E k \in Keys :
    /\ KeyPairOf(k) /\ stateSigner' = k
    /\ inits' = Append(inits, [chain |-> MakesFor(c), key |-> k])
    /\ Len(inits') <= MaxInits /\ newest' = "asked"

\* Privy is ready, and the wallets come, or come again.
WalletsCome ==
  /\ ready' = TRUE /\ Makes(activeChain)
  /\ UNCHANGED <<provider, appOpen, activeChain, client>>

SelectChain(c) ==
  /\ c # activeChain /\ activeChain' = c
  /\ IF ready
       THEN Makes(c)
       ELSE UNCHANGED <<storedKey, made, stateSigner, inits, newest>>
  /\ UNCHANGED <<provider, appOpen, ready, client>>

\* NitroliteStore.setClient: the last one to be made stays.
ClientMade(i) ==
  /\ client' = inits[i] /\ inits' = RemoveAt(inits, i)
  /\ newest' = CASE newest = "asked" /\ i < Len(inits) -> "asked"
                 [] newest = "asked" /\ i = Len(inits) -> "made"
                 [] OTHER -> "lost"
  /\ UNCHANGED <<storedKey, made, provider, stateSigner, appOpen, ready, activeChain>>

ClientFails(i) ==
  /\ inits' = RemoveAt(inits, i)
  /\ newest' = IF newest = "asked" /\ i = Len(inits) THEN "lost" ELSE newest
  /\ UNCHANGED <<storedKey, made, provider, stateSigner, appOpen, ready,
                 activeChain, client>>

-----------------------------------------------------------------------------
ClientsNext ==
  \/ Reload \/ Deposit \/ OpenYuzux \/ CloseYuzux \/ SocketChanges
  \/ WalletsCome
  \/ \E c \in Chains : SelectChain(c)
  \/ \E i \in DOMAIN inits : ClientMade(i) \/ ClientFails(i)

ClientsSpec == ClientsInit /\ [][ClientsNext]_clientsVars

-----------------------------------------------------------------------------
(* Properties.                                                             *)

\* One identity: the connection, the requests and the states are all signed
\* with the key pair that is stored, whichever of the four places was first
\* to need it and whatever was stored before.  The broker would refuse the
\* requests of one key pair on the connection of another.
OneKey ==
  /\ {keyPair, currentSigner, stateSigner, socketKey} \subseteq {storedKey, None}
  /\ client # None => client.key = storedKey

\* The client settles on the network chosen: once the newest one is made, and
\* no older one was made after it, it is the client of the network in the
\* settings, however often that changed meanwhile.
ClientSettles == newest = "made" => client.chain = activeChain
=============================================================================

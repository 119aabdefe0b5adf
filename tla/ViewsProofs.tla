---------------------------- MODULE ViewsProofs ----------------------------
(***************************************************************************)
(* The parts of the page that share no state: the keys (Clients), the      *)
(* sheet and its camera (Scanner), the pages (Home), what is remembered of *)
(* the conversation with the broker (Messages), and the channels           *)
(* (Funding), for any number of networks, channels and calls that run at a *)
(* time; the sums are those of AmountsProofs.  What a part needs of its    *)
(* constants is a hypothesis of its theorems.                              *)
(*                                                                         *)
(* At the end the page as a whole: its behaviours are those of its parts   *)
(* (PartsMoveAlone).                                                       *)
(***************************************************************************)
EXTENDS Views, AmountsProofs

-----------------------------------------------------------------------------
(* The keys.  Both properties speak of the client that is there, which was *)
(* being made some steps before: Makings says what is true of those.       *)

\* A client being made has the stored key; the newest one, while it is the
\* newest question, is for the network chosen; before Privy shows a wallet
\* nothing is made.
Makings ==
  /\ \A i \in DOMAIN inits : inits[i].key = storedKey
  /\ newest = "asked" =>
       inits # <<>> /\ inits[Len(inits)].chain = activeChain
  /\ newest = "made" => client # None
  /\ ~ready => newest = "lost"

KeysInv == ClientsTypeOK /\ OneKey /\ ClientSettles /\ Makings

\* At first everyone holds his own key.
LEMMA KeysInit ==
  ASSUME ClientsAssumption, ClientsInit
  PROVE  KeysInv
<1>1. ClientsTypeOK
  <2>1. storedKey \in made \cup {None} /\ made \subseteq Keys
    BY DEF ClientsAssumption, ClientsInit
  <2>2. inits \in Seq(ClientOf) /\ Len(inits) <= MaxInits
    BY DEF ClientsAssumption, ClientsInit
  <2>3. socketUp = FALSE /\ appOpen = FALSE /\ ready = FALSE
    BY DEF ClientsInit
  <2> QED
    BY <2>1, <2>2, <2>3 DEF ClientsInit, ClientsTypeOK
<1>2. OneKey /\ ClientSettles /\ Makings
  BY DEF ClientsInit, OneKey, ClientSettles, Makings
<1> QED
  BY <1>1, <1>2 DEF KeysInv

\* Whoever needs the key pair gets the stored one, or stores it; while none is
\* stored nobody signs and nothing is being made.
LEMMA KeyPairOfStores ==
  ASSUME ClientsAssumption, KeysInv, NEW k \in Keys, KeyPairOf(k)
  PROVE  /\ storedKey' = k /\ k \in made' /\ made' \subseteq Keys
         /\ made \subseteq made'
         /\ {keyPair, currentSigner, stateSigner, socketKey} \subseteq {k, None}
         /\ client # None => client.key = k
         /\ \A i \in DOMAIN inits : inits[i].key = k
<1>1. CASE storedKey # None
  <2>1. k = storedKey /\ UNCHANGED <<storedKey, made>>
    BY <1>1 DEF KeyPairOf
  <2> QED
    BY <1>1, <2>1 DEF KeysInv, ClientsTypeOK, OneKey, Makings
<1>2. CASE storedKey = None
  <2>1. storedKey' = k /\ made' = made \cup {k}
    BY <1>2 DEF KeyPairOf
  <2>2. client = None
    BY <1>2 DEF ClientsAssumption, KeysInv, ClientsTypeOK, OneKey, ClientOf
  <2>3. DOMAIN inits = {}
    <3>1. SUFFICES ASSUME NEW i \in DOMAIN inits PROVE FALSE
      OBVIOUS
    <3>2. inits[i] \in ClientOf
      BY DEF KeysInv, ClientsTypeOK
    <3>3. inits[i].key \in Keys /\ inits[i].key = None
      BY <1>2, <3>2 DEF ClientOf, KeysInv, Makings
    <3> QED
      BY <3>3 DEF ClientsAssumption
  <2> QED
    BY <1>2, <2>1, <2>2, <2>3 DEF KeysInv, ClientsTypeOK, OneKey
<1> QED
  BY <1>1, <1>2

\* The wrapper's effect for the network chosen.
LEMMA MakesNewest ==
  ASSUME ClientsAssumption, KeysInv, NEW c \in Chains, Makes(c),
         activeChain' = c, ready' = TRUE,
         UNCHANGED <<provider, appOpen, client>>
  PROVE  KeysInv'
<1>1. PICK k \in Keys :
        /\ KeyPairOf(k) /\ stateSigner' = k
        /\ inits' = Append(inits, [chain |-> c, key |-> k])
        /\ Len(inits') <= MaxInits /\ newest' = "asked"
  BY DEF Makes, MakesFor
<1>2. [chain |-> c, key |-> k] \in ClientOf
  BY DEF ClientOf
<1>3. /\ inits' \in Seq(ClientOf) /\ inits' # <<>>
      /\ Len(inits') = Len(inits) + 1
      /\ \A i \in 1 .. Len(inits) : inits'[i] = inits[i]
      /\ inits'[Len(inits')] = [chain |-> c, key |-> k]
  BY <1>1, <1>2, AppendProperties DEF KeysInv, ClientsTypeOK
<1>4. ClientsTypeOK'
  BY <1>1, <1>3, KeyPairOfStores DEF KeysInv, ClientsTypeOK, provider
<1>5. OneKey'
  BY <1>1, KeyPairOfStores DEF OneKey, provider
<1>6. ClientSettles' /\ Makings'
  <2>1. \A i \in DOMAIN inits' : inits'[i].key = k
    BY <1>1, <1>3, KeyPairOfStores DEF KeysInv, ClientsTypeOK
  <2> QED
    BY <1>1, <1>3, <2>1, KeyPairOfStores DEF ClientSettles, Makings
<1> QED
  BY <1>4, <1>5, <1>6 DEF KeysInv

\* Every step keeps the keys in line.
LEMMA KeysStep ==
  ASSUME ClientsAssumption, KeysInv, [ClientsNext]_clientsVars
  PROVE  KeysInv'
<1> USE DEF provider, wrapper
<1>1. CASE Reload
  <2>1. inits' \in Seq(ClientOf) /\ Len(inits') <= MaxInits /\ DOMAIN inits' = {}
    BY <1>1 DEF Reload, ClientsAssumption
  <2>2. ClientsTypeOK'
    BY <1>1, <2>1 DEF Reload, KeysInv, ClientsTypeOK
  <2>3. OneKey' /\ ClientSettles' /\ Makings'
    BY <1>1, <2>1 DEF Reload, OneKey, ClientSettles, Makings
  <2> QED
    BY <2>2, <2>3 DEF KeysInv
<1>2. CASE Deposit
  <2>1. PICK k \in Keys : KeyPairOf(k) /\ stateSigner' = k
    BY <1>2 DEF Deposit
  <2>2. UNCHANGED <<provider, appOpen, wrapper>>
    BY <1>2 DEF Deposit
  <2> QED
    BY <2>1, <2>2, KeyPairOfStores DEF KeysInv, ClientsTypeOK, OneKey, ClientSettles, Makings
<1>3. CASE OpenYuzux
  <2>1. CASE keyPair # None
    BY <1>3, <2>1 DEF OpenYuzux, KeysInv, ClientsTypeOK, OneKey, ClientSettles, Makings
  <2>2. CASE keyPair = None
    <3>1. PICK k \in Keys : /\ KeyPairOf(k)
                            /\ keyPair' = k /\ currentSigner' = k /\ socketKey' = k
                            /\ stateSigner' = k
      BY <1>3, <2>2 DEF OpenYuzux
    <3>2. appOpen' = TRUE /\ UNCHANGED <<socketUp, wrapper>>
      BY <1>3 DEF OpenYuzux
    <3> QED
      BY <3>1, <3>2, KeyPairOfStores
         DEF ClientsAssumption, KeysInv, ClientsTypeOK, OneKey, ClientSettles, Makings
  <2> QED
    BY <2>1, <2>2
<1>4. CASE CloseYuzux \/ SocketChanges
  <2>1. UNCHANGED <<storedKey, made, keyPair, currentSigner, stateSigner,
                    socketKey, wrapper>>
    BY <1>4 DEF CloseYuzux, SocketChanges
  <2>2. socketUp' \in BOOLEAN /\ (socketUp' => socketKey # None) /\ appOpen' \in BOOLEAN
    <3>1. CASE CloseYuzux
      BY <3>1 DEF CloseYuzux, KeysInv, ClientsTypeOK
    <3>2. CASE SocketChanges
      <4>1. socketKey # None /\ appOpen' \in BOOLEAN
        BY <3>2 DEF SocketChanges, wrapper, KeysInv, ClientsTypeOK
      <4>2. socketUp' \in BOOLEAN
        BY <3>2, Zenon DEF SocketChanges
      <4> QED
        BY <4>1, <4>2
    <3> QED
      BY <1>4, <3>1, <3>2
  <2>3. ClientsTypeOK'
    BY <2>1, <2>2 DEF KeysInv, ClientsTypeOK
  <2>4. OneKey' /\ ClientSettles' /\ Makings'
    BY <2>1 DEF KeysInv, OneKey, ClientSettles, Makings
  <2> QED
    BY <2>3, <2>4 DEF KeysInv
<1>5. CASE WalletsCome
  <2>1. activeChain \in Chains /\ activeChain' = activeChain /\ ready' = TRUE
    BY <1>5 DEF WalletsCome, KeysInv, ClientsTypeOK
  <2>2. Makes(activeChain) /\ UNCHANGED <<provider, appOpen, client>>
    BY <1>5 DEF WalletsCome
  <2> QED
    BY <2>1, <2>2, MakesNewest
<1>6. ASSUME NEW c \in Chains, SelectChain(c)
      PROVE  KeysInv'
  <2>1. CASE ready
    <3>1. ready' = TRUE
      BY <1>6, <2>1 DEF SelectChain, KeysInv, ClientsTypeOK
    <3>2. Makes(c) /\ activeChain' = c /\ UNCHANGED <<provider, appOpen, client>>
      BY <1>6, <2>1 DEF SelectChain
    <3> QED
      BY <3>1, <3>2, MakesNewest
  <2>2. CASE ~ready
    BY <1>6, <2>2 DEF SelectChain, KeysInv, ClientsTypeOK, OneKey, ClientSettles, Makings
  <2> QED
    BY <2>1, <2>2
<1>7. ASSUME NEW i \in DOMAIN inits, ClientMade(i) \/ ClientFails(i)
      PROVE  KeysInv'
  <2>1. i \in 1 .. Len(inits) /\ inits \in Seq(ClientOf)
    BY DEF KeysInv, ClientsTypeOK
  <2>2. /\ inits' \in Seq(ClientOf) /\ Len(inits') = Len(inits) - 1
        /\ \A j \in 1 .. Len(inits) - 1 :
             inits'[j] = IF j < i THEN inits[j] ELSE inits[j + 1]
    BY <1>7, <2>1, RemoveAtProperties DEF ClientMade, ClientFails
  <2>3. UNCHANGED <<storedKey, made, provider, stateSigner, appOpen, ready, activeChain>>
    BY <1>7 DEF ClientMade, ClientFails
  <2>4. inits[i] \in ClientOf /\ inits[i].key = storedKey
    BY <2>1 DEF KeysInv, Makings
  <2>5. client' \in {client, inits[i]}
    BY <1>7 DEF ClientMade, ClientFails
  <2>6. \A j \in DOMAIN inits' : inits'[j].key = storedKey
    BY <2>1, <2>2 DEF KeysInv, Makings
  <2>7. newest' \in {"asked", "made", "lost"}
    BY <1>7 DEF ClientMade, ClientFails, KeysInv, ClientsTypeOK
  <2>8. ClientsTypeOK' /\ OneKey'
    BY <2>1, <2>2, <2>3, <2>4, <2>5, <2>7 DEF ClientsAssumption, KeysInv, ClientsTypeOK, OneKey
  <2>9. ~ready' => newest' = "lost"
    BY <1>7, <2>3 DEF ClientMade, ClientFails, KeysInv, Makings
  <2>10. newest' = "asked" =>
           inits' # <<>> /\ inits'[Len(inits')].chain = activeChain'
    <3> SUFFICES ASSUME newest' = "asked"
                 PROVE  inits' # <<>> /\ inits'[Len(inits')].chain = activeChain'
      OBVIOUS
    <3>1. newest = "asked" /\ i < Len(inits)
      BY <1>7, <2>1 DEF ClientMade, ClientFails
    <3>2. inits'[Len(inits')] = inits[Len(inits)] /\ Len(inits') > 0
      BY <2>1, <2>2, <3>1
    <3> QED
      BY <3>1, <3>2, <2>2, <2>3 DEF KeysInv, Makings
  <2>11. newest' = "made" => client' # None /\ client'.chain = activeChain'
    <3> SUFFICES ASSUME newest' = "made"
                 PROVE  client' # None /\ client'.chain = activeChain'
      OBVIOUS
    <3>1. \/ newest = "asked" /\ i = Len(inits) /\ client' = inits[i]
          \/ newest = "made" /\ client' = client
      BY <1>7, <2>1 DEF ClientMade, ClientFails
    <3>2. inits[i] # None
      BY <2>4 DEF ClientsAssumption, ClientOf
    <3> QED
      BY <3>1, <3>2, <2>3 DEF KeysInv, Makings, ClientSettles
  <2> QED
    <3>1. ClientSettles'
      BY <2>11 DEF ClientSettles
    <3>2. Makings'
      BY <2>3, <2>6, <2>9, <2>10, <2>11 DEF Makings
    <3> QED
      BY <2>8, <3>1, <3>2 DEF KeysInv
<1>8. CASE UNCHANGED clientsVars
  BY <1>8 DEF clientsVars, KeysInv, ClientsTypeOK, OneKey, ClientSettles, Makings
<1> QED
  BY <1>1, <1>2, <1>3, <1>4, <1>5, <1>6, <1>7, <1>8 DEF ClientsNext

\* The invariant of the keys.
LEMMA KeysInductive ==
  ASSUME ClientsAssumption
  PROVE  ClientsSpec => []KeysInv
<1>1. ClientsInit => KeysInv
  BY KeysInit
<1>2. KeysInv /\ [ClientsNext]_clientsVars => KeysInv'
  BY KeysStep
<1> QED
  BY <1>1, <1>2, PTL DEF ClientsSpec

\* One identity: whatever is signed is signed with the stored key pair,
\* whichever of the four places was first to need one.
\* (WebSocketContext.tsx, NitroliteClientWrapper.tsx, Deposit.tsx, YuzuxApp.tsx)
THEOREM OneIdentity ==
  ASSUME ClientsAssumption
  PROVE  ClientsSpec => []OneKey
<1>1. KeysInv => OneKey
  BY DEF KeysInv
<1> QED
  BY <1>1, KeysInductive, PTL

\* Once the newest Nitrolite client was made, and as long as no older one is
\* ready after it, the client is that of the network chosen, however many were
\* being made meanwhile.  An older one that is ready later replaces it: nothing
\* in NitroliteClientWrapper.tsx prevents that.
THEOREM ClientFollowsNetwork ==
  ASSUME ClientsAssumption
  PROVE  ClientsSpec => []ClientSettles
<1>1. KeysInv => ClientSettles
  BY DEF KeysInv
<1> QED
  BY <1>1, KeysInductive, PTL

-----------------------------------------------------------------------------
(* The sheet and its camera.                                               *)

\* Whatever moves has a timer behind it, and the sheet has heard of isOpen.
Driven ==
  /\ animation = "entering" => timers["in"] > 0
  /\ animation = "exiting" => timers["out"] > 0 \/ timers["close"] > 0
  /\ isOpen => animation # "exited"
  /\ ~isOpen => animation \in {"exiting", "exited"}

SheetInv == ScannerTypeOK /\ Driven /\ CameraReleased

Kinds == {"in", "out", "close"}

\* One timer fires and one is set.
LEMMA TimersProperties ==
  ASSUME ScannerTypeOK, ScannerAssumption,
         NEW gone \in Kinds \cup {"none"}, NEW new \in Kinds \cup {"none"},
         gone # "none" => timers[gone] > 0, Timers(gone, new)
  PROVE  /\ timers' \in [Kinds -> 0 .. MaxTimers]
         /\ \A t \in Kinds : t # gone => timers'[t] >= timers[t]
         /\ new \in Kinds /\ new # gone => timers'[new] > 0
<1>1. timers \in [Kinds -> 0 .. MaxTimers] /\ MaxTimers \in Nat
  BY DEF ScannerTypeOK, ScannerAssumption, Kinds
<1>2. /\ timers' = [t \in Kinds |->
           timers[t] - (IF t = gone THEN 1 ELSE 0) + (IF t = new THEN 1 ELSE 0)]
      /\ \A t \in Kinds : timers'[t] <= MaxTimers
  BY <1>1 DEF Timers
<1>3. ASSUME NEW t \in Kinds
      PROVE  /\ timers'[t] \in 0 .. MaxTimers
             /\ t # gone => timers'[t] >= timers[t]
             /\ t = new /\ new # gone => timers'[t] > 0
  <2>1. timers[t] \in 0 .. MaxTimers
    BY <1>1
  <2>2. timers'[t] =
          timers[t] - (IF t = gone THEN 1 ELSE 0) + (IF t = new THEN 1 ELSE 0)
    BY <1>2
  <2>3. timers'[t] <= MaxTimers
    BY <1>2
  <2>4. t = gone => timers[t] > 0
    BY DEF Kinds
  <2>5. CASE t = gone /\ t = new
    BY <1>1, <2>1, <2>2, <2>3, <2>5
  <2>6. CASE t = gone /\ t # new
    <3>1. timers'[t] = timers[t] - 1
      BY <2>1, <2>2, <2>6
    <3> QED
      BY <1>1, <2>1, <2>4, <2>6, <3>1
  <2>7. CASE t # gone /\ t = new
    <3>1. timers'[t] = timers[t] + 1
      BY <2>1, <2>2, <2>7
    <3> QED
      BY <1>1, <2>1, <2>3, <2>7, <3>1
  <2>8. CASE t # gone /\ t # new
    BY <1>1, <2>1, <2>2, <2>8
  <2> QED
    BY <2>5, <2>6, <2>7, <2>8
<1> QED
  BY <1>2, <1>3

\* What the sheet is after its effect has run.
LEMMA ModalDrives ==
  ASSUME SheetInv, ScannerAssumption, isOpen' \in BOOLEAN,
         NEW a \in {"exited", "entering", "entered", "exiting"},
         NEW gone \in Kinds \cup {"none"}, NEW new \in {"none", "close"},
         Modal(a, gone, new),
         gone # "none" => /\ timers[gone] > 0
                      /\ a = IF gone = "in" THEN "entered" ELSE "exited",
         a = "entering" => timers["in"] > 0,
         a = "exiting" => new = "close" \/ timers["out"] > 0 \/ timers["close"] > 0
  PROVE  /\ Driven' /\ timers' \in [Kinds -> 0 .. MaxTimers]
         /\ animation' \in {"exited", "entering", "entered", "exiting"}
<1>1. ScannerTypeOK
  BY DEF SheetInv
<1>2. CASE isOpen' /\ a = "exited" /\ animation' = "entering" /\ Timers(gone, "in")
  <2>1. timers' \in [Kinds -> 0 .. MaxTimers] /\ timers'["in"] > 0
    BY <1>1, <1>2, TimersProperties DEF Kinds
  <2> QED
    BY <1>2, <2>1 DEF Driven
<1>3. CASE /\ ~isOpen' /\ a \in {"entered", "entering"}
           /\ animation' = "exiting" /\ Timers(gone, "out")
  <2>1. timers' \in [Kinds -> 0 .. MaxTimers] /\ timers'["out"] > 0
    BY <1>1, <1>3, TimersProperties DEF Kinds
  <2> QED
    BY <1>3, <2>1 DEF Driven
<1>4. CASE /\ a = "exiting" \/ (isOpen' /\ a # "exited") \/ (~isOpen' /\ a = "exited")
           /\ animation' = a /\ Timers(gone, new)
  <2>1. /\ timers' \in [Kinds -> 0 .. MaxTimers]
        /\ \A t \in Kinds : t # gone => timers'[t] >= timers[t]
        /\ new = "close" /\ gone # "close" => timers'["close"] > 0
    BY <1>1, <1>4, TimersProperties DEF Kinds
  <2>2. timers \in [Kinds -> 0 .. MaxTimers] /\ MaxTimers \in Nat
    BY <1>1 DEF ScannerTypeOK, ScannerAssumption, Kinds
  <2>6. /\ gone # "in" => timers'["in"] >= timers["in"]
        /\ gone # "out" => timers'["out"] >= timers["out"]
        /\ gone # "close" => timers'["close"] >= timers["close"]
        /\ {timers["in"], timers["out"], timers["close"]} \subseteq Nat
        /\ {timers'["in"], timers'["out"], timers'["close"]} \subseteq Nat
    <3>1. \A f \in [Kinds -> 0 .. MaxTimers] :
            f["in"] \in Nat /\ f["out"] \in Nat /\ f["close"] \in Nat
      BY <2>2 DEF Kinds
    <3> QED
      BY <2>1, <2>2, <3>1 DEF Kinds
  <2>3. CASE a = "entering"
    <3>1. timers'["in"] > 0
      BY <2>2, <2>3, <2>6
    <3> QED
      BY <1>4, <2>1, <2>3, <3>1 DEF Driven
  <2>4. CASE a = "exiting"
    <3>1. timers'["out"] > 0 \/ timers'["close"] > 0
      BY <2>1, <2>2, <2>4, <2>6
    <3> QED
      BY <1>4, <2>1, <2>4, <3>1 DEF Driven
  <2>5. CASE a \notin {"entering", "exiting"}
    BY <1>4, <2>1, <2>5 DEF Driven
  <2> QED
    BY <2>3, <2>4, <2>5
<1> QED
  BY <1>2, <1>3, <1>4 DEF Modal

\* A change of what is shown leaves no camera on behind it.
LEMMA CameramanReleases ==
  ASSUME SheetInv, ScannerAssumption, Cameraman, late' = late
  PROVE  /\ CameraReleased'
         /\ mounted' \in Cameras \cup {None}
         /\ camera' \in [Cameras -> {"none", "looking", "asking", "refused",
                                     "starting", "on", "gone"}]
<1>1. /\ mounted \in Cameras \cup {None}
      /\ camera \in [Cameras -> {"none", "looking", "asking", "refused",
                                 "starting", "on", "gone"}]
      /\ \A i \in Cameras : camera[i] = "on" => i = mounted \/ i \in late
  BY DEF SheetInv, ScannerTypeOK, CameraReleased
<1>2. None \notin Cameras
  BY DEF ScannerAssumption
<1>3. CASE mounted = None /\ \E i \in Cameras :
             mounted' = i /\ camera' = [camera EXCEPT ![i] = "looking"]
  BY <1>1, <1>3, <1>2 DEF CameraReleased
<1>4. CASE mounted # None /\ mounted' = None /\ Unmounted(mounted)
  <2>1. /\ camera' \in [Cameras -> {"none", "looking", "asking", "refused",
                                   "starting", "on", "gone"}]
        /\ camera'[mounted] # "on"
        /\ \A i \in Cameras : i # mounted => camera'[i] = camera[i]
    BY <1>1, <1>4 DEF Unmounted
  <2> QED
    BY <1>1, <1>4, <2>1 DEF CameraReleased
<1>5. CASE UNCHANGED <<mounted, camera>>
  BY <1>1, <1>5 DEF CameraReleased
<1> QED
  BY <1>3, <1>4, <1>5 DEF Cameraman

\* A step of the sheet: its effect runs, and what is shown follows.
LEMMA SheetMoves ==
  ASSUME SheetInv, ScannerAssumption, isOpen' \in BOOLEAN,
         NEW a \in {"exited", "entering", "entered", "exiting"},
         NEW gone \in Kinds \cup {"none"}, NEW new \in {"none", "close"},
         Modal(a, gone, new), Cameraman,
         gone # "none" => /\ timers[gone] > 0
                      /\ a = IF gone = "in" THEN "entered" ELSE "exited",
         a = "entering" => timers["in"] > 0,
         a = "exiting" => new = "close" \/ timers["out"] > 0 \/ timers["close"] > 0,
         UNCHANGED <<isMobile, paying, late>>, sent' \in BOOLEAN,
         step' \in {"scan", "manual", "amount", "processing", "success"}
  PROVE  SheetInv'
<1>1. /\ Driven' /\ timers' \in [Kinds -> 0 .. MaxTimers]
      /\ animation' \in {"exited", "entering", "entered", "exiting"}
  BY ModalDrives
<1>2. /\ CameraReleased'
      /\ mounted' \in Cameras \cup {None}
      /\ camera' \in [Cameras -> {"none", "looking", "asking", "refused",
                                  "starting", "on", "gone"}]
  BY CameramanReleases
<1>3. ScannerTypeOK'
  BY <1>1, <1>2 DEF SheetInv, ScannerTypeOK, Kinds
<1> QED
  BY <1>1, <1>2, <1>3 DEF SheetInv

\* A step that leaves the sheet's animation alone.
LEMMA SheetStays ==
  ASSUME SheetInv, ScannerAssumption, Cameraman,
         UNCHANGED <<isOpen, animation, timers, late>>,
         {isMobile, paying, sent}' \subseteq BOOLEAN,
         step' \in {"scan", "manual", "amount", "processing", "success"}
  PROVE  SheetInv'
<1>1. /\ CameraReleased'
      /\ mounted' \in Cameras \cup {None}
      /\ camera' \in [Cameras -> {"none", "looking", "asking", "refused",
                                  "starting", "on", "gone"}]
  BY CameramanReleases
<1>2. ScannerTypeOK'
  BY <1>1 DEF SheetInv, ScannerTypeOK
<1>3. Driven'
  BY DEF SheetInv, Driven
<1> QED
  BY <1>1, <1>2, <1>3 DEF SheetInv

\* At first no sheet is open.
LEMMA SheetInit ==
  ASSUME ScannerAssumption, ScannerInit
  PROVE  SheetInv
<1>1. ScannerTypeOK
  <2>1. timers \in [{"in", "out", "close"} -> 0 .. MaxTimers]
    BY DEF ScannerAssumption, ScannerInit
  <2>2. camera \in [Cameras -> {"none", "looking", "asking", "refused",
                               "starting", "on", "gone"}]
    BY DEF ScannerInit
  <2> QED
    BY <2>1, <2>2 DEF ScannerInit, ScannerTypeOK
<1> QED
  BY <1>1 DEF SheetInv, ScannerInit, Driven, CameraReleased

\* Every step of a sheet keeps its invariant.
LEMMA SheetStep ==
  ASSUME ScannerAssumption, SheetInv, [ScannerNext]_(scannerVars)
  PROVE  SheetInv'
<1>1. ScannerTypeOK /\ Driven /\ CameraReleased
  BY DEF SheetInv
<1>2. /\ {isOpen, isMobile, paying, sent} \subseteq BOOLEAN
      /\ animation \in {"exited", "entering", "entered", "exiting"}
      /\ step \in {"scan", "manual", "amount", "processing", "success"}
      /\ mounted \in Cameras \cup {None} /\ late \subseteq Cameras
      /\ camera \in [Cameras -> {"none", "looking", "asking", "refused",
                                 "starting", "on", "gone"}]
  BY <1>1 DEF ScannerTypeOK
<1>3. CASE UNCHANGED scannerVars
  BY <1>1, <1>3 DEF scannerVars, SheetInv, ScannerTypeOK, Driven, CameraReleased
<1>4. CASE Open
  BY <1>1, <1>2, <1>4, SheetMoves DEF Open, First, Driven, Kinds
<1>5. CASE Leave
  BY <1>1, <1>2, <1>5, SheetMoves DEF Leave, ModalOnly, Kinds
<1>6. CASE EnterTimer
  BY <1>1, <1>2, <1>6, SheetMoves DEF EnterTimer, ModalOnly, Kinds
<1>7. CASE ExitTimer
  BY <1>1, <1>2, <1>7, SheetMoves DEF ExitTimer, ModalOnly, Kinds
<1>8. CASE CloseTimer
  BY <1>1, <1>2, <1>8, SheetMoves DEF CloseTimer, ModalOnly, Kinds
<1>9. CASE SentTimer
  BY <1>1, <1>2, <1>9, SheetMoves DEF SentTimer, First, Driven, Kinds
<1>10. CASE DeviceChanges
  BY <1>2, <1>10, SheetStays DEF DeviceChanges, First
<1>11. CASE Go
  BY <1>2, <1>11, SheetStays DEF Go
<1>12. CASE Pay
  BY <1>2, <1>12, SheetStays DEF Pay
<1>13. CASE Paid
  BY <1>2, <1>13, SheetStays DEF Paid
<1>14. CASE CameraFound \/ PermissionGiven
  <2>1. PICK to \in {"asking", "gone", "starting", "refused"} :
          /\ mounted # None /\ camera' = [camera EXCEPT ![mounted] = to]
          /\ UNCHANGED <<isOpen, animation, timers, isMobile, step, paying, sent,
                         mounted, late>>
    BY <1>14 DEF CameraFound, PermissionGiven
  <2>2. CameraReleased'
    BY <1>1, <1>2, <2>1 DEF CameraReleased
  <2> QED
    BY <1>1, <1>2, <2>1, <2>2 DEF SheetInv, ScannerTypeOK, Driven
<1>15. CASE \E i \in Cameras : Started(i)
  <2>1. PICK i \in Cameras : Started(i)
    BY <1>15
  <2>2. UNCHANGED <<isOpen, animation, timers, isMobile, step, paying, sent, mounted>>
    BY <2>1 DEF Started
  <2>3. CASE /\ camera' = [camera EXCEPT ![i] = "on"]
             /\ late' = IF mounted = i THEN late ELSE late \cup {i}
    <3>1. CameraReleased'
      BY <1>1, <1>2, <2>2, <2>3 DEF CameraReleased
    <3> QED
      BY <1>1, <1>2, <2>2, <2>3, <3>1 DEF SheetInv, ScannerTypeOK, Driven
  <2>4. CASE camera' = [camera EXCEPT ![i] = "gone"] /\ UNCHANGED late
    <3>1. CameraReleased'
      BY <1>1, <1>2, <2>2, <2>4 DEF CameraReleased
    <3> QED
      BY <1>1, <1>2, <2>2, <2>4, <3>1 DEF SheetInv, ScannerTypeOK, Driven
  <2> QED
    BY <2>1, <2>3, <2>4 DEF Started
<1>16. CASE \E i \in Cameras : Scan(i)
  BY <1>2, <1>16, SheetStays DEF Scan
<1> QED
  BY <1>3, <1>4, <1>5, <1>6, <1>7, <1>8, <1>9, <1>10, <1>11, <1>12, <1>13, <1>14,
     <1>15, <1>16 DEF ScannerNext

\* The invariant of the sheets.
LEMMA SheetInductive ==
  ASSUME ScannerAssumption
  PROVE  ScannerSpec => []SheetInv
BY SheetInit, SheetStep, PTL DEF ScannerSpec

\* Once no timer runs the sheet shows what the store says, although nothing
\* cancels a timer and each may fire when another has moved the sheet on
\* (src/frontend/src/components/ui/Modal.tsx).
THEOREM SheetComesToRest ==
  ASSUME ScannerAssumption
  PROVE  ScannerSpec => []SheetSettles
<1>1. SheetInv => SheetSettles
  BY DEF SheetInv, ScannerTypeOK, Driven, SheetSettles
<1> QED
  BY <1>1, SheetInductive, PTL

\* A camera that runs belongs to the scanner on the page, or was still
\* starting when its scanner left (QrScanner.tsx).
THEOREM NoCameraLeftOn ==
  ASSUME ScannerAssumption
  PROVE  ScannerSpec => []CameraReleased
<1>1. SheetInv => CameraReleased
  BY DEF SheetInv
<1> QED
  BY <1>1, SheetInductive, PTL
-----------------------------------------------------------------------------
(* The pages.                                                              *)

PagesInv == HomeTypeOK /\ PollsWhileConnected

\* The effects of the home page leave the interval of now.
LEMMA EffectsPoll ==
  ASSUME HomeAssumption, HomeTypeOK, PollsWhileConnected, Effects
  PROVE  PollsWhileConnected' /\ asked' \in [{"balances", "channels"} -> 0 .. MaxAsked]
<1>1. asked \in [{"balances", "channels"} -> 0 .. MaxAsked]
  BY DEF HomeTypeOK
<1>2. PollsWhileConnected'
  <2>1. CASE ~Changed
    <3>1. UNCHANGED <<pathname, connected, signer, isConnected, intervals>>
      BY <2>1 DEF Changed, outside, Effects, Polls
    <3> QED
      BY <3>1 DEF PollsWhileConnected, AtHome
  <2>2. CASE Changed
    BY <2>2 DEF Effects, Polls, PollsWhileConnected
  <2> QED
    BY <2>1, <2>2
<1>3. asked' \in [{"balances", "channels"} -> 0 .. MaxAsked]
  <2>1. CASE asked' = asked
    BY <1>1, <2>1
  <2>2. CASE asked["channels"] < MaxAsked
             /\ asked' = [asked EXCEPT !["channels"] = asked["channels"] + 1]
    <3>1. asked["channels"] + 1 \in 0 .. MaxAsked
      BY <1>1, <2>2 DEF HomeAssumption
    <3> QED
      BY <1>1, <2>2, <3>1
  <2> QED
    BY <2>1, <2>2 DEF Effects, AsksChannels
<1> QED
  BY <1>2, <1>3

LEMMA PagesInit ==
  ASSUME HomeAssumption, HomeInit
  PROVE  PagesInv
<1>1. asked \in [{"balances", "channels"} -> 0 .. MaxAsked]
  BY DEF HomeInit, HomeAssumption
<1>2. PollsWhileConnected
  BY DEF HomeInit, PollsWhileConnected, AtHome
<1> QED
  BY <1>1, <1>2 DEF PagesInv, HomeTypeOK, HomeInit

\* A step that runs the effects.
LEMMA PagesMove ==
  ASSUME HomeAssumption, PagesInv, Effects,
         {connected, isConnected, account, ledgerChannels}' \subseteq BOOLEAN,
         pathname' \in {"/", "/account"},
         signer' \in Signers \cup {None}, isConnected' => signer' # None
  PROVE  PagesInv'
<1>1. PollsWhileConnected' /\ asked' \in [{"balances", "channels"} -> 0 .. MaxAsked]
  BY EffectsPoll DEF PagesInv
<1>2. intervals' \subseteq Signers \cup {None}
  BY <1>1 DEF PollsWhileConnected
<1> QED
  BY <1>1, <1>2 DEF PagesInv, HomeTypeOK

LEMMA PagesStep ==
  ASSUME HomeAssumption, PagesInv, [HomeNext]_(homeVars)
  PROVE  PagesInv'
<1>1. HomeTypeOK /\ PollsWhileConnected
  BY DEF PagesInv
<1>2. /\ {connected, isConnected, account, ledgerChannels} \subseteq BOOLEAN
      /\ pathname \in {"/", "/account"}
      /\ signer \in Signers \cup {None} /\ (isConnected => signer # None)
      /\ asked \in [{"balances", "channels"} -> 0 .. MaxAsked]
  BY <1>1 DEF HomeTypeOK
<1>3. CASE UNCHANGED homeVars
  BY <1>1, <1>3 DEF homeVars, outside, stores, PagesInv, HomeTypeOK,
                    PollsWhileConnected, AtHome
<1>4. CASE WalletChanges
  <2>1. connected' \in BOOLEAN
    BY <1>4, Zenon DEF WalletChanges
  <2> QED
    BY <1>2, <1>4, <2>1, PagesMove DEF WalletChanges, stores
<1>5. CASE SignerComes
  <2>1. signer' \in Signers /\ signer' # None
    BY <1>5 DEF SignerComes, HomeAssumption
  <2> QED
    BY <1>2, <1>5, <2>1, PagesMove DEF SignerComes, stores
<1>6. CASE ConnectionChanges
  <2>1. isConnected' \in BOOLEAN
    BY <1>6, Zenon DEF ConnectionChanges
  <2> QED
    BY <1>2, <1>6, <2>1, PagesMove DEF ConnectionChanges, stores
<1>7. CASE Tick \/ BalancesAnswered \/ ChannelsAnswered
  <2>1. /\ UNCHANGED <<pathname, connected, signer, isConnected, intervals>>
        /\ {account, ledgerChannels}' \subseteq BOOLEAN
    BY <1>2, <1>7 DEF Tick, BalancesAnswered, ChannelsAnswered, outside,
                      stores
  <2>2. PICK k \in {"balances", "channels"}, d \in 0 .. MaxAsked :
          asked' = [asked EXCEPT ![k] = d]
    <3>1. CASE Tick
      <4>1. asked["balances"] + 1 \in 0 .. MaxAsked
        BY <1>2, <3>1 DEF Tick, HomeAssumption
      <4> QED
        BY <3>1, <4>1 DEF Tick
    <3>2. CASE BalancesAnswered
      <4>1. asked["balances"] - 1 \in 0 .. MaxAsked
        BY <1>2, <3>2 DEF BalancesAnswered, HomeAssumption
      <4> QED
        BY <3>2, <4>1 DEF BalancesAnswered
    <3>3. CASE ChannelsAnswered
      <4>1. asked["channels"] - 1 \in 0 .. MaxAsked
        BY <1>2, <3>3 DEF ChannelsAnswered, HomeAssumption
      <4> QED
        BY <3>3, <4>1 DEF ChannelsAnswered
    <3> QED
      BY <1>7, <3>1, <3>2, <3>3
  <2>3. asked' \in [{"balances", "channels"} -> 0 .. MaxAsked]
    BY <1>2, <2>2
  <2> QED
    BY <1>1, <2>1, <2>3 DEF PagesInv, HomeTypeOK, PollsWhileConnected, AtHome
<1>8. CASE \E place \in {"/", "/account"} : Goes(place)
  <2>1. PICK place \in {"/", "/account"} : Goes(place)
    BY <1>8
  <2>2. /\ pathname' = place /\ Effects
        /\ UNCHANGED <<connected, signer, isConnected, account, ledgerChannels>>
    BY <2>1 DEF Goes, outside, stores
  <2> QED
    BY <1>2, <2>2, PagesMove
<1>9. CASE LeaveSite
  <2>1. /\ pathname' \in {"/", "/account"}
        /\ connected' = FALSE /\ isConnected' = FALSE /\ signer' = None
        /\ intervals' = {} /\ asked' = [what \in DOMAIN asked |-> 0]
        /\ account' = FALSE /\ ledgerChannels' = FALSE
    BY <1>9 DEF LeaveSite
  <2>2. asked' \in [{"balances", "channels"} -> 0 .. MaxAsked]
    BY <1>2, <2>1 DEF HomeAssumption
  <2>3. PollsWhileConnected'
    BY <2>1 DEF PollsWhileConnected, AtHome
  <2> QED
    BY <1>2, <2>1, <2>2, <2>3 DEF PagesInv, HomeTypeOK
<1> QED
  BY <1>3, <1>4, <1>5, <1>6, <1>7, <1>8, <1>9 DEF HomeNext, GoAccount, GoHome

LEMMA PagesInductive ==
  ASSUME HomeAssumption
  PROVE  HomeSpec => []PagesInv
BY PagesInit, PagesStep, PTL DEF HomeSpec

\* The home page polls for the signer of now while wallet and connection are
\* there, and leaves no interval behind (src/frontend/src/app/client.tsx).
THEOREM NoStrayInterval ==
  ASSUME HomeAssumption
  PROVE  HomeSpec => []PollsWhileConnected
<1>1. PagesInv => PollsWhileConnected
  BY DEF PagesInv
<1> QED
  BY <1>1, PagesInductive, PTL

-----------------------------------------------------------------------------
(* The conversation.                                                       *)

ListInv == MessagesTypeOK /\ NewestKept

LEMMA AddKeeps ==
  ASSUME MessagesAssumption, ListInv, Add
  PROVE  /\ messages' \in Seq(1 .. MaxAdded) /\ Len(messages') <= Limit
         /\ added' \in 0 .. MaxAdded /\ NewestKept'
<1> DEFINE n == IF added < Limit THEN added ELSE Limit
           more == Append(messages, added + 1)
<1>1. /\ Limit \in Nat \ {0} /\ MaxAdded \in Nat
      /\ messages \in Seq(1 .. MaxAdded) /\ added \in 0 .. MaxAdded
      /\ messages = [i \in 1 .. n |-> added - n + i]
      /\ added < MaxAdded /\ added' = added + 1 /\ messages' = Cut(more)
  BY DEF MessagesAssumption, ListInv, MessagesTypeOK, NewestKept, Add
<1>2. n \in Nat /\ Len(messages) = n
  BY <1>1
<1>3. \A i \in 1 .. n : messages[i] = added - n + i
  BY <1>1
<1>4. /\ more \in Seq(1 .. MaxAdded) /\ Len(more) = n + 1
      /\ \A i \in 1 .. n : more[i] = added - n + i
      /\ more[n + 1] = added + 1
  BY <1>1, <1>2, <1>3
<1> HIDE DEF more
<1>5. ASSUME NEW i \in 1 .. n + 1
      PROVE  more[i] = added - n + i
  <2>1. CASE i = n + 1
    <3>1. added - n + i = added + 1
      BY <1>1, <1>2, <2>1
    <3> QED
      BY <1>4, <2>1, <3>1
  <2>2. CASE i # n + 1
    <3>1. i \in 1 .. n
      BY <1>2, <2>2
    <3> QED
      BY <1>4, <3>1
  <2> QED
    BY <2>1, <2>2
<1>6. CASE added < Limit
  <2>1. messages' = more
    BY <1>1, <1>2, <1>4, <1>6 DEF Cut
  <2>2. n = added
    BY <1>6
  <2>3. (IF added' < Limit THEN added' ELSE Limit) = added + 1
    BY <1>1, <1>6
  <2>4. \A i \in 1 .. added + 1 : more[i] = added' - (added + 1) + i
    <3>1. \A i \in 1 .. added + 1 : added - added + i = added' - (added + 1) + i
      BY <1>1
    <3> QED
      BY <1>5, <2>2, <3>1
  <2>5. more = [i \in 1 .. added + 1 |-> added' - (added + 1) + i]
    <3>1. DOMAIN more = 1 .. added + 1
      BY <1>4, <2>2
    <3> QED
      BY <1>4, <2>4, <3>1
  <2> QED
    BY <1>1, <1>4, <2>1, <2>2, <2>3, <2>5 DEF NewestKept
<1>7. CASE ~(added < Limit)
  <2> DEFINE rest == SubSeq(more, 2, Limit + 1)
  <2>1. n = Limit
    BY <1>7
  <2>2. messages' = rest
    BY SMTT(30), <1>1, <1>4, <2>1 DEF Cut
  <2>3. /\ rest \in Seq(1 .. MaxAdded) /\ Len(rest) = Limit
        /\ \A i \in 1 .. Limit : rest[i] = more[2 + i - 1]
    <3>1. \A i \in 2 .. Limit + 1 : more[i] \in 1 .. MaxAdded
      <4>1. /\ more \in Seq(1 .. MaxAdded) /\ Len(more) = Limit + 1
            /\ \A i \in 1 .. Limit + 1 : more[i] \in 1 .. MaxAdded
        BY <1>1, <1>4, <2>1
      <4> HIDE DEF more
      <4> QED
        BY <4>1
    <3>2. /\ rest \in Seq(1 .. MaxAdded)
          /\ Len(rest) = IF 2 <= Limit + 1 THEN Limit + 1 - 2 + 1 ELSE 0
          /\ \A i \in 1 .. Limit + 1 - 2 + 1 : rest[i] = more[2 + i - 1]
      BY <1>1, <3>1, SubSeqProperties
    <3> HIDE DEF rest
    <3> QED
      BY <1>1, <3>2
  <2> HIDE DEF rest
  <2>4. ASSUME NEW i \in 1 .. Limit
        PROVE  rest[i] = added' - Limit + i
    <3>1. 2 + i - 1 \in 1 .. n + 1
      BY <1>1, <2>1
    <3>2. added - n + (2 + i - 1) = added' - Limit + i
      BY <1>1, <2>1
    <3> QED
      BY <1>5, <2>3, <3>1, <3>2
  <2>5. rest = [i \in 1 .. Limit |-> added' - Limit + i]
    BY <2>3, <2>4
  <2>6. (IF added' < Limit THEN added' ELSE Limit) = Limit
    BY <1>1, <1>7
  <2> QED
    BY <1>1, <2>2, <2>3, <2>5, <2>6 DEF NewestKept
<1> QED
  BY <1>6, <1>7

LEMMA ListInit ==
  ASSUME MessagesAssumption, MessagesInit
  PROVE  ListInv
<1>1. messages = [i \in 1 .. 0 |-> added - 0 + i]
  BY DEF MessagesInit
<1>2. (IF added < Limit THEN added ELSE Limit) = 0
  BY DEF MessagesInit, MessagesAssumption
<1> QED
  BY <1>1, <1>2 DEF ListInv, MessagesTypeOK, NewestKept, MessagesInit, MessagesAssumption

LEMMA ListStep ==
  ASSUME MessagesAssumption, ListInv, [MessagesNext]_(messagesVars)
  PROVE  ListInv'
<1>1. CASE Add
  BY <1>1, AddKeeps DEF ListInv, MessagesTypeOK
<1>2. CASE UNCHANGED messagesVars
  BY <1>2 DEF messagesVars, ListInv, MessagesTypeOK, NewestKept
<1>3. CASE Clear
  <2>1. messages' = <<>> /\ added' = 0
    BY <1>3 DEF Clear
  <2>2. messages' = [i \in 1 .. 0 |-> added' - 0 + i]
    BY <2>1
  <2>3. (IF added' < Limit THEN added' ELSE Limit) = 0
    BY <2>1 DEF MessagesAssumption
  <2> QED
    BY <2>1, <2>2, <2>3 DEF ListInv, MessagesTypeOK, NewestKept, MessagesAssumption
<1> QED
  BY <1>1, <1>2, <1>3 DEF MessagesNext, Received, Noted

LEMMA ListInductive ==
  ASSUME MessagesAssumption
  PROVE  MessagesSpec => []ListInv
BY ListInit, ListStep, PTL DEF MessagesSpec

\* The list holds the newest messages in their order and without a gap, up to
\* the limit, however often it overflowed or was cleared (MessageService.ts).
THEOREM ConversationRemembered ==
  ASSUME MessagesAssumption
  PROVE  MessagesSpec => []NewestKept
<1>1. ListInv => NewestKept
  BY DEF ListInv
<1> QED
  BY <1>1, ListInductive, PTL

-----------------------------------------------------------------------------
(* The channels.                                                           *)

Ops == {"none", "deposit", "create", "close", "resize", "challenge",
        "withdrawal", "refresh"}
Stages == {"none", "asked", "sent", "mined", "refresh"}
Handlers == [op : Ops, at : Stages, chain : Chains \cup {None},
             id : Channels \cup {None}, seen : BOOLEAN,
             life : {"none", "view", "page", "lost"}]
States == [is : {"none", "open", "challenged", "closed"}, chain : Chains \cup {None}]

-----------------------------------------------------------------------------
(* Types.                                                                  *)

\* What FundingTypeOK says of calls and channels.
CallsTyped(f) ==
  f \in [Slots -> Handlers] /\ \A s \in Slots : f[s].op = "none" => f[s] = Idle

LEMMA IdleTyped == Idle \in Handlers
BY DEF Idle, Handlers, Ops, Stages

\* One call changes.
LEMMA OneCall ==
  ASSUME CallsTyped(calls), NEW s \in Slots, NEW r \in Handlers,
         r.op = "none" => r = Idle, calls' = [calls EXCEPT ![s] = r]
  PROVE  /\ CallsTyped(calls') /\ calls'[s] = r
         /\ \A t \in Slots \ {s} : calls'[t] = calls[t]
<1>1. /\ calls' \in [Slots -> Handlers] /\ calls'[s] = r
      /\ \A t \in Slots \ {s} : calls'[t] = calls[t]
  BY DEF CallsTyped
<1> QED
  BY <1>1 DEF CallsTyped

LEMMA CallTyped ==
  ASSUME CallsTyped(calls), NEW s \in Slots
  PROVE  /\ calls[s] \in Handlers
         /\ calls[s].op \in Ops /\ calls[s].at \in Stages
         /\ calls[s].chain \in Chains \cup {None}
         /\ calls[s].id \in Channels \cup {None} /\ calls[s].seen \in BOOLEAN
         /\ calls[s].life \in {"none", "view", "page", "lost"}
<1>1. calls[s] \in Handlers
  BY DEF CallsTyped
<1> QED
  BY <1>1 DEF Handlers

\* What the page shows.
ShownTyped ==
  /\ page \in {"home", "account"} /\ sheet \in BOOLEAN
  /\ status \in {"idle", "processing", "success"}
  /\ typed \in BOOLEAN \cup {None}
  /\ offered \in [Buttons -> BOOLEAN] /\ loading \in [Flags -> BOOLEAN]

ClientsTyped ==
  /\ keys \in {"none", "made", "loaded"} /\ clientChain \in Chains \cup {None}
  /\ online \in BOOLEAN /\ (online => keys = "loaded")

KeptTyped ==
  /\ stored \in Channels \cup {None} /\ channelOpen \in BOOLEAN
  /\ chan \in [Channels -> States] /\ lapse \in BOOLEAN

LEMMA TypeParts ==
  /\ FundingTypeOK <=> started \in 0..MaxCalls /\ ShownTyped /\ ClientsTyped
                  /\ CallsTyped(calls) /\ KeptTyped
  /\ FundingTypeOK' <=> started' \in 0..MaxCalls /\ ShownTyped' /\ ClientsTyped'
                  /\ CallsTyped(calls') /\ KeptTyped'
BY DEF FundingTypeOK, ShownTyped, ClientsTyped, CallsTyped, KeptTyped, Handlers, States, Ops, Stages

LEMMA TypeInit ==
  ASSUME FundingAssumption, FundingInit
  PROVE  FundingTypeOK
<1>1. CallsTyped(calls)
  BY IdleTyped DEF FundingInit, CallsTyped
<1>2. ShownTyped /\ ClientsTyped
  BY DEF FundingInit, ShownTyped, ClientsTyped
<1>3. stored \in Channels \cup {None}
  BY DEF FundingInit, FundingAssumption
<1>4. chan \in [Channels -> States]
  BY DEF FundingInit, States
<1>5. started \in 0..MaxCalls
  BY DEF FundingInit, FundingAssumption
<1> QED
  BY <1>1, <1>2, <1>3, <1>4, <1>5, TypeParts DEF FundingInit, KeptTyped

LEMMA MemoTyped ==
  ASSUME NEW m, Memoised(m), ShownTyped, {online, online'} \subseteq BOOLEAN,
         loading' \in [Flags -> BOOLEAN]
  PROVE  offered' \in [Buttons -> BOOLEAN]
<1>1. \A b \in Buttons : (page' = "account" /\ Offers(b)) \in BOOLEAN
  BY Zenon
<1>2. \A b \in Buttons : offered'[b] \in BOOLEAN
  BY <1>1 DEF Memoised, ShownTyped
<1> QED
  BY <1>2 DEF Memoised

LEMMA PageTyped ==
  ASSUME FundingAssumption, FundingTypeOK, Page, UNCHANGED started
  PROVE  FundingTypeOK'
<1>1. started \in 0..MaxCalls /\ ShownTyped /\ ClientsTyped /\ CallsTyped(calls) /\ KeptTyped
  BY TypeParts
<1>2. CASE OpenSheet \/ CloseSheet \/ SuccessTimer \/ TypeAmount \/ SumReset
  <2>1. UNCHANGED <<started, clients, calls, kept>>
    BY <1>2 DEF OpenSheet, CloseSheet, SuccessTimer, TypeAmount, SumReset
  <2>2. ShownTyped'
    BY <1>1, <1>2
       DEF OpenSheet, CloseSheet, SuccessTimer, TypeAmount, SumReset, ShownTyped, KeptTyped, Opened
  <2> QED
    BY <1>1, <2>1, <2>2, TypeParts DEF clients, kept, ClientsTyped, KeptTyped
<1>3. CASE GoesOnline \/ GoesOffline \/ \E c \in Chains : NewClient(c)
  <2>1. /\ UNCHANGED <<started, page, sheet, status, typed, loading, calls, kept>>
        /\ \E B : Memoised(B)
    BY <1>3 DEF GoesOnline, GoesOffline, NewClient
  <2>2. ClientsTyped'
    <3>1. CASE GoesOnline \/ GoesOffline
      BY <1>1, <3>1 DEF GoesOnline, GoesOffline, ClientsTyped
    <3>2. CASE \E c \in Chains : NewClient(c)
      BY <1>1, <3>2 DEF NewClient, Keyed, ClientsTyped
    <3> QED
      BY <1>3, <3>1, <3>2
  <2>3. offered' \in [Buttons -> BOOLEAN]
    BY <1>1, <2>1, <2>2, MemoTyped DEF ClientsTyped, ShownTyped
  <2> QED
    BY <1>1, <2>1, <2>2, <2>3, TypeParts DEF ShownTyped, kept, KeptTyped
<1>4. CASE \E p \in {"home", "account"} : Visit(p)
  <2>1. PICK p \in {"home", "account"} : Visit(p)
    BY <1>4
  <2>2. UNCHANGED <<started, sheet, clients, kept>> /\ page' = p /\ Opened /\ \E B : Memoised(B)
    BY <2>1 DEF Visit
  <2>3. loading' = [f \in Flags |-> FALSE]
    BY <2>1 DEF Visit
  <2>4. offered' \in [Buttons -> BOOLEAN]
    BY <1>1, <2>2, <2>3, MemoTyped DEF ClientsTyped, ShownTyped, clients
  <2>5. CallsTyped(calls')
    <3>1. \A s \in Slots : /\ [calls[s] EXCEPT !.life = "page"] \in Handlers
                           /\ calls[s].op = "none" => calls[s].life # "view"
      BY <1>1, CallTyped DEF Handlers, CallsTyped, Idle
    <3> QED
      BY <1>1, <2>1, <3>1, CallTyped DEF Visit, CallsTyped, Handlers, Idle
  <2> QED
    BY <1>1, <2>2, <2>3, <2>4, <2>5, TypeParts
       DEF ShownTyped, ClientsTyped, KeptTyped, clients, kept, Opened
<1>5. CASE ReloadPage
  <2>1. CallsTyped(calls')
    <3>1. \A s \in Slots : /\ [calls[s] EXCEPT !.life = "lost"] \in Handlers
                           /\ calls[s].op = "none" => calls[s].at # "sent"
      BY <1>1, CallTyped DEF Handlers, CallsTyped, Idle
    <3> QED
      BY <1>1, <1>5, <3>1, CallTyped, IdleTyped DEF ReloadPage, CallsTyped, Handlers, Idle
  <2>2. lapse' \in BOOLEAN
    BY <1>5, Zenon DEF ReloadPage
  <2>3. ShownTyped' /\ ClientsTyped'
    BY <1>1, <1>5 DEF ReloadPage, ShownTyped, ClientsTyped, Opened
  <2> QED
    BY <1>1, <1>5, <2>1, <2>2, <2>3, TypeParts DEF KeptTyped, ReloadPage
<1> QED
  BY <1>2, <1>3, <1>4, <1>5 DEF Page

LEMMA CallIs ==
  ASSUME NEW op \in Ops, NEW at \in Stages, NEW c \in Chains \cup {None},
         NEW i \in Channels \cup {None}, NEW b \in BOOLEAN,
         NEW l \in {"none", "view", "page", "lost"}
  PROVE  [op |-> op, at |-> at, chain |-> c, id |-> i, seen |-> b, life |-> l] \in Handlers
BY DEF Handlers

\* A call starts.
LEMMA StartsTyped ==
  ASSUME CallsTyped(calls), NEW s \in Slots, NEW op \in Ops \ {"none"}, NEW at \in Stages,
         stored \in Channels \cup {None}, clientChain \in Chains \cup {None}, Starts(s, op, at)
  PROVE  /\ CallsTyped(calls') /\ calls[s] = Idle
         /\ calls'[s].op = op /\ calls'[s].at = at /\ calls'[s].life = "view"
         /\ calls'[s].id = IF op \in {"close", "resize", "challenge"} THEN stored ELSE None
         /\ \A t \in Slots \ {s} : calls'[t] = calls[t]
<1> DEFINE c == IF at = "sent" THEN clientChain ELSE None
           i == IF op \in {"close", "resize", "challenge"} THEN stored ELSE None
           b == op = "deposit" /\ typed = TRUE
           r == [op |-> op, at |-> at, chain |-> c, id |-> i, seen |-> b, life |-> "view"]
<1>1. calls' = [calls EXCEPT ![s] = r] /\ calls[s] = Idle
  BY DEF Starts
<1>2. b \in BOOLEAN
  BY Zenon
<1>3. c \in Chains \cup {None} /\ i \in Channels \cup {None}
  OBVIOUS
<1>4. /\ r.op = op /\ r.at = at /\ r.life = "view" /\ r.id = i
  OBVIOUS
<1> HIDE DEF c, b
<1>5. r \in Handlers
  BY ZenonT(60), <1>2, <1>3, CallIs
<1> HIDE DEF r
<1> QED
  BY <1>1, <1>4, <1>5, OneCall

\* A call ends.
LEMMA EndsTyped ==
  ASSUME CallsTyped(calls), NEW s \in Slots, Ends(s)
  PROVE  /\ CallsTyped(calls') /\ calls'[s] = Idle
         /\ \A t \in Slots \ {s} : calls'[t] = calls[t]
BY IdleTyped, OneCall DEF Ends

\* A call goes on to refresh.
LEMMA RefreshesTyped ==
  ASSUME CallsTyped(calls), NEW s \in Slots, calls[s].op # "none", Refreshes(s)
  PROVE  /\ CallsTyped(calls')
         /\ calls'[s].op = calls[s].op /\ calls'[s].at = "refresh"
         /\ calls'[s].life = calls[s].life
         /\ \A t \in Slots \ {s} : calls'[t] = calls[t]
<1> DEFINE r == [calls[s] EXCEPT !.at = "refresh", !.id = None]
<1>1. calls[s] \in Handlers
  BY CallTyped
<1>2. r \in Handlers /\ r.op = calls[s].op /\ r.at = "refresh" /\ r.life = calls[s].life
  BY <1>1 DEF Handlers, Stages
<1>3. calls' = [calls EXCEPT ![s] = r]
  BY <1>1 DEF Refreshes, CallsTyped, Handlers
<1> HIDE DEF r
<1> QED
  BY <1>2, <1>3, OneCall

\* The broker's state comes.
LEMMA SignedTyped ==
  ASSUME CallsTyped(calls), NEW s \in Slots, clientChain \in Chains \cup {None}, Signed(s)
  PROVE  /\ CallsTyped(calls') /\ calls[s].at = "asked"
         /\ calls'[s].op = calls[s].op /\ calls'[s].at = "sent"
         /\ calls'[s].id = calls[s].id /\ calls'[s].life = calls[s].life
         /\ \A t \in Slots \ {s} : calls'[t] = calls[t]
<1> DEFINE r == [calls[s] EXCEPT !.at = "sent", !.chain = clientChain]
<1>1. calls[s] \in Handlers
  BY CallTyped
<1>2. /\ r \in Handlers /\ r.op = calls[s].op /\ r.at = "sent" /\ r.id = calls[s].id
      /\ r.life = calls[s].life
  BY <1>1 DEF Handlers, Stages
<1>3. calls' = [calls EXCEPT ![s] = r] /\ calls[s].at = "asked"
  BY <1>1 DEF Signed, CallsTyped, Handlers
<1>4. calls[s].op # "none"
  BY <1>3 DEF CallsTyped, Idle
<1> HIDE DEF r
<1> QED
  BY <1>2, <1>3, <1>4, OneCall

\* A deposit goes on to create a channel.
LEMMA CreatesTyped ==
  ASSUME CallsTyped(calls), NEW s \in Slots, clientChain \in Chains \cup {None},
         calls' = [calls EXCEPT ![s].op = "create", ![s].at = "sent",
                                ![s].chain = clientChain, ![s].seen = FALSE]
  PROVE  /\ CallsTyped(calls')
         /\ calls'[s].op = "create" /\ calls'[s].at = "sent"
         /\ calls'[s].id = calls[s].id /\ calls'[s].life = calls[s].life
         /\ \A t \in Slots \ {s} : calls'[t] = calls[t]
<1> DEFINE r == [calls[s] EXCEPT !.op = "create", !.at = "sent", !.chain = clientChain,
                                 !.seen = FALSE]
<1>1. calls[s] \in Handlers
  BY CallTyped
<1>2. /\ r \in Handlers /\ r.op = "create" /\ r.at = "sent" /\ r.id = calls[s].id
      /\ r.life = calls[s].life
  BY <1>1 DEF Handlers, Stages, Ops
<1>3. calls' = [calls EXCEPT ![s] = r]
  BY <1>1 DEF CallsTyped, Handlers
<1> HIDE DEF r
<1> QED
  BY <1>2, <1>3, OneCall

\* A transaction is mined.
LEMMA MinedTyped ==
  ASSUME CallsTyped(calls), NEW s \in Slots, NEW i \in Channels \cup {None}, Mined(s, i)
  PROVE  /\ CallsTyped(calls') /\ calls[s].at = "sent" /\ calls[s].op # "none"
         /\ Alive(s) => /\ calls'[s].op = calls[s].op /\ calls'[s].at = "mined"
                        /\ calls'[s].id = i /\ calls'[s].life = calls[s].life
         /\ ~Alive(s) => calls'[s] = Idle
         /\ \A t \in Slots \ {s} : calls'[t] = calls[t]
<1> DEFINE r == [calls[s] EXCEPT !.at = "mined", !.id = i, !.chain = None]
<1>1. calls[s] \in Handlers
  BY CallTyped
<1>2. /\ r \in Handlers /\ r.op = calls[s].op /\ r.at = "mined" /\ r.id = i
      /\ r.life = calls[s].life
  BY <1>1 DEF Handlers, Stages
<1>3. /\ calls[s].at = "sent"
      /\ calls' = [calls EXCEPT ![s] = IF Alive(s) THEN r ELSE Idle]
  BY <1>1 DEF Mined, CallsTyped, Handlers
<1>4. calls[s].op # "none"
  BY <1>3 DEF CallsTyped, Idle
<1> HIDE DEF r
<1>5. CASE Alive(s)
  BY <1>2, <1>3, <1>4, <1>5, OneCall
<1>6. CASE ~Alive(s)
  BY <1>3, <1>4, <1>6, IdleTyped, OneCall
<1> QED
  BY <1>5, <1>6

-----------------------------------------------------------------------------
(* What the steps of a call do, in terms of its record.                    *)

\* A call starts, and the page shows that it does.
StartOf(s, op, at) ==
  /\ Starts(s, op, at)
  /\ op \in {"close", "resize", "challenge"} => stored # None
  /\ at = "refresh" <=> op = "refresh"
  /\ status' = IF op = "deposit" THEN "processing" ELSE status
  /\ loading' = IF op = "deposit" THEN loading ELSE [loading EXCEPT ![FlagOf(op)] = TRUE]

LEMMA ClickFacts ==
  ASSUME FundingTypeOK, NEW s \in Slots, Click(s)
  PROVE  /\ UNCHANGED <<page, sheet, typed, online, clientChain, kept>>
         /\ ClientsTyped'
         /\ (\E B : Memoised(B)) \/ UNCHANGED offered
         /\ \/ UNCHANGED <<calls, status, loading>>
            \/ \E op \in Ops \ {"none", "create"}, at \in {"asked", "sent", "refresh"} :
                 StartOf(s, op, at)
<1>1. ClientsTyped
  BY TypeParts
<1>2. CASE DepositClick(s)
  <2>1. ClientsTyped'
    BY <1>1, <1>2 DEF DepositClick, ClientsTyped, Keyed
  <2>2. /\ UNCHANGED <<page, sheet, typed, online, clientChain, kept, loading>> /\ \E B : Memoised(B)
        /\ \/ UNCHANGED <<calls, status>>
           \/ status' = "processing" /\ Starts(s, "deposit", "sent")
    BY <1>2 DEF DepositClick
  <2>3. Starts(s, "deposit", "sent") /\ status' = "processing" => StartOf(s, "deposit", "sent")
    BY <2>2 DEF StartOf
  <2> QED
    BY <2>1, <2>2, <2>3 DEF Ops
<1>3. CASE CloseClick(s) \/ ResizeClick(s) \/ ChallengeClick(s) \/ WithdrawClick(s)
  <2>1. PICK op \in {"close", "resize", "challenge", "withdrawal"}, at \in {"asked", "sent"} :
          /\ Clicks(s, op, FlagOf(op), at)
          /\ op \in {"close", "resize", "challenge"} => stored # None
    BY <1>3 DEF CloseClick, ResizeClick, ChallengeClick, WithdrawClick, FlagOf
  <2>2. StartOf(s, op, at)
    BY <2>1 DEF Clicks, StartOf
  <2>3. UNCHANGED <<page, sheet, typed, online, clientChain, keys, kept>> /\ \E B : Memoised(B)
    BY <2>1 DEF Clicks, clients
  <2>4. ClientsTyped'
    BY <1>1, <2>3 DEF ClientsTyped
  <2> QED
    BY <2>2, <2>3, <2>4 DEF Ops
<1>4. CASE RefreshClick(s)
  <2>1. StartOf(s, "refresh", "refresh")
    BY <1>4 DEF RefreshClick, StartOf, FlagOf
  <2>2. UNCHANGED <<page, sheet, typed, online, clientChain, keys, kept, offered>>
    BY <1>4 DEF RefreshClick, clients
  <2>3. ClientsTyped'
    BY <1>1, <2>2 DEF ClientsTyped
  <2> QED
    BY <2>1, <2>2, <2>3 DEF Ops
<1> QED
  BY <1>2, <1>3, <1>4 DEF Click

LEMMA ClickTyped ==
  ASSUME FundingTypeOK, NEW s \in Slots, Click(s), started' \in 0..MaxCalls
  PROVE  FundingTypeOK'
<1>1. ShownTyped /\ ClientsTyped /\ CallsTyped(calls) /\ KeptTyped
  BY TypeParts
<1>2. /\ UNCHANGED <<page, sheet, typed, online, clientChain, kept>> /\ ClientsTyped'
      /\ (\E B : Memoised(B)) \/ UNCHANGED offered
      /\ \/ UNCHANGED <<calls, status, loading>>
         \/ \E op \in Ops \ {"none", "create"}, at \in {"asked", "sent", "refresh"} :
              StartOf(s, op, at)
  BY ClickFacts
<1>3. /\ CallsTyped(calls') /\ status' \in {"idle", "processing", "success"}
      /\ loading' \in [Flags -> BOOLEAN]
  <2>1. CASE UNCHANGED <<calls, status, loading>>
    BY <1>1, <2>1 DEF ShownTyped
  <2>2. CASE \E op \in Ops \ {"none", "create"}, at \in {"asked", "sent", "refresh"} :
               StartOf(s, op, at)
    <3>1. PICK op \in Ops \ {"none", "create"}, at \in {"asked", "sent", "refresh"} :
            StartOf(s, op, at)
      BY <2>2
    <3>2. CallsTyped(calls')
      BY <1>1, <3>1, StartsTyped DEF StartOf, Stages, KeptTyped, ClientsTyped
    <3> QED
      BY <1>1, <3>1, <3>2 DEF StartOf, ShownTyped
  <2> QED
    BY <1>2, <2>1, <2>2
<1>4. offered' \in [Buttons -> BOOLEAN]
  BY <1>1, <1>2, <1>3, MemoTyped DEF ShownTyped, ClientsTyped
<1> QED
  BY <1>1, <1>2, <1>3, <1>4, TypeParts DEF ShownTyped, kept, KeptTyped

LEMMA UnflagsTyped ==
  ASSUME FundingTypeOK, NEW s \in Slots, Unflags(s), UNCHANGED clients
  PROVE  loading' \in [Flags -> BOOLEAN] /\ offered' \in [Buttons -> BOOLEAN]
<1>1. ShownTyped /\ ClientsTyped
  BY TypeParts
<1>2. loading' \in [Flags -> BOOLEAN]
  BY <1>1 DEF Unflags, ShownTyped
<1> QED
  BY <1>1, <1>2, MemoTyped DEF Unflags, ShownTyped, ClientsTyped, clients

\* A call that goes on.
LEMMA GoesOnTyped ==
  ASSUME FundingTypeOK, NEW s \in Slots, GoesOn(s), UNCHANGED started
  PROVE  FundingTypeOK'
<1>1. started \in 0..MaxCalls /\ ShownTyped /\ ClientsTyped /\ CallsTyped(calls) /\ KeptTyped
  BY TypeParts
<1>2. clientChain \in Chains \cup {None}
  BY <1>1 DEF ClientsTyped
<1>3. CASE Deposited(s)
  <2>1. UNCHANGED <<page, sheet, typed, offered, loading, clients, stored, chan>>
        /\ channelOpen' = TRUE
    BY <1>3 DEF Deposited, setChannelOpen
  <2>2. CASE Ends(s) /\ Says(s, "success") /\ UNCHANGED lapse
    BY <1>1, <2>1, <2>2, EndsTyped, TypeParts
       DEF Says, ShownTyped, ClientsTyped, KeptTyped, clients
  <2>3. CASE /\ calls' = [calls EXCEPT ![s].op = "create", ![s].at = "sent",
                                       ![s].chain = clientChain, ![s].seen = FALSE]
             /\ lapse' = (lapse \/ Creating # {}) /\ UNCHANGED status
    <3>1. lapse' \in BOOLEAN
      BY <2>3, Zenon
    <3> QED
      BY <1>1, <1>2, <2>1, <2>3, <3>1, CreatesTyped, TypeParts
         DEF ShownTyped, ClientsTyped, KeptTyped, clients
  <2> QED
    BY <1>3, <2>2, <2>3 DEF Deposited
<1>4. CASE Created(s)
  BY <1>1, <1>4, EndsTyped, CallTyped, TypeParts
     DEF Created, Says, setChannelOpen, ShownTyped, ClientsTyped, KeptTyped, clients
<1>5. CASE Signed(s)
  <2>1. CallsTyped(calls')
    BY <1>1, <1>2, <1>5, SignedTyped
  <2> QED
    BY <1>1, <1>5, <2>1, TypeParts
       DEF Signed, ShownTyped, ClientsTyped, KeptTyped, clients, shown, kept
<1>6. CASE Closed(s) \/ Done(s)
  <2>1. CallsTyped(calls')
    BY <1>1, <1>6, RefreshesTyped DEF Closed, Done
  <2>2. KeptTyped'
    BY <1>1, <1>6 DEF Closed, Done, KeptTyped, setChannelOpen, kept
  <2>3. UNCHANGED <<shown, clients>>
    BY <1>6 DEF Closed, Done
  <2> QED
    BY <1>1, <2>1, <2>2, <2>3, TypeParts DEF ShownTyped, ClientsTyped, clients, shown
<1>7. CASE Refreshed(s)
  <2>1. CallsTyped(calls') /\ loading' \in [Flags -> BOOLEAN] /\ offered' \in [Buttons -> BOOLEAN]
    BY <1>1, <1>7, EndsTyped, UnflagsTyped DEF Refreshed
  <2> QED
    BY <1>1, <1>7, <2>1, TypeParts
       DEF Refreshed, ShownTyped, ClientsTyped, KeptTyped, clients, kept
<1>8. CASE Fails(s)
  <2>1. CallsTyped(calls') /\ loading' \in [Flags -> BOOLEAN] /\ offered' \in [Buttons -> BOOLEAN]
    BY <1>1, <1>8, EndsTyped, UnflagsTyped DEF Fails
  <2>2. lapse' \in BOOLEAN
    BY <1>8, Zenon DEF Fails
  <2>3. channelOpen' \in BOOLEAN
    BY <1>1, <1>8 DEF Fails, KeptTyped
  <2>4. status' \in {"idle", "processing", "success"}
    BY <1>1, <1>8 DEF Fails, Says, ShownTyped
  <2>5. UNCHANGED <<page, sheet, typed, clients, stored, chan>>
    BY <1>8 DEF Fails
  <2> QED
    BY <1>1, <2>1, <2>2, <2>3, <2>4, <2>5, TypeParts
       DEF ShownTyped, ClientsTyped, KeptTyped, clients
<1> QED
  BY <1>3, <1>4, <1>5, <1>6, <1>7, <1>8 DEF GoesOn

\* What the contract does to a call and to a channel.
LEMMA ContractFacts ==
  ASSUME FundingTypeOK, NEW s \in Slots, Contract(s)
  PROVE  /\ UNCHANGED <<shown, clients, stored, channelOpen, lapse>>
         /\ chan' \in [Channels -> States]
         /\ \/ /\ UNCHANGED chan /\ calls[s].op \notin {"create", "close"}
               /\ \E i \in Channels \cup {None} : i = calls[s].id /\ Mined(s, i)
            \/ /\ calls[s].op = "create"
               /\ \E i \in Channels :
                    /\ chan[i].is = "none" /\ Mined(s, i)
                    /\ chan'[i].is = "open"
                    /\ \A d \in Channels \ {i} : chan'[d] = chan[d]
            \/ /\ calls[s].op \in {"close", "challenge"}
               /\ \E i \in Channels \cup {None} : i = calls[s].id /\ Mined(s, i)
               /\ LET i == calls[s].id
                  IN /\ chan[i].is \in {"open", "challenged"}
                     /\ i \in Channels =>
                          chan'[i].is = IF calls[s].op = "close" THEN "closed" ELSE "challenged"
                     /\ \A d \in Channels \ {i} : chan'[d] = chan[d]
            \/ calls[s].life = "lost" /\ Ends(s) /\ UNCHANGED chan
<1>1. CallsTyped(calls) /\ chan \in [Channels -> States]
  BY TypeParts DEF KeptTyped
<1>2. calls[s].id \in Channels \cup {None} /\ calls[s].chain \in Chains \cup {None}
  BY <1>1, CallTyped
<1>3. \A i \in Channels : chan[i] \in States
  BY <1>1
<1>4. CASE PlainMined(s) \/ ResizeMined(s)
  <2>1. UNCHANGED chan /\ calls[s].op \notin {"create", "close"} /\ Mined(s, calls[s].id)
    BY <1>4 DEF PlainMined, ResizeMined
  <2> QED
    BY <1>1, <1>2, <2>1 DEF Mined
<1>5. CASE CreateMined(s)
  <2> DEFINE i == CHOOSE d \in Unused : TRUE
             r == [is |-> "open", chain |-> calls[s].chain]
  <2>1. i \in Unused
    BY <1>5 DEF CreateMined
  <2>2. /\ chan' = [chan EXCEPT ![i] = r] /\ Mined(s, i) /\ calls[s].op = "create"
    BY <1>5 DEF CreateMined
  <2>3. r \in States /\ r.is = "open"
    BY <1>2 DEF States
  <2> HIDE DEF i, r
  <2>4. i \in Channels /\ chan[i].is = "none"
    BY <2>1 DEF Unused
  <2>5. /\ chan' \in [Channels -> States] /\ chan'[i] = r
        /\ \A d \in Channels \ {i} : chan'[d] = chan[d]
    BY <1>1, <2>2, <2>3, <2>4
  <2> QED
    BY <2>2, <2>3, <2>4, <2>5 DEF Mined
<1>6. CASE CloseMined(s) \/ ChallengeMined(s)
  <2> DEFINE i == calls[s].id
             new == IF calls[s].op = "close" THEN "closed" ELSE "challenged"
             r == [chan[i] EXCEPT !.is = new]
  <2>1. /\ calls[s].op \in {"close", "challenge"} /\ Mined(s, i)
        /\ chan[i].is \in {"open", "challenged"} /\ chan' = [chan EXCEPT ![i].is = new]
    BY <1>6 DEF CloseMined, ChallengeMined
  <2>2. CASE i \in Channels
    <3>1. chan[i] \in States
      BY <1>3, <2>2
    <3>2. r \in States /\ r.is = new
      BY <3>1 DEF States
    <3>3. chan' = [chan EXCEPT ![i] = r]
      BY <2>1
    <3> HIDE DEF i, new, r
    <3>4. /\ chan' \in [Channels -> States] /\ chan'[i] = r
          /\ \A d \in Channels \ {i} : chan'[d] = chan[d]
      BY <1>1, <2>2, <3>2, <3>3
    <3> QED
      BY <2>1, <2>2, <3>2, <3>4 DEF Mined, i, new
  <2>3. CASE i \notin Channels
    <3>1. chan' = chan
      BY <1>1, <2>1, <2>3
    <3> QED
      BY <1>1, <1>2, <2>1, <2>3, <3>1 DEF Mined
  <2> QED
    BY <2>2, <2>3
<1>7. CASE Dropped(s)
  BY <1>1, <1>7 DEF Dropped, kept
<1> QED
  BY <1>4, <1>5, <1>6, <1>7 DEF Contract

LEMMA ContractTyped ==
  ASSUME FundingTypeOK, NEW s \in Slots, Contract(s), UNCHANGED started
  PROVE  FundingTypeOK'
<1>1. started \in 0..MaxCalls /\ ShownTyped /\ ClientsTyped /\ CallsTyped(calls) /\ KeptTyped
  BY TypeParts
<1>2. UNCHANGED <<shown, clients, stored, channelOpen, lapse>> /\ chan' \in [Channels -> States]
  BY ContractFacts
<1>3. CallsTyped(calls')
  BY <1>1, ContractFacts, EndsTyped, MinedTyped
<1> QED
  BY <1>1, <1>2, <1>3, TypeParts DEF ShownTyped, ClientsTyped, KeptTyped, clients, shown

LEMMA TypeStep ==
  ASSUME FundingAssumption, FundingTypeOK, [FundingNext]_fundingVars
  PROVE  FundingTypeOK'
<1>1. CASE UNCHANGED fundingVars
  <2>1. UNCHANGED <<started, shown, clients, calls, kept>>
    BY <1>1 DEF fundingVars
  <2> QED
    BY <2>1, TypeParts DEF ShownTyped, ClientsTyped, KeptTyped, CallsTyped, clients, shown, kept
<1>2. CASE started < MaxCalls /\ started' = started + 1 /\ \E s \in Slots : Click(s)
  <2>1. started' \in 0..MaxCalls
    BY <1>2, TypeParts DEF FundingAssumption
  <2> QED
    BY <1>2, <2>1, ClickTyped
<1>3. CASE UNCHANGED started /\ (Page \/ \E s \in Slots : GoesOn(s) \/ Contract(s))
  BY <1>3, PageTyped, GoesOnTyped, ContractTyped
<1> QED
  BY <1>1, <1>2, <1>3 DEF FundingNext

-----------------------------------------------------------------------------
(* What turns has a call behind it.                                        *)

\* A call that may clear the page's spinner, or a button's.
Pays(c) == c.life = "view" /\ c.op \in {"deposit", "create"}
Holds(c, f) == c.life = "view" /\ FlagOf(c.op) = f

LEMMA SpinnersAre ==
  /\ SpinnersTurn <=>
       /\ status = "processing" => \E t \in Slots : Pays(calls[t])
       /\ \A f \in Flags : loading[f] => \E t \in Slots : Holds(calls[t], f)
  /\ SpinnersTurn' <=>
       /\ status' = "processing" => \E t \in Slots : Pays(calls'[t])
       /\ \A f \in Flags : loading'[f] => \E t \in Slots : Holds(calls'[t], f)
BY DEF SpinnersTurn, Pays, Holds, InView

\* A step that sets nothing, and of which no call is the worse.
LEMMA SpinnersStay ==
  ASSUME SpinnersTurn, status' = "processing" => status = "processing",
         \A f \in Flags : loading'[f] => loading[f],
         \A t \in Slots :
           /\ Pays(calls[t]) => Pays(calls'[t])
           /\ \A f \in Flags : Holds(calls[t], f) => Holds(calls'[t], f)
  PROVE  SpinnersTurn'
BY SpinnersAre

\* A step that ends one call, and clears what it had set.
LEMMA SpinnersEnd ==
  ASSUME FundingTypeOK, SpinnersTurn, NEW s \in Slots, Ends(s),
         status' = "processing" => status = "processing" /\ ~Pays(calls[s]),
         \A f \in Flags : loading'[f] => loading[f] /\ ~Holds(calls[s], f)
  PROVE  SpinnersTurn'
<1>1. \A t \in Slots \ {s} : calls'[t] = calls[t]
  BY TypeParts, EndsTyped
<1> QED
  BY <1>1, SpinnersAre

\* finally clears the flag of a call, if its page is there.
LEMMA UnflagsClears ==
  ASSUME FundingTypeOK, NEW s \in Slots, Unflags(s)
  PROVE  \A f \in Flags : loading'[f] => loading[f] /\ ~Holds(calls[s], f)
<1>1. loading \in [Flags -> BOOLEAN]
  BY TypeParts DEF ShownTyped
<1>2. CASE InView(s) /\ calls[s].op \notin {"deposit", "create"}
  BY <1>1, <1>2 DEF Unflags, Holds
<1>3. CASE ~InView(s)
  BY <1>1, <1>3 DEF Unflags, Holds, InView
<1>4. CASE calls[s].op \in {"deposit", "create"}
  BY <1>1, <1>4 DEF Unflags, Holds, FlagOf, Flags
<1> QED
  BY <1>2, <1>3, <1>4

\* What refreshes is not paying.
Refreshing ==
  \A s \in Slots : calls[s].at = "refresh" => calls[s].op \notin {"deposit", "create"}

LEMMA RefreshingStep ==
  ASSUME FundingTypeOK, Refreshing, [FundingNext]_fundingVars
  PROVE  Refreshing'
<1>1. CallsTyped(calls) /\ stored \in Channels \cup {None} /\ clientChain \in Chains \cup {None}
  BY TypeParts DEF KeptTyped, ClientsTyped
<1>2. ASSUME NEW s \in Slots, \A t \in Slots \ {s} : calls'[t] = calls[t],
             calls'[s].at = "refresh" => calls'[s].op \notin {"deposit", "create"}
      PROVE  Refreshing'
  BY <1>2 DEF Refreshing
<1>3. CASE UNCHANGED calls
  BY <1>3 DEF Refreshing
<1>4. ASSUME NEW s \in Slots, Click(s)
      PROVE  Refreshing'
  <2>1. CASE \E op \in Ops \ {"none", "create"}, at \in {"asked", "sent", "refresh"} :
               StartOf(s, op, at)
    <3>1. PICK op \in Ops \ {"none", "create"}, at \in {"asked", "sent", "refresh"} :
            StartOf(s, op, at)
      BY <2>1
    <3>2. /\ calls'[s].op = op /\ calls'[s].at = at
          /\ \A t \in Slots \ {s} : calls'[t] = calls[t]
      BY <1>1, <3>1, StartsTyped DEF StartOf, Stages
    <3>3. ~(op = "deposit" /\ at = "refresh")
      BY <3>1 DEF StartOf
    <3> QED
      BY <1>2, <3>2, <3>3
  <2> QED
    BY <1>3, <1>4, <2>1, ClickFacts
<1>5. ASSUME Page
      PROVE  Refreshing'
  <2>1. CASE ReloadPage
    BY <2>1 DEF ReloadPage, Refreshing, Idle
  <2>2. CASE \E p \in {"home", "account"} : Visit(p)
    <3>1. \A s \in Slots : calls[s] \in Handlers
      BY <1>1, CallTyped
    <3>2. \A s \in Slots : calls'[s].at = calls[s].at /\ calls'[s].op = calls[s].op
      BY <2>2, <3>1 DEF Visit, Handlers
    <3> QED
      BY <3>2 DEF Refreshing
  <2>3. CASE \/ OpenSheet \/ CloseSheet \/ SuccessTimer \/ TypeAmount \/ SumReset
             \/ GoesOnline \/ GoesOffline \/ \E c \in Chains : NewClient(c)
    BY <1>3, <2>3 DEF OpenSheet, CloseSheet, SuccessTimer, TypeAmount, SumReset,
                      GoesOnline, GoesOffline, NewClient
  <2> QED
    BY <1>5, <2>1, <2>2, <2>3 DEF Page
<1>6. ASSUME NEW s \in Slots, GoesOn(s)
      PROVE  Refreshing'
  <2>1. CASE Ends(s)
    BY <1>1, <1>2, <2>1, EndsTyped DEF Idle
  <2>2. CASE Signed(s)
    BY <1>1, <1>2, <2>2, SignedTyped
  <2>3. CASE Closed(s) \/ Done(s)
    BY <1>1, <1>2, <2>3, RefreshesTyped DEF Closed, Done
  <2>4. CASE Deposited(s) /\ ~Ends(s)
    BY <1>1, <1>2, <2>4, CreatesTyped DEF Deposited
  <2> QED
    BY <1>6, <2>1, <2>2, <2>3, <2>4 DEF GoesOn, Created, Refreshed, Fails
<1>7. ASSUME NEW s \in Slots, Contract(s)
      PROVE  Refreshing'
  <2>1. /\ \A t \in Slots \ {s} : calls'[t] = calls[t]
        /\ calls'[s].at \in {"mined", "none"}
    BY <1>1, <1>7, ContractFacts, EndsTyped, MinedTyped DEF Idle
  <2> QED
    BY <1>2, <2>1
<1> QED
  BY <1>3, <1>4, <1>5, <1>6, <1>7 DEF FundingNext, fundingVars

LEMMA SpinnersStep ==
  ASSUME FundingTypeOK, Refreshing, SpinnersTurn, [FundingNext]_fundingVars
  PROVE  SpinnersTurn'
<1>1. CallsTyped(calls) /\ loading \in [Flags -> BOOLEAN]
      /\ stored \in Channels \cup {None} /\ clientChain \in Chains \cup {None}
  BY TypeParts DEF ShownTyped, KeptTyped, ClientsTyped
<1>2. CASE UNCHANGED fundingVars
  BY <1>2, SpinnersStay DEF fundingVars, shown
<1>3. ASSUME NEW s \in Slots, Click(s)
      PROVE  SpinnersTurn'
  <2>1. CASE UNCHANGED <<calls, status, loading>>
    BY <2>1, SpinnersStay
  <2>2. CASE \E op \in Ops \ {"none", "create"}, at \in {"asked", "sent", "refresh"} :
               StartOf(s, op, at)
    <3>1. PICK op \in Ops \ {"none", "create"}, at \in {"asked", "sent", "refresh"} :
            StartOf(s, op, at)
      BY <2>2
    <3>2. /\ calls[s] = Idle /\ calls'[s].op = op /\ calls'[s].life = "view"
          /\ \A t \in Slots \ {s} : calls'[t] = calls[t]
      BY <1>1, <3>1, StartsTyped DEF StartOf, Stages
    <3>3. ~Pays(calls[s]) /\ \A f \in Flags : ~Holds(calls[s], f)
      BY <3>2 DEF Pays, Holds, Idle
    <3>4. status' = "processing" => \E t \in Slots : Pays(calls'[t])
      BY <3>1, <3>2, <3>3, SpinnersAre DEF StartOf, Pays
    <3>5. ASSUME NEW f \in Flags, loading'[f]
          PROVE  \E t \in Slots : Holds(calls'[t], f)
      <4>1. loading[f] \/ f = FlagOf(op)
        BY <1>1, <3>1, <3>5 DEF StartOf
      <4>2. CASE f = FlagOf(op)
        BY <3>2, <4>2 DEF Holds
      <4>3. CASE loading[f]
        BY <3>2, <3>3, <4>3, SpinnersAre
      <4> QED
        BY <4>1, <4>2, <4>3
    <3> QED
      BY <3>4, <3>5, SpinnersAre
  <2> QED
    BY <1>3, <2>1, <2>2, ClickFacts
<1>4. ASSUME Page
      PROVE  SpinnersTurn'
  <2>1. CASE ReloadPage \/ \E p \in {"home", "account"} : Visit(p)
    <3>1. status' = "idle" /\ loading' = [f \in Flags |-> FALSE]
      BY <2>1 DEF ReloadPage, Visit, Opened
    <3> QED
      BY <3>1, SpinnersAre
  <2>2. CASE \/ OpenSheet \/ CloseSheet \/ SuccessTimer \/ TypeAmount \/ SumReset
             \/ GoesOnline \/ GoesOffline \/ \E c \in Chains : NewClient(c)
    <3>1. UNCHANGED <<loading, calls>> /\ (status' = "processing" => status = "processing")
      BY <2>2 DEF OpenSheet, CloseSheet, SuccessTimer, TypeAmount, SumReset, Opened,
                  GoesOnline, GoesOffline, NewClient
    <3> QED
      BY <3>1, SpinnersStay
  <2> QED
    BY <1>4, <2>1, <2>2 DEF Page
<1>5. ASSUME NEW s \in Slots, GoesOn(s)
      PROVE  SpinnersTurn'
  <2>1. CASE Deposited(s)
    <3>1. UNCHANGED loading /\ calls[s].op = "deposit"
      BY <2>1 DEF Deposited
    <3>2. CASE Ends(s) /\ Says(s, "success")
      <4>1. \A f \in Flags : ~Holds(calls[s], f)
        BY <3>1 DEF Holds, FlagOf, Flags
      <4>2. status' = "processing" => status = "processing" /\ ~Pays(calls[s])
        BY <3>2 DEF Says, Pays, InView
      <4> QED
        BY <3>1, <3>2, <4>1, <4>2, SpinnersEnd
    <3>3. CASE /\ calls' = [calls EXCEPT ![s].op = "create", ![s].at = "sent",
                                         ![s].chain = clientChain, ![s].seen = FALSE]
               /\ UNCHANGED status
      <4>1. /\ calls'[s].op = "create" /\ calls'[s].life = calls[s].life
            /\ \A t \in Slots \ {s} : calls'[t] = calls[t]
        BY <1>1, <3>3, CreatesTyped
      <4>2. \A t \in Slots :
              /\ Pays(calls[t]) => Pays(calls'[t])
              /\ \A f \in Flags : Holds(calls[t], f) => Holds(calls'[t], f)
        BY <3>1, <4>1 DEF Pays, Holds, FlagOf, Flags
      <4> QED
        BY <3>1, <3>3, <4>2, SpinnersStay
    <3> QED
      BY <2>1, <3>2, <3>3 DEF Deposited
  <2>2. CASE Created(s)
    <3>1. UNCHANGED loading /\ calls[s].op = "create" /\ Ends(s) /\ Says(s, "success")
      BY <2>2 DEF Created
    <3>2. \A f \in Flags : ~Holds(calls[s], f)
      BY <3>1 DEF Holds, FlagOf, Flags
    <3>3. status' = "processing" => status = "processing" /\ ~Pays(calls[s])
      BY <3>1 DEF Says, Pays, InView
    <3> QED
      BY <3>1, <3>2, <3>3, SpinnersEnd
  <2>3. CASE Signed(s)
    <3>1. /\ calls'[s].op = calls[s].op /\ calls'[s].life = calls[s].life
          /\ \A t \in Slots \ {s} : calls'[t] = calls[t]
      BY <1>1, <2>3, SignedTyped
    <3>2. UNCHANGED <<status, loading>>
      BY <2>3 DEF Signed, shown
    <3>3. \A t \in Slots :
            /\ Pays(calls[t]) => Pays(calls'[t])
            /\ \A f \in Flags : Holds(calls[t], f) => Holds(calls'[t], f)
      BY <3>1 DEF Pays, Holds
    <3> QED
      BY <3>2, <3>3, SpinnersStay
  <2>4. CASE Closed(s) \/ Done(s)
    <3>1. /\ calls'[s].op = calls[s].op /\ calls'[s].life = calls[s].life
          /\ \A t \in Slots \ {s} : calls'[t] = calls[t]
      BY <1>1, <2>4, RefreshesTyped DEF Closed, Done
    <3>2. UNCHANGED <<status, loading>>
      BY <2>4 DEF Closed, Done, shown
    <3>3. \A t \in Slots :
            /\ Pays(calls[t]) => Pays(calls'[t])
            /\ \A f \in Flags : Holds(calls[t], f) => Holds(calls'[t], f)
      BY <3>1 DEF Pays, Holds
    <3> QED
      BY <3>2, <3>3, SpinnersStay
  <2>5. CASE Refreshed(s)
    <3>1. UNCHANGED status /\ Ends(s) /\ Unflags(s) /\ calls[s].at = "refresh"
      BY <2>5 DEF Refreshed
    <3>2. ~Pays(calls[s])
      BY <3>1 DEF Refreshing, Pays
    <3> QED
      BY <3>1, <3>2, UnflagsClears, SpinnersEnd
  <2>6. CASE Fails(s)
    <3>1. /\ Ends(s) /\ Unflags(s)
          /\ Says(s, CASE calls[s].op = "create" -> "success"
                       [] calls[s].op = "deposit" -> "idle"
                       [] OTHER -> status)
      BY <2>6 DEF Fails
    <3>2. status' = "processing" => status = "processing" /\ ~Pays(calls[s])
      BY <3>1 DEF Says, Pays, InView
    <3> QED
      BY <3>1, <3>2, UnflagsClears, SpinnersEnd
  <2> QED
    BY <1>5, <2>1, <2>2, <2>3, <2>4, <2>5, <2>6 DEF GoesOn
<1>6. ASSUME NEW s \in Slots, Contract(s)
      PROVE  SpinnersTurn'
  <2>1. UNCHANGED <<status, loading>>
    BY <1>6, ContractFacts DEF shown
  <2>2. \A t \in Slots \ {s} : calls'[t] = calls[t]
    BY <1>1, <1>6, ContractFacts, EndsTyped, MinedTyped
  <2>3. \/ calls'[s].op = calls[s].op /\ calls'[s].life = calls[s].life
        \/ calls[s].life # "view"
    BY <1>1, <1>6, ContractFacts, MinedTyped DEF Alive
  <2>4. \A t \in Slots :
          /\ Pays(calls[t]) => Pays(calls'[t])
          /\ \A f \in Flags : Holds(calls[t], f) => Holds(calls'[t], f)
    BY <2>2, <2>3 DEF Pays, Holds
  <2> QED
    BY <2>1, <2>4, SpinnersStay
<1> QED
  BY <1>2, <1>3, <1>4, <1>5, <1>6 DEF FundingNext

-----------------------------------------------------------------------------
(* The storage and the contract.  What is needed is stated of calls f, of  *)
(* the stored channel k and of the contract's channels n.                  *)

IsOpen(n, c) == n[c].is \in {"open", "challenged"}
Living(c) == c.life \in {"view", "page"}
CreateDone(c) == c.op = "create" /\ c.at = "mined"
CloseDone(c) == c.op = "close" /\ c.at = "mined"
Closing(c) == c.op = "close" /\ c.at \in {"asked", "sent", "mined"}

\* The calls whose id is a channel's.
Names(c) ==
  \/ CreateDone(c)
  \/ c.op \in {"close", "resize", "challenge"} /\ c.at \in {"asked", "sent", "mined"}

Known(f, k, n) ==
  /\ k # None => n[k].is # "none"
  /\ \A s \in Slots : Names(f[s]) => f[s].id \in Channels /\ n[f[s].id].is # "none"

\* Without a lapse there is one creation at a time, while nothing is stored,
\* and a channel that is stored or on its way there is closed by no call of
\* an earlier one.
Orderly(f, k, n) ==
  /\ \A s \in Slots : f[s].op \in {"create", "close"} => Living(f[s])
  /\ \A s \in Slots : f[s].op = "create" =>
       k = None /\ \A t \in Slots : f[t].op = "create" => t = s
  /\ \A s \in Slots : CreateDone(f[s]) =>
       IsOpen(n, f[s].id) /\ \A t \in Slots : Closing(f[t]) => f[t].id # f[s].id
  /\ \A s \in Slots : CloseDone(f[s]) =>
       k = f[s].id /\ n[k].is = "closed" /\ \A t \in Slots : CloseDone(f[t]) => t = s

\* StorageFollowsChain.
Follows(f, k, n) ==
  /\ \A c \in Channels : IsOpen(n, c) =>
       k = c \/ \E s \in Slots : CreateDone(f[s]) /\ Living(f[s]) /\ f[s].id = c
  /\ k # None =>
       IsOpen(n, k) \/ \E s \in Slots : CloseDone(f[s]) /\ Living(f[s]) /\ f[s].id = k

Tidy(f, k, n) == Orderly(f, k, n) /\ Follows(f, k, n)
StorageInv == Known(calls, stored, chan) /\ (~lapse => Tidy(calls, stored, chan))

LEMMA FollowsIs ==
  StorageFollowsChain <=> (~lapse => Follows(calls, stored, chan))
BY DEF StorageFollowsChain, Follows, Told, Alive, IsOpen, Living, CreateDone, CloseDone

\* Channels are not forgotten by the contract, and calls name none but those
\* that were named, the stored one, and new ones.
LEMMA KnownStays ==
  ASSUME NEW f, NEW g, NEW k \in Channels \cup {None}, NEW j, NEW n, NEW m, Known(f, k, n),
         \A c \in Channels : n[c].is # "none" => m[c].is # "none",
         j \in {k, None} \/ \E s \in Slots : Names(f[s]) /\ j = f[s].id,
         \A t \in Slots : Names(g[t]) =>
           \/ Names(f[t]) /\ g[t].id = f[t].id
           \/ k # None /\ g[t].id = k
           \/ g[t].id \in Channels /\ m[g[t].id].is # "none"
  PROVE  Known(g, j, m)
<1>1. k # None => k \in Channels /\ m[k].is # "none"
  BY DEF Known
<1>2. \A s \in Slots : Names(f[s]) => f[s].id \in Channels /\ m[f[s].id].is # "none"
  BY DEF Known
<1>3. j # None => m[j].is # "none"
  BY <1>1, <1>2
<1>4. \A t \in Slots : Names(g[t]) => g[t].id \in Channels /\ m[g[t].id].is # "none"
  BY <1>1, <1>2
<1> QED
  BY <1>3, <1>4 DEF Known

\* A call c that becomes d without the storage or the contract noticing.
Mild(c, d, k) ==
  \/ /\ d.op = c.op /\ d.id = c.id
     /\ \/ d.at = c.at
        \/ c.at = "asked" /\ d.at = "sent"
        \/ c.at = "sent" /\ d.at = "mined" /\ c.op \notin {"create", "close"}
     /\ c.op \in {"create", "close"} => (Living(c) => Living(d))
  \/ /\ ~CreateDone(c) /\ ~CloseDone(c)
     /\ d.op \notin {"create", "close"} /\ ~Names(d)
  \/ /\ ~CreateDone(c) /\ ~CloseDone(c)
     /\ d.op \in {"close", "resize", "challenge"} /\ d.at \in {"asked", "sent"}
     /\ d.id = k /\ k # None /\ Living(d)

LEMMA MildSteps ==
  ASSUME NEW f, NEW g, NEW k \in Channels \cup {None}, NEW n, NEW m, Tidy(f, k, n),
         Known(f, k, n),
         \A t \in Slots : Mild(f[t], g[t], k),
         \A c \in Channels : n[c].is = m[c].is \/ (IsOpen(n, c) /\ IsOpen(m, c))
  PROVE  Tidy(g, k, m)
<1>1. \A t \in Slots :
        /\ g[t].op = "create" => f[t].op = "create" /\ g[t].id = f[t].id
        /\ CreateDone(g[t]) <=> CreateDone(f[t])
        /\ CloseDone(g[t]) <=> CloseDone(f[t])
        /\ CloseDone(f[t]) => g[t].id = f[t].id
        /\ CreateDone(f[t]) => g[t].id = f[t].id
        /\ Closing(g[t]) => (Closing(f[t]) /\ g[t].id = f[t].id) \/ (k # None /\ g[t].id = k)
        /\ g[t].op \in {"create", "close"} =>
             (f[t].op = g[t].op /\ (Living(f[t]) => Living(g[t]))) \/ Living(g[t])
  BY DEF Mild, CreateDone, CloseDone, Closing, Names
<1>2. \A c \in Channels : /\ IsOpen(n, c) <=> IsOpen(m, c)
                          /\ n[c].is = "closed" <=> m[c].is = "closed"
  BY DEF IsOpen
<1>3. /\ \A s \in Slots : f[s].op \in {"create", "close"} => Living(f[s])
      /\ \A s \in Slots : f[s].op = "create" =>
           k = None /\ \A t \in Slots : f[t].op = "create" => t = s
      /\ \A s \in Slots : CreateDone(f[s]) =>
           IsOpen(n, f[s].id) /\ \A t \in Slots : Closing(f[t]) => f[t].id # f[s].id
      /\ \A s \in Slots : CloseDone(f[s]) =>
           k = f[s].id /\ n[k].is = "closed" /\ \A t \in Slots : CloseDone(f[t]) => t = s
      /\ \A s \in Slots : CreateDone(f[s]) \/ CloseDone(f[s]) => f[s].id \in Channels
      /\ \A s \in Slots : CreateDone(f[s]) => f[s].op = "create"
  BY DEF Tidy, Orderly, Known, Names, CreateDone, CloseDone
<1>4. \A s \in Slots : g[s].op \in {"create", "close"} => Living(g[s])
  BY <1>1, <1>3
<1>5. \A s \in Slots : g[s].op = "create" =>
        k = None /\ \A t \in Slots : g[t].op = "create" => t = s
  BY <1>1, <1>3
<1>6. \A s \in Slots : CreateDone(g[s]) =>
        IsOpen(m, g[s].id) /\ \A t \in Slots : Closing(g[t]) => g[t].id # g[s].id
  BY <1>1, <1>2, <1>3
<1>7. \A s \in Slots : CloseDone(g[s]) =>
        k = g[s].id /\ m[k].is = "closed" /\ \A t \in Slots : CloseDone(g[t]) => t = s
  BY <1>1, <1>2, <1>3
<1>8. \A t \in Slots : CreateDone(g[t]) \/ CloseDone(g[t]) => Living(g[t])
  BY <1>4 DEF CreateDone, CloseDone
<1>9. Follows(g, k, m)
  <2>1. ASSUME NEW c \in Channels, IsOpen(m, c)
        PROVE  k = c \/ \E s \in Slots : CreateDone(g[s]) /\ Living(g[s]) /\ g[s].id = c
    <3>1. k = c \/ \E s \in Slots : CreateDone(f[s]) /\ f[s].id = c
      BY <1>2, <2>1 DEF Tidy, Follows
    <3> QED
      BY <1>1, <1>8, <3>1
  <2>2. ASSUME k # None
        PROVE  IsOpen(m, k) \/ \E s \in Slots : CloseDone(g[s]) /\ Living(g[s]) /\ g[s].id = k
    <3>1. IsOpen(n, k) \/ \E s \in Slots : CloseDone(f[s]) /\ f[s].id = k
      BY <2>2 DEF Tidy, Follows
    <3>2. k \in Channels
      BY <2>2
    <3> QED
      BY <1>1, <1>2, <1>8, <3>1, <3>2
  <2> QED
    BY <2>1, <2>2 DEF Follows
<1>10. Orderly(g, k, m)
  BY <1>4, <1>5, <1>6, <1>7 DEF Orderly
<1> QED
  BY <1>9, <1>10 DEF Tidy

\* A creation starts.
LEMMA CreateSteps ==
  ASSUME NEW f, NEW g, NEW n, NEW s \in Slots, Tidy(f, None, n),
         \A t \in Slots : f[t].op # "create",
         g[s].op = "create", g[s].at = "sent", Living(g[s]), f[s].op = "deposit",
         \A t \in Slots \ {s} : g[t] = f[t]
  PROVE  Tidy(g, None, n)
<1>1. \A t \in Slots : ~CreateDone(f[t]) /\ ~CreateDone(g[t])
  BY DEF CreateDone
<1>2. \A t \in Slots : CloseDone(g[t]) <=> CloseDone(f[t]) /\ t # s
  BY DEF CloseDone
<1>3. \A c \in Channels : ~IsOpen(n, c) \/ c = None
  BY <1>1 DEF Tidy, Follows
<1>4. Orderly(g, None, n)
  BY <1>1, <1>2 DEF Tidy, Orderly, Closing
<1> QED
  BY <1>3, <1>4 DEF Tidy, Follows

\* A channel is created.
LEMMA CreateDoneSteps ==
  ASSUME NEW f, NEW g, NEW k \in Channels \cup {None}, NEW n, NEW m, NEW s \in Slots,
         NEW i \in Channels, Tidy(f, k, n), Known(f, k, n), FundingAssumption,
         f[s].op = "create", f[s].at = "sent", CreateDone(g[s]), Living(g[s]), g[s].id = i, n[i].is = "none",
         \A t \in Slots \ {s} : g[t] = f[t],
         m[i].is = "open", \A d \in Channels \ {i} : m[d] = n[d]
  PROVE  Tidy(g, k, m)
<1>1. k = None /\ \A t \in Slots \ {s} : f[t].op # "create"
  BY DEF Tidy, Orderly
<1>2. \A t \in Slots : ~CloseDone(f[t])
  <2>1. \A t \in Slots : CloseDone(f[t]) => f[t].id = None /\ f[t].id \in Channels
    BY <1>1 DEF Tidy, Orderly, Known, Names, CloseDone
  <2> QED
    BY <2>1 DEF FundingAssumption
<1>3. \A t \in Slots : Closing(f[t]) => f[t].id \in Channels /\ f[t].id # i
  BY DEF Known, Names, Closing
<1>4. \A t \in Slots : ~CloseDone(g[t]) /\ (CreateDone(g[t]) => t = s)
  BY <1>1, <1>2 DEF CreateDone, CloseDone
<1>5. Orderly(g, k, m)
  <2>1. \A t \in Slots : g[t].op \in {"create", "close"} => Living(g[t])
    BY DEF Tidy, Orderly
  <2>2. \A t \in Slots : g[t].op = "create" => t = s
    BY <1>1
  <2>3. \A t \in Slots : Closing(g[t]) => g[t].id # i
    BY <1>3 DEF Closing, CreateDone
  <2>4. IsOpen(m, i)
    BY DEF IsOpen
  <2> QED
    BY <1>1, <1>4, <2>1, <2>2, <2>3, <2>4 DEF Orderly
<1>6. \A c \in Channels : IsOpen(m, c) => c = i
  <2>1. \A c \in Channels : IsOpen(n, c) => k = c \/ \E t \in Slots : CreateDone(f[t]) /\ f[t].id = c
    BY DEF Tidy, Follows
  <2>2. \A t \in Slots : CreateDone(f[t]) => t = s
    BY <1>1 DEF CreateDone
  <2>3. \A t \in Slots : ~CreateDone(f[t])
    BY <2>2 DEF CreateDone
  <2>4. \A c \in Channels : ~IsOpen(n, c)
    BY <1>1, <2>1, <2>3 DEF FundingAssumption
  <2> QED
    BY <2>4 DEF IsOpen
<1> QED
  BY <1>1, <1>5, <1>6 DEF Tidy, Follows

\* A channel is closed: it is the one that is stored.
LEMMA CloseDoneSteps ==
  ASSUME NEW f, NEW g, NEW k \in Channels \cup {None}, NEW n, NEW m, NEW s \in Slots,
         NEW i \in Channels, Tidy(f, k, n), FundingAssumption,
         Closing(f[s]), f[s].id = i, CloseDone(g[s]), Living(g[s]), g[s].id = i,
         \A t \in Slots \ {s} : g[t] = f[t], IsOpen(n, i),
         m[i].is = "closed", \A d \in Channels \ {i} : m[d] = n[d]
  PROVE  Tidy(g, k, m)
<1>1. k = i /\ k # None
  <2>1. \A t \in Slots : CreateDone(f[t]) => f[t].id # i
    BY DEF Tidy, Orderly
  <2> QED
    BY <2>1 DEF Tidy, Follows, FundingAssumption
<1>2. \A t \in Slots : f[t].op # "create" /\ ~CreateDone(f[t])
  BY <1>1 DEF Tidy, Orderly, CreateDone
<1>3. n[k].is # "closed"
  BY <1>1 DEF IsOpen
<1>4. \A t \in Slots : ~CloseDone(f[t])
  BY <1>3 DEF Tidy, Orderly
<1>5. \A t \in Slots : g[t].op # "create" /\ ~CreateDone(g[t]) /\ (CloseDone(g[t]) => t = s)
  BY <1>2, <1>4 DEF CreateDone, CloseDone
<1>6. \A t \in Slots : g[t].op \in {"create", "close"} => Living(g[t])
  BY DEF Tidy, Orderly
<1>7. \A c \in Channels : ~IsOpen(m, c)
  <2>1. \A c \in Channels \ {i} : ~IsOpen(n, c)
    BY <1>1, <1>2 DEF Tidy, Follows
  <2> QED
    BY <2>1 DEF IsOpen
<1>8. Orderly(g, k, m)
  BY <1>1, <1>5, <1>6 DEF Orderly
<1> QED
  BY <1>1, <1>7, <1>8 DEF Tidy, Follows

\* A channel that was created is stored.
LEMMA StoreSteps ==
  ASSUME NEW f, NEW g, NEW k \in Channels \cup {None}, NEW n, NEW s \in Slots,
         Tidy(f, k, n), Known(f, k, n), FundingAssumption,
         CreateDone(f[s]), g[s] = Idle, \A t \in Slots \ {s} : g[t] = f[t]
  PROVE  Tidy(g, f[s].id, n)
<1>1. k = None /\ f[s].id \in Channels /\ IsOpen(n, f[s].id)
      /\ \A t \in Slots \ {s} : f[t].op # "create"
  BY DEF Tidy, Orderly, Known, Names, CreateDone
<1>2. \A t \in Slots : ~CloseDone(f[t])
  <2>1. \A t \in Slots : CloseDone(f[t]) => f[t].id = None /\ f[t].id \in Channels
    BY <1>1 DEF Tidy, Orderly, Known, Names, CloseDone
  <2> QED
    BY <2>1 DEF FundingAssumption
<1>3. \A t \in Slots : g[t].op # "create" /\ ~CreateDone(g[t]) /\ ~CloseDone(g[t])
  BY <1>1, <1>2 DEF CreateDone, CloseDone, Idle
<1>4. \A t \in Slots : g[t].op \in {"create", "close"} => Living(g[t])
  BY DEF Tidy, Orderly, Idle
<1>5. Orderly(g, f[s].id, n)
  BY <1>3, <1>4 DEF Orderly
<1>6. \A c \in Channels : IsOpen(n, c) => f[s].id = c
  <2>1. \A t \in Slots : CreateDone(f[t]) => t = s
    BY <1>1 DEF CreateDone
  <2> QED
    BY <1>1, <2>1 DEF Tidy, Follows, FundingAssumption
<1> QED
  BY <1>1, <1>5, <1>6 DEF Tidy, Follows

\* A channel that was closed is forgotten.
LEMMA ForgetSteps ==
  ASSUME NEW f, NEW g, NEW k \in Channels \cup {None}, NEW n, NEW s \in Slots,
         Tidy(f, k, n), Known(f, k, n), FundingAssumption,
         CloseDone(f[s]), g[s].op = "close", g[s].at = "refresh", g[s].life = f[s].life,
         \A t \in Slots \ {s} : g[t] = f[t]
  PROVE  Tidy(g, None, n)
<1>1. k = f[s].id /\ k # None /\ n[k].is = "closed"
      /\ \A t \in Slots : CloseDone(f[t]) => t = s
  BY DEF Tidy, Orderly, Known, Names, CloseDone, FundingAssumption
<1>2. \A t \in Slots : f[t].op # "create" /\ ~CreateDone(f[t])
  BY <1>1 DEF Tidy, Orderly, CreateDone
<1>3. \A t \in Slots : g[t].op # "create" /\ ~CreateDone(g[t]) /\ ~CloseDone(g[t])
  BY <1>1, <1>2 DEF CreateDone, CloseDone
<1>4. \A t \in Slots : g[t].op \in {"create", "close"} => Living(g[t])
  BY DEF Tidy, Orderly, Living, CloseDone
<1>5. Orderly(g, None, n)
  BY <1>3, <1>4 DEF Orderly
<1>6. \A c \in Channels : ~IsOpen(n, c)
  <2>1. ~IsOpen(n, k)
    BY <1>1 DEF IsOpen
  <2> QED
    BY <1>2, <2>1 DEF Tidy, Follows
<1> QED
  BY <1>5, <1>6 DEF Tidy, Follows

LEMMA StorageInit ==
  ASSUME FundingAssumption, FundingInit
  PROVE  StorageInv
<1>1. \A s \in Slots : calls[s].op = "none"
  BY DEF FundingInit, Idle
<1>2. \A s \in Slots : ~Names(calls[s]) /\ ~CreateDone(calls[s]) /\ ~CloseDone(calls[s])
  BY <1>1 DEF Names, CreateDone, CloseDone
<1>3. stored \in Channels \cup {None}
  BY DEF FundingInit, FundingAssumption
<1>4. \A c \in Channels : chan[c].is = IF c = stored THEN "open" ELSE "none"
  BY DEF FundingInit
<1>5. Known(calls, stored, chan)
  BY <1>2, <1>3, <1>4 DEF Known
<1>6. Follows(calls, stored, chan)
  BY <1>3, <1>4 DEF Follows, IsOpen
<1>7. Orderly(calls, stored, chan)
  BY <1>1, <1>2 DEF Orderly
<1> QED
  BY <1>5, <1>6, <1>7 DEF StorageInv, Tidy

\* A step that leaves the storage alone, and of which it need not hear.
LEMMA MildStep ==
  ASSUME FundingTypeOK, StorageInv, UNCHANGED stored, lapse => lapse',
         \A t \in Slots : Names(calls'[t]) =>
           \/ Names(calls[t]) /\ calls'[t].id = calls[t].id
           \/ stored # None /\ calls'[t].id = stored,
         ~lapse' /\ Orderly(calls, stored, chan) =>
           \A t \in Slots : Mild(calls[t], calls'[t], stored),
         \A c \in Channels :
           chan[c].is = chan'[c].is \/ (IsOpen(chan, c) /\ IsOpen(chan', c))
  PROVE  StorageInv'
<1>1. stored \in Channels \cup {None} /\ Known(calls, stored, chan)
  BY TypeParts DEF KeptTyped, StorageInv
<1>2. \A c \in Channels : chan[c].is # "none" => chan'[c].is # "none"
  BY DEF IsOpen
<1>3. Known(calls', stored', chan')
  <2>1. stored' # None => stored' \in Channels /\ chan'[stored'].is # "none"
    BY <1>1, <1>2 DEF Known
  <2>2. \A t \in Slots : Names(calls[t]) =>
          calls[t].id \in Channels /\ chan'[calls[t].id].is # "none"
    BY <1>1, <1>2 DEF Known
  <2>3. \A t \in Slots : Names(calls'[t]) =>
          calls'[t].id \in Channels /\ chan'[calls'[t].id].is # "none"
    BY <2>1, <2>2
  <2> QED
    BY <2>1, <2>3 DEF Known
<1>4. ASSUME ~lapse'
      PROVE  Tidy(calls', stored', chan')
  <2>1. Tidy(calls, stored, chan)
    BY <1>4 DEF StorageInv
  <2>2. \A t \in Slots : Mild(calls[t], calls'[t], stored)
    BY <1>4, <2>1 DEF Tidy
  <2> QED
    BY <1>1, <2>1, <2>2, MildSteps
<1> QED
  BY <1>3, <1>4 DEF StorageInv

\* One call alone takes such a step.
LEMMA MildCall ==
  ASSUME FundingTypeOK, StorageInv, UNCHANGED <<stored, chan>>, lapse => lapse', NEW s \in Slots,
         \A t \in Slots \ {s} : calls'[t] = calls[t],
         Names(calls'[s]) =>
           \/ Names(calls[s]) /\ calls'[s].id = calls[s].id
           \/ stored # None /\ calls'[s].id = stored,
         ~lapse' /\ Orderly(calls, stored, chan) => Mild(calls[s], calls'[s], stored)
  PROVE  StorageInv'
<1>1. \A t \in Slots \ {s} : Mild(calls[t], calls'[t], stored)
  BY DEF Mild
<1> QED
  BY <1>1, MildStep

LEMMA StoragePage ==
  ASSUME FundingTypeOK, StorageInv, Page
  PROVE  StorageInv'
<1>1. \A s \in Slots : calls[s] \in Handlers
  BY TypeParts, CallTyped
<1>2. CASE ReloadPage
  <2>1. UNCHANGED <<stored, chan>> /\ (lapse => lapse')
    BY <1>2 DEF ReloadPage
  <2>2. \A t \in Slots :
          \/ /\ calls[t].at = "sent" /\ calls'[t].at = "sent"
             /\ calls'[t].op = calls[t].op /\ calls'[t].id = calls[t].id
          \/ calls[t].at # "sent" /\ calls'[t] = Idle
    BY <1>1, <1>2 DEF ReloadPage, Handlers
  <2>3. \A t \in Slots : Names(calls'[t]) => Names(calls[t]) /\ calls'[t].id = calls[t].id
    BY <2>2 DEF Names, CreateDone, Idle
  <2>4. ~lapse' => \A t \in Slots : calls[t].op \in {"create", "close"} =>
                                     calls[t].at \notin {"sent", "mined"}
    BY <1>2 DEF ReloadPage
  <2>5. ~lapse' => \A t \in Slots : Mild(calls[t], calls'[t], stored)
    BY <2>2, <2>4 DEF Mild, Names, CreateDone, CloseDone, Idle
  <2> QED
    BY <2>1, <2>3, <2>5, MildStep
<1>3. CASE ~ReloadPage
  <2>1. UNCHANGED <<stored, chan, lapse>>
    BY <1>3 DEF Page, OpenSheet, CloseSheet, SuccessTimer, TypeAmount, SumReset,
                GoesOnline, GoesOffline, Visit, NewClient, kept
  <2>2. \A t \in Slots :
          /\ calls'[t].op = calls[t].op /\ calls'[t].at = calls[t].at
          /\ calls'[t].id = calls[t].id
          /\ calls'[t].life = calls[t].life \/ calls'[t].life = "page"
    <3>1. CASE UNCHANGED calls
      BY <3>1
    <3>2. CASE \E p \in {"home", "account"} : Visit(p)
      BY <1>1, <3>2 DEF Visit, Handlers
    <3> QED
      BY <1>3, <3>1, <3>2 DEF Page, OpenSheet, CloseSheet, SuccessTimer, TypeAmount, SumReset,
                              GoesOnline, GoesOffline, NewClient
  <2>3. \A t \in Slots : /\ Mild(calls[t], calls'[t], stored)
                         /\ Names(calls'[t]) => Names(calls[t])
    BY <2>2 DEF Mild, Names, CreateDone, Living
  <2> QED
    BY <2>1, <2>2, <2>3, MildStep
<1> QED
  BY <1>2, <1>3

LEMMA StorageClick ==
  ASSUME FundingTypeOK, StorageInv, NEW s \in Slots, Click(s)
  PROVE  StorageInv'
<1>1. CallsTyped(calls) /\ stored \in Channels \cup {None} /\ clientChain \in Chains \cup {None}
  BY TypeParts DEF KeptTyped, ClientsTyped
<1>2. UNCHANGED <<stored, chan, lapse>>
  BY ClickFacts DEF kept
<1>3. CASE UNCHANGED calls
  BY <1>2, <1>3, MildCall DEF Mild
<1>4. CASE \E op \in Ops \ {"none", "create"}, at \in {"asked", "sent", "refresh"} :
             StartOf(s, op, at)
  <2>1. PICK op \in Ops \ {"none", "create"}, at \in {"asked", "sent", "refresh"} :
          StartOf(s, op, at)
    BY <1>4
  <2>2. /\ calls[s] = Idle
        /\ calls'[s].op = op /\ calls'[s].at = at /\ calls'[s].life = "view"
        /\ calls'[s].id = IF op \in {"close", "resize", "challenge"} THEN stored ELSE None
        /\ \A t \in Slots \ {s} : calls'[t] = calls[t]
    BY <1>1, <2>1, StartsTyped DEF StartOf, Stages
  <2>3. op \in {"close", "resize", "challenge"} => stored # None /\ at # "refresh"
    BY <2>1 DEF StartOf
  <2>4. Mild(calls[s], calls'[s], stored)
    BY <2>2, <2>3 DEF Mild, Names, CreateDone, CloseDone, Living, Idle
  <2>5. Names(calls'[s]) => stored # None /\ calls'[s].id = stored
    BY <2>2, <2>3 DEF Names, CreateDone
  <2> QED
    BY <1>2, <2>2, <2>4, <2>5, MildCall
<1> QED
  BY <1>3, <1>4, ClickFacts

\* A call ends that was not the last to know of a channel.
LEMMA StorageEnds ==
  ASSUME FundingTypeOK, StorageInv, NEW s \in Slots, Ends(s), UNCHANGED <<stored, chan>>,
         lapse => lapse',
         ~lapse' /\ Orderly(calls, stored, chan) =>
           ~CreateDone(calls[s]) /\ ~CloseDone(calls[s])
  PROVE  StorageInv'
<1>1. calls'[s] = Idle /\ \A t \in Slots \ {s} : calls'[t] = calls[t]
  BY TypeParts, EndsTyped
<1>2. ~Names(calls'[s])
  BY <1>1 DEF Names, CreateDone, Idle
<1>3. ~lapse' /\ Orderly(calls, stored, chan) => Mild(calls[s], calls'[s], stored)
  BY <1>1, <1>2 DEF Mild, Idle
<1> QED
  BY <1>1, <1>2, <1>3, MildCall

LEMMA StorageGoesOn ==
  ASSUME FundingAssumption, FundingTypeOK, StorageInv, NEW s \in Slots, GoesOn(s)
  PROVE  StorageInv'
<1>1. CallsTyped(calls) /\ stored \in Channels \cup {None} /\ clientChain \in Chains \cup {None}
  BY TypeParts DEF KeptTyped, ClientsTyped
<1>2. Known(calls, stored, chan) /\ (~lapse => Tidy(calls, stored, chan))
  BY DEF StorageInv
<1>3. CASE Deposited(s)
  <2>1. UNCHANGED <<stored, chan>> /\ calls[s].op = "deposit"
    BY <1>3 DEF Deposited
  <2>2. CASE Ends(s) /\ UNCHANGED lapse
    BY <2>1, <2>2, StorageEnds DEF CreateDone, CloseDone
  <2>3. CASE /\ ~Exists(s)
             /\ calls' = [calls EXCEPT ![s].op = "create", ![s].at = "sent",
                                       ![s].chain = clientChain, ![s].seen = FALSE]
             /\ lapse' = (lapse \/ Creating # {})
    <3>1. /\ calls'[s].op = "create" /\ calls'[s].at = "sent"
          /\ calls'[s].life = calls[s].life
          /\ \A t \in Slots \ {s} : calls'[t] = calls[t]
      BY <1>1, <2>3, CreatesTyped
    <3>2. stored = None /\ Living(calls'[s])
      BY <1>3, <2>3, <3>1 DEF Exists, Deposited, Alive, Living
    <3>3. ~Names(calls'[s])
      BY <3>1 DEF Names, CreateDone
    <3>4. \A t \in Slots : Names(calls'[t]) => Names(calls[t]) /\ calls'[t].id = calls[t].id
      BY <3>1, <3>3
    <3>5. Known(calls', stored', chan')
      BY <1>2, <2>1, <3>4 DEF Known
    <3>6. ASSUME ~lapse'
          PROVE  Tidy(calls', stored', chan')
      <4>1. \A t \in Slots : calls[t].op # "create"
        BY <2>3, <3>6 DEF Creating
      <4>2. Tidy(calls, None, chan)
        BY <1>2, <2>3, <3>2, <3>6
      <4>3. Tidy(calls', None, chan)
        BY <2>1, <3>1, <3>2, <4>1, <4>2, CreateSteps
      <4> QED
        BY <2>1, <3>2, <4>3
    <3> QED
      BY <3>5, <3>6 DEF StorageInv
  <2> QED
    BY <1>3, <2>2, <2>3 DEF Deposited
<1>4. CASE Created(s)
  <2>1. /\ Ends(s) /\ UNCHANGED <<chan, lapse>> /\ stored' = calls[s].id
        /\ CreateDone(calls[s])
    BY <1>4 DEF Created, CreateDone
  <2>2. calls'[s] = Idle /\ \A t \in Slots \ {s} : calls'[t] = calls[t]
    BY <1>1, <2>1, EndsTyped
  <2>3. Names(calls[s]) /\ ~Names(calls'[s])
    BY <2>1, <2>2 DEF Names, CreateDone, Idle
  <2>4. \A t \in Slots : Names(calls'[t]) => Names(calls[t]) /\ calls'[t].id = calls[t].id
    BY <2>2, <2>3
  <2>5. Known(calls', stored', chan')
    <3>1. stored' \in Channels /\ chan'[stored'].is # "none"
      BY <1>2, <2>1, <2>3 DEF Known
    <3> QED
      BY <1>2, <2>1, <2>4, <3>1 DEF Known
  <2>6. ~lapse => Tidy(calls', calls[s].id, chan)
    BY <1>1, <1>2, <2>1, <2>2, StoreSteps
  <2> QED
    BY <2>1, <2>5, <2>6 DEF StorageInv
<1>5. CASE Signed(s)
  <2>1. UNCHANGED <<stored, chan, lapse>>
    BY <1>5 DEF Signed, kept
  <2>2. /\ calls[s].at = "asked" /\ calls'[s].op = calls[s].op /\ calls'[s].at = "sent"
        /\ calls'[s].id = calls[s].id /\ calls'[s].life = calls[s].life
        /\ \A t \in Slots \ {s} : calls'[t] = calls[t]
    BY <1>1, <1>5, SignedTyped
  <2>3. Mild(calls[s], calls'[s], stored) /\ (Names(calls'[s]) => Names(calls[s]))
    BY <2>2 DEF Mild, Names, CreateDone, Living
  <2> QED
    BY <2>1, <2>2, <2>3, MildCall
<1>6. CASE Closed(s)
  <2>1. /\ Refreshes(s) /\ UNCHANGED <<chan, lapse>> /\ stored' = None
        /\ CloseDone(calls[s])
    BY <1>6 DEF Closed, CloseDone
  <2>2. /\ calls'[s].op = "close" /\ calls'[s].at = "refresh"
        /\ calls'[s].life = calls[s].life /\ \A t \in Slots \ {s} : calls'[t] = calls[t]
    BY <1>1, <2>1, RefreshesTyped DEF CloseDone
  <2>3. ~Names(calls'[s])
    BY <2>2 DEF Names, CreateDone
  <2>4. \A t \in Slots : Names(calls'[t]) => Names(calls[t]) /\ calls'[t].id = calls[t].id
    BY <2>2, <2>3
  <2>5. Known(calls', stored', chan')
    BY <1>2, <2>1, <2>4 DEF Known
  <2>6. ~lapse => Tidy(calls', None, chan)
    BY <1>1, <1>2, <2>1, <2>2, ForgetSteps
  <2> QED
    BY <2>1, <2>5, <2>6 DEF StorageInv
<1>7. CASE Done(s)
  <2>1. /\ calls[s].op \in {"resize", "challenge", "withdrawal"} /\ Refreshes(s)
        /\ UNCHANGED <<stored, chan, lapse>>
    BY <1>7 DEF Done, kept
  <2>2. /\ calls'[s].op = calls[s].op /\ calls'[s].at = "refresh"
        /\ \A t \in Slots \ {s} : calls'[t] = calls[t]
    BY <1>1, <2>1, RefreshesTyped
  <2>3. Mild(calls[s], calls'[s], stored) /\ ~Names(calls'[s])
    BY <2>1, <2>2 DEF Mild, Names, CreateDone, CloseDone
  <2> QED
    BY <2>1, <2>2, <2>3, MildCall
<1>8. CASE Refreshed(s)
  <2>1. Ends(s) /\ UNCHANGED <<stored, chan, lapse>> /\ calls[s].at = "refresh"
    BY <1>8 DEF Refreshed, kept
  <2> QED
    BY <2>1, StorageEnds DEF CreateDone, CloseDone
<1>9. CASE Fails(s)
  <2>1. /\ Ends(s) /\ UNCHANGED <<stored, chan>> /\ (lapse => lapse')
        /\ ~lapse' => ~(calls[s].op \in {"create", "close"} /\ calls[s].at = "mined")
    BY <1>9 DEF Fails
  <2> QED
    BY <2>1, StorageEnds DEF CreateDone, CloseDone
<1> QED
  BY <1>3, <1>4, <1>5, <1>6, <1>7, <1>8, <1>9 DEF GoesOn

LEMMA StorageContract ==
  ASSUME FundingAssumption, FundingTypeOK, StorageInv, NEW s \in Slots, Contract(s)
  PROVE  StorageInv'
<1>1. CallsTyped(calls) /\ stored \in Channels \cup {None}
  BY TypeParts DEF KeptTyped
<1>2. Known(calls, stored, chan) /\ (~lapse => Tidy(calls, stored, chan))
  BY DEF StorageInv
<1>3. UNCHANGED <<stored, lapse>>
  BY ContractFacts
<1>4. ~lapse /\ calls[s].op \in {"create", "close"} => Alive(s) /\ Living(calls[s])
  BY <1>2 DEF Tidy, Orderly, Living, Alive
\* What is mined is neither a creation nor a close: it is not heard of.
<1>5. ASSUME calls[s].op \notin {"create", "close"},
             \E i \in Channels \cup {None} : i = calls[s].id /\ Mined(s, i),
             \A c \in Channels :
               chan[c].is = chan'[c].is \/ (IsOpen(chan, c) /\ IsOpen(chan', c))
      PROVE  StorageInv'
  <2>1. /\ calls[s].at = "sent" /\ \A t \in Slots \ {s} : calls'[t] = calls[t]
        /\ \/ /\ calls'[s].op = calls[s].op /\ calls'[s].at = "mined"
              /\ calls'[s].id = calls[s].id
           \/ calls'[s] = Idle
    BY <1>1, <1>5, MinedTyped
  <2>2. Mild(calls[s], calls'[s], stored)
    BY <1>5, <2>1 DEF Mild, Names, CreateDone, CloseDone, Idle
  <2>3. Names(calls'[s]) => Names(calls[s]) /\ calls'[s].id = calls[s].id
    BY <1>5, <2>1 DEF Names, CreateDone, Idle
  <2>4. \A t \in Slots \ {s} : Mild(calls[t], calls'[t], stored)
    BY <2>1 DEF Mild
  <2> QED
    BY <1>3, <1>5, <2>1, <2>2, <2>3, <2>4, MildStep
<1>6. CASE UNCHANGED chan /\ calls[s].op \notin {"create", "close"}
           /\ \E i \in Channels \cup {None} : i = calls[s].id /\ Mined(s, i)
  BY <1>5, <1>6
<1>7. CASE calls[s].life = "lost" /\ Ends(s) /\ UNCHANGED chan
  <2>1. Orderly(calls, stored, chan) => calls[s].op \notin {"create", "close"}
    BY <1>7 DEF Orderly, Living
  <2> QED
    BY <1>3, <1>7, <2>1, StorageEnds DEF CreateDone, CloseDone
<1>8. CASE /\ calls[s].op = "create"
           /\ \E i \in Channels :
                /\ chan[i].is = "none" /\ Mined(s, i) /\ chan'[i].is = "open"
                /\ \A d \in Channels \ {i} : chan'[d] = chan[d]
  <2>1. PICK i \in Channels :
               /\ chan[i].is = "none" /\ Mined(s, i) /\ chan'[i].is = "open"
               /\ \A d \in Channels \ {i} : chan'[d] = chan[d]
    BY <1>8
  <2>2. /\ calls[s].at = "sent" /\ \A t \in Slots \ {s} : calls'[t] = calls[t]
        /\ Alive(s) => /\ calls'[s].op = calls[s].op /\ calls'[s].at = "mined"
                       /\ calls'[s].id = i /\ calls'[s].life = calls[s].life
        /\ ~Alive(s) => calls'[s] = Idle
    BY <1>1, <2>1, MinedTyped
  <2>3. Known(calls', stored', chan')
    <3>1. \A c \in Channels : chan[c].is # "none" => chan'[c].is # "none"
      BY <2>1
    <3>2. stored' # None => chan'[stored'].is # "none"
      BY <1>1, <1>2, <1>3, <3>1 DEF Known
    <3>3. \A t \in Slots \ {s} : Names(calls'[t]) =>
            calls'[t].id \in Channels /\ chan'[calls'[t].id].is # "none"
      BY <1>2, <2>2, <3>1 DEF Known
    <3>4. Names(calls'[s]) => calls'[s].id = i
      BY <2>2 DEF Names, CreateDone, Idle
    <3> QED
      BY <2>1, <3>2, <3>3, <3>4 DEF Known
  <2>4. ASSUME ~lapse
        PROVE  Tidy(calls', stored, chan')
    <3>1. CreateDone(calls'[s]) /\ Living(calls'[s]) /\ calls'[s].id = i
      BY <1>4, <1>8, <2>2, <2>4 DEF CreateDone, Living
    <3>2. Tidy(calls, stored, chan)
      BY <1>2, <2>4
    <3> QED
      BY <1>1, <1>2, <1>8, <2>1, <2>2, <3>1, <3>2, CreateDoneSteps
  <2> QED
    BY <1>3, <2>3, <2>4 DEF StorageInv
<1>9. CASE /\ calls[s].op \in {"close", "challenge"}
           /\ \E i \in Channels \cup {None} : i = calls[s].id /\ Mined(s, i)
           /\ LET i == calls[s].id
              IN /\ chan[i].is \in {"open", "challenged"}
                 /\ i \in Channels =>
                      chan'[i].is = IF calls[s].op = "close" THEN "closed" ELSE "challenged"
                 /\ \A d \in Channels \ {i} : chan'[d] = chan[d]
  <2>1. calls[s].at = "sent"
    BY <1>1, <1>9, MinedTyped
  <2>2. Names(calls[s])
    BY <1>9, <2>1 DEF Names
  <2>3. PICK i \in Channels : i = calls[s].id
    BY <1>2, <2>2 DEF Known
  <2>4. /\ Mined(s, i) /\ IsOpen(chan, i)
        /\ chan'[i].is = IF calls[s].op = "close" THEN "closed" ELSE "challenged"
        /\ \A d \in Channels \ {i} : chan'[d] = chan[d]
    BY <1>9, <2>3 DEF IsOpen
  <2>5. CASE calls[s].op = "challenge"
    <3>1. \A c \in Channels :
            chan[c].is = chan'[c].is \/ (IsOpen(chan, c) /\ IsOpen(chan', c))
      BY <2>4, <2>5 DEF IsOpen
    <3> QED
      BY <1>5, <1>9, <2>5, <3>1
  <2>6. CASE calls[s].op = "close"
    <3>1. /\ \A t \in Slots \ {s} : calls'[t] = calls[t]
          /\ Alive(s) => /\ calls'[s].op = calls[s].op /\ calls'[s].at = "mined"
                         /\ calls'[s].id = i /\ calls'[s].life = calls[s].life
          /\ ~Alive(s) => calls'[s] = Idle
      BY <1>1, <2>4, MinedTyped
    <3>2. Known(calls', stored', chan')
      <4>1. \A c \in Channels : chan[c].is # "none" => chan'[c].is # "none"
        BY <2>4, <2>6
      <4>2. stored' # None => chan'[stored'].is # "none"
        BY <1>1, <1>2, <1>3, <4>1 DEF Known
      <4>3. \A t \in Slots \ {s} : Names(calls'[t]) =>
              calls'[t].id \in Channels /\ chan'[calls'[t].id].is # "none"
        BY <1>2, <3>1, <4>1 DEF Known
      <4>4. Names(calls'[s]) => calls'[s].id = i
        BY <3>1 DEF Names, CreateDone, Idle
      <4> QED
        BY <2>4, <2>6, <4>2, <4>3, <4>4 DEF Known
    <3>3. ASSUME ~lapse
          PROVE  Tidy(calls', stored, chan')
      <4>1. CloseDone(calls'[s]) /\ Living(calls'[s]) /\ calls'[s].id = i
        BY <1>4, <2>6, <3>1, <3>3 DEF CloseDone, Living
      <4>2. Closing(calls[s]) /\ Tidy(calls, stored, chan)
        BY <1>2, <2>1, <2>6, <3>3 DEF Closing
      <4>3. chan'[i].is = "closed"
        BY <2>4, <2>6
      <4> QED
        BY <1>1, <2>3, <2>4, <3>1, <4>1, <4>2, <4>3, CloseDoneSteps
    <3> QED
      BY <1>3, <3>2, <3>3 DEF StorageInv
  <2> QED
    BY <1>9, <2>5, <2>6
<1> QED
  BY <1>6, <1>7, <1>8, <1>9, ContractFacts

LEMMA StorageStep ==
  ASSUME FundingAssumption, FundingTypeOK, StorageInv, [FundingNext]_fundingVars
  PROVE  StorageInv'
<1>1. CASE UNCHANGED fundingVars
  BY <1>1 DEF fundingVars, kept, StorageInv, Known, Tidy, Orderly, Follows, IsOpen
<1>2. CASE FundingNext
  BY <1>2, StorageClick, StoragePage, StorageGoesOn, StorageContract DEF FundingNext
<1> QED
  BY <1>1, <1>2

-----------------------------------------------------------------------------
LEMMA Inductive ==
  ASSUME FundingAssumption
  PROVE  FundingSpec => [](FundingTypeOK /\ Refreshing /\ SpinnersTurn /\ StorageInv)
<1> DEFINE IInv == FundingTypeOK /\ Refreshing /\ SpinnersTurn /\ StorageInv
<1>1. ASSUME FundingInit
      PROVE  IInv
  <2>1. Refreshing /\ SpinnersTurn
    BY <1>1 DEF FundingInit, Refreshing, SpinnersTurn, Idle
  <2> QED
    BY <1>1, <2>1, TypeInit, StorageInit
<1>2. ASSUME IInv, [FundingNext]_fundingVars
      PROVE  IInv'
  BY <1>2, TypeStep, RefreshingStep, SpinnersStep, StorageStep
<1> QED
  BY <1>1, <1>2, PTL DEF FundingSpec

\* Every variable of the account page and of the deposit sheet has a value the
\* code gives it, and a slot without a handler is empty
\* (src/frontend/src/components/account/AccountInterface.tsx,
\* src/frontend/src/components/wallet/clearnet/Deposit.tsx).
THEOREM FundingTypeCorrect ==
  ASSUME FundingAssumption
  PROVE  FundingSpec => []FundingTypeOK
<1>1. FundingSpec => [](FundingTypeOK /\ Refreshing /\ SpinnersTurn /\ StorageInv)
  BY Inductive
<1> QED
  BY <1>1, PTL

\* Whatever turns has a call behind it: the "Processing" of the sheet a
\* deposit or a creation started in this sheet, the flags of the account
\* page's buttons a call of this page, however many calls run at a time and
\* whichever pages come and go (src/frontend/src/components/wallet/clearnet/Deposit.tsx,
\* src/frontend/src/components/account/AccountInterface.tsx).
THEOREM EverySpinnerTurns ==
  ASSUME FundingAssumption
  PROVE  FundingSpec => []SpinnersTurn
<1>1. FundingSpec => [](FundingTypeOK /\ Refreshing /\ SpinnersTurn /\ StorageInv)
  BY Inductive
<1> QED
  BY <1>1, PTL

\* The browser's storage knows the user's channel: as long as no two creations
\* overlap and no answer of the contract is lost, an open channel is the stored
\* one or about to be stored, and a stored channel is open or about to be
\* forgotten, for any number of networks, channels and handlers at a time
\* (saveChannelToStorage of src/frontend/src/hooks/channel/useChannelCreate.ts,
\* clearStoredChannel of src/frontend/src/hooks/channel/useChannelClose.ts).
THEOREM StorageKnowsChannel ==
  ASSUME FundingAssumption
  PROVE  FundingSpec => []StorageFollowsChain
<1>1. FundingSpec => [](FundingTypeOK /\ Refreshing /\ SpinnersTurn /\ StorageInv)
  BY Inductive
<1>2. StorageInv => StorageFollowsChain
  BY FollowsIs DEF StorageInv, Tidy
<1> QED
  BY <1>1, <1>2, PTL

-----------------------------------------------------------------------------
(* The page as a whole.                                                    *)

viewsVars == <<part, fundingVars, clientsVars, scannerVars, homeVars, amountsVars,
               messagesVars>>

\* A behaviour of the page that moves a part is one of that part, which is
\* never another, so that what is proved of the parts is true of the page that
\* is checked.
THEOREM PartsMoveAlone ==
  /\ Spec => (part = "channels" => FundingSpec)
  /\ Spec => (part = "keys" => ClientsSpec)
  /\ Spec => (part = "sheet" => ScannerSpec)
  /\ Spec => (part = "pages" => HomeSpec)
  /\ Spec => (part = "sums" => AmountsSpec)
  /\ Spec => (part = "list" => MessagesSpec)
<1>1. [Next]_viewsVars => part' = part
  BY DEF Next, viewsVars
<1>2. Spec => (part = "channels" => FundingSpec)
  <2>1. Init /\ part = "channels" => FundingInit
    BY DEF Init
  <2>2. part = "channels" /\ [Next]_viewsVars => [FundingNext]_fundingVars
    BY DEF Next, viewsVars
  <2>3. part = "channels" /\ [Next]_viewsVars => (part = "channels")'
    BY <1>1
  <2> QED
    BY <2>1, <2>2, <2>3, PTL DEF Spec, viewsVars, FundingSpec
<1>3. Spec => (part = "keys" => ClientsSpec)
  <2>1. Init /\ part = "keys" => ClientsInit
    BY DEF Init
  <2>2. part = "keys" /\ [Next]_viewsVars => [ClientsNext]_clientsVars
    BY DEF Next, viewsVars
  <2>3. part = "keys" /\ [Next]_viewsVars => (part = "keys")'
    BY <1>1
  <2> QED
    BY <2>1, <2>2, <2>3, PTL DEF Spec, viewsVars, ClientsSpec
<1>4. Spec => (part = "sheet" => ScannerSpec)
  <2>1. Init /\ part = "sheet" => ScannerInit
    BY DEF Init
  <2>2. part = "sheet" /\ [Next]_viewsVars => [ScannerNext]_scannerVars
    BY DEF Next, viewsVars
  <2>3. part = "sheet" /\ [Next]_viewsVars => (part = "sheet")'
    BY <1>1
  <2> QED
    BY <2>1, <2>2, <2>3, PTL DEF Spec, viewsVars, ScannerSpec
<1>5. Spec => (part = "pages" => HomeSpec)
  <2>1. Init /\ part = "pages" => HomeInit
    BY DEF Init
  <2>2. part = "pages" /\ [Next]_viewsVars => [HomeNext]_homeVars
    BY DEF Next, viewsVars
  <2>3. part = "pages" /\ [Next]_viewsVars => (part = "pages")'
    BY <1>1
  <2> QED
    BY <2>1, <2>2, <2>3, PTL DEF Spec, viewsVars, HomeSpec
<1>6. Spec => (part = "sums" => AmountsSpec)
  <2>1. Init /\ part = "sums" => AmountsInit
    BY DEF Init
  <2>2. part = "sums" /\ [Next]_viewsVars => [AmountsNext]_amountsVars
    BY DEF Next, viewsVars
  <2>3. part = "sums" /\ [Next]_viewsVars => (part = "sums")'
    BY <1>1
  <2> QED
    BY <2>1, <2>2, <2>3, PTL DEF Spec, viewsVars, AmountsSpec
<1>7. Spec => (part = "list" => MessagesSpec)
  <2>1. Init /\ part = "list" => MessagesInit
    BY DEF Init
  <2>2. part = "list" /\ [Next]_viewsVars => [MessagesNext]_messagesVars
    BY DEF Next, viewsVars
  <2>3. part = "list" /\ [Next]_viewsVars => (part = "list")'
    BY <1>1
  <2> QED
    BY <2>1, <2>2, <2>3, PTL DEF Spec, viewsVars, MessagesSpec
<1> QED
  BY <1>2, <1>3, <1>4, <1>5, <1>6, <1>7

\* Every variable of every part has a value the code gives it.
\* (the components, hooks and stores of src/frontend/src)
THEOREM TypesOfParts ==
  ASSUME FundingAssumption, ClientsAssumption, ScannerAssumption, HomeAssumption,
         AmountsAssumption, MessagesAssumption
  PROVE  Spec => []TypeOK
<1>1. [Next]_viewsVars => part' = part
  BY DEF Next, viewsVars
<1>2. Spec => [](part = "channels" => FundingTypeOK)
  <2>1. Spec => (part = "channels" => FundingSpec)
    BY PartsMoveAlone
  <2>3. FundingSpec => []FundingTypeOK
    BY FundingTypeCorrect
  <2>4. ~(part = "channels") /\ [Next]_viewsVars => (~(part = "channels"))'
    BY <1>1
  <2> QED
    BY <2>1, <2>3, <2>4, PTL DEF Spec, viewsVars
<1>3. Spec => [](part = "keys" => ClientsTypeOK)
  <2>1. Spec => (part = "keys" => ClientsSpec)
    BY PartsMoveAlone
  <2>2. KeysInv => ClientsTypeOK
    BY DEF KeysInv
  <2>3. ClientsSpec => []ClientsTypeOK
    BY <2>2, KeysInductive, PTL
  <2>4. ~(part = "keys") /\ [Next]_viewsVars => (~(part = "keys"))'
    BY <1>1
  <2> QED
    BY <2>1, <2>3, <2>4, PTL DEF Spec, viewsVars
<1>4. Spec => [](part = "sheet" => ScannerTypeOK)
  <2>1. Spec => (part = "sheet" => ScannerSpec)
    BY PartsMoveAlone
  <2>2. SheetInv => ScannerTypeOK
    BY DEF SheetInv
  <2>3. ScannerSpec => []ScannerTypeOK
    BY <2>2, SheetInductive, PTL
  <2>4. ~(part = "sheet") /\ [Next]_viewsVars => (~(part = "sheet"))'
    BY <1>1
  <2> QED
    BY <2>1, <2>3, <2>4, PTL DEF Spec, viewsVars
<1>5. Spec => [](part = "pages" => HomeTypeOK)
  <2>1. Spec => (part = "pages" => HomeSpec)
    BY PartsMoveAlone
  <2>2. PagesInv => HomeTypeOK
    BY DEF PagesInv
  <2>3. HomeSpec => []HomeTypeOK
    BY <2>2, PagesInductive, PTL
  <2>4. ~(part = "pages") /\ [Next]_viewsVars => (~(part = "pages"))'
    BY <1>1
  <2> QED
    BY <2>1, <2>3, <2>4, PTL DEF Spec, viewsVars
<1>6. Spec => [](part = "sums" => AmountsTypeOK)
  <2>1. Spec => (part = "sums" => AmountsSpec)
    BY PartsMoveAlone
  <2>2. AmountsInv => AmountsTypeOK
    BY DEF AmountsInv
  <2>3. AmountsSpec => []AmountsTypeOK
    BY <2>2, SumsInductive, PTL
  <2>4. ~(part = "sums") /\ [Next]_viewsVars => (~(part = "sums"))'
    BY <1>1
  <2> QED
    BY <2>1, <2>3, <2>4, PTL DEF Spec, viewsVars
<1>7. Spec => [](part = "list" => MessagesTypeOK)
  <2>1. Spec => (part = "list" => MessagesSpec)
    BY PartsMoveAlone
  <2>2. ListInv => MessagesTypeOK
    BY DEF ListInv
  <2>3. MessagesSpec => []MessagesTypeOK
    BY <2>2, ListInductive, PTL
  <2>4. ~(part = "list") /\ [Next]_viewsVars => (~(part = "list"))'
    BY <1>1
  <2> QED
    BY <2>1, <2>3, <2>4, PTL DEF Spec, viewsVars
<1>8. TypeOK <=>
        /\ part = "channels" => FundingTypeOK
        /\ part = "keys" => ClientsTypeOK
        /\ part = "sheet" => ScannerTypeOK
        /\ part = "pages" => HomeTypeOK
        /\ part = "sums" => AmountsTypeOK
        /\ part = "list" => MessagesTypeOK
  BY DEF TypeOK
<1> QED
  BY <1>2, <1>3, <1>4, <1>5, <1>6, <1>7, <1>8, PTL
=============================================================================

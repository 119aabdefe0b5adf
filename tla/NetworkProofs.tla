--------------------------- MODULE NetworkProofs ---------------------------
(***************************************************************************)
(* What the client shows of account, network and balances settles, for any *)
(* number of accounts, networks and questions under way.                   *)
(*                                                                         *)
(* The balances that are shown were asked for some steps before.  Asking   *)
(* says that the newest question that waits is the right one to settle     *)
(* with, which holds although questions are asked by six handlers and for  *)
(* captured accounts, because the sheet's effect asks again whenever       *)
(* sheet, account, network or list change.  Wiring says which build asks   *)
(* the wallet what.                                                        *)
(***************************************************************************)
EXTENDS Network, DataTheorems

\* The answer to q is what the sheet is to show.
Settles(q) ==
  /\ q.chain = activeChain /\ q.tokens = assets
  /\ provider = "metamask" => q.who = address

Asking ==
  newest = "asked" =>
    /\ asked.balances # <<>>
    /\ sheet /\ Connected => Settles(Last(asked.balances))

\* There is one provider in each build, and it is asked only its own questions.
Wiring ==
  /\ provider = IF Connected THEN build ELSE "none"
  /\ \A i \in DOMAIN calls :
       build = IF calls[i].op = "privy" THEN "privy" ELSE "metamask"

Settling == Wiring /\ Asking /\ LoadingTracked /\ NewestShown /\ AccountKnowsLogout

IInv == TypeOK /\ Settling

-----------------------------------------------------------------------------
(* Sequences.                                                              *)

\* The last element of a sequence that one element is taken out of.
LEMMA LastOfRemoveAt ==
  ASSUME NEW S, NEW s \in Seq(S), NEW i \in 1 .. Len(s), i < Len(s)
  PROVE  RemoveAt(s, i) # <<>> /\ Last(RemoveAt(s, i)) = Last(s)
<1>1. Len(RemoveAt(s, i)) = Len(s) - 1 /\ Len(s) - 1 \in i .. Len(s)
  BY RemoveAtProperties
<1>2. RemoveAt(s, i)[Len(s) - 1] = s[Len(s)]
  BY SMTT(30), <1>1, RemoveAtProperties
<1>3. RemoveAt(s, i) # <<>>
  BY <1>1
<1> QED
  BY <1>1, <1>2, <1>3 DEF Last

\* Appending a sequence.
LEMMA ConcatLast ==
  ASSUME NEW S, NEW s \in Seq(S), NEW t \in Seq(S)
  PROVE  /\ s \o t \in Seq(S)
         /\ t = <<>> => s \o t = s
         /\ t # <<>> => s \o t # <<>> /\ Last(s \o t) = Last(t)
         /\ \A i \in DOMAIN (s \o t) :
              \/ i \in DOMAIN s /\ (s \o t)[i] = s[i]
              \/ i - Len(s) \in DOMAIN t /\ (s \o t)[i] = t[i - Len(s)]
<1>1. /\ s \o t \in Seq(S) /\ Len(s \o t) = Len(s) + Len(t)
      /\ \A i \in 1 .. Len(s) + Len(t) :
           (s \o t)[i] = IF i <= Len(s) THEN s[i] ELSE t[i - Len(s)]
  BY ConcatProperties
<1>2. t = <<>> => s \o t = s
  BY ConcatEmptySeq
<1>3. ASSUME t # <<>>
      PROVE  s \o t # <<>> /\ Last(s \o t) = Last(t)
  <2>1. Len(t) > 0
    BY <1>3
  <2>2. s \o t # <<>>
    BY <1>1, <2>1
  <2>3. (s \o t)[Len(s) + Len(t)] = t[Len(t)]
    BY <1>1, <2>1
  <2> QED
    BY <1>1, <2>2, <2>3 DEF Last
<1>4. ASSUME NEW i \in DOMAIN (s \o t)
      PROVE  \/ i \in DOMAIN s /\ (s \o t)[i] = s[i]
             \/ i - Len(s) \in DOMAIN t /\ (s \o t)[i] = t[i - Len(s)]
  <2>1. i \in 1 .. Len(s) + Len(t)
    BY <1>1
  <2>2. CASE i <= Len(s)
    BY <1>1, <2>1, <2>2
  <2>3. CASE ~(i <= Len(s))
    BY <1>1, <2>1, <2>3
  <2> QED
    BY <2>2, <2>3
<1> QED
  BY <1>1, <1>2, <1>3, <1>4

-----------------------------------------------------------------------------
(* What is asked.                                                          *)

\* The sheet asks for what it is to show, unless nothing it depends on changed.
LEMMA SheetAsks ==
  ASSUME NEW m \in BOOLEAN, address' \in Accounts \cup {None},
         activeChain' \in Chains, assets' \in Chains \cup {None}
  PROVE  /\ SheetBalances(m) \in Seq(Queries)
         /\ SheetBalances(m) # <<>> =>
              \A q \in Queries : q = Last(SheetBalances(m)) => Settles(q)'
         /\ SheetBalances(m) = <<>> /\ sheet' /\ address' # None =>
              ~m /\ UNCHANGED <<sheet, address, activeChain>>
<1> DEFINE q == [who |-> address', chain |-> activeChain', tokens |-> assets']
<1>1. CASE SheetBalances(m) = <<>>
  <2>1. sheet' /\ address' # None => ~m /\ UNCHANGED <<sheet, address, activeChain>>
    BY <1>1 DEF SheetBalances
  <2> QED
    BY <1>1, <2>1
<1>2. CASE SheetBalances(m) = <<q>> /\ address' # None
  <2>1. q \in Queries
    BY <1>2 DEF Queries
  <2>2. \A x \in Queries : x = q => Settles(x)'
    BY DEF Settles
  <2> HIDE DEF q
  <2>3. <<q>> \in Seq(Queries) /\ <<q>> # <<>> /\ Last(<<q>>) = q
    BY <2>1 DEF Last
  <2> QED
    BY <1>2, <2>2, <2>3
<1> QED
  BY <1>1, <1>2 DEF SheetBalances

LEMMA CallProperties ==
  ASSUME TypeOK, NEW op \in {"connect", "reconnect", "switch", "privy"},
         NEW c \in Chains
  PROVE  /\ Call(op, c) \in Seq(Calls)
         /\ \A i \in DOMAIN Call(op, c) : Call(op, c)[i].op = op
<1>1. [op |-> op, chain |-> c, who |-> address, granted |-> FALSE] \in Calls
  BY DEF Calls, TypeOK
<1> QED
  BY <1>1 DEF Call

LEMMA ReconnectsProperties ==
  ASSUME TypeOK, NEW m \in BOOLEAN, activeChain' \in Chains
  PROVE  /\ Reconnects(m) \in Seq(Calls)
         /\ \A i \in DOMAIN Reconnects(m) :
              Reconnects(m)[i].op = "reconnect" /\ build = "metamask"
<1>1. CASE Reconnects(m) = <<>>
  BY <1>1
<1>2. CASE build = "metamask" /\ Reconnects(m) = Call("reconnect", activeChain')
  BY <1>2, CallProperties
<1> QED
  BY <1>1, <1>2 DEF Reconnects

-----------------------------------------------------------------------------
(* A change of the stores, with all that is asked because of it.           *)

\* What the code that makes a change sets.
StoresOK ==
  /\ page \in {"home", "account"} /\ sheet \in BOOLEAN
  /\ authenticated \in BOOLEAN /\ saved \in BOOLEAN
  /\ address \in Accounts \cup {None} /\ activeChain \in Chains
  /\ wallet \in [shows : Accounts \cup {None}, chain : Chains \cup Foreign]
  /\ provider = IF Connected THEN build ELSE "none"
  /\ changes \in 0..MaxChanges
  /\ AccountKnowsLogout

\* The questions that wait for the wallet are of the build.
OfBuild(s) ==
  \A i \in DOMAIN s : build = IF s[i].op = "privy" THEN "privy" ELSE "metamask"

LEMMA EffectsAssets ==
  ASSUME IInv, NEW as \in Seq(Chains), NEW bs, NEW w, NEW m,
         Effects(as, bs, w, m), activeChain' \in Chains
  PROVE  /\ asked'.assets \in Seq(Chains)
         /\ loading'.assets \in BOOLEAN
         /\ loading'.assets => asked'.assets # <<>>
<1> DEFINE more == IF FirstList \/ NewList THEN <<activeChain'>> ELSE <<>>
           whole == as \o more
<1>1. more \in Seq(Chains)
  OBVIOUS
<1>2. asked'.assets = asked.assets \o whole
  BY DEF Effects
<1>3. loading'.assets = (loading.assets \/ whole # <<>>)
  BY Zenon DEF Effects
<1>4. asked.assets \in Seq(Chains)
  BY DEF IInv, TypeOK
<1> HIDE DEF more
<1>5. whole \in Seq(Chains)
  BY <1>1, ConcatLast
<1> HIDE DEF whole
<1>6. /\ asked'.assets \in Seq(Chains)
      /\ whole = <<>> => asked'.assets = asked.assets
      /\ whole # <<>> => asked'.assets # <<>>
  BY <1>2, <1>4, <1>5, ConcatLast
<1>7. loading.assets => asked.assets # <<>>
  BY DEF IInv, Settling, LoadingTracked
<1>8. loading'.assets \in BOOLEAN
  BY <1>3, Zenon
<1>9. loading'.assets => loading.assets \/ whole # <<>>
  BY <1>3, Zenon
<1> QED
  BY <1>6, <1>7, <1>8, <1>9

LEMMA EffectsBalances ==
  ASSUME IInv, NEW as, NEW bs \in Seq(Queries), NEW w, NEW m \in BOOLEAN,
         Effects(as, bs, w, m), StoresOK',
         bs # <<>> /\ sheet' /\ address' # None
           /\ UNCHANGED <<sheet, address, activeChain>> =>
             \A q \in Queries : q = Last(bs) => Settles(q)'
  PROVE  /\ asked'.balances \in Seq(Queries)
         /\ loading'.balances \in BOOLEAN
         /\ loading'.balances => asked'.balances # <<>>
         /\ newest' \in {"asked", "shown", "lost"}
         /\ Asking' /\ NewestShown'
<1> DEFINE sa == SheetBalances(m)
           more == bs \o sa
<1>1. /\ UNCHANGED <<build, assets>>
      /\ balances' = IF NewList THEN None ELSE balances
      /\ asked'.balances = asked.balances \o more
      /\ newest' = Noted(newest, more)
      /\ loading'.balances = (\/ sa # <<>>
                              \/ ~NewList /\ (loading.balances \/ more # <<>>))
  BY DEF Effects
<1>2. asked.balances \in Seq(Queries) /\ newest \in {"asked", "shown", "lost"}
      /\ assets' \in Chains \cup {None} /\ loading.balances \in BOOLEAN
  BY <1>1 DEF IInv, TypeOK
<1>3. /\ sa \in Seq(Queries)
      /\ sa # <<>> => \A q \in Queries : q = Last(sa) => Settles(q)'
      /\ sa = <<>> /\ sheet' /\ address' # None =>
           UNCHANGED <<sheet, address, activeChain>>
  BY <1>2, SheetAsks DEF StoresOK
<1> HIDE DEF sa
<1>4. more \in Seq(Queries) /\ (sa = <<>> => more = bs)
      /\ (sa # <<>> => more # <<>> /\ Last(more) = Last(sa))
  BY <1>3, ConcatLast
<1> HIDE DEF more
<1>5. /\ asked'.balances \in Seq(Queries)
      /\ more = <<>> => asked'.balances = asked.balances
      /\ more # <<>> => asked'.balances # <<>> /\ Last(asked'.balances) = Last(more)
  BY <1>1, <1>2, <1>4, ConcatLast
<1>6. loading'.balances \in BOOLEAN
  BY <1>1, Zenon
<1>7. loading'.balances => asked'.balances # <<>>
  <2>1. loading.balances => asked.balances # <<>>
    BY DEF IInv, Settling, LoadingTracked
  <2> QED
    BY <1>1, <1>4, <1>5, <2>1
<1>8. newest' \in {"asked", "shown", "lost"}
  BY <1>1, <1>2 DEF Noted
<1>9. CASE more # <<>>
  <2>1. newest' = "asked"
    BY <1>1, <1>9 DEF Noted
  <2>2. Last(more) \in Queries
    BY <1>4, <1>9 DEF Last
  <2>3. sheet' /\ address' # None => \A q \in Queries : q = Last(more) => Settles(q)'
    BY <1>3, <1>4, <1>9
  <2>4. sheet' /\ address' # None => Settles(Last(asked.balances))'
    BY <1>5, <1>9, <2>2, <2>3 DEF Settles
  <2> QED
    BY <1>5, <1>6, <1>7, <1>8, <1>9, <2>1, <2>4 DEF Asking, NewestShown, Connected
<1>10. CASE more = <<>>
  <2>1. newest' = newest /\ asked'.balances = asked.balances /\ sa = <<>>
    BY <1>1, <1>4, <1>5, <1>10 DEF Noted
  <2>2. CASE ~(sheet' /\ address' # None)
    <3>1. newest' = "asked" => asked'.balances # <<>>
      BY <2>1 DEF IInv, Settling, Asking
    <3> QED
      BY <1>5, <1>6, <1>7, <1>8, <2>2, <3>1 DEF Asking, NewestShown, Connected
  <2>3. CASE sheet' /\ address' # None
    <3>1. UNCHANGED <<sheet, address, activeChain>>
      BY <1>3, <2>1, <2>3
    <3>2. provider' = provider /\ ~NewList
      BY <1>1, <3>1 DEF StoresOK, Connected, NewList, IInv, Settling, Wiring
    <3>3. UNCHANGED <<sheet, address, activeChain, assets, provider, balances,
                      newest, asked.balances>>
      BY <1>1, <2>1, <3>1, <3>2
    <3>4. Asking' /\ NewestShown'
      BY <3>3 DEF IInv, Settling, Asking, NewestShown, Settles, Connected
    <3> QED
      BY <1>5, <1>6, <1>7, <1>8, <3>4
  <2> QED
    BY <2>2, <2>3
<1> QED
  BY <1>9, <1>10

LEMMA EffectsCalls ==
  ASSUME IInv, NEW as, NEW bs, NEW w \in Seq(Calls), NEW m \in BOOLEAN,
         Effects(as, bs, w, m), activeChain' \in Chains, OfBuild(w)
  PROVE  calls' \in Seq(Calls) /\ OfBuild(calls)'
<1>1. calls' = w \o Reconnects(m) /\ build' = build
  BY DEF Effects
<1>2. /\ Reconnects(m) \in Seq(Calls)
      /\ \A i \in DOMAIN Reconnects(m) :
           Reconnects(m)[i].op = "reconnect" /\ build = "metamask"
  BY ReconnectsProperties DEF IInv
<1>3. calls' \in Seq(Calls)
  BY <1>1, <1>2, ConcatLast
<1>4. ASSUME NEW i \in DOMAIN calls'
      PROVE  build = IF calls'[i].op = "privy" THEN "privy" ELSE "metamask"
  <2>1. \/ i \in DOMAIN w /\ calls'[i] = w[i]
        \/ i - Len(w) \in DOMAIN Reconnects(m)
             /\ calls'[i] = Reconnects(m)[i - Len(w)]
    BY <1>1, <1>2, <1>4, ConcatLast
  <2> QED
    BY <1>2, <2>1 DEF OfBuild
<1> QED
  BY <1>1, <1>3, <1>4 DEF OfBuild

LEMMA EffectsKeep ==
  ASSUME IInv, NEW as \in Seq(Chains), NEW bs \in Seq(Queries),
         NEW w \in Seq(Calls), NEW m \in BOOLEAN,
         Effects(as, bs, w, m), StoresOK', OfBuild(w),
         bs # <<>> /\ sheet' /\ address' # None
           /\ UNCHANGED <<sheet, address, activeChain>> =>
             \A q \in Queries : q = Last(bs) => Settles(q)'
  PROVE  IInv'
<1>1. activeChain' \in Chains
  BY DEF StoresOK
<1>2. /\ UNCHANGED <<build, named, assets>>
      /\ prevChain' \in {prevChain, activeChain'} /\ balances' \in {None, balances}
      /\ asked' = [assets |-> asked'.assets, balances |-> asked'.balances]
      /\ loading' = [assets |-> loading'.assets, balances |-> loading'.balances]
  BY DEF Effects
<1>3. /\ asked' \in [assets : Seq(Chains), balances : Seq(Queries)]
      /\ loading' \in [assets : BOOLEAN, balances : BOOLEAN]
      /\ newest' \in {"asked", "shown", "lost"} /\ calls' \in Seq(Calls)
  BY ZenonT(60), <1>1, <1>2, EffectsAssets, EffectsBalances, EffectsCalls
<1>4. provider' \in {"privy", "metamask", "none"}
  BY <1>2, NetworkAssumption DEF StoresOK, IInv, TypeOK
<1>5. TypeOK'
  BY <1>2, <1>3, <1>4 DEF IInv, TypeOK, StoresOK
<1>6. Wiring'
  BY <1>1, EffectsCalls DEF Wiring, OfBuild, StoresOK
<1>7. LoadingTracked' /\ Asking' /\ NewestShown'
  BY <1>1, EffectsAssets, EffectsBalances DEF LoadingTracked
<1> QED
  BY <1>5, <1>6, <1>7 DEF IInv, Settling, StoresOK

-----------------------------------------------------------------------------
(* The steps.                                                              *)

LEMMA InitIInv ==
  ASSUME Init
  PROVE  IInv
<1>1. <<activeChain>> \in Seq(Chains) /\ <<activeChain>> # <<>>
  BY DEF Init
<1>2. TypeOK
  <2>1. named \in BOOLEAN
    BY Zenon DEF Init
  <2>2. /\ asked \in [assets : Seq(Chains), balances : Seq(Queries)]
        /\ loading \in [assets : BOOLEAN, balances : BOOLEAN]
    BY <1>1 DEF Init
  <2>3. wallet \in [shows : Accounts \cup {None}, chain : Chains \cup Foreign]
    BY NetworkAssumption DEF Init
  <2>4. calls \in Seq(Calls) /\ changes \in 0..MaxChanges
    BY NetworkAssumption DEF Init
  <2>5. /\ build \in Builds /\ page \in {"home", "account"}
        /\ sheet \in BOOLEAN /\ authenticated \in BOOLEAN /\ saved \in BOOLEAN
        /\ address \in Accounts \cup {None} /\ provider \in {"privy", "metamask", "none"}
        /\ {activeChain, prevChain} \subseteq Chains /\ assets \in Chains \cup {None}
        /\ balances \in Queries \cup {None} /\ newest \in {"asked", "shown", "lost"}
    BY DEF Init
  <2> QED
    BY <2>1, <2>2, <2>3, <2>4, <2>5 DEF TypeOK
<1> QED
  BY <1>1, <1>2 DEF Init, IInv, Settling, Wiring, Asking, LoadingTracked,
                    NewestShown, AccountKnowsLogout, Connected

\* What the stores are, and the questions that wait.
LEMMA Held ==
  ASSUME IInv
  PROVE  /\ StoresOK /\ calls \in Seq(Calls) /\ OfBuild(calls)
         /\ <<>> \in Seq(Calls) /\ <<>> \in Seq(Chains) /\ <<>> \in Seq(Queries)
         /\ assets \in Chains \cup {None} /\ Polygon \in Chains
BY NetworkAssumption DEF IInv, Settling, TypeOK, StoresOK, Wiring, OfBuild

\* A question that waits for the wallet.
LEMMA Waiting ==
  ASSUME IInv, NEW i \in DOMAIN calls
  PROVE  /\ calls[i] \in Calls /\ calls[i].chain \in Chains
         /\ calls[i].who \in Accounts \cup {None}
<1>1. calls[i] \in Calls
  BY Held
<1> QED
  BY <1>1 DEF Calls

\* More of the build's questions.
LEMMA MoreCalls ==
  ASSUME NEW s \in Seq(Calls), NEW t \in Seq(Calls), OfBuild(s), OfBuild(t)
  PROVE  s \o t \in Seq(Calls) /\ OfBuild(s \o t)
<1>1. ASSUME NEW i \in DOMAIN (s \o t)
      PROVE  build = IF (s \o t)[i].op = "privy" THEN "privy" ELSE "metamask"
  <2>1. \/ i \in DOMAIN s /\ (s \o t)[i] = s[i]
        \/ i - Len(s) \in DOMAIN t /\ (s \o t)[i] = t[i - Len(s)]
    BY <1>1, ConcatLast
  <2> QED
    BY <2>1 DEF OfBuild
<1> QED
  BY <1>1, ConcatLast DEF OfBuild

\* A question less.
LEMMA FewerCalls ==
  ASSUME NEW s \in Seq(Calls), NEW i \in DOMAIN s, OfBuild(s)
  PROVE  RemoveAt(s, i) \in Seq(Calls) /\ OfBuild(RemoveAt(s, i))
<1>1. i \in 1 .. Len(s)
  OBVIOUS
<1>2. /\ RemoveAt(s, i) \in Seq(Calls) /\ Len(RemoveAt(s, i)) = Len(s) - 1
      /\ \A j \in 1 .. Len(s) - 1 :
           RemoveAt(s, i)[j] = IF j < i THEN s[j] ELSE s[j + 1]
  BY <1>1, RemoveAtProperties
<1>3. \A j \in 1 .. Len(s) - 1 : j \in DOMAIN s /\ j + 1 \in DOMAIN s
  OBVIOUS
<1>4. DOMAIN RemoveAt(s, i) = 1 .. Len(s) - 1
  BY <1>2
<1> QED
  BY <1>2, <1>3, <1>4 DEF OfBuild

LEMMA VisitKeeps ==
  ASSUME IInv, NEW p \in {"home", "account"}, Visit(p), changes' \in 0..MaxChanges
  PROVE  IInv'
<1> DEFINE as == IF sheet THEN <<Polygon, Polygon>> ELSE <<activeChain>>
<1>1. as \in Seq(Chains)
  BY Held DEF StoresOK
<1>2. Effects(as, <<>>, calls, TRUE)
  BY DEF Visit
<1>3. build' = build
  BY <1>2 DEF Effects
<1>4. activeChain' \in Chains /\ page' = p
      /\ UNCHANGED <<sheet, authenticated, saved, wallet>>
  BY Held DEF StoresOK, Visit, SheetChain
<1>5. CASE build = "privy" /\ p = "account" /\ ~authenticated
  <2>1. address' = None /\ provider' = "none"
    BY <1>5 DEF Visit, Disconnects
  <2>2. StoresOK'
    BY <1>3, <1>4, <2>1, Held DEF StoresOK, Connected, AccountKnowsLogout
  <2> QED
    BY <1>1, <1>2, <2>2, Held, EffectsKeep
<1>6. CASE ~(build = "privy" /\ p = "account" /\ ~authenticated)
  <2>1. address' = address /\ provider' = provider
    BY <1>6 DEF Visit, SameWallet
  <2>2. StoresOK'
    BY <1>3, <1>4, <1>6, <2>1, Held DEF StoresOK, Connected, AccountKnowsLogout
  <2> QED
    BY <1>1, <1>2, <2>2, Held, EffectsKeep
<1> QED
  BY <1>5, <1>6

LEMMA OpenSheetKeeps ==
  ASSUME IInv, OpenSheet, changes' \in 0..MaxChanges
  PROVE  IInv'
<1> DEFINE bs == IF activeChain = Polygon THEN <<>>
                   ELSE <<[who |-> address, chain |-> activeChain, tokens |-> assets]>>
<1>1. Effects(<<Polygon>>, bs, calls, FALSE)
  BY DEF OpenSheet
<1>2. bs \in Seq(Queries) /\ <<Polygon>> \in Seq(Chains)
  <2> DEFINE q == [who |-> address, chain |-> activeChain, tokens |-> assets]
  <2>1. q \in Queries
    BY Held DEF OpenSheet, StoresOK, Connected, Queries
  <2> HIDE DEF q
  <2>2. <<q>> \in Seq(Queries) /\ <<>> \in Seq(Queries)
    BY <2>1
  <2> QED
    BY <2>2, Held DEF q
<1>3. /\ UNCHANGED <<build, page, authenticated, address, provider, saved, wallet>>
      /\ activeChain' \in Chains /\ sheet' = TRUE /\ sheet' # sheet
  BY Held DEF OpenSheet, Effects, SheetChain, StoresOK
<1>4. StoresOK'
  BY <1>3, Held DEF StoresOK, Connected, AccountKnowsLogout
<1> HIDE DEF bs
<1> QED
  BY <1>1, <1>2, <1>3, <1>4, Held, EffectsKeep

LEMMA SelectChainKeeps ==
  ASSUME IInv, NEW c \in Chains, SelectChain(c), changes' \in 0..MaxChanges
  PROVE  IInv'
<1> DEFINE t == CASE provider = "metamask" -> Call("switch", c)
                  [] provider = "privy" /\ authenticated -> Call("privy", c)
                  [] OTHER -> <<>>
<1>1. Effects(<<>>, <<>>, calls \o t, FALSE)
  BY DEF SelectChain
<1>2. /\ UNCHANGED <<build, page, sheet, authenticated, address, provider, saved, wallet>>
      /\ activeChain' = c
  BY DEF SelectChain, Effects
<1>3. StoresOK'
  BY <1>2, Held DEF StoresOK, Connected, AccountKnowsLogout
<1>4. TypeOK /\ provider = IF Connected THEN build ELSE "none"
  BY DEF IInv, Settling, Wiring
<1>5. t \in Seq(Calls) /\ OfBuild(t)
  <2>1. CASE provider = "metamask"
    BY <1>4, <2>1, CallProperties DEF OfBuild
  <2>2. CASE provider = "privy" /\ authenticated
    BY <1>4, <2>2, CallProperties DEF OfBuild
  <2>3. CASE provider # "metamask" /\ ~(provider = "privy" /\ authenticated)
    BY <2>3 DEF OfBuild
  <2> QED
    BY <2>1, <2>2, <2>3
<1> HIDE DEF t
<1>6. calls \o t \in Seq(Calls) /\ OfBuild(calls \o t)
  BY <1>5, Held, MoreCalls
<1> QED
  BY <1>1, <1>3, <1>6, Held, EffectsKeep

LEMMA LoginKeeps ==
  ASSUME IInv, NEW a \in Accounts, Login(a), changes' \in 0..MaxChanges
  PROVE  IInv'
<1> DEFINE bs == <<[who |-> a, chain |-> activeChain, tokens |-> assets]>>
<1>1. Effects(<<>>, bs, calls, FALSE)
  BY DEF Login
<1>2. bs \in Seq(Queries)
  BY Held DEF StoresOK, Queries
<1>3. /\ UNCHANGED <<build, page, sheet, saved>>
      /\ build = "privy" /\ authenticated' = TRUE
      /\ address' = a /\ provider' = build /\ activeChain' \in Chains
      /\ wallet' \in [shows : Accounts \cup {None}, chain : Chains \cup Foreign]
  BY Held DEF Login, Effects, Connects, StoresOK
<1>4. address = None /\ a # None
  BY NetworkAssumption
     DEF Login, ButtonShown, IInv, Settling, AccountKnowsLogout, Connected
<1>5. StoresOK'
  BY <1>3, <1>4, Held DEF StoresOK, Connected, AccountKnowsLogout
<1> HIDE DEF bs
<1> QED
  BY <1>1, <1>2, <1>3, <1>4, <1>5, Held, EffectsKeep

LEMMA SessionEndsKeeps ==
  ASSUME IInv, SessionEnds, changes' \in 0..MaxChanges
  PROVE  IInv'
<1>1. Effects(<<>>, <<>>, calls, FALSE)
  BY DEF SessionEnds
<1>2. /\ UNCHANGED <<build, page, sheet, saved, activeChain>>
      /\ authenticated' = FALSE
      /\ wallet' \in [shows : Accounts \cup {None}, chain : Chains \cup Foreign]
  BY Held DEF SessionEnds, Effects, StoresOK
<1>3. CASE ButtonShown
  <2>1. address' = None /\ provider' = "none"
    BY <1>3 DEF SessionEnds, Disconnects
  <2>2. StoresOK'
    BY <1>2, <2>1, Held DEF StoresOK, Connected, AccountKnowsLogout
  <2> QED
    BY <1>1, <2>2, Held, EffectsKeep
<1>4. CASE ~ButtonShown
  <2>1. address' = address /\ provider' = provider /\ page # "account"
    BY <1>4 DEF SessionEnds, SameWallet, ButtonShown
  <2>2. StoresOK'
    BY <1>2, <2>1, Held DEF StoresOK, Connected, AccountKnowsLogout
  <2> QED
    BY <1>1, <2>2, Held, EffectsKeep
<1> QED
  BY <1>3, <1>4

LEMMA ConnectClickKeeps ==
  ASSUME IInv, ConnectClick, changes' \in 0..MaxChanges
  PROVE  IInv'
<1> DEFINE t == Call("connect", activeChain)
<1>1. Effects(<<>>, <<>>, calls \o t, FALSE) /\ build = "metamask"
  BY DEF ConnectClick
<1>2. UNCHANGED <<build, page, sheet, authenticated, address, provider, saved,
                  wallet, activeChain>>
  BY DEF ConnectClick, Effects
<1>3. StoresOK'
  BY <1>2, Held DEF StoresOK, Connected, AccountKnowsLogout
<1>4. t \in Seq(Calls) /\ OfBuild(t)
  BY <1>1, Held, CallProperties DEF OfBuild, IInv, StoresOK
<1> HIDE DEF t
<1>5. calls \o t \in Seq(Calls) /\ OfBuild(calls \o t)
  BY <1>4, Held, MoreCalls
<1> QED
  BY <1>1, <1>3, <1>5, Held, EffectsKeep

LEMMA DisconnectClickKeeps ==
  ASSUME IInv, DisconnectClick, changes' \in 0..MaxChanges
  PROVE  IInv'
<1>1. Effects(<<>>, <<>>, calls, FALSE)
  BY DEF DisconnectClick
<1>2. /\ UNCHANGED <<build, page, sheet, authenticated, wallet, activeChain>>
      /\ address' = None /\ provider' = "none" /\ saved' = FALSE
  BY DEF DisconnectClick, Effects, Disconnects
<1>3. StoresOK'
  BY <1>2, Held DEF StoresOK, Connected, AccountKnowsLogout
<1> QED
  BY <1>1, <1>3, Held, EffectsKeep

LEMMA WalletShowsKeeps ==
  ASSUME IInv, NEW a \in Accounts \cup {None}, WalletShows(a),
         changes' \in 0..MaxChanges
  PROVE  IInv'
<1>1. Effects(<<>>, <<>>, calls, FALSE)
  BY DEF WalletShows
<1>2. /\ UNCHANGED <<build, page, sheet, authenticated, activeChain>>
      /\ build = "metamask"
      /\ wallet' \in [shows : Accounts \cup {None}, chain : Chains \cup Foreign]
  BY Held DEF WalletShows, Effects, StoresOK
<1>3. \/ address' = address /\ provider' = provider /\ saved' = saved
      \/ address' = None /\ provider' = "none" /\ saved' = FALSE
      \/ a # None /\ address' = a /\ provider' = build /\ saved' = (saved \/ a # address)
  BY Zenon DEF WalletShows, SameWallet, Disconnects, Connects
<1>4. saved' \in BOOLEAN
  <2>1. saved \in BOOLEAN
    BY Held DEF StoresOK
  <2>2. (saved \/ a # address) \in BOOLEAN
    BY Zenon
  <2> QED
    BY <1>3, <2>1, <2>2, Zenon
<1>5. StoresOK'
  BY <1>2, <1>3, <1>4, Held DEF StoresOK, Connected, AccountKnowsLogout
<1> QED
  BY <1>1, <1>5, Held, EffectsKeep

LEMMA WalletMovesKeeps ==
  ASSUME IInv, NEW c \in Chains \cup Foreign, WalletMoves(c),
         changes' \in 0..MaxChanges
  PROVE  IInv'
<1>1. Effects(<<>>, <<>>, calls, FALSE)
  BY DEF WalletMoves
<1>2. /\ UNCHANGED <<build, page, sheet, authenticated, address, provider, saved>>
      /\ activeChain' \in Chains
      /\ wallet' \in [shows : Accounts \cup {None}, chain : Chains \cup Foreign]
  BY Held DEF WalletMoves, FollowedChain, Effects, StoresOK
<1>3. StoresOK'
  BY <1>2, Held DEF StoresOK, Connected, AccountKnowsLogout
<1> QED
  BY <1>1, <1>3, Held, EffectsKeep

-----------------------------------------------------------------------------
(* The answers.                                                            *)

LEMMA ShownKeeps ==
  ASSUME IInv, NEW i \in DOMAIN calls, Shown(i), UNCHANGED changes
  PROVE  IInv'
<1> DEFINE call == calls[i]
           t == IF call.chain = wallet.chain THEN <<>> ELSE Call("switch", call.chain)
<1>1. Effects(<<>>, <<>>, RemoveAt(calls, i) \o t, FALSE)
  BY DEF Shown
<1>2. call \in Calls /\ call.chain \in Chains /\ call.op \in {"connect", "reconnect"}
  BY Waiting DEF Shown
<1>3. build = "metamask"
  BY <1>2 DEF IInv, Settling, Wiring
<1>4. PICK a \in Accounts : wallet' = [wallet EXCEPT !.shows = a] /\ Connects(a)
  BY DEF Shown
<1>5. UNCHANGED <<build, page, sheet, authenticated, activeChain>>
  BY DEF Shown, Effects
<1>6. saved' \in BOOLEAN
  <2>1. saved' = (saved \/ call.op = "connect")
    BY Zenon DEF Shown
  <2> QED
    BY <2>1, Zenon
<1>7. StoresOK'
  <2>1. wallet' \in [shows : Accounts \cup {None}, chain : Chains \cup Foreign]
    BY <1>4, Held DEF StoresOK
  <2>2. address' = a /\ provider' = build /\ a # None
    BY <1>4, NetworkAssumption DEF Connects
  <2> QED
    BY <1>3, <1>5, <1>6, <2>1, <2>2, Held DEF StoresOK, Connected, AccountKnowsLogout
<1>8. t \in Seq(Calls) /\ OfBuild(t)
  BY <1>2, <1>3, Held, CallProperties DEF OfBuild, IInv
<1> HIDE DEF t
<1>9. RemoveAt(calls, i) \in Seq(Calls) /\ OfBuild(RemoveAt(calls, i))
  BY Held, FewerCalls
<1>10. RemoveAt(calls, i) \o t \in Seq(Calls) /\ OfBuild(RemoveAt(calls, i) \o t)
  BY <1>8, <1>9, MoreCalls
<1> QED
  BY <1>1, <1>7, <1>10, Held, EffectsKeep

LEMMA GrantedKeeps ==
  ASSUME IInv, NEW i \in DOMAIN calls, Granted(i), UNCHANGED changes
  PROVE  IInv'
<1> DEFINE w == [calls EXCEPT ![i].granted = TRUE]
<1>1. Effects(<<>>, <<>>, w, FALSE)
  BY DEF Granted
<1>2. calls[i] \in Calls /\ calls[i].chain \in Chains
  BY Waiting
<1>3. /\ UNCHANGED <<build, page, sheet, authenticated, address, provider, saved>>
      /\ activeChain' \in Chains
      /\ wallet' \in [shows : Accounts \cup {None}, chain : Chains \cup Foreign]
  BY <1>2, Held DEF Granted, FollowedChain, Effects, StoresOK
<1>4. StoresOK'
  BY <1>3, Held DEF StoresOK, Connected, AccountKnowsLogout
<1>5. [calls[i] EXCEPT !.granted = TRUE] \in Calls
  BY <1>2 DEF Calls
<1>6. w \in Seq(Calls)
  BY <1>5, Held
<1>7. OfBuild(w)
  <2>1. [calls[i] EXCEPT !.granted = TRUE].op = calls[i].op
    BY <1>2 DEF Calls
  <2>2. DOMAIN w = DOMAIN calls /\ \A j \in DOMAIN calls : w[j].op = calls[j].op
    BY <2>1
  <2> HIDE DEF w
  <2> QED
    BY <2>2, Held DEF OfBuild
<1> HIDE DEF w
<1> QED
  BY <1>1, <1>4, <1>6, <1>7, Held, EffectsKeep

LEMMA SwitchedKeeps ==
  ASSUME IInv, NEW i \in DOMAIN calls, Switched(i), UNCHANGED changes
  PROVE  IInv'
<1> DEFINE call == calls[i]
           q == [who |-> call.who, chain |-> call.chain, tokens |-> assets]
           bs == IF call.op = "privy" /\ call.who # None THEN <<q>> ELSE <<>>
           w == RemoveAt(calls, i)
<1>1. Effects(<<>>, bs, w, FALSE)
  BY DEF Switched
<1>2. call \in Calls /\ call.chain \in Chains /\ call.who \in Accounts \cup {None}
  BY Waiting
<1>3. /\ UNCHANGED <<build, page, sheet, authenticated, address, provider, saved,
                      wallet, assets>>
      /\ activeChain' = call.chain
  BY DEF Switched, Effects
<1>4. StoresOK'
  BY <1>2, <1>3, Held DEF StoresOK, Connected, AccountKnowsLogout
<1>5. w \in Seq(Calls) /\ OfBuild(w)
  BY Held, FewerCalls
<1>6. CASE call.op = "privy" /\ call.who # None
  <2>1. q \in Queries /\ bs = <<q>>
    BY <1>2, <1>6, Held DEF Queries
  <2>2. build = "privy"
    BY <1>6 DEF IInv, Settling, Wiring
  <2>3. provider # "metamask"
    BY <2>2 DEF IInv, Settling, Wiring
  <2>4. \A x \in Queries : x = q => Settles(x)'
    BY <1>3, <2>3 DEF Settles
  <2> HIDE DEF q
  <2>5. bs \in Seq(Queries) /\ Last(bs) = q
    BY <2>1 DEF Last
  <2> HIDE DEF bs, w
  <2> QED
    BY <1>1, <1>4, <1>5, <2>4, <2>5, Held, EffectsKeep
<1>7. CASE ~(call.op = "privy" /\ call.who # None)
  <2>1. bs = <<>>
    BY <1>7
  <2> HIDE DEF bs, w
  <2> QED
    BY <1>1, <1>4, <1>5, <2>1, Held, EffectsKeep
<1> QED
  BY <1>6, <1>7

LEMMA RefusedKeeps ==
  ASSUME IInv, NEW i \in DOMAIN calls, Refused(i), UNCHANGED changes
  PROVE  IInv'
<1>1. calls' = RemoveAt(calls, i)
  BY DEF Refused
<1>2. UNCHANGED <<build, named, page, sheet, authenticated, address, provider,
                  saved, wallet, activeChain, prevChain, assets, balances,
                  asked, loading, newest, changes>>
  BY DEF Refused
<1>3. calls' \in Seq(Calls) /\ OfBuild(calls')
  BY <1>1, Held, FewerCalls
<1>4. TypeOK'
  BY <1>2, <1>3 DEF IInv, TypeOK
<1>5. Wiring'
  BY <1>2, <1>3 DEF IInv, Settling, Wiring, OfBuild, Connected
<1>6. Asking' /\ LoadingTracked' /\ NewestShown' /\ AccountKnowsLogout'
  BY <1>2 DEF IInv, Settling, Asking, LoadingTracked, NewestShown,
              AccountKnowsLogout, Settles, Connected
<1> QED
  BY <1>4, <1>5, <1>6 DEF IInv, Settling

LEMMA CloseSheetKeeps ==
  ASSUME IInv, CloseSheet, UNCHANGED changes
  PROVE  IInv'
<1>1. UNCHANGED <<build, named, page, authenticated, address, provider, saved,
                  wallet, calls, activeChain, prevChain, assets, balances,
                  asked, loading, newest, changes>> /\ sheet' = FALSE
  BY DEF CloseSheet
<1>2. TypeOK'
  <2>1. TypeOK /\ sheet' \in BOOLEAN
    BY <1>1 DEF IInv
  <2> QED
    BY <1>1, <2>1 DEF TypeOK
<1>3. Wiring' /\ AccountKnowsLogout' /\ LoadingTracked'
  BY <1>1 DEF IInv, Settling, Wiring, AccountKnowsLogout, LoadingTracked, Connected
<1>4. Asking' /\ NewestShown'
  BY <1>1 DEF IInv, Settling, Asking, NewestShown
<1> QED
  BY <1>2, <1>3, <1>4 DEF IInv, Settling

LEMMA ReloadKeeps ==
  ASSUME IInv, Reload, UNCHANGED changes
  PROVE  IInv'
<1>1. /\ UNCHANGED <<build, named, page, saved, wallet, activeChain, changes>>
      /\ sheet' = FALSE /\ authenticated' = FALSE /\ address' = None
      /\ provider' = "none" /\ prevChain' = activeChain /\ assets' = None
      /\ balances' = None /\ newest' = "lost"
      /\ asked' = [assets |-> <<activeChain>>, balances |-> <<>>]
      /\ loading' = [assets |-> TRUE, balances |-> FALSE]
      /\ calls' = Reconnects(TRUE)
  BY DEF Reload
<1>2. activeChain \in Chains /\ activeChain' \in Chains
  BY <1>1, Held DEF StoresOK
<1>3. /\ Reconnects(TRUE) \in Seq(Calls)
      /\ \A i \in DOMAIN Reconnects(TRUE) :
           Reconnects(TRUE)[i].op = "reconnect" /\ build = "metamask"
  BY <1>2, ReconnectsProperties DEF IInv
<1>4. <<activeChain>> \in Seq(Chains) /\ <<activeChain>> # <<>>
  BY <1>2
<1>5. asked' \in [assets : Seq(Chains), balances : Seq(Queries)]
      /\ loading' \in [assets : BOOLEAN, balances : BOOLEAN]
  BY <1>1, <1>4
<1>6. TypeOK'
  BY <1>1, <1>2, <1>3, <1>5 DEF IInv, TypeOK
<1>7. Wiring'
  BY <1>1, <1>3 DEF Wiring, Connected
<1>8. Asking' /\ LoadingTracked' /\ NewestShown' /\ AccountKnowsLogout'
  BY <1>1, <1>4 DEF Asking, LoadingTracked, NewestShown, AccountKnowsLogout, Connected
<1> QED
  BY <1>6, <1>7, <1>8 DEF IInv, Settling

LEMMA AssetsAnsweredKeeps ==
  ASSUME IInv, NEW ok \in BOOLEAN, NEW i \in DOMAIN asked.assets,
         AssetsAnswered(i, ok), UNCHANGED changes
  PROVE  IInv'
<1> DEFINE bs == SheetBalances(TRUE)
<1>1. /\ UNCHANGED <<build, named, page, sheet, authenticated, address, provider,
                      saved, wallet, calls, activeChain, prevChain, balances, changes>>
      /\ assets' = IF ok THEN asked.assets[i] ELSE None
      /\ asked' = [asked EXCEPT !.assets = RemoveAt(@, i), !.balances = @ \o bs]
      /\ newest' = Noted(newest, bs)
      /\ loading' = [assets |-> FALSE, balances |-> loading.balances \/ bs # <<>>]
  BY DEF AssetsAnswered, SameNetwork
<1>2. /\ asked \in [assets : Seq(Chains), balances : Seq(Queries)]
      /\ loading \in [assets : BOOLEAN, balances : BOOLEAN]
      /\ newest \in {"asked", "shown", "lost"}
      /\ activeChain \in Chains /\ address \in Accounts \cup {None}
  BY DEF IInv, TypeOK
<1>3. asked.assets[i] \in Chains /\ i \in 1 .. Len(asked.assets)
  BY <1>2
<1>4. assets' \in Chains \cup {None}
  BY <1>1, <1>3
<1>5. /\ bs \in Seq(Queries)
      /\ bs # <<>> => \A q \in Queries : q = Last(bs) => Settles(q)'
      /\ bs = <<>> => ~(sheet' /\ address' # None)
  BY <1>1, <1>2, <1>4, SheetAsks
<1> HIDE DEF bs
<1>6. RemoveAt(asked.assets, i) \in Seq(Chains)
  BY <1>2, <1>3, RemoveAtProperties
<1>7. asked'.balances = asked.balances \o bs /\ asked'.assets = RemoveAt(asked.assets, i)
  BY <1>1, <1>2
<1>8. /\ asked'.balances \in Seq(Queries)
      /\ bs = <<>> => asked'.balances = asked.balances
      /\ bs # <<>> => asked'.balances # <<>> /\ Last(asked'.balances) = Last(bs)
  BY <1>2, <1>5, <1>7, ConcatLast
<1>9. loading'.balances = (loading.balances \/ bs # <<>>) /\ loading'.assets = FALSE
  BY <1>1
<1>10. loading' \in [assets : BOOLEAN, balances : BOOLEAN]
  <2>1. (loading.balances \/ bs # <<>>) \in BOOLEAN
    BY Zenon
  <2> QED
    BY <1>1, <2>1
<1>11. asked' \in [assets : Seq(Chains), balances : Seq(Queries)]
  <2>1. asked' = [assets |-> RemoveAt(asked.assets, i), balances |-> asked.balances \o bs]
    BY <1>1, <1>2
  <2> QED
    BY <1>6, <1>7, <1>8, <2>1
<1>12. newest' \in {"asked", "shown", "lost"}
  BY <1>1, <1>2 DEF Noted
<1>13. TypeOK'
  BY <1>1, <1>4, <1>10, <1>11, <1>12 DEF IInv, TypeOK
<1>14. Wiring' /\ AccountKnowsLogout'
  BY <1>1 DEF IInv, Settling, Wiring, AccountKnowsLogout, Connected
<1>15. LoadingTracked'
  <2>1. loading.balances => asked.balances # <<>>
    BY DEF IInv, Settling, LoadingTracked
  <2> QED
    BY <1>8, <1>9, <2>1 DEF LoadingTracked
<1>16. CASE bs # <<>>
  <2>1. newest' = "asked"
    BY <1>1, <1>16 DEF Noted
  <2>2. Last(bs) \in Queries
    BY <1>5, <1>16 DEF Last
  <2>3. Settles(Last(asked.balances))'
    BY <1>5, <1>8, <1>16, <2>2 DEF Settles
  <2>4. Asking' /\ NewestShown'
    BY <1>8, <1>16, <2>1, <2>3 DEF Asking, NewestShown
  <2> QED
    BY <1>13, <1>14, <1>15, <2>4 DEF IInv, Settling
<1>17. CASE bs = <<>>
  <2>1. newest' = newest /\ asked'.balances = asked.balances
    BY <1>1, <1>8, <1>17 DEF Noted
  <2>2. newest' = "asked" => asked'.balances # <<>>
    BY <2>1 DEF IInv, Settling, Asking
  <2>3. Asking' /\ NewestShown'
    BY <1>5, <1>17, <2>2 DEF Asking, NewestShown, Connected
  <2> QED
    BY <1>13, <1>14, <1>15, <2>3 DEF IInv, Settling
<1> QED
  BY <1>16, <1>17

LEMMA BalancesAnsweredKeeps ==
  ASSUME IInv, NEW ok \in BOOLEAN, NEW i \in DOMAIN asked.balances,
         BalancesAnswered(i, ok), UNCHANGED changes
  PROVE  IInv'
<1> DEFINE query == asked.balances[i]
           left == RemoveAt(asked.balances, i)
<1>1. /\ UNCHANGED <<build, named, page, sheet, authenticated, address, provider,
                      saved, wallet, calls, activeChain, prevChain, assets, changes>>
      /\ balances' = CASE ~ok -> balances
                       [] ok /\ query.tokens = None -> None
                       [] OTHER -> query
      /\ loading' = [loading EXCEPT !.balances = FALSE]
      /\ asked' = [asked EXCEPT !.balances = left]
      /\ newest' = CASE newest = "asked" /\ i < Len(asked.balances) -> "asked"
                     [] newest = "asked" /\ i = Len(asked.balances)
                          -> IF ok THEN "shown" ELSE "lost"
                     [] OTHER -> IF ok THEN "lost" ELSE newest
  BY DEF BalancesAnswered, SameNetwork
<1>2. /\ asked \in [assets : Seq(Chains), balances : Seq(Queries)]
      /\ loading \in [assets : BOOLEAN, balances : BOOLEAN]
      /\ newest \in {"asked", "shown", "lost"}
      /\ balances \in Queries \cup {None}
  BY DEF IInv, TypeOK
<1>3. i \in 1 .. Len(asked.balances) /\ Len(asked.balances) \in Nat
  BY <1>2
<1>4. query \in Queries
  BY <1>2
<1>5. /\ left \in Seq(Queries)
      /\ i < Len(asked.balances) => left # <<>> /\ Last(left) = Last(asked.balances)
  <2>1. asked.balances \in Seq(Queries)
    BY <1>2
  <2> QED
    BY <1>3, <2>1, RemoveAtProperties, LastOfRemoveAt
<1>6. i = Len(asked.balances) => query = Last(asked.balances)
  BY DEF Last
<1>7. asked.balances # <<>>
  BY <1>3
<1> HIDE DEF query, left
<1>8. asked' \in [assets : Seq(Chains), balances : Seq(Queries)]
      /\ asked'.balances = left /\ asked'.assets = asked.assets
  BY <1>1, <1>2, <1>5
<1>9. loading' \in [assets : BOOLEAN, balances : BOOLEAN]
      /\ loading'.balances = FALSE /\ loading'.assets = loading.assets
  BY <1>1, <1>2
<1>10. balances' \in Queries \cup {None} /\ newest' \in {"asked", "shown", "lost"}
  BY <1>1, <1>2, <1>4
<1>11. TypeOK'
  BY <1>1, <1>8, <1>9, <1>10 DEF IInv, TypeOK
<1>12. Wiring' /\ AccountKnowsLogout'
  BY <1>1 DEF IInv, Settling, Wiring, AccountKnowsLogout, Connected
<1>13. LoadingTracked'
  BY <1>8, <1>9 DEF IInv, Settling, LoadingTracked
<1>14. CASE newest = "asked" /\ i < Len(asked.balances)
  <2>1. newest' = "asked"
    BY <1>1, <1>14
  <2>2. asked'.balances # <<>> /\ Last(asked'.balances) = Last(asked.balances)
    BY <1>5, <1>8, <1>14
  <2>3. Asking'
    BY <1>1, <1>14, <2>2 DEF IInv, Settling, Asking, Settles, Connected
  <2>4. NewestShown'
    BY <2>1 DEF NewestShown
  <2> QED
    BY <1>11, <1>12, <1>13, <2>3, <2>4 DEF IInv, Settling
<1>15. CASE newest = "asked" /\ ~(i < Len(asked.balances))
  <2>1. i = Len(asked.balances)
    BY <1>3, <1>15
  <2>2. newest' = IF ok THEN "shown" ELSE "lost"
    BY <1>1, <1>15, <2>1
  <2>3. sheet /\ Connected => Settles(query)
    BY <1>6, <1>15, <2>1 DEF IInv, Settling, Asking
  <2>4. ok => balances' = IF query.tokens = None THEN None ELSE query
    BY <1>1
  <2>5. query # None
    BY <1>4, NetworkAssumption DEF Queries
  <2>6. NewestShown'
    BY <1>1, <2>2, <2>3, <2>4, <2>5 DEF NewestShown, Settles, Connected
  <2>7. Asking'
    BY <2>2 DEF Asking
  <2> QED
    BY <1>11, <1>12, <1>13, <2>6, <2>7 DEF IInv, Settling
<1>16. CASE newest # "asked"
  <2>1. newest' = IF ok THEN "lost" ELSE newest
    BY <1>1, <1>16
  <2>2. ~ok => balances' = balances
    BY <1>1
  <2>3. Asking' /\ NewestShown'
    BY <1>1, <1>16, <2>1, <2>2 DEF IInv, Settling, Asking, NewestShown, Connected
  <2> QED
    BY <1>11, <1>12, <1>13, <2>3 DEF IInv, Settling
<1> QED
  BY <1>14, <1>15, <1>16

-----------------------------------------------------------------------------
(* The theorems.                                                           *)

LEMMA StepIInv ==
  ASSUME IInv, [Next]_vars
  PROVE  IInv'
<1>1. CASE UNCHANGED vars
  BY <1>1 DEF vars, IInv, Settling, TypeOK, Wiring, Asking, LoadingTracked, NewestShown,
              AccountKnowsLogout, Settles, Connected
<1>2. CASE changes < MaxChanges /\ Changes /\ changes' = changes + 1
  <2>1. changes' \in 0..MaxChanges
    BY <1>2, NetworkAssumption DEF IInv, TypeOK
  <2> QED
    BY <1>2, <2>1, VisitKeeps, OpenSheetKeeps, SelectChainKeeps, LoginKeeps,
       SessionEndsKeeps, ConnectClickKeeps, DisconnectClickKeeps,
       WalletShowsKeeps, WalletMovesKeeps
       DEF Changes
<1>3. CASE Answers /\ UNCHANGED changes
  BY <1>3, ReloadKeeps, CloseSheetKeeps, ShownKeeps, GrantedKeeps, SwitchedKeeps,
     RefusedKeeps, AssetsAnsweredKeeps, BalancesAnsweredKeeps
     DEF Answers
<1> QED
  BY <1>1, <1>2, <1>3 DEF Next

LEMMA Inductive ==
  Spec => []IInv
BY InitIInv, StepIInv, PTL DEF Spec

\* The stores of wallet, settings and assets, and the questions that wait,
\* have their types whatever the pages, the wallet and Privy do
\* (src/frontend/src/store/WalletStore.ts, SettingsStore.ts, AssetsStore.ts).
THEOREM TypeCorrect == Spec => []TypeOK
<1>1. IInv => TypeOK
  BY DEF IInv
<1> QED
  BY <1>1, Inductive, PTL

\* The open sheet settles: no flag says "loading" without a question behind
\* it, and once the newest question was answered, and as long as no older answer
\* comes after it, what is shown is for the network and the list shown by then,
\* and under MetaMask for the account (the effect of DepositForm,
\* AssetsStore.fetchBalances, the subscription to the settings).  An older
\* answer that comes later replaces it: nothing in the store prevents that.
THEOREM SheetSettlesDown == Spec => []BalancesSettle
<1>1. IInv => BalancesSettle
  BY DEF IInv, Settling, BalancesSettle
<1> QED
  BY <1>1, Inductive, PTL

\* The account page shows no account that Privy has logged out, whatever
\* order session, page and wallet change in (PrivyProvider, useConnectButton,
\* the account page).
THEOREM LogoutReachesAccount == Spec => []AccountKnowsLogout
<1>1. IInv => AccountKnowsLogout
  BY DEF IInv, Settling
<1> QED
  BY <1>1, Inductive, PTL
=============================================================================

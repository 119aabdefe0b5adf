---------------------------- MODULE DataTheorems ----------------------------
(***************************************************************************)
(* Facts about the operators of the community modules that the proofs of   *)
(* several models rest on: what a sum over a finite set is (Functions,     *)
(* SumFunctionOnSet), what is left when an element is taken out of a       *)
(* sequence (SequencesExt, RemoveAt), what Min picks (FiniteSetsExt), and  *)
(* what a function defined by a recursion over the natural numbers is.     *)
(*                                                                         *)
(* A sum is defined by a recursion that takes the elements in an order     *)
(* nobody knows.  What is shown first is that there is exactly one         *)
(* function with that recursion (SumExists, SumUnique) and that any        *)
(* element may be the first one (SumSplit); the induction is that of       *)
(* SetInduction, which speaks of a set instead of a predicate; FromZero is *)
(* the induction over numbers, and StepByStep and StepUpTo say that there  *)
(* is a function with a given first value and a step from each value to    *)
(* the next, on all numbers or up to a last one.                           *)
(***************************************************************************)
EXTENDS Integers, SequencesExt, SequenceTheorems, FiniteSetTheorems, TLAPS

-----------------------------------------------------------------------------
(* Sequences.                                                              *)

\* Taking one element out of a sequence.
LEMMA RemoveAtProperties ==
  ASSUME NEW S, NEW s \in Seq(S), NEW i \in 1 .. Len(s)
  PROVE  /\ RemoveAt(s, i) \in Seq(S)
         /\ Len(RemoveAt(s, i)) = Len(s) - 1
         /\ \A j \in 1 .. Len(s) - 1 :
              RemoveAt(s, i)[j] = IF j < i THEN s[j] ELSE s[j + 1]
<1> DEFINE a == SubSeq(s, 1, i - 1)
           b == SubSeq(s, i + 1, Len(s))
<1>1. /\ a \in Seq(S) /\ Len(a) = i - 1
      /\ \A j \in 1 .. i - 1 : a[j] = s[j]
  <2>1. \A j \in 1 .. i - 1 : s[j] \in S
    OBVIOUS
  <2> QED
    BY <2>1, SubSeqProperties
<1>2. /\ b \in Seq(S) /\ Len(b) = Len(s) - i
      /\ \A j \in 1 .. Len(s) - i : b[j] = s[j + i]
  <2>1. \A j \in i + 1 .. Len(s) : s[j] \in S
    OBVIOUS
  <2>2. /\ b \in Seq(S)
        /\ Len(b) = IF i + 1 <= Len(s) THEN Len(s) - (i + 1) + 1 ELSE 0
        /\ \A j \in 1 .. Len(s) - (i + 1) + 1 : b[j] = s[(i + 1) + j - 1]
    BY <2>1, SubSeqProperties
  <2> HIDE DEF b
  <2>3. Len(s) - (i + 1) + 1 = Len(s) - i
    OBVIOUS
  <2>4. \A j \in 1 .. Len(s) - i : (i + 1) + j - 1 = j + i
    OBVIOUS
  <2>5. \A j \in 1 .. Len(s) - i : b[j] = s[j + i]
    BY <2>2, <2>3, <2>4
  <2>6. Len(b) = Len(s) - i
    BY <2>2
  <2> QED
    BY <2>2, <2>5, <2>6
<1>3. RemoveAt(s, i) = a \o b
  BY DEF RemoveAt
<1> HIDE DEF a, b
<1>4. /\ a \o b \in Seq(S) /\ Len(a \o b) = Len(a) + Len(b)
      /\ \A j \in 1 .. Len(a) + Len(b) :
           (a \o b)[j] = IF j <= Len(a) THEN a[j] ELSE b[j - Len(a)]
  BY <1>1, <1>2, ConcatProperties
<1>5. \A j \in 1 .. Len(s) - 1 :
        (a \o b)[j] = IF j < i THEN s[j] ELSE s[j + 1]
  <2> TAKE j \in 1 .. Len(s) - 1
  <2>1. CASE j < i
    BY <1>1, <1>2, <1>4, <2>1
  <2>2. CASE ~(j < i)
    <3>1. j - (i - 1) \in 1 .. Len(s) - i /\ (j - (i - 1)) + i = j + 1
      BY <2>2
    <3>2. (a \o b)[j] = b[j - (i - 1)]
      BY <1>1, <1>2, <1>4, <2>2
    <3> QED
      BY <1>2, <2>2, <3>1, <3>2
  <2> QED
    BY <2>1, <2>2
<1> QED
  BY <1>1, <1>2, <1>3, <1>4, <1>5

-----------------------------------------------------------------------------
(* Finite sums.                                                            *)

\* What holds of a finite set when it holds of its strict subsets holds of it.
LEMMA SetInduction ==
  ASSUME NEW S, IsFiniteSet(S), NEW P,
         \A s \in SUBSET S : (\A t \in SUBSET s : t # s => t \in P) => s \in P
  PROVE  \A s \in SUBSET S : s \in P
<1> DEFINE T == {s \in SUBSET S : s \notin P}
<1> SUFFICES ASSUME T # {} PROVE FALSE
  OBVIOUS
<1>1. IsWellFoundedOn(StrictSubsetOrdering(S), SUBSET S)
  <2>1. IsWellFoundedOn(StrictSubsetOrdering(S), FiniteSubsetsOf(S))
    BY FS_StrictSubsetOrderingWellFounded
  <2>2. FiniteSubsetsOf(S) = SUBSET S
    BY FS_FiniteSubsetsOfFinite
  <2> QED
    BY <2>1, <2>2
<1>2. T \subseteq SUBSET S
  OBVIOUS
<1>3. \E s \in T : \A t \in T : ~(<<t, s>> \in StrictSubsetOrdering(S))
  <2> HIDE DEF T
  <2> QED
    BY <1>1, <1>2, WFMin
<1>4. PICK s \in T : \A t \in T : ~(<<t, s>> \in StrictSubsetOrdering(S))
  BY <1>3
<1>5. \A t \in SUBSET s : t # s => t \in P
  BY <1>4 DEF StrictSubsetOrdering
<1> QED
  BY <1>4, <1>5

Pick(s) == CHOOSE x \in s : TRUE

\* g has the sum of f over every subset of S.
IsSum(g, f, S) ==
  g = [s \in SUBSET S |-> IF s = {} THEN 0 ELSE f[Pick(s)] + g[s \ {Pick(s)}]]

\* The definition of the community modules.
LEMMA SumUnfolded ==
  ASSUME NEW S, NEW f
  PROVE  SumFunctionOnSet(f, S) = (CHOOSE g : IsSum(g, f, S))[S]
BY DEF SumFunctionOnSet, FoldFunctionOnSet, MapThenFoldSet, Pick, IsSum

\* Without the picked element a set is smaller.
LEMMA PickIn ==
  ASSUME NEW s, s # {}
  PROVE  Pick(s) \in s /\ s \ {Pick(s)} \in SUBSET s /\ s \ {Pick(s)} # s
BY DEF Pick

\* A sum at one subset.
LEMMA IsSumAt ==
  ASSUME NEW S, NEW f, NEW g, IsSum(g, f, S), NEW s \in SUBSET S
  PROVE  g[s] = IF s = {} THEN 0 ELSE f[Pick(s)] + g[s \ {Pick(s)}]
BY DEF IsSum

\* There is one sum over a finite set.
LEMMA SumUnique ==
  ASSUME NEW S, IsFiniteSet(S), NEW A, NEW B, S \subseteq A, S \subseteq B,
         NEW f, NEW g, NEW h, IsSum(g, f, A), IsSum(h, f, B)
  PROVE  g[S] = h[S]
<1> DEFINE P == {s \in SUBSET S : g[s] = h[s]}
<1>1. ASSUME NEW s \in SUBSET S, \A t \in SUBSET s : t # s => t \in P
      PROVE  s \in P
  <2>1. /\ g[s] = IF s = {} THEN 0 ELSE f[Pick(s)] + g[s \ {Pick(s)}]
        /\ h[s] = IF s = {} THEN 0 ELSE f[Pick(s)] + h[s \ {Pick(s)}]
    <3>1. s \in SUBSET A /\ s \in SUBSET B
      OBVIOUS
    <3> QED
      BY <3>1, IsSumAt
  <2>2. CASE s = {}
    BY <2>1, <2>2
  <2>3. CASE s # {}
    <3>1. s \ {Pick(s)} \in SUBSET s /\ s \ {Pick(s)} # s
      BY <2>3, PickIn
    <3>2. g[s \ {Pick(s)}] = h[s \ {Pick(s)}]
      BY <1>1, <3>1
    <3> QED
      BY <2>1, <2>3, <3>2
  <2> QED
    BY <2>2, <2>3
<1>2. S \in SUBSET S
  OBVIOUS
<1>3. \A s \in SUBSET S : s \in P
  <2> HIDE DEF P
  <2> QED
    BY <1>1, SetInduction
<1> QED
  BY <1>2, <1>3

\* There is a sum over a finite set.
LEMMA SumExists ==
  ASSUME NEW S, IsFiniteSet(S), NEW f
  PROVE  \E g : IsSum(g, f, S)
<1> DEFINE P == {s \in SUBSET S : \E g : IsSum(g, f, s)}
           G(t) == CHOOSE g : IsSum(g, f, t)
<1>1. ASSUME NEW s \in SUBSET S, \A t \in SUBSET s : t # s => t \in P
      PROVE  s \in P
  <2> DEFINE r == [t \in SUBSET s |->
                    IF t = {} THEN 0 ELSE f[Pick(t)] + G(t \ {Pick(t)})[t \ {Pick(t)}]]
  <2>1. ASSUME NEW t \in SUBSET s, t # s
        PROVE  IsSum(G(t), f, t)
    BY <1>1, <2>1
  <2>2. ASSUME NEW u \in SUBSET s, u # s
        PROVE  r[u] = G(u)[u]
    <3> DEFINE w == u \ {Pick(u)}
    <3>1. G(u)[u] = IF u = {} THEN 0 ELSE f[Pick(u)] + G(u)[w]
      BY <2>1, <2>2, IsSumAt
    <3>2. r[u] = IF u = {} THEN 0 ELSE f[Pick(u)] + G(w)[w]
      OBVIOUS
    <3>3. ASSUME u # {} PROVE G(u)[w] = G(w)[w]
      <4>1. /\ w \in SUBSET u /\ w # u /\ w \in SUBSET s /\ w # s
            /\ IsFiniteSet(w)
        <5>1. w \in SUBSET u /\ w # u
          BY <3>3, PickIn
        <5> QED
          BY <5>1, FS_Subset
      <4>2. IsSum(G(u), f, u) /\ IsSum(G(w), f, w)
        BY <2>1, <2>2, <4>1
      <4> HIDE DEF G, w
      <4> QED
        BY <4>1, <4>2, SumUnique
    <3> HIDE DEF w, r, G
    <3> QED
      BY <3>1, <3>2, <3>3
  <2>3. ASSUME NEW t \in SUBSET s, t # {}
        PROVE  r[t \ {Pick(t)}] = G(t \ {Pick(t)})[t \ {Pick(t)}]
    <3>1. t \ {Pick(t)} \in SUBSET t /\ t \ {Pick(t)} # t
      BY <2>3, PickIn
    <3>2. t \ {Pick(t)} \in SUBSET s /\ t \ {Pick(t)} # s
      BY <3>1
    <3> QED
      BY <2>2, <3>2
  <2>4. r = [t \in SUBSET s |-> IF t = {} THEN 0 ELSE f[Pick(t)] + r[t \ {Pick(t)}]]
    <3> DEFINE q == [t \in SUBSET s |-> IF t = {} THEN 0 ELSE f[Pick(t)] + r[t \ {Pick(t)}]]
    <3>1. ASSUME NEW t \in SUBSET s PROVE r[t] = q[t]
      <4>1. r[t] = IF t = {} THEN 0 ELSE f[Pick(t)] + G(t \ {Pick(t)})[t \ {Pick(t)}]
        OBVIOUS
      <4>2. q[t] = IF t = {} THEN 0 ELSE f[Pick(t)] + r[t \ {Pick(t)}]
        OBVIOUS
      <4> HIDE DEF r, q, G
      <4> QED
        BY <2>3, <4>1, <4>2
    <3>3. r = [t \in SUBSET s |-> r[t]] /\ q = [t \in SUBSET s |-> q[t]]
      OBVIOUS
    <3> QED
      BY <3>1, <3>3
  <2>5. IsSum(r, f, s)
    BY <2>4 DEF IsSum
  <2> QED
    BY <2>5
<1>2. \A s \in SUBSET S : s \in P
  <2> HIDE DEF P
  <2> QED
    BY <1>1, SetInduction
<1> QED
  BY <1>2

\* The sum over a finite set, one element at a time.
LEMMA SumPicks ==
  ASSUME NEW S, IsFiniteSet(S), NEW f
  PROVE  SumFunctionOnSet(f, S) =
           IF S = {} THEN 0 ELSE f[Pick(S)] + SumFunctionOnSet(f, S \ {Pick(S)})
<1> DEFINE g == CHOOSE g : IsSum(g, f, S)
           T == S \ {Pick(S)}
           h == CHOOSE h : IsSum(h, f, T)
<1>1. IsFiniteSet(T)
  BY FS_RemoveElement
<1>2. IsSum(g, f, S) /\ IsSum(h, f, T)
  BY <1>1, SumExists
<1>3. SumFunctionOnSet(f, S) = g[S] /\ SumFunctionOnSet(f, T) = h[T]
  BY SumUnfolded
<1>4. g[S] = IF S = {} THEN 0 ELSE f[Pick(S)] + g[T]
  BY <1>2, IsSumAt
<1>5. T \subseteq S /\ T \subseteq T
  OBVIOUS
<1>6. g[T] = h[T]
  <2> HIDE DEF g, h, T
  <2> QED
    BY <1>1, <1>2, <1>5, SumUnique
<1> QED
  BY <1>3, <1>4, <1>6

\* Nothing adds up to zero.
LEMMA SumEmpty == ASSUME NEW f PROVE SumFunctionOnSet(f, {}) = 0
BY SumPicks, FS_EmptySet

\* A sum of integers is an integer.
LEMMA SumInt ==
  ASSUME NEW S, IsFiniteSet(S), NEW f, \A x \in S : f[x] \in Int
  PROVE  SumFunctionOnSet(f, S) \in Int
<1> DEFINE P == {s \in SUBSET S : SumFunctionOnSet(f, s) \in Int}
<1>1. ASSUME NEW s \in SUBSET S, \A t \in SUBSET s : t # s => t \in P
      PROVE  s \in P
  <2>1. IsFiniteSet(s)
    BY FS_Subset
  <2>2. SumFunctionOnSet(f, s) =
          IF s = {} THEN 0 ELSE f[Pick(s)] + SumFunctionOnSet(f, s \ {Pick(s)})
    BY <2>1, SumPicks
  <2>3. CASE s = {}
    BY <2>2, <2>3
  <2>4. CASE s # {}
    <3>1. Pick(s) \in s /\ s \ {Pick(s)} \in SUBSET s /\ s \ {Pick(s)} # s
      BY <2>4, PickIn
    <3>2. SumFunctionOnSet(f, s \ {Pick(s)}) \in Int /\ f[Pick(s)] \in Int
      BY <1>1, <3>1
    <3> QED
      BY <2>2, <2>4, <3>2
  <2> QED
    BY <2>3, <2>4
<1>2. \A s \in SUBSET S : s \in P
  <2> HIDE DEF P
  <2> QED
    BY <1>1, SetInduction
<1> QED
  BY <1>2

\* Any element may be the first one.
LEMMA SumSplit ==
  ASSUME NEW S, IsFiniteSet(S), NEW f, \A x \in S : f[x] \in Int, NEW x \in S
  PROVE  SumFunctionOnSet(f, S) = f[x] + SumFunctionOnSet(f, S \ {x})
<1> DEFINE Z(s) == SumFunctionOnSet(f, s)
           P == {s \in SUBSET S : \A y \in s : Z(s) = f[y] + Z(s \ {y})}
<1>0. \A s \in SUBSET S : IsFiniteSet(s) /\ Z(s) \in Int
  <2> TAKE s \in SUBSET S
  <2>1. IsFiniteSet(s)
    BY FS_Subset
  <2> QED
    BY <2>1, SumInt
<1>1. ASSUME NEW s \in SUBSET S, \A t \in SUBSET s : t # s => t \in P
      PROVE  s \in P
  <2>0. SUFFICES ASSUME NEW y \in s PROVE Z(s) = f[y] + Z(s \ {y})
    OBVIOUS
  <2> DEFINE z == Pick(s)
  <2>1. z \in s
    BY PickIn
  <2>2. Z(s) = f[z] + Z(s \ {z})
    BY <1>0, SumPicks
  <2> HIDE DEF z, Z
  <2>3. CASE y = z
    BY <2>2, <2>3
  <2>4. CASE y # z
    <3>1. /\ s \ {z} \in P /\ y \in s \ {z}
          /\ s \ {y} \in P /\ z \in s \ {y}
      BY <1>1, <2>1, <2>4
    <3>2. Z(s \ {z}) = f[y] + Z((s \ {z}) \ {y})
      BY <3>1
    <3>3. Z(s \ {y}) = f[z] + Z((s \ {z}) \ {y})
      <4>1. (s \ {y}) \ {z} = (s \ {z}) \ {y}
        OBVIOUS
      <4>2. Z(s \ {y}) = f[z] + Z((s \ {y}) \ {z})
        BY <3>1
      <4> QED
        BY <4>1, <4>2
    <3>4. f[y] \in Int /\ f[z] \in Int /\ Z((s \ {z}) \ {y}) \in Int
      BY <1>0, <2>1
    <3>5. \A a, b, c \in Int : a + (b + c) = b + (a + c)
      OBVIOUS
    <3>6. Z(s) = f[z] + (f[y] + Z((s \ {z}) \ {y}))
      BY <2>2, <3>2
    <3>7. Z(s) = f[y] + (f[z] + Z((s \ {z}) \ {y}))
      BY <3>4, <3>5, <3>6
    <3> QED
      BY <3>3, <3>7
  <2> QED
    BY <2>3, <2>4
<1>2. \A s \in SUBSET S : s \in P
  <2> HIDE DEF P
  <2> QED
    BY <1>1, SetInduction
<1> QED
  BY <1>2

\* A sum depends on the values over its set only.
LEMMA SumSame ==
  ASSUME NEW S, IsFiniteSet(S), NEW f, NEW g, \A x \in S : f[x] = g[x]
  PROVE  SumFunctionOnSet(f, S) = SumFunctionOnSet(g, S)
<1> DEFINE P == {s \in SUBSET S : SumFunctionOnSet(f, s) = SumFunctionOnSet(g, s)}
<1>1. ASSUME NEW s \in SUBSET S, \A t \in SUBSET s : t # s => t \in P
      PROVE  s \in P
  <2>1. IsFiniteSet(s)
    BY FS_Subset
  <2>2. CASE s = {}
    BY <2>2, SumEmpty
  <2>3. CASE s # {}
    <3>1. Pick(s) \in s /\ s \ {Pick(s)} \in SUBSET s /\ s \ {Pick(s)} # s
      BY <2>3, PickIn
    <3>2. SumFunctionOnSet(f, s \ {Pick(s)}) = SumFunctionOnSet(g, s \ {Pick(s)})
      BY <1>1, <3>1
    <3>3. /\ SumFunctionOnSet(f, s) = f[Pick(s)] + SumFunctionOnSet(f, s \ {Pick(s)})
          /\ SumFunctionOnSet(g, s) = g[Pick(s)] + SumFunctionOnSet(g, s \ {Pick(s)})
      BY <2>1, <2>3, SumPicks
    <3>4. f[Pick(s)] = g[Pick(s)]
      BY <3>1
    <3> QED
      BY <3>2, <3>3, <3>4
  <2> QED
    BY <2>2, <2>3
<1>2. \A s \in SUBSET S : s \in P
  <2> HIDE DEF P
  <2> QED
    BY <1>1, SetInduction
<1> QED
  BY <1>2

\* The sum of a sum of two functions.
LEMMA SumPlus ==
  ASSUME NEW S, IsFiniteSet(S), NEW f, NEW g, NEW h,
         \A x \in S : f[x] \in Int /\ g[x] \in Int /\ h[x] = f[x] + g[x]
  PROVE  SumFunctionOnSet(h, S) = SumFunctionOnSet(f, S) + SumFunctionOnSet(g, S)
<1> DEFINE P == {s \in SUBSET S :
                  SumFunctionOnSet(h, s) = SumFunctionOnSet(f, s) + SumFunctionOnSet(g, s)}
<1>1. ASSUME NEW s \in SUBSET S, \A t \in SUBSET s : t # s => t \in P
      PROVE  s \in P
  <2>1. IsFiniteSet(s)
    BY FS_Subset
  <2>2. CASE s = {}
    <3>1. SumFunctionOnSet(h, s) = 0 /\ SumFunctionOnSet(f, s) = 0 /\ SumFunctionOnSet(g, s) = 0
      BY <2>2, SumEmpty
    <3> QED
      BY <3>1
  <2>3. CASE s # {}
    <3>1. PICK z : z = Pick(s)
      OBVIOUS
    <3>2. z \in s /\ s \ {z} \in SUBSET s /\ s \ {z} # s
      BY <2>3, <3>1, PickIn
    <3>3. SumFunctionOnSet(h, s \ {z}) = SumFunctionOnSet(f, s \ {z}) + SumFunctionOnSet(g, s \ {z})
      BY <1>1, <3>2
    <3>4. /\ SumFunctionOnSet(f, s) = f[z] + SumFunctionOnSet(f, s \ {z})
          /\ SumFunctionOnSet(g, s) = g[z] + SumFunctionOnSet(g, s \ {z})
          /\ SumFunctionOnSet(h, s) = h[z] + SumFunctionOnSet(h, s \ {z})
      BY <2>1, <2>3, <3>1, SumPicks
    <3>5. f[z] \in Int /\ g[z] \in Int /\ h[z] = f[z] + g[z]
      BY <3>2
    <3>6. IsFiniteSet(s \ {z})
      BY <2>1, FS_RemoveElement
    <3>7. \A x \in s \ {z} : f[x] \in Int
      OBVIOUS
    <3>8. \A x \in s \ {z} : g[x] \in Int
      OBVIOUS
    <3>9. SumFunctionOnSet(f, s \ {z}) \in Int /\ SumFunctionOnSet(g, s \ {z}) \in Int
      BY <3>6, <3>7, <3>8, SumInt
    <3>10. \A a, b, c, d \in Int : (a + b) + (c + d) = (a + c) + (b + d)
      OBVIOUS
    <3> QED
      BY <3>3, <3>4, <3>5, <3>9, <3>10
  <2> QED
    BY <2>2, <2>3
<1>2. \A s \in SUBSET S : s \in P
  <2> HIDE DEF P
  <2> QED
    BY <1>1, SetInduction
<1> QED
  BY <1>2

\* The sum of naturals over a subset is no larger.
LEMMA SumSubset ==
  ASSUME NEW S, IsFiniteSet(S), NEW T, T \subseteq S, NEW f, \A x \in S : f[x] \in Nat
  PROVE  SumFunctionOnSet(f, T) <= SumFunctionOnSet(f, S)
<1> DEFINE P == {s \in SUBSET S : SumFunctionOnSet(f, s \cap T) <= SumFunctionOnSet(f, s)}
<1>1. ASSUME NEW s \in SUBSET S, \A t \in SUBSET s : t # s => t \in P
      PROVE  s \in P
  <2>1. IsFiniteSet(s) /\ IsFiniteSet(s \cap T)
    BY FS_Subset
  <2>2. CASE s = {}
    <3>1. s \cap T = {} /\ SumFunctionOnSet(f, {}) = 0
      BY <2>2, SumEmpty
    <3> QED
      BY <2>2, <3>1
  <2>3. CASE s # {}
    <3>1. PICK z \in s : TRUE
      BY <2>3
    <3>2. s \ {z} \in P
      BY <1>1, <3>1
    <3>3. SumFunctionOnSet(f, (s \ {z}) \cap T) <= SumFunctionOnSet(f, s \ {z})
      BY <3>2
    <3>4. SumFunctionOnSet(f, s) = f[z] + SumFunctionOnSet(f, s \ {z})
      <4>1. \A x \in s : f[x] \in Int
        OBVIOUS
      <4> QED
        BY <2>1, <3>1, <4>1, SumSplit
    <3>5. /\ SumFunctionOnSet(f, s \ {z}) \in Int
          /\ SumFunctionOnSet(f, (s \ {z}) \cap T) \in Int
      <4>1. IsFiniteSet(s \ {z}) /\ IsFiniteSet((s \ {z}) \cap T)
        BY <2>1, FS_Subset
      <4>2. \A x \in s \ {z} : f[x] \in Int
        OBVIOUS
      <4>3. \A x \in (s \ {z}) \cap T : f[x] \in Int
        OBVIOUS
      <4> QED
        BY <4>1, <4>2, <4>3, SumInt
    <3>6. f[z] \in Nat
      BY <3>1
    <3>7. CASE z \in T
      <4>1. \A x \in s \cap T : f[x] \in Int
        OBVIOUS
      <4>2. (s \cap T) \ {z} = (s \ {z}) \cap T /\ z \in s \cap T
        BY <3>1, <3>7
      <4>3. SumFunctionOnSet(f, s \cap T) = f[z] + SumFunctionOnSet(f, (s \cap T) \ {z})
        BY <2>1, <4>1, <4>2, SumSplit
      <4>4. SumFunctionOnSet(f, s \cap T) = f[z] + SumFunctionOnSet(f, (s \ {z}) \cap T)
        BY <4>2, <4>3
      <4> QED
        BY <3>3, <3>4, <3>5, <3>6, <4>4
    <3>8. CASE z \notin T
      <4>1. s \cap T = (s \ {z}) \cap T
        BY <3>8
      <4>2. SumFunctionOnSet(f, s \cap T) <= SumFunctionOnSet(f, s \ {z})
        BY <3>3, <4>1
      <4>3. SumFunctionOnSet(f, s \cap T) \in Int
        BY <3>5, <4>1
      <4> QED
        BY <3>4, <3>5, <3>6, <4>2, <4>3
    <3> QED
      BY <3>7, <3>8
  <2> QED
    BY <2>2, <2>3
<1>2. \A s \in SUBSET S : s \in P
  <2> HIDE DEF P
  <2> QED
    BY <1>1, SetInduction
<1>3. S \cap T = T
  OBVIOUS
<1> QED
  BY <1>2, <1>3

\* A sum of zeros.
LEMMA SumZero ==
  ASSUME NEW S, IsFiniteSet(S), NEW f, \A x \in S : f[x] = 0
  PROVE  SumFunctionOnSet(f, S) = 0
<1>1. SumFunctionOnSet(f, S) = SumFunctionOnSet(f, S) + SumFunctionOnSet(f, S)
  BY SumPlus
<1>2. SumFunctionOnSet(f, S) \in Int
  BY SumInt
<1>3. \A a \in Int : a = a + a => a = 0
  OBVIOUS
<1> QED
  BY <1>1, <1>2, <1>3, Zenon

\* A sum with one term that counts.
LEMMA SumOne ==
  ASSUME NEW S, IsFiniteSet(S), NEW x \in S, NEW f, f[x] \in Int,
         \A y \in S : y # x => f[y] = 0
  PROVE  SumFunctionOnSet(f, S) = f[x]
<1>1. SumFunctionOnSet(f, S) = f[x] + SumFunctionOnSet(f, S \ {x})
  <2>1. \A y \in S : f[y] \in Int
    OBVIOUS
  <2> QED
    BY <2>1, SumSplit
<1>2. SumFunctionOnSet(f, S \ {x}) = 0
  <2>1. IsFiniteSet(S \ {x})
    BY FS_RemoveElement
  <2> QED
    BY <2>1, SumZero
<1> QED
  BY <1>1, <1>2

\* One value changes.
LEMMA SumChange ==
  ASSUME NEW S, IsFiniteSet(S), NEW x \in S, NEW f, NEW g,
         \A y \in S : f[y] \in Int, g[x] \in Int, \A y \in S \ {x} : g[y] = f[y]
  PROVE  SumFunctionOnSet(g, S) = SumFunctionOnSet(f, S) + g[x] - f[x]
<1>1. IsFiniteSet(S \ {x})
  BY FS_RemoveElement
<1>2. SumFunctionOnSet(g, S \ {x}) = SumFunctionOnSet(f, S \ {x})
  BY <1>1, SumSame
<1>3. \A y \in S : g[y] \in Int
  OBVIOUS
<1>4. /\ SumFunctionOnSet(f, S) = f[x] + SumFunctionOnSet(f, S \ {x})
      /\ SumFunctionOnSet(g, S) = g[x] + SumFunctionOnSet(g, S \ {x})
  BY <1>3, SumSplit
<1>5. SumFunctionOnSet(f, S \ {x}) \in Int
  <2>1. \A y \in S \ {x} : f[y] \in Int
    OBVIOUS
  <2> QED
    BY <1>1, <2>1, SumInt
<1> QED
  BY <1>2, <1>4, <1>5

\* Rows first or columns first.
LEMMA SumExchange ==
  ASSUME NEW S, IsFiniteSet(S), NEW T, IsFiniteSet(T), NEW m \in [S -> [T -> Int]]
  PROVE  SumFunctionOnSet([x \in S |-> SumFunctionOnSet(m[x], T)], S)
           = SumFunctionOnSet([y \in T |-> SumFunctionOnSet([x \in S |-> m[x][y]], S)], T)
<1> DEFINE row == [x \in S |-> SumFunctionOnSet(m[x], T)]
           col(s) == [y \in T |-> SumFunctionOnSet([x \in S |-> m[x][y]], s)]
           P == {s \in SUBSET S : SumFunctionOnSet(row, s) = SumFunctionOnSet(col(s), T)}
<1>0. /\ \A x \in S : row[x] \in Int /\ row[x] = SumFunctionOnSet(m[x], T)
      /\ \A s \in SUBSET S : IsFiniteSet(s) /\ \A y \in T : col(s)[y] \in Int
  <2>1. ASSUME NEW x \in S PROVE row[x] \in Int /\ row[x] = SumFunctionOnSet(m[x], T)
    <3>1. \A y \in T : m[x][y] \in Int
      OBVIOUS
    <3> QED
      BY <3>1, SumInt
  <2>2. ASSUME NEW s \in SUBSET S PROVE IsFiniteSet(s) /\ \A y \in T : col(s)[y] \in Int
    <3>1. IsFiniteSet(s)
      BY FS_Subset
    <3>2. ASSUME NEW y \in T PROVE col(s)[y] \in Int
      <4>1. \A x \in s : [z \in S |-> m[z][y]][x] \in Int
        OBVIOUS
      <4>2. SumFunctionOnSet([z \in S |-> m[z][y]], s) \in Int
        BY <3>1, <4>1, SumInt
      <4> QED
        BY <4>2
    <3> QED
      BY <3>1, <3>2
  <2> QED
    BY <2>1, <2>2
<1>1. ASSUME NEW s \in SUBSET S, \A t \in SUBSET s : t # s => t \in P
      PROVE  s \in P
  <2>1. CASE s = {}
    <3>1. SumFunctionOnSet(row, s) = 0
      BY <2>1, SumEmpty
    <3>2. \A y \in T : col(s)[y] = 0
      BY <2>1, SumEmpty
    <3>3. SumFunctionOnSet(col(s), T) = 0
      <4> HIDE DEF col
      <4> QED
        BY <3>2, SumZero
    <3> QED
      BY <3>1, <3>3
  <2>2. CASE s # {}
    <3>1. PICK z \in s : TRUE
      BY <2>2
    <3>2. SumFunctionOnSet(row, s \ {z}) = SumFunctionOnSet(col(s \ {z}), T)
      BY <1>1, <3>1
    <3>3. SumFunctionOnSet(row, s) = row[z] + SumFunctionOnSet(row, s \ {z})
      <4>1. \A x \in s : row[x] \in Int
        BY <1>0
      <4>2. IsFiniteSet(s)
        BY <1>0
      <4> HIDE DEF row
      <4> QED
        BY <3>1, <4>1, <4>2, SumSplit
    <3>4. ASSUME NEW y \in T
          PROVE  col(s)[y] = m[z][y] + col(s \ {z})[y]
      <4> DEFINE f == [x \in S |-> m[x][y]]
      <4>1. \A x \in s : f[x] \in Int
        OBVIOUS
      <4>2. f[z] = m[z][y]
        OBVIOUS
      <4>3. IsFiniteSet(s)
        BY <1>0
      <4>4. SumFunctionOnSet(f, s) = f[z] + SumFunctionOnSet(f, s \ {z})
        <5> HIDE DEF f
        <5> QED
          BY <3>1, <4>1, <4>3, SumSplit
      <4>5. col(s)[y] = SumFunctionOnSet(f, s) /\ col(s \ {z})[y] = SumFunctionOnSet(f, s \ {z})
        OBVIOUS
      <4> QED
        BY <4>2, <4>4, <4>5
    <3>5. SumFunctionOnSet(col(s), T) = SumFunctionOnSet(m[z], T) + SumFunctionOnSet(col(s \ {z}), T)
      <4>1. \A y \in T : m[z][y] \in Int /\ col(s \ {z})[y] \in Int
        BY <1>0, <3>1
      <4>2. PICK a, b, c : a = col(s) /\ b = col(s \ {z}) /\ c = m[z]
        OBVIOUS
      <4>3. \A y \in T : c[y] \in Int /\ b[y] \in Int /\ a[y] = c[y] + b[y]
        <5> HIDE DEF col
        <5> QED
          BY <3>4, <4>1, <4>2
      <4>4. SumFunctionOnSet(a, T) = SumFunctionOnSet(c, T) + SumFunctionOnSet(b, T)
        BY <4>3, SumPlus
      <4> HIDE DEF col
      <4> QED
        BY <4>2, <4>4
    <3> QED
      BY <1>0, <3>2, <3>3, <3>5
  <2> QED
    BY <2>1, <2>2
<1>2. \A s \in SUBSET S : s \in P
  <2> HIDE DEF P
  <2> QED
    BY <1>1, SetInduction
<1>3. SumFunctionOnSet(row, S) = SumFunctionOnSet(col(S), T)
  BY <1>2
<1> QED
  BY <1>3

\* Zeros do not count.
LEMMA SumOutside ==
  ASSUME NEW S, IsFiniteSet(S), NEW T, T \subseteq S, NEW f, \A x \in T : f[x] \in Int,
         \A x \in S \ T : f[x] = 0
  PROVE  SumFunctionOnSet(f, S) = SumFunctionOnSet(f, T)
<1> DEFINE P == {s \in SUBSET S : SumFunctionOnSet(f, s) = SumFunctionOnSet(f, s \cap T)}
<1>0. \A x \in S : f[x] \in Int
  OBVIOUS
<1>1. ASSUME NEW s \in SUBSET S, \A t \in SUBSET s : t # s => t \in P
      PROVE  s \in P
  <2>1. IsFiniteSet(s)
    BY FS_Subset
  <2>2. CASE s \subseteq T
    <3>1. s \cap T = s
      BY <2>2
    <3> QED
      BY <3>1
  <2>3. CASE ~(s \subseteq T)
    <3>1. PICK z \in s : z \notin T
      BY <2>3
    <3>2. s \ {z} \in P
      BY <1>1, <3>1
    <3>3. SumFunctionOnSet(f, s \ {z}) = SumFunctionOnSet(f, (s \ {z}) \cap T)
      BY <3>2
    <3>4. (s \ {z}) \cap T = s \cap T
      BY <3>1
    <3>5. \A x \in s : f[x] \in Int
      BY <1>0
    <3>6. SumFunctionOnSet(f, s) = f[z] + SumFunctionOnSet(f, s \ {z})
      BY <2>1, <3>1, <3>5, SumSplit
    <3>7. f[z] = 0
      BY <3>1
    <3>8. SumFunctionOnSet(f, s \ {z}) \in Int
      <4>1. IsFiniteSet(s \ {z}) /\ \A x \in s \ {z} : f[x] \in Int
        BY <2>1, <3>5, FS_RemoveElement
      <4> QED
        BY <4>1, SumInt
    <3>9. SumFunctionOnSet(f, s) = SumFunctionOnSet(f, s \ {z})
      BY <3>6, <3>7, <3>8
    <3> QED
      BY <3>3, <3>4, <3>9
  <2> QED
    BY <2>2, <2>3
<1>2. \A s \in SUBSET S : s \in P
  <2> HIDE DEF P
  <2> QED
    BY <1>1, SetInduction
<1>3. S \cap T = T
  OBVIOUS
<1> QED
  BY <1>2, <1>3

\* A sum with two terms that count.
LEMMA SumTwo ==
  ASSUME NEW S, IsFiniteSet(S), NEW x \in S, NEW y \in S, x # y,
         NEW f, f[x] \in Int, f[y] \in Int, \A z \in S : z \notin {x, y} => f[z] = 0
  PROVE  SumFunctionOnSet(f, S) = f[x] + f[y]
<1>1. \A z \in S : f[z] \in Int
  OBVIOUS
<1>2. SumFunctionOnSet(f, S) = f[x] + SumFunctionOnSet(f, S \ {x})
  BY <1>1, SumSplit
<1>3. SumFunctionOnSet(f, S \ {x}) = f[y]
  <2>1. /\ IsFiniteSet(S \ {x}) /\ y \in S \ {x}
        /\ \A z \in S \ {x} : z # y => f[z] = 0
    BY FS_RemoveElement
  <2> QED
    BY <2>1, SumOne
<1> QED
  BY <1>2, <1>3

-----------------------------------------------------------------------------
(* Natural numbers.                                                        *)

\* A set of natural numbers has a smallest one.
LEMMA SmallestIn ==
  ASSUME NEW T, T \subseteq Nat, T # {}
  PROVE  \E x \in T : \A y \in T : x <= y
<1>1. IsWellFoundedOn(OpToRel(<, Nat), Nat)
  BY NatLessThanWellFounded
<1>2. PICK x \in T : \A y \in T : ~(<<y, x>> \in OpToRel(<, Nat))
  BY <1>1, WFMin
<1>3. \A y \in T : ~(y < x)
  BY <1>2 DEF OpToRel
<1> QED
  BY <1>3

\* The least element of a set of natural numbers is the one Min picks.
LEMMA MinIs ==
  ASSUME NEW T, T \subseteq Nat, T # {}
  PROVE  Min(T) \in T /\ \A y \in T : Min(T) <= y
BY SmallestIn DEF Min

\* A set of natural numbers with a bound has a largest one.
LEMMA LargestIn ==
  ASSUME NEW T, T \subseteq Nat, NEW x \in T, NEW bound \in Nat, \A y \in T : y <= bound
  PROVE  \E z \in T : \A y \in T : z >= y
<1> DEFINE R == {n \in Nat : \A y \in T : y <= n}
<1>1. R \subseteq Nat /\ bound \in R
  OBVIOUS
<1> HIDE DEF R
<1>2. PICK n \in R : \A k \in R : n <= k
  BY <1>1, SmallestIn
<1>3. n \in Nat /\ \A y \in T : y <= n
  BY <1>2 DEF R
<1>4. n \in T
  <2> SUFFICES ASSUME n \notin T PROVE FALSE
    OBVIOUS
  <2>1. \A y \in T : y <= n - 1
    BY <1>3
  <2>2. n - 1 \in Nat
    BY <1>3, <2>1
  <2>3. n - 1 \in R
    BY <2>1, <2>2 DEF R
  <2> QED
    BY <1>2, <1>3, <2>3
<1> QED
  BY <1>3, <1>4

\* Induction over the natural numbers.
LEMMA FromZero ==
  ASSUME NEW P, 0 \in P, \A n \in Nat : n \in P => n + 1 \in P
  PROVE  Nat \subseteq P
<1> DEFINE T == {n \in Nat : n \notin P}
<1> SUFFICES ASSUME T # {} PROVE FALSE
  OBVIOUS
<1>1. PICK x \in T : \A y \in T : x <= y
  <2> HIDE DEF T
  <2>1. T \subseteq Nat
    BY DEF T
  <2> QED
    BY <2>1, SmallestIn
<1>2. x # 0 /\ x - 1 \in Nat /\ x - 1 \notin T
  BY <1>1
<1>3. x - 1 \in P
  BY <1>2
<1>4. (x - 1) + 1 \in P
  BY <1>2, <1>3
<1> QED
  BY <1>4

\* f starts with z, and step leads from each value to the next.
Steps(f, z, step) == f[0] = z /\ \A n \in Nat : f[n + 1] = step[n + 1][f[n]]
StepsTo(N, f, z, step) == f[0] = z /\ \A n \in 1 .. N : f[n] = step[n][f[n - 1]]

\* A function is defined by its first value and a step from each to the next.
LEMMA StepByStep ==
  ASSUME NEW S, NEW z \in S, NEW step \in [Nat -> [S -> S]]
  PROVE  \E f \in [Nat -> S] : Steps(f, z, step)
<1> DEFINE Runs(n) == {g \in [0 .. n -> S] :
                         g[0] = z /\ \A m \in 0 .. n - 1 : g[m + 1] = step[m + 1][g[m]]}
           E == {n \in Nat : Runs(n) # {}}
           U == {k \in Nat : \A n, m \in Nat : \A g \in Runs(n), h \in Runs(m) :
                               k <= n /\ k <= m => g[k] = h[k]}
<1>1. Nat \subseteq E
  <2>1. 0 \in E
    <3>1. [i \in 0 .. 0 |-> z] \in Runs(0)
      OBVIOUS
    <3> QED
      BY <3>1
  <2>2. ASSUME NEW n \in Nat, n \in E PROVE n + 1 \in E
    <3>1. PICK g \in Runs(n) : TRUE
      BY <2>2
    <3> DEFINE h == [i \in 0 .. n + 1 |-> IF i <= n THEN g[i] ELSE step[n + 1][g[n]]]
    <3>2. step[n + 1][g[n]] \in S
      BY <3>1
    <3>3. h \in [0 .. n + 1 -> S] /\ h[0] = z
      BY <3>1, <3>2
    <3>4. ASSUME NEW m \in 0 .. (n + 1) - 1 PROVE h[m + 1] = step[m + 1][h[m]]
      <4>1. CASE m = n
        BY <4>1
      <4>2. CASE m # n
        <5>1. m \in 0 .. n - 1 /\ h[m + 1] = g[m + 1] /\ h[m] = g[m]
          BY <4>2
        <5> QED
          BY <5>1, <3>1
      <4> QED
        BY <4>1, <4>2
    <3>5. h \in Runs(n + 1)
      <4> HIDE DEF h
      <4> QED
        BY <3>3, <3>4
    <3> HIDE DEF Runs
    <3> QED
      BY <3>5
  <2> HIDE DEF E
  <2> QED
    BY <2>1, <2>2, FromZero
<1>2. Nat \subseteq U
  <2>1. 0 \in U
    OBVIOUS
  <2>2. ASSUME NEW k \in Nat, k \in U PROVE k + 1 \in U
    <3>1. ASSUME NEW n \in Nat, NEW m \in Nat, NEW g \in Runs(n), NEW h \in Runs(m),
                 k + 1 <= n, k + 1 <= m
          PROVE  g[k + 1] = h[k + 1]
      <4>1. g[k] = h[k]
        <5>1. k <= n /\ k <= m
          BY <3>1
        <5> QED
          BY <2>2, <3>1, <5>1
      <4>2. k \in 0 .. n - 1 /\ k \in 0 .. m - 1
        BY <3>1
      <4>3. g[k + 1] = step[k + 1][g[k]] /\ h[k + 1] = step[k + 1][h[k]]
        BY <3>1, <4>2
      <4> QED
        BY <4>1, <4>3
    <3> HIDE DEF Runs
    <3> QED
      BY <3>1
  <2> HIDE DEF U
  <2> QED
    BY <2>1, <2>2, FromZero
<1> DEFINE G(n) == CHOOSE g : g \in Runs(n)
           f == [n \in Nat |-> G(n)[n]]
<1>3. \A n \in Nat : G(n) \in Runs(n)
  <2> HIDE DEF Runs
  <2> QED
    BY <1>1
<1>4. f \in [Nat -> S]
  <2>1. \A n \in Nat : G(n)[n] \in S
    <3> TAKE n \in Nat
    <3>1. G(n) \in [0 .. n -> S]
      BY <1>3
    <3> HIDE DEF G
    <3> QED
      BY <3>1
  <2> QED
    BY <2>1
<1>5. f[0] = z
  <2>1. G(0) \in Runs(0)
    BY <1>3
  <2> HIDE DEF G
  <2>2. G(0)[0] = z
    BY <2>1
  <2> QED
    BY <2>2
<1>6. ASSUME NEW n \in Nat PROVE f[n + 1] = step[n + 1][f[n]]
  <2>1. G(n) \in Runs(n) /\ G(n + 1) \in Runs(n + 1)
    <3>1. n \in Nat /\ n + 1 \in Nat
      OBVIOUS
    <3> HIDE DEF G, Runs
    <3> QED
      BY <1>3, <3>1
  <2> HIDE DEF G
  <2>2. G(n + 1)[n + 1] = step[n + 1][G(n + 1)[n]]
    <3>1. n \in 0 .. (n + 1) - 1
      OBVIOUS
    <3> QED
      BY <2>1, <3>1
  <2>3. G(n + 1)[n] = G(n)[n]
    <3> HIDE DEF U, Runs
    <3>1. n \in U
      BY <1>2
    <3>2. n + 1 \in Nat /\ n <= n /\ n <= n + 1
      OBVIOUS
    <3> QED
      BY <2>1, <3>1, <3>2 DEF U
  <2> QED
    BY <2>2, <2>3
<1> HIDE DEF f
<1> QED
  BY <1>4, <1>5, <1>6 DEF Steps

\* The same over an interval.
LEMMA StepUpTo ==
  ASSUME NEW S, NEW z \in S, NEW N \in Nat, NEW step \in [1 .. N -> [S -> S]]
  PROVE  \E f \in [0 .. N -> S] : StepsTo(N, f, z, step)
<1> DEFINE long == [n \in Nat |-> IF n \in 1 .. N THEN step[n] ELSE [x \in S |-> x]]
<1>1. long \in [Nat -> [S -> S]]
  OBVIOUS
<1>2. \A n \in 1 .. N : long[n] = step[n]
  OBVIOUS
<1> HIDE DEF long
<1>3. PICK f \in [Nat -> S] : Steps(f, z, long)
  BY <1>1, StepByStep
<1>4. f[0] = z /\ \A n \in Nat : f[n + 1] = long[n + 1][f[n]]
  BY <1>3 DEF Steps
<1> DEFINE g == [n \in 0 .. N |-> f[n]]
<1>5. g \in [0 .. N -> S] /\ g[0] = z
  BY <1>4
<1>6. ASSUME NEW n \in 1 .. N PROVE g[n] = step[n][g[n - 1]]
  <2>1. n - 1 \in Nat /\ (n - 1) + 1 = n
    OBVIOUS
  <2>2. f[n] = long[n][f[n - 1]]
    BY <1>4, <2>1
  <2>3. n \in 0 .. N /\ n - 1 \in 0 .. N
    OBVIOUS
  <2> QED
    BY <1>2, <2>2, <2>3
<1> HIDE DEF g
<1> QED
  BY <1>5, <1>6 DEF StepsTo
=============================================================================

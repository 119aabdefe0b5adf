--------------------------- MODULE AmountsProofs ---------------------------
(***************************************************************************)
(* The texts of the fields and of the balances, for texts of any length    *)
(* and any number of digits: what the code does to a text leaves its value *)
(* alone, or lowers it where it says so.                                   *)
(*                                                                         *)
(* A value is a sum over the places of a number, so that two texts have    *)
(* the same value when each place is worth the same in both (SameValue):   *)
(* the zeros in front may go (DropsAlike), a separator is no digit         *)
(* (SeparatedIs), and of a text that is cut off the places after the cut   *)
(* are lost, which are worth less than one of the place before them        *)
(* (CutOff, TotalBelow).                                                   *)
(***************************************************************************)
EXTENDS DataTheorems, Amounts

-----------------------------------------------------------------------------
(* Digits and powers.                                                      *)

LEMMA DigitsAre ==
  /\ \A n \in 0 .. 9 : Digits[n + 1] # "." /\ Digits[n + 1] # Comma /\ Digits[n + 1] # "-"
  /\ \A n, m \in 0 .. 9 : Digits[n + 1] = Digits[m + 1] => n = m
  /\ Digits[0 + 1] = "0" /\ Comma # "." /\ Comma # "-"
<1>1. Digits[0 + 1] = "0"
  BY DEF Digits
<1>2. \A n \in 0 .. 9 : n = 0 \/ n = 1 \/ n = 2 \/ n = 3 \/ n = 4 \/ n = 5 \/ n = 6
                        \/ n = 7 \/ n = 8 \/ n = 9
  OBVIOUS
<1>3. \A n, m \in 0 .. 9 : Digits[n + 1] = Digits[m + 1] => n = m
  BY <1>2 DEF Digits
<1>4. \A n \in 0 .. 9 : Digits[n + 1] # "."
  BY DEF Digits
<1>5. \A n \in 0 .. 9 : Digits[n + 1] # "-"
  BY DEF Digits
<1>6. \A n \in 0 .. 9 : Digits[n + 1] # Comma
  <2>1. /\ Comma # "0" /\ Comma # "1" /\ Comma # "2" /\ Comma # "3" /\ Comma # "4"
        /\ Comma # "5" /\ Comma # "6" /\ Comma # "7" /\ Comma # "8" /\ Comma # "9"
    BY DEF Comma
  <2> QED
    BY <1>2, <2>1 DEF Digits
<1>7. Comma # "." /\ Comma # "-"
  BY DEF Comma
<1> QED
  BY <1>1, <1>3, <1>4, <1>5, <1>6, <1>7

\* The digit that a character is.
LEMMA DigitValue ==
  /\ \A c : IsDigit(c) => DigitOf(c) \in 0 .. 9 /\ c = Digits[DigitOf(c) + 1]
  /\ IsDigit("0") /\ DigitOf("0") = 0 /\ ~IsDigit(".")
<1>1. ASSUME NEW c, IsDigit(c) PROVE DigitOf(c) \in 0 .. 9 /\ c = Digits[DigitOf(c) + 1]
  BY <1>1 DEF IsDigit, DigitOf
<1>2. IsDigit("0")
  <2>1. 0 \in 0 .. 9 /\ "0" = Digits[0 + 1]
    BY DigitsAre
  <2> QED
    BY <2>1 DEF IsDigit
<1>3. DigitOf("0") = 0
  <2>1. DigitOf("0") \in 0 .. 9 /\ "0" = Digits[DigitOf("0") + 1]
    BY <1>1, <1>2
  <2>2. "0" = Digits[0 + 1]
    BY DigitsAre
  <2> QED
    BY <2>1, <2>2, DigitsAre
<1>4. ~IsDigit(".")
  BY DigitsAre DEF IsDigit
<1> QED
  BY <1>1, <1>2, <1>3, <1>4

\* The characters of numbers.
LEMMA CharsAre ==
  /\ \A c : c \in NumberChars <=> IsDigit(c) \/ c = "."
  /\ Comma \notin NumberChars /\ "-" \notin NumberChars
  /\ "0" \in NumberChars /\ "." \in NumberChars
<1>1. \A c : c \in NumberChars <=> IsDigit(c) \/ c = "."
  BY DEF NumberChars, IsDigit
<1>2. ~IsDigit(Comma) /\ ~IsDigit("-")
  BY DigitsAre DEF IsDigit
<1> QED
  BY <1>1, <1>2, DigitsAre, DigitValue

LEMMA PowerIs ==
  /\ Power[0] = 1 /\ \A n \in Nat : Power[n] \in Nat /\ Power[n + 1] = 10 * Power[n]
  /\ \A n \in Nat : Power[n] >= 1
<1> DEFINE step == [n \in Nat |-> [x \in Nat |-> 10 * x]]
           IsPower(g) == g = [n \in Nat |-> IF n = 0 THEN 1 ELSE 10 * g[n - 1]]
<1>1. step \in [Nat -> [Nat -> Nat]] /\ \A n \in Nat : \A x \in Nat : step[n][x] = 10 * x
  OBVIOUS
<1> HIDE DEF step
<1>20. PICK f \in [Nat -> Nat] : Steps(f, 1, step)
  <2>1. 1 \in Nat /\ step \in [Nat -> [Nat -> Nat]]
    BY <1>1
  <2> QED
    BY <2>1, StepByStep
<1>2. f[0] = 1 /\ \A n \in Nat : f[n + 1] = step[n + 1][f[n]]
  BY <1>20 DEF Steps
<1>3. f = [n \in Nat |-> IF n = 0 THEN 1 ELSE 10 * f[n - 1]]
  <2>1. f[0] = 1
    BY <1>2
  <2>2. ASSUME NEW n \in Nat, n # 0 PROVE f[n] = 10 * f[n - 1]
    <3>1. n - 1 \in Nat /\ (n - 1) + 1 = n
      BY <2>2
    <3>2. f[n] = step[n][f[n - 1]]
      BY <1>2, <3>1
    <3> QED
      BY <1>1, <3>1, <3>2
  <2> QED
    BY <2>1, <2>2
<1>4. IsPower(Power)
  <2>1. IsPower(f)
    BY <1>3
  <2>2. Power = CHOOSE g : IsPower(g)
    BY DEF Power
  <2> HIDE DEF IsPower
  <2> QED
    BY <2>1, <2>2
<1>5. Power[0] = 1 /\ \A n \in Nat : Power[n + 1] = 10 * Power[n]
  <2>1. Power = [n \in Nat |-> IF n = 0 THEN 1 ELSE 10 * Power[n - 1]]
    BY <1>4
  <2>2. \A n \in Nat : Power[n] = IF n = 0 THEN 1 ELSE 10 * Power[n - 1]
    BY <2>1
  <2>3. ASSUME NEW n \in Nat PROVE Power[n + 1] = 10 * Power[n]
    <3>1. n + 1 \in Nat /\ n + 1 # 0 /\ (n + 1) - 1 = n
      OBVIOUS
    <3> QED
      BY <2>2, <3>1
  <2> QED
    BY <2>2, <2>3
<1> DEFINE P == {n \in Nat : Power[n] \in Nat /\ Power[n] >= 1}
<1>6. Nat \subseteq P
  <2>1. 0 \in P
    BY <1>5
  <2>2. ASSUME NEW n \in Nat, n \in P PROVE n + 1 \in P
    BY <1>5, <2>2
  <2> HIDE DEF P
  <2> QED
    BY <2>1, <2>2, FromZero
<1> QED
  BY <1>5, <1>6

-----------------------------------------------------------------------------
(* The characters that are kept.                                           *)

\* The recursion of Only.
KeepsOnly(kept, t, C) ==
  kept = [n \in 0 .. Len(t) |->
            IF n = 0 THEN <<>>
            ELSE IF t[n] \in C THEN Append(kept[n - 1], t[n]) ELSE kept[n - 1]]

LEMMA OnlyUnfolded ==
  ASSUME NEW t, NEW C
  PROVE  Only(t, C) = (CHOOSE kept : KeepsOnly(kept, t, C))[Len(t)]
BY DEF Only, KeepsOnly

\* There is such a function, and Only is its last value.
LEMMA OnlyIs ==
  ASSUME NEW S, NEW t \in Seq(S), NEW C
  PROVE  \E kept \in [0 .. Len(t) -> Seq(S)] :
            KeepsOnly(kept, t, C) /\ Only(t, C) = kept[Len(t)]
<1> DEFINE N == Len(t)
           step == [n \in 1 .. N |-> [s \in Seq(S) |->
                      IF t[n] \in C THEN Append(s, t[n]) ELSE s]]
<1>1. N \in Nat /\ <<>> \in Seq(S) /\ \A n \in 1 .. N : t[n] \in S
  BY EmptySeq
<1>2. step \in [1 .. N -> [Seq(S) -> Seq(S)]]
  <2>1. \A n \in 1 .. N : \A s \in Seq(S) :
          (IF t[n] \in C THEN Append(s, t[n]) ELSE s) \in Seq(S)
    BY <1>1, AppendProperties
  <2> QED
    BY <2>1
<1>3. \A n \in 1 .. N : \A s \in Seq(S) :
        step[n][s] = IF t[n] \in C THEN Append(s, t[n]) ELSE s
  OBVIOUS
<1> HIDE DEF step
<1>4. PICK f \in [0 .. N -> Seq(S)] : StepsTo(N, f, <<>>, step)
  BY <1>1, <1>2, StepUpTo
<1>5. f[0] = <<>> /\ \A n \in 1 .. N : f[n] = step[n][f[n - 1]]
  BY <1>4 DEF StepsTo
<1>6. ASSUME NEW n \in 0 .. N
      PROVE  f[n] = IF n = 0 THEN <<>>
                    ELSE IF t[n] \in C THEN Append(f[n - 1], t[n]) ELSE f[n - 1]
  <2>1. CASE n = 0
    BY <1>5, <2>1
  <2>2. CASE n # 0
    <3>1. n \in 1 .. N /\ n - 1 \in 0 .. N
      BY <1>1, <2>2
    <3>2. f[n - 1] \in Seq(S)
      BY <3>1
    <3> QED
      BY <1>3, <1>5, <2>2, <3>1, <3>2
  <2> QED
    BY <2>1, <2>2
<1>7. KeepsOnly(f, t, C)
  BY <1>6 DEF KeepsOnly
<1> DEFINE K == CHOOSE kept : KeepsOnly(kept, t, C)
<1>8. KeepsOnly(K, t, C)
  BY <1>7
<1>9. Only(t, C) = K[N]
  BY OnlyUnfolded
<1> HIDE DEF K
<1>10. \A n \in 0 .. N : K[n] = IF n = 0 THEN <<>>
                    ELSE IF t[n] \in C THEN Append(K[n - 1], t[n]) ELSE K[n - 1]
  BY <1>8 DEF KeepsOnly
<1> DEFINE P == {n \in Nat : n <= N => K[n] = f[n]}
<1>11. Nat \subseteq P
  <2>1. 0 \in P
    BY <1>1, <1>5, <1>10
  <2>2. ASSUME NEW n \in Nat, n \in P PROVE n + 1 \in P
    <3>1. CASE n + 1 <= N
      <4>1. K[n] = f[n] /\ n + 1 \in 0 .. N /\ (n + 1) - 1 = n /\ n + 1 # 0
        BY <1>1, <2>2, <3>1
      <4>2. K[n + 1] = IF t[n + 1] \in C THEN Append(K[n], t[n + 1]) ELSE K[n]
        BY <1>10, <4>1
      <4>3. f[n + 1] = IF t[n + 1] \in C THEN Append(f[n], t[n + 1]) ELSE f[n]
        BY <1>6, <4>1
      <4> QED
        BY <4>1, <4>2, <4>3
    <3>2. CASE ~(n + 1 <= N)
      BY <3>2
    <3> QED
      BY <3>1, <3>2
  <2> HIDE DEF P
  <2> QED
    BY <2>1, <2>2, FromZero
<1>12. K[N] = f[N]
  BY <1>1, <1>11
<1> QED
  BY <1>7, <1>9, <1>12

\* What is kept, step by step.
OnlySteps(kept, t, C) ==
  /\ kept[0] = <<>>
  /\ \A n \in 0 .. Len(t) - 1 :
       kept[n + 1] = IF t[n + 1] \in C THEN Append(kept[n], t[n + 1]) ELSE kept[n]

LEMMA OnlyRuns ==
  ASSUME NEW S, NEW t \in Seq(S), NEW C
  PROVE  \E kept \in [0 .. Len(t) -> Seq(S)] :
            OnlySteps(kept, t, C) /\ Only(t, C) = kept[Len(t)]
<1>1. PICK kept \in [0 .. Len(t) -> Seq(S)] :
         KeepsOnly(kept, t, C) /\ Only(t, C) = kept[Len(t)]
  BY OnlyIs
<1>2. \A n \in 0 .. Len(t) :
        kept[n] = IF n = 0 THEN <<>>
                  ELSE IF t[n] \in C THEN Append(kept[n - 1], t[n]) ELSE kept[n - 1]
  BY <1>1 DEF KeepsOnly
<1>3. Len(t) \in Nat
  OBVIOUS
<1>4. ASSUME NEW n \in 0 .. Len(t) - 1
      PROVE  kept[n + 1] = IF t[n + 1] \in C THEN Append(kept[n], t[n + 1]) ELSE kept[n]
  <2>1. n + 1 \in 0 .. Len(t) /\ n + 1 # 0 /\ (n + 1) - 1 = n
    BY <1>3
  <2> QED
    BY <1>2, <2>1
<1>5. kept[0] = <<>>
  BY <1>2, <1>3
<1>6. OnlySteps(kept, t, C)
  BY <1>4, <1>5 DEF OnlySteps
<1> QED
  BY <1>1, <1>6

\* Only kept characters are left.
LEMMA OnlyKept ==
  ASSUME NEW S, NEW t \in Seq(S), NEW C
  PROVE  Only(t, C) \in Seq(S \cap C)
<1>1. PICK kept \in [0 .. Len(t) -> Seq(S)] :
         OnlySteps(kept, t, C) /\ Only(t, C) = kept[Len(t)]
  BY OnlyRuns
<1>2. /\ kept[0] = <<>> /\ Len(t) \in Nat /\ \A n \in 1 .. Len(t) : t[n] \in S
      /\ \A n \in 0 .. Len(t) - 1 :
           kept[n + 1] = IF t[n + 1] \in C THEN Append(kept[n], t[n + 1]) ELSE kept[n]
  BY <1>1 DEF OnlySteps
<1>3. kept[0] \in Seq(S \cap C)
  BY <1>2, EmptySeq
<1>4. ASSUME NEW n \in Nat, n + 1 <= Len(t), kept[n] \in Seq(S \cap C)
      PROVE  kept[n + 1] \in Seq(S \cap C)
  <2>1. n \in 0 .. Len(t) - 1 /\ t[n + 1] \in S
    BY <1>2, <1>4
  <2>2. CASE t[n + 1] \in C
    <3>1. t[n + 1] \in S \cap C
      BY <2>1, <2>2
    <3>2. Append(kept[n], t[n + 1]) \in Seq(S \cap C)
      BY <1>4, <3>1, AppendProperties
    <3>3. kept[n + 1] = Append(kept[n], t[n + 1])
      BY <1>2, <2>1, <2>2
    <3> QED
      BY <3>2, <3>3
  <2>3. CASE t[n + 1] \notin C
    BY <1>2, <1>4, <2>1, <2>3
  <2> QED
    BY <2>2, <2>3
<1> DEFINE P == {n \in Nat : n <= Len(t) => kept[n] \in Seq(S \cap C)}
<1>5. 0 \in P /\ \A n \in Nat : n \in P => n + 1 \in P
  BY <1>2, <1>3, <1>4
<1>6. Nat \subseteq P
  <2> HIDE DEF P
  <2> QED
    BY <1>5, FromZero
<1> QED
  BY <1>1, <1>2, <1>6

\* A text all of whose characters are kept is left as it is.
LEMMA OnlyAll ==
  ASSUME NEW S, NEW t \in Seq(S), NEW C, S \subseteq C
  PROVE  Only(t, C) = t
<1>1. PICK kept \in [0 .. Len(t) -> Seq(S)] :
         OnlySteps(kept, t, C) /\ Only(t, C) = kept[Len(t)]
  BY OnlyRuns
<1>2. /\ kept[0] = <<>> /\ Len(t) \in Nat /\ \A n \in 1 .. Len(t) : t[n] \in S
      /\ \A n \in 0 .. Len(t) - 1 :
           kept[n + 1] = IF t[n + 1] \in C THEN Append(kept[n], t[n + 1]) ELSE kept[n]
  BY <1>1 DEF OnlySteps
<1>3. kept[0] = SubSeq(t, 1, 0)
  BY <1>2, SubSeqEmpty
<1>4. ASSUME NEW n \in Nat, n + 1 <= Len(t), kept[n] = SubSeq(t, 1, n)
      PROVE  kept[n + 1] = SubSeq(t, 1, n + 1)
  <2>1. /\ n \in 0 .. Len(t) - 1 /\ t[n + 1] \in S /\ 1 \in 1 .. Len(t)
        /\ n + 1 \in 1 .. Len(t) /\ (n + 1) - 1 = n
    BY <1>2, <1>4
  <2>2. kept[n + 1] = Append(kept[n], t[n + 1])
    BY <1>2, <2>1
  <2>3. SubSeq(t, 1, n + 1) = SubSeq(t, 1, (n + 1) - 1) \o <<t[n + 1]>>
    BY <2>1, SubSeqRecursiveSecond
  <2>4. \A i \in 1 .. n : t[i] \in S
    BY <1>2, <1>4
  <2>5. SubSeq(t, 1, n) \in Seq(S)
    BY <2>4, SubSeqProperties
  <2>6. Append(SubSeq(t, 1, n), t[n + 1]) = SubSeq(t, 1, n) \o <<t[n + 1]>>
    BY <2>1, <2>5, AppendIsConcat
  <2> QED
    BY <1>4, <2>1, <2>2, <2>3, <2>6
<1> DEFINE P == {n \in Nat : n <= Len(t) => kept[n] = SubSeq(t, 1, n)}
<1>5. 0 \in P /\ \A n \in Nat : n \in P => n + 1 \in P
  BY <1>2, <1>3, <1>4
<1>6. Nat \subseteq P
  <2> HIDE DEF P
  <2> QED
    BY <1>5, FromZero
<1>7. SubSeq(t, 1, Len(t)) = t
  BY SubSeqFull
<1> QED
  BY SMTT(30), <1>1, <1>2, <1>6, <1>7

Moves(S) ==
  \A a, b \in Seq(S) : \A x \in S : Append(a \o b, x) = a \o Append(b, x)

LEMMA ItMoves == \A S : Moves(S)
<1> SUFFICES ASSUME NEW S, NEW a \in Seq(S), NEW b \in Seq(S), NEW x \in S
             PROVE  Append(a \o b, x) = a \o Append(b, x)
  BY DEF Moves
<1>1. a \o b \in Seq(S)
  BY ConcatProperties
<1>2. Append(a \o b, x) = (a \o b) \o <<x>> /\ Append(b, x) = b \o <<x>>
  BY <1>1, AppendIsConcat
<1>3. <<x>> \in Seq(S)
  OBVIOUS
<1>4. (a \o b) \o <<x>> = a \o (b \o <<x>>)
  BY <1>3, ConcatAssociative
<1> QED
  BY <1>2, <1>4

\* u is t without its first character.
IsTail(u, t) == Len(t) = Len(u) + 1 /\ \A i \in 1 .. Len(u) : u[i] = t[i + 1]

\* A first character that is kept stays the first, before what is kept of u,
\* the rest.
LEMMA OnlyFirst ==
  ASSUME NEW S, NEW t \in Seq(S), NEW u \in Seq(S), NEW C, IsTail(u, t), t[1] \in C
  PROVE  Only(t, C) = <<t[1]>> \o Only(u, C)
<1>1. PICK kept \in [0 .. Len(t) -> Seq(S)] :
         OnlySteps(kept, t, C) /\ Only(t, C) = kept[Len(t)]
  BY OnlyRuns
<1>2. PICK rest \in [0 .. Len(u) -> Seq(S)] :
         OnlySteps(rest, u, C) /\ Only(u, C) = rest[Len(u)]
  BY OnlyRuns
<1>3. /\ kept[0] = <<>>
      /\ \A n \in 0 .. Len(t) - 1 :
           kept[n + 1] = IF t[n + 1] \in C THEN Append(kept[n], t[n + 1]) ELSE kept[n]
  BY <1>1 DEF OnlySteps
<1>4. /\ rest[0] = <<>>
      /\ \A n \in 0 .. Len(u) - 1 :
           rest[n + 1] = IF u[n + 1] \in C THEN Append(rest[n], u[n + 1]) ELSE rest[n]
  BY <1>2 DEF OnlySteps
<1>5. PICK first : first = <<t[1]>>
  OBVIOUS
<1>6. /\ Len(u) \in Nat /\ Len(t) = Len(u) + 1 /\ \A n \in 1 .. Len(t) : t[n] \in S
      /\ \A n \in 1 .. Len(u) : u[n] \in S /\ u[n] = t[n + 1]
  BY DEF IsTail
<1>7. t[1] \in S
  BY <1>6
<1>8. first \in Seq(S)
  BY <1>5, <1>7
<1>9. kept[0 + 1] = first \o rest[0]
  <2>1. 0 \in 0 .. Len(t) - 1 /\ 0 + 1 = 1
    BY <1>6
  <2>2. kept[1] = Append(<<>>, t[1])
    BY <1>3, <2>1
  <2>3. Append(<<>>, t[1]) = first
    BY <1>5
  <2>4. first \o <<>> = first
    BY <1>8, ConcatEmptySeq
  <2> QED
    BY <1>4, <2>1, <2>2, <2>3, <2>4
<1>10. ASSUME NEW n \in Nat, n + 1 <= Len(u), kept[n + 1] = first \o rest[n]
       PROVE  kept[(n + 1) + 1] = first \o rest[n + 1]
  <2>1. n + 1 \in 0 .. Len(t) - 1 /\ n \in 0 .. Len(u) - 1 /\ n \in 0 .. Len(u)
    BY <1>6, <1>10
  <2>2. u[n + 1] = t[(n + 1) + 1] /\ u[n + 1] \in S
    BY <1>6, <1>10
  <2>3. rest[n] \in Seq(S)
    BY <2>1
  <2>4. kept[(n + 1) + 1] = IF u[n + 1] \in C THEN Append(kept[n + 1], u[n + 1])
                            ELSE kept[n + 1]
    BY <1>3, <2>1, <2>2
  <2>5. rest[n + 1] = IF u[n + 1] \in C THEN Append(rest[n], u[n + 1]) ELSE rest[n]
    BY <1>4, <2>1
  <2>6. CASE u[n + 1] \in C
    <3>1. Append(first \o rest[n], u[n + 1]) = first \o Append(rest[n], u[n + 1])
      <4>1. Moves(S)
        BY ItMoves
      <4> QED
        BY <1>8, <2>2, <2>3, <4>1 DEF Moves
    <3> QED
      BY <1>10, <2>4, <2>5, <2>6, <3>1
  <2>7. CASE u[n + 1] \notin C
    BY <1>10, <2>4, <2>5, <2>7
  <2> QED
    BY <2>6, <2>7
<1> DEFINE P == {n \in Nat : n <= Len(u) => kept[n + 1] = first \o rest[n]}
<1>11. 0 \in P
  BY <1>6, <1>9
<1>12. Nat \subseteq P
  <2>1. ASSUME NEW n \in Nat, n \in P PROVE n + 1 \in P
    <3>1. CASE n + 1 <= Len(u)
      <4>1. n <= Len(u)
        BY <1>6, <3>1
      <4>2. kept[n + 1] = first \o rest[n]
        BY <2>1, <4>1
      <4>3. kept[(n + 1) + 1] = first \o rest[n + 1]
        BY <1>10, <3>1, <4>2
      <4> QED
        BY <4>3
    <3>2. CASE ~(n + 1 <= Len(u))
      BY <3>2
    <3> QED
      BY <3>1, <3>2
  <2> HIDE DEF P
  <2> QED
    BY <1>11, <2>1, FromZero
<1>13. kept[Len(u) + 1] = first \o rest[Len(u)]
  BY <1>6, <1>12
<1> QED
  BY <1>1, <1>2, <1>5, <1>6, <1>13

-----------------------------------------------------------------------------
(* Dots and digits.                                                        *)

\* The first dot and what is before it.
LEMMA DotIs ==
  ASSUME NEW S, NEW t \in Seq(S)
  PROVE  /\ Dots(t) \subseteq 1 .. Len(t) /\ \A i \in Dots(t) : t[i] = "."
         /\ Dots(t) = {} => Dot(t) = 0 /\ Whole(t) = Len(t)
         /\ Dots(t) # {} => /\ Dot(t) \in Dots(t) /\ Whole(t) = Dot(t) - 1
                            /\ \A i \in Dots(t) : Dot(t) <= i
         /\ Whole(t) \in 0 .. Len(t)
<1>1. Dots(t) \subseteq 1 .. Len(t) /\ \A i \in Dots(t) : t[i] = "."
  BY DEF Dots
<1>2. Dots(t) = {} => Dot(t) = 0 /\ Whole(t) = Len(t)
  BY DEF Dot, Whole
<1>3. Dots(t) # {} => /\ Dot(t) \in Dots(t) /\ Whole(t) = Dot(t) - 1
                      /\ \A i \in Dots(t) : Dot(t) <= i
  <2>1. SUFFICES ASSUME Dots(t) # {}
                 PROVE  /\ Dot(t) \in Dots(t) /\ Whole(t) = Dot(t) - 1
                        /\ \A i \in Dots(t) : Dot(t) <= i
    OBVIOUS
  <2>2. Dots(t) \subseteq Nat
    BY <1>1
  <2>3. Min(Dots(t)) \in Dots(t) /\ \A i \in Dots(t) : Min(Dots(t)) <= i
    BY <2>1, <2>2, MinIs
  <2> QED
    BY <2>1, <2>3 DEF Dot, Whole
<1>4. Whole(t) \in 0 .. Len(t)
  <2>1. Len(t) \in Nat
    OBVIOUS
  <2> QED
    BY <1>1, <1>2, <1>3, <2>1
<1> QED
  BY <1>1, <1>2, <1>3, <1>4

LEMMA WorthNat ==
  ASSUME NEW t, NEW w \in Nat
  PROVE  Worth(t, w) \in Nat
<1>1. CASE Place(t, w) \in DOMAIN t /\ IsDigit(t[Place(t, w)])
  <2>1. DigitOf(t[Place(t, w)]) \in Nat /\ Power[w] \in Nat
    BY <1>1, DigitValue, PowerIs
  <2>2. \A a, b \in Nat : a * b \in Nat
    OBVIOUS
  <2>3. Worth(t, w) = DigitOf(t[Place(t, w)]) * Power[w]
    BY <1>1 DEF Worth
  <2> QED
    BY <2>1, <2>2, <2>3
<1>2. CASE ~(Place(t, w) \in DOMAIN t /\ IsDigit(t[Place(t, w)]))
  BY <1>2 DEF Worth
<1> QED
  BY <1>1, <1>2

\* What the digits up to the one that counts Power[N] are worth.
Total(t, N) == SumFunctionOnSet([w \in 0 .. N |-> Worth(t, w)], 0 .. N)

\* Digits beyond the first are worth nothing.
LEMMA ValueUpTo ==
  ASSUME AmountsAssumption, NEW S, NEW t \in Seq(S), NEW N \in Nat, Scale + Whole(t) - 1 <= N
  PROVE  Value(t) = Total(t, N) /\ Value(t) \in Nat
<1>1. Whole(t) \in Nat /\ Scale \in Nat /\ Len(t) \in Nat /\ DOMAIN t = 1 .. Len(t)
  BY DotIs DEF AmountsAssumption
<1> DEFINE f == [w \in 0 .. N |-> Worth(t, w)]
           g == [w \in Weights(t) |-> Worth(t, w)]
<1>2. Weights(t) \subseteq 0 .. N /\ Weights(t) \subseteq Nat
  BY <1>1 DEF Weights
<1>3. /\ \A w \in 0 .. N : f[w] = Worth(t, w) /\ f[w] \in Nat
      /\ \A w \in Weights(t) : g[w] = f[w]
  BY <1>2, WorthNat
<1>4. \A w \in (0 .. N) \ Weights(t) : f[w] = 0
  <2> SUFFICES ASSUME NEW w \in (0 .. N) \ Weights(t) PROVE Worth(t, w) = 0
    BY <1>3
  <2>1. w \in Nat /\ w >= Scale + Whole(t)
    BY <1>1 DEF Weights
  <2>2. Place(t, w) <= 0 /\ Place(t, w) \in Int
    BY <1>1, <2>1 DEF Place
  <2> QED
    BY <1>1, <2>2 DEF Worth
<1>5. IsFiniteSet(0 .. N) /\ IsFiniteSet(Weights(t))
  BY <1>1, FS_Interval DEF Weights
<1>6. Value(t) = SumFunctionOnSet(g, Weights(t)) /\ Total(t, N) = SumFunctionOnSet(f, 0 .. N)
  BY DEF Value, Total
<1> HIDE DEF f, g
<1>7. SumFunctionOnSet(g, Weights(t)) = SumFunctionOnSet(f, Weights(t))
  BY <1>3, <1>5, SumSame
<1>8. \A w \in Weights(t) : f[w] \in Int
  BY <1>2, <1>3
<1>9. SumFunctionOnSet(f, 0 .. N) = SumFunctionOnSet(f, Weights(t))
  BY <1>2, <1>4, <1>5, <1>8, SumOutside
<1>10. SumFunctionOnSet(f, {}) <= SumFunctionOnSet(f, 0 .. N)
  <2>1. {} \subseteq 0 .. N /\ \A w \in 0 .. N : f[w] \in Nat
    BY <1>3
  <2> QED
    BY <1>5, <2>1, SumSubset
<1>11. SumFunctionOnSet(f, {}) = 0
  BY SumEmpty
<1>12. SumFunctionOnSet(f, 0 .. N) \in Int
  <2>1. \A w \in 0 .. N : f[w] \in Int
    BY <1>3
  <2> QED
    BY <1>5, <2>1, SumInt
<1> QED
  BY <1>6, <1>7, <1>9, <1>10, <1>11, <1>12

LEMMA ValueNat ==
  ASSUME AmountsAssumption, NEW S, NEW t \in Seq(S)
  PROVE  Value(t) \in Nat
<1>1. Whole(t) \in Nat /\ Scale \in Nat
  BY DotIs DEF AmountsAssumption
<1>2. Scale + Whole(t) \in Nat /\ Scale + Whole(t) - 1 <= Scale + Whole(t)
  BY <1>1
<1> QED
  BY <1>2, ValueUpTo

\* Two texts whose digits are worth the same have the same value.
LEMMA SameValue ==
  ASSUME AmountsAssumption, NEW S, NEW s \in Seq(S), NEW t \in Seq(S),
         \A w \in Nat : Worth(s, w) = Worth(t, w)
  PROVE  Value(s) = Value(t)
<1>1. Whole(t) \in Nat /\ Whole(s) \in Nat /\ Scale \in Nat
  BY DotIs DEF AmountsAssumption
<1> DEFINE N == Scale + Whole(s) + Whole(t)
<1>2. N \in Nat /\ Scale + Whole(t) - 1 <= N /\ Scale + Whole(s) - 1 <= N
  BY <1>1
<1> HIDE DEF N
<1>3. Value(s) = Total(s, N) /\ Value(t) = Total(t, N)
  BY <1>2, ValueUpTo
<1>4. [w \in 0 .. N |-> Worth(s, w)] = [w \in 0 .. N |-> Worth(t, w)]
  <2>1. 0 .. N \subseteq Nat
    BY <1>2
  <2> QED
    BY <2>1
<1> QED
  BY <1>3, <1>4 DEF Total

-----------------------------------------------------------------------------
(* Zeros in front.                                                         *)

\* s is t without k zeros in front.
Drops(t, s, k) ==
  /\ Len(t) = Len(s) + k /\ \A i \in 1 .. k : t[i] = "0"
  /\ \A i \in 1 .. Len(s) : s[i] = t[i + k]

\* Two texts of digits and dots are alike: their digits are worth the same.
Alike(t, s) ==
  /\ OneDot(t) <=> OneDot(s)
  /\ \A w \in Nat : Worth(t, w) = Worth(s, w)

LEMMA DropsAlike ==
  ASSUME AmountsAssumption, NEW t \in Seq(NumberChars), NEW s \in Seq(NumberChars),
         NEW k \in Nat, Drops(t, s, k)
  PROVE  Alike(t, s)
<1>1. /\ Len(t) = Len(s) + k /\ Len(s) \in Nat /\ Len(t) \in Nat /\ Scale \in Nat
      /\ DOMAIN t = 1 .. Len(t) /\ DOMAIN s = 1 .. Len(s)
  BY DEF Drops, AmountsAssumption
<1>2. \A i \in 1 .. k : t[i] = "0" /\ t[i] # "."
  BY DEF Drops
<1>3. \A i \in 1 .. Len(s) : s[i] = t[i + k]
  BY DEF Drops
<1>4. \A i \in Dots(t) : i > k /\ i - k \in Dots(s)
  BY <1>1, <1>2, <1>3 DEF Dots
<1>5. \A i \in Dots(s) : i + k \in Dots(t)
  BY <1>1, <1>3 DEF Dots
<1>6. OneDot(t) <=> OneDot(s)
  <2>1. Dots(t) \subseteq Int /\ Dots(s) \subseteq Int
    BY <1>1 DEF Dots
  <2>2. ASSUME OneDot(t) PROVE OneDot(s)
    BY <1>5, <2>1, <2>2 DEF OneDot
  <2>3. ASSUME OneDot(s), NEW i \in Dots(t), NEW j \in Dots(t) PROVE i = j
    <3>1. i - k = j - k
      BY <1>4, <2>3 DEF OneDot
    <3> QED
      BY <2>1, <3>1
  <2> QED
    BY <2>2, <2>3 DEF OneDot
<1>7. Whole(t) = Whole(s) + k /\ Whole(s) \in Nat
  <2>1. CASE Dots(t) = {}
    <3>1. Dots(s) = {}
      BY <1>5, <2>1
    <3>2. Whole(t) = Len(t) /\ Whole(s) = Len(s)
      BY <2>1, <3>1, DotIs
    <3> QED
      BY <1>1, <3>2
  <2>2. CASE Dots(t) # {}
    <3>1. Dots(s) # {}
      BY <1>4, <2>2
    <3>2. Dot(t) \in Dots(t) /\ Whole(t) = Dot(t) - 1 /\ \A i \in Dots(t) : Dot(t) <= i
      BY <2>2, DotIs
    <3>3. Dot(s) \in Dots(s) /\ Whole(s) = Dot(s) - 1 /\ \A i \in Dots(s) : Dot(s) <= i
      BY <3>1, DotIs
    <3>4. Dot(s) <= Dot(t) - k /\ Dot(t) <= Dot(s) + k
      BY <1>4, <1>5, <3>2, <3>3
    <3>5. Dot(t) \in Int /\ Dot(s) \in 1 .. Len(s)
      BY <1>1, <3>2, <3>3 DEF Dots
    <3> QED
      BY <3>2, <3>3, <3>4, <3>5
  <2> QED
    BY <2>1, <2>2
<1>8. ASSUME NEW w \in Nat PROVE Worth(t, w) = Worth(s, w)
  <2>1. Place(t, w) = Place(s, w) + k /\ Place(s, w) \in Int
    <3>1. PICK a \in Nat : a = Whole(s)
      BY <1>7
    <3>2. Whole(t) = a + k
      BY <1>7, <3>1
    <3>3. /\ Place(s, w) = IF w >= Scale THEN a + Scale - w ELSE a + Scale + 1 - w
          /\ Place(t, w) = IF w >= Scale THEN (a + k) + Scale - w ELSE (a + k) + Scale + 1 - w
      BY <3>1, <3>2 DEF Place
    <3> HIDE DEF Drops
    <3>4. CASE w >= Scale
      BY <1>1, <3>3, <3>4
    <3>5. CASE ~(w >= Scale)
      BY <1>1, <3>3, <3>5
    <3> QED
      BY <3>4, <3>5
  <2>2. CASE Place(s, w) \in 1 .. Len(s)
    <3>1. Place(t, w) \in 1 .. Len(t) /\ t[Place(t, w)] = s[Place(s, w)]
      BY <1>1, <1>3, <2>1, <2>2
    <3> QED
      BY <1>1, <2>2, <3>1 DEF Worth
  <2>3. CASE Place(s, w) > Len(s)
    <3>1. Place(t, w) \notin 1 .. Len(t) /\ Place(s, w) \notin 1 .. Len(s)
      BY <1>1, <2>1, <2>3
    <3> QED
      BY <1>1, <3>1 DEF Worth
  <2>4. CASE Place(s, w) < 1
    <3>1. Worth(s, w) = 0
      BY <1>1, <2>4 DEF Worth
    <3>2. CASE Place(t, w) \in 1 .. k
      <4>1. t[Place(t, w)] = "0" /\ Place(t, w) \in DOMAIN t
        BY <1>1, <1>2, <3>2
      <4>2. Worth(t, w) = 0 * Power[w]
        BY <4>1, DigitValue DEF Worth
      <4>3. Power[w] \in Nat /\ \A a \in Nat : 0 * a = 0
        BY PowerIs
      <4> QED
        BY <3>1, <4>2, <4>3
    <3>3. CASE Place(t, w) \notin 1 .. k
      <4>1. Place(t, w) \notin DOMAIN t
        BY <1>1, <2>1, <2>4, <3>3
      <4> QED
        BY <3>1, <4>1 DEF Worth
    <3> QED
      BY <3>2, <3>3
  <2> QED
    BY <1>1, <2>1, <2>2, <2>3, <2>4
<1> QED
  BY <1>6, <1>8 DEF Alike

\* What a text that is alike to a number says: the same number, or no number
\* where that was zero.
LEMMA AlikeKeeps ==
  ASSUME AmountsAssumption, NEW t \in Seq(NumberChars), NEW s \in Seq(NumberChars),
         IsNumber(t), Alike(t, s)
  PROVE  \/ IsNumber(s) /\ Value(s) = Value(t)
         \/ Value(t) = 0 /\ ~IsNumber(s)
<1>1. Value(s) = Value(t)
  BY SameValue DEF Alike
<1>2. OneDot(s)
  BY DEF IsNumber, Alike
<1>3. \A i \in DOMAIN s : IsDigit(s[i]) \/ s[i] = "."
  BY CharsAre
<1>4. CASE \E i \in DOMAIN s : IsDigit(s[i])
  BY <1>1, <1>2, <1>3, <1>4 DEF IsNumber
<1>5. CASE ~\E i \in DOMAIN s : IsDigit(s[i])
  <2>1. ~IsNumber(s)
    BY <1>5 DEF IsNumber
  <2>2. \A w \in Nat : Worth(s, w) = 0
    BY <1>5 DEF Worth
  <2>3. Value(s) = 0
    <3>1. Weights(s) \subseteq Nat /\ IsFiniteSet(Weights(s))
      <4>1. Scale \in Nat /\ Whole(s) \in Nat
        BY DotIs DEF AmountsAssumption
      <4>2. PICK n \in Int : n = Scale + Whole(s) - 1
        BY <4>1
      <4>3. Weights(s) = 0 .. n
        BY <4>2 DEF Weights
      <4>4. IsFiniteSet(0 .. n) /\ 0 .. n \subseteq Nat
        BY FS_Interval
      <4> QED
        BY <4>3, <4>4
    <3> DEFINE g == [w \in Weights(s) |-> Worth(s, w)]
    <3>2. \A w \in Weights(s) : g[w] = 0
      BY <2>2, <3>1
    <3> HIDE DEF g
    <3>3. SumFunctionOnSet(g, Weights(s)) = 0
      BY <3>1, <3>2, SumZero
    <3> QED
      BY <3>3 DEF g, Value
  <2> QED
    BY <1>1, <2>1, <2>3
<1> QED
  BY <1>4, <1>5

LEMMA AlikeTwice ==
  ASSUME NEW t, NEW s, NEW u, Alike(t, s), Alike(s, u)
  PROVE  Alike(t, u) /\ Alike(s, t)
BY DEF Alike

-----------------------------------------------------------------------------
(* What the code does to texts.                                            *)

\* The end of a text.
LEMMA SuffixIs ==
  ASSUME NEW S, NEW t \in Seq(S), NEW j \in 1 .. Len(t) + 1
  PROVE  /\ SubSeq(t, j, Len(t)) \in Seq(S)
         /\ Len(SubSeq(t, j, Len(t))) = Len(t) - j + 1
         /\ \A i \in 1 .. Len(t) - j + 1 : SubSeq(t, j, Len(t))[i] = t[i + (j - 1)]
<1>1. Len(t) \in Nat /\ \A i \in 1 .. Len(t) : t[i] \in S
  BY LenProperties, ElementOfSeq
<1>2. PICK n : n = Len(t)
  OBVIOUS
<1>3. n \in Int /\ j \in Int /\ 1 <= j /\ j <= n + 1
  BY <1>1, <1>2
<1>4. \A i \in j .. n : t[i] \in S
  BY <1>1, <1>2, <1>3
<1>5. PICK s : s = SubSeq(t, j, n)
  OBVIOUS
<1>6. /\ s \in Seq(S)
      /\ Len(s) = IF j <= n THEN n - j + 1 ELSE 0
      /\ \A i \in 1 .. n - j + 1 : s[i] = t[j + i - 1]
  BY <1>3, <1>4, <1>5, SubSeqProperties
<1>7. Len(s) = n - j + 1
  BY <1>3, <1>6
<1>8. \A i \in 1 .. n - j + 1 : j + i - 1 = i + (j - 1)
  BY <1>3
<1>9. \A i \in 1 .. n - j + 1 : s[i] = t[i + (j - 1)]
  BY <1>6, <1>8, Zenon
<1> QED
  BY <1>2, <1>5, <1>6, <1>7, <1>9, Zenon

\* Where the zeros in front end.
LEMMA PastZerosIs ==
  ASSUME NEW S, NEW t \in Seq(S)
  PROVE  /\ PastZeros(t) \in 1 .. Len(t) + 1
         /\ \A i \in 1 .. PastZeros(t) - 1 : t[i] = "0"
         /\ PastZeros(t) <= Len(t) => t[PastZeros(t)] # "0"
<1> DEFINE T == {k \in DOMAIN t : t[k] # "0"} \cup {Len(t) + 1}
<1>1. Len(t) \in Nat /\ DOMAIN t = 1 .. Len(t)
  OBVIOUS
<1>2. T \subseteq Nat /\ T # {} /\ Len(t) + 1 \in T
  BY <1>1
<1>3. \A k \in T : k <= Len(t) => t[k] # "0"
  BY <1>1
<1>4. \A k \in 1 .. Len(t) : k \notin T => t[k] = "0"
  BY <1>1
<1>5. T \subseteq 1 .. Len(t) + 1 /\ PastZeros(t) = Min(T)
  BY <1>1 DEF PastZeros
<1> HIDE DEF T
<1>6. Min(T) \in T /\ \A k \in T : Min(T) <= k
  BY <1>2, MinIs
<1>7. Min(T) \in 1 .. Len(t) + 1
  BY <1>5, <1>6
<1>8. \A i \in 1 .. Min(T) - 1 : i \in 1 .. Len(t) /\ i \notin T
  BY <1>1, <1>6, <1>7
<1> QED
  BY <1>3, <1>4, <1>5, <1>6, <1>7, <1>8

\* Zeros in front may go.
LEMMA SuffixAlike ==
  ASSUME AmountsAssumption, NEW t \in Seq(NumberChars), NEW j \in 1 .. Len(t) + 1,
         \A i \in 1 .. j - 1 : t[i] = "0"
  PROVE  /\ SubSeq(t, j, Len(t)) \in Seq(NumberChars)
         /\ Alike(t, SubSeq(t, j, Len(t)))
<1>1. PICK s : s = SubSeq(t, j, Len(t))
  OBVIOUS
<1>2. /\ s \in Seq(NumberChars) /\ Len(s) = Len(t) - j + 1
      /\ \A i \in 1 .. Len(t) - j + 1 : s[i] = t[i + (j - 1)]
  BY <1>1, SuffixIs
<1>3. Len(t) \in Nat /\ j - 1 \in Nat /\ Len(t) = Len(s) + (j - 1)
  BY <1>2
<1>4. Drops(t, s, j - 1)
  BY <1>2, <1>3 DEF Drops
<1>5. Alike(t, s)
  BY <1>2, <1>3, <1>4, DropsAlike
<1> QED
  BY <1>1, <1>2, <1>5

\* A zero may be put in front.
LEMMA ZeroAlike ==
  ASSUME AmountsAssumption, NEW t \in Seq(NumberChars)
  PROVE  /\ <<"0">> \o t \in Seq(NumberChars)
         /\ Alike(t, <<"0">> \o t)
<1>1. PICK s : s = <<"0">> \o t
  OBVIOUS
<1>2. PICK z : z = <<"0">>
  OBVIOUS
<1>3. z \in Seq(NumberChars) /\ Len(z) = 1 /\ z[1] = "0"
  BY <1>2, CharsAre
<1>4. /\ s \in Seq(NumberChars) /\ Len(s) = 1 + Len(t)
      /\ \A i \in 1 .. 1 + Len(t) : s[i] = IF i <= 1 THEN z[i] ELSE t[i - 1]
  <2>1. s = z \o t
    BY <1>1, <1>2
  <2>2. /\ z \o t \in Seq(NumberChars) /\ Len(z \o t) = Len(z) + Len(t)
        /\ \A i \in 1 .. Len(z) + Len(t) :
             (z \o t)[i] = IF i <= Len(z) THEN z[i] ELSE t[i - Len(z)]
    BY <1>3, ConcatProperties
  <2> QED
    BY <1>3, <2>1, <2>2
<1>5. Drops(s, t, 1)
  <2>1. Len(t) \in Nat
    OBVIOUS
  <2>2. \A i \in 1 .. 1 : s[i] = "0"
    BY <1>3, <1>4, <2>1
  <2>3. \A i \in 1 .. Len(t) : t[i] = s[i + 1]
    <3> TAKE i \in 1 .. Len(t)
    <3>1. i + 1 \in 1 .. 1 + Len(t) /\ ~(i + 1 <= 1) /\ (i + 1) - 1 = i
      BY <2>1
    <3> QED
      BY <1>4, <3>1
  <2> QED
    BY <1>4, <2>1, <2>2, <2>3 DEF Drops
<1>6. Alike(s, t)
  BY <1>4, <1>5, DropsAlike
<1>7. Alike(t, s)
  BY <1>6 DEF Alike
<1> QED
  BY <1>1, <1>4, <1>7

LEMMA DropZerosAlike ==
  ASSUME AmountsAssumption, NEW t \in Seq(NumberChars)
  PROVE  /\ DropZeros(t) \in Seq(NumberChars) /\ Alike(t, DropZeros(t))
         /\ ~StartsWith(t, ".") => ~StartsWith(DropZeros(t), ".")
<1>1. PICK j : j = PastZeros(t)
  OBVIOUS
<1>2. j \in 1 .. Len(t) + 1 /\ \A i \in 1 .. j - 1 : t[i] = "0"
  BY <1>1, PastZerosIs
<1>3. CASE j <= Len(t) /\ t[j] # "."
  <2>1. DropZeros(t) = SubSeq(t, j, Len(t))
    BY <1>1, <1>3 DEF DropZeros
  <2>2. SubSeq(t, j, Len(t)) \in Seq(NumberChars) /\ Alike(t, SubSeq(t, j, Len(t)))
    BY <1>2, SuffixAlike
  <2>3. SubSeq(t, j, Len(t))[1] = t[j]
    <3>1. 1 \in 1 .. Len(t) - j + 1 /\ 1 + (j - 1) = j
      BY <1>2, <1>3
    <3> QED
      BY <1>2, <3>1, SuffixIs
  <2> QED
    BY <1>3, <2>1, <2>2, <2>3 DEF StartsWith
<1>4. CASE ~(j <= Len(t) /\ t[j] # ".")
  <2>1. DropZeros(t) = t
    BY <1>1, <1>4 DEF DropZeros
  <2> QED
    BY <2>1 DEF Alike
<1> QED
  BY <1>3, <1>4

LEMMA UnzeroedAlike ==
  ASSUME AmountsAssumption, NEW t \in Seq(NumberChars)
  PROVE  Unzeroed(t) \in Seq(NumberChars) /\ Alike(t, Unzeroed(t))
<1>1. CASE Len(t) > 1 /\ t[1] = "0" /\ t[2] # "."
  <2>1. Unzeroed(t) = SubSeq(t, 2, Len(t))
    BY <1>1 DEF Unzeroed
  <2>2. 2 \in 1 .. Len(t) + 1 /\ \A i \in 1 .. 2 - 1 : t[i] = "0"
    BY <1>1
  <2> QED
    BY <2>1, <2>2, SuffixAlike
<1>2. CASE ~(Len(t) > 1 /\ t[1] = "0" /\ t[2] # ".")
  BY <1>2 DEF Unzeroed, Alike
<1> QED
  BY <1>1, <1>2

-----------------------------------------------------------------------------
(* Runs of a character.                                                    *)

\* The first run of c in t is from i to before j.
RunAt(t, c, i, j) ==
  /\ i \in 1 .. Len(t) /\ j \in i + 1 .. Len(t) + 1
  /\ \A k \in 1 .. i - 1 : t[k] # c
  /\ \A k \in i .. j - 1 : t[k] = c
  /\ j <= Len(t) => t[j] # c

RunReplaced(t, c, r) ==
  \E i, j \in Nat :
    /\ RunAt(t, c, i, j)
    /\ ReplaceRun(t, c, r) = SubSeq(t, 1, i - 1) \o r \o SubSeq(t, j, Len(t))

LEMMA RunIs ==
  ASSUME NEW S, NEW t \in Seq(S), NEW c, NEW r, NEW x \in 1 .. Len(t), t[x] = c
  PROVE  RunReplaced(t, c, r)
<1> DEFINE run == {i \in DOMAIN t : t[i] = c}
           i == Min(run)
           others == {k \in i .. Len(t) : t[k] # c} \cup {Len(t) + 1}
           j == Min(others)
<1>1. Len(t) \in Nat /\ DOMAIN t = 1 .. Len(t)
  OBVIOUS
<1>2. run \subseteq 1 .. Len(t) /\ run \subseteq Nat /\ run # {}
  BY <1>1
<1>3. i \in run /\ \A k \in run : i <= k
  <2> HIDE DEF run
  <2> QED
    BY <1>2, MinIs
<1>4. i \in 1 .. Len(t) /\ t[i] = c /\ \A k \in 1 .. i - 1 : t[k] # c
  <2>1. i \in 1 .. Len(t) /\ t[i] = c
    BY <1>3
  <2>2. ASSUME NEW k \in 1 .. i - 1, t[k] = c PROVE FALSE
    <3> HIDE DEF i
    <3>1. k \in run /\ k < i
      BY <1>1, <2>1, <2>2
    <3> HIDE DEF run
    <3> QED
      BY <1>1, <1>3, <2>1, <3>1
  <2> HIDE DEF i
  <2> QED
    BY <2>1, <2>2
<1> HIDE DEF i
<1>5. /\ others \subseteq i .. Len(t) + 1 /\ others \subseteq Nat /\ others # {}
      /\ \A k \in others : k <= Len(t) => t[k] # c
      /\ \A k \in i .. Len(t) : k \notin others => t[k] = c
      /\ i \notin others
  BY <1>1, <1>4
<1> HIDE DEF others
<1>6. j \in others /\ \A k \in others : j <= k
  BY <1>5, MinIs
<1> HIDE DEF j
<1>7. j \in i + 1 .. Len(t) + 1
  <2>1. j \in i .. Len(t) + 1 /\ j # i
    BY <1>5, <1>6
  <2> QED
    BY <1>1, <1>4, <2>1
<1>8. \A k \in i .. j - 1 : t[k] = c
  <2> TAKE k \in i .. j - 1
  <2>1. k \in i .. Len(t) /\ k < j
    BY <1>1, <1>4, <1>7
  <2>2. k \notin others
    BY <1>4, <1>6, <1>7, <2>1
  <2> QED
    BY <1>5, <2>1, <2>2
<1>9. j <= Len(t) => t[j] # c
  BY <1>5, <1>6
<1>10. RunAt(t, c, i, j)
  BY <1>4, <1>7, <1>8, <1>9 DEF RunAt
<1>11. ReplaceRun(t, c, r) = SubSeq(t, 1, i - 1) \o r \o SubSeq(t, j, Len(t))
  <2> USE DEF i, others, j
  <2> QED
    BY <1>2 DEF ReplaceRun
<1>12. i \in Nat /\ j \in Nat
  BY <1>1, <1>4, <1>7
<1> QED
  BY <1>10, <1>11, <1>12 DEF RunReplaced

\* What a run is replaced by decides what characters are there.
LEMMA ReplaceTyped ==
  ASSUME NEW S, NEW t \in Seq(S), NEW c, NEW r \in Seq(S)
  PROVE  ReplaceRun(t, c, r) \in Seq(S)
<1>1. CASE \E x \in 1 .. Len(t) : t[x] = c
  <2>1. PICK x \in 1 .. Len(t) : t[x] = c
    BY <1>1
  <2>2. PICK i, j \in Nat :
          /\ RunAt(t, c, i, j)
          /\ ReplaceRun(t, c, r) = SubSeq(t, 1, i - 1) \o r \o SubSeq(t, j, Len(t))
    <3>1. RunReplaced(t, c, r)
      BY <2>1, RunIs
    <3> QED
      BY <3>1 DEF RunReplaced
  <2>3. i \in 1 .. Len(t) /\ j \in 1 .. Len(t) + 1 /\ Len(t) \in Nat
    BY <2>2 DEF RunAt
  <2>4. SubSeq(t, j, Len(t)) \in Seq(S)
    BY <2>3, SuffixIs
  <2>5. SubSeq(t, 1, i - 1) \in Seq(S)
    <3>1. \A k \in 1 .. i - 1 : t[k] \in S
      BY <2>3
    <3> QED
      BY <2>3, <3>1, SubSeqProperties
  <2>6. SubSeq(t, 1, i - 1) \o r \in Seq(S)
    BY <2>5, ConcatProperties
  <2>7. SubSeq(t, 1, i - 1) \o r \o SubSeq(t, j, Len(t)) \in Seq(S)
    BY <2>4, <2>6, ConcatProperties
  <2> QED
    BY <2>2, <2>7
<1>2. CASE ~\E x \in 1 .. Len(t) : t[x] = c
  <2>1. {i \in DOMAIN t : t[i] = c} = {}
    BY <1>2
  <2> QED
    BY <2>1 DEF ReplaceRun
<1> QED
  BY <1>1, <1>2

\* Without the character nothing is replaced.
LEMMA ReplaceNone ==
  ASSUME NEW S, NEW t \in Seq(S), NEW c, NEW r, c \notin S
  PROVE  ReplaceRun(t, c, r) = t
<1>1. {i \in DOMAIN t : t[i] = c} = {}
  OBVIOUS
<1> QED
  BY <1>1 DEF ReplaceRun

\* A single dot stays where it is.
LEMMA ReplaceDot ==
  ASSUME NEW S, NEW t \in Seq(S), OneDot(t)
  PROVE  ReplaceRun(t, ".", <<".">>) = t
<1>1. CASE \E x \in 1 .. Len(t) : t[x] = "."
  <2>1. PICK x \in 1 .. Len(t) : t[x] = "."
    BY <1>1
  <2>2. PICK r : r = <<".">>
    OBVIOUS
  <2>3. PICK i, j \in Nat :
          /\ RunAt(t, ".", i, j)
          /\ ReplaceRun(t, ".", r) = SubSeq(t, 1, i - 1) \o r \o SubSeq(t, j, Len(t))
    <3>1. RunReplaced(t, ".", r)
      BY <2>1, RunIs
    <3> QED
      BY <3>1 DEF RunReplaced
  <2>4. i \in 1 .. Len(t) /\ t[i] = "." /\ j = i + 1
    <3>1. /\ i \in 1 .. Len(t) /\ j \in i + 1 .. Len(t) + 1
          /\ \A k \in i .. j - 1 : t[k] = "."
      BY <2>3 DEF RunAt
    <3>2. i \in i .. j - 1 /\ j - 1 \in i .. j - 1 /\ j - 1 \in 1 .. Len(t)
      BY <3>1
    <3>3. t[i] = "." /\ t[j - 1] = "."
      BY <3>1, <3>2
    <3>4. i \in Dots(t) /\ j - 1 \in Dots(t)
      BY <3>1, <3>2, <3>3 DEF Dots
    <3> QED
      BY <3>1, <3>3, <3>4 DEF OneDot
  <2>5. r = <<t[i]>>
    BY <2>2, <2>4
  <2>6. SubSeq(t, 1, i) = SubSeq(t, 1, i - 1) \o <<t[i]>>
    <3>1. 1 \in 1 .. Len(t) /\ i \in 1 .. Len(t)
      BY <2>4
    <3> QED
      BY <3>1, SubSeqRecursiveSecond
  <2>7. SubSeq(t, 1, i) \o SubSeq(t, i + 1, Len(t)) = SubSeq(t, 1, Len(t))
    <3>1. 1 \in 1 .. Len(t) + 1 /\ i \in 1 - 1 .. Len(t) /\ Len(t) \in i .. Len(t)
      BY <2>4
    <3> QED
      BY <3>1, ConcatAdjacentSubSeq
  <2>8. SubSeq(t, 1, Len(t)) = t
    BY SubSeqFull
  <2> QED
    BY <2>2, <2>3, <2>4, <2>5, <2>6, <2>7, <2>8
<1>2. CASE ~\E x \in 1 .. Len(t) : t[x] = "."
  <2>1. {i \in DOMAIN t : t[i] = "."} = {}
    BY <1>2
  <2> QED
    BY <2>1 DEF ReplaceRun
<1> QED
  BY <1>1, <1>2

\* Of the zeros in front one is left.
LEMMA ReplaceZeros ==
  ASSUME AmountsAssumption, NEW t \in Seq(NumberChars), StartsWith(t, "0")
  PROVE  /\ ReplaceRun(t, "0", <<"0">>) \in Seq(NumberChars)
         /\ Alike(t, ReplaceRun(t, "0", <<"0">>))
<1>1. PICK r : r = <<"0">>
  OBVIOUS
<1>2. 1 \in 1 .. Len(t) /\ t[1] = "0"
  <2>1. Len(t) \in Nat /\ Len(t) # 0
    BY EmptySeq DEF StartsWith
  <2> QED
    BY <2>1 DEF StartsWith
<1>3. PICK i, j \in Nat :
        /\ RunAt(t, "0", i, j)
        /\ ReplaceRun(t, "0", r) = SubSeq(t, 1, i - 1) \o r \o SubSeq(t, j, Len(t))
  <2>1. RunReplaced(t, "0", r)
    BY <1>2, RunIs
  <2> QED
    BY <2>1 DEF RunReplaced
<1>4. i = 1 /\ j \in 1 .. Len(t) + 1 /\ \A k \in 1 .. j - 1 : t[k] = "0"
  <2>1. /\ i \in 1 .. Len(t) /\ j \in i + 1 .. Len(t) + 1
        /\ \A k \in 1 .. i - 1 : t[k] # "0"
        /\ \A k \in i .. j - 1 : t[k] = "0"
    BY <1>3 DEF RunAt
  <2>2. i = 1
    <3>1. ASSUME i # 1 PROVE FALSE
      <4>1. 1 \in 1 .. i - 1
        BY <2>1, <3>1
      <4> QED
        BY <1>2, <2>1, <4>1
    <3> QED
      BY <3>1
  <2> QED
    BY <2>1, <2>2
<1>5. PICK s : s = SubSeq(t, j, Len(t))
  OBVIOUS
<1>6. s \in Seq(NumberChars) /\ Alike(t, s)
  BY <1>4, <1>5, SuffixAlike
<1>7. <<"0">> \o s \in Seq(NumberChars) /\ Alike(s, <<"0">> \o s)
  BY <1>6, ZeroAlike
<1>8. ReplaceRun(t, "0", r) = r \o s
  <2>1. SubSeq(t, 1, i - 1) = <<>>
    BY <1>4, SubSeqEmpty
  <2>2. r \in Seq(NumberChars)
    BY <1>1, CharsAre
  <2>3. <<>> \o r = r
    BY <2>2, ConcatEmptySeq
  <2> QED
    BY <1>3, <1>5, <2>1, <2>3
<1>9. Alike(t, <<"0">> \o s)
  BY <1>6, <1>7 DEF Alike
<1> QED
  BY <1>1, <1>7, <1>8, <1>9

\* The sign in front of a number goes.
LEMMA ReplaceSign ==
  ASSUME NEW S, NEW u \in Seq(S), "-" \notin S
  PROVE  ReplaceRun(<<"-">> \o u, "-", <<>>) = u
<1>1. PICK m : m = <<"-">>
  OBVIOUS
<1>2. PICK T : T = S \cup {"-"}
  OBVIOUS
<1>3. m \in Seq(T) /\ Len(m) = 1 /\ m[1] = "-"
  BY <1>1, <1>2
<1>4. u \in Seq(T)
  BY <1>2, SeqMonotonic
<1>5. PICK t : t = m \o u
  OBVIOUS
<1>6. /\ t \in Seq(T) /\ Len(t) = Len(m) + Len(u)
      /\ \A k \in 1 .. Len(m) + Len(u) :
           t[k] = IF k <= Len(m) THEN m[k] ELSE u[k - Len(m)]
  BY <1>3, <1>4, <1>5, ConcatProperties
<1>7. /\ Len(u) \in Nat /\ Len(t) = Len(u) + 1 /\ t[1] = "-"
      /\ \A k \in 1 .. Len(u) : t[k + 1] = u[k] /\ u[k] \in S /\ u[k] # "-"
  <2>1. Len(u) \in Nat /\ Len(t) = Len(u) + 1 /\ t[1] = "-"
    BY <1>3, <1>6
  <2>2. ASSUME NEW k \in 1 .. Len(u) PROVE t[k + 1] = u[k] /\ u[k] \in S
    <3>1. k + 1 \in 1 .. Len(m) + Len(u) /\ ~(k + 1 <= Len(m)) /\ (k + 1) - Len(m) = k
      BY <1>3, <2>1
    <3> QED
      BY <1>6, <3>1
  <2> QED
    BY <2>1, <2>2
<1>8. PICK i, j \in Nat :
        /\ RunAt(t, "-", i, j)
        /\ ReplaceRun(t, "-", <<>>) = SubSeq(t, 1, i - 1) \o <<>> \o SubSeq(t, j, Len(t))
  <2>1. 1 \in 1 .. Len(t)
    BY <1>7
  <2>2. RunReplaced(t, "-", <<>>)
    BY <1>6, <1>7, <2>1, RunIs
  <2> QED
    BY <2>2 DEF RunReplaced
<1>9. i = 1 /\ j = 2
  <2>1. /\ i \in 1 .. Len(t) /\ j \in i + 1 .. Len(t) + 1
        /\ \A k \in 1 .. i - 1 : t[k] # "-"
        /\ \A k \in i .. j - 1 : t[k] = "-"
    BY <1>8 DEF RunAt
  <2>2. i = 1
    <3>1. ASSUME i # 1 PROVE FALSE
      <4>1. 1 \in 1 .. i - 1
        BY <2>1, <3>1
      <4> QED
        BY <1>7, <2>1, <4>1
    <3> QED
      BY <3>1
  <2>3. ASSUME j # 2 PROVE FALSE
    <3>1. 2 \in i .. j - 1 /\ 1 \in 1 .. Len(u)
      BY <1>7, <2>1, <2>2, <2>3
    <3>2. t[1 + 1] = u[1] /\ u[1] # "-" /\ 1 + 1 = 2
      BY <1>7, <3>1
    <3> QED
      BY <2>1, <3>1, <3>2
  <2> QED
    BY <2>2, <2>3
<1>10. SubSeq(t, 2, Len(t)) = u
  <2>1. PICK s : s = SubSeq(t, 2, Len(t))
    OBVIOUS
  <2>2. 2 \in 1 .. Len(t) + 1
    BY <1>7
  <2>3. /\ s \in Seq(T) /\ Len(s) = Len(t) - 2 + 1
        /\ \A k \in 1 .. Len(t) - 2 + 1 : s[k] = t[k + (2 - 1)]
    BY <1>6, <2>1, <2>2, SuffixIs
  <2>4. Len(s) = Len(u) /\ \A k \in 1 .. Len(u) : s[k] = u[k]
    BY <1>7, <2>3
  <2>5. s = u
    BY <1>4, <2>3, <2>4, SeqEqual
  <2> QED
    BY <2>1, <2>5
<1>11. SubSeq(t, 1, i - 1) \o <<>> \o SubSeq(t, j, Len(t)) = u
  <2>1. SubSeq(t, 1, i - 1) = <<>>
    BY <1>9, SubSeqEmpty
  <2>2. <<>> \o <<>> = <<>> /\ <<>> \o u = u
    BY EmptySeq, ConcatEmptySeq
  <2> QED
    BY <1>9, <1>10, <2>1, <2>2
<1> QED
  BY <1>1, <1>5, <1>8, <1>11

-----------------------------------------------------------------------------
(* The cleaning of what was typed.                                         *)

\* A number is written in digits and dots.
LEMMA NumberTyped ==
  ASSUME NEW S, NEW t \in Seq(S), IsNumber(t)
  PROVE  t \in Seq(NumberChars) /\ t # <<>> /\ OneDot(t) /\ t # <<".">>
<1>1. \A i \in 1 .. Len(t) : t[i] \in NumberChars
  BY CharsAre DEF IsNumber
<1>2. t \in Seq(NumberChars)
  BY <1>1
<1>3. PICK i \in DOMAIN t : IsDigit(t[i])
  BY DEF IsNumber
<1>4. t # <<>>
  BY <1>3
<1>5. t # <<".">>
  <2>1. SUFFICES ASSUME t = <<".">> PROVE FALSE
    OBVIOUS
  <2>2. t[i] = "."
    BY <1>3, <2>1
  <2> QED
    BY <1>3, <2>2, DigitValue
<1> QED
  BY <1>2, <1>4, <1>5 DEF IsNumber

\* The characters of texts, of numbers and of what is left of them.
LEMMA TextsAre ==
  ASSUME AmountsAssumption
  PROVE  /\ NumberChars \subseteq Characters \ {Comma}
         /\ "-" \in Characters \ {Comma}
         /\ <<"0">> \in Seq(NumberChars) /\ <<".">> \in Seq(NumberChars)
         /\ <<>> \in Seq(NumberChars) /\ <<"0", ".">> \in Seq(NumberChars)
         /\ \A t \in Seq(NumberChars) : t \in Seq(Characters)
<1>1. NumberChars \subseteq Characters \ {Comma}
  BY CharsAre DEF AmountsAssumption
<1>2. "-" \in Characters \ {Comma}
  BY DigitsAre DEF AmountsAssumption
<1>3. /\ <<"0">> \in Seq(NumberChars) /\ <<".">> \in Seq(NumberChars)
      /\ <<>> \in Seq(NumberChars) /\ <<"0", ".">> \in Seq(NumberChars)
  BY CharsAre
<1>4. \A t \in Seq(NumberChars) : t \in Seq(Characters)
  BY <1>1, SeqMonotonic
<1> QED
  BY <1>1, <1>2, <1>3, <1>4

\* One character is dropped.
LEMMA WithoutTyped ==
  ASSUME NEW S, NEW t \in Seq(S), NEW c
  PROVE  Without(t, c) \in Seq(S)
<1>1. Without(t, c) \in Seq(S \cap (Characters \ {c}))
  BY OnlyKept DEF Without
<1> QED
  BY <1>1, SeqMonotonic

\* The field takes digits and dots only.
LEMMA CleanTyped ==
  ASSUME AmountsAssumption, NEW t \in Seq(Characters)
  PROVE  cleanPositiveFloatInput(t) \in Seq(NumberChars)
<1>1. PICK a : a = ReplaceRun(Without(t, Comma), "-", <<>>)
  OBVIOUS
<1>2. PICK b : b = IF StartsWith(a, "0") THEN ReplaceRun(a, "0", <<"0">>) ELSE a
  OBVIOUS
<1>3. PICK c : c = ReplaceRun(b, ".", <<".">>)
  OBVIOUS
<1>4. PICK d : d = IF StartsWith(c, ".") THEN <<"0">> \o c ELSE c
  OBVIOUS
<1>5. PICK e : e = DropZeros(Only(d, NumberChars))
  OBVIOUS
<1>6. cleanPositiveFloatInput(t) = IF StartsWith(e, ".") THEN Tail(e) ELSE e
  BY <1>1, <1>2, <1>3, <1>4, <1>5 DEF cleanPositiveFloatInput
<1>7. <<"0">> \in Seq(Characters) /\ <<".">> \in Seq(Characters) /\ <<>> \in Seq(Characters)
  BY TextsAre
<1>8. a \in Seq(Characters)
  <2>1. Without(t, Comma) \in Seq(Characters)
    BY WithoutTyped
  <2> QED
    BY <1>1, <1>7, <2>1, ReplaceTyped
<1>9. b \in Seq(Characters)
  BY <1>2, <1>7, <1>8, ReplaceTyped
<1>10. c \in Seq(Characters)
  BY <1>3, <1>7, <1>9, ReplaceTyped
<1>11. d \in Seq(Characters)
  <2>1. <<"0">> \o c \in Seq(Characters)
    BY <1>7, <1>10, ConcatProperties
  <2> QED
    BY <1>4, <1>10, <2>1
<1>12. Only(d, NumberChars) \in Seq(NumberChars)
  <2>1. Only(d, NumberChars) \in Seq(Characters \cap NumberChars)
    BY <1>11, OnlyKept
  <2> QED
    BY <2>1, SeqMonotonic
<1>13. e \in Seq(NumberChars)
  BY <1>5, <1>12, DropZerosAlike
<1>14. StartsWith(e, ".") => Tail(e) \in Seq(NumberChars)
  BY <1>13, HeadTailProperties DEF StartsWith
<1> QED
  BY <1>6, <1>13, <1>14

\* What is left when a sign in front is dropped.
Plain(t) == IF StartsWith(t, "-") THEN Tail(t) ELSE t

\* A number, but for its sign and its separators, keeps its value.
LEMMA CleanAlike ==
  ASSUME AmountsAssumption, NEW t \in Seq(Characters),
         IsNumber(Without(Plain(t), Comma))
  PROVE  Alike(Without(Plain(t), Comma), cleanPositiveFloatInput(t))
<1> DEFINE kept == Characters \ {Comma}
<1>1. PICK a : a = ReplaceRun(Without(t, Comma), "-", <<>>)
  OBVIOUS
<1>2. PICK b : b = IF StartsWith(a, "0") THEN ReplaceRun(a, "0", <<"0">>) ELSE a
  OBVIOUS
<1>3. PICK c : c = ReplaceRun(b, ".", <<".">>)
  OBVIOUS
<1>4. PICK d : d = IF StartsWith(c, ".") THEN <<"0">> \o c ELSE c
  OBVIOUS
<1>5. PICK e : e = DropZeros(Only(d, NumberChars))
  OBVIOUS
<1>6. cleanPositiveFloatInput(t) = IF StartsWith(e, ".") THEN Tail(e) ELSE e
  BY <1>1, <1>2, <1>3, <1>4, <1>5 DEF cleanPositiveFloatInput
<1>7. PICK number : number = Without(Plain(t), Comma)
  OBVIOUS
<1>8. Plain(t) \in Seq(Characters)
  <2>1. StartsWith(t, "-") => Tail(t) \in Seq(Characters)
    BY HeadTailProperties DEF StartsWith
  <2> QED
    BY <2>1 DEF Plain
<1>9. number \in Seq(NumberChars) /\ OneDot(number)
  <2>1. number \in Seq(Characters)
    BY <1>7, <1>8, WithoutTyped
  <2> QED
    BY <1>7, <2>1, NumberTyped
<1>10. a = number
  <2>1. CASE StartsWith(t, "-")
    <3>1. PICK u : u = Tail(t)
      OBVIOUS
    <3>2. u \in Seq(Characters) /\ t[1] = "-" /\ IsTail(u, t)
      BY <2>1, <3>1, HeadTailProperties DEF StartsWith, IsTail
    <3>3. Only(t, kept) = <<t[1]>> \o Only(u, kept)
      <4>1. t[1] \in kept
        BY <3>2, TextsAre
      <4> HIDE DEF kept
      <4> QED
        BY <3>2, <4>1, OnlyFirst
    <3>4. Only(u, kept) = number
      BY <1>7, <2>1, <3>1 DEF Plain, Without
    <3>5. Without(t, Comma) = <<"-">> \o number
      BY <3>2, <3>3, <3>4 DEF Without
    <3>6. ReplaceRun(<<"-">> \o number, "-", <<>>) = number
      BY <1>9, CharsAre, ReplaceSign
    <3> QED
      BY <1>1, <3>5, <3>6
  <2>2. CASE ~StartsWith(t, "-")
    <3>1. Without(t, Comma) = number
      BY <1>7, <2>2 DEF Plain
    <3>2. ReplaceRun(number, "-", <<>>) = number
      BY <1>9, CharsAre, ReplaceNone
    <3> QED
      BY <1>1, <3>1, <3>2
  <2> QED
    BY <2>1, <2>2
<1>11. b \in Seq(NumberChars) /\ Alike(number, b)
  <2>1. CASE StartsWith(a, "0")
    BY <1>2, <1>9, <1>10, <2>1, ReplaceZeros
  <2>2. CASE ~StartsWith(a, "0")
    BY <1>2, <1>9, <1>10, <2>2 DEF Alike
  <2> QED
    BY <2>1, <2>2
<1>12. c = b
  <2>1. OneDot(b)
    BY <1>9, <1>11 DEF Alike
  <2> QED
    BY <1>3, <1>11, <2>1, ReplaceDot
<1>13. d \in Seq(NumberChars) /\ Alike(c, d) /\ ~StartsWith(d, ".")
  <2>1. CASE StartsWith(c, ".")
    <3>1. <<"0">> \o c \in Seq(NumberChars) /\ Alike(c, <<"0">> \o c)
      BY <1>11, <1>12, ZeroAlike
    <3>2. PICK z : z = <<"0">>
      OBVIOUS
    <3>3. z \in Seq(NumberChars) /\ Len(z) = 1 /\ z[1] = "0"
      BY <3>2, CharsAre
    <3>4. (z \o c)[1] = "0"
      <4>1. 1 \in 1 .. Len(z) + Len(c) /\ 1 <= Len(z)
        BY <1>11, <1>12, <3>3
      <4> QED
        BY <1>11, <1>12, <3>3, <4>1, ConcatProperties
    <3> QED
      BY <1>4, <2>1, <3>1, <3>2, <3>4 DEF StartsWith
  <2>2. CASE ~StartsWith(c, ".")
    BY <1>4, <1>11, <1>12, <2>2 DEF Alike
  <2> QED
    BY <2>1, <2>2
<1>14. Only(d, NumberChars) = d
  BY <1>13, OnlyAll
<1>15. Alike(d, e) /\ ~StartsWith(e, ".")
  BY <1>5, <1>13, <1>14, DropZerosAlike
<1>16. Alike(number, e)
  BY <1>11, <1>12, <1>13, <1>15 DEF Alike
<1> QED
  BY <1>6, <1>7, <1>15, <1>16

-----------------------------------------------------------------------------
(* The fields' own changes.                                                *)

LEMMA AmountChangeIs ==
  ASSUME AmountsAssumption, NEW old \in Seq(NumberChars), NEW new \in Seq(NumberChars)
  PROVE  /\ AmountChange(old, new) \in Seq(NumberChars)
         /\ IsNumber(new) => Alike(new, AmountChange(old, new)) \/ ~Fits(new)
<1>1. CASE new = <<>>
  <2>1. ~IsNumber(new)
    BY <1>1, NumberTyped
  <2>2. AmountChange(old, new) = <<"0">>
    BY <1>1 DEF AmountChange
  <2> QED
    BY <2>1, <2>2, TextsAre
<1>2. CASE new # <<>> /\ ~Fits(new)
  <2>1. AmountChange(old, new) = old
    BY <1>2 DEF AmountChange
  <2> QED
    BY <1>2, <2>1
<1>3. CASE new # <<>> /\ Fits(new)
  <2>1. AmountChange(old, new) = Unzeroed(new)
    BY <1>3 DEF AmountChange
  <2> QED
    BY <2>1, UnzeroedAlike
<1> QED
  BY <1>1, <1>2, <1>3

\* Texts that agree from m to n.
Agree(S, s, t, m, n) ==
  /\ m \in Nat /\ n \in Nat
  /\ \A i \in m .. n : s[i] = t[i] /\ s[i] \in S /\ t[i] \in S

SamePart(s, t, m, n) == SubSeq(s, m, n) = SubSeq(t, m, n)

LEMMA SubSeqSame ==
  ASSUME NEW S, NEW s, NEW t, NEW m, NEW n, Agree(S, s, t, m, n)
  PROVE  SamePart(s, t, m, n)
<1> USE DEF Agree, SamePart
<1> DEFINE a == SubSeq(s, m, n)
           b == SubSeq(t, m, n)
<1>1. /\ a \in Seq(S) /\ Len(a) = IF m <= n THEN n - m + 1 ELSE 0
      /\ \A i \in 1 .. n - m + 1 : a[i] = s[m + i - 1]
  BY SubSeqProperties
<1>2. /\ b \in Seq(S) /\ Len(b) = IF m <= n THEN n - m + 1 ELSE 0
      /\ \A i \in 1 .. n - m + 1 : b[i] = t[m + i - 1]
  BY SubSeqProperties
<1> HIDE DEF a, b
<1>3. \A i \in 1 .. Len(a) : i \in 1 .. n - m + 1 /\ m + i - 1 \in m .. n
  BY <1>1
<1>4. Len(a) = Len(b) /\ \A i \in 1 .. Len(a) : a[i] = b[i]
  BY <1>1, <1>2, <1>3
<1>5. a = b
  BY <1>1, <1>2, <1>4, SeqEqual
<1> QED
  BY <1>5 DEF a, b

\* Of two zeros one is left.
LEMMA SecondZero == SubSeq(<<"0", "0">>, 2, Len(<<"0", "0">>)) = <<"0">>
<1>1. PICK t : t = <<"0", "0">>
  OBVIOUS
<1>2. PICK z : z = <<"0">>
  OBVIOUS
<1>3. t \in Seq({"0"}) /\ Len(t) = 2 /\ t[2] = "0"
  BY <1>1
<1>4. z \in Seq({"0"}) /\ Len(z) = 1 /\ z[1] = "0"
  BY <1>2
<1>5. PICK s : s = SubSeq(t, 2, Len(t))
  OBVIOUS
<1>6. /\ s \in Seq({"0"}) /\ Len(s) = Len(t) - 2 + 1
      /\ \A i \in 1 .. Len(t) - 2 + 1 : s[i] = t[i + (2 - 1)]
  <2>1. 2 \in 1 .. Len(t) + 1
    BY <1>3
  <2> QED
    BY <1>3, <1>5, <2>1, SuffixIs
<1>7. Len(s) = Len(z) /\ \A i \in 1 .. Len(s) : s[i] = z[i]
  BY <1>3, <1>4, <1>6
<1>8. s = z
  BY <1>4, <1>6, <1>7, SeqEqual
<1> QED
  BY <1>1, <1>2, <1>5, <1>8

\* What is before the first dot, from j on, the dot, and what is after it.
IsWhole(whole, t) == whole = SubSeq(t, 1, Whole(t))
IsCut(S, t, whole, j) ==
  /\ whole \in Seq(S) /\ Len(whole) = Whole(t)
  /\ \A i \in 1 .. Whole(t) : whole[i] = t[i]
  /\ SubSeq(whole, j, Len(whole)) \o <<".">> \o SubSeq(t, Dot(t) + 1, Len(t))
       = SubSeq(t, j, Len(t))

LEMMA CutAtDot ==
  ASSUME NEW S, NEW t \in Seq(S), Dots(t) # {}, NEW j \in 1 .. Whole(t) + 1,
         NEW whole, IsWhole(whole, t)
  PROVE  IsCut(S, t, whole, j)
<1>1. PICK W : W = Whole(t)
  OBVIOUS
<1>2. Len(t) \in Nat /\ W \in Nat /\ W + 1 = Dot(t) /\ Dot(t) \in 1 .. Len(t) /\ t[W + 1] = "."
  BY <1>1, DotIs
<1>3. whole \in Seq(S) /\ Len(whole) = W /\ \A i \in 1 .. W : whole[i] = t[i]
  <2>1. \A i \in 1 .. W : t[i] \in S
    BY <1>2
  <2>2. /\ SubSeq(t, 1, W) \in Seq(S)
        /\ Len(SubSeq(t, 1, W)) = IF 1 <= W THEN W - 1 + 1 ELSE 0
        /\ \A i \in 1 .. W - 1 + 1 : SubSeq(t, 1, W)[i] = t[1 + i - 1]
    BY <1>2, <2>1, SubSeqProperties
  <2>3. W - 1 + 1 = W /\ \A i \in 1 .. W : 1 + i - 1 = i
    BY <1>2
  <2>4. Len(SubSeq(t, 1, W)) = W
    BY <1>2, <2>2
  <2>5. whole = SubSeq(t, 1, W)
    BY <1>1 DEF IsWhole
  <2> QED
    BY <2>2, <2>3, <2>4, <2>5
<1>4. SubSeq(whole, j, W) = SubSeq(t, j, W)
  <2>1. j \in 1 .. W + 1
    BY <1>1
  <2>2. \A i \in j .. W : whole[i] \in S /\ t[i] \in S /\ whole[i] = t[i]
    BY <1>2, <1>3, <2>1
  <2>3. Agree(S, whole, t, j, W)
    BY <1>2, <2>1, <2>2 DEF Agree
  <2>4. SamePart(whole, t, j, W)
    BY <2>3, SubSeqSame
  <2> QED
    BY <2>4 DEF SamePart
<1>5. SubSeq(t, j, W + 1) = SubSeq(t, j, W) \o <<t[W + 1]>>
  <2>1. j \in 1 .. Len(t) /\ W + 1 \in j .. Len(t) /\ (W + 1) - 1 = W
    BY <1>1, <1>2
  <2> QED
    BY <2>1, SubSeqRecursiveSecond
<1>6. SubSeq(t, j, W + 1) \o SubSeq(t, (W + 1) + 1, Len(t)) = SubSeq(t, j, Len(t))
  <2>1. j \in 1 .. Len(t) + 1 /\ W + 1 \in j - 1 .. Len(t) /\ Len(t) \in W + 1 .. Len(t)
    BY <1>1, <1>2
  <2> QED
    BY <2>1, ConcatAdjacentSubSeq
<1> QED
  BY <1>1, <1>2, <1>3, <1>4, <1>5, <1>6 DEF IsCut

LEMMA DepositChangeIs ==
  ASSUME AmountsAssumption, NEW new \in Seq(NumberChars)
  PROVE  /\ DepositChange(new) \in Seq(NumberChars)
         /\ IsNumber(new) => Alike(new, DepositChange(new))
<1>1. PICK whole : IsWhole(whole, new)
  BY DEF IsWhole
<1>2. PICK fraction : fraction = SubSeq(new, Dot(new) + 1, Len(new))
  OBVIOUS
<1>3. PICK dot : dot = <<".">>
  OBVIOUS
<1>4. PICK zero : zero = <<"0">>
  OBVIOUS
<1>5. dot \in Seq(NumberChars) /\ zero \in Seq(NumberChars) /\ <<"0", ".">> = zero \o dot
  BY <1>3, <1>4, TextsAre
<1>6. /\ Len(new) \in Nat /\ Whole(new) \in 0 .. Len(new)
      /\ Dots(new) # {} => Dot(new) \in 1 .. Len(new)
  BY DotIs
<1>7. CASE new = <<>>
  <2>0. Dots(new) = {} /\ OneDot(new) /\ new # <<".">>
    BY <1>7 DEF Dots, OneDot
  <2>1. DepositChange(new) = zero
    BY <1>4, <1>7, <2>0 DEF DepositChange
  <2>2. ~IsNumber(new)
    BY <1>7, NumberTyped
  <2> QED
    BY <1>5, <2>1, <2>2
<1>8. CASE new # <<>> /\ new = <<".">>
  <2>0. OneDot(new) /\ Dots(new) # {}
    <3>1. Dots(new) = {1}
      BY <1>8 DEF Dots
    <3> QED
      BY <3>1 DEF OneDot
  <2>1. DepositChange(new) = <<"0", ".">>
    BY <1>8, <2>0 DEF DepositChange
  <2>2. ~IsNumber(new)
    BY <1>8, NumberTyped
  <2> QED
    BY <2>1, <2>2, TextsAre
<1>9. CASE new # <<>> /\ new # <<".">> /\ ~OneDot(new)
  <2>1. DepositChange(new) = whole \o dot \o Without(fraction, ".")
    BY <1>1, <1>2, <1>3, <1>9 DEF DepositChange, IsWhole
  <2>2. ~IsNumber(new)
    BY <1>9, NumberTyped
  <2>3. Dots(new) # {}
    BY <1>9 DEF OneDot
  <2>4. whole \in Seq(NumberChars)
    <3>1. 1 \in 1 .. Whole(new) + 1
      BY <1>6
    <3>2. IsCut(NumberChars, new, whole, 1)
      BY <1>1, <2>3, <3>1, CutAtDot
    <3> QED
      BY <3>2 DEF IsCut
  <2>5. Without(fraction, ".") \in Seq(NumberChars)
    <3>1. fraction \in Seq(NumberChars)
      <4>1. Dot(new) + 1 \in 1 .. Len(new) + 1
        BY <1>6, <2>3
      <4> QED
        BY <1>2, <4>1, SuffixIs
    <3> QED
      BY <3>1, WithoutTyped
  <2>6. whole \o dot \in Seq(NumberChars)
    BY <1>5, <2>4, ConcatProperties
  <2>7. whole \o dot \o Without(fraction, ".") \in Seq(NumberChars)
    BY <2>5, <2>6, ConcatProperties
  <2> QED
    BY <2>1, <2>2, <2>7
<1>10. CASE new # <<>> /\ new # <<".">> /\ OneDot(new) /\ Dots(new) # {}
  <2>1. DepositChange(new) =
          IF whole \in {<<>>, <<"0", "0">>} THEN (zero \o dot) \o fraction
          ELSE IF StartsWith(whole, "0") /\ Len(whole) > 1
                 THEN SubSeq(whole, PastZeros(whole), Len(whole)) \o dot \o fraction
                 ELSE new
    BY <1>1, <1>2, <1>3, <1>5, <1>10 DEF DepositChange, IsWhole
  <2>2. /\ whole \in Seq(NumberChars) /\ Len(whole) = Whole(new)
        /\ \A i \in 1 .. Whole(new) : whole[i] = new[i]
    <3>1. 1 \in 1 .. Whole(new) + 1
      BY <1>6
    <3>2. IsCut(NumberChars, new, whole, 1)
      BY <1>1, <1>10, <3>1, CutAtDot
    <3> QED
      BY <3>2 DEF IsCut
  <2>3. ASSUME NEW j \in 1 .. Whole(new) + 1
        PROVE  SubSeq(whole, j, Len(whole)) \o dot \o fraction = SubSeq(new, j, Len(new))
    <3>1. IsCut(NumberChars, new, whole, j)
      BY <1>1, <1>10, <2>3, CutAtDot
    <3> QED
      BY <1>2, <1>3, <3>1 DEF IsCut
  <2>4. CASE whole = <<>>
    <3>1. Whole(new) = 0 /\ 1 \in 1 .. Whole(new) + 1
      BY <2>2, <2>4
    <3>2. SubSeq(whole, 1, Len(whole)) = <<>>
      BY <2>2, <3>1, SubSeqEmpty
    <3>3. <<>> \o dot \o fraction = new
      <4>1. SubSeq(new, 1, Len(new)) = new
        BY SubSeqFull
      <4> QED
        BY <2>3, <3>1, <3>2, <4>1
    <3>4. <<>> \o dot = dot
      BY <1>5, ConcatEmptySeq
    <3>5. fraction \in Seq(NumberChars)
      <4>1. Dot(new) + 1 \in 1 .. Len(new) + 1
        BY <1>6, <1>10
      <4> QED
        BY <1>2, <4>1, SuffixIs
    <3>6. (zero \o dot) \o fraction = zero \o (dot \o fraction)
      BY <1>5, <3>5, ConcatAssociative
    <3>7. DepositChange(new) = <<"0">> \o new
      BY <1>4, <2>1, <2>4, <3>3, <3>4, <3>6
    <3> QED
      BY <3>7, ZeroAlike
  <2>5. CASE whole = <<"0", "0">>
    <3>1. Whole(new) = 2 /\ 2 \in 1 .. Whole(new) + 1 /\ new[1] = "0"
      BY <2>2, <2>5
    <3>2. SubSeq(whole, 2, Len(whole)) = zero
      BY <1>4, <2>5, SecondZero
    <3>3. DepositChange(new) = SubSeq(new, 2, Len(new))
      BY <2>1, <2>3, <2>5, <3>1, <3>2
    <3>4. 2 \in 1 .. Len(new) + 1 /\ \A i \in 1 .. 2 - 1 : new[i] = "0"
      BY <1>6, <3>1
    <3> QED
      BY <3>3, <3>4, SuffixAlike
  <2>6. CASE /\ whole \notin {<<>>, <<"0", "0">>}
             /\ StartsWith(whole, "0") /\ Len(whole) > 1
    <3>1. PICK j : j = PastZeros(whole)
      OBVIOUS
    <3>2. j \in 1 .. Whole(new) + 1 /\ \A i \in 1 .. j - 1 : whole[i] = "0"
      BY <2>2, <3>1, PastZerosIs
    <3>3. DepositChange(new) = SubSeq(new, j, Len(new))
      BY <2>1, <2>3, <2>6, <3>1, <3>2
    <3>4. j \in 1 .. Len(new) + 1 /\ \A i \in 1 .. j - 1 : new[i] = "0"
      BY <1>6, <2>2, <3>2
    <3> QED
      BY <3>3, <3>4, SuffixAlike
  <2>7. CASE /\ whole \notin {<<>>, <<"0", "0">>}
             /\ ~(StartsWith(whole, "0") /\ Len(whole) > 1)
    <3>1. DepositChange(new) = new
      BY <2>1, <2>7
    <3> QED
      BY <3>1 DEF Alike
  <2> QED
    BY <2>4, <2>5, <2>6, <2>7
<1>11. CASE new # <<>> /\ new # <<".">> /\ OneDot(new) /\ Dots(new) = {}
  <2>1. DepositChange(new) =
          IF new \in {<<"0">>, <<"0", "0">>} THEN <<"0">>
          ELSE SubSeq(new, PastZeros(new), Len(new))
    BY <1>11 DEF DepositChange
  <2>2. CASE new = <<"0">>
    BY <2>1, <2>2, TextsAre DEF Alike
  <2>3. CASE new = <<"0", "0">>
    <3>1. SubSeq(new, 2, Len(new)) = <<"0">>
      BY <2>3, SecondZero
    <3>2. 2 \in 1 .. Len(new) + 1 /\ \A i \in 1 .. 2 - 1 : new[i] = "0"
      BY <2>3
    <3> QED
      BY <2>1, <2>3, <3>1, <3>2, SuffixAlike
  <2>4. CASE new \notin {<<"0">>, <<"0", "0">>}
    <3>1. PICK j : j = PastZeros(new)
      OBVIOUS
    <3>2. j \in 1 .. Len(new) + 1 /\ \A i \in 1 .. j - 1 : new[i] = "0"
      BY <3>1, PastZerosIs
    <3> QED
      BY <2>1, <2>4, <3>1, <3>2, SuffixAlike
  <2> QED
    BY <2>2, <2>3, <2>4
<1> QED
  BY <1>7, <1>8, <1>9, <1>10, <1>11

-----------------------------------------------------------------------------
(* Parts of the balance, and what parseFloat reads.                        *)

LEMMA DivisionIs ==
  ASSUME NEW n \in Nat, NEW d \in Nat, d >= 1
  PROVE  /\ n \div d \in Nat /\ n % d \in 0 .. d - 1
         /\ n = d * (n \div d) + (n % d)
<1>1. d > 0
  OBVIOUS
<1>2. n \div d \in Int /\ n % d \in 0 .. d - 1 /\ n = d * (n \div d) + (n % d)
  BY <1>1
<1>3. n \div d >= 0
  <2>1. PICK q \in Int : q = n \div d
    BY <1>2
  <2>2. ASSUME q <= -1 PROVE FALSE
    <3>1. d * q <= -d
      BY <1>1, <2>2
    <3>2. d * q = n - (n % d)
      BY <1>2, <2>1
    <3> QED
      BY <1>2, <3>1, <3>2
  <2> QED
    BY <2>1, <2>2
<1> QED
  BY <1>2, <1>3

\* Rounding to a unit leaves what is within a sum of whole units within it.
LEMMA RoundingStays ==
  ASSUME NEW v \in Nat, NEW V \in Nat, NEW U \in Nat, U >= 1, V % U = 0, v <= V
  PROVE  ((v + U \div 2) \div U) * U <= V
<1>1. PICK k : k = V \div U
  OBVIOUS
<1>2. k \in Nat /\ V = U * k
  BY <1>1, DivisionIs
<1>3. PICK h : h = U \div 2
  OBVIOUS
<1>4. h \in Nat /\ h < U
  BY <1>3
<1>5. PICK q : q = (v + h) \div U
  OBVIOUS
<1>6. q \in Nat /\ U * q <= v + h
  <2>1. v + h \in Nat
    BY <1>4
  <2>2. q \in Nat /\ (v + h) % U \in 0 .. U - 1 /\ v + h = U * q + ((v + h) % U)
    BY <1>5, <2>1, DivisionIs
  <2>3. U * q \in Nat
    BY <2>2
  <2> QED
    BY <2>1, <2>2, <2>3
<1>7. q <= k
  <2>1. SUFFICES ASSUME q >= k + 1 PROVE FALSE
    BY <1>2, <1>6
  <2>2. U * q >= U * (k + 1)
    BY <1>2, <1>6, <2>1
  <2>3. U * (k + 1) = U * k + U
    BY <1>2
  <2>4. U * k \in Nat /\ U * q \in Nat
    BY <1>2, <1>6
  <2> QED
    BY <1>2, <1>4, <1>6, <2>2, <2>3, <2>4
<1>8. q * U <= U * k
  <2>1. q * U <= k * U
    BY <1>2, <1>6, <1>7
  <2>2. k * U = U * k
    BY <1>2
  <2> QED
    BY <2>1, <2>2
<1> QED
  BY <1>2, <1>3, <1>5, <1>8

\* A number smaller than the next power of ten.
LEMMA PowerAbove == \A n \in Nat : n < Power[n]
<1> DEFINE P == {n \in Nat : n < Power[n]}
<1>1. 0 \in P
  BY PowerIs
<1>2. ASSUME NEW n \in Nat, n \in P PROVE n + 1 \in P
  <2>1. Power[n] \in Nat /\ Power[n + 1] = 10 * Power[n]
    BY PowerIs
  <2> QED
    BY <1>2, <2>1
<1>3. Nat \subseteq P
  <2> HIDE DEF P
  <2> QED
    BY <1>1, <1>2, FromZero
<1> QED
  BY <1>3

\* A digit of a number.
LEMMA DigitOfNumber ==
  ASSUME NEW n \in Nat, NEW d \in Nat, d >= 1
  PROVE  Digits[((n \div d) % 10) + 1] \in NumberChars
<1>1. n \div d \in Nat
  BY DivisionIs
<1>2. PICK m : m = (n \div d) % 10
  OBVIOUS
<1>3. m \in 0 .. 9
  BY <1>1, <1>2
<1> QED
  BY <1>2, <1>3 DEF NumberChars

LEMMA NumeralTyped ==
  ASSUME NEW n \in Nat
  PROVE  Numeral(n) \in Seq(NumberChars)
<1> DEFINE Fitting(k) == n < Power[k] /\ (k = 1 \/ Power[k - 1] <= n)
           T == {k \in Nat : k >= 1 /\ n < Power[k]}
           length == CHOOSE k \in 1 .. n + 1 : Fitting(k)
<1>1. \E k \in 1 .. n + 1 : Fitting(k)
  <2>1. T \subseteq Nat /\ n + 1 \in T
    <3>1. n + 1 \in Nat /\ n + 1 < Power[n + 1] /\ Power[n + 1] \in Nat
      BY PowerAbove, PowerIs
    <3> QED
      BY <3>1
  <2>2. PICK k \in T : \A y \in T : k <= y
    <3> HIDE DEF T
    <3> QED
      BY <2>1, SmallestIn
  <2>3. k \in Nat /\ k >= 1 /\ n < Power[k] /\ k <= n + 1
    BY <2>1, <2>2
  <2>4. k = 1 \/ Power[k - 1] <= n
    <3>1. SUFFICES ASSUME k # 1, ~(Power[k - 1] <= n) PROVE FALSE
      OBVIOUS
    <3>2. k - 1 \in Nat /\ k - 1 >= 1 /\ ~(k <= k - 1)
      BY <2>3, <3>1
    <3>3. Power[k - 1] \in Nat
      BY <3>2, PowerIs
    <3>4. n < Power[k - 1]
      BY <3>1, <3>3
    <3>5. k - 1 \in T
      BY <3>2, <3>4
    <3> HIDE DEF T
    <3> QED
      BY <2>2, <3>2, <3>5
  <2>5. k \in 1 .. n + 1
    BY <2>3
  <2> QED
    BY <2>3, <2>4, <2>5
<1>2. length \in 1 .. n + 1
  <2> HIDE DEF Fitting
  <2> QED
    BY <1>1
<1> HIDE DEF length
<1>3. \A i \in 1 .. length : Digits[((n \div Power[length - i]) % 10) + 1] \in NumberChars
  <2> TAKE i \in 1 .. length
  <2>1. length - i \in Nat
    BY <1>2
  <2>2. Power[length - i] \in Nat /\ Power[length - i] >= 1
    BY <2>1, PowerIs
  <2> QED
    BY <2>2, DigitOfNumber
<1>4. Numeral(n) = [i \in 1 .. length |-> Digits[((n \div Power[length - i]) % 10) + 1]]
  BY DEF Numeral, length
<1>5. length \in Nat
  BY <1>2
<1> QED
  BY <1>3, <1>4, <1>5

LEMMA FixedTyped ==
  ASSUME NEW cents \in Nat
  PROVE  Fixed(cents) \in Seq(NumberChars)
<1>1. cents \div 100 \in Nat
  OBVIOUS
<1>2. Numeral(cents \div 100) \in Seq(NumberChars)
  BY <1>1, NumeralTyped
<1>3. CASE cents % 100 = 0
  BY <1>2, <1>3 DEF Fixed
<1>4. CASE cents % 100 # 0
  <2>1. PICK rest : rest = <<".", Digits[((cents \div 10) % 10) + 1], Digits[(cents % 10) + 1]>>
    OBVIOUS
  <2>2. Digits[((cents \div 10) % 10) + 1] \in NumberChars
    BY DigitOfNumber
  <2>3. Digits[(cents % 10) + 1] \in NumberChars
    <3>1. cents % 10 \in 0 .. 9
      OBVIOUS
    <3> QED
      BY <3>1 DEF NumberChars
  <2>4. rest \in Seq(NumberChars)
    BY <2>1, <2>2, <2>3, CharsAre
  <2>5. Fixed(cents) = Numeral(cents \div 100) \o rest
    BY <1>4, <2>1 DEF Fixed
  <2> QED
    BY <1>2, <2>4, <2>5, ConcatProperties
<1> QED
  BY <1>3, <1>4

\* parseFloat reads all of a number.
LEMMA ParsedIs ==
  ASSUME NEW S, NEW t \in Seq(S), IsNumber(t)
  PROVE  Parsed(t) = t
<1> DEFINE T == NumberPrefixes(t) \cup {0}
<1>1. Len(t) \in Nat /\ SubSeq(t, 1, Len(t)) = t
  BY SubSeqFull
<1>2. 1 <= Len(t)
  BY <1>1, NumberTyped, EmptySeq
<1>3. Len(t) \in T
  <2>1. Len(t) \in 1 .. Len(t)
    BY <1>1, <1>2
  <2>2. IsNumber(SubSeq(t, 1, Len(t)))
    BY <1>1
  <2> QED
    BY <2>1, <2>2 DEF NumberPrefixes
<1>4. \A n \in T : n \in Nat /\ n <= Len(t)
  BY <1>1 DEF NumberPrefixes
<1> HIDE DEF T
<1>5. Max(T) \in T /\ \A n \in T : Max(T) >= n
  <2>1. \E x \in T : \A y \in T : x >= y
    BY <1>1, <1>3, <1>4
  <2> QED
    BY <2>1 DEF Max
<1>6. Max(T) = Len(t)
  <2>1. Max(T) \in Nat /\ Max(T) <= Len(t) /\ Max(T) >= Len(t)
    BY <1>3, <1>4, <1>5
  <2> QED
    BY <1>1, <2>1
<1>7. Parsed(t) = SubSeq(t, 1, Max(T))
  BY DEF Parsed, T
<1> QED
  BY <1>1, <1>6, <1>7

-----------------------------------------------------------------------------
(* The fields.                                                             *)

\* What is invariant of the fields: what a deposit is compared with is a whole
\* number of the token's units.
AmountsInv ==
  /\ AmountsTypeOK /\ EntryKeepsValue
  /\ field = "deposit" => Value(balance) % TokenUnit = 0

LEMMA SumsInit ==
  ASSUME AmountsAssumption, AmountsInit
  PROVE  AmountsInv
<1>1. AmountsTypeOK
  <2>1. <<"0">> \in Seq(NumberChars) /\ <<>> \in Seq(Characters)
    BY TextsAre
  <2> QED
    BY <2>1 DEF AmountsInit, AmountsTypeOK
<1>2. EntryKeepsValue
  BY DEF AmountsInit, EntryKeepsValue
<1> QED
  BY <1>1, <1>2 DEF AmountsInv, AmountsInit

\* What the pad or a button puts into the field.
LEMMA ChangeKeeps ==
  ASSUME AmountsAssumption, AmountsInv, NEW how \in {"pad", "part"},
         NEW new \in Seq(NumberChars), Change(how, new)
  PROVE  AmountsInv'
<1>1. /\ text' = IF field = "send" THEN AmountChange(text, new) ELSE DepositChange(new)
      /\ entered' = [how |-> how, what |-> new] /\ UNCHANGED <<field, balance>>
  BY DEF Change
<1>2. text \in Seq(NumberChars) /\ field \in {"send", "deposit"}
  BY DEF AmountsInv, AmountsTypeOK
<1>3. /\ text' \in Seq(NumberChars)
      /\ IsNumber(new) => Alike(new, text') \/ ~Fits(new)
  <2>1. CASE field = "send"
    BY <1>1, <1>2, <2>1, AmountChangeIs
  <2>2. CASE field # "send"
    BY <1>1, <2>2, DepositChangeIs
  <2> QED
    BY <2>1, <2>2
<1>4. AmountsTypeOK'
  <2>1. new \in Seq(Characters)
    BY TextsAre
  <2>2. entered' \in [how : {"none", "pad", "text", "part"}, what : Seq(Characters)]
    BY <1>1, <2>1
  <2>3. field' \in {"send", "deposit"} /\ balance' \in Balances
    BY <1>1 DEF AmountsInv, AmountsTypeOK
  <2> QED
    BY <1>3, <2>2, <2>3 DEF AmountsTypeOK
<1>5. EntryKeepsValue'
  <2>1. entered'.how = how /\ entered'.what = new
    BY <1>1
  <2>2. ~StartsWith(new, "-")
    <3>1. SUFFICES ASSUME new # <<>>, new[1] = "-" PROVE FALSE
      BY DEF StartsWith
    <3>2. Len(new) \in Nat \ {0}
      BY <3>1, EmptySeq
    <3>3. new[1] \in NumberChars
      BY <3>2
    <3> QED
      BY <3>1, <3>3, CharsAre
  <2>3. Without(new, Comma) = new
    BY TextsAre, OnlyAll DEF Without
  <2>4. IsNumber(new) =>
          \/ IsNumber(text') /\ Value(text') = Value(new)
          \/ Value(new) = 0 /\ ~IsNumber(text')
          \/ ~Fits(new)
    <3>1. ASSUME NEW s \in Seq(NumberChars), IsNumber(new), Alike(new, s)
          PROVE  \/ IsNumber(s) /\ Value(s) = Value(new)
                 \/ Value(new) = 0 /\ ~IsNumber(s)
      BY <3>1, AlikeKeeps
    <3> QED
      BY <1>3, <3>1
  <2> QED
    BY <2>1, <2>2, <2>3, <2>4 DEF EntryKeepsValue
<1>6. (field = "deposit" => Value(balance) % TokenUnit = 0)'
  BY <1>1 DEF AmountsInv, TokenUnit
<1> QED
  BY <1>4, <1>5, <1>6 DEF AmountsInv

LEMMA TypeKeeps ==
  ASSUME AmountsAssumption, AmountsInv, Type
  PROVE  AmountsInv'
<1>1. PICK t \in Typed :
        /\ text' = cleanPositiveFloatInput(t)
        /\ entered' = [how |-> "text", what |-> t]
  BY DEF Type
<1>2. UNCHANGED <<field, balance>>
  BY DEF Type
<1>3. t \in Seq(Characters)
  BY DEF AmountsAssumption
<1>4. text' \in Seq(NumberChars)
  BY <1>1, <1>3, CleanTyped
<1>5. AmountsTypeOK'
  <2>1. entered' \in [how : {"none", "pad", "text", "part"}, what : Seq(Characters)]
    BY <1>1, <1>3
  <2>2. field' \in {"send", "deposit"} /\ balance' \in Balances
    BY <1>2 DEF AmountsInv, AmountsTypeOK
  <2> QED
    BY <1>4, <2>1, <2>2 DEF AmountsTypeOK
<1>6. EntryKeepsValue'
  <2>1. PICK number : number = Without(Plain(t), Comma)
    OBVIOUS
  <2>2. entered'.how = "text" /\ entered'.what = t
    BY <1>1
  <2>3. IsNumber(number) =>
          \/ IsNumber(text') /\ Value(text') = Value(number)
          \/ Value(number) = 0 /\ ~IsNumber(text')
    <3> SUFFICES ASSUME IsNumber(number)
                 PROVE  \/ IsNumber(text') /\ Value(text') = Value(number)
                        \/ Value(number) = 0 /\ ~IsNumber(text')
      OBVIOUS
    <3>1. Plain(t) \in Seq(Characters)
      <4>1. StartsWith(t, "-") => Tail(t) \in Seq(Characters)
        BY <1>3, HeadTailProperties DEF StartsWith
      <4> QED
        BY <1>3, <4>1 DEF Plain
    <3>2. number \in Seq(Characters)
      BY <2>1, <3>1, WithoutTyped
    <3>3. number \in Seq(NumberChars)
      BY <3>2, NumberTyped
    <3>4. Alike(number, text')
      BY <1>1, <1>3, <2>1, CleanAlike
    <3> QED
      BY <1>4, <3>3, <3>4, AlikeKeeps
  <2> QED
    BY <2>1, <2>2, <2>3 DEF EntryKeepsValue, Plain
<1>7. (field = "deposit" => Value(balance) % TokenUnit = 0)'
  BY <1>2 DEF AmountsInv, TokenUnit
<1> QED
  BY <1>5, <1>6, <1>7 DEF AmountsInv

\* A part of the balance is a sum of hundredths.
LEMMA PartTyped ==
  ASSUME AmountsAssumption, NEW V \in Nat, NEW percentage \in Nat, NEW new,
         new = Fixed((((V \div 100) * percentage) + Power[Scale - 2] \div 2)
                       \div Power[Scale - 2])
  PROVE  new \in Seq(NumberChars)
<1>1. PICK unit : unit = Power[Scale - 2]
  OBVIOUS
<1>2. unit \in Nat /\ unit >= 1
  <2>1. Scale - 2 \in Nat
    BY DEF AmountsAssumption
  <2> QED
    BY <1>1, <2>1, PowerIs
<1>3. PICK h : h = V \div 100
  OBVIOUS
<1>4. h \in Nat
  BY <1>3
<1>5. h * percentage \in Nat
  BY <1>4
<1>6. unit \div 2 \in Nat
  BY <1>2
<1>7. h * percentage + unit \div 2 \in Nat
  BY <1>5, <1>6
<1>8. (h * percentage + unit \div 2) \div unit \in Nat
  BY <1>2, <1>7, DivisionIs
<1>9. Fixed((h * percentage + unit \div 2) \div unit) \in Seq(NumberChars)
  BY <1>8, FixedTyped
<1> QED
  BY <1>1, <1>3, <1>9

LEMMA SumsStep ==
  ASSUME AmountsAssumption, AmountsInv, [AmountsNext]_amountsVars
  PROVE  AmountsInv'
<1>1. text \in Seq(NumberChars) /\ balance \in Seq(NumberChars)
  BY DEF AmountsInv, AmountsTypeOK, AmountsAssumption
<1>2. CASE Pad
  <2>1. ASSUME NEW k \in PadKeys, Change("pad", Append(text, k))
        PROVE  AmountsInv'
    <3>1. k \in NumberChars
      BY DEF AmountsAssumption
    <3>2. Append(text, k) \in Seq(NumberChars)
      BY <1>1, <3>1, AppendProperties
    <3> QED
      BY <2>1, <3>2, ChangeKeeps
  <2>2. ASSUME text # <<>>, Change("pad", SubSeq(text, 1, Len(text) - 1))
        PROVE  AmountsInv'
    <3>1. SubSeq(text, 1, Len(text) - 1) \in Seq(NumberChars)
      <4>1. Len(text) - 1 \in Int /\ \A i \in 1 .. Len(text) - 1 : text[i] \in NumberChars
        BY <1>1
      <4> QED
        BY <4>1, SubSeqProperties
    <3> QED
      BY <2>2, <3>1, ChangeKeeps
  <2> QED
    BY <1>2, <2>1, <2>2 DEF Pad
<1>3. CASE Type
  BY <1>3, TypeKeeps
<1>4. CASE QuickAmount
  <2>1. PICK percentage \in {25, 50, 75, 100} :
          LET unit == Power[Scale - 2]
              part == (Value(balance) \div 100) * percentage
              cents == (part + unit \div 2) \div unit
          IN Change("part", Fixed(cents))
    BY <1>4 DEF QuickAmount
  <2>2. Value(balance) \in Nat
    BY <1>1, ValueNat
  <2>3. PICK new : new = Fixed((((Value(balance) \div 100) * percentage)
                                 + Power[Scale - 2] \div 2) \div Power[Scale - 2])
    OBVIOUS
  <2>4. new \in Seq(NumberChars)
    <3>1. PICK V : V = Value(balance)
      OBVIOUS
    <3>2. V \in Nat /\ percentage \in Nat
      BY <2>2, <3>1
    <3>3. new = Fixed((((V \div 100) * percentage) + Power[Scale - 2] \div 2)
                        \div Power[Scale - 2])
      BY <2>3, <3>1
    <3> QED
      BY <3>2, <3>3, PartTyped
  <2>5. Change("part", new)
    BY <2>1, <2>3
  <2> QED
    BY <2>4, <2>5, ChangeKeeps
<1>5. CASE UNCHANGED amountsVars
  <2>1. field' = field /\ text' = text /\ balance' = balance /\ entered' = entered
    BY <1>5 DEF amountsVars
  <2>2. AmountsTypeOK' /\ EntryKeepsValue'
    BY <2>1 DEF AmountsInv, AmountsTypeOK, EntryKeepsValue
  <2>3. (field = "deposit" => Value(balance) % TokenUnit = 0)'
    BY <2>1 DEF AmountsInv, TokenUnit
  <2> QED
    BY <2>2, <2>3 DEF AmountsInv
<1> QED
  BY <1>2, <1>3, <1>4, <1>5 DEF AmountsNext

\* The invariant of the sums.
LEMMA SumsInductive ==
  ASSUME AmountsAssumption
  PROVE  AmountsSpec => []AmountsInv
<1>1. AmountsInit => AmountsInv
  BY SumsInit
<1>2. AmountsInv /\ [AmountsNext]_amountsVars => AmountsInv'
  BY SumsStep
<1> QED
  BY <1>1, <1>2, PTL DEF AmountsSpec

\* An entry that is a number is taken at its value, but for its separators and
\* its sign, or not at all, whichever way it was made and of whatever length.
\* (useAmountInput.ts, Deposit.tsx, clearPositiveFloatInput.ts)
THEOREM EntriesKeepTheirValue ==
  ASSUME AmountsAssumption
  PROVE  AmountsSpec => []EntryKeepsValue
<1>1. AmountsInv => EntryKeepsValue
  BY DEF AmountsInv
<1> QED
  BY <1>1, SumsInductive, PTL

\* What can be paid is covered by the balance, and what is deposited too,
\* though it is rounded to the token's decimals.
\* (AmountEntryStep.tsx, Deposit.tsx)
THEOREM PaymentsCovered ==
  ASSUME AmountsAssumption
  PROVE  AmountsSpec => []PayableIsCovered
<1>1. AmountsInv => PayableIsCovered
  <2> SUFFICES ASSUME AmountsInv PROVE PayableIsCovered
    OBVIOUS
  <2>1. text \in Seq(NumberChars) /\ balance \in Seq(NumberChars)
    BY DEF AmountsInv, AmountsTypeOK, AmountsAssumption
  <2>2. Value(text) \in Nat /\ Value(balance) \in Nat
    BY <2>1, ValueNat
  <2>3. ASSUME CanPay(text)
        PROVE  IsNumber(text) /\ Value(text) \in 1 .. Value(balance)
    <3>1. IsNumber(text) /\ Value(text) > 0 /\ Value(Parsed(text)) <= Value(balance)
      BY <2>3 DEF CanPay
    <3>2. Parsed(text) = text
      BY <2>1, <3>1, ParsedIs
    <3> QED
      BY <2>2, <3>1, <3>2
  <2>4. ASSUME field = "deposit", Deposits(text)
        PROVE  Units(text) * TokenUnit <= Value(balance)
    <3>1. PICK v : v = Value(Parsed(text))
      OBVIOUS
    <3>2. v \in Nat /\ v <= Value(balance)
      BY <2>2, <2>4, <3>1 DEF Deposits
    <3>3. TokenUnit \in Nat /\ TokenUnit >= 1
      <4>1. Scale - TokenDecimals \in Nat
        BY DEF AmountsAssumption
      <4> QED
        BY <4>1, PowerIs DEF TokenUnit
    <3>4. Value(balance) % TokenUnit = 0
      BY <2>4 DEF AmountsInv
    <3>5. ((v + TokenUnit \div 2) \div TokenUnit) * TokenUnit <= Value(balance)
      BY <2>2, <3>2, <3>3, <3>4, RoundingStays
    <3> QED
      BY <3>1, <3>5 DEF Units
  <2> QED
    BY <2>3, <2>4 DEF PayableIsCovered
<1> QED
  BY <1>1, SumsInductive, PTL

-----------------------------------------------------------------------------
(* Separators.                                                             *)

\* A last character is kept or not.
LEMMA OnlyLast ==
  ASSUME NEW S, NEW t \in Seq(S), NEW c \in S, NEW C
  PROVE  Only(Append(t, c), C) = IF c \in C THEN Append(Only(t, C), c) ELSE Only(t, C)
<1>1. PICK u : u = Append(t, c)
  OBVIOUS
<1>2. /\ u \in Seq(S) /\ Len(t) \in Nat /\ Len(u) = Len(t) + 1 /\ u[Len(t) + 1] = c
      /\ \A i \in 1 .. Len(t) : u[i] = t[i]
  BY <1>1, AppendProperties
<1>3. PICK f \in [0 .. Len(t) -> Seq(S)] : OnlySteps(f, t, C) /\ Only(t, C) = f[Len(t)]
  BY OnlyRuns
<1>4. PICK g \in [0 .. Len(u) -> Seq(S)] : OnlySteps(g, u, C) /\ Only(u, C) = g[Len(u)]
  BY <1>2, OnlyRuns
<1>5. /\ f[0] = <<>>
      /\ \A n \in 0 .. Len(t) - 1 :
           f[n + 1] = IF t[n + 1] \in C THEN Append(f[n], t[n + 1]) ELSE f[n]
  BY <1>3 DEF OnlySteps
<1>6. /\ g[0] = <<>>
      /\ \A n \in 0 .. Len(u) - 1 :
           g[n + 1] = IF u[n + 1] \in C THEN Append(g[n], u[n + 1]) ELSE g[n]
  BY <1>4 DEF OnlySteps
<1>7. ASSUME NEW n \in Nat, n + 1 <= Len(t), g[n] = f[n] PROVE g[n + 1] = f[n + 1]
  <2>1. n \in 0 .. Len(t) - 1 /\ n \in 0 .. Len(u) - 1 /\ n + 1 \in 1 .. Len(t)
    BY <1>2, <1>7
  <2>2. u[n + 1] = t[n + 1]
    BY <1>2, <2>1
  <2>3. g[n + 1] = IF u[n + 1] \in C THEN Append(g[n], u[n + 1]) ELSE g[n]
    BY <1>6, <2>1
  <2>4. f[n + 1] = IF t[n + 1] \in C THEN Append(f[n], t[n + 1]) ELSE f[n]
    BY <1>5, <2>1
  <2> QED
    BY <1>7, <2>2, <2>3, <2>4
<1> DEFINE P == {n \in Nat : n <= Len(t) => g[n] = f[n]}
<1>8. 0 \in P /\ \A n \in Nat : n \in P => n + 1 \in P
  <2>1. 0 \in P
    BY <1>5, <1>6
  <2>2. ASSUME NEW n \in Nat, n \in P PROVE n + 1 \in P
    <3>1. CASE n + 1 <= Len(t)
      <4>1. n <= Len(t)
        BY <1>2, <3>1
      <4>2. g[n] = f[n]
        BY <2>2, <4>1
      <4>3. g[n + 1] = f[n + 1]
        BY <1>7, <3>1, <4>2
      <4> QED
        BY <4>3
    <3>2. CASE ~(n + 1 <= Len(t))
      BY <3>2
    <3> QED
      BY <3>1, <3>2
  <2> QED
    BY <2>1, <2>2
<1>9. Nat \subseteq P
  <2> HIDE DEF P
  <2> QED
    BY <1>8, FromZero
<1>10. g[Len(t)] = f[Len(t)]
  BY <1>2, <1>9
<1>11. g[Len(t) + 1] = IF u[Len(t) + 1] \in C THEN Append(g[Len(t)], u[Len(t) + 1])
                       ELSE g[Len(t)]
  <2>1. Len(t) \in 0 .. Len(u) - 1
    BY <1>2
  <2> QED
    BY <1>6, <2>1
<1> QED
  BY <1>1, <1>2, <1>3, <1>4, <1>10, <1>11

\* A separator is put in front of the n-th character.
GroupAt(t, n) == n > 1 /\ n <= Whole(t) /\ (Whole(t) - n + 1) % 3 = 0

\* The recursion of Separated, and its steps.
Separates(written, t) ==
  written = [n \in 0 .. Len(t) |->
               IF n = 0 THEN <<>>
               ELSE IF GroupAt(t, n) THEN Append(Append(written[n - 1], Comma), t[n])
               ELSE Append(written[n - 1], t[n])]
SeparatedSteps(f, t) ==
  /\ f[0] = <<>>
  /\ \A n \in 0 .. Len(t) - 1 :
       f[n + 1] = IF GroupAt(t, n + 1) THEN Append(Append(f[n], Comma), t[n + 1])
                  ELSE Append(f[n], t[n + 1])

LEMMA SeparatedUnfolded ==
  ASSUME NEW t
  PROVE  Separated(t) = (CHOOSE written : Separates(written, t))[Len(t)]
BY DEF Separated, Separates, GroupAt

LEMMA SeparatedRuns ==
  ASSUME NEW S, NEW t \in Seq(S)
  PROVE  \E f : SeparatedSteps(f, t) /\ Separated(t) = f[Len(t)]
<1> DEFINE T == S \cup {Comma}
           N == Len(t)
           step == [n \in 1 .. N |-> [s \in Seq(T) |->
                      IF GroupAt(t, n) THEN Append(Append(s, Comma), t[n])
                      ELSE Append(s, t[n])]]
<1>1. N \in Nat /\ <<>> \in Seq(T) /\ Comma \in T /\ \A n \in 1 .. N : t[n] \in T
  BY EmptySeq
<1> HIDE DEF T
<1>2. step \in [1 .. N -> [Seq(T) -> Seq(T)]]
  <2>1. ASSUME NEW n \in 1 .. N, NEW s \in Seq(T)
        PROVE  /\ Append(s, t[n]) \in Seq(T)
               /\ Append(Append(s, Comma), t[n]) \in Seq(T)
    <3>1. Append(s, Comma) \in Seq(T)
      BY <1>1, AppendProperties
    <3> QED
      BY <1>1, <3>1, AppendProperties
  <2> QED
    BY <2>1
<1>3. \A n \in 1 .. N : \A s \in Seq(T) :
        step[n][s] = IF GroupAt(t, n) THEN Append(Append(s, Comma), t[n])
                     ELSE Append(s, t[n])
  OBVIOUS
<1> HIDE DEF step
<1>4. PICK f \in [0 .. N -> Seq(T)] : StepsTo(N, f, <<>>, step)
  BY <1>1, <1>2, StepUpTo
<1>5. f[0] = <<>> /\ \A n \in 1 .. N : f[n] = step[n][f[n - 1]]
  BY <1>4 DEF StepsTo
<1>6. ASSUME NEW n \in 0 .. N
      PROVE  f[n] = IF n = 0 THEN <<>>
                    ELSE IF GroupAt(t, n) THEN Append(Append(f[n - 1], Comma), t[n])
                    ELSE Append(f[n - 1], t[n])
  <2>1. CASE n = 0
    BY <1>5, <2>1
  <2>2. CASE n # 0
    <3>1. n \in 1 .. N /\ n - 1 \in 0 .. N
      BY <1>1, <2>2
    <3>2. f[n - 1] \in Seq(T)
      BY <3>1
    <3> QED
      BY <1>3, <1>5, <2>2, <3>1, <3>2
  <2> QED
    BY <2>1, <2>2
<1>7. Separates(f, t)
  BY <1>6 DEF Separates
<1> DEFINE K == CHOOSE written : Separates(written, t)
<1>8. Separates(K, t)
  BY <1>7
<1>9. Separated(t) = K[N]
  BY SeparatedUnfolded
<1> HIDE DEF K
<1>10. \A n \in 0 .. N : K[n] = IF n = 0 THEN <<>>
                    ELSE IF GroupAt(t, n) THEN Append(Append(K[n - 1], Comma), t[n])
                    ELSE Append(K[n - 1], t[n])
  BY <1>8 DEF Separates
<1>11. ASSUME NEW n \in 0 .. N - 1
       PROVE  K[n + 1] = IF GroupAt(t, n + 1) THEN Append(Append(K[n], Comma), t[n + 1])
                         ELSE Append(K[n], t[n + 1])
  <2>1. n + 1 \in 0 .. N /\ n + 1 # 0 /\ (n + 1) - 1 = n
    BY <1>1
  <2> QED
    BY <1>10, <2>1
<1>12. K[0] = <<>>
  BY <1>1, <1>10
<1>13. SeparatedSteps(K, t)
  BY <1>11, <1>12 DEF SeparatedSteps
<1> QED
  BY <1>9, <1>13

\* Without its separators a number is what it was.
LEMMA SeparatedIs ==
  ASSUME AmountsAssumption, NEW t \in Seq(NumberChars)
  PROVE  Without(Separated(t), Comma) = t
<1> DEFINE kept == Characters \ {Comma}
<1>1. PICK f : SeparatedSteps(f, t) /\ Separated(t) = f[Len(t)]
  BY SeparatedRuns
<1>2. /\ f[0] = <<>> /\ Len(t) \in Nat
      /\ \A n \in 0 .. Len(t) - 1 :
           f[n + 1] = IF GroupAt(t, n + 1) THEN Append(Append(f[n], Comma), t[n + 1])
                      ELSE Append(f[n], t[n + 1])
  BY <1>1 DEF SeparatedSteps
<1>3. Comma \in Characters /\ Comma \notin kept /\ NumberChars \subseteq kept
  BY TextsAre DEF AmountsAssumption
<1>4. kept \subseteq Characters
  OBVIOUS
<1> HIDE DEF kept
<1> DEFINE P == {n \in Nat : n <= Len(t) =>
                   f[n] \in Seq(Characters) /\ Only(f[n], kept) = SubSeq(t, 1, n)}
<1>5. 0 \in P
  <2>1. <<>> \in Seq({}) /\ <<>> \in Seq(Characters)
    BY EmptySeq
  <2>2. Only(<<>>, kept) = <<>>
    <3>1. PICK e : e = <<>>
      OBVIOUS
    <3>2. e \in Seq({}) /\ {} \subseteq kept
      BY <2>1, <3>1
    <3>3. Only(e, kept) = e
      BY <3>2, OnlyAll
    <3> QED
      BY <3>1, <3>3
  <2>3. SubSeq(t, 1, 0) = <<>>
    BY SubSeqEmpty
  <2> QED
    BY <1>2, <2>1, <2>2, <2>3
<1>6. ASSUME NEW n \in Nat, n + 1 <= Len(t),
             f[n] \in Seq(Characters), Only(f[n], kept) = SubSeq(t, 1, n)
      PROVE  f[n + 1] \in Seq(Characters) /\ Only(f[n + 1], kept) = SubSeq(t, 1, n + 1)
  <2>1. n \in 0 .. Len(t) - 1 /\ n + 1 \in 1 .. Len(t) /\ 1 \in 1 .. Len(t)
    BY <1>2, <1>6
  <2>2. PICK c : c = t[n + 1]
    OBVIOUS
  <2>3. c \in NumberChars /\ c \in kept /\ c \in Characters
    BY <1>3, <1>4, <2>1, <2>2
  <2>4. SubSeq(t, 1, n + 1) = Append(SubSeq(t, 1, n), c)
    <3>1. SubSeq(t, 1, n + 1) = SubSeq(t, 1, (n + 1) - 1) \o <<t[n + 1]>>
      BY <2>1, SubSeqRecursiveSecond
    <3>2. \A i \in 1 .. n : t[i] \in NumberChars
      BY <2>1
    <3>3. SubSeq(t, 1, n) \in Seq(NumberChars)
      BY <3>2, SubSeqProperties
    <3>4. Append(SubSeq(t, 1, n), c) = SubSeq(t, 1, n) \o <<c>>
      BY <2>3, <3>3, AppendIsConcat
    <3>5. (n + 1) - 1 = n
      OBVIOUS
    <3> QED
      BY <2>2, <3>1, <3>4, <3>5
  <2>5. PICK s : s = f[n]
    OBVIOUS
  <2>6. s \in Seq(Characters) /\ Only(s, kept) = SubSeq(t, 1, n)
    BY <1>6, <2>5
  <2>7. CASE GroupAt(t, n + 1)
    <3>1. PICK u : u = Append(s, Comma)
      OBVIOUS
    <3>2. u \in Seq(Characters)
      BY <1>3, <2>6, <3>1, AppendProperties
    <3>3. Only(u, kept) = Only(s, kept)
      BY <1>3, <2>6, <3>1, OnlyLast
    <3>4. Only(Append(u, c), kept) = Append(Only(u, kept), c)
      BY <2>3, <3>2, OnlyLast
    <3>5. Append(u, c) \in Seq(Characters)
      BY <2>3, <3>2, AppendProperties
    <3>6. f[n + 1] = Append(u, c)
      BY <1>2, <2>1, <2>2, <2>5, <2>7, <3>1
    <3> QED
      BY <2>4, <2>6, <3>3, <3>4, <3>5, <3>6
  <2>8. CASE ~GroupAt(t, n + 1)
    <3>1. Only(Append(s, c), kept) = Append(Only(s, kept), c)
      BY <2>3, <2>6, OnlyLast
    <3>2. Append(s, c) \in Seq(Characters)
      BY <2>3, <2>6, AppendProperties
    <3>3. f[n + 1] = Append(s, c)
      BY <1>2, <2>1, <2>2, <2>5, <2>8
    <3> QED
      BY <2>4, <2>6, <3>1, <3>2, <3>3
  <2> QED
    BY <2>7, <2>8
<1>7. \A n \in Nat : n \in P => n + 1 \in P
  <2> SUFFICES ASSUME NEW n \in Nat, n \in P PROVE n + 1 \in P
    OBVIOUS
  <2>1. CASE n + 1 <= Len(t)
    <3>1. n <= Len(t)
      BY <1>2, <2>1
    <3>2. f[n] \in Seq(Characters) /\ Only(f[n], kept) = SubSeq(t, 1, n)
      BY <3>1
    <3>3. f[n + 1] \in Seq(Characters) /\ Only(f[n + 1], kept) = SubSeq(t, 1, n + 1)
      BY <1>6, <2>1, <3>2
    <3> QED
      BY <3>3
  <2>2. CASE ~(n + 1 <= Len(t))
    BY <2>2
  <2> QED
    BY <2>1, <2>2
<1>8. Nat \subseteq P
  <2> HIDE DEF P
  <2> QED
    BY <1>5, <1>7, FromZero
<1>9. Only(f[Len(t)], kept) = SubSeq(t, 1, Len(t))
  BY <1>2, <1>8
<1>10. SubSeq(t, 1, Len(t)) = t
  BY SubSeqFull
<1> QED
  BY <1>1, <1>9, <1>10 DEF Without, kept

-----------------------------------------------------------------------------
(* The digits that are shown.                                              *)

\* Where the digits and the dot of a number are.
LEMMA NumberShape ==
  ASSUME NEW S, NEW t \in Seq(S), IsNumber(t)
  PROVE  \A p \in 1 .. Len(t) :
           /\ p = Whole(t) + 1 => t[p] = "."
           /\ p # Whole(t) + 1 => IsDigit(t[p]) /\ t[p] # "."
<1> SUFFICES ASSUME NEW p \in 1 .. Len(t)
             PROVE  /\ p = Whole(t) + 1 => t[p] = "."
                    /\ p # Whole(t) + 1 => IsDigit(t[p]) /\ t[p] # "."
  OBVIOUS
<1>1. IsDigit(t[p]) \/ t[p] = "."
  BY DEF IsNumber
<1>2. IsDigit(t[p]) => t[p] # "."
  BY DigitValue
<1>3. CASE Dots(t) = {}
  <2>1. Whole(t) = Len(t) /\ t[p] # "."
    BY <1>3, DotIs DEF Dots
  <2>2. p # Whole(t) + 1
    BY <2>1
  <2> QED
    BY <1>1, <2>1, <2>2
<1>4. CASE Dots(t) # {}
  <2>1. Dot(t) \in Dots(t) /\ Whole(t) = Dot(t) - 1 /\ t[Dot(t)] = "." /\ Dot(t) \in 1 .. Len(t)
    BY <1>4, DotIs
  <2>2. CASE p = Whole(t) + 1
    <3>1. p = Dot(t)
      BY <2>1, <2>2
    <3> QED
      BY <2>1, <2>2, <3>1
  <2>3. CASE p # Whole(t) + 1
    <3>1. p # Dot(t)
      BY <2>1, <2>3
    <3>2. t[p] # "."
      <4>1. SUFFICES ASSUME t[p] = "." PROVE FALSE
        OBVIOUS
      <4>2. p \in Dots(t)
        BY <4>1 DEF Dots
      <4> QED
        BY <2>1, <3>1, <4>2 DEF IsNumber, OneDot
    <3> QED
      BY <1>1, <2>3, <3>2
  <2> QED
    BY <2>2, <2>3
<1> QED
  BY <1>3, <1>4

\* What Take does, case by case.
TakeStates == [out : Seq(NumberChars), sig : Nat, dot : BOOLEAN]

LEMMA TakeIs ==
  ASSUME AmountsAssumption, NEW a \in TakeStates, NEW c \in NumberChars
  PROVE  /\ Take(a, c) \in TakeStates
         /\ a.sig = SigDigits => Take(a, c) = a
         /\ a.sig < SigDigits /\ c = "." =>
              Take(a, c).out = Append(a.out, c) /\ Take(a, c).sig = a.sig /\ Take(a, c).dot
         /\ a.sig = 0 /\ c = "0" /\ (a.out = <<>> \/ a.dot) =>
              /\ Take(a, c).out = Append(a.out, c) /\ Take(a, c).sig = a.sig
              /\ a.dot => Take(a, c).dot
         /\ a.sig < SigDigits /\ c # "." /\ ~(c = "0" /\ a.sig = 0) =>
              /\ Take(a, c).out = Append(a.out, c) /\ Take(a, c).sig = a.sig + 1
              /\ a.dot => Take(a, c).dot
<1>1. a.out \in Seq(NumberChars) /\ a.sig \in Nat /\ a.dot \in BOOLEAN
      /\ SigDigits \in Nat /\ SigDigits # 0 /\ "." # "0"
  BY DEF TakeStates, AmountsAssumption
<1>2. Append(a.out, c) \in Seq(NumberChars)
  BY <1>1, AppendProperties
<1>3. PICK o : o = Append(a.out, c)
  OBVIOUS
<1>4. CASE a.sig = SigDigits
  <2>1. Take(a, c) = a
    BY <1>1, <1>4 DEF Take
  <2> QED
    BY <1>1, <1>4, <2>1
<1>5. CASE a.sig < SigDigits /\ c = "."
  <2>1. Take(a, c) = [a EXCEPT !.out = o, !.dot = TRUE]
    BY <1>1, <1>3, <1>5 DEF Take
  <2>2. Take(a, c) = [out |-> o, sig |-> a.sig, dot |-> TRUE]
    BY <2>1 DEF TakeStates
  <2>3. Take(a, c).dot
    <3>1. [out |-> o, sig |-> a.sig, dot |-> TRUE].dot
      BY Zenon
    <3> QED
      BY <2>2, <3>1, Zenon
  <2>4. Take(a, c).out = o /\ Take(a, c).sig = a.sig
    BY <2>2
  <2>5. Take(a, c) \in TakeStates
    BY <1>1, <1>2, <1>3, <2>2 DEF TakeStates
  <2> QED
    BY <1>1, <1>3, <1>5, <2>3, <2>4, <2>5
<1>6. CASE a.sig = 0 /\ c = "0" /\ (a.out = <<>> \/ a.dot)
  <2>1. Take(a, c) = [a EXCEPT !.out = o]
    BY <1>1, <1>3, <1>6 DEF Take
  <2>2. Take(a, c) = [out |-> o, sig |-> a.sig, dot |-> a.dot]
    BY <2>1 DEF TakeStates
  <2> QED
    BY <1>1, <1>2, <1>3, <1>6, <2>2 DEF TakeStates
<1>7. CASE a.sig = 0 /\ c = "0" /\ ~(a.out = <<>> \/ a.dot)
  <2>1. Take(a, c) = a
    BY <1>1, <1>7 DEF Take
  <2> QED
    BY <1>1, <1>7, <2>1
<1>8. CASE a.sig # SigDigits /\ ~(a.sig < SigDigits /\ c = ".") /\ ~(a.sig = 0 /\ c = "0")
  <2>1. Take(a, c) = [a EXCEPT !.out = o, !.sig = a.sig + 1]
    BY <1>1, <1>3, <1>8 DEF Take
  <2>2. Take(a, c) = [out |-> o, sig |-> a.sig + 1, dot |-> a.dot]
    BY <2>1 DEF TakeStates
  <2> QED
    BY <1>1, <1>2, <1>3, <1>8, <2>2 DEF TakeStates
<1> QED
  BY <1>1, <1>4, <1>5, <1>6, <1>7, <1>8

\* The recursion of toSignificant, and its steps.
Takes(taken, t) ==
  taken = [n \in 0 .. Len(t) |->
             IF n = 0 THEN [out |-> <<>>, sig |-> 0, dot |-> FALSE]
             ELSE Take(taken[n - 1], t[n])]
TakenSteps(f, t) ==
  /\ f[0] = [out |-> <<>>, sig |-> 0, dot |-> FALSE]
  /\ \A n \in 0 .. Len(t) - 1 : f[n + 1] = Take(f[n], t[n + 1])

LEMMA TakenUnfolded ==
  ASSUME NEW t
  PROVE  toSignificant(t) = Padded(t, (CHOOSE taken : Takes(taken, t))[Len(t)].out)
BY DEF toSignificant, Takes

LEMMA TakenRuns ==
  ASSUME AmountsAssumption, NEW t \in Seq(NumberChars)
  PROVE  \E f : TakenSteps(f, t) /\ toSignificant(t) = Padded(t, f[Len(t)].out)
<1> DEFINE N == Len(t)
           none == [out |-> <<>>, sig |-> 0, dot |-> FALSE]
           step == [n \in 1 .. N |-> [a \in TakeStates |-> Take(a, t[n])]]
<1>1. N \in Nat /\ none \in TakeStates /\ \A n \in 1 .. N : t[n] \in NumberChars
  <2>1. <<>> \in Seq(NumberChars)
    BY TextsAre
  <2>2. none \in TakeStates
    BY <2>1 DEF TakeStates
  <2> QED
    BY <2>2
<1>2. step \in [1 .. N -> [TakeStates -> TakeStates]]
  <2>1. ASSUME NEW n \in 1 .. N, NEW a \in TakeStates PROVE Take(a, t[n]) \in TakeStates
    BY <1>1, TakeIs
  <2> QED
    BY <2>1
<1>3. \A n \in 1 .. N : \A a \in TakeStates : step[n][a] = Take(a, t[n])
  OBVIOUS
<1> HIDE DEF step, none
<1>4. PICK f \in [0 .. N -> TakeStates] : StepsTo(N, f, none, step)
  BY <1>1, <1>2, StepUpTo
<1>5. f[0] = none /\ \A n \in 1 .. N : f[n] = step[n][f[n - 1]]
  BY <1>4 DEF StepsTo
<1>6. ASSUME NEW n \in 0 .. N
      PROVE  f[n] = IF n = 0 THEN none ELSE Take(f[n - 1], t[n])
  <2>1. CASE n = 0
    BY <1>5, <2>1
  <2>2. CASE n # 0
    <3>1. n \in 1 .. N /\ n - 1 \in 0 .. N
      BY <1>1, <2>2
    <3>2. f[n - 1] \in TakeStates
      BY <3>1
    <3> QED
      BY <1>3, <1>5, <2>2, <3>1, <3>2
  <2> QED
    BY <2>1, <2>2
<1>7. Takes(f, t)
  BY <1>6 DEF Takes, none
<1> DEFINE K == CHOOSE taken : Takes(taken, t)
<1>8. Takes(K, t)
  BY <1>7
<1>9. toSignificant(t) = Padded(t, K[N].out)
  BY TakenUnfolded
<1> HIDE DEF K
<1>10. \A n \in 0 .. N : K[n] = IF n = 0 THEN none ELSE Take(K[n - 1], t[n])
  BY <1>8 DEF Takes, none
<1>11. ASSUME NEW n \in 0 .. N - 1 PROVE K[n + 1] = Take(K[n], t[n + 1])
  <2>1. n + 1 \in 0 .. N /\ n + 1 # 0 /\ (n + 1) - 1 = n
    BY <1>1
  <2> QED
    BY <1>10, <2>1
<1>12. K[0] = none
  BY <1>1, <1>10
<1>13. TakenSteps(K, t)
  BY <1>11, <1>12 DEF TakenSteps, none
<1> QED
  BY <1>9, <1>13

\* What counts at position i, and what the next digit after it counts.
WeightAt(t, i) == IF i <= Whole(t) THEN Whole(t) + Scale - i ELSE Whole(t) + Scale + 1 - i
WeightAfter(t, i) == IF i <= Whole(t) THEN Whole(t) + Scale - 1 - i ELSE Whole(t) + Scale - i

\* After n characters: what was taken is the start of the number, its digits
\* counted from the first that is not zero.
Took(t, n, a, m) ==
  /\ m \in 0 .. n /\ a.out = SubSeq(t, 1, m)
  /\ a \in TakeStates /\ a.sig <= SigDigits
  /\ a.sig < SigDigits => m = n
  /\ \A i \in 1 .. m : t[i] = "." => a.dot
  /\ a.sig = 0 => \A i \in 1 .. m : t[i] \in {"0", "."}
  /\ a.sig > 0 => \E i \in 1 .. m : /\ IsDigit(t[i]) /\ t[i] # "0"
                                   /\ WeightAfter(t, m) = WeightAt(t, i) - a.sig

\* No zero stands in front of another digit.
NoZerosInFront(t) == Len(t) > 1 /\ t[1] = "0" => t[2] = "."

LEMMA TookNext ==
  ASSUME AmountsAssumption, NEW t \in Seq(NumberChars), IsNumber(t), NoZerosInFront(t),
         NEW n \in Nat, n + 1 <= Len(t), NEW a, NEW m, Took(t, n, a, m)
  PROVE  \E k \in 0 .. n + 1 : Took(t, n + 1, Take(a, t[n + 1]), k)
<1>1. PICK c : c = t[n + 1]
  OBVIOUS
<1>2. PICK b : b = Take(a, c)
  OBVIOUS
<1>3. /\ n + 1 \in 1 .. Len(t) /\ c \in NumberChars /\ Len(t) \in Nat
      /\ SigDigits \in Nat /\ SigDigits # 0 /\ Scale \in Nat
      /\ Whole(t) \in 0 .. Len(t)
  BY <1>1, DotIs DEF AmountsAssumption
<1>4. /\ m \in 0 .. n /\ a.out = SubSeq(t, 1, m)
      /\ a \in TakeStates /\ a.sig <= SigDigits /\ a.sig \in Nat
      /\ a.sig < SigDigits => m = n
  BY DEF Took, TakeStates
<1>5. \A i \in 1 .. m : t[i] = "." => a.dot
  BY DEF Took
<1>6. a.sig = 0 => \A i \in 1 .. m : t[i] \in {"0", "."}
  BY DEF Took
<1>7. a.sig > 0 => \E i \in 1 .. m : /\ IsDigit(t[i]) /\ t[i] # "0"
                                   /\ WeightAfter(t, m) = WeightAt(t, i) - a.sig
  BY DEF Took
<1>8. /\ n + 1 = Whole(t) + 1 => c = "."
      /\ n + 1 # Whole(t) + 1 => IsDigit(c) /\ c # "."
  BY <1>1, <1>3, NumberShape
<1>9. SubSeq(t, 1, n + 1) = Append(SubSeq(t, 1, n), c)
  <2>1. 1 \in 1 .. Len(t) /\ n + 1 \in 1 .. Len(t) /\ (n + 1) - 1 = n
    BY <1>3
  <2>2. SubSeq(t, 1, n + 1) = SubSeq(t, 1, (n + 1) - 1) \o <<t[n + 1]>>
    BY <2>1, SubSeqRecursiveSecond
  <2>3. \A i \in 1 .. n : t[i] \in NumberChars
    BY <1>3
  <2>4. SubSeq(t, 1, n) \in Seq(NumberChars)
    BY <2>3, SubSeqProperties
  <2>5. Append(SubSeq(t, 1, n), c) = SubSeq(t, 1, n) \o <<c>>
    BY <1>3, <2>4, AppendIsConcat
  <2> QED
    BY <1>1, <2>1, <2>2, <2>5
<1>10. b \in TakeStates
  BY <1>2, <1>3, <1>4, TakeIs
<1>11. CASE a.sig = SigDigits
  <2>1. b = a
    BY <1>2, <1>3, <1>4, <1>11, TakeIs
  <2>2. Took(t, n + 1, b, m)
    BY <1>3, <1>4, <1>5, <1>6, <1>7, <1>11, <2>1 DEF Took
  <2> QED
    BY <1>1, <1>2, <1>4, <2>2
<1>12. CASE a.sig < SigDigits /\ c = "."
  <2>1. m = n /\ n = Whole(t)
    BY <1>3, <1>4, <1>8, <1>12
  <2>2. b.out = Append(a.out, c) /\ b.sig = a.sig /\ b.dot
    BY <1>2, <1>3, <1>4, <1>12, TakeIs
  <2>3. b.out = SubSeq(t, 1, n + 1)
    BY <1>4, <1>9, <2>1, <2>2
  <2>4. WeightAfter(t, n + 1) = WeightAfter(t, n)
    BY <1>3, <2>1 DEF WeightAfter
  <2>5. \A i \in 1 .. n + 1 : i = n + 1 \/ i \in 1 .. n
    OBVIOUS
  <2>6. b.sig = 0 => \A i \in 1 .. n + 1 : t[i] \in {"0", "."}
    BY <1>1, <1>6, <1>12, <2>1, <2>2, <2>5
  <2>7. b.sig > 0 => \E i \in 1 .. n + 1 :
                       /\ IsDigit(t[i]) /\ t[i] # "0"
                       /\ WeightAfter(t, n + 1) = WeightAt(t, i) - b.sig
    BY <1>7, <2>1, <2>2, <2>4
  <2>8. Took(t, n + 1, b, n + 1)
    BY <1>4, <1>10, <2>2, <2>3, <2>6, <2>7 DEF Took
  <2>9. n + 1 \in 0 .. n + 1
    OBVIOUS
  <2> QED
    BY <1>1, <1>2, <2>8, <2>9
<1>13. CASE a.sig = 0 /\ c = "0"
  <2>1. m = n /\ a.sig < SigDigits
    BY <1>3, <1>4, <1>13
  <2>2. a.out = <<>> \/ a.dot
    <3>1. SUFFICES ASSUME a.out # <<>>, ~a.dot PROVE FALSE
      OBVIOUS
    <3>2. n # 0
      <4>1. n = 0 => SubSeq(t, 1, n) = <<>>
        BY SubSeqEmpty
      <4> QED
        BY <1>4, <2>1, <3>1, <4>1
    <3>3. \A i \in 1 .. n : t[i] = "0"
      BY <1>5, <1>6, <1>13, <2>1, <3>1
    <3>4. t[1] = "0" /\ Len(t) > 1 /\ t[2] = "."
      <4>1. 1 \in 1 .. n /\ Len(t) > 1
        BY <1>3, <3>2
      <4> QED
        BY <3>3, <4>1 DEF NoZerosInFront
    <3>5. CASE n = 1
      <4>1. t[n + 1] = "."
        BY <3>4, <3>5
      <4> QED
        BY <1>1, <1>13, <4>1
    <3>6. CASE n # 1
      <4>1. 2 \in 1 .. n
        BY <3>2, <3>6
      <4> QED
        BY <3>3, <3>4, <4>1
    <3> QED
      BY <3>5, <3>6
  <2>3. b.out = Append(a.out, c) /\ b.sig = a.sig /\ (a.dot => b.dot)
    BY <1>2, <1>3, <1>4, <1>13, <2>2, TakeIs
  <2>4. b.out = SubSeq(t, 1, n + 1)
    BY <1>4, <1>9, <2>1, <2>3
  <2>5. \A i \in 1 .. n + 1 : i = n + 1 \/ i \in 1 .. n
    OBVIOUS
  <2>6. \A i \in 1 .. n + 1 : t[i] \in {"0", "."}
    BY <1>1, <1>6, <1>13, <2>1, <2>5
  <2>7. \A i \in 1 .. n + 1 : t[i] = "." => b.dot
    BY <1>1, <1>5, <1>13, <2>1, <2>3, <2>5
  <2>8. Took(t, n + 1, b, n + 1)
    BY <1>4, <1>10, <1>13, <2>1, <2>3, <2>4, <2>6, <2>7 DEF Took
  <2>9. n + 1 \in 0 .. n + 1
    OBVIOUS
  <2> QED
    BY <1>1, <1>2, <2>8, <2>9
<1>14. CASE a.sig < SigDigits /\ c # "." /\ ~(a.sig = 0 /\ c = "0")
  <2>1. m = n /\ n # Whole(t) /\ IsDigit(c)
    BY <1>3, <1>4, <1>8, <1>14
  <2>2. b.out = Append(a.out, c) /\ b.sig = a.sig + 1 /\ (a.dot => b.dot)
    BY <1>2, <1>3, <1>4, <1>14, TakeIs
  <2>3. b.out = SubSeq(t, 1, n + 1)
    BY <1>4, <1>9, <2>1, <2>2
  <2>4. /\ WeightAfter(t, n + 1) = WeightAfter(t, n) - 1
        /\ WeightAfter(t, n + 1) = WeightAt(t, n + 1) - 1
    BY <1>3, <2>1 DEF WeightAfter, WeightAt
  <2>5. \A i \in 1 .. n + 1 : i = n + 1 \/ i \in 1 .. n
    OBVIOUS
  <2>6. b.sig > 0 /\ b.sig <= SigDigits /\ b.sig # 0
    BY <1>3, <1>4, <1>14, <2>2
  <2>7. \A i \in 1 .. n + 1 : t[i] = "." => b.dot
    BY <1>1, <1>5, <1>14, <2>1, <2>2, <2>5
  <2>8. \E i \in 1 .. n + 1 : /\ IsDigit(t[i]) /\ t[i] # "0"
                             /\ WeightAfter(t, n + 1) = WeightAt(t, i) - b.sig
    <3>1. CASE a.sig = 0
      <4>1. n + 1 \in 1 .. n + 1 /\ b.sig = 1 /\ t[n + 1] # "0" /\ IsDigit(t[n + 1])
        BY <1>1, <1>14, <2>1, <2>2, <3>1
      <4> QED
        BY <2>4, <4>1
    <3>2. CASE a.sig # 0
      <4>1. PICK i \in 1 .. n : /\ IsDigit(t[i]) /\ t[i] # "0"
                                /\ WeightAfter(t, n) = WeightAt(t, i) - a.sig
        BY <1>4, <1>7, <2>1, <3>2
      <4>2. WeightAt(t, i) \in Int
        BY <1>3 DEF WeightAt
      <4>3. WeightAfter(t, n + 1) = WeightAt(t, i) - b.sig
        BY <1>4, <2>2, <2>4, <4>1, <4>2
      <4>4. i \in 1 .. n + 1
        OBVIOUS
      <4> QED
        BY <4>1, <4>3, <4>4
    <3> QED
      BY <3>1, <3>2
  <2>9. Took(t, n + 1, b, n + 1)
    BY <1>4, <1>10, <2>2, <2>3, <2>6, <2>7, <2>8 DEF Took
  <2>10. n + 1 \in 0 .. n + 1
    OBVIOUS
  <2> QED
    BY <1>1, <1>2, <2>9, <2>10
<1> QED
  BY <1>3, <1>4, <1>11, <1>12, <1>13, <1>14

\* What is taken of a whole number.
TakenAs(t, m) ==
  /\ m \in 0 .. Len(t) /\ toSignificant(t) = Padded(t, SubSeq(t, 1, m))
  /\ \/ m = Len(t)
     \/ \E i \in 1 .. m : /\ IsDigit(t[i]) /\ t[i] # "0"
                        /\ WeightAfter(t, m) = WeightAt(t, i) - SigDigits

LEMMA TookAll ==
  ASSUME AmountsAssumption, NEW t \in Seq(NumberChars), IsNumber(t), NoZerosInFront(t)
  PROVE  \E m \in Nat : TakenAs(t, m)
<1>1. PICK f : TakenSteps(f, t) /\ toSignificant(t) = Padded(t, f[Len(t)].out)
  BY TakenRuns
<1>2. /\ f[0] = [out |-> <<>>, sig |-> 0, dot |-> FALSE] /\ Len(t) \in Nat
      /\ \A n \in 0 .. Len(t) - 1 : f[n + 1] = Take(f[n], t[n + 1])
  BY <1>1 DEF TakenSteps
<1> DEFINE P == {n \in Nat : n <= Len(t) => \E m \in 0 .. n : Took(t, n, f[n], m)}
<1>3. 0 \in P
  <2>1. f[0].out = <<>> /\ f[0].sig = 0
    BY <1>2
  <2>2. f[0] \in TakeStates
    <3>1. <<>> \in Seq(NumberChars)
      BY TextsAre
    <3> QED
      BY <1>2, <3>1 DEF TakeStates
  <2>3. SubSeq(t, 1, 0) = <<>>
    BY SubSeqEmpty
  <2>4. SigDigits \in Nat /\ 0 \in 0 .. 0 /\ \A i \in 1 .. 0 : FALSE
    BY DEF AmountsAssumption
  <2>5. Took(t, 0, f[0], 0)
    BY <2>1, <2>2, <2>3, <2>4 DEF Took
  <2> QED
    BY <2>4, <2>5
<1>4. ASSUME NEW n \in Nat, n \in P PROVE n + 1 \in P
  <2>1. CASE n + 1 <= Len(t)
    <3>1. n <= Len(t) /\ n \in 0 .. Len(t) - 1
      BY <1>2, <2>1
    <3>2. PICK m \in 0 .. n : Took(t, n, f[n], m)
      BY <1>4, <3>1
    <3>3. \E k \in 0 .. n + 1 : Took(t, n + 1, Take(f[n], t[n + 1]), k)
      BY <2>1, <3>2, TookNext
    <3>4. f[n + 1] = Take(f[n], t[n + 1])
      BY <1>2, <3>1
    <3> QED
      BY <3>3, <3>4
  <2>2. CASE ~(n + 1 <= Len(t))
    BY <2>2
  <2> QED
    BY <2>1, <2>2
<1>5. Nat \subseteq P
  <2> HIDE DEF P
  <2> QED
    BY <1>3, <1>4, FromZero
<1>6. PICK m \in 0 .. Len(t) : Took(t, Len(t), f[Len(t)], m)
  BY <1>2, <1>5
<1>7. PICK a : a = f[Len(t)]
  OBVIOUS
<1>8. /\ a.out = SubSeq(t, 1, m) /\ a.sig \in Nat /\ a.sig <= SigDigits
      /\ a.sig < SigDigits => m = Len(t)
      /\ a.sig > 0 => \E i \in 1 .. m : /\ IsDigit(t[i]) /\ t[i] # "0"
                                      /\ WeightAfter(t, m) = WeightAt(t, i) - a.sig
  BY <1>6, <1>7 DEF Took, TakeStates
<1>9. SigDigits \in Nat /\ SigDigits > 0
  BY DEF AmountsAssumption
<1>10. \/ m = Len(t)
       \/ \E i \in 1 .. m : /\ IsDigit(t[i]) /\ t[i] # "0"
                          /\ WeightAfter(t, m) = WeightAt(t, i) - SigDigits
  <2>1. CASE a.sig < SigDigits
    BY <1>8, <2>1
  <2>2. CASE ~(a.sig < SigDigits)
    <3>1. a.sig = SigDigits /\ a.sig > 0
      BY <1>8, <1>9, <2>2
    <3> QED
      BY <1>8, <3>1
  <2> QED
    BY <2>1, <2>2
<1>11. toSignificant(t) = Padded(t, SubSeq(t, 1, m))
  BY <1>1, <1>7, <1>8
<1>12. TakenAs(t, m)
  BY <1>10, <1>11 DEF TakenAs
<1> QED
  BY <1>2, <1>12

-----------------------------------------------------------------------------
(* What is cut off.                                                        *)

\* s says what the first m characters of t say, and zero after them.
CutAfter(t, s, m) ==
  /\ Whole(s) = Whole(t)
  /\ \A p \in 1 .. m : IF p <= Len(s) THEN s[p] = t[p] ELSE t[p] \in {"0", "."}
  /\ \A p \in m + 1 .. Len(s) : s[p] = "0"

LEMMA ZeroWorth ==
  ASSUME NEW t, NEW w \in Nat,
         Place(t, w) \in DOMAIN t => t[Place(t, w)] \in {"0", "."}
  PROVE  Worth(t, w) = 0
<1>1. CASE Place(t, w) \in DOMAIN t /\ IsDigit(t[Place(t, w)])
  <2>1. t[Place(t, w)] = "0"
    BY <1>1, DigitValue
  <2>2. Worth(t, w) = 0 * Power[w]
    BY <1>1, <2>1, DigitValue DEF Worth
  <2>3. Power[w] \in Nat /\ \A a \in Nat : 0 * a = 0
    BY PowerIs
  <2> QED
    BY <2>2, <2>3
<1>2. CASE ~(Place(t, w) \in DOMAIN t /\ IsDigit(t[Place(t, w)]))
  BY <1>2 DEF Worth
<1> QED
  BY <1>1, <1>2

LEMMA CutWorth ==
  ASSUME AmountsAssumption, NEW t \in Seq(NumberChars), NEW s \in Seq(NumberChars),
         NEW m \in 0 .. Len(t), CutAfter(t, s, m), NEW w \in Nat
  PROVE  /\ Place(t, w) <= m => Worth(s, w) = Worth(t, w)
         /\ Place(t, w) > m => Worth(s, w) = 0
<1>1. /\ Whole(s) = Whole(t) /\ Len(t) \in Nat /\ Len(s) \in Nat
      /\ DOMAIN t = 1 .. Len(t) /\ DOMAIN s = 1 .. Len(s)
  BY DEF CutAfter
<1>2. \A p \in 1 .. m : IF p <= Len(s) THEN s[p] = t[p] ELSE t[p] \in {"0", "."}
  BY DEF CutAfter
<1>3. \A p \in m + 1 .. Len(s) : s[p] = "0"
  BY DEF CutAfter
<1>4. PICK p : p = Place(t, w)
  OBVIOUS
<1>5. p \in Int
  <2>1. Whole(t) \in Nat /\ Scale \in Nat
    BY DotIs DEF AmountsAssumption
  <2> QED
    BY <1>4, <2>1 DEF Place
<1>6. Place(s, w) = p
  BY <1>1, <1>4 DEF Place
<1>7. CASE p > m
  <2>1. p \in DOMAIN s => s[p] \in {"0", "."}
    BY <1>1, <1>3, <1>5, <1>7
  <2>2. Worth(s, w) = 0
    BY <1>6, <2>1, ZeroWorth
  <2> QED
    BY <1>4, <1>5, <1>7, <2>2
<1>8. CASE p < 1
  <2>1. p \notin DOMAIN s /\ p \notin DOMAIN t
    BY <1>1, <1>5, <1>8
  <2>2. Worth(s, w) = 0 /\ Worth(t, w) = 0
    BY <1>4, <1>6, <2>1 DEF Worth
  <2> QED
    BY <2>2
<1>9. CASE p \in 1 .. m
  <2>1. p \in DOMAIN t /\ ~(p > m)
    BY <1>1, <1>9
  <2>2. CASE p <= Len(s)
    <3>1. p \in DOMAIN s /\ s[p] = t[p]
      BY <1>1, <1>2, <1>9, <2>2
    <3>2. Worth(s, w) = Worth(t, w)
      BY <1>4, <1>6, <2>1, <3>1 DEF Worth
    <3> QED
      BY <1>4, <2>1, <3>2
  <2>3. CASE ~(p <= Len(s))
    <3>1. p \notin DOMAIN s /\ t[p] \in {"0", "."}
      BY <1>1, <1>2, <1>9, <2>3
    <3>2. Worth(s, w) = 0
      BY <1>6, <3>1 DEF Worth
    <3>3. Worth(t, w) = 0
      BY <1>4, <3>1, ZeroWorth
    <3> QED
      BY <1>4, <2>1, <3>2, <3>3
  <2> QED
    BY <2>2, <2>3
<1> QED
  BY <1>5, <1>7, <1>8, <1>9

\* The start of a number, filled with zeros up to its dot or without a fraction
\* of zeros, is the number cut off.
LEMMA PaddedIs ==
  ASSUME AmountsAssumption, NEW t \in Seq(NumberChars), IsNumber(t), NEW m \in 0 .. Len(t)
  PROVE  /\ Padded(t, SubSeq(t, 1, m)) \in Seq(NumberChars)
         /\ CutAfter(t, Padded(t, SubSeq(t, 1, m)), m)
<1>1. PICK d : d = Whole(t)
  OBVIOUS
<1>2. PICK u : u = SubSeq(t, 1, m)
  OBVIOUS
<1>3. Len(t) \in Nat /\ d \in 0 .. Len(t) /\ m \in Nat
  BY <1>1, DotIs
<1>4. u \in Seq(NumberChars) /\ Len(u) = m /\ \A p \in 1 .. m : u[p] = t[p]
  <2>1. \A p \in 1 .. m : t[p] \in NumberChars
    BY <1>3
  <2>2. /\ u \in Seq(NumberChars) /\ Len(u) = IF 1 <= m THEN m - 1 + 1 ELSE 0
        /\ \A p \in 1 .. m - 1 + 1 : u[p] = t[1 + p - 1]
    BY <1>2, <1>3, <2>1, SubSeqProperties
  <2>3. m - 1 + 1 = m /\ \A p \in 1 .. m : 1 + p - 1 = p
    BY <1>3
  <2>4. Len(u) = m
    BY <1>3, <2>2
  <2> QED
    BY <2>2, <2>3, <2>4
<1>5. \A p \in 1 .. Len(t) : (p = d + 1 => t[p] = ".") /\ (p # d + 1 => t[p] # ".")
  BY <1>1, NumberShape
<1>6. Dots(t) # {} => d + 1 = Dot(t) /\ d + 1 \in 1 .. Len(t)
  BY <1>1, <1>3, DotIs
<1>7. Dots(t) = {} => d = Len(t)
  BY <1>1, DotIs
<1>8. CASE m < d
  <2>1. PICK z : z = [k \in 1 .. d - m |-> "0"]
    OBVIOUS
  <2>2. z \in Seq(NumberChars) /\ Len(z) = d - m /\ \A k \in 1 .. d - m : z[k] = "0"
    <3>1. d - m \in Nat /\ "0" \in NumberChars
      BY <1>3, <1>8, CharsAre
    <3> QED
      BY <2>1, <3>1
  <2>3. PICK s : s = u \o z
    OBVIOUS
  <2>4. /\ s \in Seq(NumberChars) /\ Len(s) = Len(u) + Len(z)
        /\ \A p \in 1 .. Len(u) + Len(z) :
             s[p] = IF p <= Len(u) THEN u[p] ELSE z[p - Len(u)]
    BY <1>4, <2>2, <2>3, ConcatProperties
  <2>5. Len(s) = d
    BY <1>3, <1>4, <2>2, <2>4
  <2>6. \A p \in 1 .. m : p <= Len(s) /\ s[p] = t[p]
    <3> TAKE p \in 1 .. m
    <3>1. p \in 1 .. Len(u) + Len(z) /\ p <= Len(u) /\ p <= d
      BY <1>3, <1>4, <1>8, <2>2
    <3> QED
      BY <1>4, <2>4, <2>5, <3>1
  <2>7. \A p \in m + 1 .. Len(s) : s[p] = "0"
    <3> TAKE p \in m + 1 .. Len(s)
    <3>1. /\ p \in 1 .. Len(u) + Len(z) /\ ~(p <= Len(u)) /\ p - Len(u) \in 1 .. d - m
      BY <1>3, <1>4, <2>2, <2>4, <2>5
    <3> QED
      BY <2>2, <2>4, <3>1
  <2>8. Whole(s) = d
    <3>1. \A p \in 1 .. d : s[p] # "."
      <4> TAKE p \in 1 .. d
      <4>1. CASE p \in 1 .. m
        <5>1. p \in 1 .. Len(t) /\ p # d + 1
          BY <1>3, <4>1
        <5> QED
          BY <1>5, <2>6, <4>1, <5>1
      <4>2. CASE p \notin 1 .. m
        <5>1. p \in m + 1 .. Len(s)
          BY <1>3, <2>5, <4>2
        <5> QED
          BY <2>7, <5>1
      <4> QED
        BY <4>1, <4>2
    <3>2. Dots(s) = {}
      BY <2>4, <2>5, <3>1 DEF Dots
    <3> QED
      BY <2>4, <2>5, <3>2, DotIs
  <2>9. Padded(t, u) = s
    BY <1>1, <1>4, <1>8, <2>1, <2>3 DEF Padded
  <2>10. CutAfter(t, s, m)
    BY <1>1, <2>6, <2>7, <2>8 DEF CutAfter
  <2> QED
    BY <1>2, <2>4, <2>9, <2>10
<1>9. CASE ~(m < d)
  <2>1. Dots(u) = {} => Whole(u) = d
    <3> SUFFICES ASSUME Dots(u) = {} PROVE Whole(u) = d
      OBVIOUS
    <3>1. Whole(u) = m
      BY <1>4, DotIs
    <3>2. ASSUME m # d PROVE FALSE
      <4>1. d + 1 \in 1 .. m /\ d + 1 \in 1 .. Len(t)
        BY <1>3, <1>9, <3>2
      <4>2. u[d + 1] = "."
        BY <1>4, <1>5, <4>1
      <4>3. d + 1 \in Dots(u)
        BY <1>4, <4>1, <4>2 DEF Dots
      <4> QED
        BY <4>3
    <3> QED
      BY <3>1, <3>2
  <2>2. Dots(u) # {} => Dot(u) = d + 1 /\ Whole(u) = d /\ d + 1 \in 1 .. m
    <3> SUFFICES ASSUME Dots(u) # {} PROVE Dot(u) = d + 1 /\ Whole(u) = d /\ d + 1 \in 1 .. m
      OBVIOUS
    <3>1. Dot(u) \in Dots(u) /\ Whole(u) = Dot(u) - 1 /\ Dot(u) \in 1 .. m /\ u[Dot(u)] = "."
      BY <1>4, DotIs
    <3>2. Dot(u) \in 1 .. Len(t) /\ t[Dot(u)] = "."
      BY <1>3, <1>4, <3>1
    <3>3. Dot(u) = d + 1
      BY <1>5, <3>2
    <3> QED
      BY <1>3, <3>1, <3>3
  <2>3. PICK i : i = Dot(u)
    OBVIOUS
  <2> DEFINE zeros == Dots(u) # {} /\ i < Len(u) /\ \A k \in i + 1 .. Len(u) : u[k] = "0"
  <2>4. Padded(t, u) = IF Dots(t) # {} /\ zeros THEN SubSeq(u, 1, i - 1) ELSE u
    BY <1>1, <1>3, <1>4, <1>9, <2>3 DEF Padded
  <2>5. CASE Dots(t) # {} /\ zeros
    <3>1. i = d + 1 /\ d + 1 \in 1 .. m /\ i - 1 = d
      BY <1>3, <2>2, <2>3, <2>5
    <3>2. PICK s : s = SubSeq(u, 1, d)
      OBVIOUS
    <3>3. s \in Seq(NumberChars) /\ Len(s) = d /\ \A p \in 1 .. d : s[p] = u[p]
      <4>1. \A p \in 1 .. d : u[p] \in NumberChars
        BY <1>3, <1>4, <3>1
      <4>2. /\ s \in Seq(NumberChars) /\ Len(s) = IF 1 <= d THEN d - 1 + 1 ELSE 0
            /\ \A p \in 1 .. d - 1 + 1 : s[p] = u[1 + p - 1]
        BY <1>3, <3>2, <4>1, SubSeqProperties
      <4>3. d - 1 + 1 = d /\ \A p \in 1 .. d : 1 + p - 1 = p
        BY <1>3
      <4>4. Len(s) = d
        BY <1>3, <4>2
      <4> QED
        BY <4>2, <4>3, <4>4
    <3>4. \A p \in 1 .. d : s[p] = t[p] /\ s[p] # "."
      <4> TAKE p \in 1 .. d
      <4>1. p \in 1 .. m /\ p \in 1 .. Len(t) /\ p # d + 1
        BY <1>3, <3>1
      <4> QED
        BY <1>4, <1>5, <3>3, <4>1
    <3>5. Whole(s) = d
      <4>1. Dots(s) = {}
        BY <3>3, <3>4 DEF Dots
      <4> QED
        BY <3>3, <4>1, DotIs
    <3>6. \A p \in 1 .. m : IF p <= Len(s) THEN s[p] = t[p] ELSE t[p] \in {"0", "."}
      <4> TAKE p \in 1 .. m
      <4>1. CASE p <= Len(s)
        <5>1. p \in 1 .. d
          BY <1>3, <3>3, <4>1
        <5> QED
          BY <3>4, <4>1, <5>1
      <4>2. CASE ~(p <= Len(s))
        <5>1. p = d + 1 \/ p \in i + 1 .. Len(u)
          BY <1>3, <1>4, <3>1, <3>3, <4>2
        <5>2. p \in 1 .. Len(t) /\ u[p] = t[p]
          BY <1>3, <1>4
        <5>3. t[p] = "." \/ t[p] = "0"
          BY <1>5, <2>5, <5>1, <5>2
        <5> QED
          BY <4>2, <5>3
      <4> QED
        BY <4>1, <4>2
    <3>7. \A p \in m + 1 .. Len(s) : s[p] = "0"
      BY <1>3, <3>1, <3>3
    <3>8. CutAfter(t, s, m)
      BY <1>1, <3>5, <3>6, <3>7 DEF CutAfter
    <3> QED
      BY <1>2, <2>4, <2>5, <3>1, <3>2, <3>3, <3>8
  <2>6. CASE ~(Dots(t) # {} /\ zeros)
    <3>1. Whole(u) = d
      BY <2>1, <2>2
    <3>2. CutAfter(t, u, m)
      BY <1>1, <1>3, <1>4, <3>1 DEF CutAfter
    <3>3. Padded(t, u) = u
      BY <2>4, <2>6
    <3> QED
      BY <1>2, <1>4, <3>2, <3>3
  <2> QED
    BY <2>5, <2>6
<1> QED
  BY <1>8, <1>9

\* The digits after the first m are those that count least.
LEMMA CutPlace ==
  ASSUME AmountsAssumption, NEW S, NEW t \in Seq(S), NEW m \in Nat, NEW w \in Nat
  PROVE  Place(t, w) > m <=> w <= WeightAfter(t, m)
<1>1. PICK d : d = Whole(t)
  OBVIOUS
<1>2. d \in Nat /\ Scale \in Nat
  BY <1>1, DotIs DEF AmountsAssumption
<1>3. Place(t, w) = IF w >= Scale THEN d + Scale - w ELSE d + Scale + 1 - w
  BY <1>1 DEF Place
<1>4. WeightAfter(t, m) = IF m <= d THEN d + Scale - 1 - m ELSE d + Scale - m
  BY <1>1 DEF WeightAfter
<1> QED
  BY <1>2, <1>3, <1>4

\* A digit is worth less than ten of its place.
LEMMA WorthBelow ==
  ASSUME NEW t, NEW w \in Nat
  PROVE  Worth(t, w) <= 9 * Power[w]
<1>1. Power[w] \in Nat
  BY PowerIs
<1>2. CASE Place(t, w) \in DOMAIN t /\ IsDigit(t[Place(t, w)])
  <2>1. PICK n : n = DigitOf(t[Place(t, w)])
    OBVIOUS
  <2>2. n \in 0 .. 9
    BY <1>2, <2>1, DigitValue
  <2>3. Worth(t, w) = n * Power[w]
    BY <1>2, <2>1 DEF Worth
  <2>4. \A a \in Nat : n * a <= 9 * a
    BY <2>2
  <2> QED
    BY <1>1, <2>3, <2>4
<1>3. CASE ~(Place(t, w) \in DOMAIN t /\ IsDigit(t[Place(t, w)]))
  <2>1. Worth(t, w) = 0
    BY <1>3 DEF Worth
  <2> QED
    BY <1>1, <2>1
<1> QED
  BY <1>2, <1>3

\* Digits up to a place are worth less than one of the next.
LEMMA TotalBelow ==
  ASSUME NEW t
  PROVE  \A N \in Nat : Total(t, N) \in Nat /\ Total(t, N) < Power[N + 1]
<1> DEFINE P == {N \in Nat : Total(t, N) \in Nat /\ Total(t, N) < Power[N + 1]}
<1>1. 0 \in P
  <2> DEFINE f == [w \in 0 .. 0 |-> Worth(t, w)]
  <2>1. f[0] = Worth(t, 0) /\ f[0] \in Nat
    BY WorthNat
  <2>2. PICK S : S = 0 .. 0
    OBVIOUS
  <2>3. Total(t, 0) = SumFunctionOnSet(f, S)
    BY <2>2 DEF Total
  <2>4. IsFiniteSet(S) /\ 0 \in S /\ \A y \in S : y = 0
    <3>1. IsFiniteSet(S)
      <4>1. 0 \in Int
        OBVIOUS
      <4> QED
        BY <2>2, <4>1, FS_Interval
    <3> QED
      BY <2>2, <3>1
  <2> HIDE DEF f
  <2>5. SumFunctionOnSet(f, S) = f[0]
    <3>1. f[0] \in Int /\ \A y \in S : y # 0 => f[y] = 0
      BY <2>1, <2>4
    <3> QED
      BY <2>4, <3>1, SumOne
  <2>6. Power[0] = 1 /\ Power[0 + 1] = 10 * Power[0] /\ Worth(t, 0) <= 9 * Power[0]
    BY PowerIs, WorthBelow
  <2> QED
    BY <2>1, <2>3, <2>5, <2>6
<1>2. ASSUME NEW N \in Nat, N \in P PROVE N + 1 \in P
  <2> DEFINE f == [w \in 0 .. N |-> Worth(t, w)]
             g == [w \in 0 .. N + 1 |-> Worth(t, w)]
  <2>1. /\ \A w \in 0 .. N : w \in 0 .. N + 1 /\ f[w] = g[w]
        /\ \A w \in 0 .. N + 1 : g[w] \in Int
        /\ g[N + 1] = Worth(t, N + 1) /\ Worth(t, N + 1) \in Nat
    BY WorthNat
  <2>2. Total(t, N) = SumFunctionOnSet(f, 0 .. N) /\ Total(t, N + 1) = SumFunctionOnSet(g, 0 .. N + 1)
    BY DEF Total
  <2> HIDE DEF f, g
  <2>3. IsFiniteSet(0 .. N) /\ IsFiniteSet(0 .. N + 1) /\ N + 1 \in 0 .. N + 1
    BY FS_Interval
  <2>4. (0 .. N + 1) \ {N + 1} = 0 .. N
    OBVIOUS
  <2>5. SumFunctionOnSet(g, 0 .. N + 1) = g[N + 1] + SumFunctionOnSet(g, (0 .. N + 1) \ {N + 1})
    BY <2>1, <2>3, SumSplit
  <2>6. SumFunctionOnSet(f, 0 .. N) = SumFunctionOnSet(g, 0 .. N)
    BY <2>1, <2>3, SumSame
  <2>7. Total(t, N + 1) = Worth(t, N + 1) + Total(t, N)
    BY <2>1, <2>2, <2>4, <2>5, <2>6
  <2>8. /\ Power[N + 1] \in Nat /\ Power[(N + 1) + 1] = 10 * Power[N + 1]
        /\ Worth(t, N + 1) <= 9 * Power[N + 1]
    BY PowerIs, WorthBelow
  <2> QED
    BY <1>2, <2>1, <2>7, <2>8
<1>3. Nat \subseteq P
  <2> HIDE DEF P
  <2> QED
    BY <1>1, <1>2, FromZero
<1> QED
  BY <1>3

\* The powers of ten grow.
LEMMA PowerGrows ==
  ASSUME NEW a \in Nat, NEW b \in Nat, a <= b
  PROVE  Power[a] <= Power[b]
<1> DEFINE P == {n \in Nat : Power[a] <= Power[a + n]}
<1>1. 0 \in P
  <2>1. Power[a] \in Nat
    BY PowerIs
  <2> QED
    BY <2>1
<1>2. ASSUME NEW n \in Nat, n \in P PROVE n + 1 \in P
  <2>1. /\ Power[a] \in Nat /\ Power[a + n] \in Nat
        /\ Power[(a + n) + 1] = 10 * Power[a + n]
    BY PowerIs
  <2>2. (a + n) + 1 = a + (n + 1)
    OBVIOUS
  <2> QED
    BY <1>2, <2>1, <2>2
<1>3. Nat \subseteq P
  <2> HIDE DEF P
  <2> QED
    BY <1>1, <1>2, FromZero
<1>4. b - a \in Nat /\ a + (b - a) = b
  OBVIOUS
<1> QED
  BY <1>3, <1>4

\* A digit other than zero is worth its place at least, and is part of the value.
LEMMA DigitCounts ==
  ASSUME AmountsAssumption, NEW t \in Seq(NumberChars), IsNumber(t), Len(t) - Whole(t) - 1 <= Scale,
         NEW i \in 1 .. Len(t), IsDigit(t[i]), t[i] # "0"
  PROVE  WeightAt(t, i) \in Weights(t) /\ Power[WeightAt(t, i)] <= Value(t)
<1>1. PICK w : w = WeightAt(t, i)
  OBVIOUS
<1>2. PICK d : d = Whole(t)
  OBVIOUS
<1>3. d \in Nat /\ Scale \in Nat /\ Len(t) \in Nat /\ i # d + 1 /\ i >= 1 /\ i <= Len(t)
  <2>1. i # d + 1
    BY <1>2, NumberShape, DigitValue
  <2> QED
    BY <1>2, <2>1, DotIs DEF AmountsAssumption
<1>4. w = IF i <= d THEN d + Scale - i ELSE d + Scale + 1 - i
  BY <1>1, <1>2 DEF WeightAt
<1>5. w \in 0 .. Scale + d - 1
  BY SMTT(30), <1>2, <1>3, <1>4
<1>6. (IF w >= Scale THEN d + Scale - w ELSE d + Scale + 1 - w) = i
  BY <1>3, <1>4
<1>7. Place(t, w) = i
  BY <1>2, <1>6 DEF Place
<1>8. Worth(t, w) >= Power[w] /\ Worth(t, w) \in Nat /\ w \in Nat
  <2>1. PICK n : n = DigitOf(t[i])
    OBVIOUS
  <2>2. n \in 0 .. 9 /\ t[i] = Digits[n + 1]
    BY <2>1, DigitValue
  <2>3. n # 0
    BY <2>2, DigitValue, DigitsAre
  <2>4. i \in DOMAIN t
    OBVIOUS
  <2>5. Worth(t, w) = n * Power[w]
    BY <1>7, <2>1, <2>4 DEF Worth
  <2>6. w \in Nat /\ Power[w] \in Nat
    BY <1>3, <1>5, PowerIs
  <2>7. \A a \in Nat : n * a >= a /\ n * a \in Nat
    BY <2>2, <2>3
  <2> QED
    BY <2>5, <2>6, <2>7
<1>9. PICK N : N = Scale + d - 1
  OBVIOUS
<1>10. N \in Nat /\ Scale + Whole(t) - 1 <= N /\ w \in 0 .. N
  <2>1. w \in 0 .. N /\ N \in Int
    BY <1>3, <1>5, <1>9
  <2>2. N \in Nat /\ Scale + d - 1 <= N
    BY <1>3, <1>9, <2>1
  <2> QED
    BY <1>2, <2>1, <2>2
<1> DEFINE f == [v \in 0 .. N |-> Worth(t, v)]
<1>11. \A v \in 0 .. N : f[v] = Worth(t, v) /\ f[v] \in Nat
  BY WorthNat
<1>12. Value(t) = SumFunctionOnSet(f, 0 .. N)
  <2>1. Value(t) = Total(t, N)
    BY <1>10, ValueUpTo
  <2> QED
    BY <2>1 DEF Total
<1> HIDE DEF f
<1>13. PICK T : T = {w}
  OBVIOUS
<1>14. SumFunctionOnSet(f, T) = f[w] /\ SumFunctionOnSet(f, T) <= SumFunctionOnSet(f, 0 .. N)
  <2>1. IsFiniteSet(T) /\ w \in T /\ \A y \in T : y = w
    BY <1>13, FS_Singleton
  <2>2. f[w] \in Int /\ \A y \in T : y # w => f[y] = 0
    BY <1>10, <1>11, <2>1
  <2>3. SumFunctionOnSet(f, T) = f[w]
    BY <2>1, <2>2, SumOne
  <2>4. IsFiniteSet(0 .. N) /\ T \subseteq 0 .. N /\ \A v \in 0 .. N : f[v] \in Nat
    <3>1. IsFiniteSet(0 .. N)
      BY <1>10, FS_Interval
    <3>2. T \subseteq 0 .. N
      BY <1>10, <2>1
    <3> QED
      BY <1>11, <3>1, <3>2
  <2>5. SumFunctionOnSet(f, T) <= SumFunctionOnSet(f, 0 .. N)
    BY <2>4, SumSubset
  <2> QED
    BY <2>3, <2>5
<1>15. f[w] = Worth(t, w)
  BY <1>10, <1>11
<1>16. Value(t) \in Nat /\ Power[w] \in Nat
  BY <1>8, ValueNat, PowerIs
<1>17. Power[w] <= Value(t)
  BY <1>8, <1>12, <1>14, <1>15, <1>16
<1> QED
  BY <1>1, <1>2, <1>5, <1>17 DEF Weights

\* What is cut off is what the digits up to the place of the first of them are
\* worth.
LEMMA CutOff ==
  ASSUME AmountsAssumption, NEW t \in Seq(NumberChars), NEW s \in Seq(NumberChars),
         NEW m \in 0 .. Len(t), CutAfter(t, s, m)
  PROVE  /\ Value(s) <= Value(t)
         /\ WeightAfter(t, m) < 0 => Value(t) = Value(s)
         /\ WeightAfter(t, m) >= 0 => Value(t) - Value(s) < Power[WeightAfter(t, m) + 1]
<1>1. PICK d : d = Whole(t)
  OBVIOUS
<1>2. d \in Nat /\ Scale \in Nat /\ Len(t) \in Nat /\ m \in Nat
  BY <1>1, DotIs DEF AmountsAssumption
<1>3. PICK M : M = WeightAfter(t, m)
  OBVIOUS
<1>4. M \in Int /\ M <= d + Scale
  BY <1>1, <1>2, <1>3 DEF WeightAfter
<1>5. PICK N : N = d + Scale
  OBVIOUS
<1>6. /\ N \in Nat /\ M <= N /\ Whole(s) = d /\ Scale + Whole(s) - 1 <= N
      /\ Scale + Whole(t) - 1 <= N
  BY <1>1, <1>2, <1>4, <1>5 DEF CutAfter
<1> DEFINE f == [w \in 0 .. N |-> Worth(t, w)]
           g == [w \in 0 .. N |-> Worth(s, w)]
           h == [w \in 0 .. N |-> IF w <= M THEN Worth(t, w) ELSE 0]
<1>7. \A w \in 0 .. N : (w <= M => Worth(s, w) = 0) /\ (~(w <= M) => Worth(s, w) = Worth(t, w))
  <2> TAKE w \in 0 .. N
  <2>1. w \in Nat
    OBVIOUS
  <2>2. Place(t, w) > m <=> w <= M
    BY <1>2, <1>3, <2>1, CutPlace
  <2>3. Place(t, w) \in Int
    BY <1>1, <1>2 DEF Place
  <2>4. /\ Place(t, w) <= m => Worth(s, w) = Worth(t, w)
        /\ Place(t, w) > m => Worth(s, w) = 0
    BY <2>1, CutWorth
  <2> QED
    BY <1>2, <2>2, <2>3, <2>4
<1>8. \A w \in 0 .. N : /\ f[w] \in Nat /\ g[w] \in Nat /\ h[w] \in Nat /\ f[w] = g[w] + h[w]
                        /\ w \in Nat /\ (~(w <= M) => h[w] = 0) /\ (w <= M => h[w] = Worth(t, w))
  BY <1>7, WorthNat
<1>9. Value(t) = SumFunctionOnSet(f, 0 .. N) /\ Value(s) = SumFunctionOnSet(g, 0 .. N)
  <2>1. Value(t) = Total(t, N) /\ Value(s) = Total(s, N)
    BY <1>6, ValueUpTo
  <2> QED
    BY <2>1 DEF Total
<1> HIDE DEF f, g, h
<1>10. IsFiniteSet(0 .. N)
  BY <1>6, FS_Interval
<1>11. SumFunctionOnSet(f, 0 .. N) = SumFunctionOnSet(g, 0 .. N) + SumFunctionOnSet(h, 0 .. N)
  <2>1. \A x \in 0 .. N : g[x] \in Int /\ h[x] \in Int /\ f[x] = g[x] + h[x]
    BY <1>8
  <2> QED
    BY <1>10, <2>1, SumPlus
<1>12. PICK rest : rest = SumFunctionOnSet(h, 0 .. N)
  OBVIOUS
<1>13. Value(t) \in Nat /\ Value(s) \in Nat /\ Value(t) = Value(s) + rest
  BY <1>9, <1>11, <1>12, ValueNat
<1>14. CASE M < 0
  <2>1. \A x \in 0 .. N : h[x] = 0
    BY <1>4, <1>8, <1>14
  <2>2. rest = 0
    BY <1>10, <1>12, <2>1, SumZero
  <2> QED
    BY <1>3, <1>4, <1>13, <1>14, <2>2
<1>15. CASE M >= 0
  <2>1. M \in Nat /\ 0 .. M \subseteq 0 .. N /\ IsFiniteSet(0 .. M)
    BY <1>4, <1>6, <1>15, FS_Interval
  <2>2. SumFunctionOnSet(h, 0 .. N) = SumFunctionOnSet(h, 0 .. M)
    <3>1. \A x \in 0 .. M : h[x] \in Int
      BY <1>8, <2>1
    <3>2. \A x \in (0 .. N) \ (0 .. M) : h[x] = 0
      BY <1>8, <2>1
    <3> QED
      BY <1>10, <2>1, <3>1, <3>2, SumOutside
  <2> DEFINE k == [w \in 0 .. M |-> Worth(t, w)]
  <2>3. \A x \in 0 .. M : h[x] = k[x]
    BY <1>8, <2>1
  <2>4. Total(t, M) = SumFunctionOnSet(k, 0 .. M)
    BY DEF Total
  <2> HIDE DEF k
  <2>5. SumFunctionOnSet(h, 0 .. M) = SumFunctionOnSet(k, 0 .. M)
    BY <2>1, <2>3, SumSame
  <2>6. Total(t, M) \in Nat /\ Total(t, M) < Power[M + 1]
    BY <2>1, TotalBelow
  <2>7. rest = Total(t, M)
    BY <1>12, <2>2, <2>4, <2>5
  <2>8. Value(t) - Value(s) = rest /\ Value(s) <= Value(t)
    BY <1>13, <2>6, <2>7
  <2> QED
    BY <1>3, <1>15, <2>1, <2>6, <2>7, <2>8
<1> QED
  BY <1>4, <1>14, <1>15

\* A balance is shown cut off, never rounded up: what the page shows is there,
\* and differs by less than one in the last digit that counts, for a balance of
\* any length.  (precision.ts)
THEOREM BalancesCutOff ==
  ASSUME AmountsAssumption
  PROVE  AmountsSpec => []ShownIsCutOff
<1>1. AmountsInv => ShownIsCutOff
  <2> SUFFICES ASSUME AmountsInv PROVE ShownIsCutOff
    OBVIOUS
  <2>1. PICK b : b = balance
    OBVIOUS
  <2>2. b \in Seq(NumberChars) /\ IsNumber(b) /\ Len(b) - Whole(b) - 1 <= Scale /\ NoZerosInFront(b)
    BY <2>1 DEF AmountsInv, AmountsTypeOK, AmountsAssumption, NoZerosInFront
  <2>3. PICK m \in Nat : TakenAs(b, m)
    BY <2>2, TookAll
  <2>4. PICK s : s = toSignificant(b)
    OBVIOUS
  <2>5. m \in 0 .. Len(b) /\ s = Padded(b, SubSeq(b, 1, m))
    BY <2>3, <2>4 DEF TakenAs
  <2>6. s \in Seq(NumberChars) /\ CutAfter(b, s, m)
    BY <2>2, <2>5, PaddedIs
  <2>7. Without(Shown(b), Comma) = s
    BY <2>4, <2>6, SeparatedIs DEF Shown
  <2>8. PICK value : value = Value(b)
    OBVIOUS
  <2>9. PICK shown : shown = Value(s)
    OBVIOUS
  <2>10. value \in Nat /\ shown \in Nat
    BY <2>2, <2>6, <2>8, <2>9, ValueNat
  <2>11. PICK M : M = WeightAfter(b, m)
    OBVIOUS
  <2>12. /\ M \in Int /\ shown <= value
         /\ M < 0 => value = shown
         /\ M >= 0 => value - shown < Power[M + 1]
    <3>1. M \in Int
      <4>1. Whole(b) \in Nat /\ Scale \in Nat /\ m \in Nat
        BY <2>2, DotIs DEF AmountsAssumption
      <4> QED
        BY <2>11, <4>1 DEF WeightAfter
    <3> QED
      BY <2>2, <2>5, <2>6, <2>8, <2>9, <2>11, <3>1, CutOff
  <2> DEFINE significant == {w \in Weights(b) : w >= SigDigits /\ Power[w] <= value}
             U == {1} \cup {Power[w + 1 - SigDigits] : w \in significant}
  <2>13. SigDigits \in Nat /\ SigDigits > 0 /\ Weights(b) \subseteq Nat
    BY <2>2, DotIs DEF AmountsAssumption, Weights
  <2>14. Max(U) \in U /\ \A x \in U : Max(U) >= x
    <3>1. U \subseteq Nat
      <4>1. \A w \in significant : w + 1 - SigDigits \in Nat
        BY <2>13
      <4>2. \A w \in significant : Power[w + 1 - SigDigits] \in Nat
        BY <4>1, PowerIs
      <4> HIDE DEF significant
      <4> QED
        BY <4>2
    <3>2. \A x \in U : x <= value + 1
      <4> SUFFICES ASSUME NEW w \in significant PROVE Power[w + 1 - SigDigits] <= value + 1
        BY <2>10
      <4>1. w \in Nat /\ w + 1 - SigDigits \in Nat /\ w + 1 - SigDigits <= w /\ Power[w] <= value
        BY <2>13
      <4>2. Power[w + 1 - SigDigits] <= Power[w] /\ Power[w] \in Nat /\ Power[w + 1 - SigDigits] \in Nat
        BY <4>1, PowerGrows, PowerIs
      <4> QED
        BY <2>10, <4>1, <4>2
    <3>3. 1 \in U
      OBVIOUS
    <3> HIDE DEF U
    <3>4. \E x \in U : \A y \in U : x >= y
      <4>1. value + 1 \in Nat
        BY <2>10
      <4> QED
        BY <3>1, <3>2, <3>3, <4>1, LargestIn
    <3> QED
      BY <3>4 DEF Max
  <2>15. value - shown < Max(U)
    <3>1. Max(U) >= 1 /\ Max(U) \in Int
      <4>1. 1 \in U
        OBVIOUS
      <4>2. \A w \in significant : Power[w + 1 - SigDigits] \in Nat
        <5>1. \A w \in significant : w + 1 - SigDigits \in Nat
          BY <2>13
        <5> QED
          BY <5>1, PowerIs
      <4>3. U \subseteq Int
        <5> HIDE DEF significant
        <5> QED
          BY <4>2
      <4> HIDE DEF U
      <4> QED
        BY <2>14, <4>1, <4>3
    <3> HIDE DEF U, significant
    <3>2. CASE M < 0
      BY <2>10, <2>12, <3>1, <3>2
    <3>3. CASE M >= 0 /\ m = Len(b)
      <4>1. \A w \in Nat : Worth(s, w) = Worth(b, w)
        <5> TAKE w \in Nat
        <5>1. CASE Place(b, w) <= m
          BY <2>2, <2>5, <2>6, <5>1, CutWorth
        <5>2. CASE Place(b, w) > m
          <6>1. Worth(s, w) = 0
            BY <2>2, <2>5, <2>6, <5>2, CutWorth
          <6>2. Place(b, w) \notin DOMAIN b
            BY <2>2, <3>3, <5>2
          <6>3. Worth(b, w) = 0
            BY <6>2 DEF Worth
          <6> QED
            BY <6>1, <6>3
        <5>3. Place(b, w) \in Int
          <6>1. Whole(b) \in Nat /\ Scale \in Nat
            BY <2>2, DotIs DEF AmountsAssumption
          <6> QED
            BY <6>1 DEF Place
        <5> QED
          BY <2>5, <5>1, <5>2, <5>3
      <4>2. value = shown
        BY <2>2, <2>6, <2>8, <2>9, <4>1, SameValue
      <4> QED
        BY <2>10, <3>1, <4>2
    <3>4. CASE M >= 0 /\ m # Len(b)
      <4>1. PICK i \in 1 .. m : IsDigit(b[i]) /\ b[i] # "0" /\ M = WeightAt(b, i) - SigDigits
        BY <2>3, <2>11, <3>4 DEF TakenAs
      <4>2. PICK w : w = WeightAt(b, i)
        OBVIOUS
      <4>3. i \in 1 .. Len(b)
        BY <2>2, <2>5
      <4>4. w \in Weights(b) /\ Power[w] <= value
        BY <2>2, <2>8, <4>1, <4>2, <4>3, DigitCounts
      <4>5. w \in significant /\ M + 1 = w + 1 - SigDigits
        BY <2>12, <2>13, <3>4, <4>1, <4>2, <4>4 DEF significant
      <4>6. Power[M + 1] \in U
        BY <4>5 DEF U
      <4>7. Power[M + 1] <= Max(U) /\ Power[M + 1] \in Nat
        <5>1. M + 1 \in Nat
          BY <2>12, <3>4
        <5> QED
          BY <2>14, <3>1, <4>6, <5>1, PowerIs
      <4> QED
        BY <2>10, <2>12, <3>1, <3>4, <4>7
    <3> QED
      BY <2>12, <3>2, <3>3, <3>4
  <2> QED
    BY <2>1, <2>7, <2>8, <2>9, <2>12, <2>15 DEF ShownIsCutOff
<1> QED
  BY <1>1, SumsInductive, PTL
=============================================================================

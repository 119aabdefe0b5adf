------------------------------ MODULE Amounts ------------------------------
(***************************************************************************)
(* The sums a user enters and the balances a page shows, as texts: the     *)
(* field of the payment sheet (useAmountInput), that of the deposit sheet  *)
(* (Deposit), both fed by a number pad and by a text field, the buttons    *)
(* for a part of the balance, and the text a balance is shown as           *)
(* (toSignificant).                                                        *)
(*                                                                         *)
(* A text is a sequence of characters; its value is counted in units of    *)
(* ten to the minus Scale.  The number pad is external: it adds a          *)
(* character or takes the last away.                                       *)
(***************************************************************************)
EXTENDS Integers, Sequences, FiniteSetsExt, Functions

CONSTANTS
  Characters,   \* characters of texts: a bound
  Typed,        \* texts that can be typed or pasted: a bound
  Balances,     \* balances, as the broker writes them: a bound
  PadKeys,      \* keys of the number pad: a bound
  MaxLength,    \* length of a text on the pad: a bound
  MaxDigits,    \* 9 in the code
  MaxDecimals,  \* 7 in the code
  SigDigits,    \* SIGNIFICANT_DIGITS, 5 in the code
  TokenDecimals,\* decimals of the token deposited, 6 of USDC
  Scale         \* of values

VARIABLES
  field,        \* "send" or "deposit"
  text,         \* what the field holds: amount, or value
  balance,      \* what it is compared with
  entered       \* history: what was entered last, and how

amountsVars == <<field, text, balance, entered>>

-----------------------------------------------------------------------------
(* Texts and the numbers they are.                                         *)

Digits == <<"0", "1", "2", "3", "4", "5", "6", "7", "8", "9">>
IsDigit(c) == \E n \in 0 .. 9 : c = Digits[n + 1]
DigitOf(c) == CHOOSE n \in 0 .. 9 : c = Digits[n + 1]
Comma == ","
NumberChars == {Digits[n + 1] : n \in 0 .. 9} \cup {"."}

\* The characters of t that are in C, in their order, and all but c.
Only(t, C) ==
  LET kept[n \in 0 .. Len(t)] ==
        IF n = 0 THEN <<>>
        ELSE IF t[n] \in C THEN Append(kept[n - 1], t[n]) ELSE kept[n - 1]
  IN kept[Len(t)]
Without(t, c) == Only(t, Characters \ {c})

\* indexOf, and the length of the text before the dot.
Dots(t) == {i \in DOMAIN t : t[i] = "."}
Dot(t) == IF Dots(t) = {} THEN 0 ELSE Min(Dots(t))
Whole(t) == IF Dots(t) = {} THEN Len(t) ELSE Dot(t) - 1
OneDot(t) == \A i, j \in Dots(t) : i = j

\* A decimal number without a sign, and at least one digit.
IsNumber(t) ==
  /\ \A i \in DOMAIN t : IsDigit(t[i]) \/ t[i] = "."
  /\ OneDot(t) /\ \E i \in DOMAIN t : IsDigit(t[i])

Power[n \in Nat] == IF n = 0 THEN 1 ELSE 10 * Power[n - 1]

\* The digit that counts Power[w], if there is one, and what it is worth.
Place(t, w) == IF w >= Scale THEN Whole(t) + Scale - w ELSE Whole(t) + Scale + 1 - w
Worth(t, w) ==
  IF Place(t, w) \in DOMAIN t /\ IsDigit(t[Place(t, w)])
    THEN DigitOf(t[Place(t, w)]) * Power[w] ELSE 0
Weights(t) == 0 .. Scale + Whole(t) - 1
Value(t) == SumFunctionOnSet([w \in Weights(t) |-> Worth(t, w)], Weights(t))

\* parseFloat reads the longest prefix that is a number, or none.
NumberPrefixes(t) == {n \in 1 .. Len(t) : IsNumber(SubSeq(t, 1, n))}
Parsed(t) == SubSeq(t, 1, Max(NumberPrefixes(t) \cup {0}))

\* The digits of a natural number, and a count of hundredths as toFixed(2)
\* writes it, without a final ".00".
Numeral(n) ==
  LET length == CHOOSE k \in 1 .. n + 1 :
                  n < Power[k] /\ (k = 1 \/ Power[k - 1] <= n)
  IN [i \in 1 .. length |-> Digits[((n \div Power[length - i]) % 10) + 1]]
Fixed(cents) ==
  IF cents % 100 = 0 THEN Numeral(cents \div 100)
  ELSE Numeral(cents \div 100)
         \o <<".", Digits[((cents \div 10) % 10) + 1], Digits[(cents % 10) + 1]>>

\* What the constants are: an assumption of MCViews.  Values count every digit
\* of the texts; a balance has no zero in front of another digit.
AmountsAssumption ==
  /\ {MaxLength, MaxDigits, MaxDecimals} \subseteq Nat
  /\ SigDigits \in Nat \ {0} /\ Scale \in Nat /\ Scale >= 2
  /\ TokenDecimals \in 0 .. Scale
  /\ NumberChars \cup {Comma, "-"} \subseteq Characters
  /\ PadKeys \subseteq NumberChars /\ MaxLength <= Scale + 1
  /\ Typed \subseteq Seq(Characters) /\ \A t \in Typed : Len(t) <= Scale + 1
  /\ \A b \in Balances :
       /\ b \in Seq(NumberChars) /\ IsNumber(b) /\ Len(b) - Whole(b) - 1 <= Scale
       /\ Len(b) > 1 /\ b[1] = "0" => b[2] = "."

-----------------------------------------------------------------------------
(* What the code does to texts.                                            *)

\* The first run of character c, replaced by r.
ReplaceRun(t, c, r) ==
  LET run == {i \in DOMAIN t : t[i] = c}
      i == Min(run)
      j == Min({k \in i .. Len(t) : t[k] # c} \cup {Len(t) + 1})
  IN IF run = {} THEN t ELSE SubSeq(t, 1, i - 1) \o r \o SubSeq(t, j, Len(t))

StartsWith(t, c) == t # <<>> /\ t[1] = c

\* The first position of t without a zero.
PastZeros(t) == Min({k \in DOMAIN t : t[k] # "0"} \cup {Len(t) + 1})

\* Leading zeros go where a digit other than zero follows them.
DropZeros(t) ==
  LET j == PastZeros(t)
  IN IF j <= Len(t) /\ t[j] # "." THEN SubSeq(t, j, Len(t)) ELSE t

\* Mutant: a dot at the front is dropped before a zero can be put there.
cleanPositiveFloatInput_NoZero(t) ==
  LET a == ReplaceRun(Without(t, Comma), "-", <<>>)
      b == IF StartsWith(a, "0") THEN ReplaceRun(a, "0", <<"0">>) ELSE a
      c == Only(ReplaceRun(b, ".", <<".">>), NumberChars)
      d == DropZeros(c)
  IN IF StartsWith(d, ".") THEN Tail(d) ELSE d

\* cleanPositiveFloatInput, one replacement after another.
cleanPositiveFloatInput(t) ==
  LET a == ReplaceRun(Without(t, Comma), "-", <<>>)
      b == IF StartsWith(a, "0") THEN ReplaceRun(a, "0", <<"0">>) ELSE a
      c == ReplaceRun(b, ".", <<".">>)
      d == IF StartsWith(c, ".") THEN <<"0">> \o c ELSE c
      e == DropZeros(Only(d, NumberChars))
  IN IF StartsWith(e, ".") THEN Tail(e) ELSE e

\* One zero at the front goes, unless the dot follows it.
Unzeroed(t) ==
  IF Len(t) > 1 /\ t[1] = "0" /\ t[2] # "." THEN Tail(t) ELSE t

\* What handleAmountChange lets through: parts of the text before the first
\* dot and between it and the second.
Fits(t) ==
  LET u == IF Dot(t) = 0 THEN <<>> ELSE SubSeq(t, Dot(t) + 1, Len(t))
  IN Whole(u) <= MaxDecimals /\ Whole(t) + Whole(u) <= MaxDigits

\* useAmountInput's handleAmountChange.
AmountChange(old, new) ==
  CASE new = <<>> -> <<"0">>
    [] new # <<>> /\ ~Fits(new) -> old
    [] OTHER -> Unzeroed(new)

\* Deposit's handleChange.
DepositChange(new) ==
  LET whole == SubSeq(new, 1, Whole(new))
      fraction == SubSeq(new, Dot(new) + 1, Len(new))
  IN CASE new = <<>> -> <<"0">>
       [] new = <<".">> -> <<"0", ".">>
       [] ~OneDot(new) ->
            whole \o <<".">> \o Without(fraction, ".")
       [] OneDot(new) /\ Dots(new) # {} /\ new # <<".">> ->
            IF whole \in {<<>>, <<"0", "0">>} THEN <<"0", ".">> \o fraction
            ELSE IF StartsWith(whole, "0") /\ Len(whole) > 1
                   THEN SubSeq(whole, PastZeros(whole), Len(whole)) \o <<".">>
                          \o fraction
                   ELSE new
       [] OTHER ->
            IF new \in {<<"0">>, <<"0", "0">>} THEN <<"0">>
            ELSE SubSeq(new, PastZeros(new), Len(new))

\* Mutant: digits that do not count before the dot are dropped.
Padded_Bare(t, shown) == shown

\* appendZeros: a number cut off before its dot is filled with zeros, another
\* loses a fraction of zeros.
Padded(t, shown) ==
  LET d == Whole(t)
      i == Dot(shown)
      zeros == /\ Dots(shown) # {} /\ i < Len(shown)
               /\ \A k \in i + 1 .. Len(shown) : shown[k] = "0"
  IN IF Len(shown) < d THEN shown \o [k \in 1 .. d - Len(shown) |-> "0"]
     ELSE IF Dots(t) # {} /\ zeros THEN SubSeq(shown, 1, i - 1) ELSE shown

\* toSignificant: characters are taken until enough digits that count are.
Take(a, c) ==
  CASE a.sig = SigDigits -> a
    [] a.sig < SigDigits /\ c = "." ->
         [a EXCEPT !.out = Append(@, c), !.dot = TRUE]
    [] a.sig < SigDigits /\ c = "0" /\ a.sig = 0 ->
         IF a.out = <<>> \/ a.dot THEN [a EXCEPT !.out = Append(@, c)] ELSE a
    [] OTHER -> [a EXCEPT !.out = Append(@, c), !.sig = @ + 1]
toSignificant(t) ==
  LET taken[n \in 0 .. Len(t)] ==
        IF n = 0 THEN [out |-> <<>>, sig |-> 0, dot |-> FALSE]
        ELSE Take(taken[n - 1], t[n])
  IN Padded(t, taken[Len(t)].out)

\* formatWithSeparators: a comma before each three digits that end the whole
\* part, but not at its start.
Separated(t) ==
  LET Group(n) == n > 1 /\ n <= Whole(t) /\ (Whole(t) - n + 1) % 3 = 0
      written[n \in 0 .. Len(t)] ==
        IF n = 0 THEN <<>>
        ELSE IF Group(n) THEN Append(Append(written[n - 1], Comma), t[n])
        ELSE Append(written[n - 1], t[n])
  IN written[Len(t)]

\* formatSignificantWithSeparators, in which balances are shown.
Shown(t) == Separated(toSignificant(t))

\* The smallest sum of the token.
TokenUnit == Power[Scale - TokenDecimals]

\* parseTokenUnits of the number onDeposit reads, in the token's own unit and
\* rounded to it.  The token is listed, since its balance is known.
Units(t) == (Value(Parsed(t)) + TokenUnit \div 2) \div TokenUnit

-----------------------------------------------------------------------------
(* The fields.                                                             *)

\* A field holds digits and dots only, whatever was typed into it.
AmountsTypeOK ==
  /\ field \in {"send", "deposit"} /\ balance \in Balances
  /\ text \in Seq(NumberChars)
  /\ entered \in [how : {"none", "pad", "text", "part"}, what : Seq(Characters)]

AmountsInit ==
  /\ field \in {"send", "deposit"} /\ text = <<"0">>
  /\ balance \in Balances /\ entered = [how |-> "none", what |-> <<>>]
  /\ field = "deposit" => Value(balance) % TokenUnit = 0

Change(how, new) ==
  /\ text' = IF field = "send" THEN AmountChange(text, new)
             ELSE DepositChange(new)
  /\ entered' = [how |-> how, what |-> new]
  /\ UNCHANGED <<field, balance>>

\* The number pad.
Pad ==
  \/ \E k \in PadKeys : Len(text) < MaxLength /\ Change("pad", Append(text, k))
  \/ text # <<>> /\ Change("pad", SubSeq(text, 1, Len(text) - 1))

\* handleAmountInput, of either field.  The text it replaces does not matter,
\* so that typing at the start is enough.
Type ==
  /\ entered.how = "none"
  /\ \E t \in Typed :
       /\ text' = cleanPositiveFloatInput(t)
       /\ entered' = [how |-> "text", what |-> t]
  /\ UNCHANGED <<field, balance>>

\* The buttons for 25, 50, 75 and 100 per cent of the balance, rounded to the
\* nearest hundredth.
QuickAmount ==
  /\ field = "send" /\ Value(balance) > 0
  /\ \E percentage \in {25, 50, 75, 100} :
       LET unit == Power[Scale - 2]
           part == (Value(balance) \div 100) * percentage
           cents == (part + unit \div 2) \div unit
       IN Change("part", Fixed(cents))

AmountsNext == Pad \/ Type \/ QuickAmount

AmountsSpec == AmountsInit /\ [][AmountsNext]_amountsVars

\* Mutant: the text is parsed where it should be converted.
CanPay_Parsed(t) ==
  /\ NumberPrefixes(t) # {} /\ Value(Parsed(t)) > 0
  /\ Value(Parsed(t)) <= Value(balance)

\* AmountEntryStep's canPay: the text as a whole is a positive number, and what
\* parseFloat reads of it is within the balance.
CanPay(t) ==
  /\ IsNumber(t) /\ Value(t) > 0
  /\ Value(Parsed(t)) <= Value(balance)

\* onDeposit's checks of what parseFloat reads.
Deposits(t) ==
  NumberPrefixes(t) # {} /\ Value(Parsed(t)) \in 1 .. Value(balance)

-----------------------------------------------------------------------------
\* A sum that can be paid is a number, greater than zero and within the
\* balance, whatever was typed, pasted or asked for in parts; and what is
\* deposited is covered too, though it is rounded to the token's decimals.
\* (AmountEntryStep.tsx:36-55, Deposit.tsx:210-234)
PayableIsCovered ==
  /\ field = "send" /\ CanPay(text) =>
       IsNumber(text) /\ Value(text) \in 1 .. Value(balance)
  /\ field = "deposit" /\ Deposits(text) =>
       Units(text) * TokenUnit <= Value(balance)

\* An entry that is a number is taken at its value, but for its separators
\* and its sign, or not at all.  (useAmountInput.ts, Deposit.tsx:91-132,
\* clearPositiveFloatInput.ts)
EntryKeepsValue ==
  LET plain == IF StartsWith(entered.what, "-") THEN Tail(entered.what)
               ELSE entered.what
      number == Without(plain, Comma)
  IN entered.how # "none" /\ IsNumber(number) =>
       \/ IsNumber(text) /\ Value(text) = Value(number)
       \/ Value(number) = 0 /\ ~IsNumber(text)
       \/ entered.how \in {"pad", "part"} /\ ~Fits(number)

\* A balance is shown cut off, never rounded up: what the page shows is there,
\* and differs by less than one in the last digit that counts.
\* (precision.ts:1-46)
ShownIsCutOff ==
  LET value == Value(balance)
      shown == Value(Without(Shown(balance), Comma))
      significant == {w \in Weights(balance) : w >= SigDigits /\ Power[w] <= value}
      unit == Max({1} \cup {Power[w + 1 - SigDigits] : w \in significant})
  IN shown <= value /\ value - shown < unit
=============================================================================

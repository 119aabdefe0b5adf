------------------------------ MODULE MCViews ------------------------------
(***************************************************************************)
(* The instance of Views that is checked.                                  *)
(***************************************************************************)
EXTENDS Views, TLC

\* Every text of up to four characters of these, and balances with and
\* without a fraction, below one, long, and ones that rounding would raise.
TypedTexts == UNION {[1 .. n -> {"0", "5", ".", "-", ",", "$"}] : n \in 0 .. 4}
SomeBalances ==
  { <<"0">>, <<"1", ".", "5">>, <<"0", ".", "0", "1", "9">>,
    <<"5", "0", "0">>, <<"1", "2", "3", "4", ".", "5">>,
    <<"9", "9", ".", "9", "9", "9">>, <<"1", "0", ".", "0", "5">>,
    <<"0", ".", "9", "9", "9">> }

ASSUME ViewsAssumption ==
  /\ ClientsAssumption /\ ScannerAssumption /\ HomeAssumption
  /\ AmountsAssumption /\ MessagesAssumption /\ FundingAssumption

\* Funding and Clients are symmetric in the networks, and a slot is as good
\* as another.
Symmetry == Permutations(Chains) \cup Permutations(Slots)
=============================================================================

----------------------------- MODULE MCNetwork -----------------------------
(***************************************************************************)
(* Instances of Network for TLC.                                           *)
(***************************************************************************)
EXTENDS Network, TLC

CONSTANTS polygon, base, foreign, alice, bob

Symmetry == Permutations(Accounts)
=============================================================================

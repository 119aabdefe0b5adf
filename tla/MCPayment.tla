----------------------------- MODULE MCPayment -----------------------------
(***************************************************************************)
(* Instances of Payment for TLC.  The payments are alike: no action and no *)
(* property tells one from another, and none of the properties is a        *)
(* liveness property.                                                      *)
(***************************************************************************)
EXTENDS Payment, TLC

CONSTANTS p1, p2, bob

Symmetry == Permutations(Payments)
=============================================================================

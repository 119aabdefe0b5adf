------------------------------- MODULE MCHub -------------------------------
(***************************************************************************)
(* Instances of Hub for TLC: Alice, who spells her address with checksum   *)
(* or in lower case, and Bob.                                              *)
(***************************************************************************)
EXTENDS Hub, TLC

CONSTANTS alice, aliceLower, bob, k1, k2, k3, t1, t2

MCNames == {alice, bob}
MCSame == [n \in MCNames |-> n]

\* Connections and tokens are interchangeable.
MCSymmetry == Permutations(Conns) \cup Permutations(Tokens)

MCSpellings == {alice, aliceLower, bob}
MCCanonical == [n \in MCSpellings |-> IF n = aliceLower THEN alice ELSE n]
=============================================================================

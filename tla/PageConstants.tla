--------------------------- MODULE PageConstants ---------------------------
(***************************************************************************)
(* What the modules of the parts of the page have in common.               *)
(***************************************************************************)
CONSTANTS
  Chains,       \* networks
  None          \* no network, no channel, no key pair, no signer, no scanner
=============================================================================

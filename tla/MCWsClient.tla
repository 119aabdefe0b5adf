----------------------------- MODULE MCWsClient -----------------------------
(***************************************************************************)
(* Instances of WsClient for TLC.                                          *)
(***************************************************************************)
EXTENDS WsClient, TLC

CONSTANTS s1, s2, r1, r2
=============================================================================

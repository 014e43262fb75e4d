----------------------------- MODULE MCIssuance -----------------------------
(***************************************************************************)
(* A small instance of Issuance for TLC.                                   *)
(***************************************************************************)
EXTENDS Issuance, TLC

CONSTANTS i1, m1, m2
=============================================================================

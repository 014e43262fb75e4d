---------------------------- MODULE MCDrainLedger ----------------------------
(***************************************************************************)
(* Small instances of DrainLedger for TLC.                                 *)
(***************************************************************************)
EXTENDS DrainLedger, TLC

Symmetry == Permutations(Invoices)
=============================================================================

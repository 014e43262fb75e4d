------------------------- MODULE MCAccountRotation -------------------------
(***************************************************************************)
(* Small instances of AccountRotation for TLC.                             *)
(***************************************************************************)
EXTENDS AccountRotation, TLC

CONSTANTS p1, p2, i1, m1, c1

InvoiceTarget == c1 :> i1
PreparationTarget == c1 :> m1
=============================================================================

--------------------------- MODULE MCPaymentDrain ---------------------------
(***************************************************************************)
(* Small instances of PaymentDrain for TLC.                                *)
(***************************************************************************)
EXTENDS PaymentDrain, TLC

CONSTANTS p1, p2, i1, i2, c1, c2

OneTarget == c1 :> i1
TwoTargets == c1 :> i1 @@ c2 :> i2
NoTarget == << >>

Symmetry == Permutations({p1, p2})
=============================================================================

------------------------------ MODULE MCOutbox ------------------------------
(* Small instances of Outbox. *)
EXTENDS Outbox, TLC

CONSTANTS p1, p2, i1, i2, c1

OneTarget == c1 :> i1
NoTarget == << >>
Symmetry == Permutations(Processes)
=============================================================================

---------------------------- MODULE MCSettlement ----------------------------
(***************************************************************************)
(* Small instances of Settlement for TLC.                                  *)
(***************************************************************************)
EXTENDS Settlement, TLC

CONSTANTS t1, t2, t3, o1, o2

NoTransfers == << >>

\* In the second of the creation, too late, and too early.
TransferTimes == t1 :> 1 @@ t2 :> 4 @@ t3 :> 0

Symmetry == Permutations({o1, o2})
=============================================================================

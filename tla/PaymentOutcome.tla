--------------------------- MODULE PaymentOutcome ---------------------------
(***************************************************************************)
(* What payment observation promises of one invoice, and what a drain      *)
(* relies on: an open invoice is settled once, by a timely payment or by   *)
(* its deadline, and no later fact reopens it.  A payment made in time may *)
(* still be learnt of after the deadline.                                  *)
(***************************************************************************)
VARIABLE settled

PayTimely == settled # "timely" /\ settled' = "timely"
Expire == settled = "open" /\ settled' = "expired"

OutcomeSpec == settled = "open" /\ [][PayTimely \/ Expire]_settled
=============================================================================

----------------------------- MODULE Settlement -----------------------------
(***************************************************************************)
(* Observation and settlement of one invoice.                              *)
(*                                                                         *)
(* The observer loop loads its targets (and expires what the deadline      *)
(* overtook), revalidates provider-v2 deadlines, asks Electrum, and        *)
(* applies the answer as one transaction.  The USDT pass credits and       *)
(* withdraws receipts on its own clock.  Either rebuilds the invoice's     *)
(* settlement from both rails.                                             *)
(*                                                                         *)
(* What Electrum and Arbitrum report is unconstrained: outputs appear,     *)
(* lose and gain confirmations, vanish and return.  The database clock     *)
(* only moves forward; the application clock may differ from it.           *)
(***************************************************************************)
EXTENDS Naturals, SequencesExt

CONSTANTS
    Outpoints,          \* outputs that may pay the address, numbered in txid order
    Sufficient,         \* those that carry the required amount
    Transfers,          \* USDT transfers proved for the invoice
    SufficientTransfers,
    TransferTime,       \* their block timestamps
    Observers,          \* processes that run the observer loop
    Final,              \* confirmations that make an output final; 6 in the code
    MaxConfirmations,   \* bound on the confirmations a provider reports
    CreatedSecond,      \* invoice_created_at cut to the second,
    Created,            \* and in full
    Deadline,           \* payment_deadline
    Horizon             \* bound on the clock

ASSUME SettlementAssumption ==
    /\ Outpoints \subseteq Nat \ {0}
    /\ Sufficient \subseteq Outpoints
    /\ SufficientTransfers \subseteq Transfers
    /\ TransferTime \in [Transfers -> 0..Horizon]
    /\ Final \in Nat \ {0}
    /\ MaxConfirmations \in Nat
    /\ MaxConfirmations >= Final
    /\ Horizon \in Nat
    /\ CreatedSecond \in 0..Created
    /\ Created \in 1..Deadline
    /\ Deadline \in 1..Horizon

VARIABLES
    now,       \* the database clock
    inv,       \* the invoice row and its observation rows
    pc,        \* each observer_loop
    tracked    \* the output its loaded target names

vars == <<now, inv, pc, tracked>>

None == 0               \* no output
Never == Horizon + 1    \* a timestamp column that is NULL

\* Type invariant.  Observation rows keep the count the provider reports; a
\* provider-v2 sample keeps at most the count that is final, which its column's
\* CHECK demands.  No first match is dated before the invoice.
SettlementTypeOK ==
    /\ now \in Created..Horizon
    /\ inv \in [v2 : BOOLEAN, minimum : 0..Final, present : SUBSET Outpoints,
                conf : [Outpoints -> 0..MaxConfirmations],
                active : Outpoints \cup {None},
                timely : SUBSET Outpoints, recorded : SUBSET Transfers,
                receipts : SUBSET Transfers, finalized : SUBSET Transfers,
                first : Created..Never, expired : BOOLEAN, contact : BOOLEAN,
                sample : Outpoints \cup {None}, sampleConf : 0..Final,
                evidence : Outpoints \cup {None}]
    /\ pc \in [Observers -> {"idle", "loaded", "calling"}]
    /\ tracked \in [Observers -> Outpoints \cup {None}]

\* An invoice of either contract; a provider-v2 one states its minimum of
\* confirmations.
SettlementInit ==
    /\ now = Created
    /\ \E v2 \in BOOLEAN : \E minimum \in IF v2 THEN 0..Final ELSE {0} :
        inv = [v2 |-> v2, minimum |-> minimum,
               present |-> {}, conf |-> [o \in Outpoints |-> 0], active |-> None,
               timely |-> {}, recorded |-> {}, receipts |-> {}, finalized |-> {},
               first |-> Never, expired |-> FALSE, contact |-> FALSE,
               sample |-> None, sampleConf |-> 0, evidence |-> None]
    /\ pc = [o \in Observers |-> "idle"]
    /\ tracked = [o \in Observers |-> None]

-----------------------------------------------------------------------------
(***************************************************************************)
(* The settlement projection: project_payments.                            *)
(***************************************************************************)

ActivePresent(s) == s.active # None /\ s.active \in s.present
MatchedActive(s) == ActivePresent(s) /\ s.active \in Sufficient
FinalActive(s) == MatchedActive(s) /\ s.conf[s.active] >= Final

BitcoinEligible(s) == MatchedActive(s) /\ s.active \in s.timely

\* A block's timestamp is in whole seconds: one of the second of the creation counts.
TimelyTransfer(t) == CreatedSecond <= TransferTime[t] /\ TransferTime[t] <= Deadline

EligibleReceipts(s) == {t \in s.receipts \cap SufficientTransfers : TimelyTransfer(t)}

Eligible(s) == BitcoinEligible(s) \/ EligibleReceipts(s) # {}

\* usdt_payment selects an eligible receipt if there is one, a finalized one
\* before others; confirmations and identity decide among the rest.
Selected(s) ==
    IF EligibleReceipts(s) \cap s.finalized # {}
    THEN EligibleReceipts(s) \cap s.finalized ELSE EligibleReceipts(s)

Earlier(a, b) == IF a < b THEN a ELSE b
Later(a, b) == IF a < b THEN b ELSE a

\* Seeded faults: an expiry is never undone; a payment reorganised away takes the
\* record of the first match with it.
ProjectionSticky(s, t, r) ==
    [s EXCEPT !.first = Earlier(@, r),
              !.expired = @ \/ (~Eligible(s) /\ Deadline < t),
              !.contact = @ \/ Eligible(s)]
ProjectionForgets(s, t, r) ==
    [s EXCEPT !.first = IF Eligible(s) THEN Earlier(@, r) ELSE Never,
              !.expired = ~Eligible(s) /\ (@ \/ Deadline < t),
              !.contact = @ \/ Eligible(s)]

\* The row after project_payments at time t with r the selected receipt's time.
Projection(s, t, r) ==
    [s EXCEPT !.first = Earlier(@, r),
              !.expired = ~Eligible(s) /\ (@ \/ Deadline < t),
              !.contact = @ \/ Eligible(s)]

ReceivedAt(s) ==
    IF Selected(s) = {} THEN {Never}
    ELSE {Later(TransferTime[t], Created) : t \in Selected(s)}

-----------------------------------------------------------------------------
(***************************************************************************)
(* One Bitcoin observation inside a batch: apply_bitcoin_observation_in_tx *)
(***************************************************************************)

\* An observation is an output, whether it is present, and its confirmations.

\* Seeded fault: only a final output is kept.
KeepsFinalOnly(s, b) == b.present /\ b.out # s.active /\ FinalActive(s)

\* DirectBinding: a confirmed sufficient output is not replaced by another.
KeepsBinding(s, b) ==
    b.present /\ b.out # s.active /\ MatchedActive(s) /\ s.conf[s.active] > 0

\* Seeded fault: the absence of an output that is no longer active counts.
IgnoredUnlessAbsent(s, b) == ~s.v2 /\ (FinalActive(s) \/ KeepsBinding(s, b))

\* The observations that leave everything as it was.
Ignored(s, b) ==
    \/ ~s.v2 /\ FinalActive(s)
    \/ ~b.present /\ b.out # s.active
    \/ ~s.v2 /\ KeepsBinding(s, b)

\* The observation becomes the active binding.
Bound(s, b) ==
    [s EXCEPT !.active = b.out,
              !.present = IF b.present THEN @ \cup {b.out} ELSE @ \ {b.out},
              !.conf[b.out] = b.conf]

\* Seeded fault: an underpaying output counts as the first match.
MatchedAny(s, b, t) ==
    IF b.present
    THEN [s EXCEPT !.timely = IF t <= Deadline THEN @ \cup {b.out} ELSE @,
                   !.first = IF ~s.v2 /\ @ = Never THEN t ELSE @]
    ELSE s

\* The first-match facts of an amount-matched output.
Matched(s, b, t) ==
    IF b.present /\ b.out \in Sufficient
    THEN [s EXCEPT !.timely = IF t <= Deadline THEN @ \cup {b.out} ELSE @,
                   !.first = IF ~s.v2 /\ @ = Never THEN t ELSE @]
    ELSE s

\* Seeded faults: a vanished output stays the sample; the count is not cut; evidence
\* is taken after the deadline.
SampledSticky(s, b, t) ==
    IF s.v2 /\ b.present
    THEN [s EXCEPT !.sample = b.out, !.sampleConf = Earlier(b.conf, Final)] ELSE s
SampledRaw(s, b, t) ==
    IF s.v2
    THEN [s EXCEPT !.sample = IF b.present THEN b.out ELSE None, !.sampleConf = b.conf]
    ELSE s
SampledLate(s, b, t) ==
    IF s.v2 /\ s.evidence = None /\ b.present /\ b.out \in Sufficient /\ b.conf >= s.minimum
    THEN [s EXCEPT !.sample = b.out, !.sampleConf = Earlier(b.conf, Final),
                   !.evidence = b.out]
    ELSE SampledSticky(s, b, t)

\* project_provider_v2_sample: the latest sample, and the first evidence of the
\* confirmation threshold, which nothing rewrites.
Sampled(s, b, t) ==
    LET bounded == Earlier(b.conf, Final)
    IN IF ~s.v2 THEN s
       ELSE [s EXCEPT !.sample = IF b.present THEN b.out ELSE None,
                      !.sampleConf = IF b.present THEN bounded ELSE 0,
                      !.evidence =
                        IF /\ @ = None
                           /\ b.present
                           /\ b.out \in Sufficient
                           /\ bounded >= s.minimum
                           /\ t <= Deadline
                        THEN b.out ELSE @]

\* Both rails agree on the receipt r that projection selects.
Applied(s, b, t, r) ==
    IF Ignored(s, b) THEN s
    ELSE Sampled(Projection(Matched(Bound(s, b), b, t), t, r), b, t)

\* expire_unmatched_at_deadline_in_tx
ExpiredAtDeadline(s, t) ==
    IF ~s.v2 /\ t = Deadline /\ s.first = Never THEN [s EXCEPT !.expired = TRUE] ELSE s

TxidOrder == SetToSortSeq(Outpoints, <)

\* A sorted batch reports the tracked output first if it vanished, then the others by
\* txid.
Batch(gone, P, conf) ==
    LET seen == SelectSeq(TxidOrder, LAMBDA o : o \in P)
    IN (IF gone = None \/ gone \in P THEN << >>
        ELSE <<[out |-> gone, present |-> FALSE, conf |-> 0]>>)
       \o [k \in DOMAIN seen |->
             [out |-> seen[k], present |-> TRUE, conf |-> conf[seen[k]]]]

-----------------------------------------------------------------------------
(***************************************************************************)
(* The observer loop, the USDT pass and the clock.                         *)
(***************************************************************************)

Tick ==
    /\ now < Horizon
    /\ now' = now + 1
    /\ UNCHANGED <<inv, pc, tracked>>

\* Seeded fault: only an invoice with an observed output expires.
OvertakenIfSeen(s) == Deadline < now /\ s.active # None /\ s.first = Never

\* observation_targets: what the deadline overtook expires first.
Overtaken(s) ==
    /\ Deadline < now
    /\ IF s.v2 THEN s.evidence = None ELSE s.first = Never

LoadTargets(o) ==
    /\ pc[o] = "idle"
    /\ inv' = [inv EXCEPT !.expired = @ \/ Overtaken(inv)]
    /\ IF FinalActive(inv) \/ (inv.v2 /\ now >= Deadline)
       THEN UNCHANGED <<pc, tracked>>
       ELSE /\ pc' = [pc EXCEPT ![o] = "loaded"]
            /\ tracked' = [tracked EXCEPT ![o] = inv.active]
    /\ UNCHANGED now

EndTick(o) ==
    /\ pc' = [pc EXCEPT ![o] = "idle"]
    /\ tracked' = [tracked EXCEPT ![o] = None]

\* fence_observation_targets: a provider-v2 call does not start at its deadline.
FenceTargets(o) ==
    /\ pc[o] = "loaded"
    /\ IF inv.v2 /\ now >= Deadline
       THEN EndTick(o)
       ELSE pc' = [pc EXCEPT ![o] = "calling"] /\ UNCHANGED tracked
    /\ UNCHANGED <<now, inv>>

\* The batch commits as a whole, at the time its transaction reads.
ApplyBatch(o) ==
    /\ pc[o] = "calling"
    /\ \E P \in SUBSET Outpoints : \E conf \in [P -> 0..MaxConfirmations] :
        \E r \in ReceivedAt(inv) :
            LET q == Batch(tracked[o], P, conf)
                step(s, b) == Applied(s, b, now, r)
                done == FoldLeft(step, inv, q)
            IN inv' = IF q = << >> THEN inv ELSE ExpiredAtDeadline(done, now)
    /\ EndTick(o)
    /\ UNCHANGED now

\* Electrum is unreachable, or the batch conflicts and is rolled back.
BatchFails(o) ==
    /\ pc[o] \in {"loaded", "calling"}
    /\ EndTick(o)
    /\ UNCHANGED <<now, inv>>

\* The application clock a USDT write is projected with.
AppClock == (IF now = 0 THEN 0 ELSE now - 1)..(now + 1)

\* apply_usdt_transfer: a finalized receipt is never rewritten.  A provider-v2
\* invoice offers no USDT.
CreditReceipt(t) ==
    /\ ~inv.v2
    /\ t \notin inv.finalized
    /\ TransferTime[t] <= now + 1
    /\ \E final \in BOOLEAN, n \in AppClock :
        LET s == [inv EXCEPT !.recorded = @ \cup {t},
                             !.receipts = @ \cup {t},
                             !.finalized = IF final THEN @ \cup {t} ELSE @]
        IN \E r \in ReceivedAt(s) : inv' = Projection(s, n, r)
    /\ UNCHANGED <<now, pc, tracked>>

\* clear_usdt_transfer: a receipt that left the canonical chain, or a recorded one
\* that has no attestation to verify it with.
ClearReceipt(t) ==
    /\ t \in inv.recorded \ inv.finalized
    /\ \E n \in AppClock :
        LET s == [inv EXCEPT !.receipts = @ \ {t}]
        IN \E r \in ReceivedAt(s) : inv' = Projection(s, n, r)
    /\ UNCHANGED <<now, pc, tracked>>

\* observe_usdt_request: one candidate of a pass, verified or found gone.
ObserveCandidate(t) == CreditReceipt(t) \/ ClearReceipt(t)

SettlementNext ==
    \/ Tick
    \/ \E o \in Observers :
        LoadTargets(o) \/ FenceTargets(o) \/ ApplyBatch(o) \/ BatchFails(o)
    \/ \E t \in Transfers : ObserveCandidate(t)

SettlementSpec == SettlementInit /\ [][SettlementNext]_vars

\* The clock runs and the loop ticks; a call ends with an answer or a failure.
FairSettlementSpec ==
    /\ SettlementSpec
    /\ WF_vars(Tick)
    /\ \A o \in Observers :
        /\ WF_vars(LoadTargets(o))
        /\ WF_vars(FenceTargets(o) \/ ApplyBatch(o) \/ BatchFails(o))

-----------------------------------------------------------------------------
(***************************************************************************)
(* Properties.                                                             *)
(***************************************************************************)

\* Terminal as exact_replay and cleanup_completed read it.
Settled ==
    IF inv.first <= Deadline \/ inv.evidence # None THEN "timely"
    ELSE IF inv.expired THEN "expired" ELSE "open"

Outcome == INSTANCE PaymentOutcome WITH settled <- Settled

\* No observation, reorg or clock difference reopens a settled invoice
\* (project_payments, observation_targets, fence_observation_targets).
ImplementsOutcome == Outcome!OutcomeSpec

\* An invoice whose current payment qualifies is not expired (project_payments).
PaidIsNotExpired == ~inv.v2 /\ Eligible(inv) => ~inv.expired

\* A buyer contact is kept exactly for invoices paid in full and in time, also
\* when the payment is later reorganised away (project_payments).
ContactMeansTimely == ~inv.v2 => (inv.contact <=> inv.first <= Deadline)

\* A confirmed sufficient output gives way to another only once a reorg has taken
\* its confirmations, and a final one never does (apply_bitcoin_observation_in_tx).
ConfirmedMatchIsFrozen ==
    [][~inv.v2 /\ MatchedActive(inv) /\ inv.conf[inv.active] > 0 =>
        \/ inv'.active = inv.active
        \/ inv'.conf[inv.active] = 0 /\ ~FinalActive(inv)]_vars

\* A batch whose target was loaded before another observer replaced the active output
\* reports the old one's absence: that takes nothing from the payment now active,
\* and never brings the old output back (apply_bitcoin_observation_in_tx).
LateAbsenceIsHarmless ==
    [][\A o \in Observers :
        /\ pc[o] = "calling" /\ pc'[o] = "idle"
        /\ ActivePresent(inv) /\ tracked[o] # inv.active
        => ActivePresent(inv')]_vars

\* The provider-v2 sample is the active output with its bounded confirmations while
\* it is present, and is cleared when that output vanishes, whatever else the
\* batches of the other observers reported (project_provider_v2_sample).
SampleIsActive ==
    inv.v2 =>
        IF ActivePresent(inv)
        THEN inv.sample = inv.active /\ inv.sampleConf = Earlier(inv.conf[inv.active], Final)
        ELSE inv.sample = None /\ inv.sampleConf = 0

\* First-threshold evidence is earned once, by the deadline, by a sufficient output
\* seen with the minimum of confirmations; no reorg, later output or batch that was
\* called in time and applied late adds, rewrites or clears it
\* (project_provider_v2_sample).
EvidenceIsEarnedOnce ==
    [][inv'.evidence # inv.evidence =>
        /\ inv.evidence = None
        /\ now <= Deadline
        /\ inv'.evidence \in Sufficient \cap inv'.present
        /\ inv'.conf[inv'.evidence] >= inv.minimum]_vars

\* The deadline settles every invoice (observation_targets).
EventuallySettled == Settled = "open" ~> Settled # "open"
=============================================================================

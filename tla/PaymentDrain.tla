---------------------------- MODULE PaymentDrain ----------------------------
(***************************************************************************)
(* Draining one lock's Payment Requests, composed with their delivery.     *)
(*                                                                         *)
(* A drain receives from the lock's Readers and projects lifecycles under  *)
(* the Creator mutation lock; one transaction then freezes how each        *)
(* invoice of the lock's current generation stands (DrainLedger), enqueues *)
(* a cancellation of every request still proposed, and fences the          *)
(* generation against further delivery (Outbox).                           *)
(*                                                                         *)
(* An invoice is named by its one proposal row.                            *)
(***************************************************************************)
EXTENDS Outbox, FiniteSets

CONSTANT MaxDrains    \* bound on the drain cycles of the lock

VARIABLES
    cycle, active, item, acceptedCount, terminalCount, cancellationCount, completed,
    receipt, settled,    \* these nine as in DrainLedger
    drainPc, targets     \* reconcile_and_create_payment_drain in each process

Ledger == INSTANCE DrainLedger WITH Invoices <- Proposals

ledgerRow == <<cycle, active, item, acceptedCount, terminalCount, cancellationCount,
               completed, receipt>>
drainTask == <<drainPc, targets>>
drainVars == <<ledgerRow, settled, drainTask>>
allVars == <<vars, drainVars>>

\* Type invariant of the composition: a drain freezes only classifications the
\* item table admits (create_inner).
DrainTypeOK ==
    /\ TypeOK
    /\ Ledger!LedgerTypeOK
    /\ drainPc \in [Processes -> {"idle", "refresh", "create"}]
    /\ targets \in [Processes -> SUBSET Proposals]

DrainInit ==
    /\ OutboxInit
    /\ Ledger!LedgerInit
    /\ drainPc = [p \in Processes |-> "idle"]
    /\ targets = [p \in Processes |-> {}]

\* Invoices of the current generation while no drain is active.
Current == {i \in Proposals : status[i] # "absent" /\ i \notin fenced}

\* required_receive_targets_for_lock: the Readers whose answers could matter.
RequiredTargets ==
    {i \in Current :
        \/ status[i] # "permanently_failed" /\ lifecycle[i] = "none"
        \/ lifecycle[i] \in {"proposed", "accepted"}}

EndDrain(p) ==
    /\ drainPc' = [drainPc EXCEPT ![p] = "idle"]
    /\ targets' = [targets EXCEPT ![p] = {}]
    /\ mutationLock' = [mutationLock EXCEPT ![p] = "free"]

\* All of Outbox but fenced and the locks.
deliveryVars == <<rowVars, clockVars, sdkVars, lifecycle, taskVars, reconVars, faults>>

\* Seeded fault: the drain refreshes without the mutation lock.
BeginDrainUnlocked(p) ==
    /\ drainPc[p] = "idle"
    /\ ~active
    /\ cycle < MaxDrains
    /\ targets' = [targets EXCEPT ![p] = RequiredTargets]
    /\ drainPc' = [drainPc EXCEPT ![p] = "refresh"]
    /\ UNCHANGED <<deliveryVars, fenced, lockVars, ledgerRow, settled>>

\* No drain is active: take the mutation lock and load the required targets.
BeginDrain(p) ==
    /\ mutationLock[p] = "free"
    /\ ~active
    /\ cycle < MaxDrains
    /\ mutationLock' = [mutationLock EXCEPT ![p] = "drain"]
    /\ targets' = [targets EXCEPT ![p] = RequiredTargets]
    /\ drainPc' = [drainPc EXCEPT ![p] = "refresh"]
    /\ UNCHANGED <<deliveryVars, fenced, setupFence, ledgerRow, settled>>

\* Receive from the targets and project.  Any failed receive, and any refused
\* record, fails the request after what is known was projected.
RefreshDrain(p) ==
    /\ drainPc[p] = "refresh"
    /\ \E S \in SUBSET targets[p] :
        /\ request' = Received(S)
        /\ answer' = Consumed(S)
        /\ lifecycle' = Projected(Received(S))
        /\ \/ /\ S = targets[p]
              /\ ~ProjectionRefused(Received(S))
              /\ drainPc' = [drainPc EXCEPT ![p] = "create"]
              /\ UNCHANGED <<targets, mutationLock>>
           \/ EndDrain(p)
    /\ UNCHANGED <<rowVars, fenced, clockVars, message, setupFence, taskVars,
                   reconVars, faults, ledgerRow, settled>>

\* Seeded fault: an invoice with no known state is frozen as it stands.
ClassifyAnything(i) ==
    IF lifecycle[i] = "proposed" THEN "cancellation_enqueued"
    ELSE IF lifecycle[i] = "none" THEN status[i] ELSE lifecycle[i]

\* How an invoice is frozen; "none" refuses the drain.  The error class stands for
\* the rotation's proposal_suppressed item, written in one transaction with it.
Classify(i) ==
    CASE lifecycle[i] = "proposed" -> "cancellation_enqueued"
      [] lifecycle[i] \in Ledger!Classification -> lifecycle[i]
      [] error[i] = "bitcoin_account_rotated" -> "canceled"
      [] status[i] = "permanently_failed" /\ error[i] = "proposal_expired" ->
            "proposal_expired"
      [] OTHER -> "none"

\* Seeded fault: a cancellation that rotation enqueued is not taken over.
NeededNewCancellations ==
    {c \in Cancellations :
        /\ Target[c] \in Current
        /\ Classify(Target[c]) = "cancellation_enqueued"
        /\ status[c] = "absent"}

\* The cancellations a snapshot needs: new rows, or rotation's rows taken over.  A
\* row that exists is rotation's: nothing else enqueues one before the drain.
NeededCancellations ==
    {c \in Cancellations :
        Target[c] \in Current /\ Classify(Target[c]) = "cancellation_enqueued"}

\* The targets found now were all received from, every invoice can be classified,
\* and no cancellation to be taken over has failed.
MayCreate(p) ==
    /\ RequiredTargets \subseteq targets[p]
    /\ \A i \in Current : Classify(i) # "none"
    /\ \A c \in NeededCancellations : status[c] # "permanently_failed"

\* create_after_receive when no other drain won.
CreateDrain(p) ==
    /\ drainPc[p] = "create"
    /\ ~active
    /\ \/ /\ MayCreate(p)
          /\ Ledger!Freeze(Current, [i \in Current |-> Classify(i)])
          /\ status' = [r \in Rows |->
                IF r \in NeededCancellations /\ status[r] = "absent"
                THEN "queued" ELSE status[r]]
          /\ drainRequired' = [r \in Rows |->
                r \in NeededCancellations \/ drainRequired[r]]
       \/ /\ ~MayCreate(p)
          /\ UNCHANGED <<ledgerRow, settled, fenced, status, drainRequired>>
    /\ EndDrain(p)
    /\ UNCHANGED <<error, claimant, lease, clockVars, sdkVars, lifecycle, setupFence,
                   taskVars, reconVars, faults>>

\* validate_frozen_sets: the outbox rows of the drain's cancellations are marked as
\* required by a drain.
FrozenSetsStand ==
    \A c \in Cancellations :
        item[Target[c]] = "cancellation_enqueued" => drainRequired[c]

\* create_after_receive when another process created the drain meanwhile.
LoseCreate(p) ==
    /\ drainPc[p] = "create"
    /\ FrozenSetsStand
    /\ Ledger!Replay
    /\ EndDrain(p)
    /\ UNCHANGED <<deliveryVars, setupFence>>

ReplayDrain ==
    /\ FrozenSetsStand
    /\ Ledger!Replay
    /\ UNCHANGED <<vars, drainTask>>

CleanupDrain(t) ==
    /\ FrozenSetsStand
    /\ Ledger!Cleanup(t)
    /\ UNCHANGED <<vars, drainTask>>

-----------------------------------------------------------------------------
(***************************************************************************)
(* What the rest of the server does.                                       *)
(***************************************************************************)

\* Seeded fault: a reorganisation reopens a settled invoice.
ObservePaymentAgain(i) ==
    /\ status[i] # "absent"
    /\ \E s \in {"open", "timely"} : settled' = [settled EXCEPT ![i] = s]
    /\ UNCHANGED <<vars, ledgerRow, drainTask>>

\* A payment expires at its deadline, which is after the proposal's expiry.
ObservePayment(i) ==
    /\ status[i] # "absent"
    /\ Ledger!Settle(i)
    /\ settled'[i] = "expired" => i \in pastExpiry
    /\ UNCHANGED <<vars, drainTask>>

\* Seeded fault: invoice creation does not look for a drain.
CreateInvoiceAnyway(i) == Admit(i) /\ UNCHANGED drainVars

\* Invoice creation is refused while the lock's generation has a drain.
CreateInvoice(i) ==
    /\ ~active
    /\ Admit(i)
    /\ UNCHANGED drainVars

\* Account rotation cancels a request it found proposed; no drain requires that.
RotationCancels(p, c) ==
    /\ setupFence = Nobody
    /\ mutationLock[p] = "free"
    /\ EnqueueCancellation(c)
    /\ ~drainRequired'[c]
    /\ UNCHANGED drainVars

\* It retires a proposal, of which its receive and projection have just shown that
\* the SDK has no request (AccountRotation).
RotationSuppresses(p, i) ==
    /\ setupFence = Nobody
    /\ mutationLock[p] = "free"
    /\ request[i] = "none"
    /\ Suppress(i)
    /\ UNCHANGED drainVars

CrashProcess(p) ==
    /\ pc[p] # "idle" \/ reconPc[p] # "idle" \/ drainPc[p] # "idle"
    /\ Fault
    /\ EndTask(p)
    /\ EndRecon(p)
    /\ drainPc' = [drainPc EXCEPT ![p] = "idle"]
    /\ targets' = [targets EXCEPT ![p] = {}]
    /\ UNCHANGED <<rowVars, fenced, clockVars, sdkVars, lifecycle, ledgerRow, settled>>

DrainStep(p) == BeginDrain(p) \/ RefreshDrain(p) \/ CreateDrain(p) \/ LoseCreate(p)

DrainNext ==
    \/ ServerStep /\ UNCHANGED drainVars
    \/ \E p \in Processes : DrainStep(p) \/ CrashProcess(p)
    \/ ReplayDrain
    \/ \E t \in 1..MaxDrains : CleanupDrain(t)
    \/ \E i \in Proposals : ObservePayment(i) \/ CreateInvoice(i)
    \/ \E p \in Processes, c \in Cancellations : RotationCancels(p, c)
    \/ \E p \in Processes, i \in Proposals : RotationSuppresses(p, i)

DrainSpec == DrainInit /\ [][DrainNext]_allVars

-----------------------------------------------------------------------------
(***************************************************************************)
(* Properties.                                                             *)
(***************************************************************************)

\* The composition only ever takes steps the ledger allows
\* (create_after_receive, exact_replay, cleanup_completed).
ImplementsLedger == Ledger!LedgerSpec

\* Nothing that happens to the outbox and to payments while a drain is active makes
\* exact replay find its frozen sets or its counts changed, which it would report
\* as corruption (exact_replay, validate_frozen_sets).
ActiveDrainReplays == active => FrozenSetsStand /\ Ledger!ReplayAdmits

\* A request of a drained generation has its lifecycle row, so that no later
\* projection is refused for want of one (create_after_receive, apply).
FencedRequestHasLifecycle ==
    \A i \in fenced : request[i] # "none" => lifecycle[i] # "none"

\* A request that survives a drain as an open proposal is being withdrawn: a
\* cancellation that the drain requires is in the outbox and was not retired as
\* obsolete (create_inner, mark_cancellation_obsolete).
OpenRequestIsWithdrawn ==
    \A i \in fenced : request[i] = "proposed" /\ i \notin pastExpiry =>
        \E c \in Cancellations :
            /\ Target[c] = i
            /\ status[c] # "absent"
            /\ drainRequired[c]
            /\ error[c] # "cancellation_obsolete"

\* No invoice of the drained generation is left out of the frozen items, and
\* none joins while the drain is active (create_inner, the admission fence).
FrozenSetIsComplete ==
    active => \A i \in Proposals : status[i] # "absent" => i \in fenced
=============================================================================

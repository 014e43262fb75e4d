-------------------------- MODULE AccountRotation --------------------------
(***************************************************************************)
(* Replacing a Creator's Bitcoin account, composed with issuance           *)
(* (Issuance) and delivery (Outbox).                                       *)
(*                                                                         *)
(* A rotation takes the locks of a delivery task, receives from the        *)
(* Readers whose requests are open, then in one transaction voids          *)
(* preparations, retires proposals the SDK never saw, enqueues             *)
(* cancellations of open requests and installs the next account.           *)
(*                                                                         *)
(* An operation is named by its one proposal row.                          *)
(***************************************************************************)
EXTENDS Outbox

CONSTANTS Marketplace, OnBitcoin, MaxRotations   \* as in Issuance

VARIABLES
    generation, nextChild, quoted, account, child, recorded, prep, resolved,
    prepareLapsed, openTx,           \* these ten as in Issuance
    rotPc,       \* per process: idle, fence, refresh or commit
    rotTargets,  \* per process: the proposals it receives for
    rotFence     \* the process whose rotation holds the advisory lock, or Nobody

Published == {i \in Proposals : status[i] # "absent"}

Issue == INSTANCE Issuance WITH Operations <- Proposals, published <- Published

issueVars == <<generation, nextChild, quoted, account, child, recorded, prep, resolved,
               prepareLapsed, openTx>>
rotTask == <<rotPc, rotTargets, rotFence>>
allVars == <<vars, issueVars, rotTask>>

RotationInit ==
    /\ OutboxInit
    /\ Issue!IssuanceInit
    /\ rotPc = [p \in Processes |-> "idle"]
    /\ rotTargets = [p \in Processes |-> {}]
    /\ rotFence = Nobody

-----------------------------------------------------------------------------
(***************************************************************************)
(* Issuing.                                                                *)
(***************************************************************************)

ReadReceiving(i) == UNCHANGED <<vars, rotTask>> /\ Issue!ReadReceiving(i)

EndRequest(q) == UNCHANGED <<vars, rotTask>> /\ Issue!EndRequest(q)

CreateInvoice(q) == Admit(q[1]) /\ Issue!CreateInvoice(q) /\ UNCHANGED rotTask

Prepare(q) == UNCHANGED <<vars, rotTask>> /\ Issue!Prepare(q)

Activate(i) == Admit(i) /\ Issue!Activate(i) /\ UNCHANGED rotTask

\* The preparation's own row changes and no more.  A resolution after publication
\* writes what no step here reads again; Issuance has it.
ChangePreparation(i) ==
    /\ prep[i] = "prepared"
    /\ UNCHANGED <<vars, rotTask>>
    /\ \/ Issue!PrepareLapses(i)
       \/ \E operation \in {"activate", "void", "resolve"} :
            Issue!LockPreparation(i, operation)
       \/ Issue!Void(i)
       \/ Issue!Resolve(i)

AbortTransaction(t) == UNCHANGED <<vars, rotTask>> /\ Issue!AbortTransaction(t)

-----------------------------------------------------------------------------
(***************************************************************************)
(* Rotation.                                                               *)
(***************************************************************************)

\* Readers whose answers could change how a request is classified.
RotationTargets ==
    {i \in Proposals :
        /\ Issue!OnCurrent(i)
        /\ \/ status[i] \in {"handed_off", "delivered"} /\ lifecycle[i] = "none"
           \/ lifecycle[i] = "proposed"}

\* The Creator's advisory lock, which delivery tasks take too.
AcquireForRotation(p) ==
    /\ rotPc[p] = "idle"
    /\ setupFence = Nobody
    /\ rotFence = Nobody
    /\ rotFence' = p
    /\ rotPc' = [rotPc EXCEPT ![p] = "fence"]
    /\ UNCHANGED <<vars, issueVars, rotTargets>>

\* Seeded fault: the process's mutation lock is not taken.
LoadTargetsUnlocked(p) ==
    /\ rotPc[p] = "fence"
    /\ rotPc' = [rotPc EXCEPT ![p] = "refresh"]
    /\ rotTargets' = [rotTargets EXCEPT ![p] = RotationTargets]
    /\ UNCHANGED <<vars, issueVars, rotFence>>

\* Then the mutation lock, in the delivery tasks' order, and the targets.
LoadTargets(p) ==
    /\ rotPc[p] = "fence"
    /\ mutationLock[p] = "free"
    /\ mutationLock' = [mutationLock EXCEPT ![p] = "rotation"]
    /\ rotPc' = [rotPc EXCEPT ![p] = "refresh"]
    /\ rotTargets' = [rotTargets EXCEPT ![p] = RotationTargets]
    /\ UNCHANGED <<rowVars, fenced, clockVars, sdkVars, lifecycle, setupFence, taskVars,
                   reconVars, faults, issueVars, rotFence>>

\* Seeded fault: the mutation lock is not released.
EndRotationKeepsLock(p) ==
    /\ rotPc' = [rotPc EXCEPT ![p] = "idle"]
    /\ rotTargets' = [rotTargets EXCEPT ![p] = {}]
    /\ rotFence' = IF rotFence = p THEN Nobody ELSE rotFence
    /\ UNCHANGED mutationLock

EndRotation(p) ==
    /\ rotPc' = [rotPc EXCEPT ![p] = "idle"]
    /\ rotTargets' = [rotTargets EXCEPT ![p] = {}]
    /\ rotFence' = IF rotFence = p THEN Nobody ELSE rotFence
    /\ mutationLock' = [mutationLock EXCEPT ![p] = "free"]

\* reconcile_for_bitcoin_account_rotation: every target must answer, and every
\* record must be projected, or setup fails with what is known projected.
RefreshRotation(p) ==
    /\ rotPc[p] = "refresh"
    /\ \E S \in SUBSET rotTargets[p] :
        /\ request' = Received(S)
        /\ answer' = Consumed(S)
        /\ lifecycle' = Projected(Received(S))
        /\ \/ /\ S = rotTargets[p]
              /\ ~ProjectionRefused(Received(S))
              /\ rotPc' = [rotPc EXCEPT ![p] = "commit"]
              /\ UNCHANGED <<rotTargets, rotFence, mutationLock>>
           \/ EndRotation(p)
    /\ UNCHANGED <<rowVars, fenced, clockVars, message, setupFence, taskVars, reconVars,
                   faults, issueVars>>

\* Rows the rotation goes through: prepared rows are voided without one.
Owners == {i \in Proposals : Issue!OnCurrent(i) /\ (i \in Marketplace => prep[i] = "active")}

\* Seeded fault: a proposal is retired whatever is known of its request.
SuppressedAnyway ==
    {i \in Owners : status[i] \in {"queued", "retryable", "leased"}}

Suppressed ==
    {i \in Owners :
        lifecycle[i] = "none" /\ status[i] \in {"queued", "retryable", "leased"}}

\* Seeded fault: only requests already delivered are withdrawn.
WithdrawnDelivered ==
    {c \in Cancellations :
        Target[c] \in Owners /\ status[Target[c]] = "delivered"
        /\ lifecycle[Target[c]] = "proposed"}

Withdrawn ==
    {c \in Cancellations : Target[c] \in Owners /\ lifecycle[Target[c]] = "proposed"}

\* sdk_payment_request_id is written by the handoff and never cleared.
HasSdkId(i) ==
    status[i] \in {"handed_off", "delivered"} \/ error[i] = "permanent_sdk_reconciliation"

\* The evidence covers the targets found now, and no request that was handed off
\* is without a lifecycle row.
MayRotate(p) ==
    /\ RotationTargets \subseteq rotTargets[p]
    /\ \A i \in Owners : lifecycle[i] = "none" => ~HasSdkId(i)

\* Seeded fault: preparations of the replaced account stay prepared.
RotateKeepsPreparations(p) ==
    /\ MayRotate(p)
    /\ generation < MaxRotations
    /\ generation' = generation + 1
    /\ UNCHANGED <<status, error, claimant, lease, nextChild, quoted, account, child,
                   recorded, prep, resolved, prepareLapsed, openTx>>

\* rotate_bitcoin_account_after_receive.  The item it inserts for a row stands in
\* the row itself: an invoice or a preparation of the replaced account whose
\* proposal failed with bitcoin_account_rotated, or has a cancellation.
Rotate(p) ==
    /\ MayRotate(p)
    /\ status' = [r \in Rows |->
            IF r \in Suppressed THEN "permanently_failed"
            ELSE IF r \in Withdrawn /\ status[r] = "absent" THEN "queued" ELSE status[r]]
    /\ error' = [r \in Rows |->
            IF r \in Suppressed THEN "bitcoin_account_rotated" ELSE error[r]]
    /\ claimant' = [r \in Rows |-> IF r \in Suppressed THEN Nobody ELSE claimant[r]]
    /\ lease' = [r \in Rows |-> IF r \in Suppressed THEN 0 ELSE lease[r]]
    /\ Issue!InstallAccount

\* The transaction commits, or it is refused or fails and changes nothing.
CommitRotation(p) ==
    /\ rotPc[p] = "commit"
    /\ \/ Rotate(p)
       \/ UNCHANGED <<status, error, claimant, lease, issueVars>>
    /\ EndRotation(p)
    /\ UNCHANGED <<drainRequired, fenced, clockVars, sdkVars, lifecycle, setupFence,
                   taskVars, reconVars, faults>>

\* The advisory lock dies with its connection; setup does not notice.
RotationFenceLost(p) ==
    /\ rotFence = p
    /\ Fault
    /\ rotFence' = Nobody
    /\ UNCHANGED <<rowVars, fenced, clockVars, sdkVars, lifecycle, lockVars, taskVars,
                   reconVars, issueVars, rotPc, rotTargets>>

CrashProcess(p) ==
    /\ pc[p] # "idle" \/ reconPc[p] # "idle" \/ rotPc[p] # "idle"
    /\ Fault
    /\ EndTask(p)
    /\ EndRecon(p)
    /\ rotPc' = [rotPc EXCEPT ![p] = "idle"]
    /\ rotTargets' = [rotTargets EXCEPT ![p] = {}]
    /\ rotFence' = IF rotFence = p THEN Nobody ELSE rotFence
    /\ UNCHANGED <<rowVars, fenced, clockVars, sdkVars, lifecycle, issueVars>>

\* One advisory lock: a delivery task does not get it while a rotation holds it.
DeliveryStep ==
    /\ ServerStep
    /\ setupFence = Nobody /\ setupFence' # Nobody => rotFence = Nobody
    /\ UNCHANGED <<issueVars, rotTask>>

RotationStep(p) ==
    \/ AcquireForRotation(p)
    \/ LoadTargets(p)
    \/ RefreshRotation(p)
    \/ CommitRotation(p)
    \/ RotationFenceLost(p)
    \/ CrashProcess(p)

RotationNext ==
    \/ DeliveryStep
    \/ \E p \in Processes : RotationStep(p)
    \/ \E i \in Proposals : ReadReceiving(i)
    \/ \E q \in quoted : EndRequest(q) \/ CreateInvoice(q) \/ Prepare(q)
    \/ \E i \in Marketplace : Activate(i) \/ ChangePreparation(i)
    \/ \E t \in openTx : AbortTransaction(t)

RotationSpec == RotationInit /\ [][RotationNext]_allVars

\* A started task is scheduled until it ends, and the mutation lock is handed to
\* its waiters in order (a tokio Mutex).
RotationFairness ==
    \A p \in Processes :
        /\ SF_allVars(LoadTargets(p))
        /\ WF_allVars(RefreshRotation(p) \/ CommitRotation(p))
        /\ SF_allVars(DeliveryStep /\ (ClaimNothing(p) \/ \E r \in Rows : Claim(p, r)))
        /\ WF_allVars(/\ DeliveryStep
                      /\ \/ Open(p) \/ Refresh(p) \/ Check(p)
                         \/ Effect(p) \/ Mark(p) \/ Send(p))

FairRotationSpec == RotationSpec /\ RotationFairness

-----------------------------------------------------------------------------
(***************************************************************************)
(* Properties.                                                             *)
(***************************************************************************)

\* The composition takes only steps that issuance allows: no step of delivery or of
\* a rotation publishes or issues on its own (create_atomic, activate, prepare).
ImplementsIssuance == Issue!IssuanceSpec

\* Rotation retires only proposals the SDK never saw, and none of them reaches the
\* SDK afterwards, whatever task had claimed it
\* (rotate_bitcoin_account_after_receive).
SuppressedNeverProposed ==
    \A i \in Proposals : error[i] = "bitcoin_account_rotated" => request[i] = "none"

\* A request for a replaced account that a Reader could still accept has a
\* cancellation in the outbox (rotate_bitcoin_account_after_receive).
OldAccountIsWithdrawn ==
    \A i \in OnBitcoin \cap Issue!Issued :
        recorded[i] < generation /\ request[i] = "proposed" /\ i \notin pastExpiry =>
            \E c \in Cancellations : Target[c] = i /\ status[c] # "absent"

\* An accepted request outlives every rotation: the cancellation of a request
\* that turned out accepted is retired instead of sent
\* (mark_cancellation_obsolete).
AcceptedSurvivesRotation ==
    [][\A i \in Proposals : request[i] = "accepted" => request'[i] = "accepted"]_allVars

\* A rotation and a delivery task, which take the same two locks, never wait for
\* each other for ever: each that started ends (publish_readback_and_commit,
\* process_creator_outbox).
TasksEnd ==
    \A p \in Processes :
        /\ rotPc[p] # "idle" ~> rotPc[p] = "idle"
        /\ pc[p] # "idle" ~> pc[p] = "idle"
=============================================================================

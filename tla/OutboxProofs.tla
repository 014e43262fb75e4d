---------------------------- MODULE OutboxProofs ----------------------------
(***************************************************************************)
(* Safety of outbox delivery for any number of processes and rows, any     *)
(* lease duration and any number of faults.                                *)
(*                                                                         *)
(* The invariants that TLC checks speak of rows.  They are inductive only  *)
(* together with what a task carries between the step that learnt a fact   *)
(* and the step that records it: an outcome "handed_off" is backed by the  *)
(* SDK, a message seen as sent was sent, and a task that lost its lease    *)
(* cannot come to hold it again.                                           *)
(***************************************************************************)
EXTENDS Outbox, TLAPS

\* A task past its claim works on a row.
JobsAreRows ==
    \A p \in Processes :
        /\ pc[p] \notin {"idle", "fence"} => job[p] \in Rows
        /\ reconPc[p] # "idle" => reconJob[p] \in Rows

TypeInvariant == TypeOK /\ JobsAreRows

Backed(r) == message[r] # "none" /\ request[Owner(r)] # "none"

OutcomeIsBacked ==
    \A p \in Processes : pc[p] = "mark" /\ outcome[p] = "handed_off" => Backed(job[p])

SeenWasSent ==
    \A p \in Processes :
        reconPc[p] = "mark" /\ seen[p] = "sent" => message[reconJob[p]] = "sent"

LapsedLostLease ==
    \A p \in Processes :
        pc[p] = "mark" /\ outcome[p] = "lapsed" => ~HoldsLive(p, job[p], "leased")

ObsoleteIsFinal ==
    \A r \in Rows : error[r] = "cancellation_obsolete" => status[r] = "permanently_failed"

TaskSafe == OutcomeIsBacked /\ SeenWasSent /\ LapsedLostLease

RowSafe ==
    /\ ObsoleteIsFinal
    /\ HandedOffOwnsMessage
    /\ DeliveredWasSent
    /\ LapseNeverFailsRow
    /\ DrainCancellationNeverObsolete

OutboxInvariant == TypeInvariant /\ TaskSafe /\ RowSafe

-----------------------------------------------------------------------------

\* The row whose Reader is addressed is a proposal (Target).
LEMMA OwnerType == ASSUME NEW r \in Rows PROVE Owner(r) \in Proposals
BY OutboxAssumption DEF OutboxAssumption, Owner, Rows

\* Receiving keeps the types of what it writes and forgets no request
\* (receive_from_targets).
LEMMA ReceiveType ==
    ASSUME TypeOK, NEW S
    PROVE  /\ Received(S) \in [Proposals -> RequestState]
           /\ Consumed(S) \in [Proposals -> {"none", "accepted", "rejected", "received"}]
           /\ \A i \in Proposals : request[i] # "none" => Received(S)[i] # "none"
BY DEF TypeOK, Received, Consumed, RequestState

\* Projecting SDK records writes known lifecycle states
\* (PaymentRequestLifecycleStore::apply).
LEMMA ProjectType ==
    ASSUME TypeOK, NEW req \in [Proposals -> RequestState]
    PROVE  Projected(req) \in [Proposals -> LifecycleState]
BY DEF TypeOK, Projected, Observed, RequestState, LifecycleState

\* A pass of the SDK's sender creates no message, loses none and recalls none.
LEMMA TransmitType ==
    ASSUME TypeOK, NEW i, NEW m \in Transmitted(i)
    PROVE  /\ m \in [Rows -> MessageState]
           /\ \A r \in Rows : message[r] # "none" => m[r] # "none"
           /\ \A r \in Rows : message[r] = "sent" => m[r] = "sent"
BY DEF TypeOK, Transmitted, MessageState

\* What a finished task stores is a value of its column (mark_*, transition).
LEMMA MarkType ==
    ASSUME NEW o \in Outcome
    PROVE  MarkedStatus(o) \in RowStatus /\ MarkedError(o) \in ErrorClass
BY DEF Outcome, MarkedStatus, MarkedError, RowStatus, ErrorClass

-----------------------------------------------------------------------------

\* The typing invariant holds initially.
LEMMA TypeStarts == OutboxInit => TypeInvariant
BY OutboxAssumption DEF OutboxAssumption, OutboxInit, TypeInvariant, TypeOK, JobsAreRows,
    RowStatus, ErrorClass, RequestState, LifecycleState, MessageState, TaskPc, Outcome,
    LockHolder

\* Every step of a delivery task keeps the types (process_creator_outbox).
LEMMA TaskTypes ==
    ASSUME TypeInvariant, NEW p \in Processes, TaskStep(p)
    PROVE  TypeInvariant'
<1> USE DEF rowVars, clockVars, sdkVars, lockVars, taskVars, reconVars
<1>1. CASE AcquireSetupFence(p)
  BY <1>1, OutboxAssumption DEF OutboxAssumption, AcquireSetupFence, TaskPc, TypeInvariant, TypeOK, JobsAreRows
<1>2. CASE \E r \in Rows : Claim(p, r)
  BY <1>2, OutboxAssumption DEF OutboxAssumption, Claim, TaskPc, RowStatus, LockHolder, TypeInvariant, TypeOK, JobsAreRows
<1>3. CASE ClaimNothing(p)
  BY <1>3, OutboxAssumption DEF OutboxAssumption, ClaimNothing, TaskPc, TypeInvariant, TypeOK, JobsAreRows
<1>4. CASE Open(p)
  BY <1>4, OutboxAssumption DEF OutboxAssumption, Open, ToMark, ToStage, TaskPc, Outcome, TypeInvariant, TypeOK, JobsAreRows
<1>5. CASE Refresh(p)
  <2>1. Owner(job[p]) \in Proposals
    BY <1>5, OwnerType DEF Refresh, TypeInvariant, JobsAreRows
  <2>2. PICK S : /\ request' = Received(S)
                 /\ answer' = Consumed(S)
                 /\ lifecycle' = Projected(Received(S))
    BY <1>5 DEF Refresh
  <2>3. /\ request' \in [Proposals -> RequestState]
        /\ answer' \in [Proposals -> {"none", "accepted", "rejected", "received"}]
        /\ lifecycle' \in [Proposals -> LifecycleState]
    BY <2>2, ReceiveType, ProjectType DEF TypeInvariant
  <2>4. /\ pc' \in [Processes -> TaskPc]
        /\ outcome' \in [Processes -> Outcome]
        /\ \A q \in Processes : pc'[q] \notin {"idle", "fence"} => job[q] \in Rows
    BY <1>5 DEF Refresh, ToMark, ToStage, TaskPc, Outcome, TypeInvariant, TypeOK, JobsAreRows
  <2> QED
    BY <1>5, <2>3, <2>4 DEF Refresh, TypeInvariant, TypeOK, JobsAreRows
<1>6. CASE Check(p)
  BY <1>6, OutboxAssumption DEF OutboxAssumption, Check, ToMark, ToStage, TaskPc, Outcome, TypeInvariant, TypeOK, JobsAreRows
<1>7. CASE Effect(p)
  BY <1>7, OutboxAssumption DEF OutboxAssumption, Effect, Proposed, Canceled, ToMark, TaskPc, Outcome, RequestState, MessageState, TypeInvariant, TypeOK, JobsAreRows
<1>8. CASE Mark(p)
  <2>1. MarkedStatus(outcome[p]) \in RowStatus /\ MarkedError(outcome[p]) \in ErrorClass
    BY MarkType DEF TypeInvariant, TypeOK
  <2>2. /\ status' \in [Rows -> RowStatus]
        /\ error' \in [Rows -> ErrorClass]
        /\ claimant' \in [Rows -> Processes \cup {Nobody}]
        /\ lease' \in [Rows -> 0..LeaseTicks]
    BY <1>8, <2>1, OutboxAssumption DEF OutboxAssumption, Mark, TypeInvariant, TypeOK
  <2>3. /\ pc' \in [Processes -> TaskPc]
        /\ job' \in [Processes -> Rows \cup {Nobody}]
        /\ outcome' \in [Processes -> Outcome]
        /\ mutationLock' \in [Processes -> LockHolder]
        /\ setupFence' \in Processes \cup {Nobody}
        /\ \A q \in Processes : pc'[q] \notin {"idle", "fence"} => job'[q] \in Rows
    BY <1>8 DEF Mark, EndTask, TaskPc, Outcome, LockHolder, TypeInvariant, TypeOK, JobsAreRows
  <2> QED
    BY <1>8, <2>2, <2>3 DEF Mark, TypeInvariant, TypeOK, JobsAreRows
<1>9. CASE Send(p)
  <2>1. message' \in [Rows -> MessageState]
    BY <1>9, TransmitType DEF Send, TypeInvariant, TypeOK
  <2> QED
    BY <1>9, <2>1 DEF Send, EndTask, TaskPc, Outcome, LockHolder, TypeInvariant, TypeOK,
        JobsAreRows
<1>10. CASE Renew(p)
  BY <1>10, OutboxAssumption DEF OutboxAssumption, Renew, TypeInvariant, TypeOK, JobsAreRows
<1> QED
  BY <1>1, <1>2, <1>3, <1>4, <1>5, <1>6, <1>7, <1>8, <1>9, <1>10 DEF TaskStep

\* Every step of a reconciliation task keeps the types (process_reconciliation).
LEMMA ReconTypes ==
    ASSUME TypeInvariant, NEW p \in Processes, ReconStep(p)
    PROVE  TypeInvariant'
<1> USE DEF rowVars, clockVars, sdkVars, lockVars, taskVars, reconVars
<1>1. CASE \E r \in Rows : ReconClaim(p, r)
  BY <1>1, OutboxAssumption
    DEF OutboxAssumption, ReconClaim, TypeInvariant, TypeOK, JobsAreRows
<1>2. CASE ReconQuery(p)
  <2>1. reconJob[p] \in Rows
    BY <1>2 DEF ReconQuery, TypeInvariant, JobsAreRows
  <2>2. message' \in [Rows -> MessageState]
    BY <1>2, TransmitType DEF ReconQuery, TypeInvariant, TypeOK
  <2>3. seen' \in [Processes -> MessageState \cup {"unknown"}]
    BY <1>2, <2>1, <2>2 DEF ReconQuery, MessageState, TypeInvariant, TypeOK
  <2> QED
    BY <1>2, <2>2, <2>3 DEF ReconQuery, TypeInvariant, TypeOK, JobsAreRows
<1>3. CASE ReconMark(p)
  BY <1>3, OutboxAssumption
    DEF OutboxAssumption, ReconMark, ReconciledStatus, EndRecon, RowStatus, ErrorClass,
        TypeInvariant, TypeOK, JobsAreRows
<1> QED
  BY <1>1, <1>2, <1>3 DEF ReconStep

\* Faults keep the types.
LEMMA FaultTypes ==
    ASSUME TypeInvariant, NEW p \in Processes, FaultStep(p) \/ Crash(p)
    PROVE  TypeInvariant'
<1> USE DEF rowVars, clockVars, sdkVars, lockVars, taskVars, reconVars
<1>1. ASSUME Fault PROVE faults' \in 0..MaxFaults
  BY <1>1, OutboxAssumption DEF OutboxAssumption, Fault, TypeInvariant, TypeOK
<1>2. ASSUME EndTask(p)
      PROVE  /\ pc' \in [Processes -> TaskPc]
             /\ job' \in [Processes -> Rows \cup {Nobody}]
             /\ outcome' \in [Processes -> Outcome]
             /\ mutationLock' \in [Processes -> LockHolder]
             /\ setupFence' \in Processes \cup {Nobody}
             /\ \A q \in Processes : pc'[q] \notin {"idle", "fence"} => job'[q] \in Rows
  BY <1>2 DEF EndTask, TaskPc, Outcome, LockHolder, TypeInvariant, TypeOK, JobsAreRows
<1>3. ASSUME EndRecon(p)
      PROVE  /\ reconPc' \in [Processes -> {"idle", "query", "mark"}]
             /\ reconJob' \in [Processes -> Rows \cup {Nobody}]
             /\ seen' \in [Processes -> MessageState \cup {"unknown"}]
             /\ \A q \in Processes : reconPc'[q] # "idle" => reconJob'[q] \in Rows
  BY <1>3 DEF EndRecon, TypeInvariant, TypeOK, JobsAreRows
<1>4. CASE StorageError(p)
  BY <1>1, <1>2, <1>4, ZenonT(30) DEF StorageError, TypeInvariant, TypeOK, JobsAreRows
<1>5. CASE ReconStorageError(p)
  BY <1>1, <1>3, <1>5, ZenonT(30) DEF ReconStorageError, TypeInvariant, TypeOK, JobsAreRows
<1>6. CASE FenceLost(p)
  BY <1>1, <1>6, ZenonT(30) DEF FenceLost, TypeInvariant, TypeOK, JobsAreRows
<1>7. CASE Crash(p)
  BY <1>1, <1>2, <1>3, <1>7, ZenonT(30) DEF Crash, TypeInvariant, TypeOK, JobsAreRows
<1> QED
  BY <1>4, <1>5, <1>6, <1>7 DEF FaultStep

\* The SDK, the Readers and the clock keep the types.
LEMMA OutsideTypes ==
    ASSUME TypeInvariant, OutsideStep
    PROVE  TypeInvariant'
<1> USE DEF rowVars, clockVars, sdkVars, lockVars, taskVars, reconVars
<1>1. CASE \E i \in Proposals : ReaderAnswers(i) \/ PassExpiry(i) \/ PassDeadline(i)
  BY <1>1 DEF ReaderAnswers, PassExpiry, PassDeadline, TypeInvariant, TypeOK, JobsAreRows
<1>2. CASE \E p \in Processes, i \in Proposals : MaintainTransport(p, i)
  <2>1. /\ request' \in [Proposals -> RequestState]
        /\ answer' \in [Proposals -> {"none", "accepted", "rejected", "received"}]
        /\ message' \in [Rows -> MessageState]
    BY <1>2, ReceiveType, TransmitType DEF MaintainTransport, TypeInvariant, TypeOK
  <2> QED
    BY <1>2, <2>1 DEF MaintainTransport, TypeInvariant, TypeOK, JobsAreRows
<1>3. CASE \E p \in Processes : LifecyclePass(p)
  <2>1. /\ request' \in [Proposals -> RequestState]
        /\ answer' \in [Proposals -> {"none", "accepted", "rejected", "received"}]
        /\ lifecycle' \in [Proposals -> LifecycleState]
    BY <1>3, ReceiveType, ProjectType DEF LifecyclePass, TypeInvariant
  <2> QED
    BY <1>3, <2>1 DEF LifecyclePass, TypeInvariant, TypeOK, JobsAreRows
<1>4. CASE \E r \in Rows : LeaseTick(r)
  BY <1>4, OutboxAssumption
    DEF OutboxAssumption, LeaseTick, Fault, TypeInvariant, TypeOK, JobsAreRows
<1> QED
  BY <1>1, <1>2, <1>3, <1>4 DEF OutsideStep

\* What the rest of the server does to the rows.
Environment ==
    \/ \E i \in Proposals : Admit(i)
    \/ \E c \in Cancellations : EnqueueCancellation(c) \/ RequireForDrain(c)
    \/ \E p \in Processes, i \in Proposals : FenceGeneration(p, i)

Suppression == \E i \in Proposals : Suppress(i)

\* Admission, cancellation and fencing keep the types (create_atomic, create_inner).
LEMMA EnvironmentTypes ==
    ASSUME TypeInvariant, Environment
    PROVE  TypeInvariant'
<1> USE DEF rowFrame, restFrame, rowVars, clockVars, sdkVars, lockVars, taskVars, reconVars
<1>1. CASE \E i \in Proposals : Admit(i)
  <2>1. PICK i \in Proposals : Admit(i)
    BY <1>1
  <2>2. status' \in [Rows -> RowStatus]
    BY ZenonT(30), <2>1 DEF Admit, RowStatus, TypeInvariant, TypeOK
  <2> QED
    BY <2>1, <2>2, ZenonT(60) DEF Admit, TypeInvariant, TypeOK, JobsAreRows
<1>2. CASE \E c \in Cancellations : EnqueueCancellation(c)
  <2>1. PICK c \in Cancellations : EnqueueCancellation(c)
    BY <1>2
  <2>2. PICK b \in BOOLEAN : drainRequired' = [drainRequired EXCEPT ![c] = b]
    BY ZenonT(60), <2>1 DEF EnqueueCancellation
  <2>3. drainRequired \in [Rows -> BOOLEAN]
    BY DEF TypeInvariant, TypeOK
  <2>4. drainRequired' \in [Rows -> BOOLEAN]
    BY ZenonT(60), <2>2, <2>3
  <2>5. status' \in [Rows -> RowStatus]
    BY ZenonT(60), <2>1 DEF EnqueueCancellation, RowStatus, TypeInvariant, TypeOK
  <2> QED
    BY <2>1, <2>4, <2>5 DEF EnqueueCancellation, TypeInvariant, TypeOK, JobsAreRows
<1>3. CASE \E c \in Cancellations : RequireForDrain(c)
  <2>1. PICK c \in Cancellations : RequireForDrain(c)
    BY <1>3
  <2>2. drainRequired \in [Rows -> BOOLEAN]
    BY DEF TypeInvariant, TypeOK
  <2>3. drainRequired' \in [Rows -> BOOLEAN]
    BY <2>1, <2>2, Zenon DEF RequireForDrain
  <2> QED
    BY <2>1, <2>3, ZenonT(60) DEF RequireForDrain, TypeInvariant, TypeOK, JobsAreRows
<1>4. CASE \E p \in Processes, i \in Proposals : FenceGeneration(p, i)
  BY <1>4 DEF FenceGeneration, TypeInvariant, TypeOK, JobsAreRows
<1> QED
  BY <1>1, <1>2, <1>3, <1>4 DEF Environment

\* What suppression writes, and all it writes (rotate_bitcoin_account_after_receive).
LEMMA SuppressEffect ==
    ASSUME TypeOK, NEW i \in Proposals, Suppress(i)
    PROVE  /\ i \in Rows
           /\ status' = [status EXCEPT ![i] = "permanently_failed"]
           /\ error' = [error EXCEPT ![i] = "bitcoin_account_rotated"]
           /\ claimant' = [claimant EXCEPT ![i] = Nobody]
           /\ lease' = [lease EXCEPT ![i] = 0]
           /\ status' \in [Rows -> RowStatus]
           /\ error' \in [Rows -> ErrorClass]
           /\ claimant' \in [Rows -> Processes \cup {Nobody}]
           /\ lease' \in [Rows -> 0..LeaseTicks]
           /\ UNCHANGED <<drainRequired, fenced, clockVars, sdkVars, lifecycle, lockVars,
                          taskVars, reconVars, faults>>
<1>1. i \in Rows /\ LeaseTicks \in Nat
  BY OutboxAssumption DEF OutboxAssumption, Rows
<1>2. /\ status \in [Rows -> RowStatus]
      /\ error \in [Rows -> ErrorClass]
      /\ claimant \in [Rows -> Processes \cup {Nobody}]
      /\ lease \in [Rows -> 0..LeaseTicks]
  BY DEF TypeOK
<1>3. /\ status' = [status EXCEPT ![i] = "permanently_failed"]
      /\ error' = [error EXCEPT ![i] = "bitcoin_account_rotated"]
      /\ claimant' = [claimant EXCEPT ![i] = Nobody]
      /\ lease' = [lease EXCEPT ![i] = 0]
      /\ UNCHANGED <<drainRequired, fenced, restFrame>>
  BY ZenonT(30) DEF Suppress
<1>4. status' \in [Rows -> RowStatus] /\ error' \in [Rows -> ErrorClass]
  BY <1>1, <1>2, <1>3 DEF RowStatus, ErrorClass
<1>5. claimant' \in [Rows -> Processes \cup {Nobody}] /\ lease' \in [Rows -> 0..LeaseTicks]
  BY <1>1, <1>2, <1>3
<1> QED
  BY <1>1, <1>3, <1>4, <1>5, ZenonT(30) DEF restFrame

\* Suppression keeps the types (rotate_bitcoin_account_after_receive).
LEMMA SuppressTypes ==
    ASSUME TypeInvariant, Suppression
    PROVE  TypeInvariant'
<1>1. PICK i \in Proposals : Suppress(i)
  BY DEF Suppression
<1>2. TypeOK
  BY DEF TypeInvariant
<1> QED
  BY <1>1, <1>2, SuppressEffect, ZenonT(60)
    DEF clockVars, sdkVars, lockVars, taskVars, reconVars, TypeInvariant, TypeOK, JobsAreRows

\* Every step keeps the types.
LEMMA TypeInductive == TypeInvariant /\ [OutboxNext]_vars => TypeInvariant'
<1> SUFFICES ASSUME TypeInvariant, [OutboxNext]_vars PROVE TypeInvariant'
  OBVIOUS
<1>1. CASE UNCHANGED vars
  BY <1>1 DEF vars, rowVars, clockVars, sdkVars, lockVars, taskVars, reconVars,
      TypeInvariant, TypeOK, JobsAreRows
<1>2. CASE OutboxNext
  BY <1>2, TaskTypes, ReconTypes, FaultTypes, OutsideTypes, EnvironmentTypes, SuppressTypes
    DEF OutboxNext, ServerStep, Environment, Suppression
<1> QED
  BY <1>1, <1>2

\* Every column, lock and task variable stays within its type.
THEOREM OutboxTyped == OutboxSpec => []TypeOK
<1>1. OutboxSpec => []TypeInvariant
  BY TypeStarts, TypeInductive, PTL DEF OutboxSpec
<1>2. TypeInvariant => TypeOK
  BY DEF TypeInvariant
<1> QED
  BY <1>1, <1>2, PTL

-----------------------------------------------------------------------------
(***************************************************************************)
(* What the SDK remembers only grows.                                      *)
(***************************************************************************)

SdkGrows ==
    /\ \A r \in Rows : message[r] # "none" => message'[r] # "none"
    /\ \A r \in Rows : message[r] = "sent" => message'[r] = "sent"
    /\ \A i \in Proposals : request[i] # "none" => request'[i] # "none"

\* No step forgets a request or a message, or recalls one that was sent
\* (propose, cancel, receive and send in the SDK adapter).
LEMMA SdkOnlyGrows ==
    ASSUME TypeInvariant, OutboxNext
    PROVE  SdkGrows
<1> USE DEF rowVars, clockVars, sdkVars, lockVars, taskVars, reconVars
<1>1. ASSUME NEW p \in Processes, TaskStep(p)
      PROVE  SdkGrows
  <2>1. CASE Refresh(p)
    <3>1. PICK S : request' = Received(S)
      BY <2>1 DEF Refresh
    <3> QED
      BY <2>1, <3>1, ReceiveType DEF Refresh, SdkGrows, TypeInvariant
  <2>2. CASE Effect(p)
    <3>1. job[p] \in Rows
      BY <2>2 DEF Effect, TypeInvariant, JobsAreRows
    <3> QED
      BY <2>2, <3>1 DEF Effect, Proposed, Canceled, SdkGrows, TypeInvariant, TypeOK
  <2>3. CASE Send(p)
    BY <2>3, TransmitType DEF Send, SdkGrows, TypeInvariant
  <2>4. CASE UNCHANGED <<request, message>>
    BY <2>4 DEF SdkGrows
  <2> QED
    BY ZenonT(60), <1>1, <2>1, <2>2, <2>3, <2>4
      DEF TaskStep, AcquireSetupFence, Claim, ClaimNothing, Open, Check, Mark, Renew
<1>2. ASSUME NEW p \in Processes, ReconStep(p)
      PROVE  SdkGrows
  <2>1. CASE ReconQuery(p)
    BY ZenonT(30), <2>1, TransmitType DEF ReconQuery, SdkGrows, TypeInvariant
  <2>2. CASE UNCHANGED <<request, message>>
    BY <2>2 DEF SdkGrows
  <2> QED
    BY ZenonT(30), <1>2, <2>1, <2>2 DEF ReconStep, ReconClaim, ReconMark
<1>3. ASSUME NEW p \in Processes, FaultStep(p) \/ Crash(p)
      PROVE  SdkGrows
  BY <1>3 DEF FaultStep, StorageError, ReconStorageError, FenceLost, Crash, SdkGrows
<1>4. CASE OutsideStep
  <2>1. CASE \E p \in Processes, i \in Proposals : MaintainTransport(p, i)
    BY <2>1, ReceiveType, TransmitType DEF MaintainTransport, SdkGrows, TypeInvariant
  <2>2. CASE \E p \in Processes : LifecyclePass(p)
    BY <2>2, ReceiveType DEF LifecyclePass, SdkGrows, TypeInvariant
  <2>3. CASE UNCHANGED <<request, message>>
    BY <2>3 DEF SdkGrows
  <2> QED
    BY <1>4, <2>1, <2>2, <2>3
      DEF OutsideStep, ReaderAnswers, PassExpiry, PassDeadline, LeaseTick
<1>5. CASE Environment
  BY <1>5 DEF Environment, Admit, EnqueueCancellation, RequireForDrain, FenceGeneration,
      restFrame, SdkGrows
<1>6. CASE Suppression
  BY <1>6, SuppressEffect, ZenonT(30) DEF Suppression, TypeInvariant, SdkGrows
<1> QED
  BY <1>1, <1>2, <1>3, <1>4, <1>5, <1>6 DEF OutboxNext, ServerStep, Environment, Suppression

-----------------------------------------------------------------------------
(***************************************************************************)
(* What rows record.                                                       *)
(***************************************************************************)

rowFacts == <<status, error, drainRequired>>

\* Rows that a step leaves alone stay backed by an SDK that only grows.
LEMMA RowsKept ==
    ASSUME RowSafe, SdkGrows, UNCHANGED rowFacts
    PROVE  RowSafe'
BY OwnerType DEF rowFacts, RowSafe, ObsoleteIsFinal, HandedOffOwnsMessage, DeliveredWasSent,
    LapseNeverFailsRow, DrainCancellationNeverObsolete, SdkGrows, Rows

\* A claim takes no settled row (claim_matching).
LEMMA ClaimRows ==
    ASSUME OutboxInvariant, SdkGrows, NEW p \in Processes, NEW r \in Rows, Claim(p, r)
    PROVE  RowSafe'
BY OwnerType
  DEF OutboxInvariant, TypeInvariant, TypeOK, Claim, Due, RowSafe, ObsoleteIsFinal,
      HandedOffOwnsMessage, DeliveredWasSent, LapseNeverFailsRow,
      DrainCancellationNeverObsolete, SdkGrows, Rows

\* The final transition records what the task knows: a handoff is backed, a lapsed
\* task changes nothing, and an obsolete cancellation is one no drain requires
\* (mark_handed_off, transition, mark_cancellation_obsolete).
LEMMA MarkRows ==
    ASSUME OutboxInvariant, SdkGrows, NEW p \in Processes, Mark(p)
    PROVE  RowSafe'
<1>1. CASE ~MayMark(p)
  BY <1>1, RowsKept DEF Mark, rowFacts, OutboxInvariant
<1>2. CASE MayMark(p)
  <2> DEFINE r == job[p]
             o == outcome[p]
  <2>1. /\ r \in Rows /\ pc[p] = "mark" /\ o \in Outcome
        /\ HoldsLive(p, r, "leased")
        /\ o = "obsolete" => ~drainRequired[r]
        /\ status' = [status EXCEPT ![r] = MarkedStatus(o)]
        /\ error' = [error EXCEPT ![r] = MarkedError(o)]
        /\ drainRequired' = drainRequired
    BY <1>2 DEF Mark, MayMark, OutboxInvariant, TypeInvariant, TypeOK, JobsAreRows
  <2>2. o # "lapsed" /\ (o = "handed_off" => Backed(r))
    BY <2>1 DEF OutboxInvariant, TaskSafe, LapsedLostLease, OutcomeIsBacked
  <2>3. /\ MarkedError(o) # "lapsed"
        /\ MarkedError(o) = "cancellation_obsolete" =>
             o = "obsolete" /\ MarkedStatus(o) = "permanently_failed"
        /\ MarkedStatus(o) # "delivered"
        /\ MarkedStatus(o) = "handed_off" => o = "handed_off"
    BY <2>1, <2>2 DEF MarkedStatus, MarkedError, Outcome
  <2>4. \A x \in Rows : x # r =>
            status'[x] = status[x] /\ error'[x] = error[x]
    BY <2>1 DEF OutboxInvariant, TypeInvariant, TypeOK
  <2>5. status'[r] = MarkedStatus(o) /\ error'[r] = MarkedError(o)
    BY <2>1 DEF OutboxInvariant, TypeInvariant, TypeOK
  <2>6. ObsoleteIsFinal' /\ LapseNeverFailsRow'
    BY <2>3, <2>4, <2>5
      DEF OutboxInvariant, RowSafe, ObsoleteIsFinal, LapseNeverFailsRow
  <2>7. HandedOffOwnsMessage' /\ DeliveredWasSent'
    BY <2>2, <2>3, <2>4, <2>5, OwnerType
      DEF OutboxInvariant, RowSafe, HandedOffOwnsMessage, DeliveredWasSent, Backed, SdkGrows
  <2>8. DrainCancellationNeverObsolete'
    BY <2>1, <2>3, <2>4, <2>5
      DEF OutboxInvariant, RowSafe, DrainCancellationNeverObsolete, Rows
  <2> QED
    BY <2>6, <2>7, <2>8 DEF RowSafe
<1> QED
  BY <1>1, <1>2

\* Reconciliation makes a row delivered only for a message that was sent
\* (process_reconciliation, mark_delivered).
LEMMA ReconRows ==
    ASSUME OutboxInvariant, SdkGrows, NEW p \in Processes, ReconMark(p)
    PROVE  RowSafe'
<1> DEFINE r == reconJob[p]
<1>1. CASE ~HoldsLive(p, r, "handed_off")
  BY <1>1, RowsKept DEF ReconMark, rowFacts, OutboxInvariant
<1>2. CASE HoldsLive(p, r, "handed_off")
  <2>1. /\ r \in Rows /\ status[r] = "handed_off" /\ error \in [Rows -> ErrorClass]
        /\ status \in [Rows -> RowStatus]
        /\ drainRequired' = drainRequired
        /\ seen[p] = "sent" => message[r] = "sent"
    BY <1>2 DEF ReconMark, HoldsLive, OutboxInvariant, TypeInvariant, TypeOK, JobsAreRows,
        TaskSafe, SeenWasSent
  <2>2. /\ \A x \in Rows : x # r => status'[x] = status[x] /\ error'[x] = error[x]
        /\ status'[r] \in {"handed_off", "delivered", "permanently_failed"}
        /\ status'[r] = "delivered" => seen[p] = "sent"
        /\ error'[r] \in {"none", "retry", "permanent_sdk_reconciliation"}
    BY <1>2, <2>1 DEF ReconMark, ReconciledStatus
  <2>3. ObsoleteIsFinal' /\ LapseNeverFailsRow' /\ DrainCancellationNeverObsolete'
    BY <2>1, <2>2
      DEF OutboxInvariant, RowSafe, ObsoleteIsFinal, LapseNeverFailsRow,
          DrainCancellationNeverObsolete, Rows
  <2>4. HandedOffOwnsMessage' /\ DeliveredWasSent'
    BY <2>1, <2>2, OwnerType
      DEF OutboxInvariant, RowSafe, HandedOffOwnsMessage, DeliveredWasSent, SdkGrows
  <2> QED
    BY <2>3, <2>4 DEF RowSafe
<1> QED
  BY <1>1, <1>2

\* Admission, cancellation and a drain's takeover touch no settled row
\* (create_atomic, create_inner).
LEMMA EnvironmentRows ==
    ASSUME OutboxInvariant, SdkGrows, Environment
    PROVE  RowSafe'
<1> USE DEF rowFrame, restFrame
<1>1. ASSUME NEW r \in Rows, status[r] = "absent",
             status' = [status EXCEPT ![r] = "queued"], error' = error,
             \A x \in Rows : x # r => drainRequired'[x] = drainRequired[x]
      PROVE  RowSafe'
  BY <1>1, OwnerType
    DEF OutboxInvariant, TypeInvariant, TypeOK, RowSafe, ObsoleteIsFinal,
        HandedOffOwnsMessage, DeliveredWasSent, LapseNeverFailsRow,
        DrainCancellationNeverObsolete, SdkGrows, Rows
<1>2. CASE \E i \in Proposals : Admit(i)
  BY ZenonT(60), <1>1, <1>2 DEF Admit, Rows
<1>3. CASE \E c \in Cancellations : EnqueueCancellation(c)
  <2>1. PICK c \in Cancellations : EnqueueCancellation(c)
    BY <1>3
  <2>2. PICK b \in BOOLEAN : drainRequired' = [drainRequired EXCEPT ![c] = b]
    BY ZenonT(60), <2>1 DEF EnqueueCancellation
  <2>3. drainRequired \in [Rows -> BOOLEAN]
    BY DEF OutboxInvariant, TypeInvariant, TypeOK
  <2>4. \A x \in Rows : x # c => drainRequired'[x] = drainRequired[x]
    BY <2>2, <2>3
  <2>5. c \in Rows /\ status[c] = "absent" /\ error' = error
        /\ status' = [status EXCEPT ![c] = "queued"]
    BY <2>1 DEF EnqueueCancellation, Rows
  <2> QED
    BY ZenonT(60), <1>1, <2>4, <2>5
<1>4. CASE \E c \in Cancellations : RequireForDrain(c)
  BY <1>4, OwnerType
    DEF RequireForDrain, OutboxInvariant, TypeInvariant, TypeOK, RowSafe, ObsoleteIsFinal,
        HandedOffOwnsMessage, DeliveredWasSent, LapseNeverFailsRow,
        DrainCancellationNeverObsolete, SdkGrows, Rows
<1>5. CASE \E p \in Processes, i \in Proposals : FenceGeneration(p, i)
  BY <1>5, RowsKept DEF FenceGeneration, rowVars, rowFacts, OutboxInvariant
<1> QED
  BY <1>2, <1>3, <1>4, <1>5 DEF Environment

\* A suppressed row is neither handed off nor obsolete
\* (rotate_bitcoin_account_after_receive).
LEMMA SuppressRows ==
    ASSUME OutboxInvariant, SdkGrows, Suppression
    PROVE  RowSafe'
<1>1. PICK i \in Proposals : Suppress(i)
  BY DEF Suppression
<1>2. /\ i \in Rows /\ i \notin Cancellations
      /\ status' = [status EXCEPT ![i] = "permanently_failed"]
      /\ error' = [error EXCEPT ![i] = "bitcoin_account_rotated"]
      /\ drainRequired' = drainRequired
  BY <1>1, SuppressEffect, OutboxAssumption
    DEF OutboxAssumption, OutboxInvariant, TypeInvariant
<1>3. status \in [Rows -> RowStatus] /\ error \in [Rows -> ErrorClass]
  BY DEF OutboxInvariant, TypeInvariant, TypeOK
<1> QED
  BY <1>2, <1>3, OwnerType
    DEF OutboxInvariant, RowSafe, ObsoleteIsFinal, HandedOffOwnsMessage, DeliveredWasSent,
        LapseNeverFailsRow, DrainCancellationNeverObsolete, SdkGrows, Rows

\* Every step keeps what rows record true.
LEMMA RowsInductive ==
    ASSUME OutboxInvariant, OutboxNext
    PROVE  RowSafe'
<1> USE DEF rowVars, rowFacts
<1>1. SdkGrows /\ RowSafe
  BY SdkOnlyGrows DEF OutboxInvariant
<1>2. CASE UNCHANGED rowFacts
  BY <1>1, <1>2, RowsKept
<1>3. ASSUME NEW p \in Processes, TaskStep(p)
      PROVE  RowSafe'
  BY ZenonT(60), <1>1, <1>2, <1>3, ClaimRows, MarkRows
    DEF TaskStep, AcquireSetupFence, ClaimNothing, Open, Refresh, Check, Effect, Send, Renew
<1>4. ASSUME NEW p \in Processes, ReconStep(p)
      PROVE  RowSafe'
  BY ZenonT(60), <1>1, <1>2, <1>4, ReconRows DEF ReconStep, ReconClaim, ReconQuery
<1>5. ASSUME NEW p \in Processes, FaultStep(p) \/ Crash(p)
      PROVE  RowSafe'
  BY ZenonT(60), <1>2, <1>5 DEF FaultStep, StorageError, ReconStorageError, FenceLost, Crash
<1>6. CASE OutsideStep
  BY ZenonT(60), <1>2, <1>6 DEF OutsideStep, ReaderAnswers, PassExpiry, PassDeadline, MaintainTransport,
      LifecyclePass, LeaseTick
<1>7. CASE Environment
  BY <1>1, <1>7, EnvironmentRows
<1>8. CASE Suppression
  BY <1>1, <1>8, SuppressRows
<1> QED
  BY <1>3, <1>4, <1>5, <1>6, <1>7, <1>8
    DEF OutboxNext, ServerStep, Environment, Suppression

-----------------------------------------------------------------------------
(***************************************************************************)
(* What tasks carry.                                                       *)
(***************************************************************************)

\* A step that brings no task to its last stage.
DeliveryKept ==
    \A q \in Processes : pc'[q] = "mark" =>
        pc[q] = "mark" /\ job'[q] = job[q] /\ outcome'[q] = outcome[q]

ReconKept ==
    \A q \in Processes : reconPc'[q] = "mark" =>
        reconPc[q] = "mark" /\ reconJob'[q] = reconJob[q] /\ seen'[q] = seen[q]

\* A step that gives no lease to a task that is past its claim.
LeasesKept ==
    \A q \in Processes, r \in Rows :
        pc[q] = "mark" /\ HoldsLive(q, r, "leased")' => HoldsLive(q, r, "leased")

\* Reconciliation's knowledge outlives every step that does not replace it.
LEMMA SeenKept ==
    ASSUME TypeInvariant, SeenWasSent, SdkGrows, ReconKept
    PROVE  SeenWasSent'
BY ZenonT(60) DEF TypeInvariant, JobsAreRows, SeenWasSent, SdkGrows, ReconKept

\* A delivery task's knowledge outlives every step that does not replace it.
LEMMA OutcomesKept ==
    ASSUME TypeInvariant, TaskSafe, SdkGrows, DeliveryKept, LeasesKept
    PROVE  OutcomeIsBacked' /\ LapsedLostLease'
<1>1. \A q \in Processes : pc[q] = "mark" => job[q] \in Rows
  BY DEF TypeInvariant, JobsAreRows
<1>2. \A r \in Rows : Backed(r) => Backed(r)'
  BY OwnerType DEF Backed, SdkGrows, Owner
<1>3. OutcomeIsBacked'
  BY <1>1, <1>2 DEF TaskSafe, OutcomeIsBacked, DeliveryKept, Backed, Owner
<1>4. LapsedLostLease'
  BY <1>1 DEF TaskSafe, LapsedLostLease, DeliveryKept, LeasesKept, HoldsLive
<1> QED
  BY <1>3, <1>4

\* Each stage goes on or ends with an outcome.  Only a stage that saw the lease gone
\* ends with "lapsed", only Effect ends with "handed_off" (check_claim,
\* execute_claimed_handoff_with_guard).
LEMMA StageEnds ==
    ASSUME NEW p \in Processes, Open(p) \/ Refresh(p) \/ Check(p) \/ Effect(p)
    PROVE  \/ \E stage \in {"refresh", "check", "effect"} : ToStage(p, stage)
           \/ \E o \in Outcome :
                /\ ToMark(p, o)
                /\ o = "lapsed" => ~HoldsLive(p, job[p], "leased")
                /\ o = "handed_off" => Effect(p)
<1>1. CASE Open(p)
  BY <1>1, ZenonT(30) DEF Open, Outcome
<1>2. CASE Refresh(p)
  BY <1>2, ZenonT(30) DEF Refresh, Outcome
<1>3. CASE Check(p)
  BY <1>3, ZenonT(30) DEF Check, Outcome
<1>4. CASE Effect(p)
  <2>1. ToMark(p, "handed_off") \/ ToMark(p, "retryable") \/ ToMark(p, "permanent")
    BY <1>4, ZenonT(30) DEF Effect
  <2> QED
    BY <1>4, <2>1, ZenonT(30) DEF Outcome
<1> QED
  BY <1>1, <1>2, <1>3, <1>4

\* A task that reaches its last stage carries an outcome it may record: Effect alone
\* reports a handoff, and Check alone a lapse (execute_claimed_handoff_with_guard).
LEMMA OutcomesLearnt ==
    ASSUME OutboxInvariant, SdkGrows, NEW p \in Processes,
           Open(p) \/ Refresh(p) \/ Check(p) \/ Effect(p)
    PROVE  OutcomeIsBacked' /\ LapsedLostLease'
<1> USE DEF rowVars, ToMark, ToStage
<1>0. pc \in [Processes -> TaskPc] /\ outcome \in [Processes -> Outcome]
  BY DEF OutboxInvariant, TypeInvariant, TypeOK
<1>1. /\ job' = job /\ status' = status /\ claimant' = claimant /\ lease' = lease
      /\ \A q \in Processes : q # p => pc'[q] = pc[q] /\ outcome'[q] = outcome[q]
      /\ pc[p] # "mark" /\ job[p] \in Rows
  BY DEF Open, Refresh, Check, Effect, OutboxInvariant, TypeInvariant, TypeOK, JobsAreRows
<1>2. \A q \in Processes : pc[q] = "mark" => job[q] \in Rows
  BY ZenonT(30) DEF OutboxInvariant, TypeInvariant, JobsAreRows
<1>3. \A r \in Rows : Backed(r) => Backed(r)'
  BY ZenonT(60), OwnerType DEF Backed, SdkGrows, Owner
<1>4. pc'[p] = "mark" /\ outcome'[p] = "handed_off" => Backed(job[p])'
  <2>1. CASE Effect(p)
    <3> DEFINE r == job[p]
    <3>1. CASE r \in Proposals /\ Proposed(r)
      <4>1. request \in [Proposals -> RequestState] /\ message \in [Rows -> MessageState]
        BY DEF OutboxInvariant, TypeInvariant, TypeOK
      <4>2. request'[r] # "none" /\ message'[r] # "none"
        BY ZenonT(30), <1>1, <3>1, <4>1 DEF Proposed
      <4> QED
        BY ZenonT(30), <1>1, <3>1, <4>2 DEF Backed, Owner
    <3>2. CASE r \notin Proposals /\ Canceled(r)
      <4>1. r \in Cancellations /\ Target[r] \in Proposals
        BY ZenonT(30), <1>1, <3>2, OutboxAssumption DEF OutboxAssumption, Rows
      <4>2. request \in [Proposals -> RequestState] /\ message \in [Rows -> MessageState]
        BY DEF OutboxInvariant, TypeInvariant, TypeOK
      <4>3. request'[Target[r]] = "canceled" /\ message'[r] # "none"
        BY <1>1, <3>2, <4>1, <4>2 DEF Canceled
      <4> QED
        BY ZenonT(30), <1>1, <3>2, <4>3 DEF Backed, Owner
    <3>3. CASE UNCHANGED <<request, message>> /\ (ToMark(p, "retryable") \/ ToMark(p, "permanent"))
      BY <3>3 DEF OutboxInvariant, TypeInvariant, TypeOK
    <3> QED
      BY <2>1, <3>1, <3>2, <3>3 DEF Effect
  <2>2. CASE ~Effect(p)
    BY <1>0, <2>2, StageEnds DEF Outcome
  <2> QED
    BY ZenonT(30), <2>1, <2>2
<1>5. pc'[p] = "mark" /\ outcome'[p] = "lapsed" => ~HoldsLive(p, job[p], "leased")
  BY <1>0, StageEnds DEF Outcome
<1>6. OutcomeIsBacked'
  BY ZenonT(60), <1>1, <1>2, <1>3, <1>4
    DEF OutcomeIsBacked, OutboxInvariant, TaskSafe, Backed, Owner
<1>7. LapsedLostLease'
  BY ZenonT(60), <1>1, <1>5 DEF LapsedLostLease, OutboxInvariant, TaskSafe, HoldsLive
<1> QED
  BY <1>6, <1>7

\* Every step keeps what tasks carry true.
LEMMA TasksInductive ==
    ASSUME OutboxInvariant, OutboxNext
    PROVE  TaskSafe'
<1> USE DEF rowVars, taskVars, reconVars
<1>1. SdkGrows /\ TypeInvariant /\ TypeOK /\ SeenWasSent
  BY SdkOnlyGrows DEF OutboxInvariant, TypeInvariant, TaskSafe
<1>2. CASE DeliveryKept /\ LeasesKept /\ ReconKept
  BY <1>1, <1>2, OutcomesKept, SeenKept DEF OutboxInvariant, TaskSafe
<1>3. ASSUME NEW p \in Processes, TaskStep(p)
      PROVE  TaskSafe'
  <2>1. ReconKept
    BY ZenonT(60), <1>3 DEF TaskStep, AcquireSetupFence, Claim, ClaimNothing, Open, Refresh, Check,
        Effect, Mark, Send, Renew, ReconKept
  <2>2. CASE Open(p) \/ Refresh(p) \/ Check(p) \/ Effect(p)
    BY <1>1, <2>1, <2>2, OutcomesLearnt, SeenKept DEF TaskSafe
  <2>3. CASE AcquireSetupFence(p) \/ ClaimNothing(p) \/ Send(p)
    BY <1>1, <1>2, <2>1, <2>3
      DEF AcquireSetupFence, ClaimNothing, Send, EndTask, DeliveryKept, LeasesKept, HoldsLive,
          TypeOK
  <2>4. CASE \E r \in Rows : Claim(p, r)
    <3>1. DeliveryKept
      BY <1>1, <2>4 DEF Claim, DeliveryKept, TypeOK
    <3>2. LeasesKept
      BY <1>1, <2>4 DEF Claim, LeasesKept, HoldsLive, TypeOK
    <3> QED
      BY <1>2, <2>1, <3>1, <3>2
  <2>5. CASE Mark(p)
    <3>1. DeliveryKept
      BY <1>1, <2>5 DEF Mark, EndTask, DeliveryKept, TypeOK
    <3>2. LeasesKept
      BY <1>1, <2>5, OutboxAssumption DEF OutboxAssumption, Mark, LeasesKept, HoldsLive, TypeOK
    <3> QED
      BY <1>2, <2>1, <3>1, <3>2
  <2>6. CASE Renew(p)
    BY <1>1, <1>2, <2>1, <2>6 DEF Renew, DeliveryKept, LeasesKept, HoldsLive, TypeOK
  <2> QED
    BY <1>3, <2>2, <2>3, <2>4, <2>5, <2>6 DEF TaskStep
<1>4. ASSUME NEW p \in Processes, ReconStep(p)
      PROVE  TaskSafe'
  <2>1. DeliveryKept
    BY <1>4 DEF ReconStep, ReconClaim, ReconQuery, ReconMark, DeliveryKept
  <2>2. CASE \E r \in Rows : ReconClaim(p, r)
    BY <1>1, <1>2, <2>1, <2>2
      DEF ReconClaim, ReconDue, ReconKept, LeasesKept, HoldsLive, TypeOK
  <2>3. CASE ReconQuery(p)
    <3>1. LeasesKept
      BY ZenonT(60), <2>3 DEF ReconQuery, LeasesKept, HoldsLive
    <3>2. reconJob' = reconJob /\ reconJob[p] \in Rows
      BY ZenonT(30), <1>1, <2>3 DEF ReconQuery, TypeInvariant, JobsAreRows
    <3>3. seen'[p] = "sent" => message'[reconJob[p]] = "sent"
      BY <1>1, <2>3 DEF ReconQuery, TypeOK
    <3>4. \A q \in Processes : q # p => reconPc'[q] = reconPc[q] /\ seen'[q] = seen[q]
      BY <1>1, <2>3 DEF ReconQuery, TypeOK
    <3>5. SeenWasSent'
      BY ZenonT(30), <1>1, <3>2, <3>3, <3>4 DEF SeenWasSent, SdkGrows, TypeInvariant, JobsAreRows
    <3> QED
      BY <1>1, <2>1, <3>1, <3>5, OutcomesKept DEF OutboxInvariant, TaskSafe
  <2>4. CASE ReconMark(p)
    <3>1. ReconKept
      BY <1>1, <2>4 DEF ReconMark, EndRecon, ReconKept, TypeOK
    <3>2. LeasesKept
      BY <1>1, <2>4, OutboxAssumption
        DEF OutboxAssumption, ReconMark, LeasesKept, HoldsLive, TypeOK
    <3> QED
      BY <1>2, <2>1, <3>1, <3>2
  <2> QED
    BY <1>4, <2>2, <2>3, <2>4 DEF ReconStep
<1>5. ASSUME NEW p \in Processes, FaultStep(p) \/ Crash(p)
      PROVE  TaskSafe'
  <2>1. DeliveryKept /\ ReconKept
    BY <1>1, <1>5 DEF FaultStep, StorageError, ReconStorageError, FenceLost, Crash, EndTask,
        EndRecon, DeliveryKept, ReconKept, TypeOK
  <2>2. LeasesKept
    BY ZenonT(60), <1>5 DEF FaultStep, StorageError, ReconStorageError, FenceLost, Crash, LeasesKept,
        HoldsLive
  <2> QED
    BY <1>2, <2>1, <2>2
<1>6. CASE OutsideStep
  <2>1. DeliveryKept /\ ReconKept
    BY ZenonT(60), <1>6 DEF OutsideStep, ReaderAnswers, PassExpiry, PassDeadline, MaintainTransport,
        LifecyclePass, LeaseTick, DeliveryKept, ReconKept
  <2>2. CASE \E r \in Rows : LeaseTick(r)
    BY <1>1, <1>2, <2>1, <2>2, OutboxAssumption
      DEF OutboxAssumption, LeaseTick, LeasesKept, HoldsLive, TypeOK
  <2>3. CASE UNCHANGED rowVars
    BY <1>2, <2>1, <2>3 DEF LeasesKept, HoldsLive
  <2> QED
    BY ZenonT(60), <1>6, <2>2, <2>3 DEF OutsideStep, ReaderAnswers, PassExpiry, PassDeadline,
        MaintainTransport, LifecyclePass
<1>7. CASE Environment
  <2>1. UNCHANGED <<pc, job, outcome, reconPc, reconJob, seen, claimant, lease>>
    BY <1>7, ZenonT(60) DEF Environment, Admit, EnqueueCancellation, RequireForDrain,
        FenceGeneration, rowFrame, restFrame, taskVars, reconVars
  <2>2. \A r \in Rows : status'[r] = "leased" => status[r] = "leased"
    <3>1. status \in [Rows -> RowStatus]
      BY <1>1 DEF TypeOK
    <3>2. UNCHANGED status \/ \E x \in Rows : status' = [status EXCEPT ![x] = "queued"]
      BY <1>7, ZenonT(60) DEF Environment, Admit, EnqueueCancellation, RequireForDrain,
          FenceGeneration, Rows
    <3> QED
      BY <3>1, <3>2
  <2>3. DeliveryKept /\ ReconKept /\ LeasesKept
    BY <2>1, <2>2 DEF DeliveryKept, ReconKept, LeasesKept, HoldsLive
  <2> QED
    BY <1>2, <2>3
<1>8. CASE Suppression
  <2>1. PICK i \in Proposals : Suppress(i)
    BY <1>8 DEF Suppression
  <2>2. /\ UNCHANGED <<pc, job, outcome, reconPc, reconJob, seen>>
        /\ status' = [status EXCEPT ![i] = "permanently_failed"]
        /\ claimant' = [claimant EXCEPT ![i] = Nobody]
        /\ lease' = [lease EXCEPT ![i] = 0]
        /\ i \in Rows
    BY <1>1, <2>1, SuppressEffect
  <2>3. /\ status \in [Rows -> RowStatus]
        /\ claimant \in [Rows -> Processes \cup {Nobody}]
        /\ lease \in [Rows -> 0..LeaseTicks]
    BY <1>1 DEF TypeOK
  <2>4. LeasesKept
    BY <2>2, <2>3 DEF LeasesKept, HoldsLive
  <2>5. DeliveryKept /\ ReconKept
    BY <2>2 DEF DeliveryKept, ReconKept
  <2> QED
    BY <1>2, <2>4, <2>5
<1> QED
  BY <1>3, <1>4, <1>5, <1>6, <1>7, <1>8
    DEF OutboxNext, ServerStep, Environment, Suppression

-----------------------------------------------------------------------------
(***************************************************************************)
(* The invariant, and what follows from it.                                *)
(***************************************************************************)

\* The strengthened invariant holds initially.
LEMMA OutboxStarts == OutboxInit => OutboxInvariant
<1> SUFFICES ASSUME OutboxInit PROVE OutboxInvariant
  OBVIOUS
<1>1. TypeInvariant
  BY TypeStarts
<1>2. TaskSafe
  BY DEF OutboxInit, TaskSafe, OutcomeIsBacked, SeenWasSent, LapsedLostLease
<1>3. RowSafe
  BY DEF OutboxInit, RowSafe, ObsoleteIsFinal, HandedOffOwnsMessage, DeliveredWasSent,
      LapseNeverFailsRow, DrainCancellationNeverObsolete, Rows
<1> QED
  BY <1>1, <1>2, <1>3 DEF OutboxInvariant

\* Every step keeps the strengthened invariant.
LEMMA OutboxInductive == OutboxInvariant /\ [OutboxNext]_vars => OutboxInvariant'
<1> SUFFICES ASSUME OutboxInvariant, [OutboxNext]_vars PROVE OutboxInvariant'
  OBVIOUS
<1>1. CASE OutboxNext
  BY <1>1, TypeInductive, TasksInductive, RowsInductive DEF OutboxInvariant
<1>2. CASE UNCHANGED vars
  BY <1>2, ZenonT(60) DEF vars, rowVars, clockVars, sdkVars, lockVars, taskVars, reconVars,
      OutboxInvariant, TypeInvariant, TypeOK, JobsAreRows, TaskSafe, OutcomeIsBacked, Backed,
      Owner, SeenWasSent, LapsedLostLease, HoldsLive, RowSafe, ObsoleteIsFinal,
      HandedOffOwnsMessage, DeliveredWasSent, LapseNeverFailsRow,
      DrainCancellationNeverObsolete
<1> QED
  BY <1>1, <1>2

\* The strengthened invariant holds throughout.
LEMMA OutboxInvariantHolds == OutboxSpec => []OutboxInvariant
BY OutboxStarts, OutboxInductive, PTL DEF OutboxSpec

\* A row recorded as handed off or delivered has its message and its request in the
\* SDK, through crashes, ambiguous calls and lost leases (mark_handed_off).
THEOREM HandoffIsBacked == OutboxSpec => []HandedOffOwnsMessage
<1>1. OutboxInvariant => HandedOffOwnsMessage
  BY DEF OutboxInvariant, RowSafe
<1> QED
  BY <1>1, OutboxInvariantHolds, PTL

\* Only a message the SDK sent makes a row delivered (mark_delivered).
THEOREM DeliveryIsSent == OutboxSpec => []DeliveredWasSent
<1>1. OutboxInvariant => DeliveredWasSent
  BY DEF OutboxInvariant, RowSafe
<1> QED
  BY <1>1, OutboxInvariantHolds, PTL

\* A task that lost its lease fails no row, although it reports Permanent
\* (check_claim, transition).
THEOREM LapseIsHarmless == OutboxSpec => []LapseNeverFailsRow
<1>1. OutboxInvariant => LapseNeverFailsRow
  BY DEF OutboxInvariant, RowSafe
<1> QED
  BY <1>1, OutboxInvariantHolds, PTL

\* A cancellation that a drain requires is never retired as obsolete
\* (mark_cancellation_obsolete).
THEOREM DrainCancellationStands == OutboxSpec => []DrainCancellationNeverObsolete
<1>1. OutboxInvariant => DrainCancellationNeverObsolete
  BY DEF OutboxInvariant, RowSafe
<1> QED
  BY <1>1, OutboxInvariantHolds, PTL

-----------------------------------------------------------------------------
(***************************************************************************)
(* Claims.                                                                 *)
(***************************************************************************)

\* Only a row that a task may work on has a lease.
LeasesAreWork == \A r \in Rows : status[r] \notin {"leased", "handed_off"} => lease[r] = 0

\* Every transition that ends a claim clears its lease (transition,
\* reconciliation_transition).
LEMMA LeasesInductive ==
    TypeInvariant /\ LeasesAreWork /\ [OutboxNext]_vars => LeasesAreWork'
<1> SUFFICES ASSUME TypeInvariant, LeasesAreWork, [OutboxNext]_vars PROVE LeasesAreWork'
  OBVIOUS
<1> USE DEF rowVars
<1>1. TypeOK
  BY DEF TypeInvariant
<1>2. CASE UNCHANGED <<status, lease>>
  BY <1>2 DEF LeasesAreWork
<1>3. ASSUME NEW p \in Processes, TaskStep(p)
      PROVE  LeasesAreWork'
  <2>1. CASE \E r \in Rows : Claim(p, r)
    BY <1>1, <2>1 DEF Claim, LeasesAreWork, TypeOK
  <2>2. CASE Mark(p)
    <3>1. job[p] \in Rows
      BY ZenonT(30), <2>2 DEF Mark, TypeInvariant, JobsAreRows
    <3>2. CASE UNCHANGED <<status, lease>>
      BY <1>2, <3>2
    <3>3. CASE /\ status' = [status EXCEPT ![job[p]] = MarkedStatus(outcome[p])]
               /\ lease' = [lease EXCEPT ![job[p]] = 0]
      <4>1. status \in [Rows -> RowStatus] /\ lease \in [Rows -> 0..LeaseTicks]
        BY <1>1 DEF TypeOK
      <4> QED
        BY <3>1, <3>3, <4>1 DEF LeasesAreWork
    <3> QED
      BY <2>2, <3>2, <3>3, ZenonT(30) DEF Mark
  <2>3. CASE Renew(p)
    BY <1>1, <2>3 DEF Renew, HoldsLive, LeasesAreWork, TypeOK
  <2> QED
    BY ZenonT(60), <1>2, <1>3, <2>1, <2>2, <2>3
      DEF TaskStep, AcquireSetupFence, ClaimNothing, Open, Refresh, Check, Effect, Send
<1>4. ASSUME NEW p \in Processes, ReconStep(p)
      PROVE  LeasesAreWork'
  <2>1. CASE \E r \in Rows : ReconClaim(p, r)
    BY <1>1, <2>1 DEF ReconClaim, ReconDue, LeasesAreWork, TypeOK
  <2>2. CASE ReconMark(p)
    BY <1>1, <1>2, <2>2 DEF ReconMark, LeasesAreWork, TypeOK
  <2> QED
    BY ZenonT(60), <1>2, <1>4, <2>1, <2>2 DEF ReconStep, ReconQuery
<1>5. ASSUME NEW p \in Processes, FaultStep(p) \/ Crash(p)
      PROVE  LeasesAreWork'
  BY ZenonT(60), <1>2, <1>5 DEF FaultStep, StorageError, ReconStorageError, FenceLost, Crash
<1>6. CASE OutsideStep
  <2>1. CASE \E r \in Rows : LeaseTick(r)
    BY <1>1, <2>1, OutboxAssumption DEF OutboxAssumption, LeaseTick, LeasesAreWork, TypeOK
  <2> QED
    BY ZenonT(60), <1>2, <1>6, <2>1 DEF OutsideStep, ReaderAnswers, PassExpiry, PassDeadline,
        MaintainTransport, LifecyclePass
<1>7. CASE Environment
  BY ZenonT(60), <1>1, <1>7 DEF Environment, Admit, EnqueueCancellation, RequireForDrain,
      FenceGeneration, rowFrame, LeasesAreWork, TypeOK
<1>8. CASE UNCHANGED vars
  BY <1>2, <1>8 DEF vars
<1>9. CASE Suppression
  <2>1. PICK i \in Proposals : Suppress(i)
    BY <1>9 DEF Suppression
  <2>2. /\ status' = [status EXCEPT ![i] = "permanently_failed"]
        /\ lease' = [lease EXCEPT ![i] = 0]
        /\ claimant' = [claimant EXCEPT ![i] = Nobody]
        /\ i \in Rows
    BY <1>1, <2>1, SuppressEffect
  <2>3. /\ status \in [Rows -> RowStatus]
        /\ claimant \in [Rows -> Processes \cup {Nobody}]
        /\ lease \in [Rows -> 0..LeaseTicks]
    BY <1>1 DEF TypeOK
  <2> QED
    BY <2>2, <2>3 DEF LeasesAreWork
<1> QED
  BY <1>3, <1>4, <1>5, <1>6, <1>7, <1>8, <1>9
    DEF OutboxNext, ServerStep, Environment, Suppression

\* One step takes a live claim only from a task that ends it.
ClaimStep ==
    \A r \in Rows, p \in Processes :
        claimant[r] = p /\ lease[r] > 0 /\ claimant'[r] # p =>
            /\ claimant'[r] = Nobody
            /\ \/ pc[p] = "mark" /\ job[p] = r /\ pc'[p] # "mark"
               \/ reconPc[p] = "mark" /\ reconJob[p] = r /\ reconPc'[p] = "idle"
               \/ status'[r] = "permanently_failed" /\ error'[r] = "bitcoin_account_rotated"

\* A live claim ends only by its own task's transition or with a proposal account
\* rotation retires, however many processes compete for the row (claim_matching,
\* transition, rotate_bitcoin_account_after_receive).
THEOREM ClaimsAreStable == OutboxSpec => ClaimIsStable
<1>1. TypeInvariant /\ LeasesAreWork /\ [OutboxNext]_vars => [ClaimStep]_vars
  <2> SUFFICES ASSUME TypeInvariant, LeasesAreWork, OutboxNext PROVE ClaimStep
    OBVIOUS
  <2> USE DEF rowVars
  <2>1. /\ TypeOK
        /\ Nobody \notin Processes
        /\ claimant \in [Rows -> Processes \cup {Nobody}]
    BY OutboxAssumption DEF OutboxAssumption, TypeInvariant, TypeOK
  <2>2. CASE UNCHANGED claimant
    BY <2>2, Zenon DEF ClaimStep
  <2>3. ASSUME NEW q \in Processes, TaskStep(q)
        PROVE  ClaimStep
    <3>1. ASSUME NEW x \in Rows, Claim(q, x)
          PROVE  ClaimStep
      <4>1. claimant' = [claimant EXCEPT ![x] = q]
        BY <3>1 DEF Claim
      <4>2. lease[x] = 0
        BY <3>1 DEF Claim, Due, LeasesAreWork
      <4>3. \A r \in Rows : r # x => claimant'[r] = claimant[r]
        BY <2>1, <4>1
      <4>4. ~(lease[x] > 0)
        BY <4>2
      <4> QED
        BY <4>3, <4>4, Zenon DEF ClaimStep
    <3>2. ASSUME Mark(q), MayMark(q)
          PROVE  ClaimStep
      <4>1. claimant' = [claimant EXCEPT ![job[q]] = Nobody]
        BY <3>2, ZenonT(60) DEF Mark
      <4>2. pc[q] = "mark" /\ pc'[q] # "mark" /\ claimant[job[q]] = q
        <5>1. pc \in [Processes -> TaskPc]
          BY <2>1 DEF TypeOK
        <5> QED
          BY <3>2, <5>1 DEF Mark, MayMark, HoldsLive, EndTask
      <4> QED
        BY <2>1, <4>1, <4>2 DEF ClaimStep
    <3>3. CASE Mark(q) /\ ~MayMark(q)
      BY <2>2, <3>3, ZenonT(60) DEF Mark
    <3> QED
      BY <2>2, <2>3, <3>1, <3>2, <3>3, ZenonT(60)
        DEF TaskStep, AcquireSetupFence, ClaimNothing, Open, Refresh, Check, Effect, Send,
            Renew
  <2>4. ASSUME NEW q \in Processes, ReconStep(q)
        PROVE  ClaimStep
    <3>1. ASSUME NEW x \in Rows, ReconClaim(q, x)
          PROVE  ClaimStep
      <4>1. claimant' = [claimant EXCEPT ![x] = q]
        BY <3>1 DEF ReconClaim
      <4>2. claimant[x] = Nobody \/ ~(lease[x] > 0)
        BY <3>1 DEF ReconClaim, ReconDue
      <4>3. \A r \in Rows : r # x => claimant'[r] = claimant[r]
        BY <2>1, <4>1
      <4> QED
        BY <2>1, <4>2, <4>3, Zenon DEF ClaimStep
    <3>2. ASSUME ReconMark(q), UNCHANGED claimant
          PROVE  ClaimStep
      BY <2>2, <3>2, Zenon
    <3>3. ASSUME ReconMark(q), claimant' = [claimant EXCEPT ![reconJob[q]] = Nobody],
                 claimant[reconJob[q]] = q
          PROVE  ClaimStep
      <4>1. reconPc[q] = "mark" /\ reconPc'[q] = "idle"
        <5>1. reconPc \in [Processes -> {"idle", "query", "mark"}]
          BY <2>1 DEF TypeOK
        <5> QED
          BY <3>3, <5>1 DEF ReconMark, EndRecon
      <4> QED
        BY <2>1, <3>3, <4>1 DEF ClaimStep
    <3> QED
      BY <2>2, <2>4, <3>1, <3>2, <3>3, ZenonT(60) DEF ReconStep, ReconQuery, ReconMark, HoldsLive
  <2>5. ASSUME NEW q \in Processes, FaultStep(q) \/ Crash(q)
        PROVE  ClaimStep
    BY <2>2, <2>5 DEF FaultStep, StorageError, ReconStorageError, FenceLost, Crash
  <2>6. CASE OutsideStep
    BY ZenonT(60), <2>2, <2>6 DEF OutsideStep, ReaderAnswers, PassExpiry, PassDeadline,
        MaintainTransport, LifecyclePass, LeaseTick
  <2>7. CASE Environment
    BY ZenonT(60), <2>2, <2>7 DEF Environment, Admit, EnqueueCancellation, RequireForDrain,
        FenceGeneration, rowFrame
  <2>8. CASE Suppression
    <3>1. PICK i \in Proposals : Suppress(i)
      BY <2>8 DEF Suppression
    <3>2. /\ status' = [status EXCEPT ![i] = "permanently_failed"]
          /\ error' = [error EXCEPT ![i] = "bitcoin_account_rotated"]
          /\ claimant' = [claimant EXCEPT ![i] = Nobody]
          /\ i \in Rows
      BY <2>1, <3>1, SuppressEffect
    <3>3. status \in [Rows -> RowStatus] /\ error \in [Rows -> ErrorClass]
      BY <2>1 DEF TypeOK
    <3> QED
      BY <2>1, <3>2, <3>3 DEF ClaimStep
  <2> QED
    BY <2>3, <2>4, <2>5, <2>6, <2>7, <2>8
      DEF OutboxNext, ServerStep, Environment, Suppression
<1>2. OutboxInit => TypeInvariant /\ LeasesAreWork
  BY TypeStarts DEF OutboxInit, LeasesAreWork
<1>3. OutboxSpec => [][ClaimStep]_vars
  BY <1>1, <1>2, TypeInductive, LeasesInductive, PTL DEF OutboxSpec
<1> QED
  BY <1>3 DEF ClaimIsStable, ClaimStep
=============================================================================

------------------------------- MODULE Outbox -------------------------------
(***************************************************************************)
(* Delivery of Payment Request intents for one Creator.                    *)
(*                                                                         *)
(* A row of the PostgreSQL outbox is a proposal or the cancellation of     *)
(* one proposal.  A delivery task takes the Creator's setup fence (a       *)
(* PostgreSQL advisory lock) and its process's mutation lock, leases one   *)
(* due row, drives the Paykit SDK, and records the outcome under the       *)
(* lease.  Reconciliation later turns a handed-off row into a delivered    *)
(* or a failed one.  The lifecycle projection copies the SDK's request     *)
(* records into PostgreSQL.                                                *)
(*                                                                         *)
(* Time is abstracted: a lease loses one tick at a time down to zero, a    *)
(* proposal passes its expiry once, and a retry delay is the freedom of    *)
(* Claim not to happen yet.  The claim token is a UUID drawn at each       *)
(* claim; a process works on one claim of a row at a time, so the token    *)
(* is named by the process that drew it.                                   *)
(***************************************************************************)
EXTENDS Naturals

CONSTANTS
    Processes,      \* server processes sharing the database
    Proposals,      \* proposal rows; the row id is the SDK request id
    Cancellations,  \* cancellation rows
    Target,         \* the request each cancellation withdraws
    ProviderV2,     \* proposals of provider-v2 invoices
    LeaseTicks,     \* outbox_lease_duration
    MaxFaults,      \* bound on crashes, lost fences, storage errors, stalls
    Nobody

ASSUME OutboxAssumption ==
    /\ Proposals \cap Cancellations = {}
    /\ Target \in [Cancellations -> Proposals]
    /\ ProviderV2 \subseteq Proposals
    /\ LeaseTicks \in Nat \ {0}
    /\ MaxFaults \in Nat
    /\ Nobody \notin Processes \cup Proposals \cup Cancellations

Rows == Proposals \cup Cancellations

VARIABLES
    status, error, claimant, lease, drainRequired,   \* columns of outbox
    fenced,          \* proposals whose lock generation is drained
    pastExpiry,      \* proposals whose proposal_expires_at has passed
    pastDeadline,    \* proposals whose payment_deadline has passed
    request,         \* SDK record of each proposal's request
    message,         \* SDK outbound message of each row
    answer,          \* what the Reader sent back, and whether it was received
    lifecycle,       \* payment_request_lifecycles
    setupFence, mutationLock,
    pc, job, outcome,                                \* delivery task
    reconPc, reconJob, seen,                         \* reconciliation task
    faults

rowVars == <<status, error, claimant, lease, drainRequired>>
clockVars == <<pastExpiry, pastDeadline>>
sdkVars == <<request, message, answer>>
lockVars == <<setupFence, mutationLock>>
taskVars == <<pc, job, outcome>>
reconVars == <<reconPc, reconJob, seen>>
vars == <<rowVars, fenced, clockVars, sdkVars, lifecycle, lockVars, taskVars,
          reconVars, faults>>

RowStatus == {"absent", "queued", "retryable", "leased", "handed_off",
              "delivered", "permanently_failed"}
ErrorClass == {"none", "retry", "proposal_expired", "permanent", "lapsed",
               "cancellation_obsolete", "permanent_sdk_reconciliation",
               "bitcoin_account_rotated"}
RequestState == {"none", "proposed", "accepted", "rejected", "canceled"}
LifecycleState == {"none", "proposed", "proposal_expired", "accepted",
                   "rejected", "canceled"}
MessageState == {"none", "pending", "sent", "failed"}
TaskPc == {"idle", "fence", "open", "refresh", "check", "effect", "mark",
           "send"}
Outcome == {"none", "handed_off", "retryable", "expired", "obsolete",
            "permanent", "lapsed"}
LockHolder == {"free", "outbox", "drain", "rotation"}

\* Type invariant.  What it says beyond types: a stored error class is one that
\* a transition of OutboxStore writes.
TypeOK ==
    /\ status \in [Rows -> RowStatus]
    /\ error \in [Rows -> ErrorClass]
    /\ claimant \in [Rows -> Processes \cup {Nobody}]
    /\ lease \in [Rows -> 0..LeaseTicks]
    /\ drainRequired \in [Rows -> BOOLEAN]
    /\ fenced \subseteq Proposals
    /\ pastExpiry \subseteq Proposals
    /\ pastDeadline \subseteq Proposals
    /\ request \in [Proposals -> RequestState]
    /\ message \in [Rows -> MessageState]
    /\ answer \in [Proposals -> {"none", "accepted", "rejected", "received"}]
    /\ lifecycle \in [Proposals -> LifecycleState]
    /\ setupFence \in Processes \cup {Nobody}
    /\ mutationLock \in [Processes -> LockHolder]
    /\ pc \in [Processes -> TaskPc]
    /\ job \in [Processes -> Rows \cup {Nobody}]
    /\ outcome \in [Processes -> Outcome]
    /\ reconPc \in [Processes -> {"idle", "query", "mark"}]
    /\ reconJob \in [Processes -> Rows \cup {Nobody}]
    /\ seen \in [Processes -> MessageState \cup {"unknown"}]
    /\ faults \in 0..MaxFaults

OutboxInit ==
    /\ status = [r \in Rows |-> "absent"]
    /\ error = [r \in Rows |-> "none"]
    /\ claimant = [r \in Rows |-> Nobody]
    /\ lease = [r \in Rows |-> 0]
    /\ drainRequired = [r \in Rows |-> FALSE]
    /\ fenced = {}
    /\ pastExpiry = {}
    /\ pastDeadline = {}
    /\ request = [i \in Proposals |-> "none"]
    /\ message = [r \in Rows |-> "none"]
    /\ answer = [i \in Proposals |-> "none"]
    /\ lifecycle = [i \in Proposals |-> "none"]
    /\ setupFence = Nobody
    /\ mutationLock = [p \in Processes |-> "free"]
    /\ pc = [p \in Processes |-> "idle"]
    /\ job = [p \in Processes |-> Nobody]
    /\ outcome = [p \in Processes |-> "none"]
    /\ reconPc = [p \in Processes |-> "idle"]
    /\ reconJob = [p \in Processes |-> Nobody]
    /\ seen = [p \in Processes |-> "unknown"]
    /\ faults = 0

-----------------------------------------------------------------------------
(***************************************************************************)
(* The SDK, the Reader and the clock, as the server uses them.             *)
(***************************************************************************)

\* The proposal whose Reader is the row's counterparty.
Owner(r) == IF r \in Proposals THEN r ELSE Target[r]

\* The state in which the SDK reports a request.
Observed(req, i) ==
    IF req[i] = "proposed" /\ i \in pastExpiry THEN "proposal_expired" ELSE req[i]

\* SDK request records after receiving from the Readers of the proposals in S.
Received(S) ==
    [i \in Proposals |->
        IF i \in S /\ answer[i] \in {"accepted", "rejected"} /\ request[i] = "proposed"
        THEN answer[i] ELSE request[i]]

Consumed(S) ==
    [i \in Proposals |->
        IF i \in S /\ answer[i] \in {"accepted", "rejected"}
        THEN "received" ELSE answer[i]]

\* Outbound messages to the Reader of i after one pass of the SDK's sender.
\* The SDK sends in order; a pass that sends two messages is two passes.
Transmitted(i) ==
    {message} \cup
    {[message EXCEPT ![r] = s] :
        r \in {x \in Rows : /\ Owner(x) = i
                            /\ message[x] = "pending"
                            /\ x \in Cancellations => message[i] # "pending"},
        s \in {"sent", "failed"}}

\* PaymentRequestLifecycleStore::apply on every SDK record: a row is inserted
\* only while the proposal's generation admits it.
Projected(req) ==
    [i \in Proposals |->
        IF req[i] = "none" \/ (lifecycle[i] = "none" /\ i \in fenced)
        THEN lifecycle[i] ELSE Observed(req, i)]

\* One refused record fails the whole projection pass.
ProjectionRefused(req) ==
    \E i \in fenced : req[i] # "none" /\ lifecycle[i] = "none"

ReaderAnswers(i) ==
    /\ message[i] = "sent"
    /\ answer[i] = "none"
    /\ i \notin pastExpiry
    /\ \A c \in Cancellations : Target[c] = i => message[c] # "sent"
    /\ \E a \in {"accepted", "rejected"} : answer' = [answer EXCEPT ![i] = a]
    /\ UNCHANGED <<rowVars, fenced, clockVars, request, message, lifecycle,
                   lockVars, taskVars, reconVars, faults>>

PassExpiry(i) ==
    /\ status[i] # "absent"
    /\ i \notin pastExpiry
    /\ pastExpiry' = pastExpiry \cup {i}
    /\ UNCHANGED <<rowVars, fenced, pastDeadline, sdkVars, lifecycle, lockVars,
                   taskVars, reconVars, faults>>

\* proposal_expires_at is before payment_deadline; delivery reads the deadline of
\* provider-v2 invoices only.
PassDeadline(i) ==
    /\ i \in ProviderV2 \cap (pastExpiry \ pastDeadline)
    /\ pastDeadline' = pastDeadline \cup {i}
    /\ UNCHANGED <<rowVars, fenced, pastExpiry, sdkVars, lifecycle, lockVars,
                   taskVars, reconVars, faults>>

\* Transport maintenance: one peer at a time under the mutation lock.
MaintainTransport(p, i) ==
    /\ mutationLock[p] = "free"
    /\ \/ /\ request' = Received({i})
          /\ answer' = Consumed({i})
          /\ UNCHANGED message
       \/ /\ message' \in Transmitted(i)
          /\ UNCHANGED <<request, answer>>
    /\ UNCHANGED <<rowVars, fenced, clockVars, lifecycle, lockVars, taskVars,
                   reconVars, faults>>

\* receive_and_project_payment_requests: every linked peer is tried, some fail,
\* and what is known is projected either way.
LifecyclePass(p) ==
    /\ mutationLock[p] = "free"
    /\ \E S \in SUBSET Proposals :
        /\ request' = Received(S)
        /\ answer' = Consumed(S)
        /\ lifecycle' = Projected(Received(S))
    /\ UNCHANGED <<rowVars, fenced, clockVars, message, lockVars, taskVars,
                   reconVars, faults>>

-----------------------------------------------------------------------------
(***************************************************************************)
(* The delivery task of a process: process_creator_outbox.                 *)
(***************************************************************************)

Eligible(r) == r \in Proposals => r \notin fenced

\* Seeded faults, used only to test that the properties can fail: lapsed leases
\* are not reclaimed; live leases are.
DueUnlessLeased(r) == status[r] \in {"queued", "retryable"} /\ Eligible(r)
DueDespiteLease(r) == status[r] \in {"queued", "retryable", "leased"} /\ Eligible(r)

Due(r) ==
    /\ \/ status[r] \in {"queued", "retryable"}
       \/ status[r] = "leased" /\ lease[r] = 0
    /\ Eligible(r)

\* The claim token p drew for r still names a live lease in status st.
HoldsLive(p, r, st) == status[r] = st /\ claimant[r] = p /\ lease[r] > 0

AcquireSetupFence(p) ==
    /\ pc[p] = "idle"
    /\ setupFence = Nobody
    /\ \E r \in Rows : Due(r)
    /\ setupFence' = p
    /\ pc' = [pc EXCEPT ![p] = "fence"]
    /\ UNCHANGED <<rowVars, fenced, clockVars, sdkVars, lifecycle, mutationLock,
                   job, outcome, reconVars, faults>>

\* The mutation lock, then claim_for_creator.
Claim(p, r) ==
    /\ pc[p] = "fence"
    /\ mutationLock[p] = "free"
    /\ Due(r)
    /\ mutationLock' = [mutationLock EXCEPT ![p] = "outbox"]
    /\ status' = [status EXCEPT ![r] = "leased"]
    /\ claimant' = [claimant EXCEPT ![r] = p]
    /\ lease' = [lease EXCEPT ![r] = LeaseTicks]
    /\ pc' = [pc EXCEPT ![p] = "open"]
    /\ job' = [job EXCEPT ![p] = r]
    /\ UNCHANGED <<error, drainRequired, fenced, clockVars, sdkVars, lifecycle,
                   setupFence, outcome, reconVars, faults>>

\* Nothing is due any more, or the query failed.
ClaimNothing(p) ==
    /\ pc[p] = "fence"
    /\ mutationLock[p] = "free"
    /\ \A r \in Rows : ~Due(r)
    /\ pc' = [pc EXCEPT ![p] = "idle"]
    /\ setupFence' = IF setupFence = p THEN Nobody ELSE setupFence
    /\ UNCHANGED <<rowVars, fenced, clockVars, sdkVars, lifecycle, mutationLock,
                   job, outcome, reconVars, faults>>

ToMark(p, o) ==
    /\ pc' = [pc EXCEPT ![p] = "mark"]
    /\ outcome' = [outcome EXCEPT ![p] = o]

ToStage(p, stage) ==
    /\ pc' = [pc EXCEPT ![p] = stage]
    /\ UNCHANGED outcome

\* The deadline check of a claimed row: a proposal's own expiry, and the payment
\* deadline of a provider-v2 invoice whatever the row's operation is.
DeliveryExpired(r) ==
    \/ r \in pastExpiry
    \/ Owner(r) \in ProviderV2 \cap pastDeadline

\* Decode the intent, check a proposal's expiry, build the adapter, check a
\* provider-v2 deadline.
Open(p) ==
    LET r == job[p] IN
    /\ pc[p] = "open"
    /\ \/ ToMark(p, "permanent")
       \/ DeliveryExpired(r) /\ ToMark(p, "expired")
       \/ r \notin pastExpiry /\ ToMark(p, "retryable")
       \/ /\ ~DeliveryExpired(r)
          /\ ToStage(p, IF r \in Cancellations THEN "refresh" ELSE "check")
    /\ UNCHANGED <<rowVars, fenced, clockVars, sdkVars, lifecycle, lockVars, job,
                   reconVars, faults>>

\* Seeded fault: a cancellation goes on whatever the Reader answered.
RefreshIgnoresAcceptance(p) ==
    LET i == Owner(job[p]) IN
    /\ pc[p] = "refresh"
    /\ ~ProjectionRefused(Received({i}))
    /\ request' = Received({i})
    /\ answer' = Consumed({i})
    /\ lifecycle' = Projected(Received({i}))
    /\ ToStage(p, "check")
    /\ UNCHANGED <<rowVars, fenced, clockVars, message, lockVars, job, reconVars,
                   faults>>

\* A cancellation first receives from its Reader and projects; a target found
\* accepted makes a cancellation no drain requires obsolete.
Refresh(p) ==
    LET c == job[p]
        i == Owner(c)
    IN
    /\ pc[p] = "refresh"
    /\ \/ /\ \E S \in {{}, {i}} :
             /\ request' = Received(S)
             /\ answer' = Consumed(S)
             /\ lifecycle' = Projected(Received(S))
          /\ ToMark(p, "retryable")
       \/ /\ ~ProjectionRefused(Received({i}))
          /\ request' = Received({i})
          /\ answer' = Consumed({i})
          /\ lifecycle' = Projected(Received({i}))
          /\ IF lifecycle'[i] = "accepted" /\ ~drainRequired[c]
             THEN ToMark(p, "obsolete") ELSE ToStage(p, "check")
    /\ UNCHANGED <<rowVars, fenced, clockVars, message, lockVars, job, reconVars,
                   faults>>

\* handoff_steps_with_claim up to the SDK effect: check_claim before each of the
\* registry, authorization and link calls, and last before the effect.  The
\* calls in between change nothing the model keeps, so that one check stands
\* for the last one made.  A lost lease and a drained generation are both
\* reported as Permanent; the model names the first "lapsed".
Check(p) ==
    LET r == job[p] IN
    /\ pc[p] = "check"
    /\ \/ ToMark(p, "retryable")
       \/ ToMark(p, "permanent")
       \/ r \in pastExpiry /\ ToMark(p, "expired")
       \/ /\ r \notin pastExpiry
          /\ ~HoldsLive(p, r, "leased")
          /\ ToMark(p, "lapsed")
       \/ /\ r \notin pastExpiry
          /\ HoldsLive(p, r, "leased")
          /\ IF Eligible(r) THEN ToStage(p, "effect") ELSE ToMark(p, "permanent")
    /\ UNCHANGED <<rowVars, fenced, clockVars, sdkVars, lifecycle, lockVars, job,
                   reconVars, faults>>

\* propose_payment_request_with_id: the row id is the request id, so a repeated
\* call returns the first record.
Proposed(i) ==
    /\ request' = [request EXCEPT ![i] = IF @ = "none" THEN "proposed" ELSE @]
    /\ message' = [message EXCEPT ![i] = IF @ = "none" THEN "pending" ELSE @]

\* cancel_payment_request: an open request is withdrawn once.
Canceled(c) ==
    /\ \/ request[Target[c]] \in {"proposed", "accepted"}
       \/ request[Target[c]] = "canceled" /\ message[c] # "none"
    /\ request' = [request EXCEPT ![Target[c]] = "canceled"]
    /\ message' = [message EXCEPT ![c] = IF @ = "none" THEN "pending" ELSE @]

\* Seeded fault: a failed call is taken for a handoff.
EffectAssumed(p) ==
    LET r == job[p] IN
    /\ pc[p] = "effect"
    /\ \/ IF r \in Proposals THEN Proposed(r) ELSE Canceled(r)
       \/ UNCHANGED <<request, message>>
    /\ ToMark(p, "handed_off")
    /\ UNCHANGED <<rowVars, fenced, clockVars, answer, lifecycle, lockVars, job,
                   reconVars, faults>>

\* The SDK call commits and answers, commits and fails to answer, or fails.
Effect(p) ==
    LET r == job[p] IN
    /\ pc[p] = "effect"
    /\ \/ /\ IF r \in Proposals THEN Proposed(r) ELSE Canceled(r)
          /\ ToMark(p, "handed_off") \/ ToMark(p, "retryable")
       \/ /\ UNCHANGED <<request, message>>
          /\ ToMark(p, "retryable") \/ ToMark(p, "permanent")
    /\ UNCHANGED <<rowVars, fenced, clockVars, answer, lifecycle, lockVars, job,
                   reconVars, faults>>

EndTask(p) ==
    /\ pc' = [pc EXCEPT ![p] = "idle"]
    /\ job' = [job EXCEPT ![p] = Nobody]
    /\ outcome' = [outcome EXCEPT ![p] = "none"]
    /\ mutationLock' = [mutationLock EXCEPT ![p] = "free"]
    /\ setupFence' = IF setupFence = p THEN Nobody ELSE setupFence

MarkedStatus(o) ==
    CASE o = "handed_off" -> "handed_off"
      [] o = "retryable" -> "retryable"
      [] OTHER -> "permanently_failed"

\* Seeded fault: the outcome is stored as it is.
MarkedErrorRaw(o) == o

MarkedError(o) ==
    CASE o = "handed_off" -> "none"
      [] o = "retryable" -> "retry"
      [] o = "expired" -> "proposal_expired"
      [] o = "obsolete" -> "cancellation_obsolete"
      [] OTHER -> o

\* Seeded faults: the token alone fences the transition; an obsolete cancellation
\* is retired without looking at the drain.
MayMarkByToken(p) == status[job[p]] = "leased" /\ claimant[job[p]] = p
MayMarkObsolete(p) == HoldsLive(p, job[p], "leased")

\* The condition under which the final transition changes the row.
MayMark(p) ==
    /\ HoldsLive(p, job[p], "leased")
    /\ outcome[p] = "obsolete" => ~drainRequired[job[p]]

\* The fenced final transition.  A transition that finds its claim gone changes
\* nothing and the task ends.
Mark(p) ==
    LET r == job[p] IN
    /\ pc[p] = "mark"
    /\ \/ /\ MayMark(p)
          /\ status' = [status EXCEPT ![r] = MarkedStatus(outcome[p])]
          /\ error' = [error EXCEPT ![r] = MarkedError(outcome[p])]
          /\ claimant' = [claimant EXCEPT ![r] = Nobody]
          /\ lease' = [lease EXCEPT ![r] = 0]
          /\ IF outcome[p] = "handed_off"
             THEN /\ pc' = [pc EXCEPT ![p] = "send"]
                  /\ UNCHANGED <<job, outcome, lockVars>>
             ELSE EndTask(p)
       \/ /\ ~MayMark(p)
          /\ UNCHANGED <<status, error, claimant, lease>>
          /\ EndTask(p)
    /\ UNCHANGED <<drainRequired, fenced, clockVars, sdkVars, lifecycle, reconVars,
                   faults>>

\* send_handed_off_with_guard, then the fence and the lock are released.
Send(p) ==
    /\ pc[p] = "send"
    /\ IF status[job[p]] = "handed_off"
       THEN message' \in Transmitted(Owner(job[p])) ELSE UNCHANGED message
    /\ EndTask(p)
    /\ UNCHANGED <<rowVars, fenced, clockVars, request, answer, lifecycle, reconVars,
                   faults>>

\* with_claim_renewal: a lapsed or replaced claim is never revived.
Renew(p) ==
    LET r == job[p] IN
    /\ pc[p] \in {"open", "refresh", "check", "effect", "mark"}
    /\ HoldsLive(p, r, "leased")
    /\ Eligible(r)
    /\ lease[r] < LeaseTicks
    /\ lease' = [lease EXCEPT ![r] = LeaseTicks]
    /\ UNCHANGED <<status, error, claimant, drainRequired, fenced, clockVars,
                   sdkVars, lifecycle, lockVars, taskVars, reconVars, faults>>

-----------------------------------------------------------------------------
(***************************************************************************)
(* The reconciliation task of a process.                                   *)
(***************************************************************************)

\* Seeded fault: a lapsed reconciliation claim is not taken over.
ReconDueUnclaimed(r) == status[r] = "handed_off" /\ claimant[r] = Nobody

ReconDue(r) == status[r] = "handed_off" /\ (claimant[r] = Nobody \/ lease[r] = 0)

ReconClaim(p, r) ==
    /\ reconPc[p] = "idle"
    /\ ReconDue(r)
    /\ claimant' = [claimant EXCEPT ![r] = p]
    /\ lease' = [lease EXCEPT ![r] = LeaseTicks]
    /\ reconPc' = [reconPc EXCEPT ![p] = "query"]
    /\ reconJob' = [reconJob EXCEPT ![p] = r]
    /\ UNCHANGED <<status, error, drainRequired, fenced, clockVars, sdkVars,
                   lifecycle, lockVars, taskVars, seen, faults>>

\* outbound_status under the mutation lock: it sends what is pending, then reads
\* the exact message.  "unknown" is a retryable error, "failed" a permanent one.
ReconQuery(p) ==
    LET r == reconJob[p] IN
    /\ reconPc[p] = "query"
    /\ mutationLock[p] = "free"
    /\ IF message[r] = "pending"
       THEN message' \in Transmitted(Owner(r)) ELSE UNCHANGED message
    /\ \E s \in {message'[r], "unknown", "failed"} : seen' = [seen EXCEPT ![p] = s]
    /\ reconPc' = [reconPc EXCEPT ![p] = "mark"]
    /\ UNCHANGED <<rowVars, fenced, clockVars, request, answer, lifecycle, lockVars,
                   taskVars, reconJob, faults>>

EndRecon(p) ==
    /\ reconPc' = [reconPc EXCEPT ![p] = "idle"]
    /\ reconJob' = [reconJob EXCEPT ![p] = Nobody]
    /\ seen' = [seen EXCEPT ![p] = "unknown"]

\* Seeded fault: a message the SDK still holds counts as delivered.
ReconciledStatusEarly(s) ==
    CASE s \in {"sent", "pending"} -> "delivered"
      [] s = "unknown" -> "handed_off"
      [] OTHER -> "permanently_failed"

ReconciledStatus(s) ==
    CASE s = "sent" -> "delivered"
      [] s \in {"pending", "unknown"} -> "handed_off"
      [] OTHER -> "permanently_failed"

ReconMark(p) ==
    LET r == reconJob[p]
        s == seen[p]
    IN
    /\ reconPc[p] = "mark"
    /\ \/ /\ HoldsLive(p, r, "handed_off")
          /\ status' = [status EXCEPT ![r] = ReconciledStatus(s)]
          /\ error' = [error EXCEPT ![r] =
                CASE s = "sent" -> "none"
                  [] s \in {"pending", "unknown"} -> "retry"
                  [] OTHER -> "permanent_sdk_reconciliation"]
          /\ claimant' = [claimant EXCEPT ![r] = Nobody]
          /\ lease' = [lease EXCEPT ![r] = 0]
       \/ /\ ~HoldsLive(p, r, "handed_off")
          /\ UNCHANGED <<status, error, claimant, lease>>
    /\ EndRecon(p)
    /\ UNCHANGED <<drainRequired, fenced, clockVars, sdkVars, lifecycle, lockVars,
                   taskVars, faults>>

-----------------------------------------------------------------------------
(***************************************************************************)
(* Time passing on leases, and faults.                                     *)
(***************************************************************************)

\* A running task of p still works under the claim on r.
Working(p, r) ==
    /\ claimant[r] = p
    /\ \/ job[p] = r /\ status[r] = "leased"
       \/ reconJob[p] = r /\ status[r] = "handed_off"

Fault == faults < MaxFaults /\ faults' = faults + 1

\* A lease that runs out under a working task is a fault: renewals came too late.
LeaseTick(r) ==
    /\ lease[r] > 0
    /\ lease' = [lease EXCEPT ![r] = @ - 1]
    /\ IF lease[r] = 1 /\ \E p \in Processes : Working(p, r)
       THEN Fault ELSE UNCHANGED faults
    /\ UNCHANGED <<status, error, claimant, drainRequired, fenced, clockVars,
                   sdkVars, lifecycle, lockVars, taskVars, reconVars>>

\* A database error ends the task; the row keeps its lease until it lapses.
StorageError(p) ==
    /\ pc[p] \in {"open", "mark"}
    /\ Fault
    /\ EndTask(p)
    /\ UNCHANGED <<rowVars, fenced, clockVars, sdkVars, lifecycle, reconVars>>

ReconStorageError(p) ==
    /\ reconPc[p] = "mark"
    /\ Fault
    /\ EndRecon(p)
    /\ UNCHANGED <<rowVars, fenced, clockVars, sdkVars, lifecycle, lockVars, taskVars>>

\* The advisory lock dies with its connection; the task does not notice.
FenceLost(p) ==
    /\ setupFence = p
    /\ Fault
    /\ setupFence' = Nobody
    /\ UNCHANGED <<rowVars, fenced, clockVars, sdkVars, lifecycle, mutationLock,
                   taskVars, reconVars>>

\* The process dies and restarts with nothing in memory.
Crash(p) ==
    /\ pc[p] # "idle" \/ reconPc[p] # "idle"
    /\ Fault
    /\ EndTask(p)
    /\ EndRecon(p)
    /\ UNCHANGED <<rowVars, fenced, clockVars, sdkVars, lifecycle>>

-----------------------------------------------------------------------------
(***************************************************************************)
(* What the rest of the server does to these rows, at its most liberal:    *)
(* invoice creation admits a proposal; account rotation and drains enqueue *)
(* cancellations of requests they found proposed; account rotation retires *)
(* proposals it knows no request of; a drain fences a generation once each *)
(* of its proposals has a lifecycle, expired unsent or was retired.        *)
(***************************************************************************)

rowFrame == <<error, claimant, lease>>
restFrame == <<clockVars, sdkVars, lifecycle, lockVars, taskVars, reconVars, faults>>

Admit(i) ==
    /\ status[i] = "absent"
    /\ i \notin fenced
    /\ status' = [status EXCEPT ![i] = "queued"]
    /\ UNCHANGED <<rowFrame, drainRequired, fenced, restFrame>>

EnqueueCancellation(c) ==
    /\ status[c] = "absent"
    /\ lifecycle[Target[c]] = "proposed"
    /\ status' = [status EXCEPT ![c] = "queued"]
    /\ \E b \in BOOLEAN : drainRequired' = [drainRequired EXCEPT ![c] = b]
    /\ UNCHANGED <<rowFrame, fenced, restFrame>>

\* A drain takes over a cancellation that rotation enqueued.
RequireForDrain(c) ==
    /\ status[c] \notin {"absent", "permanently_failed"}
    /\ ~drainRequired[c]
    /\ drainRequired' = [drainRequired EXCEPT ![c] = TRUE]
    /\ UNCHANGED <<status, rowFrame, fenced, restFrame>>

\* Account rotation retires a proposal of the old account, with any claim on it.
Suppress(i) ==
    /\ status[i] \in {"queued", "retryable", "leased"}
    /\ lifecycle[i] = "none"
    /\ status' = [status EXCEPT ![i] = "permanently_failed"]
    /\ error' = [error EXCEPT ![i] = "bitcoin_account_rotated"]
    /\ claimant' = [claimant EXCEPT ![i] = Nobody]
    /\ lease' = [lease EXCEPT ![i] = 0]
    /\ UNCHANGED <<drainRequired, fenced, restFrame>>

Drainable(i) ==
    \/ lifecycle[i] # "none"
    \/ /\ status[i] = "permanently_failed"
       /\ error[i] \in {"proposal_expired", "bitcoin_account_rotated"}

FenceGeneration(p, i) ==
    /\ mutationLock[p] = "free"
    /\ i \notin fenced
    /\ Drainable(i)
    /\ fenced' = fenced \cup {i}
    /\ UNCHANGED <<rowVars, restFrame>>

TaskStep(p) ==
    \/ AcquireSetupFence(p)
    \/ \E r \in Rows : Claim(p, r)
    \/ ClaimNothing(p)
    \/ Open(p)
    \/ Refresh(p)
    \/ Check(p)
    \/ Effect(p)
    \/ Mark(p)
    \/ Send(p)
    \/ Renew(p)

ReconStep(p) ==
    \/ \E r \in Rows : ReconClaim(p, r)
    \/ ReconQuery(p)
    \/ ReconMark(p)

FaultStep(p) ==
    \/ StorageError(p)
    \/ ReconStorageError(p)
    \/ FenceLost(p)

OutsideStep ==
    \/ \E i \in Proposals : ReaderAnswers(i) \/ PassExpiry(i) \/ PassDeadline(i)
    \/ \E p \in Processes, i \in Proposals : MaintainTransport(p, i)
    \/ \E p \in Processes : LifecyclePass(p)
    \/ \E r \in Rows : LeaseTick(r)

\* Everything but a crash, which also ends what other modules keep in memory.
ServerStep ==
    \/ \E p \in Processes : TaskStep(p) \/ ReconStep(p) \/ FaultStep(p)
    \/ OutsideStep

OutboxNext ==
    \/ ServerStep
    \/ \E p \in Processes : Crash(p)
    \/ \E i \in Proposals : Admit(i) \/ Suppress(i)
    \/ \E c \in Cancellations : EnqueueCancellation(c) \/ RequireForDrain(c)
    \/ \E p \in Processes, i \in Proposals : FenceGeneration(p, i)

OutboxSpec == OutboxInit /\ [][OutboxNext]_vars

\* The scheduler runs every admitted task; the claim query orders by due time,
\* so that a due row is not passed over for ever; leases and expiry run on the
\* database clock; an SDK that is asked again and again answers in the end.
OutboxFairness ==
    /\ \A p \in Processes :
        /\ SF_vars(AcquireSetupFence(p))
        /\ SF_vars(ClaimNothing(p))
        /\ WF_vars(Open(p) \/ Refresh(p) \/ Check(p) \/ Effect(p) \/ Mark(p) \/ Send(p))
        /\ \A r \in Rows : SF_vars(Claim(p, r)) /\ SF_vars(ReconClaim(p, r))
        /\ WF_vars(ReconMark(p))
        /\ SF_vars(ReconQuery(p))
        /\ SF_vars(ReconQuery(p) /\ seen'[p] \in {"sent", "failed"})
    /\ \A r \in Rows : WF_vars(LeaseTick(r))
    /\ \A i \in Proposals : WF_vars(PassExpiry(i))

FairOutboxSpec == OutboxSpec /\ OutboxFairness

-----------------------------------------------------------------------------
(***************************************************************************)
(* Properties.                                                             *)
(***************************************************************************)

\* A row recorded as handed off or delivered has its message in the SDK, and the
\* request it is about exists there (mark_handed_off, mark_delivered).
HandedOffOwnsMessage ==
    \A r \in Rows : status[r] \in {"handed_off", "delivered"} =>
        message[r] # "none" /\ request[Owner(r)] # "none"

\* Only a message the SDK sent makes a row delivered (process_reconciliation).
DeliveredWasSent ==
    \A r \in Rows : status[r] = "delivered" => message[r] = "sent"

\* A task that lost its lease reports Permanent (check_claim), yet a lost lease
\* alone never fails a row: the final transition finds the claim gone.
LapseNeverFailsRow ==
    \A r \in Rows : error[r] # "lapsed"

\* A cancellation that a drain relies on is never retired as obsolete, even when
\* the drain takes it over between the acceptance check and the transition
\* (mark_cancellation_obsolete).
DrainCancellationNeverObsolete ==
    \A c \in Cancellations : drainRequired[c] => error[c] # "cancellation_obsolete"

\* A payment deadline strands no cancellation (handoff_steps_with_claim).
DeadlineStrandsNoCancellation ==
    \A c \in Cancellations : error[c] # "proposal_expired"

\* A live claim ends only by its own task's transition, or with a proposal that
\* account rotation retires (claim_matching, transition,
\* rotate_bitcoin_account_after_receive).
ClaimIsStable ==
    [][\A r \in Rows, p \in Processes :
        claimant[r] = p /\ lease[r] > 0 /\ claimant'[r] # p =>
            /\ claimant'[r] = Nobody
            /\ \/ pc[p] = "mark" /\ job[p] = r /\ pc'[p] # "mark"
               \/ reconPc[p] = "mark" /\ reconJob[p] = r /\ reconPc'[p] = "idle"
               \/ status'[r] = "permanently_failed" /\ error'[r] = "bitcoin_account_rotated"]_vars

\* A proposal admitted to the outbox is handed off or failed, or its generation
\* is fenced: crashes, lost leases and failing calls delay it at most until its
\* expiry is found.
ProposalSettles ==
    \A i \in Proposals :
        status[i] = "queued" ~>
            \/ status[i] \in {"handed_off", "delivered", "permanently_failed"}
            \/ i \in fenced

\* A handed-off row is acknowledged or failed in the end.
HandoffResolves ==
    \A r \in Rows :
        status[r] = "handed_off" ~> status[r] \in {"delivered", "permanently_failed"}
=============================================================================

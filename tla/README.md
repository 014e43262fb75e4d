# Paykit Server in TLA+

A TLA+ development kept beside Paykit Server (`paykit-server/`, with its
`migrations/` and `docs/`): what the server does with Payment Requests and
payments, model-checked with TLC on small instances and, for the parts that
carry the most weight, proved with TLAPS for every instance.

Source paths below are relative to `paykit-server/src/`.

## The system

Paykit Server sells access to Locks for Creators. An invoice becomes a Payment
Request that the Paykit SDK sends to a Reader over an encrypted link; the Reader
accepts or rejects it and pays on Bitcoin or in USDT on Arbitrum; the server
observes both chains and settles the invoice at its deadline.

| part | state | operations | talks to |
|---|---|---|---|
| Outbox (`persistence/outbox.rs`, `workers/outbox.rs`) | outbox rows: status, error class, claim token, lease | claim, renew, hand off, mark, reconcile | SDK adapter, lifecycle projection, drains |
| SDK adapter (`paykit.rs`) | the SDK's requests and outbound messages; the Creator mutation lock | propose, cancel, send, receive, project, query status | outbox, drains, Reader |
| Lifecycle projection (`persistence/payment_request_lifecycles.rs`) | one row per request | apply a record, list required receive targets | SDK adapter, drains |
| Payment drains (`persistence/payment_drains.rs`) | a lock's generation, active drain, frozen items, counts | create, replay, clean up | outbox, projection, settlement |
| Settlement (`persistence/invoices.rs`, `persistence/invoices/`) | an invoice's outputs, receipts, first match, expiry, provider-v2 sample and evidence | load targets, apply a batch, credit or clear a receipt, expire | Electrum, Arbitrum, drains |
| Invoice creation (`application/create_invoice.rs`, `create_atomic`) | invoice, address assignment, proposal row | create or replay | outbox, drains, Creator account |
| Creator store (`persistence/creators.rs`) | credentials, setup fence, Bitcoin account generation | set up, reauthenticate, rotate | outbox |
| Marketplace (`persistence/marketplace_preparations.rs`) | preparations | prepare, activate, void, resolve, observe | outbox, observer |
| Workers (`server.rs`, `workers/`, `runtime.rs`) | bounded task sets, wake-ups, readiness | the loops | everything |
| Setup, allowances, contacts, HTTP, configuration | sessions, intake turns | | Bitkit, homeserver |

What makes it hard: a handoff to the SDK is at-least-once and its answer may be
lost; leases lapse under running tasks; a process may die between an external
effect and its record; a drain must see or fence every request of a lock while
delivery goes on; two chains reorganise, and two clocks decide what was in time.

The supported deployment is exactly one server process (repository README). The
constant `Processes` has one element for what that deployment promises and two
for what the durable leases and fences still guarantee without it.

## Modules

| module | models | |
|---|---|---|
| `Outbox` | delivery and reconciliation of proposals and cancellations | state machine |
| `OutboxProofs` | | proofs about `Outbox` |
| `DrainLedger` | the durable drain record of one lock | abstract state machine |
| `DrainLedgerProofs` | | proofs about `DrainLedger` |
| `PaymentDrain` | draining a lock, composed with `Outbox`; implements `DrainLedger` | composition |
| `Issuance` | addresses, account generations and Marketplace preparations of one Creator | state machine |
| `IssuanceProofs` | | proofs about `Issuance` |
| `AccountRotation` | replacing the Bitcoin account, composed with `Outbox`; implements `Issuance` | composition |
| `PaymentOutcome` | what settlement promises of an invoice | abstract specification |
| `Settlement` | observation and settlement of an invoice; implements `PaymentOutcome` | state machine |
| `MCOutbox`, `MCDrainLedger`, `MCPaymentDrain`, `MCIssuance`, `MCAccountRotation`, `MCSettlement` | | instances for TLC |

Operators introduced by "Seeded fault" describe a plausible bug each; nothing
uses them. Substituting one for the definition that follows it makes the named
property fail, which shows that the property depends on that line of the code.

### Outbox

A row is a proposal or the cancellation of one. The variables `status`, `error`,
`claimant`, `lease` and `drainRequired` are its columns; the claim token is named
by the process that drew it, which works on one claim of a row at a time. The
delivery task of a process is the program counter `pc` with `job` and `outcome`:

| `pc` | code |
|---|---|
| `idle` to `fence` | `acquire_setup_lock_for_creator_id`, the advisory lock |
| `fence` to `open` | the mutation lock, then `claim_for_creator` |
| `open` | decoding, the two deadline checks, `creator_adapter` |
| `refresh` | a cancellation's receive and projection; `rotation_cancellation_target_is_accepted` |
| `check` | `check_claim` before the registry, authorization, link and effect calls |
| `effect` | `propose_payment_request` or `cancel_payment_request` |
| `mark` | the one fenced transition |
| `send` | `send_handed_off_with_guard` |

Between these steps anything else may happen. `check_claim` runs before each of
several SDK calls that change nothing the model keeps; one check, the last,
stands for them. A lost lease makes the code report `Permanent`; the model calls
this outcome `lapsed` to be able to say that it never reaches a row.

The SDK is external. It is modelled as the adapter uses it: proposing under an
existing id returns the first record, messages to one Reader go in order, a call
may commit and still fail. `ReaderAnswers` is the Reader.

Time is abstracted. A lease counts ticks down to zero on the database clock; an
expiry passes once; a retry delay is the freedom of `Claim` not to happen yet.
A lease that runs out under a working task, a crash, a lost advisory lock and a
storage error count as faults, of which there are `MaxFaults`.

`Admit`, `Suppress`, `EnqueueCancellation`, `RequireForDrain` and
`FenceGeneration` are what the rest of the server does to these rows, at its most
liberal. `PaymentDrain` and `AccountRotation` replace them by the code that does
it.

### DrainLedger and PaymentDrain

`DrainLedger` is the record: `Freeze` stores a classification of each invoice of
the lock's generation, `Settle` is payment progress, `Replay` is `exact_replay`
with its count conditions (accepted, terminal and cancellation counts), `Cleanup`
is `cleanup_completed`. The cleanup token is the number of the drain.

`PaymentDrain` adds how a classification comes about: `BeginDrain` takes the
mutation lock and loads the receive targets, `RefreshDrain` receives and
projects, `CreateDrain` is the snapshot transaction with its recheck of the
targets, its classification and its cancellations. `LoseCreate` is the path of a
create that finds another process's drain. `FrozenSetsStand` is what
`validate_frozen_sets` compares whenever a drain is replayed, lost to or cleaned
up: each frozen cancellation still has its outbox row marked as the drain's. A
rotation acts on the same rows: `RotationCancels` enqueues a cancellation,
`RotationSuppresses` retires a proposal, whose invoice a drain then classifies as
canceled.

### Issuance and AccountRotation

`Issuance` is a Creator's account generation and next child index, the rows that
use them, and the requests at work. `ReadReceiving` is a request's preflight and
its read of the account; `CreateInvoice` (`create_atomic`) and `Prepare` are its
commit, under the Creator row lock; `EndRequest` is every other way it ends.
`LockPreparation` is the first half of a Marketplace transaction, which locks the
row and decides; `Activate`, `Void` and `Resolve` are its commit and
`AbortTransaction` its failure. The updates of `activate` and `void` name the row
by its id alone, so that only the row lock (`openTx`) keeps their decision true;
commits that take the Creator lock wait for an open activation
(`CreatorUnlocked`), and a rotation for every transaction on a preparation of the
account (`RotationLocked`). `create_atomic`, `prepare` and the rotation hold the
Creator lock from their first read to their commit and are one step each.
`InstallAccount` is what a rotation does to this state. An account is named by
its generation, and child indexes count from 1 so that 0 marks an unused
operation. Rows written before migration 0021, and their backfill, are left out.

`AccountRotation` joins it to delivery: an operation is named by its proposal, and
`published` is mapped to the proposals that have an outbox row. A resolution after
publication changes nothing that delivery or rotation reads, and is left to
`Issuance`.

| `rotPc` | code |
|---|---|
| `idle` to `fence` | `acquire_setup_lock`, the advisory lock delivery takes too |
| `fence` to `refresh` | the mutation lock, then `required_receive_targets_for_creator_rotation` |
| `refresh` | `reconcile_for_bitcoin_account_rotation` |
| `commit` | `rotate_bitcoin_account_after_receive` |

The transaction refuses when the evidence does not cover the targets found under
its own lock (`MayRotate`); it then retires (`Suppressed`), withdraws
(`Withdrawn`), voids and installs. The rotation items are read again by drains
and by the status of an invoice, to tell a request the rotation ended from one
that failed by itself; the model reads the same from the rows, a proposal with
the error class `bitcoin_account_rotated` and a cancellation no drain requires.

### Settlement

One invoice, of the classic or of the provider-v2 contract: `SettlementInit` chooses
the contract and, for provider-v2, the minimum of confirmations. `inv` holds the
invoice row and its observation rows; `LoadTargets`, `FenceTargets` and
`ApplyBatch` are the three database steps of an observer tick with the Electrum
call between the last two. Each element of `Observers` runs the loop, so that a
batch may be applied whose target was loaded before another batch rebound the
invoice. Observation rows keep the confirmations that were reported, a
provider-v2 sample at most `Final` of them. A transfer is timely from the second
in which the invoice was created (`CreatedSecond`), and then dates its first match
no earlier than the invoice (`Created`). `Applied` is one observation of a
batch: the three ignore rules, the new binding, the first-match facts,
`project_payments` and `project_provider_v2_sample`, in that order. `CreditReceipt`
and `ClearReceipt` are the USDT pass; its projection uses the application clock,
which may differ from the database clock by one tick either way. What the chains
report is unconstrained.

## Runs

| run | instance | states | shows |
|---|---|---|---|
| `OutboxTwoProcesses` | 2 processes, 1 proposal, 2 faults | 110 k | recorded outcomes are true and claims stable when tasks overlap |
| `OutboxCancellation` | 1 process, a provider-v2 proposal and its cancellation, 1 fault | 1.1 M | a drain's cancellation is never retired as obsolete |
| `OutboxLiveness` | 1 process, 1 proposal, 2 faults | 15 k | proposals settle, handoffs resolve |
| `OutboxProviderV2Cancellation` | provider-v2, no fault | | **violated**: see Findings |
| `DrainLedger` | 3 invoices, 2 drains | 3.9 k | replay is never refused, drains are monotone, cleanup is exact |
| `DrainCancellation` | 1 process, 1 proposal and cancellation, 2 drains | 1.0 M | no request escapes a drain; an active drain can always be replayed, its frozen cancellations and counts included; `PaymentDrain` implements `DrainLedger` |
| `DrainTwoProcesses` | 2 processes, 1 proposal, 1 fault, 1 drain | 610 k | the frozen set is complete by the drain's transactions alone |
| `Issuance` | an invoice and two preparations, one off Bitcoin, 2 rotations | 2.1 M | indexes are unique and none is lost, addresses accounted for, publication only on the account in use and never of a terminal preparation, whatever transactions are open |
| `Rotation` | 1 process, a preparation and its cancellation, 1 fault, 1 rotation | 854 k | nothing retired is proposed, everything open is withdrawn, nothing accepted is canceled; `AccountRotation` implements `Issuance` |
| `RotationLiveness` | 1 process, an invoice, 1 rotation | 69 k | rotation and delivery do not block each other |
| `SettlementTwoRails` | 1 observer, 2 outputs, 3 USDT transfers, deadline in mid-horizon | 25 k | no reopening, no paid invoice expired, evidence is earned once and by the sampled output, everything settles |
| `SettlementReplacement` | 2 observers, 3 outputs, one too small | 120 k | a confirmed full payment is not displaced, and a late absence of an older output changes nothing |

Bounds. One lease tick is enough for a lease to be live or lapsed; two for a
renewal to matter, which the liveness run uses. One proposal with its
cancellation has every interaction the code has between rows: rows of other
invoices meet it only through the fences, and through the counts of a drain,
for which `DrainLedger` has three invoices. Two drains let a delayed cleanup meet
a newer drain. Two full-value outputs and one too small give each ordering of
replacement; `Final` is 2 instead of 6, so that an output is unconfirmed,
confirmed or final, and `MaxConfirmations` 3 where a sample is cut to `Final`; the
clock is before, at or after the deadline. The three transfers are in the second
of the creation, after the deadline and before the invoice. Two observers are
enough for one to hold a stale target; their symmetry is sound because the run
checks no liveness. Two faults
let a retry fail again. Two rotations let a request that read the first account
commit under the third; with delivery one is enough, since a row is on the
account in use or on an older one. `Rotation` uses a preparation because its
proposal takes the path of an invoice's once it is activated, and has a life of
its own before; `RotationLiveness` uses an invoice.

Deadlock is not checked where the system may stop: after the last drain, or when
the clock has reached its horizon.

Fairness. `OutboxFairness` asks that scheduled tasks run (weak fairness of a
task's own steps), that a row that is due again and again is claimed (the claim
query orders by due time), that leases and expiries run on the database clock,
and that an SDK asked again and again about a message eventually sends or fails
it. Without the last, the code retries reconciliation for ever, as it should.
`RotationFairness` asks that a started task is scheduled and that the mutation
lock, a tokio mutex, reaches its waiters in order. `FairSettlementSpec` asks that
the clock runs, the observer ticks and a call ends; it does not ask that Electrum
ever answers.

## Proofs

`OutboxProofs` proves, for any sets of processes and rows, any lease and any
number of faults, that `Outbox` keeps `TypeOK`, `HandedOffOwnsMessage`,
`DeliveredWasSent`, `LapseNeverFailsRow`, `DrainCancellationNeverObsolete` and
`ClaimIsStable`, from `OutboxAssumption` alone. None of these is inductive.
`OutboxInvariant` adds what the tasks remember: an outcome `handed_off` is backed
by a message in the SDK (`OutcomeIsBacked`), a status `sent` that reconciliation
saw was sent (`SeenWasSent`), and a task with the outcome `lapsed` no longer holds
a live lease on its row (`LapsedLostLease`); this last needs that a lease of a
process is only ever taken for its current job. SDK facts only grow
(`SdkGrows`), so that what a stalled task saw stays true. `ClaimIsStable` lets a
live claim end by its own task or by a rotation, which retires the row.

`DrainLedgerProofs` proves `LedgerTypeOK`, `ReplayNeverRefused`,
`CompletedIsSettled`, `DrainIsMonotone` and `CleanupIsExact` for any finite set of
invoices. The inductive invariant `LedgerInvariant` bounds the stored counts by
the recomputed ones: items awaiting payment never exceed the accepted count, and
both pairs have the same sum, the number of items that were accepted or terminal
when frozen. The cancellation count equals the number of frozen cancellations.

`IssuanceProofs` proves all six properties of `Issuance` for any operations and
any number of rotations. `AddressIsAccountedFor` is nearly inductive;
`ChildIndexIsFresh` needs that every index given out is below the next one, and
`PublishedOnCurrentAccount` that a preparation still prepared records the
generation in use (`Bookkeeping`): activation does not compare generations, and
is right because rotation voids in the transaction that installs the account.
It and `TerminalStaysUnpublished` need in addition that a row lock has one holder
and that what an open activation read of its row is still so (`DecisionsStand`):
a commit may only change the row it holds.

Only model-checked: liveness (fairness and ENABLED are outside the prover),
`PaymentDrain`, `AccountRotation` and `Settlement`, and the three refinements.

## Findings

`OutboxProviderV2Cancellation`: `docs/outbox-recovery.md` says that cancellation
intents retry after the canceled request's payment deadline, and a comment in
`workers/outbox.rs` that a payment deadline must not strand one. The adapter
checks the provider-v2 deadline of every claimed row (`paykit.rs`,
`execute_claimed_handoff_with_guard`), so the cancellation of a provider-v2
invoice first claimed after the deadline fails permanently as `proposal_expired`.

With two processes `FencedRequestHasLifecycle` does not hold: the mutation lock is
local to a process, so a drain can snapshot a lock while another process is
between its generation check and the SDK call. This is the case the
single-process rule excludes, and not a finding. For the same reason
`Rotation` has one process: when the advisory lock's connection is lost under a
rotation, another process may deliver a proposal the rotation retires.

## Plan

1. Marketplace payments: observation, the settlement row and the status response.
2. Lifecycle projection in full: event cursors, replay, recovery and conflict.
3. Scheduling: bounded task sets, wake-ups, shutdown and readiness.
4. Invoice creation in full: Reader assignments and replay by bundle, and
   provider-v2 creation with its deadline gate.
5. Setup sessions, credentials and allowances.
6. Proofs: `PaymentDrain` implements `DrainLedger`; `AccountRotation` implements
   `Issuance`; `Settlement` implements `PaymentOutcome`; the invariants of the
   modules above.

Left out for good: HTTP parsing and error mapping, cryptography and envelopes,
configuration, metrics, database migrations, the Reader demo. They hold no state
that the operations above share.

---------------------------- MODULE DrainLedger ----------------------------
(***************************************************************************)
(* The durable record of a lock's payment drains: PaymentDrainStore.       *)
(*                                                                         *)
(* Creating a drain freezes a classification of every invoice of the       *)
(* lock's current generation.  Payment observation then settles frozen     *)
(* accepted invoices, exact replay brings the stored aggregate up to date, *)
(* and cleanup deletes a completed drain and opens the next generation.    *)
(* How an invoice comes by its classification is PaymentDrain's business;  *)
(* here any classification may be frozen.                                  *)
(***************************************************************************)
EXTENDS Naturals, FiniteSets

CONSTANTS
    Invoices,
    MaxDrains         \* bound on the drain cycles of the lock

ASSUME LedgerAssumption ==
    /\ IsFiniteSet(Invoices)
    /\ MaxDrains \in Nat

VARIABLES
    fenced,          \* invoices of generations that are or were drained
    cycle,           \* drains created so far; names the active drain's id and token
    active,          \* lock_payment_generations.active_drain_id is set
    item,            \* payment_drain_items.classification
    acceptedCount, terminalCount, cancellationCount, completed,  \* payment_drains
    receipt,         \* lock_payment_generations.last_cleanup_token; 0 is NULL
    settled          \* what payment observation knows of each invoice

ledgerRow == <<cycle, active, item, acceptedCount, terminalCount, cancellationCount,
               completed, receipt>>
ledgerVars == <<fenced, ledgerRow, settled>>

TerminalClass == {"rejected", "canceled", "proposal_expired"}
Classification == TerminalClass \cup {"accepted", "cancellation_enqueued"}

\* Type invariant; payment_drain_items.classification is one of the five the
\* table admits (migration 0005).
LedgerTypeOK ==
    /\ fenced \subseteq Invoices
    /\ cycle \in 0..MaxDrains
    /\ active \in BOOLEAN
    /\ item \in [Invoices -> Classification \cup {"none"}]
    /\ acceptedCount \in Nat
    /\ terminalCount \in Nat
    /\ cancellationCount \in Nat
    /\ completed \in BOOLEAN
    /\ receipt \in 0..MaxDrains
    /\ settled \in [Invoices -> {"open", "timely", "expired"}]

LedgerInit ==
    /\ fenced = {}
    /\ cycle = 0
    /\ active = FALSE
    /\ item = [i \in Invoices |-> "none"]
    /\ acceptedCount = 0
    /\ terminalCount = 0
    /\ cancellationCount = 0
    /\ completed = FALSE
    /\ receipt = 0
    /\ settled = [i \in Invoices |-> "open"]

\* Seeded faults: a second drain may replace the active one; an invoice left out
\* of the drain gets a classification the column does not know.
MayFreezeAgain == cycle < MaxDrains
SnapshotUnchecked(S, class) ==
    [i \in Invoices |-> IF i \in S THEN class[i] ELSE "unclassified"]

MayFreeze == ~active /\ cycle < MaxDrains

Snapshot(S, class) == [i \in Invoices |-> IF i \in S THEN class[i] ELSE "none"]

\* The snapshot transaction over the invoices S of the current generation.  It
\* counts accepted invoices whatever is known of their payment.
Freeze(S, class) ==
    LET accepted == {i \in S : class[i] = "accepted"} IN
    /\ MayFreeze
    /\ cycle' = cycle + 1
    /\ active' = TRUE
    /\ item' = Snapshot(S, class)
    /\ acceptedCount' = Cardinality(accepted)
    /\ terminalCount' = Cardinality({i \in S : class[i] \in TerminalClass})
    /\ cancellationCount' = Cardinality({i \in S : class[i] = "cancellation_enqueued"})
    /\ completed' = (accepted = {})
    /\ fenced' = fenced \cup S
    /\ UNCHANGED <<receipt, settled>>

\* What replay and cleanup count again.  A drain has one cancellation of each
\* invoice it froze as a proposal (payment_drain_cancellations).
CancellationItems == {i \in Invoices : item[i] = "cancellation_enqueued"}

AwaitingPayment == {i \in Invoices : item[i] = "accepted" /\ settled[i] = "open"}

\* Seeded fault: settled payments are not counted as terminal.
TerminalItemsFrozen == {i \in Invoices : item[i] \in TerminalClass}

TerminalItems ==
    {i \in Invoices :
        \/ item[i] \in TerminalClass
        \/ item[i] = "accepted" /\ settled[i] # "open"}

\* The condition under which exact_replay accepts what it counted.
ReplayAdmits ==
    /\ Cardinality(CancellationItems) = cancellationCount
    /\ Cardinality(AwaitingPayment) <= acceptedCount
    /\ Cardinality(TerminalItems) >= terminalCount
    /\ Cardinality(TerminalItems) + Cardinality(AwaitingPayment)
         = terminalCount + acceptedCount

\* exact_replay, from a lookup, from a repeated create, or for a create that lost.
Replay ==
    /\ active
    /\ ReplayAdmits
    /\ acceptedCount' = Cardinality(AwaitingPayment)
    /\ terminalCount' = Cardinality(TerminalItems)
    /\ completed' = (AwaitingPayment = {})
    /\ UNCHANGED <<fenced, cycle, active, item, cancellationCount, receipt, settled>>

\* Seeded fault: any token cleans the active drain.
MayCleanupAny(t) == active /\ completed /\ acceptedCount = 0

\* Counts that payment progress has overtaken are refused until a replay.
MayCleanup(t) ==
    /\ active
    /\ t = cycle
    /\ acceptedCount = Cardinality(AwaitingPayment)
    /\ terminalCount = Cardinality(TerminalItems)
    /\ cancellationCount = Cardinality(CancellationItems)
    /\ completed
    /\ acceptedCount = 0

\* cleanup_completed with the token of drain t.  A repeated cleanup changes nothing.
Cleanup(t) ==
    /\ MayCleanup(t)
    /\ receipt' = t
    /\ active' = FALSE
    /\ item' = [i \in Invoices |-> "none"]
    /\ acceptedCount' = 0
    /\ terminalCount' = 0
    /\ cancellationCount' = 0
    /\ completed' = FALSE
    /\ UNCHANGED <<fenced, cycle, settled>>

\* Seeded fault: observation reopens an invoice.
SettleAgain(i) ==
    /\ \E s \in {"open", "timely", "expired"} : settled' = [settled EXCEPT ![i] = s]
    /\ UNCHANGED <<fenced, ledgerRow>>

\* A step of payment observation, as PaymentOutcome promises it of each invoice.
Settle(i) ==
    /\ \/ settled[i] = "open" /\ settled' = [settled EXCEPT ![i] = "expired"]
       \/ settled[i] # "timely" /\ settled' = [settled EXCEPT ![i] = "timely"]
    /\ UNCHANGED <<fenced, ledgerRow>>

LedgerNext ==
    \/ \E S \in SUBSET (Invoices \ fenced) :
        \E class \in [S -> Classification] : Freeze(S, class)
    \/ Replay
    \/ \E t \in 1..MaxDrains : Cleanup(t)
    \/ \E i \in Invoices : Settle(i)

LedgerSpec == LedgerInit /\ [][LedgerNext]_ledgerVars

-----------------------------------------------------------------------------
(***************************************************************************)
(* Properties.                                                             *)
(***************************************************************************)

\* Exact replay of an active drain never finds counts it must refuse: payment
\* progress only moves frozen items from awaiting to terminal (exact_replay).
ReplayNeverRefused == active => ReplayAdmits

\* While a drain is active its items are frozen, its accepted count never grows
\* and its completion is irreversible (exact_replay, requirement 16).
DrainIsMonotone ==
    [][active /\ active' =>
        /\ item' = item
        /\ acceptedCount' <= acceptedCount
        /\ completed => completed']_ledgerVars

\* A completed drain has no invoice that can still be paid, whatever payment
\* observation does after the completion was recorded (exact_replay).
CompletedIsSettled == active /\ completed => AwaitingPayment = {}

\* Cleanup removes the one drain its token names (cleanup_completed).
CleanupIsExact ==
    [][active /\ ~active' => receipt' = cycle /\ AwaitingPayment = {}]_ledgerVars
=============================================================================

------------------------- MODULE DrainLedgerProofs -------------------------
(***************************************************************************)
(* What DrainLedger promises, for any finite number of invoices and any    *)
(* number of drains.                                                       *)
(*                                                                         *)
(* ReplayAdmits compares stored counts with recounted ones, and is not     *)
(* inductive by itself.  LedgerInvariant ties the stored counts to the     *)
(* frozen items: their sum is the number of items that are accepted or     *)
(* terminal, which nothing changes while the drain is active, no more      *)
(* invoices await payment than the accepted count says, and as many were   *)
(* frozen as proposals as the cancellation count says.                     *)
(***************************************************************************)
EXTENDS DrainLedger, FiniteSetTheorems, TLAPS

CountedItems == {i \in Invoices : item[i] \in TerminalClass \cup {"accepted"}}

LedgerInvariant ==
    /\ LedgerTypeOK
    /\ active =>
        /\ Cardinality(AwaitingPayment) <= acceptedCount
        /\ terminalCount + acceptedCount = Cardinality(CountedItems)
        /\ cancellationCount = Cardinality(CancellationItems)
        /\ completed <=> acceptedCount = 0

-----------------------------------------------------------------------------

\* A finite set split in two is counted by its parts; replay counts frozen items
\* in this way (exact_replay).
LEMMA SplitCount ==
    ASSUME NEW A, NEW B, IsFiniteSet(A), IsFiniteSet(B), A \cap B = {}
    PROVE  /\ Cardinality(A \cup B) \in Nat
           /\ Cardinality(A \cup B) = Cardinality(A) + Cardinality(B)
<1>1. Cardinality(A \cap B) = 0
  BY FS_EmptySet
<1>2. /\ Cardinality(A \cup B) = Cardinality(A) + Cardinality(B) - Cardinality(A \cap B)
      /\ IsFiniteSet(A \cup B)
  BY FS_Union
<1>3. /\ Cardinality(A) \in Nat
      /\ Cardinality(B) \in Nat
      /\ Cardinality(A \cup B) \in Nat
  BY <1>2, FS_CardinalityType
<1> QED
  BY <1>1, <1>2, <1>3

\* Every count of the ledger is the cardinality of a finite set of invoices.
LEMMA SubsetCount ==
    ASSUME NEW S, S \subseteq Invoices
    PROVE  IsFiniteSet(S) /\ Cardinality(S) \in Nat
<1>1. IsFiniteSet(S)
  BY LedgerAssumption, FS_Subset DEF LedgerAssumption
<1> QED
  BY <1>1, FS_CardinalityType

\* Recounting splits the counted items into the terminal ones and the ones that
\* await payment (exact_replay, cleanup_completed).
LEMMA Recount ==
    ASSUME settled \in [Invoices -> {"open", "timely", "expired"}]
    PROVE  /\ Cardinality(AwaitingPayment) \in Nat
           /\ Cardinality(TerminalItems) \in Nat
           /\ Cardinality(CountedItems) \in Nat
           /\ Cardinality(TerminalItems) + Cardinality(AwaitingPayment)
                = Cardinality(CountedItems)
<1>1. /\ TerminalItems \cap AwaitingPayment = {}
      /\ TerminalItems \cup AwaitingPayment = CountedItems
  BY DEF TerminalItems, AwaitingPayment, CountedItems, TerminalClass
<1>2. /\ IsFiniteSet(TerminalItems) /\ Cardinality(TerminalItems) \in Nat
      /\ IsFiniteSet(AwaitingPayment) /\ Cardinality(AwaitingPayment) \in Nat
  BY SubsetCount DEF TerminalItems, AwaitingPayment
<1> QED
  BY <1>1, <1>2, SplitCount

\* The invariant is strong enough for exact replay to accept its recount, and for
\* a completed drain to have nothing outstanding (exact_replay).
LEMMA InvariantSuffices ==
    ASSUME LedgerInvariant
    PROVE  LedgerTypeOK /\ ReplayNeverRefused /\ CompletedIsSettled
<1>1. /\ Cardinality(AwaitingPayment) \in Nat
      /\ Cardinality(TerminalItems) \in Nat
      /\ Cardinality(TerminalItems) + Cardinality(AwaitingPayment)
           = Cardinality(CountedItems)
      /\ acceptedCount \in Nat /\ terminalCount \in Nat
  BY Recount DEF LedgerInvariant, LedgerTypeOK
<1>2. ReplayNeverRefused
  BY <1>1 DEF LedgerInvariant, ReplayNeverRefused, ReplayAdmits
<1>3. CompletedIsSettled
  <2> SUFFICES ASSUME active, completed PROVE AwaitingPayment = {}
    BY DEF CompletedIsSettled
  <2>1. Cardinality(AwaitingPayment) = 0
    BY <1>1 DEF LedgerInvariant
  <2>2. IsFiniteSet(AwaitingPayment)
    BY SubsetCount DEF AwaitingPayment
  <2> QED
    BY <2>1, <2>2, FS_EmptySet
<1> QED
  BY <1>2, <1>3 DEF LedgerInvariant

-----------------------------------------------------------------------------

\* Freezing a snapshot stores counts that agree with the items (create_inner).
LEMMA FreezeKeeps ==
    ASSUME LedgerInvariant,
           NEW S \in SUBSET (Invoices \ fenced),
           NEW class \in [S -> Classification],
           Freeze(S, class)
    PROVE  LedgerInvariant'
<1> DEFINE A == {i \in S : class[i] = "accepted"}
           T == {i \in S : class[i] \in TerminalClass}
           C == {i \in S : class[i] = "cancellation_enqueued"}
<1>1. /\ S \subseteq Invoices
      /\ A \cap T = {}
      /\ CountedItems' = T \cup A
      /\ AwaitingPayment' \subseteq A
  BY DEF LedgerInvariant, LedgerTypeOK, Freeze, Snapshot, CountedItems, AwaitingPayment,
         TerminalClass, Classification
<1>c. CancellationItems' = C
  BY DEF LedgerInvariant, LedgerTypeOK, Freeze, Snapshot, CancellationItems
<1>2. /\ IsFiniteSet(A) /\ Cardinality(A) \in Nat
      /\ IsFiniteSet(T) /\ Cardinality(T) \in Nat
      /\ Cardinality(C) \in Nat
  BY <1>1, SubsetCount
<1>3. /\ acceptedCount' = Cardinality(A) /\ terminalCount' = Cardinality(T)
      /\ cancellationCount' = Cardinality(C)
  BY DEF Freeze
<1>4. Cardinality(AwaitingPayment') <= Cardinality(A)
  BY <1>1, <1>2, FS_Subset
<1>5. Cardinality(CountedItems') = Cardinality(T) + Cardinality(A)
  BY <1>1, <1>2, SplitCount
<1>6. completed' <=> acceptedCount' = 0
  <2>1. Cardinality(A) = 0 <=> A = {}
    BY <1>2, FS_EmptySet
  <2> QED
    BY <1>3, <2>1 DEF Freeze
<1>7. LedgerTypeOK'
  <2>1. item' \in [Invoices -> Classification \cup {"none"}]
    BY DEF Freeze, Snapshot
  <2>2. cycle' \in 0..MaxDrains
    BY LedgerAssumption DEF LedgerInvariant, LedgerTypeOK, Freeze, MayFreeze, LedgerAssumption
  <2>3. completed' \in BOOLEAN /\ active' \in BOOLEAN
    BY DEF Freeze
  <2> QED
    BY <1>1, <1>2, <1>3, <2>1, <2>2, <2>3 DEF LedgerInvariant, LedgerTypeOK, Freeze
<1> QED
  BY <1>c, <1>3, <1>4, <1>5, <1>6, <1>7 DEF LedgerInvariant

\* Replay stores the recount (exact_replay).
LEMMA ReplayKeeps ==
    ASSUME LedgerInvariant, Replay
    PROVE  LedgerInvariant'
<1>1. /\ Cardinality(AwaitingPayment) \in Nat
      /\ Cardinality(TerminalItems) \in Nat
      /\ Cardinality(TerminalItems) + Cardinality(AwaitingPayment)
           = Cardinality(CountedItems)
  BY Recount DEF LedgerInvariant, LedgerTypeOK
<1>2. /\ AwaitingPayment' = AwaitingPayment /\ CountedItems' = CountedItems
      /\ CancellationItems' = CancellationItems
  BY DEF Replay, AwaitingPayment, CountedItems, CancellationItems
<1>3. Cardinality(AwaitingPayment) = 0 <=> AwaitingPayment = {}
  <2>1. IsFiniteSet(AwaitingPayment)
    BY SubsetCount DEF AwaitingPayment
  <2> QED
    BY <2>1, FS_EmptySet
<1>4. LedgerTypeOK'
  BY <1>1 DEF Replay, LedgerInvariant, LedgerTypeOK
<1>5. acceptedCount' = Cardinality(AwaitingPayment)
      /\ terminalCount' = Cardinality(TerminalItems)
      /\ completed' = (AwaitingPayment = {})
      /\ cancellationCount' = cancellationCount /\ active
  BY DEF Replay
<1>6. completed' <=> acceptedCount' = 0
  BY <1>3, <1>5
<1>7. /\ Cardinality(AwaitingPayment') <= acceptedCount'
      /\ terminalCount' + acceptedCount' = Cardinality(CountedItems')
      /\ cancellationCount' = Cardinality(CancellationItems')
  BY <1>1, <1>2, <1>5 DEF LedgerInvariant
<1> QED
  BY <1>4, <1>6, <1>7 DEF LedgerInvariant

\* Cleanup leaves no active drain (cleanup_completed).
LEMMA CleanupKeeps ==
    ASSUME LedgerInvariant, NEW t \in 1..MaxDrains, Cleanup(t)
    PROVE  LedgerInvariant'
<1>1. item' \in [Invoices -> Classification \cup {"none"}]
  BY DEF Cleanup
<1>2. receipt' \in 0..MaxDrains
  BY LedgerAssumption DEF Cleanup, LedgerAssumption
<1>3. acceptedCount' \in Nat /\ terminalCount' \in Nat /\ cancellationCount' \in Nat
  BY DEF Cleanup
<1>4. active' = FALSE /\ completed' \in BOOLEAN
  BY DEF Cleanup
<1>5. LedgerTypeOK'
  BY <1>1, <1>2, <1>3, <1>4 DEF Cleanup, LedgerInvariant, LedgerTypeOK
<1> QED
  BY <1>4, <1>5 DEF LedgerInvariant

\* Payment progress only takes invoices out of the set that awaits payment
\* (project_payments, observation_targets).
LEMMA SettleKeeps ==
    ASSUME LedgerInvariant, NEW i \in Invoices, Settle(i)
    PROVE  LedgerInvariant'
<1>1. LedgerTypeOK'
  BY DEF Settle, ledgerRow, LedgerInvariant, LedgerTypeOK
<1>2. /\ AwaitingPayment' \subseteq AwaitingPayment
      /\ CountedItems' = CountedItems
      /\ CancellationItems' = CancellationItems
  BY DEF Settle, ledgerRow, LedgerInvariant, LedgerTypeOK, AwaitingPayment, CountedItems,
         CancellationItems
<1>3. IsFiniteSet(AwaitingPayment) /\ Cardinality(AwaitingPayment) \in Nat
  BY SubsetCount DEF AwaitingPayment
<1>4. /\ Cardinality(AwaitingPayment') <= Cardinality(AwaitingPayment)
      /\ Cardinality(AwaitingPayment') \in Nat
  <2>1. IsFiniteSet(AwaitingPayment')
    BY <1>2, <1>3, FS_Subset
  <2> QED
    BY <1>2, <1>3, <2>1, FS_Subset, FS_CardinalityType
<1> QED
  BY <1>1, <1>2, <1>3, <1>4 DEF Settle, ledgerRow, LedgerInvariant, LedgerTypeOK

\* Every step of the ledger keeps the invariant.
LEMMA LedgerInductive ==
    LedgerInvariant /\ [LedgerNext]_ledgerVars => LedgerInvariant'
<1> SUFFICES ASSUME LedgerInvariant, [LedgerNext]_ledgerVars
             PROVE  LedgerInvariant'
  OBVIOUS
<1>1. ASSUME NEW S \in SUBSET (Invoices \ fenced), NEW class \in [S -> Classification],
             Freeze(S, class)
      PROVE  LedgerInvariant'
  BY <1>1, FreezeKeeps
<1>2. CASE Replay
  BY <1>2, ReplayKeeps
<1>3. ASSUME NEW t \in 1..MaxDrains, Cleanup(t)
      PROVE  LedgerInvariant'
  BY <1>3, CleanupKeeps
<1>4. ASSUME NEW i \in Invoices, Settle(i)
      PROVE  LedgerInvariant'
  BY <1>4, SettleKeeps
<1>5. CASE UNCHANGED ledgerVars
  BY <1>5 DEF ledgerVars, ledgerRow, LedgerInvariant, LedgerTypeOK, AwaitingPayment,
              CountedItems, CancellationItems
<1> QED
  BY <1>1, <1>2, <1>3, <1>4, <1>5 DEF LedgerNext

\* The invariant holds of a lock that was never drained.
LEMMA LedgerStarts == LedgerInit => LedgerInvariant
<1> SUFFICES ASSUME LedgerInit PROVE LedgerInvariant
  OBVIOUS
<1>1. /\ item \in [Invoices -> Classification \cup {"none"}]
      /\ settled \in [Invoices -> {"open", "timely", "expired"}]
      /\ fenced \subseteq Invoices
  BY DEF LedgerInit
<1>2. /\ cycle \in 0..MaxDrains /\ receipt \in 0..MaxDrains
      /\ acceptedCount \in Nat /\ terminalCount \in Nat /\ cancellationCount \in Nat
  BY LedgerAssumption DEF LedgerInit, LedgerAssumption
<1>3. active = FALSE /\ completed = FALSE
  BY DEF LedgerInit
<1> QED
  BY <1>1, <1>2, <1>3 DEF LedgerInvariant, LedgerTypeOK

\* The strengthened invariant of the ledger holds throughout.
LEMMA LedgerInvariantHolds == LedgerSpec => []LedgerInvariant
BY LedgerStarts, LedgerInductive, PTL DEF LedgerSpec

-----------------------------------------------------------------------------

\* The columns of a drain stay within what they may hold (PaymentDrainStore).
THEOREM LedgerTyped == LedgerSpec => []LedgerTypeOK
BY LedgerInvariantHolds, InvariantSuffices, PTL

\* Exact replay of an active drain never finds counts it must refuse, however many
\* invoices were frozen and in whatever order they settle (exact_replay).
THEOREM ReplayIsSafe == LedgerSpec => []ReplayNeverRefused
BY LedgerInvariantHolds, InvariantSuffices, PTL

\* A completed drain has no invoice left that may still be paid (exact_replay,
\* cleanup_completed).
THEOREM CompletionIsFinal == LedgerSpec => []CompletedIsSettled
BY LedgerInvariantHolds, InvariantSuffices, PTL

\* While a drain is active its items are frozen, its accepted count never grows and
\* its completion is irreversible (exact_replay).
THEOREM DrainOnlyAdvances == LedgerSpec => DrainIsMonotone
<1> DEFINE Step == active /\ active' =>
                /\ item' = item
                /\ acceptedCount' <= acceptedCount
                /\ completed => completed'
<1>1. LedgerInvariant /\ [LedgerNext]_ledgerVars => [Step]_ledgerVars
  <2> SUFFICES ASSUME LedgerInvariant, LedgerNext, active, active'
               PROVE  /\ item' = item
                      /\ acceptedCount' <= acceptedCount
                      /\ completed => completed'
    OBVIOUS
  <2>1. acceptedCount \in Nat
    BY DEF LedgerInvariant, LedgerTypeOK
  <2>2. CASE \E S \in SUBSET (Invoices \ fenced) :
               \E class \in [S -> Classification] : Freeze(S, class)
    BY <2>2 DEF Freeze, MayFreeze
  <2>3. CASE Replay
    <3>1. completed => AwaitingPayment = {}
      BY InvariantSuffices DEF CompletedIsSettled
    <3> QED
      BY <2>3, <3>1 DEF Replay, ReplayAdmits
  <2>4. CASE \E t \in 1..MaxDrains : Cleanup(t)
    BY <2>4 DEF Cleanup
  <2>5. CASE \E i \in Invoices : Settle(i)
    BY <2>1, <2>5 DEF Settle, ledgerRow
  <2> QED
    BY <2>2, <2>3, <2>4, <2>5 DEF LedgerNext
<1>2. LedgerSpec => [][Step]_ledgerVars
  BY <1>1, LedgerInvariantHolds, PTL DEF LedgerSpec
<1> QED
  BY <1>2 DEF DrainIsMonotone

\* Cleanup removes the one drain its token names, and only once nothing in it
\* awaits payment (cleanup_completed).
THEOREM CleanupExact == LedgerSpec => CleanupIsExact
<1> DEFINE Step == active /\ ~active' => receipt' = cycle /\ AwaitingPayment = {}
<1>1. LedgerInvariant /\ [LedgerNext]_ledgerVars => [Step]_ledgerVars
  <2> SUFFICES ASSUME LedgerInvariant, LedgerNext, active, ~active'
               PROVE  receipt' = cycle /\ AwaitingPayment = {}
    OBVIOUS
  <2>1. PICK t \in 1..MaxDrains : Cleanup(t)
    BY DEF LedgerNext, Freeze, MayFreeze, Replay, Settle, ledgerRow
  <2>2. completed /\ receipt' = cycle
    BY <2>1 DEF Cleanup, MayCleanup
  <2> QED
    BY <2>2, InvariantSuffices DEF CompletedIsSettled
<1>2. LedgerSpec => [][Step]_ledgerVars
  BY <1>1, LedgerInvariantHolds, PTL DEF LedgerSpec
<1> QED
  BY <1>2 DEF CleanupIsExact
=============================================================================

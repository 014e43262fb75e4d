--------------------------- MODULE IssuanceProofs ---------------------------
(***************************************************************************)
(* Proofs of the safety of issuance, for any operations and any number of  *)
(* rotations.                                                              *)
(***************************************************************************)
EXTENDS Issuance, TLAPS

\* Every index given out is below the next one, and a preparation that is still
\* prepared belongs to the account in use.
Bookkeeping ==
    /\ \A i \in Operations : child[i] < nextChild
    /\ \A i \in Marketplace : prep[i] = "prepared" => i \in Issued
    /\ \A i \in Marketplace \cap OnBitcoin :
        prep[i] = "prepared" => recorded[i] = generation

\* The row lock of a preparation has one holder, and what an activation read of
\* its row still holds when it commits.
DecisionsStand ==
    /\ \A s, t \in openTx : s[1] = t[1] => s = t
    /\ \A i \in Marketplace :
        <<i, "activate">> \in openTx => prep[i] = "prepared" /\ i \notin resolved

IssuanceInv ==
    /\ IssuanceTypeOK
    /\ Bookkeeping
    /\ DecisionsStand
    /\ AddressIsAccountedFor
    /\ ChildIndexIsFresh
    /\ NoIndexIsLost

-----------------------------------------------------------------------------

\* The initial state of issuance satisfies the invariant (empty tables).
LEMMA InvInit ==
    IssuanceInit => IssuanceInv
<1> SUFFICES ASSUME IssuanceInit PROVE IssuanceInv
    OBVIOUS
<1>1. IssuanceTypeOK
    BY IssuanceAssumption DEF IssuanceInit, IssuanceTypeOK
<1>2. Issued = {}
    BY DEF IssuanceInit, Issued
<1>3. Bookkeeping
    BY IssuanceAssumption DEF IssuanceInit, Bookkeeping
<1>4. AddressIsAccountedFor /\ ChildIndexIsFresh
    BY <1>2 DEF AddressIsAccountedFor, ChildIndexIsFresh
<1>5. DecisionsStand /\ NoIndexIsLost
    BY DEF IssuanceInit, DecisionsStand, NoIndexIsLost
<1> QED
    BY <1>1, <1>3, <1>4, <1>5 DEF IssuanceInv

\* What a commit that issues an address does to the rows (create_atomic, prepare):
\* one row of an unissued operation is filled, with the generation that was found.
LEMMA DeriveEffect ==
    ASSUME IssuanceInv, NEW q \in quoted, MayIssue(q), Derive(q)
    PROVE  /\ q[1] \in Operations
           /\ q[2] \in 0..generation
           /\ child[q[1]] = 0
           /\ child' \in [Operations -> Nat]
           /\ nextChild' = nextChild + 1
           /\ generation' = generation
           /\ \A i \in Operations :
                /\ child'[i] = IF i = q[1] THEN nextChild ELSE child[i]
                /\ account'[i] = IF i = q[1] THEN q[2] ELSE account[i]
                /\ recorded'[i] = IF i = q[1] THEN generation ELSE recorded[i]
<1>1. q \in Operations \X (0..generation)
    BY DEF IssuanceInv, IssuanceTypeOK
<1>2. q[1] \in Operations /\ q[2] \in 0..generation
    BY <1>1
<1>3. child \in [Operations -> Nat] /\ nextChild \in Nat
    BY DEF IssuanceInv, IssuanceTypeOK
<1>4. child[q[1]] = 0
    BY <1>2, <1>3 DEF MayIssue, Issued
<1> QED
    BY <1>2, <1>3, <1>4 DEF IssuanceInv, IssuanceTypeOK, Derive

\* A commit that issues an address keeps the types of the rows.
LEMMA DeriveTypes ==
    ASSUME IssuanceInv, NEW q \in quoted, MayIssue(q), Derive(q)
    PROVE  /\ generation' \in 0..MaxRotations
           /\ nextChild' \in Nat \ {0}
           /\ quoted' \subseteq Operations \X (0..generation')
           /\ account' \in [Operations -> 0..generation']
           /\ child' \in [Operations -> Nat]
           /\ recorded' \in [Operations -> 0..generation']
<1>1. generation \in 0..generation /\ q[2] \in 0..generation
    BY DeriveEffect, IssuanceAssumption DEF IssuanceInv, IssuanceTypeOK
<1> QED
    BY <1>1, DeriveEffect DEF IssuanceInv, IssuanceTypeOK, Derive

\* The index a commit gives out is new, and the row it writes is on the account
\* it records (create_atomic, prepare).
LEMMA DeriveIsSound ==
    ASSUME IssuanceInv, NEW q \in quoted, MayIssue(q), Derive(q)
    PROVE  /\ \A i \in Operations : child'[i] < nextChild'
           /\ AddressIsAccountedFor'
           /\ ChildIndexIsFresh'
           /\ NoIndexIsLost'
<1>1. child \in [Operations -> Nat] /\ nextChild \in Nat \ {0}
    BY DEF IssuanceInv, IssuanceTypeOK
<1>2. \A i \in Operations : child[i] < nextChild
    BY DEF IssuanceInv, Bookkeeping
<1>3. \A i \in Operations : child'[i] < nextChild'
    BY <1>1, <1>2, DeriveEffect
<1>4. ASSUME NEW i \in Issued', NEW j \in Issued', i # j
      PROVE  child'[i] # child'[j]
    <2>1. i \in Operations /\ j \in Operations /\ child'[i] > 0 /\ child'[j] > 0
        BY <1>4 DEF Issued
    <2>2. i # q[1] => i \in Issued
        BY <2>1, DeriveEffect DEF Issued
    <2>3. j # q[1] => j \in Issued
        BY <2>1, DeriveEffect DEF Issued
    <2>4. CASE i # q[1] /\ j # q[1]
        BY <1>4, <2>1, <2>2, <2>3, <2>4, DeriveEffect DEF IssuanceInv, ChildIndexIsFresh
    <2>5. CASE i = q[1]
        BY <1>1, <1>2, <1>4, <2>1, <2>5, DeriveEffect
    <2>6. CASE j = q[1]
        BY <1>1, <1>2, <1>4, <2>1, <2>6, DeriveEffect
    <2> QED
        BY <2>4, <2>5, <2>6
<1>5. ASSUME NEW i \in Issued' \cap OnBitcoin
      PROVE  account'[i] = recorded'[i]
    <2>1. i \in Operations /\ i \in OnBitcoin /\ child'[i] > 0
        BY <1>5 DEF Issued
    <2>2. CASE i = q[1]
        BY <2>1, <2>2, DeriveEffect DEF MayIssue
    <2>3. CASE i # q[1]
        <3>1. i \in Issued
            BY <2>1, <2>3, DeriveEffect DEF Issued
        <3> QED
            BY <2>1, <2>3, <3>1, DeriveEffect DEF IssuanceInv, AddressIsAccountedFor
    <2> QED
        BY <2>2, <2>3
<1>6. ASSUME NEW n \in 1..(nextChild' - 1)
      PROVE  \E i \in Operations : child'[i] = n
    <2>1. n \in Nat /\ n > 0 /\ n <= nextChild
        BY <1>1, DeriveEffect
    <2>2. CASE n = nextChild
        BY <2>2, DeriveEffect
    <2>3. CASE n # nextChild
        <3>1. n \in 1..(nextChild - 1)
            BY <1>1, <2>1, <2>3
        <3>2. PICK i \in Operations : child[i] = n
            BY <3>1 DEF IssuanceInv, NoIndexIsLost
        <3>3. i # q[1]
            BY <2>1, <3>2, DeriveEffect
        <3> QED
            BY <3>2, <3>3, DeriveEffect
    <2> QED
        BY <2>2, <2>3
<1> QED
    BY <1>3, <1>4, <1>5, <1>6 DEF AddressIsAccountedFor, ChildIndexIsFresh, NoIndexIsLost

\* A step that writes no row and gives out no index keeps what the rows promise
\* (every action but create_atomic and prepare).
LEMMA RowsUntouched ==
    ASSUME IssuanceInv, UNCHANGED <<nextChild, storedVars>>
    PROVE  /\ Issued' = Issued
           /\ \A i \in Operations : child'[i] < nextChild'
           /\ AddressIsAccountedFor'
           /\ ChildIndexIsFresh'
           /\ NoIndexIsLost'
BY DEF IssuanceInv, Bookkeeping, AddressIsAccountedFor, ChildIndexIsFresh, NoIndexIsLost,
       Issued, storedVars

\* A step that opens no transaction keeps every decision whose row it leaves alone
\* (create_atomic, prepare, and the end of a transaction on a preparation).
LEMMA DecisionsKept ==
    ASSUME DecisionsStand, openTx' \subseteq openTx,
           \A i \in Marketplace :
             <<i, "activate">> \in openTx' =>
                /\ prep[i] = "prepared" => prep'[i] = "prepared"
                /\ i \notin resolved => i \notin resolved'
    PROVE  DecisionsStand'
BY DEF DecisionsStand

\* Reading the receiving details, and giving up, change only the requests at work.
LEMMA RequestsKeepInv ==
    ASSUME IssuanceInv, quoted' \subseteq Operations \X (0..generation),
           UNCHANGED <<creatorVars, storedVars, prepVars, published>>
    PROVE  IssuanceInv'
<1>1. IssuanceTypeOK'
    BY DEF IssuanceInv, IssuanceTypeOK, creatorVars, storedVars, prepVars
<1>2. UNCHANGED <<nextChild, storedVars>>
    BY DEF creatorVars
<1>3. Bookkeeping'
    BY <1>2, RowsUntouched
    DEF IssuanceInv, Bookkeeping, creatorVars, storedVars, prepVars
<1>4. DecisionsStand'
    BY DEF IssuanceInv, DecisionsStand, prepVars
<1> QED
    BY <1>1, <1>2, <1>3, <1>4, RowsUntouched DEF IssuanceInv

\* An invoice (create_atomic) is never a preparation, and leaves them alone.
LEMMA CreateInvoiceKeepsInv ==
    ASSUME IssuanceInv, NEW q \in quoted, CreateInvoice(q)
    PROVE  IssuanceInv'
<1>1. q[1] \notin Marketplace /\ MayIssue(q) /\ Derive(q)
    BY DEF CreateInvoice
<1>2. IssuanceTypeOK'
    BY <1>1, DeriveEffect, DeriveTypes
    DEF CreateInvoice, IssuanceInv, IssuanceTypeOK, prepVars
<1>3. Bookkeeping'
    <2>1. prep' = prep
        BY DEF CreateInvoice, prepVars
    <2>2. \A i \in Marketplace : i \in Operations /\ i # q[1]
        BY <1>1, IssuanceAssumption
    <2>3. \A i \in Marketplace : child'[i] = child[i] /\ recorded'[i] = recorded[i]
        BY <1>1, <2>2, DeriveEffect
    <2>4. generation' = generation
        BY <1>1, DeriveEffect
    <2> QED
        BY <1>1, <2>1, <2>2, <2>3, <2>4, DeriveIsSound DEF IssuanceInv, Bookkeeping, Issued
<1>4. DecisionsStand'
    BY DEF CreateInvoice, prepVars, IssuanceInv, DecisionsStand
<1> QED
    BY <1>1, <1>2, <1>3, <1>4, DeriveIsSound DEF IssuanceInv

\* A preparation (prepare) is written on the account in use.
LEMMA PrepareKeepsInv ==
    ASSUME IssuanceInv, NEW q \in quoted, Prepare(q)
    PROVE  IssuanceInv'
<1>1. MayIssue(q) /\ Derive(q)
    BY DEF Prepare
<1>2. IssuanceTypeOK'
    <2>1. prep' \in [Operations -> {"none", "prepared", "active", "voided"}]
        BY DEF Prepare, IssuanceInv, IssuanceTypeOK
    <2> QED
        BY <1>1, <2>1, DeriveTypes DEF Prepare, IssuanceInv, IssuanceTypeOK
<1>3. ASSUME NEW i \in Marketplace, prep'[i] = "prepared"
      PROVE  /\ i \in Issued'
             /\ i \in OnBitcoin => recorded'[i] = generation'
    <2>1. i \in Operations /\ nextChild > 0
        BY IssuanceAssumption DEF IssuanceInv, IssuanceTypeOK
    <2>2. CASE i = q[1]
        BY <1>1, <2>1, <2>2, DeriveEffect DEF Issued
    <2>3. CASE i # q[1]
        <3>1. prep[i] = "prepared"
            BY <1>3, <2>1, <2>3 DEF Prepare, IssuanceInv, IssuanceTypeOK
        <3>2. child'[i] = child[i] /\ recorded'[i] = recorded[i] /\ generation' = generation
            BY <1>1, <2>1, <2>3, DeriveEffect
        <3> QED
            BY <2>1, <3>1, <3>2 DEF IssuanceInv, Bookkeeping, Issued
    <2> QED
        BY <2>2, <2>3
<1>4. Bookkeeping'
    BY <1>1, <1>3, DeriveIsSound DEF Bookkeeping
<1>5. DecisionsStand'
    <2>1. /\ prep \in [Operations -> {"none", "prepared", "active", "voided"}]
          /\ \A i \in Marketplace : i \in Operations
        BY IssuanceAssumption DEF IssuanceInv, IssuanceTypeOK
    <2>2. \A i \in Marketplace : prep[i] = "prepared" => prep'[i] = "prepared"
        BY <2>1 DEF Prepare
    <2> QED
        BY <2>2, DecisionsKept DEF Prepare, IssuanceInv
<1> QED
    BY <1>1, <1>2, <1>4, <1>5, DeriveIsSound DEF IssuanceInv

\* A transaction decides on a row that no other transaction holds
\* (load_lifecycle_locked, activate, void, resolve).
LEMMA LockKeepsDecisions ==
    ASSUME IssuanceInv, NEW i \in Marketplace,
           NEW operation \in {"activate", "void", "resolve"}, LockPreparation(i, operation)
    PROVE  DecisionsStand'
<1>1. ASSUME NEW s \in openTx', NEW t \in openTx', s[1] = t[1] PROVE s = t
    <2>1. s \in openTx \/ s = <<i, operation>>
        BY DEF LockPreparation
    <2>2. t \in openTx \/ t = <<i, operation>>
        BY DEF LockPreparation
    <2>3. \A u \in openTx : u[1] # i
        BY DEF LockPreparation, RowUnlocked
    <2> QED
        BY <1>1, <2>1, <2>2, <2>3 DEF IssuanceInv, DecisionsStand
<1>2. ASSUME NEW j \in Marketplace, <<j, "activate">> \in openTx'
      PROVE  prep'[j] = "prepared" /\ j \notin resolved'
    <2>1. prep' = prep /\ resolved' = resolved
        BY DEF LockPreparation
    <2>2. <<j, "activate">> \in openTx \/ (j = i /\ operation = "activate")
        BY <1>2 DEF LockPreparation
    <2>3. operation = "activate" => MayActivate(i)
        BY DEF LockPreparation
    <2> QED
        BY <2>1, <2>2, <2>3 DEF MayActivate, IssuanceInv, DecisionsStand
<1> QED
    BY <1>1, <1>2 DEF DecisionsStand

\* The transaction that ends was the only one on its row, so that what it writes
\* is read by no open activation (activate, void, resolve).
LEMMA CommitKeepsDecisions ==
    ASSUME IssuanceInv, NEW i \in Marketplace, Activate(i) \/ Void(i) \/ Resolve(i)
    PROVE  DecisionsStand'
<1>1. PICK operation \in {"activate", "void", "resolve"} :
        <<i, operation>> \in openTx /\ openTx' = openTx \ {<<i, operation>>}
    BY DEF Activate, Void, Resolve
<1>2. <<i, "activate">> \notin openTx'
    <2>1. SUFFICES ASSUME <<i, "activate">> \in openTx PROVE <<i, "activate">> = <<i, operation>>
        BY <1>1
    <2>2. <<i, "activate">>[1] = <<i, operation>>[1]
        OBVIOUS
    <2> QED
        BY <1>1, <2>1, <2>2 DEF IssuanceInv, DecisionsStand
<1>3. prep \in [Operations -> {"none", "prepared", "active", "voided"}]
    BY DEF IssuanceInv, IssuanceTypeOK
<1>4. ASSUME NEW j \in Marketplace, j # i
      PROVE  prep'[j] = prep[j] /\ (j \in resolved' => j \in resolved)
    <2>1. j \in Operations
        BY IssuanceAssumption
    <2> QED
        BY <1>3, <1>4, <2>1 DEF Activate, Void, Resolve
<1> QED
    BY <1>1, <1>2, <1>4, DecisionsKept DEF IssuanceInv

\* No operation on a preparation makes it prepared again (activate, void, resolve).
LEMMA PreparationsKeepInv ==
    ASSUME IssuanceInv,
           \/ \E i \in Marketplace :
                \/ PrepareLapses(i)
                \/ \E operation \in {"activate", "void", "resolve"} :
                        LockPreparation(i, operation)
                \/ Activate(i)
                \/ Void(i)
                \/ Resolve(i)
           \/ \E t \in openTx : AbortTransaction(t)
    PROVE  IssuanceInv'
<1>1. /\ prep \in [Operations -> {"none", "prepared", "active", "voided"}]
      /\ \A i \in Marketplace : i \in Operations
    BY IssuanceAssumption DEF IssuanceInv, IssuanceTypeOK
<1>2. UNCHANGED <<creatorVars, quoted, storedVars>>
    BY DEF PrepareLapses, LockPreparation, Activate, Void, Resolve, AbortTransaction
<1>3. /\ prep' \in [Operations -> {"none", "prepared", "active", "voided"}]
      /\ \A j \in Operations : prep'[j] = "prepared" => prep[j] = "prepared"
    BY <1>1 DEF PrepareLapses, LockPreparation, Activate, Void, Resolve, AbortTransaction
<1>4. /\ resolved' \subseteq Marketplace
      /\ prepareLapsed' \subseteq Marketplace
      /\ published' \subseteq Operations
    BY <1>1 DEF PrepareLapses, LockPreparation, Activate, Void, Resolve, AbortTransaction,
                IssuanceInv, IssuanceTypeOK
<1>5. openTx' \subseteq Marketplace \X {"activate", "void", "resolve"}
    <2>1. openTx \subseteq Marketplace \X {"activate", "void", "resolve"}
        BY DEF IssuanceInv, IssuanceTypeOK
    <2>2. \/ openTx' \subseteq openTx
          \/ \E i \in Marketplace, operation \in {"activate", "void", "resolve"} :
                openTx' = openTx \cup {<<i, operation>>}
        BY DEF PrepareLapses, LockPreparation, Activate, Void, Resolve, AbortTransaction
    <2> QED
        BY <2>1, <2>2
<1>6. IssuanceTypeOK'
    BY <1>2, <1>3, <1>4, <1>5 DEF IssuanceInv, IssuanceTypeOK, creatorVars, storedVars
<1>7. UNCHANGED <<nextChild, storedVars>>
    BY <1>2 DEF creatorVars
<1>8. Bookkeeping'
    BY <1>1, <1>2, <1>3, <1>7, RowsUntouched
    DEF IssuanceInv, Bookkeeping, creatorVars, storedVars
<1>9. DecisionsStand'
    <2>1. ASSUME NEW i \in Marketplace, PrepareLapses(i) PROVE DecisionsStand'
        BY <2>1 DEF PrepareLapses, IssuanceInv, DecisionsStand
    <2>2. ASSUME NEW t \in openTx, AbortTransaction(t) PROVE DecisionsStand'
        BY <2>2, DecisionsKept DEF AbortTransaction, IssuanceInv
    <2> QED
        BY <2>1, <2>2, LockKeepsDecisions, CommitKeepsDecisions
<1> QED
    BY <1>6, <1>7, <1>8, <1>9, RowsUntouched DEF IssuanceInv

\* Installing an account voids every preparation of the one it replaces
\* (rotate_bitcoin_account_after_receive).
LEMMA InstallKeepsInv ==
    ASSUME IssuanceInv, InstallAccount
    PROVE  IssuanceInv'
<1>1. /\ prep \in [Operations -> {"none", "prepared", "active", "voided"}]
      /\ generation \in Nat
      /\ generation' = generation + 1
      /\ generation' \in 0..MaxRotations
    BY IssuanceAssumption DEF IssuanceInv, IssuanceTypeOK, InstallAccount
<1>2. 0..generation \subseteq 0..generation'
    BY <1>1
<1>3. prep' \in [Operations -> {"none", "prepared", "active", "voided"}]
    BY <1>1 DEF InstallAccount
<1>4. UNCHANGED <<nextChild, storedVars>>
    BY DEF InstallAccount
<1>5. IssuanceTypeOK'
    <2>1. /\ quoted' \subseteq Operations \X (0..generation')
          /\ account' \in [Operations -> 0..generation']
          /\ recorded' \in [Operations -> 0..generation']
        BY <1>2 DEF IssuanceInv, IssuanceTypeOK, InstallAccount, storedVars
    <2> QED
        BY <1>1, <1>3, <2>1 DEF IssuanceInv, IssuanceTypeOK, InstallAccount, storedVars
<1>6. ASSUME NEW i \in Marketplace, prep'[i] = "prepared"
      PROVE  i \in Issued /\ i \notin OnBitcoin
    <2>1. i \in Operations
        BY IssuanceAssumption
    <2>2. prep[i] = "prepared" /\ i \notin Voided
        BY <1>6, <2>1 DEF InstallAccount
    <2> QED
        BY <2>1, <2>2 DEF Voided, OnCurrent, IssuanceInv, Bookkeeping
<1>7. Bookkeeping'
    BY <1>4, <1>6, RowsUntouched DEF Bookkeeping
<1>8. DecisionsStand'
    <2>1. ASSUME NEW i \in Marketplace, <<i, "activate">> \in openTx, prep[i] = "prepared"
          PROVE  prep'[i] = "prepared"
        <3>1. i \notin Voided
            <4>1. CreatorUnlocked
                BY DEF InstallAccount, RotationLocked
            <4> QED
                BY <2>1, <4>1 DEF CreatorUnlocked
        <3>2. i \in Operations
            BY IssuanceAssumption
        <3> QED
            BY <2>1, <3>1, <3>2 DEF InstallAccount
    <2> QED
        BY <2>1, DecisionsKept DEF InstallAccount, IssuanceInv
<1> QED
    BY <1>4, <1>5, <1>7, <1>8, RowsUntouched DEF IssuanceInv

\* Every step of issuance keeps the invariant.
LEMMA InvNext ==
    IssuanceInv /\ [IssuanceNext]_issuanceVars => IssuanceInv'
<1> SUFFICES ASSUME IssuanceInv, [IssuanceNext]_issuanceVars PROVE IssuanceInv'
    OBVIOUS
<1>1. ASSUME NEW i \in Operations, ReadReceiving(i) PROVE IssuanceInv'
    <2>1. generation \in 0..generation
        BY IssuanceAssumption DEF IssuanceInv, IssuanceTypeOK
    <2>2. quoted' \subseteq Operations \X (0..generation)
        BY <1>1, <2>1 DEF ReadReceiving, IssuanceInv, IssuanceTypeOK
    <2> QED
        BY <1>1, <2>2, RequestsKeepInv DEF ReadReceiving
<1>2. ASSUME NEW q \in quoted, EndRequest(q) PROVE IssuanceInv'
    <2>1. quoted' \subseteq Operations \X (0..generation)
        BY <1>2 DEF EndRequest, IssuanceInv, IssuanceTypeOK
    <2> QED
        BY <1>2, <2>1, RequestsKeepInv DEF EndRequest
<1>3. CASE UNCHANGED issuanceVars
    <2>1. quoted' \subseteq Operations \X (0..generation)
        BY <1>3 DEF issuanceVars, IssuanceInv, IssuanceTypeOK
    <2> QED
        BY <1>3, <2>1, RequestsKeepInv DEF issuanceVars
<1> QED
    BY <1>1, <1>2, <1>3, CreateInvoiceKeepsInv, PrepareKeepsInv, PreparationsKeepInv,
       InstallKeepsInv
    DEF IssuanceNext

-----------------------------------------------------------------------------

\* No stored row and no request at work names a generation that was never
\* installed (create_atomic, prepare, rotate_bitcoin_account_after_receive).
THEOREM IssuanceTypes == IssuanceSpec => []IssuanceTypeOK
<1>1. IssuanceInv => IssuanceTypeOK
    BY DEF IssuanceInv
<1> QED
    BY <1>1, InvInit, InvNext, PTL DEF IssuanceSpec

\* Every stored address derives from the account of the generation its row
\* records, whatever was read before the Creator lock (create_atomic, prepare).
THEOREM AddressesAreAccountedFor == IssuanceSpec => []AddressIsAccountedFor
<1>1. IssuanceInv => AddressIsAccountedFor
    BY DEF IssuanceInv
<1> QED
    BY <1>1, InvInit, InvNext, PTL DEF IssuanceSpec

\* A child index is never given out twice (create_atomic, prepare).
THEOREM ChildIndexesAreFresh == IssuanceSpec => []ChildIndexIsFresh
<1>1. IssuanceInv => ChildIndexIsFresh
    BY DEF IssuanceInv
<1> QED
    BY <1>1, InvInit, InvNext, PTL DEF IssuanceSpec

\* No index is taken by a repeated or concurrent request (create_atomic, prepare).
THEOREM IndexesAreNotLost == IssuanceSpec => []NoIndexIsLost
<1>1. IssuanceInv => NoIndexIsLost
    BY DEF IssuanceInv
<1> QED
    BY <1>1, InvInit, InvNext, PTL DEF IssuanceSpec

\* A step publishes nothing, or an invoice it creates, or a preparation it
\* activates (create_atomic, activate).
LEMMA PublishingStep ==
    ASSUME [IssuanceNext]_issuanceVars, NEW i \in published' \ published
    PROVE  \/ i \in Marketplace /\ Activate(i)
           \/ \E q \in quoted : q[1] = i /\ CreateInvoice(q)
<1>1. ASSUME NEW j \in Marketplace, Activate(j) PROVE i = j
    BY <1>1 DEF Activate
<1>2. ASSUME NEW q \in quoted, CreateInvoice(q) PROVE q[1] = i
    BY <1>2 DEF CreateInvoice
<1>3. \/ \E j \in Marketplace : Activate(j)
      \/ \E q \in quoted : CreateInvoice(q)
    BY DEF IssuanceNext, issuanceVars, ReadReceiving, EndRequest, Prepare, PrepareLapses,
           LockPreparation, AbortTransaction, Void, Resolve, InstallAccount
<1> QED
    BY <1>1, <1>2, <1>3

\* What is published on Bitcoin is on the account in use at that moment
\* (create_atomic, activate, rotate_bitcoin_account_after_receive).
THEOREM PublishedOnlyOnCurrentAccount == IssuanceSpec => PublishedOnCurrentAccount
<1>1. ASSUME IssuanceInv, [IssuanceNext]_issuanceVars,
             NEW i \in OnBitcoin, i \in published' \ published
      PROVE  account'[i] = generation'
    <2>1. CASE i \in Marketplace /\ Activate(i)
        <3>1. prep[i] = "prepared" /\ account' = account /\ generation' = generation
            BY <1>1, <2>1 DEF Activate, IssuanceInv, DecisionsStand, creatorVars, storedVars
        <3>2. i \in Issued /\ recorded[i] = generation
            BY <1>1, <2>1, <3>1 DEF IssuanceInv, Bookkeeping
        <3> QED
            BY <1>1, <3>1, <3>2 DEF IssuanceInv, AddressIsAccountedFor
    <2>2. CASE \E q \in quoted : q[1] = i /\ CreateInvoice(q)
        <3>1. PICK q \in quoted : q[1] = i /\ CreateInvoice(q)
            BY <2>2
        <3>2. MayIssue(q) /\ Derive(q)
            BY <3>1 DEF CreateInvoice
        <3>3. q[2] = generation
            BY <1>1, <3>1, <3>2 DEF MayIssue
        <3> QED
            BY <1>1, <3>1, <3>2, <3>3, DeriveEffect
    <2> QED
        BY <1>1, <2>1, <2>2, PublishingStep
<1>2. IssuanceInv /\ [IssuanceNext]_issuanceVars =>
        [\A i \in OnBitcoin :
            i \in published' \ published => account'[i] = generation']_issuanceVars
    BY <1>1
<1> QED
    BY <1>2, InvInit, InvNext, PTL DEF IssuanceSpec, PublishedOnCurrentAccount

\* A preparation that was voided, or resolved before publication, is never
\* published: an activation that read the row earlier holds its lock until it ends
\* (activate, void, resolve).
THEOREM TerminalIsNeverPublished == IssuanceSpec => TerminalStaysUnpublished
<1>1. ASSUME IssuanceInv, [IssuanceNext]_issuanceVars, NEW i \in Marketplace,
             i \notin published, prep[i] = "voided" \/ i \in resolved
      PROVE  i \notin published'
    <2>1. ~Activate(i)
        BY <1>1 DEF Activate, IssuanceInv, DecisionsStand
    <2>2. ~\E q \in quoted : q[1] = i /\ CreateInvoice(q)
        BY <1>1 DEF CreateInvoice
    <2> QED
        BY <1>1, <2>1, <2>2, PublishingStep
<1>2. IssuanceInv /\ [IssuanceNext]_issuanceVars =>
        [\A i \in Marketplace :
            i \notin published /\ (prep[i] = "voided" \/ i \in resolved) =>
                i \notin published']_issuanceVars
    BY <1>1
<1> QED
    BY <1>2, InvInit, InvNext, PTL DEF IssuanceSpec, TerminalStaysUnpublished
=============================================================================

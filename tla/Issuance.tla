------------------------------ MODULE Issuance ------------------------------
(***************************************************************************)
(* Issuing payment addresses from a Creator's Bitcoin account.             *)
(*                                                                         *)
(* An operation is an invoice, or a Marketplace preparation that is        *)
(* published later by its activation.  A request for an operation reads    *)
(* the receiving details and their generation, may fetch an exchange rate, *)
(* waits for the Creator row lock, compares the generation again and       *)
(* commits.  Several requests for one operation may be at work; the first  *)
(* commit wins and the others replay it.                                   *)
(*                                                                         *)
(* A preparation is then activated, voided or resolved, each in a          *)
(* transaction that locks its row, decides on what it reads and writes     *)
(* later.  The writes name the row and not the state that was read.        *)
(*                                                                         *)
(* The account of a generation is named by the generation.                 *)
(***************************************************************************)
EXTENDS Naturals

CONSTANTS
    Operations,    \* invoices and preparations, by their idempotency key
    Marketplace,   \* the operations that are preparations
    OnBitcoin,     \* the operations that offer the Bitcoin rail
    MaxRotations   \* bound on account rotations

ASSUME IssuanceAssumption ==
    /\ Marketplace \subseteq Operations
    /\ OnBitcoin \subseteq Operations
    /\ MaxRotations \in Nat

VARIABLES
    generation, nextChild,  \* columns of creators
    quoted,                 \* requests at work: the operation, the account read
    account, child,         \* what the stored intent's address derives from
    recorded,               \* bitcoin_account_generation of the stored row
    prep,                   \* state of a preparation
    resolved,               \* preparations with a business outcome
    prepareLapsed,          \* preparations past prepare_expires_at
    openTx,                 \* transactions that decided on a preparation
    published               \* operations whose proposal is in the outbox

creatorVars == <<generation, nextChild>>
storedVars == <<account, child, recorded>>
prepVars == <<prep, resolved, prepareLapsed, openTx>>
issuanceVars == <<creatorVars, quoted, storedVars, prepVars, published>>

\* Child indexes count from 1 here, so that 0 marks an operation with no row.
Issued == {i \in Operations : child[i] > 0}

\* Type invariant.  What it says beyond types: no request and no row names a
\* generation that no rotation has installed.
IssuanceTypeOK ==
    /\ generation \in 0..MaxRotations
    /\ nextChild \in Nat \ {0}
    /\ quoted \subseteq Operations \X (0..generation)
    /\ account \in [Operations -> 0..generation]
    /\ child \in [Operations -> Nat]
    /\ recorded \in [Operations -> 0..generation]
    /\ prep \in [Operations -> {"none", "prepared", "active", "voided"}]
    /\ resolved \subseteq Marketplace
    /\ prepareLapsed \subseteq Marketplace
    /\ openTx \subseteq Marketplace \X {"activate", "void", "resolve"}
    /\ published \subseteq Operations

IssuanceInit ==
    /\ generation = 0
    /\ nextChild = 1
    /\ quoted = {}
    /\ account = [i \in Operations |-> 0]
    /\ child = [i \in Operations |-> 0]
    /\ recorded = [i \in Operations |-> 0]
    /\ prep = [i \in Operations |-> "none"]
    /\ resolved = {}
    /\ prepareLapsed = {}
    /\ openTx = {}
    /\ published = {}

\* The preflight found no stored operation; the receiving details and their
\* generation are read in one query.
ReadReceiving(i) ==
    /\ i \notin Issued
    /\ quoted' = quoted \cup {<<i, generation>>}
    /\ UNCHANGED <<creatorVars, storedVars, prepVars, published>>

\* A replay of a stored operation, a passed deadline, a failed external read, or
\* an account that was replaced since it was read.
EndRequest(q) ==
    /\ q \in quoted
    /\ quoted' = quoted \ {q}
    /\ UNCHANGED <<creatorVars, storedVars, prepVars, published>>

\* activate holds the Creator row lock, which every commit that issues takes.
CreatorUnlocked == \A t \in openTx : t[2] # "activate"

\* Seeded fault: the generation is not compared under the Creator row lock.
MayIssueAnyway(q) == q \in quoted /\ CreatorUnlocked /\ q[1] \notin Issued

\* Seeded fault: a stored operation is not looked for under the lock.
MayIssueTwice(q) ==
    /\ q \in quoted
    /\ CreatorUnlocked
    /\ q[1] \in OnBitcoin => q[2] = generation

\* Under the Creator row lock no row of the operation is found and the account is
\* the one that was read.
MayIssue(q) ==
    /\ q \in quoted
    /\ CreatorUnlocked
    /\ q[1] \notin Issued
    /\ q[1] \in OnBitcoin => q[2] = generation

\* Seeded fault: the row records the generation after the one found.
DeriveRecordsNext(q) ==
    /\ child' = [child EXCEPT ![q[1]] = nextChild]
    /\ nextChild' = nextChild + 1
    /\ account' = [account EXCEPT ![q[1]] = q[2]]
    /\ recorded' = [recorded EXCEPT ![q[1]] = generation + 1]
    /\ quoted' = quoted \ {q}
    /\ UNCHANGED generation

\* The address derives from the account that was read, at the child index found
\* under the lock; the row records the generation found under the lock.
Derive(q) ==
    /\ child' = [child EXCEPT ![q[1]] = nextChild]
    /\ nextChild' = nextChild + 1
    /\ account' = [account EXCEPT ![q[1]] = q[2]]
    /\ recorded' = [recorded EXCEPT ![q[1]] = generation]
    /\ quoted' = quoted \ {q}
    /\ UNCHANGED generation

\* create_atomic: the invoice and its proposal are inserted together.
CreateInvoice(q) ==
    /\ q[1] \notin Marketplace
    /\ MayIssue(q)
    /\ Derive(q)
    /\ published' = published \cup {q[1]}
    /\ UNCHANGED prepVars

\* prepare: a durable quote with no proposal yet.
Prepare(q) ==
    /\ q[1] \in Marketplace
    /\ MayIssue(q)
    /\ Derive(q)
    /\ prep' = [prep EXCEPT ![q[1]] = "prepared"]
    /\ UNCHANGED <<resolved, prepareLapsed, openTx, published>>

PrepareLapses(i) ==
    /\ prep[i] = "prepared"
    /\ prepareLapsed' = prepareLapsed \cup {i}
    /\ UNCHANGED <<creatorVars, quoted, storedVars, prep, resolved, openTx, published>>

MayActivate(i) ==
    /\ prep[i] = "prepared"
    /\ i \notin resolved
    /\ i \notin prepareLapsed

\* Seeded fault: the row is read without FOR UPDATE.
RowUnlockedAnyway(i) == i \in Operations

RowUnlocked(i) == \A t \in openTx : t[1] # i

\* load_lifecycle_locked, and what activate, void or resolve decides on the row it
\* reads.  void and resolve do not lock the Creator.  A preparation is resolved in
\* any state of its row, once.
LockPreparation(i, operation) ==
    /\ RowUnlocked(i)
    /\ \/ operation = "activate" /\ CreatorUnlocked /\ MayActivate(i)
       \/ operation = "void" /\ prep[i] = "prepared"
       \/ operation = "resolve" /\ prep[i] # "none" /\ i \notin resolved
    /\ openTx' = openTx \cup {<<i, operation>>}
    /\ UNCHANGED <<creatorVars, quoted, storedVars, prep, resolved, prepareLapsed, published>>

\* A statement, the commit or the connection fails.
AbortTransaction(t) ==
    /\ openTx' = openTx \ {t}
    /\ UNCHANGED <<creatorVars, quoted, storedVars, prep, resolved, prepareLapsed, published>>

\* activate commits: the one proposal is inserted with the change of state.
Activate(i) ==
    /\ <<i, "activate">> \in openTx
    /\ openTx' = openTx \ {<<i, "activate">>}
    /\ prep' = [prep EXCEPT ![i] = "active"]
    /\ published' = published \cup {i}
    /\ UNCHANGED <<creatorVars, quoted, storedVars, resolved, prepareLapsed>>

Void(i) ==
    /\ <<i, "void">> \in openTx
    /\ openTx' = openTx \ {<<i, "void">>}
    /\ prep' = [prep EXCEPT ![i] = "voided"]
    /\ UNCHANGED <<creatorVars, quoted, storedVars, resolved, prepareLapsed, published>>

Resolve(i) ==
    /\ <<i, "resolve">> \in openTx
    /\ openTx' = openTx \ {<<i, "resolve">>}
    /\ resolved' = resolved \cup {i}
    /\ UNCHANGED <<creatorVars, quoted, storedVars, prep, prepareLapsed, published>>

\* Rows on the account in use.
OnCurrent(i) == i \in OnBitcoin \cap Issued /\ recorded[i] = generation

\* Seeded fault: preparations of the old account are left to expire.
VoidedNone == {}

Voided == {i \in Marketplace : OnCurrent(i) /\ prep[i] = "prepared"}

\* The rotation holds the Creator row and every preparation row of the account.
RotationLocked == CreatorUnlocked /\ \A i \in Marketplace : OnCurrent(i) => RowUnlocked(i)

\* Seeded fault: the new account counts its child indexes from the start.
InstallAccountResets ==
    /\ RotationLocked
    /\ generation < MaxRotations
    /\ generation' = generation + 1
    /\ nextChild' = 1
    /\ prep' = [i \in Operations |-> IF i \in Voided THEN "voided" ELSE prep[i]]
    /\ UNCHANGED <<quoted, storedVars, resolved, prepareLapsed, openTx, published>>

\* What a rotation does to this state: it voids the unpublished preparations of
\* the account and installs the next one.
InstallAccount ==
    /\ RotationLocked
    /\ generation < MaxRotations
    /\ generation' = generation + 1
    /\ prep' = [i \in Operations |-> IF i \in Voided THEN "voided" ELSE prep[i]]
    /\ UNCHANGED <<nextChild, quoted, storedVars, resolved, prepareLapsed, openTx, published>>

IssuanceNext ==
    \/ \E i \in Operations : ReadReceiving(i)
    \/ \E q \in quoted : EndRequest(q) \/ CreateInvoice(q) \/ Prepare(q)
    \/ \E i \in Marketplace :
        \/ PrepareLapses(i)
        \/ \E operation \in {"activate", "void", "resolve"} : LockPreparation(i, operation)
        \/ Activate(i)
        \/ Void(i)
        \/ Resolve(i)
    \/ \E t \in openTx : AbortTransaction(t)
    \/ InstallAccount

IssuanceSpec == IssuanceInit /\ [][IssuanceNext]_issuanceVars

-----------------------------------------------------------------------------
(***************************************************************************)
(* Properties.                                                             *)
(***************************************************************************)

\* A stored row's address derives from the account of the generation the row
\* records, so that a rotation finds every address of the account it replaces
\* (create_atomic, prepare).
AddressIsAccountedFor ==
    \A i \in Issued \cap OnBitcoin : account[i] = recorded[i]

\* No two rows ever share a child index, across invoices, preparations and
\* rotations (create_atomic, prepare).
ChildIndexIsFresh ==
    \A i, j \in Issued : i # j => child[i] # child[j]

\* Every index given out is in a row: a repeated or concurrent request for an
\* operation takes no second one (create_atomic, prepare).
NoIndexIsLost ==
    \A n \in 1..(nextChild - 1) : \E i \in Operations : child[i] = n

\* A proposal on Bitcoin is published only on the account in use at that moment:
\* a preparation of a replaced account is never activated (create_atomic,
\* activate, rotate_bitcoin_account_after_receive).
PublishedOnCurrentAccount ==
    [][\A i \in OnBitcoin :
        i \in published' \ published => account'[i] = generation']_issuanceVars

\* A preparation voided, or resolved while unpublished, is never published, although
\* an activation may have read its row before (activate, void, resolve).
TerminalStaysUnpublished ==
    [][\A i \in Marketplace :
        i \notin published /\ (prep[i] = "voided" \/ i \in resolved) =>
            i \notin published']_issuanceVars
=============================================================================

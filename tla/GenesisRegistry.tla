--------------------------- MODULE GenesisRegistry ---------------------------
(***************************************************************************)
(* The signed Genesis registry, bog.lock and the installs they control     *)
(* (genesis.py): a registry is built here or mirrored from elsewhere, a    *)
(* lock pins the registry it was made from, and an install verifies both   *)
(* before the bundle goes to the store.  A hash is the hashed record.      *)
(***************************************************************************)
EXTENDS Integers, Sequences

CONSTANTS Keys, Trees, Signers, Trusted, Own,   \* Own signs what this workspace builds
          MaxEvents,                            \* bound: operations of a session
          None

\* What the constants are; the MC modules assume it of each instance.
RegistryAssumption == Own \in Trusted /\ Trusted \subseteq Signers /\ MaxEvents \in Nat

VARIABLES registry,     \* [index, by, bundles], or None
          lock,         \* [index, by], or None: index stands for registry hash, signature and pins
          installed,    \* key -> the tree the store holds
          ledger,       \* the outcomes recorded, oldest first, with what each install left behind
          lost          \* installs that ended in an exception instead of a receipt

vars == <<registry, lock, installed, ledger, lost>>

Bundle(tree, signer) == [tree |-> tree, by |-> signer, content |-> tree]

Init == /\ registry = None /\ lock = None /\ installed = [k \in Keys |-> None]
        /\ ledger = <<>> /\ lost = 0

Events == Len(ledger) + lost
Recorded(event) == ledger' = Append(ledger, event) /\ UNCHANGED lost

\* create_registry: bundles packaged and signed, an index over them, signed.
Built(trees, signer) ==
  LET bundles == [k \in DOMAIN trees |-> Bundle(trees[k], signer)]
  IN [index |-> bundles, by |-> signer, bundles |-> bundles]

\* verify_registry: index signature, every bundle's recorded and actual hash, its own
\* signature and its metadata.  A bundle that cannot be read ends the verification with
\* a result that does not say whether the signature held.
RegistryReadable == registry # None /\ \A k \in DOMAIN registry.index : registry.bundles[k] # None

verify_registry_Names == RegistryReadable /\ registry.by \in Trusted     \* mutant: bundles are not rehashed

verify_registry ==
  /\ RegistryReadable /\ registry.by \in Trusted
  /\ \A k \in DOMAIN registry.index :
       LET b == registry.bundles[k]
       IN b = registry.index[k] /\ b.content = b.tree /\ b.by \in Trusted

\* verify_lock: the lock's signature, and that it still pins the registry in place;
\* that registry's own failures are not the lock's.
verify_lock ==
  lock # None /\ registry # None /\ lock.by \in Trusted /\ RegistryReadable /\ lock.index = registry.index

CreateRegistry(trees) ==
  /\ Events < MaxEvents
  /\ registry' = Built(trees, Own)
  /\ Recorded([event |-> "registry-sync", completed |-> TRUE])
  /\ UNCHANGED <<lock, installed>>

\* sync_registry_from: the mirror takes the registry's place before it is verified.
SyncFrom(trees, signer) ==
  /\ Events < MaxEvents
  /\ registry' = Built(trees, signer)
  /\ Recorded([event |-> "registry-sync", completed |-> signer \in Trusted])
  /\ UNCHANGED <<lock, installed>>

\* create_lock: refused before it does anything when there is no registry to read; the
\* registry is not verified, only pinned.
CreateLock ==
  /\ Events < MaxEvents
  /\ registry # None
  /\ lock' = [index |-> registry.index, by |-> Own]
  /\ Recorded([event |-> "lock", completed |-> RegistryReadable])
  /\ UNCHANGED <<registry, installed>>

\* install: both verifications, then the workspace's install of the registry's bundle;
\* the receipt names fields that only a verification that ran to its end returns.
Install(k) ==
  LET pinned == lock # None /\ k \in DOMAIN lock.index
      ok == verify_registry /\ verify_lock /\ pinned
  IN /\ Events < MaxEvents
     /\ installed' = IF ok THEN [installed EXCEPT ![k] = registry.bundles[k].content] ELSE installed
     /\ IF RegistryReadable /\ lock # None
        THEN Recorded([event |-> "install", key |-> k, completed |-> ok,
                       tree |-> installed'[k], pin |-> IF ok THEN lock.index[k] ELSE None,
                       from |-> IF ok THEN registry.by ELSE None])
        ELSE lost' = lost + 1 /\ UNCHANGED ledger
     /\ UNCHANGED <<registry, lock>>

\* A bundle of the registry is altered or lost.
Damage(k) ==
  /\ Events < MaxEvents
  /\ registry # None /\ k \in DOMAIN registry.bundles /\ registry.bundles[k] # None
  /\ \/ registry' = [registry EXCEPT !.bundles[k] = None]
     \/ \E t \in Trees : registry' = [registry EXCEPT !.bundles[k].content = t]
  /\ UNCHANGED <<lock, installed, ledger, lost>>

Published == UNION {[S -> Trees] : S \in (SUBSET Keys) \ {{}}}

\* package_build is CreateRegistry with one package followed by CreateLock.
Next == \/ \E trees \in Published : CreateRegistry(trees)
        \/ \E trees \in Published, s \in Signers : SyncFrom(trees, s)
        \/ CreateLock
        \/ \E k \in Keys : Install(k) \/ Damage(k)

Spec == Init /\ [][Next]_vars

-----------------------------------------------------------------------------
\* Only the trees that were packaged are installed, and the events the workspace
\* went through are the ledger entries and those that were lost.
TypeOK == /\ lost \in Nat /\ Events <= MaxEvents
          /\ installed \in [Keys -> Trees \cup {None}]

\* Whatever mirrors, locks and damage came between, an install that completed installed
\* exactly the tree a lock of this workspace pinned, from a registry a trusted key signed.
InstalledAsPinned ==
  \A i \in DOMAIN ledger : LET e == ledger[i] IN e.event = "install" /\ e.completed =>
    e.pin # None /\ e.tree = e.pin.tree /\ e.pin.by \in Trusted /\ e.from \in Trusted

\* A registry that replaced the locked one stops installs until a new lock is made:
\* what the store holds only changes while lock and registry agree.
LockCurrent == installed' # installed => lock.index = registry.index /\ registry.bundles = registry.index

-----------------------------------------------------------------------------
\* What the documents say and the code does not do (README, section 6).

\* "Every Genesis event is signed and chained": no install ends without its entry.
EveryEventRecorded == lost = 0
=============================================================================

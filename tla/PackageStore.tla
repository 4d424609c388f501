---------------------------- MODULE PackageStore ----------------------------
(***************************************************************************)
(* The package store (store.py over archive.py and signing.py): bundles    *)
(* are built and signed, installers check one, replace the package         *)
(* directory, restore its archive and rewrite the index, and a package is  *)
(* verified before it runs.  Installers share the store without a lock and *)
(* may die between two steps; files may be damaged.  A hash is the hashed  *)
(* record itself.                                                          *)
(***************************************************************************)
EXTENDS Integers, Sequences, FiniteSets

CONSTANTS Keys,          \* package keys, name-version
          Trees,         \* directory contents
          Signers, Trusted,
          Installers,    \* processes running install_bundle
          MaxPackaged,   \* bound: bundles built
          MaxFaults,     \* bound: crashes and damaged files
          Cycles,        \* whether a package may be built that depends on itself through others
          None, Torn     \* an absent file or directory; one partly written or altered

\* What the constants are; the MC modules assume it of each instance.
StoreAssumption ==
  /\ Trusted \subseteq Signers /\ MaxPackaged \in Nat /\ MaxFaults \in Nat /\ Cycles \in BOOLEAN
  /\ None \notin Trees /\ Torn \notin Trees

VARIABLES bundle,        \* bundles/<key>
          packages,      \* store/packages/<key>
          installed,     \* store/installed/<key>: a tree
          index,         \* store/index.json: key -> dependencies, or Torn
          proc,          \* the installers
          built,         \* everything that was ever packaged: <<key, tree, dependencies, signer>>
          faults

vars == <<bundle, packages, installed, index, proc, built, faults>>

Over == {"idle", "completed", "refused", "raised"}
Idle == [pc |-> "idle", key |-> None, index |-> None, deps |-> {}, alone |-> TRUE]

\* package_directory: receipt over the archive's tree, hashed with the bundle, signed.
DirectoryHash(b) ==
  [key |-> b.receipt.key, tree |-> b.receipt.tree, deps |-> b.receipt.deps, manifest |-> b.manifest,
   objects |-> b.objects]

Signed(r) == [key |-> r.key, tree |-> r.tree, deps |-> r.deps, hash |-> r.hash]

package_directory(k, tree, deps, signer) ==
  LET r == [key |-> k, tree |-> tree, deps |-> deps, hash |-> None, sig |-> None]
      h == DirectoryHash([receipt |-> r, manifest |-> tree, objects |-> tree])
      hashed == [r EXCEPT !.hash = h]
  IN [receipt |-> IF signer = None THEN hashed
                  ELSE [hashed EXCEPT !.sig = [by |-> signer, of |-> Signed(hashed)]],
      manifest |-> tree, objects |-> tree]

\* verify_object_signature through _verify_signature with require_signature.
SignatureVerified(r) == r.sig # None /\ r.sig.by \in Trusted /\ r.sig.of = Signed(r)

\* read_archive_manifest: a manifest whose tree hash does not match its files is refused.
ManifestReadable(b) == b # None /\ b.manifest # Torn

\* verify_directory_archive, read_archive_file: every object reconstructs to the hash
\* and size the manifest gives.
ArchiveVerified(b) == ManifestReadable(b) /\ b.objects = b.manifest

\* The keys a package leads to, itself included when it is on a cycle.
Reach(deps) ==
  LET Step(S) == S \cup UNION {deps[k] : k \in S \cap DOMAIN deps}
      R[n \in 0..Cardinality(Keys)] == [k \in DOMAIN deps |-> IF n = 0 THEN deps[k] ELSE Step(R[n - 1][k])]
  IN R[Cardinality(Keys)]

\* verify_installed_package: `seen' is the chain of packages that led here.
verify_Unrestored[k \in Keys, seen \in SUBSET Keys] ==     \* mutant: the installed tree is not rehashed
  /\ index # Torn /\ k \in DOMAIN index \ seen /\ packages[k] # None /\ packages[k].receipt # Torn
  /\ LET p == packages[k] IN
     /\ SignatureVerified(p.receipt) /\ DirectoryHash(p) = p.receipt.hash
     /\ index[k] = p.receipt.deps
     /\ \A d \in p.receipt.deps : d \in DOMAIN index /\ verify_Unrestored[d, seen \cup {k}]
     /\ ArchiveVerified(p) /\ installed[k] # None

verify_installed[k \in Keys, seen \in SUBSET Keys] ==
  /\ index # Torn /\ k \in DOMAIN index \ seen /\ packages[k] # None /\ packages[k].receipt # Torn
  /\ LET p == packages[k] IN
     /\ SignatureVerified(p.receipt) /\ DirectoryHash(p) = p.receipt.hash
     /\ index[k] = p.receipt.deps
     /\ \A d \in p.receipt.deps : d \in DOMAIN index /\ verify_installed[d, seen \cup {k}]
     /\ ArchiveVerified(p) /\ installed[k] = p.receipt.tree

verify_installed_package_Unrestored(k) == verify_Unrestored[k, {}]
verify_installed_package(k) == verify_installed[k, {}]

Init ==
  /\ bundle = [k \in Keys |-> None] /\ packages = [k \in Keys |-> None]
  /\ installed = [k \in Keys |-> None] /\ index = <<>>
  /\ proc = [i \in Installers |-> Idle] /\ built = {} /\ faults = 0

BuiltDeps == [k \in {b[1] : b \in built} |-> UNION {b[3] : b \in {c \in built : c[1] = k}}]

Disturbed(p) == IF p.pc \in Over THEN p ELSE [p EXCEPT !.alone = FALSE]

Package(k, tree, deps, signer) ==
  /\ Cardinality(built) < MaxPackaged
  /\ Cycles \/ (k \notin deps /\ \A d \in deps \cap DOMAIN BuiltDeps : k \notin Reach(BuiltDeps)[d])
  /\ bundle' = [bundle EXCEPT ![k] = package_directory(k, tree, deps, signer)]
  /\ built' = built \cup {<<k, tree, deps, signer>>}
  /\ proc' = [i \in Installers |-> Disturbed(proc[i])]
  /\ UNCHANGED <<packages, installed, index, faults>>

-----------------------------------------------------------------------------
(* install_bundle, one action between any two effects on the store.        *)
Become(i, new) ==
  proc' = [j \in Installers |-> IF j = i THEN new ELSE Disturbed(proc[j])]

Others(i) == {j \in Installers \ {i} : proc[j].pc \notin Over}

\* The checks, in order; StoreError where they fail, ArchiveError for the manifest.
Accepts(b) ==
  /\ b.manifest = b.receipt.tree /\ DirectoryHash(b) = b.receipt.hash /\ SignatureVerified(b.receipt)
  /\ b.receipt.deps \subseteq DOMAIN index
  /\ \A d \in b.receipt.deps : verify_installed_package(d)

Start(i, k) ==
  LET b == bundle[k]
      outcome == IF index = Torn \/ b.receipt = Torn THEN "refused"
                 ELSE IF ~ManifestReadable(b) THEN "raised"
                 ELSE IF Accepts(b) THEN "remove" ELSE "refused"
  IN /\ proc[i].pc \in Over /\ b # None
     /\ Become(i, [pc |-> outcome, key |-> k, alone |-> Others(i) = {},
                   deps |-> IF outcome = "remove" THEN b.receipt.deps ELSE {},
                   index |-> IF outcome = "remove" THEN index ELSE None])
     /\ UNCHANGED <<bundle, packages, installed, index, built, faults>>

Remove(i) ==
  /\ proc[i].pc = "remove"
  /\ packages' = [packages EXCEPT ![proc[i].key] = None]
  /\ Become(i, [proc[i] EXCEPT !.pc = "copy"])
  /\ UNCHANGED <<bundle, installed, index, built, faults>>

\* copytree refuses a directory that has come back meanwhile.
Copy(i) ==
  LET k == proc[i].key IN
  /\ proc[i].pc = "copy"
  /\ IF packages[k] = None
     THEN /\ packages' = [packages EXCEPT ![k] = bundle[k]]
          /\ Become(i, [proc[i] EXCEPT !.pc = "restore"])
     ELSE Become(i, [Idle EXCEPT !.pc = "raised"]) /\ UNCHANGED packages
  /\ UNCHANGED <<bundle, installed, index, built, faults>>

\* restore_directory_archive: reads the manifest, empties the target, writes every file.
Restore(i) ==
  LET k == proc[i].key
      whole == packages[k] # None /\ ArchiveVerified(packages[k])
  IN /\ proc[i].pc = "restore"
     /\ installed' = [installed EXCEPT ![k] = IF ~ManifestReadable(packages[k]) THEN @
                                             ELSE IF ~whole THEN Torn ELSE packages[k].manifest]
     /\ Become(i, IF whole THEN [proc[i] EXCEPT !.pc = "list"] ELSE [Idle EXCEPT !.pc = "raised"])
     /\ UNCHANGED <<bundle, packages, index, built, faults>>

\* The index that was read before the checks is written back with one entry more; the
\* entry's dependencies are the ones of the receipt that was checked.
List_Fresh(i) ==                           \* mutant: the index is rebuilt from this package alone
  /\ proc[i].pc = "list"
  /\ index' = [x \in {proc[i].key} |-> proc[i].deps]
  /\ Become(i, [proc[i] EXCEPT !.pc = "completed", !.index = None, !.deps = {}])
  /\ UNCHANGED <<bundle, packages, installed, built, faults>>

List(i) ==
  LET k == proc[i].key
      seen == proc[i].index
  IN /\ proc[i].pc = "list"
     /\ index' = [x \in DOMAIN seen \cup {k} |-> IF x = k THEN proc[i].deps ELSE seen[x]]
     /\ Become(i, [proc[i] EXCEPT !.pc = "completed", !.index = None, !.deps = {}])
     /\ UNCHANGED <<bundle, packages, installed, built, faults>>

(* Faults: an installer dies and leaves what it was writing half written,  *)
(* a file of the store or of a bundle is altered.                          *)
Crash(i) ==
  LET k == proc[i].key IN
  /\ faults < MaxFaults /\ faults' = faults + 1
  /\ proc[i].pc \in {"copy", "restore", "list"}
  /\ proc' = [proc EXCEPT ![i] = Idle]
  /\ packages' = IF proc[i].pc = "copy" /\ packages[k] = None
                 THEN [packages EXCEPT ![k] = [bundle[k] EXCEPT !.objects = Torn]] ELSE packages
  /\ installed' = IF proc[i].pc = "restore" THEN [installed EXCEPT ![k] = Torn] ELSE installed
  /\ index' \in IF proc[i].pc = "list" THEN {index, Torn} ELSE {index}
  /\ UNCHANGED <<bundle, built>>

\* corrupt_test appends to an installed file; the others are what storage may do.
Damage(k) ==
  /\ faults < MaxFaults /\ faults' = faults + 1
  /\ \/ /\ installed[k] # None /\ \E t \in {Torn} \cup Trees : installed' = [installed EXCEPT ![k] = t]
        /\ UNCHANGED <<packages, bundle>>
     \/ /\ packages[k] # None
        /\ \E f \in {"manifest", "objects"}, t \in {Torn} \cup Trees : packages' = [packages EXCEPT ![k][f] = t]
        /\ UNCHANGED <<installed, bundle>>
     \/ /\ bundle[k] # None /\ bundle[k].receipt # Torn
        /\ \/ \E t \in Trees : bundle' = [bundle EXCEPT ![k].receipt.tree = t]
           \/ bundle' = [bundle EXCEPT ![k].receipt = Torn]
           \/ bundle' = [bundle EXCEPT ![k].manifest = Torn]
        /\ UNCHANGED <<packages, installed>>
  /\ \A i \in Installers : proc[i].pc \in Over
  /\ proc' = [i \in Installers |-> [proc[i] EXCEPT !.alone = FALSE]]
  /\ UNCHANGED <<index, built>>

Next ==
  \/ \E k \in Keys, t \in Trees, deps \in SUBSET Keys, s \in Signers \cup {None} : Package(k, t, deps, s)
  \/ \E i \in Installers : \/ \E k \in Keys : Start(i, k)
                           \/ Remove(i) \/ Copy(i) \/ Restore(i) \/ List(i) \/ Crash(i)
  \/ \E k \in Keys : Damage(k)

Spec == Init /\ [][Next]_vars

-----------------------------------------------------------------------------
\* store.json, when readable, lists packages by known keys and dependencies, each
\* installed directory is absent, half written or a tree, and an install past its
\* checks holds the index it read.
TypeOK ==
  /\ index = Torn \/ (DOMAIN index \subseteq Keys /\ \A k \in DOMAIN index : index[k] \subseteq Keys)
  /\ \A k \in Keys : installed[k] \in Trees \cup {None, Torn}
  /\ faults \in 0..MaxFaults
  /\ \A i \in Installers : proc[i].pc \in {"remove", "copy", "restore", "list"} => proc[i].index # None

\* A package that verifies, and every package it needs, is installed as a tree that was
\* packaged for that key with those dependencies and signed by a trusted key, whatever
\* crashed, was damaged or ran at the same time.
VerifiedWasSigned ==
  \A k \in Keys : verify_installed_package(k) =>
    \A d \in {k} \cup Reach(index)[k] :
      \E b \in built : b[1] = d /\ b[2] = installed[d] /\ b[2] = packages[d].receipt.tree /\ b[3] = index[d] /\ b[4] \in Trusted

\* An install that ran alone and reported success left its package verifiable, after
\* whatever crash came before, unless the package now depends on itself.
CompletedVerifies ==
  \A i \in Installers :
    LET k == proc[i].key IN
    proc[i].pc = "completed" /\ proc[i].alone =>
      k \in DOMAIN index /\ (verify_installed_package(k) \/ k \in Reach(index)[k])

\* What was installed stays listed: a crash may spoil the index as a whole, but no
\* install that runs alone takes another package's entry away.
ListingStays ==
  index # Torn /\ index' # Torn /\ (\A i \in Installers : proc[i].alone)
    => DOMAIN index \subseteq DOMAIN index'
ListedStays == [][ListingStays]_vars

-----------------------------------------------------------------------------
\* What the documents say and the code does not do (README, section 6).

\* Cyclic dependencies are refused: nothing that installs depends on itself.
CyclesRefused ==
  \A i \in Installers : proc[i].pc = "completed" /\ index # Torn => proc[i].key \notin Reach(index)[proc[i].key]

\* An install that fails its checks ends in a StoreError, the error the workspace turns
\* into a blocked receipt.
RefusalsCaught == \A i \in Installers : proc[i].pc # "raised"
=============================================================================

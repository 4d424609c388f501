------------------------ MODULE GenesisLedgerProofs ------------------------
(***************************************************************************)
(* The copy-on-write state and the ledger of Genesis.                      *)
(*                                                                         *)
(* For every number of processes, paths, contents and deaths between two   *)
(* writes, whatever interleaving of fs_write, rollback and state_checkout, *)
(* a root that current_root or a receipt names has its manifest and its    *)
(* objects on disk.                                                        *)
(*                                                                         *)
(* The ledger of one process at a time only ever grows; unless the process *)
(* dies inside a write it verifies, and the session it tells of replays to *)
(* current_root; and what a death inside a write tore is found.            *)
(***************************************************************************)
EXTENDS GenesisLedger, FiniteSetTheorems, WellFoundedInduction, TLAPS

-----------------------------------------------------------------------------
(* Roots are recoverable.                                                  *)

\* Deaths between writes leave no file half written.
Unbroken ==
    /\ states \in [Manifest -> {"absent", "whole"}]
    /\ objects \in [Content -> {"absent", "whole"}]

\* The objects manifest m names are stored.
Stored(m) == \A q \in Path : m[q] # None => objects[m[q]] = "whole"

\* What is saved is recoverable: the objects are written before the manifest.
SavedStored == \A m \in Manifest : states[m] = "whole" => Stored(m)

Saved(m) == m \in Manifest /\ states[m] = "whole"

\* A process moves current_root only to a saved root, saves a root only with
\* its objects stored, and stores the one object its new root lacks.
ProcessSound(p) ==
    /\ proc[p].at = "object"  => /\ proc[p].root \in Manifest /\ proc[p].object \in Content
                                 /\ \A q \in Path : proc[p].root[q] # None =>
                                       proc[p].root[q] = proc[p].object \/ objects[proc[p].root[q]] = "whole"
    /\ proc[p].at = "state"   => proc[p].root \in Manifest /\ Stored(proc[p].root)
    /\ proc[p].at = "pointer" => Saved(proc[p].root)
    /\ proc[p].at \in {"count", "previous", "entry"} => (proc[p].root \in Manifest => Saved(proc[p].root))

At == {"idle", "object", "state", "pointer", "count", "previous", "entry"}

Field == {"at", "event", "before", "root", "object", "status", "sequence", "previous_hash"}

\* A process is idle or holds the fields of its receipt.
Shaped(r) == r = Idle \/ (DOMAIN r = Field /\ r.at \in At \ {"idle"})

\* The state a receipt names is saved.
ReceiptsSaved == \A n \in DOMAIN ledger : ledger[n].root \in Manifest => Saved(ledger[n].root)

IInv ==
    /\ Unbroken
    /\ SavedStored
    /\ Saved(current)
    /\ ReceiptsSaved
    /\ proc = [p \in Process |-> proc[p]]
    /\ \A p \in Process : Shaped(proc[p]) /\ ProcessSound(p)

\* The blank state and an empty ledger.
LEMMA InitInv == Init => IInv
<1> SUFFICES ASSUME Init PROVE IInv
  OBVIOUS
<1>1. Blank \in Manifest /\ \A q \in Path : Blank[q] = None
  BY DEF Blank, Manifest
<1>2. Unbroken
  BY DEF Init, Unbroken
<1>3. Saved(current)
  BY <1>1 DEF Init, Saved
<1>4. SavedStored
  <2>1. ASSUME NEW m \in Manifest, states[m] = "whole" PROVE m = Blank
    BY <2>1 DEF Init
  <2> QED
    BY <1>1, <2>1 DEF SavedStored, Stored
<1>5. ReceiptsSaved
  <2>1. ledger = <<>>
    BY DEF Init
  <2>2. DOMAIN ledger = {}
    BY <2>1
  <2> QED
    BY <2>2 DEF ReceiptsSaved
<1>6. \A p \in Process : Shaped(proc[p]) /\ ProcessSound(p)
  <2>1. \A p \in Process : proc[p] = Idle /\ proc[p].at = "idle"
    BY DEF Init, Idle
  <2> QED
    BY <2>1 DEF Shaped, ProcessSound
<1>7. proc = [p \in Process |-> proc[p]]
  BY DEF Init
<1> QED
  BY <1>2, <1>3, <1>4, <1>5, <1>6, <1>7 DEF IInv

\* Idle processes have nothing to keep.
LEMMA IdleSound ==
    ASSUME NEW p \in Process, proc'[p] = Idle
    PROVE  Shaped(proc'[p]) /\ ProcessSound(p)'
<1>1. proc'[p].at = "idle"
  BY DEF Idle
<1> QED
  BY <1>1 DEF Shaped, ProcessSound

\* A process that does nothing stays sound while files only become whole.
LEMMA OtherSound ==
    ASSUME IInv, NEW p \in Process, proc'[p] = proc[p],
           \A m \in Manifest : states[m] = "whole" => states'[m] = "whole",
           \A c \in Content : objects[c] = "whole" => objects'[c] = "whole"
    PROVE  Shaped(proc'[p]) /\ ProcessSound(p)'
<1>1. Shaped(proc[p]) /\ ProcessSound(p)
  BY DEF IInv
<1>2. \A m : Saved(m) => Saved(m)'
  BY DEF Saved
<1>3. \A m \in Manifest, q \in Path : m[q] # None => m[q] \in Content
  BY DEF Manifest
<1>4. \A m \in Manifest : Stored(m) => Stored(m)'
  BY <1>3 DEF Stored
<1>5. proc[p].at = "object" => /\ proc[p].root \in Manifest /\ proc[p].object \in Content
                               /\ \A q \in Path : proc[p].root[q] # None =>
                                    proc[p].root[q] = proc[p].object \/ objects'[proc[p].root[q]] = "whole"
  BY <1>1, <1>3 DEF ProcessSound
<1> QED
  BY <1>1, <1>2, <1>4, <1>5 DEF ProcessSound

\* What current_root and the receipts name stays saved while files only become whole.
LEMMA NamedKept ==
    ASSUME IInv, ledger' = ledger, current' = current,
           \A m \in Manifest : states[m] = "whole" => states'[m] = "whole"
    PROVE  Saved(current)' /\ ReceiptsSaved'
  BY DEF IInv, Saved, ReceiptsSaved

\* Beginning an operation: the plan has to be sound, the files are not touched.
LEMMA BeginInv ==
    ASSUME IInv, NEW p \in Process, NEW at \in At \ {"idle"}, NEW event, NEW before, NEW root, NEW object, NEW status,
           Begin(p, at, event, before, root, object, status),
           at = "object" => /\ root \in Manifest /\ object \in Content
                            /\ \A q \in Path : root[q] # None => root[q] = object \/ objects[root[q]] = "whole",
           at \in {"pointer", "count", "previous", "entry"} => (root \in Manifest => Saved(root)),
           at = "pointer" => root \in Manifest,
           at # "state"
    PROVE  IInv'
<1> DEFINE r == [at |-> at, event |-> event, before |-> before, root |-> root,
                 object |-> object, status |-> status, sequence |-> 0, previous_hash |-> None]
<1>1. /\ proc' = [proc EXCEPT ![p] = r] /\ ledger' = ledger /\ states' = states
      /\ objects' = objects /\ current' = current
  BY DEF Begin, files
<1>2. proc = [q \in Process |-> proc[q]]
  BY DEF IInv
<1>3. proc'[p] = r /\ \A q \in Process : q # p => proc'[q] = proc[q]
  BY <1>1, <1>2
<1>4. proc' = [q \in Process |-> proc'[q]]
  BY <1>1, <1>2
<1>5. r.at = at /\ r.root = root /\ r.object = object /\ DOMAIN r = Field
  BY DEF Field
<1> HIDE DEF r
<1>6. \A m : Saved(m)' <=> Saved(m)
  BY <1>1 DEF Saved
<1>7. Shaped(proc'[p]) /\ ProcessSound(p)'
  BY <1>1, <1>3, <1>5, <1>6 DEF Shaped, ProcessSound, Saved
<1>8. \A q \in Process : Shaped(proc'[q]) /\ ProcessSound(q)'
  <2> SUFFICES ASSUME NEW q \in Process PROVE Shaped(proc'[q]) /\ ProcessSound(q)'
    OBVIOUS
  <2>1. CASE q = p
    BY <1>7, <2>1
  <2>2. CASE q # p
    BY <1>1, <1>3, <2>2, OtherSound
  <2> QED
    BY <2>1, <2>2
<1>9. Unbroken' /\ SavedStored'
  BY <1>1 DEF IInv, Unbroken, SavedStored, Stored
<1>10. Saved(current)' /\ ReceiptsSaved'
  BY <1>1, NamedKept
<1> QED
  BY <1>4, <1>8, <1>9, <1>10 DEF IInv

\* The operations begin with a sound plan.
LEMMA PlansSound ==
    ASSUME LedgerAssumption, IInv, NEW p \in Process,
           Boot(p) \/ FsWrite(p) \/ FsRead(p) \/ Rollback(p) \/ StateCheckout(p) \/ ReplaySession(p) \/ Note(p)
    PROVE  IInv'
<1>1. Saved(current) /\ Unbroken /\ SavedStored
  BY DEF IInv
<1>2. None \notin Manifest
  BY DEF LedgerAssumption, Manifest
<1>3. "object" \in At \ {"idle"} /\ "pointer" \in At \ {"idle"} /\ "count" \in At \ {"idle"}
  BY DEF At
<1>4. CASE Boot(p)
  BY <1>1, <1>3, <1>4, BeginInv DEF Boot
<1>5. CASE FsWrite(p)
  <2>1. PICK path \in Path, d \in Content :
            Begin(p, "object", "fs-write", current, [current EXCEPT ![path] = d], d, "completed")
    BY <1>5 DEF FsWrite
  <2> DEFINE root == [current EXCEPT ![path] = d]
  <2>2. current \in Manifest /\ \A q \in Path : current[q] # None => objects[current[q]] = "whole"
    BY <1>1 DEF Saved, SavedStored, Stored
  <2>3. root \in Manifest /\ \A q \in Path : root[q] # None => root[q] = d \/ objects[root[q]] = "whole"
    BY <2>2 DEF Manifest
  <2> HIDE DEF root
  <2> QED
    BY <1>3, <2>1, <2>3, BeginInv DEF root
<1>6. CASE FsRead(p)
  BY <1>1, <1>3, <1>6, BeginInv DEF FsRead
<1>7. CASE Rollback(p)
  <2>1. PICK name \in DOMAIN ledger :
          LET target == ledger[name].root
              found  == target \in Manifest /\ states[target] # "absent"
          IN  Begin(p, IF found THEN "pointer" ELSE "count", "rollback", current, target, None,
                    IF found THEN "completed" ELSE "blocked")
    BY <1>7 DEF Rollback
  <2> DEFINE target == ledger[name].root
             found  == target \in Manifest /\ states[target] # "absent"
  <2>2. target \in Manifest => Saved(target)
    BY DEF IInv, ReceiptsSaved
  <2> HIDE DEF target
  <2>3. CASE found
    BY <1>3, <2>1, <2>2, <2>3, BeginInv DEF target
  <2>4. CASE ~found
    BY <1>3, <2>1, <2>2, <2>4, BeginInv DEF target
  <2> QED
    BY <2>3, <2>4
<1>8. CASE StateCheckout(p)
  <2>1. PICK root \in Manifest : states[root] = "whole" /\ Begin(p, "pointer", "state-checkout", current, root, None, "completed")
    BY <1>8 DEF StateCheckout
  <2> QED
    BY <1>3, <2>1, BeginInv DEF Saved
<1>9. CASE ReplaySession(p)
  BY <1>2, <1>3, <1>9, BeginInv DEF ReplaySession
<1>10. CASE Note(p)
  BY <1>2, <1>3, <1>10, BeginInv DEF Note
<1> QED
  BY <1>4, <1>5, <1>6, <1>7, <1>8, <1>9, <1>10

\* A process that goes on keeps what its receipt will say.
LEMMA AdvanceFields ==
    ASSUME IInv, NEW p \in Process, proc[p].at # "idle", NEW at, Advance(p, at)
    PROVE  /\ proc'[p].at = at /\ proc'[p].root = proc[p].root /\ proc'[p].object = proc[p].object
           /\ DOMAIN proc'[p] = Field
           /\ proc' = [q \in Process |-> proc'[q]]
           /\ \A q \in Process : q # p => proc'[q] = proc[q]
<1>1. proc = [q \in Process |-> proc[q]] /\ DOMAIN proc[p] = Field
  BY DEF IInv, Shaped, Idle
<1> DEFINE r == [proc[p] EXCEPT !.at = at]
<1>2. proc' = [proc EXCEPT ![p] = r]
  BY DEF Advance
<1>3. r.at = at /\ r.root = proc[p].root /\ r.object = proc[p].object /\ DOMAIN r = Field
  BY <1>1 DEF Field
<1> HIDE DEF r
<1> QED
  BY <1>1, <1>2, <1>3

\* The file writes of an operation.
LEMMA WriteObjectInv ==
    ASSUME IInv, NEW p \in Process, WriteObject(p)
    PROVE  IInv'
<1> DEFINE c == proc[p].object
           m == proc[p].root
<1>1. /\ proc[p].at = "object" /\ Advance(p, "state") /\ ledger' = ledger /\ states' = states /\ current' = current
      /\ objects' = [objects EXCEPT ![c] = IF @ = "absent" THEN "whole" ELSE @]
  BY DEF WriteObject
<1>2. /\ m \in Manifest /\ c \in Content
      /\ \A q \in Path : m[q] # None => m[q] = c \/ objects[m[q]] = "whole"
  BY <1>1 DEF IInv, ProcessSound
<1>3. /\ proc'[p].at = "state" /\ proc'[p].root = m /\ DOMAIN proc'[p] = Field
      /\ proc' = [q \in Process |-> proc'[q]]
      /\ \A q \in Process : q # p => proc'[q] = proc[q]
  BY <1>1, AdvanceFields
<1> HIDE DEF c, m
<1>4. /\ objects' \in [Content -> {"absent", "whole"}] /\ objects'[c] = "whole"
      /\ \A x \in Content : objects[x] = "whole" => objects'[x] = "whole"
  BY <1>1, <1>2 DEF IInv, Unbroken
<1>5. \A x \in Manifest, q \in Path : x[q] # None => x[q] \in Content
  BY DEF Manifest
<1>7. Unbroken' /\ SavedStored'
  BY <1>1, <1>4, <1>5 DEF IInv, Unbroken, SavedStored, Stored
<1>8. Saved(current)' /\ ReceiptsSaved'
  BY <1>1, NamedKept
<1>9. Shaped(proc'[p]) /\ ProcessSound(p)'
  <2>1. PICK x : x = m
    OBVIOUS
  <2>2. Stored(x)'
    BY <1>2, <1>4, <1>5, <2>1 DEF Stored
  <2> QED
    BY <1>2, <1>3, <2>1, <2>2 DEF Shaped, ProcessSound, At, Stored
<1>10. \A q \in Process : q # p => Shaped(proc'[q]) /\ ProcessSound(q)'
  BY <1>1, <1>3, <1>4, OtherSound
<1> QED
  BY <1>3, <1>7, <1>8, <1>9, <1>10 DEF IInv

\* save_manifest: the objects of the manifest are stored already.
LEMMA SaveManifestInv ==
    ASSUME IInv, NEW p \in Process, SaveManifest(p)
    PROVE  IInv'
<1>1. PICK m : m = proc[p].root
  OBVIOUS
<1>2. /\ proc[p].at = "state" /\ Advance(p, "pointer") /\ ledger' = ledger /\ objects' = objects /\ current' = current
      /\ states' = [states EXCEPT ![m] = "whole"]
  BY <1>1 DEF SaveManifest
<1>3. m \in Manifest /\ Stored(m)
  BY <1>1, <1>2 DEF IInv, ProcessSound
<1>4. /\ proc'[p].at = "pointer" /\ proc'[p].root = m /\ DOMAIN proc'[p] = Field
      /\ proc' = [q \in Process |-> proc'[q]]
      /\ \A q \in Process : q # p => proc'[q] = proc[q]
  BY <1>1, <1>2, AdvanceFields
<1>5. /\ states' \in [Manifest -> {"absent", "whole"}] /\ states'[m] = "whole"
      /\ \A x \in Manifest : x # m => states'[x] = states[x]
  BY <1>2, <1>3 DEF IInv, Unbroken
<1>6. Unbroken' /\ SavedStored'
  <2>1. Unbroken'
    BY <1>2, <1>5 DEF IInv, Unbroken
  <2>2. ASSUME NEW x \in Manifest, states'[x] = "whole" PROVE \A q \in Path : x[q] # None => objects[x[q]] = "whole"
    BY <1>3, <1>5, <2>2 DEF IInv, SavedStored, Stored
  <2> QED
    BY <1>2, <2>1, <2>2 DEF SavedStored, Stored
<1>7. Saved(current)' /\ ReceiptsSaved'
  BY <1>2, <1>5, NamedKept
<1>8. Shaped(proc'[p]) /\ ProcessSound(p)'
  BY <1>3, <1>4, <1>5 DEF Shaped, ProcessSound, Saved, At
<1>9. \A q \in Process : q # p => Shaped(proc'[q]) /\ ProcessSound(q)'
  BY <1>2, <1>4, <1>5, OtherSound
<1> QED
  BY <1>4, <1>6, <1>7, <1>8, <1>9 DEF IInv

\* set_current_root: the new root is saved already.
LEMMA SetCurrentRootInv ==
    ASSUME IInv, NEW p \in Process, SetCurrentRoot(p)
    PROVE  IInv'
<1>1. PICK m : m = proc[p].root
  OBVIOUS
<1>2. /\ proc[p].at = "pointer" /\ Advance(p, "count") /\ ledger' = ledger /\ objects' = objects /\ states' = states
      /\ current' = m
  BY <1>1 DEF SetCurrentRoot
<1>3. Saved(m)
  BY <1>1, <1>2 DEF IInv, ProcessSound
<1>4. /\ proc'[p].at = "count" /\ proc'[p].root = m /\ DOMAIN proc'[p] = Field
      /\ proc' = [q \in Process |-> proc'[q]]
      /\ \A q \in Process : q # p => proc'[q] = proc[q]
  BY <1>1, <1>2, AdvanceFields
<1>5. Unbroken' /\ SavedStored' /\ Saved(current)' /\ ReceiptsSaved'
  BY <1>2, <1>3 DEF IInv, Unbroken, SavedStored, Stored, Saved, ReceiptsSaved
<1>6. Shaped(proc'[p]) /\ ProcessSound(p)'
  BY <1>2, <1>3, <1>4 DEF Shaped, ProcessSound, Saved, At
<1>7. \A q \in Process : q # p => Shaped(proc'[q]) /\ ProcessSound(q)'
  BY <1>2, <1>4, OtherSound
<1> QED
  BY <1>4, <1>5, <1>6, <1>7 DEF IInv

\* record reads the directory twice; neither reading changes a file.
LEMMA RecordReadsInv ==
    ASSUME IInv, NEW p \in Process, RecordCount(p) \/ RecordPrevious(p)
    PROVE  IInv'
<1>1. PICK m : m = proc[p].root
  OBVIOUS
<1>2. /\ proc[p].at \in {"count", "previous"} /\ ledger' = ledger /\ objects' = objects
      /\ states' = states /\ current' = current
      /\ proc = [q \in Process |-> proc[q]] /\ DOMAIN proc[p] = Field
      /\ m \in Manifest => Saved(m)
  BY <1>1 DEF RecordCount, RecordPrevious, files, IInv, Shaped, Idle, ProcessSound
<1>3. PICK r : /\ proc' = [proc EXCEPT ![p] = r]
               /\ r.at \in {"previous", "entry"} /\ r.root = m /\ DOMAIN r = Field
  <2>1. CASE RecordCount(p)
    <3> DEFINE n == Cardinality(DOMAIN ledger) + 1
               r == [proc[p] EXCEPT !.at = "previous", !.sequence = n]
    <3>1. proc' = [proc EXCEPT ![p] = r]
      BY <2>1 DEF RecordCount
    <3>2. r.at = "previous" /\ r.root = m /\ DOMAIN r = Field
      BY <1>1, <1>2 DEF Field
    <3> HIDE DEF r
    <3> QED
      BY <3>1, <3>2
  <2>2. CASE RecordPrevious(p)
    <3> DEFINE h == LastHash
               r == [proc[p] EXCEPT !.at = "entry", !.previous_hash = h]
    <3>1. proc' = [proc EXCEPT ![p] = r]
      BY <2>2 DEF RecordPrevious
    <3> HIDE DEF h
    <3>2. r.at = "entry" /\ r.root = m /\ DOMAIN r = Field
      BY <1>1, <1>2 DEF Field
    <3> HIDE DEF r
    <3> QED
      BY <3>1, <3>2
  <2> QED
    BY <2>1, <2>2
<1>4. /\ proc'[p] = r /\ proc' = [q \in Process |-> proc'[q]]
      /\ \A q \in Process : q # p => proc'[q] = proc[q]
  BY <1>2, <1>3
<1>5. Unbroken' /\ SavedStored'
  BY <1>2 DEF IInv, Unbroken, SavedStored, Stored
<1>6. Saved(current)' /\ ReceiptsSaved'
  BY <1>2, NamedKept
<1>7. Shaped(proc'[p]) /\ ProcessSound(p)'
  BY <1>2, <1>3, <1>4 DEF Shaped, ProcessSound, Saved, At
<1>8. \A q \in Process : q # p => Shaped(proc'[q]) /\ ProcessSound(q)'
  BY <1>2, <1>4, OtherSound
<1> QED
  BY <1>4, <1>5, <1>6, <1>7, <1>8 DEF IInv

\* The receipt names what the process planned, which is saved.
LEMMA RecordWriteInv ==
    ASSUME IInv, NEW p \in Process, RecordWrite(p)
    PROVE  IInv'
<1>1. /\ proc[p].at = "entry" /\ PutEntry(p, Receipt(p)) /\ proc' = [proc EXCEPT ![p] = Idle]
      /\ states' = states /\ objects' = objects /\ current' = current
  BY DEF RecordWrite
<1>2. PICK name, e : name = EntryName(p) /\ e = Receipt(p)
  OBVIOUS
<1>3. ledger' = [n \in DOMAIN ledger \cup {name} |-> IF n = name THEN e ELSE ledger[n]]
  BY <1>1, <1>2 DEF PutEntry
<1>4. e.root \in Manifest => Saved(e.root)
  BY <1>1, <1>2 DEF IInv, ProcessSound, Receipt
<1>5. ReceiptsSaved'
  BY <1>1, <1>3, <1>4 DEF IInv, ReceiptsSaved, Saved
<1>6. Unbroken' /\ SavedStored' /\ Saved(current)'
  BY <1>1 DEF IInv, Unbroken, SavedStored, Stored, Saved
<1>7. /\ proc' = [q \in Process |-> proc'[q]] /\ proc'[p] = Idle
      /\ \A q \in Process : q # p => proc'[q] = proc[q]
  BY <1>1 DEF IInv
<1>8. \A q \in Process : Shaped(proc'[q]) /\ ProcessSound(q)'
  BY <1>1, <1>7, OtherSound, IdleSound
<1> QED
  BY <1>5, <1>6, <1>7, <1>8 DEF IInv

\* A death between two writes leaves the files as they are.
LEMMA CrashInv ==
    ASSUME IInv, NEW p \in Process, Crash(p)
    PROVE  IInv'
<1>1. /\ proc' = [proc EXCEPT ![p] = Idle] /\ ledger' = ledger
      /\ states' = states /\ objects' = objects /\ current' = current
  BY DEF Crash, files
<1>2. Unbroken' /\ SavedStored'
  BY <1>1 DEF IInv, Unbroken, SavedStored, Stored
<1>3. Saved(current)' /\ ReceiptsSaved'
  BY <1>1, NamedKept
<1>4. /\ proc' = [q \in Process |-> proc'[q]] /\ proc'[p] = Idle
      /\ \A q \in Process : q # p => proc'[q] = proc[q]
  BY <1>1 DEF IInv
<1>5. \A q \in Process : Shaped(proc'[q]) /\ ProcessSound(q)'
  BY <1>1, <1>4, OtherSound, IdleSound
<1> QED
  BY <1>2, <1>3, <1>4, <1>5 DEF IInv

\* Every step but a death inside a write keeps the invariant.
LEMMA InvStep ==
    ASSUME LedgerAssumption, TornWrites = FALSE, IInv, [Next]_vars
    PROVE  IInv'
<1>1. CASE UNCHANGED vars
  BY <1>1 DEF vars, files, IInv, Unbroken, SavedStored, Stored, Saved, ReceiptsSaved, ProcessSound
<1>2. ASSUME NEW p \in Process,
             \/ Boot(p) \/ FsWrite(p) \/ FsRead(p) \/ Rollback(p)
             \/ StateCheckout(p) \/ ReplaySession(p) \/ Note(p)
             \/ WriteObject(p) \/ SaveManifest(p) \/ SetCurrentRoot(p)
             \/ RecordCount(p) \/ RecordPrevious(p) \/ RecordWrite(p)
             \/ Crash(p) \/ CrashInside(p)
      PROVE  IInv'
  <2>1. ~CrashInside(p)
    BY DEF CrashInside
  <2> QED
    BY <1>2, <2>1, PlansSound, WriteObjectInv, SaveManifestInv, SetCurrentRootInv, RecordReadsInv,
       RecordWriteInv, CrashInv
<1> QED
  BY <1>1, <1>2 DEF Next

\* However many processes write at once and wherever they die between two
\* writes, what current_root and the receipts name can be read back.
THEOREM RootsStayRecoverable ==
    ASSUME LedgerAssumption, TornWrites = FALSE
    PROVE  Spec => []RootsRecoverable
<1>1. Init => IInv
  BY InitInv
<1>2. IInv /\ [Next]_vars => IInv'
  BY InvStep
<1>3. IInv => RootsRecoverable
  BY DEF IInv, RootsRecoverable, Recoverable, Saved, ReceiptsSaved, SavedStored, Stored
<1> QED
  BY <1>1, <1>2, <1>3, PTL DEF Spec

-----------------------------------------------------------------------------
(* The ledger of a single process.                                         *)

\* Receipts are numbered from one without a number left out.
Numbered ==
    /\ IsFiniteSet(DOMAIN ledger)
    /\ \A n \in DOMAIN ledger : n.sequence \in 1..Cardinality(DOMAIN ledger)

\* The number a process took is still the next one when it writes.
NumberTaken(p) ==
    /\ DOMAIN proc = Process
    /\ proc[p] = Idle \/ DOMAIN proc[p] = Field
    /\ proc[p].at \in {"previous", "entry"} => proc[p].sequence = Cardinality(DOMAIN ledger) + 1

\* Beginning an operation and ending one leave no number taken.
LEMMA NoNumber ==
    ASSUME NEW p \in Process, DOMAIN proc = Process, NEW r, proc' = [proc EXCEPT ![p] = r],
           r = Idle \/ DOMAIN r = Field, r.at \notin {"previous", "entry"}
    PROVE  NumberTaken(p)'
  BY DEF NumberTaken

\* The file a receipt is written to is a new one.
LEMMA PutEntryNew ==
    ASSUME NEW p \in Process, Numbered, NumberTaken(p), proc[p].at = "entry", NEW f, PutEntry(p, f)
    PROVE  Numbered' /\ Appends
<1>1. PICK name, c : name = EntryName(p) /\ c = Cardinality(DOMAIN ledger)
  OBVIOUS
<1>2. IsFiniteSet(DOMAIN ledger) /\ c \in Nat
  BY <1>1, FS_CardinalityType DEF Numbered
<1>3. name.sequence = c + 1
  BY <1>1 DEF NumberTaken, EntryName
<1>4. name \notin DOMAIN ledger
  BY <1>1, <1>2, <1>3 DEF Numbered
<1>5. ledger' = [n \in DOMAIN ledger \cup {name} |-> IF n = name THEN f ELSE ledger[n]]
  BY <1>1 DEF PutEntry
<1>6. DOMAIN ledger' = DOMAIN ledger \cup {name}
  BY <1>5
<1>7. IsFiniteSet(DOMAIN ledger') /\ Cardinality(DOMAIN ledger') = c + 1
  BY <1>1, <1>2, <1>4, <1>6, FS_AddElement
<1>8. \A n \in DOMAIN ledger' : n.sequence \in 1..(c + 1)
  BY <1>1, <1>2, <1>3, <1>6 DEF Numbered
<1>9. Appends
  BY <1>4, <1>5, <1>6 DEF Appends
<1> QED
  BY <1>7, <1>8, <1>9 DEF Numbered

\* Every step keeps the numbering and every receipt.
LEMMA AppendStep ==
    ASSUME NEW p, Process = {p}, Numbered, NumberTaken(p), Next
    PROVE  Numbered' /\ NumberTaken(p)' /\ Appends
<1>1. p \in Process /\ DOMAIN proc = Process /\ Idle.at = "idle"
  BY DEF NumberTaken, Idle
<1>2. ASSUME ledger' = ledger PROVE Numbered' /\ Appends
  BY <1>2 DEF Numbered, Appends
<1>3. ASSUME NEW at \in {"object", "pointer", "count"}, NEW event, NEW before, NEW root, NEW object, NEW status,
             Begin(p, at, event, before, root, object, status)
      PROVE  Numbered' /\ NumberTaken(p)' /\ Appends
  <2> DEFINE r == [at |-> at, event |-> event, before |-> before, root |-> root,
                   object |-> object, status |-> status, sequence |-> 0, previous_hash |-> None]
  <2>1. proc' = [proc EXCEPT ![p] = r] /\ ledger' = ledger
    BY <1>3 DEF Begin, files
  <2>2. DOMAIN r = Field /\ r.at = at
    BY DEF Field
  <2> HIDE DEF r
  <2>3. NumberTaken(p)'
    BY <1>1, <2>1, <2>2, NoNumber
  <2> QED
    BY <1>2, <2>1, <2>3
<1>4. CASE Boot(p) \/ FsWrite(p) \/ FsRead(p) \/ Rollback(p) \/ StateCheckout(p) \/ ReplaySession(p) \/ Note(p)
  <2>1. CASE Boot(p)
    BY <1>3, <2>1 DEF Boot
  <2>2. CASE FsWrite(p)
    BY <1>3, <2>2 DEF FsWrite
  <2>3. CASE FsRead(p)
    BY <1>3, <2>3 DEF FsRead
  <2>4. CASE Rollback(p)
    BY <1>3, <2>4 DEF Rollback
  <2>5. CASE StateCheckout(p)
    BY <1>3, <2>5 DEF StateCheckout
  <2>6. CASE ReplaySession(p)
    BY <1>3, <2>6 DEF ReplaySession
  <2>7. CASE Note(p)
    BY <1>3, <2>7 DEF Note
  <2> QED
    BY <1>4, <2>1, <2>2, <2>3, <2>4, <2>5, <2>6, <2>7
<1>5. ASSUME NEW at, proc[p].at # "idle", at \notin {"previous", "entry"}, Advance(p, at), ledger' = ledger
      PROVE  Numbered' /\ NumberTaken(p)' /\ Appends
  <2> DEFINE r == [proc[p] EXCEPT !.at = at]
  <2>1. proc' = [proc EXCEPT ![p] = r]
    BY <1>5 DEF Advance
  <2>2. DOMAIN proc[p] = Field
    BY <1>1, <1>5 DEF NumberTaken
  <2>3. DOMAIN r = Field /\ r.at = at
    BY <2>2 DEF Field
  <2> HIDE DEF r
  <2>4. NumberTaken(p)'
    BY <1>1, <1>5, <2>1, <2>3, NoNumber
  <2> QED
    BY <1>2, <1>5, <2>4
<1>6. CASE WriteObject(p) \/ SaveManifest(p) \/ SetCurrentRoot(p)
  BY <1>5, <1>6 DEF WriteObject, SaveManifest, SetCurrentRoot
<1>7. CASE RecordCount(p)
  <2> DEFINE n == Cardinality(DOMAIN ledger) + 1
             r == [proc[p] EXCEPT !.at = "previous", !.sequence = n]
  <2>1. proc' = [proc EXCEPT ![p] = r] /\ ledger' = ledger /\ proc[p].at = "count"
    BY <1>7 DEF RecordCount, files
  <2>2. DOMAIN proc[p] = Field
    BY <1>1, <2>1 DEF NumberTaken
  <2> HIDE DEF n
  <2>3. DOMAIN r = Field /\ r.sequence = n
    BY <2>2 DEF Field
  <2> HIDE DEF r
  <2>4. NumberTaken(p)'
    BY <1>1, <2>1, <2>3 DEF NumberTaken, n
  <2> QED
    BY <1>2, <2>1, <2>4
<1>8. CASE RecordPrevious(p)
  <2> DEFINE h == LastHash
             r == [proc[p] EXCEPT !.at = "entry", !.previous_hash = h]
  <2>1. proc' = [proc EXCEPT ![p] = r] /\ ledger' = ledger /\ proc[p].at = "previous"
    BY <1>8 DEF RecordPrevious, files
  <2>2. DOMAIN proc[p] = Field
    BY <1>1, <2>1 DEF NumberTaken
  <2> HIDE DEF h
  <2>3. DOMAIN r = Field /\ r.sequence = proc[p].sequence
    BY <2>2 DEF Field
  <2> HIDE DEF r
  <2>4. NumberTaken(p)'
    BY <1>1, <2>1, <2>3 DEF NumberTaken
  <2> QED
    BY <1>2, <2>1, <2>4
<1>9. ASSUME proc' = [proc EXCEPT ![p] = Idle] PROVE NumberTaken(p)'
  BY <1>1, <1>9, NoNumber
<1>10. CASE RecordWrite(p)
  BY <1>1, <1>9, <1>10, PutEntryNew DEF RecordWrite
<1>11. CASE Crash(p)
  BY <1>2, <1>9, <1>11 DEF Crash, files
<1>12. CASE CrashInside(p)
  <2>1. ledger' = ledger \/ (proc[p].at = "entry" /\ PutEntry(p, Damaged))
    BY <1>12 DEF CrashInside
  <2>2. proc' = [proc EXCEPT ![p] = Idle]
    BY <1>12 DEF CrashInside
  <2> QED
    BY <1>1, <1>2, <1>9, <2>1, <2>2, PutEntryNew
<1> QED
  BY <1>4, <1>6, <1>7, <1>8, <1>10, <1>11, <1>12 DEF Next

\* A ledger that one process at a time writes is append-only: no receipt is
\* overwritten or removed, wherever that process dies.
THEOREM SingleWriterAppends ==
    ASSUME \E p : Process = {p}
    PROVE  Spec => [][Appends]_vars
<1>0. PICK p : Process = {p}
  OBVIOUS
<1> DEFINE J == Numbered /\ NumberTaken(p)
<1>1. Init => J
  <2> SUFFICES ASSUME Init PROVE J
    OBVIOUS
  <2>1. ledger = <<>> /\ proc = [q \in Process |-> Idle] /\ Idle.at = "idle"
    BY DEF Init, Idle
  <2>2. DOMAIN ledger = {}
    BY <2>1
  <2> QED
    BY <1>0, <2>1, <2>2, FS_EmptySet DEF Numbered, NumberTaken
<1>2. J /\ [Next]_vars => J'
  <2>1. J /\ UNCHANGED vars => J'
    BY DEF vars, files, Numbered, NumberTaken
  <2> QED
    BY <1>0, <2>1, AppendStep
<1>3. J /\ [Next]_vars => [Appends]_vars
  BY <1>0, AppendStep
<1> QED
  BY <1>1, <1>2, <1>3, PTL DEF Spec

-----------------------------------------------------------------------------
(* The chain of a single process.                                          *)

\* One file for each number, its receipt so numbered, chained to the one before.
Distinct == \A m, n \in DOMAIN ledger : m.sequence = n.sequence => m = n
Labelled == \A n \in DOMAIN ledger : ledger[n].sequence = n.sequence
Linked ==
    /\ \A n \in DOMAIN ledger : n.sequence = 1 => ledger[n].previous_hash = ZERO_HASH
    /\ \A m, n \in DOMAIN ledger : n.sequence = m.sequence + 1 => ledger[n].previous_hash = Hash(ledger[m])

\* The hash a process took is still that of the last receipt when it writes.
HashTaken(p) ==
    proc[p].at = "entry" =>
        /\ DOMAIN ledger = {} => proc[p].previous_hash = ZERO_HASH
        /\ \A n \in DOMAIN ledger :
              n.sequence = Cardinality(DOMAIN ledger) => proc[p].previous_hash = Hash(ledger[n])

\* The numbers of the receipts are exactly 1 to their count.
LEMMA EveryNumber ==
    ASSUME Numbered, Distinct, NEW k \in 0..Cardinality(DOMAIN ledger)
    PROVE  /\ k # 0 => \E n \in DOMAIN ledger : n.sequence = k
           /\ Cardinality({n \in DOMAIN ledger : n.sequence < k + 1}) = k
<1> DEFINE D == DOMAIN ledger
           c == Cardinality(D)
           f == [n \in D |-> n.sequence]
           L == {n \in D : n.sequence < k + 1}
           g == [n \in L |-> n.sequence]
<1>1. IsFiniteSet(D) /\ c \in Nat /\ \A n \in D : n.sequence \in 1..c
  BY FS_CardinalityType DEF Numbered
<1>2. k \in Nat /\ k <= c
  BY <1>1
<1>3. \A m, n \in D : m.sequence = n.sequence => m = n
  BY DEF Distinct
<1> HIDE DEF D, c
<1>4. f \in Injection(D, 1..c)
  BY <1>1, <1>3 DEF Injection, IsInjective
<1>5. IsFiniteSet(1..c) /\ Cardinality(1..c) = c
  BY <1>1, FS_Interval
<1>6. f \in Surjection(D, 1..c)
  BY <1>4, <1>5, FS_Injection, Zenon DEF c
<1>7. \A t \in 1..c : \E n \in D : n.sequence = t
  BY <1>6 DEF Surjection
<1>8. k # 0 => \E n \in D : n.sequence = k
  BY <1>1, <1>2, <1>7
<1>9. \A n \in L : n.sequence \in 1..k
  BY <1>1, <1>2
<1>10. \A t \in 1..k : \E n \in L : n.sequence = t
  BY <1>1, <1>2, <1>7
<1>11. L \subseteq D
  OBVIOUS
<1> HIDE DEF L
<1>12. g \in Injection(L, 1..k) /\ g \in Surjection(L, 1..k)
  BY <1>3, <1>9, <1>10, <1>11 DEF Injection, IsInjective, Surjection
<1>13. IsFiniteSet(1..k) /\ Cardinality(1..k) = k
  BY <1>2, FS_Interval
<1>14. Cardinality(L) = k
  BY <1>12, <1>13, FS_Injection, Zenon
<1> QED
  BY <1>8, <1>14 DEF D, L

\* Files of different numbers are listed in the order of their numbers.
LEMMA ListedByNumber ==
    ASSUME Numbered, Distinct, NEW i \in 1..Cardinality(DOMAIN ledger)
    PROVE  Listed(i) \in DOMAIN ledger /\ Listed(i).sequence = i
<1> DEFINE D == DOMAIN ledger
           Ahead(n) == {m \in D : Before(m, n)}
<1>1. Cardinality(D) \in Nat /\ \A n \in D : n.sequence \in 1..Cardinality(D)
  BY FS_CardinalityType DEF Numbered
<1>2. \A m \in D : ~Before(m, m)
  <2>1. \A j, k \in 1..7 : j < k => Event[j] # Event[k]
    BY DEF Event
  <2>2. DOMAIN Event = 1..7
    BY DEF Event
  <2> QED
    BY <1>1, <2>1, <2>2 DEF Before
<1>3. ASSUME NEW n \in D PROVE Cardinality(Ahead(n)) = n.sequence - 1
  <2> DEFINE k == n.sequence - 1
  <2>1. k \in 0..Cardinality(D) /\ k + 1 = n.sequence
    BY <1>1, <1>3
  <2>2. ASSUME NEW m \in D PROVE Before(m, n) <=> m.sequence < k + 1
    <3>1. CASE m = n
      BY <1>1, <1>2, <1>3, <2>1, <3>1
    <3>2. CASE m # n
      BY <1>1, <1>3, <2>1, <2>2, <3>2 DEF Distinct, Before
    <3> QED
      BY <3>1, <3>2
  <2>3. Ahead(n) = {m \in D : m.sequence < k + 1}
    BY <2>2
  <2> HIDE DEF k
  <2>4. Cardinality({m \in D : m.sequence < k + 1}) = k
    BY <2>1, EveryNumber
  <2> QED
    BY <2>3, <2>4 DEF k
<1>4. i \in Nat /\ i # 0 /\ i \in 0..Cardinality(D)
  BY <1>1
<1>5. PICK n \in D : n.sequence = i
  BY <1>4, EveryNumber
<1>6. Cardinality(Ahead(n)) = i - 1
  BY <1>3, <1>5
<1>7. Listed(i) \in D /\ Cardinality(Ahead(Listed(i))) = i - 1
  BY <1>6 DEF Listed
<1>8. Listed(i).sequence - 1 = i - 1
  BY <1>3, <1>7
<1> QED
  BY <1>1, <1>4, <1>7, <1>8

Chain(p) == Numbered /\ Distinct /\ Labelled /\ Linked /\ NumberTaken(p) /\ HashTaken(p)

\* A ledger so numbered and linked verifies.
LEMMA ChainVerifies ==
    ASSUME Numbered, Distinct, Labelled, Linked
    PROVE  VerifyLedger
<1> DEFINE c == Cardinality(DOMAIN ledger)
<1>1. c \in Nat /\ \A n \in DOMAIN ledger : n.sequence \in 1..c
  BY FS_CardinalityType DEF Numbered
<1>2. \A i \in 1..c : Listed(i) \in DOMAIN ledger /\ Listed(i).sequence = i
  BY ListedByNumber
<1> HIDE DEF c
<1>3. DOMAIN Entries = 1..c /\ \A i \in 1..c : Entries[i] = ledger[Listed(i)]
  BY DEF Entries, c
<1>4. \A i \in 1..c : Entries[i].sequence = i /\ Entries[i] # Damaged
  BY <1>1, <1>2, <1>3 DEF Labelled, Damaged
<1> DEFINE good(i) == {j \in 1..(i - 1) : Entries[j] # Damaged}
           Previous(i) == IF good(i) = {} THEN ZERO_HASH ELSE Hash(Entries[Max(good(i))])
<1>5. ASSUME NEW i \in 1..c PROVE Entries[i].previous_hash = Previous(i)
  <2>1. good(i) = 1..(i - 1)
    BY <1>1, <1>4
  <2>2. CASE i = 1
    <3>1. good(i) = {}
      BY <2>1, <2>2
    <3> QED
      BY <1>2, <1>3, <1>5, <2>2, <3>1 DEF Linked
  <2>3. CASE i # 1
    <3>1. i - 1 \in 1..c /\ i = (i - 1) + 1 /\ i - 1 \in 1..(i - 1) /\ \A j \in 1..(i - 1) : i - 1 >= j
      BY <1>1, <2>3
    <3>2. Max(1..(i - 1)) = i - 1
      BY <1>1, <3>1 DEF Max
    <3>3. Previous(i) = Hash(Entries[i - 1])
      BY <2>1, <3>1, <3>2
    <3>4. Entries[i - 1] = ledger[Listed(i - 1)] /\ Listed(i).sequence = Listed(i - 1).sequence + 1
      BY <1>2, <1>3, <3>1
    <3>5. ledger[Listed(i)].previous_hash = Hash(ledger[Listed(i - 1)])
      BY <1>2, <3>1, <3>4 DEF Linked
    <3> QED
      BY <1>3, <3>3, <3>4, <3>5
  <2> QED
    BY <2>2, <2>3
<1> QED
  BY <1>3, <1>4, <1>5 DEF VerifyLedger

\* last_hash is that of the receipt with the highest number.
LEMMA LastIsHighest ==
    ASSUME Numbered, Distinct
    PROVE  /\ DOMAIN ledger = {} => LastHash = ZERO_HASH
           /\ \A n \in DOMAIN ledger : n.sequence = Cardinality(DOMAIN ledger) => LastHash = Hash(ledger[n])
<1> DEFINE c == Cardinality(DOMAIN ledger)
<1>1. c \in Nat /\ (DOMAIN ledger = {} <=> c = 0)
  BY FS_CardinalityType, FS_EmptySet DEF Numbered
<1>2. \A i \in 1..c : Listed(i) \in DOMAIN ledger /\ Listed(i).sequence = i
  BY ListedByNumber
<1> HIDE DEF c
<1>3. DOMAIN Entries = 1..c /\ \A i \in 1..c : Entries[i] = ledger[Listed(i)]
  BY DEF Entries, c
<1>4. Entries = [i \in 1..c |-> ledger[Listed(i)]]
  BY DEF Entries, c
<1>5. ASSUME DOMAIN ledger = {} PROVE LastHash = ZERO_HASH
  <2>1. Entries = <<>>
    BY <1>1, <1>4, <1>5
  <2> QED
    BY <2>1 DEF LastHash
<1>6. ASSUME NEW n \in DOMAIN ledger, n.sequence = c PROVE LastHash = Hash(ledger[n])
  <2>1. c \in 1..c
    BY <1>1, <1>6
  <2>2. Listed(c) = n
    BY <1>2, <1>6, <2>1 DEF Distinct
  <2>3. Len(Entries) = c /\ Entries # <<>>
    BY <1>1, <1>3, <1>4, <2>1
  <2>4. Last(Entries) = ledger[n]
    BY <1>3, <2>1, <2>2, <2>3 DEF Last
  <2> QED
    BY <2>3, <2>4 DEF LastHash
<1> QED
  BY <1>5, <1>6 DEF c

\* The next receipt continues the chain.
LEMMA RecordExtends ==
    ASSUME NEW p \in Process, Chain(p), RecordWrite(p)
    PROVE  Distinct' /\ Labelled' /\ Linked'
<1>1. PICK D, c, name, e : D = DOMAIN ledger /\ c = Cardinality(D) /\ name = EntryName(p) /\ e = Receipt(p)
  OBVIOUS
<1>2. /\ proc[p].at = "entry"
      /\ ledger' = [n \in D \cup {name} |-> IF n = name THEN e ELSE ledger[n]]
  BY <1>1 DEF RecordWrite, PutEntry
<1>3. c \in Nat /\ (D = {} <=> c = 0) /\ \A n \in D : n.sequence \in 1..c
  BY <1>1, FS_CardinalityType, FS_EmptySet DEF Chain, Numbered
<1>4. name.sequence = c + 1 /\ e.sequence = c + 1 /\ e.previous_hash = proc[p].previous_hash
  BY <1>1, <1>2 DEF Chain, NumberTaken, EntryName, Receipt
<1>5. /\ c = 0 => e.previous_hash = ZERO_HASH
      /\ \A n \in D : n.sequence = c => e.previous_hash = Hash(ledger[n])
  BY <1>1, <1>2, <1>3, <1>4 DEF Chain, HashTaken
<1>6. name \notin D
  BY <1>3, <1>4
<1>7. DOMAIN ledger' = D \cup {name} /\ ledger'[name] = e /\ \A n \in D : ledger'[n] = ledger[n]
  BY <1>2, <1>6
<1>8. Distinct'
  BY <1>1, <1>3, <1>4, <1>7 DEF Chain, Distinct
<1>9. Labelled'
  BY <1>1, <1>4, <1>7 DEF Chain, Labelled
<1>10. \A n \in D \cup {name} : n.sequence = 1 => ledger'[n].previous_hash = ZERO_HASH
  BY <1>1, <1>3, <1>4, <1>5, <1>7 DEF Chain, Linked
<1>11. ASSUME NEW m \in D \cup {name}, NEW n \in D \cup {name}, n.sequence = m.sequence + 1
       PROVE  ledger'[n].previous_hash = Hash(ledger'[m])
  <2>1. m \in D
    BY <1>3, <1>4, <1>11
  <2>2. CASE n = name
    BY <1>3, <1>4, <1>5, <1>7, <1>11, <2>1, <2>2
  <2>3. CASE n \in D
    BY <1>1, <1>7, <1>11, <2>1, <2>3 DEF Chain, Linked
  <2> QED
    BY <1>11, <2>2, <2>3
<1>12. Linked'
  BY <1>7, <1>10, <1>11 DEF Linked, Hash
<1> QED
  BY <1>8, <1>9, <1>12

\* Every step keeps the chain.
LEMMA ChainStep ==
    ASSUME NEW p, Process = {p}, TornWrites = FALSE, Chain(p), Next
    PROVE  Chain(p)'
<1>1. p \in Process /\ DOMAIN proc = Process
  BY DEF Chain, NumberTaken
<1>2. Numbered' /\ NumberTaken(p)'
  BY AppendStep DEF Chain
<1>3. ASSUME ledger' = ledger, HashTaken(p)' PROVE Chain(p)'
  BY <1>2, <1>3 DEF Chain, Distinct, Labelled, Linked, Hash
<1>4. ASSUME NEW r, proc' = [proc EXCEPT ![p] = r], r.at # "entry" PROVE HashTaken(p)'
  BY <1>1, <1>4 DEF HashTaken
<1>5. Idle.at # "entry"
  BY DEF Idle
<1>6. ASSUME NEW at, at # "entry", NEW event, NEW before, NEW root, NEW object, NEW status,
             Begin(p, at, event, before, root, object, status)
      PROVE  Chain(p)'
  <2> DEFINE r == [at |-> at, event |-> event, before |-> before, root |-> root,
                   object |-> object, status |-> status, sequence |-> 0, previous_hash |-> None]
  <2>1. proc' = [proc EXCEPT ![p] = r] /\ ledger' = ledger
    BY <1>6 DEF Begin, files
  <2>2. r.at # "entry"
    BY <1>6
  <2> HIDE DEF r
  <2> QED
    BY <1>3, <1>4, <2>1, <2>2
<1>7. CASE Boot(p) \/ FsWrite(p) \/ FsRead(p) \/ StateCheckout(p) \/ ReplaySession(p) \/ Note(p)
  <2>1. CASE Boot(p)
    BY <1>6, <2>1 DEF Boot
  <2>2. CASE FsWrite(p)
    BY <1>6, <2>2 DEF FsWrite
  <2>3. CASE FsRead(p)
    BY <1>6, <2>3 DEF FsRead
  <2>4. CASE StateCheckout(p)
    BY <1>6, <2>4 DEF StateCheckout
  <2>5. CASE ReplaySession(p)
    BY <1>6, <2>5 DEF ReplaySession
  <2>6. CASE Note(p)
    BY <1>6, <2>6 DEF Note
  <2> QED
    BY <1>7, <2>1, <2>2, <2>3, <2>4, <2>5, <2>6
<1>8. CASE Rollback(p)
  BY <1>6, <1>8 DEF Rollback
<1>9. ASSUME NEW at, at # "entry", proc[p].at # "idle", Advance(p, at), ledger' = ledger
      PROVE  Chain(p)'
  <2> DEFINE r == [proc[p] EXCEPT !.at = at]
  <2>1. proc' = [proc EXCEPT ![p] = r]
    BY <1>9 DEF Advance
  <2>2. DOMAIN proc[p] = Field
    BY <1>5, <1>9 DEF Chain, NumberTaken, Idle
  <2>3. r.at = at
    BY <2>2 DEF Field
  <2> HIDE DEF r
  <2> QED
    BY <1>3, <1>4, <1>9, <2>1, <2>3
<1>10. CASE WriteObject(p) \/ SaveManifest(p) \/ SetCurrentRoot(p)
  BY <1>9, <1>10 DEF WriteObject, SaveManifest, SetCurrentRoot
<1>11. CASE RecordCount(p)
  <2> DEFINE n == Cardinality(DOMAIN ledger) + 1
             r == [proc[p] EXCEPT !.at = "previous", !.sequence = n]
  <2>1. proc' = [proc EXCEPT ![p] = r] /\ ledger' = ledger /\ proc[p].at = "count"
    BY <1>11 DEF RecordCount, files
  <2>2. DOMAIN proc[p] = Field
    BY <2>1 DEF Chain, NumberTaken, Idle
  <2> HIDE DEF n
  <2>3. r.at = "previous"
    BY <2>2 DEF Field
  <2> HIDE DEF r
  <2> QED
    BY <1>3, <1>4, <2>1, <2>3
<1>12. CASE RecordPrevious(p)
  <2>1. PICK h : h = LastHash
    OBVIOUS
  <2> DEFINE r == [proc[p] EXCEPT !.at = "entry", !.previous_hash = h]
  <2>2. proc' = [proc EXCEPT ![p] = r] /\ ledger' = ledger /\ proc[p].at = "previous"
    BY <1>12, <2>1 DEF RecordPrevious, files
  <2>3. DOMAIN proc[p] = Field
    BY <2>2 DEF Chain, NumberTaken, Idle
  <2>4. r.previous_hash = h
    BY <2>3 DEF Field
  <2> HIDE DEF r
  <2>5. proc'[p].previous_hash = h
    BY <1>1, <2>2, <2>4
  <2>6. /\ DOMAIN ledger = {} => h = ZERO_HASH
        /\ \A n \in DOMAIN ledger : n.sequence = Cardinality(DOMAIN ledger) => h = Hash(ledger[n])
    BY <2>1, LastIsHighest DEF Chain
  <2>7. HashTaken(p)'
    BY <2>2, <2>5, <2>6 DEF HashTaken, Hash
  <2> QED
    BY <1>3, <2>2, <2>7
<1>13. CASE RecordWrite(p)
  <2>1. proc' = [proc EXCEPT ![p] = Idle]
    BY <1>13 DEF RecordWrite
  <2>2. HashTaken(p)'
    BY <1>4, <1>5, <2>1
  <2> QED
    BY <1>1, <1>2, <1>13, <2>2, RecordExtends DEF Chain
<1>14. CASE Crash(p)
  BY <1>3, <1>4, <1>5, <1>14 DEF Crash, files
<1>15. ~CrashInside(p)
  BY DEF CrashInside
<1> QED
  BY <1>7, <1>8, <1>10, <1>11, <1>12, <1>13, <1>14, <1>15 DEF Next

\* An empty ledger is chained.
LEMMA ChainInit ==
    ASSUME NEW p, Process = {p}, Init
    PROVE  Chain(p)
<1>1. ledger = <<>> /\ proc = [q \in Process |-> Idle] /\ Idle.at = "idle"
  BY DEF Init, Idle
<1>2. DOMAIN ledger = {}
  BY <1>1
<1>3. Numbered /\ NumberTaken(p)
  BY <1>1, <1>2, FS_EmptySet DEF Numbered, NumberTaken
<1> QED
  BY <1>1, <1>2, <1>3 DEF Chain, Distinct, Labelled, Linked, HashTaken

\* Steps and stutters keep the chain.
LEMMA ChainKept ==
    ASSUME NEW p, Process = {p}, TornWrites = FALSE, Chain(p), [Next]_vars
    PROVE  Chain(p)'
<1>1. CASE UNCHANGED vars
  BY <1>1 DEF vars, files, Chain, Numbered, NumberTaken, Distinct, Labelled, Linked, HashTaken, Hash
<1> QED
  BY <1>1, ChainStep

\* Whatever one process at a time does, and wherever it dies between two writes,
\* verify_ledger accepts the ledger: no receipt is misnumbered or out of the chain.
THEOREM SingleWriterChains ==
    ASSUME NEW p, Process = {p}, TornWrites = FALSE
    PROVE  Spec => []LedgerChained
<1>1. Init => Chain(p)
  BY ChainInit
<1>2. Chain(p) /\ [Next]_vars => Chain(p)'
  BY ChainKept
<1>3. Chain(p) => LedgerChained
  BY ChainVerifies DEF Chain, LedgerChained
<1> QED
  BY <1>1, <1>2, <1>3, PTL DEF Spec

-----------------------------------------------------------------------------
(* A fold over the entries, as FoldLeft computes it: the last entry is     *)
(* applied to the fold of those before it.                                 *)

\* A set of naturals that has an element has a least one.
LEMMA LeastOf ==
    ASSUME NEW T \in SUBSET Nat, T # {}
    PROVE  \E least \in T : \A other \in T : least <= other
<1> DEFINE R == OpToRel(<, Nat)
<1>1. IsWellFoundedOn(R, Nat)
  BY NatLessThanWellFounded, Zenon
<1>2. PICK least \in T : \A other \in T : ~(<<other, least>> \in R)
  BY <1>1, WFMin, Zenon
<1>3. \A other \in T : ~(other < least)
  BY <1>2 DEF OpToRel
<1> QED
  BY <1>3

\* Max is the greatest number of a set of entries.
LEMMA Greatest ==
    ASSUME NEW n \in Nat, NEW s \in SUBSET (1..n), s # {}
    PROVE  Max(s) \in s /\ \A j \in s : j <= Max(s)
<1> DEFINE bounds == {k \in Nat : \A j \in s : j <= k}
<1>1. s \subseteq Nat /\ \A j \in s : j \in 1..n
  OBVIOUS
<1>2. n \in bounds
  BY <1>1
<1>3. PICK k \in bounds : \A other \in bounds : k <= other
  BY <1>2, LeastOf
<1>4. k \in s
  <2> SUFFICES ASSUME k \notin s PROVE FALSE
    OBVIOUS
  <2>1. \A j \in s : j < k
    BY <1>1
  <2>2. PICK j \in s : TRUE
    OBVIOUS
  <2>3. k - 1 \in bounds
    BY <1>1, <2>1, <2>2
  <2> QED
    BY <1>3, <2>3
<1>5. \A j \in s : k >= j
  BY <1>1
<1> QED
  BY <1>1, <1>4, <1>5 DEF Max

\* fold applies step to the numbers of each subset of 1..n in ascending order.
Folds(fold, base, step, n) ==
    \A s \in SUBSET (1..n) :
        fold[s] = IF s = {} THEN base ELSE step[<<fold[s \ {Max(s)}], Max(s)>>]

\* There is such a fold.
LEMMA FoldExists ==
    ASSUME NEW n \in Nat, NEW A, NEW base \in A, NEW step \in [A \X (1..n) -> A]
    PROVE  \E fold \in [SUBSET (1..n) -> A] : Folds(fold, base, step, n)
<1> DEFINE Value(fold, s) == IF s = {} THEN base ELSE step[<<fold[s \ {Max(s)}], Max(s)>>]
           Good(k) == k <= n => \E fold \in [SUBSET (1..k) -> A] : \A s \in SUBSET (1..k) : fold[s] = Value(fold, s)
           bad == {k \in Nat : ~Good(k)}
<1>1. Good(0)
  <2> DEFINE fold == [s \in SUBSET (1..0) |-> base]
  <2>1. \A s \in SUBSET (1..0) : s = {}
    OBVIOUS
  <2>2. fold \in [SUBSET (1..0) -> A] /\ \A s \in SUBSET (1..0) : fold[s] = Value(fold, s)
    BY <2>1
  <2> HIDE DEF fold
  <2> QED
    BY <2>2
<1>2. ASSUME NEW k \in Nat, Good(k) PROVE Good(k + 1)
  <2> SUFFICES ASSUME k + 1 <= n
               PROVE  \E fold \in [SUBSET (1..(k + 1)) -> A] :
                         \A s \in SUBSET (1..(k + 1)) : fold[s] = Value(fold, s)
    OBVIOUS
  <2>0. k <= n /\ k + 1 \in Nat
    OBVIOUS
  <2>1. PICK fold \in [SUBSET (1..k) -> A] : \A s \in SUBSET (1..k) : fold[s] = Value(fold, s)
    <3> HIDE DEF Value
    <3> QED
      BY <1>2, <2>0
  <2> DEFINE more == [s \in SUBSET (1..(k + 1)) |-> Value(fold, s)]
  <2>2. ASSUME NEW s \in SUBSET (1..(k + 1)), s # {} PROVE s \ {Max(s)} \in SUBSET (1..k) /\ Max(s) \in 1..n
    <3>1. Max(s) \in s /\ \A j \in s : j <= Max(s)
      BY <2>0, <2>2, Greatest
    <3>2. \A j \in s : j \in Nat /\ 1 <= j /\ j <= k + 1
      BY <2>2
    <3>3. PICK last : last = Max(s)
      OBVIOUS
    <3>4. last \in Nat /\ 1 <= last /\ last <= k + 1
      BY <3>1, <3>2, <3>3
    <3>5. \A j \in s : j # last => j \in 1..k
      BY <3>1, <3>2, <3>3, <3>4
    <3>6. last \in 1..n
      BY <3>4
    <3> QED
      BY <3>3, <3>5, <3>6
  <2>3. \A s \in SUBSET (1..(k + 1)) : Value(fold, s) \in A
    <3> SUFFICES ASSUME NEW s \in SUBSET (1..(k + 1)) PROVE Value(fold, s) \in A
      OBVIOUS
    <3>1. CASE s = {}
      BY <3>1
    <3>2. CASE s # {}
      <4>1. fold[s \ {Max(s)}] \in A /\ Max(s) \in 1..n
        BY <2>2, <3>2
      <4> QED
        BY <3>2, <4>1
    <3> QED
      BY <3>1, <3>2
  <2>4. more \in [SUBSET (1..(k + 1)) -> A]
    BY <2>3
  <2>5. SUBSET (1..k) \subseteq SUBSET (1..(k + 1))
    OBVIOUS
  <2>6. \A s \in SUBSET (1..k) : more[s] = fold[s]
    BY <2>1, <2>5
  <2>7. ASSUME NEW s \in SUBSET (1..(k + 1)) PROVE more[s] = Value(more, s)
    <3>1. CASE s = {}
      BY <3>1
    <3>2. CASE s # {}
      <4>1. more[s \ {Max(s)}] = fold[s \ {Max(s)}]
        BY <2>2, <2>6, <3>2
      <4>2. more[s] = step[<<fold[s \ {Max(s)}], Max(s)>>]
        BY <3>2
      <4> HIDE DEF more
      <4> QED
        BY <4>1, <4>2, <3>2
    <3> QED
      BY <3>1, <3>2
  <2> HIDE DEF more
  <2> QED
    BY <2>4, <2>7
<1> HIDE DEF Good
<1>3. \A k \in Nat : Good(k)
  <2> SUFFICES ASSUME bad # {} PROVE FALSE
    OBVIOUS
  <2>1. PICK k \in bad : \A other \in bad : k <= other
    BY LeastOf
  <2>2. k # 0
    BY <1>1
  <2>3. k - 1 \in Nat /\ k - 1 \notin bad /\ (k - 1) + 1 = k
    BY <2>1, <2>2
  <2> QED
    BY <1>2, <2>3
<1>4. Good(n) /\ n <= n
  BY <1>3
<1> QED
  BY <1>4 DEF Good, Folds

\* The last entry of the first k is the k-th.
LEMMA Prefix ==
    ASSUME NEW k \in Nat, k # 0
    PROVE  1..k # {} /\ Max(1..k) = k /\ (1..k) \ {Max(1..k)} = 1..(k - 1)
<1>1. k \in 1..k
  OBVIOUS
<1>2. Max(1..k) \in 1..k /\ k <= Max(1..k)
  BY <1>1, Greatest
<1>3. Max(1..k) = k
  BY <1>2
<1>4. \A j : j \in (1..k) \ {k} <=> j \in 1..(k - 1)
  BY <1>1
<1> QED
  BY <1>1, <1>3, <1>4

\* What agrees on no entry, and on one more whenever it agrees, agrees on all.
LEMMA AlongPrefixes ==
    ASSUME NEW n \in Nat, NEW fold, NEW value, fold[{}] = value[0],
           \A k \in 1..n : fold[1..(k - 1)] = value[k - 1] => fold[1..k] = value[k]
    PROVE  fold[1..n] = value[n]
<1> DEFINE bad == {k \in Nat : k <= n /\ fold[1..k] # value[k]}
<1>1. bad = {}
  <2> SUFFICES ASSUME bad # {} PROVE FALSE
    OBVIOUS
  <2>1. PICK k \in bad : \A other \in bad : k <= other
    BY LeastOf
  <2>2. CASE k = 0
    <3>1. 1..k = {}
      BY <2>2
    <3> QED
      BY <2>1, <2>2, <3>1
  <2>3. CASE k # 0
    <3>1. k \in 1..n /\ k - 1 \in Nat /\ k - 1 <= n /\ k - 1 \notin bad
      BY <2>1, <2>3
    <3> QED
      BY <2>1, <3>1
  <2> QED
    BY <2>2, <2>3
<1> QED
  BY <1>1

\* What replay_session remembers before the first entry.
Start == [root |-> ZERO_HASH, ok |-> TRUE]

\* replay_session ends with what it remembers after its last entry.
LEMMA ReplayFolds ==
    ASSUME NEW n \in Nat, DOMAIN Entries = 1..n,
           NEW R, ZERO_HASH \in R, \A i \in 1..n : Entries[i].root \in R,
           NEW value \in [0..n -> [root : R, ok : BOOLEAN]], value[0] = Start,
           \A i \in 1..n : value[i] = ReplayStep(value[i - 1], Entries[i])
    PROVE  FoldLeft(ReplayStep, Start, Entries) = value[n]
<1> DEFINE S == DOMAIN Entries
           Outcome == [root : R, ok : BOOLEAN]
           Step(f) == [s \in SUBSET S |-> IF s = {} THEN Start
                          ELSE ReplayStep(f[s \ {Max(s)}], Entries[Max(s)])]
           iter == CHOOSE f : f = Step(f)
           step == [x \in Outcome \X (1..n) |-> ReplayStep(x[1], Entries[x[2]])]
<1>1. FoldLeft(ReplayStep, Start, Entries) = iter[S]
  BY DEF FoldLeft, MapThenFoldSet
<1>2. Start \in Outcome
  BY DEF Start
<1>3. ASSUME NEW acc \in Outcome, NEW i \in 1..n PROVE ReplayStep(acc, Entries[i]) \in Outcome
  <2>1. PICK e : e = Entries[i]
    OBVIOUS
  <2>2. e.root \in R
    BY <2>1
  <2>4. [acc EXCEPT !.root = e.root] \in Outcome
    BY <2>2
  <2>5. [root |-> e.root,
         ok   |-> acc.ok /\ e.before = acc.root /\ objects[e.object] # "absent"] \in Outcome
    BY <2>2
  <2> QED
    BY <2>1, <2>4, <2>5 DEF ReplayStep
<1>4. step \in [Outcome \X (1..n) -> Outcome]
  BY <1>3
<1>5. \A acc \in Outcome, i \in 1..n : step[<<acc, i>>] = ReplayStep(acc, Entries[i])
  OBVIOUS
<1> HIDE DEF step
<1>6. PICK fold \in [SUBSET (1..n) -> Outcome] : Folds(fold, Start, step, n)
  BY <1>2, <1>4, FoldExists
<1>7. ASSUME NEW s \in SUBSET (1..n), s # {} PROVE s \ {Max(s)} \in SUBSET (1..n) /\ Max(s) \in 1..n
  BY <1>7, Greatest
<1>8. fold = Step(fold)
  <2>1. ASSUME NEW s \in SUBSET (1..n)
        PROVE  fold[s] = IF s = {} THEN Start ELSE ReplayStep(fold[s \ {Max(s)}], Entries[Max(s)])
    <3>1. CASE s = {}
      BY <1>6, <3>1 DEF Folds
    <3>2. CASE s # {}
      <4>1. fold[s] = step[<<fold[s \ {Max(s)}], Max(s)>>]
        BY <1>6, <3>2 DEF Folds
      <4>2. fold[s \ {Max(s)}] \in Outcome /\ Max(s) \in 1..n
        BY <1>6, <1>7, <3>2
      <4> QED
        BY <1>5, <3>2, <4>1, <4>2
    <3> QED
      BY <3>1, <3>2
  <2> QED
    BY <1>6, <2>1
<1>9. iter = Step(iter)
  BY <1>8
<1> HIDE DEF iter
<1>10. \A s \in SUBSET (1..n) : iter[s] = IF s = {} THEN Start
                                         ELSE ReplayStep(iter[s \ {Max(s)}], Entries[Max(s)])
  BY <1>9
<1>11. iter[{}] = value[0]
  BY <1>10
<1>12. ASSUME NEW k \in 1..n, iter[1..(k - 1)] = value[k - 1] PROVE iter[1..k] = value[k]
  <2>1. 1..k \in SUBSET (1..n) /\ k \in Nat /\ k # 0
    BY <1>12
  <2>2. iter[1..k] = ReplayStep(iter[1..(k - 1)], Entries[k])
    BY <1>10, <2>1, Prefix
  <2> QED
    BY <1>12, <2>2
<1> HIDE DEF S, Step, Outcome
<1>13. \A k \in 1..n : iter[1..(k - 1)] = value[k - 1] => iter[1..k] = value[k]
  BY <1>12
<1>14. iter[1..n] = value[n]
  BY <1>11, <1>13, AlongPrefixes, ZenonT(60)
<1> QED
  BY <1>1, <1>14 DEF S

\* The replay of a portable proof ends with the root after its last entry.
LEMMA PortableFolds ==
    ASSUME NEW n \in Nat, DOMAIN Entries = 1..n,
           NEW R, ZERO_HASH \in R, \A i \in 1..n : Entries[i].root \in R,
           NEW value \in [0..n -> R], value[0] = ZERO_HASH,
           \A i \in 1..n : value[i] = PortableStep(value[i - 1], Entries[i])
    PROVE  PortableRoot = value[n]
<1> DEFINE S == DOMAIN Entries
           Step(f) == [s \in SUBSET S |-> IF s = {} THEN ZERO_HASH
                          ELSE PortableStep(f[s \ {Max(s)}], Entries[Max(s)])]
           iter == CHOOSE f : f = Step(f)
           step == [x \in R \X (1..n) |-> PortableStep(x[1], Entries[x[2]])]
<1>1. PortableRoot = iter[S]
  BY DEF PortableRoot, FoldLeft, MapThenFoldSet
<1>2. \A root \in R, i \in 1..n : PortableStep(root, Entries[i]) \in R
  BY DEF PortableStep
<1>3. step \in [R \X (1..n) -> R]
  BY <1>2
<1>4. \A root \in R, i \in 1..n : step[<<root, i>>] = PortableStep(root, Entries[i])
  OBVIOUS
<1> HIDE DEF step
<1>5. PICK fold \in [SUBSET (1..n) -> R] : Folds(fold, ZERO_HASH, step, n)
  BY <1>3, FoldExists
<1>6. ASSUME NEW s \in SUBSET (1..n), s # {} PROVE s \ {Max(s)} \in SUBSET (1..n) /\ Max(s) \in 1..n
  BY <1>6, Greatest
<1>7. fold = Step(fold)
  <2>1. ASSUME NEW s \in SUBSET (1..n)
        PROVE  fold[s] = IF s = {} THEN ZERO_HASH ELSE PortableStep(fold[s \ {Max(s)}], Entries[Max(s)])
    <3>1. CASE s = {}
      BY <1>5, <3>1 DEF Folds
    <3>2. CASE s # {}
      <4>1. fold[s] = step[<<fold[s \ {Max(s)}], Max(s)>>]
        BY <1>5, <3>2 DEF Folds
      <4>2. fold[s \ {Max(s)}] \in R /\ Max(s) \in 1..n
        BY <1>5, <1>6, <3>2
      <4> QED
        BY <1>4, <3>2, <4>1, <4>2
    <3> QED
      BY <3>1, <3>2
  <2> QED
    BY <1>5, <2>1
<1>8. iter = Step(iter)
  BY <1>7
<1> HIDE DEF iter
<1>9. \A s \in SUBSET (1..n) : iter[s] = IF s = {} THEN ZERO_HASH
                                        ELSE PortableStep(iter[s \ {Max(s)}], Entries[Max(s)])
  BY <1>8
<1>10. iter[{}] = value[0]
  BY <1>9
<1>11. ASSUME NEW k \in 1..n, iter[1..(k - 1)] = value[k - 1] PROVE iter[1..k] = value[k]
  <2>1. 1..k \in SUBSET (1..n) /\ k \in Nat /\ k # 0
    BY <1>11
  <2>2. iter[1..k] = PortableStep(iter[1..(k - 1)], Entries[k])
    BY <1>9, <2>1, Prefix
  <2> QED
    BY <1>11, <2>2
<1> HIDE DEF S, Step
<1>12. \A k \in 1..n : iter[1..(k - 1)] = value[k - 1] => iter[1..k] = value[k]
  BY <1>11
<1>13. iter[1..n] = value[n]
  BY <1>10, <1>12, AlongPrefixes, ZenonT(60)
<1> QED
  BY <1>1, <1>13 DEF S

-----------------------------------------------------------------------------
(* The session of a single process replays.                                *)

Moving == {"fs-write", "rollback", "state-checkout"}

Recording == {"count", "previous", "entry"}

\* Where a process stands in its operation: what moves the root remembers the root it
\* found, and what is about to be recorded names the root it left.
Pending(p) ==
    /\ crashes \in Nat
    /\ proc[p].at \in {"object", "state", "pointer"} =>
          /\ proc[p].event \in Moving /\ proc[p].status = "completed" /\ proc[p].before = current
          /\ proc[p].at \in {"object", "state"} => proc[p].event = "fs-write"
          /\ proc[p].event = "fs-write" =>
                proc[p].object \in Content /\ (proc[p].at # "object" => objects[proc[p].object] # "absent")
    /\ proc[p].at \in Recording =>
          /\ proc[p].event = "trusted-boot" => proc[p].root = current
          /\ proc[p].event \in Moving /\ proc[p].status = "completed" => proc[p].root = current
          /\ proc[p].event \in {"fs-write", "state-checkout"} => proc[p].status = "completed"
          /\ proc[p].event = "fs-write" => proc[p].object \in Content /\ objects[proc[p].object] # "absent"

\* The root that the receipts written so far account for.
Settled(p) ==
    IF proc[p].at \in Recording /\ proc[p].event \in Moving /\ proc[p].status = "completed"
    THEN proc[p].before ELSE current

\* What receipt e says of the root `before' and the root `after' it.
Tells(e, before, after) ==
    /\ e.event = "trusted-boot" => after = e.root
    /\ e.event \in Moving /\ e.status = "completed" => after = e.root
    /\ e.event \in {"fs-write", "state-checkout"} => e.status = "completed"
    /\ e.event = "fs-write" => e.before = before /\ e.object \in Content /\ objects[e.object] # "absent"
    /\ e.event \notin Moving \cup {"trusted-boot"} => after = before

\* root[i] is the root after the i-th receipt.
Story(root, p) ==
    /\ \A n \in DOMAIN ledger : Tells(ledger[n], root[n.sequence - 1], root[n.sequence])
    /\ root[Cardinality(DOMAIN ledger)] = Settled(p)

\* As long as no process died there is such a history of the root.
Traced(p) == crashes = 0 => \E root : Story(root, p)

Session(p) == IInv /\ Chain(p) /\ Pending(p) /\ Traced(p)

\* r and s belong to the same receipt.
Kept(r, s) ==
    /\ r.event = s.event /\ r.before = s.before /\ r.root = s.root
    /\ r.object = s.object /\ r.status = s.status

\* A step that leaves the ledger and what its receipts account for alone.
LEMMA StoryKept ==
    ASSUME NEW p, Traced(p), ledger' = ledger, crashes' = crashes, Settled(p)' = Settled(p),
           \A c \in Content : objects[c] # "absent" => objects'[c] # "absent"
    PROVE  Traced(p)'
<1> SUFFICES ASSUME crashes = 0 PROVE (\E root : Story(root, p))'
  BY DEF Traced
<1>1. PICK root : Story(root, p)
  BY DEF Traced
<1>2. ASSUME NEW e, NEW before, NEW after, Tells(e, before, after) PROVE Tells(e, before, after)'
  BY <1>2 DEF Tells
<1>3. Story(root, p)'
  BY <1>1, <1>2 DEF Story
<1> QED
  BY <1>3

\* Beginning an operation moves nothing yet.
LEMMA BeginSession ==
    ASSUME NEW p, Process = {p}, Session(p),
           NEW at \in {"object", "pointer", "count"}, NEW event, NEW before, NEW root, NEW object, NEW status,
           Begin(p, at, event, before, root, object, status),
           at # "count" => event \in Moving /\ status = "completed" /\ before = current,
           at = "object" => event = "fs-write" /\ object \in Content,
           at = "pointer" => event # "fs-write",
           at = "count" => (event = "trusted-boot" => root = current) /\ (event \in Moving => event = "rollback" /\ status = "blocked")
    PROVE  Pending(p)' /\ Traced(p)'
<1> DEFINE r == [at |-> at, event |-> event, before |-> before, root |-> root,
                 object |-> object, status |-> status, sequence |-> 0, previous_hash |-> None]
<1>1. /\ proc[p] = Idle /\ proc' = [proc EXCEPT ![p] = r] /\ ledger' = ledger /\ crashes' = crashes
      /\ objects' = objects /\ current' = current
  BY DEF Begin, files
<1>2. p \in Process /\ DOMAIN proc = Process
  BY DEF Session, Chain, NumberTaken
<1>3. proc'[p] = r
  BY <1>1, <1>2
<1>4. /\ r.at = at /\ r.event = event /\ r.before = before /\ r.root = root
      /\ r.object = object /\ r.status = status
  OBVIOUS
<1> HIDE DEF r
<1>5. Pending(p)'
  BY <1>1, <1>3, <1>4 DEF Session, Pending, Moving, Recording
<1>6. Settled(p) = current
  BY <1>1 DEF Settled, Idle, Recording
<1>7. Settled(p)' = current'
  BY <1>3, <1>4 DEF Settled, Recording
<1> QED
  BY <1>1, <1>5, <1>6, <1>7, StoryKept DEF Session

\* The operations.
LEMMA PlanSession ==
    ASSUME NEW p, Process = {p}, Session(p),
           Boot(p) \/ FsWrite(p) \/ FsRead(p) \/ Rollback(p) \/ StateCheckout(p) \/ ReplaySession(p) \/ Note(p)
    PROVE  Pending(p)' /\ Traced(p)'
<1>m. /\ "fs-write" \in Moving /\ "rollback" \in Moving /\ "state-checkout" \in Moving
      /\ "trusted-boot" \notin Moving /\ "fs-read" \notin Moving /\ "replay-session" \notin Moving
      /\ "registry-sync" \notin Moving
  BY DEF Moving
<1>1. CASE Boot(p)
  BY <1>m, <1>1, BeginSession DEF Boot
<1>2. CASE FsWrite(p)
  BY <1>m, <1>2, BeginSession DEF FsWrite
<1>3. CASE FsRead(p)
  BY <1>m, <1>3, BeginSession DEF FsRead
<1>4. CASE Rollback(p)
  <2>1. PICK name \in DOMAIN ledger :
          LET target == ledger[name].root
              found  == target \in Manifest /\ states[target] # "absent"
          IN  Begin(p, IF found THEN "pointer" ELSE "count", "rollback", current, target, None,
                    IF found THEN "completed" ELSE "blocked")
    BY <1>4 DEF Rollback
  <2>2. PICK target : target = ledger[name].root
    OBVIOUS
  <2> DEFINE found == target \in Manifest /\ states[target] # "absent"
  <2>3. CASE found
    BY <1>m, <2>1, <2>2, <2>3, BeginSession
  <2>4. CASE ~found
    BY <1>m, <2>1, <2>2, <2>4, BeginSession
  <2> QED
    BY <2>3, <2>4
<1>5. CASE StateCheckout(p)
  BY <1>m, <1>5, BeginSession DEF StateCheckout
<1>6. CASE ReplaySession(p)
  BY <1>m, <1>6, BeginSession DEF ReplaySession
<1>7. CASE Note(p)
  BY <1>m, <1>7, BeginSession DEF Note
<1> QED
  BY <1>1, <1>2, <1>3, <1>4, <1>5, <1>6, <1>7

\* A process that goes on keeps its receipt.
LEMMA GoesOn ==
    ASSUME NEW p, Process = {p}, NumberTaken(p), proc[p].at # "idle"
    PROVE  /\ \A at : Advance(p, at) => proc'[p].at = at /\ Kept(proc'[p], proc[p])
           /\ RecordCount(p) => proc'[p].at = "previous" /\ Kept(proc'[p], proc[p])
           /\ RecordPrevious(p) => proc'[p].at = "entry" /\ Kept(proc'[p], proc[p])
<1>1. p \in Process /\ DOMAIN proc = Process /\ DOMAIN proc[p] = Field
  BY DEF NumberTaken, Idle
<1>2. ASSUME NEW at, Advance(p, at) PROVE proc'[p].at = at /\ Kept(proc'[p], proc[p])
  <2> DEFINE r == [proc[p] EXCEPT !.at = at]
  <2>1. proc' = [proc EXCEPT ![p] = r]
    BY <1>2 DEF Advance
  <2>2. r.at = at /\ Kept(r, proc[p])
    BY <1>1 DEF Field, Kept
  <2> HIDE DEF r
  <2> QED
    BY <1>1, <2>1, <2>2
<1>3. ASSUME RecordCount(p) PROVE proc'[p].at = "previous" /\ Kept(proc'[p], proc[p])
  <2> DEFINE n == Cardinality(DOMAIN ledger) + 1
             r == [proc[p] EXCEPT !.at = "previous", !.sequence = n]
  <2>1. proc' = [proc EXCEPT ![p] = r]
    BY <1>3 DEF RecordCount
  <2> HIDE DEF n
  <2>2. r.at = "previous" /\ Kept(r, proc[p])
    BY <1>1 DEF Field, Kept
  <2> HIDE DEF r
  <2> QED
    BY <1>1, <2>1, <2>2
<1>4. ASSUME RecordPrevious(p) PROVE proc'[p].at = "entry" /\ Kept(proc'[p], proc[p])
  <2> DEFINE h == LastHash
             r == [proc[p] EXCEPT !.at = "entry", !.previous_hash = h]
  <2>1. proc' = [proc EXCEPT ![p] = r]
    BY <1>4 DEF RecordPrevious
  <2> HIDE DEF h
  <2>2. r.at = "entry" /\ Kept(r, proc[p])
    BY <1>1 DEF Field, Kept
  <2> HIDE DEF r
  <2> QED
    BY <1>1, <2>1, <2>2
<1> QED
  BY <1>2, <1>3, <1>4

\* The file writes before the receipt.
LEMMA WriteSession ==
    ASSUME NEW p, Process = {p}, Session(p),
           WriteObject(p) \/ SaveManifest(p) \/ SetCurrentRoot(p) \/ RecordCount(p) \/ RecordPrevious(p)
    PROVE  Pending(p)' /\ Traced(p)'
<1>1. Pending(p) /\ Traced(p) /\ objects \in [Content -> {"absent", "whole"}] /\ NumberTaken(p)
  BY DEF Session, IInv, Unbroken, Chain
<1>2. CASE WriteObject(p)
  <2>1. PICK c : c = proc[p].object
    OBVIOUS
  <2>2. /\ proc[p].at = "object" /\ Advance(p, "state") /\ ledger' = ledger /\ current' = current /\ crashes' = crashes
        /\ objects' = [objects EXCEPT ![c] = IF @ = "absent" THEN "whole" ELSE @]
    BY <1>2, <2>1 DEF WriteObject
  <2>3. proc'[p].at = "state" /\ Kept(proc'[p], proc[p])
    BY <1>1, <2>2, GoesOn
  <2>4. c \in Content /\ proc[p].event = "fs-write"
    BY <1>1, <2>1, <2>2 DEF Pending
  <2>5. objects'[c] # "absent" /\ \A d \in Content : objects[d] # "absent" => objects'[d] # "absent"
    BY <1>1, <2>2, <2>4
  <2>6. Pending(p)'
    BY <1>1, <2>1, <2>2, <2>3, <2>4, <2>5 DEF Pending, Kept, Recording
  <2>7. Settled(p)' = Settled(p)
    BY <2>2, <2>3 DEF Settled, Recording
  <2> QED
    BY <1>1, <2>2, <2>5, <2>6, <2>7, StoryKept
<1>3. CASE SaveManifest(p)
  <2>1. /\ proc[p].at = "state" /\ Advance(p, "pointer") /\ ledger' = ledger /\ current' = current
        /\ crashes' = crashes /\ objects' = objects
    BY <1>3 DEF SaveManifest
  <2>2. proc'[p].at = "pointer" /\ Kept(proc'[p], proc[p])
    BY <1>1, <2>1, GoesOn
  <2>3. Pending(p)'
    BY <1>1, <2>1, <2>2 DEF Pending, Kept, Recording
  <2>4. Settled(p)' = Settled(p)
    BY <2>1, <2>2 DEF Settled, Recording
  <2> QED
    BY <1>1, <2>1, <2>3, <2>4, StoryKept
<1>4. CASE SetCurrentRoot(p)
  <2>1. /\ proc[p].at = "pointer" /\ Advance(p, "count") /\ ledger' = ledger /\ current' = proc[p].root
        /\ crashes' = crashes /\ objects' = objects
    BY <1>4 DEF SetCurrentRoot
  <2>2. proc'[p].at = "count" /\ Kept(proc'[p], proc[p])
    BY <1>1, <2>1, GoesOn
  <2>3. /\ proc[p].event \in Moving /\ proc[p].status = "completed" /\ proc[p].before = current
        /\ proc[p].event = "fs-write" => proc[p].object \in Content /\ objects[proc[p].object] # "absent"
    BY <1>1, <2>1 DEF Pending
  <2>4. Pending(p)'
    BY <1>1, <2>1, <2>2, <2>3 DEF Pending, Kept, Recording, Moving
  <2>5. Settled(p)' = Settled(p)
    BY <2>1, <2>2, <2>3 DEF Settled, Recording, Kept
  <2> QED
    BY <1>1, <2>1, <2>4, <2>5, StoryKept
<1>5. CASE RecordCount(p) \/ RecordPrevious(p)
  <2>1. /\ proc[p].at \in Recording /\ proc[p].at # "idle" /\ ledger' = ledger /\ current' = current
        /\ crashes' = crashes /\ objects' = objects
    BY <1>5 DEF RecordCount, RecordPrevious, files, Recording
  <2>2. proc'[p].at \in Recording /\ Kept(proc'[p], proc[p])
    BY <1>1, <1>5, <2>1, GoesOn DEF Recording
  <2>3. Pending(p)'
    BY <1>1, <2>1, <2>2 DEF Pending, Kept, Recording
  <2>4. Settled(p)' = Settled(p)
    BY <2>1, <2>2 DEF Settled, Kept
  <2> QED
    BY <1>1, <2>1, <2>3, <2>4, StoryKept
<1> QED
  BY <1>2, <1>3, <1>4, <1>5

\* The receipt continues the history of the root.
LEMMA RecordSession ==
    ASSUME NEW p, Process = {p}, Session(p), RecordWrite(p)
    PROVE  Pending(p)' /\ Traced(p)'
<1>1. PICK D, c, name, e : D = DOMAIN ledger /\ c = Cardinality(D) /\ name = EntryName(p) /\ e = Receipt(p)
  OBVIOUS
<1>2. /\ proc[p].at = "entry" /\ proc' = [proc EXCEPT ![p] = Idle] /\ objects' = objects /\ current' = current
      /\ crashes' = crashes
      /\ ledger' = [n \in D \cup {name} |-> IF n = name THEN e ELSE ledger[n]]
  BY <1>1 DEF RecordWrite, PutEntry
<1>3. /\ IsFiniteSet(D) /\ c \in Nat /\ \A n \in D : n.sequence \in 1..c
  BY <1>1, FS_CardinalityType DEF Session, Chain, Numbered
<1>4. name.sequence = c + 1
  BY <1>1, <1>2 DEF Session, Chain, NumberTaken, EntryName
<1>5. name \notin D
  BY <1>3, <1>4
<1>6. /\ DOMAIN ledger' = D \cup {name} /\ ledger'[name] = e /\ \A n \in D : ledger'[n] = ledger[n]
  BY <1>2, <1>5
<1>7. Cardinality(DOMAIN ledger') = c + 1
  BY <1>1, <1>3, <1>5, <1>6, FS_AddElement
<1>8. proc'[p] = Idle /\ Idle.at = "idle"
  BY <1>2 DEF Session, Chain, NumberTaken, Idle
<1>9. Pending(p)'
  BY <1>2, <1>8 DEF Session, Pending, Recording
<1>10. ASSUME crashes' = 0 PROVE (\E root : Story(root, p))'
  <2>1. PICK root : Story(root, p)
    BY <1>2, <1>10 DEF Session, Traced
  <2> DEFINE more == [i \in 0..(c + 1) |-> IF i = c + 1 THEN current ELSE root[i]]
  <2>2. more[c + 1] = current /\ \A i \in 0..c : more[i] = root[i]
    BY <1>3
  <2> HIDE DEF more
  <2>3. root[c] = Settled(p)
    BY <1>1, <2>1 DEF Story
  <2>4. ASSUME NEW n \in D PROVE Tells(ledger[n], more[n.sequence - 1], more[n.sequence])
    <3>1. n.sequence \in 0..c /\ n.sequence - 1 \in 0..c
      BY <1>3
    <3>2. Tells(ledger[n], root[n.sequence - 1], root[n.sequence])
      BY <1>1, <2>1 DEF Story
    <3> QED
      BY <2>2, <3>1, <3>2
  <2>5. Tells(e, more[c], more[c + 1])
    <3>1. /\ e.event = proc[p].event /\ e.root = proc[p].root /\ e.before = proc[p].before
          /\ e.object = proc[p].object /\ e.status = proc[p].status
      BY <1>1 DEF Receipt
    <3>2. c \in 0..c /\ more[c] = Settled(p)
      BY <1>3, <2>2, <2>3
    <3> QED
      BY <1>2, <2>2, <3>1, <3>2 DEF Session, Pending, Tells, Settled, Recording, Moving
  <2>6. ASSUME NEW n \in DOMAIN ledger' PROVE Tells(ledger'[n], more[n.sequence - 1], more[n.sequence])
    <3>1. CASE n \in D
      BY <1>6, <2>4, <3>1
    <3>2. CASE n = name
      <4>1. name.sequence - 1 = c
        BY <1>3, <1>4
      <4> QED
        BY <1>4, <1>6, <2>5, <3>2, <4>1
    <3> QED
      BY <1>6, <2>6, <3>1, <3>2
  <2>7. \A f, before, after : Tells(f, before, after) => Tells(f, before, after)'
    BY <1>2 DEF Tells
  <2>8. PICK after : after = more
    OBVIOUS
  <2>9. Settled(p)' = current
    BY <1>2, <1>8 DEF Settled, Recording
  <2>10. Story(after, p)'
    BY <1>7, <2>2, <2>6, <2>7, <2>8, <2>9 DEF Story
  <2> QED
    BY <2>10
<1> QED
  BY <1>9, <1>10 DEF Traced

\* The entries are the receipts in the order of their numbers.
LEMMA EntriesNumbered ==
    ASSUME Numbered, Distinct
    PROVE  /\ Cardinality(DOMAIN ledger) \in Nat
           /\ DOMAIN Entries = 1..Cardinality(DOMAIN ledger)
           /\ \A i \in 1..Cardinality(DOMAIN ledger) :
                 \E n \in DOMAIN ledger : n.sequence = i /\ Entries[i] = ledger[n]
<1>1. Cardinality(DOMAIN ledger) \in Nat
  BY FS_CardinalityType DEF Numbered
<1>2. DOMAIN Entries = 1..Cardinality(DOMAIN ledger)
  BY DEF Entries
<1>3. ASSUME NEW i \in 1..Cardinality(DOMAIN ledger)
      PROVE  \E n \in DOMAIN ledger : n.sequence = i /\ Entries[i] = ledger[n]
  <2>1. Entries[i] = ledger[Listed(i)]
    BY DEF Entries
  <2> QED
    BY <2>1, ListedByNumber
<1> QED
  BY <1>1, <1>2, <1>3

\* A session at rest that lost no process replays.
LEMMA SessionReplays ==
    ASSUME NEW p, Process = {p}, Session(p)
    PROVE  ReplayAgrees /\ PortableReplayAgrees
<1> DEFINE n == Cardinality(DOMAIN ledger)
<1>1. n \in Nat /\ DOMAIN Entries = 1..n
  BY EntriesNumbered DEF Session, Chain
<1>2. \A i \in 1..n : \E m \in DOMAIN ledger : m.sequence = i /\ Entries[i] = ledger[m]
  BY EntriesNumbered DEF Session, Chain
<1>3. VerifyLedger
  BY ChainVerifies DEF Session, Chain
<1> SUFFICES ASSUME Quiet, crashes = 0, Entries # <<>>, Entries[1].event = "trusted-boot",
                    \A i \in DOMAIN Entries : Entries[i].event = "rollback" => Entries[i].status = "completed"
             PROVE  /\ (\A i \in DOMAIN Entries : Entries[i].event # "state-checkout") => ReplayVerified
                    /\ PortableRoot = current
  BY DEF ReplayAgrees, PortableReplayAgrees
<1>4. PICK root : Story(root, p)
  BY DEF Session, Traced
<1>5. root[n] = current
  BY <1>4 DEF Story, Settled, Quiet, Idle, Recording
<1>6. \A i \in 1..n : Tells(Entries[i], root[i - 1], root[i])
  BY <1>2, <1>4 DEF Story
<1> HIDE DEF n
<1>7. n # 0
  <2> SUFFICES ASSUME n = 0 PROVE Entries = <<>>
    OBVIOUS
  <2>1. Entries = [i \in 1..n |-> ledger[Listed(i)]]
    BY DEF Entries, n
  <2> QED
    BY <2>1
<1> DEFINE R == {ZERO_HASH} \cup {Entries[i].root : i \in 1..n} \cup {root[i] : i \in 1..n}
<1>8. ZERO_HASH \in R /\ \A i \in 1..n : Entries[i].root \in R /\ root[i] \in R
  OBVIOUS
<1> HIDE DEF R
<1>9. PortableRoot = current
  <2> DEFINE value == [i \in 0..n |-> IF i = 0 THEN ZERO_HASH ELSE root[i]]
  <2>1. value \in [0..n -> R]
    BY <1>1, <1>8
  <2>2. value[0] = ZERO_HASH /\ \A i \in 1..n : value[i] = root[i]
    BY <1>1
  <2>3. \A i \in 1..n : i # 1 => value[i - 1] = root[i - 1]
    BY <1>1
  <2>4. value[n] = current
    BY <1>1, <1>5, <1>7, <2>2
  <2> HIDE DEF value
  <2>5. ASSUME NEW i \in 1..n PROVE value[i] = PortableStep(value[i - 1], Entries[i])
    <3>1. CASE i = 1
      BY <1>6, <2>2, <3>1 DEF Tells, PortableStep
    <3>2. CASE i # 1
      BY <1>1, <1>6, <2>2, <2>3, <3>2 DEF Tells, PortableStep, Moving
    <3> QED
      BY <3>1, <3>2
  <2>6. PortableRoot = value[n]
    BY <1>1, <1>8, <2>1, <2>2, <2>5, PortableFolds
  <2> QED
    BY <2>4, <2>6
<1>10. ASSUME \A i \in DOMAIN Entries : Entries[i].event # "state-checkout" PROVE ReplayVerified
  <2> DEFINE After(i) == [root |-> root[i], ok |-> TRUE]
             value == [i \in 0..n |-> IF i = 0 THEN Start ELSE After(i)]
  <2>1. value \in [0..n -> [root : R, ok : BOOLEAN]]
    BY <1>1, <1>8 DEF Start
  <2>2. value[0] = Start /\ \A i \in 1..n : value[i] = After(i)
    BY <1>1
  <2>3. \A i \in 1..n : i # 1 => value[i - 1] = After(i - 1)
    BY <1>1
  <2>4. value[n] = After(n)
    BY <1>1, <1>7, <2>2
  <2> HIDE DEF value
  <2>m. \A a, b : [[root |-> a, ok |-> TRUE] EXCEPT !.root = b] = [root |-> b, ok |-> TRUE]
    <3> SUFFICES ASSUME NEW a, NEW b PROVE [[root |-> a, ok |-> TRUE] EXCEPT !.root = b] = [root |-> b, ok |-> TRUE]
      OBVIOUS
    <3> DEFINE acc == [root |-> a, ok |-> TRUE]
               new == [acc EXCEPT !.root = b]
    <3>1. acc \in [root : {a, b}, ok : BOOLEAN] /\ acc.ok = TRUE
      OBVIOUS
    <3> HIDE DEF acc
    <3>2. new \in [root : {a, b}, ok : BOOLEAN] /\ new.root = b /\ new.ok = TRUE
      BY <3>1
    <3> HIDE DEF new
    <3>3. new = [root |-> b, ok |-> TRUE]
      BY <3>2
    <3> QED
      BY <3>3 DEF new, acc
  <2>5. ASSUME NEW i \in 1..n PROVE value[i] = ReplayStep(value[i - 1], Entries[i])
    <3>1. CASE i = 1
      <4>1. value[i - 1] = Start /\ value[i] = After(i) /\ Entries[i].event = "trusted-boot"
        BY <2>2, <3>1
      <4>2. root[i] = Entries[i].root
        BY <1>6, <4>1 DEF Tells
      <4>3. ReplayStep(Start, Entries[i]) = [Start EXCEPT !.root = Entries[i].root]
        BY <4>1 DEF ReplayStep
      <4> QED
        BY <2>m, <4>1, <4>2, <4>3 DEF Start
    <3>2. CASE i # 1
      <4>1. PICK e, acc : e = Entries[i] /\ acc = value[i - 1]
        OBVIOUS
      <4>2. acc = [root |-> root[i - 1], ok |-> TRUE] /\ value[i] = [root |-> root[i], ok |-> TRUE]
        BY <2>2, <2>3, <3>2, <4>1
      <4>3. Tells(e, root[i - 1], root[i]) /\ e.event # "state-checkout"
            /\ (e.event = "rollback" => e.status = "completed")
        BY <1>1, <1>6, <1>10, <4>1
      <4>4. CASE e.event = "trusted-boot"
        <5>1. ReplayStep(acc, e) = [acc EXCEPT !.root = e.root] /\ root[i] = e.root
          BY <4>3, <4>4 DEF Tells, ReplayStep
        <5> QED
          BY <2>m, <4>1, <4>2, <5>1
      <4>5. CASE e.event = "fs-write"
        <5>1. root[i] = e.root /\ e.before = acc.root /\ acc.ok = TRUE /\ objects[e.object] # "absent"
          BY <4>2, <4>3, <4>5 DEF Tells, Moving
        <5>2. (acc.ok /\ e.before = acc.root /\ objects[e.object] # "absent") = TRUE
          BY <5>1
        <5> QED
          BY <4>1, <4>2, <4>5, <5>1, <5>2 DEF ReplayStep
      <4>6. CASE e.event = "rollback"
        <5>1. ReplayStep(acc, e) = [acc EXCEPT !.root = e.root] /\ root[i] = e.root
          BY <4>3, <4>6 DEF Tells, ReplayStep, Moving
        <5> QED
          BY <2>m, <4>1, <4>2, <5>1
      <4>7. CASE e.event \notin {"trusted-boot", "fs-write", "rollback"}
        BY <4>1, <4>2, <4>3, <4>7 DEF Tells, ReplayStep, Moving
      <4> QED
        BY <4>4, <4>5, <4>6, <4>7
    <3> QED
      BY <3>1, <3>2
  <2>6. FoldLeft(ReplayStep, Start, Entries) = value[n]
    BY <1>1, <1>8, <2>1, <2>2, <2>5, ReplayFolds
  <2> QED
    BY <1>3, <1>5, <2>4, <2>6 DEF ReplayVerified, Start
<1> QED
  BY <1>9, <1>10

\* However long the session of one process: as long as it began with a boot and lost no
\* process, replay_session and the replay of a portable proof both arrive at current_root.
THEOREM SessionsReplay ==
    ASSUME LedgerAssumption, NEW p, Process = {p}, TornWrites = FALSE
    PROVE  Spec => [](ReplayAgrees /\ PortableReplayAgrees)
<1>1. Init => Session(p)
  <2> SUFFICES ASSUME Init PROVE Session(p)
    OBVIOUS
  <2>1. IInv
    BY InitInv
  <2>2. Chain(p)
    BY ChainInit
  <2>3. ledger = <<>> /\ proc[p] = Idle /\ Idle.at = "idle" /\ crashes = 0
    BY DEF Init, Idle
  <2>4. Pending(p)
    BY <2>3 DEF Pending, Recording
  <2>5. DOMAIN ledger = {}
    BY <2>3
  <2>6. Story([i \in {0} |-> Settled(p)], p)
    BY <2>5, FS_EmptySet DEF Story
  <2> QED
    BY <2>1, <2>2, <2>4, <2>6 DEF Session, Traced
<1>2. Session(p) /\ [Next]_vars => Session(p)'
  <2> SUFFICES ASSUME Session(p), [Next]_vars PROVE Session(p)'
    OBVIOUS
  <2>1. IInv' /\ Chain(p)'
    BY InvStep, ChainKept DEF Session
  <2>2. CASE UNCHANGED vars
    <3>1. /\ ledger' = ledger /\ proc' = proc /\ crashes' = crashes /\ objects' = objects /\ current' = current
      BY <2>2 DEF vars, files
    <3>2. Pending(p)' /\ Settled(p)' = Settled(p)
      BY <3>1 DEF Session, Pending, Settled
    <3> QED
      BY <2>1, <3>1, <3>2, StoryKept DEF Session
  <2>3. ASSUME Next PROVE Pending(p)' /\ Traced(p)'
    <3>1. CASE Crash(p)
      <4>1. crashes' = crashes + 1 /\ proc' = [proc EXCEPT ![p] = Idle]
        BY <3>1 DEF Crash
      <4>2. proc'[p] = Idle /\ Idle.at = "idle" /\ crashes' \in Nat \ {0}
        BY <4>1 DEF Session, Chain, NumberTaken, Pending, Idle
      <4> QED
        BY <4>2 DEF Pending, Traced, Recording
    <3>2. ~CrashInside(p)
      BY DEF CrashInside
    <3> QED
      BY <2>3, <3>1, <3>2, PlanSession, WriteSession, RecordSession DEF Next
  <2> QED
    BY <2>1, <2>2, <2>3 DEF Session
<1>3. Session(p) => ReplayAgrees /\ PortableReplayAgrees
  BY SessionReplays
<1> QED
  BY <1>1, <1>2, <1>3, PTL DEF Spec

-----------------------------------------------------------------------------
(* Torn files are found.                                                   *)

\* A write receipted, or past its manifest, has the manifest on disk, torn or not, and
\* the manifest names the object.
Names(root, object) == root \in Manifest /\ object \in Content /\ \E q \in Path : root[q] = object

Written(p) ==
    proc[p].at # "idle" /\ proc[p].event = "fs-write" =>
        /\ Names(proc[p].root, proc[p].object)
        /\ proc[p].at \notin {"object", "state"} => states[proc[p].root] # "absent"

WritesSaved ==
    \A n \in DOMAIN ledger : ledger[n] = Damaged \/
        (ledger[n].event = "fs-write" => Names(ledger[n].root, ledger[n].object) /\ states[ledger[n].root] # "absent")

\* Manifests are on disk before anything that needs them to be.
Planned(p) == states \in [Manifest -> File] /\ Written(p) /\ WritesSaved

TornInv(p) == Numbered /\ Distinct /\ NumberTaken(p) /\ Planned(p)

\* A process that goes on, or writes nothing but its own manifest, keeps Planned.
LEMMA PlannedKept ==
    ASSUME NEW p, Planned(p), ledger' = ledger, states' \in [Manifest -> File],
           \A m \in Manifest : states[m] # "absent" => states'[m] # "absent", Written(p)'
    PROVE  Planned(p)'
<1>1. ASSUME NEW n \in DOMAIN ledger, ledger[n] # Damaged, ledger[n].event = "fs-write"
      PROVE  Names(ledger[n].root, ledger[n].object) /\ states'[ledger[n].root] # "absent"
  BY <1>1 DEF Planned, WritesSaved, Names
<1> QED
  BY <1>1 DEF Planned, WritesSaved, Damaged, Names

\* The operations plan a manifest that names its object.
LEMMA PlanWritten ==
    ASSUME NEW p, Process = {p}, TornInv(p),
           Boot(p) \/ FsWrite(p) \/ FsRead(p) \/ Rollback(p) \/ StateCheckout(p) \/ ReplaySession(p) \/ Note(p)
    PROVE  Planned(p)'
<1>1. Planned(p) /\ p \in Process /\ DOMAIN proc = Process
  BY DEF TornInv, NumberTaken
<1>2. ASSUME NEW at \in {"object", "pointer", "count"}, NEW event, NEW before, NEW root, NEW object, NEW status,
             Begin(p, at, event, before, root, object, status),
             event = "fs-write" => at = "object" /\ Names(root, object)
      PROVE  Planned(p)'
  <2> DEFINE r == [at |-> at, event |-> event, before |-> before, root |-> root,
                   object |-> object, status |-> status, sequence |-> 0, previous_hash |-> None]
  <2>1. proc' = [proc EXCEPT ![p] = r] /\ ledger' = ledger /\ states' = states
    BY <1>2 DEF Begin, files
  <2>2. r.at = at /\ r.event = event /\ r.root = root /\ r.object = object
    OBVIOUS
  <2> HIDE DEF r
  <2>3. proc'[p] = r
    BY <1>1, <2>1
  <2>4. Written(p)'
    BY <1>2, <2>2, <2>3 DEF Written, Names
  <2> QED
    BY <1>1, <2>1, <2>4, PlannedKept DEF Planned
<1>3. CASE Boot(p)
  BY <1>2, <1>3 DEF Boot
<1>4. CASE FsWrite(p)
  <2>1. PICK path \in Path, d \in Content :
            Begin(p, "object", "fs-write", current, [current EXCEPT ![path] = d], d, "completed")
    BY <1>4 DEF FsWrite
  <2> DEFINE root == [current EXCEPT ![path] = d]
  <2>2. current \in Manifest
    BY <1>4 DEF FsWrite, Readable
  <2>3. root \in Manifest /\ root[path] = d
    BY <2>2 DEF Manifest
  <2> HIDE DEF root
  <2>4. Names(root, d)
    BY <2>3 DEF Names
  <2>5. Begin(p, "object", "fs-write", current, root, d, "completed")
    BY <2>1 DEF root
  <2> QED
    BY <1>2, <2>4, <2>5
<1>5. CASE FsRead(p)
  BY <1>2, <1>5 DEF FsRead
<1>6. CASE Rollback(p)
  BY <1>2, <1>6 DEF Rollback
<1>7. CASE StateCheckout(p)
  BY <1>2, <1>7 DEF StateCheckout
<1>8. CASE ReplaySession(p)
  BY <1>2, <1>8 DEF ReplaySession
<1>9. CASE Note(p)
  BY <1>2, <1>9 DEF Note
<1> QED
  BY <1>3, <1>4, <1>5, <1>6, <1>7, <1>8, <1>9

\* The file for the next number is a new one, whatever is written to it.
LEMMA StillDistinct ==
    ASSUME NEW p, Numbered, Distinct, NumberTaken(p), proc[p].at = "entry", NEW f, PutEntry(p, f)
    PROVE  Distinct'
<1>1. PICK D, c, name : D = DOMAIN ledger /\ c = Cardinality(D) /\ name = EntryName(p)
  OBVIOUS
<1>2. c \in Nat /\ \A n \in D : n.sequence \in 1..c
  BY <1>1, FS_CardinalityType DEF Numbered
<1>3. name.sequence = c + 1
  BY <1>1 DEF NumberTaken, EntryName
<1>4. DOMAIN ledger' = D \cup {name}
  BY <1>1 DEF PutEntry
<1> QED
  BY <1>1, <1>2, <1>3, <1>4 DEF Distinct

\* Every step keeps them, deaths inside a write included.
LEMMA TornStep ==
    ASSUME NEW p, Process = {p}, TornInv(p), Next
    PROVE  TornInv(p)'
<1>1. /\ p \in Process /\ DOMAIN proc = Process /\ Planned(p) /\ NumberTaken(p)
      /\ states \in [Manifest -> File] /\ Written(p) /\ Idle.at = "idle"
  BY DEF TornInv, NumberTaken, Planned, Idle
<1>2. Numbered' /\ NumberTaken(p)'
  BY AppendStep DEF TornInv
<1>3. ASSUME ledger' = ledger PROVE Distinct'
  BY <1>3 DEF TornInv, Distinct
<1>4. ASSUME proc' = [proc EXCEPT ![p] = Idle] PROVE Written(p)'
  BY <1>1, <1>4 DEF Written
<1>5. CASE Boot(p) \/ FsWrite(p) \/ FsRead(p) \/ Rollback(p) \/ StateCheckout(p) \/ ReplaySession(p) \/ Note(p)
  <2>1. ledger' = ledger
    BY <1>5 DEF Boot, FsWrite, FsRead, Rollback, StateCheckout, ReplaySession, Note, Begin, files
  <2> QED
    BY <1>2, <1>3, <1>5, <2>1, PlanWritten DEF TornInv
<1>6. ASSUME NEW at, proc'[p].at = at, Kept(proc'[p], proc[p]), proc[p].at # "idle", ledger' = ledger,
             states' \in [Manifest -> File],
             \A m \in Manifest : states[m] # "absent" => states'[m] # "absent",
             at \notin {"object", "state"} /\ proc[p].event = "fs-write" => states'[proc[p].root] # "absent"
      PROVE  TornInv(p)'
  <2>1. Written(p)'
    BY <1>1, <1>6 DEF Written, Kept, Names
  <2>2. Planned(p)'
    BY <1>1, <1>6, <2>1, PlannedKept
  <2> QED
    BY <1>2, <1>3, <1>6, <2>2 DEF TornInv
<1>7. CASE WriteObject(p)
  <2>1. proc[p].at = "object" /\ ledger' = ledger /\ states' = states /\ Advance(p, "state")
    BY <1>7 DEF WriteObject
  <2>2. proc'[p].at = "state" /\ Kept(proc'[p], proc[p])
    BY <1>1, <2>1, GoesOn
  <2> QED
    BY <1>1, <1>6, <2>1, <2>2
<1>8. CASE SaveManifest(p)
  <2>1. PICK m : m = proc[p].root
    OBVIOUS
  <2>2. /\ proc[p].at = "state" /\ ledger' = ledger /\ states' = [states EXCEPT ![m] = "whole"] /\ Advance(p, "pointer")
    BY <1>8, <2>1 DEF SaveManifest
  <2>3. proc'[p].at = "pointer" /\ Kept(proc'[p], proc[p])
    BY <1>1, <2>2, GoesOn
  <2>4. /\ states' \in [Manifest -> File] /\ \A x \in Manifest : states[x] # "absent" => states'[x] # "absent"
        /\ m \in Manifest => states'[m] # "absent"
    BY <1>1, <2>2 DEF File
  <2>5. proc[p].event = "fs-write" => m \in Manifest
    BY <1>1, <2>1, <2>2 DEF Written, Names
  <2> QED
    BY <1>6, <2>1, <2>2, <2>3, <2>4, <2>5
<1>9. CASE SetCurrentRoot(p)
  <2>1. proc[p].at = "pointer" /\ ledger' = ledger /\ states' = states /\ Advance(p, "count")
    BY <1>9 DEF SetCurrentRoot
  <2>2. proc'[p].at = "count" /\ Kept(proc'[p], proc[p])
    BY <1>1, <2>1, GoesOn
  <2> QED
    BY <1>1, <1>6, <2>1, <2>2 DEF Written
<1>10. CASE RecordCount(p) \/ RecordPrevious(p)
  <2>1. proc[p].at \in {"count", "previous"} /\ ledger' = ledger /\ states' = states
    BY <1>10 DEF RecordCount, RecordPrevious, files
  <2>2. proc'[p].at \in {"previous", "entry"} /\ Kept(proc'[p], proc[p])
    BY <1>1, <1>10, <2>1, GoesOn
  <2> QED
    BY <1>1, <1>6, <2>1, <2>2 DEF Written
<1>11. CASE RecordWrite(p)
  <2>1. PICK D, name, e : D = DOMAIN ledger /\ name = EntryName(p) /\ e = Receipt(p)
    OBVIOUS
  <2>2. /\ proc[p].at = "entry" /\ PutEntry(p, Receipt(p)) /\ proc' = [proc EXCEPT ![p] = Idle] /\ states' = states
        /\ ledger' = [n \in D \cup {name} |-> IF n = name THEN e ELSE ledger[n]]
    BY <1>11, <2>1 DEF RecordWrite, PutEntry
  <2>3. e.event = "fs-write" => Names(e.root, e.object) /\ states[e.root] # "absent"
    BY <1>1, <2>1, <2>2 DEF Written, Receipt
  <2>4. ASSUME NEW n \in DOMAIN ledger'
        PROVE  ledger'[n] = Damaged \/
                 (ledger'[n].event = "fs-write" => Names(ledger'[n].root, ledger'[n].object) /\ states[ledger'[n].root] # "absent")
    <3>1. CASE n = name
      BY <2>2, <2>3, <3>1
    <3>2. CASE n # name
      <4>1. n \in D /\ ledger'[n] = ledger[n]
        BY <2>2, <2>4, <3>2
      <4> QED
        BY <1>1, <2>1, <4>1 DEF Planned, WritesSaved
    <3> QED
      BY <3>1, <3>2
  <2>5. WritesSaved'
    BY <2>2, <2>4 DEF WritesSaved, Damaged, Names
  <2>6. Distinct'
    BY <1>1, <2>2, StillDistinct DEF TornInv
  <2> QED
    BY <1>1, <1>2, <1>4, <2>2, <2>5, <2>6 DEF TornInv, Planned
<1>12. CASE Crash(p)
  BY <1>1, <1>2, <1>3, <1>4, <1>12, PlannedKept DEF Crash, files, TornInv
<1>13. CASE CrashInside(p)
  <2>1. proc' = [proc EXCEPT ![p] = Idle]
    BY <1>13 DEF CrashInside
  <2>2. Written(p)'
    BY <1>4, <2>1
  <2>3. \/ ledger' = ledger /\ states' = states
        \/ ledger' = ledger /\ states' = [states EXCEPT ![proc[p].root] = "torn"]
        \/ proc[p].at = "entry" /\ PutEntry(p, Damaged) /\ states' = states
    BY <1>13 DEF CrashInside
  <2>4. CASE ledger' = ledger /\ states' = states
    BY <1>1, <1>2, <1>3, <2>2, <2>4, PlannedKept DEF TornInv
  <2>5. CASE ledger' = ledger /\ states' = [states EXCEPT ![proc[p].root] = "torn"]
    <3>1. states' \in [Manifest -> File] /\ \A m \in Manifest : states[m] # "absent" => states'[m] # "absent"
      BY <1>1, <2>5 DEF File
    <3> QED
      BY <1>1, <1>2, <1>3, <2>2, <2>5, <3>1, PlannedKept DEF TornInv
  <2>6. CASE proc[p].at = "entry" /\ PutEntry(p, Damaged) /\ states' = states
    <3>1. Distinct'
      BY <1>1, <2>6, StillDistinct DEF TornInv
    <3>2. PICK D, name, e : D = DOMAIN ledger /\ name = EntryName(p) /\ e = Damaged
      OBVIOUS
    <3>3. ledger' = [n \in D \cup {name} |-> IF n = name THEN e ELSE ledger[n]]
      BY <2>6, <3>2 DEF PutEntry
    <3>4. ASSUME NEW n \in DOMAIN ledger'
          PROVE  ledger'[n] = Damaged \/
                   (ledger'[n].event = "fs-write" => Names(ledger'[n].root, ledger'[n].object) /\ states[ledger'[n].root] # "absent")
      <4>1. CASE n = name
        BY <3>2, <3>3, <4>1
      <4>2. CASE n # name
        <5>1. n \in D /\ ledger'[n] = ledger[n]
          BY <3>3, <3>4, <4>2
        <5> QED
          BY <1>1, <3>2, <5>1 DEF Planned, WritesSaved
      <4> QED
        BY <4>1, <4>2
    <3>5. WritesSaved'
      BY <2>6, <3>4 DEF WritesSaved, Damaged, Names
    <3> QED
      BY <1>1, <1>2, <2>2, <2>6, <3>1, <3>5 DEF TornInv, Planned
  <2> QED
    BY <2>3, <2>4, <2>5, <2>6
<1> QED
  BY <1>5, <1>7, <1>8, <1>9, <1>10, <1>11, <1>12, <1>13 DEF Next

\* Every receipt is listed, so `bog ledger verify' comes to the damaged one.
LEMMA DamageFound ==
    ASSUME Numbered, Distinct, NEW n \in DOMAIN ledger, ledger[n] = Damaged
    PROVE  ~VerifyLedger
<1>1. PICK i : i = n.sequence
  OBVIOUS
<1>2. i \in 1..Cardinality(DOMAIN ledger) /\ Cardinality(DOMAIN ledger) \in Nat
  BY <1>1, FS_CardinalityType DEF Numbered
<1>3. DOMAIN Entries = 1..Cardinality(DOMAIN ledger) /\ Entries[i] = ledger[Listed(i)]
  BY <1>2 DEF Entries
<1>4. Listed(i) = n
  BY <1>1, <1>2, ListedByNumber DEF Distinct
<1>5. Entries[i].sequence = -1
  BY <1>3, <1>4 DEF Damaged
<1>6. Entries[i].sequence # i /\ i \in DOMAIN Entries
  BY <1>2, <1>3, <1>5
<1> QED
  BY <1>6 DEF VerifyLedger

\* Nothing is torn at first.
LEMMA TornInit ==
    ASSUME NEW p, Process = {p}, Init
    PROVE  TornInv(p)
<1>1. Chain(p)
  BY ChainInit
<1>2. ledger = <<>> /\ proc[p] = Idle /\ Idle.at = "idle" /\ states \in [Manifest -> File]
  BY DEF Init, Idle, File
<1>3. DOMAIN ledger = {}
  BY <1>2
<1> QED
  BY <1>1, <1>2, <1>3 DEF TornInv, Chain, Planned, Written, WritesSaved

\* Steps and stutters keep TornInv.
LEMMA TornKept ==
    ASSUME NEW p, Process = {p}, TornInv(p), [Next]_vars
    PROVE  TornInv(p)'
<1>1. CASE UNCHANGED vars
  BY <1>1 DEF vars, files, TornInv, Numbered, NumberTaken, Distinct, Planned, Written, WritesSaved, Names, Damaged
<1> QED
  BY <1>1, TornStep

\* Wherever the one process dies inside a write: a torn receipt, a torn manifest and the
\* torn object of a receipted write are all reported by `bog ledger verify'.
THEOREM TornFilesDetected ==
    ASSUME LedgerAssumption, NEW p, Process = {p}
    PROVE  Spec => []TornDetected
<1>1. Init => TornInv(p)
  BY TornInit
<1>2. TornInv(p) /\ [Next]_vars => TornInv(p)'
  BY TornKept
<1>3. TornInv(p) => TornDetected
  <2> SUFFICES ASSUME TornInv(p), LedgerVerify
               PROVE  /\ \A n \in DOMAIN ledger : ledger[n] # Damaged /\
                            ~(ledger[n].event = "fs-write" /\ objects[ledger[n].object] = "torn")
                      /\ \A m \in Manifest : states[m] # "torn"
    BY DEF TornDetected
  <2>1. VerifyLedger /\ \A m \in Manifest : states[m] # "absent" => Recoverable(m)
    BY DEF LedgerVerify
  <2>2. \A m \in Manifest : states[m] # "torn"
    BY <2>1 DEF Recoverable
  <2>3. \A n \in DOMAIN ledger : ledger[n] # Damaged
    BY <2>1, DamageFound DEF TornInv
  <2>4. ASSUME NEW n \in DOMAIN ledger, ledger[n].event = "fs-write" PROVE objects[ledger[n].object] = "whole"
    <3>1. PICK m, c : m = ledger[n].root /\ c = ledger[n].object
      OBVIOUS
    <3>2. Names(m, c) /\ states[m] # "absent"
      BY <2>3, <2>4, <3>1 DEF TornInv, Planned, WritesSaved
    <3>3. PICK q \in Path : m[q] = c
      BY <3>2 DEF Names
    <3>4. c # None
      BY <3>2 DEF Names, LedgerAssumption
    <3> QED
      BY <2>1, <3>1, <3>2, <3>3, <3>4 DEF Names, Recoverable
  <2> QED
    BY <2>2, <2>3, <2>4
<1> QED
  BY <1>1, <1>2, <1>3, PTL DEF Spec

-----------------------------------------------------------------------------
(* Types, and the length of the chains.                                    *)

\* h is a sequence of at most k entries.
Short(h, k) == \E S : h \in Seq(S) /\ Len(h) <= k

\* The files and histories.
FilesTyped ==
    /\ objects \in [Content -> File]
    /\ current \in Manifest \cup {Torn}
    /\ moves \subseteq Manifest \X Manifest
    /\ crashes \in 0..MaxCrashes /\ recorded \in Nat

\* The bound on the entries leaves room for the receipt of a process under way.
Room(p) ==
    /\ Cardinality(DOMAIN ledger) <= MaxEntries
    /\ proc[p] # Idle => Cardinality(DOMAIN ledger) < MaxEntries

\* A receipt holds the hashes of those before it.
ChainsShort == \A n \in DOMAIN ledger : ledger[n] = Damaged \/ Short(ledger[n].previous_hash, n.sequence - 1)
HashShort(p) == proc[p].at = "entry" => Short(proc[p].previous_hash, Cardinality(DOMAIN ledger))

\* A root is moved from a manifest to a manifest.
RootsTyped(p) == proc[p].at \in {"object", "state", "pointer"} => current \in Manifest /\ proc[p].root \in Manifest

Typed(p) == FilesTyped /\ Room(p) /\ ChainsShort /\ HashShort(p) /\ RootsTyped(p)

\* A sequence grows by one.
LEMMA ShortAppend ==
    ASSUME NEW h, NEW k \in Int, Short(h, k), NEW e
    PROVE  Short(Append(h, e), k + 1)
<1>1. PICK S : h \in Seq(S) /\ Len(h) <= k
  BY DEF Short
<1>2. h \in Seq(S \cup {e})
  BY <1>1
<1>3. Append(h, e) \in Seq(S \cup {e}) /\ Len(Append(h, e)) = Len(h) + 1
  BY <1>2
<1>4. Len(h) \in Nat
  BY <1>1
<1> QED
  BY <1>1, <1>3, <1>4 DEF Short

\* last_hash is no longer than the ledger.
LEMMA LastShort ==
    ASSUME Numbered, Distinct, ChainsShort
    PROVE  Short(LastHash, Cardinality(DOMAIN ledger))
<1>1. PICK c \in Nat : c = Cardinality(DOMAIN ledger)
  BY FS_CardinalityType DEF Numbered
<1>2. CASE c = 0
  <2>1. DOMAIN ledger = {}
    BY <1>1, <1>2, FS_EmptySet DEF Numbered
  <2>2. LastHash = <<>>
    BY <2>1, LastIsHighest DEF ZERO_HASH
  <2>3. <<>> \in Seq({}) /\ Len(<<>>) = 0
    OBVIOUS
  <2> QED
    BY <1>1, <1>2, <2>2, <2>3 DEF Short
<1>3. CASE c # 0
  <2>1. c \in 0..Cardinality(DOMAIN ledger)
    BY <1>1
  <2>2. PICK n \in DOMAIN ledger : n.sequence = c
    BY <1>3, <2>1, EveryNumber
  <2>3. LastHash = Hash(ledger[n])
    BY <1>1, <2>2, LastIsHighest
  <2>4. CASE ledger[n] = Damaged
    <3>1. LastHash = <<None>>
      BY <2>3, <2>4 DEF Hash
    <3>2. <<None>> \in Seq({None}) /\ Len(<<None>>) = 1
      OBVIOUS
    <3> QED
      <4>1. LastHash \in Seq({None}) /\ Len(LastHash) = 1 /\ 1 <= c
        BY <1>3, <3>1, <3>2
      <4>2. Len(LastHash) <= c
        BY <4>1
      <4>3. Short(LastHash, c)
        BY <4>1, <4>2 DEF Short
      <4> QED
        BY <1>1, <4>3
  <2>5. CASE ledger[n] # Damaged
    <3>1. LastHash = Append(ledger[n].previous_hash, ledger[n])
      BY <2>3, <2>5 DEF Hash
    <3>2. Short(ledger[n].previous_hash, c - 1) /\ c - 1 \in Int /\ (c - 1) + 1 = c
      BY <2>2, <2>5 DEF ChainsShort
    <3>3. Short(LastHash, (c - 1) + 1)
      BY <3>1, <3>2, ShortAppend
    <3> QED
      BY <1>1, <3>2, <3>3
  <2> QED
    BY <2>4, <2>5
<1> QED
  BY <1>2, <1>3

\* What leaves the ledger alone and is not about to write to it.
LEMMA TypedKept ==
    ASSUME NEW p, Typed(p), ledger' = ledger, FilesTyped', RootsTyped(p)',
           proc[p] # Idle \/ proc'[p] = Idle \/ Cardinality(DOMAIN ledger) < MaxEntries,
           proc'[p].at # "entry"
    PROVE  Typed(p)'
<1>1. Room(p)'
  BY DEF Typed, Room
<1>2. ChainsShort'
  BY DEF Typed, ChainsShort, Damaged, Short
<1>3. HashShort(p)'
  BY DEF HashShort
<1> QED
  BY <1>1, <1>2, <1>3 DEF Typed

\* An entry for the number after the last one.
LEMMA TypedEntry ==
    ASSUME LedgerAssumption, NEW p, Process = {p}, TornInv(p), Typed(p), proc[p].at = "entry",
           NEW f, f = Damaged \/ Short(f.previous_hash, Cardinality(DOMAIN ledger)), PutEntry(p, f),
           proc' = [proc EXCEPT ![p] = Idle], FilesTyped'
    PROVE  Typed(p)'
<1>1. PICK D, c, name : D = DOMAIN ledger /\ c = Cardinality(D) /\ name = EntryName(p)
  OBVIOUS
<1>2. IsFiniteSet(D) /\ c \in Nat /\ \A n \in D : n.sequence \in 1..c
  BY <1>1, FS_CardinalityType DEF TornInv, Numbered
<1>3. name.sequence = c + 1 /\ DOMAIN proc = Process
  BY <1>1 DEF TornInv, NumberTaken, EntryName
<1>4. name \notin D
  BY <1>2, <1>3
<1>5. ledger' = [n \in D \cup {name} |-> IF n = name THEN f ELSE ledger[n]]
  BY <1>1 DEF PutEntry
<1>6. DOMAIN ledger' = D \cup {name}
  BY <1>5
<1>7. Cardinality(DOMAIN ledger') = c + 1
  BY <1>2, <1>4, <1>6, <1>1, FS_AddElement
<1>8. proc[p] # Idle
  BY DEF Idle
<1>9. proc'[p] = Idle /\ Idle.at = "idle"
  BY <1>3 DEF Idle
<1>10. Room(p)'
  <2>1. c + 1 <= MaxEntries
    BY <1>1, <1>2, <1>8 DEF Typed, Room, LedgerAssumption
  <2> QED
    BY <1>7, <1>9, <2>1 DEF Room
<1>11. ASSUME NEW n \in DOMAIN ledger' PROVE ledger'[n] = Damaged \/ Short(ledger'[n].previous_hash, n.sequence - 1)
  <2>1. CASE n = name
    <3>1. ledger'[n] = f /\ n.sequence - 1 = c
      BY <1>2, <1>3, <1>5, <2>1
    <3> QED
      BY <1>1, <3>1
  <2>2. CASE n # name
    <3>1. n \in D /\ ledger'[n] = ledger[n]
      BY <1>5, <1>11, <2>2
    <3> QED
      BY <1>1, <3>1 DEF Typed, ChainsShort
  <2> QED
    BY <2>1, <2>2
<1>12. ChainsShort'
  BY <1>11 DEF ChainsShort, Damaged, Short
<1>13. HashShort(p)' /\ RootsTyped(p)'
  BY <1>9 DEF HashShort, RootsTyped
<1> QED
  BY <1>10, <1>12, <1>13 DEF Typed

\* Every step keeps the types.
LEMMA TypedStep ==
    ASSUME LedgerAssumption, NEW p, Process = {p}, TornInv(p), Typed(p), Next
    PROVE  Typed(p)'
<1>1. /\ p \in Process /\ DOMAIN proc = Process /\ NumberTaken(p) /\ Idle.at = "idle"
      /\ FilesTyped /\ RootsTyped(p) /\ Numbered /\ Distinct
  BY DEF TornInv, NumberTaken, Typed, Idle
<1>2. None \notin Manifest /\ MaxCrashes \in Nat /\ MaxEntries \in Nat
  BY DEF LedgerAssumption, Manifest
<1>3. ASSUME NEW at \in {"object", "pointer", "count"}, NEW event, NEW before, NEW root, NEW object, NEW status,
             Begin(p, at, event, before, root, object, status),
             at # "count" => current \in Manifest /\ root \in Manifest
      PROVE  Typed(p)'
  <2> DEFINE r == [at |-> at, event |-> event, before |-> before, root |-> root,
                   object |-> object, status |-> status, sequence |-> 0, previous_hash |-> None]
  <2>1. /\ proc' = [proc EXCEPT ![p] = r] /\ proc[p] = Idle
        /\ UNCHANGED <<ledger, states, objects, current, crashes, moves, recorded>>
    BY <1>3 DEF Begin, files
  <2>2. r.at = at /\ r.root = root
    OBVIOUS
  <2> HIDE DEF r
  <2>3. proc'[p] = r
    BY <1>1, <2>1
  <2>4. Cardinality(DOMAIN ledger) < MaxEntries
    <3>1. {q \in Process : proc[q] # Idle} = {}
      BY <2>1
    <3>2. Cardinality({q \in Process : proc[q] # Idle}) = 0 /\ Cardinality(DOMAIN ledger) \in Nat
      BY <1>1, <3>1, FS_EmptySet, FS_CardinalityType DEF Numbered
    <3>3. Cardinality(DOMAIN ledger) + Cardinality({q \in Process : proc[q] # Idle}) < MaxEntries
      BY <1>3 DEF Begin
    <3> QED
      BY <3>2, <3>3
  <2>5. FilesTyped' /\ RootsTyped(p)'
    BY <1>1, <1>3, <2>1, <2>2, <2>3 DEF FilesTyped, RootsTyped
  <2>6. proc'[p].at # "entry"
    BY <2>2, <2>3
  <2> QED
    BY <2>1, <2>4, <2>5, <2>6, TypedKept
<1>4. CASE Boot(p) \/ FsRead(p) \/ ReplaySession(p) \/ Note(p)
  <2>1. CASE Boot(p)
    BY <1>3, <2>1 DEF Boot
  <2>2. CASE FsRead(p)
    BY <1>3, <2>2 DEF FsRead
  <2>3. CASE ReplaySession(p)
    BY <1>3, <2>3 DEF ReplaySession
  <2>4. CASE Note(p)
    BY <1>3, <2>4 DEF Note
  <2> QED
    BY <1>4, <2>1, <2>2, <2>3, <2>4
<1>5. CASE FsWrite(p)
  <2>1. PICK path \in Path, d \in Content :
            Begin(p, "object", "fs-write", current, [current EXCEPT ![path] = d], d, "completed")
    BY <1>5 DEF FsWrite
  <2> DEFINE root == [current EXCEPT ![path] = d]
  <2>2. current \in Manifest
    BY <1>5 DEF FsWrite, Readable
  <2>3. root \in Manifest /\ Begin(p, "object", "fs-write", current, root, d, "completed")
    BY <2>1, <2>2 DEF Manifest
  <2> HIDE DEF root
  <2> QED
    BY <1>3, <2>2, <2>3
<1>6. CASE Rollback(p)
  <2>1. PICK name \in DOMAIN ledger :
          LET target == ledger[name].root
              found  == target \in Manifest /\ states[target] # "absent"
          IN  Begin(p, IF found THEN "pointer" ELSE "count", "rollback", current, target, None,
                    IF found THEN "completed" ELSE "blocked")
    BY <1>6 DEF Rollback
  <2>2. PICK target : target = ledger[name].root
    OBVIOUS
  <2>3. current \in Manifest
    BY <1>6 DEF Rollback, Readable
  <2> DEFINE found == target \in Manifest /\ states[target] # "absent"
  <2>4. CASE found
    BY <1>3, <2>1, <2>2, <2>3, <2>4
  <2>5. CASE ~found
    BY <1>3, <2>1, <2>2, <2>5
  <2> QED
    BY <2>4, <2>5
<1>7. CASE StateCheckout(p)
  BY <1>3, <1>7 DEF StateCheckout, Readable
<1>8. CASE WriteObject(p)
  <2>1. /\ proc[p].at = "object" /\ Advance(p, "state") /\ proc[p] # Idle
        /\ objects' = [objects EXCEPT ![proc[p].object] = IF @ = "absent" THEN "whole" ELSE @]
        /\ UNCHANGED <<ledger, states, current, crashes, moves, recorded>>
    BY <1>8 DEF WriteObject, Idle
  <2>2. proc'[p].at = "state" /\ Kept(proc'[p], proc[p])
    BY <1>1, <2>1, GoesOn
  <2>3. FilesTyped' /\ RootsTyped(p)'
    BY <1>1, <2>1, <2>2 DEF FilesTyped, RootsTyped, Kept, File
  <2> QED
    BY <2>1, <2>2, <2>3, TypedKept
<1>9. CASE SaveManifest(p)
  <2>1. /\ proc[p].at = "state" /\ Advance(p, "pointer") /\ proc[p] # Idle
        /\ UNCHANGED <<ledger, objects, current, crashes, moves, recorded>>
    BY <1>9 DEF SaveManifest, Idle
  <2>2. proc'[p].at = "pointer" /\ Kept(proc'[p], proc[p])
    BY <1>1, <2>1, GoesOn
  <2>3. FilesTyped' /\ RootsTyped(p)'
    BY <1>1, <2>1, <2>2 DEF FilesTyped, RootsTyped, Kept
  <2> QED
    BY <2>1, <2>2, <2>3, TypedKept
<1>10. CASE SetCurrentRoot(p)
  <2>1. /\ proc[p].at = "pointer" /\ Advance(p, "count") /\ proc[p] # Idle
        /\ current' = proc[p].root /\ moves' = moves \cup {<<current, proc[p].root>>}
        /\ UNCHANGED <<ledger, states, objects, crashes, recorded>>
    BY <1>10 DEF SetCurrentRoot, Idle
  <2>2. proc'[p].at = "count" /\ Kept(proc'[p], proc[p])
    BY <1>1, <2>1, GoesOn
  <2>3. current \in Manifest /\ proc[p].root \in Manifest
    BY <1>1, <2>1 DEF RootsTyped
  <2>4. FilesTyped' /\ RootsTyped(p)'
    BY <1>1, <2>1, <2>2, <2>3 DEF FilesTyped, RootsTyped
  <2> QED
    BY <2>1, <2>2, <2>4, TypedKept
<1>11. CASE RecordCount(p)
  <2>1. proc[p].at = "count" /\ proc[p] # Idle /\ UNCHANGED <<ledger, states, objects, current, crashes, moves, recorded>>
    BY <1>11 DEF RecordCount, files, Idle
  <2>2. proc'[p].at = "previous"
    BY <1>1, <1>11, <2>1, GoesOn
  <2>3. FilesTyped' /\ RootsTyped(p)'
    BY <1>1, <2>1, <2>2 DEF FilesTyped, RootsTyped
  <2> QED
    BY <2>1, <2>2, <2>3, TypedKept
<1>12. CASE RecordPrevious(p)
  <2>1. PICK h : h = LastHash
    OBVIOUS
  <2> DEFINE r == [proc[p] EXCEPT !.at = "entry", !.previous_hash = h]
  <2>a. /\ proc[p].at = "previous" /\ proc[p] # Idle
        /\ UNCHANGED <<ledger, states, objects, current, crashes, moves, recorded>>
    BY <1>12 DEF RecordPrevious, files, Idle
  <2>b. proc' = [proc EXCEPT ![p] = r]
    BY <1>12, <2>1 DEF RecordPrevious
  <2>2. /\ proc[p].at = "previous" /\ proc[p] # Idle /\ proc' = [proc EXCEPT ![p] = r]
        /\ UNCHANGED <<ledger, states, objects, current, crashes, moves, recorded>>
    BY <2>a, <2>b
  <2>3. DOMAIN proc[p] = Field
    BY <1>1, <2>2 DEF NumberTaken
  <2>4. r.at = "entry" /\ r.previous_hash = h
    BY <2>3 DEF Field
  <2> HIDE DEF r
  <2>5. proc'[p].at = "entry" /\ proc'[p].previous_hash = h
    BY <1>1, <2>2, <2>4
  <2>6. Short(h, Cardinality(DOMAIN ledger))
    BY <1>1, <2>1, LastShort DEF Typed
  <2>7. HashShort(p)'
    BY <2>2, <2>5, <2>6 DEF HashShort, Short
  <2>8. FilesTyped' /\ RootsTyped(p)' /\ Room(p)'
    BY <1>1, <2>2, <2>5 DEF Typed, FilesTyped, RootsTyped, Room
  <2>9. ChainsShort'
    BY <2>2 DEF Typed, ChainsShort, Damaged, Short
  <2> QED
    BY <2>7, <2>8, <2>9 DEF Typed
<1>13. CASE RecordWrite(p)
  <2>1. PICK e : e = Receipt(p)
    OBVIOUS
  <2>2. /\ proc[p].at = "entry" /\ PutEntry(p, e) /\ proc' = [proc EXCEPT ![p] = Idle] /\ recorded' = recorded + 1
        /\ UNCHANGED <<states, objects, current, crashes, moves>>
    BY <1>13, <2>1 DEF RecordWrite
  <2>3. e.previous_hash = proc[p].previous_hash
    BY <2>1 DEF Receipt
  <2>4. Short(e.previous_hash, Cardinality(DOMAIN ledger))
    BY <2>2, <2>3 DEF Typed, HashShort
  <2>5. FilesTyped'
    BY <1>1, <2>2 DEF FilesTyped
  <2> QED
    BY <2>2, <2>4, <2>5, TypedEntry
<1>14. ASSUME proc' = [proc EXCEPT ![p] = Idle] PROVE proc'[p] = Idle /\ RootsTyped(p)' /\ proc'[p].at # "entry"
  BY <1>1, <1>14 DEF RootsTyped
<1>15. CASE Crash(p)
  <2>1. /\ proc' = [proc EXCEPT ![p] = Idle] /\ crashes < MaxCrashes /\ crashes' = crashes + 1
        /\ UNCHANGED <<ledger, states, objects, current, moves, recorded>>
    BY <1>15 DEF Crash, files
  <2>2. FilesTyped'
    BY <1>1, <1>2, <2>1 DEF FilesTyped
  <2> QED
    BY <1>14, <2>1, <2>2, TypedKept
<1>16. CASE CrashInside(p)
  <2>1. /\ proc' = [proc EXCEPT ![p] = Idle] /\ crashes < MaxCrashes /\ crashes' = crashes + 1
        /\ UNCHANGED <<moves, recorded>>
        /\ \/ ledger' = ledger /\ current' = current /\ objects' = [objects EXCEPT ![proc[p].object] = "torn"]
           \/ ledger' = ledger /\ current' = current /\ objects' = objects
           \/ ledger' = ledger /\ current' = Torn /\ objects' = objects
           \/ proc[p].at = "entry" /\ PutEntry(p, Damaged) /\ current' = current /\ objects' = objects
    BY <1>16 DEF CrashInside
  <2>2. FilesTyped'
    <3>1. crashes' \in 0..MaxCrashes
      BY <1>1, <1>2, <2>1 DEF FilesTyped
    <3>2. objects' \in [Content -> File]
      BY <1>1, <2>1 DEF FilesTyped, File
    <3>3. current' \in Manifest \cup {Torn}
      BY <1>1, <2>1 DEF FilesTyped
    <3> QED
      BY <1>1, <2>1, <3>1, <3>2, <3>3 DEF FilesTyped
  <2>3. CASE ledger' = ledger
    BY <1>14, <2>1, <2>2, <2>3, TypedKept
  <2>4. CASE proc[p].at = "entry" /\ PutEntry(p, Damaged)
    BY <2>1, <2>2, <2>4, TypedEntry
  <2> QED
    BY <2>1, <2>3, <2>4
<1> QED
  BY <1>4, <1>5, <1>6, <1>7, <1>8, <1>9, <1>10, <1>11, <1>12, <1>13, <1>15, <1>16 DEF Next

\* The files, the histories and the length of every chain keep their types, for one
\* process that dies where it likes.
THEOREM TypeCorrect ==
    ASSUME LedgerAssumption, NEW p, Process = {p}
    PROVE  Spec => []TypeOK
<1> DEFINE J == TornInv(p) /\ Typed(p)
<1>1. Init => J
  <2> SUFFICES ASSUME Init PROVE J
    OBVIOUS
  <2>1. ledger = <<>> /\ proc[p] = Idle /\ Idle.at = "idle" /\ crashes = 0 /\ recorded = 0 /\ moves = {}
    BY DEF Init, Idle
  <2>2. DOMAIN ledger = {} /\ Cardinality(DOMAIN ledger) = 0
    BY <2>1, FS_EmptySet
  <2>3. FilesTyped
    BY <2>1 DEF Init, FilesTyped, File, Blank, Manifest, LedgerAssumption
  <2>4. Typed(p)
    BY <2>1, <2>2, <2>3 DEF Typed, Room, ChainsShort, HashShort, RootsTyped, LedgerAssumption
  <2> QED
    BY <2>4, TornInit
<1>2. J /\ [Next]_vars => J'
  <2>1. Typed(p) /\ UNCHANGED vars => Typed(p)'
    BY DEF vars, files, Typed, FilesTyped, Room, ChainsShort, HashShort, RootsTyped, Damaged, Short
  <2> QED
    BY <2>1, TornKept, TypedStep
<1>3. J => TypeOK
  <2> SUFFICES ASSUME J PROVE TypeOK
    OBVIOUS
  <2>1. ASSUME NEW n \in DOMAIN ledger, ledger[n] # Damaged PROVE Len(ledger[n].previous_hash) < MaxEntries
    <3>1. PICK S : ledger[n].previous_hash \in Seq(S) /\ Len(ledger[n].previous_hash) <= n.sequence - 1
      BY <2>1 DEF Typed, ChainsShort, Short
    <3>2. /\ n.sequence \in 1..Cardinality(DOMAIN ledger) /\ Cardinality(DOMAIN ledger) \in Nat
          /\ Cardinality(DOMAIN ledger) <= MaxEntries /\ MaxEntries \in Nat
      BY FS_CardinalityType DEF TornInv, Numbered, Typed, Room, LedgerAssumption
    <3>3. Len(ledger[n].previous_hash) \in Nat
      BY <3>1
    <3> QED
      BY <3>1, <3>2, <3>3
  <2> QED
    BY <2>1 DEF TypeOK, Typed, FilesTyped, TornInv, Planned
<1> QED
  BY <1>1, <1>2, <1>3, PTL DEF Spec

\* One process, however long it works: its files keep their types; unless it dies inside
\* a write its ledger verifies and its sessions replay; and what is torn is found.
THEOREM HistoryHolds ==
    ASSUME LedgerAssumption, NEW p, Process = {p}
    PROVE  Spec => []HistoryReplays
<1>1. CASE TornWrites = FALSE
  <2>1. TypeOK /\ LedgerChained /\ ReplayAgrees /\ PortableReplayAgrees /\ TornDetected => HistoryReplays
    BY DEF HistoryReplays
  <2> QED
    BY <1>1, <2>1, TypeCorrect, SingleWriterChains, SessionsReplay, TornFilesDetected, PTL
<1>2. CASE TornWrites = TRUE
  <2>1. TypeOK /\ TornDetected => HistoryReplays
    BY <1>2 DEF HistoryReplays
  <2> QED
    BY <1>2, <2>1, TypeCorrect, TornFilesDetected, PTL
<1> QED
  BY <1>1, <1>2 DEF LedgerAssumption
=============================================================================

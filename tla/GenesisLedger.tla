--------------------------- MODULE GenesisLedger ---------------------------
(***************************************************************************)
(* The Genesis session of bogvm/genesis.py and the time travel of          *)
(* bogvm/hypergenesis.py: copy-on-write state under .bogos/genesis, the    *)
(* hash-chained ledger of receipts beside it, and the checks that read     *)
(* them back.  An operation is a sequence of file writes; several `bog'    *)
(* processes may work on one workspace, and a process may die between two  *)
(* writes, or inside one when TornWrites.                                  *)
(*                                                                         *)
(* A SHA-256 hash is the hashed value: the root of a manifest is the       *)
(* manifest, and the hash of a receipt is the sequence of receipts that    *)
(* ends with it, because every receipt holds its predecessor's hash.       *)
(* Signatures of the workspace key verify unless the file is torn.         *)
(***************************************************************************)
EXTENDS Integers, FiniteSets, Sequences, SequencesExt

CONSTANTS
    Process,        \* the bog processes of one workspace
    Path, Content,  \* names and contents of files
    Operations,     \* the commands the processes give
    TornWrites,     \* TRUE: a process may die inside write_text
    MaxEntries,     \* bound on the receipts
    MaxCrashes,     \* bound on the deaths of processes
    None, Torn      \* an absent field; a file that was not written to its end

\* What the constants are; the MC modules assume it of each instance.
LedgerAssumption ==
    /\ TornWrites \in BOOLEAN
    /\ MaxEntries \in Nat /\ MaxCrashes \in Nat
    /\ Operations \subseteq {"boot", "fs_write", "fs_read", "rollback",
                             "state_checkout", "replay_session", "note"}
    /\ None \notin Content
    /\ None \notin [Path -> Content \cup {None}]     \* a missing root is no root

VARIABLES
    ledger,     \* ledger_dir: file name -> receipt or Damaged
    states,     \* states_dir: manifest -> its file
    objects,    \* objects_dir: content -> its file
    current,    \* the current_root file
    proc,       \* what each process is doing
    crashes,    \* history: deaths so far
    moves,      \* history: <<before, after>> of every change of current_root
    recorded    \* history: receipts written so far

files == <<ledger, states, objects, current>>
vars  == <<files, proc, crashes, moves, recorded>>

File == {"absent", "torn", "whole"}

\* The manifest of a state: the content of each file, or None.
Manifest == [Path -> Content \cup {None}]
Blank    == [p \in Path |-> None]

ZERO_HASH == <<>>

\* Ledger files sort by name, "{sequence:06d}_{event}.json".
Event == << "fs-read", "fs-write", "registry-sync", "replay-session",
            "rollback", "state-checkout", "trusted-boot" >>
Before(m, n) ==
    \/ m.sequence < n.sequence
    \/ m.sequence = n.sequence
       /\ \E i, j \in DOMAIN Event : i < j /\ Event[i] = m.event /\ Event[j] = n.event
-----------------------------------------------------------------------------
(* Reading the ledger.                                                     *)

\* A file that was not written to its end does not parse, and is read as an entry
\* without fields.
Damaged == [sequence |-> -1, event |-> None, root |-> None, before |-> None,
            object |-> None, status |-> None, previous_hash |-> <<None>>]

\* The i-th file of the sorted listing has i - 1 files before it.
Listed(i) == CHOOSE n \in DOMAIN ledger : Cardinality({m \in DOMAIN ledger : Before(m, n)}) = i - 1

Entries == [i \in 1..Cardinality(DOMAIN ledger) |-> ledger[Listed(i)]]

\* The receipt hash of a damaged entry is the empty string, here <<None>>.
Hash(entry) == IF entry = Damaged THEN <<None>> ELSE Append(entry.previous_hash, entry)

LastHash == IF Entries = <<>> THEN ZERO_HASH ELSE Hash(Last(Entries))

\* verify_ledger: numbering and chain.  An empty receipt hash does not move `previous'.
VerifyLedger ==
    LET entries     == Entries
        Previous(i) == LET good == {j \in 1..(i - 1) : entries[j] # Damaged}
                       IN  IF good = {} THEN ZERO_HASH ELSE Hash(entries[Max(good)])
    IN  \A i \in DOMAIN entries :
            /\ entries[i].sequence = i
            /\ entries[i].previous_hash = Previous(i)

ReplayStep_Forward(acc, entry) ==
    CASE entry.event = "trusted-boot" -> [acc EXCEPT !.root = entry.root]
      [] entry.event = "fs-write"     ->
            [root |-> entry.root,
             ok   |-> acc.ok /\ entry.before = acc.root /\ objects[entry.object] # "absent"]
      [] OTHER                        -> acc

\* One entry of replay_session; a failure is remembered, the root moves on.
ReplayStep(acc, entry) ==
    CASE entry.event = "trusted-boot" -> [acc EXCEPT !.root = entry.root]
      [] entry.event = "fs-write"     ->
            [root |-> entry.root,
             ok   |-> acc.ok /\ entry.before = acc.root /\ objects[entry.object] # "absent"]
      [] entry.event = "rollback"     -> [acc EXCEPT !.root = entry.root]
      [] OTHER                        -> acc

ReplayVerified ==
    LET end == FoldLeft(ReplayStep, [root |-> ZERO_HASH, ok |-> TRUE], Entries)
    IN  VerifyLedger /\ end.ok /\ end.root = current

\* The replay of HyperGenesis.verify_proof over the ledger of a portable proof.
PortableStep(root, entry) ==
    IF entry.event \in {"trusted-boot", "fs-write", "rollback", "state-checkout"} THEN entry.root ELSE root

PortableRoot == FoldLeft(PortableStep, ZERO_HASH, Entries)

\* HyperGenesis.ledger_verify: the chain, every state file and every object they name.
Recoverable(m) ==
    /\ states[m] = "whole"
    /\ \A p \in Path : m[p] # None => objects[m[p]] = "whole"

LedgerVerify ==
    /\ VerifyLedger
    /\ \A m \in Manifest : states[m] # "absent" => Recoverable(m)

\* current_manifest and current_root raise otherwise.
Readable == current \in Manifest /\ states[current] = "whole"
-----------------------------------------------------------------------------
(* A process: its operation `event', with the fields of the receipt it     *)
(* will record, and `at', the next thing it does.                          *)

Idle == [at |-> "idle"]

\* The first word of an operation decides everything its receipt says but the chain.
Begin(p, at, event, before, root, object, status) ==
    /\ Cardinality(DOMAIN ledger) + Cardinality({q \in Process : proc[q] # Idle}) < MaxEntries
    /\ proc[p] = Idle
    /\ proc' = [proc EXCEPT ![p] =
                   [at |-> at, event |-> event, before |-> before, root |-> root,
                    object |-> object, status |-> status, sequence |-> 0, previous_hash |-> None]]
    /\ UNCHANGED <<files, crashes, moves, recorded>>

Boot(p) ==
    /\ "boot" \in Operations /\ Readable
    /\ Begin(p, "count", "trusted-boot", None, current, None, "completed")

FsWrite(p) ==
    /\ "fs_write" \in Operations /\ Readable
    /\ \E path \in Path, data \in Content :
          Begin(p, "object", "fs-write", current, [current EXCEPT ![path] = data], data, "completed")

FsRead(p) ==
    /\ "fs_read" \in Operations /\ Readable
    /\ \E path \in Path :
          /\ current[path] # None => objects[current[path]] # "absent"
          /\ Begin(p, "count", "fs-read", None, current, current[path],
                   IF current[path] = None THEN "blocked" ELSE "completed")

\* A receipt that names no saved state blocks the rollback, which is receipted all the same.
Rollback(p) ==
    /\ "rollback" \in Operations /\ Readable
    /\ \E name \in DOMAIN ledger :
          LET target == ledger[name].root
              found  == target \in Manifest /\ states[target] # "absent"
          IN  Begin(p, IF found THEN "pointer" ELSE "count", "rollback", current, target, None,
                    IF found THEN "completed" ELSE "blocked")

StateCheckout(p) ==
    /\ "state_checkout" \in Operations /\ Readable
    /\ \E root \in Manifest :
          /\ states[root] = "whole"
          /\ Begin(p, "pointer", "state-checkout", current, root, None, "completed")

\* An entry without "event" raises before anything is recorded.
ReplaySession(p) ==
    /\ "replay_session" \in Operations /\ Readable
    /\ \A i \in DOMAIN Entries : Entries[i] # Damaged
    /\ Begin(p, "count", "replay-session", None, None, None,
             IF ReplayVerified THEN "completed" ELSE "blocked")

\* The other events record a receipt that names no root of the state.
Note(p) ==
    /\ "note" \in Operations
    /\ Begin(p, "count", "registry-sync", None, None, None, "completed")
-----------------------------------------------------------------------------
(* The file writes of the operations, in the code's order.                 *)

Advance(p, at) == proc' = [proc EXCEPT ![p].at = at]

\* An object that exists is not written again.
WriteObject(p) ==
    /\ proc[p].at = "object"
    /\ objects' = [objects EXCEPT ![proc[p].object] = IF @ = "absent" THEN "whole" ELSE @]
    /\ Advance(p, "state")
    /\ UNCHANGED <<ledger, states, current, crashes, moves, recorded>>

SaveManifest_Unsaved(p) ==
    /\ proc[p].at = "state"
    /\ UNCHANGED states
    /\ Advance(p, "pointer")
    /\ UNCHANGED <<ledger, objects, current, crashes, moves, recorded>>

SaveManifest(p) ==
    /\ proc[p].at = "state"
    /\ states' = [states EXCEPT ![proc[p].root] = "whole"]
    /\ Advance(p, "pointer")
    /\ UNCHANGED <<ledger, objects, current, crashes, moves, recorded>>

SetCurrentRoot(p) ==
    /\ proc[p].at = "pointer"
    /\ current' = proc[p].root
    /\ moves' = moves \cup {<<current, proc[p].root>>}
    /\ Advance(p, "count")
    /\ UNCHANGED <<ledger, states, objects, crashes, recorded>>

RecordCount_Listed(p) ==
    /\ proc[p].at = "count"
    /\ proc' = [proc EXCEPT ![p].at = "previous", ![p].sequence = IF ledger = <<>> THEN 1 ELSE Cardinality(DOMAIN ledger)]
    /\ UNCHANGED <<files, crashes, moves, recorded>>

\* record: len(entries()) and last_hash() are two readings of the directory.
RecordCount(p) ==
    /\ proc[p].at = "count"
    /\ proc' = [proc EXCEPT ![p].at = "previous", ![p].sequence = Cardinality(DOMAIN ledger) + 1]
    /\ UNCHANGED <<files, crashes, moves, recorded>>

RecordPrevious(p) ==
    /\ proc[p].at = "previous"
    /\ proc' = [proc EXCEPT ![p].at = "entry", ![p].previous_hash = LastHash]
    /\ UNCHANGED <<files, crashes, moves, recorded>>

EntryName(p) == [sequence |-> proc[p].sequence, event |-> proc[p].event]

Receipt(p) == [sequence |-> proc[p].sequence, event |-> proc[p].event, root |-> proc[p].root,
               before |-> proc[p].before, object |-> proc[p].object,
               status |-> proc[p].status, previous_hash |-> proc[p].previous_hash]

PutEntry(p, file) ==
    ledger' = [n \in DOMAIN ledger \cup {EntryName(p)} |-> IF n = EntryName(p) THEN file ELSE ledger[n]]

RecordWrite(p) ==
    /\ proc[p].at = "entry"
    /\ PutEntry(p, Receipt(p))
    /\ proc' = [proc EXCEPT ![p] = Idle]
    /\ recorded' = recorded + 1
    /\ UNCHANGED <<states, objects, current, crashes, moves>>

\* Death between two writes.
Crash(p) ==
    /\ proc[p] # Idle /\ crashes < MaxCrashes
    /\ crashes' = crashes + 1
    /\ proc' = [proc EXCEPT ![p] = Idle]
    /\ UNCHANGED <<files, moves, recorded>>

\* Death inside write_text, which truncates the file before it fills it.
CrashInside(p) ==
    /\ TornWrites /\ crashes < MaxCrashes
    /\ \/ /\ proc[p].at = "object" /\ objects[proc[p].object] = "absent"
          /\ objects' = [objects EXCEPT ![proc[p].object] = "torn"]
          /\ UNCHANGED <<ledger, states, current>>
       \/ /\ proc[p].at = "state"
          /\ states' = [states EXCEPT ![proc[p].root] = "torn"]
          /\ UNCHANGED <<ledger, objects, current>>
       \/ /\ proc[p].at = "pointer"
          /\ current' = Torn
          /\ UNCHANGED <<ledger, states, objects>>
       \/ /\ proc[p].at = "entry"
          /\ PutEntry(p, Damaged)
          /\ UNCHANGED <<states, objects, current>>
    /\ crashes' = crashes + 1
    /\ proc' = [proc EXCEPT ![p] = Idle]
    /\ UNCHANGED <<moves, recorded>>
-----------------------------------------------------------------------------
\* The layout _reset_demo leaves: an empty ledger and the blank state.
Init ==
    /\ ledger = <<>>
    /\ states = [m \in Manifest |-> IF m = Blank THEN "whole" ELSE "absent"]
    /\ objects = [c \in Content |-> "absent"]
    /\ current = Blank
    /\ proc = [p \in Process |-> Idle]
    /\ crashes = 0 /\ moves = {} /\ recorded = 0

Next ==
    \E p \in Process :
        \/ Boot(p) \/ FsWrite(p) \/ FsRead(p) \/ Rollback(p)
        \/ StateCheckout(p) \/ ReplaySession(p) \/ Note(p)
        \/ WriteObject(p) \/ SaveManifest(p) \/ SetCurrentRoot(p)
        \/ RecordCount(p) \/ RecordPrevious(p) \/ RecordWrite(p)
        \/ Crash(p) \/ CrashInside(p)

Spec == Init /\ [][Next]_vars
-----------------------------------------------------------------------------
Quiet == \A p \in Process : proc[p] = Idle

\* Every file is absent, torn or whole, current_root names a manifest, and the chain a
\* receipt holds is no longer than the ledger may be.
TypeOK ==
    /\ \A n \in DOMAIN ledger : ledger[n] = Damaged \/ Len(ledger[n].previous_hash) < MaxEntries
    /\ states \in [Manifest -> File]
    /\ objects \in [Content -> File]
    /\ current \in Manifest \cup {Torn}
    /\ moves \subseteq Manifest \X Manifest
    /\ crashes \in 0..MaxCrashes /\ recorded \in Nat

\* No order of the writes of fs_write, rollback and checkout, and no death between
\* two of them, leaves current_root or a receipt naming a state whose manifest or
\* objects are not on disk.
RootsRecoverable ==
    /\ Recoverable(current)
    /\ \A n \in DOMAIN ledger : ledger[n].root \in Manifest => Recoverable(ledger[n].root)

\* With one process the ledger numbers and chains its receipts, whatever dies.
LedgerChained == VerifyLedger

\* A session that began with a boot, lost no process, and holds no checkout and no
\* blocked rollback replays to the current root.
ReplayAgrees ==
    ( /\ Quiet /\ crashes = 0 /\ Entries # <<>> /\ Entries[1].event = "trusted-boot"
      /\ \A i \in DOMAIN Entries : /\ Entries[i].event # "state-checkout"
                                   /\ Entries[i].event = "rollback" => Entries[i].status = "completed" )
    => ReplayVerified

\* The replay of a portable proof follows every recorded move, checkouts included.
PortableReplayAgrees ==
    ( /\ Quiet /\ crashes = 0 /\ Entries # <<>> /\ Entries[1].event = "trusted-boot"
      /\ \A i \in DOMAIN Entries : Entries[i].event = "rollback" => Entries[i].status = "completed" )
    => PortableRoot = current

\* A file torn by a death inside a write is reported by `bog ledger verify' as soon as
\* the history needs it: a receipt, a saved state, or the object of a receipted write.
TornDetected ==
    ( \/ \E n \in DOMAIN ledger : ledger[n] = Damaged \/ (ledger[n].event = "fs-write" /\ objects[ledger[n].object] = "torn")
      \/ \E m \in Manifest : states[m] = "torn" )
    => ~LedgerVerify

\* The ledger of one process tells how the root came about.
HistoryReplays ==
    /\ TypeOK
    /\ ~TornWrites => LedgerChained /\ ReplayAgrees /\ PortableReplayAgrees
    /\ TornDetected

\* A receipt once written is never changed or removed.
Appends == \A n \in DOMAIN ledger : n \in DOMAIN ledger' /\ ledger'[n] = ledger[n]

----------------------------------------------------------------------------
\* What the documents say and the code does not do (README, section 6).

\* "replays all recorded state-root transitions": replay of any undisturbed session.
EverySessionReplays ==
    (Quiet /\ crashes = 0 /\ Entries # <<>> /\ Entries[1].event = "trusted-boot") => ReplayVerified

\* A replay that verifies has a receipt for every move of the root.
ReplayHonest ==
    (Quiet /\ ReplayVerified) =>
        \A move \in moves : move[1] # move[2] =>
            \E i \in DOMAIN Entries : Entries[i].before = move[1] /\ Entries[i].root = move[2]

\* A ledger that verifies holds every receipt that was recorded.
LostReceiptDetected == VerifyLedger => Cardinality(DOMAIN ledger) = recorded

\* The object of a receipted write can be read back.
WrittenObjectsWhole ==
    \A i \in DOMAIN Entries : Entries[i].event = "fs-write" => objects[Entries[i].object] = "whole"
============================================================================

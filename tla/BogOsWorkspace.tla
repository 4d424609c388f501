--------------------------- MODULE BogOsWorkspace ---------------------------
(* The BogOS Lite workspace: src/bogvm/bogos.py.  One project directory is    *)
(* archived, mounted, packaged, installed and run.                            *)
(*                                                                            *)
(* A bog command is a process: it reads state.json when it opens the          *)
(* workspace, does its work on the archive and store directories, writes its  *)
(* receipt under the next free number, then writes its copy of state.json     *)
(* back.  doctor, corrupt-test and app run read state.json again first.  The  *)
(* contents of a directory are a version; whether a store or an archive       *)
(* verifies is a flag that Damage clears (PackageStore has the signatures,    *)
(* BogContainer the hashes).                                                  *)
EXTENDS Naturals, Sequences, FiniteSets

CONSTANTS
    Processes,      \* the commands that may be in progress at once
    Versions,       \* contents of the project directory
    Declares,       \* those whose bog_app.json declares the app
    Commands,       \* the commands issued
    MaxReceipts,    \* bound: receipts listed in state.json
    Crashes,        \* a command may be killed
    Reinit,         \* bog init may be run on the workspace again
    None

\* What the constants are; the MC modules assume it of each instance.
OsAssumption == Declares \subseteq Versions /\ MaxReceipts \in Nat

VARIABLES
    project,        \* the version in the project directory
    archive,        \* archives/: [version, whole], None when there is none
    bundle,         \* bundles/: a version or None
    store,          \* store/: [version, whole] or None
    state,          \* state.json
    receipt,        \* receipts/: the status in the file of an index and action, or None
    proc,           \* each command in progress
    ran             \* history: what every run of the app was run on, and its status

disk == <<project, archive, bundle, store>>
vars == <<project, archive, bundle, store, state, receipt, proc, ran>>

\* init_workspace's state.json.
Empty == [archived |-> None, mount |-> FALSE, package |-> None, app |-> None, receipts |-> <<>>]

Idle == [at |-> "idle", mem |-> Empty, action |-> None, status |-> None, on |-> None]

Init ==
    /\ project \in Versions
    /\ archive = None /\ bundle = None /\ store = None
    /\ state = Empty
    /\ receipt = [path \in (1..(MaxReceipts + Cardinality(Processes))) \X Commands |-> None]
    /\ proc = [p \in Processes |-> Idle]
    /\ ran = {}

Fresh(v) == [version |-> v, whole |-> TRUE]

Holds(d) == d # None /\ d.whole

----------------------------------------------------------------------------
(* The commands.  Each starts from open and leaves its receipt to be written. *)

open(p) ==
    /\ proc[p].at = "idle" /\ Len(state.receipts) < MaxReceipts
    /\ proc' = [proc EXCEPT ![p] = [Idle EXCEPT !.at = "open", !.mem = state]]
    /\ UNCHANGED <<disk, state, receipt, ran>>

Command(p, action) == proc[p].at = "open" /\ action \in Commands

Does(p, action, mem, status) ==
    proc' = [proc EXCEPT ![p] = [Idle EXCEPT !.at = "receipt", !.mem = mem, !.action = action, !.status = status]]

Status(ok) == IF ok THEN "completed" ELSE "blocked"

\* A BogOSError: the command ends with no receipt.
Raises(p) == proc' = [proc EXCEPT ![p] = Idle]

archive_project(p) ==
    /\ Command(p, "archive")
    /\ archive' = Fresh(project)
    /\ Does(p, "archive", [proc[p].mem EXCEPT !.archived = project], "completed")
    /\ UNCHANGED <<project, bundle, store, state, receipt, ran>>

restore_archive(p) ==
    /\ Command(p, "restore")
    /\ IF proc[p].mem.archived = None THEN Raises(p)
       ELSE Does(p, "restore", proc[p].mem, Status(Holds(archive)))
    /\ UNCHANGED <<disk, state, receipt, ran>>

mount_archive(p) ==
    /\ Command(p, "fs-mount")
    /\ LET mem == proc[p].mem
       IN  IF mem.archived = None THEN Raises(p)
           ELSE Does(p, "fs-mount", [mem EXCEPT !.mount = @ \/ Holds(archive)], Status(Holds(archive)))
    /\ UNCHANGED <<disk, state, receipt, ran>>

read_mount(p) ==
    /\ Command(p, "fs-read")
    /\ IF ~ proc[p].mem.mount THEN Raises(p)
       ELSE Does(p, "fs-read", proc[p].mem, Status(Holds(archive)))
    /\ UNCHANGED <<disk, state, receipt, ran>>

package_project(p) ==
    /\ Command(p, "store-package")
    /\ bundle' = project
    /\ Does(p, "store-package", [proc[p].mem EXCEPT !.package = "packaged"], "completed")
    /\ UNCHANGED <<project, archive, store, state, receipt, ran>>

\* install_package records the package and _index_package_apps the app its
\* manifest declares; an app no longer declared keeps its old entry.
Installed(mem, v) == [mem EXCEPT !.package = "installed", !.app = IF v \in Declares THEN v ELSE @]

\* From the project, which is packaged first, or from an existing bundle.
install_package(p, v) ==
    /\ Command(p, "store-install")
    /\ v \in {project, bundle} \ {None}
    /\ bundle' = v
    /\ store' = Fresh(v)
    /\ Does(p, "store-install", Installed(proc[p].mem, v), "completed")
    /\ UNCHANGED <<project, archive, state, receipt, ran>>

verify_package(p) ==
    /\ Command(p, "store-verify")
    /\ Does(p, "store-verify", proc[p].mem, Status(Holds(store)))
    /\ UNCHANGED <<disk, state, receipt, ran>>

doctor(p) ==
    /\ Command(p, "doctor")
    /\ Does(p, "doctor", state, Status(/\ state.archived # None => Holds(archive)
                                       /\ state.package # None => Holds(store)))
    /\ UNCHANGED <<disk, state, receipt, ran>>

\* Damages the installed tree and expects verification to refuse it.
corrupt_test(p) ==
    /\ Command(p, "corrupt-test")
    /\ LET target == state.package # None /\ store # None
       IN  /\ store' = IF target THEN [store EXCEPT !.whole = FALSE] ELSE store
           /\ Does(p, "corrupt-test", state, Status(target))
    /\ UNCHANGED <<project, archive, bundle, state, receipt, ran>>

----------------------------------------------------------------------------
(* run_app: verification and policy, the subprocess, and the checks after it. *)

\* _verify_app_runtime_policy: the hashes the indexed manifest expects are those
\* of the installed files.
policy_None(mem) == Holds(store)

policy(mem) == Holds(store) /\ mem.app = store.version

run_app(p) ==
    /\ Command(p, "app-run")
    /\ IF state.app # None /\ policy(state)
       THEN proc' = [proc EXCEPT ![p] = [@ EXCEPT !.at = "running", !.mem = state, !.action = "app-run", !.on = store]]
       ELSE Does(p, "app-run", state, "blocked")
    /\ UNCHANGED <<disk, state, receipt, ran>>

\* The app exits with a code and has written what its policy allows, or not.
finish(p, well) ==
    /\ proc[p].at = "running"
    /\ LET status == Status(well /\ store = proc[p].on /\ Holds(store))
       IN  /\ Does(p, "app-run", proc[p].mem, status)
           /\ ran' = ran \cup {[indexed |-> proc[p].mem.app, on |-> proc[p].on, after |-> store, status |-> status]}
    /\ UNCHANGED <<disk, state, receipt>>

----------------------------------------------------------------------------
(* _record_receipt: the file named by the number of receipts the copy of the  *)
(* state lists, then the state.                                               *)

Index(mem) == Len(mem.receipts) + 1

write_receipt(p) ==
    /\ proc[p].at = "receipt"
    /\ receipt' = [receipt EXCEPT ![<<Index(proc[p].mem), proc[p].action>>] = proc[p].status]
    /\ proc' = [proc EXCEPT ![p].at = "state"]
    /\ UNCHANGED <<disk, state, ran>>

write_state(p) ==
    /\ proc[p].at = "state"
    /\ state' = [proc[p].mem EXCEPT !.receipts =
                     Append(@, [index |-> Index(proc[p].mem), action |-> proc[p].action, status |-> proc[p].status])]
    /\ proc' = [proc EXCEPT ![p] = Idle]
    /\ UNCHANGED <<disk, receipt, ran>>

----------------------------------------------------------------------------
\* bog init again: the directories stay, state.json starts over.
init_workspace ==
    /\ Reinit
    /\ state' = Empty
    /\ UNCHANGED <<disk, receipt, proc, ran>>

\* A command is killed; in the middle of archive, after the old one was removed.
crash(p) ==
    /\ Crashes /\ proc[p].at # "idle"
    /\ Raises(p)
    /\ \/ UNCHANGED archive
       \/ Command(p, "archive") /\ archive' = None
    /\ UNCHANGED <<project, bundle, store, state, receipt, ran>>

edit(v) ==
    /\ project' = v
    /\ UNCHANGED <<archive, bundle, store, state, receipt, proc, ran>>

\* Something outside bog changes the archive or the installed tree.
damage ==
    /\ \/ Holds(archive) /\ archive' = [archive EXCEPT !.whole = FALSE] /\ UNCHANGED store
       \/ Holds(store) /\ store' = [store EXCEPT !.whole = FALSE] /\ UNCHANGED archive
    /\ UNCHANGED <<project, bundle, state, receipt, proc, ran>>

Next ==
    \/ \E p \in Processes :
          \/ open(p) \/ archive_project(p) \/ restore_archive(p) \/ mount_archive(p) \/ read_mount(p)
          \/ package_project(p) \/ verify_package(p) \/ doctor(p) \/ corrupt_test(p) \/ run_app(p)
          \/ \E v \in Versions : install_package(p, v)
          \/ \E well \in BOOLEAN : finish(p, well)
          \/ write_receipt(p) \/ write_state(p) \/ crash(p)
    \/ init_workspace \/ damage
    \/ \E v \in Versions \ {project} : edit(v)

Spec == Init /\ [][Next]_vars

----------------------------------------------------------------------------
\* The state has the shapes the code gives it; a mount in state.json names an
\* archive that state.json lists, and an app a package it lists.
TypeOK ==
    /\ archive = None \/ archive \in [version : Versions, whole : BOOLEAN]
    /\ store = None \/ store \in [version : Versions, whole : BOOLEAN]
    /\ state.archived \in Versions \cup {None}
    /\ state.app \in Declares \cup {None}
    /\ state.package \in {None, "packaged", "installed"}
    /\ state.mount => state.archived # None
    /\ state.app # None => state.package # None
    /\ Len(state.receipts) <= MaxReceipts

\* Receipt n of state.json is numbered n, and its file is there and records the
\* status listed, after crashes between the two writes and after bog init has
\* restarted the numbering over the old files (_record_receipt).
ListedReceiptsTrue ==
    \A n \in DOMAIN state.receipts :
        LET r == state.receipts[n] IN r.index = n /\ receipt[<<n, r.action>>] = r.status

\* Every run of the app was of an installed package that verified, under the
\* manifest of that very version, whatever was reinstalled, damaged or forgotten
\* in between; and no run during which the package changed is completed (run_app).
RanAsIndexed ==
    \A r \in ran :
        /\ Holds(r.on) /\ r.on.version = r.indexed
        /\ r.status = "completed" => r.after = r.on

\* docs/bogos_lite.md:56: state.json records the archive and the package.  When
\* no command is in progress, what is on disk is what it records.
StateRecordsDisk ==
    (\A p \in Processes : proc[p].at = "idle") =>
        /\ state.archived = IF archive = None THEN None ELSE archive.version
        /\ store # None => state.package # None
        /\ (store # None /\ store.version \in Declares) => state.app = store.version

-----------------------------------------------------------------------------
\* What the documents say and the code does not do (README, section 6).

\* docs/bogos_lite.md:73: doctor checks archives and installed packages.  It is
\* blocked only when an archive or an installed package is damaged or missing.
DoctorBlocksOnDamage ==
    \A p \in Processes :
        (proc[p].action = "doctor" /\ proc[p].status = "blocked") =>
            (archive # None /\ ~ archive.whole) \/ (store # None /\ ~ store.whole)
=============================================================================

------------------------------- MODULE BogCell -------------------------------
(* BogBuild and BogCell: src/bogvm/bogcell.py, and the build, run_cell and    *)
(* pilot commands of src/bogvm/hypergenesis.py.                               *)
(*                                                                            *)
(* A source file is compiled to a program and to the capabilities its lines   *)
(* name.  The package made of them is installed (PackageStore has the store), *)
(* verified once when the cell starts, and executed one instruction at a      *)
(* time.  Genesis is its file map and the sequence of its events here;        *)
(* GenesisLedger has its crashes.  One file, environment name, dependency and *)
(* register of a program are kept; a line that no form matches is "bad".      *)
EXTENDS Naturals, Sequences, FiniteSets, SequencesExt

CONSTANTS
    Outputs,        \* the paths a program may write
    Unsafe,         \* those _safe_path refuses (absolute, or with "..")
    MaxLines,       \* bound: lines of a source file
    MaxRuns,        \* bound: runs of the cell
    MaxPlans,       \* bound: plans of the pilot
    None

\* What the constants are; the MC modules assume it of each instance.
CellAssumption == Unsafe \subseteq Outputs /\ MaxLines \in Nat /\ MaxRuns \in Nat /\ MaxPlans \in Nat

VARIABLES
    source,         \* the lines of the source file, fixed
    project,        \* the build directory, None before a build
    installed,      \* the installed package, None before installation
    intact,         \* its files are the ones that were signed
    dependency,     \* the dependency is installed and verifies
    files,          \* Genesis: path |-> contents or None
    ledger,         \* the events Genesis recorded
    cell            \* the run in progress or the last one

vars == <<source, project, installed, intact, dependency, files, ledger, cell>>

----------------------------------------------------------------------------
(* compile_source *)

Line ==
    [op : {"read", "env", "dependency"}]
        \cup [op : {"write"}, path : Outputs, value : {"literal", "register"}]
        \cup [op : {"exit"}, code : {0, 1}] \cup [op : {"bad"}]

Exit(code) == [op |-> "exit", code |-> code]

\* A bad line raises: nothing is written.  A program always ends in EXIT.
Compiles(lines) == \A i \in DOMAIN lines : lines[i].op # "bad"

Instructions(lines) == IF lines # <<>> /\ Last(lines).op = "exit" THEN lines ELSE Append(lines, Exit(0))

\* What a line asks for: the paths it writes, or the kind of thing it reads.
Asks(line) == CASE line.op = "write" -> {line.path} [] line.op = "exit" -> {} [] OTHER -> {line.op}

capabilities(lines) == UNION {Asks(lines[i]) : i \in DOMAIN lines}

----------------------------------------------------------------------------
Idle == [pc |-> 0, register |-> None, before |-> files, denied |-> FALSE, status |-> "idle", runs |-> 0]

Init ==
    /\ source \in BoundedSeq(Line, MaxLines)
    /\ project = None
    /\ installed = None
    /\ intact = TRUE
    /\ dependency \in BOOLEAN
    /\ files = [p \in Outputs |-> None]
    /\ ledger = <<>>
    /\ cell = Idle

\* build: compile, copy the files the program reads, write the manifest with the
\* capabilities of the receipt and no environment, record the event.
build(present) ==
    /\ project = None
    /\ Compiles(source)
    /\ project' = [program |-> Instructions(source), receipt |-> Instructions(source),
                   granted |-> capabilities(source), environment |-> FALSE, file |-> present]
    /\ ledger' = Append(ledger, [event |-> "bog-build"])
    /\ UNCHANGED <<source, installed, intact, dependency, files, cell>>

\* The project is a directory its author can edit before packaging it: give the
\* environment a value, withdraw a capability, or change the program.
edit ==
    /\ project # None /\ installed = None
    /\ \/ project' = [project EXCEPT !.environment = TRUE]
       \/ \E c \in project.granted : project' = [project EXCEPT !.granted = @ \ {c}]
       \/ project' = [project EXCEPT !.program = <<Exit(0)>>]
    /\ UNCHANGED <<source, installed, intact, dependency, files, ledger, cell>>

\* _index_package_apps: the capabilities are the manifest's, not the receipt's.
install ==
    /\ project # None /\ installed = None
    /\ installed' = project
    /\ UNCHANGED <<source, project, intact, dependency, files, ledger, cell>>

\* Another process changes an installed file, or the dependency, at any moment.
damage ==
    /\ installed # None
    /\ \/ intact /\ intact' = FALSE /\ UNCHANGED dependency
       \/ dependency /\ dependency' = FALSE /\ UNCHANGED intact
    /\ UNCHANGED <<source, project, installed, files, ledger, cell>>

----------------------------------------------------------------------------
(* BogCell.run: the package and the build receipt are verified once, here.    *)

Verified == intact /\ installed.receipt = installed.program

start ==
    /\ installed # None
    /\ cell.status # "running" /\ cell.runs < MaxRuns
    /\ cell' = [Idle EXCEPT !.pc = 1, !.runs = cell.runs + 1,
                            !.status = IF Verified THEN "running" ELSE "blocked"]
    /\ ledger' = IF Verified THEN ledger ELSE Append(ledger, [event |-> "bogcell-run", status |-> "blocked"])
    /\ UNCHANGED <<source, project, installed, intact, dependency, files>>

Contents == IF intact THEN "file" ELSE "changed file"

\* _execute: whether an instruction is granted and can be carried out, and the
\* value it leaves in the register; None leaves the register alone.
Granted(i) == Asks(i) \subseteq installed.granted

Available(i) ==
    CASE i.op = "read" -> installed.file
      [] i.op = "dependency" -> dependency
      [] OTHER -> TRUE

Value(i) ==
    CASE i.op = "read" -> Contents
      [] i.op = "dependency" -> "receipt"
      [] i.op = "env" -> IF installed.environment THEN "environment" ELSE None
      [] OTHER -> None

Data(i) ==
    CASE i.value = "literal" -> "literal"
      [] cell.register = None -> "empty"
      [] OTHER -> cell.register

\* run_cell records the process receipt of a run that ends.
Ended(status, events) ==
    /\ cell' = [cell EXCEPT !.status = status]
    /\ ledger' = events \o <<[event |-> "bogcell-run", status |-> status]>>

Instruction == installed.program[cell.pc]

Running(op) == cell.status = "running" /\ Instruction.op = op

deny ==
    /\ cell.status = "running"
    /\ ~ (Granted(Instruction) /\ Available(Instruction))
    /\ cell' = [cell EXCEPT !.status = "blocked", !.denied = ~ Granted(Instruction)]
    /\ ledger' = Append(ledger, [event |-> "bogcell-run", status |-> "blocked"])
    /\ UNCHANGED <<source, project, installed, intact, dependency, files>>

load_Reset ==
    /\ cell.status = "running" /\ Instruction.op \in {"read", "env", "dependency"}
    /\ Granted(Instruction) /\ Available(Instruction)
    /\ cell' = [cell EXCEPT !.pc = @ + 1,
                            !.register = Value(Instruction)]
    /\ UNCHANGED <<source, project, installed, intact, dependency, files, ledger>>

load ==
    /\ cell.status = "running" /\ Instruction.op \in {"read", "env", "dependency"}
    /\ Granted(Instruction) /\ Available(Instruction)
    /\ cell' = [cell EXCEPT !.pc = @ + 1,
                            !.register = IF Value(Instruction) = None THEN @ ELSE Value(Instruction)]
    /\ UNCHANGED <<source, project, installed, intact, dependency, files, ledger>>

\* WRITE: fs_write changes the files and records its own event.
write ==
    /\ Running("write") /\ Granted(Instruction)
    /\ Instruction.path \notin Unsafe
    /\ files' = [files EXCEPT ![Instruction.path] = Data(Instruction)]
    /\ ledger' = Append(ledger, [event |-> "fs-write", path |-> Instruction.path, run |-> cell.runs])
    /\ cell' = [cell EXCEPT !.pc = @ + 1]
    /\ UNCHANGED <<source, project, installed, intact, dependency>>

\* _safe_path raises GenesisError: the command ends, and records nothing.
raise ==
    /\ Running("write") /\ Granted(Instruction)
    /\ Instruction.path \in Unsafe
    /\ cell' = [cell EXCEPT !.status = "raised"]
    /\ UNCHANGED <<source, project, installed, intact, dependency, files, ledger>>

exit ==
    /\ Running("exit")
    /\ Ended(IF Instruction.code = 0 THEN "completed" ELSE "blocked", ledger)
    /\ UNCHANGED <<source, project, installed, intact, dependency, files>>

\* pilot: each proposal of the plan is carried out or, when it raises, blocked;
\* the plan's event follows the events of the proposals carried out.
pilot(plan) ==
    /\ cell.status # "running"
    /\ Cardinality({i \in DOMAIN ledger : ledger[i].event = "bog-pilot"}) < MaxPlans
    /\ files' = [p \in Outputs |-> IF p \in plan \ Unsafe THEN "pilot" ELSE files[p]]
    /\ ledger' = ledger \o [i \in 1..Cardinality(plan \ Unsafe) |-> [event |-> "fs-write", path |-> SetToSeq(plan \ Unsafe)[i], run |-> 0]]
                        \o <<[event |-> "bog-pilot", blocked |-> plan \cap Unsafe]>>
    /\ cell' = [Idle EXCEPT !.before = files', !.runs = cell.runs]
    /\ UNCHANGED <<source, project, installed, intact, dependency>>

Next ==
    \/ \E present \in BOOLEAN : build(present)
    \/ edit \/ install \/ damage
    \/ start \/ deny \/ load \/ write \/ raise \/ exit
    \/ \E plan \in SUBSET Outputs : pilot(plan)

Spec == Init /\ [][Next]_vars

----------------------------------------------------------------------------
Package == [program : Seq(Line), receipt : Seq(Line), granted : SUBSET (Outputs \cup {"read", "env", "dependency"}),
            environment : BOOLEAN, file : BOOLEAN]

\* The state has the shapes the code gives it, and a running cell is always at an
\* instruction of its program: no program runs off its end, since EXIT closes it.
TypeOK ==
    /\ project = None \/ project \in Package
    /\ installed = None \/ installed \in Package
    /\ \A p \in Outputs : files[p] \in {None, "literal", "empty", "file", "changed file", "receipt", "environment", "pilot"}
    /\ cell.status \in {"idle", "running", "blocked", "completed", "raised"}
    /\ cell.status = "running" => cell.pc \in 1..Len(installed.program)

\* The lines of the source a run that completed has carried out.
Carried == {i \in DOMAIN source : \A j \in 1..(i - 1) : source[j].op # "exit"}

\* What the source says the register holds at line k: the value of the last line
\* before it that produces one.
Register(k) ==
    LET producing == {i \in Carried : i < k /\ (source[i].op \in {"read", "dependency"}
                                                  \/ (source[i].op = "env" /\ installed.environment))}
        last == CHOOSE i \in producing : \A j \in producing : j <= i
    IN  CASE producing = {} -> "empty"
          [] source[last].op = "read" -> "file"
          [] source[last].op = "dependency" -> "receipt"
          [] OTHER -> "environment"

\* A run of BogCell that completes with the package intact leaves every path as
\* the source file read top to bottom says: its last write's data, and what it was
\* before the run where the source writes nothing (compile_source and run agree).
CompletedMatchesSource ==
    (cell.status = "completed" /\ intact) =>
        \A p \in Outputs :
            LET writes == {i \in Carried : source[i].op = "write" /\ source[i].path = p}
                last   == CHOOSE i \in writes : \A j \in writes : j <= i
            IN  files[p] = CASE writes = {} -> cell.before[p]
                             [] source[last].value = "literal" -> "literal"
                             [] OTHER -> Register(last)

\* A package whose manifest is the one build wrote is never refused for a
\* capability: the capabilities compile_source collects are all the program asks.
BuiltNeverDenied ==
    cell.denied => \/ installed.program # Instructions(source)
                   \/ installed.granted # capabilities(source)

\* Whatever a run does and however it ends, it has changed no path its manifest
\* does not list (_execute's WRITE).
NothingBeyondManifest ==
    cell.status \in {"running", "blocked", "completed", "raised"} =>
        \A p \in Outputs : files[p] # cell.before[p] => p \in installed.granted

\* A run that ended, completed or blocked at any instruction, has its process
\* receipt in the ledger, with that status, after the events of all its writes
\* (run_cell); a command that raised is the one exception.
WritesReceipted ==
    cell.status \in {"blocked", "completed"} =>
        /\ Last(ledger) = [event |-> "bogcell-run", status |-> cell.status]
        /\ \A p \in Outputs : files[p] # cell.before[p] =>
               \E i \in DOMAIN ledger : ledger[i] = [event |-> "fs-write", path |-> p, run |-> cell.runs]

-----------------------------------------------------------------------------
\* What the documents say and the code does not do (README, section 6).

\* README.md:5: bytes are accepted only after SHA-256 verification.  A file read
\* by a run that completed is the file that was verified.
CompletedReadsVerified == cell.status = "completed" => \A p \in Outputs : files[p] # "changed file"
=============================================================================

----------------------------- MODULE MCGenesis -----------------------------
(***************************************************************************)
(* What keeps receipts in a workspace: the Genesis ledger and state, the   *)
(* registry and its lock, the kernel's state file, BogBoot, BogMesh and    *)
(* the Swarm.  They share no files; a behaviour is a scenario of one of    *)
(* them, and the variables of the others are Off.                          *)
(***************************************************************************)
EXTENDS Integers, Sequences, TLC

CONSTANTS Scenarios, None, Torn, Absent, Off,
          Alone, Pair,          \* a single process; processes at work together
          StatePaths, StateContents,      \* the files of a Genesis state
          MaxEntries, MaxTornEntries, MaxPairEntries, MaxDeaths,    \* bounds of the ledger
          MaxReceipts,          \* bound of the kernel's commands
          PackageKeys, PackageTrees, SigningKeys, TrustedKeys, OwnKey,    \* the registry
          MaxEvents,            \* bound of its operations
          Devices, MemoryRanges,          \* of a machine's manifest
          MaxTick, MaxCalls,    \* bounds: its clock, its boots and claims
          MeshPeers, OwnPeer, Values, Contexts, Namespaces, Authorities, Supports,    \* claims of the mesh
          MaxMeshClaims,        \* bound of its claim files
          SwarmCosts, SwarmScores, SwarmCells, SwarmBudget,    \* proposals and budget of the Swarm
          MaxCandidates         \* bound of its proposals

VARIABLES scenario,
          ledger, states, objects, current, proc, crashes, moves, recorded,
          kernel_state, receipts, processes, log, commands, issued, emitted, kernel_crashes,
          registry, lock, installed, entries, lost,
          manifest, hardware, claim_files, pending, boot_recorded, boots, boot_crashes,
          trusted, claims, mesh_state,
          candidates, receipt, written

ledgerVars == <<ledger, states, objects, current, proc, crashes, moves, recorded>>
kernelVars == <<kernel_state, receipts, processes, log, commands, issued, emitted, kernel_crashes>>
registryVars == <<registry, lock, installed, entries, lost>>
bootVars == <<manifest, hardware, claim_files, pending, boot_recorded, boots, boot_crashes>>
meshVars == <<trusted, claims, mesh_state>>
swarmVars == <<candidates, receipt, written>>
vars == <<scenario, ledgerVars, kernelVars, registryVars, bootVars, meshVars, swarmVars>>

\* Contents are interchangeable: no operation compares one with another.
Interchangeable == Permutations(StateContents)

\* Memory ranges that touch, that overlap, and one that is empty.
MemoryRange(start, size) == [start |-> start, size |-> size]
TouchingRanges == {MemoryRange(0, 1), MemoryRange(1, 2), MemoryRange(2, 1), MemoryRange(5, 0)}

-----------------------------------------------------------------------------
Commands == {"boot", "fs_write", "fs_read", "rollback", "state_checkout", "replay_session", "note"}

(* One process that may die between two writes, one that may die inside a *)
(* write, and two processes at once.                                      *)
Ledger == INSTANCE GenesisLedgerProofs WITH
            Process <- {Alone}, Path <- StatePaths, Content <- StateContents, Operations <- Commands,
            TornWrites <- FALSE, MaxEntries <- MaxEntries, MaxCrashes <- MaxDeaths
LedgerTorn == INSTANCE GenesisLedgerProofs WITH
            Process <- {Alone}, Path <- StatePaths, Content <- StateContents, Operations <- Commands,
            TornWrites <- TRUE, MaxEntries <- MaxTornEntries, MaxCrashes <- MaxDeaths
LedgerTwo == INSTANCE GenesisLedgerProofs WITH
            Process <- Pair, Path <- StatePaths, Content <- StateContents, Operations <- {"fs_write", "state_checkout"},
            TornWrites <- FALSE, MaxEntries <- MaxPairEntries, MaxCrashes <- 0

KernelOperations == {"boot", "status", "run", "run-brokered", "syscall-read",
                     "syscall-write", "syscall-unknown", "replay"}
Kernel == INSTANCE KernelState WITH
            Command <- {Alone}, Operation <- KernelOperations, MaxCrashes <- MaxDeaths,
            state <- kernel_state, crashes <- kernel_crashes

Registry == INSTANCE GenesisRegistry WITH
            Keys <- PackageKeys, Trees <- PackageTrees, Signers <- SigningKeys,
            Trusted <- TrustedKeys, Own <- OwnKey, ledger <- entries

Boot == INSTANCE BogBoot WITH
            MaxCrashes <- MaxDeaths, Ranges <- MemoryRanges, state <- hardware,
            files <- claim_files, recorded <- boot_recorded, crashes <- boot_crashes

Mesh == INSTANCE BogMesh WITH
            Peers <- MeshPeers, Self <- OwnPeer, MaxClaims <- MaxMeshClaims, state <- mesh_state

Swarm == INSTANCE BogSwarm WITH
            Costs <- SwarmCosts, Scores <- SwarmScores, Cells <- SwarmCells, Budget <- SwarmBudget

ASSUME LedgersAssumption == Ledger!LedgerAssumption /\ LedgerTorn!LedgerAssumption /\ LedgerTwo!LedgerAssumption
ASSUME FilesAssumption == Kernel!KernelAssumption /\ Registry!RegistryAssumption /\ Mesh!MeshAssumption
ASSUME RulesAssumption == Boot!BootAssumption /\ Swarm!SwarmAssumption

-----------------------------------------------------------------------------
LedgerOff == /\ ledger = Off /\ states = Off /\ objects = Off /\ current = Off
             /\ proc = Off /\ crashes = Off /\ moves = Off /\ recorded = Off
KernelOff == /\ kernel_state = Off /\ receipts = Off /\ processes = Off /\ log = Off
             /\ commands = Off /\ issued = Off /\ emitted = Off /\ kernel_crashes = Off
RegistryOff == registry = Off /\ lock = Off /\ installed = Off /\ entries = Off /\ lost = Off
BootOff == /\ manifest = Off /\ hardware = Off /\ claim_files = Off /\ pending = Off
           /\ boot_recorded = Off /\ boots = Off /\ boot_crashes = Off
MeshOff == trusted = Off /\ claims = Off /\ mesh_state = Off
SwarmOff == candidates = Off /\ receipt = Off /\ written = Off

Init ==
  /\ scenario \in Scenarios
  /\ \/ scenario = "ledger" /\ Ledger!Init
     \/ scenario = "ledger_torn" /\ LedgerTorn!Init
     \/ scenario = "ledger_two" /\ LedgerTwo!Init
     \/ scenario \notin {"ledger", "ledger_torn", "ledger_two"} /\ LedgerOff
  /\ IF scenario = "kernel" THEN Kernel!Init ELSE KernelOff
  /\ IF scenario = "registry" THEN Registry!Init ELSE RegistryOff
  /\ IF scenario = "boot" THEN Boot!Init ELSE BootOff
  /\ IF scenario = "mesh" THEN Mesh!Init ELSE MeshOff
  /\ IF scenario = "swarm" THEN Swarm!Init ELSE SwarmOff

LedgerStep ==
  /\ \/ scenario = "ledger" /\ Ledger!Next
     \/ scenario = "ledger_torn" /\ LedgerTorn!Next
     \/ scenario = "ledger_two" /\ LedgerTwo!Next
  /\ UNCHANGED <<scenario, kernelVars, registryVars, bootVars, meshVars, swarmVars>>
KernelStep ==
  /\ scenario = "kernel" /\ Kernel!Next
  /\ UNCHANGED <<scenario, ledgerVars, registryVars, bootVars, meshVars, swarmVars>>
RegistryStep ==
  /\ scenario = "registry" /\ Registry!Next
  /\ UNCHANGED <<scenario, ledgerVars, kernelVars, bootVars, meshVars, swarmVars>>
BootStep ==
  /\ scenario = "boot" /\ Boot!Next
  /\ UNCHANGED <<scenario, ledgerVars, kernelVars, registryVars, meshVars, swarmVars>>
MeshStep ==
  /\ scenario = "mesh" /\ Mesh!Next
  /\ UNCHANGED <<scenario, ledgerVars, kernelVars, registryVars, bootVars, swarmVars>>
SwarmStep ==
  /\ scenario = "swarm" /\ Swarm!Next
  /\ UNCHANGED <<scenario, ledgerVars, kernelVars, registryVars, bootVars, meshVars>>

Next == LedgerStep \/ KernelStep \/ RegistryStep \/ BootStep \/ MeshStep \/ SwarmStep

Spec == Init /\ [][Next]_vars

-----------------------------------------------------------------------------
\* No order of the writes of fs_write, rollback and checkout, by one process or two, and
\* no death between them leaves a root without its manifest and objects.
RootsRecoverable ==
  /\ scenario = "ledger" => Ledger!RootsRecoverable
  /\ scenario = "ledger_two" => LedgerTwo!RootsRecoverable

\* The ledger tells how the root came about: its receipts are numbered and chained
\* whatever dies (record), an undisturbed session and a portable proof replay to the
\* current root (replay_session), and a file torn by a death inside a write is reported
\* as soon as the history needs it (`bog ledger verify').
HistoryReplays ==
  /\ scenario = "ledger" => Ledger!HistoryReplays
  /\ scenario = "ledger_torn" => LedgerTorn!HistoryReplays

\* PROJECT_STATUS.md: "an append-only local proof ledger".  With two processes, a ledger
\* that verifies holds every receipt that was recorded.
LostReceiptDetected == scenario = "ledger_two" => LedgerTwo!LostReceiptDetected

\* state.json, the receipts, the process records and the system call log agree: a listed
\* receipt is the file its own command wrote although a death may leave unlisted files,
\* and without deaths nothing is missing (_record_receipt, _record_syscall).
KernelFilesAgree ==
  scenario = "kernel" => Kernel!KernelFilesAgree

\* Whatever mirrors, locks and damage came between, an install that completed installed
\* the tree a lock pinned, from a registry a trusted key signed (install).
InstalledAsPinned == scenario = "registry" => Registry!TypeOK /\ Registry!InstalledAsPinned

\* The memory ranges of a machine that booted are disjoint in whatever order they were
\* listed (_validate_manifest), admitted events come with ever later ticks and are counted
\* once (irq_claim), and verify, which compares numbers only, holds after a first boot
\* without crashes, and after a crash only if every claim has its file.
HardwareVerifies ==
  scenario = "boot" => /\ Boot!TypeOK /\ Boot!BootedRangesApart /\ Boot!AdmittedInOrder
                       /\ Boot!FirstBootVerifies /\ Boot!VerifiedClaimsFiled

\* A value is selected exactly when it beats every other candidate of its context in
\* authority, or in support among the highest (resolve), and only if a trusted peer
\* claimed it (_verify_claim).
SelectionFollowsRules ==
  scenario = "mesh" => Mesh!TypeOK /\ Mesh!SelectedBeatsAll /\ Mesh!SelectedWasClaimed

\* The candidate Genesis admitted is beaten by no eligible one, those that passed were
\* affordable together (tournament), and the receipt replays to its selection (replay).
AdmissionFollowsRules ==
  scenario = "swarm" => /\ Swarm!TypeOK /\ Swarm!AdmittedIsBest
                        /\ Swarm!PassedWithinBudget /\ Swarm!ReceiptReplays

\* No step changes or removes a receipt of a single process's ledger (record), changes the
\* store while lock and registry differ (verify_lock), or takes the selection from a value
\* when one more trusted claim for it arrives (resolve).
StepsRespectRecords ==
  [][ /\ scenario \in {"ledger", "ledger_torn"} => Ledger!Appends
      /\ scenario = "registry" => Registry!LockCurrent
      /\ scenario = "mesh" => Mesh!SupportKeeps ]_vars
============================================================================

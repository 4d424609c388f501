----------------------------- MODULE MCPackages -----------------------------
(***************************************************************************)
(* Packages: the container a file is packed into, the signed store, the    *)
(* cells that are built, installed and run from it, and the workspace      *)
(* whose commands archive, install and run a project.  Each model has its  *)
(* own view of the store; a behaviour is a scenario of one of them, and    *)
(* the variables of the others are Off.                                    *)
(***************************************************************************)
EXTENDS Integers, Sequences

CONSTANTS Scenarios, None, Torn, Failed, Off, one, two

VARIABLES scenario,
          bundle, packages, installed, index, proc, built, faults,
          source, project, cell_package, intact, dependency, files, ledger, cell,
          os_project, archive, os_bundle, store, state, receipt, os_proc, ran,
          phase, data, tournament, container, stream, decoded, damaged

storeVars == <<bundle, packages, installed, index, proc, built, faults>>
cellVars == <<source, project, cell_package, intact, dependency, files, ledger, cell>>
osVars == <<os_project, archive, os_bundle, store, state, receipt, os_proc, ran>>
codecVars == <<phase, data, tournament, container, stream, decoded, damaged>>
vars == <<scenario, storeVars, cellVars, osVars, codecVars>>

-----------------------------------------------------------------------------
(* One installer with crashes and damage; two installers at once. *)
Store == INSTANCE PackageStore WITH
            Keys <- {"app", "lib"}, Trees <- {"t1", "t2"}, Signers <- {"ours", "theirs"}, Trusted <- {"ours"},
            Installers <- {one}, MaxPackaged <- 2, MaxFaults <- 2, Cycles <- TRUE
StoreTwo == INSTANCE PackageStore WITH
            Keys <- {"app", "lib"}, Trees <- {"t1", "t2"}, Signers <- {"ours"}, Trusted <- {"ours"},
            Installers <- {one, two}, MaxPackaged <- 2, MaxFaults <- 0, Cycles <- TRUE

(* All sources of up to three lines over a safe and an unsafe path; of up to two lines *)
(* with the pilot writing between them.                                                 *)
Cells == INSTANCE BogCell WITH
            Outputs <- {one, two}, Unsafe <- {two}, MaxLines <- 3, MaxRuns <- 1, MaxPlans <- 0,
            installed <- cell_package
CellsPilot == INSTANCE BogCell WITH
            Outputs <- {one, two}, Unsafe <- {two}, MaxLines <- 2, MaxRuns <- 1, MaxPlans <- 1,
            installed <- cell_package

(* Commands that die and workspaces initialised again; every command, one after the *)
(* other; installing and running at once.                                           *)
Os == INSTANCE BogOsWorkspace WITH
            Processes <- {one}, Versions <- {"v1", "v2"}, Declares <- {"v1"},
            Commands <- {"archive", "fs-mount", "store-install", "app-run"},
            MaxReceipts <- 2, Crashes <- TRUE, Reinit <- TRUE,
            project <- os_project, bundle <- os_bundle, proc <- os_proc
OsQuiet == INSTANCE BogOsWorkspace WITH
            Processes <- {one}, Versions <- {"v1", "v2"}, Declares <- {"v1"},
            Commands <- {"archive", "restore", "fs-mount", "fs-read", "store-package", "store-install",
                         "store-verify", "doctor", "corrupt-test", "app-run"},
            MaxReceipts <- 4, Crashes <- FALSE, Reinit <- FALSE,
            project <- os_project, bundle <- os_bundle, proc <- os_proc
OsPair == INSTANCE BogOsWorkspace WITH
            Processes <- {one, two}, Versions <- {"v1", "v2"}, Declares <- {"v1"},
            Commands <- {"store-install", "app-run"}, MaxReceipts <- 2, Crashes <- FALSE, Reinit <- FALSE,
            project <- os_project, bundle <- os_bundle, proc <- os_proc

(* Files that exercise runs, ramps, wrap-around, ties and a short last chunk. *)
Codec == INSTANCE BogContainer WITH
            Inputs <- {<<>>, <<0>>, <<200>>, <<7, 7>>, <<255, 0, 1>>, <<7, 7, 7, 7, 7>>, <<3, 9, 3, 9, 3>>,
                       <<0, 255, 0, 255>>, <<16, 48, 80, 112, 1>>, <<1, 200, 30, 4, 250, 77>>, <<5, 5, 9, 5, 5, 5>>},
            CANDIDATE_CHUNK_SIZES <- <<2, 5>>, FaultBytes <- {0, 1, 128, 255},
            Counts <- {0, 1, 127, 128, 300, 16383, 16384, 2097152}

ASSUME Store!StoreAssumption /\ StoreTwo!StoreAssumption /\ Cells!CellAssumption /\ CellsPilot!CellAssumption
ASSUME Os!OsAssumption /\ OsQuiet!OsAssumption /\ OsPair!OsAssumption

-----------------------------------------------------------------------------
StoreOff == /\ bundle = Off /\ packages = Off /\ installed = Off /\ index = Off
            /\ proc = Off /\ built = Off /\ faults = Off
CellOff == /\ source = Off /\ project = Off /\ cell_package = Off /\ intact = Off
           /\ dependency = Off /\ files = Off /\ ledger = Off /\ cell = Off
OsOff == /\ os_project = Off /\ archive = Off /\ os_bundle = Off /\ store = Off
         /\ state = Off /\ receipt = Off /\ os_proc = Off /\ ran = Off
CodecOff == /\ phase = Off /\ data = Off /\ tournament = Off /\ container = Off
            /\ stream = Off /\ decoded = Off /\ damaged = Off

Init ==
  /\ scenario \in Scenarios
  /\ CASE scenario = "store" -> Store!Init [] scenario = "store_two" -> StoreTwo!Init [] OTHER -> StoreOff
  /\ CASE scenario = "cells" -> Cells!Init [] scenario = "cells_pilot" -> CellsPilot!Init [] OTHER -> CellOff
  /\ CASE scenario = "os" -> Os!Init [] scenario = "os_quiet" -> OsQuiet!Init
       [] scenario = "os_pair" -> OsPair!Init [] OTHER -> OsOff
  /\ IF scenario = "codec" THEN Codec!Init ELSE CodecOff

StoreStep == /\ \/ scenario = "store" /\ Store!Next
                \/ scenario = "store_two" /\ StoreTwo!Next
             /\ UNCHANGED <<scenario, cellVars, osVars, codecVars>>
CellStep == /\ \/ scenario = "cells" /\ Cells!Next
               \/ scenario = "cells_pilot" /\ CellsPilot!Next
            /\ UNCHANGED <<scenario, storeVars, osVars, codecVars>>
OsStep == /\ \/ scenario = "os" /\ Os!Next
             \/ scenario = "os_quiet" /\ OsQuiet!Next
             \/ scenario = "os_pair" /\ OsPair!Next
          /\ UNCHANGED <<scenario, storeVars, cellVars, codecVars>>
CodecStep == scenario = "codec" /\ Codec!Next /\ UNCHANGED <<scenario, storeVars, cellVars, osVars>>

Next == StoreStep \/ CellStep \/ OsStep \/ CodecStep

Spec == Init /\ [][Next]_vars

-----------------------------------------------------------------------------
\* A package that verifies, and every package it needs, is installed as a trusted key
\* signed it, after crashes, damage and two installs at once (verify_installed_package);
\* an install that ran alone and reported success left its package verifiable.
InstallsVerify ==
  CASE scenario = "store" -> Store!TypeOK /\ Store!VerifiedWasSigned /\ Store!CompletedVerifies
    [] scenario = "store_two" -> StoreTwo!VerifiedWasSigned
    [] OTHER -> TRUE

\* No install that runs alone takes another package's entry out of the index.
ListedStays == [][scenario = "store" => Store!ListingStays]_vars

\* A run that completes with the package intact leaves every path as the source read top
\* to bottom says (compile_source and run agree), and is never denied what its own lines
\* ask for; however a run ends, it has changed no path its manifest does not list, and its
\* receipt stands in the ledger after the events of all its writes (_execute, run_cell).
CellsKeepToSource ==
  CASE scenario = "cells" -> /\ Cells!TypeOK /\ Cells!CompletedMatchesSource /\ Cells!BuiltNeverDenied
                             /\ Cells!NothingBeyondManifest /\ Cells!WritesReceipted
    [] scenario = "cells_pilot" -> /\ CellsPilot!CompletedMatchesSource
                                   /\ CellsPilot!NothingBeyondManifest /\ CellsPilot!WritesReceipted
    [] OTHER -> TRUE

\* Receipt n of state.json is numbered n and its file has the status listed, after crashes
\* and a second bog init (_record_receipt); every run of the app was of an installed
\* package that verified, under the manifest of that very version, also while another
\* command installs (run_app); between undisturbed commands state.json records the disk.
WorkspaceRecords ==
  CASE scenario = "os" -> Os!TypeOK /\ Os!ListedReceiptsTrue /\ Os!RanAsIndexed
    [] scenario = "os_pair" -> OsPair!RanAsIndexed
    [] scenario = "os_quiet" -> OsQuiet!StateRecordsDisk
    [] OTHER -> TRUE

\* Packing loses nothing: the container and its packed program rebuild the file, whatever
\* chunk size and transform were picked, with no plan of fewer residuals passed over; the
\* byte stream decodes to the container that was encoded, and a damaged one is refused or
\* still yields the file (packer.py, encode_bogpk_container, decode_bogpk_container).
PackingExact ==
  scenario = "codec" => /\ Codec!ContainerExact /\ Codec!PackedProgramsExact /\ Codec!OptimizerBest
                        /\ Codec!StreamRoundTrip /\ Codec!DamageDetected
                        /\ Codec!TransformsInvert /\ Codec!VaruintCanonical
=============================================================================

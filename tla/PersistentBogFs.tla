-------------------------- MODULE PersistentBogFs --------------------------
(***************************************************************************)
(* The v38 persistent BogFS of BogKernel (kernel/bogk-kernel/src/main.rs,  *)
(* v38_*, v37_write_sector_checked and the v36 ATA driver under them): two *)
(* superblock and two manifest slots, mount, the three-stage commit and    *)
(* the operations boot one makes.  Power may be lost at any sector write,  *)
(* a sector write may fail with any effect on the medium, and any read of  *)
(* a mount may fail.                                                       *)
(*                                                                         *)
(* A SHA-256 hash is the hashed value itself.  A sector is a record with a *)
(* `kind', the superblock's checksum holds unless the sector is torn.      *)
(***************************************************************************)
EXTENDS Integers, Sequences

CONSTANTS
    MaxRecords,         \* V38_MAX_RECORDS
    RecordsPerSector,   \* records that begin in one manifest sector
    ManifestSectors,    \* V37_MANIFEST_SECTORS
    DataSectors,        \* data LBAs 1..DataSectors stand for 64..8191
    Text,               \* paths of records and contents of data sectors
    Images              \* disk images: [table |-> Table, data |-> data area]

ASSUME SizesAssumption ==
    /\ MaxRecords \in Nat \ {0}
    /\ RecordsPerSector \in Nat \ {0}
    /\ ManifestSectors \in Nat \ {0}
    /\ DataSectors \in Nat \ {0}
    /\ MaxRecords <= RecordsPerSector * ManifestSectors

VARIABLES
    superblock,     \* the sectors at V37_SUPERBLOCK_A and _B
    manifest,       \* the sectors from V37_MANIFEST_A and _B on
    data,           \* the content of the data sectors
    state,          \* the V38State last trusted; history while the power is off
    pc,             \* position in run_v38_file_lifecycle_proof
    step,           \* sector v38_commit writes next: 0 data, then the manifest, then the superblock
    unread          \* the slots the last mount could not read

disk == <<superblock, manifest, data>>
vars == <<disk, state, pc, step, unread>>

Slot    == {"A", "B"}
DataLba == 1..DataSectors
Sector  == 1..ManifestSectors
Ops     == {"create", "write", "delete"}
Types   == {"file", "directory", "tombstone"}

Zero == [kind |-> "zero"]
Torn == [kind |-> "torn"]

NEW_PATH    == "/data/new.txt"
DELETE_PATH == "/data/delete.txt"
WRITE_DATA  == "V38-LIFECYCLE-DATA"

ASSUME TextAssumption == {NEW_PATH, WRITE_DATA, "empty", "torn"} \subseteq Text
-----------------------------------------------------------------------------
(* The on-disk format.                                                     *)

SectorOf(i) == (i - 1) \div RecordsPerSector + 1

Slice(records, k) ==
    [i \in {j \in DOMAIN records : SectorOf(j) = k} |-> records[i]]

\* Sector k of the manifest of table t; the first one carries the header.
manifest_sector(t, k) ==
    IF k = 1
    THEN [kind |-> "header", generation |-> t.generation, record_count |-> Len(t.records),
          next_free_lba |-> t.next_free_lba, next_lifecycle_id |-> t.next_lifecycle_id,
          listing_hash |-> t.records, slice |-> Slice(t.records, 1)]
    ELSE [kind |-> "records", slice |-> Slice(t.records, k)]

manifest_sectors(t) == [k \in Sector |-> manifest_sector(t, k)]

\* The superblock binds generation, manifest pointer and manifest hash.
superblock_sector(root) ==
    [kind |-> "superblock", generation |-> root.table.generation,
     manifest_lba |-> root.manifest_lba, manifest_hash |-> manifest_sectors(root.table)]

\* The table that manifest sectors m encode.
table_of(m) ==
    [generation        |-> m[1].generation,
     next_free_lba     |-> m[1].next_free_lba,
     next_lifecycle_id |-> m[1].next_lifecycle_id,
     records           |-> [i \in 1..m[1].record_count |-> m[SectorOf(i)].slice[i]]]
-----------------------------------------------------------------------------
(* v38_validate_root and v38_mount.                                        *)

\* A directory has no content, an empty file no sector, any other file a sector
\* below next_free_lba that holds the bytes its record names; d is the data area.
content_valid(r, t, d) ==
    /\ r.type = "directory" => r.lba = 0 /\ r.content = "none"
    /\ r.type = "file" =>
          \/ r.content = "empty" /\ r.lba = 0
          \/ /\ r.content # "empty"
             /\ r.lba \in 1..(t.next_free_lba - 1)
             /\ d[r.lba] = r.content

records_valid(t, d) ==
    /\ Len(t.records) \in 1..MaxRecords
    /\ t.next_free_lba \in 1..(DataSectors + 1)
    /\ t.next_lifecycle_id # 0
    /\ \A i \in DOMAIN t.records :
          /\ t.records[i].type \in Types
          /\ t.records[i].version # 0 /\ t.records[i].lifecycle_id # 0
          /\ \A j \in 1..(i - 1) : t.records[j].path # t.records[i].path
          /\ content_valid(t.records[i], t, d)

\* A directory record and the table of a manifest.
Record == [path : Text, version : Nat, type : Types, lba : Nat, content : Text, lifecycle_id : Nat]
Table  == [generation : Nat, next_free_lba : Nat, next_lifecycle_id : Nat, records : Seq(Record)]

\* What scripts/make_v38_file_lifecycle_image.py writes: a first generation that a mount
\* accepts, without the file boot one creates.
ASSUME ImagesAssumption ==
    \A image \in Images :
        /\ image.table \in Table
        /\ image.table.generation = 1
        /\ image.data \in [DataLba -> Text]
        /\ records_valid(image.table, image.data)
        /\ \A i \in DOMAIN image.table.records : image.table.records[i].path # NEW_PATH

\* The manifest sectors hash to what the superblock says.
manifest_matches(s) == manifest[superblock[s].manifest_lba] = superblock[s].manifest_hash

\* Slot s passes v38_validate_root when all of its reads succeed.
Valid(s) ==
    /\ superblock[s].kind = "superblock"
    /\ manifest_matches(s)
    /\ table_of(manifest[superblock[s].manifest_lba]).generation = superblock[s].generation
    /\ records_valid(table_of(manifest[superblock[s].manifest_lba]), data)

\* The V38State v38_validate_root returns for slot s.
root_at(s) ==
    [superblock_lba |-> s,
     manifest_lba   |-> superblock[s].manifest_lba,
     table          |-> table_of(manifest[superblock[s].manifest_lba])]

\* The root hash covers all of a root but the place of its superblock.
same_root(r, s) == r.manifest_lba = s.manifest_lba /\ r.table = s.table

ambiguous_equal_generation(ok) ==
    /\ ok = Slot
    /\ root_at("A").table.generation = root_at("B").table.generation
    /\ ~same_root(root_at("A"), root_at("B"))

\* Mutant: the first slot wins whenever it is valid.
mounted_first(ok) == root_at(IF "A" \in ok THEN "A" ELSE "B")
\* The root mounted from the valid slots ok: the newest, slot A on a tie.
mounted(ok) ==
    root_at(IF "A" \notin ok \/ (ok = Slot /\ superblock["B"].generation > superblock["A"].generation)
            THEN "B" ELSE "A")

Mountable(ok) == ok # {} /\ ~ambiguous_equal_generation(ok)
-----------------------------------------------------------------------------
(* v38_create, v38_write, v38_delete and v38_commit.                       *)

IndexOf(t, path) == {i \in DOMAIN t.records : t.records[i].path = path}

\* The early returns file_table_full and missing_file.
allowed(op, t) ==
    CASE op = "create" -> Len(t.records) < MaxRecords
      [] op = "write"  -> IndexOf(t, NEW_PATH) # {}
      [] op = "delete" -> IndexOf(t, DELETE_PATH) # {}

created(t) ==
    [t EXCEPT !.records = Append(@, [path |-> NEW_PATH, version |-> 1, type |-> "file", lba |-> 0,
                                     content |-> "empty", lifecycle_id |-> t.next_lifecycle_id]),
              !.next_lifecycle_id = @ + 1]

\* v38_write appends: its content goes to the first free sector.
data_lba(t) == t.next_free_lba

written(t) ==
    [t EXCEPT !.records = [i \in DOMAIN t.records |->
                             IF i \in IndexOf(t, NEW_PATH)
                             THEN [t.records[i] EXCEPT !.version = @ + 1, !.lba = data_lba(t), !.content = WRITE_DATA]
                             ELSE t.records[i]],
              !.next_free_lba = @ + 1]

deleted(t) ==
    [t EXCEPT !.records = [i \in DOMAIN t.records |->
                             IF i \in IndexOf(t, DELETE_PATH)
                             THEN [t.records[i] EXCEPT !.version = @ + 1, !.type = "tombstone"]
                             ELSE t.records[i]]]

\* Mutant: the generation is advanced by the operation and by the commit.
next_generation_twice(t) == t.generation + 2
\* Mutant: the generation does not grow.
next_generation_same(t) == t.generation
\* v38_commit: old.generation + 1
next_generation(t) == t.generation + 1

new_table(op, t) ==
    [(CASE op = "create" -> created(t)
        [] op = "write"  -> written(t)
        [] op = "delete" -> deleted(t)) EXCEPT !.generation = next_generation(t)]

Other(s) == IF s = "A" THEN "B" ELSE "A"

\* Mutant: the manifest of the current root is overwritten.
manifest_target_same(root) == root.manifest_lba
\* The manifest slot v38_commit writes.
manifest_target(root) == Other(root.manifest_lba)

\* The root operation op makes of root.
new_root(op, root) ==
    [superblock_lba |-> Other(root.superblock_lba),
     manifest_lba   |-> manifest_target(root),
     table          |-> new_table(op, root.table)]

\* What one complete operation may make of root r.
roots_after(r) == {new_root(op, r) : op \in {o \in Ops : allowed(o, r.table)}}

SuperblockStep == ManifestSectors + 1
first_step(op) == IF op = "write" THEN 0 ELSE 1

\* The operations of v38_boot1 in order; a failed one is passed over.
after(op) ==
    CASE op = "create" -> "write"
      [] op = "write"  -> "delete"
      [] op = "delete" -> "done"

\* What a sector write leaves: the new bytes, the old ones, or a mixture.
effects(old, new, torn) == {old, new, torn}

\* The sector written at the current step takes on one of the effects;
\* only = TRUE asks for the new content.
WriteSector(only) ==
    LET root == new_root(pc, state)
        lba  == data_lba(state.table)
    IN \/ /\ step = 0
          /\ IF lba \in DataLba
             THEN \E v \in IF only THEN {WRITE_DATA} ELSE effects(data[lba], WRITE_DATA, "torn") :
                     data' = [data EXCEPT ![lba] = v]
             ELSE ~only /\ UNCHANGED data
          /\ UNCHANGED <<superblock, manifest>>
       \/ /\ step \in Sector
          /\ LET m == root.manifest_lba
                 v == manifest_sector(root.table, step)
             IN \E w \in IF only THEN {v} ELSE effects(manifest[m][step], v, Torn) :
                   manifest' = [manifest EXCEPT ![m][step] = w]
          /\ UNCHANGED <<superblock, data>>
       \/ /\ step = SuperblockStep
          /\ LET s == root.superblock_lba
                 v == superblock_sector(root)
             IN \E w \in IF only THEN {v} ELSE effects(superblock[s], v, Torn) :
                   superblock' = [superblock EXCEPT ![s] = w]
          /\ UNCHANGED <<manifest, data>>

Committing == pc \in Ops /\ allowed(pc, state.table)

\* The caller goes on with the next operation.
Return == pc' = after(pc) /\ step' = first_step(after(pc))
-----------------------------------------------------------------------------
Init ==
    \E image \in Images :
        LET root == [superblock_lba |-> "A", manifest_lba |-> "A", table |-> image.table] IN
        /\ superblock = [s \in Slot |-> IF s = "A" THEN superblock_sector(root) ELSE Zero]
        /\ manifest = [s \in Slot |-> [k \in Sector |->
                          IF s = "A" THEN manifest_sector(image.table, k) ELSE Zero]]
        /\ data = image.data
        /\ state = root
        /\ pc = "off"
        /\ step = 0
        /\ unread = {}

\* Power on; a slot of which some sector cannot be read is as good as invalid.
Boot(bad) ==
    LET ok == {s \in Slot \ bad : Valid(s)} IN
    /\ pc = "off"
    /\ unread' = bad
    /\ IF Mountable(ok)
       THEN /\ state' = mounted(ok)
            /\ pc' = IF state'.table.generation = 1 THEN "create" ELSE "done"
            /\ step' = first_step(pc')
       ELSE /\ pc' = "rejected"
            /\ UNCHANGED <<state, step>>
    /\ UNCHANGED disk

\* The operation returns an error before v38_commit.
Refuse ==
    /\ pc \in Ops /\ ~allowed(pc, state.table)
    /\ Return
    /\ UNCHANGED <<disk, state, unread>>

\* v37_write_sector_checked returns Ok: the read-back equals the new sector.
CommitWrite ==
    /\ Committing
    /\ WriteSector(TRUE)
    /\ IF step = SuperblockStep
       THEN state' = new_root(pc, state) /\ Return
       ELSE step' = step + 1 /\ UNCHANGED <<state, pc>>
    /\ UNCHANGED unread

\* It returns an error: the old state is kept whatever the medium holds now.
CommitError ==
    /\ Committing
    /\ WriteSector(FALSE)
    /\ Return
    /\ UNCHANGED <<state, unread>>

\* Power is lost, with a sector write under way or not.
PowerLoss ==
    /\ pc # "off"
    /\ IF Committing THEN WriteSector(FALSE) ELSE UNCHANGED disk
    /\ pc' = "off"
    /\ step' = 0
    /\ UNCHANGED <<state, unread>>

Next ==
    \/ \E bad \in SUBSET Slot : Boot(bad)
    \/ Refuse
    \/ CommitWrite
    \/ CommitError
    \/ PowerLoss

Spec == Init /\ [][Next]_vars
-----------------------------------------------------------------------------
Up == pc \in Ops \cup {"done"}

\* The disk and the kernel's state have the shape the format gives them; at
\* most the three commits of boot one are ever made from one image.
TypeOK ==
    /\ \A s \in Slot : superblock[s].kind \in {"zero", "torn", "superblock"}
    /\ \A s \in Slot, k \in Sector : manifest[s][k].kind \in {"zero", "torn", "header", "records"}
    /\ DOMAIN data = DataLba
    /\ state.superblock_lba \in Slot /\ state.manifest_lba \in Slot
    /\ state.table.generation \in 1..4
    /\ state.table.next_free_lba \in 1..(DataSectors + 1)
    /\ pc \in Ops \cup {"off", "done", "rejected"}
    /\ step \in 0..SuperblockStep
    /\ unread \subseteq Slot

\* The root the kernel last told its user about is whole on the disk at every
\* moment, through every failed or interrupted commit and every reboot, until
\* a later one is acknowledged: v38_commit touches neither its slots nor the
\* sectors its files live in.
AckedRootIntact == Valid(state.superblock_lba) /\ root_at(state.superblock_lba) = state

\* A mount whose reads succeed finds a root and never two candidates of the
\* same generation, however earlier commits ended.
MountSucceeds == pc = "rejected" => unread # {}

\* A reboot whose reads succeed never falls back behind the generation the
\* kernel had acknowledged.
NoRollback ==
    [][pc = "off" /\ unread' = {} => state'.table.generation >= state.table.generation]_vars

\* The valid slots and the trusted root behave as AtomicRoots says: a root
\* that can be mounted is always the result of whole operations.
Roots == INSTANCE AtomicRoots WITH
    Seed    <- {[superblock_lba |-> "A", manifest_lba |-> "A", table |-> image.table] : image \in Images},
    None    <- [superblock_lba |-> "none"],
    After   <- roots_after,
    store   <- {root_at(s) : s \in {u \in Slot : Valid(u)}},
    trusted <- IF Up THEN state ELSE [superblock_lba |-> "none"]

RootsAtomic == Roots!Spec

-----------------------------------------------------------------------------
\* What the documents say and the code does not do (README, section 6).

\* docs/v38_file_lifecycle_plan.md: all rejected mutations preserve the prior
\* root.  Between operations a reboot would mount the root the kernel holds.
RejectedKeepsRoot ==
    Up /\ unread = {} /\ step = first_step(pc) =>
        mounted({s \in Slot : Valid(s)}) = state

\* v38_boot1 and v38_boot2 report /data/delete.txt as deleted_file.
DeletedFileReported ==
    pc = "done" => \A i \in IndexOf(state.table, DELETE_PATH) : state.table.records[i].type = "tombstone"
=============================================================================

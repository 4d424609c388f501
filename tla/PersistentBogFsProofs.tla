----------------------- MODULE PersistentBogFsProofs -----------------------
(***************************************************************************)
(* Crash safety of the v38 persistent BogFS, for every disk image, table   *)
(* size, manifest size and data area.  The inductive invariant says which  *)
(* root each superblock slot names: the slot of the acknowledged root, its *)
(* manifest and the sectors of its files are never written to; the other   *)
(* slot names the root before it or one operation after it, whole or not;  *)
(* and a commit has written every sector before the one it is at.          *)
(***************************************************************************)
EXTENDS PersistentBogFs, TLAPS

\* A root as the kernel holds it: its superblock and its manifest are in the
\* slots of the same letter, and only operations made /data/new.txt.
Root == [superblock_lba : Slot, manifest_lba : Slot, table : Table]

RootOK(r) ==
    /\ r \in Root
    /\ r.manifest_lba = r.superblock_lba
    /\ r.table.generation \in 1..4
    /\ Len(r.table.records) <= MaxRecords
    /\ \A i \in DOMAIN r.table.records : r.table.records[i].path = NEW_PATH =>
          r.table.records[i].type = "file" /\ r.table.generation # 1

\* The disk has the shape the format gives it, the kernel's variables theirs.
DiskShape ==
    /\ superblock = [s \in Slot |-> superblock[s]]
    /\ manifest = [s \in Slot |-> [k \in Sector |-> manifest[s][k]]]
    /\ data = [a \in DataLba |-> data[a]]
    /\ \A s \in Slot : superblock[s].kind \in {"zero", "torn", "superblock"}
    /\ \A s \in Slot, k \in Sector : manifest[s][k].kind \in {"zero", "torn", "header", "records"}

Shape ==
    /\ DiskShape
    /\ pc \in Ops \cup {"off", "done", "rejected"}
    /\ step \in 0..SuperblockStep
    /\ unread \subseteq Slot

\* The acknowledged root is whole on the disk.
TrustedWhole ==
    /\ RootOK(state)
    /\ superblock[state.superblock_lba] = superblock_sector(state)
    /\ manifest[state.superblock_lba] = manifest_sectors(state.table)
    /\ records_valid(state.table, data)

\* r and q are one operation apart.
Adjacent(r, q) == r \in roots_after(q) \/ q \in roots_after(r)

\* Sector x of superblock slot o names a neighbour of root r, if any root.
Neighbour(x, o, r) ==
    x.kind = "superblock" =>
        \E q : RootOK(q) /\ q.superblock_lba = o /\ x = superblock_sector(q) /\ Adjacent(q, r)

\* The slot the acknowledged root does not use.
PeerAdjacent ==
    Neighbour(superblock[Other(state.superblock_lba)], Other(state.superblock_lba), state)

\* What a commit has written before the sector it is at.
CommitProgress ==
    Committing =>
        /\ \A k \in Sector : k < step =>
              manifest[Other(state.superblock_lba)][k] = manifest_sector(new_table(pc, state.table), k)
        /\ pc = "write" /\ step > 0 =>
              data_lba(state.table) \in DataLba /\ data[data_lba(state.table)] = WRITE_DATA

\* Boot one starts from generation 1, and each operation adds at most one.
Boots ==
    /\ pc = "create" => state.table.generation = 1
    /\ pc = "write" => state.table.generation <= 2
    /\ pc = "delete" => state.table.generation <= 3
    /\ MountSucceeds

IInv == Shape /\ TrustedWhole /\ PeerAdjacent /\ CommitProgress /\ Boots

-----------------------------------------------------------------------------
(* The on-disk format.                                                     *)

\* Every record of a table lies in a sector of the manifest.
LEMMA SectorOfType ==
    ASSUME NEW i \in 1..MaxRecords
    PROVE  SectorOf(i) \in Sector
<1> DEFINE q == (i - 1) \div RecordsPerSector
<1>1. /\ RecordsPerSector \in Nat \ {0} /\ ManifestSectors \in Nat \ {0} /\ i - 1 \in Nat
      /\ i - 1 < RecordsPerSector * ManifestSectors
  BY SizesAssumption
<1>2. q \in Nat /\ RecordsPerSector * q <= i - 1
  BY <1>1
<1>3. q < ManifestSectors
  <2> SUFFICES ASSUME ManifestSectors <= q PROVE FALSE
    BY <1>1, <1>2
  <2>1. RecordsPerSector * ManifestSectors <= RecordsPerSector * q
    BY <1>1, <1>2
  <2> QED
    BY <1>1, <1>2, <2>1
<1> QED
  BY <1>1, <1>2, <1>3 DEF SectorOf, Sector

\* Reading back the manifest sectors of a table gives the table.
LEMMA RoundTrip ==
    ASSUME NEW t \in Table, Len(t.records) <= MaxRecords
    PROVE  table_of(manifest_sectors(t)) = t
<1> DEFINE m == manifest_sectors(t)
<1>1. 1 \in Sector
  BY SizesAssumption DEF Sector
<1>2. /\ m[1].generation = t.generation /\ m[1].record_count = Len(t.records)
      /\ m[1].next_free_lba = t.next_free_lba /\ m[1].next_lifecycle_id = t.next_lifecycle_id
  BY <1>1 DEF manifest_sectors, manifest_sector
<1>3. \A k \in Sector : m[k].slice = Slice(t.records, k)
  BY DEF manifest_sectors, manifest_sector
<1>4. t.records \in Seq(Record) /\ Len(t.records) \in Nat
  BY DEF Table
<1> HIDE DEF m
<1>5. ASSUME NEW i \in 1..Len(t.records) PROVE m[SectorOf(i)].slice[i] = t.records[i]
  <2>1. i \in 1..MaxRecords /\ i \in DOMAIN t.records
    BY <1>4, SizesAssumption
  <2>2. SectorOf(i) \in Sector
    BY <2>1, SectorOfType
  <2> QED
    BY <1>3, <2>1, <2>2 DEF Slice
<1>6. [i \in 1..Len(t.records) |-> m[SectorOf(i)].slice[i]] = t.records
  BY <1>4, <1>5
<1>7. t = [generation |-> t.generation, next_free_lba |-> t.next_free_lba,
           next_lifecycle_id |-> t.next_lifecycle_id, records |-> t.records]
  BY DEF Table
<1> QED
  BY <1>2, <1>6, <1>7 DEF table_of, m

-----------------------------------------------------------------------------
(* What an operation makes of a table.                                     *)

\* A record whose content is replaced, and one that is marked deleted.
Rewritten(r, a) == [r EXCEPT !.version = @ + 1, !.lba = a, !.content = WRITE_DATA]
Buried(r)       == [r EXCEPT !.version = @ + 1, !.type = "tombstone"]

\* What these two change and what they keep.
LEMMA RecordUpdate ==
    ASSUME NEW r \in Record, NEW a \in Nat
    PROVE  LET w == Rewritten(r, a)
               d == Buried(r)
           IN /\ w \in Record /\ w.path = r.path /\ w.version = r.version + 1 /\ w.type = r.type
              /\ w.lba = a /\ w.content = WRITE_DATA /\ w.lifecycle_id = r.lifecycle_id
              /\ d \in Record /\ d.path = r.path /\ d.version = r.version + 1 /\ d.type = "tombstone"
              /\ d.lba = r.lba /\ d.content = r.content /\ d.lifecycle_id = r.lifecycle_id
<1> DEFINE v == [r EXCEPT !.version = @ + 1]
           x == [v EXCEPT !.lba = a]
           w == [x EXCEPT !.content = WRITE_DATA]
           d == [v EXCEPT !.type = "tombstone"]
<1>1. "tombstone" \in Types /\ WRITE_DATA \in Text
  BY TextAssumption DEF Types
<1>2. Rewritten(r, a) = w /\ Buried(r) = d
  BY DEF Rewritten, Buried
<1>3. /\ v \in Record /\ v.path = r.path /\ v.version = r.version + 1 /\ v.type = r.type
      /\ v.lba = r.lba /\ v.content = r.content /\ v.lifecycle_id = r.lifecycle_id
  BY DEF Record
<1> HIDE DEF v
<1>4. /\ d \in Record /\ d.path = v.path /\ d.version = v.version /\ d.type = "tombstone"
      /\ d.lba = v.lba /\ d.content = v.content /\ d.lifecycle_id = v.lifecycle_id
  BY <1>1, <1>3 DEF Record
<1>5. /\ x \in Record /\ x.path = v.path /\ x.version = v.version /\ x.type = v.type
      /\ x.lba = a /\ x.lifecycle_id = v.lifecycle_id
  BY <1>3 DEF Record
<1> HIDE DEF x
<1>6. /\ w \in Record /\ w.path = x.path /\ w.version = x.version /\ w.type = x.type
      /\ w.lba = x.lba /\ w.content = WRITE_DATA /\ w.lifecycle_id = x.lifecycle_id
  BY <1>1, <1>5 DEF Record
<1> HIDE DEF w, d
<1> QED
  BY <1>2, <1>3, <1>4, <1>5, <1>6

\* Replacing one field of a table.
LEMMA TableUpdate ==
    ASSUME NEW t \in Table, NEW rs \in Seq(Record), NEW n \in Nat
    PROVE  LET r == [t EXCEPT !.records = rs]
               l == [t EXCEPT !.next_lifecycle_id = n]
               f == [t EXCEPT !.next_free_lba = n]
               g == [t EXCEPT !.generation = n]
           IN /\ r \in Table /\ r.generation = t.generation /\ r.records = rs
              /\ r.next_free_lba = t.next_free_lba /\ r.next_lifecycle_id = t.next_lifecycle_id
              /\ l \in Table /\ l.generation = t.generation /\ l.records = t.records
              /\ l.next_free_lba = t.next_free_lba /\ l.next_lifecycle_id = n
              /\ f \in Table /\ f.generation = t.generation /\ f.records = t.records
              /\ f.next_free_lba = n /\ f.next_lifecycle_id = t.next_lifecycle_id
              /\ g \in Table /\ g.generation = n /\ g.records = t.records
              /\ g.next_free_lba = t.next_free_lba /\ g.next_lifecycle_id = t.next_lifecycle_id
<1> DEFINE S == Seq(Record)
<1>1. t \in [generation : Nat, next_free_lba : Nat, next_lifecycle_id : Nat, records : S] /\ rs \in S
  BY DEF Table
<1>2. Table = [generation : Nat, next_free_lba : Nat, next_lifecycle_id : Nat, records : S]
  BY DEF Table
<1> HIDE DEF S
<1> QED
  BY <1>1, <1>2

\* The fields of a table have their types.
LEMMA TableFields ==
    ASSUME NEW t \in Table
    PROVE  /\ t.generation \in Nat /\ t.next_free_lba \in Nat /\ t.next_lifecycle_id \in Nat
           /\ t.records \in Seq(Record) /\ Len(t.records) \in Nat
           /\ DOMAIN t.records = 1..Len(t.records)
           /\ \A i \in DOMAIN t.records : t.records[i] \in Record
<1>1. t.records \in Seq(Record)
  BY DEF Table
<1> HIDE DEF Record
<1> QED
  BY <1>1 DEF Table

\* The records of the three operations: a new file, a new content, a tombstone.
NewFile(t) == [path |-> NEW_PATH, version |-> 1, type |-> "file", lba |-> 0,
               content |-> "empty", lifecycle_id |-> t.next_lifecycle_id]

WrittenRecords(t) ==
    [i \in DOMAIN t.records |->
        IF t.records[i].path = NEW_PATH
        THEN Rewritten(t.records[i], t.next_free_lba)
        ELSE t.records[i]]

DeletedRecords(t) ==
    [i \in DOMAIN t.records |->
        IF t.records[i].path = DELETE_PATH
        THEN Buried(t.records[i])
        ELSE t.records[i]]

\* They are sequences of records.
LEMMA NewRecordsTyped ==
    ASSUME NEW t \in Table
    PROVE  /\ NewFile(t) \in Record
           /\ Append(t.records, NewFile(t)) \in Seq(Record)
           /\ WrittenRecords(t) \in Seq(Record)
           /\ DeletedRecords(t) \in Seq(Record)
<1>1. NewFile(t) \in Record
  <2>1. "file" \in Types /\ "empty" \in Text /\ NEW_PATH \in Text
    BY TextAssumption DEF Types
  <2> QED
    BY <2>1, TableFields DEF NewFile, Record
<1>2. \A i \in DOMAIN t.records : WrittenRecords(t)[i] \in Record /\ DeletedRecords(t)[i] \in Record
  BY TableFields, RecordUpdate DEF WrittenRecords, DeletedRecords
<1>3. /\ WrittenRecords(t) = [i \in 1..Len(t.records) |-> WrittenRecords(t)[i]]
      /\ DeletedRecords(t) = [i \in 1..Len(t.records) |-> DeletedRecords(t)[i]]
  BY TableFields DEF WrittenRecords, DeletedRecords
<1>4. ASSUME NEW f, NEW n \in Nat, f = [i \in 1..n |-> f[i]], \A i \in 1..n : f[i] \in Record
      PROVE  f \in Seq(Record)
  BY <1>4
<1>5. WrittenRecords(t) \in Seq(Record) /\ DeletedRecords(t) \in Seq(Record)
  BY <1>2, <1>3, <1>4, TableFields
<1>6. Append(t.records, NewFile(t)) \in Seq(Record)
  BY <1>1, TableFields
<1> QED
  BY <1>1, <1>5, <1>6

\* The three operations by their effect on a table.
LEMMA NewTable ==
    ASSUME NEW t \in Table, NEW op \in Ops
    PROVE  LET n == new_table(op, t) IN
           /\ n \in Table
           /\ n.generation = t.generation + 1
           /\ n.next_free_lba = IF op = "write" THEN t.next_free_lba + 1 ELSE t.next_free_lba
           /\ n.next_lifecycle_id = IF op = "create" THEN t.next_lifecycle_id + 1 ELSE t.next_lifecycle_id
           /\ op = "create" => n.records = Append(t.records, NewFile(t))
           /\ op = "write" => n.records = WrittenRecords(t)
           /\ op = "delete" => n.records = DeletedRecords(t)
<1>1. CASE op = "create"
  <2> DEFINE rs == Append(t.records, NewFile(t))
             a  == [t EXCEPT !.records = rs]
             n  == t.next_lifecycle_id + 1
             b  == [a EXCEPT !.next_lifecycle_id = n]
             g  == t.generation + 1
             c  == [b EXCEPT !.generation = g]
  <2>1. rs \in Seq(Record) /\ n \in Nat /\ g \in Nat
    BY TableFields, NewRecordsTyped
  <2>2. new_table(op, t) = c
    BY <1>1 DEF new_table, next_generation, created, NewFile
  <2> HIDE DEF rs, n, g
  <2>3. /\ a \in Table /\ a.generation = t.generation /\ a.records = rs
        /\ a.next_free_lba = t.next_free_lba /\ a.next_lifecycle_id = t.next_lifecycle_id
    BY <2>1, TableUpdate
  <2> HIDE DEF a
  <2>4. b \in Table /\ b.records = a.records /\ b.next_free_lba = a.next_free_lba /\ b.next_lifecycle_id = n
    BY <2>1, <2>3, TableUpdate, ZenonT(60)
  <2> HIDE DEF b
  <2>5. /\ c \in Table /\ c.generation = g /\ c.records = b.records
        /\ c.next_free_lba = b.next_free_lba /\ c.next_lifecycle_id = b.next_lifecycle_id
    BY <2>1, <2>4, TableUpdate, ZenonT(60)
  <2> HIDE DEF c
  <2> QED
    BY <1>1, <2>2, <2>3, <2>4, <2>5 DEF rs, n, g
<1>2. CASE op = "write"
  <2> DEFINE rs == WrittenRecords(t)
             a  == [t EXCEPT !.records = rs]
             n  == t.next_free_lba + 1
             b  == [a EXCEPT !.next_free_lba = n]
             g  == t.generation + 1
             c  == [b EXCEPT !.generation = g]
  <2>1. rs \in Seq(Record) /\ n \in Nat /\ g \in Nat
    BY TableFields, NewRecordsTyped
  <2>2. new_table(op, t) = c
    <3> DEFINE q == [i \in DOMAIN t.records |->
                  IF i \in IndexOf(t, NEW_PATH)
                  THEN [t.records[i] EXCEPT !.version = @ + 1, !.lba = data_lba(t), !.content = WRITE_DATA]
                  ELSE t.records[i]]
    <3>1. rs = q
      BY DEF WrittenRecords, Rewritten, IndexOf, data_lba
    <3>a. written(t) = [[t EXCEPT !.records = q] EXCEPT !.next_free_lba = n]
      BY DEF written
    <3> HIDE DEF q, rs
    <3>2. written(t) = b
      BY <3>1, <3>a
    <3> QED
      BY <1>2, <3>2 DEF new_table, next_generation
  <2> HIDE DEF rs, n, g
  <2>3. /\ a \in Table /\ a.generation = t.generation /\ a.records = rs
        /\ a.next_free_lba = t.next_free_lba /\ a.next_lifecycle_id = t.next_lifecycle_id
    BY <2>1, TableUpdate
  <2> HIDE DEF a
  <2>4. b \in Table /\ b.records = a.records /\ b.next_free_lba = n /\ b.next_lifecycle_id = a.next_lifecycle_id
    BY <2>1, <2>3, TableUpdate, ZenonT(60)
  <2> HIDE DEF b
  <2>5. /\ c \in Table /\ c.generation = g /\ c.records = b.records
        /\ c.next_free_lba = b.next_free_lba /\ c.next_lifecycle_id = b.next_lifecycle_id
    BY <2>1, <2>4, TableUpdate, ZenonT(60)
  <2> HIDE DEF c
  <2> QED
    BY <1>2, <2>2, <2>3, <2>4, <2>5 DEF rs, n, g
<1>3. CASE op = "delete"
  <2> DEFINE rs == DeletedRecords(t)
             a  == [t EXCEPT !.records = rs]
             g  == t.generation + 1
             c  == [a EXCEPT !.generation = g]
  <2>1. rs \in Seq(Record) /\ g \in Nat
    BY TableFields, NewRecordsTyped
  <2>2. new_table(op, t) = c
    <3> DEFINE q == [i \in DOMAIN t.records |->
                  IF i \in IndexOf(t, DELETE_PATH)
                  THEN [t.records[i] EXCEPT !.version = @ + 1, !.type = "tombstone"]
                  ELSE t.records[i]]
    <3>1. rs = q
      BY DEF DeletedRecords, Buried, IndexOf
    <3>a. deleted(t) = [t EXCEPT !.records = q]
      BY DEF deleted
    <3> HIDE DEF q, rs
    <3>2. deleted(t) = a
      BY <3>1, <3>a
    <3> QED
      BY <1>3, <3>2 DEF new_table, next_generation
  <2> HIDE DEF rs, g
  <2>3. /\ a \in Table /\ a.generation = t.generation /\ a.records = rs
        /\ a.next_free_lba = t.next_free_lba /\ a.next_lifecycle_id = t.next_lifecycle_id
    BY <2>1, TableUpdate
  <2> HIDE DEF a
  <2>4. /\ c \in Table /\ c.generation = g /\ c.records = a.records
        /\ c.next_free_lba = a.next_free_lba /\ c.next_lifecycle_id = a.next_lifecycle_id
    BY <2>1, <2>3, TableUpdate, ZenonT(60)
  <2> HIDE DEF c
  <2> QED
    BY <1>3, <2>2, <2>3, <2>4 DEF rs, g
<1> QED
  BY <1>1, <1>2, <1>3 DEF Ops
\* One record of a new table: which it was before, and what changed.
LEMMA NewRecord ==
    ASSUME NEW t \in Table, NEW op \in Ops,
           NEW i \in DOMAIN new_table(op, t).records
    PROVE  LET r == new_table(op, t).records[i] IN
           \/ i \in DOMAIN t.records /\ r = t.records[i]
           \/ op = "create" /\ i = Len(t.records) + 1 /\ r = NewFile(t)
           \/ /\ op = "write" /\ i \in DOMAIN t.records /\ t.records[i].path = NEW_PATH
              /\ r = Rewritten(t.records[i], t.next_free_lba)
           \/ /\ op = "delete" /\ i \in DOMAIN t.records /\ t.records[i].path = DELETE_PATH
              /\ r = Buried(t.records[i])
<1> DEFINE q == new_table(op, t).records
<1>1. /\ op = "create" => q = Append(t.records, NewFile(t))
      /\ op = "write" => q = WrittenRecords(t)
      /\ op = "delete" => q = DeletedRecords(t)
  BY NewTable
<1>2. i \in DOMAIN q
  OBVIOUS
<1> HIDE DEF q
<1>3. CASE op = "create"
  <2>1. i \in 1..(Len(t.records) + 1) /\ t.records \in Seq(Record) /\ Len(t.records) \in Nat
        /\ DOMAIN t.records = 1..Len(t.records)
    BY <1>1, <1>2, <1>3, NewRecordsTyped, TableFields
  <2>2. CASE i = Len(t.records) + 1
    BY <1>1, <1>3, <2>1, <2>2 DEF q
  <2>3. CASE i # Len(t.records) + 1
    BY <1>1, <1>3, <2>1, <2>3 DEF q
  <2> QED
    BY <2>2, <2>3
<1>4. CASE op = "write"
  BY <1>1, <1>2, <1>4 DEF WrittenRecords, q
<1>5. CASE op = "delete"
  BY <1>1, <1>2, <1>5 DEF DeletedRecords, q
<1> QED
  BY <1>3, <1>4, <1>5 DEF Ops

\* How many records there are afterwards.
LEMMA NewLength ==
    ASSUME NEW t \in Table, NEW op \in Ops
    PROVE  /\ Len(new_table(op, t).records) =
                 IF op = "create" THEN Len(t.records) + 1 ELSE Len(t.records)
           /\ DOMAIN new_table(op, t).records = 1..Len(new_table(op, t).records)
<1>1. CASE op = "create"
  BY <1>1, NewTable, NewRecordsTyped, TableFields, SMTT(30)
<1>2. CASE op = "write"
  <2>1. /\ new_table(op, t).records = WrittenRecords(t)
        /\ WrittenRecords(t) \in Seq(Record)
        /\ DOMAIN WrittenRecords(t) = 1..Len(t.records)
        /\ Len(t.records) \in Nat
    BY <1>2, NewTable, NewRecordsTyped, TableFields DEF WrittenRecords
  <2> QED
    BY <1>2, <2>1
<1>3. CASE op = "delete"
  <2>1. /\ new_table(op, t).records = DeletedRecords(t)
        /\ DeletedRecords(t) \in Seq(Record)
        /\ DOMAIN DeletedRecords(t) = 1..Len(t.records)
        /\ Len(t.records) \in Nat
    BY <1>3, NewTable, NewRecordsTyped, TableFields DEF DeletedRecords
  <2> QED
    BY <1>3, <2>1
<1> QED
  BY <1>1, <1>2, <1>3 DEF Ops

\* A root's slots change letter, and it stays a root, at most generation 4.
LEMMA NewRootOK ==
    ASSUME NEW r, NEW op \in Ops, RootOK(r), allowed(op, r.table), r.table.generation <= 3
    PROVE  /\ RootOK(new_root(op, r))
           /\ new_root(op, r).superblock_lba = Other(r.superblock_lba)
           /\ new_root(op, r).manifest_lba = Other(r.superblock_lba)
           /\ new_root(op, r).table = new_table(op, r.table)
           /\ new_root(op, r).table.generation = r.table.generation + 1
<1> DEFINE n == new_root(op, r)
           t == r.table
<1>1. r.superblock_lba \in Slot /\ r.manifest_lba = r.superblock_lba /\ t \in Table
  BY DEF RootOK, Root
<1>2. /\ n.superblock_lba = Other(r.superblock_lba) /\ n.manifest_lba = Other(r.superblock_lba)
      /\ n.table = new_table(op, t)
  BY <1>1 DEF new_root, manifest_target
<1>3. n \in Root
  <2>1. Other(r.superblock_lba) \in Slot /\ new_table(op, t) \in Table
    BY <1>1, NewTable DEF Other, Slot
  <2>2. n = [superblock_lba |-> Other(r.superblock_lba), manifest_lba |-> Other(r.superblock_lba),
             table |-> new_table(op, t)]
    BY <1>1 DEF new_root, manifest_target
  <2> QED
    BY <2>1, <2>2 DEF Root
<1>4. new_table(op, t).generation = t.generation + 1
  BY <1>1, NewTable
<1>5. Len(new_table(op, t).records) <= MaxRecords
  <2>1. Len(t.records) \in Nat /\ Len(t.records) <= MaxRecords /\ (op = "create" => Len(t.records) < MaxRecords)
    BY <1>1, TableFields DEF RootOK, allowed
  <2> QED
    BY <1>1, <2>1, NewLength, SizesAssumption
<1>6. ASSUME NEW i \in DOMAIN new_table(op, t).records, new_table(op, t).records[i].path = NEW_PATH
      PROVE  new_table(op, t).records[i].type = "file"
  <2> DEFINE q == new_table(op, t).records[i]
  <2> SUFFICES q.type = "file"
    OBVIOUS
  <2>1. \A j \in DOMAIN t.records : t.records[j].path = NEW_PATH => t.records[j].type = "file"
    BY DEF RootOK
  <2>2. \A j \in DOMAIN t.records : t.records[j] \in Record
    BY <1>1, TableFields
  <2>3. t.next_free_lba \in Nat
    BY <1>1, TableFields
  <2>0. q.path = NEW_PATH
    BY <1>6
  <2>4. \/ i \in DOMAIN t.records /\ q = t.records[i]
        \/ op = "create" /\ i = Len(t.records) + 1 /\ q = NewFile(t)
        \/ /\ op = "write" /\ i \in DOMAIN t.records /\ t.records[i].path = NEW_PATH
           /\ q = Rewritten(t.records[i], t.next_free_lba)
        \/ /\ op = "delete" /\ i \in DOMAIN t.records /\ t.records[i].path = DELETE_PATH
           /\ q = Buried(t.records[i])
    BY <1>1, NewRecord, Zenon
  <2> HIDE DEF q
  <2>5. CASE i \in DOMAIN t.records /\ q = t.records[i]
    BY <2>0, <2>1, <2>5
  <2>6. CASE q = NewFile(t)
    BY <2>6 DEF NewFile
  <2>7. CASE /\ i \in DOMAIN t.records /\ t.records[i].path = NEW_PATH
             /\ q = Rewritten(t.records[i], t.next_free_lba)
    BY <2>1, <2>2, <2>3, <2>7, RecordUpdate
  <2>8. CASE /\ i \in DOMAIN t.records /\ t.records[i].path = DELETE_PATH
             /\ q = Buried(t.records[i])
    <3>1. q.path = t.records[i].path
      BY <2>2, <2>8, RecordUpdate
    <3> QED
      BY <2>0, <2>8, <3>1 DEF NEW_PATH, DELETE_PATH
  <2> QED
    BY <2>4, <2>5, <2>6, <2>7, <2>8
<1>7. t.generation \in 1..4 /\ t.generation <= 3
  BY DEF RootOK
<1> HIDE DEF n
<1>8. \A i \in DOMAIN n.table.records : n.table.records[i].path = NEW_PATH =>
          n.table.records[i].type = "file" /\ n.table.generation # 1
  BY <1>2, <1>4, <1>6, <1>7
<1>9. n.table.generation \in 1..4 /\ Len(n.table.records) <= MaxRecords
  BY <1>2, <1>4, <1>5, <1>7
<1>10. RootOK(n)
  BY <1>2, <1>3, <1>8, <1>9 DEF RootOK
<1> QED
  BY <1>2, <1>4, <1>10 DEF n

-----------------------------------------------------------------------------
(* Validity of the records of a root.                                      *)

\* It does not depend on the data sectors from next_free_lba on.
LEMMA DataIrrelevant ==
    ASSUME NEW t \in Table, NEW d, NEW e, \A a \in 1..(t.next_free_lba - 1) : e[a] = d[a],
           records_valid(t, d)
    PROVE  records_valid(t, e)
  BY DEF records_valid, content_valid

\* v38_create, v38_write and v38_delete turn valid records into valid ones,
\* once the sector that v38_write names holds the new content.
LEMMA NewRecordsValid ==
    ASSUME NEW r, NEW op \in Ops, NEW d, RootOK(r), allowed(op, r.table), records_valid(r.table, d),
           op = "create" => r.table.generation = 1,
           op = "write" => data_lba(r.table) \in DataLba /\ d[data_lba(r.table)] = WRITE_DATA
    PROVE  records_valid(new_table(op, r.table), d)
<1> DEFINE t == r.table
           n == new_table(op, t)
           Good(q, i) ==
               /\ q.type \in Types /\ q.version # 0 /\ q.lifecycle_id # 0
               /\ content_valid(q, n, d)
<1>1. /\ t \in Table /\ n \in Table /\ Len(t.records) <= MaxRecords
      /\ \A i \in DOMAIN t.records : t.records[i] \in Record /\ Good(t.records[i], i)
      /\ t.next_free_lba \in Nat /\ t.next_lifecycle_id \in Nat /\ t.next_lifecycle_id # 0
      /\ Len(t.records) \in Nat /\ DOMAIN t.records = 1..Len(t.records)
  <2>1. t \in Table /\ n \in Table /\ Len(t.records) <= MaxRecords
    BY NewTable DEF RootOK, Root
  <2>2. /\ t.next_free_lba \in Nat /\ n.next_free_lba \in Nat /\ t.next_free_lba <= n.next_free_lba
        /\ t.next_lifecycle_id \in Nat
    BY <2>1, NewTable, TableFields
  <2>3. ASSUME NEW i \in DOMAIN t.records PROVE Good(t.records[i], i)
    <3>1. /\ t.records[i].type \in Types /\ t.records[i].version # 0 /\ t.records[i].lifecycle_id # 0
          /\ content_valid(t.records[i], t, d)
      BY DEF records_valid
    <3>2. content_valid(t.records[i], n, d)
      <4> HIDE DEF n
      <4> QED
        BY <2>2, <3>1 DEF content_valid
    <3> QED
      BY <3>1, <3>2
  <2> HIDE DEF Good
  <2> QED
    BY <2>1, <2>2, <2>3, TableFields DEF records_valid
<1>2. /\ Len(n.records) \in 1..MaxRecords /\ DOMAIN n.records = 1..Len(n.records)
      /\ Len(n.records) = IF op = "create" THEN Len(t.records) + 1 ELSE Len(t.records)
  <2>1. op = "create" => Len(t.records) < MaxRecords
    BY DEF allowed
  <2>2. Len(t.records) \in 1..MaxRecords
    BY DEF records_valid
  <2> QED
    BY <1>1, <2>1, <2>2, NewLength, SizesAssumption
<1>3. n.next_free_lba \in 1..(DataSectors + 1) /\ n.next_lifecycle_id # 0
  <2>1. t.next_free_lba \in 1..(DataSectors + 1)
    BY DEF records_valid
  <2>2. op = "write" => t.next_free_lba \in 1..DataSectors
    BY DEF data_lba, DataLba
  <2> QED
    BY <1>1, <2>1, <2>2, NewTable, SizesAssumption
<1>4. ASSUME NEW i \in DOMAIN n.records
      PROVE  LET q == n.records[i] IN
             \/ i \in DOMAIN t.records /\ q = t.records[i]
             \/ op = "create" /\ i = Len(t.records) + 1 /\ q = NewFile(t)
             \/ /\ op = "write" /\ i \in DOMAIN t.records /\ t.records[i].path = NEW_PATH
                /\ q = Rewritten(t.records[i], t.next_free_lba)
             \/ /\ op = "delete" /\ i \in DOMAIN t.records /\ t.records[i].path = DELETE_PATH
                /\ q = Buried(t.records[i])
  BY <1>1, NewRecord
<1>5. ASSUME NEW i \in DOMAIN n.records PROVE Good(n.records[i], i)
  <2> DEFINE q == n.records[i]
  <2>1. CASE i \in DOMAIN t.records /\ q = t.records[i]
    BY <1>1, <2>1
  <2>2. CASE q = NewFile(t)
    <3>1. q.type = "file" /\ q.version = 1 /\ q.lifecycle_id = t.next_lifecycle_id
          /\ q.lba = 0 /\ q.content = "empty"
      BY <2>2 DEF NewFile
    <3> HIDE DEF q
    <3> QED
      BY <1>1, <3>1 DEF content_valid, Types, q
  <2>3. CASE /\ op = "write" /\ i \in DOMAIN t.records /\ t.records[i].path = NEW_PATH
             /\ q = Rewritten(t.records[i], t.next_free_lba)
    <3>1. /\ q.type = t.records[i].type /\ q.version = t.records[i].version + 1 /\ q.lba = t.next_free_lba
          /\ q.content = WRITE_DATA /\ q.lifecycle_id = t.records[i].lifecycle_id
      BY <1>1, <2>3, RecordUpdate, SMTT(30)
    <3>0. t.records[i].version \in Nat
      BY <1>1, <2>3 DEF Record
    <3>2. t.records[i].type = "file" /\ t.records[i].lifecycle_id # 0
      BY <1>1, <2>3 DEF RootOK
    <3>3. /\ t.next_free_lba \in 1..(n.next_free_lba - 1) /\ d[t.next_free_lba] = WRITE_DATA
      BY <1>1, <2>3, NewTable DEF data_lba, DataLba
    <3>4. WRITE_DATA # "empty"
      BY DEF WRITE_DATA
    <3> HIDE DEF q, n
    <3>5. content_valid(q, n, d)
      BY <3>1, <3>2, <3>3, <3>4 DEF content_valid
    <3> QED
      BY <3>0, <3>1, <3>2, <3>5 DEF Types, q
  <2>4. CASE /\ op = "delete" /\ i \in DOMAIN t.records /\ t.records[i].path = DELETE_PATH
             /\ q = Buried(t.records[i])
    <3>1. /\ q.type = "tombstone" /\ q.version = t.records[i].version + 1
          /\ q.lifecycle_id = t.records[i].lifecycle_id
      BY <1>1, <2>4, RecordUpdate
    <3>0. t.records[i].version \in Nat
      BY <1>1, <2>4 DEF Record
    <3>2. t.records[i].lifecycle_id # 0
      BY <1>1, <2>4
    <3> HIDE DEF q, n
    <3> QED
      BY <3>0, <3>1, <3>2 DEF content_valid, Types, q
  <2> QED
    BY <1>4, <2>1, <2>2, <2>3, <2>4
<1>6. ASSUME NEW i \in DOMAIN n.records, i \in DOMAIN t.records PROVE n.records[i].path = t.records[i].path
  <2> HIDE DEF n
  <2> QED
    BY <1>1, <1>4, <1>6, RecordUpdate, SMTT(30)
<1>7. ASSUME NEW i \in DOMAIN n.records, NEW j \in 1..(i - 1)
      PROVE  n.records[j].path # n.records[i].path
  <2>0. j \in DOMAIN t.records /\ j \in DOMAIN n.records
    <3> HIDE DEF n
    <3> QED
      BY <1>1, <1>2
  <2>1. j \in DOMAIN t.records /\ n.records[j].path = t.records[j].path
    BY <1>6, <2>0
  <2>2. CASE i \in DOMAIN t.records
    BY <1>6, <2>1, <2>2 DEF records_valid
  <2>3. CASE i \notin DOMAIN t.records
    <3>1. n.records[i] = NewFile(t) /\ op = "create"
      BY <1>4, <2>3
    <3>2. t.records[j].path # NEW_PATH
      BY <2>1, <3>1 DEF RootOK
    <3> QED
      BY <2>1, <3>1, <3>2 DEF NewFile
  <2> QED
    BY <2>2, <2>3
<1> HIDE DEF n
<1> QED
  BY <1>2, <1>3, <1>5, <1>7 DEF records_valid, n

-----------------------------------------------------------------------------
(* The slots of the disk.                                                  *)

\* There are two slots.
LEMMA Slots ==
    ASSUME NEW s \in Slot
    PROVE  Other(s) \in Slot /\ Other(s) # s /\ Other(Other(s)) = s /\ Slot = {s, Other(s)}
  BY DEF Slot, Other

\* A root is its slot and its table.
LEMMA RootFields ==
    ASSUME NEW r, RootOK(r)
    PROVE  /\ r.superblock_lba \in Slot /\ r.table \in Table /\ r.table.generation \in 1..4
           /\ r = [superblock_lba |-> r.superblock_lba, manifest_lba |-> r.superblock_lba, table |-> r.table]
<1> HIDE DEF Table
<1> QED
  BY DEF RootOK, Root

\* What the superblock of a root says.
LEMMA SuperblockFields ==
    ASSUME NEW r, RootOK(r), NEW x, x = superblock_sector(r)
    PROVE  /\ x.kind = "superblock" /\ x.generation = r.table.generation
           /\ x.manifest_lba = r.superblock_lba /\ x.manifest_hash = manifest_sectors(r.table)
           /\ table_of(x.manifest_hash) = r.table
<1>1. table_of(manifest_sectors(r.table)) = r.table
  BY RootFields, RoundTrip DEF RootOK
<1>2. r.manifest_lba = r.superblock_lba
  BY DEF RootOK
<1> QED
  BY <1>1, <1>2 DEF superblock_sector

\* A slot whose superblock is that of root r is valid when r's manifest and
\* r's files are there, and what it gives is r.
LEMMA ValidSlot ==
    ASSUME NEW r, RootOK(r), NEW s, s = r.superblock_lba, superblock[s] = superblock_sector(r)
    PROVE  /\ Valid(s) <=> manifest[s] = manifest_sectors(r.table) /\ records_valid(r.table, data)
           /\ Valid(s) => root_at(s) = r
<1> DEFINE x == superblock[s]
<1>1. /\ x.kind = "superblock" /\ x.generation = r.table.generation
      /\ x.manifest_lba = s /\ x.manifest_hash = manifest_sectors(r.table)
      /\ table_of(manifest_sectors(r.table)) = r.table
  BY SuperblockFields
<1>2. r = [superblock_lba |-> s, manifest_lba |-> s, table |-> r.table]
  BY RootFields
<1> QED
  BY <1>1, <1>2 DEF Valid, root_at, manifest_matches

\* The same in the next state.
LEMMA ValidSlotNext ==
    ASSUME NEW r, RootOK(r), NEW s, s = r.superblock_lba, superblock'[s] = superblock_sector(r)
    PROVE  /\ Valid(s)' <=> manifest'[s] = manifest_sectors(r.table) /\ records_valid(r.table, data')
           /\ Valid(s)' => root_at(s)' = r
<1> DEFINE x == superblock'[s]
<1>1. /\ x.kind = "superblock" /\ x.generation = r.table.generation
      /\ x.manifest_lba = s /\ x.manifest_hash = manifest_sectors(r.table)
      /\ table_of(manifest_sectors(r.table)) = r.table
  BY SuperblockFields
<1>2. r = [superblock_lba |-> s, manifest_lba |-> s, table |-> r.table]
  BY RootFields
<1> QED
  BY <1>1, <1>2 DEF Valid, root_at, manifest_matches

\* The acknowledged root is valid, and no other root can be found than it and
\* the neighbour the other slot names.
LEMMA TrustedValid ==
    ASSUME TrustedWhole
    PROVE  /\ Valid(state.superblock_lba) /\ root_at(state.superblock_lba) = state
           /\ state.superblock_lba \in Slot
<1>1. RootOK(state) /\ superblock[state.superblock_lba] = superblock_sector(state)
      /\ manifest[state.superblock_lba] = manifest_sectors(state.table) /\ records_valid(state.table, data)
  BY DEF TrustedWhole
<1> QED
  BY <1>1, ValidSlot, RootFields

\* The generations of neighbours differ by one.
LEMMA NeighbourGeneration ==
    ASSUME NEW r, NEW q, RootOK(r), RootOK(q), Adjacent(q, r)
    PROVE  \/ q.table.generation = r.table.generation + 1 /\ q \in roots_after(r)
           \/ /\ q.table.generation = r.table.generation - 1 /\ r \in roots_after(q)
              /\ q.table.next_free_lba <= r.table.next_free_lba
<1>1. ASSUME NEW a, NEW b, RootOK(a), b \in roots_after(a)
      PROVE  b.table.generation = a.table.generation + 1 /\ a.table.next_free_lba <= b.table.next_free_lba
  <2>1. PICK op \in Ops : b = new_root(op, a)
    BY <1>1 DEF roots_after
  <2>2. b.table = new_table(op, a.table)
    BY <2>1 DEF new_root
  <2> QED
    BY <1>1, <2>2, RootFields, NewTable, TableFields
<1> QED
  BY <1>1, RootFields DEF Adjacent

-----------------------------------------------------------------------------
(* One sector write of a commit, whatever it leaves on the medium.         *)

\* What an operation is made from and what it makes.
LEMMA CommitRoot ==
    ASSUME IInv, Committing
    PROVE  /\ pc \in Ops /\ RootOK(state) /\ RootOK(new_root(pc, state))
           /\ new_root(pc, state).superblock_lba = Other(state.superblock_lba)
           /\ new_root(pc, state).manifest_lba = Other(state.superblock_lba)
           /\ new_root(pc, state).table = new_table(pc, state.table)
           /\ new_root(pc, state).table.generation = state.table.generation + 1
           /\ new_root(pc, state) \in roots_after(state)
           /\ state.superblock_lba \in Slot
<1>1. pc \in Ops /\ RootOK(state) /\ allowed(pc, state.table)
  BY DEF IInv, TrustedWhole, Committing
<1>2. state.table.generation <= 3
  BY <1>1, RootFields DEF IInv, Boots, Ops
<1>3. new_root(pc, state) \in roots_after(state)
  BY <1>1 DEF roots_after
<1> QED
  BY <1>1, <1>2, <1>3, NewRootOK, RootFields

\* A manifest sector has one of the kinds of the format.
LEMMA ManifestKind ==
    ASSUME NEW t, NEW k
    PROVE  manifest_sector(t, k).kind \in {"header", "records"}
  BY DEF manifest_sector

\* The three kinds of sector write; the slot of the acknowledged root is not
\* among what they touch.
LEMMA SectorWritten ==
    ASSUME IInv, Committing, WriteSector(FALSE),
           NEW o, o = Other(state.superblock_lba), NEW n, n = new_root(pc, state)
    PROVE  \/ /\ step = 0 /\ superblock' = superblock /\ manifest' = manifest
              /\ data' = [a \in DataLba |-> data'[a]]
              /\ \A a \in DataLba : a # data_lba(state.table) => data'[a] = data[a]
           \/ /\ step \in Sector /\ superblock' = superblock /\ data' = data
              /\ \E w \in {manifest[o][step], manifest_sector(n.table, step), Torn} :
                    manifest' = [manifest EXCEPT ![o][step] = w]
           \/ /\ step = SuperblockStep /\ manifest' = manifest /\ data' = data
              /\ \E w \in {superblock[o], superblock_sector(n), Torn} :
                    superblock' = [superblock EXCEPT ![o] = w]
<1>1. n.manifest_lba = o /\ n.superblock_lba = o
  BY CommitRoot
<1>2. data = [a \in DataLba |-> data[a]]
  BY DEF IInv, Shape, DiskShape
<1>3. CASE /\ step = 0
           /\ IF data_lba(state.table) \in DataLba
              THEN \E v \in effects(data[data_lba(state.table)], WRITE_DATA, "torn") :
                     data' = [data EXCEPT ![data_lba(state.table)] = v]
              ELSE UNCHANGED data
           /\ UNCHANGED <<superblock, manifest>>
  BY <1>2, <1>3
<1>4. CASE /\ step \in Sector
           /\ \E w \in effects(manifest[o][step], manifest_sector(n.table, step), Torn) :
                   manifest' = [manifest EXCEPT ![o][step] = w]
           /\ UNCHANGED <<superblock, data>>
  BY <1>4 DEF effects
<1>5. CASE /\ step = SuperblockStep
           /\ \E w \in effects(superblock[o], superblock_sector(n), Torn) :
                   superblock' = [superblock EXCEPT ![o] = w]
           /\ UNCHANGED <<manifest, data>>
  BY <1>5 DEF effects
<1> QED
  BY <1>1, <1>3, <1>4, <1>5 DEF WriteSector

\* After any of them the disk has its shape, the acknowledged root is whole,
\* the other slot names a neighbour of it, and a root that can be found there
\* could be found before or is the result of an operation.
LEMMA WriteStep ==
    ASSUME IInv, Committing, WriteSector(FALSE),
           NEW s, s = state.superblock_lba, NEW o, o = Other(s), NEW r, r = state
    PROVE  /\ DiskShape'
           /\ superblock'[s] = superblock_sector(r) /\ manifest'[s] = manifest_sectors(r.table)
           /\ records_valid(r.table, data')
           /\ Neighbour(superblock'[o], o, r)
           /\ Valid(o)' => (Valid(o) /\ root_at(o)' = root_at(o)) \/ root_at(o)' \in roots_after(r)
<1> DEFINE n == new_root(pc, state)
<1>1. /\ RootOK(r) /\ RootOK(n) /\ n.superblock_lba = o /\ n \in roots_after(r)
      /\ n.table = new_table(pc, r.table) /\ n.table.generation = r.table.generation + 1
      /\ s \in Slot /\ o \in Slot /\ o # s
  BY CommitRoot, Slots
<1>2. /\ superblock[s] = superblock_sector(r) /\ manifest[s] = manifest_sectors(r.table)
      /\ records_valid(r.table, data) /\ Neighbour(superblock[o], o, r) /\ DiskShape
  BY DEF IInv, TrustedWhole, PeerAdjacent, Shape
<1>3. r.table \in Table /\ r.table.generation \in 1..4 /\ r.table.next_free_lba \in Nat
  BY <1>1, RootFields, TableFields
<1> HIDE DEF n
\* A root that the other slot names and that is older than r stays as it was.
<1>4. ASSUME superblock'[o] = superblock[o],
             NEW q, RootOK(q), q.superblock_lba = o, superblock[o] = superblock_sector(q), Adjacent(q, r),
             manifest'[o] = manifest_sectors(q.table), records_valid(q.table, data'),
             \/ q \in roots_after(r)
             \/ manifest'[o] = manifest[o] /\ records_valid(q.table, data)
      PROVE  Valid(o)' => (Valid(o) /\ root_at(o)' = root_at(o)) \/ root_at(o)' \in roots_after(r)
  <2>1. root_at(o)' = q
    BY <1>4, ValidSlotNext
  <2>2. CASE manifest'[o] = manifest[o] /\ records_valid(q.table, data)
    <3>1. Valid(o) /\ root_at(o) = q
      BY <1>4, <2>2, ValidSlot
    <3> QED
      BY <2>1, <3>1
  <2> QED
    BY <1>4, <2>1, <2>2
<1>5. CASE /\ step = 0 /\ superblock' = superblock /\ manifest' = manifest
           /\ data' = [a \in DataLba |-> data'[a]]
           /\ \A a \in DataLba : a # data_lba(state.table) => data'[a] = data[a]
  <2>1. DiskShape'
    BY <1>2, <1>5 DEF DiskShape
  <2>2. r.table.next_free_lba \in 1..(DataSectors + 1)
    BY <1>2 DEF records_valid
  <2>3. \A a \in 1..(r.table.next_free_lba - 1) : data'[a] = data[a]
    BY <1>5, <2>2, SizesAssumption DEF DataLba, data_lba
  <2>4. records_valid(r.table, data')
    BY <1>2, <1>3, <2>3, DataIrrelevant
  <2>5. ASSUME Valid(o)' PROVE (Valid(o) /\ root_at(o)' = root_at(o)) \/ root_at(o)' \in roots_after(r)
    <3>1. superblock[o].kind = "superblock"
      BY <1>5, <2>5 DEF Valid
    <3>2. PICK q : RootOK(q) /\ q.superblock_lba = o /\ superblock[o] = superblock_sector(q) /\ Adjacent(q, r)
      BY <1>2, <3>1 DEF Neighbour
    <3>3. manifest'[o] = manifest_sectors(q.table) /\ records_valid(q.table, data')
      BY <1>5, <2>5, <3>2, ValidSlotNext
    <3>4. q \in roots_after(r) \/ q.table.next_free_lba <= r.table.next_free_lba
      BY <1>1, <3>2, NeighbourGeneration
    <3>5. CASE q.table.next_free_lba <= r.table.next_free_lba
      <4>1. q.table \in Table /\ q.table.next_free_lba \in Nat
        BY <3>2, RootFields, TableFields
      <4>2. \A a \in 1..(q.table.next_free_lba - 1) : data[a] = data'[a]
        BY <1>3, <2>3, <3>5, <4>1
      <4>3. records_valid(q.table, data)
        BY <3>3, <4>1, <4>2, DataIrrelevant
      <4> QED
        BY <1>4, <1>5, <2>5, <3>2, <3>3, <4>3
    <3> QED
      BY <1>4, <1>5, <2>5, <3>2, <3>3, <3>4, <3>5
  <2> QED
    BY <1>2, <1>5, <2>1, <2>4, <2>5
<1>6. CASE /\ step \in Sector /\ superblock' = superblock /\ data' = data
           /\ \E w \in {manifest[o][step], manifest_sector(n.table, step), Torn} :
                 manifest' = [manifest EXCEPT ![o][step] = w]
  <2>1. PICK w \in {manifest[o][step], manifest_sector(n.table, step), Torn} :
            manifest' = [manifest EXCEPT ![o][step] = w]
    BY <1>6
  <2>2. manifest = [u \in Slot |-> [k \in Sector |-> manifest[u][k]]]
    BY <1>2 DEF DiskShape
  <2>3. /\ manifest' = [u \in Slot |-> [k \in Sector |-> manifest'[u][k]]]
        /\ manifest'[s] = manifest[s] /\ manifest'[o][step] = w
        /\ \A k \in Sector : k # step => manifest'[o][k] = manifest[o][k]
        /\ \A u \in Slot, k \in Sector : manifest'[u][k] \in {manifest[u][k], w}
    <3> DEFINE x == [manifest[o] EXCEPT ![step] = w]
    <3>1. manifest' = [manifest EXCEPT ![o] = x]
      BY <2>1
    <3>2. manifest[o] = [k \in Sector |-> manifest[o][k]]
      BY <1>1, <2>2
    <3>3. x = [k \in Sector |-> IF k = step THEN w ELSE manifest[o][k]]
      BY <3>2
    <3> HIDE DEF x
    <3>4. manifest' = [u \in Slot |-> IF u = o THEN x ELSE manifest[u]]
      BY <2>2, <3>1
    <3>5. ASSUME NEW u \in Slot PROVE manifest'[u] = [k \in Sector |-> manifest'[u][k]]
      BY <2>2, <3>3, <3>4
    <3> QED
      BY <1>1, <1>6, <3>3, <3>4, <3>5
  <2>4. w.kind \in {"zero", "torn", "header", "records"}
    <3>1. manifest[o][step].kind \in {"zero", "torn", "header", "records"}
      BY <1>1, <1>2, <1>6 DEF DiskShape
    <3> QED
      BY <2>1, <3>1, ManifestKind DEF Torn
  <2>5. DiskShape'
    BY <1>2, <1>6, <2>3, <2>4 DEF DiskShape
  <2>6. ASSUME Valid(o)' PROVE (Valid(o) /\ root_at(o)' = root_at(o)) \/ root_at(o)' \in roots_after(r)
    <3>1. superblock[o].kind = "superblock"
      BY <1>6, <2>6 DEF Valid
    <3>2. PICK q : RootOK(q) /\ q.superblock_lba = o /\ superblock[o] = superblock_sector(q) /\ Adjacent(q, r)
      BY <1>2, <3>1 DEF Neighbour
    <3>3. manifest'[o] = manifest_sectors(q.table) /\ records_valid(q.table, data')
      BY <1>6, <2>6, <3>2, ValidSlotNext
    <3>4. CASE q.table.generation = r.table.generation - 1
      \* Its header would have to be that of an older generation.
      <4>1. w # Torn
        <5>1. manifest'[o][step] = manifest_sector(q.table, step)
          BY <1>6, <3>3 DEF manifest_sectors
        <5> QED
          BY <2>3, <5>1, ManifestKind DEF Torn
      <4>2. CASE w = manifest_sector(n.table, step)
        <5>1. 1 \in Sector /\ step \in Nat /\ step >= 1
          BY <1>6, SizesAssumption DEF Sector
        <5>2. manifest'[o][1] = manifest_sector(n.table, 1)
          <6>1. CASE step = 1
            BY <2>3, <4>2, <6>1
          <6>2. CASE step # 1
            <7>1. manifest[o][1] = manifest_sector(n.table, 1)
              BY <1>1, <5>1, <6>2 DEF IInv, CommitProgress
            <7> QED
              BY <2>3, <5>1, <6>2, <7>1
          <6> QED
            BY <6>1, <6>2
        <5>3. manifest'[o][1] = manifest_sector(q.table, 1)
          BY <3>3, <5>1 DEF manifest_sectors
        <5>4. n.table.generation = q.table.generation
          BY <5>2, <5>3 DEF manifest_sector
        <5> QED
          BY <1>1, <1>3, <3>4, <5>4
      <4>3. CASE w = manifest[o][step]
        <5>1. \A k \in Sector : manifest'[o][k] = manifest[o][k]
          BY <2>3, <4>3
        <5>2. manifest'[o] = manifest[o]
          BY <1>1, <2>2, <2>3, <5>1
        <5> QED
          BY <1>4, <1>6, <2>6, <3>2, <3>3, <5>2
      <4> QED
        BY <2>1, <4>1, <4>2, <4>3
    <3>5. CASE q \in roots_after(r)
      BY <1>4, <1>6, <2>6, <3>2, <3>3, <3>5
    <3> QED
      BY <1>1, <3>2, <3>4, <3>5, NeighbourGeneration
  <2> QED
    BY <1>2, <1>6, <2>3, <2>5, <2>6
<1>7. CASE /\ step = SuperblockStep /\ manifest' = manifest /\ data' = data
           /\ \E w \in {superblock[o], superblock_sector(n), Torn} :
                 superblock' = [superblock EXCEPT ![o] = w]
  <2>1. PICK w \in {superblock[o], superblock_sector(n), Torn} : superblock' = [superblock EXCEPT ![o] = w]
    BY <1>7
  <2>2. superblock = [u \in Slot |-> superblock[u]]
    BY <1>2 DEF DiskShape
  <2>3. /\ superblock' = [u \in Slot |-> superblock'[u]]
        /\ superblock'[s] = superblock[s] /\ superblock'[o] = w
        /\ \A u \in Slot : superblock'[u] \in {superblock[u], w}
    BY <1>1, <2>1, <2>2
  <2>4. w.kind \in {"zero", "torn", "superblock"}
    BY <1>1, <1>2, <2>1 DEF DiskShape, Torn, superblock_sector
  <2>5. DiskShape'
    BY <1>2, <1>7, <2>3, <2>4 DEF DiskShape
  <2>6. Adjacent(n, r)
    BY <1>1 DEF Adjacent
  <2>7. Neighbour(superblock'[o], o, r)
    BY <1>1, <1>2, <2>1, <2>3, <2>6 DEF Neighbour, Torn
  <2>8. ASSUME Valid(o)' PROVE (Valid(o) /\ root_at(o)' = root_at(o)) \/ root_at(o)' \in roots_after(r)
    <3>1. superblock'[o].kind = "superblock"
      BY <2>8 DEF Valid
    <3>2. CASE w = superblock_sector(n)
      BY <1>1, <2>3, <2>8, <3>2, ValidSlotNext
    <3>3. CASE w = superblock[o]
      BY <1>7, <2>3, <2>8, <3>3 DEF Valid, root_at, manifest_matches
    <3> QED
      BY <2>1, <2>3, <3>1, <3>2, <3>3 DEF Torn
  <2> QED
    BY <1>2, <1>7, <2>3, <2>5, <2>7, <2>8
<1> QED
  BY <1>5, <1>6, <1>7, SectorWritten DEF n

-----------------------------------------------------------------------------
(* The inductive invariant.                                                *)

\* The image builder's disk satisfies it.
LEMMA InitInv == Init => IInv
<1> SUFFICES ASSUME Init PROVE IInv
  OBVIOUS
<1>1. PICK image \in Images :
        LET root == [superblock_lba |-> "A", manifest_lba |-> "A", table |-> image.table] IN
        /\ superblock = [s \in Slot |-> IF s = "A" THEN superblock_sector(root) ELSE Zero]
        /\ manifest = [s \in Slot |-> [k \in Sector |->
                          IF s = "A" THEN manifest_sector(image.table, k) ELSE Zero]]
        /\ data = image.data
        /\ state = root
        /\ pc = "off" /\ step = 0 /\ unread = {}
  BY DEF Init
<1>2. /\ image.table \in Table /\ image.table.generation = 1 /\ image.data \in [DataLba -> Text]
      /\ records_valid(image.table, image.data)
      /\ \A i \in DOMAIN image.table.records : image.table.records[i].path # NEW_PATH
  BY ImagesAssumption
<1>3. "A" \in Slot /\ "B" \in Slot /\ Other("A") = "B" /\ Slot = {"A", "B"}
  BY DEF Slot, Other
<1>4. /\ superblock["A"] = superblock_sector(state) /\ superblock["B"] = Zero
      /\ manifest["A"] = manifest_sectors(state.table)
      /\ manifest["B"] = [k \in Sector |-> Zero]
  BY <1>1, <1>3 DEF manifest_sectors
<1>5. state = [superblock_lba |-> "A", manifest_lba |-> "A", table |-> image.table]
  BY <1>1
<1>6. RootOK(state)
  <2>1. state \in Root
    BY <1>2, <1>3, <1>5 DEF Root
  <2>2. Len(image.table.records) <= MaxRecords
    BY <1>2, SizesAssumption DEF records_valid
  <2> QED
    BY <1>2, <1>5, <2>1, <2>2 DEF RootOK
<1>7. DiskShape
  <2>1. superblock = [s \in Slot |-> superblock[s]] /\ manifest = [s \in Slot |-> [k \in Sector |-> manifest[s][k]]]
    BY <1>1
  <2>2. data = [a \in DataLba |-> data[a]]
    BY <1>1, <1>2
  <2>3. \A s \in Slot : superblock[s].kind \in {"zero", "torn", "superblock"}
    BY <1>3, <1>4 DEF superblock_sector, Zero
  <2>4. ASSUME NEW s \in Slot, NEW k \in Sector PROVE manifest[s][k].kind \in {"zero", "torn", "header", "records"}
    BY <1>3, <1>4, ManifestKind DEF manifest_sectors, Zero
  <2> QED
    BY <2>1, <2>2, <2>3, <2>4 DEF DiskShape
<1>8. Shape
  BY <1>1, <1>7, SizesAssumption DEF Shape, SuperblockStep
<1>9. TrustedWhole
  BY <1>1, <1>2, <1>4, <1>5, <1>6 DEF TrustedWhole
<1>10. PeerAdjacent
  BY <1>3, <1>4, <1>5 DEF PeerAdjacent, Neighbour, Zero
<1>11. CommitProgress /\ Boots
  BY <1>1 DEF CommitProgress, Committing, Boots, MountSucceeds, Ops
<1> QED
  BY <1>8, <1>9, <1>10, <1>11 DEF IInv

\* The next operation starts before its first sector.
LEMMA ReturnStep ==
    ASSUME pc \in Ops, step \in 0..SuperblockStep, Return
    PROVE  /\ pc' \in Ops \cup {"off", "done", "rejected"} /\ step' \in 0..SuperblockStep
           /\ CommitProgress'
           /\ pc' # "off" /\ pc' # "rejected"
<1>1. /\ pc' = after(pc) /\ step' = first_step(pc')
      /\ pc' \in {"write", "delete", "done"}
  BY DEF Return, after, Ops
<1>2. SuperblockStep \in Nat /\ 1 <= SuperblockStep
  BY SizesAssumption DEF SuperblockStep
<1>3. step' \in {0, 1} /\ (pc' = "write" => step' = 0)
  BY <1>1 DEF first_step
<1>4. CommitProgress'
  BY <1>3 DEF CommitProgress, Sector
<1> QED
  BY <1>1, <1>2, <1>3, <1>4 DEF Ops

\* The root a valid slot gives: the acknowledged one, or a neighbour of it.
LEMMA Candidates ==
    ASSUME IInv, NEW u \in Slot, Valid(u), NEW s, s = state.superblock_lba
    PROVE  /\ RootOK(root_at(u)) /\ root_at(u).superblock_lba = u
           /\ superblock[u] = superblock_sector(root_at(u))
           /\ superblock[u].generation = root_at(u).table.generation
           /\ u = s => root_at(u) = state
           /\ u # s => /\ Adjacent(root_at(u), state)
                       /\ root_at(u).table.generation # state.table.generation
<1>1. RootOK(state) /\ superblock[s] = superblock_sector(state) /\ s \in Slot
      /\ Neighbour(superblock[Other(s)], Other(s), state)
  BY RootFields DEF IInv, TrustedWhole, PeerAdjacent
<1>2. CASE u = s
  <2>1. root_at(u) = state
    BY <1>1, <1>2, ValidSlot
  <2> QED
    BY <1>1, <1>2, <2>1, SuperblockFields
<1>3. CASE u # s
  <2>1. u = Other(s)
    BY <1>1, <1>3, Slots
  <2>2. superblock[u].kind = "superblock"
    BY DEF Valid
  <2>3. PICK q : RootOK(q) /\ q.superblock_lba = u /\ superblock[u] = superblock_sector(q) /\ Adjacent(q, state)
    BY <1>1, <2>1, <2>2 DEF Neighbour
  <2>4. root_at(u) = q
    BY <2>3, ValidSlot
  <2>5. q.table.generation # state.table.generation
    BY <1>1, <2>3, RootFields, NeighbourGeneration
  <2>6. superblock[u].generation = q.table.generation
    BY <2>3, SuperblockFields
  <2> QED
    BY <1>3, <2>3, <2>4, <2>5, <2>6
<1> QED
  BY <1>2, <1>3

\* A mount takes a valid slot; with all reads succeeding it finds one, and none
\* older than the acknowledged root.
LEMMA MountStep ==
    ASSUME IInv, NEW bad \in SUBSET Slot, Boot(bad), NEW r, r = state
    PROVE  \/ /\ bad # {} /\ pc' = "rejected" /\ UNCHANGED <<state, step>>
           \/ /\ \E u \in Slot : Valid(u) /\ state' = root_at(u)
              /\ bad = {} => state'.table.generation >= r.table.generation
              /\ pc' = IF state'.table.generation = 1 THEN "create" ELSE "done"
              /\ step' = first_step(pc')
<1> DEFINE ok == {s \in Slot \ bad : Valid(s)}
           s  == state.superblock_lba
<1>1. Valid(s) /\ root_at(s) = state /\ s \in Slot
  BY TrustedValid DEF IInv
<1>2. \A u \in ok : u \in Slot /\ Valid(u)
  OBVIOUS
<1>3. ok = Slot => ~ambiguous_equal_generation(ok)
  <2> SUFFICES ASSUME ok = Slot PROVE root_at("A").table.generation # root_at("B").table.generation
    BY DEF ambiguous_equal_generation
  <2>1. "A" \in Slot /\ "B" \in Slot /\ Valid("A") /\ Valid("B") /\ (s = "A" \/ s = "B")
    BY <1>1 DEF Slot
  <2> QED
    BY <1>1, <2>1, Candidates
<1>4. CASE Mountable(ok)
  <2>1. /\ state' = mounted(ok)
        /\ pc' = IF state'.table.generation = 1 THEN "create" ELSE "done"
        /\ step' = first_step(pc')
    BY <1>4 DEF Boot
  <2>2. PICK u \in ok : state' = root_at(u) /\ (ok = Slot => \A v \in ok : superblock[u].generation >= superblock[v].generation)
    <3>1. \A v \in ok : superblock[v].generation = root_at(v).table.generation /\ root_at(v).table.generation \in 1..4
      BY <1>2, Candidates, RootFields
    <3>2. ok # {} /\ ok \subseteq {"A", "B"} /\ Slot = {"A", "B"}
      BY <1>4 DEF Mountable, Slot
    <3> HIDE DEF ok
    <3>3. CASE "A" \notin ok
      <4>1. "B" \in ok /\ ok # Slot
        BY <3>2, <3>3
      <4> QED
        BY <2>1, <3>3, <4>1 DEF mounted
    <3>4. CASE "A" \in ok /\ ok # Slot
      BY <2>1, <3>4 DEF mounted
    <3>5. CASE ok = Slot /\ superblock["B"].generation > superblock["A"].generation
      <4>1. "B" \in ok
        BY <3>2, <3>5
      <4>2. state' = root_at("B")
        BY <2>1, <3>5 DEF mounted
      <4>3. \A v \in ok : superblock["B"].generation >= superblock[v].generation
        BY <3>1, <3>2, <3>5
      <4> QED
        BY <4>1, <4>2, <4>3
    <3>6. CASE ok = Slot /\ ~(superblock["B"].generation > superblock["A"].generation)
      <4>1. "A" \in ok
        BY <3>2, <3>6
      <4>2. state' = root_at("A")
        BY <2>1, <3>6, <4>1 DEF mounted
      <4>3. \A v \in ok : superblock["A"].generation >= superblock[v].generation
        BY <3>1, <3>2, <3>6
      <4> QED
        BY <4>1, <4>2, <4>3
    <3> QED
      BY <3>3, <3>4, <3>5, <3>6
  <2>3. bad = {} => state'.table.generation >= r.table.generation
    <3> SUFFICES ASSUME bad = {} PROVE state'.table.generation >= r.table.generation
      OBVIOUS
    <3>1. s \in ok
      BY <1>1
    <3>2. superblock[s].generation = r.table.generation /\ r.table.generation \in 1..4
      BY <1>1, Candidates, RootFields
    <3>3. superblock[u].generation = state'.table.generation
      BY <1>2, <2>2, Candidates
    <3>4. CASE ok = Slot
      BY <2>2, <3>1, <3>2, <3>3, <3>4
    <3>5. CASE ok # Slot
      <4>1. u = s
        <5>1. Slot = {s, Other(s)} /\ ok \subseteq Slot
          BY <1>1, Slots
        <5> HIDE DEF ok
        <5> QED
          BY <2>2, <3>1, <3>5, <5>1
      <4> QED
        BY <3>2, <3>3, <4>1
    <3> QED
      BY <3>4, <3>5
  <2> QED
    BY <1>2, <2>1, <2>2, <2>3
<1>5. CASE ~Mountable(ok)
  <2>1. bad # {}
    <3> SUFFICES ASSUME bad = {} PROVE FALSE
      OBVIOUS
    <3>1. s \in ok
      BY <1>1
    <3>2. ambiguous_equal_generation(ok)
      BY <1>5, <3>1 DEF Mountable
    <3> QED
      BY <1>3, <3>2 DEF ambiguous_equal_generation
  <2> QED
    BY <1>5, <2>1 DEF Boot
<1> QED
  BY <1>4, <1>5

\* Mounting keeps the invariant, also when it changes to the other slot: the
\* root that was acknowledged is then the neighbour.
LEMMA BootInv ==
    ASSUME IInv, NEW bad \in SUBSET Slot, Boot(bad)
    PROVE  IInv'
<1>1. disk' = disk /\ unread' = bad /\ pc = "off"
  BY DEF Boot, disk
<1>2. superblock' = superblock /\ manifest' = manifest /\ data' = data
  BY <1>1 DEF disk
<1>3. DiskShape'
  BY <1>2 DEF IInv, Shape, DiskShape
<1>4. CASE bad # {} /\ pc' = "rejected" /\ UNCHANGED <<state, step>>
  <2>1. Shape'
    BY <1>1, <1>3, <1>4 DEF IInv, Shape
  <2>2. TrustedWhole' /\ PeerAdjacent'
    BY <1>2, <1>4 DEF IInv, TrustedWhole, PeerAdjacent
  <2>3. CommitProgress' /\ Boots'
    BY <1>1, <1>4 DEF CommitProgress, Committing, Boots, MountSucceeds, Ops
  <2> QED
    BY <2>1, <2>2, <2>3 DEF IInv
<1>5. CASE /\ \E u \in Slot : Valid(u) /\ state' = root_at(u)
           /\ pc' = IF state'.table.generation = 1 THEN "create" ELSE "done"
           /\ step' = first_step(pc')
  <2>1. PICK u \in Slot : Valid(u) /\ state' = root_at(u)
    BY <1>5
  <2>2. PICK s \in Slot : s = state.superblock_lba
    BY TrustedValid DEF IInv
  <2>3. pc' \in {"create", "done"} /\ step' = 1
    BY <1>5 DEF first_step
  <2>4. Shape'
    BY <1>1, <1>3, <2>3, SizesAssumption DEF Shape, SuperblockStep, Ops
  <2>5. RootOK(state') /\ state'.superblock_lba = u /\ superblock[u] = superblock_sector(state')
    BY <2>1, Candidates
  <2>6. TrustedWhole'
    <3>1. manifest[u] = manifest_sectors(state'.table) /\ records_valid(state'.table, data)
      BY <2>1, <2>5, ValidSlot
    <3> QED
      BY <1>2, <2>5, <3>1 DEF TrustedWhole
  <2>7. PeerAdjacent'
    <3>1. CASE u = s
      BY <1>2, <2>1, <2>2, <2>5, <3>1, Candidates DEF IInv, PeerAdjacent
    <3>2. CASE u # s
      <4>1. Other(u) = s
        BY <2>2, <3>2, Slots
      <4>2. Adjacent(state, state')
        BY <2>1, <2>2, <3>2, Candidates DEF Adjacent
      <4>3. RootOK(state) /\ superblock[s] = superblock_sector(state)
        BY <2>2 DEF IInv, TrustedWhole
      <4>4. Neighbour(superblock[s], s, state')
        BY <2>2, <4>2, <4>3 DEF Neighbour
      <4> QED
        BY <1>2, <2>5, <4>1, <4>4 DEF PeerAdjacent
    <3> QED
      BY <3>1, <3>2
  <2>8. CommitProgress'
    BY <2>3 DEF CommitProgress, Sector
  <2>9. Boots'
    BY <1>5, <2>3 DEF Boots, MountSucceeds
  <2> QED
    BY <2>4, <2>6, <2>7, <2>8, <2>9 DEF IInv
<1> QED
  BY <1>4, <1>5, MountStep

\* A refused operation leaves everything but the position alone.
LEMMA RefuseInv ==
    ASSUME IInv, Refuse
    PROVE  IInv'
<1>1. /\ superblock' = superblock /\ manifest' = manifest /\ data' = data /\ state' = state /\ unread' = unread
      /\ pc \in Ops /\ Return /\ step \in 0..SuperblockStep /\ RootOK(state)
  BY DEF Refuse, disk, IInv, Shape, TrustedWhole
<1>2. pc' \in Ops \cup {"off", "done", "rejected"} /\ step' \in 0..SuperblockStep /\ CommitProgress' /\ pc' # "rejected"
  BY <1>1, ReturnStep
<1>3. Shape' /\ TrustedWhole' /\ PeerAdjacent'
  BY <1>1, <1>2 DEF IInv, Shape, DiskShape, TrustedWhole, PeerAdjacent
<1>4. Boots'
  BY <1>1, <1>2, RootFields DEF IInv, Boots, MountSucceeds, Return, after, Ops
<1> QED
  BY <1>2, <1>3, <1>4 DEF IInv

\* After a sector write of any effect, with the state kept.
LEMMA WriteKept ==
    ASSUME IInv, Committing, WriteSector(FALSE), state' = state
    PROVE  DiskShape' /\ TrustedWhole' /\ PeerAdjacent'
<1>1. PICK s, o, r : s = state.superblock_lba /\ o = Other(s) /\ r = state
  OBVIOUS
<1>2. /\ DiskShape'
      /\ superblock'[s] = superblock_sector(r) /\ manifest'[s] = manifest_sectors(r.table)
      /\ records_valid(r.table, data')
      /\ Neighbour(superblock'[o], o, r)
  BY <1>1, WriteStep
<1> QED
  BY <1>1, <1>2 DEF IInv, TrustedWhole, PeerAdjacent

\* A failed sector write and a loss of power end the commit.
LEMMA CommitErrorInv ==
    ASSUME IInv, CommitError
    PROVE  IInv'
<1>1. /\ Committing /\ WriteSector(FALSE) /\ state' = state /\ unread' = unread
      /\ pc \in Ops /\ Return /\ step \in 0..SuperblockStep /\ unread \subseteq Slot /\ RootOK(state)
  BY DEF CommitError, Committing, IInv, Shape, TrustedWhole
<1>2. pc' \in Ops \cup {"off", "done", "rejected"} /\ step' \in 0..SuperblockStep /\ CommitProgress' /\ pc' # "rejected"
  BY <1>1, ReturnStep
<1>3. Shape' /\ TrustedWhole' /\ PeerAdjacent'
  BY <1>1, <1>2, WriteKept DEF Shape
<1>4. Boots'
  BY <1>1, <1>2, RootFields DEF IInv, Boots, MountSucceeds, Return, after, Ops
<1> QED
  BY <1>2, <1>3, <1>4 DEF IInv

\* Power lost in the middle of a commit leaves at most one sector of it half written.
LEMMA PowerLossInv ==
    ASSUME IInv, PowerLoss
    PROVE  IInv'
<1>1. /\ state' = state /\ unread' = unread /\ pc' = "off" /\ step' = 0 /\ unread \subseteq Slot
      /\ IF Committing THEN WriteSector(FALSE) ELSE UNCHANGED disk
  BY DEF PowerLoss, IInv, Shape
<1>2. DiskShape' /\ TrustedWhole' /\ PeerAdjacent'
  <2>1. CASE Committing
    BY <1>1, <2>1, WriteKept
  <2>2. CASE UNCHANGED disk
    BY <1>1, <2>2 DEF disk, IInv, Shape, DiskShape, TrustedWhole, PeerAdjacent
  <2> QED
    BY <1>1, <2>1, <2>2
<1>3. Shape'
  BY <1>1, <1>2, SizesAssumption DEF Shape, SuperblockStep
<1>4. CommitProgress' /\ Boots'
  BY <1>1 DEF CommitProgress, Committing, Boots, MountSucceeds, Ops
<1> QED
  BY <1>2, <1>3, <1>4 DEF IInv

\* A sector write that is read back with the new content is one of the effects.
LEMMA Verified ==
    ASSUME IInv, Committing, WriteSector(TRUE),
           NEW o, o = Other(state.superblock_lba), NEW n, n = new_root(pc, state)
    PROVE  /\ WriteSector(FALSE)
           /\ \/ /\ step = 0 /\ manifest' = manifest
                 /\ data_lba(state.table) \in DataLba /\ data'[data_lba(state.table)] = WRITE_DATA
              \/ /\ step \in Sector /\ data' = data
                 /\ manifest'[o][step] = manifest_sector(n.table, step)
                 /\ \A k \in Sector : k # step => manifest'[o][k] = manifest[o][k]
              \/ /\ step = SuperblockStep /\ manifest' = manifest /\ data' = data
                 /\ superblock'[o] = superblock_sector(n)
<1>1. n.manifest_lba = o /\ n.superblock_lba = o /\ o \in Slot
  BY CommitRoot, Slots
<1>2. /\ data = [a \in DataLba |-> data[a]]
      /\ superblock = [u \in Slot |-> superblock[u]]
      /\ manifest = [u \in Slot |-> [k \in Sector |-> manifest[u][k]]]
  BY DEF IInv, Shape, DiskShape
<1>3. WriteSector(FALSE)
  BY DEF WriteSector, effects
<1>4. CASE step = 0
  <2>1. step \notin Sector /\ step # SuperblockStep
    BY <1>4, SizesAssumption DEF Sector, SuperblockStep
  <2> QED
    BY <1>2, <1>3, <1>4, <2>1 DEF WriteSector
<1>5. CASE step \in Sector
  <2>1. step # 0 /\ step # SuperblockStep
    BY <1>5, SizesAssumption DEF Sector, SuperblockStep
  <2>2. /\ manifest' = [manifest EXCEPT ![o][step] = manifest_sector(n.table, step)] /\ data' = data
    BY <1>1, <1>5, <2>1 DEF WriteSector
  <2>3. manifest[o] = [k \in Sector |-> manifest[o][k]]
    BY <1>1, <1>2
  <2>4. manifest'[o] = [manifest[o] EXCEPT ![step] = manifest_sector(n.table, step)]
    BY <1>1, <1>2, <2>2
  <2>5. /\ manifest'[o][step] = manifest_sector(n.table, step)
        /\ \A k \in Sector : k # step => manifest'[o][k] = manifest[o][k]
    BY <1>5, <2>3, <2>4
  <2> QED
    BY <1>3, <1>5, <2>2, <2>5
<1>6. CASE step = SuperblockStep
  <2>1. step # 0 /\ step \notin Sector
    BY <1>6, SizesAssumption DEF Sector, SuperblockStep
  <2>2. superblock' = [superblock EXCEPT ![o] = superblock_sector(n)] /\ manifest' = manifest /\ data' = data
    BY <1>1, <1>6, <2>1 DEF WriteSector
  <2> QED
    BY <1>1, <1>2, <1>3, <1>6, <2>2
<1> QED
  BY <1>4, <1>5, <1>6 DEF WriteSector

\* The sector is written and verified: the commit goes on or is complete, and
\* then the new root is whole and the old one its neighbour.
LEMMA CommitWriteInv ==
    ASSUME IInv, CommitWrite
    PROVE  IInv'
<1>1. PICK s, o, r, n : s = state.superblock_lba /\ o = Other(s) /\ r = state /\ n = new_root(pc, state)
  OBVIOUS
<1>2. /\ Committing /\ WriteSector(TRUE) /\ unread' = unread /\ unread \subseteq Slot
      /\ pc \in Ops /\ allowed(pc, r.table) /\ step \in 0..SuperblockStep
  BY <1>1 DEF CommitWrite, Committing, IInv, Shape
<1>3. /\ RootOK(r) /\ RootOK(n) /\ n.superblock_lba = o /\ n \in roots_after(r) /\ s \in Slot
      /\ n.table = new_table(pc, r.table) /\ n.table.generation = r.table.generation + 1
      /\ Other(o) = s /\ o \in Slot
  BY <1>1, <1>2, CommitRoot, Slots
<1>4. /\ WriteSector(FALSE)
      /\ \/ /\ step = 0 /\ manifest' = manifest
            /\ data_lba(r.table) \in DataLba /\ data'[data_lba(r.table)] = WRITE_DATA
         \/ /\ step \in Sector /\ data' = data
            /\ manifest'[o][step] = manifest_sector(n.table, step)
            /\ \A k \in Sector : k # step => manifest'[o][k] = manifest[o][k]
         \/ /\ step = SuperblockStep /\ manifest' = manifest /\ data' = data
            /\ superblock'[o] = superblock_sector(n)
  BY <1>1, <1>2, Verified
<1>5. /\ DiskShape'
      /\ superblock'[s] = superblock_sector(r) /\ manifest'[s] = manifest_sectors(r.table)
      /\ records_valid(r.table, data')
  BY <1>1, <1>2, <1>4, WriteStep
<1>6. SuperblockStep \in Nat /\ SuperblockStep = ManifestSectors + 1 /\ Sector = 1..ManifestSectors /\ ManifestSectors \in Nat
  BY SizesAssumption DEF SuperblockStep, Sector
\* What is written before the sector the commit is at.
<1>7. /\ \A k \in Sector : k < step => manifest[o][k] = manifest_sector(n.table, k)
      /\ pc = "write" /\ step > 0 => data_lba(r.table) \in DataLba /\ data[data_lba(r.table)] = WRITE_DATA
  BY <1>1, <1>2, <1>3 DEF IInv, CommitProgress
<1>8. CASE step # SuperblockStep
  <2>1. step' = step + 1 /\ state' = state /\ pc' = pc
    BY <1>8 DEF CommitWrite
  <2>2. TrustedWhole' /\ PeerAdjacent'
    BY <1>2, <1>4, <2>1, WriteKept
  <2>3. Shape'
    BY <1>2, <1>5, <1>6, <1>8, <2>1 DEF Shape
  <2>4. Boots'
    BY <1>2, <2>1 DEF IInv, Boots, MountSucceeds
  <2>5. \A k \in Sector : k < step' => manifest'[o][k] = manifest_sector(n.table, k)
    BY <1>2, <1>4, <1>6, <1>7, <1>8, <2>1
  <2>6. pc = "write" => data_lba(r.table) \in DataLba /\ data'[data_lba(r.table)] = WRITE_DATA
    BY <1>2, <1>4, <1>6, <1>7, <1>8
  <2>7. CommitProgress'
    BY <1>1, <1>3, <2>1, <2>5, <2>6 DEF CommitProgress
  <2> QED
    BY <2>2, <2>3, <2>4, <2>7 DEF IInv
<1>9. CASE step = SuperblockStep
  <2>1. state' = n /\ Return
    BY <1>1, <1>9 DEF CommitWrite
  <2>2. pc' \in Ops \cup {"off", "done", "rejected"} /\ step' \in 0..SuperblockStep /\ CommitProgress' /\ pc' # "rejected"
    BY <1>2, <2>1, ReturnStep
  <2>3. superblock'[o] = superblock_sector(n) /\ manifest' = manifest /\ data' = data
    BY <1>4, <1>6, <1>9
  <2>4. manifest'[o] = manifest_sectors(n.table)
    <3>1. \A k \in Sector : manifest[o][k] = manifest_sector(n.table, k)
      BY <1>6, <1>7, <1>9
    <3>2. manifest[o] = [k \in Sector |-> manifest[o][k]]
      BY <1>3 DEF IInv, Shape, DiskShape
    <3> QED
      BY <2>3, <3>1, <3>2 DEF manifest_sectors
  <2>5. records_valid(n.table, data')
    <3>1. pc = "create" => r.table.generation = 1
      BY <1>1 DEF IInv, Boots
    <3> QED
      BY <1>2, <1>3, <1>5, <1>6, <1>7, <1>9, <2>3, <3>1, NewRecordsValid
  <2>6. TrustedWhole'
    BY <1>3, <2>1, <2>3, <2>4, <2>5 DEF TrustedWhole
  <2>7. PeerAdjacent'
    <3>1. Neighbour(superblock'[s], s, n)
      BY <1>1, <1>3, <1>5 DEF Neighbour, Adjacent
    <3> QED
      BY <1>3, <2>1, <3>1 DEF PeerAdjacent
  <2>8. Shape'
    BY <1>2, <1>5, <2>2 DEF Shape
  <2>9. Boots'
    <3>1. /\ pc = "create" => r.table.generation = 1
          /\ pc = "write" => r.table.generation <= 2
      BY <1>1 DEF IInv, Boots
    <3>2. r.table.generation \in 1..4
      BY <1>3, RootFields
    <3> QED
      BY <1>2, <1>3, <2>1, <2>2, <3>1, <3>2 DEF Boots, MountSucceeds, Return, after, Ops
  <2> QED
    BY <2>2, <2>6, <2>7, <2>8, <2>9 DEF IInv
<1> QED
  BY <1>8, <1>9

\* The invariant holds from power-on to power-on, forever.
LEMMA Invariance == Spec => []IInv
<1>1. Init => IInv
  BY InitInv
<1>2. IInv /\ [Next]_vars => IInv'
  <2> SUFFICES ASSUME IInv, [Next]_vars PROVE IInv'
    OBVIOUS
  <2>1. CASE Next
    <3>1. ASSUME NEW bad \in SUBSET Slot, Boot(bad) PROVE IInv'
      BY <3>1, BootInv
    <3> QED
      BY <2>1, <3>1, RefuseInv, CommitWriteInv, CommitErrorInv, PowerLossInv DEF Next
  <2>2. CASE UNCHANGED vars
    BY <2>2 DEF vars, disk, IInv, Shape, DiskShape, TrustedWhole, PeerAdjacent, CommitProgress, Committing,
                Boots, MountSucceeds
  <2> QED
    BY <2>1, <2>2
<1> QED
  BY <1>1, <1>2, PTL DEF Spec

\* Disk and kernel state keep their shape, and no image sees more than the
\* three commits of boot one.
THEOREM TypeCorrect == Spec => []TypeOK
<1>1. IInv => TypeOK
  <2> SUFFICES ASSUME IInv PROVE TypeOK
    OBVIOUS
  <2>1. RootOK(state) /\ records_valid(state.table, data) /\ Shape /\ DiskShape
    BY DEF IInv, TrustedWhole, Shape
  <2>2. state.superblock_lba \in Slot /\ state.manifest_lba \in Slot /\ state.table.generation \in 1..4
    BY <2>1 DEF RootOK, Root
  <2>3. state.table.next_free_lba \in 1..(DataSectors + 1)
    BY <2>1 DEF records_valid
  <2>4. DOMAIN data = DataLba
    BY <2>1 DEF DiskShape
  <2> QED
    BY <2>1, <2>2, <2>3, <2>4 DEF TypeOK, Shape, DiskShape
<1> QED
  BY <1>1, Invariance, PTL

\* Whatever a commit writes, however it fails and wherever power is lost, the
\* root the kernel last acknowledged can be mounted.
THEOREM AckedIntact == Spec => []AckedRootIntact
<1>1. IInv => AckedRootIntact
  BY TrustedValid DEF IInv, AckedRootIntact
<1> QED
  BY <1>1, Invariance, PTL

\* A mount whose reads all succeed is never rejected.
THEOREM Mounts == Spec => []MountSucceeds
<1>1. IInv => MountSucceeds
  BY DEF IInv, Boots
<1> QED
  BY <1>1, Invariance, PTL

\* A mount whose reads all succeed never goes back to an older generation.
THEOREM NeverOlder == Spec => NoRollback
<1> DEFINE A == pc = "off" /\ unread' = {} => state'.table.generation >= state.table.generation
<1>1. IInv /\ [Next]_vars => [A]_vars
  <2> SUFFICES ASSUME IInv, Next, pc = "off", unread' = {} PROVE state'.table.generation >= state.table.generation
    OBVIOUS
  <2>1. PICK r : r = state
    OBVIOUS
  <2>2. PICK bad \in SUBSET Slot : Boot(bad)
    BY DEF Next, Refuse, CommitWrite, CommitError, PowerLoss, Committing, Ops
  <2>3. bad = {}
    BY <2>2 DEF Boot
  <2> QED
    BY <2>1, <2>2, <2>3, MountStep
<1> QED
  BY <1>1, Invariance, PTL DEF Spec, NoRollback

-----------------------------------------------------------------------------
(* The two slots implement the atomic root store of AtomicRoots.           *)

\* The roots a mount would accept.
store == {root_at(s) : s \in {u \in Slot : Valid(u)}}

\* The acknowledged root and, if it is valid, the one in the other slot.
LEMMA StoreIs ==
    ASSUME IInv, NEW o, o = Other(state.superblock_lba)
    PROVE  store = IF Valid(o) THEN {state, root_at(o)} ELSE {state}
<1>1. PICK s \in Slot : s = state.superblock_lba /\ Valid(s) /\ root_at(s) = state
  BY TrustedValid DEF IInv
<1>2. Slot = {s, o}
  BY <1>1, Slots
<1> QED
  BY <1>1, <1>2 DEF store

\* The same of the state after a step.
LEMMA StoreIsNext ==
    ASSUME IInv', NEW o, o = Other(state'.superblock_lba)
    PROVE  store' = IF Valid(o)' THEN {state', root_at(o)'} ELSE {state'}
<1>1. PICK s \in Slot : s = state'.superblock_lba /\ Valid(s)' /\ root_at(s)' = state'
  <2>1. PICK r, s : r = state' /\ s = r.superblock_lba
    OBVIOUS
  <2>2. /\ RootOK(r) /\ superblock'[s] = superblock_sector(r)
        /\ manifest'[s] = manifest_sectors(r.table) /\ records_valid(r.table, data')
    BY <2>1 DEF IInv, TrustedWhole
  <2>3. Valid(s)' /\ root_at(s)' = r /\ s \in Slot
    BY <2>1, <2>2, ValidSlotNext, RootFields
  <2> QED
    BY <2>1, <2>3
<1>2. Slot = {s, o}
  BY <1>1, Slots
<1> QED
  BY <1>1, <1>2 DEF store

\* What a sector write makes of the roots that can be found.
LEMMA StoreStep ==
    ASSUME IInv, IInv', Committing, WriteSector(FALSE), NEW r, r = state
    PROVE  /\ state' = state => \/ store' = store
                                \/ store' = {r}
                                \/ \E q \in roots_after(r) : store' = {r, q}
           /\ state' = new_root(pc, state) => \E q \in roots_after(r) : state' = q /\ store' = {r, q}
<1>1. PICK s, o : s = state.superblock_lba /\ o = Other(s)
  OBVIOUS
<1>2. /\ s \in Slot /\ o \in Slot /\ Other(o) = s /\ RootOK(r)
  BY <1>1, TrustedValid, Slots DEF IInv, TrustedWhole
<1>3. /\ superblock'[s] = superblock_sector(r) /\ manifest'[s] = manifest_sectors(r.table)
      /\ records_valid(r.table, data')
      /\ Valid(o)' => (Valid(o) /\ root_at(o)' = root_at(o)) \/ root_at(o)' \in roots_after(r)
  BY <1>1, WriteStep
<1>4. store = IF Valid(o) THEN {state, root_at(o)} ELSE {state}
  BY <1>1, StoreIs
<1>5. CASE state' = state
  <2>1. store' = IF Valid(o)' THEN {state', root_at(o)'} ELSE {state'}
    BY <1>1, <1>5, StoreIsNext
  <2>2. new_root(pc, state) # state
    BY CommitRoot, RootFields
  <2> QED
    BY <1>3, <1>4, <1>5, <2>1, <2>2
<1>6. CASE state' = new_root(pc, state)
  <2>1. state'.superblock_lba = o /\ state' \in roots_after(r)
    BY <1>1, <1>6, CommitRoot
  <2>2. Valid(s)' /\ root_at(s)' = r
    BY <1>1, <1>2, <1>3, ValidSlotNext
  <2>3. store' = IF Valid(s)' THEN {state', root_at(s)'} ELSE {state'}
    BY <1>2, <2>1, StoreIsNext
  <2>4. new_root(pc, state) # state
    BY CommitRoot, RootFields
  <2> QED
    BY <1>6, <2>1, <2>2, <2>3, <2>4
<1> QED
  BY <1>5, <1>6

\* Only roots of the image builder can be found at first.
LEMMA RootsInit == Init => Roots!Init
<1> SUFFICES ASSUME Init PROVE Roots!Init
  OBVIOUS
<1>1. IInv
  BY InitInv
<1>2. ~Up /\ superblock["B"] = Zero
  BY DEF Init, Up, Ops, Slot
<1>3. PICK image \in Images : state = [superblock_lba |-> "A", manifest_lba |-> "A", table |-> image.table]
  BY DEF Init
<1>4. ~Valid("B")
  BY <1>2 DEF Valid, Zero
<1>5. store = {state}
  BY <1>1, <1>3, <1>4, StoreIs DEF Other
<1> QED
  BY <1>2, <1>3, <1>5 DEF Roots!Init, store

\* The root the kernel works on, as AtomicRoots sees it.
NoRoot  == [superblock_lba |-> "none"]
trusted == IF Up THEN state ELSE NoRoot

\* Every step of the file system is a step of the atomic store or changes
\* neither the roots that can be found nor the one the kernel works on.
LEMMA RootsStep ==
    ASSUME IInv, IInv', [Next]_vars
    PROVE  [Roots!Next]_(Roots!vars)
<1>1. state # NoRoot
  <2>1. state.superblock_lba \in Slot /\ NoRoot.superblock_lba = "none"
    BY TrustedValid DEF IInv, NoRoot
  <2> QED
    BY <2>1 DEF Slot
<1>2. /\ Roots!vars = <<store, trusted>>
      /\ (Roots!vars)' = <<store', trusted'>>
  BY DEF Roots!vars, store, trusted, NoRoot
<1>3. /\ Roots!Mount <=> trusted = NoRoot /\ trusted' \in store /\ store' = store
      /\ Roots!Forget <=> trusted # NoRoot /\ store' = {trusted} /\ trusted' = trusted
      /\ Roots!Crash <=> /\ trusted # NoRoot
                         /\ \/ store' = store
                            \/ store' = {trusted}
                            \/ \E r \in roots_after(trusted) : store' = {trusted, r}
                         /\ trusted' = NoRoot
      /\ \A r : Roots!Commit(r) <=> store' = {trusted, r} /\ trusted' = r
      /\ \A r : Roots!Leak(r) <=> store' = {trusted, r} /\ trusted' = trusted
  BY DEF Roots!Mount, Roots!Forget, Roots!Crash, Roots!Commit, Roots!Leak, store, trusted, NoRoot
<1>4. Roots!Next <=> \/ Roots!Mount
                     \/ trusted # NoRoot /\ \E r \in roots_after(trusted) : Roots!Commit(r) \/ Roots!Leak(r)
                     \/ Roots!Forget
                     \/ Roots!Crash
  BY DEF Roots!Next, trusted, NoRoot
<1>5. ASSUME disk' = disk PROVE store' = store
  BY <1>5 DEF disk, store, root_at, Valid, manifest_matches
<1>6. ASSUME NEW bad \in SUBSET Slot, Boot(bad) PROVE Roots!Next \/ UNCHANGED Roots!vars
  <2>1. trusted = NoRoot /\ store' = store
    BY <1>5, <1>6 DEF Boot, trusted, Up, Ops
  <2>2. CASE pc' = "rejected"
    BY <1>2, <2>1, <2>2 DEF trusted, Up, Ops
  <2>3. CASE pc' # "rejected"
    <3>1. /\ \E u \in Slot : Valid(u) /\ state' = root_at(u)
          /\ pc' \in {"create", "done"}
      BY <1>6, <2>3, MountStep
    <3>2. trusted' = state' /\ state' \in store
      BY <3>1 DEF trusted, Up, Ops, store
    <3> QED
      BY <1>3, <1>4, <2>1, <3>2
  <2> QED
    BY <2>2, <2>3
<1>7. ASSUME Up, Up', disk' = disk, state' = state PROVE UNCHANGED Roots!vars
  BY <1>2, <1>5, <1>7 DEF trusted
<1>8. ASSUME Committing, WriteSector(FALSE), Up, Up',
             state' = state \/ state' = new_root(pc, state)
      PROVE  Roots!Next \/ UNCHANGED Roots!vars
  <2>1. trusted = state /\ trusted' = state' /\ trusted # NoRoot
    BY <1>1, <1>8 DEF trusted
  <2>2. CASE state' = state
    <3>1. store' = store \/ store' = {trusted} \/ \E q \in roots_after(trusted) : store' = {trusted, q}
      BY <1>8, <2>1, <2>2, StoreStep
    <3> QED
      BY <1>2, <1>3, <1>4, <2>1, <2>2, <3>1
  <2>3. CASE state' = new_root(pc, state)
    <3>1. \E q \in roots_after(trusted) : state' = q /\ store' = {trusted, q}
      BY <1>8, <2>1, <2>3, StoreStep
    <3> QED
      BY <1>3, <1>4, <2>1, <3>1
  <2> QED
    BY <1>8, <2>2, <2>3
<1>9. ASSUME pc \in Ops, Return PROVE Up /\ Up'
  BY <1>9 DEF Return, after, Up, Ops
<1>10. ASSUME Refuse PROVE Roots!Next \/ UNCHANGED Roots!vars
  <2>1. pc \in Ops /\ Return /\ disk' = disk /\ state' = state
    BY <1>10 DEF Refuse, disk
  <2> QED
    BY <1>7, <1>9, <2>1
<1>11. ASSUME CommitWrite PROVE Roots!Next \/ UNCHANGED Roots!vars
  <2>1. Committing /\ WriteSector(FALSE) /\ pc \in Ops
    BY <1>11, Verified DEF CommitWrite, Committing
  <2>2. /\ state' = state \/ state' = new_root(pc, state)
        /\ pc' = pc \/ Return
    BY <1>11 DEF CommitWrite
  <2>3. Up /\ Up'
    BY <1>9, <2>1, <2>2 DEF Up
  <2> QED
    BY <1>8, <2>1, <2>2, <2>3
<1>12. ASSUME CommitError PROVE Roots!Next \/ UNCHANGED Roots!vars
  <2>1. Committing /\ WriteSector(FALSE) /\ pc \in Ops /\ Return /\ state' = state
    BY <1>12 DEF CommitError, Committing
  <2> QED
    BY <1>8, <1>9, <2>1
<1>13. ASSUME PowerLoss PROVE Roots!Next \/ UNCHANGED Roots!vars
  <2>1. /\ trusted' = NoRoot /\ state' = state
        /\ IF Committing THEN WriteSector(FALSE) ELSE disk' = disk
    BY <1>13 DEF PowerLoss, trusted, Up, Ops, disk
  <2>2. CASE Up
    <3>1. trusted = state /\ trusted # NoRoot
      BY <1>1, <2>2 DEF trusted
    <3>2. store' = store \/ store' = {trusted} \/ \E q \in roots_after(trusted) : store' = {trusted, q}
      <4>1. CASE Committing
        BY <2>1, <3>1, <4>1, StoreStep
      <4>2. CASE ~Committing
        BY <1>5, <2>1, <4>2
      <4> QED
        BY <4>1, <4>2
    <3> QED
      BY <1>3, <1>4, <2>1, <3>1, <3>2
  <2>3. CASE ~Up
    <3>1. ~Committing /\ trusted = NoRoot
      BY <2>3 DEF Committing, Up, trusted
    <3> QED
      BY <1>2, <1>5, <2>1, <3>1
  <2> QED
    BY <2>2, <2>3
<1>14. CASE UNCHANGED vars
  BY <1>2, <1>5, <1>14 DEF vars, trusted, Up
<1> QED
  BY <1>6, <1>10, <1>11, <1>12, <1>13, <1>14 DEF Next

\* Through failed writes, lost power and reboots the two slots are an atomic
\* store of whole roots.
THEOREM RootsRefined == Spec => RootsAtomic
<1>1. Init => Roots!Init
  BY RootsInit
<1>2. IInv /\ IInv' /\ [Next]_vars => [Roots!Next]_(Roots!vars)
  BY RootsStep
<1> QED
  BY <1>1, <1>2, Invariance, PTL DEF Spec, RootsAtomic, Roots!Spec
=============================================================================

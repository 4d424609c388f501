--------------------------- MODULE MCPersistence ---------------------------
(* Disk images for the TLC instances of PersistentBogFs.                   *)
EXTENDS PersistentBogFs

Entry(path, type, lba, content, id) ==
    [path |-> path, version |-> 1, type |-> type, lba |-> lba, content |-> content, lifecycle_id |-> id]

Directories == << Entry("/apps", "directory", 0, "none", 1), Entry("/data", "directory", 0, "none", 2),
                  Entry("/receipts", "directory", 0, "none", 3), Entry("/system", "directory", 0, "none", 4) >>

Image(files, used, contents) ==
    [table |-> [generation |-> 1, next_free_lba |-> used + 1,
                next_lifecycle_id |-> Len(files) + 5, records |-> Directories \o files],
     data  |-> contents]

\* scripts/make_v38_file_lifecycle_image.py
LifecycleImage ==
    Image(<< Entry(DELETE_PATH, "file", 1, "V38-DELETE-ME", 5),
             Entry("/data/keep.txt", "file", 2, "V38-KEEP", 6) >>,
          2, <<"V38-DELETE-ME", "V38-KEEP", "zero">>)

\* scripts/make_v40_genesis_workspace_root_image.py
GenesisImage ==
    Image(<< Entry("/data/keep.txt", "file", 1, "V40-BASE", 5),
             Entry("/system/genesis_root", "genesis", 2, "GENESIS", 6) >>,
          2, <<"V40-BASE", "GENESIS", "zero">>)

Texts == {"/apps", "/data", "/receipts", "/system", NEW_PATH, DELETE_PATH, "/data/keep.txt", "none",
          "empty", "zero", "torn", WRITE_DATA, "V38-DELETE-ME", "V38-KEEP"}

LifecycleImages == {LifecycleImage}
GenesisImages   == {GenesisImage}
============================================================================

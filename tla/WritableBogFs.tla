--------------------------- MODULE WritableBogFs ---------------------------
(***************************************************************************)
(* The writable in-memory BogFS of v35 (main.rs 841-883, 3692-3740,        *)
(* 4403-4566): a fixed table of files behind three system calls.  A call   *)
(* runs with interrupts disabled; processes are preempted between calls.   *)
(*                                                                         *)
(* A file is an array of blocks and the number in use; a hash is the       *)
(* hashed sequence.  Rejected calls change nothing and are not steps.  For *)
(* each process the model remembers what bogfs_stat last told it, and what *)
(* it read of that file since.                                             *)
(***************************************************************************)
EXTENDS Integers, Sequences, FiniteSetsExt

CONSTANTS Path,                    \* the paths of the table
          Writable, HashFail,      \* its flags writable and force_hash_failure
          Pid, Admitted,           \* processes, and those the dynamic loader admitted
          Block, Zero,             \* contents of a block; Zero fills the staging buffer
          MAX_FILE_SIZE,           \* 64 bytes, in blocks
          TOTAL_CAPACITY,          \* 96 bytes, in blocks
          VERSIONS,                \* 2^32, where a version wraps
          MaxVersion,              \* bound on the versions explored
          None

ASSUME BogFsAssumption ==
  /\ IsFiniteSet(Path) /\ Writable \subseteq Path /\ HashFail \subseteq Path /\ Admitted \subseteq Pid
  /\ MAX_FILE_SIZE \in Nat /\ TOTAL_CAPACITY \in Nat
  /\ VERSIONS \in Nat /\ MaxVersion \in Nat /\ MaxVersion < VERSIONS
  /\ Zero \in Block

VARIABLES files,       \* WRITABLE_BOGFS_FILES
          last_stat,   \* per process: path, version and hash it was last told, or None
          last_read    \* per process: what it has read of that path since, or None

vars == <<files, last_stat, last_read>>

Array == [1..MAX_FILE_SIZE -> Block]

\* data[..length]
Content(file) == [k \in 1..file.length |-> file.data[k]]

\* What user memory holds at the data pointer: one block for every length allowed.
Buffer == UNION {[1..n -> Block] : n \in 0..MAX_FILE_SIZE + 1}

-----------------------------------------------------------------------------
Init ==
  /\ files = [p \in Path |-> [length |-> 0, version |-> 0, hash |-> <<>>,
                              data |-> [k \in 1..MAX_FILE_SIZE |-> Zero]]]
  /\ last_stat = [i \in Pid |-> None]
  /\ last_read = [i \in Pid |-> None]

active_writable_bogfs_pid(pid) == pid \in Admitted

used_bytes(table) == MapThenSumSet(LAMBDA p : table[p].length, Path)
writable_bogfs_used_bytes == used_bytes(files)

valid_length(length) == length > 0 /\ length <= MAX_FILE_SIZE

has_room_Before(p, length) == writable_bogfs_used_bytes <= TOTAL_CAPACITY   \* mutant: what the write adds is left out
has_room(p, length) == writable_bogfs_used_bytes - files[p].length + length <= TOTAL_CAPACITY

staged(bytes) == [k \in 1..MAX_FILE_SIZE |-> IF k <= Len(bytes) THEN bytes[k] ELSE Zero]

committed_SameVersion(file, bytes) ==        \* mutant: only a new length is a new version
  [length |-> Len(bytes), version |-> IF Len(bytes) = file.length THEN file.version ELSE (file.version + 1) % VERSIONS,
   hash |-> bytes, data |-> staged(bytes)]
committed_Grown(file, bytes) ==              \* mutant: a shorter write does not shrink the file
  [length |-> IF Len(bytes) > file.length THEN Len(bytes) ELSE file.length, version |-> (file.version + 1) % VERSIONS,
   hash |-> bytes, data |-> staged(bytes)]

committed(file, bytes) ==
  [length |-> Len(bytes), version |-> (file.version + 1) % VERSIONS, hash |-> bytes, data |-> staged(bytes)]

bogfs_write(pid, p, bytes) ==
  /\ active_writable_bogfs_pid(pid) /\ valid_length(Len(bytes))
  /\ p \in Writable /\ p \notin HashFail /\ has_room(p, Len(bytes))
  /\ files[p].version < MaxVersion
  /\ files' = [files EXCEPT ![p] = committed(@, bytes)]
  /\ UNCHANGED <<last_stat, last_read>>

verified(file) == Content(file) = file.hash

\* The buffer of the process is large enough; a refused read told it nothing.
bogfs_read(pid, p) ==
  /\ active_writable_bogfs_pid(pid) /\ verified(files[p])
  /\ last_read' = IF last_stat[pid] # None /\ last_stat[pid].path = p
                    THEN [last_read EXCEPT ![pid] = Content(files[p])] ELSE last_read
  /\ UNCHANGED <<files, last_stat>>

bogfs_stat(pid, p) ==
  /\ active_writable_bogfs_pid(pid) /\ verified(files[p])
  /\ last_stat' = [last_stat EXCEPT ![pid] = [path |-> p, version |-> files[p].version, hash |-> files[p].hash]]
  /\ last_read' = [last_read EXCEPT ![pid] = None]
  /\ UNCHANGED files

Next == \E pid \in Pid, p \in Path :
          \/ \E bytes \in Buffer : bogfs_write(pid, p, bytes)
          \/ bogfs_read(pid, p)
          \/ bogfs_stat(pid, p)

Spec == Init /\ [][Next]_vars

-----------------------------------------------------------------------------
Hash == UNION {[1..n -> Block] : n \in 0..MAX_FILE_SIZE}
File == [length : 0..MAX_FILE_SIZE, version : 0..MaxVersion, hash : Hash, data : Array]
Stat == [path : Path, version : 0..MaxVersion, hash : Hash]

\* Lengths, versions and hashes stay in their ranges.
TypeOK ==
  /\ files \in [Path -> File]
  /\ last_stat \in [Pid -> Stat \cup {None}]
  /\ last_read \in [Pid -> Hash \cup {None}]

\* committed_hash_mismatch never happens: after any sequence of shorter and longer
\* writes the bytes in use are the ones that were hashed (bogfs_write).
CommittedVerifies == \A p \in Path : verified(files[p])

\* Two equal versions around a read mean that the bytes read are the ones stat
\* described, although other processes may have written in between (bogfs_stat).
StatBracketsRead ==
  \A pid \in Pid :
    last_stat[pid] # None /\ last_read[pid] # None
      /\ files[last_stat[pid].path].version = last_stat[pid].version
    => last_read[pid] = last_stat[pid].hash

\* The table never holds more than the capacity, and what a write replaces is never
\* more than what is in use (used - old + new, unsigned).
CapacityKept ==
  /\ writable_bogfs_used_bytes <= TOTAL_CAPACITY
  /\ \A p \in Path : files[p].length <= writable_bogfs_used_bytes
=============================================================================

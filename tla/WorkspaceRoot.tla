---------------------------- MODULE WorkspaceRoot ----------------------------
(***************************************************************************)
(* The v40 workspace root and the v41 journal, as the Python oracle        *)
(* (kernel/tools/gen_v40_workspace_vectors.py) defines them and the        *)
(* evaluator drives them: operations are checked against the current root, *)
(* accepted ones move it and append a chained journal entry, a rollback    *)
(* appends one more, and the image that is written holds the last root,    *)
(* the journal head and the entries.  A hash is the hashed record itself.  *)
(***************************************************************************)
EXTENDS Integers, Sequences, FiniteSets, SequencesExt

CONSTANTS Paths, Contents,       \* what operations name
          MAX_OBJECTS, MAX_PATHS, MAX_CONTENT, MAX_PATH_B,
          Length,                \* path -> its length in bytes
          Size,                  \* content -> its length in bytes
          MaxTried,              \* bound: operations submitted
          None

\* Why apply may refuse an operation.
Refusals == {"InvalidOldRoot", "PathTooLong", "PathEmpty", "ContentTooLarge", "InvalidCapability",
             "PathNotFound", "PathAlreadyExists", "NoSlotsAvailable"}

\* What the constants are; the MC modules assume it of each instance.
WorkspaceAssumption ==
  /\ MAX_OBJECTS \in Nat /\ MAX_PATHS \in Nat \ {0, 1} /\ MAX_CONTENT \in Nat /\ MAX_PATH_B \in Nat
  /\ Length \in [Paths -> Nat] /\ Size \in [Contents -> Nat]
  /\ MaxTried \in Nat
  /\ None \notin Refusals

VARIABLES root, objects, index,   \* WorkspaceRoot, object table, path index
          accepted,               \* the operations accepted so far, oldest first
          tried,                  \* how many operations were submitted
          journal, head, active,  \* entries, ledger head, root the ledger says is active
          image                   \* what was written to disk

vars == <<root, objects, index, accepted, tried, journal, head, active, image>>

Kinds == {"CreateFile", "EditFile", "CreateDirectory"}
CAP == "CAPv1write:/workspace"
ZERO == None

\* ws_root_h: what the root hash commits to (obj_table_h and path_idx_h sort their
\* entries, so they commit to a set of objects and to a function).
RootOf(objs, paths, previous, receipt) ==
  [objects |-> {objs[i] : i \in DOMAIN objs}, index |-> paths, previous |-> previous, receipt |-> receipt]

EmptyRoot == RootOf(<<>>, <<>>, ZERO, ZERO)

Init == /\ root = EmptyRoot /\ objects = <<>> /\ index = <<>> /\ accepted = <<>> /\ tried = 0
        /\ journal = <<>> /\ head = ZERO /\ active = EmptyRoot /\ image = None

\* op_payload names the path itself; the separate target_path_hash is not part of it.
op_h(op, path) == [kind |-> op.kind, old |-> op.old, path |-> path, content |-> op.content, cap |-> op.cap]

mk_obj(kind, content, by) == [kind |-> kind, content |-> content, size |-> Size[content], by |-> by]

\* Why apply refuses an operation; None when it accepts it.
refusal(op, path) ==
  IF root # op.old THEN "InvalidOldRoot"
  ELSE IF Length[path] > MAX_PATH_B THEN "PathTooLong"
  ELSE IF Length[path] = 0 THEN "PathEmpty"
  ELSE IF Size[op.content] > MAX_CONTENT THEN "ContentTooLarge"
  ELSE IF op.cap # CAP THEN "InvalidCapability"
  ELSE IF op.path # path THEN "PathNotFound"
  ELSE IF (op.kind = "EditFile") # (path \in DOMAIN index)
       THEN IF op.kind = "EditFile" THEN "PathNotFound" ELSE "PathAlreadyExists"
  ELSE IF Len(objects) >= MAX_OBJECTS \/ (op.kind # "EditFile" /\ Cardinality(DOMAIN index) >= MAX_PATHS)
       THEN "NoSlotsAvailable" ELSE None

NewObject(op, path) ==
  mk_obj(IF op.kind = "CreateDirectory" THEN "Directory" ELSE "File", op.content, op_h(op, path))

\* Object added, path pointed at it.
Indexed(op, path) ==
  [p \in DOMAIN index \cup {path} |-> IF p = path THEN NewObject(op, path) ELSE index[p]]

(***************************************************************************)
(* Journal                                                                 *)
(***************************************************************************)
journal_entry(seq, prev, op, old, new) == [seq |-> seq, prev |-> prev, op |-> op, old |-> old, new |-> new]

append_journal(op, old, new) ==
  LET entry == journal_entry(Len(journal) + 1, head, op, old, new)
  IN journal' = Append(journal, entry) /\ head' = entry /\ active' = new

\* Walks the entries backwards from the head; nothing is said about where it ends.
verify_Head(ledger, entries) ==               \* mutant: only the newest entry is compared
  entries # <<>> => Last(entries) = ledger

verify_journal_chain(ledger, entries) ==
  \A i \in DOMAIN entries :
    entries[i] = IF i = Len(entries) THEN ledger ELSE entries[i + 1].prev

Apply(op, path) ==
  /\ image = None /\ active = root /\ tried < MaxTried /\ tried' = tried + 1
  /\ \/ /\ refusal(op, path) # None
        /\ UNCHANGED <<root, objects, index, accepted, journal, head, active>>
     \/ /\ refusal(op, path) = None
        /\ objects' = Append(objects, NewObject(op, path))
        /\ index' = Indexed(op, path)
        /\ root' = RootOf(objects', index', root, op_h(op, path))
        /\ accepted' = Append(accepted, <<op, path>>)
        /\ append_journal(op_h(op, path), root, root')
  /\ UNCHANGED image

\* The rollback entry: the ledger goes back to an earlier root, the workspace state
\* itself is left as it is.
RollBack(target) ==
  /\ image = None /\ active = root /\ tried < MaxTried /\ tried' = tried + 1
  /\ target # root /\ target \in {journal[i].new : i \in DOMAIN journal}
  /\ append_journal([kind |-> "v41-rollback-op"], root, target)
  /\ UNCHANGED <<root, objects, index, accepted, image>>

\* make_v41_journal_persisted_image: genesis with the head, and the entries it is given.
Persist(entries) ==
  /\ image = None /\ journal # <<>>
  /\ image' = [workspace |-> active, ledger |-> head, blob |-> entries]
  /\ UNCHANGED <<root, objects, index, accepted, tried, journal, head, active>>

\* The operations a client may submit: well formed against some root it once saw, or
\* with a foreign capability, or with a path hash that is not the path's.
Roots == {EmptyRoot, root} \cup {journal[i].new : i \in DOMAIN journal}
Operation == [kind : Kinds, old : Roots, path : Paths, content : Contents, cap : {CAP, "none"}]

\* The entries on disk: as they were appended, or damaged, with some left out, two
\* exchanged, or one leading to another root.
Ascending(n) == {at \in [1..n -> DOMAIN journal] : \A i, j \in 1..n : i < j => at[i] < at[j]}
LeftOut(n) == {[i \in 1..n |-> journal[at[i]]] : at \in Ascending(n)}
Exchanged == {[journal EXCEPT ![i] = journal[j], ![j] = journal[i]] : i, j \in DOMAIN journal}
Redirected == {[journal EXCEPT ![i].new = r] : i \in DOMAIN journal, r \in Roots}
Damaged == (UNION {LeftOut(n) : n \in 0..Len(journal)}) \cup Exchanged \cup Redirected

Next == \/ \E op \in Operation, path \in Paths : Apply(op, path)
        \/ \E target \in Roots : RollBack(target)
        \/ \E entries \in Damaged : Persist(entries)

Spec == Init /\ [][Next]_vars

(***************************************************************************)
(* compute_all_vectors: for each golden vector, the operations applied     *)
(* before it, the operation it records, and the `accepted' it records.     *)
(***************************************************************************)
Vector(kind, path, claimed, cap, known, recorded) ==
  [kind |-> kind, path |-> path, claimed |-> claimed, cap |-> cap, known |-> known, recorded |-> recorded]

Vectors(p, q) ==
  [create_directory_workspace   |-> Vector("CreateDirectory", p, p, CAP, {}, TRUE),
   create_file_hello            |-> Vector("CreateFile", q, q, CAP, {p}, TRUE),
   edit_file_hello_v40          |-> Vector("EditFile", q, q, CAP, {p, q}, TRUE),
   bad_capability_rejection     |-> Vector("CreateFile", p, p, "none", {}, FALSE),
   path_tamper_rejection        |-> Vector("CreateFile", q, p, CAP, {}, FALSE),
   content_tamper_good          |-> Vector("CreateFile", p, p, CAP, {}, TRUE)]

-----------------------------------------------------------------------------
\* The object table and the path index stay within their limits, and the journal has one
\* entry per accepted operation, with one more for a rollback.
TypeOK ==
  /\ Len(objects) <= MAX_OBJECTS /\ Cardinality(DOMAIN index) <= MAX_PATHS
  /\ DOMAIN index \subseteq Paths /\ tried \in 0..MaxTried
  /\ Len(journal) \in {Len(accepted), Len(accepted) + 1}
  /\ active \in Roots

\* An operation delivered twice is applied once: the root it was made for is gone.
AppliedOnce == \A i, j \in DOMAIN accepted : accepted[i] = accepted[j] => i = j

\* Every path leads to an object of the table that holds what the last accepted
\* operation on that path wrote.
PathsCurrent ==
  \A p \in DOMAIN index :
    LET on == {i \in DOMAIN accepted : accepted[i][2] = p}
        last == CHOOSE i \in on : \A j \in on : j <= i
    IN on # {} /\ index[p] = objects[last] /\ index[p].content = accepted[last][1].content

\* An object slot is spent by every accepted operation, edits included, and never
\* given back: a workspace takes at most MAX_OBJECTS operations in its life.
SlotsSpent == Len(objects) = Len(accepted) /\ Len(accepted) <= MAX_OBJECTS

\* A journal that verifies against the head is, entry for entry, the newest part of
\* what was appended: no entry was altered, dropped in the middle or reordered.
VerifiedIsSuffix ==
  image # None /\ verify_journal_chain(image.ledger, image.blob)
    => IsSuffix(image.blob, journal)

\* An image with the entries as they were appended verifies, and its workspace root is the
\* one the newest entry leads to.
ImageConsistent ==
  image # None /\ image.blob = journal =>
    /\ verify_journal_chain(image.ledger, image.blob)
    /\ Last(image.blob).new = image.workspace

\* Every golden vector records what apply returns for its operation in any state that
\* holds its paths and has room, and tampered content, though applied (the vector
\* content_tamper_root_mismatch), leads to another root.
VectorsReproduced ==
  \A p, q \in {x \in Paths : Length[x] \in 1..MAX_PATH_B}, c \in {x \in Contents : Size[x] <= MAX_CONTENT} :
    p # q /\ Len(objects) < MAX_OBJECTS =>
    \A n \in DOMAIN Vectors(p, q) :
      LET v == Vectors(p, q)[n]
          op == [kind |-> v.kind, old |-> root, path |-> v.claimed, content |-> c, cap |-> v.cap]
          After(o) == RootOf(Append(objects, NewObject(o, v.path)), Indexed(o, v.path), root, op_h(o, v.path))
      IN DOMAIN index = v.known =>
           /\ (refusal(op, v.path) = None) = v.recorded
           /\ \A d \in Contents \ {c} : After([op EXCEPT !.content = d]) # After(op)

\* What the roots and the journal tell of the operations on a workspace.
WorkspaceHistory ==
  /\ TypeOK /\ AppliedOnce /\ PathsCurrent /\ SlotsSpent
  /\ VerifiedIsSuffix /\ ImageConsistent /\ VectorsReproduced

-----------------------------------------------------------------------------
\* What the documents say and the code does not do (README, section 6).

\* "Verify an entire journal chain from head."
EntireChainVerified ==
  image # None /\ verify_journal_chain(image.ledger, image.blob) => image.blob = journal
=============================================================================

-------------------------- MODULE MCGuestsProofs ---------------------------
(***************************************************************************)
(* The guests of the kernel, for any sizes.  The scenario of a behaviour   *)
(* never changes, so it is a behaviour of one component.                   *)
(*                                                                         *)
(* Workspace roots.  A hash commits to the record it is of, and a root to  *)
(* the objects below it.  So an object names the root its operation was    *)
(* made for, that root the objects before it, and none of these the object *)
(* itself: this is why no object occurs twice (Chained), no operation is   *)
(* accepted twice, and the journal can be followed back from its head.     *)
(***************************************************************************)
EXTENDS MCGuests, FiniteSetTheorems, SequenceTheorems, WellFoundedInduction, TLAPS

(***************************************************************************)
(* Sequences without a set that holds their elements, and least elements.  *)
(***************************************************************************)
IsSeq(s) == s \in Seq({s[i] : i \in DOMAIN s})

\* A function on 1..n is a sequence of length n.
LEMMA SeqForm ==
  ASSUME NEW n \in Nat, NEW s, s = [i \in 1..n |-> s[i]]
  PROVE  IsSeq(s) /\ Len(s) = n /\ DOMAIN s = 1..n
<1> DEFINE S == {s[i] : i \in DOMAIN s}
<1>1. DOMAIN s = 1..n
  OBVIOUS
<1>2. s \in [1..n -> S]
  BY <1>1
<1>3. s \in Seq(S)
  BY <1>2, SeqDef
<1> QED BY <1>1, <1>3, LenProperties DEF IsSeq

\* What Append does to a sequence.
LEMMA Appended ==
  ASSUME NEW s, IsSeq(s), NEW e, NEW t, t = Append(s, e)
  PROVE  /\ IsSeq(t) /\ Len(s) \in Nat /\ DOMAIN s = 1..Len(s)
         /\ Len(t) = Len(s) + 1 /\ DOMAIN t = 1..(Len(s) + 1)
         /\ \A i \in 1..Len(s) : t[i] = s[i]
         /\ t[Len(s) + 1] = e
<1> DEFINE S == {s[i] : i \in DOMAIN s} \cup {e}
<1>1. s \in Seq(S)
  <2>1. s \in Seq({s[i] : i \in DOMAIN s})
    BY DEF IsSeq
  <2> QED BY <2>1, SeqDef
<1>2. e \in S
  OBVIOUS
<1> HIDE DEF S
<1>3. Len(s) \in Nat /\ DOMAIN s = 1..Len(s)
  BY <1>1, LenProperties
<1>4. t \in Seq(S) /\ Len(t) = Len(s) + 1
  BY <1>1, <1>2, AppendProperties
<1>5. t[Len(s) + 1] = e /\ \A i \in 1..Len(s) : t[i] = s[i]
  BY <1>1, <1>2, AppendProperties
<1>6. DOMAIN t = 1..(Len(s) + 1) /\ t = [i \in 1..(Len(s) + 1) |-> t[i]]
  BY <1>4, LenProperties
<1>7. IsSeq(t)
  <2>1. Len(s) + 1 \in Nat
    BY <1>3
  <2> QED BY <2>1, <1>6, SeqForm
<1> QED BY <1>3, <1>4, <1>5, <1>6, <1>7

\* The empty sequence is one.
LEMMA EmptyIsSeq == IsSeq(<<>>) /\ Len(<<>>) = 0 /\ DOMAIN <<>> = {}
BY EmptySeq DEF IsSeq

\* Cardinality is the same operator in the instance.
LEMMA SameCardinality == ASSUME NEW S PROVE Work!Cardinality(S) = Cardinality(S)
BY DEF Work!Cardinality, Cardinality

\* A set of naturals that has an element has a least one.
LEMMA Least ==
  ASSUME NEW T \in SUBSET Nat, T # {}
  PROVE  \E x \in T : \A y \in T : x <= y
<1> DEFINE R == OpToRel(<, Nat)
<1>1. IsWellFoundedOn(R, Nat)
  BY NatLessThanWellFounded, Zenon
<1>2. PICK x \in T : \A y \in T : ~(<<y, x>> \in R)
  BY <1>1, WFMin, Zenon
<1>3. \A y \in T : ~(y < x)
  BY <1>2 DEF OpToRel
<1> QED BY <1>3

(***************************************************************************)
(* The inductive invariant.                                                *)
(***************************************************************************)
\* One object per accepted operation, within the limits.
Tables ==
  /\ IsSeq(objects) /\ IsSeq(accepted) /\ Len(objects) = Len(accepted) /\ Len(objects) <= MAX_OBJECTS
  /\ DOMAIN index \subseteq WorkPaths /\ IsFiniteSet(DOMAIN index) /\ Cardinality(DOMAIN index) <= MAX_PATHS
  /\ tried \in 0..MaxTried

\* Object i is what operation i left; its operation was made for the root that commits to
\* the objects before it, and the root commits to all of them.  No object is there twice.
Chained ==
  /\ root.objects = {objects[i] : i \in 1..Len(objects)}
  /\ \A i \in 1..Len(objects) :
       /\ objects[i].by.old = accepted[i][1].old
       /\ objects[i].content = accepted[i][1].content
       /\ accepted[i][1].old.objects = {objects[k] : k \in 1..(i - 1)}
  /\ \A i, j \in 1..Len(objects) : objects[i] = objects[j] => i = j

\* Operation i was the last one on path p.
LastOn(i, p) ==
  /\ i \in 1..Len(accepted) /\ accepted[i][2] = p
  /\ \A j \in 1..Len(accepted) : accepted[j][2] = p => j <= i

\* A path leads to the object of the last operation on it.
Indices == \A p \in DOMAIN index : \E i \in 1..Len(accepted) : LastOn(i, p) /\ index[p] = objects[i]

\* Every entry names the one before it, the head is the newest, and the ledger's root is
\* where the newest leads; until a rollback this is the workspace's own root.
Journalled ==
  /\ IsSeq(journal)
  /\ \A i \in 1..(Len(journal) - 1) : journal[i] = journal[i + 1].prev
  /\ Len(journal) > 0 => head = journal[Len(journal)] /\ active = journal[Len(journal)].new
  /\ \/ active = root /\ Len(journal) = Len(accepted)
     \/ active # root /\ Len(journal) = Len(accepted) + 1

\* What was written is the head and the root of the ledger, with the journal's entries
\* as they were or fewer.
Written ==
  image # None =>
    /\ image.ledger = head /\ image.workspace = active /\ Len(journal) > 0
    /\ IsSeq(image.blob) /\ Len(image.blob) <= Len(journal)

WorkInv == Tables /\ Chained /\ Indices /\ Journalled /\ Written

(***************************************************************************)
(* Every step keeps it.                                                    *)
(***************************************************************************)
\* Init: nothing accepted, nothing recorded.
LEMMA WorkInitially == ASSUME Work!WorkspaceAssumption PROVE Work!Init => WorkInv
<1> SUFFICES ASSUME Work!Init PROVE WorkInv
  OBVIOUS
<1>1. /\ objects = <<>> /\ accepted = <<>> /\ journal = <<>> /\ index = <<>> /\ tried = 0
      /\ active = root /\ image = None
  BY DEF Work!Init
<1>2. root.objects = {}
  BY EmptyIsSeq DEF Work!Init, Work!EmptyRoot, Work!RootOf
<1>3. Tables
  BY <1>1, EmptyIsSeq, FS_EmptySet DEF Tables, Work!WorkspaceAssumption
<1>4. Chained
  BY <1>1, <1>2, EmptyIsSeq DEF Chained
<1>5. Indices
  BY <1>1, EmptyIsSeq DEF Indices
<1>6. Journalled
  BY <1>1, EmptyIsSeq DEF Journalled
<1>7. Written
  BY <1>1 DEF Written
<1> QED BY <1>3, <1>4, <1>5, <1>6, <1>7 DEF WorkInv

\* What apply checked before it accepted an operation.
LEMMA AcceptedMeans ==
  ASSUME Work!WorkspaceAssumption, NEW op, NEW path, Work!refusal(op, path) = None
  PROVE  /\ op.old = root /\ ~(Len(objects) >= MAX_OBJECTS)
         /\ (op.kind = "EditFile") <=> (path \in DOMAIN index)
         /\ op.kind # "EditFile" => ~(Cardinality(DOMAIN index) >= MAX_PATHS)
BY SameCardinality DEF Work!refusal, Work!WorkspaceAssumption, Work!Refusals

\* One more object, of one more operation, keeps the tables chained.
LEMMA ChainedStep ==
  ASSUME WorkInv, NEW op, NEW path, op.old = root,
         objects' = Append(objects, Work!NewObject(op, path)),
         index' = Work!Indexed(op, path),
         root' = Work!RootOf(objects', index', root, Work!op_h(op, path)),
         accepted' = Append(accepted, <<op, path>>)
  PROVE  Chained'
<1> DEFINE o == Work!NewObject(op, path)
           n == Len(objects)
<1>1. o.by.old = root /\ o.content = op.content
  BY DEF Work!NewObject, Work!mk_obj, Work!op_h
<1>2. /\ IsSeq(objects) /\ IsSeq(accepted) /\ Len(accepted) = n
  BY DEF WorkInv, Tables
<1>3. /\ n \in Nat /\ Len(objects') = n + 1 /\ DOMAIN objects' = 1..(n + 1) /\ objects'[n + 1] = o
      /\ \A i \in 1..n : objects'[i] = objects[i]
  BY <1>2, Appended
<1>4. /\ accepted'[n + 1] = <<op, path>> /\ \A i \in 1..n : accepted'[i] = accepted[i]
  BY <1>2, Appended
<1>5. root'.objects = {objects'[i] : i \in DOMAIN objects'}
  BY DEF Work!RootOf
<1>6. /\ root.objects = {objects[i] : i \in 1..n}
      /\ \A i \in 1..n : /\ objects[i].by.old = accepted[i][1].old
                         /\ objects[i].content = accepted[i][1].content
                         /\ accepted[i][1].old.objects = {objects[k] : k \in 1..(i - 1)}
      /\ \A i, j \in 1..n : objects[i] = objects[j] => i = j
  BY DEF WorkInv, Chained
<1> HIDE DEF o, n
<1>7. ASSUME NEW i \in 1..n, objects[i] = o PROVE FALSE
  <2>1. objects[i].by.old = root
    BY <1>1, <1>7
  <2>2. root.objects = {objects[k] : k \in 1..(i - 1)}
    BY <1>6, <2>1
  <2>3. objects[i] \in {objects[k] : k \in 1..(i - 1)}
    BY <1>6, <2>2
  <2>4. PICK k \in 1..(i - 1) : objects[i] = objects[k]
    BY <2>3
  <2>5. k \in 1..n /\ k # i
    BY <1>3
  <2> QED BY <2>4, <2>5, <1>6
<1>8. \A i, j \in 1..(n + 1) : objects'[i] = objects'[j] => i = j
  <2> SUFFICES ASSUME NEW i \in 1..(n + 1), NEW j \in 1..(n + 1), objects'[i] = objects'[j]
               PROVE  i = j
    OBVIOUS
  <2>1. CASE i \in 1..n /\ j \in 1..n
    BY <2>1, <1>3, <1>6
  <2>2. CASE i = n + 1 /\ j \in 1..n
    BY <2>2, <1>3, <1>7
  <2>3. CASE j = n + 1 /\ i \in 1..n
    BY <2>3, <1>3, <1>7
  <2> QED BY <2>1, <2>2, <2>3, <1>3
<1>9. ASSUME NEW i \in 1..(n + 1)
      PROVE  /\ objects'[i].by.old = accepted'[i][1].old
             /\ objects'[i].content = accepted'[i][1].content
             /\ accepted'[i][1].old.objects = {objects'[k] : k \in 1..(i - 1)}
  <2> DEFINE preceding == {objects[k] : k \in 1..(i - 1)}
  <2>1. {objects'[k] : k \in 1..(i - 1)} = preceding
    <3>1. \A k \in 1..(i - 1) : objects'[k] = objects[k]
      BY <1>3
    <3> QED BY <3>1
  <2>2. i \in 1..n => accepted[i][1].old.objects = preceding
    BY <1>6
  <2>3. i = n + 1 => root.objects = preceding
    BY <1>6, <1>3
  <2> HIDE DEF preceding
  <2>4. CASE i \in 1..n
    <3>1. objects'[i] = objects[i] /\ accepted'[i] = accepted[i]
      BY <2>4, <1>3, <1>4
    <3> QED BY <3>1, <2>1, <2>2, <2>4, <1>6
  <2>5. CASE i = n + 1
    <3>1. accepted'[i] = <<op, path>> /\ objects'[i] = o
      BY <2>5, <1>3, <1>4, Zenon
    <3>2. accepted'[i][1] = op
      <4>1. <<op, path>>[1] = op
        OBVIOUS
      <4> QED BY <4>1, <3>1, Zenon
    <3> QED BY <3>1, <3>2, <2>1, <2>3, <2>5, <1>1
  <2>6. i \in 1..n \/ i = n + 1
    BY <1>3
  <2> QED BY <2>4, <2>5, <2>6, Zenon
<1> QED BY <1>3, <1>5, <1>8, <1>9 DEF Chained

\* The path of the new operation leads to its object, the others where they led.
LEMMA IndicesStep ==
  ASSUME WorkInv, NEW op, NEW path,
         objects' = Append(objects, Work!NewObject(op, path)),
         index' = Work!Indexed(op, path),
         accepted' = Append(accepted, <<op, path>>)
  PROVE  Indices'
<1> DEFINE o == Work!NewObject(op, path)
           n == Len(objects)
<1>2. /\ IsSeq(objects) /\ IsSeq(accepted) /\ Len(accepted) = n
  BY DEF WorkInv, Tables
<1>3. /\ n \in Nat /\ Len(objects') = n + 1 /\ objects'[n + 1] = o
      /\ \A i \in 1..n : objects'[i] = objects[i]
  BY <1>2, Appended
<1>4. /\ Len(accepted') = n + 1 /\ accepted'[n + 1] = <<op, path>>
      /\ \A i \in 1..n : accepted'[i] = accepted[i]
  BY <1>2, Appended
<1>5. \A p \in DOMAIN index : \E i \in 1..n : LastOn(i, p) /\ index[p] = objects[i]
  BY <1>2 DEF WorkInv, Indices
<1>6. /\ DOMAIN index' = DOMAIN index \cup {path} /\ index'[path] = o
      /\ \A p \in DOMAIN index : p # path => index'[p] = index[p]
  BY DEF Work!Indexed
<1> HIDE DEF o, n
<1>7. SUFFICES ASSUME NEW p \in DOMAIN index'
               PROVE  \E i \in 1..(n + 1) : LastOn(i, p)' /\ index'[p] = objects'[i]
  BY <1>4 DEF Indices
<1>t. accepted'[n + 1][2] = path
  <2>1. <<op, path>>[2] = path
    OBVIOUS
  <2> QED BY <2>1, <1>4, Zenon
<1>8. CASE p = path
  <2>1. PICK m : m = n + 1
    OBVIOUS
  <2>2. LastOn(m, p)'
    BY <1>3, <1>4, <1>t, <1>8, <2>1 DEF LastOn
  <2>3. index'[p] = objects'[m] /\ m \in 1..(n + 1)
    BY <1>3, <1>6, <1>8, <2>1
  <2> QED BY <2>2, <2>3
<1>9. CASE p # path
  <2>1. p \in DOMAIN index /\ index'[p] = index[p]
    BY <1>6, <1>9
  <2>2. PICK i \in 1..n : LastOn(i, p) /\ index[p] = objects[i]
    BY <1>5, <2>1
  <2>3. LastOn(i, p)'
    <3>1. /\ accepted[i][2] = p /\ \A j \in 1..n : accepted[j][2] = p => j <= i
      BY <2>2, <1>2 DEF LastOn, n
    <3>2. accepted'[i][2] = p
      BY <3>1, <1>4
    <3>3. ASSUME NEW j \in 1..(n + 1), accepted'[j][2] = p PROVE j <= i
      <4>1. j # n + 1
        BY <3>3, <1>t, <1>9
      <4>2. j \in 1..n
        BY <4>1, <1>3
      <4> QED BY <4>2, <3>1, <3>3, <1>4
    <3>4. i \in 1..(n + 1)
      BY <1>3
    <3> QED BY <3>2, <3>3, <3>4, <1>4 DEF LastOn
  <2> QED BY <2>1, <2>2, <2>3, <1>3
<1> QED BY <1>8, <1>9

\* A new entry at the end of the journal names the head that was.
LEMMA JournalStep ==
  ASSUME WorkInv, active = root, NEW op, NEW new, Work!append_journal(op, root, new)
  PROVE  /\ IsSeq(journal') /\ Len(journal) \in Nat /\ Len(journal') = Len(journal) + 1
         /\ \A i \in 1..(Len(journal') - 1) : journal'[i] = journal'[i + 1].prev
         /\ head' = journal'[Len(journal')] /\ active' = journal'[Len(journal')].new
         /\ active' = new /\ Len(journal) = Len(accepted)
<1> DEFINE e == Work!journal_entry(Len(journal) + 1, head, op, root, new)
           n == Len(journal)
<1>1. journal' = Append(journal, e) /\ head' = e /\ active' = new
  BY DEF Work!append_journal
<1>2. e.prev = head /\ e.new = new
  BY DEF Work!journal_entry
<1>3. /\ IsSeq(journal) /\ \A i \in 1..(n - 1) : journal[i] = journal[i + 1].prev
      /\ n > 0 => head = journal[n]
      /\ n = Len(accepted)
  BY DEF WorkInv, Journalled
<1>4. /\ IsSeq(journal') /\ n \in Nat /\ Len(journal') = n + 1 /\ journal'[n + 1] = e
      /\ \A i \in 1..n : journal'[i] = journal[i]
  <2>1. IsSeq(journal') /\ n \in Nat
    BY <1>1, <1>3, Appended
  <2>2. Len(journal') = n + 1
    BY <1>1, <1>3, Appended
  <2>3. journal'[n + 1] = e
    BY <1>1, <1>3, Appended
  <2>4. \A i \in 1..n : journal'[i] = journal[i]
    BY <1>1, <1>3, Appended
  <2> QED BY <2>1, <2>2, <2>3, <2>4
<1> HIDE DEF n, e
<1>5. ASSUME NEW i \in 1..n PROVE journal'[i] = journal'[i + 1].prev
  <2>1. CASE i = n
    <3>1. n > 0 /\ journal'[i + 1] = e /\ journal'[i] = journal[n]
      BY <2>1, <1>4
    <3> QED BY <3>1, <1>2, <1>3
  <2>2. CASE i \in 1..(n - 1)
    <3>1. i + 1 \in 1..n /\ i \in 1..n
      BY <2>2, <1>4
    <3>2. journal'[i] = journal[i] /\ journal'[i + 1] = journal[i + 1]
      BY <3>1, <1>4
    <3> QED BY <3>2, <2>2, <1>3
  <2> QED BY <2>1, <2>2, <1>4
<1>6. Len(journal') - 1 = n
  BY <1>4
<1> QED BY <1>1, <1>2, <1>3, <1>4, <1>5, <1>6 DEF n

\* apply: refused operations are only counted, accepted ones extend everything.
LEMMA ApplyInv ==
  ASSUME Work!WorkspaceAssumption, WorkInv, NEW op \in Work!Operation, NEW path \in WorkPaths, Work!Apply(op, path)
  PROVE  WorkInv'
<1>0. /\ image = None /\ image' = None /\ active = root /\ tried' \in 0..MaxTried
  BY DEF Work!Apply, WorkInv, Tables, Work!WorkspaceAssumption
<1>w. Written'
  BY <1>0 DEF Written
<1>1. CASE UNCHANGED <<root, objects, index, accepted, journal, head, active>>
  <2>1. Tables' /\ Chained' /\ Journalled'
    BY <1>0, <1>1 DEF WorkInv, Tables, Chained, Journalled
  <2>2. Indices'
    BY <1>1 DEF WorkInv, Indices, LastOn
  <2> QED BY <1>w, <2>1, <2>2 DEF WorkInv
<1>2. CASE /\ Work!refusal(op, path) = None
           /\ objects' = Append(objects, Work!NewObject(op, path))
           /\ index' = Work!Indexed(op, path)
           /\ root' = Work!RootOf(objects', index', root, Work!op_h(op, path))
           /\ accepted' = Append(accepted, <<op, path>>)
           /\ Work!append_journal(Work!op_h(op, path), root, root')
  <2>1. /\ op.old = root /\ ~(Len(objects) >= MAX_OBJECTS)
        /\ (op.kind = "EditFile") <=> (path \in DOMAIN index)
        /\ op.kind # "EditFile" => ~(Cardinality(DOMAIN index) >= MAX_PATHS)
    BY <1>2, AcceptedMeans
  <2>2. Chained'
    BY <1>2, <2>1, ChainedStep
  <2>3. Indices'
    BY <1>2, IndicesStep
  <2>4. Tables'
    <3>1. /\ IsSeq(objects) /\ IsSeq(accepted) /\ Len(objects) = Len(accepted)
      BY DEF WorkInv, Tables
    <3>2. IsSeq(objects') /\ Len(objects) \in Nat /\ Len(objects') = Len(objects) + 1
      BY <1>2, <3>1, Appended
    <3>3. IsSeq(accepted') /\ Len(accepted') = Len(objects) + 1
      BY <1>2, <3>1, Appended
    <3>4. Len(objects') <= MAX_OBJECTS
      BY <2>1, <3>2 DEF Work!WorkspaceAssumption
    <3>5. DOMAIN index' = DOMAIN index \cup {path}
      BY <1>2 DEF Work!Indexed
    <3>6. IsFiniteSet(DOMAIN index) /\ DOMAIN index \subseteq WorkPaths /\ Cardinality(DOMAIN index) <= MAX_PATHS
      BY DEF WorkInv, Tables
    <3>7. /\ Cardinality(DOMAIN index) \in Nat /\ IsFiniteSet(DOMAIN index')
          /\ Cardinality(DOMAIN index') = IF path \in DOMAIN index THEN Cardinality(DOMAIN index)
                                          ELSE Cardinality(DOMAIN index) + 1
      BY <3>5, <3>6, FS_AddElement, FS_CardinalityType
    <3>8. Cardinality(DOMAIN index') <= MAX_PATHS
      BY <2>1, <3>6, <3>7 DEF Work!WorkspaceAssumption
    <3> QED BY <1>0, <3>2, <3>3, <3>4, <3>5, <3>6, <3>7, <3>8 DEF Tables
  <2>5. Journalled'
    <3>1. PICK new, made : new = root' /\ made = Work!op_h(op, path)
      OBVIOUS
    <3>2. Work!append_journal(made, root, new)
      BY <1>2, <3>1
    <3>3. /\ IsSeq(journal') /\ Len(journal) \in Nat /\ Len(journal') = Len(journal) + 1
          /\ \A i \in 1..(Len(journal') - 1) : journal'[i] = journal'[i + 1].prev
          /\ head' = journal'[Len(journal')] /\ active' = journal'[Len(journal')].new
          /\ active' = new /\ Len(journal) = Len(accepted)
      BY <1>0, <3>2, JournalStep
    <3>4. Len(accepted') = Len(accepted) + 1
      BY <1>2, Appended DEF WorkInv, Tables
    <3> QED BY <3>1, <3>3, <3>4 DEF Journalled
  <2> QED BY <1>w, <2>2, <2>3, <2>4, <2>5 DEF WorkInv
<1> QED BY <1>1, <1>2 DEF Work!Apply

\* A rollback adds its entry and moves the ledger's root; the workspace stays.
LEMMA RollBackInv ==
  ASSUME Work!WorkspaceAssumption, WorkInv, NEW target, Work!RollBack(target)
  PROVE  WorkInv'
<1>0. /\ image = None /\ image' = None /\ active = root /\ tried' \in 0..MaxTried /\ target # root
      /\ UNCHANGED <<root, objects, index, accepted>>
  BY DEF Work!RollBack, WorkInv, Tables, Work!WorkspaceAssumption
<1>1. Written'
  BY <1>0 DEF Written
<1>2. Tables' /\ Chained'
  BY <1>0 DEF WorkInv, Tables, Chained
<1>3. Indices'
  BY <1>0 DEF WorkInv, Indices, LastOn
<1>4. Journalled'
  <2>1. PICK made : Work!append_journal(made, root, target)
    BY DEF Work!RollBack
  <2>2. /\ IsSeq(journal') /\ Len(journal) \in Nat /\ Len(journal') = Len(journal) + 1
        /\ \A i \in 1..(Len(journal') - 1) : journal'[i] = journal'[i + 1].prev
        /\ head' = journal'[Len(journal')] /\ active' = journal'[Len(journal')].new
        /\ active' = target /\ Len(journal) = Len(accepted)
    BY <1>0, <2>1, JournalStep
  <2> QED BY <1>0, <2>2 DEF Journalled
<1> QED BY <1>1, <1>2, <1>3, <1>4 DEF WorkInv

\* Whatever damage did, what is on disk is a sequence no longer than the journal.
LEMMA DamagedIsSeq ==
  ASSUME WorkInv, NEW entries \in Work!Damaged
  PROVE  IsSeq(entries) /\ Len(entries) <= Len(journal)
<1> DEFINE n == Len(journal)
<1>1. /\ n \in Nat /\ DOMAIN journal = 1..n /\ journal = [i \in 1..n |-> journal[i]]
  <2>1. journal \in Seq({journal[i] : i \in DOMAIN journal})
    BY DEF WorkInv, Journalled, IsSeq
  <2> QED BY <2>1, LenProperties
<1>2. CASE \E m \in 0..n : entries \in Work!LeftOut(m)
  <2>1. PICK m \in 0..n : entries \in Work!LeftOut(m)
    BY <1>2
  <2>2. PICK at : entries = [i \in 1..m |-> journal[at[i]]]
    BY <2>1 DEF Work!LeftOut
  <2>3. entries = [i \in 1..m |-> entries[i]] /\ m \in Nat
    BY <2>2, <1>1
  <2>4. IsSeq(entries) /\ Len(entries) = m
    BY <2>3, SeqForm
  <2> QED BY <2>4, <1>1
<1>3. CASE DOMAIN entries = 1..n /\ entries = [i \in 1..n |-> entries[i]]
  BY <1>1, <1>3, SeqForm
<1>4. CASE entries \in Work!Exchanged
  <2>1. DOMAIN entries = 1..n /\ entries = [i \in 1..n |-> entries[i]]
    BY <1>1, <1>4 DEF Work!Exchanged
  <2> QED BY <2>1, <1>3
<1>5. CASE entries \in Work!Redirected
  <2>1. DOMAIN entries = 1..n /\ entries = [i \in 1..n |-> entries[i]]
    BY <1>1, <1>5 DEF Work!Redirected
  <2> QED BY <2>1, <1>3
<1>6. (\E m \in 0..n : entries \in Work!LeftOut(m)) \/ entries \in Work!Exchanged \/ entries \in Work!Redirected
  BY DEF Work!Damaged
<1> QED BY <1>2, <1>4, <1>5, <1>6

\* The image is written once, and nothing is done after it.
LEMMA PersistInv ==
  ASSUME Work!WorkspaceAssumption, WorkInv,
         NEW entries \in Work!Damaged, Work!Persist(entries)
  PROVE  WorkInv'
<1>0. /\ UNCHANGED <<root, objects, index, accepted, tried, journal, head, active>>
      /\ image' = [workspace |-> active, ledger |-> head, blob |-> entries]
      /\ journal # <<>>
  BY DEF Work!Persist
<1>1. Tables' /\ Chained' /\ Journalled'
  <2>1. Tables'
    BY <1>0 DEF WorkInv, Tables
  <2>2. Chained'
    BY <1>0 DEF WorkInv, Chained
  <2>3. Journalled'
    BY <1>0 DEF WorkInv, Journalled
  <2> QED BY <2>1, <2>2, <2>3
<1>2. Indices'
  BY <1>0 DEF WorkInv, Indices, LastOn
<1>3. IsSeq(journal)
  BY DEF WorkInv, Journalled
<1>4. Len(journal) \in Nat /\ Len(journal) > 0
  <2>1. journal \in Seq({journal[i] : i \in DOMAIN journal})
    BY <1>3 DEF IsSeq
  <2> QED BY <2>1, <1>0, EmptySeq, LenProperties
<1>5. /\ IsSeq(entries) /\ Len(entries) <= Len(journal)
  BY DamagedIsSeq
<1>6. Written'
  <2>1. image'.workspace = active /\ image'.ledger = head /\ image'.blob = entries
    BY <1>0
  <2>2. head' = head /\ active' = active /\ journal' = journal
    BY <1>0
  <2> QED BY <2>1, <2>2, <1>4, <1>5, Zenon DEF Written
<1> QED BY <1>1, <1>2, <1>6 DEF WorkInv

\* Every step keeps the invariant.
LEMMA WorkStep ==
  ASSUME Work!WorkspaceAssumption, WorkInv, [Work!Next]_(Work!vars)
  PROVE  WorkInv'
<1>1. CASE Work!Next
  <2>1. ASSUME NEW op \in Work!Operation, NEW path \in WorkPaths, Work!Apply(op, path) PROVE WorkInv'
    BY <2>1, ApplyInv
  <2>2. ASSUME NEW target \in Work!Roots, Work!RollBack(target) PROVE WorkInv'
    BY <2>2, RollBackInv
  <2>3. ASSUME NEW entries \in Work!Damaged, Work!Persist(entries) PROVE WorkInv'
    BY <2>3, PersistInv
  <2> QED BY <1>1, <2>1, <2>2, <2>3 DEF Work!Next
<1>2. CASE UNCHANGED Work!vars
  <2>1. /\ root' = root /\ objects' = objects /\ index' = index /\ accepted' = accepted /\ tried' = tried
        /\ journal' = journal /\ head' = head /\ active' = active /\ image' = image
    BY <1>2 DEF Work!vars
  <2>2. Tables' /\ Chained'
    BY <2>1 DEF WorkInv, Tables, Chained
  <2>3. Indices'
    BY <2>1 DEF WorkInv, Indices, LastOn
  <2>4. Journalled' /\ Written'
    BY <2>1 DEF WorkInv, Journalled, Written
  <2> QED BY <2>2, <2>3, <2>4 DEF WorkInv
<1> QED BY <1>1, <1>2

\* The invariant holds in every reachable state.
LEMMA WorkAlways == ASSUME Work!WorkspaceAssumption PROVE Work!Spec => []WorkInv
<1>1. Work!Init => WorkInv
  BY WorkInitially
<1>2. WorkInv /\ [Work!Next]_(Work!vars) => WorkInv'
  BY WorkStep
<1> QED BY <1>1, <1>2, PTL DEF Work!Spec

(***************************************************************************)
(* What follows from it.                                                   *)
(***************************************************************************)
\* The lengths in the invariant are those of sequences.
LEMMA WorkLengths ==
  ASSUME WorkInv
  PROVE  /\ Len(objects) \in Nat /\ DOMAIN objects = 1..Len(objects)
         /\ Len(accepted) = Len(objects) /\ DOMAIN accepted = 1..Len(accepted)
         /\ Len(journal) \in Nat /\ DOMAIN journal = 1..Len(journal)
<1>1. /\ objects \in Seq({objects[i] : i \in DOMAIN objects})
      /\ accepted \in Seq({accepted[i] : i \in DOMAIN accepted})
      /\ journal \in Seq({journal[i] : i \in DOMAIN journal})
      /\ Len(accepted) = Len(objects)
  BY DEF WorkInv, Tables, Journalled, IsSeq
<1> QED BY <1>1, LenProperties

\* Limits hold, and the ledger's root is the empty one, the current one or one some entry
\* led to.
LEMMA TypeFollows == ASSUME Work!WorkspaceAssumption, WorkInv PROVE Work!TypeOK
<1>1. /\ Len(objects) <= MAX_OBJECTS /\ Cardinality(DOMAIN index) <= MAX_PATHS
      /\ DOMAIN index \subseteq WorkPaths /\ tried \in 0..MaxTried
  BY DEF WorkInv, Tables
<1>2. Len(journal) \in {Len(accepted), Len(accepted) + 1}
  BY DEF WorkInv, Journalled
<1>3. active \in Work!Roots
  <2>1. CASE active = root
    BY <2>1 DEF Work!Roots
  <2>2. CASE active # root
    <3>1. Len(journal) = Len(accepted) + 1
      BY <2>2 DEF WorkInv, Journalled
    <3>2. Len(journal) \in DOMAIN journal /\ Len(journal) > 0
      BY <3>1, WorkLengths
    <3>3. active = journal[Len(journal)].new
      BY <3>2 DEF WorkInv, Journalled
    <3> QED BY <3>2, <3>3 DEF Work!Roots
  <2> QED BY <2>1, <2>2
<1> QED BY <1>1, <1>2, <1>3, SameCardinality DEF Work!TypeOK

\* Two acceptances of one operation would have been made for one root, which commits to
\* the objects before the first and to those before the second.
LEMMA OnceFollows == ASSUME WorkInv PROVE Work!AppliedOnce
<1>1. SUFFICES ASSUME NEW i \in DOMAIN accepted, NEW j \in DOMAIN accepted, accepted[i] = accepted[j], i < j
               PROVE  FALSE
  BY WorkLengths DEF Work!AppliedOnce
<1>2. i \in 1..Len(objects) /\ j \in 1..Len(objects) /\ Len(objects) \in Nat
  BY WorkLengths
<1>3. /\ accepted[i][1].old.objects = {objects[k] : k \in 1..(i - 1)}
      /\ accepted[j][1].old.objects = {objects[k] : k \in 1..(j - 1)}
  BY <1>2 DEF WorkInv, Chained
<1>4. {objects[k] : k \in 1..(i - 1)} = {objects[k] : k \in 1..(j - 1)}
  BY <1>1, <1>3
<1>5. i \in 1..(j - 1)
  BY <1>1, <1>2
<1>6. PICK k \in 1..(i - 1) : objects[i] = objects[k]
  BY <1>4, <1>5
<1>7. k \in 1..Len(objects) /\ k # i
  BY <1>2
<1> QED BY <1>2, <1>6, <1>7 DEF WorkInv, Chained

\* The last operation on a path is the one CHOOSE picks.
LEMMA CurrentFollows == ASSUME WorkInv PROVE Work!PathsCurrent
<1> SUFFICES ASSUME NEW p \in DOMAIN index
             PROVE  LET on == {i \in DOMAIN accepted : accepted[i][2] = p}
                        last == CHOOSE i \in on : \A j \in on : j <= i
                    IN on # {} /\ index[p] = objects[last] /\ index[p].content = accepted[last][1].content
  BY DEF Work!PathsCurrent
<1> DEFINE on == {i \in DOMAIN accepted : accepted[i][2] = p}
           last == CHOOSE i \in on : \A j \in on : j <= i
<1>1. PICK i \in 1..Len(accepted) : LastOn(i, p) /\ index[p] = objects[i]
  BY DEF WorkInv, Indices
<1>2. i \in on /\ \A j \in on : j <= i
  BY <1>1, WorkLengths DEF LastOn
<1>3. last \in on /\ \A j \in on : j <= last
  BY <1>2
<1>4. last = i
  <2>1. last <= i /\ i <= last
    BY <1>2, <1>3
  <2>2. last \in Int /\ i \in Int
    BY <1>3, WorkLengths
  <2> HIDE DEF last
  <2> QED BY <2>1, <2>2
<1>5. index[p].content = accepted[i][1].content
  BY <1>1, WorkLengths DEF WorkInv, Chained
<1> HIDE DEF last
<1>6. on # {} /\ index[p] = objects[last] /\ index[p].content = accepted[last][1].content
  BY <1>1, <1>2, <1>4, <1>5
<1> QED BY <1>6 DEF last

\* What was not damaged verifies: every entry is the one the next names.
LEMMA ConsistentFollows == ASSUME Work!WorkspaceAssumption, WorkInv PROVE Work!ImageConsistent
<1> SUFFICES ASSUME image # None, image.blob = journal
             PROVE  /\ Work!verify_journal_chain(image.ledger, image.blob)
                    /\ Work!Last(image.blob).new = image.workspace
  BY DEF Work!ImageConsistent
<1>1. /\ image.ledger = head /\ image.workspace = active /\ image.blob = journal /\ Len(journal) > 0
  BY DEF WorkInv, Written
<1>2. /\ head = journal[Len(journal)] /\ active = journal[Len(journal)].new
      /\ \A i \in 1..(Len(journal) - 1) : journal[i] = journal[i + 1].prev
  BY <1>1 DEF WorkInv, Journalled
<1>3. ASSUME NEW i \in DOMAIN journal
      PROVE  journal[i] = IF i = Len(journal) THEN head ELSE journal[i + 1].prev
  <2>1. i \in 1..Len(journal) /\ Len(journal) \in Nat
    BY WorkLengths
  <2> QED BY <2>1, <1>2
<1>4. Work!verify_journal_chain(head, journal)
  BY <1>3, Zenon DEF Work!verify_journal_chain
<1>5. Work!Last(journal).new = active
  BY <1>2 DEF Work!Last
<1> QED BY <1>1, <1>4, <1>5, Zenon

\* Entries that verify against the head are, from the head back, those of the journal:
\* the first that was not, counted from the head, would have to be what the one after
\* it names.
LEMMA SuffixFollows == ASSUME WorkInv PROVE Work!VerifiedIsSuffix
<1> DEFINE blob == image.blob
           n == Len(journal)
           m == Len(blob)
<1> SUFFICES ASSUME image # None, Work!verify_journal_chain(image.ledger, blob)
             PROVE  Work!IsSuffix(blob, journal)
  BY DEF Work!VerifiedIsSuffix
<1>1. image.ledger = head /\ IsSeq(blob) /\ m <= n /\ head = journal[n]
  BY DEF WorkInv, Written, Journalled
<1>2. n \in Nat /\ DOMAIN journal = 1..n /\ m \in Nat /\ DOMAIN blob = 1..m
  <2>1. blob \in Seq({blob[i] : i \in DOMAIN blob})
    BY <1>1 DEF IsSeq
  <2> QED BY <2>1, WorkLengths, LenProperties
<1>3. \A i \in 1..m : blob[i] = IF i = m THEN head ELSE blob[i + 1].prev
  BY <1>1, <1>2 DEF Work!verify_journal_chain
<1>4. \A i \in 1..(n - 1) : journal[i] = journal[i + 1].prev
  BY DEF WorkInv, Journalled
<1> HIDE DEF blob, n, m
<1>5. \A k \in 0..(m - 1) : blob[m - k] = journal[n - k]
  <2> DEFINE wrong == {k \in 0..(m - 1) : blob[m - k] # journal[n - k]}
  <2>1. SUFFICES ASSUME wrong # {} PROVE FALSE
    OBVIOUS
  <2>2. wrong \in SUBSET Nat
    BY <1>2
  <2> HIDE DEF wrong
  <2>3. PICK k \in wrong : \A y \in wrong : k <= y
    BY <2>1, <2>2, Least
  <2>4. k \in 0..(m - 1) /\ blob[m - k] # journal[n - k]
    BY <2>3 DEF wrong
  <2>5. CASE k = 0
    <3>1. blob[m] = head
      BY <1>2, <1>3, <2>4
    <3>2. m - k = m /\ n - k = n
      BY <2>5, <1>2
    <3> QED BY <3>1, <3>2, <1>1, <2>4
  <2>6. CASE k > 0
    <3>1. k - 1 \in 0..(m - 1) /\ ~(k <= k - 1)
      BY <1>2, <2>4, <2>6
    <3>2. blob[m - (k - 1)] = journal[n - (k - 1)]
      BY <2>3, <3>1 DEF wrong
    <3>3. m - (k - 1) = (m - k) + 1 /\ n - (k - 1) = (n - k) + 1
      BY <1>2, <2>4
    <3>4. m - k \in 1..m /\ m - k # m /\ n - k \in 1..(n - 1)
      BY <1>1, <1>2, <2>4, <2>6
    <3>5. blob[m - k] = blob[(m - k) + 1].prev /\ journal[n - k] = journal[(n - k) + 1].prev
      BY <1>3, <1>4, <3>4
    <3> QED BY <3>2, <3>3, <3>5, <2>4
  <2> QED BY <2>4, <2>5, <2>6, <1>2
<1>6. /\ Len(Work!Reverse(blob)) = m /\ Len(Work!Reverse(journal)) = n
      /\ \A i \in 1..m : Work!Reverse(blob)[i] = Work!Reverse(journal)[i]
  <2>1. Work!Reverse(blob) = [i \in 1..m |-> blob[(m - i) + 1]] /\ Work!Reverse(journal) = [i \in 1..n |-> journal[(n - i) + 1]]
    BY DEF Work!Reverse, n, m
  <2>2. Len(Work!Reverse(blob)) = m /\ Len(Work!Reverse(journal)) = n
    BY <2>1, <1>2, SeqForm
  <2>3. ASSUME NEW i \in 1..m PROVE Work!Reverse(blob)[i] = Work!Reverse(journal)[i]
    <3>1. i - 1 \in 0..(m - 1) /\ m - (i - 1) = (m - i) + 1 /\ n - (i - 1) = (n - i) + 1 /\ i \in 1..n
      BY <1>1, <1>2
    <3> QED BY <3>1, <2>1, <1>5
  <2> QED BY <2>2, <2>3
<1>7. SubSeq(Work!Reverse(blob), 1, m) = SubSeq(Work!Reverse(journal), 1, m)
  BY <1>1, <1>2, <1>6
<1> QED BY <1>1, <1>6, <1>7 DEF Work!IsSuffix, Work!IsPrefix

\* A vector's operation is refused, or not, by the check the vector is about.
LEMMA VectorsFollow == ASSUME Work!WorkspaceAssumption, WorkInv PROVE Work!VectorsReproduced
<1> SUFFICES ASSUME NEW p \in WorkPaths, PathLength[p] \in 1..MAX_PATH_B, NEW q \in WorkPaths, PathLength[q] \in 1..MAX_PATH_B,
                    NEW c \in WorkContents, ContentSize[c] <= MAX_CONTENT, p # q, Len(objects) < MAX_OBJECTS,
                    NEW n \in DOMAIN Work!Vectors(p, q), DOMAIN index = Work!Vectors(p, q)[n].known
             PROVE  LET v == Work!Vectors(p, q)[n]
                        op == [kind |-> v.kind, old |-> root, path |-> v.claimed, content |-> c, cap |-> v.cap]
                        After(o) == Work!RootOf(Append(objects, Work!NewObject(o, v.path)), Work!Indexed(o, v.path), root, Work!op_h(o, v.path))
                    IN /\ (Work!refusal(op, v.path) = None) = v.recorded
                       /\ \A d \in WorkContents \ {c} : After([op EXCEPT !.content = d]) # After(op)
  BY DEF Work!VectorsReproduced
<1> DEFINE v == Work!Vectors(p, q)[n]
           op == [kind |-> v.kind, old |-> root, path |-> v.claimed, content |-> c, cap |-> v.cap]
           After(o) == Work!RootOf(Append(objects, Work!NewObject(o, v.path)), Work!Indexed(o, v.path), root, Work!op_h(o, v.path))
<1>1. /\ ~(PathLength[p] > MAX_PATH_B) /\ PathLength[p] # 0 /\ ~(PathLength[q] > MAX_PATH_B) /\ PathLength[q] # 0
      /\ ~(ContentSize[c] > MAX_CONTENT) /\ ~(Len(objects) >= MAX_OBJECTS)
  BY WorkLengths DEF Work!WorkspaceAssumption
<1>2. /\ op.kind = v.kind /\ op.old = root /\ op.path = v.claimed /\ op.content = c /\ op.cap = v.cap
  OBVIOUS
<1>3. Cardinality({}) = 0 /\ Cardinality({p}) = 1 /\ ~(0 >= MAX_PATHS) /\ ~(1 >= MAX_PATHS)
  <2>1. Cardinality({}) = 0
    BY FS_EmptySet, Zenon
  <2>2. Cardinality({p}) = 1
    BY FS_Singleton, Zenon
  <2>3. MAX_PATHS \in Nat \ {0, 1}
    BY DEF Work!WorkspaceAssumption
  <2>4. ~(0 >= MAX_PATHS) /\ ~(1 >= MAX_PATHS)
    BY <2>3
  <2> QED BY <2>1, <2>2, <2>4
<1>4. None \notin Work!Refusals
  BY DEF Work!WorkspaceAssumption
<1>5. \/ v = Work!Vector("CreateDirectory", p, p, Work!CAP, {}, TRUE)
      \/ v = Work!Vector("CreateFile", q, q, Work!CAP, {p}, TRUE)
      \/ v = Work!Vector("EditFile", q, q, Work!CAP, {p, q}, TRUE)
      \/ v = Work!Vector("CreateFile", p, p, "none", {}, FALSE)
      \/ v = Work!Vector("CreateFile", q, p, Work!CAP, {}, FALSE)
      \/ v = Work!Vector("CreateFile", p, p, Work!CAP, {}, TRUE)
  <2>1. n \in {"create_directory_workspace", "create_file_hello", "edit_file_hello_v40",
               "bad_capability_rejection", "path_tamper_rejection", "content_tamper_good"}
    BY DEF Work!Vectors
  <2>2. CASE n = "create_directory_workspace"
    BY <2>2 DEF Work!Vectors
  <2>3. CASE n = "create_file_hello"
    BY <2>3 DEF Work!Vectors
  <2>4. CASE n = "edit_file_hello_v40"
    BY <2>4 DEF Work!Vectors
  <2>5. CASE n = "bad_capability_rejection"
    BY <2>5 DEF Work!Vectors
  <2>6. CASE n = "path_tamper_rejection"
    BY <2>6 DEF Work!Vectors
  <2>7. CASE n = "content_tamper_good"
    BY <2>7 DEF Work!Vectors
  <2> QED BY <2>1, <2>2, <2>3, <2>4, <2>5, <2>6, <2>7
<1>6. DOMAIN index = v.known
  OBVIOUS
<1> HIDE DEF v, op
<1>7. (Work!refusal(op, v.path) = None) = v.recorded
  <2>1. CASE v = Work!Vector("CreateDirectory", p, p, Work!CAP, {}, TRUE)
    <3>1. p \notin DOMAIN index /\ ~(Cardinality(DOMAIN index) >= MAX_PATHS)
      BY <2>1, <1>3, <1>6 DEF Work!Vector
    <3>2. op.kind = "CreateDirectory" /\ op.old = root /\ op.path = p /\ op.content = c /\ op.cap = Work!CAP
      BY <2>1, <1>2 DEF Work!Vector
    <3>3. v.path = p /\ v.recorded = TRUE
      BY <2>1 DEF Work!Vector
    <3>4. Work!refusal(op, p) = None
      BY <3>1, <3>2, <1>1, SameCardinality DEF Work!refusal
    <3> QED BY <3>3, <3>4
  <2>2. CASE v = Work!Vector("CreateFile", q, q, Work!CAP, {p}, TRUE)
    <3>1. q \notin DOMAIN index /\ ~(Cardinality(DOMAIN index) >= MAX_PATHS)
      BY <2>2, <1>3, <1>6 DEF Work!Vector
    <3>2. op.kind = "CreateFile" /\ op.old = root /\ op.path = q /\ op.content = c /\ op.cap = Work!CAP
      BY <2>2, <1>2 DEF Work!Vector
    <3>3. v.path = q /\ v.recorded = TRUE
      BY <2>2 DEF Work!Vector
    <3>4. Work!refusal(op, q) = None
      BY <3>1, <3>2, <1>1, SameCardinality DEF Work!refusal
    <3> QED BY <3>3, <3>4
  <2>3. CASE v = Work!Vector("EditFile", q, q, Work!CAP, {p, q}, TRUE)
    BY <2>3, <1>1, <1>2, <1>6 DEF Work!Vector, Work!refusal, Work!CAP
  <2>4. CASE v = Work!Vector("CreateFile", p, p, "none", {}, FALSE)
    BY <2>4, <1>1, <1>2, <1>4 DEF Work!Vector, Work!refusal, Work!CAP, Work!Refusals
  <2>5. CASE v = Work!Vector("CreateFile", q, p, Work!CAP, {}, FALSE)
    BY <2>5, <1>1, <1>2, <1>4 DEF Work!Vector, Work!refusal, Work!CAP, Work!Refusals
  <2>6. CASE v = Work!Vector("CreateFile", p, p, Work!CAP, {}, TRUE)
    <3>1. p \notin DOMAIN index /\ ~(Cardinality(DOMAIN index) >= MAX_PATHS)
      BY <2>6, <1>3, <1>6 DEF Work!Vector
    <3>2. op.kind = "CreateFile" /\ op.old = root /\ op.path = p /\ op.content = c /\ op.cap = Work!CAP
      BY <2>6, <1>2 DEF Work!Vector
    <3>3. v.path = p /\ v.recorded = TRUE
      BY <2>6 DEF Work!Vector
    <3>4. Work!refusal(op, p) = None
      BY <3>1, <3>2, <1>1, SameCardinality DEF Work!refusal
    <3> QED BY <3>3, <3>4
  <2> QED BY <1>5, <2>1, <2>2, <2>3, <2>4, <2>5, <2>6
<1>8. ASSUME NEW d \in WorkContents \ {c} PROVE After([op EXCEPT !.content = d]) # After(op)
  <2> DEFINE other == [op EXCEPT !.content = d]
  <2>1. other.content = d
    BY DEF op
  <2> HIDE DEF other
  <2>2. After(other).receipt.content = d /\ After(op).receipt.content = c
    BY <2>1, <1>2 DEF Work!RootOf, Work!op_h
  <2> QED BY <2>2 DEF other
<1> QED BY <1>7, <1>8 DEF v, op

(***************************************************************************)
(* The theorems.                                                           *)
(***************************************************************************)
\* apply and append_journal keep to the limits of the object table and the path index.
THEOREM WithinLimits == ASSUME Work!WorkspaceAssumption PROVE Work!Spec => []Work!TypeOK
<1>1. WorkInv => Work!TypeOK
  BY TypeFollows
<1> QED BY <1>1, WorkAlways, PTL

\* An operation that is delivered again is never accepted again: apply compares the root
\* it names, and no later root is that one.
THEOREM NeverReplayed == ASSUME Work!WorkspaceAssumption PROVE Work!Spec => []Work!AppliedOnce
<1>1. WorkInv => Work!AppliedOnce
  BY OnceFollows
<1> QED BY <1>1, WorkAlways, PTL

\* Every path of the index leads to what the last accepted operation on it wrote, and
\* every accepted operation has spent an object slot.
THEOREM IndexFollows == ASSUME Work!WorkspaceAssumption PROVE Work!Spec => [](Work!PathsCurrent /\ Work!SlotsSpent)
<1>1. WorkInv => Work!PathsCurrent
  BY CurrentFollows
<1>2. WorkInv => Work!SlotsSpent
  BY DEF WorkInv, Tables, Work!SlotsSpent
<1> QED BY <1>1, <1>2, WorkAlways, PTL

\* An image that nobody touched verifies, and its root is where its newest entry leads.
THEOREM WrittenVerifies == ASSUME Work!WorkspaceAssumption PROVE Work!Spec => []Work!ImageConsistent
<1>1. WorkInv => Work!ImageConsistent
  BY ConsistentFollows
<1> QED BY <1>1, WorkAlways, PTL

\* verify_journal_chain accepts nothing but the newest part of the journal, however long
\* the journal and whatever entries were left out, exchanged or redirected.
THEOREM VerifiedUnaltered == ASSUME Work!WorkspaceAssumption PROVE Work!Spec => []Work!VerifiedIsSuffix
<1>1. WorkInv => Work!VerifiedIsSuffix
  BY SuffixFollows
<1> QED BY <1>1, WorkAlways, PTL

\* compute_all_vectors: the golden vectors come out for any paths and contents the limits
\* allow.
THEOREM VectorsHold == ASSUME Work!WorkspaceAssumption PROVE Work!Spec => []Work!VectorsReproduced
<1>1. WorkInv => Work!VectorsReproduced
  BY VectorsFollow
<1> QED BY <1>1, WorkAlways, PTL

\* All of it: for every set of paths and contents, every limit and every sequence of
\* operations, accepted or refused, and whatever is done to the journal on disk.
THEOREM HistoryHolds == ASSUME Work!WorkspaceAssumption PROVE Work!Spec => []Work!WorkspaceHistory
<1>1. Work!TypeOK /\ Work!AppliedOnce /\ Work!PathsCurrent /\ Work!SlotsSpent /\ Work!VerifiedIsSuffix /\ Work!ImageConsistent
        /\ Work!VectorsReproduced => Work!WorkspaceHistory
  BY DEF Work!WorkspaceHistory
<1> QED
  BY <1>1, WithinLimits, NeverReplayed, IndexFollows, WrittenVerifies, VerifiedUnaltered, VectorsHold, PTL

-----------------------------------------------------------------------------
\* A workspace scenario is a behaviour of WorkspaceRoot.
LEMMA WorkAlone ==
    /\ Spec /\ scenario = "roots" => Work!Spec /\ [](scenario = "roots")
    /\ Spec /\ ~(scenario = "roots") => [](~(scenario = "roots"))
<1>1. Init /\ scenario = "roots" => Work!Init
  BY DEF Init
<1>2. UNCHANGED vars => UNCHANGED <<scenario, Work!vars>>
  BY DEF vars, rootVars, Work!vars
<1>3. scenario = "roots" /\ [Next]_vars => (scenario = "roots")' /\ [Work!Next]_(Work!vars)
  BY <1>2 DEF Next, TsStep, BrokerStep, RootStep
<1>4. ~(scenario = "roots") /\ [Next]_vars => (~(scenario = "roots"))'
  BY DEF Next, vars, TsStep, BrokerStep, RootStep
<1> QED
  BY <1>1, <1>3, <1>4, PTL DEF Spec, Work!Spec

\* Every workspace keeps its history, whatever is done to the journal on disk.
THEOREM WorkspaceHistoryHolds == Spec => []WorkspaceHistory
<1>1. Work!WorkspaceAssumption
  BY GuestAssumption
<1>2. Work!Spec => []Work!WorkspaceHistory
  BY <1>1, HistoryHolds
<1>3. Work!WorkspaceHistory => WorkspaceHistory
  BY DEF WorkspaceHistory
<1>4. ~(scenario = "roots") => WorkspaceHistory
  BY DEF WorkspaceHistory
<1> QED
  BY <1>2, <1>3, <1>4, WorkAlone, PTL
(***************************************************************************)
(* The capability broker.                                                  *)
(*                                                                         *)
(* As long as its thread was not given up, it is at work only while the    *)
(* application runs or the join waits, so what run_brokered compares and   *)
(* lists afterwards no longer changes.  While it is at work, the writes it *)
(* performed are those of the calls it has listed and of the one it is     *)
(* about to list.                                                          *)
(***************************************************************************)
Positions == {"ready", "app", "join", "package", "runtime", "finalize", "done", "raised"}
Kinds == {"read", "write", "env", "dependency", "receipt", "unknown"}

Call ==
    [operation : Kinds, argument : STRING \cup {None}, package : {None, "completed", "blocked"},
     allowed : BOOLEAN \cup {None}, sha256 : FileContents \cup {None} \cup Nat,
     dependency_status : BOOLEAN \cup {None}, status : {"completed", "blocked"}]

Thread ==
    [at : {"accept", "gone"}] \cup [at : {"verify"}, request : Requests]
    \cup [at : {"access"}, request : Requests, package : {None, "completed", "blocked"}]
    \cup [at : {"record"}, call : Call]

\* A request is being handled.
Busy == thread.at \in {"verify", "access", "record"}

DiskTyped ==
    /\ installed \in FileContents /\ dependency \in BOOLEAN /\ tampered \in BOOLEAN /\ joined \in BOOLEAN
    /\ runtime \in [RuntimePaths -> FileContents \cup {None}] /\ before \in [RuntimePaths -> FileContents \cup {None}]

RunTyped == run \in [at : Positions, failures : BOOLEAN]

\* Every request sent is waiting, being handled or listed.
Handled ==
    /\ thread \in Thread /\ calls \in Seq(Call) /\ backlog \in Seq(Requests) /\ sent \in 0..MaxRequests
    /\ Len(backlog) + Len(calls) + (IF Busy THEN 1 ELSE 0) = sent

\* Nothing has happened before the broker starts, and nothing happens after the join.
Unstarted == run.at = "ready" => thread.at = "gone" /\ calls = <<>> /\ before = runtime
Stopped == joined /\ ~(run.at \in {"ready", "app", "join"}) => thread.at = "gone"

\* The calls with the one about to be listed.
Told == IF thread.at = "record" THEN Append(calls, thread.call) ELSE calls
WritesTold == IsSeq(performed) /\ Broker!ListedIn(performed, Told)

\* The receipt lists the calls, and is completed only if nothing failed.
Receipted ==
    receipt # None /\ joined =>
        /\ run.at = "done" /\ receipt.calls = calls /\ \A i \in DOMAIN calls : calls[i].operation # "unknown"
        /\ receipt.status = "completed" => ~run.failures /\ (tampered \/ installed = SignedContent)

\* What CheckRuntime compares.
FilesAccounted ==
    /\ \A p \in RuntimePaths : runtime[p] # before[p] => \E i \in Broker!FinalWrites(calls) : calls[i].argument = p
    /\ \A i \in Broker!FinalWrites(calls) : runtime[calls[i].argument] = calls[i].sha256
Compared == joined /\ run.at \in {"finalize", "done"} /\ ~run.failures => FilesAccounted

\* Nobody has touched the package of a run that was started.
Untouched ==
    ~tampered => /\ dependency = TRUE
                 /\ run.at \in {"app", "join", "package", "runtime", "finalize"} => installed = SignedContent

\* What a call must say that was made while the package verified.
Honest(c) ==
    /\ c.operation = "receipt" => c.package = None /\ c.allowed = None /\ c.dependency_status = None
    /\ c.argument # None /\ c.operation \in {"read", "write", "env", "dependency"} =>
          /\ c.package = "completed" /\ c.allowed = (<<c.operation, c.argument>> \in Grants)
          /\ c.operation = "read" => c.sha256 = IF c.status = "completed" THEN SignedContent ELSE None
          /\ c.operation \in {"env", "dependency"} => c.sha256 = None
          /\ c.dependency_status = IF c.operation = "dependency" /\ <<c.operation, c.argument>> \in Grants THEN TRUE ELSE None

CallsHonest ==
    joined /\ ~tampered =>
        /\ \A i \in DOMAIN calls : Honest(calls[i])
        /\ thread.at = "record" => Honest(thread.call)
        /\ thread.at = "access" =>
              thread.package = IF thread.request.token /\ Broker!Official(thread.request) THEN "completed" ELSE None

BrokerInv ==
    /\ DiskTyped /\ RunTyped /\ Handled /\ Unstarted /\ Stopped /\ WritesTold
    /\ Receipted /\ Compared /\ Untouched /\ CallsHonest

\* What the thread holds at each of its positions.
LEMMA ThreadForms ==
    ASSUME thread \in Thread
    PROVE  /\ thread.at \in {"accept", "verify", "access", "record", "gone"}
           /\ thread.at \in {"verify", "access"} => thread.request \in Requests
           /\ thread.at = "access" => thread.package \in {None, "completed", "blocked"}
           /\ thread.at = "record" => thread.call \in Call
BY DEF Thread

\* The requests an application may send.
LEMMA RequestForms ==
    ASSUME Broker!BrokerAssumption, NEW r \in Requests
    PROVE  /\ r.operation \in Kinds /\ r.argument \in STRING /\ r.data \in FileContents \cup {None} /\ r.token \in BOOLEAN
           /\ r.operation = "write" => r.argument \in RuntimePaths
BY DEF Broker!BrokerAssumption, Kinds

\* Init: the package is installed and nothing runs.
LEMMA BrokerInitially == ASSUME Broker!BrokerAssumption, Broker!Init PROVE BrokerInv
<1>1. DiskTyped /\ RunTyped
  BY DEF Broker!Init, DiskTyped, RunTyped, Positions
<1>2. thread.at = "gone" /\ thread \in Thread /\ calls = <<>> /\ backlog = <<>> /\ performed = <<>> /\ sent = 0
  BY DEF Broker!Init, Thread
<1>3. Handled
  BY <1>2 DEF Broker!BrokerAssumption, Handled, Busy
<1>4. Unstarted /\ Stopped /\ Receipted /\ Compared /\ Untouched
  BY <1>2 DEF Broker!Init, Unstarted, Stopped, Receipted, Compared, Untouched
<1>5. CallsHonest
  BY <1>2 DEF CallsHonest
<1>6. WritesTold
  <2>1. Told = <<>> /\ DOMAIN performed = {} /\ DOMAIN Told = {}
    BY <1>2 DEF Told
  <2>2. PICK at : at \in [{} -> {}]
    <3>1. [x \in {} |-> x] \in [{} -> {}]
      OBVIOUS
    <3> QED
      BY <3>1
  <2>3. {at[i] : i \in {}} = {k \in {} : Broker!IsWrite(Told[k])}
    OBVIOUS
  <2> QED
    BY <1>2, <2>1, <2>2, <2>3, EmptyIsSeq DEF WritesTold, Broker!ListedIn
<1> QED
  BY <1>1, <1>3, <1>4, <1>5, <1>6 DEF BrokerInv

-----------------------------------------------------------------------------
(* run_brokered.  Its steps touch neither the thread nor the files.        *)

\* What a step that leaves the thread and the files alone keeps.
LEMMA ThreadKept ==
    ASSUME BrokerInv, UNCHANGED <<thread, backlog, calls, performed, sent, installed, dependency, runtime, before, tampered>>,
           joined' \in BOOLEAN, joined' => joined
    PROVE  DiskTyped' /\ Handled' /\ WritesTold' /\ CallsHonest'
<1>1. DiskTyped'
  BY DEF BrokerInv, DiskTyped
<1>2. Handled'
  BY DEF BrokerInv, Handled, Busy
<1>3. Told' = Told
  BY DEF Told
<1>4. WritesTold'
  BY <1>3 DEF BrokerInv, WritesTold, Broker!ListedIn
<1>5. CallsHonest'
  BY DEF BrokerInv, CallsHonest
<1> QED
  BY <1>1, <1>2, <1>4, <1>5

\* run after one of its fields was set.
LEMMA RunSet ==
    ASSUME RunTyped, NEW at \in Positions, NEW failed \in BOOLEAN, run' = [run EXCEPT !.at = at, !.failures = failed]
    PROVE  RunTyped' /\ run'.at = at /\ run'.failures = failed
BY DEF RunTyped

LEMMA RunMoved ==
    ASSUME RunTyped, NEW at \in Positions, run' = [run EXCEPT !.at = at]
    PROVE  RunTyped' /\ run'.at = at /\ run'.failures = run.failures
BY DEF RunTyped

\* A package that does not verify ends the run at once.
LEMMA RefuseRunInv == ASSUME Broker!BrokerAssumption, BrokerInv, Broker!RefuseRun PROVE BrokerInv'
<1>1. /\ run.at = "ready" /\ run' = [run EXCEPT !.at = "done"] /\ receipt' = [status |-> "blocked", calls |-> <<>>]
      /\ UNCHANGED <<installed, dependency, runtime, before, backlog, thread, calls, joined, performed, tampered, sent>>
  BY DEF Broker!RefuseRun, Broker!disk
<1>2. RunTyped' /\ run'.at = "done"
  BY <1>1, RunMoved DEF BrokerInv, Positions
<1>3. DiskTyped' /\ Handled' /\ WritesTold' /\ CallsHonest'
  BY <1>1, ThreadKept DEF BrokerInv, DiskTyped
<1>4. thread.at = "gone" /\ calls = <<>> /\ before = runtime
  BY <1>1 DEF BrokerInv, Unstarted
<1>5. Unstarted' /\ Stopped' /\ Untouched'
  BY <1>1, <1>2, <1>4 DEF BrokerInv, Unstarted, Stopped, Untouched
<1>6. Receipted'
  BY <1>1, <1>2, <1>4 DEF Receipted
<1>7. Compared'
  BY <1>1, <1>4 DEF Compared, FilesAccounted, Broker!FinalWrites
<1> QED
  BY <1>2, <1>3, <1>5, <1>6, <1>7 DEF BrokerInv

\* The broker starts with a package that verifies.
LEMMA StartBrokerInv == ASSUME Broker!BrokerAssumption, BrokerInv, Broker!StartBroker PROVE BrokerInv'
<1>1. /\ run.at = "ready" /\ installed = SignedContent /\ thread' = [at |-> "accept"] /\ before' = runtime
      /\ run' = [run EXCEPT !.at = "app"]
      /\ UNCHANGED <<installed, dependency, runtime, backlog, calls, receipt, joined, performed, tampered, sent>>
  BY DEF Broker!StartBroker, Broker!disk, Broker!Verified, Broker!Waiting
<1>2. RunTyped' /\ run'.at = "app"
  BY <1>1, RunMoved DEF BrokerInv, Positions
<1>3. thread.at = "gone" /\ calls = <<>> /\ thread'.at = "accept" /\ thread' \in Thread
  BY <1>1 DEF BrokerInv, Unstarted, Thread
<1>4. DiskTyped'
  BY <1>1 DEF BrokerInv, DiskTyped
<1>5. Handled'
  BY <1>1, <1>3 DEF BrokerInv, Handled, Busy
<1>6. Told' = Told
  BY <1>1, <1>3 DEF Told
<1>7. WritesTold'
  BY <1>1, <1>6 DEF BrokerInv, WritesTold, Broker!ListedIn
<1>8. Unstarted' /\ Stopped' /\ Compared' /\ Untouched'
  BY <1>1, <1>2 DEF BrokerInv, Unstarted, Stopped, Compared, Untouched
<1>9. Receipted'
  BY <1>1 DEF BrokerInv, Receipted
<1>10. CallsHonest'
  BY <1>1, <1>3 DEF BrokerInv, CallsHonest
<1> QED
  BY <1>2, <1>4, <1>5, <1>7, <1>8, <1>9, <1>10 DEF BrokerInv

\* The application ended; the join ends with the thread or without it.
LEMMA JoinInv ==
    ASSUME Broker!BrokerAssumption, BrokerInv, Broker!AppExits \/ Broker!StopJoined \/ Broker!StopTimedOut
    PROVE  BrokerInv'
<1>1. /\ run.at \in {"app", "join"} /\ joined' \in BOOLEAN /\ (joined' => joined)
      /\ UNCHANGED <<installed, dependency, runtime, before, backlog, thread, calls, receipt, performed, tampered, sent>>
  <2>1. joined \in BOOLEAN
    BY DEF BrokerInv, DiskTyped
  <2>2. CASE Broker!AppExits
    BY <2>1, <2>2 DEF Broker!AppExits, Broker!disk
  <2>3. CASE Broker!StopJoined
    BY <2>1, <2>3 DEF Broker!StopJoined, Broker!disk
  <2>4. CASE Broker!StopTimedOut
    BY <2>1, <2>4 DEF Broker!StopTimedOut, Broker!disk
  <2> QED
    BY <2>2, <2>3, <2>4
<1>2. RunTyped' /\ run'.at \in {"join", "package"} /\ (run'.at = "package" /\ joined' => thread.at = "gone")
  <2>1. CASE Broker!AppExits
    <3>1. PICK failed \in BOOLEAN : run' = [run EXCEPT !.at = "join", !.failures = run.failures \/ failed]
      BY <2>1 DEF Broker!AppExits
    <3>2. (run.failures \/ failed) \in BOOLEAN
      BY DEF BrokerInv, RunTyped
    <3> QED
      BY <3>1, <3>2, RunSet DEF BrokerInv, Positions
  <2>2. CASE Broker!StopJoined \/ Broker!StopTimedOut
    <3>1. run' = [run EXCEPT !.at = "package"] /\ (thread.at = "gone" \/ ~joined')
      BY <2>2 DEF Broker!StopJoined, Broker!StopTimedOut
    <3> QED
      BY <3>1, RunMoved DEF BrokerInv, Positions
  <2> QED
    BY <2>1, <2>2
<1>3. DiskTyped' /\ Handled' /\ WritesTold' /\ CallsHonest'
  BY <1>1, ThreadKept
<1>4. Unstarted' /\ Stopped' /\ Compared' /\ Untouched'
  BY <1>1, <1>2 DEF BrokerInv, Unstarted, Stopped, Compared, Untouched
<1>5. Receipted'
  BY <1>1 DEF BrokerInv, Receipted
<1> QED
  BY <1>2, <1>3, <1>4, <1>5 DEF BrokerInv

\* After the join: the package is verified again.
LEMMA CheckPackageInv == ASSUME Broker!BrokerAssumption, BrokerInv, Broker!CheckPackage PROVE BrokerInv'
<1>1. /\ run.at = "package" /\ run' = [run EXCEPT !.at = "runtime", !.failures = run.failures \/ ~Broker!Verified]
      /\ UNCHANGED <<installed, dependency, runtime, before, backlog, thread, calls, receipt, joined, performed, tampered, sent>>
  BY DEF Broker!CheckPackage, Broker!disk
<1>2. RunTyped' /\ run'.at = "runtime"
  <2>1. (run.failures \/ ~Broker!Verified) \in BOOLEAN
    BY DEF BrokerInv, RunTyped
  <2> QED
    BY <1>1, <2>1, RunSet DEF BrokerInv, Positions
<1>3. DiskTyped' /\ Handled' /\ WritesTold' /\ CallsHonest'
  BY <1>1, ThreadKept DEF BrokerInv, DiskTyped
<1>4. Unstarted' /\ Stopped' /\ Compared' /\ Untouched'
  BY <1>1, <1>2 DEF BrokerInv, Unstarted, Stopped, Compared, Untouched
<1>5. Receipted'
  BY <1>1 DEF BrokerInv, Receipted
<1> QED
  BY <1>2, <1>3, <1>4, <1>5 DEF BrokerInv

\* The runtime directory is compared with the calls.
LEMMA CheckRuntimeInv == ASSUME Broker!BrokerAssumption, BrokerInv, Broker!CheckRuntime PROVE BrokerInv'
<1> DEFINE written == {calls[i].argument : i \in Broker!FinalWrites(calls)}
           raw == {p \in RuntimePaths : runtime[p] # before[p]} \ written
           changed == {i \in Broker!FinalWrites(calls) : runtime[calls[i].argument] # calls[i].sha256}
<1>1. /\ run.at = "runtime" /\ run' = [run EXCEPT !.at = "finalize", !.failures = run.failures \/ raw # {} \/ changed # {}]
      /\ UNCHANGED <<installed, dependency, runtime, before, backlog, thread, calls, receipt, joined, performed, tampered, sent>>
  BY DEF Broker!CheckRuntime, Broker!disk
<1>2. RunTyped' /\ run'.at = "finalize" /\ run'.failures = (run.failures \/ raw # {} \/ changed # {})
  <2>1. (run.failures \/ raw # {} \/ changed # {}) \in BOOLEAN
    BY DEF BrokerInv, RunTyped
  <2> HIDE DEF raw, changed
  <2> QED
    BY <1>1, <2>1, RunSet DEF BrokerInv, Positions
<1>3. DiskTyped' /\ Handled' /\ WritesTold' /\ CallsHonest'
  BY <1>1, ThreadKept DEF BrokerInv, DiskTyped
<1>4. Unstarted' /\ Stopped' /\ Untouched'
  BY <1>1, <1>2 DEF BrokerInv, Unstarted, Stopped, Untouched
<1>5. Receipted'
  BY <1>1 DEF BrokerInv, Receipted
<1>6. Compared'
  <2>1. SUFFICES ASSUME ~run'.failures PROVE FilesAccounted'
    BY DEF Compared
  <2>2. raw = {} /\ changed = {}
    BY <1>2, <2>1
  <2>3. FilesAccounted
    BY <2>2 DEF FilesAccounted
  <2> QED
    BY <2>3, <1>1 DEF FilesAccounted, Broker!FinalWrites
<1> QED
  BY <1>2, <1>3, <1>4, <1>5, <1>6 DEF BrokerInv

\* The receipt is written, or its schema refuses a call.
LEMMA FinalizeInv == ASSUME Broker!BrokerAssumption, BrokerInv, Broker!Finalize PROVE BrokerInv'
<1>1. /\ run.at = "finalize"
      /\ UNCHANGED <<installed, dependency, runtime, before, backlog, thread, calls, joined, performed, tampered, sent>>
  BY DEF Broker!Finalize, Broker!disk
<1>2. \/ run' = [run EXCEPT !.at = "raised"] /\ receipt' = receipt
      \/ /\ run' = [run EXCEPT !.at = "done"]
         /\ receipt' = [status |-> IF run.failures THEN "blocked" ELSE "completed", calls |-> calls]
         /\ \A i \in DOMAIN calls : calls[i].operation # "unknown"
  BY DEF Broker!Finalize
<1>3. RunTyped' /\ run'.at \in {"raised", "done"} /\ run'.failures = run.failures
  BY <1>2, RunMoved DEF BrokerInv, Positions
<1>4. DiskTyped' /\ Handled' /\ WritesTold' /\ CallsHonest'
  BY <1>1, ThreadKept DEF BrokerInv, DiskTyped
<1>5. Unstarted' /\ Stopped' /\ Untouched'
  BY <1>1, <1>3 DEF BrokerInv, Unstarted, Stopped, Untouched
<1>6. Compared'
  BY <1>1, <1>3 DEF BrokerInv, Compared, FilesAccounted, Broker!FinalWrites
<1>7. Receipted'
  <2>1. CASE run' = [run EXCEPT !.at = "raised"] /\ receipt' = receipt
    BY <1>1, <2>1 DEF BrokerInv, Receipted
  <2>2. CASE /\ run' = [run EXCEPT !.at = "done"]
             /\ receipt' = [status |-> IF run.failures THEN "blocked" ELSE "completed", calls |-> calls]
             /\ \A i \in DOMAIN calls : calls[i].operation # "unknown"
    <3>1. run'.at = "done"
      BY <2>2, RunMoved DEF BrokerInv, Positions
    <3>2. ~tampered => installed = SignedContent
      BY <1>1 DEF BrokerInv, Untouched
    <3> QED
      BY <1>1, <1>3, <2>2, <3>1, <3>2 DEF Receipted
  <2> QED
    BY <1>2, <2>1, <2>2
<1> QED
  BY <1>3, <1>4, <1>5, <1>6, <1>7 DEF BrokerInv

-----------------------------------------------------------------------------
(* The application and the world around it.                                *)

\* A request joins the queue.
LEMMA AppRequestsInv == ASSUME Broker!BrokerAssumption, BrokerInv, Broker!AppRequests PROVE BrokerInv'
<1>1. /\ run.at = "app" /\ sent < MaxRequests /\ sent' = sent + 1
      /\ UNCHANGED <<installed, dependency, runtime, before, run, thread, calls, receipt, joined, performed, tampered>>
  BY DEF Broker!AppRequests, Broker!disk
<1>2. PICK request \in Requests : backlog' = Append(backlog, request)
  BY DEF Broker!AppRequests
<1>3. backlog' \in Seq(Requests) /\ Len(backlog') = Len(backlog) + 1 /\ Len(backlog) \in Nat /\ Len(calls) \in Nat
  BY <1>2 DEF BrokerInv, Handled
<1>4. Handled'
  <2>1. sent' \in 0..MaxRequests /\ Busy' = Busy /\ thread' \in Thread /\ calls' \in Seq(Call)
    BY <1>1 DEF BrokerInv, Handled, Busy, Broker!BrokerAssumption
  <2>2. Len(backlog') + Len(calls') + (IF Busy' THEN 1 ELSE 0) = sent'
    BY <1>1, <1>3, <2>1 DEF BrokerInv, Handled
  <2> QED
    BY <1>3, <2>1, <2>2 DEF Handled
<1>5. DiskTyped' /\ RunTyped' /\ Unstarted' /\ Stopped' /\ Untouched' /\ Receipted' /\ CallsHonest'
  BY <1>1 DEF BrokerInv, DiskTyped, RunTyped, Unstarted, Stopped, Untouched, Receipted, CallsHonest
<1>6. Compared'
  BY <1>1 DEF Compared
<1>7. Told' = Told /\ performed' = performed
  BY <1>1 DEF Told
<1>8. WritesTold'
  BY <1>7 DEF BrokerInv, WritesTold, Broker!ListedIn
<1> QED
  BY <1>4, <1>5, <1>6, <1>8 DEF BrokerInv

\* The application writes its directory itself.
LEMMA AppWritesRawInv == ASSUME Broker!BrokerAssumption, BrokerInv, Broker!AppWritesRaw PROVE BrokerInv'
<1>1. /\ run.at = "app"
      /\ UNCHANGED <<installed, dependency, before, run, backlog, thread, calls, receipt, joined, performed, tampered, sent>>
  BY DEF Broker!AppWritesRaw
<1>2. runtime' \in [RuntimePaths -> FileContents \cup {None}]
  BY DEF Broker!AppWritesRaw, BrokerInv, DiskTyped
<1>3. DiskTyped' /\ RunTyped' /\ Unstarted' /\ Stopped' /\ Untouched' /\ Receipted' /\ CallsHonest'
  BY <1>1, <1>2 DEF BrokerInv, DiskTyped, RunTyped, Unstarted, Stopped, Untouched, Receipted, CallsHonest
<1>4. Compared'
  BY <1>1 DEF Compared
<1>5. Handled'
  BY <1>1 DEF BrokerInv, Handled, Busy
<1>6. Told' = Told /\ performed' = performed
  BY <1>1 DEF Told
<1>7. WritesTold'
  BY <1>6 DEF BrokerInv, WritesTold, Broker!ListedIn
<1> QED
  BY <1>3, <1>4, <1>5, <1>7 DEF BrokerInv

\* Someone changes the package or the dependency.
LEMMA TamperInv == ASSUME Broker!BrokerAssumption, BrokerInv, Broker!Tamper PROVE BrokerInv'
<1>1. /\ tampered' = TRUE
      /\ UNCHANGED <<runtime, before, run, backlog, thread, calls, receipt, joined, performed, sent>>
  BY DEF Broker!Tamper
<1>2. installed' \in FileContents /\ dependency' \in BOOLEAN
  BY DEF Broker!Tamper, BrokerInv, DiskTyped
<1>3. DiskTyped' /\ RunTyped' /\ Unstarted' /\ Stopped' /\ Untouched' /\ CallsHonest'
  BY <1>1, <1>2 DEF BrokerInv, DiskTyped, RunTyped, Unstarted, Stopped, Untouched, CallsHonest
<1>4. Receipted'
  BY <1>1 DEF BrokerInv, Receipted
<1>5. Compared'
  BY <1>1 DEF BrokerInv, Compared, FilesAccounted, Broker!FinalWrites
<1>6. Handled'
  BY <1>1 DEF BrokerInv, Handled, Busy
<1>7. Told' = Told /\ performed' = performed
  BY <1>1 DEF Told
<1>8. WritesTold'
  BY <1>7 DEF BrokerInv, WritesTold, Broker!ListedIn
<1> QED
  BY <1>3, <1>4, <1>5, <1>6, <1>8 DEF BrokerInv

-----------------------------------------------------------------------------
(* The broker thread.                                                      *)

\* While the thread is at work and not given up, run_brokered has not gone past the join.
LEMMA AtWork ==
    ASSUME BrokerInv, thread.at # "gone", UNCHANGED <<run, receipt, joined, before>>
    PROVE  /\ joined => run.at \in {"app", "join"}
           /\ RunTyped' /\ Unstarted' /\ Stopped' /\ Receipted' /\ Compared'
<1>1. run.at # "ready" /\ (joined => run.at \in {"app", "join"})
  BY DEF BrokerInv, Unstarted, Stopped
<1>2. joined => receipt = None
  BY <1>1 DEF BrokerInv, Receipted
<1>3. RunTyped' /\ Unstarted' /\ Stopped'
  BY <1>1 DEF BrokerInv, RunTyped, Unstarted, Stopped
<1>4. Receipted' /\ Compared'
  BY <1>1, <1>2 DEF Receipted, Compared
<1> QED
  BY <1>1, <1>3, <1>4

\* A connection is taken from the queue, or the loop ends, or the package is verified.
LEMMA AcceptInv ==
    ASSUME Broker!BrokerAssumption, BrokerInv, Broker!Accept \/ Broker!ServeEnds \/ Broker!HandleVerify
    PROVE  BrokerInv'
<1>1. /\ thread.at \in {"accept", "verify"}
      /\ UNCHANGED <<installed, dependency, runtime, before, run, calls, receipt, joined, performed, tampered, sent>>
  BY DEF Broker!Accept, Broker!ServeEnds, Broker!HandleVerify, Broker!disk
<1>2. /\ joined => run.at \in {"app", "join"}
      /\ RunTyped' /\ Unstarted' /\ Stopped' /\ Receipted' /\ Compared'
  BY <1>1, AtWork
<1>3. DiskTyped' /\ Untouched'
  BY <1>1 DEF BrokerInv, DiskTyped, Untouched
<1>4. thread' \in Thread /\ thread'.at \in {"verify", "access", "gone"}
  <2>1. CASE Broker!Accept
    <3>1. Head(backlog) \in Requests
      BY <2>1 DEF Broker!Accept, BrokerInv, Handled
    <3> QED
      BY <2>1, <3>1 DEF Broker!Accept, Thread
  <2>2. CASE Broker!ServeEnds
    BY <2>2 DEF Broker!ServeEnds, Thread
  <2>3. CASE Broker!HandleVerify
    <3>1. thread.request \in Requests
      BY <2>3, ThreadForms DEF Broker!HandleVerify, BrokerInv, Handled
    <3>2. PICK p \in {None, "completed", "blocked"} : thread' = [at |-> "access", request |-> thread.request, package |-> p]
      BY <2>3 DEF Broker!HandleVerify
    <3> QED
      BY <3>1, <3>2 DEF Thread
  <2> QED
    BY <2>1, <2>2, <2>3
<1>5. Handled'
  <2>1. CASE Broker!Accept
    <3>1. backlog' \in Seq(Requests) /\ Len(backlog') = Len(backlog) - 1 /\ Len(backlog) \in Nat /\ Len(calls) \in Nat
      BY <2>1 DEF Broker!Accept, BrokerInv, Handled
    <3>2. ~Busy /\ Busy'
      BY <2>1 DEF Broker!Accept, Busy
    <3> QED
      BY <1>1, <1>4, <3>1, <3>2 DEF BrokerInv, Handled
  <2>2. CASE Broker!ServeEnds
    <3>1. ~Busy /\ ~Busy' /\ backlog' = backlog
      BY <2>2 DEF Broker!ServeEnds, Busy
    <3> QED
      BY <1>1, <1>4, <3>1 DEF BrokerInv, Handled
  <2>3. CASE Broker!HandleVerify
    <3>1. Busy /\ Busy' /\ backlog' = backlog
      BY <2>3 DEF Broker!HandleVerify, Busy
    <3> QED
      BY <1>1, <1>4, <3>1 DEF BrokerInv, Handled
  <2> QED
    BY <2>1, <2>2, <2>3
<1>6. Told' = Told /\ performed' = performed
  BY <1>1, <1>4 DEF Told
<1>7. WritesTold'
  BY <1>6 DEF BrokerInv, WritesTold, Broker!ListedIn
<1>8. CallsHonest'
  <2>1. SUFFICES ASSUME joined, ~tampered, thread'.at = "access"
                 PROVE  thread'.package = IF thread'.request.token /\ Broker!Official(thread'.request) THEN "completed" ELSE None
    BY <1>1, <1>4 DEF BrokerInv, CallsHonest
  <2>2. installed = SignedContent
    BY <1>2, <2>1 DEF BrokerInv, Untouched
  <2>3. Broker!HandleVerify
    <3>1. Broker!Accept => thread'.at = "verify"
      BY DEF Broker!Accept
    <3>2. Broker!ServeEnds => thread'.at = "gone"
      BY DEF Broker!ServeEnds
    <3> QED
      BY <2>1, <3>1, <3>2
  <2> QED
    BY <2>2, <2>3 DEF Broker!HandleVerify, Broker!Verified
<1> QED
  BY <1>2, <1>3, <1>5, <1>7, <1>8 DEF BrokerInv

\* The call about to be listed joins the writes told if it is one.
LEMMA OneMoreTold ==
    ASSUME NEW cs \in Seq(Call), NEW c \in Call, NEW writes, NEW more, IsSeq(writes), Broker!ListedIn(writes, cs),
           Broker!IsWrite(c) => more = Append(writes, <<c.argument, c.sha256>>),
           ~Broker!IsWrite(c) => more = writes
    PROVE  IsSeq(more) /\ Broker!ListedIn(more, Append(cs, c))
<1> DEFINE n == Len(cs)
           k == Len(writes)
           told == Append(cs, c)
<1>1. n \in Nat /\ DOMAIN cs = 1..n /\ k \in Nat /\ DOMAIN writes = 1..k
  BY LenProperties DEF IsSeq
<1>2. /\ told \in Seq(Call) /\ Len(told) = n + 1 /\ DOMAIN told = 1..(n + 1) /\ told[n + 1] = c
      /\ \A i \in 1..n : told[i] = cs[i]
  BY <1>1
<1>3. PICK at \in [1..k -> 1..n] :
        /\ \A i, j \in 1..k : i < j => at[i] < at[j]
        /\ {at[i] : i \in 1..k} = {m \in 1..n : Broker!IsWrite(cs[m])}
        /\ \A i \in 1..k : writes[i] = <<cs[at[i]].argument, cs[at[i]].sha256>>
  BY <1>1 DEF Broker!ListedIn
<1> HIDE DEF n, k, told
<1>4. {m \in 1..n : Broker!IsWrite(told[m])} = {m \in 1..n : Broker!IsWrite(cs[m])}
  BY <1>2
<1>5. CASE Broker!IsWrite(c)
  <2> DEFINE next == [i \in 1..(k + 1) |-> IF i = k + 1 THEN n + 1 ELSE at[i]]
  <2>1. IsSeq(more) /\ DOMAIN more = 1..(k + 1) /\ more[k + 1] = <<c.argument, c.sha256>> /\ \A i \in 1..k : more[i] = writes[i]
    BY <1>5, Appended DEF k
  <2>2. next \in [1..(k + 1) -> 1..(n + 1)] /\ next[k + 1] = n + 1 /\ \A i \in 1..k : next[i] = at[i] /\ at[i] \in 1..n
    BY <1>1, <1>3
  <2> HIDE DEF next
  <2>3. ASSUME NEW i \in 1..(k + 1), NEW j \in 1..(k + 1), i < j PROVE next[i] < next[j]
    <3>1. i \in 1..k /\ next[i] = at[i] /\ at[i] \in 1..n
      BY <1>1, <2>2, <2>3
    <3>2. CASE j = k + 1
      BY <1>1, <2>2, <3>1, <3>2
    <3>3. CASE j \in 1..k
      BY <1>3, <2>2, <2>3, <3>1, <3>3
    <3> QED
      BY <1>1, <3>2, <3>3
  <2>4. {next[i] : i \in 1..(k + 1)} = {m \in 1..(n + 1) : Broker!IsWrite(told[m])}
    <3>1. ASSUME NEW i \in 1..(k + 1) PROVE next[i] \in 1..(n + 1) /\ Broker!IsWrite(told[next[i]])
      <4>1. CASE i = k + 1
        BY <1>1, <1>2, <1>5, <2>2, <4>1
      <4>2. CASE i \in 1..k
        <5>1. at[i] \in {m \in 1..n : Broker!IsWrite(cs[m])}
          BY <1>3, <4>2
        <5> QED
          BY <1>1, <1>2, <2>2, <4>2, <5>1
      <4> QED
        BY <1>1, <4>1, <4>2
    <3>2. ASSUME NEW m \in 1..(n + 1), Broker!IsWrite(told[m]) PROVE \E i \in 1..(k + 1) : next[i] = m
      <4>1. CASE m = n + 1
        BY <1>1, <2>2, <4>1
      <4>2. CASE m \in 1..n
        <5>1. m \in {at[i] : i \in 1..k}
          BY <1>3, <1>4, <3>2, <4>2
        <5>2. PICK i \in 1..k : at[i] = m
          BY <5>1
        <5> QED
          BY <1>1, <2>2, <5>2
      <4> QED
        BY <1>1, <4>1, <4>2
    <3> QED
      BY <3>1, <3>2
  <2>5. ASSUME NEW i \in 1..(k + 1) PROVE more[i] = <<told[next[i]].argument, told[next[i]].sha256>>
    <3>1. CASE i = k + 1
      BY <1>2, <2>1, <2>2, <3>1
    <3>2. CASE i \in 1..k
      <4>1. more[i] = writes[i] /\ next[i] = at[i] /\ told[next[i]] = cs[at[i]]
        BY <1>2, <2>1, <2>2, <3>2
      <4> QED
        BY <1>3, <3>2, <4>1
    <3> QED
      BY <1>1, <3>1, <3>2
  <2> QED
    BY <1>2, <2>1, <2>2, <2>3, <2>4, <2>5 DEF Broker!ListedIn, told
<1>6. CASE ~Broker!IsWrite(c)
  <2>1. more = writes /\ at \in [1..k -> 1..(n + 1)]
    BY <1>1, <1>3, <1>6
  <2>2. {m \in 1..(n + 1) : Broker!IsWrite(told[m])} = {at[i] : i \in 1..k}
    <3>1. ~Broker!IsWrite(told[n + 1])
      BY <1>2, <1>6
    <3>2. {m \in 1..(n + 1) : Broker!IsWrite(told[m])} = {m \in 1..n : Broker!IsWrite(told[m])}
      BY <1>1, <3>1
    <3> QED
      BY <1>3, <1>4, <3>2
  <2>3. \A i \in 1..k : told[at[i]] = cs[at[i]]
    BY <1>2, <1>3
  <2>4. \A i \in 1..k : writes[i] = <<told[at[i]].argument, told[at[i]].sha256>>
    BY <1>3, <2>3
  <2> QED
    BY <1>1, <1>2, <1>3, <2>1, <2>2, <2>4 DEF Broker!ListedIn, told
<1> QED
  BY <1>5, <1>6

\* The request is answered: written, read, or refused.
LEMMA HandleAccessInv == ASSUME Broker!BrokerAssumption, BrokerInv, Broker!HandleAccess PROVE BrokerInv'
<1>1. /\ thread.at = "access"
      /\ UNCHANGED <<installed, dependency, before, run, backlog, calls, receipt, joined, tampered, sent>>
  BY DEF Broker!HandleAccess
<1>2. PICK request : request = thread.request
  OBVIOUS
<1>3. request \in Requests /\ thread.package \in {None, "completed", "blocked"} /\ calls \in Seq(Call) /\ Len(calls) \in Nat
  BY <1>1, <1>2, ThreadForms DEF BrokerInv, Handled
<1>4. /\ request.operation \in Kinds /\ request.argument \in STRING /\ request.data \in FileContents \cup {None}
      /\ request.token \in BOOLEAN /\ (request.operation = "write" => request.argument \in RuntimePaths)
  BY <1>3, RequestForms
<1> DEFINE may == /\ request.token /\ thread.package # "blocked"
                  /\ Broker!Official(request) => Broker!Allowed(request)
                  /\ request.operation # "unknown"
           fresh == request.operation = "dependency" /\ may
           ok == may /\ (fresh => dependency)
           sha == IF request.token /\ request.operation = "write" THEN request.data
                  ELSE IF ok /\ request.operation = "read" THEN installed
                  ELSE IF ok /\ request.operation = "receipt" THEN Len(calls) ELSE None
           allowed == IF request.token /\ Broker!Official(request) THEN Broker!Allowed(request) ELSE None
           depends == IF fresh THEN dependency ELSE None
           call == Broker!Evidence(request, thread.package, allowed, sha, depends, IF ok THEN "completed" ELSE "blocked")
<1>5. /\ thread' = [at |-> "record", call |-> call]
      /\ IF ok /\ request.operation = "write"
         THEN /\ runtime' = [runtime EXCEPT ![request.argument] = request.data]
              /\ performed' = Append(performed, <<request.argument, request.data>>)
         ELSE UNCHANGED <<runtime, performed>>
  BY <1>2 DEF Broker!HandleAccess
<1>6. /\ ok \in BOOLEAN /\ sha \in FileContents \cup {None} \cup Nat /\ allowed \in BOOLEAN \cup {None} /\ depends \in BOOLEAN \cup {None}
  BY <1>3, <1>4 DEF BrokerInv, DiskTyped, Broker!Allowed
<1>7. /\ call.operation = request.operation /\ call.argument = (IF request.token THEN request.argument ELSE None)
      /\ call.package = thread.package /\ call.allowed = allowed /\ call.sha256 = sha /\ call.dependency_status = depends
      /\ call.status = (IF ok THEN "completed" ELSE "blocked")
  BY DEF Broker!Evidence
<1>8. call \in Call
  <2> HIDE DEF ok, sha, allowed, depends
  <2> QED
    BY <1>3, <1>4, <1>6 DEF Broker!Evidence, Call
<1>9. PICK c \in Call : c = call
  BY <1>8
<1>10. thread' = [at |-> "record", call |-> c]
  BY <1>5, <1>9
<1>11. Broker!IsWrite(c) <=> ok /\ request.operation = "write"
  <2> HIDE DEF ok, sha, allowed, depends, call
  <2> QED
    BY <1>6, <1>7, <1>9 DEF Broker!IsWrite
<1>12. ok /\ request.operation = "write" => c.argument = request.argument /\ c.sha256 = request.data
  BY <1>7, <1>9
<1>13. CallsHonest'
  <2>1. SUFFICES ASSUME joined, ~tampered PROVE Honest(c)
    BY <1>1, <1>10 DEF BrokerInv, CallsHonest
  <2>2. dependency = TRUE /\ installed = SignedContent
    BY <1>1, <2>1, AtWork DEF BrokerInv, Untouched, Stopped, Unstarted
  <2>3. thread.package = IF request.token /\ Broker!Official(request) THEN "completed" ELSE None
    BY <1>1, <1>2, <2>1 DEF BrokerInv, CallsHonest
  <2>4. c.operation = "receipt" => c.package = None /\ c.allowed = None /\ c.dependency_status = None
    BY <1>7, <1>9, <2>3 DEF Broker!Official
  <2>5. ASSUME c.argument # None, c.operation \in {"read", "write", "env", "dependency"}
        PROVE  /\ c.package = "completed" /\ c.allowed = (<<c.operation, c.argument>> \in Grants)
               /\ c.operation = "read" => c.sha256 = IF c.status = "completed" THEN SignedContent ELSE None
               /\ c.operation \in {"env", "dependency"} => c.sha256 = None
               /\ c.dependency_status = IF c.operation = "dependency" /\ <<c.operation, c.argument>> \in Grants THEN TRUE ELSE None
    <3>1. request.token /\ Broker!Official(request) /\ c.operation = request.operation /\ c.argument = request.argument
      BY <1>7, <1>9, <2>5 DEF Broker!Official
    <3>2. thread.package = "completed"
      BY <2>3, <3>1
    <3>3. (Broker!Allowed(request) <=> <<c.operation, c.argument>> \in Grants) /\ (may <=> Broker!Allowed(request))
      BY <2>5, <3>1, <3>2 DEF Broker!Allowed
    <3>4. c.package = "completed" /\ c.allowed = (<<c.operation, c.argument>> \in Grants)
      <4>1. c.allowed = (<<request.operation, request.argument>> \in Grants)
        BY <1>7, <1>9, <3>1 DEF Broker!Allowed
      <4> QED
        BY <1>7, <1>9, <3>1, <3>2, <4>1
    <3>5. c.operation = "read" => c.sha256 = IF c.status = "completed" THEN SignedContent ELSE None
      BY <1>7, <1>9, <2>2, <3>1
    <3>6. c.operation \in {"env", "dependency"} => c.sha256 = None
      BY <1>7, <1>9, <3>1
    <3>7. c.dependency_status = IF c.operation = "dependency" /\ <<c.operation, c.argument>> \in Grants THEN TRUE ELSE None
      BY <1>7, <1>9, <2>2, <3>1, <3>3
    <3> QED
      BY <3>4, <3>5, <3>6, <3>7
  <2> QED
    BY <2>4, <2>5 DEF Honest
<1> HIDE DEF may, fresh, ok, sha, allowed, depends, call
<1>14. Told = calls /\ Told' = Append(calls, c)
  BY <1>1, <1>10 DEF Told
<1>15. WritesTold'
  <2>1. IsSeq(performed) /\ Broker!ListedIn(performed, calls)
    BY <1>14 DEF BrokerInv, WritesTold
  <2>2. PICK more : more = performed'
    OBVIOUS
  <2>3. Broker!IsWrite(c) => more = Append(performed, <<c.argument, c.sha256>>)
    BY <1>5, <1>11, <1>12, <2>2
  <2>4. ~Broker!IsWrite(c) => more = performed
    BY <1>5, <1>11, <2>2
  <2>5. IsSeq(more) /\ Broker!ListedIn(more, Append(calls, c))
    BY <1>3, <2>1, <2>3, <2>4, OneMoreTold
  <2> QED
    BY <1>14, <2>2, <2>5 DEF WritesTold, Broker!ListedIn
<1>16. Handled'
  <2>1. Busy /\ Busy' /\ thread' \in Thread
    BY <1>1, <1>10 DEF Busy, Thread
  <2> QED
    BY <1>1, <2>1 DEF BrokerInv, Handled
<1>17. runtime' \in [RuntimePaths -> FileContents \cup {None}]
  BY <1>4, <1>5 DEF BrokerInv, DiskTyped
<1>18. DiskTyped' /\ Untouched'
  BY <1>1, <1>17 DEF BrokerInv, DiskTyped, Untouched
<1>19. RunTyped' /\ Unstarted' /\ Stopped' /\ Receipted' /\ Compared'
  BY <1>1, AtWork
<1> QED
  BY <1>13, <1>15, <1>16, <1>18, <1>19 DEF BrokerInv

\* The call is listed.
LEMMA HandleRecordInv == ASSUME Broker!BrokerAssumption, BrokerInv, Broker!HandleRecord PROVE BrokerInv'
<1>1. /\ thread.at = "record" /\ calls' = Append(calls, thread.call) /\ thread' \in {[at |-> "accept"], [at |-> "gone"]}
      /\ UNCHANGED <<installed, dependency, runtime, before, run, backlog, receipt, joined, performed, tampered, sent>>
  BY DEF Broker!HandleRecord, Broker!disk, Broker!Waiting
<1>2. thread.call \in Call /\ calls \in Seq(Call) /\ Len(calls) \in Nat
  BY <1>1, ThreadForms DEF BrokerInv, Handled
<1>3. /\ calls' \in Seq(Call) /\ Len(calls') = Len(calls) + 1 /\ DOMAIN calls' = 1..(Len(calls) + 1)
      /\ calls'[Len(calls) + 1] = thread.call /\ \A i \in 1..Len(calls) : calls'[i] = calls[i]
  BY <1>1, <1>2
<1>4. thread' \in Thread /\ thread'.at \in {"accept", "gone"}
  BY <1>1 DEF Thread
<1>5. Handled'
  <2>1. Busy /\ ~Busy'
    BY <1>1, <1>4 DEF Busy
  <2> QED
    BY <1>1, <1>2, <1>3, <1>4, <2>1 DEF BrokerInv, Handled
<1>6. Told' = Told /\ performed' = performed
  BY <1>1, <1>4 DEF Told
<1>7. WritesTold'
  BY <1>6 DEF BrokerInv, WritesTold, Broker!ListedIn
<1>8. CallsHonest'
  <2>1. SUFFICES ASSUME joined, ~tampered, NEW i \in DOMAIN calls' PROVE Honest(calls'[i])
    BY <1>1, <1>4 DEF CallsHonest
  <2>2. Honest(thread.call) /\ \A j \in 1..Len(calls) : Honest(calls[j])
    BY <1>1, <1>2, <2>1 DEF BrokerInv, CallsHonest
  <2>3. CASE i = Len(calls) + 1
    BY <1>3, <2>2, <2>3
  <2>4. CASE i \in 1..Len(calls)
    BY <1>3, <2>2, <2>4
  <2> QED
    BY <1>2, <1>3, <2>3, <2>4
<1>9. DiskTyped' /\ Untouched'
  BY <1>1 DEF BrokerInv, DiskTyped, Untouched
<1>10. RunTyped' /\ Unstarted' /\ Stopped' /\ Receipted' /\ Compared'
  BY <1>1, AtWork
<1> QED
  BY <1>5, <1>7, <1>8, <1>9, <1>10 DEF BrokerInv

\* Every step keeps the invariant.
LEMMA BrokerStepInv == ASSUME Broker!BrokerAssumption, BrokerInv, [Broker!Next]_(Broker!vars) PROVE BrokerInv'
<1>1. CASE UNCHANGED Broker!vars
  <2>1. UNCHANGED <<installed, dependency, runtime, before, run, backlog, thread, calls, receipt, joined, performed, tampered, sent>>
    BY <1>1 DEF Broker!vars, Broker!disk
  <2>2. DiskTyped' /\ Handled' /\ WritesTold' /\ CallsHonest'
    BY <2>1, ThreadKept DEF BrokerInv, DiskTyped
  <2>3. RunTyped' /\ Unstarted' /\ Stopped' /\ Receipted' /\ Untouched'
    BY <2>1 DEF BrokerInv, RunTyped, Unstarted, Stopped, Receipted, Untouched
  <2>4. Compared'
    BY <2>1 DEF BrokerInv, Compared, FilesAccounted, Broker!FinalWrites
  <2> QED
    BY <2>2, <2>3, <2>4 DEF BrokerInv
<1>2. CASE Broker!Main
  <2>1. Broker!RefuseRun \/ Broker!StartBroker \/ Broker!StopJoined \/ Broker!StopTimedOut
          \/ Broker!CheckPackage \/ Broker!CheckRuntime \/ Broker!Finalize
    BY <1>2 DEF Broker!Main
  <2> QED
    BY <2>1, RefuseRunInv, StartBrokerInv, JoinInv, CheckPackageInv, CheckRuntimeInv, FinalizeInv
<1>3. CASE Broker!Serve
  <2>1. Broker!Accept \/ Broker!ServeEnds \/ Broker!HandleVerify \/ Broker!HandleAccess \/ Broker!HandleRecord
    BY <1>3 DEF Broker!Serve
  <2> QED
    BY <2>1, AcceptInv, HandleAccessInv, HandleRecordInv
<1>4. CASE Broker!AppExits \/ Broker!AppRequests \/ Broker!AppWritesRaw \/ Broker!Tamper
  BY <1>4, JoinInv, AppRequestsInv, AppWritesRawInv, TamperInv
<1> QED
  BY <1>1, <1>2, <1>3, <1>4 DEF Broker!Next

-----------------------------------------------------------------------------
(* What follows from it.                                                   *)

\* No request is served twice.
LEMMA BrokerTyped == ASSUME Broker!BrokerAssumption, BrokerInv PROVE Broker!TypeOK
<1>1. thread.at \in {"accept", "verify", "access", "record", "gone"}
  BY ThreadForms DEF BrokerInv, Handled
<1>2. Len(backlog) + Len(calls) <= MaxRequests
  <2>1. Len(backlog) \in Nat /\ Len(calls) \in Nat /\ sent \in 0..MaxRequests /\ Len(backlog) + Len(calls) + (IF Busy THEN 1 ELSE 0) = sent
    BY DEF BrokerInv, Handled
  <2>2. PICK busy \in {0, 1} : busy = IF Busy THEN 1 ELSE 0
    BY Zenon
  <2>3. Len(backlog) + Len(calls) + busy = sent
    BY <2>1, <2>2
  <2> QED
    BY <2>1, <2>3 DEF Broker!BrokerAssumption
<1> QED
  BY <1>1, <1>2 DEF BrokerInv, DiskTyped, RunTyped, Positions, Broker!TypeOK

\* What was compared before the receipt was written is still there.
LEMMA FilesFollow == ASSUME BrokerInv PROVE Broker!CompletedAccountsForFiles
<1>1. SUFFICES ASSUME receipt # None, joined, receipt.status = "completed", NEW p \in RuntimePaths
               PROVE  LET last == {i \in Broker!FinalWrites(receipt.calls) : receipt.calls[i].argument = p}
                      IN  runtime[p] = IF last = {} THEN before[p] ELSE receipt.calls[CHOOSE i \in last : TRUE].sha256
  BY DEF Broker!CompletedAccountsForFiles, Broker!Issued
<1>2. receipt.calls = calls /\ run.at = "done" /\ ~run.failures
  BY <1>1 DEF BrokerInv, Receipted
<1>3. FilesAccounted
  BY <1>1, <1>2 DEF BrokerInv, Compared
<1> DEFINE last == {i \in Broker!FinalWrites(calls) : calls[i].argument = p}
<1>4. CASE last = {}
  <2>1. runtime[p] = before[p]
    BY <1>3, <1>4 DEF FilesAccounted
  <2> QED
    BY <1>2, <1>4, <2>1
<1>5. CASE last # {}
  <2>1. PICK i : i = (CHOOSE j \in last : TRUE)
    OBVIOUS
  <2>2. i \in last
    BY <1>5, <2>1
  <2>3. runtime[p] = calls[i].sha256
    BY <1>3, <2>2 DEF FilesAccounted
  <2> QED
    BY <1>2, <1>5, <2>1, <2>3
<1> QED
  BY <1>4, <1>5

\* The thread has ended, so all it told is listed.
LEMMA WritesFollow == ASSUME BrokerInv PROVE Broker!JoinedAccessReceipted
<1>1. SUFFICES ASSUME receipt # None, joined PROVE Broker!ListedIn(performed, receipt.calls)
  BY DEF Broker!JoinedAccessReceipted, Broker!Issued
<1>2. receipt.calls = calls /\ run.at = "done"
  BY <1>1 DEF BrokerInv, Receipted
<1>3. thread.at = "gone"
  BY <1>1, <1>2 DEF BrokerInv, Stopped
<1>4. Told = calls
  BY <1>3 DEF Told
<1> QED
  BY <1>2, <1>4 DEF BrokerInv, WritesTold

\* A read that was not of the signed content has another hash than the replay computes.
LEMMA ForgeryFollows == Broker!ForgedReadDetected
<1>1. SUFFICES ASSUME NEW i \in DOMAIN receipt.calls, receipt.calls[i].operation = "read",
                      receipt.calls[i].status = "completed", receipt.calls[i].sha256 # SignedContent,
                      Broker!ReplayVerified
               PROVE  FALSE
  BY DEF Broker!ForgedReadDetected
<1> DEFINE c == receipt.calls[i]
           again == Broker!ReplayCall(c, i \in Broker!FinalWrites(receipt.calls))
<1>2. installed = SignedContent /\ again = c
  BY <1>1 DEF Broker!ReplayVerified, Broker!Verified
<1>3. again.sha256 = installed
  BY <1>1 DEF Broker!ReplayCall
<1> HIDE DEF again
<1> QED
  BY <1>1, <1>2, <1>3

\* The replay computes every listed call again.
LEMMA ReplayFollows == ASSUME Broker!BrokerAssumption, BrokerInv PROVE Broker!PathedReplays
<1>1. SUFFICES ASSUME receipt # None, joined, receipt.status = "completed", ~tampered, Broker!PathsListed
               PROVE  Broker!ReplayVerified
  BY DEF Broker!PathedReplays, Broker!Issued
<1>2. receipt.calls = calls /\ run.at = "done" /\ ~run.failures /\ installed = SignedContent /\ dependency = TRUE
  BY <1>1 DEF BrokerInv, Receipted, Untouched
<1>3. FilesAccounted
  BY <1>1, <1>2 DEF BrokerInv, Compared
<1>4. SUFFICES ASSUME NEW i \in DOMAIN calls
               PROVE  Broker!ReplayCall(calls[i], i \in Broker!FinalWrites(calls)) = calls[i]
  BY <1>1, <1>2 DEF Broker!ReplayVerified, Broker!Verified, Broker!PathsListed
<1>5. calls[i] \in Call /\ Honest(calls[i]) /\ calls[i].argument # None /\ calls[i].operation # "unknown"
  <2>1. calls[i] \in Call
    BY DEF BrokerInv, Handled
  <2>2. Honest(calls[i])
    BY <1>1 DEF BrokerInv, CallsHonest
  <2>3. calls[i].argument # None
    BY <1>1, <1>2 DEF Broker!PathsListed
  <2>4. calls[i].operation # "unknown"
    BY <1>1 DEF BrokerInv, Receipted
  <2> QED
    BY <2>1, <2>2, <2>3, <2>4
<1> DEFINE c == calls[i]
           final == i \in Broker!FinalWrites(calls)
           again == Broker!ReplayCall(c, final)
<1>6. c.operation \in {"read", "write", "env", "dependency", "receipt"}
  BY <1>5 DEF Call, Kinds
<1>7. again.operation = c.operation /\ again.argument = c.argument /\ again.status = c.status
  BY DEF Broker!ReplayCall
<1>8. again.package = c.package
  BY <1>2, <1>5, <1>6 DEF Broker!ReplayCall, Broker!Verified, Honest
<1>9. again.allowed = c.allowed
  <2>1. CASE c.operation = "receipt"
    BY <1>5, <2>1 DEF Broker!ReplayCall, Honest
  <2>2. CASE c.operation # "receipt"
    <3>1. c.allowed = (<<c.operation, c.argument>> \in Grants)
      BY <1>5, <1>6, <2>2 DEF Honest
    <3>2. again.allowed = (<<c.operation, c.argument>> \in Grants)
      BY <2>2 DEF Broker!ReplayCall
    <3> QED
      BY <3>1, <3>2
  <2> QED
    BY <2>1, <2>2
<1>10. again.sha256 = c.sha256
  <2>1. c.operation = "write" /\ c.status = "completed" /\ final => runtime[c.argument] = c.sha256
    BY <1>3 DEF FilesAccounted
  <2>2. CASE c.operation = "write"
    BY <2>1, <2>2 DEF Broker!ReplayCall
  <2>3. CASE c.operation = "read"
    BY <1>2, <1>5, <2>3 DEF Broker!ReplayCall, Honest
  <2>4. CASE c.operation = "receipt"
    BY <2>4 DEF Broker!ReplayCall
  <2>5. CASE c.operation \in {"env", "dependency"}
    BY <1>5, <2>5 DEF Broker!ReplayCall, Honest
  <2> QED
    BY <1>6, <2>2, <2>3, <2>4, <2>5
<1>11. again.dependency_status = c.dependency_status
  BY <1>2, <1>5, <1>6 DEF Broker!ReplayCall, Honest
<1>12. again = [operation |-> again.operation, argument |-> again.argument, status |-> again.status, package |-> again.package,
                allowed |-> again.allowed, sha256 |-> again.sha256, dependency_status |-> again.dependency_status]
  BY DEF Broker!ReplayCall
<1>13. c = [operation |-> c.operation, argument |-> c.argument, status |-> c.status, package |-> c.package,
            allowed |-> c.allowed, sha256 |-> c.sha256, dependency_status |-> c.dependency_status]
  BY <1>5 DEF Call
<1> HIDE DEF c, again, final
<1>14. again = c
  BY <1>7, <1>8, <1>9, <1>10, <1>11, <1>12, <1>13
<1> QED
  BY <1>14 DEF c, again, final

-----------------------------------------------------------------------------
\* A brokered scenario is a behaviour of CapabilityBroker.
LEMMA BrokerAlone ==
    /\ Spec /\ scenario = "broker" => Broker!Spec /\ [](scenario = "broker")
    /\ Spec /\ ~(scenario = "broker") => [](~(scenario = "broker"))
<1>1. Init /\ scenario = "broker" => Broker!Init
  BY DEF Init
<1>2. UNCHANGED vars => UNCHANGED <<scenario, Broker!vars>>
  BY DEF vars, brokerVars, Broker!vars, Broker!disk
<1>3. scenario = "broker" /\ [Next]_vars => (scenario = "broker")' /\ [Broker!Next]_(Broker!vars)
  BY <1>2 DEF Next, TsStep, BrokerStep, RootStep
<1>4. ~(scenario = "broker") /\ [Next]_vars => (~(scenario = "broker"))'
  BY DEF Next, vars, TsStep, BrokerStep, RootStep
<1> QED
  BY <1>1, <1>3, <1>4, PTL DEF Spec, Broker!Spec

\* A receipt accounts for all that was written, by the broker and behind its back, unless
\* the broker's thread was given up; it replays, and a forged read does not (run_brokered,
\* _handle and replay, for any requests, grants and contents in any order).
THEOREM AccessesAlwaysReceipted == Spec => []AccessesReceipted
<1>1. Broker!BrokerAssumption
  BY GuestAssumption
<1>2. Broker!Init => BrokerInv
  BY <1>1, BrokerInitially
<1>3. BrokerInv /\ [Broker!Next]_(Broker!vars) => BrokerInv'
  BY <1>1, BrokerStepInv
<1>4. BrokerInv => AccessesReceipted
  BY <1>1, BrokerTyped, FilesFollow, WritesFollow, ForgeryFollows, ReplayFollows DEF AccessesReceipted
<1>5. ~(scenario = "broker") => AccessesReceipted
  BY DEF AccessesReceipted
<1> QED
  BY <1>2, <1>3, <1>4, <1>5, BrokerAlone, PTL DEF Broker!Spec

(***************************************************************************)
(* TS-Lang.                                                                *)
(*                                                                         *)
(* What the compiler sums and filters is a recursive function over the     *)
(* positions of a block; it is determined step by step.                    *)
(***************************************************************************)
\* A set of naturals that holds 0 and every successor is all of them.
LEMMA Everywhere ==
  ASSUME NEW T \in SUBSET Nat, 0 \in T, \A n \in T : n + 1 \in T
  PROVE  T = Nat
<1> DEFINE bad == Nat \ T
<1> SUFFICES ASSUME bad # {} PROVE FALSE
  OBVIOUS
<1>1. PICK n \in bad : \A m \in bad : n <= m
  BY Least
<1>2. n # 0 /\ n - 1 \in Nat /\ ~(n <= n - 1) /\ (n - 1) + 1 = n
  BY <1>1
<1>3. n - 1 \in T
  BY <1>1, <1>2
<1> QED
  BY <1>1, <1>2, <1>3

\* f goes from first to its last value in K steps.
Stepwise(f, K, first, step) == f[0] = first /\ \A t \in 1..K : f[t] = step[<<t, f[t - 1]>>]

LEMMA StepsExist ==
  ASSUME NEW S, NEW first \in S, NEW K \in Nat, NEW step \in [(1..K) \X S -> S]
  PROVE  \E f \in [0..K -> S] : Stepwise(f, K, first, step)
<1> DEFINE Good(k) == \E f \in [0..k -> S] : Stepwise(f, k, first, step)
           T == {k \in Nat : k <= K => Good(k)}
<1>1. Good(0)
  <2> DEFINE f == [t \in 0..0 |-> first]
  <2>1. f \in [0..0 -> S] /\ f[0] = first /\ 1..0 = {}
    OBVIOUS
  <2> QED
    BY <2>1 DEF Stepwise
<1>2. ASSUME NEW k \in Nat, k + 1 <= K, Good(k) PROVE Good(k + 1)
  <2>1. PICK f \in [0..k -> S] : f[0] = first /\ \A t \in 1..k : f[t] = step[<<t, f[t - 1]>>]
    BY <1>2 DEF Stepwise
  <2> DEFINE g == [t \in 0..(k + 1) |-> IF t = k + 1 THEN step[<<k + 1, f[k]>>] ELSE f[t]]
  <2>2. f[k] \in S /\ k + 1 \in 1..K
    BY <1>2
  <2>3. step[<<k + 1, f[k]>>] \in S
    BY <2>2
  <2>4. g \in [0..(k + 1) -> S]
    BY <2>3
  <2>5. (\A t \in 0..k : g[t] = f[t]) /\ g[k + 1] = step[<<k + 1, f[k]>>]
    OBVIOUS
  <2> HIDE DEF g
  <2>6. g[0] = first
    BY <2>1, <2>5
  <2>7. ASSUME NEW t \in 1..(k + 1) PROVE g[t] = step[<<t, g[t - 1]>>]
    <3>1. CASE t = k + 1
      <4>1. t - 1 = k /\ g[k] = f[k]
        BY <2>5, <3>1
      <4> QED
        BY <2>5, <3>1, <4>1
    <3>2. CASE t # k + 1
      <4>1. t \in 1..k /\ t \in 0..k /\ t - 1 \in 0..k
        BY <3>2
      <4> QED
        BY <2>1, <2>5, <4>1
    <3> QED
      BY <3>1, <3>2
  <2> QED
    BY <2>4, <2>6, <2>7 DEF Stepwise
<1> HIDE DEF Good
<1>3. T = Nat
  <2>1. 0 \in T /\ \A n \in T : n + 1 \in T
    BY <1>1, <1>2
  <2>2. T \in SUBSET Nat
    OBVIOUS
  <2> HIDE DEF T
  <2> QED
    BY <2>1, <2>2, Everywhere
<1>4. Good(K)
  BY <1>3
<1> QED
  BY <1>4 DEF Good

\* Two that go from the same value in the same steps agree.
LEMMA StepsAgree ==
  ASSUME NEW K \in Nat, NEW first, NEW step, NEW f, NEW g,
         Stepwise(f, K, first, step), Stepwise(g, K, first, step)
  PROVE  \A t \in 0..K : f[t] = g[t]
<1> DEFINE T == {t \in Nat : t <= K => f[t] = g[t]}
<1>1. 0 \in T
  BY DEF Stepwise
<1>2. ASSUME NEW t \in T PROVE t + 1 \in T
  <2>1. SUFFICES ASSUME t + 1 <= K PROVE f[t + 1] = g[t + 1]
    OBVIOUS
  <2>2. t + 1 \in 1..K /\ (t + 1) - 1 = t /\ t <= K
    BY <2>1
  <2>3. f[t + 1] = step[<<t + 1, f[t]>>] /\ g[t + 1] = step[<<t + 1, g[t]>>]
    BY <2>2 DEF Stepwise
  <2> QED
    BY <2>2, <2>3
<1>3. T \in SUBSET Nat
  OBVIOUS
<1> HIDE DEF T
<1>4. T = Nat
  BY <1>1, <1>2, <1>3, Everywhere
<1> QED
  BY <1>4 DEF T

\* An instruction's length in bytes, and the lengths of the prefixes of a block.
Size(i) == Ts!Bytes(i.op, i.value)
Sized(s) == IsSeq(s) /\ \A k \in 1..Len(s) : Size(s[k]) \in Nat
Sums(g, s) == g \in [0..Len(s) -> Nat] /\ g[0] = 0 /\ \A k \in 1..Len(s) : g[k] = g[k - 1] + Size(s[k])

\* Total adds the lengths up.
LEMMA TotalSums ==
  ASSUME NEW s, Sized(s)
  PROVE  \E g : Sums(g, s) /\ Ts!Total(s) = g[Len(s)]
<1> DEFINE n == Len(s)
           W(g) == [k \in 0..n |-> IF k = 0 THEN 0 ELSE g[k - 1] + Size(s[k])]
           sum == CHOOSE g : g = W(g)
           step == [p \in (1..n) \X Nat |-> p[2] + Size(s[p[1]])]
<1>1. Ts!Total(s) = sum[n]
  BY DEF Ts!Total, Size
<1>2. n \in Nat /\ \A k \in 1..n : Size(s[k]) \in Nat
  <2>1. s \in Seq({s[i] : i \in DOMAIN s})
    BY DEF Sized, IsSeq
  <2> QED
    BY <2>1, LenProperties DEF Sized
<1> HIDE DEF n
<1>3. step \in [(1..n) \X Nat -> Nat] /\ \A k \in 1..n, m \in Nat : step[<<k, m>>] = m + Size(s[k])
  BY <1>2
<1> HIDE DEF step
<1>4. PICK f \in [0..n -> Nat] : Stepwise(f, n, 0, step)
  BY <1>2, <1>3, StepsExist
<1>5. f[0] = 0 /\ \A k \in 1..n : k - 1 \in 0..n /\ k \in 0..n /\ k # 0 /\ f[k] = f[k - 1] + Size(s[k])
  <2>1. \A k \in 1..n : k - 1 \in 0..n /\ k \in 0..n /\ k # 0 /\ f[k] = step[<<k, f[k - 1]>>]
    BY <1>2, <1>4 DEF Stepwise
  <2>2. \A k \in 1..n : f[k - 1] \in Nat
    BY <2>1
  <2> QED
    BY <1>3, <1>4, <2>1, <2>2 DEF Stepwise
<1>6. f = W(f)
  <2>1. \A k \in 0..n : k # 0 => k \in 1..n
    BY <1>2
  <2>2. \A k \in 0..n : f[k] = IF k = 0 THEN 0 ELSE f[k - 1] + Size(s[k])
    BY <1>5, <2>1
  <2>3. f = [k \in 0..n |-> f[k]]
    OBVIOUS
  <2> QED
    BY <2>2, <2>3
<1>7. sum = W(sum)
  BY <1>6
<1> HIDE DEF sum
<1>8. \A t \in 0..n : sum[t] = f[t]
  <2> DEFINE T == {t \in Nat : t <= n => sum[t] = f[t]}
  <2>1. 0 \in T
    BY <1>2, <1>5, <1>7
  <2>2. ASSUME NEW t \in T PROVE t + 1 \in T
    <3>1. SUFFICES ASSUME t + 1 <= n PROVE sum[t + 1] = f[t + 1]
      OBVIOUS
    <3>2. t + 1 \in 1..n /\ (t + 1) - 1 = t /\ t <= n /\ t + 1 # 0 /\ t + 1 \in 0..n
      BY <1>2, <3>1
    <3>3. sum[t + 1] = sum[t] + Size(s[t + 1])
      BY <1>7, <3>2
    <3>4. f[t + 1] = f[t] + Size(s[t + 1])
      BY <1>5, <3>2
    <3> QED
      BY <3>2, <3>3, <3>4
  <2>3. T \in SUBSET Nat
    OBVIOUS
  <2> HIDE DEF T
  <2>4. T = Nat
    BY <2>1, <2>2, <2>3, Everywhere
  <2> QED
    BY <2>4 DEF T
<1>9. Ts!Total(s) = f[n] /\ Sums(f, s)
  BY <1>1, <1>2, <1>5, <1>8 DEF Sums, n
<1> QED
  BY <1>9 DEF n

Shifted(g, h, d, m) == \A j \in 0..m : g[d + j] = g[d] + h[j]

\* The sums of a part of a block are those of the block, from where the part begins.
LEMMA SumsShift ==
  ASSUME NEW b, NEW g, Sums(g, b), NEW c, NEW h, Sums(h, c), NEW d \in Nat, Sized(b), Sized(c),
         d + Len(c) <= Len(b), \A j \in 1..Len(c) : c[j] = b[d + j]
  PROVE  Shifted(g, h, d, Len(c))
<1> DEFINE m == Len(c)
           n == Len(b)
           T == {j \in Nat : j <= m => g[d + j] = g[d] + h[j]}
<1>1. m \in Nat /\ n \in Nat
  <2>1. b \in Seq({b[i] : i \in DOMAIN b}) /\ c \in Seq({c[i] : i \in DOMAIN c})
    BY DEF Sized, IsSeq
  <2> QED
    BY <2>1, LenProperties
<1>2. /\ g \in [0..n -> Nat] /\ h \in [0..m -> Nat] /\ h[0] = 0
      /\ \A k \in 1..n : g[k] = g[k - 1] + Size(b[k])
      /\ \A k \in 1..m : h[k] = h[k - 1] + Size(c[k])
      /\ d + m <= n /\ \A j \in 1..m : c[j] = b[d + j] /\ Size(c[j]) \in Nat
  BY DEF Sums, Sized
<1> HIDE DEF m, n
<1>3. 0 \in T
  <2>1. d + 0 = d /\ g[d] \in Nat
    BY <1>1, <1>2
  <2> QED
    BY <1>2, <2>1
<1>4. ASSUME NEW j \in T PROVE j + 1 \in T
  <2>1. SUFFICES ASSUME j + 1 <= m PROVE g[d + (j + 1)] = g[d] + h[j + 1]
    OBVIOUS
  <2>2. /\ j + 1 \in 1..m /\ d + (j + 1) \in 1..n /\ (j + 1) - 1 = j /\ (d + (j + 1)) - 1 = d + j
        /\ j <= m /\ d \in 0..n /\ j \in 0..m
    BY <1>1, <1>2, <2>1
  <2>3. g[d + (j + 1)] = g[d + j] + Size(b[d + (j + 1)])
    BY <1>2, <2>2
  <2>4. h[j + 1] = h[j] + Size(c[j + 1])
    BY <1>2, <2>2
  <2>5. Size(b[d + (j + 1)]) = Size(c[j + 1]) /\ Size(c[j + 1]) \in Nat
    BY <1>2, <2>2
  <2>6. g[d + j] = g[d] + h[j]
    BY <2>2
  <2>7. g[d] \in Nat /\ h[j] \in Nat
    BY <1>2, <2>2
  <2> QED
    BY <2>3, <2>4, <2>5, <2>6, <2>7
<1>5. T \in SUBSET Nat
  OBVIOUS
<1> HIDE DEF T
<1>6. T = Nat
  BY <1>3, <1>4, <1>5, Everywhere
<1>7. \A j \in 0..m : j \in T /\ j <= m
  BY <1>1, <1>6
<1>8. \A j \in 0..m : g[d + j] = g[d] + h[j]
  BY <1>7 DEF T
<1> QED
  BY <1>8 DEF Shifted, m

\* A part from the beginning of a sequence.
LEMMA Prefixed ==
  ASSUME NEW s, IsSeq(s), NEW k \in 0..Len(s), NEW t, t = SubSeq(s, 1, k)
  PROVE  IsSeq(t) /\ Len(t) = k /\ \A i \in 1..k : t[i] = s[i]
<1> DEFINE S == {s[i] : i \in DOMAIN s}
<1>1. s \in Seq(S)
  BY DEF IsSeq
<1>2. Len(s) \in Nat /\ DOMAIN s = 1..Len(s)
  BY <1>1, LenProperties
<1>3. k \in Int /\ 1 \in Int /\ \A i \in 1..k : s[i] \in S
  BY <1>2
<1> HIDE DEF S
<1>4. t \in Seq(S) /\ Len(t) = (IF 1 <= k THEN k - 1 + 1 ELSE 0) /\ \A i \in 1..(k - 1 + 1) : t[i] = s[1 + i - 1]
  BY <1>3, SubSeqProperties
<1>5. Len(t) = k /\ k \in Nat
  BY <1>2, <1>4
<1>6. ASSUME NEW i \in 1..k PROVE t[i] = s[i]
  <2>1. i \in 1..(k - 1 + 1) /\ 1 + i - 1 = i
    BY <1>5
  <2> QED
    BY <1>4, <2>1
<1>7. t = [i \in 1..k |-> t[i]]
  BY <1>4, <1>5, LenProperties
<1> QED
  BY <1>5, <1>6, <1>7, SeqForm

\* Every instruction is placed where those before it end.
LEMMA PlacedAt ==
  ASSUME NEW b, Sized(b), NEW g, Sums(g, b), NEW k \in 1..Len(b)
  PROVE  Ts!Placed(b)[k] = [op |-> b[k].op, value |-> b[k].value, at |-> g[k - 1]]
<1> DEFINE c == SubSeq(b, 1, k - 1)
<1>1. IsSeq(b) /\ Len(b) \in Nat /\ DOMAIN b = 1..Len(b)
  <2>1. b \in Seq({b[i] : i \in DOMAIN b})
    BY DEF Sized, IsSeq
  <2> QED
    BY <2>1, LenProperties DEF Sized
<1>2. k - 1 \in 0..Len(b)
  BY <1>1
<1>3. IsSeq(c) /\ Len(c) = k - 1 /\ \A i \in 1..(k - 1) : c[i] = b[i]
  BY <1>1, <1>2, Prefixed
<1>4. Ts!Placed(b)[k] = [op |-> b[k].op, value |-> b[k].value, at |-> Ts!Total(c)]
  BY <1>1 DEF Ts!Placed
<1> HIDE DEF c
<1>5. \A i \in 1..(k - 1) : i \in 1..Len(b) /\ 0 + i = i
  BY <1>1
<1>6. Sized(c)
  BY <1>3, <1>5 DEF Sized
<1>7. PICK h : Sums(h, c) /\ Ts!Total(c) = h[Len(c)]
  BY <1>6, TotalSums
<1>8. PICK d \in Nat : d = 0
  OBVIOUS
<1>9. d + Len(c) <= Len(b) /\ \A j \in 1..Len(c) : c[j] = b[d + j]
  BY <1>2, <1>3, <1>5, <1>8
<1>10. \A j \in 0..Len(c) : g[d + j] = g[d] + h[j]
  <2>1. Shifted(g, h, d, Len(c))
    BY <1>6, <1>7, <1>9, SumsShift
  <2> QED
    BY <2>1 DEF Shifted
<1>11. k - 1 \in 0..Len(c) /\ d + (k - 1) = k - 1 /\ g[k - 1] = g[0] + h[k - 1]
  <2>1. k - 1 \in 0..Len(c) /\ d + (k - 1) = k - 1
    BY <1>2, <1>3, <1>8
  <2> QED
    BY <1>8, <1>10, <2>1
<1>12. g[0] = 0 /\ h[k - 1] \in Nat
  BY <1>7, <1>11 DEF Sums
<1>13. Ts!Total(c) = g[k - 1]
  BY <1>3, <1>7, <1>11, <1>12
<1> QED
  BY <1>4, <1>13

\* f filters the prefixes of s.
Filters(f, K, s) ==
  /\ f \in [0..Len(s) -> Seq(K)] /\ f[0] = <<>>
  /\ \A k \in 1..Len(s) : f[k] = IF s[k] \in K THEN Append(f[k - 1], s[k]) ELSE f[k - 1]

\* Only filters.
LEMMA OnlyFilters ==
  ASSUME NEW K, NEW s, IsSeq(s)
  PROVE  \E f : Filters(f, K, s) /\ Ts!Only(K, s) = f[Len(s)]
<1> DEFINE n == Len(s)
           Kept(last, k) == IF s[k] \in K THEN Append(last, s[k]) ELSE last
           W(g) == [k \in 0..n |-> IF k = 0 THEN <<>> ELSE Kept(g[k - 1], k)]
           kept == CHOOSE g : g = W(g)
           step == [p \in (1..n) \X Seq(K) |-> Kept(p[2], p[1])]
<1>1. Ts!Only(K, s) = kept[n]
  BY DEF Ts!Only
<1>2. n \in Nat
  <2>1. s \in Seq({s[i] : i \in DOMAIN s})
    BY DEF IsSeq
  <2> QED
    BY <2>1, LenProperties
<1> HIDE DEF n
<1>3. step \in [(1..n) \X Seq(K) -> Seq(K)] /\ \A k \in 1..n, m \in Seq(K) : step[<<k, m>>] = Kept(m, k)
  <2>1. \A k \in 1..n, m \in Seq(K) : Kept(m, k) \in Seq(K)
    OBVIOUS
  <2> QED
    BY <2>1
<1> HIDE DEF step, Kept
<1>4. <<>> \in Seq(K)
  OBVIOUS
<1>5. PICK f \in [0..n -> Seq(K)] : Stepwise(f, n, <<>>, step)
  BY <1>2, <1>3, <1>4, StepsExist
<1>6. f[0] = <<>> /\ \A k \in 1..n : k - 1 \in 0..n /\ k \in 0..n /\ k # 0 /\ f[k] = Kept(f[k - 1], k)
  <2>1. \A k \in 1..n : k - 1 \in 0..n /\ k \in 0..n /\ k # 0 /\ f[k] = step[<<k, f[k - 1]>>]
    BY <1>2, <1>5 DEF Stepwise
  <2>2. \A k \in 1..n : f[k - 1] \in Seq(K)
    BY <2>1
  <2> QED
    BY <1>3, <1>5, <2>1, <2>2 DEF Stepwise
<1>7. f = W(f)
  <2>1. \A k \in 0..n : k # 0 => k \in 1..n
    BY <1>2
  <2>2. \A k \in 0..n : f[k] = IF k = 0 THEN <<>> ELSE Kept(f[k - 1], k)
    BY <1>6, <2>1
  <2>3. f = [k \in 0..n |-> f[k]]
    OBVIOUS
  <2> QED
    BY <2>2, <2>3
<1>8. kept = W(kept)
  BY <1>7
<1> HIDE DEF kept
<1>9. \A t \in 0..n : kept[t] = f[t]
  <2> DEFINE T == {t \in Nat : t <= n => kept[t] = f[t]}
  <2>1. 0 \in T
    BY <1>2, <1>6, <1>8
  <2>2. ASSUME NEW t \in T PROVE t + 1 \in T
    <3>1. SUFFICES ASSUME t + 1 <= n PROVE kept[t + 1] = f[t + 1]
      OBVIOUS
    <3>2. t + 1 \in 1..n /\ (t + 1) - 1 = t /\ t <= n /\ t + 1 # 0 /\ t + 1 \in 0..n
      BY <1>2, <3>1
    <3>3. kept[t + 1] = Kept(kept[t], t + 1)
      BY <1>8, <3>2
    <3>4. f[t + 1] = Kept(f[t], t + 1)
      BY <1>6, <3>2
    <3> QED
      BY <3>2, <3>3, <3>4
  <2>3. T \in SUBSET Nat
    OBVIOUS
  <2> HIDE DEF T
  <2>4. T = Nat
    BY <2>1, <2>2, <2>3, Everywhere
  <2> QED
    BY <2>4 DEF T
<1>10. Ts!Only(K, s) = f[n] /\ Filters(f, K, s)
  BY <1>1, <1>2, <1>6, <1>9 DEF Filters, Kept, n
<1> QED
  BY <1>10 DEF n

\* One element more is kept or not, and what was kept stays.
LEMMA OnlyOneMore ==
  ASSUME NEW K, NEW s, IsSeq(s), NEW t, IsSeq(t), Len(t) = Len(s) + 1, \A i \in 1..Len(s) : t[i] = s[i]
  PROVE  Ts!Only(K, t) = IF t[Len(t)] \in K THEN Append(Ts!Only(K, s), t[Len(t)]) ELSE Ts!Only(K, s)
<1>1. PICK f : Filters(f, K, s) /\ Ts!Only(K, s) = f[Len(s)]
  BY OnlyFilters
<1>2. PICK g : Filters(g, K, t) /\ Ts!Only(K, t) = g[Len(t)]
  BY OnlyFilters
<1>3. Len(s) \in Nat
  <2>1. s \in Seq({s[i] : i \in DOMAIN s})
    BY DEF IsSeq
  <2> QED
    BY <2>1, LenProperties
<1> DEFINE n == Len(s)
           T == {j \in Nat : j <= n => f[j] = g[j]}
<1>4. 0 \in T
  BY <1>1, <1>2 DEF Filters
<1>5. ASSUME NEW j \in T PROVE j + 1 \in T
  <2>1. SUFFICES ASSUME j + 1 <= n PROVE f[j + 1] = g[j + 1]
    OBVIOUS
  <2>2. j + 1 \in 1..Len(s) /\ j + 1 \in 1..Len(t) /\ (j + 1) - 1 = j /\ j <= n
    BY <1>3, <2>1
  <2>3. f[j + 1] = IF s[j + 1] \in K THEN Append(f[j], s[j + 1]) ELSE f[j]
    BY <1>1, <2>2 DEF Filters
  <2>4. g[j + 1] = IF t[j + 1] \in K THEN Append(g[j], t[j + 1]) ELSE g[j]
    BY <1>2, <2>2 DEF Filters
  <2>5. t[j + 1] = s[j + 1] /\ f[j] = g[j]
    BY <2>2
  <2> QED
    BY <2>3, <2>4, <2>5
<1>6. T \in SUBSET Nat
  OBVIOUS
<1> HIDE DEF T
<1>7. T = Nat
  BY <1>4, <1>5, <1>6, Everywhere
<1>8. f[n] = g[n]
  BY <1>3, <1>7 DEF T
<1>9. Len(t) \in 1..Len(t) /\ Len(t) - 1 = n
  BY <1>3
<1>10. g[Len(t)] = IF t[Len(t)] \in K THEN Append(g[n], t[Len(t)]) ELSE g[n]
  BY <1>2, <1>9 DEF Filters
<1> QED
  BY <1>1, <1>2, <1>8, <1>10

\* What is kept is of the kind, and nothing is kept of nothing.
LEMMA OnlyKinds == ASSUME NEW K, NEW s, IsSeq(s) PROVE Ts!Only(K, s) \in Seq(K) /\ (s = <<>> => Ts!Only(K, s) = <<>>)
<1>1. PICK f : Filters(f, K, s) /\ Ts!Only(K, s) = f[Len(s)]
  BY OnlyFilters
<1>2. Len(s) \in Nat
  <2>1. s \in Seq({s[i] : i \in DOMAIN s})
    BY DEF IsSeq
  <2> QED
    BY <2>1, LenProperties
<1>3. f[Len(s)] \in Seq(K)
  BY <1>1, <1>2 DEF Filters
<1>4. s = <<>> => f[Len(s)] = <<>>
  BY <1>1, EmptyIsSeq DEF Filters
<1> QED
  BY <1>1, <1>3, <1>4

\* What a source line is.
LEMMA LineForms ==
  ASSUME NEW l \in Ts!Line
  PROVE  /\ l = [op |-> l.op, value |-> l.value]
         /\ l.op \in {"accept", "receipt", "reject", "exit", "hash", "read", "yield"}
         /\ l.op \in {"accept", "receipt", "reject"} => l.value \in DOMAIN Texts
         /\ l.op = "exit" => l.value \in ExitCodes
         /\ l.op = "yield" => l.value = None
<1>1. CASE l \in [op : {"accept", "receipt", "reject"}, value : DOMAIN Texts]
  BY <1>1
<1>2. CASE l \in [op : {"exit"}, value : ExitCodes]
  BY <1>2
<1>3. CASE l \in [op : {"hash"}, value : SourceHashes]
  BY <1>3
<1>4. CASE l \in {[op |-> op, value |-> None] : op \in {"read", "yield"}}
  BY <1>4
<1> QED
  BY <1>1, <1>2, <1>3, <1>4 DEF Ts!Line

\* No instruction is empty.
LEMMA Sizes ==
  ASSUME Ts!TsAssumption
  PROVE  /\ \A l \in Ts!Line : Size(l) \in Nat /\ Size(l) > 0
         /\ \A v \in DOMAIN Texts \cup {None} : Ts!Bytes("reject", v) \in Nat /\ Ts!Bytes("reject", v) > 0
         /\ \A v : /\ Ts!Bytes("read", v) = 12 /\ Ts!Bytes("hash", v) = 33 /\ Ts!Bytes("exit", v) = 5
                   /\ Ts!Bytes("jump", v) = 5 /\ Ts!Bytes("jump_if_false", v) = 5 /\ Ts!Bytes("yield", v) = 1
<1>1. \A v \in DOMAIN Texts : Texts[v] \in Nat
  BY DEF Ts!TsAssumption
<1>2. \A v \in DOMAIN Texts : \A op \in {"accept", "receipt"} :
        Ts!Bytes(op, v) = 2 + Texts[v]
  BY DEF Ts!Bytes
<1>3. \A v : /\ Ts!Bytes("read", v) = 12 /\ Ts!Bytes("hash", v) = 33 /\ Ts!Bytes("exit", v) = 5
             /\ Ts!Bytes("jump", v) = 5 /\ Ts!Bytes("jump_if_false", v) = 5 /\ Ts!Bytes("yield", v) = 1
  BY DEF Ts!Bytes
<1>4. \A v : Ts!Bytes("reject", v) = IF v = None THEN 2 ELSE 2 + Texts[v]
  BY DEF Ts!Bytes
<1>5. \A v \in DOMAIN Texts \cup {None} : Ts!Bytes("reject", v) \in Nat /\ Ts!Bytes("reject", v) > 0
  BY <1>1, <1>4
<1>6. ASSUME NEW l \in Ts!Line PROVE Size(l) \in Nat /\ Size(l) > 0
  <2>1. CASE l.op \in {"accept", "receipt"}
    BY <1>1, <1>2, <2>1, LineForms DEF Size
  <2>2. CASE l.op = "reject"
    BY <1>5, <2>2, LineForms DEF Size
  <2>3. CASE l.op \in {"exit", "hash", "read", "yield"}
    BY <1>3, <2>3 DEF Size
  <2> QED
    BY <2>1, <2>2, <2>3, LineForms
<1> QED
  BY <1>3, <1>5, <1>6

\* A set of positions that has an element has a greatest one, and Max is in it.
LEMMA MaxIn == ASSUME NEW n \in Nat, NEW T \in SUBSET (1..n), T # {} PROVE Ts!Max(T) \in T
<1> DEFINE U == {n - x : x \in T}
<1>1. U \in SUBSET Nat /\ U # {}
  <2>1. \A x \in T : x \in 1..n
    OBVIOUS
  <2>2. \A x \in T : n - x \in Nat
    BY <2>1
  <2> QED
    BY <2>2
<1>2. PICK u \in U : \A w \in U : u <= w
  BY <1>1, Least
<1>3. PICK x \in T : u = n - x
  BY <1>2
<1>4. ASSUME NEW y \in T PROVE x >= y
  <2>1. n - x <= n - y
    BY <1>2, <1>3
  <2>2. x \in 1..n /\ y \in 1..n
    OBVIOUS
  <2> QED
    BY <2>1, <2>2
<1>5. \E z \in T : \A y \in T : z >= y
  BY <1>4
<1> QED
  BY <1>5 DEF Ts!Max

\* The value of the last line of a kind is the value of a line of that kind, if there is one.
LEMMA LastIsLine ==
  ASSUME NEW lines \in Seq(Ts!Line), NEW op, NEW default
  PROVE  \/ Ts!LastValue(lines, op, default) = default
         \/ \E l \in Ts!Line : l.op = op /\ Ts!LastValue(lines, op, default) = l.value
<1> DEFINE at == {i \in DOMAIN lines : lines[i].op = op}
<1>1. CASE at = {}
  BY <1>1 DEF Ts!LastValue
<1>2. CASE at # {}
  <2>1. Len(lines) \in Nat /\ DOMAIN lines = 1..Len(lines) /\ \A i \in DOMAIN lines : lines[i] \in Ts!Line
    BY LenProperties, ElementOfSeq
  <2>2. at \in SUBSET (1..Len(lines))
    BY <2>1
  <2>3. Ts!Max(at) \in at
    BY <1>2, <2>1, <2>2, MaxIn
  <2>4. Ts!LastValue(lines, op, default) = lines[Ts!Max(at)].value
    BY <1>2 DEF Ts!LastValue
  <2> QED
    BY <2>1, <2>3, <2>4
<1> QED
  BY <1>1, <1>2

LEMMA LastReject ==
  ASSUME NEW lines \in Seq(Ts!Line)
  PROVE  Ts!LastValue(lines, "reject", None) \in DOMAIN Texts \cup {None}
BY LastIsLine, LineForms

LEMMA LastExit ==
  ASSUME Ts!TsAssumption, NEW lines \in Seq(Ts!Line)
  PROVE  Ts!LastValue(lines, "exit", 0) \in ExitCodes
BY LastIsLine, LineForms DEF Ts!TsAssumption

\* The sums of non-empty instructions grow.
LEMMA SumsGrow ==
  ASSUME NEW b, NEW g, Sized(b), Sums(g, b), \A k \in 1..Len(b) : Size(b[k]) > 0
  PROVE  \A i, j \in 0..Len(b) : i < j => g[i] < g[j]
<1> DEFINE n == Len(b)
           T == {d \in Nat : \A i \in 0..n : i + d + 1 <= n => g[i] < g[i + d + 1]}
<1>1. n \in Nat
  <2>1. b \in Seq({b[i] : i \in DOMAIN b})
    BY DEF Sized, IsSeq
  <2> QED
    BY <2>1, LenProperties
<1>2. g \in [0..n -> Nat] /\ \A k \in 1..n : g[k] = g[k - 1] + Size(b[k]) /\ Size(b[k]) \in Nat /\ Size(b[k]) > 0
  BY DEF Sums, Sized
<1> HIDE DEF n
<1>3. \A k \in 1..n : g[k - 1] < g[k]
  <2> TAKE k \in 1..n
  <2>1. k - 1 \in 0..n
    BY <1>1
  <2>2. g[k - 1] \in Nat /\ g[k] = g[k - 1] + Size(b[k]) /\ Size(b[k]) \in Nat /\ Size(b[k]) > 0
    BY <1>2, <2>1
  <2> QED
    BY <2>2
<1>4. 0 \in T
  <2> SUFFICES ASSUME NEW i \in 0..n, i + 0 + 1 <= n PROVE g[i] < g[i + 0 + 1]
    OBVIOUS
  <2>1. i + 0 + 1 \in 1..n /\ (i + 0 + 1) - 1 = i
    BY <1>1
  <2> QED
    BY <1>3, <2>1
<1>5. ASSUME NEW d \in T PROVE d + 1 \in T
  <2> SUFFICES ASSUME NEW i \in 0..n, i + (d + 1) + 1 <= n PROVE g[i] < g[i + (d + 1) + 1]
    OBVIOUS
  <2>1. i + d + 1 <= n /\ i + (d + 1) + 1 \in 1..n /\ (i + (d + 1) + 1) - 1 = i + d + 1 /\ i + d + 1 \in 0..n
        /\ i + (d + 1) + 1 \in 0..n
    BY <1>1
  <2>2. g[i] < g[i + d + 1]
    BY <2>1
  <2>3. g[i + d + 1] < g[i + (d + 1) + 1]
    BY <1>3, <2>1
  <2>4. g[i] \in Nat /\ g[i + d + 1] \in Nat /\ g[i + (d + 1) + 1] \in Nat
    BY <1>2, <2>1
  <2> QED
    BY <2>2, <2>3, <2>4
<1>6. T \in SUBSET Nat
  OBVIOUS
<1> HIDE DEF T
<1>7. T = Nat
  BY <1>4, <1>5, <1>6, Everywhere
<1>8. ASSUME NEW i \in 0..n, NEW j \in 0..n, i < j PROVE g[i] < g[j]
  <2>1. j - i - 1 \in T /\ i + (j - i - 1) + 1 = j /\ i + (j - i - 1) + 1 <= n
    BY <1>1, <1>7, <1>8
  <2>2. g[i] < g[i + (j - i - 1) + 1]
    BY <2>1 DEF T
  <2> QED
    BY <2>1, <2>2
<1> QED
  BY <1>8 DEF n

(***************************************************************************)
(* The layout.  Instructions 1 to 3 read, verify and branch, 4 to n + 3    *)
(* are the success block, n + 4 jumps over the rejection n + 5 to the exit *)
(* n + 6.                                                                  *)
(***************************************************************************)
Success(lines) == Ts!success_ops(lines)

\* What the instructions are.
Ordered(c, lines, b4, n) ==
  /\ c[1].op = "read"
  /\ c[2].op = "hash" /\ c[2].value = Ts!LastValue(lines, "hash", None)
  /\ c[3].op = "jump_if_false"
  /\ \A i \in 1..n : c[i + 3].op = b4[i].op /\ c[i + 3].value = b4[i].value
  /\ c[n + 4].op = "jump"
  /\ c[n + 5].op = "reject" /\ c[n + 5].value = Ts!LastValue(lines, "reject", None)
  /\ c[n + 6].op = "exit" /\ c[n + 6].value = Ts!LastValue(lines, "exit", 0)

\* Where they lie, each after the one before, and where the jumps lead.
Laid(c, n) ==
  /\ DOMAIN c = 1..(n + 6) /\ c[1].at = 0
  /\ \A k \in 1..(n + 6) : c[k].at \in Nat
  /\ \A k \in 1..(n + 5) : c[k + 1].at = c[k].at + Size(c[k])
  /\ \A j, k \in 1..(n + 6) : c[j].at = c[k].at => j = k
  /\ c[3].value = c[n + 5].at /\ c[n + 4].value = c[n + 6].at

\* The success block consists of source lines of four kinds.
LEMMA SuccessLines ==
  ASSUME NEW lines \in Seq(Ts!Line)
  PROVE  /\ IsSeq(Success(lines)) /\ Len(Success(lines)) \in Nat /\ DOMAIN Success(lines) = 1..Len(Success(lines))
         /\ \A j \in 1..Len(Success(lines)) :
               /\ Success(lines)[j] \in Ts!Line
               /\ Success(lines)[j].op \in {"accept", "receipt", "yield", "exit"}
<1> DEFINE K == {l \in Ts!Line : l.op \in {"accept", "receipt", "yield", "exit"}}
           b == Success(lines)
<1>1. Success(lines) = Ts!Only(K, lines)
  BY DEF Success, Ts!success_ops
<1>2. IsSeq(lines)
  <2>1. lines = [i \in 1..Len(lines) |-> lines[i]] /\ Len(lines) \in Nat
    BY LenProperties
  <2> QED
    BY <2>1, SeqForm
<1> HIDE DEF K
<1>3. b \in Seq(K)
  BY <1>1, <1>2, OnlyKinds
<1> HIDE DEF b
<1>4. Len(b) \in Nat /\ DOMAIN b = 1..Len(b) /\ (\A j \in 1..Len(b) : b[j] \in K) /\ b = [j \in 1..Len(b) |-> b[j]]
  BY <1>3, LenProperties, ElementOfSeq
<1>5. IsSeq(b)
  BY <1>4, SeqForm
<1> QED
  BY <1>4, <1>5 DEF K, b

\* Two sequences one after the other.
Follow(u, s, t, S) ==
  /\ u \in Seq(S) /\ Len(s) \in Nat /\ Len(t) \in Nat /\ Len(u) = Len(s) + Len(t)
  /\ \A i \in 1..Len(s) : u[i] = s[i]
  /\ \A i \in 1..Len(t) : u[Len(s) + i] = t[i]

LEMMA Concatenated ==
  ASSUME NEW S, NEW s \in Seq(S), NEW t \in Seq(S), NEW u, u = s \o t
  PROVE  Follow(u, s, t, S)
<1> DEFINE m == Len(s)
           n == Len(t)
<1>1. m \in Nat /\ n \in Nat
  BY LenProperties
<1>2. u \in Seq(S) /\ Len(u) = m + n /\ \A i \in 1..(m + n) : u[i] = IF i <= m THEN s[i] ELSE t[i - m]
  BY ConcatProperties
<1> HIDE DEF m, n
<1>3. ASSUME NEW i \in 1..m PROVE u[i] = s[i]
  <2>1. i \in 1..(m + n) /\ i <= m
    BY <1>1
  <2> QED
    BY <1>2, <2>1
<1>4. ASSUME NEW i \in 1..n PROVE u[m + i] = t[i]
  <2>1. m + i \in 1..(m + n) /\ ~(m + i <= m) /\ (m + i) - m = i
    BY <1>1
  <2> QED
    BY <1>2, <2>1
<1> QED
  BY <1>1, <1>2, <1>3, <1>4 DEF Follow, m, n

\* The blocks one after the other.
Blocks(b, r, h, f, b4, j, b5, b6) ==
  /\ IsSeq(b) /\ Len(b4) \in Nat /\ Len(b) = Len(b4) + 6 /\ DOMAIN b = 1..(Len(b4) + 6)
  /\ b[1] = r /\ b[2] = h /\ b[3] = f
  /\ \A i \in 1..Len(b4) : b[i + 3] = b4[i]
  /\ b[Len(b4) + 4] = j /\ b[Len(b4) + 5] = b5 /\ b[Len(b4) + 6] = b6

LEMMA BlocksJoined ==
  ASSUME NEW r, NEW h, NEW f, NEW b4, IsSeq(b4), NEW j, NEW b5, NEW b6, NEW b,
         b = <<r, h>> \o <<f>> \o b4 \o <<j, b5, b6>>
  PROVE  Blocks(b, r, h, f, b4, j, b5, b6)
<1> DEFINE S == {b4[i] : i \in DOMAIN b4} \cup {r, h, f, j, b5, b6}
           n == Len(b4)
           s1 == <<r, h>> \o <<f>>
           s2 == s1 \o b4
           t == <<j, b5, b6>>
<1>1. b4 \in Seq(S)
  <2>1. b4 \in Seq({b4[i] : i \in DOMAIN b4})
    BY DEF IsSeq
  <2> QED
    BY <2>1, SeqDef
<1>2. {r, h, f, j, b5, b6} \subseteq S
  OBVIOUS
<1> HIDE DEF S
<1>3. s1 \in Seq(S) /\ Len(s1) = 3 /\ s1[1] = r /\ s1[2] = h /\ s1[3] = f
  <2>1. <<r, h>> \in Seq(S) /\ Len(<<r, h>>) = 2 /\ <<f>> \in Seq(S) /\ Len(<<f>>) = 1
    BY <1>2
  <2>2. s1 \in Seq(S) /\ Len(s1) = 2 + 1 /\ \A i \in 1..(2 + 1) : s1[i] = IF i <= 2 THEN <<r, h>>[i] ELSE <<f>>[i - 2]
    BY <2>1, ConcatProperties
  <2> QED
    BY <2>2
<1>4. t \in Seq(S) /\ Len(t) = 3 /\ t[1] = j /\ t[2] = b5 /\ t[3] = b6
  BY <1>2
<1>5. b = s2 \o t /\ s2 = s1 \o b4
  OBVIOUS
<1> HIDE DEF s1, s2, t
<1>6. /\ s2 \in Seq(S) /\ n \in Nat /\ Len(s2) = Len(s1) + n
      /\ (\A i \in 1..Len(s1) : s2[i] = s1[i]) /\ \A i \in 1..n : s2[Len(s1) + i] = b4[i]
  <2>1. s1 \in Seq(S)
    BY <1>3
  <2>2. Follow(s2, s1, b4, S)
    BY <1>1, <1>5, <2>1, Concatenated, Zenon
  <2> QED
    BY <2>2 DEF Follow
<1> HIDE DEF n
<1>7. Len(s2) = n + 3 /\ (\A i \in 1..3 : s2[i] = s1[i]) /\ \A i \in 1..n : s2[i + 3] = b4[i]
  <2>1. \A i \in 1..n : Len(s1) + i = i + 3
    BY <1>3, <1>6
  <2>2. Len(s2) = n + 3
    BY <1>3, <1>6
  <2>3. \A i \in 1..3 : s2[i] = s1[i]
    BY <1>3, <1>6
  <2>4. ASSUME NEW i \in 1..n PROVE s2[i + 3] = b4[i]
    <3>1. s2[Len(s1) + i] = b4[i]
      BY <1>6
    <3> QED
      BY <2>1, <3>1
  <2> QED
    BY <2>2, <2>3, <2>4
<1>8. /\ b \in Seq(S) /\ Len(b) = Len(s2) + Len(t)
      /\ (\A i \in 1..Len(s2) : b[i] = s2[i]) /\ \A i \in 1..Len(t) : b[Len(s2) + i] = t[i]
  <2>1. t \in Seq(S) /\ s2 \in Seq(S)
    BY <1>4, <1>6
  <2>2. Follow(b, s2, t, S)
    BY <1>5, <2>1, Concatenated, Zenon
  <2> QED
    BY <2>2 DEF Follow
<1>9. Len(b) = n + 6
  BY <1>4, <1>6, <1>7, <1>8
<1>10. DOMAIN b = 1..(n + 6) /\ b = [i \in 1..(n + 6) |-> b[i]]
  <2>1. DOMAIN b = 1..Len(b) /\ b = [i \in 1..Len(b) |-> b[i]]
    BY <1>8, LenProperties
  <2> QED
    BY <1>9, <2>1
<1>11. IsSeq(b)
  <2>1. Len(b) \in Nat /\ b = [i \in 1..Len(b) |-> b[i]]
    BY <1>8, LenProperties
  <2> QED
    BY <2>1, SeqForm
<1>12. b[1] = r /\ b[2] = h /\ b[3] = f
  <2>1. \A i \in 1..3 : i \in 1..Len(s2)
    BY <1>6, <1>7
  <2>2. \A i \in 1..3 : b[i] = s1[i]
    BY <1>7, <1>8, <2>1
  <2> QED
    BY <1>3, <2>2
<1>13. ASSUME NEW i \in 1..n PROVE b[i + 3] = b4[i]
  <2>1. i + 3 \in 1..Len(s2)
    BY <1>6, <1>7
  <2> QED
    BY <1>7, <1>8, <2>1
<1>14. b[n + 4] = j /\ b[n + 5] = b5 /\ b[n + 6] = b6
  <2>1. Len(s2) + 1 = n + 4 /\ Len(s2) + 2 = n + 5 /\ Len(s2) + 3 = n + 6
    BY <1>6, <1>7
  <2>2. 1 \in 1..Len(t) /\ 2 \in 1..Len(t) /\ 3 \in 1..Len(t)
    BY <1>4
  <2>3. b[Len(s2) + 1] = t[1] /\ b[Len(s2) + 2] = t[2] /\ b[Len(s2) + 3] = t[3]
    BY <1>8, <2>2
  <2> QED
    BY <1>4, <2>1, <2>3
<1> QED
  BY <1>6, <1>9, <1>10, <1>11, <1>12, <1>13, <1>14 DEF Blocks, n

\* The length of a part of a block.
LEMMA TotalPart ==
  ASSUME NEW b, NEW g, Sums(g, b), NEW c, NEW d \in Nat, Sized(b), Sized(c),
         d + Len(c) <= Len(b), \A j \in 1..Len(c) : c[j] = b[d + j]
  PROVE  Ts!Total(c) \in Nat /\ g[d + Len(c)] = g[d] + Ts!Total(c)
<1>1. PICK h : Sums(h, c) /\ Ts!Total(c) = h[Len(c)]
  BY TotalSums
<1>2. \A j \in 0..Len(c) : g[d + j] = g[d] + h[j]
  <2>1. Shifted(g, h, d, Len(c))
    BY <1>1, SumsShift
  <2> QED
    BY <2>1 DEF Shifted
<1>3. Len(c) \in 0..Len(c)
  <2>1. c \in Seq({c[i] : i \in DOMAIN c})
    BY DEF Sized, IsSeq
  <2> QED
    BY <2>1, LenProperties
<1>4. h[Len(c)] \in Nat
  BY <1>1, <1>3 DEF Sums
<1> QED
  BY <1>1, <1>2, <1>3, <1>4

\* The length of one instruction, and of two.
LEMMA TotalFew ==
  ASSUME NEW x, NEW y, Size(x) \in Nat, Size(y) \in Nat
  PROVE  Ts!Total(<<x>>) = Size(x) /\ Ts!Total(<<x, y>>) = Size(x) + Size(y)
<1>1. Ts!Total(<<x>>) = Size(x)
  <2> DEFINE s == <<x>>
  <2>1. IsSeq(s) /\ Len(s) = 1 /\ s[1] = x
    BY DEF IsSeq
  <2> HIDE DEF s
  <2>2. Sized(s)
    BY <2>1 DEF Sized
  <2>3. PICK g : Sums(g, s) /\ Ts!Total(s) = g[Len(s)]
    BY <2>2, TotalSums
  <2>4. g[1 - 1] = 0 /\ g[1] = g[1 - 1] + Size(s[1])
    BY <2>1, <2>3 DEF Sums
  <2> QED
    BY <2>1, <2>3, <2>4 DEF s
<1>2. Ts!Total(<<x, y>>) = Size(x) + Size(y)
  <2> DEFINE s == <<x, y>>
  <2>1. IsSeq(s) /\ Len(s) = 2 /\ s[1] = x /\ s[2] = y
    BY DEF IsSeq
  <2> HIDE DEF s
  <2>2. Sized(s)
    BY <2>1 DEF Sized
  <2>3. PICK g : Sums(g, s) /\ Ts!Total(s) = g[Len(s)]
    BY <2>2, TotalSums
  <2>4. g[1 - 1] = 0 /\ g[1] = g[1 - 1] + Size(s[1]) /\ g[2] = g[2 - 1] + Size(s[2])
    BY <2>1, <2>3 DEF Sums
  <2>5. g[2] = Size(x) + Size(y)
    BY <2>1, <2>4
  <2> QED
    BY <2>1, <2>3, <2>5 DEF s
<1> QED
  BY <1>1, <1>2

\* compile_to_bytecode lays the instructions out in order, and its jumps lead where they should.
LEMMA CompiledIsLaid ==
  ASSUME Ts!TsAssumption, NEW lines \in Seq(Ts!Line), NEW c, c = Ts!compile_to_bytecode(lines)
  PROVE  Ordered(c, lines, Success(lines), Len(Success(lines))) /\ Laid(c, Len(Success(lines)))
<1> DEFINE b4 == Success(lines)
           n == Len(b4)
           r == [op |-> "read", value |-> None]
           h == [op |-> "hash", value |-> Ts!LastValue(lines, "hash", None)]
           else == Ts!else_offset(<<r, h>>, b4)
           b5 == [op |-> "reject", value |-> Ts!LastValue(lines, "reject", None)]
           b6 == [op |-> "exit", value |-> Ts!LastValue(lines, "exit", 0)]
           f == [op |-> "jump_if_false", value |-> else]
           j == [op |-> "jump", value |-> else + Ts!Total(<<b5>>)]
           b == <<r, h>> \o <<f>> \o b4 \o <<j, b5, b6>>
<1>1. c = Ts!Placed(b)
  BY DEF Ts!compile_to_bytecode, Ts!Instr, Success
<1>2. IsSeq(b4) /\ n \in Nat /\ \A i \in 1..n : b4[i] \in Ts!Line
  BY SuccessLines
<1>3. /\ IsSeq(b) /\ Len(b) = n + 6 /\ DOMAIN b = 1..(n + 6)
      /\ b[1] = r /\ b[2] = h /\ b[3] = f /\ (\A i \in 1..n : b[i + 3] = b4[i])
      /\ b[n + 4] = j /\ b[n + 5] = b5 /\ b[n + 6] = b6
  <2>1. IsSeq(b4)
    BY <1>2
  <2> HIDE DEF r, h, f, b4, j, b5, b6, n
  <2>2. Blocks(b, r, h, f, b4, j, b5, b6)
    BY <2>1, BlocksJoined, Zenon
  <2> HIDE DEF b
  <2> QED
    BY <2>2 DEF Blocks, n
<1> HIDE DEF b, b4
<1>4. Size(r) = 12 /\ Size(h) = 33 /\ Size(f) = 5 /\ Size(j) = 5 /\ Size(b6) = 5
  BY Sizes DEF Size
<1>5. Size(b5) \in Nat /\ Size(b5) > 0
  BY LastReject, Sizes DEF Size
<1> HIDE DEF r, h, f, j, b5, b6, n
<1>6. \A k \in 1..(n + 6) : k \in {1, 2, 3, n + 4, n + 5, n + 6} \/ (k - 3 \in 1..n /\ (k - 3) + 3 = k)
  BY <1>2
<1>7. ASSUME NEW k \in 1..(n + 6) PROVE Size(b[k]) \in Nat /\ Size(b[k]) > 0
  <2>1. CASE k \in {1, 2, 3, n + 4, n + 5, n + 6}
    BY <1>3, <1>4, <1>5, <2>1
  <2>2. CASE k - 3 \in 1..n /\ (k - 3) + 3 = k
    <3>1. b[k] = b4[k - 3]
      BY <1>3, <2>2
    <3> QED
      BY <1>2, <2>2, <3>1, Sizes
  <2> QED
    BY <1>6, <2>1, <2>2
<1>8. Sized(b)
  BY <1>3, <1>7 DEF Sized
<1>9. PICK g : Sums(g, b)
  BY <1>8, TotalSums
<1>10. /\ g \in [0..(n + 6) -> Nat] /\ g[0] = 0
       /\ \A k \in 1..(n + 6) : g[k] = g[k - 1] + Size(b[k])
  BY <1>3, <1>9 DEF Sums
<1>11. \A i, k \in 0..(n + 6) : i < k => g[i] < g[k]
  BY <1>3, <1>7, <1>8, <1>9, SumsGrow
<1>12. \A k \in 1..(n + 6) : c[k] = [op |-> b[k].op, value |-> b[k].value, at |-> g[k - 1]]
  BY <1>1, <1>3, <1>8, <1>9, PlacedAt
<1>13. DOMAIN c = 1..(n + 6)
  BY <1>1, <1>3 DEF Ts!Placed
<1>14. g[3] = 50 /\ Ts!Total(<<r, h>>) = 45 /\ Ts!Total(<<b5>>) = Size(b5)
  <2>1. 1 \in 1..(n + 6) /\ 2 \in 1..(n + 6) /\ 3 \in 1..(n + 6)
    BY <1>2
  <2>2. g[1] = g[0] + 12 /\ g[2] = g[1] + 33 /\ g[3] = g[2] + 5
    BY <1>3, <1>4, <1>10, <2>1
  <2>3. Size(r) \in Nat /\ Size(h) \in Nat
    BY <1>4
  <2>4. Ts!Total(<<r, h>>) = Size(r) + Size(h) /\ Ts!Total(<<b5>>) = Size(b5)
    BY <1>5, <2>3, TotalFew, Zenon
  <2> QED
    BY <1>4, <1>10, <2>2, <2>4
<1>15. Ts!Total(b4) \in Nat /\ g[n + 3] = 50 + Ts!Total(b4)
  <2>1. Sized(b4)
    BY <1>2, Sizes DEF Sized, n
  <2>2. 3 + Len(b4) <= Len(b) /\ \A i \in 1..Len(b4) : b4[i] = b[3 + i]
    <3>1. \A i \in 1..n : 3 + i = i + 3
      BY <1>2
    <3> QED
      BY <1>2, <1>3, <3>1 DEF n
  <2>3. Ts!Total(b4) \in Nat /\ g[3 + Len(b4)] = g[3] + Ts!Total(b4)
    BY <1>8, <1>9, <2>1, <2>2, TotalPart
  <2>4. 3 + Len(b4) = n + 3
    BY <1>2 DEF n
  <2> QED
    BY <1>14, <2>3, <2>4
<1>16. g[n + 4] = g[n + 3] + 5 /\ g[n + 5] = g[n + 4] + Size(b5)
  <2>1. n + 4 \in 1..(n + 6) /\ n + 5 \in 1..(n + 6) /\ (n + 4) - 1 = n + 3 /\ (n + 5) - 1 = n + 4
    BY <1>2
  <2> QED
    BY <1>3, <1>4, <1>10, <2>1
<1>17. f.value = g[n + 4] /\ j.value = g[n + 5]
  <2>1. else = Ts!Total(<<r, h>>) + 5 + Ts!Total(b4) + 5
    BY DEF Ts!else_offset
  <2> HIDE DEF else
  <2>2. f.value = else /\ j.value = else + Ts!Total(<<b5>>)
    BY DEF f, j
  <2>3. else = g[n + 4]
    BY <1>14, <1>15, <1>16, <2>1
  <2> QED
    BY <1>14, <1>16, <2>2, <2>3
<1>18. Ordered(c, lines, b4, n)
  <2>1. ASSUME NEW k \in 1..(n + 6) PROVE c[k].op = b[k].op /\ c[k].value = b[k].value
    <3>1. c[k] = [op |-> b[k].op, value |-> b[k].value, at |-> g[k - 1]]
      BY <1>12
    <3> QED
      BY <3>1
  <2>2. \A k \in {1, 2, 3, n + 4, n + 5, n + 6} : k \in 1..(n + 6)
    BY <1>2
  <2>3. \A i \in 1..n : i + 3 \in 1..(n + 6)
    BY <1>2
  <2>4. /\ r.op = "read" /\ h.op = "hash" /\ h.value = Ts!LastValue(lines, "hash", None)
        /\ f.op = "jump_if_false" /\ j.op = "jump"
        /\ b5.op = "reject" /\ b5.value = Ts!LastValue(lines, "reject", None)
        /\ b6.op = "exit" /\ b6.value = Ts!LastValue(lines, "exit", 0)
    BY DEF r, h, f, j, b5, b6
  <2>5. c[1].op = "read" /\ c[2].op = "hash" /\ c[2].value = Ts!LastValue(lines, "hash", None) /\ c[3].op = "jump_if_false"
    BY <1>3, <2>1, <2>2, <2>4
  <2>6. \A i \in 1..n : c[i + 3].op = b4[i].op /\ c[i + 3].value = b4[i].value
    BY <1>3, <2>1, <2>3
  <2>7. /\ c[n + 4].op = "jump"
        /\ c[n + 5].op = "reject" /\ c[n + 5].value = Ts!LastValue(lines, "reject", None)
        /\ c[n + 6].op = "exit" /\ c[n + 6].value = Ts!LastValue(lines, "exit", 0)
    BY <1>3, <2>1, <2>2, <2>4
  <2> QED
    BY <2>5, <2>6, <2>7 DEF Ordered
<1>19. Laid(c, n)
  <2>1. ASSUME NEW k \in 1..(n + 6) PROVE c[k].at = g[k - 1] /\ c[k].value = b[k].value /\ Size(c[k]) = Size(b[k])
    <3>1. c[k] = [op |-> b[k].op, value |-> b[k].value, at |-> g[k - 1]]
      BY <1>12
    <3>2. c[k].op = b[k].op /\ c[k].value = b[k].value /\ c[k].at = g[k - 1]
      BY <3>1
    <3> QED
      BY <3>2 DEF Size
  <2>2. \A k \in 1..(n + 6) : k - 1 \in 0..(n + 6)
    BY <1>2
  <2>3. c[1].at = 0 /\ \A k \in 1..(n + 6) : c[k].at \in Nat
    <3>1. 1 \in 1..(n + 6) /\ 1 - 1 = 0
      BY <1>2
    <3>2. \A k \in 1..(n + 6) : g[k - 1] \in Nat
      BY <1>10, <2>2
    <3> QED
      BY <1>10, <2>1, <3>1, <3>2
  <2>4. ASSUME NEW k \in 1..(n + 5) PROVE c[k + 1].at = c[k].at + Size(c[k])
    <3>1. k + 1 \in 1..(n + 6) /\ k \in 1..(n + 6) /\ (k + 1) - 1 = k
      BY <1>2
    <3> QED
      BY <1>10, <2>1, <3>1
  <2>5. ASSUME NEW i \in 1..(n + 6), NEW k \in 1..(n + 6), c[i].at = c[k].at PROVE i = k
    <3>1. g[i - 1] = g[k - 1] /\ i - 1 \in 0..(n + 6) /\ k - 1 \in 0..(n + 6)
      BY <2>1, <2>2, <2>5
    <3>2. g[i - 1] \in Nat /\ g[k - 1] \in Nat
      BY <1>10, <3>1
    <3>3. ~(i - 1 < k - 1) /\ ~(k - 1 < i - 1)
      BY <1>11, <3>1, <3>2
    <3> QED
      BY <1>2, <3>3
  <2>6. c[3].value = c[n + 5].at /\ c[n + 4].value = c[n + 6].at
    <3>1. 3 \in 1..(n + 6) /\ n + 4 \in 1..(n + 6) /\ n + 5 \in 1..(n + 6) /\ n + 6 \in 1..(n + 6)
          /\ (n + 5) - 1 = n + 4 /\ (n + 6) - 1 = n + 5
      BY <1>2
    <3> QED
      BY <1>3, <1>17, <2>1, <3>1
  <2> QED
    BY <1>13, <2>3, <2>4, <2>5, <2>6 DEF Laid
<1> QED
  BY <1>18, <1>19 DEF n, b4

(***************************************************************************)
(* The inductive invariant says what was read, verified and told at each   *)
(* instruction.                                                            *)
(***************************************************************************)
Count == Len(Success(source))
HashLine == Ts!LastValue(source, "hash", None)
RejectInstr == [op |-> "reject", value |-> Ts!LastValue(source, "reject", None)]
ExitInstr == [op |-> "exit", value |-> Ts!LastValue(source, "exit", 0)]
Readable == SubSeq(file, 1, Ts!Min({BUFFER, Len(file)}))

\* Nothing has been done.
Fresh == edi = Ts!ERROR /\ length = 0 /\ buffer = <<>> /\ trace = <<>>

\* The file has been read, and what was read has been compared.
HasRead == IF file = None THEN length = Ts!ERROR
           ELSE buffer = Readable /\ length = Len(buffer) /\ length \in 0..BUFFER
HasVerified == edi = IF file = None THEN Ts!ERROR ELSE IF buffer = HashLine THEN 1 ELSE 0

\* The kernel has been told the first m lines of the success block, none of them an exit.
HasTold(m) ==
  /\ \A i \in 1..m : Success(source)[i].op # "exit"
  /\ trace = Ts!Shown(SubSeq(Success(source), 1, m))

AtRead(k) == k = 1 /\ Fresh
AtVerify(k) == k = 2 /\ HasRead /\ edi = Ts!ERROR /\ trace = <<>>
AtBranch(k) == k = 3 /\ HasRead /\ HasVerified /\ trace = <<>>
InBlock(k) == k \in 4..(Count + 4) /\ HasRead /\ HasVerified /\ edi # 0 /\ HasTold(k - 4)
AtReject(k) == k = Count + 5 /\ HasRead /\ HasVerified /\ edi = 0 /\ trace = <<>>
AtExit(k) == k = Count + 6 /\ HasRead /\ HasVerified
             /\ ((edi # 0 /\ HasTold(Count)) \/ (edi = 0 /\ trace = <<RejectInstr>>))

Where(k) == AtRead(k) \/ AtVerify(k) \/ AtBranch(k) \/ InBlock(k) \/ AtReject(k) \/ AtExit(k)

Done ==
  /\ HasRead /\ HasVerified
  /\ (edi # 0 => trace = Ts!Shown(Ts!ToExit(Success(source))))
  /\ (edi = 0 => trace = <<RejectInstr, ExitInstr>>)

TsInv ==
  /\ source \in Seq(Ts!Line) /\ file \in InputFiles
  /\ status \in {"source", "running", "refused", "exited"}
  /\ (status \in {"source", "refused"} => Fresh /\ esi = 0)
  /\ (status \in {"running", "exited"} => code = Ts!compile_to_bytecode(source))
  /\ (status = "running" => \E k \in 1..(Count + 6) : esi = code[k].at /\ Where(k))
  /\ (status = "exited" => Done)

\* Which instruction is at k.
OpAt(k) ==
  \/ k = 1 /\ code[k].op = "read"
  \/ k = 2 /\ code[k].op = "hash" /\ code[k].value = HashLine
  \/ k = 3 /\ code[k].op = "jump_if_false"
  \/ /\ k \in 4..(Count + 3) /\ code[k].op \in {"accept", "receipt", "yield", "exit"}
     /\ code[k].op = Success(source)[k - 3].op /\ code[k].value = Success(source)[k - 3].value
  \/ k = Count + 4 /\ code[k].op = "jump"
  \/ k = Count + 5 /\ code[k].op = "reject" /\ code[k].value = RejectInstr.value
  \/ k = Count + 6 /\ code[k].op = "exit" /\ code[k].value = ExitInstr.value

\* The stub is at instruction k and about to execute it.
Executing(k) ==
  /\ k \in 1..(Count + 6) /\ Count \in Nat /\ Laid(code, Count) /\ Where(k) /\ OpAt(k)
  /\ Ts!Fetched = code[k] /\ Ts!Here = {k} /\ esi = code[k].at

LEMMA Fetching == ASSUME Ts!TsAssumption, TsInv, status = "running" PROVE \E k : Executing(k)
<1>1. source \in Seq(Ts!Line) /\ code = Ts!compile_to_bytecode(source)
  BY DEF TsInv
<1>2. Ordered(code, source, Success(source), Count) /\ Laid(code, Count)
  BY <1>1, CompiledIsLaid DEF Count
<1>3. Count \in Nat /\ \A i \in 1..Count : Success(source)[i].op \in {"accept", "receipt", "yield", "exit"}
  BY <1>1, SuccessLines DEF Count
<1>4. PICK k \in 1..(Count + 6) : esi = code[k].at /\ Where(k)
  BY DEF TsInv
<1>5. Ts!Here = {k}
  <2>1. DOMAIN code = 1..(Count + 6) /\ \A i, j \in 1..(Count + 6) : code[i].at = code[j].at => i = j
    BY <1>2 DEF Laid
  <2> QED
    BY <1>4, <2>1 DEF Ts!Here
<1>6. Ts!Fetched = code[k]
  BY <1>5 DEF Ts!Fetched
<1>7. OpAt(k)
  <2>1. \/ k \in {1, 2, 3} \/ k \in {Count + 4, Count + 5, Count + 6}
        \/ k \in 4..(Count + 3) /\ k - 3 \in 1..Count /\ (k - 3) + 3 = k
    BY <1>3
  <2>2. CASE k \in {1, 2, 3}
    BY <1>2, <2>2 DEF Ordered, OpAt, HashLine
  <2>3. CASE k \in {Count + 4, Count + 5, Count + 6}
    BY <1>2, <2>3 DEF Ordered, OpAt, RejectInstr, ExitInstr
  <2>4. CASE k \in 4..(Count + 3) /\ k - 3 \in 1..Count /\ (k - 3) + 3 = k
    BY <1>2, <1>3, <2>4 DEF Ordered, OpAt
  <2> QED
    BY <2>1, <2>2, <2>3, <2>4
<1> QED
  BY <1>2, <1>3, <1>4, <1>5, <1>6, <1>7 DEF Executing

\* The stub has gone on to instruction k.
LEMMA WentOn ==
  ASSUME TsInv, status = "running", UNCHANGED <<source, file, code, status>>,
         NEW k \in 1..(Count + 6), esi' = code[k].at, Where(k)'
  PROVE  TsInv'
BY DEF TsInv, Count

\* Told m + 1 lines after m.
LEMMA ToldMore ==
  ASSUME source \in Seq(Ts!Line), NEW m \in Nat, m + 1 <= Count, HasTold(m)
  PROVE  Ts!Shown(SubSeq(Success(source), 1, m + 1)) =
           IF Success(source)[m + 1].op = "receipt" /\ Success(source)[m + 1].value \in Sentinels
           THEN trace ELSE Append(trace, Success(source)[m + 1])
<1> DEFINE b4 == Success(source)
           s == SubSeq(b4, 1, m)
           t == SubSeq(b4, 1, m + 1)
           K == {l \in Ts!Line : ~(l.op = "receipt" /\ l.value \in Sentinels)}
<1>1. IsSeq(b4) /\ Count \in Nat /\ Len(b4) = Count /\ \A i \in 1..Count : b4[i] \in Ts!Line
  BY SuccessLines DEF Count
<1>2. Ts!Shown(s) = Ts!Only(K, s) /\ Ts!Shown(t) = Ts!Only(K, t) /\ trace = Ts!Shown(s)
  BY DEF Ts!Shown, HasTold
<1> HIDE DEF b4, K
<1>3. m \in 0..Len(b4) /\ m + 1 \in 0..Len(b4) /\ m + 1 \in 1..Count /\ m + 1 \in 1..(m + 1)
      /\ \A i \in 1..m : i \in 1..(m + 1)
  BY <1>1
<1>4. IsSeq(s) /\ Len(s) = m /\ \A i \in 1..m : s[i] = b4[i]
  BY <1>1, <1>3, Prefixed
<1>5. IsSeq(t) /\ Len(t) = m + 1 /\ \A i \in 1..(m + 1) : t[i] = b4[i]
  BY <1>1, <1>3, Prefixed
<1> HIDE DEF s, t
<1>6. Len(t) = Len(s) + 1 /\ \A i \in 1..Len(s) : t[i] = s[i]
  BY <1>3, <1>4, <1>5
<1>7. Ts!Only(K, t) = IF t[Len(t)] \in K THEN Append(Ts!Only(K, s), t[Len(t)]) ELSE Ts!Only(K, s)
  BY <1>4, <1>5, <1>6, OnlyOneMore
<1>8. t[Len(t)] = b4[m + 1] /\ b4[m + 1] \in Ts!Line
  BY <1>1, <1>3, <1>5
<1>9. b4[m + 1] \in K <=> ~(b4[m + 1].op = "receipt" /\ b4[m + 1].value \in Sentinels)
  BY <1>8 DEF K
<1> QED
  BY <1>2, <1>7, <1>8, <1>9 DEF b4, t

LEMMA TsInitially == ASSUME Ts!Init PROVE TsInv
BY EmptySeq DEF Ts!Init, TsInv, Fresh

LEMMA WriteInv == ASSUME TsInv, NEW line \in Ts!Line, Ts!Write(line) PROVE TsInv'
<1>1. source' \in Seq(Ts!Line)
  BY AppendProperties DEF TsInv, Ts!Write
<1> QED
  BY <1>1 DEF TsInv, Ts!Write, Fresh

LEMMA CompileInv == ASSUME Ts!TsAssumption, TsInv, Ts!Compile PROVE TsInv'
<1>1. CASE Ts!compiles(source)
  <2>1. status' = "running" /\ code' = Ts!compile_to_bytecode(source) /\ UNCHANGED <<source, file, esi, edi, length, buffer, trace>>
    BY <1>1 DEF Ts!Compile
  <2>2. source \in Seq(Ts!Line) /\ Fresh /\ esi = 0
    BY DEF TsInv, Ts!Compile
  <2>3. Laid(code', Count) /\ Count \in Nat
    BY <2>1, <2>2, CompiledIsLaid, SuccessLines DEF Count
  <2>4. code'[1].at = 0 /\ 1 \in 1..(Count + 6)
    BY <2>3 DEF Laid
  <2>5. Where(1)' /\ Count' = Count
    BY <2>1, <2>2 DEF Where, AtRead, Fresh, Count
  <2> QED
    BY <2>1, <2>2, <2>4, <2>5 DEF TsInv
<1>2. CASE ~Ts!compiles(source)
  BY <1>2 DEF TsInv, Ts!Compile, Fresh
<1> QED
  BY <1>1, <1>2

\* The stub is at an instruction of its kind.
LEMMA AtOp ==
  ASSUME Ts!TsAssumption, TsInv, NEW op, Ts!At(op)
  PROVE  status = "running" /\ \E k : Executing(k) /\ code[k].op = op
<1>1. status = "running" /\ Ts!Fetched.op = op
  BY DEF Ts!At
<1>2. PICK k : Executing(k)
  BY <1>1, Fetching
<1>3. Ts!Fetched = code[k]
  BY <1>2 DEF Executing
<1> QED
  BY <1>1, <1>2, <1>3

\* The next instruction begins where this one ends.
LEMMA Stepped ==
  ASSUME NEW k, Executing(k), k # Count + 6, Ts!Step
  PROVE  k + 1 \in 1..(Count + 6) /\ esi' = code[k + 1].at
<1>1. esi' = esi + Size(code[k])
  BY DEF Executing, Ts!Step, Ts!Value, Size
<1>2. k \in 1..(Count + 6) /\ Count \in Nat /\ esi = code[k].at
  BY DEF Executing
<1>3. k \in 1..(Count + 5) /\ k + 1 \in 1..(Count + 6)
  BY <1>2
<1>4. code[k + 1].at = code[k].at + Size(code[k])
  BY <1>3 DEF Executing, Laid
<1> QED
  BY <1>1, <1>2, <1>3, <1>4

\* What can be read of a file fits the buffer.
LEMMA ReadableFits ==
  ASSUME Ts!TsAssumption, file \in InputFiles, file # None
  PROVE  Len(Readable) \in 0..BUFFER
<1> DEFINE m == Ts!Min({BUFFER, Len(file)})
<1>1. IsSeq(file) /\ BUFFER \in Nat
  BY DEF Ts!TsAssumption, IsSeq
<1>2. Len(file) \in Nat
  BY <1>1, LenProperties DEF IsSeq
<1>3. m \in 0..Len(file) /\ m \in 0..BUFFER
  <2>1. \E x \in {BUFFER, Len(file)} : \A y \in {BUFFER, Len(file)} : x <= y
    BY <1>1, <1>2
  <2>2. m \in {BUFFER, Len(file)} /\ \A y \in {BUFFER, Len(file)} : m <= y
    BY <2>1 DEF Ts!Min
  <2> QED
    BY <1>1, <1>2, <2>2
<1> HIDE DEF m
<1>4. Len(SubSeq(file, 1, m)) = m
  BY <1>1, <1>3, Prefixed
<1> QED
  BY <1>3, <1>4 DEF Readable, m

LEMMA ReadInv == ASSUME Ts!TsAssumption, TsInv, Ts!do_read_file PROVE TsInv'
<1>1. Ts!At("read") /\ Ts!Step /\ UNCHANGED <<source, file, code, status, edi, trace>>
  BY DEF Ts!do_read_file
<1>2. status = "running"
  BY <1>1, AtOp
<1>3. PICK k : Executing(k) /\ code[k].op = "read"
  BY <1>1, AtOp
<1>4. k = 1 /\ Count \in Nat
  BY <1>3 DEF Executing, OpAt
<1>5. edi = Ts!ERROR /\ trace = <<>>
  BY <1>3, <1>4 DEF Executing, Where, AtRead, AtVerify, AtBranch, InBlock, AtReject, AtExit, Fresh
<1>6. 2 \in 1..(Count + 6) /\ esi' = code[2].at
  <2>1. k # Count + 6 /\ k + 1 = 2
    BY <1>4
  <2> QED
    BY <1>1, <1>3, <2>1, Stepped
<1>7. HasRead'
  <2>1. CASE file = None
    BY <1>1, <2>1 DEF Ts!do_read_file, HasRead
  <2>2. CASE file # None
    <3>1. buffer' = Readable /\ length' = Len(buffer')
      BY <2>2 DEF Ts!do_read_file, Readable
    <3>2. Len(Readable) \in 0..BUFFER
      BY <2>2, ReadableFits DEF TsInv
    <3>3. Readable' = Readable
      BY <1>1 DEF Readable
    <3> QED
      BY <1>1, <2>2, <3>1, <3>2, <3>3 DEF HasRead
  <2> QED
    BY <2>1, <2>2
<1>8. Where(2)'
  BY <1>1, <1>5, <1>7 DEF Where, AtVerify
<1> QED
  BY <1>1, <1>2, <1>6, <1>8, WentOn

\* What was read stays.
LEMMA ReadKept == ASSUME HasRead, UNCHANGED <<file, length, buffer>> PROVE HasRead'
BY DEF HasRead, Readable

LEMMA VerifiedKept == ASSUME HasVerified, UNCHANGED <<source, file, edi, buffer>> PROVE HasVerified'
BY DEF HasVerified, HashLine

LEMMA VerifyInv == ASSUME Ts!TsAssumption, TsInv, Ts!do_verify PROVE TsInv'
<1>1. Ts!At("hash") /\ Ts!Step /\ UNCHANGED <<source, file, code, status, length, buffer, trace>>
      /\ edi' = IF length = Ts!ERROR \/ length > LIMIT THEN Ts!ERROR ELSE IF buffer = Ts!Value THEN 1 ELSE 0
  BY DEF Ts!do_verify
<1>2. status = "running"
  BY <1>1, AtOp
<1>3. PICK k : Executing(k) /\ code[k].op = "hash"
  BY <1>1, AtOp
<1>4. k = 2 /\ Count \in Nat /\ Ts!Value = HashLine
  BY <1>3 DEF Executing, OpAt, Ts!Value
<1>5. HasRead /\ trace = <<>>
  BY <1>3, <1>4 DEF Executing, Where, AtRead, AtVerify, AtBranch, InBlock, AtReject, AtExit
<1>6. 3 \in 1..(Count + 6) /\ esi' = code[3].at
  <2>1. k # Count + 6 /\ k + 1 = 3
    BY <1>4
  <2> QED
    BY <1>1, <1>3, <2>1, Stepped
<1>7. HasVerified'
  <2>1. CASE file = None
    <3>1. length = Ts!ERROR
      BY <1>5, <2>1 DEF HasRead
    <3> QED
      BY <1>1, <2>1, <3>1 DEF HasVerified
  <2>2. CASE file # None
    <3>1. length \in 0..BUFFER /\ BUFFER \in Nat /\ LIMIT \in Nat /\ BUFFER <= LIMIT
      BY <1>5, <2>2 DEF HasRead, Ts!TsAssumption
    <3>2. length # Ts!ERROR /\ ~(length > LIMIT)
      BY <3>1 DEF Ts!ERROR
    <3>3. edi' = IF buffer = HashLine THEN 1 ELSE 0
      BY <1>1, <1>4, <3>2
    <3> QED
      BY <1>1, <2>2, <3>3 DEF HasVerified, HashLine
  <2> QED
    BY <2>1, <2>2
<1>8. HasRead'
  BY <1>1, <1>5, ReadKept
<1>9. Where(3)'
  BY <1>1, <1>5, <1>7, <1>8 DEF Where, AtBranch
<1> QED
  BY <1>1, <1>2, <1>6, <1>9, WentOn

LEMMA BranchInv == ASSUME Ts!TsAssumption, TsInv, Ts!do_jump_if_false PROVE TsInv'
<1>1. Ts!At("jump_if_false") /\ UNCHANGED <<source, file, code, status, edi, length, buffer, trace>>
      /\ IF edi = 0 THEN esi' = Ts!Value ELSE Ts!Step
  BY DEF Ts!do_jump_if_false
<1>2. status = "running"
  BY <1>1, AtOp
<1>3. PICK k : Executing(k) /\ code[k].op = "jump_if_false"
  BY <1>1, AtOp
<1>4. k = 3 /\ Count \in Nat /\ Ts!Value = code[3].value /\ code[3].value = code[Count + 5].at
  BY <1>3 DEF Executing, OpAt, Ts!Value, Laid
<1>5. HasRead /\ HasVerified /\ trace = <<>>
  BY <1>3, <1>4 DEF Executing, Where, AtRead, AtVerify, AtBranch, InBlock, AtReject, AtExit
<1>6. HasRead' /\ HasVerified'
  BY <1>1, <1>5, ReadKept, VerifiedKept
<1>7. CASE edi = 0
  <2>1. PICK m : m = Count + 5
    OBVIOUS
  <2>2. m \in 1..(Count + 6) /\ esi' = code[m].at
    BY <1>1, <1>4, <1>7, <2>1
  <2>3. m = Count' + 5
    BY <1>1, <2>1 DEF Count
  <2>4. Where(m)'
    BY <1>1, <1>5, <1>6, <1>7, <2>3 DEF Where, AtReject
  <2> QED
    BY <1>1, <1>2, <2>2, <2>4, WentOn
<1>8. CASE edi # 0
  <2>1. 4 \in 1..(Count + 6) /\ esi' = code[4].at
    <3>1. k # Count + 6 /\ k + 1 = 4
      BY <1>4
    <3> QED
      BY <1>1, <1>3, <1>8, <3>1, Stepped
  <2>2. HasTold(0)'
    <3>1. IsSeq(Success(source)) /\ Count \in Nat
      BY SuccessLines DEF TsInv, Count
    <3>2. SubSeq(Success(source), 1, 0) = <<>>
      BY SubSeqEmpty
    <3>3. Ts!Shown(<<>>) = <<>>
      BY OnlyKinds, EmptyIsSeq DEF Ts!Shown
    <3>4. 1..0 = {}
      OBVIOUS
    <3> QED
      BY <1>1, <1>5, <3>2, <3>3, <3>4 DEF HasTold
  <2>3. InBlock(4)'
    <3>1. Count' = Count /\ 4 \in 4..(Count + 4) /\ 4 - 4 = 0
      BY <1>1, <1>4 DEF Count
    <3> QED
      BY <1>1, <1>6, <1>8, <2>2, <3>1 DEF InBlock
  <2> QED
    BY <1>1, <1>2, <2>1, <2>3, WentOn DEF Where
<1> QED
  BY <1>7, <1>8

LEMMA JumpInv == ASSUME Ts!TsAssumption, TsInv, Ts!do_jump PROVE TsInv'
<1>1. Ts!At("jump") /\ UNCHANGED <<source, file, code, status, edi, length, buffer, trace>> /\ esi' = Ts!Value
  BY DEF Ts!do_jump
<1>2. status = "running"
  BY <1>1, AtOp
<1>3. PICK k : Executing(k) /\ code[k].op = "jump"
  BY <1>1, AtOp
<1>4. k = Count + 4 /\ Count \in Nat
  BY <1>3 DEF Executing, OpAt
<1>5. Ts!Value = code[Count + 6].at
  BY <1>3, <1>4 DEF Executing, Ts!Value, Laid
<1>6. HasRead /\ HasVerified /\ edi # 0 /\ HasTold(k - 4) /\ k - 4 = Count
  BY <1>3, <1>4 DEF Executing, Where, AtRead, AtVerify, AtBranch, InBlock, AtReject, AtExit
<1>7. HasRead' /\ HasVerified'
  BY <1>1, <1>6, ReadKept, VerifiedKept
<1>8. PICK m : m = Count + 6
  OBVIOUS
<1>9. m \in 1..(Count + 6) /\ esi' = code[m].at
  BY <1>1, <1>4, <1>5, <1>8
<1>10. Count' = Count /\ m = Count' + 6
  BY <1>1, <1>8 DEF Count
<1>11. HasTold(Count)'
  BY <1>1, <1>6, <1>10 DEF HasTold
<1>12. AtExit(m)'
  <2>1. edi' # 0
    BY <1>1, <1>6
  <2> QED
    BY <1>7, <1>10, <1>11, <2>1 DEF AtExit
<1> QED
  BY <1>1, <1>2, <1>9, <1>12, WentOn DEF Where

\* A line of the success block has been told, or a receipt withheld, and the stub goes on.
LEMMA BlockInv ==
  ASSUME Ts!TsAssumption, TsInv, status = "running", NEW k, Executing(k),
         code[k].op \in {"accept", "receipt", "yield"},
         Ts!Step, UNCHANGED <<source, file, code, status, edi, length, buffer>>,
         trace' = IF code[k].op = "receipt" /\ code[k].value \in Sentinels THEN trace
                  ELSE Append(trace, [op |-> code[k].op, value |-> code[k].value])
  PROVE  TsInv'
<1>1. k \in 4..(Count + 3) /\ Count \in Nat
  BY DEF Executing, OpAt
<1>2. code[k].op = Success(source)[k - 3].op /\ code[k].value = Success(source)[k - 3].value
  BY <1>1 DEF Executing, OpAt
<1>3. HasRead /\ HasVerified /\ edi # 0 /\ HasTold(k - 4)
  BY <1>1 DEF Executing, Where, AtRead, AtVerify, AtBranch, InBlock, AtReject, AtExit
<1>4. HasRead' /\ HasVerified'
  BY <1>3, ReadKept, VerifiedKept
<1>5. k # Count + 6
  BY <1>1
<1>6. k + 1 \in 1..(Count + 6) /\ esi' = code[k + 1].at
  BY <1>5, Stepped
<1>7. PICK m \in Nat : m = k - 4
  BY <1>1
<1>8. m + 1 <= Count /\ m + 1 = k - 3 /\ (k + 1) - 4 = m + 1
  BY <1>1, <1>7
<1>9. source \in Seq(Ts!Line) /\ HasTold(m)
  BY <1>3, <1>7 DEF TsInv
<1>10. Ts!Shown(SubSeq(Success(source), 1, m + 1)) =
         IF Success(source)[m + 1].op = "receipt" /\ Success(source)[m + 1].value \in Sentinels
         THEN trace ELSE Append(trace, Success(source)[m + 1])
  BY <1>8, <1>9, ToldMore
<1>11. Success(source)[m + 1] = [op |-> code[k].op, value |-> code[k].value]
  <2>1. m + 1 \in 1..Count
    BY <1>1, <1>8
  <2>2. Success(source)[m + 1] \in Ts!Line
    BY <1>9, <2>1, SuccessLines DEF Count
  <2>3. Success(source)[m + 1] = [op |-> Success(source)[m + 1].op, value |-> Success(source)[m + 1].value]
    BY <2>2, LineForms
  <2> QED
    BY <1>2, <1>8, <2>3
<1>12. trace' = Ts!Shown(SubSeq(Success(source), 1, m + 1))
  BY <1>2, <1>8, <1>10, <1>11
<1>13. HasTold(m + 1)'
  <2>1. \A i \in 1..m : Success(source)[i].op # "exit"
    BY <1>9 DEF HasTold
  <2>2. \A i \in 1..(m + 1) : i \in 1..m \/ i = m + 1
    OBVIOUS
  <2>3. Success(source)[m + 1].op # "exit"
    BY <1>2, <1>8
  <2> QED
    BY <1>12, <2>1, <2>2, <2>3 DEF HasTold
<1>14. InBlock(k + 1)'
  <2>1. Count' = Count /\ k + 1 \in 4..(Count + 4)
    BY <1>1 DEF Count
  <2> QED
    BY <1>3, <1>4, <1>8, <1>13, <2>1 DEF InBlock
<1>15. PICK next : next = k + 1
  OBVIOUS
<1>16. next \in 1..(Count + 6) /\ esi' = code[next].at /\ Where(next)'
  BY <1>6, <1>14, <1>15 DEF Where
<1> QED
  BY <1>16, WentOn

LEMMA ClaimInv == ASSUME Ts!TsAssumption, TsInv, Ts!do_claim PROVE TsInv'
<1>1. /\ Ts!At("accept") \/ Ts!At("reject")
      /\ trace' = Append(trace, [op |-> Ts!Fetched.op, value |-> Ts!Value]) /\ Ts!Step
      /\ UNCHANGED <<source, file, code, status, edi, length, buffer>>
  BY DEF Ts!do_claim, Ts!Tell
<1>2. CASE Ts!At("accept")
  <2>1. status = "running"
    BY <1>2, AtOp
  <2>2. PICK k : Executing(k) /\ code[k].op = "accept"
    BY <1>2, AtOp
  <2>3. trace' = Append(trace, [op |-> code[k].op, value |-> code[k].value])
    BY <1>1, <2>2 DEF Executing, Ts!Value
  <2> QED
    BY <1>1, <2>1, <2>2, <2>3, BlockInv
<1>3. CASE Ts!At("reject")
  <2>1. status = "running"
    BY <1>3, AtOp
  <2>2. PICK k : Executing(k) /\ code[k].op = "reject"
    BY <1>3, AtOp
  <2>3. k = Count + 5 /\ Count \in Nat /\ code[k].value = RejectInstr.value
    BY <2>2 DEF Executing, OpAt
  <2>4. trace' = Append(trace, RejectInstr)
    <3>1. trace' = Append(trace, [op |-> code[k].op, value |-> code[k].value])
      BY <1>1, <2>2 DEF Executing, Ts!Value
    <3>2. [op |-> code[k].op, value |-> code[k].value] = RejectInstr
      BY <2>2, <2>3 DEF RejectInstr
    <3> QED
      BY <3>1, <3>2
  <2>5. HasRead /\ HasVerified /\ edi = 0 /\ trace = <<>>
    BY <2>2, <2>3 DEF Executing, Where, AtRead, AtVerify, AtBranch, InBlock, AtReject, AtExit
  <2>6. HasRead' /\ HasVerified'
    BY <1>1, <2>5, ReadKept, VerifiedKept
  <2>7. trace' = <<RejectInstr>> /\ RejectInstr' = RejectInstr /\ Count' = Count
    BY <1>1, <2>4, <2>5 DEF RejectInstr, Count
  <2>8. PICK m : m = Count + 6
    OBVIOUS
  <2>9. m \in 1..(Count + 6) /\ esi' = code[m].at
    <3>1. k # Count + 6 /\ k + 1 = m
      BY <2>3, <2>8
    <3> QED
      BY <1>1, <2>2, <3>1, Stepped
  <2>10. AtExit(m)'
    BY <1>1, <2>5, <2>6, <2>7, <2>8 DEF AtExit
  <2> QED
    BY <1>1, <2>1, <2>9, <2>10, WentOn DEF Where
<1> QED
  BY <1>1, <1>2, <1>3

LEMMA YieldInv == ASSUME Ts!TsAssumption, TsInv, Ts!do_yield PROVE TsInv'
<1>1. Ts!At("yield") /\ Ts!Step /\ trace' = Append(trace, [op |-> "yield", value |-> None])
      /\ UNCHANGED <<source, file, code, status, edi, length, buffer>>
  BY DEF Ts!do_yield, Ts!Tell
<1>2. status = "running"
  BY <1>1, AtOp
<1>3. PICK k : Executing(k) /\ code[k].op = "yield"
  BY <1>1, AtOp
<1>4. code[k].value = None
  <2>1. k \in 4..(Count + 3) /\ Count \in Nat /\ code[k].op = Success(source)[k - 3].op /\ code[k].value = Success(source)[k - 3].value
    BY <1>3 DEF Executing, OpAt
  <2>2. k - 3 \in 1..Count
    BY <2>1
  <2>3. Success(source)[k - 3] \in Ts!Line
    BY <2>2, SuccessLines DEF Count, TsInv
  <2> QED
    BY <1>3, <2>1, <2>3, LineForms
<1>5. trace' = Append(trace, [op |-> code[k].op, value |-> code[k].value])
  BY <1>1, <1>3, <1>4
<1> QED
  BY <1>1, <1>2, <1>3, <1>5, BlockInv

LEMMA EmitInv == ASSUME Ts!TsAssumption, TsInv, Ts!do_emit_receipt PROVE TsInv'
<1>1. /\ Ts!At("receipt") /\ Ts!Step /\ UNCHANGED <<source, file, code, status, edi, length, buffer>>
      /\ trace' = IF Ts!Value \in Sentinels THEN trace ELSE Append(trace, [op |-> "receipt", value |-> Ts!Value])
  BY DEF Ts!do_emit_receipt, Ts!Tell
<1>2. status = "running"
  BY <1>1, AtOp
<1>3. PICK k : Executing(k) /\ code[k].op = "receipt"
  BY <1>1, AtOp
<1>4. Ts!Value = code[k].value
  BY <1>3 DEF Executing, Ts!Value
<1>5. trace' = IF code[k].op = "receipt" /\ code[k].value \in Sentinels THEN trace
               ELSE Append(trace, [op |-> code[k].op, value |-> code[k].value])
  BY <1>1, <1>3, <1>4
<1> QED
  BY <1>1, <1>2, <1>3, <1>5, BlockInv

LEMMA Two == ASSUME NEW a, NEW b PROVE Append(<<a>>, b) = <<a, b>>
<1> DEFINE s == <<a>>
<1>1. IsSeq(s) /\ Len(s) = 1 /\ s[1] = a
  BY DEF IsSeq
<1> HIDE DEF s
<1>2. PICK t : t = Append(s, b)
  OBVIOUS
<1>3. IsSeq(t) /\ Len(t) = Len(s) + 1 /\ (\A i \in 1..Len(s) : t[i] = s[i]) /\ t[Len(s) + 1] = b
  <2>1. IsSeq(s)
    BY <1>1
  <2>2. IsSeq(t) /\ Len(t) = Len(s) + 1
    BY <1>2, <2>1, Appended
  <2>3. \A i \in 1..Len(s) : t[i] = s[i]
    BY <1>2, <2>1, Appended
  <2>4. t[Len(s) + 1] = b
    BY <1>2, <2>1, Appended
  <2> QED
    BY <2>2, <2>3, <2>4
<1>4. Len(t) = 2 /\ t[1] = a /\ t[2] = b
  BY <1>1, <1>3
<1>5. t = [i \in 1..2 |-> t[i]]
  BY <1>3, <1>4, LenProperties DEF IsSeq
<1>6. t = <<a, b>>
  BY <1>4, <1>5
<1> QED
  BY <1>2, <1>6 DEF s

\* An exit in the success block is the first one, and ends what is told; the one after it is
\* the one a program without an exit is given.
LEMMA ExitTold ==
  ASSUME Ts!TsAssumption, TsInv, NEW k, Executing(k), code[k].op = "exit", edi # 0
  PROVE  Ts!Shown(Ts!ToExit(Success(source))) = Append(trace, [op |-> "exit", value |-> code[k].value])
<1> DEFINE b4 == Success(source)
           exits == {i \in DOMAIN b4 : b4[i].op = "exit"}
<1>1. source \in Seq(Ts!Line)
  BY DEF TsInv
<1>2. IsSeq(b4) /\ Count \in Nat /\ Len(b4) = Count /\ DOMAIN b4 = 1..Count /\ \A i \in 1..Count : b4[i] \in Ts!Line
  BY <1>1, SuccessLines DEF Count
<1>3. k = Count + 6 \/ k \in 4..(Count + 3)
  BY DEF Executing, OpAt
<1>4. CASE k \in 4..(Count + 3)
  <2>1. code[k].op = b4[k - 3].op /\ code[k].value = b4[k - 3].value /\ HasTold(k - 4)
    BY <1>2, <1>4 DEF Executing, OpAt, Where, AtRead, AtVerify, AtBranch, InBlock, AtReject, AtExit
  <2>2. PICK m \in Nat : m = k - 4
    BY <1>2, <1>4
  <2>3. m + 1 = k - 3 /\ m + 1 <= Count /\ m + 1 \in 1..Count
    BY <1>2, <1>4, <2>2
  <2>4. m + 1 \in exits
    BY <1>2, <2>1, <2>3
  <2>5. ASSUME NEW i \in exits PROVE m + 1 <= i
    <3>1. i \in 1..Count /\ b4[i].op = "exit"
      BY <1>2
    <3>2. ~(i \in 1..m)
      BY <2>1, <2>2, <3>1 DEF HasTold
    <3> QED
      BY <3>1, <3>2
  <2>6. Ts!Min(exits) = m + 1
    <3>1. exits \in SUBSET Nat
      BY <1>2
    <3> HIDE DEF exits
    <3>2. Ts!Min(exits) \in exits /\ \A y \in exits : Ts!Min(exits) <= y
      BY <2>4, <2>5 DEF Ts!Min
    <3>3. Ts!Min(exits) <= m + 1 /\ m + 1 <= Ts!Min(exits) /\ Ts!Min(exits) \in Nat
      BY <2>4, <2>5, <3>1, <3>2
    <3> QED
      BY <3>3
  <2>7. Ts!ToExit(b4) = SubSeq(b4, 1, m + 1)
    BY <2>4, <2>6 DEF Ts!ToExit
  <2>8. Ts!Shown(SubSeq(Success(source), 1, m + 1)) = Append(trace, Success(source)[m + 1])
    <3>1. Success(source)[m + 1].op # "receipt"
      BY <2>1, <2>3
    <3>2. HasTold(m)
      BY <2>1, <2>2
    <3> QED
      BY <1>1, <2>3, <3>1, <3>2, ToldMore
  <2>9. b4[m + 1] = [op |-> "exit", value |-> code[k].value]
    <3>1. b4[m + 1] \in Ts!Line
      BY <1>2, <2>3
    <3>2. b4[m + 1] = [op |-> b4[m + 1].op, value |-> b4[m + 1].value]
      BY <3>1, LineForms
    <3> QED
      BY <2>1, <2>3, <3>2
  <2> QED
    BY <2>7, <2>8, <2>9
<1>5. CASE k = Count + 6
  <2>1. HasTold(Count) /\ code[k].value = ExitInstr.value
    BY <1>2, <1>5 DEF Executing, OpAt, Where, AtRead, AtVerify, AtBranch, InBlock, AtReject, AtExit
  <2>2. exits = {}
    BY <1>2, <2>1 DEF HasTold
  <2>3. Ts!ToExit(b4) = Append(b4, ExitInstr)
    BY <2>2 DEF Ts!ToExit, Ts!Instr, ExitInstr
  <2>4. trace = Ts!Shown(b4)
    <3>1. trace = Ts!Shown(SubSeq(b4, 1, Len(b4)))
      BY <1>2, <2>1 DEF HasTold
    <3>2. b4 \in Seq({b4[i] : i \in DOMAIN b4})
      BY <1>2 DEF IsSeq
    <3>3. SubSeq(b4, 1, Len(b4)) = b4
      BY <3>2, SubSeqFull
    <3> QED
      BY <3>1, <3>3
  <2> DEFINE t == Append(b4, ExitInstr)
             K == {l \in Ts!Line : ~(l.op = "receipt" /\ l.value \in Sentinels)}
  <2>5. Ts!Shown(t) = Ts!Only(K, t) /\ Ts!Shown(b4) = Ts!Only(K, b4)
    BY DEF Ts!Shown
  <2>6. ExitInstr \in K
    <3>1. ExitInstr.value \in ExitCodes /\ ExitInstr = [op |-> "exit", value |-> ExitInstr.value]
      BY <1>1, LastExit DEF ExitInstr
    <3>2. ExitInstr \in Ts!Line /\ ExitInstr.op = "exit"
      BY <3>1 DEF Ts!Line
    <3> QED
      BY <3>2
  <2> HIDE DEF b4, K
  <2>7. IsSeq(t) /\ Len(t) = Len(b4) + 1 /\ (\A i \in 1..Len(b4) : t[i] = b4[i]) /\ t[Len(b4) + 1] = ExitInstr
    <3>1. t = Append(b4, ExitInstr)
      OBVIOUS
    <3> HIDE DEF t
    <3>2. IsSeq(b4)
      BY <1>2
    <3>3. IsSeq(t) /\ Len(t) = Len(b4) + 1
      BY <3>1, <3>2, Appended
    <3>4. \A i \in 1..Len(b4) : t[i] = b4[i]
      BY <3>1, <3>2, Appended
    <3>5. t[Len(b4) + 1] = ExitInstr
      BY <3>1, <3>2, Appended
    <3> QED
      BY <3>3, <3>4, <3>5
  <2> HIDE DEF t
  <2>8. Ts!Only(K, t) = IF t[Len(t)] \in K THEN Append(Ts!Only(K, b4), t[Len(t)]) ELSE Ts!Only(K, b4)
    BY <1>2, <2>7, OnlyOneMore
  <2>9. Ts!Only(K, t) = Append(Ts!Only(K, b4), ExitInstr)
    BY <2>6, <2>7, <2>8
  <2>10. ExitInstr = [op |-> "exit", value |-> code[k].value]
    BY <2>1 DEF ExitInstr
  <2> QED
    BY <2>3, <2>4, <2>5, <2>9, <2>10 DEF t, b4
<1> QED
  BY <1>3, <1>4, <1>5

LEMMA ExitInv == ASSUME Ts!TsAssumption, TsInv, Ts!do_exit PROVE TsInv'
<1>1. /\ Ts!At("exit") /\ status' = "exited" /\ trace' = Append(trace, [op |-> "exit", value |-> Ts!Value])
      /\ UNCHANGED <<source, file, code, esi, edi, length, buffer>>
  BY DEF Ts!do_exit, Ts!Tell
<1>2. status = "running"
  BY <1>1, AtOp
<1>3. PICK k : Executing(k) /\ code[k].op = "exit"
  BY <1>1, AtOp
<1>4. trace' = Append(trace, [op |-> "exit", value |-> code[k].value])
  BY <1>1, <1>3 DEF Executing, Ts!Value
<1>5. (k = Count + 6 \/ k \in 4..(Count + 3)) /\ Count \in Nat
  BY <1>3 DEF Executing, OpAt
<1>6. HasRead /\ HasVerified
  BY <1>3, <1>5 DEF Executing, Where, AtRead, AtVerify, AtBranch, InBlock, AtReject, AtExit
<1>7. HasRead' /\ HasVerified'
  BY <1>1, <1>6, ReadKept, VerifiedKept
<1>8. edi # 0 => trace' = Ts!Shown(Ts!ToExit(Success(source)))
  BY <1>3, <1>4, ExitTold
<1>9. edi = 0 => trace' = <<RejectInstr, ExitInstr>>
  <2>1. SUFFICES ASSUME edi = 0 PROVE trace' = <<RejectInstr, ExitInstr>>
    OBVIOUS
  <2>2. trace = <<RejectInstr>> /\ k = Count + 6
    BY <1>3, <1>5, <2>1 DEF Executing, Where, AtRead, AtVerify, AtBranch, InBlock, AtReject, AtExit
  <2>3. code[k].value = ExitInstr.value
    BY <1>3, <1>5, <2>2 DEF Executing, OpAt
  <2>4. [op |-> "exit", value |-> code[k].value] = ExitInstr
    BY <2>3 DEF ExitInstr
  <2>5. trace' = Append(trace, ExitInstr)
    BY <1>4, <2>4
  <2>6. Append(<<RejectInstr>>, ExitInstr) = <<RejectInstr, ExitInstr>>
    BY Two
  <2> QED
    BY <2>2, <2>5, <2>6
<1>10. Ts!ToExit(Success(source))' = Ts!ToExit(Success(source)) /\ RejectInstr' = RejectInstr /\ ExitInstr' = ExitInstr
  BY <1>1 DEF RejectInstr, ExitInstr, Ts!ToExit
<1>11. Done'
  BY <1>1, <1>7, <1>8, <1>9, <1>10 DEF Done
<1> QED
  BY <1>1, <1>2, <1>11 DEF TsInv

LEMMA TsStepInv == ASSUME Ts!TsAssumption, TsInv, [Ts!Next]_(Ts!vars) PROVE TsInv'
<1>1. CASE UNCHANGED Ts!vars
  <2>1. UNCHANGED <<source, file, code, status, esi, edi, length, buffer, trace>>
    BY <1>1 DEF Ts!vars
  <2>2. CASE status = "running"
    <3>1. PICK k \in 1..(Count + 6) : esi = code[k].at /\ Where(k)
      BY <2>2 DEF TsInv
    <3>2. Where(k)'
      <4>1. Count' = Count /\ (HasRead' <=> HasRead) /\ (HasVerified' <=> HasVerified) /\ (Fresh' <=> Fresh) /\ RejectInstr' = RejectInstr
        BY <2>1 DEF Count, HasRead, Readable, HasVerified, HashLine, Fresh, RejectInstr
      <4>2. (HasTold(k - 4)' <=> HasTold(k - 4)) /\ (HasTold(Count)' <=> HasTold(Count))
        BY <2>1, <4>1 DEF HasTold
      <4> QED
        BY <2>1, <3>1, <4>1, <4>2 DEF Where, AtRead, AtVerify, AtBranch, InBlock, AtReject, AtExit
    <3> QED
      BY <2>1, <2>2, <3>1, <3>2, WentOn
  <2>3. CASE status # "running"
    <3>1. status = "exited" => Done'
      <4>1. (HasRead' <=> HasRead) /\ (HasVerified' <=> HasVerified) /\ RejectInstr' = RejectInstr /\ ExitInstr' = ExitInstr
        BY <2>1 DEF HasRead, Readable, HasVerified, HashLine, RejectInstr, ExitInstr
      <4>2. Ts!ToExit(Success(source))' = Ts!ToExit(Success(source))
        BY <2>1 DEF Ts!ToExit
      <4> QED
        BY <2>1, <4>1, <4>2 DEF TsInv, Done
    <3> QED
      BY <2>1, <2>3, <3>1 DEF TsInv, Fresh
  <2> QED
    BY <2>2, <2>3
<1>2. CASE Ts!Next
  BY <1>2, WriteInv, CompileInv, ReadInv, VerifyInv, BranchInv, JumpInv, ClaimInv, YieldInv, EmitInv, ExitInv
     DEF Ts!Next, Ts!Stub
<1> QED
  BY <1>1, <1>2

LEMMA TsTyped == ASSUME Ts!TsAssumption, TsInv PROVE Ts!TypeOK
<1>1. status \in {"source", "running", "refused", "exited"} /\ BUFFER \in Nat
  BY DEF TsInv, Ts!TsAssumption
<1>2. status = "running" => Ts!Here # {}
  <2>1. SUFFICES ASSUME status = "running" PROVE Ts!Here # {}
    OBVIOUS
  <2>2. PICK k : Executing(k)
    BY <2>1, Fetching
  <2> QED
    BY <2>2 DEF Executing
<1>3. Fresh \/ (HasRead /\ edi = Ts!ERROR) \/ (HasRead /\ HasVerified)
  BY <1>1 DEF TsInv, Done, Where, AtRead, AtVerify, AtBranch, InBlock, AtReject, AtExit
<1>4. edi \in {Ts!ERROR, 0, 1}
  BY <1>3 DEF Fresh, HasVerified
<1>5. length \in {Ts!ERROR} \cup 0..BUFFER /\ (file # None => length = Len(buffer))
  <2>1. CASE Fresh
    BY <1>1, <2>1, EmptySeq DEF Fresh
  <2>2. CASE HasRead
    BY <2>2 DEF HasRead
  <2> QED
    BY <1>3, <2>1, <2>2
<1> QED
  BY <1>1, <1>2, <1>4, <1>5 DEF Ts!TypeOK

LEMMA PathsFollow == ASSUME TsInv PROVE Ts!SuccessPathKept /\ Ts!RefusedPathKept
<1>1. status = "exited" => Done
  BY DEF TsInv
<1> QED
  BY <1>1 DEF Done, Ts!SuccessPathKept, Ts!RefusedPathKept, RejectInstr, ExitInstr, Ts!Instr, Success

\* Only a comparison that succeeded leads into the success block.
LEMMA AcceptsFollow == ASSUME TsInv PROVE Ts!AcceptedWasVerified
<1>1. SUFFICES ASSUME NEW i \in DOMAIN trace, trace[i].op = "accept", file # None
               PROVE  Readable = HashLine
  BY DEF Ts!AcceptedWasVerified, Ts!Accepting, Readable, HashLine
<1>2. trace # <<>> /\ trace # <<RejectInstr>> /\ trace # <<RejectInstr, ExitInstr>>
  <2>1. RejectInstr.op = "reject" /\ ExitInstr.op = "exit"
    BY DEF RejectInstr, ExitInstr
  <2> QED
    BY <1>1, <2>1
<1>3. HasRead /\ HasVerified /\ edi # 0
  BY <1>2 DEF TsInv, Fresh, Done, Where, AtRead, AtVerify, AtBranch, InBlock, AtReject, AtExit
<1>4. buffer = HashLine /\ buffer = Readable
  BY <1>1, <1>3 DEF HasRead, HasVerified
<1> QED
  BY <1>4

\* In this scenario only the compiler and the stub move.
LEMMA TsAlone ==
    /\ Spec /\ scenario = "tslang" => Ts!Spec /\ [](scenario = "tslang")
    /\ Spec /\ ~(scenario = "tslang") => [](~(scenario = "tslang"))
<1>1. Init /\ scenario = "tslang" => Ts!Init
  BY DEF Init
<1>2. UNCHANGED vars => UNCHANGED <<scenario, Ts!vars>>
  BY DEF vars, tsVars, Ts!vars
<1>3. scenario = "tslang" /\ [Next]_vars => (scenario = "tslang")' /\ [Ts!Next]_(Ts!vars)
  BY <1>2 DEF Next, TsStep, BrokerStep, RootStep
<1>4. ~(scenario = "tslang") /\ [Next]_vars => (~(scenario = "tslang"))'
  BY DEF Next, vars, TsStep, BrokerStep, RootStep
<1> QED
  BY <1>1, <1>3, <1>4, PTL DEF Spec, Ts!Spec

\* Every source compiles to what it says, whatever its length and that of its messages, and
\* whatever the file: the jumps lead to the rejection and to the exit, the kernel is told what
\* the source says in its order, and nothing is accepted of a file that does not have the
\* source's hash (compile_to_bytecode, and the stub of tsc.py).
THEOREM AlwaysCompiledAsWritten == Spec => []CompiledAsWritten
<1>1. Ts!TsAssumption
  BY GuestAssumption DEF GuestAssumption
<1>2. Ts!Init => TsInv
  BY TsInitially
<1>3. TsInv /\ [Ts!Next]_(Ts!vars) => TsInv'
  BY <1>1, TsStepInv
<1>4. TsInv => CompiledAsWritten
  BY <1>1, TsTyped, PathsFollow, AcceptsFollow DEF CompiledAsWritten
<1>5. ~(scenario = "tslang") => CompiledAsWritten
  BY DEF CompiledAsWritten
<1> QED
  BY <1>2, <1>3, <1>4, <1>5, TsAlone, PTL DEF Ts!Spec
=============================================================================

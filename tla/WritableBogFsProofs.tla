------------------------ MODULE WritableBogFsProofs ------------------------
(***************************************************************************)
(* The writable BogFS for any table, capacity and set of processes.  The   *)
(* inductive invariant is the type invariant, CommittedVerifies, the       *)
(* capacity, and what makes a version identify a content: a stat is never  *)
(* newer than the file, and one that is as new has the file's hash, as has *)
(* what was read.                                                          *)
(***************************************************************************)
EXTENDS WritableBogFs, FiniteSetTheorems, WellFoundedInduction, TLAPS

(***************************************************************************)
(* Sums over a finite set, as the fold MapThenSumSet computes them.        *)
(***************************************************************************)
Pick(s) == CHOOSE x \in s : TRUE

\* sum adds up len over every subset of S, one picked element after the other.
Sums(sum, len, S) ==
  \A s \in SUBSET S : sum[s] = IF s = {} THEN 0 ELSE len[Pick(s)] + sum[s \ {Pick(s)}]

\* A set of naturals that has an element has a least one.
LEMMA Least ==
  ASSUME NEW T \in SUBSET Nat, T # {}
  PROVE  \E x \in T : \A y \in T : x <= y
<1> DEFINE R == OpToRel(<, Nat)
<1>1. IsWellFoundedOn(R, Nat)
  BY NatLessThanWellFounded, Zenon
<1>2. PICK x \in T : \A y \in T : ~(<<y, x>> \in R)
  BY <1>1, WFMin, Zenon
<1>3. \A y \in T : ~(y < x)
  BY <1>2 DEF OpToRel
<1> QED
  BY <1>3

\* Without one of its elements a finite set is smaller by one.
LEMMA Smaller ==
  ASSUME NEW S, IsFiniteSet(S), NEW s \in SUBSET S, NEW x \in s
  PROVE  /\ s \ {x} \in SUBSET S /\ Cardinality(s) \in Nat /\ Cardinality(s \ {x}) \in Nat
         /\ Cardinality(s \ {x}) = Cardinality(s) - 1
<1>1. IsFiniteSet(s)
  BY FS_Subset
<1>2. IsFiniteSet(s \ {x}) /\ Cardinality(s \ {x}) = Cardinality(s) - 1
  BY <1>1, FS_RemoveElement
<1> QED
  BY <1>1, <1>2, FS_CardinalityType

\* There are sums of any lengths.
LEMMA SumExists ==
  ASSUME NEW S, IsFiniteSet(S), NEW len \in [S -> Nat]
  PROVE  \E sum \in [SUBSET S -> Nat] : Sums(sum, len, S)
<1> DEFINE Upto(n) == {s \in SUBSET S : Cardinality(s) <= n}
           Value(sum, s) == IF s = {} THEN 0 ELSE len[Pick(s)] + sum[s \ {Pick(s)}]
           Good(n) == \E sum \in [Upto(n) -> Nat] : \A s \in Upto(n) : sum[s] = Value(sum, s)
           bad == {n \in Nat : ~Good(n)}
<1>p. \A s \in SUBSET S : s # {} => Pick(s) \in s /\ Pick(s) \in S
  BY DEF Pick
<1>0. Good(0)
  <2>1. \A s \in Upto(0) : s = {}
    <3> SUFFICES ASSUME NEW s \in Upto(0) PROVE s = {}
      OBVIOUS
    <3>1. IsFiniteSet(s)
      BY FS_Subset
    <3>2. Cardinality(s) \in Nat /\ Cardinality(s) <= 0
      BY <3>1, FS_CardinalityType
    <3>3. Cardinality(s) = 0
      BY <3>2
    <3> QED
      BY <3>1, <3>3, FS_EmptySet
  <2>2. [s \in Upto(0) |-> 0] \in [Upto(0) -> Nat]
    OBVIOUS
  <2>3. \A s \in Upto(0) : [r \in Upto(0) |-> 0][s] = Value([r \in Upto(0) |-> 0], s)
    BY <2>1
  <2> QED
    BY <2>2, <2>3
<1>1. ASSUME NEW n \in Nat, Good(n) PROVE Good(n + 1)
  <2>1. PICK sum \in [Upto(n) -> Nat] : \A s \in Upto(n) : sum[s] = Value(sum, s)
    BY <1>1
  <2> DEFINE more == [s \in Upto(n + 1) |-> Value(sum, s)]
  <2>2. ASSUME NEW s \in Upto(n + 1), s # {} PROVE s \ {Pick(s)} \in Upto(n) /\ len[Pick(s)] \in Nat
    <3>1. Pick(s) \in s /\ Pick(s) \in S /\ s \in SUBSET S /\ Cardinality(s) <= n + 1
      BY <1>p, <2>2
    <3>2. /\ s \ {Pick(s)} \in SUBSET S /\ Cardinality(s) \in Nat
          /\ Cardinality(s \ {Pick(s)}) = Cardinality(s) - 1
      BY <3>1, Smaller
    <3> QED
      BY <3>1, <3>2
  <2>3. more \in [Upto(n + 1) -> Nat]
    BY <2>2
  <2>4. \A s \in Upto(n) : s \in Upto(n + 1)
    <3> SUFFICES ASSUME NEW s \in SUBSET S, Cardinality(s) <= n PROVE Cardinality(s) <= n + 1
      OBVIOUS
    <3>1. IsFiniteSet(s)
      BY FS_Subset
    <3>2. Cardinality(s) \in Nat
      BY <3>1, FS_CardinalityType
    <3> QED
      BY <3>2
  <2>5. \A s \in Upto(n) : more[s] = sum[s]
    BY <2>1, <2>4
  <2>6. ASSUME NEW s \in Upto(n + 1) PROVE more[s] = Value(more, s)
    <3>1. CASE s = {}
      BY <3>1
    <3>2. CASE s # {}
      <4>1. more[s \ {Pick(s)}] = sum[s \ {Pick(s)}]
        BY <2>2, <2>5, <3>2
      <4>2. more[s] = len[Pick(s)] + sum[s \ {Pick(s)}]
        BY <3>2
      <4> HIDE DEF more
      <4> QED
        BY <4>1, <4>2, <3>2
    <3> QED
      BY <3>1, <3>2
  <2> HIDE DEF more
  <2> QED
    BY <2>3, <2>6
<1> HIDE DEF Good
<1>2. \A n \in Nat : Good(n)
  <2>1. SUFFICES ASSUME bad # {} PROVE FALSE
    OBVIOUS
  <2>2. PICK n \in bad : \A y \in bad : n <= y
    BY <2>1, Least
  <2>3. CASE n = 0
    BY <1>0, <2>3
  <2>4. CASE n # 0
    <3>1. n - 1 \in Nat /\ ~(n <= n - 1) /\ (n - 1) + 1 = n
      BY <2>4
    <3>2. Good(n - 1)
      BY <2>2, <3>1
    <3>3. Good((n - 1) + 1)
      BY <1>1, <3>1, <3>2
    <3> QED
      BY <3>1, <3>3
  <2> QED
    BY <2>3, <2>4
<1>3. Cardinality(S) \in Nat /\ Upto(Cardinality(S)) = SUBSET S
  BY FS_CardinalityType, FS_Subset
<1>4. PICK sum \in [Upto(Cardinality(S)) -> Nat] :
        \A s \in Upto(Cardinality(S)) : sum[s] = Value(sum, s)
  BY <1>2, <1>3 DEF Good
<1> QED
  BY <1>3, <1>4 DEF Sums

\* The order of the picks does not matter: any element may be taken out.
LEMMA AnyOrder ==
  ASSUME NEW S, IsFiniteSet(S), NEW len \in [S -> Nat], NEW sum \in [SUBSET S -> Nat], Sums(sum, len, S),
         NEW s \in SUBSET S, NEW x \in s
  PROVE  sum[s] = len[x] + sum[s \ {x}]
<1> DEFINE Wrong(r) == \E y \in r : sum[r] # len[y] + sum[r \ {y}]
           bad == {n \in Nat : \E r \in SUBSET S : Cardinality(r) = n /\ Wrong(r)}
<1>1. SUFFICES ASSUME Wrong(s) PROVE FALSE
  OBVIOUS
<1>2. bad # {}
  BY <1>1, Smaller
<1>3. PICK n \in bad : \A m \in bad : n <= m
  BY <1>2, Least
<1>4. PICK r \in SUBSET S : Cardinality(r) = n /\ Wrong(r)
  BY <1>3
<1>5. PICK y \in r : sum[r] # len[y] + sum[r \ {y}]
  BY <1>4
<1>6. ASSUME NEW q \in SUBSET S, NEW z \in q, NEW u \in r, q = r \ {u}
      PROVE  sum[q] = len[z] + sum[q \ {z}]
  <2>1. Cardinality(q) \in Nat /\ Cardinality(q) = n - 1
    BY <1>4, <1>6, Smaller
  <2>2. ~Wrong(q)
    BY <1>3, <2>1
  <2> QED
    BY <2>2
<1> HIDE DEF Wrong, bad
<1> DEFINE c == Pick(r)
<1>7. c \in r /\ sum[r] = len[c] + sum[r \ {c}]
  BY <1>5 DEF Pick, Sums
<1> HIDE DEF c
<1>8. c # y
  BY <1>5, <1>7
<1>9. sum[r \ {c}] = len[y] + sum[(r \ {c}) \ {y}]
  BY <1>6, <1>7, <1>8
<1>10. sum[r \ {y}] = len[c] + sum[(r \ {y}) \ {c}]
  BY <1>6, <1>7, <1>8
<1>11. (r \ {c}) \ {y} = (r \ {y}) \ {c}
  OBVIOUS
<1>12. len[c] \in Nat /\ len[y] \in Nat /\ sum[(r \ {c}) \ {y}] \in Nat
  BY <1>7
<1>13. sum[(r \ {y}) \ {c}] = sum[(r \ {c}) \ {y}]
  BY <1>11, Zenon
<1>14. PICK rest \in Nat : rest = sum[(r \ {c}) \ {y}]
  BY <1>12
<1>15. sum[r] = len[c] + (len[y] + rest) /\ sum[r \ {y}] = len[c] + rest
  BY <1>7, <1>9, <1>10, <1>13, <1>14, Zenon
<1> QED
  BY <1>5, <1>12, <1>15

\* Sums of lengths that agree on a set agree on it.
LEMMA SameSums ==
  ASSUME NEW S, IsFiniteSet(S), NEW len, NEW len2, NEW sum, NEW sum2, Sums(sum, len, S), Sums(sum2, len2, S),
         NEW s \in SUBSET S, \A x \in s : len[x] = len2[x]
  PROVE  sum[s] = sum2[s]
<1> DEFINE bad == {n \in Nat : \E r \in SUBSET s : Cardinality(r) = n /\ sum[r] # sum2[r]}
<1>f. IsFiniteSet(s)
  BY FS_Subset
<1>1. SUFFICES ASSUME sum[s] # sum2[s] PROVE FALSE
  OBVIOUS
<1>2. bad # {}
  BY <1>1, <1>f, FS_CardinalityType
<1>3. PICK n \in bad : \A m \in bad : n <= m
  BY <1>2, Least
<1>4. PICK r \in SUBSET s : Cardinality(r) = n /\ sum[r] # sum2[r]
  BY <1>3
<1>5. r # {}
  BY <1>4 DEF Sums
<1>6. Pick(r) \in r
  BY <1>5 DEF Pick
<1>7. Cardinality(r \ {Pick(r)}) \in Nat /\ Cardinality(r \ {Pick(r)}) = n - 1
  BY <1>f, <1>4, <1>6, Smaller
<1>8. sum[r \ {Pick(r)}] = sum2[r \ {Pick(r)}]
  BY <1>3, <1>7
<1> QED
  BY <1>4, <1>5, <1>6, <1>8 DEF Sums

\* The sum of nothing but zeros.
LEMMA ZeroSum ==
  ASSUME NEW S, IsFiniteSet(S), NEW len \in [S -> Nat], NEW sum, Sums(sum, len, S), \A x \in S : len[x] = 0
  PROVE  sum[S] = 0
<1> DEFINE none == [s \in SUBSET S |-> 0]
<1>1. Sums(none, len, S)
  <2> SUFFICES ASSUME NEW s \in SUBSET S, s # {} PROVE none[s] = len[Pick(s)] + none[s \ {Pick(s)}]
    BY DEF Sums
  <2>1. Pick(s) \in s
    BY DEF Pick
  <2> QED
    BY <2>1
<1> HIDE DEF none
<1>2. sum[S] = none[S]
  BY <1>1, SameSums
<1> QED
  BY <1>2 DEF none

\* What used_bytes folds is such a sum.
LEMMA UsedIsSum ==
  ASSUME NEW table, \A p \in Path : table[p].length \in Nat
  PROVE  \E sum \in [SUBSET Path -> Nat] :
           Sums(sum, [p \in Path |-> table[p].length], Path) /\ used_bytes(table) = sum[Path]
<1> DEFINE len == [p \in Path |-> table[p].length]
           Step(f) == [s \in SUBSET Path |-> IF s = {} THEN 0
                          ELSE table[CHOOSE x \in s : TRUE].length + f[s \ {CHOOSE x \in s : TRUE}]]
           iter == CHOOSE f : f = Step(f)
<1>1. used_bytes(table) = iter[Path]
  BY DEF used_bytes, MapThenSumSet, MapThenFoldSet
<1>2. len \in [Path -> Nat] /\ IsFiniteSet(Path)
  BY BogFsAssumption
<1>3. PICK sum \in [SUBSET Path -> Nat] : Sums(sum, len, Path)
  <2> HIDE DEF len
  <2> QED
    BY <1>2, SumExists
<1>4. ASSUME NEW s \in SUBSET Path, s # {} PROVE len[Pick(s)] = table[CHOOSE x \in s : TRUE].length
  BY <1>4 DEF Pick
<1>5. sum = Step(sum)
  <2>1. ASSUME NEW s \in SUBSET Path PROVE sum[s] = Step(sum)[s]
    <3>1. CASE s = {}
      BY <1>3, <3>1 DEF Sums
    <3>2. CASE s # {}
      <4>1. sum[s] = len[Pick(s)] + sum[s \ {Pick(s)}]
        BY <1>3, <3>2 DEF Sums
      <4> HIDE DEF len
      <4> QED
        BY <4>1, <1>4, <3>2 DEF Pick
    <3> QED
      BY <3>1, <3>2
  <2> QED
    BY <2>1
<1>6. iter = Step(iter)
  BY <1>5
<1>7. Sums(iter, len, Path)
  <2> SUFFICES ASSUME NEW s \in SUBSET Path
               PROVE  iter[s] = IF s = {} THEN 0 ELSE len[Pick(s)] + iter[s \ {Pick(s)}]
    BY DEF Sums
  <2> HIDE DEF iter, len
  <2>1. iter[s] = IF s = {} THEN 0
                  ELSE table[CHOOSE x \in s : TRUE].length + iter[s \ {CHOOSE x \in s : TRUE}]
    BY <1>6
  <2> QED
    BY <2>1, <1>4 DEF Pick
<1> HIDE DEF iter, len
<1>8. iter[Path] = sum[Path]
  BY <1>2, <1>3, <1>7, SameSums
<1> QED
  BY <1>1, <1>3, <1>8 DEF len

\* No file is longer than the table; one that is written anew changes what is in use by
\* the difference of its lengths.
LEMMA UsedBytes ==
  ASSUME NEW table, \A p \in Path : table[p].length \in Nat
  PROVE  /\ used_bytes(table) \in Nat
         /\ \A p \in Path : table[p].length <= used_bytes(table)
         /\ \A new : \A p \in Path :
              new[p].length \in Nat /\ (\A q \in Path \ {p} : new[q] = table[q])
                => used_bytes(new) = used_bytes(table) - table[p].length + new[p].length
<1> DEFINE Len1(t) == [q \in Path |-> t[q].length]
<1>f. IsFiniteSet(Path)
  BY BogFsAssumption
<1>1. PICK sum \in [SUBSET Path -> Nat] : Sums(sum, Len1(table), Path) /\ used_bytes(table) = sum[Path]
  BY UsedIsSum
<1>2. ASSUME NEW p \in Path PROVE sum[Path] = table[p].length + sum[Path \ {p}] /\ sum[Path \ {p}] \in Nat
  <2>1. Len1(table) \in [Path -> Nat] /\ Len1(table)[p] = table[p].length
    OBVIOUS
  <2> HIDE DEF Len1
  <2>2. sum[Path] = Len1(table)[p] + sum[Path \ {p}]
    BY <1>f, <1>1, <2>1, AnyOrder
  <2> QED
    BY <2>1, <2>2
<1>3. ASSUME NEW p \in Path PROVE table[p].length <= used_bytes(table)
  <2>1. used_bytes(table) = table[p].length + sum[Path \ {p}]
    BY <1>1, <1>2
  <2>2. table[p].length \in Nat /\ sum[Path \ {p}] \in Nat
    BY <1>2
  <2> QED
    BY <2>1, <2>2
<1>4. ASSUME NEW new, NEW p \in Path, new[p].length \in Nat, \A q \in Path \ {p} : new[q] = table[q]
      PROVE  used_bytes(new) = used_bytes(table) - table[p].length + new[p].length
  <2>1. \A q \in Path : new[q].length \in Nat
    BY <1>4
  <2>2. PICK sum2 \in [SUBSET Path -> Nat] : Sums(sum2, Len1(new), Path) /\ used_bytes(new) = sum2[Path]
    BY <2>1, UsedIsSum
  <2>3. /\ Len1(new) \in [Path -> Nat] /\ Len1(new)[p] = new[p].length
        /\ \A q \in Path \ {p} : Len1(new)[q] = Len1(table)[q]
    BY <1>4, <2>1
  <2> HIDE DEF Len1
  <2>4. sum2[Path] = Len1(new)[p] + sum2[Path \ {p}]
    BY <1>f, <2>2, <2>3, AnyOrder, SMTT(30)
  <2>5. sum[Path \ {p}] = sum2[Path \ {p}]
    BY <1>f, <1>1, <2>2, <2>3, SameSums
  <2>6. used_bytes(new) = new[p].length + sum[Path \ {p}] /\ used_bytes(table) = table[p].length + sum[Path \ {p}]
    BY <1>1, <1>2, <2>2, <2>3, <2>4, <2>5
  <2>7. sum[Path \ {p}] \in Nat /\ table[p].length \in Nat /\ new[p].length \in Nat
    BY <1>2, <1>4
  <2> QED
    BY <2>6, <2>7
<1> QED
  BY <1>1, <1>3, <1>4

StatsCurrent ==
  \A pid \in Pid : last_stat[pid] # None =>
    LET s == last_stat[pid] IN
      /\ s.version <= files[s.path].version
      /\ s.version = files[s.path].version =>
           /\ s.hash = files[s.path].hash
           /\ last_read[pid] # None => last_read[pid] = s.hash

\* What has_room keeps.
InCapacity == writable_bogfs_used_bytes <= TOTAL_CAPACITY

IInv == TypeOK /\ CommittedVerifies /\ StatsCurrent /\ InCapacity

\* What a write commits is a file whose bytes in use are the ones hashed.
LEMMA CommittedFile ==
  ASSUME NEW file \in File, file.version < MaxVersion, NEW bytes \in Buffer, valid_length(Len(bytes))
  PROVE  /\ committed(file, bytes) \in File
         /\ committed(file, bytes).version = file.version + 1
         /\ verified(committed(file, bytes))
<1>1. PICK n \in 0..MAX_FILE_SIZE + 1 : bytes \in [1..n -> Block]
  BY DEF Buffer
<1>2. Len(bytes) = n /\ n \in 1..MAX_FILE_SIZE
  <2>1. n \in Nat /\ MAX_FILE_SIZE \in Nat
    BY BogFsAssumption
  <2>2. bytes \in Seq(Block) /\ Len(bytes) = n
    BY <1>1, <2>1
  <2> QED
    BY <2>1, <2>2 DEF valid_length
<1>3. (file.version + 1) % VERSIONS = file.version + 1 /\ file.version + 1 \in 0..MaxVersion
  <2>1. file.version \in 0..MaxVersion /\ VERSIONS \in Nat /\ MaxVersion \in Nat /\ MaxVersion < VERSIONS
    BY BogFsAssumption DEF File
  <2> QED
    BY <2>1, SMTT(30)
<1>4. staged(bytes) \in Array
  BY <1>1, <1>2, BogFsAssumption DEF staged, Array
<1>5. bytes \in Hash
  BY <1>1, <1>2 DEF Hash
<1>6. n \in 0..MAX_FILE_SIZE /\ 1..n \subseteq 1..MAX_FILE_SIZE
  BY <1>2, BogFsAssumption
<1>7. verified(committed(file, bytes))
  <2>1. Content(committed(file, bytes)) = [k \in 1..n |-> bytes[k]]
    BY <1>2, <1>6 DEF Content, committed, staged
  <2>2. [k \in 1..n |-> bytes[k]] = bytes
    BY <1>1
  <2> QED
    BY <2>1, <2>2 DEF verified, committed
<1> QED
  BY <1>2, <1>3, <1>4, <1>5, <1>6, <1>7 DEF committed, File

\* What a file holds can be told.
LEMMA ContentIsHash ==
  ASSUME NEW file \in File
  PROVE  Content(file) \in Hash
<1>1. file.length \in 0..MAX_FILE_SIZE /\ file.data \in [1..MAX_FILE_SIZE -> Block]
  BY DEF File, Array
<1>2. 1..file.length \subseteq 1..MAX_FILE_SIZE
  BY <1>1, BogFsAssumption
<1>3. Content(file) \in [1..file.length -> Block]
  BY <1>1, <1>2 DEF Content
<1> QED
  BY <1>1, <1>3 DEF Hash

\* The table as it is at boot.
LEMMA Initial == Init => IInv
<1> SUFFICES ASSUME Init PROVE IInv
  OBVIOUS
<1>1. \A p \in Path : files[p] \in File /\ verified(files[p])
  <2> SUFFICES ASSUME NEW p \in Path PROVE files[p] \in File /\ verified(files[p])
    OBVIOUS
  <2>1. files[p] = [length |-> 0, version |-> 0, hash |-> <<>>, data |-> [k \in 1..MAX_FILE_SIZE |-> Zero]]
    BY DEF Init
  <2>2. <<>> \in [1..0 -> Block] /\ [k \in 1..0 |-> files[p].data[k]] = <<>>
    BY SMT
  <2>3. <<>> \in Hash
    BY <2>2, BogFsAssumption DEF Hash
  <2>4. [k \in 1..MAX_FILE_SIZE |-> Zero] \in Array
    BY BogFsAssumption DEF Array
  <2> QED
    BY <2>1, <2>2, <2>3, <2>4, BogFsAssumption DEF File, verified, Content
<1>2. TypeOK
  BY <1>1 DEF Init, TypeOK
<1>3. StatsCurrent
  BY DEF Init, StatsCurrent
<1>4. InCapacity
  <2>1. \A p \in Path : files[p].length = 0
    BY DEF Init
  <2>2. PICK sum \in [SUBSET Path -> Nat] :
          Sums(sum, [p \in Path |-> files[p].length], Path) /\ used_bytes(files) = sum[Path]
    <3>1. \A p \in Path : files[p].length \in Nat
      BY <2>1
    <3> QED
      BY <3>1, UsedIsSum
  <2> DEFINE len == [p \in Path |-> files[p].length]
  <2>3. len \in [Path -> Nat] /\ \A p \in Path : len[p] = 0
    BY <2>1
  <2>4. Sums(sum, len, Path)
    BY <2>2
  <2> HIDE DEF len
  <2>5. sum[Path] = 0
    BY <2>3, <2>4, ZeroSum, BogFsAssumption
  <2> QED
    BY <2>2, <2>5, BogFsAssumption DEF InCapacity, writable_bogfs_used_bytes
<1> QED
  BY <1>1, <1>2, <1>3, <1>4 DEF IInv, CommittedVerifies

\* bogfs_write: a new version, whose length has_room admitted.
LEMMA WriteKeeps ==
  ASSUME IInv, NEW pid \in Pid, NEW p \in Path, NEW bytes \in Buffer, bogfs_write(pid, p, bytes)
  PROVE  IInv'
<1>1. files \in [Path -> File] /\ files[p] \in File /\ p \in Path
  BY DEF IInv, TypeOK
<1>2. files' = [files EXCEPT ![p] = committed(files[p], bytes)] /\ UNCHANGED <<last_stat, last_read>>
  BY DEF bogfs_write
<1>3. /\ committed(files[p], bytes) \in File
      /\ committed(files[p], bytes).version = files[p].version + 1
      /\ verified(committed(files[p], bytes))
  BY <1>1, CommittedFile DEF bogfs_write
<1>4. TypeOK'
  BY <1>1, <1>2, <1>3 DEF IInv, TypeOK
<1>5. CommittedVerifies'
  <2> SUFFICES ASSUME NEW q \in Path PROVE verified(files'[q])
    BY DEF CommittedVerifies, verified, Content
  <2> QED
    BY <1>1, <1>2, <1>3 DEF IInv, CommittedVerifies
<1>6. StatsCurrent'
  <2> SUFFICES ASSUME NEW i \in Pid, last_stat[i] # None
               PROVE  LET s == last_stat[i] IN
                        /\ s.version <= files'[s.path].version
                        /\ s.version = files'[s.path].version =>
                             /\ s.hash = files'[s.path].hash
                             /\ last_read[i] # None => last_read[i] = s.hash
    BY <1>2 DEF StatsCurrent
  <2> DEFINE s == last_stat[i]
  <2>1. s \in Stat
    BY DEF IInv, TypeOK
  <2>2. s.path \in Path /\ s.version \in Nat /\ files[s.path].version \in Nat
    BY <1>1, <2>1, BogFsAssumption DEF Stat, File
  <2>3. s.version <= files[s.path].version
    BY DEF IInv, StatsCurrent
  <2>4. CASE s.path = p
    <3>1. files'[p].version = files[p].version + 1
      BY <1>1, <1>2, <1>3
    <3> QED
      BY <2>2, <2>3, <2>4, <3>1
  <2>5. CASE s.path # p
    <3>1. files'[s.path] = files[s.path]
      BY <1>1, <1>2, <2>2, <2>5
    <3> QED
      BY <3>1 DEF IInv, StatsCurrent
  <2> QED
    BY <2>4, <2>5
<1>7. InCapacity'
  <2>1. \A q \in Path : files[q].length \in Nat
    BY <1>1, BogFsAssumption DEF File
  <2>2. files'[p] = committed(files[p], bytes) /\ \A q \in Path \ {p} : files'[q] = files[q]
    BY <1>1, <1>2
  <2>3. files'[p].length = Len(bytes) /\ files'[p].length \in Nat
    BY <1>3, <2>2, BogFsAssumption DEF committed, File
  <2>4. used_bytes(files') = used_bytes(files) - files[p].length + files'[p].length
    BY <2>1, <2>2, <2>3, UsedBytes
  <2>5. used_bytes(files) - files[p].length + Len(bytes) <= TOTAL_CAPACITY
    BY DEF bogfs_write, has_room, writable_bogfs_used_bytes
  <2>6. used_bytes(files') <= TOTAL_CAPACITY
    BY <2>3, <2>4, <2>5
  <2> QED
    BY <2>6 DEF InCapacity, writable_bogfs_used_bytes
<1> QED
  BY <1>4, <1>5, <1>6, <1>7 DEF IInv

\* bogfs_read changes what its process has read, and nothing else.
LEMMA ReadKeeps ==
  ASSUME IInv, NEW pid \in Pid, NEW p \in Path, bogfs_read(pid, p)
  PROVE  IInv'
<1>1. files' = files /\ last_stat' = last_stat /\ files[p] \in File /\ Content(files[p]) = files[p].hash
  BY DEF bogfs_read, IInv, TypeOK, verified
<1>2. Content(files[p]) \in Hash
  BY <1>1, ContentIsHash
<1>3. \/ last_read' = last_read
      \/ last_stat[pid] # None /\ last_stat[pid].path = p /\ last_read' = [last_read EXCEPT ![pid] = Content(files[p])]
  BY DEF bogfs_read
<1>4. TypeOK'
  BY <1>1, <1>2, <1>3 DEF IInv, TypeOK
<1>5. CommittedVerifies'
  BY <1>1 DEF IInv, CommittedVerifies, verified, Content
<1>6. StatsCurrent'
  BY <1>1, <1>3 DEF IInv, TypeOK, StatsCurrent
<1>7. InCapacity'
  BY <1>1 DEF IInv, InCapacity, writable_bogfs_used_bytes
<1> QED
  BY <1>4, <1>5, <1>6, <1>7 DEF IInv

\* bogfs_stat changes what its process was told, and nothing else.
LEMMA StatKeeps ==
  ASSUME IInv, NEW pid \in Pid, NEW p \in Path, bogfs_stat(pid, p)
  PROVE  IInv'
<1> DEFINE s == [path |-> p, version |-> files[p].version, hash |-> files[p].hash]
<1>1. /\ files' = files
      /\ last_stat' = [last_stat EXCEPT ![pid] = s]
      /\ last_read' = [last_read EXCEPT ![pid] = None]
  BY DEF bogfs_stat
<1>2. s \in Stat /\ files[p] \in File
  BY DEF IInv, TypeOK, File, Stat
<1>3. TypeOK'
  BY <1>1, <1>2 DEF IInv, TypeOK
<1>4. CommittedVerifies'
  BY <1>1 DEF IInv, CommittedVerifies, verified, Content
<1>5. StatsCurrent'
  <2> SUFFICES ASSUME NEW i \in Pid, last_stat'[i] # None
               PROVE  LET t == last_stat'[i] IN
                        /\ t.version <= files[t.path].version
                        /\ t.version = files[t.path].version =>
                             /\ t.hash = files[t.path].hash
                             /\ last_read'[i] # None => last_read'[i] = t.hash
    BY <1>1 DEF StatsCurrent
  <2>1. CASE i = pid
    <3>1. last_stat'[i] = s /\ last_read'[i] = None /\ files[p].version \in Nat
      BY <1>1, <1>2, <2>1, BogFsAssumption DEF IInv, TypeOK, File
    <3> QED
      BY <3>1
  <2>2. CASE i # pid
    <3>1. last_stat'[i] = last_stat[i] /\ last_read'[i] = last_read[i]
      BY <1>1, <2>2 DEF IInv, TypeOK
    <3> QED
      BY <3>1 DEF IInv, StatsCurrent
  <2> QED
    BY <2>1, <2>2
<1>6. InCapacity'
  BY <1>1 DEF IInv, InCapacity, writable_bogfs_used_bytes
<1> QED
  BY <1>3, <1>4, <1>5, <1>6 DEF IInv

\* Every step of the file system keeps the invariant.
LEMMA Inductive == IInv /\ [Next]_vars => IInv'
<1> SUFFICES ASSUME IInv, [Next]_vars PROVE IInv'
  OBVIOUS
<1>1. CASE UNCHANGED vars
  BY <1>1 DEF vars, IInv, TypeOK, CommittedVerifies, verified, Content, StatsCurrent,
              InCapacity, writable_bogfs_used_bytes
<1>2. CASE Next
  <2>1. PICK pid \in Pid, p \in Path :
          \/ \E bytes \in Buffer : bogfs_write(pid, p, bytes)
          \/ bogfs_read(pid, p)
          \/ bogfs_stat(pid, p)
    BY <1>2 DEF Next
  <2> QED
    BY <2>1, WriteKeeps, ReadKeeps, StatKeeps
<1> QED
  BY <1>1, <1>2

\* The invariant holds in every reachable state.
LEMMA Invariant == Spec => []IInv
  BY Initial, Inductive, PTL DEF Spec

\* The table keeps its types for any number of files, processes and versions.
THEOREM TypeCorrect == Spec => []TypeOK
<1>1. IInv => TypeOK
  BY DEF IInv
<1> QED
  BY <1>1, Invariant, PTL

\* No bogfs_read or bogfs_stat is ever refused with committed_hash_mismatch.
THEOREM AlwaysVerifies == Spec => []CommittedVerifies
<1>1. IInv => CommittedVerifies
  BY DEF IInv
<1> QED
  BY <1>1, Invariant, PTL

\* A read between two stats of one version returned the bytes the stats describe.
THEOREM VersionsIdentifyContent == Spec => []StatBracketsRead
<1>1. IInv => StatBracketsRead
  BY DEF IInv, TypeOK, StatsCurrent, StatBracketsRead
<1> QED
  BY <1>1, Invariant, PTL

\* bogfs_write never commits more than the capacity, for any number of files, and its
\* unsigned used - old + new never goes below zero.
THEOREM CapacityHolds == Spec => []CapacityKept
<1>1. ASSUME IInv PROVE CapacityKept
  <2>1. files \in [Path -> File]
    BY <1>1 DEF IInv, TypeOK
  <2>2. \A p \in Path : files[p].length \in Nat
    BY <2>1, BogFsAssumption DEF File
  <2>3. \A p \in Path : files[p].length <= used_bytes(files)
    BY <2>2, UsedBytes
  <2>4. used_bytes(files) <= TOTAL_CAPACITY
    BY <1>1 DEF IInv, InCapacity, writable_bogfs_used_bytes
  <2> QED
    BY <2>3, <2>4 DEF CapacityKept, writable_bogfs_used_bytes
<1>2. IInv => CapacityKept
  BY <1>1
<1> QED
  BY <1>2, Invariant, PTL
=============================================================================

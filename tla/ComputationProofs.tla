-------------------------- MODULE ComputationProofs -------------------------
(***************************************************************************)
(* What holds of the computations on blocks for every size: the loop of    *)
(* fastxor, the kernels of the accelerator, and the pipelined execute.     *)
(***************************************************************************)
EXTENDS FastXor, Kernels, Pipeline, FiniteSetTheorems, TLAPS

-----------------------------------------------------------------------------
(***************************************************************************)
(* FastXor.  For every number of groups, every team and every query: the   *)
(* loop stays inside the database, loses no entry, and computes the wanted *)
(* block when the team is one thread.                                      *)
(***************************************************************************)

(* Types and the critical section                                          *)

LEMMA InitTypeOK == Init => TypeOK
  BY GroupsAssumption, BlocksAssumption, FreeAssumption
  DEF Init, TypeOK, Exclusive, Iterations, Stages

LEMMA NextTypeOK == TypeOK /\ [Next]_vars => TypeOK'
<1> SUFFICES ASSUME TypeOK, [Next]_vars
             PROVE  TypeOK'
  OBVIOUS
<1> USE GroupsAssumption, FreeAssumption DEF TypeOK, Exclusive, Iterations, Stages
<1>1. CASE UNCHANGED vars
  BY <1>1 DEF vars
<1>2. ASSUME NEW i \in Iterations, Locate(i)
      PROVE  TypeOK'
  BY <1>2 DEF Locate, Move
<1>3. ASSUME NEW i \in Iterations, Load(i)
      PROVE  TypeOK'
  BY <1>3 DEF Load, Move
<1>4. ASSUME NEW i \in Iterations, Store(i)
      PROVE  TypeOK'
  BY <1>4 DEF Store, Move
<1>5. ASSUME NEW i \in Iterations, Enter(i)
      PROVE  TypeOK'
  <2>1. Delta(dest, {Entry(i)}) \in SUBSET (Int \X Values)
    BY DEF Delta, Entry
  <2> QED
    BY <1>5, <2>1 DEF Enter, Move
<1>6. ASSUME NEW i \in Iterations, Leave(i)
      PROVE  TypeOK'
  BY <1>6 DEF Leave, Move
<1> QED
  BY <1>1, <1>2, <1>3, <1>4, <1>5, <1>6 DEF Next

\* The types of the loop's variables, and that dest is in one thread's hands.
THEOREM TypeCorrect == Spec => []TypeOK
  BY InitTypeOK, NextTypeOK, PTL DEF Spec

-----------------------------------------------------------------------------
(* No access outside the database                                          *)

\* The iterations that have advanced the offset, or have tried to.
Stored == {i \in Iterations : at[i] \in {"enter", "leave", "end"}}

\* The offset never exceeds the number of stores, whoever's store is lost.
Bounded ==
  /\ offset <= Cardinality(Stored)
  /\ \A i \in Iterations : register[i] <= Cardinality(Stored)
  /\ StaysInside

LEMMA IterationsFinite ==
  /\ IsFiniteSet(Iterations)
  /\ Cardinality(Iterations) = NumGroups
<1>1. CASE NumGroups = 0
  <2>1. Iterations = {}
    BY <1>1 DEF Iterations
  <2> QED
    BY <1>1, <2>1, FS_EmptySet
<1>2. CASE NumGroups # 0
  BY <1>2, GroupsAssumption, FS_Interval DEF Iterations
<1> QED
  BY <1>1, <1>2

LEMMA StoredFinite ==
  /\ IsFiniteSet(Stored)
  /\ Cardinality(Stored) \in Nat
  /\ \A i \in Iterations \ Stored :
       Cardinality(Stored) < NumGroups
<1>1. Stored \subseteq Iterations
  BY DEF Stored
<1>2. IsFiniteSet(Stored)
  BY <1>1, IterationsFinite, FS_Subset
<1>3. Cardinality(Stored) \in Nat
  BY <1>2, FS_CardinalityType
<1>4. ASSUME NEW i \in Iterations \ Stored
      PROVE  Cardinality(Stored) < NumGroups
  <2>1. Stored # Iterations
    BY <1>4
  <2>2. /\ Cardinality(Stored) <= NumGroups
        /\ Cardinality(Stored) = NumGroups => Stored = Iterations
    BY <1>1, IterationsFinite, FS_Subset
  <2> QED
    BY <1>3, <2>1, <2>2, GroupsAssumption
<1> QED
  BY <1>2, <1>3, <1>4

LEMMA InitBounded == Init => Bounded
<1> SUFFICES ASSUME Init PROVE Bounded
  OBVIOUS
<1>1. Cardinality(Stored) >= 0
  BY StoredFinite
<1> QED
  BY <1>1 DEF Init, Bounded, StaysInside, Located

LEMMA NextBounded ==
  TypeOK /\ Bounded /\ [Next]_vars => Bounded'
<1> SUFFICES ASSUME TypeOK, Bounded, [Next]_vars
             PROVE  Bounded'
  OBVIOUS
<1> USE GroupsAssumption DEF Bounded, StaysInside, Located
<1>1. CASE UNCHANGED vars
  BY <1>1 DEF vars, Stored
<1>2. ASSUME NEW i \in Iterations, Locate(i)
      PROVE  Bounded'
  <2>1. Stored' = Stored
    BY <1>2 DEF Locate, Move, Stored, TypeOK
  <2>2. offset < NumGroups
    <3>1. i \in Iterations \ Stored
      BY <1>2 DEF Locate, Move, Stored
    <3> QED
      BY <3>1, StoredFinite DEF TypeOK
  <2> QED
    BY <1>2, <2>1, <2>2 DEF Locate, Move, TypeOK
<1>3. ASSUME NEW i \in Iterations, Load(i)
      PROVE  Bounded'
  <2>1. Stored' = Stored
    BY <1>3 DEF Load, Move, Stored, TypeOK
  <2> QED
    BY <1>3, <2>1 DEF Load, Move, TypeOK
<1>4. ASSUME NEW i \in Iterations, Store(i)
      PROVE  Bounded'
  <2>1. Stored' = Stored \cup {i} /\ i \notin Stored
    BY <1>4 DEF Store, Move, Stored, TypeOK
  <2>2. Cardinality(Stored') = Cardinality(Stored) + 1
    BY <2>1, StoredFinite, FS_AddElement
  <2>3. Cardinality(Stored) \in Nat
    BY StoredFinite
  <2> QED
    BY <1>4, <2>2, <2>3 DEF Store, Move, TypeOK
<1>5. ASSUME NEW i \in Iterations, Enter(i)
      PROVE  Bounded'
  <2>1. Stored' = Stored
    BY <1>5 DEF Enter, Move, Stored, TypeOK
  <2> QED
    BY <1>5, <2>1 DEF Enter, Move, TypeOK
<1>6. ASSUME NEW i \in Iterations, Leave(i)
      PROVE  Bounded'
  <2>1. Stored' = Stored
    BY <1>6 DEF Leave, Move, Stored, TypeOK
  <2> QED
    BY <1>6, <2>1 DEF Leave, Move, TypeOK
<1> QED
  BY <1>1, <1>2, <1>3, <1>4, <1>5, <1>6 DEF Next

\* However the updates of the offset race, data is read inside the database.
THEOREM NeverOutside == Spec => []StaysInside
<1>1. Spec => []TypeOK
  BY TypeCorrect
<1>2. Spec => []Bounded
  BY <1>1, InitBounded, NextBounded, PTL DEF Spec
<1>3. Bounded => StaysInside
  BY DEF Bounded
<1> QED
  BY <1>2, <1>3, PTL

-----------------------------------------------------------------------------
(* No entry is lost                                                        *)

\* What is about to be stored is dest as it is now, and the entry.
CopyFresh == \A i \in Iterations : at[i] = "leave" => copy[i] = Delta(dest, {Entry(i)})

LEMMA AddedFinite ==
  ASSUME NEW e
  PROVE  IsFiniteSet(Added(e)) /\ Cardinality(Added(e)) \in Nat
<1>1. Added(e) \subseteq Iterations
  BY DEF Added
<1> QED
  BY <1>1, IterationsFinite, FS_Subset, FS_CardinalityType

LEMMA InitEntries == Init => CopyFresh /\ NoEntryLost
<1> SUFFICES ASSUME Init PROVE CopyFresh /\ NoEntryLost
  OBVIOUS
<1>1. ASSUME NEW e \in Iterations \X Values
      PROVE  (e \in Delta(start, dest)) <=> (Cardinality(Added(e)) % 2 = 1)
  <2>1. Added(e) = {}
    BY DEF Added, Init
  <2>2. Cardinality(Added(e)) = 0
    BY <2>1, FS_EmptySet
  <2> QED
    BY <2>2 DEF Init, Delta
<1> QED
  BY <1>1 DEF Init, CopyFresh, NoEntryLost

LEMMA NextEntries ==
  TypeOK /\ CopyFresh /\ NoEntryLost /\ [Next]_vars
    => (CopyFresh /\ NoEntryLost)'
<1> SUFFICES ASSUME TypeOK, CopyFresh, NoEntryLost, [Next]_vars
             PROVE  CopyFresh' /\ NoEntryLost'
  OBVIOUS
<1>1. CASE UNCHANGED vars
  BY <1>1 DEF vars, CopyFresh, NoEntryLost, Added, Entry
<1>2. ASSUME NEW i \in Iterations, Locate(i) \/ Load(i) \/ Store(i)
      PROVE  CopyFresh' /\ NoEntryLost'
  <2>1. /\ UNCHANGED <<query, start, copy, dest>>
        /\ \A j \in Iterations : at'[j] \in {"leave", "end"} \/ at[j] \in {"leave", "end"}
             => at'[j] = at[j] /\ temp'[j] = temp[j]
    BY <1>2 DEF Locate, Load, Store, Move, TypeOK
  <2>2. \A e : Added(e)' = Added(e)
    BY <2>1 DEF Added, Entry
  <2> QED
    BY <2>1, <2>2 DEF CopyFresh, NoEntryLost, Entry
<1>3. ASSUME NEW i \in Iterations, Enter(i)
      PROVE  CopyFresh' /\ NoEntryLost'
  <2>1. /\ UNCHANGED <<query, start, temp, dest>>
        /\ \A j \in Iterations : at'[j] = "leave" => j = i
        /\ copy'[i] = Delta(dest, {Entry(i)})
    BY <1>3, FreeAssumption DEF Enter, Move, TypeOK, Exclusive, Iterations
  <2>2. \A e : Added(e)' = Added(e)
    BY <1>3, <2>1 DEF Enter, Move, Added, Entry, TypeOK
  <2> QED
    BY <2>1, <2>2 DEF CopyFresh, NoEntryLost, Entry
<1>4. ASSUME NEW i \in Iterations, Leave(i)
      PROVE  CopyFresh' /\ NoEntryLost'
  <2>1. /\ UNCHANGED <<query, start, temp, copy>>
        /\ at[i] = "leave" /\ at' = [at EXCEPT ![i] = "end"]
        /\ dest' = Delta(dest, {Entry(i)})
    BY <1>4 DEF Leave, Move, CopyFresh
  <2>2. \A j \in Iterations : at'[j] # "leave"
    BY <2>1 DEF TypeOK, Exclusive
  <2>3. ASSUME NEW e \in Iterations \X Values
        PROVE  (e \in Delta(start, dest)') <=> (Cardinality(Added(e)') % 2 = 1)
    <3>1. CASE e = Entry(i)
      <4>1. Added(e)' = Added(e) \cup {i} /\ i \notin Added(e)
        BY <2>1, <3>1 DEF Added, Entry, TypeOK
      <4>2. Cardinality(Added(e)') = Cardinality(Added(e)) + 1
        BY <4>1, AddedFinite, FS_AddElement
      <4>3. Cardinality(Added(e)) \in Nat
        BY AddedFinite
      <4>4. (e \in Delta(start, dest)') <=> (e \notin Delta(start, dest))
        BY <2>1, <3>1 DEF Delta
      <4>5. (e \in Delta(start, dest)) <=> (Cardinality(Added(e)) % 2 = 1)
        BY DEF NoEntryLost
      <4>6. ASSUME NEW n \in Nat
            PROVE  ((n + 1) % 2 = 1) <=> (n % 2 # 1)
        OBVIOUS
      <4> QED
        BY <4>2, <4>3, <4>4, <4>5, <4>6
    <3>2. CASE e # Entry(i)
      <4>1. Added(e)' = Added(e)
        BY <2>1, <3>2 DEF Added, Entry, TypeOK
      <4>2. (e \in Delta(start, dest)') <=> (e \in Delta(start, dest))
        BY <2>1, <3>2 DEF Delta
      <4> QED
        BY <4>1, <4>2 DEF NoEntryLost
    <3> QED
      BY <3>1, <3>2
  <2> QED
    BY <2>2, <2>3 DEF CopyFresh, NoEntryLost
<1> QED
  BY <1>1, <1>2, <1>3, <1>4 DEF Next

\* The result is the start with every located entry added, whatever the race.
THEOREM EntriesKept == Spec => []NoEntryLost
<1>1. Spec => [](TypeOK /\ CopyFresh /\ NoEntryLost)
  BY InitTypeOK, NextTypeOK, InitEntries, NextEntries, PTL DEF Spec
<1> QED
  BY <1>1, PTL

-----------------------------------------------------------------------------
(* One thread computes the wanted block                                    *)

\* The thread is at iteration k: it is through with those before.
AtIteration(k) ==
  /\ \A i \in Iterations : /\ i < k => at[i] = "end"
                           /\ k < i => at[i] = "wait"
                           /\ i = k => at[i] # "end"
  /\ offset = IF k \in Stored THEN k + 1 ELSE k
  /\ dest = Delta(start, Wanted(k))
  /\ k \in Iterations =>
       /\ Located(k) => temp[k] = k
       /\ at[k] = "store" => register[k] = k

Sequential == Alone => \E k \in 0 .. NumGroups : AtIteration(k)

LEMMA InitSequential == Init => Sequential
<1> SUFFICES ASSUME Init PROVE AtIteration(0)
  BY GroupsAssumption DEF Sequential
<1>1. Wanted(0) = {}
  BY DEF Wanted
<1> QED
  BY <1>1 DEF Init, AtIteration, Stored, Located, Delta, Iterations

LEMMA WantedNext ==
  ASSUME NEW k \in Nat
  PROVE  Delta(Delta(start, Wanted(k)), {<<k, query[k]>>}) = Delta(start, Wanted(k + 1))
<1>1. <<k, query[k]>> \notin Wanted(k)
  BY DEF Wanted
<1>2. 0 .. (k + 1) - 1 = (0 .. k - 1) \cup {k}
  OBVIOUS
<1>3. Wanted(k + 1) = Wanted(k) \cup {<<k, query[k]>>}
  BY <1>2 DEF Wanted
<1> QED
  BY <1>1, <1>3 DEF Delta

LEMMA NextSequential ==
  TypeOK /\ CopyFresh /\ Sequential /\ [Next]_vars => Sequential'
<1> SUFFICES ASSUME TypeOK, CopyFresh, Sequential, [Next]_vars, Alone'
             PROVE  \E k \in 0 .. NumGroups : AtIteration(k)'
  BY DEF Sequential
<1>1. UNCHANGED <<query, start, thread>>
  BY DEF Next, vars, Locate, Load, Store, Enter, Leave
<1>2. Alone
  BY <1>1 DEF Alone
<1>3. PICK k \in 0 .. NumGroups : AtIteration(k)
  BY <1>2 DEF Sequential
<1>4. Wanted(k)' = Wanted(k)
  BY <1>1 DEF Wanted
<1>5. CASE UNCHANGED vars
  BY <1>3, <1>4, <1>5 DEF vars, AtIteration, Stored, Located
<1>6. ASSUME NEW i \in Iterations, Locate(i)
      PROVE  AtIteration(k)'
  <2>1. i = k
    <3>1. at[i] = "wait" /\ \A j \in 0 .. i - 1 : at[j] = "end"
      BY <1>2, <1>6, GroupsAssumption DEF Locate, Move, MyTurn, Alone, Iterations
    <3>2. ~ i < k
      BY <1>3, <3>1 DEF AtIteration
    <3>3. ~ k < i
      <4>1. ASSUME k < i
            PROVE  k \in Iterations /\ k \in 0 .. i - 1
        BY <4>1, GroupsAssumption DEF Iterations
      <4> QED
        BY <1>3, <3>1, <4>1 DEF AtIteration
    <3> QED
      BY <3>2, <3>3, GroupsAssumption DEF Iterations
  <2>2. Stored' = Stored /\ k \notin Stored
    BY <1>6, <2>1 DEF Locate, Move, Stored, TypeOK
  <2> QED
    BY <1>3, <1>4, <1>6, <2>1, <2>2 DEF Locate, Move, AtIteration, Located, TypeOK
<1>7. ASSUME NEW i \in Iterations, at[i] \notin {"wait", "end"}
      PROVE  i = k
  BY <1>3, <1>7, GroupsAssumption DEF AtIteration, Iterations
<1>8. ASSUME NEW i \in Iterations, Load(i)
      PROVE  AtIteration(k)'
  <2>1. i = k
    BY <1>7, <1>8 DEF Load, Move
  <2>2. Stored' = Stored /\ k \notin Stored
    BY <1>8, <2>1 DEF Load, Move, Stored, TypeOK
  <2> QED
    BY <1>3, <1>4, <1>8, <2>1, <2>2 DEF Load, Move, AtIteration, Located, TypeOK
<1>9. ASSUME NEW i \in Iterations, Store(i)
      PROVE  AtIteration(k)'
  <2>1. i = k
    BY <1>7, <1>9 DEF Store, Move
  <2>2. k \in Stored'
    BY <1>9, <2>1 DEF Store, Move, Stored, TypeOK
  <2> QED
    BY <1>3, <1>4, <1>9, <2>1, <2>2 DEF Store, Move, AtIteration, Located, TypeOK
<1>10. ASSUME NEW i \in Iterations, Enter(i)
       PROVE  AtIteration(k)'
  <2>1. i = k
    BY <1>7, <1>10 DEF Enter, Move
  <2>2. Stored' = Stored
    BY <1>10 DEF Enter, Move, Stored, TypeOK
  <2> QED
    BY <1>3, <1>4, <1>10, <2>1, <2>2 DEF Enter, Move, AtIteration, Located, TypeOK
<1>11. ASSUME NEW i \in Iterations, Leave(i)
       PROVE  k + 1 \in 0 .. NumGroups /\ AtIteration(k + 1)'
  <2>1. i = k
    BY <1>7, <1>11 DEF Leave, Move
  <2>2. dest' = Delta(start, Wanted(k + 1))'
    <3>1. Entry(k) = <<k, query[k]>>
      BY <1>3, <1>11, <2>1 DEF Leave, Move, AtIteration, Entry, Located
    <3>2. dest' = Delta(dest, {<<k, query[k]>>})
      BY <1>11, <2>1, <3>1 DEF Leave, Move, CopyFresh
    <3>3. dest = Delta(start, Wanted(k))
      BY <1>3 DEF AtIteration
    <3>4. dest' = Delta(start, Wanted(k + 1))
      BY <3>2, <3>3, WantedNext
    <3>5. Wanted(k + 1)' = Wanted(k + 1)
      BY <1>1 DEF Wanted
    <3> QED
      BY <1>1, <3>4, <3>5 DEF Delta
  <2>3. k + 1 \in 0 .. NumGroups
    BY <2>1, GroupsAssumption DEF Iterations
  <2>4. offset' = k + 1
    BY <1>3, <1>11, <2>1 DEF Leave, Move, AtIteration, Stored
  <2>5. ASSUME NEW j \in Iterations
        PROVE  /\ j < k + 1 => at'[j] = "end"
               /\ k + 1 < j => at'[j] = "wait"
               /\ j = k + 1 => at'[j] = "wait"
    BY <1>3, <1>11, <2>1 DEF Leave, Move, AtIteration, TypeOK, Iterations
  <2>6. k + 1 \notin Stored'
    BY <2>5 DEF Stored
  <2> QED
    BY <2>2, <2>3, <2>4, <2>5, <2>6 DEF AtIteration, Located
<1> QED
  BY <1>5, <1>6, <1>8, <1>9, <1>10, <1>11 DEF Next

LEMMA SequentialExact == TypeOK /\ Sequential => AloneExact
<1> SUFFICES ASSUME Sequential, Alone, Finished
             PROVE  dest = Delta(start, Wanted(NumGroups))
  BY DEF AloneExact
<1>1. PICK k \in 0 .. NumGroups : AtIteration(k)
  BY DEF Sequential
<1>2. k = NumGroups
  BY <1>1, GroupsAssumption DEF AtIteration, Finished, Iterations
<1> QED
  BY <1>1, <1>2 DEF AtIteration

\* Run by one thread, fastxor adds exactly the entries the query selects.
THEOREM ExactAlone == Spec => []AloneExact
<1>1. Spec => [](TypeOK /\ CopyFresh /\ NoEntryLost)
  BY InitTypeOK, NextTypeOK, InitEntries, NextEntries, PTL DEF Spec
<1>2. Spec => []Sequential
  BY <1>1, InitSequential, NextSequential, PTL DEF Spec
<1> QED
  BY <1>1, <1>2, SequentialExact, PTL

-----------------------------------------------------------------------------
(***************************************************************************)
(* Kernels.  The quotients of the index arithmetic, for every gpu, every   *)
(* size of a block and of a query, and every batch.                        *)
(***************************************************************************)

\* Every gpu and every size of a block.
Gpu == {g \in [words : Nat \ {0}, limit : Nat \ {0}, total : Nat \ {0}] :
          g.limit <= g.total}

(* Quotient and remainder. *)
LEMMA Division ==
  ASSUME NEW a \in Nat, NEW b \in Nat \ {0}
  PROVE  /\ a \div b \in Nat /\ a % b \in Nat
         /\ a % b < b
         /\ a = b * (a \div b) + (a % b)
OBVIOUS

(* Two multiples of b are at least b apart. *)
LEMMA Apart ==
  ASSUME NEW b \in Nat \ {0}, NEW i \in Nat, NEW j \in Nat, i < j
  PROVE  b * i + b <= b * j
<1>1. j = i + 1 + (j - i - 1) /\ j - i - 1 \in Nat
  OBVIOUS
<1>2. b * (j - i - 1) >= 0
  BY <1>1
<1>3. b * j = b * i + b + b * (j - i - 1)
  BY <1>1
<1> QED
  BY <1>2, <1>3

(* They decide the quotient. *)
LEMMA OneQuotient ==
  ASSUME NEW b \in Nat \ {0}, NEW i \in Nat, NEW a \in Nat,
         b * i <= a, a < b * i + b
  PROVE  a \div b = i /\ a % b = a - b * i
<1> DEFINE q == a \div b
<1>1. q \in Nat /\ b * q <= a /\ a < b * q + b
  BY Division
<1> HIDE DEF q
<1>2. ~(i < q)
  <2>1. SUFFICES ASSUME i < q
                 PROVE  FALSE
    OBVIOUS
  <2>2. b * i + b <= b * q
    BY <1>1, <2>1, Apart
  <2>3. b * i \in Int /\ b * q \in Int
    BY <1>1
  <2> QED
    BY <1>1, <2>2, <2>3
<1>3. ~(q < i)
  <2>1. SUFFICES ASSUME q < i
                 PROVE  FALSE
    OBVIOUS
  <2>2. b * q + b <= b * i
    BY <1>1, <2>1, Apart
  <2>3. b * i \in Int /\ b * q \in Int
    BY <1>1
  <2> QED
    BY <1>1, <2>2, <2>3
<1>4. q = i
  BY <1>1, <1>2, <1>3
<1> QED
  BY <1>4, Division DEF q

(* A kernel has threads, and at least two blocks run at once. *)
LEMMA ThreadsAndBlocks ==
  ASSUME NEW g \in Gpu
  PROVE  /\ g.words \in Nat \ {0} /\ g.limit \in Nat \ {0}
         /\ CudaThreads(g) \in Nat \ {0}
         /\ CudaBlocks(g) \in Nat \ {0}
<1>1. /\ g.words \in Nat \ {0} /\ g.limit \in Nat \ {0} /\ g.total \in Nat \ {0}
      /\ g.limit <= g.total
  BY DEF Gpu
<1>2. CudaThreads(g) \in Nat \ {0} /\ CudaThreads(g) <= g.total
  BY <1>1 DEF CudaThreads
<1> DEFINE t == CudaThreads(g)
           n == g.total
           q == n \div t
           r == n % t
<1>3. t \in Nat \ {0} /\ n \in Nat /\ t <= n
  BY <1>1, <1>2
<1> HIDE DEF t, n
<1>4. q \in Nat /\ r \in Nat /\ r < t /\ n = t * q + r
  BY <1>3, Division
<1> HIDE DEF q, r
<1>5. n < t * q + t
  BY <1>3, <1>4
<1>6. q > 0
  <2>1. SUFFICES ASSUME q = 0
                 PROVE  FALSE
    BY <1>4
  <2>2. t * q = 0
    BY <1>3, <2>1
  <2> QED
    BY <1>3, <1>5, <2>2
<1>7. CudaBlocks(g) = q * 2
  BY DEF CudaBlocks, q, n, t
<1> QED
  BY <1>1, <1>2, <1>6, <1>7, <1>4

-----------------------------------------------------------------------------
(* The batches of compute                                                  *)

(* The round and the block of the kernel that compute a seed. *)
LEMMA SeedOnce ==
  ASSUME NEW g \in Gpu, NEW count \in Nat, NEW s \in 0 .. count - 1
  PROVE  LET b == s % CudaBlocks(g)
         IN  /\ s - b \in Rounds(g, count)
             /\ b \in 0 .. CudaBlocks(g) - 1
             /\ Computes(g, count, s) = {<<s - b, b>>}
<1> DEFINE B == CudaBlocks(g)
           q == s \div B
           b == s % B
<1>1. B \in Nat \ {0} /\ s \in Nat /\ s < count
  BY ThreadsAndBlocks
<1>2. q \in Nat /\ b \in Nat /\ b < B /\ s = B * q + b
  BY <1>1, Division
<1> HIDE DEF B, q, b
<1>3. B * q \in Nat /\ s - b = B * q /\ B * q < B * q + B
  BY <1>1, <1>2
<1>4. (s - b) % B = 0
  <2>1. (B * q) % B = (B * q) - B * q
    BY <1>1, <1>2, <1>3, OneQuotient
  <2> QED
    BY <1>3, <2>1
<1>5. s - b \in Rounds(g, count)
  BY <1>1, <1>2, <1>3, <1>4 DEF Rounds, B
<1>6. b \in 0 .. B - 1
  BY <1>1, <1>2
<1>7. b < Launched(g, count, s - b)
  BY <1>1, <1>2, <1>3 DEF Launched, B
<1>8. ASSUME NEW p \in Rounds(g, count) \X (0 .. B - 1), p[1] + p[2] = s
      PROVE  p = <<s - b, b>>
  <2>1. /\ p = <<p[1], p[2]>> /\ p[1] \in Nat /\ p[1] % B = 0
        /\ p[2] \in Nat /\ p[2] < B
    BY <1>1 DEF Rounds, B
  <2> DEFINE i == p[1] \div B
  <2>2. i \in Nat /\ p[1] = B * i + (p[1] % B)
    BY <1>1, <2>1, Division
  <2> HIDE DEF i
  <2>3. p[1] = B * i /\ B * i \in Nat
    BY <1>1, <2>1, <2>2
  <2>4. B * i <= s /\ s < B * i + B
    BY <1>1, <1>8, <2>1, <2>3
  <2>5. b = s - B * i
    BY <1>1, <2>2, <2>4, OneQuotient DEF b
  <2>6. p[1] = s - b /\ p[2] = b
    BY <1>1, <1>8, <2>1, <2>3, <2>5
  <2> QED
    BY <2>1, <2>6
<1>9. Computes(g, count, s) = {<<s - b, b>>}
  <2>1. ASSUME NEW p, p \in Computes(g, count, s)
        PROVE  p = <<s - b, b>>
    <3>1. p \in Rounds(g, count) \X (0 .. B - 1) /\ p[1] + p[2] = s
      BY <2>1 DEF Computes, B
    <3> QED
      BY <1>8, <3>1
  <2>2. <<s - b, b>> \in Computes(g, count, s)
    <3>1. /\ <<s - b, b>> \in Rounds(g, count) \X (0 .. CudaBlocks(g) - 1)
          /\ (s - b) + b = s
      BY <1>1, <1>2, <1>5, <1>6 DEF B
    <3> QED
      BY <1>7, <3>1 DEF Computes
  <2> QED
    BY <2>1, <2>2
<1> QED
  BY <1>5, <1>6, <1>9 DEF b, B

(* Where the bytes a seed is computed from are in the batch. *)
LEMMA QueryOfSeed ==
  ASSUME NEW g \in Gpu, NEW groups \in Nat \ {0}, NEW count \in Nat,
         NEW s \in 0 .. count - 1
  PROVE  \E j \in Rounds(g, count), bid \in 0 .. CudaBlocks(g) - 1 :
           /\ Computes(g, count, s) = {<<j, bid>>}
           /\ DataIndex(g, groups, j, bid) + groups <= groups * count
           /\ (DataIndex(g, groups, j, bid) = s * groups)
                <=> (s < CudaBlocks(g) \/ groups = 1)
<1> DEFINE B == CudaBlocks(g)
           b == s % B
           j == s - b
<1>1. /\ j \in Rounds(g, count) /\ b \in 0 .. B - 1
      /\ Computes(g, count, s) = {<<j, b>>}
  BY SeedOnce
<1>2. /\ B \in Nat \ {0} /\ s \in Nat /\ s < count /\ b \in Nat /\ b < B
      /\ j \in Nat /\ s = j + b
  <2>1. B \in Nat \ {0} /\ s \in Nat /\ s < count
    BY ThreadsAndBlocks
  <2>2. j \in 0 .. count - 1
    BY <1>1 DEF Rounds
  <2> QED
    BY <1>1, <2>1, <2>2
<1>3. j = 0 <=> s < B
  <2>1. CASE s < B
    <3>1. B * 0 = 0
      BY <1>2
    <3>2. s % B = s - B * 0
      BY <1>2, <2>1, <3>1, OneQuotient
    <3> QED
      BY <1>2, <2>1, <3>1, <3>2
  <2>2. CASE ~(s < B)
    BY <1>2, <2>2
  <2> QED
    BY <2>1, <2>2
<1> HIDE DEF B, b, j
<1>4. DataIndex(g, groups, j, b) = j + b * groups
  BY DEF DataIndex
<1>5. /\ s * groups = j * groups + b * groups
      /\ (s + 1) * groups = s * groups + groups
      /\ j * groups \in Nat /\ b * groups \in Nat
  BY <1>2
<1>6. j <= j * groups /\ (j = j * groups <=> (j = 0 \/ groups = 1))
  <2>1. CASE j = 0 \/ groups = 1
    BY <1>2, <2>1
  <2>2. CASE j > 0 /\ groups > 1
    <3>1. j * groups = j + j * (groups - 1) /\ j * (groups - 1) > 0
      BY <1>2, <2>2
    <3> QED
      BY <1>2, <2>2, <3>1
  <2> QED
    BY <1>2, <2>1, <2>2
<1>7. (s + 1) * groups <= groups * count
  <2>1. CASE s + 1 = count
    BY <1>2, <2>1
  <2>2. CASE s + 1 < count
    <3>1. groups * (s + 1) + groups <= groups * count
      BY <1>2, <2>2, Apart
    <3> QED
      BY <1>2, <3>1
  <2> QED
    BY <1>2, <2>1, <2>2
<1>8. DataIndex(g, groups, j, b) + groups <= groups * count
  BY <1>2, <1>4, <1>5, <1>6, <1>7
<1>9. DataIndex(g, groups, j, b) = s * groups <=> (s < B \/ groups = 1)
  <2>1. DataIndex(g, groups, j, b) = s * groups <=> j = j * groups
    BY <1>2, <1>4, <1>5
  <2> QED
    BY <1>3, <1>6, <2>1
<1> QED
  BY <1>1, <1>8, <1>9 DEF B

(***************************************************************************)
(* Whatever the gpu, the size of a query and of a batch: every seed is     *)
(* computed once and no byte outside the batch is read; and every seed is  *)
(* computed from its own query, what the loop over all seeds is for,       *)
(* exactly if the batch has one round or a query one byte.                 *)
(***************************************************************************)
THEOREM EveryBatchExact ==
  ASSUME NEW g \in Gpu, NEW groups \in Nat \ {0}, NEW count \in Nat
  PROVE  /\ BatchExact(g, groups, count)
         /\ OwnQueries(g, groups, count) <=> (count <= CudaBlocks(g) \/ groups = 1)
<1>1. ASSUME NEW s \in 0 .. count - 1
      PROVE  \E j \in Rounds(g, count), bid \in 0 .. CudaBlocks(g) - 1 :
               /\ Computes(g, count, s) = {<<j, bid>>}
               /\ DataIndex(g, groups, j, bid) + groups <= groups * count
               /\ (DataIndex(g, groups, j, bid) = s * groups)
                    <=> (s < CudaBlocks(g) \/ groups = 1)
  BY QueryOfSeed
<1>2. BatchExact(g, groups, count)
  BY <1>1 DEF BatchExact
<1>3. ASSUME NEW s \in 0 .. count - 1
      PROVE  (\A p \in Computes(g, count, s) : DataIndex(g, groups, p[1], p[2]) = s * groups)
               <=> (s < CudaBlocks(g) \/ groups = 1)
  <2>1. PICK j \in Rounds(g, count), bid \in 0 .. CudaBlocks(g) - 1 :
               /\ Computes(g, count, s) = {<<j, bid>>}
               /\ (DataIndex(g, groups, j, bid) = s * groups)
                    <=> (s < CudaBlocks(g) \/ groups = 1)
    BY <1>1
  <2> QED
    BY <2>1
<1>4. OwnQueries(g, groups, count)
        <=> \A s \in 0 .. count - 1 : s < CudaBlocks(g) \/ groups = 1
  BY <1>3 DEF OwnQueries
<1>5. CudaBlocks(g) \in Nat \ {0}
  BY ThreadsAndBlocks
<1>6. (\A s \in 0 .. count - 1 : s < CudaBlocks(g)) <=> count <= CudaBlocks(g)
  <2>1. ASSUME \A s \in 0 .. count - 1 : s < CudaBlocks(g), count > CudaBlocks(g)
        PROVE  FALSE
    <3>1. CudaBlocks(g) \in 0 .. count - 1
      BY <1>5, <2>1
    <3> QED
      BY <1>5, <2>1, <3>1
  <2> QED
    BY <1>5, <2>1
<1> QED
  BY <1>2, <1>4, <1>6

-----------------------------------------------------------------------------
(* The words of a kernel                                                   *)

(* A block of fewer words than a kernel has threads: a thread a word. *)
LEMMA SmallWriters ==
  ASSUME NEW g \in Gpu, g.words < g.limit, NEW w \in Nat
  PROVE  Writers(g, w) = IF w < g.words THEN {w} ELSE {}
<1>1. g.words \in Nat \ {0} /\ g.limit \in Nat \ {0} /\ ~(g.words >= g.limit)
  BY ThreadsAndBlocks
<1>2. /\ CudaThreads(g) = g.words /\ ElementsPerThread(g) = 1
      /\ \A tid : ThreadOffset(g, tid) = tid
  BY <1>1 DEF CudaThreads, ElementsPerThread, ThreadOffset
<1> QED
  BY <1>1, <1>2 DEF Writers

(* A block of q words for each thread: every thread takes 2 q words.       *)
LEMMA LargeWriters ==
  ASSUME NEW g \in Gpu, NEW q \in Nat \ {0}, g.words = g.limit * q,
         NEW w \in 0 .. g.words - 1
  PROVE  Writers(g, w) = {w \div (q * 2)}
<1> DEFINE L == g.limit
           e == q * 2
           k == w \div e
           m == w % e
<1>1. /\ L \in Nat \ {0} /\ g.words = L * q /\ g.words \in Nat /\ w \in Nat
      /\ w < L * q /\ L * q \in Nat
  BY ThreadsAndBlocks
<1>2. e \in Nat \ {0} /\ e = q * 2
  OBVIOUS
<1>3. g.words >= g.limit
  <2>1. L * q = L + L * (q - 1) /\ L * (q - 1) >= 0
    BY <1>1
  <2> QED
    BY <1>1, <2>1
<1>4. CudaThreads(g) = L
  BY <1>3 DEF CudaThreads
<1> HIDE DEF L, e, k, m
<1>5. ElementsPerThread(g) = e
  <2>1. (L * q) \div L = q
    BY <1>1, OneQuotient
  <2> QED
    BY <1>1, <1>2, <1>3, <2>1 DEF ElementsPerThread, L
<1>6. ASSUME NEW tid \in 0 .. L - 1
      PROVE  ThreadOffset(g, tid) = e * tid
  <2>1. tid \in Nat /\ tid * q \in Nat /\ tid * (L * q) = L * (tid * q)
    BY <1>1
  <2>2. L * (tid * q) \in Nat /\ L * (tid * q) < L * (tid * q) + L
    BY <1>1, <2>1
  <2>3. (L * (tid * q)) \div L = tid * q
    BY <1>1, <2>1, <2>2, OneQuotient
  <2>4. ThreadOffset(g, tid) = (tid * q) * 2
    BY <1>1, <1>3, <2>1, <2>3 DEF ThreadOffset, L
  <2> QED
    BY <1>2, <2>1, <2>4
<1>7. k \in Nat /\ m \in Nat /\ m < e /\ w = e * k + m
  BY <1>1, <1>2, Division DEF k, m
<1>8. k \in 0 .. L - 1
  <2>1. SUFFICES ASSUME k >= L
                 PROVE  FALSE
    BY <1>1, <1>7
  <2>2. e * k = e * L + e * (k - L) /\ e * (k - L) >= 0 /\ e * L = 2 * (L * q)
    BY <1>1, <1>2, <1>7, <2>1
  <2> QED
    BY <1>1, <1>2, <1>7, <2>2
<1>9. ASSUME NEW tid \in 0 .. L - 1
      PROVE  w \in ThreadOffset(g, tid)
                     .. ThreadOffset(g, tid) + ElementsPerThread(g) - 1
               <=> tid = k
  <2>1. tid \in Nat /\ e * tid \in Nat
    BY <1>1, <1>2
  <2>2. /\ ThreadOffset(g, tid) = e * tid /\ ElementsPerThread(g) = e
    BY <1>5, <1>6
  <2>3. ASSUME e * tid <= w, w < e * tid + e
        PROVE  tid = k
    BY <1>1, <1>2, <2>1, <2>3, OneQuotient DEF k
  <2>4. e * k <= w /\ w < e * k + e
    BY <1>2, <1>7
  <2> QED
    BY <1>1, <1>2, <2>1, <2>2, <2>3, <2>4
<1> QED
  BY <1>4, <1>8, <1>9 DEF Writers, k, e

(* The last thread of a large block writes behind it. *)
LEMMA LargeWritesBehind ==
  ASSUME NEW g \in Gpu, g.words >= g.limit
  PROVE  WritesBehind(g)
<1> DEFINE L == g.limit
           W == g.words
           q == W \div L
           r == W % L
           d == ((L - 1) * W) \div L
           e == q * 2
           w == d * 2 + e - 1
<1>1. L \in Nat \ {0} /\ W \in Nat \ {0} /\ W >= L
  BY ThreadsAndBlocks
<1>2. /\ CudaThreads(g) = L /\ ElementsPerThread(g) = e
      /\ ThreadOffset(g, L - 1) = d * 2
  BY DEF CudaThreads, ElementsPerThread, ThreadOffset
<1> HIDE DEF L, W, q, r, d, e, w
<1>3. q \in Nat /\ r \in Nat /\ r < L /\ W = L * q + r
  BY <1>1, Division DEF q, r
<1>4. q > 0
  <2>1. SUFFICES ASSUME q = 0
                 PROVE  FALSE
    BY <1>3
  <2>2. L * q = 0
    BY <1>1, <2>1
  <2> QED
    BY <1>1, <1>3, <2>2
<1>5. (L - 1) * q \in Nat /\ (L - 1) * W \in Nat /\ (L - 1) * q + q = L * q
  BY <1>1, <1>3
<1>6. \/ r = 0 /\ d + q = W
      \/ r > 0 /\ d + q = W - 1
  <2>1. CASE r = 0
    <3> DEFINE i == (L - 1) * q
    <3>1. (L - 1) * W = L * i
      BY <1>1, <1>3, <2>1
    <3>2. i \in Nat
      BY <1>5
    <3> HIDE DEF i
    <3>3. L * i \in Nat
      BY <1>1, <3>2
    <3>4. L * i <= (L - 1) * W /\ (L - 1) * W < L * i + L
      BY <1>1, <3>1, <3>3
    <3>5. d = i
      BY <1>1, <1>5, <3>2, <3>4, OneQuotient DEF d
    <3> QED
      BY <1>1, <1>3, <1>5, <2>1, <3>5 DEF i
  <2>2. CASE r > 0
    <3> DEFINE i == (L - 1) * q + r - 1
    <3>1. i \in Nat
      BY <1>3, <1>5, <2>2
    <3>2. (L - 1) * W = L * i + (L - r)
      <4>1. (L - 1) * W = L * ((L - 1) * q) + (L - 1) * r
        BY <1>1, <1>3
      <4>2. L * i = L * ((L - 1) * q) + L * r - L
        BY <1>1, <1>3, <1>5
      <4>3. (L - 1) * r = L * r - r
        BY <1>1, <1>3
      <4> QED
        BY <1>1, <1>3, <1>5, <4>1, <4>2, <4>3
    <3> HIDE DEF i
    <3>3. d = i
      <4>1. L * i \in Nat
        BY <1>1, <3>1
      <4>2. L * i <= (L - 1) * W /\ (L - 1) * W < L * i + L
        BY <1>1, <1>3, <2>2, <3>2, <4>1
      <4> QED
        BY <1>1, <1>5, <3>1, <4>2, OneQuotient DEF d
    <3> QED
      BY <1>1, <1>3, <1>5, <2>2, <3>3 DEF i
  <2> QED
    BY <1>3, <2>1, <2>2
<1>7. d \in Nat /\ e = q * 2 /\ w = d * 2 + e - 1
  <2>1. d \in Nat
    BY <1>1, <1>5, Division DEF d
  <2> QED
    BY <2>1 DEF e, w
<1>8. w \in Nat /\ w >= W /\ w <= 3 * W + e
  <2>1. CASE r = 0
    BY <1>1, <1>3, <1>4, <1>6, <1>7, <2>1
  <2>2. CASE r > 0
    <3>1. L >= 2
      BY <1>1, <1>3, <2>2
    <3>2. W >= 3
      <4>1. L * q = L + L * (q - 1) /\ L * (q - 1) >= 0
        BY <1>1, <1>3, <1>4
      <4> QED
        BY <1>1, <1>3, <2>2, <3>1, <4>1
    <3> QED
      BY <1>1, <1>3, <1>4, <1>6, <1>7, <2>2, <3>2
  <2> QED
    BY <1>3, <2>1, <2>2
<1>9. w \in WordsNear(g)
  BY <1>1, <1>2, <1>3, <1>7, <1>8 DEF WordsNear, W
<1>10. L - 1 \in Writers(g, w)
  BY <1>1, <1>2, <1>3, <1>4, <1>7 DEF Writers
<1> QED
  BY <1>8, <1>9, <1>10 DEF W, WritesBehind

(***************************************************************************)
(* Whatever the gpu and the size of a block: when the block has fewer      *)
(* words than a kernel has threads, or a multiple of them, every word is   *)
(* computed by one thread; and a kernel writes behind the block exactly if *)
(* the block has as many words as a kernel has threads, or more.  Such     *)
(* blocks are multiples of 1024 bytes, for which no adjustment should be   *)
(* needed (parameters.h, lines 47-48; 4096 is in its lines 53-75).         *)
(***************************************************************************)
THEOREM EveryKernelFillsBlock ==
  ASSUME NEW g \in Gpu
  PROVE  KernelFillsBlock(g) /\ (WritesBehind(g) <=> g.words >= g.limit)
<1>1. g.words \in Nat \ {0} /\ g.limit \in Nat \ {0}
  BY ThreadsAndBlocks
<1>2. CASE g.words < g.limit
  <2>1. ASSUME NEW w \in 0 .. g.words - 1
        PROVE  \E tid \in Writers(g, w) : Writers(g, w) = {tid}
    <3>1. w \in Nat /\ w < g.words
      BY <1>1
    <3> QED
      BY <1>2, <3>1, SmallWriters
  <2>2. ASSUME NEW w \in WordsNear(g), w >= g.words
        PROVE  Writers(g, w) = {}
    <3>1. w \in Nat /\ ~(w < g.words)
      BY <1>1, <2>2 DEF WordsNear
    <3> QED
      BY <1>2, <3>1, SmallWriters
  <2>3. ~ WritesBehind(g)
    BY <2>2 DEF WritesBehind
  <2>4. ~(g.words >= g.limit)
    BY <1>1, <1>2
  <2> QED
    BY <2>1, <2>3, <2>4 DEF KernelFillsBlock
<1>3. CASE g.words >= g.limit
  <2> DEFINE q == g.words \div g.limit
  <2>1. ASSUME g.words % g.limit = 0, NEW w \in 0 .. g.words - 1
        PROVE  \E tid \in Writers(g, w) : Writers(g, w) = {tid}
    <3>1. q \in Nat /\ g.words = g.limit * q + (g.words % g.limit)
      BY <1>1, Division
    <3> HIDE DEF q
    <3>2. g.words = g.limit * q
      BY <1>1, <2>1, <3>1
    <3>3. q # 0
      <4>1. g.limit * 0 = 0
        BY <1>1
      <4> QED
        BY <1>1, <3>2, <4>1
    <3>4. Writers(g, w) = {w \div (q * 2)}
      BY <3>1, <3>2, <3>3, LargeWriters
    <3> QED
      BY <3>4
  <2>2. WritesBehind(g)
    BY <1>3, LargeWritesBehind
  <2>3. ~(g.words < g.limit)
    BY <1>1, <1>3
  <2> QED
    BY <1>3, <2>1, <2>2, <2>3 DEF KernelFillsBlock
<1> QED
  BY <1>1, <1>2, <1>3

-----------------------------------------------------------------------------
(***************************************************************************)
(* Pipeline.  The answer of a pipelined query is exact, for every size of  *)
(* the query and of its chunks.                                            *)
(***************************************************************************)

PipelineTypeOK ==
  /\ sent \in Nat /\ hungUp \in BOOLEAN
  /\ reader \in {"read", "load", "store", "join", "end"}
  /\ received \in Nat /\ position \in Nat /\ loaded \in Nat /\ available \in Nat
  /\ complete \in BOOLEAN
  /\ executor \in {"begin", "clear", "test", "look", "add", "rest", "end", "crashed"}
  /\ current \in Nat
  /\ overtaken \in BOOLEAN /\ mixed \in BOOLEAN

\* The reader is within the query, and behind it once it has left its loop.
WithinQuery ==
  /\ received <= QuerySize
  /\ reader \in {"load", "store"} => received < QuerySize
  /\ reader \in {"join", "end"} => received = QuerySize

\* What execute has learnt since it reset querySent.
Announced ==
  /\ executor # "begin" /\ complete => reader \in {"join", "end"}
  /\ executor \in {"rest", "end", "crashed"} => complete
  /\ executor \in {"begin", "clear"} => ~mixed

\* The counter never runs ahead of the bytes once execute has reset it.
CounterBehind ==
  executor \notin {"begin", "clear"} /\ ~mixed =>
    /\ available <= received
    /\ reader = "store" => loaded <= received

\* execute is never ahead of the bytes either.
ExecutorBehind ==
  ~mixed => /\ current <= received
            /\ executor = "add" => current < received
            /\ executor # "crashed"

Entries(n) == {EntryOf(g) : g \in 0 .. n - 1}

AddedInPlace == ~mixed => answer = Entries(IF executor = "end" THEN QuerySize ELSE current)

AnswerInv ==
  /\ PipelineTypeOK /\ WithinQuery /\ Announced
  /\ CounterBehind /\ ExecutorBehind /\ AddedInPlace

-----------------------------------------------------------------------------
(***************************************************************************)
(* A chunk is not empty and ends within the query.                         *)
(***************************************************************************)
LEMMA ChunkWithin ==
  ASSUME NEW n \in Nat, n < QuerySize
  PROVE  NextChunk(n) \in Nat \ {0} /\ n + NextChunk(n) <= QuerySize
BY QuerySizeAssumption, ChunkSizeAssumption DEF NextChunk

(***************************************************************************)
(* The invariant holds when conHandler::start begins to read the query.    *)
(***************************************************************************)
LEMMA AnswerInvInit == PipelineInit => AnswerInv
<1> SUFFICES ASSUME PipelineInit PROVE AnswerInv
  OBVIOUS
<1>1. hungUp \in BOOLEAN /\ complete \in BOOLEAN /\ overtaken \in BOOLEAN /\ mixed \in BOOLEAN
  BY Zenon DEF PipelineInit
<1>2. available \in Nat
  BY QuerySizeAssumption DEF PipelineInit
<1>3. PipelineTypeOK /\ WithinQuery /\ Announced /\ CounterBehind /\ ExecutorBehind
  BY <1>1, <1>2, QuerySizeAssumption
  DEF PipelineInit, PipelineTypeOK, WithinQuery, Announced, CounterBehind, ExecutorBehind
<1>4. AddedInPlace
  <2>1. 0 .. current - 1 = {} /\ executor # "end" /\ answer = {}
    BY DEF PipelineInit
  <2>2. QED
    BY <2>1 DEF AddedInPlace, Entries
<1>5. QED
  BY <1>3, <1>4 DEF AnswerInv

(***************************************************************************)
(* Bytes that are placed behind received change no entry in front of it.   *)
(***************************************************************************)
LEMMA EntriesStable ==
  ASSUME NEW n \in Int, \A g \in 0 .. n - 1 : g \in placed' <=> g \in placed
  PROVE  Entries(n)' = Entries(n)
BY DEF Entries, EntryOf

(***************************************************************************)
(* The client changes nothing that the server sees at once.                *)
(***************************************************************************)
LEMMA ClientKeepsInv ==
  ASSUME AnswerInv, SendChunk \/ HangUp
  PROVE  AnswerInv'
<1>1. sent' \in Nat
  BY QuerySizeAssumption, ChunkSizeAssumption
  DEF AnswerInv, PipelineTypeOK, SendChunk, HangUp, NextChunk
<1>2. hungUp' \in BOOLEAN
  BY Zenon DEF AnswerInv, PipelineTypeOK, SendChunk, HangUp
<1>3. UNCHANGED <<readerVars, available, complete, executorVars, historyVars>>
  BY DEF SendChunk, HangUp
<1>4. QED
  BY <1>1, <1>2, <1>3
  DEF AnswerInv, PipelineTypeOK, WithinQuery, Announced, CounterBehind, ExecutorBehind,
      AddedInPlace, Entries, EntryOf, readerVars, executorVars, historyVars

(***************************************************************************)
(* read_some puts bytes only behind receivedBytes.                         *)
(***************************************************************************)
LEMMA ReadKeepsInv ==
  ASSUME AnswerInv, Read
  PROVE  AnswerInv'
<1> USE DEF AnswerInv
<1>1. PICK k \in 0 .. NextChunk(received) :
        /\ placed' = IF position = received THEN placed \cup (received .. received + k - 1)
                                            ELSE placed
        /\ position' = position + k
  BY DEF Read
<1>2. /\ reader = "read" /\ reader' = "load" /\ received < QuerySize
      /\ UNCHANGED <<sent, hungUp, received, loaded, available, complete,
                     executor, current, answer, overtaken, mixed>>
  BY DEF Read, clientVars, executorVars, historyVars
<1>3. k \in Nat
  BY <1>1, <1>2, ChunkWithin DEF PipelineTypeOK
<1>4. PipelineTypeOK' /\ WithinQuery' /\ Announced' /\ CounterBehind' /\ ExecutorBehind'
  BY <1>1, <1>2, <1>3
  DEF PipelineTypeOK, WithinQuery, Announced, CounterBehind, ExecutorBehind
<1>5. AddedInPlace'
  <2> SUFFICES ASSUME ~mixed PROVE answer' = Entries(current)'
    BY <1>2 DEF AddedInPlace, Announced
  <2>1. current \in Nat /\ received \in Nat /\ current <= received
    BY DEF PipelineTypeOK, ExecutorBehind
  <2>2. \A g \in 0 .. current - 1 : g \in placed' <=> g \in placed
    BY <1>1, <1>3, <2>1
  <2>3. (Entries(current))' = Entries(current)
    BY <1>2, <2>2 DEF Entries, EntryOf
  <2>4. answer = Entries(current)
    BY <1>2 DEF AddedInPlace, Announced
  <2>5. QED
    BY <1>2, <2>3, <2>4
<1>6. QED
  BY <1>4, <1>5

(***************************************************************************)
(* addBytes, the end of the reader's loop and its join add no byte and no  *)
(* entry; what addBytes stores is at most what has been read.              *)
(***************************************************************************)
LEMMA CountKeepsInv ==
  ASSUME AnswerInv, LoadAvailable \/ StoreAvailable \/ QueryComplete \/ Join
  PROVE  AnswerInv'
<1> USE DEF AnswerInv
<1>1. UNCHANGED <<sent, hungUp, position, placed, executor, current, answer, overtaken, mixed>>
  BY DEF LoadAvailable, StoreAvailable, QueryComplete, Join, clientVars, executorVars,
         historyVars
<1>2. AddedInPlace'
  BY <1>1 DEF AddedInPlace, Entries, EntryOf
<1>3. CASE LoadAvailable
  BY <1>1, <1>2, <1>3
  DEF LoadAvailable, PipelineTypeOK, WithinQuery, Announced, CounterBehind, ExecutorBehind
<1>4. CASE StoreAvailable
  <2>1. /\ reader = "store" /\ reader' = "read" /\ received < QuerySize
        /\ available' = loaded + NextChunk(received)
        /\ received' = received + NextChunk(received)
        /\ UNCHANGED <<loaded, complete>>
    BY <1>4 DEF StoreAvailable, WithinQuery
  <2>2. NextChunk(received) \in Nat \ {0} /\ received + NextChunk(received) <= QuerySize
    BY <2>1, ChunkWithin DEF PipelineTypeOK
  <2>3. PipelineTypeOK' /\ WithinQuery' /\ Announced' /\ CounterBehind' /\ ExecutorBehind'
    BY <1>1, <2>1, <2>2
    DEF PipelineTypeOK, WithinQuery, Announced, CounterBehind, ExecutorBehind
  <2>4. QED
    BY <1>2, <2>3
<1>5. CASE QueryComplete
  BY <1>1, <1>2, <1>5, QuerySizeAssumption
  DEF QueryComplete, PipelineTypeOK, WithinQuery, Announced, CounterBehind, ExecutorBehind
<1>6. CASE Join
  BY <1>1, <1>2, <1>6
  DEF Join, PipelineTypeOK, WithinQuery, Announced, CounterBehind, ExecutorBehind
<1>7. QED
  BY <1>3, <1>4, <1>5, <1>6

(***************************************************************************)
(* The two resets and the two tests of execute.                            *)
(***************************************************************************)
LEMMA TestKeepsInv ==
  ASSUME AnswerInv, ClearComplete \/ ClearAvailable \/ TestComplete \/ Look
  PROVE  AnswerInv'
<1> USE DEF AnswerInv
<1>1. UNCHANGED <<sent, hungUp, reader, received, position, placed, loaded, current, answer>>
  BY DEF ClearComplete, ClearAvailable, TestComplete, Look, clientVars, readerVars
<1>2. CASE ClearComplete
  BY <1>1, <1>2
  DEF ClearComplete, PipelineTypeOK, WithinQuery, Announced, CounterBehind, ExecutorBehind,
      AddedInPlace, Entries, EntryOf
<1>3. CASE ClearAvailable
  <2>1. /\ executor = "clear" /\ executor' = "test" /\ available' = 0
        /\ UNCHANGED <<complete, overtaken>>
    BY <1>3 DEF ClearAvailable
  <2>2. mixed' \in BOOLEAN /\ ~mixed /\ (~mixed' => reader # "store")
    BY <1>3, Zenon DEF ClearAvailable, Announced
  <2>3. PipelineTypeOK'
    BY <1>1, <2>1, <2>2 DEF PipelineTypeOK
  <2>4. WithinQuery' /\ Announced' /\ CounterBehind' /\ ExecutorBehind'
    BY <1>1, <2>1, <2>2
    DEF PipelineTypeOK, WithinQuery, Announced, CounterBehind, ExecutorBehind
  <2>5. AddedInPlace'
    BY <1>1, <2>1, <2>2 DEF AddedInPlace, Entries, EntryOf
  <2>6. QED
    BY <2>3, <2>4, <2>5
<1>4. CASE TestComplete
  BY <1>1, <1>4
  DEF TestComplete, PipelineTypeOK, WithinQuery, Announced, CounterBehind,
      ExecutorBehind, AddedInPlace, Entries, EntryOf, historyVars
<1>5. CASE Look
  BY <1>1, <1>5
  DEF Look, PipelineTypeOK, WithinQuery, Announced, CounterBehind, ExecutorBehind,
      AddedInPlace, Entries, EntryOf, historyVars
<1>6. QED
  BY <1>2, <1>3, <1>4, <1>5

(***************************************************************************)
(* The next entry of xorFullBlocks is that of a byte that has been read.   *)
(***************************************************************************)
LEMMA AddKeepsInv ==
  ASSUME AnswerInv, AddEntry
  PROVE  AnswerInv'
<1> USE DEF AnswerInv
<1>1. /\ executor = "add" /\ executor' = "test"
      /\ answer' = answer \cup {EntryOf(current)}
      /\ current' = current + 1
      /\ UNCHANGED <<sent, hungUp, reader, received, position, placed, loaded, available,
                     complete, overtaken, mixed>>
  BY DEF AddEntry, clientVars, readerVars, historyVars
<1>2. PipelineTypeOK' /\ WithinQuery' /\ Announced' /\ CounterBehind' /\ ExecutorBehind'
  BY <1>1 DEF PipelineTypeOK, WithinQuery, Announced, CounterBehind, ExecutorBehind
<1>3. AddedInPlace'
  <2> SUFFICES ASSUME ~mixed PROVE answer' = (Entries(current))'
    BY <1>1 DEF AddedInPlace
  <2>1. answer = Entries(current)
    BY <1>1 DEF AddedInPlace
  <2>2. 0 .. current' - 1 = (0 .. current - 1) \cup {current}
    BY <1>1 DEF PipelineTypeOK
  <2>3. (Entries(current))' = Entries(current) \cup {EntryOf(current)}
    BY <1>1, <2>2 DEF Entries, EntryOf
  <2>4. QED
    BY <1>1, <2>1, <2>3
<1>4. QED
  BY <1>2, <1>3

(***************************************************************************)
(* fastxor adds the entries of all groups that are left: the whole query   *)
(* has been read, so that the difference does not wrap around.             *)
(***************************************************************************)
LEMMA RestKeepsInv ==
  ASSUME AnswerInv, Rest
  PROVE  AnswerInv'
<1> USE DEF AnswerInv
<1>1. /\ executor = "rest"
      /\ UNCHANGED <<sent, hungUp, reader, received, position, placed, loaded, available,
                     complete, current, overtaken, mixed>>
  BY DEF Rest, clientVars, readerVars, historyVars
<1>2. executor' \in {"end", "crashed"} /\ (executor' = "crashed" => current > QuerySize)
  BY QuerySizeAssumption DEF Rest, PipelineTypeOK
<1>3. ~mixed => current <= QuerySize
  BY QuerySizeAssumption DEF ExecutorBehind, WithinQuery, PipelineTypeOK
<1>4. PipelineTypeOK' /\ WithinQuery' /\ Announced' /\ CounterBehind' /\ ExecutorBehind'
  BY <1>1, <1>2, <1>3, QuerySizeAssumption
  DEF PipelineTypeOK, WithinQuery, Announced, CounterBehind, ExecutorBehind
<1>5. AddedInPlace'
  <2> SUFFICES ASSUME ~mixed
               PROVE  answer' = (Entries(QuerySize))' /\ executor' = "end"
    BY <1>1 DEF AddedInPlace
  <2>1. /\ answer' = answer \cup {EntryOf(g) : g \in current .. QuerySize - 1}
        /\ executor' = "end"
    BY <1>3 DEF Rest
  <2>2. answer = Entries(current)
    BY <1>1 DEF AddedInPlace
  <2>3. 0 .. QuerySize - 1 = (0 .. current - 1) \cup (current .. QuerySize - 1)
    BY <1>3, QuerySizeAssumption DEF PipelineTypeOK
  <2>4. Entries(QuerySize) = Entries(current) \cup {EntryOf(g) : g \in current .. QuerySize - 1}
    BY <2>3 DEF Entries
  <2>5. (Entries(QuerySize))' = Entries(QuerySize)
    BY <1>1 DEF Entries, EntryOf
  <2>6. QED
    BY <2>1, <2>2, <2>4, <2>5
<1>6. QED
  BY <1>4, <1>5

(***************************************************************************)
(* Every step of the client, of the reader and of execute keeps it.        *)
(***************************************************************************)
LEMMA StepKeepsInv == AnswerInv /\ [PipelineStep]_pipelineVars => AnswerInv'
<1> SUFFICES ASSUME AnswerInv, [PipelineStep]_pipelineVars
             PROVE  AnswerInv'
  OBVIOUS
<1>1. CASE SendChunk \/ HangUp
  BY <1>1, ClientKeepsInv
<1>2. CASE Reader
  BY <1>2, ReadKeepsInv, CountKeepsInv DEF Reader
<1>3. CASE Executor
  BY <1>3, TestKeepsInv, AddKeepsInv, RestKeepsInv DEF Executor
<1>4. CASE UNCHANGED pipelineVars
  BY <1>4
  DEF AnswerInv, PipelineTypeOK, WithinQuery, Announced, CounterBehind, ExecutorBehind,
      AddedInPlace, Entries, EntryOf, pipelineVars, clientVars, readerVars, executorVars,
      historyVars
<1>5. QED
  BY <1>1, <1>2, <1>3, <1>4 DEF PipelineStep

(***************************************************************************)
(* The invariant is enough: when every byte was placed, every entry is     *)
(* that of the client's byte.                                              *)
(***************************************************************************)
LEMMA InvAnswerExact == AnswerInv => AnswerExact
<1> SUFFICES ASSUME AnswerInv PROVE AnswerExact
  OBVIOUS
<1>1. ~mixed => current <= QuerySize /\ executor # "crashed"
  BY QuerySizeAssumption DEF AnswerInv, PipelineTypeOK, WithinQuery, ExecutorBehind
<1>2. executor = "end" /\ Whole /\ ~mixed =>
        answer = {<<g, TRUE>> : g \in 0 .. QuerySize - 1}
  <2> SUFFICES ASSUME executor = "end", Whole, ~mixed
               PROVE  answer = {<<g, TRUE>> : g \in 0 .. QuerySize - 1}
    OBVIOUS
  <2>1. answer = {<<g, g \in placed>> : g \in 0 .. QuerySize - 1}
    BY DEF AnswerInv, AddedInPlace, Entries, EntryOf
  <2>2. \A g \in 0 .. QuerySize - 1 : (g \in placed) = TRUE
    BY DEF Whole
  <2>3. QED
    BY <2>1, <2>2
<1>3. QED
  BY <1>1, <1>2 DEF AnswerExact

(***************************************************************************)
(* A pipelined execute uses only bytes that have been read, leaves out no  *)
(* group and takes none from behind the query, and its answer is that of   *)
(* the client's query when every chunk was read whole, unless the counter  *)
(* was reset in the middle of an addition.                                 *)
(***************************************************************************)
THEOREM PipelineAnswerExact == PipelineSpec => []AnswerExact
<1>1. PipelineInit => AnswerInv
  BY AnswerInvInit
<1>2. AnswerInv /\ [PipelineStep]_pipelineVars => AnswerInv'
  BY StepKeepsInv
<1>3. AnswerInv => AnswerExact
  BY InvAnswerExact
<1>4. QED
  BY <1>1, <1>2, <1>3, PTL DEF PipelineSpec
=============================================================================

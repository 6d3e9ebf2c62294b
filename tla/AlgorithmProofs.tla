--------------------------- MODULE AlgorithmProofs --------------------------
(***************************************************************************)
(* What the algorithms of the client, the servers and the creation of a    *)
(* database compute, for inputs of every size: the ranges of groups,       *)
(* quicksort, the manifest and the search in it; and that the invariants   *)
(* which are checked of them, and of the kernels of ComputationProofs,     *)
(* hold.  The theorems are at the end.                                     *)
(***************************************************************************)
EXTENDS MCComputation, ComputationProofs

-----------------------------------------------------------------------------
(***************************************************************************)
(* Recursion.  A recursive function is a CHOOSE, so nothing is known of it *)
(* before a function that solves its equation is known to exist; and what  *)
(* it returns is shown by the least counterexample, which the library's    *)
(* theorem on well-founded relations gives.                                *)
(***************************************************************************)

(* A set of numbers has a least one. *)
LEMMA LeastNumber ==
  ASSUME NEW T, T \subseteq Nat, T # {}
  PROVE  \E n \in T : \A m \in T : n <= m
<1> DEFINE R == {p \in Nat \X Nat : p[1] < p[2]}
<1>1. IsWellFoundedOn(R, Nat)
  <2>1. R = OpToRel(<, Nat)
    BY DEF OpToRel
  <2> QED
    BY <2>1, NatLessThanWellFounded
<1>2. PICK n \in T : \A m \in T : <<m, n>> \notin R
  <2> HIDE DEF R
  <2> QED
    BY <1>1, WFMin
<1>3. ASSUME NEW m \in T, m < n
      PROVE  FALSE
  <2>1. m \in Nat /\ n \in Nat
    OBVIOUS
  <2>2. <<m, n>> \in R
    BY <1>3, <2>1
  <2> QED
    BY <1>2, <2>2
<1> QED
  BY <1>3

(* A set with 0 and with the successor of each of its numbers has them all. *)
LEMMA AllNumbers ==
  ASSUME NEW S, 0 \in S, \A n \in Nat : n \in S => n + 1 \in S
  PROVE  Nat \subseteq S
<1> DEFINE T == Nat \ S
<1> SUFFICES ASSUME T # {}
             PROVE  FALSE
  OBVIOUS
<1>1. PICK n \in T : \A m \in T : n <= m
  BY LeastNumber
<1>2. n - 1 \in Nat /\ n - 1 \notin T
  BY <1>1
<1> QED
  BY <1>2

(***************************************************************************)
(* A recursive definition has a solution if its right side, F[a], looks at *)
(* the function only where a measure m is smaller.                         *)
(***************************************************************************)
Solved(A, m, F, n, h) == \A a \in A : m[a] < n => h[a] = F[a][h]

Descends(A, B, m, F) ==
  \A a \in A : \A g, h \in [A -> B] :
    (\A b \in A : m[b] < m[a] => g[b] = h[b]) => F[a][g] = F[a][h]

Recursion(A, B, m, F) ==
  /\ B # {}
  /\ m \in [A -> Nat]
  /\ F \in [A -> [[A -> B] -> B]]
  /\ Descends(A, B, m, F)

LEMMA SolutionsAgree ==
  ASSUME NEW A, NEW B, NEW m \in [A -> Nat], NEW F,
         Descends(A, B, m, F),
         NEW n \in Nat, NEW g \in [A -> B], Solved(A, m, F, n, g),
         NEW k \in Nat, NEW h \in [A -> B], Solved(A, m, F, k, h)
  PROVE  \A a \in A : m[a] < n /\ m[a] < k => g[a] = h[a]
<1> DEFINE D == {a \in A : m[a] < n /\ m[a] < k /\ g[a] # h[a]}
           T == {m[a] : a \in D}
<1> SUFFICES ASSUME D # {}
             PROVE  FALSE
  OBVIOUS
<1>1. T \subseteq Nat /\ T # {}
  <2>1. \A a \in D : a \in A /\ m[a] \in Nat
    OBVIOUS
  <2> HIDE DEF D
  <2> QED
    BY <2>1
<1>2. PICK t \in T : \A u \in T : t <= u
  <2> HIDE DEF T
  <2> QED
    BY <1>1, LeastNumber
<1>3. PICK a \in D : m[a] = t
  BY <1>2
<1>4. ASSUME NEW b \in A, m[b] < m[a]
      PROVE  g[b] = h[b]
  <2>1. m[b] \in Nat /\ m[a] \in Nat /\ m[a] < n /\ m[a] < k
    BY <1>3
  <2>2. m[b] < n /\ m[b] < k
    BY <1>4, <2>1
  <2>3. b \notin D
    <3> SUFFICES ASSUME b \in D
                 PROVE  FALSE
      OBVIOUS
    <3>1. m[b] \in T
      OBVIOUS
    <3>2. m[a] <= m[b]
      BY <1>2, <1>3, <3>1
    <3> QED
      BY <1>4, <2>1, <3>2
  <2> QED
    BY <2>2, <2>3
<1>5. F[a][g] = F[a][h]
  BY <1>4 DEF Descends
<1>6. g[a] = F[a][g] /\ h[a] = F[a][h]
  BY DEF Solved
<1> QED
  BY <1>5, <1>6

LEMMA RecursionHasSolution ==
  ASSUME NEW A, NEW B, NEW m, NEW F, Recursion(A, B, m, F)
  PROVE  \E h \in [A -> B] : \A a \in A : h[a] = F[a][h]
<1>. /\ m \in [A -> Nat]
     /\ F \in [A -> [[A -> B] -> B]]
     /\ Descends(A, B, m, F)
  BY DEF Recursion
<1>. PICK z \in B : TRUE
  BY DEF Recursion
<1> DEFINE Sol(n, h) == Solved(A, m, F, n, h)
           Reached == {n \in Nat : \E h \in [A -> B] : Sol(n, h)}
<1>1. 0 \in Reached
  <2>1. [a \in A |-> z] \in [A -> B] /\ Sol(0, [a \in A |-> z])
    BY DEF Solved
  <2> QED
    BY <2>1
<1>2. ASSUME NEW n \in Nat, n \in Reached
      PROVE  n + 1 \in Reached
  <2>1. PICK h \in [A -> B] : Sol(n, h)
    BY <1>2
  <2> DEFINE j == [a \in A |-> F[a][h]]
  <2>2. j \in [A -> B]
    OBVIOUS
  <2>3. ASSUME NEW a \in A, m[a] < n + 1
        PROVE  F[a][j] = F[a][h]
    <3>1. ASSUME NEW b \in A, m[b] < m[a]
          PROVE  j[b] = h[b]
      <4>1. m[b] \in Nat /\ m[a] \in Nat
        OBVIOUS
      <4>2. m[b] < n
        BY <2>3, <3>1, <4>1
      <4> QED
        BY <2>1, <4>2 DEF Solved
    <3> HIDE DEF j
    <3> QED
      BY <2>2, <3>1 DEF Descends
  <2>4. Sol(n + 1, j)
    BY <2>3 DEF Solved
  <2> HIDE DEF j
  <2> QED
    BY <2>2, <2>4
<1>3. Nat \subseteq Reached
  <2> HIDE DEF Reached
  <2> QED
    BY <1>1, <1>2, AllNumbers
<1> DEFINE At(a) == CHOOSE h \in [A -> B] : Sol(m[a] + 1, h)
           H == [a \in A |-> At(a)[a]]
<1>4. ASSUME NEW a \in A
      PROVE  At(a) \in [A -> B] /\ Sol(m[a] + 1, At(a))
  <2>1. m[a] + 1 \in Reached
    BY <1>3
  <2> HIDE DEF Sol
  <2> QED
    BY <2>1
<1>5. H \in [A -> B]
  BY <1>4
<1>6. ASSUME NEW a \in A
      PROVE  H[a] = F[a][H]
  <2> HIDE DEF At
  <2>1. ASSUME NEW b \in A, m[b] < m[a]
        PROVE  H[b] = At(a)[b]
    <3>1. m[b] \in Nat /\ m[a] \in Nat
      OBVIOUS
    <3>2. m[b] < m[b] + 1 /\ m[b] < m[a] + 1 /\ m[b] + 1 \in Nat /\ m[a] + 1 \in Nat
      BY <2>1, <3>1
    <3>3. At(b)[b] = At(a)[b]
      <4> DEFINE g == At(b)
                 h == At(a)
                 n == m[b] + 1
                 k == m[a] + 1
      <4>1. /\ n \in Nat /\ g \in [A -> B] /\ Solved(A, m, F, n, g)
            /\ k \in Nat /\ h \in [A -> B] /\ Solved(A, m, F, k, h)
            /\ m[b] < n /\ m[b] < k
        BY <1>4, <3>2
      <4> HIDE DEF g, h, n, k
      <4>2. \A c \in A : m[c] < n /\ m[c] < k => g[c] = h[c]
        BY <4>1, SolutionsAgree
      <4> QED
        BY <4>1, <4>2 DEF g, h
    <3> QED
      BY <3>3
  <2>2. F[a][H] = F[a][At(a)]
    <3> HIDE DEF H
    <3> QED
      BY <1>4, <1>5, <2>1 DEF Descends
  <2>3. At(a)[a] = F[a][At(a)]
    BY <1>4 DEF Solved
  <2> QED
    BY <2>2, <2>3
<1> QED
  <2> HIDE DEF H
  <2> QED
    BY <1>5, <1>6

-----------------------------------------------------------------------------
(* Sums over finite sets of natural numbers                                *)

\* The values that are added are numbers.
Numeric(f, S) == IsFiniteSet(S) /\ \A x \in S : f[x] \in Nat

Any(s) == CHOOSE x \in s : TRUE

\* The recursion that SumFunctionOnSet is defined by.
Adds(f, S, iter) ==
  \A s \in SUBSET S : iter[s] = IF s = {} THEN 0 ELSE f[Any(s)] + iter[s \ {Any(s)}]

LEMMA Smaller ==
  ASSUME NEW s, IsFiniteSet(s), s # {}
  PROVE  /\ Any(s) \in s
         /\ IsFiniteSet(s \ {Any(s)})
         /\ Cardinality(s) \in Nat /\ Cardinality(s \ {Any(s)}) \in Nat
         /\ Cardinality(s \ {Any(s)}) < Cardinality(s)
<1>1. Any(s) \in s
  BY DEF Any
<1>2. Cardinality(s) \in Nat /\ IsFiniteSet(s \ {Any(s)})
  BY FS_CardinalityType, FS_RemoveElement
<1>3. Cardinality(s \ {Any(s)}) = Cardinality(s) - 1
  BY <1>1, FS_RemoveElement
<1>4. Cardinality(s \ {Any(s)}) \in Nat
  BY <1>2, FS_CardinalityType
<1> QED
  BY <1>1, <1>2, <1>3, <1>4

(* Induction over the finite subsets of S.                                  *)
LEMMA SubsetInduction ==
  ASSUME NEW S, IsFiniteSet(S), NEW P, {} \in P,
         \A s \in SUBSET S : s # {} /\ s \ {Any(s)} \in P => s \in P
  PROVE  SUBSET S \subseteq P
<1> DEFINE D == {s \in SUBSET S : s \notin P}
           T == {Cardinality(s) : s \in D}
<1> SUFFICES ASSUME D # {}
             PROVE  FALSE
  OBVIOUS
<1>1. \A s \in D : s \subseteq S /\ s \notin P /\ s # {} /\ IsFiniteSet(s) /\ Cardinality(s) \in Nat
  BY FS_Subset, FS_CardinalityType
<1>2. T \subseteq Nat /\ T # {}
  <2> HIDE DEF D
  <2> QED
    BY <1>1
<1>3. PICK n \in T : \A k \in T : n <= k
  <2> HIDE DEF T
  <2> QED
    BY <1>2, LeastNumber
<1>4. PICK s \in D : Cardinality(s) = n
  BY <1>3
<1>5. Cardinality(s \ {Any(s)}) < Cardinality(s) /\ Cardinality(s \ {Any(s)}) \in Nat
  BY <1>1, Smaller
<1>6. s \ {Any(s)} \notin D
  <2> SUFFICES ASSUME s \ {Any(s)} \in D
               PROVE  FALSE
    OBVIOUS
  <2>1. Cardinality(s \ {Any(s)}) \in T
    OBVIOUS
  <2>2. n <= Cardinality(s \ {Any(s)})
    BY <1>3, <2>1
  <2> HIDE DEF D, T
  <2> QED
    BY <1>1, <1>4, <1>5, <2>2
<1>7. s \ {Any(s)} \in P
  BY <1>1, <1>6
<1> QED
  BY <1>1, <1>7

LEMMA SumIsIteration ==
  ASSUME NEW f, NEW S, Numeric(f, S)
  PROVE  \E iter \in [SUBSET S -> Nat] :
           Adds(f, S, iter) /\ SumFunctionOnSet(f, S) = iter[S]
<1> DEFINE A == SUBSET S
           m == [s \in A |-> Cardinality(s)]
           rhs(s, h) == IF s = {} THEN 0 ELSE f[Any(s)] + h[s \ {Any(s)}]
           F == [s \in A |-> [h \in [A -> Nat] |-> rhs(s, h)]]
<1>1. ASSUME NEW s \in A
      PROVE  /\ IsFiniteSet(s) /\ Cardinality(s) \in Nat
             /\ s # {} => /\ s \ {Any(s)} \in A /\ f[Any(s)] \in Nat
                          /\ Cardinality(s \ {Any(s)}) < Cardinality(s)
  <2>1. IsFiniteSet(s)
    BY FS_Subset DEF Numeric
  <2>2. s # {} => Any(s) \in s /\ Cardinality(s \ {Any(s)}) < Cardinality(s)
    BY <2>1, Smaller
  <2> QED
    BY <2>1, <2>2, FS_CardinalityType DEF Numeric
<1>2. m \in [A -> Nat]
  BY <1>1
<1>3. ASSUME NEW s \in A, NEW h \in [A -> Nat]
      PROVE  rhs(s, h) \in Nat
  <2>1. CASE s = {}
    BY <2>1
  <2>2. CASE s # {}
    <3>1. f[Any(s)] \in Nat /\ h[s \ {Any(s)}] \in Nat
      BY <1>1, <2>2
    <3> QED
      BY <2>2, <3>1
  <2> QED
    BY <2>1, <2>2
<1>4. F \in [A -> [[A -> Nat] -> Nat]]
  <2> HIDE DEF rhs, A
  <2> QED
    BY <1>3
<1>5. Descends(A, Nat, m, F)
  <2> SUFFICES ASSUME NEW s \in A, NEW g \in [A -> Nat], NEW h \in [A -> Nat],
                      \A b \in A : m[b] < m[s] => g[b] = h[b]
               PROVE  rhs(s, g) = rhs(s, h)
    <3> HIDE DEF rhs, A, m
    <3> QED
      BY DEF Descends
  <2>1. CASE s = {}
    BY <2>1
  <2>2. CASE s # {}
    <3>1. m[s \ {Any(s)}] < m[s]
      BY <1>1, <2>2
    <3>2. g[s \ {Any(s)}] = h[s \ {Any(s)}]
      BY <1>1, <2>2, <3>1
    <3> QED
      BY <2>2, <3>2
  <2> QED
    BY <2>1, <2>2
<1>6. \E h \in [A -> Nat] : \A s \in A : h[s] = F[s][h]
  <2> DEFINE B == Nat
  <2>1. Recursion(A, B, m, F)
    BY <1>2, <1>4, <1>5 DEF Recursion
  <2> HIDE DEF A, m, F, B
  <2>3. \E h \in [A -> B] : \A s \in A : h[s] = F[s][h]
    BY <2>1, RecursionHasSolution
  <2> QED
    BY <2>3 DEF B
<1>7. PICK h \in [A -> Nat] : \A s \in A : h[s] = rhs(s, h)
  BY <1>6
<1> DEFINE Rhs(g) == [s \in SUBSET S |->
              IF s = {} THEN 0 ELSE f[Any(s)] + g[s \ {Any(s)}]]
           iter == CHOOSE g : g = Rhs(g)
<1>8. h = Rhs(h)
  BY <1>7
<1>9. iter = Rhs(iter)
  <2> HIDE DEF Rhs
  <2> QED
    BY <1>8
<1>10. SumFunctionOnSet(f, S) = iter[S]
  BY DEF SumFunctionOnSet, FoldFunctionOnSet, MapThenFoldSet, Any
<1> HIDE DEF iter
<1>11. \A s \in A : iter[s] = IF s = {} THEN 0 ELSE f[Any(s)] + iter[s \ {Any(s)}]
  BY <1>9
<1>12. iter = [s \in A |-> iter[s]]
  BY <1>9
<1> DEFINE P == {s \in A : iter[s] \in Nat}
<1>13. A \subseteq P
  <2>1. {} \in P
    BY <1>11
  <2>2. ASSUME NEW s \in A, s # {}, s \ {Any(s)} \in P
        PROVE  s \in P
    <3>1. f[Any(s)] \in Nat /\ iter[s \ {Any(s)}] \in Nat
      BY <1>1, <2>2
    <3>2. iter[s] = f[Any(s)] + iter[s \ {Any(s)}]
      BY <1>11, <2>2
    <3> QED
      BY <3>1, <3>2
  <2> HIDE DEF P
  <2> QED
    BY <2>1, <2>2, SubsetInduction DEF Numeric
<1>14. iter \in [A -> Nat]
  BY <1>12, <1>13
<1>15. Adds(f, S, iter)
  BY <1>11 DEF Adds
<1> QED
  BY <1>10, <1>14, <1>15

Sum(f, S) == SumFunctionOnSet(f, S)

\* The sum over a subset is the same iteration, stopped earlier.
LEMMA SumOfSubset ==
  ASSUME NEW f, NEW S, Numeric(f, S), NEW iter, Adds(f, S, iter),
         NEW s \in SUBSET S
  PROVE  Sum(f, s) = iter[s]
<1>1. Numeric(f, s)
  BY FS_Subset DEF Numeric
<1>2. PICK own \in [SUBSET s -> Nat] : Adds(f, s, own) /\ Sum(f, s) = own[s]
  BY <1>1, SumIsIteration DEF Sum
<1> DEFINE P == {t \in SUBSET s : iter[t] = own[t]}
<1>3. {} \in P
  BY <1>2 DEF Adds
<1>4. ASSUME NEW t \in SUBSET s, t # {}, t \ {Any(t)} \in P
      PROVE  t \in P
  <2>1. t \in SUBSET S /\ t \in SUBSET s
    OBVIOUS
  <2>2. iter[t] = f[Any(t)] + iter[t \ {Any(t)}]
    BY <1>4, <2>1 DEF Adds
  <2>3. own[t] = f[Any(t)] + own[t \ {Any(t)}]
    BY <1>2, <1>4, <2>1 DEF Adds
  <2> QED
    BY <1>4, <2>2, <2>3
<1>5. SUBSET s \subseteq P
  <2> HIDE DEF P
  <2> QED
    BY <1>1, <1>3, <1>4, SubsetInduction DEF Numeric
<1> QED
  BY <1>2, <1>5

LEMMA SumType ==
  ASSUME NEW f, NEW S, Numeric(f, S)
  PROVE  Sum(f, S) \in Nat
<1>1. PICK iter \in [SUBSET S -> Nat] : Adds(f, S, iter) /\ Sum(f, S) = iter[S]
  BY SumIsIteration DEF Sum
<1> QED
  BY <1>1

LEMMA SumEmpty ==
  ASSUME NEW f
  PROVE  Sum(f, {}) = 0
<1>1. Numeric(f, {})
  BY FS_EmptySet DEF Numeric
<1>2. PICK iter : Adds(f, {}, iter) /\ Sum(f, {}) = iter[{}]
  BY <1>1, SumIsIteration DEF Sum
<1> QED
  BY <1>2 DEF Adds

\* The order in which the members are taken does not matter.
LEMMA SumRemove ==
  ASSUME NEW f, NEW S, Numeric(f, S), NEW x \in S
  PROVE  Sum(f, S) = f[x] + Sum(f, S \ {x})
<1>1. PICK iter \in [SUBSET S -> Nat] : Adds(f, S, iter)
  BY SumIsIteration
<1>2. \A s \in SUBSET S : Sum(f, s) = iter[s]
  BY <1>1, SumOfSubset
<1> DEFINE Right(s) == \A y \in s : iter[s] = f[y] + iter[s \ {y}]
           P == {n \in Nat : \A s \in SUBSET S : Cardinality(s) = n => Right(s)}
<1>3. \A s \in SUBSET S : IsFiniteSet(s) /\ Cardinality(s) \in Nat
  BY FS_Subset, FS_CardinalityType DEF Numeric
<1>4. 0 \in P
  <2>1. ASSUME NEW s \in SUBSET S, Cardinality(s) = 0
        PROVE  s = {}
    BY <1>3, <2>1, FS_EmptySet
  <2> QED
    BY <2>1
<1>5. ASSUME NEW n \in Nat, n \in P
      PROVE  n + 1 \in P
  <2> SUFFICES ASSUME NEW s \in SUBSET S, Cardinality(s) = n + 1, NEW y \in s
               PROVE  iter[s] = f[y] + iter[s \ {y}]
    OBVIOUS
  <2>1. PICK a \in s : a = Any(s)
    BY DEF Any
  <2>2. iter[s] = f[a] + iter[s \ {a}]
    BY <1>1, <2>1 DEF Adds
  <2>3. CASE y = a
    BY <2>2, <2>3
  <2>4. CASE y # a
    <3>1. \A z \in s : s \ {z} \in SUBSET S /\ Cardinality(s \ {z}) = n
      <4>1. ASSUME NEW z \in s
            PROVE  s \ {z} \in SUBSET S /\ Cardinality(s \ {z}) = Cardinality(s) - 1
        BY <1>3, FS_RemoveElement
      <4> QED
        BY <4>1
    <3>2. \A z \in s : Right(s \ {z})
      <4> HIDE DEF Right
      <4> QED
        BY <1>5, <3>1
    <3>3. y \in s \ {a} /\ a \in s \ {y}
      BY <2>1, <2>4
    <3>4. /\ iter[s \ {a}] = f[y] + iter[(s \ {a}) \ {y}]
          /\ iter[s \ {y}] = f[a] + iter[(s \ {y}) \ {a}]
      BY <2>1, <3>2, <3>3
    <3>5. (s \ {y}) \ {a} = (s \ {a}) \ {y}
      OBVIOUS
    <3>6. f[y] \in Nat /\ f[a] \in Nat /\ iter[(s \ {a}) \ {y}] \in Nat
      <4>1. a \in S /\ y \in S /\ (s \ {a}) \ {y} \in SUBSET S
        BY <2>1
      <4> QED
        BY <1>1, <4>1 DEF Numeric
    <3>7. iter[s] = f[a] + (f[y] + iter[(s \ {a}) \ {y}])
      BY <2>2, <3>4
    <3>8. iter[s \ {y}] = f[a] + iter[(s \ {a}) \ {y}]
      BY <3>4, <3>5
    <3> QED
      BY <3>6, <3>7, <3>8
  <2> QED
    BY <2>3, <2>4
<1>6. Nat \subseteq P
  <2> HIDE DEF P
  <2> QED
    BY <1>4, <1>5, AllNumbers
<1>7. Right(S)
  <2>1. Cardinality(S) \in P
    BY <1>3, <1>6
  <2> HIDE DEF Right
  <2> QED
    BY <2>1
<1> QED
  BY <1>2, <1>7

-----------------------------------------------------------------------------
(***************************************************************************)
(* The ranges of groups.  The groups in front of a chunk grow with the     *)
(* chunk; every loop over consecutive chunks adds up a difference of two   *)
(* such numbers, and the ranges are one or two intervals between them.     *)
(***************************************************************************)

\* Every layout: CHUNKS is at most SERVERS, without a bound on either.
AllLayouts ==
  {l \in [servers : Nat \ {0}, chunks : Nat \ {0}, groups : Nat] : l.chunks <= l.servers}

\* The groups in front of chunk i.
Front(l, i) == Groups(l, 0 .. i - 1)

LEMMA LayoutType ==
  ASSUME NEW l \in AllLayouts
  PROVE  /\ l.servers \in Nat /\ l.servers > 0
         /\ l.chunks \in Nat /\ l.chunks > 0 /\ l.chunks <= l.servers
         /\ l.groups \in Nat
BY DEF AllLayouts

LEMMA MapType ==
  ASSUME NEW l \in AllLayouts
  PROVE  ChunksGroupsMap(l) \in [Ids(l) -> Nat]
<1>1. l.groups \div l.servers \in Nat
  BY LayoutType, Division
<1> QED
  BY <1>1 DEF ChunksGroupsMap

LEMMA GroupsNumeric ==
  ASSUME NEW l \in AllLayouts, NEW S \in SUBSET Ids(l)
  PROVE  Numeric(ChunksGroupsMap(l), S)
<1>1. IsFiniteSet(Ids(l))
  BY LayoutType, FS_Interval DEF Ids
<1>2. IsFiniteSet(S)
  BY <1>1, FS_Subset
<1> QED
  BY <1>2, MapType DEF Numeric

LEMMA GroupsType ==
  ASSUME NEW l \in AllLayouts, NEW S \in SUBSET Ids(l)
  PROVE  Groups(l, S) \in Nat
BY GroupsNumeric, SumType DEF Groups, Sum

LEMMA GroupsEmpty ==
  ASSUME NEW l
  PROVE  Groups(l, {}) = 0
BY SumEmpty DEF Groups, Sum

LEMMA GroupsRemove ==
  ASSUME NEW l \in AllLayouts, NEW S \in SUBSET Ids(l), NEW i \in S
  PROVE  Groups(l, S) = ChunksGroupsMap(l)[i] + Groups(l, S \ {i})
BY GroupsNumeric, SumRemove DEF Groups, Sum

LEMMA FrontType ==
  ASSUME NEW l \in AllLayouts, NEW i \in 0 .. l.servers
  PROVE  Front(l, i) \in Nat
<1>1. 0 .. i - 1 \subseteq Ids(l)
  BY LayoutType DEF Ids
<1> QED
  BY <1>1, GroupsType DEF Front

LEMMA FrontFirst ==
  ASSUME NEW l
  PROVE  Front(l, 0) = 0
<1>1. 0 .. 0 - 1 = {}
  OBVIOUS
<1> QED
  BY <1>1, GroupsEmpty DEF Front

LEMMA FrontNext ==
  ASSUME NEW l \in AllLayouts, NEW i \in Ids(l)
  PROVE  Front(l, i + 1) = Front(l, i) + ChunksGroupsMap(l)[i]
<1>1. 0 .. (i + 1) - 1 \subseteq Ids(l) /\ i \in 0 .. (i + 1) - 1
  BY LayoutType DEF Ids
<1>2. (0 .. (i + 1) - 1) \ {i} = 0 .. i - 1
  BY DEF Ids
<1>3. Front(l, i + 1) = ChunksGroupsMap(l)[i] + Front(l, i)
  <2> DEFINE S == 0 .. (i + 1) - 1
  <2>1. Groups(l, S) = ChunksGroupsMap(l)[i] + Groups(l, S \ {i})
    <3> HIDE DEF S
    <3>1. S \in SUBSET Ids(l) /\ i \in S
      BY <1>1 DEF S
    <3> QED
      BY <3>1, GroupsRemove
  <2> QED
    BY <1>2, <2>1 DEF Front
<1>4. i \in 0 .. l.servers /\ ChunksGroupsMap(l)[i] \in Nat
  BY LayoutType, MapType DEF Ids
<1>5. Front(l, i) \in Nat
  BY <1>4, FrontType
<1> QED
  BY <1>3, <1>4, <1>5

\* Consecutive chunks have the groups between their ends.
LEMMA GroupsBetween ==
  ASSUME NEW l \in AllLayouts, NEW b \in 0 .. l.servers, NEW a \in 0 .. b
  PROVE  Groups(l, a .. b - 1) = Front(l, b) - Front(l, a)
<1> DEFINE P == {k \in Nat : a + k <= l.servers =>
                   Groups(l, a .. (a + k) - 1) = Front(l, a + k) - Front(l, a)}
<1>. l.servers \in Nat /\ a \in Nat /\ b \in Nat
  BY LayoutType
<1>1. 0 \in P
  <2>1. a .. (a + 0) - 1 = {} /\ a + 0 = a /\ a \in 0 .. l.servers
    OBVIOUS
  <2>2. Front(l, a) \in Nat
    BY <2>1, FrontType
  <2> QED
    BY <2>1, <2>2, GroupsEmpty
<1>2. ASSUME NEW k \in Nat, k \in P
      PROVE  k + 1 \in P
  <2> SUFFICES ASSUME a + (k + 1) <= l.servers
               PROVE  Groups(l, a .. (a + (k + 1)) - 1) = Front(l, a + (k + 1)) - Front(l, a)
    OBVIOUS
  <2> DEFINE c == a + k
  <2>1. /\ c \in Ids(l) /\ c \in 0 .. l.servers /\ a \in 0 .. l.servers
        /\ a + (k + 1) = c + 1
    BY DEF Ids
  <2>2. /\ a .. (c + 1) - 1 \subseteq Ids(l)
        /\ c \in a .. (c + 1) - 1
        /\ (a .. (c + 1) - 1) \ {c} = a .. c - 1
    BY DEF Ids
  <2>3. Groups(l, a .. c - 1) = Front(l, c) - Front(l, a)
    BY <1>2
  <2> HIDE DEF c
  <2>4. Groups(l, a .. (c + 1) - 1) = ChunksGroupsMap(l)[c] + Groups(l, a .. c - 1)
    BY <2>2, GroupsRemove
  <2>5. Front(l, c + 1) = Front(l, c) + ChunksGroupsMap(l)[c]
    BY <2>1, FrontNext
  <2>6. Front(l, c) \in Nat /\ Front(l, a) \in Nat /\ ChunksGroupsMap(l)[c] \in Nat
    BY <2>1, FrontType, MapType
  <2>7. Groups(l, a .. (c + 1) - 1) = Front(l, c + 1) - Front(l, a)
    BY <2>3, <2>4, <2>5, <2>6
  <2> QED
    BY <2>1, <2>7
<1>3. Nat \subseteq P
  <2> HIDE DEF P
  <2> QED
    BY <1>1, <1>2, AllNumbers
<1>4. b - a \in Nat /\ a + (b - a) = b
  OBVIOUS
<1>5. b - a \in P
  <2> HIDE DEF P
  <2> QED
    BY <1>3, <1>4
<1> QED
  BY <1>4, <1>5

LEMMA FrontMonotone ==
  ASSUME NEW l \in AllLayouts, NEW b \in 0 .. l.servers, NEW a \in 0 .. b
  PROVE  Front(l, a) <= Front(l, b)
<1>1. a .. b - 1 \subseteq Ids(l) /\ a \in 0 .. l.servers
  BY LayoutType DEF Ids
<1>2. Groups(l, a .. b - 1) \in Nat /\ Front(l, a) \in Nat /\ Front(l, b) \in Nat
  BY <1>1, GroupsType, FrontType
<1> QED
  BY <1>2, GroupsBetween

\* The chunks hold all the groups.
LEMMA FrontAll ==
  ASSUME NEW l \in AllLayouts
  PROVE  Front(l, l.servers) = l.groups
<1> DEFINE n == l.servers
           q == l.groups \div n
           r == l.groups % n
           P == {i \in Nat : i <= n => Front(l, i) = i * q + (IF i < r THEN i ELSE r)}
<1>1. n \in Nat /\ q \in Nat /\ r \in Nat /\ r < n /\ l.groups = n * q + r
  <2>1. n \in Nat \ {0} /\ l.groups \in Nat
    BY LayoutType
  <2> HIDE DEF n
  <2> QED
    BY <2>1, Division
<1>2. 0 \in P
  <2>1. 0 * q = 0
    BY <1>1
  <2> HIDE DEF q, r
  <2> QED
    BY <1>1, <2>1, FrontFirst
<1>3. ASSUME NEW i \in Nat, i \in P
      PROVE  i + 1 \in P
  <2> SUFFICES ASSUME i + 1 <= n
               PROVE  Front(l, i + 1) = (i + 1) * q + (IF i + 1 < r THEN i + 1 ELSE r)
    OBVIOUS
  <2>1. i \in Ids(l)
    BY <1>1 DEF Ids
  <2>2. Front(l, i + 1) = Front(l, i) + ChunksGroupsMap(l)[i]
    BY <2>1, FrontNext
  <2>3. ChunksGroupsMap(l)[i] = q + (IF i < r THEN 1 ELSE 0)
    BY <2>1 DEF ChunksGroupsMap
  <2>4. Front(l, i) = i * q + (IF i < r THEN i ELSE r)
    BY <1>1, <1>3
  <2> HIDE DEF q, r, n
  <2>5. i * q \in Nat /\ (i + 1) * q = i * q + q
    BY <1>1
  <2> QED
    BY <1>1, <2>2, <2>3, <2>4, <2>5
<1>4. Nat \subseteq P
  <2> HIDE DEF P
  <2> QED
    BY <1>2, <1>3, AllNumbers
<1>5. Front(l, n) = n * q + (IF n < r THEN n ELSE r)
  BY <1>1, <1>4
<1> HIDE DEF q, r
<1> QED
  BY <1>1, <1>5

\* Where a server's consecutive chunks end at the last one, and how many of
\* them are wrapped.
End(l, id) == IF id + l.chunks < l.servers THEN id + l.chunks ELSE l.servers
Over(l, id) == IF id + l.chunks > l.servers THEN id + l.chunks - l.servers ELSE 0

LEMMA RemainderBelow ==
  ASSUME NEW a \in Nat, NEW b \in Nat, a < b
  PROVE  a % b = a
OBVIOUS

LEMMA RemainderOver ==
  ASSUME NEW a \in Nat, NEW b \in Nat, b <= a, a < b + b
  PROVE  a % b = a - b
<1>1. a - b \in Nat /\ a - b < b /\ a = b + (a - b)
  OBVIOUS
<1> QED
  BY <1>1

LEMMA PlacesOrdered ==
  ASSUME NEW l \in AllLayouts, NEW id \in Ids(l)
  PROVE  /\ id \in Nat /\ End(l, id) \in id + 1 .. l.servers /\ Over(l, id) \in 0 .. id
         /\ id \in 0 .. l.servers /\ id + 1 \in 0 .. l.servers
         /\ End(l, id) \in 0 .. l.servers /\ Over(l, id) \in 0 .. l.servers
BY LayoutType DEF Ids, End, Over

LEMMA FrontsOrdered ==
  ASSUME NEW l \in AllLayouts, NEW id \in Ids(l)
  PROVE  /\ Front(l, Over(l, id)) \in Nat /\ Front(l, id) \in Nat
         /\ Front(l, id + 1) \in Nat /\ Front(l, End(l, id)) \in Nat
         /\ Front(l, Over(l, id)) <= Front(l, id)
         /\ Front(l, id) <= Front(l, id + 1)
         /\ Front(l, id + 1) <= Front(l, End(l, id))
         /\ ChunksGroupsMap(l)[id] = Front(l, id + 1) - Front(l, id)
<1>1. /\ Front(l, Over(l, id)) \in Nat /\ Front(l, id) \in Nat
      /\ Front(l, id + 1) \in Nat /\ Front(l, End(l, id)) \in Nat
  BY PlacesOrdered, FrontType
<1>2. Front(l, Over(l, id)) <= Front(l, id)
  BY PlacesOrdered, FrontMonotone
<1>3. Front(l, id + 1) <= Front(l, End(l, id))
  <2>1. id + 1 \in 0 .. End(l, id) /\ End(l, id) \in 0 .. l.servers
    BY PlacesOrdered
  <2> QED
    BY <2>1, FrontMonotone
<1>4. Front(l, id + 1) = Front(l, id) + ChunksGroupsMap(l)[id] /\ ChunksGroupsMap(l)[id] \in Nat
  BY FrontNext, MapType
<1> QED
  BY <1>1, <1>2, <1>3, <1>4

\* The loops of the client and of a server over consecutive chunks.
LEMMA Loops ==
  ASSUME NEW l \in AllLayouts, NEW id \in Ids(l)
  PROVE  /\ GroupsRight(l, id) = Front(l, End(l, id)) - Front(l, id + 1)
         /\ GroupsLeft(l, id) = Front(l, Over(l, id))
         /\ SkipGroups(l, id) = Front(l, id + 1)
         /\ GroupsForServerRight(l, id) = Front(l, End(l, id)) - Front(l, id)
         /\ GroupsForServerLeft(l, id) = Front(l, Over(l, id))
         /\ GroupsToIgnore(l, id) = Front(l, id) - Front(l, Over(l, id))
<1> DEFINE e == End(l, id)
           w == Over(l, id)
<1>1. /\ Before(l, id + 1, l.chunks - 1) = id + 1 .. e - 1
      /\ Before(l, id, l.chunks) = id .. e - 1
  BY LayoutType DEF Before, Ids, End
<1>2. /\ Wrapped(l, id + 1, l.chunks - 1) = 0 .. w - 1
      /\ Wrapped(l, id, l.chunks) = 0 .. w - 1
  BY LayoutType DEF Wrapped, Ids, Over
<1>3. {i \in Ids(l) : i < id} \ {i \in Ids(l) : i + l.servers < id + l.chunks} = w .. id - 1
  BY LayoutType DEF Ids, Over
<1>4. 0 .. id = 0 .. (id + 1) - 1
  BY LayoutType DEF Ids
<1>5. /\ e \in 0 .. l.servers /\ id + 1 \in 0 .. e /\ id \in 0 .. e
      /\ id \in 0 .. l.servers /\ w \in 0 .. id
  BY PlacesOrdered
<1> HIDE DEF e, w
<1>6. GroupsRight(l, id) = Front(l, e) - Front(l, id + 1)
  BY <1>1, <1>5, GroupsBetween DEF GroupsRight
<1>7. GroupsForServerRight(l, id) = Front(l, e) - Front(l, id)
  BY <1>1, <1>5, GroupsBetween DEF GroupsForServerRight
<1>8. GroupsLeft(l, id) = Front(l, w) /\ GroupsForServerLeft(l, id) = Front(l, w)
  BY <1>2 DEF GroupsLeft, GroupsForServerLeft, Front
<1>9. SkipGroups(l, id) = Front(l, id + 1)
  BY <1>4 DEF SkipGroups, Front
<1>10. GroupsToIgnore(l, id) = Front(l, id) - Front(l, w)
  BY <1>3, <1>5, GroupsBetween DEF GroupsToIgnore
<1> QED
  BY <1>6, <1>7, <1>8, <1>9, <1>10 DEF e, w

\* One loop over the chunks behind the own one, modulo their number, takes the
\* same groups as the two loops of the client.
LEMMA OneLoop ==
  ASSUME NEW l \in AllLayouts, NEW id \in Ids(l)
  PROVE  GroupsToGenerate(l, id) =
           Front(l, End(l, id)) - Front(l, id + 1) + Front(l, Over(l, id))
<1> DEFINE n == l.servers
           c == l.chunks
           F(i) == Front(l, i)
           f == [i \in 1 .. c - 1 |-> ChunksGroupsMap(l)[(id + i) % n]]
           taken(j) == IF id + 1 + j <= n THEN F(id + 1 + j) - F(id + 1)
                       ELSE F(n) - F(id + 1) + F(id + 1 + j - n)
           P == {j \in Nat : j <= c - 1 => Sum(f, 1 .. j) = taken(j)}
<1>1. n \in Nat /\ c \in Nat /\ 0 < c /\ c <= n /\ id \in Nat /\ id + 1 <= n
  BY LayoutType DEF Ids
<1>2. \A i \in 0 .. n : F(i) \in Nat
  BY FrontType
<1>3. \A i \in 1 .. c - 1 : (id + i) % n \in Ids(l)
  <2> HIDE DEF n, c
  <2>1. ASSUME NEW i \in 1 .. c - 1
        PROVE  (id + i) % n \in 0 .. n - 1
    <3>1. id + i \in Nat /\ n > 0
      BY <1>1
    <3> QED
      BY <1>1, <3>1, Division
  <2> QED
    BY <2>1 DEF Ids, n
<1>4. ASSUME NEW j \in 0 .. c - 1
      PROVE  Numeric(f, 1 .. j)
  <2>1. IsFiniteSet(1 .. j)
    BY <1>1, FS_Interval
  <2>2. \A i \in 1 .. j : f[i] \in Nat
    BY <1>1, <1>3, MapType
  <2> QED
    BY <2>1, <2>2 DEF Numeric
<1>5. 0 \in P
  <2>1. 1 .. 0 = {} /\ Sum(f, {}) = 0
    BY SumEmpty
  <2>2. id + 1 + 0 <= n /\ id + 1 + 0 = id + 1 /\ F(id + 1) \in Nat
    BY <1>1, <1>2
  <2>3. taken(0) = 0
    <3> HIDE DEF F, n
    <3> QED
      BY <2>2
  <2> HIDE DEF f, taken
  <2> QED
    BY <2>1, <2>3
<1>6. ASSUME NEW j \in Nat, j \in P
      PROVE  j + 1 \in P
  <2> SUFFICES ASSUME j + 1 <= c - 1
               PROVE  Sum(f, 1 .. j + 1) = taken(j + 1)
    OBVIOUS
  <2>1. j + 1 \in 0 .. c - 1 /\ j + 1 \in 1 .. j + 1 /\ (1 .. j + 1) \ {j + 1} = 1 .. j
    BY <1>1
  <2>2. Sum(f, 1 .. j) = taken(j)
    BY <1>1, <1>6
  <2>3. Sum(f, 1 .. j + 1) = f[j + 1] + Sum(f, 1 .. j)
    <3> DEFINE S == 1 .. j + 1
    <3>1. Numeric(f, S) /\ j + 1 \in S
      BY <1>4, <2>1
    <3> HIDE DEF S, f
    <3>2. Sum(f, S) = f[j + 1] + Sum(f, S \ {j + 1})
      BY <3>1, SumRemove
    <3> QED
      BY <2>1, <3>2 DEF S
  <2> DEFINE i == (id + (j + 1)) % n
  <2>4. f[j + 1] = ChunksGroupsMap(l)[i]
    BY <1>1, <2>1
  <2>5. i \in Ids(l)
    BY <1>1, <1>3
  <2>6. F(i + 1) = F(i) + ChunksGroupsMap(l)[i] /\ ChunksGroupsMap(l)[i] \in Nat
    BY <2>5, FrontNext, MapType
  <2>7. CASE id + 1 + (j + 1) <= n
    <3>1. i = id + 1 + j
      <4>1. id + (j + 1) = id + 1 + j /\ id + (j + 1) \in Nat /\ id + (j + 1) < n
        BY <1>1, <2>7
      <4> HIDE DEF n
      <4> QED
        BY <1>1, <4>1, RemainderBelow
    <3>2. i + 1 = id + 1 + (j + 1) /\ id + 1 + j <= n
      BY <1>1, <2>7, <3>1
    <3>3. F(i) \in Nat /\ F(id + 1) \in Nat
      BY <1>1, <1>2, <2>7, <3>1
    <3>4. taken(j) = F(i) - F(id + 1) /\ taken(j + 1) = F(i + 1) - F(id + 1)
      BY <2>7, <3>1, <3>2
    <3> HIDE DEF F, i, f, taken
    <3> QED
      BY <2>2, <2>3, <2>4, <2>6, <3>3, <3>4
  <2>8. CASE ~(id + 1 + (j + 1) <= n)
    <3>1. i = id + 1 + j - n
      <4>1. /\ id + (j + 1) - n = id + 1 + j - n
            /\ id + (j + 1) \in Nat /\ n <= id + (j + 1) /\ id + (j + 1) < n + n
        BY <1>1, <2>8
      <4> DEFINE a == id + (j + 1)
      <4>2. a \in Nat /\ n <= a /\ a < n + n /\ a - n = id + 1 + j - n
        BY <1>1, <4>1
      <4> HIDE DEF n, a
      <4>3. a % n = a - n
        BY <1>1, <4>2, RemainderOver
      <4> QED
        BY <4>2, <4>3 DEF a
    <3>2. i + 1 = id + 1 + (j + 1) - n /\ i + 1 \in 0 .. n /\ i \in 0 .. n
      BY <1>1, <2>1, <2>8, <3>1
    <3>3. F(i) \in Nat /\ F(id + 1) \in Nat /\ F(n) \in Nat
      BY <1>1, <1>2, <3>2
    <3>4. taken(j + 1) = F(n) - F(id + 1) + F(i + 1)
      BY <2>8, <3>2
    <3>5. taken(j) = F(n) - F(id + 1) + F(i)
      <4>1. CASE id + 1 + j = n
        <5>1. i = 0 /\ F(0) = 0
          BY <1>1, <3>1, <4>1, FrontFirst
        <5>2. taken(j) = F(n) - F(id + 1)
          BY <1>1, <4>1
        <5> HIDE DEF F, i, taken
        <5> QED
          BY <3>3, <5>1, <5>2
      <4>2. CASE id + 1 + j # n
        BY <1>1, <2>8, <3>1, <4>2
      <4> QED
        BY <4>1, <4>2
    <3> HIDE DEF F, i, f, taken
    <3> QED
      BY <2>2, <2>3, <2>4, <2>6, <3>3, <3>4, <3>5
  <2> QED
    BY <2>7, <2>8
<1>7. Sum(f, 1 .. c - 1) = taken(c - 1)
  <2>1. Nat \subseteq P
    <3> HIDE DEF P
    <3> QED
      BY <1>5, <1>6, AllNumbers
  <2>2. c - 1 \in P
    <3> HIDE DEF P
    <3> QED
      BY <1>1, <2>1
  <2>3. c - 1 <= c - 1
    BY <1>1
  <2> HIDE DEF f, taken, c
  <2> QED
    BY <2>2, <2>3
<1>8. GroupsToGenerate(l, id) = Sum(f, 1 .. c - 1)
  BY DEF GroupsToGenerate, SumFunction, Sum, SumFunctionOnSet
<1>9. taken(c - 1) = F(End(l, id)) - F(id + 1) + F(Over(l, id))
  <2>1. CASE id + c < n
    BY <1>1, <1>2, <2>1, FrontFirst DEF End, Over
  <2>2. CASE id + c = n
    BY <1>1, <1>2, <2>2, FrontFirst DEF End, Over
  <2>3. CASE id + c > n
    BY <1>1, <2>3 DEF End, Over
  <2> QED
    BY <1>1, <2>1, <2>2, <2>3
<1> QED
  BY <1>7, <1>8, <1>9

\* A number of groups from one on, and then a number of groups from the start.
TwoParts(right, left, first) ==
  [k \in 0 .. right + left - 1 |-> IF k < right THEN first + k ELSE k - right]

\* A server's memory: its chunks up to the last one, then the wrapped ones.
LEMMA MemoryParts ==
  ASSUME NEW l \in AllLayouts, NEW id \in Ids(l)
  PROVE  Memory(l, id) =
           TwoParts(Front(l, End(l, id)) - Front(l, id), Front(l, Over(l, id)), Front(l, id))
<1>1. Memory(l, id) = TwoParts(GroupsForServerRight(l, id), GroupsForServerLeft(l, id),
                               GroupsForServerLeft(l, id) + GroupsToIgnore(l, id))
  BY DEF Memory, TwoParts
<1>2. GroupsForServerLeft(l, id) + GroupsToIgnore(l, id) = Front(l, id)
  BY Loops, FrontsOrdered
<1> QED
  BY <1>1, <1>2, Loops

\* What the client expands a seed over: the same without the server's own chunk.
LEMMA ClientParts ==
  ASSUME NEW l \in AllLayouts, NEW id \in Ids(l)
  PROVE  ClientRange(l, id) =
           TwoParts(Front(l, End(l, id)) - Front(l, id + 1), Front(l, Over(l, id)), Front(l, id + 1))
<1>1. ClientRange(l, id) = TwoParts(GroupsRight(l, id), GroupsLeft(l, id), SkipGroups(l, id))
  BY DEF ClientRange, TwoParts
<1> QED
  BY <1>1, Loops

LEMMA SlicesAgree ==
  ASSUME NEW l \in AllLayouts, NEW id \in Ids(l)
  PROVE  /\ ClientSlice(l, id) =
              [k \in 0 .. Front(l, id + 1) - Front(l, id) - 1 |-> Front(l, id) + k]
         /\ ServerSlice(l, id) = ClientSlice(l, id)
<1> DEFINE own == Front(l, id)
           next == Front(l, id + 1)
           last == Front(l, End(l, id))
           over == Front(l, Over(l, id))
<1>1. /\ own \in Nat /\ next \in Nat /\ last \in Nat /\ over \in Nat
      /\ own <= next /\ next <= last
      /\ ChunksGroupsMap(l)[id] = next - own
  BY FrontsOrdered
<1>2. ClientSlice(l, id) = [k \in 0 .. next - own - 1 |-> own + k]
  BY <1>1 DEF ClientSlice, Front
<1>3. ServerSlice(l, id) = [k \in 0 .. next - own - 1 |-> Memory(l, id)[k]]
  BY <1>1 DEF ServerSlice
<1>4. Memory(l, id) = TwoParts(last - own, over, own)
  BY MemoryParts
<1> HIDE DEF own, next, last, over
<1>5. \A k \in 0 .. next - own - 1 : Memory(l, id)[k] = own + k
  BY <1>1, <1>4 DEF TwoParts
<1>6. ServerSlice(l, id) = [k \in 0 .. next - own - 1 |-> own + k]
  BY <1>3, <1>5
<1> QED
  BY <1>2, <1>6 DEF own, next

LEMMA ExpansionsAgree ==
  ASSUME NEW l \in AllLayouts, NEW id \in Ids(l)
  PROVE  ServerRange(l, id) = ClientRange(l, id)
<1> DEFINE own == Front(l, id)
           next == Front(l, id + 1)
           last == Front(l, End(l, id))
           over == Front(l, Over(l, id))
<1>1. /\ own \in Nat /\ next \in Nat /\ last \in Nat /\ over \in Nat
      /\ own <= next /\ next <= last
      /\ ChunksGroupsMap(l)[id] = next - own
  BY FrontsOrdered
<1>2. ClientRange(l, id) = TwoParts(last - next, over, next)
  BY ClientParts
<1>3. ServerRange(l, id) =
        [k \in 0 .. last - next + over - 1 |-> Memory(l, id)[next - own + k]]
  BY <1>1, OneLoop DEF ServerRange, DbOffset
<1>4. Memory(l, id) = TwoParts(last - own, over, own)
  BY MemoryParts
<1> HIDE DEF own, next, last, over
<1>5. ASSUME NEW k \in 0 .. last - next + over - 1
      PROVE  TwoParts(last - own, over, own)[next - own + k] = TwoParts(last - next, over, next)[k]
  <2> DEFINE p == next - own + k
  <2>1. p \in 0 .. last - own + over - 1
    BY <1>1
  <2>2. TwoParts(last - own, over, own)[p] = IF p < last - own THEN own + p ELSE p - (last - own)
    <3> HIDE DEF p
    <3> QED
      BY <2>1 DEF TwoParts
  <2>3. TwoParts(last - next, over, next)[k] = IF k < last - next THEN next + k ELSE k - (last - next)
    BY DEF TwoParts
  <2>4. (p < last - own <=> k < last - next) /\ own + p = next + k /\ p - (last - own) = k - (last - next)
    BY <1>1
  <2> HIDE DEF p
  <2>5. TwoParts(last - own, over, own)[p] = TwoParts(last - next, over, next)[k]
    BY <2>2, <2>3, <2>4
  <2> QED
    BY <2>5 DEF p
<1>6. TwoParts(last - next, over, next) =
        [k \in 0 .. last - next + over - 1 |-> TwoParts(last - next, over, next)[k]]
  BY DEF TwoParts
<1> QED
  BY <1>2, <1>3, <1>4, <1>5, <1>6

LEMMA SliceRange ==
  ASSUME NEW l \in AllLayouts, NEW id \in Ids(l), NEW g \in Int
  PROVE  g \in Range(ClientSlice(l, id)) <=> Front(l, id) <= g /\ g < Front(l, id + 1)
<1> DEFINE own == Front(l, id)
           next == Front(l, id + 1)
<1>1. ClientSlice(l, id) = [k \in 0 .. next - own - 1 |-> own + k]
  BY SlicesAgree
<1>2. own \in Nat /\ next \in Nat
  BY FrontsOrdered
<1> HIDE DEF own, next
<1>3. Range(ClientSlice(l, id)) = {own + k : k \in 0 .. next - own - 1}
  BY <1>1 DEF Range
<1>4. ASSUME own <= g, g < next
      PROVE  g \in {own + k : k \in 0 .. next - own - 1}
  <2>1. g - own \in 0 .. next - own - 1 /\ own + (g - own) = g
    BY <1>2, <1>4
  <2> QED
    BY <2>1
<1>5. g \in {own + k : k \in 0 .. next - own - 1} => own <= g /\ g < next
  BY <1>2
<1> QED
  BY <1>3, <1>4, <1>5 DEF own, next

LEMMA ExpansionMissesSlice ==
  ASSUME NEW l \in AllLayouts, NEW id \in Ids(l)
  PROVE  Range(ClientRange(l, id)) \cap Range(ClientSlice(l, id)) = {}
<1> DEFINE own == Front(l, id)
           next == Front(l, id + 1)
           last == Front(l, End(l, id))
           over == Front(l, Over(l, id))
           G(k) == IF k < last - next THEN next + k ELSE k - (last - next)
<1>1. /\ own \in Nat /\ next \in Nat /\ last \in Nat /\ over \in Nat
      /\ over <= own /\ next <= last
  BY FrontsOrdered
<1>. ClientRange(l, id) = TwoParts(last - next, over, next)
  BY ClientParts
<1> HIDE DEF own, next, last, over
<1>2. Range(ClientRange(l, id)) = {G(k) : k \in 0 .. last - next + over - 1}
  BY DEF Range, TwoParts
<1>3. ASSUME NEW k \in 0 .. last - next + over - 1
      PROVE  G(k) \in Int /\ (G(k) >= next \/ G(k) < own)
  BY <1>1
<1>4. \A k \in 0 .. last - next + over - 1 : G(k) \notin Range(ClientSlice(l, id))
  <2> HIDE DEF G
  <2>1. \A k \in 0 .. last - next + over - 1 :
          G(k) \in Int /\ ~(own <= G(k) /\ G(k) < next)
    BY <1>1, <1>3
  <2> QED
    BY <2>1, SliceRange DEF own, next
<1> HIDE DEF G
<1> QED
  BY <1>2, <1>4

\* Every group is in the slice of one server.
LEMMA SlicesPartition ==
  ASSUME NEW l \in AllLayouts, NEW g \in 0 .. l.groups - 1
  PROVE  \E id \in Ids(l) :
           /\ g \in Range(ClientSlice(l, id))
           /\ \A other \in Ids(l) \ {id} : g \notin Range(ClientSlice(l, other))
<1> DEFINE n == l.servers
           T == {j \in 0 .. n : g < Front(l, j)}
<1>1. n \in Nat /\ l.groups \in Nat /\ g \in Nat /\ g < l.groups
  BY LayoutType
<1>2. n \in T
  BY <1>1, FrontAll
<1>3. PICK j \in T : \A i \in T : j <= i
  <2>1. T \subseteq Nat /\ T # {}
    BY <1>2
  <2> HIDE DEF T
  <2> QED
    BY <2>1, LeastNumber
<1>4. j \in 0 .. n /\ g < Front(l, j) /\ j # 0
  BY <1>1, <1>3, FrontFirst
<1>5. j - 1 \in Ids(l) /\ (j - 1) + 1 = j /\ j - 1 \in 0 .. n
  BY <1>1, <1>4 DEF Ids
<1>6. Front(l, j - 1) <= g
  <2>1. j - 1 \notin T
    <3> HIDE DEF T
    <3> QED
      BY <1>3, <1>5
  <2> QED
    BY <1>1, <1>5, <2>1, FrontType
<1>7. g \in Range(ClientSlice(l, j - 1))
  BY <1>1, <1>4, <1>5, <1>6, SliceRange
<1>8. ASSUME NEW other \in Ids(l) \ {j - 1}
      PROVE  g \notin Range(ClientSlice(l, other))
  <2>1. other \in Nat /\ other + 1 \in 0 .. n /\ other \in 0 .. n
    BY <1>1 DEF Ids
  <2>2. Front(l, other) \in Nat /\ Front(l, other + 1) \in Nat /\ Front(l, j) \in Nat /\ Front(l, j - 1) \in Nat
    BY <1>4, <1>5, <2>1, FrontType
  <2>3. CASE other < j - 1
    <3>1. other + 1 \in 0 .. j - 1
      BY <1>5, <2>1, <2>3
    <3>2. Front(l, other + 1) <= Front(l, j - 1)
      BY <1>5, <3>1, FrontMonotone
    <3> QED
      BY <1>1, <1>6, <2>2, <3>2, SliceRange
  <2>4. CASE other > j - 1
    <3>1. j \in 0 .. other
      BY <1>4, <1>5, <2>1, <2>4
    <3>2. Front(l, j) <= Front(l, other)
      BY <2>1, <3>1, FrontMonotone
    <3> QED
      BY <1>1, <1>4, <2>2, <3>2, SliceRange
  <2> QED
    BY <1>5, <2>1, <2>3, <2>4
<1> QED
  BY <1>5, <1>7, <1>8

\* The three computations of the ranges agree.
LEMMA LayoutAgrees ==
  ASSUME NEW l \in AllLayouts
  PROVE  SameRanges(l)
<1>1. \A id \in Ids(l) : ClientRange(l, id) = ServerRange(l, id) /\ ClientSlice(l, id) = ServerSlice(l, id)
  BY ExpansionsAgree, SlicesAgree
<1>2. \A id \in Ids(l) : Range(ClientRange(l, id)) \cap Range(ClientSlice(l, id)) = {}
  BY ExpansionMissesSlice
<1> QED
  BY <1>1, <1>2, SlicesPartition DEF SameRanges

-----------------------------------------------------------------------------
(***************************************************************************)
(* quicksort.  The invariant of its loop says where the entries are that   *)
(* are compared with the pivot; the recursion is shown to sort any part of *)
(* a database by induction over the length of the part.                    *)
(***************************************************************************)

(* The numbers of an interval have a property if the first has it and each *)
(* one hands it on.                                                        *)
LEMMA IntervalInduction ==
  ASSUME NEW a \in Int, NEW b \in Int, NEW P, a \in P,
         \A i \in a + 1 .. b : i - 1 \in P => i \in P
  PROVE  a .. b \subseteq P
<1> DEFINE T == {k \in Nat : a + k \in a .. b /\ a + k \notin P}
<1> SUFFICES ASSUME T # {}
             PROVE  FALSE
  <2> SUFFICES ASSUME NEW i \in a .. b
               PROVE  i \in P
    OBVIOUS
  <2>1. i - a \in Nat /\ a + (i - a) = i
    OBVIOUS
  <2>2. i - a \notin T
    OBVIOUS
  <2> QED
    BY <2>1, <2>2
<1>1. T \subseteq Nat
  OBVIOUS
<1>2. PICK k \in T : \A j \in T : k <= j
  <2> HIDE DEF T
  <2> QED
    BY <1>1, LeastNumber
<1>3. k # 0
  OBVIOUS
<1>4. k - 1 \in Nat /\ k - 1 \notin T
  <2> k \in Nat
    OBVIOUS
  <2> HIDE DEF T
  <2> QED
    BY <1>2, <1>3
<1>5. a + k \in a + 1 .. b /\ (a + k) - 1 = a + (k - 1)
  BY <1>3
<1> QED
  BY <1>4, <1>5

(* The elements of a set have a property if each one has it when those of  *)
(* a smaller measure have it.                                              *)
LEMMA MeasureInduction ==
  ASSUME NEW A, NEW m \in [A -> Nat], NEW P,
         \A a \in A : (\A b \in A : m[b] < m[a] => b \in P) => a \in P
  PROVE  A \subseteq P
<1> DEFINE D == {a \in A : a \notin P}
           T == {m[a] : a \in D}
<1> SUFFICES ASSUME D # {}
             PROVE  FALSE
  OBVIOUS
<1>1. T \subseteq Nat /\ T # {}
  <2>1. \A a \in D : m[a] \in Nat
    OBVIOUS
  <2> HIDE DEF D
  <2> QED
    BY <2>1
<1>2. PICK t \in T : \A u \in T : t <= u
  <2> HIDE DEF T
  <2> QED
    BY <1>1, LeastNumber
<1>3. PICK a \in D : m[a] = t
  BY <1>2
<1>4. ASSUME NEW b \in A, m[b] < m[a]
      PROVE  b \in P
  <2> SUFFICES ASSUME b \in D
               PROVE  FALSE
    OBVIOUS
  <2>1. m[b] \in T /\ m[b] \in Nat /\ m[a] \in Nat
    OBVIOUS
  <2>2. m[a] <= m[b]
    BY <1>2, <1>3, <2>1
  <2> QED
    BY <1>4, <2>1, <2>2
<1> QED
  BY <1>4

-----------------------------------------------------------------------------
(* A database                                                              *)

LEMMA SizeOfDatabase ==
  ASSUME NEW n \in Nat, NEW db, DOMAIN db = 0 .. n - 1
  PROVE  Size(db) = n
<1>1. Cardinality(0 .. n - 1) = n
  BY FS_Interval
<1> QED
  BY <1>1 DEF Size

(* An exchange loses no entry.                                             *)
LEMMA SwapCopies ==
  ASSUME NEW D, IsFiniteSet(D), NEW db, DOMAIN db = D, NEW p \in D, NEW q \in D, NEW e
  PROVE  Copies(DBswap(db, p, q), e) = Copies(db, e)
<1> DEFINE sw == DBswap(db, p, q)
           to(x) == IF x = p THEN q ELSE IF x = q THEN p ELSE x
           S == {x \in D : db[x] = e}
           T == {x \in D : sw[x] = e}
           f == [x \in S |-> to(x)]
<1>1. DOMAIN sw = D
  BY DEF DBswap
<1>2. \A x \in D : to(x) \in D /\ sw[to(x)] = db[x] /\ to(to(x)) = x
  BY DEF DBswap
<1>3. IsFiniteSet(S)
  BY FS_Subset
<1>4. f \in Bijection(S, T)
  <2>1. f \in [S -> T]
    BY <1>2
  <2>2. \A x, y \in S : f[x] = f[y] => x = y
    BY <1>2
  <2>3. \A y \in T : to(y) \in S /\ f[to(y)] = y
    <3>1. \A y \in D : sw[y] = db[to(y)]
      BY <1>2
    <3> HIDE DEF to, sw
    <3> QED
      BY <1>2, <3>1
  <2> HIDE DEF f, S, T
  <2> QED
    BY <2>1, <2>2, <2>3 DEF Bijection, Injection, Surjection, IsInjective
<1>5. ExistsBijection(S, T)
  BY <1>4 DEF ExistsBijection
<1>6. Cardinality(T) = Cardinality(S)
  <2> HIDE DEF S, T
  <2> QED
    BY <1>3, <1>5, FS_Bijection
<1> HIDE DEF sw
<1>7. Copies(sw, e) = Copies(db, e)
  BY <1>1, <1>6 DEF Copies
<1> QED
  BY <1>7 DEF sw

\* What quicksort is called for, when it moves entries.
Stretch(n, V, db, l, r, addressable) ==
  /\ n \in Nat /\ V \subseteq Int /\ db \in [0 .. n - 1 -> V]
  /\ l \in Nat /\ r \in Nat /\ l <= r /\ r < n
  /\ addressable \in Nat \ {0}

\* No entry is lost, and none that has no index of its own moves.
Kept(n, V, db, addressable, e) ==
  /\ e \in [0 .. n - 1 -> V]
  /\ \A v : Copies(e, v) = Copies(db, v)
  /\ \A k \in 0 .. n - 1 : k >= addressable => e[k] = db[k]

\* The entries from l to r stay among themselves.
Within(n, db, l, r, e) ==
  /\ \A k \in 0 .. n - 1 : k < l \/ k > r => e[k] = db[k]
  /\ \A k \in l .. r : \E j \in l .. r : e[k] = db[j]

\* How the loop leaves the entries in front of i, with the pivot db[r].
Parted(db, l, r, i, x) ==
  /\ \A k \in l .. x.cnt - 1 : x.db[k] <= db[r]
  /\ \A k \in x.cnt .. i - 1 : x.db[k] > db[r]
  /\ i <= r => x.db[r] = db[r]
  /\ i = r + 1 => x.db[x.cnt - 1] = db[r]

LoopInv(n, V, db, l, r, addressable, i, x) ==
  /\ x \in [db : [0 .. n - 1 -> V], cnt : Int]
  /\ x.cnt \in l .. i
  /\ i = r + 1 => x.cnt > l
  /\ Kept(n, V, db, addressable, x.db)
  /\ n <= addressable => Within(n, db, l, r, x.db) /\ Parted(db, l, r, i, x)

\* The body of the loop, for the entry in front of i.
Moved(r, addressable, i, x) ==
  IF BelowPivot(x.db, Slot(i - 1, addressable), Slot(r, addressable))
  THEN [db  |-> DBswap(x.db, Slot(x.cnt, addressable), Slot(i - 1, addressable)),
        cnt |-> x.cnt + 1]
  ELSE x

LEMMA SlotType ==
  ASSUME NEW n \in Nat, NEW addressable \in Nat \ {0}, NEW k \in 0 .. n - 1
  PROVE  /\ Slot(k, addressable) \in 0 .. n - 1
         /\ Slot(k, addressable) < addressable
         /\ n <= addressable => Slot(k, addressable) = k
<1>1. /\ k % addressable \in Nat /\ k % addressable < addressable
      /\ k = addressable * (k \div addressable) + (k % addressable)
      /\ k \div addressable \in Nat
  BY Division
<1>2. addressable * (k \div addressable) \in Nat
  BY <1>1
<1>3. k % addressable <= k
  BY <1>1, <1>2
<1>4. k < addressable => k % addressable = k
  BY RemainderBelow
<1> QED
  BY <1>1, <1>3, <1>4 DEF Slot

LEMMA SwapKeeps ==
  ASSUME NEW n, NEW V, NEW db, NEW addressable \in Nat, n \in Nat, NEW e,
         Kept(n, V, db, addressable, e),
         NEW p \in 0 .. n - 1, NEW q \in 0 .. n - 1, p < addressable, q < addressable
  PROVE  Kept(n, V, db, addressable, DBswap(e, p, q))
<1>1. e \in [0 .. n - 1 -> V]
  BY DEF Kept
<1>2. IsFiniteSet(0 .. n - 1)
  BY FS_Interval
<1>3. DBswap(e, p, q) \in [0 .. n - 1 -> V]
  BY <1>1 DEF DBswap
<1>5. ASSUME NEW v
      PROVE  Copies(DBswap(e, p, q), v) = Copies(e, v)
  <2> DEFINE D == 0 .. n - 1
  <2>1. IsFiniteSet(D) /\ DOMAIN e = D /\ p \in D /\ q \in D
    BY <1>1, <1>2
  <2> HIDE DEF D
  <2> QED
    BY <2>1, SwapCopies
<1>4. \A k \in 0 .. n - 1 : k >= addressable => DBswap(e, p, q)[k] = e[k]
  BY <1>1 DEF DBswap
<1> QED
  BY <1>3, <1>4, <1>5 DEF Kept

LEMMA LoopStarts ==
  ASSUME NEW n, NEW V, NEW db, NEW l, NEW r, NEW addressable,
         Stretch(n, V, db, l, r, addressable)
  PROVE  LoopInv(n, V, db, l, r, addressable, l, [db |-> db, cnt |-> l])
<1> DEFINE x == [db |-> db, cnt |-> l]
<1>1. /\ n \in Nat /\ V \subseteq Int /\ db \in [0 .. n - 1 -> V]
      /\ l \in Nat /\ r \in Nat /\ l <= r /\ r < n
  BY DEF Stretch
<1>2. x.db = db /\ x.cnt = l /\ x \in [db : [0 .. n - 1 -> V], cnt : Int]
  BY <1>1
<1>3. Kept(n, V, db, addressable, db)
  BY <1>1 DEF Kept
<1>4. Within(n, db, l, r, db)
  BY <1>1 DEF Within
<1> HIDE DEF x
<1>5. Parted(db, l, r, l, x)
  BY <1>1, <1>2 DEF Parted
<1>6. LoopInv(n, V, db, l, r, addressable, l, x)
  BY <1>1, <1>2, <1>3, <1>4, <1>5 DEF LoopInv
<1> QED
  BY <1>6 DEF x

LEMMA LoopContinues ==
  ASSUME NEW n, NEW V, NEW db, NEW l, NEW r, NEW addressable,
         Stretch(n, V, db, l, r, addressable),
         NEW i \in l + 1 .. r + 1, NEW x,
         LoopInv(n, V, db, l, r, addressable, i - 1, x)
  PROVE  LoopInv(n, V, db, l, r, addressable, i, Moved(r, addressable, i, x))
<1> DEFINE p == Slot(x.cnt, addressable)
           q == Slot(i - 1, addressable)
           pivot == Slot(r, addressable)
           y == Moved(r, addressable, i, x)
<1>1. /\ n \in Nat /\ V \subseteq Int /\ db \in [0 .. n - 1 -> V]
      /\ l \in Nat /\ r \in Nat /\ l <= r /\ r < n
      /\ addressable \in Nat \ {0}
  BY DEF Stretch
<1>2. /\ x \in [db : [0 .. n - 1 -> V], cnt : Int]
      /\ x.cnt \in l .. i - 1
      /\ Kept(n, V, db, addressable, x.db)
  BY DEF LoopInv
<1>3. x.cnt \in 0 .. n - 1 /\ i - 1 \in 0 .. n - 1 /\ r \in 0 .. n - 1 /\ i \in Nat
  BY <1>1, <1>2
<1>4. /\ p \in 0 .. n - 1 /\ q \in 0 .. n - 1 /\ pivot \in 0 .. n - 1
      /\ p < addressable /\ q < addressable
      /\ n <= addressable => p = x.cnt /\ q = i - 1 /\ pivot = r
  BY <1>1, <1>3, SlotType
<1>5. x.db \in [0 .. n - 1 -> V] /\ x.db[q] \in Int /\ x.db[pivot] \in Int
  <2> HIDE DEF p, q, pivot
  <2> QED
    BY <1>1, <1>2, <1>4
<1>6. CASE BelowPivot(x.db, q, pivot)
  <2> DEFINE e == DBswap(x.db, p, q)
  <2>1. y = [db |-> e, cnt |-> x.cnt + 1]
    BY <1>6 DEF Moved
  <2>2. Kept(n, V, db, addressable, e)
    BY <1>1, <1>2, <1>4, SwapKeeps
  <2>3. e \in [0 .. n - 1 -> V]
    BY <2>2 DEF Kept
  <2>4. ASSUME n <= addressable
        PROVE  Within(n, db, l, r, e) /\ Parted(db, l, r, i, y)
    <3>1. p = x.cnt /\ q = i - 1 /\ pivot = r
      BY <1>4, <2>4
    <3>2. Within(n, db, l, r, x.db) /\ Parted(db, l, r, i - 1, x)
      BY <2>4 DEF LoopInv
    <3>3. p \in l .. r /\ q \in l .. r /\ p <= q
      BY <1>1, <1>2, <3>1
    <3>4. \A k \in 0 .. n - 1 : e[k] = IF k = p THEN x.db[q] ELSE IF k = q THEN x.db[p] ELSE x.db[k]
      BY <1>4, <1>5 DEF DBswap
    <3>5. x.db[r] = db[r]
      BY <1>1, <3>2, <3>3, <3>1 DEF Parted
    <3>6. x.db[q] <= db[r]
      BY <1>6, <3>1, <3>5 DEF BelowPivot
    <3> HIDE DEF e, y, p, q, pivot
    <3>7. db[r] \in Int /\ \A k \in 0 .. n - 1 : x.db[k] \in Int
      <4>1. r \in 0 .. n - 1 /\ x.db \in [0 .. n - 1 -> V]
        BY <1>2, <1>3
      <4>2. db[r] \in V /\ \A k \in 0 .. n - 1 : x.db[k] \in V
        BY <1>1, <4>1
      <4> QED
        BY <1>1, <4>2
    <3>8. Within(n, db, l, r, e)
      <4>1. \A k \in 0 .. n - 1 : k < l \/ k > r => e[k] = db[k]
        <5>1. \A k \in 0 .. n - 1 : k < l \/ k > r => k # p /\ k # q
          BY <1>1, <3>3
        <5>2. \A k \in 0 .. n - 1 : k < l \/ k > r => x.db[k] = db[k]
          BY <3>2 DEF Within
        <5> QED
          BY <3>4, <5>1, <5>2
      <4>2. \A k \in l .. r : k \in 0 .. n - 1
        BY <1>1
      <4>3. ASSUME NEW k \in l .. r
            PROVE  \E j \in l .. r : e[k] = db[j]
        <5> DEFINE from == IF k = p THEN q ELSE IF k = q THEN p ELSE k
        <5>1. from \in l .. r
          BY <3>3
        <5>2. e[k] = x.db[from]
          BY <3>4, <4>2
        <5>3. \E j \in l .. r : x.db[from] = db[j]
          <6> HIDE DEF from
          <6> QED
            BY <3>2, <5>1 DEF Within
        <5> QED
          BY <5>2, <5>3
      <4> QED
        BY <4>1, <4>3 DEF Within
    <3>9. y.db = e /\ y.cnt = p + 1
      BY <2>1, <3>1
    <3>10. /\ \A k \in l .. p - 1 : x.db[k] <= db[r]
           /\ \A k \in p .. q - 1 : x.db[k] > db[r]
      BY <3>1, <3>2 DEF Parted
    <3>11. \A k \in l .. p : e[k] <= db[r]
      <4> SUFFICES ASSUME NEW k \in l .. p
                   PROVE  e[k] <= db[r]
        OBVIOUS
      <4>1. k \in 0 .. n - 1 /\ k \in Int /\ p \in Int /\ q \in Int
        BY <1>1, <3>3
      <4>2. CASE k = p
        BY <3>4, <3>6, <4>1, <4>2
      <4>3. CASE k # p
        <5>1. k \in l .. p - 1 /\ k # q
          BY <1>1, <3>3, <4>1, <4>3
        <5> QED
          BY <3>4, <3>10, <4>1, <4>3, <5>1
      <4> QED
        BY <4>2, <4>3
    <3>12. \A k \in p + 1 .. q : e[k] > db[r]
      <4> SUFFICES ASSUME NEW k \in p + 1 .. q
                   PROVE  e[k] > db[r]
        OBVIOUS
      <4>1. k \in 0 .. n - 1 /\ k \in Int /\ p \in Int /\ q \in Int /\ k # p
        BY <1>1, <3>3
      <4>2. CASE k = q
        <5>1. p \in p .. q - 1
          BY <4>1, <4>2
        <5> QED
          BY <3>4, <3>10, <4>1, <4>2, <5>1
      <4>3. CASE k # q
        <5>1. k \in p .. q - 1
          BY <4>1, <4>3
        <5> QED
          BY <3>4, <3>10, <4>1, <4>3, <5>1
      <4> QED
        BY <4>2, <4>3
    <3>13. i <= r => e[r] = db[r]
      <4>1. i <= r => r # q /\ r # p
        BY <1>1, <1>3, <3>1, <3>3
      <4> QED
        BY <1>3, <3>4, <3>5, <4>1
    <3>14. i = r + 1 => e[p] = db[r]
      <4>1. i = r + 1 => q = r
        BY <1>1, <3>1
      <4>2. p \in 0 .. n - 1
        BY <1>1, <3>3
      <4> QED
        BY <3>4, <3>5, <4>1, <4>2
    <3>15. y.cnt - 1 = p /\ y.cnt = p + 1 /\ i - 1 = q
      BY <1>1, <3>1, <3>3, <3>9
    <3> QED
      BY <3>8, <3>9, <3>11, <3>12, <3>13, <3>14, <3>15 DEF Parted
  <2>5. y.db = e /\ y.cnt = x.cnt + 1 /\ y \in [db : [0 .. n - 1 -> V], cnt : Int]
    BY <1>2, <2>1, <2>3
  <2>6. y.cnt \in l .. i /\ y.cnt > l
    BY <1>1, <1>2, <1>3, <2>5
  <2> HIDE DEF e, y
  <2>7. LoopInv(n, V, db, l, r, addressable, i, y)
    BY <2>2, <2>4, <2>5, <2>6 DEF LoopInv
  <2> QED
    BY <2>7 DEF y
<1>7. CASE ~ BelowPivot(x.db, q, pivot)
  <2>1. y = x
    BY <1>7 DEF Moved
  <2>2. x.db[q] > x.db[pivot]
    BY <1>5, <1>7 DEF BelowPivot
  <2>3. i # r + 1
    BY <1>1, <1>5, <2>2
  <2>4. ASSUME n <= addressable
        PROVE  Within(n, db, l, r, x.db) /\ Parted(db, l, r, i, x)
    <3>1. q = i - 1 /\ pivot = r
      BY <1>4, <2>4
    <3>2. Within(n, db, l, r, x.db) /\ Parted(db, l, r, i - 1, x)
      BY <2>4 DEF LoopInv
    <3>3. x.db[r] = db[r]
      BY <1>1, <3>2 DEF Parted
    <3>4. x.db[i - 1] > db[r]
      BY <2>2, <3>1, <3>3
    <3>5. \A k \in x.cnt .. i - 1 : k = i - 1 \/ k \in x.cnt .. (i - 1) - 1
      BY <1>2, <1>3
    <3>6. \A k \in x.cnt .. i - 1 : x.db[k] > db[r]
      BY <3>2, <3>4, <3>5 DEF Parted
    <3> QED
      BY <2>3, <3>2, <3>3, <3>6 DEF Parted
  <2>5. x.cnt \in l .. i
    BY <1>1, <1>2, <1>3
  <2> QED
    BY <1>2, <2>1, <2>3, <2>4, <2>5 DEF LoopInv
<1> QED
  BY <1>6, <1>7

LEMMA MovedType ==
  ASSUME NEW n, NEW V, NEW db, NEW l, NEW r, NEW addressable,
         Stretch(n, V, db, l, r, addressable),
         NEW i \in l + 1 .. r + 1,
         NEW x \in [db : [0 .. n - 1 -> V], cnt : l .. r + 1], x.cnt <= i - 1
  PROVE  /\ Moved(r, addressable, i, x) \in [db : [0 .. n - 1 -> V], cnt : l .. r + 1]
         /\ Moved(r, addressable, i, x).cnt <= i
<1> DEFINE p == Slot(x.cnt, addressable)
           q == Slot(i - 1, addressable)
           e == DBswap(x.db, p, q)
<1>1. /\ n \in Nat /\ l \in Nat /\ r \in Nat /\ l <= r /\ r < n
      /\ addressable \in Nat \ {0}
  BY DEF Stretch
<1>2. x.cnt \in 0 .. n - 1 /\ i - 1 \in 0 .. n - 1
  BY <1>1
<1>3. p \in 0 .. n - 1 /\ q \in 0 .. n - 1
  BY <1>1, <1>2, SlotType
<1>4. e \in [0 .. n - 1 -> V]
  <2> HIDE DEF p, q
  <2> QED
    BY <1>3 DEF DBswap
<1>5. x.cnt + 1 \in l .. r + 1 /\ x.cnt + 1 <= i /\ x.cnt <= i
  BY <1>1
<1> DEFINE y == Moved(r, addressable, i, x)
<1>6. y = [db |-> e, cnt |-> x.cnt + 1] \/ y = x
  BY DEF Moved
<1> HIDE DEF e, y
<1>7. y \in [db : [0 .. n - 1 -> V], cnt : l .. r + 1] /\ y.cnt <= i
  BY <1>4, <1>5, <1>6
<1> QED
  BY <1>7 DEF y

(* The loop of quicksort, to its end.                                      *)
LEMMA PartitionWorks ==
  ASSUME NEW n, NEW V, NEW db, NEW l, NEW r, NEW addressable,
         Stretch(n, V, db, l, r, addressable)
  PROVE  LoopInv(n, V, db, l, r, addressable, r + 1, Partition(db, l, r, addressable))
<1> DEFINE A == l .. r + 1
           B == [db : [0 .. n - 1 -> V], cnt : A]
           m == [i \in A |-> i - l]
           first == [db |-> db, cnt |-> l]
           next(i, x) == Moved(r, addressable, i, x)
           rhs(i, h) == IF i = l THEN first
                        ELSE IF h[i - 1].cnt <= i - 1 THEN next(i, h[i - 1])
                        ELSE h[i - 1]
           F == [i \in A |-> [h \in [A -> B] |-> rhs(i, h)]]
<1>1. /\ n \in Nat /\ l \in Nat /\ r \in Nat /\ l <= r /\ r < n
      /\ db \in [0 .. n - 1 -> V]
  BY DEF Stretch
<1>2. first \in B
  BY <1>1
<1>3. /\ l \in A /\ r + 1 \in A
      /\ \A i \in A : i = l \/ (i \in l + 1 .. r + 1 /\ i - 1 \in A)
  BY <1>1
<1>4. ASSUME NEW i \in A, i # l, NEW x \in B, x.cnt <= i - 1
      PROVE  next(i, x) \in B /\ next(i, x).cnt <= i
  BY <1>3, <1>4, MovedType
<1>5. \E h \in [A -> B] : \A i \in A : h[i] = rhs(i, h)
  <2>1. B # {}
    BY <1>2
  <2>2. m \in [A -> Nat]
    BY <1>1
  <2>3. F \in [A -> [[A -> B] -> B]]
    <3> SUFFICES ASSUME NEW i \in A, NEW h \in [A -> B]
                 PROVE  rhs(i, h) \in B
      <4> HIDE DEF A, B, rhs
      <4> QED
        OBVIOUS
    <3> HIDE DEF A, B, first, next
    <3>1. CASE i = l
      BY <1>2, <3>1
    <3>2. CASE i # l
      <4>1. h[i - 1] \in B
        BY <1>3, <3>2
      <4> QED
        BY <1>4, <3>2, <4>1
    <3> QED
      BY <3>1, <3>2
  <2>4. Descends(A, B, m, F)
    <3> SUFFICES ASSUME NEW i \in A, NEW g \in [A -> B], NEW h \in [A -> B],
                        \A j \in A : m[j] < m[i] => g[j] = h[j]
                 PROVE  rhs(i, g) = rhs(i, h)
      <4> HIDE DEF A, B, m, rhs
      <4> QED
        BY DEF Descends
    <3>1. i # l => i - 1 \in A /\ m[i - 1] < m[i]
      BY <1>1
    <3> HIDE DEF A, B, m, first, next
    <3> QED
      BY <3>1
  <2>5. Recursion(A, B, m, F)
    BY <2>1, <2>2, <2>3, <2>4 DEF Recursion
  <2>6. \E h \in [A -> B] : \A i \in A : h[i] = F[i][h]
    <3> HIDE DEF A, B, m, F
    <3> QED
      BY <2>5, RecursionHasSolution
  <2> HIDE DEF A, B, rhs
  <2> QED
    BY <2>6
<1>6. PICK h \in [A -> B] : \A i \in A : h[i] = rhs(i, h)
  <2> HIDE DEF A, B, rhs
  <2> QED
    BY <1>5
<1>7. \A i \in A : h[i].cnt <= i
  <2> DEFINE P == {i \in A : h[i].cnt <= i}
  <2>1. l \in P
    <3>1. h[l] = first
      BY <1>3, <1>6
    <3> QED
      BY <1>1, <3>1
  <2>2. ASSUME NEW i \in l + 1 .. r + 1, i - 1 \in P
        PROVE  i \in P
    <3>1. i \in A /\ i # l /\ h[i - 1] \in B /\ h[i - 1].cnt <= i - 1
      BY <1>1, <2>2
    <3>2. h[i] = next(i, h[i - 1])
      <4> HIDE DEF next, first
      <4> QED
        BY <1>6, <3>1
    <3>3. h[i].cnt <= i
      <4> HIDE DEF next, A, B
      <4> QED
        BY <1>4, <3>1, <3>2
    <3> QED
      BY <3>1, <3>3
  <2>3. l .. r + 1 \subseteq P
    <3>1. l \in Int /\ r + 1 \in Int
      BY <1>1
    <3> HIDE DEF P
    <3> QED
      BY <2>1, <2>2, <3>1, IntervalInduction
  <2> QED
    BY <2>3
<1> DEFINE Loop(g) ==
             [i \in l .. r + 1 |->
                IF i = l THEN [db |-> db, cnt |-> l]
                ELSE IF BelowPivot(g[i - 1].db, Slot(i - 1, addressable), Slot(r, addressable))
                     THEN [db  |-> DBswap(g[i - 1].db, Slot(g[i - 1].cnt, addressable),
                                          Slot(i - 1, addressable)),
                           cnt |-> g[i - 1].cnt + 1]
                     ELSE g[i - 1]]
           upTo == CHOOSE g : g = Loop(g)
<1>8. h = Loop(h)
  <2>1. ASSUME NEW i \in A
        PROVE  h[i] = IF i = l THEN first ELSE next(i, h[i - 1])
    <3>1. CASE i = l
      BY <1>6, <3>1
    <3>2. CASE i # l
      <4>1. i - 1 \in A
        BY <1>3, <3>2
      <4>2. h[i - 1].cnt <= i - 1
        BY <1>7, <4>1
      <4> HIDE DEF A, B, first, next
      <4> QED
        BY <1>6, <3>2, <4>2
    <3> QED
      BY <3>1, <3>2
  <2>2. h = [i \in A |-> IF i = l THEN first ELSE next(i, h[i - 1])]
    <3> HIDE DEF A, B, first, next
    <3> QED
      BY <2>1
  <2> QED
    BY <2>2 DEF Moved
<1>9. upTo = Loop(upTo)
  <2> HIDE DEF Loop
  <2> QED
    BY <1>8
<1>10. Partition(db, l, r, addressable) = upTo[r + 1]
  BY DEF Partition
<1> HIDE DEF upTo
<1>11. \A i \in A : upTo[i] = IF i = l THEN first ELSE next(i, upTo[i - 1])
  BY <1>9 DEF Moved
<1> DEFINE Q == {i \in A : LoopInv(n, V, db, l, r, addressable, i, upTo[i])}
<1>12. l \in Q
  <2>1. upTo[l] = first
    BY <1>3, <1>11
  <2> QED
    BY <1>3, <2>1, LoopStarts
<1>13. ASSUME NEW i \in l + 1 .. r + 1, i - 1 \in Q
       PROVE  i \in Q
  <2>1. i \in A /\ i # l
    BY <1>1
  <2>2. upTo[i] = next(i, upTo[i - 1])
    <3> HIDE DEF next, A
    <3> QED
      BY <1>11, <2>1
  <2>3. LoopInv(n, V, db, l, r, addressable, i - 1, upTo[i - 1])
    BY <1>13
  <2>4. LoopInv(n, V, db, l, r, addressable, i, next(i, upTo[i - 1]))
    BY <2>3, LoopContinues
  <2> HIDE DEF next, A
  <2> QED
    BY <2>1, <2>2, <2>4
<1>14. l .. r + 1 \subseteq Q
  <2>1. l \in Int /\ r + 1 \in Int
    BY <1>1
  <2> HIDE DEF Q
  <2> QED
    BY <1>12, <1>13, <2>1, IntervalInduction
<1>15. r + 1 \in Q
  BY <1>3, <1>14
<1> QED
  BY <1>10, <1>15

\* The entries from l to r of db are sorted in e, and nothing else happens.
SortedBetween(n, V, db, l, r, addressable, e) ==
  /\ Kept(n, V, db, addressable, e)
  /\ n <= addressable =>
       /\ Within(n, db, l, r, e)
       /\ \A p, q \in l .. r : p < q => e[p] <= e[q]

LEMMA KeptTransitive ==
  ASSUME NEW n, NEW V, NEW db, NEW addressable, NEW d, NEW e,
         Kept(n, V, db, addressable, d), Kept(n, V, d, addressable, e)
  PROVE  Kept(n, V, db, addressable, e)
<1>1. \A v : Copies(e, v) = Copies(db, v)
  BY Zenon DEF Kept
<1> QED
  BY <1>1 DEF Kept

(* Two sorted parts on the two sides of the pivot are a sorted whole.      *)
LEMMA PartsSorted ==
  ASSUME NEW n, NEW V, NEW db, NEW l, NEW r, NEW addressable,
         Stretch(n, V, db, l, r, addressable), n <= addressable,
         NEW x, LoopInv(n, V, db, l, r, addressable, r + 1, x),
         NEW left, SortedBetween(n, V, x.db, l, x.cnt - 2, addressable, left),
         NEW e, SortedBetween(n, V, left, x.cnt, r, addressable, e)
  PROVE  /\ Within(n, db, l, r, e)
         /\ \A p, q \in l .. r : p < q => e[p] <= e[q]
<1> DEFINE c == x.cnt
           d == x.db
<1>1. /\ n \in Nat /\ V \subseteq Int /\ db \in [0 .. n - 1 -> V]
      /\ l \in Nat /\ r \in Nat /\ l <= r /\ r < n
  BY DEF Stretch
<1>2. /\ c \in l + 1 .. r + 1
      /\ Within(n, db, l, r, d) /\ Parted(db, l, r, r + 1, x)
  BY <1>1 DEF LoopInv
<1>3. /\ Within(n, d, l, c - 2, left)
      /\ \A p, q \in l .. c - 2 : p < q => left[p] <= left[q]
      /\ left \in [0 .. n - 1 -> V]
  BY DEF SortedBetween, Kept
<1>4. /\ Within(n, left, c, r, e)
      /\ \A p, q \in c .. r : p < q => e[p] <= e[q]
      /\ e \in [0 .. n - 1 -> V]
  BY DEF SortedBetween, Kept
<1>5. /\ \A k \in l .. c - 1 : d[k] <= db[r]
      /\ \A k \in c .. r : d[k] > db[r]
      /\ d[c - 1] = db[r]
  <2>1. \A k \in c .. r : k \in c .. (r + 1) - 1
    BY <1>1
  <2> QED
    BY <1>1, <1>2, <2>1 DEF Parted
<1> HIDE DEF c, d
<1>6. \A k \in l .. r : k \in 0 .. n - 1 /\ k \in Int
  BY <1>1
<1>7. db[r] \in Int /\ \A k \in l .. r : e[k] \in Int /\ left[k] \in Int
  <2>1. db[r] \in V /\ \A k \in l .. r : e[k] \in V /\ left[k] \in V
    BY <1>1, <1>3, <1>4, <1>6
  <2> QED
    BY <1>1, <2>1
<1>8. \A k \in l .. c - 2 : e[k] = left[k] /\ left[k] <= db[r]
  <2> SUFFICES ASSUME NEW k \in l .. c - 2
               PROVE  e[k] = left[k] /\ left[k] <= db[r]
    OBVIOUS
  <2>1. k \in 0 .. n - 1 /\ k < c
    BY <1>1, <1>2
  <2>2. e[k] = left[k]
    BY <1>4, <2>1 DEF Within
  <2>3. PICK j \in l .. c - 2 : left[k] = d[j]
    BY <1>3 DEF Within
  <2>4. j \in l .. c - 1
    BY <1>1, <1>2
  <2> QED
    BY <1>5, <2>2, <2>3, <2>4
<1>9. e[c - 1] = db[r]
  <2>1. c - 1 \in 0 .. n - 1 /\ c - 1 < c /\ c - 1 > c - 2
    BY <1>1, <1>2
  <2>2. e[c - 1] = left[c - 1]
    BY <1>4, <2>1 DEF Within
  <2>3. left[c - 1] = d[c - 1]
    BY <1>3, <2>1 DEF Within
  <2> QED
    BY <1>5, <2>2, <2>3
<1>10. \A k \in c .. r : left[k] = d[k]
  <2>1. \A k \in c .. r : k \in 0 .. n - 1 /\ k > c - 2
    BY <1>1, <1>2
  <2> QED
    BY <1>3, <2>1 DEF Within
<1>11. \A k \in c .. r : e[k] > db[r]
  <2> SUFFICES ASSUME NEW k \in c .. r
               PROVE  e[k] > db[r]
    OBVIOUS
  <2>1. PICK j \in c .. r : e[k] = left[j]
    BY <1>4 DEF Within
  <2> QED
    BY <1>5, <1>10, <2>1
<1>12. \A p, q \in l .. r : p < q => e[p] <= e[q]
  <2> SUFFICES ASSUME NEW p \in l .. r, NEW q \in l .. r, p < q
               PROVE  e[p] <= e[q]
    OBVIOUS
  <2>1. p \in Int /\ q \in Int /\ c \in Int /\ e[p] \in Int /\ e[q] \in Int
    BY <1>2, <1>7
  <2>2. CASE q <= c - 2
    <3>1. p \in l .. c - 2 /\ q \in l .. c - 2
      BY <1>1, <2>1, <2>2
    <3> QED
      BY <1>3, <1>8, <3>1
  <2>3. CASE q = c - 1
    <3>1. p \in l .. c - 2
      BY <1>1, <2>1, <2>3
    <3> QED
      BY <1>8, <1>9, <2>3, <3>1
  <2>4. CASE q >= c /\ p < c
    <3>1. q \in c .. r /\ (p \in l .. c - 2 \/ p = c - 1)
      BY <1>1, <2>1, <2>4
    <3>2. e[p] <= db[r] /\ e[q] > db[r]
      BY <1>7, <1>8, <1>9, <1>11, <3>1
    <3> QED
      BY <1>7, <2>1, <3>2
  <2>5. CASE p >= c
    <3>1. p \in c .. r /\ q \in c .. r
      BY <1>1, <2>1, <2>5
    <3> QED
      BY <1>4, <3>1
  <2> QED
    BY <2>1, <2>2, <2>3, <2>4, <2>5
<1>13. \A k \in 0 .. n - 1 : k < l \/ k > r => e[k] = db[k]
  <2> SUFFICES ASSUME NEW k \in 0 .. n - 1, k < l \/ k > r
               PROVE  e[k] = db[k]
    OBVIOUS
  <2>1. (k < c \/ k > r) /\ (k < l \/ k > c - 2)
    BY <1>1, <1>2
  <2>2. e[k] = left[k]
    BY <1>4, <2>1 DEF Within
  <2>3. left[k] = d[k]
    BY <1>3, <2>1 DEF Within
  <2>4. d[k] = db[k]
    BY <1>2 DEF Within
  <2> QED
    BY <2>2, <2>3, <2>4
<1>14. \A k \in l .. r : \E j \in l .. r : e[k] = db[j]
  <2> SUFFICES ASSUME NEW k \in l .. r
               PROVE  \E j \in l .. r : e[k] = db[j]
    OBVIOUS
  <2>1. \E i \in l .. r : e[k] = d[i]
    <3>1. CASE k \in l .. c - 2
      <4>1. e[k] = left[k]
        BY <1>8, <3>1
      <4>2. PICK i \in l .. c - 2 : left[k] = d[i]
        BY <1>3, <3>1 DEF Within
      <4>3. i \in l .. r
        BY <1>1, <1>2
      <4> QED
        BY <4>1, <4>2, <4>3
    <3>2. CASE k = c - 1
      BY <1>5, <1>9, <3>2
    <3>3. CASE k \in c .. r
      <4>1. PICK i \in c .. r : e[k] = left[i]
        BY <1>4, <3>3 DEF Within
      <4>2. i \in l .. r
        BY <1>1, <1>2
      <4> QED
        BY <1>10, <4>1, <4>2
    <3>4. k \in l .. c - 2 \/ k = c - 1 \/ k \in c .. r
      BY <1>1, <1>2
    <3> QED
      BY <3>1, <3>2, <3>3, <3>4
  <2>2. PICK i \in l .. r : e[k] = d[i]
    BY <2>1
  <2>3. \E j \in l .. r : d[i] = db[j]
    BY <1>2 DEF Within
  <2> QED
    BY <2>2, <2>3
<1> QED
  BY <1>12, <1>13, <1>14 DEF Within

LEMMA SortContinues ==
  ASSUME NEW n, NEW V, NEW db, NEW l, NEW r, NEW addressable,
         Stretch(n, V, db, l, r, addressable),
         NEW x, LoopInv(n, V, db, l, r, addressable, r + 1, x),
         NEW left, SortedBetween(n, V, x.db, l, x.cnt - 2, addressable, left),
         NEW e, SortedBetween(n, V, left, x.cnt, r, addressable, e)
  PROVE  SortedBetween(n, V, db, l, r, addressable, e)
<1>1. Kept(n, V, db, addressable, x.db)
  BY DEF LoopInv
<1>2. Kept(n, V, x.db, addressable, left) /\ Kept(n, V, left, addressable, e)
  BY DEF SortedBetween
<1>3. Kept(n, V, db, addressable, e)
  BY <1>1, <1>2, KeptTransitive
<1> QED
  BY <1>3, PartsSorted DEF SortedBetween

(* quicksort, for any part of a database.                                  *)
LEMMA QuickSortWorks ==
  ASSUME NEW n \in Nat, NEW db \in [0 .. n - 1 -> Int], NEW addressable \in Nat \ {0},
         NEW l \in 0 .. n, NEW r \in -1 .. n - 1
  PROVE  SortedBetween(n, Range(db), db, l, r, addressable,
                       QuickSort(db, l, r, addressable))
<1> DEFINE V == Range(db)
           A == Stretches(db)
           B == [0 .. n - 1 -> V]
           m == [s \in A |-> IF s.r > s.l THEN s.r - s.l ELSE 0]
           parted(s) == Partition(s.db, s.l, s.r, addressable)
           first(s) == [db |-> parted(s).db, l |-> s.l, r |-> parted(s).cnt - 2]
           second(s, e) == [db |-> e, l |-> parted(s).cnt, r |-> s.r]
           rhs(s, h) == IF s.l >= s.r THEN s.db ELSE h[second(s, h[first(s)])]
           F == [s \in A |-> [h \in [A -> B] |-> rhs(s, h)]]
<1>1. A = [db : B, l : 0 .. n, r : -1 .. n - 1]
  BY SizeOfDatabase DEF Stretches
<1>2. V \subseteq Int /\ db \in B
  BY DEF Range
<1> HIDE DEF A, B, V
<1>3. ASSUME NEW s \in A, ~ (s.l >= s.r)
      PROVE  /\ Stretch(n, V, s.db, s.l, s.r, addressable)
             /\ LoopInv(n, V, s.db, s.l, s.r, addressable, s.r + 1, parted(s))
             /\ first(s) \in A
             /\ m[first(s)] < m[s]
             /\ \A e \in B : second(s, e) \in A /\ m[second(s, e)] < m[s]
  <2>1. s.db \in B /\ s.l \in 0 .. n /\ s.r \in -1 .. n - 1
    BY <1>1
  <2>2. Stretch(n, V, s.db, s.l, s.r, addressable)
    BY <1>2, <1>3, <2>1 DEF Stretch, B
  <2>3. LoopInv(n, V, s.db, s.l, s.r, addressable, s.r + 1, parted(s))
    <3> DEFINE d == s.db
               a == s.l
               z == s.r
    <3>1. Stretch(n, V, d, a, z, addressable)
      BY <2>2
    <3> HIDE DEF d, a, z
    <3>2. LoopInv(n, V, d, a, z, addressable, z + 1, Partition(d, a, z, addressable))
      BY <3>1, PartitionWorks
    <3> QED
      BY <3>2 DEF d, a, z
  <2> DEFINE x == parted(s)
  <2>4. x.db \in B /\ x.cnt \in s.l + 1 .. s.r + 1
    <3>1. LoopInv(n, V, s.db, s.l, s.r, addressable, s.r + 1, x)
      BY <2>3
    <3> HIDE DEF x
    <3>2. x.cnt \in s.l .. s.r + 1 /\ x.cnt > s.l /\ x.db \in B
      BY <3>1 DEF LoopInv, Kept, B
    <3> QED
      BY <2>1, <3>2
  <2>5. first(s) = [db |-> x.db, l |-> s.l, r |-> x.cnt - 2]
    OBVIOUS
  <2>6. \A e : second(s, e) = [db |-> e, l |-> x.cnt, r |-> s.r]
    OBVIOUS
  <2> HIDE DEF x, parted, first, second
  <2>7. first(s) \in A
    BY <1>1, <1>3, <2>1, <2>4, <2>5
  <2>8. m[first(s)] < m[s]
    <3> DEFINE t == first(s)
    <3>1. t.l = s.l /\ t.r = x.cnt - 2
      BY <2>5
    <3>2. t \in A
      BY <2>7
    <3> HIDE DEF t
    <3>3. m[t] < m[s]
      <4>1. m[t] = IF t.r > t.l THEN t.r - t.l ELSE 0
        BY <3>2
      <4>2. m[s] = s.r - s.l /\ s.l \in Int /\ s.r \in Int /\ s.l < s.r
        BY <1>3, <2>1
      <4> HIDE DEF m
      <4> QED
        BY <2>4, <3>1, <4>1, <4>2
    <3> QED
      BY <3>3 DEF t
  <2>9. ASSUME NEW e \in B
        PROVE  second(s, e) \in A /\ m[second(s, e)] < m[s]
    <3> DEFINE t == second(s, e)
    <3>1. t = [db |-> e, l |-> x.cnt, r |-> s.r]
      BY <2>6
    <3> HIDE DEF t
    <3>2. t \in A
      BY <1>1, <1>3, <2>1, <2>4, <3>1
    <3>3. t.l = x.cnt /\ t.r = s.r
      BY <3>1
    <3>4. m[t] < m[s]
      <4>1. m[t] = IF t.r > t.l THEN t.r - t.l ELSE 0
        BY <3>2
      <4>2. m[s] = s.r - s.l /\ s.l \in Int /\ s.r \in Int /\ s.l < s.r
        BY <1>3, <2>1
      <4> HIDE DEF m
      <4> QED
        BY <2>4, <3>3, <4>1, <4>2
    <3> QED
      BY <3>2, <3>4 DEF t
  <2> QED
    BY <2>2, <2>3, <2>7, <2>8, <2>9
<1>4. m \in [A -> Nat]
  BY <1>1
<1> HIDE DEF m, parted, first, second
<1>5. \E h \in [A -> B] : \A s \in A : h[s] = rhs(s, h)
  <2>1. B # {}
    BY <1>2
  <2>2. F \in [A -> [[A -> B] -> B]]
    <3> SUFFICES ASSUME NEW s \in A, NEW h \in [A -> B]
                 PROVE  rhs(s, h) \in B
      <4> HIDE DEF rhs
      <4> QED
        OBVIOUS
    <3>1. CASE s.l >= s.r
      BY <1>1, <3>1
    <3>2. CASE ~ (s.l >= s.r)
      <4>1. h[first(s)] \in B
        BY <1>3, <3>2
      <4>2. h[second(s, h[first(s)])] \in B
        BY <1>3, <3>2, <4>1
      <4> QED
        BY <3>2, <4>2
    <3> QED
      BY <3>1, <3>2
  <2>3. Descends(A, B, m, F)
    <3> SUFFICES ASSUME NEW s \in A, NEW g \in [A -> B], NEW h \in [A -> B],
                        \A t \in A : m[t] < m[s] => g[t] = h[t]
                 PROVE  rhs(s, g) = rhs(s, h)
      <4> HIDE DEF rhs
      <4> QED
        BY DEF Descends
    <3>1. CASE s.l >= s.r
      BY <3>1
    <3>2. CASE ~ (s.l >= s.r)
      <4>1. g[first(s)] = h[first(s)] /\ h[first(s)] \in B
        BY <1>3, <3>2
      <4>2. g[second(s, h[first(s)])] = h[second(s, h[first(s)])]
        BY <1>3, <3>2, <4>1
      <4> QED
        BY <3>2, <4>1, <4>2
    <3> QED
      BY <3>1, <3>2
  <2>4. Recursion(A, B, m, F)
    BY <1>4, <2>1, <2>2, <2>3 DEF Recursion
  <2>5. \E h \in [A -> B] : \A s \in A : h[s] = F[s][h]
    <3> HIDE DEF F
    <3> QED
      BY <2>4, RecursionHasSolution
  <2> HIDE DEF rhs
  <2> QED
    BY <2>5
<1>6. PICK h \in [A -> B] : \A s \in A : h[s] = rhs(s, h)
  <2> HIDE DEF rhs
  <2> QED
    BY <1>5
<1> DEFINE Calls(g) ==
             [s \in Stretches(db) |->
                IF s.l >= s.r THEN s.db
                ELSE g[[db |-> g[[db |-> Partition(s.db, s.l, s.r, addressable).db, l |-> s.l,
                                  r |-> Partition(s.db, s.l, s.r, addressable).cnt - 2]],
                        l |-> Partition(s.db, s.l, s.r, addressable).cnt, r |-> s.r]]]
           sort == CHOOSE g : g = Calls(g)
<1>7. h = Calls(h)
  <2>1. h = [s \in A |-> rhs(s, h)]
    <3> HIDE DEF rhs
    <3> QED
      BY <1>6
  <2> QED
    BY <2>1 DEF A, parted, first, second
<1>8. sort = Calls(sort)
  <2> HIDE DEF Calls
  <2> QED
    BY <1>7
<1>9. QuickSort(db, l, r, addressable) = sort[[db |-> db, l |-> l, r |-> r]]
  BY DEF QuickSort
<1> HIDE DEF sort
<1>10. \A s \in A : sort[s] = rhs(s, sort)
  BY <1>8 DEF A, parted, first, second
<1> DEFINE P == {s \in A : SortedBetween(n, V, s.db, s.l, s.r, addressable, sort[s])}
<1>11. ASSUME NEW s \in A, \A t \in A : m[t] < m[s] => t \in P
       PROVE  s \in P
  <2>1. CASE s.l >= s.r
    <3>1. sort[s] = s.db
      BY <1>10, <2>1
    <3>2. s.db \in B /\ s.l \in Int /\ s.r \in Int
      BY <1>1
    <3>3. Kept(n, V, s.db, addressable, s.db)
      BY <3>2 DEF Kept, B
    <3>4. Within(n, s.db, s.l, s.r, s.db)
      BY <3>2 DEF Within
    <3>5. \A p, q \in s.l .. s.r : ~ (p < q)
      BY <2>1, <3>2
    <3> QED
      BY <3>1, <3>3, <3>4, <3>5 DEF SortedBetween
  <2>2. CASE ~ (s.l >= s.r)
    <3> DEFINE left == sort[first(s)]
               x == parted(s)
    <3>1. first(s) \in P
      BY <1>3, <1>11, <2>2
    <3>2. SortedBetween(n, V, x.db, s.l, x.cnt - 2, addressable, left)
      <4>1. first(s).db = x.db /\ first(s).l = s.l /\ first(s).r = x.cnt - 2
        BY DEF first
      <4> HIDE DEF left, x
      <4>2. SortedBetween(n, V, first(s).db, first(s).l, first(s).r, addressable, left)
        BY <3>1 DEF left
      <4> QED
        BY <4>1, <4>2
    <3>3. left \in B
      <4> HIDE DEF left, x
      <4> QED
        BY <3>2 DEF SortedBetween, Kept, B
    <3>4. second(s, left) \in P
      <4> HIDE DEF left
      <4> QED
        BY <1>3, <1>11, <2>2, <3>3
    <3> DEFINE t == second(s, left)
    <3>5. SortedBetween(n, V, left, x.cnt, s.r, addressable, sort[t])
      <4>1. t.db = left /\ t.l = x.cnt /\ t.r = s.r
        BY DEF second
      <4> HIDE DEF left, x, t
      <4>2. SortedBetween(n, V, t.db, t.l, t.r, addressable, sort[t])
        BY <3>4 DEF t
      <4> QED
        BY <4>1, <4>2
    <3>6. sort[s] = sort[t]
      BY <1>10, <2>2
    <3>7. /\ Stretch(n, V, s.db, s.l, s.r, addressable)
          /\ LoopInv(n, V, s.db, s.l, s.r, addressable, s.r + 1, x)
      BY <1>3, <2>2
    <3> HIDE DEF left, x, t
    <3>8. SortedBetween(n, V, s.db, s.l, s.r, addressable, sort[t])
      BY <3>2, <3>5, <3>7, SortContinues
    <3> QED
      BY <3>6, <3>8
  <2> QED
    BY <2>1, <2>2
<1>12. A \subseteq P
  <2> HIDE DEF P
  <2> QED
    BY <1>4, <1>11, MeasureInduction
<1>13. [db |-> db, l |-> l, r |-> r] \in A
  BY <1>1, <1>2
<1> DEFINE s == [db |-> db, l |-> l, r |-> r]
<1>14. s \in P /\ s.db = db /\ s.l = l /\ s.r = r
  BY <1>12, <1>13
<1>15. SortedBetween(n, V, s.db, s.l, s.r, addressable, sort[s])
  BY <1>14
<1>16. QuickSort(db, l, r, addressable) = sort[s]
  BY <1>9
<1> HIDE DEF s
<1>17. SortedBetween(n, V, db, l, r, addressable, sort[s])
  BY <1>14, <1>15
<1> QED
  BY <1>16, <1>17 DEF V

\* quicksort of a whole database.
LEMMA DatabaseSorts ==
  ASSUME NEW n \in Nat, NEW db \in [0 .. n - 1 -> Int], NEW addressable \in Nat \ {0}
  PROVE  SortExact(db, addressable)
<1> DEFINE sorted == QuickSort(db, 0, n - 1, addressable)
           V == Range(db)
<1>1. Size(db) = n /\ DOMAIN db = 0 .. n - 1
  BY SizeOfDatabase
<1>2. SortedBetween(n, V, db, 0, n - 1, addressable, sorted)
  BY QuickSortWorks
<1> HIDE DEF sorted, V
<1>3. \A p \in DOMAIN db : Copies(sorted, db[p]) = Copies(db, db[p])
  BY <1>2, Zenon DEF SortedBetween, Kept
<1>4. \A p \in DOMAIN db : p >= addressable => sorted[p] = db[p]
  BY <1>1, <1>2 DEF SortedBetween, Kept
<1>5. Size(db) <= addressable => \A p, q \in DOMAIN db : p < q => sorted[p] <= sorted[q]
  BY <1>1, <1>2 DEF SortedBetween
<1> QED
  BY <1>1, <1>3, <1>4, <1>5 DEF SortExact, sorted

-----------------------------------------------------------------------------
(***************************************************************************)
(* The manifest and the search in it.  Different entries are increasing    *)
(* when they are sorted, so the search ends at the last block that does    *)
(* not begin behind the entry, or behind the manifest.                     *)
(***************************************************************************)

\* A product grows with its factor.
LEMMA ProductMonotone ==
  ASSUME NEW a \in Nat, NEW b \in Nat, NEW k \in Nat, a <= b
  PROVE  k * a \in Nat /\ k * b \in Nat /\ k * a <= k * b
<1>1. b - a \in Nat
  OBVIOUS
<1>2. k * (b - a) \in Nat
  BY <1>1
<1>3. k * b = k * a + k * (b - a) /\ k * a \in Nat
  BY <1>1
<1> QED
  BY <1>2, <1>3

\* A multiple has no remainder.
LEMMA MultipleHasNoRemainder ==
  ASSUME NEW b \in Nat, b > 0, NEW k \in Nat
  PROVE  k * b \in Nat /\ (k * b) \div b = k /\ (k * b) % b = 0
<1> DEFINE a == k * b
<1>1. a \in Nat /\ b * k = a
  OBVIOUS
<1>2. b * k <= a /\ a < b * k + b
  BY <1>1
<1> HIDE DEF a
<1>3. a \div b = k /\ a % b = a - b * k
  BY <1>1, <1>2, OneQuotient
<1> QED
  BY <1>1, <1>3 DEF a

\* The entries of a database are different, and none is the next of another.
Separate(n, db) ==
  \A p, q \in 0 .. n - 1 : (p # q => db[p] # db[q]) /\ db[p] # db[q] + 1

Increasing(n, db) ==
  /\ db \in [0 .. n - 1 -> Int]
  /\ \A p, q \in 0 .. n - 1 : p < q => db[p] < db[q]

(* What quicksort makes of different entries.                              *)
LEMMA SortedIncreasing ==
  ASSUME NEW n \in Nat \ {0}, NEW blinded \in [0 .. n - 1 -> Int], Separate(n, blinded)
  PROVE  /\ Increasing(n, QuickSort(blinded, 0, n - 1, n))
         /\ Separate(n, QuickSort(blinded, 0, n - 1, n))
<1> DEFINE db == QuickSort(blinded, 0, n - 1, n)
           V == Range(blinded)
           D == 0 .. n - 1
<1>1. SortedBetween(n, V, blinded, 0, n - 1, n, db)
  BY QuickSortWorks
<1> HIDE DEF db
<1>2. /\ db \in [D -> V]
      /\ \A p, q \in D : p < q => db[p] <= db[q]
  BY <1>1 DEF SortedBetween, Kept
<1>3. \A v : Copies(db, v) = Copies(blinded, v)
  BY <1>1, Zenon DEF SortedBetween, Kept
<1>4. \A p \in D : \E q \in D : db[p] = blinded[q]
  BY <1>2 DEF Range
<1>5. db \in [D -> Int]
  BY <1>2, <1>4
<1>6. ASSUME NEW p \in D, NEW q \in D, db[p] = db[q]
      PROVE  p = q
  <2>1. PICK x \in D : db[p] = blinded[x]
    BY <1>4
  <2> DEFINE v == blinded[x]
             S == {k \in D : db[k] = v}
  <2>2. {k \in D : blinded[k] = v} = {x}
    BY DEF Separate
  <2>3. Copies(blinded, v) = 1
    <3>1. Copies(blinded, v) = Cardinality({x})
      BY <2>2 DEF Copies
    <3> QED
      BY <3>1, FS_Singleton
  <2>4. Copies(db, v) = Cardinality(S)
    BY <1>2 DEF Copies
  <2>5. IsFiniteSet(S)
    <3>1. IsFiniteSet(D)
      BY FS_Interval
    <3> HIDE DEF D
    <3> QED
      BY <3>1, FS_Subset
  <2>6. p \in S /\ q \in S
    BY <1>6, <2>1
  <2>7. Cardinality(S) = 1
    BY <1>3, <2>3, <2>4
  <2> HIDE DEF S
  <2>8. \E y : S = {y}
    BY <2>5, <2>7, FS_Singleton
  <2> QED
    BY <2>6, <2>8
<1>7. Increasing(n, db)
  <2>1. ASSUME NEW p \in D, NEW q \in D, p < q
        PROVE  db[p] < db[q]
    <3>1. db[p] <= db[q] /\ db[p] # db[q] /\ db[p] \in Int /\ db[q] \in Int
      BY <1>2, <1>5, <1>6, <2>1
    <3> QED
      BY <3>1
  <2> QED
    BY <1>5, <2>1 DEF Increasing
<1>8. Separate(n, db)
  <2>1. ASSUME NEW p \in D, NEW q \in D
        PROVE  db[p] # db[q] + 1
    <3>1. PICK x \in D : db[p] = blinded[x]
      BY <1>4
    <3>2. PICK y \in D : db[q] = blinded[y]
      BY <1>4
    <3>3. blinded[x] # blinded[y] + 1
      BY DEF Separate
    <3> QED
      BY <3>1, <3>2, <3>3
  <2> QED
    BY <1>6, <2>1 DEF Separate
<1> QED
  BY <1>7, <1>8 DEF db

-----------------------------------------------------------------------------
(* How many blocks there are, and where they begin                         *)

LEMMA BlocksCover ==
  ASSUME NEW n \in Nat \ {0}, NEW db, DOMAIN db = 0 .. n - 1, NEW perBlock \in Nat \ {0}
  PROVE  LET blocks == NumBlocks(db, perBlock)
         IN /\ blocks \in Nat \ {0}
            /\ n <= blocks * perBlock
            /\ (blocks - 1) * perBlock < n
<1> DEFINE a == n + perBlock - 1
           B == a \div perBlock
<1>1. NumBlocks(db, perBlock) = B
  BY SizeOfDatabase DEF NumBlocks
<1>2. a \in Nat /\ a >= perBlock
  OBVIOUS
<1>3. /\ B \in Nat /\ a % perBlock \in Nat /\ a % perBlock < perBlock
      /\ a = perBlock * B + (a % perBlock)
  <2> HIDE DEF a
  <2> QED
    BY <1>2, Division
<1> DEFINE rem == a % perBlock
           product == perBlock * B
<1>4. product \in Nat /\ B * perBlock = product /\ (B - 1) * perBlock = product - perBlock
  <2> HIDE DEF B
  <2> QED
    BY <1>3
<1>5. a = product + rem /\ rem \in Nat /\ rem < perBlock
  BY <1>3
<1>6. B # 0
  <2> SUFFICES ASSUME B = 0
               PROVE  FALSE
    OBVIOUS
  <2>1. product = 0
    <3> HIDE DEF B
    <3> QED
      BY <1>3
  <2> HIDE DEF product, rem, a, B
  <2> QED
    BY <1>2, <1>5, <2>1
<1>7. n <= product /\ product - perBlock < n
  <2>1. n = a - perBlock + 1
    OBVIOUS
  <2> HIDE DEF product, rem, a
  <2> QED
    BY <1>4, <1>5, <2>1
<1> HIDE DEF product, B
<1> QED
  BY <1>1, <1>3, <1>4, <1>6, <1>7

(* A block of the manifest is as long as a block of the database if the    *)
(* blocksize divides the size, and shorter if not.                         *)
LEMMA ManifestStride ==
  ASSUME NEW n \in Nat \ {0}, NEW db, DOMAIN db = 0 .. n - 1, NEW perBlock \in Nat \ {0}
  PROVE  LET blocks == NumBlocks(db, perBlock)
             stride == n \div blocks
         IN /\ stride \in Nat
            /\ n % perBlock = 0 => n = blocks * perBlock /\ stride = perBlock
            /\ n % perBlock # 0 => stride < perBlock
<1> DEFINE B == NumBlocks(db, perBlock)
           w == n \div B
           c == n \div perBlock
<1>1. B \in Nat \ {0} /\ n <= B * perBlock /\ (B - 1) * perBlock < n
  BY BlocksCover
<1> HIDE DEF B
<1>2. w \in Nat /\ n % B \in Nat /\ n = B * w + (n % B)
  BY <1>1, Division
<1>3. c \in Nat /\ n = perBlock * c + (n % perBlock)
  BY Division
<1>4. ASSUME n % perBlock = 0
      PROVE  n = B * perBlock /\ w = perBlock
  <2>1. n = c * perBlock
    <3>1. n = perBlock * c
      BY <1>3, <1>4
    <3> HIDE DEF c
    <3> QED
      BY <1>3, <3>1
  <2>2. B = c
    <3> HIDE DEF c
    <3>1. c < B => c * perBlock <= (B - 1) * perBlock
      <4>1. c < B => perBlock * c <= perBlock * (B - 1)
        BY <1>1, <1>3, ProductMonotone
      <4>2. perBlock * c = c * perBlock /\ perBlock * (B - 1) = (B - 1) * perBlock
        BY <1>1, <1>3
      <4> QED
        BY <4>1, <4>2
    <3>2. (B - 1) * perBlock \in Int /\ c * perBlock \in Int /\ B * perBlock \in Int
      BY <1>1, <1>3
    <3>3. ~ (c < B)
      BY <1>1, <2>1, <3>1, <3>2
    <3>4. B < c => (B + 1) * perBlock <= c * perBlock
      <4>1. B < c => perBlock * (B + 1) <= perBlock * c
        BY <1>1, <1>3, ProductMonotone
      <4>2. perBlock * c = c * perBlock /\ perBlock * (B + 1) = (B + 1) * perBlock
        BY <1>1, <1>3
      <4> QED
        BY <4>1, <4>2
    <3>5. (B + 1) * perBlock = B * perBlock + perBlock
      BY <1>1
    <3>6. ~ (B < c)
      BY <1>1, <2>1, <3>2, <3>4, <3>5
    <3> QED
      BY <1>1, <1>3, <3>3, <3>6
  <2>3. n = B * perBlock /\ n = perBlock * B
    <3> HIDE DEF c
    <3> QED
      BY <1>1, <2>1, <2>2
  <2>4. (perBlock * B) \div B = perBlock
    <3>1. B \in Nat /\ B > 0 /\ perBlock \in Nat
      BY <1>1
    <3> QED
      BY <3>1, MultipleHasNoRemainder
  <2> QED
    BY <2>3, <2>4
<1>5. ASSUME n % perBlock # 0
      PROVE  w < perBlock
  <2>1. n # B * perBlock
    <3>1. B \in Nat /\ perBlock > 0 /\ perBlock \in Nat
      BY <1>1
    <3>2. (B * perBlock) % perBlock = 0
      BY <3>1, MultipleHasNoRemainder
    <3> QED
      BY <1>5, <3>2
  <2> HIDE DEF w
  <2>2. perBlock <= w => B * perBlock <= B * w
    BY <1>1, <1>2, ProductMonotone
  <2>3. B * perBlock \in Int /\ B * w \in Int
    BY <1>1, <1>2
  <2> QED
    BY <1>1, <1>2, <2>1, <2>2, <2>3
<1> QED
  BY <1>2, <1>4, <1>5 DEF B

\* The scan of a block finds the entries of the block.
LEMMA ScanFinds ==
  ASSUME NEW n \in Nat \ {0}, NEW db, Increasing(n, db), NEW perBlock, NEW b,
         NEW p \in 0 .. n - 1
  PROVE  InBlock(db, perBlock, b, db[p]) <=> (b * perBlock <= p /\ p < (b + 1) * perBlock)
<1>1. DOMAIN db = 0 .. n - 1 /\ \A q \in 0 .. n - 1 : db[q] \in Int
  BY DEF Increasing
<1>2. \A q \in 0 .. n - 1 : (q < p => db[q] < db[p]) /\ (q > p => db[p] < db[q])
  BY DEF Increasing
<1>3. \A q \in 0 .. n - 1 : db[q] = db[p] => q = p
  <2> SUFFICES ASSUME NEW q \in 0 .. n - 1, db[q] = db[p], q # p
               PROVE  FALSE
    OBVIOUS
  <2>1. q < p \/ q > p
    OBVIOUS
  <2> QED
    BY <1>1, <1>2, <2>1
<1>4. Block(db, perBlock, b) =
        {q \in 0 .. n - 1 : b * perBlock <= q /\ q < (b + 1) * perBlock}
  BY <1>1 DEF Block
<1> DEFINE S == Block(db, perBlock, b)
<1>5. S \subseteq 0 .. n - 1 /\ (p \in S <=> (b * perBlock <= p /\ p < (b + 1) * perBlock))
  BY <1>4
<1> HIDE DEF S
<1>6. (\E x \in S : db[x] = db[p] /\ \A q \in S : q < x => db[q] < db[p]) <=> p \in S
  BY <1>2, <1>3, <1>5
<1> QED
  BY <1>5, <1>6 DEF InBlock, S

LEMMA AlignedManifest ==
  ASSUME NEW n \in Nat \ {0}, NEW db, DOMAIN db = 0 .. n - 1, NEW perBlock \in Nat \ {0},
         n % perBlock = 0
  PROVE  CreateManifest(db, perBlock) =
           [i \in 0 .. NumBlocks(db, perBlock) - 2 |-> db[(i + 1) * perBlock]]
<1>1. Size(db) \div NumBlocks(db, perBlock) = perBlock
  <2>1. Size(db) = n
    BY SizeOfDatabase
  <2>2. n \div NumBlocks(db, perBlock) = perBlock
    BY ManifestStride
  <2> QED
    BY <2>1, <2>2
<1>2. \A i : ManifestIndex(db, perBlock, i) = i * perBlock
  BY <1>1 DEF ManifestIndex
<1> QED
  BY <1>2 DEF CreateManifest

\* Where the search in the manifest ends for the entry at p.
EndsRight(perBlock, blocks, p, ends) ==
  IF p > (blocks - 1) * perBlock \/ blocks = 1 THEN ends = blocks - 1 .. blocks
  ELSE \E c \in 0 .. blocks - 2 :
         ends = {c} /\ p <= (c + 1) * perBlock /\ (c = 0 \/ p > c * perBlock)

LEMMA SearchEnds ==
  ASSUME NEW n \in Nat \ {0}, NEW db, Increasing(n, db), NEW perBlock \in Nat \ {0},
         n % perBlock = 0, NEW p \in 0 .. n - 1
  PROVE  EndsRight(perBlock, NumBlocks(db, perBlock), p,
                   ManifestSearch(CreateManifest(db, perBlock), db[p]))
<1> DEFINE B == NumBlocks(db, perBlock)
           manifest == CreateManifest(db, perBlock)
           stops == {i \in DOMAIN manifest : db[p] <= manifest[i]}
           behind == p > (B - 1) * perBlock \/ B = 1
<1>1. DOMAIN db = 0 .. n - 1 /\ \A q \in 0 .. n - 1 : db[q] \in Int
  BY DEF Increasing
<1>2. B \in Nat \ {0} /\ n = B * perBlock
  BY <1>1, BlocksCover, ManifestStride
<1>3. manifest = [i \in 0 .. B - 2 |-> db[(i + 1) * perBlock]]
  BY <1>1, AlignedManifest
<1> HIDE DEF B, manifest
<1>4. DOMAIN manifest = 0 .. B - 2 /\ Size(manifest) = B - 1
  <2>1. 0 .. B - 2 = 0 .. (B - 1) - 1 /\ B - 1 \in Nat
    BY <1>2
  <2> QED
    BY <1>3, <2>1, SizeOfDatabase
<1>5. ASSUME NEW x \in Nat, NEW y \in Nat, x <= y
      PROVE  x * perBlock \in Nat /\ y * perBlock \in Nat /\ x * perBlock <= y * perBlock
  <2>1. perBlock * x \in Nat /\ perBlock * y \in Nat /\ perBlock * x <= perBlock * y
    BY <1>5, ProductMonotone
  <2>2. perBlock * x = x * perBlock /\ perBlock * y = y * perBlock
    OBVIOUS
  <2> QED
    BY <2>1, <2>2
<1>6. \A i \in 0 .. B - 2 : i \in stops <=> p <= (i + 1) * perBlock
  <2> SUFFICES ASSUME NEW i \in 0 .. B - 2
               PROVE  i \in stops <=> p <= (i + 1) * perBlock
    OBVIOUS
  <2> DEFINE q == (i + 1) * perBlock
  <2>1. q \in 0 .. n - 1
    <3>1. i + 1 \in Nat /\ B - 1 \in Nat /\ i + 1 <= B - 1
      BY <1>2
    <3>2. q \in Nat /\ q <= (B - 1) * perBlock
      BY <1>5, <3>1
    <3>3. B * perBlock = (B - 1) * perBlock + perBlock /\ (B - 1) * perBlock \in Int
      BY <1>2
    <3> HIDE DEF q
    <3> QED
      BY <1>2, <3>2, <3>3
  <2>2. manifest[i] = db[q]
    BY <1>3
  <2> HIDE DEF q
  <2>3. db[p] <= db[q] <=> p <= q
    <3>1. p < q => db[p] < db[q]
      BY <2>1 DEF Increasing
    <3>2. q < p => db[q] < db[p]
      BY <2>1 DEF Increasing
    <3>3. p < q \/ p = q \/ q < p
      BY <2>1
    <3> QED
      BY <1>1, <2>1, <3>1, <3>2, <3>3
  <2> QED
    BY <1>4, <2>2, <2>3 DEF q
<1>7. CASE behind
  <2>1. stops = {}
    <3> SUFFICES ASSUME NEW i \in stops
                 PROVE  FALSE
      OBVIOUS
    <3>1. i \in 0 .. B - 2 /\ p <= (i + 1) * perBlock
      BY <1>4, <1>6
    <3>2. i + 1 \in Nat /\ B - 1 \in Nat /\ i + 1 <= B - 1 /\ B # 1
      BY <1>2, <3>1
    <3>3. (i + 1) * perBlock <= (B - 1) * perBlock /\ (i + 1) * perBlock \in Nat /\ (B - 1) * perBlock \in Nat
      BY <1>5, <3>2
    <3> QED
      BY <1>7, <3>1, <3>2, <3>3
  <2>2. ManifestSearch(manifest, db[p]) = Size(manifest) .. Size(manifest) + MaxStray
    BY <2>1 DEF ManifestSearch
  <2>3. ManifestSearch(manifest, db[p]) = B - 1 .. B
    BY <1>2, <1>4, <2>2 DEF MaxStray
  <2> QED
    BY <1>7, <2>3 DEF EndsRight, B, manifest
<1>8. CASE ~ behind
  <2>1. stops \subseteq Nat /\ B - 2 \in stops
    <3>1. B - 2 \in 0 .. B - 2 /\ (B - 2) + 1 = B - 1
      BY <1>2, <1>8
    <3>2. p <= ((B - 2) + 1) * perBlock
      <4>1. (B - 1) * perBlock \in Int /\ p \in Int
        BY <1>2
      <4>2. p <= (B - 1) * perBlock
        BY <1>8, <4>1
      <4> QED
        BY <3>1, <4>2
    <3>3. B - 2 \in stops
      BY <1>6, <3>1, <3>2
    <3>4. stops \subseteq Nat
      BY <1>4
    <3> QED
      BY <3>3, <3>4
  <2>2. PICK c \in stops : \A j \in stops : c <= j
    <3> HIDE DEF stops
    <3> QED
      BY <2>1, LeastNumber
  <2>3. {i \in stops : \A j \in stops : i <= j} = {c}
    <3>1. \A i \in stops : (\A j \in stops : i <= j) <=> i = c
      <4> HIDE DEF stops
      <4>1. ASSUME NEW i \in stops, \A j \in stops : i <= j
            PROVE  i = c
        <5>1. i \in Nat /\ c \in Nat /\ i <= c /\ c <= i
          BY <2>1, <2>2, <4>1
        <5> QED
          BY <5>1
      <4> QED
        BY <2>2, <4>1
    <3> HIDE DEF stops
    <3> QED
      BY <3>1
  <2>4. ManifestSearch(manifest, db[p]) = {c}
    BY <2>1, <2>3 DEF ManifestSearch
  <2>5. c \in 0 .. B - 2 /\ p <= (c + 1) * perBlock
    BY <1>4, <1>6
  <2>6. c = 0 \/ p > c * perBlock
    <3> SUFFICES ASSUME c # 0, ~ (p > c * perBlock)
                 PROVE  FALSE
      OBVIOUS
    <3>1. c - 1 \in 0 .. B - 2 /\ (c - 1) + 1 = c /\ c * perBlock \in Int
      BY <1>2, <2>5
    <3>2. p <= ((c - 1) + 1) * perBlock
      BY <3>1
    <3>3. c - 1 \in stops
      BY <1>6, <3>1, <3>2
    <3>4. c <= c - 1
      <4> HIDE DEF stops
      <4> QED
        BY <2>2, <3>3
    <3> QED
      BY <2>5, <3>4
  <2> HIDE DEF stops
  <2>7. \E z \in 0 .. B - 2 :
          ManifestSearch(manifest, db[p]) = {z} /\ p <= (z + 1) * perBlock /\ (z = 0 \/ p > z * perBlock)
    BY <2>4, <2>5, <2>6
  <2> QED
    BY <1>8, <2>7 DEF EndsRight, B, manifest
<1> QED
  BY <1>7, <1>8

\* Which entries a client finds: not those that begin a block after the first.
LEMMA FoundEntries ==
  ASSUME NEW n \in Nat \ {0}, NEW db, Increasing(n, db), NEW perBlock \in Nat \ {0},
         n % perBlock = 0, NEW p \in 0 .. n - 1
  PROVE  LET blocks == NumBlocks(db, perBlock)
             ends   == ManifestSearch(CreateManifest(db, perBlock), db[p])
         IN /\ (\E b \in ends : InBlock(db, perBlock, b, db[p])) <=> (p = 0 \/ p % perBlock # 0)
            /\ Cardinality(ends) > 1 <=> (p > (blocks - 1) * perBlock \/ blocks = 1)
<1> DEFINE B == NumBlocks(db, perBlock)
           ends == ManifestSearch(CreateManifest(db, perBlock), db[p])
           behind == p > (B - 1) * perBlock \/ B = 1
           found == \E b \in ends : InBlock(db, perBlock, b, db[p])
<1>1. DOMAIN db = 0 .. n - 1
  BY DEF Increasing
<1>2. B \in Nat \ {0} /\ n = B * perBlock
  BY <1>1, BlocksCover, ManifestStride
<1>3. IF behind THEN ends = B - 1 .. B
      ELSE \E c \in 0 .. B - 2 :
             ends = {c} /\ p <= (c + 1) * perBlock /\ (c = 0 \/ p > c * perBlock)
  <2>1. EndsRight(perBlock, B, p, ends)
    BY SearchEnds
  <2> HIDE DEF B, ends
  <2> QED
    BY <2>1 DEF EndsRight
<1>4. found <=> \E b \in ends : b * perBlock <= p /\ p < (b + 1) * perBlock
  BY ScanFinds
<1> HIDE DEF B, ends, found
<1>5. ASSUME NEW c \in Nat, c * perBlock <= p, p < (c + 1) * perBlock
      PROVE  p = c * perBlock + (p % perBlock) /\ c * perBlock \in Nat /\ p % perBlock \in Nat
  <2>1. p \div perBlock = c
    <3>1. perBlock * c <= p /\ p < perBlock * c + perBlock
      BY <1>5
    <3> QED
      BY <3>1, OneQuotient
  <2>2. p = perBlock * (p \div perBlock) + (p % perBlock) /\ p % perBlock \in Nat
    BY Division
  <2>3. perBlock * c = c * perBlock /\ c * perBlock \in Nat
    OBVIOUS
  <2> QED
    BY <2>1, <2>2, <2>3
<1>6. CASE behind
  <2>1. ends = B - 1 .. B
    BY <1>3, <1>6
  <2>2. Cardinality(ends) = 2
    BY <1>2, <2>1, FS_Interval
  <2>3. /\ B - 1 \in ends /\ B - 1 \in Nat
        /\ (B - 1) * perBlock <= p /\ p < ((B - 1) + 1) * perBlock
    <3>1. (B - 1) + 1 = B /\ (B - 1) * perBlock \in Int
      BY <1>2
    <3>2. (B - 1) * perBlock <= p
      <4>1. B = 1 => (B - 1) * perBlock = 0
        OBVIOUS
      <4> QED
        BY <1>6, <3>1, <4>1
    <3> QED
      BY <1>2, <2>1, <3>1, <3>2
  <2>4. found
    BY <1>4, <2>3
  <2>5. p = 0 \/ p % perBlock # 0
    <3>1. p = (B - 1) * perBlock + (p % perBlock)
      BY <1>5, <2>3
    <3>2. B = 1 => (B - 1) * perBlock = 0
      OBVIOUS
    <3>3. p % perBlock \in Nat /\ (B - 1) * perBlock \in Int
      BY <1>2, Division
    <3> QED
      BY <1>6, <3>1, <3>2, <3>3
  <2> QED
    BY <1>6, <2>2, <2>4, <2>5 DEF B, ends, found
<1>7. CASE ~ behind
  <2>1. PICK c \in 0 .. B - 2 :
          ends = {c} /\ p <= (c + 1) * perBlock /\ (c = 0 \/ p > c * perBlock)
    BY <1>3, <1>7
  <2>2. Cardinality(ends) = 1
    BY <2>1, FS_Singleton
  <2>3. c \in Nat /\ c + 1 \in Nat /\ c * perBlock \in Nat /\ (c + 1) * perBlock = c * perBlock + perBlock
    BY <1>2
  <2>4. found <=> c * perBlock <= p /\ p < (c + 1) * perBlock
    BY <1>4, <2>1
  <2>5. c = 0 => c * perBlock = 0
    OBVIOUS
  <2>6. c * perBlock <= p
    BY <2>1, <2>3, <2>5
  <2>7. ASSUME found
        PROVE  p = 0 \/ p % perBlock # 0
    <3>1. p = c * perBlock + (p % perBlock) /\ p % perBlock \in Nat
      BY <1>5, <2>3, <2>4, <2>7
    <3> QED
      BY <2>1, <2>3, <2>5, <3>1
  <2>8. ASSUME p = 0 \/ p % perBlock # 0
        PROVE  found
    <3>1. p # (c + 1) * perBlock
      <4>1. ((c + 1) * perBlock) % perBlock = 0
        <5>1. perBlock \in Nat /\ perBlock > 0
          OBVIOUS
        <5> QED
          BY <2>3, <5>1, MultipleHasNoRemainder
      <4>2. (c + 1) * perBlock # 0
        BY <2>3
      <4> QED
        BY <2>8, <4>1, <4>2
    <3>2. p < (c + 1) * perBlock
      BY <2>1, <2>3, <3>1
    <3> QED
      BY <2>4, <2>6, <3>2
  <2> QED
    BY <1>7, <2>2, <2>7, <2>8 DEF B, ends, found
<1> QED
  BY <1>6, <1>7

\* The manifest and the search of a client in it.
LEMMA LookupEnds ==
  ASSUME NEW n \in Nat \ {0}, NEW blinded \in [0 .. n - 1 -> Int], Separate(n, blinded),
         NEW perBlock \in Nat \ {0}
  PROVE  LookupFinds(blinded, perBlock)
<1> DEFINE made == GenerateDB(blinded, perBlock)
           db == QuickSort(blinded, 0, n - 1, n)
           B == NumBlocks(db, perBlock)
           w == n \div B
           manifest == CreateManifest(db, perBlock)
           found(e) == \E b \in ManifestSearch(manifest, e) : InBlock(db, perBlock, b, e)
<1>1. Size(blinded) = n
  BY SizeOfDatabase
<1>2. made.db = db /\ made.manifest = manifest
  BY <1>1 DEF GenerateDB
<1>3. Increasing(n, db) /\ Separate(n, db)
  BY SortedIncreasing
<1> HIDE DEF db, made
<1>4. DOMAIN db = 0 .. n - 1 /\ Size(db) = n
  BY <1>3, SizeOfDatabase DEF Increasing
<1>5. /\ B \in Nat \ {0} /\ n <= B * perBlock /\ (B - 1) * perBlock < n
      /\ w \in Nat
      /\ n % perBlock = 0 => n = B * perBlock /\ w = perBlock
      /\ n % perBlock # 0 => w < perBlock
  <2>1. B \in Nat \ {0} /\ n <= B * perBlock /\ (B - 1) * perBlock < n
    BY <1>4, BlocksCover
  <2>2. /\ w \in Nat
        /\ n % perBlock = 0 => n = B * perBlock /\ w = perBlock
        /\ n % perBlock # 0 => w < perBlock
    BY <1>4, ManifestStride
  <2> HIDE DEF B, w
  <2> QED
    BY <2>1, <2>2
<1>6. manifest = [i \in 0 .. B - 2 |-> db[(i + 1) * w]]
  BY <1>4 DEF CreateManifest, ManifestIndex
<1>7. n % perBlock = 0 \/ B = 1 <=>
        \A i \in DOMAIN manifest : manifest[i] = db[(i + 1) * perBlock]
  <2>1. ASSUME n % perBlock = 0 \/ B = 1
        PROVE  \A i \in DOMAIN manifest : manifest[i] = db[(i + 1) * perBlock]
    <3> HIDE DEF w, B
    <3>1. CASE n % perBlock = 0
      BY <1>5, <1>6, <3>1
    <3>2. CASE B = 1
      BY <1>6, <3>2
    <3> QED
      BY <2>1, <3>1, <3>2
  <2>2. ASSUME n % perBlock # 0, B # 1
        PROVE  ~ \A i \in DOMAIN manifest : manifest[i] = db[(i + 1) * perBlock]
    <3> HIDE DEF w, B, manifest
    <3>1. 0 \in 0 .. B - 2 /\ (0 + 1) * w = w /\ (0 + 1) * perBlock = perBlock
      BY <1>5, <2>2
    <3>2. manifest[0] = db[w] /\ 0 \in DOMAIN manifest
      <4>1. manifest[0] = db[(0 + 1) * w]
        BY <1>6, <3>1
      <4> QED
        BY <1>6, <3>1, <4>1
    <3>3. perBlock * 1 <= perBlock * (B - 1)
      <4>1. 1 \in Nat /\ B - 1 \in Nat /\ 1 <= B - 1
        BY <1>5, <2>2
      <4> QED
        BY <4>1, ProductMonotone
    <3>4. perBlock <= (B - 1) * perBlock /\ (B - 1) * perBlock \in Int
      <4>1. perBlock * 1 = perBlock /\ perBlock * (B - 1) = (B - 1) * perBlock
        BY <1>5
      <4> QED
        BY <1>5, <3>3, <4>1
    <3>5. w \in 0 .. n - 1 /\ perBlock \in 0 .. n - 1 /\ w < perBlock
      BY <1>5, <2>2, <3>4
    <3>6. db[w] < db[perBlock] /\ db[w] \in Int /\ db[perBlock] \in Int
      BY <1>3, <3>5 DEF Increasing
    <3>7. manifest[0] # db[(0 + 1) * perBlock]
      BY <3>1, <3>2, <3>6
    <3> QED
      BY <3>2, <3>7
  <2> QED
    BY <2>1, <2>2
<1>8. ASSUME n % perBlock = 0, NEW p \in 0 .. n - 1
      PROVE  /\ found(db[p]) <=> (p = 0 \/ p % perBlock # 0)
             /\ ~ found(db[p] + 1)
             /\ Cardinality(ManifestSearch(manifest, db[p])) > 1 <=>
                  (p > (B - 1) * perBlock \/ B = 1)
  <2>1. ~ found(db[p] + 1)
    <3>1. \A q \in 0 .. n - 1 : db[q] # db[p] + 1
      BY <1>3 DEF Separate
    <3>2. \A b : Block(db, perBlock, b) \subseteq 0 .. n - 1
      BY <1>4 DEF Block
    <3> QED
      BY <3>1, <3>2 DEF InBlock
  <2> QED
    BY <1>3, <1>8, <2>1, FoundEntries
<1> HIDE DEF manifest, B
<1> QED
  BY <1>2, <1>4, <1>7, <1>8 DEF LookupFinds, made, B, manifest

-----------------------------------------------------------------------------
(***************************************************************************)
(* The theorems.  They have two parts: what the algorithm computes for     *)
(* every input there can be, and that the invariant that is checked holds  *)
(* of the specification that gives it some of them.                        *)
(***************************************************************************)

\* Every database, and every one a manifest is made of.
AllDatabases == UNION {[0 .. n - 1 -> Int] : n \in Nat}
AllBlinded ==
  UNION {{db \in [0 .. n - 1 -> Int] : Separate(n, db)} : n \in Nat \ {0}}

\* The job of a behaviour is one of those inputs.
Inputs ==
  /\ job.kind = "layout" => job.layout \in AllLayouts
  /\ job.kind = "gpu" =>
       job.gpu \in Gpu /\ job.groups \in Nat \ {0} /\ job.count \in Nat
  /\ job.kind = "sort" => job.db \in AllDatabases /\ job.addressable \in Nat \ {0}
  /\ job.kind = "lookup" => job.blinded \in AllBlinded /\ job.perBlock \in Nat \ {0}

LEMMA WorkIsInput ==
  ASSUME job \in Work
  PROVE  Inputs
<1>1. CASE job \in [kind : {"fastxor", "pipeline"}]
  BY <1>1 DEF Inputs
<1>2. CASE job \in [kind : {"layout"}, layout : Layouts5]
  <2>1. Layouts5 \subseteq AllLayouts
    BY DEF Layouts5, Layouts, AllLayouts
  <2> QED
    BY <1>2, <2>1 DEF Inputs
<1>3. CASE job \in [kind : {"gpu"}, gpu : Gpus(9, 4, 8), groups : 1 .. 3, count : {1, 5, 9}]
  <2>1. Gpus(9, 4, 8) \subseteq Gpu
    BY DEF Gpus, Gpu
  <2> QED
    BY <1>3, <2>1 DEF Inputs
<1>4. CASE job \in UNION {[kind : {"sort"}, db : [0 .. n - 1 -> 1 .. 3], addressable : 1 .. 5] : n \in 1 .. 5}
  <2>1. PICK n \in 1 .. 5 :
          job \in [kind : {"sort"}, db : [0 .. n - 1 -> 1 .. 3], addressable : 1 .. 5]
    BY <1>4
  <2>2. job.kind = "sort" /\ job.db \in [0 .. n - 1 -> 1 .. 3] /\ job.addressable \in 1 .. 5
    BY <2>1
  <2>3. job.db \in [0 .. n - 1 -> Int]
    BY <2>2
  <2>4. job.db \in AllDatabases
    BY <2>3 DEF AllDatabases
  <2> QED
    BY <2>2, <2>4 DEF Inputs
<1>5. CASE job \in UNION {[kind : {"lookup"}, blinded : Blinded(n), perBlock : 1 .. 3] : n \in {1, 2, 3, 4, 6}}
  <2>1. PICK n \in {1, 2, 3, 4, 6} :
          job \in [kind : {"lookup"}, blinded : Blinded(n), perBlock : 1 .. 3]
    BY <1>5
  <2>2. job.kind = "lookup" /\ job.blinded \in Blinded(n) /\ job.perBlock \in 1 .. 3
    BY <2>1
  <2>3. ASSUME NEW db \in Blinded(n)
        PROVE  db \in AllBlinded
    <3> DEFINE odd == {2 * k + 1 : k \in 1 .. n}
    <3>1. db \in [0 .. n - 1 -> odd] /\ \A p, q \in 0 .. n - 1 : p # q => db[p] # db[q]
      BY DEF Blinded
    <3>2. \A x, y \in odd : x \in Int /\ x # y + 1
      OBVIOUS
    <3> HIDE DEF odd
    <3>3. db \in [0 .. n - 1 -> Int]
      BY <3>1, <3>2
    <3>4. Separate(n, db)
      BY <3>1, <3>2 DEF Separate
    <3>5. n \in Nat \ {0}
      OBVIOUS
    <3> QED
      BY <3>3, <3>4, <3>5 DEF AllBlinded
  <2> QED
    BY <2>2, <2>3 DEF Inputs
<1>6. CASE job \in [kind : {"bytes"}, x : Bytes2, y : Bytes2]
  BY <1>6 DEF Inputs
<1> QED
  BY <1>1, <1>2, <1>3, <1>4, <1>5, <1>6 DEF Work

LEMMA AlwaysInputs == MCSpec => []Inputs
<1>1. MCInit => Inputs
  BY WorkIsInput DEF MCInit
<1>2. Inputs /\ [MCNext]_<<job, vars, pipelineVars>> => Inputs'
  <2>1. [MCNext]_<<job, vars, pipelineVars>> => job' = job
    BY DEF MCNext, XorStep, PipeStep, Done
  <2> QED
    BY <2>1 DEF Inputs
<1> QED
  BY <1>1, <1>2, PTL DEF MCSpec

(***************************************************************************)
(* For any number of servers, chunks and groups: the client and every peer *)
(* server expand a seed over the same groups in the same order and agree   *)
(* on the slice of the query (handleSeed and sendQuery, readDB, precompute *)
(* and execute), no expansion touches the slice of its own server, and     *)
(* every group is in exactly one slice.                                    *)
(***************************************************************************)
THEOREM EveryLayoutAgrees ==
  /\ \A l \in AllLayouts : SameRanges(l)
  /\ MCSpec => []RangesAgree
<1>1. \A l \in AllLayouts : SameRanges(l)
  BY LayoutAgrees
<1>2. Inputs => RangesAgree
  BY <1>1 DEF Inputs, RangesAgree
<1>3. MCSpec => []RangesAgree
  BY <1>2, AlwaysInputs, PTL
<1> QED
  BY <1>1, <1>3

(***************************************************************************)
(* The kernels and the batches that are checked are among those of the     *)
(* theorems of ComputationProofs: every word of a block is computed by one *)
(* thread when the block fits the threads, and every seed of a batch once, *)
(* those of the first round from their own queries.                        *)
(***************************************************************************)
THEOREM EveryKernelExact == MCSpec => []KernelsExact
<1>1. \A g \in Gpu : KernelFillsBlock(g)
  BY EveryKernelFillsBlock
<1>2. \A g \in Gpu : \A groups \in Nat \ {0} : \A count \in Nat : BatchExact(g, groups, count)
  BY EveryBatchExact
<1>3. Inputs => KernelsExact
  BY <1>1, <1>2 DEF Inputs, KernelsExact
<1> QED
  BY <1>3, AlwaysInputs, PTL

(***************************************************************************)
(* For every database: quicksort sorts one whose entries all have an index *)
(* in 32 bits and loses none of its entries, equal ones included; of a     *)
(* larger one it leaves the entries behind those where they are, and loses *)
(* none either.                                                            *)
(***************************************************************************)
THEOREM EveryDatabaseSorted ==
  /\ \A db \in AllDatabases : \A addressable \in Nat \ {0} : SortExact(db, addressable)
  /\ MCSpec => []Sorted
<1>1. ASSUME NEW db \in AllDatabases, NEW addressable \in Nat \ {0}
      PROVE  SortExact(db, addressable)
  <2>1. PICK n \in Nat : db \in [0 .. n - 1 -> Int]
    BY DEF AllDatabases
  <2> QED
    BY <2>1, DatabaseSorts
<1>2. Inputs => Sorted
  BY <1>1 DEF Inputs, Sorted
<1>3. MCSpec => []Sorted
  BY <1>2, AlwaysInputs, PTL
<1> QED
  BY <1>1, <1>3

(***************************************************************************)
(* For every database of different entries, none of them the number after  *)
(* another, and every blocksize: the manifest that generateRandomDB writes *)
(* names the entries that begin the blocks exactly when the blocksize      *)
(* divides the size or there is only one block; when it divides, checkHash *)
(* finds every entry that does not begin a block after the first, no entry *)
(* that is not there, and may read on behind the manifest exactly for the  *)
(* entries behind the start of the last block.                             *)
(***************************************************************************)
THEOREM EveryLookupEnds ==
  /\ \A blinded \in AllBlinded : \A perBlock \in Nat \ {0} : LookupFinds(blinded, perBlock)
  /\ MCSpec => []LookupsFind
<1>1. ASSUME NEW blinded \in AllBlinded, NEW perBlock \in Nat \ {0}
      PROVE  LookupFinds(blinded, perBlock)
  <2>1. PICK n \in Nat \ {0} : blinded \in [0 .. n - 1 -> Int] /\ Separate(n, blinded)
    BY DEF AllBlinded
  <2> QED
    BY <2>1, LookupEnds
<1>2. Inputs => LookupsFind
  BY <1>1 DEF Inputs, LookupsFind
<1>3. MCSpec => []LookupsFind
  BY <1>2, AlwaysInputs, PTL
<1> QED
  BY <1>1, <1>3
=============================================================================

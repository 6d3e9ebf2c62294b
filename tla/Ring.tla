-------------------------------- MODULE Ring --------------------------------
(***************************************************************************)
(* The slots of a memory of m slots that is used as a ring, and a sequence *)
(* of tuples that are numbered one after the other: what the refinements   *)
(* of SeedQueue have in common.                                            *)
(***************************************************************************)
EXTENDS Integers, Sequences, SequenceTheorems, TLAPS

\* The slot k places behind slot o.
At(m, o, k) == IF o + k < m THEN o + k ELSE o + k - m

Behind1(m, o) == IF o + 1 = m THEN 0 ELSE o + 1

\* The tuple with number n, and the k tuples behind number h.
Named(n) == [seed |-> n, value |-> n]

Run(h, k) == [i \in 1 .. k |-> Named(h + i)]

(* The slots a memory has. *)
LEMMA AtInside ==
  ASSUME NEW m \in Nat \ {0}, NEW o \in 0 .. m-1, NEW k \in 0 .. m
  PROVE  At(m, o, k) \in 0 .. m-1
BY DEF At

(* The models write the same with a remainder. *)
LEMMA AtRemainder ==
  ASSUME NEW m \in Nat \ {0}, NEW o \in 0 .. m-1, NEW k \in 0 .. m
  PROVE  (o + k) % m = At(m, o, k)
<1>1. CASE o + k < m
  BY <1>1 DEF At
<1>2. CASE ~(o + k < m)
  <2>1. (o + k - m) \in 0 .. m-1
    BY <1>2
  <2>2. (o + k) % m = (o + k - m) % m
    BY <1>2
  <2>3. (o + k - m) % m = o + k - m
    BY <2>1
  <2> QED
    BY <1>2, <2>2, <2>3 DEF At
<1> QED
  BY <1>1, <1>2

(* Less than a round apart, slots are different. *)
LEMMA AtDiffers ==
  ASSUME NEW m \in Nat \ {0}, NEW o \in 0 .. m-1,
         NEW j \in 0 .. m-1, NEW k \in 0 .. m-1, j # k
  PROVE  At(m, o, j) # At(m, o, k)
BY DEF At

(* One slot on from either end. *)
LEMMA AtSuccessor ==
  ASSUME NEW m \in Nat \ {0}, NEW o \in 0 .. m-1, NEW k \in 0 .. m-1
  PROVE  /\ Behind1(m, o) \in 0 .. m-1
         /\ At(m, Behind1(m, o), k) = At(m, o, k + 1)
         /\ Behind1(m, At(m, o, k)) = At(m, o, k + 1)
         /\ At(m, o, 0) = o
BY DEF At, Behind1

(* A run of tuples is a sequence. *)
LEMMA RunShape ==
  ASSUME NEW h \in Nat, NEW k \in Nat
  PROVE  /\ Run(h, k) \in Seq([seed : Nat, value : Nat])
         /\ Len(Run(h, k)) = k
         /\ \A i \in 1 .. k : Run(h, k)[i] = Named(h + i)
BY DEF Run, Named

(* The first of a run is taken from it. *)
LEMMA RunTail ==
  ASSUME NEW h \in Nat, NEW k \in Nat, k > 0
  PROVE  /\ Run(h, k) # <<>>
         /\ Head(Run(h, k)) = Named(h + 1)
         /\ Tail(Run(h, k)) = Run(h + 1, k - 1)
<1> DEFINE r == Run(h, k)
           q == Run(h + 1, k - 1)
           S == [seed : Nat, value : Nat]
<1>1. r \in Seq(S) /\ Len(r) = k /\ \A i \in 1 .. k : r[i] = Named(h + i)
  BY RunShape
<1>2. k - 1 \in Nat /\ h + 1 \in Nat
  OBVIOUS
<1>3. /\ q \in Seq(S) /\ Len(q) = k - 1
      /\ \A i \in 1 .. k - 1 : q[i] = Named((h + 1) + i)
  BY <1>2, RunShape
<1> HIDE DEF r, q, S
<1>4. r # <<>> /\ Head(r) = r[1]
  BY <1>1
<1>5. /\ Tail(r) \in Seq(S) /\ Len(Tail(r)) = k - 1
      /\ \A i \in 1 .. Len(Tail(r)) : Tail(r)[i] = r[i + 1]
  BY <1>1, <1>4, HeadTailProperties
<1>6. ASSUME NEW i \in 1 .. Len(Tail(r))
      PROVE  Tail(r)[i] = q[i]
  <2>1. i \in 1 .. k - 1 /\ i + 1 \in 1 .. k /\ h + (i + 1) = (h + 1) + i
    BY <1>5
  <2> QED
    BY <2>1, <1>1, <1>3, <1>5
<1>7. Tail(r) = q
  BY <1>3, <1>5, <1>6, SeqEqual
<1> QED
  BY <1>1, <1>4, <1>7 DEF r, q

(* The next tuple is appended to a run. *)
LEMMA RunAppend ==
  ASSUME NEW h \in Nat, NEW k \in Nat
  PROVE  Append(Run(h, k), Named(h + k + 1)) = Run(h, k + 1)
<1> DEFINE r == Run(h, k)
           q == Run(h, k + 1)
           S == [seed : Nat, value : Nat]
           e == Named(h + k + 1)
<1>1. r \in Seq(S) /\ Len(r) = k /\ \A i \in 1 .. k : r[i] = Named(h + i)
  BY RunShape
<1>2. /\ q \in Seq(S) /\ Len(q) = k + 1
      /\ \A i \in 1 .. k + 1 : q[i] = Named(h + i)
  BY RunShape
<1>3. e \in S /\ e = Named(h + (k + 1))
  BY DEF Named
<1> HIDE DEF r, q, S, e
<1>4. /\ Append(r, e) \in Seq(S) /\ Len(Append(r, e)) = k + 1
      /\ \A i \in 1 .. k : Append(r, e)[i] = r[i]
      /\ Append(r, e)[k + 1] = e
  BY <1>1, <1>3, AppendProperties
<1>5. ASSUME NEW i \in 1 .. Len(Append(r, e))
      PROVE  Append(r, e)[i] = q[i]
  <2>1. i \in 1 .. k + 1 /\ (i \in 1 .. k \/ i = k + 1)
    BY <1>4
  <2> QED
    BY <2>1, <1>1, <1>2, <1>3, <1>4
<1>6. Append(r, e) = q
  BY <1>2, <1>4, <1>5, SeqEqual
<1> QED
  BY <1>6 DEF r, q, e
=============================================================================

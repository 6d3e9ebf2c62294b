------------------------------- MODULE FastXor ------------------------------
(***************************************************************************)
(* fastxor of helper.h with OPEN_MP, the form every computation on blocks  *)
(* takes without CUDA: a team of threads shares the iterations of the      *)
(* loop over the groups, the running offset and dest.  Only the addition   *)
(* to dest is in a critical section; the offset is read twice and written  *)
(* by every iteration without any order between the threads.               *)
(*                                                                         *)
(* An entry of the precomputed database is <<group, value>>, the exclusive *)
(* or of the blocks of a group that a byte of the query selects.  A block  *)
(* is the set of entries it is the exclusive or of.  An offset is counted  *)
(* in groups (preOffset bytes), from the start of data.                    *)
(***************************************************************************)
EXTENDS Integers, FiniteSets

CONSTANTS
  NumGroups,  \* groups, the iterations of the loop
  Team,       \* the threads that may run the loop
  Values,     \* the values of a byte of the query
  Blocks,     \* what dest may hold at the start, sets of entries
  Free        \* the critical section when nobody is in it

Iterations == 0 .. NumGroups - 1

ASSUME GroupsAssumption == NumGroups \in Nat
ASSUME BlocksAssumption == Blocks \subseteq SUBSET (Int \X Values)
ASSUME FreeAssumption   == Free \notin Int

VARIABLES
  query,     \* the byte of the query for each group
  start,     \* dest when the loop begins
  thread,    \* which thread of the team runs an iteration
  at,        \* where an iteration is
  offset,    \* the shared offset
  temp,      \* the group an iteration takes its entry from
  register,  \* the offset as an iteration loads it to advance it
  critical,  \* the iteration that is in the critical section
  copy,      \* dest with the iteration's entry added
  dest

vars == <<query, start, thread, at, offset, temp, register, critical, copy, dest>>

Delta(a, b) == (a \ b) \cup (b \ a)

\* The runtime hands the iterations to the threads as it likes; a thread
\* runs those it has in order.
Init ==
  /\ query \in [Iterations -> Values]
  /\ start \in Blocks
  /\ thread \in [Iterations -> Team]
  /\ at = [i \in Iterations |-> "wait"]
  /\ offset = 0
  /\ temp = [i \in Iterations |-> 0]
  /\ register = [i \in Iterations |-> 0]
  /\ critical = Free
  /\ copy = [i \in Iterations |-> {}]
  /\ dest = start

MyTurn(i) == \A j \in 0 .. i - 1 : thread[j] = thread[i] => at[j] = "end"

Move(i, from, to) == at[i] = from /\ at' = [at EXCEPT ![i] = to]

\* temp = offset + query[i] * BLOCKSIZE
Locate(i) ==
  /\ Move(i, "wait", "load") /\ MyTurn(i)
  /\ temp' = [temp EXCEPT ![i] = offset]
  /\ UNCHANGED <<query, start, thread, offset, register, critical, copy, dest>>

\* offset += preOffset is a load of its own and a store.
Load(i) ==
  /\ Move(i, "load", "store")
  /\ register' = [register EXCEPT ![i] = offset]
  /\ UNCHANGED <<query, start, thread, offset, temp, critical, copy, dest>>

\* MUTANT: the offset goes ahead by two groups.
StoreTwice(i) ==
  /\ Move(i, "store", "enter")
  /\ offset' = register[i] + 2
  /\ UNCHANGED <<query, start, thread, temp, register, critical, copy, dest>>

Store(i) ==
  /\ Move(i, "store", "enter")
  /\ offset' = register[i] + 1
  /\ UNCHANGED <<query, start, thread, temp, register, critical, copy, dest>>

Entry(i) == <<temp[i], query[i]>>

\* MUTANT: no critical section.
EnterAnyway(i) ==
  /\ Move(i, "enter", "leave")
  /\ critical' = i
  /\ copy' = [copy EXCEPT ![i] = Delta(dest, {Entry(i)})]
  /\ UNCHANGED <<query, start, thread, offset, temp, register, dest>>

\* xorFullBlocks(dest, &data[temp]) in the critical section.
Enter(i) ==
  /\ Move(i, "enter", "leave") /\ critical = Free
  /\ critical' = i
  /\ copy' = [copy EXCEPT ![i] = Delta(dest, {Entry(i)})]
  /\ UNCHANGED <<query, start, thread, offset, temp, register, dest>>

Leave(i) ==
  /\ Move(i, "leave", "end")
  /\ dest' = copy[i]
  /\ critical' = Free
  /\ UNCHANGED <<query, start, thread, offset, temp, register, copy>>

Finished == \A i \in Iterations : at[i] = "end"

Next ==
  \E i \in Iterations :
    Locate(i) \/ Load(i) \/ Store(i) \/ Enter(i) \/ Leave(i)

Spec == Init /\ [][Next]_vars

-----------------------------------------------------------------------------
Stages == {"wait", "load", "store", "enter", "leave", "end"}

Exclusive == \A i \in Iterations : at[i] = "leave" <=> critical = i

(***************************************************************************)
(* The types of the variables; only the iteration named by critical is     *)
(* between the load and the store of dest.                                 *)
(***************************************************************************)
TypeOK ==
  /\ query \in [Iterations -> Values]
  /\ start \in Blocks
  /\ thread \in [Iterations -> Team]
  /\ at \in [Iterations -> Stages]
  /\ offset \in Nat
  /\ temp \in [Iterations -> Nat]
  /\ register \in [Iterations -> Nat]
  /\ critical \in Iterations \cup {Free}
  /\ copy \in [Iterations -> SUBSET (Int \X Values)]
  /\ dest \in SUBSET (Int \X Values)
  /\ Exclusive

(***************************************************************************)
(* Updates of the offset get lost and its value may go back, but no        *)
(* iteration ever takes an entry from behind the last group: a fault of    *)
(* the race is a wrong result, never an access outside the database.       *)
(***************************************************************************)
Located(i) == at[i] # "wait"
StaysInside == \A i \in Iterations : Located(i) => temp[i] < NumGroups

(***************************************************************************)
(* A team of one thread computes what the sequential loop computes, dest   *)
(* and one entry of every group added; the protocol relies on every server *)
(* and the client computing this.                                          *)
(***************************************************************************)
Alone == \A i, j \in Iterations : thread[i] = thread[j]
Wanted(k) == {<<i, query[i]>> : i \in 0 .. k - 1}
AloneExact == Alone /\ Finished => dest = Delta(start, Wanted(NumGroups))

(***************************************************************************)
(* Whatever the offsets were, the critical section loses no entry: an      *)
(* entry has changed sides in dest exactly if it was added an odd number   *)
(* of times.                                                               *)
(***************************************************************************)
Added(e) == {i \in Iterations : at[i] = "end" /\ Entry(i) = e}
NoEntryLost ==
  \A e \in Iterations \X Values :
    (e \in Delta(start, dest)) <=> (Cardinality(Added(e)) % 2 = 1)
=============================================================================

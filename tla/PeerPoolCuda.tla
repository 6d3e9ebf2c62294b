---------------------------- MODULE PeerPoolCuda ----------------------------
(***************************************************************************)
(* The seed memory filled by precompute as it is built with                *)
(* USE_CUDA_ON_PEER (the default): a thread looks once how many tuples are *)
(* missing, without the mutex, and then adds so many under the mutex.      *)
(***************************************************************************)
EXTENDS PeerPool

VARIABLES
  want,     \* seedsToCompute
  done,     \* the loop index i
  ptr,      \* currentPreSeedPointer
  first,    \* the first seed of the batch, 0 when there is none
  reg,      \* availableSeeds as the thread read it, 0 when it is done with it
  made,     \* history: how many seeds were drawn
  overlap   \* history: two threads were filling the memory at once

producerVars == <<want, done, ptr, first, reg, made, overlap>>
vars == <<mainVars, poolVars, pc, crashed, broken, producerVars>>

\* From the look at the memory to the unlock after the batch.
Filling == {"enter", "draw", "advance", "wrap", "value", "load", "store",
            "leave"}

TypeOK ==
  /\ lock \in BOOLEAN /\ threadTerminated \in BOOLEAN
  /\ t1 \in {"valid", "deleted"}
  /\ availableSeeds \in Nat
  /\ currentSeed \in 0 .. MaxSeeds-1
  /\ currentPreSeed \in Nat
  /\ slot \in [0 .. MaxSeeds-1 -> Tuple]
  /\ main \in Main
  /\ mainReg \in Nat
  /\ taken \in Tuple /\ handed \in Seq(Tuple)
  /\ pc \in [Thread -> {"idle", "begin", "clear", "size"} \cup Filling
                         \cup {"terminate2", "unlock2"}]
  /\ crashed \in BOOLEAN /\ broken \in BOOLEAN /\ overlap \in BOOLEAN
  /\ want \in [Thread -> 0 .. MaxWord]
  /\ done \in [Thread -> 0 .. MaxWord]
  /\ ptr \in [Thread -> Nat]
  /\ first \in [Thread -> Nat]
  /\ reg \in [Thread -> Nat]
  /\ made \in Nat

Init ==
  LET zero == [t \in Thread |-> 0] IN
  /\ PoolInit
  /\ want = zero /\ done = zero /\ ptr = zero /\ first = zero /\ reg = zero
  /\ made = 0
  /\ overlap = FALSE

-----------------------------------------------------------------------------
LockToClear(t) ==
  /\ Lock(t, "begin", "clear")
  /\ UNCHANGED <<mainVars, threadTerminated, availableSeeds, currentPreSeed,
                 slot, crashed, broken, producerVars>>

ClearTerminated(t) ==
  /\ Move(t, "clear", "size")
  /\ threadTerminated' = FALSE
  /\ lock' = FALSE
  /\ UNCHANGED <<mainVars, availableSeeds, currentPreSeed, slot, crashed,
                 broken, producerVars>>

\* maxSeeds - availableSeeds in 32 bits: it wraps around when the memory
\* holds too many tuples.
Missing == (MaxSeeds - availableSeeds) % (MaxWord + 1)

\* seedsToCompute, read without the mutex.
Size(t) ==
  /\ Move(t, "size", "enter")
  /\ overlap' = (overlap \/ \E u \in Thread \ {t} : pc[u] \in Filling)
  /\ want' = [want EXCEPT ![t] = Missing]
  /\ UNCHANGED <<mainVars, poolVars, crashed, broken, done, ptr, first, reg,
                 made>>

\* There is no memory for the queries and blocks of a batch that has wrapped
\* around, but nothing looks at what malloc and calloc return.
TooLarge(t) == want[t] > MaxSeeds

Enter(t) ==
  /\ Lock(t, "enter", IF want[t] = 0 THEN "leave" ELSE "draw")
  /\ ptr' = [ptr EXCEPT ![t] = currentPreSeed]
  /\ UNCHANGED <<mainVars, threadTerminated, availableSeeds, currentPreSeed,
                 slot, crashed, broken, want, done, first, reg, made, overlap>>

\* A write behind the end of the memory does not reach a slot.
WriteSlot(i, part, n) ==
  slot' = IF i < MaxSeeds THEN [slot EXCEPT ![i][part] = n] ELSE slot

\* The query of a seed is expanded before the seed is written: in a batch that
\* is too large the process may end over any of them.
DrawSeed(t) ==
  /\ Move(t, "draw", "advance")
  /\ crashed' \in BOOLEAN /\ (crashed' => TooLarge(t))
  /\ made' = made + 1
  /\ WriteSlot(currentPreSeed, "seed", made')
  /\ first' = [first EXCEPT ![t] = IF @ = 0 THEN made' ELSE @]
  /\ UNCHANGED <<mainVars, lock, threadTerminated, availableSeeds,
                 currentPreSeed, broken, want, done, ptr, reg, overlap>>

AdvancePreSeed(t) ==
  /\ Move(t, "advance", "wrap")
  /\ currentPreSeed' = currentPreSeed + 1
  /\ UNCHANGED <<mainVars, lock, threadTerminated, availableSeeds, slot,
                 crashed, broken, producerVars>>

\* MUTANT: the memory is taken to be one slot shorter.
WrapEarly(i) == IF i = MaxSeeds - 1 THEN 0 ELSE i

Wrap(i) == IF i = MaxSeeds THEN 0 ELSE i

\* What comes after an iteration: the next one or the step behind the loop.
EndIteration(t, from, again, behind) ==
  LET last == done[t] + 1 = want[t] IN
  /\ Move(t, from, IF last THEN behind ELSE again)
  /\ done' = [done EXCEPT ![t] = IF last THEN 0 ELSE @ + 1]

\* compute follows the last seed.  It exits when it cannot allocate the blocks
\* on the device: their number is negative in a batch that is too large.
WrapPreSeed(t) ==
  /\ EndIteration(t, "wrap", "draw", "value")
  /\ currentPreSeed' = Wrap(currentPreSeed)
  /\ crashed' = (TooLarge(t) /\ pc'[t] = "value")
  /\ UNCHANGED <<mainVars, lock, threadTerminated, availableSeeds, slot,
                 broken, want, ptr, first, reg, made, overlap>>

\* compute has filled dest with the values of the batch, in order, but every
\* tuple gets the block at the beginning of dest.
WriteValue(t) ==
  /\ Move(t, "value", "load")
  /\ WriteSlot(ptr[t], "value", first[t])
  /\ UNCHANGED <<mainVars, lock, threadTerminated, availableSeeds,
                 currentPreSeed, crashed, broken, producerVars>>

\* incrementAvailableSeeds reads the counter and writes it back.
LoadCount(t) ==
  /\ Move(t, "load", "store")
  /\ reg' = [reg EXCEPT ![t] = availableSeeds]
  /\ UNCHANGED <<mainVars, poolVars, crashed, broken, want, done, ptr, first,
                 made, overlap>>

StoreCount(t) ==
  /\ EndIteration(t, "store", "value", "leave")
  /\ availableSeeds' = reg[t] + 1
  /\ ptr' = [ptr EXCEPT ![t] = Wrap(@ + 1)]
  /\ reg' = [reg EXCEPT ![t] = 0]
  /\ UNCHANGED <<mainVars, lock, threadTerminated, currentPreSeed, slot,
                 crashed, broken, want, first, made, overlap>>

Leave(t) ==
  /\ Move(t, "leave", "terminate2")
  /\ lock' = FALSE
  /\ want' = [want EXCEPT ![t] = 0]
  /\ first' = [first EXCEPT ![t] = 0]
  /\ ptr' = [ptr EXCEPT ![t] = 0]
  /\ UNCHANGED <<mainVars, threadTerminated, availableSeeds, currentPreSeed,
                 slot, crashed, broken, done, reg, made, overlap>>

\* threadTerminated = true without the mutex: the lock is commented out.
SetTerminated(t) ==
  /\ Move(t, "terminate2", "unlock2")
  /\ threadTerminated' = TRUE
  /\ UNCHANGED <<mainVars, lock, availableSeeds, currentPreSeed, slot, crashed,
                 broken, producerVars>>

UnlockAgain(t) ==
  /\ Move(t, "unlock2", "idle")
  /\ lock' = FALSE
  /\ broken' = (broken \/ lock)
  /\ UNCHANGED <<mainVars, threadTerminated, availableSeeds, currentPreSeed,
                 slot, crashed, producerVars>>

Precompute(t) ==
  \/ LockToClear(t) \/ ClearTerminated(t) \/ Size(t) \/ Enter(t)
  \/ DrawSeed(t) \/ AdvancePreSeed(t) \/ WrapPreSeed(t) \/ WriteValue(t)
  \/ LoadCount(t) \/ StoreCount(t) \/ Leave(t) \/ SetTerminated(t)
  \/ UnlockAgain(t)

ClientStep == StartSession /\ UNCHANGED producerVars

MainStep == Serve /\ UNCHANGED producerVars

Next == ClientStep \/ MainStep \/ \E t \in Thread : Precompute(t)

Spec == Init /\ [][Next]_vars

\* Every thread is scheduled, but nothing says that a client ever comes.
Fairness ==
  /\ WF_vars(MainStep)
  /\ \A t \in Thread : WF_vars(Precompute(t))

FairSpec == Spec /\ Fairness

-----------------------------------------------------------------------------
(***************************************************************************)
(* nextSeed never takes from an empty memory, although the counter changes *)
(* without the mutex it waits for and a batch is counted tuple by tuple.   *)
(***************************************************************************)
NeverUnderflows == main = "store" => mainReg > 0

(***************************************************************************)
(* With PAUSECONDITION 0 a session that finds the memory empty does not    *)
(* wait in vain: a thread has yet to look at the memory, or to add a tuple *)
(* (or, in a batch that is too large, to end the process).                 *)
(* (execute itself sets threadTerminated; with the other conditions a      *)
(* relaunch can be lost between the unlock of a thread and the moment it   *)
(* says that it has ended.)                                                *)
(***************************************************************************)
WillFill(t) ==
  \/ pc[t] \in {"begin", "clear", "size"}
  \/ pc[t] \in Filling \ {"leave"} /\ want[t] > 0

SomeThreadFills ==
  PauseCondition = 0 /\ main = "wait" /\ availableSeeds = 0 /\ ~broken
    => \E t \in Thread : WillFill(t)

\* A launch with no thread left to start.
LaunchWaits ==
  /\ main \in {"launch", "relaunch"}
  /\ threadTerminated
  /\ \A t \in Thread : pc[t] # "idle"

(***************************************************************************)
(* Then every session is served, unless the process ends.  Not claimed     *)
(* when the mutex was broken, or when a launch of execute or nextSeed      *)
(* waits for ever for a thread, for which only the bound on them could be  *)
(* the reason.                                                             *)
(***************************************************************************)
SessionsEnd ==
  []~broken /\ []<>~LaunchWaits
    => (main = "wait" ~> (main = "idle" \/ crashed))

(***************************************************************************)
(* Seeds are handed out once and in the order they were drawn: as far as   *)
(* the seeds go the memory implements SeedQueue, until two threads fill it *)
(* at once or the mutex is broken.  A tuple enters the queue when it is    *)
(* counted, long after its seed was written.                               *)
(***************************************************************************)
Oldest == IF main = "advance" THEN Successor(currentSeed) ELSE currentSeed

BySeed(tuple) == [seed |-> tuple.seed, value |-> tuple.seed]

Queued ==
  [i \in 1 .. availableSeeds |-> BySeed(slot[(Oldest + i - 1) % MaxSeeds])]

Queue == INSTANCE SeedQueue WITH
  queue <- IF overlap \/ broken THEN <<>> ELSE Queued,
  handed <- [i \in 1 .. Len(handed) |-> BySeed(handed[i])],
  degraded <- overlap \/ broken

KeepsOrder == Queue!Spec

(***************************************************************************)
(* What nextSeed returns is used as a "seed-value-pair"                    *)
(* (ClientConnection.cpp:69): the value belongs to the seed as long as one *)
(* thread at a time fills the memory.                                      *)
(***************************************************************************)
TuplesMatch ==
  ~overlap /\ ~broken
    => \A i \in 1 .. Len(handed) : handed[i].seed = handed[i].value
=============================================================================

----------------------------- MODULE PeerPoolCpu -----------------------------
(***************************************************************************)
(* The seed memory filled by precompute as it is built without             *)
(* USE_PRECOMPUTATION_SERVER and USE_CUDA_ON_PEER: a thread computes one   *)
(* tuple at a time without holding the mutex and stores it under it.       *)
(***************************************************************************)
EXTENDS PeerPool

VARIABLES
  own,      \* the seed a thread has drawn, 0 when it has none
  reg,      \* availableSeeds as the thread read it, 0 when it is done with it
  made,     \* history: how many seeds were drawn
  overlap   \* history: two threads were filling the memory at once

producerVars == <<own, reg, made, overlap>>
vars == <<mainVars, poolVars, pc, crashed, broken, producerVars>>

\* The part of precompute that fills the memory.
Filling == {"test", "compute", "relock", "seed", "value", "load", "store",
            "advance", "wrap", "terminate", "leave"}

Starting == {"begin", "clear", "begin2", "clear2", "enter"}
Leaving  == {"terminate2", "unlock2"}

TypeOK ==
  /\ lock \in BOOLEAN
  /\ threadTerminated \in BOOLEAN
  /\ t1 \in {"valid", "deleted"}
  /\ availableSeeds \in Nat
  /\ currentSeed \in 0 .. MaxSeeds-1
  /\ currentPreSeed \in Nat
  /\ slot \in [0 .. MaxSeeds-1 -> Tuple]
  /\ main \in Main
  /\ mainReg \in Nat
  /\ taken \in Tuple
  /\ handed \in Seq(Tuple)
  /\ pc \in [Thread -> {"idle"} \cup Starting \cup Filling \cup Leaving]
  /\ crashed \in BOOLEAN
  /\ broken \in BOOLEAN
  /\ own \in [Thread -> Nat]
  /\ reg \in [Thread -> Nat]
  /\ made \in Nat
  /\ overlap \in BOOLEAN

Init ==
  /\ PoolInit
  /\ own = [t \in Thread |-> 0]
  /\ reg = [t \in Thread |-> 0]
  /\ made = 0
  /\ overlap = FALSE

-----------------------------------------------------------------------------
\* The two places where a new thread announces itself.
LockToClear(t) ==
  /\ Lock(t, "begin", "clear") \/ Lock(t, "begin2", "clear2")
  /\ UNCHANGED <<mainVars, threadTerminated, availableSeeds, currentPreSeed,
                 slot, crashed, broken, producerVars>>

ClearTerminated(t) ==
  /\ Move(t, "clear", "begin2") \/ Move(t, "clear2", "enter")
  /\ threadTerminated' = FALSE
  /\ lock' = FALSE
  /\ UNCHANGED <<mainVars, availableSeeds, currentPreSeed, slot, crashed,
                 broken, producerVars>>

Enter(t) ==
  /\ Lock(t, "enter", "test")
  /\ overlap' = (overlap \/ \E u \in Thread \ {t} : pc[u] \in Filling)
  /\ UNCHANGED <<mainVars, threadTerminated, availableSeeds, currentPreSeed,
                 slot, crashed, broken, own, reg, made>>

\* The condition of the loop; there is room, so the mutex is released.
TestRoom(t) ==
  /\ \/ /\ availableSeeds < MaxSeeds
        /\ Move(t, "test", "compute")
        /\ lock' = FALSE
     \/ /\ availableSeeds >= MaxSeeds
        /\ Move(t, "test", "terminate")
        /\ UNCHANGED lock
  /\ UNCHANGED <<mainVars, threadTerminated, availableSeeds, currentPreSeed,
                 slot, crashed, broken, producerVars>>

\* A new seed is drawn and its value computed.
Compute(t) ==
  /\ Move(t, "compute", "relock")
  /\ made' = made + 1
  /\ own' = [own EXCEPT ![t] = made']
  /\ UNCHANGED <<mainVars, poolVars, crashed, broken, reg, overlap>>

\* MUTANT: a tuple is stored without the mutex.
LockToStoreUnlocked(t) ==
  /\ Move(t, "relock", "seed")
  /\ UNCHANGED <<mainVars, poolVars, crashed, broken, producerVars>>

LockToStore(t) ==
  /\ Lock(t, "relock", "seed")
  /\ UNCHANGED <<mainVars, threadTerminated, availableSeeds, currentPreSeed,
                 slot, crashed, broken, producerVars>>

\* A write behind the end of the memory does not reach a slot.
WriteSlot(t, part) ==
  slot' = IF currentPreSeed < MaxSeeds
            THEN [slot EXCEPT ![currentPreSeed][part] = own[t]]
            ELSE slot

WriteSeed(t) ==
  /\ Move(t, "seed", "value")
  /\ WriteSlot(t, "seed")
  /\ UNCHANGED <<mainVars, lock, threadTerminated, availableSeeds,
                 currentPreSeed, crashed, broken, producerVars>>

WriteValue(t) ==
  /\ Move(t, "value", "load")
  /\ WriteSlot(t, "value")
  /\ own' = [own EXCEPT ![t] = 0]
  /\ UNCHANGED <<mainVars, lock, threadTerminated, availableSeeds,
                 currentPreSeed, crashed, broken, reg, made, overlap>>

\* incrementAvailableSeeds reads the counter and writes it back.
LoadCount(t) ==
  /\ Move(t, "load", "store")
  /\ reg' = [reg EXCEPT ![t] = availableSeeds]
  /\ UNCHANGED <<mainVars, poolVars, crashed, broken, own, made, overlap>>

StoreCount(t) ==
  /\ Move(t, "store", "advance")
  /\ availableSeeds' = reg[t] + 1
  /\ reg' = [reg EXCEPT ![t] = 0]
  /\ UNCHANGED <<mainVars, lock, threadTerminated, currentPreSeed, slot,
                 crashed, broken, own, made, overlap>>

AdvancePreSeed(t) ==
  /\ Move(t, "advance", "wrap")
  /\ currentPreSeed' = currentPreSeed + 1
  /\ UNCHANGED <<mainVars, lock, threadTerminated, availableSeeds, slot,
                 crashed, broken, producerVars>>

\* MUTANT: the memory is taken to be one slot shorter.
WrapEarly(i) == IF i = MaxSeeds - 1 THEN 0 ELSE i

Wrap(i) == IF i = MaxSeeds THEN 0 ELSE i

WrapPreSeed(t) ==
  /\ Move(t, "wrap", "test")
  /\ currentPreSeed' = Wrap(currentPreSeed)
  /\ UNCHANGED <<mainVars, lock, threadTerminated, availableSeeds, slot,
                 crashed, broken, producerVars>>

\* MUTANT: a thread says that it has ended only when it has released the mutex.
SetTerminatedLate(t) ==
  /\ Move(t, "terminate", "leave") \/ Move(t, "terminate2", "unlock2")
  /\ threadTerminated' = (pc[t] = "terminate2" \/ threadTerminated)
  /\ UNCHANGED <<mainVars, lock, availableSeeds, currentPreSeed, slot, crashed,
                 broken, producerVars>>

\* threadTerminated = true, first under the mutex and then without it.
SetTerminated(t) ==
  /\ Move(t, "terminate", "leave") \/ Move(t, "terminate2", "unlock2")
  /\ threadTerminated' = TRUE
  /\ UNCHANGED <<mainVars, lock, availableSeeds, currentPreSeed, slot, crashed,
                 broken, producerVars>>

Leave(t) ==
  /\ Move(t, "leave", "terminate2")
  /\ lock' = FALSE
  /\ UNCHANGED <<mainVars, threadTerminated, availableSeeds, currentPreSeed,
                 slot, crashed, broken, producerVars>>

\* The last unlock of precompute: the lock before it is commented out.
UnlockAgain(t) ==
  /\ Move(t, "unlock2", "idle")
  /\ lock' = FALSE
  /\ broken' = (broken \/ lock)
  /\ UNCHANGED <<mainVars, threadTerminated, availableSeeds, currentPreSeed,
                 slot, crashed, producerVars>>

Precompute(t) ==
  \/ LockToClear(t) \/ ClearTerminated(t) \/ Enter(t) \/ TestRoom(t)
  \/ Compute(t) \/ LockToStore(t) \/ WriteSeed(t) \/ WriteValue(t)
  \/ LoadCount(t) \/ StoreCount(t) \/ AdvancePreSeed(t) \/ WrapPreSeed(t)
  \/ SetTerminated(t) \/ Leave(t) \/ UnlockAgain(t)

ClientStep == StartSession /\ UNCHANGED producerVars

MainStep == Serve /\ UNCHANGED producerVars

Next == ClientStep \/ MainStep \/ \E t \in Thread : Precompute(t)

Spec == Init /\ [][Next]_vars

\* Every thread is scheduled, but nothing says that a client ever comes.
Fairness ==
  /\ WF_vars(MainStep)
  /\ \A t \in Thread : WF_vars(Precompute(t))

FairSpec == Spec /\ Fairness

-----------------------------------------------------------------------------
(***************************************************************************)
(* nextSeed never takes from an empty memory, although it looks at the     *)
(* counter before it locks and execute starts further threads: the counter *)
(* is not decremented at zero, even after the mutex has been broken.       *)
(***************************************************************************)
NeverUnderflows == main = "store" => mainReg > 0

(***************************************************************************)
(* The value of a tuple belongs to its seed (the two copies of precompute  *)
(* and the one of nextSeed are not interleaved) as long as no thread       *)
(* released the mutex of another one, even when several threads fill the   *)
(* memory at once.                                                         *)
(***************************************************************************)
TuplesMatch ==
  ~broken => \A i \in 1 .. Len(handed) : handed[i].seed = handed[i].value

(***************************************************************************)
(* A session that finds the memory empty does not wait in vain: some       *)
(* thread has still to look for room.  A thread gives up only while it     *)
(* holds the mutex and finds the memory full, and says so in               *)
(* threadTerminated before nextSeed can make room again.                   *)
(***************************************************************************)
WillFill == Starting \cup (Filling \ {"terminate", "leave"})

SomeThreadFills ==
  main = "wait" /\ availableSeeds = 0 /\ ~broken
    => \E t \in Thread : pc[t] \in WillFill

-----------------------------------------------------------------------------
(***************************************************************************)
(* The seed memory implements the queue of SeedQueue until two threads     *)
(* fill it at once or one releases the mutex of another.  A tuple is       *)
(* handed out when the counter is decremented, so the slot it was in does  *)
(* not count although currentSeed is only advanced afterwards.             *)
(***************************************************************************)
Oldest == IF main = "advance" THEN Successor(currentSeed) ELSE currentSeed

Queued ==
  [i \in 1 .. availableSeeds |-> slot[(Oldest + i - 1) % MaxSeeds]]

Queue == INSTANCE SeedQueue WITH
  queue <- IF overlap \/ broken THEN <<>> ELSE Queued,
  degraded <- overlap \/ broken

ImplementsQueue == Queue!Spec

\* A launch with no thread left to start.
LaunchWaits ==
  /\ main \in {"launch", "relaunch"}
  /\ threadTerminated
  /\ \A t \in Thread : pc[t] # "idle"

(***************************************************************************)
(* Every session is served: a tuple is there for nextSeed, because a       *)
(* thread that found the memory full is replaced (threadTerminated) when   *)
(* there is room again.  Not claimed when a thread released the mutex of   *)
(* another one, when the process ended, or when a launch of execute or     *)
(* nextSeed waits for ever for a thread, for which only the bound on them  *)
(* could be the reason.                                                    *)
(***************************************************************************)
SessionsEnd ==
  []~broken /\ []<>~LaunchWaits
    => (main = "wait" ~> (main = "idle" \/ crashed))

(***************************************************************************)
(* "if we are at the end of the array, we go back to the beginning"        *)
(* (CIP_pirServer.cpp:313): no tuple is written behind the end.            *)
(***************************************************************************)
WritesInside ==
  \A t \in Thread : pc[t] \in {"seed", "value"} => currentPreSeed < MaxSeeds
=============================================================================

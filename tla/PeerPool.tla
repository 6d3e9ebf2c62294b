------------------------------ MODULE PeerPool ------------------------------
(***************************************************************************)
(* The seed memory of a peer server (RAID_pirServer) and the thread that   *)
(* takes tuples from it.  The io_service thread serves one session after   *)
(* the other: it calls nextSeed, which takes a tuple, and then execute.    *)
(* Both may start a thread that fills the memory again; what such a thread *)
(* does depends on the build (PeerPoolCpu, PeerPoolCuda).                  *)
(*                                                                         *)
(* boost::mutex does not check its owner, so that an unlock by a thread    *)
(* that does not hold it releases whoever does; the mutex is one bit here. *)
(* The steps are the accesses to what the threads share.                   *)
(***************************************************************************)
EXTENDS Integers, Sequences

CONSTANTS
  MaxSeeds,       \* NUMBER_SEEDS, the capacity of the memory
  PauseCondition, \* PAUSECONDITION: 0 = ALWAYS, 1 = NEVER, 2 = HALF
  MaxWord,        \* the largest uint32_t, what 0 is decremented to
  Queries,        \* bound: how many sessions are served
  MaxThreads      \* bound: how many precomputing threads run at once

Thread == 1 .. MaxThreads

ASSUME MaxSeedsAssumption == MaxSeeds \in Nat \ {0}
ASSUME PauseAssumption    == PauseCondition \in 0 .. 2
ASSUME MaxWordAssumption  == MaxWord \in Nat /\ MaxSeeds <= MaxWord
ASSUME QueriesAssumption  == Queries \in Nat

ASSUME ThreadsAssumption  == MaxThreads \in Nat \ {0}

VARIABLES
  lock,             \* mutex
  threadTerminated,
  t1,               \* the thread object t1 points to: "valid" or "deleted"
  availableSeeds,
  currentSeed,      \* index of the slot the next tuple is taken from
  currentPreSeed,   \* index of the slot the next tuple is written to
  slot,             \* precomputedSeeds
  main,             \* what the io_service thread does next
  mainReg,          \* availableSeeds as that thread read it, until it is used
  taken,            \* the tuple it copied, until nextSeed returns it
  handed,           \* history: the tuples nextSeed returned
  pc,               \* what each precomputing thread does next
  crashed,          \* the process has ended
  broken            \* history: a thread released a mutex another one held

mainVars == <<t1, currentSeed, main, mainReg, taken, handed>>
poolVars == <<lock, threadTerminated, availableSeeds, currentPreSeed, slot>>

Tuple == [seed : Nat, value : Nat]

NoTuple == [seed |-> 0, value |-> 0]

Main == {"idle", "wait", "lock", "copy", "load", "store", "advance",
         "launch", "unlock", "execute", "relaunch"}

\* The constructor: the memory is empty and the first thread is started.
PoolInit ==
  /\ lock = FALSE
  /\ threadTerminated = TRUE
  /\ t1 = "valid"
  /\ availableSeeds = 0
  /\ currentSeed = 0
  /\ currentPreSeed = 0
  /\ slot = [i \in 0 .. MaxSeeds-1 |-> NoTuple]
  /\ main = "idle"
  /\ mainReg = 0
  /\ taken = NoTuple
  /\ handed = <<>>
  /\ pc = [t \in Thread |-> IF t = 1 THEN "begin" ELSE "idle"]
  /\ crashed = FALSE
  /\ broken = FALSE

-----------------------------------------------------------------------------
MoveMain(from, to) == ~crashed /\ main = from /\ main' = to

\* t1 = new boost::thread(precomputeSeeds, this) if threadTerminated.  When
\* MaxThreads are running the model stops here, where the code starts another.
Launch ==
  \/ /\ threadTerminated
     /\ \E t \in Thread :
          /\ pc[t] = "idle"
          /\ \A u \in Thread : pc[u] = "idle" => t <= u
          /\ pc' = [pc EXCEPT ![t] = "begin"]
     /\ t1' = "valid"
  \/ ~threadTerminated /\ UNCHANGED <<pc, t1>>

\* conHandler::start reaches nextSeed.
StartSession ==
  /\ Len(handed) < Queries
  /\ MoveMain("idle", "wait")
  /\ UNCHANGED <<t1, currentSeed, mainReg, taken, handed, poolVars, pc,
                 crashed, broken>>

\* MUTANT: nextSeed does not wait for a tuple.
FindSeedAtOnce ==
  /\ MoveMain("wait", "lock")
  /\ UNCHANGED <<t1, currentSeed, mainReg, taken, handed, poolVars, pc,
                 crashed, broken>>

\* The polling loop of nextSeed, which does not lock.
FindSeed ==
  /\ availableSeeds # 0
  /\ MoveMain("wait", "lock")
  /\ UNCHANGED <<t1, currentSeed, mainReg, taken, handed, poolVars, pc,
                 crashed, broken>>

LockPool ==
  /\ ~lock
  /\ MoveMain("lock", "copy")
  /\ lock' = TRUE
  /\ UNCHANGED <<t1, currentSeed, mainReg, taken, handed, threadTerminated,
                 availableSeeds, currentPreSeed, slot, pc, crashed, broken>>

CopySeed ==
  /\ MoveMain("copy", "load")
  /\ taken' = slot[currentSeed]
  /\ UNCHANGED <<t1, currentSeed, mainReg, handed, poolVars, pc, crashed,
                 broken>>

\* decrementAvailableSeeds reads the counter and writes it back.
LoadAvailable ==
  /\ MoveMain("load", "store")
  /\ mainReg' = availableSeeds
  /\ UNCHANGED <<t1, currentSeed, taken, handed, poolVars, pc, crashed,
                 broken>>

StoreAvailable ==
  /\ MoveMain("store", "advance")
  /\ availableSeeds' = IF mainReg = 0 THEN MaxWord ELSE mainReg - 1
  /\ handed' = Append(handed, taken)
  /\ mainReg' = 0
  /\ taken' = NoTuple
  /\ UNCHANGED <<t1, currentSeed, lock, threadTerminated, currentPreSeed, slot,
                 pc, crashed, broken>>

\* MUTANT: currentSeed is not set back at the end of the memory.
SuccessorUnwrapped(i) == i + 1

Successor(i) == IF i + 1 = MaxSeeds THEN 0 ELSE i + 1

AdvanceSeed ==
  /\ MoveMain("advance", "launch")
  /\ currentSeed' = Successor(currentSeed)
  /\ UNCHANGED <<t1, mainReg, taken, handed, poolVars, pc, crashed, broken>>

LaunchAfterTake ==
  /\ MoveMain("launch", "unlock")
  /\ Launch
  /\ UNCHANGED <<currentSeed, mainReg, taken, handed, poolVars, crashed,
                 broken>>

UnlockPool ==
  /\ MoveMain("unlock", "execute")
  /\ lock' = FALSE
  /\ UNCHANGED <<t1, currentSeed, mainReg, taken, handed, threadTerminated,
                 availableSeeds, currentPreSeed, slot, pc, crashed, broken>>

PauseNow ==
  \/ PauseCondition = 0
  \/ PauseCondition = 2 /\ availableSeeds < MaxSeeds \div 2

\* MUTANT: execute leaves it to the thread to say that it has ended.
PauseQuietly ==
  /\ MoveMain("execute", "relaunch")
  /\ crashed' \in (IF PauseNow /\ t1 = "deleted" THEN BOOLEAN ELSE {FALSE})
  /\ t1' = IF PauseNow THEN "deleted" ELSE t1
  /\ UNCHANGED <<currentSeed, mainReg, taken, handed, poolVars, pc, broken>>

\* execute up to the exclusive or.  There is no interruption point in a
\* precomputing thread, so interrupt does nothing, and deleting the thread
\* object detaches the thread, which goes on.  An object deleted before is
\* undefined behaviour: the process ends or nothing happens.
Pause ==
  /\ MoveMain("execute", "relaunch")
  /\ \/ /\ PauseNow
        /\ crashed' \in (IF t1 = "deleted" THEN BOOLEAN ELSE {FALSE})
        /\ t1' = "deleted"
        /\ threadTerminated' = TRUE
     \/ /\ ~PauseNow
        /\ UNCHANGED <<crashed, t1, threadTerminated>>
  /\ UNCHANGED <<currentSeed, mainReg, taken, handed, lock, availableSeeds,
                 currentPreSeed, slot, pc, broken>>

\* The end of execute.
LaunchAfterExecute ==
  /\ MoveMain("relaunch", "idle")
  /\ Launch
  /\ UNCHANGED <<currentSeed, mainReg, taken, handed, poolVars, crashed,
                 broken>>

Serve ==
  \/ FindSeed \/ LockPool \/ CopySeed \/ LoadAvailable \/ StoreAvailable
  \/ AdvanceSeed \/ LaunchAfterTake \/ UnlockPool \/ Pause
  \/ LaunchAfterExecute

-----------------------------------------------------------------------------
\* A step of a precomputing thread, for the builds.
Move(t, from, to) ==
  /\ ~crashed
  /\ pc[t] = from
  /\ pc' = [pc EXCEPT ![t] = to]

Lock(t, from, to) == ~lock /\ Move(t, from, to) /\ lock' = TRUE
=============================================================================

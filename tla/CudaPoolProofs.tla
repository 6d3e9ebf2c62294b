--------------------------- MODULE CudaPoolProofs ---------------------------
(***************************************************************************)
(* What holds of the seed memory of a peer server in the default build, in *)
(* which batches are computed, for every capacity and every number of      *)
(* sessions and threads.  PoolInv does not need the mutex: it is about the *)
(* loops, about what nextSeed saw of the counter, and about the thread     *)
(* that has yet to add a tuple.  QueueInv, for the order of the seeds,     *)
(* does: it says where the seeds of the batch that is being added are, and *)
(* holds as long as one thread at a time fills the memory.                 *)
(***************************************************************************)
EXTENDS PeerPoolCuda, Ring

\* The two loops over the batch.
Loop == {"draw", "advance", "wrap", "value", "load", "store"}

\* The index is below the size of the batch in the loops, and 0 outside.
LoopInv ==
  \A t \in Thread :
    /\ pc[t] \in Loop => done[t] < want[t]
    /\ pc[t] \notin Loop => done[t] = 0

\* What nextSeed saw of the counter is still good when it uses it.
CounterInv ==
  /\ main \in {"lock", "copy", "load"} => availableSeeds > 0
  /\ main = "store" => mainReg > 0

Looking == \E t \in Thread : WillFill(t)

\* execute has started a thread, or is about to, when the memory is empty.
FillInv ==
  PauseCondition = 0 /\ availableSeeds = 0 =>
    /\ main \in {"idle", "wait"} => Looking
    /\ main = "relaunch" => Looking \/ threadTerminated

PoolInv == TypeOK /\ LoopInv /\ CounterInv /\ FillInv

Stages == {"idle", "begin", "clear", "size"} \cup Filling \cup {"terminate2", "unlock2"}

-----------------------------------------------------------------------------
(* How many tuples are missing is an unsigned number, the difference itself  *)
(* unless the memory holds too many.                                         *)
LEMMA MissingType ==
  ASSUME TypeOK
  PROVE  /\ Missing \in 0 .. MaxWord
         /\ availableSeeds <= MaxSeeds => Missing = MaxSeeds - availableSeeds
<1> DEFINE d == MaxSeeds - availableSeeds
           m == MaxWord + 1
<1>1. d \in Int /\ m \in Nat \ {0} /\ availableSeeds \in Nat
  BY MaxSeedsAssumption, MaxWordAssumption DEF TypeOK
<1>2. Missing = d % m
  BY DEF Missing
<1>3. d % m \in 0 .. m-1
  <2> HIDE DEF d, m
  <2> QED
    BY <1>1
<1>4. ASSUME availableSeeds <= MaxSeeds
      PROVE  d % m = d
  <2>1. d \in 0 .. m-1
    BY <1>1, <1>4, MaxSeedsAssumption, MaxWordAssumption
  <2> HIDE DEF d, m
  <2> QED
    BY <1>1, <2>1
<1>5. m - 1 = MaxWord
  BY MaxWordAssumption
<1> HIDE DEF m
<1> QED
  BY <1>2, <1>3, <1>4, <1>5

(* Writing one part of a tuple leaves the memory a memory of tuples. *)
LEMMA WriteSlotType ==
  ASSUME TypeOK, NEW part \in {"seed", "value"}, NEW n \in Nat,
         NEW i \in Nat, WriteSlot(i, part, n)
  PROVE  slot' \in [0 .. MaxSeeds-1 -> Tuple]
<1>1. CASE i < MaxSeeds
  <2>1. i \in 0 .. MaxSeeds-1
    BY <1>1, MaxSeedsAssumption
  <2>2. [slot[i] EXCEPT ![part] = n] \in Tuple
    BY <2>1 DEF TypeOK, Tuple
  <2>3. slot' = [slot EXCEPT ![i] = [slot[i] EXCEPT ![part] = n]]
    BY <1>1, <2>1 DEF WriteSlot, TypeOK
  <2> QED
    BY <2>1, <2>2, <2>3 DEF TypeOK
<1>2. CASE ~(i < MaxSeeds)
  BY <1>2 DEF WriteSlot, TypeOK
<1> QED
  BY <1>1, <1>2

(* The index of a loop stays below the size of the batch. *)
LEMMA EndIterationType ==
  ASSUME TypeOK, LoopInv, NEW t \in Thread, NEW from \in Loop, NEW again \in Loop,
         NEW behind \in {"value", "leave"}, EndIteration(t, from, again, behind),
         UNCHANGED want
  PROVE  /\ done' \in [Thread -> 0 .. MaxWord]
         /\ LoopInv'
<1>1. done[t] \in Nat /\ want[t] \in 0 .. MaxWord /\ done[t] < want[t]
  BY DEF TypeOK, LoopInv, EndIteration, Move
<1>2. CASE done[t] + 1 = want[t]
  BY <1>1, <1>2, MaxWordAssumption
  DEF TypeOK, LoopInv, EndIteration, Move, Loop
<1>3. CASE done[t] + 1 # want[t]
  BY <1>1, <1>3, MaxWordAssumption
  DEF TypeOK, LoopInv, EndIteration, Move, Loop
<1> QED
  BY <1>2, <1>3

(* A step of the io_service thread keeps the types and the loops. *)
LEMMA MainKeepsTypes ==
  ASSUME TypeOK, LoopInv, ClientStep \/ MainStep
  PROVE  TypeOK' /\ LoopInv'
<1> USE DEF TypeOK
<1>1. UNCHANGED <<want, done, ptr, first, reg, made, overlap>>
  BY DEF ClientStep, MainStep, producerVars
<1>2. pc' = pc \/ \E t \in Thread : pc[t] = "idle" /\ pc' = [pc EXCEPT ![t] = "begin"]
  BY DEF ClientStep, StartSession, MainStep, Serve, FindSeed, LockPool,
     CopySeed,
     LoadAvailable, StoreAvailable, AdvanceSeed, LaunchAfterTake, UnlockPool, Pause,
     LaunchAfterExecute, Launch
<1>3. LoopInv' /\ pc' \in [Thread -> Stages]
  BY <1>1, <1>2 DEF LoopInv, Loop, Stages
<1>4. CASE ClientStep
  BY <1>1, <1>3, <1>4
  DEF ClientStep, StartSession, MoveMain, Main, poolVars, Stages
<1>5. CASE FindSeed \/ LockPool \/ CopySeed \/ LoadAvailable \/ UnlockPool
  BY <1>1, <1>3, <1>5
  DEF FindSeed, LockPool, CopySeed, LoadAvailable, UnlockPool, MoveMain, Main,
      poolVars, Stages
<1>6. CASE StoreAvailable
  <2>1. mainReg' \in Nat /\ availableSeeds' \in Nat /\ taken' \in Tuple
    BY <1>6, MaxWordAssumption DEF StoreAvailable, NoTuple, Tuple
  <2>2. handed' \in Seq(Tuple)
    BY <1>6 DEF StoreAvailable
  <2> QED
    BY <1>1, <1>3, <1>6, <2>1, <2>2 DEF StoreAvailable, MoveMain, Main, Stages
<1>7. CASE AdvanceSeed
  <2>1. currentSeed' \in 0 .. MaxSeeds-1
    BY <1>7, MaxSeedsAssumption DEF AdvanceSeed, Successor
  <2> QED
    BY <1>1, <1>3, <1>7, <2>1 DEF AdvanceSeed, MoveMain, Main, poolVars, Stages
<1>8. CASE LaunchAfterTake \/ LaunchAfterExecute
  BY <1>1, <1>3, <1>8
  DEF LaunchAfterTake, LaunchAfterExecute, Launch, MoveMain, Main, poolVars, Stages
<1>9. CASE Pause
  BY <1>1, <1>3, <1>9 DEF Pause, MoveMain, Main, Stages
<1> QED
  BY <1>4, <1>5, <1>6, <1>7, <1>8, <1>9 DEF MainStep, Serve

(* A step of a precomputing thread keeps them too. *)
LEMMA ThreadKeepsTypes ==
  ASSUME TypeOK, LoopInv, NEW t \in Thread, Precompute(t)
  PROVE  TypeOK' /\ LoopInv'
<1> USE DEF TypeOK, mainVars, poolVars, producerVars
<1>1. CASE LockToClear(t) \/ ClearTerminated(t) \/ SetTerminated(t)
  BY <1>1
  DEF LockToClear, ClearTerminated, SetTerminated, Lock, Move, LoopInv, Loop, Filling
<1>2. CASE UnlockAgain(t)
  BY <1>2 DEF UnlockAgain, Move, LoopInv, Loop, Filling
<1>3. CASE Size(t)
  <2>1. want' \in [Thread -> 0 .. MaxWord] /\ \A u \in Thread \ {t} : want'[u] = want[u]
    BY <1>3, MissingType DEF Size
  <2>2. overlap' \in BOOLEAN
    BY <1>3, Zenon DEF Size
  <2> QED
    BY <1>3, <2>1, <2>2 DEF Size, Move, LoopInv, Loop, Filling
<1>4. CASE Enter(t)
  BY <1>4 DEF Enter, Lock, Move, LoopInv, Loop, Filling
<1>5. CASE DrawSeed(t)
  <2>1. made' \in Nat /\ currentPreSeed \in Nat /\ crashed' \in BOOLEAN
    BY <1>5 DEF DrawSeed
  <2>2. slot' \in [0 .. MaxSeeds-1 -> Tuple]
    BY <1>5, <2>1, WriteSlotType DEF DrawSeed
  <2> QED
    BY <1>5, <2>1, <2>2 DEF DrawSeed, Move, LoopInv, Loop, Filling
<1>6. CASE AdvancePreSeed(t)
  BY <1>6 DEF AdvancePreSeed, Move, LoopInv, Loop, Filling
<1>7. CASE WrapPreSeed(t)
  <2>1. done' \in [Thread -> 0 .. MaxWord] /\ LoopInv'
    BY <1>7, EndIterationType DEF WrapPreSeed, Loop
  <2>2. crashed' \in BOOLEAN
    BY <1>7 DEF WrapPreSeed
  <2> QED
    BY <1>7, <2>1, <2>2 DEF WrapPreSeed, EndIteration, Move, Wrap, Filling
<1>8. CASE WriteValue(t)
  <2>1. slot' \in [0 .. MaxSeeds-1 -> Tuple]
    BY <1>8, WriteSlotType DEF WriteValue
  <2> QED
    BY <1>8, <2>1 DEF WriteValue, Move, LoopInv, Loop, Filling
<1>9. CASE StoreCount(t)
  <2>1. done' \in [Thread -> 0 .. MaxWord] /\ LoopInv'
    BY <1>9, EndIterationType DEF StoreCount, Loop
  <2>2. availableSeeds' \in Nat /\ ptr' \in [Thread -> Nat] /\ reg' \in [Thread -> Nat]
    BY <1>9 DEF StoreCount, Wrap
  <2>3. pc' \in [Thread -> Stages]
    BY <1>9 DEF StoreCount, EndIteration, Move, Stages, Filling
  <2>4. UNCHANGED <<mainVars, lock, threadTerminated, currentPreSeed, slot, crashed,
                    broken, want, first, made, overlap>>
    BY <1>9 DEF StoreCount
  <2> QED
    BY <2>1, <2>2, <2>3, <2>4 DEF Stages
<1>10. CASE Leave(t)
  BY <1>10, MaxWordAssumption DEF Leave, Move, LoopInv, Loop, Filling
<1>11. CASE LoadCount(t)
  BY <1>11 DEF LoadCount, Move, LoopInv, Loop, Filling
<1> QED
  BY <1>1, <1>2, <1>3, <1>4, <1>5, <1>6, <1>7, <1>8, <1>9, <1>10, <1>11
  DEF Precompute

(* Nobody but nextSeed decrements the counter. *)
LEMMA CounterNext ==
  ASSUME TypeOK, CounterInv, Next
  PROVE  CounterInv'
<1> USE DEF CounterInv
<1>1. CASE ClientStep
  BY <1>1 DEF ClientStep, StartSession, MoveMain
<1>2. CASE FindSeed \/ LockPool \/ CopySeed \/ LoadAvailable
  BY <1>2
  DEF FindSeed, LockPool, CopySeed, LoadAvailable, MoveMain, poolVars, TypeOK
<1>3. CASE MainStep /\ ~(FindSeed \/ LockPool \/ CopySeed \/ LoadAvailable)
  <2>1. main' \notin {"lock", "copy", "load", "store"}
    BY <1>3
    DEF MainStep, Serve, StoreAvailable, AdvanceSeed, LaunchAfterTake, UnlockPool,
        Pause, LaunchAfterExecute, MoveMain
  <2> QED
    BY <2>1
<1>4. ASSUME NEW t \in Thread, Precompute(t)
      PROVE  CounterInv'
  <2>1. UNCHANGED <<main, mainReg>>
    BY <1>4
    DEF Precompute, LockToClear, ClearTerminated, Size, Enter, DrawSeed, AdvancePreSeed,
        WrapPreSeed, WriteValue, LoadCount, StoreCount, Leave, SetTerminated,
        UnlockAgain, mainVars
  <2>2. availableSeeds' = availableSeeds \/ availableSeeds' = reg[t] + 1
    BY <1>4
    DEF Precompute, LockToClear, ClearTerminated, Size, Enter, DrawSeed, AdvancePreSeed,
        WrapPreSeed, WriteValue, LoadCount, StoreCount, Leave, SetTerminated,
        UnlockAgain, poolVars
  <2> QED
    BY <2>1, <2>2 DEF TypeOK
<1> QED
  BY <1>1, <1>2, <1>3, <1>4 DEF Next

(* A thread that will fill goes on to fill until it has counted a tuple. *)
LEMMA LookingNext ==
  ASSUME TypeOK, NEW t \in Thread, Precompute(t)
  PROVE  availableSeeds' = 0 =>
           /\ Looking => Looking'
           /\ threadTerminated => threadTerminated' \/ Looking'
<1> USE DEF TypeOK, Looking, WillFill, Filling
<1> SUFFICES ASSUME availableSeeds' = 0
             PROVE  /\ \A u \in Thread : WillFill(u) => WillFill(u)'
                    /\ threadTerminated => threadTerminated' \/ Looking'
  OBVIOUS
<1>1. CASE LockToClear(t) \/ DrawSeed(t) \/ AdvancePreSeed(t) \/ WriteValue(t) \/ LoadCount(t)
  BY <1>1
  DEF LockToClear, DrawSeed, AdvancePreSeed, WriteValue, LoadCount, Lock, Move,
      poolVars, producerVars
<1>2. CASE ClearTerminated(t)
  BY <1>2 DEF ClearTerminated, Move, producerVars
<1>3. CASE Size(t)
  <2>1. availableSeeds = 0 /\ Missing = MaxSeeds
    BY <1>3, MissingType, MaxSeedsAssumption DEF Size, poolVars
  <2> QED
    BY <1>3, <2>1, MaxSeedsAssumption DEF Size, Move, poolVars
<1>4. CASE Enter(t)
  BY <1>4 DEF Enter, Lock, Move
<1>5. CASE WrapPreSeed(t)
  BY <1>5 DEF WrapPreSeed, EndIteration, Move
<1>6. CASE StoreCount(t)
  BY <1>6 DEF StoreCount
<1>7. CASE Leave(t) \/ SetTerminated(t) \/ UnlockAgain(t)
  BY <1>7 DEF Leave, SetTerminated, UnlockAgain, Move, producerVars
<1> QED
  BY <1>1, <1>2, <1>3, <1>4, <1>5, <1>6, <1>7 DEF Precompute

(* execute leaves no empty memory behind without such a thread. *)
LEMMA FillNext ==
  ASSUME TypeOK, FillInv, Next
  PROVE  FillInv'
<1> SUFFICES ASSUME PauseCondition = 0, availableSeeds' = 0
             PROVE  /\ main' \in {"idle", "wait"} => Looking'
                    /\ main' = "relaunch" => Looking' \/ threadTerminated'
  BY DEF FillInv
<1>1. CASE ClientStep
  BY <1>1
  DEF ClientStep, StartSession, MoveMain, FillInv, Looking, WillFill, poolVars, producerVars
<1>2. CASE LaunchAfterExecute /\ UNCHANGED producerVars
  <2>1. main = "relaunch" /\ main' = "idle" /\ availableSeeds = 0
    BY <1>2 DEF LaunchAfterExecute, MoveMain, poolVars
  <2>2. CASE threadTerminated
    <3>1. PICK t \in Thread : pc' = [pc EXCEPT ![t] = "begin"]
      BY <1>2, <2>2 DEF LaunchAfterExecute, Launch
    <3>2. WillFill(t)'
      BY <3>1 DEF WillFill, TypeOK
    <3> QED
      BY <2>1, <3>2 DEF Looking
  <2>3. CASE ~threadTerminated
    BY <1>2, <2>1, <2>3
    DEF LaunchAfterExecute, Launch, FillInv, Looking, WillFill, producerVars
  <2> QED
    BY <2>2, <2>3
<1>3. CASE MainStep /\ ~LaunchAfterExecute
  BY <1>3
  DEF MainStep, Serve, FindSeed, LockPool, CopySeed, LoadAvailable, StoreAvailable,
      AdvanceSeed, LaunchAfterTake, UnlockPool, Pause, PauseNow, MoveMain
<1>4. ASSUME NEW t \in Thread, Precompute(t)
      PROVE  /\ main' \in {"idle", "wait"} => Looking'
             /\ main' = "relaunch" => Looking' \/ threadTerminated'
  <2>1. main' = main
    BY <1>4
    DEF Precompute, LockToClear, ClearTerminated, Size, Enter, DrawSeed, AdvancePreSeed,
        WrapPreSeed, WriteValue, LoadCount, StoreCount, Leave, SetTerminated,
        UnlockAgain, mainVars
  <2>2. availableSeeds' = availableSeeds \/ availableSeeds' = reg[t] + 1
    BY <1>4
    DEF Precompute, LockToClear, ClearTerminated, Size, Enter, DrawSeed, AdvancePreSeed,
        WrapPreSeed, WriteValue, LoadCount, StoreCount, Leave, SetTerminated,
        UnlockAgain, poolVars
  <2>3. availableSeeds = 0
    BY <2>2 DEF TypeOK
  <2> QED
    BY <1>4, <2>1, <2>3, LookingNext DEF FillInv
<1> QED
  BY <1>1, <1>2, <1>3, <1>4 DEF Next, MainStep

-----------------------------------------------------------------------------
(* PoolInv holds when the constructor has started the first thread. *)
LEMMA InitPoolInv == Init => PoolInv
<1> SUFFICES ASSUME Init
             PROVE  PoolInv
  OBVIOUS
<1>1. TypeOK
  <2>1. slot \in [0 .. MaxSeeds-1 -> Tuple] /\ taken \in Tuple /\ handed \in Seq(Tuple)
    BY DEF Init, PoolInit, NoTuple, Tuple
  <2>2. currentSeed \in 0 .. MaxSeeds-1 /\ main \in Main /\ 0 \in 0 .. MaxWord
    BY MaxSeedsAssumption, MaxWordAssumption DEF Init, PoolInit, Main
  <2>3. pc \in [Thread -> Stages]
    BY DEF Init, PoolInit, Stages
  <2> QED
    BY <2>1, <2>2, <2>3 DEF Init, PoolInit, TypeOK, Stages
<1>2. LoopInv /\ CounterInv
  BY DEF Init, PoolInit, LoopInv, Loop, CounterInv
<1>3. FillInv
  <2>1. 1 \in Thread
    BY ThreadsAssumption DEF Thread
  <2>2. WillFill(1)
    BY <2>1 DEF Init, PoolInit, WillFill
  <2> QED
    BY <2>1, <2>2 DEF FillInv, Looking
<1> QED
  BY <1>1, <1>2, <1>3 DEF PoolInv

(* PoolInv is inductive. *)
LEMMA NextPoolInv == PoolInv /\ [Next]_vars => PoolInv'
<1> SUFFICES ASSUME PoolInv, [Next]_vars
             PROVE  PoolInv'
  OBVIOUS
<1>1. CASE Next
  <2>1. TypeOK' /\ LoopInv'
    BY <1>1, MainKeepsTypes, ThreadKeepsTypes DEF PoolInv, Next
  <2> QED
    BY <1>1, <2>1, CounterNext, FillNext DEF PoolInv
<1>2. CASE UNCHANGED vars
  BY <1>2
  DEF PoolInv, TypeOK, LoopInv, CounterInv, FillInv, Looking, WillFill, vars, mainVars,
      poolVars, producerVars
<1> QED
  BY <1>1, <1>2

LEMMA PoolInvariant == Spec => []PoolInv
BY InitPoolInv, NextPoolInv, PTL DEF Spec

(***************************************************************************)
(* Every state of the seed memory of the default build is well typed: the  *)
(* slot the next tuple is taken from is one of the memory, and a batch has *)
(* no more tuples than an unsigned number counts; for every capacity and   *)
(* every number of sessions and threads.                                   *)
(***************************************************************************)
THEOREM CudaTypeCorrect == Spec => []TypeOK
<1>1. PoolInv => TypeOK
  BY DEF PoolInv
<1> QED
  BY <1>1, PoolInvariant, PTL

(***************************************************************************)
(* nextSeed never decrements availableSeeds at zero, although the loop     *)
(* that waits for a tuple does not lock and a batch is counted tuple by    *)
(* tuple, also when the mutex was broken.                                  *)
(***************************************************************************)
THEOREM CudaNeverUnderflows == Spec => []NeverUnderflows
<1>1. PoolInv => NeverUnderflows
  BY DEF PoolInv, CounterInv, NeverUnderflows
<1> QED
  BY <1>1, PoolInvariant, PTL

(***************************************************************************)
(* With PAUSECONDITION 0 a session that waits at an empty memory has a     *)
(* thread that will add a tuple, because execute has started one since the *)
(* last tuple was taken or another one had just cleared threadTerminated.  *)
(***************************************************************************)
THEOREM CudaSomeThreadFills == Spec => []SomeThreadFills
<1>1. PoolInv => SomeThreadFills
  BY DEF PoolInv, FillInv, Looking, SomeThreadFills
<1> QED
  BY <1>1, PoolInvariant, PTL

-----------------------------------------------------------------------------
\* The io_service thread, and the precomputing thread t, hold the mutex.
MainHolds == main \in {"copy", "load", "store", "advance", "launch", "unlock"}

Holds(t) == pc[t] \in {"clear", "draw", "advance", "wrap", "value", "load",
                       "store", "leave"}

\* At most one thread holds the mutex, until one releases that of another.
Mutex ==
  ~broken =>
    /\ MainHolds => lock
    /\ \A t \in Thread : Holds(t) => lock /\ ~MainHolds
    /\ \A t, u \in Thread : Holds(t) /\ Holds(u) => t = u

\* The seeds of the batch of t that are in the memory and not counted yet.
Written(t) ==
  CASE pc[t] = "draw" -> done[t]
    [] pc[t] \in {"advance", "wrap"} -> done[t] + 1
    [] pc[t] \in {"value", "load", "store"} -> want[t] - done[t]
    [] OTHER -> 0

\* How many tuples t has still to count.
Due(t) ==
  CASE pc[t] \in {"enter", "draw", "advance", "wrap"} -> want[t]
    [] pc[t] \in {"value", "load", "store"} -> want[t] - done[t]
    [] OTHER -> 0

\* The end of the seeds in the memory.
End(t) == availableSeeds + Written(t)

\* Where the next seed goes; in between currentPreSeed is behind or too large.
Place(t) ==
  CASE pc[t] = "advance" -> At(MaxSeeds, Oldest, End(t) - 1)
    [] pc[t] = "wrap" -> At(MaxSeeds, Oldest, End(t) - 1) + 1
    [] OTHER -> At(MaxSeeds, Oldest, End(t))

\* The parts of QueueInv, when t is the only thread that may be filling: the
\* seeds in the memory are the next ones in order, those of the batch included.
BatchInv(t) ==
  /\ availableSeeds + Due(t) <= MaxSeeds
  /\ made = Len(handed) + End(t)
  /\ currentPreSeed = Place(t)
  /\ \A i \in 0 .. End(t)-1 :
       slot[At(MaxSeeds, Oldest, i)].seed = Len(handed) + 1 + i
  /\ pc[t] = "store" => reg[t] = availableSeeds

TakeInv ==
  /\ main = "store" => mainReg = availableSeeds
  /\ main \in {"load", "store"} => taken.seed = Len(handed) + 1

Sole(t) == \A u \in Thread \ {t} : pc[u] \notin Filling

QueueInv ==
  ~broken /\ ~overlap => TakeInv /\ \E t \in Thread : Sole(t) /\ BatchInv(t)

(* Every step keeps the mutex exclusive or records that it was broken. *)
LEMMA MutexNext ==
  ASSUME TypeOK, Mutex, Next
  PROVE  Mutex'
<1>1. pc \in [Thread -> Stages]
  BY DEF TypeOK, Stages
<1> USE <1>1
<1> USE DEF Mutex, MainHolds, Holds
<1>2. CASE ClientStep
  BY <1>2 DEF ClientStep, StartSession, MoveMain, poolVars
<1>3. CASE FindSeed \/ CopySeed \/ LoadAvailable \/ AdvanceSeed
  BY <1>3 DEF FindSeed, CopySeed, LoadAvailable, AdvanceSeed, MoveMain, poolVars
<1>4. CASE LockPool \/ StoreAvailable \/ UnlockPool \/ Pause
  BY <1>4 DEF LockPool, StoreAvailable, UnlockPool, Pause, MoveMain
<1>5. CASE LaunchAfterTake \/ LaunchAfterExecute
  <2>1. \A t \in Thread : Holds(t)' => Holds(t)
    BY <1>5 DEF LaunchAfterTake, LaunchAfterExecute, Launch
  <2> QED
    BY <1>5, <2>1 DEF LaunchAfterTake, LaunchAfterExecute, MoveMain, poolVars
<1>6. ASSUME NEW t \in Thread, Precompute(t)
      PROVE  Mutex'
  <2>1. UNCHANGED main
    BY <1>6 DEF Precompute, LockToClear, ClearTerminated, Size, Enter, DrawSeed,
       AdvancePreSeed, WrapPreSeed, WriteValue, LoadCount, StoreCount, Leave,
       SetTerminated, UnlockAgain, mainVars
  <2>2. CASE LockToClear(t)
    BY <2>1, <2>2 DEF LockToClear, Lock, Move
  <2>3. CASE ClearTerminated(t)
    BY <2>1, <2>3 DEF ClearTerminated, Move
  <2>4. CASE Size(t)
    BY <2>1, <2>4 DEF Size, Move, poolVars
  <2>5. CASE Enter(t)
    BY <2>1, <2>5 DEF Enter, Lock, Move
  <2>6. CASE DrawSeed(t) \/ AdvancePreSeed(t) \/ WriteValue(t) \/ LoadCount(t)
    BY <2>1, <2>6
    DEF DrawSeed, AdvancePreSeed, WriteValue, LoadCount, Move, poolVars
  <2>7. CASE WrapPreSeed(t) \/ StoreCount(t)
    BY <2>1, <2>7 DEF WrapPreSeed, StoreCount, EndIteration, Move
  <2>8. CASE Leave(t) \/ SetTerminated(t)
    BY <2>1, <2>8 DEF Leave, SetTerminated, Move
  <2>9. CASE UnlockAgain(t)
    BY <2>1, <2>9 DEF UnlockAgain, Move
  <2> QED
    BY <1>6, <2>2, <2>3, <2>4, <2>5, <2>6, <2>7, <2>8, <2>9 DEF Precompute
<1> QED
  BY <1>2, <1>3, <1>4, <1>5, <1>6 DEF Next, MainStep, Serve

(* A step that leaves the mutex whole and the threads apart was taken from   *)
(* such a state.                                                           *)
LEMMA DegradedForGood ==
  ASSUME TypeOK, [Next]_vars, ~broken', ~overlap'
  PROVE  ~broken /\ ~overlap
<1> USE DEF mainVars, poolVars, producerVars
<1>1. CASE ClientStep \/ MainStep
  <2>1. UNCHANGED <<broken, overlap>>
    BY <1>1
    DEF ClientStep, StartSession, MainStep, Serve, FindSeed, LockPool, CopySeed,
       LoadAvailable, StoreAvailable, AdvanceSeed, LaunchAfterTake, UnlockPool, Pause,
       LaunchAfterExecute
  <2> QED
    BY <2>1
<1>2. ASSUME NEW t \in Thread, Precompute(t)
      PROVE  ~broken /\ ~overlap
  <2>1. CASE Size(t)
    BY <2>1, Zenon DEF Size
  <2>2. CASE UnlockAgain(t)
    BY <2>2, Zenon DEF UnlockAgain
  <2>3. CASE Precompute(t) /\ ~Size(t) /\ ~UnlockAgain(t)
    <3>1. UNCHANGED <<broken, overlap>>
      BY <2>3 DEF Precompute, LockToClear, ClearTerminated, Enter, DrawSeed,
         AdvancePreSeed, WrapPreSeed, WriteValue, LoadCount, StoreCount, Leave,
         SetTerminated
    <3> QED
      BY <3>1
  <2> QED
    BY <1>2, <2>1, <2>2, <2>3
<1>3. CASE UNCHANGED vars
  BY <1>3 DEF vars
<1> QED
  BY <1>1, <1>2, <1>3 DEF Next

(* The seeds in the memory fit into it. *)
LEMMA BatchBounds ==
  ASSUME TypeOK, LoopInv, NEW t \in Thread, BatchInv(t)
  PROVE  /\ MaxSeeds \in Nat \ {0} /\ Oldest \in 0 .. MaxSeeds-1
         /\ Len(handed) \in Nat /\ made \in Nat /\ availableSeeds \in Nat
         /\ want[t] \in Nat /\ done[t] \in Nat
         /\ Written(t) \in Nat /\ Written(t) <= Due(t) /\ Due(t) \in Nat
         /\ availableSeeds <= MaxSeeds /\ End(t) \in 0 .. MaxSeeds
<1>1. /\ MaxSeeds \in Nat \ {0} /\ Oldest \in 0 .. MaxSeeds-1
      /\ Len(handed) \in Nat /\ made \in Nat /\ availableSeeds \in Nat
      /\ want[t] \in Nat /\ done[t] \in Nat
  BY MaxSeedsAssumption DEF TypeOK, Oldest, Successor
<1>2. Written(t) \in Nat /\ Written(t) <= Due(t) /\ Due(t) \in Nat
  <2>1. pc[t] \in Loop => done[t] < want[t]
    BY DEF LoopInv
  <2>2. CASE pc[t] \in {"value", "load", "store"}
    <3>1. Written(t) = want[t] - done[t] /\ Due(t) = want[t] - done[t]
      BY <2>2 DEF Written, Due
    <3> QED
      BY <1>1, <2>1, <2>2, <3>1 DEF Loop
  <2>3. CASE pc[t] \in {"draw", "advance", "wrap"}
    <3>1. Written(t) \in {done[t], done[t] + 1} /\ Due(t) = want[t]
      BY <2>3 DEF Written, Due
    <3> QED
      BY <1>1, <2>1, <2>3, <3>1 DEF Loop
  <2>4. CASE pc[t] \notin Loop
    <3>1. Written(t) = 0 /\ Due(t) \in {0, want[t]}
      BY <2>4 DEF Written, Due, Loop
    <3> QED
      BY <1>1, <3>1
  <2> QED
    BY <2>2, <2>3, <2>4 DEF Loop
<1> QED
  BY <1>1, <1>2 DEF BatchInv, End

\* Where a thread has no seed in the memory and none to add.
Outside == {"idle", "begin", "clear", "size", "leave", "terminate2", "unlock2"}

(* What does not concern the batch leaves it as it is. *)
LEMMA BatchKept ==
  ASSUME NEW t \in Thread, BatchInv(t),
         UNCHANGED <<availableSeeds, made, currentPreSeed, slot, handed, Oldest>>,
         \/ UNCHANGED <<pc[t], want[t], done[t], reg[t]>>
         \/ pc[t] \in Outside /\ pc'[t] \in Outside
  PROVE  BatchInv(t)'
<1>1. CASE UNCHANGED <<pc[t], want[t], done[t], reg[t]>>
  BY <1>1 DEF BatchInv, Place, End, Written, Due
<1>2. CASE pc[t] \in Outside /\ pc'[t] \in Outside
  <2>1. /\ Written(t) = 0 /\ Due(t) = 0 /\ Written(t)' = 0 /\ Due(t)' = 0
        /\ pc[t] \notin {"advance", "wrap", "store"}
        /\ pc'[t] \notin {"advance", "wrap", "store"}
    BY <1>2 DEF Written, Due, Outside
  <2>2. End(t)' = End(t) /\ Place(t)' = Place(t)
    BY <2>1 DEF End, Place
  <2> QED
    BY <2>1, <2>2 DEF BatchInv
<1> QED
  BY <1>1, <1>2

(* A step of the io_service thread preserves QueueInv. *)
LEMMA QueueMain ==
  ASSUME TypeOK, LoopInv, Mutex, CounterInv, ~broken, TakeInv,
         NEW t \in Thread, Sole(t), BatchInv(t), ClientStep \/ MainStep
  PROVE  TakeInv' /\ Sole(t)' /\ BatchInv(t)'
<1>1. /\ MaxSeeds \in Nat \ {0} /\ Oldest \in 0 .. MaxSeeds-1
      /\ Len(handed) \in Nat /\ made \in Nat /\ availableSeeds \in Nat
      /\ End(t) \in 0 .. MaxSeeds /\ Written(t) \in Nat /\ Due(t) \in Nat
      /\ currentSeed \in 0 .. MaxSeeds-1
      /\ UNCHANGED <<want, done, ptr, first, reg, made, overlap>>
  BY BatchBounds DEF TypeOK, ClientStep, MainStep, producerVars
<1>2. /\ Sole(t)'
      /\ UNCHANGED pc[t] \/ (pc[t] \in Outside /\ pc'[t] \in Outside)
  <2>1. pc' = pc \/ \E u \in Thread : pc[u] = "idle" /\ pc' = [pc EXCEPT ![u] = "begin"]
    BY DEF ClientStep, StartSession, MainStep, Serve, FindSeed, LockPool,
       CopySeed,
       LoadAvailable, StoreAvailable, AdvanceSeed, LaunchAfterTake, UnlockPool, Pause,
       LaunchAfterExecute, Launch
  <2>2. \A u \in Thread : pc'[u] = pc[u] \/ (pc[u] = "idle" /\ pc'[u] = "begin")
    BY <2>1 DEF TypeOK
  <2> QED
    BY <2>2 DEF Sole, Filling, Outside
<1>3. ASSUME UNCHANGED <<availableSeeds, currentPreSeed, slot, handed, Oldest>>
      PROVE  BatchInv(t)'
  BY <1>1, <1>2, <1>3, BatchKept
<1>4. CASE ClientStep
  <2>1. UNCHANGED <<availableSeeds, currentPreSeed, slot, handed, Oldest>> /\ TakeInv'
    BY <1>4 DEF ClientStep, StartSession, MoveMain, poolVars, Oldest, TakeInv
  <2> QED
    BY <1>2, <1>3, <2>1
<1>5. CASE FindSeed \/ LockPool \/ LaunchAfterTake \/ UnlockPool \/ Pause \/ LaunchAfterExecute
  <2>1. UNCHANGED <<availableSeeds, currentPreSeed, slot, handed, Oldest>> /\ TakeInv'
    BY <1>5 DEF FindSeed, LockPool, LaunchAfterTake, UnlockPool, Pause,
       LaunchAfterExecute, MoveMain, poolVars, Oldest, TakeInv
  <2> QED
    BY <1>2, <1>3, <2>1
<1>6. CASE CopySeed
  <2>1. /\ UNCHANGED <<availableSeeds, currentPreSeed, slot, handed, currentSeed>>
        /\ main = "copy" /\ main' = "load" /\ taken' = slot[currentSeed]
    BY <1>6 DEF CopySeed, MoveMain, poolVars
  <2>2. Oldest' = Oldest /\ Oldest = currentSeed
    BY <2>1 DEF Oldest
  <2>3. availableSeeds > 0 /\ 0 \in 0 .. End(t)-1
    BY <1>1, <2>1 DEF CounterInv, End
  <2>4. slot[At(MaxSeeds, Oldest, 0)].seed = Len(handed) + 1 + 0
    BY <2>3 DEF BatchInv
  <2>5. At(MaxSeeds, Oldest, 0) = currentSeed
    BY <1>1, <2>2, AtSuccessor
  <2>6. TakeInv'
    BY <1>1, <2>1, <2>4, <2>5 DEF TakeInv
  <2> QED
    BY <1>2, <1>3, <2>1, <2>2, <2>6
<1>7. CASE LoadAvailable
  <2>1. UNCHANGED <<availableSeeds, currentPreSeed, slot, handed, Oldest>> /\ TakeInv'
    BY <1>7 DEF LoadAvailable, MoveMain, poolVars, Oldest, TakeInv
  <2> QED
    BY <1>2, <1>3, <2>1
<1>8. CASE AdvanceSeed
  <2>1. UNCHANGED <<availableSeeds, currentPreSeed, slot, handed, Oldest>> /\ TakeInv'
    BY <1>8 DEF AdvanceSeed, MoveMain, poolVars, Oldest, TakeInv
  <2> QED
    BY <1>2, <1>3, <2>1
<1>9. CASE StoreAvailable
  <2>1. /\ UNCHANGED <<currentSeed, currentPreSeed, slot, pc>>
        /\ main = "store" /\ main' = "advance"
        /\ availableSeeds' = availableSeeds - 1 /\ availableSeeds > 0
    BY <1>9 DEF StoreAvailable, MoveMain, CounterInv, TakeInv
  <2>2. Len(handed)' = Len(handed) + 1
    BY <1>9 DEF StoreAvailable, TypeOK
  <2>3. ~Holds(t)
    BY <2>1 DEF Mutex, MainHolds
  <2>4. Oldest' = Behind1(MaxSeeds, Oldest)
    BY <2>1 DEF Oldest, Successor, Behind1
  <2>5. \A k \in 0 .. MaxSeeds-1 : At(MaxSeeds, Oldest', k) = At(MaxSeeds, Oldest, k + 1)
    BY <1>1, <2>4, AtSuccessor
  <2>6. Written(t) = 0 /\ Written(t)' = 0 /\ Due(t)' = Due(t)
        /\ pc[t] \notin {"advance", "wrap", "store"}
    BY <1>1, <2>1, <2>3 DEF Written, Due, Holds
  <2>7. End(t)' = End(t) - 1 /\ End(t)' \in 0 .. MaxSeeds-1 /\ End(t)' + 1 = End(t)
    BY <1>1, <2>1, <2>6 DEF End
  <2>8. Place(t)' = Place(t)
    <3>1. At(MaxSeeds, Oldest', End(t)') = At(MaxSeeds, Oldest, End(t))
      BY <2>5, <2>7
    <3> QED
      BY <2>1, <2>6, <3>1 DEF Place
  <2>9. ASSUME NEW i \in 0 .. End(t)' - 1
        PROVE  slot'[At(MaxSeeds, Oldest', i)].seed = Len(handed)' + 1 + i
    <3>1. i + 1 \in 0 .. End(t)-1 /\ i \in 0 .. MaxSeeds-1
      BY <1>1, <2>7
    <3>2. slot[At(MaxSeeds, Oldest, i + 1)].seed = Len(handed) + 1 + (i + 1)
      BY <3>1 DEF BatchInv
    <3>3. Len(handed) + 1 + (i + 1) = Len(handed)' + 1 + i
      BY <1>1, <2>2, <3>1
    <3> QED
      BY <2>1, <2>5, <3>1, <3>2, <3>3
  <2>10. availableSeeds' + Due(t)' <= MaxSeeds /\ made' = Len(handed)' + End(t)'
    <3>1. availableSeeds + Due(t) <= MaxSeeds /\ made = Len(handed) + End(t)
      BY DEF BatchInv
    <3> QED
      BY <1>1, <2>1, <2>2, <2>6, <2>7, <3>1
  <2>11. BatchInv(t)'
    BY <2>1, <2>6, <2>8, <2>9, <2>10 DEF BatchInv
  <2> QED
    BY <1>2, <2>1, <2>11 DEF TakeInv
<1> QED
  BY <1>4, <1>5, <1>6, <1>7, <1>8, <1>9 DEF MainStep, Serve

(* A step of the thread that fills the memory, or may do so next, preserves *)
(* QueueInv.                                                                *)
LEMMA QueueThread ==
  ASSUME TypeOK, LoopInv, Mutex, ~broken, ~overlap', TakeInv,
         NEW t \in Thread, Sole(t), BatchInv(t), Precompute(t)
  PROVE  TakeInv' /\ Sole(t)' /\ BatchInv(t)'
<1>1. /\ MaxSeeds \in Nat \ {0} /\ Oldest \in 0 .. MaxSeeds-1
      /\ Len(handed) \in Nat /\ made \in Nat /\ availableSeeds \in Nat
      /\ End(t) \in 0 .. MaxSeeds /\ Written(t) \in Nat /\ Due(t) \in Nat
      /\ Written(t) <= Due(t) /\ availableSeeds <= MaxSeeds
      /\ want[t] \in Nat /\ done[t] \in Nat
  BY BatchBounds
<1>2. UNCHANGED <<main, mainReg, taken, handed, Oldest>>
  BY DEF Precompute, LockToClear, ClearTerminated, Size, Enter, DrawSeed,
     AdvancePreSeed,
     WrapPreSeed, WriteValue, LoadCount, StoreCount, Leave, SetTerminated, UnlockAgain,
     mainVars, Oldest
<1>3. Sole(t)'
  BY DEF Precompute, LockToClear, ClearTerminated, Size, Enter, DrawSeed,
     AdvancePreSeed,
     WrapPreSeed, WriteValue, LoadCount, StoreCount, Leave, SetTerminated, UnlockAgain,
     EndIteration, Lock, Move, Sole, TypeOK
<1>4. ASSUME ~StoreCount(t)
      PROVE  TakeInv'
  <2>1. UNCHANGED availableSeeds
    BY <1>4 DEF Precompute, LockToClear, ClearTerminated, Size, Enter, DrawSeed,
       AdvancePreSeed, WrapPreSeed, WriteValue, LoadCount, Leave, SetTerminated,
       UnlockAgain, poolVars
  <2> QED
    BY <1>2, <2>1 DEF TakeInv
<1>5. CASE LockToClear(t) \/ ClearTerminated(t) \/ Leave(t) \/ SetTerminated(t) \/ UnlockAgain(t)
  <2>1. /\ UNCHANGED <<availableSeeds, made, currentPreSeed, slot>>
        /\ pc[t] \in Outside /\ pc'[t] \in Outside
    BY <1>5
    DEF LockToClear, ClearTerminated, Leave, SetTerminated, UnlockAgain, Lock,
       Move, producerVars, Outside, TypeOK
  <2>2. ~StoreCount(t)
    BY <2>1 DEF StoreCount, EndIteration, Move, Outside
  <2> QED
    BY <1>2, <1>3, <1>4, <2>1, <2>2, BatchKept
<1>6. CASE Size(t)
  <2>1. /\ UNCHANGED <<availableSeeds, made, currentPreSeed, slot>>
        /\ pc[t] = "size" /\ pc'[t] = "enter" /\ want'[t] = MaxSeeds - availableSeeds
    BY <1>1, <1>6, MissingType DEF Size, Move, poolVars, TypeOK
  <2>2. Written(t) = 0 /\ Written(t)' = 0 /\ Due(t)' = MaxSeeds - availableSeeds
    BY <2>1 DEF Written, Due
  <2>3. End(t)' = End(t) /\ Place(t)' = Place(t)
    BY <1>2, <2>1, <2>2 DEF End, Place
  <2>4. BatchInv(t)'
    BY <1>1, <1>2, <2>1, <2>2, <2>3 DEF BatchInv
  <2> QED
    BY <1>3, <1>4, <2>1, <2>4 DEF StoreCount, EndIteration, Move
<1>7. CASE Enter(t)
  <2>1. /\ UNCHANGED <<availableSeeds, made, currentPreSeed, slot, want, done>>
        /\ pc[t] = "enter" /\ pc'[t] \in {"draw", "leave"}
    BY <1>7 DEF Enter, Lock, Move, TypeOK
  <2>2. done[t] = 0
    BY <2>1 DEF LoopInv, Loop
  <2>3. Written(t) = 0 /\ Written(t)' = 0 /\ Due(t)' \in 0 .. Due(t)
    BY <1>1, <2>1, <2>2 DEF Written, Due
  <2>4. End(t)' = End(t) /\ Place(t)' = Place(t)
    BY <1>2, <2>1, <2>3 DEF End, Place
  <2>5. BatchInv(t)'
    BY <1>1, <1>2, <2>1, <2>3, <2>4 DEF BatchInv
  <2> QED
    BY <1>3, <1>4, <2>1, <2>5 DEF StoreCount, EndIteration, Move
<1>8. CASE DrawSeed(t)
  <2>1. /\ UNCHANGED <<availableSeeds, currentPreSeed, want, done>>
        /\ pc[t] = "draw" /\ pc'[t] = "advance"
        /\ made' = made + 1 /\ WriteSlot(currentPreSeed, "seed", made')
    BY <1>8 DEF DrawSeed, Move, TypeOK
  <2>2. /\ Written(t)' = Written(t) + 1 /\ Due(t)' = Due(t)
        /\ End(t)' = End(t) + 1 /\ End(t) < MaxSeeds
    <3>1. done[t] < want[t]
      BY <2>1 DEF LoopInv, Loop
    <3>2. /\ Written(t) = done[t] /\ Written(t)' = done[t] + 1
          /\ Due(t) = want[t] /\ Due(t)' = want[t]
      BY <2>1 DEF Written, Due
    <3>3. End(t)' = End(t) + 1
      BY <1>1, <2>1, <3>2 DEF End
    <3>4. End(t) < MaxSeeds
      <4>1. availableSeeds + want[t] <= MaxSeeds
        BY <3>2 DEF BatchInv
      <4>2. End(t) = availableSeeds + done[t]
        BY <3>2 DEF End
      <4> QED
        BY <1>1, <3>1, <4>1, <4>2
    <3> QED
      BY <3>2, <3>3, <3>4
  <2>3. /\ currentPreSeed = At(MaxSeeds, Oldest, End(t))
        /\ currentPreSeed \in 0 .. MaxSeeds-1
    <3>1. currentPreSeed = At(MaxSeeds, Oldest, End(t))
      BY <2>1 DEF BatchInv, Place
    <3> QED
      BY <1>1, <3>1, AtInside
  <2>4. /\ \A i \in 0 .. MaxSeeds-1 : i # currentPreSeed => slot'[i] = slot[i]
        /\ slot'[currentPreSeed].seed = made'
    <3>1. slot' = [slot EXCEPT ![currentPreSeed] =
                     [slot[currentPreSeed] EXCEPT !["seed"] = made']]
      BY <1>1, <2>1, <2>3 DEF WriteSlot, TypeOK
    <3>2. slot[currentPreSeed] \in Tuple /\ slot \in [0 .. MaxSeeds-1 -> Tuple]
      BY <2>3 DEF TypeOK
    <3>3. slot'[currentPreSeed] = [slot[currentPreSeed] EXCEPT !["seed"] = made']
      BY <2>3, <3>1, <3>2
    <3>4. \A i \in 0 .. MaxSeeds-1 : i # currentPreSeed => slot'[i] = slot[i]
      BY <3>1, <3>2
    <3>5. slot'[currentPreSeed].seed = made'
      BY <3>2, <3>3 DEF Tuple
    <3> QED
      BY <3>4, <3>5
  <2>5. ASSUME NEW i \in 0 .. End(t)' - 1
        PROVE  slot'[At(MaxSeeds, Oldest', i)].seed = Len(handed)' + 1 + i
    <3>1. i = End(t) \/ i \in 0 .. End(t)-1
      BY <1>1, <2>2
    <3>2. CASE i = End(t)
      <4>1. made' = Len(handed)' + 1 + i
        BY <1>1, <1>2, <2>1, <3>2 DEF BatchInv
      <4> QED
        BY <1>2, <2>3, <2>4, <3>2, <4>1
    <3>3. CASE i \in 0 .. End(t)-1
      <4>1. /\ i \in 0 .. MaxSeeds-1 /\ End(t) \in 0 .. MaxSeeds-1 /\ i # End(t)
            /\ i \in 0 .. MaxSeeds
        BY <1>1, <2>2, <3>3
      <4>2. At(MaxSeeds, Oldest, i) \in 0 .. MaxSeeds-1
        BY <1>1, <4>1, AtInside
      <4>3. At(MaxSeeds, Oldest, i) # At(MaxSeeds, Oldest, End(t))
        BY <1>1, <4>1, AtDiffers
      <4>4. slot[At(MaxSeeds, Oldest, i)].seed = Len(handed) + 1 + i
        BY <3>3 DEF BatchInv
      <4> QED
        BY <1>2, <2>3, <2>4, <4>2, <4>3, <4>4
    <3> QED
      BY <3>1, <3>2, <3>3
  <2>6. Place(t)' = currentPreSeed'
    <3>1. End(t)' - 1 = End(t)
      BY <1>1, <2>2
    <3> QED
      BY <1>2, <2>1, <2>3, <3>1 DEF Place
  <2>7. availableSeeds' + Due(t)' <= MaxSeeds /\ made' = Len(handed)' + End(t)'
    BY <1>1, <1>2, <2>1, <2>2 DEF BatchInv
  <2>8. BatchInv(t)'
    BY <2>1, <2>5, <2>6, <2>7 DEF BatchInv
  <2> QED
    BY <1>3, <1>4, <2>1, <2>8 DEF StoreCount, EndIteration, Move
<1>9. CASE AdvancePreSeed(t)
  <2>1. /\ UNCHANGED <<availableSeeds, made, slot, want, done>>
        /\ pc[t] = "advance" /\ pc'[t] = "wrap" /\ currentPreSeed' = currentPreSeed + 1
    BY <1>9 DEF AdvancePreSeed, Move, producerVars, TypeOK
  <2>2. Written(t)' = Written(t) /\ Due(t)' = Due(t)
    BY <2>1 DEF Written, Due
  <2>3. End(t)' = End(t) /\ Place(t)' = Place(t) + 1
    BY <1>2, <2>1, <2>2 DEF End, Place
  <2>4. BatchInv(t)'
    BY <1>1, <1>2, <2>1, <2>2, <2>3 DEF BatchInv
  <2> QED
    BY <1>3, <1>4, <2>1, <2>4 DEF StoreCount, EndIteration, Move
<1>10. CASE WrapPreSeed(t)
  <2>1. /\ UNCHANGED <<availableSeeds, made, slot, want>>
        /\ pc[t] = "wrap" /\ currentPreSeed' = Wrap(currentPreSeed)
        /\ \/ pc'[t] = "value" /\ done[t] + 1 = want[t] /\ done'[t] = 0
           \/ pc'[t] = "draw" /\ done'[t] = done[t] + 1
    BY <1>10 DEF WrapPreSeed, EndIteration, Move, TypeOK
  <2>2. /\ Written(t) = done[t] + 1 /\ Written(t)' = Written(t) /\ Due(t)' = Due(t)
    BY <1>1, <2>1 DEF Written, Due
  <2>3. End(t)' = End(t) /\ End(t) > 0
    BY <1>1, <2>1, <2>2 DEF End
  <2>4. currentPreSeed' = At(MaxSeeds, Oldest, End(t))
    <3>1. /\ End(t) - 1 \in 0 .. MaxSeeds-1
          /\ currentPreSeed = At(MaxSeeds, Oldest, End(t) - 1) + 1
      <4>1. currentPreSeed = At(MaxSeeds, Oldest, End(t) - 1) + 1
        BY <2>1 DEF BatchInv, Place
      <4> QED
        BY <1>1, <2>3, <4>1
    <3>2. currentPreSeed' = Behind1(MaxSeeds, At(MaxSeeds, Oldest, End(t) - 1))
      BY <1>1, <2>1, <3>1, AtInside DEF Wrap, Behind1
    <3>3. Behind1(MaxSeeds, At(MaxSeeds, Oldest, End(t) - 1))
            = At(MaxSeeds, Oldest, (End(t) - 1) + 1)
      BY <1>1, <3>1, AtSuccessor
    <3> QED
      BY <1>1, <3>2, <3>3
  <2>5. currentPreSeed' = Place(t)'
    BY <1>2, <2>1, <2>3, <2>4 DEF Place
  <2>6. BatchInv(t)'
    BY <1>1, <1>2, <2>1, <2>2, <2>3, <2>5 DEF BatchInv
  <2> QED
    BY <1>3, <1>4, <2>1, <2>6 DEF StoreCount, EndIteration, Move
<1>11. CASE WriteValue(t)
  <2>1. /\ UNCHANGED <<availableSeeds, made, currentPreSeed, want, done>>
        /\ pc[t] = "value" /\ pc'[t] = "load" /\ WriteSlot(ptr[t], "value", first[t])
    BY <1>11 DEF WriteValue, Move, producerVars, TypeOK
  <2>2. Written(t)' = Written(t) /\ Due(t)' = Due(t)
    BY <2>1 DEF Written, Due
  <2>3. End(t)' = End(t) /\ Place(t)' = Place(t)
    BY <1>2, <2>1, <2>2 DEF End, Place
  <2>4. \A i \in 0 .. MaxSeeds-1 : slot'[i].seed = slot[i].seed
    <3>1. \A i \in 0 .. MaxSeeds-1 :
            slot'[i] = slot[i] \/ slot'[i] = [slot[i] EXCEPT !["value"] = first[t]]
      BY <2>1 DEF WriteSlot, TypeOK
    <3>2. \A i \in 0 .. MaxSeeds-1 : slot[i] \in Tuple
      BY DEF TypeOK
    <3> QED
      BY <3>1, <3>2 DEF Tuple
  <2>5. ASSUME NEW i \in 0 .. End(t)' - 1
        PROVE  slot'[At(MaxSeeds, Oldest', i)].seed = Len(handed)' + 1 + i
    <3>1. i \in 0 .. End(t)-1 /\ i \in 0 .. MaxSeeds
      BY <1>1, <2>3
    <3>2. At(MaxSeeds, Oldest, i) \in 0 .. MaxSeeds-1
      BY <1>1, <3>1, AtInside
    <3> QED
      BY <1>2, <2>4, <3>1, <3>2 DEF BatchInv
  <2>6. BatchInv(t)'
    BY <1>1, <1>2, <2>1, <2>2, <2>3, <2>5 DEF BatchInv
  <2> QED
    BY <1>3, <1>4, <2>1, <2>6 DEF StoreCount, EndIteration, Move
<1>12. CASE LoadCount(t)
  <2>1. /\ UNCHANGED <<availableSeeds, made, currentPreSeed, slot, want, done>>
        /\ pc[t] = "load" /\ pc'[t] = "store" /\ reg'[t] = availableSeeds
    BY <1>12 DEF LoadCount, Move, poolVars, TypeOK
  <2>2. Written(t)' = Written(t) /\ Due(t)' = Due(t)
    BY <2>1 DEF Written, Due
  <2>3. End(t)' = End(t) /\ Place(t)' = Place(t)
    BY <1>2, <2>1, <2>2 DEF End, Place
  <2>4. BatchInv(t)'
    BY <1>1, <1>2, <2>1, <2>2, <2>3 DEF BatchInv
  <2> QED
    BY <1>3, <1>4, <2>1, <2>4 DEF StoreCount, EndIteration, Move
<1>13. CASE StoreCount(t)
  <2>1. /\ UNCHANGED <<made, currentPreSeed, slot, want>>
        /\ pc[t] = "store" /\ availableSeeds' = availableSeeds + 1
        /\ \/ pc'[t] = "leave" /\ done[t] + 1 = want[t]
           \/ pc'[t] = "value" /\ done'[t] = done[t] + 1
    BY <1>13 DEF StoreCount, EndIteration, Move, TypeOK, BatchInv
  <2>2. /\ Written(t)' = Written(t) - 1 /\ Due(t)' = Due(t) - 1
    <3>1. Written(t) = want[t] - done[t] /\ Due(t) = want[t] - done[t]
      BY <2>1 DEF Written, Due
    <3>2. CASE pc'[t] = "leave" /\ done[t] + 1 = want[t]
      BY <1>1, <3>1, <3>2 DEF Written, Due
    <3>3. CASE pc'[t] = "value" /\ done'[t] = done[t] + 1
      <4>1. /\ Written(t)' = want[t] - (done[t] + 1)
            /\ Due(t)' = want[t] - (done[t] + 1)
        BY <2>1, <3>3 DEF Written, Due
      <4> QED
        BY <1>1, <3>1, <4>1
    <3> QED
      BY <2>1, <3>2, <3>3
  <2>3. End(t)' = End(t)
    <3>1. End(t)' = (availableSeeds + 1) + (Written(t) - 1)
      BY <2>1, <2>2 DEF End
    <3> QED
      BY <1>1, <3>1 DEF End
  <2>4. Place(t)' = Place(t)
    <3>1. Place(t) = At(MaxSeeds, Oldest, End(t))
      BY <2>1 DEF Place
    <3>2. Place(t)' = At(MaxSeeds, Oldest', End(t)')
      BY <2>1 DEF Place
    <3> QED
      BY <1>2, <2>3, <3>1, <3>2
  <2>5. BatchInv(t)'
    <3>1. /\ availableSeeds + Due(t) <= MaxSeeds /\ made = Len(handed) + End(t)
          /\ currentPreSeed = Place(t)
      BY DEF BatchInv
    <3>2. availableSeeds' + Due(t)' <= MaxSeeds
      BY <1>1, <2>1, <2>2, <3>1
    <3>3. made' = Len(handed)' + End(t)' /\ currentPreSeed' = Place(t)'
      BY <1>2, <2>1, <2>3, <2>4, <3>1
    <3>4. \A i \in 0 .. End(t)' - 1 :
            slot'[At(MaxSeeds, Oldest', i)].seed = Len(handed)' + 1 + i
      BY <1>2, <2>1, <2>3 DEF BatchInv
    <3> QED
      BY <2>1, <3>2, <3>3, <3>4 DEF BatchInv
  <2>6. ~MainHolds
    BY <2>1 DEF Mutex, Holds
  <2>7. TakeInv'
    BY <1>2, <2>6 DEF TakeInv, MainHolds
  <2> QED
    BY <1>3, <2>5, <2>7
<1> QED
  BY <1>5, <1>6, <1>7, <1>8, <1>9, <1>10, <1>11, <1>12, <1>13 DEF Precompute

(* QueueInv is inductive. *)
LEMMA QueueNext ==
  ASSUME TypeOK, LoopInv, Mutex, CounterInv, QueueInv, [Next]_vars
  PROVE  QueueInv'
<1> SUFFICES ASSUME ~broken', ~overlap'
             PROVE  TakeInv' /\ \E t \in Thread : Sole(t)' /\ BatchInv(t)'
  BY DEF QueueInv
<1>1. ~broken /\ ~overlap
  BY DegradedForGood
<1>2. TakeInv
  BY <1>1 DEF QueueInv
<1>3. PICK t \in Thread : Sole(t) /\ BatchInv(t)
  BY <1>1 DEF QueueInv
<1>4. CASE ClientStep \/ MainStep
  BY <1>1, <1>2, <1>3, <1>4, QueueMain
<1>5. CASE Precompute(t)
  BY <1>1, <1>2, <1>3, <1>5, QueueThread
<1>6. ASSUME NEW u \in Thread \ {t}, Precompute(u)
      PROVE  TakeInv' /\ \E v \in Thread : Sole(v)' /\ BatchInv(v)'
  <2>1. pc[u] \notin Filling
    BY <1>3, <1>6 DEF Sole
  <2>2. CASE Size(u)
    <3>1. \A v \in Thread \ {u} : pc[v] \notin Filling
      BY <2>2, Zenon DEF Size
    <3>2. Sole(u)
      BY <3>1 DEF Sole
    <3>3. pc[u] = "size" /\ pc[t] \notin Filling
      BY <1>6, <2>2, <3>1 DEF Size, Move
    <3>4. Written(t) = 0 /\ Written(u) = 0 /\ Due(u) = 0
          /\ pc[t] \notin {"advance", "wrap", "store"}
      BY <3>3 DEF Written, Due, Filling
    <3>5. End(u) = End(t) /\ Place(u) = Place(t)
      BY <3>3, <3>4 DEF End, Place
    <3>6. availableSeeds + Due(u) <= MaxSeeds
      BY <1>3, <3>4, BatchBounds DEF BatchInv
    <3>7. BatchInv(u)
      BY <1>3, <3>3, <3>5, <3>6 DEF BatchInv
    <3> QED
      BY <1>1, <1>2, <1>6, <3>2, <3>7, QueueThread
  <2>3. CASE ~Size(u)
    <3>1. /\ UNCHANGED <<availableSeeds, made, currentPreSeed, slot, mainVars>>
          /\ pc' = [pc EXCEPT ![u] = pc'[u]] /\ pc'[u] \notin Filling
          /\ UNCHANGED <<want, done, reg>>
      BY <1>6, <2>1, <2>3
      DEF Precompute, LockToClear, ClearTerminated, Enter, DrawSeed, AdvancePreSeed,
          WrapPreSeed, WriteValue, LoadCount, StoreCount, Leave, SetTerminated,
          UnlockAgain, EndIteration, Lock, Move, Filling, producerVars, TypeOK
    <3>2. pc'[t] = pc[t] /\ Sole(t)'
      BY <1>3, <3>1 DEF Sole, TypeOK
    <3>3. Oldest' = Oldest /\ handed' = handed /\ TakeInv'
      BY <1>2, <3>1 DEF mainVars, Oldest, TakeInv
    <3>4. BatchInv(t)'
      BY <1>3, <3>1, <3>2, <3>3, BatchKept
    <3> QED
      BY <3>2, <3>3, <3>4
  <2> QED
    BY <2>2, <2>3
<1>7. CASE UNCHANGED vars
  <2>1. UNCHANGED <<availableSeeds, made, currentPreSeed, slot, handed, pc, want, done,
                    reg, main, mainReg, taken, Oldest>>
    BY <1>7 DEF vars, mainVars, poolVars, producerVars, Oldest
  <2>2. BatchInv(t)'
    BY <1>3, <2>1, BatchKept
  <2> QED
    BY <1>2, <1>3, <2>1, <2>2 DEF TakeInv, Sole
<1> QED
  BY <1>4, <1>5, <1>6, <1>7 DEF Next

\* The memory shows the seeds behind the last one that was handed out.
ShowsRun ==
  ~broken /\ ~overlap => Queued = Run(Len(handed), availableSeeds)

(* QueueInv says so. *)
LEMMA QueuedIsRun == TypeOK /\ LoopInv /\ QueueInv => ShowsRun
<1> SUFFICES ASSUME TypeOK, LoopInv, NEW t \in Thread, BatchInv(t)
             PROVE  Queued = Run(Len(handed), availableSeeds)
  BY DEF QueueInv, ShowsRun
<1>1. /\ MaxSeeds \in Nat \ {0} /\ Oldest \in 0 .. MaxSeeds-1
      /\ availableSeeds \in 0 .. MaxSeeds /\ Len(handed) \in Nat
      /\ availableSeeds <= End(t) /\ End(t) \in Nat
  BY BatchBounds DEF End
<1>2. ASSUME NEW i \in 1 .. availableSeeds
      PROVE  BySeed(slot[(Oldest + i - 1) % MaxSeeds]) = Named(Len(handed) + i)
  <2>1. i - 1 \in 0 .. End(t)-1 /\ i - 1 \in 0 .. MaxSeeds
    BY <1>1
  <2>2. Oldest + i - 1 = Oldest + (i - 1) /\ Len(handed) + 1 + (i - 1) = Len(handed) + i
    BY <1>1
  <2>3. (Oldest + (i - 1)) % MaxSeeds = At(MaxSeeds, Oldest, i - 1)
    BY <1>1, <2>1, AtRemainder
  <2>4. slot[At(MaxSeeds, Oldest, i - 1)].seed = Len(handed) + 1 + (i - 1)
    BY <2>1 DEF BatchInv
  <2> QED
    BY <2>2, <2>3, <2>4 DEF BySeed, Named
<1> QED
  BY <1>2 DEF Queued, Run

\* The seeds that were handed out, as SeedQueue sees them.
Seeds == [i \in 1 .. Len(handed) |-> BySeed(handed[i])]

(* A tuple that is handed out is one more of them. *)
LEMMA SeedsAppend ==
  ASSUME TypeOK, handed' = Append(handed, taken)
  PROVE  /\ Len(handed)' = Len(handed) + 1 /\ Len(Seeds) = Len(handed)
         /\ Seeds' = Append(Seeds, BySeed(taken))
<1>1. /\ handed \in Seq(Tuple) /\ taken \in Tuple /\ Len(handed) \in Nat
      /\ handed' \in Seq(Tuple) /\ Len(handed') = Len(handed) + 1
      /\ \A i \in 1 .. Len(handed) : handed'[i] = handed[i] /\ handed[i] \in Tuple
      /\ handed'[Len(handed) + 1] = taken
  BY AppendProperties DEF TypeOK
<1>2. \A i \in 1 .. Len(handed') : handed'[i] \in Tuple
  BY <1>1
<1>3. /\ Seeds \in Seq(Tuple) /\ Len(Seeds) = Len(handed)
      /\ \A i \in 1 .. Len(handed) : Seeds[i] = BySeed(handed[i])
  BY <1>1 DEF Seeds, BySeed, Tuple
<1>4. /\ Seeds' \in Seq(Tuple) /\ Len(Seeds') = Len(handed')
      /\ \A i \in 1 .. Len(handed') : Seeds'[i] = BySeed(handed'[i])
  BY <1>1, <1>2 DEF Seeds, BySeed, Tuple
<1>5. BySeed(taken) \in Tuple
  BY <1>1 DEF BySeed, Tuple
<1> DEFINE longer == Append(Seeds, BySeed(taken))
<1>6. /\ longer \in Seq(Tuple) /\ Len(longer) = Len(handed) + 1
      /\ \A i \in 1 .. Len(handed) : longer[i] = Seeds[i]
      /\ longer[Len(handed) + 1] = BySeed(taken)
  BY <1>3, <1>5, AppendProperties
<1>7. ASSUME NEW i \in 1 .. Len(Seeds')
      PROVE  Seeds'[i] = longer[i]
  <2>1. i \in 1 .. Len(handed') /\ (i \in 1 .. Len(handed) \/ i = Len(handed) + 1)
    BY <1>1, <1>4
  <2> QED
    BY <1>1, <1>3, <1>4, <1>6, <2>1
<1>8. Seeds' = longer
  BY <1>1, <1>4, <1>6, <1>7, SeqEqual
<1> QED
  BY <1>1, <1>3, <1>8

(* Every step of the memory is a step of the queue or none. *)
LEMMA StepIsQueueStep ==
  ASSUME TypeOK, Mutex, LoopInv, CounterInv, QueueInv, ShowsRun, ShowsRun', [Next]_vars
  PROVE  [Queue!Next]_(Queue!vars)
<1>1. CASE broken' \/ overlap'
  BY <1>1 DEF Queue!Next
<1> SUFFICES ASSUME ~broken', ~overlap'
             PROVE  [Queue!Next]_(Queue!vars)
  BY <1>1
<1>2. ~broken /\ ~overlap
  BY DegradedForGood
<1>3. TakeInv
  BY <1>2 DEF QueueInv
<1> DEFINE H == Len(handed)
           A == availableSeeds
<1>4. H \in Nat /\ A \in Nat
  BY DEF TypeOK
<1>5. Queued = Run(H, A)
  BY <1>2 DEF ShowsRun
<1>6. Queued' = Run(H', A')
  BY DEF ShowsRun
<1>7. ASSUME handed' = handed, A' = A
      PROVE  [Queue!Next]_(Queue!vars)
  <2>1. Queued' = Queued
    BY <1>5, <1>6, <1>7
  <2> QED
    BY <1>2, <1>7, <2>1 DEF Queue!vars
<1>8. CASE MainStep /\ StoreAvailable
  <2>1. /\ main = "store" /\ handed' = Append(handed, taken)
        /\ A > 0 /\ A' = A - 1
    BY <1>3, <1>8 DEF StoreAvailable, MoveMain, CounterInv, TakeInv
  <2>2. /\ H' = H + 1 /\ BySeed(taken) = Named(H + 1)
        /\ Seeds' = Append(Seeds, BySeed(taken))
    BY <1>3, <2>1, SeedsAppend DEF TakeInv, BySeed, Named
  <2>3. Queued # <<>> /\ Head(Queued) = BySeed(taken) /\ Tail(Queued) = Queued'
    <3>1. /\ Run(H, A) # <<>> /\ Head(Run(H, A)) = Named(H + 1)
          /\ Tail(Run(H, A)) = Run(H + 1, A - 1)
      BY <1>4, <2>1, RunTail
    <3> QED
      BY <1>5, <1>6, <2>1, <2>2, <3>1
  <2>4. Queue!Take
    BY <1>2, <2>2, <2>3 DEF Queue!Take, Seeds
  <2> QED
    BY <1>2, <2>4 DEF Queue!Next
<1>9. ASSUME NEW t \in Thread, StoreCount(t)
      PROVE  [Queue!Next]_(Queue!vars)
  <2>1. handed' = handed /\ A < MaxSeeds /\ A' = A + 1
    <3>1. PICK u \in Thread : Sole(u) /\ BatchInv(u)
      BY <1>2 DEF QueueInv
    <3>2. pc[t] = "store" /\ u = t
      BY <1>9, <3>1 DEF StoreCount, EndIteration, Move, Sole, Filling
    <3>3. reg[t] = A /\ Due(t) > 0 /\ A + Due(t) <= MaxSeeds
      <4>1. done[t] < want[t] /\ Due(t) = want[t] - done[t]
        BY <3>2 DEF LoopInv, Loop, Due
      <4>2. reg[t] = A /\ A + Due(t) <= MaxSeeds
        BY <3>1, <3>2 DEF BatchInv
      <4>3. done[t] \in Nat /\ want[t] \in Nat
        BY <3>1, <3>2, BatchBounds
      <4> QED
        BY <4>1, <4>2, <4>3
    <3>4. Due(t) \in Nat /\ MaxSeeds \in Nat
      BY <3>1, <3>2, BatchBounds
    <3> QED
      BY <1>4, <1>9, <3>3, <3>4 DEF StoreCount, mainVars
  <2>2. Queued' = Append(Queued, Named(H + A + 1)) /\ Len(Queued) = A
    <3>1. /\ Append(Run(H, A), Named(H + A + 1)) = Run(H, A + 1)
          /\ Len(Run(H, A)) = A
      BY <1>4, RunAppend, RunShape
    <3> QED
      BY <1>5, <1>6, <2>1, <3>1
  <2>3. Len(Seeds) = H /\ Seeds' = Seeds
    BY <2>1 DEF Seeds, TypeOK
  <2>4. Queue!NextTuple = Named(H + A + 1)
    BY <1>2, <2>2, <2>3 DEF Queue!NextTuple, Named, Seeds
  <2>5. Queue!Put
    BY <1>2, <2>1, <2>2, <2>3, <2>4 DEF Queue!Put, Seeds
  <2> QED
    BY <1>2, <2>5 DEF Queue!Next
<1>10. CASE ClientStep \/ (MainStep /\ ~StoreAvailable)
  <2>1. UNCHANGED <<handed, availableSeeds>>
    BY <1>10
    DEF ClientStep, StartSession, MainStep, Serve, FindSeed, LockPool, CopySeed,
       LoadAvailable, AdvanceSeed, LaunchAfterTake, UnlockPool, Pause,
       LaunchAfterExecute, poolVars
  <2> QED
    BY <1>7, <2>1
<1>11. ASSUME NEW t \in Thread, Precompute(t), ~StoreCount(t)
       PROVE  [Queue!Next]_(Queue!vars)
  <2>1. UNCHANGED <<handed, availableSeeds>>
    BY <1>11
    DEF Precompute, LockToClear, ClearTerminated, Size, Enter, DrawSeed,
       AdvancePreSeed, WrapPreSeed, WriteValue, LoadCount, Leave, SetTerminated,
       UnlockAgain, mainVars, poolVars
  <2> QED
    BY <1>7, <2>1
<1>12. CASE UNCHANGED vars
  BY <1>7, <1>12 DEF vars, mainVars, poolVars
<1> QED
  BY <1>8, <1>9, <1>10, <1>11, <1>12 DEF Next

(* The constructor leaves an empty queue. *)
LEMMA InitIsQueueInit == Init => Queue!Init /\ QueueInv /\ Mutex
<1> SUFFICES ASSUME Init
             PROVE  Queue!Init /\ QueueInv /\ Mutex
  OBVIOUS
<1>1. /\ availableSeeds = 0 /\ handed = <<>> /\ ~overlap /\ ~broken
      /\ currentSeed = 0 /\ currentPreSeed = 0 /\ main = "idle" /\ made = 0
      /\ \A t \in Thread : pc[t] \in {"begin", "idle"}
  BY DEF Init, PoolInit
<1>2. Queue!Init
  <2>1. Queued = <<>> /\ Seeds = <<>>
    BY <1>1 DEF Queued, Seeds
  <2> QED
    BY <1>1, <2>1 DEF Queue!Init, Seeds
<1>3. Mutex /\ TakeInv
  BY <1>1 DEF Mutex, MainHolds, Holds, TakeInv
<1>4. 1 \in Thread
  BY ThreadsAssumption DEF Thread
<1>5. Written(1) = 0 /\ Due(1) = 0 /\ pc[1] \notin {"advance", "wrap", "store"} /\ Sole(1)
  BY <1>1, <1>4 DEF Written, Due, Sole, Filling
<1>6. End(1) = 0
  BY <1>1, <1>5 DEF End
<1>7. At(MaxSeeds, Oldest, 0) = 0 /\ Len(handed) = 0
  BY <1>1, MaxSeedsAssumption DEF At, Oldest
<1>8. BatchInv(1)
  BY <1>1, <1>5, <1>6, <1>7, MaxSeedsAssumption DEF BatchInv, Place
<1> QED
  BY <1>2, <1>3, <1>4, <1>5, <1>8 DEF QueueInv

(***************************************************************************)
(* As far as the seeds go the memory of the default build is a bounded     *)
(* queue: every seed that precompute draws is handed out by nextSeed       *)
(* exactly once and in the order in which they were drawn, although a      *)
(* batch is in the memory long before it is counted, tuple by tuple; for   *)
(* every capacity and every number of sessions and threads, until two      *)
(* threads fill the memory at once or one releases the mutex of another.   *)
(***************************************************************************)
THEOREM CudaKeepsOrder == Spec => KeepsOrder
<1>1. Init => Queue!Init /\ QueueInv /\ Mutex
  BY InitIsQueueInit
<1>2. PoolInv /\ Mutex /\ QueueInv /\ [Next]_vars => Mutex' /\ QueueInv'
  <2>1. ASSUME PoolInv, Mutex, UNCHANGED vars
        PROVE  Mutex'
    BY <2>1 DEF Mutex, MainHolds, Holds, vars, mainVars, poolVars
  <2> QED
    BY <2>1, MutexNext, QueueNext DEF PoolInv
<1>3. PoolInv /\ QueueInv => ShowsRun
  BY QueuedIsRun DEF PoolInv
<1>4. PoolInv /\ Mutex /\ QueueInv /\ ShowsRun /\ ShowsRun' /\ [Next]_vars
        => [Queue!Next]_(Queue!vars)
  BY StepIsQueueStep DEF PoolInv
<1> QED
  BY <1>1, <1>2, <1>3, <1>4, PoolInvariant, PTL DEF Spec, KeepsOrder, Queue!Spec
=============================================================================

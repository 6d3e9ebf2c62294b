--------------------------- MODULE PeerPoolProofs ---------------------------
(***************************************************************************)
(* What holds of the seed memory of a peer server for every capacity, any  *)
(* number of sessions and threads and every PAUSECONDITION.                *)
(*                                                                         *)
(* The inductive invariant PoolInv has a part for each theorem: the mutex  *)
(* is exclusive until it is broken, what the io_service thread saw of the  *)
(* counter stays good, a thread will look for room while there is some,    *)
(* and only the slot that is being written does not match.  QueueInv, for  *)
(* the refinement of SeedQueue, says where the tuples are while one thread *)
(* at a time fills the memory.                                             *)
(***************************************************************************)
EXTENDS PeerPoolCpu, Ring

(* Writing one part of a tuple leaves the memory a memory of tuples. *)
LEMMA WriteSlotType ==
  ASSUME TypeOK, NEW t \in Thread, NEW part \in {"seed", "value"},
         WriteSlot(t, part)
  PROVE  slot' \in [0 .. MaxSeeds-1 -> Tuple]
<1>1. CASE currentPreSeed < MaxSeeds
  <2>1. currentPreSeed \in 0 .. MaxSeeds-1 /\ own[t] \in Nat
    BY <1>1, MaxSeedsAssumption DEF TypeOK
  <2>2. [slot[currentPreSeed] EXCEPT ![part] = own[t]] \in Tuple
    BY <2>1 DEF TypeOK, Tuple
  <2>3. slot' = [slot EXCEPT ![currentPreSeed] =
                   [slot[currentPreSeed] EXCEPT ![part] = own[t]]]
    BY <1>1, <2>1 DEF WriteSlot, TypeOK
  <2> QED
    BY <2>1, <2>2, <2>3 DEF TypeOK
<1>2. CASE ~(currentPreSeed < MaxSeeds)
  BY <1>2 DEF WriteSlot, TypeOK
<1> QED
  BY <1>1, <1>2

(* Every step preserves the type invariant. *)
LEMMA TypeNext ==
  ASSUME TypeOK, [Next]_vars
  PROVE  TypeOK'
<1> USE DEF TypeOK, Main, Starting, Filling, Leaving
<1>1. CASE ClientStep
  BY <1>1
  DEF ClientStep, StartSession, MoveMain, mainVars, poolVars, producerVars
<1>2. CASE MainStep
  <2>1. CASE FindSeed
    BY <1>2, <2>1 DEF MainStep, FindSeed, MoveMain, mainVars, poolVars,
       producerVars
  <2>2. CASE LockPool
    BY <1>2, <2>2 DEF MainStep, LockPool, MoveMain, mainVars, poolVars,
       producerVars
  <2>3. CASE CopySeed
    BY <1>2, <2>3 DEF MainStep, CopySeed, MoveMain, mainVars, poolVars,
       producerVars
  <2>4. CASE LoadAvailable
    BY <1>2, <2>4 DEF MainStep, LoadAvailable, MoveMain, mainVars, poolVars,
       producerVars
  <2>5. CASE StoreAvailable
    <3>1. mainReg' \in Nat /\ availableSeeds' \in Nat /\ taken' \in Tuple
      BY <1>2, <2>5, MaxWordAssumption
      DEF MainStep, StoreAvailable, NoTuple, Tuple
    <3>2. handed' \in Seq(Tuple)
      BY <1>2, <2>5 DEF MainStep, StoreAvailable
    <3> QED
      BY <1>2, <2>5, <3>1, <3>2 DEF MainStep, StoreAvailable, MoveMain,
         producerVars
  <2>6. CASE AdvanceSeed
    <3>1. currentSeed' \in 0 .. MaxSeeds-1
      BY <1>2, <2>6, MaxSeedsAssumption DEF MainStep, AdvanceSeed, Successor
    <3> QED
      BY <1>2, <2>6, <3>1 DEF MainStep, AdvanceSeed, MoveMain, poolVars,
         producerVars
  <2>7. CASE LaunchAfterTake
    BY <1>2, <2>7
    DEF MainStep, LaunchAfterTake, MoveMain, Launch, mainVars, poolVars,
       producerVars
  <2>8. CASE UnlockPool
    BY <1>2, <2>8 DEF MainStep, UnlockPool, MoveMain, mainVars, poolVars,
       producerVars
  <2>9. CASE Pause
    BY <1>2, <2>9 DEF MainStep, Pause, MoveMain, mainVars, poolVars,
       producerVars
  <2>10. CASE LaunchAfterExecute
    BY <1>2, <2>10
    DEF MainStep, LaunchAfterExecute, MoveMain, Launch, mainVars, poolVars,
       producerVars
  <2> QED
    BY <1>2, <2>1, <2>2, <2>3, <2>4, <2>5, <2>6, <2>7, <2>8, <2>9, <2>10
    DEF MainStep, Serve
<1>3. CASE \E t \in Thread : Precompute(t)
  <2> PICK t \in Thread : Precompute(t)
    BY <1>3
  <2>1. CASE LockToClear(t)
    BY <2>1 DEF LockToClear, Move, Lock, mainVars, poolVars, producerVars
  <2>2. CASE ClearTerminated(t)
    BY <2>2 DEF ClearTerminated, Move, mainVars, poolVars, producerVars
  <2>3. CASE Enter(t)
    BY <2>3 DEF Enter, Move, Lock, mainVars, poolVars, producerVars
  <2>4. CASE TestRoom(t)
    BY <2>4 DEF TestRoom, Move, mainVars, poolVars, producerVars
  <2>5. CASE Compute(t)
    BY <2>5 DEF Compute, Move, mainVars, poolVars, producerVars
  <2>6. CASE LockToStore(t)
    BY <2>6 DEF LockToStore, Move, Lock, mainVars, poolVars, producerVars
  <2>7. CASE WriteSeed(t)
    <3>1. slot' \in [0 .. MaxSeeds-1 -> Tuple]
      BY <2>7, WriteSlotType DEF WriteSeed
    <3> QED
      BY <2>7, <3>1 DEF WriteSeed, Move, mainVars, producerVars
  <2>8. CASE WriteValue(t)
    <3>1. slot' \in [0 .. MaxSeeds-1 -> Tuple]
      BY <2>8, WriteSlotType DEF WriteValue
    <3> QED
      BY <2>8, <3>1 DEF WriteValue, Move, mainVars, producerVars
  <2>9. CASE LoadCount(t)
    BY <2>9 DEF LoadCount, Move, mainVars, poolVars, producerVars
  <2>10. CASE StoreCount(t)
    BY <2>10 DEF StoreCount, Move, mainVars, poolVars, producerVars
  <2>11. CASE AdvancePreSeed(t)
    BY <2>11 DEF AdvancePreSeed, Move, mainVars, poolVars, producerVars
  <2>12. CASE WrapPreSeed(t)
    BY <2>12 DEF WrapPreSeed, Move, Wrap, mainVars, poolVars, producerVars
  <2>13. CASE SetTerminated(t)
    BY <2>13 DEF SetTerminated, Move, mainVars, poolVars, producerVars
  <2>14. CASE Leave(t)
    BY <2>14 DEF Leave, Move, mainVars, poolVars, producerVars
  <2>15. CASE UnlockAgain(t)
    BY <2>15 DEF UnlockAgain, Move, mainVars, poolVars, producerVars
  <2> QED
    BY <2>1, <2>2, <2>3, <2>4, <2>5, <2>6, <2>7, <2>8, <2>9, <2>10, <2>11,
       <2>12, <2>13, <2>14, <2>15 DEF Precompute
<1>4. CASE UNCHANGED vars
  BY <1>4 DEF vars, mainVars, poolVars, producerVars
<1> QED
  BY <1>1, <1>2, <1>3, <1>4 DEF Next

\* The io_service thread, and the precomputing thread t, hold the mutex.
MainHolds == main \in {"copy", "load", "store", "advance", "launch", "unlock"}

Holds(t) == pc[t] \in {"clear", "clear2", "test", "seed", "value", "load",
                       "store", "advance", "wrap", "terminate", "leave"}

\* At most one thread holds the mutex, until one releases that of another.
Mutex ==
  ~broken =>
    /\ MainHolds => lock
    /\ \A t \in Thread : Holds(t) => lock /\ ~MainHolds
    /\ \A t, u \in Thread : Holds(t) /\ Holds(u) => t = u

\* What the io_service thread saw of the counter is still good when it uses
\* it: nobody else decrements the counter.
CounterInv ==
  /\ main \in {"lock", "copy", "load"} => availableSeeds > 0
  /\ main = "store" => mainReg > 0

\* Some thread has still to test for room.
Looking == \E t \in Thread : pc[t] \in WillFill

\* When there is room, a thread will look for it, or nextSeed, which has just
\* made it, will start one.
FillInv ==
  ~broken =>
    /\ \/ threadTerminated
       \/ Looking
       \/ \E t \in Thread : pc[t] = "terminate"
    /\ availableSeeds < MaxSeeds /\ main \notin {"advance", "launch"}
         => Looking

\* Every slot holds a matching tuple, except the one that is being written,
\* which holds the seed of the thread that writes it.
MatchInv ==
  ~broken =>
    /\ \A i \in 0 .. MaxSeeds-1 :
         \/ slot[i].seed = slot[i].value
         \/ i = currentPreSeed /\ \E t \in Thread : pc[t] = "value"
    /\ \A t \in Thread :
         pc[t] = "value" /\ currentPreSeed \in 0 .. MaxSeeds-1
           => slot[currentPreSeed].seed = own[t]
    /\ taken.seed = taken.value
    /\ \A i \in 1 .. Len(handed) : handed[i].seed = handed[i].value

(* Every step keeps the mutex exclusive or records that it was broken. *)
LEMMA MutexNext ==
  ASSUME TypeOK, Mutex, [Next]_vars
  PROVE  Mutex'
<1>1. pc \in [Thread -> {"idle"} \cup Starting \cup Filling \cup Leaving]
  BY DEF TypeOK
<1> USE <1>1
<1> USE DEF Mutex, MainHolds, Holds
<1>2. CASE ClientStep
  BY <1>2
  DEF ClientStep, StartSession, MoveMain, mainVars, poolVars, producerVars
<1>3. CASE MainStep
  <2>1. CASE FindSeed
    BY <1>3, <2>1 DEF MainStep, FindSeed, MoveMain, mainVars, poolVars,
       producerVars
  <2>2. CASE LockPool
    BY <1>3, <2>2 DEF MainStep, LockPool, MoveMain, mainVars, poolVars,
       producerVars
  <2>3. CASE CopySeed
    BY <1>3, <2>3 DEF MainStep, CopySeed, MoveMain, mainVars, poolVars,
       producerVars
  <2>4. CASE LoadAvailable
    BY <1>3, <2>4 DEF MainStep, LoadAvailable, MoveMain, mainVars, poolVars,
       producerVars
  <2>5. CASE StoreAvailable
    BY <1>3, <2>5 DEF MainStep, StoreAvailable, MoveMain, mainVars, poolVars,
       producerVars
  <2>6. CASE AdvanceSeed
    BY <1>3, <2>6
    DEF MainStep, AdvanceSeed, MoveMain, Successor, mainVars, poolVars,
       producerVars
  <2>7. CASE LaunchAfterTake
    BY <1>3, <2>7
    DEF MainStep, LaunchAfterTake, MoveMain, Launch, mainVars, poolVars,
       producerVars
  <2>8. CASE UnlockPool
    BY <1>3, <2>8 DEF MainStep, UnlockPool, MoveMain, mainVars, poolVars,
       producerVars
  <2>9. CASE Pause
    BY <1>3, <2>9 DEF MainStep, Pause, MoveMain, mainVars, poolVars,
       producerVars
  <2>10. CASE LaunchAfterExecute
    BY <1>3, <2>10
    DEF MainStep, LaunchAfterExecute, MoveMain, Launch, mainVars, poolVars,
       producerVars
  <2> QED
    BY <1>3, <2>1, <2>2, <2>3, <2>4, <2>5, <2>6, <2>7, <2>8, <2>9, <2>10
    DEF MainStep, Serve
<1>4. CASE \E t \in Thread : Precompute(t)
  <2> PICK t \in Thread : Precompute(t)
    BY <1>4
  <2>1. CASE LockToClear(t)
    BY <2>1 DEF LockToClear, Move, Lock, mainVars, poolVars, producerVars
  <2>2. CASE ClearTerminated(t)
    BY <2>2 DEF ClearTerminated, Move, mainVars, poolVars, producerVars
  <2>3. CASE Enter(t)
    BY <2>3 DEF Enter, Move, Lock, mainVars, poolVars, producerVars
  <2>4. CASE TestRoom(t)
    BY <2>4 DEF TestRoom, Move, mainVars, poolVars, producerVars
  <2>5. CASE Compute(t)
    BY <2>5 DEF Compute, Move, mainVars, poolVars, producerVars
  <2>6. CASE LockToStore(t)
    BY <2>6 DEF LockToStore, Move, Lock, mainVars, poolVars, producerVars
  <2>7. CASE WriteSeed(t)
    BY <2>7 DEF WriteSeed, Move, WriteSlot, mainVars, poolVars, producerVars
  <2>8. CASE WriteValue(t)
    BY <2>8 DEF WriteValue, Move, WriteSlot, mainVars, poolVars, producerVars
  <2>9. CASE LoadCount(t)
    BY <2>9 DEF LoadCount, Move, mainVars, poolVars, producerVars
  <2>10. CASE StoreCount(t)
    BY <2>10 DEF StoreCount, Move, mainVars, poolVars, producerVars
  <2>11. CASE AdvancePreSeed(t)
    BY <2>11 DEF AdvancePreSeed, Move, mainVars, poolVars, producerVars
  <2>12. CASE WrapPreSeed(t)
    BY <2>12 DEF WrapPreSeed, Move, Wrap, mainVars, poolVars, producerVars
  <2>13. CASE SetTerminated(t)
    BY <2>13 DEF SetTerminated, Move, mainVars, poolVars, producerVars
  <2>14. CASE Leave(t)
    BY <2>14 DEF Leave, Move, mainVars, poolVars, producerVars
  <2>15. CASE UnlockAgain(t)
    BY <2>15 DEF UnlockAgain, Move, mainVars, poolVars, producerVars
  <2> QED
    BY <2>1, <2>2, <2>3, <2>4, <2>5, <2>6, <2>7, <2>8, <2>9, <2>10, <2>11,
       <2>12, <2>13, <2>14, <2>15 DEF Precompute
<1>5. CASE UNCHANGED vars
  BY <1>5 DEF vars, mainVars, poolVars, producerVars
<1> QED
  BY <1>2, <1>3, <1>4, <1>5 DEF Next

(* Every step preserves CounterInv, broken mutex or not. *)
LEMMA CounterNext ==
  ASSUME TypeOK, CounterInv, [Next]_vars
  PROVE  CounterInv'
<1>1. /\ pc \in [Thread -> {"idle"} \cup Starting \cup Filling \cup Leaving]
      /\ reg \in [Thread -> Nat] /\ availableSeeds \in Nat /\ mainReg \in Nat
  BY DEF TypeOK
<1> USE <1>1
<1> USE DEF CounterInv
<1>2. CASE ClientStep
  BY <1>2
  DEF ClientStep, StartSession, MoveMain, mainVars, poolVars, producerVars
<1>3. CASE MainStep
  <2>1. CASE FindSeed
    BY <1>3, <2>1 DEF MainStep, FindSeed, MoveMain, mainVars, poolVars,
       producerVars
  <2>2. CASE LockPool
    BY <1>3, <2>2 DEF MainStep, LockPool, MoveMain, mainVars, poolVars,
       producerVars
  <2>3. CASE CopySeed
    BY <1>3, <2>3 DEF MainStep, CopySeed, MoveMain, mainVars, poolVars,
       producerVars
  <2>4. CASE LoadAvailable
    BY <1>3, <2>4 DEF MainStep, LoadAvailable, MoveMain, mainVars, poolVars,
       producerVars
  <2>5. CASE StoreAvailable
    BY <1>3, <2>5 DEF MainStep, StoreAvailable, MoveMain, mainVars, poolVars,
       producerVars
  <2>6. CASE AdvanceSeed
    BY <1>3, <2>6
    DEF MainStep, AdvanceSeed, MoveMain, Successor, mainVars, poolVars,
       producerVars
  <2>7. CASE LaunchAfterTake
    BY <1>3, <2>7
    DEF MainStep, LaunchAfterTake, MoveMain, Launch, mainVars, poolVars,
       producerVars
  <2>8. CASE UnlockPool
    BY <1>3, <2>8 DEF MainStep, UnlockPool, MoveMain, mainVars, poolVars,
       producerVars
  <2>9. CASE Pause
    BY <1>3, <2>9 DEF MainStep, Pause, MoveMain, mainVars, poolVars,
       producerVars
  <2>10. CASE LaunchAfterExecute
    BY <1>3, <2>10
    DEF MainStep, LaunchAfterExecute, MoveMain, Launch, mainVars, poolVars,
       producerVars
  <2> QED
    BY <1>3, <2>1, <2>2, <2>3, <2>4, <2>5, <2>6, <2>7, <2>8, <2>9, <2>10
    DEF MainStep, Serve
<1>4. CASE \E t \in Thread : Precompute(t)
  <2> PICK t \in Thread : Precompute(t)
    BY <1>4
  <2>1. CASE LockToClear(t)
    BY <2>1 DEF LockToClear, Move, Lock, mainVars, poolVars, producerVars
  <2>2. CASE ClearTerminated(t)
    BY <2>2 DEF ClearTerminated, Move, mainVars, poolVars, producerVars
  <2>3. CASE Enter(t)
    BY <2>3 DEF Enter, Move, Lock, mainVars, poolVars, producerVars
  <2>4. CASE TestRoom(t)
    BY <2>4 DEF TestRoom, Move, mainVars, poolVars, producerVars
  <2>5. CASE Compute(t)
    BY <2>5 DEF Compute, Move, mainVars, poolVars, producerVars
  <2>6. CASE LockToStore(t)
    BY <2>6 DEF LockToStore, Move, Lock, mainVars, poolVars, producerVars
  <2>7. CASE WriteSeed(t)
    BY <2>7 DEF WriteSeed, Move, WriteSlot, mainVars, poolVars, producerVars
  <2>8. CASE WriteValue(t)
    BY <2>8 DEF WriteValue, Move, WriteSlot, mainVars, poolVars, producerVars
  <2>9. CASE LoadCount(t)
    BY <2>9 DEF LoadCount, Move, mainVars, poolVars, producerVars
  <2>10. CASE StoreCount(t)
    BY <2>10 DEF StoreCount, Move, mainVars, poolVars, producerVars
  <2>11. CASE AdvancePreSeed(t)
    BY <2>11 DEF AdvancePreSeed, Move, mainVars, poolVars, producerVars
  <2>12. CASE WrapPreSeed(t)
    BY <2>12 DEF WrapPreSeed, Move, Wrap, mainVars, poolVars, producerVars
  <2>13. CASE SetTerminated(t)
    BY <2>13 DEF SetTerminated, Move, mainVars, poolVars, producerVars
  <2>14. CASE Leave(t)
    BY <2>14 DEF Leave, Move, mainVars, poolVars, producerVars
  <2>15. CASE UnlockAgain(t)
    BY <2>15 DEF UnlockAgain, Move, mainVars, poolVars, producerVars
  <2> QED
    BY <2>1, <2>2, <2>3, <2>4, <2>5, <2>6, <2>7, <2>8, <2>9, <2>10, <2>11,
       <2>12, <2>13, <2>14, <2>15 DEF Precompute
<1>5. CASE UNCHANGED vars
  BY <1>5 DEF vars, mainVars, poolVars, producerVars
<1> QED
  BY <1>2, <1>3, <1>4, <1>5 DEF Next

(* Every step preserves FillInv. *)
LEMMA FillNext ==
  ASSUME TypeOK, Mutex, FillInv, [Next]_vars
  PROVE  FillInv'
<1>1. /\ pc \in [Thread -> {"idle"} \cup Starting \cup Filling \cup Leaving]
      /\ availableSeeds \in Nat
  BY DEF TypeOK
<1> USE <1>1
<1> USE DEF FillInv, Looking, WillFill, Starting, Filling
<1>2. CASE ClientStep
  BY <1>2
  DEF ClientStep, StartSession, MoveMain, mainVars, poolVars, producerVars
<1>3. CASE MainStep
  <2>1. CASE FindSeed
    BY <1>3, <2>1 DEF MainStep, FindSeed, MoveMain, mainVars, poolVars,
       producerVars
  <2>2. CASE LockPool
    BY <1>3, <2>2 DEF MainStep, LockPool, MoveMain, mainVars, poolVars,
       producerVars
  <2>3. CASE CopySeed
    BY <1>3, <2>3 DEF MainStep, CopySeed, MoveMain, mainVars, poolVars,
       producerVars
  <2>4. CASE LoadAvailable
    BY <1>3, <2>4 DEF MainStep, LoadAvailable, MoveMain, mainVars, poolVars,
       producerVars
  <2>5. CASE StoreAvailable
    BY <1>3, <2>5 DEF MainStep, StoreAvailable, MoveMain, mainVars, poolVars,
       producerVars
  <2>6. CASE AdvanceSeed
    BY <1>3, <2>6
    DEF MainStep, AdvanceSeed, MoveMain, Successor, mainVars, poolVars,
       producerVars
  <2>7. CASE LaunchAfterTake
    <3> USE DEF MainStep, LaunchAfterTake, MoveMain, Launch, poolVars
    <3>1. CASE threadTerminated
      <4>1. PICK t \in Thread : pc' = [pc EXCEPT ![t] = "begin"] /\ pc[t] = "idle"
        BY <1>3, <2>7, <3>1
      <4> QED
        BY <1>3, <2>7, <3>1, <4>1
    <3>2. CASE ~threadTerminated
      <4>1. ~broken => \A t \in Thread : pc[t] # "terminate"
        BY <1>3, <2>7 DEF Mutex, MainHolds, Holds
      <4>2. ~broken => Looking
        BY <3>2, <4>1
      <4> QED
        BY <1>3, <2>7, <3>2, <4>2
    <3> QED
      BY <3>1, <3>2
  <2>8. CASE UnlockPool
    BY <1>3, <2>8 DEF MainStep, UnlockPool, MoveMain, mainVars, poolVars,
       producerVars
  <2>9. CASE Pause
    <3>1. UNCHANGED <<pc, broken, availableSeeds>>
      BY <1>3, <2>9 DEF MainStep, Pause
    <3>2. threadTerminated' = threadTerminated \/ threadTerminated' = TRUE
      BY <1>3, <2>9 DEF MainStep, Pause
    <3>3. main = "execute" /\ main' = "relaunch"
      BY <1>3, <2>9 DEF MainStep, Pause, MoveMain
    <3> QED
      BY <3>1, <3>2, <3>3
  <2>10. CASE LaunchAfterExecute
    BY <1>3, <2>10
    DEF MainStep, LaunchAfterExecute, MoveMain, Launch, mainVars, poolVars,
       producerVars
  <2> QED
    BY <1>3, <2>1, <2>2, <2>3, <2>4, <2>5, <2>6, <2>7, <2>8, <2>9, <2>10
    DEF MainStep, Serve
<1>4. CASE \E t \in Thread : Precompute(t)
  <2> PICK t \in Thread : Precompute(t)
    BY <1>4
  <2>1. CASE LockToClear(t)
    BY <2>1 DEF LockToClear, Move, Lock, mainVars, poolVars, producerVars
  <2>2. CASE ClearTerminated(t)
    BY <2>2 DEF ClearTerminated, Move, mainVars, poolVars, producerVars
  <2>3. CASE Enter(t)
    BY <2>3 DEF Enter, Move, Lock, mainVars, poolVars, producerVars
  <2>4. CASE TestRoom(t)
    <3>1. CASE availableSeeds < MaxSeeds /\ Move(t, "test", "compute")
      <4>1. pc'[t] = "compute" /\ UNCHANGED broken
        BY <2>4, <3>1 DEF TestRoom, Move
      <4> QED
        BY <4>1
    <3>2. CASE availableSeeds >= MaxSeeds /\ Move(t, "test", "terminate")
      <4>1. /\ pc'[t] = "terminate"
            /\ UNCHANGED <<broken, availableSeeds>>
        BY <2>4, <3>2 DEF TestRoom, Move
      <4>2. ~(availableSeeds < MaxSeeds)
        BY <3>2, <1>1, MaxSeedsAssumption
      <4> QED
        BY <4>1, <4>2
    <3> QED
      BY <2>4, <3>1, <3>2 DEF TestRoom
  <2>5. CASE Compute(t)
    BY <2>5 DEF Compute, Move, mainVars, poolVars, producerVars
  <2>6. CASE LockToStore(t)
    BY <2>6 DEF LockToStore, Move, Lock, mainVars, poolVars, producerVars
  <2>7. CASE WriteSeed(t)
    BY <2>7 DEF WriteSeed, Move, WriteSlot, mainVars, poolVars, producerVars
  <2>8. CASE WriteValue(t)
    BY <2>8 DEF WriteValue, Move, WriteSlot, mainVars, poolVars, producerVars
  <2>9. CASE LoadCount(t)
    BY <2>9 DEF LoadCount, Move, mainVars, poolVars, producerVars
  <2>10. CASE StoreCount(t)
    BY <2>10 DEF StoreCount, Move, mainVars, poolVars, producerVars
  <2>11. CASE AdvancePreSeed(t)
    BY <2>11 DEF AdvancePreSeed, Move, mainVars, poolVars, producerVars
  <2>12. CASE WrapPreSeed(t)
    BY <2>12 DEF WrapPreSeed, Move, Wrap, mainVars, poolVars, producerVars
  <2>13. CASE SetTerminated(t)
    BY <2>13 DEF SetTerminated, Move, mainVars, poolVars, producerVars
  <2>14. CASE Leave(t)
    BY <2>14 DEF Leave, Move, mainVars, poolVars, producerVars
  <2>15. CASE UnlockAgain(t)
    BY <2>15 DEF UnlockAgain, Move, mainVars, poolVars, producerVars
  <2> QED
    BY <2>1, <2>2, <2>3, <2>4, <2>5, <2>6, <2>7, <2>8, <2>9, <2>10, <2>11,
       <2>12, <2>13, <2>14, <2>15 DEF Precompute
<1>5. CASE UNCHANGED vars
  BY <1>5 DEF vars, mainVars, poolVars, producerVars
<1> QED
  BY <1>2, <1>3, <1>4, <1>5 DEF Next

(* Every step preserves MatchInv. *)
LEMMA MatchNext ==
  ASSUME TypeOK, Mutex, MatchInv, [Next]_vars
  PROVE  MatchInv'
<1>1. pc \in [Thread -> {"idle"} \cup Starting \cup Filling \cup Leaving]
  BY DEF TypeOK
<1> USE <1>1
<1> USE DEF MatchInv
<1>2. CASE ClientStep
  BY <1>2
  DEF ClientStep, StartSession, MoveMain, mainVars, poolVars, producerVars
<1>3. CASE MainStep
  <2>1. CASE FindSeed
    BY <1>3, <2>1 DEF MainStep, FindSeed, MoveMain, mainVars, poolVars,
       producerVars
  <2>2. CASE LockPool
    BY <1>3, <2>2 DEF MainStep, LockPool, MoveMain, mainVars, poolVars,
       producerVars
  <2>3. CASE CopySeed
    <3>1. UNCHANGED <<slot, pc, own, currentPreSeed, handed, broken>>
      BY <1>3, <2>3 DEF MainStep, CopySeed, poolVars, producerVars
    <3>2. taken' = slot[currentSeed] /\ currentSeed \in 0 .. MaxSeeds-1
      BY <1>3, <2>3 DEF MainStep, CopySeed, TypeOK
    <3>3. ~broken => \A t \in Thread : pc[t] # "value"
      BY <1>3, <2>3 DEF MainStep, CopySeed, MoveMain, Mutex, MainHolds, Holds
    <3> QED
      BY <3>1, <3>2, <3>3
  <2>4. CASE LoadAvailable
    BY <1>3, <2>4 DEF MainStep, LoadAvailable, MoveMain, mainVars, poolVars,
       producerVars
  <2>5. CASE StoreAvailable
    <3>1. UNCHANGED <<slot, pc, own, currentPreSeed, broken>>
      BY <1>3, <2>5 DEF MainStep, StoreAvailable, producerVars
    <3>2. /\ handed' = Append(handed, taken)
          /\ taken' = NoTuple
          /\ handed \in Seq(Tuple) /\ taken \in Tuple
      BY <1>3, <2>5 DEF MainStep, StoreAvailable, TypeOK
    <3>3. /\ Len(handed') = Len(handed) + 1
          /\ Len(handed) \in Nat
          /\ \A i \in 1 .. Len(handed) : handed'[i] = handed[i]
          /\ handed'[Len(handed) + 1] = taken
      BY <3>2
    <3>4. \A i \in 1 .. Len(handed') : i \in 1 .. Len(handed) \/ i = Len(handed) + 1
      BY <3>3
    <3>5. ~broken => \A i \in 1 .. Len(handed') : handed'[i].seed = handed'[i].value
      BY <3>3, <3>4
    <3> QED
      BY <3>1, <3>2, <3>5 DEF NoTuple
  <2>6. CASE AdvanceSeed
    BY <1>3, <2>6
    DEF MainStep, AdvanceSeed, MoveMain, Successor, mainVars, poolVars,
       producerVars
  <2>7. CASE LaunchAfterTake
    BY <1>3, <2>7
    DEF MainStep, LaunchAfterTake, MoveMain, Launch, mainVars, poolVars,
       producerVars
  <2>8. CASE UnlockPool
    BY <1>3, <2>8 DEF MainStep, UnlockPool, MoveMain, mainVars, poolVars,
       producerVars
  <2>9. CASE Pause
    BY <1>3, <2>9 DEF MainStep, Pause, MoveMain, mainVars, poolVars,
       producerVars
  <2>10. CASE LaunchAfterExecute
    BY <1>3, <2>10
    DEF MainStep, LaunchAfterExecute, MoveMain, Launch, mainVars, poolVars,
       producerVars
  <2> QED
    BY <1>3, <2>1, <2>2, <2>3, <2>4, <2>5, <2>6, <2>7, <2>8, <2>9, <2>10
    DEF MainStep, Serve
<1>4. CASE \E t \in Thread : Precompute(t)
  <2> PICK t \in Thread : Precompute(t)
    BY <1>4
  <2>1. CASE LockToClear(t)
    BY <2>1 DEF LockToClear, Move, Lock, mainVars, poolVars, producerVars
  <2>2. CASE ClearTerminated(t)
    BY <2>2 DEF ClearTerminated, Move, mainVars, poolVars, producerVars
  <2>3. CASE Enter(t)
    BY <2>3 DEF Enter, Move, Lock, mainVars, poolVars, producerVars
  <2>4. CASE TestRoom(t)
    BY <2>4 DEF TestRoom, Move, mainVars, poolVars, producerVars
  <2>5. CASE Compute(t)
    BY <2>5 DEF Compute, Move, mainVars, poolVars, producerVars
  <2>6. CASE LockToStore(t)
    BY <2>6 DEF LockToStore, Move, Lock, mainVars, poolVars, producerVars
  <2>7. CASE WriteSeed(t)
    <3>1. /\ pc[t] = "seed"
          /\ pc' = [pc EXCEPT ![t] = "value"]
          /\ UNCHANGED <<currentPreSeed, taken, handed, broken, own>>
      BY <2>7 DEF WriteSeed, Move, mainVars, producerVars
    <3>2. ~broken => \A u \in Thread : pc[u] # "value"
      BY <3>1 DEF Mutex, Holds
    <3>3. pc'[t] = "value" /\ \A u \in Thread \ {t} : pc'[u] = pc[u]
      BY <3>1
    <3>4. \A i \in 0 .. MaxSeeds-1 : i # currentPreSeed => slot'[i] = slot[i]
      BY <2>7 DEF WriteSeed, WriteSlot, TypeOK
    <3>5. currentPreSeed \in 0 .. MaxSeeds-1 => slot'[currentPreSeed].seed = own[t]
      <4>1. SUFFICES ASSUME currentPreSeed \in 0 .. MaxSeeds-1
                     PROVE  slot'[currentPreSeed].seed = own[t]
        OBVIOUS
      <4>2. slot' = [slot EXCEPT ![currentPreSeed] =
                       [slot[currentPreSeed] EXCEPT !["seed"] = own[t]]]
        BY <2>7, <4>1, MaxSeedsAssumption DEF WriteSeed, WriteSlot, TypeOK
      <4>3. slot[currentPreSeed] \in Tuple
        BY <4>1 DEF TypeOK
      <4> QED
        BY <4>1, <4>2, <4>3 DEF TypeOK, Tuple
    <3> QED
      BY <3>1, <3>2, <3>3, <3>4, <3>5
  <2>8. CASE WriteValue(t)
    <3>1. pc[t] = "value" /\ UNCHANGED <<currentPreSeed, taken, handed, broken>>
      BY <2>8 DEF WriteValue, Move, mainVars
    <3>2. ~broken => \A u \in Thread : pc[u] = "value" => u = t
      BY <3>1 DEF Mutex, Holds
    <3>3. ASSUME NEW i \in 0 .. MaxSeeds-1, ~broken
          PROVE  slot'[i].seed = slot'[i].value
      <4>1. CASE i = currentPreSeed
        <5>1. slot'[i] = [slot[i] EXCEPT !["value"] = own[t]]
          BY <2>8, <4>1, <3>3, MaxSeedsAssumption
          DEF WriteValue, WriteSlot, TypeOK
        <5>2. slot[i] \in Tuple
          BY DEF TypeOK
        <5>3. slot'[i].seed = slot[i].seed /\ slot'[i].value = own[t]
          BY <5>1, <5>2 DEF Tuple
        <5>4. slot[i].seed = own[t]
          BY <3>1, <3>3, <4>1
        <5> QED
          BY <5>3, <5>4
      <4>2. CASE i # currentPreSeed
        <5>1. slot'[i] = slot[i]
          BY <2>8, <4>2, <3>3 DEF WriteValue, WriteSlot, TypeOK
        <5> QED
          BY <4>2, <5>1, <3>3
      <4> QED
        BY <4>1, <4>2
    <3>4. pc' = [pc EXCEPT ![t] = "load"]
      BY <2>8 DEF WriteValue, Move
    <3>5. ~broken => \A u \in Thread : pc'[u] # "value"
      BY <3>2, <3>4
    <3> QED
      BY <3>1, <3>3, <3>5
  <2>9. CASE LoadCount(t)
    BY <2>9 DEF LoadCount, Move, mainVars, poolVars, producerVars
  <2>10. CASE StoreCount(t)
    BY <2>10 DEF StoreCount, Move, mainVars, poolVars, producerVars
  <2>11. CASE AdvancePreSeed(t)
    <3>1. /\ pc[t] = "advance"
          /\ pc' = [pc EXCEPT ![t] = "wrap"]
          /\ UNCHANGED <<slot, own, taken, handed, broken>>
      BY <2>11 DEF AdvancePreSeed, Move, mainVars, producerVars
    <3>2. ~broken => \A u \in Thread : pc[u] # "value"
      BY <3>1 DEF Mutex, Holds
    <3>3. ~broken => \A u \in Thread : pc'[u] # "value"
      BY <3>1, <3>2
    <3> QED
      BY <3>1, <3>2, <3>3
  <2>12. CASE WrapPreSeed(t)
    <3>1. /\ pc[t] = "wrap"
          /\ pc' = [pc EXCEPT ![t] = "test"]
          /\ UNCHANGED <<slot, own, taken, handed, broken>>
      BY <2>12 DEF WrapPreSeed, Move, mainVars, producerVars
    <3>2. ~broken => \A u \in Thread : pc[u] # "value"
      BY <3>1 DEF Mutex, Holds
    <3>3. ~broken => \A u \in Thread : pc'[u] # "value"
      BY <3>1, <3>2
    <3> QED
      BY <3>1, <3>2, <3>3
  <2>13. CASE SetTerminated(t)
    BY <2>13 DEF SetTerminated, Move, mainVars, poolVars, producerVars
  <2>14. CASE Leave(t)
    BY <2>14 DEF Leave, Move, mainVars, poolVars, producerVars
  <2>15. CASE UnlockAgain(t)
    BY <2>15 DEF UnlockAgain, Move, mainVars, poolVars, producerVars
  <2> QED
    BY <2>1, <2>2, <2>3, <2>4, <2>5, <2>6, <2>7, <2>8, <2>9, <2>10, <2>11,
       <2>12, <2>13, <2>14, <2>15 DEF Precompute
<1>5. CASE UNCHANGED vars
  BY <1>5 DEF vars, mainVars, poolVars, producerVars
<1> QED
  BY <1>2, <1>3, <1>4, <1>5 DEF Next

PoolInv == TypeOK /\ Mutex /\ CounterInv /\ FillInv /\ MatchInv

(* PoolInv holds when the constructor has started the first thread. *)
LEMMA InitPoolInv == Init => PoolInv
<1> SUFFICES ASSUME Init
             PROVE  PoolInv
  OBVIOUS
<1>1. TypeOK
  <2>1. slot \in [0 .. MaxSeeds-1 -> Tuple]
    BY DEF Init, PoolInit, NoTuple, Tuple
  <2>2. taken \in Tuple /\ handed \in Seq(Tuple)
    BY DEF Init, PoolInit, NoTuple, Tuple
  <2>3. currentSeed \in 0 .. MaxSeeds-1 /\ main \in Main
    BY MaxSeedsAssumption DEF Init, PoolInit, Main
  <2>4. pc \in [Thread -> {"idle"} \cup Starting \cup Filling \cup Leaving]
    BY DEF Init, PoolInit, Starting
  <2> QED
    BY <2>1, <2>2, <2>3, <2>4 DEF Init, PoolInit, TypeOK
<1>2. \A t \in Thread : pc[t] \in {"begin", "idle"}
  BY DEF Init, PoolInit
<1>3. Mutex
  BY <1>2 DEF Init, PoolInit, Mutex, MainHolds, Holds
<1>4. CounterInv
  BY DEF Init, PoolInit, CounterInv
<1>5. FillInv
  <2>1. 1 \in Thread
    BY ThreadsAssumption DEF Thread
  <2>2. pc[1] \in WillFill
    BY <2>1 DEF Init, PoolInit, WillFill, Starting
  <2> QED
    BY <2>1, <2>2 DEF FillInv, Looking
<1>6. MatchInv
  BY <1>2 DEF Init, PoolInit, MatchInv, NoTuple
<1> QED
  BY <1>1, <1>3, <1>4, <1>5, <1>6 DEF PoolInv

(* PoolInv is inductive. *)
LEMMA NextPoolInv == PoolInv /\ [Next]_vars => PoolInv'
BY TypeNext, MutexNext, CounterNext, FillNext, MatchNext DEF PoolInv

LEMMA PoolInvariant == Spec => []PoolInv
<1>1. QED
  BY InitPoolInv, NextPoolInv, PTL DEF Spec

(***************************************************************************)
(* Every state of the seed memory is well typed, for every capacity, every *)
(* number of sessions and of threads and every PAUSECONDITION.             *)
(***************************************************************************)
THEOREM PoolTypeCorrect == Spec => []TypeOK
<1>1. PoolInv => TypeOK
  BY DEF PoolInv
<1> QED
  BY <1>1, PoolInvariant, PTL

(***************************************************************************)
(* nextSeed never decrements availableSeeds at zero, although the loop     *)
(* that waits for a tuple does not lock (CIP_pirServer.cpp:332).           *)
(***************************************************************************)
THEOREM PoolNeverUnderflows == Spec => []NeverUnderflows
<1>1. PoolInv => NeverUnderflows
  BY DEF PoolInv, CounterInv, NeverUnderflows
<1> QED
  BY <1>1, PoolInvariant, PTL

(***************************************************************************)
(* Until a thread releases the mutex of another, nextSeed only returns     *)
(* tuples whose value belongs to their seed, however many threads fill the *)
(* memory.                                                                 *)
(***************************************************************************)
THEOREM PoolTuplesMatch == Spec => []TuplesMatch
<1>1. PoolInv => TuplesMatch
  BY DEF PoolInv, MatchInv, TuplesMatch
<1> QED
  BY <1>1, PoolInvariant, PTL

(***************************************************************************)
(* Until a thread releases the mutex of another, a session that waits at   *)
(* an empty memory has a thread that will look for room: the loop of       *)
(* nextSeed does not poll in vain.                                         *)
(***************************************************************************)
THEOREM PoolSomeThreadFills == Spec => []SomeThreadFills
<1>1. PoolInv => SomeThreadFills
  BY MaxSeedsAssumption DEF PoolInv, FillInv, Looking, SomeThreadFills
<1> QED
  BY <1>1, PoolInvariant, PTL

-----------------------------------------------------------------------------
\* A thread has drawn a seed whose tuple is not counted yet.
Drawing == {"relock", "seed", "value", "load", "store"}

\* The parts of QueueInv.  One thread at a time fills the memory.
Alone == \A t, u \in Thread : pc[t] \in Filling /\ pc[u] \in Filling => t = u

\* What was read of the counter is good when it is written back, and there is
\* room for the tuple that is being made.
CountInv ==
  /\ availableSeeds <= MaxSeeds
  /\ main = "store" => mainReg = availableSeeds
  /\ \A t \in Thread :
       /\ pc[t] = "store" => reg[t] = availableSeeds
       /\ pc[t] \in {"compute"} \cup Drawing => availableSeeds < MaxSeeds
       /\ pc[t] \in {"advance", "wrap"} => availableSeeds > 0

\* The next tuple is written behind the tuples that wait.
PlaceInv ==
  /\ (\A t \in Thread : pc[t] \notin {"advance", "wrap"})
       => currentPreSeed = At(MaxSeeds, Oldest, availableSeeds)
  /\ \A t \in Thread :
       /\ pc[t] = "advance"
            => currentPreSeed = At(MaxSeeds, Oldest, availableSeeds - 1)
       /\ pc[t] = "wrap"
            => currentPreSeed = At(MaxSeeds, Oldest, availableSeeds - 1) + 1

\* Every seed that was drawn has been handed out, waits, or is being stored.
NameInv ==
  /\ (\A t \in Thread : pc[t] \notin Drawing)
       => made = Len(handed) + availableSeeds
  /\ \A t \in Thread :
       /\ pc[t] \in Drawing => made = Len(handed) + availableSeeds + 1
       /\ pc[t] \in {"relock", "seed", "value"} => own[t] = made

\* The tuples that wait are the next ones to be handed out.
SlotInv ==
  /\ \A i \in 0 .. availableSeeds-1 :
       slot[At(MaxSeeds, Oldest, i)] = Named(Len(handed) + 1 + i)
  /\ \A t \in Thread :
       /\ pc[t] = "value" => slot[currentPreSeed].seed = made
       /\ pc[t] \in {"load", "store"} => slot[currentPreSeed] = Named(made)
  /\ main \in {"load", "store"} => taken = Named(Len(handed) + 1)

QueueInv ==
  ~broken /\ ~overlap => Alone /\ CountInv /\ PlaceInv /\ NameInv /\ SlotInv

(* A step that leaves the mutex whole and the threads apart was taken from   *)
(* such a state.                                                           *)
LEMMA DegradedForGood ==
  ASSUME TypeOK, [Next]_vars, ~broken', ~overlap'
  PROVE  ~broken /\ ~overlap
<1> USE DEF mainVars, poolVars, producerVars
<1>1. CASE ClientStep \/ MainStep
  <2>1. UNCHANGED <<broken, overlap>>
    BY <1>1
    DEF ClientStep, StartSession, MainStep, Serve, FindSeed, LockPool, CopySeed,
       LoadAvailable, StoreAvailable, AdvanceSeed, LaunchAfterTake, UnlockPool, Pause,
       LaunchAfterExecute
  <2> QED
    BY <2>1
<1>2. ASSUME NEW t \in Thread, Precompute(t)
      PROVE  ~broken /\ ~overlap
  <2>1. CASE Enter(t)
    BY <2>1, Zenon DEF Enter
  <2>2. CASE UnlockAgain(t)
    BY <2>2, Zenon DEF UnlockAgain
  <2>3. CASE Precompute(t) /\ ~Enter(t) /\ ~UnlockAgain(t)
    <3>1. UNCHANGED <<broken, overlap>>
      BY <2>3 DEF Precompute, LockToClear, ClearTerminated, TestRoom, Compute,
         LockToStore, WriteSeed, WriteValue, LoadCount, StoreCount, AdvancePreSeed,
         WrapPreSeed, SetTerminated, Leave
    <3> QED
      BY <3>1
  <2> QED
    BY <1>2, <2>1, <2>2, <2>3
<1>3. CASE UNCHANGED vars
  BY <1>3 DEF vars
<1> QED
  BY <1>1, <1>2, <1>3 DEF Next

(* A step of the io_service thread preserves QueueInv. *)
LEMMA QueueMain ==
  ASSUME TypeOK, Mutex, CounterInv, ~broken, ~overlap,
         Alone, CountInv, PlaceInv, NameInv, SlotInv, ClientStep \/ MainStep
  PROVE  Alone' /\ CountInv' /\ PlaceInv' /\ NameInv' /\ SlotInv'
<1>1. /\ pc \in [Thread -> {"idle"} \cup Starting \cup Filling \cup Leaving]
      /\ availableSeeds \in 0 .. MaxSeeds /\ MaxSeeds \in Nat \ {0}
      /\ currentSeed \in 0 .. MaxSeeds-1
      /\ made \in Nat /\ Len(handed) \in Nat
      /\ UNCHANGED <<own, reg, made, overlap>>
      /\ Oldest \in 0 .. MaxSeeds-1
  BY MaxSeedsAssumption
  DEF TypeOK, CountInv, ClientStep, MainStep, producerVars,
     Oldest, Successor
<1>2. CASE /\ UNCHANGED <<currentSeed, taken, handed, availableSeeds, currentPreSeed,
                          slot, mainReg>>
           /\ main' \notin {"load", "store", "advance"} /\ main # "advance"
           /\ \/ pc' = pc
              \/ \E t \in Thread : pc[t] = "idle" /\ pc' = [pc EXCEPT ![t] = "begin"]
  <2>1. Oldest' = Oldest
    BY <1>2 DEF Oldest
  <2>2. \A t \in Thread : pc'[t] = pc[t] \/ (pc[t] = "idle" /\ pc'[t] = "begin")
    BY <1>1, <1>2
  <2>3. Alone' /\ CountInv'
    BY <1>1, <1>2, <2>2 DEF Alone, CountInv, Filling, Drawing
  <2>4. PlaceInv' /\ NameInv'
    BY <1>1, <1>2, <2>1, <2>2 DEF PlaceInv, NameInv, Drawing
  <2>5. SlotInv'
    <3>1. \A i \in 0 .. availableSeeds-1 :
            slot'[At(MaxSeeds, Oldest', i)] = Named(Len(handed)' + 1 + i)
      BY <1>2, <2>1 DEF SlotInv
    <3>2. \A t \in Thread :
            /\ pc'[t] = "value" => slot'[currentPreSeed'].seed = made'
            /\ pc'[t] \in {"load", "store"} => slot'[currentPreSeed'] = Named(made')
      BY <1>1, <1>2, <2>2 DEF SlotInv
    <3> QED
      BY <1>2, <3>1, <3>2 DEF SlotInv
  <2> QED
    BY <2>3, <2>4, <2>5
<1>3. CASE ClientStep
  BY <1>2, <1>3 DEF ClientStep, StartSession, MoveMain, poolVars
<1>4. CASE FindSeed \/ LockPool \/ UnlockPool \/ Pause
  BY <1>2, <1>4 DEF FindSeed, LockPool, UnlockPool, Pause, MoveMain, poolVars
<1>5. CASE LaunchAfterTake \/ LaunchAfterExecute
  BY <1>2, <1>5
  DEF LaunchAfterTake, LaunchAfterExecute, Launch, MoveMain, poolVars
<1>6. CASE CopySeed
  <2>1. /\ UNCHANGED <<currentSeed, handed, availableSeeds, currentPreSeed, slot, mainReg, pc>>
        /\ main = "copy" /\ main' = "load" /\ taken' = slot[currentSeed]
    BY <1>6 DEF CopySeed, MoveMain, poolVars
  <2>2. Oldest' = Oldest /\ Oldest = currentSeed
    BY <2>1 DEF Oldest
  <2>3. taken' = Named(Len(handed) + 1)
    <3>1. availableSeeds > 0 /\ 0 \in 0 .. availableSeeds-1
      BY <1>1, <2>1 DEF CounterInv
    <3>2. At(MaxSeeds, Oldest, 0) = currentSeed
      BY <1>1, <2>2, AtSuccessor
    <3>3. slot[At(MaxSeeds, Oldest, 0)] = Named(Len(handed) + 1 + 0)
      BY <3>1 DEF SlotInv
    <3> QED
      BY <1>1, <2>1, <3>2, <3>3
  <2>4. Alone' /\ CountInv' /\ PlaceInv' /\ NameInv'
    BY <1>1, <2>1, <2>2 DEF Alone, CountInv, PlaceInv, NameInv
  <2>5. SlotInv'
    BY <1>1, <2>1, <2>2, <2>3 DEF SlotInv
  <2> QED
    BY <2>4, <2>5
<1>7. CASE LoadAvailable
  <2>1. /\ UNCHANGED <<currentSeed, taken, handed, availableSeeds, currentPreSeed, slot, pc>>
        /\ main = "load" /\ main' = "store" /\ mainReg' = availableSeeds
    BY <1>7 DEF LoadAvailable, MoveMain, poolVars
  <2>2. Oldest' = Oldest
    BY <2>1 DEF Oldest
  <2>3. Alone' /\ CountInv' /\ PlaceInv' /\ NameInv'
    BY <1>1, <2>1, <2>2 DEF Alone, CountInv, PlaceInv, NameInv
  <2>4. SlotInv'
    BY <1>1, <2>1, <2>2 DEF SlotInv
  <2> QED
    BY <2>3, <2>4
<1>8. CASE StoreAvailable
  <2>1. /\ UNCHANGED <<currentSeed, currentPreSeed, slot, pc>>
        /\ main = "store" /\ main' = "advance" /\ mainReg > 0
        /\ availableSeeds' = availableSeeds - 1 /\ availableSeeds > 0
    BY <1>1, <1>8 DEF StoreAvailable, MoveMain, CounterInv, CountInv
  <2>2. Len(handed)' = Len(handed) + 1
    BY <1>8 DEF StoreAvailable, TypeOK
  <2>3. \A t \in Thread : ~Holds(t)
    BY <2>1 DEF Mutex, MainHolds
  <2>4. Oldest' = Behind1(MaxSeeds, Oldest)
    BY <2>1 DEF Oldest, Successor, Behind1
  <2>5. \A k \in 0 .. MaxSeeds-1 : At(MaxSeeds, Oldest', k) = At(MaxSeeds, Oldest, k + 1)
    BY <1>1, <2>4, AtSuccessor
  <2>6. availableSeeds - 1 \in 0 .. MaxSeeds-1 /\ (availableSeeds - 1) + 1 = availableSeeds
    BY <1>1, <2>1
  <2>7. At(MaxSeeds, Oldest', availableSeeds') = At(MaxSeeds, Oldest, availableSeeds)
    BY <2>1, <2>5, <2>6
  <2>8. Alone' /\ CountInv'
    BY <1>1, <2>1, <2>3 DEF Alone, CountInv, Holds, Drawing
  <2>9. PlaceInv'
    BY <1>1, <2>1, <2>3, <2>7 DEF PlaceInv, Holds
  <2>10. NameInv'
    BY <1>1, <2>1, <2>2 DEF NameInv
  <2>11. ASSUME NEW i \in 0 .. availableSeeds' - 1
         PROVE  slot'[At(MaxSeeds, Oldest', i)] = Named(Len(handed)' + 1 + i)
    <3>1. i + 1 \in 0 .. availableSeeds-1 /\ i \in 0 .. MaxSeeds-1
      BY <1>1, <2>1
    <3>2. slot[At(MaxSeeds, Oldest, i + 1)] = Named(Len(handed) + 1 + (i + 1))
      BY <3>1 DEF SlotInv
    <3>3. Len(handed) + 1 + (i + 1) = Len(handed)' + 1 + i
      BY <1>1, <2>2, <3>1
    <3> QED
      BY <2>1, <2>5, <3>1, <3>2, <3>3
  <2>12. SlotInv'
    BY <1>1, <2>1, <2>3, <2>11 DEF SlotInv, Holds
  <2> QED
    BY <2>8, <2>9, <2>10, <2>12
<1>9. CASE AdvanceSeed
  <2>1. /\ UNCHANGED <<mainReg, taken, handed, availableSeeds, currentPreSeed, slot, pc>>
        /\ main = "advance" /\ main' = "launch" /\ currentSeed' = Successor(currentSeed)
    BY <1>9 DEF AdvanceSeed, MoveMain, poolVars
  <2>2. Oldest' = Oldest
    BY <2>1 DEF Oldest
  <2>3. Alone' /\ CountInv' /\ PlaceInv' /\ NameInv'
    BY <1>1, <2>1, <2>2 DEF Alone, CountInv, PlaceInv, NameInv
  <2>4. SlotInv'
    BY <1>1, <2>1, <2>2 DEF SlotInv
  <2> QED
    BY <2>3, <2>4
<1> QED
  BY <1>3, <1>4, <1>5, <1>6, <1>7, <1>8, <1>9 DEF MainStep, Serve

(* A step of a precomputing thread preserves QueueInv. *)
LEMMA QueueThread ==
  ASSUME TypeOK, Mutex, ~broken, ~overlap, ~overlap',
         Alone, CountInv, PlaceInv, NameInv, SlotInv, NEW t \in Thread, Precompute(t)
  PROVE  Alone' /\ CountInv' /\ PlaceInv' /\ NameInv' /\ SlotInv'
<1>1. /\ pc \in [Thread -> {"idle"} \cup Starting \cup Filling \cup Leaving]
      /\ availableSeeds \in 0 .. MaxSeeds /\ MaxSeeds \in Nat \ {0}
      /\ currentSeed \in 0 .. MaxSeeds-1
      /\ made \in Nat /\ Len(handed) \in Nat
      /\ UNCHANGED <<main, mainReg, taken, handed, currentSeed>>
      /\ own \in [Thread -> Nat] /\ reg \in [Thread -> Nat]
      /\ Oldest \in 0 .. MaxSeeds-1 /\ Oldest' = Oldest
  <2>1. UNCHANGED mainVars
    BY DEF Precompute, LockToClear, ClearTerminated, Enter, TestRoom, Compute,
       LockToStore, WriteSeed, WriteValue, LoadCount, StoreCount, AdvancePreSeed,
       WrapPreSeed, SetTerminated, Leave, UnlockAgain
  <2> QED
    BY <2>1, MaxSeedsAssumption
    DEF TypeOK, CountInv, mainVars, Oldest, Successor
<1>2. ASSUME NEW from, NEW to, pc[t] = from, pc' = [pc EXCEPT ![t] = to],
             to \in Filling => from \in Filling \/ \A u \in Thread \ {t} : pc[u] \notin Filling
      PROVE  /\ Alone'
             /\ pc'[t] = to
             /\ \A u \in Thread \ {t} : pc'[u] = pc[u]
             /\ from \in Filling => \A u \in Thread \ {t} : pc[u] \notin Filling
  BY <1>1, <1>2 DEF Alone
<1>3. CASE /\ UNCHANGED <<availableSeeds, currentPreSeed, slot, producerVars>>
           /\ \E from, to \in {"idle"} \cup Starting \cup Leaving \cup
                               {"terminate", "leave"} :
                pc[t] = from /\ pc' = [pc EXCEPT ![t] = to]
                /\ (to \in Filling => from \in Filling)
  <2> PICK from, to \in {"idle"} \cup Starting \cup Leaving \cup {"terminate", "leave"} :
                pc[t] = from /\ pc' = [pc EXCEPT ![t] = to]
                /\ (to \in Filling => from \in Filling)
    BY <1>3
  <2>1. Alone' /\ pc'[t] = to /\ \A u \in Thread \ {t} : pc'[u] = pc[u]
    BY <1>2
  <2>2. CountInv'
    BY <1>1, <1>3, <2>1 DEF CountInv, Starting, Leaving, Drawing, producerVars
  <2>3. PlaceInv'
    BY <1>1, <1>3, <2>1 DEF PlaceInv, Starting, Leaving
  <2>4. NameInv'
    BY <1>1, <1>3, <2>1 DEF NameInv, Starting, Leaving, Drawing, producerVars
  <2>5. SlotInv'
    BY <1>1, <1>3, <2>1 DEF SlotInv, Starting, Leaving, producerVars
  <2> QED
    BY <2>1, <2>2, <2>3, <2>4, <2>5
<1>4. CASE LockToClear(t) \/ ClearTerminated(t) \/ SetTerminated(t) \/ Leave(t)
  BY <1>3, <1>4
  DEF LockToClear, ClearTerminated, SetTerminated, Leave, Lock, Move,
     Starting, Filling, Leaving
<1>5. CASE UnlockAgain(t)
  BY <1>3, <1>5 DEF UnlockAgain, Move, Starting, Filling, Leaving
<1>6. CASE Enter(t)
  <2>1. /\ UNCHANGED <<availableSeeds, currentPreSeed, slot, own, reg, made>>
        /\ pc[t] = "enter" /\ pc' = [pc EXCEPT ![t] = "test"]
    BY <1>6 DEF Enter, Lock, Move, poolVars
  <2>2. \A u \in Thread \ {t} : pc[u] \notin Filling
    BY <1>6, Zenon DEF Enter
  <2>3. Alone' /\ pc'[t] = "test" /\ \A u \in Thread \ {t} : pc'[u] = pc[u]
    BY <1>2, <2>1, <2>2
  <2>4. CountInv' /\ NameInv'
    BY <1>1, <2>1, <2>3 DEF CountInv, NameInv, Drawing
  <2>5. PlaceInv'
    BY <1>1, <2>1, <2>3 DEF PlaceInv
  <2>6. SlotInv'
    BY <1>1, <2>1, <2>3 DEF SlotInv
  <2> QED
    BY <2>3, <2>4, <2>5, <2>6
<1>7. CASE TestRoom(t)
  <2>1. /\ UNCHANGED <<availableSeeds, currentPreSeed, slot, own, reg, made>>
        /\ pc[t] = "test"
        /\ \/ availableSeeds < MaxSeeds /\ pc' = [pc EXCEPT ![t] = "compute"]
           \/ pc' = [pc EXCEPT ![t] = "terminate"]
    BY <1>7 DEF TestRoom, Move, producerVars
  <2>2. /\ Alone' /\ \A u \in Thread \ {t} : pc'[u] = pc[u]
        /\ pc'[t] = "terminate" \/ (pc'[t] = "compute" /\ availableSeeds < MaxSeeds)
    BY <1>2, <2>1 DEF Filling
  <2>3. CountInv' /\ NameInv'
    BY <1>1, <2>1, <2>2 DEF CountInv, NameInv, Drawing
  <2>4. PlaceInv'
    BY <1>1, <2>1, <2>2 DEF PlaceInv
  <2>5. SlotInv'
    BY <1>1, <2>1, <2>2 DEF SlotInv
  <2> QED
    BY <2>2, <2>3, <2>4, <2>5
<1>8. CASE Compute(t)
  <2>1. /\ UNCHANGED <<availableSeeds, currentPreSeed, slot, reg>>
        /\ pc[t] = "compute" /\ pc' = [pc EXCEPT ![t] = "relock"]
        /\ made' = made + 1 /\ own' = [own EXCEPT ![t] = made']
    BY <1>8 DEF Compute, Move, poolVars
  <2>2. /\ Alone' /\ pc'[t] = "relock" /\ \A u \in Thread \ {t} : pc'[u] = pc[u]
        /\ \A u \in Thread \ {t} : pc[u] \notin Filling
    BY <1>2, <2>1 DEF Filling
  <2>3. CountInv'
    BY <1>1, <2>1, <2>2 DEF CountInv, Drawing
  <2>4. made = Len(handed) + availableSeeds
    BY <2>1, <2>2 DEF NameInv, Drawing, Filling
  <2>5. NameInv'
    BY <1>1, <2>1, <2>2, <2>4 DEF NameInv, Drawing, Filling
  <2>6. PlaceInv'
    BY <1>1, <2>1, <2>2 DEF PlaceInv
  <2>7. SlotInv'
    BY <1>1, <2>1, <2>2 DEF SlotInv, Filling
  <2> QED
    BY <2>2, <2>3, <2>5, <2>6, <2>7
<1>9. CASE LockToStore(t)
  <2>1. /\ UNCHANGED <<availableSeeds, currentPreSeed, slot, own, reg, made>>
        /\ pc[t] = "relock" /\ pc' = [pc EXCEPT ![t] = "seed"]
    BY <1>9 DEF LockToStore, Lock, Move, producerVars
  <2>2. /\ Alone' /\ pc'[t] = "seed" /\ \A u \in Thread \ {t} : pc'[u] = pc[u]
    BY <1>2, <2>1 DEF Filling
  <2>3. CountInv'
    BY <1>1, <2>1, <2>2 DEF CountInv, Drawing
  <2>4. NameInv'
    BY <1>1, <2>1, <2>2 DEF NameInv, Drawing
  <2>5. PlaceInv'
    BY <1>1, <2>1, <2>2 DEF PlaceInv
  <2>6. SlotInv'
    BY <1>1, <2>1, <2>2 DEF SlotInv
  <2> QED
    BY <2>2, <2>3, <2>4, <2>5, <2>6
<1>10. CASE WriteSeed(t) \/ WriteValue(t)
  <2>1. /\ UNCHANGED <<availableSeeds, currentPreSeed, reg, made>>
        /\ \/ /\ pc[t] = "seed" /\ pc' = [pc EXCEPT ![t] = "value"]
              /\ WriteSlot(t, "seed") /\ own' = own
           \/ /\ pc[t] = "value" /\ pc' = [pc EXCEPT ![t] = "load"]
              /\ WriteSlot(t, "value") /\ own' = [own EXCEPT ![t] = 0]
    BY <1>10 DEF WriteSeed, WriteValue, Move, producerVars
  <2>2. /\ Alone' /\ \A u \in Thread \ {t} : pc'[u] = pc[u]
        /\ \A u \in Thread \ {t} : pc[u] \notin Filling
        /\ \/ pc[t] = "seed" /\ pc'[t] = "value"
           \/ pc[t] = "value" /\ pc'[t] = "load"
    BY <1>2, <2>1 DEF Filling
  <2>3. own[t] = made /\ made = Len(handed) + availableSeeds + 1
    BY <2>2 DEF NameInv, Drawing
  <2>4. /\ availableSeeds < MaxSeeds
        /\ currentPreSeed = At(MaxSeeds, Oldest, availableSeeds)
        /\ currentPreSeed \in 0 .. MaxSeeds-1
    <3>1. availableSeeds < MaxSeeds
      BY <2>2 DEF CountInv, Drawing
    <3>2. currentPreSeed = At(MaxSeeds, Oldest, availableSeeds)
      BY <2>2 DEF PlaceInv, Filling
    <3> QED
      BY <1>1, <3>1, <3>2, AtInside
  <2>5. CountInv'
    BY <1>1, <2>1, <2>2 DEF CountInv, Drawing
  <2>6. NameInv'
    BY <1>1, <2>1, <2>2, <2>3 DEF NameInv, Drawing, Filling
  <2>7. PlaceInv'
    BY <1>1, <2>1, <2>2 DEF PlaceInv
  <2>8. \A i \in 0 .. MaxSeeds-1 : i # currentPreSeed => slot'[i] = slot[i]
    BY <2>1 DEF WriteSlot, TypeOK
  <2>9. \A i \in 0 .. availableSeeds-1 :
          slot'[At(MaxSeeds, Oldest, i)] = slot[At(MaxSeeds, Oldest, i)]
    <3> TAKE i \in 0 .. availableSeeds-1
    <3>1. i \in 0 .. MaxSeeds-1 /\ availableSeeds \in 0 .. MaxSeeds-1 /\ i # availableSeeds
      BY <1>1, <2>4
    <3>2. At(MaxSeeds, Oldest, i) \in 0 .. MaxSeeds-1
      BY <1>1, <3>1, AtInside
    <3>3. At(MaxSeeds, Oldest, i) # At(MaxSeeds, Oldest, availableSeeds)
      BY <1>1, <3>1, AtDiffers
    <3> QED
      BY <2>4, <2>8, <3>2, <3>3
  <2>10. slot[currentPreSeed] \in Tuple /\ currentPreSeed < MaxSeeds
    BY <1>1, <2>4 DEF TypeOK
  <2>11. /\ pc'[t] = "value" => slot'[currentPreSeed].seed = made
         /\ pc'[t] = "load" => slot'[currentPreSeed] = Named(made)
    <3>1. CASE pc[t] = "seed"
      <4>1. slot'[currentPreSeed] = [slot[currentPreSeed] EXCEPT !["seed"] = made]
        BY <2>1, <2>3, <2>4, <2>10, <3>1 DEF WriteSlot, TypeOK
      <4> QED
        BY <2>2, <2>10, <3>1, <4>1 DEF Tuple
    <3>2. CASE pc[t] = "value"
      <4>1. slot'[currentPreSeed] = [slot[currentPreSeed] EXCEPT !["value"] = made]
        BY <2>1, <2>3, <2>4, <2>10, <3>2 DEF WriteSlot, TypeOK
      <4>2. slot[currentPreSeed].seed = made
        BY <3>2 DEF SlotInv
      <4> QED
        BY <2>2, <2>10, <3>2, <4>1, <4>2 DEF Tuple, Named
    <3> QED
      BY <2>2, <3>1, <3>2
  <2>12. SlotInv'
    BY <1>1, <2>1, <2>2, <2>9, <2>11 DEF SlotInv, Filling
  <2> QED
    BY <2>2, <2>5, <2>6, <2>7, <2>12
<1>11. CASE LoadCount(t)
  <2>1. /\ UNCHANGED <<availableSeeds, currentPreSeed, slot, own, made>>
        /\ pc[t] = "load" /\ pc' = [pc EXCEPT ![t] = "store"]
        /\ reg' = [reg EXCEPT ![t] = availableSeeds]
    BY <1>11 DEF LoadCount, Move, poolVars
  <2>2. /\ Alone' /\ pc'[t] = "store" /\ \A u \in Thread \ {t} : pc'[u] = pc[u]
    BY <1>2, <2>1 DEF Filling
  <2>3. CountInv'
    BY <1>1, <2>1, <2>2 DEF CountInv, Drawing
  <2>4. NameInv'
    BY <1>1, <2>1, <2>2 DEF NameInv, Drawing
  <2>5. PlaceInv'
    BY <1>1, <2>1, <2>2 DEF PlaceInv
  <2>6. SlotInv'
    BY <1>1, <2>1, <2>2 DEF SlotInv
  <2> QED
    BY <2>2, <2>3, <2>4, <2>5, <2>6
<1>12. CASE StoreCount(t)
  <2>1. /\ UNCHANGED <<currentPreSeed, slot, own, made>>
        /\ pc[t] = "store" /\ pc' = [pc EXCEPT ![t] = "advance"]
        /\ availableSeeds' = reg[t] + 1
    BY <1>12 DEF StoreCount, Move
  <2>2. /\ Alone' /\ pc'[t] = "advance" /\ \A u \in Thread \ {t} : pc'[u] = pc[u]
        /\ \A u \in Thread \ {t} : pc[u] \notin Filling
    BY <1>2, <2>1 DEF Filling
  <2>3. /\ availableSeeds' = availableSeeds + 1 /\ availableSeeds < MaxSeeds
        /\ main # "store" /\ main # "load"
    BY <2>1 DEF CountInv, Drawing, Mutex, Holds, MainHolds
  <2>4. /\ currentPreSeed = At(MaxSeeds, Oldest, availableSeeds)
        /\ made = Len(handed) + availableSeeds + 1
        /\ slot[currentPreSeed] = Named(made)
    BY <2>1, <2>2 DEF PlaceInv, NameInv, SlotInv, Drawing, Filling
  <2>5. CountInv'
    BY <1>1, <2>2, <2>3 DEF CountInv, Filling, Drawing
  <2>6. NameInv'
    <3>1. made' = Len(handed)' + availableSeeds'
      BY <1>1, <2>1, <2>3, <2>4
    <3>2. \A u \in Thread : pc'[u] \notin Drawing
      BY <2>2 DEF Filling, Drawing
    <3> QED
      BY <3>1, <3>2 DEF NameInv, Drawing
  <2>7. PlaceInv'
    <3>1. availableSeeds' - 1 = availableSeeds
      BY <1>1, <2>3
    <3> QED
      BY <1>1, <2>1, <2>2, <2>4, <3>1 DEF PlaceInv, Filling
  <2>8. ASSUME NEW i \in 0 .. availableSeeds' - 1
        PROVE  slot'[At(MaxSeeds, Oldest', i)] = Named(Len(handed)' + 1 + i)
    <3>1. i = availableSeeds \/ i \in 0 .. availableSeeds-1
      BY <1>1, <2>3
    <3>2. CASE i = availableSeeds
      <4>1. made = Len(handed)' + 1 + i
        BY <1>1, <2>4, <3>2
      <4> QED
        BY <1>1, <2>1, <2>4, <3>2, <4>1
    <3>3. CASE i \in 0 .. availableSeeds-1
      BY <1>1, <2>1, <3>3 DEF SlotInv
    <3> QED
      BY <3>1, <3>2, <3>3
  <2>9. SlotInv'
    BY <1>1, <2>2, <2>3, <2>8 DEF SlotInv, Filling
  <2> QED
    BY <2>2, <2>5, <2>6, <2>7, <2>9
<1>13. CASE AdvancePreSeed(t)
  <2>1. /\ UNCHANGED <<availableSeeds, slot, own, reg, made>>
        /\ pc[t] = "advance" /\ pc' = [pc EXCEPT ![t] = "wrap"]
        /\ currentPreSeed' = currentPreSeed + 1
    BY <1>13 DEF AdvancePreSeed, Move, producerVars
  <2>2. /\ Alone' /\ pc'[t] = "wrap" /\ \A u \in Thread \ {t} : pc'[u] = pc[u]
        /\ \A u \in Thread \ {t} : pc[u] \notin Filling
    BY <1>2, <2>1 DEF Filling
  <2>3. CountInv'
    BY <1>1, <2>1, <2>2 DEF CountInv, Drawing
  <2>4. NameInv'
    BY <1>1, <2>1, <2>2 DEF NameInv, Drawing
  <2>5. PlaceInv'
    BY <1>1, <2>1, <2>2 DEF PlaceInv, Filling
  <2>6. SlotInv'
    BY <1>1, <2>1, <2>2 DEF SlotInv, Filling
  <2> QED
    BY <2>2, <2>3, <2>4, <2>5, <2>6
<1>14. CASE WrapPreSeed(t)
  <2>1. /\ UNCHANGED <<availableSeeds, slot, own, reg, made>>
        /\ pc[t] = "wrap" /\ pc' = [pc EXCEPT ![t] = "test"]
        /\ currentPreSeed' = Wrap(currentPreSeed)
    BY <1>14 DEF WrapPreSeed, Move, producerVars
  <2>2. /\ Alone' /\ pc'[t] = "test" /\ \A u \in Thread \ {t} : pc'[u] = pc[u]
        /\ \A u \in Thread \ {t} : pc[u] \notin Filling
    BY <1>2, <2>1 DEF Filling
  <2>3. CountInv'
    BY <1>1, <2>1, <2>2 DEF CountInv, Drawing
  <2>4. NameInv'
    BY <1>1, <2>1, <2>2 DEF NameInv, Drawing
  <2>5. currentPreSeed' = At(MaxSeeds, Oldest, availableSeeds)
    <3>1. /\ availableSeeds - 1 \in 0 .. MaxSeeds-1
          /\ currentPreSeed = At(MaxSeeds, Oldest, availableSeeds - 1) + 1
      BY <1>1, <2>1 DEF CountInv, PlaceInv
    <3>2. currentPreSeed' = Behind1(MaxSeeds, At(MaxSeeds, Oldest, availableSeeds - 1))
      BY <1>1, <2>1, <3>1, AtInside DEF Wrap, Behind1
    <3>3. Behind1(MaxSeeds, At(MaxSeeds, Oldest, availableSeeds - 1))
            = At(MaxSeeds, Oldest, (availableSeeds - 1) + 1)
      BY <1>1, <3>1, AtSuccessor
    <3> QED
      BY <1>1, <3>2, <3>3
  <2>6. PlaceInv'
    BY <1>1, <2>1, <2>2, <2>5 DEF PlaceInv, Filling
  <2>7. SlotInv'
    BY <1>1, <2>1, <2>2 DEF SlotInv, Filling
  <2> QED
    BY <2>2, <2>3, <2>4, <2>6, <2>7
<1> QED
  BY <1>4, <1>5, <1>6, <1>7, <1>8, <1>9, <1>10, <1>11, <1>12, <1>13, <1>14
  DEF Precompute

(* QueueInv is inductive. *)
LEMMA QueueNext ==
  ASSUME TypeOK, Mutex, CounterInv, QueueInv, [Next]_vars
  PROVE  QueueInv'
<1> SUFFICES ASSUME ~broken', ~overlap'
             PROVE  Alone' /\ CountInv' /\ PlaceInv' /\ NameInv' /\ SlotInv'
  BY DEF QueueInv
<1>1. /\ ~broken /\ ~overlap
      /\ Alone /\ CountInv /\ PlaceInv /\ NameInv /\ SlotInv
  BY DegradedForGood DEF QueueInv
<1>2. CASE ClientStep \/ MainStep
  BY <1>1, <1>2, QueueMain
<1>3. ASSUME NEW t \in Thread, Precompute(t)
      PROVE  Alone' /\ CountInv' /\ PlaceInv' /\ NameInv' /\ SlotInv'
  BY <1>1, <1>3, QueueThread
<1>4. CASE UNCHANGED vars
  BY <1>1, <1>4
  DEF vars, mainVars, poolVars, producerVars, Alone, CountInv, PlaceInv,
     NameInv, SlotInv, Oldest
<1> QED
  BY <1>2, <1>3, <1>4 DEF Next

\* The memory shows the tuples behind the last one that was handed out.
ShowsRun ==
  ~broken /\ ~overlap => Queued = Run(Len(handed), availableSeeds)

(* QueueInv says so. *)
LEMMA QueuedIsRun == TypeOK /\ QueueInv => ShowsRun
<1> SUFFICES ASSUME TypeOK, CountInv, SlotInv
             PROVE  Queued = Run(Len(handed), availableSeeds)
  BY DEF QueueInv, ShowsRun
<1>1. /\ MaxSeeds \in Nat \ {0} /\ Oldest \in 0 .. MaxSeeds-1
      /\ availableSeeds \in 0 .. MaxSeeds /\ Len(handed) \in Nat
  BY MaxSeedsAssumption DEF TypeOK, CountInv, Oldest, Successor
<1>2. ASSUME NEW i \in 1 .. availableSeeds
      PROVE  slot[(Oldest + i - 1) % MaxSeeds] = Named(Len(handed) + i)
  <2>1. i - 1 \in 0 .. availableSeeds-1 /\ i - 1 \in 0 .. MaxSeeds
    BY <1>1
  <2>2. Oldest + i - 1 = Oldest + (i - 1) /\ Len(handed) + 1 + (i - 1) = Len(handed) + i
    BY <1>1
  <2>3. (Oldest + (i - 1)) % MaxSeeds = At(MaxSeeds, Oldest, i - 1)
    BY <1>1, <2>1, AtRemainder
  <2>4. slot[At(MaxSeeds, Oldest, i - 1)] = Named(Len(handed) + 1 + (i - 1))
    BY <2>1 DEF SlotInv
  <2> QED
    BY <2>2, <2>3, <2>4
<1> QED
  BY <1>2 DEF Queued, Run

(* Every step of the memory is a step of the queue or none. *)
LEMMA StepIsQueueStep ==
  ASSUME TypeOK, Mutex, CounterInv, QueueInv, ShowsRun, ShowsRun', [Next]_vars
  PROVE  [Queue!Next]_(Queue!vars)
<1>1. CASE broken' \/ overlap'
  BY <1>1 DEF Queue!Next
<1> SUFFICES ASSUME ~broken', ~overlap'
             PROVE  [Queue!Next]_(Queue!vars)
  BY <1>1
<1>2. ~broken /\ ~overlap
  BY DegradedForGood
<1>3. CountInv /\ SlotInv
  BY <1>2 DEF QueueInv
<1> DEFINE H == Len(handed)
           A == availableSeeds
<1>4. H \in Nat /\ A \in Nat
  BY <1>3, MaxSeedsAssumption DEF TypeOK, CountInv
<1>5. Queued = Run(H, A)
  BY <1>2 DEF ShowsRun
<1>6. Queued' = Run(H', A')
  BY DEF ShowsRun
<1>7. CASE handed' = handed /\ A' = A
  <2>1. Queued' = Queued
    BY <1>5, <1>6, <1>7
  <2> QED
    BY <1>2, <1>7, <2>1 DEF Queue!vars
<1>8. CASE MainStep /\ StoreAvailable
  <2>1. /\ main = "store" /\ handed' = Append(handed, taken)
        /\ A > 0 /\ A' = A - 1
    BY <1>3, <1>8 DEF StoreAvailable, MoveMain, CounterInv, CountInv
  <2>2. H' = H + 1 /\ taken = Named(H + 1)
    BY <1>3, <2>1 DEF SlotInv, TypeOK
  <2>3. Queued # <<>> /\ Head(Queued) = taken /\ Tail(Queued) = Queued'
    <3>1. /\ Run(H, A) # <<>> /\ Head(Run(H, A)) = Named(H + 1)
          /\ Tail(Run(H, A)) = Run(H + 1, A - 1)
      BY <1>4, <2>1, RunTail
    <3> QED
      BY <1>5, <1>6, <2>1, <2>2, <3>1
  <2>4. Queue!Take
    BY <1>2, <2>1, <2>3 DEF Queue!Take
  <2> QED
    BY <1>2, <2>4 DEF Queue!Next
<1>9. ASSUME NEW t \in Thread, StoreCount(t)
      PROVE  [Queue!Next]_(Queue!vars)
  <2>1. /\ handed' = handed /\ A < MaxSeeds /\ A' = A + 1
    BY <1>3, <1>9 DEF StoreCount, Move, CountInv, Drawing, mainVars
  <2>2. Queued' = Append(Queued, Named(H + A + 1)) /\ Len(Queued) = A
    <3>1. /\ Append(Run(H, A), Named(H + A + 1)) = Run(H, A + 1)
          /\ Len(Run(H, A)) = A
      BY <1>4, RunAppend, RunShape
    <3> QED
      BY <1>5, <1>6, <2>1, <3>1
  <2>3. Queue!NextTuple = Named(H + A + 1)
    BY <1>2, <2>2 DEF Queue!NextTuple, Named
  <2>4. Queue!Put
    BY <1>2, <2>1, <2>2, <2>3 DEF Queue!Put
  <2> QED
    BY <1>2, <2>4 DEF Queue!Next
<1>10. CASE MainStep /\ ~StoreAvailable
  <2>1. UNCHANGED <<handed, availableSeeds>>
    BY <1>10 DEF MainStep, Serve, FindSeed, LockPool, CopySeed, LoadAvailable,
       AdvanceSeed, LaunchAfterTake, UnlockPool, Pause, LaunchAfterExecute, poolVars
  <2> QED
    BY <1>7, <2>1
<1>11. CASE ClientStep
  BY <1>7, <1>11 DEF ClientStep, StartSession, poolVars
<1>12. ASSUME NEW t \in Thread, Precompute(t), ~StoreCount(t)
       PROVE  [Queue!Next]_(Queue!vars)
  <2>1. UNCHANGED <<handed, availableSeeds>>
    BY <1>12
    DEF Precompute, LockToClear, ClearTerminated, Enter, TestRoom, Compute,
       LockToStore, WriteSeed, WriteValue, LoadCount, AdvancePreSeed, WrapPreSeed,
       SetTerminated, Leave, UnlockAgain, mainVars, poolVars
  <2> QED
    BY <1>7, <2>1
<1>13. CASE UNCHANGED vars
  BY <1>7, <1>13 DEF vars, mainVars, poolVars
<1> QED
  BY <1>8, <1>9, <1>10, <1>11, <1>12, <1>13 DEF Next

(* The constructor leaves an empty queue. *)
LEMMA InitIsQueueInit == Init => Queue!Init /\ QueueInv
<1> SUFFICES ASSUME Init
             PROVE  Queue!Init /\ QueueInv
  OBVIOUS
<1>1. /\ availableSeeds = 0 /\ handed = <<>> /\ ~overlap /\ ~broken
      /\ currentSeed = 0 /\ currentPreSeed = 0 /\ main = "idle" /\ made = 0
      /\ \A t \in Thread : pc[t] \in {"begin", "idle"}
  BY DEF Init, PoolInit
<1>2. Queued = <<>>
  BY <1>1 DEF Queued
<1>3. Queue!Init
  BY <1>1, <1>2 DEF Queue!Init
<1>4. Alone /\ CountInv /\ NameInv /\ SlotInv
  BY <1>1, MaxSeedsAssumption
  DEF Alone, Filling, CountInv, Drawing, NameInv, SlotInv
<1>5. At(MaxSeeds, Oldest, availableSeeds) = 0
  BY <1>1, MaxSeedsAssumption DEF At, Oldest
<1>6. PlaceInv
  BY <1>1, <1>5 DEF PlaceInv
<1> QED
  BY <1>3, <1>4, <1>6 DEF QueueInv

(***************************************************************************)
(* The seed memory is a bounded queue: every seed that precompute draws is *)
(* handed out by nextSeed exactly once, in the order in which they were    *)
(* drawn and with its own value, for every capacity and every number of    *)
(* sessions and threads, until two threads fill the memory at once or one  *)
(* releases the mutex of another.                                          *)
(***************************************************************************)
THEOREM PoolImplementsQueue == Spec => ImplementsQueue
<1>1. Init => Queue!Init /\ QueueInv
  BY InitIsQueueInit
<1>2. PoolInv /\ QueueInv /\ [Next]_vars => QueueInv'
  BY QueueNext DEF PoolInv
<1>3. PoolInv /\ QueueInv => ShowsRun
  BY QueuedIsRun DEF PoolInv
<1>4. PoolInv /\ QueueInv /\ ShowsRun /\ ShowsRun' /\ [Next]_vars
        => [Queue!Next]_(Queue!vars)
  BY StepIsQueueStep DEF PoolInv
<1> QED
  BY <1>1, <1>2, <1>3, <1>4, PoolInvariant, PTL
  DEF Spec, ImplementsQueue, Queue!Spec
=============================================================================

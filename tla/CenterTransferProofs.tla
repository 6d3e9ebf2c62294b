------------------------ MODULE CenterTransferProofs ------------------------
(***************************************************************************)
(* What holds of a worker of the central server for every capacity, both   *)
(* builds, every window and any number of commands and transfer threads.   *)
(*                                                                         *)
(* FillInv says why the memory is filled: while one transfer thread at a   *)
(* time takes tuples, a thread of precompute never wants more than there   *)
(* is room for, it wants something whenever it holds the mutex, and the    *)
(* memory is empty only while such a thread is at work.  QueueInv, for the *)
(* refinement of SeedQueue, says which tuples the slots hold.              *)
(***************************************************************************)
EXTENDS CenterTransfer, Ring

LEMMA WordIsWord ==
  ASSUME NEW n \in Int
  PROVE  Word(n) \in 0 .. MaxWord
BY WorkerWordAssumption DEF Word

LEMMA WordOfWord ==
  ASSUME NEW n \in 0 .. MaxWord
  PROVE  Word(n) = n
BY WorkerWordAssumption DEF Word

LEMMA SuccessorInside ==
  ASSUME NEW i \in 0 .. MaxSeeds-1
  PROVE  Successor(i) \in 0 .. MaxSeeds-1
BY WorkerSeedsAssumption DEF Successor

-----------------------------------------------------------------------------
(* A thread that adds tuples wants at least one; the types need it. *)
Wanting == \A p \in Producer : producer[p] = "add" => want[p] > 0

WorkerTypes == WorkerTypeOK /\ Wanting

LEMMA WorkerTypesInit == WorkerInit => WorkerTypes
<1> SUFFICES ASSUME WorkerInit PROVE WorkerTypes
  OBVIOUS
<1> USE DEF WorkerInit
<1>1. /\ slot \in [0 .. MaxSeeds-1 -> Tuple]
      /\ buffer \in [Transfer -> Tuple]
  BY DEF NoTuple, Tuple
<1>2. /\ handed \in Seq(Tuple)
      /\ commands \in Seq({"start", "stop"})
  OBVIOUS
<1>3. /\ availableSeeds \in 0 .. MaxWord
      /\ currentSeed \in 0 .. MaxSeeds-1
      /\ currentPreSeed \in 0 .. MaxSeeds-1
  BY WorkerSeedsAssumption, WorkerWordAssumption
<1>4. /\ producer \in [Producer -> {"idle", "look", "lock", "add", "flag"}]
      /\ want \in [Producer -> 0 .. MaxWord]
      /\ first \in [Producer -> Nat]
      /\ transfer \in [Transfer -> {"idle", "check", "poll", "take", "send"}]
  BY WorkerWordAssumption
<1> QED
  BY <1>1, <1>2, <1>3, <1>4 DEF WorkerTypes, WorkerTypeOK, Wanting

LEMMA PrecomputeTypes ==
  ASSUME WorkerTypes, NEW p \in Producer, Precompute(p)
  PROVE  WorkerTypes'
<1> USE DEF WorkerTypes, WorkerTypeOK, Wanting
<1>1. CASE Look(p)
  <2>1. want' \in [Producer -> 0 .. MaxWord]
    <3>1. Word(MaxSeeds - availableSeeds) \in 0 .. MaxWord
      <4>1. MaxSeeds - availableSeeds \in Int
        BY WorkerSeedsAssumption, WorkerWordAssumption
      <4> QED
        BY <4>1, WordIsWord
    <3>2. 0 \in 0 .. MaxWord /\ 1 \in 0 .. MaxWord
      BY WorkerSeedsAssumption, WorkerWordAssumption
    <3> DEFINE missing == IF Cuda THEN Word(MaxSeeds - availableSeeds)
                          ELSE IF availableSeeds < MaxSeeds THEN 1 ELSE 0
    <3>3. missing \in 0 .. MaxWord
      BY <3>1, <3>2
    <3>4. want' = [want EXCEPT ![p] = missing]
      BY <1>1 DEF Look
    <3> HIDE DEF missing
    <3> QED
      BY <3>3, <3>4
  <2>2. /\ producer' \in [Producer -> {"idle", "look", "lock", "add", "flag"}]
        /\ producer'[p] # "add"
        /\ \A q \in Producer \ {p} : producer'[q] = producer[q]
        /\ \A q \in Producer \ {p} : want'[q] = want[q]
    BY <1>1 DEF Look
  <2> QED
    BY <1>1, <2>1, <2>2 DEF Look, memoryVars, controlVars
<1>2. CASE LockMemory(p)
  BY <1>2, WorkerWordAssumption
  DEF LockMemory, Behind, memoryVars, controlVars
<1>3. CASE AddTuple(p)
  <2>1. want[p] \in 1 .. MaxWord
    BY <1>3, WorkerWordAssumption DEF AddTuple
  <2>2. availableSeeds' \in 0 .. MaxWord
    BY <1>3, WordIsWord, WorkerWordAssumption DEF AddTuple
  <2>3. currentPreSeed' \in 0 .. MaxSeeds-1
    BY <1>3, SuccessorInside DEF AddTuple
  <2>4. made' \in Nat /\ slot' \in [0 .. MaxSeeds-1 -> Tuple]
    BY <1>3 DEF AddTuple, Tuple
  <2>5. first' \in [Producer -> Nat]
    BY <1>3 DEF AddTuple
  <2>6. producer' \in [Producer -> {"idle", "look", "lock", "add", "flag"}]
    BY <1>3 DEF AddTuple, Behind
  <2>7. want' \in [Producer -> 0 .. MaxWord]
    BY <1>3, <2>1, WorkerWordAssumption DEF AddTuple
  <2>8. Wanting'
    BY <1>3, <2>1, WorkerWordAssumption DEF AddTuple, Behind
  <2> QED
    BY <1>3, <2>2, <2>3, <2>4, <2>5, <2>6, <2>7, <2>8
    DEF AddTuple, controlVars
<1>4. CASE ClearPrecomputing(p)
  BY <1>4 DEF ClearPrecomputing, memoryVars, controlVars
<1> QED
  BY <1>1, <1>2, <1>3, <1>4 DEF Precompute

(* The steps of a transfer thread on the memory. *)
LEMMA TransferTypes ==
  ASSUME WorkerTypes, NEW w \in Transfer,
         CheckActive(w) \/ FindSeed(w) \/ Take(w)
  PROVE  WorkerTypes'
<1> USE DEF WorkerTypes, WorkerTypeOK, Wanting
<1>1. CASE CheckActive(w)
  <2>1. buffer' = buffer \/ buffer' = [buffer EXCEPT ![w] = NoTuple]
    BY <1>1 DEF CheckActive
  <2>2. NoTuple \in Tuple
    BY DEF NoTuple, Tuple
  <2>3. buffer' \in [Transfer -> Tuple]
    BY <2>1, <2>2
  <2> QED
    BY <1>1, <2>3
    DEF CheckActive, MoveTransfer, memoryVars, producerVars, controlVars
<1>2. CASE FindSeed(w)
  BY <1>2 DEF FindSeed, MoveTransfer, memoryVars, producerVars, controlVars
<1>3. CASE Take(w)
  <2>1. slot[currentSeed] \in Tuple
    OBVIOUS
  <2>2. availableSeeds' \in 0 .. MaxWord
    BY <1>3, WordIsWord, WorkerWordAssumption DEF Take
  <2>3. currentSeed' \in 0 .. MaxSeeds-1
    BY <1>3, SuccessorInside DEF Take
  <2>4. /\ precomputing' \in BOOLEAN
        /\ producer' \in [Producer -> {"idle", "look", "lock", "add", "flag"}]
        /\ \A p \in Producer : producer'[p] = "add" => producer[p] = "add"
    BY <1>3 DEF Take, Relaunch
  <2>5. handed' \in Seq(Tuple) /\ buffer' \in [Transfer -> Tuple]
    BY <1>3, <2>1 DEF Take
  <2>6. missed' \in BOOLEAN
    BY <1>3 DEF Take
  <2> QED
    BY <1>3, <2>2, <2>3, <2>4, <2>5, <2>6
    DEF Take, MoveTransfer, controlVars
<1> QED
  BY <1>1, <1>2, <1>3

LEMMA CommandTypes ==
  ASSUME WorkerTypes,
         Construct \/ HandleCommand
           \/ \E c \in {"start", "stop"} : SendCommand(c)
  PROVE  WorkerTypes'
<1> USE DEF WorkerTypes, WorkerTypeOK, Wanting
<1>1. CASE Construct
  BY <1>1 DEF Construct, memoryVars, producerVars, controlVars
<1>2. CASE HandleCommand
  <2>1. commands' \in Seq({"start", "stop"})
    BY <1>2 DEF HandleCommand, SetActive
  <2>2. active' \in BOOLEAN /\ doubled' \in BOOLEAN
    BY <1>2 DEF HandleCommand, SetActive
  <2>3. transfer' \in [Transfer -> {"idle", "check", "poll", "take", "send"}]
    BY <1>2 DEF HandleCommand, SetActive
  <2> QED
    BY <1>2, <2>1, <2>2, <2>3
    DEF HandleCommand, SetActive, memoryVars, producerVars
<1>3. ASSUME NEW c \in {"start", "stop"}, SendCommand(c)
      PROVE  WorkerTypes'
  <2>1. /\ commands' \in Seq({"start", "stop"})
        /\ starts' \in Nat /\ stops' \in Nat
    BY <1>3 DEF SendCommand
  <2> QED
    BY <1>3, <2>1 DEF SendCommand, memoryVars, producerVars
<1> QED
  BY <1>1, <1>2, <1>3

-----------------------------------------------------------------------------
(* The socket: what it accepts are halves of tuples, no more than it has   *)
(* room for.                                                               *)
SocketTypes ==
  /\ stream \in Seq(Half) /\ read \in 0 .. Len(stream)
  /\ Len(stream) - read <= Window
  /\ waiting \in Seq(Write) /\ resumed \in Seq(Write)
  /\ deferred \in BOOLEAN

LEMMA HalfOfType ==
  ASSUME NEW tuple \in Tuple, NEW k \in Int
  PROVE  HalfOf(tuple, k) \in Half
BY DEF HalfOf, Half, Tuple

LEMMA AcceptTypes ==
  ASSUME SocketTypes, buffer \in [Transfer -> Tuple], Room > 0,
         NEW write \in Write, NEW others \in Seq(Write),
         Accept(write, others)
  PROVE  /\ stream' \in Seq(Half)
         /\ Len(stream) <= Len(stream') /\ Len(stream') - read <= Window
         /\ resumed' \in Seq(Write)
<1> DEFINE n == Accepted(write)
           more == [i \in 1 .. n |-> HalfOf(buffer[write.of], write.sent + i)]
<1>1. write.of \in Transfer /\ write.sent \in 0 .. 1
  BY DEF Write
<1>2. Room \in Nat /\ Room > 0
  BY WindowAssumption DEF Room, SocketTypes
<1>3. n \in Nat /\ n > 0 /\ n <= Room /\ write.sent + n <= 2
  BY <1>1, <1>2 DEF Accepted
<1> HIDE DEF n
<1>4. more \in Seq(Half) /\ Len(more) = n
  <2>1. \A i \in 1 .. n : HalfOf(buffer[write.of], write.sent + i) \in Half
    BY <1>1, <1>3, HalfOfType
  <2> QED
    BY <2>1, <1>3
<1>5. stream' = stream \o more
  BY DEF Accept, n
<1> HIDE DEF more
<1>6. /\ stream' \in Seq(Half)
      /\ Len(stream') = Len(stream) + n
  BY <1>4, <1>5, ConcatProperties DEF SocketTypes
<1>7. resumed' \in Seq(Write)
  <2>1. CASE write.sent + n = 2
    BY <2>1 DEF Accept, n
  <2>2. CASE write.sent + n # 2
    <3>1. [write EXCEPT !.sent = write.sent + n] \in Write
      <4>1. write.sent + n \in 0 .. 1
        BY <2>2, <1>1, <1>3
      <4> QED
        BY <4>1 DEF Write
    <3>2. resumed' = Append(others, [write EXCEPT !.sent = write.sent + n])
      BY <2>2 DEF Accept, n
    <3> QED
      BY <3>1, <3>2
  <2> QED
    BY <2>1, <2>2
<1> QED
  <2>1. Len(stream) \in Nat /\ read \in Nat /\ Window \in Nat
    BY WindowAssumption DEF SocketTypes
  <2> QED
    BY <2>1, <1>2, <1>3, <1>6, <1>7 DEF Room

LEMMA StartWriteTypes ==
  ASSUME SocketTypes, buffer \in [Transfer -> Tuple],
         NEW write \in Write, NEW others \in Seq(Write),
         StartWrite(write, others)
  PROVE  /\ stream' \in Seq(Half)
         /\ Len(stream) <= Len(stream') /\ Len(stream') - read <= Window
         /\ resumed' \in Seq(Write) /\ waiting' \in Seq(Write)
<1>1. CASE waiting = <<>> /\ Room > 0 /\ Accept(write, others)
             /\ UNCHANGED waiting
  BY <1>1, AcceptTypes DEF SocketTypes
<1>2. CASE waiting' = Append(waiting, write) /\ resumed' = others
             /\ UNCHANGED stream
  BY <1>2 DEF SocketTypes
<1> QED
  BY <1>1, <1>2 DEF StartWrite

LEMMA TypeNext ==
  ASSUME WorkerTypes, SocketTypes, [Next]_vars
  PROVE  WorkerTypes' /\ SocketTypes'
<1>1. /\ buffer \in [Transfer -> Tuple]
      /\ stream \in Seq(Half) /\ Len(stream) \in Nat /\ read \in 0 .. Len(stream)
  BY DEF WorkerTypes, WorkerTypeOK, SocketTypes
<1>2. ASSUME UNCHANGED socketVars
      PROVE  SocketTypes'
  BY <1>2 DEF SocketTypes, socketVars
<1>3. ASSUME UNCHANGED workerVars
      PROVE  WorkerTypes'
  BY <1>3 DEF WorkerTypes, WorkerTypeOK, Wanting, workerVars, memoryVars,
     producerVars, controlVars
<1>4. CASE ConstructStep
  BY <1>4, <1>2, CommandTypes DEF ConstructStep
<1>5. ASSUME NEW p \in Producer, PrecomputeStep(p)
      PROVE  WorkerTypes' /\ SocketTypes'
  BY <1>5, <1>2, PrecomputeTypes DEF PrecomputeStep
<1>6. ASSUME NEW w \in Transfer, TransferStep(w)
      PROVE  WorkerTypes' /\ SocketTypes'
  <2>1. CASE (CheckActive(w) \/ FindSeed(w) \/ Take(w)) /\ UNCHANGED socketVars
    BY <2>1, <1>2, TransferTypes
  <2>2. CASE Send(w)
    <3>1. [of |-> w, sent |-> 0] \in Write /\ resumed \in Seq(Write)
      BY DEF Write, SocketTypes
    <3>2. /\ stream' \in Seq(Half)
          /\ Len(stream) <= Len(stream') /\ Len(stream') - read <= Window
          /\ resumed' \in Seq(Write) /\ waiting' \in Seq(Write)
      BY <2>2, <3>1, <1>1, StartWriteTypes DEF Send
    <3>3. deferred' \in BOOLEAN /\ read' = read /\ Len(stream') \in Nat
      BY <2>2, <3>2 DEF Send
    <3>4. SocketTypes'
      BY <3>2, <3>3, <1>1 DEF SocketTypes
    <3>5. WorkerTypes'
      BY <2>2 DEF Send, MoveTransfer, WorkerTypes, WorkerTypeOK, Wanting,
         memoryVars, producerVars, controlVars
    <3> QED
      BY <3>4, <3>5
  <2> QED
    BY <1>6, <2>1, <2>2 DEF TransferStep
<1>7. CASE HandleCommand /\ UNCHANGED socketVars
  BY <1>7, <1>2, CommandTypes
<1>8. CASE Flush
  <2>1. Head(waiting) \in Write /\ resumed \in Seq(Write)
          /\ waiting' \in Seq(Write)
    BY <1>8 DEF Flush, SocketTypes
  <2>2. /\ stream' \in Seq(Half)
        /\ Len(stream) <= Len(stream') /\ Len(stream') - read <= Window
        /\ resumed' \in Seq(Write)
    BY <1>8, <2>1, <1>1, AcceptTypes DEF Flush
  <2>3. SocketTypes'
    BY <1>8, <2>1, <2>2, <1>1 DEF Flush, SocketTypes
  <2> QED
    BY <1>8, <2>3, <1>3 DEF Flush
<1>9. CASE Continue
  <2>1. Head(resumed) \in Write /\ Tail(resumed) \in Seq(Write)
    BY <1>9 DEF Continue, SocketTypes
  <2>2. /\ stream' \in Seq(Half)
        /\ Len(stream) <= Len(stream') /\ Len(stream') - read <= Window
        /\ resumed' \in Seq(Write) /\ waiting' \in Seq(Write)
    BY <1>9, <2>1, <1>1, StartWriteTypes DEF Continue
  <2>3. SocketTypes'
    BY <1>9, <2>2, <1>1 DEF Continue, SocketTypes
  <2> QED
    BY <1>9, <2>3, <1>3 DEF Continue
<1>10. CASE PeerRead
  <2>1. SocketTypes'
    BY <1>10, <1>1, WindowAssumption DEF PeerRead, SocketTypes
  <2> QED
    BY <1>10, <2>1, <1>3 DEF PeerRead
<1>11. ASSUME NEW c \in {"start", "stop"}, SendCommand(c), UNCHANGED socketVars
       PROVE  WorkerTypes' /\ SocketTypes'
  BY <1>11, <1>2, CommandTypes
<1>12. CASE UNCHANGED vars
  BY <1>12, <1>2, <1>3 DEF vars
<1> QED
  BY <1>4, <1>5, <1>6, <1>7, <1>8, <1>9, <1>10, <1>11, <1>12
  DEF Next, IoStep, PeerStep

LEMMA SocketTypesInit == Init => SocketTypes
<1> SUFFICES ASSUME Init PROVE SocketTypes
  OBVIOUS
<1>1. /\ stream \in Seq(Half) /\ Len(stream) = 0
      /\ waiting \in Seq(Write) /\ resumed \in Seq(Write)
  BY DEF Init
<1>2. read \in 0 .. Len(stream) /\ Len(stream) - read <= Window
  BY <1>1, WindowAssumption DEF Init
<1>3. deferred \in BOOLEAN
  BY DEF Init
<1> QED
  BY <1>1, <1>2, <1>3 DEF SocketTypes

-----------------------------------------------------------------------------
(* A thread of precompute is only started when precomputing is false, and  *)
(* then none runs: precomputing is reset last.  Before the constructor has *)
(* returned nobody takes tuples, so that nobody starts a thread.           *)
FlagInv ==
  /\ OneProducer
  /\ constructed => \A p \in Producer : producer[p] # "idle" => precomputing
  /\ ~constructed => \A w \in Transfer : transfer[w] = "idle"

LEMMA FlagNext ==
  ASSUME WorkerTypes, FlagInv, [Next]_vars
  PROVE  FlagInv'
<1>1. /\ producer \in [Producer -> {"idle", "look", "lock", "add", "flag"}]
      /\ transfer \in [Transfer -> {"idle", "check", "poll", "take", "send"}]
  BY DEF WorkerTypes, WorkerTypeOK
<1> USE DEF FlagInv, OneProducer
<1>2. ASSUME UNCHANGED <<constructed, precomputing, producer, transfer>>
      PROVE  FlagInv'
  BY <1>2
<1>3. CASE ConstructStep
  BY <1>3 DEF ConstructStep, Construct, producerVars
<1>4. ASSUME NEW p \in Producer, PrecomputeStep(p)
      PROVE  FlagInv'
  <2>1. /\ UNCHANGED <<constructed, transfer>>
        /\ producer[p] # "idle"
        /\ \A q \in Producer \ {p} : producer'[q] = producer[q]
        /\ producer'[p] # "idle" => precomputing' = precomputing
    BY <1>4, <1>1
    DEF PrecomputeStep, Precompute, Look, LockMemory, AddTuple,
        ClearPrecomputing, Behind
  <2> QED
    BY <2>1, <1>1
<1>5. ASSUME NEW w \in Transfer, TransferStep(w)
      PROVE  FlagInv'
  <2>1. CASE Take(w)
    <3>1. constructed
      BY <2>1, <1>1 DEF Take, MoveTransfer
    <3> QED
      BY <2>1, <3>1, <1>1 DEF Take, MoveTransfer, Relaunch
  <2>2. CASE CheckActive(w) \/ FindSeed(w) \/ Send(w)
    BY <2>2, <1>1 DEF CheckActive, FindSeed, Send, MoveTransfer, producerVars
  <2> QED
    BY <1>5, <2>1, <2>2 DEF TransferStep
<1>6. CASE HandleCommand
  BY <1>6, <1>1 DEF HandleCommand, SetActive, producerVars
<1>7. CASE Flush \/ Continue \/ PeerRead
  BY <1>7, <1>2 DEF Flush, Continue, PeerRead, workerVars, producerVars
<1>8. ASSUME NEW c \in {"start", "stop"}, SendCommand(c)
      PROVE  FlagInv'
  BY <1>8, <1>2 DEF SendCommand, producerVars
<1>9. CASE UNCHANGED vars
  BY <1>9, <1>2 DEF vars, workerVars, producerVars
<1> QED
  BY <1>3, <1>4, <1>5, <1>6, <1>7, <1>8, <1>9 DEF Next, IoStep, PeerStep

(* While one transfer thread at a time takes tuples: *)
Single ==
  \A v, w \in Transfer : transfer[v] # "idle" /\ transfer[w] # "idle" => v = w

RoomInv ==
  /\ \A w \in Transfer : transfer[w] = "take" => availableSeeds > 0
  /\ \A p \in Producer :
       /\ want[p] + availableSeeds <= MaxSeeds
       /\ producer[p] \in {"idle", "look", "flag"} => want[p] = 0
       /\ producer[p] = "lock" => want[p] > 0
       /\ Cuda /\ producer[p] = "look" => availableSeeds < MaxSeeds

AtWork == \E p \in Producer : producer[p] = "look" \/ want[p] > 0

FillInv ==
  ~doubled => Single /\ RoomInv /\ (availableSeeds = 0 /\ ~missed => AtWork)

Facts ==
  /\ producer \in [Producer -> {"idle", "look", "lock", "add", "flag"}]
  /\ transfer \in [Transfer -> {"idle", "check", "poll", "take", "send"}]
  /\ want \in [Producer -> 0 .. MaxWord]
  /\ availableSeeds \in 0 .. MaxWord
  /\ OneProducer /\ Wanting
  /\ MaxSeeds \in Nat /\ MaxSeeds > 0 /\ MaxWord \in Nat /\ MaxSeeds < MaxWord

LEMMA FactsHold == WorkerTypes /\ FlagInv => Facts
BY WorkerSeedsAssumption, WorkerWordAssumption
DEF WorkerTypes, WorkerTypeOK, FlagInv, Facts

LEMMA FillByPrecompute ==
  ASSUME Facts, FillInv, NEW p \in Producer, Precompute(p)
  PROVE  FillInv'
<1> SUFFICES ASSUME ~doubled
             PROVE  Single' /\ RoomInv'
                      /\ (availableSeeds' = 0 /\ ~missed' => AtWork')
  BY DEF FillInv, Precompute, Look, LockMemory, AddTuple, ClearPrecomputing,
     controlVars
<1>1. /\ UNCHANGED <<transfer, missed>>
      /\ producer[p] # "idle"
      /\ \A q \in Producer \ {p} : /\ producer'[q] = producer[q]
                                   /\ want'[q] = want[q]
                                   /\ producer[q] = "idle"
  BY DEF Facts, OneProducer, Precompute, Look, LockMemory, AddTuple,
     ClearPrecomputing
<1>2. Single'
  BY <1>1 DEF FillInv, Single
<1>3. RoomInv /\ (availableSeeds = 0 /\ ~missed => AtWork)
  BY DEF FillInv
<1> USE DEF Facts, RoomInv, AtWork
<1>4. CASE Look(p)
  <2>1. Word(MaxSeeds - availableSeeds) = MaxSeeds - availableSeeds
    BY <1>3, WordOfWord
  <2>2. /\ availableSeeds' = availableSeeds
        /\ want'[p] = IF Cuda THEN MaxSeeds - availableSeeds
                      ELSE IF availableSeeds < MaxSeeds THEN 1 ELSE 0
        /\ producer'[p] = IF Cuda \/ availableSeeds < MaxSeeds THEN "lock"
                                                               ELSE "flag"
    BY <1>4, <2>1 DEF Look, memoryVars
  <2>3. Cuda => availableSeeds < MaxSeeds
    BY <1>3, <1>4 DEF Look
  <2> QED
    BY <1>1, <1>2, <1>3, <2>2, <2>3
<1>5. CASE LockMemory(p)
  <2>1. /\ availableSeeds' = availableSeeds /\ want' = want
        /\ producer'[p] = "add"
    BY <1>3, <1>5 DEF LockMemory, memoryVars
  <2>2. RoomInv'
    BY <1>1, <1>3, <2>1
  <2>3. availableSeeds' = 0 /\ ~missed' => AtWork'
    <3>1. producer[p] = "lock"
      BY <1>5 DEF LockMemory
    <3>2. want'[p] > 0
      BY <1>3, <2>1, <3>1
    <3> QED
      BY <3>2
  <2> QED
    BY <1>2, <2>2, <2>3
<1>6. CASE AddTuple(p)
  <2>1. producer[p] = "add" /\ want[p] > 0
    BY <1>6 DEF AddTuple, Wanting
  <2>2. Word(availableSeeds + 1) = availableSeeds + 1
    BY <2>1, <1>3, WordOfWord
  <2>3. /\ availableSeeds' = availableSeeds + 1
        /\ want'[p] = want[p] - 1
        /\ producer'[p] = IF want[p] = 1 THEN IF Cuda THEN "flag" ELSE "look"
                                         ELSE "add"
    BY <1>6, <2>2 DEF AddTuple, Behind
  <2> QED
    BY <1>1, <1>2, <1>3, <2>1, <2>3
<1>7. CASE ClearPrecomputing(p)
  <2>1. /\ availableSeeds' = availableSeeds /\ want' = want
        /\ producer[p] = "flag" /\ producer'[p] = "idle"
    BY <1>7 DEF ClearPrecomputing, memoryVars
  <2> QED
    BY <1>1, <1>2, <1>3, <2>1
<1> QED
  BY <1>4, <1>5, <1>6, <1>7 DEF Precompute

LEMMA FillByTake ==
  ASSUME Facts, FillInv, NEW w \in Transfer, Take(w)
  PROVE  FillInv'
<1> SUFFICES ASSUME ~doubled
             PROVE  Single' /\ RoomInv'
                      /\ (availableSeeds' = 0 /\ ~missed' => AtWork')
  BY DEF FillInv, Take, controlVars
<1>1. Single /\ RoomInv
  BY DEF FillInv
<1>2. /\ transfer[w] = "take" /\ transfer'[w] = "send"
      /\ \A v \in Transfer \ {w} : transfer'[v] = transfer[v]
      /\ UNCHANGED want
  BY DEF Take, MoveTransfer, Facts
<1>3. Single' /\ \A v \in Transfer : transfer'[v] # "take"
  BY <1>1, <1>2 DEF Single
<1>4. availableSeeds > 0 /\ availableSeeds' = availableSeeds - 1
  <2>1. availableSeeds > 0
    BY <1>1, <1>2 DEF RoomInv
  <2> QED
    BY <2>1, WordOfWord DEF Take, Facts
<1>5. CASE ~precomputing /\ FewLeft(availableSeeds')
  <2>1. PICK p \in Producer :
          /\ producer[p] = "idle"
          /\ producer' = [producer EXCEPT ![p] = "look"]
    BY <1>5 DEF Take, Relaunch
  <2>2. availableSeeds' < MaxSeeds
    BY <1>4, <1>5 DEF FewLeft, Facts
  <2>3. RoomInv'
    BY <1>1, <1>2, <1>3, <1>4, <2>1, <2>2 DEF RoomInv, Facts
  <2>4. AtWork'
    BY <2>1 DEF AtWork, Facts
  <2> QED
    BY <1>3, <2>3, <2>4
<1>6. CASE precomputing \/ ~FewLeft(availableSeeds')
  <2>1. producer' = producer
    BY <1>6 DEF Take, Relaunch
  <2>2. RoomInv'
    BY <1>1, <1>2, <1>3, <1>4, <2>1 DEF RoomInv, Facts
  <2>3. ASSUME availableSeeds' = 0, ~missed'
        PROVE  AtWork'
    <3>1. precomputing
      BY <1>6, <2>3 DEF FewLeft, Facts
    <3>2. PICK p \in Producer : producer[p] \notin {"idle", "flag"}
      BY <2>3, <3>1 DEF Take
    <3>3. producer[p] = "look" \/ want[p] > 0
      BY <1>1, <3>2 DEF Facts, Wanting, RoomInv
    <3> QED
      BY <1>2, <2>1, <3>3 DEF AtWork
  <2> QED
    BY <1>3, <2>2, <2>3
<1> QED
  BY <1>5, <1>6

LEMMA FillNext ==
  ASSUME WorkerTypes, FlagInv, FillInv, [Next]_vars
  PROVE  FillInv'
<1>1. Facts
  BY FactsHold
<1> USE DEF FillInv, Single, RoomInv, AtWork
<1>2. ASSUME UNCHANGED <<availableSeeds, producer, want, transfer, doubled,
                         missed>>
      PROVE  FillInv'
  BY <1>2
<1>3. CASE ConstructStep
  BY <1>3, <1>2
  DEF ConstructStep, Construct, memoryVars, producerVars, controlVars
<1>4. ASSUME NEW p \in Producer, PrecomputeStep(p)
      PROVE  FillInv'
  BY <1>1, <1>4, FillByPrecompute DEF PrecomputeStep
<1>5. ASSUME NEW w \in Transfer, TransferStep(w)
      PROVE  FillInv'
  <2>1. CASE CheckActive(w) \/ FindSeed(w) \/ Send(w)
    <3>1. /\ UNCHANGED <<availableSeeds, producer, want, doubled, missed>>
          /\ transfer[w] # "idle"
          /\ transfer'[w] = "take" => availableSeeds > 0
          /\ \A v \in Transfer \ {w} : transfer'[v] = transfer[v]
      BY <2>1, <1>1 DEF CheckActive, FindSeed, Send, MoveTransfer, memoryVars,
         producerVars, controlVars, Facts
    <3> QED
      BY <3>1, <1>1 DEF Facts
  <2>2. CASE Take(w)
    BY <1>1, <2>2, FillByTake
  <2> QED
    BY <1>5, <2>1, <2>2 DEF TransferStep
<1>6. CASE HandleCommand
  <2>1. UNCHANGED <<availableSeeds, producer, want, missed>>
    BY <1>6 DEF HandleCommand, SetActive, memoryVars, producerVars
  <2>2. CASE UNCHANGED <<transfer, doubled>>
    BY <1>2, <2>1, <2>2
  <2>3. ASSUME NEW w \in Transfer,
               transfer' = [transfer EXCEPT ![w] = "check"],
               doubled' = (doubled \/ \E v \in Transfer : transfer[v] # "idle")
        PROVE  FillInv'
    BY <2>1, <2>3, <1>1 DEF Facts
  <2> QED
    BY <1>6, <2>2, <2>3 DEF HandleCommand, SetActive
<1>7. CASE Flush \/ Continue \/ PeerRead
  BY <1>7, <1>2 DEF Flush, Continue, PeerRead, workerVars, memoryVars,
     producerVars, controlVars
<1>8. ASSUME NEW c \in {"start", "stop"}, SendCommand(c)
      PROVE  FillInv'
  BY <1>8, <1>2 DEF SendCommand, memoryVars, producerVars
<1>9. CASE UNCHANGED vars
  BY <1>9, <1>2 DEF vars, workerVars, memoryVars, producerVars, controlVars
<1> QED
  BY <1>3, <1>4, <1>5, <1>6, <1>7, <1>8, <1>9 DEF Next, IoStep, PeerStep

-----------------------------------------------------------------------------
WorkerInv == WorkerTypes /\ SocketTypes /\ FlagInv /\ FillInv

LEMMA WorkerInvariant == Spec => []WorkerInv
<1>1. Init => WorkerInv
  <2> SUFFICES ASSUME Init PROVE WorkerInv
    OBVIOUS
  <2>1. WorkerTypes /\ SocketTypes
    BY WorkerTypesInit, SocketTypesInit DEF Init
  <2>2. FlagInv
    BY DEF Init, WorkerInit, FlagInv, OneProducer
  <2>3. FillInv
    <3>1. producer[1] = "look" /\ 1 \in Producer
      BY DEF Init, WorkerInit, Producer
    <3>2. \A p \in Producer : /\ want[p] = 0
                              /\ producer[p] \in {"idle", "look"}
      BY DEF Init, WorkerInit
    <3>3. availableSeeds = 0 /\ \A w \in Transfer : transfer[w] = "idle"
      BY DEF Init, WorkerInit
    <3> QED
      BY <3>1, <3>2, <3>3, WorkerSeedsAssumption
      DEF FillInv, Single, RoomInv, AtWork
  <2> QED
    BY <2>1, <2>2, <2>3 DEF WorkerInv
<1>2. WorkerInv /\ [Next]_vars => WorkerInv'
  BY TypeNext, FlagNext, FillNext DEF WorkerInv
<1> QED
  BY <1>1, <1>2, PTL DEF Spec

(***************************************************************************)
(* Every state of a worker and its connection is well typed; in particular *)
(* no more is on the way to the peer than the window allows.               *)
(***************************************************************************)
THEOREM TransferTypeCorrect == Spec => []TypeOK
<1>1. WorkerInv => TypeOK
  BY DEF WorkerInv, WorkerTypes, SocketTypes, TypeOK
<1> QED
  BY <1>1, WorkerInvariant, PTL

(***************************************************************************)
(* Two threads of precompute never run at once, although the flag that     *)
(* says so is set late and reset without the mutex.                        *)
(***************************************************************************)
THEOREM TransferOneProducer == Spec => []OneProducer
<1>1. WorkerInv => OneProducer
  BY DEF WorkerInv, FlagInv
<1> QED
  BY <1>1, WorkerInvariant, PTL

(***************************************************************************)
(* A transfer thread never waits in vain at an empty memory, unless the    *)
(* memory was emptied while precomputing was stale or two transfer threads *)
(* ran at once.                                                            *)
(***************************************************************************)
THEOREM TransferSomeThreadFills == Spec => []SomeThreadFills
<1>1. WorkerInv => SomeThreadFills
  BY DEF WorkerInv, FillInv, SomeThreadFills, Starving, AtWork
<1> QED
  BY <1>1, WorkerInvariant, PTL

(***************************************************************************)
(* The memory of a worker never holds more tuples than it has slots and is *)
(* never counted below zero while one transfer thread at a time takes      *)
(* tuples, although precompute looks for room without the mutex.           *)
(***************************************************************************)
THEOREM TransferSeedsBounded == Spec => [](~doubled => SeedsBounded)
<1>1. WorkerInv => (~doubled => SeedsBounded)
  <2> SUFFICES ASSUME WorkerInv, ~doubled PROVE availableSeeds <= MaxSeeds
    BY DEF SeedsBounded
  <2>1. Facts /\ RoomInv
    BY FactsHold DEF WorkerInv, FillInv
  <2>2. 1 \in Producer
    BY DEF Producer
  <2>3. want[1] + availableSeeds <= MaxSeeds /\ want[1] \in 0 .. MaxWord
    BY <2>1, <2>2 DEF Facts, RoomInv
  <2> QED
    BY <2>1, <2>3 DEF Facts
<1> QED
  BY <1>1, WorkerInvariant, PTL
-----------------------------------------------------------------------------
(* While every tuple is accepted at once nothing waits in the socket, and   *)
(* the stream is behind the memory by the tuple that is about to be sent.   *)
Sending == \E w \in Transfer : transfer[w] = "send"

Behindhand == Len(stream) = 2 * (Len(handed) - (IF Sending THEN 1 ELSE 0))

StreamInv ==
  ~doubled /\ ~deferred =>
    /\ waiting = <<>> /\ resumed = <<>>
    /\ Behindhand /\ InOrder
    /\ \A w \in Transfer :
         transfer[w] = "send" => Len(handed) > 0 /\ buffer[w] = handed[Len(handed)]

(* A tuple that the socket accepts at once reaches the stream as a whole. *)
LEMMA SentWhole ==
  ASSUME WorkerTypes, SocketTypes, NEW w \in Transfer, Send(w), ~deferred',
         waiting = <<>>, resumed = <<>>
  PROVE  /\ waiting' = <<>> /\ resumed' = <<>>
         /\ stream' = stream \o [k \in 1 .. 2 |-> HalfOf(buffer[w], k)]
<1> DEFINE write == [of |-> w, sent |-> 0]
<1>1. /\ ~(Len(stream') < Len(stream) + 2)
      /\ StartWrite(write, resumed)
  BY DEF Send
<1>2. Len(stream) \in Nat /\ Len(stream') \in Nat
  <2>1. write \in Write /\ resumed \in Seq(Write)
    BY DEF Write, SocketTypes
  <2>2. stream' \in Seq(Half)
    BY <1>1, <2>1, StartWriteTypes DEF WorkerTypes, WorkerTypeOK
  <2> QED
    BY <2>2 DEF SocketTypes
<1>3. waiting = <<>> /\ Room > 0 /\ Accept(write, resumed) /\ UNCHANGED waiting
  BY <1>1, <1>2 DEF StartWrite
<1>4. Room \in Nat
  BY WindowAssumption DEF Room, SocketTypes
<1>5. write.sent = 0 /\ write.of = w
  OBVIOUS
<1> DEFINE n == Accepted(write)
           more == [i \in 1 .. n |-> HalfOf(buffer[w], i)]
<1>6. n \in 1 .. 2
  BY <1>3, <1>4, <1>5 DEF Accepted
<1>7. stream' = stream \o more
  BY <1>3, <1>5, <1>6 DEF Accept
<1>8. n = 2
  <2>1. \A i \in 1 .. n : HalfOf(buffer[w], i) \in Half
    BY HalfOfType, <1>6 DEF WorkerTypes, WorkerTypeOK
  <2> HIDE DEF n
  <2>2. more \in Seq(Half) /\ Len(more) = n
    BY <2>1, <1>6
  <2> HIDE DEF more
  <2>3. Len(stream') = Len(stream) + n
    BY <1>7, <2>2, ConcatProperties DEF SocketTypes
  <2> QED
    BY <1>1, <1>6, <2>3
<1>9. resumed' = resumed
  BY <1>3, <1>5, <1>8 DEF Accept
<1> QED
  BY <1>3, <1>7, <1>8, <1>9

LEMMA StreamBySend ==
  ASSUME WorkerInv, StreamInv, NEW w \in Transfer, Send(w)
  PROVE  StreamInv'
<1> SUFFICES ASSUME ~doubled', ~deferred'
             PROVE  StreamInv'
  BY DEF StreamInv
<1>1. ~doubled /\ ~deferred
  BY DEF Send, controlVars
<1>2. /\ waiting = <<>> /\ resumed = <<>> /\ Behindhand /\ InOrder
      /\ Len(handed) > 0 /\ buffer[w] = handed[Len(handed)]
      /\ transfer[w] = "send"
  BY <1>1 DEF StreamInv, Send, MoveTransfer
<1>3. Sending /\ ~Sending'
  BY <1>1, <1>2
  DEF Sending, Send, MoveTransfer, WorkerInv, WorkerTypes, WorkerTypeOK,
     FillInv, Single
<1>4. Len(stream) = 2 * (Len(handed) - 1) /\ Len(handed) \in Nat
  BY <1>2, <1>3 DEF Behindhand, WorkerInv, WorkerTypes, WorkerTypeOK
<1> DEFINE more == [k \in 1 .. 2 |-> HalfOf(buffer[w], k)]
<1>5. waiting' = <<>> /\ resumed' = <<>> /\ stream' = stream \o more
  BY <1>2, SentWhole DEF WorkerInv
<1>6. more \in Seq(Half) /\ Len(more) = 2 /\ more[1] = HalfOf(buffer[w], 1)
      /\ more[2] = HalfOf(buffer[w], 2)
  <2>1. \A k \in 1 .. 2 : HalfOf(buffer[w], k) \in Half
    BY HalfOfType DEF WorkerInv, WorkerTypes, WorkerTypeOK
  <2> QED
    BY <2>1
<1> HIDE DEF more
<1>7. /\ Len(stream') = Len(stream) + 2
      /\ \A i \in 1 .. Len(stream) : stream'[i] = stream[i]
      /\ stream'[Len(stream) + 1] = more[1]
      /\ stream'[Len(stream) + 2] = more[2]
  <2>1. stream \in Seq(Half)
    BY DEF WorkerInv, SocketTypes
  <2>2. /\ Len(stream') = Len(stream) + 2
        /\ \A i \in 1 .. Len(stream) + 2 :
             stream'[i] = IF i <= Len(stream) THEN stream[i] ELSE more[i - Len(stream)]
    <3>1. more \in Seq(Half) /\ Len(more) = 2 /\ stream' = stream \o more
      BY <1>5, <1>6
    <3>2. /\ Len(stream \o more) = Len(stream) + Len(more)
          /\ \A i \in 1 .. Len(stream) + Len(more) :
               (stream \o more)[i] =
                 IF i <= Len(stream) THEN stream[i] ELSE more[i - Len(stream)]
      BY <2>1, <3>1, ConcatProperties
    <3> QED
      BY <3>1, <3>2
  <2>3. Len(stream) \in Nat
    BY <2>1
  <2>4. \A i \in 1 .. Len(stream) : stream'[i] = stream[i]
    BY <2>2, <2>3
  <2>5. stream'[Len(stream) + 1] = more[(Len(stream) + 1) - Len(stream)]
    BY <2>2, <2>3
  <2>6. stream'[Len(stream) + 2] = more[(Len(stream) + 2) - Len(stream)]
    BY <2>2, <2>3
  <2>7. (Len(stream) + 1) - Len(stream) = 1 /\ (Len(stream) + 2) - Len(stream) = 2
    BY <2>3
  <2> QED
    BY <2>2, <2>4, <2>5, <2>6, <2>7
<1>8. UNCHANGED handed
  BY DEF Send
<1>9. Behindhand'
  BY <1>3, <1>4, <1>7, <1>8 DEF Behindhand
<1>10. InOrder'
  <2> SUFFICES ASSUME NEW i \in 1 .. Len(stream')
               PROVE  /\ (i + 1) \div 2 <= Len(handed)
                      /\ stream'[i] = HalfOf(handed[(i + 1) \div 2], 2 - (i % 2))
    BY <1>8 DEF InOrder, HalfOf
  <2>1. CASE i \in 1 .. Len(stream)
    BY <2>1, <1>2, <1>7 DEF InOrder
  <2>2. CASE i = Len(stream) + 1
    <3>1. (i + 1) \div 2 = Len(handed) /\ i % 2 = 1
      BY <2>2, <1>4
    <3> QED
      BY <2>2, <3>1, <1>2, <1>6, <1>7
  <2>3. CASE i = Len(stream) + 2
    <3>1. (i + 1) \div 2 = Len(handed) /\ i % 2 = 0
      BY <2>3, <1>4
    <3> QED
      BY <2>3, <3>1, <1>2, <1>6, <1>7
  <2>4. Len(stream) \in Nat /\ i \in 1 .. Len(stream) + 2
    BY <1>7 DEF WorkerInv, SocketTypes
  <2> QED
    BY <2>1, <2>2, <2>3, <2>4
<1> QED
  BY <1>3, <1>5, <1>9, <1>10 DEF StreamInv, Sending

LEMMA StreamByTake ==
  ASSUME WorkerInv, StreamInv, NEW w \in Transfer, Take(w), UNCHANGED socketVars
  PROVE  StreamInv'
<1> SUFFICES ASSUME ~doubled', ~deferred'
             PROVE  StreamInv'
  BY DEF StreamInv
<1>1. ~doubled /\ ~deferred
  BY DEF Take, controlVars, socketVars
<1>2. /\ handed \in Seq(Tuple) /\ slot[currentSeed] \in Tuple
      /\ transfer \in [Transfer -> {"idle", "check", "poll", "take", "send"}]
      /\ buffer \in [Transfer -> Tuple]
  BY DEF WorkerInv, WorkerTypes, WorkerTypeOK
<1>3. /\ transfer[w] = "take" /\ transfer' = [transfer EXCEPT ![w] = "send"]
      /\ handed' = Append(handed, slot[currentSeed])
      /\ buffer'[w] = slot[currentSeed]
  BY <1>2 DEF Take, MoveTransfer
<1>4. \A v \in Transfer : transfer'[v] = "send" <=> v = w
  BY <1>1, <1>2, <1>3 DEF WorkerInv, FillInv, Single
<1>5. ~Sending /\ Sending'
  BY <1>1, <1>2, <1>3 DEF Sending, WorkerInv, FillInv, Single
<1>6. /\ Len(handed) \in Nat /\ Len(handed') = Len(handed) + 1
      /\ handed'[Len(handed')] = slot[currentSeed]
      /\ \A i \in 1 .. Len(handed) : handed'[i] = handed[i]
  BY <1>2, <1>3
<1>7. waiting' = <<>> /\ resumed' = <<>> /\ stream' = stream /\ InOrder /\ Behindhand
  BY <1>1 DEF StreamInv, socketVars
<1>8. Behindhand'
  BY <1>5, <1>6, <1>7 DEF Behindhand
<1>9. InOrder'
  <2> SUFFICES ASSUME NEW i \in 1 .. Len(stream)
               PROVE  /\ (i + 1) \div 2 <= Len(handed')
                      /\ stream[i] = HalfOf(handed'[(i + 1) \div 2], 2 - (i % 2))
    BY <1>7 DEF InOrder, HalfOf
  <2>1. (i + 1) \div 2 \in 1 .. Len(handed)
    BY <1>6, <1>7 DEF InOrder
  <2> QED
    BY <2>1, <1>6, <1>7 DEF InOrder
<1> QED
  BY <1>3, <1>4, <1>6, <1>7, <1>8, <1>9 DEF StreamInv

LEMMA StreamNext ==
  ASSUME WorkerInv, StreamInv, [Next]_vars
  PROVE  StreamInv'
<1>1. /\ transfer \in [Transfer -> {"idle", "check", "poll", "take", "send"}]
      /\ buffer \in [Transfer -> Tuple]
  BY DEF WorkerInv, WorkerTypes, WorkerTypeOK
<1>2. ASSUME UNCHANGED <<stream, waiting, resumed, deferred, handed>>,
             \A v \in Transfer : /\ transfer'[v] = "send" <=> transfer[v] = "send"
                                 /\ transfer[v] = "send" => buffer'[v] = buffer[v],
             ~doubled' => ~doubled
      PROVE  StreamInv'
  <2>1. Behindhand' = Behindhand /\ InOrder' = InOrder
    BY <1>2 DEF Behindhand, Sending, InOrder, HalfOf
  <2> QED
    BY <1>2, <2>1 DEF StreamInv
<1>3. CASE ConstructStep
  BY <1>2, <1>3 DEF ConstructStep, Construct, socketVars, controlVars
<1>4. ASSUME NEW p \in Producer, PrecomputeStep(p)
      PROVE  StreamInv'
  BY <1>2, <1>4
  DEF PrecomputeStep, Precompute, Look, LockMemory, AddTuple, ClearPrecomputing,
      socketVars, controlVars
<1>5. ASSUME NEW w \in Transfer, TransferStep(w)
      PROVE  StreamInv'
  <2>1. CASE (CheckActive(w) \/ FindSeed(w)) /\ UNCHANGED socketVars
    BY <1>1, <1>2, <2>1
    DEF CheckActive, FindSeed, MoveTransfer, socketVars, controlVars
  <2> QED
    BY <1>5, <2>1, StreamByTake, StreamBySend DEF TransferStep
<1>6. CASE HandleCommand /\ UNCHANGED socketVars
  <2>1. ~doubled' => ~doubled
    BY <1>6, Zenon DEF HandleCommand, SetActive
  <2>2. \A v \in Transfer : transfer'[v] = "send" <=> transfer[v] = "send"
    BY <1>1, <1>6 DEF HandleCommand, SetActive
  <2> QED
    BY <1>2, <1>6, <2>1, <2>2 DEF HandleCommand, socketVars
<1>7. CASE Flush
  BY <1>7 DEF Flush, StreamInv, workerVars, controlVars
<1>8. CASE Continue
  BY <1>8 DEF Continue, StreamInv, workerVars, controlVars
<1>9. CASE PeerRead
  BY <1>2, <1>9 DEF PeerRead, workerVars, controlVars
<1>10. ASSUME NEW c \in {"start", "stop"}, SendCommand(c), UNCHANGED socketVars
      PROVE  StreamInv'
  BY <1>2, <1>10 DEF SendCommand, socketVars
<1>11. CASE UNCHANGED vars
  BY <1>2, <1>11 DEF vars, workerVars, socketVars, controlVars
<1> QED
  BY <1>3, <1>4, <1>5, <1>6, <1>7, <1>8, <1>9, <1>10, <1>11
  DEF Next, IoStep, PeerStep

(***************************************************************************)
(* What the peer receives are whole tuples in the order in which they were *)
(* taken, for every window and number of tuples, as long as the socket     *)
(* accepts every tuple at once and one transfer thread at a time runs.     *)
(***************************************************************************)
THEOREM TransferStreamIntact == Spec => []StreamIntact
<1>1. Init => StreamInv
  BY DEF Init, WorkerInit, StreamInv, Behindhand, Sending, InOrder
<1>2. WorkerInv /\ StreamInv /\ [Next]_vars => StreamInv'
  BY StreamNext
<1>3. StreamInv => StreamIntact
  BY DEF StreamInv, StreamIntact
<1> QED
  BY <1>1, <1>2, <1>3, WorkerInvariant, PTL DEF Spec

-----------------------------------------------------------------------------
\* While one transfer thread at a time takes tuples, the tuples that wait are
\* the next ones to be handed out and the next one is written behind them.
OrderInv ==
  /\ made = Len(handed) + availableSeeds
  /\ currentPreSeed = At(MaxSeeds, currentSeed, availableSeeds)
  /\ \A i \in 0 .. availableSeeds-1 :
       Shown(slot[At(MaxSeeds, currentSeed, i)]) = Named(Len(handed) + 1 + i)

\* In the CPU build every batch is one tuple.
OneByOne ==
  ~Cuda => \A p \in Producer : want[p] <= 1 /\ first[p] = 0

QueueInv == OneByOne /\ (~doubled => OrderInv)

(* A tuple that is added is the next one. *)
LEMMA OrderByAdd ==
  ASSUME WorkerTypes, OneByOne, ~doubled, Single, RoomInv, OrderInv,
         NEW p \in Producer, AddTuple(p)
  PROVE  /\ OrderInv' /\ handed' = handed
         /\ availableSeeds' = availableSeeds + 1 /\ availableSeeds < MaxSeeds
<1>1. /\ MaxSeeds \in Nat \ {0} /\ MaxWord \in Nat /\ MaxSeeds < MaxWord
      /\ availableSeeds \in Nat /\ availableSeeds <= MaxWord
      /\ currentSeed \in 0 .. MaxSeeds-1
      /\ slot \in [0 .. MaxSeeds-1 -> Tuple]
      /\ made \in Nat /\ Len(handed) \in Nat
      /\ want[p] \in Nat
  BY WorkerSeedsAssumption, WorkerWordAssumption DEF WorkerTypes, WorkerTypeOK
<1>2. want[p] > 0 /\ want[p] + availableSeeds <= MaxSeeds
  BY DEF AddTuple, WorkerTypes, Wanting, RoomInv
<1>3. availableSeeds \in 0 .. MaxSeeds-1
  BY <1>1, <1>2
<1>4. availableSeeds' = availableSeeds + 1
  <2>1. availableSeeds + 1 \in 0 .. MaxWord
    BY <1>1, <1>3
  <2> QED
    BY <2>1, WordOfWord DEF AddTuple
<1>5. UNCHANGED <<handed, currentSeed>> /\ made' = made + 1
  BY DEF AddTuple
<1>6. currentPreSeed \in 0 .. MaxSeeds-1 /\ currentPreSeed = At(MaxSeeds, currentSeed, availableSeeds)
  BY DEF OrderInv, WorkerTypes, WorkerTypeOK
<1>7. currentPreSeed' = At(MaxSeeds, currentSeed, availableSeeds + 1)
  <2>1. currentPreSeed' = Behind1(MaxSeeds, currentPreSeed)
    BY DEF AddTuple, Successor, Behind1
  <2> QED
    BY <1>1, <1>3, <1>6, <2>1, AtSuccessor
<1>8. /\ Shown(slot'[currentPreSeed]) = Named(made + 1)
      /\ \A i \in 0 .. MaxSeeds-1 : i # currentPreSeed => slot'[i] = slot[i]
  <2> DEFINE head == IF first[p] = 0 THEN made + 1 ELSE first[p]
  <2>1. slot' = [slot EXCEPT ![currentPreSeed] = [seed |-> made + 1, value |-> head]]
    BY <1>5 DEF AddTuple
  <2>2. ~Cuda => head = made + 1
    BY DEF OneByOne
  <2> HIDE DEF head
  <2>3. slot'[currentPreSeed] = [seed |-> made + 1, value |-> head]
    BY <1>1, <1>6, <2>1
  <2> QED
    BY <1>1, <2>1, <2>2, <2>3 DEF Shown, Named
<1>9. ASSUME NEW i \in 0 .. availableSeeds' - 1
      PROVE  Shown(slot'[At(MaxSeeds, currentSeed', i)]) = Named(Len(handed') + 1 + i)
  <2>1. i = availableSeeds \/ i \in 0 .. availableSeeds-1
    BY <1>1, <1>4
  <2>2. CASE i = availableSeeds
    <3>1. made + 1 = Len(handed') + 1 + i
      BY <1>1, <1>5, <2>2 DEF OrderInv
    <3> QED
      BY <1>5, <1>6, <1>8, <2>2, <3>1
  <2>3. CASE i \in 0 .. availableSeeds-1
    <3>1. /\ i \in 0 .. MaxSeeds-1 /\ i # availableSeeds /\ i \in 0 .. MaxSeeds
      BY <1>1, <1>3, <2>3
    <3>2. At(MaxSeeds, currentSeed, i) \in 0 .. MaxSeeds-1
      BY <1>1, <3>1, AtInside
    <3>3. At(MaxSeeds, currentSeed, i) # At(MaxSeeds, currentSeed, availableSeeds)
      BY <1>1, <1>3, <3>1, AtDiffers
    <3>4. Shown(slot[At(MaxSeeds, currentSeed, i)]) = Named(Len(handed) + 1 + i)
      BY <2>3 DEF OrderInv
    <3>5. slot'[At(MaxSeeds, currentSeed, i)] = slot[At(MaxSeeds, currentSeed, i)]
      BY <1>6, <1>8, <3>2, <3>3
    <3> QED
      BY <1>5, <3>4, <3>5
  <2> QED
    BY <2>1, <2>2, <2>3
<1>10. made' = Len(handed)' + availableSeeds'
  BY <1>1, <1>4, <1>5 DEF OrderInv
<1>11. OrderInv'
  BY <1>4, <1>5, <1>7, <1>9, <1>10 DEF OrderInv, Shown
<1> QED
  BY <1>1, <1>3, <1>4, <1>5, <1>11

(* A tuple that is taken is the oldest one. *)
LEMMA OrderByTake ==
  ASSUME WorkerTypes, ~doubled, RoomInv, OrderInv, NEW w \in Transfer, Take(w)
  PROVE  /\ OrderInv'
         /\ availableSeeds > 0 /\ availableSeeds' = availableSeeds - 1
         /\ handed' = Append(handed, slot[currentSeed])
         /\ Shown(slot[currentSeed]) = Named(Len(handed) + 1)
<1>1. /\ MaxSeeds \in Nat \ {0} /\ MaxWord \in Nat /\ MaxSeeds < MaxWord
      /\ availableSeeds \in Nat /\ availableSeeds <= MaxWord
      /\ currentSeed \in 0 .. MaxSeeds-1
      /\ slot \in [0 .. MaxSeeds-1 -> Tuple] /\ handed \in Seq(Tuple)
      /\ made \in Nat /\ Len(handed) \in Nat
  BY WorkerSeedsAssumption, WorkerWordAssumption DEF WorkerTypes, WorkerTypeOK
<1>2. availableSeeds > 0 /\ availableSeeds <= MaxSeeds
  <2>1. 1 \in Producer
    BY DEF Producer
  <2>2. want[1] + availableSeeds <= MaxSeeds /\ want[1] \in 0 .. MaxWord
    BY <2>1 DEF RoomInv, WorkerTypes, WorkerTypeOK
  <2> QED
    BY <1>1, <2>2 DEF RoomInv, Take, MoveTransfer
<1>3. availableSeeds' = availableSeeds - 1
  <2>1. availableSeeds - 1 \in 0 .. MaxWord
    BY <1>1, <1>2
  <2> QED
    BY <2>1, WordOfWord DEF Take
<1>4. /\ handed' = Append(handed, slot[currentSeed])
      /\ currentSeed' = Behind1(MaxSeeds, currentSeed)
      /\ UNCHANGED <<currentPreSeed, slot, made>>
  BY DEF Take, Successor, Behind1
<1>5. Len(handed') = Len(handed) + 1
  BY <1>1, <1>4
<1>6. \A k \in 0 .. MaxSeeds-1 :
        At(MaxSeeds, currentSeed', k) = At(MaxSeeds, currentSeed, k + 1)
  BY <1>1, <1>4, AtSuccessor
<1>7. currentPreSeed' = At(MaxSeeds, currentSeed', availableSeeds')
  <2>1. availableSeeds - 1 \in 0 .. MaxSeeds-1 /\ (availableSeeds - 1) + 1 = availableSeeds
    BY <1>1, <1>2
  <2> QED
    BY <1>3, <1>4, <1>6, <2>1 DEF OrderInv
<1>8. ASSUME NEW i \in 0 .. availableSeeds' - 1
      PROVE  Shown(slot'[At(MaxSeeds, currentSeed', i)]) = Named(Len(handed') + 1 + i)
  <2>1. /\ i + 1 \in 0 .. availableSeeds-1 /\ i \in 0 .. MaxSeeds-1
        /\ Len(handed) + 1 + (i + 1) = Len(handed') + 1 + i
    BY <1>1, <1>2, <1>3, <1>5
  <2>2. Shown(slot[At(MaxSeeds, currentSeed, i + 1)]) = Named(Len(handed) + 1 + (i + 1))
    BY <2>1 DEF OrderInv
  <2> QED
    BY <1>4, <1>6, <2>1, <2>2
<1>9. made' = Len(handed)' + availableSeeds'
  BY <1>1, <1>3, <1>4, <1>5 DEF OrderInv
<1>10. OrderInv'
  BY <1>7, <1>8, <1>9 DEF OrderInv, Shown
<1>11. Shown(slot[currentSeed]) = Named(Len(handed) + 1)
  <2>1. 0 \in 0 .. availableSeeds-1 /\ At(MaxSeeds, currentSeed, 0) = currentSeed
    BY <1>1, <1>2, AtSuccessor
  <2>2. Shown(slot[At(MaxSeeds, currentSeed, 0)]) = Named(Len(handed) + 1 + 0)
    BY <2>1 DEF OrderInv
  <2> QED
    BY <1>1, <2>1, <2>2
<1> QED
  BY <1>2, <1>3, <1>4, <1>10, <1>11

(* Every step but these two leaves what the queue is made of alone. *)
LEMMA OtherSteps ==
  ASSUME [Next]_vars,
         ~ \E p \in Producer : AddTuple(p), ~ \E w \in Transfer : Take(w)
  PROVE  UNCHANGED <<memoryVars, handed, made>>
<1>1. CASE ConstructStep
  BY <1>1 DEF ConstructStep, Construct, producerVars
<1>2. ASSUME NEW p \in Producer, PrecomputeStep(p)
      PROVE  UNCHANGED <<memoryVars, handed, made>>
  BY <1>2 DEF PrecomputeStep, Precompute, Look, LockMemory, ClearPrecomputing
<1>3. ASSUME NEW w \in Transfer, TransferStep(w)
      PROVE  UNCHANGED <<memoryVars, handed, made>>
  BY <1>3 DEF TransferStep, CheckActive, FindSeed, Send, producerVars
<1>4. CASE IoStep \/ PeerStep
  BY <1>4
  DEF IoStep, PeerStep, HandleCommand, Flush, Continue, PeerRead, SendCommand,
     workerVars, producerVars
<1>5. CASE UNCHANGED vars
  BY <1>5 DEF vars, workerVars, producerVars
<1> QED
  BY <1>1, <1>2, <1>3, <1>4, <1>5 DEF Next

(* A transfer thread that was started beside another one stays recorded. *)
LEMMA DoubledForGood ==
  ASSUME [Next]_vars, ~doubled'
  PROVE  ~doubled
<1>1. CASE HandleCommand
  BY <1>1, Zenon DEF HandleCommand, SetActive
<1>2. CASE [Next]_vars /\ ~HandleCommand
  <2>1. UNCHANGED doubled
    <3>1. CASE ConstructStep
      BY <3>1 DEF ConstructStep, Construct, controlVars
    <3>2. ASSUME NEW p \in Producer, PrecomputeStep(p)
          PROVE  UNCHANGED doubled
      BY <3>2 DEF PrecomputeStep, Precompute, Look, LockMemory, AddTuple,
         ClearPrecomputing, controlVars
    <3>3. ASSUME NEW w \in Transfer, TransferStep(w)
          PROVE  UNCHANGED doubled
      BY <3>3 DEF TransferStep, CheckActive, FindSeed, Take, Send, controlVars
    <3>4. CASE IoStep \/ PeerStep
      BY <1>2, <3>4
      DEF IoStep, PeerStep, Flush, Continue, PeerRead, SendCommand,
         workerVars, controlVars
    <3>5. CASE UNCHANGED vars
      BY <3>5 DEF vars, workerVars, controlVars
    <3> QED
      BY <1>2, <3>1, <3>2, <3>3, <3>4, <3>5 DEF Next
  <2> QED
    BY <2>1
<1> QED
  BY <1>1, <1>2

(* QueueInv is inductive. *)
LEMMA QueueNext ==
  ASSUME WorkerInv, QueueInv, [Next]_vars
  PROVE  QueueInv'
<1>1. /\ want \in [Producer -> 0 .. MaxWord] /\ first \in [Producer -> Nat] /\ Wanting
      /\ MaxWord \in Nat
  BY WorkerWordAssumption DEF WorkerInv, WorkerTypes, WorkerTypeOK
<1>2. OneByOne'
  <2> SUFFICES ASSUME ~Cuda
               PROVE  \A p \in Producer : want'[p] <= 1 /\ first'[p] = 0
    BY DEF OneByOne
  <2>1. \A p \in Producer : want[p] <= 1 /\ first[p] = 0
    BY DEF QueueInv, OneByOne
  <2>2. ASSUME UNCHANGED <<want, first>>
        PROVE  \A p \in Producer : want'[p] <= 1 /\ first'[p] = 0
    BY <2>1, <2>2
  <2>3. ASSUME NEW p \in Producer, Look(p)
        PROVE  \A q \in Producer : want'[q] <= 1 /\ first'[q] = 0
    BY <1>1, <2>1, <2>3 DEF Look
  <2>4. ASSUME NEW p \in Producer, AddTuple(p)
        PROVE  \A q \in Producer : want'[q] <= 1 /\ first'[q] = 0
    <3>1. want[p] = 1
      BY <1>1, <2>1, <2>4 DEF AddTuple, Wanting
    <3> QED
      BY <1>1, <2>1, <2>4, <3>1 DEF AddTuple
  <2>5. ASSUME NEW p \in Producer, PrecomputeStep(p)
        PROVE  \A q \in Producer : want'[q] <= 1 /\ first'[q] = 0
    BY <2>2, <2>3, <2>4, <2>5
    DEF PrecomputeStep, Precompute, LockMemory, ClearPrecomputing
  <2>6. CASE ConstructStep
    BY <2>2, <2>6 DEF ConstructStep, Construct, producerVars
  <2>7. ASSUME NEW w \in Transfer, TransferStep(w)
        PROVE  \A q \in Producer : want'[q] <= 1 /\ first'[q] = 0
    BY <2>2, <2>7
    DEF TransferStep, CheckActive, FindSeed, Take, Send, producerVars
  <2>8. CASE IoStep \/ PeerStep
    BY <2>2, <2>8
    DEF IoStep, PeerStep, HandleCommand, Flush, Continue, PeerRead,
       SendCommand, workerVars, producerVars
  <2>9. CASE UNCHANGED vars
    BY <2>2, <2>9 DEF vars, workerVars, producerVars
  <2> QED
    BY <2>5, <2>6, <2>7, <2>8, <2>9 DEF Next
<1>3. ASSUME ~doubled'
      PROVE  OrderInv'
  <2>1. ~doubled /\ WorkerTypes /\ OneByOne /\ Single /\ RoomInv /\ OrderInv
    BY <1>3, DoubledForGood DEF QueueInv, WorkerInv, FillInv
  <2>2. ASSUME NEW p \in Producer, AddTuple(p)
        PROVE  OrderInv'
    BY <2>1, <2>2, OrderByAdd
  <2>3. ASSUME NEW w \in Transfer, Take(w)
        PROVE  OrderInv'
    BY <2>1, <2>3, OrderByTake
  <2>4. ASSUME UNCHANGED <<memoryVars, handed, made>>
        PROVE  OrderInv'
    BY <2>1, <2>4 DEF OrderInv, Shown, memoryVars
  <2> QED
    BY <2>2, <2>3, <2>4, OtherSteps
<1> QED
  BY <1>2, <1>3 DEF QueueInv

\* What the queue of SeedQueue is, and what was handed out, as it shows them.
Waiting ==
  [i \in 1 .. availableSeeds |-> Shown(slot[(currentSeed + i - 1) % MaxSeeds])]

Given == [i \in 1 .. Len(handed) |-> Shown(handed[i])]

\* The memory shows the tuples behind the last one that was handed out.
ShowsRun == ~doubled => Waiting = Run(Len(handed), availableSeeds)

(* QueueInv says so. *)
LEMMA WaitingIsRun == WorkerInv /\ QueueInv => ShowsRun
<1> SUFFICES ASSUME WorkerInv, ~doubled, OrderInv
             PROVE  Waiting = Run(Len(handed), availableSeeds)
  BY DEF QueueInv, ShowsRun
<1>1. /\ MaxSeeds \in Nat \ {0} /\ currentSeed \in 0 .. MaxSeeds-1
      /\ availableSeeds \in 0 .. MaxSeeds /\ Len(handed) \in Nat
  <2>1. 1 \in Producer
    BY DEF Producer
  <2>2. want[1] + availableSeeds <= MaxSeeds /\ want[1] \in 0 .. MaxWord
    BY <2>1 DEF WorkerInv, FillInv, RoomInv, WorkerTypes, WorkerTypeOK
  <2> QED
    BY <2>2, WorkerSeedsAssumption, WorkerWordAssumption
    DEF WorkerInv, WorkerTypes, WorkerTypeOK
<1>2. ASSUME NEW i \in 1 .. availableSeeds
      PROVE  Shown(slot[(currentSeed + i - 1) % MaxSeeds]) = Named(Len(handed) + i)
  <2>1. i - 1 \in 0 .. availableSeeds-1 /\ i - 1 \in 0 .. MaxSeeds
    BY <1>1
  <2>2. currentSeed + i - 1 = currentSeed + (i - 1) /\ Len(handed) + 1 + (i - 1) = Len(handed) + i
    BY <1>1
  <2>3. (currentSeed + (i - 1)) % MaxSeeds = At(MaxSeeds, currentSeed, i - 1)
    BY <1>1, <2>1, AtRemainder
  <2>4. Shown(slot[At(MaxSeeds, currentSeed, i - 1)]) = Named(Len(handed) + 1 + (i - 1))
    BY <2>1 DEF OrderInv
  <2> QED
    BY <2>2, <2>3, <2>4
<1> QED
  BY <1>2 DEF Waiting, Run

(* A tuple that is handed out is one more of them. *)
LEMMA GivenAppend ==
  ASSUME NEW tuple \in Tuple, handed \in Seq(Tuple), handed' = Append(handed, tuple)
  PROVE  /\ Len(handed)' = Len(handed) + 1
         /\ Given' = Append(Given, Shown(tuple))
<1>1. /\ Len(handed) \in Nat
      /\ handed' \in Seq(Tuple) /\ Len(handed') = Len(handed) + 1
      /\ \A i \in 1 .. Len(handed) : handed'[i] = handed[i] /\ handed[i] \in Tuple
      /\ handed'[Len(handed) + 1] = tuple
  BY AppendProperties
<1>2. \A t \in Tuple : Shown(t) \in Tuple
  BY DEF Shown, Tuple
<1>3. /\ Given \in Seq(Tuple) /\ Len(Given) = Len(handed)
      /\ \A i \in 1 .. Len(handed) : Given[i] = Shown(handed[i])
  <2>1. \A i \in 1 .. Len(handed) : Shown(handed[i]) \in Tuple
    BY <1>1, <1>2
  <2> QED
    BY <1>1, <2>1 DEF Given
<1>4. /\ Given' \in Seq(Tuple) /\ Len(Given') = Len(handed')
      /\ \A i \in 1 .. Len(handed') : Given'[i] = Shown(handed'[i])
  <2>1. \A i \in 1 .. Len(handed') : Shown(handed'[i]) \in Tuple
    BY <1>1, <1>2
  <2>2. Given' = [i \in 1 .. Len(handed') |-> Shown(handed'[i])]
    BY DEF Given, Shown
  <2> QED
    BY <1>1, <2>1, <2>2
<1> DEFINE longer == Append(Given, Shown(tuple))
<1>5. Shown(tuple) \in Tuple
  BY <1>2
<1>6. /\ longer \in Seq(Tuple) /\ Len(longer) = Len(handed) + 1
      /\ \A i \in 1 .. Len(handed) : longer[i] = Given[i]
      /\ longer[Len(handed) + 1] = Shown(tuple)
  BY <1>3, <1>5, AppendProperties
<1>7. ASSUME NEW i \in 1 .. Len(Given')
      PROVE  Given'[i] = longer[i]
  <2>1. i \in 1 .. Len(handed') /\ (i \in 1 .. Len(handed) \/ i = Len(handed) + 1)
    BY <1>1, <1>4
  <2> QED
    BY <1>1, <1>3, <1>4, <1>6, <2>1
<1>8. Given' = longer
  BY <1>1, <1>4, <1>6, <1>7, SeqEqual
<1> QED
  BY <1>1, <1>8

(* Every step of the worker is a step of the queue or none. *)
LEMMA StepIsQueueStep ==
  ASSUME WorkerInv, WorkerInv', QueueInv, ShowsRun, ShowsRun', [Next]_vars
  PROVE  [Queue!Next]_(Queue!vars)
<1>1. CASE doubled'
  BY <1>1 DEF Queue!Next
<1> SUFFICES ASSUME ~doubled'
             PROVE  [Queue!Next]_(Queue!vars)
  BY <1>1
<1>2. ~doubled
  BY DoubledForGood
<1>3. WorkerTypes /\ OneByOne /\ Single /\ RoomInv /\ OrderInv
  BY <1>2 DEF QueueInv, WorkerInv, FillInv
<1> DEFINE H == Len(handed)
           A == availableSeeds
<1>4. /\ H \in Nat /\ A \in Nat /\ handed \in Seq(Tuple)
      /\ slot[currentSeed] \in Tuple /\ Len(Given) = H
  BY <1>3, WorkerWordAssumption DEF WorkerTypes, WorkerTypeOK, Given
<1>5. Waiting = Run(H, A)
  BY <1>2 DEF ShowsRun
<1>6. Waiting' = Run(H', A')
  BY DEF ShowsRun
<1>7. doubled' = doubled
  <2>1. doubled \in BOOLEAN
    BY <1>3 DEF WorkerTypes, WorkerTypeOK
  <2>2. doubled' \in BOOLEAN
    BY DEF WorkerInv, WorkerTypes, WorkerTypeOK
  <2> QED
    BY Zenon, <1>2, <2>1, <2>2
<1>8. CASE UNCHANGED <<memoryVars, handed, made>>
  <2>1. Waiting' = Waiting /\ Given' = Given
    BY <1>8 DEF Waiting, Given, Shown, memoryVars
  <2> QED
    BY <1>7, <2>1 DEF Queue!vars, Waiting, Given
<1>9. ASSUME NEW w \in Transfer, Take(w)
      PROVE  [Queue!Next]_(Queue!vars)
  <2>1. /\ A > 0 /\ A' = A - 1 /\ handed' = Append(handed, slot[currentSeed])
        /\ Shown(slot[currentSeed]) = Named(H + 1)
    BY <1>2, <1>3, <1>9, OrderByTake
  <2>2. H' = H + 1 /\ Given' = Append(Given, Named(H + 1))
    BY <1>4, <2>1, GivenAppend
  <2>3. Waiting # <<>> /\ Head(Waiting) = Named(H + 1) /\ Tail(Waiting) = Waiting'
    <3>1. /\ Run(H, A) # <<>> /\ Head(Run(H, A)) = Named(H + 1)
          /\ Tail(Run(H, A)) = Run(H + 1, A - 1)
      BY <1>4, <2>1, RunTail
    <3> QED
      BY <1>5, <1>6, <2>1, <2>2, <3>1
  <2>4. Queue!Take
    BY <1>2, <2>2, <2>3 DEF Queue!Take, Waiting, Given
  <2> QED
    BY <1>7, <2>4 DEF Queue!Next
<1>10. ASSUME NEW p \in Producer, AddTuple(p)
      PROVE  [Queue!Next]_(Queue!vars)
  <2>1. handed' = handed /\ A < MaxSeeds /\ A' = A + 1
    BY <1>2, <1>3, <1>10, OrderByAdd
  <2>2. Waiting' = Append(Waiting, Named(H + A + 1)) /\ Len(Waiting) = A
    <3>1. /\ Append(Run(H, A), Named(H + A + 1)) = Run(H, A + 1)
          /\ Len(Run(H, A)) = A
      BY <1>4, RunAppend, RunShape
    <3> QED
      BY <1>5, <1>6, <2>1, <3>1
  <2>3. Given' = Given
    BY <2>1 DEF Given, Shown
  <2>4. Queue!NextTuple = Named(H + A + 1)
    BY <1>2, <1>4, <2>2 DEF Queue!NextTuple, Named, Waiting, Given
  <2>5. Queue!Put
    BY <1>2, <2>1, <2>2, <2>3, <2>4 DEF Queue!Put, Waiting, Given
  <2> QED
    BY <1>7, <2>5 DEF Queue!Next
<1> QED
  BY <1>8, <1>9, <1>10, OtherSteps

(***************************************************************************)
(* The memory of a worker is a bounded queue: every tuple that precompute  *)
(* makes is handed to the connection exactly once and in order, in the CPU *)
(* build with its own value, for every capacity and any number of commands *)
(* and batches, as long as one transfer thread at a time takes tuples.     *)
(***************************************************************************)
THEOREM TransferImplementsQueue == Spec => ImplementsQueue
<1>1. Init => Queue!Init /\ QueueInv
  <2> SUFFICES ASSUME Init
               PROVE  Queue!Init /\ QueueInv
    OBVIOUS
  <2>1. /\ availableSeeds = 0 /\ handed = <<>> /\ ~doubled /\ made = 0
        /\ currentSeed = 0 /\ currentPreSeed = 0
        /\ \A p \in Producer : want[p] = 0 /\ first[p] = 0
    BY DEF Init, WorkerInit
  <2>2. Waiting = <<>> /\ Given = <<>>
    BY <2>1 DEF Waiting, Given
  <2>3. At(MaxSeeds, currentSeed, 0) = 0
    BY <2>1, WorkerSeedsAssumption DEF At
  <2>4. OneByOne /\ OrderInv
    BY <2>1, <2>3 DEF OneByOne, OrderInv
  <2> QED
    BY <2>1, <2>2, <2>4 DEF Queue!Init, QueueInv, Waiting, Given
<1>2. WorkerInv /\ QueueInv /\ [Next]_vars => QueueInv'
  BY QueueNext
<1>3. WorkerInv /\ QueueInv => ShowsRun
  BY WaitingIsRun
<1>4. WorkerInv /\ WorkerInv' /\ QueueInv /\ ShowsRun /\ ShowsRun' /\ [Next]_vars
        => [Queue!Next]_(Queue!vars)
  BY StepIsQueueStep
<1> QED
  BY <1>1, <1>2, <1>3, <1>4, WorkerInvariant, PTL
  DEF Spec, ImplementsQueue, Queue!Spec
=============================================================================

---------------------------- MODULE CenterWorker ----------------------------
(***************************************************************************)
(* A worker of the central server (RAID_pirCenterWorker): the tuples it    *)
(* precomputes for one peer server, the thread that fills its memory, the  *)
(* threads that take tuples out and hand them to the connection, and the   *)
(* start and stop commands of the peer, which the io_service thread        *)
(* handles.                                                                *)
(*                                                                         *)
(* Everything that nextSeed and precompute do under the mutex is done by   *)
(* its owner alone, so nextSeed is one step and a tuple is added in one    *)
(* step.  Read without the mutex are availableSeeds (to wait, and to see   *)
(* how many tuples are missing), active and precomputing.                  *)
(***************************************************************************)
EXTENDS Integers, Sequences

CONSTANTS
  MaxSeeds,  \* NUMBER_SEEDS
  Cuda,      \* whether USE_CUDA is defined
  MaxWord,   \* the largest uint32_t
  Transfers, \* bound: how many transfer threads run at once
  Commands,  \* bound: how many commands the peer sends
  MaxTuples  \* bound: no transfer thread asks for more tuples than that

ASSUME WorkerSeedsAssumption == MaxSeeds \in Nat \ {0}
ASSUME WorkerWordAssumption  == MaxWord \in Nat /\ MaxSeeds < MaxWord
ASSUME CudaAssumption        == Cuda \in BOOLEAN
ASSUME WorkerBounds == {Transfers, Commands, MaxTuples} \subseteq Nat

Transfer == 1 .. Transfers

\* More than one thread runs precompute only if precomputing fails to say so.
Producer == 1 .. 2

VARIABLES
  constructed,    \* the constructor has returned
  precomputing,
  active,
  availableSeeds,
  currentSeed,
  currentPreSeed,
  slot,           \* precomputedSeeds
  producer,       \* what each thread of precompute does next
  want,           \* how many tuples it has still to add
  first,          \* the first seed of its batch, 0 when it has none
  made,           \* history: how many seeds were drawn
  transfer,       \* what each transfer thread does next
  buffer,         \* its buffer seed; NoTuple when it is not allocated
  handed,         \* history: the tuples nextSeed returned
  commands,       \* what the peer has sent and is not handled yet
  starts, stops,  \* how many commands of each kind the peer has sent
  doubled,        \* history: a transfer thread was started beside another
  missed          \* history: the last tuple was taken while precomputing was
                  \* still set although its thread had looked for the last time

memoryVars   == <<availableSeeds, currentSeed, currentPreSeed, slot>>
producerVars == <<producer, want, first, made>>
controlVars  == <<active, commands, starts, stops, doubled>>
workerVars   == <<constructed, precomputing, memoryVars, producerVars,
                  transfer, buffer, handed, controlVars, missed>>

Tuple == [seed : Nat, value : Nat]

NoTuple == [seed |-> 0, value |-> 0]

Word(n) == n % (MaxWord + 1)

\* MUTANT: a pointer is not set back at the end of the memory.
SuccessorUnwrapped(i) == i + 1

Successor(i) == IF i + 1 = MaxSeeds THEN 0 ELSE i + 1

WorkerTypeOK ==
  /\ constructed \in BOOLEAN /\ precomputing \in BOOLEAN /\ active \in BOOLEAN
  /\ availableSeeds \in 0 .. MaxWord
  /\ currentSeed \in 0 .. MaxSeeds-1 /\ currentPreSeed \in 0 .. MaxSeeds-1
  /\ slot \in [0 .. MaxSeeds-1 -> Tuple]
  /\ producer \in [Producer -> {"idle", "look", "lock", "add", "flag"}]
  /\ want \in [Producer -> 0 .. MaxWord] /\ first \in [Producer -> Nat]
  /\ made \in Nat
  /\ transfer \in [Transfer -> {"idle", "check", "poll", "take", "send"}]
  /\ buffer \in [Transfer -> Tuple]
  /\ handed \in Seq(Tuple)
  /\ commands \in Seq({"start", "stop"}) /\ starts \in Nat /\ stops \in Nat
  /\ doubled \in BOOLEAN /\ missed \in BOOLEAN

\* The constructor has started the first thread of precompute.
WorkerInit ==
  /\ constructed = FALSE
  /\ precomputing = FALSE
  /\ active = FALSE
  /\ availableSeeds = 0
  /\ currentSeed = 0
  /\ currentPreSeed = 0
  /\ slot = [i \in 0 .. MaxSeeds-1 |-> NoTuple]
  /\ producer = [p \in Producer |-> IF p = 1 THEN "look" ELSE "idle"]
  /\ want = [p \in Producer |-> 0]
  /\ first = [p \in Producer |-> 0]
  /\ made = 0
  /\ transfer = [w \in Transfer |-> "idle"]
  /\ buffer = [w \in Transfer |-> NoTuple]
  /\ handed = <<>>
  /\ commands = <<>>
  /\ starts = 0
  /\ stops = 0
  /\ doubled = FALSE
  /\ missed = FALSE

\* The last statement of the constructor.
Construct ==
  /\ ~constructed
  /\ constructed' = TRUE
  /\ precomputing' = TRUE
  /\ UNCHANGED <<memoryVars, producerVars, transfer, buffer, handed,
                 controlVars, missed>>

-----------------------------------------------------------------------------
\* precompute
Held == \E p \in Producer : producer[p] = "add"

\* MUTANT: one tuple more than is missing.
LookOneMore(p) ==
  /\ producer[p] = "look"
  /\ producer' = [producer EXCEPT ![p] = "lock"]
  /\ want' = [want EXCEPT ![p] = Word(MaxSeeds - availableSeeds + 1)]
  /\ UNCHANGED <<constructed, precomputing, memoryVars, first, made, transfer,
                 buffer, handed, controlVars, missed>>

\* seedsToCompute, or the condition of the loop in the CPU build.
Look(p) ==
  LET missing == IF Cuda THEN Word(MaxSeeds - availableSeeds)
                 ELSE IF availableSeeds < MaxSeeds THEN 1 ELSE 0
  IN
  /\ producer[p] = "look"
  /\ producer' = [producer EXCEPT ![p] = IF Cuda \/ missing = 1 THEN "lock"
                                                                ELSE "flag"]
  /\ want' = [want EXCEPT ![p] = missing]
  /\ UNCHANGED <<constructed, precomputing, memoryVars, first, made, transfer,
                 buffer, handed, controlVars, missed>>

\* What a thread does when it has added what it wanted.
Behind == IF Cuda THEN "flag" ELSE "look"

LockMemory(p) ==
  /\ producer[p] = "lock"
  /\ ~Held
  /\ producer' = [producer EXCEPT ![p] = IF want[p] = 0 THEN Behind ELSE "add"]
  /\ UNCHANGED <<constructed, precomputing, memoryVars, want, first, made,
                 transfer, buffer, handed, controlVars, missed>>

\* One tuple of the batch; in the CUDA build every tuple of a batch gets the
\* value of the first one.  The mutex is released after the last.
AddTuple(p) ==
  LET head == IF first[p] = 0 THEN made + 1 ELSE first[p]
      last == want[p] = 1
  IN
  /\ producer[p] = "add"
  /\ made' = made + 1
  /\ slot' = [slot EXCEPT ![currentPreSeed] = [seed |-> made', value |-> head]]
  /\ availableSeeds' = Word(availableSeeds + 1)
  /\ currentPreSeed' = Successor(currentPreSeed)
  /\ want' = [want EXCEPT ![p] = @ - 1]
  /\ first' = [first EXCEPT ![p] = IF last THEN 0 ELSE head]
  /\ producer' = [producer EXCEPT ![p] = IF last THEN Behind ELSE "add"]
  /\ UNCHANGED <<constructed, precomputing, currentSeed, transfer, buffer,
                 handed, controlVars, missed>>

\* MUTANT: the thread goes on as if it had not ended.
ClearPrecomputingEarly(p) ==
  /\ producer[p] = "flag"
  /\ precomputing' = FALSE
  /\ producer' = [producer EXCEPT ![p] = "look"]
  /\ UNCHANGED <<constructed, memoryVars, want, first, made, transfer, buffer,
                 handed, controlVars, missed>>

\* precomputing = false, behind the loop and without the mutex.
ClearPrecomputing(p) ==
  /\ producer[p] = "flag"
  /\ precomputing' = FALSE
  /\ producer' = [producer EXCEPT ![p] = "idle"]
  /\ UNCHANGED <<constructed, memoryVars, want, first, made, transfer, buffer,
                 handed, controlVars, missed>>

Precompute(p) ==
  Look(p) \/ LockMemory(p) \/ AddTuple(p) \/ ClearPrecomputing(p)

-----------------------------------------------------------------------------
\* transfer and nextSeed
MoveTransfer(w, from, to) ==
  /\ transfer[w] = from
  /\ transfer' = [transfer EXCEPT ![w] = to]

\* MUTANT: a tuple is sent before the first one is taken.
CheckActiveToSend(w) ==
  /\ active /\ Len(handed) < MaxTuples
  /\ MoveTransfer(w, "check", "send")
  /\ UNCHANGED <<constructed, precomputing, memoryVars, producerVars, buffer,
                 handed, controlVars, missed>>

\* while (active); the buffer is freed behind the loop.
CheckActive(w) ==
  /\ \/ /\ active
        /\ Len(handed) < MaxTuples
        /\ MoveTransfer(w, "check", "poll")
        /\ UNCHANGED buffer
     \/ /\ ~active
        /\ MoveTransfer(w, "check", "idle")
        /\ buffer' = [buffer EXCEPT ![w] = NoTuple]
  /\ UNCHANGED <<constructed, precomputing, memoryVars, producerVars, handed,
                 controlVars, missed>>

\* The polling loop of nextSeed.
FindSeed(w) ==
  /\ availableSeeds # 0
  /\ MoveTransfer(w, "poll", "take")
  /\ UNCHANGED <<constructed, precomputing, memoryVars, producerVars, buffer,
                 handed, controlVars, missed>>

\* MUTANT: the comparison is the wrong way round.
FewLeftSwapped(n) == n > MaxSeeds \div 2

FewLeft(n) == n <= MaxSeeds \div 2

\* t1 = new boost::thread(precomputeSeeds, this)
Relaunch ==
  \/ /\ ~precomputing /\ FewLeft(availableSeeds')
     /\ precomputing' = TRUE
     /\ \E p \in Producer :
          /\ producer[p] = "idle"
          /\ \A q \in Producer : producer[q] = "idle" => p <= q
          /\ producer' = [producer EXCEPT ![p] = "look"]
  \/ /\ precomputing \/ ~FewLeft(availableSeeds')
     /\ UNCHANGED <<precomputing, producer>>

\* nextSeed from lock to unlock.
Take(w) ==
  /\ MoveTransfer(w, "take", "send")
  /\ ~Held
  /\ buffer' = [buffer EXCEPT ![w] = slot[currentSeed]]
  /\ handed' = Append(handed, slot[currentSeed])
  /\ availableSeeds' = Word(availableSeeds - 1)
  /\ currentSeed' = Successor(currentSeed)
  /\ Relaunch
  /\ missed' = (missed \/ ( /\ availableSeeds' = 0 /\ precomputing
                            /\ \A p \in Producer :
                                 producer[p] \in {"idle", "flag"} ))
  /\ UNCHANGED <<constructed, currentPreSeed, slot, want, first, made,
                 controlVars>>

-----------------------------------------------------------------------------
\* The peer sends start when a thread of its precompute begins and stop when
\* that thread has filled the peer's memory; two such threads may overlap.
SendCommand(c) ==
  /\ starts + stops < Commands
  /\ \/ c = "start" /\ starts' = starts + 1 /\ UNCHANGED stops
     \/ c = "stop" /\ stops < starts /\ stops' = stops + 1 /\ UNCHANGED starts
  /\ commands' = Append(commands, c)
  /\ UNCHANGED <<constructed, precomputing, memoryVars, producerVars, transfer,
                 buffer, handed, active, doubled, missed>>

\* setActive.  To interrupt the thread has no effect, because transfer has no
\* interruption point.  When Transfers threads are running the model stops
\* here, where the code starts another.
SetActive(val) ==
  /\ active' = val
  /\ \/ /\ val /\ ~active
        /\ \E w \in Transfer :
             /\ transfer[w] = "idle"
             /\ \A v \in Transfer : transfer[v] = "idle" => w <= v
             /\ transfer' = [transfer EXCEPT ![w] = "check"]
        /\ doubled' = (doubled \/ \E v \in Transfer : transfer[v] # "idle")
     \/ /\ ~val \/ active
        /\ UNCHANGED <<transfer, doubled>>

\* readHandler: the io_service finds the worker once it is constructed.
HandleCommand ==
  /\ constructed
  /\ commands # <<>>
  /\ commands' = Tail(commands)
  /\ SetActive(Head(commands) = "start")
  /\ UNCHANGED <<constructed, precomputing, memoryVars, producerVars, buffer,
                 handed, starts, stops, missed>>
=============================================================================

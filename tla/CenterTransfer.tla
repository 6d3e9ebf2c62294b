--------------------------- MODULE CenterTransfer ---------------------------
(***************************************************************************)
(* A worker of the central server with its connection to the peer server.  *)
(* send starts an asynchronous write of the caller's buffer and returns:   *)
(* what the socket does not accept at once is written by the io_service    *)
(* thread later, from the buffer as it is then.  A write that the socket   *)
(* accepts in part is continued by a further write, behind the writes that *)
(* were started in between.                                                *)
(*                                                                         *)
(* A tuple is two halves, its seed and its value; the socket accepts whole *)
(* halves.                                                                 *)
(***************************************************************************)
EXTENDS CenterWorker

CONSTANT Window \* how many halves are accepted before the peer reads

ASSUME WindowAssumption == Window \in Nat \ {0}

VARIABLES
  stream,   \* everything the socket accepted so far
  read,     \* how much of it the peer has read
  waiting,  \* writes that wait until the socket accepts more, in order
  resumed,  \* writes accepted in part, to be continued by the io_service
  deferred  \* history: a write was not accepted as a whole at once

socketVars == <<stream, read, waiting, resumed, deferred>>
vars == <<workerVars, socketVars>>

Half == [half : {"seed", "value"}, n : Nat]

\* A write of the buffer of thread "of", of which "sent" halves are accepted.
Write == [of : Transfer, sent : 0 .. 1]

TypeOK ==
  /\ WorkerTypeOK
  /\ stream \in Seq(Half) /\ read \in 0 .. Len(stream)
  /\ Len(stream) - read <= Window
  /\ waiting \in Seq(Write) /\ resumed \in Seq(Write)
  /\ deferred \in BOOLEAN

Init ==
  /\ WorkerInit
  /\ stream = <<>>
  /\ read = 0
  /\ waiting = <<>>
  /\ resumed = <<>>
  /\ deferred = FALSE

-----------------------------------------------------------------------------
Room == Window - (Len(stream) - read)

HalfOf(tuple, k) == [half |-> IF k = 1 THEN "seed" ELSE "value",
                     n    |-> IF k = 1 THEN tuple.seed ELSE tuple.value]

\* How many halves of a write the socket accepts now.
Accepted(write) == IF Room < 2 - write.sent THEN Room ELSE 2 - write.sent

\* The socket accepts what it can; "others" are the writes to be continued.
Accept(write, others) ==
  LET n == Accepted(write) IN
  /\ stream' = stream \o [i \in 1 .. n |->
                            HalfOf(buffer[write.of], write.sent + i)]
  /\ resumed' = IF write.sent + n = 2 THEN others
                ELSE Append(others, [write EXCEPT !.sent = @ + n])

\* A write is tried at once unless other writes wait already.
StartWrite(write, others) ==
  \/ /\ waiting = <<>> /\ Room > 0
     /\ Accept(write, others)
     /\ UNCHANGED waiting
  \/ /\ waiting # <<>> \/ Room = 0
     /\ waiting' = Append(waiting, write)
     /\ resumed' = others
     /\ UNCHANGED stream

\* sendTuple.
Send(w) ==
  /\ MoveTransfer(w, "send", "check")
  /\ StartWrite([of |-> w, sent |-> 0], resumed)
  /\ deferred' = (deferred \/ Len(stream') < Len(stream) + 2)
  /\ UNCHANGED <<constructed, precomputing, memoryVars, producerVars, buffer,
                 handed, controlVars, missed, read>>

\* The io_service thread: the socket accepts more, or a write is continued.
Flush ==
  /\ waiting # <<>> /\ Room > 0
  /\ waiting' = Tail(waiting)
  /\ Accept(Head(waiting), resumed)
  /\ UNCHANGED <<workerVars, read, deferred>>

Continue ==
  /\ resumed # <<>>
  /\ StartWrite(Head(resumed), Tail(resumed))
  /\ UNCHANGED <<workerVars, read, deferred>>

PeerRead ==
  /\ read' \in read + 1 .. Len(stream)
  /\ UNCHANGED <<workerVars, stream, waiting, resumed, deferred>>

-----------------------------------------------------------------------------
PrecomputeStep(p) == Precompute(p) /\ UNCHANGED socketVars

TransferStep(w) ==
  \/ (CheckActive(w) \/ FindSeed(w) \/ Take(w)) /\ UNCHANGED socketVars
  \/ Send(w)

IoStep == (HandleCommand /\ UNCHANGED socketVars) \/ Flush \/ Continue

ConstructStep == Construct /\ UNCHANGED socketVars

PeerStep ==
  \/ PeerRead
  \/ \E c \in {"start", "stop"} : SendCommand(c) /\ UNCHANGED socketVars

Next ==
  \/ ConstructStep \/ IoStep \/ PeerStep
  \/ \E p \in Producer : PrecomputeStep(p)
  \/ \E w \in Transfer : TransferStep(w)

Spec == Init /\ [][Next]_vars

\* Every thread is scheduled and the peer reads; it need not send commands.
Fairness ==
  /\ WF_vars(ConstructStep) /\ WF_vars(IoStep) /\ WF_vars(PeerRead)
  /\ \A p \in Producer : WF_vars(PrecomputeStep(p))
  /\ \A w \in Transfer : WF_vars(TransferStep(w))

FairSpec == Spec /\ Fairness

-----------------------------------------------------------------------------
(***************************************************************************)
(* At most one thread runs precompute (they would draw from one generator  *)
(* and pass the end of the memory), although precomputing is set after a   *)
(* thread was started and reset without the mutex.                         *)
(***************************************************************************)
OneProducer ==
  \A p, q \in Producer : producer[p] # "idle" /\ producer[q] # "idle" => p = q

(***************************************************************************)
(* As long as one transfer thread at a time takes tuples the memory        *)
(* implements SeedQueue.  In the CUDA build only the seeds are looked at:  *)
(* there every tuple of a batch carries the value of the first one.        *)
(***************************************************************************)
Shown(tuple) ==
  IF Cuda THEN [seed |-> tuple.seed, value |-> tuple.seed] ELSE tuple

Queue == INSTANCE SeedQueue WITH
  queue <- IF doubled THEN <<>>
           ELSE [i \in 1 .. availableSeeds |->
                   Shown(slot[(currentSeed + i - 1) % MaxSeeds])],
  handed <- [i \in 1 .. Len(handed) |-> Shown(handed[i])],
  degraded <- doubled

ImplementsQueue == Queue!Spec

(***************************************************************************)
(* What the peer receives are the tuples taken from the memory, whole and  *)
(* in order, as long as the socket accepts every tuple at once.            *)
(***************************************************************************)
InOrder ==
  \A i \in 1 .. Len(stream) :
    /\ (i + 1) \div 2 <= Len(handed)
    /\ stream[i] = HalfOf(handed[(i + 1) \div 2], 2 - (i % 2))

StreamIntact == ~deferred /\ ~doubled => InOrder

(***************************************************************************)
(* A transfer thread that waits at an empty memory does not wait in vain,  *)
(* except when the memory was emptied while precomputing was stale (set    *)
(* although its thread had looked at the memory for the last time) or when *)
(* two transfer threads may have counted it below zero.                    *)
(***************************************************************************)
Starving == \E w \in Transfer : transfer[w] = "poll" /\ availableSeeds = 0

SomeThreadFills ==
  Starving /\ ~missed /\ ~doubled
    => \E p \in Producer : producer[p] = "look" \/ want[p] > 0

(***************************************************************************)
(* Then every transfer thread gets its tuple.                              *)
(***************************************************************************)
TransfersGoOn ==
  [](~missed /\ ~doubled)
    => \A w \in Transfer : transfer[w] = "poll" ~> transfer[w] # "poll"

(***************************************************************************)
(* sendTuple "Sends a tuple to the peer server"                            *)
(* (RAID_pirCenterWorker.h:102): while one transfer thread takes tuples,   *)
(* two consecutive halves on the connection are the seed and the value of  *)
(* a tuple taken from the memory, in the order in which they were taken.   *)
(***************************************************************************)
SendsTuples == ~doubled => InOrder

(***************************************************************************)
(* "max number of seeds during precomputation" (parameters.h:87).          *)
(***************************************************************************)
SeedsBounded == availableSeeds <= MaxSeeds
=============================================================================

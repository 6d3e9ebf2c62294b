------------------------------ MODULE PeerLink ------------------------------
(***************************************************************************)
(* The seed memory filled by precompute as it is built with                *)
(* USE_PRECOMPUTATION_SERVER: a thread tells the central server to start,  *)
(* reads tuples from the socket while it holds the mutex, and tells it to  *)
(* stop when the memory is full.                                           *)
(*                                                                         *)
(* The central server is what CenterTransfer shows of it while no write is *)
(* deferred: it sends one tuple after the other while it is active, here   *)
(* 1, 2, 3, ...  The connection may end at any time.                       *)
(*                                                                         *)
(* Unlike PeerPoolCpu, what a thread does between a lock and an unlock,    *)
(* but for waiting in a read, is one step: the others read the counter and *)
(* threadTerminated without the mutex, but each is written once there.     *)
(* What is said of the model ends when the mutex is broken, or when a read *)
(* has taken a part of a tuple and the next one begins within it.          *)
(***************************************************************************)
EXTENDS PeerPool

CONSTANTS
  Window,   \* bound: the tuples, or commands, that are under way at once
  MayFail   \* whether the connection to the central server may end

ASSUME WindowAssumption == Window \in Nat \ {0}
ASSUME FailAssumption   == MayFail \in BOOLEAN

VARIABLES
  up,          \* the connection to the central server
  commands,    \* what the central server has not read yet
  active,      \* whether it sends tuples
  sent,        \* how many it has sent
  stream,      \* those the peer has not read yet
  overlap,     \* history: two threads had started the central server at once
  dropped,     \* history: a read took more than one tuple
  misaligned,  \* history: a read took a part of the next tuple
  failed,      \* history: a read failed
  gaveUp       \* history: a thread returned because it could not write

centerVars  == <<up, commands, active, sent, stream>>
historyVars == <<overlap, dropped, misaligned, failed, gaveUp>>
vars == <<mainVars, poolVars, pc, crashed, broken, centerVars, historyVars>>

\* Between the start command of a thread and its stop command.
Started == {"test", "enter", "receive", "bye"}
Stages  == {"idle", "begin", "hello"} \cup Started \cup {"terminate", "unlock"}

TypeOK ==
  /\ lock \in BOOLEAN /\ threadTerminated \in BOOLEAN
  /\ t1 \in {"valid", "deleted"}
  /\ availableSeeds \in Nat
  /\ currentSeed \in 0 .. MaxSeeds-1 /\ currentPreSeed \in 0 .. MaxSeeds-1
  /\ slot \in [0 .. MaxSeeds-1 -> Tuple]
  /\ main \in {"idle", "wait", "lock", "execute", "relaunch"}
  /\ mainReg = 0 /\ taken = NoTuple /\ handed \in Seq(Tuple)
  /\ pc \in [Thread -> Stages]
  /\ crashed \in BOOLEAN /\ broken \in BOOLEAN
  /\ up \in BOOLEAN /\ active \in BOOLEAN
  /\ commands \in Seq({"start", "stop"})
  /\ sent \in Nat
  /\ stream \in Seq(Nat) /\ Len(stream) <= Window
  /\ {overlap, dropped, misaligned, failed, gaveUp} \subseteq BOOLEAN

Init ==
  /\ PoolInit
  /\ up = TRUE
  /\ commands = <<>>
  /\ active = FALSE
  /\ sent = 0
  /\ stream = <<>>
  /\ overlap = FALSE /\ dropped = FALSE /\ misaligned = FALSE
  /\ failed = FALSE /\ gaveUp = FALSE

-----------------------------------------------------------------------------
\* nextSeed from its lock to its unlock; the counter wraps below zero.
TakeSeed ==
  /\ ~lock
  /\ MoveMain("lock", "execute")
  /\ handed' = Append(handed, slot[currentSeed])
  /\ availableSeeds' = IF availableSeeds = 0 THEN MaxWord ELSE availableSeeds - 1
  /\ currentSeed' = Successor(currentSeed)
  /\ Launch
  /\ UNCHANGED <<mainReg, taken, lock, threadTerminated, currentPreSeed, slot,
                 crashed, broken>>

ClearTerminated(t) ==
  /\ ~lock
  /\ Move(t, "begin", "hello")
  /\ threadTerminated' = FALSE
  /\ UNCHANGED <<mainVars, lock, availableSeeds, currentPreSeed, slot, crashed,
                 broken, centerVars, historyVars>>

\* write_some: what is written to a connection that has ended is lost.
WriteCommand(command) ==
  /\ Len(commands) < Window
  /\ commands' = IF up THEN Append(commands, command) ELSE commands

\* MUTANT: a new thread relies on the one before to have started the server.
HelloSilent(t) ==
  /\ Move(t, "hello", "test")
  /\ overlap' = (overlap \/ \E u \in Thread \ {t} : pc[u] \in Started)
  /\ UNCHANGED <<mainVars, poolVars, crashed, broken, centerVars, dropped,
                 misaligned, failed, gaveUp>>

Hello(t) ==
  /\ Move(t, "hello", "test")
  /\ WriteCommand("start")
  /\ overlap' = (overlap \/ \E u \in Thread \ {t} : pc[u] \in Started)
  /\ UNCHANGED <<mainVars, poolVars, crashed, broken, up, active, sent, stream,
                 dropped, misaligned, failed, gaveUp>>

\* "Problem with sending": the thread returns, and says nothing of its end.
GiveUp(t) ==
  /\ ~up
  /\ Move(t, "hello", "idle") \/ Move(t, "bye", "idle")
  /\ gaveUp' = TRUE
  /\ UNCHANGED <<mainVars, poolVars, crashed, broken, centerVars, overlap,
                 dropped, misaligned, failed>>

\* The condition of the loop, read without the mutex.
TestRoom(t) ==
  /\ \/ availableSeeds < MaxSeeds /\ Move(t, "test", "enter")
     \/ availableSeeds >= MaxSeeds /\ Move(t, "test", "bye")
  /\ UNCHANGED <<mainVars, poolVars, crashed, broken, centerVars, historyVars>>

Enter(t) ==
  /\ Lock(t, "enter", "receive")
  /\ UNCHANGED <<mainVars, threadTerminated, availableSeeds, currentPreSeed,
                 slot, crashed, broken, centerVars, historyVars>>

\* The rest of an iteration behind the read.
CountTuple ==
  /\ availableSeeds' = availableSeeds + 1
  /\ currentPreSeed' = Successor(currentPreSeed)
  /\ lock' = FALSE

\* read with transfer_at_least: a tuple, and what else there is of the next
\* ones; recBuff is new for every read, so the rest is dropped with it.
Receive(t) ==
  /\ Move(t, "receive", "test")
  /\ \E k \in 1 .. Len(stream) :
       /\ slot' = [slot EXCEPT ![currentPreSeed] =
                     [seed |-> stream[1], value |-> stream[1]]]
       /\ stream' = SubSeq(stream, k + 1, Len(stream))
       /\ dropped' = (dropped \/ k > 1)
       /\ misaligned' \in {misaligned, misaligned \/ k < Len(stream)}
  /\ CountTuple
  /\ UNCHANGED <<mainVars, threadTerminated, crashed, broken, up, commands,
                 active, sent, overlap, failed, gaveUp>>

\* MUTANT: a thread returns when its read fails, as after a failed write.
ReceiveFailsReturning(t) ==
  /\ ~up
  /\ Move(t, "receive", "idle")
  /\ stream' = <<>>
  /\ failed' = TRUE
  /\ lock' = FALSE
  /\ UNCHANGED <<mainVars, threadTerminated, availableSeeds, currentPreSeed,
                 slot, crashed, broken, up, commands, active, sent, overlap,
                 dropped, misaligned, gaveUp>>

\* A read that fails counts all the same.  At the end of the stream memory
\* behind recBuff is copied, after another error the old tuple stays.
ReceiveFails(t) ==
  /\ ~up
  /\ Move(t, "receive", "test")
  /\ slot' \in {slot, [slot EXCEPT ![currentPreSeed] = NoTuple]}
  /\ stream' = <<>>
  /\ failed' = TRUE
  /\ CountTuple
  /\ UNCHANGED <<mainVars, threadTerminated, crashed, broken, up, commands,
                 active, sent, overlap, dropped, misaligned, gaveUp>>

Bye(t) ==
  /\ Move(t, "bye", "terminate")
  /\ WriteCommand("stop")
  /\ UNCHANGED <<mainVars, poolVars, crashed, broken, up, active, sent, stream,
                 historyVars>>

\* threadTerminated = true, without the mutex.
SetTerminated(t) ==
  /\ Move(t, "terminate", "unlock")
  /\ threadTerminated' = TRUE
  /\ UNCHANGED <<mainVars, lock, availableSeeds, currentPreSeed, slot, crashed,
                 broken, centerVars, historyVars>>

\* The last unlock of precompute, of a mutex the thread does not hold.
UnlockAgain(t) ==
  /\ Move(t, "unlock", "idle")
  /\ lock' = FALSE
  /\ broken' = (broken \/ lock)
  /\ UNCHANGED <<mainVars, threadTerminated, availableSeeds, currentPreSeed,
                 slot, crashed, centerVars, historyVars>>

Precompute(t) ==
  \/ ClearTerminated(t) \/ Hello(t) \/ GiveUp(t)
  \/ TestRoom(t) \/ Enter(t) \/ Receive(t) \/ ReceiveFails(t) \/ Bye(t)
  \/ SetTerminated(t) \/ UnlockAgain(t)

-----------------------------------------------------------------------------
\* The central server and the connection.
peerVars == <<mainVars, poolVars, pc, crashed, broken, historyVars>>

HandleCommand ==
  /\ up /\ commands # <<>>
  /\ active' = (Head(commands) = "start")
  /\ commands' = Tail(commands)
  /\ UNCHANGED <<peerVars, up, sent, stream>>

SendTuple ==
  /\ up /\ active
  /\ Len(stream) < Window
  /\ stream' = Append(stream, sent + 1)
  /\ sent' = sent + 1
  /\ UNCHANGED <<peerVars, up, commands, active>>

CenterStep == HandleCommand \/ SendTuple

Disconnect ==
  /\ MayFail /\ up
  /\ up' = FALSE
  /\ commands' = <<>> /\ active' = FALSE /\ sent' = 0
  /\ UNCHANGED <<peerVars, stream>>

ClientStep == StartSession /\ UNCHANGED <<centerVars, historyVars>>

MainStep ==
  /\ FindSeed \/ TakeSeed \/ Pause \/ LaunchAfterExecute
  /\ UNCHANGED <<centerVars, historyVars>>

Next ==
  \/ ClientStep \/ MainStep \/ CenterStep \/ Disconnect
  \/ \E t \in Thread : Precompute(t)

Spec == Init /\ [][Next]_vars

\* Every thread and the central server are scheduled.  Nothing says that a
\* client comes or that the connection ends.
Fairness ==
  /\ WF_vars(MainStep) /\ WF_vars(HandleCommand) /\ WF_vars(SendTuple)
  /\ \A t \in Thread : WF_vars(Precompute(t))

FairSpec == Spec /\ Fairness

-----------------------------------------------------------------------------
(***************************************************************************)
(* No tuple is handed out twice, to two clients, and none before an older  *)
(* one: reads may drop tuples, and the central server may send on behind a *)
(* stop command, but while one thread at a time fills the memory the       *)
(* numbers of the tuples only grow.                                        *)
(***************************************************************************)
KeepsOrder ==
  ~broken /\ ~misaligned /\ ~failed /\ ~overlap =>
    \A i, j \in 1 .. Len(handed) : i < j => handed[i].seed < handed[j].seed

(***************************************************************************)
(* A thread that waits for a tuple holds the mutex, so everybody waits     *)
(* with it.  Its last command must not be overtaken: the tuple is there,   *)
(* or the central server is active or will be, unless two threads had      *)
(* started it at once and one has stopped it for both.                     *)
(***************************************************************************)
LastCommand ==
  IF commands # <<>> THEN commands[Len(commands)]
  ELSE IF active THEN "start" ELSE "stop"

ReaderServed ==
  up /\ ~overlap /\ (\E t \in Thread : pc[t] \in {"enter", "receive"})
    => LastCommand = "start"

(***************************************************************************)
(* A session that finds the memory empty does not wait in vain as long as  *)
(* execute restarts the thread (PAUSECONDITION 0), one thread at a time    *)
(* has started the central server and none gave up: then a thread has      *)
(* still to look for room.  A thread that has found the memory full and    *)
(* not yet said so is not enough.                                          *)
(***************************************************************************)
WillFill == {"begin", "hello", "test", "enter", "receive"}

SomeThreadFills ==
  /\ main = "wait" /\ availableSeeds = 0
  /\ PauseCondition = 0 /\ ~broken /\ ~overlap /\ ~gaveUp
  => \E t \in Thread : pc[t] \in WillFill

(***************************************************************************)
(* The memory implements the queue of SeedQueue, with the tuples in the    *)
(* order the central server sends them, while one thread at a time fills   *)
(* it and every read takes one tuple.                                      *)
(***************************************************************************)
Queued ==
  [i \in 1 .. availableSeeds |-> slot[(currentSeed + i - 1) % MaxSeeds]]

Degraded == overlap \/ broken \/ dropped \/ failed

Queue == INSTANCE SeedQueue WITH
  queue <- IF Degraded THEN <<>> ELSE Queued,
  degraded <- Degraded

ImplementsQueue == Queue!Spec

\* A launch with no thread left to start.
LaunchWaits ==
  /\ \/ main = "lock" /\ ~lock
     \/ main = "relaunch"
  /\ threadTerminated
  /\ \A t \in Thread : pc[t] # "idle"

(***************************************************************************)
(* Every session is served as long as the connection is up, one thread at  *)
(* a time has started the central server, no thread has released the mutex *)
(* of another one and no tuple was cut, unless a launch of execute or      *)
(* nextSeed waits for ever for a thread, for which only the bound on them  *)
(* could be the reason.                                                    *)
(***************************************************************************)
SessionsEnd ==
  [](up /\ ~broken /\ ~overlap /\ ~misaligned) /\ []<>~LaunchWaits
    => (main = "wait" ~> (main = "idle" \/ crashed))
=============================================================================

--------------------------- MODULE PeerLinkProofs ---------------------------
(***************************************************************************)
(* What holds of the seed memory that a peer server fills from the central *)
(* server, for every capacity, any number of sessions and threads, every   *)
(* PAUSECONDITION and whether or not the connection ends.                  *)
(*                                                                         *)
(* The inductive invariant LinkInv follows the tuples from the central     *)
(* server to the client: their numbers grow along those handed out, those  *)
(* in the memory and those on the connection.  It rests on one thread      *)
(* filling the memory at a time, never beyond its slots.                   *)
(***************************************************************************)
EXTENDS PeerLink, Ring

-----------------------------------------------------------------------------
\* nextSeed takes the mutex only when it has seen a tuple.
CounterInv == main = "lock" => availableSeeds > 0

\* At an empty memory a thread has still to look for room, or execute is
\* about to start one: it claims that the thread before has ended.
FillInv ==
  PauseCondition = 0 /\ ~gaveUp /\ availableSeeds = 0 =>
    \/ main = "execute"
    \/ main = "relaunch" /\ threadTerminated
    \/ \E t \in Thread : pc[t] \in WillFill

\* The thread that has started the central server is the only one.
OneInv ==
  ~overlap =>
    \A t, u \in Thread : pc[t] \in Started /\ pc[u] \in Started => t = u

\* Its start command is the last one that was sent.
CommandInv ==
  up /\ ~overlap /\ (\E t \in Thread : pc[t] \in Started)
    => LastCommand = "start"

\* It fills the memory, and never beyond its slots.
RoomInv ==
  ~overlap =>
    /\ availableSeeds <= MaxSeeds
    /\ \A t \in Thread :
         pc[t] \in {"enter", "receive"} => availableSeeds < MaxSeeds

\* The slot a tuple is written to is the one behind those that wait.
PlaceInv ==
  ~overlap => currentPreSeed = At(MaxSeeds, currentSeed, availableSeeds)

\* The numbers of the tuples that were handed out, that wait in the memory
\* and that are on the connection, one after the other.
Total == Len(handed) + availableSeeds + Len(stream)

Number(p) ==
  IF p <= Len(handed) THEN handed[p].seed
  ELSE IF p <= Len(handed) + availableSeeds
  THEN slot[At(MaxSeeds, currentSeed, p - Len(handed) - 1)].seed
  ELSE stream[p - Len(handed) - availableSeeds]

\* They grow, and the central server will send a greater one.
GrowInv ==
  ~overlap /\ ~failed =>
    /\ \A p, q \in 1 .. Total : p < q => Number(p) < Number(q)
    /\ up => \A p \in 1 .. Total : Number(p) <= sent

\* As long as no tuple was dropped none is missing.
NameInv ==
  ~Degraded =>
    /\ \A k \in 0 .. availableSeeds-1 :
         slot[At(MaxSeeds, currentSeed, k)] = Named(Len(handed) + k + 1)
    /\ \A i \in 1 .. Len(stream) :
         stream[i] = Len(handed) + availableSeeds + i
    /\ up => sent = Total

LinkInv ==
  /\ TypeOK /\ CounterInv /\ FillInv /\ OneInv /\ CommandInv
  /\ RoomInv /\ PlaceInv /\ GrowInv /\ NameInv

-----------------------------------------------------------------------------
(* Types, and what the steps have in common                                *)

(* Only the thread that moves is elsewhere afterwards. *)
LEMMA MoveOne ==
  ASSUME TypeOK, NEW t \in Thread, NEW from, NEW to \in Stages,
         Move(t, from, to)
  PROVE  /\ pc' \in [Thread -> Stages]
         /\ pc[t] = from /\ pc'[t] = to
         /\ \A u \in Thread \ {t} : pc'[u] = pc[u]
BY DEF TypeOK, Move

(* A thread that is started was idle; there is one if the last has ended. *)
LEMMA LaunchOne ==
  ASSUME TypeOK, Launch
  PROVE  /\ pc' \in [Thread -> Stages] /\ t1' \in {"valid", "deleted"}
         /\ \A u \in Thread : \/ pc'[u] = pc[u]
                              \/ pc[u] = "idle" /\ pc'[u] = "begin"
         /\ threadTerminated => \E u \in Thread : pc'[u] = "begin"
<1>1. CASE ~threadTerminated
  BY <1>1 DEF TypeOK, Launch
<1>2. CASE threadTerminated
  <2>1. PICK t \in Thread : pc[t] = "idle" /\ pc' = [pc EXCEPT ![t] = "begin"]
    BY <1>2 DEF Launch
  <2>2. t1' = "valid"
    BY <1>2 DEF Launch
  <2>3. "begin" \in Stages
    BY DEF Stages
  <2> QED
    BY <2>1, <2>2, <2>3 DEF TypeOK
<1> QED
  BY <1>1, <1>2

LEMMA SuccessorInside ==
  ASSUME NEW i \in 0 .. MaxSeeds-1
  PROVE  Successor(i) \in 0 .. MaxSeeds-1 /\ Successor(i) = Behind1(MaxSeeds, i)
BY MaxSeedsAssumption DEF Successor, Behind1

LEMMA InitTypeOK == Init => TypeOK
<1> SUFFICES ASSUME Init
             PROVE  TypeOK
  OBVIOUS
<1>1. /\ slot \in [0 .. MaxSeeds-1 -> Tuple] /\ handed \in Seq(Tuple)
      /\ currentSeed \in 0 .. MaxSeeds-1 /\ currentPreSeed \in 0 .. MaxSeeds-1
  BY MaxSeedsAssumption DEF Init, PoolInit, Tuple, NoTuple
<1>2. pc \in [Thread -> Stages]
  BY DEF Init, PoolInit, Stages
<1>3. /\ commands \in Seq({"start", "stop"}) /\ stream \in Seq(Nat)
      /\ Len(stream) <= Window
  BY WindowAssumption DEF Init
<1> QED
  BY <1>1, <1>2, <1>3 DEF Init, PoolInit, TypeOK

LEMMA TypeByMain ==
  ASSUME TypeOK, ClientStep \/ MainStep
  PROVE  TypeOK'
<1> USE MaxSeedsAssumption, MaxWordAssumption DEF TypeOK
<1>1. CASE ClientStep
  BY <1>1 DEF ClientStep, StartSession, MoveMain, poolVars, centerVars,
              historyVars
<1>2. CASE MainStep /\ FindSeed
  BY <1>2 DEF MainStep, FindSeed, MoveMain, poolVars, centerVars, historyVars
<1>3. CASE MainStep /\ TakeSeed
  <2>1. pc' \in [Thread -> Stages] /\ t1' \in {"valid", "deleted"}
    BY <1>3, LaunchOne DEF TakeSeed
  <2>2. slot[currentSeed] \in Tuple /\ handed \in Seq(Tuple)
    OBVIOUS
  <2>3. handed' \in Seq(Tuple)
    BY <1>3, <2>2, AppendProperties DEF TakeSeed
  <2>4. availableSeeds' \in Nat
    BY <1>3 DEF TakeSeed
  <2>5. currentSeed' \in 0 .. MaxSeeds-1
    BY <1>3, SuccessorInside DEF TakeSeed
  <2> QED
    BY <1>3, <2>1, <2>5, <2>3, <2>4
    DEF MainStep, TakeSeed, MoveMain, centerVars, historyVars
<1>4. CASE MainStep /\ Pause
  BY <1>4 DEF MainStep, Pause, MoveMain, centerVars, historyVars
<1>5. CASE MainStep /\ LaunchAfterExecute
  <2>1. pc' \in [Thread -> Stages] /\ t1' \in {"valid", "deleted"}
    BY <1>5, LaunchOne DEF LaunchAfterExecute
  <2> QED
    BY <1>5, <2>1
    DEF MainStep, LaunchAfterExecute, MoveMain, poolVars, centerVars, historyVars
<1> QED
  BY <1>1, <1>2, <1>3, <1>4, <1>5 DEF MainStep

LEMMA TypeByCenter ==
  ASSUME TypeOK, CenterStep \/ Disconnect
  PROVE  TypeOK'
<1> USE DEF TypeOK, peerVars, mainVars, poolVars, historyVars
<1>1. CASE HandleCommand
  BY <1>1 DEF HandleCommand
<1>2. CASE SendTuple
  <2>1. stream' \in Seq(Nat) /\ Len(stream') <= Window /\ sent' \in Nat
    BY <1>2, WindowAssumption DEF SendTuple
  <2> QED
    BY <1>2, <2>1 DEF SendTuple
<1>3. CASE Disconnect
  <2>1. commands' \in Seq({"start", "stop"})
    BY <1>3 DEF Disconnect
  <2> QED
    BY <1>3, <2>1 DEF Disconnect
<1> QED
  BY <1>1, <1>2, <1>3 DEF CenterStep

(* What a read leaves of the stream. *)
LEMMA StreamRest ==
  ASSUME NEW s \in Seq(Nat), NEW k \in 1 .. Len(s)
  PROVE  /\ SubSeq(s, k + 1, Len(s)) \in Seq(Nat)
         /\ Len(SubSeq(s, k + 1, Len(s))) = Len(s) - k
         /\ \A i \in 1 .. Len(s) - k : SubSeq(s, k + 1, Len(s))[i] = s[k + i]
<1>1. /\ SubSeq(s, k + 1, Len(s)) \in Seq(Nat)
      /\ Len(SubSeq(s, k + 1, Len(s))) =
           IF k + 1 <= Len(s) THEN Len(s) - (k + 1) + 1 ELSE 0
      /\ \A i \in 1 .. Len(s) - (k + 1) + 1 :
           SubSeq(s, k + 1, Len(s))[i] = s[(k + 1) + i - 1]
  BY SubSeqProperties
<1> QED
  BY <1>1

(* What a successful read does. *)
LEMMA ReceiveOne ==
  ASSUME TypeOK, NEW t \in Thread, Receive(t)
  PROVE  \E k \in 1 .. Len(stream) :
           /\ slot' = [slot EXCEPT ![currentPreSeed] =
                         [seed |-> stream[1], value |-> stream[1]]]
           /\ [seed |-> stream[1], value |-> stream[1]] \in Tuple
           /\ stream' \in Seq(Nat)
           /\ Len(stream') = Len(stream) - k
           /\ \A i \in 1 .. Len(stream') : stream'[i] = stream[k + i]
           /\ dropped' = (dropped \/ k > 1)
           /\ misaligned' \in BOOLEAN
           /\ availableSeeds' = availableSeeds + 1
           /\ currentPreSeed' = Successor(currentPreSeed)
           /\ UNCHANGED <<mainVars, up, commands, active, sent, overlap, failed,
                          broken, gaveUp, threadTerminated>>
<1>1. PICK k \in 1 .. Len(stream) :
        /\ slot' = [slot EXCEPT ![currentPreSeed] =
                      [seed |-> stream[1], value |-> stream[1]]]
        /\ stream' = SubSeq(stream, k + 1, Len(stream))
        /\ dropped' = (dropped \/ k > 1)
        /\ misaligned' \in {misaligned, misaligned \/ k < Len(stream)}
  BY DEF Receive
<1>2. stream \in Seq(Nat)
  BY DEF TypeOK
<1>3. /\ stream' \in Seq(Nat) /\ Len(stream') = Len(stream) - k
      /\ \A i \in 1 .. Len(stream) - k : stream'[i] = stream[k + i]
  BY <1>1, <1>2, StreamRest
<1>4. stream[1] \in Nat
  BY <1>2
<1>5. [seed |-> stream[1], value |-> stream[1]] \in Tuple
  BY <1>4 DEF Tuple
<1>6. misaligned' \in BOOLEAN
  BY <1>1 DEF TypeOK
<1> QED
  BY <1>1, <1>3, <1>5, <1>6 DEF Receive, CountTuple, mainVars

LEMMA TypeByThread ==
  ASSUME TypeOK, NEW t \in Thread, Precompute(t)
  PROVE  TypeOK'
<1> USE MaxSeedsAssumption DEF TypeOK, mainVars, poolVars, centerVars,
        historyVars
<1>1. {"idle", "begin", "hello", "test", "enter", "receive", "bye",
       "terminate", "unlock"} \subseteq Stages
  BY DEF Stages, Started
<1>2. CASE ClearTerminated(t)
  <2>1. pc' \in [Thread -> Stages]
    BY <1>1, <1>2, MoveOne DEF ClearTerminated
  <2> QED
    BY <1>2, <2>1 DEF ClearTerminated
<1>3. CASE Hello(t)
  <2>1. pc' \in [Thread -> Stages]
    BY <1>1, <1>3, MoveOne DEF Hello
  <2>2. commands' \in Seq({"start", "stop"})
    BY <1>3 DEF Hello, WriteCommand
  <2> QED
    BY <1>3, <2>1, <2>2 DEF Hello
<1>4. CASE GiveUp(t)
  <2>1. pc' \in [Thread -> Stages]
    BY <1>1, <1>4, MoveOne DEF GiveUp
  <2> QED
    BY <1>4, <2>1 DEF GiveUp
<1>5. CASE TestRoom(t)
  <2>1. pc' \in [Thread -> Stages]
    BY <1>1, <1>5, MoveOne DEF TestRoom
  <2> QED
    BY <1>5, <2>1 DEF TestRoom
<1>6. CASE Enter(t)
  <2>1. pc' \in [Thread -> Stages]
    BY <1>1, <1>6, MoveOne DEF Enter, Lock
  <2> QED
    BY <1>6, <2>1 DEF Enter, Lock
<1>7. CASE Receive(t)
  <2>1. pc' \in [Thread -> Stages]
    BY <1>1, <1>7, MoveOne DEF Receive
  <2>2. PICK k \in 1 .. Len(stream) :
          /\ slot' = [slot EXCEPT ![currentPreSeed] =
                        [seed |-> stream[1], value |-> stream[1]]]
          /\ [seed |-> stream[1], value |-> stream[1]] \in Tuple
          /\ stream' \in Seq(Nat) /\ Len(stream') = Len(stream) - k
          /\ dropped' = (dropped \/ k > 1) /\ misaligned' \in BOOLEAN
          /\ availableSeeds' = availableSeeds + 1
          /\ currentPreSeed' = Successor(currentPreSeed)
    BY <1>7, ReceiveOne
  <2>3. slot' \in [0 .. MaxSeeds-1 -> Tuple]
    BY <2>2
  <2>4. Len(stream') <= Window
    BY <2>2, WindowAssumption
  <2>5. currentPreSeed' \in 0 .. MaxSeeds-1
    BY <2>2, SuccessorInside
  <2>6. availableSeeds' \in Nat /\ dropped' \in BOOLEAN
    BY <2>2
  <2>7. /\ lock' = FALSE
        /\ UNCHANGED <<mainVars, threadTerminated, crashed, broken, up,
                       commands, active, sent, overlap, failed, gaveUp>>
    BY <1>7 DEF Receive, CountTuple
  <2> QED
    BY <2>1, <2>2, <2>3, <2>4, <2>5, <2>6, <2>7
<1>8. CASE ReceiveFails(t)
  <2>1. pc' \in [Thread -> Stages]
    BY <1>1, <1>8, MoveOne DEF ReceiveFails
  <2>2. NoTuple \in Tuple
    BY DEF NoTuple, Tuple
  <2>3. slot' \in [0 .. MaxSeeds-1 -> Tuple]
    BY <1>8, <2>2 DEF ReceiveFails
  <2>4. currentPreSeed' \in 0 .. MaxSeeds-1 /\ availableSeeds' \in Nat
    BY <1>8, SuccessorInside DEF ReceiveFails, CountTuple
  <2>5. stream' \in Seq(Nat) /\ Len(stream') <= Window
    BY <1>8, WindowAssumption DEF ReceiveFails
  <2> QED
    BY <1>8, <2>1, <2>3, <2>4, <2>5 DEF ReceiveFails, CountTuple
<1>9. CASE Bye(t)
  <2>1. pc' \in [Thread -> Stages]
    BY <1>1, <1>9, MoveOne DEF Bye
  <2>2. commands' \in Seq({"start", "stop"})
    BY <1>9 DEF Bye, WriteCommand
  <2> QED
    BY <1>9, <2>1, <2>2 DEF Bye
<1>10. CASE SetTerminated(t)
  <2>1. pc' \in [Thread -> Stages]
    BY <1>1, <1>10, MoveOne DEF SetTerminated
  <2> QED
    BY <1>10, <2>1 DEF SetTerminated
<1>11. CASE UnlockAgain(t)
  <2>1. pc' \in [Thread -> Stages]
    BY <1>1, <1>11, MoveOne DEF UnlockAgain
  <2> QED
    BY <1>11, <2>1 DEF UnlockAgain
<1> QED
  BY <1>2, <1>3, <1>4, <1>5, <1>6, <1>7, <1>8, <1>9, <1>10, <1>11
  DEF Precompute

LEMMA NextTypeOK == TypeOK /\ [Next]_vars => TypeOK'
<1> SUFFICES ASSUME TypeOK, [Next]_vars
             PROVE  TypeOK'
  OBVIOUS
<1>1. CASE UNCHANGED vars
  BY <1>1 DEF vars, mainVars, poolVars, centerVars, historyVars, TypeOK
<1> QED
  BY <1>1, TypeByMain, TypeByCenter, TypeByThread DEF Next

\* The types of the memory, of the connection and of the threads.
THEOREM LinkTypeCorrect == Spec => []TypeOK
BY InitTypeOK, NextTypeOK, PTL DEF Spec

-----------------------------------------------------------------------------
(* The thread that fills the memory                                        *)

(* Each flag that ends a claim stays set, and the connection stays down. *)
LEMMA FlagsStay ==
  ASSUME TypeOK, [Next]_vars
  PROVE  /\ overlap => overlap'
         /\ broken => broken'
         /\ dropped => dropped'
         /\ failed => failed'
         /\ gaveUp => gaveUp'
         /\ up' => up
<1> USE DEF historyVars, centerVars, peerVars
<1>1. CASE UNCHANGED vars
  BY <1>1 DEF vars
<1>2. CASE ClientStep
  <2>1. UNCHANGED <<up, overlap, broken, dropped, failed, gaveUp>>
    BY <1>2 DEF ClientStep, StartSession
  <2> QED
    BY <2>1
<1>3. CASE MainStep
  <2>1. UNCHANGED <<up, overlap, broken, dropped, failed, gaveUp>>
    BY <1>3 DEF MainStep, FindSeed, TakeSeed, Pause, LaunchAfterExecute
  <2> QED
    BY <2>1
<1>4. CASE CenterStep \/ Disconnect
  BY <1>4 DEF CenterStep, HandleCommand, SendTuple, Disconnect
<1>5. ASSUME NEW t \in Thread, Precompute(t)
      PROVE  /\ overlap => overlap'
             /\ broken => broken'
             /\ dropped => dropped'
             /\ failed => failed'
             /\ gaveUp => gaveUp'
             /\ up' => up
  <2>1. CASE Receive(t)
    <3>1. PICK k \in 1 .. Len(stream) :
            /\ dropped' = (dropped \/ k > 1)
            /\ UNCHANGED <<mainVars, up, commands, active, sent, overlap,
                           failed, broken, gaveUp, threadTerminated>>
      BY <2>1, ReceiveOne
    <3> QED
      BY <3>1
  <2>2. CASE ClearTerminated(t) \/ TestRoom(t) \/ Enter(t) \/ Bye(t)
             \/ SetTerminated(t)
    <3>1. UNCHANGED <<up, overlap, broken, dropped, failed, gaveUp>>
      BY <2>2 DEF ClearTerminated, TestRoom, Enter, Bye, SetTerminated
    <3> QED
      BY <3>1
  <2>3. CASE Hello(t)
    BY <2>3 DEF Hello
  <2>4. CASE GiveUp(t) \/ ReceiveFails(t)
    BY <2>4 DEF GiveUp, ReceiveFails
  <2>5. CASE UnlockAgain(t)
    BY <2>5 DEF UnlockAgain
  <2> QED
    BY <1>5, <2>1, <2>2, <2>3, <2>4, <2>5 DEF Precompute
<1> QED
  BY <1>1, <1>2, <1>3, <1>4, <1>5 DEF Next

(* What a thread leaves alone, and what it counts. *)
LEMMA ThreadKeeps ==
  ASSUME TypeOK, NEW t \in Thread, Precompute(t)
  PROVE  /\ UNCHANGED mainVars
         /\ \/ availableSeeds' = availableSeeds
            \/ availableSeeds' = availableSeeds + 1 /\ pc[t] = "receive"
         /\ \A u \in Thread \ {t} : pc'[u] = pc[u]
<1>1. UNCHANGED mainVars
  BY DEF Precompute, ClearTerminated, Hello, GiveUp, TestRoom, Enter, Receive,
         ReceiveFails, Bye, SetTerminated, UnlockAgain
<1>2. \/ availableSeeds' = availableSeeds
      \/ availableSeeds' = availableSeeds + 1 /\ pc[t] = "receive"
  BY DEF Precompute, ClearTerminated, Hello, GiveUp, TestRoom, Enter, Receive,
         ReceiveFails, Bye, SetTerminated, UnlockAgain, CountTuple, poolVars,
         Move
<1>3. \A u \in Thread \ {t} : pc'[u] = pc[u]
  BY DEF TypeOK, Precompute, ClearTerminated, Hello, GiveUp, TestRoom, Enter,
         Receive, ReceiveFails, Bye, SetTerminated, UnlockAgain, Move, Lock
<1> QED
  BY <1>1, <1>2, <1>3

(* What a thread that is at work has come from. *)
LEMMA ThreadCameFrom ==
  ASSUME TypeOK, NEW t \in Thread, Precompute(t)
  PROVE  /\ pc'[t] \in Started => pc[t] \in Started \/ Hello(t)
         /\ pc'[t] \in {"enter", "receive"} =>
              /\ pc[t] = "enter" \/ availableSeeds < MaxSeeds
              /\ pc[t] # "receive"
              /\ availableSeeds' = availableSeeds
<1> USE DEF TypeOK, Move, Started
<1>1. CASE ClearTerminated(t) \/ Hello(t) \/ GiveUp(t)
  BY <1>1 DEF ClearTerminated, Hello, GiveUp
<1>2. CASE TestRoom(t) \/ Enter(t)
  BY <1>2 DEF TestRoom, Enter, Lock, poolVars
<1>3. CASE Receive(t) \/ ReceiveFails(t)
  BY <1>3 DEF Receive, ReceiveFails
<1>4. CASE Bye(t) \/ SetTerminated(t) \/ UnlockAgain(t)
  BY <1>4 DEF Bye, SetTerminated, UnlockAgain
<1> QED
  BY <1>1, <1>2, <1>3, <1>4 DEF Precompute

(* What the io_service thread and the others do to the threads. *)
LEMMA OthersKeep ==
  ASSUME TypeOK,
         ClientStep \/ MainStep \/ CenterStep \/ Disconnect \/ UNCHANGED vars
  PROVE  \A u \in Thread : \/ pc'[u] = pc[u]
                           \/ pc[u] = "idle" /\ pc'[u] = "begin"
<1>1. CASE MainStep
  BY <1>1, LaunchOne
  DEF MainStep, FindSeed, TakeSeed, Pause, LaunchAfterExecute
<1>2. CASE ClientStep \/ CenterStep \/ Disconnect \/ UNCHANGED vars
  BY <1>2
  DEF ClientStep, StartSession, CenterStep, HandleCommand, SendTuple,
      Disconnect, peerVars, vars
<1> QED
  BY <1>1, <1>2

LEMMA CounterNext ==
  ASSUME TypeOK, CounterInv, [Next]_vars
  PROVE  CounterInv'
<1> USE DEF CounterInv, TypeOK, mainVars, poolVars
<1>1. CASE UNCHANGED vars
  BY <1>1 DEF vars
<1>2. CASE ClientStep
  BY <1>2 DEF ClientStep, StartSession, MoveMain
<1>3. CASE MainStep
  BY <1>3 DEF MainStep, FindSeed, TakeSeed, Pause, LaunchAfterExecute, MoveMain
<1>4. CASE CenterStep \/ Disconnect
  BY <1>4 DEF CenterStep, HandleCommand, SendTuple, Disconnect, peerVars
<1>5. ASSUME NEW t \in Thread, Precompute(t)
      PROVE  CounterInv'
  BY <1>5, ThreadKeeps
<1> QED
  BY <1>1, <1>2, <1>3, <1>4, <1>5 DEF Next

LEMMA FillByThread ==
  ASSUME TypeOK, FillInv, NEW t \in Thread, Precompute(t)
  PROVE  FillInv'
<1> SUFFICES ASSUME PauseCondition = 0, ~gaveUp', availableSeeds' = 0
             PROVE  \/ main' = "execute"
                    \/ main' = "relaunch" /\ threadTerminated'
                    \/ \E u \in Thread : pc'[u] \in WillFill
  BY DEF FillInv
<1>1. UNCHANGED mainVars /\ availableSeeds = 0 /\ ~gaveUp
  BY ThreadKeeps, FlagsStay DEF TypeOK, Next
<1>2. CASE main = "execute"
  BY <1>1, <1>2 DEF mainVars
<1>3. CASE \E u \in Thread \ {t} : pc[u] \in WillFill
  BY <1>3, ThreadKeeps
<1>4. CASE pc[t] \in WillFill
  <2>1. pc'[t] \in WillFill
    BY <1>1, <1>4, MaxSeedsAssumption
    DEF TypeOK, WillFill, Precompute, ClearTerminated, Hello, GiveUp, TestRoom,
        Enter, Lock, Receive, ReceiveFails, Bye, SetTerminated, UnlockAgain,
        Move
  <2> QED
    BY <2>1
<1>5. CASE main = "relaunch" /\ threadTerminated /\ pc[t] \notin WillFill
  <2>1. threadTerminated'
    BY <1>5
    DEF WillFill, Precompute, ClearTerminated, Hello, GiveUp, TestRoom,
        Enter, Lock, Receive, ReceiveFails, Bye, SetTerminated, UnlockAgain,
        Move, poolVars
  <2> QED
    BY <1>1, <1>5, <2>1 DEF mainVars
<1> QED
  BY <1>1, <1>2, <1>3, <1>4, <1>5 DEF FillInv

LEMMA FillNext ==
  ASSUME TypeOK, FillInv, [Next]_vars
  PROVE  FillInv'
<1> USE DEF FillInv, mainVars, poolVars, historyVars
<1>1. CASE UNCHANGED vars
  BY <1>1 DEF vars
<1>2. CASE ClientStep
  BY <1>2 DEF ClientStep, StartSession, MoveMain
<1>3. CASE CenterStep \/ Disconnect
  BY <1>3 DEF CenterStep, HandleCommand, SendTuple, Disconnect, peerVars
<1>4. CASE MainStep /\ FindSeed
  BY <1>4 DEF MainStep, FindSeed, MoveMain
<1>5. CASE MainStep /\ (TakeSeed \/ Pause)
  <2>1. CASE TakeSeed
    BY <2>1 DEF TakeSeed, MoveMain
  <2>2. CASE Pause /\ PauseCondition = 0
    BY <2>2 DEF Pause, MoveMain, PauseNow
  <2> QED
    BY <1>5, <2>1, <2>2
<1>6. CASE MainStep /\ LaunchAfterExecute
  <2>1. UNCHANGED <<availableSeeds, gaveUp>> /\ main = "relaunch"
    BY <1>6 DEF MainStep, LaunchAfterExecute, MoveMain
  <2>2. /\ threadTerminated => \E u \in Thread : pc'[u] = "begin"
        /\ \A u \in Thread : \/ pc'[u] = pc[u]
                             \/ pc[u] = "idle" /\ pc'[u] = "begin"
    BY <1>6, LaunchOne DEF LaunchAfterExecute
  <2>3. "begin" \in WillFill
    BY DEF WillFill
  <2> QED
    BY <2>1, <2>2, <2>3
<1>7. ASSUME NEW t \in Thread, Precompute(t)
      PROVE  FillInv'
  BY <1>7, FillByThread
<1> QED
  BY <1>1, <1>2, <1>3, <1>4, <1>5, <1>6, <1>7 DEF Next, MainStep

LEMMA OneNext ==
  ASSUME TypeOK, OneInv, [Next]_vars
  PROVE  OneInv'
<1> SUFFICES ASSUME ~overlap', NEW t \in Thread, NEW u \in Thread,
                    pc'[t] \in Started, pc'[u] \in Started, t # u
             PROVE  FALSE
  BY DEF OneInv
<1>1. ~overlap
  BY FlagsStay
<1>2. ~(pc[t] \in Started /\ pc[u] \in Started)
  BY <1>1 DEF OneInv
<1>3. "begin" \notin Started
  BY DEF Started
<1>4. CASE ClientStep \/ MainStep \/ CenterStep \/ Disconnect \/ UNCHANGED vars
  BY <1>2, <1>3, <1>4, OthersKeep
<1>5. ASSUME NEW w \in Thread, Precompute(w)
      PROVE  FALSE
  <2>1. CASE Hello(w)
    <3>1. ~\E v \in Thread \ {w} : pc[v] \in Started
      BY <2>1 DEF Hello
    <3>2. \A v \in Thread \ {w} : pc'[v] = pc[v]
      BY <1>5, ThreadKeeps
    <3> QED
      BY <3>1, <3>2
  <2>2. CASE ~Hello(w)
    <3>1. pc'[w] \in Started => pc[w] \in Started
      BY <1>5, <2>2, ThreadCameFrom
    <3>2. \A v \in Thread \ {w} : pc'[v] = pc[v]
      BY <1>5, ThreadKeeps
    <3> QED
      BY <1>2, <3>1, <3>2
  <2> QED
    BY <2>1, <2>2
<1> QED
  BY <1>4, <1>5 DEF Next

LEMMA RoomNext ==
  ASSUME TypeOK, OneInv, RoomInv, CounterInv, [Next]_vars
  PROVE  RoomInv'
<1> SUFFICES ASSUME ~overlap'
             PROVE  /\ availableSeeds' <= MaxSeeds
                    /\ \A u \in Thread :
                         pc'[u] \in {"enter", "receive"}
                           => availableSeeds' < MaxSeeds
  BY DEF RoomInv
<1>1. /\ ~overlap /\ availableSeeds \in Nat /\ MaxSeeds \in Nat
      /\ availableSeeds <= MaxSeeds
      /\ \A u \in Thread :
           pc[u] \in {"enter", "receive"} => availableSeeds < MaxSeeds
  BY FlagsStay, MaxSeedsAssumption DEF RoomInv, TypeOK
<1>2. {"enter", "receive"} \subseteq Started
  BY DEF Started
<1>3. CASE ClientStep \/ MainStep \/ CenterStep \/ Disconnect \/ UNCHANGED vars
  <2>1. availableSeeds' <= availableSeeds /\ availableSeeds' \in Nat
    <3>1. CASE TakeSeed
      BY <1>1, <3>1 DEF TakeSeed, MoveMain, CounterInv
    <3>2. CASE ~TakeSeed
      <4>1. availableSeeds' = availableSeeds
        BY <1>3, <3>2
        DEF ClientStep, StartSession, MainStep, FindSeed, Pause,
            LaunchAfterExecute, CenterStep, HandleCommand, SendTuple,
            Disconnect, peerVars, poolVars, vars
      <4> QED
        BY <1>1, <4>1
    <3> QED
      BY <3>1, <3>2
  <2>2. \A u \in Thread : \/ pc'[u] = pc[u]
                          \/ pc[u] = "idle" /\ pc'[u] = "begin"
    BY <1>3, OthersKeep
  <2> QED
    BY <1>1, <2>1, <2>2
<1>4. ASSUME NEW t \in Thread, Precompute(t)
      PROVE  /\ availableSeeds' <= MaxSeeds
             /\ \A u \in Thread :
                  pc'[u] \in {"enter", "receive"} => availableSeeds' < MaxSeeds
  <2>1. \A u \in Thread \ {t} : pc'[u] = pc[u]
    BY <1>4, ThreadKeeps
  <2>2. CASE pc[t] = "receive" /\ availableSeeds' = availableSeeds + 1
    <3>1. pc'[t] \notin {"enter", "receive"}
      BY <1>4, <2>2, ThreadCameFrom
    <3>2. \A u \in Thread \ {t} : pc[u] \notin {"enter", "receive"}
      BY <1>1, <1>2, <2>2 DEF OneInv
    <3> QED
      BY <1>1, <2>1, <2>2, <3>1, <3>2
  <2>3. CASE availableSeeds' = availableSeeds
    <3>1. pc'[t] \in {"enter", "receive"} => availableSeeds < MaxSeeds
      BY <1>1, <1>4, ThreadCameFrom
    <3> QED
      BY <1>1, <2>1, <2>3, <3>1
  <2> QED
    BY <1>4, <2>2, <2>3, ThreadKeeps
<1> QED
  BY <1>3, <1>4 DEF Next

(* The last command of a sequence of them, and of what is left of it. *)
LEMMA LastOfRest ==
  ASSUME TypeOK, HandleCommand
  PROVE  LastCommand' = LastCommand
<1>1. /\ commands \in Seq({"start", "stop"}) /\ commands # <<>>
      /\ commands' = Tail(commands) /\ active' = (Head(commands) = "start")
  BY DEF TypeOK, HandleCommand
<1>2. /\ Len(commands) \in Nat /\ Len(commands) > 0
      /\ Len(commands') = Len(commands) - 1
      /\ Head(commands) = commands[1] /\ commands[1] \in {"start", "stop"}
      /\ \A i \in 1 .. Len(commands') : commands'[i] = commands[i + 1]
  BY <1>1, HeadTailProperties
<1>3. CASE Len(commands) = 1
  <2>1. commands' = <<>>
    BY <1>1, <1>3
  <2> QED
    BY <1>1, <1>2, <1>3, <2>1 DEF LastCommand
<1>4. CASE Len(commands) > 1
  <2>1. commands' # <<>> /\ Len(commands') \in 1 .. Len(commands')
    BY <1>1, <1>2, <1>4
  <2>2. commands'[Len(commands')] = commands[Len(commands)]
    BY <1>2, <2>1
  <2> QED
    BY <1>1, <2>1, <2>2 DEF LastCommand
<1> QED
  BY <1>2, <1>3, <1>4

LEMMA CommandNext ==
  ASSUME TypeOK, OneInv, CommandInv, [Next]_vars
  PROVE  CommandInv'
<1> SUFFICES ASSUME up', ~overlap', NEW u \in Thread, pc'[u] \in Started
             PROVE  LastCommand' = "start"
  BY DEF CommandInv
<1>1. /\ up /\ ~overlap
      /\ (\E t \in Thread : pc[t] \in Started) => LastCommand = "start"
  BY FlagsStay DEF CommandInv
<1>2. "begin" \notin Started
  BY DEF Started
<1>3. CASE ClientStep \/ MainStep \/ CenterStep \/ Disconnect \/ UNCHANGED vars
  <2>1. LastCommand = "start"
    BY <1>1, <1>2, <1>3, OthersKeep
  <2>2. CASE HandleCommand
    BY <2>1, <2>2, LastOfRest
  <2>3. CASE ~HandleCommand
    <3>1. ~Disconnect
      BY DEF Disconnect
    <3>2. UNCHANGED <<commands, active>>
      BY <1>3, <2>3, <3>1
      DEF ClientStep, MainStep, CenterStep, SendTuple, centerVars, vars
    <3> QED
      BY <2>1, <3>2 DEF LastCommand
  <2> QED
    BY <2>2, <2>3
<1>4. ASSUME NEW t \in Thread, Precompute(t)
      PROVE  LastCommand' = "start"
  <2>1. \A v \in Thread \ {t} : pc'[v] = pc[v]
    BY <1>4, ThreadKeeps
  <2>2. CASE Hello(t)
    <3>1. /\ commands \in Seq({"start", "stop"})
          /\ commands' = Append(commands, "start")
      BY <1>1, <2>2 DEF TypeOK, Hello, WriteCommand
    <3>2. commands' # <<>> /\ commands'[Len(commands')] = "start"
      BY <3>1
    <3> QED
      BY <3>2 DEF LastCommand
  <2>3. CASE Bye(t)
    <3>1. pc[t] \in Started /\ pc'[t] \notin Started
      BY <2>3 DEF Bye, Move, Started, TypeOK
    <3> QED
      BY <1>1, <2>1, <3>1 DEF OneInv
  <2>4. CASE ~Hello(t) /\ ~Bye(t)
    <3>1. LastCommand = "start"
      BY <1>1, <1>4, <2>1, <2>4, ThreadCameFrom
    <3>2. UNCHANGED <<commands, active>>
      BY <1>4, <2>4
      DEF Precompute, ClearTerminated, GiveUp, TestRoom, Enter, Receive,
          ReceiveFails, SetTerminated, UnlockAgain, centerVars
    <3> QED
      BY <3>1, <3>2 DEF LastCommand
  <2> QED
    BY <2>2, <2>3, <2>4
<1> QED
  BY <1>3, <1>4 DEF Next

-----------------------------------------------------------------------------
(* The memory as a ring                                                    *)

memoryVars == <<handed, availableSeeds, currentSeed, currentPreSeed, slot,
                stream, sent, up>>

(* Five kinds of steps touch the tuples. *)
LEMMA OtherSteps ==
  ASSUME TypeOK, [Next]_vars
  PROVE  \/ MainStep /\ TakeSeed
         \/ \E t \in Thread : Receive(t) \/ ReceiveFails(t)
         \/ SendTuple
         \/ Disconnect
         \/ UNCHANGED memoryVars
<1> USE DEF memoryVars, mainVars, poolVars, centerVars, peerVars
<1>1. CASE ClientStep \/ UNCHANGED vars
  BY <1>1 DEF ClientStep, StartSession, vars
<1>2. CASE MainStep /\ ~TakeSeed
  BY <1>2 DEF MainStep, FindSeed, Pause, LaunchAfterExecute
<1>3. CASE HandleCommand
  BY <1>3 DEF HandleCommand
<1>4. ASSUME NEW t \in Thread, Precompute(t), ~Receive(t), ~ReceiveFails(t)
      PROVE  UNCHANGED memoryVars
  BY <1>4
  DEF Precompute, ClearTerminated, Hello, GiveUp, TestRoom, Enter, Bye,
      SetTerminated, UnlockAgain, Lock
<1> QED
  BY <1>1, <1>2, <1>3, <1>4 DEF Next, CenterStep

(* There is a tuple to take, and the next one becomes the oldest. *)
LEMMA TakeOne ==
  ASSUME TypeOK, CounterInv, RoomInv, ~overlap, MainStep, TakeSeed
  PROVE  /\ availableSeeds \in 1 .. MaxSeeds
         /\ availableSeeds' = availableSeeds - 1
         /\ currentSeed' = Behind1(MaxSeeds, currentSeed)
         /\ handed' = Append(handed, slot[currentSeed])
         /\ slot[currentSeed] \in Tuple
         /\ UNCHANGED <<currentPreSeed, slot, stream, sent, up>>
<1>1. availableSeeds > 0 /\ availableSeeds \in Nat /\ availableSeeds <= MaxSeeds
  BY DEF TypeOK, CounterInv, RoomInv, TakeSeed, MoveMain
<1>2. currentSeed' = Behind1(MaxSeeds, currentSeed)
  BY SuccessorInside DEF TakeSeed, TypeOK
<1> QED
  BY <1>1, <1>2, MaxSeedsAssumption
  DEF TypeOK, TakeSeed, MainStep, centerVars

(* There is room for what is read. *)
LEMMA RoomToRead ==
  ASSUME TypeOK, RoomInv, ~overlap, NEW t \in Thread,
         Receive(t) \/ ReceiveFails(t)
  PROVE  /\ availableSeeds \in 0 .. MaxSeeds-1
         /\ availableSeeds' = availableSeeds + 1
         /\ currentPreSeed' = Behind1(MaxSeeds, currentPreSeed)
         /\ UNCHANGED <<handed, currentSeed, sent, up>>
<1>1. pc[t] = "receive"
  BY DEF Receive, ReceiveFails, Move
<1>2. currentPreSeed' = Behind1(MaxSeeds, currentPreSeed)
  BY SuccessorInside DEF Receive, ReceiveFails, CountTuple, TypeOK
<1> QED
  BY <1>1, <1>2, MaxSeedsAssumption
  DEF TypeOK, RoomInv, Receive, ReceiveFails, CountTuple, mainVars

LEMMA PlaceNext ==
  ASSUME TypeOK, CounterInv, RoomInv, PlaceInv, [Next]_vars
  PROVE  PlaceInv'
<1> SUFFICES ASSUME ~overlap'
             PROVE  currentPreSeed' = At(MaxSeeds, currentSeed', availableSeeds')
  BY DEF PlaceInv
<1>1. /\ ~overlap /\ currentSeed \in 0 .. MaxSeeds-1
      /\ currentPreSeed = At(MaxSeeds, currentSeed, availableSeeds)
  BY FlagsStay DEF TypeOK, PlaceInv
<1>2. CASE MainStep /\ TakeSeed
  <2>1. /\ availableSeeds \in 1 .. MaxSeeds
        /\ availableSeeds' = availableSeeds - 1
        /\ currentSeed' = Behind1(MaxSeeds, currentSeed)
        /\ currentPreSeed' = currentPreSeed
    BY <1>1, <1>2, TakeOne
  <2>2. availableSeeds - 1 \in 0 .. MaxSeeds-1
    BY <2>1, MaxSeedsAssumption
  <2>3. At(MaxSeeds, Behind1(MaxSeeds, currentSeed), availableSeeds - 1)
          = At(MaxSeeds, currentSeed, (availableSeeds - 1) + 1)
    BY <1>1, <2>2, AtSuccessor, MaxSeedsAssumption
  <2>4. (availableSeeds - 1) + 1 = availableSeeds
    BY <2>1, MaxSeedsAssumption
  <2> QED
    BY <1>1, <2>1, <2>3, <2>4
<1>3. ASSUME NEW t \in Thread, Receive(t) \/ ReceiveFails(t)
      PROVE  currentPreSeed' = At(MaxSeeds, currentSeed', availableSeeds')
  BY <1>1, <1>3, RoomToRead, AtSuccessor, MaxSeedsAssumption
<1>4. CASE SendTuple \/ Disconnect \/ UNCHANGED memoryVars
  BY <1>1, <1>4
  DEF SendTuple, Disconnect, memoryVars, peerVars, mainVars, poolVars
<1> QED
  BY <1>2, <1>3, <1>4, OtherSteps

-----------------------------------------------------------------------------
(* The numbers of the tuples                                               *)

LEMMA NumberType ==
  ASSUME TypeOK, RoomInv, ~overlap, NEW p \in 1 .. Total
  PROVE  Number(p) \in Nat
<1> DEFINE H == Len(handed)
           A == availableSeeds
<1>1. /\ handed \in Seq(Tuple) /\ stream \in Seq(Nat) /\ H \in Nat
      /\ A \in 0 .. MaxSeeds /\ currentSeed \in 0 .. MaxSeeds-1
      /\ slot \in [0 .. MaxSeeds-1 -> Tuple] /\ MaxSeeds \in Nat \ {0}
  BY MaxSeedsAssumption DEF TypeOK, RoomInv
<1>2. \A u \in Tuple : u.seed \in Nat
  BY DEF Tuple
<1>3. CASE p <= H
  <2>1. p \in 1 .. H
    BY <1>1, <1>3
  <2> QED
    BY <1>1, <1>2, <1>3, <2>1 DEF Number
<1>4. CASE H < p /\ p <= H + A
  <2>1. p - H - 1 \in 0 .. MaxSeeds
    BY <1>1, <1>4
  <2>2. At(MaxSeeds, currentSeed, p - H - 1) \in 0 .. MaxSeeds-1
    BY <1>1, <2>1, AtInside
  <2> QED
    BY <1>1, <1>2, <1>4, <2>2 DEF Number
<1>5. CASE p > H + A
  <2>1. /\ p - H - A \in 1 .. Len(stream) /\ ~(p <= H) /\ ~(p <= H + A)
    BY <1>1, <1>5 DEF Total
  <2> QED
    BY <1>1, <2>1 DEF Number
<1> QED
  BY <1>1, <1>3, <1>4, <1>5

(* A tuple that is taken keeps its place among the others. *)
LEMMA TakeNumbers ==
  ASSUME TypeOK, CounterInv, RoomInv, ~overlap, MainStep, TakeSeed
  PROVE  Total' = Total /\ \A p \in 1 .. Total : Number(p)' = Number(p)
<1> DEFINE H == Len(handed)
           A == availableSeeds
<1>1. /\ A \in 1 .. MaxSeeds /\ A' = A - 1 /\ slot' = slot /\ stream' = stream
      /\ currentSeed' = Behind1(MaxSeeds, currentSeed)
      /\ handed' = Append(handed, slot[currentSeed])
      /\ slot[currentSeed] \in Tuple
  BY TakeOne
<1>2. /\ handed \in Seq(Tuple) /\ H \in Nat /\ Len(stream) \in Nat
      /\ currentSeed \in 0 .. MaxSeeds-1 /\ MaxSeeds \in Nat \ {0}
  BY MaxSeedsAssumption DEF TypeOK
<1>3. /\ H' = H + 1 /\ handed'[H + 1] = slot[currentSeed]
      /\ \A p \in 1 .. H : handed'[p] = handed[p]
  BY <1>1, <1>2, AppendProperties
<1>4. Total' = Total /\ Total \in Nat
  BY <1>1, <1>2, <1>3 DEF Total
<1>5. At(MaxSeeds, currentSeed, 0) = currentSeed
  BY <1>2, AtSuccessor
<1>6. ASSUME NEW p \in 1 .. Total
      PROVE  Number(p)' = Number(p)
  <2>1. CASE p <= H
    BY <1>2, <1>3, <2>1 DEF Number
  <2>2. CASE p = H + 1
    <3>1. Number(p)' = slot[currentSeed].seed
      BY <1>2, <1>3, <2>2 DEF Number
    <3>2. ~(p <= H) /\ p <= H + A /\ p - H - 1 = 0
      BY <1>1, <1>2, <2>2
    <3> QED
      BY <1>5, <3>1, <3>2 DEF Number
  <2>3. CASE H + 1 < p /\ p <= H + A
    <3>1. /\ p - H - 2 \in 0 .. MaxSeeds-1 /\ p - H' - 1 = p - H - 2
          /\ (p - H - 2) + 1 = p - H - 1
          /\ ~(p <= H) /\ ~(p <= H') /\ p <= H' + A'
      BY <1>1, <1>2, <1>3, <2>3
    <3>2. At(MaxSeeds, Behind1(MaxSeeds, currentSeed), p - H - 2)
            = At(MaxSeeds, currentSeed, p - H - 1)
      BY <1>2, <3>1, AtSuccessor
    <3> QED
      BY <1>1, <2>3, <3>1, <3>2 DEF Number
  <2>4. CASE p > H + A
    <3>1. /\ ~(p <= H) /\ ~(p <= H') /\ ~(p <= H + A) /\ ~(p <= H' + A')
          /\ p - H' - A' = p - H - A
      BY <1>1, <1>2, <1>3, <2>4
    <3> QED
      BY <1>1, <3>1 DEF Number
  <2> QED
    BY <1>1, <1>2, <2>1, <2>2, <2>3, <2>4
<1> QED
  BY <1>4, <1>6

(* A read moves one number to the memory and may leave out those behind. *)
LEMMA ReceiveNumbers ==
  ASSUME TypeOK, RoomInv, PlaceInv, ~overlap, NEW t \in Thread, Receive(t)
  PROVE  \E k \in 1 .. Len(stream) :
           /\ Total' = Total - (k - 1)
           /\ \A p \in 1 .. Total' :
                Number(p)' = IF p <= Len(handed) + availableSeeds + 1
                             THEN Number(p) ELSE Number(p + (k - 1))
<1> DEFINE H == Len(handed)
           A == availableSeeds
           n == [seed |-> stream[1], value |-> stream[1]]
<1>1. PICK k \in 1 .. Len(stream) :
        /\ slot' = [slot EXCEPT ![currentPreSeed] = n]
        /\ Len(stream') = Len(stream) - k
        /\ \A i \in 1 .. Len(stream') : stream'[i] = stream[k + i]
  BY ReceiveOne
<1>2. /\ A \in 0 .. MaxSeeds-1 /\ A' = A + 1
      /\ handed' = handed /\ currentSeed' = currentSeed
  BY RoomToRead
<1>3. /\ H \in Nat /\ Len(stream) \in Nat
      /\ currentSeed \in 0 .. MaxSeeds-1 /\ MaxSeeds \in Nat \ {0}
      /\ currentPreSeed = At(MaxSeeds, currentSeed, A)
      /\ slot \in [0 .. MaxSeeds-1 -> Tuple]
      /\ currentPreSeed \in 0 .. MaxSeeds-1
  BY MaxSeedsAssumption DEF TypeOK, PlaceInv
<1> HIDE DEF n
<1>4. Total' = Total - (k - 1)
  BY <1>1, <1>2, <1>3 DEF Total
<1>5. ASSUME NEW p \in 1 .. Total'
      PROVE  Number(p)' = IF p <= H + A + 1
                          THEN Number(p) ELSE Number(p + (k - 1))
  <2>1. CASE p <= H
    BY <1>2, <1>3, <2>1 DEF Number
  <2>2. CASE H < p /\ p <= H + A
    <3>1. p - H - 1 \in 0 .. MaxSeeds-1 /\ p - H - 1 # A
      BY <1>2, <1>3, <2>2
    <3> DEFINE j == p - H - 1
    <3>2. /\ j \in 0 .. MaxSeeds-1 /\ j \in 0 .. MaxSeeds /\ j # A
          /\ A \in 0 .. MaxSeeds-1
      BY <1>2, <1>3, <3>1
    <3> HIDE DEF j
    <3>3. /\ At(MaxSeeds, currentSeed, j) # currentPreSeed
          /\ At(MaxSeeds, currentSeed, j) \in 0 .. MaxSeeds-1
      BY <1>3, <3>2, AtDiffers, AtInside
    <3>4. slot'[At(MaxSeeds, currentSeed, p - H - 1)]
            = slot[At(MaxSeeds, currentSeed, p - H - 1)]
      BY <1>1, <1>3, <3>3 DEF j
    <3> QED
      BY <1>2, <1>3, <2>2, <3>4 DEF Number
  <2>3. CASE p = H + A + 1
    <3>1. Number(p)' = n.seed
      <4>1. /\ ~(p <= H) /\ p <= H + A' /\ p - H - 1 = A
            /\ slot'[currentPreSeed] = n
        BY <1>1, <1>2, <1>3, <2>3
      <4> QED
        BY <1>2, <1>3, <4>1 DEF Number
    <3>2. Number(p) = stream[1]
      <4>1. ~(p <= H) /\ ~(p <= H + A) /\ p - H - A = 1
        BY <1>2, <1>3, <2>3
      <4> QED
        BY <4>1 DEF Number
    <3> QED
      BY <1>2, <1>3, <2>3, <3>1, <3>2 DEF n
  <2>4. CASE p > H + A + 1
    <3>1. /\ p \in Int /\ k \in Int /\ k >= 1 /\ A \in Nat
          /\ Total' = H + A + 1 + Len(stream') /\ p <= Total'
          /\ Len(stream') \in Nat
      BY <1>1, <1>2, <1>3 DEF Total
    <3>2. /\ p - H - A' \in 1 .. Len(stream') /\ ~(p <= H) /\ ~(p <= H + A')
          /\ k + (p - H - A') = (p + (k - 1)) - H - A
          /\ ~(p + (k - 1) <= H) /\ ~(p + (k - 1) <= H + A)
      BY <1>2, <1>3, <2>4, <3>1
    <3>3. Number(p)' = stream'[p - H - A']
      BY <1>2, <3>2 DEF Number
    <3>4. Number(p + (k - 1)) = stream[(p + (k - 1)) - H - A]
      BY <3>2 DEF Number
    <3>5. stream'[p - H - A'] = stream[k + (p - H - A')]
      BY <1>1, <3>2
    <3>6. ~(p <= H + A + 1)
      BY <1>3, <2>4, <3>1
    <3> QED
      BY <3>2, <3>3, <3>4, <3>5, <3>6
  <2> QED
    BY <1>2, <1>3, <2>1, <2>2, <2>3, <2>4 DEF Total
<1> QED
  BY <1>4, <1>5

(* What the central server sends comes last. *)
LEMMA SendNumbers ==
  ASSUME TypeOK, SendTuple
  PROVE  /\ Total' = Total + 1
         /\ \A p \in 1 .. Total : Number(p)' = Number(p)
         /\ \A p \in Nat : p = Total + 1 => Number(p)' = sent + 1
<1> DEFINE H == Len(handed)
           A == availableSeeds
<1>1. /\ stream \in Seq(Nat) /\ sent + 1 \in Nat
      /\ stream' = Append(stream, sent + 1)
      /\ UNCHANGED <<handed, availableSeeds, currentSeed, slot>>
      /\ H \in Nat /\ A \in Nat /\ Len(stream) \in Nat
  BY DEF TypeOK, SendTuple, peerVars, mainVars, poolVars
<1>2. /\ Len(stream') = Len(stream) + 1
      /\ \A i \in 1 .. Len(stream) : stream'[i] = stream[i]
      /\ stream'[Len(stream) + 1] = sent + 1
  BY <1>1, AppendProperties
<1>3. Total' = Total + 1 /\ Total \in Nat
  BY <1>1, <1>2 DEF Total
<1>4. ASSUME NEW p \in 1 .. Total
      PROVE  Number(p)' = Number(p)
  <2>1. CASE p <= H + A
    BY <1>1, <2>1 DEF Number
  <2>2. CASE p > H + A
    <3>1. p - H - A \in 1 .. Len(stream) /\ ~(p <= H) /\ ~(p <= H + A)
      BY <1>1, <2>2 DEF Total
    <3> QED
      BY <1>1, <1>2, <3>1 DEF Number
  <2> QED
    BY <1>1, <2>1, <2>2
<1>5. ASSUME NEW p \in Nat, p = Total + 1
      PROVE  Number(p)' = sent + 1
  <2>1. ~(p <= H) /\ ~(p <= H + A) /\ p - H - A = Len(stream) + 1
    BY <1>1, <1>5 DEF Total
  <2> QED
    BY <1>1, <1>2, <2>1 DEF Number
<1> QED
  BY <1>3, <1>4, <1>5

(* The bound and the order of the numbers, of all of them. *)
LEMMA GrowNext ==
  ASSUME TypeOK, CounterInv, RoomInv, PlaceInv, GrowInv, [Next]_vars
  PROVE  GrowInv'
<1> SUFFICES ASSUME ~overlap', ~failed'
             PROVE  /\ \A p, q \in 1 .. Total' :
                         p < q => Number(p)' < Number(q)'
                    /\ up' => \A p \in 1 .. Total' : Number(p)' <= sent'
  BY DEF GrowInv
<1>1. /\ ~overlap /\ Total \in Nat /\ sent \in Nat
      /\ \A p, q \in 1 .. Total : p < q => Number(p) < Number(q)
      /\ up => \A p \in 1 .. Total : Number(p) <= sent
  BY FlagsStay DEF GrowInv, TypeOK, Total
<1>2. CASE MainStep /\ TakeSeed
  BY <1>1, <1>2, TakeNumbers, TakeOne
<1>3. ASSUME NEW t \in Thread, Receive(t)
      PROVE  /\ \A p, q \in 1 .. Total' : p < q => Number(p)' < Number(q)'
             /\ up' => \A p \in 1 .. Total' : Number(p)' <= sent'
  <2> DEFINE E == Len(handed) + availableSeeds + 1
  <2>1. PICK k \in 1 .. Len(stream) :
          /\ Total' = Total - (k - 1)
          /\ \A p \in 1 .. Total' :
               Number(p)' = IF p <= E THEN Number(p) ELSE Number(p + (k - 1))
    BY <1>1, <1>3, ReceiveNumbers
  <2>2. sent' = sent /\ up' = up
    BY <1>1, <1>3, RoomToRead
  <2>3. /\ k \in Nat /\ k >= 1 /\ E \in Nat
        /\ \A p \in 1 .. Total' : p \in 1 .. Total /\ p + (k - 1) \in 1 .. Total
    BY <1>1, <2>1 DEF TypeOK
  <2> HIDE DEF E
  <2>4. ASSUME NEW p \in 1 .. Total', NEW q \in 1 .. Total', p < q
        PROVE  Number(p)' < Number(q)'
    <3> DEFINE w(i) == IF i <= E THEN i ELSE i + (k - 1)
    <3>1. w(p) < w(q) /\ w(p) \in 1 .. Total /\ w(q) \in 1 .. Total
      BY <2>3, <2>4
    <3>2. Number(p)' = Number(w(p)) /\ Number(q)' = Number(w(q))
      BY <2>1
    <3> QED
      BY <1>1, <3>1, <3>2
  <2>5. ASSUME up', NEW p \in 1 .. Total'
        PROVE  Number(p)' <= sent'
    <3>1. Number(p)' = Number(p) \/ Number(p)' = Number(p + (k - 1))
      BY <2>1
    <3> QED
      BY <1>1, <2>2, <2>3, <2>5, <3>1
  <2> QED
    BY <2>4, <2>5
<1>4. CASE SendTuple
  <2>1. /\ Total' = Total + 1 /\ up /\ sent' = sent + 1
        /\ \A p \in 1 .. Total : Number(p)' = Number(p)
        /\ \A p \in Nat : p = Total + 1 => Number(p)' = sent + 1
    BY <1>4, SendNumbers DEF SendTuple
  <2>2. ASSUME NEW p \in 1 .. Total'
        PROVE  \/ p \in 1 .. Total /\ Number(p)' = Number(p)
               \/ p = Total + 1 /\ Number(p)' = sent + 1
    <3>1. p \in Nat /\ (p \in 1 .. Total \/ p = Total + 1)
      BY <1>1, <2>1
    <3> QED
      BY <2>1, <3>1
  <2>3. ASSUME NEW p \in 1 .. Total
        PROVE  Number(p) <= sent /\ Number(p) < sent + 1 /\ Number(p) <= sent + 1
    <3>1. Number(p) \in Nat
      BY <1>1, NumberType
    <3> QED
      BY <1>1, <2>1, <3>1
  <2>4. ASSUME NEW p \in 1 .. Total', NEW q \in 1 .. Total', p < q
        PROVE  Number(p)' < Number(q)'
    <3>1. p \in 1 .. Total
      BY <1>1, <2>1, <2>4
    <3>2. Number(p)' = Number(p)
      BY <2>1, <3>1
    <3>3. CASE q \in 1 .. Total
      BY <1>1, <2>1, <2>4, <3>1, <3>2, <3>3
    <3>4. CASE q = Total + 1 /\ Number(q)' = sent + 1
      BY <2>3, <3>1, <3>2, <3>4
    <3> QED
      BY <2>2, <3>3, <3>4
  <2>5. ASSUME NEW p \in 1 .. Total'
        PROVE  Number(p)' <= sent'
    BY <1>1, <2>1, <2>2, <2>3
  <2> QED
    BY <2>4, <2>5
<1>5. CASE Disconnect \/ UNCHANGED memoryVars
  <2>1. /\ Total' = Total
        /\ \A p \in 1 .. Total : Number(p)' = Number(p)
    BY <1>5
    DEF Disconnect, memoryVars, peerVars, mainVars, poolVars, Total, Number
  <2>2. up' => up /\ sent' = sent
    BY <1>5 DEF Disconnect, memoryVars
  <2> QED
    BY <1>1, <2>1, <2>2
<1>6. \A t \in Thread : ~ReceiveFails(t)
  BY DEF ReceiveFails
<1> QED
  BY <1>2, <1>3, <1>4, <1>5, <1>6, OtherSteps

-----------------------------------------------------------------------------
(* No tuple is missing                                                     *)

NamesHold ==
  /\ \A k \in 0 .. availableSeeds-1 :
       slot[At(MaxSeeds, currentSeed, k)] = Named(Len(handed) + k + 1)
  /\ \A i \in 1 .. Len(stream) : stream[i] = Len(handed) + availableSeeds + i
  /\ up => sent = Total

LEMMA NamesByTake ==
  ASSUME TypeOK, CounterInv, RoomInv, ~overlap, NamesHold, MainStep, TakeSeed
  PROVE  NamesHold'
<1>1. /\ availableSeeds \in 1 .. MaxSeeds /\ availableSeeds' = availableSeeds - 1
      /\ currentSeed' = Behind1(MaxSeeds, currentSeed)
      /\ handed' = Append(handed, slot[currentSeed])
      /\ UNCHANGED <<slot, stream, sent, up>>
  BY TakeOne
<1>2. /\ currentSeed \in 0 .. MaxSeeds-1 /\ MaxSeeds \in Nat \ {0}
      /\ Len(handed) \in Nat /\ Len(handed') = Len(handed) + 1
  BY <1>1, MaxSeedsAssumption DEF TypeOK
<1>3. ASSUME NEW k \in 0 .. availableSeeds'-1
      PROVE  slot'[At(MaxSeeds, currentSeed', k)] = Named(Len(handed') + k + 1)
  <2>1. k \in 0 .. MaxSeeds-1 /\ k + 1 \in 0 .. availableSeeds-1
    BY <1>1, <1>2
  <2>2. At(MaxSeeds, currentSeed', k) = At(MaxSeeds, currentSeed, k + 1)
    BY <1>1, <1>2, <2>1, AtSuccessor
  <2>3. Len(handed') + k + 1 = Len(handed) + (k + 1) + 1
    BY <1>2
  <2> QED
    BY <1>1, <2>1, <2>2, <2>3 DEF NamesHold
<1>4. /\ Len(handed') + availableSeeds' = Len(handed) + availableSeeds
      /\ Total' = Total
  BY <1>1, <1>2, TakeNumbers
<1> QED
  BY <1>1, <1>3, <1>4 DEF NamesHold

LEMMA NamesByReceive ==
  ASSUME TypeOK, RoomInv, PlaceInv, ~overlap, NamesHold,
         NEW t \in Thread, Receive(t), ~dropped'
  PROVE  NamesHold'
<1> DEFINE H == Len(handed)
           A == availableSeeds
<1>1. /\ slot' = [slot EXCEPT ![currentPreSeed] = Named(stream[1])]
      /\ 1 \in 1 .. Len(stream)
      /\ Len(stream') = Len(stream) - 1
      /\ \A i \in 1 .. Len(stream') : stream'[i] = stream[1 + i]
  <2>1. PICK k \in 1 .. Len(stream) :
          /\ slot' = [slot EXCEPT ![currentPreSeed] =
                        [seed |-> stream[1], value |-> stream[1]]]
          /\ Len(stream') = Len(stream) - k
          /\ \A i \in 1 .. Len(stream') : stream'[i] = stream[k + i]
          /\ dropped' = (dropped \/ k > 1)
    BY ReceiveOne
  <2>2. ~(k > 1)
    BY <2>1
  <2>3. k = 1
    BY <2>2 DEF TypeOK
  <2> QED
    BY <2>1, <2>3 DEF Named
<1>2. /\ A \in 0 .. MaxSeeds-1 /\ A' = A + 1
      /\ UNCHANGED <<handed, currentSeed, sent, up>>
  BY RoomToRead
<1>3. /\ H \in Nat /\ Len(stream) \in Nat
      /\ currentSeed \in 0 .. MaxSeeds-1 /\ MaxSeeds \in Nat \ {0}
      /\ currentPreSeed = At(MaxSeeds, currentSeed, A)
      /\ slot \in [0 .. MaxSeeds-1 -> Tuple]
      /\ currentPreSeed \in 0 .. MaxSeeds-1
  BY MaxSeedsAssumption DEF TypeOK, PlaceInv
<1>4. Total' = Total
  BY <1>1, <1>2, <1>3 DEF Total
<1>5. ASSUME NEW k \in 0 .. A'-1
      PROVE  slot'[At(MaxSeeds, currentSeed', k)] = Named(Len(handed') + k + 1)
  <2>1. CASE k = A
    <3>1. stream[1] = H + A + 1
      BY <1>1 DEF NamesHold
    <3> QED
      BY <1>1, <1>2, <1>3, <2>1, <3>1
  <2>2. CASE k # A
    <3>1. k \in 0 .. A-1 /\ k \in 0 .. MaxSeeds-1 /\ k \in 0 .. MaxSeeds
      BY <1>2, <1>3, <2>2
    <3>2. /\ At(MaxSeeds, currentSeed, k) # currentPreSeed
          /\ At(MaxSeeds, currentSeed, k) \in 0 .. MaxSeeds-1
      BY <1>2, <1>3, <2>2, <3>1, AtDiffers, AtInside
    <3>3. slot[At(MaxSeeds, currentSeed, k)] = Named(H + k + 1)
      BY <3>1 DEF NamesHold
    <3> QED
      BY <1>1, <1>2, <1>3, <3>2, <3>3
  <2> QED
    BY <2>1, <2>2
<1>6. ASSUME NEW i \in 1 .. Len(stream')
      PROVE  stream'[i] = Len(handed') + A' + i
  <2>1. 1 + i \in 1 .. Len(stream) /\ H + A + (1 + i) = H + (A + 1) + i
    BY <1>1, <1>2, <1>3
  <2>2. stream[1 + i] = H + A + (1 + i)
    BY <2>1 DEF NamesHold
  <2> QED
    BY <1>1, <1>2, <2>1, <2>2
<1> QED
  BY <1>2, <1>4, <1>5, <1>6 DEF NamesHold

LEMMA NamesBySend ==
  ASSUME TypeOK, NamesHold, SendTuple
  PROVE  NamesHold'
<1>1. /\ stream \in Seq(Nat) /\ sent + 1 \in Nat /\ sent = Total /\ sent' = sent + 1
      /\ stream' = Append(stream, sent + 1)
      /\ UNCHANGED <<handed, availableSeeds, currentSeed, slot>>
      /\ Len(handed) \in Nat /\ availableSeeds \in Nat /\ Len(stream) \in Nat
  BY DEF TypeOK, SendTuple, NamesHold, peerVars, mainVars, poolVars
<1>2. /\ Len(stream') = Len(stream) + 1
      /\ \A i \in 1 .. Len(stream) : stream'[i] = stream[i]
      /\ stream'[Len(stream) + 1] = sent + 1
  BY <1>1, AppendProperties
<1>3. ASSUME NEW i \in 1 .. Len(stream')
      PROVE  stream'[i] = Len(handed) + availableSeeds + i
  <2>1. i \in 1 .. Len(stream) \/ i = Len(stream) + 1
    BY <1>1, <1>2
  <2>2. sent + 1 = Len(handed) + availableSeeds + (Len(stream) + 1)
    BY <1>1 DEF Total
  <2> QED
    BY <1>2, <2>1, <2>2 DEF NamesHold
<1>4. Total' = Total + 1
  BY <1>1, <1>2 DEF Total
<1> QED
  BY <1>1, <1>3, <1>4 DEF NamesHold

LEMMA NameNext ==
  ASSUME TypeOK, CounterInv, RoomInv, PlaceInv, NameInv, [Next]_vars
  PROVE  NameInv'
<1> SUFFICES ASSUME ~Degraded'
             PROVE  NamesHold'
  BY DEF NameInv, NamesHold
<1>1. ~overlap /\ NamesHold /\ ~dropped' /\ ~failed'
  <2>1. ~Degraded
    BY FlagsStay DEF Degraded
  <2> QED
    BY <2>1 DEF NameInv, NamesHold, Degraded
<1>2. CASE MainStep /\ TakeSeed
  BY <1>1, <1>2, NamesByTake
<1>3. ASSUME NEW t \in Thread, Receive(t)
      PROVE  NamesHold'
  BY <1>1, <1>3, NamesByReceive
<1>4. CASE SendTuple
  BY <1>1, <1>4, NamesBySend
<1>5. CASE Disconnect \/ UNCHANGED memoryVars
  <2>1. /\ UNCHANGED <<handed, availableSeeds, currentSeed, slot, stream>>
        /\ up' => up /\ sent' = sent
    BY <1>5 DEF Disconnect, memoryVars, peerVars, mainVars, poolVars
  <2> QED
    BY <1>1, <2>1 DEF NamesHold, Total
<1>6. \A t \in Thread : ~ReceiveFails(t)
  BY <1>1 DEF ReceiveFails
<1> QED
  BY <1>2, <1>3, <1>4, <1>5, <1>6, OtherSteps

-----------------------------------------------------------------------------
(* The inductive invariant and what follows from it                        *)

LEMMA LinkInvInit == Init => LinkInv
<1> SUFFICES ASSUME Init
             PROVE  LinkInv
  OBVIOUS
<1>1. /\ main = "idle" /\ availableSeeds = 0 /\ currentSeed = 0
      /\ currentPreSeed = 0 /\ handed = <<>> /\ stream = <<>> /\ sent = 0
      /\ pc = [t \in Thread |-> IF t = 1 THEN "begin" ELSE "idle"]
  BY DEF Init, PoolInit
<1>2. Total = 0
  BY <1>1 DEF Total
<1>3. 1 \in Thread /\ pc[1] \in WillFill
  BY <1>1, ThreadsAssumption DEF Thread, WillFill
<1>4. \A t \in Thread : pc[t] \notin Started
  BY <1>1 DEF Started
<1>5. {"enter", "receive"} \subseteq Started
  BY DEF Started
<1>6. CounterInv /\ FillInv /\ OneInv /\ CommandInv
  BY <1>1, <1>3, <1>4 DEF CounterInv, FillInv, OneInv, CommandInv
<1>7. RoomInv /\ PlaceInv
  BY <1>1, <1>4, <1>5, MaxSeedsAssumption DEF RoomInv, PlaceInv, At
<1>8. GrowInv /\ NameInv
  BY <1>1, <1>2 DEF GrowInv, NameInv
<1> QED
  BY <1>6, <1>7, <1>8, InitTypeOK DEF LinkInv

LEMMA LinkInvNext == LinkInv /\ [Next]_vars => LinkInv'
BY NextTypeOK, CounterNext, FillNext, OneNext, CommandNext, RoomNext, PlaceNext,
   GrowNext, NameNext
DEF LinkInv

LEMMA LinkInvariant == Spec => []LinkInv
BY LinkInvInit, LinkInvNext, PTL DEF Spec

(***************************************************************************)
(* Whatever a read drops and whatever the central server sends behind a    *)
(* stop command, the numbers of the tuples handed out grow, so that no     *)
(* tuple is handed out twice, as long as one thread at a time has started  *)
(* the central server and no read has failed.                              *)
(***************************************************************************)
THEOREM LinkKeepsOrder == Spec => []KeepsOrder
<1>1. LinkInv => KeepsOrder
  <2> SUFFICES ASSUME TypeOK, GrowInv, ~overlap, ~failed,
                      NEW i \in 1 .. Len(handed), NEW j \in 1 .. Len(handed), i < j
               PROVE  handed[i].seed < handed[j].seed
    BY DEF LinkInv, KeepsOrder
  <2>1. /\ i \in 1 .. Total /\ j \in 1 .. Total
        /\ i <= Len(handed) /\ j <= Len(handed)
    BY DEF TypeOK, Total
  <2>2. Number(i) < Number(j)
    BY <2>1 DEF GrowInv
  <2> QED
    BY <2>1, <2>2 DEF Number
<1> QED
  BY <1>1, LinkInvariant, PTL

(***************************************************************************)
(* A thread that waits in a read, with the mutex, is served: the last word *)
(* to the central server is a start command, as long as no two threads had *)
(* started it at once and the connection is up.                            *)
(***************************************************************************)
THEOREM LinkReaderServed == Spec => []ReaderServed
<1>1. LinkInv => ReaderServed
  BY DEF LinkInv, CommandInv, ReaderServed, Started
<1> QED
  BY <1>1, LinkInvariant, PTL

(***************************************************************************)
(* A session that waits at an empty memory has a thread that will look for *)
(* room, with PAUSECONDITION 0 and while no thread has given up.           *)
(***************************************************************************)
THEOREM LinkSomeThreadFills == Spec => []SomeThreadFills
<1>1. LinkInv => SomeThreadFills
  BY DEF LinkInv, FillInv, SomeThreadFills
<1> QED
  BY <1>1, LinkInvariant, PTL

-----------------------------------------------------------------------------
(* The memory implements the queue                                         *)

\* The memory shows the tuples behind the last one that was handed out.
ShowsRun == ~Degraded => Queued = Run(Len(handed), availableSeeds)

LEMMA QueuedIsRun == LinkInv => ShowsRun
<1> SUFFICES ASSUME LinkInv, ~Degraded
             PROVE  Queued = Run(Len(handed), availableSeeds)
  BY DEF ShowsRun
<1>1. /\ MaxSeeds \in Nat \ {0} /\ currentSeed \in 0 .. MaxSeeds-1
      /\ availableSeeds \in 0 .. MaxSeeds /\ Len(handed) \in Nat
  BY MaxSeedsAssumption DEF LinkInv, TypeOK, RoomInv, Degraded
<1>2. ASSUME NEW i \in 1 .. availableSeeds
      PROVE  slot[(currentSeed + i - 1) % MaxSeeds] = Named(Len(handed) + i)
  <2>1. i - 1 \in 0 .. availableSeeds-1 /\ i - 1 \in 0 .. MaxSeeds
    BY <1>1
  <2>2. /\ currentSeed + i - 1 = currentSeed + (i - 1)
        /\ Len(handed) + (i - 1) + 1 = Len(handed) + i
    BY <1>1
  <2>3. (currentSeed + (i - 1)) % MaxSeeds = At(MaxSeeds, currentSeed, i - 1)
    BY <1>1, <2>1, AtRemainder
  <2>4. slot[At(MaxSeeds, currentSeed, i - 1)] = Named(Len(handed) + (i - 1) + 1)
    BY <2>1 DEF LinkInv, NameInv
  <2> QED
    BY <2>2, <2>3, <2>4
<1> QED
  BY <1>2 DEF Queued, Run

(* Every step of the memory and of the connection is a step of the queue   *)
(* or none.                                                                *)
LEMMA StepIsQueueStep ==
  ASSUME LinkInv, ShowsRun, ShowsRun', [Next]_vars
  PROVE  [Queue!Next]_(Queue!vars)
<1>1. CASE Degraded'
  BY <1>1 DEF Queue!Next
<1> SUFFICES ASSUME ~Degraded'
             PROVE  [Queue!Next]_(Queue!vars)
  BY <1>1
<1>2. ~Degraded /\ ~overlap /\ ~failed'
  BY FlagsStay DEF LinkInv, Degraded
<1>3. Degraded' = Degraded
  BY <1>2 DEF Degraded
<1> DEFINE H == Len(handed)
           A == availableSeeds
<1>4. H \in Nat /\ A \in Nat
  BY DEF LinkInv, TypeOK
<1>5. Queued = Run(H, A)
  BY <1>2 DEF ShowsRun
<1>6. Queued' = Run(H', A')
  BY DEF ShowsRun
<1>7. CASE handed' = handed /\ A' = A
  <2>1. Queued' = Queued
    BY <1>5, <1>6, <1>7
  <2> QED
    BY <1>3, <1>7, <2>1 DEF Queue!vars
<1>8. CASE MainStep /\ TakeSeed
  <2>1. /\ A \in 1 .. MaxSeeds /\ A' = A - 1 /\ slot[currentSeed] \in Tuple
        /\ handed' = Append(handed, slot[currentSeed])
    BY <1>2, <1>8, TakeOne DEF LinkInv
  <2>2. H' = H + 1 /\ slot[currentSeed] = Named(H + 1)
    <3>1. /\ currentSeed \in 0 .. MaxSeeds-1 /\ handed \in Seq(Tuple)
          /\ 0 \in 0 .. A-1 /\ MaxSeeds \in Nat \ {0} /\ 0 \in 0 .. MaxSeeds-1
      BY <2>1, MaxSeedsAssumption DEF LinkInv, TypeOK
    <3>2. At(MaxSeeds, currentSeed, 0) = currentSeed
      BY <3>1, AtSuccessor
    <3>3. slot[At(MaxSeeds, currentSeed, 0)] = Named(H + 0 + 1)
      BY <1>2, <3>1 DEF LinkInv, NameInv
    <3> QED
      BY <1>4, <2>1, <3>1, <3>2, <3>3
  <2>3. /\ Queued # <<>> /\ Head(Queued) = slot[currentSeed]
        /\ Tail(Queued) = Queued'
    <3>1. A > 0
      BY <2>1, MaxSeedsAssumption
    <3>2. /\ Run(H, A) # <<>> /\ Head(Run(H, A)) = Named(H + 1)
          /\ Tail(Run(H, A)) = Run(H + 1, A - 1)
      BY <1>4, <3>1, RunTail
    <3> QED
      BY <1>5, <1>6, <2>1, <2>2, <3>2
  <2>4. Queue!Take
    BY <1>2, <2>1, <2>3 DEF Queue!Take
  <2> QED
    BY <1>3, <2>4 DEF Queue!Next
<1>9. ASSUME NEW t \in Thread, Receive(t)
      PROVE  [Queue!Next]_(Queue!vars)
  <2>1. handed' = handed /\ A \in 0 .. MaxSeeds-1 /\ A' = A + 1
    BY <1>2, <1>9, RoomToRead DEF LinkInv
  <2>2. Queued' = Append(Queued, Named(H + A + 1)) /\ Len(Queued) = A
    <3>1. /\ Append(Run(H, A), Named(H + A + 1)) = Run(H, A + 1)
          /\ Len(Run(H, A)) = A
      BY <1>4, RunAppend, RunShape
    <3> QED
      BY <1>5, <1>6, <2>1, <3>1
  <2>3. Queue!NextTuple = Named(H + A + 1)
    BY <1>2, <2>2 DEF Queue!NextTuple, Named
  <2>4. Len(Queued) < MaxSeeds
    BY <2>1, <2>2, MaxSeedsAssumption
  <2>5. Queue!Put
    BY <1>2, <2>1, <2>2, <2>3, <2>4 DEF Queue!Put
  <2> QED
    BY <1>3, <2>5 DEF Queue!Next
<1>10. CASE SendTuple \/ Disconnect \/ UNCHANGED memoryVars
  BY <1>7, <1>10
  DEF SendTuple, Disconnect, memoryVars, peerVars, mainVars, poolVars
<1>11. \A t \in Thread : ~ReceiveFails(t)
  BY <1>2 DEF ReceiveFails
<1> QED
  BY <1>8, <1>9, <1>10, <1>11, OtherSteps DEF LinkInv

(***************************************************************************)
(* The memory filled over the connection is a bounded queue: every tuple   *)
(* the central server sends is handed out exactly once and in order, for   *)
(* every capacity and any number of sessions, until two threads have       *)
(* started the central server at once, the mutex is broken, or a read has  *)
(* failed or dropped a tuple.                                              *)
(***************************************************************************)
THEOREM LinkImplementsQueue == Spec => ImplementsQueue
<1>1. Init => Queue!Init
  <2> SUFFICES ASSUME Init
               PROVE  Queue!Init
    OBVIOUS
  <2>1. ~Degraded /\ handed = <<>> /\ availableSeeds = 0
    BY DEF Init, PoolInit, Degraded
  <2>2. Queued = <<>>
    BY <2>1 DEF Queued
  <2> QED
    BY <2>1, <2>2 DEF Queue!Init
<1>2. LinkInv => ShowsRun
  BY QueuedIsRun
<1>3. LinkInv /\ ShowsRun /\ ShowsRun' /\ [Next]_vars
        => [Queue!Next]_(Queue!vars)
  BY StepIsQueueStep
<1> QED
  BY <1>1, <1>2, <1>3, LinkInvariant, PTL
  DEF Spec, ImplementsQueue, Queue!Spec
=============================================================================

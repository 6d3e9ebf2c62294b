------------------------------ MODULE Pipeline ------------------------------
(***************************************************************************)
(* A query as it is sent and executed in the build with PIPELINE: the      *)
(* client writes it in chunks, conHandler::start reads the chunks and says *)
(* how many bytes there are, and execute, in a thread of its own, adds the *)
(* entry of a group as soon as it believes that the group's byte is there. *)
(*                                                                         *)
(* The threads share availableBytes and querySent, which are neither       *)
(* atomic nor protected, and execute resets both when it begins, although  *)
(* the reader has not waited for it.  Every access is a step of its own.   *)
(* A byte of the query is for one group; dest is the set of the entries it *)
(* is the exclusive or of, <<group, whether its byte was the client's>>.   *)
(***************************************************************************)
EXTENDS Integers

CONSTANTS
  QuerySize,  \* getQuerySize, and the groups of the server's own chunk
  ChunkSize   \* PIPELINE_CHUNK_SIZE

ASSUME QuerySizeAssumption == QuerySize \in Nat
ASSUME ChunkSizeAssumption == ChunkSize \in Nat \ {0}

VARIABLES
  sent,       \* the client: transferredBytes
  hungUp,     \* whether the client has ended
  reader,     \* where conHandler::start is
  received,   \* its receivedBytes
  position,   \* how many bytes of the stream it has read
  placed,     \* the bytes of its buffer that are those of the query
  loaded,     \* availableBytes as addBytes loads it
  available,  \* availableBytes
  complete,   \* querySent
  executor,   \* where execute is
  current,    \* its currentGroup
  answer,     \* its dest
  overtaken,  \* history: execute began only after the query was complete
  mixed       \* history: execute reset availableBytes during an addition

clientVars   == <<sent, hungUp>>
readerVars   == <<reader, received, position, placed, loaded>>
executorVars == <<executor, current, answer>>
historyVars  == <<overtaken, mixed>>
pipelineVars == <<clientVars, readerVars, available, complete, executorVars, historyVars>>

\* The two members are left over from the session before, or never set.
PipelineInit ==
  /\ sent = 0 /\ hungUp = FALSE
  /\ reader = "read" /\ received = 0 /\ position = 0 /\ placed = {} /\ loaded = 0
  /\ available \in {0, QuerySize}
  /\ complete \in BOOLEAN
  /\ executor = "begin" /\ current = 0 /\ answer = {}
  /\ overtaken = FALSE /\ mixed = FALSE

\* The size of the next chunk behind done bytes.
NextChunk(done) ==
  IF done + ChunkSize > QuerySize THEN QuerySize - done ELSE ChunkSize

\* sendChunks, one write of its loop.
SendChunk ==
  /\ ~hungUp /\ sent < QuerySize
  /\ sent' = sent + NextChunk(sent)
  /\ UNCHANGED <<hungUp, readerVars, available, complete, executorVars, historyVars>>

HangUp ==
  /\ ~hungUp /\ hungUp' = TRUE
  /\ UNCHANGED <<sent, readerVars, available, complete, executorVars, historyVars>>

-----------------------------------------------------------------------------
\* read_some takes what there is of a chunk, at least one byte, or fails;
\* receivedBytes goes ahead by the chunk all the same.
Read ==
  /\ reader = "read" /\ received < QuerySize
  /\ \E k \in 0 .. NextChunk(received) :
       /\ k <= sent - position
       /\ k > 0 \/ (hungUp /\ sent = position)
       /\ placed' = IF position = received THEN placed \cup (received .. received + k - 1)
                                           ELSE placed
       /\ position' = position + k
  /\ reader' = "load"
  /\ UNCHANGED <<clientVars, received, loaded, available, complete, executorVars,
                 historyVars>>

\* addBytes: a load and a store.
LoadAvailable ==
  /\ reader = "load" /\ reader' = "store"
  /\ loaded' = available
  /\ UNCHANGED <<clientVars, received, position, placed, available, complete,
                 executorVars, historyVars>>

StoreAvailable ==
  /\ reader = "store" /\ reader' = "read"
  /\ available' = loaded + NextChunk(received)
  /\ received' = received + NextChunk(received)
  /\ UNCHANGED <<clientVars, position, placed, loaded, complete, executorVars,
                 historyVars>>

\* MUTANT: the end of the query is not said.
QuerySilent ==
  /\ reader = "read" /\ received >= QuerySize /\ reader' = "join"
  /\ UNCHANGED <<clientVars, received, position, placed, loaded, available,
                 complete, executorVars, historyVars>>

QueryComplete ==
  /\ reader = "read" /\ received >= QuerySize /\ reader' = "join"
  /\ complete' = TRUE
  /\ UNCHANGED <<clientVars, received, position, placed, loaded, available,
                 executorVars, historyVars>>

Join ==
  /\ reader = "join" /\ executor = "end" /\ reader' = "end"
  /\ UNCHANGED <<clientVars, received, position, placed, loaded, available,
                 complete, executorVars, historyVars>>

Reader == Read \/ LoadAvailable \/ StoreAvailable \/ QueryComplete \/ Join

-----------------------------------------------------------------------------
\* execute from its beginning to its end (PeerPool has what it does with the
\* thread of precompute).
ClearComplete ==
  /\ executor = "begin" /\ executor' = "clear"
  /\ complete' = FALSE
  /\ overtaken' = (reader = "join")
  /\ UNCHANGED <<clientVars, readerVars, available, current, answer, mixed>>

ClearAvailable ==
  /\ executor = "clear" /\ executor' = "test"
  /\ available' = 0
  /\ mixed' = (reader = "store")
  /\ UNCHANGED <<clientVars, readerVars, complete, current, answer, overtaken>>

TestComplete ==
  /\ executor = "test"
  /\ executor' = IF complete THEN "rest" ELSE "look"
  /\ UNCHANGED <<clientVars, readerVars, available, complete, current, answer,
                 historyVars>>

\* MUTANT: takes the byte behind those that are there.
LookAhead ==
  /\ executor = "look"
  /\ executor' = IF available >= current THEN "add" ELSE "test"
  /\ UNCHANGED <<clientVars, readerVars, available, complete, current, answer,
                 historyVars>>

Look ==
  /\ executor = "look"
  /\ executor' = IF available > current THEN "add" ELSE "test"
  /\ UNCHANGED <<clientVars, readerVars, available, complete, current, answer,
                 historyVars>>

EntryOf(g) == <<g, g \in placed>>

\* xorFullBlocks, with the byte the buffer has now.
AddEntry ==
  /\ executor = "add" /\ executor' = "test"
  /\ answer' = answer \cup {EntryOf(current)}
  /\ current' = current + 1
  /\ UNCHANGED <<clientVars, readerVars, available, complete, historyVars>>

\* fastxor for groups - currentGroup groups; the difference wraps around.
Rest ==
  /\ executor = "rest"
  /\ IF current <= QuerySize
     THEN /\ answer' = answer \cup {EntryOf(g) : g \in current .. QuerySize - 1}
          /\ executor' = "end"
     ELSE /\ executor' = "crashed" /\ UNCHANGED answer
  /\ UNCHANGED <<clientVars, readerVars, available, complete, current, historyVars>>

Executor ==
  \/ ClearComplete \/ ClearAvailable \/ TestComplete \/ Look \/ AddEntry \/ Rest

PipelineStep == SendChunk \/ HangUp \/ Reader \/ Executor

PipelineSpec == PipelineInit /\ [][PipelineStep]_pipelineVars

\* The client goes on sending or ends, both threads are scheduled.
PipelineFairness ==
  /\ WF_pipelineVars(SendChunk \/ HangUp)
  /\ WF_pipelineVars(Reader) /\ WF_pipelineVars(Executor)

-----------------------------------------------------------------------------
(***************************************************************************)
(* What is added early is right: a byte is used only when it has been read *)
(* and no group is left out or taken from behind the query, whatever the   *)
(* counter was before and however much of it the reset has taken back.     *)
(* Two things break it: a read of a part of a chunk, and a reset between   *)
(* the load and the store of an addition, which brings the counter of the  *)
(* session before back.                                                    *)
(***************************************************************************)
Whole == placed = 0 .. QuerySize - 1

AnswerExact ==
  /\ ~mixed => current <= QuerySize /\ executor # "crashed"
  /\ executor = "end" /\ Whole /\ ~mixed =>
       answer = {<<g, TRUE>> : g \in 0 .. QuerySize - 1}

(***************************************************************************)
(* The session ends whether the client sends everything or not, unless     *)
(* execute began only after the whole query had been read: then it resets  *)
(* querySent, nobody sets it again, and the server serves nobody any more. *)
(***************************************************************************)
SessionEnds == []~overtaken => <>(reader = "end" \/ executor = "crashed")
=============================================================================

----------------------------- MODULE PirSession -----------------------------
(***************************************************************************)
(* The retrieval protocol between the clients (RAID_pirClient) and the     *)
(* peer servers (RAID_pirServer with its Server / conHandler listener).    *)
(*                                                                         *)
(* A client runs one request over one connection per server.  Each phase   *)
(* of the request starts one thread per server and joins them all before   *)
(* the next phase starts.  A server runs conHandler::start synchronously   *)
(* on the only thread of its io_service, so it serves one connection at a  *)
(* time and the others wait in the listen backlog.                         *)
(*                                                                         *)
(* The servers are those of the build without USE_CUDA_ON_PEER, OPEN_MP    *)
(* and PIPELINE.  Where a chunk lies in a buffer is abstracted to the set  *)
(* of its blocks, the expansion of a seed to the set of blocks whose bit   *)
(* it sets, and the precomputed tuple a server takes is one whose value    *)
(* belongs to its seed (PeerPool says when that is so).                    *)
(***************************************************************************)
EXTENDS BlockXor, Sequences

CONSTANTS
  N,         \* SERVERS
  Chunks,    \* CHUNKS: how many consecutive chunks a server holds
  Connected, \* how many servers the application passes to addServer
  Client,
  Block,     \* the blocks of the database
  ChunkOf,   \* the chunk, named by the server that answers for it, of a block
  InitLen,   \* bytes the client sends to server 0 to start a session
  FeSize,    \* bytes of a field element, the most server 0 reads of them
  Api,       \* the entry point the application calls
  MayAbort,  \* the clients whose process may end at any time
  MayCrash   \* the servers whose process may end at any time

Server == 0 .. N-1

ASSUME NAssumption         == N \in Nat \ {0}
ASSUME ChunksAssumption    == Chunks \in 1 .. N
ASSUME ConnectedAssumption == Connected \in 0 .. N
ASSUME ChunkOfAssumption   == ChunkOf \in [Block -> Server]
ASSUME BytesAssumption     == InitLen \in Nat /\ FeSize \in Nat \ {0}
ASSUME ApiAssumption       == Api \in {"checkHash", "request"}
ASSUME AbortAssumption     == MayAbort \subseteq Client
ASSUME CrashAssumption     == MayCrash \subseteq Server

VARIABLES
  phase,     \* what the client's main thread is doing
  todo,      \* servers whose thread of the current phase is still running
  index,     \* the block the client wants
  querybuf,  \* RAID_pirClient::querybuf
  resultbuf, \* RAID_pirClient::resultbuf
  down,      \* servers whose process has ended
  backlog,   \* connections the server has not accepted yet
  link,      \* state of the connection between a client and a server
  dest,      \* value of the tuple in seedBuffer, then the answer
  query,     \* the server's query buffer
  upInit,    \* initialization bytes on their way to the server
  upQuery,   \* {} or {the query on its way to the server}
  seedWire,  \* {} or {the seed on its way to the client}
  answerWire,\* {} or {the answer on its way to the client}
  issued,    \* history: expansion of the seed the server handed out
  torn       \* history: a server went down during the request, or took for
             \* the query what was not all of it

clientVars == <<phase, todo, index, querybuf, resultbuf>>
serverVars == <<down, backlog, link, dest, query>>
wireVars   == <<upInit, upQuery, seedWire, answerWire>>
vars == <<clientVars, serverVars, wireVars, issued, torn>>

Phase == {"connect", "init", "seeds", "query", "results", "done", "aborted"}
Serving == {"init", "seed", "query", "execute"}
Link == {"none", "queued", "closed"} \cup Serving

\* addServer fills sockets in the order of the calls; rcv and send fail for
\* an id that is not below sockets.size().
Added == {s \in Server : s < Connected}

\* The blocks server s answers for online: its own chunk (chunksGroupsMap[id]).
ChunkBlocks(s) == {b \in Block : ChunkOf[b] = s}

\* The chunks a seed of server s is expanded over: groupsright (those after
\* s), then groupsleft (those that wrap around to the first ones).
MaskChunks(s) ==
  {k \in Server : (s < k /\ k < s + Chunks) \/ k + N < s + Chunks}

MaskBlocks(s) == {b \in Block : ChunkOf[b] \in MaskChunks(s)}

\* MUTANT: only an orderly end is noticed.
EndedInOrder(c, s) == link[c][s] = "closed" /\ s \notin down

\* The server's end of the connection is closed.
Ended(c, s) == link[c][s] = "closed"

\* The client has closed its sockets.
Gone(c) == phase[c] \in {"done", "aborted"}

\* MUTANT: the read of a session whose client has died never returns.
ReadFailsInOrder(c) == phase[c] = "done"

\* A read_some of conHandler::start that finds nothing to read returns.
ReadFails(c) == Gone(c)

\* A query, or what a buffer holds; and what can be on its way.
Content == SUBSET Block
Wire == SUBSET Content

TypeOK ==
  /\ phase \in [Client -> Phase]
  /\ todo \in [Client -> SUBSET Server]
  /\ index \in [Client -> Block]
  /\ querybuf \in [Client -> Content]
  /\ resultbuf \in [Client -> Content]
  /\ down \subseteq Server
  /\ backlog \in [Server -> Seq(Client)]
  /\ link \in [Client -> [Server -> Link]]
  /\ dest \in [Client -> [Server -> Content]]
  /\ query \in [Client -> [Server -> Content]]
  /\ upInit \in [Client -> [Server -> Nat]]
  /\ upQuery \in [Client -> [Server -> Wire]]
  /\ seedWire \in [Client -> [Server -> Wire]]
  /\ answerWire \in [Client -> [Server -> Wire]]
  /\ issued \in [Client -> [Server -> Content]]
  /\ torn \in [Client -> BOOLEAN]

PerLink(v) == [c \in Client |-> [s \in Server |-> v]]

Init ==
  /\ phase = [c \in Client |-> "connect"]
  /\ todo = [c \in Client |-> Added]
  /\ index \in [Client -> Block]
  /\ querybuf = [c \in Client |-> {}]
  /\ resultbuf = [c \in Client |-> {}]
  /\ down = {}
  /\ backlog = [s \in Server |-> <<>>]
  /\ link = PerLink("none")
  /\ dest = PerLink({})
  /\ query = PerLink({})
  /\ upInit = PerLink(0)
  /\ upQuery = PerLink({})
  /\ seedWire = PerLink({})
  /\ answerWire = PerLink({})
  /\ issued = PerLink({})
  /\ torn = [c \in Client |-> FALSE]

-----------------------------------------------------------------------------
(***************************************************************************)
(* The client.                                                             *)
(***************************************************************************)

\* One addServer call of the application: the kernel completes the
\* connection and queues it whether or not the server is accepting.  With no
\* server listening, connect throws and the client's process ends.
AddServer(c, s) ==
  /\ phase[c] = "connect"
  /\ s \in todo[c]
  /\ \A t \in todo[c] : s <= t
  /\ \/ /\ s \notin down
        /\ todo' = [todo EXCEPT ![c] = @ \ {s}]
        /\ backlog' = [backlog EXCEPT ![s] = Append(@, c)]
        /\ link' = [link EXCEPT ![c][s] = "queued"]
        /\ UNCHANGED phase
     \/ /\ s \in down
        /\ phase' = [phase EXCEPT ![c] = "aborted"]
        /\ UNCHANGED <<todo, backlog, link>>
  /\ UNCHANGED <<index, querybuf, resultbuf, down, dest, query, wireVars,
                 issued, torn>>

\* MUTANT: the loop over the servers has one turn too many.
StartPhaseOneMore(c, p) ==
  /\ phase' = [phase EXCEPT ![c] = p]
  /\ todo' = [todo EXCEPT ![c] = 0 .. N]

\* The main thread starts one thread per server for the next phase.
StartPhase(c, p) ==
  /\ phase' = [phase EXCEPT ![c] = p]
  /\ todo' = [todo EXCEPT ![c] = Server]

\* checkHash or request up to its first join: initRequest clears querybuf.
StartRequest(c) ==
  /\ phase[c] = "connect"
  /\ todo[c] = {}
  /\ querybuf' = [querybuf EXCEPT ![c] = {}]
  /\ StartPhase(c, IF Api = "checkHash" THEN "init" ELSE "seeds")
  /\ UNCHANGED <<index, resultbuf, serverVars, wireVars, issued, torn>>

\* The thread for s of phase p ends.
EndThread(c, s, p) ==
  /\ phase[c] = p
  /\ s \in todo[c]
  /\ todo' = [todo EXCEPT ![c] = @ \ {s}]
  /\ UNCHANGED <<phase, index>>

\* requestServer: InitLen bytes to server 0, one byte to the others.
RequestServer(c, s) ==
  /\ EndThread(c, s, "init")
  /\ upInit' = IF s \in Added
                 THEN [upInit EXCEPT ![c][s] = IF s = 0 THEN InitLen ELSE 1]
                 ELSE upInit
  /\ UNCHANGED <<querybuf, resultbuf, serverVars, upQuery, seedWire,
                 answerWire, issued, torn>>

JoinInit(c) ==
  /\ phase[c] = "init"
  /\ todo[c] = {}
  /\ StartPhase(c, "seeds")
  /\ UNCHANGED <<index, querybuf, resultbuf, serverVars, wireVars, issued,
                 torn>>

\* receiveSeedAndHash / receiveSeed and handleSeed.  rcv asks for at least
\* the seed and drops whatever else the same read returned; it gives up on a
\* server that was not added and on a reset connection, and takes a connection
\* that ended early for a complete one.
ReceiveSeed(c, s) ==
  /\ EndThread(c, s, "seeds")
  /\ \/ /\ s \in Added
        /\ \E e \in seedWire[c][s] :
             querybuf' = [querybuf EXCEPT ![c] = Xor(@, e)]
        /\ seedWire' = [seedWire EXCEPT ![c][s] = {}]
        /\ \/ answerWire' = answerWire
           \/ answerWire' = [answerWire EXCEPT ![c][s] = {}]
     \/ /\ s \in Added => Ended(c, s) /\ seedWire[c][s] = {}
        /\ UNCHANGED <<querybuf, seedWire, answerWire>>
     \/ /\ s \in Added /\ Ended(c, s) /\ seedWire[c][s] = {}
        /\ \E garbage \in SUBSET MaskBlocks(s) :
             querybuf' = [querybuf EXCEPT ![c] = Xor(@, garbage)]
        /\ UNCHANGED <<seedWire, answerWire>>
  /\ UNCHANGED <<resultbuf, serverVars, upInit, upQuery, issued, torn>>

\* The seeds are joined; runPIR adds the wanted block to the query, clears
\* resultbuf and starts the threads that send the queries.
RunPIR(c) ==
  /\ phase[c] = "seeds"
  /\ todo[c] = {}
  /\ querybuf' = [querybuf EXCEPT ![c] = Xor(@, {index[c]})]
  /\ resultbuf' = [resultbuf EXCEPT ![c] = {}]
  /\ StartPhase(c, "query")
  /\ UNCHANGED <<index, serverVars, wireVars, issued, torn>>

\* sendQuery: the part of querybuf that belongs to the server's own chunk.
SendQuery(c, s) ==
  /\ EndThread(c, s, "query")
  /\ upQuery' = IF s \in Added
                  THEN [upQuery EXCEPT ![c][s] =
                          {querybuf[c] \cap ChunkBlocks(s)}]
                  ELSE upQuery
  /\ UNCHANGED <<querybuf, resultbuf, serverVars, upInit, seedWire,
                 answerWire, issued, torn>>

JoinQuery(c) ==
  /\ phase[c] = "query"
  /\ todo[c] = {}
  /\ StartPhase(c, "results")
  /\ UNCHANGED <<index, querybuf, resultbuf, serverVars, wireVars, issued,
                 torn>>

\* receiveResults: the outcome of rcv is not looked at, so after a failed or
\* an ended connection whatever dest held is xor-ed into the result.
ReceiveResult(c, s) ==
  /\ EndThread(c, s, "results")
  /\ \/ /\ s \in Added
        /\ \E a \in answerWire[c][s] :
             resultbuf' = [resultbuf EXCEPT ![c] = Xor(@, a)]
     \/ /\ s \in Added => Ended(c, s) /\ answerWire[c][s] = {}
        /\ \E garbage \in SUBSET Block :
             resultbuf' = [resultbuf EXCEPT ![c] = Xor(@, garbage)]
  /\ answerWire' = [answerWire EXCEPT ![c][s] = {}]
  /\ UNCHANGED <<querybuf, serverVars, upInit, upQuery, seedWire, issued,
                 torn>>

\* The results are joined, runPIR returns resultbuf and the application
\* closes the sockets.
Close(c) ==
  /\ phase[c] = "results"
  /\ todo[c] = {}
  /\ phase' = [phase EXCEPT ![c] = "done"]
  /\ UNCHANGED <<todo, index, querybuf, resultbuf, serverVars, wireVars,
                 issued, torn>>

\* The client's process ends and its sockets with it.
Abort(c) ==
  /\ c \in MayAbort
  /\ ~Gone(c)
  /\ phase' = [phase EXCEPT ![c] = "aborted"]
  /\ UNCHANGED <<todo, index, querybuf, resultbuf, serverVars, wireVars,
                 issued, torn>>

-----------------------------------------------------------------------------
(***************************************************************************)
(* The server: Server::handleAccept and conHandler::start.                 *)
(***************************************************************************)

MoveLink(c, s, from, to) ==
  /\ link[c][s] = from
  /\ link' = [link EXCEPT ![c][s] = to]

Idle(s) == \A c \in Client : link[c][s] \notin Serving

\* The next connection is accepted only when startAccept was called again,
\* after start has returned.
Accept(c, s) ==
  /\ Idle(s)
  /\ backlog[s] # <<>>
  /\ c = Head(backlog[s])
  /\ MoveLink(c, s, "queued", "init")
  /\ backlog' = [backlog EXCEPT ![s] = Tail(@)]
  /\ UNCHANGED <<clientVars, down, dest, query, wireVars, issued, torn>>

\* One read_some for the initialization: it waits for the first byte and
\* returns what there is of the bytes asked for.  An error, such as the
\* client having gone, is reported and the session goes on.
ReadInit(c, s) ==
  /\ MoveLink(c, s, "init", "seed")
  /\ \/ \E n \in 1 .. upInit[c][s] :
          /\ n <= IF s = 0 THEN FeSize ELSE 1
          /\ upInit' = [upInit EXCEPT ![c][s] = @ - n]
     \/ upInit[c][s] = 0 /\ ReadFails(c) /\ UNCHANGED upInit
  /\ UNCHANGED <<clientVars, down, backlog, dest, query, upQuery, seedWire,
                 answerWire, issued, torn>>

\* nextSeed and the write of the seed: the tuple's value stays in dest.
SendSeed(c, s) ==
  /\ MoveLink(c, s, "seed", "query")
  /\ \E e \in SUBSET MaskBlocks(s) :
       /\ dest' = [dest EXCEPT ![c][s] = e]
       /\ issued' = [issued EXCEPT ![c][s] = e]
       /\ seedWire' = [seedWire EXCEPT ![c][s] = {e}]
  /\ UNCHANGED <<clientVars, down, backlog, query, upInit, upQuery, answerWire,
                 torn>>

\* One read_some for the whole query.
ReadQuery(c, s) ==
  /\ MoveLink(c, s, "query", "execute")
  /\ \/ \* all of the query
        /\ upInit[c][s] = 0
        /\ \E q \in upQuery[c][s] : query' = [query EXCEPT ![c][s] = q]
        /\ UNCHANGED <<upInit, torn>>
     \/ \* a part of it; the rest of the buffer is not initialized
        /\ upInit[c][s] = 0
        /\ upQuery[c][s] # {}
        /\ \E q \in SUBSET ChunkBlocks(s) : query' = [query EXCEPT ![c][s] = q]
        /\ torn' = [torn EXCEPT ![c] = TRUE]
        /\ UNCHANGED upInit
     \/ \* initialization bytes the first read left behind
        /\ upInit[c][s] > 0
        /\ \E q \in SUBSET ChunkBlocks(s) : query' = [query EXCEPT ![c][s] = q]
        /\ upInit' = [upInit EXCEPT ![c][s] = 0]
        /\ torn' = [torn EXCEPT ![c] = TRUE]
     \/ \* the client is gone: the buffer is used as malloc returned it
        /\ upInit[c][s] = 0
        /\ upQuery[c][s] = {}
        /\ ReadFails(c)
        /\ \E q \in SUBSET ChunkBlocks(s) : query' = [query EXCEPT ![c][s] = q]
        /\ UNCHANGED <<upInit, torn>>
  /\ UNCHANGED <<clientVars, down, backlog, dest, upQuery, seedWire, answerWire,
                 issued>>

\* MUTANT: the answer overwrites the precomputed value.
ExecuteOverwriting(value, q) == q

\* fastxor over the server's own chunk: dest ^= the blocks of the query.
Execute(value, q) == Xor(value, q)

\* execute, the write of dest, and the end of start, which closes the socket;
\* closing it over unread bytes may reset it before the answer is delivered.
SendAnswer(c, s) ==
  LET answer == Execute(dest[c][s], query[c][s]) IN
  /\ MoveLink(c, s, "execute", "closed")
  /\ dest' = [dest EXCEPT ![c][s] = answer]
  /\ \/ answerWire' = [answerWire EXCEPT ![c][s] = {answer}]
     \/ torn[c] /\ UNCHANGED answerWire
  /\ UNCHANGED <<clientVars, down, backlog, query, upInit, upQuery, seedWire,
                 issued, torn>>

\* The server's process ends: the sessions it serves or has queued are cut
\* off, some of them with a seed that is still on its way.
Crash(s) ==
  LET Open == {c \in Client : link[c][s] \in {"queued"} \cup Serving} IN
  /\ s \in MayCrash \ down
  /\ down' = down \cup {s}
  /\ backlog' = [backlog EXCEPT ![s] = <<>>]
  /\ link' = [c \in Client |->
       IF c \in Open THEN [link[c] EXCEPT ![s] = "closed"] ELSE link[c]]
  /\ \E Lost \in SUBSET Open :
       seedWire' = [c \in Client |->
         IF c \in Lost THEN [seedWire[c] EXCEPT ![s] = {}] ELSE seedWire[c]]
  /\ torn' = [c \in Client |-> torn[c] \/ c \in Open]
  /\ UNCHANGED <<clientVars, dest, query, upInit, upQuery, answerWire, issued>>

-----------------------------------------------------------------------------
ClientStep(c) ==
  \/ StartRequest(c) \/ JoinInit(c) \/ RunPIR(c) \/ JoinQuery(c) \/ Close(c)
  \/ \E s \in Server : \/ AddServer(c, s)
                       \/ RequestServer(c, s)
                       \/ ReceiveSeed(c, s)
                       \/ SendQuery(c, s)
                       \/ ReceiveResult(c, s)

ServerStep(s) ==
  \E c \in Client : \/ Accept(c, s)
                    \/ ReadInit(c, s)
                    \/ SendSeed(c, s)
                    \/ ReadQuery(c, s)
                    \/ SendAnswer(c, s)

Next ==
  \/ \E c \in Client : ClientStep(c) \/ Abort(c)
  \/ \E s \in Server : ServerStep(s) \/ Crash(s)

Spec == Init /\ [][Next]_vars

\* Every thread that can take a step is scheduled in the end.  Nothing says
\* a process ever ends early.
Fairness ==
  /\ \A c \in Client : WF_vars(ClientStep(c))
  /\ \A s \in Server : WF_vars(ServerStep(s))

FairSpec == Spec /\ Fairness

-----------------------------------------------------------------------------
(***************************************************************************)
(* Properties.                                                             *)
(***************************************************************************)

(***************************************************************************)
(* The block a request returns is the one that was asked for, whatever     *)
(* seeds the servers chose and in whatever order the threads of the client *)
(* ran (runPIR returning resultbuf), provided that every server was added, *)
(* read the client's whole query and stayed up.                            *)
(***************************************************************************)
RetrievalCorrect ==
  \A c \in Client :
    phase[c] = "done" /\ ~torn[c] /\ Connected = N
      => resultbuf[c] = {index[c]}

(***************************************************************************)
(* The same without the condition on the number of servers: what README.md *)
(* promises for its own instructions, which start two servers.             *)
(***************************************************************************)
RetrievalAsDocumented ==
  \A c \in Client :
    phase[c] = "done" /\ ~torn[c] => resultbuf[c] = {index[c]}

\* Every thread of client c waits in rcv for bytes of an open connection.
ClientWaits(c) ==
  \/ Gone(c)
  \/ /\ phase[c] \in {"seeds", "results"}
     /\ todo[c] # {}
     /\ \A s \in todo[c] :
          /\ s \in Added /\ link[c][s] # "closed"
          /\ IF phase[c] = "seeds" THEN seedWire[c][s] = {} ELSE answerWire[c][s] = {}

\* Server s has no connection to accept, or start waits in one of its reads.
ServerWaits(s) ==
  /\ Idle(s) => backlog[s] = <<>>
  /\ \A c \in Client :
       link[c][s] \in Serving =>
         /\ link[c][s] \in {"init", "query"}
         /\ upInit[c][s] = 0 /\ ~ReadFails(c)
         /\ link[c][s] = "query" => upQuery[c][s] = {}

Quiet == (\A c \in Client : ClientWaits(c)) /\ (\A s \in Server : ServerWaits(s))

(***************************************************************************)
(* The threads that wait are all of them exactly when no thread can take a *)
(* step: rcv and the reads of conHandler::start are all a thread ever      *)
(* waits in, and every connection in a backlog can be accepted.            *)
(***************************************************************************)
QuietIsStuck ==
  Quiet <=> /\ ~ENABLED (\E c \in Client : ClientStep(c))
            /\ ~ENABLED (\E s \in Server : ServerStep(s))

\* c waits for the seed of a server that is busy with the session of d.
WaitsBehind(c, d) ==
  \E s \in todo[c] : /\ phase[c] = "seeds"
                     /\ link[c][s] = "queued"
                     /\ link[d][s] \in Serving

(***************************************************************************)
(* When no thread can move any more although some client is not finished,  *)
(* every such client waits, through conHandler::start's blocking reads,    *)
(* for a server that is busy with another such client.  A client that has  *)
(* gone never holds a server (the reads report its end and start goes on). *)
(***************************************************************************)
StuckOnlyInCycle ==
  Quiet =>
    \A c \in Client :
      ~Gone(c) => \E d \in Client \ {c} : ~Gone(d) /\ WaitsBehind(c, d)

\* c is ahead of d at server s while d is ahead of c at server t.
Ahead(c, d, s) ==
  /\ link[d][s] = "queued"
  /\ \/ link[c][s] \in Serving
     \/ \E i, j \in 1 .. Len(backlog[s]) :
          i < j /\ backlog[s][i] = c /\ backlog[s][j] = d

Crossed ==
  \E c, d \in Client : \E s, t \in Server : Ahead(c, d, s) /\ Ahead(d, c, t)

(***************************************************************************)
(* Every request ends, however many clients there are, unless two clients  *)
(* reached two servers in opposite orders (addServer connects to one       *)
(* server after the other, Server accepts one connection at a time).       *)
(***************************************************************************)
CompletesUnlessCrossed ==
  []~Crossed => \A c \in Client : <>Gone(c)

(***************************************************************************)
(* A server is given back by a client whose process ends in the middle of  *)
(* a session (the reads of conHandler::start fail and it runs to its end). *)
(***************************************************************************)
AbortFreesServer ==
  \A c \in Client : \A s \in Server :
    (phase[c] = "aborted" /\ link[c][s] \in Serving) ~> link[c][s] = "closed"
=============================================================================

# CIP-PIR: models, checks and proofs

CIP-PIR is an offline/online private information retrieval system. A client
wants one block of a database that `SERVERS` peer servers hold. Offline, a
server precomputes tuples (a random seed and the exclusive or of the blocks the
seed expands to). Online, the client asks every server for a seed, builds a
query from the expansions and the block it wants, sends each server the slice
of the query that belongs to the server's own chunk, and adds the answers up.

The models follow `src/src`. Line numbers below and in `PROJECT.json` refer to
the files there.

## Inventory

| Component | State | Operations | Talks to |
|---|---|---|---|
| Client, `CIP_PIR/Client` | `sockets`, `querybuf`, `resultbuf`, a mutex for both buffers, the manifest | `addServer`, `checkPassword`/`checkHash`, `request`, `runPIR`, `close`; one thread per server in each of four phases | every peer server over TCP |
| Listener of a peer server, `PeerServer/ClientConnection` | one acceptor, one connection at a time, its buffers | `startAccept`, `handleAccept`, `conHandler::start` | clients; `nextSeed` and `execute` of the server |
| Seed memory of a peer server, `PeerServer/CIP_pirServer` | ring `precomputedSeeds`, `availableSeeds`, `currentSeed`, `currentPreSeed`, `mutex`, `threadTerminated`, `t1` | `nextSeed`, `execute` (io_service thread), `precompute` (one or more threads; three builds) | shared memory; the central server in one build |
| Central server, `CenterServer` | one worker per peer: a second seed memory, `active`, `precomputing`, `t1`, `t2`; a connection | `precompute`, `transfer`, `nextSeed`, `setActive`, asynchronous reads and writes | peer servers over TCP |
| CUDA accelerator, `Computation/Accelerator_CUDA` | device copy of the database | `compute`, `fastXOR` | called by the servers |
| Block arithmetic, `Computation/helper.h` | none | `xorFullBlocks`, `xorBytes`, `fastxor`, `completexor`, `count_0bits` | everybody |
| Chunk geometry | `chunksGroupsMap` | sizes, offsets and ranges in `readDB`, `precompute`, `handleSeed`, `sendQuery` | client and servers have to agree |
| Database, `database/` | files | sort, group, preprocess, manifest, lookup | read by servers and client |

Hard behaviour and what makes each part correct:

* **Client and listener**: threads that update one buffer, short reads, a
  server that serves one client at a time, clients and servers that die.
  Correct when the client ends up with the block it asked for, every request
  ends, and nobody keeps a server.
* **Seed memory**: a polling loop without the mutex, threads that are declared
  dead while they run, a mutex that is unlocked twice. Correct when it is a
  bounded queue: each tuple handed out once, in order, with the value of its
  seed; and when no session waits for ever.
* **Central server**: thread relaunch outside the mutex, start and stop
  messages against a running transfer, buffers reused during asynchronous
  writes, reads that return more than one tuple.
* **Geometry, accelerator, database**: pure index arithmetic that several
  places must do alike; boundaries and widths.

`PROJECT.json` lists every hazard with its line and the properties that cover
it, or why none does yet.

## Modules

| Module | Models |
|---|---|
| `BlockXor` | blocks and queries as sets of database blocks; exclusive or as symmetric difference |
| `PirSession` | the client, the listeners and the connections between them |
| `SeedQueue` | abstract: what a seed memory promises |
| `PeerPool` | the seed memory and the io_service thread: `nextSeed`, `execute` |
| `PeerPoolCpu` | `precompute` of the CPU build, composed with `PeerPool`; implements `SeedQueue` |
| `PeerPoolCuda` | `precompute` with `USE_CUDA_ON_PEER`, composed with `PeerPool`; keeps the order of `SeedQueue` |
| `PeerLink` | `precompute` with `USE_PRECOMPUTATION_SERVER`, composed with `PeerPool` and with what the peer sees of the central server; implements `SeedQueue` |
| `CenterWorker` | a worker of the central server: its seed memory, `precompute`, `transfer`, `setActive`; implements `SeedQueue` |
| `CenterTransfer` | the worker composed with its connection to the peer: asynchronous writes, partial writes, a peer that reads |
| `FastXor` | the loop of `fastxor` with `OPEN_MP`, one thread of the team per iteration |
| `Pipeline` | a query sent, read and executed at once, the build with `PIPELINE` |
| `Geometry` | `chunksGroupsMap` and every range of groups computed from it, by client, peer server and worker |
| `Kernels` | the index arithmetic of the CUDA accelerator and what its results are worth; extends `Geometry` |
| `Database` | sort, manifest, lookup, byte subtraction, prefixes |
| `MC...` | small instances for TLC |
| `PirSessionProofs`, `PeerPoolProofs`, `CudaPoolProofs`, `CenterTransferProofs`, `PeerLinkProofs`, `ComputationProofs`, `AlgorithmProofs` | theorems |
| `Ring` | lemmas the refinements share: the slots of a ring memory, and runs of numbered tuples |

### PirSession

A client's main thread is `phase`; `todo[c]` holds the servers whose thread of
the phase still runs, so a join is `todo[c] = {}`. `querybuf` and `resultbuf`
are the client's buffers; each thread's update is one step because the code
holds the client's mutex over it. A server's state for a connection is
`link[c][s]`: in the listen backlog (`queued`), at one of the blocking points of
`conHandler::start` (`init`, `seed`, `query`, `execute`), or `closed`. What is on
the wire is counted in bytes for the initialization, because `read_some` may
return a part of it, and is a set of at most one message otherwise.

Kept: every early return, that `rcv` takes an ended connection for a complete
one, that `receiveResults` ignores its outcome, that one `read_some` may return a
part of the query, that leftover initialization bytes are read as the query,
that a listener serves a session synchronously. Buffers that the code reads
uninitialized are arbitrary. Abstracted: the position of a block in a buffer,
the expansion of a seed (an arbitrary set of the blocks it covers), and the
hash, its blinding and the manifest, which only choose `index`.

`Quiet` says that every thread waits, in the words of the code: each client's remaining
threads in a read of `rcv` whose connection is neither readable nor ended, each server in a
read of `conHandler::start` or with an empty backlog. `QuietIsStuck` lets TLC compare this
with ENABLED of the steps, so that `StuckOnlyInCycle` can be stated, and proved, without
ENABLED. `InitLen` is the length of user name and password, which `checkPassword` hands on as
the number of bytes of the point to send (`CIP_pirClient.cpp:58`). With an empty user name
and password nothing is sent and the first server waits for it for ever, while the
client waits for the seed: TLC finds `StuckOnlyInCycle` violated with `InitLen` 0. It holds
for every other length, and the sessions of the instance have at least one byte.

### PeerPool and its builds

The steps are the accesses to what the threads share; `availableSeeds++` is a
read and a write. `main` is the position of the io_service thread in `nextSeed`
and `execute`, `pc[t]` that of a precomputing thread. `boost::mutex` does not
check who unlocks it, so `lock` is one bit and the unbalanced unlock at the end of
`precompute` simply clears it; `broken` records that it released another thread.
`overlap` records that a thread started to fill the memory while another one
was doing so, which is normal after `execute` (it sets `threadTerminated` although the
thread goes on). Histories (`handed`, `made`, `broken`, `overlap`) guard nothing.

`interrupt` has no effect because `precompute` has no interruption point, and
`delete t1` detaches the thread. A second `delete` of the same object is undefined
behaviour; the model lets the process end or go on.

`SeedQueue` is refined under this mapping: the queue is the `availableSeeds` slots
from `currentSeed` on, or from its successor between the decrement and the advance
of the pointer. A tuple enters with the increment and leaves with the decrement
of the counter. When `overlap` or `broken` is set the queue is degraded and promises
nothing.

In `PeerPoolCuda` a thread takes `seedsToCompute` once and without the mutex, draws that
many seeds through `currentPreSeed`, then copies the values and counts the tuples through
`currentPreSeedPointer`. The kernel is modelled by its result, the values of the batch in
order; what reaches the slots is `dest` unadvanced, so every tuple of a batch carries
the value of its first seed. `KeepsOrder` therefore compares seeds only. The subtraction
is one of unsigned numbers: when two threads have added the same missing tuples
`availableSeeds` exceeds the slots and the next batch wraps around
(`Missing`, modulo `MaxWord + 1`). Nothing looks at what `malloc` returns for so large a batch
(`TooLarge`), so the process may end over any of its seeds, or go on and overwrite the ring; it
ends at the latest in `compute`, which exits when the device has no room.

`SomeThreadFills` and `SessionsEnd` are about `PAUSECONDITION` 0, the value in
`parameters.h`: `execute` itself sets `threadTerminated`. With 1 or 2 the CUDA build can
lose a relaunch, because a thread has left the mutex (line 270) before it sets
`threadTerminated` (line 323) and `nextSeed` may empty the memory in between.

### PeerLink

A thread of `precompute` tells the central server to start, reads tuples while it holds
the mutex, and tells it to stop when the memory is full. The central server is reduced to
what the peer can see: `commands` it has not read, `active`, and the tuples 1, 2, 3, ... on
the `stream`; that it sends whole tuples in order while no write is deferred is
`StreamIntact` of `CenterTransfer`. The connection may end at any time (`Disconnect`).

`Receive` is `read` with `transfer_at_least` into a new `streambuf`: it takes one tuple and
any part of what follows; whole tuples behind the first are dropped with the buffer
(`dropped`), a part of one leaves the next read in the middle of a tuple (`misaligned`).
`ReceiveFails` counts a tuple all the same: the end of the stream is not treated as an
error, and the memory behind an empty buffer is copied. `GiveUp` is the early return after
a failed write, which leaves `threadTerminated` unset. What the thread does between lock and
unlock is one step, except that it waits for a tuple with the mutex held.

The properties speak until a thread releases another one's mutex, a tuple is cut, or two
threads have started the central server at once (`overlap`): with one connection and one
`active` flag, the stop command of the first thread to finish is a stop for both, and the
second waits for a tuple with the mutex held, for ever. `execute` starts a second thread
whenever it is called while the first still fills the memory. Two more things follow from
the unlocked test of the loop (`CIP_pirServer.cpp:159`): two threads in the loop may pass the
capacity, and with `PAUSECONDITION` 1 a memory emptied between the test and line 323 is
never filled again.

### FastXor, Pipeline and the pure algorithms

`FastXor` takes every access of an iteration to `offset` as a step; `dest` is written in the
critical section. A block is the set of entries it is the exclusive or of, so a lost or
doubled addition shows. The theorems say what the race may do: results are wrong, but no
access leaves the database, no addition to `dest` is lost, and a team of one thread is exact.

`Pipeline` has the client's chunks, the reader in `conHandler::start` and `execute` in its own
thread. `availableBytes += n` is a load and a store, and every read of the shared members goes
to memory. `execute` resets both members after the reader may have set them: if the whole
query was read before (`overtaken`), the server spins for ever; if the reset falls between
the load and the store (`mixed`), the counter of the session before comes back and bytes are
used that were not read. `AnswerExact` and `SessionEnds` say that nothing else goes wrong.
That these two happen no property says: no document tells how the two threads are to be ordered.

`Geometry` compares functions from positions to groups: `ClientRange` (where `handleSeed`
adds byte k of an expansion), `ServerRange` (the entries `precompute` takes for it from
what `readDB` has placed in memory), `ClientSlice` and `ServerSlice`. `Kernels` states the
accelerator's results with the same functions. `KernelResults` is `vector_xor2`: it takes one
entry before it looks at `groups`, so it reads a byte even of an empty query, it starts at the
first group of the memory, and of the bytes of a query that were not copied it has
anything; `compute` copies every query (`CudaValues`), `fastXOR` the first `BLOCKSIZE` bytes of one
(`CudaAnswers`). A result is therefore a set of blocks, those the kernel may leave. `AnswerAgrees`
compares an answer of a server with the accelerator with that of one without, which
`gpu_answers` refutes; `KernelFillsBlock` and `BatchExact` state what does hold, and their
theorems also when the kernel leaves the block and when a seed has not its own query.
`Database` takes entries as numbers, which
`memcmp` orders alike; an index of an entry is cut off to `addressable` entries. The loop of
the partition is a function of its index and `quickSort` a function of the stretch it is called
for, so that theorems can speak of them.

### CenterWorker and CenterTransfer

`producer[p]` is the position of a thread of `precompute`, `transfer[w]` that of a transfer
thread, `want[p]` how many tuples the producer has still to add. Everything `nextSeed`
and `precompute` change they change under the worker's mutex, which is never unlocked
by somebody else, so `nextSeed` from lock to unlock (`Take`) and one tuple of a batch
(`AddTuple`) are one step each. Read outside it are `availableSeeds` (`Look`, `FindSeed`),
`active` and `precomputing`, each by a step of its own. A thread that `nextSeed` starts
cannot pass the mutex before `nextSeed` has set `precomputing`; a thread that the
constructor starts can, which is why `Construct` is a separate step. `availableSeeds` wraps
at `MaxWord + 1`.

The peer sends "start" when a thread of its `precompute` begins and "stop" when it has
filled the peer's memory; two of its threads may overlap, but no stop precedes the first
start. `HandleCommand` is `readHandler` with `setActive`; `interrupt` has no effect since
`transfer` has no interruption point, so after a quick stop and start two transfer
threads run (`doubled`).

A tuple on the wire is two halves, seed and value. `stream` is what the socket accepted,
`Window` how much it accepts ahead of the reader. As in boost.asio, a write is tried at
once if no other write waits, it sends what the buffer holds at that time, and a
write accepted in part is continued behind the writes started meanwhile. Histories
(`doubled`, `missed`, `deferred`, `handed`, `made`) guard nothing, except that no transfer
thread asks for more than `MaxTuples` tuples.

`missed` marks the states in which the memory was emptied after the producer had looked
for the last time and before it reset `precomputing` (`RAID_pirCenterWorker.cpp:248`, or
:35 in the constructor): then nobody starts a thread again and the worker is idle for
ever. `TransfersGoOn` says that nothing else stops a transfer.

## Runs

| Run | Module | Checks | Distinct states | Shows |
|---|---|---|---|---|
| `retrieval` | `MCPirSession` | `TypeOK`, `RetrievalCorrect` | 990,699 | with every server added the client recovers the block it asked for, over all seeds, orders of threads and short reads |
| `sessions` | `MCPirSession` | `StuckOnlyInCycle`, `QuietIsStuck`, `CompletesUnlessCrossed`, `AbortFreesServer` | 152,209 | with a client and a server that may die, requests end unless two clients reached the servers in opposite orders; a client that dies keeps nobody |
| `pool` | `MCPeerPoolCpu` | `TypeOK`, `NeverUnderflows`, `TuplesMatch`, `SomeThreadFills`, `ImplementsQueue`, `SessionsEnd` | 855,834 | the CPU build of the seed memory is a queue of matching tuples until two threads fill it or the mutex is broken, an empty memory never waits for a thread that is gone, and no session waits for a tuple for ever, with up to three threads alive |
| `cuda_batch` | `MCPeerPoolCuda` | `TypeOK`, `NeverUnderflows`, `SomeThreadFills`, `KeepsOrder`, `SessionsEnd` | 683,045 | the CUDA build hands out each seed once and in order, and with `PAUSECONDITION` 0 an empty memory has a thread that will fill it, so that a session gets a tuple or the process ends; up to three threads alive |
| `peer_link` | `MCPeerLink` | `TypeOK`, `KeepsOrder`, `ReaderServed`, `SomeThreadFills`, `ImplementsQueue`, `SessionsEnd` | 871,021 | the build with a central server, over a connection that may end: tuples in order, each handed out once; who waits with the mutex is served; sessions end while the connection is up and one thread at a time has started the central server; up to three threads alive |
| `worker` | `MCCenterTransfer` | `TypeOK`, `OneProducer`, `StreamIntact`, `SomeThreadFills`, `ImplementsQueue`, `TransfersGoOn` | 542,546 | a worker of the central server (with `USE_CUDA`) has one filling thread, its memory is a queue of seeds, tuples arrive whole when the socket takes each at once, and transfers go on except when the memory was emptied while `precomputing` was stale |
| `computations` | `MCComputation` | `TypeOK`, `StaysInside`, `AloneExact`, `NoEntryLost`, `AnswerExact`, `SessionEnds`; `RangesAgree`, `KernelsExact`, `Sorted`, `LookupsFind`, `BytesExact` | 447,904 | `fastxor` and the pipelined `execute` step by step; the pure algorithms against definitions over all small inputs |
| `two_servers`, `pool_inside`, `cuda_values`, `worker_sends`, `gpu_answers` | | one property each | | violated: see the findings |

Deadlock checking is off, except in `computations`, because these systems stop: clients
finish, the number of sessions is bounded, two clients can really deadlock, and
a process may end. In `computations` a job that is done stutters, and any other state
without a step would be a fault.

Two kinds of states are not explored further. `NotBroken` (the runs of `MCPeerPoolCpu` and
`MCPeerPoolCuda`) and `Told` (those of `MCPeerLink`) are constraints that cut behind a step that released another thread's mutex,
and in `MCPeerLink` behind a cut tuple or a second start. The states of that step itself are
still checked. `cuda_batch` also leaves out what follows when a third thread begins to fill the
memory while two do (`Bounded`): each batch is as large as the memory, and a third one on top adds
nothing that the second did not. The liveness properties have the negation as a premise about the whole
behaviour; `ImplementsQueue`, `KeepsOrder`, `TuplesMatch`, `SomeThreadFills` and `ReaderServed` have
it as a premise about the state. The theorems about these modules know no constraint: they
hold for every safety property of these runs, and `pool_inside` runs without one. Only the
liveness properties are said of the explored states alone.

### Bounds and why they are enough

* `retrieval`: three servers with three chunks each (`CHUNKS` = `SERVERS` = 3 as in
  `parameters.h`), one block per chunk, so every seed covers the chunks of the other
  servers and every block is in two expansions. Initialization messages of two
  bytes allow a short read. More blocks behave independently of each other.
* `sessions`: two clients and two servers are the smallest system with a
  circular wait. One block, because these runs are about order, not content.
* `pool`, `cuda_batch`, `peer_link`: two slots make both pointers wrap and tell full, empty and
  half full apart, and give batches of one and two tuples over the end of the memory. Three
  sessions take the pointers round and put a relaunch behind a relaunch; two sessions do the
  latter in `peer_link`, where threads read ahead over the end. `SessionsEnd` is about a session
  that waits while the thread it has replaced is still in its tail, so two threads have to be
  alive and a third one to be there for the launch that follows. Its premise leaves out only
  behaviours in which a launch waits for ever for a thread (`[]<>~LaunchWaits`), which the bound
  alone can cause; a launch that waits until a thread has ended is inside it, and so are states
  with three threads alive. TLC was asked for a session that waits at an empty memory, after
  an earlier session, with two threads alive, and finds it in all three. With `PAUSECONDITION` 1
  in `pool` only `nextSeed` starts threads, so every session depends on `threadTerminated`.
* `MaxWord` 6 in `cuda_batch` tells a batch that has wrapped around from one of two tuples.
  `Window` 2 tuples under way in `peer_link` is the least for a read that takes two, and two
  commands are the most one thread after the other leaves unread before the next start.
* `computations`: three iterations on a team of up to three threads are the least in which an
  update of `offset` is lost and another goes back; a query of five bytes in chunks of two
  has a shorter last chunk. Layouts: up to four servers and nine groups, so that chunks
  differ in size, are empty, and wrap around. Devices: blocks of 1 to 9 words for 2 to 4
  threads, one to nine seeds. Databases: all sequences of up to five of three values,
  all orders of up to six entries in blocks of one to three, two-byte numbers over the
  boundaries of a byte and of half a byte.
* `worker`: three commands allow start, stop, start and so a second transfer thread;
  a window of three halves makes the socket accept half a tuple; three tuples wrap
  a memory of two. `MaxWord` is 9, far above the capacity, so that a wrap below zero is
  told from a full memory. `Cuda` is TRUE, the richer build; the theorems of
  `CenterTransferProofs` hold for both.
* the violation runs use the smallest instance that shows the disagreement.

### Fairness

`PirSession`: weak fairness of each client and of each server, that is of threads
the operating system schedules; whether a process dies is never forced. `PeerPool`:
weak fairness of the io_service thread and of every precomputing thread; that a
client comes is not assumed. `PeerLink` adds weak fairness of the central server's reads and
of its transfer thread; that the connection ends is not assumed. `Pipeline`: weak fairness
of both threads, and of a client that goes on sending or hangs up. The number of sessions is finite, so no thread can
be starved of the mutex for ever and strong fairness is not needed. `SessionsEnd` is
claimed only when the mutex is never broken: two threads inside can leave the counter
too low, and then tuples are lost.
`CenterTransfer`: weak fairness of the constructor, the io_service, every producer and
transfer thread, and of the peer's reading; the peer need not send commands.

## Proofs

| Theorem | States | For every |
|---|---|---|
| `TypeCorrect`, `RetrievalIsCorrect` (`PirSessionProofs`) | `[]TypeOK`, `[]RetrievalCorrect` | number of servers, chunks, clients and blocks; also with aborts and crashes |
| `OnlyCyclesBlock` (`PirSessionProofs`) | `[]StuckOnlyInCycle`: when all threads wait, two clients each wait for a server that is busy with the other one | the same, for requests that begin with `checkHash` and send at least one byte |
| `PoolTypeCorrect`, `PoolNeverUnderflows`, `PoolTuplesMatch`, `PoolSomeThreadFills` (`PeerPoolProofs`) | `[]` of the invariants of `pool` they are named after | capacity, `PAUSECONDITION`, number of sessions and threads |
| `PoolImplementsQueue` (`PeerPoolProofs`) | `ImplementsQueue`: the memory is the queue of `SeedQueue` until the mutex is broken or two threads fill it | the same |
| `CudaTypeCorrect`, `CudaNeverUnderflows`, `CudaSomeThreadFills` (`CudaPoolProofs`) | `[]` of the invariants of `cuda_batch`; also behind an overfull memory and a batch that has wrapped around | the same |
| `CudaKeepsOrder` (`CudaPoolProofs`) | `KeepsOrder`: the same refinement, of the order of the seeds | the same |
| `TransferTypeCorrect`, `TransferOneProducer`, `TransferSomeThreadFills` (`CenterTransferProofs`) | `[]TypeOK`, `[]OneProducer`, `[]SomeThreadFills` | capacity, build, window, number of commands, transfer threads and tuples |
| `TransferSeedsBounded` (`CenterTransferProofs`) | `[](~doubled => SeedsBounded)`: the counter exceeds the capacity or wraps below zero only beside a second transfer thread | the same |
| `TransferStreamIntact` (`CenterTransferProofs`) | `[]StreamIntact` | the same |
| `TransferImplementsQueue` (`CenterTransferProofs`) | `ImplementsQueue`, until two transfer threads run | the same |
| `LinkTypeCorrect`, `LinkKeepsOrder`, `LinkReaderServed`, `LinkSomeThreadFills` (`PeerLinkProofs`) | `[]` of the invariants of `peer_link` they are named after | capacity, window, `PAUSECONDITION`, number of sessions and threads; also when the connection ends |
| `LinkImplementsQueue` (`PeerLinkProofs`) | `ImplementsQueue` of `peer_link` | the same |
| `TypeCorrect`, `NeverOutside`, `EntriesKept`, `ExactAlone` (`ComputationProofs`) | `[]TypeOK`, `[]StaysInside`, `[]NoEntryLost`, `[]AloneExact` | number of groups, team, query and schedule |
| `PipelineAnswerExact` (`ComputationProofs`) | `[]AnswerExact` | size of the query and of a chunk |
| `EveryKernelFillsBlock` (`ComputationProofs`) | `KernelFillsBlock` (a block of fewer words than a kernel has threads, or of a multiple of them, has each word computed by one thread), and that a kernel writes behind the block exactly when it has as many words as a kernel has threads, or more | number of words and of threads |
| `EveryBatchExact` (`ComputationProofs`) | `BatchExact` (every seed is computed once, from bytes inside the batch, in the first round its own), and that every seed has its own query (`OwnQueries`) exactly if there is one round or a query has one byte | number of threads, size of a query and of a batch |
| `EveryLayoutAgrees` (`AlgorithmProofs`) | `[]RangesAgree`, and that the ranges of client, peer server and worker are the same groups | layout: number of servers, chunks and groups |
| `EveryKernelExact` (`AlgorithmProofs`) | `[]KernelsExact`, from the two theorems above | device and batch of `MCComputation` |
| `EveryDatabaseSorted` (`AlgorithmProofs`) | `[]Sorted`, and `SortExact`: a database within the addressable entries is sorted, behind them nothing moves, and no entry is lost | database and number of addressable entries |
| `EveryLookupEnds` (`AlgorithmProofs`) | `[]LookupsFind`, and `LookupFinds`: where the search through the manifest ends | sorted database of different entries, none the successor of another, and block size |

They assume what the named `ASSUME`s of the modules say of the constants (for example
that the capacity is positive and representable in `uint32_t`, and that `CHUNKS` is
between 1 and `SERVERS`), and nothing else. Two state a hypothesis of their own:
`OnlyCyclesBlock` that the API is `checkHash` and `InitLen` positive (the cases it leaves out
are those in which the code does block, `request`, which sends no initialization, and the empty
user name and password),
and `EveryLookupEnds` that no entry is the successor of another, which `LookupFinds` needs to
ask for `db[p] + 1` as a point that is not there; every other database of the type is
covered. `EveryLayoutAgrees`, `EveryDatabaseSorted` and `EveryLookupEnds` say the same for all inputs and
for the inputs of `MCComputation`, the second from the first; `EveryKernelExact` is the second
part for the two theorems of `ComputationProofs`.

**`RetrievalIsCorrect`.** `RetrievalCorrect` says something only about finished
requests, so the invariant has to say what is true on the way. `SessionInv` does so
for each client when every server was added: `SeedInv` and `LinkInv` tie what is
on a connection to where both ends are; `BufInv` says that `querybuf` is the exclusive
or of the seeds of the threads that are done, later with the wanted block added,
and `resultbuf` that of the answers received. Exclusive or over a set of threads is
a fold whose step is proved once, at the head of the module. At the end the answers add up to
the seeds' values and the query, that is to the wanted block (`OneBlockLeft`): no
expansion covers the server's own chunk, so the slice a server adds never meets the
value it starts from. Requests during which a server died or took for a query what was
not a whole one (`torn`) are excluded by the property itself.

**`OnlyCyclesBlock`.** What a thread that waits says about the other end of its connection is
the invariant `StuckInv`. `WaitInv` relates a client and a server: a client that waits for a seed
has asked, so a session in its first read has bytes to read; a session that waits for
the query has sent the seed; a client that waits for an answer has sent its slice, and
the session is past the seed. `QueueInv` says that the backlog holds exactly the queued connections,
each once. When everybody waits, a client that has no answer can then only be in a backlog, and the
server of that backlog is in the session of another client, which waits in the same way.
TLC has checked `StuckInv` on the instance of `sessions` and on one with three servers
before it was proved.

**`PeerPoolProofs`.** `PoolInv` adds to `TypeOK`: `Mutex` (at most one thread is inside, until
`broken`), `CounterInv` (what `nextSeed` saw before it locked still holds, because nobody
else decrements), `FillInv` (when there is room, some thread will look for it or
`nextSeed` is about to start one), `MatchInv` (each slot matches, but the one being
written).

**The refinements of `SeedQueue`.** A step that takes a tuple (`StoreAvailable`, `Take`,
`TakeSeed`) is its `Take`, a step that makes one count (`StoreCount`, `Receive`, `AddTuple`) is its
`Put`, and every other step stutters. `ImplementsQueue` says what the filled slots of the ring are: the
tuples behind the last one handed out, one number after the other. So each memory needs an invariant
of the number in every slot, not only of the counter.
* `PeerPool`: `QueueInv` holds as long as the mutex is whole and one thread at a time fills
  (`~broken`, `~overlap`): the others are before their first read or behind their last write (`Alone`), the
  registers of `nextSeed` and of the thread are what they read (`CountInv`), the
  thread writes behind the last tuple that counts (`PlaceInv`), every seed that was drawn was
  handed out, waits or is being stored (`NameInv`), and the tuples that wait are the next
  ones (`SlotInv`).
* `PeerPoolCuda`: `BatchInv` of the one thread that fills: the seeds it has written and not
  yet counted lie in order behind those that count. It also needs `Mutex`.
* `CenterTransfer`: the tuples that wait are the next ones and the next is written behind
  them (`OrderInv`), until `doubled`; in the CPU build a batch is one tuple (`OneByOne`).
* `PeerLink`: `NameInv`, below.

`Ring` holds what they share: when two slots of a ring are the same (`AtDiffers`), which
slot follows (`AtSuccessor`, `AtRemainder`), and what a run of numbers becomes when its head is
taken or one is appended (`RunTail`, `RunAppend`).

**`CudaPoolProofs`.** Its `PoolInv` does without the mutex: the index of a batch stays below its
size (`LoopInv`), nobody but `nextSeed` decrements the counter (`CounterInv`), and between
two sessions an empty memory has a thread that has yet to look or to count a tuple,
because with `PAUSECONDITION` 0 `execute` claims that the thread has ended before it starts
the next one; another thread that takes the claim back is about to look itself (`FillInv`).

**`CenterTransferProofs`.** `WorkerInv` adds to the types: `FlagInv` (a thread that runs
is announced by `precomputing` once the constructor is done, and no transfer runs
before) and `FillInv` (while one transfer thread runs, a producer never wants more
than there is room for, wants something whenever it holds the mutex, and an empty
memory has such a producer unless it was emptied while the flag was stale). `StreamInv` counts:
while every tuple is accepted at once nothing waits in the socket, and the stream is twice as
long as what was taken, less the tuple that is about to be sent.

**`PeerLinkProofs`.** `LinkInv` follows the numbers of the tuples over the whole way: along the
tuples handed out, those in the memory and those on the connection (`Number`) they grow, and
none exceeds what the central server has sent (`GrowInv`). A take and a receive move a tuple on and keep
its number, a read that drops tuples leaves a gap, a send appends a greater number. As long as
none was dropped none is missing (`NameInv`). `CounterInv` and `RoomInv` say that the counters agree with what is stored and leave room
for what a thread is about to read, `PlaceInv` into which slot it goes. For progress: while one thread
fills (`OneInv`), the last command the center will read is a start (`CommandInv`), and
when there is room some thread looks for it (`FillInv`). That two threads are never inside at once
need not be proved here, since what happens from lock to unlock is one step of this model. TLC has checked
`LinkInv` on two threads and three sessions, without a constraint (11,402,552 states), before it was proved.

**`ComputationProofs`, `fastxor`.** The offset goes back when a late store overtakes, so `StaysInside` is not
inductive. What is: no offset, loaded or stored, exceeds the number of iterations that have
stored (`OffsetInv`), and an iteration that has not stored leaves that number below
`NumGroups`. `NoEntryLost` needs that the copy of the iteration in the critical section is
the current `dest` with one entry added; the parity of a finite set changes with one element.
`ExactAlone` follows the single thread's iteration `k`: everything before it has ended,
everything behind it waits, and the offset is `k` or `k + 1`.

**`ComputationProofs`, pipeline.** `AnswerInv` says that a group below `currentGroup` has been added with a byte
that was in place, because `availableBytes`, and what the reader has loaded of it, never
exceeds `receivedBytes` once `execute` has reset it, unless the reset was mixed with an
addition. That `execute` finds the query complete only after it was read follows from the
order of its first two steps.

**`ComputationProofs`, kernels.** A word's thread and block come from a quotient and a
remainder, so the proof begins with when two quotients are equal (`Division`, `Apart`,
`OneQuotient`). `SeedOnce` says which round computes a seed and `QueryOfSeed` from which bytes,
`SmallWriters` and `LargeWriters` which threads write a word when a block has fewer or more words
than threads, `LargeWritesBehind` that one does behind the block. The two theorems also say for which
sizes a kernel stays inside the block and every seed gets its own query.

**`AlgorithmProofs`, induction.** The library's induction theorems take an operator, which the provers
cannot instantiate. The module does without: a property of numbers is a set of numbers, and a set
that is not empty has a least element (`LeastNumber`), so that the smallest
counterexample leads to a contradiction. `IntervalInduction` and `MeasureInduction` are that argument,
once for loops and once for recursive calls, with the property as a set. That a recursive
function over the numbers is a function that satisfies its equation (`RecursionHasSolution`) is
proved in the same way, by gluing the partial solutions together; a fold over a set is
an iteration of removals (`SumIsIteration`), from which the sum is additive.

**`AlgorithmProofs`, ranges.** With `Front(l, k)`, the number of groups in the chunks before the
k-th, every chunk is an interval, and the intervals lie one behind the other (`FrontsOrdered`)
and end at the last group (`FrontAll`). The client's loop over the chunks, with its position that
wraps around, and the server's memory, which `readDB` fills in one or two
parts, are then two descriptions of one sequence of intervals (`ExpansionsAgree`); the slice of a
server is the interval the expansion leaves out (`ExpansionMissesSlice`).

**`AlgorithmProofs`, database.** The invariant of the partition's loop is that what lies before the store
index is at most the pivot and what lies between it and the loop's index is greater, that nothing outside
the stretch moved and that the entries are the same, counted with their copies (`LoopContinues`,
`PartitionWorks`). `QuickSortWorks` is an induction over the length of a stretch: both
calls get a shorter one, and the second leaves the part of the first alone (`PartsSorted`). An entry that
cannot be addressed is outside every stretch. For the lookup, a sorted database
of different entries is increasing (`SortedIncreasing`); the manifest steps by the size of a block
exactly when the blocks are full (`ManifestStride`); and the search stops at the first manifest entry that
is not smaller, one block too early for the entry that begins a block (`SearchEnds`, `FoundEntries`).

Only model-checked:
* liveness, `CompletesUnlessCrossed`, `AbortFreesServer`, `SessionsEnd`, `TransfersGoOn` and `SessionEnds`,
  which the prover does not support;
* `QuietIsStuck`, because it contains ENABLED;
* `BytesExact`, because it needs facts about powers, `256^n` with a variable exponent, for which the
  provers have no theory and the library no theorems.

## Findings

* With the two servers `README.md` starts and three in `parameters.h`, requests return
  the wrong block, without any error (run `two_servers`).
* The unbalanced unlock of `precompute` releases the mutex while another thread has advanced
  `currentPreSeed` past the end and not yet wrapped it; a third thread then writes its tuple
  behind the seed memory (`pool_inside`).
* In the CUDA builds every tuple of a batch has the value of the first one
  (`cuda_values`), so queries answered with the others return a wrong block.
* A worker overwrites the buffer of a write that is still pending (`worker_sends`).
* The accelerator, defined by default, gives wrong answers: `fastXOR` drops `dest`, and with it the
  seed's value (`gpu_answers`).

More facts are visible in the models, in the conditions of their properties and theorems.

* Client: `request` never sends the initialization the servers wait for (`Api`), and waits.
* Accelerator: a seed's value is computed over the wrong groups, as `compute` is not given
  `dbStartingPoint` (`CudaValues`); of a slice of more than `BLOCKSIZE` groups only the front is
  copied (`CudaAnswers`); from the second round of a batch on the queries are misplaced
  (`EveryBatchExact`); with the `BLOCKSIZE` 4096 the comments of `parameters.h` have, every kernel
  writes behind its block (`EveryKernelFillsBlock`), although `parameters.h:47-48` asks for no
  adjustment when it is a multiple of 1024.
* Bytes: `subtractBytes` is wrong whenever a byte borrows (`BorrowAmount`; `BytesExact` says nothing
  of these), although its comment (`createDatabase.cpp:96`) says "z = x - y".
* `OPEN_MP`, which `parameters.h` defines, makes `fastxor` leave groups out whenever two threads
  of a team take the same `offset`; only a team of one is exact (`AloneExact`).
* Threads: `PAUSECONDITION` does not stop a running thread, and the one started beside it
  fills the memory at the same time (`overlap`), in the CUDA build beyond its slots; a quick
  stop and start leaves two transfer threads that can count a worker's memory below zero
  (`doubled`); the worker's relaunch can be lost (`missed`); the stop command of one thread of a peer stops the transfer for another
  one, which keeps the mutex (`PeerLink`'s `overlap`); a pipelined session can hang or use
  bytes it has not read (`overtaken`, `mixed`); a query that is read in part is executed
  all the same (`torn`).
* Database: with the default numbers (1,000,000 entries of 8 bytes, blocks of 1024) the manifest
  steps by 127 entries where a block has 128, so it drifts by one entry per block; and even when
  the sizes divide, the entry that begins a block is looked for in the block before.
  The sort leaves entries behind 4 GiB alone; the model of its index is exact when the size of
  an entry divides 2^32, as the default 8 does.

## Not modelled, and why

* `checkHash` looks up a point that only the client has touched: it unblinds `H_a` instead of
  the server's answer `H_ab`, and compares the point, not its hash (`CIP_pirClient.cpp:92-99`). The
  elliptic curve and the hash are a library; the models start from the point that is looked up.
* `preprocess` writes a header without data (the code that fills the table is commented out)
  and `readDBFromFile` frees the memory it returns: file input and output, which the models
  take as complete.
* `completexor` and `combineDest` (`MANUAL_THREADING`) do not compile; `compress`, `getPrefix`'s
  caller `printPrefixBlockMapping`, `writeHandle`, `readLoop`, `vector_xor`, `xorFullBlocks` and
  `allocateDB` of the accelerator are not called.
* A second connection of a peer to the central server, which replaces `connectionHandler` while
  a transfer uses it, and the life time of the `io_service` behind `centerSocket`: what
  follows is undefined behaviour in the library.
* A stop command before the first start, which would call `interrupt` on a `t2` that is not
  initialized (`RAID_pirCenterWorker.cpp:271`): a peer sends start first.
* Option parsing, benchmarks, timing output.

What a next step would be, in this order: the acceptor of the central server with
connections that end and come back; the powers that `BytesExact` needs as recursive functions,
so that the prefixes become theorems.

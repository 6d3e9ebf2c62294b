------------------------------- MODULE Kernels ------------------------------
(***************************************************************************)
(* The index arithmetic of the CUDA accelerator: which words of a block    *)
(* the threads of a kernel compute, from which bytes of a batch of queries *)
(* each seed's block is computed, and what the results are worth.          *)
(* A gpu g is what parameters.h says of it and of a block.  Memory of a    *)
(* block is counted in words of four bytes.                                *)
(***************************************************************************)
EXTENDS Geometry

\* words of a block, most threads of a kernel, threads on the whole device
Gpus(MaxWords, MaxThreads, MaxTotal) ==
  {g \in [words : 1 .. MaxWords, limit : 2 .. MaxThreads, total : 2 .. MaxTotal] :
     g.limit <= g.total}

CudaThreads(g) == IF g.words >= g.limit THEN g.limit ELSE g.words

ElementsPerThread(g) ==
  IF g.words >= g.limit THEN (g.words \div g.limit) * 2 ELSE 1

\* threadIdx.x * ELEMENTS_PER_THREAD * 4, in words: the macro has no
\* parentheses, so the product comes before its divisions.
ThreadOffset(g, tid) ==
  IF g.words >= g.limit THEN ((tid * g.words) \div g.limit) * 2 ELSE tid

CudaBlocks(g) == (g.total \div CudaThreads(g)) * 2

\* The threads that compute word w, counted from the block of the kernel.
Writers(g, w) ==
  {tid \in 0 .. CudaThreads(g) - 1 :
     w \in ThreadOffset(g, tid) .. ThreadOffset(g, tid) + ElementsPerThread(g) - 1}

\* No thread starts further behind the block than at its length again.
WordsNear(g) == 0 .. 3 * g.words + ElementsPerThread(g)

-----------------------------------------------------------------------------
\* compute: the rounds of a batch of count seeds.
Rounds(g, count) == {j \in 0 .. count - 1 : j % CudaBlocks(g) = 0}

\* MUTANT: the last seed of a batch is left out.
LaunchedOneLess(g, count, j) ==
  IF j + CudaBlocks(g) > count THEN count - j - 1 ELSE CudaBlocks(g)

Launched(g, count, j) == IF j + CudaBlocks(g) > count THEN count - j ELSE CudaBlocks(g)

\* The pairs of a round and a block of the kernel that compute seed s.
Computes(g, count, s) ==
  {p \in Rounds(g, count) \X (0 .. CudaBlocks(g) - 1) :
     p[2] < Launched(g, count, p[1]) /\ p[1] + p[2] = s}

\* Where data_ptr + bid * groups points to in round j: data_ptr has gone
\* ahead by CUDA_BLOCKS bytes for each of the rounds before.
DataIndex(g, groups, j, bid) == j + bid * groups

-----------------------------------------------------------------------------
\* Blocks are sets of entries <<group, value>> they are the exclusive or of;
\* the entry of value 0 is zero and is left out.  The entries that a query,
\* one byte for each group, selects of a server's memory from group first on.
Selected(l, id, first, query) ==
  {<<Memory(l, id)[first + k], query[k]>> : k \in {i \in DOMAIN query : query[i] # 0}}

Plus(a, b) == (a \ b) \cup (b \ a)

\* The values of a byte of a query.
ByteValues == {0, 1}

\* The group at position k of a server's memory, and what is behind it.
Stray == -1
GroupAt(l, id, k) ==
  IF k \in DOMAIN Memory(l, id) THEN Memory(l, id)[k] ELSE Stray

\* vector_xor2 for a query of which the first bytes are on the device, those
\* behind them are what the device has there.  The first entry is taken
\* without a look at groups, so that one byte at least is read, and the
\* accelerator has no argument but the query: it starts at the first group
\* of the memory and does not read dest.
KernelResults(l, id, query, bytes) ==
  LET known == {k \in DOMAIN query : k < bytes}
      read  == {0} \cup DOMAIN query
  IN {{<<GroupAt(l, id, k), data[k]>> : k \in {i \in read : data[i] # 0}} :
        data \in {d \in [read -> ByteValues] : \A k \in known : d[k] = query[k]}}

\* compute copies the expansion of every seed as a whole.
CudaValues(l, id, seed) ==
  KernelResults(l, id, seed, GroupsToGenerate(l, id))

\* fastXOR copies blocksize bytes of the query, however long it is.  The block
\* is stored in dest, and what dest held is lost.
CudaAnswers(l, id, dest, query, blocksize) ==
  KernelResults(l, id, query, blocksize)

\* The same without CUDA (FastXor has the loop).
CpuValue(l, id, seed)         == Selected(l, id, DbOffset(l, id), seed)
CpuAnswer(l, id, dest, query) == Plus(dest, Selected(l, id, 0, query))

-----------------------------------------------------------------------------
\* A kernel writes words behind the block.
WritesBehind(g) ==
  \E w \in WordsNear(g) : w >= g.words /\ Writers(g, w) # {}

(***************************************************************************)
(* Every word of a block is computed by one thread when the block has      *)
(* fewer words than a kernel has threads or a multiple of them, and        *)
(* nothing behind the block is written when it has fewer.                  *)
(***************************************************************************)
KernelFillsBlock(g) ==
  /\ g.words < g.limit \/ g.words % g.limit = 0 =>
       \A w \in 0 .. g.words - 1 : \E tid \in Writers(g, w) : Writers(g, w) = {tid}
  /\ g.words < g.limit => ~WritesBehind(g)

(***************************************************************************)
(* A batch computes every seed once and reads no byte outside the batch of *)
(* queries, and the seeds of the first round are computed from their own   *)
(* queries.                                                                *)
(***************************************************************************)
BatchExact(g, groups, count) ==
  \A s \in 0 .. count - 1 :
    \E j \in Rounds(g, count), bid \in 0 .. CudaBlocks(g) - 1 :
      /\ Computes(g, count, s) = {<<j, bid>>}
      /\ DataIndex(g, groups, j, bid) + groups <= groups * count
      /\ s < CudaBlocks(g) => DataIndex(g, groups, j, bid) = s * groups

(***************************************************************************)
(* compute does "loop over all seeds" (Accelerator_CUDA.cu:91): every seed *)
(* of a batch gets the block of its own query.                             *)
(***************************************************************************)
OwnQueries(g, groups, count) ==
  \A s \in 0 .. count - 1 :
    \A p \in Computes(g, count, s) : DataIndex(g, groups, p[1], p[2]) = s * groups

(***************************************************************************)
(* A client gets from a server with the accelerator what it gets from one  *)
(* without: the value of the seed it was sent, computed in a batch, with   *)
(* the entries of its query added.  "value of the seed-value-pair" is what *)
(* execute starts from (ClientConnection.cpp:69); the kernel leaves out    *)
(* the exclusive or with dest for the first entry because "xor with 0 is   *)
(* useless" (Accelerator_CUDA.cu, line 40), as if dest were always zero.   *)
(***************************************************************************)
AnswerAgrees(l, id, seed, query, blocksize) ==
  \A value \in CudaValues(l, id, seed) :
    CudaAnswers(l, id, value, query, blocksize)
      = {CpuAnswer(l, id, CpuValue(l, id, seed), query)}
=============================================================================

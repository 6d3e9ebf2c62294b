---------------------------- MODULE MCComputation ---------------------------
(***************************************************************************)
(* The computations on blocks on small instances.  A behaviour is one job: *)
(* fastxor and the pipelined execute are run step by step, the other jobs  *)
(* are inputs of operators that their property compares with a definition. *)
(***************************************************************************)
EXTENDS FastXor, Kernels, Database, Pipeline

VARIABLE job

Layouts5 == Layouts(4, 9)

Queries(n) == [0 .. n - 1 -> {0, 1}]

\* A byte of a sum is zero, at both ends of half a byte or of a byte.
Bytes2 == [1 .. 2 -> {0, 1, 15, 16, 129, 255}]

\* Every order of n different entries, with room between them.
Blinded(n) == {db \in [0 .. n - 1 -> {2 * k + 1 : k \in 1 .. n}] :
                 \A p, q \in 0 .. n - 1 : p # q => db[p] # db[q]}

Work ==
  [kind : {"fastxor", "pipeline"}] \cup
  [kind : {"layout"}, layout : Layouts5] \cup
  [kind : {"gpu"}, gpu : Gpus(9, 4, 8), groups : 1 .. 3, count : {1, 5, 9}] \cup
  (UNION {[kind : {"sort"}, db : [0 .. n - 1 -> 1 .. 3], addressable : 1 .. 5] : n \in 1 .. 5}) \cup
  (UNION {[kind : {"lookup"}, blinded : Blinded(n), perBlock : 1 .. 3] : n \in {1, 2, 3, 4, 6}}) \cup
  [kind : {"bytes"}, x : Bytes2, y : Bytes2]

MCBlocks == {{}, {<<0, 0>>, <<-1, 0>>}}

Idle ==
  /\ query = [i \in Iterations |-> 0] /\ start = {} /\ dest = {}
  /\ thread = [i \in Iterations |-> CHOOSE t \in Team : TRUE]
  /\ at = [i \in Iterations |-> "wait"]
  /\ offset = 0 /\ critical = Free
  /\ temp = [i \in Iterations |-> 0] /\ register = temp
  /\ copy = [i \in Iterations |-> {}]

\* No step of Pipeline is enabled.
PipeIdle ==
  /\ sent = 0 /\ hungUp = TRUE
  /\ reader = "end" /\ received = 0 /\ position = 0 /\ placed = {} /\ loaded = 0
  /\ available = 0 /\ complete = FALSE
  /\ executor = "end" /\ current = 0 /\ answer = {}
  /\ overtaken = FALSE /\ mixed = FALSE

MCInit ==
  /\ job \in Work
  /\ IF job.kind = "fastxor" THEN Init ELSE Idle
  /\ IF job.kind = "pipeline" THEN PipelineInit ELSE PipeIdle

XorStep  == job.kind = "fastxor" /\ Next /\ UNCHANGED <<job, pipelineVars>>
PipeStep == job.kind = "pipeline" /\ PipelineStep /\ UNCHANGED <<job, vars>>
Done ==
  /\ CASE job.kind = "fastxor"  -> Finished
       [] job.kind = "pipeline" -> executor \in {"end", "crashed"}
       [] OTHER                 -> TRUE
  /\ UNCHANGED <<job, vars, pipelineVars>>

MCNext == XorStep \/ PipeStep \/ Done

MCSpec == MCInit /\ [][MCNext]_<<job, vars, pipelineVars>> /\ PipelineFairness

-----------------------------------------------------------------------------
\* The servers and the client expand a seed over the same groups.
RangesAgree == job.kind = "layout" => SameRanges(job.layout)

\* The threads of a kernel compute every word of a block that fits them, and a
\* batch every seed once, the first round's from their own queries.
KernelsExact ==
  job.kind = "gpu" =>
    KernelFillsBlock(job.gpu) /\ BatchExact(job.gpu, job.groups, job.count)

\* The database is sorted when its entries can be addressed.
Sorted == job.kind = "sort" => SortExact(job.db, job.addressable)

\* A search ends in the block of the entry, but for those that begin one.
LookupsFind == job.kind = "lookup" => LookupFinds(job.blinded, job.perBlock)

\* The difference of two entries is exact when no byte borrows; zeros in front
\* and prefixes are those of the number.
BytesExact ==
  job.kind = "bytes" =>
    (NoBorrow(job.x, job.y) => DifferenceExact(job.x, job.y)) /\ BitsExact(job.x)

-----------------------------------------------------------------------------
\* Every answer of a server with the accelerator is that of one without
\* (ClientConnection.cpp:69, Accelerator_CUDA.cu:40), blocks of four bytes.
GpuAnswers ==
  job.kind = "layout" =>
    \A id \in Ids(job.layout) :
      GroupsToGenerate(job.layout, id) > 0 /\ ChunksGroupsMap(job.layout)[id] > 0 =>
        \A seed  \in Queries(GroupsToGenerate(job.layout, id)),
           bytes \in Queries(ChunksGroupsMap(job.layout)[id]) :
          AnswerAgrees(job.layout, id, seed, bytes, 4)
=============================================================================

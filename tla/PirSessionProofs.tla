-------------------------- MODULE PirSessionProofs --------------------------
(***************************************************************************)
(* Every request of PirSession that no server disturbs returns the block   *)
(* that was asked for, for every number of servers and of chunks, every    *)
(* database and every choice of seeds.                                     *)
(***************************************************************************)
EXTENDS PirSession, FiniteSetTheorems, TLAPS

-----------------------------------------------------------------------------
(* What the exclusive or of several buffers holds, for any of them         *)

LEMMA OddNext == \A n \in Nat : Odd(n + 1) <=> ~Odd(n)
BY DEF Odd

\* The s of S whose buffer f[s] contains b.
Holders(f, S, b) == {s \in S : b \in f[s]}

LEMMA InXorOf ==
  \A f, S, Blocks : \A b \in Blocks :
    b \in XorOf(f, S, Blocks) <=> Odd(Cardinality(Holders(f, S, b)))
BY DEF XorOf, Holders

LEMMA HoldersFinite ==
  ASSUME NEW S, IsFiniteSet(S), NEW f, NEW b
  PROVE  /\ IsFiniteSet(Holders(f, S, b))
         /\ Cardinality(Holders(f, S, b)) \in Nat
<1>1. Holders(f, S, b) \in SUBSET S
  BY DEF Holders
<1>2. IsFiniteSet(Holders(f, S, b))
  BY <1>1, FS_Subset
<1> QED
  BY <1>2, FS_CardinalityType

\* One more holder changes the parity, whoever it is.
LEMMA OneMoreHolder ==
  ASSUME NEW S, IsFiniteSet(S), NEW f, NEW b, NEW s, s \notin Holders(f, S, b)
  PROVE  Odd(Cardinality(Holders(f, S, b) \cup {s}))
           <=> ~Odd(Cardinality(Holders(f, S, b)))
<1>1. Cardinality(Holders(f, S, b) \cup {s})
        = Cardinality(Holders(f, S, b)) + 1
  BY HoldersFinite, FS_AddElement
<1> QED
  BY <1>1, HoldersFinite, OddNext

LEMMA XorOfEmpty ==
  ASSUME NEW f, NEW Blocks
  PROVE  XorOf(f, {}, Blocks) = {}
<1>1. \A b \in Blocks : {s \in {} : b \in f[s]} = {}
  OBVIOUS
<1>2. ~Odd(0)
  BY DEF Odd
<1> QED
  BY <1>1, <1>2, FS_EmptySet DEF XorOf

\* The buffer f[s] is not yet among those of S.
Fresh(f, S, s, Blocks) ==
  IsFiniteSet(S) /\ s \notin S /\ f[s] \subseteq Blocks

LEMMA XorOfAdd ==
  ASSUME NEW f, NEW S, NEW s, NEW Blocks, Fresh(f, S, s, Blocks)
  PROVE  XorOf(f, S \cup {s}, Blocks) = Xor(XorOf(f, S, Blocks), f[s])
<1> USE DEF Fresh
<1>1. ASSUME NEW b \in Blocks, b \in f[s]
      PROVE  b \in XorOf(f, S \cup {s}, Blocks) <=> b \notin XorOf(f, S, Blocks)
  <2>1. Holders(f, S \cup {s}, b) = Holders(f, S, b) \cup {s}
    BY <1>1 DEF Holders
  <2>2. s \notin Holders(f, S, b)
    BY DEF Holders
  <2>3. Odd(Cardinality(Holders(f, S \cup {s}, b)))
          <=> ~Odd(Cardinality(Holders(f, S, b)))
    BY <2>1, <2>2, OneMoreHolder
  <2> QED
    BY <2>3, InXorOf
<1>2. ASSUME NEW b \in Blocks, b \notin f[s]
      PROVE  b \in XorOf(f, S \cup {s}, Blocks) <=> b \in XorOf(f, S, Blocks)
  <2>1. Holders(f, S \cup {s}, b) = Holders(f, S, b)
    BY <1>2 DEF Holders
  <2> QED
    BY <2>1, InXorOf
<1>3. /\ XorOf(f, S \cup {s}, Blocks) \subseteq Blocks
      /\ XorOf(f, S, Blocks) \subseteq Blocks
  BY DEF XorOf
<1> QED
  BY <1>1, <1>2, <1>3 DEF Xor

LEMMA XorOfSame ==
  ASSUME NEW S, NEW Blocks, NEW f, NEW g, \A s \in S : f[s] = g[s]
  PROVE  XorOf(f, S, Blocks) = XorOf(g, S, Blocks)
<1>1. \A b \in Blocks : {s \in S : b \in f[s]} = {s \in S : b \in g[s]}
  OBVIOUS
<1> QED
  BY <1>1 DEF XorOf

-----------------------------------------------------------------------------
(* The inductive invariant                                                 *)

\* The request of c runs and every server has done its part as written.
Live(c) == phase[c] \notin {"done", "aborted"}
Clean(c) == ~torn[c] /\ Live(c)

Early == {"connect", "init", "seeds"}
Late == {"query", "results"}
Seeded == {"query", "execute", "closed"}

\* The client has the seed of s.
Received(c, s) == \/ phase[c] = "seeds" /\ s \notin todo[c]
                  \/ phase[c] \in Late

\* What s answers to the query of c, and all the answers.
Answer(c, s) == Xor(issued[c][s], querybuf[c] \cap ChunkBlocks(s))
Answers(c) == [s \in Server |-> Answer(c, s)]

(***************************************************************************)
(* The inductive invariant: where a seed, a query and an answer can be,    *)
(* and what the two buffers of the client hold at every point of a phase.  *)
(***************************************************************************)
SeedInv(c, s) ==
  /\ phase[c] = "connect" /\ s \in todo[c] => link[c][s] = "none"
  /\ issued[c][s] \subseteq MaskBlocks(s)
  /\ seedWire[c][s] \subseteq {issued[c][s]}
  /\ seedWire[c][s] # {} => link[c][s] \in Seeded
  /\ answerWire[c][s] # {} => link[c][s] = "closed"

LinkInv(c, s) ==
  /\ phase[c] \in Early => /\ link[c][s] \notin {"execute", "closed"}
                           /\ upQuery[c][s] = {}
  /\ Received(c, s) => link[c][s] \in Seeded
  /\ phase[c] \in Late =>
       upQuery[c][s] \subseteq {querybuf[c] \cap ChunkBlocks(s)}
  /\ link[c][s] \in {"query", "execute"} => dest[c][s] = issued[c][s]
  /\ link[c][s] = "execute" => query[c][s] = querybuf[c] \cap ChunkBlocks(s)
  /\ answerWire[c][s] \subseteq {Answer(c, s)}
  /\ /\ link[c][s] = "closed"
     /\ phase[c] = "query" \/ s \in todo[c]
     => answerWire[c][s] # {}

BufInv(c) ==
  /\ phase[c] = "init" => querybuf[c] = {}
  /\ phase[c] = "seeds" =>
       querybuf[c] = XorOf(issued[c], Server \ todo[c], Block)
  /\ phase[c] \in Late =>
       querybuf[c] = Xor(XorOf(issued[c], Server, Block), {index[c]})
  /\ phase[c] = "query" => resultbuf[c] = {}
  /\ phase[c] = "results" =>
       resultbuf[c] = XorOf(Answers(c), Server \ todo[c], Block)

ClientInv(c) ==
  /\ \A s \in Server : SeedInv(c, s)
  /\ Clean(c) => \A s \in Server : LinkInv(c, s)
  /\ Clean(c) => BufInv(c)
  /\ phase[c] = "done" /\ ~torn[c] => resultbuf[c] = {index[c]}

SessionInv == Connected = N => \A c \in Client : ClientInv(c)

-----------------------------------------------------------------------------
(***************************************************************************)
(* The variables of PirSession keep their types: no step of a client, of a *)
(* server or of a failing process leaves the states the module describes.  *)
(***************************************************************************)
LEMMA XorType ==
  ASSUME NEW d \in Content, NEW e \in Content
  PROVE  Xor(d, e) \in Content
BY DEF Xor, Content

LEMMA EmptyWire == {} \in Wire
BY DEF Wire

LEMMA WireType ==
  /\ \A e \in Content : {e} \in Wire
  /\ \A w \in Wire : \A e \in w : e \in Content
BY DEF Wire

LEMMA BlocksType ==
  ASSUME NEW s \in Server
  PROVE  /\ \A e \in SUBSET ChunkBlocks(s) : e \in Content
         /\ \A e \in SUBSET MaskBlocks(s) : e \in Content
         /\ \A q \in Content : q \cap ChunkBlocks(s) \in Content
BY DEF ChunkBlocks, MaskBlocks, Content

LEMMA TypeClient ==
  ASSUME TypeOK, NEW c \in Client, ClientStep(c) \/ Abort(c)
  PROVE  TypeOK'
<1> USE DEF Phase, Link, Serving, clientVars, serverVars, wireVars
<1>1. CASE StartRequest(c)
  <2>1. {} \in Content
    BY DEF Content
  <2> QED
    BY <1>1, <2>1 DEF StartRequest, StartPhase, TypeOK
<1>2. CASE JoinInit(c)
  BY <1>2 DEF JoinInit, StartPhase, TypeOK
<1>3. CASE RunPIR(c)
  <2>1. {} \in Content /\ {index[c]} \in Content
    BY DEF Content, TypeOK
  <2>2. Xor(querybuf[c], {index[c]}) \in Content
    BY <2>1, XorType DEF TypeOK
  <2> QED
    BY <1>3, <2>1, <2>2 DEF RunPIR, StartPhase, TypeOK
<1>4. CASE JoinQuery(c)
  BY <1>4 DEF JoinQuery, StartPhase, TypeOK
<1>5. CASE Close(c)
  BY <1>5 DEF Close, TypeOK
<1>6. CASE Abort(c)
  BY <1>6 DEF Abort, TypeOK
<1>7. ASSUME NEW s \in Server, AddServer(c, s)
      PROVE  TypeOK'
  <2>1. CASE s \notin down
    <3>1. /\ todo' = [todo EXCEPT ![c] = todo[c] \ {s}]
          /\ backlog' = [backlog EXCEPT ![s] = Append(backlog[s], c)]
          /\ link' = [link EXCEPT ![c][s] = "queued"]
          /\ UNCHANGED phase
      BY <1>7, <2>1 DEF AddServer
    <3>2. backlog' \in [Server -> Seq(Client)]
      BY <3>1 DEF TypeOK
    <3> QED
      BY <1>7, <3>1, <3>2 DEF AddServer, TypeOK
  <2>2. CASE s \in down
    BY <1>7, <2>2 DEF AddServer, TypeOK
  <2> QED
    BY <2>1, <2>2
<1>8. ASSUME NEW s \in Server, RequestServer(c, s)
      PROVE  TypeOK'
  BY <1>8, BytesAssumption DEF RequestServer, EndThread, TypeOK
<1>9. ASSUME NEW s \in Server, ReceiveSeed(c, s)
      PROVE  TypeOK'
  <2>1. seedWire[c][s] \in Wire
    BY DEF TypeOK
  <2>2. PICK e \in Content :
          querybuf' \in {querybuf,
                        [querybuf EXCEPT ![c] = Xor(querybuf[c], e)]}
    BY <1>9, <2>1, WireType, BlocksType DEF ReceiveSeed
  <2>3. Xor(querybuf[c], e) \in Content
    BY XorType DEF TypeOK
  <2>4. querybuf' \in [Client -> Content]
    BY <2>2, <2>3 DEF TypeOK
  <2>5. \/ seedWire' = seedWire
        \/ seedWire' = [seedWire EXCEPT ![c][s] = {}]
    BY <1>9 DEF ReceiveSeed
  <2>6. \/ answerWire' = answerWire
        \/ answerWire' = [answerWire EXCEPT ![c][s] = {}]
    BY <1>9 DEF ReceiveSeed
  <2>7. seedWire' \in [Client -> [Server -> Wire]]
    <3>1. seedWire \in [Client -> [Server -> Wire]]
      BY DEF TypeOK
    <3>2. CASE seedWire' = seedWire
      BY <3>1, <3>2
    <3>3. CASE seedWire' = [seedWire EXCEPT ![c][s] = {}]
      BY <3>1, <3>3, EmptyWire
    <3> QED
      BY <3>2, <3>3, <2>5
  <2>8. answerWire' \in [Client -> [Server -> Wire]]
    <3>1. answerWire \in [Client -> [Server -> Wire]]
      BY DEF TypeOK
    <3>2. CASE answerWire' = answerWire
      BY <3>1, <3>2
    <3>3. CASE answerWire' = [answerWire EXCEPT ![c][s] = {}]
      BY <3>1, <3>3, EmptyWire
    <3> QED
      BY <3>2, <3>3, <2>6
  <2> QED
    BY <1>9, <2>4, <2>7, <2>8 DEF ReceiveSeed, EndThread, TypeOK
<1>10. ASSUME NEW s \in Server, SendQuery(c, s)
       PROVE  TypeOK'
  <2>1. {querybuf[c] \cap ChunkBlocks(s)} \in Wire
    BY WireType, BlocksType DEF TypeOK
  <2> QED
    BY <1>10, <2>1 DEF SendQuery, EndThread, TypeOK
<1>11. ASSUME NEW s \in Server, ReceiveResult(c, s)
       PROVE  TypeOK'
  <2>1. answerWire[c][s] \in Wire
    BY DEF TypeOK
  <2>2. PICK e \in Content :
          resultbuf' = [resultbuf EXCEPT ![c] = Xor(resultbuf[c], e)]
    BY <1>11, <2>1, WireType DEF ReceiveResult, Content
  <2>3. Xor(resultbuf[c], e) \in Content
    BY XorType DEF TypeOK
  <2>4. resultbuf' \in [Client -> Content]
    BY <2>2, <2>3 DEF TypeOK
  <2>5. answerWire' = [answerWire EXCEPT ![c][s] = {}]
    BY <1>11 DEF ReceiveResult
  <2>6. answerWire' \in [Client -> [Server -> Wire]]
    BY <2>5, EmptyWire DEF TypeOK
  <2> QED
    BY <1>11, <2>4, <2>6 DEF ReceiveResult, EndThread, TypeOK
<1> QED
  BY <1>1, <1>2, <1>3, <1>4, <1>5, <1>6, <1>7, <1>8, <1>9, <1>10, <1>11
  DEF ClientStep

LEMMA TypeServer ==
  ASSUME TypeOK, NEW s \in Server, ServerStep(s) \/ Crash(s)
  PROVE  TypeOK'
<1> USE DEF Link, Serving, clientVars, wireVars, MoveLink
<1>1. ASSUME NEW c \in Client, Accept(c, s)
      PROVE  TypeOK'
  BY <1>1 DEF Accept, TypeOK
<1>2. ASSUME NEW c \in Client, ReadInit(c, s)
      PROVE  TypeOK'
  <2>1. PICK n \in 0 .. upInit[c][s] :
          \/ upInit' = upInit
          \/ upInit' = [upInit EXCEPT ![c][s] = upInit[c][s] - n]
    BY <1>2 DEF ReadInit
  <2>2. upInit[c][s] - n \in Nat
    BY DEF TypeOK
  <2>3. upInit' \in [Client -> [Server -> Nat]]
    <3>1. upInit \in [Client -> [Server -> Nat]]
      BY DEF TypeOK
    <3> QED
      BY <3>1, <2>1, <2>2
  <2> QED
    BY <1>2, <2>3 DEF ReadInit, TypeOK
<1>3. ASSUME NEW c \in Client, SendSeed(c, s)
      PROVE  TypeOK'
  <2>1. PICK e \in SUBSET MaskBlocks(s) :
          /\ dest' = [dest EXCEPT ![c][s] = e]
          /\ issued' = [issued EXCEPT ![c][s] = e]
          /\ seedWire' = [seedWire EXCEPT ![c][s] = {e}]
    BY <1>3 DEF SendSeed
  <2>2. e \in Content /\ {e} \in Wire
    BY <2>1, WireType, BlocksType
  <2> QED
    BY <1>3, <2>1, <2>2 DEF SendSeed, TypeOK
<1>4. ASSUME NEW c \in Client, ReadQuery(c, s)
      PROVE  TypeOK'
  <2>1. upQuery[c][s] \in Wire
    BY DEF TypeOK
  <2>2. PICK q \in Content : query' = [query EXCEPT ![c][s] = q]
    BY <1>4, <2>1, WireType, BlocksType DEF ReadQuery
  <2>3. /\ \/ upInit' = upInit
           \/ upInit' = [upInit EXCEPT ![c][s] = 0]
        /\ \/ torn' = torn
           \/ torn' = [torn EXCEPT ![c] = TRUE]
    BY <1>4 DEF ReadQuery
  <2>4. query' \in [Client -> [Server -> Content]]
    BY <2>2 DEF TypeOK
  <2>5. upInit' \in [Client -> [Server -> Nat]]
    <3>1. upInit \in [Client -> [Server -> Nat]]
      BY DEF TypeOK
    <3> QED
      BY <3>1, <2>3
  <2> QED
    BY <1>4, <2>3, <2>4, <2>5 DEF ReadQuery, TypeOK
<1>5. ASSUME NEW c \in Client, SendAnswer(c, s)
      PROVE  TypeOK'
  <2> DEFINE answer == Execute(dest[c][s], query[c][s])
             w == {answer}
  <2>1. answer \in Content /\ w \in Wire
    BY XorType, WireType DEF Execute, TypeOK
  <2>2. /\ dest' = [dest EXCEPT ![c][s] = answer]
        /\ \/ answerWire' = answerWire
           \/ answerWire' = [answerWire EXCEPT ![c][s] = w]
    BY <1>5 DEF SendAnswer
  <2> HIDE DEF answer, w
  <2>3. dest' \in [Client -> [Server -> Content]]
    BY <2>1, <2>2 DEF TypeOK
  <2>4. answerWire' \in [Client -> [Server -> Wire]]
    <3>1. answerWire \in [Client -> [Server -> Wire]]
      BY DEF TypeOK
    <3> QED
      BY <3>1, <2>1, <2>2
  <2> QED
    BY <1>5, <2>3, <2>4 DEF SendAnswer, TypeOK
<1>6. CASE Crash(s)
  <2>1. down' \subseteq Server
    BY <1>6, CrashAssumption DEF Crash, TypeOK
  <2>2. backlog' \in [Server -> Seq(Client)]
    BY <1>6 DEF Crash, TypeOK
  <2>3. link' \in [Client -> [Server -> Link]]
    BY <1>6 DEF Crash, TypeOK
  <2>4. seedWire' \in [Client -> [Server -> Wire]]
    BY <1>6, EmptyWire DEF Crash, TypeOK
  <2>5. torn' \in [Client -> BOOLEAN]
    BY <1>6 DEF Crash, TypeOK
  <2> QED
    BY <1>6, <2>1, <2>2, <2>3, <2>4, <2>5 DEF Crash, TypeOK
<1> QED
  BY <1>1, <1>2, <1>3, <1>4, <1>5, <1>6 DEF ServerStep

THEOREM TypeCorrect == Spec => []TypeOK
<1>1. Init => TypeOK
  BY DEF Init, TypeOK, Phase, Link, PerLink, Added, Content, Wire
<1>2. TypeOK /\ [Next]_vars => TypeOK'
  <2>1. CASE Next
    BY <2>1, TypeClient, TypeServer DEF Next
  <2>2. CASE UNCHANGED vars
    BY <2>2 DEF TypeOK, vars, clientVars, serverVars, wireVars
  <2> QED
    BY <2>1, <2>2
<1> QED
  BY <1>1, <1>2, PTL DEF Spec

-----------------------------------------------------------------------------
(***************************************************************************)
(* RetrievalCorrect.                                                       *)
(***************************************************************************)
LEMMA ServerFinite == IsFiniteSet(Server)
BY FS_Interval, NAssumption DEF Server

LEMMA EveryServerAdded ==
  ASSUME Connected = N
  PROVE  Added = Server
BY NAssumption DEF Added, Server

\* A server answers for none of the blocks its seeds are expanded over.
LEMMA OwnChunkNotMasked ==
  ASSUME NEW b \in Block
  PROVE  b \notin MaskBlocks(ChunkOf[b])
<1>1. ChunkOf[b] \in Server
  BY ChunkOfAssumption
<1> QED
  BY <1>1, ChunksAssumption, NAssumption DEF MaskBlocks, MaskChunks, Server

(***************************************************************************)
(* The scheme itself: each server s draws f[s] from the chunks it expands  *)
(* seeds over, the client adds i to their exclusive or, each server adds   *)
(* the blocks of the sum that are its own, and what all the servers have   *)
(* then sums up to i.                                                                  *)
(***************************************************************************)
Scheme(f, q, g, i) ==
  /\ \A s \in Server : f[s] \subseteq MaskBlocks(s)
  /\ q = Xor(XorOf(f, Server, Block), {i})
  /\ \A s \in Server : g[s] = Xor(f[s], q \cap ChunkBlocks(s))

LEMMA OneBlockLeft ==
  ASSUME NEW i \in Block, NEW f, NEW q, NEW g, Scheme(f, q, g, i)
  PROVE  XorOf(g, Server, Block) = {i}
<1> USE DEF Scheme
<1>0. \A b \in Block : ChunkOf[b] \in Server /\ b \notin f[ChunkOf[b]]
  BY OwnChunkNotMasked, ChunkOfAssumption
<1>1. ASSUME NEW b \in Block, b \in q
      PROVE  b \in XorOf(g, Server, Block) <=> b \notin XorOf(f, Server, Block)
  <2>1. Holders(g, Server, b) = Holders(f, Server, b) \cup {ChunkOf[b]}
    BY <1>0, <1>1 DEF Holders, Xor, ChunkBlocks
  <2>2. ChunkOf[b] \notin Holders(f, Server, b)
    BY <1>0 DEF Holders
  <2>3. Odd(Cardinality(Holders(g, Server, b)))
          <=> ~Odd(Cardinality(Holders(f, Server, b)))
    BY <2>1, <2>2, ServerFinite, OneMoreHolder
  <2> QED
    BY <2>3, InXorOf
<1>2. ASSUME NEW b \in Block, b \notin q
      PROVE  b \in XorOf(g, Server, Block) <=> b \in XorOf(f, Server, Block)
  <2>1. Holders(g, Server, b) = Holders(f, Server, b)
    BY <1>2 DEF Holders, Xor, ChunkBlocks
  <2> QED
    BY <2>1, InXorOf
<1>3. \A b \in Block : b \in q <=> (b \in XorOf(f, Server, Block) <=> b # i)
  BY DEF Xor
<1>4. XorOf(g, Server, Block) \subseteq Block
  BY DEF XorOf
<1> QED
  BY <1>1, <1>2, <1>3, <1>4
\* All that ClientInv(c) speaks of.
View(c) == <<phase[c], todo[c], index[c], querybuf[c], resultbuf[c], torn[c]>>
Connection(c, s) == <<link[c][s], dest[c][s], query[c][s], upQuery[c][s],
                      seedWire[c][s], answerWire[c][s], issued[c][s]>>

LEMMA InvInit == Init => SessionInv
<1> SUFFICES ASSUME Init, Connected = N, NEW c \in Client
             PROVE  ClientInv(c)
  BY DEF SessionInv
<1>1. \A s \in Server : SeedInv(c, s)
  BY DEF Init, PerLink, SeedInv
<1>2. \A s \in Server : LinkInv(c, s)
  BY DEF Init, PerLink, LinkInv, Received, Late, Early
<1>3. BufInv(c)
  BY DEF Init, BufInv, Late
<1> QED
  BY <1>1, <1>2, <1>3 DEF ClientInv, Init

LEMMA InvFrame ==
  ASSUME NEW c \in Client, ClientInv(c), UNCHANGED View(c),
         \A s \in Server : UNCHANGED Connection(c, s)
  PROVE  ClientInv(c)'
<1>1. \A s \in Server : SeedInv(c, s)'
  BY DEF ClientInv, SeedInv, View, Connection
<1>2. \A s \in Server : LinkInv(c, s) => LinkInv(c, s)'
  BY DEF LinkInv, Received, Answer, View, Connection
<1>3. BufInv(c) => BufInv(c)'
  <2>1. XorOf(issued[c], Server \ todo[c], Block)
          = XorOf(issued[c], Server \ todo[c], Block)'
    <3>1. \A s \in Server \ todo[c] : issued[c][s] = issued'[c][s]
      BY DEF Connection
    <3> QED
      BY <3>1, XorOfSame DEF View
  <2>2. XorOf(issued[c], Server, Block) = XorOf(issued[c], Server, Block)'
    <3>1. \A s \in Server : issued[c][s] = issued'[c][s]
      BY DEF Connection
    <3> QED
      BY <3>1, XorOfSame
  <2>3. Answers(c) = Answers(c)'
    BY DEF Answers, Answer, Connection, View
  <2> QED
    BY <2>1, <2>2, <2>3 DEF BufInv, View
<1> QED
  BY <1>1, <1>2, <1>3 DEF ClientInv, Clean, Live, View

\* With every answer in, resultbuf holds the block and nothing else.
LEMMA Retrieved ==
  ASSUME TypeOK, NEW c \in Client, phase[c] = "results", todo[c] = {},
         BufInv(c), \A s \in Server : SeedInv(c, s)
  PROVE  resultbuf[c] = {index[c]}
<1>1. index[c] \in Block
  BY DEF TypeOK
<1>2. Scheme(issued[c], querybuf[c], Answers(c), index[c])
  BY DEF SeedInv, BufInv, Late, Answers, Answer, Scheme
<1>3. resultbuf[c] = XorOf(Answers(c), Server, Block)
  BY DEF BufInv
<1> QED
  BY <1>1, <1>2, <1>3, OneBlockLeft

\* The steps of the main thread of c leave every connection alone.
LEMMA InvMainThread ==
  ASSUME TypeOK, Connected = N, NEW c \in Client, ClientInv(c),
         \/ StartRequest(c) \/ JoinInit(c) \/ RunPIR(c) \/ JoinQuery(c)
         \/ Close(c) \/ Abort(c)
  PROVE  ClientInv(c)'
<1>0. /\ \A s \in Server : UNCHANGED Connection(c, s)
      /\ UNCHANGED <<index, torn, issued>>
  BY DEF Connection, serverVars, wireVars, clientVars, StartRequest, JoinInit,
     RunPIR, JoinQuery, Close, Abort
<1> USE <1>0 DEF Connection
<1>1. CASE StartRequest(c)
  <2>1. /\ phase[c] = "connect"
        /\ phase'[c] \in {"init", "seeds"}
        /\ todo'[c] = Server
        /\ querybuf'[c] = {}
    BY <1>1 DEF StartRequest, StartPhase, TypeOK
  <2>2. \A s \in Server : SeedInv(c, s)'
    BY <2>1 DEF ClientInv, SeedInv
  <2>3. Clean(c)' => Clean(c)
    BY <2>1 DEF Clean, Live
  <2>4. ASSUME Clean(c), NEW s \in Server
        PROVE  LinkInv(c, s)'
    <3>1. LinkInv(c, s) /\ SeedInv(c, s)
      BY <2>4 DEF ClientInv
    <3> QED
      BY <2>1, <3>1
      DEF SeedInv, LinkInv, Received, Early, Late, Seeded, Answer
  <2>5. BufInv(c)'
    BY <2>1, XorOfEmpty DEF BufInv, Late
  <2> QED
    BY <2>1, <2>2, <2>3, <2>4, <2>5 DEF ClientInv
<1>2. CASE JoinInit(c)
  <2>1. /\ phase[c] = "init"
        /\ phase'[c] = "seeds"
        /\ todo'[c] = Server
        /\ querybuf'[c] = querybuf[c]
    BY <1>2 DEF JoinInit, StartPhase, TypeOK
  <2>2. \A s \in Server : SeedInv(c, s)'
    BY <2>1 DEF ClientInv, SeedInv
  <2>3. Clean(c)' => Clean(c)
    BY <2>1 DEF Clean, Live
  <2>4. ASSUME Clean(c), NEW s \in Server
        PROVE  LinkInv(c, s)'
    <3>1. LinkInv(c, s) /\ SeedInv(c, s)
      BY <2>4 DEF ClientInv
    <3> QED
      BY <2>1, <3>1
      DEF SeedInv, LinkInv, Received, Early, Late, Seeded, Answer
  <2>5. Clean(c) => BufInv(c)'
    BY <2>1, XorOfEmpty DEF ClientInv, BufInv, Late
  <2> QED
    BY <2>1, <2>2, <2>3, <2>4, <2>5 DEF ClientInv
<1>3. CASE RunPIR(c)
  <2>1. /\ phase[c] = "seeds"
        /\ phase'[c] = "query"
        /\ todo[c] = {}
        /\ todo'[c] = Server
        /\ querybuf'[c] = Xor(querybuf[c], {index[c]})
        /\ resultbuf'[c] = {}
    BY <1>3 DEF RunPIR, StartPhase, TypeOK
  <2>2. \A s \in Server : SeedInv(c, s)'
    BY <2>1 DEF ClientInv, SeedInv
  <2>3. Clean(c)' => Clean(c)
    BY <2>1 DEF Clean, Live
  <2>4. ASSUME Clean(c), NEW s \in Server
        PROVE  LinkInv(c, s)'
    <3>1. LinkInv(c, s) /\ SeedInv(c, s)
      BY <2>4 DEF ClientInv
    <3> QED
      BY <2>1, <3>1
      DEF SeedInv, LinkInv, Received, Early, Late, Seeded, Answer
  <2>5. Clean(c) => BufInv(c)'
    BY <2>1 DEF ClientInv, BufInv, Late
  <2> QED
    BY <2>1, <2>2, <2>3, <2>4, <2>5 DEF ClientInv
<1>4. CASE JoinQuery(c)
  <2>1. /\ phase[c] = "query"
        /\ phase'[c] = "results"
        /\ todo'[c] = Server
        /\ UNCHANGED <<querybuf, resultbuf>>
    BY <1>4 DEF JoinQuery, StartPhase, TypeOK
  <2>2. \A s \in Server : SeedInv(c, s)'
    BY <2>1 DEF ClientInv, SeedInv
  <2>3. Clean(c)' => Clean(c)
    BY <2>1 DEF Clean, Live
  <2>4. ASSUME Clean(c), NEW s \in Server
        PROVE  LinkInv(c, s)'
    <3>1. LinkInv(c, s) /\ SeedInv(c, s)
      BY <2>4 DEF ClientInv
    <3> QED
      BY <2>1, <3>1
      DEF SeedInv, LinkInv, Received, Early, Late, Seeded, Answer
  <2>5. Clean(c) => BufInv(c)'
    BY <2>1, XorOfEmpty DEF ClientInv, BufInv, Late
  <2> QED
    BY <2>1, <2>2, <2>3, <2>4, <2>5 DEF ClientInv
<1>5. CASE Close(c)
  <2>1. /\ phase[c] = "results"
        /\ phase'[c] = "done"
        /\ todo[c] = {}
        /\ UNCHANGED <<todo, resultbuf>>
    BY <1>5 DEF Close, TypeOK
  <2>2. \A s \in Server : SeedInv(c, s)'
    BY <2>1 DEF ClientInv, SeedInv
  <2>3. ~Clean(c)'
    BY <2>1 DEF Clean, Live
  <2>4. ASSUME ~torn[c]
        PROVE  resultbuf[c] = {index[c]}
    <3>1. BufInv(c) /\ \A s \in Server : SeedInv(c, s)
      BY <2>1, <2>4 DEF ClientInv, Clean, Live
    <3> QED
      BY <2>1, <3>1, Retrieved
  <2> QED
    BY <2>1, <2>2, <2>3, <2>4 DEF ClientInv
<1>6. CASE Abort(c)
  <2>1. phase'[c] = "aborted" /\ UNCHANGED todo
    BY <1>6 DEF Abort, TypeOK
  <2> QED
    BY <2>1 DEF ClientInv, SeedInv, Clean, Live
<1> QED
  BY <1>1, <1>2, <1>3, <1>4, <1>5, <1>6

\* What xorBytes makes of a buffer when the thread for s is the next to end.
LEMMA XorOfThread ==
  ASSUME NEW Running, NEW s \in Server, s \in Running, NEW f,
         f[s] \subseteq Block
  PROVE  XorOf(f, Server \ (Running \ {s}), Block)
           = Xor(XorOf(f, Server \ Running, Block), f[s])
<1> DEFINE S == Server \ Running
<1>1. Server \ (Running \ {s}) = S \cup {s}
  OBVIOUS
<1>2. Fresh(f, S, s, Block)
  BY ServerFinite, FS_Subset DEF Fresh
<1> HIDE DEF S
<1>3. XorOf(f, S \cup {s}, Block) = Xor(XorOf(f, S, Block), f[s])
  BY <1>2, XorOfAdd
<1> QED
  BY <1>1, <1>3 DEF S

\* A step of a thread of c, or of server s for c, moves one connection.
LEMMA InvConnection ==
  ASSUME NEW c \in Client, NEW s \in Server, ClientInv(c),
         UNCHANGED <<phase[c], index[c], torn[c]>>,
         \A t \in Server \ {s} : /\ UNCHANGED Connection(c, t)
                                 /\ t \in todo'[c] <=> t \in todo[c],
         SeedInv(c, s)',
         Clean(c) => LinkInv(c, s)' /\ BufInv(c)',
         Clean(c) /\ phase[c] # "seeds" => UNCHANGED querybuf[c],
         phase[c] = "done" => UNCHANGED resultbuf[c]
  PROVE  ClientInv(c)'
<1>1. ASSUME NEW t \in Server
      PROVE  SeedInv(c, t)'
  <2>1. CASE t = s
    BY <2>1
  <2>2. CASE t # s
    BY <2>2 DEF ClientInv, SeedInv, Connection
  <2> QED
    BY <2>1, <2>2
<1>2. ASSUME Clean(c), NEW t \in Server
      PROVE  LinkInv(c, t)'
  <2>1. CASE t = s
    BY <1>2, <2>1
  <2>2. CASE t # s
    <3>1. LinkInv(c, t) /\ SeedInv(c, t)
      BY <1>2 DEF ClientInv
    <3>2. UNCHANGED Connection(c, t) /\ (t \in todo'[c] <=> t \in todo[c])
      BY <2>2
    <3>3. CASE phase[c] = "seeds"
      BY <3>1, <3>2, <3>3
      DEF LinkInv, SeedInv, Received, Early, Late, Answer, Connection
    <3>4. CASE phase[c] # "seeds"
      <4>1. UNCHANGED querybuf[c]
        BY <1>2, <3>4
      <4> QED
        BY <3>1, <3>2, <4>1 DEF LinkInv, Received, Answer, Connection
    <3> QED
      BY <3>3, <3>4
  <2> QED
    BY <2>1, <2>2
<1>3. Clean(c)' <=> Clean(c)
  BY DEF Clean, Live
<1> QED
  BY <1>1, <1>2, <1>3 DEF ClientInv

LEMMA InvClientThread ==
  ASSUME TypeOK, Connected = N, NEW c \in Client, NEW s \in Server,
         ClientInv(c),
         \/ RequestServer(c, s) \/ ReceiveSeed(c, s) \/ SendQuery(c, s)
         \/ ReceiveResult(c, s)
  PROVE  ClientInv(c)'
<1>0. /\ UNCHANGED <<phase, index, torn, issued, link, dest, query>>
      /\ s \in todo[c]
      /\ todo'[c] = todo[c] \ {s}
      /\ s \in Added
  BY EveryServerAdded DEF TypeOK, EndThread, serverVars, RequestServer,
     ReceiveSeed, SendQuery, ReceiveResult
<1>1. CASE RequestServer(c, s)
  <2>1. /\ phase[c] = "init"
        /\ UNCHANGED <<querybuf, resultbuf, upQuery, seedWire, answerWire>>
    BY <1>1 DEF RequestServer, EndThread
  <2>2. SeedInv(c, s)'
    BY <1>0, <2>1 DEF ClientInv, SeedInv
  <2>3. Clean(c) => LinkInv(c, s)'
    BY <1>0, <2>1 DEF ClientInv, LinkInv, Received, Early, Late, Answer
  <2>4. Clean(c) => BufInv(c)'
    BY <1>0, <2>1 DEF ClientInv, BufInv, Late
  <2> QED
    BY <1>0, <2>1, <2>2, <2>3, <2>4, InvConnection DEF Connection
<1>2. CASE ReceiveSeed(c, s)
  <2>1. /\ phase[c] = "seeds"
        /\ UNCHANGED <<resultbuf, upQuery>>
    BY <1>2 DEF ReceiveSeed, EndThread
  <2>2. /\ seedWire'[c][s] \subseteq seedWire[c][s]
        /\ answerWire'[c][s] \subseteq answerWire[c][s]
        /\ \A t \in Server \ {s} : /\ seedWire'[c][t] = seedWire[c][t]
                                    /\ answerWire'[c][t] = answerWire[c][t]
    BY <1>2 DEF ReceiveSeed, TypeOK
  <2>3. SeedInv(c, s)'
    BY <1>0, <2>1, <2>2 DEF ClientInv, SeedInv
  <2>4. ASSUME Clean(c)
        PROVE  /\ link[c][s] \in Seeded \ {"closed"}
               /\ querybuf'[c] = Xor(querybuf[c], issued[c][s])
    <3>1. SeedInv(c, s) /\ LinkInv(c, s)
      BY <2>4 DEF ClientInv
    <3>2. link[c][s] # "closed"
      BY <2>1, <3>1 DEF LinkInv, Early
    <3>3. PICK e \in seedWire[c][s] :
            querybuf' = [querybuf EXCEPT ![c] = Xor(querybuf[c], e)]
      BY <1>0, <1>2, <3>2 DEF ReceiveSeed, Ended
    <3>4. e = issued[c][s] /\ link[c][s] \in Seeded
      BY <3>1, <3>3 DEF SeedInv
    <3> QED
      BY <3>2, <3>3, <3>4 DEF TypeOK
  <2>5. Clean(c) => LinkInv(c, s)'
    BY <1>0, <2>1, <2>2, <2>4
    DEF ClientInv, SeedInv, LinkInv, Received, Early, Late
  <2>6. ASSUME Clean(c)
        PROVE  BufInv(c)'
    <3>1. querybuf[c] = XorOf(issued[c], Server \ todo[c], Block)
      BY <2>1, <2>6 DEF ClientInv, BufInv
    <3>2. issued[c][s] \subseteq Block
      BY DEF TypeOK, Content
    <3>3. XorOf(issued[c], Server \ (todo[c] \ {s}), Block)
            = Xor(XorOf(issued[c], Server \ todo[c], Block), issued[c][s])
      BY <1>0, <3>2, XorOfThread
    <3>4. querybuf'[c] = XorOf(issued[c], Server \ todo'[c], Block)
      BY <1>0, <2>4, <2>6, <3>1, <3>3
    <3> QED
      BY <1>0, <2>1, <3>4 DEF BufInv, Late
  <2> QED
    BY <1>0, <2>1, <2>2, <2>3, <2>5, <2>6, InvConnection DEF Connection
<1>3. CASE SendQuery(c, s)
  <2>1. /\ phase[c] = "query"
        /\ UNCHANGED <<querybuf, resultbuf, seedWire, answerWire>>
        /\ upQuery' = [upQuery EXCEPT
                         ![c][s] = {querybuf[c] \cap ChunkBlocks(s)}]
    BY <1>0, <1>3 DEF SendQuery, EndThread
  <2>2. /\ upQuery'[c][s] = {querybuf[c] \cap ChunkBlocks(s)}
        /\ \A t \in Server \ {s} : upQuery'[c][t] = upQuery[c][t]
    BY <2>1 DEF TypeOK
  <2>3. SeedInv(c, s)'
    BY <1>0, <2>1 DEF ClientInv, SeedInv
  <2>4. Clean(c) => LinkInv(c, s)'
    BY <1>0, <2>1, <2>2
    DEF ClientInv, LinkInv, Received, Early, Late, Answer
  <2>5. Clean(c) => BufInv(c)'
    BY <1>0, <2>1 DEF ClientInv, BufInv, Late
  <2> QED
    BY <1>0, <2>1, <2>2, <2>3, <2>4, <2>5, InvConnection DEF Connection
<1>4. CASE ReceiveResult(c, s)
  <2>1. /\ phase[c] = "results"
        /\ UNCHANGED <<querybuf, upQuery, seedWire>>
        /\ answerWire'[c][s] = {}
        /\ \A t \in Server \ {s} : answerWire'[c][t] = answerWire[c][t]
    BY <1>4 DEF ReceiveResult, EndThread, TypeOK
  <2>2. SeedInv(c, s)'
    BY <1>0, <2>1 DEF ClientInv, SeedInv
  <2>3. Clean(c) => LinkInv(c, s)'
    BY <1>0, <2>1 DEF ClientInv, LinkInv, Received, Early, Late, Answer
  <2>4. ASSUME Clean(c)
        PROVE  BufInv(c)'
    <3>1. LinkInv(c, s) /\ BufInv(c)
      BY <2>4 DEF ClientInv
    <3>0. link[c][s] = "closed" => answerWire[c][s] # {}
      BY <1>0, <3>1 DEF LinkInv
    <3>2. PICK a \in answerWire[c][s] :
            resultbuf' = [resultbuf EXCEPT ![c] = Xor(resultbuf[c], a)]
      BY <1>0, <1>4, <3>0 DEF ReceiveResult, Ended
    <3>3. a = Answers(c)[s]
      BY <3>1, <3>2 DEF LinkInv, Answers
    <3>4. resultbuf'[c] = Xor(resultbuf[c], Answers(c)[s])
      BY <3>2, <3>3 DEF TypeOK
    <3>5. resultbuf[c] = XorOf(Answers(c), Server \ todo[c], Block)
      BY <2>1, <3>1 DEF BufInv
    <3>6. Answers(c)[s] \subseteq Block
      BY DEF Answers, Answer, Xor, TypeOK, Content
    <3>7. XorOf(Answers(c), Server \ (todo[c] \ {s}), Block)
            = Xor(XorOf(Answers(c), Server \ todo[c], Block), Answers(c)[s])
      BY <1>0, <3>6, XorOfThread
    <3>8. Answers(c)' = Answers(c)
      BY <1>0, <2>1 DEF Answers, Answer
    <3> QED
      BY <1>0, <2>1, <3>1, <3>4, <3>5, <3>7, <3>8 DEF BufInv, Late
  <2> QED
    BY <1>0, <2>1, <2>2, <2>3, <2>4, InvConnection DEF Connection
<1> QED
  BY <1>1, <1>2, <1>3, <1>4

\* addServer, which also ends the client when nobody listens.
LEMMA InvAddServer ==
  ASSUME TypeOK, NEW c \in Client, NEW s \in Server, ClientInv(c),
         AddServer(c, s)
  PROVE  ClientInv(c)'
<1>0. /\ phase[c] = "connect"
      /\ s \in todo[c]
      /\ UNCHANGED <<index, querybuf, resultbuf, torn, issued, dest, query,
                     upQuery, seedWire, answerWire>>
  BY DEF AddServer, wireVars
<1>1. CASE s \in down
  <2>1. phase'[c] = "aborted" /\ UNCHANGED <<todo, link>>
    BY <1>1 DEF AddServer, TypeOK
  <2> QED
    BY <1>0, <2>1 DEF ClientInv, SeedInv, Clean, Live
<1>2. CASE s \notin down
  <2>1. /\ UNCHANGED phase
        /\ todo' = [todo EXCEPT ![c] = todo[c] \ {s}]
        /\ link' = [link EXCEPT ![c][s] = "queued"]
    BY <1>2 DEF AddServer
  <2>2. /\ todo'[c] = todo[c] \ {s}
        /\ link'[c][s] = "queued"
        /\ \A t \in Server \ {s} : link'[c][t] = link[c][t]
    BY <2>1 DEF TypeOK
  <2>3. SeedInv(c, s) /\ link[c][s] = "none"
    BY <1>0 DEF ClientInv, SeedInv
  <2>4. SeedInv(c, s)'
    BY <1>0, <2>1, <2>2, <2>3 DEF SeedInv, Seeded
  <2>5. Clean(c) => LinkInv(c, s)'
    BY <1>0, <2>1, <2>2, <2>3
    DEF ClientInv, SeedInv, LinkInv, Received, Early, Late, Seeded
  <2>6. Clean(c) => BufInv(c)'
    BY <1>0, <2>1 DEF ClientInv, BufInv, Late
  <2> QED
    BY <1>0, <2>1, <2>2, <2>4, <2>5, <2>6, InvConnection DEF Connection
<1> QED
  BY <1>1, <1>2

LEMMA InvServer ==
  ASSUME TypeOK, NEW c \in Client, NEW s \in Server, ClientInv(c),
         \/ Accept(c, s) \/ ReadInit(c, s) \/ SendSeed(c, s)
         \/ ReadQuery(c, s) \/ SendAnswer(c, s)
  PROVE  ClientInv(c)'
<1>0. /\ UNCHANGED <<phase, todo, index, querybuf, resultbuf, upQuery>>
      /\ SeedInv(c, s)
  BY DEF clientVars, wireVars, Accept, ReadInit, SendSeed, ReadQuery,
     SendAnswer, ClientInv
<1>1. CASE Accept(c, s) \/ ReadInit(c, s)
  <2>1. /\ \/ link[c][s] = "queued" /\ link'[c][s] = "init"
           \/ link[c][s] = "init" /\ link'[c][s] = "seed"
        /\ \A t \in Server \ {s} : link'[c][t] = link[c][t]
        /\ UNCHANGED <<dest, query, seedWire, answerWire, issued, torn>>
    BY <1>1 DEF Accept, ReadInit, MoveLink, wireVars, TypeOK
  <2>2. SeedInv(c, s)'
    BY <1>0, <2>1 DEF SeedInv, Seeded
  <2>3. Clean(c) => LinkInv(c, s)'
    BY <1>0, <2>1
    DEF ClientInv, SeedInv, LinkInv, Received, Early, Late, Seeded, Answer
  <2>4. Clean(c) => BufInv(c)'
    <3>1. Answers(c)' = Answers(c)
      BY <1>0, <2>1 DEF Answers, Answer
    <3> QED
      BY <1>0, <2>1, <3>1 DEF ClientInv, BufInv
  <2> QED
    BY <1>0, <2>1, <2>2, <2>3, <2>4, InvConnection DEF Connection
<1>2. CASE SendSeed(c, s)
  <2>1. PICK e \in SUBSET MaskBlocks(s) :
          /\ link[c][s] = "seed"
          /\ link' = [link EXCEPT ![c][s] = "query"]
          /\ dest' = [dest EXCEPT ![c][s] = e]
          /\ issued' = [issued EXCEPT ![c][s] = e]
          /\ seedWire' = [seedWire EXCEPT ![c][s] = {e}]
          /\ UNCHANGED <<query, answerWire, torn>>
    BY <1>2 DEF SendSeed, MoveLink
  <2>2. /\ link'[c][s] = "query"
        /\ dest'[c][s] = e
        /\ issued'[c][s] = e
        /\ seedWire'[c][s] = {e}
        /\ \A t \in Server \ {s} : /\ link'[c][t] = link[c][t]
                                    /\ dest'[c][t] = dest[c][t]
                                    /\ issued'[c][t] = issued[c][t]
                                    /\ seedWire'[c][t] = seedWire[c][t]
    BY <2>1 DEF TypeOK
  <2>3. SeedInv(c, s)'
    BY <1>0, <2>1, <2>2 DEF SeedInv, Seeded
  <2>4. Clean(c) => LinkInv(c, s)'
    BY <1>0, <2>1, <2>2
    DEF ClientInv, SeedInv, LinkInv, Received, Early, Late, Seeded
  <2>5. ASSUME Clean(c)
        PROVE  BufInv(c)'
    <3>1. ~Received(c, s) /\ BufInv(c)
      BY <2>1, <2>5 DEF ClientInv, LinkInv, Seeded
    <3>2. CASE phase[c] = "seeds"
      <4>1. \A t \in Server \ todo[c] : issued'[c][t] = issued[c][t]
        BY <2>2, <3>1, <3>2 DEF Received
      <4>2. XorOf(issued'[c], Server \ todo[c], Block)
              = XorOf(issued[c], Server \ todo[c], Block)
        BY <4>1, XorOfSame
      <4> QED
        BY <1>0, <3>1, <3>2, <4>2 DEF BufInv, Late
    <3>3. CASE phase[c] # "seeds"
      BY <1>0, <3>1, <3>3 DEF BufInv, Received, Late
    <3> QED
      BY <3>2, <3>3
  <2> QED
    BY <1>0, <2>1, <2>2, <2>3, <2>4, <2>5, InvConnection DEF Connection
<1>3. CASE ReadQuery(c, s)
  <2>1. /\ link[c][s] = "query"
        /\ link' = [link EXCEPT ![c][s] = "execute"]
        /\ UNCHANGED <<dest, seedWire, answerWire, issued>>
        /\ \E q : query' = [query EXCEPT ![c][s] = q]
        /\ torn' \in {torn, [torn EXCEPT ![c] = TRUE]}
        /\ Clean(c)' => /\ torn' = torn
                        /\ \E q \in upQuery[c][s] :
                             query' = [query EXCEPT ![c][s] = q]
    BY <1>0, <1>3 DEF ReadQuery, MoveLink, Clean, Live, ReadFails, Gone, TypeOK
  <2>2. /\ link'[c][s] = "execute"
        /\ \A t \in Server \ {s} : /\ link'[c][t] = link[c][t]
                                    /\ query'[c][t] = query[c][t]
        /\ torn[c] => torn'[c]
    BY <2>1 DEF TypeOK
  <2>3. SeedInv(c, s)'
    BY <1>0, <2>1, <2>2 DEF SeedInv, Seeded
  <2>4. CASE Clean(c)'
    <3>1. Clean(c) /\ torn' = torn
      BY <1>0, <2>1, <2>4 DEF Clean, Live
    <3>2. LinkInv(c, s) /\ BufInv(c)
      BY <3>1 DEF ClientInv
    <3>3. PICK q \in upQuery[c][s] : query' = [query EXCEPT ![c][s] = q]
      BY <2>1, <2>4
    <3>4. /\ query'[c][s] = q
          /\ phase[c] \notin Early
      BY <3>2, <3>3 DEF LinkInv, TypeOK
    <3>5. phase[c] \in Late
      BY <3>1, <3>4 DEF Clean, Live, Early, Late, TypeOK, Phase
    <3>6. LinkInv(c, s)'
      BY <1>0, <2>1, <2>2, <3>2, <3>3, <3>4, <3>5
      DEF LinkInv, Received, Seeded, Answer
    <3>7. BufInv(c)'
      <4>1. Answers(c)' = Answers(c)
        BY <1>0, <2>1 DEF Answers, Answer
      <4> QED
        BY <1>0, <2>1, <3>2, <4>1 DEF BufInv
    <3> QED
      BY <1>0, <2>1, <2>2, <2>3, <3>1, <3>6, <3>7, InvConnection
      DEF Connection
  <2>5. CASE ~Clean(c)'
    <3>1. ASSUME NEW t \in Server
          PROVE  SeedInv(c, t)'
      BY <1>0, <2>1, <2>2, <2>3 DEF ClientInv, SeedInv
    <3> QED
      BY <1>0, <2>2, <2>5, <3>1 DEF ClientInv, TypeOK
  <2> QED
    BY <2>4, <2>5
<1>4. CASE SendAnswer(c, s)
  <2> DEFINE answer == Xor(dest[c][s], query[c][s])
             w == {answer}
  <2>1. /\ link[c][s] = "execute"
        /\ link' = [link EXCEPT ![c][s] = "closed"]
        /\ dest' = [dest EXCEPT ![c][s] = answer]
        /\ \/ answerWire' = [answerWire EXCEPT ![c][s] = w]
           \/ torn[c] /\ answerWire' = answerWire
        /\ UNCHANGED <<query, seedWire, issued, torn>>
    BY <1>4 DEF SendAnswer, MoveLink, Execute
  <2> HIDE DEF w
  <2>2. /\ link'[c][s] = "closed"
        /\ ~torn[c] => answerWire'[c][s] = w
        /\ \A t \in Server \ {s} : /\ link'[c][t] = link[c][t]
                                    /\ dest'[c][t] = dest[c][t]
                                    /\ answerWire'[c][t] = answerWire[c][t]
    BY <2>1 DEF TypeOK
  <2>3. SeedInv(c, s)'
    BY <1>0, <2>1, <2>2 DEF SeedInv, Seeded
  <2>4. ASSUME Clean(c)
        PROVE  LinkInv(c, s)'
    <3>1. LinkInv(c, s) /\ answerWire'[c][s] = w
      BY <2>2, <2>4 DEF ClientInv, Clean
    <3>2. w = {Answer(c, s)}
      BY <2>1, <3>1 DEF LinkInv, Answer, w
    <3> QED
      BY <1>0, <2>1, <2>2, <3>1, <3>2
      DEF LinkInv, Received, Seeded, Answer
  <2>5. Clean(c) => BufInv(c)'
    <3>1. Answers(c)' = Answers(c)
      BY <1>0, <2>1 DEF Answers, Answer
    <3> QED
      BY <1>0, <2>1, <3>1 DEF ClientInv, BufInv
  <2> QED
    BY <1>0, <2>1, <2>2, <2>3, <2>4, <2>5, InvConnection DEF Connection
<1> QED
  BY <1>1, <1>2, <1>3, <1>4

\* A server that goes down spoils the requests it was part of and no other.
LEMMA InvCrash ==
  ASSUME TypeOK, NEW s \in Server, NEW c \in Client, ClientInv(c), Crash(s)
  PROVE  ClientInv(c)'
<1> DEFINE Open == {d \in Client : link[d][s] \in {"queued"} \cup Serving}
<1>a. PICK Lost \in SUBSET Open :
        /\ link' = [d \in Client |->
             IF d \in Open THEN [link[d] EXCEPT ![s] = "closed"] ELSE link[d]]
        /\ seedWire' = [d \in Client |->
             IF d \in Lost THEN [seedWire[d] EXCEPT ![s] = {}]
                           ELSE seedWire[d]]
        /\ torn' = [d \in Client |-> torn[d] \/ d \in Open]
  BY Zenon DEF Crash
<1>b. UNCHANGED <<phase, todo, index, querybuf, resultbuf, upQuery, dest,
                  query, answerWire, issued>>
  BY DEF Crash, clientVars
<1>c. c \in Open <=> link[c][s] \in {"queued"} \cup Serving
  OBVIOUS
<1> HIDE DEF Open
<1>0. /\ link'[c] = IF c \in Open THEN [link[c] EXCEPT ![s] = "closed"]
                                  ELSE link[c]
      /\ \/ seedWire'[c] = seedWire[c]
         \/ c \in Open /\ seedWire'[c] = [seedWire[c] EXCEPT ![s] = {}]
      /\ torn'[c] = (torn[c] \/ c \in Open)
  BY <1>a
<1>1. CASE c \in Open
  <2>0. link[c] \in [Server -> Link]
    BY DEF TypeOK
  <2>1. /\ torn'[c]
        /\ link[c][s] # "none"
        /\ link'[c][s] = "closed"
        /\ \A t \in Server \ {s} : link'[c][t] = link[c][t]
    BY <1>0, <1>1, <1>c, <2>0 DEF Serving
  <2>2. \A t \in Server : seedWire'[c][t] \subseteq seedWire[c][t]
    BY <1>0 DEF TypeOK
  <2>3. ASSUME NEW t \in Server
        PROVE  SeedInv(c, t)'
    BY <1>b, <2>1, <2>2 DEF ClientInv, SeedInv, Seeded
  <2> QED
    BY <1>b, <2>1, <2>3 DEF ClientInv, Clean
<1>2. CASE c \notin Open
  <2>1. UNCHANGED View(c) /\ \A t \in Server : UNCHANGED Connection(c, t)
    BY <1>0, <1>b, <1>2 DEF View, Connection, TypeOK
  <2> QED
    BY <2>1, InvFrame
<1> QED
  BY <1>1, <1>2

LEMMA InvNext == TypeOK /\ SessionInv /\ [Next]_vars => SessionInv'
<1> SUFFICES ASSUME TypeOK, Connected = N, [Next]_vars, NEW d \in Client,
                    \A c \in Client : ClientInv(c)
             PROVE  ClientInv(d)'
  BY DEF SessionInv
<1> DEFINE Same == /\ UNCHANGED View(d)
                   /\ \A s \in Server : UNCHANGED Connection(d, s)
<1>1. Same => ClientInv(d)'
  BY InvFrame
<1>2. ASSUME NEW c \in Client,
             \/ StartRequest(c) \/ JoinInit(c) \/ RunPIR(c) \/ JoinQuery(c)
             \/ Close(c) \/ Abort(c)
      PROVE  ClientInv(d)'
  <2>1. d # c => Same
    BY <1>2
    DEF StartRequest, StartPhase, JoinInit, RunPIR, JoinQuery, Close, Abort,
        View, Connection, serverVars, wireVars, TypeOK
  <2> QED
    BY <1>1, <1>2, <2>1, InvMainThread
<1>3. ASSUME NEW c \in Client, NEW s \in Server,
             \/ AddServer(c, s) \/ RequestServer(c, s) \/ ReceiveSeed(c, s)
             \/ SendQuery(c, s) \/ ReceiveResult(c, s)
      PROVE  ClientInv(d)'
  <2>1. d # c => UNCHANGED View(d)
    BY <1>3
    DEF AddServer, RequestServer, ReceiveSeed, SendQuery, ReceiveResult,
        EndThread, View, TypeOK
  <2>2. d # c => \A t \in Server : UNCHANGED Connection(d, t)
    BY <1>3
    DEF AddServer, RequestServer, ReceiveSeed, SendQuery, ReceiveResult,
        Connection, serverVars, wireVars, TypeOK
  <2> QED
    BY <1>1, <1>3, <2>1, <2>2, InvAddServer, InvClientThread
<1>4. ASSUME NEW c \in Client, NEW s \in Server,
             \/ Accept(c, s) \/ ReadInit(c, s) \/ SendSeed(c, s)
             \/ ReadQuery(c, s) \/ SendAnswer(c, s)
      PROVE  ClientInv(d)'
  <2>1. d # c => UNCHANGED View(d)
    BY <1>4
    DEF Accept, ReadInit, SendSeed, ReadQuery, SendAnswer, clientVars, View,
        TypeOK
  <2>2. d # c => \A t \in Server : UNCHANGED Connection(d, t)
    BY <1>4
    DEF Accept, ReadInit, SendSeed, ReadQuery, SendAnswer, MoveLink,
        Connection, wireVars, TypeOK
  <2> QED
    BY <1>1, <1>4, <2>1, <2>2, InvServer
<1>5. ASSUME NEW s \in Server, Crash(s)
      PROVE  ClientInv(d)'
  BY <1>5, InvCrash
<1>6. CASE UNCHANGED vars
  <2>1. Same
    BY <1>6 DEF vars, clientVars, serverVars, wireVars, View, Connection
  <2> QED
    BY <1>1, <2>1
<1> QED
  BY <1>2, <1>3, <1>4, <1>5, <1>6 DEF Next, ClientStep, ServerStep

(***************************************************************************)
(* A request that every server takes part in to the end returns the block  *)
(* that was asked for (RAID_pirClient::runPIR), whatever the number of     *)
(* servers and of chunks, the seeds and the interleaving of the clients'   *)
(* and the servers' threads.                                               *)
(***************************************************************************)
THEOREM RetrievalIsCorrect == Spec => []RetrievalCorrect
<1>1. SessionInv => RetrievalCorrect
  BY DEF SessionInv, ClientInv, RetrievalCorrect
<1> QED
  BY <1>1, InvInit, InvNext, TypeCorrect, PTL DEF Spec

-----------------------------------------------------------------------------
(***************************************************************************)
(* StuckOnlyInCycle.  The inductive invariant says for every thread that   *)
(* may wait what it is that it can count on: a client's bytes on their way *)
(* to a server that has not read them, a seed on its way to the client,    *)
(* and a place in the backlog.  It does not matter here whether all the    *)
(* servers were added, or whether a session was torn.                      *)
(***************************************************************************)
\* addServer has not been called for s.
Connects(c, s) == phase[c] = "connect" /\ s \in todo[c]

\* requestServer has been run for s.
Asked(c, s) == phase[c] # "connect" /\ ~(phase[c] = "init" /\ s \in todo[c])

\* sendQuery has been run for s.
Queried(c, s) == \/ phase[c] = "query" /\ s \notin todo[c]
                 \/ phase[c] = "results"

WaitInv(c, s) ==
  /\ seedWire[c][s] # {} => link[c][s] \in Seeded
  /\ Connects(c, s) => link[c][s] = "none"
  /\ ~Gone(c) /\ s \in Added =>
       /\ link[c][s] = "none" => Connects(c, s)
       /\ link[c][s] \in {"queued", "init"} /\ Asked(c, s) => upInit[c][s] > 0
       /\ link[c][s] \in {"query", "execute"} /\ ~Received(c, s) => seedWire[c][s] # {}
       /\ Received(c, s) => link[c][s] \in Seeded
       /\ Queried(c, s) => upQuery[c][s] # {}

\* The backlog of s holds the connections that wait in it, each once.
QueueInv(s) ==
  /\ \A i \in 1 .. Len(backlog[s]) : link[backlog[s][i]][s] = "queued"
  /\ \A i, j \in 1 .. Len(backlog[s]) : backlog[s][i] = backlog[s][j] => i = j
  /\ \A c \in Client :
       link[c][s] = "queued" => \E i \in 1 .. Len(backlog[s]) : backlog[s][i] = c

StuckInv ==
  /\ \A c \in Client, s \in Server : WaitInv(c, s)
  /\ \A s \in Server : QueueInv(s)

LEMMA StuckInit == Init => StuckInv
<1> SUFFICES ASSUME Init
             PROVE  StuckInv
  OBVIOUS
<1>1. \A c \in Client, s \in Server : WaitInv(c, s)
  BY DEF Init, PerLink, WaitInv, Connects, Asked, Received, Queried, Late, Seeded
<1>2. \A s \in Server : QueueInv(s)
  BY DEF Init, PerLink, QueueInv
<1> QED
  BY <1>1, <1>2 DEF StuckInv

\* All that WaitInv(c, s) speaks of.
Progress(c, s) == <<phase[c], link[c][s], seedWire[c][s], upInit[c][s], upQuery[c][s]>>

LEMMA WaitFrame ==
  ASSUME NEW c \in Client, NEW s \in Server, WaitInv(c, s), UNCHANGED Progress(c, s),
         s \in todo'[c] <=> s \in todo[c]
  PROVE  WaitInv(c, s)'
BY DEF WaitInv, Progress, Connects, Asked, Received, Queried, Gone

\* The main thread of c goes on only after all the threads of the phase.
LEMMA WaitMainThread ==
  ASSUME TypeOK, Api = "checkHash",
         NEW c \in Client, NEW s \in Server, WaitInv(c, s),
         \/ StartRequest(c) \/ JoinInit(c) \/ RunPIR(c) \/ JoinQuery(c)
         \/ Close(c) \/ Abort(c)
  PROVE  WaitInv(c, s)'
<1>1. /\ UNCHANGED <<link, seedWire, upInit, upQuery>>
      /\ \/ phase[c] = "connect" /\ todo[c] = {} /\ phase'[c] = "init" /\ todo'[c] = Server
         \/ phase[c] = "init" /\ todo[c] = {} /\ phase'[c] = "seeds" /\ todo'[c] = Server
         \/ phase[c] = "seeds" /\ todo[c] = {} /\ phase'[c] = "query" /\ todo'[c] = Server
         \/ phase[c] = "query" /\ todo[c] = {} /\ phase'[c] = "results" /\ todo'[c] = Server
         \/ phase'[c] \in {"done", "aborted"}
  BY DEF StartRequest, JoinInit, RunPIR, JoinQuery, Close, Abort, StartPhase, serverVars,
         wireVars, TypeOK
<1> QED
  BY <1>1 DEF WaitInv, Connects, Asked, Received, Queried, Gone, Late

\* The threads of c for server s.
LEMMA WaitThread ==
  ASSUME TypeOK, InitLen > 0,
         NEW c \in Client, NEW s \in Server, WaitInv(c, s),
         \/ AddServer(c, s) \/ RequestServer(c, s) \/ ReceiveSeed(c, s)
         \/ SendQuery(c, s) \/ ReceiveResult(c, s)
  PROVE  WaitInv(c, s)'
<1> USE DEF WaitInv, Connects, Asked, Received, Queried, Gone, Late, Seeded
<1>1. CASE AddServer(c, s)
  <2>1. CASE s \notin down
    <3>1. /\ phase[c] = "connect" /\ s \in todo[c] /\ s \notin todo'[c]
          /\ link'[c][s] = "queued"
          /\ UNCHANGED <<phase, seedWire, upInit, upQuery>>
      BY <1>1, <2>1 DEF AddServer, wireVars, TypeOK
    <3> QED
      BY <3>1
  <2>2. CASE s \in down
    <3>1. phase'[c] = "aborted" /\ UNCHANGED <<link, seedWire>>
      BY <1>1, <2>2 DEF AddServer, wireVars, TypeOK
    <3> QED
      BY <3>1
  <2> QED
    BY <2>1, <2>2
<1>2. CASE RequestServer(c, s)
  <2>1. /\ phase[c] = "init" /\ s \in todo[c] /\ s \notin todo'[c]
        /\ UNCHANGED <<phase, link, seedWire, upQuery>>
    BY <1>2 DEF RequestServer, EndThread, serverVars, TypeOK
  <2>2. s \in Added => upInit'[c][s] > 0
    <3>1. upInit[c] \in [Server -> Nat]
      BY DEF TypeOK
    <3> QED
      BY <1>2, <3>1 DEF RequestServer, TypeOK
  <2> QED
    BY <2>1, <2>2
<1>3. CASE ReceiveSeed(c, s)
  <2>1. /\ phase[c] = "seeds" /\ s \in todo[c] /\ s \notin todo'[c]
        /\ UNCHANGED <<phase, link, upInit, upQuery>>
    BY <1>3 DEF ReceiveSeed, EndThread, serverVars, TypeOK
  <2>2. seedWire'[c][s] \subseteq seedWire[c][s]
    BY <1>3 DEF ReceiveSeed, TypeOK
  <2>3. s \in Added => seedWire[c][s] # {} \/ link[c][s] = "closed"
    BY <1>3 DEF ReceiveSeed, Ended
  <2> QED
    BY <2>1, <2>2, <2>3
<1>4. CASE SendQuery(c, s)
  <2>1. /\ phase[c] = "query" /\ s \in todo[c] /\ s \notin todo'[c]
        /\ UNCHANGED <<phase, link, upInit, seedWire>>
    BY <1>4 DEF SendQuery, EndThread, serverVars, TypeOK
  <2>2. s \in Added => upQuery'[c][s] # {}
    BY <1>4 DEF SendQuery, TypeOK
  <2> QED
    BY <2>1, <2>2
<1>5. CASE ReceiveResult(c, s)
  <2>1. /\ phase[c] = "results" /\ s \in todo[c] /\ s \notin todo'[c]
        /\ UNCHANGED <<phase, link, upInit, upQuery, seedWire>>
    BY <1>5 DEF ReceiveResult, EndThread, serverVars, TypeOK
  <2> QED
    BY <2>1
<1> QED
  BY <1>1, <1>2, <1>3, <1>4, <1>5

\* The session of c at server s.
LEMMA WaitServer ==
  ASSUME TypeOK, NEW c \in Client, NEW s \in Server, WaitInv(c, s),
         \/ Accept(c, s) \/ ReadInit(c, s) \/ SendSeed(c, s)
         \/ ReadQuery(c, s) \/ SendAnswer(c, s)
  PROVE  WaitInv(c, s)'
<1> USE DEF WaitInv, Connects, Asked, Received, Queried, Gone, Seeded
<1>1. UNCHANGED <<phase, todo, upQuery>>
  BY DEF Accept, ReadInit, SendSeed, ReadQuery, SendAnswer, clientVars, wireVars
<1>2. CASE Accept(c, s)
  <2>1. /\ link[c][s] = "queued" /\ link'[c][s] = "init"
        /\ UNCHANGED <<seedWire, upInit>>
    BY <1>2 DEF Accept, MoveLink, wireVars, TypeOK
  <2> QED
    BY <1>1, <2>1
<1>3. CASE ReadInit(c, s)
  <2>1. link[c][s] = "init" /\ link'[c][s] = "seed" /\ UNCHANGED seedWire
    BY <1>3 DEF ReadInit, MoveLink, TypeOK
  <2> QED
    BY <1>1, <2>1
<1>4. CASE SendSeed(c, s)
  <2>1. link[c][s] = "seed" /\ link'[c][s] = "query"
    BY <1>4 DEF SendSeed, MoveLink, TypeOK
  <2>2. seedWire'[c][s] # {}
    <3>1. PICK e : seedWire' = [seedWire EXCEPT ![c][s] = {e}]
      BY <1>4 DEF SendSeed
    <3> QED
      BY <3>1 DEF TypeOK
  <2> QED
    BY <1>1, <2>1, <2>2
<1>5. CASE ReadQuery(c, s)
  <2>1. link[c][s] = "query" /\ link'[c][s] = "execute" /\ UNCHANGED seedWire
    BY <1>5 DEF ReadQuery, MoveLink, TypeOK
  <2> QED
    BY <1>1, <2>1
<1>6. CASE SendAnswer(c, s)
  <2>1. link[c][s] = "execute" /\ link'[c][s] = "closed" /\ UNCHANGED seedWire
    BY <1>6 DEF SendAnswer, MoveLink, TypeOK
  <2> QED
    BY <1>1, <2>1
<1> QED
  BY <1>2, <1>3, <1>4, <1>5, <1>6

LEMMA WaitCrash ==
  ASSUME TypeOK, NEW t \in Server, Crash(t),
         NEW c \in Client, NEW s \in Server, WaitInv(c, s)
  PROVE  WaitInv(c, s)'
<1> DEFINE Open == {d \in Client : link[d][t] \in {"queued"} \cup Serving}
<1>1. PICK Lost \in SUBSET Open :
        /\ link' = [d \in Client |->
             IF d \in Open THEN [link[d] EXCEPT ![t] = "closed"] ELSE link[d]]
        /\ seedWire' = [d \in Client |->
             IF d \in Lost THEN [seedWire[d] EXCEPT ![t] = {}] ELSE seedWire[d]]
  BY Zenon DEF Crash
<1>2. UNCHANGED <<phase, todo, upInit, upQuery>>
  BY DEF Crash, clientVars
<1>3. c \in Open <=> link[c][t] \in {"queued"} \cup Serving
  OBVIOUS
<1> HIDE DEF Open
<1>4. CASE s = t /\ c \in Open
  <2>1. /\ link'[c][s] = "closed" /\ link[c][s] # "none"
        /\ seedWire'[c][s] \subseteq seedWire[c][s]
    BY <1>1, <1>3, <1>4 DEF Serving, TypeOK
  <2> QED
    BY <1>2, <2>1 DEF WaitInv, Connects, Asked, Received, Queried, Gone, Seeded
<1>5. CASE ~(s = t /\ c \in Open)
  <2>1. link'[c][s] = link[c][s] /\ seedWire'[c][s] = seedWire[c][s]
    BY <1>1, <1>5 DEF TypeOK
  <2> QED
    BY <1>2, <2>1, WaitFrame DEF Progress
<1> QED
  BY <1>4, <1>5

LEMMA WaitNext ==
  ASSUME TypeOK, Api = "checkHash", InitLen > 0, [Next]_vars,
         NEW d \in Client, NEW t \in Server, WaitInv(d, t)
  PROVE  WaitInv(d, t)'
<1> DEFINE Same == UNCHANGED Progress(d, t) /\ (t \in todo'[d] <=> t \in todo[d])
<1>1. Same => WaitInv(d, t)'
  BY WaitFrame
<1>2. ASSUME NEW c \in Client,
             \/ StartRequest(c) \/ JoinInit(c) \/ RunPIR(c) \/ JoinQuery(c)
             \/ Close(c) \/ Abort(c)
      PROVE  WaitInv(d, t)'
  <2>1. d # c => Same
    BY <1>2
    DEF StartRequest, StartPhase, JoinInit, RunPIR, JoinQuery, Close, Abort,
        Progress, serverVars, wireVars, TypeOK
  <2> QED
    BY <1>1, <1>2, <2>1, WaitMainThread
<1>3. ASSUME NEW c \in Client, NEW s \in Server,
             \/ AddServer(c, s) \/ RequestServer(c, s) \/ ReceiveSeed(c, s)
             \/ SendQuery(c, s) \/ ReceiveResult(c, s)
      PROVE  WaitInv(d, t)'
  <2>1. CASE d = c /\ t = s
    BY <1>3, <2>1, WaitThread
  <2>2. CASE d # c
    BY <1>1, <1>3, <2>2
    DEF AddServer, RequestServer, ReceiveSeed, SendQuery, ReceiveResult,
        EndThread, Progress, serverVars, wireVars, TypeOK
  <2>3. CASE d = c /\ t # s /\ UNCHANGED phase
    <3>1. t \in todo'[d] <=> t \in todo[d]
      BY <1>3, <2>3
      DEF AddServer, RequestServer, ReceiveSeed, SendQuery, ReceiveResult, EndThread, TypeOK
    <3>2. UNCHANGED Progress(d, t)
      BY <1>3, <2>3
      DEF AddServer, RequestServer, ReceiveSeed, SendQuery, ReceiveResult,
          Progress, serverVars, wireVars, TypeOK
    <3> QED
      BY <1>1, <3>1, <3>2
  <2>4. CASE d = c /\ t # s /\ phase' # phase
    <3>1. phase'[d] = "aborted" /\ UNCHANGED <<link, seedWire>>
      BY <1>3, <2>4
      DEF AddServer, RequestServer, ReceiveSeed, SendQuery, ReceiveResult,
          EndThread, wireVars, TypeOK
    <3> QED
      BY <3>1 DEF WaitInv, Connects, Gone
  <2> QED
    BY <2>1, <2>2, <2>3, <2>4
<1>4. ASSUME NEW c \in Client, NEW s \in Server,
             \/ Accept(c, s) \/ ReadInit(c, s) \/ SendSeed(c, s)
             \/ ReadQuery(c, s) \/ SendAnswer(c, s)
      PROVE  WaitInv(d, t)'
  <2>1. CASE d = c /\ t = s
    BY <1>4, <2>1, WaitServer
  <2>2. CASE d # c \/ t # s
    <3>1. UNCHANGED <<phase, todo>>
      BY <1>4 DEF Accept, ReadInit, SendSeed, ReadQuery, SendAnswer, clientVars
    <3>2. UNCHANGED <<link[d][t], seedWire[d][t], upInit[d][t], upQuery[d][t]>>
      BY <1>4, <2>2
      DEF Accept, ReadInit, SendSeed, ReadQuery, SendAnswer, MoveLink, wireVars, TypeOK
    <3> QED
      BY <1>1, <3>1, <3>2 DEF Progress
  <2> QED
    BY <2>1, <2>2
<1>5. ASSUME NEW s \in Server, Crash(s)
      PROVE  WaitInv(d, t)'
  BY <1>5, WaitCrash
<1>6. CASE UNCHANGED vars
  BY <1>1, <1>6 DEF vars, clientVars, serverVars, wireVars, Progress
<1> QED
  BY <1>2, <1>3, <1>4, <1>5, <1>6 DEF Next, ClientStep, ServerStep

\* The backlog of s as it is after a client has connected, has been accepted,
\* or has moved on.
LEMMA QueueNext ==
  ASSUME TypeOK, StuckInv, [Next]_vars, NEW t \in Server
  PROVE  QueueInv(t)'
<1> DEFINE B == backlog[t]
           Queued(c) == link[c][t] = "queued"
           Same == backlog'[t] = B /\ \A c \in Client : Queued(c)' <=> Queued(c)
<1>0. /\ B \in Seq(Client) /\ Len(B) \in Nat
      /\ \A i \in 1 .. Len(B) : B[i] \in Client /\ Queued(B[i])
      /\ \A i, j \in 1 .. Len(B) : B[i] = B[j] => i = j
      /\ \A c \in Client : Queued(c) => \E i \in 1 .. Len(B) : B[i] = c
  BY DEF TypeOK, StuckInv, QueueInv
<1>1. Same => QueueInv(t)'
  BY <1>0 DEF QueueInv
<1>2. ASSUME NEW c \in Client,
             \/ StartRequest(c) \/ JoinInit(c) \/ RunPIR(c) \/ JoinQuery(c)
             \/ Close(c) \/ Abort(c)
      PROVE  QueueInv(t)'
  <2>1. UNCHANGED <<backlog, link>>
    BY <1>2 DEF StartRequest, JoinInit, RunPIR, JoinQuery, Close, Abort, serverVars
  <2> QED
    BY <1>1, <2>1
<1>3. ASSUME NEW c \in Client, NEW s \in Server,
             \/ RequestServer(c, s) \/ ReceiveSeed(c, s)
             \/ SendQuery(c, s) \/ ReceiveResult(c, s)
      PROVE  QueueInv(t)'
  <2>1. UNCHANGED <<backlog, link>>
    BY <1>3 DEF RequestServer, ReceiveSeed, SendQuery, ReceiveResult, serverVars
  <2> QED
    BY <1>1, <2>1
<1>4. ASSUME NEW c \in Client, NEW s \in Server, AddServer(c, s)
      PROVE  QueueInv(t)'
  <2>1. CASE s # t \/ s \in down
    <3>1. backlog'[t] = B /\ \A d \in Client : link'[d][t] = link[d][t]
      BY <1>4, <2>1 DEF AddServer, TypeOK
    <3> QED
      BY <1>1, <3>1
  <2>2. CASE s = t /\ s \notin down
    <3>1. /\ backlog'[t] = Append(B, c)
          /\ link'[c][t] = "queued"
          /\ \A d \in Client \ {c} : link'[d][t] = link[d][t]
      BY <1>4, <2>2 DEF AddServer, TypeOK
    <3>2. ~Queued(c)
      <4>1. WaitInv(c, t) /\ Connects(c, t)
        BY <1>4, <2>2 DEF AddServer, StuckInv, Connects
      <4> QED
        BY <4>1 DEF WaitInv
    <3> DEFINE A == Append(B, c)
    <3>3. /\ Len(A) = Len(B) + 1 /\ A[Len(B) + 1] = c
          /\ \A i \in 1 .. Len(B) : A[i] = B[i]
      BY <1>0
    <3>4. \A i \in 1 .. Len(B) : B[i] # c
      BY <1>0, <3>2
    <3> HIDE DEF A, B
    <3>5. \A i \in 1 .. Len(A) : i \in 1 .. Len(B) \/ i = Len(B) + 1
      BY <1>0, <3>3
    <3>6. \A i \in 1 .. Len(A) : link'[A[i]][t] = "queued"
      BY <1>0, <3>1, <3>3, <3>4, <3>5
    <3>7. \A i, j \in 1 .. Len(A) : A[i] = A[j] => i = j
      BY <1>0, <3>3, <3>4, <3>5
    <3>8. ASSUME NEW d \in Client, link'[d][t] = "queued"
          PROVE  \E i \in 1 .. Len(A) : A[i] = d
      <4>1. Len(B) + 1 \in 1 .. Len(A) /\ \A i \in 1 .. Len(B) : i \in 1 .. Len(A)
        BY <1>0, <3>3
      <4>2. CASE d = c
        BY <3>3, <4>1, <4>2
      <4>3. CASE d # c
        BY <1>0, <3>1, <3>3, <3>8, <4>1, <4>3
      <4> QED
        BY <4>2, <4>3
    <3>9. backlog'[t] = A
      BY <3>1 DEF A, B
    <3> QED
      BY <3>6, <3>7, <3>8, <3>9 DEF QueueInv
  <2> QED
    BY <2>1, <2>2
<1>5. ASSUME NEW c \in Client, NEW s \in Server, Accept(c, s)
      PROVE  QueueInv(t)'
  <2>1. CASE s # t
    <3>1. backlog'[t] = B /\ \A d \in Client : link'[d][t] = link[d][t]
      BY <1>5, <2>1 DEF Accept, MoveLink, TypeOK
    <3> QED
      BY <1>1, <3>1
  <2>2. CASE s = t
    <3>1. /\ backlog'[t] = Tail(B) /\ B # <<>> /\ c = B[1]
          /\ link'[c][t] = "init"
          /\ \A d \in Client \ {c} : link'[d][t] = link[d][t]
      BY <1>5, <2>2 DEF Accept, MoveLink, TypeOK
    <3> DEFINE A == Tail(B)
    <3>2. /\ Len(B) > 0 /\ Len(A) = Len(B) - 1
          /\ \A i \in 1 .. Len(A) : A[i] = B[i + 1]
      BY <1>0, <3>1
    <3> HIDE DEF A, B
    <3>3. \A i \in 1 .. Len(A) : i + 1 \in 1 .. Len(B) /\ i + 1 # 1
      BY <1>0, <3>2
    <3>4. 1 \in 1 .. Len(B)
      BY <1>0, <3>2
    <3>5. \A i \in 1 .. Len(A) : A[i] \in Client \ {c} /\ Queued(A[i])
      BY <1>0, <3>1, <3>2, <3>3, <3>4
    <3>6. \A i \in 1 .. Len(A) : link'[A[i]][t] = "queued"
      BY <3>1, <3>5
    <3>7. \A i, j \in 1 .. Len(A) : A[i] = A[j] => i = j
      BY <1>0, <3>2, <3>3
    <3>8. ASSUME NEW d \in Client, link'[d][t] = "queued"
          PROVE  \E i \in 1 .. Len(A) : A[i] = d
      <4>1. d # c /\ Queued(d)
        BY <3>1, <3>8
      <4>2. PICK j \in 1 .. Len(B) : B[j] = d
        BY <1>0, <4>1
      <4>3. j # 1
        BY <3>1, <4>1, <4>2
      <4>4. j - 1 \in 1 .. Len(A) /\ (j - 1) + 1 = j
        BY <1>0, <3>2, <4>3
      <4>5. A[j - 1] = d
        BY <3>2, <4>2, <4>4
      <4> QED
        BY <4>4, <4>5
    <3>9. backlog'[t] = A
      BY <3>1 DEF A
    <3> QED
      BY <3>6, <3>7, <3>8, <3>9 DEF QueueInv
  <2> QED
    BY <2>1, <2>2
<1>6. ASSUME NEW c \in Client, NEW s \in Server,
             \/ ReadInit(c, s) \/ SendSeed(c, s) \/ ReadQuery(c, s) \/ SendAnswer(c, s)
      PROVE  QueueInv(t)'
  <2>1. UNCHANGED backlog
    BY <1>6 DEF ReadInit, SendSeed, ReadQuery, SendAnswer
  <2>2. /\ link[c][s] # "queued" /\ link'[c][s] # "queued"
        /\ \A d \in Client, r \in Server : d # c \/ r # s => link'[d][r] = link[d][r]
    BY <1>6 DEF ReadInit, SendSeed, ReadQuery, SendAnswer, MoveLink, TypeOK
  <2>3. \A d \in Client : Queued(d)' <=> Queued(d)
    BY <2>2
  <2> QED
    BY <1>1, <2>1, <2>3
<1>7. ASSUME NEW s \in Server, Crash(s)
      PROVE  QueueInv(t)'
  <2> DEFINE Open == {d \in Client : link[d][s] \in {"queued"} \cup Serving}
  <2>1. /\ backlog' = [backlog EXCEPT ![s] = <<>>]
        /\ link' = [d \in Client |->
             IF d \in Open THEN [link[d] EXCEPT ![s] = "closed"] ELSE link[d]]
    BY <1>7, Zenon DEF Crash
  <2>2. CASE s = t
    <3>1. backlog'[t] = <<>>
      BY <2>1, <2>2 DEF TypeOK
    <3>2. \A d \in Client : link'[d][t] # "queued"
      BY <2>1, <2>2 DEF TypeOK
    <3> QED
      BY <3>1, <3>2 DEF QueueInv
  <2>3. CASE s # t
    <3>1. backlog'[t] = B /\ \A d \in Client : link'[d][t] = link[d][t]
      BY <2>1, <2>3 DEF TypeOK
    <3> QED
      BY <1>1, <3>1
  <2> QED
    BY <2>2, <2>3
<1>8. CASE UNCHANGED vars
  BY <1>1, <1>8 DEF vars, serverVars
<1> QED
  BY <1>2, <1>3, <1>4, <1>5, <1>6, <1>7, <1>8 DEF Next, ClientStep, ServerStep

LEMMA StuckNext ==
  ASSUME TypeOK, StuckInv, Api = "checkHash", InitLen > 0, [Next]_vars
  PROVE  StuckInv'
BY WaitNext, QueueNext DEF StuckInv

\* A client that waits for the seed of a server that is not busy does not
\* wait: the server accepts it, reads its bytes or sends it the seed.
LEMMA StuckInSeeds ==
  ASSUME TypeOK, StuckInv, Quiet,
         NEW c \in Client, ~Gone(c), phase[c] = "seeds"
  PROVE  \E d \in Client \ {c} : ~Gone(d) /\ WaitsBehind(c, d)
<1>1. PICK s \in todo[c] : s \in Added /\ link[c][s] # "closed" /\ seedWire[c][s] = {}
  BY DEF Quiet, ClientWaits
<1>2. s \in Server
  BY <1>1 DEF Added
<1>3. ServerWaits(s) /\ WaitInv(c, s) /\ QueueInv(s)
  BY <1>2 DEF Quiet, StuckInv
<1>4. link[c][s] = "queued"
  <2>1. link[c][s] \in Link
    BY <1>2 DEF TypeOK
  <2>2. link[c][s] \notin {"seed", "execute"}
    BY <1>3 DEF ServerWaits, Serving
  <2>3. link[c][s] # "query" /\ link[c][s] # "none"
    BY <1>1, <1>3 DEF WaitInv, Received, Connects, Late
  <2>4. link[c][s] # "init"
    <3>1. link[c][s] = "init" => upInit[c][s] = 0
      BY <1>3 DEF ServerWaits, Serving
    <3>2. link[c][s] = "init" => upInit[c][s] > 0
      BY <1>1, <1>3 DEF WaitInv, Asked
    <3> QED
      BY <3>1, <3>2
  <2> QED
    BY <1>1, <2>1, <2>2, <2>3, <2>4 DEF Link, Serving
<1>5. ~Idle(s)
  <2>1. backlog[s] # <<>>
    <3>1. backlog[s] \in Seq(Client) /\ \E i \in 1 .. Len(backlog[s]) : backlog[s][i] = c
      BY <1>2, <1>3, <1>4 DEF QueueInv, TypeOK
    <3> QED
      BY <3>1
  <2> QED
    BY <1>3, <2>1 DEF ServerWaits
<1>6. PICK d \in Client : link[d][s] \in Serving
  BY <1>5 DEF Idle
<1>7. d # c
  BY <1>4, <1>6 DEF Serving
<1>8. ~Gone(d)
  BY <1>3, <1>6 DEF ServerWaits, ReadFails
<1> QED
  BY <1>1, <1>4, <1>6, <1>7, <1>8 DEF WaitsBehind

\* Nobody waits for a result when nothing moves.
LEMMA NeverStuckInResults ==
  ASSUME TypeOK, StuckInv, Quiet,
         NEW c \in Client, phase[c] = "results"
  PROVE  FALSE
<1>1. PICK s \in todo[c] : s \in Added /\ link[c][s] # "closed"
  BY DEF Quiet, ClientWaits, Gone
<1>2. s \in Server
  BY <1>1 DEF Added
<1>3. ServerWaits(s) /\ WaitInv(c, s)
  BY <1>2 DEF Quiet, StuckInv
<1>4. link[c][s] \in Seeded /\ upQuery[c][s] # {}
  BY <1>1, <1>3 DEF WaitInv, Received, Queried, Late, Gone
<1>5. link[c][s] \in Serving => link[c][s] \in {"init", "query"} /\ (link[c][s] = "query" => upQuery[c][s] = {})
  BY <1>3 DEF ServerWaits
<1> QED
  BY <1>1, <1>4, <1>5 DEF Seeded, Serving

(***************************************************************************)
(* When no thread can move any more, every client that is not finished     *)
(* waits for a server that is busy with another one (conHandler::start     *)
(* serves one connection at a time), whatever the number of clients and of *)
(* servers, those that were not added, and whoever has died: nothing else  *)
(* in the protocol can leave a checkHash waiting.  InitLen is the length   *)
(* of user name and password together (checkPassword).  If both are empty, *)
(* nothing is sent that the first read of conHandler::start waits for.     *)
(***************************************************************************)
THEOREM OnlyCyclesBlock ==
  ASSUME Api = "checkHash", InitLen > 0
  PROVE  Spec => []StuckOnlyInCycle
<1>1. TypeOK /\ StuckInv /\ [Next]_vars => StuckInv'
  BY StuckNext
<1>2. TypeOK /\ StuckInv => StuckOnlyInCycle
  <2> SUFFICES ASSUME TypeOK, StuckInv, Quiet, NEW c \in Client, ~Gone(c)
               PROVE  \E d \in Client \ {c} : ~Gone(d) /\ WaitsBehind(c, d)
    BY DEF StuckOnlyInCycle
  <2>1. phase[c] \in {"seeds", "results"}
    BY DEF Quiet, ClientWaits
  <2> QED
    BY <2>1, StuckInSeeds, NeverStuckInResults
<1> QED
  BY <1>1, <1>2, StuckInit, TypeCorrect, PTL DEF Spec
=============================================================================

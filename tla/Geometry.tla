------------------------------ MODULE Geometry ------------------------------
(***************************************************************************)
(* The chunks of the database.  A layout l says how many servers and       *)
(* groups of blocks there are and how many consecutive chunks each server  *)
(* holds.  The client, the peer server and the worker of the central       *)
(* server compute the ranges of groups each on its own, by different       *)
(* loops; the ranges have to agree group for group.  A position in a       *)
(* buffer or in a server's memory is counted in groups.                    *)
(***************************************************************************)
EXTENDS Integers, Functions

\* The states a layout can be in: CHUNKS is at most SERVERS.
Layouts(MaxServers, MaxGroups) ==
  {l \in [servers : 1 .. MaxServers, chunks : 1 .. MaxServers,
          groups : 0 .. MaxGroups] : l.chunks <= l.servers}

Ids(l) == 0 .. l.servers - 1

\* MUTANT: every chunk has the size of the last one.
ChunksGroupsMapEven(l) == [i \in Ids(l) |-> l.groups \div l.servers]

ChunksGroupsMap(l) ==
  [i \in Ids(l) |->
     l.groups \div l.servers + (IF i < l.groups % l.servers THEN 1 ELSE 0)]

\* The groups of some chunks, a loop that adds up chunksGroupsMap.
Groups(l, chunks) == SumFunctionOnSet(ChunksGroupsMap(l), chunks)

\* What a loop over consecutive chunks takes before it reaches the last
\* chunk, and what is left for the loop that begins again at chunk 0.
Before(l, first, count) == {i \in Ids(l) : first <= i /\ i < first + count}
Wrapped(l, first, count) == {i \in Ids(l) : i + l.servers < first + count}

-----------------------------------------------------------------------------
\* The client: handleSeed expands the seed of a server over groupsright
\* groups behind the server's own chunk, and over groupsleft from the start.
GroupsRight(l, id) == Groups(l, Before(l, id + 1, l.chunks - 1))
GroupsLeft(l, id)  == Groups(l, Wrapped(l, id + 1, l.chunks - 1))
SkipGroups(l, id)  == Groups(l, 0 .. id)

\* MUTANT: the part behind the own chunk starts with the own chunk.
ClientRangeAtOwn(l, id) ==
  [k \in 0 .. GroupsRight(l, id) + GroupsLeft(l, id) - 1 |->
     IF k < GroupsRight(l, id) THEN Groups(l, 0 .. id - 1) + k
                               ELSE k - GroupsRight(l, id)]

\* The group of querybuf that byte k of an expansion is added to.
ClientRange(l, id) ==
  [k \in 0 .. GroupsRight(l, id) + GroupsLeft(l, id) - 1 |->
     IF k < GroupsRight(l, id) THEN SkipGroups(l, id) + k
                               ELSE k - GroupsRight(l, id)]

\* sendQuery: the part of querybuf a server gets.
ClientSlice(l, id) ==
  [k \in 0 .. ChunksGroupsMap(l)[id] - 1 |-> Groups(l, 0 .. id - 1) + k]

-----------------------------------------------------------------------------
\* readDB of a peer server and of a worker: the file holds the groups in
\* order; the wrapped part is read first, to behind the other one.
GroupsForServerRight(l, id) == Groups(l, Before(l, id, l.chunks))
GroupsForServerLeft(l, id)  == Groups(l, Wrapped(l, id, l.chunks))

\* chunksToIgnore, then the chunks id-1, id-2, ... so many of them.
GroupsToIgnore(l, id) ==
  LET wrapped == {i \in Ids(l) : i + l.servers < id + l.chunks}
  IN Groups(l, {i \in Ids(l) : i < id} \ wrapped)

\* The group of the file that is at position k of db.
Memory(l, id) ==
  LET right == GroupsForServerRight(l, id)
      left  == GroupsForServerLeft(l, id)
  IN [k \in 0 .. right + left - 1 |->
        IF k < right THEN left + GroupsToIgnore(l, id) + k ELSE k - right]

\* precompute: how many groups a seed is expanded over, and the part of db
\* (from dbStartingPoint on) they are taken from.
GroupsToGenerate(l, id) ==
  SumFunction([i \in 1 .. l.chunks - 1 |->
                 ChunksGroupsMap(l)[(id + i) % l.servers]])

DbOffset(l, id) == ChunksGroupsMap(l)[id]

ServerRange(l, id) ==
  [k \in 0 .. GroupsToGenerate(l, id) - 1 |-> Memory(l, id)[DbOffset(l, id) + k]]

\* execute: getQuerySize groups from the start of db.
ServerSlice(l, id) ==
  [k \in 0 .. ChunksGroupsMap(l)[id] - 1 |-> Memory(l, id)[k]]

-----------------------------------------------------------------------------
(***************************************************************************)
(* The client and every server expand a seed over the same groups in the   *)
(* same order, and the slice of the query a server gets is for the groups  *)
(* it has in front; otherwise the answers do not cancel.  No expansion     *)
(* touches the slice of its own server, and every group is in exactly one  *)
(* slice, so the query reaches the servers as a whole.                     *)
(***************************************************************************)
SameRanges(l) ==
  /\ \A id \in Ids(l) :
       /\ ClientRange(l, id) = ServerRange(l, id)
       /\ ClientSlice(l, id) = ServerSlice(l, id)
       /\ Range(ClientRange(l, id)) \cap Range(ClientSlice(l, id)) = {}
  /\ \A g \in 0 .. l.groups - 1 :
       \E id \in Ids(l) :
         /\ g \in Range(ClientSlice(l, id))
         /\ \A other \in Ids(l) \ {id} : g \notin Range(ClientSlice(l, other))
=============================================================================

------------------------------- MODULE Database -----------------------------
(***************************************************************************)
(* The creation of a database and the client's search in it: the quicksort *)
(* of createDatabase.cpp, the manifest with the entry that begins each     *)
(* block, the client's choice of a block and its scan of the block, and    *)
(* the byte arithmetic for the compression.  Entries are numbers; memcmp   *)
(* orders them as bytes, most significant first, that is as numbers.       *)
(***************************************************************************)
EXTENDS Integers, FiniteSets, Functions

\* The entries of a database, at 0, 1, 2, ...
Size(db) == Cardinality(DOMAIN db)

\* l * ENTRYSIZE is cut off to 32 bits: where the entry l is looked for when
\* that many entries have an index of their own.
Slot(l, addressable) == l % addressable

BelowPivot(db, l, r) == db[l] <= db[r]

\* MUTANT: copies one entry over the other.
DBcopy(db, l, r) == [db EXCEPT ![l] = db[r]]

DBswap(db, l, r) == [db EXCEPT ![l] = db[r], ![r] = db[l]]

\* The loop of quicksort: what is not above the pivot, the last entry, goes to
\* the front, to cnt.  upTo[i] is how it leaves db and cnt for the index i.
Partition(db, l, r, addressable) ==
  LET at(i) == Slot(i, addressable)
      upTo[i \in l .. r + 1] ==
        IF i = l THEN [db |-> db, cnt |-> l]
        ELSE LET before == upTo[i - 1]
             IN IF BelowPivot(before.db, at(i - 1), at(r))
                THEN [db  |-> DBswap(before.db, at(before.cnt), at(i - 1)),
                      cnt |-> before.cnt + 1]
                ELSE before
  IN upTo[r + 1]

\* What quicksort is called for: the entries from l to r of a database.
Stretches(db) ==
  [db : [DOMAIN db -> Range(db)], l : 0 .. Size(db), r : -1 .. Size(db) - 1]

QuickSort(db, l, r, addressable) ==
  LET sort[s \in Stretches(db)] ==
        IF s.l >= s.r THEN s.db
        ELSE LET parted == Partition(s.db, s.l, s.r, addressable)
                 left   == sort[[db |-> parted.db, l |-> s.l, r |-> parted.cnt - 2]]
             IN sort[[db |-> left, l |-> parted.cnt, r |-> s.r]]
  IN sort[[db |-> db, l |-> l, r |-> r]]

-----------------------------------------------------------------------------
\* Blocks of perBlock entries; the last one may not be full.
NumBlocks(db, perBlock) == (Size(db) + perBlock - 1) \div perBlock

ManifestIndex(db, perBlock, i) == i * (Size(db) \div NumBlocks(db, perBlock))

\* MUTANT: the manifest is the last entry of every block.
CreateManifestLast(db, perBlock) ==
  [i \in 0 .. NumBlocks(db, perBlock) - 2 |-> db[ManifestIndex(db, perBlock, i + 1) - 1]]

CreateManifest(db, perBlock) ==
  [i \in 0 .. NumBlocks(db, perBlock) - 2 |-> db[ManifestIndex(db, perBlock, i + 1)]]

\* generateRandomDB sorts what blindDB gives and takes the manifest from it.
GenerateDB(blinded, perBlock) ==
  LET db == QuickSort(blinded, 0, Size(blinded) - 1, Size(blinded))
  IN [db |-> db, manifest |-> CreateManifest(db, perBlock)]

\* checkHash: the index the search in the manifest may end with.  Nothing
\* ends it behind the manifest but the memory there, MaxStray words of it.
MaxStray == 1

ManifestSearch(manifest, point) ==
  LET stops == {i \in DOMAIN manifest : point <= manifest[i]}
      size  == Size(manifest)
  IN IF stops = {} THEN size .. size + MaxStray
     ELSE {i \in stops : \A j \in stops : i <= j}

Block(db, perBlock, b) ==
  {p \in DOMAIN db : b * perBlock <= p /\ p < (b + 1) * perBlock}

\* The scan of a block ends at the point or at an entry above it.
InBlock(db, perBlock, b, point) ==
  \E p \in Block(db, perBlock, b) :
    /\ db[p] = point
    /\ \A q \in Block(db, perBlock, b) : q < p => db[q] < point

-----------------------------------------------------------------------------
\* Numbers as bytes x[1], x[2], ..., the most significant one first.
Digits == 256

\* What a borrow adds to a byte.
BorrowAmount == 16

Borrows(x, y) ==
  LET borrow[i \in 1 .. Cardinality(DOMAIN x) + 1] ==
        IF i \in DOMAIN x /\ x[i] - y[i] - borrow[i + 1] < 0 THEN 1 ELSE 0
  IN borrow

SubtractBytes(x, y) ==
  [i \in DOMAIN x |->
     (x[i] - y[i] - Borrows(x, y)[i + 1] + BorrowAmount * Borrows(x, y)[i]) % Digits]

\* The bits that are left of a byte when val has been shifted to zero.
Bits(val) == CHOOSE n \in 0 .. 8 : val < 2 ^ n /\ (n = 0 \/ val >= 2 ^ (n - 1))

\* MUTANT: counts on behind the first byte that is not zero.
Count0BitsAll(entry) ==
  LET zeros[i \in 0 .. Cardinality(DOMAIN entry)] ==
        IF i = 0 THEN 0 ELSE zeros[i - 1] + 8 - Bits(entry[i])
  IN zeros[Cardinality(DOMAIN entry)]

Count0Bits(entry) ==
  LET n == Cardinality(DOMAIN entry)
      from[i \in 1 .. n + 1] ==
        IF i > n THEN 0
        ELSE IF entry[i] = 0 THEN 8 + from[i + 1] ELSE 8 - Bits(entry[i])
  IN from[1]

\* getPrefix: whole bytes are shifted to the left, the last one to the right.
GetPrefix(entry, prefixlength) ==
  LET from[j \in Nat] ==
        LET left == prefixlength - 8 * (j - 1)
        IN IF left <= 0 THEN 0
           ELSE IF left >= 8 THEN entry[j] * 2 ^ (left - 8) + from[j + 1]
           ELSE (entry[j] \div 2 ^ (8 - left)) % 2 ^ left
  IN from[1]

Number(x) ==
  LET upTo[i \in 0 .. Cardinality(DOMAIN x)] ==
        IF i = 0 THEN 0 ELSE upTo[i - 1] * Digits + x[i]
  IN upTo[Cardinality(DOMAIN x)]

-----------------------------------------------------------------------------
Copies(db, e) == Cardinality({p \in DOMAIN db : db[p] = e})

(***************************************************************************)
(* quicksort sorts a database whose entries all have an index in 32 bits,  *)
(* and never loses an entry.  Of a larger one it leaves the entries behind *)
(* those alone, and the database is written unsorted.                      *)
(***************************************************************************)
SortExact(db, addressable) ==
  LET sorted == QuickSort(db, 0, Size(db) - 1, addressable)
  IN /\ \A p \in DOMAIN db : Copies(sorted, db[p]) = Copies(db, db[p])
     /\ \A p \in DOMAIN db : p >= addressable => sorted[p] = db[p]
     /\ Size(db) <= addressable =>
          \A p, q \in DOMAIN db : p < q => sorted[p] <= sorted[q]

(***************************************************************************)
(* The manifest names the entry that begins a block only if the blocksize  *)
(* divides the size of the database, as parameters.h asks.  Then a search  *)
(* ends in the block that has the point, but for the entries that begin a  *)
(* block after the first (looked for in the block before), and it may run  *)
(* on behind the manifest for points behind the start of the last block.   *)
(***************************************************************************)
LookupFinds(blinded, perBlock) ==
  LET made     == GenerateDB(blinded, perBlock)
      db       == made.db
      blocks   == NumBlocks(db, perBlock)
      aligned  == Size(db) % perBlock = 0
      found(e) == \E b \in ManifestSearch(made.manifest, e) : InBlock(db, perBlock, b, e)
  IN /\ aligned \/ blocks = 1 <=>
          \A i \in DOMAIN made.manifest : made.manifest[i] = db[(i + 1) * perBlock]
     /\ aligned =>
          \A p \in DOMAIN db :
            /\ found(db[p]) <=> (p = 0 \/ p % perBlock # 0)
            /\ ~ found(db[p] + 1)
            /\ Cardinality(ManifestSearch(made.manifest, db[p])) > 1 <=>
                 (p > (blocks - 1) * perBlock \/ blocks = 1)

(***************************************************************************)
(* subtractBytes "Calculates z = x - y over some bytes" (createDatabase.   *)
(* cpp, line 96): the difference as a number of so many bytes.             *)
(***************************************************************************)
DifferenceExact(x, y) ==
  LET modulus == Digits ^ Cardinality(DOMAIN x)
  IN Number(SubtractBytes(x, y)) = (Number(x) - Number(y)) % modulus

\* When no byte of x is below that of y there is nothing to borrow.
NoBorrow(x, y) == \A i \in DOMAIN x : x[i] >= y[i]

(***************************************************************************)
(* count_0bits and getPrefix agree with the number an entry stands for:    *)
(* the zeros are those in front of its highest bit, a prefix is the number *)
(* without the bits behind it.                                             *)
(***************************************************************************)
BitsExact(x) ==
  LET bits == 8 * Cardinality(DOMAIN x)
      used == bits - Count0Bits(x)
  IN /\ Number(x) < 2 ^ used /\ (used = 0 \/ Number(x) >= 2 ^ (used - 1))
     /\ \A k \in 1 .. bits : GetPrefix(x, k) = Number(x) \div 2 ^ (bits - k)
=============================================================================

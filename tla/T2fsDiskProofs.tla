--------------------------- MODULE T2fsDiskProofs ---------------------------
(***************************************************************************)
(* What the operators of T2fsTree do to a disk, for disks of every size.   *)
(* A disk is in order when BlockForm holds of its allocated i-nodes and    *)
(* TreeForm of its directories; each lemma says what one operator leaves   *)
(* of that, so that the proofs about the calls (T2fsTreeProofs) never look *)
(* at a block or at a pointer.                                             *)
(***************************************************************************)
EXTENDS T2fsTree, FiniteSetTheorems, WellFoundedInduction, TLAPS

(***************************************************************************)
(* The invariant of the disk.                                              *)
(***************************************************************************)
\* Only directories have blocks in T2fsTree.
DirNodes(D) == {i \in D.imap : D.ptr[i] # <<>>}

\* The size in the "." record, which is the first one.
dsize(D, i) == record_at(D, i, 0).bytes - (IF i = root THEN RPB - 2 ELSE 0)

parent_of(D, i) == record_at(D, i, 1).inode

\* Positions of the records other than "." and "..".
slots(D, i) == 2 .. dsize(D, i) - 1

\* The i-nodes of I have the indirect block when they need it and share no
\* block, and the set bits of the bitmap are those of their blocks.
BlockForm(D, I) ==
    /\ \A i \in I : D.idx[i] # NULL_BLOCK <=> Len(D.ptr[i]) > DIRECT
    /\ \A i, j \in I : \A a \in DOMAIN D.ptr[i], b \in DOMAIN D.ptr[j] :
          D.ptr[i][a] = D.ptr[j][b] => i = j /\ a = b
    /\ \A i, j \in I : \A b \in DOMAIN D.ptr[j] : D.idx[i] # D.ptr[j][b]
    /\ \A i, j \in I : D.idx[i] = D.idx[j] /\ D.idx[i] # NULL_BLOCK => i = j
    /\ D.bmap = UNION {blocks_of(D, i) : i \in I}

\* Directory i is a list of records with different names, "." first, as long
\* as "." says.
Listing(D, i) ==
    /\ dsize(D, i) \in 1 .. Len(D.ptr[i]) * RPB
    /\ record_at(D, i, 0).name = "." /\ record_at(D, i, 0).type = "dir"
    /\ record_at(D, i, 0).inode = i
    /\ record_at(D, i, 0).blocks = Len(D.ptr[i])
    /\ \A p \in positions(D, i) : record_at(D, i, p).type # "invalid" <=> p < dsize(D, i)
    /\ \A p, q \in 0 .. dsize(D, i) - 1 :
          record_at(D, i, p).name = record_at(D, i, q).name => p = q

DotDot(D, i) ==
    /\ dsize(D, i) >= 2
    /\ record_at(D, i, 1).name = ".." /\ record_at(D, i, 1).type = "dir"
    /\ parent_of(D, i) \in DirNodes(D)

Entered(D, i, p) ==
    LET r == record_at(D, i, p)
    IN  /\ r.name \in Name
        /\ r.inode \in D.imap \ {root}
        /\ r.type = "dir" <=> D.ptr[r.inode] # <<>>
        /\ r.type = "dir" => parent_of(D, r.inode) = i

\* The last conjunct says that ".." leads from every directory to the root:
\* a set of directories without the root has one whose parent is outside it.
TreeForm(D) ==
    /\ root \in DirNodes(D) /\ parent_of(D, root) = root
    /\ \A i \in DirNodes(D) : Listing(D, i) /\ DotDot(D, i)
    /\ \A i \in DirNodes(D) : \A p \in slots(D, i) : Entered(D, i, p)
    /\ \A j \in D.imap \ {root} : \E i \in DirNodes(D) : \E p \in slots(D, i) :
          record_at(D, i, p).inode = j
    /\ \A i, k \in DirNodes(D) : \A p \in slots(D, i), q \in slots(D, k) :
          record_at(D, i, p).inode = record_at(D, k, q).inode => i = k /\ p = q
    /\ \A S \in SUBSET (DirNodes(D) \ {root}) :
          S # {} => \E i \in S : parent_of(D, i) \notin S

-----------------------------------------------------------------------------
(***************************************************************************)
(* Numbers and sets.                                                       *)
(***************************************************************************)
\* A set of natural numbers that has members has a least one.
LEMMA MinIsLeast ==
    ASSUME NEW S, S \subseteq Nat, S # {}
    PROVE  Min(S) \in S /\ \A y \in S : Min(S) <= y
<1>1. PICK x \in S : \A y \in S : ~(<<y, x>> \in OpToRel(<, Nat))
  BY NatLessThanWellFounded, WFMin, Zenon
<1>2. \A y \in S : <<y, x>> \in OpToRel(<, Nat) <=> y < x
  BY Zenon DEF OpToRel
<1>3. \A y \in S : ~(y < x)
  BY <1>1, <1>2, Zenon
<1>4. x \in S /\ \A y \in S : x <= y
  BY <1>3
<1> QED BY <1>4, Zenon DEF Min

\* The sizes that the assumptions give, and the first i-node.
LEMMA Sizes ==
    /\ NI \in Nat /\ NI > 0 /\ NB \in Nat /\ NB > 0 /\ RPB \in Nat /\ RPB > 2
    /\ DIRECT \in Nat /\ DIRECT > 0
    /\ root \in Inode /\ Inode \subseteq Nat /\ Block \subseteq Nat /\ NULL_BLOCK \notin Block
BY SizesAssumption DEF root, Inode, Block, NULL_BLOCK

\* Position p of a directory of n blocks is record p % RPB of block p \div RPB.
LEMMA Split ==
    ASSUME NEW n \in Nat, NEW p \in 0 .. n * RPB - 1
    PROVE  /\ p \div RPB + 1 \in 1 .. n /\ p % RPB \in 0 .. RPB - 1
           /\ p = (p \div RPB) * RPB + (p % RPB)
<1>1. RPB \in Nat /\ RPB > 2 /\ n * RPB \in Int /\ p \in Nat /\ p < n * RPB
  BY Sizes
<1>2. p % RPB \in 0 .. RPB - 1 /\ p \div RPB \in Int /\ p = (p \div RPB) * RPB + (p % RPB)
  BY <1>1, SMTT(20)
<1> DEFINE q == p \div RPB
<1>3. q \in Int
  BY <1>2
<1>4. q * RPB <= p /\ p < q * RPB + RPB
  BY <1>1, <1>2, SMTT(20)
<1> HIDE DEF q
<1>5. q >= 0
  BY <1>1, <1>3, <1>4, SMTT(20)
<1>6. q < n
  BY <1>1, <1>3, <1>4, <1>5, SMTT(20)
<1> QED
  BY <1>2, <1>3, <1>5, <1>6 DEF q

\* A block and a record in it make a position that splits into them.
LEMMA Join ==
    ASSUME NEW n \in Nat, NEW k \in 0 .. RPB - 1
    PROVE  /\ n * RPB + k \in Nat
           /\ (n * RPB + k) \div RPB = n /\ (n * RPB + k) % RPB = k
<1>1. RPB \in Nat /\ RPB > 2 /\ k \in Nat /\ k < RPB
  BY Sizes
<1>2. n * RPB \in Nat
  BY <1>1, SMTT(20)
<1>3. (n * RPB + k) \div RPB = n /\ (n * RPB + k) % RPB = k
  BY <1>1, SMTT(20)
<1> QED BY <1>1, <1>2, <1>3

\* One block more is RPB positions more.
LEMMA OneBlockMore ==
    ASSUME NEW n \in Nat
    PROVE  /\ n * RPB \in Nat /\ (n + 1) * RPB = n * RPB + RPB
           /\ \A m \in Nat : m > 0 => m * RPB >= RPB
<1>1. RPB \in Nat
  BY Sizes
<1> QED BY <1>1, SMTT(20)

\* There are finitely many blocks.
LEMMA BlocksFinite == IsFiniteSet(Block)
BY FS_Interval, Sizes DEF Block

\* A free block is given out, and one free block less is left.
LEMMA FreeBlock ==
    ASSUME NEW D \in Disk, NEW n \in Nat, n > 0, Cardinality(Block \ D.bmap) >= n
    PROVE  /\ alloc_block(D) \in Block \ D.bmap
           /\ Cardinality(Block \ (D.bmap \cup {alloc_block(D)})) = Cardinality(Block \ D.bmap) - 1
<1> DEFINE free == Block \ D.bmap
<1>1. IsFiniteSet(Block)
  BY BlocksFinite
<1>2. IsFiniteSet(free) /\ free \subseteq Nat
  BY <1>1, FS_Subset, Sizes
<1>3. free # {}
  BY FS_EmptySet
<1>4. alloc_block(D) \in free
  BY <1>2, <1>3, MinIsLeast DEF alloc_block
<1>5. Block \ (D.bmap \cup {alloc_block(D)}) = free \ {alloc_block(D)}
  OBVIOUS
<1>6. Cardinality(free \ {alloc_block(D)}) = Cardinality(free) - 1
  BY <1>2, <1>4, FS_RemoveElement
<1> QED BY <1>4, <1>5, <1>6

free_blocks(D) == Cardinality(Block \ D.bmap)
HasFree(D, n) == free_blocks(D) >= n

\* The number of free blocks is a natural number.
LEMMA FreeBlocks ==
    ASSUME NEW D
    PROVE  free_blocks(D) \in Nat
BY BlocksFinite, FS_Subset, FS_CardinalityType DEF free_blocks

\* alloc_inode gives out a free i-node.
LEMMA FreeInode ==
    ASSUME NEW D \in Disk, Inode \ D.imap # {}
    PROVE  alloc_inode(D) \in Inode \ D.imap
BY MinIsLeast, Sizes DEF alloc_inode

-----------------------------------------------------------------------------
(***************************************************************************)
(* Reading and writing a record.                                           *)
(***************************************************************************)
\* E differs from D in records only.
Same(D, E) == E.imap = D.imap /\ E.bmap = D.bmap /\ E.ptr = D.ptr /\ E.idx = D.idx

\* The directories of I other than i have in E the records they had in D.
OthersKept(D, E, I, i) ==
    \A j \in I \ {i} : \A q \in positions(D, j) : record_at(E, j, q) = record_at(D, j, q)

\* The types of what a disk holds.
LEMMA DiskFields ==
    ASSUME NEW D \in Disk
    PROVE  /\ D.imap \subseteq Inode /\ D.bmap \subseteq Block
           /\ D.ptr \in [Inode -> Seq(Block)] /\ D.idx \in [Inode -> Block \cup {NULL_BLOCK}]
           /\ D.rec \in [Block -> [0 .. RPB - 1 -> Record]]
           /\ \A i \in Inode : Len(D.ptr[i]) \in Nat /\ DOMAIN D.ptr[i] = 1 .. Len(D.ptr[i])
           /\ \A i \in Inode : positions(D, i) \subseteq Nat
BY DEF Disk, positions

\* A disk from its fields.
LEMMA DiskOf ==
    ASSUME NEW a \in SUBSET Inode, NEW b \in SUBSET Block, NEW f \in [Inode -> Seq(Block)],
           NEW x \in [Inode -> Block \cup {NULL_BLOCK}],
           NEW g \in [Block -> [0 .. RPB - 1 -> Record]]
    PROVE  [imap |-> a, bmap |-> b, ptr |-> f, idx |-> x, rec |-> g] \in Disk
BY DEF Disk

\* What create_single_ind_block changes of a disk.
LEMMA IndirectFields ==
    ASSUME NEW F, F = [imap |-> F.imap, bmap |-> F.bmap, ptr |-> F.ptr, idx |-> F.idx, rec |-> F.rec],
           NEW i, NEW y, NEW H, H = [F EXCEPT !.bmap = @ \cup {y}, !.idx[i] = y]
    PROVE  /\ H = [imap |-> H.imap, bmap |-> H.bmap, ptr |-> H.ptr, idx |-> H.idx, rec |-> H.rec]
           /\ H.imap = F.imap /\ H.ptr = F.ptr /\ H.rec = F.rec
           /\ H.bmap = F.bmap \cup {y} /\ H.idx = [F.idx EXCEPT ![i] = y]
<1>1. DOMAIN F = {"imap", "bmap", "ptr", "idx", "rec"}
  OBVIOUS
<1>2. H = [k \in DOMAIN F |-> H[k]]
  OBVIOUS
<1>3. H.imap = F.imap /\ H.ptr = F.ptr /\ H.rec = F.rec
  BY <1>1
<1>4. H.bmap = F.bmap \cup {y}
  BY <1>1
<1>5. H.idx = [F.idx EXCEPT ![i] = y]
  BY <1>1
<1>6. H = [imap |-> H.imap, bmap |-> H.bmap, ptr |-> H.ptr, idx |-> H.idx, rec |-> H.rec]
  BY <1>1, <1>2
<1> QED BY <1>3, <1>4, <1>5, <1>6

\* Where a position is, and what is there.
LEMMA Place ==
    ASSUME NEW D \in Disk, NEW i \in Inode, NEW p \in positions(D, i)
    PROVE  /\ p \div RPB + 1 \in DOMAIN D.ptr[i]
           /\ record_block(D, i, p) \in Block /\ p % RPB \in 0 .. RPB - 1
           /\ p = (p \div RPB) * RPB + (p % RPB)
           /\ record_at(D, i, p) \in Record
<1>1. Len(D.ptr[i]) \in Nat /\ DOMAIN D.ptr[i] = 1 .. Len(D.ptr[i]) /\ D.ptr[i] \in Seq(Block)
  BY DiskFields
<1>2. /\ p \div RPB + 1 \in 1 .. Len(D.ptr[i]) /\ p % RPB \in 0 .. RPB - 1
      /\ p = (p \div RPB) * RPB + (p % RPB)
  BY <1>1, Split DEF positions
<1>3. record_block(D, i, p) \in Block
  BY <1>1, <1>2 DEF record_block
<1>4. record_at(D, i, p) \in Record
  <2>1. D.rec[record_block(D, i, p)] \in [0 .. RPB - 1 -> Record]
    BY <1>3, DiskFields, Zenon
  <2> QED BY <1>2, <2>1, Zenon DEF record_at
<1> QED BY <1>1, <1>2, <1>3, <1>4, Zenon

\* No two positions of directories that share no block are the same place.
LEMMA DifferentPlaces ==
    ASSUME NEW D \in Disk, NEW I \in SUBSET Inode, BlockForm(D, I),
           NEW i \in I, NEW p \in positions(D, i), NEW j \in I, NEW q \in positions(D, j),
           record_block(D, i, p) = record_block(D, j, q), p % RPB = q % RPB
    PROVE  i = j /\ p = q
<1> DEFINE a == p \div RPB + 1  b == q \div RPB + 1
<1>1. a \in DOMAIN D.ptr[i] /\ b \in DOMAIN D.ptr[j] /\ D.ptr[i][a] = D.ptr[j][b]
  BY Place DEF record_block
<1>2. i = j /\ a = b
  BY <1>1 DEF BlockForm
<1>3. p = (p \div RPB) * RPB + (p % RPB) /\ q = (q \div RPB) * RPB + (q % RPB)
      /\ p \div RPB + 1 \in Nat /\ q \div RPB + 1 \in Nat
  BY Place, DiskFields
<1>4. p \div RPB = q \div RPB
  <2> DEFINE x == p \div RPB  y == q \div RPB
  <2>1. x \in Int /\ y \in Int /\ x + 1 = y + 1
    BY <1>2, Sizes, DiskFields, SMTT(20)
  <2> HIDE DEF x, y
  <2>2. x = y
    BY <2>1
  <2> QED BY <2>2 DEF x, y
<1> QED BY <1>2, <1>3, <1>4

\* A record is written at its position and nowhere else.
LEMMA Wrote ==
    ASSUME NEW D \in Disk, NEW I \in SUBSET Inode, BlockForm(D, I),
           NEW i \in I, NEW p \in positions(D, i), NEW r \in Record,
           NEW E, E = write_record(D, i, p, r)
    PROVE  /\ E \in Disk /\ Same(D, E) /\ BlockForm(E, I)
           /\ record_at(E, i, p) = r
           /\ \A q \in positions(D, i) \ {p} : record_at(E, i, q) = record_at(D, i, q)
           /\ OthersKept(D, E, I, i)
<1> DEFINE b == record_block(D, i, p)  k == p % RPB
<1>1. b \in Block /\ k \in 0 .. RPB - 1
  BY Place
<1>2. E = [D EXCEPT !.rec[b][k] = r]
  BY DEF write_record
<1> HIDE DEF b, k
<1>3. /\ D.rec \in [Block -> [0 .. RPB - 1 -> Record]]
      /\ D.rec[b] \in [0 .. RPB - 1 -> Record]
  BY <1>1, DiskFields
<1>4. /\ E.rec = [D.rec EXCEPT ![b] = [D.rec[b] EXCEPT ![k] = r]] /\ Same(D, E)
      /\ E = [imap |-> D.imap, bmap |-> D.bmap, ptr |-> D.ptr, idx |-> D.idx, rec |-> E.rec]
  BY <1>2 DEF Disk, Same
<1>5. /\ E.rec \in [Block -> [0 .. RPB - 1 -> Record]]
      /\ E.rec[b][k] = r
      /\ \A c \in Block, m \in 0 .. RPB - 1 : c # b \/ m # k => E.rec[c][m] = D.rec[c][m]
  <2> DEFINE row == [D.rec[b] EXCEPT ![k] = r]
  <2>1. /\ row \in [0 .. RPB - 1 -> Record] /\ row[k] = r
        /\ \A m \in 0 .. RPB - 1 : m # k => row[m] = D.rec[b][m]
    BY <1>1, <1>3
  <2>2. E.rec = [D.rec EXCEPT ![b] = row]
    BY <1>4
  <2> HIDE DEF row
  <2>3. /\ E.rec \in [Block -> [0 .. RPB - 1 -> Record]] /\ E.rec[b] = row
        /\ \A c \in Block : c # b => E.rec[c] = D.rec[c]
    BY <1>1, <1>3, <2>1, <2>2
  <2> QED BY <2>1, <2>3
<1>6. E \in Disk /\ Same(D, E)
  BY <1>4, <1>5, DiskFields DEF Disk
<1>7. record_at(E, i, p) = r
  BY <1>5, <1>6 DEF record_at, record_block, Same, b, k
<1>8. ASSUME NEW j \in I, NEW q \in positions(D, j), j # i \/ q # p
      PROVE  record_at(E, j, q) = record_at(D, j, q)
  <2>1. record_block(D, j, q) # b \/ q % RPB # k
    BY <1>8, DifferentPlaces DEF b, k
  <2>2. record_block(D, j, q) \in Block /\ q % RPB \in 0 .. RPB - 1
    BY Place
  <2>3. E.rec[record_block(D, j, q)][q % RPB] = D.rec[record_block(D, j, q)][q % RPB]
    BY <1>5, <2>1, <2>2
  <2> QED BY <1>6, <2>3 DEF record_at, record_block, Same
<1>9. BlockForm(E, I)
  BY <1>6 DEF BlockForm, Same, blocks_of
<1> QED BY <1>6, <1>7, <1>8, <1>9 DEF OthersKept

\* What of a directory depends on its records and blocks only.
LEMMA Unmoved ==
    ASSUME NEW D \in Disk, NEW E \in Disk, NEW i \in Inode, E.ptr[i] = D.ptr[i],
           \A q \in positions(D, i) : record_at(E, i, q) = record_at(D, i, q),
           Listing(D, i)
    PROVE  /\ positions(E, i) = positions(D, i) /\ dsize(E, i) = dsize(D, i)
           /\ Listing(E, i)
<1>1. positions(E, i) = positions(D, i)
  BY DEF positions
<1>2. 0 \in positions(D, i) /\ 0 .. dsize(D, i) - 1 \subseteq positions(D, i)
  BY Sizes, DiskFields, OneBlockMore DEF Listing, positions
<1>3. dsize(E, i) = dsize(D, i)
  BY <1>2 DEF dsize
<1>4. Listing(E, i)
  <2>1. \A q \in 0 .. dsize(D, i) - 1 : record_at(E, i, q) = record_at(D, i, q)
    BY <1>2
  <2> QED BY <1>1, <1>2, <1>3, <2>1 DEF Listing
<1> QED BY <1>1, <1>3, <1>4

-----------------------------------------------------------------------------
(***************************************************************************)
(* Finding, counting and removing records.                                 *)
(***************************************************************************)
\* The records of a directory.
LEMMA Records ==
    ASSUME NEW D \in Disk, NEW i \in Inode, Listing(D, i)
    PROVE  /\ dsize(D, i) \in Nat /\ dsize(D, i) > 0
           /\ 0 .. dsize(D, i) - 1 \subseteq positions(D, i)
           /\ \A p \in positions(D, i) : record_at(D, i, p) \in Record
           /\ D.ptr[i] # <<>>
<1>1. Len(D.ptr[i]) \in Nat /\ Len(D.ptr[i]) * RPB \in Nat
  BY DiskFields, OneBlockMore
<1>2. dsize(D, i) \in Nat /\ dsize(D, i) > 0 /\ dsize(D, i) <= Len(D.ptr[i]) * RPB
  BY <1>1 DEF Listing
<1>3. D.ptr[i] # <<>>
  <2> SUFFICES ASSUME D.ptr[i] = <<>> PROVE FALSE
    OBVIOUS
  <2>1. Len(D.ptr[i]) = 0
    OBVIOUS
  <2>2. Len(D.ptr[i]) * RPB = 0
    BY <2>1, Sizes
  <2> QED BY <1>2, <2>2
<1> QED BY <1>1, <1>2, <1>3, Place DEF positions

\* find_record stops at the record of that name, and there is one at most.
Found(D, i, n) ==
    /\ find_record(D, i, n) \in -1 .. dsize(D, i) - 1
    /\ find_record(D, i, n) # -1 => record_at(D, i, find_record(D, i, n)).name = n
    /\ \A p \in 0 .. dsize(D, i) - 1 :
          record_at(D, i, p).name = n => find_record(D, i, n) = p

\* find_record returns the position of the record with a name, if any.
LEMMA Finds ==
    ASSUME NEW D \in Disk, NEW i \in Inode, Listing(D, i), NEW n
    PROVE  Found(D, i, n)
<1>1. named(D, i, n) = {p \in 0 .. dsize(D, i) - 1 : record_at(D, i, p).name = n}
  <2>1. \A p \in positions(D, i) : record_at(D, i, p).type # "invalid" <=> p \in 0 .. dsize(D, i) - 1
    BY Records, DiskFields DEF Listing
  <2> QED BY <2>1, Records DEF named
<1>2. CASE named(D, i, n) = {}
  <2>1. find_record(D, i, n) = -1
    BY <1>2 DEF find_record
  <2> QED BY <1>1, <1>2, <2>1, Records DEF Found
<1>3. CASE named(D, i, n) # {}
  <2>1. named(D, i, n) \subseteq Nat
    BY <1>1, Records
  <2>2. Min(named(D, i, n)) \in named(D, i, n)
    BY <1>3, <2>1, MinIsLeast
  <2>3. find_record(D, i, n) = Min(named(D, i, n))
    BY <1>3 DEF find_record
  <2>4. /\ find_record(D, i, n) \in 0 .. dsize(D, i) - 1
        /\ record_at(D, i, find_record(D, i, n)).name = n
    BY <1>1, <2>2, <2>3
  <2> QED BY <2>4, Records DEF Listing, Found
<1> QED BY <1>2, <1>3

\* "." is found, and with it the size.
LEMMA FindsDot ==
    ASSUME NEW D \in Disk, NEW i \in Inode, Listing(D, i)
    PROVE  find_record(D, i, ".") = 0 /\ inode_size(D, i) = dsize(D, i)
<1>1. 0 \in 0 .. dsize(D, i) - 1 /\ record_at(D, i, 0).name = "."
  BY Records DEF Listing
<1>2. find_record(D, i, ".") = 0
  <2>1. Found(D, i, ".")
    BY Finds
  <2> QED BY <1>1, <2>1 DEF Found
<1> QED BY <1>2 DEF inode_size, dsize

\* A record is its five fields.
LEMMA RecordFields ==
    ASSUME NEW r \in Record
    PROVE  r = [type |-> r.type, name |-> r.name, inode |-> r.inode, bytes |-> r.bytes,
                blocks |-> r.blocks]
           /\ r.bytes \in Nat /\ r.blocks \in Nat /\ r.inode \in Inode
BY DEF Record

\* A record with other counts.
LEMMA NewCounts ==
    ASSUME NEW r \in Record, NEW b2, NEW k2
    PROVE  [r EXCEPT !.bytes = b2, !.blocks = k2] =
               [type |-> r.type, name |-> r.name, inode |-> r.inode,
                bytes |-> b2, blocks |-> k2]
<1>1. PICK t, n, i, b, k : r = [type |-> t, name |-> n, inode |-> i, bytes |-> b, blocks |-> k]
  <2>1. PICK t, n, i, b, k : t = r.type /\ n = r.name /\ i = r.inode /\ b = r.bytes /\ k = r.blocks
    OBVIOUS
  <2>2. r = [type |-> t, name |-> n, inode |-> i, bytes |-> b, blocks |-> k]
    BY <2>1, RecordFields
  <2> QED BY <2>2, Zenon
<1>2. PICK s : s = [type |-> t, name |-> n, inode |-> i, bytes |-> b2, blocks |-> k]
  OBVIOUS
<1>3. [r EXCEPT !.bytes = b2] = s
  BY <1>1, <1>2
<1>4. [s EXCEPT !.blocks = k2] =
          [type |-> t, name |-> n, inode |-> i, bytes |-> b2, blocks |-> k2]
  BY <1>2
<1>5. [r EXCEPT !.bytes = b2, !.blocks = k2] = [[r EXCEPT !.bytes = b2] EXCEPT !.blocks = k2]
  OBVIOUS
<1>6. r.type = t /\ r.name = n /\ r.inode = i
  BY <1>1
<1> QED BY <1>3, <1>4, <1>5, <1>6

\* add_sizes changes the two counts of the first record.  It asks only that
\* "." be found there: between the steps of append_record and remove_record
\* the size is not yet that of the list.
LEMMA Counted ==
    ASSUME NEW D \in Disk, NEW I \in SUBSET Inode, BlockForm(D, I), NEW i \in I,
           0 \in positions(D, i), find_record(D, i, ".") = 0,
           NEW x \in Int, NEW y \in Int,
           record_at(D, i, 0).bytes + x \in Nat, record_at(D, i, 0).blocks + y \in Nat,
           NEW E, E = add_sizes(D, i, x, y)
    PROVE  /\ E \in Disk /\ Same(D, E) /\ BlockForm(E, I) /\ OthersKept(D, E, I, i)
           /\ \A q \in positions(D, i) \ {0} : record_at(E, i, q) = record_at(D, i, q)
           /\ record_at(E, i, 0) = [type   |-> record_at(D, i, 0).type,
                                    name   |-> record_at(D, i, 0).name,
                                    inode  |-> record_at(D, i, 0).inode,
                                    bytes  |-> record_at(D, i, 0).bytes + x,
                                    blocks |-> record_at(D, i, 0).blocks + y]
           /\ dsize(E, i) = dsize(D, i) + x
<1>1. PICK dot \in Record : dot = record_at(D, i, 0)
  BY Place
<1>2. PICK r : r = [type |-> dot.type, name |-> dot.name, inode |-> dot.inode,
                    bytes |-> dot.bytes + x, blocks |-> dot.blocks + y]
  OBVIOUS
<1>3. r \in Record /\ r.bytes = dot.bytes + x
  <2>1. /\ dot.bytes + x \in Nat /\ dot.blocks + y \in Nat
        /\ dot.type \in {"invalid", "file", "dir"} /\ dot.name \in Name \cup {"", ".", ".."}
        /\ dot.inode \in Inode
    BY <1>1 DEF Record
  <2> QED BY <1>2, <2>1 DEF Record
<1>4. r = [dot EXCEPT !.bytes = @ + x, !.blocks = @ + y]
  <2>1. PICK b2, k2 : b2 = dot.bytes + x /\ k2 = dot.blocks + y
    OBVIOUS
  <2> QED BY <1>2, <2>1, NewCounts
<1>5. E = write_record(D, i, 0, r)
  BY <1>1, <1>4 DEF add_sizes
<1>6. /\ E \in Disk /\ Same(D, E) /\ BlockForm(E, I) /\ OthersKept(D, E, I, i)
      /\ record_at(E, i, 0) = r
      /\ \A q \in positions(D, i) \ {0} : record_at(E, i, q) = record_at(D, i, q)
  BY <1>3, <1>5, Wrote
<1>7. dsize(E, i) = dsize(D, i) + x
  BY <1>1, <1>3, <1>6, Sizes, RecordFields DEF dsize
<1> QED BY <1>1, <1>2, <1>6, <1>7

\* A "." in the first record is found before any other.
LEMMA DotFirst ==
    ASSUME NEW D \in Disk, NEW i \in Inode, 0 \in positions(D, i),
           record_at(D, i, 0).type # "invalid", record_at(D, i, 0).name = "."
    PROVE  find_record(D, i, ".") = 0
<1>1. 0 \in named(D, i, ".") /\ named(D, i, ".") \subseteq Nat
  BY DiskFields DEF named
<1>2. Min(named(D, i, ".")) \in Nat /\ Min(named(D, i, ".")) <= 0
  BY <1>1, MinIsLeast
<1> QED BY <1>1, <1>2 DEF find_record

\* What record makes.
LEMMA Named ==
    ASSUME NEW t, NEW n, NEW i
    PROVE  record(t, n, i) = [type |-> t, name |-> n, inode |-> i, bytes |-> 0, blocks |-> 0]
<1>1. PICK t0, n0, z, r0 :
          r0 = record_init /\ z = 0 /\ r0 = [type |-> t0, name |-> n0, inode |-> z, bytes |-> z, blocks |-> z]
  BY DEF record_init
<1>2. PICK r1 : r1 = [type |-> t, name |-> n0, inode |-> z, bytes |-> z, blocks |-> z]
  OBVIOUS
<1>3. PICK r2 : r2 = [type |-> t, name |-> n, inode |-> z, bytes |-> z, blocks |-> z]
  OBVIOUS
<1>4. PICK r3 : r3 = [type |-> t, name |-> n, inode |-> i, bytes |-> z, blocks |-> z]
  OBVIOUS
<1>5. [r0 EXCEPT !.type = t] = r1
  BY <1>1, <1>2
<1>6. [r1 EXCEPT !.name = n] = r2
  BY <1>2, <1>3
<1>7. [r2 EXCEPT !.inode = i] = r3
  BY <1>3, <1>4
<1>8. record(t, n, i) = [[[r0 EXCEPT !.type = t] EXCEPT !.name = n] EXCEPT !.inode = i]
  BY <1>1 DEF record
<1> QED BY <1>1, <1>4, <1>5, <1>6, <1>7, <1>8

\* The fields of a record that is written out.
LEMMA FieldsOf ==
    ASSUME NEW t, NEW n, NEW i, NEW b, NEW k, NEW r,
           r = [type |-> t, name |-> n, inode |-> i, bytes |-> b, blocks |-> k]
    PROVE  r.type = t /\ r.name = n /\ r.inode = i /\ r.bytes = b /\ r.blocks = k
OBVIOUS

\* r is a valid record with zero counts.
Fresh(r, t, n, i) ==
    /\ r \in Record /\ r.type = t /\ r.name = n /\ r.inode = i
    /\ r.bytes = 0 /\ r.blocks = 0

\* The fields of what record makes.
LEMMA Made ==
    ASSUME NEW t, t \in {"invalid", "file", "dir"}, NEW n, n \in Name \cup {"", ".", ".."},
           NEW i \in Inode
    PROVE  Fresh(record(t, n, i), t, n, i)
<1>1. PICK r : r = record(t, n, i)
  OBVIOUS
<1>2. r = [type |-> t, name |-> n, inode |-> i, bytes |-> 0, blocks |-> 0]
  BY <1>1, Named, Zenon
<1>3. r.type = t /\ r.name = n /\ r.inode = i /\ r.bytes = 0 /\ r.blocks = 0
  BY <1>2, FieldsOf, Zenon
<1>4. r \in Record
  BY <1>2 DEF Record
<1> QED BY <1>1, <1>3, <1>4 DEF Fresh

\* The records that the calls make.
LEMMA MadeRecords ==
    ASSUME NEW i \in Inode
    PROVE  /\ Fresh(record("dir", ".", i), "dir", ".", i)
           /\ Fresh(record("dir", "..", i), "dir", "..", i)
           /\ \A n \in Name : /\ Fresh(record("dir", n, i), "dir", n, i)
                             /\ Fresh(record("file", n, i), "file", n, i)
<1>1. Fresh(record("dir", ".", i), "dir", ".", i)
  BY Made, Zenon
<1>2. Fresh(record("dir", "..", i), "dir", "..", i)
  BY Made, Zenon
<1>3. ASSUME NEW n \in Name
      PROVE  /\ Fresh(record("dir", n, i), "dir", n, i)
             /\ Fresh(record("file", n, i), "file", n, i)
  BY Made, Zenon
<1> QED BY <1>1, <1>2, <1>3

\* record_init is a record that is not in use.
LEMMA InitRecord == record_init \in Record /\ record_init.type = "invalid"
BY Sizes DEF record_init, Record, root

\* remove_record takes one record out and puts the last one in its place.
LEMMA Removed ==
    ASSUME NEW D \in Disk, NEW I \in SUBSET Inode, BlockForm(D, I), NEW i \in I, Listing(D, i),
           NEW pos \in 1 .. dsize(D, i) - 1,
           NEW E, E = remove_record(D, i, pos)
    PROVE  /\ E \in Disk /\ Same(D, E) /\ BlockForm(E, I) /\ OthersKept(D, E, I, i)
           /\ Listing(E, i) /\ dsize(E, i) = dsize(D, i) - 1
           /\ \A p \in 1 .. dsize(E, i) - 1 :
                 record_at(E, i, p) = IF p = pos THEN record_at(D, i, dsize(D, i) - 1)
                                      ELSE record_at(D, i, p)
<1> PICK n : n = dsize(D, i) - 1
  OBVIOUS
<1>1. /\ dsize(D, i) \in Nat /\ dsize(D, i) > 0 /\ 0 .. n \subseteq positions(D, i)
      /\ n \in Nat /\ n >= 1 /\ pos \in positions(D, i) /\ n \in positions(D, i)
      /\ 0 \in positions(D, i) /\ pos # 0 /\ pos \in Nat /\ pos <= n
      /\ \A p \in positions(D, i) : record_at(D, i, p) \in Record
      /\ positions(D, i) \subseteq Nat
  <2>1. /\ dsize(D, i) \in Nat /\ dsize(D, i) > 0 /\ 0 .. dsize(D, i) - 1 \subseteq positions(D, i)
        /\ \A p \in positions(D, i) : record_at(D, i, p) \in Record
        /\ positions(D, i) \subseteq Nat
    BY Records, DiskFields
  <2>2. n \in Nat /\ n >= 1 /\ pos # 0 /\ pos \in Nat /\ pos <= n
    BY <2>1
  <2>3. pos \in 0 .. n /\ n \in 0 .. n /\ 0 \in 0 .. n
    BY <2>2
  <2> QED BY <2>1, <2>2, <2>3
<1>2. inode_size(D, i) - 1 = n
  BY FindsDot
<1>3. PICK M : M = IF n # pos THEN write_record(D, i, pos, record_at(D, i, n)) ELSE D
  OBVIOUS
<1>4. /\ M \in Disk /\ Same(D, M) /\ BlockForm(M, I) /\ OthersKept(D, M, I, i)
      /\ record_at(M, i, pos) = record_at(D, i, n)
      /\ \A q \in positions(D, i) \ {pos} : record_at(M, i, q) = record_at(D, i, q)
  <2>1. CASE n = pos
    BY <1>3, <2>1 DEF Same, OthersKept
  <2>2. CASE n # pos
    <3>1. PICK r \in Record : r = record_at(D, i, n)
      BY <1>1
    <3>2. M = write_record(D, i, pos, r)
      BY <1>3, <2>2, <3>1
    <3> QED BY <1>1, <3>1, <3>2, Wrote
  <2> QED BY <2>1, <2>2
<1>5. PICK N : N = write_record(M, i, n, record_init)
  OBVIOUS
<1>6. positions(M, i) = positions(D, i) /\ \A j \in I : positions(M, j) = positions(D, j)
  BY <1>4 DEF positions, Same
<1>7. /\ N \in Disk /\ Same(M, N) /\ BlockForm(N, I) /\ OthersKept(M, N, I, i)
      /\ record_at(N, i, n) = record_init
      /\ \A q \in positions(D, i) \ {n} : record_at(N, i, q) = record_at(M, i, q)
  <2>1. n \in positions(M, i) /\ record_init \in Record
    BY <1>1, <1>6, InitRecord
  <2>2. /\ N \in Disk /\ Same(M, N) /\ BlockForm(N, I) /\ OthersKept(M, N, I, i)
        /\ record_at(N, i, n) = record_init
        /\ \A q \in positions(M, i) \ {n} : record_at(N, i, q) = record_at(M, i, q)
    BY <1>4, <1>5, <2>1, Wrote
  <2> QED BY <1>6, <2>2
<1>8. positions(N, i) = positions(D, i) /\ \A j \in I : positions(N, j) = positions(D, j)
  BY <1>6, <1>7 DEF positions, Same
<1>9. record_at(N, i, 0) = record_at(D, i, 0)
  BY <1>1, <1>4, <1>7
<1>10. find_record(N, i, ".") = 0
  BY <1>1, <1>7, <1>8, <1>9, DotFirst DEF Listing
<1>11. E = add_sizes(N, i, -1, 0)
  BY <1>2, <1>3, <1>5 DEF remove_record
<1>12. record_at(N, i, 0).bytes + (-1) \in Nat /\ record_at(N, i, 0).blocks + 0 \in Nat
  BY <1>1, <1>9, Sizes, RecordFields DEF dsize
<1>13. /\ E \in Disk /\ Same(N, E) /\ BlockForm(E, I) /\ OthersKept(N, E, I, i)
       /\ \A q \in positions(D, i) \ {0} : record_at(E, i, q) = record_at(N, i, q)
       /\ record_at(E, i, 0).type = "dir" /\ record_at(E, i, 0).name = "."
       /\ record_at(E, i, 0).inode = i /\ record_at(E, i, 0).blocks = Len(D.ptr[i])
       /\ dsize(E, i) = dsize(N, i) + (-1)
  <2>1. /\ E \in Disk /\ Same(N, E) /\ BlockForm(E, I) /\ OthersKept(N, E, I, i)
        /\ \A q \in positions(N, i) \ {0} : record_at(E, i, q) = record_at(N, i, q)
        /\ record_at(E, i, 0) = [type   |-> record_at(N, i, 0).type,
                                 name   |-> record_at(N, i, 0).name,
                                 inode  |-> record_at(N, i, 0).inode,
                                 bytes  |-> record_at(N, i, 0).bytes + (-1),
                                 blocks |-> record_at(N, i, 0).blocks + 0]
        /\ dsize(E, i) = dsize(N, i) + (-1)
    BY <1>1, <1>7, <1>8, <1>10, <1>11, <1>12, Counted
  <2>2. /\ record_at(D, i, 0).type = "dir" /\ record_at(D, i, 0).name = "."
        /\ record_at(D, i, 0).inode = i /\ record_at(D, i, 0).blocks = Len(D.ptr[i])
        /\ Len(D.ptr[i]) \in Nat
    BY DiskFields DEF Listing
  <2> QED BY <1>8, <1>9, <2>1, <2>2
<1>14. Same(D, E)
  BY <1>4, <1>7, <1>13 DEF Same
<1>15. OthersKept(D, E, I, i)
  BY <1>4, <1>6, <1>7, <1>8, <1>13 DEF OthersKept
<1>16. dsize(E, i) = n
  BY <1>1, <1>9, <1>13 DEF dsize
<1>17. /\ \A p \in 1 .. n - 1 : record_at(E, i, p) = IF p = pos THEN record_at(D, i, n)
                                                     ELSE record_at(D, i, p)
       /\ record_at(E, i, n) = record_init
       /\ \A p \in positions(D, i) : p > n => record_at(E, i, p) = record_at(D, i, p)
  BY <1>1, <1>4, <1>7, <1>13
<1>18. positions(E, i) = positions(D, i)
  BY <1>14 DEF positions, Same
<1>19. \A p \in positions(D, i) : record_at(E, i, p).type # "invalid" <=> p < n
  <2>1. \A p \in positions(D, i) : record_at(D, i, p).type # "invalid" <=> p < n + 1
    BY <1>1 DEF Listing
  <2>2. ASSUME NEW p \in positions(D, i) PROVE record_at(E, i, p).type # "invalid" <=> p < n
    <3>1. p \in Nat
      BY <1>1
    <3>2. CASE p = 0
      BY <1>1, <1>13, <3>2
    <3>3. CASE p \in 1 .. n - 1
      <4>1. CASE p = pos
        BY <1>1, <1>17, <2>1, <3>3, <4>1
      <4>2. CASE p # pos
        <5>1. record_at(E, i, p) = record_at(D, i, p) /\ p < n /\ p < n + 1
          BY <1>1, <1>17, <3>3, <4>2
        <5> QED BY <2>1, <5>1
      <4> QED BY <4>1, <4>2
    <3>4. CASE p = n
      BY <1>1, <1>17, <3>4, InitRecord
    <3>5. CASE p > n
      BY <1>1, <1>17, <2>1, <3>1, <3>5
    <3> QED BY <1>1, <3>1, <3>2, <3>3, <3>4, <3>5
  <2> QED BY <2>2
<1>20. \A p, q \in 0 .. n - 1 : record_at(E, i, p).name = record_at(E, i, q).name => p = q
  <2>1. \A p, q \in 0 .. n : record_at(D, i, p).name = record_at(D, i, q).name => p = q
    BY <1>1 DEF Listing
  <2>2. record_at(D, i, 0).name = "."
    BY DEF Listing
  <2> DEFINE from(p) == IF p = pos THEN n ELSE p
  <2>3. \A p \in 0 .. n - 1 : from(p) \in 0 .. n
                              /\ record_at(E, i, p).name = record_at(D, i, from(p)).name
    BY <1>1, <1>13, <1>17, <2>2
  <2>4. \A p, q \in 0 .. n - 1 : from(p) = from(q) => p = q
    BY <1>1
  <2> HIDE DEF from
  <2> SUFFICES ASSUME NEW p \in 0 .. n - 1, NEW q \in 0 .. n - 1,
                      record_at(E, i, p).name = record_at(E, i, q).name
               PROVE  p = q
    OBVIOUS
  <2>5. record_at(D, i, from(p)).name = record_at(D, i, from(q)).name
    BY <2>3
  <2>6. from(p) = from(q)
    BY <2>1, <2>3, <2>5
  <2> QED BY <2>4, <2>6
<1>21. dsize(E, i) \in 1 .. Len(E.ptr[i]) * RPB
  <2>1. PICK m : m = Len(D.ptr[i]) * RPB
    OBVIOUS
  <2>2. m \in Nat /\ n \in 0 .. m - 1
    BY <1>1, <2>1, DiskFields, OneBlockMore DEF positions
  <2>3. n \in 1 .. m
    BY <1>1, <2>2
  <2>4. E.ptr[i] = D.ptr[i]
    BY <1>14 DEF Same
  <2> QED BY <1>16, <2>1, <2>3, <2>4
<1>22. Listing(E, i)
  BY <1>13, <1>14, <1>16, <1>18, <1>19, <1>20, <1>21 DEF Listing, Same
<1> QED BY <1>1, <1>13, <1>14, <1>15, <1>16, <1>17, <1>22

-----------------------------------------------------------------------------
(***************************************************************************)
(* Giving out blocks and i-nodes and taking them back.                     *)
(***************************************************************************)
\* The pointers of the i-nodes of I are among the set bits of the bitmap.
LEMMA Marked ==
    ASSUME NEW D \in Disk, NEW I \in SUBSET Inode, BlockForm(D, I), NEW i \in I
    PROVE  /\ \A a \in DOMAIN D.ptr[i] : D.ptr[i][a] \in D.bmap
           /\ D.idx[i] # NULL_BLOCK => D.idx[i] \in D.bmap
           /\ NULL_BLOCK \notin D.bmap
BY Sizes, DiskFields DEF BlockForm, blocks_of

\* Two i-nodes of I have no block in common.
LEMMA Disjoint ==
    ASSUME NEW D \in Disk, NEW I \in SUBSET Inode, BlockForm(D, I),
           NEW i \in I, NEW j \in I, i # j
    PROVE  blocks_of(D, i) \cap blocks_of(D, j) = {}
<1> SUFFICES ASSUME NEW b \in blocks_of(D, i), b \in blocks_of(D, j) PROVE FALSE
  OBVIOUS
<1>1. (\E a \in DOMAIN D.ptr[i] : b = D.ptr[i][a]) \/ (b = D.idx[i] /\ b # NULL_BLOCK)
  BY DEF blocks_of
<1>2. (\E a \in DOMAIN D.ptr[j] : b = D.ptr[j][a]) \/ (b = D.idx[j] /\ b # NULL_BLOCK)
  BY DEF blocks_of
<1> QED BY <1>1, <1>2 DEF BlockForm

\* deep_free_inode takes an i-node and its blocks back.
LEMMA Freed ==
    ASSUME NEW D \in Disk, BlockForm(D, D.imap), NEW f \in D.imap,
           NEW E, E = deep_free_inode(D, f)
    PROVE  /\ E \in Disk /\ E.imap = D.imap \ {f}
           /\ E.ptr = D.ptr /\ E.idx = D.idx /\ E.rec = D.rec
           /\ BlockForm(E, D.imap \ {f})
<1>1. /\ E.imap = D.imap \ {f} /\ E.bmap = D.bmap \ blocks_of(D, f)
      /\ E.ptr = D.ptr /\ E.idx = D.idx /\ E.rec = D.rec
      /\ E = [imap |-> E.imap, bmap |-> E.bmap, ptr |-> E.ptr, idx |-> E.idx, rec |-> E.rec]
  BY DEF deep_free_inode, Disk
<1>2. E \in Disk
  BY <1>1, DiskFields DEF Disk
<1>3. \A i : blocks_of(E, i) = blocks_of(D, i)
  BY <1>1 DEF blocks_of
<1>4. D.bmap \ blocks_of(D, f) = UNION {blocks_of(D, i) : i \in D.imap \ {f}}
  <2>1. D.bmap = UNION {blocks_of(D, i) : i \in D.imap} /\ D.imap \in SUBSET Inode
    BY DiskFields DEF BlockForm
  <2>2. \A i \in D.imap \ {f} : blocks_of(D, i) \cap blocks_of(D, f) = {}
    BY <2>1, Disjoint
  <2> QED BY <2>1, <2>2
<1>5. BlockForm(E, D.imap \ {f})
  BY <1>1, <1>3, <1>4 DEF BlockForm
<1> QED BY <1>1, <1>2, <1>5

\* From D to E i-node c is marked and left without blocks.
InodeAdded(D, E, I, c) ==
    /\ E \in Disk /\ E.imap = D.imap \cup {c} /\ E.bmap = D.bmap /\ E.rec = D.rec
    /\ E.ptr[c] = <<>> /\ \A j \in Inode \ {c} : E.ptr[j] = D.ptr[j]
    /\ BlockForm(E, I \cup {c})

\* inode_init gives an i-node out, without blocks whatever it had.
LEMMA Initialised ==
    ASSUME NEW D \in Disk, NEW I \in SUBSET Inode, BlockForm(D, I), NEW c \in Inode \ I,
           NEW E, E = inode_init(D, c)
    PROVE  InodeAdded(D, E, I, c)
<1>1. /\ E.imap = D.imap \cup {c} /\ E.bmap = D.bmap /\ E.rec = D.rec
      /\ E.ptr = [D.ptr EXCEPT ![c] = <<>>] /\ E.idx = [D.idx EXCEPT ![c] = NULL_BLOCK]
      /\ E = [imap |-> E.imap, bmap |-> E.bmap, ptr |-> E.ptr, idx |-> E.idx, rec |-> E.rec]
  BY DEF inode_init, Disk
<1>2. /\ E.ptr \in [Inode -> Seq(Block)] /\ E.idx \in [Inode -> Block \cup {NULL_BLOCK}]
      /\ E.ptr[c] = <<>> /\ \A j \in Inode \ {c} : E.ptr[j] = D.ptr[j]
      /\ E.idx[c] = NULL_BLOCK /\ \A j \in Inode \ {c} : E.idx[j] = D.idx[j]
  BY <1>1, DiskFields
<1>3. E \in Disk
  <2>1. E.imap \subseteq Inode /\ E.bmap \subseteq Block
        /\ E.rec \in [Block -> [0 .. RPB - 1 -> Record]]
    BY <1>1, DiskFields
  <2>2. [imap |-> E.imap, bmap |-> E.bmap, ptr |-> E.ptr, idx |-> E.idx, rec |-> E.rec] \in Disk
    BY <1>2, <2>1, DiskOf
  <2> QED BY <1>1, <2>2
<1>4. Len(E.ptr[c]) = 0 /\ DOMAIN E.ptr[c] = {}
  BY <1>2
<1>5. blocks_of(E, c) = {} /\ \A j \in I : blocks_of(E, j) = blocks_of(D, j)
  <2>1. {E.ptr[c][k] : k \in DOMAIN E.ptr[c]} = {} /\ {E.idx[c]} \ {NULL_BLOCK} = {}
    BY <1>2, <1>4
  <2>2. \A j \in I : E.ptr[j] = D.ptr[j] /\ E.idx[j] = D.idx[j]
    BY <1>2
  <2>3. blocks_of(E, c) = {}
    BY <2>1, Zenon DEF blocks_of
  <2>4. \A j \in I : blocks_of(E, j) = blocks_of(D, j)
    <3> SUFFICES ASSUME NEW j \in I PROVE blocks_of(E, j) = blocks_of(D, j)
      OBVIOUS
    <3>1. E.ptr[j] = D.ptr[j] /\ E.idx[j] = D.idx[j]
      BY <2>2
    <3> QED BY <3>1 DEF blocks_of
  <2> QED BY <2>3, <2>4
<1>6. E.bmap = UNION {blocks_of(E, i) : i \in I \cup {c}}
  BY <1>1, <1>5 DEF BlockForm
<1>7. BlockForm(E, I \cup {c})
  <2>1. \A i \in I \cup {c} : E.idx[i] # NULL_BLOCK <=> Len(E.ptr[i]) > DIRECT
    BY <1>2, <1>4, Sizes DEF BlockForm
  <2>2. \A i, j \in I \cup {c} : \A a \in DOMAIN E.ptr[i], b \in DOMAIN E.ptr[j] :
            E.ptr[i][a] = E.ptr[j][b] => i = j /\ a = b
    <3>1. \A i, j \in I : \A a \in DOMAIN D.ptr[i], b \in DOMAIN D.ptr[j] :
              D.ptr[i][a] = D.ptr[j][b] => i = j /\ a = b
      BY DEF BlockForm
    <3>2. ASSUME NEW i \in I \cup {c}, NEW k \in DOMAIN E.ptr[i]
          PROVE  i \in I /\ E.ptr[i] = D.ptr[i]
      BY <1>2, <1>4
    <3> SUFFICES ASSUME NEW i \in I \cup {c}, NEW j \in I \cup {c}, NEW a \in DOMAIN E.ptr[i],
                        NEW b \in DOMAIN E.ptr[j], E.ptr[i][a] = E.ptr[j][b]
                 PROVE  i = j /\ a = b
      OBVIOUS
    <3>3. i \in I /\ E.ptr[i] = D.ptr[i] /\ j \in I /\ E.ptr[j] = D.ptr[j]
      BY <3>2
    <3> QED BY <3>1, <3>3
  <2>3. \A i, j \in I \cup {c} : \A b \in DOMAIN E.ptr[j] : E.idx[i] # E.ptr[j][b]
    <3>1. \A j \in I : \A b \in DOMAIN D.ptr[j] : D.ptr[j][b] # NULL_BLOCK
      BY Marked
    <3>2. \A i, j \in I : \A b \in DOMAIN D.ptr[j] : D.idx[i] # D.ptr[j][b]
      BY DEF BlockForm
    <3>3. ASSUME NEW i \in I \cup {c}, NEW j \in I \cup {c}, NEW b \in DOMAIN E.ptr[j]
          PROVE  E.idx[i] # E.ptr[j][b]
      <4>1. j \in I /\ E.ptr[j] = D.ptr[j]
        BY <1>2, <1>4
      <4>2. CASE i = c
        BY <1>2, <3>1, <4>1, <4>2
      <4>3. CASE i # c
        BY <1>2, <3>2, <4>1, <4>3
      <4> QED BY <4>2, <4>3
    <3> QED BY <3>3
  <2>4. \A i, j \in I \cup {c} : E.idx[i] = E.idx[j] /\ E.idx[i] # NULL_BLOCK => i = j
    <3>1. \A i, j \in I : D.idx[i] = D.idx[j] /\ D.idx[i] # NULL_BLOCK => i = j
      BY DEF BlockForm
    <3>2. E.idx[c] = NULL_BLOCK /\ \A i \in I : E.idx[i] = D.idx[i]
      BY <1>2
    <3> QED BY <3>1, <3>2
  <2> QED BY <1>6, <2>1, <2>2, <2>3, <2>4 DEF BlockForm
<1> QED BY <1>1, <1>2, <1>3, <1>7 DEF InodeAdded

\* From D to E i-node i gets block b, and the indirect block x with it when b
\* is the first block that no direct pointer leads to.
PointerAdded(D, E, I, i, b, x) ==
    /\ b \in Block \ D.bmap
    /\ Len(D.ptr[i]) = DIRECT => x \in Block \ (D.bmap \cup {b})
    /\ Len(D.ptr[i]) # DIRECT => x = D.idx[i]
    /\ E.ptr[i] = Append(D.ptr[i], b) /\ \A j \in I \ {i} : E.ptr[j] = D.ptr[j]
    /\ E.idx[i] = x /\ \A j \in I \ {i} : E.idx[j] = D.idx[j]
    /\ E.bmap = D.bmap \cup {b} \cup ({x} \ {NULL_BLOCK})

\* A block that nobody points to is added to the pointers of i-node i.
LEMMA OnePointerMore ==
    ASSUME NEW D \in Disk, NEW I \in SUBSET Inode, BlockForm(D, I), NEW i \in I,
           NEW E \in Disk, NEW b, NEW x, PointerAdded(D, E, I, i, b, x)
    PROVE  BlockForm(E, I)
<1> PICK n \in Nat : n = Len(D.ptr[i])
  BY DiskFields
<1> USE DEF PointerAdded
<1>1. /\ E.ptr[i] = Append(D.ptr[i], b) /\ \A j \in I \ {i} : E.ptr[j] = D.ptr[j]
      /\ E.idx[i] = x /\ \A j \in I \ {i} : E.idx[j] = D.idx[j]
  OBVIOUS
<1>2. /\ Len(E.ptr[i]) = n + 1 /\ E.ptr[i][n + 1] = b
      /\ DOMAIN E.ptr[i] = DOMAIN D.ptr[i] \cup {n + 1} /\ n + 1 \notin DOMAIN D.ptr[i]
      /\ \A a \in DOMAIN D.ptr[i] : E.ptr[i][a] = D.ptr[i][a]
  <2>1. D.ptr[i] \in Seq(Block)
    BY DiskFields
  <2> QED BY <1>1, <2>1
<1>3. \A j \in I : \A a \in DOMAIN E.ptr[j] :
          \/ a \in DOMAIN D.ptr[j] /\ E.ptr[j][a] = D.ptr[j][a] /\ E.ptr[j][a] \in D.bmap
          \/ j = i /\ a = n + 1 /\ E.ptr[j][a] = b
  BY <1>1, <1>2, Marked
<1>4. b \notin D.bmap /\ b # NULL_BLOCK /\ NULL_BLOCK \notin D.bmap
  BY Sizes, Marked
<1>5. \A j \in I : /\ E.idx[j] # b
                   /\ E.idx[j] = D.idx[j] \/ (j = i /\ E.idx[j] \notin D.bmap)
                   /\ D.idx[j] # NULL_BLOCK => D.idx[j] \in D.bmap
  BY <1>1, <1>4, Marked
<1>6. \A j \in I : E.idx[j] # NULL_BLOCK <=> Len(E.ptr[j]) > DIRECT
  <2>1. E.idx[i] # NULL_BLOCK <=> Len(E.ptr[i]) > DIRECT
    BY <1>1, <1>2, Sizes DEF BlockForm
  <2> QED BY <1>1, <2>1 DEF BlockForm
<1>7. \A k, j \in I : \A a \in DOMAIN E.ptr[k], c \in DOMAIN E.ptr[j] :
          E.ptr[k][a] = E.ptr[j][c] => k = j /\ a = c
  BY <1>3, <1>4 DEF BlockForm
<1>8. \A k, j \in I : \A c \in DOMAIN E.ptr[j] : E.idx[k] # E.ptr[j][c]
  BY <1>3, <1>5 DEF BlockForm
<1>9. \A k, j \in I : E.idx[k] = E.idx[j] /\ E.idx[k] # NULL_BLOCK => k = j
  BY <1>5 DEF BlockForm
<1>10. E.bmap = UNION {blocks_of(E, j) : j \in I}
  <2>1. \A j \in I \ {i} : blocks_of(E, j) = blocks_of(D, j)
    BY <1>1 DEF blocks_of
  <2>2. blocks_of(E, i) = blocks_of(D, i) \cup {b} \cup ({x} \ {NULL_BLOCK})
    <3>1. {E.ptr[i][a] : a \in DOMAIN E.ptr[i]} = {D.ptr[i][a] : a \in DOMAIN D.ptr[i]} \cup {b}
      BY <1>2
    <3>2. {D.idx[i]} \ {NULL_BLOCK} \subseteq {x} \ {NULL_BLOCK}
      BY Sizes DEF BlockForm
    <3> QED BY <1>1, <3>1, <3>2 DEF blocks_of
  <2>3. D.bmap = UNION {blocks_of(D, j) : j \in I}
    BY DEF BlockForm
  <2> QED BY <2>1, <2>2, <2>3
<1> QED BY <1>6, <1>7, <1>8, <1>9, <1>10 DEF BlockForm

\* A directory takes one block more, and the indirect block with the first
\* one that no direct pointer leads to.
new_blocks(D, i) == IF Len(D.ptr[i]) = DIRECT THEN 2 ELSE 1

\* From D to E directory i gets a block that holds record r, and the blocks
\* there were are untouched.
BlockOfOne(D, E, I, i, r) ==
    /\ Len(E.ptr[i]) = Len(D.ptr[i]) + 1
    /\ \A j \in Inode \ {i} : E.ptr[j] = D.ptr[j]
    /\ \A j \in I : \A q \in positions(D, j) : record_at(E, j, q) = record_at(D, j, q)
    /\ record_at(E, i, Len(D.ptr[i]) * RPB) = r
    /\ \A k \in 1 .. RPB - 1 : record_at(E, i, Len(D.ptr[i]) * RPB + k) = record_init

\* add_record_block does that.
LEMMA BlockAdded ==
    ASSUME NEW D \in Disk, NEW I \in SUBSET Inode, BlockForm(D, I), NEW i \in I,
           NEW r \in Record, HasFree(D, new_blocks(D, i)),
           NEW E, E = add_record_block(D, i, r)
    PROVE  /\ E \in Disk /\ E.imap = D.imap /\ BlockForm(E, I)
           /\ BlockOfOne(D, E, I, i, r)
           /\ free_blocks(E) = free_blocks(D) - new_blocks(D, i)
<1> PICK n \in Nat : n = Len(D.ptr[i])
  BY DiskFields
<1>0. Cardinality(Block \ D.bmap) >= (IF n = DIRECT THEN 2 ELSE 1)
  BY DEF new_blocks, HasFree, free_blocks
<1> PICK b : b = alloc_block(D)
  OBVIOUS
<1> PICK row : row = [[k \in 0 .. RPB - 1 |-> record_init] EXCEPT ![0] = r]
  OBVIOUS
<1> PICK F : F = [D EXCEPT !.bmap = @ \cup {b}, !.rec[b] = row, !.ptr[i] = Append(@, b)]
  OBVIOUS
<1> PICK x : x = IF n = DIRECT THEN alloc_block(F) ELSE D.idx[i]
  OBVIOUS
<1>1. /\ b \in Block \ D.bmap
      /\ Cardinality(Block \ (D.bmap \cup {b})) = Cardinality(Block \ D.bmap) - 1
  <2>1. Cardinality(Block \ D.bmap) \in Nat
    BY BlocksFinite, FS_Subset, FS_CardinalityType
  <2>2. Cardinality(Block \ D.bmap) >= 1 /\ 1 \in Nat /\ 1 > 0
    BY <1>0, <2>1
  <2> QED BY <2>2, FreeBlock
<1>2. /\ F.imap = D.imap /\ F.bmap = D.bmap \cup {b} /\ F.idx = D.idx
      /\ F.rec = [D.rec EXCEPT ![b] = row] /\ F.ptr = [D.ptr EXCEPT ![i] = Append(@, b)]
      /\ F = [imap |-> F.imap, bmap |-> F.bmap, ptr |-> F.ptr, idx |-> F.idx, rec |-> F.rec]
  BY DEF Disk
<1>3. /\ row \in [0 .. RPB - 1 -> Record] /\ row[0] = r
      /\ \A k \in 1 .. RPB - 1 : row[k] = record_init
  BY Sizes, InitRecord
<1>4. /\ F.rec \in [Block -> [0 .. RPB - 1 -> Record]] /\ F.rec[b] = row
      /\ \A c \in Block \ {b} : F.rec[c] = D.rec[c]
  BY <1>1, <1>2, <1>3, DiskFields
<1>5. /\ F.ptr \in [Inode -> Seq(Block)] /\ F.ptr[i] = Append(D.ptr[i], b)
      /\ \A j \in Inode \ {i} : F.ptr[j] = D.ptr[j]
  BY <1>1, <1>2, DiskFields
<1>6. F \in Disk
  <2>1. F.imap \subseteq Inode /\ F.bmap \subseteq Block
        /\ F.idx \in [Inode -> Block \cup {NULL_BLOCK}]
    BY <1>1, <1>2, DiskFields
  <2>2. [imap |-> F.imap, bmap |-> F.bmap, ptr |-> F.ptr, idx |-> F.idx, rec |-> F.rec] \in Disk
    BY <1>4, <1>5, <2>1, DiskOf
  <2> QED BY <1>2, <2>2
<1>7. /\ E.imap = D.imap /\ E.ptr = F.ptr /\ E.rec = F.rec
      /\ E.idx = [D.idx EXCEPT ![i] = x]
      /\ E.bmap = D.bmap \cup {b} \cup ({x} \ {NULL_BLOCK})
      /\ IF n = DIRECT THEN x \in Block \ (D.bmap \cup {b}) ELSE x = D.idx[i]
      /\ E \in Disk
      /\ Cardinality(Block \ E.bmap) =
             Cardinality(Block \ D.bmap) - (IF n = DIRECT THEN 2 ELSE 1)
  <2>1. CASE n = DIRECT
    <3>1. E = [F EXCEPT !.bmap = @ \cup {x}, !.idx[i] = x]
      BY <2>1 DEF add_record_block
    <3>2. Cardinality(Block \ F.bmap) >= 1 /\ Cardinality(Block \ D.bmap) \in Int
      <4>1. IsFiniteSet(Block \ D.bmap)
        BY BlocksFinite, FS_Subset
      <4>2. Cardinality(Block \ D.bmap) \in Nat
        BY <4>1, FS_CardinalityType
      <4> QED BY <1>0, <1>1, <1>2, <2>1, <4>2
    <3>3. /\ x \in Block \ F.bmap
          /\ Cardinality(Block \ (F.bmap \cup {x})) = Cardinality(Block \ F.bmap) - 1
      <4>1. x = alloc_block(F) /\ 1 \in Nat /\ 1 > 0
        BY <2>1
      <4> QED BY <1>6, <3>2, <4>1, FreeBlock
    <3>4. /\ E.imap = D.imap /\ E.ptr = F.ptr /\ E.rec = F.rec
          /\ E.idx = [D.idx EXCEPT ![i] = x] /\ E.bmap = F.bmap \cup {x}
          /\ E = [imap |-> E.imap, bmap |-> E.bmap, ptr |-> E.ptr, idx |-> E.idx, rec |-> E.rec]
      <4>1. F = [imap |-> F.imap, bmap |-> F.bmap, ptr |-> F.ptr, idx |-> F.idx, rec |-> F.rec]
        BY <1>2
      <4>2. /\ E = [imap |-> E.imap, bmap |-> E.bmap, ptr |-> E.ptr, idx |-> E.idx, rec |-> E.rec]
            /\ E.imap = F.imap /\ E.ptr = F.ptr /\ E.rec = F.rec
            /\ E.bmap = F.bmap \cup {x} /\ E.idx = [F.idx EXCEPT ![i] = x]
        BY <3>1, <4>1, IndirectFields, ZenonT(60)
      <4>3. F.imap = D.imap /\ F.idx = D.idx
        BY <1>2
      <4> QED BY <4>2, <4>3
    <3>5. E.idx \in [Inode -> Block \cup {NULL_BLOCK}] /\ x # NULL_BLOCK
      BY <3>3, <3>4, DiskFields, Sizes
    <3>6. E \in Disk
      <4>1. E.imap \subseteq Inode /\ E.bmap \subseteq Block /\ E.ptr \in [Inode -> Seq(Block)]
            /\ E.rec \in [Block -> [0 .. RPB - 1 -> Record]]
        BY <1>2, <1>4, <1>5, <1>6, <3>3, <3>4, DiskFields
      <4>2. [imap |-> E.imap, bmap |-> E.bmap, ptr |-> E.ptr, idx |-> E.idx, rec |-> E.rec] \in Disk
        BY <3>5, <4>1, DiskOf
      <4> QED BY <3>4, <4>2
    <3>7. E.bmap = D.bmap \cup {b} \cup ({x} \ {NULL_BLOCK}) /\ x \in Block \ (D.bmap \cup {b})
      BY <1>2, <3>3, <3>4, <3>5
    <3>8. Cardinality(Block \ E.bmap) = Cardinality(Block \ D.bmap) - 2
      BY <1>1, <1>2, <3>2, <3>3, <3>4
    <3> QED BY <2>1, <3>4, <3>6, <3>7, <3>8
  <2>2. CASE n # DIRECT
    <3>1. E = F
      BY <2>2 DEF add_record_block
    <3>2. [D.idx EXCEPT ![i] = x] = D.idx
      BY <2>2, DiskFields
    <3>3. {x} \ {NULL_BLOCK} \subseteq D.bmap
      BY <2>2, Marked
    <3> QED BY <1>1, <1>2, <1>6, <2>2, <3>1, <3>2, <3>3
  <2> QED BY <2>1, <2>2
<1>8. BlockForm(E, I)
  <2>1. /\ E.ptr[i] = Append(D.ptr[i], b) /\ \A j \in I \ {i} : E.ptr[j] = D.ptr[j]
        /\ E.idx[i] = x /\ \A j \in I \ {i} : E.idx[j] = D.idx[j]
    BY <1>5, <1>7, DiskFields
  <2>2. PointerAdded(D, E, I, i, b, x)
    BY <1>1, <1>7, <2>1 DEF PointerAdded
  <2> QED BY <1>7, <2>2, OnePointerMore
<1>9. /\ D.ptr[i] \in Seq(Block) /\ Len(E.ptr[i]) = n + 1 /\ E.ptr[i][n + 1] = b
      /\ \A a \in DOMAIN D.ptr[i] : E.ptr[i][a] = D.ptr[i][a]
      /\ \A j \in Inode \ {i} : E.ptr[j] = D.ptr[j]
  BY <1>5, <1>7, DiskFields
<1>10. ASSUME NEW j \in I, NEW q \in positions(D, j)
       PROVE  record_at(E, j, q) = record_at(D, j, q)
  <2>1. q \div RPB + 1 \in DOMAIN D.ptr[j] /\ record_block(D, j, q) \in Block
    BY Place
  <2>2. E.ptr[j][q \div RPB + 1] = D.ptr[j][q \div RPB + 1]
    BY <1>9, <2>1
  <2>3. record_block(E, j, q) = record_block(D, j, q)
    BY <2>2, Zenon DEF record_block
  <2>4. record_block(D, j, q) # b
    BY <1>1, <2>1, Marked DEF record_block
  <2>5. E.rec[record_block(D, j, q)] = D.rec[record_block(D, j, q)]
    BY <1>4, <1>7, <2>1, <2>4
  <2> QED BY <2>3, <2>5, Zenon DEF record_at
<1>11. ASSUME NEW k \in 0 .. RPB - 1 PROVE record_at(E, i, n * RPB + k) = row[k]
  <2>1. (n * RPB + k) \div RPB = n /\ (n * RPB + k) % RPB = k
    BY Join
  <2>2. record_block(E, i, n * RPB + k) = b
    BY <1>9, <2>1 DEF record_block
  <2> QED BY <1>4, <1>7, <2>1, <2>2, Zenon DEF record_at
<1>12. record_at(E, i, n * RPB) = r
  <2>1. 0 \in 0 .. RPB - 1 /\ n * RPB + 0 = n * RPB
    BY Sizes, OneBlockMore
  <2>2. record_at(E, i, n * RPB + 0) = row[0]
    BY <1>11, <2>1
  <2> QED BY <1>3, <2>1, <2>2
<1>13. \A k \in 1 .. RPB - 1 : record_at(E, i, n * RPB + k) = record_init
  BY <1>3, <1>11, Sizes
<1>14. free_blocks(E) = free_blocks(D) - new_blocks(D, i)
  BY <1>7 DEF new_blocks, free_blocks
<1>15. BlockOfOne(D, E, I, i, r)
  BY <1>9, <1>10, <1>12, <1>13 DEF BlockOfOne
<1> QED BY <1>7, <1>8, <1>14, <1>15

\* No record of directory i has name n.
NewName(D, i, n) == \A p \in 0 .. dsize(D, i) - 1 : record_at(D, i, p).name # n

\* Directory i of E has the records of that of D, "." counting one more, and
\* record r after the last one.
Longer(D, E, i, r) ==
    /\ Listing(E, i) /\ dsize(E, i) = dsize(D, i) + 1
    /\ record_at(E, i, dsize(D, i)) = r
    /\ \A p \in 1 .. dsize(D, i) - 1 : record_at(E, i, p) = record_at(D, i, p)

\* M holds the records of directory i of D and r just after the last one, in
\* y blocks more.
Extended(D, M, i, r, y) ==
    /\ Len(M.ptr[i]) = Len(D.ptr[i]) + y
    /\ dsize(D, i) \in positions(M, i) /\ record_at(M, i, dsize(D, i)) = r
    /\ \A q \in 0 .. dsize(D, i) - 1 : record_at(M, i, q) = record_at(D, i, q)
    /\ \A q \in positions(M, i) : q > dsize(D, i) => record_at(M, i, q).type = "invalid"

\* Counting a record written just after the last one.
LEMMA Grown ==
    ASSUME NEW D \in Disk, NEW I \in SUBSET Inode, NEW i \in I, Listing(D, i),
           NEW r \in Record, r.type # "invalid", NewName(D, i, r.name),
           NEW M \in Disk, BlockForm(M, I), NEW y \in Nat, Extended(D, M, i, r, y),
           NEW E, E = add_sizes(M, i, 1, y)
    PROVE  /\ E \in Disk /\ Same(M, E) /\ BlockForm(E, I) /\ OthersKept(M, E, I, i)
           /\ Longer(D, E, i, r)
<1> PICK n : n = dsize(D, i)
  OBVIOUS
<1>1. n \in Nat /\ n > 0 /\ 0 .. n - 1 \subseteq positions(D, i)
  BY Records
<1>0. /\ Len(M.ptr[i]) = Len(D.ptr[i]) + y /\ n \in positions(M, i)
      /\ record_at(M, i, n) = r
      /\ \A q \in 0 .. n - 1 : record_at(M, i, q) = record_at(D, i, q)
      /\ \A q \in positions(M, i) : q > n => record_at(M, i, q).type = "invalid"
  BY DEF Extended
<1>2. positions(M, i) \subseteq Nat /\ 0 .. n \subseteq positions(M, i)
  <2>1. PICK m \in Nat : m = Len(M.ptr[i]) * RPB
    BY DiskFields, OneBlockMore
  <2>2. positions(M, i) = 0 .. m - 1
    BY <2>1 DEF positions
  <2> QED BY <1>0, <1>1, <2>1, <2>2
<1>3. /\ record_at(M, i, 0) = record_at(D, i, 0) /\ 0 \in positions(M, i) /\ n # 0
      /\ record_at(D, i, 0) \in Record
      /\ record_at(D, i, 0).type = "dir" /\ record_at(D, i, 0).name = "."
      /\ record_at(D, i, 0).inode = i /\ record_at(D, i, 0).blocks = Len(D.ptr[i])
  <2>1. 0 \in 0 .. n - 1 /\ n # 0
    BY <1>1
  <2>2. record_at(M, i, 0) = record_at(D, i, 0) /\ 0 \in positions(M, i)
    BY <1>0, <1>1, <1>2, <2>1
  <2>3. record_at(D, i, 0) \in Record
    BY <2>1, Records
  <2>4. /\ record_at(D, i, 0).type = "dir" /\ record_at(D, i, 0).name = "."
        /\ record_at(D, i, 0).inode = i /\ record_at(D, i, 0).blocks = Len(D.ptr[i])
    BY DEF Listing
  <2> QED BY <2>1, <2>2, <2>3, <2>4
<1>4. find_record(M, i, ".") = 0
  BY <1>3, DotFirst
<1>5. /\ record_at(M, i, 0).bytes + 1 \in Nat /\ record_at(M, i, 0).blocks + y \in Nat
      /\ 1 \in Int /\ y \in Int
  BY <1>3, RecordFields
<1>6. /\ E \in Disk /\ Same(M, E) /\ BlockForm(E, I) /\ OthersKept(M, E, I, i)
      /\ \A q \in positions(M, i) \ {0} : record_at(E, i, q) = record_at(M, i, q)
      /\ record_at(E, i, 0).type = "dir" /\ record_at(E, i, 0).name = "."
      /\ record_at(E, i, 0).inode = i /\ record_at(E, i, 0).blocks = Len(M.ptr[i])
      /\ dsize(E, i) = dsize(M, i) + 1
  <2>1. /\ E \in Disk /\ Same(M, E) /\ BlockForm(E, I) /\ OthersKept(M, E, I, i)
        /\ \A q \in positions(M, i) \ {0} : record_at(E, i, q) = record_at(M, i, q)
        /\ record_at(E, i, 0) = [type   |-> record_at(M, i, 0).type,
                                 name   |-> record_at(M, i, 0).name,
                                 inode  |-> record_at(M, i, 0).inode,
                                 bytes  |-> record_at(M, i, 0).bytes + 1,
                                 blocks |-> record_at(M, i, 0).blocks + y]
        /\ dsize(E, i) = dsize(M, i) + 1
    BY <1>3, <1>4, <1>5, Counted
  <2> QED BY <1>0, <1>3, <2>1
<1>7. dsize(M, i) = n
  BY <1>3 DEF dsize
<1>8. /\ record_at(E, i, n) = r
      /\ \A p \in 1 .. n - 1 : record_at(E, i, p) = record_at(D, i, p)
      /\ \A q \in positions(M, i) : q > n => record_at(E, i, q).type = "invalid"
  BY <1>0, <1>1, <1>2, <1>3, <1>6
<1>9. positions(E, i) = positions(M, i) /\ E.ptr[i] = M.ptr[i]
  BY <1>6 DEF Same, positions
<1>10. \A p \in positions(D, i) : p < n => record_at(D, i, p).type # "invalid"
  BY DEF Listing
<1>11. \A q \in positions(E, i) : record_at(E, i, q).type # "invalid" <=> q < n + 1
  <2> SUFFICES ASSUME NEW q \in positions(M, i)
               PROVE  record_at(E, i, q).type # "invalid" <=> q < n + 1
    BY <1>9
  <2>1. q \in Nat
    BY <1>2
  <2>2. CASE q = 0
    BY <1>1, <1>6, <2>2
  <2>3. CASE q \in 1 .. n - 1
    <3>1. q \in positions(D, i) /\ q < n /\ q < n + 1
      BY <1>1, <2>3
    <3> QED BY <1>8, <1>10, <2>3, <3>1
  <2>4. CASE q = n
    BY <1>1, <1>8, <2>4
  <2>5. CASE q > n
    BY <1>1, <1>8, <2>1, <2>5
  <2> QED BY <1>1, <2>1, <2>2, <2>3, <2>4, <2>5
<1>17. \A p \in 0 .. n - 1 : record_at(D, i, p).name # r.name
  BY DEF NewName
<1>12. \A p, q \in 0 .. n : record_at(E, i, p).name = record_at(E, i, q).name => p = q
  <2>1. \A p, q \in 0 .. n - 1 : record_at(D, i, p).name = record_at(D, i, q).name => p = q
    BY DEF Listing
  <2>2. \A p \in 0 .. n - 1 : record_at(E, i, p).name = record_at(D, i, p).name
    BY <1>3, <1>6, <1>8
  <2>3. ASSUME NEW p \in 0 .. n, NEW q \in 0 .. n,
               record_at(E, i, p).name = record_at(E, i, q).name
        PROVE  p = q
    <3>1. CASE p # n /\ q # n
      <4>1. p \in 0 .. n - 1 /\ q \in 0 .. n - 1
        BY <1>1, <3>1
      <4> QED BY <2>1, <2>2, <2>3, <4>1
    <3>2. CASE p = n /\ q # n
      <4>1. q \in 0 .. n - 1
        BY <1>1, <3>2
      <4> QED BY <1>8, <1>17, <2>2, <2>3, <3>2, <4>1
    <3>3. CASE p # n /\ q = n
      <4>1. p \in 0 .. n - 1
        BY <1>1, <3>3
      <4> QED BY <1>8, <1>17, <2>2, <2>3, <3>3, <4>1
    <3> QED BY <3>1, <3>2, <3>3
  <2> QED BY <2>3
<1>13. dsize(E, i) = n + 1
  BY <1>6, <1>7
<1>14. n + 1 \in 1 .. Len(E.ptr[i]) * RPB
  <2>1. PICK m : m = Len(M.ptr[i]) * RPB
    OBVIOUS
  <2>2. m \in Nat /\ n \in 0 .. m - 1
    BY <1>0, <2>1, DiskFields, OneBlockMore DEF positions
  <2> QED BY <1>9, <2>1, <2>2
<1>15. n + 1 - 1 = n
  BY <1>1
<1>16. Listing(E, i)
  BY <1>6, <1>9, <1>11, <1>12, <1>13, <1>14, <1>15 DEF Listing
<1>18. Longer(D, E, i, r)
  BY <1>8, <1>13, <1>16 DEF Longer
<1> QED BY <1>6, <1>18

\* From D to E record r is appended to directory i.
RecordAdded(D, E, I, i, r) ==
    /\ E \in Disk /\ E.imap = D.imap /\ BlockForm(E, I) /\ OthersKept(D, E, I, i)
    /\ \A j \in Inode \ {i} : E.ptr[j] = D.ptr[j]
    /\ Longer(D, E, i, r)
    /\ free_blocks(E) = free_blocks(D) - append_needs(D, i)

\* append_record puts a record with a new name after the last one.
LEMMA Appended ==
    ASSUME NEW D \in Disk, NEW I \in SUBSET Inode, BlockForm(D, I), NEW i \in I, Listing(D, i),
           NEW r \in Record, r.type # "invalid", find_record(D, i, r.name) = -1,
           HasFree(D, append_needs(D, i)),
           NEW E, E = append_record(D, i, r)
    PROVE  RecordAdded(D, E, I, i, r)
<1> PICK n : n = dsize(D, i)
  OBVIOUS
<1> PICK len : len = Len(D.ptr[i])
  OBVIOUS
<1> DEFINE holes == {p \in positions(D, i) : record_at(D, i, p).type = "invalid"}
<1>1. /\ n \in Nat /\ n > 0 /\ 0 .. n - 1 \subseteq positions(D, i)
      /\ \A p \in positions(D, i) : record_at(D, i, p) \in Record
      /\ positions(D, i) \subseteq Nat /\ len \in Nat /\ len * RPB \in Nat
      /\ positions(D, i) = 0 .. len * RPB - 1
      /\ n <= len * RPB
  <2>1. n \in 1 .. len * RPB
    BY DEF Listing
  <2>2. /\ n \in Nat /\ n > 0 /\ 0 .. n - 1 \subseteq positions(D, i)
        /\ \A p \in positions(D, i) : record_at(D, i, p) \in Record
    BY Records
  <2>3. /\ positions(D, i) \subseteq Nat /\ len \in Nat
    BY DiskFields
  <2>4. len * RPB \in Nat
    BY <2>3, OneBlockMore
  <2>5. positions(D, i) = 0 .. len * RPB - 1
    BY DEF positions
  <2> QED BY <2>1, <2>2, <2>3, <2>4, <2>5
<1>2. \A p \in positions(D, i) : p \in holes <=> p >= n
  BY <1>1 DEF Listing
<1>3. NewName(D, i, r.name)
  <2>1. \A p \in 0 .. n - 1 : record_at(D, i, p).name = r.name => -1 = p
    BY Finds DEF Found
  <2> QED BY <1>1, <2>1 DEF NewName
<1>4. free_blocks(D) \in Nat
  BY FreeBlocks
<1>5. CASE holes # {}
  <2>1. Min(holes) \in holes /\ \A p \in holes : Min(holes) <= p
    BY <1>1, <1>5, MinIsLeast
  <2>2. Min(holes) = n
    <3>1. Min(holes) >= n /\ Min(holes) \in positions(D, i) /\ Min(holes) \in Nat
      BY <1>1, <1>2, <2>1
    <3> HIDE DEF holes
    <3>2. n \in positions(D, i)
      BY <1>1, <3>1
    <3>3. n \in holes
      BY <1>1, <1>2, <3>2
    <3> QED BY <1>1, <2>1, <3>1, <3>3
  <2>3. n \in positions(D, i)
    BY <2>1, <2>2
  <2>4. PICK M : M = write_record(D, i, n, r)
    OBVIOUS
  <2>5. E = add_sizes(M, i, 1, 0)
    BY <1>5, <2>2, <2>4 DEF append_record
  <2>6. /\ M \in Disk /\ Same(D, M) /\ BlockForm(M, I)
        /\ record_at(M, i, n) = r
        /\ \A q \in positions(D, i) \ {n} : record_at(M, i, q) = record_at(D, i, q)
        /\ OthersKept(D, M, I, i)
    BY <2>3, <2>4, Wrote
  <2>7. /\ \A j \in I : positions(M, j) = positions(D, j)
        /\ Len(M.ptr[i]) = Len(D.ptr[i]) + 0
    BY <2>6, DiskFields DEF Same, positions
  <2>8. \A q \in positions(M, i) : q > n => record_at(M, i, q).type = "invalid"
    <3> SUFFICES ASSUME NEW q \in positions(D, i), q > n
                 PROVE  record_at(M, i, q).type = "invalid"
      BY <2>7
    <3>1. q \in holes /\ q # n
      BY <1>1, <1>2
    <3> QED BY <2>6, <3>1
  <2>9. \A q \in 0 .. n - 1 : record_at(M, i, q) = record_at(D, i, q)
    BY <1>1, <2>6
  <2>10. /\ E \in Disk /\ Same(M, E) /\ BlockForm(E, I) /\ OthersKept(M, E, I, i)
         /\ Longer(D, E, i, r)
    <3>1. Extended(D, M, i, r, 0) /\ 0 \in Nat
      BY <2>3, <2>6, <2>7, <2>8, <2>9 DEF Extended
    <3> QED BY <1>3, <2>5, <2>6, <3>1, Grown
  <2>11. OthersKept(D, E, I, i)
    BY <2>6, <2>7, <2>10 DEF OthersKept
  <2>12. append_needs(D, i) = 0
    BY <1>5 DEF append_needs
  <2>13. free_blocks(E) = free_blocks(D) - append_needs(D, i)
    BY <1>4, <2>6, <2>10, <2>12 DEF Same, free_blocks
  <2> QED BY <2>6, <2>10, <2>11, <2>13 DEF Same, RecordAdded
<1>6. CASE holes = {}
  <2>1. n = len * RPB
    <3>1. n \notin positions(D, i)
      BY <1>1, <1>2, <1>6
    <3> QED BY <1>1, <3>1
  <2>2. PICK M : M = add_record_block(D, i, r)
    OBVIOUS
  <2>3. E = add_sizes(M, i, 1, 1)
    <3>1. ~(find_record(D, i, r.name) >= 0)
      OBVIOUS
    <3> QED BY <1>6, <2>2, <3>1 DEF append_record
  <2>4. append_needs(D, i) = new_blocks(D, i)
    <3>1. ~ \E p \in positions(D, i) : record_at(D, i, p).type = "invalid"
      BY <1>6
    <3> QED BY <3>1 DEF append_needs, new_blocks
  <2>5. /\ M \in Disk /\ M.imap = D.imap /\ BlockForm(M, I)
        /\ Len(M.ptr[i]) = len + 1 /\ \A j \in Inode \ {i} : M.ptr[j] = D.ptr[j]
        /\ \A j \in I : \A q \in positions(D, j) : record_at(M, j, q) = record_at(D, j, q)
        /\ record_at(M, i, n) = r
        /\ \A k \in 1 .. RPB - 1 : record_at(M, i, n + k) = record_init
        /\ free_blocks(M) = free_blocks(D) - append_needs(D, i)
    <3>1. HasFree(D, new_blocks(D, i))
      BY <2>4
    <3>2. /\ M \in Disk /\ M.imap = D.imap /\ BlockForm(M, I) /\ BlockOfOne(D, M, I, i, r)
          /\ free_blocks(M) = free_blocks(D) - new_blocks(D, i)
      BY <2>2, <3>1, BlockAdded
    <3> QED BY <2>1, <2>4, <3>2 DEF BlockOfOne
  <2>6. positions(M, i) = 0 .. n + RPB - 1
    <3>1. (len + 1) * RPB = n + RPB
      BY <1>1, <2>1, OneBlockMore
    <3>2. Len(M.ptr[i]) * RPB = n + RPB
      BY <2>5, <3>1, Zenon
    <3>3. PICK m : m = Len(M.ptr[i]) * RPB
      OBVIOUS
    <3>4. positions(M, i) = 0 .. m - 1
      BY <3>3 DEF positions
    <3>5. m = n + RPB
      BY <3>2, <3>3, Zenon
    <3>6. m - 1 = n + RPB - 1
      BY <1>1, <3>5, Sizes
    <3> QED BY <3>4, <3>6, Zenon
  <2>7. n \in positions(M, i) /\ \A q \in 0 .. n - 1 : record_at(M, i, q) = record_at(D, i, q)
    <3>1. \A q \in positions(D, i) : record_at(M, i, q) = record_at(D, i, q)
      BY <2>5
    <3> QED BY <1>1, <2>6, <3>1, Sizes
  <2>8. \A q \in positions(M, i) : q > n => record_at(M, i, q).type = "invalid"
    <3> SUFFICES ASSUME NEW q \in 0 .. n + RPB - 1, q > n
                 PROVE  record_at(M, i, q).type = "invalid"
      BY <2>6
    <3>1. PICK k \in 1 .. RPB - 1 : q = n + k
      <4>1. PICK k \in Int : k = q - n
        BY <1>1, Sizes
      <4>2. k \in 1 .. RPB - 1 /\ q = n + k
        BY <1>1, <4>1, Sizes
      <4> QED BY <4>2
    <3>2. record_at(M, i, q) = record_init
      BY <2>5, <3>1
    <3> QED BY <3>2, InitRecord
  <2>9. /\ E \in Disk /\ Same(M, E) /\ BlockForm(E, I) /\ OthersKept(M, E, I, i)
        /\ Longer(D, E, i, r)
    <3>1. Extended(D, M, i, r, 1) /\ 1 \in Nat
      BY <2>5, <2>7, <2>8 DEF Extended
    <3> QED BY <1>3, <2>3, <2>5, <3>1, Grown
  <2>10. OthersKept(D, E, I, i)
    <3>1. \A j \in I \ {i} : positions(M, j) = positions(D, j)
      BY <2>5 DEF positions
    <3> QED BY <2>5, <2>9, <3>1 DEF OthersKept
  <2> QED BY <2>5, <2>9, <2>10 DEF Same, free_blocks, RecordAdded
<1> QED BY <1>5, <1>6

\* Directory i reads the same in D and in E.
SameDir(D, E, i) ==
    /\ positions(E, i) = positions(D, i)
    /\ \A p : record_at(E, i, p) = record_at(D, i, p)
    /\ dsize(E, i) = dsize(D, i) /\ parent_of(E, i) = parent_of(D, i)
    /\ \A n : find_record(E, i, n) = find_record(D, i, n)
    /\ append_needs(E, i) = append_needs(D, i)
    /\ Listing(D, i) => Listing(E, i)

\* What is read of a directory depends on its pointers and on the records.
LEMMA Congruent ==
    ASSUME NEW D, NEW E, NEW i, E.ptr[i] = D.ptr[i], E.rec = D.rec
    PROVE  SameDir(D, E, i)
<1>1. positions(E, i) = positions(D, i)
  BY Zenon DEF positions
<1>2. \A p : record_at(E, i, p) = record_at(D, i, p)
  BY Zenon DEF record_at, record_block
<1>3. dsize(E, i) = dsize(D, i) /\ parent_of(E, i) = parent_of(D, i)
  BY <1>2, Zenon DEF dsize, parent_of
<1>4. ASSUME NEW n PROVE find_record(E, i, n) = find_record(D, i, n)
  <2>1. named(E, i, n) = named(D, i, n)
    BY <1>1, <1>2 DEF named
  <2> QED BY <2>1, Zenon DEF find_record
<1>5. append_needs(E, i) = append_needs(D, i)
  <2>1. (\E p \in positions(E, i) : record_at(E, i, p).type = "invalid")
        <=> \E p \in positions(D, i) : record_at(D, i, p).type = "invalid"
    BY <1>1, <1>2
  <2> QED BY <2>1, Zenon DEF append_needs
<1>6. Listing(D, i) => Listing(E, i)
  BY <1>1, <1>2, <1>3 DEF Listing
<1> QED BY <1>1, <1>2, <1>3, <1>4, <1>5, <1>6 DEF SameDir

\* The first record appended to a directory without blocks is its ".".
LEMMA FirstRecord ==
    ASSUME NEW D \in Disk, NEW I \in SUBSET Inode, BlockForm(D, I), NEW c \in I, c # root,
           D.ptr[c] = <<>>, HasFree(D, 1),
           NEW E, E = append_record(D, c, record("dir", ".", c))
    PROVE  /\ E \in Disk /\ E.imap = D.imap /\ BlockForm(E, I) /\ OthersKept(D, E, I, c)
           /\ \A j \in Inode \ {c} : E.ptr[j] = D.ptr[j]
           /\ Listing(E, c) /\ dsize(E, c) = 1
           /\ free_blocks(E) = free_blocks(D) - 1
<1> PICK r : r = record("dir", ".", c)
  OBVIOUS
<1>1. /\ r \in Record /\ r.type = "dir" /\ r.name = "." /\ r.inode = c
      /\ r.bytes = 0 /\ r.blocks = 0
  BY MadeRecords DEF Fresh
<1>2. Len(D.ptr[c]) = 0 /\ positions(D, c) = {}
  <2>1. Len(D.ptr[c]) = 0
    OBVIOUS
  <2>2. Len(D.ptr[c]) * RPB = 0
    BY <2>1, Sizes
  <2> QED BY <2>1, <2>2 DEF positions
<1>3. named(D, c, ".") = {} /\ find_record(D, c, ".") = -1
  BY <1>2 DEF named, find_record
<1> PICK M : M = add_record_block(D, c, r)
  OBVIOUS
<1>4. E = add_sizes(M, c, 1, 1)
  <2>1. {p \in positions(D, c) : record_at(D, c, p).type = "invalid"} = {}
    BY <1>2
  <2>2. ~(find_record(D, c, r.name) >= 0)
    BY <1>1, <1>3
  <2> QED BY <2>1, <2>2 DEF append_record
<1>5. new_blocks(D, c) = 1
  BY <1>2, Sizes DEF new_blocks
<1>6. /\ M \in Disk /\ M.imap = D.imap /\ BlockForm(M, I) /\ BlockOfOne(D, M, I, c, r)
      /\ free_blocks(M) = free_blocks(D) - 1
  <2>1. HasFree(D, new_blocks(D, c))
    BY <1>5
  <2>2. /\ M \in Disk /\ M.imap = D.imap /\ BlockForm(M, I) /\ BlockOfOne(D, M, I, c, r)
        /\ free_blocks(M) = free_blocks(D) - new_blocks(D, c)
    BY <1>1, <2>1, BlockAdded
  <2> QED BY <1>5, <2>2
<1>7. /\ Len(M.ptr[c]) = 1 /\ positions(M, c) = 0 .. RPB - 1
      /\ \A j \in Inode \ {c} : M.ptr[j] = D.ptr[j]
      /\ \A j \in I : \A q \in positions(D, j) : record_at(M, j, q) = record_at(D, j, q)
      /\ record_at(M, c, 0) = r
      /\ \A k \in 1 .. RPB - 1 : record_at(M, c, k) = record_init
  <2>1. /\ Len(M.ptr[c]) = 0 + 1
        /\ \A j \in Inode \ {c} : M.ptr[j] = D.ptr[j]
        /\ \A j \in I : \A q \in positions(D, j) : record_at(M, j, q) = record_at(D, j, q)
        /\ record_at(M, c, 0 * RPB) = r
        /\ \A k \in 1 .. RPB - 1 : record_at(M, c, 0 * RPB + k) = record_init
    BY <1>2, <1>6, Zenon DEF BlockOfOne
  <2>2. 0 * RPB = 0 /\ 1 * RPB = RPB /\ \A k \in 1 .. RPB - 1 : 0 + k = k
    BY Sizes
  <2>3. positions(M, c) = 0 .. RPB - 1
    <3>1. PICK m : m = Len(M.ptr[c]) * RPB
      OBVIOUS
    <3>2. positions(M, c) = 0 .. m - 1
      BY <3>1 DEF positions
    <3>3. m = (0 + 1) * RPB
      BY <2>1, <3>1, Zenon
    <3> QED BY <2>2, <3>2, <3>3
  <2> QED BY <2>1, <2>2, <2>3
<1>8. find_record(M, c, ".") = 0 /\ 0 \in positions(M, c)
  BY <1>1, <1>6, <1>7, DotFirst, Sizes
<1>9. /\ E \in Disk /\ Same(M, E) /\ BlockForm(E, I) /\ OthersKept(M, E, I, c)
      /\ \A q \in positions(M, c) \ {0} : record_at(E, c, q) = record_at(M, c, q)
      /\ record_at(E, c, 0).type = "dir" /\ record_at(E, c, 0).name = "."
      /\ record_at(E, c, 0).inode = c /\ record_at(E, c, 0).blocks = 1
      /\ record_at(E, c, 0).bytes = 1
  <2>1. /\ record_at(M, c, 0).bytes + 1 \in Nat /\ record_at(M, c, 0).blocks + 1 \in Nat
        /\ 1 \in Int
    BY <1>1, <1>7
  <2>2. /\ E \in Disk /\ Same(M, E) /\ BlockForm(E, I) /\ OthersKept(M, E, I, c)
        /\ \A q \in positions(M, c) \ {0} : record_at(E, c, q) = record_at(M, c, q)
        /\ record_at(E, c, 0) = [type   |-> record_at(M, c, 0).type,
                                 name   |-> record_at(M, c, 0).name,
                                 inode  |-> record_at(M, c, 0).inode,
                                 bytes  |-> record_at(M, c, 0).bytes + 1,
                                 blocks |-> record_at(M, c, 0).blocks + 1]
    BY <1>4, <1>6, <1>8, <2>1, Counted
  <2> QED BY <1>1, <1>7, <2>2
<1>10. dsize(E, c) = 1
  BY <1>9 DEF dsize
<1>11. positions(E, c) = 0 .. RPB - 1 /\ Len(E.ptr[c]) = 1 /\ Len(E.ptr[c]) * RPB = RPB
  BY <1>7, <1>9, Sizes DEF Same, positions
<1>12. \A p \in positions(E, c) : record_at(E, c, p).type # "invalid" <=> p < 1
  <2> SUFFICES ASSUME NEW p \in 0 .. RPB - 1
               PROVE  record_at(E, c, p).type # "invalid" <=> p < 1
    BY <1>11
  <2>1. CASE p = 0
    BY <1>9, <2>1
  <2>2. CASE p # 0
    <3>1. p \in 1 .. RPB - 1 /\ p \in positions(M, c) \ {0} /\ ~(p < 1)
      BY <1>7, <2>2, Sizes
    <3>2. record_at(E, c, p) = record_init
      BY <1>7, <1>9, <3>1
    <3> QED BY <3>1, <3>2, InitRecord
  <2> QED BY <2>1, <2>2
<1>13. Listing(E, c)
  <2>1. 1 \in 1 .. Len(E.ptr[c]) * RPB /\ record_at(E, c, 0).blocks = Len(E.ptr[c])
    BY <1>9, <1>11, Sizes
  <2>2. \A p, q \in 0 .. 1 - 1 : p = q
    OBVIOUS
  <2> QED BY <1>9, <1>10, <1>12, <2>1, <2>2 DEF Listing
<1>14. OthersKept(D, E, I, c)
  <2>1. \A j \in I \ {c} : positions(M, j) = positions(D, j)
    BY <1>7 DEF positions
  <2> QED BY <1>7, <1>9, <2>1 DEF OthersKept
<1>15. free_blocks(E) = free_blocks(D) - 1
  BY <1>6, <1>9 DEF free_blocks, Same
<1> QED BY <1>6, <1>7, <1>9, <1>10, <1>13, <1>14, <1>15 DEF Same

-----------------------------------------------------------------------------
(***************************************************************************)
(* What the calls do to a disk.                                            *)
(***************************************************************************)
\* From D to E directory d gets the record r of an i-node that was free, and
\* nothing else changes in the i-nodes there were.
EntryAdded(D, E, d, r) ==
    /\ r.inode \in Inode \ D.imap /\ E.imap = D.imap \cup {r.inode}
    /\ \A j \in D.imap \ {d} : E.ptr[j] = D.ptr[j]
    /\ OthersKept(D, E, D.imap, d)
    /\ Longer(D, E, d, r)

\* From D to E directory d loses the record at pos, the last one taking its
\* place, and with it i-node f.
EntryRemoved(D, E, d, pos, f) ==
    /\ E.imap = D.imap \ {f} /\ E.ptr = D.ptr
    /\ OthersKept(D, E, D.imap \ {f}, d)
    /\ Listing(E, d) /\ dsize(E, d) = dsize(D, d) - 1
    /\ \A p \in 1 .. dsize(E, d) - 1 :
          record_at(E, d, p) = IF p = pos THEN record_at(D, d, dsize(D, d) - 1)
                               ELSE record_at(D, d, p)

\* Marking an i-node in the bitmap.
LEMMA InodeMarked ==
    ASSUME NEW D \in Disk, BlockForm(D, D.imap), NEW c \in Inode,
           NEW M, M = [D EXCEPT !.imap = @ \cup {c}]
    PROVE  /\ M \in Disk /\ M.imap = D.imap \cup {c} /\ M.bmap = D.bmap
           /\ M.ptr = D.ptr /\ M.rec = D.rec /\ BlockForm(M, D.imap)
<1>1. /\ M.imap = D.imap \cup {c} /\ M.bmap = D.bmap /\ M.idx = D.idx
      /\ M.ptr = D.ptr /\ M.rec = D.rec
      /\ M = [imap |-> M.imap, bmap |-> M.bmap, ptr |-> M.ptr, idx |-> M.idx, rec |-> M.rec]
  BY DEF Disk
<1>2. M \in Disk
  BY <1>1, DiskFields DEF Disk
<1>3. BlockForm(M, D.imap)
  BY <1>1 DEF BlockForm, blocks_of
<1> QED BY <1>1, <1>2, <1>3

\* create2 adds an entry for an i-node without blocks.
LEMMA FileMade ==
    ASSUME NEW D \in Disk, BlockForm(D, D.imap), NEW d \in D.imap, Listing(D, d),
           NEW n \in Name, find_record(D, d, n) = -1, Inode \ D.imap # {},
           HasFree(D, append_needs(D, d)), NEW c, c = alloc_inode(D),
           NEW E, E = inode_init(append_record([D EXCEPT !.imap = @ \cup {c}], d,
                                               record("file", n, c)), c)
    PROVE  /\ E \in Disk /\ BlockForm(E, E.imap) /\ E.ptr[c] = <<>>
           /\ EntryAdded(D, E, d, record("file", n, c))
<1>1. D.imap \in SUBSET Inode /\ c \in Inode \ D.imap /\ d \in Inode /\ d # c
  BY DiskFields, FreeInode
<1> PICK r : r = record("file", n, c)
  OBVIOUS
<1>2. Fresh(r, "file", n, c)
  BY <1>1, MadeRecords
<1>3. r \in Record /\ r.type # "invalid" /\ r.name = n /\ r.inode = c
  BY <1>2 DEF Fresh
<1> PICK M : M = [D EXCEPT !.imap = @ \cup {c}]
  OBVIOUS
<1>4. /\ M \in Disk /\ M.imap = D.imap \cup {c} /\ M.bmap = D.bmap
      /\ M.ptr = D.ptr /\ M.rec = D.rec /\ BlockForm(M, D.imap)
  BY <1>1, InodeMarked
<1>5. /\ Listing(M, d) /\ find_record(M, d, n) = -1 /\ dsize(M, d) = dsize(D, d)
      /\ append_needs(M, d) = append_needs(D, d)
      /\ \A p : record_at(M, d, p) = record_at(D, d, p)
  <2>1. M.ptr[d] = D.ptr[d]
    BY <1>4
  <2>2. SameDir(D, M, d)
    BY <1>4, <2>1, Congruent
  <2> QED BY <2>2 DEF SameDir
<1>6. \A j \in D.imap : /\ positions(M, j) = positions(D, j)
                        /\ \A p : record_at(M, j, p) = record_at(D, j, p)
  <2>1. \A j \in D.imap : M.ptr[j] = D.ptr[j]
    BY <1>4
  <2>2. \A j \in D.imap : SameDir(D, M, j)
    BY <1>4, <2>1, Congruent
  <2> QED BY <2>2 DEF SameDir
<1>7. HasFree(M, append_needs(M, d))
  BY <1>4, <1>5 DEF HasFree, free_blocks
<1> PICK A : A = append_record(M, d, r)
  OBVIOUS
<1>8. /\ A \in Disk /\ A.imap = M.imap /\ BlockForm(A, D.imap) /\ OthersKept(M, A, D.imap, d)
      /\ \A j \in Inode \ {d} : A.ptr[j] = M.ptr[j]
      /\ Longer(M, A, d, r)
  <2>1. find_record(M, d, r.name) = -1
    BY <1>3, <1>5
  <2>2. RecordAdded(M, A, D.imap, d, r)
    BY <1>1, <1>3, <1>4, <1>5, <1>7, <2>1, Appended
  <2> QED BY <2>2 DEF RecordAdded
<1>9. E = inode_init(A, c)
  OBVIOUS
<1>10. /\ E \in Disk /\ E.imap = A.imap \cup {c} /\ E.rec = A.rec
       /\ E.ptr[c] = <<>> /\ \A j \in Inode \ {c} : E.ptr[j] = A.ptr[j]
       /\ BlockForm(E, D.imap \cup {c})
  <2>1. InodeAdded(A, E, D.imap, c)
    BY <1>1, <1>8, <1>9, Initialised
  <2> QED BY <2>1 DEF InodeAdded
<1>11. E.imap = D.imap \cup {c}
  BY <1>4, <1>8, <1>10
<1>12. \A j \in D.imap : /\ positions(E, j) = positions(A, j)
                         /\ \A p : record_at(E, j, p) = record_at(A, j, p)
                         /\ dsize(E, j) = dsize(A, j)
                         /\ Listing(A, j) => Listing(E, j)
  <2>1. \A j \in D.imap : E.ptr[j] = A.ptr[j]
    BY <1>1, <1>10
  <2>2. \A j \in D.imap : SameDir(A, E, j)
    BY <1>10, <2>1, Congruent
  <2> QED BY <2>2 DEF SameDir
<1>13. Longer(D, E, d, r)
  <2>1. /\ Listing(A, d) /\ dsize(A, d) = dsize(M, d) + 1 /\ record_at(A, d, dsize(M, d)) = r
        /\ \A p \in 1 .. dsize(M, d) - 1 : record_at(A, d, p) = record_at(M, d, p)
    BY <1>8 DEF Longer
  <2>2. Listing(E, d) /\ dsize(E, d) = dsize(A, d) /\ \A p : record_at(E, d, p) = record_at(A, d, p)
    BY <1>12, <2>1
  <2>3. dsize(E, d) = dsize(D, d) + 1 /\ record_at(E, d, dsize(D, d)) = r
    <3>1. dsize(A, d) = dsize(D, d) + 1 /\ record_at(A, d, dsize(D, d)) = r
      BY <1>5, <2>1
    <3> QED BY <2>2, <3>1
  <2>4. \A p \in 1 .. dsize(D, d) - 1 : record_at(E, d, p) = record_at(D, d, p)
    BY <1>5, <2>1, <2>2
  <2> QED BY <2>2, <2>3, <2>4 DEF Longer
<1>14. OthersKept(D, E, D.imap, d)
  BY <1>6, <1>8, <1>12 DEF OthersKept
<1>15. \A j \in D.imap \ {d} : E.ptr[j] = D.ptr[j]
  <2> SUFFICES ASSUME NEW j \in D.imap \ {d} PROVE E.ptr[j] = D.ptr[j]
    OBVIOUS
  <2>1. j \in Inode \ {d} /\ j # c
    BY <1>1
  <2>2. A.ptr[j] = D.ptr[j]
    BY <1>4, <1>8, <2>1
  <2> QED BY <1>10, <2>1, <2>2
<1> QED BY <1>1, <1>3, <1>10, <1>11, <1>13, <1>14, <1>15 DEF EntryAdded

\* mkdir2 adds an entry for a directory that holds "." and "..".
LEMMA DirMade ==
    ASSUME NEW D \in Disk, BlockForm(D, D.imap), NEW d \in D.imap, Listing(D, d),
           NEW n \in Name, find_record(D, d, n) = -1, Inode \ D.imap # {}, root \in D.imap,
           HasFree(D, append_needs(D, d) + 1), NEW c, c = alloc_inode(D),
           NEW E, E = create_dir(D, d, n)
    PROVE  /\ E \in Disk /\ BlockForm(E, E.imap)
           /\ EntryAdded(D, E, d, record("dir", n, c))
           /\ Listing(E, c) /\ dsize(E, c) = 2
           /\ record_at(E, c, 1) = record("dir", "..", d)
<1>1. /\ D.imap \in SUBSET Inode /\ c \in Inode \ D.imap /\ d \in Inode /\ d # c /\ c # root
      /\ D.imap \cup {c} \in SUBSET Inode
  BY DiskFields, FreeInode
<1> PICK I : I = D.imap \cup {c}
  OBVIOUS
<1> PICK r : r = record("dir", n, c)
  OBVIOUS
<1>2. r \in Record /\ r.type # "invalid" /\ r.name = n /\ r.inode = c
  <2>1. Fresh(r, "dir", n, c)
    BY <1>1, MadeRecords
  <2> QED BY <2>1 DEF Fresh
<1> PICK rr : rr = record("dir", "..", d)
  OBVIOUS
<1>3. rr \in Record /\ rr.type # "invalid" /\ rr.name = ".."
  <2>1. Fresh(rr, "dir", "..", d)
    BY <1>1, MadeRecords
  <2> QED BY <2>1 DEF Fresh
\* The new i-node.
<1> PICK M : M = inode_init(D, c)
  OBVIOUS
<1>4. /\ M \in Disk /\ M.imap = I /\ M.bmap = D.bmap /\ M.rec = D.rec
      /\ M.ptr[c] = <<>> /\ \A j \in Inode \ {c} : M.ptr[j] = D.ptr[j]
      /\ BlockForm(M, I)
  <2>1. InodeAdded(D, M, D.imap, c)
    BY <1>1, Initialised
  <2> QED BY <2>1 DEF InodeAdded
<1>5. \A j \in D.imap : M.ptr[j] = D.ptr[j]
  BY <1>1, <1>4
<1>6. /\ Listing(M, d) /\ find_record(M, d, n) = -1 /\ dsize(M, d) = dsize(D, d)
      /\ append_needs(M, d) = append_needs(D, d)
      /\ \A p : record_at(M, d, p) = record_at(D, d, p)
  <2>1. SameDir(D, M, d)
    BY <1>4, <1>5, Congruent
  <2> QED BY <2>1 DEF SameDir
<1>7. \A j \in D.imap : /\ positions(M, j) = positions(D, j)
                        /\ \A p : record_at(M, j, p) = record_at(D, j, p)
  <2>1. \A j \in D.imap : SameDir(D, M, j)
    BY <1>4, <1>5, Congruent
  <2> QED BY <2>1 DEF SameDir
<1>8. /\ free_blocks(M) = free_blocks(D) /\ free_blocks(D) \in Nat
      /\ append_needs(D, d) \in Nat
  BY <1>4, FreeBlocks DEF free_blocks, append_needs
<1>9. HasFree(M, append_needs(M, d))
  BY <1>6, <1>8 DEF HasFree
\* Its record in directory d.
<1> PICK A : A = append_record(M, d, r)
  OBVIOUS
<1>10. /\ A \in Disk /\ A.imap = M.imap /\ BlockForm(A, I) /\ OthersKept(M, A, I, d)
       /\ \A j \in Inode \ {d} : A.ptr[j] = M.ptr[j]
       /\ Longer(M, A, d, r)
       /\ free_blocks(A) = free_blocks(M) - append_needs(M, d)
  <2>1. find_record(M, d, r.name) = -1
    BY <1>2, <1>6
  <2>2. RecordAdded(M, A, I, d, r)
    BY <1>1, <1>2, <1>4, <1>6, <1>9, <2>1, Appended
  <2> QED BY <2>2 DEF RecordAdded
<1>11. HasFree(A, 1) /\ free_blocks(A) \in Nat
  BY <1>6, <1>8, <1>10, FreeBlocks DEF HasFree
<1>12. A.ptr[c] = <<>>
  BY <1>1, <1>4, <1>10
\* "." in the new directory.
<1> PICK B : B = append_record(A, c, record("dir", ".", c))
  OBVIOUS
<1>13. /\ B \in Disk /\ B.imap = A.imap /\ BlockForm(B, I) /\ OthersKept(A, B, I, c)
       /\ \A j \in Inode \ {c} : B.ptr[j] = A.ptr[j]
       /\ Listing(B, c) /\ dsize(B, c) = 1
  BY <1>1, <1>10, <1>11, <1>12, FirstRecord
\* ".." in the new directory: a block of one record has room for it.
<1>14. find_record(B, c, "..") = -1
  <2>1. record_at(B, c, 0).name = "."
    BY <1>13 DEF Listing
  <2>2. PICK n2 : n2 = ".."
    OBVIOUS
  <2>3. Found(B, c, n2)
    BY <1>1, <1>13, Finds
  <2>4. find_record(B, c, n2) \in {-1, 0}
    BY <1>13, <2>3 DEF Found
  <2> QED BY <2>1, <2>2, <2>3, <2>4 DEF Found
<1>15. append_needs(B, c) = 0
  <2>1. 1 \in positions(B, c)
    <3>1. PICK m \in Nat : m = Len(B.ptr[c]) * RPB
      BY <1>1, <1>13, DiskFields, OneBlockMore
    <3>2. m >= RPB
      <4>1. Len(B.ptr[c]) \in Nat /\ Len(B.ptr[c]) > 0
        <5>1. B.ptr[c] # <<>> /\ B.ptr[c] \in Seq(Block)
          BY <1>1, <1>13, Records, DiskFields
        <5> QED BY <5>1
      <4> QED BY <3>1, <4>1, OneBlockMore, Zenon
    <3>3. positions(B, c) = 0 .. m - 1
      BY <3>1 DEF positions
    <3> QED BY <3>1, <3>2, <3>3, Sizes
  <2>2. record_at(B, c, 1).type = "invalid"
    BY <1>13, <2>1 DEF Listing
  <2> QED BY <2>1, <2>2 DEF append_needs
<1>16. HasFree(B, append_needs(B, c))
  BY <1>15, FreeBlocks DEF HasFree
<1>17. E = append_record(B, c, rr)
  BY DEF create_dir
<1>18. /\ E \in Disk /\ E.imap = B.imap /\ BlockForm(E, I) /\ OthersKept(B, E, I, c)
       /\ \A j \in Inode \ {c} : E.ptr[j] = B.ptr[j]
       /\ Longer(B, E, c, rr)
  <2>1. find_record(B, c, rr.name) = -1
    BY <1>3, <1>14
  <2>2. RecordAdded(B, E, I, c, rr)
    BY <1>1, <1>3, <1>13, <1>16, <1>17, <2>1, Appended
  <2> QED BY <2>2 DEF RecordAdded
\* What is left of each step.
<1>19. Listing(E, c) /\ dsize(E, c) = 2 /\ record_at(E, c, 1) = rr
  BY <1>13, <1>18 DEF Longer
<1>20. E.imap = I
  BY <1>4, <1>10, <1>13, <1>18
<1>21. \A j \in D.imap : E.ptr[j] = A.ptr[j]
  BY <1>1, <1>13, <1>18
<1>22. \A j \in D.imap : positions(A, j) = positions(B, j) /\ positions(E, j) = positions(A, j)
  BY <1>1, <1>13, <1>21 DEF positions
<1>23. \A j \in D.imap : \A q \in positions(A, j) : record_at(E, j, q) = record_at(A, j, q)
  BY <1>1, <1>13, <1>18, <1>22 DEF OthersKept
<1>24. Longer(D, E, d, r)
  <2>1. Listing(A, d) /\ dsize(A, d) = dsize(D, d) + 1 /\ record_at(A, d, dsize(D, d)) = r
        /\ \A p \in 1 .. dsize(D, d) - 1 : record_at(A, d, p) = record_at(D, d, p)
    BY <1>6, <1>10 DEF Longer
  <2>2. /\ Listing(E, d) /\ dsize(E, d) = dsize(A, d)
    BY <1>1, <1>10, <1>18, <1>21, <1>23, <2>1, Unmoved
  <2>3. 0 .. dsize(A, d) - 1 \subseteq positions(A, d)
    BY <1>1, <1>10, <2>1, Records
  <2>4. dsize(D, d) \in Nat
    BY <1>1, Records
  <2>5. /\ dsize(D, d) \in positions(A, d)
        /\ \A p \in 1 .. dsize(D, d) - 1 : p \in positions(A, d)
    BY <2>1, <2>3, <2>4
  <2> QED BY <1>23, <2>1, <2>2, <2>5 DEF Longer
<1>25. OthersKept(D, E, D.imap, d)
  <2> SUFFICES ASSUME NEW j \in D.imap \ {d}, NEW q \in positions(D, j)
               PROVE  record_at(E, j, q) = record_at(D, j, q)
    BY DEF OthersKept
  <2>1. j \in I \ {d} /\ q \in positions(M, j) /\ record_at(M, j, q) = record_at(D, j, q)
    BY <1>7
  <2>2. record_at(A, j, q) = record_at(M, j, q)
    BY <1>10, <2>1 DEF OthersKept
  <2>3. positions(A, j) = positions(M, j)
    BY <1>1, <1>10 DEF positions
  <2> QED BY <1>23, <2>1, <2>2, <2>3
<1>26. \A j \in D.imap \ {d} : E.ptr[j] = D.ptr[j]
  BY <1>1, <1>5, <1>10, <1>21
<1> QED BY <1>1, <1>2, <1>18, <1>19, <1>20, <1>24, <1>25, <1>26 DEF EntryAdded

\* delete2 and rmdir2 take the entry and the i-node out.
LEMMA EntryTaken ==
    ASSUME NEW D \in Disk, BlockForm(D, D.imap), NEW d \in D.imap, Listing(D, d),
           NEW f \in D.imap \ {d}, NEW pos \in 1 .. dsize(D, d) - 1,
           NEW E, E = remove_record(deep_free_inode(D, f), d, pos)
    PROVE  E \in Disk /\ BlockForm(E, E.imap) /\ EntryRemoved(D, E, d, pos, f)
<1> PICK I : I = D.imap \ {f}
  OBVIOUS
<1>1. I \in SUBSET Inode /\ d \in I /\ d \in Inode
  BY DiskFields
<1> PICK M : M = deep_free_inode(D, f)
  OBVIOUS
<1>2. /\ M \in Disk /\ M.imap = I /\ M.ptr = D.ptr /\ M.rec = D.rec /\ BlockForm(M, I)
  BY Freed
<1>3. \A j : /\ positions(M, j) = positions(D, j) /\ dsize(M, j) = dsize(D, j)
             /\ \A p : record_at(M, j, p) = record_at(D, j, p)
             /\ Listing(D, j) => Listing(M, j)
  <2>1. \A j : SameDir(D, M, j)
    BY <1>2, Congruent
  <2> QED BY <2>1 DEF SameDir
<1>4. /\ E \in Disk /\ Same(M, E) /\ BlockForm(E, I) /\ OthersKept(M, E, I, d)
      /\ Listing(E, d) /\ dsize(E, d) = dsize(M, d) - 1
      /\ \A p \in 1 .. dsize(E, d) - 1 :
            record_at(E, d, p) = IF p = pos THEN record_at(M, d, dsize(M, d) - 1)
                                 ELSE record_at(M, d, p)
  <2>1. E = remove_record(M, d, pos) /\ pos \in 1 .. dsize(M, d) - 1
    BY <1>3
  <2> QED BY <1>1, <1>2, <1>3, <2>1, Removed
<1>5. OthersKept(D, E, I, d)
  BY <1>3, <1>4 DEF OthersKept
<1>6. E.imap = I /\ E.ptr = D.ptr
  BY <1>2, <1>4 DEF Same
<1> QED BY <1>3, <1>4, <1>5, <1>6 DEF EntryRemoved


-----------------------------------------------------------------------------
(***************************************************************************)
(* The tree is kept.                                                       *)
(***************************************************************************)
\* What TreeForm says of one directory and of one entry.
LEMMA InTree ==
    ASSUME NEW D \in Disk, TreeForm(D), NEW i \in DirNodes(D)
    PROVE  /\ i \in D.imap /\ i \in Inode /\ D.ptr[i] # <<>>
           /\ Listing(D, i) /\ DotDot(D, i)
           /\ dsize(D, i) \in Nat /\ dsize(D, i) >= 2
           /\ parent_of(D, i) \in DirNodes(D)
           /\ slots(D, i) \subseteq positions(D, i)
           /\ \A p \in slots(D, i) :
                 /\ record_at(D, i, p).name \in Name /\ record_at(D, i, p) \in Record
                 /\ record_at(D, i, p).inode \in D.imap \ {root}
                 /\ record_at(D, i, p).type = "dir" <=> record_at(D, i, p).inode \in DirNodes(D)
                 /\ record_at(D, i, p).type = "dir" => parent_of(D, record_at(D, i, p).inode) = i
<1>1. /\ i \in D.imap /\ i \in Inode /\ D.ptr[i] # <<>>
  BY DiskFields DEF DirNodes
<1>2. /\ Listing(D, i) /\ DotDot(D, i)
      /\ \A p \in slots(D, i) : Entered(D, i, p)
  BY DEF TreeForm
<1>3. /\ dsize(D, i) \in Nat /\ dsize(D, i) >= 2 /\ parent_of(D, i) \in DirNodes(D)
  BY <1>1, <1>2, Records DEF DotDot
<1>4. slots(D, i) \subseteq 0 .. dsize(D, i) - 1
  BY <1>3 DEF slots
<1>5. slots(D, i) \subseteq positions(D, i) /\ \A p \in slots(D, i) : record_at(D, i, p) \in Record
  BY <1>1, <1>2, <1>4, Records
<1>6. ASSUME NEW p \in slots(D, i)
      PROVE  /\ record_at(D, i, p).name \in Name
             /\ record_at(D, i, p).inode \in D.imap \ {root}
             /\ record_at(D, i, p).type = "dir" <=> record_at(D, i, p).inode \in DirNodes(D)
             /\ record_at(D, i, p).type = "dir" => parent_of(D, record_at(D, i, p).inode) = i
  BY <1>2 DEF Entered, DirNodes
<1> QED BY <1>1, <1>2, <1>3, <1>5, <1>6

\* In E directory i has the entries and the ".." it has in D.
KeptDir(D, E, i) ==
    /\ Listing(E, i) /\ dsize(E, i) = dsize(D, i)
    /\ \A p \in 1 .. dsize(D, i) - 1 : record_at(E, i, p) = record_at(D, i, p)

\* A directory whose blocks are not written is kept.
LEMMA DirKept ==
    ASSUME NEW D \in Disk, NEW E \in Disk, NEW I \in SUBSET Inode, NEW d,
           NEW i \in I \ {d}, E.ptr[i] = D.ptr[i], OthersKept(D, E, I, d), Listing(D, i)
    PROVE  KeptDir(D, E, i)
<1>1. \A q \in positions(D, i) : record_at(E, i, q) = record_at(D, i, q)
  BY DEF OthersKept
<1>2. Listing(E, i) /\ dsize(E, i) = dsize(D, i)
  BY <1>1, Unmoved
<1>3. 1 .. dsize(D, i) - 1 \subseteq positions(D, i)
  BY Records
<1> QED BY <1>1, <1>2, <1>3 DEF KeptDir

\* A new entry r is a file's or a new empty directory's.
NewEntry(E, d, r) ==
    /\ r.name \in Name
    /\ \/ r.type = "file" /\ E.ptr[r.inode] = <<>>
       \/ /\ r.type = "dir" /\ Listing(E, r.inode) /\ dsize(E, r.inode) = 2
          /\ record_at(E, r.inode, 1).name = ".." /\ record_at(E, r.inode, 1).type = "dir"
          /\ record_at(E, r.inode, 1).inode = d

\* From D to E the tree gets the entry r, the last of directory d.
TreeGrown(D, E, d, r) ==
    /\ DirNodes(D) \subseteq DirNodes(E)
    /\ \A i \in DirNodes(E) : i \in DirNodes(D) \/ (r.type = "dir" /\ i = r.inode)
    /\ r.inode \notin D.imap /\ r.name \in Name
    /\ r.type = "file" \/ (r.type = "dir" /\ r.inode \in DirNodes(E))
    /\ \A i \in DirNodes(D) : \A p \in slots(D, i) :
          p \in slots(E, i) /\ record_at(E, i, p) = record_at(D, i, p)
    /\ dsize(D, d) \in slots(E, d) /\ record_at(E, d, dsize(D, d)) = r
    /\ \A i \in DirNodes(E) : \A p \in slots(E, i) :
          \/ i \in DirNodes(D) /\ p \in slots(D, i)
          \/ i = d /\ p = dsize(D, d)

\* A tree with one more leaf is a tree.
LEMMA LeafAdded ==
    ASSUME NEW D \in Disk, NEW E \in Disk, TreeForm(D), NEW d \in DirNodes(D), NEW r,
           EntryAdded(D, E, d, r), NewEntry(E, d, r)
    PROVE  TreeForm(E) /\ TreeGrown(D, E, d, r)
<1> PICK c : c = r.inode
  OBVIOUS
<1>1. /\ c \in Inode /\ c \notin D.imap /\ E.imap = D.imap \cup {c}
      /\ D.imap \in SUBSET Inode /\ d \in D.imap /\ c \notin DirNodes(D)
      /\ \A j \in D.imap \ {d} : E.ptr[j] = D.ptr[j]
  BY DiskFields DEF EntryAdded, DirNodes
<1>2. Longer(D, E, d, r) /\ OthersKept(D, E, D.imap, d)
  BY DEF EntryAdded
<1>3. \A i \in DirNodes(D) \ {d} : KeptDir(D, E, i)
  <2>1. \A i \in DirNodes(D) \ {d} : E.ptr[i] = D.ptr[i] /\ Listing(D, i) /\ i \in D.imap \ {d}
    BY <1>1, InTree
  <2> QED BY <1>1, <1>2, <2>1, DirKept
\* The directories, their sizes and their "..".
<1>4. /\ \A j \in D.imap : j \in DirNodes(E) <=> j \in DirNodes(D)
      /\ c \in DirNodes(E) <=> E.ptr[c] # <<>>
      /\ \A j \in DirNodes(E) : j \in DirNodes(D) \/ j = c
  <2>1. E.ptr[d] # <<>> /\ D.ptr[d] # <<>>
    BY <1>1, <1>2, Records, InTree DEF Longer
  <2> QED BY <1>1, <2>1 DEF DirNodes
<1>5. \A i \in DirNodes(D) : /\ Listing(E, i)
                             /\ record_at(E, i, 1) = record_at(D, i, 1)
                             /\ parent_of(E, i) = parent_of(D, i)
                             /\ dsize(E, i) >= 2
  <2> SUFFICES ASSUME NEW i \in DirNodes(D)
               PROVE  /\ Listing(E, i) /\ dsize(E, i) >= 2
                      /\ record_at(E, i, 1) = record_at(D, i, 1)
    BY DEF parent_of
  <2>1. dsize(D, i) \in Nat /\ dsize(D, i) >= 2
    BY InTree
  <2>2. 1 \in 1 .. dsize(D, i) - 1
    BY <2>1
  <2>3. CASE i = d
    BY <1>2, <2>1, <2>2, <2>3 DEF Longer
  <2>4. CASE i # d
    <3>1. KeptDir(D, E, i)
      BY <1>3, <2>4
    <3> QED BY <2>1, <2>2, <3>1 DEF KeptDir
  <2> QED BY <2>3, <2>4
<1>6. /\ r.type = "dir" <=> c \in DirNodes(E)
      /\ c \in DirNodes(E) =>
            /\ Listing(E, c) /\ dsize(E, c) = 2 /\ parent_of(E, c) = d
            /\ record_at(E, c, 1).name = ".." /\ record_at(E, c, 1).type = "dir"
  <2>1. CASE r.type = "file" /\ E.ptr[c] = <<>>
    BY <1>4, <2>1
  <2>2. CASE r.type # "file" \/ E.ptr[c] # <<>>
    <3>1. /\ r.type = "dir" /\ Listing(E, c) /\ dsize(E, c) = 2
          /\ record_at(E, c, 1).name = ".." /\ record_at(E, c, 1).type = "dir"
          /\ record_at(E, c, 1).inode = d
      BY <2>2 DEF NewEntry
    <3>2. E.ptr[c] # <<>>
      BY <1>1, <3>1, Records
    <3> QED BY <1>4, <3>1, <3>2 DEF parent_of
  <2> QED BY <2>1, <2>2
\* The entries.
<1>7. /\ dsize(D, d) \in slots(E, d) /\ record_at(E, d, dsize(D, d)) = r
      /\ \A i \in DirNodes(D) : \A p \in slots(D, i) :
            p \in slots(E, i) /\ record_at(E, i, p) = record_at(D, i, p)
  <2>1. /\ dsize(D, d) \in slots(E, d) /\ record_at(E, d, dsize(D, d)) = r
        /\ \A p \in slots(D, d) : p \in slots(E, d) /\ record_at(E, d, p) = record_at(D, d, p)
    BY <1>2, InTree DEF Longer, slots
  <2>2. ASSUME NEW i \in DirNodes(D) \ {d}, NEW p \in slots(D, i)
        PROVE  p \in slots(E, i) /\ record_at(E, i, p) = record_at(D, i, p)
    BY <1>3, InTree DEF KeptDir, slots
  <2> QED BY <2>1, <2>2
<1>8. ASSUME NEW i \in DirNodes(E), NEW p \in slots(E, i)
      PROVE  \/ i \in DirNodes(D) /\ p \in slots(D, i) /\ record_at(E, i, p) = record_at(D, i, p)
             \/ i = d /\ p = dsize(D, d) /\ record_at(E, i, p) = r
  <2>1. i \in DirNodes(D)
    <3>1. CASE i = c
      BY <1>6, <3>1 DEF slots
    <3> QED BY <1>4, <3>1
  <2>2. p \in slots(D, i) \/ (i = d /\ p = dsize(D, d))
    <3>1. CASE i = d
      BY <1>2, <3>1, InTree DEF Longer, slots
    <3>2. CASE i # d
      BY <1>3, <2>1, <3>2 DEF KeptDir, slots
    <3> QED BY <3>1, <3>2
  <2> QED BY <1>7, <2>1, <2>2
<1>9. \A i \in DirNodes(D) : \A p \in slots(D, i) :
         /\ record_at(D, i, p).inode \in D.imap \ {root} /\ record_at(D, i, p).inode # c
         /\ record_at(D, i, p).name \in Name
         /\ record_at(D, i, p).type = "dir" <=> record_at(D, i, p).inode \in DirNodes(D)
         /\ record_at(D, i, p).type = "dir" => parent_of(D, record_at(D, i, p).inode) = i
  BY <1>1, InTree
<1>10. root \in DirNodes(E) /\ parent_of(E, root) = root /\ root # c
  <2>1. root \in DirNodes(D) /\ parent_of(D, root) = root /\ root \in D.imap
    BY DEF TreeForm, DirNodes
  <2> QED BY <1>1, <1>4, <1>5, <2>1
<1>11. ASSUME NEW i \in DirNodes(E)
       PROVE  Listing(E, i) /\ DotDot(E, i)
  <2>1. CASE i = c
    <3>1. d \in DirNodes(E)
      BY <1>1, <1>4
    <3> QED BY <1>6, <2>1, <3>1 DEF DotDot
  <2>2. CASE i \in DirNodes(D)
    <3>1. DotDot(D, i) /\ parent_of(D, i) \in D.imap
      BY <2>2, InTree DEF DirNodes
    <3> QED BY <1>4, <1>5, <2>2, <3>1 DEF DotDot
  <2> QED BY <1>4, <2>1, <2>2
<1>12. ASSUME NEW i \in DirNodes(E), NEW p \in slots(E, i)
       PROVE  Entered(E, i, p)
  <2> PICK e : e = record_at(E, i, p)
    OBVIOUS
  <2>1. /\ e.name \in Name /\ e.inode \in E.imap \ {root}
        /\ e.type = "dir" <=> e.inode \in DirNodes(E)
        /\ e.type = "dir" => parent_of(E, e.inode) = i
    <3>1. CASE i \in DirNodes(D) /\ p \in slots(D, i) /\ e = record_at(D, i, p)
      BY <1>1, <1>4, <1>5, <1>9, <3>1
    <3>2. CASE i = d /\ e = r
      BY <1>1, <1>6, <1>10, <3>2 DEF NewEntry
    <3> QED BY <1>8, <3>1, <3>2
  <2> QED BY <2>1 DEF Entered, DirNodes
<1>13. ASSUME NEW j \in E.imap \ {root}
       PROVE  \E i \in DirNodes(E) : \E p \in slots(E, i) : record_at(E, i, p).inode = j
  <2>1. CASE j = c
    BY <1>1, <1>4, <1>7, <2>1
  <2>2. CASE j # c
    <3>1. j \in D.imap \ {root}
      BY <1>1, <2>2
    <3>2. PICK i \in DirNodes(D) : \E p \in slots(D, i) : record_at(D, i, p).inode = j
      BY <3>1 DEF TreeForm
    <3>3. i \in DirNodes(E)
      BY <1>4 DEF DirNodes
    <3> QED BY <1>7, <3>2, <3>3
  <2> QED BY <2>1, <2>2
<1>14. ASSUME NEW i \in DirNodes(E), NEW k \in DirNodes(E),
              NEW p \in slots(E, i), NEW q \in slots(E, k),
              record_at(E, i, p).inode = record_at(E, k, q).inode
       PROVE  i = k /\ p = q
  <2>1. CASE i = d /\ p = dsize(D, d) /\ record_at(E, i, p) = r
    BY <1>8, <1>9, <1>14, <2>1
  <2>2. CASE k = d /\ q = dsize(D, d) /\ record_at(E, k, q) = r
    BY <1>8, <1>9, <1>14, <2>2
  <2>3. CASE /\ i \in DirNodes(D) /\ p \in slots(D, i) /\ record_at(E, i, p) = record_at(D, i, p)
             /\ k \in DirNodes(D) /\ q \in slots(D, k) /\ record_at(E, k, q) = record_at(D, k, q)
    BY <1>14, <2>3 DEF TreeForm
  <2> QED BY <1>8, <2>1, <2>2, <2>3
<1>15. ASSUME NEW S \in SUBSET (DirNodes(E) \ {root}), S # {}
       PROVE  \E i \in S : parent_of(E, i) \notin S
  <2>1. S \ {c} \in SUBSET (DirNodes(D) \ {root})
    BY <1>4
  <2>2. CASE S \ {c} = {}
    <3>1. c \in S /\ c \in DirNodes(E) /\ d \notin S
      BY <1>1, <1>15, <2>2
    <3> QED BY <1>6, <3>1
  <2>3. CASE S \ {c} # {}
    <3>1. PICK i \in S \ {c} : parent_of(D, i) \notin S \ {c}
      BY <2>1, <2>3 DEF TreeForm
    <3>2. i \in DirNodes(D) /\ parent_of(D, i) \in DirNodes(D)
      BY <2>1, InTree
    <3>3. parent_of(D, i) \notin S
      BY <1>1, <3>1, <3>2
    <3> QED BY <1>5, <3>2, <3>3
  <2> QED BY <2>2, <2>3
<1>16. TreeGrown(D, E, d, r)
  <2>1. DirNodes(D) \subseteq DirNodes(E)
    BY <1>4 DEF DirNodes
  <2>2. r.name \in Name /\ (r.type = "file" \/ r.type = "dir")
    BY DEF NewEntry
  <2> QED BY <1>1, <1>4, <1>6, <1>7, <1>8, <2>1, <2>2 DEF TreeGrown
<1> QED BY <1>10, <1>11, <1>12, <1>13, <1>14, <1>15, <1>16 DEF TreeForm

\* A directory is not an entry of itself, and the "..s" of the directories
\* lead to directories that have them as entries.
LEMMA ParentHasEntry ==
    ASSUME NEW D \in Disk, TreeForm(D), NEW i \in DirNodes(D), i # root
    PROVE  /\ parent_of(D, i) # i /\ parent_of(D, i) \in DirNodes(D)
           /\ \E p \in slots(D, parent_of(D, i)) : record_at(D, parent_of(D, i), p).inode = i
<1>1. parent_of(D, i) # i
  <2>1. {i} \in SUBSET (DirNodes(D) \ {root}) /\ {i} # {}
    OBVIOUS
  <2>2. \E j \in {i} : parent_of(D, j) \notin {i}
    BY <2>1 DEF TreeForm
  <2> QED BY <2>2
<1>2. i \in D.imap \ {root}
  BY DEF DirNodes
<1>3. PICK k \in DirNodes(D) : \E p \in slots(D, k) : record_at(D, k, p).inode = i
  BY <1>2 DEF TreeForm
<1>4. parent_of(D, i) = k
  BY <1>3, InTree
<1> QED BY <1>1, <1>3, <1>4

\* From D to E the tree loses the entry at pos of directory d and the i-node f
\* it names; the other entries are kept, none at a higher position.
TreeShrunk(D, E, d, pos, f) ==
    /\ DirNodes(E) = DirNodes(D) \ {f}
    /\ \A i \in DirNodes(E) : \A q \in slots(E, i) : \E p \in slots(D, i) :
          q <= p /\ ~ (i = d /\ p = pos) /\ record_at(E, i, q) = record_at(D, i, p)
    /\ \A i \in DirNodes(E) : \A p \in slots(D, i) :
          ~ (i = d /\ p = pos) => \E q \in slots(E, i) : record_at(E, i, q) = record_at(D, i, p)

\* A tree with one leaf less is a tree.
LEMMA LeafRemoved ==
    ASSUME NEW D \in Disk, NEW E \in Disk, TreeForm(D), NEW d \in DirNodes(D),
           NEW pos \in slots(D, d), NEW f, f = record_at(D, d, pos).inode,
           f \in DirNodes(D) => dsize(D, f) = 2, EntryRemoved(D, E, d, pos, f)
    PROVE  TreeForm(E) /\ TreeShrunk(D, E, d, pos, f) /\ f \in D.imap \ {d}
<1> PICK n : n = dsize(D, d)
  OBVIOUS
<1>1. n \in Nat /\ n >= 3 /\ pos \in 2 .. n - 1
  BY InTree DEF slots
<1>2. f \in D.imap \ {root} /\ f # d
  <2>1. f \in D.imap \ {root} /\ (f \in DirNodes(D) => parent_of(D, f) = d)
    BY InTree
  <2> QED BY <2>1, ParentHasEntry
<1>3. /\ E.imap = D.imap \ {f} /\ E.ptr = D.ptr /\ D.imap \in SUBSET Inode
      /\ OthersKept(D, E, D.imap \ {f}, d)
      /\ Listing(E, d) /\ dsize(E, d) = n - 1
      /\ \A p \in 1 .. n - 2 :
            record_at(E, d, p) = IF p = pos THEN record_at(D, d, n - 1) ELSE record_at(D, d, p)
  <2>1. (n - 1) - 1 = n - 2
    BY <1>1
  <2> QED BY <2>1, DiskFields DEF EntryRemoved
<1>4. DirNodes(E) = DirNodes(D) \ {f}
  BY <1>3 DEF DirNodes
<1>5. \A i \in DirNodes(E) \ {d} : KeptDir(D, E, i)
  <2> SUFFICES ASSUME NEW i \in DirNodes(E) \ {d}
               PROVE  KeptDir(D, E, i)
    OBVIOUS
  <2>1. E.ptr[i] = D.ptr[i] /\ Listing(D, i) /\ i \in (D.imap \ {f}) \ {d}
        /\ D.imap \ {f} \in SUBSET Inode
    BY <1>3, <1>4, InTree
  <2> QED BY <1>3, <2>1, DirKept
<1>6. \A i \in DirNodes(E) : /\ Listing(E, i)
                             /\ record_at(E, i, 1) = record_at(D, i, 1)
                             /\ parent_of(E, i) = parent_of(D, i)
                             /\ dsize(E, i) >= 2
  <2> SUFFICES ASSUME NEW i \in DirNodes(E)
               PROVE  /\ Listing(E, i) /\ dsize(E, i) >= 2
                      /\ record_at(E, i, 1) = record_at(D, i, 1)
    BY DEF parent_of
  <2>1. CASE i = d
    BY <1>1, <1>3, <2>1
  <2>2. CASE i # d
    <3>1. KeptDir(D, E, i) /\ dsize(D, i) \in Nat /\ dsize(D, i) >= 2
      BY <1>4, <1>5, <2>2, InTree
    <3> QED BY <3>1 DEF KeptDir
  <2> QED BY <2>1, <2>2
\* Where an entry of E was in D.
<1> DEFINE was(i, p) == IF i = d /\ p = pos THEN n - 1 ELSE p
<1>7. ASSUME NEW i \in DirNodes(E), NEW p \in slots(E, i)
      PROVE  /\ was(i, p) \in slots(D, i) /\ ~ (i = d /\ was(i, p) = pos) /\ p <= was(i, p)
             /\ record_at(E, i, p) = record_at(D, i, was(i, p))
  <2>1. CASE i = d
    <3>1. p \in 2 .. n - 2 /\ p \in 1 .. n - 2
      BY <1>1, <1>3, <2>1 DEF slots
    <3>2. record_at(E, d, p) = record_at(D, d, was(d, p))
      BY <1>3, <3>1
    <3>3. was(d, p) \in 2 .. n - 1 /\ was(d, p) # pos /\ p <= was(d, p)
      BY <1>1, <3>1
    <3> QED BY <2>1, <3>2, <3>3 DEF slots
  <2>2. CASE i # d
    <3>1. KeptDir(D, E, i)
      BY <1>5, <2>2
    <3>2. p \in slots(D, i) /\ record_at(E, i, p) = record_at(D, i, p)
      BY <3>1 DEF KeptDir, slots
    <3>3. p <= p
      BY DEF slots
    <3> QED BY <2>2, <3>2, <3>3
  <2> QED BY <2>1, <2>2
<1>8. ASSUME NEW i \in DirNodes(E), NEW q \in slots(D, i), ~ (i = d /\ q = pos)
      PROVE  \E p \in slots(E, i) : record_at(E, i, p) = record_at(D, i, q)
  <2>1. CASE i = d /\ q = n - 1
    <3>1. pos \in 2 .. n - 2 /\ pos \in 1 .. n - 2
      BY <1>1, <1>8, <2>1
    <3>2. pos \in slots(E, d)
      BY <1>1, <1>3, <3>1 DEF slots
    <3>3. record_at(E, d, pos) = record_at(D, d, n - 1)
      BY <1>3, <3>1
    <3> QED BY <2>1, <3>2, <3>3
  <2>2. CASE i = d /\ q # n - 1
    <3>1. q \in 2 .. n - 2 /\ q \in 1 .. n - 2 /\ q # pos
      BY <1>1, <1>8, <2>2 DEF slots
    <3>2. q \in slots(E, d)
      BY <1>1, <1>3, <3>1 DEF slots
    <3>3. record_at(E, d, q) = record_at(D, d, q)
      BY <1>3, <3>1
    <3> QED BY <2>2, <3>2, <3>3
  <2>3. CASE i # d
    <3>1. KeptDir(D, E, i)
      BY <1>5, <2>3
    <3> QED BY <3>1 DEF KeptDir, slots
  <2> QED BY <2>1, <2>2, <2>3
<1>9. \A i \in DirNodes(E) : \A p, q \in slots(E, i) : was(i, p) = was(i, q) => p = q
  <2> SUFFICES ASSUME NEW i \in DirNodes(E), NEW p \in slots(E, i), NEW q \in slots(E, i),
                      was(i, p) = was(i, q)
               PROVE  p = q
    OBVIOUS
  <2>1. CASE i = d
    <3>1. p \in 2 .. n - 2 /\ q \in 2 .. n - 2
      BY <1>1, <1>3, <2>1 DEF slots
    <3> QED BY <1>1, <2>1, <3>1
  <2> QED BY <2>1
<1> HIDE DEF was
\* No other entry is f's, and f is nobody's "..".
<1>10. ASSUME NEW i \in DirNodes(E), NEW p \in slots(E, i)
       PROVE  record_at(E, i, p).inode # f
  <2>1. was(i, p) \in slots(D, i) /\ ~ (i = d /\ was(i, p) = pos) /\ i \in DirNodes(D)
        /\ record_at(E, i, p) = record_at(D, i, was(i, p))
    BY <1>4, <1>7
  <2> QED BY <2>1 DEF TreeForm
<1>11. \A i \in DirNodes(E) : parent_of(D, i) \in DirNodes(E)
  <2> SUFFICES ASSUME NEW i \in DirNodes(E), parent_of(D, i) = f
               PROVE  FALSE
    BY <1>4, InTree
  <2>1. i # root
    BY <1>2 DEF TreeForm
  <2>2. f \in DirNodes(D) /\ \E p \in slots(D, f) : TRUE
    BY <1>4, <2>1, ParentHasEntry
  <2> QED BY <2>2 DEF slots
<1>12. root \in DirNodes(E) /\ parent_of(E, root) = root
  BY <1>2, <1>4, <1>6 DEF TreeForm
<1>13. ASSUME NEW i \in DirNodes(E)
       PROVE  Listing(E, i) /\ DotDot(E, i)
  <2>1. DotDot(D, i)
    BY <1>4, InTree
  <2> QED BY <1>6, <1>11, <2>1 DEF DotDot
<1>14. ASSUME NEW i \in DirNodes(E), NEW p \in slots(E, i)
       PROVE  Entered(E, i, p)
  <2> PICK e : e = record_at(E, i, p)
    OBVIOUS
  <2>1. /\ e.name \in Name /\ e.inode \in D.imap \ {root}
        /\ e.type = "dir" <=> e.inode \in DirNodes(D)
        /\ e.type = "dir" => parent_of(D, e.inode) = i
    BY <1>4, <1>7, InTree
  <2>2. e.inode # f
    BY <1>10
  <2>3. /\ e.name \in Name /\ e.inode \in E.imap \ {root}
        /\ e.type = "dir" <=> e.inode \in DirNodes(E)
        /\ e.type = "dir" => parent_of(E, e.inode) = i
    BY <1>3, <1>4, <1>6, <2>1, <2>2
  <2> QED BY <2>3 DEF Entered, DirNodes
<1>15. ASSUME NEW j \in E.imap \ {root}
       PROVE  \E i \in DirNodes(E) : \E p \in slots(E, i) : record_at(E, i, p).inode = j
  <2>1. j \in D.imap \ {root} /\ j # f
    BY <1>3
  <2>2. PICK i \in DirNodes(D) : \E q \in slots(D, i) : record_at(D, i, q).inode = j
    BY <2>1 DEF TreeForm
  <2>3. PICK q \in slots(D, i) : record_at(D, i, q).inode = j
    BY <2>2
  <2>4. i # f
    BY <2>2 DEF slots
  <2>5. i \in DirNodes(E) /\ ~ (i = d /\ q = pos)
    BY <1>4, <2>1, <2>3, <2>4
  <2>6. PICK p \in slots(E, i) : record_at(E, i, p) = record_at(D, i, q)
    BY <1>8, <2>3, <2>5
  <2> QED BY <2>3, <2>5, <2>6
<1>16. ASSUME NEW i \in DirNodes(E), NEW k \in DirNodes(E),
              NEW p \in slots(E, i), NEW q \in slots(E, k),
              record_at(E, i, p).inode = record_at(E, k, q).inode
       PROVE  i = k /\ p = q
  <2>1. /\ i \in DirNodes(D) /\ k \in DirNodes(D)
        /\ was(i, p) \in slots(D, i) /\ was(k, q) \in slots(D, k)
        /\ record_at(D, i, was(i, p)).inode = record_at(D, k, was(k, q)).inode
    BY <1>4, <1>7, <1>16
  <2>2. i = k /\ was(i, p) = was(k, q)
    BY <2>1 DEF TreeForm
  <2> QED BY <1>9, <2>2
<1>17. ASSUME NEW S \in SUBSET (DirNodes(E) \ {root}), S # {}
       PROVE  \E i \in S : parent_of(E, i) \notin S
  <2>1. S \in SUBSET (DirNodes(D) \ {root})
    BY <1>4
  <2>2. PICK i \in S : parent_of(D, i) \notin S
    BY <1>17, <2>1 DEF TreeForm
  <2> QED BY <1>6, <2>2
<1>18. TreeShrunk(D, E, d, pos, f)
  BY <1>4, <1>7, <1>8 DEF TreeShrunk
<1> QED BY <1>2, <1>12, <1>13, <1>14, <1>15, <1>16, <1>17, <1>18 DEF TreeForm

-----------------------------------------------------------------------------
(***************************************************************************)
(* Path names.                                                             *)
(***************************************************************************)
\* Numbers up to n, reached one by one.
LEMMA OneByOne ==
    ASSUME NEW n \in Nat, NEW S, 0 \in S, \A k \in 1 .. n : k - 1 \in S => k \in S
    PROVE  \A k \in 0 .. n : k \in S
<1> PICK T : T = {k \in 0 .. n : k \notin S}
  OBVIOUS
<1>1. ASSUME T # {} PROVE FALSE
  <2> PICK k : k = Min(T)
    OBVIOUS
  <2>1. k \in T /\ \A y \in T : k <= y
    <3>1. T \subseteq Nat
      OBVIOUS
    <3> QED BY <1>1, <3>1, MinIsLeast
  <2>2. k \in 0 .. n /\ k \notin S
    BY <2>1
  <2>3. k \in 1 .. n /\ k - 1 \in 0 .. n /\ ~ (k <= k - 1)
    BY <2>2
  <2>4. k - 1 \in S
    BY <2>1, <2>3
  <2> QED BY <2>2, <2>3, <2>4
<1> QED BY <1>1

\* f lists v0 and what the first m operations of g make of it.
Iterates(f, m, V, v0, g) ==
    /\ f \in [0 .. m -> V] /\ f[0] = v0
    /\ \A k \in 1 .. m : f[k] = g[k][f[k - 1]]

\* A list of m - 1 iterations has one that is longer by one.
LEMMA OneMoreIteration ==
    ASSUME NEW m \in Nat, m # 0, NEW n \in Nat, m <= n, NEW V, NEW v0,
           NEW g \in [1 .. n -> [V -> V]], NEW f, Iterates(f, m - 1, V, v0, g)
    PROVE  \E h : Iterates(h, m, V, v0, g)
<1> PICK w \in V : w = g[m][f[m - 1]]
  <2>1. f[m - 1] \in V /\ g[m] \in [V -> V]
    BY DEF Iterates
  <2> QED BY <2>1
<1> DEFINE h == [k \in 0 .. m |-> IF k = m THEN w ELSE f[k]]
<1>1. \A k \in 0 .. m - 1 : f[k] \in V /\ h[k] = f[k]
  BY DEF Iterates
<1>2. h \in [0 .. m -> V] /\ h[0] = v0 /\ h[m] = w
  <2>1. ASSUME NEW k \in 0 .. m PROVE (IF k = m THEN w ELSE f[k]) \in V
    <3>1. CASE k = m
      BY <3>1
    <3>2. CASE k # m
      <4>1. k \in 0 .. m - 1
        BY <3>2
      <4> QED BY <1>1, <3>2, <4>1
    <3> QED BY <3>1, <3>2
  <2> QED BY <2>1 DEF Iterates
<1>3. ASSUME NEW k \in 1 .. m PROVE h[k] = g[k][h[k - 1]]
  <2>1. k - 1 \in 0 .. m - 1
    OBVIOUS
  <2>2. CASE k = m
    BY <1>1, <1>2, <2>1, <2>2
  <2>3. CASE k # m
    <3>1. k \in 0 .. m - 1 /\ k \in 1 .. m - 1
      BY <2>3
    <3>2. f[k] = g[k][f[k - 1]]
      BY <3>1 DEF Iterates
    <3>3. h[k] = f[k] /\ h[k - 1] = f[k - 1]
      BY <1>1, <2>1, <3>1
    <3> QED BY <3>2, <3>3
  <2> QED BY <2>2, <2>3
<1> HIDE DEF h
<1>4. Iterates(h, m, V, v0, g)
  BY <1>2, <1>3 DEF Iterates
<1> QED BY <1>4

\* Operations that keep V can be repeated from v0 on.
LEMMA Iterate ==
    ASSUME NEW n \in Nat, NEW V, NEW v0 \in V, NEW g \in [1 .. n -> [V -> V]]
    PROVE  \E f : Iterates(f, n, V, v0, g)
<1> PICK S : S = {m \in 0 .. n : \E f : Iterates(f, m, V, v0, g)}
  OBVIOUS
<1>1. \A m : m \in S <=> m \in 0 .. n /\ \E f : Iterates(f, m, V, v0, g)
  OBVIOUS
<1>2. 0 \in S
  <2>1. Iterates([k \in 0 .. 0 |-> v0], 0, V, v0, g)
    BY DEF Iterates
  <2> QED BY <1>1, <2>1
<1>3. ASSUME NEW m \in 1 .. n, m - 1 \in S PROVE m \in S
  <2>1. PICK f : Iterates(f, m - 1, V, v0, g)
    BY <1>1, <1>3
  <2>2. m \in Nat /\ m # 0 /\ m <= n
    OBVIOUS
  <2>3. \E h : Iterates(h, m, V, v0, g)
    BY <2>1, <2>2, OneMoreIteration
  <2> QED BY <1>1, <2>3
<1>4. \A m \in 0 .. n : m \in S
  <2>1. \A m \in 1 .. n : m - 1 \in S => m \in S
    BY <1>3
  <2> QED BY <1>2, <2>1, OneByOne
<1> QED BY <1>1, <1>4

\* A component of a path leads from a directory to a directory, or nowhere.
LEMMA Subdir ==
    ASSUME NEW D \in Disk, TreeForm(D), NEW i \in DirNodes(D), NEW n
    PROVE  /\ subdir(D, i, n) \in DirNodes(D) \cup {NO_DIR}
           /\ n = ".." => subdir(D, i, n) = parent_of(D, i)
           /\ \A p \in slots(D, i) :
                 record_at(D, i, p).type = "dir" /\ record_at(D, i, p).name = n
                     => subdir(D, i, n) = record_at(D, i, p).inode
<1>1. /\ Listing(D, i) /\ DotDot(D, i) /\ i \in Inode
      /\ dsize(D, i) \in Nat /\ dsize(D, i) >= 2 /\ parent_of(D, i) \in DirNodes(D)
  BY InTree
<1> PICK p : p = find_record(D, i, n)
  OBVIOUS
<1>2. Found(D, i, n)
  BY <1>1, Finds
<1>3. p = -1 \/ p = 0 \/ p = 1 \/ p \in slots(D, i)
  BY <1>1, <1>2 DEF Found, slots
<1>4. CASE n = ""
  <2>1. subdir(D, i, n) = i
    BY <1>4 DEF subdir
  <2>2. \A q \in slots(D, i) : record_at(D, i, q).name # n
    BY <1>4, InTree, NameAssumption
  <2> QED BY <1>4, <2>1, <2>2
<1>5. CASE n # "" /\ (p = -1 \/ record_at(D, i, p).type # "dir")
  <2>1. subdir(D, i, n) = NO_DIR
    BY <1>5 DEF subdir
  <2>2. ASSUME NEW q \in 0 .. dsize(D, i) - 1, record_at(D, i, q).name = n
        PROVE  record_at(D, i, q).type # "dir"
    <3>1. p = q
      BY <1>2, <2>2 DEF Found
    <3>2. p # -1
      BY <1>1, <3>1
    <3> QED BY <1>5, <3>1, <3>2
  <2>3. n # ".."
    BY <1>1, <2>2 DEF DotDot
  <2> QED BY <1>1, <2>1, <2>2, <2>3 DEF slots
<1>6. CASE n # "" /\ p # -1 /\ record_at(D, i, p).type = "dir"
  <2>1. subdir(D, i, n) = record_at(D, i, p).inode /\ record_at(D, i, p).name = n
    BY <1>2, <1>6 DEF subdir, Found
  <2>2. \A q \in 0 .. dsize(D, i) - 1 : record_at(D, i, q).name = n => p = q
    BY <1>2 DEF Found
  <2>3. record_at(D, i, p).inode \in DirNodes(D)
    <3>1. CASE p = 0
      BY <1>1, <3>1 DEF Listing
    <3>2. CASE p = 1
      BY <1>1, <3>2 DEF parent_of
    <3>3. CASE p \in slots(D, i)
      BY <1>6, <3>3, InTree
    <3> QED BY <1>3, <1>6, <3>1, <3>2, <3>3
  <2>4. n = ".." => p = 1
    BY <1>1, <2>2 DEF DotDot
  <2>5. \A q \in slots(D, i) : record_at(D, i, q).name = n => p = q
    BY <1>1, <2>2 DEF slots
  <2> QED BY <2>1, <2>3, <2>4, <2>5 DEF parent_of
<1> QED BY <1>4, <1>5, <1>6

\* The directories that paths of up to k components lead to.
Within(D, start, W) ==
    /\ W \in [0 .. NI -> SUBSET DirNodes(D)] /\ W[0] = {start}
    /\ \A k \in 1 .. NI : W[k] = W[k - 1] \cup UNION {subdirs(D, i) : i \in W[k - 1]}

\* The function that find_dir_inode defines exists.
LEMMA SomeWithin ==
    ASSUME NEW D \in Disk, TreeForm(D), NEW start \in DirNodes(D)
    PROVE  \E W : Within(D, start, W)
<1> PICK V : V = SUBSET DirNodes(D)
  OBVIOUS
<1> DEFINE more(X) == X \cup UNION {subdirs(D, i) : i \in X}
<1>1. \A X \in V : more(X) \in V
  <2> SUFFICES ASSUME NEW X \in V, NEW i \in X
               PROVE  subdirs(D, i) \subseteq DirNodes(D)
    OBVIOUS
  <2>1. \A n : subdir(D, i, n) \in DirNodes(D) \cup {NO_DIR}
    BY Subdir
  <2> QED BY <2>1 DEF subdirs
<1> PICK m : m = [X \in V |-> more(X)]
  OBVIOUS
<1> PICK g : g = [k \in 1 .. NI |-> m]
  OBVIOUS
<1>2. m \in [V -> V] /\ g \in [1 .. NI -> [V -> V]] /\ {start} \in V /\ NI \in Nat
  BY <1>1, Sizes
<1>3. PICK W : Iterates(W, NI, V, {start}, g)
  BY <1>2, Iterate
<1>4. /\ W \in [0 .. NI -> V] /\ W[0] = {start}
      /\ \A k \in 1 .. NI : W[k] = g[k][W[k - 1]]
  BY <1>3 DEF Iterates
<1>5. ASSUME NEW k \in 1 .. NI
      PROVE  W[k] = more(W[k - 1])
  <2>1. W[k - 1] \in V /\ g[k] = m
    BY <1>2, <1>4
  <2> QED BY <1>4, <2>1
<1> QED BY <1>4, <1>5 DEF Within

\* find_dir_inode is the last of them.
LEMMA LastWithin ==
    ASSUME NEW D \in Disk, TreeForm(D), NEW start \in DirNodes(D)
    PROVE  \E W : Within(D, start, W) /\ find_dir_inode(D, start) = W[NI]
<1>1. PICK f : Within(D, start, f)
  BY SomeWithin
<1> DEFINE F(g) == [k \in 0 .. NI |-> IF k = 0 THEN {start}
                                      ELSE g[k - 1] \cup UNION {subdirs(D, i) : i \in g[k - 1]}]
           W == CHOOSE g : g = F(g)
<1>2. f = F(f)
  BY <1>1 DEF Within
<1>3. W = F(W)
  BY <1>2, Zenon
<1>4. find_dir_inode(D, start) = W[NI]
  BY Zenon DEF find_dir_inode
<1>5. W[NI] = f[NI]
  <2> PICK U : U = W
    OBVIOUS
  <2> DEFINE grow(X) == X \cup UNION {subdirs(D, i) : i \in X}
  <2>1. /\ U[0] = {start} /\ f[0] = {start}
        /\ \A k \in 1 .. NI : U[k] = grow(U[k - 1]) /\ f[k] = grow(f[k - 1])
    <3>1. U = [k \in 0 .. NI |-> IF k = 0 THEN {start} ELSE grow(U[k - 1])]
      BY <1>3, Zenon
    <3>2. f = [k \in 0 .. NI |-> IF k = 0 THEN {start} ELSE grow(f[k - 1])]
      BY <1>2, Zenon
    <3> HIDE DEF grow
    <3>3. \A k \in 0 .. NI : /\ U[k] = IF k = 0 THEN {start} ELSE grow(U[k - 1])
                             /\ f[k] = IF k = 0 THEN {start} ELSE grow(f[k - 1])
      BY <3>1, <3>2, Zenon
    <3>4. 0 \in 0 .. NI /\ \A k \in 1 .. NI : k \in 0 .. NI /\ k # 0
      BY Sizes
    <3> QED BY <3>3, <3>4, Zenon
  <2> HIDE DEF grow
  <2> PICK S : S = {k \in 0 .. NI : U[k] = f[k]}
    OBVIOUS
  <2>2. \A k \in 0 .. NI : k \in S <=> U[k] = f[k]
    OBVIOUS
  <2>3. 0 \in 0 .. NI /\ NI \in 0 .. NI /\ NI \in Nat
    BY Sizes
  <2>4. 0 \in S
    BY <2>1, <2>2, <2>3, Zenon
  <2>5. ASSUME NEW k \in 1 .. NI, k - 1 \in S PROVE k \in S
    <3>1. k - 1 \in 0 .. NI /\ k \in 0 .. NI
      BY Sizes
    <3>2. U[k - 1] = f[k - 1]
      BY <2>2, <2>5, <3>1
    <3>3. U[k] = grow(U[k - 1]) /\ f[k] = grow(f[k - 1])
      BY <2>1, Zenon
    <3> QED BY <2>2, <3>1, <3>2, <3>3
  <2>6. NI \in S
    BY <2>3, <2>4, <2>5, OneByOne
  <2> QED BY <2>2, <2>3, <2>6
<1> QED BY <1>1, <1>4, <1>5

\* A path leads to every directory, wherever it starts from.
LEMMA Reach ==
    ASSUME NEW D \in Disk, TreeForm(D), NEW start \in DirNodes(D)
    PROVE  find_dir_inode(D, start) = DirNodes(D)
<1> PICK W : Within(D, start, W) /\ find_dir_inode(D, start) = W[NI]
  BY LastWithin
<1>1. /\ W \in [0 .. NI -> SUBSET DirNodes(D)] /\ W[0] = {start}
      /\ \A k \in 1 .. NI : W[k] = W[k - 1] \cup UNION {subdirs(D, i) : i \in W[k - 1]}
  BY DEF Within
<1> DEFINE Closed(X) == \A i \in X : subdirs(D, i) \subseteq X
<1>2. \A k \in 0 .. NI : W[k] \subseteq Inode /\ IsFiniteSet(W[k]) /\ Cardinality(W[k]) \in Nat
  <2>1. IsFiniteSet(Inode)
    BY FS_Interval, Sizes DEF Inode
  <2> SUFFICES ASSUME NEW k \in 0 .. NI
               PROVE  W[k] \subseteq Inode
    BY <2>1, FS_Subset, FS_CardinalityType
  <2> QED BY <1>1, InTree
\* As long as the set is not closed it grows, and there are NI i-nodes.
<1>3. ASSUME NEW k \in 1 .. NI, ~ Closed(W[k - 1])
      PROVE  Cardinality(W[k]) > Cardinality(W[k - 1])
  <2>1. W[k - 1] \subseteq W[k] /\ W[k] # W[k - 1]
    BY <1>1, <1>3
  <2>2. /\ IsFiniteSet(W[k]) /\ Cardinality(W[k]) \in Nat
        /\ Cardinality(W[k - 1]) \in Nat
    <3>1. k \in 0 .. NI /\ k - 1 \in 0 .. NI
      BY Sizes
    <3> QED BY <1>2, <3>1
  <2>3. Cardinality(W[k - 1]) <= Cardinality(W[k])
        /\ Cardinality(W[k - 1]) # Cardinality(W[k])
    <3>1. W[k - 1] \in SUBSET W[k]
      BY <2>1
    <3> QED BY <2>1, <2>2, <3>1, FS_Subset
  <2> QED BY <2>2, <2>3
<1>4. \E k \in 0 .. NI - 1 : Closed(W[k])
  <2> SUFFICES ASSUME \A k \in 0 .. NI - 1 : ~ Closed(W[k])
               PROVE  FALSE
    OBVIOUS
  <2>1. \A k \in 1 .. NI : Cardinality(W[k]) > Cardinality(W[k - 1])
    BY <1>3, Sizes
  <2>2. Cardinality(W[NI]) <= NI
    <3>1. Cardinality(Inode) = NI /\ IsFiniteSet(Inode)
      BY FS_Interval, Sizes DEF Inode
    <3>2. NI \in 0 .. NI
      BY Sizes
    <3> QED BY <1>2, <3>1, <3>2, FS_Subset
  <2> PICK card : card = [k \in 0 .. NI |-> Cardinality(W[k])]
    OBVIOUS
  <2>3. /\ \A k \in 0 .. NI : card[k] \in Nat
        /\ \A k \in 1 .. NI : card[k] > card[k - 1]
        /\ card[NI] <= NI
    BY <1>2, <2>1, <2>2, Sizes
  <2> PICK S : S = {k \in 0 .. NI : card[k] >= k + 1}
    OBVIOUS
  <2>4. \A k \in 0 .. NI : k \in S <=> card[k] >= k + 1
    OBVIOUS
  <2>5. 0 \in S
    <3>1. Cardinality(W[0]) = 1
      BY <1>1, FS_Singleton
    <3>2. 0 \in 0 .. NI
      BY Sizes
    <3> QED BY <2>4, <3>1, <3>2
  <2>6. ASSUME NEW k \in 1 .. NI, k - 1 \in S PROVE k \in S
    <3>1. k - 1 \in 0 .. NI /\ k \in 0 .. NI
      BY Sizes
    <3>2. card[k - 1] >= (k - 1) + 1
      BY <2>4, <2>6, <3>1
    <3>3. card[k] > card[k - 1] /\ card[k] \in Nat /\ card[k - 1] \in Nat
      BY <2>3, <3>1
    <3>4. card[k] >= k + 1
      BY <3>2, <3>3
    <3> QED BY <2>4, <3>1, <3>4
  <2>7. NI \in S /\ NI \in 0 .. NI
    <3>1. \A k \in 1 .. NI : k - 1 \in S => k \in S
      BY <2>6
    <3>2. \A k \in 0 .. NI : k \in S
      BY <2>5, <3>1, OneByOne, Sizes
    <3> QED BY <3>2, Sizes
  <2> QED BY <2>3, <2>4, <2>7, Sizes
\* Once closed it stays as it is.
<1>5. Closed(W[NI])
  <2> PICK k \in 0 .. NI - 1 : Closed(W[k])
    BY <1>4
  <2> PICK S : S = {m \in 0 .. NI : m >= k => Closed(W[m])}
    OBVIOUS
  <2>1. \A m \in 0 .. NI : m \in S <=> (m >= k => Closed(W[m]))
    OBVIOUS
  <2>2. 0 \in S
    <3>1. 0 \in 0 .. NI /\ (0 >= k => k = 0)
      BY Sizes
    <3> QED BY <2>1, <3>1
  <2>3. ASSUME NEW m \in 1 .. NI, m - 1 \in S PROVE m \in S
    <3>1. m - 1 \in 0 .. NI /\ m \in 0 .. NI /\ (m - 1 >= k \/ m = k \/ ~ (m >= k))
      BY Sizes
    <3>2. CASE m - 1 >= k
      <4>1. \A i \in W[m - 1] : subdirs(D, i) \subseteq W[m - 1]
        BY <2>1, <2>3, <3>1, <3>2
      <4> PICK X : X = W[m - 1]
        OBVIOUS
      <4>2. W[m] = X \cup UNION {subdirs(D, i) : i \in X}
        BY <1>1
      <4>3. W[m] = X
        BY <4>1, <4>2
      <4>4. Closed(W[m])
        BY <4>1, <4>3
      <4> QED BY <2>1, <3>1, <4>4
    <3>3. CASE m = k \/ ~ (m >= k)
      BY <2>1, <3>1, <3>3
    <3> QED BY <3>1, <3>2, <3>3
  <2>4. NI \in S
    <3>1. \A m \in 1 .. NI : m - 1 \in S => m \in S
      BY <2>3
    <3>2. \A m \in 0 .. NI : m \in S
      BY <2>2, <3>1, OneByOne, Sizes
    <3> QED BY <3>2, Sizes
  <2>5. NI \in 0 .. NI /\ NI >= k
    BY Sizes
  <2> QED BY <2>1, <2>4, <2>5
<1> PICK F : F = W[NI]
  OBVIOUS
<1>6. F \subseteq DirNodes(D) /\ start \in F /\ Closed(F)
  <2>1. NI \in 0 .. NI
    BY Sizes
  <2>2. start \in W[NI]
    <3> PICK S : S = {m \in 0 .. NI : start \in W[m]}
      OBVIOUS
    <3>1. 0 \in S
      BY <1>1, Sizes
    <3>2. ASSUME NEW m \in 1 .. NI, m - 1 \in S PROVE m \in S
      <4>1. m \in 0 .. NI /\ start \in W[m - 1]
        BY <3>2, Sizes
      <4> QED BY <1>1, <4>1
    <3>3. NI \in S
      BY <3>1, <3>2, OneByOne, Sizes
    <3> QED BY <3>3
  <2> QED BY <1>1, <1>5, <2>1, <2>2
<1> HIDE DEF Closed
<1>7. \A i \in F : \A n \in Name \cup {".", ".."} : subdir(D, i, n) # NO_DIR => subdir(D, i, n) \in F
  BY <1>6 DEF Closed, subdirs
\* Up to the root, and down from it.
<1>8. \A i \in F : parent_of(D, i) \in F
  <2> SUFFICES ASSUME NEW i \in F
               PROVE  parent_of(D, i) \in F
    OBVIOUS
  <2>1. i \in DirNodes(D) /\ parent_of(D, i) \in Nat
    BY <1>6, InTree, DiskFields, Sizes
  <2>2. subdir(D, i, "..") = parent_of(D, i)
    BY <2>1, Subdir
  <2>3. parent_of(D, i) # NO_DIR
    BY <2>1 DEF NO_DIR
  <2> QED BY <1>7, <2>2, <2>3
<1>9. root \in F
  <2> SUFFICES ASSUME root \notin F
               PROVE  FALSE
    OBVIOUS
  <2>1. F \in SUBSET (DirNodes(D) \ {root}) /\ F # {}
    BY <1>6
  <2> QED BY <1>8, <2>1 DEF TreeForm
<1>10. DirNodes(D) \subseteq F
  <2> SUFFICES ASSUME NEW S, S = DirNodes(D) \ F, S # {}
               PROVE  FALSE
    OBVIOUS
  <2>1. S \in SUBSET (DirNodes(D) \ {root})
    BY <1>9
  <2>2. PICK i \in S : parent_of(D, i) \notin S
    BY <2>1 DEF TreeForm
  <2>3. i \in DirNodes(D) /\ i # root /\ i \notin F
    BY <2>1
  <2> PICK k : k = parent_of(D, i)
    OBVIOUS
  <2>4. k \in DirNodes(D) /\ k \in F /\ \E p \in slots(D, k) : record_at(D, k, p).inode = i
    BY <2>2, <2>3, ParentHasEntry
  <2>5. PICK p \in slots(D, k) : record_at(D, k, p).inode = i
    BY <2>4
  <2>6. record_at(D, k, p).type = "dir" /\ record_at(D, k, p).name \in Name
    BY <2>3, <2>4, <2>5, InTree
  <2>7. subdir(D, k, record_at(D, k, p).name) = i
    BY <2>4, <2>5, <2>6, Subdir
  <2>8. i # NO_DIR
    BY <2>3, InTree, Sizes DEF NO_DIR
  <2> QED BY <1>7, <2>3, <2>4, <2>6, <2>7, <2>8
<1> QED BY <1>6, <1>10

-----------------------------------------------------------------------------
(***************************************************************************)
(* The calls that change the disk.                                         *)
(***************************************************************************)
InOrder(D) == D \in Disk /\ BlockForm(D, D.imap) /\ TreeForm(D)

\* What create2 leaves.
LEMMA FileCreated ==
    ASSUME NEW D, InOrder(D), NEW d \in DirNodes(D), NEW n \in Name,
           find_record(D, d, n) = -1, Inode \ D.imap # {}, HasFree(D, append_needs(D, d)),
           NEW c, c = alloc_inode(D),
           NEW E, E = inode_init(append_record([D EXCEPT !.imap = @ \cup {c}], d,
                                               record("file", n, c)), c)
    PROVE  InOrder(E) /\ TreeGrown(D, E, d, record("file", n, c)) /\ c \in Inode
<1>1. /\ D \in Disk /\ BlockForm(D, D.imap) /\ TreeForm(D)
      /\ d \in D.imap /\ Listing(D, d) /\ c \in Inode
  BY InTree, FreeInode DEF InOrder
<1>2. /\ E \in Disk /\ BlockForm(E, E.imap) /\ E.ptr[c] = <<>>
      /\ EntryAdded(D, E, d, record("file", n, c))
  BY <1>1, FileMade
<1> PICK r : r = record("file", n, c)
  OBVIOUS
<1>3. NewEntry(E, d, r)
  <2>1. Fresh(r, "file", n, c)
    BY <1>1, MadeRecords
  <2> QED BY <1>2, <2>1 DEF NewEntry, Fresh
<1> QED BY <1>1, <1>2, <1>3, LeafAdded DEF InOrder

\* What mkdir2 leaves.
LEMMA DirCreated ==
    ASSUME NEW D, InOrder(D), NEW d \in DirNodes(D), NEW n \in Name,
           find_record(D, d, n) = -1, Inode \ D.imap # {}, HasFree(D, append_needs(D, d) + 1),
           NEW c, c = alloc_inode(D), NEW E, E = create_dir(D, d, n)
    PROVE  InOrder(E) /\ TreeGrown(D, E, d, record("dir", n, c)) /\ c \in Inode
<1>1. /\ D \in Disk /\ BlockForm(D, D.imap) /\ TreeForm(D) /\ root \in D.imap
      /\ d \in D.imap /\ d \in Inode /\ Listing(D, d) /\ c \in Inode
  BY InTree, FreeInode DEF InOrder, TreeForm, DirNodes
<1>2. /\ E \in Disk /\ BlockForm(E, E.imap)
      /\ EntryAdded(D, E, d, record("dir", n, c))
      /\ Listing(E, c) /\ dsize(E, c) = 2
      /\ record_at(E, c, 1) = record("dir", "..", d)
  BY <1>1, DirMade
<1> PICK r : r = record("dir", n, c)
  OBVIOUS
<1>3. NewEntry(E, d, r)
  <2>1. Fresh(r, "dir", n, c)
    BY <1>1, MadeRecords
  <2> PICK rr : rr = record("dir", "..", d)
    OBVIOUS
  <2>2. Fresh(rr, "dir", "..", d)
    BY <1>1, MadeRecords
  <2> QED BY <1>2, <2>1, <2>2 DEF NewEntry, Fresh
<1> QED BY <1>1, <1>2, <1>3, LeafAdded DEF InOrder

\* What delete2 and rmdir2 leave.
LEMMA EntryDeleted ==
    ASSUME NEW D, InOrder(D), NEW d \in DirNodes(D), NEW pos \in slots(D, d),
           NEW f, f = record_at(D, d, pos).inode, f \in DirNodes(D) => dsize(D, f) = 2,
           NEW E, E = remove_record(deep_free_inode(D, f), d, pos)
    PROVE  InOrder(E) /\ TreeShrunk(D, E, d, pos, f)
<1>1. /\ D \in Disk /\ BlockForm(D, D.imap) /\ TreeForm(D)
      /\ d \in D.imap /\ Listing(D, d) /\ dsize(D, d) \in Nat
  BY InTree DEF InOrder
<1>2. pos \in 1 .. dsize(D, d) - 1
  BY <1>1 DEF slots
<1>3. f \in D.imap \ {d}
  <2>1. f \in D.imap \ {root} /\ (f \in DirNodes(D) => parent_of(D, f) = d)
    BY <1>1, InTree
  <2> QED BY <1>1, <2>1, ParentHasEntry
<1>4. E \in Disk /\ BlockForm(E, E.imap) /\ EntryRemoved(D, E, d, pos, f)
  BY <1>1, <1>2, <1>3, EntryTaken
<1> QED BY <1>1, <1>4, LeafRemoved DEF InOrder
=============================================================================

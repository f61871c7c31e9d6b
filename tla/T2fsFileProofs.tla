------------------------- MODULE T2fsFileProofs -----------------------------
(***************************************************************************)
(* Proofs about T2fsFile, for any number of files, any sizes and any bytes *)
(* written: what is stored is what was written, handles agree with their   *)
(* records, and blocks have one file each.                                 *)
(*                                                                         *)
(* The inductive invariant IInv is below, after the lemmas that follow     *)
(* write2 through its loop.  write_blocks is a recursive function; Rounds  *)
(* needs its values one after the other up to a fixed number and no rule   *)
(* of induction (OneByOne).                                                *)
(***************************************************************************)
EXTENDS T2fsFile, T2fsBitmapProofs, FiniteSetTheorems, SequenceTheorems

(***************************************************************************)
(* Assumptions, and the form of a disk.                                    *)
(***************************************************************************)
\* Files may outgrow their direct pointers.
Big == MaxBytes > DIRECT * BS

\* If they do, they end before the single indirect block is full, and the
\* addresses that are stored there fit the BYTE they are read back through.
Fits == Big => MaxBytes <= (DIRECT + PTRS) * BS /\ NBYTES * BITS <= BYTE

\* What i-nodes, records and handles hold; Bounded says more of the numbers of
\* blocks.
FileInode == [direct : [0 .. DIRECT - 1 -> Address], single : Address, double : {NULL_BLOCK}]
FileRec   == [exists : BOOLEAN, bytes : 0 .. MaxBytes, blocks : Nat]
Handle    == [busy : BOOLEAN, pointer : 0 .. MaxBytes, bytes : 0 .. MaxBytes, blocks : Nat]

\* Every part of a disk has its form, whatever the blocks hold.
DiskForm(D) ==
    /\ D = [bmap |-> D.bmap, blk |-> D.blk, inode |-> D.inode, rec |-> D.rec]
    /\ D.bmap \in Bitmap /\ DOMAIN D.blk = Block
    /\ D.inode \in [File -> FileInode] /\ D.rec \in [File -> FileRec]

\* The same of all variables.
StateForm ==
    /\ DiskForm(disk) /\ file \in [File -> Handle] /\ torn \subseteq File
    /\ wrote \in [File -> [Offset -> Value \cup {unwritten}]]

\* The blocks of file f on disk D, and its indirect block.
owns(D, f) == data_blocks(D, f) \cup ({D.inode[f].single} \ {NULL_BLOCK})

\* The direct pointers are set from the first on and lead to different blocks,
\* the single indirect one to a block of pointers that none of them leads to.
InodeForm(D, f) ==
    LET i == D.inode[f]
    IN  /\ \A j, k \in 0 .. DIRECT - 1 : j < k /\ i.direct[k] # NULL_BLOCK => i.direct[j] # NULL_BLOCK
        /\ \A j, k \in 0 .. DIRECT - 1 : i.direct[j] = i.direct[k] /\ i.direct[k] # NULL_BLOCK => j = k
        /\ i.single # NULL_BLOCK => /\ D.blk[i.single] \in Pointers
                                    /\ \A k \in 0 .. DIRECT - 1 : i.direct[k] # i.single

\* The blocks of the files in F are marked, and no two files share one.
Separate(D, F) ==
    /\ \A f \in F : InodeForm(D, f) /\ owns(D, f) \subseteq bits(D.bmap)
    /\ \A f, g \in F : f # g => owns(D, f) \cap owns(D, g) = {}

\* The file has n blocks: the first n of its direct pointers and of those in its
\* indirect block are set and no others, all to different blocks.
Exact(D, f, n) ==
    LET i == D.inode[f]
        p == D.blk[i.single]
    IN  /\ n \in 0 .. DIRECT + PTRS
        /\ \A k \in 0 .. DIRECT - 1 : i.direct[k] # NULL_BLOCK <=> k < n
        /\ i.single # NULL_BLOCK <=> n > DIRECT
        /\ n > DIRECT =>
              /\ \A k \in 0 .. PTRS - 1 : p[k] # NULL_BLOCK <=> DIRECT + k < n
              /\ \A j, k \in 0 .. PTRS - 1 : p[j] = p[k] /\ p[k] # NULL_BLOCK => j = k
              /\ \A k \in 0 .. PTRS - 1 : p[k] # i.single
              /\ \A k \in 0 .. PTRS - 1 : \A j \in 0 .. DIRECT - 1 : i.direct[j] # p[k] \/ p[k] = NULL_BLOCK

-----------------------------------------------------------------------------
(***************************************************************************)
(* Freeing blocks.                                                         *)
(***************************************************************************)
\* The bits of a bitmap tell the bitmap.
LEMMA SameBits ==
    ASSUME NEW m \in Bitmap, NEW n \in Bitmap, bits(m) = bits(n)
    PROVE  m = n
<1>1. ASSUME NEW j \in Byte, NEW k \in Bit PROVE k \in m[j] <=> k \in n[j]
  <2>1. /\ j * BITS + k \in Bits
        /\ (j * BITS + k) \div BITS = j /\ (j * BITS + k) % BITS = k
    BY Join
  <2>2. j * BITS + k \in bits(m) <=> j * BITS + k \in bits(n)
    OBVIOUS
  <2> QED BY <2>1, <2>2 DEF bits
<1>2. \A j \in Byte : m[j] = n[j]
  <2> SUFFICES ASSUME NEW j \in Byte PROVE m[j] = n[j]
    OBVIOUS
  <2>1. m[j] \subseteq Bit /\ n[j] \subseteq Bit
    BY DEF Bitmap
  <2> QED BY <1>1, <2>1
<1> QED BY <1>2 DEF Bitmap

\* What holds of 0 and, with each number, of the next one holds up to n.
LEMMA OneByOne ==
    ASSUME NEW n \in Nat, NEW S, 0 \in S, \A k \in 1 .. n : k - 1 \in S => k \in S
    PROVE  \A k \in 0 .. n : k \in S
<1> PICK T : T = {k \in 0 .. n : k \notin S}
  OBVIOUS
<1>1. ASSUME T # {} PROVE FALSE
  <2>1. PICK k \in T : \A y \in T : k <= y
    <3>1. T \subseteq Nat
      OBVIOUS
    <3> QED BY <1>1, <3>1, LeastIsLeast
  <2>2. k \in 1 .. n /\ k \notin S
    OBVIOUS
  <2>3. k - 1 \in 0 .. n /\ ~ (k <= k - 1)
    BY <2>2
  <2>4. k - 1 \in S
    BY <2>1, <2>3
  <2> QED BY <2>2, <2>4
<1> QED BY <1>1

\* map without the bits of s.
without(map, s) == [j \in Byte |-> {k \in map[j] : j * BITS + k \notin s}]

\* without is a bitmap, and clears the bits of s alone.
LEMMA WithoutBits ==
    ASSUME NEW map \in Bitmap, NEW s \in SUBSET Bits
    PROVE  without(map, s) \in Bitmap /\ bits(without(map, s)) = bits(map) \ s
<1>1. \A j \in Byte : map[j] \subseteq Bit
  BY DEF Bitmap
<1>2. without(map, s) \in Bitmap
  BY <1>1 DEF without, Bitmap
<1>3. ASSUME NEW a \in Bits PROVE a \in bits(without(map, s)) <=> a \in bits(map) /\ a \notin s
  <2>1. a \div BITS \in Byte /\ a % BITS \in Bit /\ a = (a \div BITS) * BITS + (a % BITS)
    BY Split
  <2> PICK j, k : j = a \div BITS /\ k = a % BITS
    OBVIOUS
  <2>2. j \in Byte /\ a = j * BITS + k
    BY <2>1
  <2>3. k \in without(map, s)[j] <=> k \in map[j] /\ j * BITS + k \notin s
    BY <2>2 DEF without
  <2> QED BY <2>2, <2>3 DEF bits
<1> QED BY <1>2, <1>3 DEF bits

\* free_blocks clears the bits of its blocks, in whatever order it goes through
\* them.
LEMMA FoldClears ==
    ASSUME NEW map \in Bitmap, NEW B \in SUBSET Bits
    PROVE  FoldSet(LAMBDA b, m : clear_bit(m, b), map, B) = without(map, B)
<1> DEFINE pick(s) == CHOOSE x \in s : TRUE
           F(h) == [s \in SUBSET B |-> IF s = {} THEN map ELSE clear_bit(h[s \ {pick(s)}], pick(s))]
           W == CHOOSE h : h = F(h)
           g == [s \in SUBSET B |-> without(map, s)]
<1>1. FoldSet(LAMBDA b, m : clear_bit(m, b), map, B) = W[B]
  BY DEF FoldSet, MapThenFoldSet
<1>2. ASSUME NEW s \in SUBSET B, s # {} PROVE pick(s) \in s
  BY <1>2
<1> HIDE DEF pick
<1>3. ASSUME NEW s \in SUBSET B, s # {}
      PROVE  clear_bit(without(map, s \ {pick(s)}), pick(s)) = without(map, s)
  <2> PICK x \in s : x = pick(s)
    BY <1>2, <1>3
  <2>1. s \in SUBSET Bits /\ s \ {x} \in SUBSET Bits /\ x \in Bits
    OBVIOUS
  <2> PICK m : m = without(map, s \ {x})
    OBVIOUS
  <2>2. m \in Bitmap /\ bits(m) = bits(map) \ (s \ {x})
    BY <2>1, WithoutBits
  <2>3. clear_bit(m, x) \in Bitmap /\ bits(clear_bit(m, x)) = bits(m) \ {x}
    BY <2>1, <2>2, ClearsOne
  <2>4. without(map, s) \in Bitmap /\ bits(without(map, s)) = bits(map) \ s
    BY <2>1, WithoutBits
  <2>5. bits(clear_bit(m, x)) = bits(without(map, s))
    BY <2>2, <2>3, <2>4
  <2> QED BY <2>3, <2>4, <2>5, SameBits
<1>4. without(map, {}) = map
  <2>1. without(map, {}) \in Bitmap /\ bits(without(map, {})) = bits(map)
    BY WithoutBits
  <2> QED BY <2>1, SameBits
<1>5. g = F(g)
  <2>1. ASSUME NEW s \in SUBSET B
        PROVE  g[s] = IF s = {} THEN map ELSE clear_bit(g[s \ {pick(s)}], pick(s))
    BY <1>3, <1>4
  <2> QED BY <2>1
<1>6. W = F(W)
  <2> HIDE DEF F, g
  <2> QED BY <1>5
<1> PICK U : U = W
  OBVIOUS
<1>7. \A s \in SUBSET B : U[s] = IF s = {} THEN map ELSE clear_bit(U[s \ {pick(s)}], pick(s))
  <2> SUFFICES ASSUME NEW s \in SUBSET B
               PROVE  U[s] = IF s = {} THEN map ELSE clear_bit(U[s \ {pick(s)}], pick(s))
    OBVIOUS
  <2>1. U = F(U)
    BY <1>6
  <2>2. F(U)[s] = IF s = {} THEN map ELSE clear_bit(U[s \ {pick(s)}], pick(s))
    BY Zenon
  <2> HIDE DEF W, F
  <2>3. U[s] = F(U)[s]
    BY <2>1, Zenon
  <2> QED BY <2>2, <2>3
<1> HIDE DEF W, F, g
<1>8. IsFiniteSet(B)
  <2>1. IsFiniteSet(Bits)
    <3>1. NBYTES * BITS - 1 \in Int
      BY BitmapAssumption
    <3> QED BY <3>1, FS_Interval DEF Bits
  <2> QED BY <2>1, FS_Subset
<1> PICK n \in Nat : n = Cardinality(B)
  BY <1>8, FS_CardinalityType
<1> PICK S : S = {m \in 0 .. n : \A s \in SUBSET B : Cardinality(s) = m => U[s] = without(map, s)}
  OBVIOUS
<1>9. 0 \in S
  <2>1. ASSUME NEW s \in SUBSET B, Cardinality(s) = 0 PROVE U[s] = without(map, s)
    <3>1. s = {}
      BY <1>8, <2>1, FS_Subset, FS_EmptySet
    <3> QED BY <1>4, <1>7, <3>1
  <2> QED BY <2>1
<1>10. ASSUME NEW k \in 1 .. n, k - 1 \in S PROVE k \in S
  <2>1. ASSUME NEW s \in SUBSET B, Cardinality(s) = k PROVE U[s] = without(map, s)
    <3>1. IsFiniteSet(s)
      BY <1>8, FS_Subset
    <3>2. s # {}
      BY <2>1, <3>1, FS_EmptySet
    <3>3. Cardinality(s \ {pick(s)}) = k - 1 /\ s \ {pick(s)} \in SUBSET B
      BY <1>2, <2>1, <3>1, <3>2, FS_RemoveElement
    <3>4. U[s \ {pick(s)}] = without(map, s \ {pick(s)})
      BY <1>10, <3>3
    <3> QED BY <1>3, <1>7, <3>2, <3>4
  <2> QED BY <2>1
<1>11. n \in S
  <2>1. \A k \in 0 .. n : k \in S
    BY <1>9, <1>10, OneByOne
  <2> QED BY <2>1
<1> QED BY <1>1, <1>11

\* What freeing blocks does to a disk.
LEMMA BlocksFreed ==
    ASSUME NEW D, DiskForm(D), NEW B \in SUBSET Block, NEW E, E = free_blocks(D, B)
    PROVE  /\ DiskForm(E) /\ E.blk = D.blk /\ E.inode = D.inode /\ E.rec = D.rec
           /\ bits(E.bmap) = bits(D.bmap) \ B
<1> PICK map \in Bitmap : map = D.bmap
  BY DEF DiskForm
<1> PICK m : m = without(map, B)
  OBVIOUS
<1>1. m \in Bitmap /\ bits(m) = bits(map) \ B
  BY WithoutBits DEF Block
<1>2. FoldSet(LAMBDA b, n : clear_bit(n, b), map, B) = m
  BY FoldClears DEF Block
<1>3. E = [D EXCEPT !.bmap = m]
  BY <1>2 DEF free_blocks
<1>4. E = [bmap |-> m, blk |-> D.blk, inode |-> D.inode, rec |-> D.rec]
  BY <1>3 DEF DiskForm
<1> QED BY <1>1, <1>4 DEF DiskForm

-----------------------------------------------------------------------------
(***************************************************************************)
(* Offsets and blocks.                                                     *)
(***************************************************************************)
\* What the assumptions say of the numbers.
LEMMA Sizes ==
    /\ BS \in Nat /\ BS > 0 /\ DIRECT \in Nat /\ DIRECT > 0 /\ PTRS \in Nat /\ PTRS > 0
    /\ BYTE \in Nat /\ BYTE > 0 /\ MaxBytes \in Nat /\ MaxIO \in Nat
    /\ Block \subseteq Nat /\ NULL_BLOCK = -1 /\ NULL_BLOCK \notin Block
    /\ \A b \in Block : b < NBYTES * BITS
<1>1. NBYTES * BITS \in Nat
  BY BitmapAssumption
<1>2. Block \subseteq Nat /\ \A b \in Block : b < NBYTES * BITS
  BY <1>1 DEF Block, Bits
<1> QED BY <1>2, SizesAssumption DEF NULL_BLOCK, no_bit

\* A disk that may fill up has files without an indirect pointer.
LEMMA BigHasRoom == Big => ~FullDisk
<1>1. DIRECT * BS \in Nat
  <2>1. DIRECT \in Nat /\ BS \in Nat
    BY Sizes
  <2> QED BY <2>1, SMTT(20)
<1> QED BY <1>1, Sizes, FullDiskAssumption DEF Big

\* An offset is a block of the file and a place in that block.
LEMMA OffsetSplits ==
    ASSUME NEW o \in Nat
    PROVE  /\ o \div BS \in Nat /\ o % BS \in 0 .. BS - 1
           /\ o = (o \div BS) * BS + (o % BS) /\ (o \div BS) * BS \in Nat
<1>1. BS \in Nat /\ BS > 0
  BY Sizes
<1>2. o % BS \in 0 .. BS - 1 /\ o \div BS \in Int /\ o = (o \div BS) * BS + (o % BS)
  BY <1>1, SMTT(20)
<1> DEFINE q == o \div BS
<1>3. q \in Int
  BY <1>2
<1> HIDE DEF q
<1>4. q * BS <= o /\ o < q * BS + BS
  BY <1>1, <1>2, SMTT(20) DEF q
<1>5. q >= 0
  BY <1>1, <1>3, <1>4, SMTT(20)
<1>6. q * BS \in Nat
  BY <1>1, <1>3, <1>5, SMTT(20)
<1> QED BY <1>1, <1>2, <1>3, <1>5, <1>6 DEF q

\* A block of the file and a place in it are an offset.
LEMMA OffsetJoins ==
    ASSUME NEW q \in Nat, NEW r \in 0 .. BS - 1
    PROVE  q * BS + r \in Nat /\ (q * BS + r) \div BS = q /\ (q * BS + r) % BS = r
<1>1. BS \in Nat /\ BS > 0 /\ r \in Nat /\ r < BS
  BY Sizes
<1>2. q * BS \in Nat
  BY <1>1, SMTT(20)
<1>3. (q * BS + r) \div BS = q /\ (q * BS + r) % BS = r
  BY <1>1, SMTT(20)
<1> QED BY <1>1, <1>2, <1>3

\* How many blocks n bytes take.
LEMMA Ceil ==
    ASSUME NEW q \in Nat, NEW r \in 0 .. BS - 1
    PROVE  ceil(q * BS + r) = IF r = 0 THEN q ELSE q + 1
<1>1. BS \in Nat /\ BS > 0 /\ r \in Nat /\ r < BS /\ q * BS \in Nat
  <2>1. BS \in Nat /\ BS > 0
    BY Sizes
  <2> QED BY <2>1, SMTT(20)
<1>2. CASE r = 0
  <2>1. BS - 1 \in 0 .. BS - 1
    BY <1>1
  <2>2. (q * BS + (BS - 1)) \div BS = q
    BY <2>1, OffsetJoins
  <2>3. q * BS + r + BS - 1 = q * BS + (BS - 1)
    BY <1>1, <1>2
  <2> QED BY <1>2, <2>2, <2>3 DEF ceil
<1>3. CASE r # 0
  <2>1. r - 1 \in 0 .. BS - 1 /\ q + 1 \in Nat
    BY <1>1, <1>3
  <2>2. ((q + 1) * BS + (r - 1)) \div BS = q + 1
    BY <2>1, OffsetJoins
  <2>3. (q + 1) * BS = q * BS + BS
    BY <1>1, SMTT(20)
  <2>4. q * BS + r + BS - 1 = (q + 1) * BS + (r - 1)
    BY <1>1, <2>3
  <2> QED BY <1>3, <2>2, <2>4 DEF ceil
<1> QED BY <1>2, <1>3

\* Multiples of the size of a block keep the order.
LEMMA BlocksOrdered ==
    ASSUME NEW j \in Nat, NEW k \in Nat, j < k
    PROVE  j * BS \in Nat /\ k * BS \in Nat /\ j * BS + BS <= k * BS
<1>1. BS \in Nat /\ BS > 0
  BY Sizes
<1>2. j * BS \in Nat /\ k * BS \in Nat /\ (j + 1) * BS = j * BS + BS
  BY <1>1, SMTT(20)
<1>3. (j + 1) * BS <= k * BS
  BY <1>1, SMTT(20)
<1> QED BY <1>2, <1>3

\* n bytes fit in k blocks exactly when ceil(n) <= k, and the block of an
\* offset is below k exactly when the offset is below k blocks.
LEMMA CeilBound ==
    ASSUME NEW n \in Nat, NEW k \in Nat
    PROVE  /\ ceil(n) \in Nat /\ k * BS \in Nat
           /\ ceil(n) <= k <=> n <= k * BS
           /\ n \div BS < k <=> n < k * BS
<1> PICK q \in Nat, r \in 0 .. BS - 1 : n = q * BS + r /\ q = n \div BS
  BY OffsetSplits
<1>1. ceil(n) = IF r = 0 THEN q ELSE q + 1
  BY Ceil
<1>2. BS \in Nat /\ BS > 0 /\ q * BS \in Nat /\ k * BS \in Nat /\ r < BS /\ r >= 0
  <2>1. BS \in Nat /\ BS > 0
    BY Sizes
  <2>2. q * BS \in Nat /\ k * BS \in Nat
    BY <2>1, SMTT(20)
  <2> QED BY <2>1, <2>2
<1>3. CASE q < k
  <2>1. q * BS + BS <= k * BS
    BY <1>3, BlocksOrdered
  <2> QED BY <1>1, <1>2, <1>3, <2>1
<1>4. CASE q = k
  BY <1>1, <1>2, <1>4
<1>5. CASE q > k
  <2>1. k * BS + BS <= q * BS
    BY <1>5, BlocksOrdered
  <2> QED BY <1>1, <1>2, <1>5, <2>1
<1> QED BY <1>3, <1>4, <1>5

\* More bytes take no fewer blocks.
LEMMA CeilMonotone ==
    ASSUME NEW m \in Nat, NEW n \in Nat, m <= n
    PROVE  ceil(m) \in Nat /\ ceil(n) \in Nat /\ ceil(m) <= ceil(n)
<1>1. ceil(m) \in Nat /\ ceil(n) \in Nat
  BY CeilBound
<1>2. n <= ceil(n) * BS /\ ceil(n) * BS \in Nat
  BY <1>1, CeilBound
<1>3. m <= ceil(n) * BS
  BY <1>2
<1> QED BY <1>1, <1>3, CeilBound

-----------------------------------------------------------------------------
(***************************************************************************)
(* What an assignment to a part of the disk changes.                       *)
(***************************************************************************)
\* An i-node from its fields, and its fields.
LEMMA InodeFields ==
    ASSUME NEW i \in FileInode
    PROVE  /\ i = [direct |-> i.direct, single |-> i.single, double |-> i.double]
           /\ i.direct \in [0 .. DIRECT - 1 -> Address] /\ i.single \in Address
           /\ i.double = NULL_BLOCK
BY DEF FileInode

\* A disk from its parts.
LEMMA DiskFields ==
    ASSUME NEW D, DiskForm(D)
    PROVE  /\ D = [bmap |-> D.bmap, blk |-> D.blk, inode |-> D.inode, rec |-> D.rec]
           /\ D.bmap \in Bitmap /\ DOMAIN D.blk = Block /\ bits(D.bmap) \subseteq Block
           /\ D.inode \in [File -> FileInode] /\ D.rec \in [File -> FileRec]
           /\ \A f \in File : /\ D.inode[f] \in FileInode
                              /\ D.inode[f].direct \in [0 .. DIRECT - 1 -> Address]
                              /\ D.inode[f].single \in Address
<1>1. \A f \in File : D.inode[f] \in FileInode
  BY DEF DiskForm
<1>2. bits(D.bmap) \subseteq Block
  BY DEF bits, Block
<1> QED BY <1>1, <1>2, InodeFields DEF DiskForm

\* alloc_block, and marking what it found.
LEMMA Allocated ==
    ASSUME NEW D, DiskForm(D), NEW b, b = alloc_block(D)
    PROVE  /\ b \in Address /\ (b = NULL_BLOCK <=> bits(D.bmap) = Block)
           /\ b # NULL_BLOCK => b \in Block \ bits(D.bmap)
<1>1. D.bmap \in Bitmap
  BY DEF DiskForm
<1> QED BY <1>1, AllocatesLeast DEF alloc_block, Block, NULL_BLOCK, Address

\* mark sets the bit of its block; NULL_BLOCK has none.
LEMMA Marked ==
    ASSUME NEW D, DiskForm(D), NEW b \in Address, NEW E, E = mark(D, b)
    PROVE  /\ DiskForm(E) /\ E.blk = D.blk /\ E.inode = D.inode /\ E.rec = D.rec
           /\ bits(E.bmap) = bits(D.bmap) \cup ({b} \ {NULL_BLOCK})
<1>1. CASE b = NULL_BLOCK
  BY <1>1 DEF mark
<1>2. CASE b # NULL_BLOCK
  <2>1. b \in Bits /\ D.bmap \in Bitmap
    BY <1>2 DEF Address, Block, DiskForm
  <2> PICK m : m = set_bit(D.bmap, b)
    OBVIOUS
  <2>2. m \in Bitmap /\ bits(m) = bits(D.bmap) \cup {b}
    BY <2>1, SetsOne
  <2>3. E = [D EXCEPT !.bmap = m]
    BY <1>2 DEF mark
  <2>4. E = [bmap |-> m, blk |-> D.blk, inode |-> D.inode, rec |-> D.rec]
    BY <2>3 DEF DiskForm
  <2> QED BY <1>2, <2>2, <2>4 DEF DiskForm
<1> QED BY <1>1, <1>2

\* The assignments of create_next_file_block and write_block.
set_block(D, b, data)   == [D EXCEPT !.blk[b] = data]
set_direct(D, f, s, b)  == [D EXCEPT !.inode[f].direct[s] = b]
set_single(D, f, b)     == [D EXCEPT !.inode[f].single = b]
set_pointer(D, c, s, b) == [D EXCEPT !.blk[c][s] = b]

\* Setting one block.
LEMMA BlockSet ==
    ASSUME NEW D, DiskForm(D), NEW b \in Block, NEW data, NEW E, E = set_block(D, b, data)
    PROVE  /\ DiskForm(E) /\ E.bmap = D.bmap /\ E.inode = D.inode /\ E.rec = D.rec
           /\ E.blk[b] = data /\ \A c \in Block \ {b} : E.blk[c] = D.blk[c]
<1> E = [D EXCEPT !.blk[b] = data]
  BY DEF set_block
<1>1. DOMAIN D = {"bmap", "blk", "inode", "rec"}
  BY DEF DiskForm
<1>2. E.bmap = D.bmap /\ E.inode = D.inode /\ E.rec = D.rec
  BY <1>1
<1>3. E.blk = [D.blk EXCEPT ![b] = data]
  BY <1>1
<1>4. E = [bmap |-> E.bmap, blk |-> E.blk, inode |-> E.inode, rec |-> E.rec]
  BY <1>1
<1>5. E.blk[b] = data /\ DOMAIN E.blk = Block /\ \A c \in Block \ {b} : E.blk[c] = D.blk[c]
  BY <1>3 DEF DiskForm
<1> QED BY <1>2, <1>4, <1>5 DEF DiskForm

\* Setting one direct pointer.
LEMMA DirectSet ==
    ASSUME NEW D, DiskForm(D), NEW f \in File, NEW s \in 0 .. DIRECT - 1, NEW b \in Address,
           NEW E, E = set_direct(D, f, s, b)
    PROVE  /\ DiskForm(E) /\ E.bmap = D.bmap /\ E.blk = D.blk /\ E.rec = D.rec
           /\ \A g \in File \ {f} : E.inode[g] = D.inode[g]
           /\ E.inode[f].single = D.inode[f].single
           /\ E.inode[f].direct[s] = b
           /\ \A k \in (0 .. DIRECT - 1) \ {s} : E.inode[f].direct[k] = D.inode[f].direct[k]
<1> E = [D EXCEPT !.inode[f].direct[s] = b]
  BY DEF set_direct
<1>1. DOMAIN D = {"bmap", "blk", "inode", "rec"}
  BY DEF DiskForm
<1>2. E.bmap = D.bmap /\ E.blk = D.blk /\ E.rec = D.rec
  BY <1>1
<1>3. E.inode = [D.inode EXCEPT ![f].direct[s] = b]
  BY <1>1
<1>4. E = [bmap |-> E.bmap, blk |-> E.blk, inode |-> E.inode, rec |-> E.rec]
  BY <1>1
<1> PICK i : i = D.inode[f]
  OBVIOUS
<1>5. D.inode \in [File -> FileInode] /\ i \in FileInode
  BY DEF DiskForm
<1> PICK j : j = [i EXCEPT !.direct[s] = b]
  OBVIOUS
<1>6. i = [direct |-> i.direct, single |-> i.single, double |-> i.double]
      /\ i.direct \in [0 .. DIRECT - 1 -> Address] /\ i.single \in Address /\ i.double = NULL_BLOCK
  BY <1>5, InodeFields
<1>7. j.direct = [i.direct EXCEPT ![s] = b] /\ j.single = i.single /\ j.double = i.double
      /\ j = [direct |-> j.direct, single |-> j.single, double |-> j.double]
  <2>1. DOMAIN i = {"direct", "single", "double"}
    BY <1>6
  <2> QED BY <2>1
<1>8. j.direct \in [0 .. DIRECT - 1 -> Address] /\ j.direct[s] = b
      /\ \A k \in (0 .. DIRECT - 1) \ {s} : j.direct[k] = i.direct[k]
  BY <1>6, <1>7
<1>9. j \in FileInode
  BY <1>6, <1>7, <1>8 DEF FileInode
<1>10. E.inode = [D.inode EXCEPT ![f] = j]
  BY <1>3
<1>11. E.inode \in [File -> FileInode] /\ E.inode[f] = j
       /\ \A g \in File \ {f} : E.inode[g] = D.inode[g]
  BY <1>5, <1>9, <1>10
<1> QED BY <1>2, <1>4, <1>7, <1>8, <1>11 DEF DiskForm

\* Setting the indirect pointer.
LEMMA SingleSet ==
    ASSUME NEW D, DiskForm(D), NEW f \in File, NEW b \in Address,
           NEW E, E = set_single(D, f, b)
    PROVE  /\ DiskForm(E) /\ E.bmap = D.bmap /\ E.blk = D.blk /\ E.rec = D.rec
           /\ \A g \in File \ {f} : E.inode[g] = D.inode[g]
           /\ E.inode[f].single = b /\ E.inode[f].direct = D.inode[f].direct
<1> E = [D EXCEPT !.inode[f].single = b]
  BY DEF set_single
<1>1. DOMAIN D = {"bmap", "blk", "inode", "rec"}
  BY DEF DiskForm
<1>2. E.bmap = D.bmap /\ E.blk = D.blk /\ E.rec = D.rec
  BY <1>1
<1>3. E.inode = [D.inode EXCEPT ![f].single = b]
  BY <1>1
<1>4. E = [bmap |-> E.bmap, blk |-> E.blk, inode |-> E.inode, rec |-> E.rec]
  BY <1>1
<1> PICK i : i = D.inode[f]
  OBVIOUS
<1>5. D.inode \in [File -> FileInode] /\ i \in FileInode
  BY DEF DiskForm
<1> PICK j : j = [i EXCEPT !.single = b]
  OBVIOUS
<1>6. i = [direct |-> i.direct, single |-> i.single, double |-> i.double]
      /\ i.direct \in [0 .. DIRECT - 1 -> Address] /\ i.single \in Address /\ i.double = NULL_BLOCK
  BY <1>5, InodeFields
<1>7. j.direct = i.direct /\ j.single = b /\ j.double = i.double
      /\ j = [direct |-> j.direct, single |-> j.single, double |-> j.double]
  <2>1. DOMAIN i = {"direct", "single", "double"}
    BY <1>6
  <2> QED BY <2>1
<1>9. j \in FileInode
  BY <1>6, <1>7 DEF FileInode
<1>10. E.inode = [D.inode EXCEPT ![f] = j]
  BY <1>3
<1>11. E.inode \in [File -> FileInode] /\ E.inode[f] = j
       /\ \A g \in File \ {f} : E.inode[g] = D.inode[g]
  BY <1>5, <1>9, <1>10
<1> QED BY <1>2, <1>4, <1>7, <1>11 DEF DiskForm

\* Disk E is D with pointer s of the indirect block c set to b.
PointerSet(D, c, s, b, E) ==
    /\ DiskForm(E) /\ E.bmap = D.bmap /\ E.inode = D.inode /\ E.rec = D.rec
    /\ E.blk[c] \in Pointers /\ E.blk[c][s] = b
    /\ \A k \in (0 .. PTRS - 1) \ {s} : E.blk[c][k] = D.blk[c][k]
    /\ \A x \in Block \ {c} : E.blk[x] = D.blk[x]

\* Setting a pointer in an indirect block.
LEMMA IndirectSet ==
    ASSUME NEW D, DiskForm(D), NEW c \in Block, D.blk[c] \in Pointers, NEW s \in 0 .. PTRS - 1,
           NEW b \in Address, NEW E, E = set_pointer(D, c, s, b)
    PROVE  PointerSet(D, c, s, b, E)
<1> E = [D EXCEPT !.blk[c][s] = b]
  BY DEF set_pointer
<1> PICK p : p = [D.blk[c] EXCEPT ![s] = b]
  OBVIOUS
<1>1. p \in Pointers /\ p[s] = b /\ \A k \in (0 .. PTRS - 1) \ {s} : p[k] = D.blk[c][k]
  BY DEF Pointers
<1>4. DOMAIN D = {"bmap", "blk", "inode", "rec"}
  BY DEF DiskForm
<1>5. E.bmap = D.bmap /\ E.inode = D.inode /\ E.rec = D.rec
  BY <1>4
<1>6. E.blk = [D.blk EXCEPT ![c][s] = b]
  BY <1>4
<1>7. E = [bmap |-> E.bmap, blk |-> E.blk, inode |-> E.inode, rec |-> E.rec]
  BY <1>4
<1>8. E.blk = [D.blk EXCEPT ![c] = p]
  BY <1>6
<1>9. DOMAIN E.blk = Block /\ E.blk[c] = p /\ \A x \in Block \ {c} : E.blk[x] = D.blk[x]
  BY <1>8 DEF DiskForm
<1>3. /\ DiskForm(E) /\ E.bmap = D.bmap /\ E.inode = D.inode /\ E.rec = D.rec
      /\ E.blk[c] = p /\ \A x \in Block \ {c} : E.blk[x] = D.blk[x]
  BY <1>5, <1>7, <1>9 DEF DiskForm
<1> QED BY <1>1, <1>3 DEF PointerSet

-----------------------------------------------------------------------------
(***************************************************************************)
(* What files own.                                                         *)
(***************************************************************************)
\* What a file owns, pointer by pointer.
LEMMA Owned ==
    ASSUME NEW D, DiskForm(D), NEW f \in File, InodeForm(D, f), NEW x
    PROVE  x \in owns(D, f) <=>
               /\ x # NULL_BLOCK
               /\ \/ \E k \in 0 .. DIRECT - 1 : D.inode[f].direct[k] = x
                  \/ D.inode[f].single # NULL_BLOCK
                     /\ \E k \in 0 .. PTRS - 1 : D.blk[D.inode[f].single][k] = x
                  \/ D.inode[f].single = x
<1> PICK i : i = D.inode[f]
  OBVIOUS
<1> PICK p : p = D.blk[i.single]
  OBVIOUS
<1>1. DOMAIN i.direct = 0 .. DIRECT - 1
  BY DiskFields
<1>2. i.single # NULL_BLOCK => DOMAIN p = 0 .. PTRS - 1
  BY DEF InodeForm, Pointers
<1>3. owns(D, f) = (({i.direct[k] : k \in DOMAIN i.direct} \cup
                      (IF i.single = NULL_BLOCK THEN {} ELSE {p[k] : k \in DOMAIN p})) \ {NULL_BLOCK})
                   \cup ({i.single} \ {NULL_BLOCK})
  BY DEF owns, data_blocks
<1>4. CASE i.single = NULL_BLOCK
  BY <1>1, <1>3, <1>4
<1>5. CASE i.single # NULL_BLOCK
  BY <1>1, <1>2, <1>3, <1>5
<1> QED BY <1>4, <1>5

\* What a file owns and how its i-node is built depend on its i-node and on its
\* indirect block alone.
LEMMA InodeUnmoved ==
    ASSUME NEW D, NEW E, NEW f, E.inode[f] = D.inode[f],
           D.inode[f].single # NULL_BLOCK => E.blk[D.inode[f].single] = D.blk[D.inode[f].single]
    PROVE  /\ owns(E, f) = owns(D, f) /\ (InodeForm(D, f) => InodeForm(E, f))
           /\ \A n : Exact(D, f, n) => Exact(E, f, n)
<1>1. owns(E, f) = owns(D, f)
  <2>1. CASE D.inode[f].single = NULL_BLOCK
    BY <2>1 DEF owns, data_blocks
  <2>2. CASE D.inode[f].single # NULL_BLOCK
    BY <2>2 DEF owns, data_blocks
  <2> QED BY <2>1, <2>2
<1>2. InodeForm(D, f) => InodeForm(E, f)
  BY DEF InodeForm
<1>3. ASSUME NEW n, Exact(D, f, n) PROVE Exact(E, f, n)
  <2>1. CASE n > DIRECT
    <3>1. D.inode[f].single # NULL_BLOCK
      BY <1>3, <2>1 DEF Exact
    <3> QED BY <1>3, <3>1 DEF Exact
  <2>2. CASE ~ (n > DIRECT)
    BY <1>3, <2>2 DEF Exact
  <2> QED BY <2>1, <2>2
<1> QED BY <1>1, <1>2, <1>3

\* From D to E file f may get pointers to blocks that were free, and loses no
\* direct pointer; the other files and the blocks in use stay as they were, but
\* for the indirect block of f.
Kept(D, E, f) ==
    /\ DiskForm(E) /\ E.rec = D.rec /\ bits(D.bmap) \subseteq bits(E.bmap)
    /\ \A g \in File \ {f} : E.inode[g] = D.inode[g]
    /\ \A x \in bits(D.bmap) : x # D.inode[f].single => E.blk[x] = D.blk[x]
    /\ \A k \in 0 .. DIRECT - 1 :
          D.inode[f].direct[k] # NULL_BLOCK => E.inode[f].direct[k] = D.inode[f].direct[k]
    /\ InodeForm(E, f) /\ owns(E, f) \subseteq bits(E.bmap)
    /\ owns(E, f) \cap bits(D.bmap) \subseteq owns(D, f)

\* A file that takes only blocks that were free keeps apart from the others.
LEMMA StaySeparate ==
    ASSUME NEW D, DiskForm(D), NEW F \in SUBSET File, Separate(D, F), NEW f \in F,
           NEW E, Kept(D, E, f)
    PROVE  /\ Separate(E, F)
           /\ \A g \in F \ {f} : owns(E, g) = owns(D, g)
           /\ \A g \in F \ {f} : \A x \in owns(D, g) : E.blk[x] = D.blk[x]
<1>1. ASSUME NEW g \in F \ {f}
      PROVE  /\ owns(E, g) = owns(D, g) /\ InodeForm(E, g) /\ owns(E, g) \subseteq bits(E.bmap)
             /\ \A x \in owns(D, g) : E.blk[x] = D.blk[x]
  <2>1. /\ owns(D, g) \subseteq bits(D.bmap) /\ InodeForm(D, g) /\ E.inode[g] = D.inode[g]
        /\ owns(D, g) \cap owns(D, f) = {}
    BY DEF Separate, Kept
  <2>2. D.inode[f].single # NULL_BLOCK => D.inode[f].single \in owns(D, f)
    BY DEF owns
  <2>3. \A x \in owns(D, g) : E.blk[x] = D.blk[x]
    <3> SUFFICES ASSUME NEW x \in owns(D, g) PROVE E.blk[x] = D.blk[x]
      OBVIOUS
    <3>1. x # NULL_BLOCK /\ x \in bits(D.bmap)
      BY <2>1, Sizes DEF owns, bits, Block
    <3>2. x # D.inode[f].single
      BY <2>1, <2>2, <3>1
    <3> QED BY <3>1, <3>2 DEF Kept
  <2>4. D.inode[g].single # NULL_BLOCK => E.blk[D.inode[g].single] = D.blk[D.inode[g].single]
    BY <2>3 DEF owns
  <2>5. owns(E, g) = owns(D, g) /\ InodeForm(E, g)
    BY <2>1, <2>4, InodeUnmoved
  <2>6. owns(E, g) \subseteq bits(E.bmap)
    BY <2>1, <2>5 DEF Kept
  <2> QED BY <2>3, <2>5, <2>6
<1>2. ASSUME NEW g \in F, NEW h \in F, g # h PROVE owns(E, g) \cap owns(E, h) = {}
  <2>1. \A k \in F \ {f} : owns(E, k) \cap owns(E, f) = {}
    <3> SUFFICES ASSUME NEW k \in F \ {f}, NEW x \in owns(E, k), x \in owns(E, f) PROVE FALSE
      OBVIOUS
    <3>1. x \in owns(D, k) /\ x \in bits(D.bmap)
      BY <1>1 DEF Separate
    <3>2. x \in owns(D, f)
      BY <3>1 DEF Kept
    <3> QED BY <3>1, <3>2 DEF Separate
  <2>2. CASE g = f
    BY <1>2, <2>1, <2>2
  <2>3. CASE h = f
    BY <1>2, <2>1, <2>3
  <2>4. CASE g # f /\ h # f
    BY <1>1, <1>2, <2>4 DEF Separate
  <2> QED BY <2>2, <2>3, <2>4
<1>3. InodeForm(E, f) /\ owns(E, f) \subseteq bits(E.bmap)
  BY DEF Kept
<1>4. Separate(E, F)
  BY <1>1, <1>2, <1>3 DEF Separate
<1> QED BY <1>1, <1>4

-----------------------------------------------------------------------------
(***************************************************************************)
(* create_next_file_block.                                                 *)
(***************************************************************************)
\* What create_single_ind_block writes to its block.
one_pointer(x) == [k \in 0 .. PTRS - 1 |-> IF k = 0 THEN x ELSE NULL_BLOCK]

\* It has one pointer, the first.
LEMMA OnePointer ==
    ASSUME NEW x \in Address
    PROVE  /\ one_pointer(x) \in Pointers /\ one_pointer(x)[0] = x
           /\ \A k \in 1 .. PTRS - 1 : one_pointer(x)[k] = NULL_BLOCK
BY Sizes DEF one_pointer, Pointers, Address

\* What create_single_ind_block returns, with and without a free block.
SingleOutcome(D, first, c) ==
    /\ DiskForm(c[1]) /\ c[1].inode = D.inode /\ c[1].rec = D.rec /\ c[2] \in Address
    /\ c[2] = NULL_BLOCK => c[1] = D /\ bits(D.bmap) = Block
    /\ c[2] # NULL_BLOCK =>
          /\ c[2] \in Block \ bits(D.bmap) /\ bits(c[1].bmap) = bits(D.bmap) \cup {c[2]}
          /\ c[1].blk[c[2]] = one_pointer(first)
          /\ \A x \in Block \ {c[2]} : c[1].blk[x] = D.blk[x]

\* create_single_ind_block takes a free block or fails.
LEMMA SingleMade ==
    ASSUME NEW D, DiskForm(D), NEW first \in Address, NEW c, c = create_single_ind_block(D, first)
    PROVE  SingleOutcome(D, first, c)
<1> PICK b : b = alloc_block(D)
  OBVIOUS
<1>1. /\ b \in Address /\ (b = NULL_BLOCK <=> bits(D.bmap) = Block)
      /\ b # NULL_BLOCK => b \in Block \ bits(D.bmap)
  BY Allocated
<1>2. CASE b = NULL_BLOCK
  <2>1. c = <<D, NULL_BLOCK>>
    BY <1>2 DEF create_single_ind_block
  <2> QED BY <1>1, <1>2, <2>1 DEF SingleOutcome
<1>3. CASE b # NULL_BLOCK
  <2> PICK M : M = mark(D, b)
    OBVIOUS
  <2>1. /\ DiskForm(M) /\ M.blk = D.blk /\ M.inode = D.inode /\ M.rec = D.rec
        /\ bits(M.bmap) = bits(D.bmap) \cup {b}
    <3>1. /\ DiskForm(M) /\ M.blk = D.blk /\ M.inode = D.inode /\ M.rec = D.rec
          /\ bits(M.bmap) = bits(D.bmap) \cup ({b} \ {NULL_BLOCK})
      <4>1. b \in Address
        BY <1>1
      <4> QED BY <4>1, Marked
    <3>2. {b} \ {NULL_BLOCK} = {b}
      BY <1>3
    <3> QED BY <3>1, <3>2
  <2> PICK E : E = set_block(M, b, one_pointer(first))
    OBVIOUS
  <2>2. c = <<E, b>>
    BY <1>3 DEF create_single_ind_block, set_block, one_pointer
  <2>3. /\ DiskForm(E) /\ E.bmap = M.bmap /\ E.inode = M.inode /\ E.rec = M.rec
        /\ E.blk[b] = one_pointer(first) /\ \A x \in Block \ {b} : E.blk[x] = M.blk[x]
    BY <1>1, <1>3, <2>1, BlockSet
  <2>4. c[1] = E /\ c[2] = b
    BY <2>2
  <2>5. \A x \in Block \ {b} : E.blk[x] = D.blk[x]
    BY <2>1, <2>3
  <2> QED BY <1>1, <1>3, <2>1, <2>3, <2>4, <2>5 DEF SingleOutcome
<1> QED BY <1>2, <1>3

\* What create_double_ind_block returns, with and without free blocks.
DoubleOutcome(D, first, d) ==
    /\ DiskForm(d[1]) /\ d[1].inode = D.inode /\ d[1].rec = D.rec /\ d[2] \in Address
    /\ d[2] = NULL_BLOCK => d[1] = D
    /\ d[2] # NULL_BLOCK =>
          \E c \in Address :
             /\ d[2] \in Block \ bits(D.bmap)
             /\ c # NULL_BLOCK => c \in Block \ bits(D.bmap) /\ c # d[2]
             /\ bits(d[1].bmap) = bits(D.bmap) \cup {d[2]} \cup ({c} \ {NULL_BLOCK})
             /\ d[1].blk[d[2]] = one_pointer(c)
             /\ \A x \in bits(D.bmap) : d[1].blk[x] = D.blk[x]

\* create_double_ind_block takes one free block or two, or fails.
LEMMA DoubleMade ==
    ASSUME NEW D, DiskForm(D), NEW first \in Address, NEW d, d = create_double_ind_block(D, first)
    PROVE  DoubleOutcome(D, first, d)
<1> PICK b : b = alloc_block(D)
  OBVIOUS
<1>1. /\ b \in Address /\ (b = NULL_BLOCK <=> bits(D.bmap) = Block)
      /\ b # NULL_BLOCK => b \in Block \ bits(D.bmap)
  BY Allocated
<1>2. CASE b = NULL_BLOCK
  <2>1. d = <<D, NULL_BLOCK>>
    BY <1>2 DEF create_double_ind_block
  <2> QED BY <1>1, <1>2, <2>1 DEF DoubleOutcome
<1>3. CASE b # NULL_BLOCK
  <2> PICK M : M = mark(D, b)
    OBVIOUS
  <2>1. /\ DiskForm(M) /\ M.blk = D.blk /\ M.inode = D.inode /\ M.rec = D.rec
        /\ bits(M.bmap) = bits(D.bmap) \cup {b}
    <3>1. /\ DiskForm(M) /\ M.blk = D.blk /\ M.inode = D.inode /\ M.rec = D.rec
          /\ bits(M.bmap) = bits(D.bmap) \cup ({b} \ {NULL_BLOCK})
      <4>1. b \in Address
        BY <1>1
      <4> QED BY <4>1, Marked
    <3>2. {b} \ {NULL_BLOCK} = {b}
      BY <1>3
    <3> QED BY <3>1, <3>2
  <2> PICK c : c = create_single_ind_block(M, first)
    OBVIOUS
  <2>2. /\ DiskForm(c[1]) /\ c[1].inode = M.inode /\ c[1].rec = M.rec /\ c[2] \in Address
        /\ c[2] = NULL_BLOCK => c[1] = M
        /\ c[2] # NULL_BLOCK =>
              /\ c[2] \in Block \ bits(M.bmap) /\ bits(c[1].bmap) = bits(M.bmap) \cup {c[2]}
              /\ \A x \in Block \ {c[2]} : c[1].blk[x] = M.blk[x]
    <3>1. SingleOutcome(M, first, c)
      BY <2>1, SingleMade
    <3> QED BY <3>1 DEF SingleOutcome
  <2> PICK E : E = set_block(c[1], b, one_pointer(c[2]))
    OBVIOUS
  <2>3. d = <<E, b>>
    BY <1>3 DEF create_double_ind_block, set_block, one_pointer
  <2>4. /\ DiskForm(E) /\ E.bmap = c[1].bmap /\ E.inode = c[1].inode /\ E.rec = c[1].rec
        /\ E.blk[b] = one_pointer(c[2]) /\ \A x \in Block \ {b} : E.blk[x] = c[1].blk[x]
    BY <1>1, <1>3, <2>2, BlockSet
  <2>5. bits(D.bmap) \subseteq Block
    BY DiskFields
  <2>6. \A x \in bits(D.bmap) : E.blk[x] = D.blk[x]
    <3>1. CASE c[2] = NULL_BLOCK
      BY <1>1, <1>3, <2>1, <2>2, <2>4, <2>5, <3>1
    <3>2. CASE c[2] # NULL_BLOCK
      BY <1>1, <1>3, <2>1, <2>2, <2>4, <2>5, <3>2
    <3> QED BY <3>1, <3>2
  <2>7. bits(E.bmap) = bits(D.bmap) \cup {b} \cup ({c[2]} \ {NULL_BLOCK})
    BY <2>1, <2>2, <2>4
  <2>8. c[2] # NULL_BLOCK => c[2] \in Block \ bits(D.bmap) /\ c[2] # b
    BY <2>1, <2>2
  <2>9. d[1] = E /\ d[2] = b
    BY <2>3
  <2>10. DiskForm(E) /\ E.inode = D.inode /\ E.rec = D.rec /\ b \in Address
    BY <1>1, <2>1, <2>2, <2>4
  <2>11. b \in Block \ bits(D.bmap) /\ E.blk[b] = one_pointer(c[2]) /\ c[2] \in Address
    BY <1>1, <1>3, <2>2, <2>4
  <2> QED BY <1>3, <2>6, <2>7, <2>8, <2>9, <2>10, <2>11 DEF DoubleOutcome
<1> QED BY <1>2, <1>3

\* The first free slot.
LEMMA FirstSlot ==
    ASSUME NEW n \in Nat, NEW p \in [0 .. n - 1 -> Address], free_slots(p) # {},
           NEW s, s = least(free_slots(p))
    PROVE  s \in 0 .. n - 1 /\ p[s] = NULL_BLOCK /\ \A k \in 0 .. s - 1 : p[k] # NULL_BLOCK
<1>1. free_slots(p) = {k \in 0 .. n - 1 : p[k] = NULL_BLOCK}
  BY DEF free_slots
<1>2. free_slots(p) \subseteq Nat
  BY <1>1
<1>3. s \in free_slots(p) /\ \A k \in free_slots(p) : s <= k
  BY <1>2, LeastIsLeast
<1>4. s \in 0 .. n - 1 /\ p[s] = NULL_BLOCK
  BY <1>1, <1>3
<1>5. ASSUME NEW k \in 0 .. s - 1 PROVE p[k] # NULL_BLOCK
  <2>1. k \in 0 .. n - 1 /\ ~ (s <= k)
    BY <1>4
  <2> QED BY <1>1, <1>3, <2>1
<1> QED BY <1>4, <1>5

(***************************************************************************)
(* The branches of create_next_file_block, each with what it changes: b is *)
(* the block for the data, x the block for pointers.                       *)
(***************************************************************************)
\* A direct pointer is free.
NextDirect(D, E, f, b, s) ==
    /\ DiskForm(E) /\ E.rec = D.rec /\ E.blk = D.blk
    /\ b \in Address /\ (b # NULL_BLOCK => b \in Block \ bits(D.bmap))
    /\ (b = NULL_BLOCK => bits(D.bmap) = Block)
    /\ bits(E.bmap) = bits(D.bmap) \cup ({b} \ {NULL_BLOCK})
    /\ \A g \in File \ {f} : E.inode[g] = D.inode[g]
    /\ s \in 0 .. DIRECT - 1 /\ D.inode[f].direct[s] = NULL_BLOCK
    /\ \A k \in 0 .. s - 1 : D.inode[f].direct[k] # NULL_BLOCK
    /\ E.inode[f].single = D.inode[f].single
    /\ E.inode[f].direct[s] = b
    /\ \A k \in (0 .. DIRECT - 1) \ {s} : E.inode[f].direct[k] = D.inode[f].direct[k]

\* No direct pointer is free.
DirectFull(D, f) == \A k \in 0 .. DIRECT - 1 : D.inode[f].direct[k] # NULL_BLOCK

\* There is no indirect block yet.
NextSingle(D, E, f, b, x) ==
    /\ DiskForm(E) /\ E.rec = D.rec /\ DirectFull(D, f) /\ D.inode[f].single = NULL_BLOCK
    /\ b \in Address /\ (b # NULL_BLOCK => b \in Block \ bits(D.bmap))
    /\ (b = NULL_BLOCK => bits(D.bmap) = Block)
    /\ x \in Address /\ (x # NULL_BLOCK => x \in Block \ (bits(D.bmap) \cup {b}))
    /\ (x = NULL_BLOCK => bits(D.bmap) \cup {b} = Block \cup {b})
    /\ bits(E.bmap) = bits(D.bmap) \cup ({b, x} \ {NULL_BLOCK})
    /\ \A g \in File \ {f} : E.inode[g] = D.inode[g]
    /\ E.inode[f].single = x /\ E.inode[f].direct = D.inode[f].direct
    /\ (x # NULL_BLOCK => E.blk[x] = one_pointer(b))
    /\ \A y \in Block \ {x} : E.blk[y] = D.blk[y]

\* The indirect block has a free pointer.
NextIndirect(D, E, f, b, s) ==
    LET x == D.inode[f].single
    IN  /\ DiskForm(E) /\ E.rec = D.rec /\ DirectFull(D, f) /\ x # NULL_BLOCK
        /\ b \in Address /\ (b # NULL_BLOCK => b \in Block \ bits(D.bmap))
        /\ (b = NULL_BLOCK => bits(D.bmap) = Block)
        /\ bits(E.bmap) = bits(D.bmap) \cup ({b} \ {NULL_BLOCK})
        /\ E.inode = D.inode
        /\ s \in 0 .. PTRS - 1 /\ D.blk[x][s] = NULL_BLOCK
        /\ \A k \in 0 .. s - 1 : D.blk[x][k] # NULL_BLOCK
        /\ E.blk[x] \in Pointers /\ E.blk[x][s] = b
        /\ \A k \in (0 .. PTRS - 1) \ {s} : E.blk[x][k] = D.blk[x][k]
        /\ \A y \in Block \ {x} : E.blk[y] = D.blk[y]

\* The indirect block is full: its place is taken by a double indirect one.
NextDouble(D, E, f, x) ==
    /\ DiskForm(E) /\ E.rec = D.rec /\ DirectFull(D, f) /\ D.inode[f].single # NULL_BLOCK
    /\ \A k \in 0 .. PTRS - 1 : D.blk[D.inode[f].single][k] # NULL_BLOCK
    /\ bits(D.bmap) \subseteq bits(E.bmap)
    /\ \A g \in File \ {f} : E.inode[g] = D.inode[g]
    /\ E.inode[f].single = x /\ E.inode[f].direct = D.inode[f].direct
    /\ x \in Address
    /\ x # NULL_BLOCK =>
          \E c \in Address : /\ x \in bits(E.bmap) \ bits(D.bmap) /\ E.blk[x] = one_pointer(c)
                             /\ c # NULL_BLOCK => c \in bits(E.bmap) \ bits(D.bmap)
    /\ \A y \in bits(D.bmap) : E.blk[y] = D.blk[y]

\* create_next_file_block takes one of these branches.
LEMMA NextBlock ==
    ASSUME NEW D, DiskForm(D), NEW f \in File, InodeForm(D, f), owns(D, f) \subseteq bits(D.bmap),
           NEW E, E = create_next_file_block(D, f)
    PROVE  \/ \E b, s : NextDirect(D, E, f, b, s)
           \/ \E b, x : NextSingle(D, E, f, b, x)
           \/ \E b, s : NextIndirect(D, E, f, b, s)
           \/ \E x : NextDouble(D, E, f, x)
<1> PICK i : i = D.inode[f]
  OBVIOUS
<1> PICK b : b = alloc_block(D)
  OBVIOUS
<1> PICK M : M = mark(D, b)
  OBVIOUS
<1>1. /\ b \in Address /\ (b = NULL_BLOCK => bits(D.bmap) = Block)
      /\ (b # NULL_BLOCK => b \in Block \ bits(D.bmap))
  BY Allocated
<1>2. /\ DiskForm(M) /\ M.blk = D.blk /\ M.inode = D.inode /\ M.rec = D.rec
      /\ bits(M.bmap) = bits(D.bmap) \cup ({b} \ {NULL_BLOCK})
  BY <1>1, Marked
<1>m. DiskForm(M) /\ b \in Address
  BY <1>1, <1>2
<1>3. i.direct \in [0 .. DIRECT - 1 -> Address] /\ i.single \in Address
  BY DiskFields
<1>4. free_slots(i.direct) = {} => DirectFull(D, f)
  BY <1>3 DEF free_slots, DirectFull
<1>5. CASE free_slots(i.direct) # {}
  <2> PICK s : s = least(free_slots(i.direct))
    OBVIOUS
  <2>1. s \in 0 .. DIRECT - 1 /\ i.direct[s] = NULL_BLOCK /\ \A k \in 0 .. s - 1 : i.direct[k] # NULL_BLOCK
    BY <1>3, <1>5, FirstSlot, Sizes
  <2>2. E = set_direct(M, f, s, b)
    BY <1>5 DEF create_next_file_block, set_direct
  <2>3. /\ DiskForm(E) /\ E.bmap = M.bmap /\ E.blk = M.blk /\ E.rec = M.rec
        /\ \A g \in File \ {f} : E.inode[g] = M.inode[g]
        /\ E.inode[f].single = M.inode[f].single /\ E.inode[f].direct[s] = b
        /\ \A k \in (0 .. DIRECT - 1) \ {s} : E.inode[f].direct[k] = M.inode[f].direct[k]
    BY <1>1, <1>2, <2>1, <2>2, DirectSet
  <2>4. NextDirect(D, E, f, b, s)
    BY <1>1, <1>2, <2>1, <2>3 DEF NextDirect
  <2> QED BY <2>4
<1>6. CASE free_slots(i.direct) = {} /\ i.single = NULL_BLOCK
  <2> PICK c : c = create_single_ind_block(M, b)
    OBVIOUS
  <2>1. /\ DiskForm(c[1]) /\ c[1].inode = M.inode /\ c[1].rec = M.rec /\ c[2] \in Address
        /\ c[2] = NULL_BLOCK => c[1] = M /\ bits(M.bmap) = Block
        /\ c[2] # NULL_BLOCK =>
              /\ c[2] \in Block \ bits(M.bmap) /\ bits(c[1].bmap) = bits(M.bmap) \cup {c[2]}
              /\ c[1].blk[c[2]] = one_pointer(b)
              /\ \A x \in Block \ {c[2]} : c[1].blk[x] = M.blk[x]
    <3>1. SingleOutcome(M, b, c)
      BY <1>m, SingleMade
    <3> QED BY <3>1 DEF SingleOutcome
  <2>2. E = set_single(c[1], f, c[2])
    BY <1>6 DEF create_next_file_block, set_single
  <2>3. /\ DiskForm(E) /\ E.bmap = c[1].bmap /\ E.blk = c[1].blk /\ E.rec = c[1].rec
        /\ \A g \in File \ {f} : E.inode[g] = c[1].inode[g]
        /\ E.inode[f].single = c[2] /\ E.inode[f].direct = c[1].inode[f].direct
    BY <2>1, <2>2, SingleSet
  <2> PICK x : x = c[2]
    OBVIOUS
  <2>4. x \in Address /\ (x # NULL_BLOCK => x \in Block \ (bits(D.bmap) \cup {b}))
    BY <1>1, <1>2, <2>1, Sizes
  <2>5. x = NULL_BLOCK => bits(D.bmap) \cup {b} = Block \cup {b}
    BY <1>1, <1>2, <2>1
  <2>6. bits(E.bmap) = bits(D.bmap) \cup ({b, x} \ {NULL_BLOCK})
    <3>1. CASE x = NULL_BLOCK
      BY <1>2, <2>1, <2>3, <3>1
    <3>2. CASE x # NULL_BLOCK
      BY <1>2, <2>1, <2>3, <3>2
    <3> QED BY <3>1, <3>2
  <2>7. /\ \A g \in File \ {f} : E.inode[g] = D.inode[g]
        /\ E.inode[f].single = x /\ E.inode[f].direct = D.inode[f].direct
        /\ DiskForm(E) /\ E.rec = D.rec
    BY <1>2, <2>1, <2>3
  <2>8. (x # NULL_BLOCK => E.blk[x] = one_pointer(b)) /\ \A y \in Block \ {x} : E.blk[y] = D.blk[y]
    <3>1. CASE x = NULL_BLOCK
      BY <1>2, <2>1, <2>3, <3>1
    <3>2. CASE x # NULL_BLOCK
      BY <1>2, <2>1, <2>3, <3>2
    <3> QED BY <3>1, <3>2
  <2>9. NextSingle(D, E, f, b, x)
    BY <1>1, <1>4, <1>6, <2>4, <2>5, <2>6, <2>7, <2>8 DEF NextSingle
  <2> QED BY <2>9
<1>7. CASE free_slots(i.direct) = {} /\ i.single # NULL_BLOCK /\ free_slots(D.blk[i.single]) # {}
  <2> PICK x \in Block : x = i.single
    BY <1>3, <1>7 DEF Address
  <2>1. D.blk[x] \in Pointers
    BY <1>7 DEF InodeForm
  <2> PICK s : s = least(free_slots(D.blk[x]))
    OBVIOUS
  <2>2. s \in 0 .. PTRS - 1 /\ D.blk[x][s] = NULL_BLOCK /\ \A k \in 0 .. s - 1 : D.blk[x][k] # NULL_BLOCK
    BY <1>7, <2>1, FirstSlot, Sizes DEF Pointers
  <2>3. E = set_pointer(M, x, s, b)
    BY <1>7 DEF create_next_file_block, set_pointer
  <2>4. M.blk[x] \in Pointers
    BY <1>2, <2>1
  <2>5. /\ DiskForm(E) /\ E.bmap = M.bmap /\ E.inode = M.inode /\ E.rec = M.rec
        /\ E.blk[x] \in Pointers /\ E.blk[x][s] = b
        /\ \A k \in (0 .. PTRS - 1) \ {s} : E.blk[x][k] = M.blk[x][k]
        /\ \A y \in Block \ {x} : E.blk[y] = M.blk[y]
    <3>1. DiskForm(M) /\ M.blk[x] \in Pointers /\ s \in 0 .. PTRS - 1 /\ b \in Address
      BY <1>m, <2>2, <2>4
    <3>2. PointerSet(M, x, s, b, E)
      BY <3>1, <2>3, IndirectSet
    <3> QED BY <3>2 DEF PointerSet
  <2>6. NextIndirect(D, E, f, b, s)
    <3>1. /\ DiskForm(E) /\ E.rec = D.rec /\ E.inode = D.inode
          /\ bits(E.bmap) = bits(D.bmap) \cup ({b} \ {NULL_BLOCK})
      BY <1>2, <2>5
    <3>2. /\ E.blk[x] \in Pointers /\ E.blk[x][s] = b
          /\ \A k \in (0 .. PTRS - 1) \ {s} : E.blk[x][k] = D.blk[x][k]
          /\ \A y \in Block \ {x} : E.blk[y] = D.blk[y]
      <4>1. M.blk = D.blk
        BY <1>2
      <4>2. /\ E.blk[x] \in Pointers /\ E.blk[x][s] = b
            /\ \A k \in (0 .. PTRS - 1) \ {s} : E.blk[x][k] = M.blk[x][k]
            /\ \A y \in Block \ {x} : E.blk[y] = M.blk[y]
        BY <2>5
      <4>3. ASSUME NEW k \in (0 .. PTRS - 1) \ {s} PROVE E.blk[x][k] = D.blk[x][k]
        BY <4>1, <4>2
      <4>4. ASSUME NEW y \in Block \ {x} PROVE E.blk[y] = D.blk[y]
        BY <4>1, <4>2
      <4> QED BY <4>2, <4>3, <4>4
    <3>3. DirectFull(D, f) /\ x # NULL_BLOCK /\ x = D.inode[f].single
      BY <1>4, <1>7
    <3> QED BY <1>1, <2>2, <3>1, <3>2, <3>3 DEF NextIndirect
  <2> QED BY <2>6
<1>8. CASE free_slots(i.direct) = {} /\ i.single # NULL_BLOCK /\ free_slots(D.blk[i.single]) = {}
  <2> PICK d : d = create_double_ind_block(M, b)
    OBVIOUS
  <2>1. /\ DiskForm(d[1]) /\ d[1].inode = M.inode /\ d[1].rec = M.rec /\ d[2] \in Address
        /\ d[2] = NULL_BLOCK => d[1] = M
        /\ d[2] # NULL_BLOCK =>
              \E c \in Address :
                 /\ d[2] \in Block \ bits(M.bmap)
                 /\ c # NULL_BLOCK => c \in Block \ bits(M.bmap) /\ c # d[2]
                 /\ bits(d[1].bmap) = bits(M.bmap) \cup {d[2]} \cup ({c} \ {NULL_BLOCK})
                 /\ d[1].blk[d[2]] = one_pointer(c)
                 /\ \A x \in bits(M.bmap) : d[1].blk[x] = M.blk[x]
    <3>1. DoubleOutcome(M, b, d)
      BY <1>m, DoubleMade
    <3> QED BY <3>1 DEF DoubleOutcome
  <2>2. E = set_single(d[1], f, d[2])
    BY <1>8 DEF create_next_file_block, set_single
  <2>3. /\ DiskForm(E) /\ E.bmap = d[1].bmap /\ E.blk = d[1].blk /\ E.rec = d[1].rec
        /\ \A g \in File \ {f} : E.inode[g] = d[1].inode[g]
        /\ E.inode[f].single = d[2] /\ E.inode[f].direct = d[1].inode[f].direct
    <3>1. DiskForm(d[1]) /\ d[2] \in Address
      BY <2>1
    <3> QED BY <3>1, <2>2, SingleSet
  <2>4. D.blk[i.single] \in Pointers
    BY <1>8 DEF InodeForm
  <2>5. \A k \in 0 .. PTRS - 1 : D.blk[i.single][k] # NULL_BLOCK
    BY <1>8, <2>4 DEF free_slots, Pointers
  <2>6. /\ bits(D.bmap) \subseteq bits(E.bmap) /\ \A y \in bits(D.bmap) : E.blk[y] = D.blk[y]
    <3>1. CASE d[2] = NULL_BLOCK
      BY <1>2, <2>1, <2>3, <3>1
    <3>2. CASE d[2] # NULL_BLOCK
      BY <1>2, <2>1, <2>3, <3>2
    <3> QED BY <3>1, <3>2
  <2>7. d[2] # NULL_BLOCK =>
          \E c \in Address : /\ d[2] \in bits(E.bmap) \ bits(D.bmap) /\ E.blk[d[2]] = one_pointer(c)
                             /\ c # NULL_BLOCK => c \in bits(E.bmap) \ bits(D.bmap)
    <3> SUFFICES ASSUME d[2] # NULL_BLOCK
                 PROVE  \E c \in Address : /\ d[2] \in bits(E.bmap) \ bits(D.bmap)
                                           /\ E.blk[d[2]] = one_pointer(c)
                                           /\ c # NULL_BLOCK => c \in bits(E.bmap) \ bits(D.bmap)
      OBVIOUS
    <3> PICK c \in Address :
                 /\ d[2] \in Block \ bits(M.bmap)
                 /\ c # NULL_BLOCK => c \in Block \ bits(M.bmap) /\ c # d[2]
                 /\ bits(d[1].bmap) = bits(M.bmap) \cup {d[2]} \cup ({c} \ {NULL_BLOCK})
                 /\ d[1].blk[d[2]] = one_pointer(c)
      BY <2>1
    <3>1. d[2] \in bits(E.bmap) \ bits(D.bmap) /\ E.blk[d[2]] = one_pointer(c)
      BY <1>2, <2>3
    <3>2. c # NULL_BLOCK => c \in bits(E.bmap) \ bits(D.bmap)
      BY <1>2, <2>3
    <3> QED BY <3>1, <3>2
  <2>8. NextDouble(D, E, f, d[2])
    BY <1>2, <1>4, <1>8, <2>1, <2>3, <2>5, <2>6, <2>7 DEF NextDouble
  <2> QED BY <2>8
<1> QED BY <1>5, <1>6, <1>7, <1>8

-----------------------------------------------------------------------------
(***************************************************************************)
(* What it leaves of the file, and of the others.                          *)
(***************************************************************************)
\* What InodeForm and Owned say of a file whose blocks are marked.
LEMMA OwnMarked ==
    ASSUME NEW D, DiskForm(D), NEW f \in File, InodeForm(D, f), owns(D, f) \subseteq bits(D.bmap)
    PROVE  /\ \A k \in 0 .. DIRECT - 1 : D.inode[f].direct[k] # NULL_BLOCK =>
                 D.inode[f].direct[k] \in owns(D, f) /\ D.inode[f].direct[k] \in bits(D.bmap)
           /\ D.inode[f].single # NULL_BLOCK =>
                 /\ D.inode[f].single \in owns(D, f) /\ D.inode[f].single \in bits(D.bmap)
                 /\ D.blk[D.inode[f].single] \in Pointers
                 /\ \A k \in 0 .. PTRS - 1 : LET x == D.blk[D.inode[f].single][k]
                                             IN  x # NULL_BLOCK => x \in owns(D, f) /\ x \in bits(D.bmap)
<1>1. \A k \in 0 .. DIRECT - 1 : D.inode[f].direct[k] # NULL_BLOCK => D.inode[f].direct[k] \in owns(D, f)
  BY Owned
<1>2. D.inode[f].single # NULL_BLOCK => D.inode[f].single \in owns(D, f)
  BY Owned
<1>3. D.inode[f].single # NULL_BLOCK =>
         \A k \in 0 .. PTRS - 1 : D.blk[D.inode[f].single][k] # NULL_BLOCK =>
             D.blk[D.inode[f].single][k] \in owns(D, f)
  BY Owned
<1>4. D.inode[f].single # NULL_BLOCK => D.blk[D.inode[f].single] \in Pointers
  BY DEF InodeForm
<1> QED BY <1>1, <1>2, <1>3, <1>4

\* A direct pointer:
\* the file takes blocks that were free, and no others.
LEMMA DirectKeeps ==
    ASSUME NEW D, DiskForm(D), NEW f \in File, InodeForm(D, f), owns(D, f) \subseteq bits(D.bmap),
           NEW E, NEW b, NEW s, NextDirect(D, E, f, b, s)
    PROVE  Kept(D, E, f)
<1>1. /\ DiskForm(E) /\ E.rec = D.rec /\ E.blk = D.blk
      /\ b \in Address /\ (b # NULL_BLOCK => b \in Block \ bits(D.bmap))
      /\ bits(E.bmap) = bits(D.bmap) \cup ({b} \ {NULL_BLOCK})
      /\ \A g \in File \ {f} : E.inode[g] = D.inode[g]
      /\ s \in 0 .. DIRECT - 1 /\ D.inode[f].direct[s] = NULL_BLOCK
      /\ \A k \in 0 .. s - 1 : D.inode[f].direct[k] # NULL_BLOCK
      /\ E.inode[f].single = D.inode[f].single
      /\ E.inode[f].direct[s] = b
      /\ \A k \in (0 .. DIRECT - 1) \ {s} : E.inode[f].direct[k] = D.inode[f].direct[k]
  BY DEF NextDirect
<1> PICK i : i = D.inode[f]
  OBVIOUS
<1> PICK j : j = E.inode[f]
  OBVIOUS
<1>2. /\ \A k \in 0 .. DIRECT - 1 : i.direct[k] # NULL_BLOCK => i.direct[k] \in bits(D.bmap)
      /\ i.single # NULL_BLOCK => i.single \in bits(D.bmap) /\ D.blk[i.single] \in Pointers
  BY OwnMarked
<1>3. /\ \A k, l \in 0 .. DIRECT - 1 : k < l /\ i.direct[l] # NULL_BLOCK => i.direct[k] # NULL_BLOCK
      /\ \A k, l \in 0 .. DIRECT - 1 : i.direct[k] = i.direct[l] /\ i.direct[l] # NULL_BLOCK => k = l
      /\ i.single # NULL_BLOCK => \A k \in 0 .. DIRECT - 1 : i.direct[k] # i.single
  BY DEF InodeForm
<1>4. InodeForm(E, f)
  <2>1. ASSUME NEW k \in 0 .. DIRECT - 1, NEW l \in 0 .. DIRECT - 1, k < l, j.direct[l] # NULL_BLOCK
        PROVE  j.direct[k] # NULL_BLOCK
    <3>1. CASE l = s
      BY <1>1, <2>1, <3>1
    <3>2. CASE l # s
      BY <1>1, <1>3, <2>1, <3>2
    <3> QED BY <3>1, <3>2
  <2>2. ASSUME NEW k \in 0 .. DIRECT - 1, NEW l \in 0 .. DIRECT - 1, j.direct[k] = j.direct[l],
               j.direct[l] # NULL_BLOCK
        PROVE  k = l
    BY <1>1, <1>2, <1>3, <2>2
  <2>3. j.single # NULL_BLOCK => /\ E.blk[j.single] \in Pointers
                                 /\ \A k \in 0 .. DIRECT - 1 : j.direct[k] # j.single
    BY <1>1, <1>2, <1>3
  <2> QED BY <2>1, <2>2, <2>3 DEF InodeForm
<1>5. ASSUME NEW x PROVE x \in owns(E, f) => x \in owns(D, f) \/ (x = b /\ x # NULL_BLOCK)
  <2>1. x \in owns(E, f) =>
            /\ x # NULL_BLOCK
            /\ \/ \E k \in 0 .. DIRECT - 1 : j.direct[k] = x
               \/ j.single # NULL_BLOCK /\ \E k \in 0 .. PTRS - 1 : E.blk[j.single][k] = x
               \/ j.single = x
    BY <1>1, <1>4, Owned
  <2>2. (/\ x # NULL_BLOCK
         /\ \/ \E k \in 0 .. DIRECT - 1 : i.direct[k] = x
            \/ i.single # NULL_BLOCK /\ \E k \in 0 .. PTRS - 1 : D.blk[i.single][k] = x
            \/ i.single = x) => x \in owns(D, f)
    BY Owned
  <2> QED BY <1>1, <2>1, <2>2
<1> QED BY <1>1, <1>4, <1>5 DEF Kept

\* A new single indirect block:
\* the file takes blocks that were free, and no others.
LEMMA SingleKeeps ==
    ASSUME NEW D, DiskForm(D), NEW f \in File, InodeForm(D, f), owns(D, f) \subseteq bits(D.bmap),
           NEW E, NEW b, NEW x, NextSingle(D, E, f, b, x)
    PROVE  Kept(D, E, f)
<1>1. /\ DiskForm(E) /\ E.rec = D.rec /\ DirectFull(D, f) /\ D.inode[f].single = NULL_BLOCK
      /\ b \in Address /\ (b # NULL_BLOCK => b \in Block \ bits(D.bmap))
      /\ x \in Address /\ (x # NULL_BLOCK => x \in Block \ (bits(D.bmap) \cup {b}))
      /\ bits(E.bmap) = bits(D.bmap) \cup ({b, x} \ {NULL_BLOCK})
      /\ \A g \in File \ {f} : E.inode[g] = D.inode[g]
      /\ E.inode[f].single = x /\ E.inode[f].direct = D.inode[f].direct
      /\ (x # NULL_BLOCK => E.blk[x] = one_pointer(b))
      /\ \A y \in Block \ {x} : E.blk[y] = D.blk[y]
  BY DEF NextSingle
<1> PICK i : i = D.inode[f]
  OBVIOUS
<1> PICK j : j = E.inode[f]
  OBVIOUS
<1>2. \A k \in 0 .. DIRECT - 1 : i.direct[k] # NULL_BLOCK => i.direct[k] \in bits(D.bmap)
  BY OwnMarked
<1>3. one_pointer(b) \in Pointers /\ one_pointer(b)[0] = b
      /\ \A k \in 1 .. PTRS - 1 : one_pointer(b)[k] = NULL_BLOCK
  BY <1>1, OnePointer
<1>4. InodeForm(E, f)
  <2>1. x # NULL_BLOCK => \A k \in 0 .. DIRECT - 1 : i.direct[k] # x
    BY <1>1, <1>2
  <2> QED BY <1>1, <1>3, <2>1 DEF InodeForm
<1>5. ASSUME NEW y, y \in owns(E, f) PROVE y \in owns(D, f) \/ (y \in {b, x} /\ y # NULL_BLOCK)
  <2>1. /\ y # NULL_BLOCK
        /\ \/ \E k \in 0 .. DIRECT - 1 : j.direct[k] = y
           \/ j.single # NULL_BLOCK /\ \E k \in 0 .. PTRS - 1 : E.blk[j.single][k] = y
           \/ j.single = y
    BY <1>1, <1>4, <1>5, Owned
  <2>2. (y # NULL_BLOCK /\ \E k \in 0 .. DIRECT - 1 : i.direct[k] = y) => y \in owns(D, f)
    BY Owned
  <2>3. CASE j.single # NULL_BLOCK /\ \E k \in 0 .. PTRS - 1 : E.blk[j.single][k] = y
    <3> PICK k \in 0 .. PTRS - 1 : E.blk[j.single][k] = y
      BY <2>3
    <3>1. one_pointer(b)[k] = y
      BY <1>1, <2>3
    <3>2. k = 0 \/ k \in 1 .. PTRS - 1
      BY Sizes
    <3> QED BY <1>3, <2>1, <3>1, <3>2
  <2> QED BY <1>1, <2>1, <2>2, <2>3
<1>6. \A y \in bits(D.bmap) : E.blk[y] = D.blk[y]
  <2>1. bits(D.bmap) \subseteq Block
    BY DiskFields
  <2> QED BY <1>1, <2>1, Sizes
<1>7. owns(E, f) \subseteq bits(E.bmap) /\ owns(E, f) \cap bits(D.bmap) \subseteq owns(D, f)
  BY <1>1, <1>5
<1> QED BY <1>1, <1>4, <1>6, <1>7 DEF Kept

\* A pointer of the single indirect block:
\* the file takes blocks that were free, and no others.
LEMMA IndirectKeeps ==
    ASSUME NEW D, DiskForm(D), NEW f \in File, InodeForm(D, f), owns(D, f) \subseteq bits(D.bmap),
           NEW E, NEW b, NEW s, NextIndirect(D, E, f, b, s)
    PROVE  Kept(D, E, f)
<1> PICK x : x = D.inode[f].single
  OBVIOUS
<1>1. /\ DiskForm(E) /\ E.rec = D.rec /\ DirectFull(D, f) /\ x # NULL_BLOCK
      /\ b \in Address /\ (b # NULL_BLOCK => b \in Block \ bits(D.bmap))
      /\ bits(E.bmap) = bits(D.bmap) \cup ({b} \ {NULL_BLOCK})
      /\ E.inode = D.inode
      /\ s \in 0 .. PTRS - 1 /\ E.blk[x] \in Pointers /\ E.blk[x][s] = b
      /\ \A k \in (0 .. PTRS - 1) \ {s} : E.blk[x][k] = D.blk[x][k]
      /\ \A y \in Block \ {x} : E.blk[y] = D.blk[y]
  BY DEF NextIndirect
<1>2. InodeForm(E, f)
  BY <1>1 DEF InodeForm
<1>3. ASSUME NEW y, y \in owns(E, f) PROVE y \in owns(D, f) \/ (y = b /\ y # NULL_BLOCK)
  <2>1. /\ y # NULL_BLOCK
        /\ \/ \E k \in 0 .. DIRECT - 1 : D.inode[f].direct[k] = y
           \/ x # NULL_BLOCK /\ \E k \in 0 .. PTRS - 1 : E.blk[x][k] = y
           \/ x = y
    BY <1>1, <1>2, <1>3, Owned
  <2>2. (/\ y # NULL_BLOCK
         /\ \/ \E k \in 0 .. DIRECT - 1 : D.inode[f].direct[k] = y
            \/ x # NULL_BLOCK /\ \E k \in 0 .. PTRS - 1 : D.blk[x][k] = y
            \/ x = y) => y \in owns(D, f)
    BY Owned
  <2> QED BY <1>1, <2>1, <2>2
<1>4. bits(D.bmap) \subseteq Block
  BY DiskFields
<1>5. owns(E, f) \subseteq bits(E.bmap) /\ owns(E, f) \cap bits(D.bmap) \subseteq owns(D, f)
  BY <1>1, <1>3
<1> QED BY <1>1, <1>2, <1>4, <1>5 DEF Kept

\* A block that takes the place of the single indirect one:
\* the file takes blocks that were free, and no others.
LEMMA DoubleKeeps ==
    ASSUME NEW D, DiskForm(D), NEW f \in File, InodeForm(D, f), owns(D, f) \subseteq bits(D.bmap),
           NEW E, NEW x, NextDouble(D, E, f, x)
    PROVE  Kept(D, E, f)
<1>1. /\ DiskForm(E) /\ E.rec = D.rec /\ DirectFull(D, f)
      /\ bits(D.bmap) \subseteq bits(E.bmap)
      /\ \A g \in File \ {f} : E.inode[g] = D.inode[g]
      /\ E.inode[f].single = x /\ E.inode[f].direct = D.inode[f].direct
      /\ \A y \in bits(D.bmap) : E.blk[y] = D.blk[y]
  BY DEF NextDouble
<1> PICK i : i = D.inode[f]
  OBVIOUS
<1>2. \A k \in 0 .. DIRECT - 1 : i.direct[k] # NULL_BLOCK => i.direct[k] \in bits(D.bmap)
  BY OwnMarked
<1>3. PICK c \in Address :
         x # NULL_BLOCK => /\ x \in bits(E.bmap) \ bits(D.bmap) /\ E.blk[x] = one_pointer(c)
                           /\ c # NULL_BLOCK => c \in bits(E.bmap) \ bits(D.bmap)
  BY DEF NextDouble
<1>4. one_pointer(c) \in Pointers /\ one_pointer(c)[0] = c
      /\ \A k \in 1 .. PTRS - 1 : one_pointer(c)[k] = NULL_BLOCK
  BY OnePointer
<1>5. InodeForm(E, f)
  <2>1. x # NULL_BLOCK => \A k \in 0 .. DIRECT - 1 : i.direct[k] # x
    BY <1>2, <1>3
  <2> QED BY <1>1, <1>3, <1>4, <2>1 DEF InodeForm
<1>6. ASSUME NEW y, y \in owns(E, f)
      PROVE  y \in owns(D, f) \/ y \in bits(E.bmap) \ bits(D.bmap)
  <2>1. /\ y # NULL_BLOCK
        /\ \/ \E k \in 0 .. DIRECT - 1 : i.direct[k] = y
           \/ x # NULL_BLOCK /\ \E k \in 0 .. PTRS - 1 : E.blk[x][k] = y
           \/ x = y
    BY <1>1, <1>5, <1>6, Owned
  <2>2. (y # NULL_BLOCK /\ \E k \in 0 .. DIRECT - 1 : i.direct[k] = y) => y \in owns(D, f)
    BY Owned
  <2>3. CASE x # NULL_BLOCK /\ \E k \in 0 .. PTRS - 1 : E.blk[x][k] = y
    <3> PICK k \in 0 .. PTRS - 1 : E.blk[x][k] = y
      BY <2>3
    <3>1. one_pointer(c)[k] = y
      BY <1>3, <2>3
    <3>2. k = 0 \/ k \in 1 .. PTRS - 1
      BY Sizes
    <3> QED BY <1>3, <1>4, <2>1, <2>3, <3>1, <3>2
  <2> QED BY <1>3, <2>1, <2>2, <2>3
<1>7. owns(E, f) \subseteq bits(E.bmap) /\ owns(E, f) \cap bits(D.bmap) \subseteq owns(D, f)
  BY <1>1, <1>6
<1> QED BY <1>1, <1>5, <1>7 DEF Kept

\* create_next_file_block gives the file blocks that were free, and no others.
LEMMA NextKeeps ==
    ASSUME NEW D, DiskForm(D), NEW f \in File, InodeForm(D, f), owns(D, f) \subseteq bits(D.bmap),
           NEW E, E = create_next_file_block(D, f)
    PROVE  Kept(D, E, f)
BY NextBlock, DirectKeeps, SingleKeeps, IndirectKeeps, DoubleKeeps

-----------------------------------------------------------------------------
(***************************************************************************)
(* The blocks of a file by their numbers, and a file that grows.           *)
(***************************************************************************)
\* How many blocks a file may have.
Slots == IF Big THEN DIRECT + PTRS ELSE DIRECT

\* The pointer to block k of a file, read whole.
slot(D, f, k) ==
    IF k < DIRECT THEN D.inode[f].direct[k]
    ELSE IF D.inode[f].single = NULL_BLOCK THEN NULL_BLOCK
    ELSE D.blk[D.inode[f].single][k - DIRECT]

\* A number below the modulus is its own remainder.
LEMMA LowByte ==
    ASSUME NEW a \in Nat, a < BYTE
    PROVE  low_byte(a) = a
<1>1. BYTE \in Nat /\ BYTE > 0
  BY Sizes
<1> QED BY <1>1, SMTT(20) DEF low_byte

\* Where the address of a block is one, it is the pointer to it.
LEMMA SlotRead ==
    ASSUME Fits, NEW D, DiskForm(D), NEW f \in File, InodeForm(D, f), NEW k \in 0 .. Slots - 1
    PROVE  /\ slot(D, f, k) \in Address
           /\ k < DIRECT => get_file_logic_block_addr(D, f, k) = slot(D, f, k)
           /\ slot(D, f, k) \in Block =>
                 /\ get_file_logic_block_addr(D, f, k) = slot(D, f, k)
                 /\ slot(D, f, k) \in data_blocks(D, f) /\ slot(D, f, k) \in owns(D, f)
<1> PICK i : i = D.inode[f]
  OBVIOUS
<1>1. i.direct \in [0 .. DIRECT - 1 -> Address] /\ i.single \in Address
  BY DiskFields
<1>2. i.single # NULL_BLOCK => D.blk[i.single] \in Pointers
  BY DEF InodeForm
<1>3. data_blocks(D, f) \subseteq owns(D, f)
  BY DEF owns
<1>4. CASE k < DIRECT
  <2>1. k \in 0 .. DIRECT - 1 /\ slot(D, f, k) = i.direct[k]
    BY <1>4, Sizes DEF slot
  <2>2. get_file_logic_block_addr(D, f, k) = i.direct[k]
    BY <1>4 DEF get_file_logic_block_addr
  <2>3. i.direct[k] \in Block => i.direct[k] \in data_blocks(D, f)
    BY <1>1, <2>1, Sizes DEF data_blocks
  <2>4. i.direct[k] \in Address
    BY <1>1, <2>1
  <2> QED BY <1>3, <2>1, <2>2, <2>3, <2>4
<1>5. CASE ~ (k < DIRECT)
  <2>1. Big /\ k < DIRECT + PTRS /\ k - DIRECT \in 0 .. PTRS - 1
    BY <1>5, Sizes DEF Slots
  <2>2. CASE i.single = NULL_BLOCK
    <3>1. slot(D, f, k) = NULL_BLOCK
      BY <1>5, <2>2 DEF slot
    <3> QED BY <1>5, <3>1, Sizes DEF Address
  <2>3. CASE i.single # NULL_BLOCK
    <3> PICK x : x = D.blk[i.single][k - DIRECT]
      OBVIOUS
    <3>1. slot(D, f, k) = x
      BY <1>5, <2>3 DEF slot
    <3>2. x \in Address
      BY <1>2, <2>1, <2>3 DEF Pointers
    <3>3. get_file_logic_block_addr(D, f, k) = low_byte(x)
      BY <1>5, <2>1, <2>3 DEF get_file_logic_block_addr
    <3>4. x \in Block => low_byte(x) = x
      <4> SUFFICES ASSUME x \in Block PROVE low_byte(x) = x
        OBVIOUS
      <4>1. NBYTES * BITS \in Nat
        BY BitmapAssumption
      <4>2. x \in Nat /\ x < BYTE
        BY <2>1, <4>1, Sizes DEF Fits
      <4> QED BY <4>2, LowByte
    <3>5. x \in Block => x \in data_blocks(D, f)
      <4>1. DOMAIN D.blk[i.single] = 0 .. PTRS - 1
        BY <1>2, <2>3 DEF Pointers
      <4> QED BY <2>1, <2>3, <4>1, Sizes DEF data_blocks
    <3> QED BY <1>3, <1>5, <3>1, <3>2, <3>3, <3>4, <3>5
  <2> QED BY <2>2, <2>3
<1> QED BY <1>4, <1>5

\* A file that has n blocks and gets one more.
Grown(D, E, f, n) ==
    /\ Exact(E, f, n + 1)
    /\ slot(E, f, n) \in Block \ bits(D.bmap)
    /\ \A k \in 0 .. n - 1 : slot(E, f, k) = slot(D, f, k) /\ slot(D, f, k) # E.inode[f].single
    /\ owns(D, f) \subseteq owns(E, f) /\ bits(E.bmap) \subseteq bits(D.bmap) \cup owns(E, f)
    /\ \A y \in Block : E.blk[y] = D.blk[y] \/ E.blk[y] \in Pointers
    /\ n # DIRECT => \E b \in Block \ bits(D.bmap) : bits(E.bmap) = bits(D.bmap) \cup {b}
    /\ n = DIRECT => \E b, x \in Block \ bits(D.bmap) : bits(E.bmap) = bits(D.bmap) \cup {b, x}

\* A direct pointer: a file of n blocks has one more.
LEMMA DirectGrows ==
    ASSUME NEW D, DiskForm(D), NEW f \in File, InodeForm(D, f), owns(D, f) \subseteq bits(D.bmap),
           NEW n, Exact(D, f, n), bits(D.bmap) # Block,
           NEW E, NEW b, NEW s, NextDirect(D, E, f, b, s)
    PROVE  Grown(D, E, f, n)
<1>1. /\ DiskForm(E) /\ E.blk = D.blk
      /\ b \in Block \ bits(D.bmap)
      /\ bits(E.bmap) = bits(D.bmap) \cup {b}
      /\ s \in 0 .. DIRECT - 1 /\ D.inode[f].direct[s] = NULL_BLOCK
      /\ \A k \in 0 .. s - 1 : D.inode[f].direct[k] # NULL_BLOCK
      /\ E.inode[f].single = D.inode[f].single
      /\ E.inode[f].direct[s] = b
      /\ \A k \in (0 .. DIRECT - 1) \ {s} : E.inode[f].direct[k] = D.inode[f].direct[k]
  BY Sizes DEF NextDirect, Address
<1> PICK i : i = D.inode[f]
  OBVIOUS
<1> PICK j : j = E.inode[f]
  OBVIOUS
<1>2. n \in 0 .. DIRECT + PTRS /\ (\A k \in 0 .. DIRECT - 1 : i.direct[k] # NULL_BLOCK <=> k < n)
      /\ (i.single # NULL_BLOCK <=> n > DIRECT)
  BY DEF Exact
<1>3. s = n /\ n < DIRECT /\ i.single = NULL_BLOCK
  <2>1. ~ (s < n)
    BY <1>1, <1>2
  <2>2. ~ (n < s)
    <3> SUFFICES ASSUME n < s PROVE FALSE
      OBVIOUS
    <3>1. n \in 0 .. s - 1 /\ n \in 0 .. DIRECT - 1
      BY <1>1, <1>2, Sizes
    <3> QED BY <1>1, <1>2, <3>1
  <2> QED BY <1>1, <1>2, <2>1, <2>2, Sizes
<1>4. InodeForm(E, f)
  BY DirectKeeps DEF Kept
<1>5. Exact(E, f, n + 1)
  <2>1. n + 1 \in 0 .. DIRECT + PTRS /\ ~ (n + 1 > DIRECT) /\ j.single = NULL_BLOCK
    BY <1>1, <1>2, <1>3, Sizes
  <2>2. ASSUME NEW k \in 0 .. DIRECT - 1 PROVE j.direct[k] # NULL_BLOCK <=> k < n + 1
    <3>1. CASE k = n
      BY <1>1, <1>2, <1>3, <3>1, Sizes
    <3>2. CASE k # n
      <4>1. j.direct[k] = i.direct[k]
        BY <1>1, <1>3, <3>2
      <4> QED BY <1>2, <3>2, <4>1
    <3> QED BY <3>1, <3>2
  <2> QED BY <2>1, <2>2 DEF Exact
<1>6. slot(E, f, n) = b
  BY <1>1, <1>3 DEF slot
<1>7. \A k \in 0 .. n - 1 : slot(E, f, k) = slot(D, f, k) /\ slot(D, f, k) # j.single
  <2> SUFFICES ASSUME NEW k \in 0 .. n - 1
               PROVE  slot(E, f, k) = slot(D, f, k) /\ slot(D, f, k) # j.single
    OBVIOUS
  <2>1. k \in 0 .. DIRECT - 1 /\ k # s /\ k < DIRECT /\ k < n
    BY <1>2, <1>3, Sizes
  <2>2. i.direct[k] # NULL_BLOCK
    BY <1>2, <2>1
  <2> QED BY <1>1, <1>3, <2>1, <2>2 DEF slot
<1>8. \A x : x \in owns(D, f) => x \in owns(E, f)
  <2> SUFFICES ASSUME NEW x, x \in owns(D, f) PROVE x \in owns(E, f)
    OBVIOUS
  <2>1. x # NULL_BLOCK /\ \E k \in 0 .. DIRECT - 1 : i.direct[k] = x
    BY <1>3, Owned
  <2>2. \E k \in 0 .. DIRECT - 1 : j.direct[k] = x
    BY <1>1, <2>1
  <2> QED BY <1>1, <1>4, <2>1, <2>2, Owned
<1>9. b \in owns(E, f)
  BY <1>1, <1>4, Owned, Sizes
<1> QED BY <1>1, <1>3, <1>5, <1>6, <1>7, <1>8, <1>9, Sizes DEF Grown

\* A new single indirect block: a file of n blocks has one more.
LEMMA SingleGrows ==
    ASSUME NEW D, DiskForm(D), NEW f \in File, InodeForm(D, f), owns(D, f) \subseteq bits(D.bmap),
           NEW n, Exact(D, f, n), bits(D.bmap) # Block,
           \A b \in Block : bits(D.bmap) \cup {b} # Block,
           NEW E, NEW b, NEW x, NextSingle(D, E, f, b, x)
    PROVE  Grown(D, E, f, n)
<1>1. /\ DiskForm(E) /\ DirectFull(D, f) /\ D.inode[f].single = NULL_BLOCK
      /\ b \in Block \ bits(D.bmap)
      /\ x \in Block \ (bits(D.bmap) \cup {b})
      /\ bits(E.bmap) = bits(D.bmap) \cup {b, x}
      /\ E.inode[f].single = x /\ E.inode[f].direct = D.inode[f].direct
      /\ E.blk[x] = one_pointer(b)
      /\ \A y \in Block \ {x} : E.blk[y] = D.blk[y]
  <2>1. b \in Block \ bits(D.bmap)
    BY Sizes DEF NextSingle, Address
  <2>2. x # NULL_BLOCK
    <3>1. Block \cup {b} = Block
      BY <2>1
    <3> QED BY <2>1, <3>1 DEF NextSingle
  <2> QED BY <2>1, <2>2, Sizes DEF NextSingle
<1> PICK i : i = D.inode[f]
  OBVIOUS
<1>2. n \in 0 .. DIRECT + PTRS /\ (\A k \in 0 .. DIRECT - 1 : i.direct[k] # NULL_BLOCK <=> k < n)
      /\ (i.single # NULL_BLOCK <=> n > DIRECT)
  BY DEF Exact
<1>3. n = DIRECT
  <2>1. DIRECT - 1 \in 0 .. DIRECT - 1
    BY Sizes
  <2>2. DIRECT - 1 < n
    BY <1>1, <1>2, <2>1 DEF DirectFull
  <2> QED BY <1>1, <1>2, <2>2, Sizes
<1>4. InodeForm(E, f)
  BY SingleKeeps DEF Kept
<1>5. \A k \in 0 .. DIRECT - 1 : i.direct[k] # NULL_BLOCK /\ i.direct[k] \in bits(D.bmap)
  BY <1>1, OwnMarked DEF DirectFull
<1>6. one_pointer(b)[0] = b /\ \A k \in 1 .. PTRS - 1 : one_pointer(b)[k] = NULL_BLOCK
  BY <1>1, OnePointer DEF Address
<1>7. Exact(E, f, n + 1)
  <2> PICK p : p = one_pointer(b)
    OBVIOUS
  <2>0. p[0] = b /\ \A k \in 0 .. PTRS - 1 : k # 0 => p[k] = NULL_BLOCK
    BY <1>6, Sizes
  <2>1. n + 1 \in 0 .. DIRECT + PTRS /\ n + 1 > DIRECT /\ x # NULL_BLOCK /\ b # NULL_BLOCK
    BY <1>1, <1>2, <1>3, Sizes
  <2>2. \A k \in 0 .. DIRECT - 1 : i.direct[k] # NULL_BLOCK <=> k < n + 1
    BY <1>3, <1>5, Sizes
  <2>3. \A k \in 0 .. PTRS - 1 : p[k] # NULL_BLOCK <=> DIRECT + k < n + 1
    BY <1>3, <2>0, <2>1, Sizes
  <2>4. \A j, k \in 0 .. PTRS - 1 : p[j] = p[k] /\ p[k] # NULL_BLOCK => j = k
    BY <2>0, <2>1
  <2>5. \A k \in 0 .. PTRS - 1 : p[k] # x
    BY <1>1, <2>0, <2>1
  <2>6. \A k \in 0 .. PTRS - 1 : \A j \in 0 .. DIRECT - 1 : i.direct[j] # p[k] \/ p[k] = NULL_BLOCK
    BY <1>1, <1>5, <2>0
  <2> QED BY <1>1, <2>1, <2>2, <2>3, <2>4, <2>5, <2>6 DEF Exact
<1>8. slot(E, f, n) = b
  BY <1>1, <1>3, <1>6, Sizes DEF slot
<1>9. \A k \in 0 .. n - 1 : slot(E, f, k) = slot(D, f, k) /\ slot(D, f, k) # E.inode[f].single
  <2> SUFFICES ASSUME NEW k \in 0 .. n - 1
               PROVE  slot(E, f, k) = slot(D, f, k) /\ slot(D, f, k) # E.inode[f].single
    OBVIOUS
  <2>1. k \in 0 .. DIRECT - 1 /\ k < DIRECT
    BY <1>3, Sizes
  <2> QED BY <1>1, <1>5, <2>1 DEF slot
<1>10. \A y : y \in owns(D, f) => y \in owns(E, f)
  <2> SUFFICES ASSUME NEW y, y \in owns(D, f) PROVE y \in owns(E, f)
    OBVIOUS
  <2>1. y # NULL_BLOCK /\ \E k \in 0 .. DIRECT - 1 : i.direct[k] = y
    BY <1>1, Owned
  <2>2. \E k \in 0 .. DIRECT - 1 : E.inode[f].direct[k] = y
    BY <1>1, <2>1
  <2> QED BY <1>1, <1>4, <2>1, <2>2, Owned
<1>11. b \in owns(E, f) /\ x \in owns(E, f)
  <2>1. x \in owns(E, f)
    BY <1>1, <1>4, Owned, Sizes
  <2>2. 0 \in 0 .. PTRS - 1 /\ E.blk[x][0] = b /\ b # NULL_BLOCK /\ x # NULL_BLOCK
    BY <1>1, <1>6, Sizes
  <2>3. b \in owns(E, f)
    BY <1>1, <1>4, <2>2, Owned
  <2> QED BY <2>1, <2>3
<1>12. \A y \in Block : E.blk[y] = D.blk[y] \/ E.blk[y] \in Pointers
  BY <1>1, OnePointer DEF Address
<1> QED BY <1>1, <1>3, <1>7, <1>8, <1>9, <1>10, <1>11, <1>12 DEF Grown

\* A pointer of the single indirect block: a file of n blocks has one more.
LEMMA IndirectGrows ==
    ASSUME NEW D, DiskForm(D), NEW f \in File, InodeForm(D, f), owns(D, f) \subseteq bits(D.bmap),
           NEW n, Exact(D, f, n), bits(D.bmap) # Block,
           NEW E, NEW b, NEW s, NextIndirect(D, E, f, b, s)
    PROVE  Grown(D, E, f, n)
<1> PICK x : x = D.inode[f].single
  OBVIOUS
<1> PICK i : i = D.inode[f]
  OBVIOUS
<1> PICK p : p = D.blk[x]
  OBVIOUS
<1> PICK q : q = E.blk[x]
  OBVIOUS
<1>1. /\ DiskForm(E) /\ x # NULL_BLOCK
      /\ b \in Block \ bits(D.bmap)
      /\ bits(E.bmap) = bits(D.bmap) \cup {b}
      /\ E.inode = D.inode
      /\ s \in 0 .. PTRS - 1 /\ p[s] = NULL_BLOCK
      /\ \A k \in 0 .. s - 1 : p[k] # NULL_BLOCK
      /\ q \in Pointers /\ q[s] = b
      /\ \A k \in (0 .. PTRS - 1) \ {s} : q[k] = p[k]
      /\ \A y \in Block \ {x} : E.blk[y] = D.blk[y]
  BY Sizes DEF NextIndirect, Address
<1>2. /\ n \in 0 .. DIRECT + PTRS /\ n > DIRECT
      /\ \A k \in 0 .. DIRECT - 1 : i.direct[k] # NULL_BLOCK <=> k < n
      /\ \A k \in 0 .. PTRS - 1 : p[k] # NULL_BLOCK <=> DIRECT + k < n
      /\ \A j, k \in 0 .. PTRS - 1 : p[j] = p[k] /\ p[k] # NULL_BLOCK => j = k
      /\ \A k \in 0 .. PTRS - 1 : p[k] # x
      /\ \A k \in 0 .. PTRS - 1 : \A j \in 0 .. DIRECT - 1 : i.direct[j] # p[k] \/ p[k] = NULL_BLOCK
  BY <1>1 DEF Exact
<1>3. n = DIRECT + s
  <2>1. ~ (DIRECT + s < n)
    BY <1>1, <1>2
  <2>2. ~ (n < DIRECT + s)
    <3> SUFFICES ASSUME n < DIRECT + s PROVE FALSE
      OBVIOUS
    <3>1. n - DIRECT \in 0 .. s - 1 /\ n - DIRECT \in 0 .. PTRS - 1
      BY <1>1, <1>2, Sizes
    <3>2. DIRECT + (n - DIRECT) < n
      BY <1>1, <1>2, <3>1
    <3> QED BY <1>2, <3>2, Sizes
  <2> QED BY <1>1, <1>2, <2>1, <2>2, Sizes
<1>4. InodeForm(E, f)
  BY IndirectKeeps DEF Kept
<1>5. /\ \A k \in 0 .. DIRECT - 1 : i.direct[k] # NULL_BLOCK => i.direct[k] \in bits(D.bmap)
      /\ x \in bits(D.bmap)
      /\ \A k \in 0 .. PTRS - 1 : p[k] # NULL_BLOCK => p[k] \in bits(D.bmap)
  BY <1>1, OwnMarked
<1>6. Exact(E, f, n + 1)
  <2>1. n + 1 \in 0 .. DIRECT + PTRS /\ n + 1 > DIRECT /\ b # NULL_BLOCK
    BY <1>1, <1>2, <1>3, Sizes
  <2>2. \A k \in 0 .. DIRECT - 1 : i.direct[k] # NULL_BLOCK <=> k < n + 1
    BY <1>2, Sizes
  <2>3. ASSUME NEW k \in 0 .. PTRS - 1 PROVE q[k] # NULL_BLOCK <=> DIRECT + k < n + 1
    <3>1. CASE k = s
      BY <1>1, <1>3, <2>1, <3>1, Sizes
    <3>2. CASE k # s
      <4>1. q[k] = p[k] /\ (p[k] # NULL_BLOCK <=> DIRECT + k < n)
        BY <1>1, <1>2, <3>2
      <4>2. s \in Nat
        BY <1>1
      <4>3. DIRECT + k < n <=> DIRECT + k < n + 1
        BY <1>3, <3>2, <4>2, Sizes
      <4> QED BY <4>1, <4>3
    <3> QED BY <3>1, <3>2
  <2>4. ASSUME NEW j \in 0 .. PTRS - 1, NEW k \in 0 .. PTRS - 1, q[j] = q[k], q[k] # NULL_BLOCK
        PROVE  j = k
    <3>1. /\ q[s] = b /\ \A l \in (0 .. PTRS - 1) \ {s} : q[l] = p[l]
          /\ \A l \in 0 .. PTRS - 1 : p[l] # b
      BY <1>1, <1>5, <2>1
    <3>2. CASE j = s \/ k = s
      BY <2>4, <3>1, <3>2
    <3>3. CASE j # s /\ k # s
      <4>1. p[j] = p[k] /\ p[k] # NULL_BLOCK
        BY <2>4, <3>1, <3>3
      <4> QED BY <1>2, <4>1
    <3> QED BY <3>2, <3>3
  <2>5. \A k \in 0 .. PTRS - 1 : q[k] # x
    BY <1>1, <1>2, <1>5
  <2>6. \A k \in 0 .. PTRS - 1 : \A j \in 0 .. DIRECT - 1 : i.direct[j] # q[k] \/ q[k] = NULL_BLOCK
    BY <1>1, <1>2, <1>5, <2>1
  <2>7. E.inode[f] = i /\ i.single = x /\ E.blk[x] = q /\ x # NULL_BLOCK
    BY <1>1
  <2>8. /\ \A k \in 0 .. PTRS - 1 : E.blk[x][k] # NULL_BLOCK <=> DIRECT + k < n + 1
        /\ \A j, k \in 0 .. PTRS - 1 : E.blk[x][j] = E.blk[x][k] /\ E.blk[x][k] # NULL_BLOCK => j = k
    BY <2>3, <2>4, <2>7
  <2>9. /\ \A k \in 0 .. PTRS - 1 : E.blk[x][k] # x
        /\ \A k \in 0 .. PTRS - 1 : \A j \in 0 .. DIRECT - 1 :
              i.direct[j] # E.blk[x][k] \/ E.blk[x][k] = NULL_BLOCK
    BY <2>5, <2>6, <2>7
  <2> QED BY <2>1, <2>2, <2>7, <2>8, <2>9 DEF Exact
<1>7. slot(E, f, n) = b
  BY <1>1, <1>3, Sizes DEF slot
<1>8. \A k \in 0 .. n - 1 : slot(E, f, k) = slot(D, f, k) /\ slot(D, f, k) # x
  <2> SUFFICES ASSUME NEW k \in 0 .. n - 1
               PROVE  slot(E, f, k) = slot(D, f, k) /\ slot(D, f, k) # x
    OBVIOUS
  <2>1. CASE k < DIRECT
    <3>1. k \in 0 .. DIRECT - 1
      BY <2>1, Sizes
    <3>2. i.direct[k] # x
      BY <1>1, <3>1 DEF InodeForm
    <3> QED BY <1>1, <2>1, <3>2 DEF slot
  <2>2. CASE ~ (k < DIRECT)
    <3>1. k - DIRECT \in 0 .. PTRS - 1 /\ k - DIRECT # s
      BY <1>1, <1>2, <1>3, <2>2, Sizes
    <3> QED BY <1>1, <1>2, <2>2, <3>1 DEF slot
  <2> QED BY <2>1, <2>2
<1>9. \A y : y \in owns(D, f) => y \in owns(E, f)
  <2> SUFFICES ASSUME NEW y, y \in owns(D, f) PROVE y \in owns(E, f)
    OBVIOUS
  <2>1. /\ y # NULL_BLOCK
        /\ \/ \E k \in 0 .. DIRECT - 1 : i.direct[k] = y
           \/ x # NULL_BLOCK /\ \E k \in 0 .. PTRS - 1 : p[k] = y
           \/ x = y
    BY Owned
  <2>2. (/\ y # NULL_BLOCK
         /\ \/ \E k \in 0 .. DIRECT - 1 : i.direct[k] = y
            \/ x # NULL_BLOCK /\ \E k \in 0 .. PTRS - 1 : q[k] = y
            \/ x = y) => y \in owns(E, f)
    BY <1>1, <1>4, Owned
  <2>3. (\E k \in 0 .. PTRS - 1 : p[k] = y) => \E k \in 0 .. PTRS - 1 : q[k] = y
    BY <1>1, <2>1
  <2> QED BY <2>1, <2>2, <2>3
<1>10. b \in owns(E, f)
  BY <1>1, <1>4, Owned, Sizes
<1>11. \A y \in Block : E.blk[y] = D.blk[y] \/ E.blk[y] \in Pointers
  BY <1>1
<1> QED BY <1>1, <1>2, <1>3, <1>6, <1>7, <1>8, <1>9, <1>10, <1>11 DEF Grown

\* With free blocks enough create_next_file_block gives a file of n blocks one
\* more, and that is block n.
LEMMA NextGrows ==
    ASSUME NEW D, DiskForm(D), NEW f \in File, InodeForm(D, f), owns(D, f) \subseteq bits(D.bmap),
           NEW n, Exact(D, f, n), n < DIRECT + PTRS, bits(D.bmap) # Block,
           n = DIRECT => \A b \in Block : bits(D.bmap) \cup {b} # Block,
           NEW E, E = create_next_file_block(D, f)
    PROVE  Grown(D, E, f, n)
<1>1. ASSUME NEW b, NEW x, NextSingle(D, E, f, b, x) PROVE Grown(D, E, f, n)
  <2>1. n = DIRECT
    <3>1. DIRECT - 1 \in 0 .. DIRECT - 1
      BY Sizes
    <3>2. D.inode[f].direct[DIRECT - 1] # NULL_BLOCK /\ D.inode[f].single = NULL_BLOCK
      BY <1>1, <3>1 DEF NextSingle, DirectFull
    <3>3. n \in Nat /\ DIRECT - 1 < n /\ ~ (n > DIRECT)
      BY <3>1, <3>2, Sizes DEF Exact
    <3> QED BY <3>3, Sizes
  <2> QED BY <1>1, <2>1, SingleGrows
<1>2. ASSUME NEW x, NextDouble(D, E, f, x) PROVE FALSE
  <2>1. n > DIRECT /\ n \in Nat
    BY <1>2, Sizes DEF NextDouble, Exact
  <2>2. n - DIRECT \in 0 .. PTRS - 1
    BY <2>1, Sizes
  <2>3. D.blk[D.inode[f].single][n - DIRECT] # NULL_BLOCK
    BY <1>2, <2>2 DEF NextDouble
  <2>4. DIRECT + (n - DIRECT) < n
    BY <2>1, <2>2, <2>3 DEF Exact
  <2> QED BY <2>1, <2>4, Sizes
<1>3. ASSUME NEW b, NEW s, NextDirect(D, E, f, b, s) PROVE Grown(D, E, f, n)
  BY <1>3, DirectGrows
<1>4. ASSUME NEW b, NEW s, NextIndirect(D, E, f, b, s) PROVE Grown(D, E, f, n)
  BY <1>4, IndirectGrows
<1> QED BY <1>1, <1>2, <1>3, <1>4, NextBlock

\* What tells the blocks of a file apart.
Tidy(D, f) == InodeForm(D, f) /\ (Big => \E m : Exact(D, f, m))

\* Blocks of a file are different blocks, and none is its indirect block.
LEMMA SlotsDistinct ==
    ASSUME NEW D, NEW f \in File, Tidy(D, f), NEW k \in 0 .. Slots - 1, slot(D, f, k) \in Block
    PROVE  /\ slot(D, f, k) # D.inode[f].single
           /\ \A j \in 0 .. Slots - 1 : slot(D, f, j) = slot(D, f, k) => j = k
<1> PICK i : i = D.inode[f]
  OBVIOUS
<1> PICK p : p = D.blk[i.single]
  OBVIOUS
<1>0. NULL_BLOCK \notin Block
  BY Sizes
<1>1. /\ \A j, l \in 0 .. DIRECT - 1 : i.direct[j] = i.direct[l] /\ i.direct[l] # NULL_BLOCK => j = l
      /\ i.single # NULL_BLOCK => \A l \in 0 .. DIRECT - 1 : i.direct[l] # i.single
  BY DEF Tidy, InodeForm
<1>2. ASSUME NEW j \in 0 .. Slots - 1, ~ (j < DIRECT) PROVE Big /\ j - DIRECT \in 0 .. PTRS - 1
  BY <1>2, Sizes DEF Slots
<1>3. ASSUME NEW j \in 0 .. Slots - 1, slot(D, f, j) \in Block, ~ (j < DIRECT)
      PROVE  /\ slot(D, f, j) = p[j - DIRECT] /\ i.single # NULL_BLOCK
             /\ \A l \in 0 .. PTRS - 1 : p[l] = p[j - DIRECT] => l = j - DIRECT
             /\ p[j - DIRECT] # i.single
             /\ \A l \in 0 .. DIRECT - 1 : i.direct[l] # p[j - DIRECT]
  <2>1. i.single # NULL_BLOCK /\ slot(D, f, j) = p[j - DIRECT]
    BY <1>0, <1>3 DEF slot
  <2> PICK m : Exact(D, f, m)
    BY <1>2, <1>3 DEF Tidy
  <2>2. /\ \A h, l \in 0 .. PTRS - 1 : p[h] = p[l] /\ p[l] # NULL_BLOCK => h = l
        /\ \A h \in 0 .. PTRS - 1 : p[h] # i.single
        /\ \A h \in 0 .. PTRS - 1 : \A l \in 0 .. DIRECT - 1 : i.direct[l] # p[h] \/ p[h] = NULL_BLOCK
    BY <2>1 DEF Exact
  <2>3. j - DIRECT \in 0 .. PTRS - 1 /\ p[j - DIRECT] # NULL_BLOCK
    BY <1>0, <1>2, <1>3, <2>1
  <2> QED BY <2>1, <2>2, <2>3
<1>4. ASSUME NEW j \in 0 .. Slots - 1, j < DIRECT
      PROVE  j \in 0 .. DIRECT - 1 /\ slot(D, f, j) = i.direct[j]
  BY <1>4, Sizes DEF slot
<1>5. slot(D, f, k) # i.single
  BY <1>0, <1>1, <1>3, <1>4
<1>6. ASSUME NEW j \in 0 .. Slots - 1, slot(D, f, j) = slot(D, f, k) PROVE j = k
  <2>0. Slots \in Nat
    BY Sizes DEF Slots
  <2>1. CASE j < DIRECT /\ k < DIRECT
    BY <1>0, <1>1, <1>4, <1>6, <2>1
  <2>2. CASE j < DIRECT /\ ~ (k < DIRECT)
    BY <1>3, <1>4, <1>6, <2>2
  <2>3. CASE ~ (j < DIRECT) /\ k < DIRECT
    BY <1>3, <1>4, <1>6, <2>3
  <2>4. CASE ~ (j < DIRECT) /\ ~ (k < DIRECT)
    <3>1. j - DIRECT = k - DIRECT
      BY <1>2, <1>3, <1>6, <2>4
    <3> QED BY <2>0, <3>1, Sizes
  <2> QED BY <2>1, <2>2, <2>3, <2>4
<1> QED BY <1>5, <1>6

\* A block is written where none but the file leads to it, and not by the way
\* of it: the i-nodes stay.
LEMMA DataUnmoved ==
    ASSUME NEW D, DiskForm(D), NEW F \in SUBSET File, Separate(D, F), NEW f \in F,
           NEW E, E.inode = D.inode, E.bmap = D.bmap,
           NEW x \in owns(D, f), x # D.inode[f].single,
           \A y \in Block \ {x} : E.blk[y] = D.blk[y]
    PROVE  /\ Separate(E, F) /\ \A g \in F : owns(E, g) = owns(D, g)
           /\ \A g \in F : \A n : Exact(D, g, n) => Exact(E, g, n)
           /\ \A k : slot(E, f, k) = slot(D, f, k)
<1>1. \A g \in F : D.inode[g].single # NULL_BLOCK => D.inode[g].single \in Block \ {x}
  <2> SUFFICES ASSUME NEW g \in F, D.inode[g].single # NULL_BLOCK
               PROVE  D.inode[g].single \in Block \ {x}
    OBVIOUS
  <2>1. D.inode[g].single \in owns(D, g)
    BY DEF owns
  <2>2. D.inode[g].single \in Block
    BY DiskFields DEF Address
  <2>3. g # f => D.inode[g].single # x
    BY <2>1 DEF Separate
  <2> QED BY <2>2, <2>3
<1>2. \A g \in F : /\ owns(E, g) = owns(D, g) /\ (InodeForm(D, g) => InodeForm(E, g))
                   /\ \A n : Exact(D, g, n) => Exact(E, g, n)
  BY <1>1, InodeUnmoved
<1>3. Separate(E, F)
  BY <1>2 DEF Separate
<1>4. \A k : slot(E, f, k) = slot(D, f, k)
  BY <1>1 DEF slot
<1> QED BY <1>2, <1>3, <1>4

-----------------------------------------------------------------------------
(***************************************************************************)
(* One turn of the loop of write2.                                         *)
(***************************************************************************)
\* n bytes from p on, of L, lie in one block, and are those at its places from
\* p % BS on.
TurnSpan(p, L, n) ==
    /\ n \in 1 .. L /\ (p % BS) + n <= BS /\ ceil(p + n) = (p \div BS) + 1
    /\ ceil(p) = IF p % BS = 0 THEN p \div BS ELSE (p \div BS) + 1
    /\ \A o \in p .. p + n - 1 : o \div BS = p \div BS /\ o % BS = (p % BS) + (o - p)
    /\ \A o \in Nat : o \div BS = p \div BS /\ o % BS \in (p % BS) .. (p % BS) + n - 1 =>
                          o \in p .. p + n - 1

\* What one turn copies: one byte at least, to the end of the block at most.
LEMMA TurnBytes ==
    ASSUME NEW p \in Nat, NEW L \in Nat \ {0}, NEW n, n = least({L, BS - (p % BS)})
    PROVE  TurnSpan(p, L, n)
<1> PICK q \in Nat, r \in 0 .. BS - 1 : /\ q = p \div BS /\ r = p % BS
                                        /\ q * BS \in Nat /\ p = q * BS + r
  BY OffsetSplits
<1>0. BS \in Nat /\ BS > 0
  BY Sizes
<1>1. n \in {L, BS - r} /\ \A m \in {L, BS - r} : n <= m
  <2>1. {L, BS - r} \subseteq Nat /\ {L, BS - r} # {}
    BY <1>0
  <2> QED BY <2>1, LeastIsLeast
<1>2. n \in 1 .. L /\ r + n <= BS
  BY <1>0, <1>1
<1>3. ASSUME NEW o \in p .. p + n - 1 PROVE o \div BS = q /\ o % BS = r + (o - p)
  <2>0. n \in Nat /\ o \in Nat /\ o - p \in 0 .. n - 1
    BY <1>2
  <2>1. r + (o - p) \in 0 .. BS - 1
    BY <1>0, <1>2, <2>0
  <2>2. o = q * BS + (r + (o - p))
    BY <1>0, <2>0
  <2> QED BY <2>1, <2>2, OffsetJoins
<1>4. ASSUME NEW o \in Nat, o \div BS = q, o % BS \in r .. r + n - 1 PROVE o \in p .. p + n - 1
  <2>1. o = q * BS + (o % BS)
    BY <1>4, OffsetSplits
  <2> QED BY <1>2, <1>4, <2>1
<1>5. ceil(p + n) = q + 1
  <2>1. CASE r + n = BS
    <3>1. (q + 1) * BS = q * BS + BS
      BY <1>0, SMTT(20)
    <3>2. p + n = (q + 1) * BS + 0 /\ q + 1 \in Nat /\ 0 \in 0 .. BS - 1
      BY <1>0, <1>2, <2>1, <3>1
    <3> QED BY <3>2, Ceil
  <2>2. CASE r + n # BS
    <3>1. r + n \in 0 .. BS - 1 /\ r + n # 0 /\ p + n = q * BS + (r + n)
      BY <1>0, <1>2, <2>2
    <3> QED BY <3>1, Ceil
  <2> QED BY <2>1, <2>2
<1>6. ceil(p) = IF r = 0 THEN q ELSE q + 1
  BY Ceil
<1> QED BY <1>2, <1>3, <1>4, <1>5, <1>6 DEF TurnSpan

\* Every offset is in one of the blocks a file can have.
LEMMA OffsetSlot ==
    ASSUME Fits, NEW o \in Offset
    PROVE  o \in Nat /\ o \div BS \in 0 .. Slots - 1 /\ o % BS \in 0 .. BS - 1
<1>1. o \in Nat /\ o < MaxBytes
  BY Sizes DEF Offset
<1>2. o \div BS \in Nat /\ o % BS \in 0 .. BS - 1
  BY <1>1, OffsetSplits
<1>3. Slots \in Nat /\ Slots * BS \in Nat
  <2>1. Slots \in Nat
    BY Sizes DEF Slots
  <2> QED BY <2>1, CeilBound, <1>1
<1>4. MaxBytes <= Slots * BS
  <2>0. DIRECT * BS \in Nat
    BY Sizes, CeilBound
  <2>1. CASE Big
    BY <2>1 DEF Slots, Fits
  <2>2. CASE ~ Big
    BY <2>0, <2>2, Sizes DEF Big, Slots
  <2> QED BY <2>1, <2>2
<1>5. o < Slots * BS
  BY <1>1, <1>3, <1>4, Sizes
<1>6. o \div BS < Slots
  BY <1>1, <1>3, <1>5, CeilBound
<1> QED BY <1>1, <1>2, <1>3, <1>6

\* A block of the file at hand is written: the bytes copied are in it, the
\* others are those it had, or those of nobody in a new block.
WriteOutcome(D, E, x, w, new) ==
    LET off == w.pointer % BS
    IN  /\ DiskForm(E) /\ E.bmap = D.bmap /\ E.inode = D.inode /\ E.rec = D.rec
        /\ \A y \in Block \ {x} : E.blk[y] = D.blk[y]
        /\ \A j \in 0 .. BS - 1 :
              E.blk[x][j] = IF j \in off .. off + bytes_to_copy(w) - 1 THEN w.left[j - off + 1]
                            ELSE IF new THEN unwritten ELSE D.blk[x][j]
        /\ new \/ D.blk[x] \in Data => E.blk[x] \in Data

\* write_file_block writes the block at the pointer, if there is one.
LEMMA BlockWritten ==
    ASSUME Fits, NEW D, DiskForm(D), NEW f \in File, InodeForm(D, f),
           NEW w, w.pointer \in Offset, w.left \in Seq(Value), w.left # <<>>, NEW new \in BOOLEAN,
           NEW x \in Block, x = slot(D, f, w.pointer \div BS),
           NEW E, E = write_file_block(D, f, w, new)
    PROVE  ~ write_file_block_fails(D, f, w) /\ WriteOutcome(D, E, x, w, new)
<1>0. ASSUME NEW data, E = set_block(D, x, data)
      PROVE  /\ DiskForm(E) /\ E.bmap = D.bmap /\ E.inode = D.inode /\ E.rec = D.rec
             /\ E.blk[x] = data /\ \A y \in Block \ {x} : E.blk[y] = D.blk[y]
  BY <1>0, BlockSet
<1> PICK k : k = w.pointer \div BS
  OBVIOUS
<1> PICK off : off = w.pointer % BS
  OBVIOUS
<1> PICK n : n = bytes_to_copy(w)
  OBVIOUS
<1>1. k \in 0 .. Slots - 1 /\ off \in 0 .. BS - 1 /\ w.pointer \in Nat
  BY OffsetSlot
<1>2. get_file_logic_block_addr(D, f, k) = x /\ x # NULL_BLOCK
  BY <1>1, SlotRead, Sizes
<1>3. ~ write_file_block_fails(D, f, w)
  BY <1>2 DEF write_file_block_fails
<1> PICK kept : kept = block_buffer(D, f, k, new)
  OBVIOUS
<1>4. kept = IF new THEN [j \in 0 .. BS - 1 |-> unwritten] ELSE D.blk[x]
  BY <1>2 DEF block_buffer
<1> PICK data : data = [j \in 0 .. BS - 1 |-> IF j \in off .. off + n - 1 THEN w.left[j - off + 1]
                                               ELSE kept[j]]
  OBVIOUS
<1>5. E = set_block(D, x, data)
  <2>1. write_file_block(D, f, w, new) =
           IF get_file_logic_block_addr(D, f, k) = NULL_BLOCK THEN D
           ELSE [D EXCEPT !.blk[get_file_logic_block_addr(D, f, k)] = data]
    BY DEF write_file_block
  <2> QED BY <1>2, <2>1 DEF set_block
<1>6. /\ DiskForm(E) /\ E.bmap = D.bmap /\ E.inode = D.inode /\ E.rec = D.rec
      /\ E.blk[x] = data /\ \A y \in Block \ {x} : E.blk[y] = D.blk[y]
  BY <1>0, <1>5
<1>7. \A j \in 0 .. BS - 1 :
          data[j] = IF j \in off .. off + n - 1 THEN w.left[j - off + 1]
                    ELSE IF new THEN unwritten ELSE D.blk[x][j]
  BY <1>4
<1>8. n \in 1 .. Len(w.left) /\ off + n <= BS /\ Len(w.left) \in Nat
  <2>1. Len(w.left) \in Nat \ {0}
    OBVIOUS
  <2>2. TurnSpan(w.pointer, Len(w.left), n)
    BY <1>1, <2>1, TurnBytes DEF bytes_to_copy
  <2> QED BY <2>1, <2>2 DEF TurnSpan
<1>9. new \/ D.blk[x] \in Data => data \in Data
  <2> SUFFICES ASSUME new \/ D.blk[x] \in Data PROVE data \in Data
    OBVIOUS
  <2>1. ASSUME NEW j \in 0 .. BS - 1 PROVE data[j] \in Value \cup {unwritten}
    <3>1. CASE j \in off .. off + n - 1
      <4>0. off \in Nat /\ n \in Nat /\ j \in Nat
        BY <1>1, <1>8
      <4>1. j - off + 1 \in 1 .. Len(w.left)
        BY <1>8, <3>1, <4>0
      <4>2. w.left \in [1 .. Len(w.left) -> Value]
        OBVIOUS
      <4> QED BY <1>7, <3>1, <4>1, <4>2
    <3>2. CASE ~ (j \in off .. off + n - 1)
      <4>1. D.blk[x] \in Data => D.blk[x][j] \in Value \cup {unwritten}
        BY DEF Data
      <4> QED BY <1>7, <3>2, <4>1
    <3> QED BY <3>1, <3>2
  <2> QED BY <2>1 DEF Data
<1>10. WriteOutcome(D, E, x, w, new)
  BY <1>6, <1>7, <1>9 DEF WriteOutcome
<1> QED BY <1>3, <1>10

\* From D to E file f, one of F, may get a block: what the files had they have.
Extended(D, E, F, f) ==
    /\ DiskForm(E) /\ E.rec = D.rec /\ Separate(E, F)
    /\ \A g \in F \ {f} : /\ E.inode[g] = D.inode[g] /\ owns(E, g) = owns(D, g)
                          /\ \A x \in owns(D, g) : E.blk[x] = D.blk[x]
    /\ \A k \in 0 .. Slots - 1 : slot(D, f, k) \in Block =>
          slot(E, f, k) = slot(D, f, k) /\ E.blk[slot(D, f, k)] = D.blk[slot(D, f, k)]

\* create_next_file_block leaves the blocks the file had where they were, and
\* what they hold.
LEMMA NextExtends ==
    ASSUME Fits, NEW D, DiskForm(D), NEW F \in SUBSET File, Separate(D, F), NEW f \in F,
           NEW E, E = create_next_file_block(D, f),
           FullDisk \/ \E n : Exact(D, f, n) /\ Grown(D, E, f, n)
    PROVE  Extended(D, E, F, f)
<1>1. f \in File /\ InodeForm(D, f) /\ owns(D, f) \subseteq bits(D.bmap)
  BY DEF Separate
<1>2. Kept(D, E, f)
  BY <1>1, NextKeeps
<1>3. /\ DiskForm(E) /\ E.rec = D.rec
      /\ \A g \in File \ {f} : E.inode[g] = D.inode[g]
      /\ \A x \in bits(D.bmap) : x # D.inode[f].single => E.blk[x] = D.blk[x]
      /\ \A k \in 0 .. DIRECT - 1 :
            D.inode[f].direct[k] # NULL_BLOCK => E.inode[f].direct[k] = D.inode[f].direct[k]
  BY <1>2 DEF Kept
<1>4. /\ Separate(E, F) /\ \A g \in F \ {f} : owns(E, g) = owns(D, g)
      /\ \A g \in F \ {f} : \A x \in owns(D, g) : E.blk[x] = D.blk[x]
  BY <1>2, StaySeparate
<1>5. Tidy(D, f)
  BY <1>1, BigHasRoom DEF Tidy
<1>6. ASSUME NEW k \in 0 .. Slots - 1, slot(D, f, k) \in Block
      PROVE  slot(E, f, k) = slot(D, f, k) /\ E.blk[slot(D, f, k)] = D.blk[slot(D, f, k)]
  <2>1. slot(D, f, k) # D.inode[f].single /\ slot(D, f, k) \in bits(D.bmap)
    BY <1>1, <1>5, <1>6, SlotsDistinct, SlotRead
  <2>2. slot(E, f, k) = slot(D, f, k)
    <3>1. CASE k < DIRECT
      <4>1. k \in 0 .. DIRECT - 1 /\ slot(D, f, k) = D.inode[f].direct[k]
            /\ slot(E, f, k) = E.inode[f].direct[k] /\ D.inode[f].direct[k] # NULL_BLOCK
        BY <1>6, <3>1, Sizes DEF slot
      <4> QED BY <1>3, <4>1
    <3>2. CASE ~ (k < DIRECT)
      <4>1. Big /\ k \in Nat
        BY <3>2, Sizes DEF Slots
      <4>2. PICK n : Exact(D, f, n) /\ Grown(D, E, f, n)
        BY <4>1, BigHasRoom
      <4>3. D.inode[f].single # NULL_BLOCK /\ D.blk[D.inode[f].single][k - DIRECT] # NULL_BLOCK
            /\ k - DIRECT \in 0 .. PTRS - 1
        BY <1>6, <3>2, <4>1, Sizes DEF slot, Slots
      <4> PICK j : j = k - DIRECT
        OBVIOUS
      <4> PICK p : p = D.blk[D.inode[f].single]
        OBVIOUS
      <4>6. n \in 0 .. DIRECT + PTRS /\ n > DIRECT
            /\ \A l \in 0 .. PTRS - 1 : p[l] # NULL_BLOCK <=> DIRECT + l < n
        BY <4>2, <4>3 DEF Exact
      <4>7. DIRECT + j < n
        BY <4>3, <4>6
      <4>4. n \in Nat /\ DIRECT + (k - DIRECT) < n
        BY <4>6, <4>7, Sizes
      <4>5. k \in 0 .. n - 1
        BY <4>1, <4>4, Sizes
      <4> QED BY <4>2, <4>5 DEF Grown
    <3> QED BY <3>1, <3>2
  <2> QED BY <1>3, <2>1, <2>2
<1>7. \A g \in F \ {f} : E.inode[g] = D.inode[g]
  BY <1>3
<1> QED BY <1>3, <1>4, <1>6, <1>7 DEF Extended

\* Counting the blocks that are free.
LEMMA FreeBlocks ==
    ASSUME NEW B
    PROVE  /\ Cardinality(Block \ B) \in Nat
           /\ \A b \in Block \ B : Cardinality(Block \ (B \cup {b})) = Cardinality(Block \ B) - 1
           /\ Cardinality(Block \ B) > 0 => B # Block
           /\ Cardinality(Block \ B) > 1 => \A b \in Block : B \cup {b} # Block
<1>1. IsFiniteSet(Block)
  <2>1. NBYTES * BITS - 1 \in Int
    BY BitmapAssumption
  <2> QED BY <2>1, FS_Interval DEF Block, Bits
<1>2. \A C : IsFiniteSet(Block \ C) /\ Cardinality(Block \ C) \in Nat
  BY <1>1, FS_Difference, FS_CardinalityType
<1>3. \A b : Cardinality((Block \ B) \ {b}) = IF b \in Block \ B THEN Cardinality(Block \ B) - 1
                                              ELSE Cardinality(Block \ B)
  BY <1>2, FS_RemoveElement
<1>4. \A b : Block \ (B \cup {b}) = (Block \ B) \ {b}
  OBVIOUS
<1>5. Cardinality(Block \ Block) = 0
  <2>1. Block \ Block = {}
    OBVIOUS
  <2> QED BY <2>1, FS_EmptySet
<1>6. ASSUME NEW b \in Block, B \cup {b} = Block, Cardinality(Block \ B) > 1 PROVE FALSE
  <2>1. Cardinality((Block \ B) \ {b}) = 0
    BY <1>4, <1>5, <1>6
  <2>2. Cardinality((Block \ B) \ {b}) \in {Cardinality(Block \ B) - 1, Cardinality(Block \ B)}
    BY <1>3
  <2> QED BY <1>2, <1>6, <2>1, <2>2
<1>7. ASSUME NEW b \in Block \ B PROVE Cardinality(Block \ (B \cup {b})) = Cardinality(Block \ B) - 1
  BY <1>3, <1>4
<1>8. Cardinality(Block \ B) > 0 => B # Block
  BY <1>5
<1> QED BY <1>2, <1>6, <1>7, <1>8

\* The blocks a write2 may still fill: one is kept for pointers until the file
\* has its indirect block.
Spare(D, f) ==
    Cardinality(Block \ bits(D.bmap)) - (IF D.inode[f].single = NULL_BLOCK THEN 1 ELSE 0)

\* Every block is of a file, and holds data or pointers.
Packed(D, F) ==
    /\ bits(D.bmap) = UNION {owns(D, g) : g \in F}
    /\ \A b \in Block : D.blk[b] \in Data \/ D.blk[b] \in Pointers

\* With room for one block more there is one, and the room is one block less.
LEMMA NextFits ==
    ASSUME NEW D, DiskForm(D), NEW F \in SUBSET File, Separate(D, F), NEW f \in F,
           NEW n, Exact(D, f, n), n < DIRECT + PTRS, NEW r \in Nat, Spare(D, f) >= r + 1,
           NEW E, E = create_next_file_block(D, f)
    PROVE  Grown(D, E, f, n) /\ Spare(E, f) >= r
<1>0. f \in File
  OBVIOUS
<1>1. InodeForm(D, f) /\ owns(D, f) \subseteq bits(D.bmap)
  BY DEF Separate
<1>2. n \in Nat /\ (D.inode[f].single = NULL_BLOCK <=> ~ (n > DIRECT))
  BY Sizes DEF Exact
<1> PICK c : c = Cardinality(Block \ bits(D.bmap))
  OBVIOUS
<1>3. c \in Nat
  BY FreeBlocks
<1>4. c >= r + 1 /\ (n = DIRECT => c >= r + 2) /\ (~ (n > DIRECT) => c >= r + 2)
  BY <1>2, <1>3, Sizes DEF Spare
<1>5. c > 0 /\ (n = DIRECT => c > 1)
  BY <1>3, <1>4
<1>6. bits(D.bmap) # Block /\ (n = DIRECT => \A b \in Block : bits(D.bmap) \cup {b} # Block)
  BY <1>5, FreeBlocks
<1>7. Grown(D, E, f, n)
  BY <1>0, <1>1, <1>6, NextGrows
<1>8. E.inode[f].single = NULL_BLOCK <=> ~ (n + 1 > DIRECT)
  BY <1>7 DEF Grown, Exact
<1> PICK d : d = Cardinality(Block \ bits(E.bmap))
  OBVIOUS
<1>9. n # DIRECT => d = c - 1
  <2> SUFFICES ASSUME n # DIRECT PROVE d = c - 1
    OBVIOUS
  <2>1. PICK b \in Block \ bits(D.bmap) : bits(E.bmap) = bits(D.bmap) \cup {b}
    BY <1>7 DEF Grown
  <2> QED BY <2>1, FreeBlocks
<1>10. n = DIRECT => d >= c - 2
  <2> SUFFICES ASSUME n = DIRECT PROVE d >= c - 2
    OBVIOUS
  <2>1. PICK b \in Block \ bits(D.bmap), x \in Block \ bits(D.bmap) :
           bits(E.bmap) = bits(D.bmap) \cup {b, x}
    BY <1>7 DEF Grown
  <2> PICK B : B = bits(D.bmap) \cup {b}
    OBVIOUS
  <2>2. Cardinality(Block \ B) = c - 1
    BY FreeBlocks
  <2>3. bits(E.bmap) = B \cup {x}
    BY <2>1
  <2>4. CASE x \in B
    <3>1. bits(E.bmap) = B
      BY <2>3, <2>4
    <3> QED BY <1>3, <2>2, <3>1
  <2>5. CASE x \notin B
    <3>1. x \in Block \ B
      BY <2>5
    <3>2. d = Cardinality(Block \ B) - 1
      BY <2>3, <3>1, FreeBlocks
    <3> QED BY <1>3, <2>2, <3>2
  <2> QED BY <2>4, <2>5
<1>11. d \in Nat
  BY FreeBlocks
<1>12. Spare(E, f) >= r
  <2>1. CASE n = DIRECT
    <3>1. E.inode[f].single # NULL_BLOCK
      BY <1>2, <1>8, <2>1, Sizes
    <3>2. Spare(E, f) = d
      BY <1>11, <3>1 DEF Spare
    <3> QED BY <1>3, <1>4, <1>10, <1>11, <2>1, <3>2
  <2>2. CASE n < DIRECT
    <3>1. Spare(E, f) >= d - 1
      BY <1>11 DEF Spare
    <3>2. c >= r + 2 /\ d = c - 1
      BY <1>2, <1>4, <1>9, <2>2, Sizes
    <3> QED BY <1>3, <1>11, <3>1, <3>2 DEF Spare
  <2>3. CASE n > DIRECT
    <3>1. E.inode[f].single # NULL_BLOCK
      BY <1>2, <1>8, <2>3, Sizes
    <3>2. Spare(E, f) = d
      BY <1>11, <3>1 DEF Spare
    <3>3. d = c - 1
      BY <1>2, <1>9, <2>3, Sizes
    <3> QED BY <1>3, <1>4, <1>11, <3>2, <3>3
  <2> QED BY <1>2, <2>1, <2>2, <2>3, Sizes
<1> QED BY <1>7, <1>12

\* A block that a file gets is marked and holds data or pointers.
LEMMA StayPacked ==
    ASSUME NEW D, DiskForm(D), NEW F \in SUBSET File, Separate(D, F), NEW f \in F,
           Packed(D, F), NEW E, Extended(D, E, F, f), NEW n, Grown(D, E, f, n)
    PROVE  Packed(E, F)
<1>1. /\ \A g \in F \ {f} : owns(E, g) = owns(D, g)
      /\ \A g \in F : owns(E, g) \subseteq bits(E.bmap)
  BY DEF Extended, Separate
<1>2. owns(D, f) \subseteq owns(E, f) /\ bits(E.bmap) \subseteq bits(D.bmap) \cup owns(E, f)
  BY DEF Grown
<1>3. \A x : x \in bits(E.bmap) => x \in UNION {owns(E, g) : g \in F}
  <2> SUFFICES ASSUME NEW x \in bits(E.bmap) PROVE \E g \in F : x \in owns(E, g)
    OBVIOUS
  <2>1. CASE x \in owns(E, f)
    BY <2>1
  <2>2. CASE x \notin owns(E, f)
    <3>1. x \in bits(D.bmap)
      BY <1>2, <2>2
    <3> PICK g \in F : x \in owns(D, g)
      BY <3>1 DEF Packed
    <3> QED BY <1>1, <1>2, <2>2
  <2> QED BY <2>1, <2>2
<1>4. bits(E.bmap) = UNION {owns(E, g) : g \in F}
  BY <1>1, <1>3
<1>5. \A b \in Block : E.blk[b] \in Data \/ E.blk[b] \in Pointers
  BY DEF Grown, Packed
<1> QED BY <1>4, <1>5 DEF Packed

(***************************************************************************)
(* A call of write2: D is the disk it began with, p the pointer, c the     *)
(* blocks the file had.  Where its loop has got to is w.                   *)
(***************************************************************************)
\* The byte at offset o.
byte(D, f, o) == D.blk[slot(D, f, o \div BS)][o % BS]

\* What is left of the buffer.
Moved(p, buffer, w) ==
    /\ w = [disk |-> w.disk, pointer |-> w.pointer, left |-> w.left,
            added |-> w.added, failed |-> w.failed]
    /\ w.pointer \in p .. p + Len(buffer) /\ w.added \in Nat /\ w.failed \in BOOLEAN
    /\ w.left \in Seq(Value) /\ Len(w.left) = Len(buffer) - (w.pointer - p)
    /\ \A j \in 1 .. Len(w.left) : w.left[j] = buffer[w.pointer - p + j]

\* The bytes from p to the pointer are those of the buffer, the others stay.
Copied(D, f, p, c, buffer, E, pointer) ==
    /\ \A o \in p .. pointer - 1 : slot(E, f, o \div BS) \in Block /\ byte(E, f, o) = buffer[o - p + 1]
    /\ \A o \in Offset \ (p .. pointer - 1) :
          slot(D, f, o \div BS) \in Block /\ o \div BS < c => byte(E, f, o) = byte(D, f, o)

\* The other files have what they had, this one has its blocks and more.
Intact(D, E, F, f) ==
    /\ DiskForm(E) /\ E.rec = D.rec /\ Separate(E, F)
    /\ \A g \in F \ {f} : /\ E.inode[g] = D.inode[g] /\ owns(E, g) = owns(D, g)
                          /\ \A x \in owns(D, g) : E.blk[x] = D.blk[x]
    /\ \A k \in 0 .. Slots - 1 : slot(D, f, k) \in Block => slot(E, f, k) = slot(D, f, k)

\* A block is added for each one that the pointer has entered past the first c.
Counted(p, c, pointer, added) ==
    p <= c * BS => IF ceil(pointer) <= c THEN added = 0 ELSE c + added = ceil(pointer)

\* With room on the disk: the file has n blocks, all filled, and there is
\* room for those that end will take.
Filled(E, F, f, n, end) ==
    /\ Exact(E, f, n) /\ Packed(E, F) /\ Spare(E, f) >= ceil(end) - n
    /\ \A k \in 0 .. n - 1 : E.blk[slot(E, f, k)] \in Data

\* The loop invariant.
Progress(D, F, f, p, c, buffer, w) ==
    /\ Moved(p, buffer, w) /\ Intact(D, w.disk, F, f)
    /\ Copied(D, f, p, c, buffer, w.disk, w.pointer) /\ Counted(p, c, w.pointer, w.added)
    /\ w.failed => FullDisk
    /\ ~FullDisk => Filled(w.disk, F, f, c + w.added, p + Len(buffer))

\* What holds of the call as a whole.
Call(D, F, f, p, c, buffer) ==
    /\ DiskForm(D) /\ F \in SUBSET File /\ f \in F
    /\ p \in Nat /\ c \in Nat /\ c = file[f].blocks /\ buffer \in Seq(Value)
    /\ p + Len(buffer) <= MaxBytes /\ (~FullDisk => p <= c * BS)

\* The disk a turn writes to.
extended(f, w) == IF needs_block(f, w.pointer) THEN create_next_file_block(w.disk, f) ELSE w.disk

\* Before the block is written.
Ready(D, F, f, p, c, buffer, w) ==
    LET E   == extended(f, w)
        k   == w.pointer \div BS
        new == needs_block(f, w.pointer)
        n   == c + w.added + (IF new THEN 1 ELSE 0)
    IN  /\ Extended(w.disk, E, F, f) /\ Tidy(E, f)
        /\ ~FullDisk => /\ Exact(E, f, n) /\ Packed(E, F) /\ Spare(E, f) >= ceil(p + Len(buffer)) - n
                        /\ slot(E, f, k) \in Block
                        /\ \A j \in 0 .. n - 1 : j # k \/ ~new => E.blk[slot(E, f, j)] \in Data
                        /\ new \/ k < n

\* What a turn begins with.
LEMMA TurnBegins ==
    ASSUME NEW D, NEW F, NEW f, NEW p, NEW c, NEW buffer, Call(D, F, f, p, c, buffer),
           NEW w, Progress(D, F, f, p, c, buffer, w), w.left # <<>>
    PROVE  /\ w.pointer \in Nat /\ w.pointer \in Offset /\ w.pointer < p + Len(buffer)
           /\ Len(w.left) \in Nat \ {0} /\ f \in File
<1>1. /\ w.pointer \in p .. p + Len(buffer) /\ w.left \in Seq(Value)
      /\ Len(w.left) = Len(buffer) - (w.pointer - p)
  BY DEF Progress, Moved
<1>2. p \in Nat /\ buffer \in Seq(Value) /\ p + Len(buffer) <= MaxBytes /\ f \in File
  BY DEF Call
<1>3. Len(w.left) \in Nat \ {0}
  BY <1>1
<1>4. Len(buffer) \in Nat
  BY <1>2
<1>5. w.pointer \in Nat /\ w.pointer < p + Len(buffer)
  BY <1>1, <1>2, <1>3, <1>4
<1>6. w.pointer \in Offset
  BY <1>2, <1>4, <1>5, Sizes DEF Offset
<1> QED BY <1>2, <1>3, <1>5, <1>6

\* Every slot that Exact counts is a block.
LEMMA ExactSlots ==
    ASSUME NEW D, DiskForm(D), NEW f \in File, InodeForm(D, f), NEW n, Exact(D, f, n),
           NEW k \in 0 .. n - 1
    PROVE  slot(D, f, k) \in Block
<1> PICK i : i = D.inode[f]
  OBVIOUS
<1> PICK q : q = D.blk[i.single]
  OBVIOUS
<1>1. /\ n \in 0 .. DIRECT + PTRS
      /\ \A j \in 0 .. DIRECT - 1 : i.direct[j] # NULL_BLOCK <=> j < n
      /\ i.single # NULL_BLOCK <=> n > DIRECT
      /\ n > DIRECT => \A j \in 0 .. PTRS - 1 : q[j] # NULL_BLOCK <=> DIRECT + j < n
  BY DEF Exact
<1>2. i.direct \in [0 .. DIRECT - 1 -> Address] /\ (i.single # NULL_BLOCK => q \in Pointers)
  BY DiskFields DEF InodeForm
<1>3. n \in Nat /\ k \in Nat /\ k < n
  BY <1>1, Sizes
<1>4. CASE k < DIRECT
  <2>1. k \in 0 .. DIRECT - 1
    BY <1>3, <1>4, Sizes
  <2> QED BY <1>1, <1>2, <1>3, <1>4, <2>1 DEF slot, Address
<1>5. CASE ~ (k < DIRECT)
  <2>1. k - DIRECT \in 0 .. PTRS - 1 /\ n > DIRECT /\ DIRECT + (k - DIRECT) < n
    BY <1>1, <1>3, <1>5, Sizes
  <2>2. q[k - DIRECT] # NULL_BLOCK /\ i.single # NULL_BLOCK
    BY <1>1, <2>1
  <2> QED BY <1>2, <1>5, <2>1, <2>2 DEF slot, Address, Pointers
<1> QED BY <1>4, <1>5

\* How many blocks the file has when a turn begins.
LEMMA TurnCounts ==
    ASSUME NEW D, NEW F, NEW f, NEW p, NEW c, NEW buffer, Call(D, F, f, p, c, buffer),
           NEW w, Progress(D, F, f, p, c, buffer, w), w.left # <<>>, p <= c * BS,
           NEW k, k = w.pointer \div BS, NEW n, n = c + w.added
    PROVE  /\ n \in Nat /\ k \in Nat /\ ceil(p + Len(buffer)) \in Nat /\ ceil(p + Len(buffer)) >= k + 1
           /\ needs_block(f, w.pointer) => n = k
           /\ ~ needs_block(f, w.pointer) => k < n
<1>1. w.pointer \in Nat /\ w.pointer < p + Len(buffer)
  BY TurnBegins
<1>2. c \in Nat /\ c = file[f].blocks /\ w.added \in Nat
  BY DEF Call, Progress, Moved
<1>3. p \in Nat /\ Len(buffer) \in Nat
  BY DEF Call
<1>4. IF ceil(w.pointer) <= c THEN w.added = 0 ELSE c + w.added = ceil(w.pointer)
  BY DEF Progress, Counted
<1>5. k \in Nat /\ ceil(w.pointer) = (IF w.pointer % BS = 0 THEN k ELSE k + 1)
  <2>1. PICK q \in Nat, r \in 0 .. BS - 1 : w.pointer = q * BS + r /\ q = w.pointer \div BS
                                            /\ r = w.pointer % BS
    BY <1>1, OffsetSplits
  <2> QED BY <2>1, Ceil
<1>6. ceil(p + Len(buffer)) \in Nat /\ ceil(p + Len(buffer)) >= k + 1
  <2>1. p + Len(buffer) \in Nat
    BY <1>3
  <2>2. ceil(p + Len(buffer)) \in Nat /\ p + Len(buffer) <= ceil(p + Len(buffer)) * BS
        /\ ceil(p + Len(buffer)) * BS \in Nat
    <3>1. ceil(p + Len(buffer)) \in Nat
      BY <2>1, CeilBound
    <3> QED BY <2>1, <3>1, CeilBound
  <2>3. w.pointer < ceil(p + Len(buffer)) * BS
    BY <1>1, <2>1, <2>2
  <2>4. k < ceil(p + Len(buffer))
    BY <1>1, <2>2, <2>3, CeilBound
  <2> QED BY <1>5, <2>2, <2>4
<1>7. n \in Nat
  BY <1>2
<1>8. ASSUME needs_block(f, w.pointer) PROVE n = k
  BY <1>2, <1>4, <1>5, <1>8 DEF needs_block
<1>9. ASSUME ~ needs_block(f, w.pointer) PROVE k < n
  <2>1. w.pointer % BS # 0 \/ ~ (k + 1 > c)
    BY <1>2, <1>9 DEF needs_block
  <2> QED BY <1>2, <1>4, <1>5, <2>1
<1> QED BY <1>5, <1>6, <1>7, <1>8, <1>9

\* When the block is written it is there, unless the disk was full.
LEMMA TurnReady ==
    ASSUME Fits, NEW D, NEW F, NEW f, NEW p, NEW c, NEW buffer, Call(D, F, f, p, c, buffer),
           NEW w, Progress(D, F, f, p, c, buffer, w), w.left # <<>>
    PROVE  Ready(D, F, f, p, c, buffer, w)
<1> PICK A : A = w.disk
  OBVIOUS
<1> PICK E : E = extended(f, w)
  OBVIOUS
<1> PICK k : k = w.pointer \div BS
  OBVIOUS
<1> PICK n : n = c + w.added
  OBVIOUS
<1> PICK end : end = ceil(p + Len(buffer))
  OBVIOUS
<1>1. F \in SUBSET File /\ f \in F /\ f \in File /\ (~FullDisk => p <= c * BS)
  BY DEF Call
<1>2. DiskForm(A) /\ Separate(A, F) /\ InodeForm(A, f)
  BY <1>1 DEF Progress, Intact, Separate
<1>3. k \in 0 .. Slots - 1
  BY TurnBegins, OffsetSlot
<1>4. ~FullDisk => /\ Exact(A, f, n) /\ Packed(A, F) /\ Spare(A, f) >= end - n
                   /\ \A j \in 0 .. n - 1 : A.blk[slot(A, f, j)] \in Data
  BY DEF Progress, Filled
<1>5. ~FullDisk => /\ n \in Nat /\ k \in Nat /\ end \in Nat /\ end >= k + 1
                   /\ needs_block(f, w.pointer) => n = k
                   /\ ~ needs_block(f, w.pointer) => k < n
  BY <1>1, TurnCounts
<1>6. CASE needs_block(f, w.pointer)
  <2>1. E = create_next_file_block(A, f)
    BY <1>6 DEF extended
  <2>2. ~FullDisk => n < DIRECT + PTRS
    <3>1. Slots <= DIRECT + PTRS /\ Slots \in Nat
      BY Sizes DEF Slots
    <3> QED BY <1>3, <1>5, <1>6, <3>1, Sizes
  <2>3. ~FullDisk => Grown(A, E, f, n) /\ Spare(E, f) >= end - (n + 1)
    <3> SUFFICES ASSUME ~FullDisk PROVE Grown(A, E, f, n) /\ Spare(E, f) >= end - (n + 1)
      OBVIOUS
    <3> PICK r : r = end - (n + 1)
      OBVIOUS
    <3>1. r \in Nat
      BY <1>5, <1>6
    <3>2. Spare(A, f) >= r + 1
      <4>1. end - n = r + 1
        BY <1>5
      <4> QED BY <1>4, <4>1
    <3>3. Exact(A, f, n) /\ n < DIRECT + PTRS
      BY <1>4, <2>2
    <3>4. Grown(A, E, f, n) /\ Spare(E, f) >= r
      BY <1>1, <1>2, <2>1, <3>1, <3>2, <3>3, NextFits
    <3> QED BY <3>4
  <2>4. Extended(A, E, F, f)
    <3>1. FullDisk \/ (Exact(A, f, n) /\ Grown(A, E, f, n))
      BY <1>4, <2>3
    <3>2. FullDisk \/ \E m : Exact(A, f, m) /\ Grown(A, E, f, m)
      BY <3>1
    <3> QED BY <1>1, <1>2, <2>1, <3>2, NextExtends
  <2>5. InodeForm(E, f)
    BY <1>1, <2>4 DEF Extended, Separate
  <2>6. ~FullDisk => Exact(E, f, n + 1) /\ slot(E, f, k) \in Block
    BY <1>5, <1>6, <2>3 DEF Grown
  <2>7. Tidy(E, f)
    BY <2>5, <2>6, BigHasRoom DEF Tidy
  <2>8. ~FullDisk => Packed(E, F)
    BY <1>1, <1>2, <1>4, <2>3, <2>4, StayPacked
  <2>9. ~FullDisk => \A j \in 0 .. n : j # k => E.blk[slot(E, f, j)] \in Data
    <3> SUFFICES ASSUME ~FullDisk, NEW j \in 0 .. n, j # k PROVE E.blk[slot(E, f, j)] \in Data
      OBVIOUS
    <3>0. n \in Nat /\ n = k
      BY <1>5, <1>6
    <3>1. j \in 0 .. n - 1
      BY <3>0
    <3>2. slot(A, f, j) \in Block /\ A.blk[slot(A, f, j)] \in Data
      BY <1>1, <1>2, <1>4, <3>1, ExactSlots
    <3>3. j \in 0 .. Slots - 1
      <4>1. Slots \in Nat
        BY Sizes DEF Slots
      <4> QED BY <1>3, <3>0, <3>1, <4>1
    <3>4. slot(E, f, j) = slot(A, f, j) /\ E.blk[slot(A, f, j)] = A.blk[slot(A, f, j)]
      BY <2>4, <3>2, <3>3 DEF Extended
    <3> QED BY <3>2, <3>4
  <2> PICK m : m = n + 1
    OBVIOUS
  <2>10. ~FullDisk => 0 .. m - 1 = 0 .. n
    BY <1>5
  <2>11. ~FullDisk => /\ Exact(E, f, m) /\ Packed(E, F) /\ Spare(E, f) >= end - m
                      /\ slot(E, f, k) \in Block
                      /\ \A j \in 0 .. m - 1 : j # k => E.blk[slot(E, f, j)] \in Data
    BY <2>3, <2>6, <2>8, <2>9, <2>10
  <2> QED BY <1>6, <2>4, <2>7, <2>11 DEF Ready
<1>7. CASE ~ needs_block(f, w.pointer)
  <2>1. E = A
    BY <1>7 DEF extended
  <2>2. Extended(A, E, F, f)
    BY <1>2, <2>1 DEF Extended
  <2>3. Tidy(E, f)
    BY <1>2, <1>4, <2>1, BigHasRoom DEF Tidy
  <2>4. ~FullDisk => slot(E, f, k) \in Block
    <3> SUFFICES ASSUME ~FullDisk PROVE slot(E, f, k) \in Block
      OBVIOUS
    <3>1. k \in 0 .. n - 1
      BY <1>5, <1>7
    <3> QED BY <1>1, <1>2, <1>4, <2>1, <3>1, ExactSlots
  <2> PICK m : m = n + 0
    OBVIOUS
  <2>5. ~FullDisk => m = n
    BY <1>5
  <2>6. ~FullDisk => /\ Exact(E, f, m) /\ Packed(E, F) /\ Spare(E, f) >= end - m
                     /\ slot(E, f, k) \in Block
                     /\ \A j \in 0 .. m - 1 : E.blk[slot(E, f, j)] \in Data
                     /\ k < m
    BY <1>4, <1>5, <1>7, <2>1, <2>4, <2>5
  <2> QED BY <1>7, <2>2, <2>3, <2>6 DEF Ready
<1> QED BY <1>6, <1>7

\* What the files had and what has been copied outlasts a block more.
LEMMA ExtendedKeeps ==
    ASSUME Fits, NEW D, NEW F, NEW f, NEW p, NEW c, NEW buffer, Call(D, F, f, p, c, buffer),
           NEW A, Intact(D, A, F, f), NEW E, Extended(A, E, F, f),
           NEW pointer \in p .. p + Len(buffer), Copied(D, f, p, c, buffer, A, pointer)
    PROVE  Intact(D, E, F, f) /\ Copied(D, f, p, c, buffer, E, pointer)
<1>1. Intact(D, E, F, f)
  <2>1. DiskForm(E) /\ E.rec = D.rec /\ Separate(E, F)
    BY DEF Intact, Extended
  <2>2. ASSUME NEW g \in F \ {f}
        PROVE  /\ E.inode[g] = D.inode[g] /\ owns(E, g) = owns(D, g)
               /\ \A x \in owns(D, g) : E.blk[x] = D.blk[x]
    <3>1. /\ A.inode[g] = D.inode[g] /\ owns(A, g) = owns(D, g)
          /\ \A x \in owns(D, g) : A.blk[x] = D.blk[x]
      BY DEF Intact
    <3>2. /\ E.inode[g] = A.inode[g] /\ owns(E, g) = owns(A, g)
          /\ \A x \in owns(A, g) : E.blk[x] = A.blk[x]
      BY DEF Extended
    <3> QED BY <3>1, <3>2
  <2>3. ASSUME NEW k \in 0 .. Slots - 1, slot(D, f, k) \in Block PROVE slot(E, f, k) = slot(D, f, k)
    <3>1. slot(A, f, k) = slot(D, f, k)
      BY <2>3 DEF Intact
    <3>2. slot(E, f, k) = slot(A, f, k)
      BY <2>3, <3>1 DEF Extended
    <3> QED BY <3>1, <3>2
  <2> QED BY <2>1, <2>2, <2>3 DEF Intact
<1>2. p \in Nat /\ Len(buffer) \in Nat /\ p + Len(buffer) <= MaxBytes
  BY DEF Call
<1>3. ASSUME NEW o \in Offset, slot(A, f, o \div BS) \in Block
      PROVE  slot(E, f, o \div BS) = slot(A, f, o \div BS) /\ byte(E, f, o) = byte(A, f, o)
  <2>1. o \div BS \in 0 .. Slots - 1
    BY OffsetSlot
  <2> QED BY <1>3, <2>1 DEF Extended, byte
<1>4. ASSUME NEW o \in p .. pointer - 1
      PROVE  slot(E, f, o \div BS) \in Block /\ byte(E, f, o) = buffer[o - p + 1]
  <2>1. o \in Offset
    BY <1>2, Sizes DEF Offset
  <2>2. slot(A, f, o \div BS) \in Block /\ byte(A, f, o) = buffer[o - p + 1]
    BY DEF Copied
  <2> QED BY <1>3, <2>1, <2>2
<1>5. ASSUME NEW o \in Offset \ (p .. pointer - 1), slot(D, f, o \div BS) \in Block, o \div BS < c
      PROVE  byte(E, f, o) = byte(D, f, o)
  <2>1. o \div BS \in 0 .. Slots - 1
    BY OffsetSlot
  <2>2. slot(A, f, o \div BS) = slot(D, f, o \div BS)
    BY <1>5, <2>1 DEF Intact
  <2>3. byte(A, f, o) = byte(D, f, o)
    BY <1>5 DEF Copied
  <2> QED BY <1>3, <1>5, <2>2, <2>3
<1>6. Copied(D, f, p, c, buffer, E, pointer)
  BY <1>4, <1>5 DEF Copied
<1> QED BY <1>1, <1>6

\* A turn that cannot write its block.
LEMMA TurnFails ==
    ASSUME Fits, NEW D, NEW F, NEW f, NEW p, NEW c, NEW buffer, Call(D, F, f, p, c, buffer),
           NEW w, Progress(D, F, f, p, c, buffer, w), w.left # <<>>, FullDisk,
           NEW v, v = [w EXCEPT !.disk = extended(f, w), !.failed = TRUE]
    PROVE  Progress(D, F, f, p, c, buffer, v) /\ Len(v.left) = Len(w.left) /\ v.failed
<1>1. Ready(D, F, f, p, c, buffer, w)
  BY TurnReady
<1> PICK E : E = extended(f, w)
  OBVIOUS
<1>2. Extended(w.disk, E, F, f)
  BY <1>1 DEF Ready
<1>3. /\ Moved(p, buffer, w) /\ Intact(D, w.disk, F, f)
      /\ Copied(D, f, p, c, buffer, w.disk, w.pointer) /\ Counted(p, c, w.pointer, w.added)
  BY DEF Progress
<1>4. w = [disk |-> w.disk, pointer |-> w.pointer, left |-> w.left,
           added |-> w.added, failed |-> w.failed]
      /\ w.pointer \in p .. p + Len(buffer)
  BY <1>3 DEF Moved
<1>5. /\ v = [disk |-> E, pointer |-> w.pointer, left |-> w.left, added |-> w.added, failed |-> TRUE]
      /\ v.disk = E /\ v.pointer = w.pointer /\ v.left = w.left /\ v.added = w.added /\ v.failed = TRUE
  BY <1>4
<1>6. Intact(D, E, F, f) /\ Copied(D, f, p, c, buffer, E, w.pointer)
  BY <1>2, <1>3, <1>4, ExtendedKeeps
<1>7. Moved(p, buffer, v)
  BY <1>3, <1>5 DEF Moved
<1> QED BY <1>3, <1>5, <1>6, <1>7 DEF Progress

\* What is left of the buffer after a turn.
LEMMA LeftOver ==
    ASSUME NEW s \in Seq(Value), NEW n \in 1 .. Len(s), NEW t, t = SubSeq(s, n + 1, Len(s))
    PROVE  t \in Seq(Value) /\ Len(t) = Len(s) - n /\ \A j \in 1 .. Len(t) : t[j] = s[n + j]
<1>1. Len(s) \in Nat /\ n \in Nat /\ n <= Len(s)
  OBVIOUS
<1>2. \A j \in n + 1 .. Len(s) : s[j] \in Value
  <2>1. s \in [1 .. Len(s) -> Value]
    OBVIOUS
  <2> QED BY <1>1, <2>1
<1>3. /\ t \in Seq(Value) /\ Len(t) = (IF n + 1 <= Len(s) THEN Len(s) - (n + 1) + 1 ELSE 0)
      /\ \A j \in 1 .. Len(s) - (n + 1) + 1 : t[j] = s[n + 1 + j - 1]
  BY <1>1, <1>2, SubSeqProperties
<1>4. Len(t) = Len(s) - n
  BY <1>1, <1>3
<1>5. ASSUME NEW j \in 1 .. Len(t) PROVE t[j] = s[n + j]
  <2>1. j \in 1 .. Len(s) - (n + 1) + 1 /\ n + 1 + j - 1 = n + j
    BY <1>1, <1>4
  <2> QED BY <1>3, <2>1
<1> QED BY <1>3, <1>4, <1>5

\* Offset o is o - p past p, and so is its place past the place of p.
Placed(p, n, r, b, o, j) ==
    /\ j \in 0 .. b - 1 /\ j \in r .. r + n - 1
    /\ j - r + 1 = o - p + 1 /\ o \in p .. p + n - 1

\* The bytes of a turn keep their distances.
LEMMA InBlock ==
    ASSUME NEW p \in Nat, NEW q \in Nat, NEW n \in Nat, NEW r \in Nat, NEW b \in Nat,
           q = p + n, r + n <= b, NEW o \in p .. q - 1, NEW j, j = r + (o - p)
    PROVE  Placed(p, n, r, b, o, j)
BY DEF Placed

\* The block that has offset o.
block_at(D, f, o) == slot(D, f, o \div BS)

\* The length of a sequence.
LEMMA NonEmpty ==
    ASSUME NEW s \in Seq(Value), s # <<>>
    PROVE  Len(s) \in Nat \ {0}
OBVIOUS

\* What a turn that writes block x leaves: the bytes from p to q are those of the
\* buffer, the others of blocks the file had before stay.
BytesOutcome(A, E, f, x, p, q, left, new) ==
    /\ \A o \in p .. q - 1 : slot(E, f, o \div BS) = x /\ byte(E, f, o) = left[o - p + 1]
    /\ \A o \in Offset \ (p .. q - 1) :
          slot(A, f, o \div BS) \in Block /\ (new => o \div BS # p \div BS) =>
              byte(E, f, o) = byte(A, f, o)

\* The bytes of the file before and after its block k, at x, is written.
LEMMA BytesWritten ==
    ASSUME Fits, NEW A, DiskForm(A), NEW f \in File, Tidy(A, f),
           NEW w, w.pointer \in Offset, w.left \in Seq(Value), w.left # <<>>, NEW new \in BOOLEAN,
           NEW x \in Block, x = block_at(A, f, w.pointer),
           NEW E, WriteOutcome(A, E, x, w, new), \A j : slot(E, f, j) = slot(A, f, j),
           NEW q, q = w.pointer + bytes_to_copy(w)
    PROVE  BytesOutcome(A, E, f, x, w.pointer, q, w.left, new)
<1> PICK p : p = w.pointer
  OBVIOUS
<1> PICK n : n = bytes_to_copy(w)
  OBVIOUS
<1> PICK l : l = Len(w.left)
  OBVIOUS
<1> DEFINE r == p % BS
           k == p \div BS
<1>0. x = slot(A, f, k)
  BY DEF block_at
<1>1. p \in Nat /\ k \in 0 .. Slots - 1 /\ r \in 0 .. BS - 1 /\ BS \in Nat /\ l \in Nat \ {0}
  BY OffsetSlot, NonEmpty, Sizes
<1>2. /\ n \in 1 .. l /\ r + n <= BS
      /\ \A o \in p .. p + n - 1 : o \div BS = k /\ o % BS = r + (o - p)
      /\ \A o \in Nat : o \div BS = k /\ o % BS \in r .. r + n - 1 => o \in p .. p + n - 1
  <2>1. n = least({l, BS - (p % BS)})
    BY DEF bytes_to_copy
  <2>2. TurnSpan(p, l, n)
    BY <1>1, <2>1, TurnBytes
  <2> QED BY <2>2 DEF TurnSpan
<1>3. /\ \A y \in Block \ {x} : E.blk[y] = A.blk[y]
      /\ \A j \in 0 .. BS - 1 : E.blk[x][j] = IF j \in r .. r + n - 1 THEN w.left[j - r + 1]
                                             ELSE IF new THEN unwritten ELSE A.blk[x][j]
  BY DEF WriteOutcome
<1> HIDE DEF r, k
<1>4. n \in Nat /\ r \in Nat /\ q \in Nat /\ q = p + n /\ r + n <= BS
  BY <1>1, <1>2
<1>5a. p .. q - 1 = p .. p + n - 1
  BY <1>1, <1>4
<1>5. ASSUME NEW o \in p .. q - 1
      PROVE  slot(E, f, o \div BS) = x /\ byte(E, f, o) = w.left[o - p + 1]
  <2> PICK j : j = r + (o - p)
    OBVIOUS
  <2>1. /\ j \in 0 .. BS - 1 /\ j \in r .. r + n - 1 /\ j - r + 1 = o - p + 1
        /\ o \in p .. p + n - 1
    <3>1. Placed(p, n, r, BS, o, j)
      BY <1>1, <1>4, InBlock
    <3> QED BY <3>1 DEF Placed
  <2>2. o \div BS = k /\ o % BS = j
    BY <1>2, <2>1
  <2>3. slot(E, f, o \div BS) = x
    BY <1>0, <2>2
  <2>4. E.blk[x][j] = w.left[j - r + 1]
    BY <1>3, <2>1
  <2> QED BY <2>1, <2>2, <2>3, <2>4 DEF byte
<1>6. ASSUME NEW o \in Offset \ (p .. q - 1), slot(A, f, o \div BS) \in Block,
             new => o \div BS # k
      PROVE  byte(E, f, o) = byte(A, f, o)
  <2>1. o \in Nat /\ o \div BS \in 0 .. Slots - 1 /\ o % BS \in 0 .. BS - 1
    BY OffsetSlot
  <2>2. CASE o \div BS = k
    <3>0. ~ (o \in p .. p + n - 1)
      BY <1>5a
    <3>1. ~ (o % BS \in r .. r + n - 1)
      BY <1>2, <2>1, <2>2, <3>0
    <3>2. E.blk[x][o % BS] = A.blk[x][o % BS]
      BY <1>0, <1>3, <1>6, <2>1, <2>2, <3>1
    <3> QED BY <1>0, <2>2, <3>2 DEF byte
  <2>3. CASE o \div BS # k
    <3>1. slot(A, f, o \div BS) # x
      BY <1>1, <1>6, <2>1, <2>3, SlotsDistinct, <1>0
    <3> QED BY <1>3, <1>6, <3>1 DEF byte
  <2> QED BY <2>2, <2>3
<1> QED BY <1>5, <1>6 DEF BytesOutcome, k

\* A turn that writes its block.
LEMMA TurnWrites ==
    ASSUME Fits, NEW D, NEW F, NEW f, NEW p, NEW c, NEW buffer, Call(D, F, f, p, c, buffer),
           NEW w, Progress(D, F, f, p, c, buffer, w), w.left # <<>>, ~w.failed,
           NEW new, new = needs_block(f, w.pointer),
           NEW A, A = extended(f, w), slot(A, f, w.pointer \div BS) \in Block,
           NEW v, v = advance(write_file_block(A, f, w, new), w, new)
    PROVE  Progress(D, F, f, p, c, buffer, v) /\ Len(v.left) < Len(w.left)
<1> PICK k : k = w.pointer \div BS
  OBVIOUS
<1> PICK x \in Block : x = slot(A, f, k)
  OBVIOUS
<1> PICK E : E = write_file_block(A, f, w, new)
  OBVIOUS
<1> PICK n : n = bytes_to_copy(w)
  OBVIOUS
<1> PICK q : q = w.pointer + n
  OBVIOUS
<1>1. /\ F \in SUBSET File /\ f \in F /\ f \in File /\ p \in Nat /\ c \in Nat /\ c = file[f].blocks
      /\ buffer \in Seq(Value) /\ p + Len(buffer) <= MaxBytes /\ Len(buffer) \in Nat
      /\ (~FullDisk => p <= c * BS)
  BY DEF Call
<1>2. /\ w.pointer \in Nat /\ w.pointer \in Offset /\ w.pointer < p + Len(buffer)
      /\ Len(w.left) \in Nat \ {0}
  BY TurnBegins
<1>3. new \in BOOLEAN /\ (new <=> w.pointer % BS = 0 /\ k + 1 > c)
  BY <1>1 DEF needs_block
<1>4. /\ Extended(w.disk, A, F, f) /\ Tidy(A, f)
  BY TurnReady DEF Ready
<1>5. DiskForm(A) /\ Separate(A, F) /\ InodeForm(A, f)
  BY <1>1, <1>4 DEF Extended, Separate
<1>6. /\ w = [disk |-> w.disk, pointer |-> w.pointer, left |-> w.left,
              added |-> w.added, failed |-> w.failed]
      /\ w.pointer \in p .. p + Len(buffer) /\ w.added \in Nat
      /\ w.left \in Seq(Value) /\ Len(w.left) = Len(buffer) - (w.pointer - p)
      /\ \A j \in 1 .. Len(w.left) : w.left[j] = buffer[w.pointer - p + j]
  BY DEF Progress, Moved
<1>7. WriteOutcome(A, E, x, w, new)
  BY <1>1, <1>2, <1>3, <1>5, <1>6, BlockWritten
<1>8. k \in 0 .. Slots - 1
  BY <1>2, OffsetSlot
<1>9. x \in owns(A, f) /\ x # A.inode[f].single
  BY <1>1, <1>4, <1>5, <1>8, SlotRead, SlotsDistinct
<1>10. /\ DiskForm(E) /\ E.bmap = A.bmap /\ E.inode = A.inode /\ E.rec = A.rec
       /\ \A y \in Block \ {x} : E.blk[y] = A.blk[y]
       /\ new \/ A.blk[x] \in Data => E.blk[x] \in Data
  BY <1>7 DEF WriteOutcome
<1>11. /\ Separate(E, F) /\ \A g \in F : owns(E, g) = owns(A, g)
       /\ \A g \in F : \A m : Exact(A, g, m) => Exact(E, g, m)
       /\ \A j : slot(E, f, j) = slot(A, f, j)
  BY <1>1, <1>5, <1>9, <1>10, DataUnmoved
<1>12. /\ n \in 1 .. Len(w.left) /\ ceil(q) = k + 1
       /\ ceil(w.pointer) = IF w.pointer % BS = 0 THEN k ELSE k + 1
  <2>1. n = least({Len(w.left), BS - (w.pointer % BS)})
    BY DEF bytes_to_copy
  <2>2. TurnSpan(w.pointer, Len(w.left), n)
    BY <1>2, <2>1, TurnBytes
  <2> QED BY <2>2 DEF TurnSpan
<1>13. n \in Nat /\ q \in Nat /\ q \in p .. p + Len(buffer)
  BY <1>1, <1>2, <1>6, <1>12
<1>14. /\ v = [disk |-> E, pointer |-> q, left |-> SubSeq(w.left, n + 1, Len(w.left)),
               added |-> w.added + (IF new THEN 1 ELSE 0), failed |-> w.failed]
       /\ v.disk = E /\ v.pointer = q /\ v.left = SubSeq(w.left, n + 1, Len(w.left))
       /\ v.added = w.added + (IF new THEN 1 ELSE 0) /\ v.failed = w.failed
  <2>1. v = [w EXCEPT !.disk = E, !.pointer = @ + n, !.left = SubSeq(@, n + 1, Len(@)),
                      !.added = @ + (IF new THEN 1 ELSE 0)]
    BY DEF advance
  <2> QED BY <1>6, <2>1
<1>15. /\ v.left \in Seq(Value) /\ Len(v.left) = Len(w.left) - n
       /\ \A j \in 1 .. Len(v.left) : v.left[j] = w.left[n + j]
  BY <1>6, <1>12, <1>14, LeftOver, SMTT(30)
<1>16. Moved(p, buffer, v)
  <2>1. Len(v.left) = Len(buffer) - (q - p)
    BY <1>1, <1>2, <1>6, <1>13, <1>15
  <2>2. ASSUME NEW j \in 1 .. Len(v.left) PROVE v.left[j] = buffer[q - p + j]
    <3> PICK l : l = n + j
      OBVIOUS
    <3> PICK m : m = Len(w.left)
      OBVIOUS
    <3>0. j \in 1 .. m - n /\ m \in Nat /\ n \in Nat
      BY <1>2, <1>13, <1>15
    <3>4. w.pointer \in Nat /\ p \in Nat /\ q = w.pointer + n
      BY <1>1, <1>2
    <3>1. l \in 1 .. Len(w.left) /\ w.pointer - p + l = q - p + j
      BY <3>0, <3>4
    <3>2. v.left[j] = w.left[l]
      BY <1>15, <2>2
    <3>3. w.left[l] = buffer[w.pointer - p + l]
      BY <1>6, <3>1
    <3> QED BY <3>1, <3>2, <3>3
  <2>3. v.added \in Nat /\ v.failed \in BOOLEAN
    BY <1>6, <1>14 DEF Progress, Moved
  <2> QED BY <1>13, <1>14, <1>15, <2>1, <2>2, <2>3 DEF Moved
<1>17. Intact(D, A, F, f) /\ Copied(D, f, p, c, buffer, A, w.pointer)
  BY <1>4, <1>6, ExtendedKeeps DEF Progress
<1>18. Intact(D, E, F, f)
  <2>1. DiskForm(E) /\ E.rec = D.rec /\ Separate(E, F)
    BY <1>10, <1>11, <1>17 DEF Intact
  <2>2. ASSUME NEW g \in F \ {f}
        PROVE  /\ E.inode[g] = D.inode[g] /\ owns(E, g) = owns(D, g)
               /\ \A y \in owns(D, g) : E.blk[y] = D.blk[y]
    <3>1. /\ A.inode[g] = D.inode[g] /\ owns(A, g) = owns(D, g)
          /\ \A y \in owns(D, g) : A.blk[y] = D.blk[y]
      BY <1>17 DEF Intact
    <3>2. \A y \in owns(A, g) : y \in Block \ {x}
      <4>1. owns(A, g) \subseteq bits(A.bmap) /\ owns(A, g) \cap owns(A, f) = {}
        BY <1>1, <1>5 DEF Separate
      <4>2. bits(A.bmap) \subseteq Block
        BY <1>5, DiskFields
      <4> QED BY <1>9, <4>1, <4>2
    <3> QED BY <1>10, <1>11, <3>1, <3>2
  <2>3. ASSUME NEW j \in 0 .. Slots - 1, slot(D, f, j) \in Block PROVE slot(E, f, j) = slot(D, f, j)
    BY <1>11, <1>17, <2>3 DEF Intact
  <2> QED BY <2>1, <2>2, <2>3 DEF Intact
<1>19. /\ \A o \in w.pointer .. q - 1 :
             slot(E, f, o \div BS) = x /\ byte(E, f, o) = w.left[o - w.pointer + 1]
       /\ \A o \in Offset \ (w.pointer .. q - 1) :
             slot(A, f, o \div BS) \in Block /\ (new => o \div BS # k) =>
                 byte(E, f, o) = byte(A, f, o)
  <2>1. BytesOutcome(A, E, f, x, w.pointer, q, w.left, new)
    <3>1. DiskForm(A) /\ f \in File /\ Tidy(A, f) /\ w.pointer \in Offset
          /\ w.left \in Seq(Value) /\ new \in BOOLEAN /\ x = block_at(A, f, w.pointer)
      BY <1>1, <1>2, <1>3, <1>4, <1>5, <1>6 DEF block_at
    <3>2. \A j : slot(E, f, j) = slot(A, f, j)
      BY <1>11
    <3> QED BY <1>7, <3>1, <3>2, BytesWritten
  <2> QED BY <2>1 DEF BytesOutcome
<1>20. Copied(D, f, p, c, buffer, E, q)
  <2>1. ASSUME NEW o \in p .. q - 1
        PROVE  slot(E, f, o \div BS) \in Block /\ byte(E, f, o) = buffer[o - p + 1]
    <3>1. o \in Nat /\ o \in Offset
      BY <1>1, <1>13, Sizes DEF Offset
    <3>2. CASE o \in w.pointer .. q - 1
      <4>1. /\ o - w.pointer + 1 \in 1 .. Len(w.left)
            /\ w.pointer - p + (o - w.pointer + 1) = o - p + 1
        BY <1>1, <1>2, <1>12, <1>13, <3>1, <3>2, SMTT(30)
      <4> QED BY <1>6, <1>19, <3>2, <4>1
    <3>3. CASE ~ (o \in w.pointer .. q - 1)
      <4>1. o \in p .. w.pointer - 1
        BY <1>1, <1>2, <1>13, <3>1, <3>3
      <4>2. slot(A, f, o \div BS) \in Block /\ byte(A, f, o) = buffer[o - p + 1]
        BY <1>17, <4>1 DEF Copied
      <4>3. new => o \div BS # k
        <5> SUFFICES ASSUME new, o \div BS = k PROVE FALSE
          OBVIOUS
        <5>1. w.pointer = k * BS + 0 /\ k * BS \in Nat
          BY <1>2, <1>3, OffsetSplits
        <5>2. o = k * BS + (o % BS) /\ o % BS \in 0 .. BS - 1
          BY <3>1, OffsetSplits
        <5> QED BY <3>1, <4>1, <5>1, <5>2
      <4> QED BY <1>11, <1>19, <3>1, <3>3, <4>2, <4>3
    <3> QED BY <3>2, <3>3
  <2>2. ASSUME NEW o \in Offset \ (p .. q - 1), slot(D, f, o \div BS) \in Block, o \div BS < c
        PROVE  byte(E, f, o) = byte(D, f, o)
    <3>1. o \in Offset \ (w.pointer .. q - 1) /\ o \in Offset \ (p .. w.pointer - 1)
      <4>1. w.pointer \in Nat /\ q \in Nat /\ p \in Nat /\ p <= w.pointer /\ w.pointer <= q
        BY <1>1, <1>2, <1>6, <1>13
      <4>2. o \in Offset /\ o \in Nat /\ ~ (o \in p .. q - 1)
        BY OffsetSlot
      <4> QED BY <4>1, <4>2
    <3>2. byte(A, f, o) = byte(D, f, o)
      BY <1>17, <2>2, <3>1 DEF Copied
    <3>3. slot(A, f, o \div BS) \in Block
      <4>1. o \div BS \in 0 .. Slots - 1
        BY OffsetSlot
      <4> QED BY <1>17, <2>2, <4>1 DEF Intact
    <3>4. new => o \div BS # k
      <4>1. o \div BS \in Nat /\ k \in Nat
        <5>1. Slots \in Nat
          BY Sizes DEF Slots
        <5> QED BY <1>8, <5>1, OffsetSlot
      <4> QED BY <1>1, <1>3, <2>2, <4>1
    <3> QED BY <1>19, <3>1, <3>2, <3>3, <3>4
  <2> QED BY <2>1, <2>2 DEF Copied
<1>21. k \in Nat
  <2>1. Slots \in Nat
    BY Sizes DEF Slots
  <2> QED BY <1>8, <2>1
<1>22. Counted(p, c, q, v.added)
  <2> SUFFICES ASSUME p <= c * BS
               PROVE  IF ceil(q) <= c THEN v.added = 0 ELSE c + v.added = ceil(q)
    BY DEF Counted
  <2>1. IF ceil(w.pointer) <= c THEN w.added = 0 ELSE c + w.added = ceil(w.pointer)
    BY DEF Progress, Counted
  <2>2. c \in Nat /\ w.added \in Nat /\ k \in Nat /\ ceil(q) = k + 1
    BY <1>1, <1>6, <1>12, <1>21
  <2>3. CASE new
    <3>1. ceil(w.pointer) = k /\ k + 1 > c /\ v.added = w.added + 1
      BY <1>3, <1>12, <1>14, <2>3
    <3> QED BY <2>1, <2>2, <3>1
  <2>4. CASE ~new
    <3>1. v.added = w.added
      BY <1>6, <1>14, <2>4
    <3>2. CASE w.pointer % BS = 0
      <4>1. ceil(w.pointer) = k /\ ~ (k + 1 > c)
        BY <1>3, <1>12, <2>4, <3>2
      <4> QED BY <2>1, <2>2, <3>1, <4>1
    <3>3. CASE w.pointer % BS # 0
      <4>1. ceil(w.pointer) = k + 1
        BY <1>12, <3>3
      <4> QED BY <2>1, <2>2, <3>1, <4>1
    <3> QED BY <3>2, <3>3
  <2> QED BY <1>3, <2>3, <2>4
<1>23. v.failed => FullDisk
  BY <1>14 DEF Progress
<1>24. ~FullDisk => Filled(E, F, f, c + v.added, p + Len(buffer))
  <2> SUFFICES ASSUME ~FullDisk PROVE Filled(E, F, f, c + v.added, p + Len(buffer))
    OBVIOUS
  <2> PICK m : m = c + w.added + (IF new THEN 1 ELSE 0)
    OBVIOUS
  <2>1. /\ Exact(A, f, m) /\ Packed(A, F) /\ Spare(A, f) >= ceil(p + Len(buffer)) - m
        /\ \A j \in 0 .. m - 1 : j # k \/ ~new => A.blk[slot(A, f, j)] \in Data
        /\ new \/ k < m
    BY TurnReady DEF Ready
  <2>2. m = c + v.added /\ m \in Nat
    BY <1>1, <1>6, <1>14, SMTT(30)
  <2>3. Exact(E, f, m)
    BY <1>1, <1>11, <2>1
  <2>4. E.blk[x] \in Data
    <3>1. CASE new
      BY <1>10, <3>1
    <3>2. CASE ~new
      <4>1. k \in 0 .. m - 1
        BY <1>21, <2>1, <2>2, <3>2
      <4> QED BY <1>10, <2>1, <3>2, <4>1
    <3> QED BY <1>3, <3>1, <3>2
  <2>5. Packed(E, F)
    <3>1. bits(E.bmap) = UNION {owns(E, g) : g \in F}
      BY <1>10, <1>11, <2>1 DEF Packed
    <3>2. \A b \in Block : E.blk[b] \in Data \/ E.blk[b] \in Pointers
      BY <1>10, <2>1, <2>4 DEF Packed
    <3> QED BY <3>1, <3>2 DEF Packed
  <2>6. Spare(E, f) = Spare(A, f)
    BY <1>10 DEF Spare
  <2>7. ASSUME NEW j \in 0 .. m - 1 PROVE E.blk[slot(E, f, j)] \in Data
    <3>1. CASE slot(A, f, j) = x
      BY <1>11, <2>4, <3>1
    <3>2. CASE slot(A, f, j) # x
      <4>1. slot(A, f, j) \in Block
        BY <1>1, <1>5, <2>1, ExactSlots
      <4>2. A.blk[slot(A, f, j)] \in Data
        BY <2>1, <3>2
      <4> QED BY <1>10, <1>11, <3>2, <4>1, <4>2
    <3> QED BY <3>1, <3>2
  <2> QED BY <2>1, <2>2, <2>3, <2>5, <2>6, <2>7 DEF Filled
<1>25. Len(v.left) < Len(w.left)
  BY <1>2, <1>12, <1>13, <1>15
<1> QED BY <1>14, <1>16, <1>18, <1>20, <1>22, <1>23, <1>24, <1>25 DEF Progress

\* A turn of the loop keeps all that, and ends the call or copies something.
LEMMA TurnMade ==
    ASSUME Fits, NEW D, NEW F, NEW f, NEW p, NEW c, NEW buffer, Call(D, F, f, p, c, buffer),
           NEW w, Progress(D, F, f, p, c, buffer, w), w.left # <<>>, ~w.failed,
           NEW v, v = write_step(f, w)
    PROVE  Progress(D, F, f, p, c, buffer, v) /\ (v.failed \/ Len(v.left) < Len(w.left))
<1> PICK A : A = extended(f, w)
  OBVIOUS
<1> PICK new : new = needs_block(f, w.pointer)
  OBVIOUS
<1> PICK k : k = w.pointer \div BS
  OBVIOUS
<1>1. v = IF write_file_block_fails(A, f, w) THEN [w EXCEPT !.disk = A, !.failed = TRUE]
          ELSE advance(write_file_block(A, f, w, new), w, new)
  BY DEF write_step, extended
<1>2. f \in File /\ f \in F
  BY DEF Call
<1>3. Ready(D, F, f, p, c, buffer, w)
  BY TurnReady
<1>4. DiskForm(A) /\ InodeForm(A, f)
  BY <1>2, <1>3 DEF Ready, Extended, Separate
<1>5. k \in 0 .. Slots - 1
  BY TurnBegins, OffsetSlot
<1>6. CASE slot(A, f, k) \in Block
  <2>1. get_file_logic_block_addr(A, f, k) # NULL_BLOCK
    BY <1>2, <1>4, <1>5, <1>6, SlotRead, Sizes
  <2>2. v = advance(write_file_block(A, f, w, new), w, new)
    BY <1>1, <2>1 DEF write_file_block_fails
  <2> QED BY <1>6, <2>2, TurnWrites
<1>7. CASE slot(A, f, k) \notin Block
  <2>1. FullDisk
    BY <1>3, <1>7 DEF Ready
  <2>2. k < DIRECT
    <3>1. Slots = DIRECT
      BY <2>1, FullDiskAssumption, Sizes DEF Slots, Big
    <3> QED BY <1>5, <3>1, Sizes
  <2>3. get_file_logic_block_addr(A, f, k) = NULL_BLOCK
    BY <1>2, <1>4, <1>5, <1>7, <2>2, SlotRead DEF Address
  <2>4. v = [w EXCEPT !.disk = A, !.failed = TRUE]
    BY <1>1, <2>3 DEF write_file_block_fails
  <2> QED BY <2>1, <2>4, TurnFails
<1> QED BY <1>6, <1>7

-----------------------------------------------------------------------------
(***************************************************************************)
(* The loop of write2.                                                     *)
(***************************************************************************)
\* One round of the loop: a turn, unless the call is over.
round(f, w) == IF w.left = <<>> \/ w.failed THEN w ELSE write_step(f, w)

\* h is the history of a loop that begins with w0.
Goes(h, n, f, w0) == h = [k \in 0 .. n |-> IF k = 0 THEN w0 ELSE round(f, h[k - 1])]

\* The loop goes round as often as it needs.
LEMMA Rounds ==
    ASSUME NEW n \in Nat, NEW f, NEW w0
    PROVE  \E h : Goes(h, n, f, w0)
<1> DEFINE G(h, k) == IF k = 0 THEN w0 ELSE round(f, h[k - 1])
           P(m, h) == h = [k \in 0 .. m |-> G(h, k)]
<1> PICK S : S = {m \in 0 .. n : \E h : P(m, h)}
  OBVIOUS
<1>1. 0 \in S
  <2> PICK h : h = [k \in 0 .. 0 |-> w0]
    OBVIOUS
  <2>1. \A k \in 0 .. 0 : G(h, k) = w0
    OBVIOUS
  <2> HIDE DEF G
  <2>2. P(0, h)
    BY <2>1
  <2> QED BY <2>2
<1>2. ASSUME NEW m \in 1 .. n, m - 1 \in S PROVE m \in S
  <2>1. PICK h : P(m - 1, h)
    BY <1>2
  <2> PICK g : g = [k \in 0 .. m |-> IF k = m THEN G(h, m) ELSE h[k]]
    OBVIOUS
  <2>2. ASSUME NEW k \in 0 .. m PROVE g[k] = G(g, k)
    <3>1. CASE k = 0
      <4>1. h[k] = w0
        BY <2>1, <3>1
      <4> QED BY <3>1, <4>1
    <3>2. CASE k # 0 /\ k # m
      <4>1. k \in 0 .. m - 1 /\ k - 1 \in 0 .. m /\ k - 1 # m
        BY <3>2
      <4>2. g[k] = h[k] /\ g[k - 1] = h[k - 1]
        BY <3>2, <4>1
      <4>3. h[k] = G(h, k)
        BY <2>1, <4>1
      <4> QED BY <3>2, <4>2, <4>3
    <3>3. CASE k = m
      <4>1. m - 1 \in 0 .. m /\ m - 1 # m
        OBVIOUS
      <4>2. g[m - 1] = h[m - 1] /\ g[m] = G(h, m)
        BY <4>1
      <4> QED BY <3>3, <4>2
    <3> QED BY <3>1, <3>2, <3>3
  <2> HIDE DEF G
  <2>3. P(m, g)
    BY <2>2
  <2> QED BY <2>3
<1>3. n \in S
  <2> HIDE DEF P
  <2>1. \A k \in 0 .. n : k \in S
    BY <1>1, <1>2, OneByOne
  <2> QED BY <2>1
<1>4. PICK h : P(n, h)
  BY <1>3
<1> QED BY <1>4 DEF Goes

\* The loop of write2 ends with all copied or with a block it could not write.
LEMMA LoopEnds ==
    ASSUME Fits, NEW D, NEW F, NEW f, NEW p, NEW c, NEW buffer, Call(D, F, f, p, c, buffer),
           NEW w0, w0 = [disk |-> disk, pointer |-> file[f].pointer, left |-> buffer,
                         added |-> 0, failed |-> FALSE],
           Progress(D, F, f, p, c, buffer, w0), Len(buffer) <= MaxIO,
           NEW w, w = write_blocks(f, buffer)
    PROVE  Progress(D, F, f, p, c, buffer, w) /\ (w.failed \/ w.left = <<>>)
<1> PICK n \in Nat : n = MaxIO
  BY Sizes
<1> DEFINE H(h) == [k \in 0 .. MaxIO |->
                       IF k = 0 THEN [disk |-> disk, pointer |-> file[f].pointer, left |-> buffer,
                                      added |-> 0, failed |-> FALSE]
                       ELSE LET v == h[k - 1]
                            IN  IF v.left = <<>> \/ v.failed THEN v ELSE write_step(f, v)]
           W == CHOOSE h : h = H(h)
<1>1. \A h : H(h) = [k \in 0 .. n |-> IF k = 0 THEN w0 ELSE round(f, h[k - 1])]
  BY Zenon DEF round
<1>2. PICK g : Goes(g, n, f, w0)
  BY Rounds
<1>3. g = H(g)
  <2> HIDE DEF H
  <2> QED BY <1>1, <1>2, Zenon DEF Goes
<1>4. W = H(W)
  BY <1>3, Zenon
<1>5. w = W[n]
  BY Zenon DEF write_blocks
<1> PICK U : U = W
  OBVIOUS
<1> HIDE DEF H, W
<1>6. U = [k \in 0 .. n |-> IF k = 0 THEN w0 ELSE round(f, U[k - 1])]
  BY <1>1, <1>4, Zenon
<1>12. U[0] = w0 /\ \A k \in 1 .. n : U[k] = round(f, U[k - 1])
  <2>1. \A k \in 0 .. n : U[k] = IF k = 0 THEN w0 ELSE round(f, U[k - 1])
    BY <1>6, Zenon
  <2>2. U[0] = w0
    <3>1. 0 \in 0 .. n
      OBVIOUS
    <3> QED BY <2>1, <3>1, Zenon
  <2>3. \A k \in 1 .. n : k \in 0 .. n /\ k # 0
    OBVIOUS
  <2> QED BY <2>1, <2>2, <2>3, Zenon
<1> DEFINE Good(k, v) == /\ Progress(D, F, f, p, c, buffer, v)
                         /\ v.failed \/ Len(v.left) <= n - k
<1> PICK S : S = {k \in 0 .. n : Good(k, U[k])}
  OBVIOUS
<1>7. 0 \in S
  <2>1. U[0] = w0
    BY <1>12
  <2>2. Len(w0.left) <= n - 0
    OBVIOUS
  <2>3. Good(0, U[0])
    BY <2>1, <2>2
  <2> HIDE DEF Good
  <2> QED BY <2>3
<1>8. ASSUME NEW k \in 1 .. n, k - 1 \in S PROVE k \in S
  <2> PICK v : v = U[k - 1]
    OBVIOUS
  <2> PICK u : u = U[k]
    OBVIOUS
  <2>1. Good(k - 1, v)
    <3> HIDE DEF Good
    <3> QED BY <1>8
  <2>2. u = round(f, v)
    BY <1>12
  <2>3. v.left \in Seq(Value) /\ v.failed \in BOOLEAN
    BY <2>1 DEF Progress, Moved
  <2>4. CASE v.left = <<>> \/ v.failed
    <3>1. u = v
      BY <2>2, <2>4 DEF round
    <3>2. v.failed \/ Len(v.left) <= n - k
      <4>1. v.left = <<>> => Len(v.left) = 0
        OBVIOUS
      <4> QED BY <2>4, <4>1
    <3>3. Good(k, u)
      BY <2>1, <3>1, <3>2
    <3> HIDE DEF Good
    <3> QED BY <3>3
  <2>5. CASE ~ (v.left = <<>> \/ v.failed)
    <3>1. u = write_step(f, v)
      BY <2>2, <2>5 DEF round
    <3>2. Progress(D, F, f, p, c, buffer, u) /\ (u.failed \/ Len(u.left) < Len(v.left))
      BY <2>1, <2>5, <3>1, TurnMade
    <3>3. Len(v.left) <= n - (k - 1) /\ Len(v.left) \in Nat
      <4>1. v.failed \/ Len(v.left) <= n - (k - 1)
        BY <2>1
      <4>2. Len(v.left) \in Nat
        BY <2>3
      <4> QED BY <2>5, <4>1, <4>2
    <3>4. u.left \in Seq(Value)
      BY <3>2 DEF Progress, Moved
    <3>5. Len(u.left) \in Nat
      BY <3>4
    <3>6. u.failed \/ Len(u.left) <= n - k
      BY <3>2, <3>3, <3>5
    <3>7. Good(k, u)
      BY <3>2, <3>6
    <3> HIDE DEF Good
    <3> QED BY <3>7
  <2> QED BY <2>4, <2>5
<1>9. Good(n, w)
  <2> HIDE DEF Good
  <2>1. \A k \in 0 .. n : k \in S
    BY <1>7, <1>8, OneByOne
  <2>2. n \in S
    BY <2>1
  <2> QED BY <1>5, <2>2
<1>10. w.left \in Seq(Value)
  BY <1>9 DEF Progress, Moved
<1>11. w.failed \/ w.left = <<>>
  <2>1. Len(w.left) \in Nat
    BY <1>10
  <2> QED BY <1>9, <1>10, <2>1
<1> QED BY <1>9, <1>11

(***************************************************************************)
(* The inductive invariant.                                                *)
(***************************************************************************)
\* What holds of file f on disk D: its handle h has the sizes of its record,
\* the record counts the blocks its bytes take, every offset before the end or
\* before the pointer has a block, and holds what was written there, the bytes
\* of history.  Of a torn file, one of T, less holds.  With room on the disk the
\* file has its pointers one after the other, and all its blocks are filled.
Sound(D, h, history, T, f) ==
    LET r == D.rec[f]
    IN  /\ h.busy => h.bytes = r.bytes /\ h.blocks = r.blocks
        /\ \A o \in Offset : o < r.bytes \/ (h.busy /\ o < h.pointer) => slot(D, f, o \div BS) \in Block
        /\ f \notin T => /\ r.blocks = ceil(r.bytes)
                          /\ \A o \in 0 .. r.bytes - 1 : byte(D, f, o) = history[o] /\ history[o] # unwritten
        /\ ~FullDisk => /\ f \notin T /\ (h.busy => h.pointer <= r.bytes) /\ Exact(D, f, r.blocks)
                        /\ \A k \in 0 .. r.blocks - 1 : D.blk[slot(D, f, k)] \in Data

\* The inductive invariant: StateForm is about all files, Separate and Sound about
\* those that exist, and only they have handles in use.
IInv ==
    /\ StateForm /\ Separate(disk, Files)
    /\ \A f \in File : file[f].busy => f \in Files
    /\ \A f \in Files : Sound(disk, file[f], wrote[f], torn, f)
    /\ ~FullDisk => Packed(disk, Files)
-----------------------------------------------------------------------------
(***************************************************************************)
(* write2.                                                                 *)
(***************************************************************************)
\* As many blocks as the bytes take are among those that can be addressed.
LEMMA BlocksAddressed ==
    ASSUME NEW n \in 0 .. DIRECT + PTRS, NEW bytes \in 0 .. MaxBytes, n = ceil(bytes)
    PROVE  n <= Slots /\ Slots \in Nat /\ n \in Nat
<1>1. n \in Nat /\ Slots \in Nat
  BY Sizes DEF Slots
<1>2. CASE Big
  BY <1>1, <1>2, Sizes DEF Slots
<1>3. CASE ~Big
  <2>1. bytes \in Nat /\ bytes <= DIRECT * BS
    <3>1. DIRECT * BS \in Nat /\ ~ (MaxBytes > DIRECT * BS)
      BY <1>3, Sizes, CeilBound DEF Big
    <3> QED BY <3>1, Sizes
  <2>2. ceil(bytes) <= DIRECT
    BY <2>1, Sizes, CeilBound
  <2> QED BY <1>1, <1>3, <2>2 DEF Slots
<1> QED BY <1>1, <1>2, <1>3

\* write2 begins with nothing copied.
LEMMA WriteStarts ==
    ASSUME Fits, IInv, NEW f \in File, file[f].busy, NEW p, p = file[f].pointer,
           NEW c, c = file[f].blocks, NEW buffer \in Buffer, p + Len(buffer) <= MaxBytes,
           Room(f, Len(buffer)),
           NEW w0, w0 = [disk |-> disk, pointer |-> p, left |-> buffer,
                         added |-> 0, failed |-> FALSE]
    PROVE  /\ Call(disk, Files, f, p, c, buffer)
           /\ Progress(disk, Files, f, p, c, buffer, w0) /\ Len(buffer) <= MaxIO
<1>1. /\ DiskForm(disk) /\ p \in 0 .. MaxBytes /\ p \in Nat /\ c \in Nat
      /\ disk.rec[f] \in FileRec /\ disk.rec[f].bytes \in 0 .. MaxBytes
  <2>1. file \in [File -> Handle] /\ DiskForm(disk)
    BY DEF IInv, StateForm
  <2>2. disk.rec[f] \in FileRec
    BY <2>1, DiskFields
  <2> QED BY <2>1, <2>2, Sizes DEF Handle, FileRec
<1>2. f \in Files /\ Files \subseteq File /\ Sound(disk, file[f], wrote[f], torn, f)
  BY DEF IInv, Files
<1>14. c = disk.rec[f].blocks /\ file[f].bytes = disk.rec[f].bytes
  BY <1>2 DEF Sound
<1>3. buffer \in Seq(Value) /\ Len(buffer) \in 0 .. MaxIO /\ Len(buffer) \in Nat
  BY Sizes DEF Buffer
<1>4. Separate(disk, Files) /\ InodeForm(disk, f)
  BY <1>2 DEF IInv, Separate
<1>5. ~FullDisk => /\ p <= c * BS /\ Exact(disk, f, c) /\ Packed(disk, Files)
                   /\ \A k \in 0 .. c - 1 : disk.blk[slot(disk, f, k)] \in Data
  <2> SUFFICES ASSUME ~FullDisk
               PROVE  /\ p <= c * BS /\ Exact(disk, f, c) /\ Packed(disk, Files)
                      /\ \A k \in 0 .. c - 1 : disk.blk[slot(disk, f, k)] \in Data
    OBVIOUS
  <2> PICK b : b = disk.rec[f].bytes
    OBVIOUS
  <2>1. /\ c = ceil(b) /\ p <= b /\ Exact(disk, f, c)
        /\ \A k \in 0 .. c - 1 : disk.blk[slot(disk, f, k)] \in Data
    BY <1>2, <1>14 DEF Sound
  <2>2. b \in Nat /\ ceil(b) <= c /\ c \in Nat
    BY <1>1, <2>1, Sizes
  <2>3. b <= c * BS /\ c * BS \in Nat
    BY <2>2, CeilBound
  <2>4. p <= c * BS
    BY <1>1, <2>1, <2>2, <2>3
  <2>5. Packed(disk, Files)
    BY DEF IInv
  <2> QED BY <2>1, <2>4, <2>5
<1>6. Call(disk, Files, f, p, c, buffer)
  BY <1>1, <1>2, <1>3, <1>5 DEF Call
<1>7. /\ w0.disk = disk /\ w0.pointer = p /\ w0.left = buffer /\ w0.added = 0 /\ w0.failed = FALSE
      /\ w0 = [disk |-> w0.disk, pointer |-> w0.pointer, left |-> w0.left,
               added |-> w0.added, failed |-> w0.failed]
  OBVIOUS
<1>8. Moved(p, buffer, w0)
  <2>1. w0.pointer \in p .. p + Len(buffer) /\ Len(buffer) - (p - p) = Len(buffer)
        /\ \A j \in 1 .. Len(buffer) : p - p + j = j
    BY <1>1, <1>3, <1>7
  <2> QED BY <1>3, <1>7, <2>1 DEF Moved
<1>9. Intact(disk, disk, Files, f)
  BY <1>1, <1>4 DEF Intact
<1>10. Copied(disk, f, p, c, buffer, disk, p)
  <2>1. p .. p - 1 = {}
    BY <1>1
  <2> QED BY <2>1 DEF Copied
<1>11. Counted(p, c, p, 0)
  BY <1>1, CeilBound DEF Counted
<1>12. ~FullDisk => Filled(disk, Files, f, c + 0, p + Len(buffer))
  <2> SUFFICES ASSUME ~FullDisk PROVE Filled(disk, Files, f, c, p + Len(buffer))
    BY <1>1
  <2>1. Spare(disk, f) >= ceil(p + Len(buffer)) - c
    <3>1. Cardinality(Block \ bits(disk.bmap)) > ceil(p + Len(buffer)) - c
      BY DEF Room
    <3> PICK m : m = Cardinality(Block \ bits(disk.bmap))
      OBVIOUS
    <3> PICK e : e = ceil(p + Len(buffer))
      OBVIOUS
    <3>2. m \in Nat
      BY FreeBlocks
    <3>3. e \in Nat
      <4>1. p + Len(buffer) \in Nat
        BY <1>1, <1>3
      <4> QED BY <4>1, CeilBound
    <3>4. Spare(disk, f) >= m - 1
      BY <3>2 DEF Spare
    <3>5. Spare(disk, f) \in Int
      BY <3>2 DEF Spare
    <3>6. m > e - c
      BY <3>1
    <3> QED BY <1>1, <3>2, <3>3, <3>4, <3>5, <3>6
  <2> QED BY <1>5, <2>1 DEF Filled
<1>13. Progress(disk, Files, f, p, c, buffer, w0)
  BY <1>7, <1>8, <1>9, <1>10, <1>11, <1>12 DEF Progress
<1> QED BY <1>3, <1>6, <1>13

\* The numbers of a record.
LEMMA RecordFields ==
    ASSUME NEW D, DiskForm(D), NEW f \in File, NEW r, r = D.rec[f]
    PROVE  /\ r.bytes \in Nat /\ r.bytes <= MaxBytes /\ r.blocks \in Nat /\ r.exists \in BOOLEAN
           /\ \A o \in 0 .. r.bytes - 1 : o \in Offset /\ o \in Nat
           /\ r = [exists |-> r.exists, bytes |-> r.bytes, blocks |-> r.blocks]
<1>1. r \in FileRec
  BY DiskFields
<1>2. /\ r.bytes \in 0 .. MaxBytes /\ r.blocks \in Nat /\ r.exists \in BOOLEAN
      /\ r = [exists |-> r.exists, bytes |-> r.bytes, blocks |-> r.blocks]
  BY <1>1 DEF FileRec
<1>3. r.bytes \in Nat /\ r.bytes <= MaxBytes
  BY <1>2, Sizes
<1>4. \A o \in 0 .. r.bytes - 1 : o \in Offset /\ o \in Nat
  BY <1>3, Sizes DEF Offset
<1> QED BY <1>2, <1>3, <1>4

\* The block of every offset before the end of a sound file is its own.
LEMMA SoundSlots ==
    ASSUME Fits, NEW D, DiskForm(D), NEW f \in File, InodeForm(D, f),
           NEW h, NEW history, NEW T, Sound(D, h, history, T, f)
    PROVE  /\ \A o \in 0 .. D.rec[f].bytes - 1 :
                 /\ slot(D, f, o \div BS) \in owns(D, f)
                 /\ slot(D, f, o \div BS) \in Block
                 /\ get_file_logic_block_addr(D, f, o \div BS) = slot(D, f, o \div BS)
           /\ ~FullDisk => \A k \in 0 .. D.rec[f].blocks - 1 :
                 /\ k \in 0 .. Slots - 1
                 /\ slot(D, f, k) \in Block /\ slot(D, f, k) \in owns(D, f)
<1>1. /\ \A o \in 0 .. D.rec[f].bytes - 1 : o \in Offset /\ o \in Nat
      /\ D.rec[f].bytes \in Nat /\ D.rec[f].blocks \in Nat
      /\ D.rec[f].bytes \in 0 .. MaxBytes
  <2>1. D.rec[f].bytes \in Nat /\ D.rec[f].bytes <= MaxBytes
    BY RecordFields
  <2> QED BY <2>1, RecordFields, Sizes
<1>2. ASSUME NEW o \in 0 .. D.rec[f].bytes - 1
      PROVE  /\ slot(D, f, o \div BS) \in owns(D, f)
             /\ slot(D, f, o \div BS) \in Block
             /\ get_file_logic_block_addr(D, f, o \div BS) = slot(D, f, o \div BS)
  <2>1. o \in Offset /\ o < D.rec[f].bytes
    BY <1>1
  <2>2. slot(D, f, o \div BS) \in Block
    BY <2>1 DEF Sound
  <2>3. o \div BS \in 0 .. Slots - 1
    BY <2>1, OffsetSlot
  <2> QED BY <2>2, <2>3, SlotRead
<1>3. ASSUME ~FullDisk, NEW k \in 0 .. D.rec[f].blocks - 1
      PROVE  /\ k \in 0 .. Slots - 1
             /\ slot(D, f, k) \in Block /\ slot(D, f, k) \in owns(D, f)
  <2>1. D.rec[f].blocks = ceil(D.rec[f].bytes) /\ Exact(D, f, D.rec[f].blocks)
    BY <1>3 DEF Sound
  <2>2. slot(D, f, k) \in Block
    BY <2>1, ExactSlots
  <2>3. D.rec[f].blocks \in 0 .. DIRECT + PTRS
    BY <2>1 DEF Exact
  <2>4. D.rec[f].blocks <= Slots /\ Slots \in Nat
    BY <1>1, <2>1, <2>3, BlocksAddressed
  <2>5. k \in 0 .. Slots - 1
    BY <1>1, <2>4
  <2> QED BY <2>2, <2>5, SlotRead
<1> QED BY <1>2, <1>3

\* A file whose i-node, record and blocks stay, stays sound.
LEMMA SoundKept ==
    ASSUME Fits, NEW D, DiskForm(D), NEW f \in File, InodeForm(D, f),
           NEW h, NEW history, NEW T, Sound(D, h, history, T, f),
           NEW U, f \in U <=> f \in T,
           NEW E, E.inode[f] = D.inode[f], E.rec[f] = D.rec[f],
           \A x \in owns(D, f) : E.blk[x] = D.blk[x]
    PROVE  Sound(E, h, history, U, f) /\ owns(E, f) = owns(D, f) /\ InodeForm(E, f)
<1>1. D.inode[f].single # NULL_BLOCK => E.blk[D.inode[f].single] = D.blk[D.inode[f].single]
  BY DEF owns
<1>2. /\ owns(E, f) = owns(D, f) /\ InodeForm(E, f)
      /\ \A n : Exact(D, f, n) => Exact(E, f, n)
  BY <1>1, InodeUnmoved
<1>3. \A k : slot(E, f, k) = slot(D, f, k)
  BY <1>1 DEF slot
<1> PICK r : r = D.rec[f]
  OBVIOUS
<1>4. /\ h.busy => h.bytes = r.bytes /\ h.blocks = r.blocks
      /\ \A o \in Offset : o < r.bytes \/ (h.busy /\ o < h.pointer) => slot(D, f, o \div BS) \in Block
      /\ f \notin T => /\ r.blocks = ceil(r.bytes)
               /\ \A o \in 0 .. r.bytes - 1 : byte(D, f, o) = history[o] /\ history[o] # unwritten
      /\ ~FullDisk => /\ f \notin T /\ (h.busy => h.pointer <= r.bytes) /\ Exact(D, f, r.blocks)
                      /\ \A k \in 0 .. r.blocks - 1 : D.blk[slot(D, f, k)] \in Data
  BY DEF Sound
<1>5. \A o \in Offset : o < r.bytes \/ (h.busy /\ o < h.pointer) => slot(E, f, o \div BS) \in Block
  BY <1>3, <1>4
<1>6. \A o \in 0 .. r.bytes - 1 : byte(E, f, o) = byte(D, f, o)
  <2> SUFFICES ASSUME NEW o \in 0 .. r.bytes - 1 PROVE byte(E, f, o) = byte(D, f, o)
    OBVIOUS
  <2>1. slot(D, f, o \div BS) \in owns(D, f)
    BY SoundSlots
  <2> QED BY <1>3, <2>1 DEF byte
<1>7. ~FullDisk => \A k \in 0 .. r.blocks - 1 : E.blk[slot(E, f, k)] \in Data
  <2> SUFFICES ASSUME ~FullDisk, NEW k \in 0 .. r.blocks - 1 PROVE E.blk[slot(E, f, k)] \in Data
    OBVIOUS
  <2>1. slot(D, f, k) \in owns(D, f)
    BY SoundSlots
  <2>2. D.blk[slot(D, f, k)] \in Data
    BY <1>4
  <2> QED BY <1>3, <2>1, <2>2
<1>8. E.rec[f] = r
  OBVIOUS
<1>9. Sound(E, h, history, U, f)
  <2>1. f \notin T => /\ r.blocks = ceil(r.bytes)
              /\ \A o \in 0 .. r.bytes - 1 : byte(E, f, o) = history[o] /\ history[o] # unwritten
    BY <1>4, <1>6
  <2>2. ~FullDisk => /\ f \notin T /\ (h.busy => h.pointer <= r.bytes) /\ Exact(E, f, r.blocks)
                     /\ \A k \in 0 .. r.blocks - 1 : E.blk[slot(E, f, k)] \in Data
    BY <1>2, <1>4, <1>7
  <2>3. h.busy => h.bytes = r.bytes /\ h.blocks = r.blocks
    BY <1>4
  <2> QED BY <1>5, <1>8, <2>1, <2>2, <2>3 DEF Sound
<1> QED BY <1>2, <1>9

\* What is saved when write2 returns: nothing but the pointer if it failed.
Saved(p, b, c, n, w, h, r) ==
    /\ h = [busy |-> TRUE, pointer |-> w.pointer, bytes |-> r.bytes, blocks |-> r.blocks]
    /\ IF w.failed THEN r.bytes = b /\ r.blocks = c
       ELSE r.bytes = (IF b < p + n THEN p + n ELSE b) /\ r.blocks = c + w.added

\* The blocks are counted right, if the write began inside the file.
LEMMA CountSaved ==
    ASSUME NEW p \in Nat, NEW b \in Nat, NEW c, c = ceil(b), p <= b, NEW q \in Nat, p <= q,
           NEW added \in Nat, Counted(p, c, q, added), NEW nb, nb = IF b < q THEN q ELSE b
    PROVE  c + added = ceil(nb)
<1>1. c \in Nat /\ b <= c * BS /\ c * BS \in Nat
  <2>1. c \in Nat
    BY CeilBound
  <2>2. ceil(b) <= c
    BY <2>1
  <2> QED BY <2>1, <2>2, CeilBound
<1>2. IF ceil(q) <= c THEN added = 0 ELSE c + added = ceil(q)
  <2>1. p <= c * BS
    BY <1>1
  <2> QED BY <2>1 DEF Counted
<1>3. ceil(q) \in Nat
  BY CeilBound
<1>4. CASE b < q
  <2>1. c <= ceil(q)
    BY <1>4, CeilMonotone
  <2> QED BY <1>1, <1>2, <1>3, <1>4, <2>1
<1>5. CASE ~ (b < q)
  <2>1. ceil(q) <= c
    BY <1>5, CeilMonotone
  <2> QED BY <1>1, <1>2, <1>5, <2>1
<1> QED BY <1>4, <1>5

\* The history of the bytes from p to q is in the buffer.
Overwritten(old, history, p, q, buffer) ==
    \A o \in Offset : history[o] = IF o \in p .. q - 1 THEN buffer[o - p + 1] ELSE old[o]

\* A call, with what it found and left.
Written(D, F, f, p, c, buffer, b, g, old, T, w, E, U, h, history) ==
    /\ Call(D, F, f, p, c, buffer) /\ Progress(D, F, f, p, c, buffer, w)
    /\ w.failed \/ w.left = <<>>
    /\ InodeForm(D, f) /\ b \in Nat /\ b <= MaxBytes /\ D.rec[f].bytes = b /\ D.rec[f].blocks = c
    /\ g = [busy |-> TRUE, pointer |-> p, bytes |-> b, blocks |-> c] /\ Sound(D, g, old, T, f)
    /\ E.blk = w.disk.blk /\ E.inode = w.disk.inode
    /\ f \in U <=> f \in T \/ (~w.failed /\ p > b)
    /\ Saved(p, b, c, Len(buffer), w, h, E.rec[f]) /\ Overwritten(old, history, p, w.pointer, buffer)

\* A file is sound after it has been written.
LEMMA WriteSound ==
    ASSUME Fits, NEW D, NEW F, NEW f, NEW p, NEW c, NEW buffer, NEW b, NEW g, NEW old, NEW T,
           NEW w, NEW E, NEW U, NEW h, NEW history,
           Written(D, F, f, p, c, buffer, b, g, old, T, w, E, U, h, history)
    PROVE  Sound(E, h, history, U, f)
<1> SUFFICES ASSUME Call(D, F, f, p, c, buffer), Progress(D, F, f, p, c, buffer, w),
                    w.failed \/ w.left = <<>>,
                    InodeForm(D, f), b \in Nat, b <= MaxBytes, D.rec[f].bytes = b, D.rec[f].blocks = c,
                    g = [busy |-> TRUE, pointer |-> p, bytes |-> b, blocks |-> c],
                    Sound(D, g, old, T, f),
                    E.blk = w.disk.blk, E.inode = w.disk.inode,
                    f \in U <=> f \in T \/ (~w.failed /\ p > b),
                    Saved(p, b, c, Len(buffer), w, h, E.rec[f]),
                    Overwritten(old, history, p, w.pointer, buffer)
             PROVE  Sound(E, h, history, U, f)
  BY DEF Written
<1> PICK q : q = w.pointer
  OBVIOUS
<1> PICK n : n = Len(buffer)
  OBVIOUS
<1> PICK A : A = w.disk
  OBVIOUS
<1> PICK r : r = E.rec[f]
  OBVIOUS
<1>1. /\ f \in File /\ p \in Nat /\ c \in Nat /\ n \in Nat /\ p + n <= MaxBytes /\ DiskForm(D)
      /\ \A j \in 1 .. n : buffer[j] \in Value
  <2>1. /\ f \in File /\ p \in Nat /\ c \in Nat /\ buffer \in Seq(Value) /\ p + n <= MaxBytes
        /\ DiskForm(D)
    BY DEF Call
  <2>2. n \in Nat /\ buffer \in [1 .. n -> Value]
    BY <2>1
  <2> QED BY <2>1, <2>2
<1>2. /\ q \in p .. p + n /\ q \in Nat /\ w.added \in Nat /\ w.failed \in BOOLEAN
      /\ ~w.failed => q = p + n
  <2>1. /\ q \in p .. p + n /\ w.added \in Nat /\ w.failed \in BOOLEAN
        /\ w.left \in Seq(Value) /\ Len(w.left) = n - (q - p)
    BY DEF Progress, Moved
  <2>2. w.left = <<>> => Len(w.left) = 0
    OBVIOUS
  <2>3. q \in Nat
    BY <1>1, <2>1
  <2>4. ~w.failed => q = p + n
    <3> SUFFICES ASSUME ~w.failed PROVE q = p + n
      OBVIOUS
    <3>1. w.left = <<>>
      OBVIOUS
    <3>2. 0 = n - (q - p)
      BY <2>1, <2>2, <3>1
    <3>3. n \in Nat /\ p \in Nat /\ q \in Nat
      BY <1>1, <2>3
    <3> QED BY <3>2, <3>3
  <2> QED BY <2>1, <2>3, <2>4
<1>3. /\ Intact(D, A, F, f) /\ Copied(D, f, p, c, buffer, A, q) /\ Counted(p, c, q, w.added)
      /\ w.failed => FullDisk
      /\ ~FullDisk => Filled(A, F, f, c + w.added, p + n)
  BY DEF Progress
<1>4. /\ \A k : slot(E, f, k) = slot(A, f, k)
      /\ \A o : byte(E, f, o) = byte(A, f, o)
      /\ \A m : Exact(A, f, m) => Exact(E, f, m)
  <2>1. \A k : slot(E, f, k) = slot(A, f, k)
    BY DEF slot
  <2>2. \A m : Exact(A, f, m) => Exact(E, f, m)
    BY InodeUnmoved
  <2> QED BY <2>1, <2>2 DEF byte
<1>5. /\ \A o \in Offset : o < b \/ o < p => slot(D, f, o \div BS) \in Block
      /\ f \notin T => /\ c = ceil(b)
               /\ \A o \in 0 .. b - 1 : byte(D, f, o) = old[o] /\ old[o] # unwritten
      /\ ~FullDisk => f \notin T /\ p <= b
  BY DEF Sound
<1>6. ASSUME NEW o \in p .. q - 1
      PROVE  slot(E, f, o \div BS) \in Block /\ byte(E, f, o) = buffer[o - p + 1]
  BY <1>3, <1>4 DEF Copied
<1>7. ASSUME NEW o \in Offset, slot(D, f, o \div BS) \in Block
      PROVE  slot(E, f, o \div BS) \in Block
  <2>1. o \div BS \in 0 .. Slots - 1
    BY OffsetSlot
  <2> QED BY <1>3, <1>4, <1>7, <2>1 DEF Intact
<1>8. /\ h.busy /\ h.pointer = q /\ h.bytes = r.bytes /\ h.blocks = r.blocks
      /\ w.failed => r.bytes = b /\ r.blocks = c
      /\ ~w.failed => r.bytes = (IF b < q THEN q ELSE b) /\ r.blocks = c + w.added
  BY <1>2 DEF Saved
<1>9. ASSUME NEW o \in Offset, o < r.bytes \/ o < q PROVE slot(E, f, o \div BS) \in Block
  <2>1. o \in Nat
    BY OffsetSlot
  <2>2. CASE o \in p .. q - 1
    BY <1>6, <2>2
  <2>3. CASE ~ (o \in p .. q - 1)
    <3>1. o < b \/ o < p
      BY <1>1, <1>2, <1>8, <1>9, <2>1, <2>3
    <3> QED BY <1>5, <1>7, <3>1
  <2> QED BY <2>2, <2>3
<1>10. ASSUME f \notin U PROVE f \notin T /\ c = ceil(b) /\ (~w.failed => p <= b)
  <2>2. f \notin T /\ ~ (~w.failed /\ p > b)
    BY <1>10
  <2>3. ~ (p > b) => p <= b
    BY <1>1
  <2> QED BY <1>5, <2>2, <2>3
<1>11. ASSUME f \notin U PROVE r.blocks = ceil(r.bytes)
  <2>1. CASE w.failed
    BY <1>8, <1>10, <1>11, <2>1
  <2>2. CASE ~w.failed
    <3>1. c + w.added = ceil(IF b < q THEN q ELSE b)
      <4>1. p <= b /\ c = ceil(b)
        BY <1>10, <1>11, <2>2
      <4>2. p <= q
        BY <1>1, <1>2
      <4> QED BY <1>1, <1>2, <1>3, <4>1, <4>2, CountSaved, SMTT(30)
    <3> QED BY <1>8, <2>2, <3>1
  <2> QED BY <1>2, <2>1, <2>2
<1>12. r.bytes \in Nat /\ r.bytes <= MaxBytes
  <2>1. p + n \in Nat
    BY <1>1
  <2> QED BY <1>1, <1>2, <1>8, <2>1
<1>13. ASSUME f \notin U, NEW o \in 0 .. r.bytes - 1
       PROVE  byte(E, f, o) = history[o] /\ history[o] # unwritten
  <2>1. o \in Nat /\ o \in Offset
    BY <1>12, Sizes DEF Offset
  <2>2. CASE o \in p .. q - 1
    <3>1. o - p + 1 \in 1 .. n
      BY <1>1, <1>2, <2>1, <2>2
    <3>2. history[o] = buffer[o - p + 1]
      BY <2>1, <2>2 DEF Overwritten
    <3>3. buffer[o - p + 1] # unwritten
      BY <1>1, <3>1, ValueAssumption
    <3> QED BY <1>6, <2>2, <3>2, <3>3
  <2>3. CASE ~ (o \in p .. q - 1)
    <3>1. o \in 0 .. b - 1
      <4>1. w.failed \/ p <= b
        BY <1>10, <1>13
      <4> QED BY <1>1, <1>2, <1>8, <1>13, <2>1, <2>3, <4>1
    <3>2. o \div BS < c
      <4>1. ceil(b) <= c
        BY <1>1, <1>10, <1>13
      <4>2. b <= c * BS /\ c * BS \in Nat
        BY <1>1, <4>1, CeilBound
      <4>3. o < c * BS
        BY <2>1, <3>1, <4>2
      <4> QED BY <1>1, <2>1, <4>3, CeilBound
    <3>3. slot(D, f, o \div BS) \in Block
      BY <1>5, <2>1, <3>1
    <3>4. byte(E, f, o) = byte(D, f, o)
      BY <1>3, <1>4, <2>1, <2>3, <3>2, <3>3 DEF Copied
    <3>5. history[o] = old[o]
      BY <2>1, <2>3 DEF Overwritten
    <3> QED BY <1>5, <1>10, <1>13, <3>1, <3>4, <3>5
  <2> QED BY <2>2, <2>3
<1>14. ASSUME ~FullDisk
       PROVE  /\ f \notin U /\ h.pointer <= r.bytes /\ Exact(E, f, r.blocks)
              /\ \A k \in 0 .. r.blocks - 1 : E.blk[slot(E, f, k)] \in Data
  <2>1. ~w.failed /\ f \notin U
    BY <1>1, <1>3, <1>5, <1>14
  <2>2. h.pointer <= r.bytes
    BY <1>2, <1>8, <2>1
  <2>3. Exact(A, f, r.blocks) /\ \A k \in 0 .. r.blocks - 1 : A.blk[slot(A, f, k)] \in Data
    BY <1>3, <1>8, <1>14, <2>1 DEF Filled
  <2> QED BY <1>4, <2>1, <2>2, <2>3
<1>15. Sound(E, h, history, U, f)
  <2>1. h.busy => h.bytes = r.bytes /\ h.blocks = r.blocks
    BY <1>8
  <2>2. \A o \in Offset : o < r.bytes \/ (h.busy /\ o < h.pointer) => slot(E, f, o \div BS) \in Block
    BY <1>8, <1>9
  <2> QED BY <1>11, <1>13, <1>14, <2>1, <2>2 DEF Sound
<1> QED BY <1>15

\* Disk E is D with another record of file f.
SetRecord(D, E, f, r) ==
    /\ DiskForm(E) /\ E.bmap = D.bmap /\ E.blk = D.blk /\ E.inode = D.inode
    /\ E.rec[f] = r /\ \A g \in File \ {f} : E.rec[g] = D.rec[g]

\* A call sets the block counts of files that exist and of handles in use.
CountsKept ==
    \A g \in File : /\ g \in Files' \/ disk'.rec[g].blocks = disk.rec[g].blocks
                    /\ file'[g].busy \/ file'[g].blocks = file[g].blocks \/ file'[g].blocks = 0

\* A record is replaced.
LEMMA RecordSet ==
    ASSUME NEW D, DiskForm(D), NEW f \in File, NEW r \in FileRec, NEW E, E = [D EXCEPT !.rec[f] = r]
    PROVE  SetRecord(D, E, f, r)
<1>1. DOMAIN D = {"bmap", "blk", "inode", "rec"}
  BY DiskFields
<1>2. E.bmap = D.bmap /\ E.blk = D.blk /\ E.inode = D.inode
  BY <1>1
<1>3. E.rec = [D.rec EXCEPT ![f] = r]
  BY <1>1
<1>4. E = [bmap |-> E.bmap, blk |-> E.blk, inode |-> E.inode, rec |-> E.rec]
  BY <1>1
<1>5. D.rec \in [File -> FileRec]
  BY DiskFields
<1>6. E.rec[f] = r /\ E.rec \in [File -> FileRec] /\ \A g \in File \ {f} : E.rec[g] = D.rec[g]
  BY <1>3, <1>5
<1>7. DiskForm(E)
  <2>1. /\ D.bmap \in Bitmap /\ DOMAIN D.blk = Block /\ D.inode \in [File -> FileInode]
    BY DiskFields
  <2> QED BY <1>2, <1>4, <1>6, <2>1 DEF DiskForm
<1> QED BY <1>2, <1>6, <1>7 DEF SetRecord

\* saved replaces the record.
LEMMA RecordSaved ==
    ASSUME NEW D, DiskForm(D), NEW f \in File, NEW bytes \in 0 .. MaxBytes, NEW blocks \in Nat,
           NEW E, E = saved(D, f, bytes, blocks)
    PROVE  SetRecord(D, E, f, [exists |-> D.rec[f].exists, bytes |-> bytes, blocks |-> blocks])
<1> PICK r : r = D.rec[f]
  OBVIOUS
<1> PICK s : s = [exists |-> r.exists, bytes |-> bytes, blocks |-> blocks]
  OBVIOUS
<1>1. r = [exists |-> r.exists, bytes |-> r.bytes, blocks |-> r.blocks] /\ r.exists \in BOOLEAN
  BY RecordFields
<1>2. s \in FileRec
  BY <1>1 DEF FileRec
<1>3. E = [D EXCEPT !.rec[f] = s]
  <2>1. DOMAIN D = {"bmap", "blk", "inode", "rec"} /\ D.rec \in [File -> FileRec]
    BY DiskFields
  <2>2. E = [[D EXCEPT !.rec[f].bytes = bytes] EXCEPT !.rec[f].blocks = blocks]
    BY DEF saved
  <2> PICK u : u = [exists |-> r.exists, bytes |-> bytes, blocks |-> r.blocks]
    OBVIOUS
  <2>3. u = [r EXCEPT !.bytes = bytes] /\ s = [u EXCEPT !.blocks = blocks]
    BY <1>1
  <2> PICK C : C = [D EXCEPT !.rec[f] = u]
    OBVIOUS
  <2>4. [D EXCEPT !.rec[f].bytes = bytes] = C
    BY <2>3
  <2>5. C.rec[f] = u /\ DOMAIN C = {"bmap", "blk", "inode", "rec"}
    BY <2>1
  <2>6. E = [C EXCEPT !.rec[f] = s]
    BY <2>2, <2>3, <2>4, <2>5
  <2>7. [C EXCEPT !.rec[f] = s] = [D EXCEPT !.rec[f] = s]
    BY <2>1, <2>5
  <2> QED BY <2>6, <2>7
<1> QED BY <1>2, <1>3, RecordSet

\* Whose the blocks are, and that all are used, does not depend on the records.
LEMMA RecordsApart ==
    ASSUME NEW D, NEW E, E.bmap = D.bmap, E.blk = D.blk, E.inode = D.inode, NEW F
    PROVE  /\ Separate(D, F) => Separate(E, F)
           /\ Packed(D, F) => Packed(E, F)
           /\ \A g \in F : owns(E, g) = owns(D, g)
<1>1. \A g \in F : owns(E, g) = owns(D, g) /\ (InodeForm(D, g) => InodeForm(E, g))
  BY InodeUnmoved
<1>2. Separate(D, F) => Separate(E, F)
  BY <1>1 DEF Separate
<1>3. Packed(D, F) => Packed(E, F)
  <2>1. {owns(E, g) : g \in F} = {owns(D, g) : g \in F}
    BY <1>1
  <2> QED BY <2>1 DEF Packed
<1> QED BY <1>1, <1>2, <1>3

\* A handle from its fields.
LEMMA HandleFields ==
    ASSUME NEW h \in Handle
    PROVE  /\ h = [busy |-> h.busy, pointer |-> h.pointer, bytes |-> h.bytes, blocks |-> h.blocks]
           /\ h.busy \in BOOLEAN /\ h.pointer \in 0 .. MaxBytes /\ h.bytes \in 0 .. MaxBytes
           /\ h.blocks \in Nat
BY DEF Handle

\* A handle in use whose pointer is moved.
LEMMA HandleMoved ==
    ASSUME NEW h, NEW p, NEW b, NEW c, NEW q,
           h = [busy |-> TRUE, pointer |-> p, bytes |-> b, blocks |-> c]
    PROVE  [h EXCEPT !.pointer = q] = [busy |-> TRUE, pointer |-> q, bytes |-> b, blocks |-> c]
<1> PICK g : g = [h EXCEPT !.pointer = q]
  OBVIOUS
<1>1. DOMAIN g = {"busy", "pointer", "bytes", "blocks"}
  OBVIOUS
<1>2. g = [x \in {"busy", "pointer", "bytes", "blocks"} |-> g[x]]
  BY <1>1
<1>3. g.busy = TRUE /\ g.pointer = q /\ g.bytes = b /\ g.blocks = c
  OBVIOUS
<1>4. g = [busy |-> TRUE, pointer |-> q, bytes |-> b, blocks |-> c]
  BY <1>2, <1>3
<1> QED BY <1>4

\* write2 keeps the invariant.
LEMMA write2Keeps ==
    ASSUME Fits, IInv, NEW f \in File, NEW buffer \in Buffer, write2(f, buffer)
    PROVE  IInv' /\ CountsKept
<1> PICK D : D = disk
  OBVIOUS
<1> PICK E : E = disk'
  OBVIOUS
<1> PICK p : p = file[f].pointer
  OBVIOUS
<1> PICK c : c = file[f].blocks
  OBVIOUS
<1> PICK b : b = file[f].bytes
  OBVIOUS
<1> PICK n : n = Len(buffer)
  OBVIOUS
<1> PICK w : w = write_blocks(f, buffer)
  OBVIOUS
<1> PICK A : A = w.disk
  OBVIOUS
<1> PICK q : q = w.pointer
  OBVIOUS
<1> PICK w0 : w0 = [disk |-> disk, pointer |-> p, left |-> buffer, added |-> 0, failed |-> FALSE]
  OBVIOUS
<1> PICK new : new = IF b < n + p THEN p + n ELSE b
  OBVIOUS
<1>1. /\ file[f].busy /\ p + n <= MaxBytes /\ Room(f, n)
      /\ wrote' = [wrote EXCEPT ![f] = [o \in Offset |-> IF o \in p .. q - 1 THEN buffer[o - p + 1]
                                                         ELSE @[o]]]
      /\ torn' = IF ~w.failed /\ p > b THEN torn \cup {f} ELSE torn
      /\ w.failed => E = A /\ file' = [file EXCEPT ![f].pointer = q]
      /\ ~w.failed => /\ E = saved(A, f, new, c + w.added)
                      /\ file' = [file EXCEPT ![f] = [busy |-> TRUE, pointer |-> q,
                                                      bytes |-> new, blocks |-> c + w.added]]
  BY DEF write2, new_size
<1>2. /\ DiskForm(D) /\ file \in [File -> Handle] /\ torn \subseteq File
      /\ wrote \in [File -> [Offset -> Value \cup {unwritten}]]
      /\ Separate(D, Files) /\ \A g \in File : file[g].busy => g \in Files
      /\ \A g \in Files : Sound(D, file[g], wrote[g], torn, g)
      /\ Files = {g \in File : D.rec[g].exists}
  BY DEF IInv, StateForm, Files
<1>3. /\ file[f] = [busy |-> TRUE, pointer |-> p, bytes |-> b, blocks |-> c]
      /\ p \in Nat /\ b \in Nat /\ b <= MaxBytes /\ c \in Nat
  <2>1. file[f] \in Handle
    BY <1>2
  <2>2. /\ file[f] = [busy |-> file[f].busy, pointer |-> p, bytes |-> b, blocks |-> c]
        /\ file[f].busy \in BOOLEAN /\ p \in 0 .. MaxBytes /\ b \in 0 .. MaxBytes /\ c \in Nat
    BY <2>1, HandleFields
  <2>3. p \in Nat /\ b \in Nat /\ b <= MaxBytes
    BY <2>2, Sizes
  <2>4. file[f].busy = TRUE
    BY <1>1, <2>2
  <2> QED BY <2>2, <2>3, <2>4
<1>4. f \in Files /\ D.rec[f].exists /\ D.rec[f].bytes = b /\ D.rec[f].blocks = c
  BY <1>1, <1>2 DEF Sound
<1>5. /\ Call(D, Files, f, p, c, buffer) /\ Progress(D, Files, f, p, c, buffer, w0) /\ n <= MaxIO
  BY <1>1, WriteStarts
<1>6. Progress(D, Files, f, p, c, buffer, w) /\ (w.failed \/ w.left = <<>>)
  BY <1>5, LoopEnds
<1>7. /\ Intact(D, A, Files, f) /\ q \in p .. p + n /\ w.added \in Nat /\ w.failed \in BOOLEAN
      /\ w.failed => FullDisk
      /\ ~FullDisk => Packed(A, Files)
      /\ ~w.failed => q = p + n
      /\ n \in Nat /\ q \in Nat
  <2>1. /\ q \in p .. p + n /\ w.added \in Nat /\ w.failed \in BOOLEAN
        /\ w.left \in Seq(Value) /\ Len(w.left) = n - (q - p)
    BY <1>6 DEF Progress, Moved
  <2>2. w.left = <<>> => Len(w.left) = 0
    OBVIOUS
  <2>3. n \in Nat /\ q \in Nat
    <3>1. buffer \in Seq(Value)
      BY <1>5 DEF Call
    <3>2. n \in Nat
      BY <3>1
    <3> QED BY <1>3, <2>1, <3>2
  <2>4. ~w.failed => q = p + n
    <3> SUFFICES ASSUME ~w.failed PROVE q = p + n
      OBVIOUS
    <3>1. 0 = n - (q - p)
      BY <1>6, <2>1, <2>2
    <3> QED BY <1>3, <2>3, <3>1
  <2>5. Intact(D, A, Files, f) /\ (w.failed => FullDisk) /\ (~FullDisk => Packed(A, Files))
    BY <1>6 DEF Progress, Filled
  <2> QED BY <2>1, <2>3, <2>4, <2>5
<1>8. DiskForm(A) /\ A.rec = D.rec /\ Separate(A, Files)
  BY <1>7 DEF Intact
<1>9. new \in 0 .. MaxBytes /\ new = (IF b < p + n THEN p + n ELSE b)
  <2>1. p + n \in Nat /\ p + n = n + p
    BY <1>3, <1>7
  <2> QED BY <1>1, <1>3, <2>1, Sizes
<1>10. /\ DiskForm(E) /\ E.bmap = A.bmap /\ E.blk = A.blk /\ E.inode = A.inode
       /\ \A g \in File \ {f} : E.rec[g] = D.rec[g]
       /\ E.rec[f].exists
       /\ w.failed => E.rec[f].bytes = b /\ E.rec[f].blocks = c
       /\ ~w.failed => E.rec[f].bytes = new /\ E.rec[f].blocks = c + w.added
  <2>1. CASE w.failed
    BY <1>1, <1>4, <1>8, <2>1
  <2>2. CASE ~w.failed
    <3>1. c + w.added \in Nat
      BY <1>3, <1>7
    <3>2. SetRecord(A, E, f, [exists |-> A.rec[f].exists, bytes |-> new, blocks |-> c + w.added])
      BY <1>1, <1>8, <1>9, <2>2, <3>1, RecordSaved
    <3> QED BY <1>4, <1>8, <2>2, <3>2 DEF SetRecord
  <2> QED BY <1>7, <2>1, <2>2
<1>11. Files' = Files
  <2>1. Files' = {g \in File : E.rec[g].exists}
    BY DEF Files
  <2> QED BY <1>2, <1>4, <1>10, <2>1
<1> PICK h : h = file'[f]
  OBVIOUS
<1>12. /\ file' \in [File -> Handle] /\ \A g \in File \ {f} : file'[g] = file[g]
       /\ Saved(p, b, c, n, w, h, E.rec[f])
  <2> PICK u : u = [busy |-> TRUE, pointer |-> q, bytes |-> E.rec[f].bytes,
                    blocks |-> E.rec[f].blocks]
    OBVIOUS
  <2>1. u \in Handle
    <3>1. E.rec[f].bytes \in 0 .. MaxBytes /\ E.rec[f].blocks \in Nat
      <4>1. E.rec[f].bytes \in Nat /\ E.rec[f].bytes <= MaxBytes /\ E.rec[f].blocks \in Nat
        BY <1>10, RecordFields
      <4> QED BY <4>1, Sizes
    <3>2. q \in 0 .. MaxBytes
      BY <1>1, <1>3, <1>7, Sizes
    <3> QED BY <3>1, <3>2 DEF Handle
  <2>2. file' = [file EXCEPT ![f] = u]
    <3>1. CASE w.failed
      <4>1. [file[f] EXCEPT !.pointer = q] = u
        <5>1. u = [busy |-> TRUE, pointer |-> q, bytes |-> b, blocks |-> c]
          BY <1>10, <3>1
        <5>2. file[f] = [busy |-> TRUE, pointer |-> p, bytes |-> b, blocks |-> c]
          BY <1>3
        <5>3. [file[f] EXCEPT !.pointer = q] = [busy |-> TRUE, pointer |-> q, bytes |-> b, blocks |-> c]
          BY <5>2, HandleMoved
        <5> QED BY <5>1, <5>3
      <4> QED BY <1>1, <3>1, <4>1
    <3>2. CASE ~w.failed
      BY <1>1, <1>10, <3>2
    <3> QED BY <1>7, <3>1, <3>2
  <2>3. h = u /\ file' \in [File -> Handle] /\ \A g \in File \ {f} : file'[g] = file[g]
    BY <1>2, <2>1, <2>2
  <2> QED BY <1>7, <1>9, <1>10, <2>3 DEF Saved
<1>13. /\ \A o \in Offset : wrote'[f][o] = IF o \in p .. q - 1 THEN buffer[o - p + 1] ELSE wrote[f][o]
       /\ \A g \in File \ {f} : wrote'[g] = wrote[g]
       /\ wrote' \in [File -> [Offset -> Value \cup {unwritten}]]
  <2> PICK now : now = [o \in Offset |-> IF o \in p .. q - 1 THEN buffer[o - p + 1] ELSE wrote[f][o]]
    OBVIOUS
  <2>1. wrote' = [wrote EXCEPT ![f] = now]
    BY <1>1
  <2>2. \A o \in Offset : now[o] \in Value \cup {unwritten}
    <3> SUFFICES ASSUME NEW o \in Offset PROVE now[o] \in Value \cup {unwritten}
      OBVIOUS
    <3>1. CASE o \in p .. q - 1
      <4>1. buffer \in [1 .. n -> Value]
        <5>1. buffer \in Seq(Value)
          BY <1>5 DEF Call
        <5> QED BY <5>1
      <4>2. o - p + 1 \in 1 .. n
        BY <1>3, <1>7, <3>1
      <4> QED BY <3>1, <4>1, <4>2
    <3>2. CASE ~ (o \in p .. q - 1)
      BY <1>2, <3>2
    <3> QED BY <3>1, <3>2
  <2>3. now \in [Offset -> Value \cup {unwritten}]
    BY <2>2
  <2> QED BY <1>2, <2>1, <2>3
<1>14. /\ torn' \subseteq File /\ \A g \in File \ {f} : g \in torn' <=> g \in torn
       /\ f \in torn' <=> f \in torn \/ (~w.failed /\ p > b)
  BY <1>1, <1>2
<1>15. InodeForm(D, f) /\ \A g \in Files : InodeForm(D, g)
  BY <1>2, <1>4 DEF Separate
<1>16. Sound(E, h, wrote'[f], torn', f)
  <2>1. Sound(D, file[f], wrote[f], torn, f)
    BY <1>2, <1>4
  <2>2. Overwritten(wrote[f], wrote'[f], p, w.pointer, buffer)
    BY <1>13 DEF Overwritten
  <2>3. f \in torn' <=> f \in torn \/ (~w.failed /\ p > b)
    BY <1>14
  <2>4. E.blk = w.disk.blk /\ E.inode = w.disk.inode /\ Saved(p, b, c, Len(buffer), w, h, E.rec[f])
    BY <1>10, <1>12
  <2>5. /\ InodeForm(D, f) /\ b \in Nat /\ b <= MaxBytes /\ D.rec[f].bytes = b /\ D.rec[f].blocks = c
        /\ file[f] = [busy |-> TRUE, pointer |-> p, bytes |-> b, blocks |-> c]
    BY <1>3, <1>4, <1>15
  <2>6. /\ Call(D, Files, f, p, c, buffer) /\ Progress(D, Files, f, p, c, buffer, w)
        /\ w.failed \/ w.left = <<>>
    BY <1>5, <1>6
  <2>7. Written(D, Files, f, p, c, buffer, b, file[f], wrote[f], torn, w, E, torn', h, wrote'[f])
    BY <2>1, <2>2, <2>3, <2>4, <2>5, <2>6 DEF Written
  <2> QED BY <2>7, WriteSound
<1>17. ASSUME NEW g \in Files \ {f}
       PROVE  Sound(E, file'[g], wrote'[g], torn', g)
  <2>1. g \in File \ {f} /\ InodeForm(D, g)
    BY <1>2, <1>15
  <2>2. Sound(D, file[g], wrote[g], torn, g)
    BY <1>2
  <2>3. E.inode[g] = D.inode[g] /\ E.rec[g] = D.rec[g] /\ \A x \in owns(D, g) : E.blk[x] = D.blk[x]
    BY <1>7, <1>10, <2>1 DEF Intact
  <2>5. file'[g] = file[g] /\ wrote'[g] = wrote[g] /\ (g \in torn' <=> g \in torn)
    BY <1>12, <1>13, <1>14, <2>1
  <2>4. Sound(E, file[g], wrote[g], torn', g)
    BY <1>2, <2>1, <2>2, <2>3, <2>5, SoundKept
  <2> QED BY <2>4, <2>5
<1>18. Separate(E, Files) /\ (~FullDisk => Packed(E, Files))
  BY <1>7, <1>8, <1>10, RecordsApart
<1>19. StateForm'
  BY <1>10, <1>12, <1>13, <1>14 DEF StateForm
<1>20. \A g \in File : file'[g].busy => g \in Files
  BY <1>2, <1>4, <1>12
<1>21. \A g \in Files : Sound(E, file'[g], wrote'[g], torn', g)
  BY <1>16, <1>17
<1>22. IInv'
  BY <1>11, <1>18, <1>19, <1>20, <1>21 DEF IInv
<1>23. CountsKept
  <2>1. h.busy
    BY <1>12 DEF Saved
  <2> QED BY <1>4, <1>10, <1>11, <1>12, <2>1 DEF CountsKept
<1> QED BY <1>22, <1>23

-----------------------------------------------------------------------------
(***************************************************************************)
(* The calls that change the handles alone.                                *)
(***************************************************************************)
\* What a handle needs for the invariant.
Current(h, f) ==
    h.busy => /\ f \in Files /\ h.bytes = disk.rec[f].bytes /\ h.blocks = disk.rec[f].blocks
              /\ \A o \in Offset : o < h.pointer => slot(disk, f, o \div BS) \in Block
              /\ ~FullDisk => h.pointer <= disk.rec[f].bytes

\* The invariant says it of every handle.
LEMMA HandlesCurrent ==
    ASSUME IInv
    PROVE  \A f \in File : Current(file[f], f)
<1> SUFFICES ASSUME NEW f \in File, file[f].busy PROVE Current(file[f], f)
  BY DEF Current
<1>1. f \in Files
  BY DEF IInv
<1>2. Sound(disk, file[f], wrote[f], torn, f)
  BY <1>1 DEF IInv
<1> QED BY <1>1, <1>2 DEF Sound, Current

\* A call that changes the handles alone.
LEMMA HandlesKept ==
    ASSUME IInv, UNCHANGED <<disk, wrote, torn>>, file' \in [File -> Handle],
           \A f \in File : Current(file'[f], f)
    PROVE  IInv'
<1>1. Files' = Files
  BY DEF Files
<1>2. StateForm'
  BY DEF IInv, StateForm
<1>3. \A f \in File : file'[f].busy => f \in Files
  BY DEF Current
<1>4. ASSUME NEW f \in Files PROVE Sound(disk, file'[f], wrote[f], torn, f)
  <2>1. Sound(disk, file[f], wrote[f], torn, f)
    BY DEF IInv
  <2>2. Current(file'[f], f)
    BY DEF Files
  <2> PICK h : h = file'[f]
    OBVIOUS
  <2> PICK g : g = file[f]
    OBVIOUS
  <2>3. Sound(disk, g, wrote[f], torn, f) /\ Current(h, f)
    BY <2>1, <2>2
  <2>4. Sound(disk, h, wrote[f], torn, f)
    BY <2>3 DEF Sound, Current
  <2> QED BY <2>4
<1>5. Separate(disk, Files) /\ (~FullDisk => Packed(disk, Files))
  BY DEF IInv
<1> QED BY <1>1, <1>2, <1>3, <1>4, <1>5 DEF IInv

\* One handle changes.
LEMMA HandleKept ==
    ASSUME IInv, UNCHANGED <<disk, wrote, torn>>, NEW f \in File, NEW h \in Handle,
           file' = [file EXCEPT ![f] = h], Current(h, f)
    PROVE  IInv'
<1>1. file \in [File -> Handle]
  BY DEF IInv, StateForm
<1>2. file' \in [File -> Handle] /\ file'[f] = h /\ \A g \in File \ {f} : file'[g] = file[g]
  BY <1>1
<1>3. \A g \in File : Current(file[g], g)
  BY HandlesCurrent
<1>4. \A g \in File : Current(file'[g], g)
  BY <1>2, <1>3
<1> QED BY <1>2, <1>4, HandlesKept

\* open2 copies the record.
LEMMA open2Keeps ==
    ASSUME IInv, NEW f \in File, open2(f)
    PROVE  IInv'
<1> PICK h : h = opened(f)
  OBVIOUS
<1>1. DiskForm(disk) /\ f \in Files
  BY DEF IInv, StateForm, open2, Files
<1>2. h = [busy |-> TRUE, pointer |-> 0, bytes |-> disk.rec[f].bytes, blocks |-> disk.rec[f].blocks]
  BY DEF opened
<1>3. /\ disk.rec[f].bytes \in Nat /\ disk.rec[f].bytes <= MaxBytes /\ disk.rec[f].blocks \in Nat
  BY <1>1, RecordFields
<1>4. h \in Handle
  BY <1>2, <1>3, Sizes DEF Handle
<1>5. \A o \in Offset : ~ (o < 0)
  BY Sizes DEF Offset
<1>6. Current(h, f)
  BY <1>1, <1>2, <1>3, <1>5 DEF Current
<1>7. UNCHANGED <<disk, wrote, torn>> /\ file' = [file EXCEPT ![f] = h]
  BY DEF open2
<1> QED BY <1>4, <1>6, <1>7, HandleKept

\* A handle that is closed keeps its numbers.
LEMMA HandleClosed ==
    ASSUME file \in [File -> Handle], NEW f \in File, file' = [file EXCEPT ![f].busy = FALSE]
    PROVE  \E h \in Handle : ~h.busy /\ h.blocks = file[f].blocks /\ file' = [file EXCEPT ![f] = h]
<1> PICK g \in Handle : g = file[f]
  OBVIOUS
<1> PICK h : h = [g EXCEPT !.busy = FALSE]
  OBVIOUS
<1>1. h \in Handle /\ ~h.busy /\ h.blocks = file[f].blocks
  BY DEF Handle
<1>2. file' = [file EXCEPT ![f] = h]
  OBVIOUS
<1> QED BY <1>1, <1>2

\* close2 gives up a handle.
LEMMA close2Keeps ==
    ASSUME IInv, NEW f \in File, close2(f)
    PROVE  IInv'
<1>1. file \in [File -> Handle]
  BY DEF IInv, StateForm
<1>2. UNCHANGED <<disk, wrote, torn>> /\ file' = [file EXCEPT ![f].busy = FALSE]
  BY DEF close2
<1> PICK h \in Handle : ~h.busy /\ file' = [file EXCEPT ![f] = h]
  BY <1>1, <1>2, HandleClosed
<1>3. Current(h, f)
  BY DEF Current
<1> QED BY <1>2, <1>3, HandleKept

\* restart gives up all of them.
LEMMA restartKeeps ==
    ASSUME IInv, restart
    PROVE  IInv'
<1>1. closed \in Handle /\ ~closed.busy
  BY Sizes DEF closed, Handle
<1>2. file' = [f \in File |-> closed] /\ UNCHANGED <<disk, wrote, torn>>
  BY DEF restart
<1>3. file' \in [File -> Handle]
  BY <1>1, <1>2
<1>4. \A f \in File : Current(file'[f], f)
  BY <1>1, <1>2 DEF Current
<1> QED BY <1>2, <1>3, <1>4, HandlesKept

\* A pointer moves to an offset before the end, or not at all.
LEMMA PointerKept ==
    ASSUME IInv, UNCHANGED <<disk, wrote, torn>>, NEW f \in File, file[f].busy,
           NEW q, q = file[f].pointer \/ (q \in Nat /\ q <= file[f].bytes),
           file' = [file EXCEPT ![f].pointer = q]
    PROVE  IInv'
<1>1. /\ DiskForm(disk) /\ file \in [File -> Handle] /\ Current(file[f], f) /\ f \in Files
      /\ Sound(disk, file[f], wrote[f], torn, f)
  BY HandlesCurrent DEF IInv, StateForm
<1> PICK g \in Handle : g = file[f]
  BY <1>1
<1> PICK p : p = g.pointer
  OBVIOUS
<1> PICK b : b = g.bytes
  OBVIOUS
<1> PICK c : c = g.blocks
  OBVIOUS
<1>2. g = [busy |-> TRUE, pointer |-> p, bytes |-> b, blocks |-> c] /\ c \in Nat
      /\ p \in 0 .. MaxBytes /\ b \in 0 .. MaxBytes
  <2>1. g = [busy |-> g.busy, pointer |-> p, bytes |-> b, blocks |-> c] /\ g.busy \in BOOLEAN
        /\ p \in 0 .. MaxBytes /\ b \in 0 .. MaxBytes /\ c \in Nat
    BY HandleFields
  <2>2. g.busy = TRUE
    BY <2>1
  <2> QED BY <2>1, <2>2
<1> PICK h : h = [busy |-> TRUE, pointer |-> q, bytes |-> b, blocks |-> c]
  OBVIOUS
<1>3. [g EXCEPT !.pointer = q] = h
  BY <1>2, HandleMoved
<1>4. file' = [file EXCEPT ![f] = h]
  BY <1>3
<1>5. q \in 0 .. MaxBytes
  BY <1>2, Sizes
<1>6. h \in Handle
  BY <1>2, <1>5 DEF Handle
<1>7. Current(h, f)
  <2>1. b = disk.rec[f].bytes /\ c = disk.rec[f].blocks
    BY <1>1 DEF Current
  <2>2. ASSUME NEW o \in Offset, o < q PROVE slot(disk, f, o \div BS) \in Block
    <3>1. o \in Nat /\ (o < p \/ o < b)
      <4>1. o \in Nat /\ p \in Nat /\ b \in Nat /\ q \in Nat
        BY <1>2, <1>5, Sizes DEF Offset
      <4>2. q <= p \/ q <= b
        BY <4>1
      <4> QED BY <2>2, <4>1, <4>2
    <3>2. o < disk.rec[f].bytes \/ (file[f].busy /\ o < file[f].pointer)
      BY <2>1, <3>1
    <3> QED BY <1>1, <3>2 DEF Sound
  <2>3. ~FullDisk => q <= b
    <3>1. ~FullDisk => p <= b
      BY <1>1, <2>1 DEF Current
    <3> QED BY <1>2, <3>1, Sizes
  <2>4. h.busy /\ h.pointer = q /\ h.bytes = b /\ h.blocks = c
    OBVIOUS
  <2> QED BY <1>1, <2>1, <2>2, <2>3, <2>4 DEF Current
<1> QED BY <1>4, <1>6, <1>7, HandleKept

\* read2 moves the pointer no further than to the end.
LEMMA read2Keeps ==
    ASSUME IInv, NEW f \in File, NEW size \in 1 .. MaxIO, read2(f, size)
    PROVE  IInv'
<1> PICK p : p = file[f].pointer
  OBVIOUS
<1> PICK b : b = file[f].bytes
  OBVIOUS
<1> PICK n : n = bytes_to_read(f, size)
  OBVIOUS
<1> PICK m : m = bytes_read(f, size)
  OBVIOUS
<1>1. UNCHANGED <<disk, wrote, torn>> /\ file[f].busy /\ file' = [file EXCEPT ![f].pointer = @ + m]
  BY DEF read2
<1>2. p \in Nat /\ b \in Nat /\ size \in Nat
  <2>1. file[f] \in Handle
    BY DEF IInv, StateForm
  <2> QED BY <2>1, HandleFields, Sizes
<1>3. n = IF p + size > b THEN b - p ELSE size
  BY DEF bytes_to_read
<1>4. m = 0 \/ (m \in Nat /\ m <= n)
  <2> PICK S : S = {j \in 0 .. n - 1 : get_file_logic_block_addr(disk, f, (p + j) \div BS) \notin Block}
    OBVIOUS
  <2>1. m = IF n <= 0 THEN 0 ELSE least({n} \cup S)
    BY DEF bytes_read
  <2>2. CASE n <= 0
    BY <2>1, <2>2
  <2>3. CASE ~ (n <= 0)
    <3>1. n \in Int
      BY <1>2, <1>3
    <3>2. {n} \cup S \subseteq Nat /\ {n} \cup S # {} /\ n \in {n} \cup S
      BY <2>3, <3>1
    <3>3. m = least({n} \cup S)
      BY <2>1, <2>3
    <3>4. m \in {n} \cup S /\ m <= n
      BY <3>2, <3>3, LeastIsLeast
    <3> QED BY <3>2, <3>4
  <2> QED BY <2>2, <2>3
<1> PICK q : q = p + m
  OBVIOUS
<1>5. q = p \/ (q \in Nat /\ q <= b)
  BY <1>2, <1>3, <1>4
<1>6. file' = [file EXCEPT ![f].pointer = q]
  BY <1>1
<1> QED BY <1>1, <1>5, <1>6, PointerKept

\* seek2 moves the pointer to the end, for it refuses every other offset.
LEMMA seek2Keeps ==
    ASSUME IInv, NEW f \in File, NEW offset \in Seek, seek2(f, offset)
    PROVE  IInv'
<1> PICK q : q = file[f].bytes
  OBVIOUS
<1>1. UNCHANGED <<disk, wrote, torn>> /\ file[f].busy /\ file' = [file EXCEPT ![f].pointer = q]
  BY DEF seek2, seek2_refuses
<1>2. q \in Nat /\ q <= file[f].bytes
  <2>1. file[f] \in Handle
    BY DEF IInv, StateForm
  <2>2. q \in Nat
    BY <2>1, HandleFields, Sizes
  <2> QED BY <2>2
<1> QED BY <1>1, <1>2, PointerKept

-----------------------------------------------------------------------------
(***************************************************************************)
(* create2 and delete2.                                                    *)
(***************************************************************************)
\* A file without blocks.
LEMMA EmptyFile ==
    ASSUME NEW D, NEW f, D.inode[f] = no_inode
    PROVE  owns(D, f) = {} /\ InodeForm(D, f) /\ Exact(D, f, 0)
<1> PICK i : i = no_inode
  OBVIOUS
<1>1. /\ i.single = NULL_BLOCK /\ i.direct = [k \in 0 .. DIRECT - 1 |-> NULL_BLOCK]
  BY DEF no_inode
<1>2. \A k \in 0 .. DIRECT - 1 : i.direct[k] = NULL_BLOCK
  BY <1>1
<1>3. {i.direct[k] : k \in DOMAIN i.direct} \subseteq {NULL_BLOCK}
  BY <1>1
<1>4. owns(D, f) = {}
  BY <1>1, <1>3 DEF owns, data_blocks
<1>5. InodeForm(D, f)
  BY <1>1, <1>2 DEF InodeForm
<1>6. Exact(D, f, 0)
  <2>1. 0 \in 0 .. DIRECT + PTRS /\ ~ (0 > DIRECT) /\ \A k \in 0 .. DIRECT - 1 : ~ (k < 0)
    BY Sizes
  <2> QED BY <1>1, <1>2, <2>1 DEF Exact
<1> QED BY <1>4, <1>5, <1>6

\* An empty file is sound.
LEMMA EmptySound ==
    ASSUME NEW D, NEW f, D.inode[f] = no_inode, D.rec[f].bytes = 0, D.rec[f].blocks = 0,
           NEW h, h.pointer = 0, h.bytes = 0, h.blocks = 0, NEW history, NEW T, f \notin T
    PROVE  Sound(D, h, history, T, f)
<1>1. ceil(0) = 0
  <2>1. 0 \in 0 .. BS - 1 /\ BS \in Nat
    BY Sizes
  <2>2. ceil(0 * BS + 0) = 0
    BY <2>1, Ceil
  <2>3. 0 * BS + 0 = 0
    BY <2>1
  <2> QED BY <2>2, <2>3
<1>2. Exact(D, f, 0)
  BY EmptyFile
<1>3. /\ \A o \in Offset : ~ (o < 0)
      /\ 0 .. 0 - 1 = {}
  BY Sizes DEF Offset
<1> PICK r : r = D.rec[f]
  OBVIOUS
<1>4. r.bytes = 0 /\ r.blocks = 0
  OBVIOUS
<1> QED BY <1>1, <1>2, <1>3, <1>4 DEF Sound

\* create2 takes no block.
LEMMA create2Keeps ==
    ASSUME Fits, IInv, NEW f \in File, create2(f)
    PROVE  IInv' /\ CountsKept
<1> PICK D : D = disk
  OBVIOUS
<1> PICK E : E = disk'
  OBVIOUS
<1> PICK r : r = [exists |-> TRUE, bytes |-> 0, blocks |-> 0]
  OBVIOUS
<1> PICK h : h = [closed EXCEPT !.busy = TRUE]
  OBVIOUS
<1> PICK now : now = [o \in Offset |-> unwritten]
  OBVIOUS
<1>1. /\ ~D.rec[f].exists /\ E = [D EXCEPT !.inode[f] = no_inode, !.rec[f] = r]
      /\ file' = [file EXCEPT ![f] = h] /\ wrote' = [wrote EXCEPT ![f] = now] /\ torn' = torn \ {f}
  BY DEF create2
<1>2. /\ DiskForm(D) /\ file \in [File -> Handle] /\ torn \subseteq File
      /\ wrote \in [File -> [Offset -> Value \cup {unwritten}]]
      /\ Separate(D, Files) /\ \A g \in File : file[g].busy => g \in Files
      /\ \A g \in Files : Sound(D, file[g], wrote[g], torn, g)
      /\ ~FullDisk => Packed(D, Files)
      /\ Files = {g \in File : D.rec[g].exists}
  BY DEF IInv, StateForm, Files
<1>3. r \in FileRec /\ no_inode \in FileInode /\ h \in Handle
      /\ h.pointer = 0 /\ h.bytes = 0 /\ h.blocks = 0
  <2>1. r \in FileRec
    BY Sizes DEF FileRec
  <2>2. no_inode \in FileInode
    BY DEF no_inode, FileInode, Address
  <2>3. h = [busy |-> TRUE, pointer |-> 0, bytes |-> 0, blocks |-> 0]
    BY DEF closed
  <2>4. h \in Handle
    <3>1. closed \in Handle
      BY Sizes DEF closed, Handle
    <3> PICK g \in Handle : g = closed
      BY <3>1
    <3>2. [g EXCEPT !.busy = TRUE] \in Handle
      BY DEF Handle
    <3> QED BY <3>2
  <2> QED BY <2>1, <2>2, <2>3, <2>4
<1>4. /\ DiskForm(E) /\ E.bmap = D.bmap /\ E.blk = D.blk
      /\ E.inode[f] = no_inode /\ E.rec[f] = r
      /\ \A g \in File \ {f} : E.inode[g] = D.inode[g] /\ E.rec[g] = D.rec[g]
  <2> PICK C : C = [D EXCEPT !.inode[f] = no_inode]
    OBVIOUS
  <2>1. DOMAIN D = {"bmap", "blk", "inode", "rec"} /\ D.inode \in [File -> FileInode]
        /\ D.rec \in [File -> FileRec] /\ D.bmap \in Bitmap /\ DOMAIN D.blk = Block
    BY <1>2, DiskFields
  <2>2. C.bmap = D.bmap /\ C.blk = D.blk /\ C.rec = D.rec
        /\ C.inode = [D.inode EXCEPT ![f] = no_inode]
        /\ C = [bmap |-> C.bmap, blk |-> C.blk, inode |-> C.inode, rec |-> C.rec]
    BY <2>1
  <2>3. C.inode[f] = no_inode /\ C.inode \in [File -> FileInode]
        /\ \A g \in File \ {f} : C.inode[g] = D.inode[g]
    BY <1>3, <2>1, <2>2
  <2>4. DiskForm(C)
    BY <2>1, <2>2, <2>3 DEF DiskForm
  <2>5. E = [C EXCEPT !.rec[f] = r]
    BY <1>1
  <2>6. SetRecord(C, E, f, r)
    BY <1>3, <2>4, <2>5, RecordSet
  <2> QED BY <2>2, <2>3, <2>6 DEF SetRecord
<1>5. Files' = Files \cup {f} /\ f \notin Files
  <2>1. Files' = {g \in File : E.rec[g].exists}
    BY DEF Files
  <2>2. E.rec[f].exists
    BY <1>4
  <2> QED BY <1>1, <1>2, <1>4, <2>1, <2>2
<1>6. /\ file' \in [File -> Handle] /\ file'[f] = h /\ \A g \in File \ {f} : file'[g] = file[g]
      /\ \A g \in File \ {f} : wrote'[g] = wrote[g]
      /\ wrote' \in [File -> [Offset -> Value \cup {unwritten}]]
  <2>1. now \in [Offset -> Value \cup {unwritten}]
    OBVIOUS
  <2> QED BY <1>1, <1>2, <1>3, <2>1
<1>7. ASSUME NEW g \in Files
      PROVE  /\ Sound(E, file'[g], wrote'[g], torn', g) /\ owns(E, g) = owns(D, g)
             /\ InodeForm(E, g)
  <2>1. g \in File \ {f} /\ InodeForm(D, g) /\ Sound(D, file[g], wrote[g], torn, g)
    BY <1>2, <1>5 DEF Separate
  <2>2. E.inode[g] = D.inode[g] /\ E.rec[g] = D.rec[g] /\ \A x \in owns(D, g) : E.blk[x] = D.blk[x]
    BY <1>4, <2>1
  <2>3. g \in torn' <=> g \in torn
    BY <1>1, <2>1
  <2>4. Sound(E, file[g], wrote[g], torn', g) /\ owns(E, g) = owns(D, g) /\ InodeForm(E, g)
    BY <1>2, <2>1, <2>2, <2>3, SoundKept
  <2>5. file'[g] = file[g] /\ wrote'[g] = wrote[g]
    BY <1>6, <2>1
  <2> QED BY <2>4, <2>5
<1>8. owns(E, f) = {} /\ InodeForm(E, f)
  BY <1>4, EmptyFile
<1>9. Sound(E, file'[f], wrote'[f], torn', f)
  <2>1. f \notin torn' /\ E.rec[f].bytes = 0 /\ E.rec[f].blocks = 0
    BY <1>1, <1>4
  <2> QED BY <1>3, <1>4, <1>6, <2>1, EmptySound
<1>10. Separate(E, Files \cup {f})
  <2>1. \A g \in Files : owns(E, g) \subseteq bits(E.bmap)
    BY <1>2, <1>4, <1>7 DEF Separate
  <2>2. \A g, k \in Files : g # k => owns(E, g) \cap owns(E, k) = {}
    BY <1>2, <1>7 DEF Separate
  <2> QED BY <1>7, <1>8, <2>1, <2>2 DEF Separate
<1>11. ~FullDisk => Packed(E, Files \cup {f})
  <2> SUFFICES ASSUME ~FullDisk PROVE Packed(E, Files \cup {f})
    OBVIOUS
  <2>1. bits(E.bmap) = UNION {owns(D, g) : g \in Files}
    BY <1>2, <1>4 DEF Packed
  <2>2. UNION {owns(E, g) : g \in Files \cup {f}} = UNION {owns(D, g) : g \in Files}
    BY <1>7, <1>8
  <2>3. \A b \in Block : E.blk[b] \in Data \/ E.blk[b] \in Pointers
    BY <1>2, <1>4 DEF Packed
  <2> QED BY <2>1, <2>2, <2>3 DEF Packed
<1>12. StateForm'
  BY <1>1, <1>2, <1>4, <1>6 DEF StateForm
<1>13. \A g \in File : file'[g].busy => g \in Files \cup {f}
  BY <1>2, <1>6
<1>14. \A g \in Files \cup {f} : Sound(E, file'[g], wrote'[g], torn', g)
  BY <1>7, <1>9
<1>15. IInv'
  BY <1>5, <1>10, <1>11, <1>12, <1>13, <1>14 DEF IInv
<1>16. CountsKept
  BY <1>3, <1>4, <1>5, <1>6 DEF CountsKept
<1> QED BY <1>15, <1>16

\* A record that delete2 takes out of use keeps its numbers.
LEMMA RecordDeleted ==
    ASSUME NEW r \in FileRec
    PROVE  [r EXCEPT !.exists = FALSE] = [exists |-> FALSE, bytes |-> r.bytes, blocks |-> r.blocks]
<1> PICK s : s = [r EXCEPT !.exists = FALSE]
  OBVIOUS
<1>1. DOMAIN r = {"exists", "bytes", "blocks"}
  BY DEF FileRec
<1>2. s = [x \in {"exists", "bytes", "blocks"} |-> s[x]]
  BY <1>1
<1>3. s.exists = FALSE /\ s.bytes = r.bytes /\ s.blocks = r.blocks
  BY <1>1
<1>4. s = [exists |-> FALSE, bytes |-> r.bytes, blocks |-> r.blocks]
  BY <1>2, <1>3
<1> QED BY <1>4

\* delete2 frees the blocks of its file and no others.
LEMMA delete2Keeps ==
    ASSUME Fits, IInv, NEW f \in File, delete2(f)
    PROVE  IInv' /\ CountsKept
<1> PICK D : D = disk
  OBVIOUS
<1> PICK C : C = deep_free_inode(D, f)
  OBVIOUS
<1> PICK E : E = disk'
  OBVIOUS
<1>1. /\ D.rec[f].exists /\ E = [C EXCEPT !.rec[f].exists = FALSE]
      /\ file' = [file EXCEPT ![f].busy = FALSE] /\ UNCHANGED <<wrote, torn>>
  BY DEF delete2
<1>2. /\ DiskForm(D) /\ file \in [File -> Handle] /\ torn \subseteq File
      /\ wrote \in [File -> [Offset -> Value \cup {unwritten}]]
      /\ Separate(D, Files) /\ \A g \in File : file[g].busy => g \in Files
      /\ \A g \in Files : Sound(D, file[g], wrote[g], torn, g)
      /\ ~FullDisk => Packed(D, Files)
      /\ Files = {g \in File : D.rec[g].exists}
  BY DEF IInv, StateForm, Files
<1>3. f \in Files /\ owns(D, f) \subseteq bits(D.bmap) /\ bits(D.bmap) \subseteq Block
  <2>1. f \in Files
    BY <1>1, <1>2
  <2> QED BY <1>2, <2>1, DiskFields DEF Separate
<1>4. /\ DiskForm(C) /\ C.blk = D.blk /\ C.inode = D.inode /\ C.rec = D.rec
      /\ bits(C.bmap) = bits(D.bmap) \ owns(D, f)
  <2>1. C = free_blocks(D, owns(D, f))
    BY DEF deep_free_inode, owns
  <2>2. owns(D, f) \in SUBSET Block
    BY <1>3
  <2>3. DiskForm(D)
    BY <1>2
  <2> QED BY <2>1, <2>2, <2>3, BlocksFreed
<1> PICK r : r = [exists |-> FALSE, bytes |-> C.rec[f].bytes, blocks |-> C.rec[f].blocks]
  OBVIOUS
<1>5. r \in FileRec /\ [C.rec[f] EXCEPT !.exists = FALSE] = r
  <2> PICK s : s = C.rec[f]
    OBVIOUS
  <2>1. s \in FileRec
    BY <1>4, DiskFields
  <2>2. [s EXCEPT !.exists = FALSE] = [exists |-> FALSE, bytes |-> s.bytes, blocks |-> s.blocks]
    BY <2>1, RecordDeleted
  <2>3. r \in FileRec
    BY <2>1 DEF FileRec
  <2> QED BY <2>2, <2>3
<1>6. SetRecord(C, E, f, r)
  <2>1. E = [C EXCEPT !.rec[f] = r]
    BY <1>1, <1>5
  <2> QED BY <1>4, <1>5, <2>1, RecordSet
<1>7. /\ DiskForm(E) /\ E.blk = D.blk /\ E.inode = D.inode
      /\ bits(E.bmap) = bits(D.bmap) \ owns(D, f)
      /\ ~E.rec[f].exists /\ \A g \in File \ {f} : E.rec[g] = D.rec[g]
  BY <1>4, <1>6 DEF SetRecord
<1>8. Files' = Files \ {f}
  <2>1. Files' = {g \in File : E.rec[g].exists}
    BY DEF Files
  <2> QED BY <1>2, <1>7, <2>1
<1> PICK h \in Handle : ~h.busy /\ h.blocks = file[f].blocks /\ file' = [file EXCEPT ![f] = h]
  BY <1>1, <1>2, HandleClosed
<1>9. file' \in [File -> Handle] /\ ~file'[f].busy /\ file'[f].blocks = file[f].blocks
      /\ \A g \in File \ {f} : file'[g] = file[g]
  BY <1>2
<1>10. ASSUME NEW g \in Files \ {f}
       PROVE  /\ Sound(E, file'[g], wrote'[g], torn', g) /\ owns(E, g) = owns(D, g)
              /\ InodeForm(E, g) /\ owns(D, g) \cap owns(D, f) = {}
  <2>1. g \in File \ {f} /\ InodeForm(D, g) /\ Sound(D, file[g], wrote[g], torn, g)
        /\ owns(D, g) \cap owns(D, f) = {}
    BY <1>2, <1>3 DEF Separate
  <2>2. E.inode[g] = D.inode[g] /\ E.rec[g] = D.rec[g] /\ \A x \in owns(D, g) : E.blk[x] = D.blk[x]
    BY <1>7, <2>1
  <2>3. Sound(E, file[g], wrote[g], torn, g) /\ owns(E, g) = owns(D, g) /\ InodeForm(E, g)
    BY <1>2, <2>1, <2>2, SoundKept, SMTT(30)
  <2>4. file'[g] = file[g] /\ wrote'[g] = wrote[g] /\ torn' = torn
    BY <1>1, <1>9, <2>1
  <2> QED BY <2>1, <2>3, <2>4
<1>11. Separate(E, Files \ {f})
  <2>1. \A g \in Files \ {f} : owns(E, g) \subseteq bits(E.bmap)
    BY <1>2, <1>7, <1>10 DEF Separate
  <2>2. \A g, k \in Files \ {f} : g # k => owns(E, g) \cap owns(E, k) = {}
    BY <1>2, <1>10 DEF Separate
  <2> QED BY <1>10, <2>1, <2>2 DEF Separate
<1>12. ~FullDisk => Packed(E, Files \ {f})
  <2> SUFFICES ASSUME ~FullDisk PROVE Packed(E, Files \ {f})
    OBVIOUS
  <2> PICK U : U = UNION {owns(D, g) : g \in Files}
    OBVIOUS
  <2> PICK V : V = UNION {owns(E, g) : g \in Files \ {f}}
    OBVIOUS
  <2>0. bits(D.bmap) = U
    BY <1>2 DEF Packed
  <2>1. bits(E.bmap) = U \ owns(D, f)
    BY <1>7, <2>0
  <2>2. V = U \ owns(D, f)
    <3>1. \A g \in Files \ {f} : owns(E, g) = owns(D, g) /\ owns(D, g) \cap owns(D, f) = {}
      BY <1>10
    <3>2. \A x : x \in U <=> \E g \in Files : x \in owns(D, g)
      OBVIOUS
    <3>3. \A x : x \in V <=> \E g \in Files \ {f} : x \in owns(E, g)
      OBVIOUS
    <3>4. ASSUME NEW x PROVE x \in V <=> x \in U /\ x \notin owns(D, f)
      BY <3>1, <3>2, <3>3
    <3> QED BY <3>4
  <2>3. \A b \in Block : E.blk[b] \in Data \/ E.blk[b] \in Pointers
    BY <1>2, <1>7 DEF Packed
  <2> QED BY <2>1, <2>2, <2>3 DEF Packed
<1>13. StateForm'
  BY <1>1, <1>2, <1>7, <1>9 DEF StateForm
<1>14. \A g \in File : file'[g].busy => g \in Files \ {f}
  BY <1>2, <1>9
<1>15. \A g \in Files \ {f} : Sound(E, file'[g], wrote'[g], torn', g)
  BY <1>10
<1>16. IInv'
  BY <1>8, <1>11, <1>12, <1>13, <1>14, <1>15 DEF IInv
<1>17. CountsKept
  <2>1. disk'.rec[f].blocks = disk.rec[f].blocks
    BY <1>4, <1>6 DEF SetRecord
  <2> QED BY <1>7, <1>9, <2>1 DEF CountsKept
<1> QED BY <1>16, <1>17

(***************************************************************************)
(* The invariant of the specification.                                     *)
(***************************************************************************)
\* The initial states: no file exists and no block is marked.
LEMMA InitIInv == Init => IInv
<1> SUFFICES ASSUME Init PROVE IInv
  OBVIOUS
<1> PICK data : data = [b \in Block |-> [k \in 0 .. BS - 1 |-> unwritten]]
  OBVIOUS
<1>1. /\ disk = [bmap |-> all_clear, blk |-> data, inode |-> [f \in File |-> no_inode],
                 rec  |-> [f \in File |-> [exists |-> FALSE, bytes |-> 0, blocks |-> 0]]]
      /\ file = [f \in File |-> closed]
      /\ wrote = [f \in File |-> [o \in Offset |-> unwritten]]
      /\ torn = {}
  BY DEF Init
<1>2. Files = {} /\ \A f \in File : ~file[f].busy
  BY <1>1 DEF Files, closed
<1>3. all_clear \in Bitmap /\ bits(all_clear) = {}
  <2>1. all_clear \in Bitmap
    BY DEF all_clear, Bitmap
  <2>2. \A b \in Bits : all_clear[b \div BITS] = {}
    <3> SUFFICES ASSUME NEW b \in Bits PROVE all_clear[b \div BITS] = {}
      OBVIOUS
    <3>1. b \div BITS \in Byte
      BY Split
    <3> QED BY <3>1 DEF all_clear
  <2> QED BY <2>1, <2>2 DEF bits
<1>4. no_inode \in FileInode
  BY DEF no_inode, FileInode, Address
<1>5. [exists |-> FALSE, bytes |-> 0, blocks |-> 0] \in FileRec /\ closed \in Handle
  BY Sizes DEF FileRec, closed, Handle
<1>6. StateForm
  <2>1. DiskForm(disk)
    BY <1>1, <1>3, <1>4, <1>5 DEF DiskForm
  <2>2. file \in [File -> Handle] /\ torn \subseteq File
        /\ wrote \in [File -> [Offset -> Value \cup {unwritten}]]
    BY <1>1, <1>5
  <2> QED BY <2>1, <2>2 DEF StateForm
<1>7. Packed(disk, {}) /\ Separate(disk, {})
  <2>1. \A b \in Block : disk.blk[b] \in Data
    BY <1>1 DEF Data
  <2>2. bits(disk.bmap) = {}
    BY <1>1, <1>3
  <2> QED BY <2>1, <2>2 DEF Packed, Separate
<1> QED BY <1>2, <1>6, <1>7 DEF IInv

\* Every step keeps the invariant.
LEMMA NextIInv ==
    ASSUME Fits, IInv, [Next]_vars
    PROVE  IInv' /\ CountsKept
<1>1. ASSUME NEW f \in File, create2(f) PROVE IInv' /\ CountsKept
  BY <1>1, create2Keeps
<1>2. ASSUME NEW f \in File, delete2(f) PROVE IInv' /\ CountsKept
  BY <1>2, delete2Keeps
<1>3. ASSUME NEW f \in File, NEW buffer \in Buffer, write2(f, buffer) PROVE IInv' /\ CountsKept
  BY <1>3, write2Keeps
<1> PICK C : C <=> \A f \in File : file'[f].busy \/ file'[f].blocks = file[f].blocks \/ file'[f].blocks = 0
  OBVIOUS
<1>4. disk' = disk /\ C => CountsKept
  BY DEF CountsKept
<1>5. file \in [File -> Handle]
  BY DEF IInv, StateForm
<1>6. ASSUME NEW f \in File, open2(f) PROVE IInv' /\ CountsKept
  <2>1. C
    BY <1>5, <1>6 DEF open2, opened
  <2> QED BY <1>4, <1>6, <2>1, open2Keeps DEF open2
<1>7. ASSUME NEW f \in File, close2(f) PROVE IInv' /\ CountsKept
  <2>1. C
    BY <1>5, <1>7 DEF close2, Handle
  <2> QED BY <1>4, <1>7, <2>1, close2Keeps DEF close2
<1>8. ASSUME NEW f \in File, NEW size \in 1 .. MaxIO, read2(f, size) PROVE IInv' /\ CountsKept
  <2>1. C
    BY <1>5, <1>8 DEF read2, Handle
  <2> QED BY <1>4, <1>8, <2>1, read2Keeps DEF read2
<1>9. ASSUME NEW f \in File, NEW offset \in Seek, seek2(f, offset) PROVE IInv' /\ CountsKept
  <2>1. C
    BY <1>5, <1>9 DEF seek2, Handle
  <2> QED BY <1>4, <1>9, <2>1, seek2Keeps DEF seek2
<1>10. ASSUME restart PROVE IInv' /\ CountsKept
  <2>1. C
    BY <1>10 DEF restart, closed
  <2> QED BY <1>4, <1>10, <2>1, restartKeeps DEF restart
<1>11. ASSUME UNCHANGED vars PROVE IInv' /\ CountsKept
  <2>1. UNCHANGED <<disk, file, wrote, torn>>
    BY <1>11 DEF vars
  <2>2. \A f \in File : Current(file'[f], f)
    BY <2>1, HandlesCurrent
  <2>3. IInv'
    BY <1>5, <2>1, <2>2, HandlesKept
  <2> QED BY <1>4, <2>1, <2>3
<1> QED BY <1>1, <1>2, <1>3, <1>6, <1>7, <1>8, <1>9, <1>10, <1>11 DEF Next

\* Every reachable state satisfies the invariant.
THEOREM Invariant == ASSUME Fits PROVE Spec => []IInv
<1>1. IInv /\ [Next]_vars => IInv'
  BY NextIInv
<1> QED BY <1>1, InitIInv, PTL DEF Spec

(***************************************************************************)
(* With room on the disk, no count of blocks exceeds what MaxBytes take,   *)
(* not in the records of deleted files or in closed handles either.        *)
(***************************************************************************)
\* n is a number of blocks that a file may have.
Counts(n) == n \in 0 .. ceil(MaxBytes)
\* Every record and every handle has such a number.
Bounded == \A f \in File : Counts(disk.rec[f].blocks) /\ Counts(file[f].blocks)

\* A file that exists, and its handle if it has one, count the blocks its
\* bytes take.
LEMMA CountsBounded ==
    ASSUME ~FullDisk, NEW D, DiskForm(D), NEW f \in File,
           NEW h, NEW history, NEW T, Sound(D, h, history, T, f)
    PROVE  /\ Counts(D.rec[f].blocks)
           /\ h.busy => Counts(h.blocks)
<1> PICK r : r = D.rec[f]
  OBVIOUS
<1>1. /\ r.blocks = ceil(r.bytes)
      /\ h.busy => h.blocks = r.blocks
  BY DEF Sound
<1>2. r.bytes \in Nat /\ r.bytes <= MaxBytes /\ MaxBytes \in Nat
  BY RecordFields, Sizes
<1>3. ceil(r.bytes) \in 0 .. ceil(MaxBytes)
  <2>1. ceil(r.bytes) \in Nat /\ ceil(MaxBytes) \in Nat /\ ceil(r.bytes) <= ceil(MaxBytes)
    BY <1>2, CeilMonotone
  <2> QED BY <2>1
<1> QED BY <1>1, <1>3 DEF Counts

\* Nothing is counted yet.
LEMMA NoneCounted == Counts(0)
<1>1. ceil(MaxBytes) \in Nat
  BY Sizes, CeilBound
<1> QED BY <1>1 DEF Counts

\* Every reachable state satisfies Bounded.
LEMMA Bound ==
    ASSUME Fits, ~FullDisk
    PROVE  Spec => []Bounded
<1>1. Init => Bounded
  BY NoneCounted DEF Init, closed, Bounded
<1>2. IInv /\ Bounded /\ [Next]_vars => Bounded'
  <2> SUFFICES ASSUME IInv, Bounded, [Next]_vars, NEW f \in File
               PROVE  Counts(disk'.rec[f].blocks) /\ Counts(file'[f].blocks)
    BY DEF Bounded, Counts
  <2>1. IInv' /\ CountsKept
    BY NextIInv
  <2>2. f \in Files' => Counts(disk'.rec[f].blocks) /\ (file'[f].busy => Counts(file'[f].blocks))
    <3> SUFFICES ASSUME f \in Files'
                 PROVE  Counts(disk'.rec[f].blocks) /\ (file'[f].busy => Counts(file'[f].blocks))
      OBVIOUS
    <3>1. DiskForm(disk') /\ Sound(disk', file'[f], wrote'[f], torn', f)
      BY <2>1 DEF IInv, StateForm
    <3> QED BY <3>1, CountsBounded
  <2>3. file'[f].busy => f \in Files'
    BY <2>1 DEF IInv
  <2>4. Counts(disk.rec[f].blocks) /\ Counts(file[f].blocks)
    BY DEF Bounded
  <2> QED BY <2>1, <2>2, <2>3, <2>4, NoneCounted DEF CountsKept
<1> QED BY <1>1, <1>2, Invariant, PTL DEF Spec

(***************************************************************************)
(* The properties.                                                         *)
(***************************************************************************)
\* What the invariant says of one file.
LEMMA FileSound ==
    ASSUME IInv, NEW f \in Files
    PROVE  /\ f \in File /\ DiskForm(disk) /\ InodeForm(disk, f)
           /\ Sound(disk, file[f], wrote[f], torn, f)
BY DEF IInv, StateForm, Separate, Files

\* The numbers in a handle are those of the record, and the record of a file
\* that is not torn counts the blocks its bytes take.
THEOREM HandleRecordCurrentHolds ==
    ASSUME Fits
    PROVE  Spec => []HandleRecordCurrent
<1>1. IInv => HandleRecordCurrent
  BY FileSound DEF Sound, HandleRecordCurrent
<1> QED BY <1>1, Invariant, PTL

\* Every byte of a file that is not torn is the one last written there.
THEOREM StoredIsWrittenHolds ==
    ASSUME Fits
    PROVE  Spec => []StoredIsWritten
<1>1. ASSUME IInv, NEW f \in Files \ torn, NEW o \in 0 .. disk.rec[f].bytes - 1
      PROVE  byte_at(f, o) = wrote[f][o] /\ wrote[f][o] # unwritten
  <2>1. f \in File /\ DiskForm(disk) /\ InodeForm(disk, f) /\ Sound(disk, file[f], wrote[f], torn, f)
    BY <1>1, FileSound
  <2>2. byte(disk, f, o) = wrote[f][o] /\ wrote[f][o] # unwritten
    BY <1>1, <2>1 DEF Sound
  <2>3. get_file_logic_block_addr(disk, f, o \div BS) = slot(disk, f, o \div BS)
    BY <1>1, <2>1, SoundSlots
  <2> QED BY <2>2, <2>3 DEF byte_at, byte
<1>2. IInv => StoredIsWritten
  BY <1>1 DEF StoredIsWritten
<1> QED BY <1>2, Invariant, PTL

\* Behind every byte that a record counts, torn or not, is a block of the file.
THEOREM RecordedBytesHaveBlocksHolds ==
    ASSUME Fits
    PROVE  Spec => []RecordedBytesHaveBlocks
<1>1. ASSUME IInv, NEW f \in Files, NEW o \in 0 .. disk.rec[f].bytes - 1
      PROVE  get_file_logic_block_addr(disk, f, o \div BS) \in owned(f)
  <2>1. f \in File /\ DiskForm(disk) /\ InodeForm(disk, f) /\ Sound(disk, file[f], wrote[f], torn, f)
    BY <1>1, FileSound
  <2>2. get_file_logic_block_addr(disk, f, o \div BS) \in owns(disk, f)
    BY <1>1, <2>1, SoundSlots
  <2> QED BY <2>2 DEF owned, owns
<1>2. IInv => RecordedBytesHaveBlocks
  BY <1>1 DEF RecordedBytesHaveBlocks
<1> QED BY <1>2, Invariant, PTL

\* No block has two files, and none that has one is free.
THEOREM BlocksNeverSharedHolds ==
    ASSUME Fits
    PROVE  Spec => []BlocksNeverShared
<1>1. \A f : owned(f) = owns(disk, f)
  BY DEF owned, owns
<1>2. IInv => BlocksNeverShared
  BY <1>1 DEF IInv, Separate, BlocksNeverShared
<1> QED BY <1>2, Invariant, PTL

\* While the disk has room, no pointer is past the end of its file.
THEOREM PointerWithinFileHolds ==
    ASSUME Fits, ~FullDisk
    PROVE  Spec => []PointerWithinFile
<1>1. ASSUME IInv, NEW f \in File, file[f].busy PROVE file[f].pointer \in 0 .. file[f].bytes
  <2>1. f \in Files
    BY <1>1 DEF IInv
  <2>2. Sound(disk, file[f], wrote[f], torn, f)
    BY <1>1, <2>1 DEF IInv
  <2>3. file[f].pointer <= file[f].bytes
    BY <1>1, <2>2 DEF Sound
  <2>4. file[f] \in Handle
    BY <1>1 DEF IInv, StateForm
  <2>5. file[f].pointer \in Nat /\ file[f].bytes \in Nat
    BY <2>4, HandleFields, Sizes
  <2> QED BY <2>3, <2>5
<1>2. IInv => PointerWithinFile
  BY <1>1 DEF PointerWithinFile
<1> QED BY <1>2, Invariant, PTL

-----------------------------------------------------------------------------
(***************************************************************************)
(* How many blocks a file has.                                             *)
(***************************************************************************)
\* As many members as there are numbers they are listed by.
LEMMA Listed ==
    ASSUME NEW n \in Nat, NEW S, NEW list \in [0 .. n - 1 -> S],
           \A x \in S : \E k \in 0 .. n - 1 : list[k] = x,
           \A j, k \in 0 .. n - 1 : list[j] = list[k] => j = k
    PROVE  IsFiniteSet(S) /\ Cardinality(S) = n
<1>1. IsFiniteSet(0 .. n - 1) /\ Cardinality(0 .. n - 1) = n
  <2>1. 0 \in Int /\ n - 1 \in Int
    OBVIOUS
  <2>2. IsFiniteSet(0 .. n - 1) /\ Cardinality(0 .. n - 1) = IF 0 > n - 1 THEN 0 ELSE (n - 1) - 0 + 1
    BY <2>1, FS_Interval
  <2> QED BY <2>2
<1>2. list \in Bijection(0 .. n - 1, S)
  BY DEF Bijection, Injection, Surjection, IsInjective
<1>3. ExistsBijection(0 .. n - 1, S)
  BY <1>2 DEF ExistsBijection
<1> QED BY <1>1, <1>3, FS_Bijection

\* A file that has n blocks has those, and its indirect block.
LEMMA OwnsListed ==
    ASSUME NEW D, DiskForm(D), NEW f \in File, InodeForm(D, f),
           NEW n, Exact(D, f, n), NEW x
    PROVE  x \in owns(D, f) <=> \/ \E k \in 0 .. n - 1 : slot(D, f, k) = x
                                \/ x = D.inode[f].single /\ x # NULL_BLOCK
<1> PICK i : i = D.inode[f]
  OBVIOUS
<1> PICK p : p = D.blk[i.single]
  OBVIOUS
<1>1. /\ n \in 0 .. DIRECT + PTRS
      /\ \A k \in 0 .. DIRECT - 1 : i.direct[k] # NULL_BLOCK <=> k < n
      /\ i.single # NULL_BLOCK <=> n > DIRECT
      /\ n > DIRECT => \A k \in 0 .. PTRS - 1 : p[k] # NULL_BLOCK <=> DIRECT + k < n
  BY DEF Exact
<1>2. n \in Nat /\ n <= DIRECT + PTRS
  BY <1>1, Sizes
<1>3. x \in owns(D, f) <=>
          /\ x # NULL_BLOCK
          /\ \/ \E k \in 0 .. DIRECT - 1 : i.direct[k] = x
             \/ i.single # NULL_BLOCK /\ \E k \in 0 .. PTRS - 1 : p[k] = x
             \/ i.single = x
  BY Owned
<1>4. ASSUME NEW k \in 0 .. n - 1 PROVE slot(D, f, k) # NULL_BLOCK
  BY ExactSlots, Sizes
<1>5. ASSUME NEW k \in 0 .. DIRECT - 1, i.direct[k] = x, x # NULL_BLOCK
      PROVE  k \in 0 .. n - 1 /\ slot(D, f, k) = x
  <2>1. k < n /\ k < DIRECT /\ k \in Nat
    BY <1>1, <1>5, Sizes
  <2> QED BY <1>2, <1>5, <2>1 DEF slot
<1>6. ASSUME i.single # NULL_BLOCK, NEW k \in 0 .. PTRS - 1, p[k] = x, x # NULL_BLOCK
      PROVE  DIRECT + k \in 0 .. n - 1 /\ slot(D, f, DIRECT + k) = x
  <2>1. DIRECT + k < n /\ k \in Nat /\ DIRECT + k \in Nat
    BY <1>1, <1>6, Sizes
  <2>2. ~ (DIRECT + k < DIRECT) /\ (DIRECT + k) - DIRECT = k
    BY <2>1, Sizes
  <2> QED BY <1>2, <1>6, <2>1, <2>2 DEF slot
<1>7. ASSUME NEW k \in 0 .. n - 1, slot(D, f, k) = x
      PROVE  \/ \E l \in 0 .. DIRECT - 1 : i.direct[l] = x
             \/ i.single # NULL_BLOCK /\ \E l \in 0 .. PTRS - 1 : p[l] = x
  <2>1. CASE k < DIRECT
    <3>1. k \in 0 .. DIRECT - 1
      BY <1>2, <2>1, Sizes
    <3> QED BY <1>7, <2>1, <3>1 DEF slot
  <2>2. CASE ~ (k < DIRECT)
    <3>1. k - DIRECT \in 0 .. PTRS - 1 /\ n > DIRECT
      BY <1>2, <2>2, Sizes
    <3> QED BY <1>1, <1>7, <2>2, <3>1 DEF slot
  <2> QED BY <2>1, <2>2
<1> QED BY <1>3, <1>4, <1>5, <1>6, <1>7

\* How many blocks a file has.
LEMMA OwnsCounted ==
    ASSUME NEW D, DiskForm(D), NEW f \in File, InodeForm(D, f),
           NEW n \in Nat, Exact(D, f, n), n <= Slots
    PROVE  Cardinality(owns(D, f)) = n + (IF D.inode[f].single = NULL_BLOCK THEN 0 ELSE 1)
<1> PICK x : x = D.inode[f].single
  OBVIOUS
<1> PICK list : list = [k \in 0 .. n - 1 |-> slot(D, f, k)]
  OBVIOUS
<1> PICK S : S = {list[k] : k \in 0 .. n - 1}
  OBVIOUS
<1>1. \A k \in 0 .. n - 1 : list[k] = slot(D, f, k) /\ slot(D, f, k) \in Block /\ k \in 0 .. Slots - 1
  <2> SUFFICES ASSUME NEW k \in 0 .. n - 1
               PROVE  list[k] = slot(D, f, k) /\ slot(D, f, k) \in Block /\ k \in 0 .. Slots - 1
    OBVIOUS
  <2>1. Slots \in Nat
    BY Sizes DEF Slots
  <2> QED BY <2>1, ExactSlots
<1>2. Tidy(D, f)
  BY DEF Tidy
<1>3. IsFiniteSet(S) /\ Cardinality(S) = n
  <2>1. \A j, k \in 0 .. n - 1 : list[j] = list[k] => j = k
    BY <1>1, <1>2, SlotsDistinct
  <2>2. list \in [0 .. n - 1 -> S] /\ \A y \in S : \E k \in 0 .. n - 1 : list[k] = y
    OBVIOUS
  <2> QED BY <2>1, <2>2, Listed
<1>4. x \notin S
  BY <1>1, <1>2, SlotsDistinct
<1>5. \A y : y \in S <=> \E k \in 0 .. n - 1 : slot(D, f, k) = y
  BY <1>1
<1>6. \A y : y \in owns(D, f) <=> y \in S \/ (y = x /\ y # NULL_BLOCK)
  BY <1>5, OwnsListed
<1>7. CASE x = NULL_BLOCK
  <2>1. owns(D, f) = S
    BY <1>6, <1>7
  <2> QED BY <1>3, <1>7, <2>1
<1>8. CASE x # NULL_BLOCK
  <2>1. owns(D, f) = S \cup {x}
    BY <1>6, <1>8
  <2> QED BY <1>3, <1>4, <1>8, <2>1, FS_AddElement
<1> QED BY <1>7, <1>8

\* While the disk has room, the marked blocks are those of the files, each of
\* one file, and as many as its record counts.
THEOREM BlocksOwnedOnceHolds ==
    ASSUME Fits, ~FullDisk
    PROVE  Spec => []BlocksOwnedOnce
<1>1. \A f : owned(f) = owns(disk, f)
  BY DEF owned, owns
<1>2. ASSUME IInv PROVE bits(disk.bmap) = UNION {owned(f) : f \in Files}
  <2>1. bits(disk.bmap) = UNION {owns(disk, f) : f \in Files}
    BY <1>2 DEF IInv, Packed
  <2> QED BY <1>1, <2>1
<1>3. ASSUME IInv PROVE \A f, g \in Files : f # g => owned(f) \cap owned(g) = {}
  BY <1>1, <1>3 DEF IInv, Separate
<1>4. ASSUME IInv, NEW f \in Files
      PROVE  Cardinality(owned(f)) = disk.rec[f].blocks
                 + (IF disk.inode[f].single = NULL_BLOCK THEN 0 ELSE 1)
  <2>1. f \in File /\ DiskForm(disk) /\ InodeForm(disk, f) /\ Sound(disk, file[f], wrote[f], torn, f)
    BY <1>4, FileSound
  <2> PICK n : n = disk.rec[f].blocks
    OBVIOUS
  <2>2. n = ceil(disk.rec[f].bytes) /\ Exact(disk, f, n)
    BY <2>1 DEF Sound
  <2>3. n \in 0 .. DIRECT + PTRS /\ disk.rec[f].bytes \in 0 .. MaxBytes
    <3>1. disk.rec[f].bytes \in Nat /\ disk.rec[f].bytes <= MaxBytes
      BY <2>1, RecordFields
    <3> QED BY <2>2, <3>1, Sizes DEF Exact
  <2>4. n \in Nat /\ n <= Slots
    BY <2>2, <2>3, BlocksAddressed
  <2>5. Cardinality(owns(disk, f)) = n + (IF disk.inode[f].single = NULL_BLOCK THEN 0 ELSE 1)
    BY <2>1, <2>2, <2>4, OwnsCounted
  <2> QED BY <1>1, <2>5
<1>5. IInv => BlocksOwnedOnce
  BY <1>2, <1>3, <1>4 DEF BlocksOwnedOnce
<1> QED BY <1>5, Invariant, PTL

\* What read2 finds between the pointer and the end.
LEMMA ReadWhole ==
    ASSUME Fits, ~FullDisk, IInv, NEW f \in File, file[f].busy, NEW size \in 1 .. MaxIO,
           NEW p, p = file[f].pointer, NEW n, n = bytes_to_read(f, size), n > 0
    PROVE  /\ p \in Nat /\ n \in Nat /\ p + n <= disk.rec[f].bytes
           /\ bytes_read(f, size) = n
<1> PICK b : b = disk.rec[f].bytes
  OBVIOUS
<1>1. f \in Files /\ DiskForm(disk) /\ InodeForm(disk, f) /\ Sound(disk, file[f], wrote[f], torn, f)
  <2>1. f \in Files
    BY DEF IInv
  <2> QED BY <2>1, FileSound
<1>2. p \in Nat /\ b \in Nat /\ p <= b /\ file[f].bytes = b /\ size \in Nat
  <2>1. file[f] \in Handle
    BY DEF IInv, StateForm
  <2>2. p \in Nat /\ b \in Nat /\ size \in Nat
    BY <1>1, <2>1, HandleFields, RecordFields, Sizes
  <2>3. p <= b /\ file[f].bytes = b
    BY <1>1 DEF Sound
  <2> QED BY <2>2, <2>3
<1>3. n \in Nat /\ p + n <= b
  <2>1. n = IF p + size > b THEN b - p ELSE size
    BY <1>2 DEF bytes_to_read
  <2> QED BY <1>2, <2>1
<1> PICK S : S = {j \in 0 .. n - 1 : get_file_logic_block_addr(disk, f, (p + j) \div BS) \notin Block}
  OBVIOUS
<1>4. S = {}
  <2> SUFFICES ASSUME NEW j \in 0 .. n - 1
               PROVE  get_file_logic_block_addr(disk, f, (p + j) \div BS) \in Block
    OBVIOUS
  <2>1. p + j \in 0 .. b - 1
    BY <1>2, <1>3
  <2> PICK o : o = p + j
    OBVIOUS
  <2>2. slot(disk, f, o \div BS) \in Block
        /\ get_file_logic_block_addr(disk, f, o \div BS) = slot(disk, f, o \div BS)
    BY <1>1, <2>1, SoundSlots
  <2> QED BY <2>2
<1>5. least({n}) = n
  BY <1>3, LeastIsLeast
<1>6. bytes_read(f, size) = IF n <= 0 THEN 0 ELSE least({n} \cup S)
  BY DEF bytes_read
<1> QED BY <1>2, <1>3, <1>4, <1>5, <1>6

\* While the disk has room, read2 returns what was written.
THEOREM ReadReturnsWrittenHolds ==
    ASSUME Fits, ~FullDisk
    PROVE  Spec => []ReadReturnsWritten
<1>1. ASSUME IInv, NEW f \in File, file[f].busy, NEW size \in 1 .. MaxIO,
             NEW j \in 1 .. bytes_to_read(f, size)
      PROVE  /\ file[f].pointer + j <= disk.rec[f].bytes
             /\ read2_data(f, size)[j] = wrote[f][file[f].pointer + j - 1]
  <2> PICK p : p = file[f].pointer
    OBVIOUS
  <2> PICK n : n = bytes_to_read(f, size)
    OBVIOUS
  <2>1. n > 0
    <3>1. p \in Int /\ file[f].bytes \in Int
      <4>1. file[f] \in Handle
        BY <1>1 DEF IInv, StateForm
      <4> QED BY <4>1, HandleFields
    <3>2. n \in Int
      BY <3>1, Sizes DEF bytes_to_read
    <3> QED BY <3>2
  <2>2. p \in Nat /\ n \in Nat /\ p + n <= disk.rec[f].bytes /\ bytes_read(f, size) = n
    BY <1>1, <2>1, ReadWhole
  <2>3. f \in Files
    BY <1>1 DEF IInv
  <2>4. DiskForm(disk) /\ InodeForm(disk, f) /\ Sound(disk, file[f], wrote[f], torn, f)
    BY <1>1, <2>3, FileSound
  <2>5. disk.rec[f].bytes \in Nat
    BY <2>4, RecordFields
  <2> PICK o : o = p + j - 1
    OBVIOUS
  <2>6. o \in 0 .. disk.rec[f].bytes - 1 /\ p + j <= disk.rec[f].bytes
    BY <2>2, <2>5
  <2>7. byte(disk, f, o) = wrote[f][o]
    BY <2>4, <2>6 DEF Sound
  <2>8. get_file_logic_block_addr(disk, f, o \div BS) = slot(disk, f, o \div BS)
    BY <1>1, <2>4, <2>6, SoundSlots
  <2>9. read2_data(f, size)[j] = byte_at(f, o)
    BY <2>2 DEF read2_data
  <2>10. byte_at(f, o) = byte(disk, f, o)
    BY <2>8 DEF byte_at, byte
  <2> QED BY <2>6, <2>7, <2>9, <2>10
<1>2. IInv => ReadReturnsWritten
  BY <1>1 DEF ReadReturnsWritten
<1> QED BY <1>2, Invariant, PTL

\* While the disk has room, everything has its type: no count of blocks is more
\* than what MaxBytes take.
THEOREM TypeOKHolds ==
    ASSUME Fits, ~FullDisk
    PROVE  Spec => []TypeOK
<1>1. ASSUME IInv, Bounded PROVE TypeOK
  <2>1. /\ DiskForm(disk) /\ file \in [File -> Handle] /\ torn \subseteq File
        /\ wrote \in [File -> [Offset -> Value \cup {unwritten}]]
    BY <1>1 DEF IInv, StateForm
  <2>2. \A b \in Block : disk.blk[b] \in Data \/ disk.blk[b] \in Pointers
    BY <1>1 DEF IInv, Packed
  <2>3. disk.rec \in [File -> [exists : BOOLEAN, bytes : 0 .. MaxBytes, blocks : 0 .. ceil(MaxBytes)]]
    <3> PICK rec : rec = disk.rec
      OBVIOUS
    <3>1. rec \in [File -> FileRec] /\ \A f \in File : rec[f].blocks \in 0 .. ceil(MaxBytes)
      BY <1>1, <2>1 DEF DiskForm, Bounded, Counts
    <3>2. \A f \in File : rec[f] \in [exists : BOOLEAN, bytes : 0 .. MaxBytes, blocks : 0 .. ceil(MaxBytes)]
      BY <3>1 DEF FileRec
    <3> QED BY <3>1, <3>2
  <2>4. file \in [File -> [busy : BOOLEAN, pointer : 0 .. MaxBytes,
                           bytes : 0 .. MaxBytes, blocks : 0 .. ceil(MaxBytes)]]
    <3>1. \A f \in File : file[f].blocks \in 0 .. ceil(MaxBytes)
      BY <1>1 DEF Bounded, Counts
    <3>2. \A f \in File : file[f] \in [busy : BOOLEAN, pointer : 0 .. MaxBytes,
                                       bytes : 0 .. MaxBytes, blocks : 0 .. ceil(MaxBytes)]
      BY <2>1, <3>1 DEF Handle
    <3> QED BY <2>1, <3>2
  <2> QED BY <2>1, <2>2, <2>3, <2>4 DEF TypeOK, DiskForm, FileInode
<1>2. IInv /\ Bounded => TypeOK
  BY <1>1
<1> QED BY <1>2, Invariant, Bound, PTL
=============================================================================

-------------------------- MODULE T2fsBitmapProofs --------------------------
(***************************************************************************)
(* What the operators of T2fsBitmap do, for bitmaps of every size: a       *)
(* bitmap is a set of addresses, allocation takes the least address that   *)
(* is not in it, and setting and clearing a bit touch that address alone.  *)
(***************************************************************************)
EXTENDS T2fsBitmap, WellFoundedInduction, TLAPS

\* An address is its byte and its bit in that byte.
LEMMA Split ==
    ASSUME NEW a \in Bits
    PROVE  /\ a \div BITS \in Byte /\ a % BITS \in Bit
           /\ a = (a \div BITS) * BITS + (a % BITS)
<1>1. NBYTES \in Nat /\ BITS \in Nat /\ BITS > 0 /\ a \in Nat /\ a < NBYTES * BITS
  BY BitmapAssumption DEF Bits
<1>2. a % BITS \in Bit /\ a \div BITS \in Int /\ a = (a \div BITS) * BITS + (a % BITS)
  BY <1>1, SMTT(20) DEF Bit
<1> DEFINE q == a \div BITS
<1>3. q \in Int
  BY <1>2
<1> HIDE DEF q
<1>4. q * BITS <= a /\ a < q * BITS + BITS
  BY <1>1, <1>2, SMTT(20) DEF Bit, q
<1>5. q >= 0
  BY <1>1, <1>3, <1>4, SMTT(20)
<1>6. q < NBYTES
  BY <1>1, <1>3, <1>4, <1>5, SMTT(20)
<1>7. QED
  BY <1>1, <1>2, <1>3, <1>5, <1>6 DEF Byte, q

\* A byte and a bit in it make an address that splits into them.
LEMMA Join ==
    ASSUME NEW j \in Byte, NEW k \in Bit
    PROVE  /\ j * BITS + k \in Bits
           /\ (j * BITS + k) \div BITS = j /\ (j * BITS + k) % BITS = k
<1>1. NBYTES \in Nat /\ BITS \in Nat /\ BITS > 0 /\ j \in Nat /\ j + 1 <= NBYTES
      /\ k \in Nat /\ k < BITS
  BY BitmapAssumption DEF Byte, Bit
<1>2. j * BITS \in Nat /\ (j + 1) * BITS <= NBYTES * BITS /\ (j + 1) * BITS = j * BITS + BITS
  BY <1>1, SMTT(20)
<1>3. j * BITS + k \in Bits
  BY <1>1, <1>2, SMTT(20) DEF Bits
<1>4. (j * BITS + k) \div BITS = j /\ (j * BITS + k) % BITS = k
  BY <1>1, SMTT(20)
<1>5. QED
  BY <1>3, <1>4

\* A set of natural numbers that has members has a least one.
LEMMA LeastIsLeast ==
    ASSUME NEW S, S \subseteq Nat, S # {}
    PROVE  least(S) \in S /\ \A y \in S : least(S) <= y
<1>1. PICK x \in S : \A y \in S : ~(<<y, x>> \in OpToRel(<, Nat))
  BY NatLessThanWellFounded, WFMin, Zenon
<1>2. \A y \in S : <<y, x>> \in OpToRel(<, Nat) <=> y < x
  BY Zenon DEF OpToRel
<1>3. \A y \in S : ~(y < x)
  BY <1>1, <1>2, Zenon
<1>4. x \in S /\ \A y \in S : x <= y
  BY <1>3
<1>5. QED
  BY <1>4, Zenon DEF least

\* alloc_block and alloc_inode return the least address whose bit is clear,
\* whatever the bytes before it look like, and NULL_BLOCK exactly when every
\* bit of the bitmap is set.
THEOREM AllocatesLeast ==
    ASSUME NEW map \in Bitmap
    PROVE  /\ alloc_bit(map) = no_bit <=> bits(map) = Bits
           /\ alloc_bit(map) # no_bit =>
                  /\ alloc_bit(map) \in Bits \ bits(map)
                  /\ \A a \in Bits \ bits(map) : alloc_bit(map) <= a
<1> DEFINE room == bytes_with_room(map)
           j == least(room)
           k == least(Bit \ map[j])
<1>1. CASE room = {}
  <2>1. alloc_bit(map) = no_bit
    BY <1>1 DEF alloc_bit
  <2>2. ASSUME NEW a \in Bits PROVE a \in bits(map)
    BY <1>1, Split DEF bytes_with_room, bits
  <2>3. QED
    BY <2>1, <2>2 DEF bits
<1>2. CASE room # {}
  <2>1. j \in Byte /\ map[j] # Bit /\ \A i \in Byte : map[i] # Bit => j <= i
    <3>1. room \subseteq Nat /\ room = {i \in Byte : map[i] # Bit}
      BY BitmapAssumption DEF bytes_with_room, Byte
    <3>2. j \in room /\ \A i \in room : j <= i
      BY <1>2, <3>1, LeastIsLeast
    <3>3. QED
      BY <3>1, <3>2
  <2> HIDE DEF j, room
  <2>2. k \in Bit /\ k \notin map[j] /\ \A i \in Bit : i \notin map[j] => k <= i
    <3>1. Bit \ map[j] # {} /\ Bit \ map[j] \subseteq Nat
      <4>1. map[j] \subseteq Bit
        BY <2>1 DEF Bitmap
      <4>2. Bit \ map[j] # {}
        BY <2>1, <4>1, Zenon
      <4>3. QED
        BY <4>2, BitmapAssumption DEF Bit
    <3>2. k \in Bit \ map[j] /\ \A i \in Bit \ map[j] : k <= i
      BY <3>1, LeastIsLeast
    <3>3. QED
      BY <3>2
  <2>3. alloc_bit(map) = j * BITS + k
    BY <1>2 DEF alloc_bit, j, room
  <2> HIDE DEF k
  <2>4. j * BITS + k \in Bits \ bits(map)
    BY <2>1, <2>2, Join DEF bits
  <2>5. ASSUME NEW a \in Bits \ bits(map) PROVE j * BITS + k <= a
    <3>1. a \div BITS \in Byte /\ a % BITS \in Bit /\ a % BITS \notin map[a \div BITS]
          /\ a = (a \div BITS) * BITS + (a % BITS)
      BY <2>5, Split DEF bits
    <3>2. PICK q \in Byte, r \in Bit : a = q * BITS + r /\ r \notin map[q]
      BY <3>1
    <3>3. j <= q
      BY <2>1, <3>2
    <3>4. CASE j = q
      BY <2>2, <3>2, <3>4, BitmapAssumption DEF Byte, Bit
    <3>5. CASE j < q
      <4>1. j \in Nat /\ q \in Nat /\ k \in Nat /\ r \in Nat /\ k < BITS /\ BITS \in Nat
        BY <2>1, <2>2, <3>2, BitmapAssumption DEF Byte, Bit
      <4>2. (j + 1) * BITS <= q * BITS /\ (j + 1) * BITS = j * BITS + BITS
        BY <3>5, <4>1, SMTT(20)
      <4>3. j * BITS \in Nat /\ q * BITS \in Nat
        BY <4>1, SMTT(20)
      <4>4. QED
        BY <3>2, <4>1, <4>2, <4>3, SMTT(20)
    <3>6. QED
      BY <2>1, <3>2, <3>3, <3>4, <3>5 DEF Byte
  <2>6. alloc_bit(map) # no_bit
    BY <2>3, <2>4, BitmapAssumption DEF no_bit, Bits
  <2>7. QED
    BY <2>3, <2>4, <2>5, <2>6 DEF bits
<1>3. QED
  BY <1>1, <1>2

\* Marking a block or an i-node sets its bit and no other.
THEOREM SetsOne ==
    ASSUME NEW map \in Bitmap, NEW a \in Bits
    PROVE  set_bit(map, a) \in Bitmap /\ bits(set_bit(map, a)) = bits(map) \cup {a}
<1>1. a \div BITS \in Byte /\ a % BITS \in Bit
  BY Split
<1>2. set_bit(map, a) \in Bitmap
  BY <1>1 DEF set_bit, Bitmap
<1>3. ASSUME NEW c \in Bits
      PROVE  c \in bits(set_bit(map, a)) <=> c \in bits(map) \/ c = a
  <2>1. c \div BITS \in Byte /\ (c \div BITS = a \div BITS /\ c % BITS = a % BITS => c = a)
    BY Split
  <2>2. QED
    BY <1>1, <2>1 DEF set_bit, bits, Bitmap
<1>4. QED
  BY <1>2, <1>3 DEF bits

\* free_block and free_inode clear the bit of their argument and no other.
THEOREM ClearsOne ==
    ASSUME NEW map \in Bitmap, NEW a \in Bits
    PROVE  clear_bit(map, a) \in Bitmap /\ bits(clear_bit(map, a)) = bits(map) \ {a}
<1>1. a \div BITS \in Byte /\ a % BITS \in Bit
  BY Split
<1>2. clear_bit(map, a) \in Bitmap
  BY <1>1 DEF clear_bit, Bitmap
<1>3. ASSUME NEW c \in Bits
      PROVE  c \in bits(clear_bit(map, a)) <=> c \in bits(map) /\ c # a
  <2>1. c \div BITS \in Byte /\ (c \div BITS = a \div BITS /\ c % BITS = a % BITS => c = a)
    BY Split
  <2>2. QED
    BY <1>1, <2>1 DEF clear_bit, bits, Bitmap
<1>4. QED
  BY <1>2, <1>3 DEF bits
=============================================================================

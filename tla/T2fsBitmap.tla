----------------------------- MODULE T2fsBitmap -----------------------------
(***************************************************************************)
(* The bitmaps of T2FS (src/t2fs/src/t2fs_aux.c): alloc_block and          *)
(* alloc_inode look for the first byte that is not 0xFF and the first      *)
(* clear bit in it; free_block and free_inode clear one bit.  The bytes of *)
(* the blocks of a bitmap are numbered through: a block without a clear    *)
(* bit leaves the address at the first of the next one.                    *)
(*                                                                         *)
(* Nothing here knows how many blocks or i-nodes the disk has: the scan    *)
(* ends with the bitmap, not with the disk.                                *)
(*                                                                         *)
(* An operator marked "Mutated" is a wrong variant of the definition that  *)
(* follows it and stands in for it to show that a property can fail.       *)
(***************************************************************************)
EXTENDS Integers

CONSTANTS
    NBYTES,   \* bytes of the bitmap (1024 on the disk images)
    BITS      \* bits of a byte (8)

ASSUME BitmapAssumption == NBYTES \in Nat /\ BITS \in Nat \ {0}

Byte    == 0 .. NBYTES - 1
Bit     == 0 .. BITS - 1
Bits    == 0 .. NBYTES * BITS - 1     \* the addresses the bitmap tells of
Bitmap  == [Byte -> SUBSET Bit]       \* the set bits of each byte
no_bit  == -1                         \* NULL_BLOCK

least(S) == CHOOSE x \in S : \A y \in S : x <= y

\* The addresses whose bits are set.
bits(map) == {a \in Bits : a % BITS \in map[a \div BITS]}

all_clear == [j \in Byte |-> {}]

\* The while loop stops at the first byte that is not 0xFF.
bytes_with_room(map) == {j \in Byte : map[j] # Bit}

\* Mutated: a bitmap without a clear bit yields its last one.
alloc_bit_never_fails(map) ==
    LET room == bytes_with_room(map)
        j    == least(room)
    IN  IF room = {} THEN NBYTES * BITS - 1 ELSE j * BITS + least(Bit \ map[j])

\* The address of the bit alloc_block sets, or no_bit.
alloc_bit(map) ==
    LET room == bytes_with_room(map)
        j    == least(room)
    IN  IF room = {} THEN no_bit ELSE j * BITS + least(Bit \ map[j])

set_bit(map, a) == [map EXCEPT ![a \div BITS] = @ \cup {a % BITS}]

\* Mutated: the mask clears the whole byte.
clear_bit_byte(map, a) == [map EXCEPT ![a \div BITS] = {}]

clear_bit(map, a) == [map EXCEPT ![a \div BITS] = @ \ {a % BITS}]
=============================================================================

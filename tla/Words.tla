-------------------------------- MODULE Words ---------------------------------
(***************************************************************************)
(* Words of the simulated machine: four bytes, kept as the number that the *)
(* bits stand for without a sign.  The width of a byte is a parameter: the *)
(* instructions move, extend and merge bytes and half words, and what they *)
(* do does not depend on how many bits a byte has.                         *)
(***************************************************************************)
EXTENDS Integers

CONSTANT ByteBits   \* bits of a byte (8)

ASSUME ByteBitsAssumption == ByteBits \in Nat \ {0}

WordBits == 4 * ByteBits
ByteSize == 2 ^ ByteBits
HalfSize == 2 ^ (2 * ByteBits)
WordSize == 2 ^ WordBits
WordSet == 0 .. WordSize - 1
SmallestInt == -(WordSize \div 2)
LargestInt == WordSize \div 2 - 1

(* An int result that is stored in a word wraps around. *)
Word(n) == n % WordSize

(* The word as an int. *)
Signed(w) == IF w > LargestInt THEN w - WordSize ELSE w

(* The sign extension of a number below size to a word. *)
Extend(n, size) == IF n >= size \div 2 THEN Word(n - size) ELSE n

Power(k) == ByteSize ^ k
===============================================================================

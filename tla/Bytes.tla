------------------------------- MODULE Bytes -------------------------------
(***************************************************************************)
(* The fixed-width arithmetic the simulator leans on: uint8_t and uint16_t *)
(* values are the naturals below 256 and 65536, and every place where C    *)
(* truncates is an explicit Wrap8 or Wrap16.  Bitwise operators go through *)
(* the set of the numbers of the bits that are set, so that no operator of *)
(* the development is recursive.                                           *)
(***************************************************************************)
EXTENDS Integers

Byte == 0..255
Word == {n \in Nat : n < 65536}

Wrap8(x)  == x % 256
Wrap16(x) == x % 65536

(* The two halves of an address, and an address from its halves. *)
Lo(w) == w % 256
Hi(w) == (w \div 256) % 256
ToWord(lo, hi) == lo + 256 * hi

(* int8_t view of a byte: branch displacements. *)
Signed(b) == IF b < 128 THEN b ELSE b - 256

(* A byte and the set of its one-bits. *)
Bits(b) == {i \in 0..7 : (b \div 2^i) % 2 = 1}

Weight(S, i, w) == IF i \in S THEN w ELSE 0

ToByte(S) ==
    Weight(S, 0, 1) + Weight(S, 1, 2) + Weight(S, 2, 4) + Weight(S, 3, 8)
      + Weight(S, 4, 16) + Weight(S, 5, 32) + Weight(S, 6, 64) + Weight(S, 7, 128)

And(a, b) == ToByte(Bits(a) \cap Bits(b))
Or(a, b)  == ToByte(Bits(a) \cup Bits(b))
Xor(a, b) == ToByte((Bits(a) \cup Bits(b)) \ (Bits(a) \cap Bits(b)))
=============================================================================

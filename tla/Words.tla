-------------------------------- MODULE Words --------------------------------
(***************************************************************************)
(* Two's complement arithmetic as Java defines it, on words of four bytes  *)
(* and longs of eight, where a byte has ByteBits bits (8 in the program,   *)
(* 2 in the runs). A word is held as the signed number it denotes.         *)
(***************************************************************************)
EXTENDS Integers
LOCAL INSTANCE Bitwise

CONSTANT ByteBits
ASSUME ByteBitsAssumption == ByteBits \in {2, 4, 8}

HalfBits == 2 * ByteBits
WordBits == 4 * ByteBits
LongBits == 8 * ByteBits

Unsigned(x, n) == x % 2^n
Signed(x, n) == LET u == x % 2^n IN IF u < 2^(n - 1) THEN u ELSE u - 2^n

Word(x) == Signed(x, WordBits)
Long(x) == Signed(x, LongBits)
AllOnes(n) == 2^n - 1

(* Bitwise operations of two numbers of n bits *)
BitAnd(a, b, n) == Signed(Unsigned(a, n) & Unsigned(b, n), n)
BitOr(a, b, n)  == Signed(Unsigned(a, n) | Unsigned(b, n), n)
BitXor(a, b, n) == Signed(Unsigned(a, n) ^^ Unsigned(b, n), n)

(* Shifts: Java, like MIPS, takes the distance modulo the width. *)
ShiftLeft(a, k, n)    == Signed((a % 2^(n - (k % n))) * 2^(k % n), n)
ShiftRight(a, k, n)   == a \div 2^(k % n)
ShiftRightU(a, k, n)  == Signed(Unsigned(a, n) \div 2^(k % n), n)

(* Division truncates towards zero. *)
Magnitude(a) == IF a < 0 THEN -a ELSE a
Quotient(a, b) ==
  LET q == Magnitude(a) \div Magnitude(b) IN IF (a < 0) = (b < 0) THEN q ELSE -q
Remainder(a, b) == a - b * Quotient(a, b)
Compared(a, b) == IF a < b THEN -1 ELSE IF a = b THEN 0 ELSE 1
=============================================================================

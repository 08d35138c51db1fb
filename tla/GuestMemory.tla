----------------------------- MODULE GuestMemory -----------------------------
(***************************************************************************)
(* The memory of the translated program and the arithmetic the runtime     *)
(* does for it (java/CRunTime.java): an array of Java ints, big-endian,    *)
(* read and written in bytes, halves, words and unaligned words.           *)
(***************************************************************************)
EXTENDS Words, Sequences

(* address >> 2 and address / 4 *)
Index(address) == address \div 4
IndexTruncated(address) == Quotient(address, 4)
InMemory(memory, i) == i \in DOMAIN memory

(* How far a byte or a half lies above the low end of its word *)
ByteShift(address) == (3 - (address % 4)) * ByteBits
HalfShift(address) == (2 - (2 * ((address \div 2) % 2))) * ByteBits

ReadWord(memory, address) == memory[Index(address)]
ReadByteUnsigned(memory, address) ==
  BitAnd(ShiftRightU(memory[Index(address)], ByteShift(address), WordBits),
         AllOnes(ByteBits), WordBits)
ReadByte(memory, address) == Signed(ReadByteUnsigned(memory, address), ByteBits)
ReadShortUnsigned(memory, address) ==
  BitAnd(ShiftRightU(memory[Index(address)], HalfShift(address), WordBits),
         AllOnes(HalfBits), WordBits)
ReadShort(memory, address) == Signed(ReadShortUnsigned(memory, address), HalfBits)

(* cur &= ~(mask << b); cur |= (value & mask) << b *)
Inserted(cur, value, b, mask) ==
  BitOr(BitAnd(cur, BitXor(ShiftLeft(mask, b, WordBits), -1, WordBits), WordBits),
        ShiftLeft(BitAnd(value, mask, WordBits), b, WordBits), WordBits)

WriteWord(memory, address, in) == [memory EXCEPT ![IndexTruncated(address)] = in]
WriteByte(memory, address, in) ==
  [memory EXCEPT ![IndexTruncated(address)] =
     Inserted(@, in, ByteShift(address), AllOnes(ByteBits))]
WriteShort(memory, address, in) ==
  [memory EXCEPT ![IndexTruncated(address)] =
     Inserted(@, in, HalfShift(address), AllOnes(HalfBits))]

(* lwl and swl move the whole unaligned word at their address. *)
ReadWordLeft(memory, address) ==
  LET b(k) == ShiftLeft(ReadByteUnsigned(memory, address + 3 - k), k * ByteBits, WordBits)
  IN  BitOr(BitOr(b(0), b(1), WordBits), BitOr(b(2), b(3), WordBits), WordBits)
WriteWordLeft(memory, address, rtVal) ==
  LET m1 == WriteByte(memory, address + 3, rtVal)
      m2 == WriteByte(m1, address + 2, ShiftRight(rtVal, ByteBits, WordBits))
      m3 == WriteByte(m2, address + 1, ShiftRight(rtVal, 2 * ByteBits, WordBits))
  IN  WriteByte(m3, address, ShiftRight(rtVal, 3 * ByteBits, WordBits))

(* Unsigned division and multiplication: the high word holds the remainder
   or the upper half of the product. *)
divu(rsVal, rtVal) ==
  LET a == Unsigned(rsVal, WordBits)
      b == Unsigned(rtVal, WordBits)
  IN  Long(((a % b) * 2^WordBits) + (a \div b))
multu(rsVal, rtVal) == Long(Unsigned(rsVal, WordBits) * Unsigned(rtVal, WordBits))
sltu(aVal, bVal) == IF Unsigned(aVal, WordBits) < Unsigned(bVal, WordBits) THEN 1 ELSE 0
=============================================================================

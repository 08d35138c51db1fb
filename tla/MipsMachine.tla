----------------------------- MODULE MipsMachine -------------------------------
(***************************************************************************)
(* What the MIPS program does, as the reference for its translation: a     *)
(* big-endian machine on bytes, whose branches take effect after the       *)
(* instruction in their delay slot. Beside each register and byte it keeps *)
(* whether the program may rely on it: a function may rely on sp and its   *)
(* arguments, on what it computes from these, and after a call on the      *)
(* registers a callee preserves and on the callee's result. A program p    *)
(* has the signatures of its functions as they were written in C.          *)
(***************************************************************************)
EXTENDS Methods, ElfFile, JavaVM

CONSTANT Halt                      (* where the program returns to              *)

-------------------------------------------------------------------------------
(* The calling convention, o32: four words of arguments are in registers,     *)
(* values of 8 bytes begin at an even word, and for an aggregate result the   *)
(* first word says where it goes.                                             *)

ReturnedInMemory(type) == Unqualified(type).tag \in Composites
SizeOf(type) ==
  LET outer == Unqualified(type)
      t == IF outer.tag = "subrange" /\ outer.size = Unknown THEN outer.of ELSE outer
  IN CASE t = NoType -> 0
       [] t # NoType /\ t.size = Unknown -> 4
       [] OTHER -> t.size
WordsWith(n, type) ==
  (IF SizeOf(type) = 8 THEN n + (n % 2) ELSE n) + (SizeOf(type) + 3) \div 4
ArgumentWords(signature) ==
  IF signature.variadic THEN 4
  ELSE FoldLeft(WordsWith, IF ReturnedInMemory(signature.result) THEN 1 ELSE 0, signature.params)
ResultWords(signature) ==
  IF ReturnedInMemory(signature.result) THEN 1 ELSE (SizeOf(signature.result) + 3) \div 4

ArgumentRegisters(n) == {SP} \cup {r \in A0 .. A3 : r < A0 + n}
ResultRegisters(n) == {r \in V0 .. V1 : r < V0 + n}
ArgumentsOf(p, a) == ArgumentRegisters(ArgumentWords(p.signatures[a]))
ResultsOf(p, a) == ResultRegisters(ResultWords(p.signatures[a]))
-------------------------------------------------------------------------------

Encoded(p, a) == p.text[IndexOf(a)]
IsFunction(p, a) == \E f \in DOMAIN p.functions : p.functions[f].addr = a
FunctionOf(p, a) == p.functions[CHOOSE f \in DOMAIN p.functions : p.functions[f].addr = a]

-------------------------------------------------------------------------------
(* Bytes: the one at the lowest address is the highest of its word.           *)

RegByte(v, k) == (Unsigned(v, WordBits) \div 2^((3 - k) * ByteBits)) % 2^ByteBits
FromBytes(b) == Signed(((b[0] * 2^ByteBits + b[1]) * 2^ByteBits + b[2]) * 2^ByteBits + b[3], WordBits)
LoadedWord(bytes, a) == FromBytes([k \in 0 .. 3 |-> bytes[a + k]])
LoadedHalf(bytes, a) == bytes[a] * 2^ByteBits + bytes[a + 1]

InWord(a) == a % 4
WordStart(a) == a - InWord(a)

Loaded(op, bytes, a, old) ==
  CASE op = "lw" -> LoadedWord(bytes, a)
    [] op = "lh" -> Signed(LoadedHalf(bytes, a), HalfBits)
    [] op = "lhu" -> LoadedHalf(bytes, a)
    [] op = "lb" -> Signed(bytes[a], ByteBits)
    [] op = "lbu" -> bytes[a]
    [] op = "lwl" -> FromBytes([k \in 0 .. 3 |->
         IF k < 4 - InWord(a) THEN bytes[a + k] ELSE RegByte(old, k)])
    [] op = "lwr" -> FromBytes([k \in 0 .. 3 |->
         IF k >= 3 - InWord(a) THEN bytes[a - 3 + k] ELSE RegByte(old, k)])

(* The bytes a load or a store touches, and what a store puts there           *)
Touched(op, a) ==
  CASE op \in {"lw", "sw"} -> a .. a + 3
    [] op \in {"lh", "lhu", "sh"} -> a .. a + 1
    [] op \in {"lb", "lbu", "sb"} -> {a}
    [] op \in {"lwl", "swl"} -> a .. WordStart(a) + 3
    [] op \in {"lwr", "swr"} -> WordStart(a) .. a
Put(op, v, a, b) ==
  CASE op = "sw" -> RegByte(v, b - a) [] op = "sh" -> RegByte(v, 2 + b - a)
    [] op = "sb" -> RegByte(v, 3) [] op = "swl" -> RegByte(v, b - a)
    [] op = "swr" -> RegByte(v, 3 - (a - b))

-------------------------------------------------------------------------------
(* The value an arithmetic instruction puts into its destination              *)

Computed(i, x, y) ==
  LET imm == i.extra
      u(v) == Unsigned(v, WordBits)
      bit(b) == IF b THEN 1 ELSE 0
      distance == u(x) % WordBits
  IN CASE i.op \in {"add", "addu"} -> Word(x + y)
       [] i.op \in {"sub", "subu"} -> Word(x - y)
       [] i.op = "xor" -> BitXor(x, y, WordBits) [] i.op = "and" -> BitAnd(x, y, WordBits)
       [] i.op = "or" -> BitOr(x, y, WordBits) [] i.op = "nor" -> -1 - BitOr(x, y, WordBits)
       [] i.op = "sll" -> Word(y * 2^imm) [] i.op = "sra" -> y \div 2^imm
       [] i.op = "srl" -> Word(u(y) \div 2^imm)
       [] i.op = "sllv" -> Word(y * 2^distance) [] i.op = "srav" -> y \div 2^distance
       [] i.op = "srlv" -> Word(u(y) \div 2^distance)
       [] i.op \in {"addi", "addiu"} -> Word(x + imm)
       [] i.op = "xori" -> BitXor(x, imm, WordBits) [] i.op = "andi" -> BitAnd(x, imm, WordBits)
       [] i.op = "ori" -> BitOr(x, imm, WordBits) [] i.op = "lui" -> Word(imm * 2^ImmBits)
       [] i.op = "slt" -> bit(x < y) [] i.op = "sltu" -> bit(u(x) < u(y))
       [] i.op = "slti" -> bit(x < imm) [] i.op = "sltiu" -> bit(u(x) < u(imm))
       [] i.op \in {"mflo", "mfhi"} -> x

Product(i, x, y) == IF i.op = "mult" THEN x * y ELSE Unsigned(x, WordBits) * Unsigned(y, WordBits)
LoHi(i, x, y) ==
  LET ux == Unsigned(x, WordBits)
      uy == Unsigned(y, WordBits)
  IN CASE i.op \in {"mult", "multu"} ->
            <<Word(Product(i, x, y)), Word(Product(i, x, y) \div 2^WordBits)>>
       [] i.op = "div" -> <<Word(Quotient(x, y)), Word(Remainder(x, y))>>
       [] i.op = "divu" -> <<Word(ux \div uy), Word(ux % uy)>>

Destination(i) ==
  IF i.op \in DOMAIN IfmtOps \cup SetImmOps \cup {"lui"} THEN i.rt ELSE i.rd

SetRegister(m, r, v, known) ==
  IF r = ZERO THEN m
  ELSE [m EXCEPT !.regs[r] = v,
                 !.known = IF known /\ r # RA THEN @ \cup {r} ELSE @ \ {r}]

(* An instruction that is no branch: i, as the translator reads w. It reads   *)
(* lwr and swr as nothing, they are taken from w.                             *)
Executed(m, w) ==
  LET i == Create(w)
      x == m.regs[i.rs]
      y == m.regs[i.rt]
      knows(r) == r = ZERO \/ r \in m.known
      a == Word(m.regs[w[2]] + Signed(w[5], ImmBits))
      bytes == Touched(w[1], a)
  IN CASE w[1] \in Loads \cup {"lwr"} ->
            SetRegister(m, w[3], Loaded(w[1], m.bytes, a, m.regs[w[3]]),
                        /\ knows(w[2]) /\ bytes \subseteq m.knownBytes
                        /\ w[1] = "lwr" => knows(w[3]))
       [] w[1] \in Stores \cup {"swr"} ->
            [m EXCEPT !.bytes = [b \in DOMAIN @ |-> IF b \in bytes THEN Put(w[1], m.regs[w[3]], a, b) ELSE @[b]],
                      !.knownBytes = IF knows(w[3]) THEN @ \cup bytes ELSE @ \ bytes]
       [] i.op \in MulDivOps ->
            SetRegister(SetRegister(m, LO, LoHi(i, x, y)[1], knows(i.rs) /\ knows(i.rt)),
                        HI, LoHi(i, x, y)[2], knows(i.rs) /\ knows(i.rt))
       [] i.op = "regarg" -> [m EXCEPT !.passed = Append(@, m.regs[i.extra])]
       [] i.op = "syscall" ->
            LET done == [m EXCEPT !.passed = <<>>]
            IN IF i.rd = 1 THEN SetRegister(done, V0, SyscallResult(i.extra, m.passed), TRUE) ELSE done
       [] isNop(i) -> m
       [] OTHER -> SetRegister(m, Destination(i), Computed(i, x, y),
                               knows(i.rs) /\ (Destination(i) = i.rt \/ knows(i.rt)))

-------------------------------------------------------------------------------
(* Branches, calls and returns                                                *)

Taken(i, x, y) ==
  CASE i.op = "beq" -> x = y  [] i.op = "bne" -> x # y
    [] i.op = "beqz" -> x = 0 [] i.op = "bnez" -> x # 0
    [] i.op = "bgez" -> x >= 0 [] i.op = "bgtz" -> x > 0
    [] i.op = "blez" -> x <= 0 [] i.op = "bltz" -> x < 0

Goes(m, i) ==
  CASE i.op \in {"j", "jal"} -> i.extra * 4
    [] i.op \in {"jr", "jalr"} -> m.regs[i.rs]
    [] OTHER -> IF Taken(i, m.regs[i.rs], m.regs[i.rt]) THEN m.pc + 4 + i.extra * 4 ELSE m.pc + 8

Called(p, m, to, ret) ==
  [m EXCEPT !.pc = to, !.regs[RA] = ret,
            !.frames = Append(@, [known |-> m.known, callee |-> to]),
            !.known = @ \cap ArgumentsOf(p, to)]
TailCalled(p, m, to) ==
  [m EXCEPT !.pc = to, !.frames[Len(m.frames)].callee = to,
            !.known = @ \cap ArgumentsOf(p, to)]
Returned(p, m) ==
  LET top == m.frames[Len(m.frames)]
      results == ResultsOf(p, top.callee)
  IN [m EXCEPT !.pc = m.regs[RA], !.frames = Front(@),
               !.known = (top.known \cap (Saved \cup {SP})) \cup (@ \cap results)]

(* The functions of libgcc that the translator knows by name, on longs in     *)
(* a0, a1 and a2, a3, the upper halves first                                  *)
LongOf(high, low) == Long(high * 2^WordBits + Unsigned(low, WordBits))
LibgccResult(name, a, b, distance) ==
  CASE name = "__divdi3" -> Long(Quotient(a, b))
    [] name = "__moddi3" -> Remainder(a, b)
    [] name = "__ashldi3" -> ShiftLeft(a, distance, LongBits)
    [] name = "__ashrdi3" -> ShiftRight(a, distance, LongBits)
IsLibgcc(p, a) ==
  IsFunction(p, a) /\ FunctionOf(p, a).name \in {"__divdi3", "__moddi3", "__ashldi3", "__ashrdi3"}
CalledLibgcc(p, m, to) ==
  LET v == LibgccResult(FunctionOf(p, to).name, LongOf(m.regs[A0], m.regs[A1]),
                        LongOf(m.regs[A2], m.regs[A3]), m.regs[A2])
  IN [m EXCEPT !.pc = m.pc + 8, !.regs[RA] = m.pc + 8,
               !.regs[V0] = Word(v \div 2^WordBits), !.regs[V1] = Word(v),
               !.known = (@ \cap (Saved \cup {SP})) \cup {V0, V1}]

Step(p, m) ==
  LET w == Encoded(p, m.pc)
      i == Create(w)
      to == Goes(m, i)
      slot == Executed(m, Encoded(p, m.pc + 4))
  IN CASE ~ hasDelaySlot(i) -> [Executed(m, w) EXCEPT !.pc = m.pc + 4]
       [] i.op \in {"jal", "jalr"} /\ IsLibgcc(p, to) -> CalledLibgcc(p, slot, to)
       [] i.op \in {"jal", "jalr"} /\ ~ IsLibgcc(p, to) -> Called(p, slot, to, m.pc + 8)
       [] isReturnJump(i) -> Returned(p, slot)
       [] i.op = "j" /\ IsFunction(p, to) /\ to # m.frames[Len(m.frames)].callee ->
            TailCalled(p, slot, to)
       [] OTHER -> [slot EXCEPT !.pc = to]

(* On to the next address of a set, or the end                                *)
RECURSIVE RunTo(_, _, _)
RunTo(p, m, marks) ==
  IF m.pc \in marks \cup {Halt} THEN m ELSE RunTo(p, Step(p, m), marks)
=============================================================================

----------------------------- MODULE Instructions ------------------------------
(***************************************************************************)
(* The instructions of the translator (tools/translator/instruction.cc and *)
(* instructions/): how one is built from its encoding, which registers it  *)
(* reads and writes, and the bytecode each class emits. A context c gives  *)
(* alloc, the Java local of each register (-1: none), config, and of the   *)
(* method around the instruction: multi (it has several functions),        *)
(* usesHi (it reads hi) and bcSize.                                        *)
(***************************************************************************)
EXTENDS Words, Sequences

ZERO == 0   V0 == 2   V1 == 3   A0 == 4   A1 == 5   A2 == 6   A3 == 7
SP == 29    S8 == 30  RA == 31  HI == 32  LO == 33
MADR == 81  FNA == 84 MEM == 85
Registers == 0 .. 85
Saved == 16 .. 23 \cup {S8}        \* mips_caller_saved

ImmBits == HalfBits
ShiftBits == IF ByteBits = 2 THEN 3 ELSE IF ByteBits = 4 THEN 4 ELSE 5

Instruction(op, rs, rt, rd, extra) ==
  [op |-> op, rs |-> rs, rt |-> rt, rd |-> rd, extra |-> extra]
Nop == Instruction("nop", ZERO, ZERO, ZERO, 0)
DelaySlotNop == Instruction("slot", ZERO, ZERO, ZERO, 0)

-------------------------------------------------------------------------------
(* Classes of instructions, and the bytecode a class is built with            *)

RfmtOps == [add |-> "iadd", addu |-> "iadd", sub |-> "isub", subu |-> "isub",
            xor |-> "ixor", and |-> "iand", or |-> "ior", nor |-> "ior"]
ShiftOps == [sll |-> "ishl", sra |-> "ishr", srl |-> "iushr"]
ShiftVOps == [sllv |-> "ishl", srav |-> "ishr", srlv |-> "iushr"]
IfmtOps == [addi |-> "iadd", addiu |-> "iadd", xori |-> "ixor", andi |-> "iand", ori |-> "ior"]
SetOps == {"slt", "sltu"}
SetImmOps == {"slti", "sltiu"}
MulDivOps == {"mult", "multu", "div", "divu"}
LoadOps == [lw |-> "", lb |-> "Byte", lbu |-> "ByteUnsigned", lh |-> "Short",
            lhu |-> "ShortUnsigned", lwl |-> "WordLeft"]
StoreOps == [sw |-> "Word", sb |-> "Byte", sh |-> "Short", swl |-> "WordLeft"]
PartialLoads == {"lb", "lbu", "lh", "lhu"}
PartialStores == {"sb", "sh"}
TwoRegisterJumps == [beq |-> "if_icmpeq", bne |-> "if_icmpne"]
OneRegisterJumps == [beqz |-> "ifeq", bnez |-> "ifne", bgez |-> "ifge", bgtz |-> "ifgt",
                     blez |-> "ifle", bltz |-> "iflt"]
ConditionalJumps == DOMAIN TwoRegisterJumps \cup DOMAIN OneRegisterJumps
Calls == {"jal", "jalr", "jalreturn"}

Loads == DOMAIN LoadOps
Stores == DOMAIN StoreOps
Immediates == DOMAIN IfmtOps \cup SetImmOps \cup Loads \cup Stores \cup {"lwr", "swr"}
                \cup {"beq", "bne", "bgez", "bgtz", "blez", "bltz"}
ZeroExtended == {"andi", "ori", "xori"}

isBranch(i) == i.op \in ConditionalJumps \cup Calls \cup {"j", "jr"}
hasDelaySlot(i) == isBranch(i)
isReturnJump(i) == i.op = "jr" /\ i.rs = RA
isRegisterIndirectJump(i) == i.op = "jr" /\ i.rs # RA
isNop(i) == i.op \in {"nop", "slot"}

(* The instruction that an encoding <<op, rs, rt, rd, extra>> stands for      *)
Create(w) ==
  LET op == w[1]
      extra == IF op \in Immediates \ ZeroExtended THEN Signed(w[5], ImmBits) ELSE w[5]
  IN CASE op \in {"lwr", "swr", "break"} -> Nop
       [] op = "mflo" -> Instruction(op, LO, ZERO, w[4], 0)
       [] op = "mfhi" -> Instruction(op, HI, ZERO, w[4], 0)
       [] op \in {"mtlo", "mthi"} -> Instruction(op, w[4], ZERO, ZERO, 0)
       [] op \in {"beq", "bne"} /\ w[3] = ZERO ->
            Instruction(IF op = "beq" THEN "beqz" ELSE "bnez", w[2], ZERO, ZERO, extra)
       [] OTHER -> Instruction(op, w[2], w[3], w[4], extra)

-------------------------------------------------------------------------------
(* Registers written and read, without R_ZERO. Branches and calls also write  *)
(* and read what Methods adds for them.                                       *)

Used(regs) == SelectSeq(regs, LAMBDA r : r # ZERO)

fillDestinations(i, c) ==
  Used(CASE i.op \in DOMAIN RfmtOps \cup DOMAIN ShiftOps \cup DOMAIN ShiftVOps \cup SetOps -> <<i.rd>>
         [] i.op \in DOMAIN IfmtOps \cup SetImmOps \cup {"lui"} -> <<i.rt>>
         [] i.op \in {"mult", "div"} -> IF c.usesHi THEN <<LO, HI>> ELSE <<LO>>
         [] i.op \in {"multu", "divu"} -> <<LO, HI>>
         [] i.op \in {"mflo", "mfhi", "mtlo", "mthi"} -> <<i.rd>>
         [] i.op \in Loads -> IF c.config.partialMemoryOps THEN <<i.rt, MADR>> ELSE <<i.rt>>
         [] i.op = "syscall" -> IF i.rd = 1 THEN <<V0>> ELSE <<>>
         [] i.op \in Calls -> <<V0, V1>>
         [] OTHER -> <<>>)

fillSources(i) ==
  Used(CASE i.op \in DOMAIN RfmtOps \cup DOMAIN ShiftVOps \cup SetOps \cup MulDivOps -> <<i.rs, i.rt>>
         [] i.op \in DOMAIN ShiftOps -> <<i.rt>>
         [] i.op \in DOMAIN IfmtOps \cup SetImmOps \cup {"mflo", "mfhi", "jr"} -> <<i.rs>>
         [] i.op = "mtlo" -> <<LO>>
         [] i.op = "mthi" -> <<HI>>
         [] i.op \in Loads -> <<i.rs, MEM>>
         [] i.op \in Stores -> <<i.rs, i.rt, MEM>>
         [] i.op = "regarg" -> <<i.extra>>
         [] i.op \in DOMAIN TwoRegisterJumps -> <<i.rs, i.rt>>
         [] i.op \in DOMAIN OneRegisterJumps -> <<i.rs>>
         [] i.op \in Calls -> <<i.rs, A0, A1, A2, A3, SP>>
         [] OTHER -> <<>>)

(* Height of the operand stack. In 3 + delayed ? .. : 0 the sum is the        *)
(* condition, so that a branch counts its delay slot and nothing else.        *)
WordHeight == 3
PartialStoreHeight == 8
MaxStackHeight(i, delayed) ==
  CASE i.op \in {"sltu", "sltiu"} \cup MulDivOps \cup Calls -> 6
    [] i.op \in {"lw", "lwl", "sw", "swl"} -> WordHeight
    [] i.op \in PartialLoads -> 5
    [] i.op \in PartialStores -> PartialStoreHeight
    [] i.op \in ConditionalJumps \cup {"j", "jr"} -> delayed
    [] i.op = "syscall" -> IF i.rs > 1 THEN i.rs ELSE 1
    [] i.op = "regarg" -> 1
    [] OTHER -> 2

BytecodeSize(i) ==
  CASE i.op = "lwl" -> 13 [] i.op \in {"lw", "sw"} -> 11
    [] i.op \in PartialLoads -> 24 [] i.op \in PartialStores -> 32 [] OTHER -> 8

-------------------------------------------------------------------------------
(* The emitter                                                                *)

Op(name) == <<<<name>>>>
Const(v) == <<<<"iconst", v>>>>
ConstLong(v) == <<<<"lconst", v>>>>
Runtime(name) == <<<<"runtime", name>>>>

PushRegister(r, c) ==
  IF r = ZERO \/ c.alloc[r] < 0 THEN Const(0)
  ELSE <<<<IF r = MEM THEN "aload" ELSE "iload", c.alloc[r]>>>>
(* Without a local the translator warns and leaves the value where it is.     *)
PopRegister(r, c) ==
  IF c.alloc[r] < 0 THEN <<>>
  ELSE <<<<IF r = MEM THEN "astore" ELSE "istore", c.alloc[r]>>>>

PushAddress(r, extra, c) ==
  PushRegister(r, c) \o IF extra = 0 THEN <<>> ELSE Const(extra) \o Op("iadd")
PushIndex(r, extra, c) ==
  IF extra % 4 # 0
  THEN PushAddress(r, extra, c) \o Const(2) \o Op("iushr")
  ELSE PushRegister(r, c) \o Const(2) \o Op("iushr")
         \o IF extra = 0 THEN <<>> ELSE Const(extra \div 4) \o Op("iadd")

-------------------------------------------------------------------------------
(* pass2 of each class                                                        *)

Rfmt(i, c) ==
  PushRegister(i.rs, c) \o PushRegister(i.rt, c) \o Op(RfmtOps[i.op]) \o PopRegister(i.rd, c)

Addu(i, c) ==
  CASE i.rt = ZERO /\ i.rs = ZERO /\ i.rd = ZERO -> <<>>
    [] i.rt # ZERO /\ i.rs # ZERO -> Rfmt(i, c)
    [] OTHER -> PushRegister(IF i.rt = ZERO THEN i.rs ELSE i.rt, c) \o PopRegister(i.rd, c)

Subu(i, c) ==
  IF i.rs = ZERO
  THEN PushRegister(i.rt, c) \o Op("ineg") \o PopRegister(i.rd, c)
  ELSE Rfmt(i, c)

Nor(i, c) ==
  (CASE i.rs = ZERO /\ i.rt = ZERO -> Const(-1)
     [] i.rs # ZERO /\ i.rt # ZERO ->
          PushRegister(i.rs, c) \o PushRegister(i.rt, c) \o Op("ior") \o Const(-1) \o Op("ixor")
     [] OTHER -> PushRegister(IF i.rs # ZERO THEN i.rs ELSE i.rt, c) \o Const(-1) \o Op("ixor"))
  \o PopRegister(i.rd, c)

ShiftInstruction(i, c) ==
  IF i.rt = ZERO /\ i.extra = 0 /\ i.rd = ZERO THEN <<>>
  ELSE PushRegister(i.rt, c) \o Const(i.extra) \o Op(ShiftOps[i.op]) \o PopRegister(i.rd, c)

ShiftInstructionVSwapped(i, c) ==
  PushRegister(i.rs, c) \o PushRegister(i.rt, c) \o Op(ShiftVOps[i.op]) \o PopRegister(i.rd, c)
ShiftInstructionV(i, c) ==
  PushRegister(i.rt, c) \o PushRegister(i.rs, c) \o Op(ShiftVOps[i.op]) \o PopRegister(i.rd, c)

Ifmt(i, c) ==
  PushRegister(i.rs, c) \o Const(i.extra) \o Op(IfmtOps[i.op]) \o PopRegister(i.rt, c)

Addi(i, c) ==
  CASE i.rs = ZERO -> Const(i.extra) \o PopRegister(i.rt, c)
    [] i.rs # ZERO /\ i.rt = i.rs -> <<<<"iinc", c.alloc[i.rt], Signed(i.extra, ImmBits)>>>>
    [] OTHER -> Ifmt(i, c)

Lui(i, c) == Const(Word(i.extra * 2^ImmBits)) \o PopRegister(i.rt, c)

(* Bytecode for the signed and the unsigned comparison a < b: the result of   *)
(* lcmp(b, a), -1, 0 or 1, plus one, shifted right by one                     *)
LessThan == Op("lcmp") \o Const(1) \o Op("iadd") \o Const(1) \o Op("ishr")
Widened == Op("i2l")
WidenedUnsigned == Op("i2l") \o ConstLong(AllOnes(WordBits)) \o Op("land")

Slt(i, c) ==
  PushRegister(i.rt, c) \o Widened \o PushRegister(i.rs, c) \o Widened
    \o LessThan \o PopRegister(i.rd, c)
Sltu(i, c) ==
  PushRegister(i.rt, c) \o WidenedUnsigned \o PushRegister(i.rs, c) \o WidenedUnsigned
    \o LessThan \o PopRegister(i.rd, c)
Slti(i, c) ==
  Const(i.extra) \o Widened \o PushRegister(i.rs, c) \o Widened
    \o LessThan \o PopRegister(i.rt, c)
Sltiu(i, c) ==
  ConstLong(Unsigned(i.extra, WordBits)) \o PushRegister(i.rs, c) \o WidenedUnsigned
    \o LessThan \o PopRegister(i.rt, c)

(* A long on the stack goes to two registers, its upper half first.           *)
PopLong(high, low, c) ==
  Op("dup2") \o Const(WordBits) \o Op("lushr") \o Op("l2i") \o PopRegister(high, c)
    \o Op("l2i") \o PopRegister(low, c)

MulDiv(i, c) ==
  PushRegister(i.rs, c) \o PushRegister(i.rt, c) \o Runtime(i.op) \o PopLong(HI, LO, c)

Mult(i, c) ==
  IF ~ c.usesHi
  THEN PushRegister(i.rs, c) \o PushRegister(i.rt, c) \o Op("imul") \o PopRegister(LO, c)
  ELSE PushRegister(i.rs, c) \o Op("i2l") \o PushRegister(i.rt, c) \o Op("i2l")
         \o Op("lmul") \o PopLong(HI, LO, c)

(* using_lo is always true.                                                   *)
Div(i, c) ==
  PushRegister(i.rs, c) \o PushRegister(i.rt, c)
    \o IF ~ c.usesHi THEN Op("idiv") \o PopRegister(LO, c)
       ELSE Op("dup2") \o Op("idiv") \o PopRegister(LO, c) \o Op("irem") \o PopRegister(HI, c)

Mfxx(i, c) == PushRegister(i.rs, c) \o PopRegister(i.rd, c)
Mtxx(i, c) == PushRegister(i.rs, c) \o PopRegister(IF i.op = "mtlo" THEN LO ELSE HI, c)

(* Loads and stores through the runtime, or a subroutine of the method        *)
LoadXX(i, c) ==
  PushAddress(i.rs, i.extra, c)
    \o (IF c.config.partialMemoryOps /\ i.op # "lwl"
        THEN <<<<"jsr", <<"read", LoadOps[i.op]>>>>>>
        ELSE Runtime("memoryRead" \o LoadOps[i.op]))
    \o PopRegister(i.rt, c)

StoreXX(i, c) ==
  PushAddress(i.rs, i.extra, c) \o PushRegister(i.rt, c)
    \o Runtime("memoryWrite" \o StoreOps[i.op])

(* ra is neither saved nor restored where the Java frame does it.             *)
SkipsRa(i, c) == i.rt = RA /\ ~ c.multi

Lw(i, c) ==
  IF SkipsRa(i, c) THEN <<>>
  ELSE PushRegister(MEM, c) \o PushIndex(i.rs, i.extra, c) \o Op("iaload") \o PopRegister(i.rt, c)
Sw(i, c) ==
  IF SkipsRa(i, c) THEN <<>>
  ELSE PushRegister(MEM, c) \o PushIndex(i.rs, i.extra, c) \o PushRegister(i.rt, c) \o Op("iastore")

Inlined(c) ==
  ~ c.config.partialMemoryOps /\ c.config.inlines /\ c.bcSize <= c.config.inlineLimit

(* (b_v - (address & b_v)) << 3, in bits of ByteBits each *)
Log2ByteBits == IF ByteBits = 2 THEN 1 ELSE IF ByteBits = 4 THEN 2 ELSE 3
IsByte(op) == op \in {"lb", "lbu", "sb"}
AndValue(op) == IF IsByte(op) THEN 3 ELSE 2
MaskValue(op) == AllOnes(IF IsByte(op) THEN ByteBits ELSE HalfBits)
BitOffset(i, c) ==
  Const(AndValue(i.op)) \o PushAddress(i.rs, i.extra, c) \o Const(AndValue(i.op))
    \o Op("iand") \o Op("isub") \o Const(Log2ByteBits) \o Op("ishl")

(* The conversion of the low byte or half on the stack                        *)
Extracted(op) ==
  CASE op = "lb" -> Op("i2b") [] op = "lhu" -> Op("i2c") [] op = "lh" -> Op("i2s")
    [] OTHER -> Const(MaskValue(op)) \o Op("iand")

PartialLoad(i, c) ==
  CASE ~ Inlined(c) -> LoadXX(i, c)
    [] Inlined(c) /\ SkipsRa(i, c) -> <<>>
    [] OTHER ->
         PushRegister(MEM, c) \o PushIndex(i.rs, i.extra, c) \o Op("iaload")
           \o BitOffset(i, c) \o Op("iushr") \o Extracted(i.op) \o PopRegister(i.rt, c)

PartialStore(i, c) ==
  CASE ~ Inlined(c) -> StoreXX(i, c)
    [] Inlined(c) /\ SkipsRa(i, c) -> <<>>
    [] OTHER ->
         PushRegister(MEM, c) \o PushIndex(i.rs, i.extra, c) \o Op("dup2") \o Op("iaload")
           \o Const(MaskValue(i.op)) \o BitOffset(i, c) \o Op("dup_x2")
           \o Op("ishl") \o Const(-1) \o Op("ixor") \o Op("iand")
           \o Op("swap") \o PushRegister(i.rt, c) \o Const(MaskValue(i.op)) \o Op("iand")
           \o Op("swap") \o Op("ishl") \o Op("ior") \o Op("iastore")

(* rs: how many registers are passed, rd: 1 when a value is returned          *)
SyscallInsn(i, c) ==
  <<<<"syscall", i.extra, i.rs, i.rd>>>> \o IF i.rd = 1 THEN PopRegister(V0, c) ELSE <<>>
SyscallRegisterArgument(i, c) == PushRegister(i.extra, c)

(* The bytecode of an instruction that is not a branch                        *)
Straight(i, c) ==
  CASE isNop(i) -> <<>>
    [] i.op = "addu" -> Addu(i, c)
    [] i.op = "subu" -> Subu(i, c)
    [] i.op = "nor" -> Nor(i, c)
    [] i.op \in DOMAIN RfmtOps \ {"addu", "subu", "nor"} -> Rfmt(i, c)
    [] i.op \in DOMAIN ShiftOps -> ShiftInstruction(i, c)
    [] i.op \in DOMAIN ShiftVOps -> ShiftInstructionV(i, c)
    [] i.op \in {"addi", "addiu"} -> Addi(i, c)
    [] i.op \in {"xori", "andi", "ori"} -> Ifmt(i, c)
    [] i.op = "lui" -> Lui(i, c)
    [] i.op = "slt" -> Slt(i, c)
    [] i.op = "sltu" -> Sltu(i, c)
    [] i.op = "slti" -> Slti(i, c)
    [] i.op = "sltiu" -> Sltiu(i, c)
    [] i.op \in {"multu", "divu"} -> MulDiv(i, c)
    [] i.op = "mult" -> Mult(i, c)
    [] i.op = "div" -> Div(i, c)
    [] i.op \in {"mflo", "mfhi"} -> Mfxx(i, c)
    [] i.op \in {"mtlo", "mthi"} -> Mtxx(i, c)
    [] i.op = "lw" -> Lw(i, c)
    [] i.op = "sw" -> Sw(i, c)
    [] i.op = "lwl" -> LoadXX(i, c)
    [] i.op = "swl" -> StoreXX(i, c)
    [] i.op \in PartialLoads -> PartialLoad(i, c)
    [] i.op \in PartialStores -> PartialStore(i, c)
    [] i.op = "syscall" -> SyscallInsn(i, c)
    [] i.op = "regarg" -> SyscallRegisterArgument(i, c)
===============================================================================

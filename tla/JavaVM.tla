-------------------------------- MODULE JavaVM ---------------------------------
(***************************************************************************)
(* The part of the Java virtual machine that translated code uses. An      *)
(* operand stack holds tagged words: "I" an int, "J" and "j" the two words *)
(* of a long, "A" the memory array, "R" a return address; "U" is a local   *)
(* nobody has written. An operation is a tuple, its name first.            *)
(***************************************************************************)
EXTENDS GuestMemory

Int1(v) == <<<<"I", v>>>>
Long1(v) == <<<<"J", v>>, <<"j", 0>>>>
MemoryArray == <<"A", 0>>
Unwritten == <<"U", 0>>

IntBinary == {"iadd", "isub", "imul", "idiv", "irem", "iand", "ior", "ixor",
              "ishl", "ishr", "iushr"}
IntUnary == {"ineg", "i2b", "i2s", "i2c"}
LongBinary == {"lmul", "ldiv", "lrem", "land", "lor"}
LongShifts == {"lshl", "lshr", "lushr"}
OneBranches == {"ifeq", "ifne", "ifge", "ifgt", "ifle", "iflt"}
TwoBranches == {"if_icmpeq", "if_icmpne"}
RuntimeReads == {"memoryReadByte", "memoryReadByteUnsigned", "memoryReadShort",
                 "memoryReadShortUnsigned", "memoryReadWordLeft"}
RuntimeWrites == {"memoryWriteWord", "memoryWriteByte", "memoryWriteShort",
                  "memoryWriteWordLeft"}
StackOps == {"dup", "dup2", "dup_x2", "swap"}

Ints(n) == [k \in 1 .. n |-> "I"]

(* The tags of the words an operation takes from the stack                   *)
OperandTags(op) ==
  CASE op[1] \in IntBinary \cup TwoBranches \cup {"divu", "multu"} -> Ints(2)
    [] op[1] \in IntUnary \cup OneBranches
         \cup {"i2l", "istore", "putstatic", "ireturn", "tableswitch", "lookupswitch"} -> Ints(1)
    [] op[1] \in LongBinary \cup {"lcmp"} -> <<"J", "j", "J", "j">>
    [] op[1] \in LongShifts -> <<"J", "j", "I">>
    [] op[1] \in {"l2i", "lreturn"} -> <<"J", "j">>
    [] op[1] = "iaload" -> <<"A", "I">>
    [] op[1] = "iastore" -> <<"A", "I", "I">>
    [] op[1] = "runtime" -> IF op[2] \in RuntimeReads THEN Ints(1) ELSE Ints(2)
    [] op[1] \in {"invoke", "syscall"} -> Ints(op[3])
    [] op[1] = "calltable" -> Ints(6)
    [] OTHER -> <<>>

(* Operations whose operands may be of several types take this many words.   *)
OperandCount(op) ==
  CASE op[1] \in {"astore", "dup"} -> 1 [] op[1] \in {"dup2", "swap"} -> 2
    [] op[1] = "dup_x2" -> 3 [] OTHER -> Len(OperandTags(op))

(* A long is not split, nor is one half of it moved.                         *)
Whole(words) ==
  \/ \A k \in DOMAIN words : words[k][1] \notin {"J", "j"}
  \/ (Len(words) = 2 /\ words[1][1] = "J")

LocalTag(op) == CASE op[1] \in {"iload", "iinc"} -> "I" [] op[1] = "aload" -> "A" [] op[1] = "ret" -> "R"

(* The operands an operation needs are there, in the local and on the stack. *)
WellTyped(op, locals, stack) ==
  LET n == OperandCount(op)
      words == SubSeq(stack, Len(stack) - n + 1, Len(stack))
  IN /\ n <= Len(stack)
     /\ CASE op[1] = "astore" -> words[1][1] \in {"A", "R"}
          [] op[1] \in StackOps -> Whole(words)
          [] OTHER -> \A k \in 1 .. n : words[k][1] = OperandTags(op)[k]
     /\ op[1] \in {"iload", "iinc", "aload", "ret"} => locals[op[2]][1] = LocalTag(op)

-------------------------------------------------------------------------------
IntResult(name, a, b) ==
  CASE name = "iadd" -> Word(a + b) [] name = "isub" -> Word(a - b)
    [] name = "imul" -> Word(a * b) [] name = "idiv" -> Word(Quotient(a, b))
    [] name = "irem" -> Word(Remainder(a, b))
    [] name = "iand" -> BitAnd(a, b, WordBits) [] name = "ior" -> BitOr(a, b, WordBits)
    [] name = "ixor" -> BitXor(a, b, WordBits)
    [] name = "ishl" -> ShiftLeft(a, b, WordBits) [] name = "ishr" -> ShiftRight(a, b, WordBits)
    [] name = "iushr" -> ShiftRightU(a, b, WordBits)

UnaryResult(name, a) ==
  CASE name = "ineg" -> Word(-a) [] name = "i2b" -> Signed(a, ByteBits)
    [] name = "i2s" -> Signed(a, HalfBits) [] name = "i2c" -> Unsigned(a, HalfBits)

LongResult(name, a, b) ==
  CASE name = "lmul" -> Long(a * b) [] name = "ldiv" -> Long(Quotient(a, b))
    [] name = "lrem" -> Long(Remainder(a, b))
    [] name = "land" -> BitAnd(a, b, LongBits) [] name = "lor" -> BitOr(a, b, LongBits)
    [] name = "lshl" -> ShiftLeft(a, b, LongBits) [] name = "lshr" -> ShiftRight(a, b, LongBits)
    [] name = "lushr" -> ShiftRightU(a, b, LongBits)

RuntimeResult(name, a, b, memory) ==
  CASE name = "divu" -> Long1(divu(a, b)) [] name = "multu" -> Long1(multu(a, b))
    [] name = "memoryReadByte" -> Int1(ReadByte(memory, a))
    [] name = "memoryReadByteUnsigned" -> Int1(ReadByteUnsigned(memory, a))
    [] name = "memoryReadShort" -> Int1(ReadShort(memory, a))
    [] name = "memoryReadShortUnsigned" -> Int1(ReadShortUnsigned(memory, a))
    [] name = "memoryReadWordLeft" -> Int1(ReadWordLeft(memory, a))
    [] OTHER -> <<>>

(* Any function of the arguments will do for a system call.                  *)
SyscallResult(number, args) ==
  LET sum[k \in 0 .. Len(args)] == IF k = 0 THEN number ELSE sum[k - 1] * 3 + args[k]
  IN  Word(sum[Len(args)])

(* What an operation that computes puts on the stack for its operands w      *)
Results(op, w, memory) ==
  LET v(k) == w[k][2]
  IN CASE op[1] \in IntBinary -> Int1(IntResult(op[1], v(1), v(2)))
       [] op[1] \in IntUnary -> Int1(UnaryResult(op[1], v(1)))
       [] op[1] \in LongBinary -> Long1(LongResult(op[1], v(1), v(3)))
       [] op[1] \in LongShifts -> Long1(LongResult(op[1], v(1), v(3)))
       [] op[1] = "i2l" -> Long1(v(1))
       [] op[1] = "l2i" -> Int1(Word(v(1)))
       [] op[1] = "lcmp" -> Int1(Compared(v(1), v(3)))
       [] op[1] = "iconst" -> Int1(op[2])
       [] op[1] = "lconst" -> Long1(op[2])
       [] op[1] = "dup" -> <<w[1], w[1]>>
       [] op[1] = "dup2" -> w \o w
       [] op[1] = "dup_x2" -> <<w[3], w[1], w[2], w[3]>>
       [] op[1] = "swap" -> <<w[2], w[1]>>
       [] op[1] = "iaload" -> Int1(memory[v(2)])
       [] op[1] = "runtime" -> RuntimeResult(op[2], v(1), IF Len(w) = 2 THEN v(2) ELSE 0, memory)
       [] op[1] = "syscall" ->
            IF op[4] = 1 THEN Int1(SyscallResult(op[2], [k \in DOMAIN w |-> v(k)])) ELSE <<>>

Stored(op, w, memory) ==
  LET v(k) == w[k][2]
  IN CASE op[1] = "iastore" -> [memory EXCEPT ![v(2)] = v(3)]
       [] op[2] = "memoryWriteWord" -> WriteWord(memory, v(1), v(2))
       [] op[2] = "memoryWriteByte" -> WriteByte(memory, v(1), v(2))
       [] op[2] = "memoryWriteShort" -> WriteShort(memory, v(1), v(2))
       [] op[2] = "memoryWriteWordLeft" -> WriteWordLeft(memory, v(1), v(2))

WritesMemory(op) == op[1] = "iastore" \/ (op[1] = "runtime" /\ op[2] \in RuntimeWrites)

Jumps(op, w) ==
  LET v(k) == w[k][2]
  IN CASE op[1] = "if_icmpeq" -> v(1) = v(2) [] op[1] = "if_icmpne" -> v(1) # v(2)
       [] op[1] = "ifeq" -> v(1) = 0 [] op[1] = "ifne" -> v(1) # 0
       [] op[1] = "ifge" -> v(1) >= 0 [] op[1] = "ifgt" -> v(1) > 0
       [] op[1] = "ifle" -> v(1) <= 0 [] op[1] = "iflt" -> v(1) < 0
       [] op[1] = "goto" -> TRUE
===============================================================================

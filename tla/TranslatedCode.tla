---------------------------- MODULE TranslatedCode -----------------------------
(***************************************************************************)
(* The translator at work on a program, and the translated program running *)
(* on a Java virtual machine in step with the MIPS program it was made     *)
(* from. The MIPS machine moves where the code has the comment that the    *)
(* translator puts in front of each instruction.                           *)
(***************************************************************************)
EXTENDS MethodCode, MipsMachine

CONSTANTS Inputs,                  (* a sequence of ELF files, each with the    *)
                                   (* settings for it, the signatures of its    *)
                                   (* functions in C, and the size up to which  *)
                                   (* methods inline memory access              *)
          StackTop                 (* what sp begins with                       *)

VARIABLES
  input,                           (* which of Inputs is translated             *)
  program,                         (* what was read of it                       *)
  stage,                           (* how far the translator is, then "running" *)
                                   (* or "panicked"                             *)
  unit,                            (* what its last pass made                   *)
  frames,                          (* Java frames: method, pc, locals, stack,   *)
                                   (* and whether the call table made the call  *)
  saved_v1, memory,                (* statics of the runtime                    *)
  mips                             (* the reference machine                     *)
vars == <<input, program, stage, unit, frames, saved_v1, memory, mips>>

Refused(x) == ElfPanics(x.file) \/ UnknownKey(x.settings)
Read(x) ==
  [colocs |-> Colocations(x.settings), signatures |-> x.signatures,
   config |-> [inlineLimit |-> x.inlineLimit] @@ parse_config(x.settings)] @@ CibylElf(x.file)
Programs == [k \in DOMAIN Inputs |-> IF Refused(Inputs[k]) THEN <<>> ELSE Read(Inputs[k])]

p == program
MemoryWords == 0 .. (StackTop \div 4) - 1
Loadeds(data) == [i \in MemoryWords |-> IF i < Len(data) THEN data[i + 1] ELSE 0]

Machine(q) ==
  [pc |-> TextBase, passed |-> <<>>, known |-> ArgumentRegisters(4),
   regs |-> [r \in 0 .. LO |-> CASE r = SP -> StackTop [] r = RA -> Halt [] OTHER -> 0],
   bytes |-> [b \in 0 .. 4 * Cardinality(MemoryWords) - 1 |->
                RegByte(Loadeds(q.data)[b \div 4], b % 4)],
   knownBytes |-> 0 .. 4 * Cardinality(MemoryWords) - 1,
   frames |-> <<[known |-> {}, callee |-> TextBase]>>]

Init ==
  /\ input \in DOMAIN Inputs
  /\ stage = "file" /\ program = <<>> /\ unit = <<>> /\ frames = <<>> /\ saved_v1 = 0
  /\ memory = Loadeds(<<>>) /\ mips = <<>>

-------------------------------------------------------------------------------
(* The translator                                                             *)

(* The assembler keeps the operations and resolves the labels.                *)
Assembled(t) ==
  LET isLabel(op) == op[1] = "label"
      before(k) == Cardinality({j \in 1 .. k - 1 : ~ isLabel(t.code[j])})
      defined(l) == Min({k \in DOMAIN t.code : t.code[k] = <<"label", l>>})
  IN [code |-> SelectSeq(t.code, LAMBDA op : ~ isLabel(op)),
      labels |-> [l \in {t.code[k][2] : k \in {k \in DOMAIN t.code : isLabel(t.code[k])}} |->
                    before(defined(l)) + 1],
      limit |-> t.limit, pass |-> t.pass, returns |-> t.returns,
      alloc |-> [r \in {r \in Registers : t.alloc[r] >= 0} |-> t.alloc[r]]]

(* Where each function of the call table is: its method, and its place there  *)
Entries(lay, passed) ==
  [a \in {lay.table[k].address : k \in DOMAIN lay.table} |->
     LET n == MethodNumber(passed, lay, a)
     IN <<n, getFunctionIndexByAddress(passed[n].method, a)>>]

Linked(q, lay, passed, methods) ==
     [methods |-> methods, parts |-> CallTableMethods(q, lay), entries |-> Entries(lay, passed),
      start |-> MethodNumber(passed, lay, TextBase),
      marks |-> {op[2] : op \in {op \in UNION {Range(methods[n].code) : n \in DOMAIN methods} :
                                   op[1] = "insn"}}]
Translation(q, lay, passed) ==
  Linked(q, lay, passed, [n \in DOMAIN passed |-> Assembled(Translated(lay, passed, n))])

(* What each pass makes of each program, as far as it gets                    *)
PassesAfterLayout(q, lay, passed) == <<q, lay, passed, Translation(q, lay, passed)>>
Passes(q) ==
  IF ColocationPanics(q, Functions(q, Slots(q))) THEN <<q>>
  ELSE LET lay == Layout(q) IN PassesAfterLayout(q, lay, PassedMethods(q, lay))
Units == [k \in DOMAIN Inputs |->
            IF Refused(Inputs[k]) THEN <<>> ELSE Passes(Programs[k])]

Stages == <<"file", "read", "laid out", "passed", "translated">>
Pass ==
  \E units \in {Units[input]} : \E n \in DOMAIN units :
    /\ stage = Stages[n] /\ stage' = Stages[n + 1]
    /\ program' = units[1] /\ unit' = units[n]
    /\ UNCHANGED <<input, frames, saved_v1, memory, mips>>
Panic ==
  /\ stage = Stages[Len(Units[input]) + 1] /\ stage # "translated"
  /\ stage' = "panicked"
  /\ UNCHANGED <<input, program, unit, frames, saved_v1, memory, mips>>

-------------------------------------------------------------------------------
(* The program                                                                *)

Frame(n, args, viaTable) ==
  LET size == Cardinality(DOMAIN unit.methods[n].alloc)
  IN [method |-> n, pc |-> 1, stack |-> <<>>, viaTable |-> viaTable,
      locals |-> [k \in 0 .. size - 1 |-> IF k < Len(args) THEN args[k + 1] ELSE Unwritten]]

Start ==
  /\ stage = "translated" /\ stage' = "running"
  /\ LET q == unit.methods[unit.start]
     IN frames' = <<Frame(unit.start,
                          [k \in DOMAIN q.pass |-> <<"I", IF q.pass[k] = SP THEN StackTop ELSE 0>>],
                          FALSE)>>
  /\ memory' = Loadeds(p.data)
  /\ mips' = RunTo(p, Machine(p), unit.marks)
  /\ UNCHANGED <<input, program, unit, saved_v1>>

Running == stage = "running" /\ frames # <<>>
Depth == Len(frames)
Top == frames[Depth]
Method == unit.methods[Top.method]
Next_op == Method.code[Top.pc]
Is(name) == Running /\ Next_op[1] = name
Operands == SubSeq(Top.stack, Len(Top.stack) - OperandCount(Next_op) + 1, Len(Top.stack))
Below == SubSeq(Top.stack, 1, Len(Top.stack) - OperandCount(Next_op))

Continue(pc, locals, stack) ==
  frames' = [frames EXCEPT ![Depth].pc = pc, ![Depth].locals = locals, ![Depth].stack = stack]
Unmoved == UNCHANGED <<input, program, stage, unit>>

(* The comment in front of an instruction                                     *)
Instruct ==
  /\ Is("insn")
  /\ mips' = RunTo(p, Step(p, mips), unit.marks)
  /\ Continue(Top.pc + 1, Top.locals, Top.stack)
  /\ Unmoved /\ UNCHANGED <<saved_v1, memory>>

Computes(op) ==
  \/ op[1] \in IntBinary \cup IntUnary \cup LongBinary \cup LongShifts \cup StackOps
               \cup {"i2l", "l2i", "lcmp", "iconst", "lconst", "iaload", "syscall"}
  \/ op[1] = "runtime" /\ ~ WritesMemory(op)

Compute ==
  /\ Running /\ Computes(Next_op)
  /\ Continue(Top.pc + 1, Top.locals, Below \o Results(Next_op, Operands, memory))
  /\ Unmoved /\ UNCHANGED <<saved_v1, memory, mips>>

LoadLocal ==
  /\ Is("iload") \/ Is("aload")
  /\ Continue(Top.pc + 1, Top.locals, Append(Top.stack, Top.locals[Next_op[2]]))
  /\ Unmoved /\ UNCHANGED <<saved_v1, memory, mips>>

StoreLocal ==
  /\ Is("istore") \/ Is("astore")
  /\ Continue(Top.pc + 1, [Top.locals EXCEPT ![Next_op[2]] = Operands[1]], Below)
  /\ Unmoved /\ UNCHANGED <<saved_v1, memory, mips>>

Increment ==
  /\ Is("iinc")
  /\ Continue(Top.pc + 1, [Top.locals EXCEPT ![Next_op[2]] = <<"I", Word(@[2] + Next_op[3])>>],
              Top.stack)
  /\ Unmoved /\ UNCHANGED <<saved_v1, memory, mips>>

GetStatic ==
  /\ Is("getstatic")
  /\ Continue(Top.pc + 1, Top.locals,
              Append(Top.stack, IF Next_op[2] = "memory" THEN MemoryArray ELSE <<"I", saved_v1>>))
  /\ Unmoved /\ UNCHANGED <<saved_v1, memory, mips>>

PutStatic ==
  /\ Is("putstatic")
  /\ saved_v1' = Operands[1][2]
  /\ Continue(Top.pc + 1, Top.locals, Below)
  /\ Unmoved /\ UNCHANGED <<memory, mips>>

StoreMemory ==
  /\ Running /\ WritesMemory(Next_op)
  /\ memory' = Stored(Next_op, Operands, memory)
  /\ Continue(Top.pc + 1, Top.locals, Below)
  /\ Unmoved /\ UNCHANGED <<saved_v1, mips>>

Branch ==
  /\ Running /\ Next_op[1] \in OneBranches \cup TwoBranches \cup {"goto"}
  /\ Continue(IF Jumps(Next_op, Operands) THEN Method.labels[Next_op[2]] ELSE Top.pc + 1,
              Top.locals, Below)
  /\ Unmoved /\ UNCHANGED <<saved_v1, memory, mips>>

(* The cases of a tableswitch are the values from 0, those of a lookupswitch  *)
(* the addresses of its labels.                                               *)
SwitchTo(op, v) ==
  LET chosen == IF op[1] = "tableswitch" THEN {k \in DOMAIN op[2] : k = v + 1}
                ELSE {k \in DOMAIN op[2] : op[2][k] = At(v)}
  IN IF chosen = {} THEN op[3] ELSE op[2][CHOOSE k \in chosen : TRUE]
Switches ==
  /\ Is("tableswitch") \/ Is("lookupswitch")
  /\ Continue(Method.labels[SwitchTo(Next_op, Operands[1][2])], Top.locals, Below)
  /\ Unmoved /\ UNCHANGED <<saved_v1, memory, mips>>

JumpSubroutine ==
  /\ Is("jsr")
  /\ Continue(Method.labels[Next_op[2]], Top.locals, Append(Top.stack, <<"R", Top.pc + 1>>))
  /\ Unmoved /\ UNCHANGED <<saved_v1, memory, mips>>

ReturnSubroutine ==
  /\ Is("ret")
  /\ Continue(Top.locals[Next_op[2]][2], Top.locals, Top.stack)
  /\ Unmoved /\ UNCHANGED <<saved_v1, memory, mips>>

Calling(n, args, viaTable) ==
  frames' = Append([frames EXCEPT ![Depth].pc = @ + 1, ![Depth].stack = Below],
                   Frame(n, args, viaTable))

InvokeMethod ==
  /\ Is("invoke")
  /\ Calling(Next_op[2], Operands, FALSE)
  /\ Unmoved /\ UNCHANGED <<saved_v1, memory, mips>>

(* CibylCallTable.call(address, sp, a0, a1, a2, a3): the method's registers,  *)
(* and the place of the function in it for FNA                                *)
TableRegisters == <<SP, A0, A1, A2, A3>>
CallThroughTable ==
  /\ Is("calltable")
  /\ LET a == Operands[1][2]
         n == unit.entries[a][1]
         q == unit.methods[n]
         passes(r) == IF r = FNA THEN <<"I", unit.entries[a][2] - 1>>
                      ELSE Operands[1 + CHOOSE k \in DOMAIN TableRegisters : TableRegisters[k] = r]
     IN /\ a \in SelectedPart(unit.parts, a).cases
        /\ Calling(n, [k \in DOMAIN q.pass |-> passes(q.pass[k])], TRUE)
  /\ Unmoved /\ UNCHANGED <<saved_v1, memory, mips>>

(* call returns an int, or with thread_safe a long.                           *)
Adapted(result) ==
  CASE ~ p.config.threadSafe -> IF result = <<>> THEN Int1(0) ELSE result
    [] p.config.threadSafe /\ Len(result) < 2 -> Long1(IF result = <<>> THEN 0 ELSE result[1][2])
    [] OTHER -> result

ReturnFrom ==
  /\ Is("ireturn") \/ Is("lreturn") \/ Is("return")
  /\ LET result == IF Top.viaTable THEN Adapted(Operands) ELSE Operands
         callers == Front(frames)
     IN frames' = IF callers = <<>> THEN <<>>
                  ELSE [callers EXCEPT ![Len(callers)].stack = @ \o result]
  /\ Unmoved /\ UNCHANGED <<saved_v1, memory, mips>>

Done == (stage = "panicked" \/ (stage = "running" /\ frames = <<>>)) /\ UNCHANGED vars

Next ==
  \/ Pass \/ Panic \/ Start
  \/ Instruct \/ Compute \/ LoadLocal \/ StoreLocal \/ Increment \/ GetStatic \/ PutStatic
  \/ StoreMemory \/ Branch \/ Switches \/ JumpSubroutine \/ ReturnSubroutine
  \/ InvokeMethod \/ CallThroughTable \/ ReturnFrom \/ Done

Spec == Init /\ [][Next]_vars

-------------------------------------------------------------------------------
(* Properties                                                                 *)

KnownWords(m) == {i \in MemoryWords : 4 * i .. 4 * i + 3 \subseteq m.knownBytes}

(* Wherever the translated code begins an instruction the MIPS program would  *)
(* execute the same one, with the same values in the registers and the memory *)
(* that the program may rely on; and it ends when the MIPS program does. What *)
(* delay slots, tail calls, pruned stores, colocation, the call table and the *)
(* emitted arithmetic do together must come to this.                          *)
InStep ==
  /\ Is("insn") =>
       /\ mips.pc = Next_op[2]
       /\ \A r \in (mips.known \ {HI, LO}) \cap DOMAIN Method.alloc :
            Top.locals[Method.alloc[r]] = <<"I", mips.regs[r]>>
       /\ \A i \in KnownWords(mips) : memory[i] = LoadedWord(mips.bytes, 4 * i)
  /\ (stage = "running" /\ frames = <<>>) => mips.pc = Halt

(* The code passes Java's verifier: every operation finds its operands, of    *)
(* their types, within the stack the method declares, labels are defined, and *)
(* no value is left on the stack when an instruction begins, unless it is the *)
(* argument of a system call.                                                 *)
StackFits ==
  Running =>
    /\ WellTyped(Next_op, Top.locals, Top.stack)
    /\ Len(Top.stack) <= Method.limit
    /\ Next_op[1] \in OneBranches \cup TwoBranches \cup {"goto", "jsr"} =>
         Next_op[2] \in DOMAIN Method.labels
    /\ (Is("insn") /\ Encoded(p, Next_op[2])[1] \notin {"regarg", "syscall"}) => Top.stack = <<>>

(* Whatever order and sizes the symbol table gives, the functions are read in *)
(* the order of their addresses and divide the text from the first one on:    *)
(* each address belongs to the functions of one address. Assemblers leave     *)
(* sizes out and linkers leave gaps, and an address without a function would  *)
(* have no method.                                                            *)
FunctionsDivideText ==
  stage = "read" =>
    LET fns == unit.functions
        has(k, a) == fns[k].addr <= a /\ a < fns[k].addr + fns[k].size
    IN /\ \A k \in 2 .. Len(fns) : fns[k - 1].addr <= fns[k].addr
       /\ \A a \in {Address(i) : i \in IndexOf(fns[1].addr) .. Len(unit.text)} :
            Cardinality({fns[k].addr : k \in {k \in DOMAIN fns : has(k, a)}}) = 1

(* Where the debug information is taken to tell how many arguments a function *)
(* takes and how many words it returns, that is what the calling convention   *)
(* passes for the types the function has in C. Otherwise a register with an   *)
(* argument would not reach the method, or a result would be dropped.         *)
SignaturesTrue ==
  stage = "read" =>
    \A f \in Range(unit.functions) :
      LET signature == unit.signatures[f.addr]
      IN /\ f.n_args \in {Unknown, ArgumentWords(signature)}
         /\ f.ret_size \in {Unknown, ResultWords(signature)}

(* Every address of a function that is kept leads to that function, through   *)
(* the classes and methods (a search by address, and a scan of the methods    *)
(* behind the sorted ones) and from the call table through the part that its  *)
(* address selects.                                                           *)
AddressesOwned ==
  /\ stage = "laid out" =>
       \A f \in Range(unit.functions) :
         \A a \in f.address .. f.address + f.size :
           /\ HasMethod(unit.classes, a)
           /\ FunctionAt(unit.classes, a).address = f.address
  /\ stage = "translated" =>
       \A a \in DOMAIN unit.entries : a \in SelectedPart(unit.parts, a).cases
=============================================================================

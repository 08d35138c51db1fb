------------------------------ MODULE MethodCode -------------------------------
(***************************************************************************)
(* The two passes over the methods of a layout (see Methods). pass1 turns  *)
(* tail calls into calls, prunes saved registers and counts registers;     *)
(* pass2 gives the registers their locals and emits the code of a method:  *)
(* a sequence of operations, with <<"label", l>> where a label is and      *)
(* <<"insn", a>>, the comment in front of each instruction.                *)
(***************************************************************************)
EXTENDS Methods, ElfFile

Builtins == [__divdi3 |-> "ldiv", __moddi3 |-> "lrem", __ashrdi3 |-> "lshr", __ashldi3 |-> "lshl"]
IsBuiltin(m) == m.name \in DOMAIN Builtins

JumpTarget(i) == i.extra * 4
BranchTarget(i, k) == Address(k) + 4 + i.extra * 4

-------------------------------------------------------------------------------
(* pass1                                                                      *)

(* j to another method becomes a call and a return.                           *)
TailCallJump(lay, k) ==
  LET s == lay.slots[k]
  IN IF /\ s.insn.op = "j"
        /\ getMethodByAddress(lay.classes, Address(k))
             # getMethodByAddress(lay.classes, JumpTarget(s.insn))
     THEN [s EXCEPT !.insn.op = "jalreturn"] ELSE s

BranchTargets(lay) ==
  LET jumps == {k \in DOMAIN lay.slots : TailCallJump(lay, k).insn.op = "j"}
      branches == {k \in DOMAIN lay.slots : lay.slots[k].insn.op \in ConditionalJumps}
  IN {JumpTarget(lay.slots[k].insn) : k \in jumps}
       \cup {BranchTarget(lay.slots[k].insn, k) : k \in branches}

(* jal between functions of one method                                        *)
IsLocalCall(lay, m, insn) ==
  /\ insn.op = "jal" /\ hasMultipleFunctions(m)
  /\ getMethodByAddress(lay.classes, JumpTarget(insn)) = m

CallDestinations(lay, m, insn) ==
  IF insn.op \in {"jal", "jalreturn"}
     /\ IsBuiltin(getMethodByAddress(lay.classes, JumpTarget(insn)))
  THEN <<V0, V1>>
  ELSE IF IsLocalCall(lay, m, insn) THEN <<RA>> ELSE <<>>
CallSources(lay, insn) ==
  IF insn.op \in {"jal", "jalreturn"}
     /\ IsBuiltin(getMethodByAddress(lay.classes, JumpTarget(insn)))
  THEN <<A0, A1, A2, A3>> ELSE <<>>

(* Stores of s registers in the first block and loads of them in the last are *)
(* dropped: every Java frame has its own. A store is kept when the block has  *)
(* written the register before it.                                            *)
WrittenBefore(lay, c, block, k, r) ==
  \E j \in block.first .. k - 1 :
    \/ r \in Range(fillDestinations(lay.slots[j].insn, c))
    \/ r \in Range(fillDestinations(lay.slots[j].delayed, c))

Pruned(lay, c, block, k) ==
  LET s == TailCallJump(lay, k)
      i == s.insn
      prunes == /\ c.config.pruneStackStores /\ i.rs = SP
                /\ \/ /\ block.type = "prologue" /\ i.op = "sw"
                      /\ Range(fillSources(i)) \cap Saved # {}
                      /\ ~ WrittenBefore(lay, c, block, k, i.rt)
                   \/ /\ block.type = "epilogue" /\ i.op = "lw"
                      /\ Range(fillDestinations(i, c)) \cap Saved # {}
  IN IF prunes THEN [s EXCEPT !.insn = Nop] ELSE s

(* The slots of a method after pass1, by their indices                        *)
MethodSlots(lay, c, m) ==
  LET blocks == UNION {Range(m.functions[n].blocks) : n \in DOMAIN m.functions}
      of(k) == CHOOSE b \in blocks : b.first <= k /\ k < b.end
  IN [k \in UNION {b.first .. b.end - 1 : b \in blocks} |-> Pruned(lay, c, of(k), k)]

RegisterUsage(lay, c, m, slots) ==
  LET of(i) == fillDestinations(i, c) \o CallDestinations(lay, m, i)
                 \o fillSources(i) \o CallSources(lay, i)
      indices == Ascending(DOMAIN slots)
      uses == Concat([n \in DOMAIN indices |->
                        of(slots[indices[n]].insn) \o of(slots[indices[n]].delayed)])
      first(r) == (IF \E n \in DOMAIN m.functions : m.functions[n].start /\
                        r \in {SP, A0, A1, A2, A3, V0, V1} THEN 1 ELSE 0)
                    + (IF r = FNA /\ hasMultipleFunctions(m) THEN 1 ELSE 0)
  IN [r \in Registers |-> first(r) + Len(SelectSeq(uses, LAMBDA u : u = r))]

(* optimize_function_return_arguments: the symbol at the method's address     *)
(* may know how many arguments it takes and how many words it returns.        *)
SymbolAt(p, m) == getSymbolByAddr(p.functions, m.address)
PossibleArguments(p, m) ==
  LET all == <<SP, FNA, A0, A1, A2, A3>>
      n == SymbolAt(p, m).n_args
  IN IF p.config.returnArguments /\ n \in 0 .. 3 THEN SubSeq(all, 1, 2 + n) ELSE all
ReturnSize(p, m, usage) ==
  LET size == SymbolAt(p, m).ret_size
  IN CASE p.config.returnArguments /\ size # Unknown -> size
       [] (~ p.config.returnArguments \/ size = Unknown) /\ usage[V0] > 0 ->
            IF usage[V1] > 0 THEN 2 ELSE 1
       [] OTHER -> 0

(* What pass1 leaves in a method                                              *)
StackHeight(slots) ==
  LET height(k) == LET d == MaxStackHeight(slots[k].delayed, 0)
                       h == IF hasDelaySlot(slots[k].insn) THEN d ELSE 0
                   IN {MaxStackHeight(slots[k].insn, h), h}
  IN Max(UNION {height(k) : k \in DOMAIN slots} \cup {0})
PassedWith(p, m, c, slots, usage) ==
  [method |-> m, context |-> c, slots |-> slots, usage |-> usage, height |-> StackHeight(slots),
   possible |-> PossibleArguments(p, m),
   pass |-> SelectSeq(PossibleArguments(p, m), LAMBDA r : usage[r] > 0),
   returns |-> ReturnSize(p, m, usage)]
PassedSlots(p, lay, m, c, slots) == PassedWith(p, m, c, slots, RegisterUsage(lay, c, m, slots))
Passed(p, lay, m) ==
  LET c == [config |-> p.config, multi |-> hasMultipleFunctions(m), bcSize |-> m.bcSize,
            usesHi |-> opcodeIsUsed(m, "mfhi") \/ opcodeIsUsed(m, "mthi")]
  IN PassedSlots(p, lay, m, c, MethodSlots(lay, c, m))

AllMethods(lay) == Concat([c \in DOMAIN lay.classes |-> lay.classes[c].methods])
PassedMethods(p, lay) ==
  LET ms == AllMethods(lay) IN [k \in DOMAIN ms |-> Passed(p, lay, ms[k])]
MethodNumber(passed, lay, a) ==
  CHOOSE k \in DOMAIN passed : passed[k].method = getMethodByAddress(lay.classes, a)

-------------------------------------------------------------------------------
(* pass2: sp, FNA and the arguments first, then by decreasing usage           *)

setAllocation(usage) ==
  LET used == {r \in Registers : usage[r] > 0}
      initial == <<SP, FNA, A0, A1, A2, A3>>
      place(r) == IF r \in Range(initial) THEN CHOOSE n \in DOMAIN initial : initial[n] = r ELSE 7
      before(q, r) == \/ place(q) < place(r)
                      \/ place(q) = place(r) /\ usage[q] > usage[r]
                      \/ place(q) = place(r) /\ usage[q] = usage[r] /\ q < r
  IN [r \in Registers |-> IF r \in used THEN Cardinality({q \in used : before(q, r)}) ELSE -1]

Label(l) == <<<<"label", l>>>>
Goto(l) == <<<<"goto", l>>>>
At(a) == <<"L", a>>
Return == <<"return">>

(* The words a method returned become v0 and v1.                              *)
PopResult(size, c) ==
  CASE size = 2 /\ c.config.threadSafe -> PopLong(V1, V0, c)
    [] size = 2 /\ ~ c.config.threadSafe ->
         <<<<"getstatic", "saved_v1">>>> \o PopRegister(V1, c) \o PopRegister(V0, c)
    [] size = 1 -> PopRegister(V0, c)
    [] OTHER -> <<>>

Push64(low, high, c) ==
  PushRegister(low, c) \o Op("i2l") \o PushRegister(high, c) \o Op("i2l")
    \o Const(WordBits) \o Op("lshl") \o Op("lor")
BuiltinCode(name, c) ==
  Push64(A1, A0, c)
    \o (IF Builtins[name] \in {"lshr", "lshl"} THEN PushRegister(A2, c) ELSE Push64(A3, A2, c))
    \o Op(Builtins[name]) \o PopLong(V0, V1, c)

(* Return locations of local calls, in the order in which they are emitted;   *)
(* the place in this sequence, from 0, is the value ra gets.                  *)
ReturnLocations(lay, q) ==
  LET local(k) == IsLocalCall(lay, q.method, q.slots[k].insn)
      inFunction(f) == Ascending({k \in DOMAIN q.slots : local(k) /\ InFunction(f, Address(k))})
      all == Concat([n \in DOMAIN q.method.functions |-> inFunction(q.method.functions[n])])
  IN [n \in DOMAIN all |-> Address(all[n]) + 8]

Invoke(lay, passed, n, dst, c) ==
  LET q == passed[n]
      push(r) == IF r = FNA THEN Const(getFunctionIndexByAddress(q.method, dst) - 1)
                 ELSE PushRegister(r, c)
  IN Concat([k \in DOMAIN q.pass |-> push(q.pass[k])])
       \o <<<<"invoke", n, Len(q.pass)>>>> \o PopResult(q.returns, c)

Jal(lay, passed, q, k, c) ==
  LET insn == q.slots[k].insn
      dst == JumpTarget(insn)
      handle == CHOOSE n \in DOMAIN ReturnLocations(lay, q) :
                  ReturnLocations(lay, q)[n] = Address(k) + 8
  IN c.straight[q.slots[k].delayed] \o
     CASE IsBuiltin(getMethodByAddress(lay.classes, dst)) ->
            BuiltinCode(getMethodByAddress(lay.classes, dst).name, c)
       [] IsLocalCall(lay, q.method, insn) ->
            Const(handle - 1) \o PopRegister(RA, c) \o Goto(At(dst))
       [] OTHER -> Invoke(lay, passed, MethodNumber(passed, lay, dst), dst, c)

(* The address and six registers go to CibylCallTable.call.                   *)
Jalr(q, k, c) ==
  PushRegister(q.slots[k].insn.rs, c) \o c.straight[q.slots[k].delayed]
    \o PushRegister(SP, c) \o PushRegister(A0, c) \o PushRegister(A1, c)
    \o PushRegister(A2, c) \o PushRegister(A3, c) \o <<<<"calltable">>>> \o PopResult(2, c)

Jr(q, k, c) ==
  LET insn == q.slots[k].insn
      delayed == c.straight[q.slots[k].delayed]
  IN IF isReturnJump(insn) THEN delayed \o Goto(Return)
     ELSE PushRegister(insn.rs, c) \o delayed \o Goto(<<"jumptab">>)

ConditionalJump(q, k, c) ==
  LET insn == q.slots[k].insn
      target == At(BranchTarget(insn, k))
      delayed == c.straight[q.slots[k].delayed]
  IN IF insn.op \in DOMAIN TwoRegisterJumps
     THEN PushRegister(insn.rs, c) \o PushRegister(insn.rt, c) \o delayed
            \o <<<<TwoRegisterJumps[insn.op], target>>>>
     ELSE PushRegister(insn.rs, c) \o delayed \o <<<<OneRegisterJumps[insn.op], target>>>>

Emitted(lay, passed, q, k, c) ==
  LET s == q.slots[k]
  IN CASE s.insn.op = "jal" -> Jal(lay, passed, q, k, c)
       [] s.insn.op = "jalreturn" -> Jal(lay, passed, q, k, c) \o Goto(Return)
       [] s.insn.op = "jalr" -> Jalr(q, k, c)
       [] s.insn.op = "j" -> c.straight[s.delayed] \o Goto(At(JumpTarget(s.insn)))
       [] s.insn.op = "jr" -> Jr(q, k, c)
       [] s.insn.op \in ConditionalJumps -> ConditionalJump(q, k, c)
       [] OTHER -> c.straight[s.insn]

(* One slot of a basic block. A delay slot that is a label of a jump table is *)
(* emitted again under its label, and the code before it jumps over that.     *)
SlotCode(lay, passed, q, k, c, targets) ==
  LET s == q.slots[k]
      a == Address(k)
  IN (IF a \in targets \cup lay.labels /\ s.insn # DelaySlotNop THEN Label(At(a)) ELSE <<>>)
       \o (IF isNop(s.insn) THEN <<>> ELSE <<<<"insn", a>>>>)
       \o Emitted(lay, passed, q, k, c)
       \o IF hasDelaySlot(s.insn) /\ a + 4 \in lay.labels
          THEN Goto(<<"out", a + 4>>) \o Label(At(a + 4)) \o c.straight[s.delayed]
                 \o Label(<<"out", a + 4>>)
          ELSE <<>>

(* Every register that is not an argument gets a value.                       *)
Cleared(q, c) ==
  LET regs == Ascending({r \in Registers : q.usage[r] > 0 /\ r \notin Range(q.possible)})
      value(r) == CASE r = RA /\ hasMultipleFunctions(q.method) -> Const(-1)
                    [] r = MEM -> <<<<"getstatic", "memory">>>>
                    [] OTHER -> Const(0)
  IN Concat([n \in DOMAIN regs |-> value(regs[n]) \o PopRegister(regs[n], c)])

(* lb, lh and so on as subroutines: the address is on the stack, and above it *)
(* where to return to.                                                        *)
Subroutine(op, c) ==
  Label(<<"read", LoadOps[op]>>) \o <<<<"astore", c.alloc[MADR]>>>>
    \o Op("dup") \o PushRegister(MEM, c) \o Op("swap") \o Const(2) \o Op("iushr") \o Op("iaload")
    \o Op("swap") \o Const(AndValue(op)) \o Op("iand") \o Const(AndValue(op)) \o Op("swap")
    \o Op("isub") \o Const(Log2ByteBits) \o Op("ishl") \o Op("iushr") \o Extracted(op)
    \o <<<<"ret", c.alloc[MADR]>>>>
Subroutines(q, c) ==
  LET ops == SelectSeq(<<"lb", "lbu", "lh", "lhu">>, LAMBDA op : opcodeIsUsed(q.method, op))
  IN IF ~ c.config.partialMemoryOps THEN <<>>
     ELSE Goto(<<"begin">>) \o Concat([n \in DOMAIN ops |-> Subroutine(ops[n], c)])

Switch(name, labels, otherwise) == <<<<name, labels, otherwise>>>>

ReturnCode(lay, q, c) ==
  LET locations == ReturnLocations(lay, q)
      local == IF hasMultipleFunctions(q.method) /\ locations # <<>>
               THEN PushRegister(RA, c)
                      \o Switch("tableswitch", [n \in DOMAIN locations |-> At(locations[n])],
                                <<"nonlocal">>) \o Label(<<"nonlocal">>)
               ELSE <<>>
      values == CASE q.returns = 2 /\ c.config.threadSafe ->
                       PushRegister(V1, c) \o Op("i2l") \o Const(WordBits) \o Op("lshl")
                         \o PushRegister(V0, c) \o Op("i2l") \o Op("lor") \o Op("lreturn")
                  [] q.returns = 2 /\ ~ c.config.threadSafe ->
                       PushRegister(V1, c) \o <<<<"putstatic", "saved_v1">>>>
                         \o PushRegister(V0, c) \o Op("ireturn")
                  [] q.returns = 1 -> PushRegister(V0, c) \o Op("ireturn")
                  [] OTHER -> Op("return")
  IN Label(Return) \o local \o values

MethodBody(lay, passed, q, c) ==
  LET fns == q.method.functions
      multi == hasMultipleFunctions(q.method)
      targets == BranchTargets(lay) \cup Range(ReturnLocations(lay, q))
      block(b) == Concat([j \in 1 .. b.end - b.first |->
                            SlotCode(lay, passed, q, b.first + j - 1, c, targets)])
      function(f) == (IF multi THEN Label(At(f.address)) ELSE <<>>)
                       \o Concat([b \in DOMAIN f.blocks |-> block(f.blocks[b])])
      entries == [f \in DOMAIN fns |-> At(fns[f].address)]
      labels == Ascending({a \in lay.labels : getFunctionIndexByAddress(q.method, a) # 0})
  IN Cleared(q, c) \o Subroutines(q, c) \o Label(<<"begin">>)
       \o (IF multi THEN PushRegister(FNA, c) \o Switch("tableswitch", entries, Return) ELSE <<>>)
       \o Concat([f \in DOMAIN fns |-> function(fns[f])])
       \o (IF \E f \in DOMAIN fns : fns[f].indirect
           THEN Goto(Return) \o Label(<<"jumptab">>)
                  \o Switch("lookupswitch", [l \in DOMAIN labels |-> At(labels[l])], Return)
           ELSE <<>>)
       \o ReturnCode(lay, q, c)

(* What pass2 needs to know of a method, with the code of the instructions   *)
(* that are no branches                                                       *)
Allocated(q) == [alloc |-> setAllocation(q.usage)] @@ q.context
Coded(q, c) ==
  LET instructions == UNION {{q.slots[k].insn, q.slots[k].delayed} : k \in DOMAIN q.slots}
  IN [straight |-> [i \in {i \in instructions : ~ hasDelaySlot(i)} |-> Straight(i, c)]] @@ c
MethodCode(lay, passed, n) ==
  MethodBody(lay, passed, passed[n], Coded(passed[n], Allocated(passed[n])))

(* A translated method: its code, and what calling and running it takes       *)
Translated(lay, passed, n) ==
  LET q == passed[n]
  IN [code |-> MethodCode(lay, passed, n), limit |-> q.height + 2,
      pass |-> q.pass, returns |-> q.returns, alloc |-> setAllocation(q.usage),
      multi |-> hasMultipleFunctions(q.method)]

-------------------------------------------------------------------------------
(* CibylCallTable: the functions with a case in the method that an address is *)
(* sent to by call_table_hierarchy or call_table_classes                      *)

CallTableMethods(p, lay) ==
  LET n == Len(lay.table)
      parts == IF p.config.callTableHierarchy > 1 THEN p.config.callTableHierarchy
               ELSE p.config.callTableClasses
      per == n \div parts
      last == IF p.config.callTableHierarchy > 1 THEN n ELSE parts * per
      bound(k) == IF p.config.callTableHierarchy > 1
                  THEN getMethodByAddress(lay.classes, lay.table[k].address).address
                  ELSE lay.table[k].address
  IN [i \in 1 .. parts |->
        [from |-> IF parts = 1 THEN 0 ELSE bound((i - 1) * per + 1),
         to |-> IF i = parts THEN 0 ELSE bound(i * per + 1),
         cases |-> {lay.table[k].address :
                      k \in (i - 1) * per + 1 .. IF i = parts THEN last ELSE i * per}]]

(* The part that call selects: the first whose range holds it, or the last    *)
SelectedPart(parts, a) ==
  LET holding == {i \in DOMAIN parts : i < Len(parts) /\ parts[i].from <= a /\ a < parts[i].to}
  IN parts[IF holding = {} THEN Len(parts) ELSE Min(holding)]
===============================================================================

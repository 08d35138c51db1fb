------------------------------- MODULE Methods ---------------------------------
(***************************************************************************)
(* How the translator divides a program (controller.cc): instructions with *)
(* their delay slots, basic blocks, functions, Java methods, classes, the  *)
(* call table, and the lookups from addresses to them. A program p has     *)
(* what was read from its ELF file - text (encodings), functions, words of *)
(* data, relocations - and its colocations and config, which the settings  *)
(* of the command line make.                                               *)
(***************************************************************************)
EXTENDS Instructions, FiniteSets, SequencesExt

CONSTANT TextBase                  (* ELF entry point, where .text begins    *)
ASSUME TextBaseAssumption == TextBase \in Nat /\ TextBase % 4 = 0

Address(i) == TextBase + 4 * (i - 1)
IndexOf(a) == ((a - TextBase) \div 4) + 1
TextSize(p) == 4 * Len(p.text)

Sum(s) == FoldSeq(LAMBDA x, y : x + y, 0, s)
Concat(ss) == FlattenSeq(ss)
Ascending(S) ==
  SelectSeq([k \in 1 .. Max(S \cup {0}) |-> k], LAMBDA x : x \in S)

-------------------------------------------------------------------------------
(* Settings: a key with a number as its value, or with the names of functions *)
(* to colocate. The last one of a key counts.                                 *)

Config ==
  [threadSafe |-> FALSE, inlines |-> TRUE, pruneCallTable |-> FALSE, partialMemoryOps |-> FALSE,
   pruneStackStores |-> FALSE, returnArguments |-> FALSE, pruneUnused |-> TRUE,
   classSizeLimit |-> 16384, callTableHierarchy |-> 1, callTableClasses |-> 1]
Switchable ==
  [thread_safe |-> "threadSafe", prune_call_table |-> "pruneCallTable",
   optimize_partial_memory_operations |-> "partialMemoryOps",
   optimize_prune_stack_stores |-> "pruneStackStores",
   optimize_function_return_arguments |-> "returnArguments",
   prune_unused_functions |-> "pruneUnused"]
Numeric ==
  [class_size_limit |-> "classSizeLimit", call_table_hierarchy |-> "callTableHierarchy",
   call_table_classes |-> "callTableClasses"]
(* Those that change nothing here                                             *)
Other == {"colocate_functions", "package_name", "trace_start", "trace_end", "trace_stores"}

Configured(config, setting) ==
  CASE setting.key \in DOMAIN Switchable -> [config EXCEPT ![Switchable[setting.key]] = setting.value # 0]
    [] setting.key \in DOMAIN Numeric -> [config EXCEPT ![Numeric[setting.key]] = setting.value]
    [] setting.key \in Other -> config
parse_config(settings) == FoldLeft(Configured, Config, settings)

UnknownKey(settings) ==
  \E k \in DOMAIN settings :
    settings[k].key \notin DOMAIN Switchable \cup DOMAIN Numeric \cup Other
Colocations(settings) ==
  LET colocating == SelectSeq(settings, LAMBDA s : s.key = "colocate_functions")
  IN [k \in DOMAIN colocating |-> colocating[k].names]

-------------------------------------------------------------------------------
(* Instructions: a slot holds an instruction and the one in its delay slot,   *)
(* whose own place is taken by a DelaySlotNop.                                *)

Slots(p) ==
  LET insn[i \in 1 .. Len(p.text)] ==
        IF i > 1 /\ hasDelaySlot(insn[i - 1]) THEN DelaySlotNop ELSE Create(p.text[i])
  IN [i \in 1 .. Len(p.text) |->
        [insn |-> insn[i],
         delayed |-> IF hasDelaySlot(insn[i]) THEN Create(p.text[i + 1]) ELSE DelaySlotNop]]

(* Basic blocks of the instructions first .. end - 1: they end with a branch  *)
(* and its delay slot, unless the branch is the function's first instruction. *)
RECURSIVE BlocksFrom(_, _, _, _, _, _)
BlocksFrom(slots, function, end, i, first, type) ==
  LET insn == slots[i].insn
      kind == IF isReturnJump(insn) THEN "epilogue" ELSE type
      after == IF i + 1 < end THEN i + 2 ELSE i + 1
  IN CASE i >= end /\ first = end -> <<>>
       [] i >= end /\ first # end -> <<[type |-> "normal", first |-> first, end |-> end]>>
       [] i < end /\ isBranch(insn) /\ i # function ->
            <<[type |-> kind, first |-> first, end |-> after]>>
              \o BlocksFrom(slots, function, end, after, after, "normal")
       [] OTHER -> BlocksFrom(slots, function, end, i + 1, first, kind)

(* The last instruction, a delay slot, is not counted.                        *)
Function(p, slots, sym) ==
  LET first == IndexOf(sym.addr)
      end == first + (sym.size \div 4) - 1
      blocks == BlocksFrom(slots, first, end, first, first, "prologue")
      ops == {slots[i].insn.op : i \in first .. end - 1}
               \cup {slots[i].delayed.op : i \in first .. end - 1}
  IN [name |-> sym.name, address |-> sym.addr,
      size |-> Sum([b \in DOMAIN blocks |-> 4 * (blocks[b].end - blocks[b].first)]),
      blocks |-> blocks, ops |-> ops, start |-> sym.addr = TextBase,
      indirect |-> \E i \in first .. end - 1 : isRegisterIndirectJump(slots[i].insn),
      bcSize |-> Sum([k \in 1 .. end - first |->
                        LET s == slots[first + k - 1]
                        IN BytecodeSize(s.insn)
                             + IF hasDelaySlot(s.insn) THEN BytecodeSize(s.delayed) ELSE 0])]

(* Global functions that no relocation names are pruned.                      *)
Functions(p, slots) ==
  LET kept(sym) == sym.addr = TextBase \/ ~ p.config.pruneUnused \/ sym.local \/ sym.relocated
      syms == SelectSeq(p.functions, kept)
  IN [k \in DOMAIN syms |-> Function(p, slots, syms[k])]

-------------------------------------------------------------------------------
(* Java methods: one per function, then one per colocation in the order of    *)
(* its names. A method's address is the highest of its functions'.            *)

JavaMethod(functions) ==
  [functions |-> functions, name |-> functions[1].name,
   address |-> Max({functions[k].address : k \in DOMAIN functions}),
   size |-> Sum([k \in DOMAIN functions |-> functions[k].size]),
   bcSize |-> Sum([k \in DOMAIN functions |-> functions[k].bcSize])]

hasMultipleFunctions(m) == Len(m.functions) > 1
opcodeIsUsed(m, op) == \E k \in DOMAIN m.functions : op \in m.functions[k].ops

(* Each name of a colocation must be found, by the first place of the last    *)
(* colocation that has it.                                                    *)
ColocationPanics(p, functions) ==
  \E k \in DOMAIN p.colocs : \/ p.colocs[k] = <<>>
    \/ \E n \in DOMAIN p.colocs[k] :
         LET name == p.colocs[k][n]
         IN \/ \A f \in Range(functions) : f.name # name
            \/ \E j \in k + 1 .. Len(p.colocs) : name \in Range(p.colocs[j])
            \/ \E i \in 1 .. n - 1 : p.colocs[k][i] = name

Colocated(p) == UNION {Range(p.colocs[k]) : k \in DOMAIN p.colocs}
MethodsOf(p, functions) ==
  LET alone == SelectSeq(functions, LAMBDA f : f.name \notin Colocated(p))
      named(name) == functions[Max({k \in DOMAIN functions : functions[k].name = name})]
  IN [k \in DOMAIN alone |-> JavaMethod(<<alone[k]>>)]
       \o [k \in DOMAIN p.colocs |->
             JavaMethod([n \in DOMAIN p.colocs[k] |-> named(p.colocs[k][n])])]

(* A function holds the addresses up to its last instruction; its size is     *)
(* that of all the others.                                                    *)
InFunction(f, a) == f.address <= a /\ a <= f.address + f.size
getFunctionIndexByAddress(m, a) ==
  IF \E k \in DOMAIN m.functions : InFunction(m.functions[k], a)
  THEN Min({k \in DOMAIN m.functions : InFunction(m.functions[k], a)})
  ELSE 0
getFunctionByAddress(m, a) == m.functions[getFunctionIndexByAddress(m, a)]

-------------------------------------------------------------------------------
(* Classes: methods until the size limit is reached; those with several       *)
(* functions are moved behind the others, which are sorted by address.        *)

RECURSIVE Separated(_, _, _)
Separated(ms, i, l) ==
  LET last == Max({k \in 1 .. l : k = 1 \/ ~ hasMultipleFunctions(ms[k])})
      swapped == IF hasMultipleFunctions(ms[i])
                 THEN [ms EXCEPT ![i] = ms[last], ![last] = ms[i]] ELSE ms
  IN IF last = 1 \/ i = last \/ i = Len(ms)
     THEN [methods |-> IF last = 1 \/ i = last THEN ms ELSE swapped, sorted |-> last]
     ELSE Separated(swapped, i + 1, last)

JavaClass(ms) ==
  LET s == Separated(ms, 1, Len(ms))
      byAddress(x, y) == x.address < y.address
  IN [methods |-> SortSeq(SubSeq(s.methods, 1, s.sorted), byAddress)
                    \o SubSeq(s.methods, s.sorted + 1, Len(ms)),
      sorted |-> s.sorted]

RECURSIVE allocateClasses(_, _)
allocateClasses(p, ms) ==
  LET size(k) == Sum([j \in 1 .. k |-> ms[j].bcSize])
      full == {k \in DOMAIN ms : size(k) >= p.config.classSizeLimit} \cup {Len(ms)}
      n == Min(full)
  IN IF ms = <<>> THEN <<>>
     ELSE <<JavaClass(SubSeq(ms, 1, n))>> \o allocateClasses(p, SubSeq(ms, n + 1, Len(ms)))

(* method_search_cmp, for a method with one function                          *)
InMethodBelow(m, a) == m.address <= a /\ a < m.address + m.size
InMethod(m, a) == m.address <= a /\ a <= m.address + m.size

(* bsearch by method_search_cmp, then the methods behind the sorted ones.     *)
(* 0: no method                                                               *)
getMethodIndex(class, a) ==
  LET ms == class.methods
      find[l \in 0 .. class.sorted, u \in 0 .. class.sorted] ==
        LET mid == (l + u) \div 2
            m == ms[mid + 1]
        IN CASE l >= u -> 0
             [] l < u /\ InMethod(m, a) -> mid + 1
             [] l < u /\ a < m.address -> find[l, mid]
             [] OTHER -> find[mid + 1, u]
      behind == {k \in class.sorted + 1 .. Len(ms) : getFunctionIndexByAddress(ms[k], a) # 0}
      found == find[0, class.sorted]
  IN IF found # 0 THEN found ELSE IF behind # {} THEN Min(behind) ELSE 0

HasMethod(classes, a) == \E c \in DOMAIN classes : getMethodIndex(classes[c], a) # 0
getMethodByAddress(classes, a) ==
  LET c == Min({k \in DOMAIN classes : getMethodIndex(classes[k], a) # 0})
  IN classes[c].methods[getMethodIndex(classes[c], a)]

-------------------------------------------------------------------------------
(* The functions of the call table, and the labels that jump tables use.      *)

FunctionAt(classes, a) == getFunctionByAddress(getMethodByAddress(classes, a), a)

(* Words of the data sections that are addresses in the text                  *)
CodePointers(p) ==
  {a \in Range(p.data) : TextBase <= a /\ a < TextBase + TextSize(p) /\ a % 4 = 0}

lookupDataAddresses(p, classes) ==
  {a \in CodePointers(p) : HasMethod(classes, a)}

(* hi16 and lo16 relocations are not matched: all those between the first and *)
(* the last of a method, whatever their kind, are paired with each other.     *)
InsnAt(slots, a) ==
  LET s == slots[IndexOf(a)]
  IN IF s.insn = DelaySlotNop THEN slots[IndexOf(a) - 1].delayed ELSE s.insn
HiLoAddress(hi, lo) ==
  LET base == hi.extra * 2^ImmBits
  IN CASE lo.op \in Loads \cup Stores \cup {"addi", "addiu", "ori", "xori"} -> base + lo.extra
       [] lo.op = "andi" -> 0
       [] OTHER -> base

HiLoAddresses(p, slots, class) ==
  LET rels == p.relocs
      of(m, type) == {r \in DOMAIN rels : /\ rels[r].type = type
                                          /\ getMethodIndex(class, rels[r].addr) = m}
      span(S) == Min(S) .. Max(S)
      insn(r) == InsnAt(slots, rels[r].addr)
  IN UNION {IF of(m, "hi16") = {} \/ of(m, "lo16") = {} THEN {}
            ELSE {Word(HiLoAddress(insn(h), insn(l))) :
                    h \in span(of(m, "hi16")), l \in span(of(m, "lo16"))}
            : m \in DOMAIN class.methods}

lookupRelocations(p, slots, classes) ==
  LET named == {p.relocs[r].value : r \in {r \in DOMAIN p.relocs :
                  \/ p.relocs[r].sym = "func" /\ p.relocs[r].type # "26"
                  \/ p.relocs[r].sym = "section" /\ p.relocs[r].type = "32"}}
      paired == UNION {HiLoAddresses(p, slots, classes[c]) : c \in DOMAIN classes}
  IN {FunctionAt(classes, a) : a \in {a \in named :
        HasMethod(classes, a) /\ FunctionAt(classes, a).address = a}}
     \cup {FunctionAt(classes, a) : a \in {a \in paired : a % 4 = 0 /\ HasMethod(classes, a)}}

(* addFunction keeps them sorted by address.                                  *)
CallTable(p, slots, functions, classes) ==
  LET labels == lookupDataAddresses(p, classes)
      fns == (IF p.config.pruneCallTable THEN {} ELSE Range(functions))
               \cup {FunctionAt(classes, a) : a \in
                       {a \in labels : FunctionAt(classes, a).address = a}}
               \cup lookupRelocations(p, slots, classes)
      addresses == Ascending({f.address : f \in fns})
  IN [k \in DOMAIN addresses |-> CHOOSE f \in fns : f.address = addresses[k]]

(* What pass0 and the lookups at the start of pass1 make of a program         *)
Layout(p) ==
  LET slots == Slots(p)
      functions == Functions(p, slots)
      classes == allocateClasses(p, MethodsOf(p, functions))
  IN [slots |-> slots, functions |-> functions, classes |-> classes,
      labels |-> lookupDataAddresses(p, classes),
      table |-> CallTable(p, slots, functions, classes)]
===============================================================================

--------------------------- MODULE MCTranslatedCode ----------------------------
(***************************************************************************)
(* Programs of up to 27 instructions for TranslatedCode, with bytes of two *)
(* bits: words of 8 bits and longs of 16, immediates of 4 bits, and 20     *)
(* bytes of memory in front of the text.                                   *)
(***************************************************************************)
EXTENDS TranslatedCode

T0 == 8  T1 == 9  T2 == 10  T3 == 11  T4 == 12  T5 == 13  T6 == 14  T7 == 15
S0 == 16 T8 == 24 T9 == 25

R(op, rd, rs, rt) == <<op, rs, rt, rd, 0>>
Sh(op, rd, rt, distance) == <<op, ZERO, rt, rd, distance>>
Im(op, rt, rs, imm) == <<op, rs, rt, ZERO, imm>>
Br(op, rs, rt, from, to) == <<op, rs, rt, ZERO, to - from - 1>>
Jump(op, n) == <<op, ZERO, ZERO, ZERO, Address(n) \div 4>>
JumpReg(op, rs) == <<op, rs, ZERO, ZERO, 0>>
Argument(r) == <<"regarg", ZERO, ZERO, ZERO, r>>
System(number, n, returns) == <<"syscall", n, ZERO, returns, number>>
NopWord == <<"nop", ZERO, ZERO, ZERO, 0>>
ReturnJump == JumpReg("jr", RA)

(* li: the value v in a register                                             *)
Li(r, v) == <<Im("lui", r, ZERO, Unsigned(v, WordBits) \div 16), Im("ori", r, r, v % 16)>>

(* Types, and what the compiler says of a function with a signature          *)
Base(size, encoding) == [tag |-> "base", size |-> size, encoding |-> encoding]
CInt == Base(4, "signed")
CLongLong == Base(8, "signed")
Derived(tag, size, type) == [tag |-> tag, size |-> size, of |-> type]
CStruct(size) == [tag |-> "structure", size |-> size]

Returning(words) == CASE words = 0 -> NoType [] words = 1 -> CInt [] words = 2 -> CLongLong
Taking(words) == [k \in 1 .. words |-> CInt]
OfWords(args, results) == [result |-> Returning(results), params |-> Taking(args), variadic |-> FALSE]

Child(tag, type) == [tag |-> tag, type |-> type]
Described(lowpc, signature) ==
  [tag |-> "subprogram", lowpc |-> lowpc, type |-> signature.result,
   children |-> [k \in DOMAIN signature.params |-> Child("formal_parameter", signature.params[k])]
                  \o <<Child("variable", CStruct(8))>>
                  \o (IF signature.variadic THEN <<Child("unspecified_parameters", NoType)>> ELSE <<>>)]

(* A function in the instructions first .. last, as its source, the assembler *)
(* and the compiler give it                                                   *)
Fn(name, first, last, args, results) ==
  [name |-> name, addr |-> Address(first), size |-> 4 * (last - first + 1), local |-> FALSE,
   relocated |-> TRUE, debug |-> TRUE, signature |-> OfWords(args, results)]

(* __start is written in assembler: no debug information                     *)
Start0(last) == [Fn("__start", 1, last, 4, 0) EXCEPT !.debug = FALSE]

Set(key, value) == <<[key |-> key, value |-> value]>>
Colocate(names) == [key |-> "colocate_functions", names |-> names]
Plain == Set("prune_unused_functions", 0) \o Set("prune_call_table", 1)
           \o Set("class_size_limit", 100000)

(* The symbol table begins with the sections and an object.                  *)
TextSymbol == 2
FunctionSymbol(k) == k + 4
SymbolEntry(type, name, binding, value, size) ==
  [type |-> type, name |-> name, binding |-> binding, value |-> value, size |-> size]
SymbolTable(functions) ==
  <<SymbolEntry("notype", "", "local", 0, 0), SymbolEntry("section", ".text", "local", TextBase, 0),
    SymbolEntry("section", ".data", "local", 0, 0), SymbolEntry("object", "data", "global", 0, 4)>>
    \o [k \in DOMAIN functions |->
          SymbolEntry("func", functions[k].name, IF functions[k].local THEN "local" ELSE "global",
                      functions[k].addr, functions[k].size)]

(* Each function that is referred to has a relocation; the data may have its. *)
Elf(text, functions, data, relocs) ==
  LET section(name, addr, words) == [name |-> name, addr |-> addr, words |-> words]
      called == SelectSeq([k \in DOMAIN functions |-> k], LAMBDA k : functions[k].relocated)
      known == SelectSeq(functions, LAMBDA f : f.debug)
  IN [entry |-> TextBase, flags |-> "o32",
      sections |-> <<section(".text", TextBase, text), section(".data", 0, data),
                     section(".cibylstrtab", 0, <<>>)>>,
      symtab |-> SymbolTable(functions),
      rels |-> <<[section |-> ".text", entries |-> relocs \o [k \in DOMAIN called |->
                    [type |-> "26", offset |-> TextBase, sym |-> FunctionSymbol(called[k])]]]>>,
      dwarf |-> <<<<[tag |-> "variable", lowpc |-> 0]>>,
                  [k \in DOMAIN known |-> Described(known[k].addr, known[k].signature)]>>]

Program(text, functions, data, relocs, colocs, settings) ==
  [file |-> Elf(text, functions, data, relocs), inlineLimit |-> 32768,
   settings |-> [k \in DOMAIN colocs |-> Colocate(colocs[k])] \o settings,
   signatures |-> [a \in {functions[k].addr : k \in DOMAIN functions} |->
                     functions[CHOOSE k \in DOMAIN functions : functions[k].addr = a].signature]]
Alone(text, data, settings) ==
  Program(text, <<Start0(Len(text))>>, data, <<>>, <<>>, settings)
Ending == <<ReturnJump, NopWord>>

-------------------------------------------------------------------------------
(* Arithmetic, on every pair of values                                       *)

RegisterText(a, b) == Li(A0, a) \o Li(A1, b) \o
  <<R("add", T0, A0, A1), R("addu", T1, A0, A1), R("sub", T2, A0, A1), R("subu", T3, A0, A1),
    R("xor", T4, A0, A1), R("and", T5, A0, A1), R("or", T6, A0, A1), R("nor", T7, A0, A1),
    R("slt", T8, A0, A1), R("sltu", T9, A0, A1), R("sllv", V0, A0, A1), R("srav", V1, A0, A1),
    R("srlv", A2, A0, A1), R("sltu", A0, A0, A1)>> \o Ending
ZeroText(a) == Li(A0, a) \o
  <<R("addu", T0, A0, ZERO), R("addu", T1, ZERO, A0), R("addu", T2, ZERO, ZERO),
    R("subu", T3, ZERO, A0), R("subu", T4, A0, ZERO), R("nor", T5, ZERO, A0),
    R("nor", T6, A0, ZERO), R("nor", T7, ZERO, ZERO), R("slt", T8, ZERO, A0),
    R("sltu", T9, ZERO, A0), R("slt", V0, A0, ZERO), R("addu", ZERO, ZERO, ZERO),
    Sh("sll", ZERO, ZERO, 0), R("sltu", V1, A0, ZERO)>> \o Ending
ImmediateText(a) == Li(A0, a) \o
  <<Im("addi", T0, A0, -8), Im("addiu", T1, A0, 7), Im("addiu", A0, A0, -1),
    Im("addiu", A0, A0, 1), Im("addiu", T2, ZERO, -3), Im("xori", T3, A0, 15),
    Im("andi", T4, A0, 9), Im("ori", T5, A0, 8), Im("slti", T6, A0, -1), Im("slti", T7, A0, 3),
    Im("sltiu", T8, A0, -1), Im("sltiu", T9, A0, 3), Sh("sll", V0, A0, 0), Sh("sll", V1, A0, 7),
    Sh("sra", A1, A0, 7), Sh("sra", A2, A0, 3), Sh("srl", A3, A0, 1), Sh("srl", S0, A0, 7),
    Im("lui", T0, ZERO, 9)>> \o Ending
ProductText(a, b) == Li(A0, a) \o Li(A1, b) \o
  <<R("mult", ZERO, A0, A1), R("mflo", T0, ZERO, ZERO), R("mfhi", T1, ZERO, ZERO),
    R("multu", ZERO, A0, A1), R("mflo", T2, ZERO, ZERO), R("mfhi", T3, ZERO, ZERO)>>
  \o (IF b = 0 THEN <<>> ELSE
      <<R("div", ZERO, A0, A1), R("mflo", T4, ZERO, ZERO), R("mfhi", T5, ZERO, ZERO),
        R("divu", ZERO, A0, A1), R("mflo", T6, ZERO, ZERO), R("mfhi", T7, ZERO, ZERO)>>) \o Ending
LowText(a, b) == Li(A0, a) \o Li(A1, b) \o
  <<R("mult", ZERO, A0, A1), R("mflo", T0, ZERO, ZERO),
    R("divu", ZERO, A1, A0), R("mflo", T1, ZERO, ZERO),
    R("div", ZERO, A1, A0), R("mflo", T2, ZERO, ZERO)>> \o Ending

(* Bytes and halves, at every place of a word                                *)
LoadText == <<Im("addiu", A0, ZERO, 2),
    Im("lb", T0, A0, -2), Im("lb", T1, A0, -1), Im("lb", T2, A0, 0), Im("lb", T3, A0, 1),
    Im("lbu", T4, A0, -2), Im("lbu", T5, A0, 3), Im("lh", T6, A0, -2), Im("lh", T7, A0, 0),
    Im("lhu", T8, A0, 2), Im("lhu", T9, A0, 4), Im("lw", V0, A0, -2), Im("lw", V1, A0, 2),
    Im("lw", A1, ZERO, 4), Im("lb", A2, ZERO, 5), Im("lbu", A3, ZERO, 6)>> \o Ending
StoreText(v) == <<Im("addiu", A0, ZERO, 6)>> \o Li(A1, v) \o
  <<Im("sb", A1, A0, -6), Im("sb", A1, A0, -1), Im("sb", A1, A0, 1), Im("sb", A1, A0, 4),
    Im("sh", A1, A0, -4), Im("sh", A1, A0, 6), Im("sw", A1, A0, 6), Im("lw", T0, A0, -6),
    Im("lw", T1, ZERO, 4), Im("sw", ZERO, A0, -2), Im("lw", A0, A0, -2)>> \o Ending
UnalignedText(n) == <<Im("addiu", A0, ZERO, n),
    Im("lwl", T0, A0, 0), Im("lwr", T0, A0, 3), Im("swl", T0, A0, 1), Im("swr", T0, A0, 4),
    Im("lwl", T1, A0, 4), Im("lwr", T1, A0, 7), Im("lw", T2, ZERO, 4)>> \o Ending
Data == <<-115, 78, 27, -28>>

Partial == Plain \o Set("optimize_partial_memory_operations", 1)
MemoryPrograms(settings) ==
  <<Alone(LoadText, Data, settings), Alone(StoreText(-115), Data, settings),
    Alone(StoreText(78), Data, settings)>>
Limited(x) == [x EXCEPT !.inlineLimit = 60]

Edges == <<-128, -1, 0, 1, 5, 127>>
Each(P(_), seq) == [k \in DOMAIN seq |-> P(seq[k])]
EachPair(P(_, _), s, t) ==
  [k \in 1 .. Len(s) * Len(t) |-> P(s[((k - 1) \div Len(t)) + 1], t[((k - 1) % Len(t)) + 1])]

Arithmetic ==
     EachPair(LAMBDA a, b : Alone(RegisterText(a, b), <<>>, Plain), Edges, Edges)
  \o Each(LAMBDA a : Alone(ZeroText(a), <<>>, Plain), Edges)
  \o Each(LAMBDA a : Alone(ImmediateText(a), <<>>, Plain), Edges)
  \o EachPair(LAMBDA a, b : Alone(ProductText(a, b), <<>>, Plain), Edges, Edges)
  \o EachPair(LAMBDA a, b : Alone(LowText(a, b), <<>>, Plain), <<-128, -1, 5, 127>>, Edges)
  \o MemoryPrograms(Plain) \o MemoryPrograms(Partial) \o Each(Limited, MemoryPrograms(Plain))
  \o Each(LAMBDA n : Alone(UnalignedText(n), Data, Plain), <<0, 1, 2, 3>>)

-------------------------------------------------------------------------------
(* Branches with work in their delay slots: every condition taken and not    *)

ConditionText(a) == Li(A0, a) \o
  <<Br("bgez", A0, ZERO, 3, 5), Im("addiu", T0, T0, 1), Br("bgtz", A0, ZERO, 5, 8),
    R("xor", T1, T0, A0), Im("addiu", T1, ZERO, 3), Br("blez", A0, ZERO, 8, 10),
    Im("addiu", A0, A0, -1), Br("bltz", A0, ZERO, 10, 12), NopWord,
    Br("beq", A0, ZERO, 12, 14), Im("addiu", A0, A0, 1), Br("bne", A0, ZERO, 14, 17),
    Im("addiu", T2, A0, 1), R("addu", T3, ZERO, T2), Br("beq", A0, T2, 17, 19),
    Im("addiu", T2, ZERO, 5), Br("bne", A0, T2, 19, 21), Im("addiu", T2, T2, 1)>> \o Ending

LoopText ==
  <<Im("addiu", A0, ZERO, 3), R("addu", T0, ZERO, ZERO), R("addu", T0, T0, A0),
    Br("bne", A0, ZERO, 4, 3), Im("addiu", A0, A0, -1), Jump("j", 9), Im("sw", T0, ZERO, 4),
    Im("addiu", T0, ZERO, 7), Im("lw", T1, ZERO, 4), R("slt", T2, T0, T1),
    ReturnJump, Im("lw", V0, ZERO, 4)>>

(* A jump table: addresses in the data, one of them a delay slot             *)
JumpTableText ==
  <<Im("lw", T0, ZERO, 0), JumpReg("jr", T0), Im("addiu", T1, ZERO, 1),
    Im("addiu", T1, T1, 2), Br("beq", T1, ZERO, 5, 9), Im("addiu", T1, T1, 4),
    Im("addiu", T1, T1, 7), NopWord, Im("sw", T1, ZERO, 0)>> \o Ending
Cases(a, b, c) == <<Address(a), Address(b), Address(c)>>

(* A system call with two arguments, one without a result                    *)
SystemText ==
  <<Im("addiu", A0, ZERO, 5), Im("addiu", A1, ZERO, -2), Argument(A0), Argument(A1),
    System(7, 2, 1), R("addu", T0, V0, A1), Argument(V0), System(1, 1, 0), System(3, 0, 1)>> \o Ending

-------------------------------------------------------------------------------
(* Calls: start saves ra and s0 and calls f, which calls g                   *)

Entering == <<Im("addiu", SP, SP, -8), Im("sw", RA, SP, 4), Im("sw", S0, SP, 0)>>
Leaving == <<Im("lw", S0, SP, 0), Im("lw", RA, SP, 4), Im("addiu", SP, SP, 4),
             ReturnJump, Im("addiu", SP, SP, 4)>>
StartText == Entering
  \o <<Im("addiu", A0, ZERO, 5), Jump("jal", 14), Im("addiu", S0, A0, 1), R("addu", T0, V0, S0),
       Im("sw", T0, ZERO, 0)>> \o Leaving
CallText == StartText \o Entering
  \o <<R("addu", S0, A0, A0), Jump("jal", 26), Im("addiu", A0, A0, -1), R("addu", V0, V0, S0)>>
  \o Leaving \o <<ReturnJump, Im("sltiu", V0, A0, 3)>>
CallFunctions == <<Start0(13), Fn("f", 14, 25, 1, 1), Fn("g", 26, 27, 1, 1)>>

CallConfigs(limit) ==
  [k \in 1 .. 8 |->
     Plain \o Set("optimize_prune_stack_stores", k % 2) \o Set("thread_safe", (k \div 2) % 2)
       \o Set("optimize_function_return_arguments", (k \div 4) % 2)
       \o Set("class_size_limit", limit)]
CallColocations == <<<<>>, <<<<"f", "g">>>>, <<<<"g", "f">>>>>>

Calls2(c, l) == Program(CallText, CallFunctions, <<>>, <<>>, l, c)

(* f ends with a jump to g, with work in its delay slot.                     *)
TailText == StartText
  \o <<R("addu", A1, A0, A0), Jump("j", 17), Im("addiu", A0, A0, -1),
       R("subu", V0, A1, A0), ReturnJump, NopWord>>
TailFunctions == <<Start0(13), Fn("f", 14, 16, 1, 1), Fn("g", 17, 19, 2, 1)>>
TailProgram(l, c) == Program(TailText, TailFunctions, <<>>, <<>>, l, c)

(* Calls of functions with one, no and two words of result: through pointers *)
(* in the data, and through an address built by a hi16 and a lo16            *)
Callees == <<Im("addiu", V0, A0, 2), ReturnJump, NopWord,
             Im("sw", A0, ZERO, 0), ReturnJump, NopWord,
             Im("addiu", V0, A0, -1), ReturnJump, Im("addiu", V1, A0, -8)>>
CalleesFrom(n) == <<Fn("f", n, n + 2, 1, 1), Fn("g", n + 3, n + 5, 2, 0), Fn("h", n + 6, n + 8, 1, 2)>>

Using == <<JumpReg("jalr", T9), Im("addiu", S0, A0, 1), R("addu", T0, V0, S0), R("addu", T1, V0, V1),
           Im("sw", T0, ZERO, 4)>>
PointerText == Entering \o <<Im("addiu", A0, ZERO, 5), Im("lw", T9, ZERO, 0)>> \o Using \o Leaving
                 \o Callees
PointerFunctions == <<Start0(15)>> \o CalleesFrom(16)
Pointer(data, c) == Program(PointerText, PointerFunctions, data, <<>>, <<>>, c)

SymbolText(a) == Entering
  \o <<Im("addiu", A0, ZERO, 5), Im("lui", T9, ZERO, (a + 8) \div 16),
       Im("addiu", T9, T9, Signed(a, ImmBits))>> \o Using \o Leaving \o Callees
SymbolFunctions == <<Start0(16)>> \o CalleesFrom(17)
HiLo == <<[type |-> "lo16", offset |-> Address(6), sym |-> TextSymbol],
          [type |-> "hi16", offset |-> Address(5), sym |-> TextSymbol]>>
Symbol(n, c, l) == Program(SymbolText(Address(n)), SymbolFunctions, <<>>, HiLo, l, c)

(* The call table in one method, in several or in several classes: those are *)
(* not thread safe, and there are fewer methods than functions.              *)
TableConfigs ==
  LET safe == Plain \o Set("thread_safe", 1)
      arguments == Set("optimize_function_return_arguments", 1)
  IN <<Plain, safe, Plain \o arguments, safe \o arguments \o Set("class_size_limit", 1),
       Plain \o Set("call_table_hierarchy", 2), Plain \o Set("call_table_classes", 3),
       Plain \o Set("call_table_hierarchy", 3) \o Set("prune_call_table", 0)
         \o Set("class_size_limit", 1)>>

(* Direct calls of a function with two words of result                       *)
WideText == Entering
  \o <<Im("addiu", A0, ZERO, 5), Jump("jal", 21), Im("addiu", S0, A0, 1), R("addu", T0, V0, S0),
       R("addu", T1, V0, V1)>> \o Leaving \o <<NopWord>> \o Callees
Wide(c) == Program(WideText, <<Start0(14)>> \o CalleesFrom(15), <<>>, <<>>, <<>>, c)

(* The 64-bit functions: their lower words are not negative.                 *)
LongText(high, high2, low2, n) == Entering
  \o <<Im("addiu", A0, ZERO, high), Im("addiu", A1, ZERO, 7), Im("addiu", A2, ZERO, high2),
       Jump("jal", n), Im("addiu", A3, ZERO, low2), R("addu", T0, V0, V1)>> \o Leaving
  \o Ending \o Ending \o Ending \o Ending
LongFunctions ==
  <<Start0(14), Fn("__divdi3", 15, 16, 4, 2), Fn("__moddi3", 17, 18, 4, 2),
    Fn("__ashldi3", 19, 20, 3, 2), Fn("__ashrdi3", 21, 22, 3, 2)>>
LongProgram(high, n) ==
  Program(IF n < 19 THEN LongText(high, 0, 5, n) ELSE LongText(high, 3, 0, n), LongFunctions,
          <<>>, <<>>, <<>>, Plain)

(* Functions that nothing refers to                                          *)
Unreferenced(functions) ==
  [k \in DOMAIN functions |-> [functions[k] EXCEPT !.relocated = functions[k].name \in {"f"}]]
Pruning == Program(PointerText, Unreferenced(PointerFunctions), <<Address(16)>>, <<>>, <<>>,
                   Plain \o Set("prune_unused_functions", 1))

-------------------------------------------------------------------------------
(* What a file may say of the same text: symbols in another order, without    *)
(* sizes, with gaps behind them, with the same name, or two for an address    *)

WithSizes(functions, size(_)) ==
  [k \in DOMAIN functions |-> [functions[k] EXCEPT !.size = size(@)]]
Local(function, name) == [function EXCEPT !.name = name, !.local = TRUE, !.relocated = FALSE]
Alias(function) == [function EXCEPT !.name = "alias", !.relocated = FALSE, !.debug = FALSE]

FunctionTables ==
  <<Reverse(CallFunctions), WithSizes(CallFunctions, LAMBDA n : 0),
    Reverse(WithSizes(CallFunctions, LAMBDA n : n - 4)),
    [CallFunctions EXCEPT ![2] = Local(@, "f"), ![3] = Local(@, "f")],
    Append(CallFunctions, Alias(CallFunctions[2])), <<Alias(CallFunctions[3])>> \o CallFunctions>>
TableProgram(functions, c) == Program(CallText, functions, <<>>, <<>>, <<>>, c)

Kept == Plain \o Set("prune_call_table", 0) \o Set("optimize_function_return_arguments", 1)
FileConfigs ==
  <<Kept, Kept \o Set("prune_unused_functions", 1), Kept \o Set("class_size_limit", 1)>>

(* Signatures for g of TailText, of two words and a result of one            *)
Pointer32 == [tag |-> "pointer", size |-> Unknown]
Two(result, params, variadic) == [result |-> result, params |-> params, variadic |-> variadic]
TwoWords ==
  <<Two(CStruct(8), <<CInt>>, FALSE), Two(CInt, <<CInt>>, TRUE), Two(Pointer32, <<CLongLong>>, FALSE),
    Two(CInt, <<CStruct(8)>>, FALSE), Two(Base(1, "char"), <<Pointer32, Base(4, "float")>>, FALSE),
    Two(Derived("typedef", Unknown, Derived("const", Unknown, CInt)),
        <<Derived("enumeration", 4, NoType), Derived("subrange", Unknown, CInt)>>, FALSE),
    Two(Derived("typedef", Unknown, CStruct(4)), <<Derived("subrange", 2, CInt)>>, FALSE),
    Two(Derived("reference", Unknown, CInt), <<Derived("reference", Unknown, CInt), CInt>>, FALSE)>>
SignedTail(signature, c) ==
  Program(TailText, [TailFunctions EXCEPT ![3].signature = signature], <<>>, <<>>, <<>>, c)

(* Signatures for a function that needs no arguments and computes two words  *)
ResultTypes == <<NoType, Derived("typedef", Unknown, NoType), CInt, CLongLong, Base(8, "float"),
             Derived("array", 4, CInt), CStruct(0)>>
Constant(result) ==
  Program(<<Im("sw", RA, ZERO, 0), Jump("jal", 8), NopWord, R("addu", T0, V0, V0), Im("lw", RA, ZERO, 0)>>
            \o <<ReturnJump, NopWord>> \o <<Im("addiu", V0, ZERO, 3), ReturnJump, Im("addiu", V1, ZERO, 5)>>,
          <<Start0(7), [Fn("f", 8, 10, 0, 1) EXCEPT !.signature.result = result]>>,
          <<0>>, <<>>, <<>>, Kept)

(* Pointers in the data with their relocations, against the function or the  *)
(* text, and functions that only these name                                  *)
DataRelocs == [k \in 1 .. 3 |-> [type |-> "32", offset |-> 4 * (k - 1),
                                 sym |-> IF k = 1 THEN TextSymbol ELSE FunctionSymbol(k)]]
RelocatedPointers(x) == [x EXCEPT !.file.rels = @ \o
  <<[section |-> ".data", entries |-> DataRelocs], [section |-> ".pdr", entries |-> DataRelocs]>>]

(* Other ways to state the ABI, and none that is understood                  *)
Abi(x, flags, name) ==
  [x EXCEPT !.file.flags = flags, !.file.sections = Append(@, [name |-> name, addr |-> 0, words |-> <<>>])]
Abis(x) == <<Abi(x, None, ".mdebug.abi32"), Abi(x, None, ".comment"), Abi(x, "eabi32", ".comment")>>

(* Files and settings that the translator refuses                            *)
Colocating(x, colocs) == [x EXCEPT !.settings = [k \in DOMAIN colocs |-> Colocate(colocs[k])]]
RefusedOf(x) ==
  <<[x EXCEPT !.file.symtab = <<@[1]>>], [x EXCEPT !.file.dwarf = <<>>],
    [x EXCEPT !.file.sections = SubSeq(@, 1, 2)], [x EXCEPT !.settings = Set("threads", 1)],
    Colocating(x, <<<<"f", "missing">>>>), Colocating(x, <<<<"f", "g">>, <<"g">>>>),
    Colocating(x, <<<<"f", "f">>>>), Colocating(x, <<<<>>>>)>>

MCFiles ==
     EachPair(TableProgram, FunctionTables, FileConfigs)
  \o EachPair(SignedTail, TwoWords, CallConfigs(150))
  \o Each(Constant, ResultTypes)
  \o Each(RelocatedPointers, EachPair(Pointer, <<Cases(16, 19, 22)>>, FileConfigs))
  \o Abis(SignedTail(TwoWords[1], Kept)) \o RefusedOf(Calls2(Plain, <<>>))
  \o <<[Pruning EXCEPT !.settings = Append(@, Colocate(<<"f", "g">>))], Calls2(Set("trace_stores", 0), <<>>)>>

MCInputs ==
     Arithmetic \o MCFiles
  \o Each(LAMBDA a : Alone(ConditionText(a), <<>>, Plain), Edges)
  \o <<Alone(LoopText, <<>>, Plain), Alone(SystemText, <<>>, Plain), Pruning>>
  \o Each(LAMBDA data : Alone(JumpTableText, data, Plain),
          <<Cases(4, 6, 9), Cases(6, 9, 4), Cases(9, 4, 6)>>)
  \o Each(LAMBDA c : Calls2(c, <<>>), CallConfigs(1))
  \o EachPair(LAMBDA l, c : Calls2(c, l), CallColocations, CallConfigs(150))
  \o EachPair(TailProgram, <<<<>>, <<<<"g", "f">>>>>>, CallConfigs(150))
  \o EachPair(Pointer, <<Cases(16, 19, 22), Cases(19, 22, 16), Cases(22, 16, 19)>>, TableConfigs)
  \o EachPair(LAMBDA n, c : Symbol(n, c, <<<<"h", "f">>>>), <<17, 20, 23>>, CallConfigs(500))
  \o Each(Wide, CallConfigs(100))
  \o EachPair(LongProgram, <<0, -1, 6>>, <<15, 17, 19, 21>>)
===============================================================================

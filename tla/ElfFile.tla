------------------------------- MODULE ElfFile ---------------------------------
(***************************************************************************)
(* What the translator reads from the program's ELF file (elf.cc,          *)
(* mips-dwarf.c): symbols, the sizes and signatures of functions, and      *)
(* relocations. A file has its entry point, the ABI its flags state, its   *)
(* sections by name, the symbol table, relocations by the name of their    *)
(* section, and debug information: units of entries (DIEs), if it has any. *)
(***************************************************************************)
EXTENDS Integers, SequencesExt

None == "none"
Unknown == -1                      (* also a size that is not given              *)

HasSection(file, name) == \E k \in DOMAIN file.sections : file.sections[k].name = name
getSection(file, name) ==
  file.sections[Max({k \in DOMAIN file.sections : file.sections[k].name = name})]

-------------------------------------------------------------------------------
(* The symbol table: functions, data and sections are kept.                   *)

Interesting == {"func", "object", "common", "tls", "section"}
handleSymtab(file) ==
  LET symbols == [k \in DOMAIN file.symtab |->
        [index |-> k, name |-> file.symtab[k].name, type |-> file.symtab[k].type,
         local |-> file.symtab[k].binding = "local",
         addr |-> file.symtab[k].value, size |-> file.symtab[k].size]]
  IN SelectSeq(symbols, LAMBDA s : s.type \in Interesting)

(* Of several functions at an address, the last is the one that is found.     *)
getSymbolByAddr(functions, a) ==
  LET at == {s \in Range(functions) : s.addr = a}
  IN CHOOSE s \in at : \A t \in at : t.index <= s.index

(* Only sizes that are missing, for comparison                                *)
fixupSymbolSizeMissing(functions, sectionEnd) ==
  LET sorted == SortSeq(functions, LAMBDA s, t : s.addr < t.addr)
      next(k) == IF k = Len(sorted) THEN sectionEnd ELSE sorted[k + 1].addr
  IN [k \in DOMAIN sorted |->
        [sorted[k] EXCEPT !.size = IF @ = 0 THEN next(k) - sorted[k].addr ELSE @]]

(* By address; a gap behind a function belongs to it.                         *)
fixupSymbolSize(functions, sectionEnd) ==
  LET sorted == SortSeq(functions, LAMBDA s, t : s.addr < t.addr)
      next(k) == IF k = Len(sorted) THEN sectionEnd ELSE sorted[k + 1].addr
  IN [k \in DOMAIN sorted |->
        [sorted[k] EXCEPT !.size = IF sorted[k].addr + @ < next(k) THEN next(k) - sorted[k].addr
                                   ELSE @]]

-------------------------------------------------------------------------------
(* How a value of a type is passed (mips-dwarf.c). A type is a DIE with a     *)
(* tag, a size (DW_AT_byte_size, or Unknown), an encoding and the type it is     *)
(* made from.                                                                 *)

AbiSections ==
  [o32 |-> ".mdebug.abi32", n32 |-> ".mdebug.abiN32", n64 |-> ".mdebug.abi64",
   o64 |-> ".mdebug.abiO64", eabi32 |-> ".mdebug.eabi32", eabi64 |-> ".mdebug.eabi64"]
find_mips_abi(file) ==
  LET named == {k \in DOMAIN file.sections : \E a \in DOMAIN AbiSections :
                   file.sections[k].name = AbiSections[a]}
  IN CASE file.flags # None -> file.flags
       [] file.flags = None /\ named # {} ->
            CHOOSE a \in DOMAIN AbiSections : AbiSections[a] = file.sections[Min(named)].name
       [] OTHER -> None

mips_abi_regsizeWide(abi) == 8     (* registers of 64 bits, for comparison        *)
mips_abi_regsize(abi) == IF abi \in {"o32", "eabi32"} THEN 4 ELSE 8

NoType == [tag |-> None]
Qualifiers == {"typedef", "const", "volatile", "restrict", "mutable"}
RECURSIVE Unqualified(_)
Unqualified(type) == IF type.tag \in Qualifiers THEN Unqualified(type.of) ELSE type

Pointers == {"pointer", "ptr_to_member"}
Scalars == {"subrange", "base", "enumeration"} \cup Pointers
Composites == {"structure", "class", "union", "array"}

mips_arg_size(file, type) ==
  LET abi == find_mips_abi(file)
      known == abi \in {"o32", "o64", "n32", "n64"}
      regsize == mips_abi_regsize(abi)
      outer == Unqualified(type)
      t == IF outer.tag = "subrange" /\ outer.size = Unknown THEN outer.of ELSE outer
      size == IF t.size = Unknown /\ t.tag \in Pointers THEN regsize ELSE t.size
      float == t.tag = "base" /\ t.encoding = "float"
      aggregate == IF abi \in {"o32", "o64"} THEN "AGGREGATE" ELSE "UNKNOWN"
      sized(n) == CASE n <= regsize -> "N_1"
                    [] n > regsize /\ n <= 2 * regsize -> "N_4"
                    [] float /\ abi = "o32" /\ n > 2 * regsize /\ n <= 4 * regsize -> "UNKNOWN"
                    [] OTHER -> aggregate
  IN CASE known /\ type = NoType -> "VOID"
       [] known /\ outer.tag \in Composites -> aggregate
       [] known /\ outer.tag \in Scalars /\ size # Unknown -> sized(size)
       [] OTHER -> "UNKNOWN"

-------------------------------------------------------------------------------
(* The signature of a function, from its DIE. An aggregate is returned where  *)
(* a first, hidden argument says. Unknown: too many to count.                 *)

handleDwarfFunction(file, die) ==
  LET returns == mips_arg_size(file, die.type)
      formals == SelectSeq(die.children, LAMBDA c : c.tag = "formal_parameter")
      uncounted == \E k \in DOMAIN die.children :
                     \/ die.children[k].tag = "unspecified_parameters"
                     \/ /\ die.children[k].tag = "formal_parameter"
                        /\ mips_arg_size(file, die.children[k].type) # "N_1"
  IN [ret_size |-> CASE returns = "VOID" -> 0 [] returns \in {"N_1", "AGGREGATE"} -> 1
                     [] OTHER -> Unknown,
      n_args |-> IF uncounted THEN Unknown
                 ELSE Len(formals) + IF returns = "AGGREGATE" THEN 1 ELSE 0]

(* The last DIE of an address tells; only top-level ones are seen.            *)
FunctionTags == {"subprogram", "entry_point", "inlined_subroutine"}
Signature(file, functions, s) ==
  LET dies == SelectSeq(FlattenSeq(file.dwarf),
                        LAMBDA d : d.tag \in FunctionTags /\ d.lowpc = s.addr)
  IN IF dies = <<>> \/ getSymbolByAddr(functions, s.addr) # s
     THEN [ret_size |-> Unknown, n_args |-> Unknown]
     ELSE handleDwarfFunction(file, Last(dies))

-------------------------------------------------------------------------------
(* Relocations, by type and then by address. Those against a section get the  *)
(* word they relocate as their addend.                                        *)

RelocTypes == <<"16", "32", "rel32", "26", "hi16", "lo16">>
TypeCode(type) == CHOOSE n \in DOMAIN RelocTypes : RelocTypes[n] = type
Debugging == {".pdr", ".debug_info"}

Reloc(file, section, entry) ==
  LET s == file.symtab[entry.sym]
      named == s.type \in Interesting
      placed == s.type = "section" /\ entry.type = "32" /\ HasSection(file, section)
      sec == getSection(file, section)
  IN [type |-> entry.type, addr |-> entry.offset,
      symbol |-> IF named THEN entry.sym ELSE 0, sym |-> IF named THEN s.type ELSE None,
      value |-> CASE s.type = "func" -> s.value
                  [] placed -> sec.words[((entry.offset - sec.addr) \div 4) + 1]
                  [] OTHER -> 0]

Relocations(file) ==
  LET seen == SelectSeq(file.rels, LAMBDA r : r.section \notin Debugging)
      of(r) == [k \in DOMAIN r.entries |-> Reloc(file, r.section, r.entries[k])]
      before(x, y) == \/ TypeCode(x.type) < TypeCode(y.type)
                      \/ x.type = y.type /\ x.addr < y.addr
  IN SortSeq(FlattenSeq([k \in DOMAIN seen |-> of(seen[k])]), before)

getRelocationBySymbol(relocs, s) == \E r \in DOMAIN relocs : relocs[r].symbol = s.index

-------------------------------------------------------------------------------
(* The constructor of CibylElf                                                *)

Essential == {".text", ".cibylstrtab", ".data"}
ElfPanics(file) ==
  \/ handleSymtab(file) = <<>> \/ file.dwarf = <<>>
  \/ \E name \in Essential : ~ HasSection(file, name)

CibylElf(file) ==
  LET symbols == SelectSeq(handleSymtab(file), LAMBDA s : s.type = "func")
      text == getSection(file, ".text").words
      relocs == Relocations(file)
      functions == fixupSymbolSize(symbols, file.entry + 4 * Len(text))
  IN [text |-> text, data |-> getSection(file, ".data").words, relocs |-> relocs,
      functions |-> [k \in DOMAIN functions |->
        [relocated |-> getRelocationBySymbol(relocs, functions[k])]
          @@ Signature(file, functions, functions[k]) @@ functions[k]]]
===============================================================================

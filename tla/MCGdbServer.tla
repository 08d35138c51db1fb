------------------------------ MODULE MCGdbServer ------------------------------
(***************************************************************************)
(* GdbServer for TLC: a program of two lines with breakpoints, a register  *)
(* that is a local at one of them and another at both, and a memory of two *)
(* words; gdb asks for whole words and for halves that end on a word, and  *)
(* for text within the section and not: unaligned, beyond it, no byte, and *)
(* one byte that might be the first of a mark.                             *)
(***************************************************************************)
EXTENDS GdbServer, TLC

ScopeOf == 0 :> {"a0"} @@ 1 :> {}

Reg(r) == [kind |-> "p", reg |-> r]
Mem(addr, length) == [kind |-> "m", addr |-> addr, length |-> length]
Set(addr, v) == [kind |-> "M", addr |-> addr, value |-> v]
At(kind, addr) == [kind |-> kind, addr |-> addr]
Plain(kind) == [kind |-> kind]

AllPackets ==
  {Reg("zero"), Reg("a0"), Reg("ra"), Reg("pc"),
   Mem(2, 2), Mem(0, 8), Mem(8, 4), Mem(64, 4), Mem(64, 1), Mem(68, 4), Mem(68, 2),
   Mem(66, 2), Mem(68, 8), Mem(64, 0), Mem(68, 1), Set(4, 1), Set(8, 0), Set(64, 0),
   At("Z", 68), At("Z", 72), At("z", 68), Plain("c"), Plain("?"), Plain("vCont?"), Plain("H"),
   Plain("g"), Plain("P"), Plain("vCont;c"), Plain("k")}
===============================================================================

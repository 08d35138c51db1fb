------------------------------- MODULE Debuggee --------------------------------
(***************************************************************************)
(* The Java debugger jdb and the translated program under it, as           *)
(* tools/python/Cibyl/GdbServer/jdb.py uses them through a terminal: jdb   *)
(* takes one line after the other, answers it and prompts; while the       *)
(* program runs its prompt is another one. What the program itself prints  *)
(* gets in between.                                                        *)
(***************************************************************************)
EXTENDS Integers, Sequences

CONSTANTS
  Registers,         (* registers that are Java locals somewhere            *)
  Lines,             (* lines of Cibyl.j a breakpoint can be set at         *)
  Scope,             (* line -> the registers that are locals there         *)
  Values,            (* of a register or a word                             *)
  MemorySize         (* words of CRunTime.memory                            *)

ASSUME DebuggeeAssumption ==
  /\ 0 \in Lines /\ Scope \in [Lines -> SUBSET Registers] /\ MemorySize \in Nat \ {0}

VARIABLES
  world,             (* the program: whether it runs, or where it stopped,
                        its registers and memory, the breakpoints, and
                        whether it printed something jdb did not show yet   *)
  lines,             (* what jdb has not read yet                           *)
  out                (* what it wrote and nobody read: the replies, and
                        whether the last of it is the prompt                *)

jdb == <<world, lines, out>>

Memory == 0 .. MemorySize - 1

Command(cmd) == [cmd |-> cmd]
Empty == Command("")

(* The program starts, with a breakpoint at its first line. *)
JInit ==
  /\ world = [running |-> TRUE, line |-> 0, regs |-> [r \in Registers |-> 0], ra |-> 0,
              memory |-> [o \in Memory |-> 0], stops |-> {0}, prints |-> FALSE]
  /\ lines = <<>>
  /\ out = [texts |-> <<>>, prompt |-> FALSE]

Line(texts, prompts) == out' = [texts |-> out.texts \o texts, prompt |-> prompts]

(* What jdb writes to a command, but for the prompt; commands and texts are *)
(* named by their words.                                                     *)
Reply(c) ==
  CASE c.cmd = "locals" /\ ~world.running ->
         <<[kind |-> "locals", regs |-> [r \in Scope[world.line] |-> world.regs[r]]]>>
    [] c.cmd = "where" /\ ~world.running -> <<[kind |-> "where", line |-> world.line]>>
    [] c.cmd = "print_memory" -> <<[kind |-> "size"]>>
    [] c.cmd = "print_ra" -> <<[kind |-> "value", value |-> world.ra]>>
    [] c.cmd = "print" /\ c.offset \in Memory ->
         <<[kind |-> "value", value |-> world.memory[c.offset]]>>
    [] c.cmd = "set" /\ c.offset \in Memory ->
         <<[kind |-> "set", offset |-> c.offset, value |-> c.value]>>
    [] c.cmd = "stop_at" /\ c.line \notin Lines -> <<[kind |-> "unable"]>>
    [] c.cmd = "clear" /\ c.line \notin world.stops -> <<[kind |-> "not_found"]>>
    [] OTHER -> <<>>

Done(c) ==
  CASE c.cmd = "set" /\ c.offset \in Memory -> [world EXCEPT !.memory[c.offset] = c.value]
    [] c.cmd = "stop_at" /\ c.line \in Lines -> [world EXCEPT !.stops = @ \cup {c.line}]
    [] c.cmd = "clear" -> [world EXCEPT !.stops = @ \ {c.line}]
    [] c.cmd = "resume" -> [world EXCEPT !.running = TRUE]
    [] OTHER -> world

JdbReads ==
  /\ lines # <<>>
  /\ world' = Done(Head(lines))
  /\ lines' = Tail(lines)
  /\ Line(Reply(Head(lines)), ~world'.running)

(* The program prints; jdb shows it when it gets to it.                      *)
Prints ==
  /\ world.running /\ ~world.prints
  /\ world' = [world EXCEPT !.prints = TRUE]
  /\ UNCHANGED <<lines, out>>

Shows ==
  /\ world.prints
  /\ world' = [world EXCEPT !.prints = FALSE]
  /\ Line(<<>>, FALSE)
  /\ UNCHANGED lines

(* The program meets a breakpoint, and jdb says so and prompts.              *)
Stop ==
  /\ world.running
  /\ \E line \in world.stops, regs \in [Registers -> Values], ra \in Values, o \in Memory, v \in Values :
       world' = [world EXCEPT !.running = FALSE, !.line = line, !.regs = regs, !.ra = ra,
                              !.memory[o] = v]
  /\ Line(<<>>, TRUE)
  /\ UNCHANGED lines
===============================================================================

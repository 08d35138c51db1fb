------------------------------- MODULE GdbServer -------------------------------
(***************************************************************************)
(* The server between gdb and a Java debugger                              *)
(* (tools/python/Cibyl/GdbServer): a thread reads packets from gdb into a  *)
(* queue, another one takes them, holds a dialog with jdb for each and     *)
(* answers. A dialog is a sequence of lines, each sent when the prompt     *)
(* after the one before was seen; when no prompt is seen for two seconds,  *)
(* empty lines are sent to get another one.                                *)
(***************************************************************************)
EXTENDS Debuggee

CONSTANTS
  Packets,           (* what gdb may send: kind and operands                *)
  EntryPoint,        (* address of the text section and of line 0           *)
  TextSize,          (* its bytes                                           *)
  Invocations,       (* addresses in it that hold Java calls                *)
  Marked,            (* addresses in it whose first byte is 0xfe            *)
  Invalid,           (* 0x000c1b41, a register that is no local             *)
  None

(* gdb asks for registers there are, and by unsigned addresses.              *)
ASSUME GdbAssumption ==
  /\ EntryPoint \in Nat /\ TextSize \in Nat
  /\ None \notin Packets
  /\ {"zero", "ra", "pc"} \cap Registers = {}
  /\ \A p \in Packets : /\ p.kind = "p" => p.reg \in Registers \cup {"zero", "ra", "pc"}
                        /\ p.kind \in {"m", "M", "Z", "z"} => p.addr \in Nat
                        /\ p.kind = "m" => p.length \in Nat

VARIABLES
  gdb,               (* the packet gdb waits for the answer of, or None     *)
  wire,              (* what gdb sent and the server has not read           *)
  inputQueue,
  thread,            (* JdbThread: its packet, the rest of the dialog,
                        whether it waits for the prompt, the words it got,
                        whether the dialog failed or it is dead             *)
  stateValid, regs,  (* the registers of the last stop, once asked for      *)
  late,              (* history: prompts came that no command asked for     *)
  answered           (* history: the last answer, until the next packet     *)

server == <<gdb, wire, inputQueue, thread, stateValid, regs, late, answered>>
vars == <<jdb, server>>

-------------------------------------------------------------------------------
(* gdbmips.py *)
convertLineToAddress(line) == line * 4 + EntryPoint
convertAddressToLine(address) == (address - EntryPoint) \div 4
InText(addr) == addr \in EntryPoint .. EntryPoint + TextSize - 1

(* readMemory raises: for an unaligned address it returns nothing, which has *)
(* no length, the bytes beyond the section are not there, and the mark of a  *)
(* Java call is looked for in the first byte and, behind 0xfe, the second.   *)
TextReadRaises(address, length) ==
  \/ address % 4 # 0
  \/ length > 0 /\ ~InText(address + length - 1)
  \/ length = 0
  \/ length = 1 /\ address \in Marked

(* What it returns otherwise: a Java call reads as one instruction that does *)
(* nothing, whatever length.                                                 *)
TextBytes(address, length) ==
  IF address \in Invocations THEN [i \in 1 .. 4 |-> <<"nop">>]
  ELSE [i \in 1 .. length |-> <<"text", address + i - 1>>]

(* jdb.readMemory: the words it reads, and which byte of which of them goes  *)
(* into the answer.                                                          *)
ReadMemory(addr, length) ==
  LET unaligned == addr % 4
      unaligned_end == (addr + length) % 4
      last == addr + length - unaligned_end
      whole == (last - (addr + unaligned) + 3) \div 4
      first == IF unaligned # 0 THEN <<addr \div 4>> ELSE <<>>
      words == first \o [i \in 1 .. whole |-> (addr + unaligned + 4 * (i - 1)) \div 4]
                 \o (IF unaligned_end # 0 THEN <<last \div 4>> ELSE <<>>)
  IN [words |-> words,
      bytes |-> [i \in 1 .. unaligned |-> <<1, (addr + i - 1) % 4>>]
                \o [i \in 1 .. 4 * whole |-> <<Len(first) + 1 + (i - 1) \div 4, (i - 1) % 4>>]
                \o [i \in 1 .. 2 * unaligned_end |-> <<Len(words), (last + i - 1) % 4>>]]

-------------------------------------------------------------------------------
(* The dialogs. kickJdb's empty line comes before every command but those    *)
(* that wait for it.                                                         *)
Kicked(c) == <<Empty, c>>

readState == Kicked(Command("locals")) \o Kicked(Command("where"))
ReadRegister(valid, reg) ==
  (IF valid THEN <<>> ELSE readState) \o (IF reg = "ra" THEN Kicked(Command("print_ra")) ELSE <<>>)

PrintWord(o) == [cmd |-> "print", offset |-> o]
OnLine(cmd, addr) == [cmd |-> cmd, line |-> convertAddressToLine(addr)]

InMemory(addr) == addr \div 4 \in Memory

(* Mutant: doContinue leaves the registers of the stop before.               *)
StillValidKept(p) == stateValid

(* doContinue makes the registers of the stop before invalid. *)
StillValid(p) == stateValid /\ p.kind # "c"

Dialog(p) ==
  CASE p.kind = "p" -> ReadRegister(stateValid, p.reg)
    [] p.kind = "m" /\ ~InText(p.addr) /\ InMemory(p.addr) ->
         LET words == ReadMemory(p.addr, p.length).words
         IN [i \in 1 .. 2 * Len(words) |-> IF i % 2 = 1 THEN Empty ELSE PrintWord(words[i \div 2])]
    [] p.kind = "M" /\ ~InText(p.addr) /\ InMemory(p.addr) ->
         Kicked([cmd |-> "set", offset |-> p.addr \div 4, value |-> p.value])
    [] p.kind = "Z" -> Kicked(OnLine("stop_at", p.addr))
    [] p.kind = "z" -> Kicked(OnLine("clear", p.addr))
    [] p.kind = "c" -> Kicked(Command("resume")) \o ReadRegister(StillValid(p), "pc")
    [] OTHER -> <<>>

(* Packets whose handlers raise what nobody catches: gPacket calls pPacket   *)
(* with two arguments, PPacket leaves '=' in the number, doContinue() lacks  *)
(* its argument, kPacket's PacketException is meant for another thread, and  *)
(* mPacket catches no TypeError and no IndexError.                           *)
Fatal(p) ==
  \/ p.kind \in {"g", "P", "vCont;c", "k"}
  \/ p.kind = "m" /\ InText(p.addr) /\ TextReadRaises(p.addr, p.length)

(* The values that the first line with " = " may show. *)
Shown(texts, kinds) ==
  LET shows == {i \in DOMAIN texts : texts[i].kind \in kinds}
  IN IF shows = {} THEN {}
     ELSE LET t == texts[CHOOSE i \in shows : \A j \in shows : i <= j]
          IN IF t.kind = "locals" THEN {t.regs[r] : r \in DOMAIN t.regs} ELSE {t.value}

Texts(texts, kind) == {texts[i] : i \in {j \in DOMAIN texts : texts[j].kind = kind}}

(* What the answer of jdb does to the thread: it may be dead, its dialog may *)
(* have failed (JdbException), or it goes on. What it was told is looked for *)
(* in everything read before the prompt.                                     *)
Dead == [thread EXCEPT !.at = "dead", !.todo = <<>>, !.waits = FALSE]
Failed == [thread EXCEPT !.failed = TRUE, !.todo = <<>>, !.waits = FALSE]
On == [thread EXCEPT !.todo = Tail(@), !.waits = FALSE]
OnWith(v) == [On EXCEPT !.values = Append(@, v)]

Heard(c, texts) ==
  CASE c.cmd = "print_memory" -> {IF Texts(texts, "size") = {} THEN Dead ELSE On}
    [] c.cmd = "print_ra" ->
         LET shown == Shown(texts, {"locals", "value", "set"})
         IN IF shown = {} THEN {Dead} ELSE {OnWith(v) : v \in shown}
    [] c.cmd = "print" ->
         LET shown == Shown(texts, {"value", "set"})
         IN IF shown = {} THEN {Failed} ELSE {OnWith(v) : v \in shown}
    [] c.cmd = "set" ->
         {IF [kind |-> "set", offset |-> c.offset, value |-> c.value] \in Texts(texts, "set")
          THEN On ELSE Failed}
    [] c.cmd = "stop_at" -> {IF Texts(texts, "unable") # {} THEN Failed ELSE On}
    [] c.cmd = "clear" -> {IF Texts(texts, "not_found") # {} THEN Failed ELSE On}
    [] OTHER -> {On}

NoRegisters == [r \in Registers \cup {"pc"} |-> Invalid]

(* readState *)
Registered(c, texts) ==
  CASE c.cmd = "locals" ->
         LET found == Texts(texts, "locals")
             newest == CHOOSE t \in found : t = texts[CHOOSE i \in DOMAIN texts :
                         texts[i].kind = "locals" /\ \A j \in DOMAIN texts :
                           texts[j].kind = "locals" => j <= i]
         IN IF found = {} THEN NoRegisters
            ELSE [r \in DOMAIN NoRegisters |->
                    IF r \in DOMAIN newest.regs THEN newest.regs[r] ELSE Invalid]
    [] c.cmd = "where" /\ Texts(texts, "where") # {} ->
         [regs EXCEPT !["pc"] = convertLineToAddress((CHOOSE t \in Texts(texts, "where") : TRUE).line)]
    [] OTHER -> regs

-------------------------------------------------------------------------------
Idle == [at |-> "idle", packet |-> None, todo |-> <<>>, waits |-> FALSE, values |-> <<>>,
         failed |-> FALSE]

(* jdb.init: the program is started, its memory's size and its state asked   *)
(* for, and only then does the server listen.                                *)
Init ==
  /\ JInit
  /\ gdb = None /\ wire = <<>> /\ inputQueue = <<>>
  /\ thread = [Idle EXCEPT !.at = "init", !.todo = Kicked(Command("print_memory")) \o readState]
  /\ stateValid = FALSE /\ regs = NoRegisters
  /\ late = FALSE /\ answered = None

Listen ==
  /\ thread.at = "init" /\ thread.todo = <<>>
  /\ thread' = Idle
  /\ UNCHANGED <<jdb, gdb, wire, inputQueue, stateValid, regs, late, answered>>

(* gdb acknowledges the last answer and sends its next packet. *)
GdbSends ==
  /\ thread.at # "init" /\ gdb = None
  /\ \E p \in Packets : gdb' = p /\ wire' = <<"+", "$", p>>
  /\ answered' = None
  /\ UNCHANGED <<jdb, inputQueue, thread, stateValid, regs, late>>

(* readPacket: one acknowledgement, or one packet. *)
Reader ==
  /\ wire # <<>>
  /\ IF Head(wire) = "+"
     THEN wire' = Tail(wire) /\ UNCHANGED inputQueue
     ELSE /\ wire' = SubSeq(wire, 3, Len(wire))
          /\ inputQueue' = Append(inputQueue, wire[2])
  /\ UNCHANGED <<jdb, gdb, thread, stateValid, regs, late, answered>>

Quiet == lines = <<>> /\ out = [texts |-> <<>>, prompt |-> FALSE]

(* packets.run: the thread takes a packet. *)
Take ==
  /\ thread.at = "idle" /\ thread.packet = None /\ inputQueue # <<>>
  /\ LET p == Head(inputQueue)
     IN /\ thread' = [Idle EXCEPT !.packet = p, !.todo = Dialog(p),
                                  !.at = IF Fatal(p) THEN "dead" ELSE "idle",
                                  !.failed = \/ p.kind \in {"m", "M"} /\ ~InText(p.addr) /\ ~InMemory(p.addr)
                                             \/ p.kind = "M" /\ InText(p.addr)]
        /\ stateValid' = StillValid(p)
        /\ late' = (late /\ ~(p.kind = "c" /\ Quiet))
  /\ inputQueue' = Tail(inputQueue)
  /\ UNCHANGED <<jdb, gdb, wire, regs, answered>>

(* sendCommand *)
Say ==
  /\ thread.at # "dead" /\ thread.todo # <<>> /\ ~thread.waits
  /\ lines' = Append(lines, Head(thread.todo))
  /\ thread' = [thread EXCEPT !.waits = TRUE]
  /\ UNCHANGED <<world, out, gdb, wire, inputQueue, stateValid, regs, late, answered>>

(* waitForPrompt, when the last that was read is the prompt. *)
Hear ==
  /\ thread.waits /\ out.prompt
  /\ LET c == Head(thread.todo)
     IN /\ thread' \in Heard(c, out.texts)
        /\ regs' = Registered(c, out.texts)
        /\ stateValid' = (stateValid \/ c.cmd = "where")
  /\ out' = [texts |-> <<>>, prompt |-> FALSE]
  /\ UNCHANGED <<world, lines, gdb, wire, inputQueue, late, answered>>

(* Mutant: waitForPrompt only waits on. *)
PromptAgainNever == <<>>

(* sendCommand("\n"): sendline ends it with another. *)
PromptAgain == <<Empty, Empty>>

(* waitForPrompt after two seconds; jdb has read all it was sent by then.    *)
Retry ==
  /\ thread.waits /\ ~out.prompt /\ lines = <<>>
  /\ lines' = PromptAgain
  /\ late' = (late \/ ~world.running)
  /\ UNCHANGED <<world, out, gdb, wire, inputQueue, thread, stateValid, regs, answered>>

(* What the handlers make of the dialog. *)
Answer(p) ==
  CASE p.kind = "p" ->
         <<"register", CASE p.reg = "zero" -> 0
                         [] p.reg = "ra" -> thread.values[1]
                         [] OTHER -> regs[p.reg]>>
    [] p.kind \in {"m", "M", "Z", "z"} /\ thread.failed -> <<"E00">>
    [] p.kind \in {"M", "Z", "z"} /\ ~thread.failed -> <<"OK">>
    [] p.kind = "m" /\ ~thread.failed ->
         <<"data", IF InText(p.addr) THEN TextBytes(p.addr, p.length)
                   ELSE LET bytes == ReadMemory(p.addr, p.length).bytes
                        IN [i \in DOMAIN bytes |-> <<thread.values[bytes[i][1]], bytes[i][2]>>]>>
    [] p.kind = "c" -> <<"T05", regs["pc"]>>
    [] p.kind = "?" -> <<"T00">>
    [] p.kind = "vCont?" -> <<"vCont;c">>
    [] OTHER -> <<"">>

Respond ==
  /\ thread.at = "idle" /\ thread.packet # None /\ thread.todo = <<>>
  /\ answered' = [packet |-> thread.packet, answer |-> Answer(thread.packet), late |-> late]
  /\ thread' = Idle
  /\ gdb' = None
  /\ UNCHANGED <<jdb, wire, inputQueue, stateValid, regs, late>>

JdbThread == Listen \/ Take \/ Say \/ Hear \/ Retry \/ Respond

(* jdb and the program. A stop while lines are on their way makes prompts of *)
(* them that nobody expects; so does one before the first line is sent.      *)
Stops == Stop /\ late' = (late \/ lines # <<>> \/ ~thread.waits)
         /\ UNCHANGED <<gdb, wire, inputQueue, thread, stateValid, regs, answered>>
Reads == JdbReads /\ UNCHANGED server
Talks == (Prints \/ Shows) /\ UNCHANGED server

Next == GdbSends \/ Reader \/ JdbThread \/ Stops \/ Reads \/ Talks

(* Each thread and jdb go on; the program comes to a breakpoint. gdb need    *)
(* not send anything, nor the program print.                                 *)
Fairness == WF_vars(Reader) /\ WF_vars(JdbThread) /\ WF_vars(Reads) /\ WF_vars(Stops)

Spec == Init /\ [][Next]_vars /\ Fairness

-------------------------------------------------------------------------------
(* Properties *)

Current(p) ==
  CASE p.kind = "p" ->
         <<"register", CASE p.reg = "zero" -> 0
                         [] p.reg = "ra" -> world.ra
                         [] p.reg = "pc" -> convertLineToAddress(world.line)
                         [] p.reg \in Scope[world.line] -> world.regs[p.reg]
                         [] OTHER -> Invalid>>
    [] p.kind = "m" /\ ~InText(p.addr) /\ InMemory(p.addr) ->
         <<"data", [i \in 1 .. p.length |-> <<world.memory[(p.addr + i - 1) \div 4], (p.addr + i - 1) % 4>>]>>
    [] p.kind = "M" /\ ~InText(p.addr) /\ InMemory(p.addr) ->
         IF world.memory[p.addr \div 4] = p.value THEN <<"OK">> ELSE <<"lost">>
    [] p.kind = "Z" ->
         IF convertAddressToLine(p.addr) \in world.stops THEN <<"OK">> ELSE <<"E00">>
    [] p.kind = "c" -> <<"T05", convertLineToAddress(world.line)>>
    [] OTHER -> answered.answer

(* What gdb is told of registers, memory, breakpoints and stops is true of   *)
(* the program as it stands, through the cached registers and the prompts    *)
(* that pair answers with commands, unless a retry of waitForPrompt crossed  *)
(* a stop. Nothing else kills the thread but the packets whose handlers do,  *)
(* reads of text that are unaligned, too long or too short included.         *)
AnswersCurrent ==
  /\ answered # None /\ ~late =>
       /\ ~world.running
       /\ answered.answer = Current(answered.packet)
       /\ answered.packet.kind = "z" => convertAddressToLine(answered.packet.addr) \notin world.stops
  /\ thread.at = "dead" => late \/ (thread.packet # None /\ Fatal(thread.packet))

(* The server comes to listen, and answers every packet, whatever the        *)
(* program prints in between ("The response will be sent by the encoder",    *)
(* gdbserver.py:85), unless its thread dies.                                 *)
EveryPacketAnswered ==
  /\ (thread.at = "init") ~> (thread.at \in {"idle", "dead"})
  /\ (gdb # None) ~> (gdb = None \/ thread.at = "dead")
===============================================================================

---------------------------- MODULE GdbServerProofs ----------------------------
(***************************************************************************)
(* What gdb is told is true of the stopped program, for every program, set *)
(* of breakpoints and packets: each line on its way to jdb is the one the  *)
(* thread waits for, and what jdb answered describes the program as it     *)
(* stands.                                                                 *)
(***************************************************************************)
EXTENDS GdbServer, SequenceTheorems, TLAPS

IsSeq(s) == s \in Seq({s[i] : i \in DOMAIN s})

Size == Command("print_memory")
Locals == Command("locals")
Where == Command("where")
Resume == Command("resume")
PrintRa == Command("print_ra")
SetWord(p) == [cmd |-> "set", offset |-> p.addr \div 4, value |-> p.value]

InData(p) == ~ InText(p.addr) /\ InMemory(p.addr)

(* The ranges whose first and last word jdb.readMemory cuts where they end,  *)
(* and that lie in the memory: it answers others with the wrong number of    *)
(* bytes.                                                                    *)
WholeRange(p) ==
  p.kind = "m" /\ InData(p) =>
    p.addr % 4 \in {0, 2} /\ (p.addr + p.length) % 4 = 0 /\ p.addr + p.length <= 4 * MemorySize

-------------------------------------------------------------------------------
Busy(k) == thread.at = "idle" /\ thread.packet # None /\ thread.packet.kind = k

ToSay(c) == \E i \in DOMAIN thread.todo : thread.todo[i] = c

(* The lines that the dialog of the packet at hand consists of.              *)
Speaks(c) ==
  \/ c = Empty
  \/ thread.at = "init" /\ c \in {Size, Locals, Where}
  \/ Busy("p") /\ c \in {Locals, Where}
  \/ Busy("p") /\ thread.packet.reg = "ra" /\ c = PrintRa
  \/ Busy("c") /\ c \in {Resume, Locals, Where}
  \/ Busy("m") /\ \E o \in Memory : c = PrintWord(o)
  \/ Busy("M") /\ InData(thread.packet) /\ c = SetWord(thread.packet)
  \/ Busy("Z") /\ c = OnLine("stop_at", thread.packet.addr)
  \/ Busy("z") /\ c = OnLine("clear", thread.packet.addr)

(* jdb did c, and what it wrote about it describes the program.              *)
Heeded(c) ==
  /\ c = Locals => out.texts = <<[kind |-> "locals",
                                  regs |-> [r \in Scope[world.line] |-> world.regs[r]]]>>
  /\ c = Where => out.texts = <<[kind |-> "where", line |-> world.line]>>
  /\ c = Size => out.texts = <<[kind |-> "size"]>>
  /\ c = PrintRa => out.texts = <<[kind |-> "value", value |-> world.ra]>>
  /\ c.cmd = "print" => out.texts = <<[kind |-> "value", value |-> world.memory[c.offset]]>>
  /\ c.cmd = "set" => /\ out.texts = <<[kind |-> "set", offset |-> c.offset, value |-> c.value]>>
                      /\ world.memory[c.offset] = c.value
  /\ c.cmd = "stop_at" => IF c.line \in Lines THEN out.texts = <<>> /\ c.line \in world.stops
                          ELSE out.texts = <<[kind |-> "unable"]>>
  /\ c.cmd = "clear" => /\ out.texts \in {<<>>, <<[kind |-> "not_found"]>>}
                        /\ c.line \notin world.stops
  /\ c \in {Empty, Resume} => out.texts = <<>>

(* Where the line the thread waits for the prompt of may be: nowhere yet, on *)
(* its way, answered, or, while the program runs, answered without a prompt, *)
(* which the empty lines of a retry ask for again.                           *)
Unsaid == ~ thread.waits /\ lines = <<>> /\ out.texts = <<>> /\ ~ out.prompt
Said == /\ lines = <<Head(thread.todo)>> /\ out.texts = <<>> /\ ~ out.prompt
        /\ world.running => Head(thread.todo) = Empty
Obeyed(c) == lines = <<>> /\ ~ world.running /\ Heeded(c)
Running == /\ world.running /\ out.texts = <<>> /\ ~ out.prompt
           /\ lines \in {<<>>, <<Empty>>, <<Empty, Empty>>}
           /\ Head(thread.todo) \in {Empty, Resume}
LineInPlace ==
  \/ Unsaid
  \/ thread.waits /\ thread.todo # <<>> /\ (Said \/ Obeyed(Head(thread.todo)) \/ Running)

RunsOnlyWhenTold ==
  world.running => /\ thread.at = "init" \/ Busy("c")
                   /\ thread.todo # <<>>
                   /\ thread.waits \/ Head(thread.todo) = Empty

RegistersRead ==
  /\ DOMAIN regs = Registers \cup {"pc"}
  /\ \A r \in Registers : regs[r] = IF r \in Scope[world.line] THEN world.regs[r] ELSE Invalid

(* jdb is asked where the program stands after its locals, and for nothing   *)
(* of its state then.                                                        *)
WhereLast(i) ==
  /\ i >= 2 => thread.todo[i - 1] = Empty
  /\ i >= 3 => thread.todo[i - 2] = Locals
  /\ i <= 2 => RegistersRead /\ ~ world.running
  /\ \A j \in DOMAIN thread.todo : j > i => thread.todo[j] \notin {Locals, Where, Resume}

(* The registers are those of this stop, or will be asked for.               *)
StateCurrent ==
  /\ stateValid => /\ ~ world.running /\ RegistersRead
                   /\ regs["pc"] = convertLineToAddress(world.line)
  /\ thread.at = "init" \/ Busy("p") \/ Busy("c") => stateValid \/ ToSay(Where)
  /\ \A i \in DOMAIN thread.todo : /\ thread.todo[i] \in {Locals, Where, Resume} => ~ stateValid
                                   /\ thread.todo[i] = Where => WhereLast(i)

ReturnAddressRead ==
  Busy("p") /\ thread.packet.reg = "ra" =>
    \/ thread.values = <<>> /\ ToSay(PrintRa)
    \/ thread.values # <<>> /\ thread.values[1] = world.ra

(* The values are the words read so far, and the rest of the dialog asks for *)
(* the other ones.                                                           *)
ReadSoFar(words, values, todo, memory) ==
  LET n == Len(words)
      k == Len(values)
      l == Len(todo)
  IN /\ n \in Nat /\ k <= n /\ l \in {2 * (n - k), 2 * (n - k) - 1}
     /\ \A i \in 1 .. k : values[i] = memory[words[i]]
     /\ \A i \in 1 .. l : IF (l - i) % 2 = 1 THEN todo[i] = Empty
                          ELSE todo[i] = PrintWord(words[n - (l - i) \div 2])

WordsRead(p) ==
  /\ ~ thread.failed
  /\ ReadSoFar(ReadMemory(p.addr, p.length).words, thread.values, thread.todo, world.memory)

EffectsThere ==
  /\ Busy("m") /\ InData(thread.packet) => WordsRead(thread.packet)
  /\ Busy("M") /\ InData(thread.packet) =>
       /\ ~ thread.failed
       /\ \/ ToSay(SetWord(thread.packet))
          \/ world.memory[thread.packet.addr \div 4] = thread.packet.value
  /\ Busy("Z") => LET line == convertAddressToLine(thread.packet.addr) IN
       \/ ToSay(OnLine("stop_at", thread.packet.addr)) /\ ~ thread.failed
       \/ IF line \in Lines THEN line \in world.stops /\ ~ thread.failed ELSE thread.failed
  /\ Busy("z") => \/ ToSay(OnLine("clear", thread.packet.addr))
                  \/ convertAddressToLine(thread.packet.addr) \notin world.stops

DialogIs ==
  /\ IsSeq(thread.todo) /\ IsSeq(thread.values)
  /\ thread.todo # <<>> => thread.at = "init" \/ (thread.at = "idle" /\ thread.packet # None)
  /\ \A i \in DOMAIN thread.todo : Speaks(thread.todo[i])
  /\ thread.at = "dead" => thread.packet # None /\ Fatal(thread.packet)

Timely ==
  /\ DialogIs /\ LineInPlace /\ RunsOnlyWhenTold
  /\ StateCurrent /\ ReturnAddressRead /\ EffectsThere
  /\ AnswersCurrent

IsWorld(w) ==
  /\ w = [running |-> w.running, line |-> w.line, regs |-> w.regs, ra |-> w.ra,
          memory |-> w.memory, stops |-> w.stops, prints |-> w.prints]
  /\ w.running \in BOOLEAN
  /\ w.line \in Lines /\ w.stops \subseteq Lines
  /\ w.regs = [r \in Registers |-> w.regs[r]]
  /\ w.memory = [o \in Memory |-> w.memory[o]]

WorldIs == IsWorld(world) /\ (out.prompt => ~ world.running)

ThreadIs ==
  /\ thread = [at |-> thread.at, packet |-> thread.packet, todo |-> thread.todo,
               waits |-> thread.waits, values |-> thread.values, failed |-> thread.failed]
  /\ thread.waits \in BOOLEAN
  /\ thread.at = "init" => thread.packet = None /\ gdb = None /\ answered = None
  /\ thread.at = "dead" => thread.todo = <<>> /\ ~ thread.waits
  /\ thread.packet # None => thread.packet \in Packets

(* One packet at a time is on its way to the thread.                         *)
OnePacket ==
  \/ gdb = None /\ wire = <<>> /\ inputQueue = <<>> /\ thread.packet = None
  \/ /\ gdb \in Packets /\ answered = None
     /\ \/ wire \in {<<"+", "$", gdb>>, <<"$", gdb>>} /\ inputQueue = <<>> /\ thread.packet = None
        \/ wire = <<>> /\ inputQueue = <<gdb>> /\ thread.packet = None
        \/ wire = <<>> /\ inputQueue = <<>> /\ thread.packet = gdb

IInv == WorldIs /\ ThreadIs /\ OnePacket /\ (~ late => Timely)

-------------------------------------------------------------------------------
(* Sequences.                                                                *)
LEMMA SeqDomain ==
  ASSUME NEW s, IsSeq(s)
  PROVE  Len(s) \in Nat /\ DOMAIN s = 1 .. Len(s)
<1> DEFINE S == {s[i] : i \in DOMAIN s}
<1>1. s \in Seq(S)
  BY DEF IsSeq
<1> HIDE DEF S
<1> QED BY <1>1, LenProperties

LEMMA TailIs ==
  ASSUME NEW s, IsSeq(s), s # <<>>
  PROVE  /\ IsSeq(Tail(s)) /\ Len(Tail(s)) = Len(s) - 1
         /\ Len(s) \in Nat \ {0} /\ 1 \in DOMAIN s /\ Head(s) = s[1]
         /\ \A i \in DOMAIN Tail(s) : i + 1 \in DOMAIN s /\ Tail(s)[i] = s[i + 1]
         /\ \A i \in DOMAIN s : i # 1 => i - 1 \in DOMAIN Tail(s) /\ Tail(s)[i - 1] = s[i]
<1> DEFINE S == {s[i] : i \in DOMAIN s}
           t == Tail(s)
<1>1. s \in Seq(S)
  BY DEF IsSeq
<1> HIDE DEF S
<1>2. t \in Seq(S) /\ Len(t) = Len(s) - 1 /\ Len(s) \in Nat \ {0}
      /\ \A i \in 1 .. Len(t) : t[i] = s[i + 1]
  BY <1>1, HeadTailProperties, EmptySeq, LenProperties
<1> HIDE DEF t
<1>3. Len(t) \in Nat /\ DOMAIN t = 1 .. Len(t) /\ DOMAIN s = 1 .. Len(s)
  BY <1>1, <1>2, LenProperties
<1>4. t \in Seq({t[i] : i \in DOMAIN t})
  BY <1>2, <1>3, LenProperties, SeqDef
<1>5. Head(s) = s[1]
  BY <1>1
<1>6. \A i \in DOMAIN t : i + 1 \in DOMAIN s /\ t[i] = s[i + 1]
  BY <1>2, <1>3
<1>7. ASSUME NEW i \in DOMAIN s, i # 1 PROVE i - 1 \in DOMAIN t /\ t[i - 1] = s[i]
  <2>1. i - 1 \in 1 .. Len(t) /\ (i - 1) + 1 = i
    BY <1>2, <1>3, <1>7
  <2> QED BY <2>1, <1>2, <1>3
<1>8. 1 \in DOMAIN s
  BY <1>2, <1>3
<1> QED BY <1>2, <1>4, <1>5, <1>6, <1>7, <1>8 DEF IsSeq, t

LEMMA AppendIs ==
  ASSUME NEW s, IsSeq(s), NEW v
  PROVE  /\ IsSeq(Append(s, v)) /\ Len(Append(s, v)) = Len(s) + 1 /\ Append(s, v) # <<>>
         /\ Len(s) \in Nat
         /\ \A i \in 1 .. Len(s) : Append(s, v)[i] = s[i]
         /\ Append(s, v)[Len(s) + 1] = v
<1> DEFINE S == {s[i] : i \in DOMAIN s} \cup {v}
           t == Append(s, v)
<1>1. s \in Seq({s[i] : i \in DOMAIN s})
  BY DEF IsSeq
<1>2. s \in Seq(S) /\ v \in S
  BY <1>1, SeqMonotonic
<1> HIDE DEF S
<1>3. t \in Seq(S) /\ Len(t) = Len(s) + 1 /\ Len(s) \in Nat /\ t[Len(s) + 1] = v
      /\ \A i \in 1 .. Len(s) : t[i] = s[i]
  BY <1>2, AppendProperties, LenProperties
<1> HIDE DEF t
<1>4. DOMAIN t = 1 .. Len(t) /\ Len(t) \in Nat
  BY <1>3, LenProperties
<1>5. t \in Seq({t[i] : i \in DOMAIN t}) /\ t # <<>>
  BY <1>3, <1>4, LenProperties, SeqDef, EmptySeq
<1> QED BY <1>3, <1>4, <1>5 DEF IsSeq, t

LEMMA FunctionIsSeq ==
  ASSUME NEW n \in Nat, NEW s, s = [i \in 1 .. n |-> s[i]]
  PROVE  IsSeq(s) /\ Len(s) = n /\ DOMAIN s = 1 .. n
<1>1. s \in Seq({s[i] : i \in DOMAIN s})
  BY SeqDef
<1> QED BY <1>1, LenProperties DEF IsSeq

-------------------------------------------------------------------------------
LEMMA MemoryIs == MemorySize \in Nat \ {0} /\ Memory \subseteq Nat /\ 0 \in Lines /\ None \notin Packets
BY DebuggeeAssumption, GdbAssumption DEF DebuggeeAssumption, GdbAssumption, Memory

-------------------------------------------------------------------------------
(* The lines of the dialogs, by their first word.                            *)
IsLine(c) ==
  /\ c \in {Empty, Size, Locals, Where, PrintRa, Resume} \/ c.cmd \in {"print", "set", "stop_at", "clear"}
  /\ c.cmd \in {"print", "set"} => c.offset \in Memory

LEMMA Words ==
  /\ Empty.cmd = "" /\ Size.cmd = "print_memory" /\ Locals.cmd = "locals" /\ Where.cmd = "where"
  /\ PrintRa.cmd = "print_ra" /\ Resume.cmd = "resume"
BY DEF Empty, Size, Locals, Where, PrintRa, Resume, Command

LEMMA LineIs ==
  ASSUME NEW c, Speaks(c)
  PROVE  IsLine(c)
<1>1. CASE c \in {Empty, Size, Locals, Where, PrintRa, Resume}
  BY <1>1, Words DEF IsLine
<1>2. CASE Busy("m") /\ \E o \in Memory : c = PrintWord(o)
  BY <1>2 DEF IsLine, PrintWord
<1>3. CASE InData(thread.packet) /\ c = SetWord(thread.packet)
  BY <1>3 DEF IsLine, SetWord, InData, InMemory
<1>4. CASE c = OnLine("stop_at", thread.packet.addr)
  BY <1>4 DEF IsLine, OnLine
<1>5. CASE c = OnLine("clear", thread.packet.addr)
  BY <1>5 DEF IsLine, OnLine
<1> QED BY <1>1, <1>2, <1>3, <1>4, <1>5 DEF Speaks

(* Whose dialog a line belongs to.                                           *)
LEMMA SpokenFor ==
  ASSUME NEW c, Speaks(c)
  PROVE  /\ c.cmd = "resume" => Busy("c") /\ c = Resume
         /\ c.cmd \in {"locals", "where"} => c \in {Locals, Where} /\ (thread.at = "init" \/ Busy("p") \/ Busy("c"))
         /\ c.cmd = "print_ra" => c = PrintRa /\ Busy("p")
         /\ c.cmd = "print" => Busy("m") /\ c.offset \in Memory /\ c = PrintWord(c.offset)
         /\ c.cmd = "set" => /\ Busy("M") /\ c = SetWord(thread.packet)
                            /\ c.offset = thread.packet.addr \div 4 /\ c.value = thread.packet.value
         /\ c.cmd = "stop_at" => /\ Busy("Z") /\ c = OnLine("stop_at", thread.packet.addr)
                                /\ c.line = convertAddressToLine(thread.packet.addr)
         /\ c.cmd = "clear" => /\ Busy("z") /\ c = OnLine("clear", thread.packet.addr)
                              /\ c.line = convertAddressToLine(thread.packet.addr)
<1>1. CASE c = Empty
  BY <1>1, Words
<1>2. CASE thread.at = "init" /\ c \in {Size, Locals, Where}
  BY <1>2, Words
<1>3. CASE Busy("p") /\ c \in {Locals, Where}
  BY <1>3, Words
<1>4. CASE Busy("p") /\ c = PrintRa
  BY <1>4, Words
<1>5. CASE Busy("c") /\ c \in {Resume, Locals, Where}
  BY <1>5, Words
<1>6. CASE Busy("m") /\ \E o \in Memory : c = PrintWord(o)
  BY <1>6 DEF PrintWord
<1>7. CASE Busy("M") /\ c = SetWord(thread.packet)
  BY <1>7 DEF SetWord
<1>8. CASE Busy("Z") /\ c = OnLine("stop_at", thread.packet.addr)
  BY <1>8 DEF OnLine
<1>9. CASE Busy("z") /\ c = OnLine("clear", thread.packet.addr)
  BY <1>9 DEF OnLine
<1> QED BY <1>1, <1>2, <1>3, <1>4, <1>5, <1>6, <1>7, <1>8, <1>9 DEF Speaks

LEMMA KindsDiffer ==
  /\ Busy("m") => ~ Busy("M") /\ ~ Busy("p") /\ ~ Busy("Z") /\ ~ Busy("z") /\ ~ Busy("c")
  /\ Busy("M") => ~ Busy("p") /\ ~ Busy("Z") /\ ~ Busy("z") /\ ~ Busy("c")
  /\ Busy("Z") => ~ Busy("p") /\ ~ Busy("z") /\ ~ Busy("c")
  /\ Busy("z") => ~ Busy("p") /\ ~ Busy("c")
  /\ Busy("p") => ~ Busy("c")
BY DEF Busy

(* What jdb makes of a line when the program stands, or of an empty one.     *)
Obeys(c) ==
  /\ world'.line = world.line /\ world'.regs = world.regs /\ world'.ra = world.ra
  /\ world'.running = (world.running \/ c = Resume)
  /\ c.cmd # "set" => world'.memory = world.memory
  /\ c.cmd \notin {"stop_at", "clear"} => world'.stops = world.stops

LEMMA LineDone ==
  ASSUME WorldIs, NEW c, IsLine(c), world.running => c = Empty, world' = Done(c)
  PROVE  /\ Obeys(c)
         /\ c.cmd = "set" => world'.memory[c.offset] = c.value
         /\ c.cmd = "stop_at" /\ c.line \in Lines => c.line \in world'.stops
         /\ c.cmd = "clear" => c.line \notin world'.stops
<1> USE DEF WorldIs, IsWorld, Obeys, IsLine, Done
<1>1. CASE c \in {Empty, Size, Locals, Where, PrintRa}
  BY <1>1, Words
<1>2. CASE c = Resume
  BY <1>2, Words
<1>3. CASE c.cmd = "print"
  BY <1>3, Words
<1>4. CASE c.cmd = "set"
  <2>1. world' = [world EXCEPT !.memory[c.offset] = c.value] /\ c.offset \in Memory
    BY <1>4
  <2> QED BY <1>4, <2>1, Words
<1>5. CASE c.cmd = "stop_at"
  BY <1>5, Words
<1>6. CASE c.cmd = "clear"
  BY <1>6, Words
<1> QED BY <1>1, <1>2, <1>3, <1>4, <1>5, <1>6

LEMMA Joined == <<>> \o <<>> = <<>> /\ \A t : <<>> \o <<t>> = <<t>>
<1>1. <<>> \o <<>> = <<>>
  BY EmptySeq, ConcatEmptySeq
<1>2. ASSUME NEW t PROVE <<>> \o <<t>> = <<t>>
  <2>1. <<t>> \in Seq({t})
    OBVIOUS
  <2> QED BY <2>1, ConcatEmptySeq
<1> QED BY <1>1, <1>2

LEMMA LineAnswered ==
  ASSUME WorldIs, NEW c, IsLine(c), world.running => c = Empty, out.texts = <<>>,
         world' = Done(c), out' = [texts |-> out.texts \o Reply(c), prompt |-> ~ world'.running]
  PROVE  Heeded(c)'
<1> DEFINE texts == Reply(c)
<1>1. out'.texts = <<>> \o texts
  OBVIOUS
<1>2. Obeys(c) /\ (c.cmd = "set" => world'.memory[c.offset] = c.value)
      /\ (c.cmd = "stop_at" /\ c.line \in Lines => c.line \in world'.stops)
      /\ (c.cmd = "clear" => c.line \notin world'.stops)
  BY LineDone, Zenon
<1> HIDE DEF texts
<1> USE DEF Heeded, IsLine, Obeys
<1>3. CASE c = Locals
  <2>1. texts = <<[kind |-> "locals", regs |-> [r \in Scope[world.line] |-> world.regs[r]]]>>
    BY <1>3, Words DEF Reply, texts
  <2> QED BY <1>1, <1>2, <1>3, <2>1, Words, Joined
<1>4. CASE c = Where
  <2>1. texts = <<[kind |-> "where", line |-> world.line]>>
    BY <1>4, Words DEF Reply, texts
  <2> QED BY <1>1, <1>2, <1>4, <2>1, Words, Joined
<1>5. CASE c = Size
  <2>1. texts = <<[kind |-> "size"]>>
    BY <1>5, Words DEF Reply, texts
  <2> QED BY <1>1, <1>2, <1>5, <2>1, Words, Joined
<1>6. CASE c = PrintRa
  <2>1. texts = <<[kind |-> "value", value |-> world.ra]>>
    BY <1>6, Words DEF Reply, texts
  <2> QED BY <1>1, <1>2, <1>6, <2>1, Words, Joined
<1>7. CASE c.cmd = "print"
  <2>1. texts = <<[kind |-> "value", value |-> world.memory[c.offset]]>>
    BY <1>7, Words DEF Reply, texts
  <2> QED BY <1>1, <1>2, <1>7, <2>1, Words, Joined
<1>8. CASE c.cmd = "set"
  <2>1. texts = <<[kind |-> "set", offset |-> c.offset, value |-> c.value]>>
    BY <1>8, Words DEF Reply, texts
  <2> QED BY <1>1, <1>2, <1>8, <2>1, Words, Joined
<1>9. CASE c.cmd = "stop_at"
  <2>1. texts = IF c.line \in Lines THEN <<>> ELSE <<[kind |-> "unable"]>>
    BY <1>9, Words DEF Reply, texts
  <2> QED BY <1>1, <1>2, <1>9, <2>1, Words, Joined
<1>10. CASE c.cmd = "clear"
  <2>1. texts \in {<<>>, <<[kind |-> "not_found"]>>}
    BY <1>10, Words DEF Reply, texts
  <2> QED BY <1>1, <1>2, <1>10, <2>1, Words, Joined
<1>11. CASE c \in {Empty, Resume}
  <2>1. texts = <<>>
    BY <1>11, Words DEF Reply, texts
  <2> QED BY <1>1, <1>2, <1>11, <2>1, Words, Joined
<1> QED BY <1>3, <1>4, <1>5, <1>6, <1>7, <1>8, <1>9, <1>10, <1>11

-------------------------------------------------------------------------------
(* What holds whether or not a retry crossed a stop.                         *)
LEMMA WorldKept ==
  ASSUME WorldIs, Reads \/ Prints \/ Shows \/ Stops
  PROVE  WorldIs'
<1>1. CASE Reads
  <2> DEFINE c == Head(lines)
  <2>1. world' = Done(c) /\ out'.prompt = ~ world'.running
    BY <1>1 DEF Reads, JdbReads, Line
  <2> HIDE DEF c
  <2>2. IsWorld(Done(c))
    BY DEF Done, WorldIs, IsWorld
  <2> QED BY <2>1, <2>2 DEF WorldIs, IsWorld
<1>2. CASE Prints
  <2>1. world' = [world EXCEPT !.prints = TRUE] /\ out' = out
    BY <1>2 DEF Prints
  <2>2. IsWorld(world') /\ world'.running = world.running
    BY <2>1 DEF WorldIs, IsWorld
  <2> QED BY <2>1, <2>2 DEF WorldIs
<1>3. CASE Shows
  <2>1. world' = [world EXCEPT !.prints = FALSE] /\ ~ out'.prompt
    BY <1>3 DEF Shows, Line
  <2>2. IsWorld(world')
    BY <2>1 DEF WorldIs, IsWorld
  <2> QED BY <2>1, <2>2 DEF WorldIs
<1>4. CASE Stops
  <2>1. PICK line \in world.stops, rs \in [Registers -> Values], ra \in Values, o \in Memory, v \in Values :
          world' = [world EXCEPT !.running = FALSE, !.line = line, !.regs = rs, !.ra = ra, !.memory[o] = v]
    BY <1>4 DEF Stops, Stop
  <2>2. IsWorld(world') /\ ~ world'.running
    BY <2>1 DEF WorldIs, IsWorld
  <2> QED BY <2>2 DEF WorldIs
<1> QED BY <1>1, <1>2, <1>3, <1>4

LEMMA ThreadHears ==
  ASSUME ThreadIs, Hear
  PROVE  ThreadIs' /\ thread'.packet = thread.packet /\ UNCHANGED <<gdb, wire, inputQueue, answered>>
<1> USE DEF ThreadIs
<1> DEFINE c == Head(thread.todo)
           texts == out.texts
<1>1. thread' \in Heard(c, texts) /\ UNCHANGED <<gdb, wire, inputQueue, answered>> /\ thread.waits
  BY DEF Hear
<1> HIDE DEF c, texts
<1>2. thread' \in {Dead, Failed, On} \/ \E v : thread' = OnWith(v)
  BY <1>1 DEF Heard
<1>3. CASE thread' \in {Dead, Failed, On}
  BY <1>1, <1>3 DEF Dead, Failed, On
<1>4. ASSUME NEW v, thread' = OnWith(v) PROVE ThreadIs' /\ thread'.packet = thread.packet
  BY <1>1, <1>4 DEF OnWith, On
<1> QED BY <1>1, <1>2, <1>3, <1>4

LEMMA ThreadKept ==
  ASSUME WorldIs, ThreadIs, OnePacket, GdbSends \/ Reader \/ JdbThread
  PROVE  ThreadIs'
<1> USE DEF ThreadIs
<1>1. CASE GdbSends
  BY <1>1 DEF GdbSends
<1>2. CASE Reader
  BY <1>2 DEF Reader
<1>3. CASE Listen
  BY <1>3 DEF Listen, Idle
<1>4. CASE Take
  <2> DEFINE p == Head(inputQueue)
  <2>1. p \in Packets /\ answered = None
    BY <1>4 DEF Take, OnePacket
  <2>2. Fatal(p) => Dialog(p) = <<>>
    BY DEF Fatal, Dialog
  <2>3. /\ thread'.at = IF Fatal(p) THEN "dead" ELSE "idle"
        /\ thread'.packet = p /\ thread'.todo = Dialog(p) /\ ~ thread'.waits
        /\ thread' = [at |-> thread'.at, packet |-> thread'.packet, todo |-> thread'.todo,
                      waits |-> thread'.waits, values |-> thread'.values, failed |-> thread'.failed]
    BY <1>4 DEF Take, Idle
  <2> HIDE DEF p
  <2>4. thread'.at # "init" /\ (thread'.at = "dead" => thread'.todo = <<>> /\ ~ thread'.waits)
        /\ thread'.waits = FALSE /\ thread'.packet \in Packets
    BY <2>1, <2>2, <2>3
  <2> QED BY <2>3, <2>4
<1>5. CASE Say
  BY <1>5 DEF Say
<1>6. CASE Hear
  BY <1>6, ThreadHears
<1>7. CASE Retry
  BY <1>7 DEF Retry
<1>8. CASE Respond
  BY <1>8 DEF Respond, Idle
<1> QED BY <1>1, <1>2, <1>3, <1>4, <1>5, <1>6, <1>7, <1>8 DEF JdbThread

LEMMA PacketKept ==
  ASSUME ThreadIs, OnePacket, Next
  PROVE  OnePacket'
<1>1. CASE GdbSends
  <2>1. PICK p \in Packets : gdb' = p /\ wire' = <<"+", "$", p>>
    BY <1>1 DEF GdbSends
  <2>2. wire = <<>> /\ inputQueue = <<>> /\ thread.packet = None
    BY <1>1, MemoryIs DEF GdbSends, OnePacket
  <2> QED BY <1>1, <2>1, <2>2 DEF GdbSends, OnePacket
<1>2. CASE Reader
  <2>1. gdb \in Packets /\ answered = None /\ inputQueue = <<>> /\ thread.packet = None
        /\ wire \in {<<"+", "$", gdb>>, <<"$", gdb>>}
    BY <1>2 DEF Reader, OnePacket
  <2>2. CASE wire = <<"+", "$", gdb>>
    <3>1. wire' = <<"$", gdb>> /\ inputQueue' = <<>>
      BY <1>2, <2>1, <2>2 DEF Reader
    <3> QED BY <1>2, <2>1, <3>1 DEF Reader, OnePacket
  <2>3. CASE wire = <<"$", gdb>>
    <3>1. wire' = SubSeq(wire, 3, Len(wire)) /\ inputQueue' = Append(inputQueue, wire[2])
      BY <1>2, <2>3 DEF Reader
    <3>2. wire' = <<>> /\ inputQueue' = <<gdb>>
      BY <2>1, <2>3, <3>1
    <3> QED BY <1>2, <2>1, <3>2 DEF Reader, OnePacket
  <2> QED BY <2>1, <2>2, <2>3
<1>3. CASE Listen
  BY <1>3 DEF Listen, OnePacket, ThreadIs, Idle
<1>4. CASE Take
  <2>1. gdb \in Packets /\ answered = None /\ inputQueue = <<gdb>> /\ wire = <<>>
    BY <1>4 DEF Take, OnePacket
  <2>2. thread'.packet = gdb /\ inputQueue' = <<>>
    BY <1>4, <2>1 DEF Take, Idle
  <2> QED BY <1>4, <2>1, <2>2 DEF Take, OnePacket
<1>5. CASE Hear
  BY <1>5, ThreadHears DEF OnePacket
<1>6. CASE Respond
  BY <1>6 DEF Respond, OnePacket, Idle
<1>7. CASE Say
  BY <1>7 DEF Say, OnePacket, ThreadIs
<1>8. CASE Retry \/ Stops \/ Reads \/ Talks
  BY <1>8 DEF Retry, Stops, Reads, Talks, OnePacket, server
<1> QED BY <1>1, <1>2, <1>3, <1>4, <1>5, <1>6, <1>7, <1>8 DEF Next, JdbThread

-------------------------------------------------------------------------------
(* What holds unless a retry crossed a stop: the steps that leave the dialog *)
(* where it is.                                                              *)
SameDialog == thread'.at = thread.at /\ thread'.packet = thread.packet /\ thread'.todo = thread.todo
              /\ thread'.values = thread.values /\ thread'.failed = thread.failed
SameRegisters == world'.line = world.line /\ world'.regs = world.regs /\ world'.ra = world.ra
                 /\ UNCHANGED <<stateValid, regs>>
SameWorld == world'.running = world.running /\ world'.memory = world.memory /\ world'.stops = world.stops

LEMMA DialogKept ==
  ASSUME DialogIs, SameDialog
  PROVE  DialogIs'
<1> USE DEF SameDialog
<1>1. ASSUME NEW c PROVE Speaks(c)' = Speaks(c)
  <2>1. \A k : Busy(k)' = Busy(k)
    BY DEF Busy
  <2> QED BY <2>1 DEF Speaks
<1> QED BY <1>1 DEF DialogIs

(* A program that goes on has no registers read.                             *)
NothingRead == ~ stateValid /\ \A i \in DOMAIN thread.todo : i <= 2 => thread.todo[i] # Where

LEMMA StateKept ==
  ASSUME StateCurrent, SameDialog, SameRegisters, world'.running => world.running \/ NothingRead
  PROVE  StateCurrent'
<1> USE DEF SameDialog, SameRegisters
<1>1. RegistersRead' = RegistersRead
  BY DEF RegistersRead
<1>2. (\A k : Busy(k)' = Busy(k)) /\ (\A c : ToSay(c)' = ToSay(c))
  BY DEF Busy, ToSay
<1> QED BY <1>1, <1>2 DEF StateCurrent, NothingRead, WhereLast

LEMMA ReturnAddressKept ==
  ASSUME ReturnAddressRead, SameDialog, SameRegisters
  PROVE  ReturnAddressRead'
BY DEF ReturnAddressRead, SameDialog, SameRegisters, Busy, ToSay

LEMMA EffectsKept ==
  ASSUME EffectsThere, SameDialog, SameWorld
  PROVE  EffectsThere'
<1> USE DEF SameDialog, SameWorld
<1>1. (\A k : Busy(k)' = Busy(k)) /\ (\A c : ToSay(c)' = ToSay(c)) /\ (\A p : WordsRead(p)' = WordsRead(p))
  BY DEF Busy, ToSay, WordsRead
<1> QED BY <1>1 DEF EffectsThere

LEMMA AllKept ==
  ASSUME DialogIs, StateCurrent, ReturnAddressRead, EffectsThere, SameDialog, SameRegisters, SameWorld
  PROVE  DialogIs' /\ StateCurrent' /\ ReturnAddressRead' /\ EffectsThere'
<1>1. world'.running = world.running
  BY DEF SameWorld
<1>2. StateCurrent'
  BY <1>1, StateKept
<1> QED BY <1>2, DialogKept, ReturnAddressKept, EffectsKept

(* While a dialog goes on there is no answer yet.                            *)
LEMMA Asked ==
  ASSUME ThreadIs, OnePacket, DialogIs, thread.todo # <<>>
  PROVE  answered = None /\ thread.at # "dead"
BY MemoryIs DEF ThreadIs, OnePacket, DialogIs

LEMMA NotAnswered ==
  ASSUME AnswersCurrent, answered' = None, thread'.at = thread.at, thread'.packet = thread.packet,
         ~ late
  PROVE  AnswersCurrent'
BY DEF AnswersCurrent

LEMMA SayKept ==
  ASSUME ThreadIs, OnePacket, Timely, Say
  PROVE  Timely'
<1> DEFINE c == Head(thread.todo)
<1>1. SameDialog /\ SameRegisters /\ SameWorld
  BY DEF Say, SameDialog, SameRegisters, SameWorld, ThreadIs
<1>2. thread.todo # <<>> /\ ~ thread.waits /\ thread'.waits /\ UNCHANGED <<world, out, late, answered>>
      /\ lines' = Append(lines, c) /\ thread'.todo = thread.todo
  BY DEF Say, ThreadIs
<1>3. lines = <<>> /\ out.texts = <<>> /\ ~ out.prompt /\ (world.running => c = Empty)
  BY <1>2 DEF Timely, LineInPlace, Unsaid, RunsOnlyWhenTold
<1>4. Said'
  BY <1>2, <1>3 DEF Said
<1>5. LineInPlace' /\ RunsOnlyWhenTold'
  BY <1>1, <1>2, <1>4 DEF LineInPlace, RunsOnlyWhenTold, SameDialog, Busy, Timely
<1>6. answered = None
  BY <1>2, Asked DEF Timely
<1>7. AnswersCurrent'
  BY <1>1, <1>2, <1>6 DEF AnswersCurrent, SameDialog, Timely
<1> QED BY <1>1, <1>5, <1>7, AllKept DEF Timely

LEMMA RetryKept ==
  ASSUME ThreadIs, OnePacket, Timely, Retry, ~ late'
  PROVE  Timely'
<1>1. SameDialog /\ SameRegisters /\ SameWorld /\ thread.waits /\ world.running /\ ~ late
      /\ UNCHANGED <<world, out, thread, answered>> /\ lines' = <<Empty, Empty>> /\ lines = <<>>
  BY DEF Retry, SameDialog, SameRegisters, SameWorld, PromptAgain
<1>2. Running /\ thread.todo # <<>>
  BY <1>1 DEF Timely, LineInPlace, Unsaid, Said, Obeyed
<1>3. LineInPlace' /\ RunsOnlyWhenTold'
  BY <1>1, <1>2 DEF LineInPlace, Running, RunsOnlyWhenTold, Busy, Timely
<1>4. AnswersCurrent'
  BY <1>1, <1>2, Asked, NotAnswered DEF Timely
<1> QED BY <1>1, <1>3, <1>4, AllKept DEF Timely

LEMMA TalksKept ==
  ASSUME WorldIs, Timely, Talks, ~ late
  PROVE  Timely'
<1>1. SameDialog /\ SameRegisters /\ SameWorld /\ UNCHANGED <<lines, thread, late, answered>>
  BY DEF Talks, Prints, Shows, SameDialog, SameRegisters, SameWorld, server, WorldIs, IsWorld
<1>2. out'.texts = out.texts /\ (out'.prompt => out.prompt)
  <2>1. CASE Prints
    BY <2>1 DEF Prints
  <2>2. CASE Shows
    <3>1. out' = [texts |-> out.texts \o <<>>, prompt |-> FALSE]
      BY <2>2 DEF Shows, Line
    <3> QED BY <3>1
  <2> QED BY <2>1, <2>2 DEF Talks
<1>3. ASSUME NEW c, Heeded(c) PROVE Heeded(c)'
  BY <1>1, <1>3, <1>2 DEF Heeded, SameRegisters, SameWorld
<1>4. LineInPlace'
  BY <1>1, <1>2, <1>3 DEF LineInPlace, Unsaid, Said, Obeyed, Running, SameWorld, Timely
<1>5. RunsOnlyWhenTold'
  BY <1>1 DEF RunsOnlyWhenTold, SameWorld, Busy, Timely
<1>6. AnswersCurrent'
  BY <1>1 DEF AnswersCurrent, Current, Timely, SameWorld, SameRegisters
<1> QED BY <1>1, <1>4, <1>5, <1>6, AllKept DEF Timely

LEMMA SendsKept ==
  ASSUME Timely, GdbSends \/ Reader, ~ late
  PROVE  Timely'
<1>1. SameDialog /\ SameRegisters /\ SameWorld /\ UNCHANGED <<world, lines, out, thread, late>>
      /\ (answered' = None \/ answered' = answered)
  BY DEF GdbSends, Reader, SameDialog, SameRegisters, SameWorld, jdb
<1>2. LineInPlace' /\ RunsOnlyWhenTold'
  BY <1>1 DEF LineInPlace, Unsaid, Said, Obeyed, Heeded, Running, RunsOnlyWhenTold, Busy, Timely
<1>3. AnswersCurrent'
  BY <1>1 DEF AnswersCurrent, Current, Timely
<1> QED BY <1>1, <1>2, <1>3, AllKept DEF Timely

LEMMA EmptySeqIs == IsSeq(<<>>) /\ DOMAIN <<>> = {} /\ Len(<<>>) = 0
<1>1. <<>> \in Seq({<<>>[i] : i \in DOMAIN <<>>})
  BY EmptySeq
<1> QED BY <1>1, EmptySeq, LenProperties DEF IsSeq

LEMMA ListenKept ==
  ASSUME Timely, ThreadIs, Listen, ~ late
  PROVE  Timely'
<1>1. thread.at = "init" /\ thread.todo = <<>> /\ thread' = Idle /\ answered = None
      /\ UNCHANGED <<world, lines, out, stateValid, regs, late, answered>>
  BY DEF Listen, jdb, ThreadIs
<1>2. thread'.at = "idle" /\ thread'.packet = None /\ thread'.todo = <<>> /\ thread'.values = <<>>
      /\ ~ thread'.waits
  BY <1>1 DEF Idle
<1>3. \A k : ~ Busy(k)'
  BY <1>2 DEF Busy
<1>4. DialogIs'
  BY <1>2, EmptySeqIs DEF DialogIs
<1>5. LineInPlace' /\ RunsOnlyWhenTold'
  BY <1>1, <1>2 DEF LineInPlace, RunsOnlyWhenTold, Unsaid, Timely
<1>6. StateCurrent'
  <2>1. RegistersRead' = RegistersRead
    BY <1>1 DEF RegistersRead
  <2> QED BY <1>1, <1>2, <1>3, <2>1, EmptySeqIs DEF StateCurrent, Timely
<1>7. ReturnAddressRead' /\ EffectsThere'
  BY <1>3 DEF ReturnAddressRead, EffectsThere
<1>8. AnswersCurrent'
  BY <1>1, <1>2 DEF AnswersCurrent
<1> QED BY <1>4, <1>5, <1>6, <1>7, <1>8 DEF Timely

LEMMA StopsKept ==
  ASSUME WorldIs, ThreadIs, OnePacket, Timely, Stops, ~ late'
  PROVE  Timely'
<1>1. /\ world.running /\ ~ world'.running /\ out'.texts = out.texts \o <<>>
      /\ ~ late /\ lines = <<>> /\ thread.waits
      /\ UNCHANGED <<lines, gdb, wire, inputQueue, thread, stateValid, regs, answered>>
  <2>1. PICK line \in world.stops, rs \in [Registers -> Values], ra \in Values, o \in Memory, v \in Values :
          world' = [world EXCEPT !.running = FALSE, !.line = line, !.regs = rs, !.ra = ra, !.memory[o] = v]
    BY DEF Stops, Stop
  <2>2. ~ world'.running
    BY <2>1 DEF WorldIs, IsWorld
  <2> QED BY <2>2 DEF Stops, Stop, Line
<1> DEFINE c == Head(thread.todo)
<1>2. Running /\ thread.todo # <<>> /\ c \in {Empty, Resume}
  BY <1>1 DEF Timely, LineInPlace, Unsaid, Said, Obeyed, Running
<1>3. out'.texts = <<>>
  BY <1>1, <1>2, Joined DEF Running
<1>4. ASSUME NEW d \in {Empty, Resume} PROVE Heeded(d)'
  BY <1>3, Words DEF Heeded
<1>5. LineInPlace' /\ RunsOnlyWhenTold'
  BY <1>1, <1>2, <1>4 DEF LineInPlace, Obeyed, RunsOnlyWhenTold
<1>6. SameDialog /\ (thread.at = "init" \/ Busy("c"))
  BY <1>1 DEF SameDialog, Timely, RunsOnlyWhenTold
<1>7. DialogIs'
  BY <1>6, DialogKept DEF Timely
<1>8. StateCurrent'
  <2>1. ~ stateValid /\ \A i \in DOMAIN thread.todo : thread.todo[i] = Where => ~ (i <= 2)
    BY <1>1 DEF StateCurrent, WhereLast, Timely
  <2> QED BY <1>1, <2>1 DEF StateCurrent, WhereLast, ToSay, Busy, Timely
<1>9. ReturnAddressRead' /\ EffectsThere'
  <2>1. ~ Busy("p")' /\ ~ Busy("m")' /\ ~ Busy("M")' /\ ~ Busy("Z")' /\ ~ Busy("z")'
    BY <1>1, <1>6, MemoryIs DEF Busy, ThreadIs
  <2> QED BY <2>1 DEF ReturnAddressRead, EffectsThere
<1>10. answered' = None
  BY <1>1, <1>2, Asked DEF Timely
<1>11. AnswersCurrent'
  BY <1>1, <1>10 DEF AnswersCurrent, Timely
<1> QED BY <1>5, <1>7, <1>8, <1>9, <1>11 DEF Timely

(* jdb reads the line that the thread waits for the prompt of.               *)
LEMMA SaidRead ==
  ASSUME WorldIs, ThreadIs, OnePacket, Timely, ~ late, ~ late',
         NEW c, c = Head(thread.todo), c = thread.todo[1], 1 \in DOMAIN thread.todo, thread.todo # <<>>,
         Speaks(c), world.running => c = Empty, out.texts = <<>>, thread.waits,
         world' = Done(c), lines' = <<>>,
         out' = [texts |-> out.texts \o Reply(c), prompt |-> ~ world'.running],
         UNCHANGED <<thread, stateValid, regs, answered>>
  PROVE  Timely'
<1>1. IsLine(c)
  BY LineIs
<1>2. Heeded(c)'
  BY <1>1, LineAnswered
<1>3. /\ Obeys(c)
      /\ c.cmd = "set" => world'.memory[c.offset] = c.value
      /\ c.cmd = "stop_at" /\ c.line \in Lines => c.line \in world'.stops
      /\ c.cmd = "clear" => c.line \notin world'.stops
  BY <1>1, LineDone
<1>4. SameDialog /\ SameRegisters
  BY <1>3 DEF SameDialog, SameRegisters, Obeys
<1>5. c = Resume => Busy("c")
  BY SpokenFor, Words
<1>6. LineInPlace'
  <2>1. CASE world'.running
    <3>1. c \in {Empty, Resume}
      BY <1>3, <2>1 DEF Obeys
    <3>2. out'.texts = <<>>
      BY <1>2, <3>1 DEF Heeded
    <3> QED BY <2>1, <3>1, <3>2 DEF LineInPlace, Running
  <2>2. CASE ~ world'.running
    BY <1>2, <2>2 DEF LineInPlace, Obeyed
  <2> QED BY <2>1, <2>2
<1>7. RunsOnlyWhenTold'
  BY <1>3, <1>4, <1>5 DEF RunsOnlyWhenTold, Timely, Obeys, Busy, SameDialog
<1>8. StateCurrent'
  <2>1. c = Resume => NothingRead
    <3> SUFFICES ASSUME c = Resume PROVE NothingRead
      OBVIOUS
    <3>1. ~ stateValid /\ c # Empty /\ c # Where
      BY Words DEF StateCurrent, Timely
    <3>2. ASSUME NEW i \in DOMAIN thread.todo, i <= 2 PROVE thread.todo[i] # Where
      <4>1. i = 1 \/ i = 2
        BY <3>2, SeqDomain DEF Timely, DialogIs
      <4>2. thread.todo[2] = Where /\ 2 \in DOMAIN thread.todo => thread.todo[1] = Empty
        BY DEF StateCurrent, WhereLast, Timely
      <4> QED BY <3>1, <3>2, <4>1, <4>2
    <3> QED BY <3>1, <3>2 DEF NothingRead
  <2>2. world'.running => world.running \/ NothingRead
    BY <1>3, <2>1 DEF Obeys
  <2> QED BY <1>4, <2>2, StateKept DEF Timely
<1>9. EffectsThere'
  <2> USE DEF SameDialog
  <2>1. (\A k : Busy(k)' = Busy(k)) /\ (\A d : ToSay(d)' = ToSay(d))
    BY <1>4 DEF Busy, ToSay
  <2>2. EffectsThere
    BY DEF Timely
  <2>3. Busy("m") => c.cmd # "set"
    BY SpokenFor, KindsDiffer, SMTT(40)
  <2>4. ASSUME Busy("m"), InData(thread.packet) PROVE WordsRead(thread.packet)'
    <3>1. WordsRead(thread.packet) /\ world'.memory = world.memory
      BY <1>3, <2>2, <2>3, <2>4 DEF EffectsThere, Obeys
    <3> QED BY <1>4, <3>1 DEF WordsRead
  <2>5. ASSUME Busy("M"), InData(thread.packet)
        PROVE  world'.memory = world.memory \/ world'.memory[thread.packet.addr \div 4] = thread.packet.value
    <3>1. c.cmd = "set" => c.offset = thread.packet.addr \div 4 /\ c.value = thread.packet.value
      BY SpokenFor
    <3> QED BY <1>3, <3>1 DEF Obeys
  <2>6. ASSUME Busy("Z")
        PROVE  LET line == convertAddressToLine(thread.packet.addr) IN
                 line \in Lines => world'.stops = world.stops \/ line \in world'.stops
    <3>1. c.cmd # "clear" /\ (c.cmd = "stop_at" => c.line = convertAddressToLine(thread.packet.addr))
      BY <2>6, SpokenFor, KindsDiffer
    <3> QED BY <1>3, <3>1 DEF Obeys
  <2>7. ASSUME Busy("z")
        PROVE  world'.stops = world.stops \/ convertAddressToLine(thread.packet.addr) \notin world'.stops
    <3>1. c.cmd # "stop_at" /\ (c.cmd = "clear" => c.line = convertAddressToLine(thread.packet.addr))
      BY <2>7, SpokenFor, KindsDiffer
    <3> QED BY <1>3, <3>1 DEF Obeys
  <2> QED BY <2>1, <2>2, <2>4, <2>5, <2>6, <2>7 DEF EffectsThere
<1>10. AnswersCurrent'
  <2>1. answered' = None
    BY Asked DEF Timely
  <2> QED BY <2>1, NotAnswered DEF Timely
<1> QED BY <1>4, <1>6, <1>7, <1>8, <1>9, <1>10, DialogKept, ReturnAddressKept DEF Timely

(* jdb reads an empty line that asked for the prompt again.                  *)
LEMMA AgainRead ==
  ASSUME WorldIs, ThreadIs, OnePacket, Timely, ~ late, ~ late',
         NEW c, c = Head(thread.todo), thread.todo # <<>>, c \in {Empty, Resume},
         world.running, out.texts = <<>>, thread.waits,
         world' = Done(Empty), lines' \in {<<>>, <<Empty>>},
         out' = [texts |-> out.texts \o Reply(Empty), prompt |-> ~ world'.running],
         UNCHANGED <<thread, stateValid, regs, answered>>
  PROVE  Timely'
<1>1. world' = world /\ out'.texts = <<>> /\ ~ out'.prompt
  BY Words, Joined DEF Done, Reply
<1>2. SameDialog /\ SameRegisters /\ SameWorld
  BY <1>1 DEF SameDialog, SameRegisters, SameWorld
<1>3. LineInPlace'
  BY <1>1 DEF LineInPlace, Running
<1>4. RunsOnlyWhenTold'
  BY <1>1 DEF RunsOnlyWhenTold, Busy, Timely
<1>5. AnswersCurrent'
  <2>1. answered' = None
    BY Asked DEF Timely
  <2> QED BY <2>1, NotAnswered DEF Timely
<1> QED BY <1>2, <1>3, <1>4, <1>5, AllKept DEF Timely

LEMMA ReadsKept ==
  ASSUME WorldIs, ThreadIs, OnePacket, Timely, Reads, ~ late
  PROVE  Timely'
<1>1. lines # <<>> /\ world' = Done(Head(lines)) /\ lines' = Tail(lines)
      /\ out' = [texts |-> out.texts \o Reply(Head(lines)), prompt |-> ~ world'.running]
      /\ UNCHANGED <<thread, stateValid, regs, late, answered>>
  BY DEF Reads, JdbReads, Line, server
<1>2. thread.waits /\ thread.todo # <<>> /\ out.texts = <<>>
      /\ (Said \/ (Running /\ lines \in {<<Empty>>, <<Empty, Empty>>}))
  BY <1>1 DEF Timely, LineInPlace, Unsaid, Said, Obeyed, Running
<1>3. PICK c : c = Head(thread.todo)
  OBVIOUS
<1>4. PICK r : r = Head(lines)
  OBVIOUS
<1>5. c = thread.todo[1] /\ 1 \in DOMAIN thread.todo
  BY <1>2, <1>3, TailIs DEF Timely, DialogIs
<1>6. Speaks(c)
  BY <1>5 DEF Timely, DialogIs
<1>7. CASE Said
  <2>1. lines = <<c>> /\ (world.running => c = Empty)
    BY <1>3, <1>7 DEF Said
  <2>2. r = c /\ lines' = <<>>
    BY <1>1, <1>4, <2>1
  <2> QED BY <1>1, <1>2, <1>3, <1>4, <1>5, <1>6, <2>1, <2>2, SaidRead
<1>8. CASE Running /\ lines \in {<<Empty>>, <<Empty, Empty>>}
  <2>1. world.running /\ c \in {Empty, Resume}
    BY <1>3, <1>8 DEF Running
  <2>2. r = Empty /\ lines' \in {<<>>, <<Empty>>}
    <3>1. CASE lines = <<Empty>>
      BY <1>1, <1>4, <3>1
    <3>2. CASE lines = <<Empty, Empty>>
      BY <1>1, <1>4, <3>2
    <3> QED BY <1>8, <3>1, <3>2
  <2> QED BY <1>1, <1>2, <1>3, <1>4, <2>1, <2>2, AgainRead
<1> QED BY <1>2, <1>7, <1>8

-------------------------------------------------------------------------------
(* What the thread makes of the answer to a line.                            *)
LEMMA NoText ==
  ASSUME NEW k
  PROVE  Texts(<<>>, k) = {}
BY EmptySeqIs DEF Texts

LEMMA OneText ==
  ASSUME NEW t, NEW texts, texts = <<t>>, NEW k
  PROVE  Texts(texts, k) = IF t.kind = k THEN {t} ELSE {}
<1>1. DOMAIN texts = {1} /\ texts[1] = t
  OBVIOUS
<1> QED BY <1>1 DEF Texts

LEMMA OneShown ==
  ASSUME NEW t, NEW texts, texts = <<t>>, NEW kinds, t.kind \in kinds, t.kind # "locals"
  PROVE  Shown(texts, kinds) = {t.value}
<1> DEFINE shows == {i \in DOMAIN texts : texts[i].kind \in kinds}
<1>1. DOMAIN texts = {1} /\ texts[1] = t
  OBVIOUS
<1>2. shows = {1}
  BY <1>1
<1>3. (CHOOSE i \in shows : \A j \in shows : i <= j) = 1
  <2> HIDE DEF shows
  <2> QED BY <1>2
<1> QED BY <1>1, <1>2, <1>3 DEF Shown

HeardOf(c) ==
  /\ c \in {Empty, Size, Locals, Where, Resume} \/ c.cmd = "set" => thread' = On
  /\ c = PrintRa => thread' = OnWith(world.ra)
  /\ c.cmd = "print" => thread' = OnWith(world.memory[c.offset])
  /\ c.cmd = "stop_at" => thread' = IF c.line \in Lines THEN On ELSE Failed
  /\ c.cmd = "clear" => thread' \in {On, Failed}

LEMMA HeardIs ==
  ASSUME NEW c, IsLine(c), Heeded(c), thread' \in Heard(c, out.texts)
  PROVE  HeardOf(c)
<1> DEFINE texts == out.texts
<1> USE DEF IsLine
<1>1. CASE c \in {Empty, Locals, Where, Resume}
  <2>1. Heard(c, texts) = {On}
    BY <1>1, Words DEF Heard
  <2> QED BY <1>1, <2>1, Words DEF HeardOf
<1>2. CASE c = Size
  <2> DEFINE t == [kind |-> "size"]
  <2>1. texts = <<t>> /\ t.kind = "size"
    BY <1>2 DEF Heeded
  <2> HIDE DEF t, texts
  <2>2. Texts(texts, "size") = {t}
    BY <2>1, OneText
  <2>3. Heard(c, texts) = {On}
    BY <1>2, <2>2, Words DEF Heard
  <2> QED BY <1>2, <2>3, Words DEF HeardOf, texts
<1>3. CASE c = PrintRa
  <2> DEFINE t == [kind |-> "value", value |-> world.ra]
  <2>1. texts = <<t>> /\ t.kind = "value"
    BY <1>3 DEF Heeded
  <2>2. t.value = world.ra
    OBVIOUS
  <2> HIDE DEF t, texts
  <2>3. Shown(texts, {"locals", "value", "set"}) = {world.ra}
    BY <2>1, <2>2, OneShown
  <2>4. Heard(c, texts) = {OnWith(v) : v \in {world.ra}}
    BY <1>3, <2>3, Words DEF Heard
  <2> QED BY <1>3, <2>4, Words DEF HeardOf, texts
<1>4. CASE c.cmd = "print"
  <2> DEFINE t == [kind |-> "value", value |-> world.memory[c.offset]]
  <2>1. texts = <<t>> /\ t.kind = "value"
    BY <1>4 DEF Heeded
  <2>2. t.value = world.memory[c.offset]
    OBVIOUS
  <2> HIDE DEF t, texts
  <2>3. Shown(texts, {"value", "set"}) = {world.memory[c.offset]}
    BY <2>1, <2>2, OneShown
  <2>4. Heard(c, texts) = {OnWith(v) : v \in {world.memory[c.offset]}}
    BY <1>4, <2>3 DEF Heard
  <2> QED BY <1>4, <2>4, Words DEF HeardOf, texts
<1>5. CASE c.cmd = "set"
  <2> DEFINE t == [kind |-> "set", offset |-> c.offset, value |-> c.value]
  <2>1. texts = <<t>> /\ t.kind = "set"
    BY <1>5 DEF Heeded
  <2>2. Texts(texts, "set") = {t}
    <3> HIDE DEF t, texts
    <3> QED BY <2>1, OneText
  <2>3. Heard(c, texts) = {On}
    BY <1>5, <2>2 DEF Heard
  <2> QED BY <1>5, <2>3, Words DEF HeardOf
<1>6. CASE c.cmd = "stop_at"
  <2> DEFINE t == [kind |-> "unable"]
  <2>1. t.kind = "unable" /\ texts = IF c.line \in Lines THEN <<>> ELSE <<t>>
    BY <1>6 DEF Heeded
  <2> HIDE DEF t, texts
  <2>2. Texts(texts, "unable") # {} <=> c.line \notin Lines
    BY <2>1, OneText, NoText
  <2>3. Heard(c, texts) = {IF c.line \in Lines THEN On ELSE Failed}
    BY <1>6, <2>2 DEF Heard
  <2> QED BY <1>6, <2>3, Words DEF HeardOf, texts
<1>7. CASE c.cmd = "clear"
  <2>1. Heard(c, texts) \in {{On}, {Failed}}
    BY <1>7 DEF Heard
  <2> QED BY <1>7, <2>1, Words DEF HeardOf
<1> QED BY <1>1, <1>2, <1>3, <1>4, <1>5, <1>6, <1>7

RegisteredOf(c) ==
  /\ c \notin {Locals, Where} => Registered(c, out.texts) = regs
  /\ c = Locals => Registered(c, out.texts) = [r \in Registers \cup {"pc"} |->
                     IF r \in Scope[world.line] THEN world.regs[r] ELSE Invalid]
  /\ c = Where => Registered(c, out.texts) = [regs EXCEPT !["pc"] = convertLineToAddress(world.line)]

LEMMA RegisteredIs ==
  ASSUME NEW c, IsLine(c), Heeded(c)
  PROVE  RegisteredOf(c)
<1> DEFINE texts == out.texts
<1>1. CASE c \notin {Locals, Where}
  <2>1. c.cmd \notin {"locals", "where"}
    BY <1>1, Words DEF IsLine
  <2> QED BY <1>1, <2>1 DEF Registered, RegisteredOf
<1>2. CASE c = Locals
  <2> DEFINE t == [kind |-> "locals", regs |-> [r \in Scope[world.line] |-> world.regs[r]]]
             found == Texts(texts, "locals")
             last == CHOOSE i \in DOMAIN texts : texts[i].kind = "locals" /\ \A j \in DOMAIN texts :
                       texts[j].kind = "locals" => j <= i
             newest == CHOOSE u \in found : u = texts[last]
  <2>1. texts = <<t>>
    BY <1>2 DEF Heeded
  <2>2. t.kind = "locals" /\ t.regs = [r \in Scope[world.line] |-> world.regs[r]]
    OBVIOUS
  <2> HIDE DEF t
  <2> HIDE DEF texts
  <2>3. found = {t}
    BY <2>1, <2>2, OneText
  <2>4. DOMAIN texts = {1} /\ texts[1] = t
    BY <2>1
  <2>5. last = 1
    BY <2>2, <2>4
  <2> HIDE DEF last
  <2>6. newest = t
    <3> HIDE DEF found
    <3> QED BY <2>3, <2>4, <2>5
  <2> HIDE DEF newest, found
  <2>7. Registered(c, texts) = IF found = {} THEN NoRegisters ELSE [r \in DOMAIN NoRegisters |->
                     IF r \in DOMAIN newest.regs THEN newest.regs[r] ELSE Invalid]
    <3> USE DEF found, last, newest
    <3>1. c.cmd = "locals"
      BY <1>2, Words
    <3> QED BY <3>1 DEF Registered
  <2>8. Registered(c, texts) = [r \in Registers \cup {"pc"} |->
                     IF r \in Scope[world.line] THEN world.regs[r] ELSE Invalid]
    BY <2>2, <2>3, <2>6, <2>7 DEF NoRegisters
  <2>9. c # Where
    BY <1>2, Words
  <2> QED BY <1>2, <2>8, <2>9 DEF RegisteredOf, texts
<1>3. CASE c = Where
  <2> DEFINE t == [kind |-> "where", line |-> world.line]
  <2>1. texts = <<t>> /\ t.kind = "where" /\ t.line = world.line
    BY <1>3 DEF Heeded
  <2> HIDE DEF t, texts
  <2>2. Texts(texts, "where") = {t}
    BY <2>1, OneText
  <2>3. (CHOOSE u \in Texts(texts, "where") : TRUE) = t
    BY <2>2
  <2>4. Registered(c, texts) = [regs EXCEPT !["pc"] = convertLineToAddress(world.line)]
    BY <1>3, <2>1, <2>2, <2>3, Words DEF Registered
  <2>5. c # Locals
    BY <1>3, Words
  <2> QED BY <1>3, <2>4, <2>5 DEF RegisteredOf, texts
<1> QED BY <1>1, <1>2, <1>3

(* The line is off the dialog, or the dialog is over because jdb refused it. *)
Goes(c) ==
  /\ thread'.at = thread.at /\ thread'.packet = thread.packet /\ ~ thread'.waits
  /\ thread'.todo = Tail(thread.todo) \/ (thread'.todo = <<>> /\ c.cmd \in {"stop_at", "clear"})
  /\ thread'.values = thread.values \/ \E v : thread'.values = Append(thread.values, v)

LEMMA HeardGoes ==
  ASSUME ThreadIs, NEW c, IsLine(c), HeardOf(c)
  PROVE  /\ Goes(c)
         /\ c.cmd \notin {"stop_at", "clear"} => thread'.todo = Tail(thread.todo) /\ thread'.failed = thread.failed
         /\ c.cmd \notin {"print", "print_ra"} => thread'.values = thread.values
         /\ c = PrintRa => thread'.values = Append(thread.values, world.ra)
         /\ c.cmd = "print" => thread'.values = Append(thread.values, world.memory[c.offset])
         /\ c.cmd = "stop_at" /\ c.line \in Lines =>
              thread'.todo = Tail(thread.todo) /\ thread'.failed = thread.failed
         /\ c.cmd = "stop_at" /\ c.line \notin Lines => thread'.todo = <<>> /\ thread'.failed
<1> USE DEF Goes, HeardOf, ThreadIs
<1>1. ASSUME thread' = On
      PROVE  thread'.at = thread.at /\ thread'.packet = thread.packet /\ ~ thread'.waits
             /\ thread'.todo = Tail(thread.todo) /\ thread'.values = thread.values
             /\ thread'.failed = thread.failed
  BY <1>1 DEF On
<1>2. ASSUME NEW v, thread' = OnWith(v)
      PROVE  thread'.at = thread.at /\ thread'.packet = thread.packet /\ ~ thread'.waits
             /\ thread'.todo = Tail(thread.todo) /\ thread'.values = Append(thread.values, v)
             /\ thread'.failed = thread.failed
  BY <1>2 DEF OnWith, On
<1>3. ASSUME thread' = Failed
      PROVE  thread'.at = thread.at /\ thread'.packet = thread.packet /\ ~ thread'.waits
             /\ thread'.todo = <<>> /\ thread'.values = thread.values /\ thread'.failed
  BY <1>3 DEF Failed
<1>4. CASE c \in {Empty, Size, Locals, Where, Resume}
  BY <1>1, <1>4, Words
<1>5. CASE c = PrintRa
  BY <1>2, <1>5, Words
<1>6. CASE c.cmd = "print"
  BY <1>2, <1>6, Words
<1>7. CASE c.cmd = "set"
  BY <1>1, <1>7, Words
<1>8. CASE c.cmd = "stop_at"
  BY <1>1, <1>3, <1>8, Words
<1>9. CASE c.cmd = "clear"
  BY <1>1, <1>3, <1>9, Words
<1> QED BY <1>4, <1>5, <1>6, <1>7, <1>8, <1>9 DEF IsLine

(* What is left of a dialog whose first line was heard.                      *)
LEMMA LeftToSay ==
  ASSUME DialogIs, thread.todo # <<>>, NEW c, c = Head(thread.todo), Goes(c)
  PROVE  /\ IsSeq(thread'.todo)
         /\ \A i \in DOMAIN thread'.todo : i + 1 \in DOMAIN thread.todo /\ thread'.todo[i] = thread.todo[i + 1]
                                           /\ i \in Nat \ {0}
         /\ c = thread.todo[1] /\ 1 \in DOMAIN thread.todo
         /\ thread'.todo = Tail(thread.todo) => \A d : ToSay(d) => d = c \/ ToSay(d)'
<1>1. IsSeq(thread.todo)
  BY DEF DialogIs
<1> DEFINE t == thread.todo
<1>2. /\ IsSeq(Tail(t)) /\ Head(t) = t[1] /\ 1 \in DOMAIN t
      /\ \A i \in DOMAIN Tail(t) : i + 1 \in DOMAIN t /\ Tail(t)[i] = t[i + 1]
      /\ \A i \in DOMAIN t : i # 1 => i - 1 \in DOMAIN Tail(t) /\ Tail(t)[i - 1] = t[i]
  BY <1>1, TailIs
<1>3. CASE thread'.todo = Tail(t)
  <2>1. \A i \in DOMAIN Tail(t) : i \in Nat \ {0}
    BY <1>2, SeqDomain
  <2>2. \A d : ToSay(d) => d = c \/ ToSay(d)'
    BY <1>2, <1>3, SMTT(40) DEF ToSay
  <2> QED BY <1>2, <1>3, <2>1, <2>2
<1>4. CASE thread'.todo = <<>> /\ thread'.todo # Tail(t)
  BY <1>2, <1>4, EmptySeqIs
<1> QED BY <1>3, <1>4 DEF Goes

LEMMA DialogHeard ==
  ASSUME DialogIs, thread.todo # <<>>, NEW c, c = Head(thread.todo), Goes(c)
  PROVE  DialogIs'
<1>1. \A d : Speaks(d)' = Speaks(d)
  <2>1. \A k : Busy(k)' = Busy(k)
    BY DEF Busy, Goes
  <2> QED BY <2>1 DEF Speaks, Goes
<1>2. IsSeq(thread'.values)
  <2>1. IsSeq(thread.values) /\ \A v : IsSeq(Append(thread.values, v))
    BY AppendIs DEF DialogIs
  <2> QED BY <2>1 DEF Goes
<1>3. ASSUME NEW i \in DOMAIN thread'.todo PROVE Speaks(thread.todo[i])'
  <2>1. PICK d : d = thread.todo[i + 1]
    OBVIOUS
  <2>2. Speaks(d) /\ thread'.todo[i] = d
    BY <2>1, LeftToSay DEF DialogIs
  <2>3. Speaks(d)'
    BY <1>1, <2>2
  <2> QED BY <2>2, <2>3 DEF Speaks
<1> QED BY <1>2, <1>3, LeftToSay DEF DialogIs, Goes

LEMMA StateHeard ==
  ASSUME WorldIs, DialogIs, StateCurrent, thread.todo # <<>>, ~ world.running, UNCHANGED world,
         NEW c, c = Head(thread.todo), IsLine(c), Goes(c),
         c.cmd \notin {"stop_at", "clear"} => thread'.todo = Tail(thread.todo),
         RegisteredOf(c), regs' = Registered(c, out.texts), stateValid' = (stateValid \/ c.cmd = "where"),
         c.cmd \in {"stop_at", "clear"} => thread.at # "init" /\ ~ Busy("p") /\ ~ Busy("c")
  PROVE  StateCurrent'
<1>0. "pc" \notin Registers
  BY GdbAssumption DEF GdbAssumption
<1> DEFINE t == thread.todo
           u == thread'.todo
<1>1. /\ c = t[1] /\ 1 \in DOMAIN t
      /\ \A i \in DOMAIN u : i + 1 \in DOMAIN t /\ u[i] = t[i + 1] /\ i \in Nat \ {0}
      /\ u = Tail(t) => \A d : ToSay(d) => d = c \/ ToSay(d)'
  BY LeftToSay
<1>2. c \in {Locals, Where} => ~ stateValid
  BY <1>1 DEF StateCurrent
<1>3. c = Locals => RegistersRead'
  BY <1>0, Words DEF RegisteredOf, RegistersRead
<1>4. c \notin {Locals, Where} => regs' = regs
  BY DEF RegisteredOf
<1>5. c = Where => RegistersRead' /\ regs'["pc"] = convertLineToAddress(world'.line)
  <2> SUFFICES ASSUME c = Where PROVE RegistersRead' /\ regs'["pc"] = convertLineToAddress(world'.line)
    OBVIOUS
  <2>1. RegistersRead
    <3>1. WhereLast(1)
      BY <1>1 DEF StateCurrent
    <3> QED BY <3>1 DEF WhereLast
  <2>2. regs' = [regs EXCEPT !["pc"] = convertLineToAddress(world.line)]
    BY DEF RegisteredOf
  <2> QED BY <1>0, <2>1, <2>2 DEF RegistersRead
<1>6. c.cmd = "where" <=> c = Where
  BY Words DEF IsLine
<1>7. stateValid' => /\ ~ world'.running /\ RegistersRead'
                     /\ regs'["pc"] = convertLineToAddress(world'.line)
  BY <1>2, <1>4, <1>5, <1>6 DEF StateCurrent, RegistersRead
<1>8. (thread.at = "init" \/ Busy("p") \/ Busy("c"))' => stateValid' \/ ToSay(Where)'
  BY <1>1, <1>6 DEF StateCurrent, Goes, Busy
<1>9. ASSUME NEW i \in DOMAIN u
      PROVE  (u[i] \in {Locals, Where, Resume} => ~ stateValid') /\ (u[i] = Where => WhereLast(i)')
  <2>1. i + 1 \in DOMAIN t /\ u[i] = t[i + 1] /\ i \in Nat \ {0}
    BY <1>1
  <2>2. c = Where => u[i] \notin {Locals, Where, Resume}
    <3>1. c = Where => WhereLast(1)
      BY <1>1 DEF StateCurrent
    <3> QED BY <2>1, <3>1 DEF WhereLast
  <2>3. u[i] \in {Locals, Where, Resume} => ~ stateValid'
    BY <1>6, <2>1, <2>2 DEF StateCurrent
  <2>4. ASSUME u[i] = Where PROVE WhereLast(i)'
    <3>1. WhereLast(i + 1)
      BY <2>1, <2>4 DEF StateCurrent
    <3>2. t[i] = Empty /\ (i >= 2 => t[i - 1] = Locals) /\ (i = 1 => RegistersRead)
          /\ \A j \in DOMAIN t : j > i + 1 => t[j] \notin {Locals, Where, Resume}
      BY <2>1, <3>1 DEF WhereLast
    <3>3. i >= 2 => u[i - 1] = Empty
      <4>1. i >= 2 => i - 1 \in DOMAIN u /\ u[i - 1] = t[i]
        <5>1. DOMAIN u = 1 .. Len(u) /\ Len(u) \in Nat
          BY LeftToSay, SeqDomain
        <5> QED BY <1>1, <2>1, <5>1
      <4> QED BY <3>2, <4>1
    <3>4. i >= 3 => u[i - 2] = Locals
      <4>1. i >= 3 => i - 2 \in DOMAIN u /\ u[i - 2] = t[i - 1]
        <5>1. DOMAIN u = 1 .. Len(u) /\ Len(u) \in Nat
          BY LeftToSay, SeqDomain
        <5>2. i >= 3 => i - 2 \in DOMAIN u /\ (i - 2) + 1 = i - 1
          BY <2>1, <5>1
        <5> QED BY <1>1, <5>2
      <4> QED BY <2>1, <3>2, <4>1
    <3>5. i <= 2 => RegistersRead' /\ ~ world'.running
      <4>1. CASE i = 1
        <5>1. c = Empty /\ RegistersRead
          BY <1>1, <3>2, <4>1
        <5>2. regs' = regs
          BY <1>4, <5>1, Words
        <5> QED BY <5>1, <5>2 DEF RegistersRead
      <4>2. CASE i = 2
        <5>1. c = Locals
          BY <1>1, <3>2, <4>2
        <5> QED BY <1>3, <5>1
      <4> QED BY <2>1, <4>1, <4>2
    <3>6. \A j \in DOMAIN u : j > i => u[j] \notin {Locals, Where, Resume}
      BY <1>1, <2>1, <3>2
    <3> QED BY <3>3, <3>4, <3>5, <3>6 DEF WhereLast
  <2> QED BY <2>3, <2>4
<1> QED BY <1>7, <1>8, <1>9 DEF StateCurrent

LEMMA AddressHeard ==
  ASSUME DialogIs, ReturnAddressRead, thread.todo # <<>>, UNCHANGED world,
         NEW c, c = Head(thread.todo), IsLine(c), Speaks(c), Goes(c),
         c.cmd \notin {"stop_at", "clear"} => thread'.todo = Tail(thread.todo),
         c.cmd \notin {"print", "print_ra"} => thread'.values = thread.values,
         c = PrintRa => thread'.values = Append(thread.values, world.ra)
  PROVE  ReturnAddressRead'
<1> SUFFICES ASSUME Busy("p")', thread'.packet.reg = "ra"
             PROVE  \/ thread'.values = <<>> /\ ToSay(PrintRa)'
                    \/ thread'.values # <<>> /\ thread'.values[1] = world'.ra
  BY DEF ReturnAddressRead
<1>1. Busy("p") /\ thread.packet.reg = "ra"
  BY DEF Busy, Goes
<1>2. \/ thread.values = <<>> /\ ToSay(PrintRa)
      \/ thread.values # <<>> /\ thread.values[1] = world.ra
  BY <1>1 DEF ReturnAddressRead
<1>3. c.cmd \notin {"stop_at", "clear", "print"}
  BY <1>1, SpokenFor, KindsDiffer
<1>4. \A d : ToSay(d) => d = c \/ ToSay(d)'
  BY <1>3, LeftToSay
<1>5. IsSeq(thread.values)
  BY DEF DialogIs
<1>6. CASE c = PrintRa
  <2>1. /\ thread'.values # <<>> /\ Len(thread.values) \in Nat
        /\ \A i \in 1 .. Len(thread.values) : thread'.values[i] = thread.values[i]
        /\ thread'.values[Len(thread.values) + 1] = world.ra
    BY <1>5, <1>6, AppendIs
  <2>2. CASE thread.values = <<>>
    BY <2>1, <2>2, EmptySeqIs
  <2>3. CASE thread.values # <<>>
    <3>1. 1 \in 1 .. Len(thread.values)
      BY <1>5, <2>3, TailIs
    <3> QED BY <1>2, <2>1, <2>3, <3>1
  <2> QED BY <2>2, <2>3
<1>7. CASE c # PrintRa
  <2>1. c.cmd # "print_ra"
    BY <1>7, Words DEF IsLine
  <2> QED BY <1>2, <1>3, <1>4, <1>7, <2>1
<1> QED BY <1>6, <1>7

(* An empty line asks for the prompt, the next one for a word.               *)
LEMMA WordsHeard ==
  ASSUME DialogIs, thread.todo # <<>>, UNCHANGED world, WordsRead(thread.packet),
         NEW c, c = Head(thread.todo), thread'.packet = thread.packet,
         c.cmd = "print" \/ c = Empty,
         thread'.todo = Tail(thread.todo), thread'.failed = thread.failed,
         c = Empty => thread'.values = thread.values,
         c.cmd = "print" => thread'.values = Append(thread.values, world.memory[c.offset])
  PROVE  WordsRead(thread.packet)'
<1> DEFINE p == thread.packet
           words == ReadMemory(p.addr, p.length).words
           n == Len(words)
           k == Len(thread.values)
           l == Len(thread.todo)
           k1 == Len(thread'.values)
           l1 == Len(thread'.todo)
<1>1. k \in Nat /\ IsSeq(thread.todo) /\ IsSeq(thread.values)
  BY SeqDomain DEF DialogIs
<1>2. /\ l1 = l - 1 /\ l \in Nat \ {0} /\ c = thread.todo[1] /\ DOMAIN thread'.todo = 1 .. l1 /\ l1 \in Nat
      /\ \A i \in 1 .. l1 : thread'.todo[i] = thread.todo[i + 1]
  BY <1>1, TailIs, SeqDomain
<1>3. /\ ~ thread.failed /\ n \in Nat /\ k <= n /\ l \in {2 * (n - k), 2 * (n - k) - 1}
      /\ \A i \in 1 .. k : thread.values[i] = world.memory[words[i]]
      /\ \A i \in 1 .. l : IF (l - i) % 2 = 1 THEN thread.todo[i] = Empty
                           ELSE thread.todo[i] = PrintWord(words[n - (l - i) \div 2])
  BY DEF WordsRead, ReadSoFar
<1>4. SUFFICES /\ k1 <= n /\ l1 \in {2 * (n - k1), 2 * (n - k1) - 1}
               /\ \A i \in 1 .. k1 : thread'.values[i] = world.memory[words[i]]
               /\ \A i \in 1 .. l1 : IF (l1 - i) % 2 = 1 THEN thread'.todo[i] = Empty
                                     ELSE thread'.todo[i] = PrintWord(words[n - (l1 - i) \div 2])
  BY <1>3 DEF WordsRead, ReadSoFar
<1> HIDE DEF words, k, l, k1, l1, n
<1>5. \A i \in 1 .. l1 : IF (l1 - i) % 2 = 1 THEN thread'.todo[i] = Empty
                        ELSE thread'.todo[i] = PrintWord(words[n - (l1 - i) \div 2])
  <2> TAKE i \in 1 .. l1
  <2>1. i + 1 \in 1 .. l /\ l - (i + 1) = l1 - i /\ thread'.todo[i] = thread.todo[i + 1]
    BY <1>2
  <2> QED BY <1>3, <2>1
<1>6. Empty.cmd # "print" /\ \A o : PrintWord(o).cmd = "print" /\ PrintWord(o).offset = o
  BY Words DEF PrintWord
<1>7. CASE l = 2 * (n - k)
  <2>1. 1 \in 1 .. l /\ (l - 1) % 2 = 1
    BY <1>1, <1>2, <1>3, <1>7
  <2>2. c = Empty
    BY <1>2, <1>3, <2>1
  <2>3. thread'.values = thread.values /\ k1 = k
    BY <2>2 DEF k1, k
  <2> QED BY <1>1, <1>2, <1>3, <1>5, <1>7, <2>3
<1>8. CASE l = 2 * (n - k) - 1
  <2>1. 1 \in 1 .. l /\ (l - 1) % 2 # 1 /\ n - (l - 1) \div 2 = k + 1
    BY <1>1, <1>2, <1>3, <1>8
  <2>2. c = PrintWord(words[k + 1])
    BY <1>2, <1>3, <2>1
  <2>3. thread'.values = Append(thread.values, world.memory[words[k + 1]])
    BY <1>6, <2>2
  <2>4. k1 = k + 1 /\ thread'.values[k + 1] = world.memory[words[k + 1]]
        /\ \A i \in 1 .. k : thread'.values[i] = thread.values[i]
    BY <1>1, <2>3, AppendIs DEF k1, k
  <2>5. \A i \in 1 .. k1 : thread'.values[i] = world.memory[words[i]]
    <3> TAKE i \in 1 .. k1
    <3>1. i = k + 1 \/ i \in 1 .. k
      BY <1>1, <2>4
    <3> QED BY <1>3, <2>4, <3>1
  <2>6. k1 <= n /\ l1 = 2 * (n - k1)
    BY <1>1, <1>2, <1>3, <1>8, <2>4
  <2> QED BY <1>5, <2>5, <2>6
<1> QED BY <1>3, <1>7, <1>8

LEMMA EffectsHeard ==
  ASSUME DialogIs, EffectsThere, thread.todo # <<>>, UNCHANGED world, Heeded(Head(thread.todo)),
         NEW c, c = Head(thread.todo), IsLine(c), Speaks(c), HeardOf(c), ThreadIs
  PROVE  EffectsThere'
<1>1. /\ Goes(c)
      /\ c.cmd \notin {"stop_at", "clear"} => thread'.todo = Tail(thread.todo) /\ thread'.failed = thread.failed
      /\ c.cmd \notin {"print", "print_ra"} => thread'.values = thread.values
      /\ c.cmd = "print" => thread'.values = Append(thread.values, world.memory[c.offset])
      /\ c.cmd = "stop_at" /\ c.line \in Lines =>
           thread'.todo = Tail(thread.todo) /\ thread'.failed = thread.failed
      /\ c.cmd = "stop_at" /\ c.line \notin Lines => thread'.todo = <<>> /\ thread'.failed
  BY HeardGoes
<1>2. thread'.todo = Tail(thread.todo) => \A d : ToSay(d) => d = c \/ ToSay(d)'
  BY <1>1, LeftToSay
<1>3. (\A k : Busy(k)' = Busy(k)) /\ thread'.packet = thread.packet
  BY <1>1 DEF Busy, Goes
<1> DEFINE p == thread.packet
<1>4. ASSUME Busy("m"), InData(p) PROVE WordsRead(p)'
  <2>1. WordsRead(p)
    BY <1>4 DEF EffectsThere
  <2>2. c.cmd \notin {"stop_at", "clear"} /\ (c.cmd # "print" => c = Empty)
    <3>1. thread.at # "init"
      BY <1>4 DEF Busy
    <3>2. c = Empty \/ \E o \in Memory : c = PrintWord(o)
      BY <1>4, <3>1, KindsDiffer DEF Speaks
    <3>3. \A o : PrintWord(o).cmd = "print"
      BY DEF PrintWord
    <3>4. c = Empty \/ c.cmd = "print"
      BY <3>2, <3>3
    <3> QED BY <3>4, Words
  <2>3. thread'.todo = Tail(thread.todo) /\ thread'.failed = thread.failed
        /\ (c = Empty => thread'.values = thread.values)
        /\ (c.cmd = "print" => thread'.values = Append(thread.values, world.memory[c.offset]))
    BY <1>1, <2>2, Words
  <2> QED BY <1>3, <2>1, <2>2, <2>3, WordsHeard
<1>5. ASSUME Busy("M"), InData(p)
      PROVE  ~ thread'.failed /\ (ToSay(SetWord(p))' \/ world'.memory[p.addr \div 4] = p.value)
  <2>1. thread'.todo = Tail(thread.todo) /\ thread'.failed = thread.failed
    BY <1>1, <1>5, SpokenFor, KindsDiffer
  <2>2. ~ thread.failed /\ (ToSay(SetWord(p)) \/ world.memory[p.addr \div 4] = p.value)
    BY <1>5 DEF EffectsThere
  <2>3. c = SetWord(p) => world.memory[p.addr \div 4] = p.value
    BY DEF Heeded, SetWord
  <2>4. PICK d : d = SetWord(p)
    OBVIOUS
  <2>5. ToSay(d) => d = c \/ ToSay(d)'
    BY <1>2, <2>1
  <2>6. ToSay(SetWord(p))' <=> ToSay(d)'
    BY <1>3, <2>4 DEF SetWord, ToSay
  <2> QED BY <2>1, <2>2, <2>3, <2>4, <2>5, <2>6
<1>6. ASSUME Busy("Z")
      PROVE  LET line == convertAddressToLine(p.addr) IN
               \/ ToSay(OnLine("stop_at", p.addr))' /\ ~ thread'.failed
               \/ IF line \in Lines THEN line \in world.stops /\ ~ thread'.failed ELSE thread'.failed
  <2> DEFINE line == convertAddressToLine(p.addr)
  <2>1. PICK d : d = OnLine("stop_at", p.addr)
    OBVIOUS
  <2>2. /\ ToSay(OnLine("stop_at", p.addr)) <=> ToSay(d)
        /\ ToSay(OnLine("stop_at", p.addr))' <=> ToSay(d)'
        /\ d.cmd = "stop_at" /\ d.line = line
    BY <1>3, <2>1 DEF OnLine, ToSay
  <2>3. \/ ToSay(d) /\ ~ thread.failed
        \/ IF line \in Lines THEN line \in world.stops /\ ~ thread.failed ELSE thread.failed
    BY <1>6, <2>2 DEF EffectsThere
  <2>4. c.cmd # "clear" /\ (c.cmd = "stop_at" => c = d)
    BY <1>6, <2>1, SpokenFor, KindsDiffer
  <2>5. CASE c = d
    <3>1. line \in Lines => line \in world.stops
      BY <2>2, <2>5 DEF Heeded
    <3> QED BY <1>1, <2>2, <2>3, <2>5, <3>1
  <2>6. CASE c # d
    BY <1>1, <1>2, <2>2, <2>3, <2>4, <2>6
  <2> QED BY <2>5, <2>6
<1>7. ASSUME Busy("z")
      PROVE  ToSay(OnLine("clear", p.addr))' \/ convertAddressToLine(p.addr) \notin world.stops
  <2> DEFINE line == convertAddressToLine(p.addr)
  <2>1. PICK d : d = OnLine("clear", p.addr)
    OBVIOUS
  <2>2. /\ ToSay(OnLine("clear", p.addr)) <=> ToSay(d)
        /\ ToSay(OnLine("clear", p.addr))' <=> ToSay(d)'
        /\ d.cmd = "clear" /\ d.line = line
    BY <1>3, <2>1 DEF OnLine, ToSay
  <2>3. ToSay(d) \/ line \notin world.stops
    BY <1>7, <2>2 DEF EffectsThere
  <2>4. c.cmd # "stop_at" /\ (c.cmd = "clear" => c = d)
    BY <1>7, <2>1, SpokenFor, KindsDiffer
  <2>5. CASE c = d
    BY <2>2, <2>5 DEF Heeded
  <2>6. CASE c # d
    BY <1>1, <1>2, <2>2, <2>3, <2>4, <2>6
  <2> QED BY <2>5, <2>6
<1> QED BY <1>3, <1>4, <1>5, <1>6, <1>7 DEF EffectsThere

LEMMA HearKept ==
  ASSUME WorldIs, ThreadIs, OnePacket, Timely, Hear, ~ late
  PROVE  Timely'
<1>1. PICK c : c = Head(thread.todo)
  OBVIOUS
<1>2. /\ thread.waits /\ out.prompt /\ thread' \in Heard(c, out.texts) /\ regs' = Registered(c, out.texts)
      /\ stateValid' = (stateValid \/ c.cmd = "where") /\ out' = [texts |-> <<>>, prompt |-> FALSE]
      /\ UNCHANGED <<world, lines, late, answered>>
  BY <1>1 DEF Hear
<1>3. thread.todo # <<>> /\ lines = <<>> /\ ~ world.running /\ Heeded(c)
  BY <1>1, <1>2 DEF Timely, LineInPlace, Unsaid, Said, Obeyed, Running
<1>4. c = thread.todo[1] /\ 1 \in DOMAIN thread.todo
  BY <1>1, <1>3, TailIs DEF Timely, DialogIs
<1>5. Speaks(c) /\ IsLine(c)
  BY <1>4, LineIs DEF Timely, DialogIs
<1>6. HeardOf(c) /\ RegisteredOf(c)
  BY <1>2, <1>3, <1>5, HeardIs, RegisteredIs
<1>7. /\ Goes(c)
      /\ c.cmd \notin {"stop_at", "clear"} => thread'.todo = Tail(thread.todo)
      /\ c.cmd \notin {"print", "print_ra"} => thread'.values = thread.values
      /\ c = PrintRa => thread'.values = Append(thread.values, world.ra)
  BY <1>5, <1>6, HeardGoes
<1>8. c.cmd \in {"stop_at", "clear"} => thread.at # "init" /\ ~ Busy("p") /\ ~ Busy("c")
  BY <1>5, SpokenFor, KindsDiffer DEF Busy
<1>9. DialogIs'
  BY <1>1, <1>3, <1>7, DialogHeard DEF Timely
<1>10. LineInPlace' /\ RunsOnlyWhenTold'
  BY <1>2, <1>3, <1>7 DEF LineInPlace, Unsaid, RunsOnlyWhenTold, Goes
<1>11. StateCurrent'
  BY <1>1, <1>2, <1>3, <1>5, <1>6, <1>7, <1>8, StateHeard DEF Timely
<1>12. ReturnAddressRead'
  BY <1>1, <1>2, <1>3, <1>5, <1>7, AddressHeard DEF Timely
<1>13. EffectsThere'
  BY <1>1, <1>2, <1>3, <1>5, <1>6, EffectsHeard DEF Timely
<1>14. AnswersCurrent'
  <2>1. answered' = None
    BY <1>2, <1>3, Asked DEF Timely
  <2> QED BY <1>7, <2>1, NotAnswered DEF Timely, Goes
<1> QED BY <1>9, <1>10, <1>11, <1>12, <1>13, <1>14 DEF Timely

-------------------------------------------------------------------------------
(* The words and bytes of a range.                                           *)
Joins(u, s, t) ==
  /\ IsSeq(u) /\ Len(u) = Len(s) + Len(t) /\ Len(s) \in Nat /\ Len(t) \in Nat
  /\ DOMAIN u = 1 .. Len(s) + Len(t)
  /\ \A i \in 1 .. Len(s) : u[i] = s[i]
  /\ \A i \in 1 .. Len(t) : u[Len(s) + i] = t[i]

LEMMA JoinIs ==
  ASSUME NEW s, IsSeq(s), NEW t, IsSeq(t)
  PROVE  Joins(s \o t, s, t)
<1> DEFINE S == {s[i] : i \in DOMAIN s} \cup {t[i] : i \in DOMAIN t}
           u == s \o t
<1>1. s \in Seq({s[i] : i \in DOMAIN s}) /\ t \in Seq({t[i] : i \in DOMAIN t})
  BY DEF IsSeq
<1>2. s \in Seq(S) /\ t \in Seq(S)
  BY <1>1, SeqMonotonic
<1> HIDE DEF S
<1>3. /\ u \in Seq(S) /\ Len(u) = Len(s) + Len(t) /\ Len(s) \in Nat /\ Len(t) \in Nat
      /\ \A i \in 1 .. Len(s) + Len(t) : u[i] = IF i <= Len(s) THEN s[i] ELSE t[i - Len(s)]
  BY <1>2, ConcatProperties, LenProperties
<1> HIDE DEF u
<1>4. DOMAIN u = 1 .. Len(u) /\ u \in [1 .. Len(u) -> S]
  BY <1>3, LenProperties
<1>5. IsSeq(u)
  <2>1. Len(u) \in Nat /\ u = [i \in 1 .. Len(u) |-> u[i]]
    BY <1>3, <1>4
  <2> QED BY <2>1, FunctionIsSeq
<1>6. \A i \in 1 .. Len(s) : u[i] = s[i]
  BY <1>3
<1>7. ASSUME NEW i \in 1 .. Len(t) PROVE u[Len(s) + i] = t[i]
  <2>1. Len(s) + i \in 1 .. Len(s) + Len(t) /\ ~ (Len(s) + i <= Len(s)) /\ Len(s) + i - Len(s) = i
    BY <1>3
  <2> QED BY <1>3, <2>1
<1> QED BY <1>3, <1>4, <1>5, <1>6, <1>7 DEF u, Joins

LEMMA OneIsSeq ==
  ASSUME NEW a
  PROVE  IsSeq(<<a>>) /\ Len(<<a>>) = 1 /\ <<a>>[1] = a
<1>1. <<a>> \in Seq({a}) /\ DOMAIN <<a>> = {1} /\ <<a>>[1] = a /\ Len(<<a>>) = 1
  OBVIOUS
<1> QED BY <1>1 DEF IsSeq

RangeIs(p, r) ==
  LET n == Len(r.words)
  IN /\ n \in Nat /\ IsSeq(r.words) /\ DOMAIN r.bytes = 1 .. p.length
     /\ \A i \in 1 .. n : r.words[i] \in Memory /\ r.words[i] = p.addr \div 4 + i - 1
     /\ \A i \in 1 .. p.length : /\ (p.addr + i - 1) \div 4 - p.addr \div 4 + 1 \in 1 .. n
                                 /\ r.bytes[i] = <<(p.addr + i - 1) \div 4 - p.addr \div 4 + 1,
                                                   (p.addr + i - 1) % 4>>

LEMMA Quarters ==
  ASSUME NEW a \in Nat, NEW len \in Nat, a % 4 \in {0, 2}, (a + len) % 4 = 0
  PROVE  \E k \in Nat, w \in Nat, f \in {0, 1} :
           /\ a = 4 * k + 2 * f /\ len = 4 * w + 2 * f
           /\ a \div 4 = k /\ a % 4 = 2 * f /\ (a + len - 0 - (a + 2 * f) + 3) \div 4 = w
<1> DEFINE k == a \div 4
           m == (a + len) \div 4
           f == IF a % 4 = 0 THEN 0 ELSE 1
           w == m - k - f
<1>1. k \in Nat /\ a = 4 * k + 2 * f /\ f \in {0, 1} /\ a % 4 = 2 * f
  BY SMT
<1>2. m \in Nat /\ a + len = 4 * m
  BY SMT
<1> HIDE DEF k, m, f
<1>3. w \in Nat /\ len = 4 * w + 2 * f
  BY <1>1, <1>2
<1>4. (a + len - 0 - (a + 2 * f) + 3) \div 4 = w
  BY <1>1, <1>2, <1>3
<1> QED BY <1>1, <1>3, <1>4 DEF k

LEMMA RangeRead ==
  ASSUME NEW p \in Packets, p.kind = "m", InData(p), WholeRange(p)
  PROVE  RangeIs(p, ReadMemory(p.addr, p.length))
<1> DEFINE a == p.addr
           len == p.length
           u == a % 4
           e == (a + len) % 4
           last == a + len - e
           w == (last - (a + u) + 3) \div 4
           A == IF u # 0 THEN <<a \div 4>> ELSE <<>>
           B == [i \in 1 .. w |-> (a + u + 4 * (i - 1)) \div 4]
           C == IF e # 0 THEN <<last \div 4>> ELSE <<>>
           words == A \o B \o C
           X == [i \in 1 .. u |-> <<1, (a + i - 1) % 4>>]
           Y == [i \in 1 .. 4 * w |-> <<Len(A) + 1 + (i - 1) \div 4, (i - 1) % 4>>]
           Z == [i \in 1 .. 2 * e |-> <<Len(words), (last + i - 1) % 4>>]
           bytes == X \o Y \o Z
<1>1. ReadMemory(a, len) = [words |-> words, bytes |-> bytes]
  BY DEF ReadMemory
<1>2. a \in Nat /\ len \in Nat /\ u \in {0, 2} /\ e = 0 /\ a + len <= 4 * MemorySize
  BY GdbAssumption DEF GdbAssumption, WholeRange
<1>3. PICK K \in Nat, v \in Nat, f \in {0, 1} :
        /\ a = 4 * K + 2 * f /\ len = 4 * v + 2 * f
        /\ a \div 4 = K /\ a % 4 = 2 * f /\ (a + len - 0 - (a + 2 * f) + 3) \div 4 = v
  <2> HIDE DEF a, len
  <2> QED BY <1>2, Quarters
<1>4. u = 2 * f /\ w = v /\ a + len = 4 * (K + f + v)
  BY <1>2, <1>3
<1>5. IsSeq(A) /\ Len(A) = f /\ (f = 1 => A[1] = K)
  <2>1. A = IF f = 1 THEN <<K>> ELSE <<>>
    BY <1>3, <1>4
  <2> QED BY <2>1, OneIsSeq, EmptySeqIs
<1> HIDE DEF a, len, u, e, w, A
<1>6. IsSeq(B) /\ Len(B) = v /\ \A i \in 1 .. v : B[i] = K + f + i - 1
  <2>1. IsSeq(B) /\ Len(B) = v
    BY <1>4, FunctionIsSeq
  <2>2. \A i \in 1 .. v : (a + u + 4 * (i - 1)) \div 4 = K + f + i - 1
    BY <1>2, <1>3, <1>4
  <2> QED BY <1>4, <2>1, <2>2
<1>7. IsSeq(C) /\ Len(C) = 0
  BY <1>2, EmptySeqIs
<1> HIDE DEF B, C
<1>8. IsSeq(words) /\ Len(words) = f + v /\ \A i \in 1 .. f + v : words[i] = K + i - 1
  <2>1. /\ IsSeq(A \o B) /\ Len(A \o B) = f + v
        /\ \A i \in 1 .. f : (A \o B)[i] = A[i]
        /\ \A i \in 1 .. v : (A \o B)[f + i] = B[i]
    <3>1. Joins(A \o B, A, B)
      BY <1>5, <1>6, JoinIs, Zenon
    <3> QED BY <1>5, <1>6, <3>1 DEF Joins
  <2>2. /\ IsSeq(words) /\ Len(words) = f + v
        /\ \A i \in 1 .. f + v : words[i] = (A \o B)[i]
    <3> DEFINE D == A \o B
    <3> HIDE DEF D
    <3>1. Joins(D \o C, D, C)
      BY <1>7, <2>1, JoinIs, Zenon DEF D
    <3>2. Len(D) = f + v
      BY <2>1 DEF D
    <3>3. IsSeq(D \o C) /\ Len(D \o C) = f + v /\ \A i \in 1 .. f + v : (D \o C)[i] = D[i]
      BY <1>7, <3>1, <3>2 DEF Joins
    <3> QED BY <3>3 DEF D
  <2> HIDE DEF words
  <2>3. ASSUME NEW i \in 1 .. f + v PROVE words[i] = K + i - 1
    <3>1. CASE i <= f
      <4>1. i = 1 /\ i \in 1 .. f
        BY <1>5, <3>1
      <4>2. words[i] = A[i]
        BY <2>1, <2>2, <4>1
      <4> QED BY <1>5, <4>1, <4>2
    <3>2. CASE i > f
      <4>1. i - f \in 1 .. v /\ f + (i - f) = i
        BY <1>3, <3>2
      <4>2. words[i] = B[i - f]
        BY <2>1, <2>2, <4>1
      <4>3. B[i - f] = K + f + (i - f) - 1
        BY <1>6, <4>1
      <4> QED BY <1>3, <4>1, <4>2, <4>3
    <3> QED BY <1>3, <3>1, <3>2
  <2> QED BY <2>2, <2>3
<1>9. IsSeq(X) /\ Len(X) = 2 * f /\ \A i \in 1 .. 2 * f : X[i] = <<1, (a + i - 1) % 4>>
  <2>1. u \in Nat
    BY <1>3, <1>4
  <2>2. IsSeq(X) /\ Len(X) = u
    BY <2>1, FunctionIsSeq
  <2> QED BY <1>4, <2>2
<1>10. IsSeq(Y) /\ Len(Y) = 4 * v /\ \A i \in 1 .. 4 * v : Y[i] = <<f + 1 + (i - 1) \div 4, (i - 1) % 4>>
  <2>1. IsSeq(Y) /\ Len(Y) = 4 * w
    BY <1>4, FunctionIsSeq
  <2> QED BY <1>4, <1>5, <2>1
<1>11. IsSeq(Z) /\ Len(Z) = 0
  <2>1. 2 * e = 0
    BY <1>2
  <2> HIDE DEF words, last
  <2> QED BY <2>1, FunctionIsSeq
<1> HIDE DEF words, X, Y, Z
<1>12. /\ DOMAIN bytes = 1 .. len
       /\ \A i \in 1 .. 2 * f : bytes[i] = X[i]
       /\ \A i \in 1 .. 4 * v : bytes[2 * f + i] = Y[i]
  <2> DEFINE D == X \o Y
  <2>1. /\ IsSeq(D) /\ Len(D) = 2 * f + 4 * v
        /\ \A i \in 1 .. 2 * f : D[i] = X[i]
        /\ \A i \in 1 .. 4 * v : D[2 * f + i] = Y[i]
    <3>1. Joins(D, X, Y)
      BY <1>9, <1>10, JoinIs, Zenon
    <3> HIDE DEF D
    <3> QED BY <1>9, <1>10, <3>1 DEF Joins
  <2> HIDE DEF D
  <2>2. /\ DOMAIN (D \o Z) = 1 .. 2 * f + 4 * v
        /\ \A i \in 1 .. 2 * f + 4 * v : (D \o Z)[i] = D[i]
    <3>1. Joins(D \o Z, D, Z)
      BY <1>11, <2>1, JoinIs, Zenon
    <3> QED BY <1>11, <2>1, <3>1 DEF Joins
  <2>3. /\ \A i \in 1 .. 2 * f : i \in 1 .. 2 * f + 4 * v
        /\ \A i \in 1 .. 4 * v : 2 * f + i \in 1 .. 2 * f + 4 * v
        /\ 1 .. 2 * f + 4 * v = 1 .. len
    BY <1>3
  <2> QED BY <2>1, <2>2, <2>3 DEF D
<1> HIDE DEF bytes
<1>13. ASSUME NEW i \in 1 .. len
       PROVE  /\ (a + i - 1) \div 4 - K + 1 \in 1 .. f + v
              /\ bytes[i] = <<(a + i - 1) \div 4 - K + 1, (a + i - 1) % 4>>
  <2>1. CASE i <= 2 * f
    <3>1. i \in 1 .. 2 * f /\ (a + i - 1) \div 4 = K /\ f = 1
      BY <1>2, <1>3, <2>1
    <3>2. bytes[i] = <<1, (a + i - 1) % 4>>
      BY <1>9, <1>12, <3>1
    <3>3. (a + i - 1) \div 4 - K + 1 = 1 /\ 1 \in 1 .. f + v
      BY <1>3, <3>1
    <3> QED BY <3>2, <3>3
  <2>2. CASE i > 2 * f
    <3> DEFINE j == i - 2 * f
    <3>1. j \in 1 .. 4 * v /\ 2 * f + j = i /\ a + i - 1 = 4 * (K + f) + (j - 1)
      BY <1>2, <1>3, <2>2
    <3> HIDE DEF j
    <3>2. (a + i - 1) \div 4 = K + f + (j - 1) \div 4 /\ (a + i - 1) % 4 = (j - 1) % 4
      BY <1>3, <3>1
    <3>3. bytes[i] = <<f + 1 + (j - 1) \div 4, (j - 1) % 4>>
      BY <1>10, <1>12, <3>1
    <3>4. (j - 1) \div 4 \in 0 .. v - 1
      BY <1>3, <3>1
    <3>5. (a + i - 1) \div 4 - K + 1 = f + 1 + (j - 1) \div 4
      BY <1>3, <3>2, <3>4
    <3> QED BY <1>3, <3>2, <3>3, <3>4, <3>5
  <2> QED BY <1>2, <1>3, <2>1, <2>2
<1>14. \A i \in 1 .. f + v : words[i] \in Memory
  BY <1>2, <1>3, <1>4, <1>8, MemoryIs DEF Memory
<1> DEFINE r == ReadMemory(a, len)
<1>15. r.words = words /\ r.bytes = bytes
  BY <1>1
<1> HIDE DEF r
<1>16. f + v \in Nat
  BY <1>3
<1>17. RangeIs(p, r)
  <2> USE DEF a, len
  <2> QED BY <1>3, <1>8, <1>12, <1>13, <1>14, <1>15, <1>16 DEF RangeIs
<1> QED BY <1>17 DEF r, a, len

-------------------------------------------------------------------------------
(* The dialogs: an empty line before each command.                           *)
Two(D, a) == IsSeq(D) /\ Len(D) = 2 /\ DOMAIN D = 1 .. 2 /\ D[1] = Empty /\ D[2] = a
Four(D, a, b) == /\ IsSeq(D) /\ Len(D) = 4 /\ DOMAIN D = 1 .. 4
                 /\ D[1] = Empty /\ D[2] = a /\ D[3] = Empty /\ D[4] = b
Six(D, a, b, c) == /\ IsSeq(D) /\ Len(D) = 6 /\ DOMAIN D = 1 .. 6
                   /\ D[1] = Empty /\ D[2] = a /\ D[3] = Empty /\ D[4] = b /\ D[5] = Empty /\ D[6] = c

LEMMA KickedIs ==
  ASSUME NEW c
  PROVE  Two(Kicked(c), c)
BY DEF Kicked, Two, IsSeq

LEMMA KickedTwice ==
  ASSUME NEW s, NEW a, Two(s, a), NEW t, NEW b, Two(t, b)
  PROVE  Four(s \o t, a, b)
<1> DEFINE u == s \o t
<1>1. Joins(u, s, t)
  BY JoinIs, Zenon DEF Two
<1> HIDE DEF u
<1>2. \A i \in 1 .. 2 : u[i] = s[i] /\ u[2 + i] = t[i]
  BY <1>1 DEF Joins, Two
<1>3. u[1] = s[1] /\ u[2] = s[2] /\ u[3] = t[1] /\ u[4] = t[2]
  BY <1>2
<1>4. Four(u, a, b)
  BY <1>1, <1>3 DEF Joins, Two, Four
<1> QED BY <1>4 DEF u

LEMMA KickedThrice ==
  ASSUME NEW s, NEW a, NEW b, Four(s, a, b), NEW t, NEW c, Two(t, c)
  PROVE  Six(s \o t, a, b, c)
<1> DEFINE u == s \o t
<1>1. Joins(u, s, t)
  BY JoinIs, Zenon DEF Two, Four
<1> HIDE DEF u
<1>2. (\A i \in 1 .. 4 : u[i] = s[i]) /\ (\A i \in 1 .. 2 : u[4 + i] = t[i])
  BY <1>1 DEF Joins, Two, Four
<1>3. u[1] = s[1] /\ u[2] = s[2] /\ u[3] = s[3] /\ u[4] = s[4] /\ u[5] = t[1] /\ u[6] = t[2]
  BY <1>2
<1>4. Six(u, a, b, c)
  BY <1>1, <1>3 DEF Joins, Two, Four, Six
<1> QED BY <1>4 DEF u

LEMMA KickedFirst ==
  ASSUME NEW s, NEW a, Two(s, a), NEW t, NEW b, NEW c, Four(t, b, c)
  PROVE  Six(s \o t, a, b, c)
<1> DEFINE u == s \o t
<1>1. Joins(u, s, t)
  BY JoinIs, Zenon DEF Two, Four
<1> HIDE DEF u
<1>2. (\A i \in 1 .. 2 : u[i] = s[i]) /\ (\A i \in 1 .. 4 : u[2 + i] = t[i])
  BY <1>1 DEF Joins, Two, Four
<1>3. u[1] = s[1] /\ u[2] = s[2] /\ u[3] = t[1] /\ u[4] = t[2] /\ u[5] = t[3] /\ u[6] = t[4]
  BY <1>2
<1>4. Six(u, a, b, c)
  BY <1>1, <1>3 DEF Joins, Two, Four, Six
<1> QED BY <1>4 DEF u

LEMMA JoinEmpty ==
  ASSUME NEW s, IsSeq(s)
  PROVE  s \o <<>> = s /\ <<>> \o s = s
<1> DEFINE S == {s[i] : i \in DOMAIN s}
<1>1. s \in Seq(S)
  BY DEF IsSeq
<1> HIDE DEF S
<1> QED BY <1>1, ConcatEmptySeq

LEMMA StateAsked == Four(readState, Locals, Where)
BY KickedIs, KickedTwice DEF readState, Locals, Where

LEMMA RegisterAsked ==
  ASSUME NEW valid, NEW reg
  PROVE  LET D == ReadRegister(valid, reg) IN
         /\ valid /\ reg = "ra" => Two(D, PrintRa)
         /\ valid /\ reg # "ra" => D = <<>>
         /\ ~ valid /\ reg = "ra" => Six(D, Locals, Where, PrintRa)
         /\ ~ valid /\ reg # "ra" => Four(D, Locals, Where)
<1> DEFINE D == ReadRegister(valid, reg)
           K == Kicked(PrintRa)
<1>1. Two(K, PrintRa) /\ IsSeq(K)
  BY KickedIs DEF Two
<1>2. Four(readState, Locals, Where) /\ IsSeq(readState)
  BY StateAsked DEF Four
<1>3. D = (IF valid THEN <<>> ELSE readState) \o (IF reg = "ra" THEN K ELSE <<>>)
  BY DEF ReadRegister, PrintRa
<1> HIDE DEF D, K
<1>4. CASE valid /\ reg = "ra"
  <2>1. D = <<>> \o K
    BY <1>3, <1>4
  <2>2. D = K
    BY <1>1, <2>1, JoinEmpty
  <2> QED BY <1>1, <1>4, <2>2 DEF D
<1>5. CASE valid /\ reg # "ra"
  <2>1. D = <<>> \o <<>>
    BY <1>3, <1>5
  <2>2. D = <<>>
    BY <2>1, EmptySeqIs, JoinEmpty
  <2> QED BY <1>5, <2>2 DEF D
<1>6. CASE ~ valid /\ reg = "ra"
  <2>1. D = readState \o K
    BY <1>3, <1>6
  <2>2. Six(readState \o K, Locals, Where, PrintRa)
    BY <1>1, <1>2, KickedThrice
  <2> QED BY <1>6, <2>1, <2>2 DEF D
<1>7. CASE ~ valid /\ reg # "ra"
  <2>1. D = readState \o <<>>
    BY <1>3, <1>7
  <2>2. D = readState
    BY <1>2, <2>1, JoinEmpty
  <2> QED BY <1>2, <1>7, <2>2 DEF D
<1> QED BY <1>4, <1>5, <1>6, <1>7 DEF D

(* Whose dialog a line may be in.                                            *)
SpokenIn(p, c) ==
  \/ c = Empty
  \/ p.kind = "p" /\ c \in {Locals, Where}
  \/ p.kind = "p" /\ p.reg = "ra" /\ c = PrintRa
  \/ p.kind = "c" /\ c \in {Resume, Locals, Where}
  \/ p.kind = "m" /\ \E o \in Memory : c = PrintWord(o)
  \/ p.kind = "M" /\ InData(p) /\ c = SetWord(p)
  \/ p.kind = "Z" /\ c = OnLine("stop_at", p.addr)
  \/ p.kind = "z" /\ c = OnLine("clear", p.addr)

Contains(D, c) == \E i \in DOMAIN D : D[i] = c

WhereLastIn(D) ==
  \A i \in DOMAIN D : D[i] = Where =>
    i \in Nat /\ i >= 3 /\ D[i - 1] = Empty /\ D[i - 2] = Locals
    /\ \A j \in DOMAIN D : j > i => D[j] \notin {Locals, Where, Resume}

WordsAsked(p, D) ==
  LET words == ReadMemory(p.addr, p.length).words
      n == Len(words)
  IN n \in Nat /\ Len(D) = 2 * n
     /\ \A i \in 1 .. 2 * n : D[i] = IF i % 2 = 1 THEN Empty ELSE PrintWord(words[i \div 2])

(* A dialog asks for what the answer to the packet needs.                    *)
Suits(p, D) ==
  /\ IsSeq(D) /\ (Fatal(p) => D = <<>>)
  /\ \A i \in DOMAIN D : SpokenIn(p, D[i]) /\ (D[i] \in {Locals, Where, Resume} => ~ StillValid(p))
  /\ WhereLastIn(D)
  /\ p.kind \in {"p", "c"} => StillValid(p) \/ Contains(D, Where)
  /\ p.kind = "p" /\ p.reg = "ra" => Contains(D, PrintRa)
  /\ p.kind = "c" => D # <<>> /\ Head(D) = Empty
  /\ p.kind = "m" /\ InData(p) => WordsAsked(p, D)
  /\ p.kind = "M" /\ InData(p) => Contains(D, SetWord(p))
  /\ p.kind = "Z" => Contains(D, OnLine("stop_at", p.addr))
  /\ p.kind = "z" => Contains(D, OnLine("clear", p.addr))

LEMMA NoWhere ==
  ASSUME NEW D, \A i \in DOMAIN D : D[i] # Where
  PROVE  WhereLastIn(D)
BY DEF WhereLastIn

LEMMA WordsSuit ==
  ASSUME NEW p \in Packets, p.kind = "m", InData(p), WholeRange(p)
  PROVE  Suits(p, Dialog(p))
<1> DEFINE r == ReadMemory(p.addr, p.length)
           words == r.words
           n == Len(words)
           D == Dialog(p)
<1>1. RangeIs(p, r)
  BY RangeRead
<1>2. D = [i \in 1 .. 2 * n |-> IF i % 2 = 1 THEN Empty ELSE PrintWord(words[i \div 2])]
  BY DEF Dialog, InData
<1> HIDE DEF D, r
<1>3. n \in Nat /\ \A i \in 1 .. n : words[i] \in Memory
  BY <1>1 DEF RangeIs
<1> HIDE DEF n
<1>4. IsSeq(D) /\ Len(D) = 2 * n /\ DOMAIN D = 1 .. 2 * n
  <2>1. 2 * n \in Nat
    BY <1>3
  <2> QED BY <1>2, <2>1, FunctionIsSeq
<1>5. ASSUME NEW i \in 1 .. 2 * n PROVE D[i] = Empty \/ \E o \in Memory : D[i] = PrintWord(o)
  <2>1. i % 2 # 1 => i \div 2 \in 1 .. n
    BY <1>3
  <2>2. i % 2 # 1 => words[i \div 2] \in Memory
    BY <1>3, <2>1
  <2> QED BY <1>2, <2>2
<1>6. (\A o : PrintWord(o) \notin {Locals, Where, Resume}) /\ Empty \notin {Locals, Where, Resume}
  <2>1. \A o : PrintWord(o).cmd = "print"
    BY DEF PrintWord
  <2> QED BY <2>1, Words
<1>7. \A i \in DOMAIN D : SpokenIn(p, D[i]) /\ D[i] \notin {Locals, Where, Resume}
  BY <1>4, <1>5, <1>6 DEF SpokenIn
<1>8. WhereLastIn(D)
  BY <1>7, NoWhere
<1>9. WordsAsked(p, D)
  BY <1>2, <1>3, <1>4 DEF WordsAsked, n, r
<1>10. ~ Fatal(p)
  BY DEF Fatal, InData
<1> QED BY <1>4, <1>7, <1>8, <1>9, <1>10 DEF Suits, D

LEMMA OneCommandSuits ==
  ASSUME NEW p, NEW c, NEW D, Two(D, c), SpokenIn(p, c), c \notin {Locals, Where, Resume},
         ~ Fatal(p), p.kind \in {"M", "Z", "z"},
         p.kind = "M" /\ InData(p) => c = SetWord(p),
         p.kind = "Z" => c = OnLine("stop_at", p.addr),
         p.kind = "z" => c = OnLine("clear", p.addr)
  PROVE  Suits(p, D)
<1>1. \A i \in DOMAIN D : (i = 1 \/ i = 2) /\ D[1] = Empty /\ D[2] = c
  BY DEF Two
<1>2. IsSeq(D) /\ Contains(D, c)
  BY DEF Two, Contains
<1>3. Empty \notin {Locals, Where, Resume}
  BY Words
<1>4. \A i \in DOMAIN D : SpokenIn(p, D[i]) /\ D[i] \notin {Locals, Where, Resume}
  BY <1>1, <1>3 DEF SpokenIn
<1>5. WhereLastIn(D)
  BY <1>4, NoWhere
<1> QED BY <1>2, <1>4, <1>5 DEF Suits

LEMMA RegisterSuits ==
  ASSUME NEW p, p.kind = "p"
  PROVE  Suits(p, Dialog(p))
<1> DEFINE D == Dialog(p)
           v == stateValid
           ra == p.reg = "ra"
<1>1. D = ReadRegister(v, p.reg)
  BY DEF Dialog
<1>2. /\ v /\ ra => Two(D, PrintRa)
      /\ v /\ ~ ra => D = <<>>
      /\ ~ v /\ ra => Six(D, Locals, Where, PrintRa)
      /\ ~ v /\ ~ ra => Four(D, Locals, Where)
  BY <1>1, RegisterAsked, Zenon
<1> HIDE DEF D
<1>3. (StillValid(p) <=> v) /\ ~ Fatal(p)
  BY DEF StillValid, Fatal
<1>4. /\ SpokenIn(p, Empty) /\ SpokenIn(p, Locals) /\ SpokenIn(p, Where) /\ (ra => SpokenIn(p, PrintRa))
  BY DEF SpokenIn
<1>5. Empty # Where /\ PrintRa # Where /\ Locals # Where /\ Empty \notin {Locals, Where, Resume}
      /\ PrintRa \notin {Locals, Where, Resume}
  BY Words
<1>6. SUFFICES /\ IsSeq(D)
               /\ \A i \in DOMAIN D : SpokenIn(p, D[i]) /\ (D[i] \in {Locals, Where, Resume} => ~ v)
               /\ WhereLastIn(D)
               /\ v \/ Contains(D, Where)
               /\ ra => Contains(D, PrintRa)
  BY <1>3 DEF Suits, D
<1>7. CASE v /\ ra
  <2>1. IsSeq(D) /\ DOMAIN D = {1, 2} /\ D[1] = Empty /\ D[2] = PrintRa
    BY <1>2, <1>7 DEF Two
  <2>2. WhereLastIn(D)
    BY <1>5, <2>1, NoWhere
  <2> QED BY <1>4, <1>5, <1>7, <2>1, <2>2 DEF Contains
<1>8. CASE v /\ ~ ra
  BY <1>2, <1>8, EmptySeqIs DEF WhereLastIn
<1>9. CASE ~ v /\ ra
  <2>1. IsSeq(D) /\ DOMAIN D = {1, 2, 3, 4, 5, 6} /\ D[1] = Empty /\ D[2] = Locals /\ D[3] = Empty
        /\ D[4] = Where /\ D[5] = Empty /\ D[6] = PrintRa
    BY <1>2, <1>9 DEF Six
  <2>2. WhereLastIn(D)
    BY <1>5, <2>1 DEF WhereLastIn
  <2> QED BY <1>4, <1>5, <1>9, <2>1, <2>2 DEF Contains
<1>10. CASE ~ v /\ ~ ra
  <2>1. IsSeq(D) /\ DOMAIN D = {1, 2, 3, 4} /\ D[1] = Empty /\ D[2] = Locals /\ D[3] = Empty /\ D[4] = Where
    BY <1>2, <1>10 DEF Four
  <2>2. WhereLastIn(D)
    BY <1>5, <2>1 DEF WhereLastIn
  <2> QED BY <1>4, <1>5, <1>10, <2>1, <2>2 DEF Contains
<1> QED BY <1>7, <1>8, <1>9, <1>10

LEMMA ContinueSuits ==
  ASSUME NEW p, p.kind = "c"
  PROVE  Suits(p, Dialog(p))
<1> DEFINE D == Dialog(p)
           v == StillValid(p)
<1>1. ~ v /\ ~ Fatal(p)
  BY DEF StillValid, Fatal
<1>2. D = Kicked(Resume) \o ReadRegister(v, "pc")
  BY DEF Dialog, Resume
<1>3. Four(ReadRegister(v, "pc"), Locals, Where)
  <2>1. "pc" # "ra"
    OBVIOUS
  <2> QED BY <1>1, <2>1, RegisterAsked, Zenon
<1>4. Six(D, Resume, Locals, Where)
  <2>1. Two(Kicked(Resume), Resume)
    BY KickedIs
  <2>2. Six(Kicked(Resume) \o ReadRegister(v, "pc"), Resume, Locals, Where)
    BY <1>3, <2>1, KickedFirst, Zenon
  <2> QED BY <1>2, <2>2, Zenon
<1> HIDE DEF D, v
<1>5. SpokenIn(p, Empty) /\ SpokenIn(p, Locals) /\ SpokenIn(p, Where) /\ SpokenIn(p, Resume)
  BY DEF SpokenIn
<1>6. Empty # Where /\ Resume # Where /\ Locals # Where
  BY Words
<1>7. IsSeq(D) /\ DOMAIN D = {1, 2, 3, 4, 5, 6} /\ D[1] = Empty /\ D[2] = Resume /\ D[3] = Empty
      /\ D[4] = Locals /\ D[5] = Empty /\ D[6] = Where
  BY <1>4 DEF Six
<1>8. WhereLastIn(D)
  BY <1>6, <1>7 DEF WhereLastIn
<1>9. Contains(D, Where) /\ D # <<>> /\ Head(D) = Empty
  <2>1. D # <<>>
    BY <1>7, EmptySeqIs
  <2> QED BY <1>7, <2>1, TailIs DEF Contains
<1>10. \A i \in DOMAIN D : SpokenIn(p, D[i])
  BY <1>5, <1>7
<1> QED BY <1>1, <1>7, <1>8, <1>9, <1>10 DEF Suits, D, v

LEMMA DialogSuits ==
  ASSUME NEW p \in Packets, WholeRange(p)
  PROVE  Suits(p, Dialog(p))
<1> DEFINE D == Dialog(p)
<1>1. CASE p.kind = "p"
  BY <1>1, RegisterSuits
<1>2. CASE p.kind = "c"
  BY <1>2, ContinueSuits
<1>3. CASE p.kind = "m" /\ InData(p)
  BY <1>3, WordsSuit
<1>4. CASE p.kind = "M" /\ InData(p)
  <2>1. D = Kicked(SetWord(p)) /\ ~ Fatal(p)
    BY <1>4 DEF Dialog, InData, SetWord, Fatal
  <2>2. Two(D, SetWord(p))
    BY <2>1, KickedIs
  <2>3. SetWord(p) \notin {Locals, Where, Resume} /\ SpokenIn(p, SetWord(p))
    <3>1. SetWord(p).cmd = "set"
      BY DEF SetWord
    <3> QED BY <1>4, <3>1, Words DEF SpokenIn
  <2> HIDE DEF D
  <2> QED BY <1>4, <2>1, <2>2, <2>3, OneCommandSuits DEF D
<1>5. CASE p.kind = "Z"
  <2> DEFINE c == OnLine("stop_at", p.addr)
  <2>1. D = Kicked(c) /\ ~ Fatal(p)
    BY <1>5 DEF Dialog, Fatal
  <2>2. Two(D, c)
    BY <2>1, KickedIs
  <2>3. c \notin {Locals, Where, Resume} /\ SpokenIn(p, c)
    <3>1. c.cmd = "stop_at"
      BY DEF OnLine
    <3> QED BY <1>5, <3>1, Words DEF SpokenIn
  <2> HIDE DEF D
  <2> QED BY <1>5, <2>1, <2>2, <2>3, OneCommandSuits DEF D
<1>6. CASE p.kind = "z"
  <2> DEFINE c == OnLine("clear", p.addr)
  <2>1. D = Kicked(c) /\ ~ Fatal(p)
    BY <1>6 DEF Dialog, Fatal
  <2>2. Two(D, c)
    BY <2>1, KickedIs
  <2>3. c \notin {Locals, Where, Resume} /\ SpokenIn(p, c)
    <3>1. c.cmd = "clear"
      BY DEF OnLine
    <3> QED BY <1>6, <3>1, Words DEF SpokenIn
  <2> HIDE DEF D
  <2> QED BY <1>6, <2>1, <2>2, <2>3, OneCommandSuits DEF D
<1>7. CASE /\ p.kind \notin {"p", "c", "Z", "z"}
           /\ p.kind = "m" => ~ InData(p)
           /\ p.kind = "M" => ~ InData(p)
  <2>1. D = <<>>
    BY <1>7 DEF Dialog, InData
  <2>2. IsSeq(D) /\ DOMAIN D = {}
    BY <2>1, EmptySeqIs
  <2>3. WhereLastIn(D)
    BY <2>2 DEF WhereLastIn
  <2> QED BY <1>7, <2>1, <2>2, <2>3 DEF Suits
<1> QED BY <1>1, <1>2, <1>3, <1>4, <1>5, <1>6, <1>7

-------------------------------------------------------------------------------
(* The thread takes a packet.                                                *)
TakesOver(p) ==
  /\ thread'.at = IF Fatal(p) THEN "dead" ELSE "idle"
  /\ thread'.packet = p /\ thread'.todo = Dialog(p) /\ ~ thread'.waits /\ thread'.values = <<>>
  /\ thread'.failed = (\/ p.kind \in {"m", "M"} /\ ~InText(p.addr) /\ ~InMemory(p.addr)
                       \/ p.kind = "M" /\ InText(p.addr))

LEMMA TakesPacket ==
  ASSUME ThreadIs, OnePacket, Take
  PROVE  /\ gdb \in Packets /\ TakesOver(gdb) /\ answered = None /\ thread.at = "idle" /\ thread.packet = None
         /\ stateValid' = StillValid(gdb) /\ (late' <=> late /\ ~ (gdb.kind = "c" /\ Quiet))
         /\ UNCHANGED <<world, lines, out, regs, answered>>
<1>1. gdb \in Packets /\ answered = None /\ inputQueue = <<gdb>>
  BY DEF Take, OnePacket
<1>2. Head(inputQueue) = gdb
  BY <1>1
<1>3. thread' = [Idle EXCEPT !.packet = gdb, !.todo = Dialog(gdb),
                             !.at = IF Fatal(gdb) THEN "dead" ELSE "idle",
                             !.failed = \/ gdb.kind \in {"m", "M"} /\ ~InText(gdb.addr) /\ ~InMemory(gdb.addr)
                                        \/ gdb.kind = "M" /\ InText(gdb.addr)]
  BY <1>2 DEF Take
<1>4. TakesOver(gdb)
  BY <1>3 DEF TakesOver, Idle
<1> QED BY <1>1, <1>2, <1>4 DEF Take, jdb

LEMMA WordsTaken ==
  ASSUME NEW p, p.kind = "m", InData(p), TakesOver(p), Suits(p, Dialog(p))
  PROVE  WordsRead(thread.packet)'
<1> DEFINE words == ReadMemory(p.addr, p.length).words
           n == Len(words)
           D == Dialog(p)
<1>1. n \in Nat /\ Len(D) = 2 * n
      /\ \A i \in 1 .. 2 * n : D[i] = IF i % 2 = 1 THEN Empty ELSE PrintWord(words[i \div 2])
  BY DEF Suits, WordsAsked
<1>2. thread'.packet = p /\ thread'.values = <<>> /\ Len(thread'.values) = 0 /\ thread'.todo = D
      /\ ~ thread'.failed
  BY EmptySeqIs DEF TakesOver, InData
<1>3. SUFFICES \A i \in 1 .. 2 * n : D[i] = IF (2 * n - i) % 2 = 1 THEN Empty
                                            ELSE PrintWord(words[n - (2 * n - i) \div 2])
  <2>1. \A i \in 1 .. 2 * n : IF (2 * n - i) % 2 = 1 THEN D[i] = Empty
                              ELSE D[i] = PrintWord(words[n - (2 * n - i) \div 2])
    BY <1>3
  <2> HIDE DEF D
  <2>2. 0 <= n /\ 2 * n = 2 * (n - 0) /\ \A i \in 1 .. 0 : FALSE
    BY <1>1
  <2> DEFINE k == Len(thread'.values)
             l == Len(thread'.todo)
  <2>3. k = 0 /\ l = 2 * n
    BY <1>1, <1>2
  <2> HIDE DEF k, l, words, n
  <2>4. /\ ~ thread'.failed /\ n \in Nat /\ k <= n /\ l \in {2 * (n - k), 2 * (n - k) - 1}
        /\ \A i \in 1 .. k : thread'.values[i] = world'.memory[words[i]]
        /\ \A i \in 1 .. l : IF (l - i) % 2 = 1 THEN thread'.todo[i] = Empty
                             ELSE thread'.todo[i] = PrintWord(words[n - (l - i) \div 2])
    BY <1>1, <1>2, <2>1, <2>2, <2>3
  <2> QED BY <1>2, <2>4 DEF WordsRead, ReadSoFar, words, n, k, l
<1> HIDE DEF n, words, D
<1>4. TAKE i \in 1 .. 2 * n
<1>5. (2 * n - i) % 2 = i % 2 /\ (i % 2 # 1 => n - (2 * n - i) \div 2 = i \div 2)
  BY <1>1
<1> QED BY <1>1, <1>5

LEMMA TakeKept ==
  ASSUME WorldIs, ThreadIs, OnePacket, ~ late => Timely, Take, ~ late',
         \A q \in Packets : WholeRange(q)
  PROVE  Timely'
<1>1. PICK p \in Packets : /\ p = gdb /\ TakesOver(p) /\ answered = None /\ thread.at = "idle" /\ thread.packet = None
                           /\ stateValid' = StillValid(p) /\ (late' <=> late /\ ~ (p.kind = "c" /\ Quiet))
                           /\ UNCHANGED <<world, lines, out, regs, answered>>
  BY TakesPacket
<1> DEFINE D == Dialog(p)
<1>2. Suits(p, D) /\ p # None
  BY <1>1, DialogSuits, MemoryIs
<1>3. ~ late => thread.todo = <<>>
  BY <1>1 DEF Timely, DialogIs
<1>4. /\ lines = <<>> /\ out.texts = <<>> /\ ~ out.prompt
      /\ world.running => p.kind = "c"
  <2>1. CASE late
    BY <1>1, <2>1 DEF Quiet
  <2>2. CASE ~ late
    BY <1>3, <2>2 DEF Timely, LineInPlace, Unsaid, RunsOnlyWhenTold
  <2> QED BY <2>1, <2>2
<1>5. stateValid' => ~ late /\ stateValid /\ p.kind # "c"
  BY <1>1 DEF StillValid
<1>6. \A k : Busy(k)' <=> ~ Fatal(p) /\ p.kind = k
  BY <1>1, <1>2 DEF Busy, TakesOver
<1> HIDE DEF D
<1>7. thread'.todo = D /\ thread'.packet = p /\ thread'.values = <<>> /\ (D # <<>> => thread'.at = "idle")
      /\ ~ thread'.waits /\ thread'.at # "init" /\ (thread'.at = "dead" <=> Fatal(p)) /\ (D # <<>> => ~ Fatal(p))
  BY <1>1, <1>2 DEF TakesOver, Suits, D
<1>8. \A i \in DOMAIN D : D # <<>>
  BY EmptySeqIs
<1>9. DialogIs'
  <2>1. ASSUME NEW i \in DOMAIN D PROVE Speaks(thread.todo[i])'
    <3>1. SpokenIn(p, D[i]) /\ ~ Fatal(p) /\ thread'.todo[i] = D[i]
      BY <1>2, <1>7, <1>8 DEF Suits
    <3> QED BY <1>6, <1>7, <3>1 DEF Speaks, SpokenIn
  <2> QED BY <1>2, <1>7, <2>1, EmptySeqIs DEF DialogIs, Suits
<1>10. LineInPlace'
  BY <1>1, <1>4, <1>7 DEF LineInPlace, Unsaid
<1>11. RunsOnlyWhenTold'
  BY <1>1, <1>2, <1>4, <1>6, <1>7 DEF RunsOnlyWhenTold, Suits
<1>12. StateCurrent'
  <2>1. stateValid' => ~ world.running /\ RegistersRead /\ regs["pc"] = convertLineToAddress(world.line)
    BY <1>5 DEF Timely, StateCurrent
  <2>2. RegistersRead' = RegistersRead
    BY <1>1 DEF RegistersRead
  <2>3. (thread.at = "init" \/ Busy("p") \/ Busy("c"))' => stateValid' \/ ToSay(Where)'
    <3>1. Busy("p")' \/ Busy("c")' => stateValid' \/ Contains(D, Where)
      BY <1>1, <1>2, <1>6 DEF Suits
    <3> QED BY <1>7, <3>1 DEF Contains, ToSay
  <2>4. ASSUME NEW i \in DOMAIN D
        PROVE  (D[i] \in {Locals, Where, Resume} => ~ stateValid') /\ (D[i] = Where => WhereLast(i)')
    <3>1. D[i] \in {Locals, Where, Resume} => ~ stateValid'
      BY <1>1, <1>2 DEF Suits
    <3>2. D[i] = Where => i \in Nat /\ i >= 3 /\ D[i - 1] = Empty /\ D[i - 2] = Locals
            /\ \A j \in DOMAIN D : j > i => D[j] \notin {Locals, Where, Resume}
      BY <1>2 DEF Suits, WhereLastIn
    <3>3. D[i] = Where => WhereLast(i)'
      BY <1>7, <3>2 DEF WhereLast
    <3> QED BY <3>1, <3>3
  <2> QED BY <1>1, <1>7, <2>1, <2>2, <2>3, <2>4 DEF StateCurrent
<1>13. ReturnAddressRead'
  BY <1>2, <1>6, <1>7 DEF ReturnAddressRead, Suits, Contains, ToSay
<1>14. EffectsThere'
  <2>1. ASSUME Busy("m")', InData(p) PROVE WordsRead(thread.packet)'
    BY <1>1, <1>2, <1>6, <2>1, WordsTaken DEF D
  <2>2. ASSUME Busy("M")', InData(p) PROVE ~ thread'.failed /\ ToSay(SetWord(thread.packet))'
    <3>1. ~ thread'.failed
      BY <1>1, <1>6, <2>2 DEF TakesOver, InData
    <3>2. Contains(D, SetWord(p))
      BY <1>2, <1>6, <2>2 DEF Suits
    <3> QED BY <1>7, <3>1, <3>2 DEF Contains, ToSay, SetWord
  <2>3. ASSUME Busy("Z")' PROVE ~ thread'.failed /\ ToSay(OnLine("stop_at", thread.packet.addr))'
    <3>1. ~ thread'.failed
      BY <1>1, <1>6, <2>3 DEF TakesOver
    <3>2. Contains(D, OnLine("stop_at", p.addr))
      BY <1>2, <1>6, <2>3 DEF Suits
    <3> QED BY <1>7, <3>1, <3>2 DEF Contains, ToSay, OnLine
  <2>4. ASSUME Busy("z")' PROVE ToSay(OnLine("clear", thread.packet.addr))'
    <3>1. Contains(D, OnLine("clear", p.addr))
      BY <1>2, <1>6, <2>4 DEF Suits
    <3> QED BY <1>7, <3>1 DEF Contains, ToSay, OnLine
  <2> QED BY <1>7, <2>1, <2>2, <2>3, <2>4 DEF EffectsThere
<1>15. AnswersCurrent'
  BY <1>1, <1>2, <1>7 DEF AnswersCurrent
<1> QED BY <1>9, <1>10, <1>11, <1>12, <1>13, <1>14, <1>15 DEF Timely

-------------------------------------------------------------------------------
(* The answers.                                                              *)
NowTrue(p) ==
  /\ Answer(p) = Current(p) \/ p.kind \notin {"p", "m", "M", "Z", "c"}
                            \/ (p.kind \in {"m", "M"} /\ ~ InData(p))
  /\ p.kind = "z" => convertAddressToLine(p.addr) \notin world.stops

LEMMA RegisterTrue ==
  ASSUME WorldIs, ThreadIs, StateCurrent, ReturnAddressRead, Busy("p"), thread.todo = <<>>
  PROVE  NowTrue(thread.packet)
<1> DEFINE p == thread.packet
           r == p.reg
<1>1. p \in Packets /\ p.kind = "p"
  BY DEF ThreadIs, Busy
<1>2. /\ r \in Registers \cup {"zero", "ra", "pc"}
      /\ "zero" \notin Registers /\ "ra" \notin Registers /\ "pc" \notin Registers
  BY <1>1, GdbAssumption DEF GdbAssumption
<1>3. \A c : ~ ToSay(c)
  BY EmptySeqIs DEF ToSay
<1>4. RegistersRead /\ regs["pc"] = convertLineToAddress(world.line)
  BY <1>3 DEF StateCurrent
<1>5. r = "ra" => thread.values[1] = world.ra
  BY <1>3 DEF ReturnAddressRead
<1>6. world.line \in Lines /\ Scope[world.line] \subseteq Registers
  BY DebuggeeAssumption DEF DebuggeeAssumption, WorldIs, IsWorld
<1> DEFINE told == CASE r = "zero" -> 0 [] r = "ra" -> thread.values[1] [] OTHER -> regs[r]
           true == CASE r = "zero" -> 0 [] r = "ra" -> world.ra
                     [] r = "pc" -> convertLineToAddress(world.line)
                     [] r \in Scope[world.line] -> world.regs[r]
                     [] OTHER -> Invalid
<1>7. Answer(p) = <<"register", told>> /\ Current(p) = <<"register", true>>
  BY <1>1 DEF Answer, Current
<1> HIDE DEF p, r
<1>8. told = true
  <2>1. CASE r = "zero"
    BY <1>2, <1>6, <2>1
  <2>2. CASE r = "ra"
    BY <1>2, <1>5, <1>6, <2>2
  <2>3. CASE r = "pc"
    BY <1>2, <1>4, <1>6, <2>3
  <2>4. CASE r \in Registers
    BY <1>2, <1>4, <2>4 DEF RegistersRead
  <2> QED BY <1>2, <2>1, <2>2, <2>3, <2>4
<1> QED BY <1>1, <1>7, <1>8 DEF NowTrue, p

LEMMA DataTrue ==
  ASSUME ThreadIs, DialogIs, EffectsThere, Busy("m"), thread.todo = <<>>, InData(thread.packet),
         WholeRange(thread.packet)
  PROVE  NowTrue(thread.packet)
<1> DEFINE p == thread.packet
           r == ReadMemory(p.addr, p.length)
           words == r.words
           n == Len(words)
           k == Len(thread.values)
           base == p.addr \div 4
<1>1. p \in Packets /\ p.kind = "m"
  BY DEF ThreadIs, Busy
<1>2. RangeIs(p, r)
  BY <1>1, RangeRead
<1>3. p.addr \in Nat /\ p.length \in Nat
  BY <1>1, GdbAssumption DEF GdbAssumption
<1>4. k \in Nat
  BY SeqDomain DEF DialogIs
<1>5. n \in Nat /\ k = n /\ ~ thread.failed /\ \A i \in 1 .. n : thread.values[i] = world.memory[words[i]]
  <2>1. WordsRead(p) /\ Len(thread.todo) = 0
    BY EmptySeqIs DEF EffectsThere
  <2>2. n \in Nat /\ k <= n /\ 0 \in {2 * (n - k), 2 * (n - k) - 1} /\ ~ thread.failed
        /\ \A i \in 1 .. k : thread.values[i] = world.memory[words[i]]
    BY <2>1, Zenon DEF WordsRead, ReadSoFar
  <2> HIDE DEF n, k
  <2>3. k = n
    BY <1>4, <2>2
  <2> QED BY <2>2, <2>3
<1> DEFINE told == [i \in DOMAIN r.bytes |-> <<thread.values[r.bytes[i][1]], r.bytes[i][2]>>]
           true == [i \in 1 .. p.length |-> <<world.memory[(p.addr + i - 1) \div 4], (p.addr + i - 1) % 4>>]
<1>6. Answer(p) = <<"data", told>>
  BY <1>1, <1>5, Zenon DEF Answer, InData
<1>7. Current(p) = <<"data", true>>
  BY <1>1 DEF Current, InData
<1>8. DOMAIN r.bytes = 1 .. p.length
  BY <1>2 DEF RangeIs
<1>9. ASSUME NEW i \in 1 .. p.length
      PROVE  thread.values[r.bytes[i][1]] = world.memory[(p.addr + i - 1) \div 4]
             /\ r.bytes[i][2] = (p.addr + i - 1) % 4
  <2> DEFINE b == (p.addr + i - 1) \div 4 - base + 1
  <2>1. b \in 1 .. n /\ r.bytes[i] = <<b, (p.addr + i - 1) % 4>>
    BY <1>2 DEF RangeIs
  <2>2. words[b] = base + b - 1
    BY <1>2, <2>1 DEF RangeIs
  <2>3. base + b - 1 = (p.addr + i - 1) \div 4
    BY <1>3
  <2>4. r.bytes[i][1] = b /\ r.bytes[i][2] = (p.addr + i - 1) % 4
    BY <2>1
  <2> HIDE DEF b, words, n
  <2> QED BY <1>5, <2>1, <2>2, <2>3, <2>4
<1> HIDE DEF r
<1>10. told = true
  BY <1>8, <1>9
<1> QED BY <1>1, <1>6, <1>7, <1>10 DEF NowTrue

LEMMA OthersTrue ==
  ASSUME WorldIs, ThreadIs, StateCurrent, EffectsThere, thread.at = "idle", thread.packet # None,
         thread.todo = <<>>, ~ Busy("p"), Busy("m") => ~ InData(thread.packet)
  PROVE  NowTrue(thread.packet)
<1> DEFINE p == thread.packet
<1>1. \A c : ~ ToSay(c)
  BY EmptySeqIs DEF ToSay
<1>2. CASE p.kind = "M" /\ InData(p)
  <2>1. ~ thread.failed /\ world.memory[p.addr \div 4] = p.value
    BY <1>1, <1>2 DEF EffectsThere, Busy
  <2>2. Answer(p) = <<"OK">> /\ Current(p) = <<"OK">>
    BY <1>2, <2>1 DEF Answer, Current, InData
  <2> QED BY <1>2, <2>2 DEF NowTrue
<1>3. CASE p.kind = "Z"
  <2> DEFINE line == convertAddressToLine(p.addr)
  <2>1. IF line \in Lines THEN line \in world.stops /\ ~ thread.failed ELSE thread.failed
    BY <1>1, <1>3 DEF EffectsThere, Busy
  <2>2. world.stops \subseteq Lines
    BY DEF WorldIs, IsWorld
  <2>3. Answer(p) = IF thread.failed THEN <<"E00">> ELSE <<"OK">>
    BY <1>3 DEF Answer
  <2>4. Current(p) = IF line \in world.stops THEN <<"OK">> ELSE <<"E00">>
    BY <1>3 DEF Current
  <2> HIDE DEF line
  <2>5. Answer(p) = Current(p)
    BY <2>1, <2>2, <2>3, <2>4
  <2> QED BY <1>3, <2>5 DEF NowTrue
<1>4. CASE p.kind = "z"
  BY <1>1, <1>4 DEF EffectsThere, Busy, NowTrue
<1>5. CASE p.kind = "c"
  <2>1. regs["pc"] = convertLineToAddress(world.line)
    BY <1>1, <1>5 DEF StateCurrent, Busy
  <2>2. Answer(p) = <<"T05", regs["pc"]>> /\ Current(p) = <<"T05", convertLineToAddress(world.line)>>
    BY <1>5 DEF Answer, Current
  <2> QED BY <1>5, <2>1, <2>2 DEF NowTrue
<1>6. CASE p.kind \notin {"p", "m", "M", "Z", "z", "c"} \/ (p.kind \in {"m", "M"} /\ ~ InData(p))
  BY <1>6 DEF NowTrue
<1> QED BY <1>2, <1>3, <1>4, <1>5, <1>6 DEF Busy

LEMMA RespondKept ==
  ASSUME WorldIs, ThreadIs, OnePacket, Timely, Respond, ~ late, \A q \in Packets : WholeRange(q)
  PROVE  Timely'
<1>1. PICK p : p = thread.packet
  OBVIOUS
<1>2. /\ thread.at = "idle" /\ p # None /\ p \in Packets /\ thread.todo = <<>>
      /\ answered' = [packet |-> p, answer |-> Answer(p), late |-> late]
      /\ thread'.at = "idle" /\ thread'.packet = None /\ thread'.todo = <<>> /\ thread'.values = <<>>
      /\ ~ thread'.waits
      /\ UNCHANGED <<world, lines, out, stateValid, regs, late>>
  BY <1>1 DEF Respond, Idle, jdb, ThreadIs
<1>3. ~ world.running /\ Unsaid
  BY <1>2 DEF Timely, LineInPlace, RunsOnlyWhenTold
<1>4. NowTrue(p)
  <2>1. CASE Busy("p")
    BY <1>1, <1>2, <2>1, RegisterTrue DEF Timely
  <2>2. CASE Busy("m") /\ InData(p)
    BY <1>1, <1>2, <2>2, DataTrue DEF Timely
  <2>3. CASE ~ Busy("p") /\ (Busy("m") => ~ InData(p))
    BY <1>1, <1>2, <2>3, OthersTrue DEF Timely
  <2> QED BY <2>1, <2>2, <2>3
<1>5. \A k : ~ Busy(k)'
  BY <1>2 DEF Busy
<1>6. DialogIs'
  BY <1>2, EmptySeqIs DEF DialogIs
<1>7. LineInPlace' /\ RunsOnlyWhenTold'
  BY <1>2, <1>3 DEF LineInPlace, RunsOnlyWhenTold, Unsaid
<1>8. StateCurrent'
  <2>1. RegistersRead' = RegistersRead
    BY <1>2 DEF RegistersRead
  <2> QED BY <1>2, <1>5, <2>1, EmptySeqIs DEF StateCurrent, Timely
<1>9. ReturnAddressRead' /\ EffectsThere'
  BY <1>5 DEF ReturnAddressRead, EffectsThere
<1>10. AnswersCurrent'
  <2>1. answered'.packet = p /\ answered'.answer = Answer(p) /\ world' = world
    BY <1>2
  <2>2. answered'.answer = Current(answered.packet)'
    <3>1. CASE p.kind \notin {"p", "m", "M", "Z", "c"} \/ (p.kind \in {"m", "M"} /\ ~ InData(p))
      BY <2>1, <3>1 DEF Current, InData
    <3>2. CASE (p.kind \in {"p", "Z", "c"} \/ (p.kind \in {"m", "M"} /\ InData(p)))
      <4>1. Answer(p) = Current(p)
        BY <1>4, <3>2 DEF NowTrue
      <4> QED BY <2>1, <3>2, <4>1 DEF Current, InData
    <3> QED BY <3>1, <3>2
  <2> QED BY <1>2, <1>3, <1>4, <2>1, <2>2 DEF AnswersCurrent, NowTrue
<1> QED BY <1>6, <1>7, <1>8, <1>9, <1>10 DEF Timely

-------------------------------------------------------------------------------
LEMMA InitIInv == Init => IInv
<1> SUFFICES ASSUME Init PROVE IInv
  OBVIOUS
<1> DEFINE D == Kicked(Size) \o readState
<1>1. /\ thread.at = "init" /\ thread.packet = None /\ thread.todo = D /\ ~ thread.waits
      /\ thread.values = <<>>
      /\ thread = [at |-> thread.at, packet |-> thread.packet, todo |-> thread.todo,
                   waits |-> thread.waits, values |-> thread.values, failed |-> thread.failed]
      /\ thread.waits \in BOOLEAN
  BY DEF Init, Idle, Size
<1>2. Six(D, Size, Locals, Where)
  BY KickedIs, StateAsked, KickedFirst
<1> HIDE DEF D
<1>3. WorldIs
  <2>1. /\ world = [running |-> TRUE, line |-> 0, regs |-> [r \in Registers |-> 0], ra |-> 0,
                    memory |-> [o \in Memory |-> 0], stops |-> {0}, prints |-> FALSE]
        /\ ~ out.prompt
    BY DEF Init, JInit
  <2> QED BY <2>1, MemoryIs DEF WorldIs, IsWorld
<1>4. ThreadIs /\ OnePacket
  BY <1>1 DEF ThreadIs, OnePacket, Init
<1>5. /\ IsSeq(D) /\ DOMAIN D = {1, 2, 3, 4, 5, 6} /\ D[1] = Empty /\ D[2] = Size /\ D[3] = Empty
      /\ D[4] = Locals /\ D[5] = Empty /\ D[6] = Where
  BY <1>2 DEF Six
<1>6. D # <<>> /\ Head(D) = Empty
  <2>1. D # <<>>
    BY <1>5, EmptySeqIs
  <2> QED BY <1>5, <2>1, TailIs
<1>7. /\ lines = <<>> /\ out.texts = <<>> /\ ~ out.prompt /\ ~ stateValid /\ answered = None
  BY DEF Init, JInit
<1>8. \A k : ~ Busy(k)
  BY <1>1 DEF Busy
<1>9. DialogIs
  <2>1. \A i \in DOMAIN D : Speaks(D[i])
    BY <1>1, <1>5 DEF Speaks
  <2> QED BY <1>1, <1>5, <2>1, EmptySeqIs DEF DialogIs
<1>10. LineInPlace /\ RunsOnlyWhenTold
  BY <1>1, <1>6, <1>7 DEF LineInPlace, Unsaid, RunsOnlyWhenTold
<1>11. StateCurrent
  <2>1. ToSay(Where)
    BY <1>1, <1>5 DEF ToSay
  <2>2. Empty # Where /\ Size # Where /\ Locals # Where
    BY Words
  <2>3. ASSUME NEW i \in DOMAIN D, D[i] = Where PROVE i = 6
    BY <1>5, <2>2, <2>3
  <2>4. WhereLast(6)
    BY <1>1, <1>5 DEF WhereLast
  <2>5. \A i \in DOMAIN thread.todo : thread.todo[i] = Where => WhereLast(i)
    BY <1>1, <2>3, <2>4
  <2> QED BY <1>1, <1>7, <2>1, <2>5 DEF StateCurrent
<1>12. ReturnAddressRead /\ EffectsThere
  BY <1>8 DEF ReturnAddressRead, EffectsThere
<1>13. AnswersCurrent
  BY <1>1, <1>7 DEF AnswersCurrent
<1> QED BY <1>3, <1>4, <1>9, <1>10, <1>11, <1>12, <1>13 DEF IInv, Timely

LEMMA NextIInv ==
  ASSUME IInv, [Next]_vars, \A p \in Packets : WholeRange(p)
  PROVE  IInv'
<1>1. CASE UNCHANGED vars
  <2>1. UNCHANGED <<world, lines, out, gdb, wire, inputQueue, thread, stateValid, regs, late, answered>>
    BY <1>1 DEF vars, jdb, server
  <2>2. WorldIs' /\ ThreadIs' /\ OnePacket'
    BY <2>1 DEF IInv, WorldIs, ThreadIs, OnePacket
  <2>3. ASSUME Timely PROVE Timely'
    <3>1. SameDialog /\ SameRegisters /\ SameWorld
      BY <2>1 DEF SameDialog, SameRegisters, SameWorld
    <3>2. LineInPlace' /\ RunsOnlyWhenTold'
      BY <2>1, <2>3 DEF LineInPlace, Unsaid, Said, Obeyed, Heeded, Running, RunsOnlyWhenTold, Busy, Timely
    <3>3. AnswersCurrent'
      BY <2>1, <2>3 DEF AnswersCurrent, Current, Timely
    <3> QED BY <2>3, <3>1, <3>2, <3>3, AllKept DEF Timely
  <2> QED BY <2>1, <2>2, <2>3 DEF IInv
<1>2. CASE Next
  <2>1. OnePacket'
    BY <1>2, PacketKept DEF IInv
  <2>2. WorldIs'
    <3>1. CASE Reads \/ Talks \/ Stops
      BY <3>1, WorldKept DEF IInv, Talks
    <3>2. CASE GdbSends \/ Reader \/ Listen \/ Take \/ Say \/ Retry \/ Respond
      <4>1. world' = world /\ out' = out
        BY <3>2 DEF GdbSends, Reader, Listen, Take, Say, Retry, Respond, jdb
      <4> QED BY <4>1 DEF IInv, WorldIs
    <3>3. CASE Hear
      <4>1. world' = world /\ ~ out'.prompt
        BY <3>3 DEF Hear
      <4> QED BY <4>1 DEF IInv, WorldIs
    <3> QED BY <1>2, <3>1, <3>2, <3>3 DEF Next, JdbThread
  <2>3. ThreadIs'
    <3>1. CASE Reads \/ Talks \/ Stops
      <4>1. UNCHANGED <<thread, gdb, answered>>
        BY <3>1 DEF Reads, Talks, Stops, server
      <4> QED BY <4>1 DEF IInv, ThreadIs
    <3>2. CASE GdbSends \/ Reader \/ JdbThread
      BY <3>2, ThreadKept DEF IInv
    <3> QED BY <1>2, <3>1, <3>2 DEF Next
  <2>4. ASSUME ~ late' PROVE Timely'
    <3>1. CASE Take
      BY <2>4, <3>1, TakeKept DEF IInv
    <3>2. CASE Stops
      <4>1. ~ late
        BY <2>4, <3>2 DEF Stops
      <4> QED BY <2>4, <3>2, <4>1, StopsKept DEF IInv
    <3>3. CASE Retry
      <4>1. ~ late
        BY <2>4, <3>3 DEF Retry
      <4> QED BY <2>4, <3>3, <4>1, RetryKept DEF IInv
    <3>4. CASE GdbSends \/ Reader \/ Listen \/ Say \/ Hear \/ Respond \/ Reads \/ Talks
      <4>1. late' = late
        BY <3>4 DEF GdbSends, Reader, Listen, Say, Hear, Respond, Reads, Talks, server
      <4>2. Timely /\ ~ late
        BY <2>4, <4>1 DEF IInv
      <4>3. CASE GdbSends \/ Reader
        BY <4>2, <4>3, SendsKept
      <4>4. CASE Listen
        BY <4>2, <4>4, ListenKept DEF IInv
      <4>5. CASE Say
        BY <4>2, <4>5, SayKept DEF IInv
      <4>6. CASE Hear
        BY <4>2, <4>6, HearKept DEF IInv
      <4>7. CASE Respond
        BY <4>2, <4>7, RespondKept DEF IInv
      <4>8. CASE Reads
        BY <4>2, <4>8, ReadsKept DEF IInv
      <4>9. CASE Talks
        BY <4>2, <4>9, TalksKept DEF IInv
      <4> QED BY <3>4, <4>3, <4>4, <4>5, <4>6, <4>7, <4>8, <4>9
    <3> QED BY <1>2, <3>1, <3>2, <3>3, <3>4 DEF Next, JdbThread
  <2> QED BY <2>1, <2>2, <2>3, <2>4 DEF IInv
<1> QED BY <1>1, <1>2

(* What gdb was told last of registers, memory, breakpoints and stops is     *)
(* true of the stopped program, and only the packets whose handlers raise    *)
(* kill the thread (JdbThread, jdb.py and packets.py), unless a retry of     *)
(* waitForPrompt crossed a stop: for every program, set of breakpoints, text *)
(* section and packets that read whole ranges of data. Reads of text that    *)
(* are unaligned, too long or too short are among the packets that raise.    *)
THEOREM AnswersAreCurrent ==
  ASSUME \A p \in Packets : WholeRange(p)
  PROVE  Spec => []AnswersCurrent
<1>1. Init => IInv
  BY InitIInv
<1>2. IInv /\ [Next]_vars => IInv'
  BY NextIInv
<1>3. IInv => AnswersCurrent
  <2>1. late => AnswersCurrent
    BY DEF AnswersCurrent
  <2> QED BY <2>1 DEF IInv, Timely
<1> QED BY <1>1, <1>2, <1>3, PTL DEF Spec
===============================================================================

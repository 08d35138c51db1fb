--------------------------- MODULE TranslatedCalls ----------------------------
(***************************************************************************)
(* The Java program that tools/translator makes of these calls. A function *)
(* becomes a Java method of its own, or shares one with the functions it   *)
(* is colocated with; then a call inside the method is a goto, and ra      *)
(* holds the number of the place to return to. The MIPS machine of         *)
(* MipsCalls runs in step, as the reference.                               *)
(***************************************************************************)
EXTENDS MipsCalls

CONSTANTS
  Leaf,         (* functions that call nothing                              *)
  Width,        (* words of result a function leaves: 0, 1 (v0), 2 (v0, v1) *)
  Configs,      (* configurations of the translator                         *)
  Low, High,    (* words a function leaves in v0 and in v1                  *)
  MaxFrames     (* bound: no more Java frames than this                     *)

ASSUME CallsAssumption ==
  /\ Leaf \subseteq Fns /\ Width \in [Fns -> 0 .. 2]
  /\ Low \subseteq Int /\ High \subseteq Int
  /\ MaxFrames \in Nat \ {0}
  /\ None \notin (Fns \X Sites) \cup [size : 0 .. 2, lo : Int, hi : Int]
                    \cup [width : 0 .. 2, v0 : Int, v1 : Int]
  /\ Configs \subseteq [threadSafe : BOOLEAN, prune : BOOLEAN, coloc : SUBSET Fns, events : BOOLEAN]

VARIABLES
  config,       (* thread_safe, optimize_prune_stack_stores and
                   colocate_functions of the configuration, and whether the
                   program has callbacks                                    *)
  java,         (* frames of the Java virtual machine, the running one last *)
  stack,        (* guest stack: ra and s0 as each prologue saved them       *)
  savedV1,      (* CRunTime.saved_v1                                        *)
  crossed       (* a callback wrote it after the last return                *)

vars == <<calls, returned, config, java, stack, savedV1, crossed>>

hasMultipleFunctions(f) == f \in config.coloc
MethodOf(f) == IF f \in config.coloc THEN config.coloc ELSE {f}

(* jal counts as writing v0 and v1, so only methods that call nothing return *)
(* fewer than two words.                                                     *)
returnSize(f) ==
  IF MethodOf(f) \subseteq Leaf
  THEN CHOOSE w \in {Width[g] : g \in MethodOf(f)} : \A g \in MethodOf(f) : Width[g] <= w
  ELSE 2

Top == java[Len(java)]
Below == SubSeq(java, 1, Len(java) - 1)
WithTop(frame) == Append(Below, frame)
At(places) == java # <<>> /\ Top.pc \in places

(* Mutant: ra starts as 0, which is the number of a return location. *)
EnteredZero(g) ==
  [fn |-> g, pc |-> "entry", site |-> 0, indirect |-> FALSE, op |-> None,
   ra |-> IF hasMultipleFunctions(g) THEN <<g, 1>> ELSE None, s0 |-> 0, v0 |-> 0, v1 |-> 0]

(* A method that is entered has every register at 0 and ra at -1 (None);     *)
(* FNA selects the function.                                                 *)
Entered(g) ==
  [fn |-> g, pc |-> "entry", site |-> 0, indirect |-> FALSE, op |-> None,
   ra |-> None, s0 |-> 0, v0 |-> 0, v1 |-> 0]

(* The value a Java method returns, as the caller pops it. A long is         *)
(* (v1 << 32) | v0 with v0 sign-extended.                                    *)
Popped(frame) ==
  LET size == returnSize(frame.fn)
  IN [size |-> size,
      lo |-> IF size = 0 THEN 0 ELSE frame.v0,
      hi |-> IF size = 2 /\ frame.v0 >= 0 THEN frame.v1
             ELSE IF size > 0 /\ frame.v0 < 0 THEN -1 ELSE 0]

(* Mutants: v1 is not fetched; the value stays on the operand stack. *)
ReceivedLow(frame) == [frame EXCEPT !.v0 = frame.op.lo, !.op = None]

ReceivedLeaving(frame) ==
  [frame EXCEPT !.v0 = frame.op.lo,
                !.v1 = IF config.threadSafe THEN frame.op.hi ELSE savedV1]

(* The registers after the call: by the size of the method that was called,  *)
(* or two words from the call table.                                         *)
Received(frame) ==
  LET size == IF frame.indirect THEN 2 ELSE frame.op.size
  IN [frame EXCEPT !.v0 = IF size >= 1 THEN frame.op.lo ELSE @,
                   !.v1 = IF size < 2 THEN @
                          ELSE IF config.threadSafe THEN frame.op.hi ELSE savedV1,
                   !.op = None]

-------------------------------------------------------------------------------
Init ==
  /\ MInit
  /\ config \in Configs
  /\ java = <<>> /\ stack = <<>> /\ savedV1 = 0 /\ crossed = FALSE

(* CibylCallTable.call(address, ...), from Java. *)
Start(g) ==
  /\ java = <<>>
  /\ MStart(g)
  /\ java' = <<Entered(g)>>
  /\ UNCHANGED <<config, stack, savedV1, crossed>>

(* Mutant: s0 is not saved. *)
SavedRaOnly(frame) == [ra |-> frame.ra, s0 |-> 0]

(* What the prologue stores; the stores of s registers may be pruned.        *)
Saved(frame) == [ra |-> frame.ra, s0 |-> IF config.prune THEN 0 ELSE frame.s0]

(* The prologue; then the function puts a value of its own into s0.          *)
Prologue ==
  /\ At({"entry"})
  /\ stack' = Append(stack, Saved(Top))
  /\ java' = WithTop([Top EXCEPT !.pc = "body", !.s0 = Len(stack) + 1])
  /\ UNCHANGED <<mips, config, savedV1, crossed>>

(* jal inside a method with several functions *)
CallLocal(g, k) ==
  /\ At({"body"}) /\ Top.fn \notin Leaf
  /\ hasMultipleFunctions(Top.fn) /\ MethodOf(g) = MethodOf(Top.fn)
  /\ MCall(g, k)
  /\ java' = WithTop([Top EXCEPT !.fn = g, !.pc = "entry", !.site = 0, !.ra = <<Top.fn, k>>])
  /\ UNCHANGED <<config, stack, savedV1, crossed>>

(* jal to another method, jalr to any through the call table *)
Call(g, k, indirect) ==
  /\ At({"body"}) /\ Top.fn \notin Leaf
  /\ indirect \/ ~ (hasMultipleFunctions(Top.fn) /\ MethodOf(g) = MethodOf(Top.fn))
  /\ MCall(g, k)
  /\ Len(java) < MaxFrames
  /\ java' = Append(WithTop([Top EXCEPT !.pc = "calling", !.site = k, !.indirect = indirect]),
                    Entered(g))
  /\ UNCHANGED <<config, stack, savedV1, crossed>>

(* The function computes its result and restores what it saved, unless the   *)
(* loads are pruned.                                                         *)
Epilogue(lo, hi) ==
  LET saved == stack[Len(stack)]
  IN /\ At({"body"})
     /\ java' = WithTop([Top EXCEPT !.pc = "done",
                                    !.ra = saved.ra,
                                    !.s0 = IF config.prune THEN @ ELSE saved.s0,
                                    !.v0 = IF Width[Top.fn] >= 1 THEN lo ELSE @,
                                    !.v1 = IF Width[Top.fn] = 2 THEN hi ELSE @])
     /\ stack' = SubSeq(stack, 1, Len(stack) - 1)
     /\ UNCHANGED <<mips, config, savedV1, crossed>>

(* j to a function of the same method stays a goto.                          *)
TailCallLocal(g) ==
  /\ At({"done"}) /\ Top.fn \notin Leaf
  /\ MethodOf(g) = MethodOf(Top.fn)
  /\ MTailCall(g)
  /\ java' = WithTop([Top EXCEPT !.fn = g, !.pc = "entry", !.site = 0])
  /\ UNCHANGED <<config, stack, savedV1, crossed>>

(* j to another method is replaced by a call and a return (JalReturn).       *)
TailCall(g) ==
  /\ At({"done"}) /\ Top.fn \notin Leaf
  /\ MethodOf(g) # MethodOf(Top.fn)
  /\ MTailCall(g)
  /\ Len(java) < MaxFrames
  /\ java' = Append(WithTop([Top EXCEPT !.pc = "tailing", !.indirect = FALSE]), Entered(g))
  /\ UNCHANGED <<config, stack, savedV1, crossed>>

(* jr ra. When the function was tail called, the MIPS machine has returned   *)
(* already, and the frame only passes the result on.                         *)
Returning ==
  /\ At({"done", "passing"})
  /\ IF Top.pc = "done"
     THEN /\ MReturn([width |-> Width[Top.fn], v0 |-> Top.v0, v1 |-> Top.v1])
          /\ crossed' = FALSE
     ELSE UNCHANGED <<mips, crossed>>

ReturnLocal ==
  /\ Returning
  /\ hasMultipleFunctions(Top.fn) /\ Top.ra # None
  /\ java' = WithTop([Top EXCEPT !.fn = Top.ra[1], !.site = Top.ra[2], !.pc = "body"])
  /\ UNCHANGED <<config, stack, savedV1>>

ReturnJava ==
  /\ Returning
  /\ ~ (hasMultipleFunctions(Top.fn) /\ Top.ra # None)
  /\ java' = IF Below = <<>> THEN <<>>
             ELSE [Below EXCEPT ![Len(Below)].op = Popped(Top)]
  /\ savedV1' = IF ~ config.threadSafe /\ returnSize(Top.fn) = 2 THEN Top.v1 ELSE savedV1
  /\ UNCHANGED <<config, stack>>

(* The code after invokestatic; after JalReturn's it goes to the return.     *)
Receive ==
  /\ At({"calling", "tailing"}) /\ Top.op # None
  /\ java' = WithTop([Received(Top) EXCEPT !.pc = IF Top.pc = "calling" THEN "body" ELSE "passing"])
  /\ UNCHANGED <<mips, config, stack, savedV1, crossed>>

(* A callback on the event thread is made of the same methods. Its frames    *)
(* and its registers are its own, and so is its stack; what it returns goes  *)
(* through the same saved_v1, at any time.                                   *)
EventReturns(hi) ==
  /\ config.events
  /\ savedV1' = IF config.threadSafe THEN savedV1 ELSE hi
  /\ crossed' = TRUE
  /\ UNCHANGED <<mips, config, java, stack>>

Next ==
  \/ \E g \in Fns : Start(g)
  \/ Prologue
  \/ \E g \in Fns, k \in Sites : CallLocal(g, k)
  \/ \E g \in Fns, k \in Sites, indirect \in BOOLEAN : Call(g, k, indirect)
  \/ \E lo \in Low, hi \in High : Epilogue(lo, hi)
  \/ \E g \in Fns : TailCallLocal(g)
  \/ \E g \in Fns : TailCall(g)
  \/ ReturnLocal
  \/ ReturnJava
  \/ Receive
  \/ \E hi \in High \cup {0} : EventReturns(hi)

Spec == Init /\ [][Next]_vars

-------------------------------------------------------------------------------
(* Properties *)

Words == Low \cup High \cup {0, -1}

(* Frames, saved registers and results have their shape, and only frames     *)
(* below the running one wait for a call.                                    *)
TypeOK ==
  /\ Len(calls) <= MaxDepth /\ Len(java) <= MaxFrames
  /\ \A i \in 1 .. Len(java) :
       /\ java[i].fn \in Fns /\ java[i].v0 \in Words /\ java[i].v1 \in Words
       /\ java[i].ra \in {None} \cup config.coloc \X Sites
       /\ i < Len(java) => java[i].pc \in {"calling", "tailing"} /\ java[i].op = None
       /\ java[i].pc \in {"entry", "body", "done", "passing"} => java[i].op = None
  /\ \A i \in 1 .. Len(stack) : stack[i].s0 \in 0 .. MaxDepth
  /\ savedV1 \in Words

(* Control is where the MIPS program would be: a call reaches its function,  *)
(* a return the site of the call, however the functions are distributed over *)
(* methods, tail called or called through the table.                         *)
InStep ==
  /\ java = <<>> => calls = <<>> /\ stack = <<>>
  /\ At({"entry", "body", "done"}) =>
       /\ calls # <<>>
       /\ Top.fn = Running.fn /\ Top.site = Running.site

(* s0, which a callee must preserve, is the function's own after every call; *)
(* a register file per Java frame or the guest stack keeps it.               *)
RegistersKept == At({"body"}) => Top.s0 = Len(stack)

Arrived(high) ==
  At({"body"}) /\ returned # None =>
    /\ returned.width >= 1 => Top.v0 = returned.v0
    /\ returned.width = 2 /\ high => Top.v1 = returned.v1

(* The caller finds in v0 and v1 what the callee left there, whatever the    *)
(* event thread does meanwhile in the thread-safe translation, and otherwise *)
(* unless a callback returned since (doc/threading.txt). In the thread-safe  *)
(* translation the high word of a result whose low word is negative is       *)
(* excepted: see ResultsAlwaysArrive.                                        *)
ResultsArrive == Arrived(IF config.threadSafe THEN returned.v0 >= 0 ELSE ~crossed)

(* "push (v1 << 32) | v0" (javamethod.cc:489): any two words arrive.         *)
ResultsAlwaysArrive == Arrived(config.threadSafe \/ ~crossed)
===============================================================================

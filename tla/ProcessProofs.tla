---------------------------- MODULE ProcessProofs -----------------------------
(***************************************************************************)
(* The exit of a program, for any handlers and whatever the program thread *)
(* does meanwhile; and the registry of file systems, for any order in      *)
(* which any of the libraries were linked.                                 *)
(***************************************************************************)
EXTENDS Process, SequenceTheorems, WellFoundedInduction, TLAPS

(* atexit between its steps: the handler is counted, then the list has one   *)
(* place more, with nothing of use in it, then the handler is there.         *)
Additions == [fn : Handlers, cur : Nat, grown : BOOLEAN]

HandlersShape ==
  /\ handlers = [list |-> handlers.list, n |-> handlers.n, adding |-> handlers.adding,
                 added |-> handlers.added]
  /\ handlers.added \in Seq(Handlers)
  /\ handlers.adding = NULL => handlers.list = handlers.added /\ handlers.n = Len(handlers.added)
  /\ handlers.adding # NULL =>
       /\ handlers.adding \in Additions
       /\ handlers.adding.cur = Len(handlers.added)
       /\ handlers.n = Len(handlers.added) + 1
       /\ handlers.list = IF handlers.adding.grown THEN Append(handlers.added, Junk)
                          ELSE handlers.added

(* The event thread has called the first ones of the list, as long as atexit *)
(* did not come between.                                                     *)
Undisturbed ==
  /\ handlers.adding = NULL
  /\ exit.end = Len(handlers.added)
  /\ exit.next \in 1 .. exit.end + 1
  /\ exit.ran = SubSeq(handlers.added, 1, exit.next - 1)

ExitShape ==
  /\ exit = [at |-> exit.at, callback |-> exit.callback, ran |-> exit.ran, next |-> exit.next,
             end |-> exit.end, overlapped |-> exit.overlapped]
  /\ exit.overlapped \in BOOLEAN
  /\ exit.at \in {"running", "ignored", "handlers", "failed", "destroyed"}
  /\ exit.at = "running" => exit.next = 1
  /\ exit.at \in {"running", "ignored"} => exit.ran = <<>>
  /\ exit.at = "handlers" /\ ~exit.overlapped => Undisturbed
  /\ exit.at = "destroyed" /\ ~exit.overlapped => exit.ran = Append(handlers.added, "destructors")
  /\ exit.at = "failed" => exit.overlapped

ExitIInv == HandlersShape /\ ExitShape

-------------------------------------------------------------------------------
LEMMA InitExitIInv == Init => ExitIInv
  BY DEF Init, NoHandlers, NotExiting, ExitIInv, HandlersShape, ExitShape

LEMMA StillExitIInv ==
  ASSUME ExitIInv, UNCHANGED ending
  PROVE  ExitIInv'
BY DEF ExitIInv, HandlersShape, ExitShape, Undisturbed, ending

(* A program that starts again has no handlers. *)
LEMMA EndExitIInv ==
  ASSUME End
  PROVE  ExitIInv'
BY DEF End, NoHandlers, NotExiting, ExitIInv, HandlersShape, ExitShape

(* While atexit changes the list, the event thread has not begun, or knows   *)
(* nothing of the list any more.                                             *)
LEMMA OverlappingExitShape ==
  ASSUME ExitIInv, exit' = Overlapping
  PROVE  ExitShape'
<1>1. /\ exit'.at = exit.at /\ exit'.ran = exit.ran /\ exit'.next = exit.next
      /\ exit'.overlapped = (exit.overlapped \/ exit.at # "running")
      /\ exit' = [at |-> exit'.at, callback |-> exit'.callback, ran |-> exit'.ran,
                  next |-> exit'.next, end |-> exit'.end, overlapped |-> exit'.overlapped]
  BY DEF Overlapping, ExitIInv, ExitShape
<1>2. exit'.overlapped \in BOOLEAN /\ (exit.at # "running" => exit'.overlapped)
  BY <1>1 DEF ExitIInv, ExitShape
<1> QED BY <1>1, <1>2 DEF ExitIInv, ExitShape

LEMMA AtexitCountsIInv ==
  ASSUME ExitIInv, AtexitCounts
  PROVE  ExitIInv'
<1>1. PICK fn \in Handlers :
        handlers' = [handlers EXCEPT !.n = @ + 1,
                       !.adding = [fn |-> fn, cur |-> handlers.n, grown |-> FALSE]]
  BY DEF AtexitCounts
<1>2. handlers.adding = NULL /\ handlers.n = Len(handlers.added) /\ handlers.list = handlers.added
      /\ handlers.added \in Seq(Handlers) /\ handlers.n \in Nat
  BY DEF AtexitCounts, ExitIInv, HandlersShape
<1> DEFINE a == [fn |-> fn, cur |-> handlers.n, grown |-> FALSE]
<1>3. a \in Additions /\ a # NULL /\ a.cur = handlers.n /\ ~a.grown
  <2>1. a \in Additions /\ a.cur = handlers.n /\ ~a.grown
    BY <1>2 DEF Additions
  <2> QED BY <2>1, ProcessAssumption DEF ProcessAssumption, Additions
<1> HIDE DEF a
<1>4. /\ handlers'.adding = a /\ handlers'.n = handlers.n + 1
      /\ handlers'.list = handlers.list /\ handlers'.added = handlers.added
      /\ handlers' = [list |-> handlers'.list, n |-> handlers'.n, adding |-> handlers'.adding,
                      added |-> handlers'.added]
  BY <1>1 DEF ExitIInv, HandlersShape, a
<1>5. HandlersShape'
  BY <1>2, <1>3, <1>4 DEF HandlersShape
<1>6. ExitShape'
  BY OverlappingExitShape DEF AtexitCounts
<1> QED BY <1>5, <1>6 DEF ExitIInv

LEMMA AtexitGrowsIInv ==
  ASSUME ExitIInv, AtexitGrows
  PROVE  ExitIInv'
<1> DEFINE a == [handlers.adding EXCEPT !.grown = TRUE]
           n == Len(handlers.added)
<1>1. /\ handlers.adding # NULL /\ handlers.adding \in Additions /\ ~handlers.adding.grown
      /\ handlers.list = handlers.added /\ handlers.n = n + 1 /\ handlers.adding.cur = n
      /\ handlers.added \in Seq(Handlers) /\ n \in Nat
  BY DEF AtexitGrows, ExitIInv, HandlersShape
<1>2. a \in Additions /\ a # NULL /\ a.cur = n /\ a.grown
  BY <1>1, ProcessAssumption DEF ProcessAssumption, Additions
<1>3. At(handlers.list, handlers.n, Junk) = Append(handlers.added, Junk)
  BY <1>1 DEF At
<1>4. /\ handlers'.adding = a /\ handlers'.n = handlers.n
      /\ handlers'.list = At(handlers.list, handlers.n, Junk)
      /\ handlers'.added = handlers.added
      /\ handlers' = [list |-> handlers'.list, n |-> handlers'.n, adding |-> handlers'.adding,
                      added |-> handlers'.added]
  BY DEF AtexitGrows, ExitIInv, HandlersShape
<1> HIDE DEF a, n
<1>5. HandlersShape'
  BY <1>1, <1>2, <1>3, <1>4 DEF HandlersShape, n
<1>6. ExitShape'
  BY OverlappingExitShape DEF AtexitGrows
<1> QED BY <1>5, <1>6 DEF ExitIInv

LEMMA AtexitStoresIInv ==
  ASSUME ExitIInv, AtexitStores
  PROVE  ExitIInv'
<1> DEFINE fn == handlers.adding.fn
           n == Len(handlers.added)
<1>1. /\ handlers.adding \in Additions /\ handlers.adding.cur = n /\ handlers.n = n + 1
      /\ handlers.list = Append(handlers.added, Junk) /\ fn \in Handlers
      /\ handlers.added \in Seq(Handlers) /\ n \in Nat
  BY DEF AtexitStores, ExitIInv, HandlersShape, Additions
<1>2. At(handlers.list, handlers.adding.cur + 1, fn) = Append(handlers.added, fn)
  BY <1>1 DEF At
<1>3. /\ handlers'.adding = NULL /\ handlers'.n = handlers.n
      /\ handlers'.list = At(handlers.list, handlers.adding.cur + 1, fn)
      /\ handlers'.added = Append(handlers.added, fn)
      /\ handlers' = [list |-> handlers'.list, n |-> handlers'.n, adding |-> handlers'.adding,
                      added |-> handlers'.added]
  BY DEF AtexitStores, ExitIInv, HandlersShape
<1>4. Append(handlers.added, fn) \in Seq(Handlers) /\ Len(Append(handlers.added, fn)) = n + 1
  BY <1>1
<1> HIDE DEF fn, n
<1>5. HandlersShape'
  BY <1>1, <1>2, <1>3, <1>4 DEF HandlersShape
<1>6. ExitShape'
  BY OverlappingExitShape DEF AtexitStores
<1> QED BY <1>5, <1>6 DEF ExitIInv

(* The exit command begins with the list as it is. *)
LEMMA CommandExitIInv ==
  ASSUME ExitIInv, CommandAction
  PROVE  ExitIInv'
<1>1. exit.at = "running" /\ exit.next = 1 /\ exit.ran = <<>> /\ handlers' = handlers
  BY DEF CommandAction, ExitIInv, ExitShape
<1>2. handlers.added \in Seq(Handlers) /\ Len(handlers.added) \in Nat
  BY DEF ExitIInv, HandlersShape
<1>3. CASE exit.callback = 0
  BY <1>1, <1>3 DEF CommandAction, InvokeCallback, ExitIInv, HandlersShape, ExitShape
<1>4. CASE exit.callback # 0
  <2>1. /\ exit'.at = "handlers" /\ exit'.next = 1 /\ exit'.ran = <<>> /\ exit'.end = handlers.n
        /\ exit'.overlapped = (handlers.adding # NULL)
        /\ exit' = [at |-> exit'.at, callback |-> exit'.callback, ran |-> exit'.ran,
                    next |-> exit'.next, end |-> exit'.end, overlapped |-> exit'.overlapped]
    BY <1>1, <1>4 DEF CommandAction, InvokeCallback, AtexitRun, ExitIInv, ExitShape
  <2>2. ~exit'.overlapped => Undisturbed'
    <3> SUFFICES ASSUME handlers.adding = NULL PROVE Undisturbed'
      BY <2>1
    <3>1. handlers.n = Len(handlers.added)
      BY DEF ExitIInv, HandlersShape
    <3>2. SubSeq(handlers.added, 1, 0) = <<>>
      BY <1>2
    <3> QED BY <1>1, <1>2, <2>1, <3>1, <3>2 DEF Undisturbed
  <2> QED BY <1>1, <2>1, <2>2 DEF ExitIInv, HandlersShape, ExitShape
<1> QED BY <1>3, <1>4

(* One handler more, the next of the list. *)
LEMMA RunHandlerExitIInv ==
  ASSUME ExitIInv, RunHandler
  PROVE  ExitIInv'
<1>1. PICK fn \in (IF exit.next \in DOMAIN handlers.list THEN {handlers.list[exit.next]} ELSE {})
                  \cup (IF exit.overlapped THEN {Junk} ELSE {}) :
        exit' = IF fn = Junk THEN Shown
                ELSE [exit EXCEPT !.next = @ + 1, !.ran = Append(@, fn)]
  BY DEF RunHandler
<1>2. exit.at = "handlers" /\ exit.next <= exit.end /\ handlers' = handlers
  BY DEF RunHandler
<1>3. CASE exit.overlapped
  <2>1. CASE fn = Junk
    BY <1>1, <1>2, <1>3, <2>1 DEF Shown, ExitIInv, HandlersShape, ExitShape
  <2>2. CASE fn # Junk
    BY <1>1, <1>2, <1>3, <2>2 DEF ExitIInv, HandlersShape, ExitShape
  <2> QED BY <2>1, <2>2
<1>4. CASE ~exit.overlapped
  <2> DEFINE added == handlers.added
             i == exit.next
  <2>1. /\ handlers.adding = NULL /\ exit.end = Len(added) /\ i \in 1 .. exit.end + 1
        /\ exit.ran = SubSeq(added, 1, i - 1) /\ handlers.list = added
        /\ added \in Seq(Handlers) /\ Len(added) \in Nat
    BY <1>2, <1>4 DEF ExitIInv, HandlersShape, ExitShape, Undisturbed
  <2>2. i \in 1 .. Len(added) /\ fn = added[i]
    BY <1>1, <1>2, <1>4, <2>1
  <2>3. fn \in Handlers /\ fn # Junk
    BY <2>1, <2>2, ProcessAssumption DEF ProcessAssumption
  <2>4. /\ exit'.at = "handlers" /\ exit'.next = i + 1 /\ exit'.ran = Append(exit.ran, fn)
        /\ exit'.end = exit.end /\ exit'.overlapped = exit.overlapped
        /\ exit' = [at |-> exit'.at, callback |-> exit'.callback, ran |-> exit'.ran,
                    next |-> exit'.next, end |-> exit'.end, overlapped |-> exit'.overlapped]
    BY <1>1, <1>2, <2>3 DEF ExitIInv, ExitShape
  <2> HIDE DEF added, i
  <2>5. Append(SubSeq(added, 1, i - 1), added[i]) = SubSeq(added, 1, i)
    BY <2>1, <2>2
  <2>6. Undisturbed'
    BY <1>2, <2>1, <2>2, <2>4, <2>5, SMTT(40) DEF Undisturbed, added
  <2> QED BY <1>2, <1>4, <2>4, <2>6 DEF ExitIInv, HandlersShape, ExitShape
<1> QED BY <1>3, <1>4

LEMMA RunDestructorsExitIInv ==
  ASSUME ExitIInv, RunDestructors
  PROVE  ExitIInv'
<1>1. /\ exit.at = "handlers" /\ exit.next > exit.end /\ handlers' = handlers
      /\ exit' = [exit EXCEPT !.at = "destroyed", !.ran = Append(@, "destructors")]
  BY DEF RunDestructors
<1>2. /\ exit'.at = "destroyed" /\ exit'.ran = Append(exit.ran, "destructors")
      /\ exit'.overlapped = exit.overlapped
      /\ exit' = [at |-> exit'.at, callback |-> exit'.callback, ran |-> exit'.ran,
                  next |-> exit'.next, end |-> exit'.end, overlapped |-> exit'.overlapped]
  BY <1>1 DEF ExitIInv, ExitShape
<1>3. ASSUME ~exit.overlapped PROVE exit.ran = handlers.added
  <2> DEFINE added == handlers.added
  <2>1. /\ exit.end = Len(added) /\ exit.next \in 1 .. exit.end + 1
        /\ exit.ran = SubSeq(added, 1, exit.next - 1)
        /\ added \in Seq(Handlers) /\ Len(added) \in Nat
    BY <1>1, <1>3 DEF ExitIInv, HandlersShape, ExitShape, Undisturbed
  <2>2. exit.next - 1 = Len(added)
    BY <1>1, <2>1
  <2> QED BY <2>1, <2>2
<1> QED BY <1>1, <1>2, <1>3 DEF ExitIInv, HandlersShape, ExitShape

THEOREM StepExitIInv == ExitIInv /\ [Next]_vars => ExitIInv'
<1> SUFFICES ASSUME ExitIInv, [Next]_vars PROVE ExitIInv'
  OBVIOUS
<1>1. CASE Constructor \/ Return
  BY <1>1, StillExitIInv DEF Constructor, Return
<1>2. CASE EnterMain
  BY <1>2 DEF EnterMain, ExitIInv, HandlersShape, ExitShape, Undisturbed
<1>3. CASE Fopen \/ OpenIndirect
  BY <1>3, StillExitIInv DEF Fopen, OpenIndirect, Took, Stays
<1>4. CASE FreadCall \/ FwriteMemory \/ FwriteStream \/ FseekCall \/ FcloseCall
  BY <1>4, StillExitIInv DEF FreadCall, FwriteMemory, FwriteStream, FseekCall, FcloseCall, Stays
<1>5. CASE OpenArchive \/ OpenMember \/ CloseArchive \/ DeleteByOther
  BY <1>5, StillExitIInv DEF OpenArchive, OpenMember, CloseArchive, DeleteByOther, Stays
<1>6. CASE AtexitCounts \/ AtexitGrows \/ AtexitStores
  BY <1>6, AtexitCountsIInv, AtexitGrowsIInv, AtexitStoresIInv
<1>7. CASE CommandAction \/ RunHandler \/ RunDestructors
  BY <1>7, CommandExitIInv, RunHandlerExitIInv, RunDestructorsExitIInv
<1>8. CASE End
  BY <1>8, EndExitIInv
<1>9. CASE UNCHANGED vars
  BY <1>9, StillExitIInv DEF vars
<1> QED BY <1>1, <1>2, <1>3, <1>4, <1>5, <1>6, <1>7, <1>8, <1>9 DEF Next

(* However many handlers there are, and whenever the exit command comes: it  *)
(* calls each of them once, in order, and then the destructors, unless it    *)
(* comes before main or while atexit changes the list.                       *)
THEOREM ExitRunsHandlers == Spec => []HandlersRun
<1>1. ExitIInv => HandlersRun
  BY DEF ExitIInv, ExitShape, HandlersRun
<1> QED BY <1>1, InitExitIInv, StepExitIInv, PTL DEF Spec

-------------------------------------------------------------------------------
(* A set of naturals that is not empty has a least element. *)
LEMMA LeastOf ==
  ASSUME NEW S \in SUBSET Nat, S # {}
  PROVE  /\ First(S) \in S /\ \A j \in S : First(S) <= j
<1>1. PICK x \in S : \A y \in S : ~ (<<y, x>> \in OpToRel(<, Nat))
  BY NatLessThanWellFounded, WFMin
<1>2. \A y \in S : ~ (y < x)
  BY <1>1 DEF OpToRel
<1>3. \A y \in S : x <= y
  BY <1>2
<1> QED BY <1>3 DEF First

(* The calls of a constructor are made one after the other: g holds the      *)
(* registry after each of them.                                              *)
Calls(regs, kind, ops, n, g) ==
  /\ g = [i \in 0 .. n |-> g[i]]
  /\ g[0] = ops
  /\ \A i \in 1 .. n : g[i] = AfterCall(regs[i], kind, g[i - 1])

LEMMA CallsExist ==
  ASSUME NEW regs, NEW kind, NEW ops
  PROVE  \A n \in Nat : \E g : Calls(regs, kind, ops, n, g)
<1> DEFINE Bad == {n \in Nat : ~ \E g : Calls(regs, kind, ops, n, g)}
<1> SUFFICES ASSUME Bad # {} PROVE FALSE
  OBVIOUS
<1> DEFINE n == First(Bad)
<1>1. n \in Bad /\ \A m \in Bad : n <= m
  BY LeastOf
<1>2. n \in Nat /\ ~ \E g : Calls(regs, kind, ops, n, g)
  BY <1>1
<1>3. \A m \in Nat : m < n => \E g : Calls(regs, kind, ops, m, g)
  <2> SUFFICES ASSUME NEW m \in Nat, m < n, ~ \E g : Calls(regs, kind, ops, m, g) PROVE FALSE
    OBVIOUS
  <2>1. m \in Bad
    OBVIOUS
  <2>2. n <= m
    BY <2>1, <1>1
  <2> HIDE DEF n
  <2> QED BY <2>2, <1>2
<1> HIDE DEF n, Bad
<1>4. CASE n = 0
  <2> DEFINE g == [i \in 0 .. 0 |-> ops]
  <2>1. Calls(regs, kind, ops, 0, g)
    BY DEF Calls
  <2> QED BY <2>1, <1>2, <1>4
<1>5. CASE n # 0
  <2>1. PICK h : Calls(regs, kind, ops, n - 1, h)
    BY <1>2, <1>3, <1>5
  <2> DEFINE g == [i \in 0 .. n |-> IF i = n THEN AfterCall(regs[n], kind, h[n - 1]) ELSE h[i]]
  <2>2. g = [i \in 0 .. n |-> g[i]] /\ g[0] = h[0]
    BY <1>2, <1>5
  <2>3. ASSUME NEW i \in 1 .. n PROVE g[i] = AfterCall(regs[i], kind, g[i - 1])
    <3>1. i - 1 \in 0 .. n - 1 /\ g[i - 1] = h[i - 1]
      BY <1>2, <2>3
    <3>2. CASE i = n
      BY <3>1, <3>2, <1>2
    <3>3. CASE i # n
      <4>1. i \in 1 .. n - 1
        BY <3>3, <1>2, <2>3
      <4>2. h[i] = AfterCall(regs[i], kind, h[i - 1])
        BY <4>1, <2>1 DEF Calls
      <4> QED BY <4>1, <4>2, <3>1, <3>3, <1>2
    <3> QED BY <3>2, <3>3
  <2>4. Calls(regs, kind, ops, n, g)
    BY <2>1, <2>2, <2>3 DEF Calls
  <2> QED BY <2>4, <1>2
<1> QED BY <1>4, <1>5

LEMMA AppliedIsLast ==
  ASSUME NEW regs, NEW kind, NEW ops, Len(regs) \in Nat
  PROVE  \E g : Calls(regs, kind, ops, Len(regs), g) /\ Applied(regs, kind, ops) = g[Len(regs)]
<1> DEFINE n == Len(regs)
           Upto(g) == g = [i \in 0 .. n |-> IF i = 0 THEN ops ELSE AfterCall(regs[i], kind, g[i - 1])]
           upto == CHOOSE g : Upto(g)
<1>1. PICK h : Calls(regs, kind, ops, n, h)
  BY CallsExist
<1>2. Upto(h)
  BY <1>1 DEF Calls
<1>3. Upto(upto)
  BY <1>2
<1>4. Applied(regs, kind, ops) = upto[n]
  BY DEF Applied
<1> HIDE DEF upto, n
<1>5. Calls(regs, kind, ops, n, upto)
  BY <1>3 DEF Calls, n
<1> QED BY <1>4, <1>5 DEF n

-------------------------------------------------------------------------------
(* What the constructors of the libraries register.                          *)
FileOps ==
  {connector_fops, resource_fops, record_store_fops, file_input_fops, fileconnection_fops,
   cibar_dops, fileconnection_dops}
Uris == {ConnectorUris[i] : i \in 1 .. 7} \cup {"resource://", "recordstore://", "cibar://"}
Registrations == [kind : {"fops", "dops"}, uri : Uris, op : FileOps, is_default : BOOLEAN]

LEMMA PriorityTyped == \A op \in FileOps : op.priority \in Int
<1>1. /\ connector_fops.priority = 0 /\ resource_fops.priority = 0
      /\ record_store_fops.priority = 0 /\ file_input_fops.priority = 1
      /\ fileconnection_fops.priority = 1 /\ cibar_dops.priority = 0
      /\ fileconnection_dops.priority = 0
  BY DEF Ops, connector_fops, resource_fops, record_store_fops, file_input_fops,
         fileconnection_fops, cibar_dops, fileconnection_dops
<1>2. \A op \in FileOps : op.priority = 0 \/ op.priority = 1
  BY <1>1 DEF FileOps
<1> QED BY <1>2

(* Directories are registered by two libraries, each for its own URI.        *)
OfDirectories(r) ==
  /\ r.kind = "dops" =>
       \/ r.uri = "cibar://" /\ r.op = cibar_dops
       \/ r.uri = "file://" /\ r.op = fileconnection_dops
  /\ r.op = fileconnection_dops => r.kind = "dops"

LEMMA LibraryCalls ==
  ASSUME NEW regs \in Libraries
  PROVE  /\ Len(regs) \in Nat /\ DOMAIN regs = 1 .. Len(regs)
         /\ \A i \in DOMAIN regs : regs[i] \in Registrations /\ OfDirectories(regs[i])
<1>2. fileconnection_dops \notin {connector_fops, resource_fops, record_store_fops,
                                  file_input_fops, fileconnection_fops, cibar_dops}
  BY DEF Ops, connector_fops, resource_fops, record_store_fops, file_input_fops,
         fileconnection_fops, cibar_dops, fileconnection_dops
<1>3. ConnectorUris[1] = "file://"
  BY DEF ConnectorUris
<1>4. ASSUME NEW uri \in Uris, NEW d \in BOOLEAN,
             NEW op \in {connector_fops, resource_fops, record_store_fops, file_input_fops,
                         fileconnection_fops}
      PROVE  /\ Registration("fops", uri, op, d) \in Registrations
             /\ OfDirectories(Registration("fops", uri, op, d))
  BY <1>2 DEF Registration, Registrations, FileOps, OfDirectories
<1>5. ASSUME NEW d \in BOOLEAN
      PROVE  /\ Registration("dops", "cibar://", cibar_dops, d) \in Registrations
             /\ OfDirectories(Registration("dops", "cibar://", cibar_dops, d))
             /\ Registration("dops", "file://", fileconnection_dops, d) \in Registrations
             /\ OfDirectories(Registration("dops", "file://", fileconnection_dops, d))
  <2>1. "cibar://" \in Uris /\ "file://" \in Uris
    BY <1>3 DEF Uris
  <2> QED BY <2>1 DEF Registration, Registrations, FileOps, OfDirectories
<1>6. CASE regs = connector_register_fs
  <2>1. Len(ConnectorUris) = 7 /\ DOMAIN ConnectorUris = 1 .. 7
    BY DEF ConnectorUris
  <2>2. regs = [i \in 1 .. 7 |-> Registration("fops", ConnectorUris[i], connector_fops, FALSE)]
    BY <1>6, <2>1 DEF connector_register_fs
  <2>3. \A i \in 1 .. 7 : ConnectorUris[i] \in Uris
    BY DEF Uris
  <2>4. DOMAIN regs = 1 .. 7 /\ Len(regs) = 7
    <3> DEFINE r(i) == Registration("fops", ConnectorUris[i], connector_fops, FALSE)
    <3>1. regs = [i \in 1 .. 7 |-> r(i)]
      BY <2>2
    <3> HIDE DEF r
    <3> QED BY <3>1
  <2>5. \A i \in 1 .. 7 : regs[i] = Registration("fops", ConnectorUris[i], connector_fops, FALSE)
    BY <2>2
  <2>6. \A uri \in Uris :
          /\ Registration("fops", uri, connector_fops, FALSE) \in Registrations
          /\ OfDirectories(Registration("fops", uri, connector_fops, FALSE))
    BY <1>4
  <2>7. \A i \in 1 .. 7 : regs[i] \in Registrations /\ OfDirectories(regs[i])
    BY <2>3, <2>5, <2>6
  <2> QED BY <2>4, <2>7
<1>7. ASSUME NEW r, regs = <<r>>, r \in Registrations, OfDirectories(r)
      PROVE  /\ Len(regs) \in Nat /\ DOMAIN regs = 1 .. Len(regs)
             /\ \A i \in DOMAIN regs : regs[i] \in Registrations /\ OfDirectories(regs[i])
  BY <1>7
<1>8. {"resource://", "recordstore://", "file://"} \subseteq Uris
  BY <1>3 DEF Uris
<1>9. CASE regs \in {resource_register_fs, recordstore_register_fs, file_register_fs,
                     fileconnection_register_fs}
  <2>1. \E uri \in Uris, d \in BOOLEAN,
           op \in {resource_fops, record_store_fops, file_input_fops, fileconnection_fops} :
          regs = <<Registration("fops", uri, op, d)>>
    BY <1>8, <1>9 DEF resource_register_fs, recordstore_register_fs, file_register_fs,
                      fileconnection_register_fs
  <2> QED BY <2>1, <1>4, <1>7
<1>10. CASE regs \in {cibar_register_fs, dirent_register_fs}
  <2>1. \E d \in BOOLEAN : \/ regs = <<Registration("dops", "cibar://", cibar_dops, d)>>
                           \/ regs = <<Registration("dops", "file://", fileconnection_dops, d)>>
    BY <1>10 DEF cibar_register_fs, dirent_register_fs
  <2> QED BY <2>1, <1>5, <1>7
<1> QED BY <1>6, <1>9, <1>10 DEF Libraries

-------------------------------------------------------------------------------
(* A registry that has seen the registrations R: it knows all their URIs,    *)
(* and the first entry of a URI has the highest priority among them.         *)
Sees(f, R) ==
  /\ f.table \in Seq(FileOps) /\ f.uris \in Seq(Uris) /\ Len(f.table) = Len(f.uris)
  /\ \A r \in R : \E i \in DOMAIN f.uris : f.uris[i] = r.uri
  /\ \A i \in DOMAIN f.uris : \E r \in R : r.uri = f.uris[i] /\ r.op = f.table[i]
  /\ \A i \in DOMAIN f.uris :
       (\A j \in 1 .. i - 1 : f.uris[j] # f.uris[i]) =>
         \A r \in R : r.uri = f.uris[i] => r.op.priority <= f.table[i].priority

LEMMA PlacedAt ==
  ASSUME NEW T, NEW s \in Seq(T), NEW x \in T, NEW i \in 1 .. Len(s) + 1
  PROVE  /\ At(s, i, x) \in Seq(T)
         /\ Len(At(s, i, x)) = IF i = Len(s) + 1 THEN i ELSE Len(s)
         /\ DOMAIN At(s, i, x) = 1 .. Len(At(s, i, x))
         /\ \A j \in DOMAIN At(s, i, x) : At(s, i, x)[j] = IF j = i THEN x ELSE s[j]
<1> DEFINE n == IF i > Len(s) THEN i ELSE Len(s)
           t == [j \in 1 .. n |-> IF j = i THEN x ELSE s[j]]
<1>1. Len(s) \in Nat /\ DOMAIN s = 1 .. Len(s) /\ \A j \in 1 .. Len(s) : s[j] \in T
  OBVIOUS
<1>2. At(s, i, x) = t
  BY DEF At
<1>3. n \in Nat /\ n = IF i = Len(s) + 1 THEN i ELSE Len(s)
  BY <1>1
<1>4. \A j \in 1 .. n : (IF j = i THEN x ELSE s[j]) \in T
  BY <1>1, <1>3
<1> HIDE DEF n
<1>5. t \in Seq(T) /\ Len(t) = n /\ DOMAIN t = 1 .. n
  BY <1>3, <1>4
<1> QED BY <1>2, <1>3, <1>5

LEMMA RegisterSees ==
  ASSUME NEW f, NEW R \in SUBSET Registrations, Sees(f, R), NEW r \in Registrations
  PROVE  Sees(RegisterOp(f, r.uri, r.op, r.is_default), R \cup {r})
<1> DEFINE n == Len(f.uris)
           below == {i \in DOMAIN f.uris : f.uris[i] = r.uri /\ r.op.priority > f.table[i].priority}
           idx == IF below = {} THEN n + 1 ELSE First(below)
           g == RegisterOp(f, r.uri, r.op, r.is_default)
<1>1. /\ n \in Nat /\ DOMAIN f.uris = 1 .. n /\ DOMAIN f.table = 1 .. n /\ Len(f.table) = n
      /\ f.table \in Seq(FileOps) /\ f.uris \in Seq(Uris)
      /\ \A i \in 1 .. n : f.table[i] \in FileOps
  BY DEF Sees
<1>2. /\ r.uri \in Uris /\ r.op \in FileOps
      /\ \A x \in R \cup {r} : x.op.priority \in Int
      /\ \A i \in 1 .. n : f.table[i].priority \in Int
  BY <1>1, PriorityTyped DEF Registrations
<1>3. g.table = At(f.table, idx, r.op) /\ g.uris = At(f.uris, idx, r.uri)
  BY DEF RegisterOp
<1>4. /\ below = {} => idx = n + 1
      /\ below # {} => idx \in below /\ \A j \in below : idx <= j
  <2>1. below \in SUBSET Nat
    BY <1>1
  <2> QED BY <2>1, LeastOf
<1>5. idx \in 1 .. n + 1 /\ idx \in Nat
  BY <1>1, <1>4, SMTT(40)
<1>6. below # {} => idx \in 1 .. n /\ f.uris[idx] = r.uri
  BY <1>1, <1>4
<1>7. \A i \in 1 .. n : f.uris[i] = r.uri /\ i \notin below => r.op.priority <= f.table[i].priority
  BY <1>1, <1>2
<1>8. \A i \in 1 .. n : i \in below => f.table[i].priority < r.op.priority /\ f.uris[i] = r.uri
  BY <1>1, <1>2
<1>p. idx \in 1 .. n + 1 /\ (idx = n + 1 <=> below = {})
  <2>n. n \in Nat
    BY <1>1
  <2> HIDE DEF idx, below, n, g
  <2>1. CASE below = {}
    BY <2>1, <1>4, <1>5
  <2>2. CASE below # {}
    BY <2>n, <2>2, <1>5, <1>6
  <2> QED BY <2>1, <2>2
<1> DEFINE m == IF below = {} THEN n + 1 ELSE n
<1>9. /\ g.table \in Seq(FileOps) /\ Len(g.table) = m /\ DOMAIN g.table = 1 .. m
      /\ \A j \in 1 .. m : g.table[j] = IF j = idx THEN r.op ELSE f.table[j]
  <2>1. idx \in 1 .. Len(f.table) + 1 /\ (idx = Len(f.table) + 1 <=> below = {})
    BY <1>p, <1>1
  <2> HIDE DEF idx, below, n, g
  <2> QED BY <2>1, <1>1, <1>2, <1>3, PlacedAt
<1>10. /\ g.uris \in Seq(Uris) /\ Len(g.uris) = m /\ DOMAIN g.uris = 1 .. m
       /\ \A j \in 1 .. m : g.uris[j] = IF j = idx THEN r.uri ELSE f.uris[j]
  <2>1. idx \in 1 .. Len(f.uris) + 1 /\ (idx = Len(f.uris) + 1 <=> below = {})
    BY <1>p, <1>1
  <2> HIDE DEF idx, below, g
  <2> QED BY <2>1, <1>1, <1>2, <1>3, PlacedAt
<1> HIDE DEF g, idx, below, n
<1>11. /\ m \in Nat /\ idx \in 1 .. m /\ n <= m
       /\ \A j \in 1 .. m : j # idx => j \in 1 .. n
       /\ \A j \in 1 .. n : g.uris[j] = f.uris[j]
       /\ (m = n \/ (m = n + 1 /\ idx = m /\ below = {}))
  BY <1>1, <1>4, <1>5, <1>6, <1>10
<1> HIDE DEF m
<1>12. ASSUME NEW x \in R \cup {r} PROVE \E i \in 1 .. m : g.uris[i] = x.uri
  <2>1. CASE x \in R
    <3>1. PICK i \in 1 .. n : f.uris[i] = x.uri
      BY <2>1, <1>1 DEF Sees
    <3> QED BY <3>1, <1>1, <1>11
  <2>2. CASE x = r
    BY <2>2, <1>10, <1>11
  <2> QED BY <2>1, <2>2
<1>13. ASSUME NEW i \in 1 .. m PROVE \E x \in R \cup {r} : x.uri = g.uris[i] /\ x.op = g.table[i]
  <2>1. CASE i = idx
    BY <2>1, <1>9, <1>10
  <2>2. CASE i # idx
    <3>1. PICK x \in R : x.uri = f.uris[i] /\ x.op = f.table[i]
      BY <2>2, <1>1, <1>11 DEF Sees
    <3> QED BY <3>1, <2>2, <1>9, <1>10
  <2> QED BY <2>1, <2>2
<1>14. ASSUME NEW i \in 1 .. m, \A j \in 1 .. i - 1 : g.uris[j] # g.uris[i],
              NEW x \in R \cup {r}, x.uri = g.uris[i]
       PROVE  x.op.priority <= g.table[i].priority
  <2>1. CASE i \in 1 .. n
    <3>1. \A j \in 1 .. i - 1 : f.uris[j] # f.uris[i]
      BY <1>1, <1>11, <1>14, <2>1
    <3>2. \A y \in R : y.uri = f.uris[i] => y.op.priority <= f.table[i].priority
      BY <1>1, <2>1, <3>1 DEF Sees
    <3>3. g.uris[i] = f.uris[i]
      BY <1>11, <2>1
    <3>4. CASE i = idx
      <4>1. i \in below /\ g.table[i] = r.op
        BY <3>4, <2>1, <1>4, <1>9, <1>11, <1>1
      <4>2. f.table[i].priority < r.op.priority
        BY <4>1, <1>8, <2>1
      <4>3. CASE x = r
        BY <4>1, <4>3, <1>2
      <4>4. CASE x \in R
        BY <4>1, <4>2, <4>4, <3>2, <3>3, <1>2, <1>14, <2>1
      <4> QED BY <4>3, <4>4
    <3>5. CASE i # idx
      <4>1. g.table[i] = f.table[i]
        BY <3>5, <1>9
      <4>2. CASE x \in R
        BY <4>1, <4>2, <3>2, <3>3, <1>14
      <4>3. CASE x = r
        <5>1. f.uris[i] = r.uri
          BY <4>3, <3>3, <1>14
        <5>2. i \notin below
          <6> SUFFICES ASSUME i \in below PROVE FALSE
            OBVIOUS
          <6>1. idx <= i /\ idx \in 1 .. n /\ f.uris[idx] = r.uri
            BY <1>4, <1>6
          <6>2. idx \in 1 .. i - 1
            BY <6>1, <3>5, <2>1, <1>1
          <6> QED BY <6>1, <6>2, <5>1, <3>1
        <5> QED BY <5>1, <5>2, <4>1, <4>3, <2>1, <1>7
      <4> QED BY <4>2, <4>3
    <3> QED BY <3>4, <3>5
  <2>2. CASE i \notin 1 .. n
    <3>1. i = idx /\ below = {} /\ m = n + 1 /\ i = n + 1
      BY <2>2, <1>1, <1>11
    <3>2. g.table[i] = r.op /\ g.uris[i] = r.uri
      BY <3>1, <1>9, <1>10
    <3>3. x \notin R
      <4> SUFFICES ASSUME x \in R PROVE FALSE
        OBVIOUS
      <4>1. PICK j \in 1 .. n : f.uris[j] = x.uri
        BY <1>1 DEF Sees
      <4>2. j \in 1 .. i - 1 /\ g.uris[j] = g.uris[i]
        BY <4>1, <3>1, <1>1, <1>11, <1>14
      <4> QED BY <4>2, <1>14
    <3> QED BY <3>2, <3>3, <1>2
  <2> QED BY <2>1, <2>2
<1> QED BY <1>9, <1>10, <1>12, <1>13, <1>14 DEF Sees, g

(* The calls of one constructor that register what the kind names.           *)
CallsOf(regs, kind) == {regs[j] : j \in {x \in DOMAIN regs : regs[x].kind = kind}}

LEMMA AppliedSees ==
  ASSUME NEW regs \in Libraries, NEW kind, NEW f, NEW R \in SUBSET Registrations, Sees(f, R)
  PROVE  Sees(Applied(regs, kind, f), R \cup CallsOf(regs, kind))
<1> DEFINE n == Len(regs)
           Upto(i) == {regs[j] : j \in {x \in 1 .. i : regs[x].kind = kind}}
<1>1. n \in Nat /\ DOMAIN regs = 1 .. n /\ \A i \in 1 .. n : regs[i] \in Registrations
  BY LibraryCalls
<1>2. PICK g : Calls(regs, kind, f, n, g) /\ Applied(regs, kind, f) = g[n]
  BY <1>1, AppliedIsLast
<1> HIDE DEF n
<1> DEFINE Bad == {i \in 0 .. n : ~ Sees(g[i], R \cup Upto(i))}
<1>3. Bad = {}
  <2> SUFFICES ASSUME Bad # {} PROVE FALSE
    OBVIOUS
  <2> DEFINE i == First(Bad)
  <2>1. i \in Bad /\ \A j \in Bad : i <= j
    <3>1. Bad \in SUBSET Nat
      BY <1>1
    <3> QED BY <3>1, LeastOf
  <2>2. i \in 0 .. n /\ ~ Sees(g[i], R \cup Upto(i))
    BY <2>1
  <2>3. \A j \in 0 .. n : j < i => Sees(g[j], R \cup Upto(j))
    <3> SUFFICES ASSUME NEW j \in 0 .. n, j < i, ~ Sees(g[j], R \cup Upto(j)) PROVE FALSE
      OBVIOUS
    <3>1. i <= j
      BY <2>1
    <3> HIDE DEF i
    <3> QED BY <3>1, <2>2, <1>1
  <2> HIDE DEF i, Bad
  <2>4. CASE i = 0
    <3>1. R \cup Upto(0) = R /\ g[0] = f
      BY <1>2 DEF Calls
    <3> QED BY <3>1, <2>2, <2>4
  <2>5. CASE i # 0
    <3>1. i \in 1 .. n /\ i - 1 \in 0 .. n /\ i - 1 < i
      BY <2>2, <2>5, <1>1
    <3> DEFINE r == regs[i]
               P == R \cup Upto(i - 1)
    <3>2. r \in Registrations /\ Sees(g[i - 1], P) /\ P \in SUBSET Registrations
      <4>1. \A j \in 1 .. i - 1 : j \in 1 .. n
        BY <3>1, <1>1
      <4> QED BY <4>1, <3>1, <2>3, <1>1
    <3>3. g[i] = AfterCall(r, kind, g[i - 1])
      BY <3>1, <1>2 DEF Calls
    <3>4. 1 .. i = (1 .. i - 1) \cup {i}
      BY <3>1, <1>1
    <3> HIDE DEF P
    <3>5. CASE r.kind # kind
      <4>1. Upto(i) = Upto(i - 1)
        BY <3>4, <3>5
      <4> QED BY <4>1, <3>2, <3>3, <3>5, <2>2 DEF AfterCall, P
    <3>6. CASE r.kind = kind
      <4>1. Upto(i) = Upto(i - 1) \cup {r}
        BY <3>4, <3>6
      <4>2. R \cup Upto(i) = P \cup {r}
        BY <4>1 DEF P
      <4>3. g[i] = RegisterOp(g[i - 1], r.uri, r.op, r.is_default)
        BY <3>3, <3>6 DEF AfterCall
      <4> QED BY <4>2, <4>3, <3>2, <2>2, RegisterSees
    <3> QED BY <3>5, <3>6
  <2> QED BY <2>4, <2>5
<1>4. Sees(g[n], R \cup Upto(n))
  <2>1. n \in 0 .. n
    BY <1>1
  <2> QED BY <2>1, <1>3
<1>5. Upto(n) = CallsOf(regs, kind)
  BY <1>1 DEF CallsOf
<1> QED BY <1>2, <1>4, <1>5

-------------------------------------------------------------------------------
(* The registries have seen what the constructors that ran registered.       *)
LinkedUpto(kind, n) == UNION {CallsOf(program.ctors[i], kind) : i \in 1 .. n}

RoutesIInv ==
  /\ program \in Programs
  /\ built \in 0 .. Len(program.ctors)
  /\ phase # "constructors" => built = Len(program.ctors)
  /\ Sees(fops, LinkedUpto("fops", built))
  /\ Sees(dops, LinkedUpto("dops", built))

LEMMA CtorsTyped ==
  ASSUME program \in Programs
  PROVE  /\ Len(program.ctors) \in Nat /\ DOMAIN program.ctors = 1 .. Len(program.ctors)
         /\ \A i \in 1 .. Len(program.ctors) : program.ctors[i] \in Libraries
<1>1. program.ctors \in Seq(Libraries)
  BY ProcessAssumption DEF ProcessAssumption
<1> QED BY <1>1

LEMMA LinkedTyped ==
  ASSUME program \in Programs, NEW kind, NEW n \in 0 .. Len(program.ctors)
  PROVE  \A r \in LinkedUpto(kind, n) :
           r \in Registrations /\ OfDirectories(r) /\ r.kind = kind
<1> SUFFICES ASSUME NEW i \in 1 .. n, NEW r \in CallsOf(program.ctors[i], kind)
             PROVE  r \in Registrations /\ OfDirectories(r) /\ r.kind = kind
  BY DEF LinkedUpto
<1>1. program.ctors[i] \in Libraries
  BY CtorsTyped
<1> QED BY <1>1, LibraryCalls DEF CallsOf

LEMMA NothingSeen == Sees(NoneRegistered, {})
<1>1. NoneRegistered.table = <<>> /\ NoneRegistered.uris = <<>>
  BY DEF NoneRegistered
<1> QED BY <1>1 DEF Sees

LEMMA FreshRoutes ==
  ASSUME program \in Programs, built = 0, phase = "constructors",
         fops = NoneRegistered, dops = NoneRegistered
  PROVE  RoutesIInv
<1>1. \A kind : LinkedUpto(kind, 0) = {}
  BY DEF LinkedUpto
<1>2. 0 \in 0 .. Len(program.ctors)
  BY CtorsTyped
<1> QED BY <1>1, <1>2, NothingSeen DEF RoutesIInv

LEMMA SameRoutes ==
  ASSUME RoutesIInv, UNCHANGED <<program, built, fops, dops>>,
         phase' = phase \/ built = Len(program.ctors)
  PROVE  RoutesIInv'
<1>1. \A kind : LinkedUpto(kind, built)' = LinkedUpto(kind, built)
  BY DEF LinkedUpto
<1> QED BY <1>1 DEF RoutesIInv

LEMMA ConstructorRoutes ==
  ASSUME RoutesIInv, Constructor
  PROVE  RoutesIInv'
<1> DEFINE b == built + 1
           regs == program.ctors[b]
<1>1. /\ phase = "constructors" /\ built < Len(program.ctors) /\ built' = b
      /\ fops' = Applied(regs, "fops", fops) /\ dops' = Applied(regs, "dops", dops)
      /\ program' = program /\ phase' = phase
  BY DEF Constructor
<1>2. /\ program \in Programs /\ built \in 0 .. Len(program.ctors) /\ Len(program.ctors) \in Nat
  BY CtorsTyped DEF RoutesIInv
<1>3. b \in 1 .. Len(program.ctors) /\ b \in 0 .. Len(program.ctors) /\ regs \in Libraries
  BY <1>1, <1>2, CtorsTyped
<1>4. 1 .. b = (1 .. built) \cup {b}
  BY <1>2
<1>5. \A kind : LinkedUpto(kind, b) = LinkedUpto(kind, built) \cup CallsOf(regs, kind)
  BY <1>4 DEF LinkedUpto
<1>6. \A kind : LinkedUpto(kind, built) \in SUBSET Registrations
  BY <1>2, LinkedTyped
<1>7. Sees(fops', LinkedUpto("fops", b))
  BY <1>1, <1>3, <1>5, <1>6, AppliedSees DEF RoutesIInv
<1>8. Sees(dops', LinkedUpto("dops", b))
  BY <1>1, <1>3, <1>5, <1>6, AppliedSees DEF RoutesIInv
<1>9. \A kind : LinkedUpto(kind, built)' = LinkedUpto(kind, b)
  BY <1>1 DEF LinkedUpto
<1> HIDE DEF b
<1> QED BY <1>1, <1>2, <1>3, <1>7, <1>8, <1>9 DEF RoutesIInv

THEOREM StepRoutesIInv == RoutesIInv /\ [Next]_vars => RoutesIInv'
<1> SUFFICES ASSUME RoutesIInv, [Next]_vars PROVE RoutesIInv'
  OBVIOUS
<1>1. CASE Constructor
  BY <1>1, ConstructorRoutes
<1>2. CASE EnterMain
  BY <1>2, SameRoutes DEF EnterMain
<1>3. CASE Return
  BY <1>3, SameRoutes DEF Return, RoutesIInv
<1>4. CASE Fopen \/ OpenIndirect
  BY <1>4, SameRoutes DEF Fopen, OpenIndirect, Took, Stays, start
<1>5. CASE FreadCall \/ FwriteMemory \/ FwriteStream \/ FseekCall \/ FcloseCall
  BY <1>5, SameRoutes
  DEF FreadCall, FwriteMemory, FwriteStream, FseekCall, FcloseCall, Stays, start
<1>6. CASE OpenArchive \/ OpenMember \/ CloseArchive \/ DeleteByOther
  BY <1>6, SameRoutes DEF OpenArchive, OpenMember, CloseArchive, DeleteByOther, Stays, start
<1>7. CASE AtexitCounts \/ AtexitGrows \/ AtexitStores
  BY <1>7, SameRoutes DEF AtexitCounts, AtexitGrows, AtexitStores, start
<1>8. CASE CommandAction \/ RunHandler \/ RunDestructors
  BY <1>8, SameRoutes DEF CommandAction, RunHandler, RunDestructors, start
<1>9. CASE End
  <2>1. /\ program' \in Programs /\ built' = 0 /\ phase' = "constructors"
        /\ fops' = NoneRegistered /\ dops' = NoneRegistered
    BY <1>9 DEF End, RoutesIInv
  <2>2. \A kind : LinkedUpto(kind, built)' = {}
    BY <2>1 DEF LinkedUpto
  <2>3. 0 \in 0 .. Len(program.ctors)
    BY CtorsTyped DEF RoutesIInv
  <2>4. program' = program
    BY <1>9 DEF End
  <2> QED BY <2>1, <2>2, <2>3, <2>4, NothingSeen DEF RoutesIInv
<1>10. CASE UNCHANGED vars
  BY <1>10, SameRoutes DEF vars, start
<1> QED BY <1>1, <1>2, <1>3, <1>4, <1>5, <1>6, <1>7, <1>8, <1>9, <1>10 DEF Next

LEMMA InitRoutesIInv == Init => RoutesIInv
  BY FreshRoutes DEF Init

LEMMA AllLinked ==
  ASSUME program \in Programs, NEW kind
  PROVE  {r \in Linked : r.kind = kind} = LinkedUpto(kind, Len(program.ctors))
<1>1. DOMAIN program.ctors = 1 .. Len(program.ctors)
  BY CtorsTyped
<1> QED BY <1>1 DEF Linked, LinkedUpto, CallsOf

(* The first entry of a URI the registry knows has the highest priority.     *)
LEMMA FirstIsBest ==
  ASSUME NEW f, NEW R \in SUBSET Registrations, Sees(f, R), NEW uri,
         \E r \in R : r.uri = uri
  PROVE  LET op == f.table[First({i \in DOMAIN f.uris : f.uris[i] = uri})]
         IN /\ {i \in DOMAIN f.uris : f.uris[i] = uri} # {}
            /\ \E r \in R : r.uri = uri /\ r.op = op
            /\ \A r \in R : r.uri = uri => r.op.priority <= op.priority
<1> DEFINE hits == {i \in DOMAIN f.uris : f.uris[i] = uri}
           k == First(hits)
<1>1. DOMAIN f.uris = 1 .. Len(f.uris) /\ Len(f.uris) \in Nat
  BY DEF Sees
<1>2. hits # {} /\ hits \in SUBSET Nat
  BY <1>1 DEF Sees
<1>3. k \in hits /\ \A j \in hits : k <= j
  BY <1>2, LeastOf
<1>4. k \in DOMAIN f.uris /\ f.uris[k] = uri
  BY <1>3
<1>5. \A j \in 1 .. k - 1 : f.uris[j] # uri
  <2> SUFFICES ASSUME NEW j \in 1 .. k - 1, f.uris[j] = uri PROVE FALSE
    OBVIOUS
  <2>1. j \in hits
    BY <1>1, <1>4
  <2>2. k <= j
    BY <2>1, <1>3
  <2> HIDE DEF k
  <2> QED BY <2>2, <1>1, <1>4
<1> HIDE DEF k
<1>6. /\ \E r \in R : r.uri = uri /\ r.op = f.table[k]
      /\ \A r \in R : r.uri = uri => r.op.priority <= f.table[k].priority
  BY <1>4, <1>5 DEF Sees
<1> QED BY <1>2, <1>6 DEF k

LEMMA FilesRouted ==
  ASSUME RoutesIInv, phase # "constructors",
         NEW uri \in {r.uri : r \in {x \in Linked : x.kind = "fops"}}
  PROVE  LET claims == {r.op : r \in {x \in Linked : x.kind = "fops" /\ x.uri = uri}}
             op == FileRoute(fops, [uri |-> uri, rest |-> ""]).op
         IN op \in claims /\ \A other \in claims : other.priority <= op.priority
<1> DEFINE R == LinkedUpto("fops", built)
           hits == {i \in DOMAIN fops.uris : fops.uris[i] = uri}
           op == fops.table[First(hits)]
<1>1. {r \in Linked : r.kind = "fops"} = R /\ program \in Programs /\ Sees(fops, R)
  BY AllLinked DEF RoutesIInv
<1>2. R \in SUBSET Registrations
  BY <1>1, LinkedTyped DEF RoutesIInv
<1>3. \E r \in R : r.uri = uri
  BY <1>1
<1> HIDE DEF R
<1>4. /\ hits # {} /\ \E r \in R : r.uri = uri /\ r.op = op
      /\ \A r \in R : r.uri = uri => r.op.priority <= op.priority
  BY <1>1, <1>2, <1>3, FirstIsBest
<1>5. FileRoute(fops, [uri |-> uri, rest |-> ""]).op = op
  BY <1>4 DEF FileRoute
<1>6. {r.op : r \in {x \in Linked : x.kind = "fops" /\ x.uri = uri}} =
        {r.op : r \in {x \in R : x.uri = uri}}
  BY <1>1
<1> HIDE DEF op
<1> QED BY <1>4, <1>5, <1>6

LEMMA DirectoriesRouted ==
  ASSUME RoutesIInv, phase # "constructors", \E r \in Linked : r.op = fileconnection_dops
  PROVE  DirRoute(dops, [uri |-> "file://", rest |-> ""]).op = fileconnection_dops
<1> DEFINE R == LinkedUpto("dops", built)
           hits == {i \in DOMAIN dops.uris : dops.table[i].keep_uri \/ dops.uris[i] = "file://"}
           op == dops.table[First(hits)]
<1>1. /\ {r \in Linked : r.kind = "dops"} = R /\ program \in Programs /\ Sees(dops, R)
      /\ built \in 0 .. Len(program.ctors) /\ built = Len(program.ctors)
  BY AllLinked DEF RoutesIInv
<1>2. \A r \in R : \/ r.uri = "cibar://" /\ r.op = cibar_dops
                   \/ r.uri = "file://" /\ r.op = fileconnection_dops
  BY <1>1, LinkedTyped DEF OfDirectories
<1>3. \E r \in R : r.uri = "file://" /\ r.op = fileconnection_dops
  <2>1. PICK r \in Linked : r.op = fileconnection_dops
    OBVIOUS
  <2>2. r.kind = "dops" /\ r \in R
    <3>1. PICK i \in DOMAIN program.ctors :
            \E j \in DOMAIN program.ctors[i] : r = program.ctors[i][j]
      BY DEF Linked
    <3>2. PICK j \in DOMAIN program.ctors[i] : r = program.ctors[i][j]
      BY <3>1
    <3>3. program.ctors[i] \in Libraries
      BY <3>1, <1>1, CtorsTyped
    <3>4. OfDirectories(r)
      BY <3>2, <3>3, LibraryCalls
    <3> QED BY <3>4, <2>1, <1>1 DEF OfDirectories
  <2>3. cibar_dops # fileconnection_dops
    BY DEF cibar_dops, fileconnection_dops, Ops
  <2> QED BY <2>1, <2>2, <2>3, <1>2
<1>4. DOMAIN dops.uris = 1 .. Len(dops.uris) /\ Len(dops.uris) \in Nat
  BY <1>1 DEF Sees
<1>5. hits # {} /\ hits \in SUBSET Nat
  BY <1>1, <1>3, <1>4 DEF Sees
<1>6. First(hits) \in hits
  BY <1>5, LeastOf
<1>7. op = fileconnection_dops
  <2> DEFINE k == First(hits)
  <2>1. k \in DOMAIN dops.uris /\ (dops.table[k].keep_uri \/ dops.uris[k] = "file://")
    BY <1>6
  <2>2. PICK r \in R : r.uri = dops.uris[k] /\ r.op = dops.table[k]
    BY <2>1, <1>1 DEF Sees
  <2>3. ~cibar_dops.keep_uri
    BY DEF cibar_dops, Ops
  <2> QED BY <2>1, <2>2, <2>3, <1>2
<1>8. DirRoute(dops, [uri |-> "file://", rest |-> ""]).op = op
  BY <1>5 DEF DirRoute
<1> QED BY <1>7, <1>8

(* Whichever of the libraries were linked, and in whatever order: a URI      *)
(* leads to a file system of the highest priority that registered it, and    *)
(* directories of file:// to JSR 75 when it is there.                        *)
THEOREM RoutesFollowPriority == Spec => []Routed
<1>1. RoutesIInv => Routed
  BY FilesRouted, DirectoriesRouted DEF Routed
<1> QED BY <1>1, InitRoutesIInv, StepRoutesIInv, PTL DEF Spec
===============================================================================

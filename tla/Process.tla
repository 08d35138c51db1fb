------------------------------- MODULE Process --------------------------------
(***************************************************************************)
(* A translated program from its start to its end and its next start: the  *)
(* constructors register the file systems (libcrt0/helpers.c), the program *)
(* thread works on files and calls atexit, and the exit command runs the   *)
(* handlers on the event thread (java/Main.java). What the record store    *)
(* and the disk hold outlives the process.                                 *)
(***************************************************************************)
EXTENDS FileSystems, RecordStore, JavaStreams, Cibar

CONSTANTS
  Programs,          (* the programs considered; see MCProcess              *)
  Fps,               (* FILEs a program uses                                *)
  Handlers,          (* functions it passes to atexit                       *)
  Numbered,          (* rest of a record's path -> the number in it; a path
                        that is not here has no ':'                         *)
  MaxSize,           (* bound: no file grows, and no seek goes, beyond this *)
  MaxRecords,        (* bound: ids the record store gives                   *)
  Runs               (* bound: starts of the program                        *)

Libraries ==
  {connector_register_fs, resource_register_fs, recordstore_register_fs, file_register_fs,
   fileconnection_register_fs, cibar_register_fs, dirent_register_fs}

ASSUME ProcessAssumption ==
  /\ \A p \in Programs : p.ctors \in Seq(Libraries)
  /\ Junk \notin Handlers
  /\ NULL \notin [fn : Handlers, cur : Nat, grown : BOOLEAN]

VARIABLES
  program,           (* the program                                         *)
  runs,              (* starts so far                                       *)
  phase,             (* what the program thread does                        *)
  built,             (* constructors run so far                             *)
  fops, dops,        (* the registry                                        *)
  files,             (* FILE -> its kind and state, or NULL                 *)
  archive,           (* the cibar_t it opened, or NULL                      *)
  world,             (* [store |-> the record store, disk |-> path -> bytes]*)
  handlers,          (* atexit_list, how many it counts, the call under way *)
  exit,              (* the exit command on the event thread                *)
  last               (* the last call                                       *)

start == <<runs, phase, built, fops, dops>>
io == <<files, archive, world>>
ending == <<handlers, exit>>
vars == <<program, start, io, ending, last>>

Uses(call) == call \in program.calls

NoHandlers == [list |-> <<>>, n |-> 0, adding |-> NULL, added |-> <<>>]
NotExiting == [at |-> "running", callback |-> 0, ran |-> <<>>, next |-> 1, end |-> 0,
               overlapped |-> FALSE]

Init ==
  /\ program \in Programs
  /\ runs = 1 /\ phase = "constructors" /\ built = 0
  /\ fops = NoneRegistered /\ dops = NoneRegistered
  /\ files = [f \in Fps |-> NULL] /\ archive = NULL
  /\ world = [store |-> NoStore, disk |-> program.disk]
  /\ handlers = NoHandlers
  /\ exit = NotExiting
  /\ last = [call |-> "start"]

-------------------------------------------------------------------------------
(* The registry after a constructor's calls, one behind the other. *)
AfterCall(r, kind, ops) ==
  IF r.kind # kind THEN ops ELSE RegisterOp(ops, r.uri, r.op, r.is_default)

Applied(regs, kind, ops) ==
  LET upto[i \in 0 .. Len(regs)] ==
        IF i = 0 THEN ops ELSE AfterCall(regs[i], kind, upto[i - 1])
  IN upto[Len(regs)]

(* helpers.c: run_list calls the constructors in the order they were linked. *)
Constructor ==
  /\ phase = "constructors" /\ built < Len(program.ctors)
  /\ fops' = Applied(program.ctors[built + 1], "fops", fops)
  /\ dops' = Applied(program.ctors[built + 1], "dops", dops)
  /\ built' = built + 1
  /\ last' = [call |-> "constructor"]
  /\ UNCHANGED <<program, runs, phase, io, ending>>

(* __do_global_ctors_aux registers the callback of the exit command, and     *)
(* crt0 goes on to main.                                                     *)
EnterMain ==
  /\ phase = "constructors" /\ built = Len(program.ctors)
  /\ phase' = "main"
  /\ exit' = [exit EXCEPT !.callback = 1]
  /\ last' = [call |-> "main"]
  /\ UNCHANGED <<program, runs, built, fops, dops, io, handlers>>

(* main returns: the thread ends, the midlet waits for its command.          *)
Return ==
  /\ phase = "main" /\ handlers.adding = NULL
  /\ phase' = "returned"
  /\ last' = [call |-> "return"]
  /\ UNCHANGED <<program, runs, built, fops, dops, io, ending>>

-------------------------------------------------------------------------------
(* The open of a file system. Files of JSR 75 are the subject of the module  *)
(* FileConnection and are not opened here.                                   *)
Refuses(w, result) == {[world |-> w, result |-> result, file |-> <<>>]}

OnDisk(w, outcomes) ==
  {[world |-> [w EXCEPT !.disk = o.disk], result |-> o.result, file |-> o.file] : o \in outcomes}

OnRecord(w, outcomes) ==
  {[world |-> [w EXCEPT !.store = o.store], result |-> o.result, file |-> o.file] : o \in outcomes}

OpenBy(w, op, path, mode) ==
  CASE op = NULL -> Refuses(w, "NULL")
    [] op = record_store_fops ->
         IF path.rest \in DOMAIN Numbered
         THEN OnRecord(w, RsOpen(w.store, Numbered[path.rest], mode)) ELSE Refuses(w, "NULL")
    [] op = connector_fops -> OnDisk(w, ConnOpen(w.disk, path, mode))
    [] op = resource_fops -> OnDisk(w, ResOpen(w.disk, path, mode))
    [] op = file_input_fops -> OnDisk(w, FileOpen(w.disk, path, mode))
    [] OTHER -> {}

(* fopen *)
Opening(w, path, in_mode) ==
  LET mode == GetMode(in_mode)
      route == FileRoute(fops, path)
  IN IF mode = NULL THEN Refuses(w, "throws") ELSE OpenBy(w, route.op, route.path, mode)

(* What reading all of a FILE that was just opened gives.                    *)
All(w, f) == IF f.kind = "input" THEN w.disk[f.path] ELSE Content(f.s)

MemoryFile(s, path, in_mode) == [kind |-> "memory", s |-> s, path |-> path, mode |-> in_mode]

(* NOPH_MemoryFile_openIndirect: the file is read through its own file       *)
(* system first, unless it is to be truncated. Its stream may throw while it *)
(* is read, and what it was read from while it is closed.                    *)
OpeningIndirect(w, path, in_mode) ==
  LET mode == GetMode(in_mode)
  IN CASE mode \in {NULL, "APPEND", "READ_APPEND"} -> Refuses(w, "throws")
       [] mode \in Truncating ->
            {[world |-> w, result |-> "file", file |-> MemoryFile(OpenedEmpty, path, in_mode)]}
       [] mode \in {"READ", "READ_WRITE"} ->
            UNION {IF o.result # "file" THEN {o}
                   ELSE {[o EXCEPT !.file = MemoryFile(OpenedOn(All(o.world, @)), path,
                                                       IF mode = "READ" THEN NULL ELSE in_mode)]}
                          \cup Refuses(o.world, "throws")
                     : o \in Opening(w, path, "r")}

-------------------------------------------------------------------------------
(* fclose of a file that is not written back: what is Java's may throw.      *)
Closing(w, f) ==
  IF f.kind = "record"
  THEN {[world |-> [w EXCEPT !.store = o.store], result |-> o.result] : o \in RsClose(w.store, f)}
  ELSE {[world |-> w, result |-> result] :
          result \in {"closed"} \cup (IF f.kind = "memory" THEN {} ELSE {"throws"})}

(* close of a memory file opened indirectly: fwrite(data, size, 1, tmp) says *)
(* how many items it wrote, 1, and that is compared with the size; unless    *)
(* they agree the call fails, and tmp stays open for ever. What throws on    *)
(* the way to a stream has written some of it.                               *)
WrittenBack(w, tmp, bytes) ==
  LET size == Len(bytes)
  IN CASE tmp.kind = "record" ->
            LET r == Fwrite(tmp.s, size, bytes)
            IN IF r.ret # size THEN {[world |-> w, result |-> "fails"]}
               ELSE Closing(w, [tmp EXCEPT !.s = r.file])
       [] tmp.kind = "output" ->
            UNION {LET stored == [w EXCEPT !.disk = o.disk]
                   IN IF ~o.ok THEN {[world |-> stored, result |-> "throws"]}
                      ELSE IF size > 1 THEN {[world |-> stored, result |-> "fails"]}
                      ELSE Closing(stored, tmp) : o \in OutputWritten(w.disk, tmp, bytes)}
       [] tmp.kind = "input" ->
            IF size = 0 THEN Closing(w, tmp) ELSE {[world |-> w, result |-> "fails"]}

(* fclose, of every kind of FILE. *)
ClosingAny(w, f) ==
  IF f.kind # "memory" \/ f.mode = NULL THEN Closing(w, f)
  ELSE UNION {IF o.result = "file" THEN WrittenBack(o.world, o.file, Content(f.s))
              ELSE {[world |-> o.world, result |-> IF o.result = "NULL" THEN "fails" ELSE "throws"]}
                : o \in Opening(w, f.path, f.mode)}

-------------------------------------------------------------------------------
(* The calls of the program thread. *)
Calling(call) == phase = "main" /\ handlers.adding = NULL /\ Uses(call)

Stays == UNCHANGED <<program, start, ending>>

(* What the paths of the program name. *)
NameOf(path) ==
  LET route == FileRoute(fops, path)
  IN IF route.op = record_store_fops THEN [uri |-> "recordstore://", rest |-> path.rest]
     ELSE route.path

Member(name) == [uri |-> "archive", rest |-> name]

Took(f, o, call, in_mode, name) ==
  /\ files' = [files EXCEPT ![f] = IF o.result = "file" THEN o.file ELSE @]
  /\ world' = o.world
  /\ last' = [call |-> call, result |-> o.result, mode |-> GetMode(in_mode), name |-> name]
  /\ UNCHANGED archive /\ Stays

Fopen ==
  /\ Calling("fopen")
  /\ \E f \in program.fps, path \in program.paths, in_mode \in program.modes :
       /\ files[f] = NULL
       /\ \E o \in Opening(world, path, in_mode) : Took(f, o, "fopen", in_mode, NameOf(path))

OpenIndirect ==
  /\ Calling("openIndirect")
  /\ \E f \in program.fps, path \in program.paths, in_mode \in program.modes :
       /\ files[f] = NULL
       /\ \E o \in OpeningIndirect(world, path, in_mode) :
            Took(f, o, "fopen", in_mode, NameOf(path))

(* fread on a memory file *)
MemoryRead(f, size) ==
  LET r == Fread(f.s, 1, size)
  IN {[ok |-> TRUE, bytes |-> r.bytes, file |-> [f EXCEPT !.s = r.file]]}

Reads(f, size) ==
  CASE f.kind = "input" -> InputRead(f, world.disk[f.path], size)
    [] f.kind = "output" -> {}
    [] OTHER -> MemoryRead(f, size)

FreadCall ==
  /\ Calling("fread")
  /\ \E f \in Fps, size \in program.sizes :
       /\ files[f] # NULL
       /\ \E r \in Reads(files[f], size) :
            /\ files' = [files EXCEPT ![f] = r.file]
            /\ last' = [call |-> "fread", asked |-> size, bytes |-> r.bytes,
                        result |-> IF r.ok THEN "read" ELSE "throws"]
  /\ UNCHANGED <<archive, world>> /\ Stays

(* fwrite: on a memory file over what is there (with no seek pending, see    *)
(* Stream), on a stream behind it. Files of an archive are not written to.   *)
Writable(f) == f.kind \in {"record", "memory"} /\ f.s.fptr = f.s.vfptr

FwriteMemory ==
  /\ Calling("fwrite")
  /\ \E f \in Fps, bytes \in program.writes :
       /\ files[f] # NULL /\ Writable(files[f]) /\ files[f].s.fptr + Len(bytes) <= MaxSize
       /\ files[f].kind = "memory" => files[f].mode # NULL
       /\ files' = [files EXCEPT ![f].s = Fwrite(@, 1, bytes).file]
       /\ last' = [call |-> "fwrite", given |-> bytes, result |-> "written"]
  /\ UNCHANGED <<archive, world>> /\ Stays

FwriteStream ==
  /\ Calling("fwrite")
  /\ \E f \in Fps, bytes \in program.writes :
       /\ files[f] # NULL /\ files[f].kind = "output"
       /\ Len(world.disk[files[f].path]) + Len(bytes) <= MaxSize
       /\ \E o \in OutputWritten(world.disk, files[f], bytes) :
            /\ world' = [world EXCEPT !.disk = o.disk]
            /\ last' = [call |-> "fwrite", given |-> bytes,
                        result |-> IF o.ok THEN "written" ELSE "throws"]
  /\ UNCHANGED <<archive, files>> /\ Stays

(* fseek: within a memory file, and as far as a stream may not reach.        *)
FseekCall ==
  /\ Calling("fseek")
  /\ \E f \in Fps, offset \in program.offsets, whence \in Whences :
       LET Moves(s) == Fseek(s, offset, whence).file
       IN /\ files[f] # NULL
          /\ \/ /\ files[f].kind = "input"
                /\ files' = [files EXCEPT ![f] = Moves(@)]
                /\ files'[f].vfptr \in 0 .. MaxSize
                /\ last' = [call |-> "fseek", to |-> files'[f].vfptr]
             \/ /\ files[f].kind \in {"record", "memory"}
                /\ files' = [files EXCEPT ![f].s = Moves(@)]
                /\ files'[f].s.vfptr \in 0 .. files[f].s.file_size
                /\ last' = [call |-> "fseek", to |-> files'[f].s.vfptr]
  /\ UNCHANGED <<archive, world>> /\ Stays

(* fclose: after an exception the program has lost the FILE all the same.    *)
FcloseCall ==
  /\ Calling("fclose")
  /\ \E f \in Fps :
       /\ files[f] # NULL
       /\ \E o \in ClosingAny(world, files[f]) :
            /\ o.world.store.next <= MaxRecords + 1
            /\ world' = o.world
            /\ files' = [files EXCEPT ![f] = NULL]
            /\ last' = [call |-> "fclose", result |-> o.result]
  /\ UNCHANGED archive /\ Stays

(* opendir of an archive, or cibar_open(fopen(path, "r")): the FILE it was   *)
(* read from is never closed, nor when the reading throws.                   *)
OpenArchive ==
  /\ Calling("cibar") /\ archive = NULL
  /\ \E path \in program.archives :
       LET route == DirRoute(dops, path)
       IN /\ route.op = cibar_dops
          /\ \E o \in Opening(world, route.path, "r") :
               /\ \/ archive' = IF o.result = "file" THEN Files(All(o.world, o.file), NULL)
                                ELSE NULL
                  \/ o.result = "file" /\ o.file.kind = "input" /\ archive' = NULL
               /\ world' = o.world
  /\ last' = [call |-> "opendir"]
  /\ UNCHANGED files /\ Stays

(* cibar_file_open: a memory file on the archive's own data.                 *)
OpenMember ==
  /\ Calling("cibar") /\ archive # NULL
  /\ \E f \in Fps, name \in program.names :
       LET i == EntryOf(archive, name)
       IN /\ files[f] = NULL
          /\ files' = [files EXCEPT ![f] = IF i = 0 THEN NULL
                        ELSE MemoryFile(OpenedOn(archive[i].data), Member(name), NULL)]
          /\ last' = [call |-> "fopen", result |-> IF i = 0 THEN "NULL" ELSE "file",
                      mode |-> "READ", name |-> Member(name)]
  /\ UNCHANGED <<archive, world>> /\ Stays

(* closedir; the files of the archive are closed before.                     *)
CloseArchive ==
  /\ Calling("cibar") /\ archive # NULL
  /\ \A f \in Fps : files[f] = NULL
  /\ archive' = NULL
  /\ last' = [call |-> "closedir"]
  /\ UNCHANGED <<files, world>> /\ Stays

(* Another program of the suite deletes a record of the store.               *)
DeleteByOther ==
  /\ Uses("delete")
  /\ \E rest \in DOMAIN Numbered :
       /\ Numbered[rest] \in DOMAIN world.store.recs
       /\ world' = [world EXCEPT !.store = DeleteRecord(@, Numbered[rest])]
       /\ last' = [call |-> "delete", name |-> [uri |-> "recordstore://", rest |-> rest]]
  /\ UNCHANGED <<files, archive>> /\ Stays

-------------------------------------------------------------------------------
(* atexit: counts the handler, makes room for it and stores it, in three     *)
(* steps that the event thread may come between.                             *)
Overlapping == [exit EXCEPT !.overlapped = @ \/ exit.at # "running"]

(* Mutant: the place is looked up after the handler was counted.             *)
AtexitCountsFirst ==
  /\ phase \in {"constructors", "main"} /\ Uses("atexit") /\ handlers.adding = NULL
  /\ \E fn \in Handlers :
       /\ \A i \in DOMAIN handlers.added : handlers.added[i] # fn
       /\ handlers' = [handlers EXCEPT !.n = @ + 1,
                                       !.adding = [fn |-> fn, cur |-> handlers.n + 1, grown |-> FALSE]]
  /\ exit' = Overlapping
  /\ last' = [call |-> "atexit"]
  /\ UNCHANGED <<program, start, io>>

AtexitCounts ==
  /\ phase \in {"constructors", "main"} /\ Uses("atexit") /\ handlers.adding = NULL
  /\ \E fn \in Handlers :
       /\ \A i \in DOMAIN handlers.added : handlers.added[i] # fn
       /\ handlers' = [handlers EXCEPT !.n = @ + 1,
                                       !.adding = [fn |-> fn, cur |-> handlers.n, grown |-> FALSE]]
  /\ exit' = Overlapping
  /\ last' = [call |-> "atexit"]
  /\ UNCHANGED <<program, start, io>>

AtexitGrows ==
  /\ handlers.adding # NULL /\ ~handlers.adding.grown
  /\ handlers' = [handlers EXCEPT !.list = At(@, handlers.n, Junk), !.adding.grown = TRUE]
  /\ exit' = Overlapping
  /\ last' = [call |-> "atexit"]
  /\ UNCHANGED <<program, start, io>>

AtexitStores ==
  /\ handlers.adding # NULL /\ handlers.adding.grown
  /\ handlers' = [handlers EXCEPT !.list = At(@, handlers.adding.cur + 1, handlers.adding.fn),
                                  !.added = Append(@, handlers.adding.fn), !.adding = NULL]
  /\ exit' = Overlapping
  /\ last' = [call |-> "atexit"]
  /\ UNCHANGED <<program, start, io>>

(* CRunTime.invokeCallback: a callback that is not registered yet does       *)
(* nothing. atexit_run takes the list as it is.                              *)
AtexitRun == [exit EXCEPT !.at = "handlers", !.end = handlers.n,
                          !.overlapped = handlers.adding # NULL]

InvokeCallback == IF exit.callback = 0 THEN [exit EXCEPT !.at = "ignored"] ELSE AtexitRun

(* The midlet's exit command, on the event thread. *)
CommandAction ==
  /\ program.midlet /\ exit.at = "running"
  /\ exit' = InvokeCallback
  /\ last' = [call |-> "exit command"]
  /\ UNCHANGED <<program, start, io, handlers>>

(* The canvas shows an exception that a callback throws, and that is all.    *)
Shown == [exit EXCEPT !.at = "failed"]

(* run_list, one handler. Where the list is being changed anything may be    *)
(* called: an address that is no function ends in an exception.              *)
RunHandler ==
  /\ exit.at = "handlers" /\ exit.next <= exit.end
  /\ \E fn \in (IF exit.next \in DOMAIN handlers.list THEN {handlers.list[exit.next]} ELSE {})
               \cup (IF exit.overlapped THEN {Junk} ELSE {}) :
       exit' = IF fn = Junk THEN Shown
               ELSE [exit EXCEPT !.next = @ + 1, !.ran = Append(@, fn)]
  /\ last' = [call |-> "handler"]
  /\ UNCHANGED <<program, start, io, handlers>>

RunDestructors ==
  /\ exit.at = "handlers" /\ exit.next > exit.end
  /\ exit' = [exit EXCEPT !.at = "destroyed", !.ran = Append(@, "destructors")]
  /\ last' = [call |-> "destructors"]
  /\ UNCHANGED <<program, start, io, handlers>>

(* The midlet is destroyed, by its command or by the phone at any time, and  *)
(* may be started again: all is lost but what the store and the disk hold.   *)
End ==
  /\ runs < Runs
  /\ runs' = runs + 1 /\ phase' = "constructors" /\ built' = 0
  /\ fops' = NoneRegistered /\ dops' = NoneRegistered
  /\ files' = [f \in Fps |-> NULL] /\ archive' = NULL
  /\ handlers' = NoHandlers /\ exit' = NotExiting
  /\ last' = [call |-> "end"]
  /\ UNCHANGED <<program, world>>

Next ==
  \/ Constructor \/ EnterMain \/ Return
  \/ Fopen \/ OpenIndirect \/ FreadCall \/ FwriteMemory \/ FwriteStream \/ FseekCall \/ FcloseCall
  \/ OpenArchive \/ OpenMember \/ CloseArchive \/ DeleteByOther
  \/ AtexitCounts \/ AtexitGrows \/ AtexitStores
  \/ CommandAction \/ RunHandler \/ RunDestructors
  \/ End

Spec == Init /\ [][Next]_vars

-------------------------------------------------------------------------------
(* Properties *)

(* Whatever the order in which the file systems were linked, a URI leads to  *)
(* one of the highest priority among those that registered it, and           *)
(* directories of file:// to JSR 75 when it is there.                        *)
Linked == UNION {{program.ctors[i][j] : j \in DOMAIN program.ctors[i]} : i \in DOMAIN program.ctors}

Routed ==
  phase # "constructors" =>
    /\ \A uri \in {r.uri : r \in {x \in Linked : x.kind = "fops"}} :
         LET claims == {r.op : r \in {x \in Linked : x.kind = "fops" /\ x.uri = uri}}
             op == FileRoute(fops, [uri |-> uri, rest |-> ""]).op
         IN op \in claims /\ \A other \in claims : other.priority <= op.priority
    /\ (\E r \in Linked : r.op = fileconnection_dops) =>
         DirRoute(dops, [uri |-> "file://", rest |-> ""]).op = fileconnection_dops

(* The exit command calls every function the program passed to atexit, once, *)
(* in the order they were passed, and then the destructors, unless it comes  *)
(* before main or while atexit changes the list.                             *)
HandlersRun ==
  /\ exit.at = "destroyed" /\ ~exit.overlapped => exit.ran = Append(handlers.added, "destructors")
  /\ exit.at = "ignored" => exit.ran = <<>>
  /\ exit.at = "failed" => exit.overlapped

(* The files of all file systems, across restarts, are those of FileStore.   *)
RecordNames == {[uri |-> "recordstore://", rest |-> rest] : rest \in DOMAIN Numbered}
Paths == UNION {p.paths : p \in Programs}
DiskNames == Paths \cup {[uri |-> "", rest |-> path.rest] : path \in Paths}
MemberNames == {Member(name) : name \in UNION {p.names : p \in Programs}}

Held(name) ==
  IF name \in RecordNames
  THEN IF Missing(world.store, Numbered[name.rest]) THEN NULL
       ELSE world.store.recs[Numbered[name.rest]]
  ELSE IF name \in MemberNames
  THEN IF \E i \in DOMAIN program.members : Member(program.members[i].name) = name
       THEN program.members[CHOOSE i \in DOMAIN program.members :
                              Member(program.members[i].name) = name].bytes
       ELSE NULL
  ELSE IF name \in DOMAIN world.disk THEN world.disk[name] ELSE NULL

AsOpen(f) ==
  CASE f = NULL -> NULL
    [] f # NULL /\ f.kind = "input" ->
         [name |-> f.path, own |-> FALSE, bytes |-> <<>>, pos |-> f.vfptr, met |-> f.eof,
          lost |-> f.jpos # f.fptr, saves |-> "never"]
    [] f # NULL /\ f.kind = "output" ->
         [name |-> f.path, own |-> FALSE, bytes |-> <<>>, pos |-> 0, met |-> FALSE,
          lost |-> FALSE, saves |-> "at once"]
    [] f # NULL /\ f.kind = "record" ->
         [name |-> [uri |-> "recordstore://",
                    rest |-> CHOOSE rest \in DOMAIN Numbered : Numbered[rest] = f.id],
          own |-> TRUE, bytes |-> Content(f.s), pos |-> f.s.vfptr, met |-> f.s.eof,
          lost |-> FALSE, saves |-> IF f.saves THEN "to position" ELSE "never"]
    [] f # NULL /\ f.kind = "memory" ->
         [name |-> NameOf(f.path),
          own |-> TRUE, bytes |-> Content(f.s), pos |-> f.s.vfptr, met |-> f.s.eof,
          lost |-> FALSE, saves |-> IF f.mode = NULL THEN "never" ELSE "all"]

Store == INSTANCE FileStore WITH
  Closed <- NULL, Absent <- NULL, Streamed <- DiskNames \ RecordNames,
  store <- [name \in RecordNames \cup MemberNames \cup DiskNames |-> Held(name)],
  open <- [f \in Fps |-> AsOpen(files[f])]

ImplementsFileStore == Store!Spec
===============================================================================

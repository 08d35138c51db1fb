---------------------------- MODULE FileConnection ----------------------------
(***************************************************************************)
(* libjsr075/fileconnection-filesystem.c over the object repository: a     *)
(* FILE keeps the handles of a Java connection and of a Java stream. Every *)
(* call into Java is a step; one C function runs at a time (call).         *)
(***************************************************************************)
EXTENDS ObjectRepository

CONSTANTS
  FileIds,         (* FILEs the program uses                                *)
  ConnectionOf,    (* the Java connection of a FILE                         *)
  StreamOf,        (* the Java stream of a FILE                             *)
  Exc,             (* any Java exception                                    *)
  Idle             (* no C function is running                              *)

ASSUME FileAssumption ==
  /\ IsFiniteSet(FileIds)
  /\ ConnectionOf \in [FileIds -> Objects]
  /\ StreamOf \in [FileIds -> Objects]
  /\ Exc \in Objects
  /\ Idle \notin FileIds

VARIABLES
  files,           (* FILE -> where it is in its life, fileconnection_file_t
                      (fc, is) and the exception its handler was given (ex) *)
  call             (* the FILE whose function runs                          *)

fvars == <<vars, files, call>>

Streams == {StreamOf[f] : f \in FileIds}

(* The handles a FILE answers for, with what they should stand for.          *)
Owned(f) ==
  LET p == files[f]
      conn == [h |-> p.fc, obj |-> ConnectionOf[f]]
      stream == [h |-> p.is, obj |-> StreamOf[f]]
  IN CASE p.at \in {"connected", "reopened", "connectedOut", "undoing"} -> {conn}
       [] p.at \in {"open", "openedOut"} -> {conn, stream}
       [] p.at = "resetting" -> {conn}
       [] p.at = "output" -> {stream}
       [] p.at = "catching" -> {[h |-> p.ex, obj |-> Exc]}
       [] p.at = "catchingOut" -> {conn, [h |-> p.ex, obj |-> Exc]}
       [] OTHER -> {}

FileHandles == {o.h : o \in UNION {Owned(f) : f \in FileIds}}

NoFile == [at |-> "closed", fc |-> 0, is |-> 0, ex |-> 0]

FInit ==
  /\ Init
  /\ files = [f \in FileIds |-> NoFile]
  /\ call = Idle

(* A step of f's function that begins at one of the places from, and ends in *)
(* p with the function returned or not.                                      *)
Advance(f, from, p, next) ==
  /\ files[f].at \in from
  /\ call = IF files[f].at \in {"closed", "open", "stale", "output"} THEN Idle ELSE f
  /\ files' = [files EXCEPT ![f] = p]
  /\ call' = next

(* The handle the next Java object will get. *)
NextHandle(obj) == Registered(table, obj).ret

(* NOPH_delete of a handle the file system believes to own.                  *)
Delete(h) ==
  /\ table' = DeRegistered(table, h)
  /\ held' = Dropped(held, h)
  /\ UNCHANGED <<callbacksByName, wanted>>

-------------------------------------------------------------------------------
(* open_file(path, READ): the connection, then its stream; whatever throws   *)
(* leads to NOPH_setter_exception_handler, which deletes the exception, and  *)
(* to NULL. A connection whose stream failed to open is deleted by nobody.   *)
Connect(f) ==
  /\ Register(ConnectionOf[f])
  /\ Advance(f, {"closed"},
             [NoFile EXCEPT !.at = "connected", !.fc = NextHandle(ConnectionOf[f])], f)

OpenStream(f) ==
  /\ Register(StreamOf[f])
  /\ Advance(f, {"connected"},
             [files[f] EXCEPT !.at = "open", !.is = NextHandle(StreamOf[f])], Idle)

(* fileSize is asked for outside the try block: when it throws, the program  *)
(* gets no FILE, and nobody has the two handles.                             *)
SizeThrows(f) ==
  /\ Register(StreamOf[f])
  /\ Advance(f, {"connected"}, NoFile, Idle)

(* Mutant: the call is outside the try block. *)
OpenThrowsUncaught(f) ==
  /\ Register(Exc)
  /\ Advance(f, {"closed", "connected"},
             [NoFile EXCEPT !.at = "catching", !.ex = NextHandle(Exc)], Idle)

(* The catch block registers the exception and calls the handler with it.    *)
OpenThrows(f) ==
  /\ Register(Exc)
  /\ Advance(f, {"closed", "connected"},
             [NoFile EXCEPT !.at = "catching", !.ex = NextHandle(Exc)], f)

OpenFails(f) ==
  /\ Delete(files[f].ex)
  /\ Advance(f, {"catching"}, NoFile, Idle)

(* reset(fp), when fseek goes backwards: both objects are released and       *)
(* fetched again. A call that throws goes straight through to the program,   *)
(* and fp still holds the handles that were released.                        *)
SeekBack(f) ==
  /\ table.slots[files[f].is] \in Streams
  /\ Delete(files[f].is)
  /\ Advance(f, {"open"}, [files[f] EXCEPT !.at = "resetting"], f)

ResetConnection(f) ==
  /\ Delete(files[f].fc)
  /\ Advance(f, {"resetting"}, [files[f] EXCEPT !.at = "reset"], f)

Reopen(f) ==
  /\ Register(ConnectionOf[f])
  /\ Advance(f, {"reset"},
             [files[f] EXCEPT !.at = "reopened", !.fc = NextHandle(ConnectionOf[f])], f)

(* Mutant: the stream fetched again is not remembered. *)
RestreamForgetting(f) ==
  /\ Register(StreamOf[f])
  /\ Advance(f, {"reopened"}, [files[f] EXCEPT !.at = "open"], Idle)

Restream(f) ==
  /\ Register(StreamOf[f])
  /\ Advance(f, {"reopened"},
             [files[f] EXCEPT !.at = "open", !.is = NextHandle(StreamOf[f])], Idle)

ResetThrows(f) ==
  /\ Register(Exc)
  /\ Advance(f, {"reset", "reopened"}, [files[f] EXCEPT !.at = "stale"], Idle)

(* fclose(fp): the stream must be one, or Java throws before anything is     *)
(* deleted; only the connection's handle is given back. A FILE that lost its *)
(* handles in reset is closed the same way, once.                            *)
Close(f) ==
  /\ table.slots[files[f].is] \in Streams
  /\ Delete(files[f].fc)
  /\ Advance(f, {"open", "stale"},
             [NoFile EXCEPT !.at = IF files[f].at = "open" THEN "closed" ELSE "gone"], Idle)

(* The rest of the program between two calls: also what it makes of an       *)
(* exception that came through to it and left the FILE as it was.            *)
Program ==
  /\ call = Idle
  /\ \/ \E obj \in Objects : Register(obj)
     \/ \E h \in DOMAIN held \ FileHandles : DeRegister(h)
  /\ UNCHANGED <<files, call>>

Reading(f) ==
  \/ Connect(f) \/ OpenStream(f) \/ SizeThrows(f) \/ OpenThrows(f) \/ OpenFails(f)
  \/ SeekBack(f) \/ ResetConnection(f) \/ Reopen(f) \/ Restream(f) \/ ResetThrows(f)
  \/ Close(f)

FNext == Program \/ \E f \in FileIds : Reading(f)

ReadSpec == FInit /\ [][FNext]_fvars

-------------------------------------------------------------------------------
(* open_file(path, WRITE): the connection is deleted once the stream is open *)
(* and never stored, so p->fc keeps the 0 that cibyl_file_alloc put there.   *)
ConnectOut(f) ==
  /\ Register(ConnectionOf[f])
  /\ Advance(f, {"closed"},
             [NoFile EXCEPT !.at = "connectedOut", !.fc = NextHandle(ConnectionOf[f])], f)

OpenStreamOut(f) ==
  /\ Register(StreamOf[f])
  /\ Advance(f, {"connectedOut"},
             [files[f] EXCEPT !.at = "openedOut", !.is = NextHandle(StreamOf[f])], f)

ReleaseConnection(f) ==
  /\ Delete(files[f].fc)
  /\ Advance(f, {"openedOut"}, [files[f] EXCEPT !.at = "output", !.fc = 0], Idle)

SizeOutThrows(f) ==
  /\ Register(Exc)
  /\ Advance(f, {"connectedOut"}, NoFile, Idle)

OpenOutThrows(f) ==
  /\ Register(Exc)
  /\ Advance(f, {"connectedOut"},
             [files[f] EXCEPT !.at = "catchingOut", !.ex = NextHandle(Exc)], f)

OpenOutCaught(f) ==
  /\ Delete(files[f].ex)
  /\ Advance(f, {"catchingOut"}, [files[f] EXCEPT !.at = "undoing"], f)

OpenOutFails(f) ==
  /\ Delete(files[f].fc)
  /\ Advance(f, {"undoing"}, NoFile, Idle)

(* close_output(fp) *)
CloseOutput(f) ==
  /\ Delete(files[f].fc)
  /\ Advance(f, {"output"}, NoFile, Idle)

Writing(f) ==
  \/ ConnectOut(f) \/ OpenStreamOut(f) \/ ReleaseConnection(f)
  \/ SizeOutThrows(f) \/ OpenOutThrows(f) \/ OpenOutCaught(f) \/ OpenOutFails(f) \/ CloseOutput(f)

ReadWriteSpec == FInit /\ [][FNext \/ \E f \in FileIds : Writing(f)]_fvars

-------------------------------------------------------------------------------
(* Properties *)

(* A FILE is somewhere in its life, and only a function that has not         *)
(* returned leaves it half way.                                              *)
FilesTypeOK ==
  /\ files \in [FileIds ->
       [at : {"closed", "connected", "open", "catching", "resetting", "reset", "reopened",
              "stale", "gone", "connectedOut", "openedOut", "catchingOut", "undoing", "output"},
        fc : 0 .. MaxSize, is : 0 .. MaxSize, ex : 0 .. MaxSize]]
  /\ call \in FileIds \cup {Idle}
  /\ \A f \in FileIds :
       (call = f) <=> files[f].at \notin {"closed", "open", "stale", "gone", "output"}

(* Handles that a FILE answers for and that stand for something else by now. *)
Astray == {o \in UNION {Owned(f) : f \in FileIds} :
             o.h \notin DOMAIN held \/ table.slots[o.h] # o.obj}

(* The connection, stream and exception handles a FILE keeps are its own,    *)
(* through opens that fail half way and seeks that reopen; closing a FILE    *)
(* whose reset failed releases at most one handle of someone else.           *)
FilesOwnHandles ==
  Cardinality(Astray) <= Cardinality({f \in FileIds : files[f].at = "gone"})

(* Nobody gets the handle of a FILE that is open.                            *)
HandlesNotShared ==
  (\A f \in FileIds : files[f].at # "gone") =>
    \A f, g \in FileIds : f # g => {o.h : o \in Owned(f)} \cap {o.h : o \in Owned(g)} = {}
===============================================================================

------------------------------ MODULE FileStore -------------------------------
(***************************************************************************)
(* What a program may expect of files under any URI, and what is left of   *)
(* them when it ends: named contents, and FILEs at work on them.           *)
(*                                                                         *)
(* A FILE has a copy of its own (records, memory files) that it keeps for  *)
(* itself, or stores when it is closed, or it works on the contents        *)
(* themselves (streams). It may get lost: a seek or a read that threw      *)
(* leaves a stream nobody knows the position of.                           *)
(***************************************************************************)
EXTENDS Integers, Sequences

CONSTANTS
  Fps,            (* the FILEs                                              *)
  Closed,         (* a FILE that is not open                                *)
  Absent,         (* no contents                                            *)
  Streamed,       (* the names whose contents are written through streams   *)
  Truncating      (* the modes that start with nothing                      *)

VARIABLES
  store,          (* name -> contents, or Absent                            *)
  open,           (* FILE -> Closed, or the FILE's name, contents if own,
                     position, whether it met the end, whether it is lost,
                     and what it stores when it is closed                   *)
  last            (* the last call                                          *)

vars == <<store, open, last>>

Seen(f) == IF open[f].own THEN open[f].bytes ELSE store[open[f].name]

Only(f, o) == open' = [open EXCEPT ![f] = o]

(* A copy is the contents, or nothing. *)
OpenCopy(f) ==
  /\ open[f] = Closed /\ open'[f].own
  /\ Only(f, open'[f])
  /\ LET o == open'[f]
         content == store[o.name]
     IN /\ o.bytes = IF last'.mode \in Truncating \/ content = Absent THEN <<>> ELSE content
        /\ last'.mode = "READ" => content # Absent
        /\ o.pos = 0 /\ ~o.lost /\ ~o.met
  /\ UNCHANGED store

(* A stream that is written to begins with nothing, whatever the mode.       *)
OpenStream(f) ==
  /\ open[f] = Closed /\ ~open'[f].own
  /\ Only(f, open'[f])
  /\ LET o == open'[f]
     IN /\ o.pos = 0 /\ ~o.lost /\ ~o.met
        /\ IF o.saves = "at once" THEN store' = [store EXCEPT ![o.name] = <<>>]
           ELSE store[o.name] # Absent /\ UNCHANGED store

Opened == \E f \in Fps : open[f] = Closed /\ open'[f] # Closed /\ (OpenCopy(f) \/ OpenStream(f))

(* fread: the bytes at the position; fewer than asked for only at the end or *)
(* on a FILE that met it once.                                               *)
Read ==
  \E f \in Fps :
    /\ open[f] # Closed /\ open'[f] # Closed
    /\ LET o == open[f]
           k == Len(last'.bytes)
       IN \/ o.lost /\ Only(f, [open'[f] EXCEPT !.name = o.name, !.own = o.own, !.bytes = o.bytes])
          \/ /\ k = 0 \/ o.pos + k <= Len(Seen(f))
             /\ last'.bytes = SubSeq(Seen(f), o.pos + 1, o.pos + k)
             /\ k < last'.asked => o.met \/ o.pos + k >= Len(Seen(f))
             /\ Only(f, [o EXCEPT !.pos = @ + k, !.met = open'[f].met])
    /\ UNCHANGED store

(* It throws: the position stays, and may be lost. *)
ReadThrows ==
  \E f \in Fps :
    /\ open[f] # Closed /\ open'[f] # Closed
    /\ Only(f, [open[f] EXCEPT !.lost = open'[f].lost])
    /\ UNCHANGED store

(* fwrite: over what is at the position, or behind all there is, of which a  *)
(* stream that throws has taken a first part.                                *)
Over(bytes, at, more) ==
  SubSeq(bytes, 1, at) \o more \o SubSeq(bytes, at + Len(more) + 1, Len(bytes))

Written ==
  \E f \in Fps :
    /\ open[f] # Closed
    /\ IF open[f].own
       THEN /\ open'[f] # Closed
            /\ Only(f, [open[f] EXCEPT !.bytes = Over(@, open[f].pos, last'.given),
                                       !.pos = @ + Len(last'.given),
                                       !.met = @ /\ open'[f].met])
            /\ UNCHANGED store
       ELSE /\ \E n \in 0 .. Len(last'.given) :
                 /\ last'.result = "written" => n = Len(last'.given)
                 /\ store' = [store EXCEPT ![open[f].name] = @ \o SubSeq(last'.given, 1, n)]
            /\ UNCHANGED open

SoughtTo ==
  \E f \in Fps : open[f] # Closed /\ Only(f, [open[f] EXCEPT !.pos = last'.to]) /\ UNCHANGED store

(* fclose: a call that succeeds has stored what the FILE stores; one that    *)
(* does not has changed nothing or stored the same, or, where it throws on a *)
(* stream, a first part of it. No other name changes.                        *)
Stores(o) ==
  CASE o.saves = "all" -> o.bytes
    [] o.saves = "to position" -> SubSeq(o.bytes, 1, o.pos)
    [] OTHER -> store[o.name]

ClosedFile ==
  \E f \in Fps :
    /\ open[f] # Closed /\ Only(f, Closed)
    /\ \/ store' = [store EXCEPT ![open[f].name] = Stores(open[f])]
       \/ last'.result # "closed" /\ UNCHANGED store
       \/ /\ last'.result = "throws" /\ open[f].saves = "all" /\ open[f].name \in Streamed
          /\ \E n \in 0 .. Len(open[f].bytes) :
               store' = [store EXCEPT ![open[f].name] = SubSeq(open[f].bytes, 1, n)]

(* The program ends: what was not closed is not stored. *)
Ended == open' = [f \in Fps |-> Closed] /\ UNCHANGED store

(* Other programs of the suite delete records. *)
Deleted == store' = [store EXCEPT ![last'.name] = Absent] /\ UNCHANGED open

(* fopen does not refuse to read what is there. *)
Refused ==
  /\ last'.result = "NULL" /\ last'.mode = "READ" => store[last'.name] = Absent
  /\ UNCHANGED <<store, open>>

Other == UNCHANGED <<store, open>>

Step ==
  CASE last'.call = "fopen" -> IF last'.result = "file" THEN Opened ELSE Refused
    [] last'.call = "fread" -> IF last'.result = "throws" THEN ReadThrows ELSE Read
    [] last'.call = "fwrite" -> Written
    [] last'.call = "fseek" -> SoughtTo
    [] last'.call = "fclose" -> ClosedFile
    [] last'.call = "end" -> Ended
    [] last'.call = "delete" -> Deleted
    [] OTHER -> Other

Init == open = [f \in Fps |-> Closed]

Spec == Init /\ [][Step]_vars
===============================================================================

----------------------------- MODULE RecordStore ------------------------------
(***************************************************************************)
(* Files that are records of a MIDP record store                           *)
(* (libmidp/recordstore-filesystem.c): a memory file, filled from the      *)
(* record when it is opened and written back when it is closed. Pure       *)
(* operators, of a store                                                   *)
(*   [created |-> it exists, recs |-> id -> bytes, next |-> the next id];  *)
(* those that call Java give the set of what may come of it.               *)
(***************************************************************************)
EXTENDS Stream, FiniteSets

CONSTANT INVALID_RECORD_MAGIC   (* what a record nobody wrote yet holds      *)

-------------------------------------------------------------------------------
(* javax.microedition.rms.RecordStore, as it is used here: ids are given in  *)
(* order and never again, and any change may find the store full.            *)
NoStore == [created |-> FALSE, recs |-> [id \in {} |-> <<>>], next |-> 1]

SetRecord(store, id, data) ==
  [store EXCEPT !.recs = [i \in DOMAIN @ |-> IF i = id THEN data ELSE @[i]]]

AddRecord(store, data) ==
  [store EXCEPT !.recs = [i \in DOMAIN @ \cup {store.next} |->
                            IF i = store.next THEN data ELSE @[i]],
                !.next = @ + 1]

DeleteRecord(store, id) ==
  [store EXCEPT !.recs = [i \in DOMAIN @ \ {id} |-> @[i]]]

-------------------------------------------------------------------------------
(* get_record: the record's bytes, or NULL when there is none or it is only  *)
(* a place holder.                                                           *)
Missing(store, id) ==
  id \notin DOMAIN store.recs \/ store.recs[id] = INVALID_RECORD_MAGIC

RecordFile(store, id) ==
  IF Missing(store, id) THEN OpenedEmpty ELSE OpenedOn(store.recs[id])

Truncating == {"WRITE", "READ_TRUNCATE"}

(* What rs_open may give: the FILE, NULL (also when the store cannot be      *)
(* created), or no return at all: the panic of mode APPEND, after the store  *)
(* was opened, and the close of the store when the record is not there.      *)
RsOpen(store, id, mode) ==
  LET opened == [store EXCEPT !.created = @ \/ mode # "READ"]
      File(s) == [kind |-> "record", s |-> s, id |-> id, saves |-> mode # "READ"]
      Gives(result, file) == {[store |-> opened, result |-> result, file |-> file]}
      NotCreated ==
        IF mode = "READ" THEN {} ELSE {[store |-> store, result |-> "NULL", file |-> <<>>]}
  IN IF mode = "READ" /\ ~store.created THEN Gives("NULL", <<>>)
     ELSE NotCreated \cup
          (CASE mode \in Truncating -> Gives("file", File(OpenedEmpty))
             [] mode \in {"READ_WRITE", "READ_APPEND"} ->
                  Gives("file", File(RecordFile(store, id)))
             [] mode = "READ" /\ Missing(store, id) ->
                  Gives("NULL", <<>>) \cup Gives("throws", <<>>)
             [] mode = "READ" /\ ~Missing(store, id) -> Gives("file", File(RecordFile(store, id)))
             [] mode = "APPEND" -> Gives("throws", <<>>))

(* What close_write saves: the bytes up to the position, not up to the end.  *)
Saved(s) == SubSeq(Content(s), 1, s.vfptr)

(* The store after n place holders are added. *)
Padded(store, n) ==
  [store EXCEPT !.recs = [i \in DOMAIN @ \cup store.next .. store.next + n - 1 |->
                            IF i \in DOMAIN @ THEN @[i] ELSE INVALID_RECORD_MAGIC],
                !.next = @ + n]

(* Mutant: the record is not set again once there is one of its id.          *)
CloseWriteOnce(store, id, data) ==
  LET Ends(s, result) == [store |-> s, result |-> result]
  IN (IF id \in DOMAIN store.recs THEN {Ends(SetRecord(store, id, data), "closed")} ELSE {})
     \cup {Ends(Padded(store, n), "throws") : n \in 0 .. id - store.next}
     \cup (IF store.next <= id THEN {Ends(Padded(store, id - store.next + 1), "closed")} ELSE {})
     \cup (IF store.next > id THEN {Ends(Padded(store, 1), "throws"), Ends(store, "throws")} ELSE {})

(* What close_write may come to. The record is set; if that throws, place    *)
(* holders are added up to its id and it is set again. A place holder with a *)
(* higher id is thrown on ("Non-create error") but stays in the store; every *)
(* one may be the one that does not fit.                                     *)
CloseWrite(store, id, data) ==
  LET Ends(s, result) == [store |-> s, result |-> result]
      filled == Padded(store, id - store.next + 1)
  IN (IF id \in DOMAIN store.recs THEN {Ends(SetRecord(store, id, data), "closed")} ELSE {})
     \cup {Ends(Padded(store, n), "throws") : n \in 0 .. id - store.next}
     \cup (IF store.next <= id
           THEN {Ends(filled, "throws"), Ends(SetRecord(filled, id, data), "closed")}
           ELSE {Ends(Padded(store, 1), "throws"), Ends(store, "throws")})

(* rs_close: an exception on the way, or from closing the store itself,      *)
(* leaves the FILE neither closed nor freed, and the program without it.     *)
RsClose(store, f) ==
  LET saved == IF f.saves THEN CloseWrite(store, f.id, Saved(f.s))
               ELSE {[store |-> store, result |-> "closed"]}
  IN saved \cup {[o EXCEPT !.result = "throws"] : o \in saved}
===============================================================================

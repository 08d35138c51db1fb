----------------------------- MODULE FileSystems -----------------------------
(***************************************************************************)
(* The registry of file systems (libcrt0/fileops.c): which operations a    *)
(* path leads to. A path is a pair [uri, rest]; the URIs registered here   *)
(* are never prefixes of each other, so that a path matches one of them    *)
(* exactly when it begins with it. NULL stands for no file system.         *)
(***************************************************************************)
EXTENDS Integers, Sequences

CONSTANT NULL

(* all_fops_t, zeroed *)
NoneRegistered == [table |-> <<>>, uris |-> <<>>, fallback |-> NULL]

First(s) == CHOOSE i \in s : \A j \in s : i <= j

(* s with x at i, which may be the place after its last. *)
At(s, i, x) == [j \in 1 .. IF i > Len(s) THEN i ELSE Len(s) |-> IF j = i THEN x ELSE s[j]]

(* Mutant: the priorities are not compared. *)
RegisterOpLatest(f, uri, fop, is_default) ==
  LET same == {i \in DOMAIN f.uris : f.uris[i] = uri}
      idx == IF same = {} THEN Len(f.uris) + 1 ELSE First(same)
  IN [table |-> At(f.table, idx, fop), uris |-> At(f.uris, idx, uri),
      fallback |-> IF is_default THEN fop ELSE f.fallback]

(* register_op: a file system of a higher priority replaces the first one    *)
(* of the same URI; the others go behind those that are there.               *)
RegisterOp(f, uri, fop, is_default) ==
  LET below == {i \in DOMAIN f.uris : f.uris[i] = uri /\ fop.priority > f.table[i].priority}
      idx == IF below = {} THEN Len(f.uris) + 1 ELSE First(below)
  IN [table |-> At(f.table, idx, fop), uris |-> At(f.uris, idx, uri),
      fallback |-> IF is_default THEN fop ELSE f.fallback]

(* cibyl_file_get_mode: NULL is the exception of an unsupported mode. The    *)
(* table's last entry has no string, and is compared as the empty one.       *)
ModeMapping ==
  {<<"r", "READ">>, <<"rb", "READ">>, <<"rw", "READ_WRITE">>, <<"r+", "READ_WRITE">>,
   <<"w", "WRITE">>, <<"wb", "WRITE">>, <<"a", "APPEND">>, <<"a+", "READ_APPEND">>,
   <<"w+", "READ_TRUNCATE">>, <<"", "READ">>}

GetMode(in_mode) ==
  IF \E m \in ModeMapping : m[1] = in_mode
  THEN (CHOOSE m \in ModeMapping : m[1] = in_mode)[2] ELSE NULL

(* What is left of a path once its URI is skipped. *)
WithoutUri(path) == [uri |-> "", rest |-> path.rest]

(* get_fops_from_uri and fopen: the first file system of the path's URI, and *)
(* the path with or without the URI; or the default one, with the path.      *)
FileRoute(fops, path) ==
  LET hits == {i \in DOMAIN fops.uris : fops.uris[i] = path.uri}
  IN IF hits = {} THEN [op |-> fops.fallback, path |-> path]
     ELSE LET op == fops.table[First(hits)]
          IN [op |-> op, path |-> IF op.keep_uri THEN path ELSE WithoutUri(path)]

(* opendir: a directory handler that keeps the URI takes every path.         *)
DirRoute(dops, path) ==
  LET hits == {i \in DOMAIN dops.uris : dops.table[i].keep_uri \/ dops.uris[i] = path.uri}
  IN IF hits = {} THEN [op |-> dops.fallback, path |-> path]
     ELSE LET op == dops.table[First(hits)]
          IN [op |-> op, path |-> IF op.keep_uri THEN path ELSE WithoutUri(path)]

(* get_dops_from_uri, as remove and mkdir use it: the whole path goes on.    *)
DirHandler(dops, path) == [op |-> DirRoute(dops, path).op, path |-> path]

-------------------------------------------------------------------------------
(* The file systems of the libraries, and what the constructor of each       *)
(* registers.                                                                *)
Ops(name, priority, keep_uri) == [name |-> name, priority |-> priority, keep_uri |-> keep_uri]

connector_fops == Ops("connector", 0, TRUE)
resource_fops == Ops("resource", 0, FALSE)
record_store_fops == Ops("recordstore", 0, FALSE)
file_input_fops == Ops("file", 1, FALSE)
fileconnection_fops == Ops("fileconnection", 1, TRUE)
cibar_dops == Ops("cibar directory", 0, FALSE)
fileconnection_dops == Ops("fileconnection directory", 0, TRUE)

Registration(kind, uri, op, is_default) ==
  [kind |-> kind, uri |-> uri, op |-> op, is_default |-> is_default]

ConnectorUris == <<"file://", "http://", "https://", "datagram://", "comm:", "socket://", "ssl://">>

connector_register_fs ==
  [i \in DOMAIN ConnectorUris |-> Registration("fops", ConnectorUris[i], connector_fops, FALSE)]
resource_register_fs == <<Registration("fops", "resource://", resource_fops, TRUE)>>
recordstore_register_fs == <<Registration("fops", "recordstore://", record_store_fops, FALSE)>>
file_register_fs == <<Registration("fops", "file://", file_input_fops, TRUE)>>
fileconnection_register_fs == <<Registration("fops", "file://", fileconnection_fops, FALSE)>>
cibar_register_fs == <<Registration("dops", "cibar://", cibar_dops, FALSE)>>
dirent_register_fs == <<Registration("dops", "file://", fileconnection_dops, TRUE)>>
===============================================================================

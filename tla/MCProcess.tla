------------------------------ MODULE MCProcess -------------------------------
(***************************************************************************)
(* Programs for TLC: libraries linked in every order, and programs that    *)
(* keep records, keep them through memory files, read streams, read and    *)
(* write files of Java SE, read archives, and register handlers.           *)
(***************************************************************************)
EXTENDS Process, TLC

CONSTANTS x, y, one, two, three, fp, fq

Records == [rest \in {"s:1", "s:2"} |-> IF rest = "s:1" THEN 1 ELSE 2]

Record(rest) == [uri |-> "recordstore://", rest |-> rest]
Plain(rest) == [uri |-> "", rest |-> rest]
File(rest) == [uri |-> "file://", rest |-> rest]

NoDisk == [path \in {} |-> <<>>]

Idle ==
  [midlet |-> FALSE, ctors |-> <<>>, calls |-> {}, paths |-> {}, modes |-> {}, disk |-> NoDisk,
   sizes |-> {}, writes |-> {}, offsets |-> {}, archives |-> {}, names |-> {}, members |-> <<>>,
   fps |-> {}]

Orders(set) == {s \in [1 .. Cardinality(set) -> set] : \A i, j \in DOMAIN s : i # j => s[i] # s[j]}

Midp == <<connector_register_fs, resource_register_fs, recordstore_register_fs>>

Linkers ==
  {[Idle EXCEPT !.ctors = s] :
     s \in Orders({Midp[1], Midp[2], Midp[3], fileconnection_register_fs, dirent_register_fs})
       \cup Orders({Midp[1], Midp[2], file_register_fs, cibar_register_fs})}

Recorder ==
  [Idle EXCEPT !.fps = {fp}, !.ctors = Midp,
               !.calls = {"fopen", "fread", "fwrite", "fseek", "fclose", "delete"},
               !.paths = {Record("s:1"), Record("s:2")}, !.modes = {"r", "w", "r+", "a"},
               !.sizes = {2}, !.writes = {<<x>>, <<y, y>>}, !.offsets = {0, 1}]

Sharer ==
  [Idle EXCEPT !.fps = {fp, fq}, !.ctors = Midp, !.calls = {"fopen", "fread", "fwrite", "fclose"},
               !.paths = {Record("s:2")}, !.modes = {"r", "a+"},
               !.sizes = {2}, !.writes = {<<x>>, <<y>>}]

Copier ==
  [Idle EXCEPT !.fps = {fp}, !.ctors = Midp, !.calls = {"openIndirect", "fread", "fwrite", "fclose"},
               !.paths = {Record("s:1"), Record("s:2"), Record("s")},
               !.modes = {"r", "w+", "r+", "a+"},
               !.sizes = {2}, !.writes = {<<x>>, <<y, y>>}]

Reader ==
  [Idle EXCEPT !.fps = {fp}, !.ctors = Midp, !.calls = {"fopen", "fread", "fseek", "fclose"},
               !.paths = {Plain("r")}, !.modes = {"rb", "x"},
               !.disk = [path \in {Plain("r")} |-> <<x, y, y, x>>],
               !.sizes = {1, 3}, !.offsets = {0, 1, -1}]

Filer ==
  [Idle EXCEPT !.fps = {fp}, !.ctors = <<file_register_fs>>,
               !.calls = {"fopen", "openIndirect", "fread", "fwrite", "fclose"},
               !.paths = {File("f"), Plain("g")}, !.modes = {"r", "wb", "a", "r+", "w+"},
               !.disk = [path \in {Plain("g")} |-> <<x>>],
               !.sizes = {2}, !.writes = {<<y>>, <<x, y>>}]

Follower ==
  [Idle EXCEPT !.fps = {fp, fq}, !.ctors = <<file_register_fs>>,
               !.calls = {"fopen", "fread", "fwrite", "fclose"},
               !.paths = {File("f")}, !.modes = {"r", "w"}, !.sizes = {1, 2}, !.writes = {<<x>>, <<y>>}]

Members == <<[name |-> one, bytes |-> <<x, y>>], [name |-> two, bytes |-> <<>>],
             [name |-> three, bytes |-> <<y>>]>>

Archive == Packed(Members)

Archiver ==
  [Idle EXCEPT !.fps = {fp}, !.ctors = Append(Midp, cibar_register_fs),
               !.calls = {"cibar", "fread", "fseek", "fclose"},
               !.paths = {Plain("a"), Plain("b"), Plain("c")},
               !.disk = [path \in {Plain("a"), Plain("b"), Plain("c")} |->
                           CASE path.rest = "a" -> Archive
                             [] path.rest = "b" -> SubSeq(Archive, 1, Len(Archive) - 1)
                             [] path.rest = "c" -> Tail(Archive)],
               !.archives = {[uri |-> "cibar://", rest |-> rest] : rest \in {"a", "b", "c", "d"}},
               !.names = {one, two, three, x}, !.members = Members,
               !.sizes = {1, 2}, !.offsets = {0, 1}]

Exiter ==
  [Idle EXCEPT !.midlet = TRUE, !.fps = {fp}, !.ctors = Midp, !.calls = {"atexit", "fopen", "fwrite", "fclose"},
               !.paths = {Record("s:1")}, !.modes = {"w"}, !.writes = {<<x>>}]

AllPrograms == Linkers \cup {Recorder, Sharer, Copier, Reader, Filer, Follower, Archiver, Exiter}
===============================================================================

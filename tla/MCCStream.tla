------------------------------ MODULE MCCStream -------------------------------
(***************************************************************************)
(* Programs for TLC: one that reads and seeks, one that reads lines, one   *)
(* that reads and writes without seeking, one that runs out of memory, and *)
(* one that seeks and writes.                                              *)
(***************************************************************************)
EXTENDS CStream

FilesOf(sizes) == UNION {[1 .. n -> Bytes] : n \in sizes}

ByteItems == {<<1, 1>>, <<1, 2>>, <<1, 3>>}
AllItems == ByteItems \cup {<<2, 1>>, <<2, 2>>, <<3, 0>>}

Reader == [calls |-> {"fread", "fgetc", "fseek", "clearerr"},
           contents |-> FilesOf({4}), items |-> AllItems, lines |-> {}]
LineReader == [calls |-> {"fgets", "fgetc", "fread"},
               contents |-> FilesOf({4}), items |-> AllItems, lines |-> {1, 2, 3}]
Writer == [calls |-> {"fread", "fwrite", "fputc", "fputs", "clearerr"},
           contents |-> FilesOf(0 .. 3), items |-> ByteItems, lines |-> {}]
Starved == [calls |-> {"fread", "fwrite", "realloc fails"},
            contents |-> FilesOf(0 .. 2), items |-> ByteItems, lines |-> {}]
Overwriter == [calls |-> {"fseek", "fwrite"},
               contents |-> FilesOf({1}), items |-> ByteItems, lines |-> {}]

Modest == {Reader, LineReader, Writer, Starved}
Overwriting == {Overwriter}
===============================================================================

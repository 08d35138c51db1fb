----------------------------- MODULE JavaStreams ------------------------------
(***************************************************************************)
(* FILEs over java.io streams: libjava/inputstream-filesystem.c and        *)
(* outputstream-filesystem.c, with the file systems that open them         *)
(* (libmidp/connector-filesystem.c, resource-filesystem.c and              *)
(* libj2se/file.c). What Java serves is a function from paths to bytes.    *)
(* Every position of a FILE is an index in the C code's sense; jpos is     *)
(* where the Java stream itself stands.                                    *)
(***************************************************************************)
EXTENDS Integers, Sequences

CONSTANT Chunk   (* bytes asked of Java in one call: 4096                    *)

ASSUME ChunkAssumption == Chunk \in Nat \ {0}

Smaller(a, b) == IF a < b THEN a ELSE b

InputFile(path, file_size) ==
  [kind |-> "input", path |-> path, fptr |-> 0, vfptr |-> 0, eof |-> FALSE, jpos |-> 0,
   file_size |-> file_size]

OutputFile(path) == [kind |-> "output", path |-> path]

Opens(disk, result, file) == {[disk |-> disk, result |-> result, file |-> file]}

With(disk, path, bytes) ==
  [p \in DOMAIN disk \cup {path} |-> IF p = path THEN bytes ELSE disk[p]]

(* conn_open: a stream to write on, one to read from, or an exception, which *)
(* only the latter's handler catches. The size of what a connector reads is  *)
(* not known.                                                                *)
ConnOpen(disk, path, mode) ==
  CASE mode \in {"WRITE", "APPEND"} ->
         Opens(With(disk, path, <<>>), "file", OutputFile(path)) \cup Opens(disk, "throws", <<>>)
    [] mode = "READ" /\ path \in DOMAIN disk -> Opens(disk, "file", InputFile(path, 0))
    [] mode = "READ" /\ path \notin DOMAIN disk -> Opens(disk, "NULL", <<>>)
    [] OTHER -> Opens(disk, "throws", <<>>)

(* open_file of libj2se: FileOutputStream truncates, even to append, unless  *)
(* the file may not be written.                                              *)
FileOpen(disk, path, mode) ==
  CASE mode \in {"WRITE", "APPEND", "READ_TRUNCATE"} ->
         Opens(With(disk, path, <<>>), "file", OutputFile(path)) \cup Opens(disk, "NULL", <<>>)
    [] mode = "READ" /\ path \in DOMAIN disk -> Opens(disk, "file", InputFile(path, 0))
    [] mode = "READ" /\ path \notin DOMAIN disk -> Opens(disk, "NULL", <<>>)
    [] OTHER -> Opens(disk, "throws", <<>>)

(* res_open: always read-only, whatever the mode. *)
ResOpen(disk, path, mode) ==
  IF path \in DOMAIN disk THEN Opens(disk, "file", InputFile(path, Len(disk[path])))
  ELSE Opens(disk, "NULL", <<>>)

-------------------------------------------------------------------------------
(* InputStream.skip stops at the end, or goes on past it (FileInputStream).  *)
Left(f, content) == IF f.jpos > Len(content) THEN 0 ELSE Len(content) - f.jpos
Skips(f, content, n) == {n, Smaller(n, Left(f, content))}

Skipping(f, content, skip) ==
  {[ok |-> real = skip, file |-> [f EXCEPT !.jpos = @ + real]] : real \in Skips(f, content, skip)}

(* seek, for the position fseek asked for: backwards, the stream is reset    *)
(* and skips from its start. A reset that is not supported throws, and so    *)
(* does a skip that came short, but not before the stream moved.             *)
Seek(f, content) ==
  IF f.vfptr < f.fptr
  THEN Skipping([f EXCEPT !.jpos = 0], content, f.vfptr) \cup {[ok |-> FALSE, file |-> f]}
  ELSE Skipping(f, content, f.vfptr - f.fptr)

(* How many bytes read's loop gets: all, or what is left when the end is met *)
(* first; once that was ever met (nothing clears it), one call to Java is    *)
(* all there is, and it may give less than it has.                           *)
Counts(f, content, size) ==
  LET most == Smaller(size, Left(f, content))
  IN IF ~f.eof THEN {most}
     ELSE IF most = 0 THEN {0} ELSE 1 .. Smaller(most, Chunk)

(* fread on an input stream: what it may do. The end is noticed by the call  *)
(* that gets nothing; a call that throws loses what those before it got, and *)
(* the FILE does not know how far the stream is.                             *)
InputRead(f, content, size) ==
  LET sought == IF f.fptr = f.vfptr THEN {[ok |-> TRUE, file |-> f]} ELSE Seek(f, content)
      Got(g, n) ==
        [ok |-> TRUE, bytes |-> SubSeq(content, g.jpos + 1, g.jpos + n),
         file |-> [g EXCEPT !.fptr = g.vfptr + n, !.vfptr = @ + n, !.jpos = @ + n,
                            !.eof = @ \/ n < size]]
      Threw(g) == [ok |-> FALSE, bytes |-> <<>>, file |-> g]
      Broke(g, n) == Threw([g EXCEPT !.fptr = g.vfptr, !.jpos = @ + n])
  IN UNION {IF s.ok
            THEN {Got(s.file, n) : n \in Counts(s.file, content, size)}
                   \cup {Broke(s.file, n) : n \in 0 .. Smaller(size - 1, Left(s.file, content))}
            ELSE {Threw(s.file)} : s \in sought}

(* fwrite on an output stream: byte after byte, to where it stands; any may  *)
(* be the one that throws.                                                   *)
OutputWritten(disk, f, bytes) ==
  LET Stored(n) == [disk EXCEPT ![f.path] = @ \o SubSeq(bytes, 1, n)]
  IN {[disk |-> Stored(Len(bytes)), ok |-> TRUE]}
       \cup {[disk |-> Stored(n), ok |-> FALSE] : n \in 0 .. Len(bytes) - 1}
===============================================================================

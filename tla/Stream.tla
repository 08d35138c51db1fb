-------------------------------- MODULE Stream --------------------------------
(***************************************************************************)
(* The FILE of the C library (libcrt0/fileops.c) on top of a memory file   *)
(* (libcrt0/memory-filesystem.c). Pure operators: each takes the FILE and  *)
(* returns the FILE the call leaves, the bytes it moved and its result.    *)
(***************************************************************************)
EXTENDS Integers, Sequences

CONSTANTS
  Bytes,         (* values of a byte                                        *)
  NUL,           (* the byte zero                                           *)
  NL,            (* the byte that ends a line                               *)
  Junk,          (* what memory nobody wrote, or a char nobody set, holds   *)
  NoLine,        (* the NULL that fgets returns                             *)
  Slack,         (* bytes allocated beyond a file's need: 4096              *)
  Word           (* 2 to the width of size_t                                *)

ASSUME StreamAssumption ==
  /\ {NUL, NL} \subseteq Bytes
  /\ Junk \notin Bytes
  /\ NoLine \notin Seq(Bytes \cup {Junk})
  /\ Slack \in Nat /\ Word \in Nat /\ Word > 0

Least(a, b) == IF a < b THEN a ELSE b
Greatest(a, b) == IF a > b THEN a ELSE b

(* A value computed as size_t, and the long that holds its bits. *)
Unsigned(n) == n % Word
Signed(n) == IF Unsigned(n) < Word \div 2 THEN Unsigned(n) ELSE Unsigned(n) - Word

(* NOPH_MemoryFile_open(NULL, ...) and NOPH_MemoryFile_open(s, Len(s), ...). *)
OpenedEmpty ==
  [data |-> [i \in 0 .. Slack - 1 |-> Junk], allocated_size |-> Slack, file_size |-> 0,
   fptr |-> 0, vfptr |-> 0, eof |-> FALSE]

OpenedOn(s) ==
  [data |-> [i \in 0 .. Len(s) - 1 |-> s[i + 1]], allocated_size |-> Len(s),
   file_size |-> Len(s), fptr |-> 0, vfptr |-> 0, eof |-> FALSE]

(* The file's bytes; data is empty after a realloc that failed.              *)

Content(f) == [i \in 1 .. f.file_size |-> IF i - 1 \in DOMAIN f.data THEN f.data[i - 1]
                                                                     ELSE Junk]

Returned(f, bytes, ret) == [file |-> f, bytes |-> bytes, ret |-> ret]

-------------------------------------------------------------------------------
(* memory-filesystem.c *)

(* Mutant: the last byte is not counted as left. *)
ReadOneLess(f, in_size) ==
  LET size == Least(in_size, Greatest(0, f.file_size - f.fptr - 1))
  IN Returned([f EXCEPT !.eof = @ \/ size = 0],
              [i \in 1 .. size |-> f.data[f.fptr + i - 1]], size)

(* Mutant: the end of the file is not looked at. *)
ReadUnbounded(f, in_size) ==
  LET At(i) == IF i \in DOMAIN f.data THEN f.data[i] ELSE Junk
  IN Returned([f EXCEPT !.eof = @ \/ f.fptr >= f.file_size],
              [i \in 1 .. in_size |-> At(f.fptr + i - 1)], in_size)

(* read: what is left is a size_t, so that past the end it is huge. The end  *)
(* of the file is noticed by the read that starts there.                     *)
Read(f, in_size) ==
  LET size == Least(in_size, Unsigned(f.file_size - f.fptr))
      At(i) == IF i \in DOMAIN f.data THEN f.data[i] ELSE Junk
  IN Returned([f EXCEPT !.eof = @ \/ Unsigned(f.fptr) >= f.file_size],
              [i \in 1 .. size |-> At(f.fptr + i - 1)], size)

(* data, made n bytes long, with bytes stored at at. A file that has lost    *)
(* its data and need not grow is stored at the start of memory instead.      *)
StoredOver(data, n, at, bytes) ==
  [i \in 0 .. n - 1 |-> IF i \in at .. at + Len(bytes) - 1 THEN bytes[i - at + 1]
                        ELSE IF i \in DOMAIN data THEN data[i] ELSE Junk]

(* Mutants: the file ends where the write does; it grows within its memory. *)
WriteEnds(f, bytes) ==
  LET new_size == f.fptr + Len(bytes)
      allocated == IF new_size > f.allocated_size THEN new_size + Slack ELSE f.allocated_size
  IN Returned([f EXCEPT !.data = StoredOver(@, allocated, f.fptr, bytes),
                        !.allocated_size = allocated, !.file_size = new_size],
              <<>>, Len(bytes))

WriteInPlace(f, bytes) ==
  Returned([f EXCEPT !.data = StoredOver(@, f.allocated_size, f.fptr, bytes),
                     !.file_size = Greatest(f.fptr + Len(bytes), @)],
           <<>>, Len(bytes))

(* write, with the memory it needs *)
Write(f, bytes) ==
  LET new_size == Greatest(f.fptr + Len(bytes), f.file_size)
      grows == new_size > f.allocated_size
      allocated == IF grows THEN new_size + Slack ELSE f.allocated_size
  IN Returned([f EXCEPT !.data = IF DOMAIN @ = {} /\ ~grows THEN @
                                 ELSE StoredOver(@, allocated, f.fptr, bytes),
                        !.allocated_size = allocated,
                        !.file_size = new_size,
                        !.eof = @ /\ ~grows],
              <<>>, Len(bytes))

(* Mutant: the failure is not reported. *)
WriteFailsSilently(f, bytes) ==
  Returned([f EXCEPT !.data = [i \in {} |-> Junk]], <<>>, Len(bytes))

(* write, when realloc fails: the data is gone, -1 is returned as a size_t.  *)
WriteFails(f, bytes) ==
  Returned([f EXCEPT !.data = [i \in {} |-> Junk]], <<>>, Unsigned(-1))

Grows(f, bytes) == Greatest(f.fptr + Len(bytes), f.file_size) > f.allocated_size

-------------------------------------------------------------------------------
(* fileops.c *)

Moved(f, n) == LET p == Signed(f.fptr + n) IN [f EXCEPT !.fptr = p, !.vfptr = p]

(* Mutant: the virtual file pointer is not moved. *)
FreadUnmoved(f, in_size, nmemb) ==
  LET r == Read([f EXCEPT !.fptr = f.vfptr], in_size * nmemb)
  IN Returned([r.file EXCEPT !.fptr = @ + r.ret], r.bytes, r.ret)

(* fread: a pending seek is done first. *)
Fread(f, in_size, nmemb) ==
  LET r == Read([f EXCEPT !.fptr = f.vfptr], in_size * nmemb)
  IN IF in_size * nmemb = 0 THEN Returned(f, <<>>, 0)
     ELSE Returned(Moved(r.file, r.ret), r.bytes, r.ret \div in_size)

(* fwrite: the file pointers move by the items written. *)
Fwritten(f, w, in_size) ==
  LET ret == w.ret \div in_size IN Returned(Moved(w.file, ret), w.bytes, ret)

Fwrite(f, in_size, bytes) ==
  IF bytes = <<>> THEN Returned(f, <<>>, 0) ELSE Fwritten(f, Write(f, bytes), in_size)

FwriteFails(f, in_size, bytes) == Fwritten(f, WriteFails(f, bytes), in_size)

Whences == {"SEEK_SET", "SEEK_CUR", "SEEK_END"}

(* fseek moves the virtual file pointer alone. *)
Sought(f, offset, whence) ==
  CASE whence = "SEEK_SET" -> offset
    [] whence = "SEEK_CUR" -> f.vfptr + offset
    [] whence = "SEEK_END" -> f.file_size + offset

Fseek(f, offset, whence) ==
  Returned([f EXCEPT !.vfptr = Sought(f, offset, whence)], <<>>, 0)

Clearerr(f) == Returned([f EXCEPT !.eof = FALSE], <<>>, 0)

(* fgetc: the char is not set when nothing was read. *)
Fgetc(f) ==
  LET r == Fread(f, 1, 1) IN Returned(r.file, r.bytes, IF r.bytes = <<>> THEN Junk ELSE r.bytes[1])

(* fputc writes the first byte of the int c, the most significant one: the   *)
(* program is big-endian and c is a char.                                    *)
FirstByteOf(c) == NUL

Fputc(f, c) == Fwrite(f, 1, <<FirstByteOf(c)>>)

(* __fputs: one write for each char of a string. *)
Fputs(f, s) ==
  LET put[n \in 0 .. Len(s)] ==
        IF n = 0 THEN f ELSE Fwrite(put[n - 1], 1, <<s[n]>>).file
  IN Returned(put[Len(s)], <<>>, Len(s))

(* The first n chars of fgets. *)
NoChar(f) == [file |-> f, line |-> <<>>, ends |-> FALSE, null |-> FALSE]

(* Mutant: a line that meets the end of the file is not returned. *)
NextCharOrNull(before, n) ==
  LET r == Fgetc(before.file)
  IN IF before.ends THEN before
     ELSE [file |-> r.file,
           line |-> IF r.file.eof THEN before.line ELSE Append(before.line, r.ret),
           ends |-> r.file.eof \/ r.ret \in {NUL, NL}, null |-> r.file.eof]

(* A line ends with its zero or newline; one that meets the end of the file  *)
(* stays short, and NULL is returned when the first char meets it.           *)
NextChar(before, n) ==
  LET r == Fgetc(before.file)
  IN IF before.ends THEN before
     ELSE IF r.file.eof
     THEN [file |-> r.file, line |-> before.line, ends |-> TRUE, null |-> n = 1]
     ELSE [file |-> r.file, line |-> Append(before.line, r.ret),
           ends |-> r.ret \in {NUL, NL}, null |-> FALSE]

(* fgets: up to size chars and then a zero. The result is NULL or the chars  *)
(* before the final zero.                                                    *)
Fgets(f, size) ==
  LET got[n \in 0 .. size] == IF n = 0 THEN NoChar(f) ELSE NextChar(got[n - 1], n)
      g == got[size]
  IN Returned(g.file, g.line, IF g.null THEN NoLine ELSE g.line)
===============================================================================

-------------------------------- MODULE Cibar ---------------------------------
(***************************************************************************)
(* The archives that tools/cibyl-generate-cibar packs and libcibar/cibar.c *)
(* opens. A word of the archive's header, a name, the NUL behind it and a  *)
(* byte of data each count as one element here, so that the header is 6    *)
(* long, an entry 3 and a name with its NUL 2.                             *)
(***************************************************************************)
EXTENDS Integers, Sequences

CONSTANTS
  MAGIC,           (* 0x12344321                                            *)
  Zero             (* the NUL behind a name                                 *)

HeaderSize == 6
EntrySize == 3
NameSize == 2

(* The first n of a sequence of sequences, one behind the other. *)
Joined(s, n) ==
  LET upto[i \in 0 .. n] == IF i = 0 THEN <<>> ELSE upto[i - 1] \o s[i] IN upto[n]

(* datatab: where the data of the i-th file begins. *)
DataOffset(members, i) == Len(Joined([j \in DOMAIN members |-> members[j].bytes], i - 1))

(* The archive of the members, a sequence of [name, bytes].                  *)
Packed(members) ==
  LET n == Len(members)
      entries == [i \in 1 .. n |->
                    <<NameSize * (i - 1), DataOffset(members, i), Len(members[i].bytes)>>]
      strtab == Joined([i \in 1 .. n |-> <<members[i].name, Zero>>], n)
      data == Joined([i \in 1 .. n |-> members[i].bytes], n)
      total_size == HeaderSize + EntrySize * n + Len(strtab) + Len(data)
  IN <<MAGIC, total_size, Len(strtab), Len(data), n, total_size - Len(data)>>
       \o Joined(entries, n) \o strtab \o data

(* cibar_open, of what the FILE holds: the header, the entries, the string   *)
(* table and the data are read one after the other, and none may be short;   *)
(* the sequence of cibar_file_entry_t, or NULL.                              *)
Files(file, NULL) ==
  LET header == SubSeq(file, 1, HeaderSize)
      strtab_at == HeaderSize + EntrySize * header[5]
      data_at == strtab_at + header[3]
      Field(i, k) == file[HeaderSize + EntrySize * (i - 1) + k]
  IN IF Len(file) < HeaderSize \/ header[1] # MAGIC THEN NULL
     ELSE IF Len(file) < data_at + header[4] THEN NULL
     ELSE [i \in 1 .. header[5] |->
             [name |-> file[strtab_at + Field(i, 1) + 1],
              data |-> SubSeq(file, data_at + Field(i, 2) + 1,
                              data_at + Field(i, 2) + Field(i, 3))]]

(* cibar_file_open: the entry of that name, or 0. *)
EntryOf(files, name) ==
  LET found == {i \in DOMAIN files : files[i].name = name}
  IN IF found = {} THEN 0 ELSE CHOOSE i \in found : \A j \in found : i <= j
===============================================================================

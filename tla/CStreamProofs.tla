---------------------------- MODULE CStreamProofs -----------------------------
(***************************************************************************)
(* The C streams on a memory file keep their pointers inside the data and  *)
(* implement ByteStream, for every byte set, size and slack.               *)
(***************************************************************************)
EXTENDS CStream, SequenceTheorems, WellFoundedInduction, TLAPS

Cells == Bytes \cup {Junk}

(* A FILE whose memory is there, with its pointers inside its data.          *)
Whole(f) ==
  /\ f = [data |-> f.data, allocated_size |-> f.allocated_size, file_size |-> f.file_size,
          fptr |-> f.fptr, vfptr |-> f.vfptr, eof |-> f.eof]
  /\ f.allocated_size \in Nat
  /\ f.file_size \in 0 .. f.allocated_size /\ f.file_size <= MaxSize
  /\ f.fptr \in 0 .. f.file_size /\ f.vfptr \in 0 .. f.file_size
  /\ f.data \in [0 .. f.allocated_size - 1 -> Cells]
  /\ f.eof \in BOOLEAN

(* Positions in a file are not changed by the arithmetic of size_t and long. *)
LEMMA SizesFit ==
  /\ MaxSize \in Nat /\ Word \in Nat /\ Word \div 2 \in Nat /\ MaxSize < Word
  /\ \A n \in 0 .. MaxSize : Unsigned(n) = n /\ Signed(n) = n
<1>1. MaxSize \in Nat /\ Word \in Nat /\ Word > 0 /\ MaxSize < Word \div 2
  BY CStreamAssumption, StreamAssumption DEF CStreamAssumption, StreamAssumption
<1>2. Word \div 2 \in Nat /\ Word \div 2 <= Word
  BY <1>1
<1>3. ASSUME NEW n \in 0 .. MaxSize PROVE n % Word = n
  <2>1. n \in Nat /\ n < Word
    BY <1>1, <1>2
  <2> QED BY <1>1, <2>1
<1> QED BY <1>1, <1>2, <1>3 DEF Unsigned, Signed

LEMMA ContentIs ==
  ASSUME NEW f, Whole(f)
  PROVE  /\ Content(f) \in Seq(Cells) /\ Len(Content(f)) = f.file_size
         /\ \A i \in 1 .. f.file_size : Content(f)[i] = f.data[i - 1]
<1>1. f.file_size \in Nat /\ \A i \in 1 .. f.file_size : i - 1 \in DOMAIN f.data /\ f.data[i - 1] \in Cells
  BY DEF Whole
<1>2. Content(f) = [i \in 1 .. f.file_size |-> f.data[i - 1]]
  BY <1>1 DEF Content
<1>3. Content(f) \in [1 .. f.file_size -> Cells]
  BY <1>1, <1>2
<1>4. Content(f) \in Seq(Cells)
  BY <1>1, <1>3, SeqDef
<1>5. Len(Content(f)) = f.file_size
  BY <1>1, <1>3, <1>4, LenProperties
<1> QED BY <1>1, <1>2, <1>4, <1>5

-------------------------------------------------------------------------------
(* What a read of up to n bytes delivers and leaves.                         *)
Delivered(f, n) == SubSeq(Content(f), f.vfptr + 1, f.vfptr + n)

ReadFrom(f, r) ==
  /\ Whole(r.file)
  /\ Content(r.file) = Content(f) /\ r.file.file_size = f.file_size
  /\ r.bytes \in Seq(Cells) /\ Len(r.bytes) <= f.file_size - f.vfptr
  /\ r.bytes = Delivered(f, Len(r.bytes))
  /\ r.file.vfptr = f.vfptr + Len(r.bytes)
  /\ f.fptr = f.vfptr => r.file.fptr = r.file.vfptr

LEMMA DeliveredIs ==
  ASSUME NEW f, Whole(f), NEW n \in 0 .. f.file_size - f.vfptr
  PROVE  /\ Delivered(f, n) \in Seq(Cells) /\ Len(Delivered(f, n)) = n
         /\ Delivered(f, n) = [i \in 1 .. n |-> f.data[f.vfptr + i - 1]]
<1> DEFINE C == Content(f)
           v == f.vfptr
           a == v + 1
           b == v + n
           s == SubSeq(C, a, b)
<1>1. v \in Nat /\ n \in Nat /\ f.file_size \in Nat /\ v + n <= f.file_size
  BY DEF Whole
<1>2. C \in Seq(Cells) /\ Len(C) = f.file_size /\ \A i \in 1 .. f.file_size : C[i] = f.data[i - 1]
  BY ContentIs
<1>3. s = Delivered(f, n)
  BY DEF Delivered
<1> HIDE DEF C, v
<1>4. \A i \in a .. b : C[i] \in Cells
  <2> SUFFICES ASSUME NEW i \in a .. b PROVE C[i] \in Cells
    OBVIOUS
  <2>1. i \in 1 .. Len(C)
    BY <1>1, <1>2
  <2> QED BY <2>1, <1>2, ElementOfSeq
<1>5. a \in Int /\ b \in Int
  BY <1>1
<1> HIDE DEF a, b
<1>6. /\ s \in Seq(Cells)
      /\ Len(s) = IF a <= b THEN b - a + 1 ELSE 0
      /\ \A i \in 1 .. b - a + 1 : s[i] = C[a + i - 1]
  BY <1>4, <1>5, SubSeqProperties
<1> HIDE DEF s
<1>7. Len(s) = n
  BY <1>1, <1>6 DEF a, b
<1>8. \A i \in 1 .. n : s[i] = f.data[v + i - 1]
  <2> SUFFICES ASSUME NEW i \in 1 .. n PROVE s[i] = f.data[v + i - 1]
    OBVIOUS
  <2>1. i \in 1 .. b - a + 1 /\ a + i - 1 \in 1 .. f.file_size /\ (a + i - 1) - 1 = v + i - 1
    BY <1>1 DEF a, b
  <2>2. s[i] = C[a + i - 1]
    BY <2>1, <1>6
  <2>3. C[a + i - 1] = f.data[(a + i - 1) - 1]
    BY <2>1, <1>2
  <2> QED BY <2>1, <2>2, <2>3
<1>9. s = [i \in 1 .. n |-> s[i]]
  BY <1>6, <1>7, LenProperties
<1>10. s = [i \in 1 .. n |-> f.data[v + i - 1]]
  BY <1>8, <1>9
<1> QED BY <1>3, <1>6, <1>7, <1>10 DEF v

(* read delivers what is left, up to the count, and notices the end.         *)
LEMMA ReadIs ==
  ASSUME NEW f, Whole(f), f.fptr = f.vfptr, NEW n \in Nat
  PROVE  LET size == Least(n, f.file_size - f.vfptr)
             r == Read(f, n)
         IN /\ size \in 0 .. f.file_size - f.vfptr
            /\ r = Returned([f EXCEPT !.eof = f.eof \/ f.vfptr = f.file_size],
                            Delivered(f, size), size)
<1> DEFINE size == Least(n, f.file_size - f.vfptr)
<1>1. /\ f.file_size \in 0 .. MaxSize /\ f.vfptr \in 0 .. f.file_size /\ MaxSize \in Nat
      /\ f.file_size - f.vfptr \in 0 .. MaxSize /\ f.vfptr \in 0 .. MaxSize
  BY SizesFit DEF Whole
<1>2. Unsigned(f.file_size - f.fptr) = f.file_size - f.vfptr /\ Unsigned(f.fptr) = f.vfptr
  BY <1>1, SizesFit
<1>3. size \in 0 .. f.file_size - f.vfptr
  BY <1>1 DEF Least
<1>4. (Unsigned(f.fptr) >= f.file_size) <=> f.vfptr = f.file_size
  BY <1>1, <1>2
<1> HIDE DEF size
<1>5. Delivered(f, size) = [i \in 1 .. size |-> f.data[f.vfptr + i - 1]]
  BY <1>3, DeliveredIs
<1>6. \A i \in 1 .. size : f.fptr + i - 1 \in DOMAIN f.data
  BY <1>1, <1>3 DEF Whole
<1>7. Read(f, n) = Returned([f EXCEPT !.eof = @ \/ Unsigned(f.fptr) >= f.file_size],
                            [i \in 1 .. size |-> f.data[f.fptr + i - 1]], size)
  <2>1. Read(f, n) =
          Returned([f EXCEPT !.eof = @ \/ Unsigned(f.fptr) >= f.file_size],
                   [i \in 1 .. size |-> IF f.fptr + i - 1 \in DOMAIN f.data THEN f.data[f.fptr + i - 1] ELSE Junk],
                   size)
    BY <1>2 DEF Read, size
  <2> QED BY <2>1, <1>6
<1> QED BY <1>3, <1>4, <1>5, <1>7 DEF size

LEMMA MovedIs ==
  ASSUME NEW f, NEW n, f.fptr + n \in 0 .. MaxSize
  PROVE  Moved(f, n) = [f EXCEPT !.fptr = f.fptr + n, !.vfptr = f.fptr + n]
<1>1. Signed(f.fptr + n) = f.fptr + n
  BY SizesFit
<1> QED BY <1>1 DEF Moved

(* A pending seek is done: the file pointer is where the virtual one is.     *)
LEMMA SoughtIs ==
  ASSUME NEW f, Whole(f)
  PROVE  LET g == [f EXCEPT !.fptr = f.vfptr]
         IN /\ Whole(g) /\ g.fptr = g.vfptr /\ g.vfptr = f.vfptr /\ g.file_size = f.file_size
            /\ g.eof = f.eof /\ Content(g) = Content(f)
            /\ \A n : Delivered(g, n) = Delivered(f, n)
<1> DEFINE g == [f EXCEPT !.fptr = f.vfptr]
<1>1. g = [data |-> f.data, allocated_size |-> f.allocated_size, file_size |-> f.file_size,
           fptr |-> f.vfptr, vfptr |-> f.vfptr, eof |-> f.eof]
  BY DEF Whole
<1> HIDE DEF g
<1>2. /\ g.data = f.data /\ g.allocated_size = f.allocated_size /\ g.file_size = f.file_size
      /\ g.fptr = f.vfptr /\ g.vfptr = f.vfptr /\ g.eof = f.eof
  BY <1>1
<1>3. Whole(g)
  BY <1>1, <1>2 DEF Whole
<1>4. Content(g) = Content(f)
  BY <1>2 DEF Content
<1> QED BY <1>2, <1>3, <1>4 DEF Delivered, g

(* fread reads from where the stream stands. It notices the end only there,  *)
(* and never forgets it.                                                     *)
LEMMA FreadReads ==
  ASSUME NEW f, Whole(f), NEW k \in Nat \ {0}, NEW m \in Nat
  PROVE  LET r == Fread(f, k, m)
         IN /\ ReadFrom(f, r)
            /\ Len(r.bytes) = Least(k * m, f.file_size - f.vfptr)
            /\ m # 0 => (r.file.eof <=> f.eof \/ f.vfptr = f.file_size)
            /\ m = 0 => r.file = f
<1> DEFINE n == k * m
           g == [f EXCEPT !.fptr = f.vfptr]
           size == Least(n, f.file_size - f.vfptr)
           r == Fread(f, k, m)
<1>1. n \in Nat /\ (n = 0 <=> m = 0)
  BY SMTT(30)
<1>2. /\ f.file_size \in 0 .. MaxSize /\ f.vfptr \in 0 .. f.file_size /\ MaxSize \in Nat
  BY SizesFit DEF Whole
<1>3. CASE n = 0
  <2>1. r = Returned(f, <<>>, 0)
    BY <1>3 DEF Fread
  <2>2. r.file = f /\ r.bytes = <<>>
    BY <2>1 DEF Returned
  <2>3. size = 0
    BY <1>2, <1>3 DEF Least
  <2>4. Delivered(f, 0) = <<>> /\ Len(<<>>) = 0 /\ <<>> \in Seq(Cells)
    BY <1>2, SubSeqEmpty, EmptySeq DEF Delivered
  <2> HIDE DEF r, size, n
  <2> QED BY <1>1, <1>2, <1>3, <2>2, <2>3, <2>4 DEF ReadFrom, n, r, size
<1>4. CASE n # 0
  <2> DEFINE q == Read(g, n)
             s == size
  <2>1. /\ Whole(g) /\ g.fptr = g.vfptr /\ g.vfptr = f.vfptr /\ g.file_size = f.file_size
        /\ g.eof = f.eof /\ Content(g) = Content(f)
        /\ \A i : Delivered(g, i) = Delivered(f, i)
    BY SoughtIs
  <2> HIDE DEF g
  <2>2. /\ size \in 0 .. f.file_size - f.vfptr
        /\ q = Returned([g EXCEPT !.eof = g.eof \/ g.vfptr = g.file_size],
                        Delivered(g, size), size)
    BY <1>1, <2>1, ReadIs
  <2>3. r = Returned(Moved(q.file, q.ret), q.bytes, q.ret \div k)
    BY <1>4 DEF Fread, g
  <2> HIDE DEF q, n, size
  <2> DEFINE h == q.file
             p == f.vfptr + size
  <2>4. /\ h = [g EXCEPT !.eof = f.eof \/ f.vfptr = f.file_size]
        /\ q.bytes = Delivered(f, size) /\ q.ret = size
    BY <2>1, <2>2 DEF Returned
  <2> HIDE DEF h
  <2>5. h = [data |-> g.data, allocated_size |-> g.allocated_size, file_size |-> g.file_size,
             fptr |-> g.fptr, vfptr |-> g.vfptr, eof |-> f.eof \/ f.vfptr = f.file_size]
    BY <2>1, <2>4 DEF Whole
  <2>6. p \in 0 .. f.file_size /\ p \in 0 .. MaxSize
    BY <1>2, <2>2
  <2>7. h.fptr = f.vfptr
    BY <2>1, <2>5
  <2>8. Moved(h, size) = [h EXCEPT !.fptr = p, !.vfptr = p]
    BY <2>6, <2>7, MovedIs
  <2>9. r.file = [data |-> g.data, allocated_size |-> g.allocated_size, file_size |-> g.file_size,
                  fptr |-> p, vfptr |-> p, eof |-> f.eof \/ f.vfptr = f.file_size]
    <3>1. r.file = Moved(h, size)
      BY <2>3, <2>4 DEF h, Returned
    <3> HIDE DEF r, p
    <3> QED BY <3>1, <2>5, <2>8
  <2>10. r.bytes = Delivered(f, size)
    BY <2>3, <2>4 DEF Returned
  <2> HIDE DEF r, p
  <2>11. /\ r.file.data = g.data /\ r.file.allocated_size = g.allocated_size
         /\ r.file.file_size = g.file_size /\ r.file.fptr = p /\ r.file.vfptr = p
         /\ r.file.eof = (f.eof \/ f.vfptr = f.file_size)
    BY <2>9
  <2>12. Whole(r.file)
    BY <2>1, <2>6, <2>9, <2>11 DEF Whole
  <2>13. Content(r.file) = Content(f)
    BY <2>1, <2>11 DEF Content
  <2>14. r.bytes \in Seq(Cells) /\ Len(r.bytes) = size
    BY <2>2, <2>10, DeliveredIs
  <2>15. ReadFrom(f, r)
    BY <1>2, <2>1, <2>2, <2>10, <2>11, <2>12, <2>13, <2>14 DEF ReadFrom, p
  <2>16. r.file.eof <=> f.eof \/ f.vfptr = f.file_size
    BY <2>11
  <2> QED BY <1>1, <1>4, <2>14, <2>15, <2>16 DEF size, n, r
<1> QED BY <1>3, <1>4

(* fgetc reads one char.                                                     *)
LEMMA FgetcReads ==
  ASSUME NEW f, Whole(f)
  PROVE  LET r == Fgetc(f)
         IN /\ ReadFrom(f, r)
            /\ r.file.eof <=> f.eof \/ f.vfptr = f.file_size
            /\ f.vfptr = f.file_size => r.bytes = <<>>
            /\ f.vfptr # f.file_size => r.bytes = <<r.ret>> /\ r.ret \in Cells
<1> DEFINE q == Fread(f, 1, 1)
           r == Fgetc(f)
<1>1. /\ f.file_size \in 0 .. MaxSize /\ f.vfptr \in 0 .. f.file_size /\ MaxSize \in Nat
  BY SizesFit DEF Whole
<1>2. /\ ReadFrom(f, q)
      /\ Len(q.bytes) = Least(1 * 1, f.file_size - f.vfptr)
      /\ q.file.eof <=> f.eof \/ f.vfptr = f.file_size
  <2>1. 1 \in Nat \ {0} /\ 1 \in Nat /\ 1 # 0
    OBVIOUS
  <2> QED BY <2>1, FreadReads
<1>3. /\ r.file = q.file /\ r.bytes = q.bytes
      /\ r.ret = IF q.bytes = <<>> THEN Junk ELSE q.bytes[1]
  BY DEF Fgetc, Returned
<1> HIDE DEF q, r
<1>4. q.bytes \in Seq(Cells)
  BY <1>2 DEF ReadFrom
<1>5. f.vfptr = f.file_size => q.bytes = <<>>
  <2>1. f.vfptr = f.file_size => Len(q.bytes) = 0
    BY <1>1, <1>2 DEF Least
  <2> QED BY <2>1, <1>4, EmptySeq
<1>6. f.vfptr # f.file_size => Len(q.bytes) = 1
  BY <1>1, <1>2 DEF Least
<1>7. Len(q.bytes) = 1 => q.bytes # <<>> /\ q.bytes = <<q.bytes[1]>> /\ q.bytes[1] \in Cells
  <2> SUFFICES ASSUME Len(q.bytes) = 1 PROVE q.bytes # <<>> /\ q.bytes = <<q.bytes[1]>> /\ q.bytes[1] \in Cells
    OBVIOUS
  <2>1. q.bytes \in [1 .. 1 -> Cells]
    BY <1>4, LenProperties
  <2>2. q.bytes[1] \in Cells
    BY <2>1
  <2>3. <<q.bytes[1]>> \in Seq(Cells) /\ Len(<<q.bytes[1]>>) = 1 /\ <<q.bytes[1]>>[1] = q.bytes[1]
    BY <2>2
  <2>4. q.bytes = <<q.bytes[1]>>
    BY <1>4, <2>3, SeqEqual
  <2>5. q.bytes # <<>>
    BY EmptySeq
  <2> QED BY <2>2, <2>4, <2>5
<1>8. ReadFrom(f, r)
  BY <1>2, <1>3 DEF ReadFrom
<1> QED BY <1>2, <1>3, <1>5, <1>6, <1>7, <1>8 DEF r

-------------------------------------------------------------------------------
(* A content after bytes were written at position p. *)
Overwritten(C, p, bytes) ==
  [i \in 1 .. Greatest(p + Len(bytes), Len(C)) |->
     IF i \in p + 1 .. p + Len(bytes) THEN bytes[i - p] ELSE C[i]]

(* write stores the bytes at the file pointer and grows the file as needed.  *)
Wrote(f, bytes, g) ==
  /\ Whole(g)
  /\ g.file_size = Greatest(f.fptr + Len(bytes), f.file_size)
  /\ Content(g) = Overwritten(Content(f), f.fptr, bytes)
  /\ g.eof => f.eof

LEMMA WriteStores ==
  ASSUME NEW f, Whole(f), NEW bytes \in Seq(Bytes), bytes # <<>>,
         f.fptr + Len(bytes) <= MaxSize
  PROVE  /\ Wrote(f, bytes, Write(f, bytes).file)
         /\ Write(f, bytes).file.fptr = f.fptr /\ Write(f, bytes).file.vfptr = f.vfptr
         /\ Write(f, bytes).bytes = <<>> /\ Write(f, bytes).ret = Len(bytes)
<1> DEFINE n == Len(bytes)
           new_size == Greatest(f.fptr + n, f.file_size)
           grows == new_size > f.allocated_size
           allocated == IF grows THEN new_size + Slack ELSE f.allocated_size
           w == Write(f, bytes)
           g == w.file
           data == IF DOMAIN f.data = {} /\ ~grows THEN f.data
                   ELSE StoredOver(f.data, allocated, f.fptr, bytes)
<1>1. /\ n \in Nat \ {0} /\ DOMAIN bytes = 1 .. n /\ \A i \in 1 .. n : bytes[i] \in Bytes
  BY EmptySeq, LenProperties, ElementOfSeq
<1>2. /\ f.file_size \in 0 .. f.allocated_size /\ f.fptr \in 0 .. f.file_size
      /\ f.vfptr \in 0 .. f.file_size /\ f.file_size <= MaxSize
      /\ MaxSize \in Nat /\ f.allocated_size \in Nat /\ Slack \in Nat
      /\ f.data \in [0 .. f.allocated_size - 1 -> Cells] /\ f.eof \in BOOLEAN
  BY SizesFit, StreamAssumption DEF Whole, StreamAssumption
<1> HIDE DEF n
<1>3. /\ new_size \in 1 .. MaxSize /\ f.fptr + n <= new_size /\ f.file_size <= new_size
      /\ new_size = f.fptr + n \/ new_size = f.file_size
  BY <1>1, <1>2 DEF Greatest, n
<1> HIDE DEF new_size
<1>4. /\ allocated \in Nat /\ new_size <= allocated /\ f.allocated_size <= allocated
  BY <1>2, <1>3
<1>5. ~(DOMAIN f.data = {} /\ ~grows)
  <2> SUFFICES ASSUME ~grows PROVE DOMAIN f.data # {}
    OBVIOUS
  <2>1. 0 \in 0 .. f.allocated_size - 1
    BY <1>2, <1>3
  <2> QED BY <2>1, <1>2
<1>6. data = StoredOver(f.data, allocated, f.fptr, bytes)
  BY <1>5
<1>7. w = Returned([f EXCEPT !.data = data, !.allocated_size = allocated,
                             !.file_size = new_size, !.eof = f.eof /\ ~grows],
                   <<>>, n)
  BY DEF Write, n, new_size
<1> HIDE DEF allocated, grows, w, data
<1>8. g = [data |-> data, allocated_size |-> allocated, file_size |-> new_size,
           fptr |-> f.fptr, vfptr |-> f.vfptr, eof |-> f.eof /\ ~grows]
      /\ w.bytes = <<>> /\ w.ret = n
  <2>1. f = [data |-> f.data, allocated_size |-> f.allocated_size, file_size |-> f.file_size,
             fptr |-> f.fptr, vfptr |-> f.vfptr, eof |-> f.eof]
    BY DEF Whole
  <2>2. g = [f EXCEPT !.data = data, !.allocated_size = allocated,
                      !.file_size = new_size, !.eof = f.eof /\ ~grows]
        /\ w.bytes = <<>> /\ w.ret = n
    BY <1>7 DEF Returned
  <2> HIDE DEF g
  <2> QED BY <2>1, <2>2
<1> HIDE DEF g
<1>9. data = [i \in 0 .. allocated - 1 |->
                IF i \in f.fptr .. f.fptr + n - 1 THEN bytes[i - f.fptr + 1]
                ELSE IF i \in DOMAIN f.data THEN f.data[i] ELSE Junk]
  BY <1>6 DEF StoredOver, n
<1>10. data \in [0 .. allocated - 1 -> Cells]
  <2> SUFFICES ASSUME NEW i \in 0 .. allocated - 1
               PROVE (IF i \in f.fptr .. f.fptr + n - 1 THEN bytes[i - f.fptr + 1]
                      ELSE IF i \in DOMAIN f.data THEN f.data[i] ELSE Junk) \in Cells
    BY <1>9
  <2>1. CASE i \in f.fptr .. f.fptr + n - 1
    <3>1. i - f.fptr + 1 \in 1 .. n
      BY <1>1, <1>2, <2>1, SMTT(40)
    <3> QED BY <3>1, <2>1, <1>1 DEF Cells
  <2>2. CASE i \notin f.fptr .. f.fptr + n - 1
    BY <2>2, <1>2 DEF Cells
  <2> QED BY <2>1, <2>2
<1>11. /\ g.data = data /\ g.allocated_size = allocated /\ g.file_size = new_size
       /\ g.fptr = f.fptr /\ g.vfptr = f.vfptr /\ g.eof = (f.eof /\ ~grows)
  BY <1>8
<1>12. Whole(g)
  <2>1. /\ new_size \in 0 .. allocated /\ new_size <= MaxSize
        /\ f.fptr \in 0 .. new_size /\ f.vfptr \in 0 .. new_size
    BY <1>2, <1>3, <1>4
  <2>2. (f.eof /\ ~grows) \in BOOLEAN
    OBVIOUS
  <2> QED BY <2>1, <2>2, <1>4, <1>8, <1>10, <1>11 DEF Whole
<1>13. Content(g) = Overwritten(Content(f), f.fptr, bytes)
  <2> DEFINE C == Content(f)
             D == Content(g)
  <2>1. /\ C \in Seq(Cells) /\ Len(C) = f.file_size
        /\ \A i \in 1 .. f.file_size : C[i] = f.data[i - 1]
    BY ContentIs
  <2>2. /\ D \in Seq(Cells) /\ Len(D) = new_size
        /\ \A i \in 1 .. new_size : D[i] = data[i - 1]
    BY <1>11, <1>12, ContentIs
  <2> HIDE DEF C, D
  <2>3. D = [i \in 1 .. new_size |-> D[i]]
    BY <2>2, LenProperties
  <2>4. ASSUME NEW i \in 1 .. new_size
        PROVE  D[i] = IF i \in f.fptr + 1 .. f.fptr + n THEN bytes[i - f.fptr] ELSE C[i]
    <3>1. i - 1 \in 0 .. allocated - 1 /\ D[i] = data[i - 1]
      BY <1>3, <1>4, <2>2
    <3>2. CASE i \in f.fptr + 1 .. f.fptr + n
      <4>1. i - 1 \in f.fptr .. f.fptr + n - 1 /\ (i - 1) - f.fptr + 1 = i - f.fptr
        BY <3>2, <1>1, <1>2, SMTT(40)
      <4> QED BY <3>1, <3>2, <4>1, <1>9
    <3>3. CASE i \notin f.fptr + 1 .. f.fptr + n
      <4>1. i - 1 \notin f.fptr .. f.fptr + n - 1 /\ i \in 1 .. f.file_size
        BY <3>3, <1>1, <1>2, <1>3, SMTT(40)
      <4>2. i - 1 \in DOMAIN f.data
        BY <4>1, <1>2
      <4>3. data[i - 1] = f.data[i - 1]
        BY <3>1, <4>1, <4>2, <1>9
      <4> QED BY <3>1, <3>3, <4>1, <4>3, <2>1
    <3> QED BY <3>2, <3>3
  <2>5. Overwritten(C, f.fptr, bytes) =
          [i \in 1 .. new_size |-> IF i \in f.fptr + 1 .. f.fptr + n THEN bytes[i - f.fptr] ELSE C[i]]
    BY <2>1 DEF Overwritten, n, new_size
  <2>6. D = Overwritten(C, f.fptr, bytes)
    BY <2>3, <2>4, <2>5
  <2> QED BY <2>6 DEF C, D
<1> QED BY <1>8, <1>11, <1>12, <1>13 DEF Wrote, g, w, n, new_size

LEMMA Quotient ==
  ASSUME NEW n \in Nat, NEW k \in Nat \ {0}
  PROVE  n \div k \in 0 .. n /\ (k = 1 => n \div k = n)
<1> DEFINE q == n \div k
<1>1. q \in Int /\ k * q <= n /\ n < k * (q + 1)
  BY SMTT(30)
<1> HIDE DEF q
<1>2. q >= 0
  BY <1>1, SMTT(30)
<1>3. q <= k * q
  BY <1>1, <1>2, SMTT(30)
<1>4. k = 1 => q = n
  BY <1>1
<1> QED BY <1>1, <1>2, <1>3, <1>4 DEF q

(* fwrite stores its bytes where the file pointer is, and both pointers move *)
(* by the items written.                                                     *)
LEMMA FwriteWrites ==
  ASSUME NEW f, Whole(f), NEW k \in Nat \ {0}, NEW bytes \in Seq(Bytes),
         f.fptr + Len(bytes) <= MaxSize
  PROVE  LET r == Fwrite(f, k, bytes)
         IN /\ r.bytes = <<>> /\ Whole(r.file)
            /\ bytes = <<>> => r.file = f
            /\ bytes # <<>> =>
                 /\ Wrote(f, bytes, r.file)
                 /\ r.file.fptr = r.file.vfptr
                 /\ k = 1 => r.file.vfptr = f.fptr + Len(bytes)
<1> DEFINE n == Len(bytes)
           w == Write(f, bytes)
           r == Fwrite(f, k, bytes)
           m == n \div k
           p == f.fptr + m
<1>1. CASE bytes = <<>>
  BY <1>1 DEF Fwrite, Returned
<1>2. CASE bytes # <<>>
  <2>1. n \in Nat /\ f.fptr \in Nat /\ MaxSize \in Nat
    BY SizesFit, LenProperties DEF Whole
  <2>2. m \in 0 .. n /\ (k = 1 => m = n)
    BY <2>1, Quotient
  <2>3. /\ Wrote(f, bytes, w.file) /\ w.file.fptr = f.fptr /\ w.bytes = <<>> /\ w.ret = n
    BY <1>2, WriteStores
  <2>4. r = Returned(Moved(w.file, m), w.bytes, m)
    BY <1>2, <2>3 DEF Fwrite, Fwritten
  <2> HIDE DEF m, n, w
  <2>5. p \in 0 .. MaxSize /\ p <= f.fptr + n
    BY <2>1, <2>2 DEF n
  <2>6. Moved(w.file, m) = [w.file EXCEPT !.fptr = p, !.vfptr = p]
    BY <2>3, <2>5, MovedIs
  <2>7. r.file = Moved(w.file, m) /\ r.bytes = <<>>
    BY <2>3, <2>4 DEF Returned
  <2> HIDE DEF r, p
  <2> DEFINE g == r.file
             h == w.file
  <2>8. h = [data |-> h.data, allocated_size |-> h.allocated_size, file_size |-> h.file_size,
             fptr |-> h.fptr, vfptr |-> h.vfptr, eof |-> h.eof]
    BY <2>3 DEF Wrote, Whole
  <2>9. g = [h EXCEPT !.fptr = p, !.vfptr = p]
    BY <2>6, <2>7
  <2> HIDE DEF g, h
  <2>10. g = [data |-> h.data, allocated_size |-> h.allocated_size, file_size |-> h.file_size,
              fptr |-> p, vfptr |-> p, eof |-> h.eof]
    BY <2>8, <2>9
  <2>11. /\ g.data = h.data /\ g.allocated_size = h.allocated_size /\ g.file_size = h.file_size
         /\ g.fptr = p /\ g.vfptr = p /\ g.eof = h.eof
    BY <2>10
  <2>12. Content(g) = Content(h)
    BY <2>11 DEF Content
  <2>13. p \in 0 .. h.file_size
    <3>1. h.file_size = Greatest(f.fptr + n, f.file_size) /\ f.file_size \in Nat
      BY <2>3 DEF Wrote, h, n, Whole
    <3> QED BY <3>1, <2>1, <2>5 DEF Greatest
  <2>14. Whole(g)
    BY <2>3, <2>10, <2>11, <2>13 DEF Wrote, Whole, h
  <2>15. Wrote(f, bytes, g)
    BY <2>3, <2>11, <2>12, <2>14 DEF Wrote, h
  <2>16. k = 1 => g.vfptr = f.fptr + Len(bytes)
    BY <2>2, <2>11 DEF p, n
  <2> QED BY <1>2, <2>7, <2>11, <2>14, <2>15, <2>16 DEF g, r
<1> QED BY <1>1, <1>2

LEMMA OverwrittenLen ==
  ASSUME NEW C \in Seq(Cells), NEW p \in 0 .. Len(C), NEW bytes \in Seq(Bytes)
  PROVE  LET n == Greatest(p + Len(bytes), Len(C))
             D == Overwritten(C, p, bytes)
         IN /\ D \in Seq(Cells) /\ Len(D) = n /\ n \in Nat
            /\ \A i \in 1 .. n : D[i] = IF i \in p + 1 .. p + Len(bytes) THEN bytes[i - p] ELSE C[i]
<1> DEFINE n == Greatest(p + Len(bytes), Len(C))
           m == Len(bytes)
           D == Overwritten(C, p, bytes)
<1>1. /\ Len(C) \in Nat /\ m \in Nat /\ \A i \in 1 .. m : bytes[i] \in Cells
      /\ \A i \in 1 .. Len(C) : C[i] \in Cells
  BY LenProperties, ElementOfSeq DEF Cells
<1>2. n \in Nat /\ (n = p + m \/ n = Len(C)) /\ n >= p + m /\ n >= Len(C)
  BY <1>1 DEF Greatest
<1>3. D = [i \in 1 .. n |-> IF i \in p + 1 .. p + m THEN bytes[i - p] ELSE C[i]]
  BY DEF Overwritten
<1> HIDE DEF D, n, m
<1>4. ASSUME NEW i \in 1 .. n
      PROVE  (IF i \in p + 1 .. p + m THEN bytes[i - p] ELSE C[i]) \in Cells
  <2>1. CASE i \in p + 1 .. p + m
    <3>1. i - p \in 1 .. m
      BY <2>1, <1>1
    <3> QED BY <3>1, <2>1, <1>1
  <2>2. CASE i \notin p + 1 .. p + m
    <3>1. i \in 1 .. Len(C)
      BY <2>2, <1>1, <1>2
    <3> QED BY <3>1, <2>2, <1>1
  <2> QED BY <2>1, <2>2
<1>5. D \in [1 .. n -> Cells]
  BY <1>3, <1>4
<1>6. D \in Seq(Cells)
  BY <1>2, <1>5, SeqDef
<1>7. Len(D) = n
  BY <1>2, <1>5, <1>6, LenProperties
<1> QED BY <1>2, <1>3, <1>6, <1>7 DEF D, n, m

(* The same with the operators of sequences. *)
LEMMA OverwrittenParts ==
  ASSUME NEW C \in Seq(Cells), NEW p \in 0 .. Len(C), NEW bytes \in Seq(Bytes)
  PROVE  Overwritten(C, p, bytes) =
           SubSeq(C, 1, p) \o bytes \o SubSeq(C, p + Len(bytes) + 1, Len(C))
<1> DEFINE m == Len(bytes)
           l == Len(C)
           D == Overwritten(C, p, bytes)
           n == Greatest(p + m, l)
           a == p + m + 1
           front == SubSeq(C, 1, p)
           back == SubSeq(C, a, l)
           both == front \o bytes
           E == both \o back
<1>1. /\ l \in Nat /\ m \in Nat /\ p \in Nat /\ p <= l /\ a \in Nat
      /\ bytes \in Seq(Cells) /\ 1 \in Int /\ p \in Int /\ a \in Int /\ l \in Int
  BY LenProperties, SeqMonotonic DEF Cells
<1>2. /\ D \in Seq(Cells) /\ Len(D) = n /\ n \in Nat
      /\ \A i \in 1 .. n : D[i] = IF i \in p + 1 .. p + m THEN bytes[i - p] ELSE C[i]
  BY OverwrittenLen
<1>3. \A i \in 1 .. l : C[i] \in Cells
  BY ElementOfSeq
<1>4. \A i \in 1 .. p : C[i] \in Cells
  BY <1>1, <1>3
<1>5. \A i \in a .. l : C[i] \in Cells
  BY <1>1, <1>3
<1> HIDE DEF l, D, a
<1>6. /\ front \in Seq(Cells)
      /\ Len(front) = IF 1 <= p THEN p - 1 + 1 ELSE 0
      /\ \A i \in 1 .. p - 1 + 1 : front[i] = C[1 + i - 1]
  BY <1>1, <1>4, SubSeqProperties
<1>7. /\ back \in Seq(Cells)
      /\ Len(back) = IF a <= l THEN l - a + 1 ELSE 0
      /\ \A i \in 1 .. l - a + 1 : back[i] = C[a + i - 1]
  BY <1>1, <1>5, SubSeqProperties
<1> HIDE DEF front, back
<1>8. Len(front) = p /\ \A i \in 1 .. p : front[i] = C[i]
  BY <1>1, <1>6
<1>9. Len(back) = n - (p + m)
  <2>1. a = p + m + 1 /\ m \in Nat /\ l \in Nat /\ p \in Nat /\ n = IF p + m < l THEN l ELSE p + m
    BY <1>1 DEF a, Greatest
  <2> HIDE DEF m, n
  <2>2. CASE p + m < l
    BY <1>7, <2>1, <2>2
  <2>3. CASE ~(p + m < l)
    BY <1>7, <2>1, <2>3
  <2> QED BY <2>2, <2>3
<1>10. /\ both \in Seq(Cells) /\ Len(both) = Len(front) + Len(bytes)
       /\ \A i \in 1 .. Len(front) + Len(bytes) :
            both[i] = IF i <= Len(front) THEN front[i] ELSE bytes[i - Len(front)]
  BY <1>1, <1>6, ConcatProperties
<1> HIDE DEF both
<1>11. /\ E \in Seq(Cells) /\ Len(E) = Len(both) + Len(back)
       /\ \A i \in 1 .. Len(both) + Len(back) :
            E[i] = IF i <= Len(both) THEN both[i] ELSE back[i - Len(both)]
  <2>1. both \in Seq(Cells) /\ back \in Seq(Cells)
    BY <1>7, <1>10
  <2> QED BY <2>1, ConcatProperties
<1> HIDE DEF E
<1>12. Len(both) = p + m /\ Len(E) = n
  BY <1>1, <1>2, <1>8, <1>9, <1>10, <1>11 DEF m
<1>13. ASSUME NEW i \in 1 .. n PROVE D[i] = E[i]
  <2>1. E[i] = IF i <= p + m THEN both[i] ELSE back[i - (p + m)]
    BY <1>11, <1>12
  <2>2. CASE i <= p
    <3>1. i \in 1 .. p + m /\ i \in 1 .. p /\ i \notin p + 1 .. p + m
      BY <2>2, <1>1, <1>2
    <3>2. E[i] = front[i]
      BY <2>1, <2>2, <3>1, <1>8, <1>10 DEF m
    <3> QED BY <3>1, <3>2, <1>2, <1>8
  <2>3. CASE i > p /\ i <= p + m
    <3>1. i \in 1 .. p + m /\ i \in p + 1 .. p + m
      BY <2>3, <1>1, <1>2
    <3>2. E[i] = bytes[i - p]
      BY <2>1, <2>3, <3>1, <1>1, <1>8, <1>10 DEF m
    <3> QED BY <3>1, <3>2, <1>2
  <2>4. CASE i > p + m
    <3>1. /\ i \notin p + 1 .. p + m /\ n = l /\ i - (p + m) \in 1 .. l - a + 1
          /\ a + (i - (p + m)) - 1 = i
      BY <2>4, <1>1, <1>2 DEF n, a, Greatest
    <3>2. E[i] = back[i - (p + m)]
      BY <2>1, <2>4, <1>1, <1>2
    <3>3. back[i - (p + m)] = C[i]
      BY <3>1, <1>7
    <3> QED BY <3>1, <3>2, <3>3, <1>2
  <2> QED BY <2>2, <2>3, <2>4, <1>1, <1>2
<1>14. D = E
  BY <1>2, <1>11, <1>12, <1>13, SeqEqual
<1> QED BY <1>14 DEF D, E, both, front, back, a, l, m

(* Bytes written one behind the other are written as one. *)
Prefix(s, n) == [j \in 1 .. n |-> s[j]]

LEMMA PrefixIs ==
  ASSUME NEW s \in Seq(Bytes), NEW n \in 0 .. Len(s)
  PROVE  Prefix(s, n) \in Seq(Bytes) /\ Len(Prefix(s, n)) = n
         /\ \A j \in 1 .. n : Prefix(s, n)[j] = s[j]
<1>1. n \in Nat /\ \A j \in 1 .. n : s[j] \in Bytes
  BY LenProperties, ElementOfSeq
<1>2. Prefix(s, n) \in [1 .. n -> Bytes]
  BY <1>1 DEF Prefix
<1>3. Prefix(s, n) \in Seq(Bytes)
  BY <1>1, <1>2, SeqDef
<1> QED BY <1>1, <1>2, <1>3, LenProperties DEF Prefix

LEMMA OverwriteOneMore ==
  ASSUME NEW C \in Seq(Cells), NEW p \in 0 .. Len(C), NEW s \in Seq(Bytes), NEW i \in 1 .. Len(s)
  PROVE  Overwritten(Overwritten(C, p, Prefix(s, i - 1)), p + i - 1, <<s[i]>>) =
           Overwritten(C, p, Prefix(s, i))
<1> DEFINE P == Prefix(s, i - 1)
           Q == Prefix(s, i)
           D == Overwritten(C, p, P)
           E == Overwritten(C, p, Q)
           q == p + i - 1
           c == s[i]
           F == Overwritten(D, q, <<c>>)
           l == Len(C)
<1>1. /\ l \in Nat /\ p \in Nat /\ p <= l /\ i \in Nat \ {0} /\ c \in Bytes
      /\ i - 1 \in 0 .. Len(s) /\ i \in 0 .. Len(s)
  BY LenProperties, ElementOfSeq
<1>2. /\ P \in Seq(Bytes) /\ Len(P) = i - 1 /\ \A j \in 1 .. i - 1 : P[j] = s[j]
      /\ Q \in Seq(Bytes) /\ Len(Q) = i /\ \A j \in 1 .. i : Q[j] = s[j]
  BY <1>1, PrefixIs
<1> HIDE DEF P, Q
<1>3. /\ D \in Seq(Cells) /\ Len(D) = Greatest(p + (i - 1), l)
      /\ \A j \in 1 .. Greatest(p + (i - 1), l) :
           D[j] = IF j \in p + 1 .. p + (i - 1) THEN P[j - p] ELSE C[j]
  <2>1. /\ D \in Seq(Cells) /\ Len(D) = Greatest(p + Len(P), l)
        /\ \A j \in 1 .. Greatest(p + Len(P), l) :
             D[j] = IF j \in p + 1 .. p + Len(P) THEN P[j - p] ELSE C[j]
    BY <1>2, OverwrittenLen
  <2> HIDE DEF D, l
  <2> QED BY <2>1, <1>2
<1>4. /\ E \in Seq(Cells) /\ Len(E) = Greatest(p + i, l)
      /\ \A j \in 1 .. Greatest(p + i, l) :
           E[j] = IF j \in p + 1 .. p + i THEN Q[j - p] ELSE C[j]
  <2>1. /\ E \in Seq(Cells) /\ Len(E) = Greatest(p + Len(Q), l)
        /\ \A j \in 1 .. Greatest(p + Len(Q), l) :
             E[j] = IF j \in p + 1 .. p + Len(Q) THEN Q[j - p] ELSE C[j]
    BY <1>2, OverwrittenLen
  <2> HIDE DEF E, l
  <2> QED BY <2>1, <1>2
<1> HIDE DEF D, E, l
<1>5. <<c>> \in Seq(Bytes) /\ Len(<<c>>) = 1 /\ <<c>>[1] = c
  BY <1>1
<1>6. q \in 0 .. Len(D)
  BY <1>1, <1>3 DEF Greatest
<1> HIDE DEF c
<1>7. /\ F \in Seq(Cells) /\ Len(F) = Greatest(q + 1, Len(D))
      /\ \A j \in 1 .. Greatest(q + 1, Len(D)) :
           F[j] = IF j \in q + 1 .. q + 1 THEN <<c>>[j - q] ELSE D[j]
  <2> DEFINE b == <<c>>
  <2>1. b \in Seq(Bytes) /\ Len(b) = 1
    BY <1>5
  <2> HIDE DEF b, q
  <2>2. /\ Overwritten(D, q, b) \in Seq(Cells)
        /\ Len(Overwritten(D, q, b)) = Greatest(q + Len(b), Len(D))
        /\ \A j \in 1 .. Greatest(q + Len(b), Len(D)) :
             Overwritten(D, q, b)[j] = IF j \in q + 1 .. q + Len(b) THEN b[j - q] ELSE D[j]
    BY <2>1, <1>3, <1>6, OverwrittenLen
  <2>3. F = Overwritten(D, q, b)
    BY DEF b
  <2> HIDE DEF F
  <2> QED BY <2>1, <2>2, <2>3 DEF b
<1> HIDE DEF F
<1>8. Len(F) = Len(E) /\ Len(F) \in Nat /\ q \in Nat
  BY <1>1, <1>3, <1>4, <1>7 DEF Greatest
<1>9. ASSUME NEW j \in 1 .. Len(F) PROVE F[j] = E[j]
  <2>1. /\ F[j] = IF j = q + 1 THEN c ELSE D[j]
        /\ E[j] = IF j \in p + 1 .. p + i THEN s[j - p] ELSE C[j]
    <3>1. F[j] = IF j \in q + 1 .. q + 1 THEN <<c>>[j - q] ELSE D[j]
      BY <1>7
    <3>2. F[j] = IF j = q + 1 THEN c ELSE D[j]
      <4>1. j \in q + 1 .. q + 1 <=> j = q + 1
        BY <1>8
      <4>2. j = q + 1 => j - q = 1
        BY <1>8
      <4> QED BY <3>1, <4>1, <4>2, <1>5
    <3>3. E[j] = IF j \in p + 1 .. p + i THEN Q[j - p] ELSE C[j]
      BY <1>4, <1>8
    <3>4. j \in p + 1 .. p + i => Q[j - p] = s[j - p]
      <4>1. j \in p + 1 .. p + i => j - p \in 1 .. i
        BY <1>1
      <4> QED BY <4>1, <1>2
    <3> QED BY <3>2, <3>3, <3>4
  <2>2. CASE j = q + 1
    <3>1. j \in p + 1 .. p + i /\ j - p = i
      BY <2>2, <1>1
    <3> QED BY <2>1, <2>2, <3>1 DEF c
  <2>3. CASE j # q + 1
    <3>1. /\ j \in 1 .. Greatest(p + (i - 1), l)
          /\ j \in p + 1 .. p + i <=> j \in p + 1 .. p + (i - 1)
      BY <2>3, <1>1, <1>3, <1>7, <1>8 DEF Greatest
    <3>2. D[j] = IF j \in p + 1 .. p + (i - 1) THEN P[j - p] ELSE C[j]
      BY <3>1, <1>3
    <3>3. j \in p + 1 .. p + (i - 1) => P[j - p] = s[j - p]
      <4>1. j \in p + 1 .. p + (i - 1) => j - p \in 1 .. i - 1
        BY <1>1
      <4> QED BY <4>1, <1>2
    <3> QED BY <2>1, <2>3, <3>1, <3>2, <3>3
  <2> QED BY <2>2, <2>3
<1>10. F = E
  BY <1>4, <1>7, <1>8, <1>9, SeqEqual
<1> QED BY <1>10 DEF F, E, D, P, Q, c

-------------------------------------------------------------------------------
(* fputs and fgets are loops. *)
First(S) == CHOOSE i \in S : \A j \in S : i <= j

(* A set of naturals that is not empty has a least element. *)
LEMMA LeastOf ==
  ASSUME NEW S \in SUBSET Nat, S # {}
  PROVE  /\ First(S) \in S /\ \A j \in S : First(S) <= j
<1>1. PICK x \in S : \A y \in S : ~ (<<y, x>> \in OpToRel(<, Nat))
  BY NatLessThanWellFounded, WFMin
<1>2. \A y \in S : ~ (y < x)
  BY <1>1 DEF OpToRel
<1>3. \A y \in S : x <= y
  BY <1>2
<1> QED BY <1>3 DEF First

(* Round i of the loop that writes s, and of the one that reads a line.      *)
Round(call, s, x, i) ==
  IF call = "fputs" THEN Fwrite(x, 1, <<s[i]>>).file ELSE NextChar(x, i)

(* g[i] is what i rounds make of x. *)
Rounds(call, s, x, n, g) ==
  /\ g = [i \in 0 .. n |-> g[i]]
  /\ g[0] = x
  /\ \A i \in 1 .. n : g[i] = Round(call, s, g[i - 1], i)

LEMMA RoundsExist ==
  ASSUME NEW call, NEW s, NEW x
  PROVE  \A n \in Nat : \E g : Rounds(call, s, x, n, g)
<1> DEFINE Bad == {n \in Nat : ~ \E g : Rounds(call, s, x, n, g)}
<1> SUFFICES ASSUME Bad # {} PROVE FALSE
  OBVIOUS
<1> DEFINE n == First(Bad)
<1>1. n \in Bad /\ \A m \in Bad : n <= m
  BY LeastOf
<1>2. n \in Nat /\ ~ \E g : Rounds(call, s, x, n, g)
  BY <1>1
<1>3. \A m \in Nat : m < n => \E g : Rounds(call, s, x, m, g)
  <2> SUFFICES ASSUME NEW m \in Nat, m < n, ~ \E g : Rounds(call, s, x, m, g) PROVE FALSE
    OBVIOUS
  <2>1. m \in Bad
    OBVIOUS
  <2>2. n <= m
    BY <2>1, <1>1
  <2> HIDE DEF n
  <2> QED BY <2>2, <1>2
<1> HIDE DEF n, Bad
<1>4. CASE n = 0
  <2> DEFINE g == [i \in 0 .. 0 |-> x]
  <2>1. Rounds(call, s, x, 0, g)
    BY DEF Rounds
  <2> QED BY <2>1, <1>2, <1>4
<1>5. CASE n # 0
  <2>1. PICK h : Rounds(call, s, x, n - 1, h)
    BY <1>2, <1>3, <1>5
  <2> DEFINE g == [i \in 0 .. n |-> IF i = n THEN Round(call, s, h[n - 1], n) ELSE h[i]]
  <2>2. g = [i \in 0 .. n |-> g[i]] /\ g[0] = h[0]
    BY <1>2, <1>5
  <2>3. ASSUME NEW i \in 1 .. n PROVE g[i] = Round(call, s, g[i - 1], i)
    <3>1. i - 1 \in 0 .. n - 1 /\ g[i - 1] = h[i - 1]
      BY <1>2, <2>3
    <3>2. CASE i = n
      BY <3>1, <3>2, <1>2
    <3>3. CASE i # n
      <4>1. i \in 1 .. n - 1
        BY <3>3, <1>2, <2>3
      <4>2. h[i] = Round(call, s, h[i - 1], i)
        BY <4>1, <2>1 DEF Rounds
      <4> QED BY <4>1, <4>2, <3>1, <3>3, <1>2
    <3> QED BY <3>2, <3>3
  <2>4. Rounds(call, s, x, n, g)
    BY <2>1, <2>2, <2>3 DEF Rounds
  <2> QED BY <2>4, <1>2
<1> QED BY <1>4, <1>5

LEMMA RoundIs ==
  ASSUME NEW s, NEW x, NEW i
  PROVE  /\ Round("fputs", s, x, i) = Fwrite(x, 1, <<s[i]>>).file
         /\ Round("fgets", s, x, i) = NextChar(x, i)
BY DEF Round

LEMMA FputsRounds ==
  ASSUME NEW f, NEW s, Len(s) \in Nat
  PROVE  \E g : /\ Rounds("fputs", s, f, Len(s), g)
                /\ Fputs(f, s) = Returned(g[Len(s)], <<>>, Len(s))
<1> DEFINE n == Len(s)
           Upto(g) == g = [i \in 0 .. n |-> IF i = 0 THEN f ELSE Fwrite(g[i - 1], 1, <<s[i]>>).file]
           put == CHOOSE g : Upto(g)
<1>1. PICK h : Rounds("fputs", s, f, n, h)
  BY RoundsExist
<1>2. Upto(h)
  <2>1. /\ h = [i \in 0 .. n |-> h[i]] /\ h[0] = f
        /\ \A i \in 1 .. n : h[i] = Fwrite(h[i - 1], 1, <<s[i]>>).file
    BY <1>1, RoundIs, ZenonT(60) DEF Rounds
  <2> HIDE DEF n
  <2>2. \A i \in 0 .. n : h[i] = IF i = 0 THEN f ELSE Fwrite(h[i - 1], 1, <<s[i]>>).file
    <3> TAKE i \in 0 .. n
    <3>1. i # 0 => i \in 1 .. n
      BY SMTT(40) DEF n
    <3> QED BY <2>1, <3>1
  <2> QED BY <2>1, <2>2
<1>3. Upto(put)
  BY <1>2
<1>4. Fputs(f, s) = Returned(put[n], <<>>, n)
  BY DEF Fputs
<1> HIDE DEF put, n
<1>5. Rounds("fputs", s, f, n, put)
  <2>1. /\ put = [i \in 0 .. n |-> put[i]] /\ 0 \in 0 .. n
        /\ \A i \in 0 .. n : put[i] = IF i = 0 THEN f ELSE Fwrite(put[i - 1], 1, <<s[i]>>).file
    <3>1. n \in Nat
      BY DEF n
    <3>2. 0 \in 0 .. n
      BY <3>1
    <3>3. put = [i \in 0 .. n |-> IF i = 0 THEN f ELSE Fwrite(put[i - 1], 1, <<s[i]>>).file]
      BY <1>3
    <3>4. \A i \in 0 .. n : put[i] = IF i = 0 THEN f ELSE Fwrite(put[i - 1], 1, <<s[i]>>).file
      BY <3>3
    <3>5. put = [i \in 0 .. n |-> put[i]]
      BY <3>3
    <3> QED BY <3>2, <3>4, <3>5
  <2>2. \A i \in 1 .. n : i \in 0 .. n /\ i # 0
    BY DEF n
  <2>3. \A i \in 1 .. n : put[i] = Round("fputs", s, put[i - 1], i)
    <3> TAKE i \in 1 .. n
    <3>1. put[i] = Fwrite(put[i - 1], 1, <<s[i]>>).file
      BY <2>1, <2>2
    <3> QED BY <3>1, RoundIs
  <2>4. put[0] = f
    BY <2>1
  <2> QED BY <2>1, <2>3, <2>4 DEF Rounds
<1> QED BY <1>4, <1>5 DEF n

LEMMA FgetsRounds ==
  ASSUME NEW f, NEW size \in Nat
  PROVE  \E g : /\ Rounds("fgets", <<>>, NoChar(f), size, g)
                /\ Fgets(f, size) =
                     Returned(g[size].file, g[size].line,
                              IF g[size].null THEN NoLine ELSE g[size].line)
<1> DEFINE Upto(g) == g = [i \in 0 .. size |-> IF i = 0 THEN NoChar(f) ELSE NextChar(g[i - 1], i)]
           got == CHOOSE g : Upto(g)
<1>1. PICK h : Rounds("fgets", <<>>, NoChar(f), size, h)
  BY RoundsExist
<1>2. Upto(h)
  <2>1. /\ h = [i \in 0 .. size |-> h[i]] /\ h[0] = NoChar(f)
        /\ \A i \in 1 .. size : h[i] = NextChar(h[i - 1], i)
    BY <1>1, RoundIs DEF Rounds
  <2>2. \A i \in 0 .. size : h[i] = IF i = 0 THEN NoChar(f) ELSE NextChar(h[i - 1], i)
    <3> TAKE i \in 0 .. size
    <3>1. i # 0 => i \in 1 .. size
      OBVIOUS
    <3> QED BY <2>1, <3>1
  <2> QED BY <2>1, <2>2
<1>3. Upto(got)
  BY <1>2
<1>4. Fgets(f, size) = Returned(got[size].file, got[size].line,
                                IF got[size].null THEN NoLine ELSE got[size].line)
  BY DEF Fgets
<1> HIDE DEF got
<1>5. Rounds("fgets", <<>>, NoChar(f), size, got)
  <2>1. /\ got = [i \in 0 .. size |-> got[i]] /\ 0 \in 0 .. size
        /\ \A i \in 0 .. size : got[i] = IF i = 0 THEN NoChar(f) ELSE NextChar(got[i - 1], i)
    BY <1>3
  <2>2. \A i \in 1 .. size : i \in 0 .. size /\ i # 0
    OBVIOUS
  <2>3. \A i \in 1 .. size : got[i] = Round("fgets", <<>>, got[i - 1], i)
    BY <2>1, <2>2, RoundIs, SMTT(40)
  <2>4. got[0] = NoChar(f)
    BY <2>1
  <2> QED BY <2>1, <2>3, <2>4 DEF Rounds
<1> QED BY <1>4, <1>5

(* After i rounds of fputs the first i chars are written.                    *)
Put(f, s, i, x) ==
  /\ Whole(x) /\ x.fptr = f.fptr + i /\ x.file_size = Greatest(f.fptr + i, f.file_size)
  /\ Content(x) = Overwritten(Content(f), f.fptr, Prefix(s, i))
  /\ x.eof => f.eof
  /\ IF i = 0 THEN x = f ELSE x.vfptr = x.fptr

LEMMA PutNone ==
  ASSUME NEW f, Whole(f), NEW s \in Seq(Bytes)
  PROVE  Put(f, s, 0, f)
<1> DEFINE C == Content(f)
           p == f.fptr
           P == Prefix(s, 0)
           D == Overwritten(C, p, P)
<1>1. C \in Seq(Cells) /\ Len(C) = f.file_size
  BY ContentIs
<1>2. p \in 0 .. f.file_size /\ p \in Nat /\ f.file_size \in Nat
  BY DEF Whole
<1>3. P \in Seq(Bytes) /\ Len(P) = 0
  <2>1. 0 \in 0 .. Len(s)
    BY LenProperties
  <2> QED BY <2>1, PrefixIs
<1> HIDE DEF C, p, P
<1>4. p \in 0 .. Len(C)
  BY <1>1, <1>2
<1>5. /\ D \in Seq(Cells) /\ Len(D) = Greatest(p + Len(P), Len(C))
      /\ \A i \in 1 .. Greatest(p + Len(P), Len(C)) :
           D[i] = IF i \in p + 1 .. p + Len(P) THEN P[i - p] ELSE C[i]
  BY <1>1, <1>3, <1>4, OverwrittenLen, ZenonT(60)
<1> HIDE DEF D
<1>6. Greatest(p + Len(P), Len(C)) = Len(C) /\ Greatest(p + 0, f.file_size) = f.file_size
  BY <1>1, <1>2, <1>3 DEF Greatest
<1>7. \A i \in 1 .. Len(C) : i \notin p + 1 .. p + Len(P)
  BY <1>2, <1>3
<1>8. \A i \in 1 .. Len(C) : D[i] = C[i]
  BY <1>5, <1>6, <1>7
<1>9. D = C
  BY <1>1, <1>5, <1>6, <1>8, SeqEqual
<1>10. p + 0 = p
  BY <1>2
<1> QED BY <1>6, <1>9, <1>10 DEF Put, C, D, P, p

LEMMA PutOneMore ==
  ASSUME NEW f, Whole(f), NEW s \in Seq(Bytes), f.fptr + Len(s) <= MaxSize,
         NEW i \in 1 .. Len(s), NEW x, Put(f, s, i - 1, x)
  PROVE  Put(f, s, i, Fwrite(x, 1, <<s[i]>>).file)
<1> DEFINE c == <<s[i]>>
           g == Fwrite(x, 1, c).file
<1>1. /\ f.fptr \in Nat /\ f.file_size \in Nat /\ f.fptr <= f.file_size /\ i \in Nat /\ i >= 1
      /\ i <= Len(s) /\ Len(s) \in Nat /\ MaxSize \in Nat
  BY LenProperties, SizesFit DEF Whole
<1>2. c \in Seq(Bytes) /\ Len(c) = 1 /\ c # <<>>
  BY ElementOfSeq
<1>3. /\ Whole(x) /\ x.fptr = f.fptr + (i - 1)
      /\ x.file_size = Greatest(f.fptr + (i - 1), f.file_size)
      /\ Content(x) = Overwritten(Content(f), f.fptr, Prefix(s, i - 1))
      /\ x.eof => f.eof
  BY DEF Put
<1> HIDE DEF c
<1>4. x.fptr + Len(c) = f.fptr + i /\ x.fptr + Len(c) <= MaxSize
  BY <1>1, <1>2, <1>3
<1>5. 1 \in Nat \ {0} /\ 1 = 1
  OBVIOUS
<1>6. Wrote(x, c, g) /\ g.fptr = g.vfptr /\ g.vfptr = x.fptr + Len(c) /\ Whole(g)
  <2> DEFINE k == 1
             r == Fwrite(x, k, c)
  <2>1. k \in Nat \ {0} /\ k = 1
    OBVIOUS
  <2> HIDE DEF k, g
  <2>2. /\ Whole(r.file)
        /\ c # <<>> =>
             /\ Wrote(x, c, r.file)
             /\ r.file.fptr = r.file.vfptr
             /\ k = 1 => r.file.vfptr = x.fptr + Len(c)
    <3>1. Whole(x) /\ k \in Nat \ {0} /\ c \in Seq(Bytes) /\ x.fptr + Len(c) <= MaxSize
      BY <2>1, <1>2, <1>3, <1>4
    <3> QED BY <3>1, FwriteWrites, Zenon
  <2>3. g = r.file
    BY <2>1 DEF g
  <2> HIDE DEF r
  <2> QED BY <2>1, <2>2, <2>3, <1>2
<1> HIDE DEF g
<1>7. g.file_size = Greatest(f.fptr + i, f.file_size)
  BY <1>1, <1>3, <1>4, <1>6 DEF Wrote, Greatest
<1>8. Content(g) = Overwritten(Content(f), f.fptr, Prefix(s, i))
  <2> DEFINE C == Content(f)
             p == f.fptr
  <2>1. C \in Seq(Cells) /\ p \in 0 .. Len(C)
    BY ContentIs DEF Whole
  <2>2. Content(g) = Overwritten(Content(x), x.fptr, c)
    BY <1>6 DEF Wrote
  <2>3. x.fptr = p + i - 1
    BY <1>1, <1>3
  <2>4. Content(g) = Overwritten(Overwritten(C, p, Prefix(s, i - 1)), p + i - 1, <<s[i]>>)
    BY <2>2, <2>3, <1>3 DEF c
  <2> HIDE DEF C, p
  <2>5. Overwritten(Overwritten(C, p, Prefix(s, i - 1)), p + i - 1, <<s[i]>>) =
          Overwritten(C, p, Prefix(s, i))
    BY <2>1, OverwriteOneMore
  <2> QED BY <2>4, <2>5 DEF C, p
<1>9. g.eof => f.eof
  BY <1>3, <1>6 DEF Wrote
<1>10. i # 0 /\ g.fptr = f.fptr + i
  BY <1>1, <1>4, <1>6
<1>11. Put(f, s, i, g)
  BY <1>6, <1>7, <1>8, <1>9, <1>10 DEF Put
<1> QED BY <1>11 DEF g, c

LEMMA PrefixAll ==
  ASSUME NEW s \in Seq(Bytes)
  PROVE  Prefix(s, Len(s)) = s
<1>1. Len(s) \in 0 .. Len(s) /\ Len(s) \in Nat
  BY LenProperties
<1>2. Prefix(s, Len(s)) \in Seq(Bytes) /\ Len(Prefix(s, Len(s))) = Len(s)
      /\ \A j \in 1 .. Len(s) : Prefix(s, Len(s))[j] = s[j]
  BY <1>1, PrefixIs
<1> QED BY <1>2, SeqEqual

(* fputs writes its chars where the file pointer is, as one write would.     *)
LEMMA FputsWrites ==
  ASSUME NEW f, Whole(f), NEW s \in Seq(Bytes), f.fptr + Len(s) <= MaxSize
  PROVE  LET r == Fputs(f, s)
         IN /\ r.bytes = <<>> /\ Whole(r.file)
            /\ s = <<>> => r.file = f
            /\ s # <<>> =>
                 /\ Wrote(f, s, r.file)
                 /\ r.file.fptr = r.file.vfptr
                 /\ r.file.vfptr = f.fptr + Len(s)
<1> DEFINE n == Len(s)
<1>1. n \in Nat
  BY LenProperties
<1>2. PICK g : Rounds("fputs", s, f, n, g) /\ Fputs(f, s) = Returned(g[n], <<>>, n)
  BY <1>1, FputsRounds
<1>3. g[0] = f /\ \A i \in 1 .. n : g[i] = Fwrite(g[i - 1], 1, <<s[i]>>).file
  BY <1>2, RoundIs DEF Rounds
<1>4. \A i \in 0 .. n : Put(f, s, i, g[i])
  <2> DEFINE Bad == {i \in Nat : i <= n /\ ~ Put(f, s, i, g[i])}
  <2> SUFFICES ASSUME Bad # {} PROVE FALSE
    BY <1>1
  <2> DEFINE i == First(Bad)
  <2>1. i \in Bad /\ \A m \in Bad : i <= m
    BY LeastOf
  <2>2. i \in Nat /\ i <= n /\ ~ Put(f, s, i, g[i])
    BY <2>1
  <2>3. i - 1 \notin Bad
    <3> SUFFICES ASSUME i - 1 \in Bad PROVE FALSE
      OBVIOUS
    <3>1. i <= i - 1
      BY <2>1
    <3> HIDE DEF i
    <3> QED BY <3>1, <2>2
  <2> HIDE DEF i
  <2>4. CASE i = 0
    BY <2>2, <2>4, <1>3, PutNone
  <2>5. CASE i # 0
    <3>1. i \in 1 .. n /\ i - 1 \in Nat /\ i - 1 <= n
      BY <2>2, <2>5, <1>1
    <3>2. Put(f, s, i - 1, g[i - 1])
      BY <2>3, <3>1
    <3>3. Put(f, s, i, Fwrite(g[i - 1], 1, <<s[i]>>).file)
      BY <3>1, <3>2, PutOneMore
    <3> QED BY <3>1, <3>3, <2>2, <1>3
  <2> QED BY <2>4, <2>5
<1>5. Put(f, s, n, g[n])
  BY <1>1, <1>4
<1>6. s # <<>> <=> n # 0
  BY EmptySeq
<1>7. Prefix(s, n) = s
  BY PrefixAll
<1>8. Fputs(f, s).bytes = <<>> /\ Fputs(f, s).file = g[n]
  BY <1>2 DEF Returned
<1> HIDE DEF n
<1> QED BY <1>5, <1>6, <1>7, <1>8 DEF Put, Wrote, n

-------------------------------------------------------------------------------
(* What i rounds of fgets have read.                                         *)
AtEnd(f) == f.vfptr = f.file_size

EndsWell(line, g) == line[Len(line)] \in {NL, NUL} \/ AtEnd(g)

Got(f, i, x) ==
  /\ Whole(x.file) /\ Content(x.file) = Content(f) /\ x.file.file_size = f.file_size
  /\ Len(x.line) \in Nat /\ Len(x.line) <= i /\ Len(x.line) <= f.file_size - f.vfptr
  /\ x.line = Delivered(f, Len(x.line))
  /\ x.file.vfptr = f.vfptr + Len(x.line)
  /\ f.fptr = f.vfptr => x.file.fptr = x.file.vfptr
  /\ x.file.eof => AtEnd(x.file)
  /\ x.null => x.ends
  /\ ~x.ends => Len(x.line) = i
  /\ x.ends => IF x.null THEN AtEnd(f) ELSE Len(x.line) # 0 /\ EndsWell(x.line, x.file)

LEMMA GotNone ==
  ASSUME NEW f, Whole(f), f.eof => AtEnd(f)
  PROVE  Got(f, 0, NoChar(f))
<1>1. f.vfptr \in Nat /\ f.file_size \in Nat /\ f.vfptr <= f.file_size
  BY DEF Whole
<1>2. Len(<<>>) = 0 /\ f.vfptr + 0 = f.vfptr /\ 0 <= f.file_size - f.vfptr
      /\ 0 \in 0 .. f.file_size - f.vfptr
  BY <1>1
<1>3. Delivered(f, 0) \in Seq(Cells) /\ Len(Delivered(f, 0)) = 0
  BY <1>2, DeliveredIs
<1>4. Delivered(f, 0) = <<>>
  BY <1>3, EmptySeq
<1>5. NoChar(f) = [file |-> f, line |-> <<>>, ends |-> FALSE, null |-> FALSE]
  BY DEF NoChar
<1> DEFINE x == NoChar(f)
<1>6. x.file = f /\ x.line = <<>> /\ x.ends = FALSE /\ x.null = FALSE
  BY <1>5
<1> HIDE DEF x
<1>7. Len(x.line) = 0
  BY <1>6, <1>2
<1>8. Got(f, 0, x)
  BY <1>2, <1>4, <1>6, <1>7 DEF Got
<1> QED BY <1>8 DEF x

(* One char more. *)
LEMMA DeliveredOneMore ==
  ASSUME NEW f, Whole(f), NEW k \in Nat, k + 1 <= f.file_size - f.vfptr,
         NEW g, Whole(g), Content(g) = Content(f), g.vfptr = f.vfptr + k,
         NEW c, <<c>> = Delivered(g, 1)
  PROVE  Append(Delivered(f, k), c) = Delivered(f, k + 1)
<1> DEFINE v == f.vfptr
           D == Delivered(f, k)
           E == Delivered(f, k + 1)
           C == Content(f)
<1>1. v \in Nat /\ f.file_size \in Nat /\ v <= f.file_size
  BY DEF Whole
<1>2. k \in 0 .. f.file_size - v /\ k + 1 \in 0 .. f.file_size - v
  BY <1>1
<1>3. \A i \in 1 .. f.file_size : C[i] = f.data[i - 1]
  BY ContentIs
<1>4. D \in Seq(Cells) /\ Len(D) = k /\ D = [i \in 1 .. k |-> f.data[v + i - 1]]
  BY <1>2, DeliveredIs
<1>5. E \in Seq(Cells) /\ Len(E) = k + 1 /\ E = [i \in 1 .. k + 1 |-> f.data[v + i - 1]]
  <2> DEFINE n == k + 1
  <2>1. n \in 0 .. f.file_size - f.vfptr
    BY <1>2
  <2> HIDE DEF n
  <2>2. Delivered(f, n) \in Seq(Cells) /\ Len(Delivered(f, n)) = n
        /\ Delivered(f, n) = [i \in 1 .. n |-> f.data[f.vfptr + i - 1]]
    BY <2>1, DeliveredIs
  <2> QED BY <2>2 DEF n
<1>6. c = E[k + 1] /\ c \in Cells
  <2>1. g.file_size = f.file_size
    BY ContentIs
  <2>2. g.vfptr \in Nat /\ 1 \in 0 .. g.file_size - g.vfptr
    BY <2>1, <1>1
  <2>3. Delivered(g, 1) = [i \in 1 .. 1 |-> g.data[g.vfptr + i - 1]]
    BY <2>2, DeliveredIs
  <2>4. c = g.data[g.vfptr + 1 - 1]
    <3>1. <<c>>[1] = c /\ 1 \in 1 .. 1
      OBVIOUS
    <3> QED BY <3>1, <2>3
  <2>5. g.vfptr + 1 \in 1 .. g.file_size /\ (g.vfptr + 1) - 1 = g.vfptr /\ g.vfptr + 1 - 1 = g.vfptr
    BY <2>1, <1>1
  <2>6. Content(g)[g.vfptr + 1] = g.data[g.vfptr]
    <3> DEFINE j == g.vfptr + 1
    <3>1. j \in 1 .. g.file_size /\ j - 1 = g.vfptr
      BY <2>5
    <3> HIDE DEF j
    <3>2. Content(g)[j] = g.data[j - 1]
      BY <3>1, ContentIs
    <3> QED BY <3>1, <3>2 DEF j
  <2>7. c = C[v + k + 1]
    BY <2>4, <2>5, <2>6
  <2>8. v + k + 1 \in 1 .. f.file_size /\ v + k + 1 - 1 = v + (k + 1) - 1
    BY <1>1
  <2>9. C[v + k + 1] = f.data[v + (k + 1) - 1]
    <3> DEFINE j == v + k + 1
               h == v + (k + 1) - 1
    <3>1. j \in 1 .. f.file_size /\ j - 1 = h
      BY <2>8, <1>1
    <3> HIDE DEF j, h, C
    <3>2. C[j] = f.data[h]
      BY <3>1, <1>3
    <3> QED BY <3>2 DEF j, h
  <2>10. E[k + 1] = f.data[v + (k + 1) - 1]
    BY <1>5
  <2>11. E[k + 1] \in Cells
    <3>1. k + 1 \in 1 .. k + 1
      OBVIOUS
    <3> QED BY <3>1, <1>5, ElementOfSeq
  <2> QED BY <2>7, <2>9, <2>10, <2>11
<1> HIDE DEF D, E, C, v
<1>7. /\ Append(D, c) \in Seq(Cells) /\ Len(Append(D, c)) = Len(D) + 1
      /\ \A i \in 1 .. Len(D) : Append(D, c)[i] = D[i]
      /\ Append(D, c)[Len(D) + 1] = c
  BY <1>4, <1>6, AppendProperties
<1>8. ASSUME NEW i \in 1 .. k + 1 PROVE Append(D, c)[i] = E[i]
  <2>1. CASE i = k + 1
    BY <2>1, <1>4, <1>6, <1>7
  <2>2. CASE i # k + 1
    <3>1. i \in 1 .. k
      BY <2>2
    <3> QED BY <3>1, <1>4, <1>5, <1>7
  <2> QED BY <2>1, <2>2
<1>9. Append(D, c) = E
  BY <1>4, <1>5, <1>7, <1>8, SeqEqual
<1> QED BY <1>9 DEF D, E

(* A round of fgets. *)
LEMMA GotOneMore ==
  ASSUME NEW f, Whole(f), f.eof => AtEnd(f), NEW i \in Nat \ {0}, NEW x, Got(f, i - 1, x)
  PROVE  Got(f, i, NextChar(x, i))
<1> DEFINE g == x.file
           k == Len(x.line)
           r == Fgetc(g)
           h == r.file
           y == NextChar(x, i)
<1>1. f.vfptr \in Nat /\ f.file_size \in Nat /\ f.vfptr <= f.file_size
  BY DEF Whole
<1>2. /\ Whole(g) /\ Content(g) = Content(f) /\ g.file_size = f.file_size
      /\ k \in Nat /\ k <= i - 1 /\ k <= f.file_size - f.vfptr
      /\ x.line = Delivered(f, k)
      /\ g.vfptr = f.vfptr + k
      /\ f.fptr = f.vfptr => g.fptr = g.vfptr
      /\ g.eof => AtEnd(g)
      /\ ~x.ends => k = i - 1
  BY DEF Got
<1>3. CASE x.ends
  <2>1. y = x
    BY <1>3 DEF NextChar
  <2>2. k <= i
    BY <1>2
  <2> QED BY <2>1, <2>2, <1>3 DEF Got
<1>4. CASE ~x.ends
  <2>1. /\ ReadFrom(g, r)
        /\ h.eof <=> g.eof \/ g.vfptr = g.file_size
        /\ g.vfptr = g.file_size => r.bytes = <<>>
        /\ g.vfptr # g.file_size => r.bytes = <<r.ret>> /\ r.ret \in Cells
    BY <1>2, FgetcReads
  <2> HIDE DEF g, k, y, r
  <2>2. /\ Whole(h) /\ Content(h) = Content(f) /\ h.file_size = f.file_size
        /\ r.bytes = Delivered(g, Len(r.bytes))
        /\ h.vfptr = g.vfptr + Len(r.bytes)
        /\ g.fptr = g.vfptr => h.fptr = h.vfptr
    BY <2>1, <1>2 DEF ReadFrom
  <2>3. h.eof <=> AtEnd(g)
    BY <2>1, <1>2 DEF AtEnd
  <2>4. y = IF h.eof THEN [file |-> h, line |-> x.line, ends |-> TRUE, null |-> i = 1]
            ELSE [file |-> h, line |-> Append(x.line, r.ret),
                  ends |-> r.ret \in {NUL, NL}, null |-> FALSE]
    BY <1>4 DEF NextChar, y, r, g
  <2>5. CASE AtEnd(g)
    <3>1. Len(r.bytes) = 0
      BY <2>1, <2>5 DEF AtEnd
    <3>2. h.vfptr = g.vfptr /\ AtEnd(h)
      BY <3>1, <2>2, <2>5, <1>1, <1>2 DEF AtEnd
    <3>3. y.file = h /\ y.line = x.line /\ y.ends = TRUE /\ (y.null <=> i = 1)
      BY <2>3, <2>4, <2>5
    <3>4. Len(y.line) = k
      BY <3>3 DEF k
    <3>13. k = i - 1
      BY <1>2, <1>4
    <3>14. i = 1 => k = 0
      BY <3>13
    <3>15. k = 0 => AtEnd(f)
      BY <2>5, <1>1, <1>2 DEF AtEnd
    <3>5. y.null => AtEnd(f)
      BY <3>3, <3>14, <3>15
    <3>16. i # 1 => k # 0
      BY <3>13
    <3>6. ~y.null => k # 0
      BY <3>3, <3>16
    <3> HIDE DEF h
    <3>7. k <= i /\ (f.fptr = f.vfptr => h.fptr = h.vfptr)
      BY <1>2, <2>2
    <3>8. /\ Whole(y.file) /\ Content(y.file) = Content(f) /\ y.file.file_size = f.file_size
          /\ Len(y.line) \in Nat /\ Len(y.line) <= i /\ Len(y.line) <= f.file_size - f.vfptr
          /\ y.line = Delivered(f, Len(y.line))
          /\ y.file.vfptr = f.vfptr + Len(y.line)
      BY <2>2, <1>2, <3>2, <3>3, <3>4, <3>7
    <3>9. Got(f, i, y)
      BY <3>2, <3>3, <3>4, <3>5, <3>6, <3>7, <3>8 DEF Got, EndsWell
    <3> QED BY <3>9 DEF y
  <2>6. CASE ~AtEnd(g)
    <3>1. r.bytes = <<r.ret>> /\ Len(r.bytes) = 1 /\ r.ret \in Cells
      <4>1. r.bytes = <<r.ret>> /\ r.ret \in Cells
        BY <2>1, <2>6 DEF AtEnd
      <4>2. Len(<<r.ret>>) = 1
        OBVIOUS
      <4> QED BY <4>1, <4>2
    <3>2. y.file = h /\ y.line = Append(x.line, r.ret) /\ y.ends = (r.ret \in {NUL, NL})
          /\ y.null = FALSE
      BY <2>3, <2>4, <2>6
    <3>3. h.vfptr = f.vfptr + (k + 1) /\ k + 1 \in Nat /\ k + 1 = i
      BY <3>1, <2>2, <1>1, <1>2, <1>4
    <3>4. k + 1 <= f.file_size - f.vfptr
      <4>1. h.vfptr <= h.file_size
        BY <2>2 DEF Whole
      <4> HIDE DEF h
      <4> QED BY <4>1, <3>3, <2>2, <1>1
    <3>5. <<r.ret>> = Delivered(g, 1)
      BY <3>1, <2>2
    <3>6. y.line = Delivered(f, k + 1)
      <4>1. Append(Delivered(f, k), r.ret) = Delivered(f, k + 1)
        BY <3>4, <3>5, <1>2, DeliveredOneMore
      <4> QED BY <4>1, <3>2, <1>2
    <3>7. x.line \in Seq(Cells)
      <4>1. k \in 0 .. f.file_size - f.vfptr
        BY <1>1, <1>2
      <4> QED BY <4>1, <1>2, DeliveredIs
    <3>8. Len(y.line) = k + 1 /\ y.line[k + 1] = r.ret
      BY <3>1, <3>2, <3>7, AppendProperties DEF k
    <3> HIDE DEF h
    <3>9. f.fptr = f.vfptr => h.fptr = h.vfptr
      BY <1>2, <2>2
    <3>10. ~h.eof
      BY <2>3, <2>6
    <3>11. y.ends => EndsWell(y.line, y.file)
      BY <3>2, <3>8 DEF EndsWell
    <3>12. /\ Whole(y.file) /\ Content(y.file) = Content(f) /\ y.file.file_size = f.file_size
          /\ Len(y.line) \in Nat /\ Len(y.line) <= i /\ Len(y.line) <= f.file_size - f.vfptr
          /\ y.line = Delivered(f, Len(y.line))
          /\ y.file.vfptr = f.vfptr + Len(y.line)
          /\ Len(y.line) # 0 /\ Len(y.line) = i
      BY <2>2, <1>2, <3>2, <3>3, <3>4, <3>6, <3>8
    <3>13. Got(f, i, y)
      BY <3>2, <3>9, <3>10, <3>11, <3>12 DEF Got
    <3> QED BY <3>13 DEF y
  <2> QED BY <2>5, <2>6
<1> QED BY <1>3, <1>4

(* fgets delivers the bytes from where the stream stands up to the end of a  *)
(* line, to its bound or to the end of the file, and NULL only there.        *)
LEMMA FgetsReads ==
  ASSUME NEW f, Whole(f), f.eof => AtEnd(f), NEW size \in Nat \ {0}
  PROVE  LET r == Fgets(f, size)
         IN /\ ReadFrom(f, r)
            /\ r.file.eof => AtEnd(r.file)
            /\ r.ret = NoLine => AtEnd(f)
            /\ r.ret # NoLine =>
                 /\ r.ret # <<>>
                 /\ Len(r.ret) = size \/ EndsWell(r.ret, r.file)
<1>1. PICK g : /\ Rounds("fgets", <<>>, NoChar(f), size, g)
               /\ Fgets(f, size) =
                    Returned(g[size].file, g[size].line,
                             IF g[size].null THEN NoLine ELSE g[size].line)
  BY FgetsRounds
<1>2. g[0] = NoChar(f) /\ \A i \in 1 .. size : g[i] = NextChar(g[i - 1], i)
  <2>1. g[0] = NoChar(f) /\ \A i \in 1 .. size : g[i] = Round("fgets", <<>>, g[i - 1], i)
    BY <1>1 DEF Rounds
  <2> QED BY <2>1 DEF Round
<1>3. \A i \in 0 .. size : Got(f, i, g[i])
  <2> DEFINE Bad == {i \in Nat : i <= size /\ ~ Got(f, i, g[i])}
  <2> SUFFICES ASSUME Bad # {} PROVE FALSE
    OBVIOUS
  <2> DEFINE i == First(Bad)
  <2>1. i \in Bad /\ \A m \in Bad : i <= m
    BY LeastOf
  <2>2. i \in Nat /\ i <= size /\ ~ Got(f, i, g[i])
    BY <2>1
  <2>3. i - 1 \notin Bad
    <3> SUFFICES ASSUME i - 1 \in Bad PROVE FALSE
      OBVIOUS
    <3>1. i <= i - 1
      BY <2>1
    <3> HIDE DEF i
    <3> QED BY <3>1, <2>2
  <2> HIDE DEF i
  <2>4. CASE i = 0
    BY <2>2, <2>4, <1>2, GotNone
  <2>5. CASE i # 0
    <3>1. i \in 1 .. size /\ i - 1 \in Nat /\ i - 1 <= size /\ i \in Nat \ {0}
      BY <2>2, <2>5
    <3>2. Got(f, i - 1, g[i - 1])
      BY <2>3, <3>1
    <3>3. Got(f, i, NextChar(g[i - 1], i))
      BY <3>1, <3>2, GotOneMore
    <3> QED BY <3>1, <3>3, <2>2, <1>2
  <2> QED BY <2>4, <2>5
<1> DEFINE x == g[size]
           r == Fgets(f, size)
           k == Len(x.line)
<1>4. Got(f, size, x)
  BY <1>3
<1>5. r.file = x.file /\ r.bytes = x.line /\ r.ret = IF x.null THEN NoLine ELSE x.line
  BY <1>1 DEF Returned
<1> HIDE DEF x, r
<1>6. k \in 0 .. f.file_size - f.vfptr
  BY <1>4 DEF Got, Whole
<1>7. x.line = Delivered(f, k)
  BY <1>4 DEF Got
<1> HIDE DEF k
<1>8. Delivered(f, k) \in Seq(Cells) /\ Len(Delivered(f, k)) = k
  BY <1>6, DeliveredIs
<1>9. ReadFrom(f, r)
  BY <1>4, <1>5, <1>7, <1>8 DEF Got, ReadFrom
<1>10. x.line # NoLine
  BY <1>7, <1>8, StreamAssumption DEF StreamAssumption, Cells
<1>11. r.ret = NoLine <=> x.null
  BY <1>5, <1>10
<1>12. x.null => AtEnd(f)
  BY <1>4 DEF Got
<1>13. ~x.null => k # 0 /\ (k = size \/ EndsWell(x.line, x.file))
  BY <1>4 DEF Got, k
<1>14. k # 0 => x.line # <<>>
  BY <1>7, <1>8, EmptySeq
<1>15. r.file.eof => AtEnd(r.file)
  BY <1>4, <1>5 DEF Got
<1> QED BY <1>5, <1>9, <1>11, <1>12, <1>13, <1>14, <1>15 DEF k, r

-------------------------------------------------------------------------------
(* Opening, seeking and clearing. *)
LEMMA OpenedWhole ==
  ASSUME NEW s \in Seq(Bytes), Len(s) <= MaxSize
  PROVE  /\ Whole(OpenedEmpty) /\ Content(OpenedEmpty) = <<>>
         /\ Whole(OpenedOn(s)) /\ Content(OpenedOn(s)) = s
<1>1. Slack \in Nat /\ Junk \in Cells /\ MaxSize \in Nat /\ Len(s) \in Nat
  BY StreamAssumption, SizesFit, LenProperties DEF StreamAssumption, Cells
<1>2. Whole(OpenedEmpty) /\ OpenedEmpty.file_size = 0
  <2> DEFINE f == OpenedEmpty
             d == [i \in 0 .. Slack - 1 |-> Junk]
  <2>1. d \in [0 .. Slack - 1 -> Cells]
    BY <1>1
  <2>2. f = [data |-> d, allocated_size |-> Slack, file_size |-> 0, fptr |-> 0, vfptr |-> 0,
             eof |-> FALSE]
    BY DEF OpenedEmpty
  <2> HIDE DEF f, d
  <2>3. /\ f.data = d /\ f.allocated_size = Slack /\ f.file_size = 0 /\ f.fptr = 0
        /\ f.vfptr = 0 /\ f.eof = FALSE
    BY <2>2
  <2>4. Whole(f)
    BY <1>1, <2>1, <2>2, <2>3 DEF Whole
  <2> QED BY <2>3, <2>4 DEF f
<1>3. Content(OpenedEmpty) = <<>>
  BY <1>2, ContentIs, EmptySeq
<1>4. /\ Whole(OpenedOn(s)) /\ OpenedOn(s).file_size = Len(s)
      /\ \A i \in 1 .. Len(s) : OpenedOn(s).data[i - 1] = s[i]
  <2> DEFINE f == OpenedOn(s)
             n == Len(s)
             d == [i \in 0 .. n - 1 |-> s[i + 1]]
  <2>1. n \in Nat /\ n <= MaxSize
    BY <1>1
  <2>2. \A i \in 1 .. n : s[i] \in Cells
    BY ElementOfSeq DEF Cells
  <2>3. f = [data |-> d, allocated_size |-> n, file_size |-> n, fptr |-> 0, vfptr |-> 0,
             eof |-> FALSE]
    BY DEF OpenedOn
  <2> HIDE DEF f, n
  <2>4. \A i \in 0 .. n - 1 : i + 1 \in 1 .. n
    BY <2>1
  <2>5. d \in [0 .. n - 1 -> Cells]
    BY <2>2, <2>4
  <2>6. \A i \in 1 .. n : d[i - 1] = s[i]
    <3> TAKE i \in 1 .. n
    <3>1. i - 1 \in 0 .. n - 1 /\ (i - 1) + 1 = i
      BY <2>1
    <3> QED BY <3>1
  <2> HIDE DEF d
  <2>7. /\ f.data = d /\ f.allocated_size = n /\ f.file_size = n /\ f.fptr = 0
        /\ f.vfptr = 0 /\ f.eof = FALSE
    BY <2>3
  <2>8. n \in 0 .. n /\ 0 \in 0 .. n
    BY <2>1
  <2>9. Whole(f)
    BY <2>1, <2>3, <2>5, <2>7, <2>8 DEF Whole
  <2> QED BY <2>6, <2>7, <2>9 DEF f, n
<1>5. Content(OpenedOn(s)) = s
  <2> DEFINE C == Content(OpenedOn(s))
  <2>1. /\ C \in Seq(Cells) /\ Len(C) = Len(s)
        /\ \A i \in 1 .. Len(s) : C[i] = s[i]
    BY <1>4, ContentIs
  <2> HIDE DEF C
  <2>2. s \in Seq(Cells)
    BY SeqMonotonic DEF Cells
  <2>3. C = s
    BY <2>1, <2>2, SeqEqual
  <2> QED BY <2>3 DEF C
<1> QED BY <1>2, <1>3, <1>4, <1>5

LEMMA FseekSeeks ==
  ASSUME NEW f, Whole(f), NEW offset, NEW whence, Sought(f, offset, whence) \in 0 .. f.file_size
  PROVE  LET r == Fseek(f, offset, whence)
         IN Whole(r.file) /\ Content(r.file) = Content(f) /\ r.bytes = <<>>
<1> DEFINE p == Sought(f, offset, whence)
           r == Fseek(f, offset, whence)
           g == [f EXCEPT !.vfptr = p]
<1>1. p \in 0 .. f.file_size
  OBVIOUS
<1>2. r.file = g /\ r.bytes = <<>>
  BY DEF Fseek, Returned
<1> HIDE DEF p, r
<1>3. g = [data |-> f.data, allocated_size |-> f.allocated_size, file_size |-> f.file_size,
           fptr |-> f.fptr, vfptr |-> p, eof |-> f.eof]
  BY DEF Whole
<1> HIDE DEF g
<1>4. /\ g.data = f.data /\ g.allocated_size = f.allocated_size /\ g.file_size = f.file_size
      /\ g.fptr = f.fptr /\ g.vfptr = p /\ g.eof = f.eof
  BY <1>3
<1>5. Whole(g)
  BY <1>1, <1>3, <1>4 DEF Whole
<1>6. Content(g) = Content(f)
  BY <1>4 DEF Content
<1> QED BY <1>2, <1>5, <1>6 DEF r

LEMMA ClearerrClears ==
  ASSUME NEW f, Whole(f)
  PROVE  LET r == Clearerr(f)
         IN /\ Whole(r.file) /\ Content(r.file) = Content(f) /\ r.bytes = <<>>
            /\ r.file.fptr = f.fptr /\ r.file.vfptr = f.vfptr /\ r.file.eof = FALSE
<1> DEFINE r == Clearerr(f)
           no == FALSE
           g == [f EXCEPT !.eof = no]
<1>1. r.file = g /\ r.bytes = <<>>
  BY DEF Clearerr, Returned
<1> HIDE DEF r, no
<1>2. g = [data |-> f.data, allocated_size |-> f.allocated_size, file_size |-> f.file_size,
           fptr |-> f.fptr, vfptr |-> f.vfptr, eof |-> no]
  BY DEF Whole
<1> HIDE DEF g
<1>3. /\ g.data = f.data /\ g.allocated_size = f.allocated_size /\ g.file_size = f.file_size
      /\ g.fptr = f.fptr /\ g.vfptr = f.vfptr /\ g.eof = no /\ no = FALSE
  BY <1>2 DEF no
<1>4. Whole(g)
  BY <1>2, <1>3 DEF Whole
<1>5. Content(g) = Content(f)
  BY <1>3 DEF Content
<1> QED BY <1>1, <1>3, <1>4, <1>5 DEF r

(* Whatever the end-of-file mark says, fgets leaves a whole FILE whole.      *)
LEMMA FgetsKeepsWhole ==
  ASSUME NEW f, Whole(f), NEW size \in Nat
  PROVE  Whole(Fgets(f, size).file)
<1>1. PICK g : /\ Rounds("fgets", <<>>, NoChar(f), size, g)
               /\ Fgets(f, size) =
                    Returned(g[size].file, g[size].line,
                             IF g[size].null THEN NoLine ELSE g[size].line)
  BY FgetsRounds
<1>2. g[0] = NoChar(f) /\ \A i \in 1 .. size : g[i] = NextChar(g[i - 1], i)
  <2>1. g[0] = NoChar(f) /\ \A i \in 1 .. size : g[i] = Round("fgets", <<>>, g[i - 1], i)
    BY <1>1 DEF Rounds
  <2> QED BY <2>1 DEF Round
<1>3. ASSUME NEW x, Whole(x.file), NEW i PROVE Whole(NextChar(x, i).file)
  <2>1. Whole(Fgetc(x.file).file)
    BY <1>3, FgetcReads DEF ReadFrom
  <2>2. NextChar(x, i).file \in {x.file, Fgetc(x.file).file}
    BY DEF NextChar
  <2> QED BY <1>3, <2>1, <2>2
<1>4. \A i \in 0 .. size : Whole(g[i].file)
  <2> DEFINE Bad == {i \in Nat : i <= size /\ ~ Whole(g[i].file)}
  <2> SUFFICES ASSUME Bad # {} PROVE FALSE
    OBVIOUS
  <2> DEFINE i == First(Bad)
  <2>1. i \in Bad /\ \A m \in Bad : i <= m
    BY LeastOf
  <2>2. i \in Nat /\ i <= size /\ ~ Whole(g[i].file)
    BY <2>1
  <2>3. i - 1 \notin Bad
    <3> SUFFICES ASSUME i - 1 \in Bad PROVE FALSE
      OBVIOUS
    <3>1. i <= i - 1
      BY <2>1
    <3> HIDE DEF i
    <3> QED BY <3>1, <2>2
  <2> HIDE DEF i
  <2>4. CASE i = 0
    BY <2>2, <2>4, <1>2 DEF NoChar
  <2>5. CASE i # 0
    <3>1. i \in 1 .. size /\ i - 1 \in Nat /\ i - 1 <= size
      BY <2>2, <2>5
    <3>2. Whole(g[i - 1].file)
      BY <2>3, <3>1
    <3>3. Whole(NextChar(g[i - 1], i).file)
      BY <3>2, <1>3
    <3> QED BY <3>1, <3>3, <2>2, <1>2
  <2> QED BY <2>4, <2>5
<1>5. Fgets(f, size).file = g[size].file
  BY <1>1 DEF Returned
<1> QED BY <1>4, <1>5

-------------------------------------------------------------------------------
(* The programs the stronger theorems are about. *)

(* Writes are of items of one byte.                                          *)
WritesBytes(p) ==
  p.calls \cap {"fwrite", "realloc fails"} # {} => \A item \in p.items : item[1] = 1

(* A program that seeks only reads, with fread and fgetc.                    *)
SeeksToRead(p) ==
  "fseek" \in p.calls => p.calls \cap {"fwrite", "fputc", "fputs", "fgets"} = {}

(* A program that reads lines does not seek, and has memory.                 *)
LinesInOrder(p) == "fgets" \in p.calls => p.calls \cap {"fseek", "realloc fails"} = {}

IInv == program \in Programs /\ (Enough => Whole(file))

(* A stream that was never sought in.                                        *)
InOrder ==
  Enough /\ ~Uses("fseek") => file.fptr = file.vfptr /\ (file.eof => AtEnd(file))

(* What a step does to a whole FILE. *)
ReadStep ==
  /\ last'.given = <<>>
  /\ ReadFrom(file, [file |-> file', bytes |-> last'.bytes])
  /\ (file.eof => AtEnd(file)) /\ file'.eof => AtEnd(file')

WriteStep ==
  /\ Uses("fwrite") \/ Uses("fputc") \/ Uses("fputs")
  /\ last'.bytes = <<>> /\ Whole(file')
  /\ \E bytes \in Seq(Bytes) :
       /\ ~PutsOther => bytes = last'.given
       /\ Len(bytes) <= MaxSize
       /\ bytes = <<>> => file' = file
       /\ bytes # <<>> =>
            /\ Wrote(file, bytes, file') /\ file'.fptr = file'.vfptr
            /\ WritesBytes(program) => file'.vfptr = file.fptr + Len(bytes)

SeekStep ==
  /\ last'.given = <<>>
  /\ last'.bytes = <<>> /\ Whole(file') /\ Content(file') = Content(file)
  /\ Uses("fseek") \/ (file'.fptr = file.fptr /\ file'.vfptr = file.vfptr /\ ~file'.eof)

(* Every item and string a program writes is a sequence of bytes.            *)
LEMMA ItemsTyped ==
  ASSUME program \in Programs, NEW item \in program.items
  PROVE  /\ item[1] \in Nat \ {0} /\ item[2] \in Nat /\ item[1] * item[2] \in Nat
         /\ item[1] * item[2] < Word \div 2
         /\ \A bytes \in [1 .. item[1] * item[2] -> Bytes] :
              bytes \in Seq(Bytes) /\ Len(bytes) = item[1] * item[2]
<1>1. item[1] \in Nat \ {0} /\ item[2] \in Nat /\ item[1] * item[2] < Word \div 2
  BY CStreamAssumption DEF CStreamAssumption
<1> DEFINE a == item[1]
           b == item[2]
           n == a * b
<1>2. n \in Nat
  <2>1. a \in Nat /\ b \in Nat
    BY <1>1
  <2> HIDE DEF a, b
  <2> QED BY <2>1
<1> HIDE DEF n
<1>3. \A bytes \in [1 .. n -> Bytes] : bytes \in Seq(Bytes) /\ Len(bytes) = n
  <2> TAKE bytes \in [1 .. n -> Bytes]
  <2>1. bytes \in Seq(Bytes)
    BY <1>2, SeqDef
  <2> QED BY <1>2, <2>1, LenProperties
<1> QED BY <1>1, <1>2, <1>3 DEF n

LEMMA DidIs ==
  ASSUME NEW call, NEW given, NEW r, Did(call, given, r)
  PROVE  /\ file' = r.file /\ last'.bytes = r.bytes /\ last'.call = call
         /\ last'.given = given /\ last'.ret = r.ret /\ program' = program
BY DEF Did

(* The end is where it was when nothing is read there. *)
LEMMA EndStays ==
  ASSUME Whole(file), ReadFrom(file, [file |-> file', bytes |-> last'.bytes]), AtEnd(file)
  PROVE  AtEnd(file')
<1> DEFINE r == [file |-> file', bytes |-> last'.bytes]
<1>1. r.file = file' /\ r.bytes = last'.bytes
  OBVIOUS
<1> HIDE DEF r
<1>2. /\ r.bytes \in Seq(Cells) /\ Len(r.bytes) <= file.file_size - file.vfptr
      /\ file'.vfptr = file.vfptr + Len(r.bytes) /\ file'.file_size = file.file_size
  BY <1>1 DEF ReadFrom, r
<1>3. Len(r.bytes) \in Nat
  BY <1>2, LenProperties
<1>4. file.vfptr = file.file_size /\ file.vfptr \in Nat
  BY DEF AtEnd, Whole
<1> QED BY <1>2, <1>3, <1>4 DEF AtEnd

LEMMA FreadStep ==
  ASSUME program \in Programs, Whole(file), DoFread
  PROVE  ReadStep
<1>1. PICK item \in program.items : Did("fread", <<>>, Fread(file, item[1], item[2]))
  BY DEF DoFread
<1> DEFINE k == item[1]
           m == item[2]
           r == Fread(file, k, m)
<1>2. k \in Nat \ {0} /\ m \in Nat
  BY ItemsTyped
<1>3. file' = r.file /\ last'.bytes = r.bytes /\ last'.given = <<>>
  BY <1>1, DidIs
<1> HIDE DEF k, m
<1>4. /\ ReadFrom(file, r)
      /\ m # 0 => (r.file.eof <=> file.eof \/ file.vfptr = file.file_size)
      /\ m = 0 => r.file = file
  BY <1>2, FreadReads
<1> HIDE DEF r
<1>5. ReadFrom(file, [file |-> file', bytes |-> last'.bytes])
  BY <1>3, <1>4 DEF ReadFrom
<1>6. AtEnd(file) => AtEnd(file')
  BY <1>5, EndStays
<1>7. file'.eof => file.eof \/ AtEnd(file)
  BY <1>3, <1>4 DEF AtEnd
<1> QED BY <1>3, <1>5, <1>6, <1>7 DEF ReadStep

LEMMA FgetcStep ==
  ASSUME Whole(file), DoFgetc
  PROVE  ReadStep
<1> DEFINE r == Fgetc(file)
<1>1. Did("fgetc", <<>>, r)
  BY DEF DoFgetc
<1>2. file' = r.file /\ last'.bytes = r.bytes /\ last'.given = <<>>
  BY <1>1, DidIs
<1>3. /\ ReadFrom(file, r)
      /\ r.file.eof <=> file.eof \/ file.vfptr = file.file_size
  BY FgetcReads
<1> HIDE DEF r
<1>4. ReadFrom(file, [file |-> file', bytes |-> last'.bytes])
  BY <1>2, <1>3 DEF ReadFrom
<1>5. AtEnd(file) => AtEnd(file')
  BY <1>4, EndStays
<1>6. file'.eof => file.eof \/ AtEnd(file)
  BY <1>2, <1>3 DEF AtEnd
<1> QED BY <1>2, <1>4, <1>5, <1>6 DEF ReadStep

LEMMA FgetsStep ==
  ASSUME program \in Programs, Whole(file), file.eof => AtEnd(file), DoFgets
  PROVE  ReadStep
<1>1. PICK size \in program.lines : Did("fgets", <<>>, Fgets(file, size))
  BY DEF DoFgets
<1>2. size \in Nat \ {0}
  BY CStreamAssumption DEF CStreamAssumption
<1> DEFINE r == Fgets(file, size)
<1>3. file' = r.file /\ last'.bytes = r.bytes /\ last'.given = <<>>
  BY <1>1, DidIs
<1>4. ReadFrom(file, r) /\ (r.file.eof => AtEnd(r.file))
  BY <1>2, FgetsReads
<1> HIDE DEF r
<1>5. ReadFrom(file, [file |-> file', bytes |-> last'.bytes])
  BY <1>3, <1>4 DEF ReadFrom
<1> QED BY <1>3, <1>4, <1>5 DEF ReadStep

LEMMA FwriteStep ==
  ASSUME program \in Programs, Whole(file), Uses("fwrite"), DoFwrite
  PROVE  WriteStep
<1>1. PICK item \in program.items : \E bytes \in [1 .. item[1] * item[2] -> Bytes] :
        /\ file.fptr + Len(bytes) <= MaxSize
        /\ Did("fwrite", bytes, Fwrite(file, item[1], bytes))
  BY DEF DoFwrite
<1>7. PICK bytes \in [1 .. item[1] * item[2] -> Bytes] :
        /\ file.fptr + Len(bytes) <= MaxSize
        /\ Did("fwrite", bytes, Fwrite(file, item[1], bytes))
  BY <1>1
<1> DEFINE k == item[1]
           r == Fwrite(file, k, bytes)
<1>2. k \in Nat \ {0} /\ bytes \in Seq(Bytes)
  BY ItemsTyped
<1>3. file' = r.file /\ last'.bytes = r.bytes /\ last'.given = bytes
  BY <1>7, DidIs
<1>4. WritesBytes(program) => k = 1
  BY DEF WritesBytes, Uses
<1> HIDE DEF k
<1>5. /\ r.bytes = <<>> /\ Whole(r.file)
      /\ bytes = <<>> => r.file = file
      /\ bytes # <<>> =>
           /\ Wrote(file, bytes, r.file)
           /\ r.file.fptr = r.file.vfptr
           /\ k = 1 => r.file.vfptr = file.fptr + Len(bytes)
  BY <1>7, <1>2, FwriteWrites
<1> HIDE DEF r
<1>6. Len(bytes) <= MaxSize
  <2>1. file.fptr \in Nat /\ Len(bytes) \in Nat /\ MaxSize \in Nat
    BY <1>2, LenProperties, SizesFit DEF Whole
  <2> QED BY <2>1, <1>7
<1> QED BY <1>2, <1>3, <1>4, <1>5, <1>6 DEF WriteStep

LEMMA FputcStep ==
  ASSUME Whole(file), Uses("fputc"), DoFputc
  PROVE  WriteStep
<1> DEFINE k == 1
           bytes == <<NUL>>
           r == Fwrite(file, k, bytes)
<1>1. PICK c \in Bytes : file.fptr < MaxSize /\ Did("fputc", <<c>>, Fputc(file, c))
  BY DEF DoFputc
<1>2. Fputc(file, c) = r
  BY DEF Fputc, FirstByteOf
<1>3. k \in Nat \ {0} /\ bytes \in Seq(Bytes) /\ Len(bytes) = 1 /\ k = 1 /\ bytes # <<>>
  BY StreamAssumption DEF StreamAssumption
<1>8. <<c>> = <<NUL>> => bytes = <<c>>
  OBVIOUS
<1> HIDE DEF k, bytes
<1>4. file' = r.file /\ last'.bytes = r.bytes /\ last'.call = "fputc" /\ last'.given = <<c>>
  BY <1>1, <1>2, DidIs
<1>5. file.fptr \in Nat /\ MaxSize \in Nat
  BY SizesFit DEF Whole
<1>6. file.fptr + Len(bytes) <= MaxSize /\ Len(bytes) <= MaxSize
  BY <1>1, <1>3, <1>5
<1>7. /\ r.bytes = <<>> /\ Whole(r.file)
      /\ bytes # <<>> =>
           /\ Wrote(file, bytes, r.file)
           /\ r.file.fptr = r.file.vfptr
           /\ k = 1 => r.file.vfptr = file.fptr + Len(bytes)
  <2>1. /\ Whole(file) /\ k \in Nat \ {0} /\ bytes \in Seq(Bytes)
        /\ file.fptr + Len(bytes) <= MaxSize
    BY <1>3, <1>6
  <2> QED BY <2>1, FwriteWrites, Zenon
<1> HIDE DEF r
<1>9. ~PutsOther => bytes = last'.given
  BY <1>4, <1>8 DEF PutsOther
<1> QED BY <1>3, <1>4, <1>6, <1>7, <1>9 DEF WriteStep

LEMMA FputsStep ==
  ASSUME program \in Programs, Whole(file), Uses("fputs"), DoFputs
  PROVE  WriteStep
<1>6. PICK item \in program.items : \E s \in [1 .. item[1] * item[2] -> Bytes \ {NUL}] :
        file.fptr + Len(s) <= MaxSize /\ Did("fputs", s, Fputs(file, s))
  BY DEF DoFputs
<1>1. PICK s \in [1 .. item[1] * item[2] -> Bytes \ {NUL}] :
        file.fptr + Len(s) <= MaxSize /\ Did("fputs", s, Fputs(file, s))
  BY <1>6
<1> DEFINE r == Fputs(file, s)
<1>2. s \in Seq(Bytes)
  <2>1. s \in [1 .. item[1] * item[2] -> Bytes]
    OBVIOUS
  <2> QED BY <2>1, ItemsTyped
<1>3. file' = r.file /\ last'.bytes = r.bytes /\ last'.given = s
  BY <1>1, DidIs
<1>4. /\ r.bytes = <<>> /\ Whole(r.file)
      /\ s = <<>> => r.file = file
      /\ s # <<>> =>
           /\ Wrote(file, s, r.file)
           /\ r.file.fptr = r.file.vfptr
           /\ r.file.vfptr = file.fptr + Len(s)
  BY <1>1, <1>2, FputsWrites
<1> HIDE DEF r
<1>5. Len(s) <= MaxSize
  <2>1. file.fptr \in Nat /\ Len(s) \in Nat /\ MaxSize \in Nat
    BY <1>2, LenProperties, SizesFit DEF Whole
  <2> QED BY <2>1, <1>1
<1> QED BY <1>2, <1>3, <1>4, <1>5 DEF WriteStep

LEMMA FseekStep ==
  ASSUME Whole(file), Uses("fseek"), DoFseek
  PROVE  SeekStep
<1>1. PICK offset \in -MaxSize .. MaxSize, whence \in Whences :
        /\ Sought(file, offset, whence) \in 0 .. file.file_size
        /\ Did("fseek", <<>>, Fseek(file, offset, whence))
  BY DEF DoFseek
<1> DEFINE r == Fseek(file, offset, whence)
<1>2. file' = r.file /\ last'.bytes = r.bytes /\ last'.given = <<>>
  BY <1>1, DidIs
<1>3. Whole(r.file) /\ Content(r.file) = Content(file) /\ r.bytes = <<>>
  BY <1>1, FseekSeeks
<1> HIDE DEF r
<1> QED BY <1>2, <1>3 DEF SeekStep

LEMMA ClearerrStep ==
  ASSUME Whole(file), DoClearerr
  PROVE  SeekStep
<1> DEFINE r == Clearerr(file)
<1>1. file' = r.file /\ last'.bytes = r.bytes /\ last'.given = <<>>
  BY DidIs DEF DoClearerr
<1>2. /\ Whole(r.file) /\ Content(r.file) = Content(file) /\ r.bytes = <<>>
      /\ r.file.fptr = file.fptr /\ r.file.vfptr = file.vfptr /\ ~r.file.eof
  BY ClearerrClears
<1> HIDE DEF r
<1>3. last'.given = <<>> /\ last'.bytes = <<>> /\ Whole(file') /\ Content(file') = Content(file)
  BY <1>1, <1>2
<1>4. file'.fptr = file.fptr /\ file'.vfptr = file.vfptr /\ ~file'.eof
  BY <1>1, <1>2
<1> QED BY <1>3, <1>4 DEF SeekStep

(* Every step of a program with memory reads, writes or seeks.               *)
LEMMA StepIs ==
  ASSUME program \in Programs, Enough, Whole(file), Next,
         Uses("fgets") => (file.eof => AtEnd(file))
  PROVE  ReadStep \/ WriteStep \/ SeekStep
<1>1. CASE Uses("fread") /\ DoFread
  BY <1>1, FreadStep
<1>2. CASE Uses("fwrite") /\ DoFwrite
  BY <1>2, FwriteStep
<1>3. CASE Uses("realloc fails") /\ DoFwriteFails
  BY <1>3 DEF Enough
<1>4. CASE Uses("fputc") /\ DoFputc
  BY <1>4, FputcStep
<1>5. CASE Uses("fputs") /\ DoFputs
  BY <1>5, FputsStep
<1>6. CASE Uses("fseek") /\ DoFseek
  BY <1>6, FseekStep
<1>7. CASE Uses("clearerr") /\ DoClearerr
  BY <1>7, ClearerrStep
<1>8. CASE Uses("fgetc") /\ DoFgetc
  BY <1>8, FgetcStep
<1>9. CASE Uses("fgets") /\ DoFgets
  BY <1>9, FgetsStep
<1> QED BY <1>1, <1>2, <1>3, <1>4, <1>5, <1>6, <1>7, <1>8, <1>9 DEF Next

-------------------------------------------------------------------------------
LEMMA InitIInv == Init => IInv /\ InOrder
<1> SUFFICES ASSUME Init PROVE IInv /\ InOrder
  OBVIOUS
<1>1. PICK s \in program.contents : file = IF s = <<>> THEN OpenedEmpty ELSE OpenedOn(s)
  BY DEF Init
<1>2. program \in Programs /\ s \in Seq(Bytes) /\ Len(s) <= MaxSize
  BY CStreamAssumption DEF Init, CStreamAssumption
<1>3. Whole(file)
  BY <1>1, <1>2, OpenedWhole
<1>4. file.fptr = 0 /\ file.vfptr = 0 /\ ~file.eof
  BY <1>1 DEF OpenedEmpty, OpenedOn
<1> QED BY <1>2, <1>3, <1>4 DEF IInv, InOrder

LEMMA NextIInv == IInv /\ [Next]_vars => IInv'
<1> SUFFICES ASSUME IInv, [Next]_vars PROVE IInv'
  OBVIOUS
<1>1. CASE UNCHANGED vars
  BY <1>1 DEF IInv, vars, Enough, Uses
<1>2. CASE Next
  <2>1. program' = program
    BY <1>2 DEF Next, DoFread, DoFwrite, DoFwriteFails, DoFputc, DoFputs, DoFseek, DoClearerr,
                DoFgetc, DoFgets, Did
  <2>2. program \in Programs
    BY DEF IInv
  <2>3. ASSUME Enough PROVE Whole(file')
    <3>1. Whole(file)
      BY <2>3 DEF IInv
    <3>2. CASE Uses("fgets") /\ DoFgets
      <4>1. PICK size \in program.lines : Did("fgets", <<>>, Fgets(file, size))
        BY <3>2 DEF DoFgets
      <4>2. size \in Nat
        BY <2>2, CStreamAssumption DEF CStreamAssumption
      <4>3. file' = Fgets(file, size).file
        BY <4>1 DEF Did
      <4> QED BY <3>1, <4>2, <4>3, FgetsKeepsWhole
    <3>3. CASE ~ (Uses("fgets") /\ DoFgets)
      <4>1. ReadStep \/ WriteStep \/ SeekStep
        <5>1. CASE ~Uses("fgets")
          BY <5>1, <1>2, <2>2, <2>3, <3>1, StepIs
        <5>2. CASE ~DoFgets
          <6>1. CASE Uses("fread") /\ DoFread
            BY <6>1, <2>2, <3>1, FreadStep
          <6>2. CASE Uses("fwrite") /\ DoFwrite
            BY <6>2, <2>2, <3>1, FwriteStep
          <6>3. CASE Uses("fputc") /\ DoFputc
            BY <6>3, <3>1, FputcStep
          <6>4. CASE Uses("fputs") /\ DoFputs
            BY <6>4, <2>2, <3>1, FputsStep
          <6>5. CASE Uses("fseek") /\ DoFseek
            BY <6>5, <3>1, FseekStep
          <6>6. CASE DoClearerr
            BY <6>6, <3>1, ClearerrStep
          <6>7. CASE DoFgetc
            BY <6>7, <3>1, FgetcStep
          <6> QED BY <1>2, <2>3, <5>2, <6>1, <6>2, <6>3, <6>4, <6>5, <6>6, <6>7 DEF Next, Enough
        <5> QED BY <3>3, <5>1, <5>2
      <4>2. ReadStep => Whole(file')
        BY DEF ReadStep, ReadFrom
      <4> QED BY <4>1, <4>2 DEF WriteStep, SeekStep
    <3> QED BY <3>2, <3>3
  <2>4. Enough' <=> Enough
    BY <2>1 DEF Enough, Uses
  <2> QED BY <2>1, <2>2, <2>3, <2>4 DEF IInv
<1> QED BY <1>1, <1>2

THEOREM SpecIInv == Spec => []IInv
<1>1. Init => IInv
  BY InitIInv
<1> QED BY <1>1, NextIInv, PTL DEF Spec

(* The pointers of the FILE stay inside its data, and its data inside its    *)
(* memory (memory-filesystem.c, fileops.c), as long as there is memory: for  *)
(* every program, seeks, short writes of long items and lines included.      *)
THEOREM TypeCorrect == Spec => []TypeOK
<1>1. IInv => TypeOK
  BY DEF IInv, TypeOK, Whole, Cells
<1> QED BY <1>1, SpecIInv, PTL

LEMMA NextInOrder == IInv /\ InOrder /\ WritesBytes(program) /\ [Next]_vars => InOrder'
<1> SUFFICES ASSUME IInv, InOrder, WritesBytes(program), [Next]_vars PROVE InOrder'
  OBVIOUS
<1>1. CASE UNCHANGED vars
  BY <1>1 DEF InOrder, vars, Enough, Uses, AtEnd
<1>2. CASE Next
  <2>1. program' = program
    BY <1>2 DEF Next, DoFread, DoFwrite, DoFwriteFails, DoFputc, DoFputs, DoFseek, DoClearerr,
                DoFgetc, DoFgets, Did
  <2> SUFFICES ASSUME Enough, ~Uses("fseek")
               PROVE  file'.fptr = file'.vfptr /\ (file'.eof => AtEnd(file'))
    BY <2>1 DEF InOrder, Enough, Uses, AtEnd
  <2>2. program \in Programs /\ Whole(file)
    BY DEF IInv
  <2>3. file.fptr = file.vfptr /\ (file.eof => AtEnd(file))
    BY DEF InOrder
  <2>4. CASE ReadStep
    BY <2>3, <2>4 DEF ReadStep, ReadFrom
  <2>5. CASE WriteStep
    <3>1. PICK bytes \in Seq(Bytes) :
            /\ bytes = <<>> => file' = file
            /\ bytes # <<>> =>
                 /\ Wrote(file, bytes, file') /\ file'.fptr = file'.vfptr
                 /\ file'.vfptr = file.fptr + Len(bytes)
      BY <2>5 DEF WriteStep
    <3>2. CASE bytes = <<>>
      BY <3>1, <3>2, <2>3
    <3>3. CASE bytes # <<>>
      <4>1. /\ file'.fptr = file'.vfptr /\ file'.vfptr = file.fptr + Len(bytes)
            /\ file'.file_size = Greatest(file.fptr + Len(bytes), file.file_size)
            /\ file'.eof => file.eof
        BY <3>1, <3>3 DEF Wrote
      <4>2. file.file_size \in Nat /\ Len(bytes) \in Nat
        BY <2>2, LenProperties DEF Whole
      <4>3. file.eof => file.fptr = file.file_size
        BY <2>3 DEF AtEnd
      <4>4. file.eof => file'.vfptr = file'.file_size
        BY <4>1, <4>2, <4>3 DEF Greatest
      <4> QED BY <4>1, <4>4 DEF AtEnd
    <3> QED BY <3>2, <3>3
  <2>6. CASE SeekStep
    BY <2>3, <2>6 DEF SeekStep
  <2> QED BY <1>2, <2>2, <2>3, <2>4, <2>5, <2>6, StepIs
<1> QED BY <1>1, <1>2

THEOREM SpecInOrder ==
  ASSUME \A p \in Programs : WritesBytes(p)
  PROVE  Spec => []InOrder
<1>1. Init => InOrder
  BY InitIInv
<1>2. IInv /\ InOrder /\ [Next]_vars => InOrder'
  <2>1. IInv => WritesBytes(program)
    BY DEF IInv
  <2> QED BY <2>1, NextInOrder
<1> QED BY <1>1, <1>2, SpecIInv, PTL DEF Spec

(* feof() never lies about a stream that was never sought in (fread and      *)
(* fgetc set the mark, a write that grows the file resets it), for every     *)
(* program whose items are single bytes: fwrite of longer items moves the    *)
(* pointers by the number of items.                                          *)
THEOREM EndsAreMeant ==
  ASSUME \A p \in Programs : WritesBytes(p)
  PROVE  Spec => []EofMeansEnd
<1>1. InOrder => EofMeansEnd
  BY DEF InOrder, EofMeansEnd, AtEnd
<1> QED BY <1>1, SpecInOrder, PTL

-------------------------------------------------------------------------------
(* The stream implements ByteStream. *)
LEMMA ReadRefines ==
  ASSUME Whole(file), ReadStep
  PROVE  Contract!Next
<1> DEFINE n == Len(last'.bytes)
           C == Content(file)
           v == file.vfptr
<1>1. ReadFrom(file, [file |-> file', bytes |-> last'.bytes]) /\ last'.given = <<>>
  BY DEF ReadStep
<1>2. /\ Content(file') = C /\ last'.bytes \in Seq(Cells) /\ n <= file.file_size - v
      /\ last'.bytes = SubSeq(C, v + 1, v + n) /\ file'.vfptr = v + n
  BY <1>1 DEF ReadFrom, Delivered
<1>3. n \in Nat /\ Len(C) = file.file_size
  BY <1>2, ContentIs, LenProperties
<1>4. v \in Nat /\ file.file_size \in Nat /\ file.file_size <= MaxSize /\ MaxSize \in Nat
  BY SizesFit DEF Whole
<1>5. n \in 0 .. MaxSize
  BY <1>2, <1>3, <1>4
<1> HIDE DEF C, v
<1>6. (IF v + n < Len(C) THEN v + n ELSE Len(C)) = v + n
  BY <1>2, <1>3, <1>4
<1>7. Contract!Read(n)
  BY <1>1, <1>2, <1>6 DEF Contract!Read, C, v
<1> HIDE DEF n
<1> QED BY <1>5, <1>7 DEF Contract!Next

LEMMA WriteRefines ==
  ASSUME Whole(file), file.fptr = file.vfptr, WritesBytes(program), WriteStep, ~PutsOther
  PROVE  Contract!Next
<1>1. PICK bytes \in Seq(Bytes) :
        /\ bytes = last'.given
        /\ Len(bytes) <= MaxSize
        /\ bytes = <<>> => file' = file
        /\ bytes # <<>> =>
             /\ Wrote(file, bytes, file')
             /\ file'.vfptr = file.fptr + Len(bytes)
  BY DEF WriteStep
<1>2. last'.bytes = <<>>
  BY DEF WriteStep
<1> DEFINE n == Len(bytes)
           C == Content(file)
           v == file.vfptr
<1>3. v \in Nat /\ file.file_size \in Nat /\ v <= file.file_size /\ file.file_size <= MaxSize
      /\ MaxSize \in Nat /\ n \in Nat
  BY SizesFit, LenProperties DEF Whole
<1>4. C \in Seq(Cells) /\ Len(C) = file.file_size
  BY ContentIs
<1>5. CASE bytes = <<>>
  <2>1. Contract!Seek(v)
    BY <1>1, <1>2, <1>5 DEF Contract!Seek
  <2>2. v \in 0 .. MaxSize
    BY <1>3
  <2> HIDE DEF v
  <2> QED BY <2>1, <2>2 DEF Contract!Next
<1>6. CASE bytes # <<>>
  <2>1. v \in 0 .. Len(C)
    BY <1>3, <1>4
  <2>2. Content(file') = Overwritten(C, v, bytes) /\ file'.vfptr = v + n
    BY <1>1, <1>6 DEF Wrote
  <2> HIDE DEF C, v
  <2>3. Overwritten(C, v, bytes) = SubSeq(C, 1, v) \o bytes \o SubSeq(C, v + n + 1, Len(C))
    BY <1>4, <2>1, OverwrittenParts
  <2>4. v <= Len(C)
    BY <1>3, <1>4
  <2>5. Contract!Write(bytes)
    BY <1>1, <1>2, <2>2, <2>3, <2>4 DEF Contract!Write, C, v
  <2>6. bytes \in [1 .. n -> Bytes] /\ n \in 0 .. MaxSize
    BY <1>1, <1>3, LenProperties
  <2> HIDE DEF n
  <2> QED BY <2>5, <2>6 DEF Contract!Next
<1> QED BY <1>5, <1>6

LEMMA SeekRefines ==
  ASSUME Whole(file), SeekStep
  PROVE  Contract!Next
<1> DEFINE v == file'.vfptr
<1>1. Whole(file') /\ Content(file') = Content(file) /\ last'.bytes = <<>> /\ last'.given = <<>>
  BY DEF SeekStep
<1>2. v \in 0 .. MaxSize
  BY <1>1, SizesFit DEF Whole
<1>3. Contract!Seek(v)
  BY <1>1 DEF Contract!Seek
<1> HIDE DEF v
<1> QED BY <1>2, <1>3 DEF Contract!Next

LEMMA InitRefines == Init => Contract!Init
<1> SUFFICES ASSUME Init PROVE Contract!Init
  OBVIOUS
<1>1. PICK s \in program.contents : file = IF s = <<>> THEN OpenedEmpty ELSE OpenedOn(s)
  BY DEF Init
<1>2. program \in Programs /\ s \in Seq(Bytes) /\ Len(s) <= MaxSize
  BY CStreamAssumption DEF Init, CStreamAssumption
<1>3. Content(file) = s
  BY <1>1, <1>2, OpenedWhole
<1>4. file.vfptr = 0
  BY <1>1 DEF OpenedEmpty, OpenedOn
<1>5. last.bytes = <<>> /\ last.given = <<>>
  BY DEF Init
<1> QED BY <1>2, <1>3, <1>4, <1>5 DEF Contract!Init

LEMMA NextRefines ==
  IInv /\ InOrder /\ WritesBytes(program) /\ SeeksToRead(program) /\ [Next]_vars
    => (Enough /\ ~PutsOther => [Contract!Next]_(Contract!vars))
<1> SUFFICES ASSUME IInv, InOrder, WritesBytes(program), SeeksToRead(program), [Next]_vars, Enough, ~PutsOther
             PROVE  [Contract!Next]_(Contract!vars)
  OBVIOUS
<1>1. program \in Programs /\ Whole(file)
  BY DEF IInv
<1>2. CASE UNCHANGED vars
  BY <1>2 DEF vars, Contract!vars
<1>3. CASE Next
  <2>1. Uses("fgets") => (file.eof => AtEnd(file))
    BY DEF SeeksToRead, InOrder, Uses
  <2>2. ReadStep \/ WriteStep \/ SeekStep
    BY <1>1, <1>3, <2>1, StepIs
  <2>3. CASE ReadStep
    BY <1>1, <2>3, ReadRefines
  <2>4. CASE WriteStep
    <3>1. ~Uses("fseek")
      BY <2>4 DEF WriteStep, SeeksToRead, Uses
    <3>2. file.fptr = file.vfptr
      BY <3>1 DEF InOrder
    <3> QED BY <1>1, <2>4, <3>2, WriteRefines
  <2>5. CASE SeekStep
    BY <1>1, <2>5, SeekRefines
  <2> QED BY <2>2, <2>3, <2>4, <2>5
<1> QED BY <1>2, <1>3

(* The FILE of the C library on a memory file is the byte stream a C program *)
(* expects: it delivers what is there and stores what fwrite, fputs and      *)
(* fputc(NUL) are given, where it stands (fileops.c, memory-filesystem.c).   *)
(* So it is as long as there is memory, for every program that writes items  *)
(* of one byte and does not both seek and write: fwrite stores at fptr,      *)
(* which fseek does not move (run "stream_overwrite"). Of fputc of another   *)
(* char nothing is claimed, it stores NUL, and of every later step all is.   *)
THEOREM StreamImplementsContract ==
  ASSUME \A p \in Programs : WritesBytes(p) /\ SeeksToRead(p)
  PROVE  Spec => ImplementsByteStream
<1>1. Init => Contract!Init
  BY InitRefines
<1>2. IInv /\ InOrder /\ [Next]_vars => (Enough /\ ~PutsOther => [Contract!Next]_(Contract!vars))
  <2>1. IInv => WritesBytes(program) /\ SeeksToRead(program)
    BY DEF IInv
  <2> QED BY <2>1, NextRefines
<1>3. Spec => []InOrder
  BY SpecInOrder
<1>4. IInv /\ InOrder /\ [Next]_vars
        => [Enough /\ ~PutsOther => [Contract!Next]_(Contract!vars)]_vars
  BY <1>2
<1> QED BY <1>1, <1>4, <1>3, SpecIInv, PTL DEF Spec, ImplementsByteStream

-------------------------------------------------------------------------------
(* Only fgets is recorded as fgets, and only the writes as fwrite.           *)
LEMMA CallNamed ==
  /\ DoFread \/ DoFputc \/ DoFputs \/ DoFseek \/ DoClearerr \/ DoFgetc
       => last'.call \notin {"fgets", "fwrite"}
  /\ DoFwrite \/ DoFwriteFails => last'.call = "fwrite"
  /\ DoFgets => last'.call = "fgets"
<1>1. DoFread => last'.call = "fread"
  BY DEF DoFread, Did
<1>2. DoFputc => last'.call = "fputc"
  BY DEF DoFputc, Did
<1>3. DoFputs => last'.call = "fputs"
  BY DEF DoFputs, Did
<1>4. DoFseek => last'.call = "fseek"
  BY DEF DoFseek, Did
<1>5. DoClearerr => last'.call = "clearerr"
  BY DEF DoClearerr, Did
<1>6. DoFgetc => last'.call = "fgetc"
  BY DEF DoFgetc, Did
<1>7. DoFwrite \/ DoFwriteFails => last'.call = "fwrite"
  BY DEF DoFwrite, DoFwriteFails, Did
<1>8. DoFgets => last'.call = "fgets"
  BY DEF DoFgets, Did
<1> QED BY <1>1, <1>2, <1>3, <1>4, <1>5, <1>6, <1>7, <1>8

(* fgets returns whole lines, for every program that reads lines without     *)
(* seeking: the mark of the end would end the line of one that sought back.  *)
THEOREM LinesComeWhole ==
  ASSUME \A p \in Programs : WritesBytes(p) /\ LinesInOrder(p)
  PROVE  Spec => LinesWhole
<1> DEFINE Ends == last'.call = "fgets" =>
       \/ last'.ret = NoLine /\ file.vfptr = file.file_size
       \/ last'.ret # NoLine /\ last'.ret # <<>>
            /\ \/ Len(last'.ret) \in program.lines
               \/ last'.ret[Len(last'.ret)] \in {NL, NUL}
               \/ file'.vfptr = file'.file_size
<1>1. IInv /\ InOrder /\ Next => Ends
  <2> SUFFICES ASSUME IInv, InOrder, Next, last'.call = "fgets" PROVE Ends
    OBVIOUS
  <2>1. program \in Programs
    BY DEF IInv
  <2>2. Uses("fgets") /\ DoFgets
    BY CallNamed DEF Next
  <2>3. ~Uses("fseek") /\ Enough
    BY <2>1, <2>2 DEF LinesInOrder, Enough, Uses
  <2>4. Whole(file) /\ (file.eof => AtEnd(file))
    BY <2>3 DEF IInv, InOrder
  <2>5. PICK size \in program.lines : Did("fgets", <<>>, Fgets(file, size))
    BY <2>2 DEF DoFgets
  <2>6. size \in Nat \ {0}
    BY <2>1, CStreamAssumption DEF CStreamAssumption
  <2> DEFINE r == Fgets(file, size)
  <2>7. file' = r.file /\ last'.ret = r.ret
    BY <2>5 DEF Did
  <2>8. /\ r.ret = NoLine => AtEnd(file)
        /\ r.ret # NoLine =>
             /\ r.ret # <<>>
             /\ Len(r.ret) = size \/ EndsWell(r.ret, r.file)
    BY <2>4, <2>6, FgetsReads
  <2> HIDE DEF r
  <2> QED BY <2>7, <2>8 DEF AtEnd, EndsWell
<1>2. IInv /\ InOrder /\ [Next]_vars => [Ends]_vars
  BY <1>1
<1>3. Spec => []InOrder
  BY SpecInOrder
<1>4. Spec => [][Ends]_vars
  BY <1>2, <1>3, SpecIInv, PTL DEF Spec
<1> QED BY <1>4 DEF LinesWhole

-------------------------------------------------------------------------------
(* A FILE whose memory may be gone: it is all there or all lost.             *)
Sane(f) ==
  /\ f = [data |-> f.data, allocated_size |-> f.allocated_size, file_size |-> f.file_size,
          fptr |-> f.fptr, vfptr |-> f.vfptr, eof |-> f.eof]
  /\ f.allocated_size \in Nat /\ f.file_size \in Int /\ f.fptr \in Int /\ f.vfptr \in Int
  /\ DOMAIN f.data = {} \/ DOMAIN f.data = 0 .. f.allocated_size - 1

Keeps(f, g) == Sane(g) /\ (DOMAIN f.data # {} => DOMAIN g.data # {})

LEMMA SignedTyped ==
  ASSUME NEW n \in Int
  PROVE  Unsigned(n) \in Nat /\ Unsigned(n) < Word /\ Signed(n) \in Int
<1>1. Word \in Nat /\ Word > 0
  BY StreamAssumption DEF StreamAssumption
<1>2. n % Word \in 0 .. Word - 1
  BY <1>1
<1> QED BY <1>1, <1>2 DEF Unsigned, Signed

LEMMA MovedSane ==
  ASSUME NEW f, Sane(f), NEW n \in Int
  PROVE  Keeps(f, Moved(f, n))
<1> DEFINE p == Signed(f.fptr + n)
           g == Moved(f, n)
<1>1. f.fptr + n \in Int
  BY DEF Sane
<1>2. p \in Int
  BY <1>1, SignedTyped
<1>3. g = [f EXCEPT !.fptr = p, !.vfptr = p]
  BY DEF Moved
<1> HIDE DEF p, g
<1>4. g = [data |-> f.data, allocated_size |-> f.allocated_size, file_size |-> f.file_size,
           fptr |-> p, vfptr |-> p, eof |-> f.eof]
  BY <1>3 DEF Sane
<1>5. /\ g.data = f.data /\ g.allocated_size = f.allocated_size /\ g.file_size = f.file_size
      /\ g.fptr = p /\ g.vfptr = p /\ g.eof = f.eof
  BY <1>4
<1>6. Keeps(f, g)
  BY <1>2, <1>4, <1>5 DEF Keeps, Sane
<1> QED BY <1>6 DEF g

LEMMA FreadSane ==
  ASSUME NEW f, Sane(f), NEW k \in Nat \ {0}, NEW m \in Nat
  PROVE  Sane(Fread(f, k, m).file)
<1> DEFINE n == k * m
           g == [f EXCEPT !.fptr = f.vfptr]
           r == Read(g, n)
           size == Least(n, Unsigned(g.file_size - g.fptr))
           h == r.file
<1>1. n \in Nat
  OBVIOUS
<1>2. CASE n = 0
  BY <1>2 DEF Fread, Returned
<1>3. CASE n # 0
  <2>1. Fread(f, k, m) = Returned(Moved(r.file, r.ret), r.bytes, r.ret \div k)
    BY <1>3 DEF Fread
  <2> HIDE DEF n
  <2>2. g = [data |-> f.data, allocated_size |-> f.allocated_size, file_size |-> f.file_size,
             fptr |-> f.vfptr, vfptr |-> f.vfptr, eof |-> f.eof]
    BY DEF Sane
  <2> HIDE DEF g
  <2>3. /\ g.data = f.data /\ g.allocated_size = f.allocated_size
        /\ g.file_size = f.file_size /\ g.fptr = f.vfptr /\ g.vfptr = f.vfptr /\ g.eof = f.eof
    BY <2>2
  <2>4. size \in Int
    <3>1. g.file_size - g.fptr \in Int
      BY <2>3 DEF Sane
    <3>2. Unsigned(g.file_size - g.fptr) \in Nat
      BY <3>1, SignedTyped
    <3> QED BY <3>2, <1>1 DEF Least
  <2> DEFINE e == g.eof \/ Unsigned(g.fptr) >= g.file_size
  <2>5. r.ret = size /\ r.file = [g EXCEPT !.eof = e]
    BY DEF Read, Returned
  <2> HIDE DEF r, size, e
  <2>6. h = [data |-> f.data, allocated_size |-> f.allocated_size, file_size |-> f.file_size,
             fptr |-> f.vfptr, vfptr |-> f.vfptr, eof |-> e]
    BY <2>2, <2>5
  <2> HIDE DEF h
  <2>7. /\ h.data = f.data /\ h.allocated_size = f.allocated_size
        /\ h.file_size = f.file_size /\ h.fptr = f.vfptr /\ h.vfptr = f.vfptr /\ h.eof = e
    BY <2>6
  <2>8. Sane(h)
    BY <2>6, <2>7 DEF Sane
  <2>9. Sane(Moved(h, size))
    BY <2>4, <2>8, MovedSane DEF Keeps
  <2> QED BY <2>1, <2>5, <2>9 DEF h, Returned
<1> QED BY <1>2, <1>3

LEMMA NextCharSane ==
  ASSUME NEW x, Sane(x.file), NEW i
  PROVE  Sane(NextChar(x, i).file)
<1> DEFINE k == 1
<1>1. k \in Nat \ {0} /\ k \in Nat /\ k = 1
  OBVIOUS
<1> HIDE DEF k
<1>2. Sane(Fread(x.file, k, k).file)
  BY <1>1, FreadSane
<1>3. Fgetc(x.file).file = Fread(x.file, k, k).file
  BY <1>1 DEF Fgetc, Returned
<1>4. NextChar(x, i).file \in {x.file, Fgetc(x.file).file}
  BY DEF NextChar
<1> QED BY <1>2, <1>3, <1>4

(* A write that gets its memory keeps the data, one that does not loses it.  *)
LEMMA FwriteSane ==
  ASSUME NEW f, Sane(f), NEW k \in Nat \ {0}, NEW bytes \in Seq(Bytes)
  PROVE  Keeps(f, Fwrite(f, k, bytes).file)
<1> DEFINE w == Write(f, bytes)
           new_size == Greatest(f.fptr + Len(bytes), f.file_size)
           grows == new_size > f.allocated_size
           allocated == IF grows THEN new_size + Slack ELSE f.allocated_size
           data == IF DOMAIN f.data = {} /\ ~grows THEN f.data
                   ELSE StoredOver(f.data, allocated, f.fptr, bytes)
           e == f.eof /\ ~grows
           n == Len(bytes)
           h == w.file
<1>1. CASE bytes = <<>>
  BY <1>1 DEF Fwrite, Returned, Keeps
<1>2. CASE bytes # <<>>
  <2>1. Fwrite(f, k, bytes).file = Moved(h, w.ret \div k)
    BY <1>2 DEF Fwrite, Fwritten, Returned
  <2>2. /\ h = [f EXCEPT !.data = data, !.allocated_size = allocated, !.file_size = new_size,
                         !.eof = e]
        /\ w.ret = n
    BY DEF Write, Returned
  <2>3. n \in Nat /\ Slack \in Nat
    BY LenProperties, StreamAssumption DEF StreamAssumption
  <2>4. new_size \in Int /\ f.allocated_size \in Nat
    BY <2>3 DEF Greatest, Sane
  <2> HIDE DEF n, new_size, e
  <2>5. allocated \in Nat /\ (grows => allocated > 0)
    BY <2>3, <2>4
  <2>6. DOMAIN f.data = {} /\ ~grows => data = f.data
    OBVIOUS
  <2>7. ~ (DOMAIN f.data = {} /\ ~grows) => DOMAIN data = 0 .. allocated - 1
    BY DEF StoredOver
  <2>8. ~grows => allocated = f.allocated_size
    OBVIOUS
  <2> HIDE DEF data, w, h, allocated
  <2>9. h = [data |-> data, allocated_size |-> allocated, file_size |-> new_size,
             fptr |-> f.fptr, vfptr |-> f.vfptr, eof |-> e]
    BY <2>2 DEF Sane
  <2>10. /\ h.data = data /\ h.allocated_size = allocated
         /\ h.file_size = new_size /\ h.fptr = f.fptr /\ h.vfptr = f.vfptr /\ h.eof = e
    BY <2>9
  <2>11. DOMAIN data = {} \/ DOMAIN data = 0 .. allocated - 1
    BY <2>6, <2>7
  <2>12. Sane(h)
    BY <2>4, <2>5, <2>9, <2>10, <2>11 DEF Sane
  <2>13. DOMAIN f.data # {} => DOMAIN data # {}
    <3> SUFFICES ASSUME DOMAIN f.data # {} PROVE DOMAIN data # {}
      OBVIOUS
    <3>1. DOMAIN f.data = 0 .. f.allocated_size - 1
      BY DEF Sane
    <3>2. f.allocated_size > 0
      BY <3>1, <2>4
    <3>3. allocated > 0
      BY <3>2, <2>5, <2>8
    <3>4. 0 \in 0 .. allocated - 1
      BY <3>3, <2>5
    <3> QED BY <3>4, <2>7
  <2>14. w.ret \div k \in Int
    BY <2>2, <2>3, Quotient
  <2>15. Keeps(h, Moved(h, w.ret \div k))
    BY <2>12, <2>14, MovedSane
  <2> QED BY <2>1, <2>10, <2>13, <2>15 DEF Keeps
<1> QED BY <1>1, <1>2

LEMMA FwriteFailsSane ==
  ASSUME NEW f, Sane(f), NEW k \in Nat \ {0}, NEW bytes
  PROVE  Sane(FwriteFails(f, k, bytes).file)
<1> DEFINE w == WriteFails(f, bytes)
           none == [i \in {} |-> Junk]
           h == w.file
           n == Unsigned(-1)
<1>1. n \in Nat
  BY SignedTyped
<1>2. h = [f EXCEPT !.data = none] /\ w.ret = n
  BY DEF WriteFails, Returned
<1>3. FwriteFails(f, k, bytes).file = Moved(h, w.ret \div k)
  BY DEF FwriteFails, Fwritten, Returned
<1>4. DOMAIN none = {}
  OBVIOUS
<1> HIDE DEF h, w, n, none
<1>5. h = [data |-> none, allocated_size |-> f.allocated_size, file_size |-> f.file_size,
           fptr |-> f.fptr, vfptr |-> f.vfptr, eof |-> f.eof]
  BY <1>2 DEF Sane
<1>6. /\ h.data = none /\ h.allocated_size = f.allocated_size
      /\ h.file_size = f.file_size /\ h.fptr = f.fptr /\ h.vfptr = f.vfptr /\ h.eof = f.eof
  BY <1>5
<1>7. Sane(h)
  BY <1>4, <1>5, <1>6 DEF Sane
<1>8. w.ret \div k \in Int
  BY <1>1, <1>2, Quotient
<1> QED BY <1>3, <1>7, <1>8, MovedSane DEF Keeps

LEMMA FputsSane ==
  ASSUME NEW f, Sane(f), NEW s \in Seq(Bytes)
  PROVE  Sane(Fputs(f, s).file)
<1> DEFINE n == Len(s)
<1>1. n \in Nat
  BY LenProperties
<1>2. PICK g : Rounds("fputs", s, f, n, g) /\ Fputs(f, s) = Returned(g[n], <<>>, n)
  BY <1>1, FputsRounds
<1>3. g[0] = f /\ \A i \in 1 .. n : g[i] = Fwrite(g[i - 1], 1, <<s[i]>>).file
  BY <1>2, RoundIs DEF Rounds
<1>4. ASSUME NEW x, Sane(x), NEW i \in 1 .. n PROVE Sane(Fwrite(x, 1, <<s[i]>>).file)
  <2> DEFINE k == 1
             c == <<s[i]>>
  <2>1. k \in Nat \ {0} /\ c \in Seq(Bytes)
    BY ElementOfSeq
  <2> HIDE DEF k, c
  <2>2. Sane(Fwrite(x, k, c).file)
    BY <1>4, <2>1, FwriteSane DEF Keeps
  <2> QED BY <2>2 DEF k, c
<1>5. \A i \in 0 .. n : Sane(g[i])
  <2> DEFINE Bad == {i \in Nat : i <= n /\ ~ Sane(g[i])}
  <2> SUFFICES ASSUME Bad # {} PROVE FALSE
    BY <1>1
  <2> DEFINE i == First(Bad)
  <2>1. i \in Bad /\ \A m \in Bad : i <= m
    BY LeastOf
  <2>2. i \in Nat /\ i <= n /\ ~ Sane(g[i])
    BY <2>1
  <2>3. i - 1 \notin Bad
    <3> SUFFICES ASSUME i - 1 \in Bad PROVE FALSE
      OBVIOUS
    <3>1. i <= i - 1
      BY <2>1
    <3> HIDE DEF i
    <3> QED BY <3>1, <2>2
  <2> HIDE DEF i
  <2>4. CASE i = 0
    BY <2>2, <2>4, <1>3
  <2>5. CASE i # 0
    <3>1. i \in 1 .. n /\ i - 1 \in Nat /\ i - 1 <= n
      BY <2>2, <2>5, <1>1
    <3>2. Sane(g[i - 1])
      BY <2>3, <3>1
    <3>3. Sane(Fwrite(g[i - 1], 1, <<s[i]>>).file)
      BY <3>1, <3>2, <1>4
    <3> QED BY <3>1, <3>3, <2>2, <1>3
  <2> QED BY <2>4, <2>5
<1>6. Fputs(f, s).file = g[n]
  BY <1>2 DEF Returned
<1> QED BY <1>1, <1>5, <1>6

LEMMA FgetsSane ==
  ASSUME NEW f, Sane(f), NEW size \in Nat
  PROVE  Sane(Fgets(f, size).file)
<1>1. PICK g : /\ Rounds("fgets", <<>>, NoChar(f), size, g)
               /\ Fgets(f, size) =
                    Returned(g[size].file, g[size].line,
                             IF g[size].null THEN NoLine ELSE g[size].line)
  BY FgetsRounds
<1>2. g[0] = NoChar(f) /\ \A i \in 1 .. size : g[i] = NextChar(g[i - 1], i)
  <2>1. g[0] = NoChar(f) /\ \A i \in 1 .. size : g[i] = Round("fgets", <<>>, g[i - 1], i)
    BY <1>1 DEF Rounds
  <2> QED BY <2>1 DEF Round
<1>3. \A i \in 0 .. size : Sane(g[i].file)
  <2> DEFINE Bad == {i \in Nat : i <= size /\ ~ Sane(g[i].file)}
  <2> SUFFICES ASSUME Bad # {} PROVE FALSE
    OBVIOUS
  <2> DEFINE i == First(Bad)
  <2>1. i \in Bad /\ \A m \in Bad : i <= m
    BY LeastOf
  <2>2. i \in Nat /\ i <= size /\ ~ Sane(g[i].file)
    BY <2>1
  <2>3. i - 1 \notin Bad
    <3> SUFFICES ASSUME i - 1 \in Bad PROVE FALSE
      OBVIOUS
    <3>1. i <= i - 1
      BY <2>1
    <3> HIDE DEF i
    <3> QED BY <3>1, <2>2
  <2> HIDE DEF i
  <2>4. CASE i = 0
    BY <2>2, <2>4, <1>2 DEF NoChar
  <2>5. CASE i # 0
    <3>1. i \in 1 .. size /\ i - 1 \in Nat /\ i - 1 <= size
      BY <2>2, <2>5
    <3>2. Sane(g[i - 1].file)
      BY <2>3, <3>1
    <3>3. Sane(NextChar(g[i - 1], i).file)
      BY <3>2, NextCharSane
    <3> QED BY <3>1, <3>3, <2>2, <1>2
  <2> QED BY <2>4, <2>5
<1>4. Fgets(f, size).file = g[size].file
  BY <1>1 DEF Returned
<1> QED BY <1>3, <1>4

LEMMA ChangesSane ==
  ASSUME NEW f, Sane(f), NEW p \in Int
  PROVE  Sane([f EXCEPT !.vfptr = p]) /\ Sane([f EXCEPT !.eof = FALSE])
<1> DEFINE no == FALSE
           g == [f EXCEPT !.vfptr = p]
           h == [f EXCEPT !.eof = no]
<1> HIDE DEF no
<1>1. g = [data |-> f.data, allocated_size |-> f.allocated_size, file_size |-> f.file_size,
           fptr |-> f.fptr, vfptr |-> p, eof |-> f.eof]
  BY DEF Sane
<1>2. h = [data |-> f.data, allocated_size |-> f.allocated_size, file_size |-> f.file_size,
           fptr |-> f.fptr, vfptr |-> f.vfptr, eof |-> no]
  BY DEF Sane
<1> HIDE DEF g, h
<1>3. /\ g.data = f.data /\ g.allocated_size = f.allocated_size /\ g.file_size = f.file_size
      /\ g.fptr = f.fptr /\ g.vfptr = p /\ g.eof = f.eof
  BY <1>1
<1>4. /\ h.data = f.data /\ h.allocated_size = f.allocated_size /\ h.file_size = f.file_size
      /\ h.fptr = f.fptr /\ h.vfptr = f.vfptr /\ h.eof = no
  BY <1>2
<1>5. Sane(g)
  BY <1>1, <1>3 DEF Sane
<1>6. Sane(h)
  BY <1>2, <1>4 DEF Sane
<1> QED BY <1>5, <1>6 DEF g, h, no

SaneInv == program \in Programs /\ Sane(file)

LEMMA InitSane == Init => SaneInv
<1> SUFFICES ASSUME Init PROVE SaneInv
  OBVIOUS
<1>1. PICK s \in program.contents : file = IF s = <<>> THEN OpenedEmpty ELSE OpenedOn(s)
  BY DEF Init
<1>2. program \in Programs /\ s \in Seq(Bytes) /\ Len(s) <= MaxSize
  BY CStreamAssumption DEF Init, CStreamAssumption
<1>3. Whole(file)
  BY <1>1, <1>2, OpenedWhole
<1>4. Sane(file)
  BY <1>3, SizesFit DEF Whole, Sane
<1> QED BY <1>2, <1>4 DEF SaneInv

(* What a write with too little memory returns is -1 as a size_t. *)
LEMMA FailureIsHuge ==
  ASSUME NEW f, NEW bytes
  PROVE  FwriteFails(f, 1, bytes).ret = Word - 1
<1>1. Word \in Nat /\ Word > 0
  BY StreamAssumption DEF StreamAssumption
<1>2. Unsigned(-1) = Word - 1
  <2>1. (-1) % Word = Word - 1
    BY <1>1, SMTT(30)
  <2> QED BY <2>1 DEF Unsigned
<1>3. (Word - 1) \div 1 = Word - 1
  BY <1>1
<1> QED BY <1>2, <1>3 DEF FwriteFails, Fwritten, WriteFails, Returned

LEMMA NextSane == SaneInv /\ [Next]_vars => SaneInv'
<1> SUFFICES ASSUME SaneInv, [Next]_vars PROVE SaneInv'
  OBVIOUS
<1>1. program \in Programs /\ Sane(file)
  BY DEF SaneInv
<1>2. CASE UNCHANGED vars
  BY <1>2 DEF SaneInv, vars
<1>3. CASE DoFread
  <2>1. PICK item \in program.items : Did("fread", <<>>, Fread(file, item[1], item[2]))
    BY <1>3 DEF DoFread
  <2>2. item[1] \in Nat \ {0} /\ item[2] \in Nat
    BY <1>1, ItemsTyped
  <2>3. Sane(Fread(file, item[1], item[2]).file)
    BY <1>1, <2>2, FreadSane
  <2> QED BY <1>1, <2>1, <2>3 DEF SaneInv, Did
<1>4. CASE DoFwrite
  <2>1. PICK item \in program.items : \E bytes \in [1 .. item[1] * item[2] -> Bytes] :
          Did("fwrite", bytes, Fwrite(file, item[1], bytes))
    BY <1>4 DEF DoFwrite
  <2>2. PICK bytes \in [1 .. item[1] * item[2] -> Bytes] :
          Did("fwrite", bytes, Fwrite(file, item[1], bytes))
    BY <2>1
  <2>3. item[1] \in Nat \ {0} /\ bytes \in Seq(Bytes)
    BY <1>1, ItemsTyped
  <2>4. Sane(Fwrite(file, item[1], bytes).file)
    BY <1>1, <2>3, FwriteSane DEF Keeps
  <2> QED BY <1>1, <2>2, <2>4 DEF SaneInv, Did
<1>5. CASE DoFwriteFails
  <2>1. PICK item \in program.items : \E bytes \in [1 .. item[1] * item[2] -> Bytes] :
          Did("fwrite", bytes, FwriteFails(file, item[1], bytes))
    BY <1>5 DEF DoFwriteFails
  <2>2. PICK bytes \in [1 .. item[1] * item[2] -> Bytes] :
          Did("fwrite", bytes, FwriteFails(file, item[1], bytes))
    BY <2>1
  <2>3. item[1] \in Nat \ {0}
    BY <1>1, ItemsTyped
  <2>4. Sane(FwriteFails(file, item[1], bytes).file)
    BY <1>1, <2>3, FwriteFailsSane
  <2> QED BY <1>1, <2>2, <2>4 DEF SaneInv, Did
<1>6. CASE DoFputc
  <2> DEFINE k == 1
             b == <<NUL>>
  <2>1. PICK c \in Bytes : Did("fputc", <<c>>, Fwrite(file, k, b))
    BY <1>6 DEF DoFputc, Fputc, FirstByteOf
  <2>2. k \in Nat \ {0} /\ b \in Seq(Bytes)
    BY StreamAssumption DEF StreamAssumption
  <2> HIDE DEF k, b
  <2>3. Sane(Fwrite(file, k, b).file)
    BY <1>1, <2>2, FwriteSane DEF Keeps
  <2> QED BY <1>1, <2>1, <2>3 DEF SaneInv, Did
<1>7. CASE DoFputs
  <2>1. PICK item \in program.items : \E s \in [1 .. item[1] * item[2] -> Bytes \ {NUL}] :
          Did("fputs", s, Fputs(file, s))
    BY <1>7 DEF DoFputs
  <2>2. PICK s \in [1 .. item[1] * item[2] -> Bytes \ {NUL}] : Did("fputs", s, Fputs(file, s))
    BY <2>1
  <2>3. s \in Seq(Bytes)
    <3>1. s \in [1 .. item[1] * item[2] -> Bytes]
      OBVIOUS
    <3> QED BY <1>1, <3>1, ItemsTyped
  <2>4. Sane(Fputs(file, s).file)
    BY <1>1, <2>3, FputsSane
  <2> QED BY <1>1, <2>2, <2>4 DEF SaneInv, Did
<1>8. CASE DoFseek
  <2>1. PICK offset \in -MaxSize .. MaxSize, whence \in Whences :
          /\ Sought(file, offset, whence) \in 0 .. file.file_size
          /\ Did("fseek", <<>>, Fseek(file, offset, whence))
    BY <1>8 DEF DoFseek
  <2> DEFINE p == Sought(file, offset, whence)
  <2>2. p \in Int
    BY <1>1, <2>1 DEF Sane
  <2>3. file' = [file EXCEPT !.vfptr = p] /\ program' = program
    BY <2>1 DEF Fseek, Returned, Did
  <2> HIDE DEF p
  <2>4. Sane([file EXCEPT !.vfptr = p])
    BY <1>1, <2>2, ChangesSane
  <2> QED BY <1>1, <2>3, <2>4 DEF SaneInv
<1>9. CASE DoClearerr
  <2>1. file' = [file EXCEPT !.eof = FALSE] /\ program' = program
    BY <1>9 DEF DoClearerr, Clearerr, Returned, Did
  <2>2. 0 \in Int
    OBVIOUS
  <2>3. Sane([file EXCEPT !.eof = FALSE])
    BY <1>1, <2>2, ChangesSane
  <2> QED BY <1>1, <2>1, <2>3 DEF SaneInv
<1>10. CASE DoFgetc
  <2> DEFINE k == 1
  <2>1. file' = Fread(file, k, k).file /\ program' = program
    BY <1>10 DEF DoFgetc, Fgetc, Returned, Did
  <2>2. k \in Nat \ {0} /\ k \in Nat
    OBVIOUS
  <2> HIDE DEF k
  <2>3. Sane(Fread(file, k, k).file)
    BY <1>1, <2>2, FreadSane
  <2> QED BY <1>1, <2>1, <2>3 DEF SaneInv
<1>11. CASE DoFgets
  <2>1. PICK size \in program.lines : Did("fgets", <<>>, Fgets(file, size))
    BY <1>11 DEF DoFgets
  <2>2. size \in Nat
    BY <1>1, CStreamAssumption DEF CStreamAssumption
  <2>3. Sane(Fgets(file, size).file)
    BY <1>1, <2>2, FgetsSane
  <2> QED BY <1>1, <2>1, <2>3 DEF SaneInv, Did
<1> QED BY <1>2, <1>3, <1>4, <1>5, <1>6, <1>7, <1>8, <1>9, <1>10, <1>11 DEF Next

(* A write that lost the data for want of memory (memory-filesystem.c,       *)
(* realloc) does not return what it was asked to write, for every program    *)
(* whose items are single bytes: -1 as a size_t, divided by a longer item,   *)
(* can be a number of items.                                                 *)
THEOREM FailuresShow ==
  ASSUME \A p \in Programs : WritesBytes(p)
  PROVE  Spec => FailureShows
<1> DEFINE Shows == last'.call = "fwrite" /\ DOMAIN file.data # {} /\ DOMAIN file'.data = {}
                      => last'.ret # Len(last'.given)
<1>1. SaneInv /\ Next => Shows
  <2> SUFFICES ASSUME SaneInv, Next, last'.call = "fwrite",
                      DOMAIN file.data # {}, DOMAIN file'.data = {}
               PROVE  last'.ret # Len(last'.given)
    OBVIOUS
  <2>1. program \in Programs /\ Sane(file)
    BY DEF SaneInv
  <2>2. ~ DoFwrite
    <3> SUFFICES ASSUME DoFwrite PROVE FALSE
      OBVIOUS
    <3>1. PICK item \in program.items : \E bytes \in [1 .. item[1] * item[2] -> Bytes] :
            Did("fwrite", bytes, Fwrite(file, item[1], bytes))
      BY DEF DoFwrite
    <3>2. PICK bytes \in [1 .. item[1] * item[2] -> Bytes] :
            Did("fwrite", bytes, Fwrite(file, item[1], bytes))
      BY <3>1
    <3>3. item[1] \in Nat \ {0} /\ bytes \in Seq(Bytes)
      BY <2>1, ItemsTyped
    <3>4. Keeps(file, Fwrite(file, item[1], bytes).file)
      BY <2>1, <3>3, FwriteSane
    <3> QED BY <3>2, <3>4 DEF Keeps, Did
  <2>3. Uses("realloc fails") /\ DoFwriteFails
    BY <2>2, CallNamed DEF Next
  <2>4. PICK item \in program.items : \E bytes \in [1 .. item[1] * item[2] -> Bytes] :
          Did("fwrite", bytes, FwriteFails(file, item[1], bytes))
    BY <2>3 DEF DoFwriteFails
  <2>5. PICK bytes \in [1 .. item[1] * item[2] -> Bytes] :
          Did("fwrite", bytes, FwriteFails(file, item[1], bytes))
    BY <2>4
  <2>6. item[1] = 1
    BY <2>1, <2>3 DEF WritesBytes, Uses
  <2>7. last'.ret = Word - 1 /\ last'.given = bytes
    BY <2>5, <2>6, FailureIsHuge DEF Did
  <2>8. Len(bytes) < Word \div 2 /\ Len(bytes) \in Nat
    BY <2>1, ItemsTyped
  <2>9. Word \in Nat /\ Word > 0
    BY StreamAssumption DEF StreamAssumption
  <2>10. Word \div 2 <= Word - 1
    BY <2>9
  <2> HIDE DEF Shows
  <2> QED BY <2>7, <2>8, <2>9, <2>10
<1>2. SaneInv /\ [Next]_vars => [Shows]_vars
  BY <1>1
<1>3. Spec => [][Shows]_vars
  BY <1>2, InitSane, NextSane, PTL DEF Spec
<1> QED BY <1>3 DEF FailureShows
===============================================================================

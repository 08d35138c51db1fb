------------------------------- MODULE CStream --------------------------------
(***************************************************************************)
(* A program at work on one memory file through the calls of stdio.h.      *)
(***************************************************************************)
EXTENDS Stream, FiniteSets

CONSTANTS
  Programs,      (* the programs considered: the calls each uses, the files
                    it opens (data it maps, or nothing), the <<in_size,
                    nmemb>> of its reads and writes, its sizes for fgets    *)
  MaxSize        (* bound: no file grows, and no seek goes, beyond this     *)

(* Sizes fit a long, and no buffer is larger than half the address space.    *)
ASSUME CStreamAssumption ==
  /\ MaxSize \in Nat /\ MaxSize < Word \div 2
  /\ \A p \in Programs :
       /\ p.contents \subseteq Seq(Bytes) /\ \A s \in p.contents : Len(s) <= MaxSize
       /\ \A item \in p.items : /\ item[1] \in Nat \ {0} /\ item[2] \in Nat
                                /\ item[1] * item[2] < Word \div 2
       /\ p.lines \subseteq Nat \ {0}

VARIABLES
  program,       (* the program at work                                     *)
  file,          (* the FILE                                                *)
  last           (* the last call: its name, the bytes it was given, the
                    bytes it delivered and its result                       *)

vars == <<program, file, last>>

Uses(call) == call \in program.calls

Did(call, given, r) ==
  /\ file' = r.file
  /\ last' = [call |-> call, given |-> given, bytes |-> r.bytes, ret |-> r.ret]
  /\ UNCHANGED program

Init ==
  /\ program \in Programs
  /\ file \in {IF s = <<>> THEN OpenedEmpty ELSE OpenedOn(s) : s \in program.contents}
  /\ last = [call |-> "open", given |-> <<>>, bytes |-> <<>>, ret |-> 0]

DoFread ==
  \E item \in program.items : Did("fread", <<>>, Fread(file, item[1], item[2]))

DoFwrite ==
  \E item \in program.items : \E bytes \in [1 .. item[1] * item[2] -> Bytes] :
    /\ file.fptr + Len(bytes) <= MaxSize
    /\ Did("fwrite", bytes, Fwrite(file, item[1], bytes))

(* The memory runs out.                                                      *)
DoFwriteFails ==
  \E item \in program.items : \E bytes \in [1 .. item[1] * item[2] -> Bytes] :
    /\ bytes # <<>> /\ Grows(file, bytes)
    /\ file.fptr + Len(bytes) <= MaxSize
    /\ Did("fwrite", bytes, FwriteFails(file, item[1], bytes))

DoFputc ==
  \E c \in Bytes : file.fptr < MaxSize /\ Did("fputc", <<c>>, Fputc(file, c))

DoFputs ==
  \E item \in program.items : \E s \in [1 .. item[1] * item[2] -> Bytes \ {NUL}] :
    file.fptr + Len(s) <= MaxSize /\ Did("fputs", s, Fputs(file, s))

(* The program seeks within the file and up to its end.                      *)
DoFseek ==
  \E offset \in -MaxSize .. MaxSize, whence \in Whences :
    /\ Sought(file, offset, whence) \in 0 .. file.file_size
    /\ Did("fseek", <<>>, Fseek(file, offset, whence))

DoClearerr == Did("clearerr", <<>>, Clearerr(file))

DoFgetc == Did("fgetc", <<>>, Fgetc(file))

DoFgets == \E size \in program.lines : Did("fgets", <<>>, Fgets(file, size))

Next ==
  \/ Uses("fread") /\ DoFread
  \/ Uses("fwrite") /\ DoFwrite
  \/ Uses("realloc fails") /\ DoFwriteFails
  \/ Uses("fputc") /\ DoFputc
  \/ Uses("fputs") /\ DoFputs
  \/ Uses("fseek") /\ DoFseek
  \/ Uses("clearerr") /\ DoClearerr
  \/ Uses("fgetc") /\ DoFgetc
  \/ Uses("fgets") /\ DoFgets

Spec == Init /\ [][Next]_vars

-------------------------------------------------------------------------------
(* Properties *)

(* The pointers of the FILE stay inside its data, and its data inside what   *)
(* was allocated for it, as long as there is memory.                         *)
Enough == ~Uses("realloc fails")

TypeOK ==
  Enough =>
    /\ file.fptr \in 0 .. file.file_size
    /\ file.vfptr \in 0 .. file.file_size
    /\ file.file_size \in 0 .. file.allocated_size
    /\ file.data \in [0 .. file.allocated_size - 1 -> Bytes \cup {Junk}]
    /\ file.eof \in BOOLEAN

(* The byte stream a C program expects.                                      *)
Contract == INSTANCE ByteStream WITH
  content <- Content(file), pos <- file.vfptr, given <- last.given, delivered <- last.bytes,
  MaxCount <- MaxSize

(* fputc stores NUL for every char: it writes the first byte of its int.     *)
PutsOther == last'.call = "fputc" /\ last'.given # <<NUL>>

(* The stream delivers what is there, and stores what each call is given,    *)
(* at its position: but for the chars that fputc (fileops.c:375) replaces,   *)
(* every step is one of the byte stream, those after such a char included.   *)
ImplementsByteStream ==
  /\ Contract!Init
  /\ [][Enough /\ ~PutsOther => [Contract!Next]_(Contract!vars)]_vars

(* feof() tells that a stream that was never sought in is at its end.        *)
EofMeansEnd == Enough /\ file.eof /\ ~Uses("fseek") => file.vfptr = file.file_size

(* fgets stops early only at the end of a line or of the file, and returns   *)
(* NULL only when there is nothing left.                                     *)
LinesWhole ==
  [][last'.call = "fgets" =>
       \/ last'.ret = NoLine /\ file.vfptr = file.file_size
       \/ last'.ret # NoLine /\ last'.ret # <<>>
            /\ \/ Len(last'.ret) \in program.lines
               \/ last'.ret[Len(last'.ret)] \in {NL, NUL}
               \/ file'.vfptr = file'.file_size]_vars

(* What a program writes ends up at the position it had sought.              *)
WritesAtPosition ==
  [][last'.call = "fwrite" =>
       \A i \in 1 .. Len(last'.given) :
         /\ file.vfptr + i <= file'.file_size
         /\ Content(file')[file.vfptr + i] = last'.given[i]]_vars

(* A write that could not get memory does not report what it was given.      *)
FailureShows ==
  [][last'.call = "fwrite" /\ DOMAIN file.data # {} /\ DOMAIN file'.data = {}
       => last'.ret # Len(last'.given)]_vars
===============================================================================

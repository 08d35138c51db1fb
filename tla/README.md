# TLA+ verification of Cibyl

Cibyl compiles C to MIPS with an ordinary gcc and then translates the MIPS ELF
binary, instruction by instruction, to Java bytecode. The translated program
runs on a small Java runtime (`java/CRunTime.java`) and a C library written for
it (`libs/src`). This directory holds the TLA+ models of that system, the TLC
configurations that check them and the TLAPS proofs about them.

## 1. The system and its parts

| part | state it keeps | operations | hard behaviour |
|---|---|---|---|
| heap allocator, `libs/src/libc/smalloc.c` | two linked lists threaded through the heap, headers, three counters | `malloc`, `free`, `realloc`, pool set-up | long sequences of splits and merges; headers read after they died; `realloc` failing half way |
| object repository and callbacks, `java/CRunTime.java` | `objectRepository`, `firstFree`, `maxRepositoryObjects`, callbacks by name | register, look up and release a handle; publish, register and invoke a callback | the table growing; reserved handles; a callback registered before, after or never |
| guest memory, `java/CRunTime.java` | `memory[]` (big endian words) | byte, short, word, unaligned and long access, `memcpy`, `divu`/`multu`/`sltu` | sign extension, unaligned access, 32-bit edges |
| C streams, `libs/src/libcrt0/fileops.c` | registered file and directory operations, `cibyl_FILE` (`fptr`, `vfptr`, `eof`, `error`) | `fopen` .. `fclose`, `opendir` .. `closedir`, `remove`, `mkdir` | the position of the stream and of the backend drifting apart; which backend a path selects |
| memory file system, `libs/src/libcrt0/memory-filesystem.c` | data block, size, owned or borrowed, path to write back to | open, open indirectly, read, write, seek, close | growth, end of file, write-back on close |
| other file systems, `libs/src/libmidp`, `libjsr075`, `libjava`, `libj2se`, `libcibar` | Java streams and record stores behind handles | open, read, write, seek, close | handles released twice or never, partial failure while opening |
| start and exit, `libs/crt0.S`, `libs/src/libcrt0/helpers.c` | memory layout, constructor lists, `atexit_list` | run constructors, `atexit`, run the handlers, exception setter | regions of memory that meet; order of handlers |
| calls and callbacks at run time | `saved_v1`, `hi`/`lo`, stack pointers, `CibylCallTable` | call, return a 64-bit value, call through a function pointer, callback on the event stack | event thread and main thread sharing statics and a stack |
| translator, `tools/translator` | instructions, basic blocks, functions, methods, classes, tables of labels, exception blocks, registers to locals | read the ELF file, two passes over the code, emit Jasmin | delay slots, address ranges, dispatch through tables, try blocks |
| older translator and tools, `tools/python` | the same in Python, peephole patterns, a gdb server | translate, optimise, debug | reader thread and debugger thread; packets acknowledged or refused by their checksum |
| remote debugging peer, `cibyl-server/j2me` | a socket, packets, a runtime whose memory is remote | requests nested in requests | answers out of order, unknown packets |
| C library, `libs/src/libc`, `libm`, `libgcc`, `libstdc++`, `libs9` | a few statics (`strtok`, heap) | strings, `printf`, `scanf`, 64-bit and soft-float arithmetic, predictive input | numeric edges, buffer limits |
| system call headers and generators, `include`, `syscalls` | none of its own | declarations and glue generated from them | reference counting is left to the caller |
| examples, tests, documentation, vendored elfutils | not part of the product | | |

The C program calls the runtime through system calls; a Java object reaches it
only as a handle of the object repository. Files of the C library are
implemented by file systems, of which several are thin layers over Java streams
held by handle. The translator decides, at build time, the Java method, class
and call-table entry each address of the program reaches.

What makes each part correct, in a sentence:

* heap: live blocks never overlap, and everything freed can be allocated again;
* repository: a handle in use means one object, the one it was given for, and
  handle 0 is never given out;
* streams: what is read is what was written at that position, and a backend
  only ever sees the position its stream believes in;
* memory files: a file opened for writing reaches its path when it is closed;
* calls: a translated call reaches the function the address belongs to, with the
  arguments and the return value the MIPS program would see;
* tools: a debugger packet is acted on once, and answers describe the present.

## 2. Modules

| module | models | role |
|---|---|---|
| `HeapContract` | what `malloc`, `free` and `realloc` promise | abstract specification |
| `SMalloc` | `smalloc.c` with each list as a set of nodes | refines `HeapContract` |
| `SMallocList` | `smalloc.c` with next pointers, heads and stale headers | refines `SMalloc` |
| `SMallocProofs` | theorems about `SMalloc` | proofs |
| `SMallocListProofs` | theorems about `SMallocList`, on those about `SMalloc` | proofs |
| `ObjectRepository`, `MCObjectRepository` | the handle table and callback slots of `CRunTime.java` | component, values for TLC |
| `ObjectRepositoryProofs` | theorems about `ObjectRepository` | proofs |
| `ByteStream` | a sequence of bytes and a position in it | abstract specification |
| `Stream` | `fileops.c` on `memory-filesystem.c`, as operators on a FILE | pure operators |
| `CStream`, `MCCStream` | a program at work on one FILE | refines `ByteStream`, values for TLC |
| `CStreamProofs` | theorems about `Stream` and `CStream` | proofs |
| `FileConnection`, `MCFileConnection` | `fileconnection-filesystem.c` over the object repository | extends `ObjectRepository` |
| `FileConnectionProofs` | theorems about `FileConnection`, on those about the repository | proofs |
| `MipsCalls` | calls and returns of the MIPS binary | reference machine |
| `TranslatedCalls`, `MCTranslatedCalls` | the Java code the translator makes of them | runs in step with `MipsCalls` |
| `TranslatedCallsProofs` | theorems about `TranslatedCalls` | proofs |
| `Words`, `GuestMemory` | Java's int and long, `memory[]` and the arithmetic of `CRunTime.java` | pure operators |
| `MipsMachine` | the MIPS instructions, registers and memory | reference machine |
| `JavaVM` | the instructions of the Java virtual machine that are emitted | pure operators, external |
| `Instructions` | `instruction.cc`, `instructions/*.cc`, `emit.cc`: the bytecode of one instruction | pure operators |
| `ElfFile` | `elf.cc`, `mips-dwarf.c`: symbols, sizes, signatures, relocations | pure operators |
| `Methods` | `controller.cc`, `function.cc`, `functioncolocation.cc`, `javaclass.cc`, `codeblock.cc`: settings, functions, methods, classes, addresses | pure operators |
| `MethodCode` | `javamethod.cc`, `basicblock.cc`, `calltablemethod.cc`, `registerallocator.cc`, the builtins: the bytecode of a method | pure operators |
| `TranslatedCode`, `MCTranslatedCode` | the passes of the translator, and what it made at work | runs in step with `MipsMachine` |
| `FileSystems` | the registry of `fileops.c` and what each library registers | pure operators |
| `RecordStore`, `JavaStreams`, `Cibar` | records, Java streams, archives | pure operators |
| `FileStore` | files under names, and FILEs at work on them | abstract specification |
| `Process`, `MCProcess` | a program from start to end and its next start | composes the four above and `Stream`; refines `FileStore` |
| `ProcessProofs` | theorems about the registry and the exit of `Process` | proofs |
| `Debuggee` | jdb and the program under it | component, external |
| `GdbServer`, `MCGdbServer` | the gdb server | extends `Debuggee` |
| `GdbServerProofs` | theorems about `GdbServer` | proofs |

### Heap

`SMalloc` keeps `available` and `allocated`, the nodes of the two lists (a node
is the address of its header), the header words `rsize` and `usize`, the three
counters, and `held`, the pointers the program was given and has not given
back. The lists are sorted by address in the code, so a set loses nothing; that
the linked lists are what the sets say is the refinement `SMallocList` =>
`SMalloc`, where `head`, `next` and the words of dead headers stay in memory as
the code leaves them. The actions are `malloc`, `malloc` refused, `free`, `free`
of an address that is not allocated, and `realloc` with all it calls: the
allocation, the copy, the release. The copy is `memcpy` of the *new* size, so it
can read past the end of `memory[]`; then Java throws in the middle of
`realloc`, and the new block stays allocated with nobody holding it.
`firstfit` (195-232) is compiled out and left out.

### Object repository

`table` is `objectRepository`, `firstFree` and `maxRepositoryObjects`; `held`
says which object each handle was given for, until the program deletes it;
`callbacksByName` and `wanted` are the ids of callbacks and the function that
was registered last under a name. `Register` is `registerObject` with its growth
of the table: the code stores the object in the old free slot, doubles the
table and stores it again in the first new one, and the model does the same.

### Streams

Operators of `Stream` take a FILE (data, allocation, size, `fptr`, `vfptr`,
`eof`) and return the FILE, the bytes moved and the result, one operator for
each C function, in the order the C code calls them: `fseek` moves `vfptr` only, `fread`
moves the backend there first, `fwrite` does not, `fgets` calls `fgetc` and
looks at `eof` after each char. Sizes are `size_t` (modulo `Word`). `CStream` is
a program that makes such calls in any order; `Programs` names the calls each
kind of program uses. The passing run has no program that both seeks and
writes, because that is the finding of `stream_overwrite`. The data of an item
is single bytes where the run writes; reads use items of 1, 2 and 3 bytes.
`last` holds the bytes a call was given and those it delivered, and `ByteStream` says of
both what they are: a write stores what it was given, at its position. One call is excepted
by name (`PutsOther`): `fputc` stores NUL whatever the char, so with any other it is no step
of a byte stream; the bytes behind it and every later call are.

### File connections

Each call from C into Java is a step, and `call` is the FILE whose C function is
running: Java may throw instead of returning, so every open and every backward
seek can stop between any two of its calls. Between functions the rest of the
program registers and deletes objects of its own. `files[f].at` is how far the
FILE has come. `fileSize()` is asked for after the objects were opened, outside the try
block: when it throws (`SizeThrows`) the program gets no FILE and both handles leak. A close
that throws, and a mode the file system refuses, leave the FILE as it was; what
the program makes of the exception is a registration of `Program`. A program
whose backward seek failed may abandon or close the FILE, and never seeks in it
again.

### Calls

`MipsCalls` is the machine the binary was compiled for. `TranslatedCalls`
moves Java frames in step with it: a function in a method of its own or
colocated with others, `jal` as `invokestatic` or as a `goto` that leaves the
number of the return place in `ra`, `jalr` through the call table, a jump to
another function at the end of one as a call followed by a return, results of one
or two words in the static `saved_v1` or packed in a `long` (`thread_safe`),
saved registers on the guest stack or pruned. Callbacks on the event thread are
made of the same methods; with frames, registers and a stack of their own they
meet the program in `saved_v1` only, so `EventReturns` stands for all they do: a
return, between any two steps. Arguments and delay slots are the subject of
`TranslatedCode`. Pruning together with colocation is not among
`SoundConfigs`: there the pruned stores lose a caller's `s` register (see
section 7), which TLC shows when the pair is added.

### Translated code

`MCTranslatedCode` lists inputs: each is an ELF file - sections, symbol table,
relocations and debug information, in the order the file has them - with the
settings of the command line and the signatures of its functions in C. `Pass` is one of the
four stages of the translator: reading the file and the settings (`ElfFile`), layout (functions, colocation,
methods, classes, relocations), pass 1 (branch targets, register usage, arguments
and results, pruning) and pass 2 (the bytecode, with labels resolved as Jasmin
does). `Panic` is where a stage refuses its input. The translator knows a signature only from the debug
information; the MIPS machine goes by the one in C, under the calling convention
(o32), so the two may disagree. Then both machines run:
`MipsMachine` executes the words, delay slots included, and `TranslatedCode`
the bytecode with Java frames, locals, an operand stack, the statics and
`memory[]`. Everything the translator decides with addresses is translated as
it is there, such as the binary search of a class for a method or the hi/lo pairs that
make an address. A byte has 2 bits here (`ByteBits`), a word 4 bytes
and a `long` 16 bits, so that all edges of the arithmetic are near; `TextBase`
and `StackTop` are 20, and 1 is the address the first function returns to (`Halt`).
The state of the translator is a function of the program, so its
passes are computed once for each (`Units`) and the steps select them.

### Files of all kinds, start and exit

`Process` composes the registry, the record store, Java streams, archives and
memory files. `fops` and `dops` are the tables the constructors fill, `files`
the FILEs, `world` the record store and the disk, which outlive the process,
`handlers` the list of `atexit` in the three steps of its C code, `exit` the
exit command on the event thread. `End` may come at any time, as a phone
destroys a midlet: open FILEs are gone. What Java does may fail wherever the code calls
it: a store may be full at any record or not to be created, a reset may not be supported, a read
or a write may throw after any number of bytes, also where an indirect open, a write-back or
`opendir` performs it, and the close of a Java object may throw. Opening to
read what is there is taken to succeed. `FileStore` is what this comes to for a
program: a FILE works on a copy of the contents or on the contents; a
successful close has stored what the FILE stores, a failed one that or nothing, or,
on a stream, a first part of it (`Streamed`).
It states what the code does, peculiarities included: a record
is saved up to the position, a Java file is truncated by any mode that writes.

The exit handlers run for midlets only (`java/Main.java`); the launcher of
J2SE never runs them. `atexit` while the exit command runs may call whatever is in the
unfinished list; `HandlersRun` excepts that overlap. Not performed: writes with
a seek pending (the finding of `stream_overwrite`), writes to members of an
archive, and the calls of JSR 75 FILEs, which are routed here and modelled in
`FileConnection`. URIs of the run are no prefixes of each other.

### The gdb server

`GdbServer` has the thread that reads packets, the queue, and `JdbThread`, whose
dialog with jdb is a sequence of lines: each is sent, and answered when the
last that was read is jdb's prompt (`out.prompt`). `Debuggee` is jdb with the program:
it takes one line at a time, and a program that runs shows no such prompt,
stops at a breakpoint with any registers, and prints. `late` is
a history variable: prompts came that no command asked for, because the program stopped
while the empty lines of a retry, or of the first dialog, were on their way.
From then on answers and commands may be paired wrongly, until the program is
continued while jdb is quiet. gdb sends a packet when it has the answer to the
one before. `Fatal` says which packets end the thread because their handlers raise what
nobody catches: `g`, `P`, `vCont;c`, `k`, and the reads of text that
`gdbmips.readMemory` does not survive (`TextReadRaises`).

## 3. Runs

| run | bounds | distinct states | shows |
|---|---|---|---|
| `heap` | pool of 19 bytes, header 2, alignment 2, sizes 0, 1, 4, 7 | 6.6 thousand | the heap stays tiled, merged and accounted for; refines `HeapContract` |
| `heap_lists` | pool of 13 bytes, sizes 1, 3 | 1.3 thousand | the linked lists implement the sets |
| `repository` | table 3, growing to 6 and 12; 2 objects, 2 functions, 2 names | 425 thousand | handles and callback ids stay bound |
| `streams` | files of up to 4 bytes, growing to 5; `Slack` 1 | 27 thousand | the FILE is the byte stream a program expects, `fputc` excepted |
| `stream_overwrite` | files of 1 byte | violation | a write after a seek goes to the wrong place |
| `fileconnection` | 2 FILEs, table 4, growing to 8 | 1.3 million | each FILE keeps its own handles, whatever throws |
| `fileconnection_write` | the same | violation | closing an output FILE frees handle 0 |
| `calls` | 3 functions, 3 activations, 3 Java frames, 5 configurations | 1.9 million | control, saved registers, results, with callbacks in between |
| `calls_wide` | the same | violation | a high word is lost in thread-safe code |
| `translated_code` | 351 files with up to 27 instructions, words of 8 bits | 39 thousand | the bytecode does what the instructions do; functions divide the text; signatures are those of C |
| `process` | 152 programs, 2 FILEs, 2 records, contents of 2 bytes, 2 starts | 293 thousand | files of every kind are those of one store; paths and handlers go where they should |
| `gdb_server` | 2 lines, 2 registers, 2 words, 29 packets | 1.0 million | answers are true and come |

Why the bounds are enough for the cases that matter:

* `heap`: the pool holds up to nine empty blocks and four of size 1, so a release can merge below, above
  and on both sides, best fit can choose between blocks of equal and of
  different size, a block can be cut or taken whole, and `realloc` can run off the end
  of memory (`MemoryEnd` = `PoolEnd`). In `heap_lists` there is memory behind
  the pool, so that every copy succeeds. `MAXINT` only has to exceed the pool.
* `repository`: two growths, with the slot a growth occupies twice emptied and
  refilled before and after the next. `MaxSize` bounds the table: a registration that would
  have to grow it beyond that is not enabled.
* `streams`: a write can end inside, at the end of, and beyond the allocation,
  and lines of 1 to 3 chars meet newline, NUL and end of file at each offset.
  `MaxSize` bounds writes and seeks; `Word` = 64 is larger than any size that
  occurs and small enough for `-1` as a `size_t` to differ from all of them.
* `fileconnection`: the repository starts with two free slots and grows once
  while an open is half way. The two FILEs are symmetric, and
  the initial state and every action treat them alike.
* `calls`: two functions that call and a leaf; one of the two calls can be a
  local goto while the other goes through Java. `MaxDepth` bounds activations,
  `MaxFrames` Java frames (tail calls add frames without adding activations).

* `translated_code`: each instruction class meets the values at its edges, each as
  straight code and where it can stand in a delay slot; calls, jump tables,
  colocations, the parts of the call table and pruning have programs
  for each configuration. Symbol tables are ordered, reversed, without sizes, with a gap behind
  each function, with two local functions of one name and with two names for one address;
  signatures have no, one and two words, hidden arguments, variadic ones, each kind
  of type and each ABI that is told apart; of what is refused there is an example
  each. Aliases have equal sizes, since `qsort` may leave them in any order. Left out are the combinations section 7 marks with
  a star, in which the bytecode is known not to keep step. No program has a data
  word that points to a colocated function, and `hi` and `lo` are compared only
  through `mfhi` and `mflo`.
* `process`: the libraries are linked in all orders of five and of four; two
  records are enough for a place holder before the record wanted and for one
  too many; a stream of four bytes is read by chunks of two (`Chunk`), so that
  a read takes more than one call; `Runs` = 2 shows what survives a restart.
* `gdb_server`: two lines with different locals, so that a stale register shows;
  ranges of data that begin and end inside and outside a word and outside the memory;
  reads of text that are answered, of a Java call and of other instructions, and one for each
  reason why `readMemory` raises: unaligned, beyond the section, empty, and the first byte
  of a mark alone. gdb may send any number of packets.

`CHECK_DEADLOCK FALSE` is set where the bounds, or a program that has nothing
left to do, stop the system.

## 4. Fairness

`GdbServer` states weak fairness of the reading thread, of `JdbThread`, of jdb
and of the program's next stop: the two threads are loops that block only in
reads, jdb answers every line, and gdb continues only with a breakpoint set that the program comes
to. gdb need not send and the program need not print.
A program that runs for ever never stops, and then the answer to `c` never
comes; that is what the last assumption excludes. `EveryPacketAnswered` is the
liveness property; a `JdbThread` that an exception ended answers nothing
more. Everywhere else no fairness is assumed: these components act when they
are called and owe no progress of their own.

## 5. Proofs

TLC checks small instances; the theorems below hold for every value of the constants
that satisfies the assumption named in the module.

**`SMallocProofs`** (assumption `HeapAssumption`: the pool has room for a header
and lies in memory, headers are not empty, alignment is positive, sizes are
naturals; nothing relates header, alignment and smallest remainder). The
inductive invariant `IInv` says of `available \cup allocated` that it tiles the
pool (`Tiles`): every node is in the pool, the block behind a node begins at
another node or the pool ends there, and no two blocks overlap; that free
blocks are merged (`Merged`), that the two lists are disjoint and their counters are their
lengths, that requests fit, and that the program holds only allocated blocks. Neither `NoOverlap` nor `NoGap` is inductive alone: that a remainder's
header falls on no live block follows from the tiling, and that merging two
blocks leaves the list merged follows from it having been merged before. The
operators `Split`, `Absorb`, `AbsorbUpper`, `InsertAvailable` and `Taken` each have a lemma;
`malloc`, `free` and `realloc` follow from them. From `IInv` come the
theorems on single invariants, and `StepImplements`, that every step is one of
`HeapContract` or leaves the live blocks alone, which gives
`HeapImplementsContract`.

**`SMallocListProofs`** (assumption `ListAssumption`: `HeapAssumption`, no header at
address 0, which is `NULL`, and no block larger than `MAXINT`, the overhead `bestfit`
starts from) proves `ListsStaySorted` and `ListsImplementSets`: each call on the linked
lists is the call of the same name on sets. List `l` of a heap is `Chained` to a set
`S` when its head is the highest node of `S` and the pointer of each node is the
highest node of `S` below it. The invariant `LInv` says that both lists are chained to
what they reach, and that these sets, with the sizes in their headers, have what
`SMallocProofs` proves of the sets. Neither half would do alone. `delete` and `insert`
find their place only in a sorted list; and the place they find has on either side the only
nodes that can touch the block, which `insert` relies on when it merges, only
because the blocks tile the pool. The loops are recursive functions over rounds: `NthSteps`
and `ScanSteps` derive what a round keeps from a least round that did not. `DeleteUnlinks`,
`InsertLinks`, `AbsorbImplements`, `InsertFree` and `BestFitIs` are the lemmas on the
single functions. A header that died keeps its bytes: the mapping reads headers through
`Real`, which is 0 outside the live ones, and `OthersKept` says whose headers a function
leaves alone. `SMallocProofs` is instantiated under the mapping, so that its lemmas on
tilings are not proved again; through the refinement its theorems hold of the lists.

**`ObjectRepositoryProofs`** (assumption of `ObjectRepository`: the first table
has room above the two reserved slots, objects and functions are distinct from
`NULL`). `IInv` is `TypeOK`, `HandlesResolve`, `NextHandleIsFresh`,
`ReservedNeverIssued`, `NoHoleBelow` and `CallbacksBound` together with two facts that TLC
did not need: owners of slots sit above the reserved ones
(`OwnersAboveReserved`), and a name that was not published has no function
(`CallbacksUnpublished`). They depend on each other: a fresh handle overwrites nobody only
because nothing below `firstFree` is free and the slot `firstFree` names has no
owner, and this is restored after a growth, which leaves `firstFree` on an
occupied slot, only because that slot belongs to nobody. The search for the
next free slot is a `CHOOSE` of a least element; `LeastOf` derives its existence from
well-foundedness.

That a leak costs a growth is `LeaksStayBounded`: the slots nobody can free are
so few that `InitialSize * 2 ^ Cardinality(Leaked)` is at most the size of the
table. Powers of two are counted as subsets (`FS_SUBSET`), since an induction
over the exponent is not available: one element more doubles them, and a
registration that leaks doubles the table.

`CountersAgree` and `OnlyTrapsLeak` in `SMallocProofs` say the same of the heap's
counters and of the blocks that are in use without an owner. `total` is a sum over a set.
The lemmas on such sums (`SumTakesAny`, `SumAdd`, `SumSame`) come from a least
counterexample: the naturals are well founded (`WFMin`), so if any set broke the equation a
smallest one would, and it is not the empty one and not one element more than a smaller one.
That argument replaces induction in the other modules too.

**`FileConnectionProofs`** (assumption `FileAssumption`: finitely many FILEs, and
distinct objects of the repository behind them) builds on the theorems of
`ObjectRepositoryProofs`. A FILE *claims* a handle for each field it keeps; the
handle is *good* when it still leads to that FILE's object. `HandlesNotShared`
is not inductive, because an object registered twice gets a handle twice: what
every step preserves is a count, `ClaimsCovered`: the claims are at most the good
handles and one for each FILE that was closed after its reset had
failed. While no such FILE exists the two numbers are equal, and so no two claims
have a handle in common (`HandlesApart`). `ReadingKeepsReserved` is about `ReadSpec`, in
which programs only read; for output FILEs it is false (finding 2).

**`TranslatedCallsProofs`** (assumptions `DepthAssumption` and `CallsAssumption`:
at least one activation and one frame, widths of 0 to 2 words, configurations
typed, `None` outside the values). No configuration is excluded from `RunsInStep` and
`ResultsDelivered`; `CalleesPreserve` excepts pruning together with colocation, where
it is false. The inductive invariant says that the activations of the MIPS
machine are dealt out to the frames of Java: there is an assignment `b` of the
first activation to each frame (`Linked`) such that each frame holds the consecutive
activations from its own to the next frame's, and each `ra` and `s0`, in a local or
saved on the guest stack, is what the activation it was saved for held (`RaOf`, `S0Of`).
`Carried` follows the result of the last return up the frames. `b` is
an existential, because the program does not hold it; each step names
its new value. For the proof `Start` got the guard the code has, that no frame
is left of an earlier start.

**`CStreamProofs`** (assumptions `StreamAssumption` and `CStreamAssumption`: sizes
fit a `long` and no item is larger than half the address space, `NoLine` is no
sequence). A FILE is *whole* when its pointers lie in its data and its data in its
memory. `TypeCorrect` holds for every program. Each call has a
lemma: what it reads is a part of the contents (`FreadReads`), what it writes
replaces one (`Overwritten`), and a write of items in a row is one write
(`OverwriteOneMore`); that the bytes which replace it are those the call was given is part of
what is said of each writing call (`WriteStep`), with `PutsOther` as its exception. The loops of `fputs` and `fgets` are recursive functions;
their rounds exist and keep their invariant (`Put`, `Got`) because a least round
that did not cannot be. The theorems beyond the type assume what the run has and
the code needs: `WritesBytes` (items of one byte are written, as `fwrite`
moves by items), `SeeksToRead` (a program that seeks does not write
or read lines, which finding 1 forbids) and `LinesInOrder` (one that reads lines
neither seeks nor runs out of memory). `FailuresShow` needs an invariant of its own (`Sane`),
for FILEs whose memory is gone.

**`ProcessProofs`** (assumption `ProcessAssumption`: constructors are those of the
libraries, handlers are neither `Junk` nor the record of a pending `atexit`).
`RoutesFollowPriority` follows from `RoutesIInv`: after each constructor, the
tables hold the registrations of the libraries so far, and the first entry for a
URI has the highest priority among them, in any order of linking.
`ExitRunsHandlers` follows from `ExitIInv`: outside `atexit` the list is what was
added, during it the list is the same with one place more, and what the exit
command has run is a prefix of it until an `atexit` overlaps.

**`GdbServerProofs`** (assumptions `DebuggeeAssumption` and `GdbAssumption`: gdb asks for
registers there are and by unsigned addresses, of text in any way; hypothesis of the theorem: each range gdb
reads from the data is a `WholeRange`, which `jdb.readMemory` answers with the right number
of bytes, see section 7; those of the run are) proves `AnswersAreCurrent` for every program, set of breakpoints and
sequence of packets. `AnswersCurrent` says nothing of a dialog under way, so the inductive
invariant `IInv` does: at most one packet is between gdb and the thread
(`OnePacket`), and as long as no retry has crossed a stop the dialog is `Timely`. That is
a conjunction of three kinds. *Pairing* (`LineInPlace`): the line whose prompt the
thread waits for is on its way alone, or was carried out and what jdb wrote of it is all
there is to read; while the program runs there may also be empty lines of a retry.
*The cache* (`StateCurrent`): registers marked valid are those of this stop, and a packet that needs
them still has the line `where` to say; once `locals` was heard, nothing that changes the program is
left before `where`. *Effects* (`EffectsThere`): the words read so far are what memory holds and
the rest of the dialog asks for the remaining ones, and a word to be written, a breakpoint to be set
or cleared is done or still to be said. None of them survives without the others: that an
answer is current follows from the pairing only because no line of the same dialog changes
what an earlier one read, which is why the lines a packet can speak are listed (`Speaks`).
After a retry that crossed a stop nothing is claimed; `late` becomes false again with the next
`c` that finds no line, text or prompt left over, and the proof starts afresh there.

Checked by TLC only, and why:

* `InStep`, `StackFits`, `AddressesOwned`, `FunctionsDivideText` and `SignaturesTrue` of
  `TranslatedCode`: the passes are
  recursive operators and `Words` uses bit operations, neither of which the prover takes.
* `ImplementsFileStore` of `Process`: a step-by-step refinement for ten kinds of file, whose
  mapping the bounds of the run exhaust.
* `EveryPacketAnswered`: liveness under fairness.

## 6. Findings

1. `fileops.c:274` (`stream_overwrite`): `fwrite` ignores a pending `fseek`. The bytes go where the
   stream stood before, and the sought position is forgotten.
   `include/cibyl-fileops.h:22-23` calls these functions implementations of the
   ANSI C file operations.
2. `fileconnection-filesystem.c:152` (`fileconnection_write`): `close_output` deletes
   `p->fc`, which an output FILE never sets: the delete reaches handle 0, and
   the next object is registered as handle 0, "the invalid object"
   (`CRunTime.java:45`).
3. `javamethod.cc:488` (`calls_wide`): thread-safe code returns
   `(v1 << 32) | v0` with `v0` sign-extended and not masked, so a negative low
   word makes the high word -1.

## 7. Also seen

Met while reading and modelling; no run states these. A star marks what the
programs of `translated_code` avoid.

Files, start and exit:

* `memory-filesystem.c:54-77`: the write-back on close compares `fwrite`'s item
  count (1) with the size in bytes, so a file longer than one byte returns -1
  with the temporary FILE open and the data not released.
* `memory-filesystem.c:36-40`: a borrowed buffer is extended like an owned one;
  after a failed `realloc` the data pointer is lost while size and allocation stay.
* `fileops.c`: `fwrite` advances by items and not bytes (276; the run has no larger items);
  `fputc` writes the most significant byte of its int (377), which `ImplementsByteStream`
  excepts; `fgets` stores `size + 1` bytes
  (370) and returns NULL after a seek back from the end, as `eof` is sticky
  (302, 360); `closedir` never frees its DIR (424-427).
* `recordstore-filesystem.c:28-48`: closing saves `ftell` bytes, not the size; an
  append never seeks to the end.
* `fileops.c:130`: the mode is compared with the table's `NULL` entry. 184-199, 451-471:
  a directory handler that keeps its URI takes every path, so `cibar://`
  directories depend on the link order; `remove` and `mkdir` pass the URI on where
  `opendir` strips it. 64: the fallback of a replaced file system stays.
* `inputstream-filesystem.c:18-33`: a seek that throws has moved the Java stream
  already; the end, once met, is never forgotten. `recordstore-filesystem.c:152`: a mode of
  "a" panics with the store open.
* `cibar.c`: `opendir` never closes the FILE it read, a short header is not
  noticed, and a write to a member reallocates the inside of the archive.
* `fileconnection-filesystem.c`: closing leaks the stream's handle, a failed
  open the connection's, a failed backward seek leaves both stale.
Translator:

* (*) `elf.cc:382`: a symbol table without functions (or data) reads `table[-1]`; 323-325:
  the last data symbol is stretched to the size of `.data`, not to its end (nothing uses it).
* (*) `functioncolocation.cc:59-66`: of two local functions with a colocated name the
  later one replaces the earlier, which then belongs to no method.
* `basicblock.cc:197-225`: pruned stack stores lose `s` registers between colocated
  functions. `basicblock.cc:150`: a tail call becomes a Java frame.
* `javamethod.cc:177`: one symbol stands for every function of a shared method
  when return arguments are optimised.
* (*) `javaclass.cc:64`: a class whose methods all have several functions keeps
  the first in the searched part with a range that is not its own.
* (*) `calltablemethod.cc:247-261`: the last call-table class loses the remainder
  of a division, and a hierarchy as deep as there are functions is not cut
  where it should be; with `thread_safe`, call methods are declared `int` though
  the parts return `long`.
* (*) `jfmt.cc:36,402,466`: a conditional branch counts the stack of its delay
  slot wrongly (`?:` binds weaker than `+`): with `slt` there, 5 words are
  needed and 4 declared.
* (*) The 64-bit builtins join words as finding 3 does. `muldiv.cc`: `using_lo`
  starts as 0x123 and is always true; `mtlo` and `mthi` take their source from
  `rd`, which is zero.
* `emit.cc:79-97`: an index with a negative base and an extra offset becomes huge.
  `instruction.cc:187`: `bgezal` takes its relative offset as an address.
  `emit.cc:158-174`: a pop to a register without a local leaves the value on the stack.
* (*) `lwl` not directly followed by its `lwr` loads the whole word at once.
* `exceptions.cc`: the handler's class lacks the package path, and its call pops one
  word where the thread-safe one returns two.
Start and memory:

* `helpers.c:138-158`: `atexit` stores before it checks the `realloc`, and the
  handlers run first in, first out.
* `CRunTime.java:62,85`: the event stack and the program's stack meet with an
  overlap of 8 bytes.

Tools:

* `jdb.py:194`: a retry that crosses a stop leaves two prompts behind; memory
  read next is reported as what the packet before read, and registers as
  0x000c1b41. `jdb.py:47` formats a name with `%x`: the exception it means to
  raise becomes a `TypeError` that ends the thread.
* `gdbmips.py:43-51`: a read of text that is unaligned returns nothing, of which
  `packets.py:89` takes the length; one that goes beyond the section, is empty, or is one byte
  long and meets 0xfe has an index out of range. Neither exception is caught: the thread ends.
* `packets.py:56,45,158`: the handlers of `g`, `P` and `vCont;c` end the thread;
  162-165: `k` raises in `JdbThread` what `gdbserver.py:99` means to catch in the reader.
* `gdbserver.py:77-86`: a packet that was refused is handled all the same; 92: each
  connection adds a thread to one queue; 66: a `-` from gdb is an assertion.
* `jdb.py:49-74`: ranges of memory that begin at 1 or 3 modulo 4, or do not end on a
  word, are answered with the wrong number of bytes.

## 8. Not modelled, and the plan

Modelled next to the code as far as this project goes are the runtime's core
(heap, handles, streams, files, calls, start and exit), the translator from words
to bytecode, and the gdb server. What is left to prove is that `Process` implements
`FileStore`, one kind of file at a time: the steps on a FILE are those of `Stream`,
whose lemmas are in `CStreamProofs`. Exceptions in translated code come next in the
model, then the interrupts of the gdb server.

Not modelled:

* exceptions and `setjmp` in translated code (`builtins/exceptions.cc`,
  `instructions/catch.cc`): try blocks become ranges of Java's exception table, whose
  semantics would be the model;
* what JSR 75 directories enumerate, `remove` and `mkdir` do behind the registry,
  `flush`, and files opened by system calls of a midlet's own;
* the memory of the two stacks, `hi` and `lo` shared by threads, and the object
  table without a lock: `doc/threading.txt` names these as reasons why programs
  have one thread;
* interrupts, wrong checksums and further connections of the gdb server;
* `cibyl-server`, a prototype that cannot run: its output stream is never
  assigned and its switch is on the wrong field;
* Java, J2ME and Android launchers, generated system call wrappers and
  headers, the bytes of the ELF format, the text of the Jasmin emitter, the C
  library's strings, formatting and mathematics, soft float, libs9, the superseded
  Python translator, examples and tests.

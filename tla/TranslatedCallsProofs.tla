------------------------- MODULE TranslatedCallsProofs -------------------------
(***************************************************************************)
(* The translated program runs in step with the MIPS program, keeps its    *)
(* callers' registers and delivers its results, for any functions, any     *)
(* distribution of them over methods and any depth of calls.               *)
(***************************************************************************)
EXTENDS TranslatedCalls, SequenceTheorems, TLAPS

Places == {"entry", "body", "calling", "tailing", "done", "passing"}

(* A frame whose function was replaced by one that it tail called. *)
Replaced == {"tailing", "passing"}

Activation == [fn : Fns, site : Sites \cup {0}]
Returns == {None} \cup (Fns \X Sites)
Results == [size : 0 .. 2, lo : Words, hi : Words]

Frame == [fn : Fns, pc : Places, site : Sites \cup {0}, indirect : BOOLEAN,
          op : {None} \cup Results, ra : Returns, s0 : 0 .. MaxDepth, v0 : Words, v1 : Words]

Shape ==
  /\ calls \in Seq(Activation) /\ Len(calls) <= MaxDepth
  /\ returned \in {None} \cup [width : 0 .. 2, v0 : Words, v1 : Words]
  /\ config \in Configs
  /\ java \in Seq(Frame) /\ Len(java) <= MaxFrames
  /\ stack \in Seq([ra : Returns, s0 : 0 .. MaxDepth])
  /\ savedV1 \in Words /\ crossed \in BOOLEAN

-------------------------------------------------------------------------------
(* The activations of the MIPS machine are dealt out to the Java frames: the *)
(* ones above b[j] up to b[j + 1] live in frame j.                           *)
Indexed(b) == b \in [Nat -> Nat]

Dealt(b) ==
  /\ Indexed(b)
  /\ b[1] = 0 /\ b[Len(java) + 1] = Len(calls)
  /\ \A i, j \in 1 .. Len(java) + 1 : i <= j => b[i] <= b[j]

(* What activation i of frame j holds in ra, and the s0 it was called with.  *)
RaOf(b, j, i) == IF i = b[j] + 1 THEN None ELSE <<calls[i - 1].fn, calls[i - 1].site>>
S0Of(b, j, i) == IF i = b[j] + 1 THEN 0 ELSE i - 1

(* All activations of a frame but the last wait for a return inside the      *)
(* method; of a frame whose function was replaced, all.                      *)
WaitInside(first, last, frame) ==
  \A i \in first + 1 .. last :
    frame.pc \in Replaced \/ i < last =>
      calls[i].fn \in config.coloc /\ calls[i].site \in Sites /\ frame.fn \in config.coloc

FrameInStep(b, j) ==
  /\ java[j].pc \notin Replaced =>
       b[j] < b[j + 1] /\ java[j].fn = calls[b[j + 1]].fn /\ java[j].site = calls[b[j + 1]].site
  /\ java[j].pc \in Replaced => java[j].fn \notin Leaf /\ java[j].ra = RaOf(b, j, b[j + 1] + 1)
  /\ java[j].pc \in {"entry", "done"} => java[j].ra = RaOf(b, j, b[j + 1])
  /\ WaitInside(b[j], b[j + 1], java[j])

(* What the prologues stored.                                                *)
FrameSaved(b, j) ==
  \A i \in b[j] + 1 .. b[j + 1] :
    i <= Len(stack) => /\ stack[i].ra = RaOf(b, j, i)
                       /\ ~config.prune => stack[i].s0 = S0Of(b, j, i)

(* The s registers survive: each function saves them, or none shares a method. *)
SavesSound == config.prune => config.coloc = {}

FrameRegisters(b, j) ==
  /\ SavesSound /\ java[j].pc \in {"body", "calling"} => java[j].s0 = b[j + 1]
  /\ ~config.prune /\ java[j].pc \in {"entry", "done"} => java[j].s0 = S0Of(b, j, b[j + 1])
  /\ ~config.prune /\ java[j].pc \in Replaced => java[j].s0 = S0Of(b, j, b[j + 1] + 1)

(* ra, also where it is stale, is a place inside the method.                 *)
FrameReturns(j) == java[j].ra \in {None} \cup (config.coloc \X Sites)

FrameLinked(b, j) == FrameInStep(b, j) /\ FrameSaved(b, j) /\ FrameRegisters(b, j) /\ FrameReturns(j)

FrameBelow(j) == java[j].pc \in {"calling", "tailing"} /\ java[j].op = None

TopInStep ==
  java # <<>> =>
    /\ Top.op # None <=> Top.pc \in {"calling", "tailing"}
    /\ Top.pc = "entry" => returned = None

Unsaved == IF At({"entry", "done"}) THEN 1 ELSE 0

Linked(b) ==
  /\ Dealt(b)
  /\ \A j \in 1 .. Len(java) : FrameLinked(b, j)
  /\ \A j \in 1 .. Len(java) - 1 : FrameBelow(j)
  /\ TopInStep
  /\ Len(stack) = Len(calls) - Unsaved

(* The result of the last return, on its way up the Java frames.             *)
HighArrives == IF config.threadSafe THEN returned.v0 >= 0 ELSE ~crossed

Carried ==
  java # <<>> =>
    /\ Top.pc = "passing" => returned # None
    /\ Top.pc \in {"body", "passing"} /\ returned # None =>
         /\ returned.width >= 1 => Top.v0 = returned.v0
         /\ returned.width = 2 /\ HighArrives => Top.v1 = returned.v1
    /\ Top.pc \in {"calling", "tailing"} =>
         /\ returned # None
         /\ returned.width <= Top.op.size
         /\ returned.width >= 1 => Top.op.lo = returned.v0
         /\ returned.width = 2 /\ HighArrives =>
              returned.v1 = IF config.threadSafe THEN Top.op.hi ELSE savedV1

IInv == Shape /\ Carried /\ \E b : Linked(b)

-------------------------------------------------------------------------------
(* A sequence whose last element is replaced, one that grows by an element,  *)
(* and one that loses its last element.                                      *)
LEMMA ShortenedSeq ==
  ASSUME NEW S, NEW s \in Seq(S), s # <<>>
  PROVE  LET t == SubSeq(s, 1, Len(s) - 1)
         IN /\ t \in Seq(S) /\ Len(t) = Len(s) - 1
            /\ \A i \in 1 .. Len(s) - 1 : t[i] = s[i]
<1>1. PICK n \in Nat : n = Len(s) - 1
  BY EmptySeq
<1>2. \A i \in 1 .. n : s[i] \in S
  BY <1>1, ElementOfSeq
<1>3. /\ SubSeq(s, 1, n) \in Seq(S)
      /\ Len(SubSeq(s, 1, n)) = IF 1 <= n THEN n - 1 + 1 ELSE 0
      /\ \A i \in 1 .. n - 1 + 1 : SubSeq(s, 1, n)[i] = s[1 + i - 1]
  BY <1>2, SubSeqProperties
<1>4. Len(SubSeq(s, 1, n)) = n /\ \A i \in 1 .. n : SubSeq(s, 1, n)[i] = s[i]
  BY <1>3
<1> QED BY <1>1, <1>3, <1>4

LEMMA GrownSeq ==
  ASSUME NEW S, NEW s \in Seq(S), NEW x \in S
  PROVE  LET t == Append(s, x)
         IN /\ t \in Seq(S) /\ t # <<>> /\ Len(t) = Len(s) + 1 /\ t[Len(s) + 1] = x
            /\ \A i \in 1 .. Len(s) : t[i] = s[i]
  BY AppendProperties

LEMMA ReplacedLast ==
  ASSUME NEW S, NEW s \in Seq(S), s # <<>>, NEW x \in S
  PROVE  LET t == Append(SubSeq(s, 1, Len(s) - 1), x)
         IN /\ t \in Seq(S) /\ t # <<>> /\ Len(t) = Len(s) /\ t[Len(s)] = x
            /\ \A i \in 1 .. Len(s) - 1 : t[i] = s[i]
<1> DEFINE r == SubSeq(s, 1, Len(s) - 1)
<1>1. r \in Seq(S) /\ Len(r) = Len(s) - 1 /\ \A i \in 1 .. Len(s) - 1 : r[i] = s[i]
  BY ShortenedSeq
<1>2. Len(s) \in Nat \ {0}
  BY EmptySeq
<1> HIDE DEF r
<1>3. LET t == Append(r, x)
      IN /\ t \in Seq(S) /\ t # <<>> /\ Len(t) = Len(r) + 1 /\ t[Len(r) + 1] = x
         /\ \A i \in 1 .. Len(r) : t[i] = r[i]
  BY <1>1, GrownSeq
<1> QED BY <1>1, <1>2, <1>3 DEF r

(* The running frame n and its d activations.                                *)
Standing(b, n, d) ==
  /\ n = Len(java) /\ n + 1 \in Nat /\ Top = java[n] /\ Top \in Frame
  /\ d = Len(calls) /\ d <= MaxDepth
  /\ Indexed(b) /\ b[n] \in Nat /\ b[n + 1] = d /\ b[n] <= d /\ b[n] <= Len(stack)
  /\ FrameLinked(b, n)
  /\ Top.pc \notin Replaced =>
       /\ b[n] < d /\ d # 0 /\ calls # <<>> /\ Running = calls[d] /\ calls[d] \in Activation
       /\ Top.fn = calls[d].fn /\ Top.site = calls[d].site
  /\ Len(stack) = IF Top.pc \in {"entry", "done"} THEN d - 1 ELSE d

LEMMA StandingSomewhere ==
  ASSUME Shape, NEW b, Linked(b), java # <<>>
  PROVE  \E n \in Nat \ {0}, d \in Nat : Standing(b, n, d)
<1> PICK n \in Nat \ {0} : n = Len(java)
  BY EmptySeq DEF Shape
<1> PICK d \in Nat : d = Len(calls)
  BY LenProperties DEF Shape
<1>1. n + 1 \in Nat /\ Top = java[n] /\ Top \in Frame /\ d <= MaxDepth
  BY ElementOfSeq DEF Shape, Top
<1>2. Indexed(b) /\ b[n + 1] = d /\ FrameLinked(b, n)
  BY DEF Linked, Dealt
<1>3. b[n] \in Nat /\ b[n] <= d
  <2>1. b[n] \in Nat
    BY <1>2 DEF Indexed
  <2>2. n \in 1 .. n + 1 /\ n + 1 \in 1 .. n + 1 /\ n <= n + 1
    OBVIOUS
  <2>3. b[n] <= b[n + 1]
    BY <2>2 DEF Linked, Dealt
  <2> QED BY <2>1, <2>3, <1>2
<1>4. ASSUME Top.pc \notin Replaced
      PROVE  /\ b[n] < d /\ d # 0 /\ calls # <<>> /\ Running = calls[d] /\ calls[d] \in Activation
             /\ Top.fn = calls[d].fn /\ Top.site = calls[d].site
  <2>1. b[n] < d /\ d # 0 /\ Top.fn = calls[d].fn /\ Top.site = calls[d].site
    BY <1>1, <1>2, <1>3, <1>4 DEF FrameLinked, FrameInStep
  <2>2. calls # <<>> /\ Running = calls[d] /\ calls[d] \in Activation
    BY <2>1, EmptySeq, ElementOfSeq DEF Shape, Running
  <2> QED BY <2>1, <2>2
<1>5. Len(stack) = IF Top.pc \in {"entry", "done"} THEN d - 1 ELSE d
  BY DEF Linked, Unsaved, At
<1>6. b[n] <= Len(stack)
  <2>1. CASE Top.pc \in {"entry", "done"}
    BY <2>1, <1>3, <1>4, <1>5 DEF Replaced
  <2>2. CASE Top.pc \notin {"entry", "done"}
    BY <2>2, <1>3, <1>5
  <2> QED BY <2>1, <2>2
<1> QED BY <1>1, <1>2, <1>3, <1>4, <1>5, <1>6 DEF Standing

(* The frame that replaces the running one.                                  *)
LEMMA TopReplaced ==
  ASSUME Shape, java # <<>>, NEW frame \in Frame, java' = WithTop(frame)
  PROVE  /\ java' \in Seq(Frame) /\ java' # <<>> /\ Len(java') = Len(java)
         /\ java'[Len(java)] = frame /\ Top' = frame
         /\ \A i \in 1 .. Len(java) - 1 : java'[i] = java[i]
  BY ReplacedLast DEF Shape, WithTop, Below, Top

TopIs(frame, n) == /\ java' \in Seq(Frame) /\ java' # <<>> /\ Len(java') = n
                   /\ java'[n] = frame /\ Top' = frame

LEMMA TopBecomes ==
  ASSUME Shape, java # <<>>, NEW frame \in Frame, java' = WithTop(frame), NEW n, n = Len(java)
  PROVE  TopIs(frame, n)
BY TopReplaced DEF TopIs

(* Places within the range of a frame are within that of the frames above.   *)
LEMMA Between ==
  ASSUME NEW x \in Nat, NEW y \in Nat, NEW z \in Nat, y <= z
  PROVE  /\ \A i \in x + 1 .. y + 1 : i # x + 1 => i - 1 \in 1 .. z
         /\ \A i \in x + 1 .. y : i \in 1 .. z
<1>1. ASSUME NEW i \in x + 1 .. y + 1, i # x + 1
      PROVE  i - 1 \in 1 .. z
  BY <1>1
<1>2. ASSUME NEW i \in x + 1 .. y
      PROVE  i \in 1 .. z
  OBVIOUS
<1> QED BY <1>1, <1>2

(* Frames below one that a step does not reach keep what they had.           *)
LEMMA LowerFramesKept ==
  ASSUME Shape, Shape', config' = config, NEW b, Linked(b),
         NEW c,
         NEW k \in Nat, k < Len(java), k < Len(java'),
         \A j \in 1 .. k + 1 : c[j] = b[j],
         \A j \in 1 .. k : java'[j] = java[j],
         \A i \in 1 .. b[k + 1] : calls'[i] = calls[i],
         \A i \in 1 .. b[k + 1] : i <= Len(stack) /\ stack'[i] = stack[i]
  PROVE  /\ \A j \in 1 .. k : FrameLinked(c, j)' /\ FrameBelow(j)'
         /\ \A i, j \in 1 .. k + 1 : i <= j => c[i] <= c[j]
<1>1. Len(java) \in Nat /\ Len(java') \in Nat
  BY LenProperties DEF Shape
<1>2. \A i, j \in 1 .. k + 1 : i <= j => b[i] <= b[j]
  <2> TAKE i, j \in 1 .. k + 1
  <2>1. i \in 1 .. Len(java) + 1 /\ j \in 1 .. Len(java) + 1
    BY <1>1
  <2> QED BY <2>1 DEF Linked, Dealt
<1>3. ASSUME NEW j \in 1 .. k
      PROVE  FrameLinked(c, j)' /\ FrameBelow(j)'
  <2>1. /\ c[j] = b[j] /\ c[j + 1] = b[j + 1] /\ b[j] <= b[j + 1] /\ b[j + 1] <= b[k + 1]
        /\ b[j] \in Nat /\ b[j + 1] \in Nat /\ b[k + 1] \in Nat
    <3>1. /\ j \in 1 .. k + 1 /\ j + 1 \in 1 .. k + 1
          /\ k + 1 \in 1 .. k + 1 /\ j \in Nat /\ j + 1 \in Nat /\ k + 1 \in Nat
      BY <1>1
    <3>2. b[j] \in Nat /\ b[j + 1] \in Nat /\ b[k + 1] \in Nat
      BY <3>1 DEF Linked, Dealt, Indexed
    <3> QED BY <3>1, <3>2, <1>2
  <2>2. FrameLinked(b, j) /\ FrameBelow(j) /\ java'[j] = java[j]
    <3>1. j \in 1 .. Len(java) /\ j \in 1 .. Len(java) - 1
      BY <1>1
    <3> QED BY <3>1 DEF Linked
  <2>3. ASSUME NEW i \in b[j] + 1 .. b[j + 1] + 1
        PROVE  RaOf(c, j, i)' = RaOf(b, j, i) /\ S0Of(c, j, i) = S0Of(b, j, i)
    <3>1. i # b[j] + 1 => i - 1 \in 1 .. b[k + 1]
      BY <2>1, Between, SMTT(40)
    <3>2. i # b[j] + 1 => calls'[i - 1] = calls[i - 1]
      BY <3>1
    <3>3. (i = c[j] + 1 <=> i = b[j] + 1) /\ (config.prune' <=> config.prune)
      BY <2>1
    <3>4. RaOf(c, j, i)' = RaOf(b, j, i)
      BY <3>2, <3>3 DEF RaOf
    <3>5. S0Of(c, j, i) = S0Of(b, j, i)
      BY <3>3 DEF S0Of
    <3> QED BY <3>4, <3>5
  <2>4. b[j + 1] + 1 \in b[j] + 1 .. b[j + 1] + 1
    BY <2>1, SMTT(40)
  <2>5. ASSUME NEW i \in b[j] + 1 .. b[j + 1]
        PROVE  i <= Len(stack) /\ stack'[i] = stack[i] /\ calls'[i] = calls[i]
    <3>1. i \in 1 .. b[k + 1]
      BY <2>1, Between, SMTT(40)
    <3> QED BY <3>1
  <2>6. WaitInside(b[j], b[j + 1], java[j])'
    BY <2>1, <2>2, <2>5 DEF FrameLinked, FrameInStep, WaitInside
  <2>7. FrameInStep(c, j)'
    <3>1. java[j].pc \in {"calling", "tailing"} /\ FrameInStep(b, j)
      BY <2>2 DEF FrameLinked, FrameBelow
    <3>2. java[j].pc \notin {"entry", "done"}
      BY <3>1
    <3>3. /\ java[j].pc \in Replaced
             => java[j].fn \notin Leaf /\ java[j].ra = RaOf(b, j, b[j + 1] + 1)
          /\ java[j].pc \notin Replaced
             => b[j] < b[j + 1] /\ java[j].fn = calls[b[j + 1]].fn
                /\ java[j].site = calls[b[j + 1]].site
      BY <3>1 DEF FrameInStep
    <3>4. RaOf(c, j, b[j + 1] + 1)' = RaOf(b, j, b[j + 1] + 1)
      BY <2>3, <2>4
    <3>5. b[j] < b[j + 1] => calls'[b[j + 1]] = calls[b[j + 1]]
      <4>1. b[j] < b[j + 1] => b[j + 1] \in b[j] + 1 .. b[j + 1]
        BY <2>1
      <4> QED BY <4>1, <2>5
    <3> HIDE DEF Replaced
    <3>6. /\ java[j].pc \notin Replaced
             => b[j] < b[j + 1] /\ java[j].fn = calls'[b[j + 1]].fn
                /\ java[j].site = calls'[b[j + 1]].site
          /\ java[j].pc \in Replaced
             => java[j].fn \notin Leaf /\ java[j].ra = RaOf(c, j, b[j + 1] + 1)'
      BY <3>3, <3>4, <3>5
    <3> QED BY <3>2, <3>6, <2>1, <2>2, <2>6 DEF FrameInStep
  <2>8. FrameSaved(c, j)'
    <3> SUFFICES ASSUME NEW i \in b[j] + 1 .. b[j + 1]
                 PROVE  /\ stack'[i].ra = RaOf(c, j, i)'
                        /\ ~config.prune => stack'[i].s0 = S0Of(c, j, i)
      BY <2>1 DEF FrameSaved, S0Of
    <3>1. i \in b[j] + 1 .. b[j + 1] + 1
      BY <2>1
    <3> QED BY <3>1, <2>2, <2>3, <2>5 DEF FrameLinked, FrameSaved
  <2>9. FrameRegisters(c, j)'
    BY <2>1, <2>2, <2>3, <2>4 DEF FrameLinked, FrameBelow, FrameRegisters, SavesSound, S0Of
  <2>10. FrameReturns(j)'
    BY <2>2 DEF FrameLinked, FrameReturns
  <2> QED BY <2>2, <2>7, <2>8, <2>9, <2>10 DEF FrameLinked, FrameBelow
<1> QED BY <1>1, <1>2, <1>3

(* Indices that rise up to a place and from there on rise throughout.        *)
LEMMA RisingJoined ==
  ASSUME NEW c, \A i \in Nat : c[i] \in Nat,
         NEW k \in Nat, NEW m \in Nat, k < m,
         \A i, j \in 1 .. k + 1 : i <= j => c[i] <= c[j],
         \A i, j \in k + 1 .. m + 1 : i <= j => c[i] <= c[j]
  PROVE  \A i, j \in 1 .. m + 1 : i <= j => c[i] <= c[j]
<1> TAKE i, j \in 1 .. m + 1
<1> HAVE i <= j
<1>1. /\ i \in Nat /\ j \in Nat /\ k + 1 \in Nat /\ k + 1 \in k + 1 .. m + 1 /\ k + 1 \in 1 .. k + 1
  OBVIOUS
<1>2. CASE j <= k + 1
  <2>1. i \in 1 .. k + 1 /\ j \in 1 .. k + 1
    BY <1>2
  <2> QED BY <2>1
<1>3. CASE k + 1 <= i
  <2>1. i \in k + 1 .. m + 1 /\ j \in k + 1 .. m + 1
    BY <1>3
  <2> QED BY <2>1
<1>4. CASE i < k + 1 /\ k + 1 < j
  <2>1. i \in 1 .. k + 1 /\ j \in k + 1 .. m + 1
    BY <1>4
  <2>2. c[i] <= c[k + 1]
    BY <2>1, <1>1, <1>4
  <2>3. c[k + 1] <= c[j]
    BY <2>1, <1>1, <1>4
  <2>4. c[i] \in Nat /\ c[j] \in Nat /\ c[k + 1] \in Nat
    BY <1>1
  <2> QED BY <2>2, <2>3, <2>4
<1> QED BY <1>1, <1>2, <1>3, <1>4

LEMMA TwoRise ==
  ASSUME NEW c, \A i \in Nat : c[i] \in Nat, NEW n \in Nat, c[n] <= c[n + 1]
  PROVE  \A i, j \in n .. n + 1 : i <= j => c[i] <= c[j]
<1> TAKE i, j \in n .. n + 1
<1>1. c[n] \in Nat /\ c[n + 1] \in Nat
  OBVIOUS
<1>2. (i = n \/ i = n + 1) /\ (j = n \/ j = n + 1)
  OBVIOUS
<1> QED BY <1>1, <1>2

LEMMA ThreeRise ==
  ASSUME NEW c, \A i \in Nat : c[i] \in Nat, NEW n \in Nat, c[n] <= c[n + 1], c[n + 1] <= c[n + 2]
  PROVE  \A i, j \in n .. n + 2 : i <= j => c[i] <= c[j]
<1> TAKE i, j \in n .. n + 2
<1>1. c[n] \in Nat /\ c[n + 1] \in Nat /\ c[n + 2] \in Nat
  OBVIOUS
<1>2. (i = n \/ i = n + 1 \/ i = n + 2) /\ (j = n \/ j = n + 1 \/ j = n + 2)
  OBVIOUS
<1> QED BY <1>1, <1>2

(* A step that leaves the frames up to k alone: what is left to show is for  *)
(* the frames above.                                                         *)
LEMMA StepLinked ==
  ASSUME Shape, Shape', config' = config, NEW b, Linked(b), NEW c, Indexed(c),
         NEW k \in Nat, k < Len(java), NEW m \in Nat, m = Len(java'), k < m,
         \A j \in 1 .. k + 1 : c[j] = b[j],
         \A j \in 1 .. k : java'[j] = java[j],
         b[k + 1] <= Len(stack),
         \A i \in 1 .. b[k + 1] : calls'[i] = calls[i] /\ stack'[i] = stack[i],
         \A i, j \in k + 1 .. m + 1 : i <= j => c[i] <= c[j],
         \A j \in k + 1 .. m : FrameLinked(c, j)',
         \A j \in k + 1 .. m - 1 : FrameBelow(j)',
         c[m + 1] = Len(calls'), TopInStep', Len(stack') = Len(calls') - Unsaved'
  PROVE  Linked(c)'
<1>1. /\ Len(java) \in Nat /\ Len(stack) \in Nat /\ k + 1 \in Nat /\ m + 1 \in Nat
      /\ k < Len(java') /\ k + 1 \in 1 .. k + 1 /\ 1 \in 1 .. k + 1
  BY LenProperties DEF Shape
<1>2. \A i \in Nat : c[i] \in Nat /\ b[i] \in Nat
  BY DEF Linked, Dealt, Indexed
<1>3. \A i \in 1 .. b[k + 1] : i <= Len(stack)
  BY <1>1, <1>2
<1>4. /\ \A j \in 1 .. k : FrameLinked(c, j)' /\ FrameBelow(j)'
      /\ \A i, j \in 1 .. k + 1 : i <= j => c[i] <= c[j]
  BY <1>1, <1>3, LowerFramesKept, SMTT(40)
<1>5. Dealt(c)'
  <2>1. c[1] = 0
    BY <1>1 DEF Linked, Dealt
  <2>2. \A i, j \in 1 .. m + 1 : i <= j => c[i] <= c[j]
    BY <1>2, <1>4, RisingJoined
  <2> QED BY <2>1, <2>2 DEF Dealt
<1>6. ASSUME NEW j \in 1 .. m
      PROVE  FrameLinked(c, j)'
  <2>1. j \in 1 .. k \/ j \in k + 1 .. m
    BY <1>1
  <2> QED BY <2>1, <1>4
<1>7. ASSUME NEW j \in 1 .. m - 1
      PROVE  FrameBelow(j)'
  <2>1. j \in 1 .. k \/ j \in k + 1 .. m - 1
    BY <1>1
  <2> QED BY <2>1, <1>4
<1> QED BY <1>5, <1>6, <1>7 DEF Linked

(* A step that changes the running frame alone.                              *)
LEMMA RunningFrameSteps ==
  ASSUME Shape, Shape', config' = config, NEW b, Linked(b),
         NEW n \in Nat \ {0}, NEW d \in Nat, Standing(b, n, d),
         NEW frame \in Frame, java' = WithTop(frame),
         NEW c, Indexed(c), c[n + 1] = Len(calls'), c[n] <= c[n + 1],
         \A j \in 1 .. n : c[j] = b[j],
         \A i \in 1 .. b[n] : calls'[i] = calls[i] /\ stack'[i] = stack[i],
         FrameLinked(c, n)', TopInStep', Len(stack') = Len(calls') - Unsaved'
  PROVE  Linked(c)'
<1> PICK k \in Nat : k = n - 1
  OBVIOUS
<1>1. /\ n = Len(java) /\ java # <<>> /\ k + 1 = n /\ k < n /\ n + 1 \in Nat
      /\ b[k + 1] <= Len(stack)
  BY EmptySeq DEF Standing, Shape
<1>2. n = Len(java') /\ \A i \in 1 .. k : java'[i] = java[i]
  BY <1>1, TopReplaced
<1>4. \A i, j \in k + 1 .. n + 1 : i <= j => c[i] <= c[j]
  <2>1. \A i \in Nat : c[i] \in Nat
    BY DEF Indexed
  <2>2. \A i, j \in n .. n + 1 : i <= j => c[i] <= c[j]
    BY <2>1, TwoRise
  <2> QED BY <2>2, <1>1
<1>5. \A j \in k + 1 .. n : FrameLinked(c, j)'
  BY <1>1
<1>6. \A j \in k + 1 .. n - 1 : FrameBelow(j)'
  BY <1>1
<1> QED BY <1>1, <1>2, <1>4, <1>5, <1>6, StepLinked

(* A step that starts a Java frame above the running one.                    *)
LEMMA NewFrameSteps ==
  ASSUME Shape, Shape', config' = config, NEW b, Linked(b),
         NEW n \in Nat \ {0}, NEW d \in Nat, Standing(b, n, d),
         NEW frame \in Frame, NEW new \in Frame, java' = Append(WithTop(frame), new),
         NEW c, Indexed(c), c[n + 2] = Len(calls'), c[n] <= c[n + 1], c[n + 1] <= c[n + 2],
         \A j \in 1 .. n : c[j] = b[j],
         \A i \in 1 .. b[n] : calls'[i] = calls[i] /\ stack'[i] = stack[i],
         FrameLinked(c, n)', FrameBelow(n)', FrameLinked(c, n + 1)',
         TopInStep', Len(stack') = Len(calls') - Unsaved'
  PROVE  Linked(c)'
<1> PICK k \in Nat : k = n - 1
  OBVIOUS
<1> PICK m \in Nat : m = n + 1
  OBVIOUS
<1>1. /\ n = Len(java) /\ java # <<>> /\ k + 1 = n /\ k < n /\ n + 1 \in Nat /\ m + 1 = n + 2
      /\ k < m /\ m - 1 = n /\ b[k + 1] <= Len(stack) /\ m + 1 \in Nat
  BY EmptySeq, SMTT(40) DEF Standing, Shape
<1>2. m = Len(java') /\ \A i \in 1 .. k : java'[i] = java[i]
  <2> PICK mid : mid = WithTop(frame)
    OBVIOUS
  <2>1. /\ mid \in Seq(Frame) /\ Len(mid) = n
        /\ \A i \in 1 .. Len(java) - 1 : mid[i] = java[i]
    BY <1>1, ReplacedLast, SMTT(40) DEF Shape, WithTop, Below
  <2>2. Len(java') = n + 1 /\ \A i \in 1 .. n : java'[i] = mid[i]
    BY <2>1, GrownSeq
  <2> QED BY <2>1, <2>2, <1>1
<1>4. \A i, j \in k + 1 .. m + 1 : i <= j => c[i] <= c[j]
  <2>1. \A i \in Nat : c[i] \in Nat
    BY DEF Indexed
  <2>2. \A i, j \in n .. n + 2 : i <= j => c[i] <= c[j]
    BY <2>1, ThreeRise
  <2> QED BY <2>2, <1>1
<1>5. \A j \in k + 1 .. m : FrameLinked(c, j)'
  BY <1>1, SMTT(40)
<1>6. \A j \in k + 1 .. m - 1 : FrameBelow(j)'
  BY <1>1
<1>7. c[m + 1] = Len(calls') /\ \A j \in 1 .. k + 1 : c[j] = b[j]
  BY <1>1
<1>8. \A i \in 1 .. b[k + 1] : calls'[i] = calls[i] /\ stack'[i] = stack[i]
  BY <1>1
<1> QED BY <1>8, <1>1, <1>2, <1>4, <1>5, <1>6, <1>7, StepLinked

-------------------------------------------------------------------------------
(* The steps. *)

LEMMA PrologueInv ==
  ASSUME Shape, Carried, NEW b, Linked(b), Prologue
  PROVE  Shape' /\ Carried' /\ Linked(b)'
<1>1. java # <<>> /\ Top.pc = "entry"
  BY DEF Prologue, At
<1> PICK n \in Nat \ {0}, d \in Nat : Standing(b, n, d)
  BY <1>1, StandingSomewhere
<1>2. /\ n = Len(java) /\ Top = java[n] /\ Top \in Frame /\ Top.op = None /\ returned = None
      /\ b[n] \in Nat /\ b[n + 1] = d /\ b[n] < d /\ d # 0 /\ d <= MaxDepth /\ Len(stack) = d - 1
      /\ Top.fn = calls[d].fn /\ Top.site = calls[d].site
  BY <1>1 DEF Standing, Linked, TopInStep, Replaced
<1>3. UNCHANGED <<calls, returned, config, savedV1, crossed>>
  BY DEF Prologue, mips
<1> PICK top : top = [Top EXCEPT !.pc = "body", !.s0 = d]
  OBVIOUS
<1>4. /\ top.fn = Top.fn /\ top.pc = "body" /\ top.site = Top.site /\ top.op = None
      /\ top.ra = Top.ra /\ top.s0 = d
  BY <1>2 DEF Frame
<1>5. top \in Frame
  <2>1. d \in 0 .. MaxDepth
    BY <1>2, DepthAssumption
  <2> QED BY <1>2, <2>1 DEF Frame, Places
<1>6. java' = WithTop(top)
  <2>1. Len(stack) + 1 = d
    BY <1>2
  <2> QED BY <2>1 DEF Prologue
<1>7. /\ java' \in Seq(Frame) /\ java' # <<>> /\ Len(java') = n /\ java'[n] = top /\ Top' = top
  <2>1. TopIs(top, n)
    BY <1>1, <1>2, <1>5, <1>6, TopBecomes
  <2> QED BY <2>1 DEF TopIs
<1>8. /\ stack' \in Seq([ra : Returns, s0 : 0 .. MaxDepth]) /\ Len(stack') = d
      /\ stack'[d] = Saved(Top) /\ \A i \in 1 .. d - 1 : stack'[i] = stack[i]
  <2>1. Saved(Top) \in [ra : Returns, s0 : 0 .. MaxDepth]
    BY <1>2, DepthAssumption DEF Saved, Frame
  <2>2. stack' = Append(stack, Saved(Top)) /\ Len(stack) + 1 = d
    BY <1>2 DEF Prologue
  <2> QED BY <2>1, <2>2, <1>2, GrownSeq DEF Shape
<1>9. Shape'
  BY <1>2, <1>3, <1>7, <1>8 DEF Shape
<1>10. Carried'
  BY <1>2, <1>3, <1>4, <1>7 DEF Carried
<1>11. FrameInStep(b, n)'
  <2>1. b[n] < b[n + 1] /\ top.fn = calls[b[n + 1]].fn /\ top.site = calls[b[n + 1]].site
    BY <1>2, <1>4
  <2>2. WaitInside(b[n], b[n + 1], Top)
    BY <1>2 DEF Standing, FrameLinked, FrameInStep
  <2>3. WaitInside(b[n], b[n + 1], java[n])'
    BY <2>2, <1>3, <1>4, <1>7 DEF WaitInside, Replaced
  <2> QED BY <2>1, <2>3, <1>3, <1>4, <1>7 DEF FrameInStep, Replaced
<1>12. FrameSaved(b, n)'
  <2> SUFFICES ASSUME NEW i \in b[n] + 1 .. b[n + 1]
               PROVE  /\ stack'[i].ra = RaOf(b, n, i)
                      /\ ~config.prune => stack'[i].s0 = S0Of(b, n, i)
    BY <1>3 DEF FrameSaved, RaOf, S0Of
  <2>1. CASE i = d
    <3>1. Top.ra = RaOf(b, n, d) /\ (~config.prune => Top.s0 = S0Of(b, n, d))
      BY <1>1, <1>2 DEF Standing, FrameLinked, FrameInStep, FrameRegisters
    <3> QED BY <2>1, <3>1, <1>8 DEF Saved
  <2>2. CASE i # d
    <3>1. i <= Len(stack) /\ stack'[i] = stack[i]
      BY <2>2, <1>2, <1>8, SMTT(40)
    <3> QED BY <3>1 DEF Standing, FrameLinked, FrameSaved
  <2> QED BY <2>1, <2>2
<1>13. FrameRegisters(b, n)'
  BY <1>2, <1>4, <1>7 DEF FrameRegisters, Replaced
<1>14. TopInStep' /\ Len(stack') = Len(calls') - Unsaved'
  BY <1>2, <1>3, <1>4, <1>7, <1>8 DEF Standing, TopInStep, Unsaved, At
<1>15. \A i \in 1 .. b[n] : calls'[i] = calls[i] /\ stack'[i] = stack[i]
  BY <1>2, <1>3, <1>8
<1>16. b[n + 1] = Len(calls') /\ b[n] <= b[n + 1] /\ Indexed(b)
  BY <1>2, <1>3 DEF Standing
<1>r. FrameReturns(n)'
  BY <1>1, <1>2, <1>3, <1>4, <1>7 DEF Standing, FrameLinked, FrameReturns
<1> QED BY <1>r, <1>3, <1>5, <1>6, <1>9, <1>10, <1>11, <1>12, <1>13, <1>14, <1>15, <1>16, RunningFrameSteps DEF FrameLinked

LEMMA EpilogueInv ==
  ASSUME Shape, Carried, NEW b, Linked(b), NEW lo \in Low, NEW hi \in High, Epilogue(lo, hi)
  PROVE  Shape' /\ Carried' /\ Linked(b)'
<1>1. java # <<>> /\ Top.pc = "body"
  BY DEF Epilogue, At
<1> PICK n \in Nat \ {0}, d \in Nat : Standing(b, n, d)
  BY <1>1, StandingSomewhere
<1>2. /\ n = Len(java) /\ Top = java[n] /\ Top \in Frame /\ Top.op = None
      /\ b[n] \in Nat /\ b[n + 1] = d /\ b[n] < d /\ d # 0 /\ d <= MaxDepth /\ Len(stack) = d
      /\ Top.fn = calls[d].fn /\ Top.site = calls[d].site
  BY <1>1 DEF Standing, Linked, TopInStep, Replaced
<1>3. UNCHANGED <<calls, returned, config, savedV1, crossed>>
  BY DEF Epilogue, mips
<1> PICK saved : saved = stack[d]
  OBVIOUS
<1>4. /\ saved \in [ra : Returns, s0 : 0 .. MaxDepth]
      /\ saved.ra = RaOf(b, n, d) /\ (~config.prune => saved.s0 = S0Of(b, n, d))
  <2>1. d \in 1 .. Len(stack) /\ d \in b[n] + 1 .. b[n + 1]
    BY <1>2
  <2>2. saved \in [ra : Returns, s0 : 0 .. MaxDepth]
    BY <2>1, ElementOfSeq DEF Shape
  <2> QED BY <2>1, <2>2, <1>2 DEF Standing, FrameLinked, FrameSaved
<1> PICK top : top = [Top EXCEPT !.pc = "done", !.ra = saved.ra,
                                 !.s0 = IF config.prune THEN @ ELSE saved.s0,
                                 !.v0 = IF Width[Top.fn] >= 1 THEN lo ELSE @,
                                 !.v1 = IF Width[Top.fn] = 2 THEN hi ELSE @]
  OBVIOUS
<1>5. /\ top.fn = Top.fn /\ top.pc = "done" /\ top.site = Top.site /\ top.op = None
      /\ top.ra = saved.ra /\ (~config.prune => top.s0 = saved.s0)
  BY <1>2 DEF Frame
<1>6. top \in Frame
  <2>1. lo \in Words /\ hi \in Words
    BY DEF Words
  <2>2. /\ saved.ra \in Returns
        /\ (IF config.prune THEN Top.s0 ELSE saved.s0) \in 0 .. MaxDepth
        /\ (IF Width[Top.fn] >= 1 THEN lo ELSE Top.v0) \in Words
        /\ (IF Width[Top.fn] = 2 THEN hi ELSE Top.v1) \in Words
    BY <2>1, <1>2, <1>4 DEF Frame
  <2>3. PICK s0 : s0 = IF config.prune THEN Top.s0 ELSE saved.s0
    OBVIOUS
  <2>4. PICK v0 : v0 = IF Width[Top.fn] >= 1 THEN lo ELSE Top.v0
    OBVIOUS
  <2>5. PICK v1 : v1 = IF Width[Top.fn] = 2 THEN hi ELSE Top.v1
    OBVIOUS
  <2>6. top = [Top EXCEPT !.pc = "done", !.ra = saved.ra, !.s0 = s0, !.v0 = v0, !.v1 = v1]
    BY <2>3, <2>4, <2>5
  <2>7. s0 \in 0 .. MaxDepth /\ v0 \in Words /\ v1 \in Words
    BY <2>2, <2>3, <2>4, <2>5
  <2> QED BY <2>2, <2>6, <2>7, <1>2, ZenonT(60) DEF Frame, Places
<1>7. java' = WithTop(top)
  BY <1>2 DEF Epilogue
<1>8. /\ java' \in Seq(Frame) /\ java' # <<>> /\ Len(java') = n /\ java'[n] = top /\ Top' = top
  <2>1. TopIs(top, n)
    BY <1>1, <1>2, <1>6, <1>7, TopBecomes
  <2> QED BY <2>1 DEF TopIs
<1>9. /\ stack' \in Seq([ra : Returns, s0 : 0 .. MaxDepth]) /\ Len(stack') = d - 1
      /\ \A i \in 1 .. d - 1 : stack'[i] = stack[i]
  <2>1. stack # <<>>
    BY <1>2, EmptySeq DEF Shape
  <2>2. stack' = SubSeq(stack, 1, Len(stack) - 1)
    BY DEF Epilogue
  <2> QED BY <2>1, <2>2, <1>2, ShortenedSeq DEF Shape
<1>10. Shape'
  BY <1>2, <1>3, <1>8, <1>9 DEF Shape
<1>11. Carried'
  BY <1>2, <1>3, <1>5, <1>8 DEF Carried
<1>12. FrameInStep(b, n)'
  <2>1. b[n] < b[n + 1] /\ top.fn = calls[b[n + 1]].fn /\ top.site = calls[b[n + 1]].site
    BY <1>2, <1>5
  <2>2. WaitInside(b[n], b[n + 1], Top)
    BY <1>2 DEF Standing, FrameLinked, FrameInStep
  <2>3. WaitInside(b[n], b[n + 1], java[n])'
    BY <2>2, <1>1, <1>3, <1>5, <1>8 DEF WaitInside, Replaced
  <2>4. top.ra = RaOf(b, n, b[n + 1])'
    BY <1>2, <1>3, <1>4, <1>5 DEF RaOf
  <2> QED BY <2>1, <2>3, <2>4, <1>3, <1>5, <1>8 DEF FrameInStep, Replaced
<1>13. FrameSaved(b, n)'
  <2> SUFFICES ASSUME NEW i \in b[n] + 1 .. b[n + 1], i <= d - 1
               PROVE  /\ stack'[i].ra = RaOf(b, n, i)
                      /\ ~config.prune => stack'[i].s0 = S0Of(b, n, i)
    BY <1>3, <1>9 DEF FrameSaved, RaOf, S0Of
  <2>1. i <= Len(stack) /\ stack'[i] = stack[i]
    BY <1>2, <1>9
  <2> QED BY <2>1 DEF Standing, FrameLinked, FrameSaved
<1>14. FrameRegisters(b, n)'
  BY <1>2, <1>3, <1>4, <1>5, <1>8 DEF FrameRegisters, Replaced, S0Of
<1>15. TopInStep' /\ Len(stack') = Len(calls') - Unsaved'
  BY <1>2, <1>3, <1>5, <1>8, <1>9 DEF Standing, TopInStep, Unsaved, At
<1>16. \A i \in 1 .. b[n] : calls'[i] = calls[i] /\ stack'[i] = stack[i]
  BY <1>2, <1>3, <1>9
<1>17. b[n + 1] = Len(calls') /\ b[n] <= b[n + 1] /\ Indexed(b)
  BY <1>2, <1>3 DEF Standing
<1>r. FrameReturns(n)'
  <2>1. CASE d = b[n] + 1
    BY <2>1, <1>3, <1>4, <1>5, <1>8 DEF FrameReturns, RaOf
  <2>2. CASE d # b[n] + 1
    <3>1. d - 1 \in b[n] + 1 .. d /\ d - 1 < d
      BY <2>2, <1>2
    <3>2. calls[d - 1].fn \in config.coloc /\ calls[d - 1].site \in Sites
      BY <3>1, <1>2 DEF Standing, FrameLinked, FrameInStep, WaitInside
    <3> QED BY <2>2, <3>2, <1>3, <1>4, <1>5, <1>8 DEF FrameReturns, RaOf
  <2> QED BY <2>1, <2>2
<1> QED BY <1>r, <1>3, <1>6, <1>7, <1>10, <1>11, <1>12, <1>13, <1>14, <1>15, <1>16, <1>17, RunningFrameSteps DEF FrameLinked

Receiving(f, v0, v1, pc) == [f EXCEPT !.v0 = v0, !.v1 = v1, !.op = None, !.pc = pc]

LEMMA FrameReceives ==
  ASSUME NEW f \in Frame, NEW v0 \in Words, NEW v1 \in Words, NEW pc \in Places
  PROVE  Receiving(f, v0, v1, pc) \in Frame
BY DEF Frame, Receiving

LEMMA ReceiveInv ==
  ASSUME Shape, Carried, NEW b, Linked(b), Receive
  PROVE  Shape' /\ Carried' /\ Linked(b)'
<1>1. java # <<>> /\ Top.pc \in {"calling", "tailing"} /\ Top.op # None
  BY DEF Receive, At
<1> PICK n \in Nat \ {0}, d \in Nat : Standing(b, n, d)
  BY <1>1, StandingSomewhere
<1>2. /\ n = Len(java) /\ Top = java[n] /\ Top \in Frame /\ Top.op \in Results
      /\ b[n] \in Nat /\ b[n + 1] = d /\ b[n] <= d /\ d <= MaxDepth /\ Len(stack) = d
      /\ FrameLinked(b, n)
  BY <1>1 DEF Standing, Frame
<1>3. UNCHANGED <<calls, returned, config, stack, savedV1, crossed>>
  BY DEF Receive, mips
<1> PICK size : size = IF Top.indirect THEN 2 ELSE Top.op.size
  OBVIOUS
<1> PICK v0 : v0 = IF size >= 1 THEN Top.op.lo ELSE Top.v0
  OBVIOUS
<1> PICK v1 : v1 = IF size < 2 THEN Top.v1 ELSE IF config.threadSafe THEN Top.op.hi ELSE savedV1
  OBVIOUS
<1> PICK pc : pc = IF Top.pc = "calling" THEN "body" ELSE "passing"
  OBVIOUS
<1> PICK top : top = [Top EXCEPT !.v0 = v0, !.v1 = v1, !.op = None, !.pc = pc]
  OBVIOUS
<1>4. v0 \in Words /\ v1 \in Words /\ pc \in Places
  <2>1. /\ Top.v0 \in Words /\ Top.v1 \in Words /\ savedV1 \in Words
        /\ Top.op.lo \in Words /\ Top.op.hi \in Words
    BY <1>2 DEF Shape, Frame, Results
  <2>2. v0 \in Words
    BY <2>1
  <2>3. v1 \in Words
    BY <2>1
  <2>4. pc \in Places
    BY DEF Places
  <2> QED BY <2>2, <2>3, <2>4
<1>5. /\ top.fn = Top.fn /\ top.pc = pc /\ top.site = Top.site /\ top.op = None
      /\ top.ra = Top.ra /\ top.s0 = Top.s0 /\ top.v0 = v0 /\ top.v1 = v1
  BY <1>2 DEF Frame
<1>6. top \in Frame
  <2>1. Receiving(Top, v0, v1, pc) \in Frame
    BY <1>2, <1>4, FrameReceives
  <2> QED BY <2>1 DEF Receiving
<1>7. java' = WithTop(top)
  BY DEF Receive, Received
<1>8. /\ java' \in Seq(Frame) /\ java' # <<>> /\ Len(java') = n /\ java'[n] = top /\ Top' = top
  <2>1. TopIs(top, n)
    BY <1>1, <1>2, <1>6, <1>7, TopBecomes
  <2> QED BY <2>1 DEF TopIs
<1>9. Shape'
  BY <1>2, <1>3, <1>8 DEF Shape
<1>10. Carried'
  <2>1. returned # None /\ returned.width \in 0 .. 2 /\ returned.width <= Top.op.size /\ Top.op.size \in 0 .. 2
    BY <1>1, <1>2 DEF Carried, Shape, Results
  <2>2. size \in 0 .. 2 /\ returned.width <= size
    BY <2>1
  <2>3. returned.width >= 1 => v0 = returned.v0
    BY <2>1, <2>2, <1>1 DEF Carried
  <2>4. returned.width = 2 /\ HighArrives => v1 = returned.v1
    BY <2>1, <2>2, <1>1 DEF Carried
  <2>5. HighArrives' = HighArrives
    BY <1>3 DEF HighArrives
  <2> QED BY <2>1, <2>3, <2>4, <2>5, <1>3, <1>5, <1>8 DEF Carried
<1>11. FrameInStep(b, n)'
  <2>1. WaitInside(b[n], b[n + 1], java[n])'
    BY <1>1, <1>2, <1>3, <1>5, <1>8 DEF FrameLinked, FrameInStep, WaitInside, Replaced
  <2>2. RaOf(b, n, b[n + 1] + 1)' = RaOf(b, n, b[n + 1] + 1)
    BY <1>3 DEF RaOf
  <2> QED BY <2>1, <2>2, <1>1, <1>2, <1>3, <1>5, <1>8 DEF FrameLinked, FrameInStep, Replaced
<1>12. FrameSaved(b, n)'
  BY <1>2, <1>3 DEF FrameLinked, FrameSaved, RaOf, S0Of
<1>13. FrameRegisters(b, n)'
  BY <1>1, <1>2, <1>3, <1>5, <1>8 DEF FrameLinked, FrameRegisters, SavesSound, Replaced, S0Of
<1>14. TopInStep' /\ Len(stack') = Len(calls') - Unsaved'
  BY <1>2, <1>3, <1>5, <1>8 DEF Standing, TopInStep, Unsaved, At
<1>15. \A i \in 1 .. b[n] : calls'[i] = calls[i] /\ stack'[i] = stack[i]
  BY <1>3
<1>16. b[n + 1] = Len(calls') /\ b[n] <= b[n + 1] /\ Indexed(b)
  BY <1>2, <1>3 DEF Standing
<1>r. FrameReturns(n)'
  BY <1>2, <1>3, <1>5, <1>8 DEF FrameLinked, FrameReturns
<1> QED BY <1>r, <1>3, <1>6, <1>7, <1>9, <1>10, <1>11, <1>12, <1>13, <1>14, <1>15, <1>16, RunningFrameSteps DEF FrameLinked

(* What the steps of the MIPS machine do to the activations.                 *)
LEMMA CallActivations ==
  ASSUME Shape, NEW g \in Fns, NEW k \in Sites, MCall(g, k), NEW d \in Nat, d = Len(calls)
  PROVE  /\ d # 0 /\ d < MaxDepth /\ returned' = None
         /\ calls' \in Seq(Activation) /\ Len(calls') = d + 1
         /\ calls'[d].fn = calls[d].fn /\ calls'[d].site = k
         /\ calls'[d + 1].fn = g /\ calls'[d + 1].site = 0
         /\ \A i \in 1 .. d - 1 : calls'[i] = calls[i]
<1>1. calls # <<>> /\ d < MaxDepth /\ d # 0
  BY EmptySeq DEF MCall, Shape
<1> PICK here : here = [Running EXCEPT !.site = k]
  OBVIOUS
<1> PICK there : there = [fn |-> g, site |-> 0]
  OBVIOUS
<1>2. Running = calls[d] /\ Running \in Activation
  BY <1>1, ElementOfSeq DEF Shape, Running
<1>3. here \in Activation /\ there \in Activation
  BY <1>2 DEF Activation
<1>4. here.fn = calls[d].fn /\ here.site = k /\ there.fn = g /\ there.site = 0
  BY <1>2 DEF Activation
<1> PICK mid : mid = Append(Callers, here)
  OBVIOUS
<1>5. /\ mid \in Seq(Activation) /\ Len(mid) = d /\ mid[d] = here
      /\ \A i \in 1 .. d - 1 : mid[i] = calls[i]
  BY <1>1, <1>3, ReplacedLast DEF Shape, Callers
<1>6. calls' = Append(mid, there) /\ returned' = None
  BY DEF MCall
<1>7. /\ calls' \in Seq(Activation) /\ Len(calls') = d + 1 /\ calls'[d + 1] = there
      /\ \A i \in 1 .. d : calls'[i] = mid[i]
  BY <1>3, <1>5, <1>6, GrownSeq
<1>8. calls'[d] = here
  <2>1. d \in 1 .. d
    BY <1>1
  <2>2. calls'[d] = mid[d]
    BY <1>7, <2>1
  <2> QED BY <1>5, <2>2
<1>9. ASSUME NEW i \in 1 .. d - 1
      PROVE  calls'[i] = calls[i]
  <2>1. i \in 1 .. d
    OBVIOUS
  <2>2. calls'[i] = mid[i]
    BY <1>7, <2>1
  <2>3. mid[i] = calls[i]
    BY <1>5
  <2> QED BY <2>2, <2>3
<1>10. calls'[d].fn = calls[d].fn /\ calls'[d].site = k
  BY <1>4, <1>8
<1>11. calls'[d + 1].fn = g /\ calls'[d + 1].site = 0
  BY <1>4, <1>7
<1> QED BY <1>1, <1>6, <1>7, <1>9, <1>10, <1>11

LEMMA TailCallActivations ==
  ASSUME Shape, NEW g \in Fns, MTailCall(g), NEW d \in Nat, d = Len(calls)
  PROVE  /\ d # 0 /\ returned' = None
         /\ calls' \in Seq(Activation) /\ Len(calls') = d
         /\ calls'[d].fn = g /\ calls'[d].site = 0
         /\ \A i \in 1 .. d - 1 : calls'[i] = calls[i]
<1>1. calls # <<>> /\ d # 0
  BY EmptySeq DEF MTailCall, Shape
<1> PICK there : there = [fn |-> g, site |-> 0]
  OBVIOUS
<1>2. there \in Activation /\ there.fn = g /\ there.site = 0
  BY DEF Activation
<1>3. calls' = Append(Callers, there) /\ returned' = None
  BY DEF MTailCall
<1>4. /\ calls' \in Seq(Activation) /\ Len(calls') = d /\ calls'[d] = there
      /\ \A i \in 1 .. d - 1 : calls'[i] = calls[i]
  BY <1>1, <1>2, <1>3, ReplacedLast DEF Shape, Callers
<1> QED BY <1>1, <1>2, <1>3, <1>4

LEMMA ReturnActivations ==
  ASSUME Shape, NEW r, MReturn(r), NEW d \in Nat, d = Len(calls)
  PROVE  /\ d # 0 /\ returned' = r
         /\ calls' \in Seq(Activation) /\ Len(calls') = d - 1
         /\ \A i \in 1 .. d - 1 : calls'[i] = calls[i]
<1>1. calls # <<>> /\ d # 0
  BY EmptySeq DEF MReturn, Shape
<1>2. calls' = SubSeq(calls, 1, Len(calls) - 1) /\ returned' = r
  BY DEF MReturn, Callers
<1> QED BY <1>1, <1>2, ShortenedSeq DEF Shape

(* A function reached by a goto shares the method.                           *)
LEMMA SameMethod ==
  ASSUME NEW g, NEW f \in config.coloc, MethodOf(g) = MethodOf(f)
  PROVE  g \in config.coloc
  BY DEF MethodOf

IsMoved(c, b, n, e) ==
  Indexed(c) /\ c[n + 1] = e /\ c[n] = b[n] /\ \A j \in 1 .. n : c[j] = b[j]

LEMMA IndexMoved ==
  ASSUME NEW b, Indexed(b), NEW n \in Nat \ {0}, NEW e \in Nat
  PROVE  \E c : IsMoved(c, b, n, e)
<1> PICK c : c = [b EXCEPT ![n + 1] = e]
  OBVIOUS
<1>1. Indexed(c)
  BY DEF Indexed
<1>2. ASSUME NEW j \in 1 .. n
      PROVE  c[j] = b[j]
  <2>1. j \in Nat /\ j # n + 1
    OBVIOUS
  <2> QED BY <2>1 DEF Indexed
<1>3. c[n + 1] = e /\ n \in 1 .. n
  BY DEF Indexed
<1> QED BY <1>1, <1>2, <1>3 DEF IsMoved

TwoMoved(b, n, e, h, c) ==
  /\ Indexed(c) /\ c[n + 2] = h /\ c[n + 1] = e /\ c[n] = b[n]
  /\ \A j \in 1 .. n : c[j] = b[j]

LEMMA TwoIndicesMoved ==
  ASSUME NEW b, Indexed(b), NEW n \in Nat, NEW e \in Nat, NEW h \in Nat
  PROVE  \E c : TwoMoved(b, n, e, h, c)
<1> PICK c : c = [b EXCEPT ![n + 1] = e, ![n + 2] = h]
  OBVIOUS
<1>1. Indexed(c)
  BY DEF Indexed
<1>2. ASSUME NEW j \in 1 .. n
      PROVE  c[j] = b[j]
  <2>1. j \in Nat /\ j # n + 1 /\ j # n + 2
    OBVIOUS
  <2> QED BY <2>1 DEF Indexed
<1>3. c[n + 1] = e /\ c[n + 2] = h /\ c[n] = b[n]
  <2>1. n + 1 \in Nat /\ n + 2 \in Nat /\ n + 1 # n + 2 /\ n # n + 1 /\ n # n + 2
    OBVIOUS
  <2> QED BY <2>1 DEF Indexed
<1> QED BY <1>1, <1>2, <1>3 DEF TwoMoved

LEMMA CallLocalInv ==
  ASSUME Shape, Carried, NEW b, Linked(b), NEW g \in Fns, NEW k \in Sites, CallLocal(g, k)
  PROVE  Shape' /\ Carried' /\ \E c : Linked(c)'
<1>1. java # <<>> /\ Top.pc = "body" /\ Top.fn \in config.coloc /\ g \in config.coloc
  BY SameMethod DEF CallLocal, At, hasMultipleFunctions
<1> PICK n \in Nat \ {0}, d \in Nat : Standing(b, n, d)
  BY <1>1, StandingSomewhere
<1>2. /\ n = Len(java) /\ Top = java[n] /\ Top \in Frame /\ Top.op = None
      /\ b[n] \in Nat /\ b[n + 1] = d /\ b[n] < d /\ d = Len(calls) /\ Len(stack) = d
      /\ Top.fn = calls[d].fn /\ Indexed(b) /\ FrameLinked(b, n)
  BY <1>1 DEF Standing, Linked, TopInStep, Replaced
<1>3. UNCHANGED <<config, stack, savedV1, crossed>>
  BY DEF CallLocal
<1>4. /\ d # 0 /\ d < MaxDepth /\ returned' = None
      /\ calls' \in Seq(Activation) /\ Len(calls') = d + 1
      /\ calls'[d].fn = calls[d].fn /\ calls'[d].site = k
      /\ calls'[d + 1].fn = g /\ calls'[d + 1].site = 0
      /\ \A i \in 1 .. d - 1 : calls'[i] = calls[i]
  BY <1>2, CallActivations DEF CallLocal
<1> PICK ra : ra = <<Top.fn, k>>
  OBVIOUS
<1> PICK top : top = [Top EXCEPT !.fn = g, !.pc = "entry", !.site = 0, !.ra = ra]
  OBVIOUS
<1>5. /\ top.fn = g /\ top.pc = "entry" /\ top.site = 0 /\ top.op = None
      /\ top.ra = ra /\ top.s0 = Top.s0
  BY <1>2 DEF Frame
<1>6. top \in Frame
  <2>1. ra \in Returns
    BY <1>2 DEF Frame, Returns
  <2> QED BY <2>1, <1>2 DEF Frame, Places
<1>7. java' = WithTop(top)
  BY DEF CallLocal
<1>8. /\ java' \in Seq(Frame) /\ java' # <<>> /\ Len(java') = n /\ java'[n] = top /\ Top' = top
  <2>1. TopIs(top, n)
    BY <1>1, <1>2, <1>6, <1>7, TopBecomes
  <2> QED BY <2>1 DEF TopIs
<1>9. Shape'
  BY <1>2, <1>3, <1>4, <1>8, DepthAssumption DEF Shape
<1>10. Carried'
  BY <1>5, <1>8 DEF Carried
<1>11. PICK c : Indexed(c) /\ c[n + 1] = d + 1 /\ c[n] = b[n] /\ \A j \in 1 .. n : c[j] = b[j]
  <2>1. d + 1 \in Nat
    OBVIOUS
  <2>2. \E q : IsMoved(q, b, n, d + 1)
    BY <2>1, <1>2, IndexMoved
  <2> QED BY <2>2 DEF IsMoved
<1>12. \A i \in b[n] + 1 .. d : RaOf(c, n, i)' = RaOf(b, n, i) /\ S0Of(c, n, i) = S0Of(b, n, i)
  <2> SUFFICES ASSUME NEW i \in b[n] + 1 .. d
               PROVE  RaOf(c, n, i)' = RaOf(b, n, i) /\ S0Of(c, n, i) = S0Of(b, n, i)
    OBVIOUS
  <2>1. i # b[n] + 1 => calls'[i - 1] = calls[i - 1]
    BY <1>2, <1>4, SMTT(40)
  <2> QED BY <2>1, <1>11 DEF RaOf, S0Of
<1>13. FrameInStep(c, n)'
  <2>1. c[n] < c[n + 1] /\ top.fn = calls'[c[n + 1]].fn /\ top.site = calls'[c[n + 1]].site
    BY <1>2, <1>4, <1>5, <1>11
  <2>2. WaitInside(c[n], c[n + 1], java[n])'
    <3> SUFFICES ASSUME NEW i \in b[n] + 1 .. d + 1, i < d + 1
                 PROVE  calls'[i].fn \in config.coloc /\ calls'[i].site \in Sites /\ g \in config.coloc
      BY <1>3, <1>5, <1>8, <1>11 DEF WaitInside, Replaced
    <3>1. CASE i = d
      BY <3>1, <1>1, <1>2, <1>4
    <3>2. CASE i # d
      <4>1. i \in b[n] + 1 .. d /\ i < d /\ calls'[i] = calls[i]
        BY <3>2, <1>2, <1>4, SMTT(40)
      <4> QED BY <4>1, <1>1, <1>2 DEF FrameLinked, FrameInStep, WaitInside
    <3> QED BY <3>1, <3>2
  <2>3. ra = RaOf(c, n, c[n + 1])'
    <3>1. d + 1 # b[n] + 1 /\ (d + 1) - 1 = d
      BY <1>2
    <3> QED BY <3>1, <1>2, <1>4, <1>11 DEF RaOf
  <2> QED BY <2>1, <2>2, <2>3, <1>3, <1>5, <1>8 DEF FrameInStep, Replaced
<1>14. FrameSaved(c, n)'
  <2> SUFFICES ASSUME NEW i \in b[n] + 1 .. d + 1, i <= d
               PROVE  /\ stack[i].ra = RaOf(c, n, i)'
                      /\ ~config.prune => stack[i].s0 = S0Of(c, n, i)
    BY <1>2, <1>3, <1>11 DEF FrameSaved, S0Of
  <2>1. i \in b[n] + 1 .. d
    BY <1>2
  <2> QED BY <2>1, <1>2, <1>12 DEF FrameLinked, FrameSaved
<1>15. FrameRegisters(c, n)'
  <2>1. ~config.prune => Top.s0 = d
    BY <1>1, <1>2 DEF FrameLinked, FrameRegisters, SavesSound
  <2>2. S0Of(c, n, c[n + 1]) = d
    BY <1>2, <1>11 DEF S0Of
  <2> QED BY <2>1, <2>2, <1>3, <1>5, <1>8 DEF FrameRegisters, Replaced, S0Of
<1>16. TopInStep' /\ Len(stack') = Len(calls') - Unsaved'
  BY <1>2, <1>3, <1>4, <1>5, <1>8 DEF TopInStep, Unsaved, At
<1>17. \A i \in 1 .. b[n] : calls'[i] = calls[i] /\ stack'[i] = stack[i]
  BY <1>2, <1>3, <1>4
<1>18. c[n + 1] = Len(calls') /\ c[n] <= c[n + 1]
  BY <1>2, <1>4, <1>11
<1>r. FrameReturns(n)'
  BY <1>1, <1>3, <1>5, <1>8 DEF FrameReturns
<1>19. Linked(c)'
  BY <1>r, <1>3, <1>6, <1>7, <1>9, <1>11, <1>13, <1>14, <1>15, <1>16, <1>17, <1>18, RunningFrameSteps DEF FrameLinked
<1> QED BY <1>9, <1>10, <1>19

LEMMA TailCallLocalInv ==
  ASSUME Shape, Carried, NEW b, Linked(b), NEW g \in Fns, TailCallLocal(g)
  PROVE  Shape' /\ Carried' /\ Linked(b)'
<1>1. java # <<>> /\ Top.pc = "done" /\ (Top.fn \in config.coloc => g \in config.coloc)
  BY SameMethod DEF TailCallLocal, At
<1> PICK n \in Nat \ {0}, d \in Nat : Standing(b, n, d)
  BY <1>1, StandingSomewhere
<1>2. /\ n = Len(java) /\ Top = java[n] /\ Top \in Frame /\ Top.op = None
      /\ b[n] \in Nat /\ b[n + 1] = d /\ b[n] < d /\ d = Len(calls) /\ Len(stack) = d - 1
      /\ Indexed(b) /\ FrameLinked(b, n)
  BY <1>1 DEF Standing, Linked, TopInStep, Replaced
<1>3. UNCHANGED <<config, stack, savedV1, crossed>>
  BY DEF TailCallLocal
<1>4. /\ d # 0 /\ returned' = None
      /\ calls' \in Seq(Activation) /\ Len(calls') = d
      /\ calls'[d].fn = g /\ calls'[d].site = 0
      /\ \A i \in 1 .. d - 1 : calls'[i] = calls[i]
  BY <1>2, TailCallActivations DEF TailCallLocal
<1> PICK top : top = [Top EXCEPT !.fn = g, !.pc = "entry", !.site = 0]
  OBVIOUS
<1>5. /\ top.fn = g /\ top.pc = "entry" /\ top.site = 0 /\ top.op = None
      /\ top.ra = Top.ra /\ top.s0 = Top.s0
  BY <1>2 DEF Frame
<1>6. top \in Frame
  BY <1>2 DEF Frame, Places
<1>7. java' = WithTop(top)
  BY DEF TailCallLocal
<1>8. /\ java' \in Seq(Frame) /\ java' # <<>> /\ Len(java') = n /\ java'[n] = top /\ Top' = top
  <2>1. TopIs(top, n)
    BY <1>1, <1>2, <1>6, <1>7, TopBecomes
  <2> QED BY <2>1 DEF TopIs
<1>9. Shape'
  BY <1>2, <1>3, <1>4, <1>8 DEF Shape
<1>10. Carried'
  BY <1>5, <1>8 DEF Carried
<1>11. \A i \in b[n] + 1 .. d : RaOf(b, n, i)' = RaOf(b, n, i)
  <2> SUFFICES ASSUME NEW i \in b[n] + 1 .. d
               PROVE  RaOf(b, n, i)' = RaOf(b, n, i)
    OBVIOUS
  <2>1. i # b[n] + 1 => calls'[i - 1] = calls[i - 1]
    BY <1>2, <1>4, SMTT(40)
  <2> QED BY <2>1 DEF RaOf
<1>12. d \in b[n] + 1 .. d
  BY <1>2
<1>13. FrameInStep(b, n)'
  <2>1. WaitInside(b[n], b[n + 1], java[n])'
    <3> SUFFICES ASSUME NEW i \in b[n] + 1 .. d, i < d
                 PROVE  calls'[i].fn \in config.coloc /\ calls'[i].site \in Sites /\ g \in config.coloc
      BY <1>2, <1>3, <1>5, <1>8 DEF WaitInside, Replaced
    <3>1. calls'[i] = calls[i]
      BY <1>2, <1>4, SMTT(40)
    <3> QED BY <3>1, <1>1, <1>2 DEF FrameLinked, FrameInStep, WaitInside
  <2>2. top.ra = RaOf(b, n, d)'
    BY <1>1, <1>2, <1>5, <1>11, <1>12 DEF FrameLinked, FrameInStep
  <2> QED BY <2>1, <2>2, <1>2, <1>3, <1>4, <1>5, <1>8 DEF FrameInStep, Replaced
<1>14. FrameSaved(b, n)'
  BY <1>2, <1>3, <1>11 DEF FrameLinked, FrameSaved, S0Of
<1>15. FrameRegisters(b, n)'
  BY <1>1, <1>2, <1>3, <1>5, <1>8 DEF FrameLinked, FrameRegisters, Replaced, S0Of
<1>16. TopInStep' /\ Len(stack') = Len(calls') - Unsaved'
  BY <1>2, <1>3, <1>4, <1>5, <1>8 DEF TopInStep, Unsaved, At
<1>17. \A i \in 1 .. b[n] : calls'[i] = calls[i] /\ stack'[i] = stack[i]
  BY <1>2, <1>3, <1>4
<1>18. b[n + 1] = Len(calls') /\ b[n] <= b[n + 1]
  BY <1>2, <1>4
<1>r. FrameReturns(n)'
  BY <1>2, <1>3, <1>5, <1>8 DEF FrameLinked, FrameReturns
<1> QED BY <1>r, <1>2, <1>3, <1>6, <1>7, <1>9, <1>10, <1>13, <1>14, <1>15, <1>16, <1>17, <1>18, RunningFrameSteps DEF FrameLinked

(* A return inside the method: to activation e, the last one that is left.   *)
LEMMA ReturnLocalInv ==
  ASSUME Shape, Carried, NEW b, Linked(b), ReturnLocal
  PROVE  Shape' /\ Carried' /\ \E c : Linked(c)'
<1>1. java # <<>> /\ Top.pc \in {"done", "passing"} /\ Top.fn \in config.coloc /\ Top.ra # None
  BY DEF ReturnLocal, Returning, At, hasMultipleFunctions
<1> PICK n \in Nat \ {0}, d \in Nat : Standing(b, n, d)
  BY <1>1, StandingSomewhere
<1>2. /\ n = Len(java) /\ Top = java[n] /\ Top \in Frame /\ Top.op = None
      /\ b[n] \in Nat /\ b[n + 1] = d /\ b[n] <= d /\ d = Len(calls) /\ d <= MaxDepth
      /\ Indexed(b) /\ FrameLinked(b, n) /\ calls \in Seq(Activation)
  BY <1>1 DEF Standing, Linked, TopInStep, Shape
<1>3. UNCHANGED <<config, stack, savedV1>>
  BY DEF ReturnLocal
<1>4. PICK e \in Nat : /\ b[n] <= e /\ e <= d /\ Len(stack) = e
                       /\ Top.ra = RaOf(b, n, e + 1)
                       /\ ~config.prune => Top.s0 = S0Of(b, n, e + 1)
                       /\ \A i \in b[n] + 1 .. e : calls[i].fn \in config.coloc /\ calls[i].site \in Sites
                       /\ calls' \in Seq(Activation) /\ Len(calls') = e
                       /\ \A i \in 1 .. e : calls'[i] = calls[i]
  <2>1. CASE Top.pc = "done"
    <3>1. b[n] < d /\ Len(stack) = d - 1
      BY <2>1 DEF Standing, Replaced
    <3>2. PICK e \in Nat : e = d - 1
      BY <3>1, <1>2
    <3>3. e + 1 = d /\ b[n] <= e /\ e <= d
      BY <3>1, <3>2, <1>2
    <3>4. Top.ra = RaOf(b, n, e + 1) /\ (~config.prune => Top.s0 = S0Of(b, n, e + 1))
      BY <2>1, <3>3, <1>2 DEF FrameLinked, FrameInStep, FrameRegisters
    <3>5. \A i \in b[n] + 1 .. e : calls[i].fn \in config.coloc /\ calls[i].site \in Sites
      <4> SUFFICES ASSUME NEW i \in b[n] + 1 .. e
                   PROVE  calls[i].fn \in config.coloc /\ calls[i].site \in Sites
        OBVIOUS
      <4>1. i \in b[n] + 1 .. d /\ i < d
        BY <3>3, <1>2
      <4> QED BY <4>1, <1>2 DEF FrameLinked, FrameInStep, WaitInside
    <3>6. MReturn([width |-> Width[Top.fn], v0 |-> Top.v0, v1 |-> Top.v1])
      BY <2>1 DEF ReturnLocal, Returning
    <3>7. calls' \in Seq(Activation) /\ Len(calls') = d - 1 /\ \A i \in 1 .. d - 1 : calls'[i] = calls[i]
      BY <3>6, <1>2, ReturnActivations
    <3> QED BY <3>1, <3>2, <3>3, <3>4, <3>5, <3>7
  <2>2. CASE Top.pc = "passing"
    <3>1. Len(stack) = d
      BY <2>2 DEF Standing
    <3>2. Top.ra = RaOf(b, n, d + 1) /\ (~config.prune => Top.s0 = S0Of(b, n, d + 1))
      BY <2>2, <1>2 DEF FrameLinked, FrameInStep, FrameRegisters, Replaced
    <3>3. \A i \in b[n] + 1 .. d : calls[i].fn \in config.coloc /\ calls[i].site \in Sites
      BY <2>2, <1>2 DEF FrameLinked, FrameInStep, WaitInside, Replaced
    <3>4. UNCHANGED calls
      BY <2>2 DEF ReturnLocal, Returning, mips
    <3> QED BY <3>1, <3>2, <3>3, <3>4, <1>2
  <2> QED BY <2>1, <2>2, <1>1
<1>5. /\ b[n] < e /\ Top.ra = <<calls[e].fn, calls[e].site>>
      /\ ~config.prune => Top.s0 = e
  BY <1>1, <1>2, <1>4, SMTT(40) DEF RaOf, S0Of
<1>6. calls[e] \in Activation /\ calls[e].fn \in config.coloc
  <2>1. e \in 1 .. Len(calls) /\ e \in b[n] + 1 .. e
    BY <1>2, <1>4, <1>5
  <2> QED BY <2>1, <1>2, <1>4, ElementOfSeq
<1> PICK top : top = [Top EXCEPT !.fn = calls[e].fn, !.site = calls[e].site, !.pc = "body"]
  OBVIOUS
<1>7. /\ top.fn = calls[e].fn /\ top.pc = "body" /\ top.site = calls[e].site /\ top.op = None
      /\ top.ra = Top.ra /\ top.s0 = Top.s0 /\ top.v0 = Top.v0 /\ top.v1 = Top.v1
  BY <1>2 DEF Frame
<1>8. top \in Frame
  BY <1>2, <1>6 DEF Frame, Places, Activation
<1>9. java' = WithTop(top)
  BY <1>5 DEF ReturnLocal
<1>10. /\ java' \in Seq(Frame) /\ java' # <<>> /\ Len(java') = n /\ java'[n] = top /\ Top' = top
  <2>1. TopIs(top, n)
    BY <1>1, <1>2, <1>8, <1>9, TopBecomes
  <2> QED BY <2>1 DEF TopIs
<1>11. /\ returned' \in {None} \cup [width : 0 .. 2, v0 : Words, v1 : Words] /\ crossed' \in BOOLEAN
       /\ Carried'
  <2>1. CASE Top.pc = "done"
    <3> PICK r : r = [width |-> Width[Top.fn], v0 |-> Top.v0, v1 |-> Top.v1]
      OBVIOUS
    <3>1. returned' = r /\ crossed' = FALSE
      BY <2>1 DEF ReturnLocal, Returning, MReturn
    <3>2. r \in [width : 0 .. 2, v0 : Words, v1 : Words] /\ r.v0 = Top.v0 /\ r.v1 = Top.v1
      BY <1>2, CallsAssumption DEF Frame
    <3> QED BY <3>1, <3>2, <1>7, <1>10 DEF Carried
  <2>2. CASE Top.pc = "passing"
    <3>1. UNCHANGED <<returned, crossed>>
      BY <2>2 DEF ReturnLocal, Returning, mips
    <3>2. HighArrives' = HighArrives
      BY <3>1, <1>3 DEF HighArrives
    <3> QED BY <2>2, <3>1, <3>2, <1>1, <1>7, <1>10 DEF Carried, Shape
  <2> QED BY <2>1, <2>2, <1>1
<1>12. Shape'
  <2>1. Len(calls') <= MaxDepth
    BY <1>2, <1>4, DepthAssumption
  <2> QED BY <2>1, <1>2, <1>3, <1>4, <1>10, <1>11 DEF Shape
<1>13. PICK c : Indexed(c) /\ c[n + 1] = e /\ c[n] = b[n] /\ \A j \in 1 .. n : c[j] = b[j]
  <2>1. \E q : IsMoved(q, b, n, e)
    BY <1>2, IndexMoved
  <2> QED BY <2>1 DEF IsMoved
<1>14. \A i \in b[n] + 1 .. e : RaOf(c, n, i)' = RaOf(b, n, i) /\ S0Of(c, n, i) = S0Of(b, n, i)
  <2> SUFFICES ASSUME NEW i \in b[n] + 1 .. e
               PROVE  RaOf(c, n, i)' = RaOf(b, n, i) /\ S0Of(c, n, i) = S0Of(b, n, i)
    OBVIOUS
  <2>1. i # b[n] + 1 => calls'[i - 1] = calls[i - 1]
    BY <1>2, <1>4, SMTT(40)
  <2> QED BY <2>1, <1>13 DEF RaOf, S0Of
<1>15. FrameInStep(c, n)'
  <2>1. calls'[e] = calls[e]
    BY <1>2, <1>4, <1>5
  <2>2. WaitInside(c[n], c[n + 1], java[n])'
    <3> SUFFICES ASSUME NEW i \in b[n] + 1 .. e
                 PROVE  calls'[i].fn \in config.coloc /\ calls'[i].site \in Sites
      BY <1>3, <1>6, <1>7, <1>10, <1>13 DEF WaitInside
    <3>1. calls'[i] = calls[i]
      BY <1>2, <1>4
    <3> QED BY <3>1, <1>4
  <2> QED BY <2>1, <2>2, <1>5, <1>7, <1>10, <1>13 DEF FrameInStep, Replaced
<1>16. FrameSaved(c, n)'
  <2> SUFFICES ASSUME NEW i \in b[n] + 1 .. e
               PROVE  /\ stack[i].ra = RaOf(c, n, i)'
                      /\ ~config.prune => stack[i].s0 = S0Of(c, n, i)
    BY <1>3, <1>13 DEF FrameSaved, S0Of
  <2>1. i \in b[n] + 1 .. d /\ i <= Len(stack)
    BY <1>2, <1>4
  <2> QED BY <2>1, <1>2, <1>14 DEF FrameLinked, FrameSaved
<1>17. FrameRegisters(c, n)'
  <2>1. SavesSound => Top.s0 = e
    BY <1>1, <1>5 DEF SavesSound
  <2> QED BY <2>1, <1>3, <1>7, <1>10, <1>13 DEF FrameRegisters, SavesSound, Replaced
<1>18. TopInStep' /\ Len(stack') = Len(calls') - Unsaved'
  BY <1>2, <1>3, <1>4, <1>7, <1>10 DEF TopInStep, Unsaved, At
<1>19. \A i \in 1 .. b[n] : calls'[i] = calls[i] /\ stack'[i] = stack[i]
  BY <1>2, <1>3, <1>4
<1>20. c[n + 1] = Len(calls') /\ c[n] <= c[n + 1]
  BY <1>2, <1>4, <1>13
<1>r. FrameReturns(n)'
  BY <1>2, <1>3, <1>7, <1>10 DEF FrameLinked, FrameReturns
<1>21. Linked(c)'
  BY <1>r, <1>3, <1>8, <1>9, <1>12, <1>13, <1>15, <1>16, <1>17, <1>18, <1>19, <1>20, RunningFrameSteps DEF FrameLinked
<1> QED BY <1>11, <1>12, <1>21

(* A frame on top of the running one.                                        *)
LEMMA TopPushed ==
  ASSUME Shape, java # <<>>, NEW frame \in Frame, NEW new \in Frame,
         java' = Append(WithTop(frame), new)
  PROVE  /\ java' \in Seq(Frame) /\ java' # <<>> /\ Len(java') = Len(java) + 1
         /\ java'[Len(java)] = frame /\ java'[Len(java) + 1] = new /\ Top' = new
<1> PICK n \in Nat \ {0} : n = Len(java)
  BY EmptySeq DEF Shape
<1> PICK mid : mid = WithTop(frame)
  OBVIOUS
<1>1. mid \in Seq(Frame) /\ Len(mid) = n /\ mid[n] = frame
  BY ReplacedLast DEF Shape, WithTop, Below
<1>2. /\ java' \in Seq(Frame) /\ java' # <<>> /\ Len(java') = n + 1 /\ java'[n + 1] = new
      /\ \A i \in 1 .. n : java'[i] = mid[i]
  BY <1>1, GrownSeq
<1> QED BY <1>1, <1>2 DEF Top

TopsAre(frame, new, n) ==
  /\ java' \in Seq(Frame) /\ java' # <<>> /\ Len(java') = n + 1
  /\ java'[n] = frame /\ java'[n + 1] = new /\ Top' = new

LEMMA TopsBecome ==
  ASSUME Shape, java # <<>>, NEW frame \in Frame, NEW new \in Frame,
         java' = Append(WithTop(frame), new), NEW n, n = Len(java)
  PROVE  TopsAre(frame, new, n)
BY TopPushed DEF TopsAre

LEMMA EnteredFrame ==
  ASSUME NEW g \in Fns
  PROVE  /\ Entered(g) \in Frame /\ Entered(g).op = None /\ Entered(g).pc = "entry"
         /\ Entered(g).fn = g /\ Entered(g).site = 0 /\ Entered(g).ra = None /\ Entered(g).s0 = 0
  BY DepthAssumption DEF Entered, Frame, Places, Returns, Words

LEMMA EnteredLinked ==
  ASSUME NEW g \in Fns, NEW m \in Nat, NEW e \in Nat, NEW c, c[m] = e, c[m + 1] = e + 1,
         java'[m] = Entered(g), calls'[e + 1].fn = g, calls'[e + 1].site = 0,
         NEW s \in Nat, s = Len(stack'), s <= e
  PROVE  FrameLinked(c, m)'
<1>1. /\ Entered(g).pc = "entry" /\ Entered(g).pc \notin Replaced
      /\ Entered(g).fn = g /\ Entered(g).site = 0 /\ Entered(g).ra = None /\ Entered(g).s0 = 0
  BY EnteredFrame DEF Replaced
<1>2. RaOf(c, m, c[m + 1])' = None /\ S0Of(c, m, c[m + 1]) = 0
  BY DEF RaOf, S0Of
<1>3. WaitInside(c[m], c[m + 1], java[m])'
  BY <1>1 DEF WaitInside
<1>4. FrameSaved(c, m)'
  <2>1. \A i \in e + 1 .. e + 1 : ~ (i <= Len(stack'))
    OBVIOUS
  <2> QED BY <2>1 DEF FrameSaved
<1>5. FrameInStep(c, m)'
  BY <1>1, <1>2, <1>3 DEF FrameInStep
<1>6. FrameRegisters(c, m)'
  BY <1>1, <1>2 DEF FrameRegisters, S0Of
<1>7. FrameReturns(m)'
  BY <1>1 DEF FrameReturns
<1> QED BY <1>4, <1>5, <1>6, <1>7 DEF FrameLinked

LEMMA CallInv ==
  ASSUME Shape, Carried, NEW b, Linked(b),
         NEW g \in Fns, NEW k \in Sites, NEW indirect \in BOOLEAN, Call(g, k, indirect)
  PROVE  Shape' /\ Carried' /\ \E c : Linked(c)'
<1>1. java # <<>> /\ Top.pc = "body"
  BY DEF Call, At
<1> PICK n \in Nat \ {0}, d \in Nat : Standing(b, n, d)
  BY <1>1, StandingSomewhere
<1>2. /\ n = Len(java) /\ Top = java[n] /\ Top \in Frame /\ Top.op = None
      /\ b[n] \in Nat /\ b[n + 1] = d /\ b[n] < d /\ d = Len(calls) /\ Len(stack) = d
      /\ Top.fn = calls[d].fn /\ Indexed(b) /\ FrameLinked(b, n)
  BY <1>1 DEF Standing, Linked, TopInStep, Replaced
<1>3. UNCHANGED <<config, stack, savedV1, crossed>> /\ n < MaxFrames
  BY <1>2 DEF Call
<1>4. /\ d # 0 /\ d < MaxDepth /\ returned' = None
      /\ calls' \in Seq(Activation) /\ Len(calls') = d + 1
      /\ calls'[d].fn = calls[d].fn /\ calls'[d].site = k
      /\ calls'[d + 1].fn = g /\ calls'[d + 1].site = 0
      /\ \A i \in 1 .. d - 1 : calls'[i] = calls[i]
  BY <1>2, CallActivations DEF Call
<1>11. PICK c : /\ Indexed(c) /\ c[n + 2] = d + 1 /\ c[n + 1] = d /\ c[n] = b[n]
                /\ \A j \in 1 .. n : c[j] = b[j]
  <2>1. n \in Nat /\ d + 1 \in Nat
    OBVIOUS
  <2>2. PICK c : TwoMoved(b, n, d, d + 1, c)
    BY <2>1, <1>2, TwoIndicesMoved
  <2> QED BY <2>2 DEF TwoMoved
<1> PICK frame : frame = [Top EXCEPT !.pc = "calling", !.site = k, !.indirect = indirect]
  OBVIOUS
<1> PICK new : new = Entered(g)
  OBVIOUS
<1>5. /\ frame.fn = Top.fn /\ frame.pc = "calling" /\ frame.site = k /\ frame.op = None
      /\ frame.ra = Top.ra /\ frame.s0 = Top.s0 /\ frame \in Frame
  BY <1>2 DEF Frame, Places
<1>6. new \in Frame /\ new.op = None /\ new.pc = "entry"
  BY EnteredFrame
<1>7. java' = Append(WithTop(frame), new)
  BY DEF Call
<1>8. /\ java' \in Seq(Frame) /\ java' # <<>> /\ Len(java') = n + 1
      /\ java'[n] = frame /\ java'[n + 1] = new /\ Top' = new
  <2>1. TopsAre(frame, new, n)
    BY <1>1, <1>2, <1>5, <1>6, <1>7, TopsBecome
  <2> QED BY <2>1 DEF TopsAre
<1>9. Shape'
  <2>1. d + 1 <= MaxDepth /\ n + 1 <= MaxFrames
    BY <1>3, <1>4, DepthAssumption, CallsAssumption
  <2> QED BY <2>1, <1>2, <1>3, <1>4, <1>8 DEF Shape
<1>10. Carried'
  BY <1>6, <1>8 DEF Carried
<1>12. FrameLinked(c, n)'
  <2>1. \A i \in b[n] + 1 .. d : RaOf(c, n, i)' = RaOf(b, n, i) /\ S0Of(c, n, i) = S0Of(b, n, i)
    <3> SUFFICES ASSUME NEW i \in b[n] + 1 .. d
                 PROVE  RaOf(c, n, i)' = RaOf(b, n, i) /\ S0Of(c, n, i) = S0Of(b, n, i)
      OBVIOUS
    <3>1. i # b[n] + 1 => calls'[i - 1] = calls[i - 1]
      BY <1>2, <1>4, SMTT(40)
    <3> QED BY <3>1, <1>11 DEF RaOf, S0Of
  <2>2. WaitInside(c[n], c[n + 1], java[n])'
    <3> SUFFICES ASSUME NEW i \in b[n] + 1 .. d, i < d
                 PROVE  calls'[i].fn \in config.coloc /\ calls'[i].site \in Sites /\ Top.fn \in config.coloc
      BY <1>3, <1>5, <1>8, <1>11 DEF WaitInside, Replaced
    <3>1. calls'[i] = calls[i]
      BY <1>2, <1>4
    <3> QED BY <3>1, <1>2 DEF FrameLinked, FrameInStep, WaitInside
  <2>3. FrameInStep(c, n)'
    BY <2>2, <1>2, <1>4, <1>5, <1>8, <1>11 DEF FrameInStep, Replaced
  <2>4. FrameSaved(c, n)'
    BY <2>1, <1>2, <1>3, <1>11 DEF FrameLinked, FrameSaved, S0Of
  <2>5. FrameRegisters(c, n)'
    BY <1>1, <1>2, <1>3, <1>5, <1>8, <1>11 DEF FrameLinked, FrameRegisters, SavesSound, Replaced
  <2>6. FrameReturns(n)'
    BY <1>2, <1>3, <1>5, <1>8 DEF FrameLinked, FrameReturns
  <2> QED BY <2>3, <2>4, <2>5, <2>6 DEF FrameLinked
<1>13. FrameLinked(c, n + 1)'
  <2>1. c[n + 1] = d /\ c[(n + 1) + 1] = d + 1 /\ n + 1 \in Nat /\ Len(stack') = d
    BY <1>2, <1>3, <1>11
  <2> QED BY <2>1, <1>4, <1>8, EnteredLinked
<1>14. FrameBelow(n)'
  BY <1>5, <1>8 DEF FrameBelow
<1>15. TopInStep' /\ Len(stack') = Len(calls') - Unsaved'
  BY <1>2, <1>3, <1>4, <1>6, <1>8 DEF TopInStep, Unsaved, At
<1>16. \A i \in 1 .. b[n] : calls'[i] = calls[i] /\ stack'[i] = stack[i]
  BY <1>2, <1>3, <1>4
<1>17. c[n + 2] = Len(calls') /\ c[n] <= c[n + 1] /\ c[n + 1] <= c[n + 2]
  BY <1>2, <1>4, <1>11
<1>18. Linked(c)'
  BY <1>3, <1>5, <1>6, <1>7, <1>9, <1>11, <1>12, <1>13, <1>14, <1>15, <1>16, <1>17, NewFrameSteps, ZenonT(60)
<1> QED BY <1>9, <1>10, <1>18

LEMMA TailCallInv ==
  ASSUME Shape, Carried, NEW b, Linked(b), NEW g \in Fns, TailCall(g)
  PROVE  Shape' /\ Carried' /\ \E c : Linked(c)'
<1>1. java # <<>> /\ Top.pc = "done" /\ Top.fn \notin Leaf
  BY DEF TailCall, At
<1> PICK n \in Nat \ {0}, d \in Nat : Standing(b, n, d)
  BY <1>1, StandingSomewhere
<1>2. /\ n = Len(java) /\ Top = java[n] /\ Top \in Frame /\ Top.op = None
      /\ b[n] \in Nat /\ b[n + 1] = d /\ b[n] < d /\ d = Len(calls) /\ Len(stack) = d - 1
      /\ Indexed(b) /\ FrameLinked(b, n)
  BY <1>1 DEF Standing, Linked, TopInStep, Replaced
<1>3. UNCHANGED <<config, stack, savedV1, crossed>> /\ n < MaxFrames
  BY <1>2 DEF TailCall
<1>4. /\ d # 0 /\ returned' = None
      /\ calls' \in Seq(Activation) /\ Len(calls') = d
      /\ calls'[d].fn = g /\ calls'[d].site = 0
      /\ \A i \in 1 .. d - 1 : calls'[i] = calls[i]
  BY <1>2, TailCallActivations DEF TailCall
<1> PICK e \in Nat : e = d - 1
  BY <1>4
<1>11. PICK c : /\ Indexed(c) /\ c[n + 2] = d /\ c[n + 1] = e /\ c[n] = b[n]
                /\ \A j \in 1 .. n : c[j] = b[j]
  <2>1. n \in Nat
    OBVIOUS
  <2>2. PICK c : TwoMoved(b, n, e, d, c)
    BY <2>1, <1>2, TwoIndicesMoved
  <2> QED BY <2>2 DEF TwoMoved
<1> PICK frame : frame = [Top EXCEPT !.pc = "tailing", !.indirect = FALSE]
  OBVIOUS
<1> PICK new : new = Entered(g)
  OBVIOUS
<1>5. /\ frame.fn = Top.fn /\ frame.pc = "tailing" /\ frame.op = None
      /\ frame.ra = Top.ra /\ frame.s0 = Top.s0 /\ frame \in Frame
  BY <1>2 DEF Frame, Places
<1>6. new \in Frame /\ new.op = None /\ new.pc = "entry"
  BY EnteredFrame
<1>7. java' = Append(WithTop(frame), new)
  BY DEF TailCall
<1>8. /\ java' \in Seq(Frame) /\ java' # <<>> /\ Len(java') = n + 1
      /\ java'[n] = frame /\ java'[n + 1] = new /\ Top' = new
  <2>1. TopsAre(frame, new, n)
    BY <1>1, <1>2, <1>5, <1>6, <1>7, TopsBecome
  <2> QED BY <2>1 DEF TopsAre
<1>9. Shape'
  <2>1. n + 1 <= MaxFrames
    BY <1>3, CallsAssumption
  <2> QED BY <2>1, <1>2, <1>3, <1>4, <1>8 DEF Shape
<1>10. Carried'
  BY <1>6, <1>8 DEF Carried
<1>12. FrameLinked(c, n)'
  <2>1. \A i \in b[n] + 1 .. d : RaOf(c, n, i)' = RaOf(b, n, i) /\ S0Of(c, n, i) = S0Of(b, n, i)
    <3> SUFFICES ASSUME NEW i \in b[n] + 1 .. d
                 PROVE  RaOf(c, n, i)' = RaOf(b, n, i) /\ S0Of(c, n, i) = S0Of(b, n, i)
      OBVIOUS
    <3>1. i # b[n] + 1 => calls'[i - 1] = calls[i - 1]
      BY <1>2, <1>4, SMTT(40)
    <3> QED BY <3>1, <1>11 DEF RaOf, S0Of
  <2>2. e + 1 = d /\ d \in b[n] + 1 .. d
    BY <1>2, <1>4
  <2>3. WaitInside(c[n], c[n + 1], java[n])'
    <3> SUFFICES ASSUME NEW i \in b[n] + 1 .. e
                 PROVE  calls'[i].fn \in config.coloc /\ calls'[i].site \in Sites /\ Top.fn \in config.coloc
      BY <1>3, <1>5, <1>8, <1>11 DEF WaitInside
    <3>1. calls'[i] = calls[i] /\ i \in b[n] + 1 .. d /\ i < d
      BY <2>2, <1>2, <1>4
    <3> QED BY <3>1, <1>2 DEF FrameLinked, FrameInStep, WaitInside
  <2>4. Top.ra = RaOf(b, n, d) /\ (~config.prune => Top.s0 = S0Of(b, n, d))
    BY <1>1, <1>2 DEF FrameLinked, FrameInStep, FrameRegisters
  <2>5. FrameInStep(c, n)'
    BY <2>1, <2>2, <2>3, <2>4, <1>1, <1>5, <1>8, <1>11 DEF FrameInStep, Replaced
  <2>6. FrameSaved(c, n)'
    <3> SUFFICES ASSUME NEW i \in b[n] + 1 .. e
                 PROVE  /\ stack[i].ra = RaOf(c, n, i)'
                        /\ ~config.prune => stack[i].s0 = S0Of(c, n, i)
      BY <1>3, <1>11 DEF FrameSaved, S0Of
    <3>1. i \in b[n] + 1 .. d /\ i <= Len(stack)
      BY <2>2, <1>2
    <3> QED BY <3>1, <2>1, <1>2 DEF FrameLinked, FrameSaved
  <2>7. FrameRegisters(c, n)'
    BY <2>1, <2>2, <2>4, <1>3, <1>5, <1>8, <1>11 DEF FrameRegisters, Replaced, S0Of
  <2>8. FrameReturns(n)'
    BY <1>2, <1>3, <1>5, <1>8 DEF FrameLinked, FrameReturns
  <2> QED BY <2>5, <2>6, <2>7, <2>8 DEF FrameLinked
<1>13. FrameLinked(c, n + 1)'
  <2>1. /\ c[n + 1] = e /\ c[(n + 1) + 1] = e + 1 /\ n + 1 \in Nat /\ Len(stack') = e
        /\ calls'[e + 1].fn = g /\ calls'[e + 1].site = 0
    <3>1. (n + 1) + 1 = n + 2 /\ e + 1 = d /\ n + 1 \in Nat
      BY <1>4
    <3>2. Len(stack') = e
      BY <1>2, <1>3
    <3>3. c[(n + 1) + 1] = e + 1
      BY <3>1, <1>11
    <3>4. calls'[e + 1].fn = g /\ calls'[e + 1].site = 0
      BY <3>1, <1>4
    <3> QED BY <3>1, <3>2, <3>3, <3>4, <1>11
  <2> QED BY <2>1, <1>8, EnteredLinked
<1>14. FrameBelow(n)'
  BY <1>5, <1>8 DEF FrameBelow
<1>15. TopInStep' /\ Len(stack') = Len(calls') - Unsaved'
  BY <1>2, <1>3, <1>4, <1>6, <1>8 DEF TopInStep, Unsaved, At
<1>16. \A i \in 1 .. b[n] : calls'[i] = calls[i] /\ stack'[i] = stack[i]
  BY <1>2, <1>3, <1>4
<1>17. c[n + 2] = Len(calls') /\ c[n] <= c[n + 1] /\ c[n + 1] <= c[n + 2]
  BY <1>2, <1>4, <1>11
<1>18. Linked(c)'
  BY <1>3, <1>5, <1>6, <1>7, <1>9, <1>11, <1>12, <1>13, <1>14, <1>15, <1>16, <1>17, NewFrameSteps
<1> QED BY <1>9, <1>10, <1>18

(* Methods return enough words for every function in them, and two when a    *)
(* function of the method calls.                                             *)
LEMMA ReturnSizes ==
  ASSUME config \in Configs, NEW f \in Fns
  PROVE  /\ returnSize(f) \in 0 .. 2 /\ Width[f] \in 0 .. 2 /\ Width[f] <= returnSize(f)
         /\ f \notin Leaf => returnSize(f) = 2
<1> PICK m : m = MethodOf(f)
  OBVIOUS
<1> PICK ws : ws = {Width[g] : g \in m}
  OBVIOUS
<1>1. m \subseteq Fns /\ f \in m
  BY CallsAssumption DEF MethodOf
<1>2. ws \subseteq 0 .. 2 /\ Width[f] \in ws /\ Width[f] \in 0 .. 2
  BY <1>1, CallsAssumption
<1>3. \E w \in ws : \A v \in ws : v <= w
  <2>1. CASE 2 \in ws
    BY <2>1, <1>2
  <2>2. CASE 2 \notin ws /\ 1 \in ws
    BY <2>2, <1>2
  <2>3. CASE 2 \notin ws /\ 1 \notin ws
    BY <2>3, <1>2
  <2> QED BY <2>1, <2>2, <2>3
<1> PICK max : max = CHOOSE w \in ws : \A g \in m : Width[g] <= w
  OBVIOUS
<1>4. max \in ws /\ Width[f] <= max
  <2>1. \E w \in ws : \A g \in m : Width[g] <= w
    BY <1>3
  <2>2. max \in ws /\ \A g \in m : Width[g] <= max
    BY <2>1
  <2> QED BY <2>2, <1>1
<1>5. returnSize(f) = IF m \subseteq Leaf THEN max ELSE 2
  BY DEF returnSize
<1> QED BY <1>1, <1>2, <1>4, <1>5

LEMMA PoppedResult ==
  ASSUME config \in Configs, NEW frame \in Frame
  PROVE  Popped(frame) \in Results /\ Popped(frame) # None
<1>1. returnSize(frame.fn) \in 0 .. 2 /\ frame.v0 \in Words /\ frame.v1 \in Words
  BY ReturnSizes DEF Frame
<1>2. Popped(frame) \in Results
  BY <1>1 DEF Popped, Results, Words
<1>3. Results \subseteq [size : 0 .. 2, lo : Int, hi : Int]
  <2>1. Words \subseteq Int
    BY CallsAssumption DEF Words
  <2> SUFFICES ASSUME NEW r \in Results
               PROVE  r \in [size : 0 .. 2, lo : Int, hi : Int]
    OBVIOUS
  <2>2. r = [size |-> r.size, lo |-> r.lo, hi |-> r.hi] /\ r.size \in 0 .. 2 /\ r.lo \in Words /\ r.hi \in Words
    BY DEF Results
  <2> QED BY <2>1, <2>2
<1> QED BY <1>2, <1>3, CallsAssumption

(* A call site is never taken for the start of a method.                     *)
LEMMA SiteNotNone ==
  ASSUME NEW f \in Fns, NEW k \in Sites
  PROVE  <<f, k>> # None
  BY CallsAssumption

(* A frame that returns to Java has no activation left.                      *)
LEMMA FrameEmptied ==
  ASSUME Shape, Carried, NEW b, Linked(b), ReturnJava,
         NEW n \in Nat \ {0}, NEW d \in Nat, Standing(b, n, d)
  PROVE  /\ b[n] <= d /\ Len(stack) = b[n]
         /\ calls' \in Seq(Activation) /\ Len(calls') = b[n]
         /\ \A i \in 1 .. b[n] : calls'[i] = calls[i]
<1>1. /\ Top.pc \in {"done", "passing"}
      /\ Top.fn \notin config.coloc \/ Top.ra = None
  BY DEF ReturnJava, Returning, At, hasMultipleFunctions
<1>2. /\ Top = java[n] /\ b[n] \in Nat /\ b[n + 1] = d /\ b[n] <= d /\ d = Len(calls)
      /\ FrameLinked(b, n) /\ calls \in Seq(Activation)
  BY DEF Standing, Shape
<1>3. ASSUME NEW i \in b[n] + 1 .. d, i < d \/ Top.pc \in Replaced, Top.ra = RaOf(b, n, i + 1)
      PROVE  FALSE
  <2>1. calls[i].fn \in config.coloc /\ calls[i].site \in Sites /\ Top.fn \in config.coloc
    BY <1>2, <1>3 DEF FrameLinked, FrameInStep, WaitInside
  <2>2. calls[i].fn \in Fns
    <3>1. i \in 1 .. Len(calls)
      BY <1>2
    <3>2. calls[i] \in Activation
      BY <3>1, <1>2, ElementOfSeq
    <3> QED BY <3>2 DEF Activation
  <2>3. Top.ra = <<calls[i].fn, calls[i].site>>
    <3>1. i + 1 # b[n] + 1 /\ (i + 1) - 1 = i
      BY <1>2
    <3> QED BY <3>1, <1>3 DEF RaOf
  <2> QED BY <2>1, <2>2, <2>3, <1>1, SiteNotNone
<1>4. CASE Top.pc = "done"
  <2>1. b[n] < d /\ Len(stack) = d - 1
    BY <1>4 DEF Standing, Replaced
  <2>2. b[n] = d - 1
    <3> SUFFICES ASSUME b[n] # d - 1
                 PROVE  FALSE
      OBVIOUS
    <3> PICK i \in Nat : i = d - 1
      BY <2>1, <1>2
    <3>1. i \in b[n] + 1 .. d /\ i < d /\ i + 1 = d
      BY <2>1, <1>2
    <3>2. Top.ra = RaOf(b, n, i + 1)
      BY <3>1, <1>2, <1>4 DEF FrameLinked, FrameInStep
    <3> QED BY <3>1, <3>2, <1>3
  <2>3. MReturn([width |-> Width[Top.fn], v0 |-> Top.v0, v1 |-> Top.v1])
    BY <1>4 DEF ReturnJava, Returning
  <2>4. calls' \in Seq(Activation) /\ Len(calls') = d - 1 /\ \A i \in 1 .. d - 1 : calls'[i] = calls[i]
    BY <2>3, <1>2, ReturnActivations
  <2> QED BY <2>1, <2>2, <2>4
<1>5. CASE Top.pc = "passing"
  <2>1. Len(stack) = d
    BY <1>5 DEF Standing
  <2>2. b[n] = d
    <3> SUFFICES ASSUME b[n] # d
                 PROVE  FALSE
      OBVIOUS
    <3>1. d \in b[n] + 1 .. d
      BY <1>2
    <3>2. Top.pc \in Replaced /\ Top.ra = RaOf(b, n, d + 1)
      BY <1>2, <1>5 DEF FrameLinked, FrameInStep, Replaced
    <3> QED BY <3>1, <3>2, <1>3
  <2>3. UNCHANGED calls
    BY <1>5 DEF ReturnJava, Returning, mips
  <2> QED BY <2>1, <2>2, <2>3, <1>2
<1> QED BY <1>1, <1>4, <1>5

(* The program ends: the last frame returns.                                 *)
LEMMA ReturnLastInv ==
  ASSUME Shape, Carried, NEW b, Linked(b), ReturnJava, Len(java) = 1
  PROVE  java' = <<>> /\ Carried' /\ Linked(b)' /\ calls' \in Seq(Activation) /\ Len(calls') = 0
<1>1. java # <<>>
  BY DEF ReturnJava, Returning, At
<1> PICK n \in Nat \ {0}, d \in Nat : Standing(b, n, d)
  BY <1>1, StandingSomewhere
<1>2. n = 1 /\ b[1] = 0 /\ Indexed(b)
  BY DEF Standing, Linked, Dealt
<1>3. calls' \in Seq(Activation) /\ Len(calls') = 0 /\ Len(stack) = 0 /\ UNCHANGED stack
  BY <1>2, FrameEmptied DEF ReturnJava
<1>4. java' = <<>>
  <2>1. Len(Below) = 0 /\ Below \in Seq(Frame)
    BY <1>1, ShortenedSeq DEF Below, Shape
  <2>2. Below = <<>>
    BY <2>1, EmptySeq
  <2> QED BY <2>2 DEF ReturnJava
<1>5. Len(java') = 0
  BY <1>4
<1>6. Dealt(b)'
  BY <1>2, <1>3, <1>5 DEF Dealt
<1>7. Len(stack') = Len(calls') - Unsaved'
  BY <1>3, <1>4 DEF Unsaved, At
<1> QED BY <1>3, <1>4, <1>5, <1>6, <1>7 DEF Linked, TopInStep, Carried

(* A result on its way to the frame m below the running one.                 *)
LEMMA ReturnBelow ==
  ASSUME Shape, Carried, NEW b, Linked(b), ReturnJava,
         NEW m \in Nat \ {0}, Len(java) = m + 1
  PROVE  /\ java' \in Seq(Frame) /\ java' # <<>> /\ Len(java') = m
         /\ \A j \in 1 .. m - 1 : java'[j] = java[j]
         /\ java[m] \in Frame /\ java[m].pc \in {"calling", "tailing"}
         /\ Top' = java'[m] /\ Top' = [java[m] EXCEPT !.op = Popped(Top)]
<1>1. java # <<>>
  BY DEF ReturnJava, Returning, At
<1> PICK below : below = Below
  OBVIOUS
<1>2. below \in Seq(Frame) /\ Len(below) = m /\ \A i \in 1 .. m : below[i] = java[i]
  BY <1>1, ShortenedSeq DEF Below, Shape
<1>3. m \in 1 .. m /\ below # <<>>
  BY <1>2, EmptySeq
<1>4. below[m] = java[m] /\ below[m] \in Frame
  BY <1>2, <1>3, ElementOfSeq
<1>5. java[m].pc \in {"calling", "tailing"}
  <2>1. m \in 1 .. Len(java) - 1
    OBVIOUS
  <2> QED BY <2>1 DEF Linked, FrameBelow
<1> PICK top : top = [java[m] EXCEPT !.op = Popped(Top)]
  OBVIOUS
<1>6. top \in Frame
  <2>1. Top \in Frame
    BY <1>1, ElementOfSeq, EmptySeq DEF Top, Shape
  <2>2. Popped(Top) \in Results
    BY <2>1, PoppedResult DEF Shape
  <2> QED BY <2>2, <1>4 DEF Frame
<1>7. java' = [below EXCEPT ![m] = top]
  BY <1>2, <1>3, <1>4 DEF ReturnJava
<1>8. java' \in Seq(Frame) /\ Len(java') = m /\ \A j \in 1 .. m : java'[j] = IF j = m THEN top ELSE below[j]
  BY <1>2, <1>3, <1>6, <1>7, ExceptSeq
<1>9. java' # <<>> /\ java'[m] = top
  BY <1>3, <1>8, EmptySeq
<1>10. \A j \in 1 .. m - 1 : java'[j] = java[j]
  BY <1>2, <1>8
<1>11. Top' = java'[m]
  BY <1>8 DEF Top
<1> QED BY <1>4, <1>5, <1>8, <1>9, <1>10, <1>11

LEMMA ReturnToFrameInv ==
  ASSUME Shape, Carried, NEW b, Linked(b), ReturnJava, Shape',
         NEW m \in Nat \ {0}, Len(java) = m + 1
  PROVE  Linked(b)'
<1> PICK n \in Nat \ {0}, d \in Nat : Standing(b, n, d)
  BY StandingSomewhere DEF ReturnJava, Returning, At
<1>1. n = m + 1 /\ Top \in Frame
  BY DEF Standing
<1> PICK e \in Nat : e = b[m + 1]
  BY <1>1 DEF Standing
<1>2. /\ Len(stack) = e /\ calls' \in Seq(Activation) /\ Len(calls') = e
      /\ \A i \in 1 .. e : calls'[i] = calls[i]
  BY <1>1, FrameEmptied
<1>3. UNCHANGED <<config, stack>>
  BY DEF ReturnJava
<1> PICK top : top = [java[m] EXCEPT !.op = Popped(Top)]
  OBVIOUS
<1>4. /\ java' # <<>> /\ Len(java') = m /\ \A j \in 1 .. m - 1 : java'[j] = java[j]
      /\ java[m] \in Frame /\ java[m].pc \in {"calling", "tailing"}
      /\ Top' = top /\ java'[m] = top
  BY ReturnBelow
<1>5. /\ top.fn = java[m].fn /\ top.pc = java[m].pc /\ top.site = java[m].site
      /\ top.ra = java[m].ra /\ top.s0 = java[m].s0 /\ top.op = Popped(Top)
  BY <1>4 DEF Frame
<1>6. b[m] \in Nat /\ b[m] <= e /\ Indexed(b) /\ (\A i \in Nat : b[i] \in Nat) /\ FrameLinked(b, m)
  <2>1. m \in 1 .. Len(java) + 1 /\ m + 1 \in 1 .. Len(java) + 1 /\ m <= m + 1 /\ m \in 1 .. Len(java)
    OBVIOUS
  <2> QED BY <2>1 DEF Linked, Dealt, Indexed
<1>7. \A i \in b[m] + 1 .. e + 1 : RaOf(b, m, i)' = RaOf(b, m, i)
  <2> SUFFICES ASSUME NEW i \in b[m] + 1 .. e + 1
               PROVE  RaOf(b, m, i)' = RaOf(b, m, i)
    OBVIOUS
  <2>1. i # b[m] + 1 => calls'[i - 1] = calls[i - 1]
    BY <1>2, <1>6, SMTT(40)
  <2> QED BY <2>1 DEF RaOf
<1>8. \A i \in b[m] + 1 .. e : calls'[i] = calls[i]
  BY <1>2, <1>6
<1>9. FrameInStep(b, m)'
  <2>1. WaitInside(b[m], b[m + 1], java[m])'
    BY <1>3, <1>4, <1>5, <1>6, <1>8 DEF FrameLinked, FrameInStep, WaitInside
  <2>2. b[m] < e => e \in b[m] + 1 .. e
    BY <1>6
  <2>3. e + 1 \in b[m] + 1 .. e + 1
    BY <1>6, SMTT(40)
  <2>4. RaOf(b, m, b[m + 1] + 1)' = RaOf(b, m, b[m + 1] + 1)
    BY <2>3, <1>7
  <2>5. b[m] < b[m + 1] => calls'[b[m + 1]] = calls[b[m + 1]]
    BY <2>2, <1>8
  <2> QED BY <2>1, <2>4, <2>5, <1>4, <1>5, <1>6 DEF FrameLinked, FrameInStep, Replaced
<1>10. FrameSaved(b, m)'
  <2> SUFFICES ASSUME NEW i \in b[m] + 1 .. e
               PROVE  /\ stack[i].ra = RaOf(b, m, i)'
                      /\ ~config.prune => stack[i].s0 = S0Of(b, m, i)
    BY <1>3 DEF FrameSaved, S0Of
  <2>1. i <= Len(stack) /\ i \in b[m] + 1 .. e + 1
    BY <1>2, <1>6
  <2> QED BY <2>1, <1>6, <1>7 DEF FrameLinked, FrameSaved
<1>11. FrameRegisters(b, m)'
  BY <1>3, <1>4, <1>5, <1>6 DEF FrameLinked, FrameRegisters, SavesSound, Replaced, S0Of
<1>12. TopInStep' /\ Len(stack') = Len(calls') - Unsaved'
  <2>1. Popped(Top) # None
    BY <1>1, PoppedResult DEF Shape
  <2> QED BY <2>1, <1>2, <1>3, <1>4, <1>5 DEF TopInStep, Unsaved, At
<1> PICK k \in Nat : k = m - 1
  OBVIOUS
<1>13. k < Len(java) /\ m = Len(java') /\ k < m /\ k + 1 = m
  BY <1>4
<1>14. \A i, j \in k + 1 .. m + 1 : i <= j => b[i] <= b[j]
  <2>1. \A i, j \in m .. m + 1 : i <= j => b[i] <= b[j]
    BY <1>6, TwoRise
  <2> QED BY <2>1, <1>13
<1>15. \A i \in 1 .. b[k + 1] : calls'[i] = calls[i] /\ stack'[i] = stack[i]
  BY <1>2, <1>3, <1>6, <1>13
<1>16. b[k + 1] <= Len(stack) /\ b[m + 1] = Len(calls')
  BY <1>2, <1>6, <1>13
<1>r. FrameReturns(m)'
  BY <1>3, <1>4, <1>5, <1>6 DEF FrameLinked, FrameReturns
<1>17. \A j \in k + 1 .. m : FrameLinked(b, j)'
  BY <1>r, <1>9, <1>10, <1>11, <1>13 DEF FrameLinked
<1>18. \A j \in k + 1 .. m - 1 : FrameBelow(j)'
  BY <1>13
<1>19. \A j \in 1 .. k : java'[j] = java[j]
  BY <1>4, <1>13
<1> QED BY <1>3, <1>6, <1>12, <1>13, <1>14, <1>15, <1>16, <1>17, <1>18, <1>19, StepLinked

LEMMA ReturnJavaInv ==
  ASSUME Shape, Carried, NEW b, Linked(b), ReturnJava
  PROVE  Shape' /\ Carried' /\ Linked(b)'
<1>1. java # <<>> /\ Top.pc \in {"done", "passing"}
  BY DEF ReturnJava, Returning, At
<1> PICK n \in Nat \ {0}, d \in Nat : Standing(b, n, d)
  BY <1>1, StandingSomewhere
<1>2. n = Len(java) /\ Top \in Frame /\ FrameLinked(b, n) /\ Top = java[n] /\ config \in Configs
  BY DEF Standing, Shape
<1>3. UNCHANGED <<config, stack>>
  BY DEF ReturnJava
<1>4. calls' \in Seq(Activation) /\ Len(calls') <= MaxDepth
  <2>1. b[n] \in Nat /\ b[n] <= d /\ d <= MaxDepth /\ Len(calls') = b[n] /\ calls' \in Seq(Activation)
    BY FrameEmptied DEF Standing
  <2> QED BY <2>1, DepthAssumption
<1> PICK size : size = returnSize(Top.fn)
  OBVIOUS
<1>5. size \in 0 .. 2 /\ Width[Top.fn] \in 0 .. 2 /\ Width[Top.fn] <= size /\ (Top.fn \notin Leaf => size = 2)
  BY <1>2, ReturnSizes DEF Frame
<1>6. savedV1' = IF ~config.threadSafe /\ size = 2 THEN Top.v1 ELSE savedV1
  BY DEF ReturnJava
(* What the MIPS machine has returned, now or before, is in v0 and v1.       *)
<1>7. /\ returned' \in [width : 0 .. 2, v0 : Words, v1 : Words] /\ crossed' \in BOOLEAN
      /\ returned' # None /\ returned'.width <= size
      /\ returned'.width >= 1 => Top.v0 = returned'.v0
      /\ returned'.width = 2 /\ HighArrives' => Top.v1 = returned'.v1
  <2>1. CASE Top.pc = "done"
    <3> PICK r : r = [width |-> Width[Top.fn], v0 |-> Top.v0, v1 |-> Top.v1]
      OBVIOUS
    <3>1. returned' = r /\ crossed' = FALSE
      BY <2>1 DEF ReturnJava, Returning, MReturn
    <3>2. /\ r \in [width : 0 .. 2, v0 : Words, v1 : Words]
          /\ r.width = Width[Top.fn] /\ r.v0 = Top.v0 /\ r.v1 = Top.v1
      BY <1>2, <1>5 DEF Frame
    <3>3. r # None
      <4>1. Words \subseteq Int
        BY CallsAssumption DEF Words
      <4>2. r \in [width : 0 .. 2, v0 : Int, v1 : Int]
        BY <4>1, <1>2, <1>5 DEF Frame
      <4> QED BY <4>2, CallsAssumption
    <3> QED BY <3>1, <3>2, <3>3, <1>5
  <2>2. CASE Top.pc = "passing"
    <3>1. UNCHANGED <<returned, crossed>> /\ returned # None
      BY <1>1, <2>2 DEF ReturnJava, Returning, mips, Carried
    <3>2. returned \in [width : 0 .. 2, v0 : Words, v1 : Words] /\ crossed \in BOOLEAN
      BY <3>1 DEF Shape
    <3>3. size = 2
      BY <1>2, <1>5, <2>2 DEF FrameLinked, FrameInStep, Replaced
    <3>4. HighArrives' = HighArrives
      BY <3>1, <1>3 DEF HighArrives
    <3>5. returned.width \in 0 .. 2
      BY <3>2
    <3> QED BY <3>1, <3>2, <3>3, <3>4, <3>5, <1>1, <2>2 DEF Carried
  <2> QED BY <2>1, <2>2, <1>1
<1>8. savedV1' \in Words
  BY <1>2, <1>6 DEF Frame, Shape
<1>9. CASE Len(java) = 1
  <2>1. java' = <<>> /\ Carried' /\ Linked(b)'
    BY <1>9, ReturnLastInv
  <2>2. java' \in Seq(Frame) /\ Len(java') <= MaxFrames
    BY <2>1, CallsAssumption
  <2>3. Shape'
    BY <2>2, <1>3, <1>4, <1>7, <1>8 DEF Shape
  <2> QED BY <2>1, <2>3
<1>10. CASE Len(java) # 1
  <2> PICK m \in Nat \ {0} : m = n - 1
    BY <1>2, <1>10
  <2>1. Len(java) = m + 1
    BY <1>2
  <2>2. /\ java' \in Seq(Frame) /\ Len(java') = m /\ java[m] \in Frame
        /\ Top' = [java[m] EXCEPT !.op = Popped(Top)]
        /\ java[m].pc \in {"calling", "tailing"}
    BY <2>1, ReturnBelow
  <2>3. Shape'
    <3>1. m <= MaxFrames
      BY <2>1, CallsAssumption DEF Shape
    <3> QED BY <3>1, <2>2, <1>3, <1>4, <1>7, <1>8 DEF Shape
  <2>4. Linked(b)'
    BY <2>1, <2>3, ReturnToFrameInv
  <2>5. Carried'
    <3> PICK top : top = [java[m] EXCEPT !.op = Popped(Top)]
      OBVIOUS
    <3> PICK op : op = Popped(Top)
      OBVIOUS
    <3>1. Top' = top /\ top.pc \in {"calling", "tailing"} /\ top.op = op
      BY <2>2 DEF Frame
    <3>2. /\ op.size = size /\ op.lo = (IF size = 0 THEN 0 ELSE Top.v0)
          /\ size = 2 /\ Top.v0 >= 0 => op.hi = Top.v1
      BY DEF Popped
    <3>3. returned'.width \in 0 .. 2
      BY <1>7
    <3>4. returned'.width >= 1 => op.lo = returned'.v0
      BY <3>2, <3>3, <1>5, <1>7
    <3>5. returned'.width = 2 => size = 2
      BY <3>3, <1>5, <1>7
    <3>6. returned'.width = 2 /\ HighArrives' =>
            returned'.v1 = IF config.threadSafe THEN op.hi ELSE savedV1'
      <4> SUFFICES ASSUME returned'.width = 2, HighArrives'
                   PROVE  returned'.v1 = IF config.threadSafe THEN op.hi ELSE savedV1'
        OBVIOUS
      <4>1. size = 2 /\ Top.v1 = returned'.v1 /\ Top.v0 = returned'.v0
        BY <3>5, <1>7
      <4>2. CASE config.threadSafe
        <5>1. returned'.v0 >= 0
          BY <4>2, <1>3 DEF HighArrives
        <5> QED BY <5>1, <4>1, <4>2, <3>2
      <4>3. CASE ~config.threadSafe
        BY <4>1, <4>3, <1>6
      <4> QED BY <4>2, <4>3
    <3>7. Top'.pc \notin {"body", "passing"} /\ Top'.pc \in {"calling", "tailing"} /\ Top'.op = op
      BY <3>1
    <3> QED BY <3>2, <3>4, <3>6, <3>7, <1>3, <1>7 DEF Carried
  <2> QED BY <2>3, <2>4, <2>5
<1> QED BY <1>9, <1>10

LEMMA StartInv ==
  ASSUME Shape, Carried, NEW b, Linked(b), NEW g \in Fns, Start(g)
  PROVE  Shape' /\ Carried' /\ \E c : Linked(c)'
<1> PICK new : new = Entered(g)
  OBVIOUS
<1> PICK first : first = [fn |-> g, site |-> 0]
  OBVIOUS
<1>1. /\ java = <<>> /\ calls = <<>> /\ java' = <<new>> /\ calls' = <<first>> /\ returned' = None
      /\ UNCHANGED <<config, stack, savedV1, crossed>>
  BY DEF Start, MStart
<1>2. new \in Frame /\ new.op = None /\ new.pc = "entry"
  BY EnteredFrame
<1>3. first \in Activation /\ first.fn = g /\ first.site = 0
  BY DEF Activation
<1>4. Indexed(b) /\ b[1] = 0 /\ Len(stack) = 0
  <2>1. Len(java) = 0 /\ Len(calls) = 0 /\ Unsaved = 0
    BY <1>1 DEF Unsaved, At
  <2> QED BY <2>1 DEF Linked, Dealt
<1>5. /\ java' \in Seq(Frame) /\ Len(java') = 1 /\ java'[1] = new /\ java' # <<>>
      /\ calls' \in Seq(Activation) /\ Len(calls') = 1 /\ calls'[1] = first
  BY <1>1, <1>2, <1>3
<1>6. Top' = new
  BY <1>5 DEF Top
<1>7. Shape'
  <2>1. 1 <= MaxDepth /\ 1 <= MaxFrames
    BY DepthAssumption, CallsAssumption
  <2> QED BY <2>1, <1>1, <1>5 DEF Shape
<1>8. Carried'
  BY <1>2, <1>6 DEF Carried
<1>9. PICK c : Indexed(c) /\ c[1] = 0 /\ c[2] = 1
  <2>1. PICK c : c = [b EXCEPT ![2] = 1]
    OBVIOUS
  <2>2. Indexed(c)
    BY <2>1, <1>4 DEF Indexed
  <2>3. c[1] = 0 /\ c[2] = 1
    BY <2>1, <1>4 DEF Indexed
  <2> QED BY <2>2, <2>3
<1>10. \A i, j \in 1 .. 2 : i <= j => c[i] <= c[j]
  <2>1. \A i \in Nat : c[i] \in Nat
    BY <1>9 DEF Indexed
  <2>2. \A i, j \in 1 .. 1 + 1 : i <= j => c[i] <= c[j]
    BY <2>1, <1>9, TwoRise
  <2> QED BY <2>2
<1>11. Dealt(c)'
  BY <1>5, <1>9, <1>10 DEF Dealt
<1>12. FrameLinked(c, 1)'
  <2> PICK m \in Nat : m = 1
    OBVIOUS
  <2> PICK e \in Nat : e = 0
    OBVIOUS
  <2>1. c[m] = e /\ c[m + 1] = e + 1 /\ java'[m] = Entered(g)
    BY <1>5, <1>9
  <2>2. calls'[e + 1].fn = g /\ calls'[e + 1].site = 0 /\ Len(stack') = e
    BY <1>1, <1>3, <1>4, <1>5
  <2>3. FrameLinked(c, m)'
    BY <2>1, <2>2, EnteredLinked
  <2> QED BY <2>3
<1>13. TopInStep' /\ Len(stack') = Len(calls') - Unsaved'
  BY <1>1, <1>2, <1>4, <1>5, <1>6 DEF TopInStep, Unsaved, At
<1>14. Linked(c)'
  BY <1>5, <1>11, <1>12, <1>13 DEF Linked
<1> QED BY <1>7, <1>8, <1>14

(* A callback that returns touches saved_v1 alone.                           *)
LEMMA LinkedKept ==
  ASSUME NEW b, Linked(b), UNCHANGED <<calls, returned, config, java, stack>>
  PROVE  Linked(b)'
  BY DEF Linked, Dealt, Unsaved, At, Top, TopInStep, FrameBelow, FrameLinked, FrameInStep,
         FrameSaved, FrameRegisters, FrameReturns, SavesSound, WaitInside, RaOf, S0Of

LEMMA EventReturnsInv ==
  ASSUME Shape, Carried, NEW b, Linked(b), NEW hi \in High \cup {0}, EventReturns(hi)
  PROVE  Shape' /\ Carried' /\ Linked(b)'
<1>1. /\ UNCHANGED <<calls, returned, config, java, stack>> /\ crossed' = TRUE
      /\ savedV1' = IF config.threadSafe THEN savedV1 ELSE hi
  BY DEF EventReturns, mips
<1>2. Shape'
  <2>1. savedV1' \in Words
    BY <1>1 DEF Shape, Words
  <2> QED BY <2>1, <1>1 DEF Shape
<1>3. Carried'
  <2>1. Top' = Top
    BY <1>1 DEF Top
  <2>2. HighArrives' => config.threadSafe /\ HighArrives
    BY <1>1 DEF HighArrives
  <2> QED BY <2>1, <2>2, <1>1 DEF Carried
<1>4. Linked(b)'
  BY <1>1, LinkedKept
<1> QED BY <1>2, <1>3, <1>4

LEMMA StutterInv ==
  ASSUME Shape, Carried, NEW b, Linked(b), UNCHANGED vars
  PROVE  Shape' /\ Carried' /\ Linked(b)'
<1>1. UNCHANGED <<calls, returned, config, java, stack, savedV1, crossed>>
  BY DEF vars
<1>2. Shape' /\ Carried'
  BY <1>1 DEF Shape, Carried, HighArrives, Top
<1>3. Linked(b)'
  BY <1>1, LinkedKept
<1> QED BY <1>2, <1>3

-------------------------------------------------------------------------------
(* The inductive invariant. *)

LEMMA InitIInv == Init => IInv
<1> SUFFICES ASSUME Init
             PROVE  IInv
  OBVIOUS
<1>1. /\ java = <<>> /\ calls = <<>> /\ stack = <<>> /\ returned = None /\ config \in Configs
      /\ savedV1 = 0 /\ crossed = FALSE
  BY DEF Init, MInit
<1>2. Len(java) = 0 /\ Len(calls) = 0 /\ Len(stack) = 0
  BY <1>1
<1>3. Shape
  <2>1. 0 <= MaxDepth /\ 0 <= MaxFrames
    BY DepthAssumption, CallsAssumption
  <2>2. java \in Seq(Frame) /\ calls \in Seq(Activation) /\ stack \in Seq([ra : Returns, s0 : 0 .. MaxDepth])
    BY <1>1
  <2> QED BY <2>1, <2>2, <1>1, <1>2 DEF Shape, Words
<1>4. Carried
  BY <1>1 DEF Carried
<1>5. PICK b : Indexed(b) /\ b[1] = 0
  <2>1. PICK b : b = [i \in Nat |-> 0]
    OBVIOUS
  <2> QED BY <2>1 DEF Indexed
<1>6. Linked(b)
  <2>1. Dealt(b)
    BY <1>2, <1>5 DEF Dealt
  <2>2. Unsaved = 0 /\ TopInStep
    BY <1>1 DEF Unsaved, At, TopInStep
  <2> QED BY <2>1, <2>2, <1>2 DEF Linked
<1> QED BY <1>3, <1>4, <1>6 DEF IInv

LEMMA NextIInv == IInv /\ [Next]_vars => IInv'
<1> SUFFICES ASSUME IInv, [Next]_vars
             PROVE  IInv'
  OBVIOUS
<1>1. Shape /\ Carried
  BY DEF IInv
<1>2. PICK b : Linked(b)
  BY DEF IInv
<1> SUFFICES Shape' /\ Carried' /\ \E c : Linked(c)'
  BY DEF IInv
<1>3. ASSUME NEW g \in Fns, Start(g)
      PROVE  Shape' /\ Carried' /\ \E c : Linked(c)'
  BY <1>1, <1>2, <1>3, StartInv
<1>4. CASE Prologue
  BY <1>1, <1>2, <1>4, PrologueInv
<1>5. ASSUME NEW g \in Fns, NEW k \in Sites, CallLocal(g, k)
      PROVE  Shape' /\ Carried' /\ \E c : Linked(c)'
  BY <1>1, <1>2, <1>5, CallLocalInv
<1>6. ASSUME NEW g \in Fns, NEW k \in Sites, NEW indirect \in BOOLEAN, Call(g, k, indirect)
      PROVE  Shape' /\ Carried' /\ \E c : Linked(c)'
  BY <1>1, <1>2, <1>6, CallInv
<1>7. ASSUME NEW lo \in Low, NEW hi \in High, Epilogue(lo, hi)
      PROVE  Shape' /\ Carried' /\ \E c : Linked(c)'
  BY <1>1, <1>2, <1>7, EpilogueInv
<1>8. ASSUME NEW g \in Fns, TailCallLocal(g)
      PROVE  Shape' /\ Carried' /\ \E c : Linked(c)'
  BY <1>1, <1>2, <1>8, TailCallLocalInv
<1>9. ASSUME NEW g \in Fns, TailCall(g)
      PROVE  Shape' /\ Carried' /\ \E c : Linked(c)'
  BY <1>1, <1>2, <1>9, TailCallInv
<1>10. CASE ReturnLocal
  BY <1>1, <1>2, <1>10, ReturnLocalInv
<1>11. CASE ReturnJava
  BY <1>1, <1>2, <1>11, ReturnJavaInv
<1>12. CASE Receive
  BY <1>1, <1>2, <1>12, ReceiveInv
<1>13. ASSUME NEW hi \in High \cup {0}, EventReturns(hi)
       PROVE  Shape' /\ Carried' /\ \E c : Linked(c)'
  BY <1>1, <1>2, <1>13, EventReturnsInv
<1>14. CASE UNCHANGED vars
  BY <1>1, <1>2, <1>14, StutterInv
<1> QED BY <1>3, <1>4, <1>5, <1>6, <1>7, <1>8, <1>9, <1>10, <1>11, <1>12, <1>13, <1>14 DEF Next

(* In every reachable state the two programs are linked. *)
THEOREM SpecIInv == Spec => []IInv
  BY InitIInv, NextIInv, PTL DEF Spec

-------------------------------------------------------------------------------
(* What follows from it. *)

(* Frames, saved registers and results keep their shape, only frames below   *)
(* the running one wait for a call, and ra is a place inside the method      *)
(* (javamethod.cc).                                                          *)
THEOREM TypeCorrect == Spec => []TypeOK
<1>1. IInv => TypeOK
  <2> SUFFICES ASSUME Shape, NEW b, Linked(b)
               PROVE  TypeOK
    BY DEF IInv
  <2>1. ASSUME NEW i \in 1 .. Len(java)
        PROVE  /\ java[i].fn \in Fns /\ java[i].v0 \in Words /\ java[i].v1 \in Words
               /\ java[i].ra \in {None} \cup config.coloc \X Sites
               /\ i < Len(java) => java[i].pc \in {"calling", "tailing"} /\ java[i].op = None
               /\ java[i].pc \in {"entry", "body", "done", "passing"} => java[i].op = None
    <3> PICK n \in Nat : n = Len(java)
      BY LenProperties DEF Shape
    <3>1. java[i] \in Frame
      BY ElementOfSeq DEF Shape
    <3>2. FrameReturns(i)
      BY DEF Linked, FrameLinked
    <3>3. i < n => FrameBelow(i)
      <4>1. i < n => i \in 1 .. n - 1
        OBVIOUS
      <4> QED BY <4>1 DEF Linked
    <3>4. i = n => (java[i].op # None <=> java[i].pc \in {"calling", "tailing"})
      <4>1. java # <<>>
        BY EmptySeq DEF Shape
      <4> QED BY <4>1 DEF Linked, TopInStep, Top
    <3>5. i < n \/ i = n
      OBVIOUS
    <3> QED BY <3>1, <3>2, <3>3, <3>4, <3>5 DEF Frame, FrameReturns, FrameBelow
  <2>2. ASSUME NEW i \in 1 .. Len(stack)
        PROVE  stack[i].s0 \in 0 .. MaxDepth
    <3>1. stack[i] \in [ra : Returns, s0 : 0 .. MaxDepth]
      BY ElementOfSeq DEF Shape
    <3> QED BY <3>1
  <2> QED BY <2>1, <2>2 DEF TypeOK, Shape
<1> QED BY SpecIInv, <1>1, PTL

(* A call reaches its function and a return the site of the call, however    *)
(* the functions are distributed over methods, tail called or called through *)
(* the table (javamethod.cc, CibylCallTable).                                *)
THEOREM RunsInStep == Spec => []InStep
<1>1. IInv => InStep
  <2> SUFFICES ASSUME Shape, NEW b, Linked(b)
               PROVE  InStep
    BY DEF IInv
  <2>1. ASSUME java = <<>>
        PROVE  calls = <<>> /\ stack = <<>>
    <3>1. Len(java) = 0 /\ Unsaved = 0
      BY <2>1 DEF Unsaved, At
    <3>2. Len(calls) = 0 /\ Len(stack) = 0
      BY <3>1 DEF Linked, Dealt
    <3> QED BY <3>2, EmptySeq DEF Shape
  <2>2. ASSUME At({"entry", "body", "done"})
        PROVE  calls # <<>> /\ Top.fn = Running.fn /\ Top.site = Running.site
    <3>1. java # <<>> /\ Top.pc \notin Replaced
      BY <2>2 DEF At, Replaced
    <3> PICK n \in Nat \ {0}, d \in Nat : Standing(b, n, d)
      BY <3>1, StandingSomewhere
    <3> QED BY <3>1 DEF Standing
  <2> QED BY <2>1, <2>2 DEF InStep
<1> QED BY SpecIInv, <1>1, PTL

(* s0 is the function's own after every call, provided that the stores of s  *)
(* registers are pruned only when no functions share a method                *)
(* (optimize_prune_stack_stores, colocate_functions).                        *)
THEOREM CalleesPreserve ==
  ASSUME \A cfg \in Configs : cfg.prune => cfg.coloc = {}
  PROVE  Spec => []RegistersKept
<1>1. IInv => RegistersKept
  <2> SUFFICES ASSUME Shape, NEW b, Linked(b), At({"body"})
               PROVE  Top.s0 = Len(stack)
    BY DEF IInv, RegistersKept
  <2>1. java # <<>> /\ Top.pc = "body"
    BY DEF At
  <2> PICK n \in Nat \ {0}, d \in Nat : Standing(b, n, d)
    BY <2>1, StandingSomewhere
  <2>2. Len(stack) = d /\ b[n + 1] = d /\ Top = java[n] /\ FrameLinked(b, n)
    BY <2>1 DEF Standing
  <2>3. SavesSound
    BY DEF SavesSound, Shape
  <2> QED BY <2>1, <2>2, <2>3 DEF FrameLinked, FrameRegisters
<1> QED BY SpecIInv, <1>1, PTL

(* The caller finds in v0 and v1 what the callee left there, whatever the    *)
(* event thread does meanwhile in the thread-safe translation, and otherwise *)
(* unless a callback returned since (doc/threading.txt).                     *)
THEOREM ResultsDelivered == Spec => []ResultsArrive
<1>1. IInv => ResultsArrive
  BY DEF IInv, Carried, ResultsArrive, Arrived, HighArrives, At
<1> QED BY SpecIInv, <1>1, PTL
===============================================================================

------------------------------ MODULE ByteStream ------------------------------
(***************************************************************************)
(* What a C program expects of a stream: a sequence of bytes and a         *)
(* position in it. Reads deliver the bytes at the position, writes put     *)
(* there the bytes they are given and extend the sequence, seeks move the  *)
(* position and nothing else.                                              *)
(***************************************************************************)
EXTENDS Integers, Sequences

CONSTANTS
  Bytes,         (* values of a byte                                        *)
  MaxCount,      (* bound on the bytes one call moves                       *)
  MaxSize        (* bound on the bytes of a stream                          *)

VARIABLES
  content,       (* the bytes                                               *)
  pos,           (* the position                                            *)
  given,         (* the bytes the program gave the last call                *)
  delivered      (* the bytes the last call delivered                       *)

vars == <<content, pos, given, delivered>>

Init == content \in Seq(Bytes) /\ pos = 0 /\ given = <<>> /\ delivered = <<>>

Read(n) ==
  /\ delivered' = SubSeq(content, pos + 1, IF pos + n < Len(content) THEN pos + n ELSE Len(content))
  /\ pos' = pos + Len(delivered')
  /\ given' = <<>>
  /\ UNCHANGED content

Write(bytes) ==
  /\ pos <= Len(content)
  /\ content' = SubSeq(content, 1, pos) \o bytes
                \o SubSeq(content, pos + Len(bytes) + 1, Len(content))
  /\ pos' = pos + Len(bytes)
  /\ given' = bytes /\ delivered' = <<>>

Seek(p) ==
  /\ pos' = p
  /\ given' = <<>> /\ delivered' = <<>>
  /\ UNCHANGED content

Next ==
  \/ \E n \in 0 .. MaxCount : Read(n)
  \/ \E n \in 0 .. MaxCount : \E bytes \in [1 .. n -> Bytes] : Write(bytes)
  \/ \E p \in 0 .. MaxSize : Seek(p)

Spec == Init /\ [][Next]_vars
===============================================================================

--------------------------- MODULE MCFileConnection ---------------------------
(***************************************************************************)
(* FileConnection for TLC. The objects of a FILE are pairs of the FILE and *)
(* a kind.                                                                 *)
(***************************************************************************)
EXTENDS FileConnection, TLC

Connections == [f \in FileIds |-> <<f, "connection">>]
JavaStreams == [f \in FileIds |-> <<f, "stream">>]
JavaObjects ==
  {Connections[f] : f \in FileIds} \cup {JavaStreams[f] : f \in FileIds} \cup {<<Idle, "exception">>}
Exception == <<Idle, "exception">>

FileSymmetry == Permutations(FileIds)
===============================================================================

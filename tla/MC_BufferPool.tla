---------------------------- MODULE MC_BufferPool ----------------------------
(* Small instances of BufferPool: file offsets are the page ids themselves,   *)
(* as they are while the file holds a single table.                           *)
EXTENDS BufferPool, TLC

CONSTANTS c1, c2, t1, p1, p2, p3, q1

MC_Pages == {p1, p2, p3}
MC_Offsets == MC_Pages
MC_OffsetOf == [p \in MC_Pages |-> p]
MC_Initial == {p1, p2}

(* Two tables behind one pool: q1 is page 0 of another table, and FileDisk    *)
(* computes the offset of p1 for it.                                          *)
MC_TwoTablePages == {p1, p2, q1}
MC_TwoTableOffsets == {p1, p2}
MC_TwoTableOffsetOf == [p \in MC_TwoTablePages |-> IF p = q1 THEN p1 ELSE p]
MC_TwoTableInitial == {p1}

ClientSymmetry == Permutations(Clients)
=============================================================================

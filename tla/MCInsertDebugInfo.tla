------------------------- MODULE MCInsertDebugInfo -------------------------
(***************************************************************************)
(* InsertDebugInfo on one method (the methods share nothing but counters) *)
(* over every entry block shape the cover distinguishes: load-params and  *)
(* an opcode, a position before or after the first opcode, no param, no  *)
(* opcode; and every list of up to two positions in the other blocks,    *)
(* positions naming the method or another one (inlined code), in two     *)
(* files and on two lines.                                                *)
(***************************************************************************)
EXTENDS InsertDebugInfo

MCPositions == [method : {"self", "other"}, file : {"A", "B"}, line : {1, 2}]

MCEntryBlocks ==
    { <<Param, Op>>, <<Op>>, <<Param>> }
    \cup { <<Param, PosItem(p), Op>> : p \in MCPositions }
    \cup { <<Param, Op, PosItem(p)>> : p \in MCPositions }

MCLaterPositions == BoundedSeq(MCPositions, 2)

=============================================================================

------------------------ MODULE MCReferenceResolver ------------------------
(***************************************************************************)
(* ReferenceResolver over every past_refs and inlinable_resources on four *)
(* ids and two values: chains of length up to four, cycles through one to *)
(* four ids, chains into cycles, dead ends, and ids that are both         *)
(* redirected and already resolved.                                       *)
(***************************************************************************)
EXTENDS ReferenceResolver

MCIds == 1..4
CONSTANTS x, y

MCVals == {x, y}

=============================================================================

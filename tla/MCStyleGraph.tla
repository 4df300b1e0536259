---------------------------- MODULE MCStyleGraph ----------------------------
(***************************************************************************)
(* StyleGraph over every style map on three ids with one or two           *)
(* configurations each, parents among 0, the three ids and one platform   *)
(* style: self-parents, cycles, parents outside the table, two            *)
(* configurations with the same or different parents.                     *)
(***************************************************************************)
EXTENDS StyleGraph

MCIds == {1, 2, 3}
MCOtherIds == {9}
MCMaxConfigs == 2

=============================================================================

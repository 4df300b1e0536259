----------------------------- MODULE StyleGraph -----------------------------
(***************************************************************************)
(* ResourceTableFile::load_style_info and the StyleInfo queries           *)
(* (src/libredex/RedexResources.cpp).  The build is two loops over the    *)
(* style map: one vertex per style id, then, for every definition of      *)
(* every id with a parent, an edge parent -> id when the parent has a     *)
(* vertex.  Each loop iteration is one step, taken in any order, as the   *)
(* map's iteration order is not something the result may depend on.      *)
(* A vertex is named by its id (id_to_vertex is one to one); the edges    *)
(* are a bag, as the boost adjacency list keeps parallel edges.  A        *)
(* definition is abstracted to its parent id; 0 is "no parent".           *)
(***************************************************************************)
EXTENDS Naturals, Sequences, FiniteSets, Bags, BagsExt, SequencesExt, TLC

CONSTANTS
    Ids,          \* style ids that may be keys of the style map
    OtherIds,     \* parent ids that are never keys (platform styles)
    MaxConfigs    \* bound on the definitions of one id (configurations)

ASSUME 0 \notin Ids \cup OtherIds /\ Ids \cap OtherIds = {}

Parents == {0} \cup Ids \cup OtherIds

\* Every style map with keys among Ids and 1..MaxConfigs definitions each.
StyleMaps ==
    UNION { [K -> SeqOf(Parents, MaxConfigs) \ {<< >>}] : K \in SUBSET Ids }

VARIABLES
    styles,       \* style_info.styles = get_style_map()
    vertices,     \* the ids added as vertices (added_nodes)
    edges,        \* bag of <<parent, child>> edges of style_info.graph
    toAdd,        \* keys the first loop has not reached
    toLink,       \* <<id, index>> definitions the second loop has not reached
    built         \* load_style_info has returned

vars == <<styles, vertices, edges, toAdd, toLink, built>>

TypeOK ==
    /\ styles \in StyleMaps
    /\ vertices \subseteq Ids
    /\ IsABag(edges) /\ BagToSet(edges) \subseteq Ids \X Ids
    /\ toAdd \subseteq DOMAIN styles
    /\ toLink \subseteq (DOMAIN styles) \X (1..MaxConfigs)
    /\ built \in BOOLEAN

\* The <<id, index>> of every definition of a style map.
Definitions(S) == { d \in (DOMAIN S) \X (1..MaxConfigs) : d[2] <= Len(S[d[1]]) }

Init ==
    /\ styles \in StyleMaps
    /\ vertices = {}
    /\ edges = EmptyBag
    /\ toAdd = DOMAIN styles
    /\ toLink = Definitions(styles)
    /\ built = FALSE

\* boost::add_vertex(Node{id}); added_nodes.emplace(id, v)
AddVertex(id) ==
    /\ id \in toAdd
    /\ toAdd' = toAdd \ {id}
    /\ vertices' = vertices \cup {id}
    /\ UNCHANGED <<styles, edges, toLink, built>>

\* Mutant: edges are linked while vertices are still being added.
VerticesAddedAnyTime == TRUE

\* The second loop starts after the first has added every vertex.
VerticesAdded == toAdd = {}

\* Mutant: the added_nodes lookup is skipped.
LinkDefinitionAnyParent(id, i) ==
    /\ VerticesAdded
    /\ <<id, i>> \in toLink
    /\ toLink' = toLink \ {<<id, i>>}
    /\ LET parent == styles[id][i]
       IN  edges' = IF parent # 0 THEN BagAdd(edges, <<parent, id>>) ELSE edges
    /\ UNCHANGED <<styles, vertices, toAdd, built>>

\* One definition: if style.parent != 0 and added_nodes has the parent,
\* boost::add_edge(parent, id).
LinkDefinition(id, i) ==
    /\ VerticesAdded
    /\ <<id, i>> \in toLink
    /\ toLink' = toLink \ {<<id, i>>}
    /\ LET parent == styles[id][i]
       IN  edges' = IF parent # 0 /\ parent \in vertices
                    THEN BagAdd(edges, <<parent, id>>)
                    ELSE edges
    /\ UNCHANGED <<styles, vertices, toAdd, built>>

\* style_info.id_to_vertex = added_nodes; return style_info.
Return ==
    /\ ~built
    /\ toAdd = {}
    /\ toLink = {}
    /\ built' = TRUE
    /\ UNCHANGED <<styles, vertices, edges, toAdd, toLink>>

\* The graph is read-only from here on.
Terminated ==
    /\ built
    /\ UNCHANGED vars

Next ==
    \/ \E id \in Ids : AddVertex(id)
    \/ \E id \in Ids, i \in 1..MaxConfigs : LinkDefinition(id, i)
    \/ Return
    \/ Terminated

Spec == Init /\ [][Next]_vars

-----------------------------------------------------------------------------
(* The queries, on the graph as built.                                    *)

\* Mutant: the sources of edges taken for the vertices with incoming edges.
GetRootsBySource == { v \in vertices : ~\E e \in BagToSet(edges) : e[1] = v }

\* get_roots: the vertices no edge points to.
GetRoots == { v \in vertices : ~\E e \in BagToSet(edges) : e[2] = v }

\* get_children: the targets of the out-edges of id's vertex, one per edge.
GetChildren(id) ==
    [c \in { e[2] : e \in { f \in BagToSet(edges) : f[1] = id } } |-> edges[<<id, c>>]]

\* Mutant: the first definition's parent whenever there is one.
GetUnambiguousParentFirst(id) ==
    IF id \notin DOMAIN styles THEN {} ELSE {styles[id][1]}

\* get_unambiguous_parent: none unless id has exactly one definition, then
\* that definition's parent (0 included), as a set of at most one id.
GetUnambiguousParent(id) ==
    IF id \notin DOMAIN styles \/ Len(styles[id]) # 1 THEN {}
    ELSE {styles[id][1]}

\* Mutant: only vertices with out-edges are emitted when excluding.
DotNodesOutboundOnly(exclude) ==
    { v \in vertices : ~exclude \/ \E e \in BagToSet(edges) : e[1] = v }

\* print_as_dot's ordered_nodes: every target of an out-edge, and every
\* vertex unless exclude_nodes_with_no_edges is set and it has no out-edge.
DotNodes(exclude) ==
    { e[2] : e \in BagToSet(edges) } \cup
    { v \in vertices : ~exclude \/ \E e \in BagToSet(edges) : e[1] = v }

\* print_as_dot's ordered_parents, flattened: one line per distinct edge.
DotEdges == BagToSet(edges)

-----------------------------------------------------------------------------
(***************************************************************************)
(* Reference (spec.md 3, StyleGraph): one edge per definition whose       *)
(* parent is non-zero and a key of the table.                             *)
(***************************************************************************)
ExpectedEdges ==
    LET linked == { d \in Definitions(styles) :
                      LET p == styles[d[1]][d[2]] IN p # 0 /\ p \in DOMAIN styles }
    IN  [e \in { <<styles[d[1]][d[2]], d[1]>> : d \in linked } |->
            Cardinality({ d \in linked : <<styles[d[1]][d[2]], d[1]>> = e })]

\* A style with no definition whose parent is in the table.
KnownParentless ==
    { k \in DOMAIN styles :
        \A i \in 1..Len(styles[k]) : styles[k][i] = 0 \/ styles[k][i] \notin DOMAIN styles }

-----------------------------------------------------------------------------
(* Properties, on the returned StyleInfo.                                 *)

\* Whatever order the two loops visit the style map in, the graph has one
\* vertex per style id and one edge per definition with a parent in the
\* table; an edge is never lost because the parent's vertex came later in
\* the iteration.
GraphMatchesStyleTable ==
    built => vertices = DOMAIN styles /\ edges = ExpectedEdges

\* get_roots returns exactly the styles none of whose configurations
\* inherits from a style of the table.
RootsAreParentless ==
    built => GetRoots = KnownParentless

\* The DOT text never names an edge endpoint it has not declared as a node,
\* and with exclude_nodes_with_no_edges only the styles with no edge at
\* all, in or out, are left out.
DotNodesCoverEdges ==
    built =>
        \A exclude \in BOOLEAN :
            /\ \A e \in DotEdges : e[1] \in DotNodes(exclude) /\ e[2] \in DotNodes(exclude)
            /\ exclude => DotNodes(TRUE) = vertices \ { v \in vertices :
                              ~\E e \in DotEdges : v \in {e[1], e[2]} }

\* When get_unambiguous_parent names a parent that is a style of the
\* table, the graph agrees: the style is a child of that parent and of no
\* other style.
UnambiguousParentAgreesWithGraph ==
    built =>
        \A k \in DOMAIN styles, p \in Ids :
            GetUnambiguousParent(k) = {p} /\ p \in vertices =>
                /\ k \in DOMAIN GetChildren(p)
                /\ \A q \in vertices \ {p} : k \notin DOMAIN GetChildren(q)

=============================================================================

------------------------- MODULE ReferenceResolver -------------------------
(***************************************************************************)
(* resources_inlining_find_refs (src/libredex/RedexResources.cpp): for    *)
(* every (id, ref_id) of past_refs, in the unspecified order of an        *)
(* UnorderedMap, follow ref_id -> past_refs[ref_id] -> ... until an id of *)
(* inlinable_resources is met (then id gets its value, by insert, which   *)
(* keeps an entry id already has), an id is met twice (a cycle) or an id  *)
(* has no redirect (a dead end).  inlinable_resources grows while the     *)
(* loop runs, so a later chain may stop at an id resolved by an earlier   *)
(* one.  One action per branch of the inner loop's body.                  *)
(***************************************************************************)
EXTENDS Naturals, FiniteSets, Functions, TLC

CONSTANTS
    Ids,      \* resource ids (uint32_t)
    Vals      \* InlinableValue

\* Partial functions from S to T, as UnorderedMaps are.
PartialFunctions(S, T) == UNION { [D -> T] : D \in SUBSET S }

VARIABLES
    pastRefs,     \* past_refs: id -> the id it redirects to
    original,     \* history: inlinable_resources as the call found it
    inlinable,    \* *inlinable_resources
    pending,      \* entries of past_refs the outer loop has not reached
    id,           \* ref.first of the current entry
    current,      \* current_ref_id
    visited,      \* visited_refs
    pc            \* "outer", "chain" or "done"

vars == <<pastRefs, original, inlinable, pending, id, current, visited, pc>>

TypeOK ==
    /\ pastRefs \in PartialFunctions(Ids, Ids)
    /\ original \in PartialFunctions(Ids, Vals)
    /\ inlinable \in PartialFunctions(Ids, Vals)
    /\ pending \subseteq DOMAIN pastRefs
    /\ id \in Ids
    /\ current \in Ids
    /\ visited \subseteq Ids
    /\ pc \in {"outer", "chain", "done"}

Init ==
    /\ pastRefs \in PartialFunctions(Ids, Ids)
    /\ inlinable \in PartialFunctions(Ids, Vals)
    /\ original = inlinable
    /\ pending = DOMAIN pastRefs
    /\ id = CHOOSE i \in Ids : TRUE
    /\ current = id
    /\ visited = {}
    /\ pc = "outer"

\* The next entry (id, ref_id) of past_refs; a fresh visited_refs.
NextRef ==
    /\ pc = "outer"
    /\ \E i \in pending :
        /\ pending' = pending \ {i}
        /\ id' = i
        /\ current' = pastRefs[i]
    /\ visited' = {}
    /\ pc' = "chain"
    /\ UNCHANGED <<pastRefs, original, inlinable>>

\* Mutant: no visited_refs check.
RevisitedUnchecked == FALSE

\* !visited_refs.insert(current_ref_id).second
Revisited == current \in visited

\* A cycle: break.
CycleDetected ==
    /\ pc = "chain"
    /\ Revisited
    /\ pc' = "outer"
    /\ UNCHANGED <<pastRefs, original, inlinable, pending, id, current, visited>>

\* Mutant: (*inlinable_resources)[id] = value, overwriting an entry.
FoundResolvedOverwrite ==
    /\ pc = "chain"
    /\ ~Revisited
    /\ current \in DOMAIN inlinable
    /\ visited' = visited \cup {current}
    /\ inlinable' = [i \in DOMAIN inlinable \cup {id} |->
                        IF i = id THEN inlinable[current] ELSE inlinable[i]]
    /\ pc' = "outer"
    /\ UNCHANGED <<pastRefs, original, pending, id, current>>

\* Mutant: the id met is stored instead of its value.
FoundResolvedStoresId ==
    /\ pc = "chain"
    /\ ~Revisited
    /\ current \in DOMAIN inlinable
    /\ visited' = visited \cup {current}
    /\ inlinable' = IF id \in DOMAIN inlinable
                    THEN inlinable
                    ELSE inlinable @@ (id :> current)
    /\ pc' = "outer"
    /\ UNCHANGED <<pastRefs, original, pending, id, current>>

\* current_ref_id has a value: inlinable_resources->insert({id, value}),
\* which leaves an existing entry for id as it is; break.
FoundResolved ==
    /\ pc = "chain"
    /\ ~Revisited
    /\ current \in DOMAIN inlinable
    /\ visited' = visited \cup {current}
    /\ inlinable' = IF id \in DOMAIN inlinable
                    THEN inlinable
                    ELSE inlinable @@ (id :> inlinable[current])
    /\ pc' = "outer"
    /\ UNCHANGED <<pastRefs, original, pending, id, current>>

\* current_ref_id has no value and no redirect: break.
DeadEnd ==
    /\ pc = "chain"
    /\ ~Revisited
    /\ current \notin DOMAIN inlinable
    /\ current \notin DOMAIN pastRefs
    /\ visited' = visited \cup {current}
    /\ pc' = "outer"
    /\ UNCHANGED <<pastRefs, original, inlinable, pending, id, current>>

\* current_ref_id = ref_it->second
FollowRef ==
    /\ pc = "chain"
    /\ ~Revisited
    /\ current \notin DOMAIN inlinable
    /\ current \in DOMAIN pastRefs
    /\ visited' = visited \cup {current}
    /\ current' = pastRefs[current]
    /\ UNCHANGED <<pastRefs, original, inlinable, pending, id, pc>>

\* The outer loop has visited every entry: return.
Finish ==
    /\ pc = "outer"
    /\ pending = {}
    /\ pc' = "done"
    /\ UNCHANGED <<pastRefs, original, inlinable, pending, id, current, visited>>

Terminated ==
    /\ pc = "done"
    /\ UNCHANGED vars

Next ==
    \/ NextRef
    \/ CycleDetected
    \/ FoundResolved
    \/ DeadEnd
    \/ FollowRef
    \/ Finish
    \/ Terminated

\* One thread runs the loop to its end.
Spec == Init /\ [][Next]_vars /\ WF_vars(Next)

-----------------------------------------------------------------------------
(***************************************************************************)
(* Reference: the value an id of past_refs stands for, from the map as    *)
(* the call found it: the value of the first id along its chain that has *)
(* one, if the chain gets there before it repeats or ends.               *)
(***************************************************************************)
RECURSIVE ChainValue(_, _)
ChainValue(c, seen) ==
    IF c \in seen THEN {}
    ELSE IF c \in DOMAIN original THEN {original[c]}
    ELSE IF c \in DOMAIN pastRefs THEN ChainValue(pastRefs[c], seen \cup {c})
    ELSE {}

\* The map the call must leave: the values it found, and for every other
\* id of past_refs the value its chain leads to, if any.
Resolved ==
    LET new == { i \in DOMAIN pastRefs \ DOMAIN original :
                    ChainValue(pastRefs[i], {}) # {} }
    IN  [i \in DOMAIN original \cup new |->
            IF i \in DOMAIN original THEN original[i]
            ELSE CHOOSE v \in ChainValue(pastRefs[i], {}) : TRUE]

-----------------------------------------------------------------------------
(* Properties.                                                            *)

\* Whatever order the UnorderedMap yields the entries in, and although
\* later chains stop at ids that earlier ones resolved, the call leaves
\* every id resolved to the value its own chain leads to in the map as it
\* was found, keeps the values that were there, and adds nothing for an id
\* whose chain cycles or dead-ends.
ResolvesToChainValue ==
    pc = "done" => inlinable = Resolved

\* The call returns on every input, cyclic redirects included: visited_refs
\* stops each chain.
Terminates == <>(pc = "done")

=============================================================================

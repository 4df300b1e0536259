-------------------------- MODULE InsertDebugInfo --------------------------
(***************************************************************************)
(* InsertDebugInfoPass::run_pass                                          *)
(* (src/opt/insert_debug_info/InsertDebugInfoPass.cpp): for every method  *)
(* with code, in parallel, entry_cover::maybe_insert decides whether the  *)
(* entry block lacks a position before its first real instruction and, if *)
(* so, copies the smallest-line position of the method (positions naming *)
(* the method first, then any) in front of it; when there is no position *)
(* at all, insert_debug_info adds a debug item and an artificial one.     *)
(* The methods share only the four atomic counters, so one method is one  *)
(* step per outcome of the handler.  The pass may be run again on its     *)
(* own output, up to MaxRuns times; an always_assert that fails aborts    *)
(* the process, after which nothing happens.                              *)
(*                                                                         *)
(* The code of a method is its entry block, a sequence of items           *)
(* (load-param, other opcode, position), followed by the positions of the *)
(* other blocks in cfg.blocks_view() order.                               *)
(***************************************************************************)
EXTENDS Naturals, Sequences, SequencesExt, FiniteSets

CONSTANTS
    Methods,        \* the methods of the scope with code
    EntryBlocks,    \* the entry blocks a method may have
    LaterPositions, \* the position lists of the other blocks
    Positions,      \* the DexPositions, [method, file, line]
    MaxRuns         \* bound on the runs of the pass

Param == [kind |-> "param"]
Op    == [kind |-> "op"]
PosItem(p) == [kind |-> "pos", pos |-> p]

\* new DexPosition(show_deobfuscated(method), "UnknownSource", 0)
ArtificialPosition == [method |-> "self", file |-> "UnknownSource", line |-> 0]

Results == {"kNotNeeded", "kDone", "kFileAmbiguity", "kNoPosition"}

\* needs_injection: scanning the entry block, a position comes first
\* (false) or an opcode that is not a load-param (true); true at the end.
RECURSIVE NeedsInjectionFrom(_, _)
NeedsInjectionFrom(e, i) ==
    IF i > Len(e) THEN TRUE
    ELSE IF e[i].kind = "pos" THEN FALSE
    ELSE IF e[i].kind = "op" THEN TRUE
    ELSE NeedsInjectionFrom(e, i + 1)

NeedsInjection(e) == NeedsInjectionFrom(e, 1)

\* Every position of the method in blocks_view() order.
AllPositions(e, later) ==
    [i \in 1..Len(SelectSeq(e, LAMBDA x : x.kind = "pos")) |->
        SelectSeq(e, LAMBDA x : x.kind = "pos")[i].pos] \o later

\* The FindResultType variant: a position, std::monostate or kFileAmbiguity.
Found(p)  == [status |-> "found", pos |-> p]
NoneFound == [status |-> "none"]
Ambiguous == [status |-> "kFileAmbiguity"]

\* Mutant: the largest line is kept.
RECURSIVE FindFromLargest(_, _, _, _)
FindFromLargest(ps, i, best, matching) ==
    IF i > Len(ps) THEN best
    ELSE LET p == ps[i] IN
         IF matching /\ p.method # "self" THEN FindFromLargest(ps, i + 1, best, matching)
         ELSE IF best.status = "none" THEN FindFromLargest(ps, i + 1, Found(p), matching)
         ELSE IF p.file # best.pos.file THEN Ambiguous
         ELSE FindFromLargest(ps, i + 1, IF p.line > best.pos.line THEN Found(p) ELSE best, matching)

\* find_smallest_pos_filtered from position i on, with the best position
\* so far (NoneFound before the first); matching restricts the positions to
\* those whose method is show(method).
RECURSIVE FindFrom(_, _, _, _)
FindFrom(ps, i, best, matching) ==
    IF i > Len(ps) THEN best
    ELSE LET p == ps[i] IN
         IF matching /\ p.method # "self" THEN FindFrom(ps, i + 1, best, matching)
         ELSE IF best.status = "none" THEN FindFrom(ps, i + 1, Found(p), matching)
         ELSE IF p.file # best.pos.file THEN Ambiguous
         ELSE FindFrom(ps, i + 1, IF p.line < best.pos.line THEN Found(p) ELSE best, matching)

\* The smallest_pos lambda: the matching search if it found a position,
\* otherwise the generic one.
SmallestPos(ps) ==
    LET byMethod == FindFrom(ps, 1, NoneFound, TRUE)
    IN  IF byMethod.status = "found" THEN byMethod ELSE FindFrom(ps, 1, NoneFound, FALSE)

\* The index of get_first_non_param_loading_insn (Len + 1 if none).
FirstNonParam(e) ==
    IF \E i \in 1..Len(e) : e[i].kind # "param"
    THEN CHOOSE i \in 1..Len(e) : e[i].kind # "param" /\ \A j \in 1..i - 1 : e[j].kind = "param"
    ELSE Len(e) + 1

\* A position inserted in front of the item at index k.
InsertPosition(e, k, p) == SubSeq(e, 1, k - 1) \o << PosItem(p) >> \o SubSeq(e, k, Len(e))

VARIABLES
    entry,          \* entry[m]: m's entry block
    later,          \* later[m]: the positions of m's other blocks
    debugItem,      \* debugItem[m]: code.get_debug_item() is set
    result,         \* result[m]: maybe_insert's CoverResult, "none" before
    todo,           \* the methods walk::parallel::code has not finished
    patchedMethod, entryInjected, entryInjectionFailed, entryInjectionNoPosition,
    runs,           \* the runs of run_pass so far
    aborted         \* an always_assert has failed

counters == <<patchedMethod, entryInjected, entryInjectionFailed, entryInjectionNoPosition>>
pass == <<runs, aborted>>
vars == <<entry, later, debugItem, result, todo, counters, pass>>

\* A method that has a debug item has a position: the assumption of
\* always_assert_log in insert_debug_info.
Init ==
    /\ entry \in [Methods -> EntryBlocks]
    /\ later \in [Methods -> LaterPositions]
    /\ debugItem \in [Methods -> BOOLEAN]
    /\ \A m \in Methods : debugItem[m] => AllPositions(entry[m], later[m]) # << >>
    /\ result = [m \in Methods |-> "none"]
    /\ todo = Methods
    /\ patchedMethod = 0 /\ entryInjected = 0
    /\ entryInjectionFailed = 0 /\ entryInjectionNoPosition = 0
    /\ runs = 1 /\ aborted = FALSE

\* The walk has m left to do and the process is alive.
Running(m) == ~aborted /\ m \in todo

\* needs_injection is false: return kNotNeeded; nothing is counted.
NotNeeded(m) ==
    /\ Running(m)
    /\ ~NeedsInjection(entry[m])
    /\ result' = [result EXCEPT ![m] = "kNotNeeded"]
    /\ todo' = todo \ {m}
    /\ UNCHANGED <<entry, later, debugItem, counters, pass>>

\* A position was found: a copy goes in front of the first instruction
\* that is not a load-param; entry_injected++.
CoverDone(m) ==
    /\ Running(m)
    /\ NeedsInjection(entry[m])
    /\ SmallestPos(AllPositions(entry[m], later[m])).status = "found"
    /\ entry' = [entry EXCEPT ![m] = InsertPosition(entry[m], FirstNonParam(entry[m]),
                                      SmallestPos(AllPositions(entry[m], later[m])).pos)]
    /\ result' = [result EXCEPT ![m] = "kDone"]
    /\ todo' = todo \ {m}
    /\ entryInjected' = entryInjected + 1
    /\ UNCHANGED <<later, debugItem, patchedMethod, entryInjectionFailed,
                   entryInjectionNoPosition, pass>>

\* Positions in two files: kFileAmbiguity; entry_injection_failed++.
CoverFileAmbiguity(m) ==
    /\ Running(m)
    /\ NeedsInjection(entry[m])
    /\ SmallestPos(AllPositions(entry[m], later[m])) = Ambiguous
    /\ result' = [result EXCEPT ![m] = "kFileAmbiguity"]
    /\ todo' = todo \ {m}
    /\ entryInjectionFailed' = entryInjectionFailed + 1
    /\ UNCHANGED <<entry, later, debugItem, patchedMethod, entryInjected,
                   entryInjectionNoPosition, pass>>

\* Mutant: the artificial position goes in front of the whole block.
InsertDebugInfoFirst(m) ==
    /\ Running(m)
    /\ NeedsInjection(entry[m])
    /\ SmallestPos(AllPositions(entry[m], later[m])) = NoneFound
    /\ ~debugItem[m]
    /\ debugItem' = [debugItem EXCEPT ![m] = TRUE]
    /\ entry' = [entry EXCEPT ![m] = InsertPosition(entry[m], 1, ArtificialPosition)]
    /\ result' = [result EXCEPT ![m] = "kNoPosition"]
    /\ todo' = todo \ {m}
    /\ entryInjectionNoPosition' = entryInjectionNoPosition + 1
    /\ patchedMethod' = patchedMethod + 1
    /\ UNCHANGED <<later, entryInjected, entryInjectionFailed, pass>>

\* Mutant: insert_debug_info sets the debug item but inserts no position.
InsertDebugInfoNoPosition(m) ==
    /\ Running(m)
    /\ NeedsInjection(entry[m])
    /\ SmallestPos(AllPositions(entry[m], later[m])) = NoneFound
    /\ result' = [result EXCEPT ![m] = "kNoPosition"]
    /\ entryInjectionNoPosition' = entryInjectionNoPosition + 1
    /\ patchedMethod' = patchedMethod + 1
    /\ IF debugItem[m]
       THEN aborted' = TRUE /\ UNCHANGED <<debugItem, todo>>
       ELSE /\ debugItem' = [debugItem EXCEPT ![m] = TRUE]
            /\ todo' = todo \ {m}
            /\ UNCHANGED aborted
    /\ UNCHANGED <<entry, later, entryInjected, entryInjectionFailed, runs>>

\* No position at all: kNoPosition, entry_injection_no_position++, then
\* patched_method++ and insert_debug_info.  Its always_assert_log aborts
\* the process if the method has a debug item; otherwise a new debug item
\* and the artificial position after the last load-param (before the
\* first instruction when there is none).
InsertDebugInfo(m) ==
    /\ Running(m)
    /\ NeedsInjection(entry[m])
    /\ SmallestPos(AllPositions(entry[m], later[m])) = NoneFound
    /\ result' = [result EXCEPT ![m] = "kNoPosition"]
    /\ entryInjectionNoPosition' = entryInjectionNoPosition + 1
    /\ patchedMethod' = patchedMethod + 1
    /\ IF debugItem[m]
       THEN /\ aborted' = TRUE
            /\ UNCHANGED <<entry, debugItem, todo>>
       ELSE /\ debugItem' = [debugItem EXCEPT ![m] = TRUE]
            /\ entry' = [entry EXCEPT ![m] = InsertPosition(entry[m], FirstNonParam(entry[m]),
                                                      ArtificialPosition)]
            /\ todo' = todo \ {m}
            /\ UNCHANGED aborted
    /\ UNCHANGED <<later, entryInjected, entryInjectionFailed, runs>>

\* run_pass is called again on the output of the last run: fresh
\* counters, every method with code walked again.
RunPassAgain ==
    /\ ~aborted /\ todo = {} /\ runs < MaxRuns
    /\ runs' = runs + 1
    /\ todo' = Methods
    /\ result' = [m \in Methods |-> "none"]
    /\ patchedMethod' = 0 /\ entryInjected' = 0
    /\ entryInjectionFailed' = 0 /\ entryInjectionNoPosition' = 0
    /\ UNCHANGED <<entry, later, debugItem, aborted>>

\* The last run is over and its metrics are set, or the process aborted.
Terminated ==
    /\ todo = {} \/ aborted
    /\ UNCHANGED vars

Next ==
    \/ \E m \in Methods : NotNeeded(m) \/ CoverDone(m) \/ CoverFileAmbiguity(m)
                          \/ InsertDebugInfo(m)
    \/ RunPassAgain
    \/ Terminated

Spec == Init /\ [][Next]_vars

-----------------------------------------------------------------------------
(***************************************************************************)
(* Reference: the positions a copy may be taken from.  Those naming the   *)
(* method, if they are all in one file; otherwise all of them.            *)
(***************************************************************************)
FilesOf(S) == { p.file : p \in S }

PositionSet(m) == Range(AllPositions(entry[m], later[m]))

Candidates(m) ==
    LET own == { p \in PositionSet(m) : p.method = "self" }
    IN  IF own # {} /\ Cardinality(FilesOf(own)) = 1 THEN own ELSE PositionSet(m)

\* The entry block starts with its load-params and has a position before
\* its first other instruction.
EntryCovered(e) ==
    /\ ~NeedsInjection(e)
    /\ \A i, j \in 1..Len(e) : i < j /\ e[j].kind = "param" => e[i].kind = "param"

(* Properties.                                                            *)

\* After the pass, every method whose positions are not split over files
\* has its entry covered by a position placed after the load-params, so
\* that running the pass again finds nothing to do; a method with
\* positions in two files is left as it was.
EntryCoveredAfterPass ==
    \A m \in Methods \ todo :
        IF result[m] = "kFileAmbiguity" THEN Cardinality(FilesOf(PositionSet(m))) > 1
        ELSE EntryCovered(entry[m])

\* The position copied to the entry is one of the smallest-line positions
\* of the method itself when those are in one file, of all its positions
\* otherwise, and only when these are in one file.
CoverIsSmallestPosition ==
    \A m \in Methods :
        result[m] = "kDone" =>
            /\ Cardinality(FilesOf(Candidates(m))) = 1
            /\ \E q \in Candidates(m) :
                 /\ \A r \in Candidates(m) : q.line <= r.line
                 /\ PosItem(q) = entry[m][FirstNonParam(entry[m])]

\* A run of the pass on its own output has nothing to do: every method
\* that needed a cover got one, and every method that had no position got
\* a debug item together with a position, so the second run neither
\* copies nor inserts and never reaches the always_assert of
\* insert_debug_info, which would abort.
PassIdempotent ==
    /\ ~aborted
    /\ runs > 1 => \A m \in Methods : result[m] \in {"none", "kNotNeeded", "kFileAmbiguity"}

=============================================================================

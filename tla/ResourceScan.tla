---------------------------- MODULE ResourceScan ----------------------------
(***************************************************************************)
(* AndroidResources::collect_layout_classes_and_attributes                *)
(* (src/libredex/RedexResources.cpp): a self-feeding workqueue_run whose   *)
(* seed task "" makes one worker list the resource directories and push   *)
(* one task per XML file (find_resource_xml_files) while the other        *)
(* workers already drain them; each file task extracts local results and  *)
(* merges them into the shared set and multimap under out_mutex; after    *)
(* the queue has drained, references are resolved against the resource    *)
(* table.                                                                  *)
(*                                                                         *)
(* The workqueue itself (sparta WorkQueue.h) is not in this repository:   *)
(* its semantics (a task is run once, by one worker; the run returns when *)
(* no task is queued and no worker is busy) are taken from spec.md 4.1.   *)
(* The per-file extractor and the resource table are external and given   *)
(* as constant functions.                                                  *)
(***************************************************************************)
EXTENDS Naturals, Sequences, FiniteSets, Bags, SequencesExt, FiniteSetsExt

CONSTANTS
    Workers,      \* min(default_num_threads(), kReadXMLThreads) threads
    Files,        \* the entries found under the res directories
    Path,         \* Path[f]: directory names between the res dir and f
    IsXml,        \* IsXml[f]: f is a regular file ending in ".xml"
    Strs,         \* literal strings of StringOrReference
    Refs,         \* resource references of StringOrReference
    AttrNames,    \* attributes_to_read
    FileClasses,  \* collect_layout_classes_and_attributes_for_file: classes
    FileAttrs,    \* ... and the (attribute, value) pairs of one file
    ResTable      \* resolve_string_values_for_resource_reference

Values == Strs \cup Refs

\* The dispatcher task: workqueue_run is seeded with std::vector{""}.
Seed == ""

ASSUME
    /\ Workers # {}
    /\ Seed \notin Files
    /\ Path \in [Files -> Seq(Seq(STRING))]
    /\ IsXml \in [Files -> BOOLEAN]
    /\ FileClasses \in [Files -> SUBSET Values]
    /\ FileAttrs \in [Files -> SUBSET (AttrNames \X Values)]
    /\ ResTable \in [Refs -> SUBSET Strs]

(***************************************************************************)
(* Directory names are sequences of name parts, so that "starts with" of  *)
(* str.find(prefix) == 0 is IsPrefix: <<"color", "ful">> starts with      *)
(* <<"color">>, as "colorful" starts with "color".                        *)
(***************************************************************************)
LayoutSkipDirsPrefixes == { <<"anim">>, <<"color">>, <<"raw">> }

SkippedDir(d) == \E p \in LayoutSkipDirsPrefixes : IsPrefix(p, d)

\* find_resource_xml_files: the top-level .xml files of a res directory and
\* the .xml files one level down in a subdirectory that is not skipped;
\* the subdirectory listing is not recursive.
IsResourceXml(f) ==
    /\ IsXml[f]
    /\ \/ Len(Path[f]) = 0
       \/ Len(Path[f]) = 1 /\ ~SkippedDir(Path[f][1])

\* Mutant: every value emplaced as it is, is_reference() not asked.
ResolveValueUnchecked(v) == {v}

\* A StringOrReference as the literals it stands for: a literal is itself,
\* a reference whatever the resource table gives (maybe nothing).
ResolveValue(v) == IF v \in Refs THEN ResTable[v] ELSE {v}

\* The attribute multimap after resolution: one (name, s) entry for every
\* entry (name, v) and every literal s of v.
ResolvedBag(B) ==
    [p \in UNION { { <<q[1], s>> : s \in ResolveValue(q[2]) } : q \in BagToSet(B) } |->
        MapThenSumSet(LAMBDA q : B[q],
            { q \in BagToSet(B) : q[1] = p[1] /\ p[2] \in ResolveValue(q[2]) })]

\* Sum of the attribute multimaps of a set of files.
AttrsOf(S) ==
    FoldSet(LAMBDA f, acc : acc (+) SetToBag(FileAttrs[f]), EmptyBag, S)

-----------------------------------------------------------------------------
VARIABLES
    queue,        \* tasks pushed and not yet taken by a worker
    pc,           \* pc[w]: "idle", "dispatch", "lock" (waiting), "merge"
    task,         \* task[w]: the file worker w works on
    unlisted,     \* entries the dispatcher's directory iteration has not reached
    snap,         \* snap[w]: the accumulators as worker w read them under the lock
    classes,      \* the shared StringOrReferenceSet
    attributes,   \* the shared unordered_multimap, as a bag of pairs
    outClasses,   \* *out_classes
    outAttributes,\* *out_attributes, as a bag of pairs
    finished,     \* collect_fn has returned
    merged        \* history: the files whose results have been merged

vars == <<queue, pc, task, unlisted, snap, classes, attributes,
          outClasses, outAttributes, finished, merged>>

NoSnap == [cls |-> {}, attrs |-> EmptyBag]

TypeOK ==
    /\ queue \subseteq Files \cup {Seed}
    /\ pc \in [Workers -> {"idle", "dispatch", "lock", "merge"}]
    /\ task \in [Workers -> Files \cup {Seed}]
    /\ unlisted \subseteq Files
    /\ \A w \in Workers : snap[w].cls \subseteq Values
                          /\ IsABag(snap[w].attrs)
    /\ classes \subseteq Values
    /\ IsABag(attributes) /\ BagToSet(attributes) \subseteq AttrNames \X Values
    /\ outClasses \subseteq Strs
    /\ IsABag(outAttributes) /\ BagToSet(outAttributes) \subseteq AttrNames \X Strs
    /\ finished \in BOOLEAN
    /\ merged \subseteq Files

Init ==
    /\ queue = {Seed}
    /\ pc = [w \in Workers |-> "idle"]
    /\ task = [w \in Workers |-> Seed]
    /\ unlisted = {}
    /\ snap = [w \in Workers |-> NoSnap]
    /\ classes = {}
    /\ attributes = EmptyBag
    /\ outClasses = {}
    /\ outAttributes = EmptyBag
    /\ finished = FALSE
    /\ merged = {}

-----------------------------------------------------------------------------
(* The handler on the seed task: input.empty(), find_res_directories().   *)
TakeSeed(w) ==
    /\ pc[w] = "idle"
    /\ Seed \in queue
    /\ queue' = queue \ {Seed}
    /\ pc' = [pc EXCEPT ![w] = "dispatch"]
    /\ task' = [task EXCEPT ![w] = Seed]
    /\ unlisted' = Files
    /\ UNCHANGED <<snap, classes, attributes, outClasses, outAttributes,
                   finished, merged>>

(* One entry of the directory iteration: worker_state->push_task(file)    *)
(* for a resource XML file, nothing for anything else.                    *)
DispatchEntry(w, f) ==
    /\ pc[w] = "dispatch"
    /\ f \in unlisted
    /\ unlisted' = unlisted \ {f}
    /\ queue' = IF IsResourceXml(f) THEN queue \cup {f} ELSE queue
    /\ UNCHANGED <<pc, task, snap, classes, attributes, outClasses,
                   outAttributes, finished, merged>>

(* The dispatcher returns once every directory has been listed.           *)
DispatchDone(w) ==
    /\ pc[w] = "dispatch"
    /\ unlisted = {}
    /\ pc' = [pc EXCEPT ![w] = "idle"]
    /\ UNCHANGED <<queue, task, unlisted, snap, classes, attributes,
                   outClasses, outAttributes, finished, merged>>

(* A file task: the per-file extractor fills local_classes and            *)
(* local_attributes; only a non-empty result goes on to take out_mutex.    *)
TakeFile(w, f) ==
    /\ pc[w] = "idle"
    /\ f \in queue \cap Files
    /\ queue' = queue \ {f}
    /\ task' = [task EXCEPT ![w] = f]
    /\ pc' = [pc EXCEPT ![w] =
                IF FileClasses[f] # {} \/ FileAttrs[f] # {} THEN "lock" ELSE "idle"]
    /\ UNCHANGED <<unlisted, snap, classes, attributes, outClasses,
                   outAttributes, finished, merged>>

\* Mutant: the inserts run without taking out_mutex.
LockFreeUnguarded == TRUE

(* out_mutex is free when no worker is inside the critical section.      *)
LockFree == \A v \in Workers : pc[v] # "merge"

(* std::unique_lock<std::mutex> lock(out_mutex), then the inserts read    *)
(* the shared containers ...                                               *)
LockAndRead(w) ==
    /\ pc[w] = "lock"
    /\ LockFree
    /\ pc' = [pc EXCEPT ![w] = "merge"]
    /\ snap' = [snap EXCEPT ![w] = [cls |-> classes, attrs |-> attributes]]
    /\ UNCHANGED <<queue, task, unlisted, classes, attributes, outClasses,
                   outAttributes, finished, merged>>

(* ... and write them back with the local results added; the lock is      *)
(* released at the end of the scope.                                      *)
MergeAndUnlock(w) ==
    /\ pc[w] = "merge"
    /\ classes' = snap[w].cls \cup FileClasses[task[w]]
    /\ attributes' = snap[w].attrs (+) SetToBag(FileAttrs[task[w]])
    /\ pc' = [pc EXCEPT ![w] = "idle"]
    /\ snap' = [snap EXCEPT ![w] = NoSnap]
    /\ merged' = merged \cup {task[w]}
    /\ UNCHANGED <<queue, task, unlisted, outClasses, outAttributes, finished>>

(* workqueue_run returns when no task is queued and no worker is busy.    *)
WorkQueueDone ==
    /\ queue = {}
    /\ \A v \in Workers : pc[v] = "idle"

\* Mutant: the references are resolved without waiting for the run to end.
ResolveReferencesBeforeJoin ==
    /\ ~finished
    /\ outClasses' = UNION { ResolveValue(v) : v \in classes }
    /\ outAttributes' = ResolvedBag(attributes)
    /\ finished' = TRUE
    /\ UNCHANGED <<queue, pc, task, unlisted, snap, classes, attributes, merged>>

(* After the run: every reference in classes and attributes is replaced   *)
(* by the literals the resource table gives for it.                      *)
ResolveReferences ==
    /\ ~finished
    /\ WorkQueueDone
    /\ outClasses' = UNION { ResolveValue(v) : v \in classes }
    /\ outAttributes' = ResolvedBag(attributes)
    /\ finished' = TRUE
    /\ UNCHANGED <<queue, pc, task, unlisted, snap, classes, attributes, merged>>

\* The caller has its results: nothing is left to do.
Terminated ==
    /\ finished
    /\ UNCHANGED vars

Worker(w) ==
    \/ TakeSeed(w)
    \/ \E f \in Files : DispatchEntry(w, f)
    \/ DispatchDone(w)
    \/ \E f \in Files : TakeFile(w, f)
    \/ LockAndRead(w)
    \/ MergeAndUnlock(w)

Next ==
    \/ \E w \in Workers : Worker(w)
    \/ ResolveReferences
    \/ Terminated

\* Every worker is an OS thread of the pool: none stops while it can run.
Fairness ==
    /\ \A w \in Workers : WF_vars(Worker(w))
    /\ WF_vars(ResolveReferences)

Spec == Init /\ [][Next]_vars /\ Fairness

-----------------------------------------------------------------------------
(***************************************************************************)
(* The files the contract says are read (spec.md 4.6): every XML file     *)
(* under the resource directories, except those in an immediate           *)
(* subdirectory whose name starts with a skipped prefix.                  *)
(***************************************************************************)
ContractFiles ==
    { f \in Files : /\ IsXml[f]
                    /\ Len(Path[f]) > 0 => ~SkippedDir(Path[f][1]) }

Collect == INSTANCE ResourceCollect WITH
    Classes <- UNION { ResolveValue(v) : v \in UNION { FileClasses[f] : f \in ContractFiles } },
    Attributes <- ResolvedBag(AttrsOf(ContractFiles)),
    returned <- finished,
    result <- [classes |-> outClasses, attributes |-> outAttributes]

(***************************************************************************)
(* Properties.                                                            *)
(***************************************************************************)

\* No merge under out_mutex is lost or counted twice: at every moment the
\* shared set and multimap are exactly the union (the multiset sum) of the
\* results of the file tasks that have finished their merge, however the
\* workers' critical sections and the dispatcher's pushes interleave.
NoLostMerge ==
    /\ classes = UNION { FileClasses[f] : f \in merged }
    /\ attributes = AttrsOf(merged)

\* collect_layout_classes_and_attributes implements the collection the
\* spec describes: it returns (workqueue_run does not return while the
\* dispatcher may still push a file), and then reports the resolved
\* classes and attributes of exactly the files the contract names, with
\* an attribute entry for every file it occurs in.
ImplementsCollect == Collect!Spec

=============================================================================

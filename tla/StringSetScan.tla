--------------------------- MODULE StringSetScan ---------------------------
(***************************************************************************)
(* The two scans of src/libredex/RedexResources.cpp that collect one set  *)
(* of strings with the self-feeding workqueue_run:                        *)
(*   AndroidResources::collect_xml_attribute_string_values: the seed task *)
(*   lists the res directories with find_resource_xml_files(dir, {}) (no  *)
(*   skipped prefixes, one level deep) and each file task merges its      *)
(*   values into *out under out_mutex;                                    *)
(*   AndroidResources::get_native_classes: the seed task lists the lib    *)
(*   directories with find_native_library_files (recursive, regular files *)
(*   ending in ".so") and each file task, inside read_file_with_contents's *)
(*   callback, merges extract_classes_from_native_lib's result into       *)
(*   all_classes under out_mutex.                                         *)
(* As in ResourceScan, the workqueue's contract is spec.md 4.1 and the    *)
(* per-file results (the XML extractor's, NativeLibScanner's) are given.  *)
(***************************************************************************)
EXTENDS Naturals, Sequences, FiniteSets

CONSTANTS
    Operation,    \* "attribute_values" or "native_classes"
    Workers,      \* min(default_num_threads(), kReadXMLThreads / kReadNativeThreads)
    Files,        \* the regular files under the scanned directories
    Depth,        \* Depth[f]: number of directories between the root and f
    Suffix,       \* Suffix[f]: "xml", "so" or "other"
    Names,        \* the strings a file can contribute
    FileResult    \* the set the per-file extraction yields for f

Seed == ""

ASSUME
    /\ Operation \in {"attribute_values", "native_classes"}
    /\ Workers # {}
    /\ Seed \notin Files
    /\ Depth \in [Files -> Nat]
    /\ Suffix \in [Files -> {"xml", "so", "other"}]
    /\ FileResult \in [Files -> SUBSET Names]

\* Mutant: the immediate subdirectories are not listed.
IsResourceXmlFileTopLevel(f) == Suffix[f] = "xml" /\ Depth[f] = 0

\* find_resource_xml_files(dir, {}, ...): .xml files at the top of a res
\* directory or in one of its immediate subdirectories.
IsResourceXmlFile(f) == Suffix[f] = "xml" /\ Depth[f] <= 1

\* Mutant: the lib directory is listed with dir_iterator, one level only.
IsNativeLibraryFileTopLevel(f) == Suffix[f] = "so" /\ Depth[f] = 0

\* find_native_library_files: every regular file under the lib directory,
\* at any depth (rdir_iterator), whose name ends in ".so".
IsNativeLibraryFile(f) == Suffix[f] = "so"

\* The files the dispatcher pushes.
IsPushed(f) ==
    IF Operation = "native_classes" THEN IsNativeLibraryFile(f)
    ELSE IsResourceXmlFile(f)

VARIABLES
    queue,        \* tasks pushed and not yet taken
    pc,           \* pc[w]: "idle", "dispatch", "lock" (waiting), "merge"
    task,         \* task[w]: the file worker w works on
    unlisted,     \* files the dispatcher's listing has not reached
    snap,         \* snap[w]: the shared set as w read it under the lock
    shared,       \* *out, or all_classes
    returned,     \* the operation has returned its set
    merged        \* history: files whose merge has completed

vars == <<queue, pc, task, unlisted, snap, shared, returned, merged>>

Init ==
    /\ queue = {Seed}
    /\ pc = [w \in Workers |-> "idle"]
    /\ task = [w \in Workers |-> Seed]
    /\ unlisted = {}
    /\ snap = [w \in Workers |-> {}]
    /\ shared = {}
    /\ returned = FALSE
    /\ merged = {}

\* input.empty(): the dispatcher starts listing the directories.
TakeSeed(w) ==
    /\ pc[w] = "idle"
    /\ Seed \in queue
    /\ queue' = queue \ {Seed}
    /\ pc' = [pc EXCEPT ![w] = "dispatch"]
    /\ task' = [task EXCEPT ![w] = Seed]
    /\ unlisted' = Files
    /\ UNCHANGED <<snap, shared, returned, merged>>

\* One file of the listing: worker_state->push_task(file) if it qualifies.
DispatchEntry(w, f) ==
    /\ pc[w] = "dispatch"
    /\ f \in unlisted
    /\ unlisted' = unlisted \ {f}
    /\ queue' = IF IsPushed(f) THEN queue \cup {f} ELSE queue
    /\ UNCHANGED <<pc, task, snap, shared, returned, merged>>

DispatchDone(w) ==
    /\ pc[w] = "dispatch"
    /\ unlisted = {}
    /\ pc' = [pc EXCEPT ![w] = "idle"]
    /\ UNCHANGED <<queue, task, unlisted, snap, shared, returned, merged>>

\* A file task: the extraction, then the lock only for a non-empty result.
TakeFile(w, f) ==
    /\ pc[w] = "idle"
    /\ f \in queue \cap Files
    /\ queue' = queue \ {f}
    /\ task' = [task EXCEPT ![w] = f]
    /\ pc' = [pc EXCEPT ![w] = IF FileResult[f] # {} THEN "lock" ELSE "idle"]
    /\ UNCHANGED <<unlisted, snap, shared, returned, merged>>

\* Mutant: insert_unordered_iterable runs without out_mutex.
OutMutexUnguarded == TRUE

\* out_mutex is held by a worker in its merge.
OutMutexFree == \A v \in Workers : pc[v] # "merge"

\* std::unique_lock<std::mutex> lock(out_mutex); the insert reads the set ...
LockAndRead(w) ==
    /\ pc[w] = "lock"
    /\ OutMutexFree
    /\ pc' = [pc EXCEPT ![w] = "merge"]
    /\ snap' = [snap EXCEPT ![w] = shared]
    /\ UNCHANGED <<queue, task, unlisted, shared, returned, merged>>

\* ... and writes it back with the file's strings; the lock is released.
MergeAndUnlock(w) ==
    /\ pc[w] = "merge"
    /\ shared' = snap[w] \cup FileResult[task[w]]
    /\ snap' = [snap EXCEPT ![w] = {}]
    /\ pc' = [pc EXCEPT ![w] = "idle"]
    /\ merged' = merged \cup {task[w]}
    /\ UNCHANGED <<queue, task, unlisted, returned>>

\* workqueue_run returns when no task is queued and no worker is busy;
\* then the set is the operation's result.
Return ==
    /\ ~returned
    /\ queue = {}
    /\ \A v \in Workers : pc[v] = "idle"
    /\ returned' = TRUE
    /\ UNCHANGED <<queue, pc, task, unlisted, snap, shared, merged>>

Terminated ==
    /\ returned
    /\ UNCHANGED vars

Worker(w) ==
    \/ TakeSeed(w)
    \/ \E f \in Files : DispatchEntry(w, f)
    \/ DispatchDone(w)
    \/ \E f \in Files : TakeFile(w, f)
    \/ LockAndRead(w)
    \/ MergeAndUnlock(w)

Next ==
    \/ \E w \in Workers : Worker(w)
    \/ Return
    \/ Terminated

\* The workers are OS threads and the caller waits in workqueue_run.
Spec == Init /\ [][Next]_vars /\ \A w \in Workers : WF_vars(Worker(w))
                              /\ WF_vars(Return)

-----------------------------------------------------------------------------
(***************************************************************************)
(* The files spec.md names: "recursive enumeration of regular files by    *)
(* suffix (.xml, .so)" (spec.md 6), every one of them read (4.1).         *)
(***************************************************************************)
ContractFiles ==
    { f \in Files : Suffix[f] = IF Operation = "native_classes" THEN "so" ELSE "xml" }

Collect == INSTANCE ResourceCollect WITH
    Classes <- UNION { FileResult[f] : f \in ContractFiles },
    Attributes <- << >>,
    result <- [classes |-> IF returned THEN shared ELSE {}, attributes |-> << >>]

(* Properties.                                                            *)

\* No insert under out_mutex is lost: at every moment the shared set is
\* exactly the union of the results of the files whose merge is done,
\* whatever order the workers take the lock in and while the dispatcher
\* still pushes.
NoLostMerge == shared = UNION { FileResult[f] : f \in merged }

\* The operation returns, and returns the strings of every file the
\* contract names; workqueue_run does not return while the seed task may
\* still push a file.
ImplementsCollect == Collect!Spec

=============================================================================

---------------------------- MODULE LayoutRename ----------------------------
(***************************************************************************)
(* AndroidResources::rename_classes_in_layouts                            *)
(* (src/libredex/RedexResources.cpp): a self-feeding workqueue_run whose  *)
(* seed task lists, for every res directory, get_xml_files(dir) and       *)
(* pushes each file that is not a raw resource; each file task calls      *)
(* rename_classes_in_layout (external) on its file and only traces a      *)
(* failure.  The tasks share no state, so a task is one step; the seed    *)
(* task's listing is one step per directory and per file.                 *)
(***************************************************************************)
EXTENDS ResTree, Bags

CONSTANTS
    Workers       \* min(default_num_threads(), kReadXMLThreads)

Seed == << >>

ASSUME Workers # {} /\ Seed \notin Files

VARIABLES
    queue,        \* tasks pushed and not yet taken, a bag
    pc,           \* pc[w]: "idle" or "dispatch"
    dirsLeft,     \* the res directories the seed task has not listed
    xmlFiles,     \* the files of get_xml_files(dir) not yet visited
    renamed,      \* renamed[f]: calls of rename_classes_in_layout on f
    failed,       \* the files whose rename returned false
    returned      \* workqueue_run has returned

vars == <<queue, pc, dirsLeft, xmlFiles, renamed, failed, returned>>

Init ==
    /\ queue = SetToBag({Seed})
    /\ pc = [w \in Workers |-> "idle"]
    /\ dirsLeft = {} /\ xmlFiles = {}
    /\ renamed = [f \in Files |-> 0]
    /\ failed = {}
    /\ returned = FALSE

\* input.empty(): the dispatcher.
TakeSeed(w) ==
    /\ pc[w] = "idle" /\ BagIn(Seed, queue)
    /\ queue' = queue (-) SetToBag({Seed})
    /\ pc' = [pc EXCEPT ![w] = "dispatch"]
    /\ dirsLeft' = ResDirs
    /\ UNCHANGED <<xmlFiles, renamed, failed, returned>>

\* auto xml_files = get_xml_files(dir);
ListDir(w, d) ==
    /\ pc[w] = "dispatch" /\ xmlFiles = {} /\ d \in dirsLeft
    /\ dirsLeft' = dirsLeft \ {d}
    /\ xmlFiles' = GetXmlFiles(d)
    /\ UNCHANGED <<queue, pc, renamed, failed, returned>>

\* if (!is_raw_resource(path)) worker_state->push_task(path);
PushFile(w, f) ==
    /\ pc[w] = "dispatch" /\ f \in xmlFiles
    /\ xmlFiles' = xmlFiles \ {f}
    /\ queue' = IF IsRawResource(f) THEN queue ELSE queue (+) SetToBag({f})
    /\ UNCHANGED <<pc, dirsLeft, renamed, failed, returned>>

\* (A plausible slip: the seed task never finishes, its worker stays busy.)
DispatchDoneStaysBusy(w) ==
    /\ pc[w] = "dispatch" /\ dirsLeft = {} /\ xmlFiles = {}
    /\ UNCHANGED vars

DispatchDone(w) ==
    /\ pc[w] = "dispatch" /\ dirsLeft = {} /\ xmlFiles = {}
    /\ pc' = [pc EXCEPT ![w] = "idle"]
    /\ UNCHANGED <<queue, dirsLeft, xmlFiles, renamed, failed, returned>>

\* rename_classes_in_layout(input, rename_map, &num_renamed); a false
\* result is traced as "FAILED" and nothing else.
Rename(w, f) ==
    /\ pc[w] = "idle" /\ f \in Files /\ BagIn(f, queue)
    /\ queue' = queue (-) SetToBag({f})
    /\ renamed' = [renamed EXCEPT ![f] = @ + 1]
    /\ \E ok \in BOOLEAN : failed' = IF ok THEN failed ELSE failed \cup {f}
    /\ UNCHANGED <<pc, dirsLeft, xmlFiles, returned>>

\* workqueue_run returns once no task is queued and no worker is busy.
Return ==
    /\ ~returned /\ queue = EmptyBag
    /\ \A v \in Workers : pc[v] = "idle"
    /\ returned' = TRUE
    /\ UNCHANGED <<queue, pc, dirsLeft, xmlFiles, renamed, failed>>

Terminated ==
    /\ returned
    /\ UNCHANGED vars

Worker(w) ==
    \/ TakeSeed(w)
    \/ \E d \in ResDirs : ListDir(w, d)
    \/ \E f \in Files : PushFile(w, f) \/ Rename(w, f)
    \/ DispatchDone(w)

Next ==
    \/ \E w \in Workers : Worker(w)
    \/ Return
    \/ Terminated

\* A sparta worker thread keeps taking tasks while any is queued, and
\* workqueue_run joins its threads once they are all idle: weak fairness
\* of each worker and of the return.
Spec ==
    /\ Init /\ [][Next]_vars
    /\ \A w \in Workers : WF_vars(Worker(w))
    /\ WF_vars(Return)

-----------------------------------------------------------------------------
(* Properties.                                                            *)

\* When rename_classes_in_layouts returns, every XML file of every res
\* directory, at any depth, that is not of the raw type (raw or any
\* raw-<qualifier> variant) has been rewritten exactly once, whether it
\* was pushed before or after other workers started, and no raw resource
\* has been touched.  A second rewrite with a map a -> b, b -> c would
\* rename a to c.
LayoutsRenamedOnce ==
    returned =>
        \A f \in Files :
            renamed[f] = IF f \in XmlFilesUnderRes /\ ~InRawType(f) THEN 1 ELSE 0

\* rename_classes_in_layouts returns: the seed task ends after its
\* listing, every pushed file is taken by some worker, whether its
\* rewrite failed or not, and the run joins once all workers are idle.
RenameReturns == <>returned
=============================================================================

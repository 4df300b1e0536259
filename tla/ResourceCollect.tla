-------------------------- MODULE ResourceCollect --------------------------
(***************************************************************************)
(* What a collection over the resource directories promises its caller    *)
(* (spec.md 4.1 and 4.6): the call runs to completion and hands back, in  *)
(* one piece, the class names and the attribute multimap of every XML     *)
(* file it is meant to read, with references replaced by the literals the *)
(* resource table gives for them.  Nothing of the result is visible       *)
(* before the call returns, and it never changes afterwards.              *)
(***************************************************************************)

CONSTANTS
    Classes,      \* the class names the call must report
    Attributes    \* the (name, literal) multimap the call must report

VARIABLES
    returned,     \* the call has returned
    result        \* what the caller holds: [classes, attributes]

vars == <<returned, result>>

Init ==
    /\ returned = FALSE
    /\ result = [classes |-> {}, attributes |-> << >>]

\* The whole collection, seen from the caller: one step.
Collect ==
    /\ ~returned
    /\ returned' = TRUE
    /\ result' = [classes |-> Classes, attributes |-> Attributes]

Next == Collect

\* workqueue_run joins its workers: a started scan runs to completion.
Spec == Init /\ [][Next]_vars /\ WF_vars(Collect)

=============================================================================

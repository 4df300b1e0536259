--------------------------- MODULE InlinerConfig ---------------------------
(***************************************************************************)
(* inliner::InlinerConfig::populate (src/libredex/InlinerConfig.cpp).     *)
(* Three walks over the scope, then m_populated = true:                   *)
(*  1. walk::classes: per class, the three class prefix lists, the        *)
(*     no_inline_blocklist (class or method prefixes), the class          *)
(*     no-inline annotation, and the force_inline_prefixes match that     *)
(*     puts the class into classes_matching_force_inline;                 *)
(*  2. walk::parallel::methods: per method not yet dont_inline, its       *)
(*     no-inline or force-inline annotation;                              *)
(*  3. walk::parallel::classes over the matching classes, if any: per     *)
(*     method not dont_inline whose show() starts with a force prefix,    *)
(*     set_force_inline.                                                  *)
(* One step per class or method of a walk, in any order: the walks give   *)
(* no order, and each step touches only its own class's methods.  Names  *)
(* are sequences of characters, so starts_with is IsPrefix.               *)
(***************************************************************************)
EXTENDS Naturals, Sequences, SequencesExt, FiniteSets

CONSTANTS
    Classes,            \* the classes of the scope
    Methods,            \* their methods
    ClassOf,            \* ClassOf[m]: the class that defines m
    ClassName,          \* ClassName[c]: c->get_name()->str()
    Show,               \* Show[m]: show(m), "Lcls;.name:(args)ret"
    ConfigEntries,      \* the strings the config lists may hold
    Blocklist,          \* blocklist
    CallerBlocklist,    \* caller_blocklist
    IntradexAllowlist,  \* intradex_allowlist
    MaxCalls            \* bound on the calls of populate

MethodsOf(c) == { m \in Methods : ClassOf[m] = c }

\* Every entry of a list matched against a class name, by starts_with.
MatchedByList(c, list) == \E s \in list : IsPrefix(s, ClassName[c])

\* str truncated to the length of the class name, as class_prefix_str
\* and fi_prefix are.
Truncated(str, c) ==
    SubSeq(str, 1, IF Len(str) < Len(ClassName[c]) THEN Len(str) ELSE Len(ClassName[c]))

\* Mutant: the class is matched against the whole entry.
ClassMayMatchUntruncated(str, c) == IsPrefix(str, ClassName[c])

\* boost::starts_with(class_str, class_prefix_str): the entry names this
\* class, a package of it, or one of its methods.
ClassMayMatch(str, c) == IsPrefix(Truncated(str, c), ClassName[c])

\* class_str.starts_with(fi_prefix) || fi_prefix.starts_with(class_str)
ForceClassMatch(str, c) ==
    ClassMayMatch(str, c) \/ IsPrefix(ClassName[c], Truncated(str, c))

VARIABLES
    noInlineBlocklist,    \* no_inline_blocklist, as configured
    forceInlinePrefixes,  \* force_inline_prefixes, as configured
    noInlineAnnotated,    \* the classes and methods with a no_inline_annos annotation
    forceAnnotated,       \* the methods with a force_inline_annos annotation
    populated,            \* m_populated
    calls,                \* calls of populate so far
    phase,                \* "idle", "classes", "methods", "force"
    classesLeft,          \* classes walk 1 has not reached
    methodsLeft,          \* methods walk 2 has not reached
    forceLeft,            \* matching classes walk 3 has not reached
    matchingForce,        \* classes_matching_force_inline
    blocklist,            \* m_blocklist
    callerBlocklist,      \* m_caller_blocklist
    intradexAllowlist,    \* m_intradex_allowlist
    dontInline,           \* the methods whose rstate is dont_inline
    forceInline           \* the methods whose rstate is force_inline

config == <<noInlineBlocklist, forceInlinePrefixes, noInlineAnnotated, forceAnnotated>>
walks == <<phase, classesLeft, methodsLeft, forceLeft, matchingForce>>
outputs == <<blocklist, callerBlocklist, intradexAllowlist, dontInline, forceInline>>
vars == <<config, populated, calls, walks, outputs>>

TypeOK ==
    /\ noInlineBlocklist \subseteq ConfigEntries /\ forceInlinePrefixes \subseteq ConfigEntries
    /\ noInlineAnnotated \subseteq Classes \cup Methods
    /\ forceAnnotated \subseteq Methods
    /\ populated \in BOOLEAN /\ calls \in 0..MaxCalls
    /\ phase \in {"idle", "classes", "methods", "force"}
    /\ classesLeft \subseteq Classes /\ methodsLeft \subseteq Methods
    /\ forceLeft \subseteq Classes /\ matchingForce \subseteq Classes
    /\ blocklist \cup callerBlocklist \cup intradexAllowlist \subseteq Classes
    /\ dontInline \subseteq Methods /\ forceInline \subseteq Methods

Init ==
    /\ noInlineBlocklist \in SUBSET ConfigEntries
    /\ forceInlinePrefixes \in SUBSET ConfigEntries
    /\ noInlineAnnotated \in SUBSET (Classes \cup Methods)
    /\ forceAnnotated \in SUBSET Methods
    /\ populated = FALSE /\ calls = 0 /\ phase = "idle"
    /\ classesLeft = {} /\ methodsLeft = {} /\ forceLeft = {} /\ matchingForce = {}
    /\ blocklist = {} /\ callerBlocklist = {} /\ intradexAllowlist = {}
    /\ dontInline = {} /\ forceInline = {}

\* if (m_populated) return;
PopulateAgain ==
    /\ phase = "idle" /\ populated /\ calls < MaxCalls
    /\ calls' = calls + 1
    /\ UNCHANGED <<config, populated, walks, outputs>>

\* A first call starts walk 1 with an empty classes_matching_force_inline.
Populate ==
    /\ phase = "idle" /\ ~populated /\ calls < MaxCalls
    /\ calls' = calls + 1
    /\ phase' = "classes" /\ classesLeft' = Classes /\ matchingForce' = {}
    /\ UNCHANGED <<config, populated, methodsLeft, forceLeft, outputs>>

\* Walk 1, one class.
VisitClass(c) ==
    /\ phase = "classes" /\ c \in classesLeft
    /\ classesLeft' = classesLeft \ {c}
    /\ blocklist' = IF MatchedByList(c, Blocklist) THEN blocklist \cup {c} ELSE blocklist
    /\ callerBlocklist' = IF MatchedByList(c, CallerBlocklist)
                          THEN callerBlocklist \cup {c} ELSE callerBlocklist
    /\ intradexAllowlist' = IF MatchedByList(c, IntradexAllowlist)
                            THEN intradexAllowlist \cup {c} ELSE intradexAllowlist
    /\ dontInline' = dontInline
                     \cup { m \in MethodsOf(c) :
                              \E s \in noInlineBlocklist : ClassMayMatch(s, c) /\ IsPrefix(s, Show[m]) }
                     \cup (IF c \in noInlineAnnotated THEN MethodsOf(c) ELSE {})
    /\ matchingForce' = IF \E s \in forceInlinePrefixes : ForceClassMatch(s, c)
                        THEN matchingForce \cup {c} ELSE matchingForce
    /\ UNCHANGED <<config, populated, calls, phase, methodsLeft, forceLeft, forceInline>>

ClassesWalked ==
    /\ phase = "classes" /\ classesLeft = {}
    /\ phase' = "methods" /\ methodsLeft' = Methods
    /\ UNCHANGED <<config, populated, calls, classesLeft, forceLeft, matchingForce, outputs>>

\* Walk 2, one method: nothing if already dont_inline; else its no-inline
\* annotation wins over its force-inline annotation.
VisitMethod(m) ==
    /\ phase = "methods" /\ m \in methodsLeft
    /\ methodsLeft' = methodsLeft \ {m}
    /\ dontInline' = IF m \notin dontInline /\ m \in noInlineAnnotated
                     THEN dontInline \cup {m} ELSE dontInline
    /\ forceInline' = IF m \notin dontInline /\ m \notin noInlineAnnotated /\ m \in forceAnnotated
                      THEN forceInline \cup {m} ELSE forceInline
    /\ UNCHANGED <<config, populated, calls, phase, classesLeft, forceLeft, matchingForce,
                   blocklist, callerBlocklist, intradexAllowlist>>

\* After walk 2: walk 3 only if some class matched a force prefix.
MethodsWalked ==
    /\ phase = "methods" /\ methodsLeft = {}
    /\ IF matchingForce # {}
       THEN phase' = "force" /\ forceLeft' = matchingForce /\ UNCHANGED populated
       ELSE phase' = "idle" /\ populated' = TRUE /\ UNCHANGED forceLeft
    /\ UNCHANGED <<config, calls, classesLeft, methodsLeft, matchingForce, outputs>>

\* Mutant: a dont_inline method is not skipped.
ForceClassNoSkip(c) ==
    /\ phase = "force" /\ c \in forceLeft
    /\ forceLeft' = forceLeft \ {c}
    /\ forceInline' = forceInline
                      \cup { m \in MethodsOf(c) : \E s \in forceInlinePrefixes : IsPrefix(s, Show[m]) }
    /\ UNCHANGED <<config, populated, calls, phase, classesLeft, methodsLeft, matchingForce,
                   blocklist, callerBlocklist, intradexAllowlist, dontInline>>

\* Walk 3, one class: its methods that are not dont_inline and whose
\* show() starts with a force prefix.
ForceClass(c) ==
    /\ phase = "force" /\ c \in forceLeft
    /\ forceLeft' = forceLeft \ {c}
    /\ forceInline' = forceInline
                      \cup { m \in MethodsOf(c) \ dontInline :
                               \E s \in forceInlinePrefixes : IsPrefix(s, Show[m]) }
    /\ UNCHANGED <<config, populated, calls, phase, classesLeft, methodsLeft, matchingForce,
                   blocklist, callerBlocklist, intradexAllowlist, dontInline>>

\* m_populated = true.
ForceWalked ==
    /\ phase = "force" /\ forceLeft = {}
    /\ phase' = "idle" /\ populated' = TRUE
    /\ UNCHANGED <<config, calls, classesLeft, methodsLeft, forceLeft, matchingForce, outputs>>

\* No further call.
Terminated ==
    /\ phase = "idle" /\ calls = MaxCalls
    /\ UNCHANGED vars

Next ==
    \/ PopulateAgain
    \/ Populate
    \/ \E c \in Classes : VisitClass(c)
    \/ ClassesWalked
    \/ \E m \in Methods : VisitMethod(m)
    \/ MethodsWalked
    \/ \E c \in Classes : ForceClass(c)
    \/ ForceWalked
    \/ Terminated

Spec == Init /\ [][Next]_vars

-----------------------------------------------------------------------------
(***************************************************************************)
(* Reference: the flags the configuration asks for.  A method is not      *)
(* inlined if its descriptor starts with a no_inline_blocklist entry, or  *)
(* it or its class has a no-inline annotation; otherwise it is force      *)
(* inlined if it has a force-inline annotation or its descriptor starts   *)
(* with a force_inline_prefixes entry.                                    *)
(***************************************************************************)
ExpectedDontInline ==
    { m \in Methods : \/ \E s \in noInlineBlocklist : IsPrefix(s, Show[m])
                      \/ m \in noInlineAnnotated
                      \/ ClassOf[m] \in noInlineAnnotated }

ExpectedForceInline ==
    { m \in Methods \ ExpectedDontInline :
        m \in forceAnnotated \/ \E s \in forceInlinePrefixes : IsPrefix(s, Show[m]) }

(* Properties.                                                            *)

\* No walk ever leaves a method both dont_inline and force_inline, though
\* walk 3 runs after walk 2 has added dont_inline flags of its own.
NeverBothFlags == dontInline \cap forceInline = {}

\* Once populated, every method has exactly the flags its configuration
\* asks for, whether an entry names a package, a class or a method (the
\* class match on the entry truncated to the class name must let method
\* entries through), and a later call changes nothing.
FlagsAsConfigured ==
    populated /\ phase = "idle" =>
        /\ dontInline = ExpectedDontInline
        /\ forceInline = ExpectedForceInline

=============================================================================

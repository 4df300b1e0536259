----------------------------- MODULE ClassUtil -----------------------------
(***************************************************************************)
(* Four functions of namespace klass (src/libredex/ClassUtil.cpp):        *)
(*   get_serdes: looks up the $Deserializer / $Serializer classes nested  *)
(*     in a class, and the flatbuffer ones named after the class with     *)
(*     '$' as '_'; a class descriptor is a sequence of symbols, each of   *)
(*     "Deserializer" and "Serializer" one symbol;                        *)
(*   has_hierarchy_in_scope: the loop that follows get_super_class()      *)
(*     while type_class_internal() finds a class, then compares the last  *)
(*     super type with java.lang.Object;                                  *)
(*   get_or_create_clinit: returns cls->get_clinit(), or makes a static   *)
(*     <clinit> with the body return-void, builds its cfg if need_cfg,    *)
(*     and adds it to the class;                                          *)
(*   maybe_anonymous_class: the deobfuscated name is anonymous-looking    *)
(*     when the character after its last '$' is a digit, or when it       *)
(*     contains "$$ExternalSyntheticLambda" (R8) or "$$Lambda$" (older    *)
(*     D8).  A name is a sequence of characters; the letters of           *)
(*     "ExternalSyntheticLambda" and "Lambda" only ever occur together in *)
(*     the names checked, so each word is one symbol, and '$', a digit    *)
(*     and a letter stand for the rest.                                   *)
(* Classes are model values; the super of an internal class is an         *)
(* internal class, another type (java.lang.Object, a library class, a     *)
(* type with no definition) or Null (nullptr).                            *)
(***************************************************************************)
EXTENDS Naturals, FiniteSets, Sequences, SequencesExt

CONSTANTS
    Internal,     \* the classes type_class_internal finds (not external)
    OtherTypes,   \* types for which it returns nullptr
    ObjectType,   \* type::java_lang_Object()
    Null,         \* nullptr
    MaxCalls,     \* bound on the calls of get_or_create_clinit
    Chars,        \* the characters class names are made of
    Digits,       \* those between '0' and '9'
    MaxLength,    \* bound on the length of a name
    ClassNames,   \* descriptors of the classes get_serdes is called on
    DefinedTypes  \* the descriptors DexType::get_type finds

ASSUME
    /\ ObjectType \in OtherTypes
    /\ Internal \cap OtherTypes = {}
    /\ Null \notin Internal \cup OtherTypes

Types == Internal \cup OtherTypes

\* type_class_internal(t): the class of t if it is defined and internal.
TypeClassInternal(t) == IF t \in Internal THEN t ELSE Null

\* The internal classes reached from c by get_super_class (c included).
RECURSIVE ReachedFrom(_, _, _)
ReachedFrom(super, c, seen) ==
    IF c = Null \/ c \in seen THEN seen
    ELSE ReachedFrom(super, TypeClassInternal(super[c]), seen \cup {c})

\* A hierarchy a dex file can hold: no class is its own ancestor.
Acyclic(super) ==
    \A c \in Internal : c \notin ReachedFrom(super, TypeClassInternal(super[c]), {})

\* The clinit of a class: id 0 is none, 1 the one the class had, n + 1
\* the n-th method get_or_create_clinit made; cfg is cfg_built().
NoClinit == [id |-> 0, cfg |-> FALSE]
Existing(b) == [id |-> 1, cfg |-> b]

\* The patterns array of maybe_anonymous_class.
Patterns == { << "$", "$", "ExternalSyntheticLambda" >>, << "$", "$", "Lambda", "$" >> }

\* DexType::get_type(name): the type if one is defined, else nullptr.
GetType(t) == IF t \in DefinedTypes THEN t ELSE Null

NoSerdes == [deser |-> Null, flatbufDeser |-> Null, ser |-> Null, flatbufSer |-> Null]

\* get_serdes: name.pop_back() drops the ';', flatbuf_name has '$' as
\* '_', and the four types are looked up by name.
Serdes(cls) ==
    LET name == Front(cls)
        flatbufName == [i \in DOMAIN name |-> IF name[i] = "$" THEN "_" ELSE name[i]]
    IN [deser |-> GetType(name \o << "$", "Deserializer", ";" >>),
        flatbufDeser |-> GetType(flatbufName \o << "Deserializer", ";" >>),
        ser |-> GetType(name \o << "$", "Serializer", ";" >>),
        flatbufSer |-> GetType(flatbufName \o << "Serializer", ";" >>)]

\* std::string_view::find(pattern) != npos.
HasSubstring(name, pat) ==
    \E i \in 0..Len(name) - Len(pat) : SubSeq(name, i + 1, i + Len(pat)) = pat

VARIABLES
    fn,           \* the function the caller calls in this behaviour
    super,        \* super[c]: c->get_super_class()
    hpc,          \* has_hierarchy_in_scope: "idle" or "loop"
    hcls,         \* its argument
    hsuper,       \* the local super
    hsuperCls,    \* the local super_cls
    hresult,      \* hresult[c]: the results calls on c returned
    clinit,       \* clinit[c]: cls->get_clinit()
    clinits,      \* clinits[c]: number of <clinit> methods of c
    made,         \* number of clinits made
    returned,     \* returned[c]: the methods calls on c have returned
    calls,        \* calls of get_or_create_clinit so far
    name,         \* cls->get_deobfuscated_name_or_empty()
    pos,          \* maybe_anonymous_class's pos, 0 for npos (1-based otherwise)
    apc,          \* maybe_anonymous_class: "rfind", "check" or "done"
    aresult,      \* the value it returned
    serdes        \* serdes[n]: what get_serdes returned for each class n called on

vars == <<fn, super, hpc, hcls, hsuper, hsuperCls, hresult, clinit, clinits, made, returned, calls,
          name, pos, apc, aresult, serdes>>

clinitVars == <<clinit, clinits, made, returned, calls>>
hierVars == <<hpc, hcls, hsuper, hsuperCls, hresult>>
anonVars == <<name, pos, apc, aresult>>

\* The loop's locals before a call; no call has returned.
HierarchyIdle ==
    /\ hpc = "idle" /\ hcls = Null /\ hsuper = Null /\ hsuperCls = Null
    /\ hresult = [c \in Internal |-> {}]

\* The classes' clinits before any call of get_or_create_clinit.
ClinitsAsLoaded ==
    /\ clinit \in [Internal -> {NoClinit, Existing(FALSE), Existing(TRUE)}]
    /\ clinits = [c \in Internal |-> IF clinit[c] = NoClinit THEN 0 ELSE 1]
    /\ made = 0
    /\ returned = [c \in Internal |-> {}]
    /\ calls = 0

\* get_serdes has not been called.
SerdesIdle == serdes = [n \in {} |-> NoSerdes]

\* No call of maybe_anonymous_class is under way.
AnonymousIdle == name = << >> /\ pos = 0 /\ apc = "done" /\ aresult = FALSE

\* The three functions touch disjoint state, so a behaviour follows calls
\* of one of them: every acyclic hierarchy with no clinit, a fixed
\* hierarchy with every mix of clinits, or every name up to MaxLength.
InitHierarchy ==
    /\ fn = "hierarchy"
    /\ super \in { s \in [Internal -> Types \cup {Null}] : Acyclic(s) }
    /\ HierarchyIdle
    /\ clinit = [c \in Internal |-> NoClinit] /\ clinits = [c \in Internal |-> 0]
    /\ made = 0 /\ returned = [c \in Internal |-> {}] /\ calls = 0
    /\ AnonymousIdle /\ SerdesIdle

InitClinit ==
    /\ fn = "clinit"
    /\ super = [c \in Internal |-> ObjectType]
    /\ HierarchyIdle
    /\ ClinitsAsLoaded
    /\ AnonymousIdle /\ SerdesIdle

InitAnonymous ==
    /\ fn = "anonymous"
    /\ super = [c \in Internal |-> ObjectType]
    /\ HierarchyIdle
    /\ clinit = [c \in Internal |-> NoClinit] /\ clinits = [c \in Internal |-> 0]
    /\ made = 0 /\ returned = [c \in Internal |-> {}] /\ calls = 0
    /\ name \in BoundedSeq(Chars, MaxLength)
    /\ pos = 0 /\ apc = "rfind" /\ aresult = FALSE
    /\ SerdesIdle

InitSerdes ==
    /\ fn = "serdes"
    /\ super = [c \in Internal |-> ObjectType]
    /\ HierarchyIdle
    /\ clinit = [c \in Internal |-> NoClinit] /\ clinits = [c \in Internal |-> 0]
    /\ made = 0 /\ returned = [c \in Internal |-> {}] /\ calls = 0
    /\ AnonymousIdle /\ SerdesIdle

\* super = nullptr; super_cls = cls.
HierarchyStart(c) ==
    /\ hpc = "idle"
    /\ hpc' = "loop" /\ hcls' = c /\ hsuper' = Null /\ hsuperCls' = c
    /\ UNCHANGED <<fn, super, serdes, hresult, clinitVars, anonVars>>

\* Mutant: super_cls is looked up from its own type instead of its super.
HierarchyStepStuck ==
    /\ hpc = "loop" /\ hsuperCls # Null
    /\ hsuper' = super[hsuperCls]
    /\ hsuperCls' = TypeClassInternal(hsuperCls)
    /\ UNCHANGED <<fn, super, serdes, hpc, hcls, hresult, clinitVars, anonVars>>

\* while (super_cls): super = super_cls->get_super_class();
\*                    super_cls = type_class_internal(super);
HierarchyStep ==
    /\ hpc = "loop" /\ hsuperCls # Null
    /\ hsuper' = super[hsuperCls]
    /\ hsuperCls' = TypeClassInternal(super[hsuperCls])
    /\ UNCHANGED <<fn, super, serdes, hpc, hcls, hresult, clinitVars, anonVars>>

\* Mutant: the walk only asks that the chain leaves the scope.
HierarchyDoneAnyExternal ==
    /\ hpc = "loop" /\ hsuperCls = Null
    /\ hresult' = [hresult EXCEPT ![hcls] = @ \cup {hsuper # Null}]
    /\ hpc' = "idle"
    /\ UNCHANGED <<fn, super, serdes, hcls, hsuper, hsuperCls, clinitVars, anonVars>>

\* return super == type::java_lang_Object();
HierarchyDone ==
    /\ hpc = "loop" /\ hsuperCls = Null
    /\ hresult' = [hresult EXCEPT ![hcls] = @ \cup {hsuper = ObjectType}]
    /\ hpc' = "idle"
    /\ UNCHANGED <<fn, super, serdes, hcls, hsuper, hsuperCls, clinitVars, anonVars>>

\* if (clinit) return clinit; otherwise make_method(...)->make_concrete,
\* IRCode with return-void, build_cfg() if need_cfg, cls->add_method.
GetOrCreateClinit(c, needCfg) ==
    /\ calls < MaxCalls
    /\ calls' = calls + 1
    /\ IF clinit[c] # NoClinit
       THEN /\ returned' = [returned EXCEPT ![c] = @ \cup {clinit[c]}]
            /\ UNCHANGED <<clinit, clinits, made>>
       ELSE /\ clinit' = [clinit EXCEPT ![c] = [id |-> made + 2, cfg |-> needCfg]]
            /\ clinits' = [clinits EXCEPT ![c] = @ + 1]
            /\ made' = made + 1
            /\ returned' = [returned EXCEPT ![c] = @ \cup {clinit'[c]}]
    /\ UNCHANGED <<fn, super, serdes, hierVars, anonVars>>

\* No further call.
Terminated ==
    /\ calls = MaxCalls
    /\ UNCHANGED vars

\* Mutant: the first '$' is taken, as name.find('$') would.
RFindFirst ==
    /\ apc = "rfind"
    /\ pos' = SelectInSeq(name, LAMBDA ch : ch = "$")
    /\ IF pos' = 0 THEN apc' = "done" /\ aresult' = FALSE
                   ELSE apc' = "check" /\ UNCHANGED aresult
    /\ UNCHANGED <<fn, super, serdes, hierVars, clinitVars, name>>

\* pos = name.rfind('$'); if (pos == npos) return false;
RFind ==
    /\ apc = "rfind"
    /\ pos' = SelectLastInSeq(name, LAMBDA ch : ch = "$")
    /\ IF pos' = 0 THEN apc' = "done" /\ aresult' = FALSE
                   ELSE apc' = "check" /\ UNCHANGED aresult
    /\ UNCHANGED <<fn, super, serdes, hierVars, clinitVars, name>>

\* pos++; return (pos < size && '0' <= name[pos] <= '9') || any pattern.
\* With 1-based pos, the character after the '$' is name[pos + 1].
Check ==
    /\ apc = "check"
    /\ aresult' = \/ pos + 1 <= Len(name) /\ name[pos + 1] \in Digits
                  \/ \E pat \in Patterns : HasSubstring(name, pat)
    /\ apc' = "done"
    /\ UNCHANGED <<fn, super, serdes, hierVars, clinitVars, name, pos>>

\* The call has returned.
AnonymousReturned ==
    /\ apc = "done"
    /\ UNCHANGED vars

\* A call of get_serdes on a class.
GetSerdes(n) ==
    /\ n \notin DOMAIN serdes
    /\ serdes' = serdes @@ (n :> Serdes(n))
    /\ UNCHANGED <<fn, super, hierVars, clinitVars, anonVars>>

\* Every class has been asked about.
SerdesReturned ==
    /\ DOMAIN serdes = ClassNames
    /\ UNCHANGED vars

Walk == HierarchyStep \/ HierarchyDone

NextHierarchy ==
    \/ \E c \in Internal : HierarchyStart(c)
    \/ Walk

NextClinit ==
    \/ \E c \in Internal, b \in BOOLEAN : GetOrCreateClinit(c, b)
    \/ Terminated

NextAnonymous == RFind \/ Check \/ AnonymousReturned

NextSerdes == (\E n \in ClassNames : GetSerdes(n)) \/ SerdesReturned

Init == InitHierarchy \/ InitClinit \/ InitAnonymous \/ InitSerdes

Next ==
    \/ fn = "hierarchy" /\ NextHierarchy
    \/ fn = "clinit" /\ NextClinit
    \/ fn = "anonymous" /\ NextAnonymous
    \/ fn = "serdes" /\ NextSerdes

\* The loop runs on the caller's thread until it returns.
Spec == Init /\ [][Next]_vars /\ WF_vars(Walk)

-----------------------------------------------------------------------------
(* Properties.                                                            *)

\* has_hierarchy_in_scope(c) is true exactly when some class of c's
\* chain inside the scope has java.lang.Object as its super: the chain
\* leaves the scope at Object, not at a library class, an undefined type
\* or a missing super.
HierarchyAgrees ==
    \A c \in Internal :
        \A r \in hresult[c] :
            r = (ObjectType \in { super[d] : d \in ReachedFrom(super, c, {}) })

\* Every call of has_hierarchy_in_scope returns: the loop leaves the
\* scope after at most one step per internal class of the chain.
HierarchyWalkTerminates == hpc = "loop" ~> hpc = "idle"

-----------------------------------------------------------------------------
(***************************************************************************)
(* Reference: the names javac gives anonymous classes end in a segment     *)
(* Outer$<n>..., one per nesting level (Outer$1$2), so a name is anonymous *)
(* when its innermost segment is numbered; a named class nested in an     *)
(* anonymous one (Outer$1$Inner) is not.  Lambda classes carry a marker.  *)
(***************************************************************************)
InnermostNumbered(n) ==
    \E p, s \in { SubSeq(n, 1, k) : k \in 0..Len(n) } \cup { SubSeq(n, k, Len(n)) : k \in 1..Len(n) + 1 } :
        /\ n = p \o << "$" >> \o s
        /\ \A k \in 1..Len(s) : s[k] # "$"
        /\ s # << >> /\ s[1] \in Digits

LambdaMarked(n) == \E pat \in Patterns : HasSubstring(n, pat)

\* maybe_anonymous_class returns true exactly for names whose innermost
\* $-segment starts with a digit and for names with a lambda marker,
\* including names that end in '$' and names with several '$'.
MatchesNaming ==
    apc = "done" => (aresult <=> InnermostNumbered(name) \/ LambdaMarked(name))

=============================================================================

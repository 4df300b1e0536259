--------------------------- MODULE MCResourceFiles ---------------------------
(***************************************************************************)
(* The four walks of resource and library files in                        *)
(* src/libredex/RedexResources.cpp, each from its own initial states: a   *)
(* behaviour follows one call, as the walks share no state.               *)
(*   native_classes    get_native_classes (StringSetScan)                  *)
(*   attribute_values  collect_xml_attribute_string_values (StringSetScan) *)
(*   keep              get_all_keep_resources (KeepList)                   *)
(*   rename            rename_classes_in_layouts (LayoutRename)            *)
(***************************************************************************)
EXTENDS Naturals, Sequences

CONSTANTS fA, fB, fC, fD, fE, c1, c2, c3

MCWorkers == {"w1", "w2"}

\* StringSetScan.  Native: .so files at the top and two levels down, one
\* with no class name in it, two libraries sharing a name, and files of
\* other kinds.  Attribute values: XML files at the top and one level
\* down, two sharing a value, one with none, and a non-XML file.
MCScanFiles == {fA, fB, fC, fD, fE}
MCNames == {c1, c2, c3}
MCNativeDepth  == [f \in MCScanFiles |-> CASE f = fB -> 2 [] f \in {fC, fE} -> 1 [] OTHER -> 0]
MCNativeSuffix == [f \in MCScanFiles |-> CASE f = fD -> "other" [] f = fE -> "xml" [] OTHER -> "so"]
MCNativeResult == [f \in MCScanFiles |->
                     CASE f = fA -> {c1, c2} [] f = fB -> {c2, c3} [] f = fC -> {}
                       [] f = fD -> {c1} [] OTHER -> {c3}]
MCXmlDepth  == [f \in MCScanFiles |-> IF f \in {fA, fE} THEN 0 ELSE 1]
MCXmlSuffix == [f \in MCScanFiles |-> IF f = fD THEN "other" ELSE "xml"]
MCXmlResult == [f \in MCScanFiles |->
                  CASE f = fA -> {c1} [] f = fB -> {c1, c2} [] f = fC -> {}
                    [] OTHER -> {c3}]

\* ResTree.  Two res directories: layouts at the usual depth and one
\* level deeper, raw files in raw, in raw-v21 and one level under raw, a
\* non-XML file, and a library's layout.
MCResDirs == { << "app", "res" >>, << "lib", "res" >> }
MCTreeFiles ==
    { << "app", "res", "layout", "main.xml" >>,
      << "app", "res", "layout", "land", "main.xml" >>,
      << "app", "res", "raw", "keep.xml" >>,
      << "app", "res", "raw-v21", "keep.xml" >>,
      << "app", "res", "raw", "sub", "keep.xml" >>,
      << "app", "res", "drawable", "icon.png" >>,
      << "lib", "res", "layout", "item.xml" >> }
MCXmlNames == { "main.xml", "keep.xml", "item.xml" }
MCRawDashNames == { "raw-v21" }

\* parse_authorities: values of up to four characters over "a", '.', ';'.
\* can_obfuscate_xml_file: the types anim, animator and layout, and
\* directories whose type is one of them, qualified, unqualified, under
\* a segment ending in "res", or none of them.
MCTypes == { << "anim" >>, << "anim", "ator" >>, << "layout" >> }
MCDirNames ==
    { << << "app" >>, << "res" >>, << "anim" >> >>,
      << << "app" >>, << "res" >>, << "anim", "-v21" >> >>,
      << << "app" >>, << "res" >>, << "anim", "ator" >> >>,
      << << "app" >>, << "res" >>, << "layout" >> >>,
      << << "app" >>, << "my", "res" >>, << "layout" >> >>,
      << << "app" >>, << "res" >>, << "xml" >> >> }
MCNoDir == << << "app" >> >>

VARIABLES
    walk,
    nQueue, nPc, nTask, nUnlisted, nSnap, nShared, nReturned, nMerged,
    xQueue, xPc, xTask, xUnlisted, xSnap, xShared, xReturned, xMerged,
    doc, kDirsLeft, kXmlFiles, keep, done,
    rQueue, rPc, rDirsLeft, rXmlFiles, renamed, failed, rReturned,
    text, start, authorityClasses, apc, allowedTypes, dirname, typesLeft,
    canObfuscate, opc

N == INSTANCE StringSetScan WITH
    Operation <- "native_classes", Workers <- MCWorkers, Files <- MCScanFiles,
    Depth <- MCNativeDepth, Suffix <- MCNativeSuffix, Names <- MCNames,
    FileResult <- MCNativeResult,
    queue <- nQueue, pc <- nPc, task <- nTask, unlisted <- nUnlisted, snap <- nSnap,
    shared <- nShared, returned <- nReturned, merged <- nMerged

X == INSTANCE StringSetScan WITH
    Operation <- "attribute_values", Workers <- MCWorkers, Files <- MCScanFiles,
    Depth <- MCXmlDepth, Suffix <- MCXmlSuffix, Names <- MCNames,
    FileResult <- MCXmlResult,
    queue <- xQueue, pc <- xPc, task <- xTask, unlisted <- xUnlisted, snap <- xSnap,
    shared <- xShared, returned <- xReturned, merged <- xMerged

\* Contents of a keep file: no tools:keep (or malformed), "a", "t/a, b".
K == INSTANCE KeepList WITH
    ResDirs <- MCResDirs, Files <- MCTreeFiles, XmlNames <- MCXmlNames,
    RawDashNames <- MCRawDashNames,
    KeepDocs <- { [kind |-> "none", value |-> << >>],
                  [kind |-> "keep", value |-> << "a" >>],
                  [kind |-> "keep", value |-> << "t", "/", "a", ",", " ", "b" >>] },
    dirsLeft <- kDirsLeft, xmlFiles <- kXmlFiles

L == INSTANCE LayoutRename WITH
    ResDirs <- MCResDirs, Files <- MCTreeFiles, XmlNames <- MCXmlNames,
    RawDashNames <- MCRawDashNames, Workers <- MCWorkers,
    queue <- rQueue, pc <- rPc, dirsLeft <- rDirsLeft, xmlFiles <- rXmlFiles,
    returned <- rReturned

S == INSTANCE ResourceStrings WITH
    TextChars <- {"a", ".", ";"}, MaxText <- 4, PriorClasses <- { << "L", "a", ";" >> },
    Types <- MCTypes, DirNames <- MCDirNames \cup {MCNoDir}, Qualifiers <- {"-v21"}

nVars == <<nQueue, nPc, nTask, nUnlisted, nSnap, nShared, nReturned, nMerged>>
xVars == <<xQueue, xPc, xTask, xUnlisted, xSnap, xShared, xReturned, xMerged>>
kVars == <<doc, kDirsLeft, kXmlFiles, keep, done>>
rVars == <<rQueue, rPc, rDirsLeft, rXmlFiles, renamed, failed, rReturned>>
sVars == <<text, start, authorityClasses, apc, allowedTypes, dirname, typesLeft, canObfuscate, opc>>
allVars == <<walk, nVars, xVars, kVars, rVars, sVars>>

\* The walks not called stay in their initial states; a keep walk that is
\* not called reads no file, string helpers not called get empty input.
Init ==
    /\ walk \in {"native_classes", "attribute_values", "keep", "rename", "strings"}
    /\ N!Init /\ X!Init /\ K!Init /\ L!Init
    /\ walk # "keep" => doc = [f \in MCTreeFiles |-> [kind |-> "none", value |-> << >>]]
    /\ IF walk = "strings"
       THEN S!Init /\ dirname # MCNoDir
       ELSE text = << >> /\ allowedTypes = {} /\ dirname = MCNoDir /\ S!Init

Next ==
    \/ walk = "native_classes" /\ N!Next /\ UNCHANGED <<walk, xVars, kVars, rVars, sVars>>
    \/ walk = "attribute_values" /\ X!Next /\ UNCHANGED <<walk, nVars, kVars, rVars, sVars>>
    \/ walk = "keep" /\ K!Next /\ UNCHANGED <<walk, nVars, xVars, rVars, sVars>>
    \/ walk = "rename" /\ L!Next /\ UNCHANGED <<walk, nVars, xVars, kVars, sVars>>
    \/ walk = "strings" /\ S!Next /\ UNCHANGED <<walk, nVars, xVars, kVars, rVars>>

\* StringSetScan's and LayoutRename's fairness, for the walk called.
Spec ==
    /\ Init /\ [][Next]_allVars
    /\ \A w \in MCWorkers : WF_nVars(walk = "native_classes" /\ N!Worker(w))
                          /\ WF_xVars(walk = "attribute_values" /\ X!Worker(w))
    /\ WF_nVars(walk = "native_classes" /\ N!Return)
    /\ WF_xVars(walk = "attribute_values" /\ X!Return)
    /\ \A w \in MCWorkers : WF_rVars(walk = "rename" /\ L!Worker(w))
    /\ WF_rVars(walk = "rename" /\ L!Return)

(* Properties, each StringSetScan, KeepList or LayoutRename's own.        *)

\* No insert under out_mutex is lost, in either scan.
NoLostMerge == N!NoLostMerge /\ X!NoLostMerge

\* The scan called implements ResourceCollect, as StringSetScan's
\* ImplementsCollect states it, for the mode that calls it: nothing is
\* handed back before workqueue_run returns, then the strings of every
\* file the contract names, and the call does return.
ImplementsCollect ==
    /\ walk = "native_classes" => N!Collect!Init
    /\ walk = "attribute_values" => X!Collect!Init
    /\ [][walk = "native_classes" => N!Collect!Next]_(N!Collect!vars)
    /\ [][walk = "attribute_values" => X!Collect!Next]_(X!Collect!vars)
    /\ <>(walk = "native_classes" => nReturned)
    /\ <>(walk = "attribute_values" => xReturned)

\* The keep set comes from every raw resource at any depth and variant.
KeepFromRawFiles == K!KeepFromRawFiles

\* Every non-raw XML file of every res directory is rewritten once.
LayoutsRenamedOnce == L!LayoutsRenamedOnce

\* rename_classes_in_layouts, when called, returns, with failed
\* rewrites among its tasks.
RenameReturns == <>(walk = "rename" => rReturned)

\* parse_authorities adds the internal name of every ';'-separated
\* authority, empty ones included, and nothing else.
AuthoritiesSplit == S!AuthoritiesSplit

\* can_obfuscate_xml_file answers true for every directory of an allowed
\* type, whatever order the allowed types are iterated in.
AllowedTypeObfuscated == S!AllowedTypeObfuscated

=============================================================================

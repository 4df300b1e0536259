--------------------------- MODULE ResourceStrings ---------------------------
(***************************************************************************)
(* Two string helpers of RedexResources.cpp, each a loop over its input:  *)
(*                                                                         *)
(*  - parse_authorities splits a manifest android:authorities value at     *)
(*    ';' and inserts the internal name of every piece into the caller's   *)
(*    set; one action per iteration of its while loop, one for the tail.   *)
(*                                                                         *)
(*  - AndroidResources::can_obfuscate_xml_file iterates the allowed        *)
(*    resource types in UnorderedIterable order and answers true at the    *)
(*    first type for which "res/<type>" occurs in the directory name.      *)
(*    A directory name is a sequence of path segments, a segment a         *)
(*    sequence of name chunks ("anim" "ator" is the segment "animator");   *)
(*    a chunk is atomic, so "res/<type>" occurs where a segment ends in    *)
(*    the chunk "res" and the next one begins with the type's chunks.      *)
(***************************************************************************)
EXTENDS Naturals, Sequences, SequencesExt, FiniteSets

CONSTANTS
    TextChars,      \* characters of an authorities value, ";" and "." among them
    MaxText,        \* bound on its length
    PriorClasses,   \* what authority_classes holds before the call
    Types,          \* resource types a caller may allow, as chunk sequences
    DirNames,       \* directory names the caller asks about
    Qualifiers      \* chunks that are configuration qualifiers ("-v21", "-land")

ASSUME {";", "."} \subseteq TextChars

VARIABLES
    text, start, authorityClasses, apc,    \* parse_authorities
    allowedTypes, dirname, typesLeft, canObfuscate, opc   \* can_obfuscate_xml_file

authVars == <<text, start, authorityClasses, apc>>
obfVars == <<allowedTypes, dirname, typesLeft, canObfuscate, opc>>
vars == <<authVars, obfVars>>

-----------------------------------------------------------------------------
(* parse_authorities                                                       *)

\* java_names::external_to_internal of a dotted class name (the helper
\* lives outside this tree): "L", the name with '.' as '/', then ";".
InternalName(s) ==
    <<"L">> \o [i \in 1..Len(s) |-> IF s[i] = "." THEN "/" ELSE s[i]] \o <<";">>

\* text.find(';', start): the 1-based position of the first ';' at or
\* after start (start is 0-based as in the code), 0 for npos.
FindSemicolon(t, from) ==
    LET hits == {i \in (from + 1)..Len(t) : t[i] = ";"}
    IN IF hits = {} THEN 0 ELSE CHOOSE i \in hits : \A j \in hits : i <= j

\* text.substr(start, end - start), both 0-based.
Substr(t, from, count) == SubSeq(t, from + 1, from + count)

AuthInit ==
    /\ text \in BoundedSeq(TextChars, MaxText)
    /\ start = 0
    /\ authorityClasses = PriorClasses
    /\ apc = "loop"

\* The body of the while loop: a ';' at or after start ends a piece.
\* (A plausible slip: the piece keeps its ';'.)
AuthorityPieceKeepsSeparator ==
    LET end == FindSemicolon(text, start) - 1
    IN /\ apc = "loop" /\ end >= 0
       /\ authorityClasses' = authorityClasses \cup
                                {InternalName(Substr(text, start, end - start + 1))}
       /\ start' = end + 1
       /\ UNCHANGED <<text, apc>>

AuthorityPiece ==
    LET end == FindSemicolon(text, start) - 1
    IN /\ apc = "loop" /\ end >= 0
       /\ authorityClasses' = authorityClasses \cup
                                {InternalName(Substr(text, start, end - start))}
       /\ start' = end + 1
       /\ UNCHANGED <<text, apc>>

\* find returns npos: the rest of the text is the last piece.
AuthorityTail ==
    /\ apc = "loop" /\ FindSemicolon(text, start) = 0
    /\ authorityClasses' = authorityClasses \cup
                             {InternalName(SubSeq(text, start + 1, Len(text)))}
    /\ apc' = "done"
    /\ UNCHANGED <<text, start>>

-----------------------------------------------------------------------------
(* can_obfuscate_xml_file                                                  *)

\* dirname.find("res/" + type) != npos, at chunk granularity.
ContainsTypePath(d, type) ==
    \E i \in 1..(Len(d) - 1) : Last(d[i]) = "res" /\ IsPrefix(type, d[i + 1])

ObfInit ==
    /\ allowedTypes \in SUBSET Types
    /\ dirname \in DirNames
    /\ typesLeft = allowedTypes
    /\ canObfuscate = FALSE
    /\ opc = "loop"

\* One iteration of the for loop, over the type UnorderedIterable hands
\* out next; its order is unspecified, so any type left may come next.
\* (A plausible slip: the first type that does not match ends the loop.)
CheckTypeStopsEarly(type) ==
    /\ opc = "loop" /\ type \in typesLeft
    /\ IF ContainsTypePath(dirname, type)
       THEN canObfuscate' = TRUE
       ELSE canObfuscate' = FALSE
    /\ opc' = "done"
    /\ UNCHANGED <<allowedTypes, dirname, typesLeft>>

CheckType(type) ==
    /\ opc = "loop" /\ type \in typesLeft
    /\ IF ContainsTypePath(dirname, type)
       THEN /\ canObfuscate' = TRUE
            /\ opc' = "done"
            /\ UNCHANGED typesLeft
       ELSE /\ typesLeft' = typesLeft \ {type}
            /\ UNCHANGED <<canObfuscate, opc>>
    /\ UNCHANGED <<allowedTypes, dirname>>

\* The loop ends without a match: return false.
NoTypeMatches ==
    /\ opc = "loop" /\ typesLeft = {}
    /\ opc' = "done"
    /\ UNCHANGED <<allowedTypes, dirname, typesLeft, canObfuscate>>

-----------------------------------------------------------------------------

Init == AuthInit /\ ObfInit

Done == apc = "done" /\ opc = "done" /\ UNCHANGED vars

Next ==
    \/ (AuthorityPiece \/ AuthorityTail) /\ UNCHANGED obfVars
    \/ ((\E t \in Types : CheckType(t)) \/ NoTypeMatches) /\ UNCHANGED authVars
    \/ Done

Spec == Init /\ [][Next]_vars /\ WF_vars(Next)

-----------------------------------------------------------------------------
(* Properties                                                              *)

TypeOK ==
    /\ start \in 0..(MaxText + 1)
    /\ apc \in {"loop", "done"} /\ opc \in {"loop", "done"}
    /\ typesLeft \subseteq allowedTypes /\ canObfuscate \in BOOLEAN

\* The pieces of t between consecutive ';' (and the ends), empty ones
\* included: the split the manifest's authorities list denotes.
Separators(t) == {0, Len(t) + 1} \cup {i \in 1..Len(t) : t[i] = ";"}
Pieces(t) ==
    { SubSeq(t, i + 1, j - 1) :
        <<i, j>> \in { p \in Separators(t) \X Separators(t) :
                         p[1] < p[2] /\ \A k \in Separators(t) : ~(p[1] < k /\ k < p[2]) } }

\* When parse_authorities returns, authority_classes holds what it held
\* before plus the internal name of every ';'-separated authority, no
\* more: the while loop's find/substr arithmetic loses no piece, merges
\* none and keeps no separator in a name, including at an empty piece
\* (";;" or a trailing ';').
AuthoritiesSplit ==
    apc = "done" =>
        authorityClasses = PriorClasses \cup {InternalName(p) : p \in Pieces(text)}

\* A resource directory of type t: the segment after a segment "res" is
\* t itself or t followed by a qualifier ("anim-v21").
TypeDirectory(d, t) ==
    \E i \in 1..(Len(d) - 1) :
        /\ d[i] = <<"res">>
        /\ \/ d[i + 1] = t
           \/ IsPrefix(t, d[i + 1]) /\ d[i + 1][Len(t) + 1] \in Qualifiers

\* can_obfuscate_xml_file answers true for every resource directory whose
\* type is allowed, qualified or not, whatever order UnorderedIterable
\* hands the allowed types out in.
AllowedTypeObfuscated ==
    (opc = "done" /\ \E t \in allowedTypes : TypeDirectory(dirname, t)) => canObfuscate
=============================================================================

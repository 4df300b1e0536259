------------------------------ MODULE KeepList ------------------------------
(***************************************************************************)
(* AndroidResources::get_all_keep_resources and                           *)
(* resources::parse_keep_xml_file (src/libredex/RedexResources.cpp).  For *)
(* every res directory and every file of get_xml_files(dir), a raw        *)
(* resource is parsed and the names of its tools:keep attribute are added *)
(* to the result.  The XML reader is external: a file is malformed (the   *)
(* exception is caught and logged), has no tools:keep on <resources>, or  *)
(* has one whose value is a sequence of characters.  split_string(s, ",") *)
(* (StringUtil, not in src/) cuts at every comma and keeps empty pieces;  *)
(* trim_whitespaces strips blanks at both ends.                           *)
(***************************************************************************)
EXTENDS ResTree

CONSTANTS
    KeepDocs      \* the contents an XML file may have

Blank == " "

Malformed == [kind |-> "malformed", value |-> << >>]
NoKeep    == [kind |-> "none", value |-> << >>]
KeepAttr(s) == [kind |-> "keep", value |-> s]

\* split_string(keep_str, ",").
RECURSIVE SplitString(_)
SplitString(s) ==
    LET i == SelectInSeq(s, LAMBDA ch : ch = ",")
    IN  IF i = 0 THEN << s >>
        ELSE << SubSeq(s, 1, i - 1) >> \o SplitString(SubSeq(s, i + 1, Len(s)))

\* trim_whitespaces(token).
RECURSIVE TrimWhitespaces(_)
TrimWhitespaces(t) ==
    IF t # << >> /\ Head(t) = Blank THEN TrimWhitespaces(Tail(t))
    ELSE IF t # << >> /\ Last(t) = Blank THEN TrimWhitespaces(Front(t))
    ELSE t

\* pos = trimmed_token.find('/'); if found, the part after it.
StripType(t) ==
    LET pos == SelectInSeq(t, LAMBDA ch : ch = "/")
    IN  IF pos = 0 THEN t ELSE SubSeq(t, pos + 1, Len(t))

\* parse_keep_xml_file: the set of the tokens, each trimmed and then
\* stripped of its type; nothing for a malformed file or no attribute.
ParseKeepXmlFile(doc) ==
    IF doc.kind # "keep" THEN {}
    ELSE { StripType(TrimWhitespaces(SplitString(doc.value)[k])) :
             k \in 1..Len(SplitString(doc.value)) }

VARIABLES
    doc,          \* doc[f]: the contents of file f
    dirsLeft,     \* the res directories the outer loop has not reached
    xmlFiles,     \* the files of get_xml_files(dir) not visited yet
    keep,         \* all_keep_resources
    done          \* the function has returned

vars == <<doc, dirsLeft, xmlFiles, keep, done>>

Init ==
    /\ doc \in [Files -> KeepDocs]
    /\ dirsLeft = ResDirs
    /\ xmlFiles = {}
    /\ keep = {}
    /\ done = FALSE

\* for (const auto& dir : directories): xml_files = get_xml_files(dir).
NextDir(d) ==
    /\ ~done /\ xmlFiles = {} /\ d \in dirsLeft
    /\ dirsLeft' = dirsLeft \ {d}
    /\ xmlFiles' = GetXmlFiles(d)
    /\ UNCHANGED <<doc, keep, done>>

\* if (!is_raw_resource(path)) continue;
SkipFile(f) ==
    /\ f \in xmlFiles /\ ~IsRawResource(f)
    /\ xmlFiles' = xmlFiles \ {f}
    /\ UNCHANGED <<doc, dirsLeft, keep, done>>

\* insert_unordered_iterable(all_keep_resources, parse_keep_xml_file(path)).
KeepFile(f) ==
    /\ f \in xmlFiles /\ IsRawResource(f)
    /\ xmlFiles' = xmlFiles \ {f}
    /\ keep' = keep \cup ParseKeepXmlFile(doc[f])
    /\ UNCHANGED <<doc, dirsLeft, done>>

\* return all_keep_resources.
Return ==
    /\ ~done /\ dirsLeft = {} /\ xmlFiles = {}
    /\ done' = TRUE
    /\ UNCHANGED <<doc, dirsLeft, xmlFiles, keep>>

Terminated ==
    /\ done
    /\ UNCHANGED vars

Next ==
    \/ \E d \in ResDirs : NextDir(d)
    \/ \E f \in Files : SkipFile(f) \/ KeepFile(f)
    \/ Return
    \/ Terminated

Spec == Init /\ [][Next]_vars

-----------------------------------------------------------------------------
(* Properties.                                                            *)

\* The keep set is made from every raw resource file of every res
\* directory, at any depth and in every raw configuration variant
\* (raw-v21, ...), and from no other file.
KeepFromRawFiles ==
    done => keep = UNION { ParseKeepXmlFile(doc[f]) : f \in { g \in XmlFilesUnderRes : InRawType(g) } }

\* spec.md 4.6 and 8 (parse_keep_list): each token of the keep directive is
\* stripped of an optional "type/" prefix and of surrounding whitespace,
\* so no kept name starts or ends with a blank.
KeepNamesTrimmed ==
    \A n \in keep : n # << >> => Head(n) # Blank /\ Last(n) # Blank

=============================================================================

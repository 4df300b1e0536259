------------------------------ MODULE ResTree ------------------------------
(***************************************************************************)
(* The file helpers of src/libredex/RedexResources.cpp that the keep-list *)
(* and layout-renaming walks share: get_files_by_suffix (recursive, every *)
(* depth), get_xml_files, and is_raw_resource.  A path is the sequence of *)
(* its segments; its string is the segments joined by '/' after a leading *)
(* '/', so a substring "/res/raw/" is a segment "res" followed by a       *)
(* directory "raw", and "/res/raw-" a segment "res" followed by a segment *)
(* that starts with "raw-".                                               *)
(***************************************************************************)
EXTENDS Naturals, Sequences, SequencesExt, FiniteSets

CONSTANTS
    ResDirs,      \* find_res_directories(): paths ending in "res"
    Files,        \* the regular files of the tree, as paths
    XmlNames,     \* the segments that end in ".xml"
    RawDashNames  \* the segments that start with "raw-"

ASSUME
    /\ \A d \in ResDirs : Last(d) = "res"
    \* the res directories are disjoint trees, and a file is a leaf
    /\ \A d, e \in ResDirs : d # e => ~IsPrefix(d, e)
    /\ \A f, g \in Files : f # g => ~IsPrefix(f, g)

\* The directories of the tree.
Dirs == UNION { { SubSeq(f, 1, k) : k \in 0..Len(f) - 1 } : f \in Files }

\* dir_iterator(dir): the entries directly in dir.
Entries(dir) ==
    { SubSeq(f, 1, Len(dir) + 1) : f \in { g \in Files : IsStrictPrefix(dir, g) } }

\* boost::ends_with(entry_path.string(), ".xml").
EndsWithXml(p) == Last(p) \in XmlNames

\* Mutant: only dir and its immediate subdirectories are listed, as
\* find_resource_xml_files does.
GetXmlFilesOneLevel(dir) ==
    { f \in Files : IsStrictPrefix(dir, f) /\ Len(f) <= Len(dir) + 2 /\ EndsWithXml(f) }

\* get_xml_files(dir) = get_files_by_suffix(dir, ".xml"): the regular
\* files of dir that end in the suffix, and those of every
\* subdirectory, recursively.
RECURSIVE GetXmlFiles(_)
GetXmlFiles(dir) ==
    { e \in Entries(dir) : e \in Files /\ EndsWithXml(e) }
    \cup UNION { GetXmlFiles(e) : e \in Entries(dir) \cap Dirs }

\* Mutant: the search for "/res/raw-" is left out.
IsRawResourceSlashOnly(p) ==
    \E i \in 1..Len(p) - 2 : p[i] = "res" /\ p[i + 1] = "raw"

\* filename.find("/res/raw/") != npos || filename.find("/res/raw-") != npos
IsRawResource(p) ==
    \E i \in 1..Len(p) - 1 :
        /\ p[i] = "res"
        /\ \/ p[i + 1] = "raw" /\ i + 1 < Len(p)
           \/ p[i + 1] \in RawDashNames

-----------------------------------------------------------------------------
(***************************************************************************)
(* Reference: the resource files of Android's layout.  A file of a res    *)
(* directory belongs to the resource type of the directory directly under *)
(* res; raw resources are those of "raw" and of its configuration         *)
(* variants "raw-<qualifiers>".                                           *)
(***************************************************************************)
UnderRes(f) == { d \in ResDirs : IsStrictPrefix(d, f) }

XmlFilesUnderRes == { f \in Files : UnderRes(f) # {} /\ EndsWithXml(f) }

InRawType(f) ==
    \E d \in UnderRes(f) : Len(f) > Len(d) + 1 /\ f[Len(d) + 1] \in {"raw"} \cup RawDashNames

=============================================================================

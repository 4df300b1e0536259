--------------------------- MODULE MCResourceScan ---------------------------
(***************************************************************************)
(* A res directory for ResourceScan: a top-level XML file, layout and     *)
(* layout-v21 files, files in skipped directories (anim, and colorful,    *)
(* which "color" is a prefix of), an XML file with nothing to report, a   *)
(* non-XML file and a file two levels down.  Two files report the same    *)
(* attribute value, so the multimap must hold it twice; a reference       *)
(* resolves to two literals and another to none.                          *)
(***************************************************************************)
EXTENDS ResourceScan

CONSTANTS
    fTop, fLayout, fLayoutV21, fAnim, fColorful, fEmpty, fTxt, fDeep,
    s1, s2, r1, r2, n1

MCWorkers == {"w1", "w2"}

MCPath ==
    fTop :> << >> @@
    fLayout :> << <<"layout">> >> @@
    fLayoutV21 :> << <<"layout", "-v21">> >> @@
    fAnim :> << <<"anim">> >> @@
    fColorful :> << <<"color", "ful">> >> @@
    fEmpty :> << <<"layout">> >> @@
    fTxt :> << <<"values">> >> @@
    fDeep :> << <<"layout">>, <<"sub">> >>

\* fDeep is not an XML file here: MCDeepXml makes it one.
MCIsXml == [f \in {fTop, fLayout, fLayoutV21, fAnim, fColorful, fEmpty, fTxt, fDeep} |->
                f \notin {fTxt, fDeep}]

MCDeepXml == [MCIsXml EXCEPT ![fDeep] = TRUE]

MCFileClasses ==
    fTop :> {s1} @@ fLayout :> {r1, s2} @@ fLayoutV21 :> {s2} @@
    fAnim :> {s2} @@ fColorful :> {r2} @@ fEmpty :> {} @@
    fTxt :> {s1} @@ fDeep :> {s1}

MCFileAttrs ==
    fTop :> {<<n1, r1>>} @@ fLayout :> {} @@ fLayoutV21 :> {<<n1, r1>>, <<n1, s1>>} @@
    fAnim :> {<<n1, s2>>} @@ fColorful :> {} @@ fEmpty :> {} @@
    fTxt :> {} @@ fDeep :> {<<n1, s2>>}

MCResTable == r1 :> {s1, s2} @@ r2 :> {}

=============================================================================

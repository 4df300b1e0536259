-------------------------- MODULE MCInlinerConfig --------------------------
(***************************************************************************)
(* InlinerConfig on a scope of two classes, "a;" and "ab;" (the first     *)
(* name a prefix of the second up to its ';'), with methods a;.m, a;.n    *)
(* and ab;.m.  The no-inline and force-inline lists range over every set  *)
(* of a package entry "a", which matches both classes, and the method     *)
(* entries a;.m and ab;.m, longer than either class name; annotations     *)
(* range over every set.  populate is called twice.                       *)
(***************************************************************************)
EXTENDS InlinerConfig, TLC

CONSTANTS cA, cB, mA1, mA2, mB1

MCClassOf == mA1 :> cA @@ mA2 :> cA @@ mB1 :> cB
MCClassName == cA :> <<"a", ";">> @@ cB :> <<"a", "b", ";">>
MCShow ==
    mA1 :> <<"a", ";", ".", "m">> @@
    mA2 :> <<"a", ";", ".", "n">> @@
    mB1 :> <<"a", "b", ";", ".", "m">>
MCConfigEntries == { <<"a">>, <<"a", ";", ".", "m">>, <<"a", "b", ";", ".", "m">> }
MCBlocklist == { <<"a", "b">> }
MCCallerBlocklist == { <<"a">> }
MCIntradexAllowlist == { <<"a", ";">> }

=============================================================================

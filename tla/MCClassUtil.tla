---------------------------- MODULE MCClassUtil ----------------------------
EXTENDS ClassUtil

\* Three internal classes, and java.lang.Object, a library class and a
\* type with no definition outside the scope.
MCInternal == {"c1", "c2", "c3"}
MCOtherTypes == {"Object", "Lib", "Undefined"}

\* get_serdes: every class whose name is one or two of 'a', '$', '_';
\* the nested and flatbuffer classes exist for the names that start
\* with 'a' and not for the others.
MCBodies == BoundedSeq({"a", "$", "_"}, 2) \ {<< >>}
MCClassNames == { << "L" >> \o b \o << ";" >> : b \in MCBodies }
MCDefinedTypes ==
    { << "L" >> \o b \o suffix :
        b \in { x \in MCBodies : x[1] = "a" },
        suffix \in { << "$", "Deserializer", ";" >>, << "Deserializer", ";" >>,
                     << "$", "Serializer", ";" >>, << "Serializer", ";" >> } }
=============================================================================

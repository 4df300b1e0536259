-------------------------- MODULE NativeLibScanner --------------------------
(***************************************************************************)
(* extract_classes_from_native_lib (src/libredex/RedexResources.cpp): one *)
(* left-to-right pass over the bytes of a native library that collects    *)
(* every run of class-name characters that begins with a lowercase letter *)
(* or 'L', in the dex form "Lpkg/Name;".  One action per step of the      *)
(* loops: the outer loop looks at one byte, the inner loop copies one     *)
(* byte into buffer, and the end of a candidate decides on its length.    *)
(* The input is any byte string of the alphabet up to a bound.            *)
(***************************************************************************)
EXTENDS Naturals, Sequences, SequencesExt, FiniteSets

CONSTANTS
    MIN_CLASSNAME_LENGTH,   \* 10 in the code
    MAX_CLASSNAME_LENGTH,   \* 500 in the code
    Bytes,                  \* the byte values the inputs are made of
    MaxInputLength          \* bound on the length of an input

ASSUME
    /\ MIN_CLASSNAME_LENGTH \in 1..MAX_CLASSNAME_LENGTH
    /\ MaxInputLength \in Nat

\* Byte classes of the two conditions of the loops.
LowerCase == {"a","b","c","d","e","f","g","h","i","j","k","l","m",
              "n","o","p","q","r","s","t","u","v","w","x","y","z"}
UpperCase == {"A","B","C","D","E","F","G","H","I","J","K","L","M",
              "N","O","P","Q","R","S","T","U","V","W","X","Y","Z"}
Digits    == {"0","1","2","3","4","5","6","7","8","9"}

\* (*inptr >= 'a' && *inptr <= 'z') || *inptr == 'L'
IsNameStart(b) == b \in LowerCase \/ b = "L"

\* letters, digits, '/', '_' and '$'
IsNameChar(b) == b \in LowerCase \cup UpperCase \cup Digits \cup {"/", "_", "$"}

VARIABLES
    input,      \* the library contents
    inptr,      \* index of *inptr in input (Len(input) + 1 is end)
    buffer,     \* the bytes written to buffer for the current candidate
    length,     \* length
    classes,    \* the set returned
    pc          \* "outer", "inner" or "done"

vars == <<input, inptr, buffer, length, classes, pc>>

TypeOK ==
    /\ input \in Seq(Bytes)
    /\ inptr \in 1..Len(input) + 2
    /\ buffer \in Seq(Bytes)
    /\ length \in Nat
    /\ classes \subseteq Seq(Bytes \cup {"L", ";"})
    /\ pc \in {"outer", "inner", "done"}

Init ==
    /\ input \in BoundedSeq(Bytes, MaxInputLength)
    /\ inptr = 1
    /\ buffer = << >>
    /\ length = 0
    /\ classes = {}
    /\ pc = "outer"

\* while (inptr < end): a byte that cannot start a class name; inptr++.
SkipByte ==
    /\ pc = "outer"
    /\ inptr <= Len(input)
    /\ ~IsNameStart(input[inptr])
    /\ inptr' = inptr + 1
    /\ UNCHANGED <<input, buffer, length, classes, pc>>

\* Mutant: the 'L' written first is not counted in length.
StartNameUncounted ==
    /\ pc = "outer"
    /\ inptr <= Len(input)
    /\ IsNameStart(input[inptr])
    /\ buffer' = IF input[inptr] # "L" THEN <<"L">> ELSE << >>
    /\ length' = 0
    /\ pc' = "inner"
    /\ UNCHANGED <<input, inptr, classes>>

\* A candidate starts: outptr = buffer, length = 0, and an 'L' is written
\* first unless the byte is one.
StartName ==
    /\ pc = "outer"
    /\ inptr <= Len(input)
    /\ IsNameStart(input[inptr])
    /\ buffer' = IF input[inptr] # "L" THEN <<"L">> ELSE << >>
    /\ length' = IF input[inptr] # "L" THEN 1 ELSE 0
    /\ pc' = "inner"
    /\ UNCHANGED <<input, inptr, classes>>

\* The inner loop's condition.
InnerLoopContinues ==
    /\ inptr <= Len(input)
    /\ IsNameChar(input[inptr])
    /\ length < MAX_CLASSNAME_LENGTH

\* *outptr++ = *inptr++; length++
CopyByte ==
    /\ pc = "inner"
    /\ InnerLoopContinues
    /\ buffer' = Append(buffer, input[inptr])
    /\ inptr' = inptr + 1
    /\ length' = length + 1
    /\ UNCHANGED <<input, classes, pc>>

\* Mutant: length > MIN_CLASSNAME_LENGTH.
EndNameStrictLength ==
    /\ pc = "inner"
    /\ ~InnerLoopContinues
    /\ classes' = IF length > MIN_CLASSNAME_LENGTH
                  THEN classes \cup {Append(buffer, ";")}
                  ELSE classes
    /\ inptr' = inptr + 1
    /\ pc' = "outer"
    /\ UNCHANGED <<input, buffer, length>>

\* Mutant: the byte after a candidate is stepped over twice.
EndNameDoubleStep ==
    /\ pc = "inner"
    /\ ~InnerLoopContinues
    /\ classes' = IF length >= MIN_CLASSNAME_LENGTH
                  THEN classes \cup {Append(buffer, ";")}
                  ELSE classes
    /\ inptr' = inptr + 2
    /\ pc' = "outer"
    /\ UNCHANGED <<input, buffer, length>>

\* After the inner loop: a long enough candidate gets its ';' and is
\* inserted; then inptr++ steps over the byte the inner loop stopped at.
EndName ==
    /\ pc = "inner"
    /\ ~InnerLoopContinues
    /\ classes' = IF length >= MIN_CLASSNAME_LENGTH
                  THEN classes \cup {Append(buffer, ";")}
                  ELSE classes
    /\ inptr' = inptr + 1
    /\ pc' = "outer"
    /\ UNCHANGED <<input, buffer, length>>

\* inptr reached end: return classes.
Finish ==
    /\ pc = "outer"
    /\ inptr > Len(input)
    /\ pc' = "done"
    /\ UNCHANGED <<input, inptr, buffer, length, classes>>

Terminated ==
    /\ pc = "done"
    /\ UNCHANGED vars

Next ==
    \/ SkipByte
    \/ StartName
    \/ CopyByte
    \/ EndName
    \/ Finish
    \/ Terminated

Spec == Init /\ [][Next]_vars

-----------------------------------------------------------------------------
(***************************************************************************)
(* Reference: the class name a maximal run of name characters stands for. *)
(* A run is input[i..j] with name characters only, not extendable either  *)
(* way; its name starts at the first byte of the run that can start one.  *)
(***************************************************************************)
Runs == { r \in (1..Len(input)) \X (1..Len(input)) :
            /\ r[1] <= r[2]
            /\ \A k \in r[1]..r[2] : IsNameChar(input[k])
            /\ r[1] = 1 \/ ~IsNameChar(input[r[1] - 1])
            /\ r[2] = Len(input) \/ ~IsNameChar(input[r[2] + 1]) }

\* The name of a run whose start is k: "L" added unless input[k] is 'L'.
NameBody(k, j) ==
    (IF input[k] = "L" THEN << >> ELSE <<"L">>) \o SubSeq(input, k, j)

-----------------------------------------------------------------------------
(* Properties.                                                            *)

\* The candidate never outgrows char buffer[MAX_CLASSNAME_LENGTH + 2]: the
\* bytes copied, the 'L' the scanner adds included, leave room for the ';'
\* and the '\0' written after them.
NoBufferOverflow ==
    Len(buffer) <= MAX_CLASSNAME_LENGTH

\* No class name the scan should see is missed: once the scan is done,
\* every run of name characters whose name (from its first lowercase
\* letter or 'L' on) has between MIN_CLASSNAME_LENGTH and
\* MAX_CLASSNAME_LENGTH bytes is returned, whatever runs, separators and
\* skipped bytes came before it.
ShortRunsFound ==
    pc = "done" =>
        \A r \in Runs :
            \A k \in r[1]..r[2] :
                ( /\ IsNameStart(input[k])
                  /\ \A m \in r[1]..(k - 1) : ~IsNameStart(input[m])
                  /\ Len(NameBody(k, r[2])) \in MIN_CLASSNAME_LENGTH..MAX_CLASSNAME_LENGTH )
                => Append(NameBody(k, r[2]), ";") \in classes

\* spec.md 8: "every string returned by the native-library scanner starts
\* with 'L', ends with ';', and has length >= 12", that is at least
\* MIN_CLASSNAME_LENGTH + 2.
SpecNameShape ==
    \A c \in classes :
        /\ Head(c) = "L"
        /\ Last(c) = ";"
        /\ Len(c) >= MIN_CLASSNAME_LENGTH + 2

=============================================================================

------------------------------- MODULE Mutf8 -------------------------------
(***************************************************************************)
(* convert_utf8_to_mutf8 (src/libredex/RedexResources.cpp).  The loop     *)
(* runs over the code points boost::u8_to_u32_iterator decodes from the   *)
(* input; the iterator rejects malformed UTF-8, surrogates and values     *)
(* above 0x10FFFF, so the input is a sequence of Unicode scalar values.   *)
(* One action per branch of the loop body, appending bytes to the         *)
(* ostringstream; the bit operations are the code's, with Bitwise.        *)
(***************************************************************************)
EXTENDS Naturals, Sequences, SequencesExt, Bitwise

CONSTANTS
    CodePoints,   \* the scalar values inputs are made of
    MaxLength     \* bound on the number of code points of an input

\* 0..0xD7FF and 0xE000..0x10FFFF
IsScalarValue(cp) == cp \in Nat /\ (cp <= 55295 \/ cp \in 57344..1114111)

ASSUME (\A cp \in CodePoints : IsScalarValue(cp)) /\ MaxLength \in Nat

Bytes == 0..255

\* utf32_to_utf8 of one code point below 0x10000 (Android libutils): the
\* standard 1, 2 or 3 byte form.
Utf8Bytes(cp) ==
    IF cp < 128 THEN << cp >>
    ELSE IF cp < 2048 THEN << 192 | shiftR(cp, 6), 128 | (cp & 63) >>
    ELSE << 224 | shiftR(cp, 12), 128 | (shiftR(cp, 6) & 63), 128 | (cp & 63) >>

\* pack_to_3_byte_form(c) for a char16_t c.
PackTo3ByteForm(c) ==
    << 224 | (shiftR(c, 12) & 15), 128 | (shiftR(c, 6) & 63), 128 | (c & 63) >>

VARIABLES
    input,    \* the decoded code points
    i,        \* index of *it in input (Len(input) + 1 is end)
    out,      \* the bytes written to out
    pc        \* "loop" or "done"

vars == <<input, i, out, pc>>

TypeOK ==
    /\ input \in Seq(CodePoints)
    /\ i \in 1..Len(input) + 1
    /\ out \in Seq(Bytes)
    /\ pc \in {"loop", "done"}

Init ==
    /\ input \in BoundedSeq(CodePoints, MaxLength)
    /\ i = 1
    /\ out = << >>
    /\ pc = "loop"

\* Mutant: code point 0 takes the normal UTF-8 branch.
EncodeNullAsUtf8 ==
    /\ pc = "loop"
    /\ i <= Len(input)
    /\ input[i] = 0
    /\ out' = out \o Utf8Bytes(0)
    /\ i' = i + 1
    /\ UNCHANGED <<input, pc>>

\* code_point == 0: out << '\xC0' << '\x80'.
EncodeNull ==
    /\ pc = "loop"
    /\ i <= Len(input)
    /\ input[i] = 0
    /\ out' = out \o << 192, 128 >>
    /\ i' = i + 1
    /\ UNCHANGED <<input, pc>>

\* Mutant: the iterator is advanced twice after a BMP code point.
EncodeBmpDoubleStep ==
    /\ pc = "loop"
    /\ i <= Len(input)
    /\ input[i] # 0 /\ input[i] < 65536
    /\ out' = out \o Utf8Bytes(input[i])
    /\ i' = i + 2
    /\ UNCHANGED <<input, pc>>

\* 0 < code_point < 0x10000: the len bytes of utf32_to_utf8's dest.
\* always_assert(len != -1) holds: utf32_to_utf8_length of one code point
\* is never -1.
EncodeBmp ==
    /\ pc = "loop"
    /\ i <= Len(input)
    /\ input[i] # 0 /\ input[i] < 65536
    /\ out' = out \o Utf8Bytes(input[i])
    /\ i' = i + 1
    /\ UNCHANGED <<input, pc>>

\* Mutant: code_point -= 0x10000 is left out.
EncodeSupplementaryUnshifted ==
    /\ pc = "loop"
    /\ i <= Len(input)
    /\ input[i] >= 65536
    /\ LET cp   == input[i]
           high == 55296 + (shiftR(cp, 10) & 1023)
           low  == 56320 + (cp & 1023)
       IN  out' = out \o PackTo3ByteForm(high) \o PackTo3ByteForm(low)
    /\ i' = i + 1
    /\ UNCHANGED <<input, pc>>

\* code_point >= 0x10000: the UTF-16 surrogate pair, each unit packed in
\* the 3 byte form.
EncodeSupplementary ==
    /\ pc = "loop"
    /\ i <= Len(input)
    /\ input[i] >= 65536
    /\ LET cp   == input[i] - 65536
           high == 55296 + (shiftR(cp, 10) & 1023)
           low  == 56320 + (cp & 1023)
       IN  out' = out \o PackTo3ByteForm(high) \o PackTo3ByteForm(low)
    /\ i' = i + 1
    /\ UNCHANGED <<input, pc>>

\* it == end: return out.str().
Finish ==
    /\ pc = "loop"
    /\ i > Len(input)
    /\ pc' = "done"
    /\ UNCHANGED <<input, i, out>>

Terminated ==
    /\ pc = "done"
    /\ UNCHANGED vars

Next ==
    \/ EncodeNull
    \/ EncodeBmp
    \/ EncodeSupplementary
    \/ Finish
    \/ Terminated

Spec == Init /\ [][Next]_vars

-----------------------------------------------------------------------------
(***************************************************************************)
(* Reference: a Modified UTF-8 reader (as the Android resource format and *)
(* java.io.DataInput.readUTF read it): 1, 2 and 3 byte forms give UTF-16  *)
(* units, a high surrogate followed by a low one gives one code point.    *)
(* A byte that starts no valid form makes the reading fail (-1).          *)
(***************************************************************************)
IsContinuation(b) == b \div 64 = 2

RECURSIVE Utf16Units(_)
Utf16Units(b) ==
    IF b = << >> THEN << >>
    ELSE IF b[1] \div 128 = 0 THEN << b[1] >> \o Utf16Units(Tail(b))
    ELSE IF b[1] \div 32 = 6 /\ Len(b) >= 2 /\ IsContinuation(b[2])
         THEN << (b[1] % 32) * 64 + (b[2] % 64) >> \o Utf16Units(SubSeq(b, 3, Len(b)))
    ELSE IF b[1] \div 16 = 14 /\ Len(b) >= 3 /\ IsContinuation(b[2]) /\ IsContinuation(b[3])
         THEN << (b[1] % 16) * 4096 + (b[2] % 64) * 64 + (b[3] % 64) >>
                \o Utf16Units(SubSeq(b, 4, Len(b)))
    ELSE << -1 >>

IsHigh(u) == u \in 55296..56319
IsLow(u)  == u \in 56320..57343

RECURSIVE JoinSurrogates(_)
JoinSurrogates(u) ==
    IF u = << >> THEN << >>
    ELSE IF Len(u) >= 2 /\ IsHigh(u[1]) /\ IsLow(u[2])
         THEN << 65536 + (u[1] - 55296) * 1024 + (u[2] - 56320) >>
              \o JoinSurrogates(SubSeq(u, 3, Len(u)))
    ELSE << u[1] >> \o JoinSurrogates(Tail(u))

Decode(b) == JoinSurrogates(Utf16Units(b))

-----------------------------------------------------------------------------
(* Properties.                                                            *)

\* The output never holds a zero byte, so it stays a valid C string for
\* the resource format: code point 0 is written as C0 80, and no other
\* code point's bytes include 0.
NoZeroByte ==
    \A k \in 1..Len(out) : out[k] # 0

\* Whatever mix of NUL, ASCII, two and three byte, and supplementary code
\* points the input has, a Modified UTF-8 reader reads back exactly the
\* code points of the input: the surrogate arithmetic and the bit packing
\* lose nothing and no unit runs into its neighbour.
RoundTrips ==
    pc = "done" => Decode(out) = input

=============================================================================

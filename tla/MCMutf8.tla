------------------------------ MODULE MCMutf8 ------------------------------
(***************************************************************************)
(* Mutf8 on every input of up to three code points taken from the values *)
(* at each boundary the encoder and the UTF-8/UTF-16 forms have: NUL, the *)
(* ends of the 1, 2 and 3 byte ranges around the surrogate gap, the first *)
(* and last supplementary code points and one in between.                 *)
(***************************************************************************)
EXTENDS Mutf8

\* 0, 'A', 0x7F, 0x80, 0x7FF, 0x800, 0xD7FF, 0xE000, 0xFFFF, 0x10000,
\* 0x1F600, 0x10FFFF
MCCodePoints == {0, 65, 127, 128, 2047, 2048, 55295, 57344, 65535,
                 65536, 128512, 1114111}
MCMaxLength == 3

=============================================================================

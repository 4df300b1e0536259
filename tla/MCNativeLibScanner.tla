------------------------- MODULE MCNativeLibScanner -------------------------
(***************************************************************************)
(* NativeLibScanner with the length limits scaled down from 10 and 500 to *)
(* 3 and 4, so that inputs of up to 6 bytes hold names shorter than the   *)
(* minimum, names between the limits and runs longer than the maximum.    *)
(* One byte of each class the scanner tells apart: a lowercase letter,    *)
(* 'L', another uppercase letter, a digit, '/' (as '_' and '$') and a     *)
(* byte that is no name character.                                        *)
(***************************************************************************)
EXTENDS NativeLibScanner

MCMinLength == 3
MCMaxLength == 4
MCBytes == {"a", "L", "B", "0", "/", ";"}
MCMaxInputLength == 6

=============================================================================

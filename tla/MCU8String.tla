---------------------------- MODULE MCU8String -----------------------------
(* U8String for TLC: texts of one character of one byte, of one of two bytes *)
(* and of no whole character; the strings are symmetric.                     *)
EXTENDS U8String, TLC

MCTexts == {<<Ascii>>, <<2, Cont>>, <<Cont>>}
Symmetry == Permutations(Strings)
=============================================================================

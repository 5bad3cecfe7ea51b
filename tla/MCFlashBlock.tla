---------------------------- MODULE MCFlashBlock ----------------------------
(* FlashBlock with two pages of two words, two byte values and two blocks: *)
(* a block follows another one in the same page or in the next one, and a  *)
(* page is written, read back or rewritten.  The code never looks at the   *)
(* bytes it moves, so their values are interchangeable.                    *)
EXTENDS FlashBlock, TLC

DataSymmetry == Permutations(Data)
=============================================================================

----------------------------- MODULE MCStartup -----------------------------
(* Lists of up to six blocks, and a disk of blocks of two bits.             *)
EXTENDS Startup

XorBit(a, b) == (a + b) % 2
NextBit(b) == (b + 1) % 2

(* Any list; the code's are of even length, whole metadata blocks.          *)
ListsOver(S) == UNION {[1 .. n -> S] : n \in {0, 2, 4, 6}}

SmallSectors == {0, 1, 2}
AnyLists == ListsOver(SmallSectors)
AnyMarks == SUBSET SmallSectors
SomeContents == {[s \in SmallSectors |-> [i \in 0 .. 1 |-> IF i = s THEN 0 ELSE 1]]}
=============================================================================

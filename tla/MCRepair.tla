-------------------------------- MODULE MCRepair --------------------------------
(* Lists as writes make them: a data block, its parity, and so on.          *)
EXTENDS Repair

PairLists(S, offset) ==
  {[i \in 1 .. 2 * n |-> d[(i + 1) \div 2] + (IF i % 2 = 1 THEN 0 ELSE offset)] :
     n \in 0 .. 3, d \in [1 .. 3 -> S]}

OddSectors == {0, 2, 4, 5, 7, 9}
OddLists == PairLists({0, 2, 4}, 5)
=============================================================================

--------------------------- MODULE EntanglementLog ---------------------------
(***************************************************************************)
(* What the write path promises, without buffers, flushes or failures: an  *)
(* open entanglement is a log that only grows, two blocks at a time, by a  *)
(* data block and by its parity, the XOR of the data with the parity that  *)
(* was last in the log (the data itself when the log is empty).            *)
(***************************************************************************)
EXTENDS Blocks, Sequences

CONSTANTS
  DataSector,     \* the sectors upper layers may write
  ParityOffset    \* write_sector_scale

VARIABLE log      \* the entanglement chain, oldest block first

ParitySector(s) == s + ParityOffset

(* The content of the last parity: what the next parity is computed from.  *)
TailContent(l) == IF l = << >> THEN ZeroBlock ELSE l[Len(l)].content

Entry(s, b, m) ==
  [block_sector |-> s, block_checksum |-> crc32b(b, m), content |-> b]

Init == log = << >>

Extend(s, d, m, n) ==
  log' = Append(Append(log, Entry(s, d, m)),
                Entry(ParitySector(s), Xor(d, TailContent(log)), n))

Next == \E s \in DataSector, d \in Block, m, n \in Beyond : Extend(s, d, m, n)

Spec == Init /\ [][Next]_log
=============================================================================

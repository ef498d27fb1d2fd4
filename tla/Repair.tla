-------------------------------- MODULE Repair --------------------------------
(***************************************************************************)
(* repair_corrupted_blocks, repair_block and repair_block_rec: one pass    *)
(* over the entanglement that rebuilds the blocks whose bit is set in the  *)
(* corrupted_blocks bitmap, or marks them irrecoverable.                   *)
(*                                                                         *)
(* The pass runs in the constructor, before the device takes requests,     *)
(* under corrupted_blocks_lock: nothing interleaves with it, and one       *)
(* iteration of its loop is one step.  Contents are abstracted to where    *)
(* they come from: a rebuilt block is the XOR of the two blocks read.      *)
(*                                                                         *)
(* The list is what load_entanglement_and_checksums left, which need not    *)
(* be what an earlier session stored.  Both bitmaps are as bitmap_alloc     *)
(* left them, not cleared.  The head of the list is no block:               *)
(* list_entry of it is memory of the device structure, with a pointer of    *)
(* the wait list of entanglement_lock as its block_sector, and test_bit of  *)
(* that number faults: the kernel oopses with the lock held.                *)
(***************************************************************************)
EXTENDS Integers, Sequences, SequencesExt

CONSTANTS
  Sector,        \* values of block_sector
  Lists,         \* the lists load_entanglement_and_checksums may build
  InitialMarks   \* what bitmap_alloc may leave in the irrecoverable bitmap

ASSUME RepairAssumption ==
  /\ Sector \subseteq Nat
  /\ \A l \in Lists : l \in Seq(Sector)
  /\ InitialMarks \subseteq SUBSET Sector

VARIABLES
  entanglement,           \* the block_sector of each block of the list
  corrupted_blocks,       \* the bitmap, as a set of sectors
  irrecoverable_blocks,   \* the bitmap, as a set of sectors
  cursor,                 \* the position of the loop's block in the list
  pc,                     \* "scan", "oops", or how the pass returned
  writes,                 \* history: the blocks rebuilt, and from what
  errors                  \* history: the positions given up for an I/O error

vars == <<entanglement, corrupted_blocks, irrecoverable_blocks, cursor, pc,
          writes, errors>>

-----------------------------------------------------------------------------
Init ==
  /\ entanglement \in Lists
  /\ corrupted_blocks \in SUBSET Sector
  /\ irrecoverable_blocks \in InitialMarks
  /\ cursor = 1
  /\ pc = "scan"
  /\ writes = << >>
  /\ errors = {}

-----------------------------------------------------------------------------
Write(i, a, b) ==
  [position |-> i, from |-> <<a, b>>]

Outcome(state, marks, rebuilt) ==
  [state |-> state, marks |-> marks, rebuilt |-> rebuilt]

Fine == Outcome("REPAIRED", {}, << >>)
Fault == Outcome("oops", {}, << >>)
GiveUp(i) == Outcome("IRRECOVERABLE", {entanglement[i]}, << >>)

(* What a call does after its own recursive call, or without one.  The I/O  *)
(* of this rebuild is taken to succeed.                                     *)
Return(sub, i, data, parity) ==
  CASE sub.state = "IRRECOVERABLE" ->
         [sub EXCEPT !.marks = @ \cup {entanglement[i]}]
    [] sub.state = "REPAIRED" ->
         [sub EXCEPT !.rebuilt = Append(@, Write(i, data, parity))]
    [] sub.state = "oops" -> sub

(* Slip in Unrepaired: result_state starts as REPAIRED.                     *)
Repaired(i) == Fine

(* result_state as declared; what it stays when the parity is not corrupted. *)
Unrepaired(i) == GiveUp(i)

(* Slip in IsBeginning: the beginning of the list is not recognised.        *)
Nowhere(data, dir) == FALSE

IsBeginning(data, dir) == dir = -1 /\ data = 1

(* A call of repair_block_rec on the block at position i: rec has what the  *)
(* calls on the other blocks return, bits are the sectors whose bit is set. *)
Call(bits, dir, rec, i) ==
  LET corrupted(j) == entanglement[j] \in bits
      last == Len(entanglement)
      data == i + dir
      parity == i + 2 * dir
      deeper == IF corrupted(parity) THEN rec[parity] ELSE Unrepaired(i)
      ends == \/ dir = 1 /\ i = last
              \/ data \in 1 .. last /\ (corrupted(data) \/ IsBeginning(data, dir))
  IN  IF ends THEN GiveUp(i)
      ELSE IF {data, parity} \subseteq 1 .. last
      THEN Return(deeper, i, data, parity)
      ELSE Fault

repair_block_rec(bits, dir) ==
  LET rec[i \in 1 .. Len(entanglement)] == Call(bits, dir, rec, i) IN rec

(* The two calls of repair_block, for the left and for the "right" block,   *)
(* which the code takes from list_node.prev as well.                        *)
Left(i) ==
  IF i > 1 /\ entanglement[i - 1] \in corrupted_blocks
  THEN repair_block_rec(corrupted_blocks, -1)[i - 1]
  ELSE Fine

SectorsOf(ws) == {entanglement[w.position] : w \in Range(ws)}

(* Slip in Right: the list head passes for a good block.                    *)
RightOfHead(i) ==
  LET bits == corrupted_blocks \ SectorsOf(Left(i).rebuilt) IN
  IF i > 1 /\ entanglement[i - 1] \in bits
  THEN repair_block_rec(bits, 1)[i - 1]
  ELSE Fine

Right(i) ==
  LET bits == corrupted_blocks \ SectorsOf(Left(i).rebuilt) IN
  CASE i = 1 -> Fault
    [] i > 1 /\ entanglement[i - 1] \in bits -> repair_block_rec(bits, 1)[i - 1]
    [] OTHER -> Fine

-----------------------------------------------------------------------------
(* A block is a root when it is corrupted, not marked, and has an even      *)
(* sector, which stands for "is a data block".                              *)
IsRoot(i) ==
  /\ entanglement[i] \in corrupted_blocks \ irrecoverable_blocks
  /\ entanglement[i] % 2 = 0

AtRoot == pc = "scan" /\ cursor <= Len(entanglement) /\ IsRoot(cursor)

States(i) == {Left(i).state, Right(i).state}

(* Slip in Advance: the loop stays where it is.                             *)
StayHere == cursor' = cursor /\ pc' = "scan" /\ UNCHANGED entanglement

Advance == cursor' = cursor + 1 /\ pc' = "scan" /\ UNCHANGED entanglement

Skip ==
  /\ pc = "scan" /\ cursor <= Len(entanglement) /\ ~IsRoot(cursor)
  /\ Advance
  /\ UNCHANGED <<corrupted_blocks, irrecoverable_blocks, writes, errors>>

RepairFaults ==
  /\ AtRoot
  /\ "oops" \in States(cursor)
  /\ pc' = "oops"
  /\ UNCHANGED <<entanglement, corrupted_blocks, irrecoverable_blocks, cursor,
                 writes, errors>>

(* What the two recursions did; "root" is what is written after them.       *)
Recurse(marks, root) ==
  LET ws == Left(cursor).rebuilt \o Right(cursor).rebuilt \o root IN
  /\ irrecoverable_blocks' = irrecoverable_blocks \cup Left(cursor).marks
                               \cup Right(cursor).marks \cup marks
  /\ writes' = writes \o ws
  /\ corrupted_blocks' = corrupted_blocks \ SectorsOf(ws)

(* Slip in MarkIrrecoverable: only the blocks of the recursion are marked.  *)
MarkOnlyNeighbours ==
  /\ AtRoot
  /\ "oops" \notin States(cursor) /\ "IRRECOVERABLE" \in States(cursor)
  /\ Recurse({}, << >>)
  /\ Advance
  /\ UNCHANGED errors

MarkIrrecoverable ==
  /\ AtRoot
  /\ "oops" \notin States(cursor) /\ "IRRECOVERABLE" \in States(cursor)
  /\ Recurse({entanglement[cursor]}, << >>)
  /\ Advance
  /\ UNCHANGED errors

(* Slip in Rebuild: the block before this one is written.                   *)
RebuildNeighbour ==
  /\ AtRoot
  /\ States(cursor) = {"REPAIRED"}
  /\ Recurse({}, <<Write(cursor - 1, cursor, cursor)>>)
  /\ Advance
  /\ UNCHANGED errors

(* left_block and right_block are both the block before this one.           *)
Rebuild ==
  /\ AtRoot
  /\ States(cursor) = {"REPAIRED"}
  /\ Recurse({}, <<Write(cursor, cursor - 1, cursor - 1)>>)
  /\ Advance
  /\ UNCHANGED errors

(* Slip in RebuildFails: the bit is cleared although nothing was written.   *)
FailClearingBit ==
  /\ AtRoot
  /\ States(cursor) = {"REPAIRED"}
  /\ corrupted_blocks' = corrupted_blocks \ {entanglement[cursor]}
  /\ errors' = errors \cup {cursor}
  /\ Advance
  /\ UNCHANGED <<irrecoverable_blocks, writes>>

(* A read or write of ent_dev_rwSector fails: the bit stays set.            *)
RebuildFails ==
  /\ AtRoot
  /\ States(cursor) = {"REPAIRED"}
  /\ Recurse({}, << >>)
  /\ errors' = errors \cup {cursor}
  /\ Advance

(* repair_corrupted_blocks returns err, which it never sets.                *)
Finish ==
  /\ pc = "scan" /\ cursor > Len(entanglement)
  /\ pc' \in {"done", "failed"}
  /\ UNCHANGED <<entanglement, corrupted_blocks, irrecoverable_blocks, cursor,
                 writes, errors>>

Next ==
  \/ Skip
  \/ RepairFaults
  \/ MarkIrrecoverable
  \/ Rebuild
  \/ RebuildFails
  \/ Finish

Spec == Init /\ [][Next]_vars
-----------------------------------------------------------------------------
(* Properties.                                                              *)

TypeOK ==
  /\ entanglement \in Seq(Sector)
  /\ corrupted_blocks \subseteq Sector
  /\ irrecoverable_blocks \subseteq Sector
  /\ cursor \in 1 .. Len(entanglement) + 1
  /\ pc \in {"scan", "oops", "done", "failed"}
  /\ \A w \in Range(writes) :
       /\ w.position \in 1 .. Len(entanglement)
       /\ w.from \in (1 .. Len(entanglement)) \X (1 .. Len(entanglement))
  /\ errors \subseteq 1 .. Len(entanglement)

(* The pass oopses only if the first block of the entanglement is marked as *)
(* corrupted: every other walk ends on a good, corrupted or missing block   *)
(* before it tests the bit of the list head (lines 313-323, 342-354, 457).  *)
OopsOnlyOverFirstBlock ==
  pc = "oops" => entanglement[1] \in corrupted_blocks

(* The recursion never repairs: every block written is the one the loop is  *)
(* at, and the block before it, the only one read, was not corrupted.       *)
(* (lines 299, 330-337, 355-361, 462-466)                                   *)
OnlyRootsAreRebuilt ==
  [][writes' # writes =>
       /\ writes' = Append(writes, Write(cursor, cursor - 1, cursor - 1))
       /\ entanglement[cursor - 1] \notin corrupted_blocks]_vars

(* A block is marked irrecoverable only if it is corrupted, and a bit is    *)
(* cleared only if its block was written (lines 410, 464, 533).             *)
BitsFollowRepairs ==
  [][/\ irrecoverable_blocks \subseteq irrecoverable_blocks'
     /\ irrecoverable_blocks' \ irrecoverable_blocks \subseteq corrupted_blocks'
     /\ corrupted_blocks' \subseteq corrupted_blocks
     /\ corrupted_blocks \ corrupted_blocks' \subseteq SectorsOf(writes')]_vars

(* A pass that returns has not forgotten a corrupted block it takes for a   *)
(* data block: its bit is cleared, or it is marked, or it was given up for  *)
(* an I/O error (lines 561-568).                                            *)
NoRootIsForgotten ==
  pc \in {"done", "failed"} =>
    \A i \in 1 .. Len(entanglement) :
      entanglement[i] \in corrupted_blocks /\ entanglement[i] % 2 = 0 =>
        entanglement[i] \in irrecoverable_blocks \/ i \in errors

-----------------------------------------------------------------------------
(* What comments and the report say and the code does not do.               *)

(* The report: a data block is rebuilt by XOR of the two adjacent parities. *)
DataIsRebuiltFromBothParities ==
  \A w \in Range(writes) : w.from = <<w.position - 1, w.position + 1>>
=============================================================================

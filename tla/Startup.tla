------------------------------ MODULE Startup ------------------------------
(***************************************************************************)
(* What the constructor does with a list it has loaded, before it accepts  *)
(* requests: corrupt_blocks changes random blocks if the application asked *)
(* for it, check_corruption looks for blocks that no longer have their     *)
(* checksum, and the repair pass of Repair rewrites what is marked.        *)
(*                                                                         *)
(* One thread runs all of it and no bio is accepted meanwhile, so a loop   *)
(* body is a step.  Blocks have their contents here; a failed write may    *)
(* have reached the disk.                                                  *)
(***************************************************************************)
EXTENDS Repair, Blocks

CONSTANTS
  NextByte(_),       \* the C operator ++ on an unsigned char
  Contents,          \* contents the blocks may have, by block number
  metadata_size,
  dev_size,
  MaxCorruptible     \* bound: the longest list corruption is tried on

ASSUME StartupAssumption ==
  /\ 1 \in Position
  /\ \A b \in Byte : NextByte(b) \in Byte /\ NextByte(b) # b
  /\ \A c \in Contents : c \in [Sector -> Block]
  /\ metadata_size \in Nat /\ dev_size \in Nat
  /\ MaxCorruptible \in Nat

VARIABLES
  stage,             \* the call the constructor is in, "up" or "refused"
  redundancy_flag,
  disk,              \* the content of each block
  original,          \* history: the contents before the constructor
  hits               \* history: how often each block was corrupted

startupVars == <<vars, stage, redundancy_flag, disk, original, hits>>

sector_checksum_map == [s \in Sector |-> ZeroChecksum]

-----------------------------------------------------------------------------
StartupInit ==
  /\ Init
  /\ redundancy_flag \in BOOLEAN
  /\ \/ stage = "corrupt" /\ Len(entanglement) <= MaxCorruptible
     \/ stage = IF redundancy_flag THEN "check" ELSE "up"
  /\ disk \in Contents
  /\ original = disk
  /\ hits = [s \in Sector |-> 0]

AfterCorruption == IF redundancy_flag THEN "check" ELSE "up"

Here == entanglement[cursor]

(* page_ptr[1] += 1, read and written back.                                 *)
CorruptedHere == [disk EXCEPT ![Here][1] = NextByte(@)]

(* Slip in CorruptBlock: the page is not written back.                      *)
CorruptPageOnly ==
  /\ stage = "corrupt" /\ cursor <= Len(entanglement)
  /\ hits' = [hits EXCEPT ![Here] = @ + 1]
  /\ Advance
  /\ UNCHANGED <<corrupted_blocks, irrecoverable_blocks, writes, errors,
                 stage, redundancy_flag, disk, original>>

CorruptBlock ==
  /\ stage = "corrupt" /\ cursor <= Len(entanglement)
  /\ disk' = CorruptedHere
  /\ hits' = [hits EXCEPT ![Here] = @ + 1]
  /\ Advance
  /\ UNCHANGED <<corrupted_blocks, irrecoverable_blocks, writes, errors,
                 stage, redundancy_flag, original>>

(* Slip in SpareBlock: the loop takes the head of the list for a block.     *)
SpareHead ==
  /\ stage = "corrupt" /\ cursor <= Len(entanglement) + 1
  /\ Advance
  /\ UNCHANGED <<corrupted_blocks, irrecoverable_blocks, writes, errors,
                 stage, redundancy_flag, disk, original, hits>>

SpareBlock ==
  /\ stage = "corrupt" /\ cursor <= Len(entanglement)
  /\ Advance
  /\ UNCHANGED <<corrupted_blocks, irrecoverable_blocks, writes, errors,
                 stage, redundancy_flag, disk, original, hits>>

(* The read or the write fails, or, before the first block, the lock or the *)
(* page is not to be had.                                                   *)
CorruptionFails ==
  /\ stage = "corrupt" /\ cursor <= Len(entanglement)
  /\ stage' = "refused"
  /\ \/ UNCHANGED <<disk, hits>>
     \/ disk' = CorruptedHere /\ hits' = [hits EXCEPT ![Here] = @ + 1]
  /\ UNCHANGED <<vars, redundancy_flag, original>>

(* err is returned, which only I/O on a block sets: if no block was chosen  *)
(* the constructor may take what was on the stack for an error.             *)
CorruptionEnds ==
  /\ stage = "corrupt" /\ cursor > Len(entanglement)
  /\ cursor' = 1
  /\ \/ stage' = AfterCorruption
     \/ stage' = "refused" /\ \A s \in Sector : hits[s] = 0
  /\ UNCHANGED <<entanglement, corrupted_blocks, irrecoverable_blocks, pc, writes,
                 errors, redundancy_flag, disk, original, hits>>

(* sector is advanced twice in each iteration, up to the size of the device *)
(* in blocks.                                                               *)
Checked ==
  {s \in Sector : s >= metadata_size /\ s < dev_size /\ (s - metadata_size) % 2 = 0}

(* Only a sector with a checksum in the map is read, and the map is as      *)
(* kzalloc left it: nothing fills it before.                                *)
check_corruption ==
  /\ stage = "check"
  /\ corrupted_blocks' = corrupted_blocks \cup
       {s \in Checked : /\ sector_checksum_map[s] # ZeroChecksum
                        /\ \E m \in Beyond : crc32b(disk[s], m) # sector_checksum_map[s]}
  /\ stage' = "repair"
  /\ UNCHANGED <<entanglement, irrecoverable_blocks, cursor, pc, writes, errors,
                 redundancy_flag, disk, original, hits>>

(* No page, no lock, no bitmap.                                             *)
CheckFails ==
  /\ stage = "check"
  /\ stage' = "refused"
  /\ UNCHANGED <<vars, redundancy_flag, disk, original, hits>>

(* What a list of rebuilt blocks does to the disk, one after the other.     *)
RebuiltOnDisk(d, ws) ==
  LET xored(e, from) == Xor(e[entanglement[from[1]]], e[entanglement[from[2]]])
      after[n \in 0 .. Len(ws)] ==
        IF n = 0 THEN d
        ELSE [after[n - 1] EXCEPT ![entanglement[ws[n].position]] =
                xored(after[n - 1], ws[n].from)]
  IN  after[Len(ws)]

(* A step of the repair pass, with what it does to the disk and to the      *)
(* constructor.                                                             *)
RepairStep ==
  /\ stage = "repair"
  /\ Next
  /\ \/ disk' = RebuiltOnDisk(disk, SubSeq(writes', Len(writes) + 1, Len(writes')))
     \/ /\ errors' # errors
        /\ disk' = RebuiltOnDisk(disk, <<Write(cursor, cursor - 1, cursor - 1)>>)
  /\ stage' = CASE pc' = "done" -> "up"
                [] pc' = "failed" -> "refused"
                [] OTHER -> "repair"
  /\ UNCHANGED <<redundancy_flag, original, hits>>

StartupNext ==
  \/ CorruptBlock
  \/ SpareBlock
  \/ CorruptionFails
  \/ CorruptionEnds
  \/ check_corruption
  \/ CheckFails
  \/ RepairStep

(* One thread runs the constructor, and its I/O is answered.                *)
StartupSpec == StartupInit /\ [][StartupNext]_startupVars /\ WF_startupVars(StartupNext)
-----------------------------------------------------------------------------
(* Properties, besides those of Repair.                                     *)

StartupTypeOK ==
  /\ TypeOK
  /\ stage \in {"corrupt", "check", "repair", "up", "refused"}
  /\ redundancy_flag \in BOOLEAN
  /\ disk \in [Sector -> Block]
  /\ hits \in [Sector -> Nat]

(* Search and repair change no block that is not in the list or whose bit   *)
(* is not set, whatever fails and however often a sector is listed (lines   *)
(* 457-493, 525, 562-564).                                                  *)
OnlyMarkedBlocksAreRewritten ==
  [][stage # "corrupt" =>
       \A s \in Sector :
         disk'[s] # disk[s] => s \in corrupted_blocks /\ s \in Range(entanglement)]_startupVars

(* A block that corrupt_blocks changed once has another checksum, unless it *)
(* starts with a zero byte and its checksum says nothing (line 88 and       *)
(* crc32b, utils.h:76): what is simulated is what the search looks for.     *)
OneHitChangesChecksum ==
  stage \in {"corrupt", "check"} =>
    \A s \in Sector, m, n \in Beyond :
      hits[s] = 1 /\ original[s][0] # ZeroByte =>
        crc32b(disk[s], m) # crc32b(original[s], n)

(* The constructor comes to an end: it accepts the device, refuses it, or   *)
(* oopsed in the repair pass (lines 75-96, 561-568).                        *)
StartupEnds == <>(stage \in {"up", "refused"} \/ pc = "oops")

-----------------------------------------------------------------------------
(* What comments and the report say and the code does not do.               *)

(* The report: the checksum of a block is compared with that of when it was *)
(* written, and its bit is 1 if it is corrupted.  Of the sectors the search *)
(* looks at, those that corruption changed once, in a way that changes      *)
(* their checksum, are marked when the repair pass starts.                  *)
CorruptionIsNoticed ==
  stage = "repair" /\ cursor = 1 =>
    \A s \in Range(entanglement) \cap Checked :
      hits[s] = 1 /\ original[s][0] # ZeroByte => s \in corrupted_blocks
=============================================================================

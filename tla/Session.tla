------------------------------ MODULE Session ------------------------------
(***************************************************************************)
(* What survives a session.  A device is opened (by "init", which starts   *)
(* with an empty entanglement, or by "open", which loads one), written,    *)
(* and closed, or the machine crashes.  Memory is lost in between; what    *)
(* the next session has is the metadata blocks on disk.                    *)
(*                                                                         *)
(* The metadata is taken not to be overwritten by user data or parities,   *)
(* and a block reaches the disk as a whole or not at all.  A failed load   *)
(* leaves the device closed and the disk as it was: it is no step here.    *)
(***************************************************************************)
EXTENDS WritePath

CONSTANTS
  ByteRange,     \* 256, the values of the byte load keeps of a sector
  MaxSessions    \* bound: how often the device is opened

ASSUME SessionAssumption ==
  /\ ByteRange \in Nat \ {0}
  /\ MaxSessions \in Nat \ {0}
  /\ SectorBlocks > 0 => MetaStart > 2 * SectorBlocks + 2
  /\ Default # Unset /\ {Default, Unset} \cap Sector = {}

VARIABLES
  phase,      \* "open", "closed" with all that is left stored, or "broken"
  opened,     \* how the session was opened, or the last one if none is
  sessions,   \* history: the sessions so far
  recorded    \* history: the sectors of the chain of the last new device

sessionVars == <<vars, phase, opened, sessions, recorded>>

-----------------------------------------------------------------------------
SectorArea == MetaStart .. MetaStart + SectorBlocks - 1

FreshSectors ==
  [buffer |-> [i \in 0 .. SectorsPerBlock - 1 |-> Unset], size |-> 0, next |-> MetaStart]

FreshChecksums ==
  [buffer |-> [i \in 0 .. ChecksumsPerBlock - 1 |-> Unset], size |-> 0,
   next |-> MetaStart + SectorBlocks]

(* The memory of a session that ends is gone.  It is shown as the           *)
(* constructor of the next one sets it before it loads.                     *)
ForgetMemory ==
  /\ chain' = << >>
  /\ last_entangled_block' = ZeroBlock
  /\ sectors' = FreshSectors
  /\ checksums' = FreshChecksums
  /\ sector_checksum_map' = [s \in MapSector |-> ZeroChecksum]
  /\ pc' = "idle" /\ req' = NoRequest
  /\ UNCHANGED <<disk, done, failed, wild>>

SessionInit ==
  /\ Init
  /\ phase = "open" /\ opened = "init" /\ sessions = 1
  /\ recorded = << >>

-----------------------------------------------------------------------------
(* Any step of the write path.                                              *)
WriteStep ==
  /\ phase = "open"
  /\ Next
  /\ recorded' = IF opened = "init"
                 THEN [i \in DOMAIN Committed' |-> Committed'[i].block_sector]
                 ELSE recorded
  /\ UNCHANGED <<phase, opened, sessions>>

(* The page of a buffer: memcpy copies sizeof(buffer), the "copied" entries *)
(* of a pointer's size, into a page that has whatever its last user left.   *)
StoredPage(m, copied) ==
  [i \in DOMAIN m.buffer |-> IF i < copied THEN m.buffer[i] ELSE Unset]

OnDisk(blocks, block, page) ==
  [b \in DOMAIN blocks \cup {block} |-> IF b = block THEN page ELSE blocks[b]]

SectorsStored == OnDisk(metaDisk, sectors.next, StoredPage(sectors, 1))
AllStored == OnDisk(SectorsStored, checksums.next, StoredPage(checksums, 2))

(* The destructor stores the two buffers.  If a write fails the second is   *)
(* not tried, and the device is closed all the same.                        *)
entanglement_tgt_dtr ==
  /\ phase = "open" /\ pc = "idle"
  /\ \/ phase' = "closed" /\ metaDisk' = AllStored
     \/ phase' = "broken" /\ metaDisk' \in {metaDisk, SectorsStored, AllStored}
  /\ ForgetMemory
  /\ UNCHANGED <<opened, sessions, recorded>>

(* A crash, at any point of a write and after an oops.                      *)
Crash ==
  /\ phase = "open"
  /\ phase' = "broken"
  /\ ForgetMemory
  /\ UNCHANGED <<metaDisk, opened, sessions, recorded>>

OpenWith(how) ==
  /\ phase # "open"
  /\ sessions < MaxSessions
  /\ phase' = "open" /\ opened' = how /\ sessions' = sessions + 1

OpenNew ==
  /\ OpenWith("init")
  /\ recorded' = << >>
  /\ UNCHANGED vars

(* A metadata block as the loader reads it; nothing is known of one that no *)
(* session wrote, or of the sectors that the bytes of checksums make.       *)
BlockRead(b) ==
  IF b \in DOMAIN metaDisk /\ DOMAIN metaDisk[b] = 0 .. SectorsPerBlock - 1
  THEN metaDisk[b]
  ELSE [i \in 0 .. SectorsPerBlock - 1 |-> Unset]

(* One byte of each sector is kept.                                         *)
LowByte(entry) ==
  CASE entry = Unset -> Unset
    [] entry = Default -> ByteRange - 1
    [] OTHER -> entry % ByteRange

(* Slip in EntryRead: the loop does not advance to the next block.          *)
EntryOfFirstBlock(k) == LowByte(BlockRead(MetaStart)[k % SectorsPerBlock])

EntryRead(k) ==
  LowByte(BlockRead(MetaStart + k \div SectorsPerBlock)[k % SectorsPerBlock])

(* The test for the end of the log compares a byte with 0xFFFFFFFFFFFFFFFF: *)
(* every slot of every block of the area becomes a block of the list.       *)
LoadedChain ==
  [i \in 1 .. SectorBlocks * SectorsPerBlock |->
     [block_sector |-> EntryRead(i - 1), block_checksum |-> Unset, content |-> Unset]]

(* Slip in LoadedSectors: next_sector is where the log starts.              *)
LoadedSectorsAtStart ==
  [buffer |-> BlockRead(MetaStart + SectorBlocks - 1), size |-> 0, next |-> MetaStart]

(* The buffers get the last blocks read; their sizes stay 0.  The next      *)
(* block of sectors is the first one of the log's checksums.                *)
LoadedSectors ==
  [buffer |-> BlockRead(MetaStart + SectorBlocks - 1), size |-> 0,
   next |-> MetaStart + SectorBlocks]

(* The checksums are read, and later written, from block                    *)
(* metadata_sector_size of the device on, among the user's data: nothing is *)
(* known of them.  One block is read for every two blocks of sectors.       *)
LoadedChecksums ==
  [buffer |-> [i \in 0 .. ChecksumsPerBlock - 1 |-> Unset], size |-> 0,
   next |-> SectorBlocks + (SectorBlocks + 1) \div 2]

(* The map stays empty; last_entangled_block is read from whatever block    *)
(* has the last low byte as its number.                                     *)
load_entanglement_and_checksums ==
  /\ OpenWith("load")
  /\ chain' = LoadedChain
  /\ sectors' = LoadedSectors
  /\ checksums' = LoadedChecksums
  /\ last_entangled_block' \in Block
  /\ UNCHANGED <<sector_checksum_map, metaDisk, pc, req, disk, done, failed, wild, recorded>>

SessionNext ==
  \/ WriteStep
  \/ entanglement_tgt_dtr
  \/ Crash
  \/ OpenNew
  \/ load_entanglement_and_checksums

SessionSpec == SessionInit /\ [][SessionNext]_sessionVars
-----------------------------------------------------------------------------
(* Properties.                                                              *)

LoadedEntry ==
  [block_sector : (0 .. ByteRange - 1) \cup {Unset}, block_checksum : {Unset},
   content : {Unset}]

SessionTypeOK ==
  /\ chain \in Seq(ChainEntry \cup LoadedEntry)
  /\ last_entangled_block \in Block
  /\ sectors \in Buffer(Sector, SectorsPerBlock)
  /\ checksums \in Buffer(Checksum, ChecksumsPerBlock)
  /\ sector_checksum_map \in [MapSector -> Checksum]
  /\ DOMAIN metaDisk \subseteq Nat
  /\ \A b \in DOMAIN metaDisk : metaDisk[b] \in MetaBlock
  /\ phase \in {"open", "closed", "broken"} /\ opened \in {"init", "load"}
  /\ sessions \in 1 .. MaxSessions
  /\ recorded \in Seq(Sector)

(* What a new device recorded survives: closes that fail, crashes at any    *)
(* point and later sessions lose at most the last block's worth of sectors; *)
(* the others stay on disk, in order, as far as their area reaches (lines   *)
(* 206, 257-262, 885, 1026-1033).                                           *)
Durable(i) ==
  /\ i <= Len(recorded) - (SectorsPerBlock - 1)
  /\ i <= SectorBlocks * (SectorsPerBlock - 1)

FlushedSectorsSurvive ==
  failed = 0 /\ wild = 0 =>
    \A i \in 1 .. Len(recorded) :
      Durable(i) =>
        LET block == MetaStart + (i - 1) \div (SectorsPerBlock - 1) IN
        /\ block \in DOMAIN metaDisk
        /\ metaDisk[block][(i - 1) % (SectorsPerBlock - 1)] = recorded[i]

(* A session that loaded the log never changes the sectors in it: what it   *)
(* writes itself goes behind their area, and its checksums do not reach it  *)
(* from below (lines 206-207, 859).  Behind it are the checksums of the log *)
(* (line 670): those the first flush or close of the session overwrites.    *)
LaterSessionsKeepTheLog ==
  [][phase = "open" /\ opened = "load" /\ checksums.next < MetaStart =>
       \A b \in SectorArea :
         /\ b \in DOMAIN metaDisk <=> b \in DOMAIN metaDisk'
         /\ b \in DOMAIN metaDisk => metaDisk'[b] = metaDisk[b]]_sessionVars

(* The loaded list has the durable sectors in the order of the log, a byte  *)
(* of each, with one stale slot after those of each block; writes that fail *)
(* in this session do not remove them (lines 164-196, 1103-1105).           *)
LoadFollowsTheLog ==
  phase = "open" /\ opened = "load" /\ failed = 0 /\ wild = 0 =>
    \A i \in 1 .. Len(recorded) :
      Durable(i) =>
        LET used == SectorsPerBlock - 1
            at == ((i - 1) \div used) * SectorsPerBlock + ((i - 1) % used) + 1
        IN  chain[at].block_sector = recorded[i] % ByteRange

-----------------------------------------------------------------------------
(* What comments and the report say and the code does not do.               *)

(* The report: close makes sure that everything that is necessary was       *)
(* persisted, and open loads it: no sector of the chain may be missing.     *)
ReopenHasEveryBlock ==
  [][phase = "closed" /\ opened = "init" /\ opened' = "load" =>
       \A r \in DOMAIN recorded :
         \E i \in DOMAIN chain' : chain'[i].block_sector = recorded[r]]_sessionVars

(* device.h: next_checksum is a sector of the header, which has the         *)
(* entanglement and the checksums, and not one of the data before it.       *)
MetadataStaysOffData == \A b \in DOMAIN metaDisk : b >= MetaStart
=============================================================================

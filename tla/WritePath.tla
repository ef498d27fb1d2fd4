------------------------------ MODULE WritePath ------------------------------
(***************************************************************************)
(* process_write_bio and flush_metadata: how a write of one block extends  *)
(* the entanglement, and how the sectors and checksums of the chain reach  *)
(* the metadata area through two buffers.                                  *)
(*                                                                         *)
(* The handler runs under metadata_buffers_lock from its first change of   *)
(* the device to its last, so at most one write is in the handler: pc and  *)
(* req are its program counter and its local variables.  It is split where *)
(* it may block in the synchronous write of flush_metadata.  Its exits     *)
(* before the chain is extended (-EINTR, an allocation that fails, a bio   *)
(* without data) change nothing that is modelled here.  A flush may also    *)
(* never return: that is a behaviour that stutters, and what BioLifecycle  *)
(* is about.                                                               *)
(*                                                                         *)
(* Buffer sizes are counted in entries, sectors of 8 bytes and checksums   *)
(* of 4: sector_buffer_size + 8 < 4096 is size + 1 < 512.                  *)
(***************************************************************************)
EXTENDS Blocks, Sequences

CONSTANTS
  DataSector,        \* the sectors upper layers may write
  ParityOffset,      \* write_sector_scale
  MapEntries,        \* dev_size, the entries sector_checksum_map has
  SectorsPerBlock,   \* sectors in a metadata block, 512 in the code
  MetaStart,         \* metadata_start_sector
  SectorBlocks,      \* metadata_sector_size
  Default,           \* a buffer entry of 0xFF bytes, "unused"
  Unset,             \* a buffer entry nothing was ever written to
  NoRequest,
  MaxWrites,         \* bound: writes that complete
  MaxFailures        \* bound: flushes that fail

ASSUME SectorAssumption ==
  /\ DataSector \subseteq Nat
  /\ ParityOffset \in Nat
  /\ MapEntries \in Nat

ASSUME MetadataAssumption ==
  /\ SectorsPerBlock \in Nat \ {0, 1}
  /\ MetaStart \in Nat
  /\ SectorBlocks \in Nat

ASSUME BoundAssumption == MaxWrites \in Nat /\ MaxFailures \in Nat

VARIABLES
  chain,                 \* entanglement: the list, oldest block first
  last_entangled_block,  \* the content of the last parity
  sectors,               \* block_sector_buffer, its size, next_sector
  checksums,             \* block_checksum_buffer, its size, next_checksum
  sector_checksum_map,
  metaDisk,              \* the metadata blocks written in this session
  pc,                    \* where the handler holding the lock is
  req,                   \* its local variables
  disk,                  \* the blocks the device has at the sectors
  done,                  \* history: the writes completed
  failed,                \* history: the flushes that failed
  wild                   \* history: wild reads the kernel survived

vars == <<chain, last_entangled_block, sectors, checksums,
          sector_checksum_map, metaDisk, pc, req, disk, done, failed, wild>>

-----------------------------------------------------------------------------
(* Slip in ChecksumsPerBlock: as many as sectors.                           *)
AsManyAsSectors == SectorsPerBlock

ChecksumsPerBlock == 2 * SectorsPerBlock

ParitySector(s) == s + ParityOffset

Sector == DataSector \cup {ParitySector(s) : s \in DataSector}

(* The sectors the map has an entry for: it is allocated for dev_size       *)
(* blocks and indexed by sectors of 512 bytes.                              *)
MapSector == {s \in Sector : s < MapEntries}

(* struct entangled_block; "content" is history, what was computed for it.  *)
Entry(s, b, m) ==
  [block_sector |-> s, block_checksum |-> crc32b(b, m), content |-> b]

(* Slip in NextParity: the data is copied, whatever the last block.         *)
ParityAlwaysCopied(data, last) == data

(* The parity of data after the block last: copied when last is all zeros. *)
NextParity(data, last) == IF is_buffer_empty(last) THEN data ELSE Xor(data, last)

(* Slip in Fits: <= for <.                                                  *)
FitsInLastSlot(m, capacity) == m.size + 1 <= capacity

(* An append that leaves room for one more entry; the last slot is not used. *)
Fits(m, capacity) == m.size + 1 < capacity

Stored(m, entry) ==
  [buffer |-> [m.buffer EXCEPT ![m.size] = entry],
   size   |-> m.size + 1,
   next   |-> m.next]

(* Slip in Reset: next_sector or next_checksum is not advanced.             *)
ResetInPlace(m, cleared) ==
  [buffer |-> [i \in DOMAIN m.buffer |-> IF i < cleared THEN Default ELSE m.buffer[i]],
   size   |-> 0,
   next   |-> m.next]

(* After a flush: memset clears sizeof(buffer) = 8 bytes, "cleared" entries. *)
Reset(m, cleared) ==
  [buffer |-> [i \in DOMAIN m.buffer |-> IF i < cleared THEN Default ELSE m.buffer[i]],
   size   |-> 0,
   next   |-> m.next + 1]

SectorsReset == Reset(sectors, 1)
ChecksumsReset == Reset(checksums, 2)

(* The whole buffer, unused and stale entries included, goes to m.next.     *)
Flushed(m) ==
  [b \in DOMAIN metaDisk \cup {m.next} |->
     IF b = m.next THEN m.buffer ELSE metaDisk[b]]

-----------------------------------------------------------------------------
(* The device as the constructor leaves it on a first opening.              *)
Init ==
  /\ chain = << >>
  /\ last_entangled_block = ZeroBlock
  /\ sectors = [buffer |-> [i \in 0 .. SectorsPerBlock - 1 |-> Unset],
                size |-> 0, next |-> MetaStart]
  /\ checksums = [buffer |-> [i \in 0 .. ChecksumsPerBlock - 1 |-> Unset],
                  size |-> 0, next |-> MetaStart + SectorBlocks]
  /\ sector_checksum_map = [s \in MapSector |-> ZeroChecksum]
  /\ metaDisk = << >>
  /\ pc = "idle" /\ req = NoRequest
  /\ disk = [s \in Sector |-> ZeroBlock]
  /\ done = 0 /\ failed = 0 /\ wild = 0

(* From the lock to the two list_add_tail: compute the parity, copy it to   *)
(* the page of the parity bio, extend the chain.  "page" is what the page   *)
(* from the pool held, m and n what follows the two buffers in memory.      *)
StartWrite(s, d, page, m, n) ==
  LET p == NextParity(d, last_entangled_block) IN
  /\ pc = "idle"
  /\ done < MaxWrites
  /\ pc' = "dataSector"
  /\ req' = [sector |-> s, data |-> d, parity |-> p, page |-> MemcpyPtrSize(page, p)]
  /\ chain' = Append(Append(chain, Entry(s, d, m)), Entry(ParitySector(s), p, n))
  /\ UNCHANGED <<last_entangled_block, sectors, checksums, sector_checksum_map,
                 metaDisk, disk, done, failed, wild>>

NewData == chain[Len(chain) - 1]

(* Slip in NewParity: the data block again.                                 *)
DataAgain == chain[Len(chain) - 1]

NewParity == chain[Len(chain)]

(* Slip in FlushFails: only the parity is taken off the chain.              *)
FlushFailsKeepingData(m) ==
  /\ failed < MaxFailures
  /\ failed' = failed + 1
  /\ metaDisk' \in {metaDisk, Flushed(m)}
  /\ chain' = SubSeq(chain, 1, Len(chain) - 1)
  /\ pc' = "idle" /\ req' = NoRequest
  /\ UNCHANGED <<sectors, checksums>>

(* err_metadata_flush: take both blocks off the chain again.  What this     *)
(* write put in the buffers stays.  The block may have reached the disk.    *)
FlushFails(m) ==
  /\ failed < MaxFailures
  /\ failed' = failed + 1
  /\ metaDisk' \in {metaDisk, Flushed(m)}
  /\ chain' = SubSeq(chain, 1, Len(chain) - 2)
  /\ pc' = "idle" /\ req' = NoRequest
  /\ UNCHANGED <<sectors, checksums>>

AppendSector(entry, next) ==
  \/ /\ Fits(sectors, SectorsPerBlock)
     /\ sectors' = Stored(sectors, entry)
     /\ pc' = next
     /\ UNCHANGED <<chain, checksums, metaDisk, req, failed>>
  \/ /\ ~Fits(sectors, SectorsPerBlock)
     /\ metaDisk' = Flushed(sectors)
     /\ sectors' = Stored(SectorsReset, entry)
     /\ pc' = next
     /\ UNCHANGED <<chain, checksums, req, failed>>
  \/ /\ ~Fits(sectors, SectorsPerBlock)
     /\ FlushFails(sectors)

AppendDataSector ==
  /\ pc = "dataSector"
  /\ AppendSector(NewData.block_sector, "dataChecksum")
  /\ UNCHANGED <<last_entangled_block, sector_checksum_map, disk, done, wild>>

(* After a flush the code passes the checksum itself as the source address  *)
(* of memcpy: the read faults and the kernel oopses with the lock held, or, *)
(* if that address happens to be mapped, copies whatever is there.          *)
AppendDataChecksum ==
  /\ pc = "dataChecksum"
  /\ \/ /\ Fits(checksums, ChecksumsPerBlock)
        /\ checksums' = Stored(checksums, NewData.block_checksum)
        /\ pc' = "paritySector"
        /\ UNCHANGED <<chain, sectors, metaDisk, req, failed, wild>>
     \/ /\ ~Fits(checksums, ChecksumsPerBlock)
        /\ metaDisk' = Flushed(checksums)
        /\ checksums' = ChecksumsReset
        /\ pc' = "oops"
        /\ UNCHANGED <<chain, sectors, req, failed, wild>>
     \/ /\ ~Fits(checksums, ChecksumsPerBlock)
        /\ metaDisk' = Flushed(checksums)
        /\ checksums' = Stored(ChecksumsReset, Unset)
        /\ pc' = "paritySector"
        /\ wild' = wild + 1
        /\ UNCHANGED <<chain, sectors, req, failed>>
     \/ /\ ~Fits(checksums, ChecksumsPerBlock)
        /\ FlushFails(checksums)
        /\ UNCHANGED wild
  /\ UNCHANGED <<last_entangled_block, sector_checksum_map, disk, done>>

AppendParitySector ==
  /\ pc = "paritySector"
  /\ AppendSector(NewParity.block_sector, "parityChecksum")
  /\ UNCHANGED <<last_entangled_block, sector_checksum_map, disk, done, wild>>

AppendParityChecksum ==
  /\ pc = "parityChecksum"
  /\ \/ /\ Fits(checksums, ChecksumsPerBlock)
        /\ checksums' = Stored(checksums, NewParity.block_checksum)
        /\ pc' = "submit"
        /\ UNCHANGED <<chain, sectors, metaDisk, req, failed>>
     \/ /\ ~Fits(checksums, ChecksumsPerBlock)
        /\ metaDisk' = Flushed(checksums)
        /\ checksums' = Stored(ChecksumsReset, NewParity.block_checksum)
        /\ pc' = "submit"
        /\ UNCHANGED <<chain, sectors, req, failed>>
     \/ /\ ~Fits(checksums, ChecksumsPerBlock)
        /\ FlushFails(checksums)
  /\ UNCHANGED <<last_entangled_block, sector_checksum_map, disk, done, wild>>

(* A store in the map.  One past its end changes memory that is not         *)
(* modelled: the map is as it was.                                          *)
Recorded(map, s, checksum) ==
  [t \in MapSector |-> IF t = s THEN checksum ELSE map[t]]

(* Slip in Submit: the map gets the checksum of the parity for both.        *)
SubmitMappingParity ==
  /\ pc = "submit"
  /\ last_entangled_block' = req.parity
  /\ sector_checksum_map' =
       Recorded(Recorded(sector_checksum_map, req.sector, NewParity.block_checksum),
                ParitySector(req.sector), NewParity.block_checksum)
  /\ disk' = [[disk EXCEPT ![req.sector] = req.data]
                EXCEPT ![ParitySector(req.sector)] = req.page]
  /\ done' = done + 1
  /\ pc' = "idle" /\ req' = NoRequest
  /\ UNCHANGED <<chain, sectors, checksums, metaDisk, failed, wild>>

(* From the update of last_entangled_block to mutex_unlock.  The device is  *)
(* taken to write both blocks, in the order of their submission: what other *)
(* orders and errors do to the disk is in BioLifecycle.                     *)
Submit ==
  /\ pc = "submit"
  /\ last_entangled_block' = req.parity
  /\ sector_checksum_map' =
       Recorded(Recorded(sector_checksum_map, req.sector, NewData.block_checksum),
                ParitySector(req.sector), NewParity.block_checksum)
  /\ disk' = [[disk EXCEPT ![req.sector] = req.data]
                EXCEPT ![ParitySector(req.sector)] = req.page]
  /\ done' = done + 1
  /\ pc' = "idle" /\ req' = NoRequest
  /\ UNCHANGED <<chain, sectors, checksums, metaDisk, failed, wild>>

(* The oops leaves the lock held: the handler never runs again.             *)
Next ==
  \/ \E s \in DataSector, d, page \in Block, m, n \in Beyond :
       StartWrite(s, d, page, m, n)
  \/ AppendDataSector
  \/ AppendDataChecksum
  \/ AppendParitySector
  \/ AppendParityChecksum
  \/ Submit

Spec == Init /\ [][Next]_vars
-----------------------------------------------------------------------------
(* Properties.                                                              *)

MetaEntry(value) == value \cup {Default, Unset}

Buffer(value, capacity) ==
  [buffer : [0 .. capacity - 1 -> MetaEntry(value)],
   size   : 0 .. capacity - 1,
   next   : Nat]

MetaBlock ==
  [0 .. SectorsPerBlock - 1 -> MetaEntry(Sector)]
    \cup [0 .. ChecksumsPerBlock - 1 -> MetaEntry(Checksum)]

ChainEntry == [block_sector : Sector, block_checksum : Checksum, content : Block]

Request == [sector : DataSector, data : Block, parity : Block, page : Block]

(* The type invariant.  A buffer always keeps its last slot free.           *)
TypeOK ==
  /\ chain \in Seq(ChainEntry)
  /\ last_entangled_block \in Block
  /\ sectors \in Buffer(Sector, SectorsPerBlock)
  /\ checksums \in Buffer(Checksum, ChecksumsPerBlock)
  /\ sector_checksum_map \in [MapSector -> Checksum]
  /\ DOMAIN metaDisk \subseteq Nat
  /\ \A b \in DOMAIN metaDisk : metaDisk[b] \in MetaBlock
  /\ pc \in {"idle", "dataSector", "dataChecksum", "paritySector",
             "parityChecksum", "submit", "oops"}
  /\ IF pc = "idle" THEN req = NoRequest ELSE req \in Request
  /\ disk \in [Sector -> Block]
  /\ done \in Nat /\ failed \in Nat /\ wild \in Nat

TailContent(l) == IF l = << >> THEN ZeroBlock ELSE l[Len(l)].content

(* The chain without the two blocks of a write that is still in the handler. *)
Committed == IF pc = "idle" THEN chain ELSE SubSeq(chain, 1, Len(chain) - 2)

(* While a write is in the handler its two blocks are the last of the       *)
(* chain, computed from the block that was last before it.                  *)
NewBlocksAreLast ==
  pc # "idle" =>
    /\ Len(chain) >= 2
    /\ \E m \in Beyond : NewData = Entry(req.sector, req.data, m)
    /\ \E m \in Beyond : NewParity = Entry(ParitySector(req.sector), req.parity, m)
    /\ req.parity = NextParity(req.data, last_entangled_block)

(* However flushes fail, the cached block the next parity is computed from  *)
(* is the last block of the chain (lines 1082, 1103-1105): a write that is  *)
(* taken back leaves both as they were.                                     *)
LastBlockIsChainTail == last_entangled_block = TailContent(Committed)

(* A block of the chain whose sector no later one was written to.           *)
Survives(c, i) == \A j \in i + 1 .. Len(c) : c[j].block_sector # c[i].block_sector

(* What the device has of a block of the chain.                             *)
OnDevice(i) == disk[Committed[i].block_sector]

(* What is left of this on disk.  A sector written again, or written as the *)
(* parity of another, is lost to its old neighbours, which nothing          *)
(* recomputes; and of a parity only the first bytes of a pointer's size are *)
(* stored (line 977).  A data block that survives with its two neighbours   *)
(* is the XOR of what the disk has of them in those bytes, however writes   *)
(* in between failed (lines 969-977, 1094-1105, 522).                       *)
SurvivingBlocksAreRecoverable ==
  \A i \in 1 .. Len(Committed) - 1 :
    i % 2 = 1 /\ (\A j \in {i - 1, i, i + 1} \ {0} : Survives(Committed, j)) =>
      LET left == IF i = 1 THEN ZeroBlock ELSE OnDevice(i - 1)
          right == OnDevice(i + 1)
      IN  \A k \in 0 .. PtrBytes - 1 : OnDevice(i)[k] = XorByte(left[k], right[k])

(* The i-th entry of a log kept in blocks of "used" entries, the block      *)
(* being filled in memory.                                                  *)
Logged(m, start, used, i) ==
  LET block == start + (i - 1) \div used
      slot  == (i - 1) % used
  IN  IF block < m.next THEN metaDisk[block][slot] ELSE m.buffer[slot]

LogLength(m, start, used) == (m.next - start) * used + m.size

(* Between writes, and as long as no flush failed, the metadata blocks on   *)
(* disk followed by the buffer list the sectors of the chain in its order   *)
(* (lines 1026-1065, 873-892).                                              *)
SectorLogMatchesChain ==
  pc = "idle" /\ failed = 0 =>
    LET used == SectorsPerBlock - 1 IN
    /\ LogLength(sectors, MetaStart, used) = Len(chain)
    /\ \A i \in 1 .. Len(chain) :
         Logged(sectors, MetaStart, used, i) = chain[i].block_sector

(* The same of the checksums, as long as no wild address was read: so the   *)
(* i-th checksum belongs to the i-th sector.                                *)
ChecksumLogMatchesChain ==
  pc = "idle" /\ failed = 0 /\ wild = 0 =>
    LET used == ChecksumsPerBlock - 1
        start == MetaStart + SectorBlocks IN
    /\ LogLength(checksums, start, used) = Len(chain)
    /\ \A i \in 1 .. Len(chain) :
         Logged(checksums, start, used, i) = chain[i].block_checksum

(* A failed flush leaves in the buffers what its write had appended, never  *)
(* more than both sectors and one checksum, and nothing is lost: the two    *)
(* logs run ahead of the chain, and of each other, by at most that much per *)
(* failure (lines 1026-1079, 1103-1105).                                    *)
LogsDriftOnlyByFailures ==
  pc = "idle" =>
    LET s == LogLength(sectors, MetaStart, SectorsPerBlock - 1)
        c == LogLength(checksums, MetaStart + SectorBlocks, ChecksumsPerBlock - 1)
    IN  /\ Len(chain) <= c /\ c <= s
        /\ s <= c + failed
        /\ c <= Len(chain) + failed

(* However writes fail, a checksum block reaches the disk only after two    *)
(* sector blocks (lines 880-892), so a checksum area of half the blocks is  *)
(* not full before the sectors' one.  The code rounds: of 3k + 2 blocks it  *)
(* gives the checksums k and the sectors 2k + 1, and they are (660-661).    *)
ChecksumsNeedHalfTheBlocks ==
  2 * (checksums.next - (MetaStart + SectorBlocks)) <= sectors.next - MetaStart

(* A metadata block that reached the disk never changes again: a flush that *)
(* is retried after an error writes the same block with the same content    *)
(* (lines 871-892), provided the sector log stays in its own area.          *)
FlushedBlocksAreFinal ==
  [][\A b \in DOMAIN metaDisk :
       b \in DOMAIN metaDisk' /\ metaDisk'[b] = metaDisk[b]]_vars

(* Between writes the map has, for each sector below its size, a checksum   *)
(* of the content the chain last recorded for it, and 0 for a sector never  *)
(* written (lines 690, 1085-1086), even if one write's parity has the       *)
(* sector of another's data.  For most sectors the code stores past its end.*)
MapTracksChain ==
  pc = "idle" =>
    \A s \in MapSector :
      LET at == {i \in 1 .. Len(chain) : chain[i].block_sector = s} IN
      IF at = {} THEN sector_checksum_map[s] = ZeroChecksum
      ELSE LET last == CHOOSE i \in at : \A j \in at : j <= i
           IN  \E m \in Beyond :
                 sector_checksum_map[s] = crc32b(chain[last].content, m)

(* A session in which every flush succeeds always oopses at the same write, *)
(* the 1024th with 512 sectors per block, and not before (line 1049).       *)
OopsAtSecondChecksumFlush ==
  failed = 0 /\ wild = 0 =>
    /\ done < ChecksumsPerBlock
    /\ pc = "oops" => done = ChecksumsPerBlock - 1

(* The write path implements the log: a write extends it when it submits    *)
(* its two bios, and every other step, failures included, leaves it alone.  *)
Log == INSTANCE EntanglementLog WITH log <- Committed

ImplementsLog == Log!Spec

-----------------------------------------------------------------------------
(* What comments and the report say and the code does not do.               *)

(* Line 922 and the report: the block stored for the parity is the parity.  *)
ParityBioHoldsParity ==
  pc = "idle" /\ chain # << >> =>
    disk[chain[Len(chain)].block_sector] = last_entangled_block
=============================================================================

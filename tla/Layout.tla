------------------------------- MODULE Layout -------------------------------
(***************************************************************************)
(* Where things are on the underlying device.  The constructor divides it, *)
(* in 4096-byte blocks, into data, sector metadata, checksum metadata and  *)
(* parities; the application sizes the virtual device; and the I/O paths   *)
(* turn their addresses into the 512-byte sectors of the block layer, the  *)
(* metadata path through ent_dev_rwSector, the write path directly.        *)
(***************************************************************************)
EXTENDS Integers

CONSTANTS
  DeviceSizes,   \* sizes of the underlying device in 4096-byte blocks
  UintRange,     \* 2^32, the range of unsigned int
  MaxIoBlocks,   \* 4096-byte blocks in a bio, 512 for max_io_len = 4096
  ByteRange,     \* 256, the values of the byte load keeps of a sector
  MaxFlushes     \* bound: flushes of a kind before the one that is looked at

ASSUME LayoutAssumption ==
  /\ DeviceSizes \subseteq Nat
  /\ UintRange \in Nat \ {0}
  /\ \A n \in DeviceSizes : n < UintRange
  /\ MaxIoBlocks \in Nat \ {0}
  /\ ByteRange \in 1 .. 256
  /\ MaxFlushes \in Nat

VARIABLES
  disk_size,   \* what the application measured, or NotMeasured
  ent_dev,     \* the geometry fields of struct entanglement_device
  io           \* the 512-byte sectors the last request reaches

vars == <<disk_size, ent_dev, io>>

-----------------------------------------------------------------------------
ENT_DEV_SECTOR_SCALE == 8

(* -errno, for a device that cannot be opened or asked for its size.        *)
NotMeasured == -1

RoundDown(n) == (n \div 8) * 8

(* An unsigned int assigned to an int, as dev_size is.                      *)
AsInt(n) == IF 2 * n < UintRange THEN n ELSE n - UintRange

(* The fields the constructor computes from its argument, the size in       *)
(* blocks as an unsigned int.                                               *)
MetadataSize(n) == ((n * 3) % UintRange) \div 1024

(* Slip in HalfSize: the metadata is not taken off first.                   *)
HalfOfAll(n) == RoundDown(n \div 2)

HalfSize(n) == RoundDown((n - MetadataSize(n)) \div 2)

Geometry(n) ==
  LET ms == MetadataSize(n) IN
  [dev_size               |-> AsInt(n),
   metadata_size          |-> ms,
   metadata_sector_size   |-> (ms * 2) \div 3,
   metadata_checksum_size |-> ms \div 3,
   metadata_start_sector  |-> HalfSize(n),
   write_sector_scale     |-> HalfSize(n) + ms]

(* Slip in VirtualDeviceSize: the parities' half is not taken off.          *)
WholeDevice(n) == RoundDown(n * 8) % UintRange

(* The virtual device, in 512-byte sectors: the application has a global    *)
(* metadata_size of its own, which nothing ever sets, and keeps the result  *)
(* in an unsigned int.                                                      *)
VirtualDeviceSize(n) == RoundDown((n * 8) \div 2) % UintRange

(* The 512-byte sectors of n blocks from the 512-byte sector s.             *)
Extent(s, n) == s .. s + n * ENT_DEV_SECTOR_SCALE - 1

(* ent_dev_rwSector on the 4096-byte block b.                               *)
BlockExtent(b) == Extent(b * ENT_DEV_SECTOR_SCALE, 1)

NextSector(d) == d.metadata_start_sector
NextChecksum(d) == d.metadata_start_sector + d.metadata_sector_size

(* What a request reaches, and how many flushes of its kind came before it. *)
Reach(data, parity, sectors, checksums, before) ==
  [data |-> data, parity |-> parity, sectors |-> sectors, checksums |-> checksums,
   before |-> before]

-----------------------------------------------------------------------------
(* The application measures the disk, and passes on what it gets.           *)
Init ==
  /\ disk_size \in DeviceSizes \cup {NotMeasured}
  /\ ent_dev = Geometry(0)
  /\ io = Reach({}, {}, {}, {}, 0)

(* Slip in entanglement_tgt_ctr: the size is taken as 512-byte sectors.     *)
CtrWithSectors ==
  /\ ent_dev = Geometry(0)
  /\ ent_dev' = Geometry(disk_size * 8)
  /\ UNCHANGED <<disk_size, io>>

(* A negative size arrives as a large unsigned one, but dm_get_device does  *)
(* not find the device the application could not measure: the constructor   *)
(* computes a geometry and frees it again.                                  *)
entanglement_tgt_ctr ==
  /\ ent_dev = Geometry(0)
  /\ ent_dev' = IF disk_size = NotMeasured THEN Geometry(0) ELSE Geometry(disk_size)
  /\ UNCHANGED <<disk_size, io>>

(* Slip in process_write_bio: the parity's address is in 4096-byte blocks.  *)
WriteParityByBlock(s, n) ==
  /\ ent_dev # Geometry(0)
  /\ s % ENT_DEV_SECTOR_SCALE = 0
  /\ s + n * ENT_DEV_SECTOR_SCALE <= VirtualDeviceSize(disk_size)
  /\ io' = Reach(Extent(s, n), Extent((s \div 8) + ent_dev.write_sector_scale, 1), {}, {}, 0)
  /\ UNCHANGED <<disk_size, ent_dev>>

(* A write bio of n blocks at sector s: the clone of the bio keeps its      *)
(* sector and length, the parity bio has one page.                          *)
process_write_bio(s, n) ==
  /\ ent_dev # Geometry(0)
  /\ s % ENT_DEV_SECTOR_SCALE = 0
  /\ s + n * ENT_DEV_SECTOR_SCALE <= VirtualDeviceSize(disk_size)
  /\ io' = Reach(Extent(s, n), Extent(s + ent_dev.write_sector_scale, 1), {}, {}, 0)
  /\ UNCHANGED <<disk_size, ent_dev>>

(* A flush of sectors, or of checksums, after k others in a first session.  *)
(* Nothing keeps it in the area the constructor meant for it.               *)
flush_metadata(k) ==
  /\ ent_dev # Geometry(0)
  /\ \/ io' = Reach({}, {}, BlockExtent(NextSector(ent_dev) + k), {}, k)
     \/ io' = Reach({}, {}, {}, BlockExtent(NextChecksum(ent_dev) + k), k)
  /\ UNCHANGED <<disk_size, ent_dev>>

(* The i-th round of the load: a block of sectors, and a block of checksums *)
(* at a number that leaves out where the metadata starts.                   *)
load_metadata(i) ==
  /\ ent_dev # Geometry(0)
  /\ i < ent_dev.metadata_sector_size
  /\ io' = Reach(BlockExtent(ent_dev.metadata_sector_size + i \div 2), {},
                 BlockExtent(NextSector(ent_dev) + i), {}, i)
  /\ UNCHANGED <<disk_size, ent_dev>>

(* The block of a list entry as corruption, repair and the end of the load  *)
(* address it: the byte that is kept of its 512-byte sector, taken for a    *)
(* 4096-byte block.  The list is empty if there are no blocks of sectors.   *)
entry_io(b) ==
  /\ ent_dev # Geometry(0)
  /\ ent_dev.metadata_sector_size > 0
  /\ io' = Reach(BlockExtent(b), {}, {}, {}, 0)
  /\ UNCHANGED <<disk_size, ent_dev>>

(* A flush, or the last store, after k others in a session that loaded.     *)
flush_after_load(k) ==
  /\ ent_dev # Geometry(0)
  /\ LET sector == NextSector(ent_dev) + ent_dev.metadata_sector_size
         checksum == ent_dev.metadata_sector_size + (ent_dev.metadata_sector_size + 1) \div 2
     IN  \/ io' = Reach({}, {}, BlockExtent(sector + k), {}, k)
         \/ io' = Reach({}, {}, {}, BlockExtent(checksum + k), k)
  /\ UNCHANGED <<disk_size, ent_dev>>

Next ==
  \/ entanglement_tgt_ctr
  \/ \E s \in 0 .. VirtualDeviceSize(disk_size) - 1, n \in 1 .. MaxIoBlocks :
       process_write_bio(s, n)
  \/ \E k \in 0 .. MaxFlushes : flush_metadata(k) \/ load_metadata(k) \/ flush_after_load(k)
  \/ \E b \in 0 .. ByteRange - 1 : entry_io(b)

Spec == Init /\ [][Next]_vars

-----------------------------------------------------------------------------
(* Properties.                                                              *)

TypeOK ==
  /\ disk_size \in DeviceSizes \cup {NotMeasured}
  /\ ent_dev = Geometry(0) \/ (disk_size \in DeviceSizes /\ ent_dev = Geometry(disk_size))
  /\ io \in [data : SUBSET Nat, parity : SUBSET Nat, sectors : SUBSET Nat,
             checksums : SUBSET Nat, before : Nat]

(* In blocks, the constructor's division of a device is sound: one half,    *)
(* then the sector and checksum areas inside the metadata area, then the    *)
(* other half, all on the device (lines 659-670).                           *)
AreasFit(d, n) ==
  LET half == d.metadata_start_sector IN
  /\ NextSector(d) + d.metadata_sector_size <= NextChecksum(d)
  /\ NextChecksum(d) + d.metadata_checksum_size <= half + d.metadata_size
  /\ half + d.metadata_size <= d.write_sector_scale
  /\ d.write_sector_scale + half <= n

DivisionIsSound == disk_size # NotMeasured => AreasFit(ent_dev, disk_size)

(* No data, parity or block of a loaded list reaches past the end of the    *)
(* device, although blocks and 512-byte sectors are mixed, and no metadata  *)
(* does while it is loaded, or flushed as often as it has blocks, in a      *)
(* first or a later session (lines 142-147, 206-210, 986-990, 859,          *)
(* utils.h:36, main.c:336).                                                 *)
RequestsStayOnDevice ==
  LET Device == 0 .. disk_size * ENT_DEV_SECTOR_SCALE - 1 IN
  /\ io.data \cup io.parity \subseteq Device
  /\ io.before < ent_dev.metadata_sector_size => io.sectors \subseteq Device
  /\ io.before < ent_dev.metadata_checksum_size => io.checksums \subseteq Device

(* The scale is a number of blocks added to a 512-byte sector, so parities  *)
(* land among the data and data is written over them.  What the arithmetic  *)
(* leaves of two separate halves is a direction: the parity lands behind    *)
(* its own block and behind every sector before that, so that a device      *)
(* written from front to back never loses data to a parity, only parities   *)
(* to data.  It takes a device with room for a bio in each half; on one of  *)
(* fewer than 16 blocks the scale is 0 (lines 664-665, 985-990).            *)
ParityLandsAhead ==
  disk_size >= 16 * (MaxIoBlocks + 1) =>
    \A p \in io.parity, d \in io.data : d < p

=============================================================================

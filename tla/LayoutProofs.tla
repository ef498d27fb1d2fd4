---------------------------- MODULE LayoutProofs ----------------------------
(***************************************************************************)
(* For every device size and every width of unsigned int: the constructor's*)
(* division of the device is sound, requests stay on the device, and a     *)
(* parity lands behind the data it belongs to.                             *)
(***************************************************************************)
EXTENDS Layout, TLAPS

(* The wrap-around of unsigned int never makes a value larger.              *)
LEMMA ModBound ==
  ASSUME NEW x \in Nat, NEW w \in Nat \ {0}
  PROVE  x % w \in 0 .. x
  BY Z3

(* The quotients of the constructor, once the metadata size is known.       *)
LEMMA MetadataSizeBound ==
  ASSUME NEW n \in Nat, NEW w \in Nat \ {0}
  PROVE  ((n * 3) % w) \div 1024 \in 0 .. n
  <1>1. (n * 3) % w \in 0 .. n * 3
    BY ModBound
  <1> DEFINE x == (n * 3) % w
  <1>2. x \in Nat /\ x <= n * 3
    BY <1>1
  <1> HIDE DEF x
  <1>3. x \div 1024 \in 0 .. n
    BY <1>2
  <1> QED
    BY <1>3 DEF x

(* The areas the constructor computes fit on any device.                    *)
LEMMA GeometryFits ==
  ASSUME NEW n \in Nat
  PROVE  /\ AreasFit(Geometry(n), n)
         /\ MetadataSize(n) \in Nat
         /\ HalfSize(n) \in Nat
  <1> DEFINE ms == MetadataSize(n)
  <1>1. ms \in Nat /\ ms <= n
    BY MetadataSizeBound, LayoutAssumption DEF MetadataSize
  <1>2. HalfSize(n) = (((n - ms) \div 2) \div 8) * 8
    BY DEF HalfSize, RoundDown
  <1> HIDE DEF ms
  <1>3. HalfSize(n) \in Nat /\ 2 * HalfSize(n) + ms <= n
    BY <1>1, <1>2
  <1>4. (ms * 2) \div 3 + ms \div 3 <= ms
    BY <1>1
  <1> QED
    BY <1>1, <1>3, <1>4 DEF AreasFit, Geometry, NextSector, NextChecksum, ms

(* The virtual device is no larger than half of the underlying one.         *)
LEMMA VirtualSize ==
  ASSUME NEW n \in Nat
  PROVE  VirtualDeviceSize(n) \in 0 .. 4 * n
  <1>1. RoundDown((n * 8) \div 2) \in 0 .. 4 * n
    BY DEF RoundDown
  <1>2. RoundDown((n * 8) \div 2) % UintRange \in 0 .. RoundDown((n * 8) \div 2)
    BY <1>1, ModBound, LayoutAssumption
  <1> QED
    BY <1>1, <1>2 DEF VirtualDeviceSize

-----------------------------------------------------------------------------
(* The metadata is a small part of the device.                              *)
LEMMA MetadataIsSmall ==
  ASSUME NEW n \in Nat
  PROVE  /\ MetadataSize(n) \in Nat
         /\ 1024 * MetadataSize(n) <= 3 * n
  <1> DEFINE x == (n * 3) % UintRange
  <1>1. x \in 0 .. n * 3
    BY ModBound, LayoutAssumption
  <1> HIDE DEF x
  <1>2. x \div 1024 \in Nat /\ 1024 * (x \div 1024) <= 3 * n
    BY <1>1
  <1> QED
    BY <1>2 DEF x, MetadataSize

(* What the constructed device gives a session that loads: its metadata,    *)
(* read and flushed past its areas, and the bytes its list holds are blocks *)
(* of the device.                                                           *)
LEMMA LoadedBlocks ==
  ASSUME TypeOK, ent_dev # Geometry(0)
  PROVE  LET mss == ent_dev.metadata_sector_size
             mcs == ent_dev.metadata_checksum_size
         IN  /\ disk_size \in Nat
             /\ mss \in Nat /\ mcs \in Nat
             /\ NextSector(ent_dev) \in Nat
             /\ NextSector(ent_dev) + 2 * mss <= disk_size
             /\ mss + (mss + 1) \div 2 \in Nat
             /\ mss + (mss + 1) \div 2 + mcs <= disk_size
             /\ mss > 0 => disk_size > 256
  <1> DEFINE n == disk_size
             ms == MetadataSize(n)
             half == HalfSize(n)
             mss == (ms * 2) \div 3
             mcs == ms \div 3
  <1>1. /\ n \in Nat /\ ent_dev = Geometry(n)
        /\ ms \in Nat /\ 1024 * ms <= 3 * n
    BY MetadataIsSmall, LayoutAssumption DEF TypeOK
  <1>2. half = (((n - ms) \div 2) \div 8) * 8
    BY DEF HalfSize, RoundDown
  <1>3. /\ ent_dev.metadata_sector_size = mss
        /\ ent_dev.metadata_checksum_size = mcs
        /\ NextSector(ent_dev) = half
    BY <1>1 DEF Geometry, NextSector
  <1> HIDE DEF n, ms, half
  <1>4. half \in Nat /\ 2 * half + ms <= n
    BY <1>1, <1>2
  <1>5. mss \in Nat /\ mcs \in Nat /\ 3 * mss <= 2 * ms /\ 3 * mcs <= ms
    BY <1>1
  <1>6. mss > 0 => ms >= 2
    BY <1>1
  <1> HIDE DEF mss, mcs
  <1> DEFINE q == (mss + 1) \div 2
  <1>7. q \in Nat /\ 2 * q <= mss + 1 /\ q <= mss
    BY <1>5
  <1> HIDE DEF q
  <1>8. /\ half + 2 * mss <= n
        /\ mss + q + mcs <= n
        /\ mss > 0 => n > 256
    BY <1>1, <1>4, <1>5, <1>6, <1>7
  <1>9. mss + q \in Nat
    BY <1>5, <1>7
  <1> QED
    BY <1>1, <1>3, <1>4, <1>5, <1>8, <1>9 DEF n, q

-----------------------------------------------------------------------------
(* The type invariant of Layout, for every device size.                     *)
THEOREM TypeCorrect == Spec => []TypeOK
  <1> USE DEF Reach
  <1>1. Init => TypeOK
    BY DEF Init, TypeOK
  <1>2. TypeOK /\ [Next]_vars => TypeOK'
    <2> SUFFICES ASSUME TypeOK, [Next]_vars PROVE TypeOK'
      OBVIOUS
    <2>0. ent_dev # Geometry(0) => disk_size \in Nat /\ ent_dev = Geometry(disk_size)
      BY LayoutAssumption DEF TypeOK
    <2>1. CASE entanglement_tgt_ctr
      BY <2>1 DEF entanglement_tgt_ctr, TypeOK
    <2>2. ASSUME NEW s \in 0 .. VirtualDeviceSize(disk_size) - 1,
                 NEW n \in 1 .. MaxIoBlocks,
                 process_write_bio(s, n)
          PROVE  TypeOK'
      <3>1. ent_dev = Geometry(disk_size)
        BY <2>0, <2>2 DEF process_write_bio
      <3>2. s \in Nat /\ ent_dev.write_sector_scale \in Nat
        <4>1. disk_size \in Nat
          BY <2>0, <2>2 DEF process_write_bio
        <4>2. HalfSize(disk_size) \in Nat /\ MetadataSize(disk_size) \in Nat
          BY <4>1, GeometryFits
        <4>3. ent_dev.write_sector_scale = HalfSize(disk_size) + MetadataSize(disk_size)
          BY <3>1 DEF Geometry
        <4>4. VirtualDeviceSize(disk_size) \in Int
          BY <4>1, VirtualSize
        <4> QED
          BY <4>2, <4>3, <4>4
      <3>3. Extent(s, n) \subseteq Nat /\ Extent(s + ent_dev.write_sector_scale, 1) \subseteq Nat
        BY <3>2 DEF Extent, ENT_DEV_SECTOR_SCALE
      <3> QED
        BY <2>2, <3>3 DEF process_write_bio, TypeOK
    <2>3. ASSUME NEW k \in 0 .. MaxFlushes, flush_metadata(k)
          PROVE  TypeOK'
      <3>1. ent_dev = Geometry(disk_size)
        BY <2>0, <2>3 DEF flush_metadata
      <3>2. /\ ent_dev.metadata_start_sector \in Nat
            /\ ent_dev.metadata_sector_size \in Nat
            /\ k \in Nat
        BY <2>3, <3>1, <2>0, GeometryFits, LayoutAssumption DEF Geometry, flush_metadata
      <3>3. /\ BlockExtent(NextSector(ent_dev) + k) \subseteq Nat
            /\ BlockExtent(NextChecksum(ent_dev) + k) \subseteq Nat
        BY <3>2 DEF BlockExtent, Extent, NextSector, NextChecksum, ENT_DEV_SECTOR_SCALE
      <3> QED
        BY <2>3, <3>2, <3>3 DEF flush_metadata, TypeOK
    <2>4. ASSUME NEW i \in 0 .. MaxFlushes, load_metadata(i)
          PROVE  TypeOK'
      <3>1. /\ BlockExtent(ent_dev.metadata_sector_size + i \div 2) \subseteq Nat
            /\ BlockExtent(NextSector(ent_dev) + i) \subseteq Nat
            /\ i \in Nat
        <4>1. i \in Nat /\ i \div 2 \in Nat
          BY LayoutAssumption
        <4>2. /\ ent_dev.metadata_sector_size \in Nat
              /\ NextSector(ent_dev) \in Nat
          BY <2>4, LoadedBlocks DEF load_metadata
        <4> QED
          BY <4>1, <4>2 DEF BlockExtent, Extent, ENT_DEV_SECTOR_SCALE
      <3> QED
        BY <2>4, <3>1 DEF load_metadata, TypeOK
    <2>5. ASSUME NEW b \in 0 .. ByteRange - 1, entry_io(b)
          PROVE  TypeOK'
      <3>1. BlockExtent(b) \subseteq Nat
        BY LayoutAssumption DEF BlockExtent, Extent, ENT_DEV_SECTOR_SCALE
      <3> QED
        BY <2>5, <3>1 DEF entry_io, TypeOK
    <2>6. ASSUME NEW k \in 0 .. MaxFlushes, flush_after_load(k)
          PROVE  TypeOK'
      <3> DEFINE mss == ent_dev.metadata_sector_size
                 sector == NextSector(ent_dev) + mss
                 checksum == mss + (mss + 1) \div 2
      <3>1. k \in Nat /\ sector + k \in Nat /\ checksum + k \in Nat
        <4>1. /\ k \in Nat /\ mss \in Nat /\ checksum \in Nat
              /\ NextSector(ent_dev) \in Nat
          BY <2>6, LoadedBlocks, LayoutAssumption DEF flush_after_load
        <4> HIDE DEF mss, checksum
        <4> QED
          BY <4>1
      <3> HIDE DEF sector, checksum
      <3>2. BlockExtent(sector + k) \subseteq Nat /\ BlockExtent(checksum + k) \subseteq Nat
        BY <3>1 DEF BlockExtent, Extent, ENT_DEV_SECTOR_SCALE
      <3>3. \/ io' = Reach({}, {}, BlockExtent(sector + k), {}, k)
            \/ io' = Reach({}, {}, {}, BlockExtent(checksum + k), k)
        BY <2>6 DEF flush_after_load, sector, checksum
      <3> QED
        BY <2>6, <3>1, <3>2, <3>3 DEF flush_after_load, TypeOK
    <2>7. CASE UNCHANGED vars
      BY <2>7 DEF vars, TypeOK
    <2> QED
      BY <2>1, <2>2, <2>3, <2>4, <2>5, <2>6, <2>7 DEF Next
  <1> QED
    BY <1>1, <1>2, PTL DEF Spec

(* Whatever the size of the device, even one whose metadata size wraps      *)
(* around, the constructor's division of it is sound.                       *)
THEOREM DivisionCorrect == Spec => []DivisionIsSound
  <1>1. TypeOK => DivisionIsSound
    <2> SUFFICES ASSUME TypeOK PROVE DivisionIsSound
      OBVIOUS
    <2> SUFFICES ASSUME disk_size # NotMeasured PROVE AreasFit(ent_dev, disk_size)
      BY DEF DivisionIsSound
    <2>1. disk_size \in Nat
      BY LayoutAssumption DEF TypeOK
    <2>2. AreasFit(Geometry(disk_size), disk_size)
      BY <2>1, GeometryFits
    <2>3. AreasFit(Geometry(0), disk_size)
      <3>1. AreasFit(Geometry(0), 0)
        BY GeometryFits
      <3>2. /\ Geometry(0).write_sector_scale \in Nat
            /\ Geometry(0).metadata_start_sector \in Nat
        <4>1. HalfSize(0) \in Nat /\ MetadataSize(0) \in Nat
          BY GeometryFits
        <4> QED
          BY <4>1 DEF Geometry
      <3> QED
        BY <2>1, <3>1, <3>2 DEF AreasFit
    <2> QED
      BY <2>2, <2>3 DEF TypeOK
  <1> QED
    BY <1>1, TypeCorrect, PTL

(* Before the constructor has run nothing has been reached.                 *)
NothingBeforeCtr == ent_dev = Geometry(0) => io = Reach({}, {}, {}, {}, 0)

(* The constructor comes before the first request.                          *)
LEMMA CtrFirst == Spec => []NothingBeforeCtr
  <1>1. Init => NothingBeforeCtr
    BY DEF Init, NothingBeforeCtr
  <1>2. NothingBeforeCtr /\ [Next]_vars => NothingBeforeCtr'
    <2> SUFFICES ASSUME NothingBeforeCtr, [Next]_vars PROVE NothingBeforeCtr'
      OBVIOUS
    <2>1. CASE entanglement_tgt_ctr
      BY <2>1 DEF entanglement_tgt_ctr, NothingBeforeCtr
    <2>2. ASSUME NEW s, NEW n, process_write_bio(s, n) PROVE NothingBeforeCtr'
      BY <2>2 DEF process_write_bio, NothingBeforeCtr
    <2>3. ASSUME NEW k, flush_metadata(k) PROVE NothingBeforeCtr'
      BY <2>3 DEF flush_metadata, NothingBeforeCtr
    <2>4. ASSUME NEW i, load_metadata(i) PROVE NothingBeforeCtr'
      BY <2>4 DEF load_metadata, NothingBeforeCtr
    <2>5. ASSUME NEW b, entry_io(b) PROVE NothingBeforeCtr'
      BY <2>5 DEF entry_io, NothingBeforeCtr
    <2>6. ASSUME NEW k, flush_after_load(k) PROVE NothingBeforeCtr'
      BY <2>6 DEF flush_after_load, NothingBeforeCtr
    <2>7. CASE UNCHANGED vars
      BY <2>7 DEF vars, NothingBeforeCtr
    <2> QED
      BY <2>1, <2>2, <2>3, <2>4, <2>5, <2>6, <2>7 DEF Next
  <1> QED
    BY <1>1, <1>2, PTL DEF Spec

(* No data or parity of any device reaches past its end, and no metadata    *)
(* does while it is in the area the constructor meant for it.               *)
THEOREM StayOnDevice == Spec => []RequestsStayOnDevice
  <1> USE DEF Reach
  <1>1. Init => RequestsStayOnDevice
    BY DEF Init, RequestsStayOnDevice
  <1>2. TypeOK /\ NothingBeforeCtr /\ RequestsStayOnDevice /\ [Next]_vars
          => RequestsStayOnDevice'
    <2> SUFFICES ASSUME TypeOK, NothingBeforeCtr, RequestsStayOnDevice, [Next]_vars
                 PROVE  RequestsStayOnDevice'
      OBVIOUS
    <2>0. ent_dev # Geometry(0) => disk_size \in Nat /\ ent_dev = Geometry(disk_size)
      BY LayoutAssumption DEF TypeOK
    <2>1. CASE entanglement_tgt_ctr
      BY <2>1 DEF entanglement_tgt_ctr, RequestsStayOnDevice, NothingBeforeCtr
    <2>2. ASSUME NEW s \in 0 .. VirtualDeviceSize(disk_size) - 1,
                 NEW n \in 1 .. MaxIoBlocks,
                 process_write_bio(s, n)
          PROVE  RequestsStayOnDevice'
      <3>1. ent_dev = Geometry(disk_size) /\ disk_size \in Nat
        BY <2>0, <2>2 DEF process_write_bio
      <3>2. /\ ent_dev.write_sector_scale \in Nat
            /\ ent_dev.write_sector_scale <= disk_size
        BY <3>1, GeometryFits DEF Geometry, AreasFit
      <3>3. /\ s \in Nat /\ n \in Nat \ {0}
            /\ s + n * 8 <= VirtualDeviceSize(disk_size)
        BY <2>2, LayoutAssumption DEF process_write_bio, ENT_DEV_SECTOR_SCALE
      <3>4. VirtualDeviceSize(disk_size) <= 4 * disk_size
        BY <3>1, VirtualSize
      <3>5. /\ Extent(s, n) \subseteq 0 .. disk_size * 8 - 1
            /\ Extent(s + ent_dev.write_sector_scale, 1) \subseteq 0 .. disk_size * 8 - 1
        <4>1. VirtualDeviceSize(disk_size) \in Int
          BY <3>1, VirtualSize
        <4>2. s + n * 8 <= 4 * disk_size /\ n * 8 >= 8
          BY <3>3, <3>4, <4>1, <3>1
        <4> QED
          BY <3>1, <3>2, <3>3, <4>2 DEF Extent, ENT_DEV_SECTOR_SCALE
      <3> QED
        BY <2>2, <3>5 DEF process_write_bio, RequestsStayOnDevice, ENT_DEV_SECTOR_SCALE
    <2>3. ASSUME NEW k \in 0 .. MaxFlushes, flush_metadata(k)
          PROVE  RequestsStayOnDevice'
      <3>1. ent_dev = Geometry(disk_size) /\ disk_size \in Nat
        BY <2>0, <2>3 DEF flush_metadata
      <3>2. /\ ent_dev.metadata_start_sector \in Nat
            /\ ent_dev.metadata_sector_size \in Nat
            /\ ent_dev.metadata_checksum_size \in Nat
            /\ ent_dev.write_sector_scale \in Nat
            /\ ent_dev.metadata_size \in Nat
            /\ k \in Nat
            /\ AreasFit(ent_dev, disk_size)
        BY <3>1, GeometryFits, LayoutAssumption DEF Geometry
      <3>3. /\ k < ent_dev.metadata_sector_size => NextSector(ent_dev) + k < disk_size
            /\ k < ent_dev.metadata_checksum_size => NextChecksum(ent_dev) + k < disk_size
        BY <3>1, <3>2 DEF AreasFit, NextSector, NextChecksum
      <3>4. \A b \in Nat : b < disk_size =>
              BlockExtent(b) \subseteq 0 .. disk_size * ENT_DEV_SECTOR_SCALE - 1
        BY <3>1 DEF BlockExtent, Extent, ENT_DEV_SECTOR_SCALE
      <3>5. NextSector(ent_dev) + k \in Nat /\ NextChecksum(ent_dev) + k \in Nat
        BY <3>2 DEF NextSector, NextChecksum
      <3>6. CASE io' = Reach({}, {}, BlockExtent(NextSector(ent_dev) + k), {}, k)
        BY <2>3, <3>3, <3>4, <3>5, <3>6 DEF flush_metadata, RequestsStayOnDevice
      <3>7. CASE io' = Reach({}, {}, {}, BlockExtent(NextChecksum(ent_dev) + k), k)
        BY <2>3, <3>3, <3>4, <3>5, <3>7 DEF flush_metadata, RequestsStayOnDevice
      <3> QED
        BY <2>3, <3>6, <3>7 DEF flush_metadata
    <2> DEFINE mss == ent_dev.metadata_sector_size
               mcs == ent_dev.metadata_checksum_size
               sector == NextSector(ent_dev) + mss
               checksum == mss + (mss + 1) \div 2
    <2>8. \A b \in Nat : disk_size \in Nat /\ b < disk_size =>
            BlockExtent(b) \subseteq 0 .. disk_size * ENT_DEV_SECTOR_SCALE - 1
      BY DEF BlockExtent, Extent, ENT_DEV_SECTOR_SCALE
    <2>4. ASSUME NEW i \in 0 .. MaxFlushes, load_metadata(i)
          PROVE  RequestsStayOnDevice'
      <3>1. /\ i \in Nat /\ i < mss /\ disk_size \in Nat
            /\ mss \in Nat
            /\ mss + (mss + 1) \div 2 \in Nat
            /\ mss + (mss + 1) \div 2 + mcs <= disk_size /\ mcs \in Nat
            /\ NextSector(ent_dev) \in Nat
            /\ NextSector(ent_dev) + 2 * mss <= disk_size
        BY <2>4, LoadedBlocks, LayoutAssumption DEF load_metadata
      <3> HIDE DEF mss, mcs
      <3>2. i \div 2 < (mss + 1) \div 2 /\ i \div 2 \in Nat
        BY <3>1
      <3>3. /\ mss + i \div 2 \in Nat /\ mss + i \div 2 < disk_size
            /\ NextSector(ent_dev) + i \in Nat /\ NextSector(ent_dev) + i < disk_size
        BY <3>1, <3>2
      <3> QED
        BY <2>4, <2>8, <3>1, <3>3 DEF load_metadata, RequestsStayOnDevice, mss
    <2>5. ASSUME NEW b \in 0 .. ByteRange - 1, entry_io(b)
          PROVE  RequestsStayOnDevice'
      <3>1. b \in Nat /\ disk_size \in Nat /\ b < disk_size
        BY <2>5, LoadedBlocks, LayoutAssumption DEF entry_io
      <3> QED
        BY <2>5, <2>8, <3>1 DEF entry_io, RequestsStayOnDevice
    <2>6. ASSUME NEW k \in 0 .. MaxFlushes, flush_after_load(k)
          PROVE  RequestsStayOnDevice'
      <3>1. /\ k \in Nat /\ mss \in Nat /\ mcs \in Nat /\ disk_size \in Nat
            /\ checksum \in Nat /\ checksum + mcs <= disk_size
            /\ NextSector(ent_dev) \in Nat
            /\ NextSector(ent_dev) + 2 * mss <= disk_size
        BY <2>6, LoadedBlocks, LayoutAssumption DEF flush_after_load
      <3>2. /\ \/ io' = Reach({}, {}, BlockExtent(sector + k), {}, k)
               \/ io' = Reach({}, {}, {}, BlockExtent(checksum + k), k)
            /\ disk_size' = disk_size /\ ent_dev' = ent_dev
        BY <2>6 DEF flush_after_load
      <3> HIDE DEF mss, mcs, checksum
      <3>3. /\ sector + k \in Nat /\ checksum + k \in Nat
            /\ k < mss => sector + k < disk_size
            /\ k < mcs => checksum + k < disk_size
        BY <3>1
      <3> HIDE DEF sector
      <3> QED
        BY <2>8, <3>1, <3>2, <3>3 DEF RequestsStayOnDevice, mss, mcs
    <2>7. CASE UNCHANGED vars
      BY <2>7 DEF vars, RequestsStayOnDevice
    <2> QED
      BY <2>1, <2>2, <2>3, <2>4, <2>5, <2>6, <2>7 DEF Next
  <1> QED
    BY <1>1, <1>2, TypeCorrect, CtrFirst, PTL DEF Spec

(* With room for a bio in each half, the scale is longer than a bio.        *)
LEMMA ScaleBound ==
  ASSUME NEW n \in Nat, n >= 16 * (MaxIoBlocks + 1)
  PROVE  /\ Geometry(n).write_sector_scale \in Nat
         /\ Geometry(n).write_sector_scale >= 8 * MaxIoBlocks
  <1> DEFINE ms == MetadataSize(n)
             half == HalfSize(n)
  <1>1. ms \in Nat /\ ms <= n
    BY MetadataSizeBound, LayoutAssumption DEF MetadataSize
  <1>2. half = (((n - ms) \div 2) \div 8) * 8
    BY DEF HalfSize, RoundDown
  <1>3. Geometry(n).write_sector_scale = half + ms
    BY DEF Geometry
  <1>4. MaxIoBlocks \in Nat
    BY LayoutAssumption
  <1> HIDE DEF ms, half
  <1> DEFINE q == (n - ms) \div 2
  <1>5. q \in Nat /\ 2 * q + 1 >= n - ms
    BY <1>1
  <1> HIDE DEF q
  <1>6. half \in Nat /\ half + 7 >= q
    BY <1>2, <1>5 DEF q
  <1>7. 2 * half + 15 + ms >= n
    BY <1>1, <1>5, <1>6
  <1>8. 2 * (half + ms) >= 16 * MaxIoBlocks
    BY <1>1, <1>4, <1>6, <1>7
  <1> QED
    BY <1>1, <1>3, <1>4, <1>6, <1>8

(* A parity lands behind its block and everything before it, for any device *)
(* with room for a bio in each half.                                        *)
THEOREM ParityIsAhead == Spec => []ParityLandsAhead
  <1> USE DEF Reach
  <1>1. Init => ParityLandsAhead
    BY DEF Init, ParityLandsAhead
  <1>2. TypeOK /\ NothingBeforeCtr /\ ParityLandsAhead /\ [Next]_vars
          => ParityLandsAhead'
    <2> SUFFICES ASSUME TypeOK, NothingBeforeCtr, ParityLandsAhead, [Next]_vars
                 PROVE  ParityLandsAhead'
      OBVIOUS
    <2>0. ent_dev # Geometry(0) => disk_size \in Nat /\ ent_dev = Geometry(disk_size)
      BY LayoutAssumption DEF TypeOK
    <2>1. CASE entanglement_tgt_ctr
      <3>1. io'.parity = {}
        BY <2>1 DEF entanglement_tgt_ctr, NothingBeforeCtr
      <3> QED
        BY <3>1 DEF ParityLandsAhead
    <2>2. ASSUME NEW s \in 0 .. VirtualDeviceSize(disk_size) - 1,
                 NEW n \in 1 .. MaxIoBlocks,
                 process_write_bio(s, n)
          PROVE  ParityLandsAhead'
      <3> SUFFICES ASSUME disk_size >= 16 * (MaxIoBlocks + 1),
                          NEW p \in io'.parity, NEW d \in io'.data
                   PROVE  d < p
        BY <2>2 DEF process_write_bio, ParityLandsAhead
      <3> DEFINE scale == ent_dev.write_sector_scale
      <3>1. scale \in Nat /\ scale >= 8 * MaxIoBlocks
        BY <2>0, <2>2, ScaleBound DEF process_write_bio
      <3>2. VirtualDeviceSize(disk_size) \in Int /\ s \in Nat
        BY <2>0, <2>2, VirtualSize DEF process_write_bio
      <3>3. p \in Extent(s + scale, 1) /\ d \in Extent(s, n)
        BY <2>2 DEF process_write_bio
      <3>4. n \in Nat /\ MaxIoBlocks \in Nat /\ n <= MaxIoBlocks
        BY LayoutAssumption
      <3> HIDE DEF scale
      <3>5. /\ p \in Int /\ p >= s + scale
            /\ d \in Int /\ d <= s + n * 8 - 1
        BY <3>1, <3>2, <3>3, <3>4 DEF Extent, ENT_DEV_SECTOR_SCALE
      <3> QED
        BY <3>1, <3>2, <3>4, <3>5
    <2>3. ASSUME NEW k \in 0 .. MaxFlushes, flush_metadata(k)
          PROVE  ParityLandsAhead'
      BY <2>3 DEF flush_metadata, ParityLandsAhead
    <2>4. ASSUME NEW i \in 0 .. MaxFlushes, load_metadata(i)
          PROVE  ParityLandsAhead'
      BY <2>4 DEF load_metadata, ParityLandsAhead
    <2>5. ASSUME NEW b \in 0 .. ByteRange - 1, entry_io(b)
          PROVE  ParityLandsAhead'
      BY <2>5 DEF entry_io, ParityLandsAhead
    <2>6. ASSUME NEW k \in 0 .. MaxFlushes, flush_after_load(k)
          PROVE  ParityLandsAhead'
      BY <2>6 DEF flush_after_load, ParityLandsAhead
    <2>7. CASE UNCHANGED vars
      BY <2>7 DEF vars, ParityLandsAhead
    <2> QED
      BY <2>1, <2>2, <2>3, <2>4, <2>5, <2>6, <2>7 DEF Next
  <1> QED
    BY <1>1, <1>2, TypeCorrect, CtrFirst, PTL DEF Spec
=============================================================================

---------------------------- MODULE SessionProofs ----------------------------
(***************************************************************************)
(* For every layout and any number of writes and sessions: what a new      *)
(* device recorded stays on disk, a session that loaded the log never      *)
(* changes it, and the list it loads follows it.                           *)
(*                                                                         *)
(* A session that starts with an empty entanglement has the invariants of  *)
(* LogProofs; one that loaded a list has not, and is followed by what it   *)
(* may write: its sectors behind the area, its checksums below it.         *)
(***************************************************************************)
EXTENDS Session, LogProofs

(* A session that loaded the log writes its own sectors behind their area.  *)
SectorsGoBehind ==
  /\ sectors.next \in Nat
  /\ phase = "open" /\ opened = "load" => sectors.next >= MetaStart + SectorBlocks

(* The blocks a step may write in the metadata area: where the two logs     *)
(* are.                                                                     *)
OnlyNextBlocks ==
  /\ DOMAIN metaDisk \subseteq DOMAIN metaDisk'
  /\ \A b \in DOMAIN metaDisk' :
       \/ b \in {sectors.next, checksums.next}
       \/ b \in DOMAIN metaDisk /\ metaDisk'[b] = metaDisk[b]

-----------------------------------------------------------------------------
(* A flush, failed or not, writes the next block of its log, and a buffer's *)
(* next block only grows.                                                   *)
LEMMA FlushWrites ==
  ASSUME NEW m \in {sectors, checksums}, metaDisk' \in {metaDisk, Flushed(m)}
  PROVE  OnlyNextBlocks
  <1>1. CASE metaDisk' = metaDisk
    BY <1>1 DEF OnlyNextBlocks
  <1>2. CASE metaDisk' = Flushed(m)
    BY <1>2 DEF Flushed, OnlyNextBlocks
  <1> QED
    BY <1>1, <1>2

(* What any step of the write path does to the metadata.                    *)
LEMMA WriteWrites ==
  ASSUME Next
  PROVE  /\ OnlyNextBlocks
         /\ sectors'.next \in {sectors.next, sectors.next + 1}
  <1>1. ASSUME NEW m \in {sectors, checksums}, FlushFails(m)
        PROVE  OnlyNextBlocks /\ sectors' = sectors
    BY <1>1, FlushWrites DEF FlushFails
  <1>2. ASSUME NEW entry, NEW next, AppendSector(entry, next)
        PROVE  OnlyNextBlocks /\ sectors'.next \in {sectors.next, sectors.next + 1}
    BY <1>1, <1>2, FlushWrites DEF AppendSector, Stored, SectorsReset, Reset
  <1>3. UNCHANGED metaDisk => OnlyNextBlocks
    BY DEF OnlyNextBlocks
  <1>4. CASE AppendDataSector \/ AppendParitySector
    BY <1>2, <1>4 DEF AppendDataSector, AppendParitySector
  <1>5. CASE AppendDataChecksum \/ AppendParityChecksum
    <2>1. OnlyNextBlocks /\ sectors' = sectors
      BY <1>1, <1>3, <1>5, FlushWrites DEF AppendDataChecksum, AppendParityChecksum
    <2> QED
      BY <2>1
  <1>6. CASE \E s \in DataSector, d, page \in Block, m, n \in Beyond :
               StartWrite(s, d, page, m, n)
    BY <1>3, <1>6 DEF StartWrite
  <1>7. CASE Submit
    BY <1>3, <1>7 DEF Submit
  <1> QED
    BY <1>4, <1>5, <1>6, <1>7 DEF Next

(* What the destructor's store does to the metadata.                        *)
LEMMA StoreWrites ==
  ASSUME entanglement_tgt_dtr
  PROVE  OnlyNextBlocks
  <1>1. metaDisk' \in {metaDisk, SectorsStored, AllStored}
    BY DEF entanglement_tgt_dtr
  <1> QED
    BY <1>1 DEF SectorsStored, AllStored, OnDisk, OnlyNextBlocks

-----------------------------------------------------------------------------
(* Where a session writes its sectors.                                      *)
LEMMA SectorsBehind == SessionSpec => []SectorsGoBehind
  <1> USE MetadataAssumption
  <1>1. SessionInit => SectorsGoBehind
    BY DEF SessionInit, Init, SectorsGoBehind
  <1>2. SectorsGoBehind /\ [SessionNext]_sessionVars => SectorsGoBehind'
    <2> SUFFICES ASSUME SectorsGoBehind, [SessionNext]_sessionVars
                 PROVE  SectorsGoBehind'
      OBVIOUS
    <2>1. CASE WriteStep
      BY <2>1, WriteWrites DEF WriteStep, SectorsGoBehind
    <2>2. CASE entanglement_tgt_dtr \/ Crash
      BY <2>2
      DEF entanglement_tgt_dtr, Crash, ForgetMemory, FreshSectors, SectorsGoBehind
    <2>3. CASE OpenNew
      BY <2>3 DEF OpenNew, OpenWith, vars, SectorsGoBehind
    <2>4. CASE load_entanglement_and_checksums
      BY <2>4 DEF load_entanglement_and_checksums, LoadedSectors, SectorsGoBehind
    <2>5. CASE UNCHANGED sessionVars
      BY <2>5 DEF sessionVars, vars, SectorsGoBehind
    <2> QED
      BY <2>1, <2>2, <2>3, <2>4, <2>5 DEF SessionNext
  <1> QED
    BY <1>1, <1>2, PTL DEF SessionSpec

(* Whatever a session that loaded the log writes, and however it ends, the  *)
(* blocks of the sector area stay as they are.                              *)
THEOREM LogIsKept == SessionSpec => LaterSessionsKeepTheLog
  <1> DEFINE Kept ==
        phase = "open" /\ opened = "load" /\ checksums.next < MetaStart =>
          \A b \in SectorArea :
            /\ b \in DOMAIN metaDisk <=> b \in DOMAIN metaDisk'
            /\ b \in DOMAIN metaDisk => metaDisk'[b] = metaDisk[b]
  <1>1. SectorsGoBehind /\ [SessionNext]_sessionVars => [Kept]_sessionVars
    <2> SUFFICES ASSUME SectorsGoBehind, SessionNext,
                        phase = "open", opened = "load", checksums.next < MetaStart,
                        NEW b \in SectorArea
                 PROVE  /\ b \in DOMAIN metaDisk <=> b \in DOMAIN metaDisk'
                        /\ b \in DOMAIN metaDisk => metaDisk'[b] = metaDisk[b]
      OBVIOUS
    <2>1. b # sectors.next /\ b # checksums.next
      BY MetadataAssumption DEF SectorArea, SectorsGoBehind
    <2>2. OnlyNextBlocks
      BY WriteWrites, StoreWrites
      DEF SessionNext, WriteStep, Crash, OpenNew, OpenWith,
          load_entanglement_and_checksums, OnlyNextBlocks
    <2> QED
      BY <2>1, <2>2 DEF OnlyNextBlocks
  <1> QED
    BY <1>1, SectorsBehind, PTL DEF SessionSpec, LaterSessionsKeepTheLog

-----------------------------------------------------------------------------
(* Types.                                                                   *)

AnyEntry == ChainEntry \cup LoadedEntry

(* The memory between two sessions, which the next one starts with.         *)
Forgotten ==
  /\ chain = << >> /\ pc = "idle"
  /\ sectors = FreshSectors /\ checksums = FreshChecksums

SessionTypes ==
  /\ chain \in Seq(AnyEntry) /\ RestOK /\ NewOK
  /\ phase \in {"open", "closed", "broken"} /\ opened \in {"init", "load"}
  /\ sessions \in 1 .. MaxSessions
  /\ recorded \in Seq(Sector)
  /\ opened = "init" => chain \in Seq(ChainEntry)
  /\ phase # "open" => Forgotten

(* In a session of a new device the types are those of the write path.      *)
LEMMA NewDeviceTypes ==
  ASSUME SessionTypes, opened = "init"
  PROVE  TypeInv
  BY TypeParts DEF SessionTypes, NewOK, HandlerOwnsTwo

(* The sectors of a chain are sectors.                                      *)
SectorsIn(c) == [i \in DOMAIN c |-> c[i].block_sector]

LEMMA SectorsInType ==
  ASSUME NEW c \in Seq(ChainEntry)
  PROVE  /\ SectorsIn(c) \in Seq(Sector)
         /\ Len(SectorsIn(c)) = Len(c) /\ Len(c) \in Nat
         /\ \A i \in 1 .. Len(c) : SectorsIn(c)[i] = c[i].block_sector
  <1>1. Len(c) \in Nat /\ DOMAIN c = 1 .. Len(c)
    BY LenProperties
  <1>2. \A i \in 1 .. Len(c) : c[i].block_sector \in Sector
    <2>1. \A i \in 1 .. Len(c) : c[i] \in ChainEntry
      BY ElementOfSeq
    <2> QED
      BY <2>1 DEF ChainEntry
  <1>3. SectorsIn(c) \in [1 .. Len(c) -> Sector]
    BY <1>1, <1>2 DEF SectorsIn
  <1>4. SectorsIn(c) \in Seq(Sector) /\ Len(SectorsIn(c)) = Len(c)
    BY <1>1, <1>3, SeqDef
  <1> QED
    BY <1>1, <1>4 DEF SectorsIn

(* The chain up to the write in the handler.                                *)
CommittedPart(c, at) == IF at = "idle" THEN c ELSE SubSeq(c, 1, Len(c) - 2)

LEMMA CommittedType ==
  ASSUME NEW c \in Seq(ChainEntry), NEW at, at # "idle" => Len(c) >= 2
  PROVE  /\ CommittedPart(c, at) \in Seq(ChainEntry)
         /\ Len(CommittedPart(c, at)) = IF at = "idle" THEN Len(c) ELSE Len(c) - 2
         /\ \A i \in 1 .. Len(CommittedPart(c, at)) : CommittedPart(c, at)[i] = c[i]
  BY DropTwo DEF CommittedPart

(* A fresh buffer is a buffer.                                              *)
LEMMA FreshTypes ==
  /\ FreshSectors \in Buffer(Sector, SectorsPerBlock)
  /\ FreshChecksums \in Buffer(Checksum, ChecksumsPerBlock)
  BY Capacities, MetadataAssumption DEF FreshSectors, FreshChecksums, Buffer, MetaEntry

(* What the end of a session leaves of the memory.                          *)
LEMMA ForgetTypes ==
  ASSUME SessionTypes, ForgetMemory, DiskOK'
  PROVE  /\ RestOK' /\ NewOK' /\ Forgotten'
         /\ chain' \in Seq(AnyEntry) /\ chain' \in Seq(ChainEntry)
  <1>1. sector_checksum_map' \in [MapSector -> Checksum]
    BY ZeroChecksumType DEF ForgetMemory
  <1>2. /\ RestOK' /\ NewOK'
    BY <1>1, ZeroBlockType, FreshTypes DEF ForgetMemory, RestOK, NewOK, SessionTypes
  <1>3. Forgotten'
    BY DEF ForgetMemory, Forgotten, FreshSectors, FreshChecksums
  <1> QED
    BY <1>2, <1>3 DEF ForgetMemory

(* A page the destructor stores is a metadata block.                        *)
LEMMA StoredPageType ==
  ASSUME RestOK, NEW copied \in Nat
  PROVE  /\ StoredPage(sectors, copied) \in MetaBlock
         /\ StoredPage(checksums, copied) \in MetaBlock
  BY DEF RestOK, Buffer, MetaBlock, MetaEntry, StoredPage

LEMMA OnDiskType ==
  ASSUME NEW blocks, DOMAIN blocks \subseteq Nat, \A b \in DOMAIN blocks : blocks[b] \in MetaBlock,
         NEW block \in Nat, NEW page \in MetaBlock
  PROVE  /\ DOMAIN OnDisk(blocks, block, page) \subseteq Nat
         /\ \A b \in DOMAIN OnDisk(blocks, block, page) :
              OnDisk(blocks, block, page)[b] \in MetaBlock
  BY DEF OnDisk

LEMMA StoreTypes ==
  ASSUME RestOK, metaDisk' \in {metaDisk, SectorsStored, AllStored}
  PROVE  DiskOK'
  <1>1. sectors.next \in Nat /\ checksums.next \in Nat /\ DiskOK
    BY DEF RestOK, Buffer
  <1>2. /\ DOMAIN SectorsStored \subseteq Nat
        /\ \A b \in DOMAIN SectorsStored : SectorsStored[b] \in MetaBlock
    BY <1>1, StoredPageType, OnDiskType DEF SectorsStored, DiskOK
  <1>3. /\ DOMAIN AllStored \subseteq Nat
        /\ \A b \in DOMAIN AllStored : AllStored[b] \in MetaBlock
    <2> HIDE DEF SectorsStored
    <2> QED
      BY <1>1, <1>2, StoredPageType, OnDiskType DEF AllStored
  <1> QED
    BY <1>1, <1>2, <1>3 DEF DiskOK

(* What the loader reads of a block are the entries of a sector buffer.     *)
SectorPage == [0 .. SectorsPerBlock - 1 -> MetaEntry(Sector)]

LEMMA ReadType ==
  ASSUME DiskOK, NEW b
  PROVE  BlockRead(b) \in SectorPage
  <1>1. CASE b \in DOMAIN metaDisk /\ DOMAIN metaDisk[b] = 0 .. SectorsPerBlock - 1
    <2>1. 0 .. SectorsPerBlock - 1 # 0 .. ChecksumsPerBlock - 1
      <3>1. /\ SectorsPerBlock \in 0 .. ChecksumsPerBlock - 1
            /\ SectorsPerBlock \notin 0 .. SectorsPerBlock - 1
        BY MetadataAssumption DEF ChecksumsPerBlock
      <3> QED
        BY <3>1
    <2>2. metaDisk[b] \in MetaBlock
      BY <1>1 DEF DiskOK
    <2> QED
      BY <1>1, <2>1, <2>2 DEF MetaBlock, BlockRead, SectorPage
  <1>2. CASE ~(b \in DOMAIN metaDisk /\ DOMAIN metaDisk[b] = 0 .. SectorsPerBlock - 1)
    BY <1>2 DEF BlockRead, SectorPage, MetaEntry
  <1> QED
    BY <1>1, <1>2

LEMMA SectorsAreNumbers == Sector \subseteq Nat
  <1>1. \A s \in DataSector : s \in Nat /\ s + ParityOffset \in Nat
    BY SectorAssumption
  <1> QED
    BY <1>1 DEF Sector, ParitySector

LEMMA LowByteType ==
  ASSUME NEW e \in MetaEntry(Sector)
  PROVE  LowByte(e) \in (0 .. ByteRange - 1) \cup {Unset}
  <1>1. ByteRange \in Nat \ {0} /\ (e \in Sector => e \in Nat)
    BY SessionAssumption, SectorsAreNumbers
  <1>2. ByteRange - 1 \in 0 .. ByteRange - 1
    BY <1>1
  <1>3. CASE e = Unset
    BY <1>3, SessionAssumption DEF LowByte
  <1>5. CASE e = Default
    BY <1>2, <1>5, SessionAssumption DEF LowByte
  <1>4. CASE e \notin {Default, Unset}
    <2>1. e \in Nat
      BY <1>1, <1>4 DEF MetaEntry
    <2>2. e % ByteRange \in 0 .. ByteRange - 1
      BY <1>1, <2>1
    <2> QED
      BY <1>4, <2>2 DEF LowByte
  <1> QED
    BY <1>3, <1>4, <1>5

(* Every step of the write path keeps the types, whatever list is loaded.   *)
LEMMA WriteTypes ==
  ASSUME SessionTypes, WriteStep
  PROVE  SessionTypes'
  <1>1. [Next]_vars /\ phase = "open"
    BY DEF WriteStep
  <1>2. RestOK' /\ NewOK' /\ chain' \in Seq(AnyEntry)
    BY <1>1, RestStep, ListStep DEF SessionTypes, AnyEntry
  <1>3. CASE opened = "init"
    <2>1. chain' \in Seq(ChainEntry)
      BY <1>1, <1>3, ListStep DEF SessionTypes
    <2>2. recorded' = SectorsIn(CommittedPart(chain', pc'))
      BY <1>3 DEF WriteStep, SectorsIn, CommittedPart, Committed
    <2>3. CommittedPart(chain', pc') \in Seq(ChainEntry)
      BY <1>2, <2>1, CommittedType DEF NewOK
    <2>4. recorded' \in Seq(Sector)
      BY <2>2, <2>3, SectorsInType
    <2> QED
      BY <1>1, <1>2, <2>1, <2>4 DEF SessionTypes, WriteStep
  <1>4. CASE opened # "init"
    BY <1>1, <1>2, <1>4 DEF SessionTypes, WriteStep
  <1> QED
    BY <1>3, <1>4

(* What the loader leaves has the types.                                    *)
LEMMA LoadTypes ==
  ASSUME SessionTypes, load_entanglement_and_checksums
  PROVE  SessionTypes'
  <1>1. /\ MetaStart \in Nat /\ SectorBlocks \in Nat /\ SectorsPerBlock \in Nat
        /\ SectorsPerBlock # 0 /\ ChecksumsPerBlock \in Nat /\ ChecksumsPerBlock # 0
    BY MetadataAssumption DEF ChecksumsPerBlock
  <1>2. \A k \in Nat : EntryRead(k) \in (0 .. ByteRange - 1) \cup {Unset}
    <2> SUFFICES ASSUME NEW k \in Nat
                 PROVE  EntryRead(k) \in (0 .. ByteRange - 1) \cup {Unset}
      OBVIOUS
    <2> DEFINE b == MetaStart + k \div SectorsPerBlock
               r == k % SectorsPerBlock
    <2>1. r \in 0 .. SectorsPerBlock - 1
      BY <1>1
    <2>2. BlockRead(b) \in SectorPage
      BY ReadType DEF SessionTypes, RestOK
    <2> HIDE DEF b, r
    <2>3. BlockRead(b)[r] \in MetaEntry(Sector)
      BY <2>1, <2>2 DEF SectorPage
    <2> QED
      BY <2>3, LowByteType DEF EntryRead, b, r
  <1>3. LoadedChain \in Seq(AnyEntry)
    <2> DEFINE n == SectorBlocks * SectorsPerBlock
    <2>1. n \in Nat
      BY <1>1
    <2>2. LoadedChain = [i \in 1 .. n |-> [block_sector |-> EntryRead(i - 1),
                                          block_checksum |-> Unset, content |-> Unset]]
      BY DEF LoadedChain
    <2> HIDE DEF n
    <2>3. \A i \in 1 .. n : i - 1 \in Nat
      BY <2>1
    <2>4. LoadedChain \in [1 .. n -> AnyEntry]
      BY <1>2, <2>2, <2>3 DEF AnyEntry, LoadedEntry
    <2> QED
      BY <2>1, <2>4, SeqDef
  <1>4. /\ LoadedSectors \in Buffer(Sector, SectorsPerBlock)
        /\ LoadedChecksums \in Buffer(Checksum, ChecksumsPerBlock)
    <2>1. BlockRead(MetaStart + SectorBlocks - 1) \in SectorPage
      BY ReadType DEF SessionTypes, RestOK
    <2>2. [i \in 0 .. ChecksumsPerBlock - 1 |-> Unset]
            \in [0 .. ChecksumsPerBlock - 1 -> MetaEntry(Checksum)]
      BY DEF MetaEntry
    <2>3. /\ MetaStart + SectorBlocks \in Nat
          /\ SectorBlocks + (SectorBlocks + 1) \div 2 \in Nat
      BY <1>1
    <2>4. 0 \in 0 .. SectorsPerBlock - 1 /\ 0 \in 0 .. ChecksumsPerBlock - 1
      BY <1>1
    <2> QED
      BY <2>1, <2>2, <2>3, <2>4 DEF LoadedSectors, LoadedChecksums, Buffer, SectorPage
  <1>5. pc = "idle" /\ NewOK' /\ sessions' \in 1 .. MaxSessions
    BY SessionAssumption
    DEF load_entanglement_and_checksums, OpenWith, SessionTypes, Forgotten, NewOK
  <1>6. RestOK'
    BY <1>4 DEF load_entanglement_and_checksums, SessionTypes, RestOK, DiskOK
  <1> QED
    BY <1>3, <1>5, <1>6 DEF load_entanglement_and_checksums, OpenWith, SessionTypes

(* The types of a session are inductive.                                    *)
LEMMA SessionTypeInit == SessionInit => SessionTypes
  <1> SUFFICES ASSUME SessionInit PROVE SessionTypes
    OBVIOUS
  <1>1. TypeInv /\ chain = << >>
    BY TypeInit DEF SessionInit, Init
  <1>2. 1 \in 1 .. MaxSessions
    BY SessionAssumption
  <1> QED
    BY <1>1, <1>2, TypeParts DEF SessionInit, SessionTypes

LEMMA SessionTypeStep ==
  ASSUME SessionTypes, [SessionNext]_sessionVars
  PROVE  SessionTypes'
  <1>1. CASE entanglement_tgt_dtr \/ Crash
    <2>1. DiskOK'
      <3>1. metaDisk' \in {metaDisk, SectorsStored, AllStored}
        BY <1>1 DEF entanglement_tgt_dtr, Crash
      <3> QED
        BY <3>1, StoreTypes DEF SessionTypes
    <2>2. ForgetMemory
      BY <1>1 DEF entanglement_tgt_dtr, Crash
    <2>3. phase' \in {"closed", "broken"} /\ UNCHANGED <<opened, sessions, recorded>>
      BY <1>1 DEF entanglement_tgt_dtr, Crash
    <2> QED
      BY <2>1, <2>2, <2>3, ForgetTypes DEF SessionTypes
  <1>2. CASE OpenNew
    <2>1. chain \in Seq(ChainEntry) /\ sessions' \in 1 .. MaxSessions
      BY <1>2, SessionAssumption DEF OpenNew, OpenWith, SessionTypes, Forgotten
    <2>2. RestOK' /\ NewOK'
      BY <1>2 DEF OpenNew, SessionTypes, vars, RestOK, DiskOK, NewOK, NewData, NewParity
    <2> QED
      BY <1>2, <2>1, <2>2 DEF OpenNew, OpenWith, SessionTypes, vars
  <1>3. CASE UNCHANGED sessionVars
    <2>1. RestOK' /\ NewOK' /\ (Forgotten <=> Forgotten')
      BY <1>3
      DEF sessionVars, SessionTypes, vars, RestOK, DiskOK, NewOK, NewData, NewParity, Forgotten,
          FreshSectors, FreshChecksums
    <2> QED
      BY <1>3, <2>1 DEF sessionVars, SessionTypes, vars
  <1> QED
    BY <1>1, <1>2, <1>3, WriteTypes, LoadTypes DEF SessionNext

LEMMA SessionTypesHold == SessionSpec => []SessionTypes
  <1>1. SessionTypes /\ [SessionNext]_sessionVars => SessionTypes'
    BY SessionTypeStep
  <1> QED
    BY <1>1, SessionTypeInit, PTL DEF SessionSpec

(* The type invariant of the sessions, with what a loaded list may contain. *)
THEOREM SessionTypeCorrect == SessionSpec => []SessionTypeOK
  <1>1. SessionTypes => SessionTypeOK
    BY DEF SessionTypes, AnyEntry, RestOK, DiskOK, SessionTypeOK
  <1> QED
    BY <1>1, SessionTypesHold, PTL
-----------------------------------------------------------------------------
(* The session of a new device.                                             *)

(* The blocks of the sector log that are in its area have sectors.          *)
OwnPages ==
  \A b \in MetaStart .. sectors.next - 1 : b < ChecksumStart => metaDisk[b] \in SectorPage

NewInv == DriftInv /\ Covered /\ SectorLog /\ OwnPages

NewSession ==
  phase = "open" /\ opened = "init" =>
    NewInv /\ recorded = SectorsIn(CommittedPart(chain, pc))

(* A device that was just made or forgotten has empty logs.                 *)
LEMMA FreshNew ==
  ASSUME Forgotten, RestOK
  PROVE  NewInv /\ CommittedPart(chain, pc) = << >>
  <1>1. /\ chain = << >> /\ pc = "idle" /\ failed \in Nat
        /\ sectors.size = 0 /\ sectors.next = MetaStart
        /\ checksums.size = 0 /\ checksums.next = ChecksumStart
        /\ MetaStart \in Nat /\ ChecksumStart \in Nat
    BY MetadataAssumption
    DEF Forgotten, RestOK, FreshSectors, FreshChecksums, ChecksumStart
  <1>2. DriftInv /\ SectorLength = 0
    BY <1>1, FreshDrift
  <1>3. /\ MetaStart .. sectors.next - 1 = {} /\ ChecksumStart .. checksums.next - 1 = {}
        /\ 1 .. SectorLength = {}
    BY <1>1, <1>2
  <1> QED
    BY <1>1, <1>2, <1>3 DEF NewInv, Covered, SectorLog, OwnPages, CommittedPart

LEMMA NewUnchanged ==
  ASSUME NewInv, UNCHANGED <<chain, sectors, checksums, metaDisk, pc, failed>>
  PROVE  NewInv'
  <1>1. UNCHANGED <<SectorLength, ChecksumLength, PendingSectors, PendingChecksums>>
    BY DEF SectorLength, ChecksumLength, LogLength, PendingSectors, PendingChecksums,
           ChecksumStart, ChecksumsPerBlock
  <1>2. DriftInv'
    BY <1>1 DEF NewInv, DriftInv, ChecksumStart, Drift
  <1>3. Covered'
    BY DEF NewInv, Covered, ChecksumStart
  <1>4. SectorLog'
    BY <1>1 DEF NewInv, SectorLog, SectorAt, LoggedOn, SectorBlock, ChecksumStart
  <1>5. OwnPages'
    BY DEF NewInv, OwnPages, ChecksumStart, SectorPage, MetaEntry
  <1> QED
    BY <1>2, <1>3, <1>4, <1>5 DEF NewInv

(* Every step of the write path leaves sectors in the blocks of their area. *)
LEMMA OwnPagesStep ==
  ASSUME TypeInv, DriftInv, Covered, OwnPages, [Next]_vars
  PROVE  OwnPages'
  <1>1. /\ sectors.next \in Nat /\ checksums.next \in Nat /\ MetaStart \in Nat
        /\ ChecksumStart \in Nat /\ checksums.next >= ChecksumStart
        /\ sectors.buffer \in SectorPage
        /\ MetaStart .. sectors.next - 1 \subseteq DOMAIN metaDisk
    BY LogFacts DEF Buffer, SectorPage
  <1> SUFFICES ASSUME NEW b \in MetaStart .. sectors'.next - 1, b < ChecksumStart
               PROVE  metaDisk'[b] \in SectorPage
    BY DEF OwnPages, ChecksumStart, SectorPage
  <1>2. b # checksums.next /\ b \in Nat
    BY <1>1, NextOnlyAdvances
  <1>3. metaDisk' \in {metaDisk, Flushed(sectors), Flushed(checksums)}
    BY DiskShapes DEF FlushFailed
  <1>4. CASE b \in MetaStart .. sectors.next - 1
    <2>1. b \in DOMAIN metaDisk /\ b # sectors.next /\ metaDisk[b] \in SectorPage
      BY <1>1, <1>4 DEF OwnPages
    <2>2. Flushed(sectors)[b] = metaDisk[b] /\ Flushed(checksums)[b] = metaDisk[b]
      BY <1>2, <2>1, FlushedBlocks
    <2> QED
      BY <1>3, <2>1, <2>2
  <1>5. CASE b \notin MetaStart .. sectors.next - 1
    <2>1. b = sectors.next /\ sectors'.next = sectors.next + 1
      BY <1>1, <1>5, NextOnlyAdvances
    <2>2. metaDisk' = Flushed(sectors)
      BY <1>1, <2>1, DiskShapes DEF FlushFailed
    <2> QED
      BY <1>1, <2>1, <2>2, FlushedBlocks
  <1> QED
    BY <1>4, <1>5

LEMMA NewStep ==
  ASSUME SessionTypes, NewSession, WriteStep
  PROVE  NewSession'
  <1> SUFFICES ASSUME opened = "init"
               PROVE  NewInv' /\ recorded' = SectorsIn(CommittedPart(chain', pc'))
    BY DEF WriteStep, NewSession
  <1>1. TypeInv /\ NewInv /\ [Next]_vars
    BY NewDeviceTypes DEF WriteStep, NewSession
  <1>2. NewInv'
    BY <1>1, DriftStep, CoveredStep, SectorLogStep, OwnPagesStep DEF NewInv
  <1> QED
    BY <1>2 DEF WriteStep, SectorsIn, CommittedPart, Committed

-----------------------------------------------------------------------------
(* What stays on disk.                                                      *)

(* The slot of a sector in its block.                                       *)
Slot(i) == (i - 1) % (SectorsPerBlock - 1)

LogOnDisk ==
  failed = 0 /\ wild = 0 =>
    \A i \in 1 .. Len(recorded) :
      Durable(i) =>
        /\ SectorBlock(i) \in DOMAIN metaDisk
        /\ metaDisk[SectorBlock(i)] \in SectorPage
        /\ metaDisk[SectorBlock(i)][Slot(i)] = recorded[i]

(* Blocks of "used" entries each: where an entry of the full ones is.       *)
LEMMA FullBlock ==
  ASSUME NEW used \in Nat \ {0}, NEW blocks \in Nat, NEW i \in Nat \ {0},
         i <= blocks * used
  PROVE  /\ (i - 1) \div used \in 0 .. blocks - 1
         /\ (i - 1) % used \in 0 .. used - 1
  <1>1. i \in 1 .. blocks * used + 0
    BY blocks * used \in Int
  <1>2. 0 \in 0 .. used
    OBVIOUS
  <1> DEFINE q == (i - 1) \div used
             r == (i - 1) % used
  <1>3. q \in Nat /\ r \in 0 .. used - 1 /\ (q < blocks \/ (q = blocks /\ r < 0))
    <2>1. /\ q \in Nat /\ r \in 0 .. used - 1
          /\ \/ q < blocks
             \/ q = blocks /\ r < 0
      BY <1>1, <1>2, EntryPosition
    <2> HIDE DEF q, r
    <2> QED
      BY <2>1
  <1> HIDE DEF q, r
  <1>4. q \in 0 .. blocks - 1 /\ r \in 0 .. used - 1
    BY <1>3
  <1> QED
    BY <1>4 DEF q, r

(* A durable sector is in its area.                                         *)
LEMMA DurableBlock ==
  ASSUME NEW i \in 1 .. Len(recorded), Len(recorded) \in Nat, Durable(i)
  PROVE  /\ SectorBlock(i) \in SectorArea
         /\ SectorBlock(i) < ChecksumStart
         /\ Slot(i) \in 0 .. SectorsPerBlock - 2
         /\ (i - 1) \div (SectorsPerBlock - 1) \in 0 .. SectorBlocks - 1
  <1> DEFINE used == SectorsPerBlock - 1
             q == (i - 1) \div used
  <1>1. /\ used \in Nat \ {0} /\ SectorBlocks \in Nat /\ MetaStart \in Nat
        /\ SectorsPerBlock \in Nat /\ i \in Nat \ {0}
    BY MetadataAssumption
  <1>2. i <= SectorBlocks * used
    BY DEF Durable
  <1>3. q \in 0 .. SectorBlocks - 1 /\ Slot(i) \in 0 .. used - 1
    <2> HIDE DEF used
    <2> QED
      BY <1>1, <1>2, FullBlock DEF Slot, used
  <1> HIDE DEF q
  <1>4. used - 1 = SectorsPerBlock - 2
    BY <1>1
  <1>5. MetaStart + q \in SectorArea /\ MetaStart + q < ChecksumStart
    BY <1>1, <1>3 DEF SectorArea, ChecksumStart
  <1> QED
    BY <1>3, <1>4, <1>5 DEF SectorBlock, q

(* In the session that records them the durable sectors were flushed.       *)
LEMMA NewKeeps ==
  ASSUME SessionTypes, NewSession, phase = "open", opened = "init", failed = 0,
         NEW i \in 1 .. Len(recorded), Durable(i)
  PROVE  /\ SectorBlock(i) < sectors.next
         /\ SectorBlock(i) < checksums.next
         /\ SectorBlock(i) \in DOMAIN metaDisk
         /\ metaDisk[SectorBlock(i)] \in SectorPage
         /\ metaDisk[SectorBlock(i)][Slot(i)] = recorded[i]
  <1> DEFINE used == SectorsPerBlock - 1
             blocks == sectors.next - MetaStart
             q == (i - 1) \div used
             c == CommittedPart(chain, pc)
  <1>1. TypeInv /\ NewInv /\ recorded = SectorsIn(c) /\ chain \in Seq(ChainEntry)
    BY NewDeviceTypes DEF NewSession, SessionTypes
  <1>2. c \in Seq(ChainEntry) /\ Len(c) = (IF pc = "idle" THEN Len(chain) ELSE Len(chain) - 2)
        /\ \A j \in 1 .. Len(c) : c[j] = chain[j]
    BY <1>1, CommittedType DEF TypeInv, HandlerOwnsTwo
  <1>3. /\ Len(recorded) = Len(c) /\ Len(c) \in Nat
        /\ \A j \in 1 .. Len(c) : recorded[j] = c[j].block_sector
    BY <1>1, <1>2, SectorsInType
  <1>4. SectorLength \in Nat /\ Len(recorded) <= SectorLength
    <2>1. SectorLength = Len(recorded) + PendingSectors
      BY <1>1, <1>2, <1>3, LengthsAgree DEF NewInv
    <2>2. PendingSectors \in Nat
      BY DEF PendingSectors
    <2> QED
      BY <1>3, <2>1, <2>2
  <1>5. /\ used \in Nat \ {0} /\ blocks \in Nat /\ sectors.size \in 0 .. used
        /\ sectors.next = MetaStart + blocks /\ MetaStart \in Nat
        /\ ChecksumStart \in Nat /\ checksums.next \in Nat /\ checksums.next >= ChecksumStart
        /\ MetaStart .. sectors.next - 1 \subseteq DOMAIN metaDisk
        /\ SectorLength = blocks * used + sectors.size
    <2>1. /\ sectors \in Buffer(Sector, SectorsPerBlock)
          /\ sectors.next >= MetaStart /\ MetaStart \in Nat /\ sectors.next \in Nat
          /\ ChecksumStart \in Nat /\ checksums.next \in Nat /\ checksums.next >= ChecksumStart
          /\ MetaStart .. sectors.next - 1 \subseteq DOMAIN metaDisk
      BY <1>1, LogFacts DEF NewInv
    <2>2. /\ used \in Nat \ {0} /\ blocks \in Nat /\ sectors.size \in 0 .. used
          /\ SectorLength = blocks * used + sectors.size
      BY <2>1, LogType, Capacities DEF SectorLength
    <2>3. sectors.next = MetaStart + blocks
      BY <2>1
    <2> QED
      BY <2>1, <2>2, <2>3
  <1>6. i <= blocks * used
    <2>1. i <= Len(recorded) - used
      BY DEF Durable
    <2> HIDE DEF used, blocks
    <2>2. blocks * used \in Int
      BY <1>5
    <2> QED
      BY <1>3, <1>4, <1>5, <2>1, <2>2
  <1>7. q \in 0 .. blocks - 1 /\ i \in Nat \ {0}
    <2> HIDE DEF used, blocks
    <2>1. i \in Nat \ {0}
      BY <1>3
    <2> QED
      BY <1>5, <1>6, <2>1, FullBlock
  <1>8. SectorBlock(i) < ChecksumStart
    BY <1>3, DurableBlock
  <1>9. SectorBlock(i) = MetaStart + q
    BY DEF SectorBlock
  <1> HIDE DEF used, blocks, q, c
  <1>10. /\ SectorBlock(i) \in MetaStart .. sectors.next - 1
         /\ SectorBlock(i) < sectors.next /\ SectorBlock(i) < checksums.next
    BY <1>5, <1>7, <1>8, <1>9
  <1>11. SectorAt(i) = chain[i].block_sector
    <2>1. i \in 1 .. SectorLength
      BY <1>3, <1>4
    <2> QED
      BY <1>1, <1>8, <2>1 DEF NewInv, SectorLog
  <1>12. SectorAt(i) = metaDisk[SectorBlock(i)][Slot(i)]
    BY <1>10 DEF SectorAt, LoggedOn, SectorBlock, Slot
  <1>13. recorded[i] = chain[i].block_sector
    BY <1>2, <1>3
  <1> QED
    BY <1>1, <1>5, <1>8, <1>10, <1>11, <1>12, <1>13 DEF NewInv, OwnPages

(* A step that writes no block of a durable sector leaves them all on disk. *)
LEMMA LogStays ==
  ASSUME LogOnDisk, OnlyNextBlocks, recorded' = recorded,
         failed' = 0 /\ wild' = 0 => failed = 0 /\ wild = 0,
         ASSUME failed = 0, wild = 0, NEW i \in 1 .. Len(recorded), Durable(i)
         PROVE  SectorBlock(i) \notin {sectors.next, checksums.next}
  PROVE  LogOnDisk'
  <1> SUFFICES ASSUME failed = 0, wild = 0, NEW i \in 1 .. Len(recorded), Durable(i)
               PROVE  /\ SectorBlock(i) \in DOMAIN metaDisk'
                      /\ metaDisk'[SectorBlock(i)] \in SectorPage
                      /\ metaDisk'[SectorBlock(i)][Slot(i)] = recorded[i]
    BY DEF LogOnDisk, Durable, SectorBlock, Slot, SectorPage, MetaEntry
  <1> QED
    BY DEF LogOnDisk, OnlyNextBlocks

-----------------------------------------------------------------------------
(* A session that loaded the log.                                           *)

(* Its checksums: as writes append two at a time and a block has room for   *)
(* an odd number, the first flush comes with a parity and the second with a *)
(* data block, where the write oopses.                                      *)
Half == IF pc \in {"paritySector", "parityChecksum"} THEN 1 ELSE 0

FirstChecksums == SectorBlocks + (SectorBlocks + 1) \div 2

FewChecksums ==
  \/ checksums.next = FirstChecksums /\ checksums.size % 2 = Half
  \/ checksums.next = FirstChecksums + 1 /\ checksums.size % 2 = 1 - Half
  \/ checksums.next = FirstChecksums + 2 /\ pc = "oops"

LoadedKept ==
  /\ Len(chain) >= SectorBlocks * SectorsPerBlock
  /\ LoadFollowsTheLog

LoadSession ==
  phase = "open" /\ opened = "load" =>
    /\ sectors.next >= MetaStart + SectorBlocks
    /\ failed = 0 /\ wild = 0 => FewChecksums /\ LoadedKept

Older == ~(phase = "open" /\ opened = "init") => LogOnDisk

SessionInv == SessionTypes /\ NewSession /\ Older /\ LoadSession

(* The checksums it flushes stay below the area of the sectors.             *)
LEMMA ChecksumsBelow ==
  ASSUME FewChecksums, SectorBlocks > 0
  PROVE  checksums.next < MetaStart
  <1>1. SectorBlocks \in Nat /\ MetaStart \in Nat /\ MetaStart > 2 * SectorBlocks + 2
    BY MetadataAssumption, SessionAssumption
  <1>2. (SectorBlocks + 1) \div 2 <= SectorBlocks /\ (SectorBlocks + 1) \div 2 \in Nat
    BY <1>1
  <1> QED
    BY <1>1, <1>2 DEF FewChecksums, FirstChecksums

(* Neither an append nor a flush of its checksums disturbs the count.       *)
LEMMA FewStep ==
  ASSUME RestOK, NewOK, FewChecksums, [Next]_vars, failed' = 0, wild' = 0, failed = 0, wild = 0
  PROVE  FewChecksums'
  <1> DEFINE C == ChecksumsPerBlock
             n == checksums.next
             k == checksums.size
  <1>0. /\ k \in 0 .. C - 1 /\ n \in Nat
        /\ SectorsPerBlock \in Nat /\ C = 2 * SectorsPerBlock
        /\ FirstChecksums \in Nat
    BY MetadataAssumption DEF RestOK, Buffer, ChecksumsPerBlock, FirstChecksums
  <1>1. FirstChecksums' = FirstChecksums
    BY DEF FirstChecksums
  <1>2. /\ k % 2 = 0 => (k + 1) % 2 = 1
        /\ k % 2 = 1 => (k + 1) % 2 = 0
        /\ C - 1 = k => k % 2 = 1
    <2>1. k \in Nat
      BY <1>0
    <2>2. C \in Nat /\ C % 2 = 0
      BY <1>0
    <2> HIDE DEF C, k
    <2> QED
      BY <2>1, <2>2
  <1>3. ~Fits(checksums, C) => k % 2 = 1
    BY <1>0, <1>2 DEF Fits
  <1>4. ASSUME UNCHANGED checksums, pc # "oops", pc' # "oops", Half' = Half
        PROVE  FewChecksums'
    BY <1>1, <1>4 DEF FewChecksums
  <1>5. ASSUME NEW m, FlushFails(m) PROVE FALSE
    BY <1>5 DEF FlushFails
  <1>6. CASE \E s \in DataSector, d, page \in Block, m, n2 \in Beyond :
               StartWrite(s, d, page, m, n2)
    BY <1>4, <1>6 DEF StartWrite, Half
  <1>7. CASE AppendDataSector \/ AppendParitySector
    <2>1. UNCHANGED checksums /\ pc # "oops" /\ pc' # "oops" /\ Half' = Half
      BY <1>5, <1>7 DEF AppendDataSector, AppendParitySector, AppendSector, Half
    <2> QED
      BY <1>4, <2>1
  <1>8. CASE AppendDataChecksum
    <2>1. pc = "dataChecksum" /\ Half = 0
      BY <1>8 DEF AppendDataChecksum, Half
    <2>2. CASE /\ checksums' = Stored(checksums, NewData.block_checksum)
               /\ pc' = "paritySector"
      <3>1. Half' = 1 /\ checksums'.next = n /\ checksums'.size = k + 1
        BY <2>2 DEF Half, Stored
      <3> QED
        BY <1>0, <1>1, <1>2, <2>1, <3>1 DEF FewChecksums
    <2>3. CASE ~Fits(checksums, C) /\ checksums' = ChecksumsReset /\ pc' = "oops"
      <3>1. checksums'.next = n + 1 /\ k % 2 = 1
        BY <1>3, <2>3 DEF ChecksumsReset, Reset
      <3> QED
        BY <1>0, <1>1, <2>1, <2>3, <3>1 DEF FewChecksums
    <2>4. wild' # wild + 1
      OBVIOUS
    <2> QED
      BY <1>5, <1>8, <2>2, <2>3, <2>4 DEF AppendDataChecksum
  <1>9. CASE AppendParityChecksum
    <2>1. pc = "parityChecksum" /\ Half = 1
      BY <1>9 DEF AppendParityChecksum, Half
    <2>2. CASE /\ checksums' = Stored(checksums, NewParity.block_checksum)
               /\ pc' = "submit"
      <3>1. Half' = 0 /\ checksums'.next = n /\ checksums'.size = k + 1
        BY <2>2 DEF Half, Stored
      <3> QED
        BY <1>0, <1>1, <1>2, <2>1, <3>1 DEF FewChecksums
    <2>3. CASE /\ ~Fits(checksums, C) /\ pc' = "submit"
               /\ checksums' = Stored(ChecksumsReset, NewParity.block_checksum)
      <3>1. Half' = 0 /\ checksums'.next = n + 1 /\ checksums'.size = 1 /\ k % 2 = 1
        BY <1>3, <2>3 DEF Half, Stored, ChecksumsReset, Reset
      <3> QED
        BY <1>0, <1>1, <2>1, <3>1 DEF FewChecksums
    <2> QED
      BY <1>5, <1>9, <2>2, <2>3 DEF AppendParityChecksum
  <1>10. CASE Submit
    BY <1>4, <1>10 DEF Submit, Half
  <1>11. CASE UNCHANGED vars
    BY <1>11 DEF vars, FewChecksums, FirstChecksums, Half
  <1> QED
    BY <1>6, <1>7, <1>8, <1>9, <1>10, <1>11 DEF Next

(* Where the list a session loads has a durable sector.                     *)
At(i) == ((i - 1) \div (SectorsPerBlock - 1)) * SectorsPerBlock + Slot(i) + 1

LEMMA AtType ==
  ASSUME NEW i \in 1 .. Len(recorded), Len(recorded) \in Nat, Durable(i)
  PROVE  /\ At(i) \in 1 .. SectorBlocks * SectorsPerBlock
         /\ (At(i) - 1) \div SectorsPerBlock = (i - 1) \div (SectorsPerBlock - 1)
         /\ (At(i) - 1) % SectorsPerBlock = Slot(i)
  <1> DEFINE q == (i - 1) \div (SectorsPerBlock - 1)
             r == Slot(i)
             p == q * SectorsPerBlock
  <1>1. /\ q \in 0 .. SectorBlocks - 1 /\ r \in 0 .. SectorsPerBlock - 2
        /\ SectorBlocks \in Nat /\ SectorsPerBlock \in Nat \ {0}
    BY DurableBlock, MetadataAssumption
  <1>2. At(i) = p + r + 1
    BY DEF At
  <1> HIDE DEF q, r
  <1>3. p \in Nat /\ p <= (SectorBlocks - 1) * SectorsPerBlock
    BY <1>1
  <1>4. /\ (SectorBlocks - 1) * SectorsPerBlock = SectorBlocks * SectorsPerBlock - SectorsPerBlock
        /\ SectorBlocks * SectorsPerBlock \in Nat
    BY <1>1
  <1>5. (p + r) \div SectorsPerBlock = q /\ (p + r) % SectorsPerBlock = r
    <2>1. q \in Nat /\ r \in 0 .. SectorsPerBlock - 1
      BY <1>1
    <2> QED
      BY <1>1, <2>1, NextPosition
  <1> HIDE DEF p
  <1>6. At(i) \in 1 .. SectorBlocks * SectorsPerBlock /\ At(i) - 1 = p + r
    <2> DEFINE all == SectorBlocks * SectorsPerBlock
               but == (SectorBlocks - 1) * SectorsPerBlock
    <2>1. p \in Nat /\ p <= but /\ but = all - SectorsPerBlock /\ all \in Nat
      BY <1>3, <1>4
    <2> HIDE DEF all, but
    <2>2. At(i) \in 1 .. all /\ At(i) - 1 = p + r
      BY <1>1, <1>2, <2>1
    <2> QED
      BY <2>2 DEF all
  <1> QED
    BY <1>5, <1>6 DEF q, r

(* What the loader finds: the durable sectors, in the order of the log.     *)
LEMMA LoadFinds ==
  ASSUME SessionTypes, LogOnDisk, load_entanglement_and_checksums, failed = 0, wild = 0
  PROVE  FewChecksums' /\ LoadedKept'
  <1>1. /\ SectorBlocks \in Nat /\ SectorsPerBlock \in Nat
        /\ ByteRange \in Nat \ {0}
        /\ Default # Unset /\ Default \notin Sector /\ Unset \notin Sector
    BY MetadataAssumption, SessionAssumption
  <1>2. recorded \in Seq(Sector) /\ Len(recorded) \in Nat /\ recorded' = recorded /\ pc' = "idle"
    BY DEF SessionTypes, Forgotten, load_entanglement_and_checksums, OpenWith
  <1>3. FewChecksums'
    BY <1>2 DEF load_entanglement_and_checksums, LoadedChecksums, FewChecksums, FirstChecksums, Half
  <1>4. Len(chain') = SectorBlocks * SectorsPerBlock
    <2> DEFINE all == SectorBlocks * SectorsPerBlock
    <2>1. all \in Nat /\ DOMAIN chain' = 1 .. all
      BY <1>1 DEF load_entanglement_and_checksums, LoadedChain
    <2>2. chain' \in Seq(AnyEntry)
      BY LoadTypes DEF SessionTypes
    <2> HIDE DEF all
    <2>3. Len(chain') = all
      BY <2>1, <2>2, LenProperties
    <2> QED
      BY <2>3 DEF all
  <1>5. ASSUME NEW i \in 1 .. Len(recorded), Durable(i)
        PROVE  chain'[At(i)].block_sector = recorded[i] % ByteRange
    <2>1. /\ At(i) \in 1 .. SectorBlocks * SectorsPerBlock
          /\ (At(i) - 1) \div SectorsPerBlock = (i - 1) \div (SectorsPerBlock - 1)
          /\ (At(i) - 1) % SectorsPerBlock = Slot(i)
      BY <1>2, <1>5, AtType
    <2>2. chain'[At(i)].block_sector = EntryRead(At(i) - 1)
      BY <2>1 DEF load_entanglement_and_checksums, LoadedChain
    <2>3. EntryRead(At(i) - 1) = LowByte(BlockRead(SectorBlock(i))[Slot(i)])
      BY <2>1 DEF EntryRead, SectorBlock
    <2>4. /\ SectorBlock(i) \in DOMAIN metaDisk
          /\ metaDisk[SectorBlock(i)] \in SectorPage
          /\ metaDisk[SectorBlock(i)][Slot(i)] = recorded[i]
      BY <1>5 DEF LogOnDisk
    <2>5. BlockRead(SectorBlock(i)) = metaDisk[SectorBlock(i)]
      BY <2>4 DEF SectorPage, BlockRead
    <2>6. recorded[i] \in Sector
      BY <1>2, <1>5, ElementOfSeq
    <2>7. LowByte(recorded[i]) = recorded[i] % ByteRange
      BY <1>1, <2>6 DEF LowByte
    <2> QED
      BY <2>2, <2>3, <2>4, <2>5, <2>7
  <1>6. LoadFollowsTheLog'
    BY <1>2, <1>5 DEF LoadFollowsTheLog, At, Slot, Durable
  <1>7. SectorBlocks * SectorsPerBlock \in Nat
    BY <1>1
  <1> QED
    BY <1>3, <1>4, <1>6, <1>7 DEF LoadedKept

(* A write that succeeds or not leaves the loaded entries in the list.      *)
LEMMA LoadedStays ==
  ASSUME SessionTypes, LoadedKept, [Next]_vars, recorded' = recorded, phase = "open",
         opened = "load", failed = 0, wild = 0, failed' = 0
  PROVE  LoadedKept'
  <1>1. /\ Len(chain') >= Len(chain) /\ Len(chain) \in Nat /\ Len(chain') \in Nat
        /\ \A i \in 1 .. Len(chain) : chain'[i] = chain[i]
    <2>1. /\ chain \in Seq(AnyEntry) /\ chain' \in Seq(AnyEntry)
          /\ Len(chain') >= Len(chain)
          /\ \A i \in 1 .. Len(chain) : chain'[i] = chain[i]
      BY ListStep DEF SessionTypes, AnyEntry
    <2> QED
      BY <2>1, LenProperties
  <1>2. SectorBlocks * SectorsPerBlock \in Nat /\ Len(recorded) \in Nat
    BY MetadataAssumption DEF SessionTypes
  <1>3. ASSUME NEW i \in 1 .. Len(recorded), Durable(i)
        PROVE  chain'[At(i)].block_sector = recorded[i] % ByteRange
    <2> DEFINE all == SectorBlocks * SectorsPerBlock
    <2>1. At(i) \in 1 .. all
      BY <1>2, <1>3, AtType
    <2>2. all \in Nat /\ Len(chain) >= all
      BY <1>2 DEF LoadedKept
    <2> HIDE DEF all
    <2>3. At(i) \in 1 .. Len(chain)
      BY <1>1, <2>1, <2>2
    <2>4. chain[At(i)].block_sector = recorded[i] % ByteRange
      BY <1>3 DEF LoadedKept, LoadFollowsTheLog, At, Slot
    <2> QED
      BY <1>1, <2>3, <2>4
  <1>4. LoadFollowsTheLog'
    BY <1>3 DEF LoadFollowsTheLog, At, Slot, Durable
  <1>5. Len(chain') >= SectorBlocks * SectorsPerBlock
    <2> DEFINE all == SectorBlocks * SectorsPerBlock
    <2>1. all \in Nat /\ Len(chain) >= all
      BY <1>2 DEF LoadedKept
    <2> HIDE DEF all
    <2>2. Len(chain') >= all
      BY <1>1, <2>1
    <2> QED
      BY <2>2 DEF all
  <1> QED
    BY <1>4, <1>5 DEF LoadedKept

(* No block that an open session may write next has a durable sector.       *)
LEMMA DurableUntouched ==
  ASSUME SessionInv, phase = "open", failed = 0, wild = 0,
         NEW i \in 1 .. Len(recorded), Durable(i)
  PROVE  SectorBlock(i) \notin {sectors.next, checksums.next}
  <1>1. /\ SectorBlock(i) \in SectorArea
        /\ sectors.next \in Nat /\ checksums.next \in Nat
        /\ SectorBlocks \in Nat /\ MetaStart \in Nat
    BY DurableBlock, MetadataAssumption DEF SessionInv, SessionTypes, RestOK, Buffer
  <1>2. CASE opened = "init"
    BY <1>1, <1>2, NewKeeps DEF SessionInv, SectorArea
  <1>3. CASE opened = "load"
    <2>1. FewChecksums /\ sectors.next >= MetaStart + SectorBlocks /\ SectorBlocks > 0
      BY <1>1, <1>3 DEF SessionInv, LoadSession, SectorArea
    <2> QED
      BY <1>1, <2>1, ChecksumsBelow DEF SectorArea
  <1> QED
    BY <1>2, <1>3 DEF SessionInv, SessionTypes

(* At any time the durable sectors are on disk.                             *)
LEMMA AlwaysOnDisk ==
  ASSUME SessionInv
  PROVE  LogOnDisk
  <1>1. CASE phase = "open" /\ opened = "init"
    BY <1>1, NewKeeps DEF SessionInv, LogOnDisk
  <1> QED
    BY <1>1 DEF SessionInv, Older

-----------------------------------------------------------------------------
(* The invariant of the sessions.                                           *)
LEMMA SessionInvInit == SessionInit => SessionInv
  <1> SUFFICES ASSUME SessionInit PROVE SessionInv
    OBVIOUS
  <1>1. SessionTypes /\ Forgotten
    BY SessionTypeInit
    DEF SessionInit, Init, Forgotten, FreshSectors, FreshChecksums
  <1>2. NewInv /\ CommittedPart(chain, pc) = << >>
    BY <1>1, FreshNew DEF SessionTypes
  <1>3. SectorsIn(<< >>) = << >>
    BY DEF SectorsIn
  <1> QED
    BY <1>1, <1>2, <1>3 DEF SessionInit, SessionInv, NewSession, Older, LoadSession

(* Failures and wild reads are counted over all sessions.                   *)
LEMMA FaultsGrow ==
  ASSUME SessionTypes, [SessionNext]_sessionVars, failed' = 0, wild' = 0
  PROVE  failed = 0 /\ wild = 0
  <1>1. failed \in Nat /\ wild \in Nat
    BY DEF SessionTypes, RestOK
  <1>2. CASE [Next]_vars
    BY <1>1, <1>2, MetaShapes
    DEF SectorsGrow, ChecksumsGrow, ChecksumsFlushed, FlushFailed
  <1>3. CASE UNCHANGED <<failed, wild>>
    BY <1>3
  <1>4. [Next]_vars \/ UNCHANGED <<failed, wild>>
    BY DEF SessionNext, WriteStep, entanglement_tgt_dtr, Crash, ForgetMemory, OpenNew,
           load_entanglement_and_checksums, sessionVars, vars
  <1> QED
    BY <1>2, <1>3, <1>4

LEMMA SessionInvStep ==
  ASSUME SessionInv, [SessionNext]_sessionVars
  PROVE  SessionInv'
  <1>1. SessionTypes /\ SessionTypes' /\ LogOnDisk
    BY SessionTypeStep, AlwaysOnDisk DEF SessionInv
  <1>2. failed' = 0 /\ wild' = 0 => failed = 0 /\ wild = 0
    BY <1>1, FaultsGrow
  (* A step of an open session writes none of the durable blocks.           *)
  <1>3. ASSUME phase = "open", OnlyNextBlocks, recorded' = recorded
        PROVE  LogOnDisk'
    BY <1>1, <1>2, <1>3, DurableUntouched, LogStays
  <1>4. CASE WriteStep
    <2>1. NewSession'
      BY <1>4, NewStep DEF SessionInv
    <2>2. phase = "open" /\ UNCHANGED <<phase, opened>> /\ [Next]_vars /\ OnlyNextBlocks
      BY <1>4, WriteWrites DEF WriteStep
    <2>3. CASE opened = "init"
      BY <1>1, <2>1, <2>2, <2>3 DEF SessionInv, Older, LoadSession
    <2>4. CASE opened = "load"
      <3>1. recorded' = recorded
        BY <1>4, <2>4 DEF WriteStep
      <3>2. LogOnDisk'
        BY <1>3, <2>2, <3>1
      <3>3. sectors'.next >= MetaStart + SectorBlocks
        <4>1. sectors'.next \in {sectors.next, sectors.next + 1}
          BY <1>4, WriteWrites DEF WriteStep
        <4>2. sectors.next >= MetaStart + SectorBlocks /\ sectors.next \in Nat
              /\ MetaStart \in Nat /\ SectorBlocks \in Nat
          BY <1>1, <2>2, <2>4, MetadataAssumption
          DEF SessionInv, LoadSession, SessionTypes, RestOK, Buffer
        <4> QED
          BY <4>1, <4>2
      <3>4. ASSUME failed' = 0, wild' = 0 PROVE FewChecksums' /\ LoadedKept'
        <4>1. failed = 0 /\ wild = 0 /\ FewChecksums /\ LoadedKept
          BY <1>2, <2>2, <2>4, <3>4 DEF SessionInv, LoadSession
        <4> QED
          BY <1>1, <2>2, <2>4, <3>1, <3>4, <4>1, FewStep, LoadedStays DEF SessionTypes
      <3> QED
        BY <1>1, <2>1, <2>2, <2>4, <3>2, <3>3, <3>4 DEF SessionInv, Older, LoadSession
    <2> QED
      BY <1>1, <2>3, <2>4 DEF SessionTypes
  <1>5. CASE entanglement_tgt_dtr \/ Crash
    <2>1. /\ phase = "open" /\ phase' # "open" /\ recorded' = recorded
          /\ OnlyNextBlocks
      BY <1>5, StoreWrites DEF entanglement_tgt_dtr, Crash, OnlyNextBlocks
    <2>2. LogOnDisk'
      BY <1>3, <2>1
    <2> QED
      BY <1>1, <2>1, <2>2 DEF SessionInv, NewSession, Older, LoadSession
  <1>6. CASE OpenNew
    <2>1. Forgotten /\ UNCHANGED vars /\ recorded' = << >> /\ phase' = "open" /\ opened' = "init"
      BY <1>1, <1>6 DEF OpenNew, OpenWith, SessionTypes
    <2>2. NewInv' /\ CommittedPart(chain', pc') = << >>
      <3>1. NewInv /\ CommittedPart(chain, pc) = << >>
        BY <1>1, <2>1, FreshNew DEF SessionTypes
      <3> QED
        BY <2>1, <3>1, NewUnchanged DEF vars, CommittedPart
    <2>3. SectorsIn(<< >>) = << >>
      BY DEF SectorsIn
    <2> QED
      BY <1>1, <2>1, <2>2, <2>3 DEF SessionInv, NewSession, Older, LoadSession
  <1>7. CASE load_entanglement_and_checksums
    <2>1. /\ phase' = "open" /\ opened' = "load"
          /\ UNCHANGED <<metaDisk, recorded, failed, wild>>
          /\ sectors'.next = MetaStart + SectorBlocks
      BY <1>7 DEF load_entanglement_and_checksums, OpenWith, LoadedSectors
    <2>2. LogOnDisk'
      BY <1>1, <2>1 DEF LogOnDisk, Durable, SectorBlock, Slot, SectorPage, MetaEntry
    <2>3. MetaStart + SectorBlocks >= MetaStart + SectorBlocks
      BY MetadataAssumption
    <2>4. failed' = 0 /\ wild' = 0 => FewChecksums' /\ LoadedKept'
      BY <1>1, <1>7, <2>1, LoadFinds
    <2> QED
      BY <1>1, <2>1, <2>2, <2>3, <2>4 DEF SessionInv, NewSession, Older, LoadSession
  <1>8. CASE UNCHANGED sessionVars
    <2>1. /\ NewInv => NewInv'
          /\ CommittedPart(chain', pc') = CommittedPart(chain, pc)
      BY <1>8, NewUnchanged DEF sessionVars, vars, CommittedPart
    <2>2. LogOnDisk'
      BY <1>1, <1>8
      DEF sessionVars, vars, LogOnDisk, Durable, SectorBlock, Slot, SectorPage, MetaEntry
    <2>3. LoadSession'
      BY <1>8
      DEF sessionVars, vars, SessionInv, LoadSession, FewChecksums, FirstChecksums, Half,
          LoadedKept, LoadFollowsTheLog, Durable
    <2>4. NewSession'
      BY <1>8, <2>1 DEF sessionVars, vars, SessionInv, NewSession, SectorsIn
    <2> QED
      BY <1>1, <2>2, <2>3, <2>4 DEF SessionInv, Older
  <1> QED
    BY <1>4, <1>5, <1>6, <1>7, <1>8 DEF SessionNext

LEMMA SessionInvariant == SessionSpec => []SessionInv
  <1>1. SessionInv /\ [SessionNext]_sessionVars => SessionInv'
    BY SessionInvStep
  <1> QED
    BY <1>1, SessionInvInit, PTL DEF SessionSpec

(* Closes that fail, crashes at any point of a write and later sessions,    *)
(* however many, lose at most the last block's worth of what a new device   *)
(* recorded: the other sectors stay on disk where they were written.        *)
THEOREM DurableSurvive == SessionSpec => []FlushedSectorsSurvive
  <1>1. SessionInv => FlushedSectorsSurvive
    BY AlwaysOnDisk DEF LogOnDisk, FlushedSectorsSurvive, SectorBlock, Slot
  <1> QED
    BY <1>1, SessionInvariant, PTL

(* The list a session loads, and whatever it becomes by its writes, has a   *)
(* byte of each durable sector in the order of the log.                     *)
THEOREM LoadCorrect == SessionSpec => []LoadFollowsTheLog
  <1>1. SessionInv => LoadFollowsTheLog
    BY DEF SessionInv, LoadSession, LoadedKept, LoadFollowsTheLog
  <1> QED
    BY <1>1, SessionInvariant, PTL
=============================================================================

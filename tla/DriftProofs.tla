----------------------------- MODULE DriftProofs -----------------------------
(***************************************************************************)
(* For every block size and any number of failed flushes: how far the      *)
(* sector log and the checksum log run ahead of the chain and of each      *)
(* other, and that the checksums need half the blocks of the sectors.      *)
(***************************************************************************)
EXTENDS WritePathProofs

ChecksumStart == MetaStart + SectorBlocks

SectorLength == LogLength(sectors, MetaStart, SectorsPerBlock - 1)
ChecksumLength == LogLength(checksums, ChecksumStart, ChecksumsPerBlock - 1)

(* The sectors and checksums the write in the handler has appended so far.  *)
PendingSectors ==
  IF pc \in {"idle", "dataSector"} THEN 0
  ELSE IF pc \in {"parityChecksum", "submit"} THEN 2 ELSE 1

PendingChecksums ==
  IF pc \in {"paritySector", "parityChecksum"} THEN 1
  ELSE IF pc = "submit" THEN 2 ELSE 0

(* The bounds of LogsDriftOnlyByFailures, for the lengths l of the chain, s *)
(* of the sector log and c of the checksum log after f failures.            *)
Drift(l, s, c, f) ==
  /\ l <= c /\ c <= s
  /\ s <= c + f
  /\ c <= l + f

DriftInv ==
  /\ sectors.next >= MetaStart /\ checksums.next >= ChecksumStart
  /\ Drift(IF pc = "idle" THEN Len(chain) ELSE Len(chain) - 2,
           SectorLength - PendingSectors, ChecksumLength - PendingChecksums, failed)

-----------------------------------------------------------------------------
(* A log is as long as its full blocks and its buffer; a flush of a full    *)
(* buffer does not change its length and an append adds one.                *)
LEMMA LogGrows ==
  ASSUME NEW V, NEW capacity \in Nat, NEW m \in Buffer(V, capacity),
         NEW start \in Nat, NEW e, NEW cleared
  PROVE  LET used == capacity - 1
             empty == Reset(m, cleared)
         IN  /\ LogLength(m, start, used) \in Int
             /\ LogLength(Stored(m, e), start, used) = LogLength(m, start, used) + 1
             /\ Stored(m, e).next = m.next
             /\ ~Fits(m, capacity) =>
                  /\ LogLength(empty, start, used) = LogLength(m, start, used)
                  /\ LogLength(Stored(empty, e), start, used) = LogLength(m, start, used) + 1
                  /\ empty.next = m.next + 1
                  /\ Stored(empty, e).next = m.next + 1
  <1> DEFINE used == capacity - 1
             blocks == m.next - start
  <1>1. m.size \in 0 .. used /\ m.next \in Nat /\ used \in Int /\ blocks \in Int
    BY DEF Buffer
  <1>2. (blocks + 1) * used = blocks * used + used /\ blocks * used \in Int
    BY <1>1
  <1>3. ~Fits(m, capacity) => m.size = used
    BY <1>1 DEF Fits
  <1>4. (m.next + 1) - start = blocks + 1
    BY <1>1
  <1> DEFINE product == blocks * used
  <1>5. LogLength(m, start, used) = product + m.size
    BY DEF LogLength
  <1>6. LogLength(Stored(m, e), start, used) = product + (m.size + 1)
    BY DEF LogLength, Stored
  <1>7. /\ LogLength(Reset(m, cleared), start, used) = (blocks + 1) * used + 0
        /\ LogLength(Stored(Reset(m, cleared), e), start, used) = (blocks + 1) * used + (0 + 1)
    BY <1>4 DEF LogLength, Stored, Reset
  <1> HIDE DEF used, blocks
  <1>8. product \in Int /\ (blocks + 1) * used = product + used
    BY <1>2
  <1> HIDE DEF product
  <1> QED
    BY <1>1, <1>3, <1>5, <1>6, <1>7, <1>8 DEF Stored, Reset, used

(* The typing facts the steps below share.                                  *)
LEMMA Lengths ==
  ASSUME TypeInv
  PROVE  /\ SectorLength \in Int /\ ChecksumLength \in Int
         /\ sectors \in Buffer(Sector, SectorsPerBlock)
         /\ checksums \in Buffer(Checksum, ChecksumsPerBlock)
         /\ SectorsPerBlock \in Nat /\ ChecksumsPerBlock \in Nat
         /\ MetaStart \in Nat /\ ChecksumStart \in Nat
         /\ Len(chain) \in Nat /\ failed \in Nat
         /\ sectors.next \in Nat /\ checksums.next \in Nat
  <1>1. /\ SectorsPerBlock \in Nat /\ ChecksumsPerBlock \in Nat
        /\ MetaStart \in Nat /\ ChecksumStart \in Nat
    BY MetadataAssumption DEF ChecksumsPerBlock, ChecksumStart
  <1>2. /\ sectors \in Buffer(Sector, SectorsPerBlock)
        /\ checksums \in Buffer(Checksum, ChecksumsPerBlock)
        /\ Len(chain) \in Nat /\ failed \in Nat
    BY DEF TypeInv, TypeOK
  <1> QED
    BY <1>1, <1>2, LogGrows DEF SectorLength, ChecksumLength, Buffer

(* What an append to a buffer does to the lengths: one more, or a failure   *)
(* that leaves them and ends the write.                                     *)
LEMMA SectorAppended ==
  ASSUME TypeInv, NEW entry, NEW next, AppendSector(entry, next)
  PROVE  /\ checksums' = checksums
         /\ \/ /\ SectorLength' = SectorLength + 1
               /\ sectors'.next \in {sectors.next, sectors.next + 1}
               /\ pc' = next /\ UNCHANGED <<chain, failed>>
            \/ UNCHANGED sectors /\ FlushFails(sectors)
  <1> DEFINE used == SectorsPerBlock - 1
  <1>1. /\ LogLength(Stored(sectors, entry), MetaStart, used) = SectorLength + 1
        /\ Stored(sectors, entry).next = sectors.next
        /\ ~Fits(sectors, SectorsPerBlock) =>
             /\ LogLength(Stored(SectorsReset, entry), MetaStart, used) = SectorLength + 1
             /\ Stored(SectorsReset, entry).next = sectors.next + 1
    <2>1. /\ sectors \in Buffer(Sector, SectorsPerBlock)
          /\ SectorsPerBlock \in Nat /\ MetaStart \in Nat
      BY Lengths
    <2>2. SectorsReset = Reset(sectors, 1)
      BY DEF SectorsReset
    <2> QED
      BY <2>1, <2>2, LogGrows DEF SectorLength
  <1>2. SectorLength' = LogLength(sectors', MetaStart, used)
    BY DEF SectorLength, LogLength
  <1> HIDE DEF used
  <1>3. CASE Fits(sectors, SectorsPerBlock) /\ sectors' = Stored(sectors, entry)
             /\ pc' = next /\ UNCHANGED <<chain, checksums, failed>>
    BY <1>1, <1>2, <1>3
  <1>4. CASE ~Fits(sectors, SectorsPerBlock) /\ sectors' = Stored(SectorsReset, entry)
             /\ pc' = next /\ UNCHANGED <<chain, checksums, failed>>
    BY <1>1, <1>2, <1>4
  <1>5. CASE FlushFails(sectors)
    BY <1>5 DEF FlushFails
  <1> QED
    BY <1>3, <1>4, <1>5 DEF AppendSector

LEMMA ChecksumAppended ==
  ASSUME TypeInv, AppendDataChecksum \/ AppendParityChecksum
  PROVE  /\ sectors' = sectors
         /\ \/ /\ ChecksumLength' = ChecksumLength + 1
               /\ checksums'.next \in {checksums.next, checksums.next + 1}
               /\ pc' = IF pc = "dataChecksum" THEN "paritySector" ELSE "submit"
               /\ UNCHANGED <<chain, failed>>
            \/ /\ ChecksumLength' = ChecksumLength
               /\ checksums'.next = checksums.next + 1
               /\ pc = "dataChecksum" /\ pc' = "oops" /\ UNCHANGED <<chain, failed>>
            \/ UNCHANGED checksums /\ FlushFails(checksums)
  <1> DEFINE used == ChecksumsPerBlock - 1
  <1>1. ASSUME NEW entry
        PROVE  /\ LogLength(Stored(checksums, entry), ChecksumStart, used) = ChecksumLength + 1
               /\ Stored(checksums, entry).next = checksums.next
               /\ ~Fits(checksums, ChecksumsPerBlock) =>
                    /\ LogLength(ChecksumsReset, ChecksumStart, used) = ChecksumLength
                    /\ LogLength(Stored(ChecksumsReset, entry), ChecksumStart, used)
                         = ChecksumLength + 1
                    /\ ChecksumsReset.next = checksums.next + 1
                    /\ Stored(ChecksumsReset, entry).next = checksums.next + 1
    <2>1. /\ checksums \in Buffer(Checksum, ChecksumsPerBlock)
          /\ ChecksumsPerBlock \in Nat /\ ChecksumStart \in Nat
      BY Lengths
    <2>2. ChecksumsReset = Reset(checksums, 2)
      BY DEF ChecksumsReset
    <2> QED
      BY <2>1, <2>2, LogGrows DEF ChecksumLength
  <1>2. ChecksumLength' = LogLength(checksums', ChecksumStart, used)
    BY DEF ChecksumLength, LogLength, ChecksumStart
  <1> HIDE DEF used
  <1> DEFINE Grown == /\ ChecksumLength' = ChecksumLength + 1
                      /\ checksums'.next \in {checksums.next, checksums.next + 1}
  <1>3. ASSUME NEW entry,
               \/ Fits(checksums, ChecksumsPerBlock) /\ checksums' = Stored(checksums, entry)
               \/ ~Fits(checksums, ChecksumsPerBlock)
                    /\ checksums' = Stored(ChecksumsReset, entry)
        PROVE  Grown
    BY <1>1, <1>2, <1>3
  <1>4. ASSUME ~Fits(checksums, ChecksumsPerBlock), checksums' = ChecksumsReset
        PROVE  ChecksumLength' = ChecksumLength /\ checksums'.next = checksums.next + 1
    BY <1>1, <1>2, <1>4
  <1> HIDE DEF Grown
  <1>7. FlushFails(checksums) => UNCHANGED <<sectors, checksums>>
    BY DEF FlushFails
  <1>5. CASE AppendDataChecksum
    <2>1. pc = "dataChecksum"
      BY <1>5 DEF AppendDataChecksum
    <2>2. CASE ~Fits(checksums, ChecksumsPerBlock) /\ checksums' = ChecksumsReset
               /\ pc' = "oops" /\ UNCHANGED <<chain, sectors, failed>>
      BY <1>4, <2>1, <2>2
    <2>3. CASE /\ pc' = "paritySector" /\ UNCHANGED <<chain, sectors, failed>>
               /\ Grown
      BY <2>1, <2>3 DEF Grown
    <2>4. CASE FlushFails(checksums)
      BY <1>7, <2>4
    <2> QED
      BY <1>3, <1>5, <2>2, <2>3, <2>4 DEF AppendDataChecksum
  <1>6. CASE AppendParityChecksum
    <2>1. pc = "parityChecksum"
      BY <1>6 DEF AppendParityChecksum
    <2>2. CASE pc' = "submit" /\ Grown /\ UNCHANGED <<chain, sectors, failed>>
      BY <2>1, <2>2 DEF Grown
    <2>3. CASE FlushFails(checksums)
      BY <1>7, <2>3
    <2> QED
      BY <1>3, <1>6, <2>2, <2>3 DEF AppendParityChecksum
  <1> QED
    BY <1>5, <1>6

-----------------------------------------------------------------------------
(* Every step keeps the relation of the three lengths.                      *)
LEMMA DriftStep == TypeInv /\ DriftInv /\ [Next]_vars => DriftInv'
  <1> SUFFICES ASSUME TypeInv, DriftInv, [Next]_vars PROVE DriftInv'
    OBVIOUS
  <1> DEFINE L == Len(chain)
             l == IF pc = "idle" THEN L ELSE L - 2
             s == SectorLength
             c == ChecksumLength
             p == PendingSectors
             q == PendingChecksums
  <1>1. /\ s \in Int /\ c \in Int /\ L \in Nat /\ failed \in Nat
        /\ sectors.next \in Nat /\ checksums.next \in Nat
        /\ MetaStart \in Nat /\ ChecksumStart \in Nat
    BY Lengths
  <1>2. /\ sectors.next >= MetaStart /\ checksums.next >= ChecksumStart
        /\ Drift(l, s - p, c - q, failed)
    BY DEF DriftInv
  <1>3. ASSUME sectors'.next >= MetaStart, checksums'.next >= ChecksumStart,
               Drift(l', s' - p', c' - q', failed')
        PROVE  DriftInv'
    BY <1>3 DEF DriftInv, ChecksumStart, Drift
  <1>4. /\ UNCHANGED sectors => s' = s
        /\ UNCHANGED checksums => c' = c
    BY DEF SectorLength, ChecksumLength, LogLength, ChecksumStart
  (* A failed flush makes what the write appended part of the drift.        *)
  <1>5. ASSUME pc \in {"dataSector", "dataChecksum", "paritySector", "parityChecksum"},
               NEW m, FlushFails(m), UNCHANGED <<sectors, checksums>>
        PROVE  DriftInv'
    <2>1. pc' = "idle" /\ failed' = failed + 1
      BY <1>5 DEF FlushFails
    <2>2. Len(chain') = L - 2
      <3>1. chain \in Seq(ChainEntry) /\ L >= 2
        BY <1>5 DEF TypeInv, TypeOK, HandlerOwnsTwo
      <3> QED
        BY <1>5, <3>1, DropTwo DEF FlushFails
    <2>3. /\ l = L - 2 /\ l' = L - 2 /\ p' = 0 /\ q' = 0
          /\ <<p, q>> \in {<<0, 0>>, <<1, 0>>, <<1, 1>>, <<2, 1>>}
      BY <1>5, <2>1, <2>2 DEF PendingSectors, PendingChecksums
    <2> HIDE DEF L, l, s, c, p, q
    <2>4. Drift(l', s' - p', c' - q', failed')
      BY <1>1, <1>2, <1>4, <1>5, <2>1, <2>3 DEF Drift
    <2> QED
      BY <1>2, <1>3, <1>5, <2>4
  <1>6. ASSUME NEW t \in DataSector, NEW d \in Block, NEW page \in Block,
               NEW m \in Beyond, NEW n \in Beyond,
               StartWrite(t, d, page, m, n)
        PROVE  DriftInv'
    <2>1. /\ pc = "idle" /\ pc' = "dataSector" /\ UNCHANGED <<failed, sectors, checksums>>
          /\ Len(chain') = L + 2
      BY <1>6 DEF StartWrite, TypeInv, TypeOK
    <2>2. l' = l /\ p = 0 /\ p' = 0 /\ q = 0 /\ q' = 0
      BY <1>1, <2>1 DEF PendingSectors, PendingChecksums
    <2> HIDE DEF L, l, s, c, p, q
    <2> QED
      BY <1>2, <1>3, <1>4, <2>1, <2>2
  <1>7. CASE AppendDataSector \/ AppendParitySector
    <2>1. PICK entry, next :
            /\ AppendSector(entry, next)
            /\ \/ pc = "dataSector" /\ next = "dataChecksum"
               \/ pc = "paritySector" /\ next = "parityChecksum"
      BY <1>7 DEF AppendDataSector, AppendParitySector
    <2>2. CASE UNCHANGED sectors /\ FlushFails(sectors)
      BY <1>5, <2>1, <2>2, SectorAppended
    <2>3. CASE /\ s' = s + 1 /\ sectors'.next \in {sectors.next, sectors.next + 1}
               /\ pc' = next /\ UNCHANGED <<chain, failed>>
      <3>1. l' = l /\ l \in Int /\ p' = p + 1 /\ q' = q /\ p \in {0, 1} /\ q \in {0, 1}
        BY <1>1, <2>1, <2>3 DEF PendingSectors, PendingChecksums
      <3>2. UNCHANGED checksums
        BY <2>1, SectorAppended
      <3> HIDE DEF L, l, s, c, p, q
      <3>3. s' - p' = s - p /\ c' - q' = c - q
        BY <1>1, <1>4, <2>3, <3>1, <3>2
      <3> QED
        BY <1>1, <1>2, <1>3, <2>3, <3>1, <3>2, <3>3
    <2> QED
      BY <2>1, <2>2, <2>3, SectorAppended
  <1>8. CASE AppendDataChecksum \/ AppendParityChecksum
    <2>1. pc \in {"dataChecksum", "parityChecksum"}
      BY <1>8 DEF AppendDataChecksum, AppendParityChecksum
    <2>2. CASE UNCHANGED checksums /\ FlushFails(checksums)
      BY <1>5, <1>8, <2>1, <2>2, ChecksumAppended
    <2>3. UNCHANGED sectors
      BY <1>8, ChecksumAppended
    <2>4. CASE /\ c' = c + 1
               /\ checksums'.next \in {checksums.next, checksums.next + 1}
               /\ pc' = IF pc = "dataChecksum" THEN "paritySector" ELSE "submit"
               /\ UNCHANGED <<chain, failed>>
      <3>1. l' = l /\ p' = p /\ q' = q + 1 /\ p \in {1, 2} /\ q \in {0, 1}
        BY <1>1, <2>1, <2>4 DEF PendingSectors, PendingChecksums
      <3> HIDE DEF L, l, s, c, p, q
      <3>2. s' - p' = s - p /\ c' - q' = c - q
        BY <1>1, <1>4, <2>3, <2>4, <3>1
      <3> QED
        BY <1>1, <1>2, <1>3, <2>3, <2>4, <3>1, <3>2
    <2>5. CASE /\ c' = c /\ checksums'.next = checksums.next + 1
               /\ pc = "dataChecksum" /\ pc' = "oops" /\ UNCHANGED <<chain, failed>>
      <3>1. l' = l /\ p' = p /\ q' = q
        BY <2>5 DEF PendingSectors, PendingChecksums
      <3> HIDE DEF L, l, s, c, p, q
      <3> QED
        BY <1>1, <1>2, <1>3, <1>4, <2>3, <2>5, <3>1
    <2> QED
      BY <1>8, <2>2, <2>4, <2>5, ChecksumAppended
  <1>9. CASE Submit
    <2>1. /\ pc = "submit" /\ pc' = "idle"
          /\ UNCHANGED <<chain, failed, sectors, checksums>>
      BY <1>9 DEF Submit
    <2>2. l = L - 2 /\ l' = L /\ p = 2 /\ q = 2 /\ p' = 0 /\ q' = 0
      BY <2>1 DEF PendingSectors, PendingChecksums
    <2> HIDE DEF L, l, s, c, p, q
    <2>3. Drift(l', s' - p', c' - q', failed')
      BY <1>1, <1>2, <1>4, <2>1, <2>2 DEF Drift
    <2> QED
      BY <1>2, <1>3, <2>1, <2>3
  <1>10. CASE UNCHANGED vars
    BY <1>2, <1>3, <1>4, <1>10 DEF vars, PendingSectors, PendingChecksums
  <1> QED
    BY <1>6, <1>7, <1>8, <1>9, <1>10 DEF Next

(* The logs of a device that was just made or forgotten are empty.          *)
LEMMA FreshDrift ==
  ASSUME chain = << >>, pc = "idle", failed \in Nat,
         sectors.size = 0, sectors.next = MetaStart,
         checksums.size = 0, checksums.next = ChecksumStart
  PROVE  DriftInv /\ SectorLength = 0 /\ ChecksumLength = 0
  <1>1. /\ MetaStart \in Nat /\ ChecksumStart \in Nat
        /\ SectorsPerBlock - 1 \in Int /\ ChecksumsPerBlock - 1 \in Int
    BY MetadataAssumption DEF ChecksumsPerBlock, ChecksumStart
  <1>2. SectorLength = 0 * (SectorsPerBlock - 1) + 0
    BY <1>1 DEF SectorLength, LogLength
  <1>3. ChecksumLength = 0 * (ChecksumsPerBlock - 1) + 0
    BY <1>1 DEF ChecksumLength, LogLength
  <1>4. SectorLength = 0 /\ ChecksumLength = 0
    BY <1>1, <1>2, <1>3
  <1>5. Len(chain) = 0
    BY EmptySeq
  <1> QED
    BY <1>1, <1>4, <1>5 DEF DriftInv, Drift, PendingSectors, PendingChecksums

LEMMA DriftInit == Init => DriftInv
  BY FreshDrift DEF Init, ChecksumStart

LEMMA DriftInvariant == Spec => [](TypeInv /\ DriftInv)
  BY DriftInit, DriftStep, TypeInit, TypeStep, PTL DEF Spec

-----------------------------------------------------------------------------
(* Whatever flushes fail, between writes the two logs are ahead of the      *)
(* chain by at most one checksum and two sectors per failure.               *)
THEOREM DriftBounded == Spec => []LogsDriftOnlyByFailures
  <1>1. TypeInv /\ DriftInv => LogsDriftOnlyByFailures
    <2> SUFFICES ASSUME TypeInv, DriftInv, pc = "idle"
                 PROVE  Drift(Len(chain), SectorLength, ChecksumLength, failed)
      BY DEF LogsDriftOnlyByFailures, SectorLength, ChecksumLength, ChecksumStart, Drift
    <2> QED
      BY Lengths DEF DriftInv, Drift, PendingSectors, PendingChecksums
  <1> QED
    BY <1>1, DriftInvariant, PTL

(* The checksum area, half as large as the sector area, is never full first.*)
(* A checksum block has one entry more than two sector blocks use, so with  *)
(* no more checksums than sectors it cannot be.                             *)
THEOREM HalfTheBlocks == Spec => []ChecksumsNeedHalfTheBlocks
  <1>1. TypeInv /\ DriftInv => ChecksumsNeedHalfTheBlocks
    <2> SUFFICES ASSUME TypeInv, DriftInv PROVE ChecksumsNeedHalfTheBlocks
      OBVIOUS
    <2> DEFINE u == SectorsPerBlock - 1
               sb == sectors.next - MetaStart
               cb == checksums.next - ChecksumStart
    <2>1. /\ u \in Nat /\ ChecksumsPerBlock - 1 = 2 * u + 1
          /\ sb \in Nat /\ cb \in Nat
          /\ sectors.size \in 0 .. u /\ checksums.size \in Nat
      <3>1. sectors.next >= MetaStart /\ checksums.next >= ChecksumStart
        BY DEF DriftInv
      <3> QED
        BY <3>1, Lengths, MetadataAssumption DEF ChecksumsPerBlock, Buffer
    <2>2. ChecksumLength <= SectorLength
      BY Lengths DEF DriftInv, Drift, PendingSectors, PendingChecksums
    <2>3. /\ SectorLength = sb * u + sectors.size
          /\ ChecksumLength = cb * (2 * u + 1) + checksums.size
      BY <2>1 DEF SectorLength, ChecksumLength, LogLength
    <2> HIDE DEF u, sb, cb
    <2>4. cb * (2 * u + 1) <= (sb + 1) * u
      <3>1. /\ (sb + 1) * u = sb * u + u
            /\ sb * u \in Nat /\ cb * (2 * u + 1) \in Nat
        BY <2>1
      <3> QED
        BY <2>1, <2>2, <2>3, <3>1
    <2>5. 2 * cb <= sb
      <3> SUFFICES ASSUME sb + 1 <= 2 * cb PROVE FALSE
        BY <2>1
      <3>1. (sb + 1) * u <= (2 * cb) * u
        BY <2>1
      <3>2. cb * (2 * u + 1) = (2 * cb) * u + cb /\ (2 * cb) * u \in Nat
        BY <2>1
      <3>3. (sb + 1) * u \in Nat
        BY <2>1
      <3> QED
        BY <2>1, <2>4, <3>1, <3>2, <3>3
    <2> QED
      BY <2>5 DEF ChecksumsNeedHalfTheBlocks, sb, cb, ChecksumStart
  <1> QED
    BY <1>1, DriftInvariant, PTL
=============================================================================

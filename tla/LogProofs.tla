------------------------------ MODULE LogProofs ------------------------------
(***************************************************************************)
(* What the metadata area holds, for every size of a metadata block: the   *)
(* two logs list the chain, and a block once written never changes.  Both  *)
(* hold as long as the sector buffer has its next block in the sector      *)
(* area, which nothing in the code checks: InArea is the hypothesis.       *)
(***************************************************************************)
EXTENDS DriftProofs

InArea == sectors.next < ChecksumStart

-----------------------------------------------------------------------------
(* Positions in a log: entry i is in slot (i - 1) % used of block           *)
(* (i - 1) \div used.                                                       *)

(* An entry of the log is in a full block or in the part of the buffer that *)
(* is filled.                                                               *)
LEMMA EntryPosition ==
  ASSUME NEW used \in Nat \ {0}, NEW blocks \in Nat, NEW size \in 0 .. used,
         NEW i \in 1 .. blocks * used + size
  PROVE  /\ (i - 1) \div used \in Nat
         /\ (i - 1) % used \in 0 .. used - 1
         /\ \/ (i - 1) \div used < blocks
            \/ (i - 1) \div used = blocks /\ (i - 1) % used < size
  <1> DEFINE q == (i - 1) \div used
             r == (i - 1) % used
  <1>1. /\ q \in Int /\ r \in 0 .. used - 1
        /\ i - 1 = q * used + r
    BY blocks * used + size \in Int
  <1>2. i - 1 \in Nat /\ i - 1 < blocks * used + size
    BY blocks * used + size \in Int
  <1> HIDE DEF q, r
  <1>3. q \in Nat
    <2> SUFFICES ASSUME q + 1 <= 0 PROVE FALSE
      BY <1>1
    <2>1. (q + 1) * used <= 0
      BY <1>1
    <2>2. (q + 1) * used = q * used + used /\ q * used \in Int
      BY <1>1
    <2> QED
      BY <1>1, <1>2, <2>1, <2>2
  <1>4. q <= blocks
    <2> SUFFICES ASSUME blocks + 1 <= q PROVE FALSE
      BY <1>1
    <2>1. (blocks + 1) * used <= q * used
      BY <1>1
    <2>2. (blocks + 1) * used = blocks * used + used /\ blocks * used \in Int /\ q * used \in Int
      BY <1>1
    <2> QED
      BY <1>1, <1>2, <2>1, <2>2
  <1>5. CASE q = blocks
    <2>1. i - 1 = blocks * used + r /\ blocks * used \in Int
      BY <1>1, <1>5
    <2>2. r < size
      BY <1>1, <1>2, <2>1
    <2> QED
      BY <1>1, <1>3, <1>5, <2>2 DEF q, r
  <1>6. CASE q # blocks
    BY <1>1, <1>3, <1>4, <1>6 DEF q, r
  <1> QED
    BY <1>5, <1>6

(* The entry after the last is in the first free slot of the buffer.        *)
LEMMA NextPosition ==
  ASSUME NEW used \in Nat \ {0}, NEW blocks \in Nat, NEW size \in 0 .. used - 1
  PROVE  /\ (blocks * used + size) \div used = blocks
         /\ (blocks * used + size) % used = size
  <1> DEFINE n == blocks * used + size
             q == n \div used
             r == n % used
  <1>1. n \in Nat /\ blocks * used \in Nat
    OBVIOUS
  <1>2. n = blocks * used + size
    OBVIOUS
  <1> HIDE DEF n
  <1>3. q \in Int /\ r \in 0 .. used - 1 /\ n = q * used + r
    BY <1>1
  <1> HIDE DEF q, r
  <1>4. q * used \in Int
    BY <1>3
  <1>5. ~(blocks + 1 <= q)
    <2> SUFFICES ASSUME blocks + 1 <= q PROVE FALSE
      OBVIOUS
    <2>1. (blocks + 1) * used <= q * used
      BY <1>3
    <2>2. (blocks + 1) * used = blocks * used + used
      OBVIOUS
    <2> QED
      BY <1>1, <1>2, <1>3, <1>4, <2>1, <2>2
  <1>6. ~(q + 1 <= blocks)
    <2> SUFFICES ASSUME q + 1 <= blocks PROVE FALSE
      OBVIOUS
    <2>1. (q + 1) * used <= blocks * used
      BY <1>3
    <2>2. (q + 1) * used = q * used + used
      BY <1>3
    <2> QED
      BY <1>1, <1>2, <1>3, <1>4, <2>1, <2>2
  <1>7. q = blocks
    BY <1>3, <1>5, <1>6
  <1>8. r = size
    BY <1>1, <1>2, <1>3, <1>7
  <1> QED
    BY <1>7, <1>8 DEF q, r, n

-----------------------------------------------------------------------------
(* What a log reads, for given blocks on disk.                              *)

LoggedOn(before, m, start, used, i) ==
  LET block == start + (i - 1) \div used
      slot  == (i - 1) % used
  IN  IF block < m.next THEN before[block][slot] ELSE m.buffer[slot]

(* The typing facts about a buffer and its log.                             *)
LEMMA LogType ==
  ASSUME NEW V, NEW capacity \in Nat, capacity >= 2, NEW m \in Buffer(V, capacity),
         NEW start \in Nat, m.next >= start
  PROVE  /\ capacity - 1 \in Nat \ {0}
         /\ m.next - start \in Nat
         /\ m.size \in 0 .. capacity - 1
         /\ m.next \in Nat
         /\ m.buffer \in [0 .. capacity - 1 -> MetaEntry(V)]
         /\ LogLength(m, start, capacity - 1) = (m.next - start) * (capacity - 1) + m.size
         /\ LogLength(m, start, capacity - 1) \in Nat
  <1>1. /\ capacity - 1 \in Nat \ {0}
        /\ m.size \in 0 .. capacity - 1
        /\ m.next \in Nat
        /\ m.buffer \in [0 .. capacity - 1 -> MetaEntry(V)]
    BY DEF Buffer
  <1>2. m.next - start \in Nat
    BY <1>1
  <1> DEFINE used == capacity - 1
             blocks == m.next - start
  <1>3. used \in Nat /\ blocks \in Nat /\ m.size \in Nat
    BY <1>1, <1>2
  <1>4. LogLength(m, start, used) = blocks * used + m.size
    BY DEF LogLength
  <1> HIDE DEF used, blocks
  <1>5. blocks * used + m.size \in Nat
    BY <1>3
  <1> QED
    BY <1>1, <1>2, <1>4, <1>5 DEF used, blocks

(* An entry of the log is not before its start.                             *)
LEMMA EntryBlock ==
  ASSUME NEW V, NEW capacity \in Nat, capacity >= 2, NEW m \in Buffer(V, capacity),
         NEW start \in Nat, m.next >= start,
         NEW i \in 1 .. LogLength(m, start, capacity - 1)
  PROVE  /\ (i - 1) \div (capacity - 1) \in Nat
         /\ start + (i - 1) \div (capacity - 1) <= m.next
  <1> DEFINE used == capacity - 1
             blocks == m.next - start
             q == (i - 1) \div used
  <1>1. /\ used \in Nat \ {0} /\ blocks \in Nat /\ m.size \in 0 .. used
        /\ m.next \in Nat /\ m.next = start + blocks
        /\ LogLength(m, start, used) = blocks * used + m.size
    BY LogType
  <1>2. q \in Nat /\ (q < blocks \/ q = blocks)
    <2>1. i \in 1 .. blocks * used + m.size
      BY <1>1
    <2> HIDE DEF used, blocks
    <2> QED
      BY <1>1, <2>1, EntryPosition
  <1> HIDE DEF q, used, blocks
  <1>3. q \in Nat /\ start + q <= m.next
    BY <1>1, <1>2
  <1> QED
    BY <1>3 DEF q, used

(* What is written outside the full blocks of a log does not change it.     *)
LEMMA LogIsElsewhere ==
  ASSUME NEW V, NEW capacity \in Nat, capacity >= 2, NEW m \in Buffer(V, capacity),
         NEW start \in Nat, m.next >= start,
         NEW before, NEW later,
         \A b \in start .. m.next - 1 : later[b] = before[b],
         NEW i \in 1 .. LogLength(m, start, capacity - 1)
  PROVE  LoggedOn(later, m, start, capacity - 1, i) = LoggedOn(before, m, start, capacity - 1, i)
  <1> DEFINE used == capacity - 1
             q == (i - 1) \div used
  <1>1. q \in Nat /\ m.next \in Nat
    BY LogType, EntryPosition
  <1> HIDE DEF q, used
  <1>2. start + q < m.next => start + q \in start .. m.next - 1
    BY <1>1
  <1>3. start + q < m.next => later[start + q] = before[start + q]
    BY <1>2
  <1> QED
    BY <1>3 DEF LoggedOn, q, used

(* An append to a buffer with room adds the entry to its log.               *)
LEMMA LogAppends ==
  ASSUME NEW V, NEW capacity \in Nat, capacity >= 2, NEW m \in Buffer(V, capacity),
         NEW start \in Nat, m.next >= start, m.size + 1 < capacity,
         NEW before, NEW e,
         NEW i \in 1 .. LogLength(m, start, capacity - 1) + 1
  PROVE  LoggedOn(before, Stored(m, e), start, capacity - 1, i) =
           IF i = LogLength(m, start, capacity - 1) + 1 THEN e
           ELSE LoggedOn(before, m, start, capacity - 1, i)
  <1> DEFINE used == capacity - 1
             blocks == m.next - start
             q == (i - 1) \div used
             r == (i - 1) % used
  <1>1. /\ used \in Nat \ {0} /\ blocks \in Nat /\ m.size \in 0 .. used - 1
        /\ m.next \in Nat /\ m.next = start + blocks
        /\ m.buffer \in [0 .. used -> MetaEntry(V)]
        /\ LogLength(m, start, used) = blocks * used + m.size
        /\ LogLength(m, start, used) \in Nat
    <2>1. /\ used \in Nat \ {0} /\ blocks \in Nat /\ m.size \in 0 .. used
          /\ m.next \in Nat
          /\ m.buffer \in [0 .. used -> MetaEntry(V)]
      BY LogType
    <2>2. LogLength(m, start, used) = blocks * used + m.size
      BY DEF LogLength
    <2>3. LogLength(m, start, used) \in Nat
      BY LogType
    <2>4. m.size \in 0 .. used - 1
      BY <2>1
    <2>5. m.next = start + blocks
      BY <2>1
    <2> QED
      BY <2>1, <2>2, <2>3, <2>4, <2>5
  <1> DEFINE n == LogLength(m, start, used)
             new == Stored(m, e)
  <1>2. new.next = m.next /\ new.buffer = [m.buffer EXCEPT ![m.size] = e]
    BY DEF Stored
  <1>3. /\ LoggedOn(before, new, start, used, i) =
             IF start + q < new.next THEN before[start + q][r] ELSE new.buffer[r]
        /\ LoggedOn(before, m, start, used, i) =
             IF start + q < m.next THEN before[start + q][r] ELSE m.buffer[r]
    BY DEF LoggedOn
  <1>4. i \in 1 .. n + 1
    OBVIOUS
  <1>5. CASE i = n + 1
    <2>1. q = blocks /\ r = m.size
      <3>1. i - 1 = blocks * used + m.size
        BY <1>1, <1>5
      <3> HIDE DEF used, blocks
      <3>2. /\ (blocks * used + m.size) \div used = blocks
            /\ (blocks * used + m.size) % used = m.size
        BY <1>1, NextPosition
      <3> QED
        BY <3>1, <3>2
    <2> HIDE DEF q, r, used, blocks, n, new
    <2>2. ~(start + q < new.next)
      BY <1>1, <1>2, <2>1
    <2>3. m.size \in DOMAIN m.buffer
      BY <1>1
    <2>4. new.buffer[r] = e
      BY <1>2, <2>1, <2>3
    <2>5. LoggedOn(before, new, start, used, i) = e
      BY <1>3, <2>2, <2>4
    <2> QED
      BY <1>5, <2>5 DEF new, n, used
  <1>6. CASE i # n + 1
    <2>1. /\ q \in Nat /\ r \in 0 .. used - 1
          /\ q < blocks \/ (q = blocks /\ r < m.size)
      <3>1. i \in 1 .. n /\ n = blocks * used + m.size /\ m.size \in 0 .. used
        <4>1. n \in Nat /\ n = blocks * used + m.size
          BY <1>1
        <4> HIDE DEF n, blocks, used
        <4>2. i \in 1 .. n /\ m.size \in 0 .. used
          BY <1>1, <1>4, <1>6, <4>1
        <4> QED
          BY <4>1, <4>2
      <3> HIDE DEF n, used, blocks
      <3> QED
        BY <1>1, <3>1, EntryPosition
    <2> HIDE DEF q, r, used, blocks, n, new
    <2>2. CASE q < blocks
      <3>1. start + q < m.next
        BY <1>1, <2>1, <2>2
      <3>2. LoggedOn(before, new, start, used, i) = LoggedOn(before, m, start, used, i)
        BY <1>2, <1>3, <3>1
      <3> QED
        BY <1>6, <3>2 DEF new, n, used
    <2>3. CASE q = blocks /\ r < m.size
      <3>1. new.buffer[r] = m.buffer[r]
        <4>1. r \in Int /\ m.size \in Int /\ r < m.size /\ r \in 0 .. used
          BY <1>1, <2>1, <2>3
        <4>2. r \in DOMAIN m.buffer
          BY <1>1, <4>1
        <4>3. r # m.size
          BY <4>1
        <4> QED
          BY <1>2, <4>2, <4>3
      <3>2. LoggedOn(before, new, start, used, i) = LoggedOn(before, m, start, used, i)
        <4>1. ~(start + q < m.next)
          BY <1>1, <2>3
        <4> QED
          BY <1>2, <1>3, <3>1, <4>1
      <3> QED
        BY <1>6, <3>2 DEF new, n, used
    <2> QED
      BY <2>1, <2>2, <2>3
  <1> QED
    BY <1>5, <1>6

(* A flush moves the full buffer to the next block, and the log is the same.*)
LEMMA LogIsFlushed ==
  ASSUME NEW V, NEW capacity \in Nat, capacity >= 2, NEW m \in Buffer(V, capacity),
         NEW start \in Nat, m.next >= start, ~Fits(m, capacity),
         NEW cleared,
         NEW before, before[m.next] = m.buffer,
         \A b \in start .. m.next - 1 : before[b] = metaDisk[b],
         NEW i \in 1 .. LogLength(m, start, capacity - 1)
  PROVE  LoggedOn(before, Reset(m, cleared), start, capacity - 1, i) =
           LoggedOn(metaDisk, m, start, capacity - 1, i)
  <1> DEFINE used == capacity - 1
             blocks == m.next - start
             q == (i - 1) \div used
             r == (i - 1) % used
  <1>1. /\ used \in Nat \ {0} /\ blocks \in Nat /\ m.size \in 0 .. used
        /\ m.next \in Nat /\ m.next = start + blocks
        /\ LogLength(m, start, used) = blocks * used + m.size
    BY LogType
  <1>2. Reset(m, cleared).next = m.next + 1
    BY DEF Reset
  <1>3. /\ q \in Nat
        /\ q < blocks \/ q = blocks
    <2>1. i \in 1 .. blocks * used + m.size
      BY <1>1
    <2> HIDE DEF used, blocks
    <2> QED
      BY <1>1, <2>1, EntryPosition
  <1> HIDE DEF q, r, used, blocks
  <1>4. CASE q < blocks
    <2>1. start + q < m.next /\ start + q < m.next + 1 /\ start + q \in start .. m.next - 1
      BY <1>1, <1>3, <1>4
    <2> QED
      BY <1>2, <2>1 DEF LoggedOn, q, r, used
  <1>5. CASE q = blocks
    <2>1. start + q = m.next /\ m.next < m.next + 1 /\ ~(m.next < m.next)
      BY <1>1, <1>5
    <2> QED
      BY <1>2, <2>1 DEF LoggedOn, q, r, used
  <1> QED
    BY <1>3, <1>4, <1>5

-----------------------------------------------------------------------------
(* What a step does to the buffers and the metadata blocks.                 *)

(* An entry is added to the buffer m, after a flush if it was full.         *)
Grows(m, capacity, cleared, e) ==
  \/ Fits(m, capacity) /\ m' = Stored(m, e) /\ metaDisk' = metaDisk
  \/ ~Fits(m, capacity) /\ m' = Stored(Reset(m, cleared), e) /\ metaDisk' = Flushed(m)

SectorsGrow(e) ==
  /\ Grows(sectors, SectorsPerBlock, 1, e)
  /\ UNCHANGED <<checksums, chain, failed, wild>>

ChecksumsGrow(e) ==
  /\ Grows(checksums, ChecksumsPerBlock, 2, e)
  /\ UNCHANGED <<sectors, chain, failed>>

(* The flush before the wild memcpy, when that faults.                      *)
ChecksumsFlushed ==
  /\ ~Fits(checksums, ChecksumsPerBlock)
  /\ checksums' = Reset(checksums, 2) /\ metaDisk' = Flushed(checksums)
  /\ UNCHANGED <<sectors, chain, failed>>

FlushFailed(m, capacity) ==
  /\ ~Fits(m, capacity)
  /\ metaDisk' \in {metaDisk, Flushed(m)}
  /\ failed' = failed + 1
  /\ UNCHANGED <<sectors, checksums>>

(* Every step is one of these or leaves the metadata alone, and what it     *)
(* adds to a log is of the block whose turn it is.                          *)
LEMMA MetaShapes ==
  ASSUME [Next]_vars
  PROVE  \/ /\ UNCHANGED <<sectors, checksums, metaDisk, failed, wild>>
            /\ \/ pc = "idle" /\ pc' = "dataSector" /\ \E a, b : chain' = Append(Append(chain, a), b)
               \/ UNCHANGED chain
         \/ pc = "dataSector" /\ SectorsGrow(NewData.block_sector)
         \/ pc = "paritySector" /\ SectorsGrow(NewParity.block_sector)
         \/ pc = "dataChecksum" /\ wild' = wild /\ ChecksumsGrow(NewData.block_checksum)
         \/ pc = "dataChecksum" /\ wild' = wild + 1 /\ ChecksumsGrow(Unset)
         \/ pc = "parityChecksum" /\ wild' = wild /\ ChecksumsGrow(NewParity.block_checksum)
         \/ wild' = wild /\ ChecksumsFlushed
         \/ wild' = wild /\ FlushFailed(sectors, SectorsPerBlock)
         \/ wild' = wild /\ FlushFailed(checksums, ChecksumsPerBlock)
  <1> USE DEF Grows, SectorsGrow, ChecksumsGrow, ChecksumsFlushed, FlushFailed, FlushFails,
              SectorsReset, ChecksumsReset
  <1>1. ASSUME NEW s \in DataSector, NEW d \in Block, NEW page \in Block,
               NEW m \in Beyond, NEW n \in Beyond,
               StartWrite(s, d, page, m, n)
        PROVE  /\ UNCHANGED <<sectors, checksums, metaDisk, failed, wild>>
               /\ pc = "idle" /\ pc' = "dataSector"
               /\ \E a, b : chain' = Append(Append(chain, a), b)
    BY <1>1 DEF StartWrite
  <1>2. CASE AppendDataSector
    BY <1>2 DEF AppendDataSector, AppendSector
  <1>3. CASE AppendDataChecksum
    BY <1>3 DEF AppendDataChecksum
  <1>4. CASE AppendParitySector
    BY <1>4 DEF AppendParitySector, AppendSector
  <1>5. CASE AppendParityChecksum
    BY <1>5 DEF AppendParityChecksum
  <1>6. CASE Submit
    BY <1>6 DEF Submit
  <1>7. CASE UNCHANGED vars
    BY <1>7 DEF vars
  <1> QED
    BY <1>1, <1>2, <1>3, <1>4, <1>5, <1>6, <1>7 DEF Next

(* The block a flush leaves, and those it leaves alone.                     *)
LEMMA FlushedBlocks ==
  ASSUME NEW m
  PROVE  /\ DOMAIN Flushed(m) = DOMAIN metaDisk \cup {m.next}
         /\ Flushed(m)[m.next] = m.buffer
         /\ \A b \in DOMAIN metaDisk : b # m.next => Flushed(m)[b] = metaDisk[b]
  BY DEF Flushed

(* An append makes the log longer by the entry and changes nothing in it.   *)
LEMMA LogGrowsByEntry ==
  ASSUME NEW V, NEW capacity \in Nat, capacity >= 2,
         NEW m \in Buffer(V, capacity),
         NEW m2, NEW later, NEW cleared \in Nat, NEW e,
         NEW start \in Nat, m.next >= start,
         start .. m.next - 1 \subseteq DOMAIN metaDisk,
         \/ Fits(m, capacity) /\ m2 = Stored(m, e) /\ later = metaDisk
         \/ ~Fits(m, capacity) /\ m2 = Stored(Reset(m, cleared), e) /\ later = Flushed(m),
         NEW i \in 1 .. LogLength(m, start, capacity - 1) + 1
  PROVE  LoggedOn(later, m2, start, capacity - 1, i) =
           IF i = LogLength(m, start, capacity - 1) + 1 THEN e
           ELSE LoggedOn(metaDisk, m, start, capacity - 1, i)
  <1> DEFINE used == capacity - 1
             len == LogLength(m, start, used)
  <1>1. CASE Fits(m, capacity) /\ m2 = Stored(m, e) /\ later = metaDisk
    <2>1. m.size + 1 < capacity
      BY <1>1 DEF Fits
    <2> QED
      BY <1>1, <2>1, LogAppends
  <1>2. CASE ~Fits(m, capacity) /\ m2 = Stored(Reset(m, cleared), e) /\ later = Flushed(m)
    <2> DEFINE k == Reset(m, cleared)
    <2>1. k \in Buffer(V, capacity) /\ k.size + 1 < capacity
      BY ResetType
    <2>2. LogLength(k, start, used) = len
      BY <1>2, LogGrows
    <2>3. k.next >= start /\ m.next \in Nat
      BY LogType DEF Reset
    <2>4. later[m.next] = m.buffer /\ \A b \in start .. m.next - 1 : later[b] = metaDisk[b]
      <3>1. \A b \in start .. m.next - 1 : b # m.next
        BY <2>3
      <3> QED
        BY <1>2, <3>1, FlushedBlocks
    <2>5. len \in Nat
      BY LogType
    <2> HIDE DEF len, used
    <2>6. i \in 1 .. len + 1
      BY DEF len, used
    <2>7. ASSUME i # len + 1
          PROVE  LoggedOn(later, k, start, used, i) = LoggedOn(metaDisk, m, start, used, i)
      <3>1. i \in 1 .. len
        BY <2>5, <2>6, <2>7
      <3> HIDE DEF k
      <3> QED
        BY <1>2, <2>4, <3>1, LogIsFlushed DEF len, used, k
    <2>8. LoggedOn(later, Stored(k, e), start, used, i) =
            IF i = LogLength(k, start, used) + 1 THEN e ELSE LoggedOn(later, k, start, used, i)
      <3> HIDE DEF k
      <3>1. i \in 1 .. LogLength(k, start, used) + 1
        BY <2>2, <2>6
      <3> QED
        BY <2>1, <2>3, <3>1, LogAppends DEF used
    <2> QED
      BY <1>2, <2>2, <2>7, <2>8 DEF len, used, k
  <1> QED
    BY <1>1, <1>2

-----------------------------------------------------------------------------
(* Which metadata blocks there are.  A block at the next position is what a *)
(* failed flush left there: the buffer, which is still full.                *)

Left(m, capacity) ==
  m.next \in DOMAIN metaDisk => ~Fits(m, capacity) /\ metaDisk[m.next] = m.buffer

(* Every block before the next of a log is on disk.                         *)
Covered ==
  /\ MetaStart .. sectors.next - 1 \subseteq DOMAIN metaDisk
  /\ ChecksumStart .. checksums.next - 1 \subseteq DOMAIN metaDisk

DiskInv ==
  /\ Covered
  /\ InArea =>
       /\ \A b \in DOMAIN metaDisk :
            b <= sectors.next \/ (ChecksumStart <= b /\ b <= checksums.next)
       /\ Left(sectors, SectorsPerBlock)
       /\ Left(checksums, ChecksumsPerBlock)

(* The sector buffer never goes back to an earlier block.                   *)
LEMMA NextOnlyAdvances ==
  ASSUME TypeInv, [Next]_vars
  PROVE  /\ sectors'.next \in {sectors.next, sectors.next + 1}
         /\ failed' \in {failed, failed + 1} /\ wild' \in {wild, wild + 1}
         /\ sectors.next \in Nat /\ failed \in Nat /\ wild \in Nat
  <1>1. sectors.next \in Nat /\ failed \in Nat /\ wild \in Nat
    BY Lengths DEF TypeInv, TypeOK
  <1> QED
    BY <1>1, MetaShapes
    DEF SectorsGrow, ChecksumsGrow, ChecksumsFlushed, FlushFailed, Grows, Stored, Reset

(* What a step does to the disk and to one buffer, the other left alone.    *)
LEMMA DiskShapes ==
  ASSUME [Next]_vars
  PROVE  \/ UNCHANGED <<sectors, checksums, metaDisk>>
         \/ /\ Fits(sectors, SectorsPerBlock) /\ sectors'.next = sectors.next
            /\ UNCHANGED <<checksums, metaDisk>>
         \/ /\ Fits(checksums, ChecksumsPerBlock) /\ checksums'.next = checksums.next
            /\ UNCHANGED <<sectors, metaDisk>>
         \/ /\ ~Fits(sectors, SectorsPerBlock) /\ sectors'.next = sectors.next + 1
            /\ metaDisk' = Flushed(sectors) /\ UNCHANGED checksums
         \/ /\ ~Fits(checksums, ChecksumsPerBlock) /\ checksums'.next = checksums.next + 1
            /\ metaDisk' = Flushed(checksums) /\ UNCHANGED sectors
         \/ FlushFailed(sectors, SectorsPerBlock)
         \/ FlushFailed(checksums, ChecksumsPerBlock)
  BY MetaShapes DEF SectorsGrow, ChecksumsGrow, ChecksumsFlushed, Grows, Stored, Reset

(* Every step keeps the blocks of the two logs on disk.                     *)
LEMMA CoveredStep ==
  ASSUME TypeInv, Covered, [Next]_vars
  PROVE  Covered'
  <1>1. sectors.next \in Nat /\ checksums.next \in Nat
        /\ MetaStart \in Nat /\ ChecksumStart \in Nat
    BY Lengths
  <1>2. ChecksumStart' = ChecksumStart
    BY DEF ChecksumStart
  <1>3. CASE metaDisk' = metaDisk /\ sectors'.next = sectors.next /\ checksums'.next = checksums.next
    BY <1>2, <1>3 DEF Covered
  <1>4. ASSUME NEW m \in {sectors, checksums}, metaDisk' = Flushed(m),
               sectors'.next \in {sectors.next, sectors.next + 1},
               checksums'.next \in {checksums.next, checksums.next + 1},
               m # sectors => sectors'.next = sectors.next,
               m # checksums => checksums'.next = checksums.next
        PROVE  Covered'
    <2>1. DOMAIN metaDisk' = DOMAIN metaDisk \cup {m.next}
      BY <1>4, FlushedBlocks
    <2> QED
      BY <1>1, <1>2, <1>4, <2>1 DEF Covered
  <1> QED
    BY <1>1, <1>3, <1>4, DiskShapes DEF FlushFailed

(* Every step keeps the metadata blocks in their places.                    *)
LEMMA DiskStep ==
  ASSUME TypeInv, DriftInv, DiskInv, [Next]_vars
  PROVE  DiskInv'
  <1>1. /\ sectors.next \in Nat /\ checksums.next \in Nat
        /\ MetaStart \in Nat /\ ChecksumStart \in Nat
        /\ sectors.next >= MetaStart /\ checksums.next >= ChecksumStart
        /\ DOMAIN metaDisk \subseteq Nat
    BY Lengths DEF DriftInv, TypeInv, TypeOK
  <1>2. ChecksumStart' = ChecksumStart
    BY DEF ChecksumStart
  <1>3. InArea' => InArea
    BY <1>1, <1>2, NextOnlyAdvances DEF InArea
  <1>4. CASE UNCHANGED <<sectors, checksums, metaDisk>>
    BY <1>2, <1>4 DEF DiskInv, Covered, InArea, Left
  <1>5. CASE /\ Fits(sectors, SectorsPerBlock) /\ sectors'.next = sectors.next
             /\ UNCHANGED <<checksums, metaDisk>>
    BY <1>2, <1>5 DEF DiskInv, Covered, InArea, Left
  <1>6. CASE /\ Fits(checksums, ChecksumsPerBlock) /\ checksums'.next = checksums.next
             /\ UNCHANGED <<sectors, metaDisk>>
    BY <1>2, <1>6 DEF DiskInv, Covered, InArea, Left
  <1>7. CASE /\ ~Fits(sectors, SectorsPerBlock) /\ sectors'.next = sectors.next + 1
             /\ metaDisk' = Flushed(sectors) /\ UNCHANGED checksums
    <2>1. DOMAIN metaDisk' = DOMAIN metaDisk \cup {sectors.next}
      BY <1>7, FlushedBlocks
    <2>2. \A b \in DOMAIN metaDisk : b # sectors.next => metaDisk'[b] = metaDisk[b]
      BY <1>7, FlushedBlocks
    <2>3. /\ (MetaStart .. sectors.next - 1 \subseteq DOMAIN metaDisk)'
          /\ (ChecksumStart .. checksums.next - 1 \subseteq DOMAIN metaDisk)'
      BY <1>1, <1>2, <1>7, <2>1 DEF DiskInv, Covered
    <2>4. ASSUME InArea'
          PROVE  /\ \A b \in DOMAIN metaDisk' :
                      b <= sectors'.next \/ (ChecksumStart <= b /\ b <= checksums.next)
                 /\ sectors'.next \notin DOMAIN metaDisk'
                 /\ checksums.next # sectors.next
      BY <1>1, <1>2, <1>3, <1>7, <2>1, <2>4 DEF DiskInv, Covered, InArea
    <2>5. InArea' => Left(checksums, ChecksumsPerBlock)'
      BY <1>3, <1>7, <2>1, <2>2, <2>4 DEF DiskInv, Covered, Left
    <2> QED
      BY <1>2, <1>7, <2>3, <2>4, <2>5 DEF DiskInv, Covered, Left
  <1>8. CASE /\ ~Fits(checksums, ChecksumsPerBlock) /\ checksums'.next = checksums.next + 1
             /\ metaDisk' = Flushed(checksums) /\ UNCHANGED sectors
    <2>1. DOMAIN metaDisk' = DOMAIN metaDisk \cup {checksums.next}
      BY <1>8, FlushedBlocks
    <2>2. \A b \in DOMAIN metaDisk : b # checksums.next => metaDisk'[b] = metaDisk[b]
      BY <1>8, FlushedBlocks
    <2>3. /\ (MetaStart .. sectors.next - 1 \subseteq DOMAIN metaDisk)'
          /\ (ChecksumStart .. checksums.next - 1 \subseteq DOMAIN metaDisk)'
      BY <1>1, <1>2, <1>8, <2>1 DEF DiskInv, Covered
    <2>4. ASSUME InArea'
          PROVE  /\ \A b \in DOMAIN metaDisk' :
                      b <= sectors.next \/ (ChecksumStart <= b /\ b <= checksums'.next)
                 /\ checksums'.next \notin DOMAIN metaDisk'
                 /\ checksums.next # sectors.next
      BY <1>1, <1>2, <1>3, <1>8, <2>1, <2>4 DEF DiskInv, Covered, InArea
    <2>5. InArea' => Left(sectors, SectorsPerBlock)'
      BY <1>3, <1>8, <2>1, <2>2, <2>4 DEF DiskInv, Covered, Left
    <2> QED
      BY <1>2, <1>8, <2>3, <2>4, <2>5 DEF DiskInv, Covered, Left
  <1>9. CASE FlushFailed(sectors, SectorsPerBlock) /\ metaDisk' = Flushed(sectors)
    <2>1. /\ DOMAIN metaDisk' = DOMAIN metaDisk \cup {sectors.next}
          /\ metaDisk'[sectors.next] = sectors.buffer
          /\ UNCHANGED <<sectors, checksums>> /\ ~Fits(sectors, SectorsPerBlock)
      BY <1>9, FlushedBlocks DEF FlushFailed
    <2>2. \A b \in DOMAIN metaDisk : b # sectors.next => metaDisk'[b] = metaDisk[b]
      BY <1>9, FlushedBlocks
    <2>3. InArea => checksums.next # sectors.next
      BY <1>1 DEF InArea
    <2> QED
      BY <1>1, <1>2, <1>3, <2>1, <2>2, <2>3 DEF DiskInv, Covered, Left
  <1>10. CASE FlushFailed(checksums, ChecksumsPerBlock) /\ metaDisk' = Flushed(checksums)
    <2>1. /\ DOMAIN metaDisk' = DOMAIN metaDisk \cup {checksums.next}
          /\ metaDisk'[checksums.next] = checksums.buffer
          /\ UNCHANGED <<sectors, checksums>> /\ ~Fits(checksums, ChecksumsPerBlock)
      BY <1>10, FlushedBlocks DEF FlushFailed
    <2>2. \A b \in DOMAIN metaDisk : b # checksums.next => metaDisk'[b] = metaDisk[b]
      BY <1>10, FlushedBlocks
    <2>3. InArea => checksums.next # sectors.next
      BY <1>1 DEF InArea
    <2> QED
      BY <1>1, <1>2, <1>3, <2>1, <2>2, <2>3 DEF DiskInv, Covered, Left
  <1>11. CASE \/ FlushFailed(sectors, SectorsPerBlock) /\ metaDisk' = metaDisk
              \/ FlushFailed(checksums, ChecksumsPerBlock) /\ metaDisk' = metaDisk
    BY <1>4, <1>11 DEF FlushFailed
  <1> QED
    BY <1>4, <1>5, <1>6, <1>7, <1>8, <1>9, <1>10, <1>11, DiskShapes DEF FlushFailed

(* A new device has written no metadata block.                              *)
LEMMA DiskInit == Init => DiskInv
  <1> SUFFICES ASSUME Init PROVE DiskInv
    OBVIOUS
  <1>1. /\ DOMAIN metaDisk = {}
        /\ sectors.next = MetaStart /\ checksums.next = ChecksumStart
    BY DEF Init, ChecksumStart
  <1>2. /\ MetaStart .. sectors.next - 1 = {}
        /\ ChecksumStart .. checksums.next - 1 = {}
    BY <1>1, MetadataAssumption DEF ChecksumStart
  <1> QED
    BY <1>1, <1>2 DEF DiskInv, Covered, Left

LEMMA DiskInvariant == Spec => [](TypeInv /\ DriftInv /\ DiskInv)
  <1>1. TypeInv /\ DriftInv /\ DiskInv /\ [Next]_vars => (TypeInv /\ DriftInv /\ DiskInv)'
    BY TypeStep, DriftStep, DiskStep
  <1>2. Init => TypeInv /\ DriftInv /\ DiskInv
    BY TypeInit, DriftInit, DiskInit
  <1> QED
    BY <1>1, <1>2, PTL DEF Spec

(* A metadata block that reached the disk never changes again while the     *)
(* sector log is in its area: a flush that is retried after an error writes *)
(* the same content (lines 871-892), because nothing is added to a full     *)
(* buffer before it is flushed.                                             *)
THEOREM BlocksAreFinal == Spec /\ []InArea => FlushedBlocksAreFinal
  <1>1. TypeInv /\ DriftInv /\ DiskInv /\ InArea /\ [Next]_vars =>
          [\A b \in DOMAIN metaDisk : b \in DOMAIN metaDisk' /\ metaDisk'[b] = metaDisk[b]]_vars
    <2> SUFFICES ASSUME DiskInv, InArea, [Next]_vars, NEW b \in DOMAIN metaDisk
                 PROVE  b \in DOMAIN metaDisk' /\ metaDisk'[b] = metaDisk[b]
      OBVIOUS
    <2>1. ASSUME NEW m, NEW capacity, Left(m, capacity), metaDisk' = Flushed(m)
          PROVE  b \in DOMAIN metaDisk' /\ metaDisk'[b] = metaDisk[b]
      BY <2>1, FlushedBlocks DEF Left
    <2>2. Left(sectors, SectorsPerBlock) /\ Left(checksums, ChecksumsPerBlock)
      BY DEF DiskInv, Covered
    <2>3. metaDisk' = metaDisk \/ metaDisk' = Flushed(sectors) \/ metaDisk' = Flushed(checksums)
      BY DiskShapes DEF FlushFailed
    <2> QED
      BY <2>1, <2>2, <2>3
  <1> QED
    BY <1>1, DiskInvariant, PTL DEF Spec, FlushedBlocksAreFinal

-----------------------------------------------------------------------------
(* The contents of the two logs while no flush has failed, with the entries *)
(* of the write in the handler.                                             *)

SectorAt(i) == LoggedOn(metaDisk, sectors, MetaStart, SectorsPerBlock - 1, i)
ChecksumAt(i) == LoggedOn(metaDisk, checksums, ChecksumStart, ChecksumsPerBlock - 1, i)

SectorBlock(i) == MetaStart + (i - 1) \div (SectorsPerBlock - 1)

(* The part of the sector log that is in its own area, wherever the rest is.*)
SectorLog ==
  failed = 0 =>
    \A i \in 1 .. SectorLength :
      SectorBlock(i) < ChecksumStart => SectorAt(i) = chain[i].block_sector

ChecksumLog ==
  InArea /\ failed = 0 /\ wild = 0 =>
    \A i \in 1 .. ChecksumLength : ChecksumAt(i) = chain[i].block_checksum

(* Without a failure the logs are as long as the chain and what the write   *)
(* in the handler has appended.                                             *)
LEMMA LengthsAgree ==
  ASSUME TypeInv, DriftInv, failed = 0
  PROVE  LET l == IF pc = "idle" THEN Len(chain) ELSE Len(chain) - 2 IN
         /\ SectorLength = l + PendingSectors
         /\ ChecksumLength = l + PendingChecksums
         /\ l \in Nat
         /\ SectorLength \in 0 .. Len(chain) /\ ChecksumLength \in 0 .. Len(chain)
  <1> DEFINE l == IF pc = "idle" THEN Len(chain) ELSE Len(chain) - 2
  <1>1. /\ l \in Nat
        /\ Len(chain) \in Nat
        /\ pc = "idle" => l = Len(chain)
        /\ pc # "idle" => l = Len(chain) - 2
    BY DEF TypeInv, TypeOK, HandlerOwnsTwo
  <1>2. /\ SectorLength \in Int /\ ChecksumLength \in Int
        /\ Drift(l, SectorLength - PendingSectors, ChecksumLength - PendingChecksums, 0)
    BY Lengths DEF DriftInv
  <1>3. /\ PendingSectors \in 0 .. 2 /\ PendingChecksums \in 0 .. 2
        /\ pc = "idle" => PendingSectors = 0 /\ PendingChecksums = 0
    BY DEF PendingSectors, PendingChecksums
  <1> HIDE DEF l
  <1>4. SectorLength = l + PendingSectors /\ ChecksumLength = l + PendingChecksums
    BY <1>1, <1>2, <1>3 DEF Drift
  <1>5. SectorLength \in 0 .. Len(chain) /\ ChecksumLength \in 0 .. Len(chain)
    BY <1>1, <1>3, <1>4
  <1> QED
    BY <1>1, <1>4, <1>5 DEF l

(* A step changes no entry of the chain that a log has, unless a flush      *)
(* fails.                                                                   *)
LEMMA ChainKeepsEntries ==
  ASSUME TypeInv, [Next]_vars, failed' = failed, NEW i \in 1 .. Len(chain)
  PROVE  chain'[i] = chain[i]
  BY TypeParts, ListStep

(* The two blocks of the write in the handler, by their place in the chain. *)
LEMMA TurnOf ==
  ASSUME TypeInv, DriftInv, failed = 0
  PROVE  /\ pc = "dataSector" => chain[SectorLength + 1] = NewData
         /\ pc = "paritySector" => chain[SectorLength + 1] = NewParity
         /\ pc = "dataChecksum" => chain[ChecksumLength + 1] = NewData
         /\ pc = "parityChecksum" => chain[ChecksumLength + 1] = NewParity
  <1>1. Len(chain) \in Nat
    BY DEF TypeInv, TypeOK
  <1>2. /\ pc = "dataSector" => SectorLength = Len(chain) - 2
        /\ pc = "paritySector" => SectorLength = Len(chain) - 1
        /\ pc = "dataChecksum" => ChecksumLength = Len(chain) - 2
        /\ pc = "parityChecksum" => ChecksumLength = Len(chain) - 1
    <2>1. /\ SectorLength = (IF pc = "idle" THEN Len(chain) ELSE Len(chain) - 2) + PendingSectors
          /\ ChecksumLength = (IF pc = "idle" THEN Len(chain) ELSE Len(chain) - 2) + PendingChecksums
      BY LengthsAgree
    <2>2. /\ pc = "dataSector" => PendingSectors = 0
          /\ pc = "paritySector" => PendingSectors = 1
          /\ pc = "dataChecksum" => PendingChecksums = 0
          /\ pc = "parityChecksum" => PendingChecksums = 1
      BY DEF PendingSectors, PendingChecksums
    <2> QED
      BY <1>1, <2>1, <2>2
  <1>3. /\ Len(chain) - 2 + 1 = Len(chain) - 1
        /\ Len(chain) - 1 + 1 = Len(chain)
    BY <1>1
  <1> QED
    BY <1>2, <1>3 DEF NewData, NewParity

(* The typing facts the two steps below share.                              *)
LEMMA LogFacts ==
  ASSUME TypeInv, DriftInv, Covered
  PROVE  /\ sectors \in Buffer(Sector, SectorsPerBlock)
         /\ checksums \in Buffer(Checksum, ChecksumsPerBlock)
         /\ sectors.next >= MetaStart /\ checksums.next >= ChecksumStart
         /\ MetaStart \in Nat /\ ChecksumStart \in Nat
         /\ sectors.next \in Nat /\ checksums.next \in Nat
         /\ MetaStart .. sectors.next - 1 \subseteq DOMAIN metaDisk
         /\ ChecksumStart .. checksums.next - 1 \subseteq DOMAIN metaDisk
         /\ SectorLength \in Nat /\ ChecksumLength \in Nat
  <1>1. /\ sectors \in Buffer(Sector, SectorsPerBlock)
        /\ checksums \in Buffer(Checksum, ChecksumsPerBlock)
        /\ sectors.next >= MetaStart /\ checksums.next >= ChecksumStart
        /\ MetaStart \in Nat /\ ChecksumStart \in Nat
        /\ sectors.next \in Nat /\ checksums.next \in Nat
    BY Lengths DEF DriftInv
  <1>2. SectorLength \in Nat /\ ChecksumLength \in Nat
    BY <1>1, LogType, Capacities DEF SectorLength, ChecksumLength
  <1> QED
    BY <1>1, <1>2 DEF Covered

(* Every step keeps the sector log with the chain.                          *)
LEMMA SectorLogStep ==
  ASSUME TypeInv, DriftInv, Covered, SectorLog, [Next]_vars
  PROVE  SectorLog'
  <1> SUFFICES ASSUME failed' = 0, NEW i \in 1 .. SectorLength',
                      SectorBlock(i) < ChecksumStart
               PROVE  SectorAt(i)' = chain'[i].block_sector
    BY DEF SectorLog, SectorBlock, ChecksumStart
  <1>1. failed = 0
    BY NextOnlyAdvances, Lengths
  <1>2. \A j \in 1 .. SectorLength :
          SectorBlock(j) < ChecksumStart => SectorAt(j) = chain[j].block_sector
    BY <1>1 DEF SectorLog
  <1>3. SectorLength \in 0 .. Len(chain) /\ Len(chain) \in Nat
    BY <1>1, LengthsAgree DEF TypeInv, TypeOK
  <1>4. \A j \in 1 .. SectorLength : chain'[j] = chain[j]
    BY <1>1, <1>3, ChainKeepsEntries
  <1>5. SectorAt(i)' = LoggedOn(metaDisk', sectors', MetaStart, SectorsPerBlock - 1, i)
    BY DEF SectorAt, LoggedOn
  (* The sector log is left alone, whatever the checksums do.               *)
  <1>7. CASE sectors' = sectors
    <2>1. metaDisk' = metaDisk \/ metaDisk' = Flushed(checksums)
      <3>1. sectors.next # sectors.next + 1 /\ failed # failed + 1
        BY <1>1, LogFacts
      <3>2. SectorsGrow(NewData.block_sector) \/ SectorsGrow(NewParity.block_sector) =>
              metaDisk' = metaDisk
        BY <1>7, <3>1 DEF SectorsGrow, Grows, Stored, Reset
      <3> QED
        BY <1>1, <3>1, <3>2, MetaShapes
        DEF ChecksumsGrow, Grows, ChecksumsFlushed, FlushFailed
    <2>2. SectorLength' = SectorLength
      BY <1>7 DEF SectorLength, LogLength
    <2>3. /\ (i - 1) \div (SectorsPerBlock - 1) \in Nat
          /\ MetaStart \in Nat /\ sectors.next \in Nat
          /\ ChecksumStart \in Nat /\ checksums.next \in Nat /\ checksums.next >= ChecksumStart
      BY <2>2, LogFacts, Capacities, EntryBlock DEF SectorLength
    <2>4. SectorBlock(i) < sectors.next =>
            SectorBlock(i) # checksums.next /\ SectorBlock(i) \in DOMAIN metaDisk
      <3>1. SectorBlock(i) < sectors.next => SectorBlock(i) \in MetaStart .. sectors.next - 1
        BY <2>3 DEF SectorBlock
      <3> QED
        BY <2>3, <3>1 DEF Covered
    <2>5. SectorBlock(i) < sectors.next => metaDisk'[SectorBlock(i)] = metaDisk[SectorBlock(i)]
      BY <2>1, <2>4, FlushedBlocks
    <2>6. SectorAt(i)' = SectorAt(i)
      BY <1>5, <1>7, <2>5 DEF SectorAt, LoggedOn, SectorBlock
    <2> QED
      BY <1>2, <1>4, <2>2, <2>6
  <1>8. ASSUME NEW e, e = chain[SectorLength + 1].block_sector, SectorsGrow(e)
        PROVE  SectorAt(i)' = chain'[i].block_sector
    <2> DEFINE used == SectorsPerBlock - 1
    <2>1. /\ chain' = chain
          /\ \/ Fits(sectors, SectorsPerBlock) /\ sectors' = Stored(sectors, e) /\ metaDisk' = metaDisk
             \/ /\ ~Fits(sectors, SectorsPerBlock)
                /\ sectors' = Stored(Reset(sectors, 1), e) /\ metaDisk' = Flushed(sectors)
      BY <1>8 DEF SectorsGrow, Grows
    <2>2. SectorLength' = SectorLength + 1
      <3>1. SectorLength' = LogLength(sectors', MetaStart, used)
        BY DEF SectorLength, LogLength
      <3>2. /\ LogLength(Stored(sectors, e), MetaStart, used) = SectorLength + 1
            /\ ~Fits(sectors, SectorsPerBlock) =>
                 LogLength(Stored(Reset(sectors, 1), e), MetaStart, used) = SectorLength + 1
        BY LogFacts, Capacities, LogGrows DEF SectorLength
      <3> HIDE DEF used
      <3> QED
        BY <2>1, <3>1, <3>2
    <2>3. i \in 1 .. LogLength(sectors, MetaStart, used) + 1
      BY <2>2 DEF SectorLength
    <2>4. LoggedOn(metaDisk', sectors', MetaStart, used, i) =
            IF i = LogLength(sectors, MetaStart, used) + 1 THEN e
            ELSE LoggedOn(metaDisk, sectors, MetaStart, used, i)
      <3>1. /\ sectors \in Buffer(Sector, SectorsPerBlock)
            /\ SectorsPerBlock \in Nat /\ SectorsPerBlock >= 2
            /\ MetaStart \in Nat /\ sectors.next >= MetaStart
            /\ MetaStart .. sectors.next - 1 \subseteq DOMAIN metaDisk
        BY LogFacts, Capacities
      <3>2. ASSUME NEW m2, NEW later,
                   \/ Fits(sectors, SectorsPerBlock) /\ m2 = Stored(sectors, e) /\ later = metaDisk
                   \/ /\ ~Fits(sectors, SectorsPerBlock)
                      /\ m2 = Stored(Reset(sectors, 1), e) /\ later = Flushed(sectors)
            PROVE  LoggedOn(later, m2, MetaStart, used, i) =
                     IF i = LogLength(sectors, MetaStart, used) + 1 THEN e
                     ELSE LoggedOn(metaDisk, sectors, MetaStart, used, i)
        BY <2>3, <3>1, <3>2, LogGrowsByEntry
      <3> QED
        BY <2>1, <3>2
    <2> HIDE DEF used
    <2>5. CASE i = SectorLength + 1
      BY <1>5, <1>8, <2>1, <2>4, <2>5 DEF SectorLength, used
    <2>6. CASE i # SectorLength + 1
      <3>1. i \in 1 .. SectorLength
        BY <1>3, <2>2, <2>6
      <3>2. SectorAt(i)' = SectorAt(i)
        BY <1>5, <2>4, <2>6 DEF SectorLength, SectorAt, used
      <3> QED
        BY <1>2, <2>1, <3>1, <3>2
    <2> QED
      BY <2>5, <2>6
  <1>9. CASE \/ pc = "dataSector" /\ SectorsGrow(NewData.block_sector)
             \/ pc = "paritySector" /\ SectorsGrow(NewParity.block_sector)
    <2>1. CASE pc = "dataSector" /\ SectorsGrow(NewData.block_sector)
      <3>1. chain[SectorLength + 1] = NewData
        BY <1>1, <2>1, TurnOf
      <3> QED
        BY <1>8, <2>1, <3>1 DEF SectorsGrow, Grows
    <2>2. CASE pc = "paritySector" /\ SectorsGrow(NewParity.block_sector)
      <3>1. chain[SectorLength + 1] = NewParity
        BY <1>1, <2>2, TurnOf
      <3> QED
        BY <1>8, <2>2, <3>1 DEF SectorsGrow, Grows
    <2> QED
      BY <1>9, <2>1, <2>2
  <1> QED
    BY <1>1, <1>7, <1>9, MetaShapes
    DEF ChecksumsGrow, ChecksumsFlushed, FlushFailed

(* Every step keeps the checksum log with the chain, until a wild read.     *)
LEMMA ChecksumLogStep ==
  ASSUME TypeInv, DriftInv, DiskInv, ChecksumLog, [Next]_vars
  PROVE  ChecksumLog'
  <1> SUFFICES ASSUME InArea', failed' = 0, wild' = 0, NEW i \in 1 .. ChecksumLength'
               PROVE  ChecksumAt(i)' = chain'[i].block_checksum
    BY DEF ChecksumLog
  <1>1. InArea /\ failed = 0 /\ wild = 0
    BY NextOnlyAdvances, Lengths DEF InArea, ChecksumStart
  <1>2. \A j \in 1 .. ChecksumLength : ChecksumAt(j) = chain[j].block_checksum
    BY <1>1 DEF ChecksumLog
  <1>3. ChecksumLength \in 0 .. Len(chain) /\ Len(chain) \in Nat
    BY <1>1, LengthsAgree DEF TypeInv, TypeOK
  <1>4. \A j \in 1 .. ChecksumLength : chain'[j] = chain[j]
    BY <1>1, <1>3, ChainKeepsEntries
  <1>5. ChecksumAt(i)' = LoggedOn(metaDisk', checksums', ChecksumStart, ChecksumsPerBlock - 1, i)
    BY DEF ChecksumAt, LoggedOn, ChecksumStart, ChecksumsPerBlock
  <1>6. /\ checksums \in Buffer(Checksum, ChecksumsPerBlock)
        /\ ChecksumsPerBlock \in Nat /\ ChecksumsPerBlock >= 2
        /\ ChecksumStart \in Nat /\ checksums.next >= ChecksumStart
        /\ ChecksumStart .. checksums.next - 1 \subseteq DOMAIN metaDisk
    BY LogFacts, Capacities DEF DiskInv
  <1>7. ChecksumLength' = LogLength(checksums', ChecksumStart, ChecksumsPerBlock - 1)
    BY DEF ChecksumLength, LogLength, ChecksumStart, ChecksumsPerBlock
  (* The checksum log is left alone, whatever the sectors do.               *)
  <1>8. ASSUME checksums' = checksums,
               \A b \in ChecksumStart .. checksums.next - 1 : metaDisk'[b] = metaDisk[b]
        PROVE  ChecksumAt(i)' = chain'[i].block_checksum
    <2>1. ChecksumLength' = ChecksumLength
      BY <1>7, <1>8 DEF ChecksumLength
    <2>2. i \in 1 .. LogLength(checksums, ChecksumStart, ChecksumsPerBlock - 1)
      BY <2>1 DEF ChecksumLength
    <2>3. LoggedOn(metaDisk', checksums, ChecksumStart, ChecksumsPerBlock - 1, i) = ChecksumAt(i)
      BY <1>6, <1>8, <2>2, LogIsElsewhere DEF ChecksumAt
    <2> QED
      BY <1>2, <1>4, <1>5, <1>8, <2>1, <2>3
  <1>9. CASE UNCHANGED checksums /\ (metaDisk' = metaDisk \/ metaDisk' = Flushed(sectors))
    <2>1. \A b \in ChecksumStart .. checksums.next - 1 : b # sectors.next /\ b \in DOMAIN metaDisk
      BY <1>1, LogFacts DEF InArea, DiskInv
    <2>2. \A b \in ChecksumStart .. checksums.next - 1 : metaDisk'[b] = metaDisk[b]
      BY <1>9, <2>1, FlushedBlocks
    <2> QED
      BY <1>8, <1>9, <2>2
  <1>10. ASSUME NEW e, e = chain[ChecksumLength + 1].block_checksum, ChecksumsGrow(e)
         PROVE  ChecksumAt(i)' = chain'[i].block_checksum
    <2> DEFINE used == ChecksumsPerBlock - 1
    <2>1. /\ chain' = chain
          /\ \/ /\ Fits(checksums, ChecksumsPerBlock)
                /\ checksums' = Stored(checksums, e) /\ metaDisk' = metaDisk
             \/ /\ ~Fits(checksums, ChecksumsPerBlock)
                /\ checksums' = Stored(Reset(checksums, 2), e) /\ metaDisk' = Flushed(checksums)
      BY <1>10 DEF ChecksumsGrow, Grows
    <2>2. ChecksumLength' = ChecksumLength + 1
      <3>1. /\ LogLength(Stored(checksums, e), ChecksumStart, used) = ChecksumLength + 1
            /\ ~Fits(checksums, ChecksumsPerBlock) =>
                 LogLength(Stored(Reset(checksums, 2), e), ChecksumStart, used) = ChecksumLength + 1
        BY <1>6, LogGrows DEF ChecksumLength
      <3> HIDE DEF used
      <3> QED
        BY <1>7, <2>1, <3>1 DEF used
    <2>3. i \in 1 .. LogLength(checksums, ChecksumStart, used) + 1
      BY <2>2 DEF ChecksumLength
    <2>4. LoggedOn(metaDisk', checksums', ChecksumStart, used, i) =
            IF i = LogLength(checksums, ChecksumStart, used) + 1 THEN e
            ELSE LoggedOn(metaDisk, checksums, ChecksumStart, used, i)
      BY <1>6, <2>1, <2>3, LogGrowsByEntry
    <2> HIDE DEF used
    <2>5. CASE i = ChecksumLength + 1
      BY <1>5, <1>10, <2>1, <2>4, <2>5 DEF ChecksumLength, used
    <2>6. CASE i # ChecksumLength + 1
      <3>1. i \in 1 .. ChecksumLength
        BY <1>3, <2>2, <2>6
      <3>2. ChecksumAt(i)' = ChecksumAt(i)
        BY <1>5, <2>4, <2>6 DEF ChecksumLength, ChecksumAt, used
      <3> QED
        BY <1>2, <2>1, <3>1, <3>2
    <2> QED
      BY <2>5, <2>6
  (* The oops comes after the flush and before the append.                  *)
  <1>11. CASE ChecksumsFlushed
    <2> DEFINE used == ChecksumsPerBlock - 1
    <2>1. /\ chain' = chain /\ ~Fits(checksums, ChecksumsPerBlock)
          /\ checksums' = Reset(checksums, 2) /\ metaDisk' = Flushed(checksums)
      BY <1>11 DEF ChecksumsFlushed
    <2>2. ChecksumLength' = LogLength(checksums, ChecksumStart, used)
      <3>1. LogLength(Reset(checksums, 2), ChecksumStart, used)
              = LogLength(checksums, ChecksumStart, used)
        BY <1>6, <2>1, LogGrows
      <3> QED
        BY <1>7, <2>1, <3>1
    <2>3. /\ metaDisk'[checksums.next] = checksums.buffer
          /\ \A b \in ChecksumStart .. checksums.next - 1 : metaDisk'[b] = metaDisk[b]
      <3>1. \A b \in ChecksumStart .. checksums.next - 1 : b # checksums.next
        BY LogFacts DEF DiskInv
      <3> QED
        BY <1>6, <2>1, <3>1, FlushedBlocks
    <2>4. LoggedOn(metaDisk', checksums', ChecksumStart, used, i)
            = LoggedOn(metaDisk, checksums, ChecksumStart, used, i)
      <3>1. i \in 1 .. LogLength(checksums, ChecksumStart, used)
        BY <2>2
      <3> QED
        BY <1>6, <2>1, <2>3, <3>1, LogIsFlushed
    <2>5. i \in 1 .. ChecksumLength
      BY <2>2 DEF ChecksumLength
    <2> HIDE DEF used
    <2>6. ChecksumAt(i)' = ChecksumAt(i)
      BY <1>5, <2>4 DEF ChecksumAt, used
    <2> QED
      BY <1>2, <2>1, <2>5, <2>6
  <1>12. CASE \/ pc = "dataChecksum" /\ ChecksumsGrow(NewData.block_checksum)
              \/ pc = "parityChecksum" /\ ChecksumsGrow(NewParity.block_checksum)
    <2>1. CASE pc = "dataChecksum" /\ ChecksumsGrow(NewData.block_checksum)
      <3>1. chain[ChecksumLength + 1] = NewData
        BY <1>1, <2>1, TurnOf
      <3> QED
        BY <1>10, <2>1, <3>1 DEF ChecksumsGrow, Grows
    <2>2. CASE pc = "parityChecksum" /\ ChecksumsGrow(NewParity.block_checksum)
      <3>1. chain[ChecksumLength + 1] = NewParity
        BY <1>1, <2>2, TurnOf
      <3> QED
        BY <1>10, <2>2, <3>1 DEF ChecksumsGrow, Grows
    <2> QED
      BY <1>12, <2>1, <2>2
  <1>13. CASE SectorsGrow(NewData.block_sector) \/ SectorsGrow(NewParity.block_sector)
    BY <1>9, <1>13 DEF SectorsGrow, Grows
  <1>14. wild' # wild + 1 /\ failed' # failed + 1
    BY <1>1
  <1> QED
    BY <1>9, <1>11, <1>12, <1>13, <1>14, MetaShapes DEF FlushFailed

-----------------------------------------------------------------------------
(* The two logs list the chain.                                             *)

LogInv == TypeInv /\ DriftInv /\ DiskInv /\ SectorLog /\ ChecksumLog

LEMMA LogInvariant == Spec => []LogInv
  <1>1. Init => LogInv
    <2> SUFFICES ASSUME Init PROVE LogInv
      OBVIOUS
    <2>1. TypeInv /\ DriftInv /\ DiskInv
      BY TypeInit, DriftInit, DiskInit
    <2>2. SectorLength = 0 /\ ChecksumLength = 0
      <3>1. failed = 0 /\ pc = "idle" /\ Len(chain) = 0
        BY EmptySeq DEF Init
      <3> QED
        BY <2>1, <3>1, LengthsAgree
    <2>3. 1 .. SectorLength = {} /\ 1 .. ChecksumLength = {}
      BY <2>2
    <2> QED
      BY <2>1, <2>3 DEF LogInv, SectorLog, ChecksumLog
  <1>2. LogInv /\ [Next]_vars => LogInv'
    BY TypeStep, DriftStep, DiskStep, SectorLogStep, ChecksumLogStep DEF LogInv, DiskInv
  <1> QED
    BY <1>1, <1>2, PTL DEF Spec

(* Between writes, and while no flush has failed, the sector blocks on disk *)
(* and then the sector buffer list the sectors of the chain in its order    *)
(* (lines 1026-1065, 873-892).                                              *)
THEOREM SectorLogCorrect == Spec /\ []InArea => []SectorLogMatchesChain
  <1>1. LogInv /\ InArea => SectorLogMatchesChain
    <2> SUFFICES ASSUME LogInv, InArea, pc = "idle", failed = 0
                 PROVE  /\ SectorLength = Len(chain)
                        /\ \A i \in 1 .. Len(chain) : SectorAt(i) = chain[i].block_sector
      BY DEF SectorLogMatchesChain, SectorLength, SectorAt, Logged, LoggedOn
    <2>1. SectorLength = Len(chain)
      BY Lengths, LengthsAgree DEF LogInv, PendingSectors
    <2>2. \A i \in 1 .. SectorLength : SectorBlock(i) < ChecksumStart
      <3> SUFFICES ASSUME NEW i \in 1 .. SectorLength
                   PROVE  SectorBlock(i) < ChecksumStart
        OBVIOUS
      <3>1. /\ sectors.next \in Nat /\ ChecksumStart \in Nat /\ MetaStart \in Nat
            /\ (i - 1) \div (SectorsPerBlock - 1) \in Nat
            /\ SectorBlock(i) <= sectors.next
        BY LogFacts, Capacities, EntryBlock DEF SectorLength, SectorBlock, LogInv, DiskInv
      <3> QED
        BY <3>1 DEF InArea, SectorBlock
    <2> QED
      BY <2>1, <2>2 DEF LogInv, SectorLog
  <1> QED
    BY <1>1, LogInvariant, PTL

(* The same of the checksums, unless a wild address was read: so the i-th   *)
(* checksum on disk is that of the i-th sector.                             *)
THEOREM ChecksumLogCorrect == Spec /\ []InArea => []ChecksumLogMatchesChain
  <1>1. LogInv /\ InArea => ChecksumLogMatchesChain
    <2> SUFFICES ASSUME LogInv, InArea, pc = "idle", failed = 0, wild = 0
                 PROVE  /\ ChecksumLength = Len(chain)
                        /\ \A i \in 1 .. Len(chain) : ChecksumAt(i) = chain[i].block_checksum
      BY DEF ChecksumLogMatchesChain, ChecksumLength, ChecksumAt, Logged, LoggedOn, ChecksumStart
    <2>1. ChecksumLength = Len(chain)
      BY Lengths, LengthsAgree DEF LogInv, PendingChecksums
    <2> QED
      BY <2>1 DEF LogInv, ChecksumLog
  <1> QED
    BY <1>1, LogInvariant, PTL
=============================================================================

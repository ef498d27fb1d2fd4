--------------------------- MODULE WritePathProofs ---------------------------
(***************************************************************************)
(* Theorems about the write path for every block size, every set of        *)
(* sectors, every number of entries in a metadata block and every pattern  *)
(* of flushes that fail: the cached block, the chain, the log it implements*)
(* and the checksum map.                                                   *)
(***************************************************************************)
EXTENDS WritePath, SequenceTheorems, TLAPS

-----------------------------------------------------------------------------
(* Blocks and XOR.                                                          *)

(* The block of zeros is a block.                                           *)
LEMMA ZeroBlockType == ZeroBlock \in Block
  BY ByteAssumption DEF ZeroBlock, Block

(* The XOR of two blocks is a block.                                        *)
LEMMA XorType ==
  ASSUME NEW a \in Block, NEW b \in Block
  PROVE  Xor(a, b) \in Block
  BY ByteAssumption DEF Xor, Block

(* The parity and one operand give the other operand back.                  *)
LEMMA XorCancels ==
  ASSUME NEW a \in Block, NEW b \in Block
  PROVE  /\ Xor(b, Xor(a, b)) = a
         /\ Xor(a, Xor(a, b)) = b
  <1>1. \A i \in Position : a[i] \in Byte /\ b[i] \in Byte
    BY DEF Block
  <1>2. \A i \in Position :
          /\ XorByte(b[i], XorByte(a[i], b[i])) = a[i]
          /\ XorByte(a[i], XorByte(a[i], b[i])) = b[i]
    BY <1>1, ByteAssumption
  <1>3. /\ a = [i \in Position |-> a[i]]
        /\ b = [i \in Position |-> b[i]]
    BY DEF Block
  <1> QED
    BY <1>2, <1>3 DEF Xor

(* The copy the code makes when the last block is all zeros is their XOR.   *)
LEMMA NextParityIsXor ==
  ASSUME NEW a \in Block, NEW b \in Block
  PROVE  /\ NextParity(a, b) = Xor(a, b)
         /\ NextParity(a, b) \in Block
  <1>1. CASE is_buffer_empty(b)
    <2>1. \A i \in Position : XorByte(a[i], b[i]) = a[i]
      BY <1>1, ByteAssumption DEF is_buffer_empty, Block
    <2>2. a = [i \in Position |-> a[i]]
      BY DEF Block
    <2> QED
      BY <1>1, <2>1, <2>2 DEF NextParity, Xor
  <1>2. CASE ~is_buffer_empty(b)
    BY <1>2, XorType DEF NextParity
  <1> QED
    BY <1>1, <1>2

(* The short memcpy of line 977 leaves a block in the page.                 *)
LEMMA MemcpyType ==
  ASSUME NEW a \in Block, NEW b \in Block
  PROVE  MemcpyPtrSize(a, b) \in Block
  BY DEF MemcpyPtrSize, Block

(* What list_add_tail adds is an entry of the chain.                        *)
LEMMA EntryType ==
  ASSUME NEW s \in Sector, NEW b \in Block, NEW m \in Beyond
  PROVE  Entry(s, b, m) \in ChainEntry
  BY DEF Entry, ChainEntry, Checksum

(* The data sector and its parity sector are sectors.                       *)
LEMMA SectorType ==
  ASSUME NEW s \in DataSector
  PROVE  s \in Sector /\ ParitySector(s) \in Sector
  BY DEF Sector

(* The checksum of an untouched map entry is a checksum.                    *)
LEMMA ZeroChecksumType == ZeroChecksum \in Checksum
  <1>1. PICK m \in Beyond : TRUE
    BY BeyondAssumption
  <1>2. 0 \in Position /\ ZeroBlock[0] = ZeroByte
    BY SizeAssumption DEF Position, ZeroBlock
  <1>3. ZeroChecksum = crc32b(ZeroBlock, m)
    BY <1>2 DEF ZeroChecksum, crc32b
  <1> QED
    BY <1>1, <1>3, ZeroBlockType DEF Checksum

-----------------------------------------------------------------------------
(* Two entries appended to a chain, and taken off again.                    *)
LEMMA AppendTwo ==
  ASSUME NEW S, NEW c \in Seq(S), NEW a \in S, NEW b \in S
  PROVE  LET t == Append(Append(c, a), b) IN
         /\ t \in Seq(S)
         /\ Len(t) = Len(c) + 2
         /\ t[Len(c) + 1] = a
         /\ t[Len(c) + 2] = b
         /\ \A i \in 1 .. Len(c) : t[i] = c[i]
         /\ SubSeq(t, 1, Len(t) - 2) = c
  <1> DEFINE t == Append(Append(c, a), b)
  <1>1. /\ t \in Seq(S)
        /\ Len(t) = Len(c) + 2
        /\ t[Len(c) + 1] = a
        /\ t[Len(c) + 2] = b
        /\ \A i \in 1 .. Len(c) : t[i] = c[i]
    OBVIOUS
  <1>2. Len(c) \in Nat
    BY LenProperties
  <1> HIDE DEF t
  <1>3. \A i \in 1 .. Len(c) : t[i] \in S
    BY <1>1, ElementOfSeq
  <1>4. /\ SubSeq(t, 1, Len(c)) \in Seq(S)
        /\ Len(SubSeq(t, 1, Len(c))) = Len(c)
        /\ \A i \in 1 .. Len(c) : SubSeq(t, 1, Len(c))[i] = t[i]
    <2>1. /\ SubSeq(t, 1, Len(c)) \in Seq(S)
          /\ Len(SubSeq(t, 1, Len(c))) = IF 1 <= Len(c) THEN Len(c) - 1 + 1 ELSE 0
          /\ \A i \in 1 .. Len(c) - 1 + 1 : SubSeq(t, 1, Len(c))[i] = t[1 + i - 1]
      BY <1>2, <1>3, SubSeqProperties
    <2> QED
      BY <2>1, <1>2
  <1>5. SubSeq(t, 1, Len(c)) = c
    BY <1>1, <1>4, SeqEqual
  <1> QED
    BY <1>1, <1>2, <1>5 DEF t

(* A chain without its last two entries.                                    *)
LEMMA DropTwo ==
  ASSUME NEW S, NEW c \in Seq(S), Len(c) >= 2
  PROVE  LET t == SubSeq(c, 1, Len(c) - 2) IN
         /\ t \in Seq(S)
         /\ Len(t) = Len(c) - 2
         /\ \A i \in 1 .. Len(c) - 2 : t[i] = c[i]
         /\ c = Append(Append(t, c[Len(c) - 1]), c[Len(c)])
  <1>1. Len(c) \in Nat
    BY LenProperties
  <1>2. \A i \in 1 .. Len(c) : c[i] \in S
    BY ElementOfSeq
  <1> DEFINE k == Len(c) - 2
             t == SubSeq(c, 1, k)
  <1>3. k \in Nat /\ Len(c) = k + 2
    BY <1>1
  <1>4. t \in Seq(S) /\ Len(t) = k /\ \A i \in 1 .. k : t[i] = c[i]
    <2> HIDE DEF k
    <2>1. /\ t \in Seq(S)
          /\ Len(t) = IF 1 <= k THEN k - 1 + 1 ELSE 0
          /\ \A i \in 1 .. k - 1 + 1 : t[i] = c[1 + i - 1]
      BY <1>2, <1>3, SubSeqProperties
    <2> HIDE DEF t
    <2> QED
      BY <1>3, <2>1
  <1> HIDE DEF t
  <1>5. c[Len(c) - 1] \in S /\ c[Len(c)] \in S
    BY <1>1, <1>2
  <1> DEFINE u == Append(Append(t, c[Len(c) - 1]), c[Len(c)])
  <1>6. /\ u \in Seq(S)
        /\ Len(u) = Len(c)
        /\ u[Len(c) - 1] = c[Len(c) - 1]
        /\ u[Len(c)] = c[Len(c)]
        /\ \A i \in 1 .. Len(c) - 2 : u[i] = c[i]
    <2> DEFINE a == c[Len(c) - 1]
               b == c[Len(c)]
               v == Append(Append(t, a), b)
    <2>1. a \in S /\ b \in S /\ t \in Seq(S)
      BY <1>4, <1>5
    <2> HIDE DEF a, b
    <2>2. /\ v \in Seq(S)
          /\ Len(v) = Len(t) + 2
          /\ v[Len(t) + 1] = a
          /\ v[Len(t) + 2] = b
          /\ \A i \in 1 .. Len(t) : v[i] = t[i]
      BY <2>1, AppendTwo
    <2> HIDE DEF v
    <2>3. Len(t) = Len(c) - 2 /\ \A i \in 1 .. Len(t) : t[i] = c[i]
      BY <1>3, <1>4
    <2>4. /\ v \in Seq(S)
          /\ Len(v) = Len(c)
          /\ v[Len(c) - 1] = a
          /\ v[Len(c)] = b
          /\ \A i \in 1 .. Len(c) - 2 : v[i] = c[i]
      BY <1>1, <2>2, <2>3
    <2> QED
      BY <2>4 DEF v, a, b
  <1> HIDE DEF u
  <1>7. \A i \in 1 .. Len(c) : u[i] = c[i]
    BY <1>1, <1>6
  <1>8. u = c
    BY <1>6, <1>7, SeqEqual
  <1> QED
    BY <1>4, <1>8 DEF t, u

-----------------------------------------------------------------------------
(* The metadata buffers.                                                    *)

(* An append keeps a buffer well formed if it finds room.                   *)
LEMMA StoredType ==
  ASSUME NEW V, NEW capacity \in Nat, NEW m \in Buffer(V, capacity),
         NEW e \in MetaEntry(V), m.size + 1 < capacity
  PROVE  Stored(m, e) \in Buffer(V, capacity)
  <1>1. /\ m.buffer \in [0 .. capacity - 1 -> MetaEntry(V)]
        /\ m.size \in 0 .. capacity - 1
        /\ m.next \in Nat
    BY DEF Buffer
  <1>2. [m.buffer EXCEPT ![m.size] = e] \in [0 .. capacity - 1 -> MetaEntry(V)]
    BY <1>1
  <1>3. m.size + 1 \in 0 .. capacity - 1
    BY <1>1
  <1> QED
    BY <1>1, <1>2, <1>3 DEF Stored, Buffer

(* The reset after a flush keeps a buffer well formed.                      *)
LEMMA ResetType ==
  ASSUME NEW V, NEW capacity \in Nat, capacity >= 2, NEW m \in Buffer(V, capacity),
         NEW cleared \in Nat
  PROVE  /\ Reset(m, cleared) \in Buffer(V, capacity)
         /\ Reset(m, cleared).size + 1 < capacity
  <1>1. /\ m.buffer \in [0 .. capacity - 1 -> MetaEntry(V)]
        /\ m.next \in Nat
    BY DEF Buffer
  <1> DEFINE b == [i \in DOMAIN m.buffer |-> IF i < cleared THEN Default ELSE m.buffer[i]]
  <1>2. b \in [0 .. capacity - 1 -> MetaEntry(V)]
    BY <1>1 DEF MetaEntry
  <1>3. m.next + 1 \in Nat
    BY <1>1
  <1> HIDE DEF b
  <1>4. [buffer |-> b, size |-> 0, next |-> m.next + 1] \in Buffer(V, capacity)
    BY <1>2, <1>3 DEF Buffer
  <1> QED
    BY <1>4 DEF Reset, b

DiskOK ==
  /\ DOMAIN metaDisk \subseteq Nat
  /\ \A b \in DOMAIN metaDisk : metaDisk[b] \in MetaBlock

(* A flush leaves metadata blocks on the disk.                              *)
LEMMA FlushedType ==
  ASSUME DiskOK,
         NEW m \in Buffer(Sector, SectorsPerBlock) \cup Buffer(Checksum, ChecksumsPerBlock),
         metaDisk' \in {metaDisk, Flushed(m)}
  PROVE  DiskOK'
  <1>1. m.next \in Nat /\ m.buffer \in MetaBlock
    BY DEF Buffer, MetaBlock
  <1>2. CASE metaDisk' = metaDisk
    BY <1>2 DEF DiskOK
  <1>3. CASE metaDisk' = Flushed(m)
    <2>1. /\ DOMAIN metaDisk' = DOMAIN metaDisk \cup {m.next}
          /\ \A b \in DOMAIN metaDisk' :
               metaDisk'[b] = IF b = m.next THEN m.buffer ELSE metaDisk[b]
      BY <1>3 DEF Flushed
    <2> QED
      BY <1>1, <2>1 DEF DiskOK
  <1> QED
    BY <1>2, <1>3

(* The buffers have room for an entry, and for one after a reset.           *)
LEMMA Capacities ==
  /\ SectorsPerBlock \in Nat /\ SectorsPerBlock >= 2
  /\ ChecksumsPerBlock \in Nat /\ ChecksumsPerBlock >= 2
  BY MetadataAssumption DEF ChecksumsPerBlock

-----------------------------------------------------------------------------
(* The type invariant.  It needs that the handler has two blocks to take    *)
(* off the chain whenever it is running.                                    *)

HandlerOwnsTwo == pc # "idle" => Len(chain) >= 2

TypeInv == TypeOK /\ HandlerOwnsTwo

(* The types of all but the chain, and of the two blocks at its end: what   *)
(* the handler needs of a chain, whatever a loaded one has before them.     *)
RestOK ==
  /\ last_entangled_block \in Block
  /\ sectors \in Buffer(Sector, SectorsPerBlock)
  /\ checksums \in Buffer(Checksum, ChecksumsPerBlock)
  /\ sector_checksum_map \in [MapSector -> Checksum]
  /\ DiskOK
  /\ pc \in {"idle", "dataSector", "dataChecksum", "paritySector",
             "parityChecksum", "submit", "oops"}
  /\ IF pc = "idle" THEN req = NoRequest ELSE req \in Request
  /\ disk \in [Sector -> Block]
  /\ done \in Nat /\ failed \in Nat /\ wild \in Nat

LEMMA RecordedType ==
  ASSUME NEW map \in [MapSector -> Checksum], NEW s, NEW x \in Checksum
  PROVE  Recorded(map, s, x) \in [MapSector -> Checksum]
  BY DEF Recorded

NewOK ==
  pc # "idle" =>
    Len(chain) >= 2 /\ NewData \in ChainEntry /\ NewParity \in ChainEntry

LEMMA TypeParts ==
  /\ TypeInv <=> chain \in Seq(ChainEntry) /\ RestOK /\ HandlerOwnsTwo
  /\ TypeInv => NewOK
  <1>1. TypeInv <=> chain \in Seq(ChainEntry) /\ RestOK /\ HandlerOwnsTwo
    BY DEF TypeInv, TypeOK, RestOK, DiskOK
  <1>2. TypeInv => NewOK
    <2> SUFFICES ASSUME chain \in Seq(ChainEntry), Len(chain) >= 2
                 PROVE  NewData \in ChainEntry /\ NewParity \in ChainEntry
      BY <1>1 DEF NewOK, HandlerOwnsTwo
    <2> QED
      BY LenProperties, ElementOfSeq DEF NewData, NewParity
  <1> QED
    BY <1>1, <1>2

(* The fields of the two blocks the handler appends to the buffers.         *)
LEMMA NewFields ==
  ASSUME NewOK, pc # "idle"
  PROVE  /\ NewData.block_sector \in Sector /\ NewParity.block_sector \in Sector
         /\ NewData.block_checksum \in Checksum /\ NewParity.block_checksum \in Checksum
  BY DEF NewOK, ChainEntry

(* A failed flush keeps the types.                                          *)
LEMMA FlushFailsType ==
  ASSUME RestOK, NEW m \in {sectors, checksums}, FlushFails(m),
         UNCHANGED <<last_entangled_block, sector_checksum_map, disk, done>>,
         wild' \in Nat
  PROVE  RestOK'
  <1>1. DiskOK'
    BY FlushedType DEF RestOK, FlushFails
  <1>2. failed' \in Nat
    BY DEF RestOK, FlushFails
  <1> QED
    BY <1>1, <1>2 DEF RestOK, FlushFails

(* An append to the sector buffer keeps the types, flush or not.            *)
LEMMA AppendSectorType ==
  ASSUME RestOK, pc # "idle",
         NEW entry \in Sector,
         NEW next \in {"dataChecksum", "parityChecksum"},
         AppendSector(entry, next),
         UNCHANGED <<last_entangled_block, sector_checksum_map, disk, done, wild>>
  PROVE  RestOK'
  <1> USE DEF RestOK
  <1>1. entry \in MetaEntry(Sector)
    BY DEF MetaEntry
  <1>2. CASE /\ Fits(sectors, SectorsPerBlock)
             /\ sectors' = Stored(sectors, entry)
             /\ pc' = next
             /\ UNCHANGED <<chain, checksums, metaDisk, req, failed>>
    <2>1. sectors' \in Buffer(Sector, SectorsPerBlock)
      BY <1>1, <1>2, Capacities, StoredType DEF Fits
    <2> QED
      BY <1>2, <2>1 DEF DiskOK
  <1>3. CASE /\ metaDisk' = Flushed(sectors)
             /\ sectors' = Stored(SectorsReset, entry)
             /\ pc' = next
             /\ UNCHANGED <<chain, checksums, req, failed>>
    <2>1. sectors' \in Buffer(Sector, SectorsPerBlock)
      BY <1>1, <1>3, Capacities, ResetType, StoredType DEF SectorsReset
    <2>2. DiskOK'
      BY <1>3, FlushedType
    <2> QED
      BY <1>3, <2>1, <2>2
  <1>4. CASE FlushFails(sectors)
    BY <1>4, FlushFailsType
  <1> QED
    BY <1>2, <1>3, <1>4 DEF AppendSector

(* Every step keeps the types of all but the chain.                         *)
LEMMA RestStep ==
  ASSUME RestOK, NewOK, [Next]_vars
  PROVE  RestOK'
  <1>1. ASSUME NEW s \in DataSector, NEW d \in Block, NEW page \in Block,
               NEW m \in Beyond, NEW n \in Beyond,
               StartWrite(s, d, page, m, n)
        PROVE  RestOK'
    <2> DEFINE p == NextParity(d, last_entangled_block)
    <2>1. p \in Block
      BY NextParityIsXor DEF RestOK
    <2>2. req' \in Request
      <3>1. req' = [sector |-> s, data |-> d, parity |-> p, page |-> MemcpyPtrSize(page, p)]
        BY <1>1 DEF StartWrite
      <3> HIDE DEF p
      <3> QED
        BY <2>1, <3>1, MemcpyType DEF Request
    <2> QED
      BY <1>1, <2>2 DEF StartWrite, RestOK, DiskOK
  <1>2. CASE AppendDataSector
    BY <1>2, NewFields, AppendSectorType DEF AppendDataSector
  <1>3. CASE AppendDataChecksum
    <2>0. /\ pc # "idle" /\ NewData.block_checksum \in MetaEntry(Checksum)
          /\ Unset \in MetaEntry(Checksum)
      BY <1>3, NewFields DEF AppendDataChecksum, MetaEntry
    <2>1. CASE /\ Fits(checksums, ChecksumsPerBlock)
               /\ checksums' = Stored(checksums, NewData.block_checksum)
               /\ pc' = "paritySector"
               /\ UNCHANGED <<chain, sectors, metaDisk, req, failed, wild>>
      <3>1. checksums' \in Buffer(Checksum, ChecksumsPerBlock)
        BY <2>0, <2>1, Capacities, StoredType DEF Fits, RestOK
      <3> QED
        BY <1>3, <2>0, <2>1, <3>1 DEF AppendDataChecksum, RestOK, DiskOK
    <2>2. CASE /\ metaDisk' = Flushed(checksums)
               /\ checksums' \in {ChecksumsReset, Stored(ChecksumsReset, Unset)}
               /\ pc' \in {"oops", "paritySector"}
               /\ wild' \in {wild, wild + 1}
               /\ UNCHANGED <<chain, sectors, req, failed>>
      <3>0. /\ ChecksumsReset \in Buffer(Checksum, ChecksumsPerBlock)
            /\ ChecksumsReset.size + 1 < ChecksumsPerBlock
        BY Capacities, ResetType DEF ChecksumsReset, RestOK
      <3>1. checksums' \in Buffer(Checksum, ChecksumsPerBlock)
        BY <2>0, <2>2, <3>0, Capacities, StoredType
      <3>2. DiskOK'
        BY <2>2, FlushedType DEF RestOK
      <3> QED
        BY <1>3, <2>0, <2>2, <3>1, <3>2
        DEF AppendDataChecksum, RestOK
    <2>3. CASE FlushFails(checksums) /\ UNCHANGED wild
      <3>1. wild' \in Nat
        BY <2>3 DEF RestOK
      <3> QED
        BY <1>3, <2>0, <2>3, <3>1, FlushFailsType DEF AppendDataChecksum
    <2> QED
      BY <1>3, <2>1, <2>2, <2>3 DEF AppendDataChecksum
  <1>4. CASE AppendParitySector
    BY <1>4, NewFields, AppendSectorType DEF AppendParitySector
  <1>5. CASE AppendParityChecksum
    <2>0. pc # "idle" /\ NewParity.block_checksum \in MetaEntry(Checksum)
      BY <1>5, NewFields DEF AppendParityChecksum, MetaEntry
    <2>1. CASE /\ Fits(checksums, ChecksumsPerBlock)
               /\ checksums' = Stored(checksums, NewParity.block_checksum)
               /\ pc' = "submit"
               /\ UNCHANGED <<chain, sectors, metaDisk, req, failed>>
      <3>1. checksums' \in Buffer(Checksum, ChecksumsPerBlock)
        BY <2>0, <2>1, Capacities, StoredType DEF Fits, RestOK
      <3> QED
        BY <1>5, <2>0, <2>1, <3>1 DEF AppendParityChecksum, RestOK, DiskOK
    <2>2. CASE /\ metaDisk' = Flushed(checksums)
               /\ checksums' = Stored(ChecksumsReset, NewParity.block_checksum)
               /\ pc' = "submit"
               /\ UNCHANGED <<chain, sectors, req, failed>>
      <3>1. checksums' \in Buffer(Checksum, ChecksumsPerBlock)
        BY <2>0, <2>2, Capacities, ResetType, StoredType DEF ChecksumsReset, RestOK
      <3>2. DiskOK'
        BY <2>2, FlushedType DEF RestOK
      <3> QED
        BY <1>5, <2>0, <2>2, <3>1, <3>2
        DEF AppendParityChecksum, RestOK
    <2>3. CASE FlushFails(checksums)
      <3>1. wild' \in Nat
        BY <1>5 DEF AppendParityChecksum, RestOK
      <3> QED
        BY <1>5, <2>0, <2>3, <3>1, FlushFailsType DEF AppendParityChecksum
    <2> QED
      BY <1>5, <2>1, <2>2, <2>3 DEF AppendParityChecksum
  <1>6. CASE Submit
    <2>1. req \in Request /\ pc # "idle"
      BY <1>6 DEF Submit, RestOK
    <2>2. /\ req.sector \in Sector /\ ParitySector(req.sector) \in Sector
          /\ req.data \in Block /\ req.parity \in Block /\ req.page \in Block
      BY <2>1, SectorType DEF Request
    <2>3. disk' \in [Sector -> Block]
      BY <1>6, <2>2 DEF Submit, RestOK
    <2>4. sector_checksum_map' \in [MapSector -> Checksum]
      <3> DEFINE map == Recorded(sector_checksum_map, req.sector, NewData.block_checksum)
      <3>1. sector_checksum_map \in [MapSector -> Checksum]
        BY DEF RestOK
      <3>2. map \in [MapSector -> Checksum]
        BY <2>1, <3>1, NewFields, RecordedType
      <3>3. sector_checksum_map' = Recorded(map, ParitySector(req.sector), NewParity.block_checksum)
        BY <1>6 DEF Submit
      <3> HIDE DEF map
      <3> QED
        BY <2>1, <3>2, <3>3, NewFields, RecordedType
    <2> QED
      BY <1>6, <2>2, <2>3, <2>4 DEF Submit, RestOK, DiskOK
  <1>7. CASE UNCHANGED vars
    BY <1>7 DEF vars, RestOK, DiskOK
  <1> QED
    BY <1>1, <1>2, <1>3, <1>4, <1>5, <1>6, <1>7 DEF Next

(* A step leaves the chain as it was, adds two entries to it, or, if a      *)
(* flush fails, takes the last two off; what is before them stays.          *)
LEMMA ListStep ==
  ASSUME NEW C, ChainEntry \subseteq C, chain \in Seq(C), RestOK, NewOK, [Next]_vars
  PROVE  /\ chain' \in Seq(C)
         /\ NewOK'
         /\ failed' = failed => /\ Len(chain') >= Len(chain)
                                /\ \A i \in 1 .. Len(chain) : chain'[i] = chain[i]
  <1>0. Len(chain) \in Nat
    BY LenProperties
  <1>1. ASSUME NEW s \in DataSector, NEW d \in Block, NEW page \in Block,
               NEW m \in Beyond, NEW n \in Beyond,
               StartWrite(s, d, page, m, n)
        PROVE  /\ chain' \in Seq(C) /\ NewOK'
               /\ Len(chain') >= Len(chain)
               /\ \A i \in 1 .. Len(chain) : chain'[i] = chain[i]
    <2> DEFINE a == Entry(s, d, m)
               b == Entry(ParitySector(s), NextParity(d, last_entangled_block), n)
    <2>1. chain' = Append(Append(chain, a), b)
      BY <1>1 DEF StartWrite
    <2>2. a \in ChainEntry /\ b \in ChainEntry
      BY NextParityIsXor, EntryType, SectorType DEF RestOK
    <2> HIDE DEF a, b
    <2>3. /\ chain' \in Seq(C) /\ Len(chain') = Len(chain) + 2
          /\ chain'[Len(chain) + 1] = a /\ chain'[Len(chain) + 2] = b
          /\ \A i \in 1 .. Len(chain) : chain'[i] = chain[i]
      BY <2>1, <2>2, AppendTwo
    <2>4. chain'[Len(chain') - 1] = a /\ chain'[Len(chain')] = b
      <3>1. Len(chain') - 1 = Len(chain) + 1
        BY <1>0, <2>3
      <3> QED
        BY <2>3, <3>1
    <2> QED
      BY <1>0, <2>2, <2>3, <2>4 DEF NewOK, NewData, NewParity
  <1>2. ASSUME NEW m \in {sectors, checksums}, FlushFails(m), pc # "idle"
        PROVE  chain' \in Seq(C) /\ NewOK' /\ failed' # failed
    <2>1. chain' \in Seq(C)
      BY <1>2, DropTwo DEF FlushFails, NewOK
    <2>2. NewOK' /\ failed' # failed
      BY <1>2 DEF FlushFails, NewOK, RestOK
    <2> QED
      BY <2>1, <2>2
  <1>3. CASE chain' = chain /\ (pc = "idle" => pc' = "idle")
    BY <1>0, <1>3 DEF NewOK, NewData, NewParity
  <1>4. CASE AppendDataSector \/ AppendParitySector
    BY <1>2, <1>3, <1>4 DEF AppendDataSector, AppendParitySector, AppendSector
  <1>5. CASE AppendDataChecksum \/ AppendParityChecksum
    BY <1>2, <1>3, <1>5 DEF AppendDataChecksum, AppendParityChecksum
  <1>6. CASE Submit \/ UNCHANGED vars
    BY <1>3, <1>6 DEF Submit, vars
  <1> QED
    BY <1>1, <1>4, <1>5, <1>6 DEF Next

(* Every step keeps the inductive invariant of the types.                   *)
LEMMA TypeStep == TypeInv /\ [Next]_vars => TypeInv'
  <1> SUFFICES ASSUME TypeInv, [Next]_vars PROVE TypeInv'
    OBVIOUS
  <1>1. RestOK' /\ chain' \in Seq(ChainEntry) /\ NewOK'
    BY TypeParts, RestStep, ListStep
  <1>2. TypeInv' <=> chain' \in Seq(ChainEntry) /\ RestOK' /\ HandlerOwnsTwo'
    BY DEF TypeInv, TypeOK, RestOK, DiskOK
  <1> QED
    BY <1>1, <1>2 DEF NewOK, HandlerOwnsTwo

(* The constructor establishes the inductive invariant of the types.        *)
LEMMA TypeInit == Init => TypeInv
  <1> SUFFICES ASSUME Init PROVE TypeInv
    OBVIOUS
  <1>1. sectors \in Buffer(Sector, SectorsPerBlock)
    BY Capacities, MetadataAssumption DEF Init, Buffer, MetaEntry
  <1>2. checksums \in Buffer(Checksum, ChecksumsPerBlock)
    BY Capacities, MetadataAssumption DEF Init, Buffer, MetaEntry
  <1>3. sector_checksum_map \in [MapSector -> Checksum]
    BY ZeroChecksumType DEF Init
  <1>4. DiskOK
    BY DEF Init, DiskOK
  <1> QED
    BY <1>1, <1>2, <1>3, <1>4, ZeroBlockType DEF Init, TypeInv, TypeOK, HandlerOwnsTwo, DiskOK

(* The type invariant of the write path; with it, every buffer always has   *)
(* a free slot, whatever fails.                                             *)
THEOREM TypeCorrect == Spec => []TypeOK
  <1>1. TypeInv => TypeOK
    BY DEF TypeInv
  <1> QED
    BY <1>1, TypeInit, TypeStep, PTL DEF Spec

-----------------------------------------------------------------------------
(* What a step may do to the chain, the cached block and the request.       *)

Progress ==
  /\ pc # "idle" /\ pc' # "idle"
  /\ UNCHANGED <<chain, last_entangled_block, req>>

Abort ==
  /\ pc # "idle" /\ pc' = "idle"
  /\ chain' = SubSeq(chain, 1, Len(chain) - 2)
  /\ UNCHANGED last_entangled_block

(* What each step does to the chain, the cached block and the request.      *)
LEMMA StepShapes ==
  ASSUME [Next]_vars
  PROVE  \/ \E s \in DataSector, d, page \in Block, m, n \in Beyond :
              StartWrite(s, d, page, m, n)
         \/ Progress
         \/ Abort
         \/ Submit
         \/ UNCHANGED <<chain, last_entangled_block, req, pc>>
  <1> USE DEF Progress, Abort, FlushFails
  <1>1. CASE AppendDataSector
    BY <1>1 DEF AppendDataSector, AppendSector
  <1>2. CASE AppendDataChecksum
    BY <1>2 DEF AppendDataChecksum
  <1>3. CASE AppendParitySector
    BY <1>3 DEF AppendParitySector, AppendSector
  <1>4. CASE AppendParityChecksum
    BY <1>4 DEF AppendParityChecksum
  <1>5. CASE UNCHANGED vars
    BY <1>5 DEF vars
  <1> QED
    BY <1>1, <1>2, <1>3, <1>4, <1>5 DEF Next

-----------------------------------------------------------------------------
(* Recoverable chains.                                                      *)

(* The content of the last entry is a block.                                *)
LEMMA TailType ==
  ASSUME NEW c \in Seq(ChainEntry)
  PROVE  TailContent(c) \in Block
  <1>1. CASE c = << >>
    BY <1>1, ZeroBlockType DEF TailContent
  <1>2. CASE c # << >>
    <2>1. Len(c) \in 1 .. Len(c)
      BY <1>2, EmptySeq
    <2>2. c[Len(c)] \in ChainEntry
      BY <2>1, ElementOfSeq
    <2> QED
      BY <1>2, <2>2 DEF TailContent, ChainEntry
  <1> QED
    BY <1>1, <1>2

(* As computed, each data block is the XOR of its two neighbours, the first *)
(* a copy of its parity, and each parity but the last is the XOR of the two *)
(* blocks after it (lines 969-975).                                         *)
Recoverable(c) ==
  \A i \in 1 .. Len(c) - 1 :
    IF i % 2 = 1
    THEN c[i].content =
           Xor(IF i = 1 THEN ZeroBlock ELSE c[i - 1].content, c[i + 1].content)
    ELSE i + 2 <= Len(c) => c[i].content = Xor(c[i + 1].content, c[i + 2].content)

(* A data block and its parity extend a recoverable chain.                  *)
LEMMA ExtendRecoverable ==
  ASSUME NEW c \in Seq(ChainEntry), Len(c) % 2 = 0, Recoverable(c),
         NEW a \in ChainEntry, NEW b \in ChainEntry,
         b.content = Xor(a.content, TailContent(c))
  PROVE  LET t == Append(Append(c, a), b) IN Len(t) % 2 = 0 /\ Recoverable(t)
  <1> DEFINE t == Append(Append(c, a), b)
             k == Len(c)
  <1>1. k \in Nat
    BY LenProperties
  <1>2. /\ Len(t) = k + 2
        /\ t[k + 1] = a
        /\ t[k + 2] = b
        /\ \A i \in 1 .. k : t[i] = c[i]
    BY AppendTwo
  <1>3. a.content \in Block /\ b.content \in Block /\ TailContent(c) \in Block
    BY TailType DEF ChainEntry
  <1>4. /\ a.content = Xor(TailContent(c), b.content)
        /\ TailContent(c) = Xor(a.content, b.content)
    BY <1>3, XorCancels
  <1>5. TailContent(c) = IF k = 0 THEN ZeroBlock ELSE c[k].content
    BY <1>1, EmptySeq DEF TailContent
  <1>6. k % 2 = 0
    OBVIOUS
  <1> HIDE DEF t, k
  <1>7. ASSUME NEW i \in 1 .. Len(t) - 1
        PROVE  IF i % 2 = 1
               THEN t[i].content =
                      Xor(IF i = 1 THEN ZeroBlock ELSE t[i - 1].content, t[i + 1].content)
               ELSE i + 2 <= Len(t) =>
                      t[i].content = Xor(t[i + 1].content, t[i + 2].content)
    <2>1. CASE i = k + 1
      <3>1. i % 2 = 1 /\ t[i] = a /\ t[i + 1] = b /\ (i = 1 <=> k = 0)
        BY <2>1, <1>1, <1>2, <1>6
      <3>2. k # 0 => t[i - 1] = c[k]
        BY <2>1, <1>1, <1>2
      <3> QED
        BY <3>1, <3>2, <1>4, <1>5
    <2>2. CASE i = k
      <3>1. i % 2 # 1 /\ t[i] = c[k] /\ t[i + 1] = a /\ t[i + 2] = b /\ k # 0
        BY <2>2, <1>1, <1>2, <1>6
      <3> QED
        BY <3>1, <1>4, <1>5
    <2>3. CASE i \in 1 .. k - 1
      <3>1. /\ t[i] = c[i] /\ t[i + 1] = c[i + 1]
            /\ i # 1 => t[i - 1] = c[i - 1]
            /\ i + 2 <= k => t[i + 2] = c[i + 2]
        <4>1. i \in 1 .. k /\ i + 1 \in 1 .. k
          BY <2>3, <1>1
        <4>2. i # 1 => i - 1 \in 1 .. k
          BY <2>3, <1>1
        <4>3. i + 2 <= k => i + 2 \in 1 .. k
          BY <2>3, <1>1
        <4> QED
          BY <4>1, <4>2, <4>3, <1>2
      <3>2. i % 2 # 1 => i + 2 <= k
        BY <2>3, <1>1, <1>6
      <3> QED
        BY <3>1, <3>2, <2>3 DEF Recoverable, k
    <2> QED
      BY <2>1, <2>2, <2>3, <1>1, <1>2
  <1>8. Recoverable(t)
    BY <1>7 DEF Recoverable
  <1>9. Len(t) % 2 = 0
    BY <1>1, <1>2, <1>6
  <1> QED
    BY <1>8, <1>9 DEF t

(* A recoverable chain without its last two blocks is recoverable.          *)
LEMMA PrefixRecoverable ==
  ASSUME NEW c \in Seq(ChainEntry), Len(c) >= 2, Len(c) % 2 = 0, Recoverable(c)
  PROVE  LET t == SubSeq(c, 1, Len(c) - 2) IN Len(t) % 2 = 0 /\ Recoverable(t)
  <1> DEFINE t == SubSeq(c, 1, Len(c) - 2)
             k == Len(c)
  <1>1. k \in Nat
    BY LenProperties
  <1>2. /\ Len(t) = k - 2
        /\ \A i \in 1 .. k - 2 : t[i] = c[i]
    BY DropTwo
  <1>3. k >= 2 /\ k % 2 = 0
    OBVIOUS
  <1>4. Recoverable(c)
    OBVIOUS
  <1> HIDE DEF t
  <1>5. ASSUME NEW i \in 1 .. Len(t) - 1
        PROVE  IF i % 2 = 1
               THEN t[i].content =
                      Xor(IF i = 1 THEN ZeroBlock ELSE t[i - 1].content, t[i + 1].content)
               ELSE i + 2 <= Len(t) =>
                      t[i].content = Xor(t[i + 1].content, t[i + 2].content)
    <2>1. /\ t[i] = c[i] /\ t[i + 1] = c[i + 1]
          /\ i # 1 => t[i - 1] = c[i - 1]
          /\ i + 2 <= Len(t) => t[i + 2] = c[i + 2] /\ i + 2 <= Len(c)
          /\ i \in 1 .. Len(c) - 1
      <3> HIDE DEF k
      <3>1. i \in 1 .. k - 3
        BY <1>1, <1>2
      <3>2. i \in 1 .. k - 2 /\ i + 1 \in 1 .. k - 2
        BY <1>1, <3>1
      <3>3. i # 1 => i - 1 \in 1 .. k - 2
        BY <1>1, <3>1
      <3>4. i + 2 <= k - 2 => i + 2 \in 1 .. k - 2 /\ i + 2 <= k
        BY <1>1, <3>1
      <3>5. i \in 1 .. k - 1
        BY <1>1, <3>1
      <3> QED
        BY <1>2, <3>2, <3>3, <3>4, <3>5 DEF k
    <2>2. IF i % 2 = 1
          THEN c[i].content =
                 Xor(IF i = 1 THEN ZeroBlock ELSE c[i - 1].content, c[i + 1].content)
          ELSE i + 2 <= Len(c) => c[i].content = Xor(c[i + 1].content, c[i + 2].content)
      BY <2>1, <1>4 DEF Recoverable
    <2>3. CASE i % 2 = 1
      BY <2>1, <2>2, <2>3
    <2>4. CASE i % 2 # 1
      BY <2>1, <2>2, <2>4
    <2> QED
      BY <2>3, <2>4
  <1>6. Len(t) % 2 = 0
    BY <1>1, <1>2, <1>3
  <1> QED
    BY <1>5, <1>6 DEF Recoverable, t

-----------------------------------------------------------------------------
(* The chain and the cached block.                                          *)

ChainIsRecoverable == Len(chain) % 2 = 0 /\ Recoverable(chain)

ChainInv ==
  TypeInv /\ NewBlocksAreLast /\ LastBlockIsChainTail /\ ChainIsRecoverable

(* The empty chain satisfies the invariant of the chain.                    *)
LEMMA ChainInit == Init => ChainInv
  <1> SUFFICES ASSUME Init PROVE ChainInv
    OBVIOUS
  <1>1. chain = << >> /\ pc = "idle" /\ last_entangled_block = ZeroBlock
    BY DEF Init
  <1>2. Len(chain) = 0
    BY <1>1, EmptySeq
  <1>3. Len(chain) % 2 = 0 /\ 1 .. Len(chain) - 1 = {}
    BY <1>2
  <1> QED
    BY <1>1, <1>3, TypeInit
    DEF ChainInv, NewBlocksAreLast, LastBlockIsChainTail, ChainIsRecoverable,
        Recoverable, Committed, TailContent

(* Every step keeps the invariant of the chain.                             *)
LEMMA ChainStep == ChainInv /\ [Next]_vars => ChainInv'
  <1> SUFFICES ASSUME ChainInv, [Next]_vars PROVE ChainInv'
    OBVIOUS
  <1>1. TypeInv'
    BY TypeStep DEF ChainInv
  <1>2. chain \in Seq(ChainEntry) /\ Len(chain) \in Nat /\ last_entangled_block \in Block
    BY LenProperties DEF ChainInv, TypeInv, TypeOK
  <1>3. ASSUME NEW s \in DataSector, NEW d \in Block, NEW page \in Block,
               NEW m \in Beyond, NEW n \in Beyond,
               StartWrite(s, d, page, m, n)
        PROVE  ChainInv'
    <2> DEFINE p == NextParity(d, last_entangled_block)
               a == Entry(s, d, m)
               b == Entry(ParitySector(s), p, n)
    <2>1. /\ pc = "idle" /\ pc' = "dataSector"
          /\ req'.sector = s /\ req'.data = d /\ req'.parity = p
          /\ chain' = Append(Append(chain, a), b)
          /\ last_entangled_block' = last_entangled_block
      BY <1>3 DEF StartWrite
    <2>2. /\ p \in Block /\ p = Xor(d, last_entangled_block)
          /\ a \in ChainEntry /\ b \in ChainEntry
          /\ a.content = d /\ b.content = p
      <3>1. p \in Block /\ p = Xor(d, last_entangled_block)
        BY <1>2, NextParityIsXor
      <3>2. a \in ChainEntry /\ b \in ChainEntry
        BY <3>1, EntryType, SectorType
      <3>3. a.content = d /\ b.content = p
        BY DEF Entry
      <3> QED
        BY <3>1, <3>2, <3>3
    <2>3. last_entangled_block = TailContent(chain)
      BY <2>1 DEF ChainInv, LastBlockIsChainTail, Committed
    <2>4. /\ Len(chain') = Len(chain) + 2
          /\ chain'[Len(chain) + 1] = a /\ chain'[Len(chain) + 2] = b
          /\ SubSeq(chain', 1, Len(chain') - 2) = chain
      BY <1>2, <2>1, <2>2, AppendTwo
    <2>5. Len(chain') % 2 = 0 /\ Recoverable(chain')
      BY <1>2, <2>1, <2>2, <2>3, ExtendRecoverable DEF ChainInv, ChainIsRecoverable
    <2>6. NewData' = a /\ NewParity' = b /\ Len(chain') >= 2
      BY <1>2, <2>4 DEF NewData, NewParity
    <2>7. NewBlocksAreLast'
      BY <2>1, <2>6 DEF NewBlocksAreLast
    <2>8. LastBlockIsChainTail'
      BY <2>1, <2>3, <2>4 DEF LastBlockIsChainTail, Committed
    <2> QED
      BY <1>1, <2>5, <2>7, <2>8 DEF ChainInv, ChainIsRecoverable
  <1>4. CASE Progress
    BY <1>1, <1>4
    DEF Progress, ChainInv, NewBlocksAreLast, LastBlockIsChainTail, ChainIsRecoverable,
        Committed, NewData, NewParity
  <1>5. CASE Abort
    <2>1. Len(chain) >= 2 /\ Committed = chain' /\ Committed' = chain'
      BY <1>5 DEF Abort, Committed, ChainInv, NewBlocksAreLast
    <2>2. Len(chain') % 2 = 0 /\ Recoverable(chain')
      BY <1>2, <1>5, <2>1, PrefixRecoverable DEF Abort, ChainInv, ChainIsRecoverable
    <2> QED
      BY <1>1, <1>5, <2>1, <2>2
      DEF Abort, ChainInv, NewBlocksAreLast, LastBlockIsChainTail, ChainIsRecoverable
  <1>6. CASE Submit
    <2>1. /\ pc = "submit" /\ pc' = "idle" /\ chain' = chain
          /\ last_entangled_block' = req.parity
      BY <1>6 DEF Submit
    <2>2. Len(chain) >= 2 /\ NewParity.content = req.parity
      BY <2>1 DEF ChainInv, NewBlocksAreLast, Entry
    <2>3. TailContent(chain) = req.parity
      BY <1>2, <2>2, EmptySeq DEF TailContent, NewParity
    <2> QED
      BY <1>1, <2>1, <2>3
      DEF ChainInv, NewBlocksAreLast, LastBlockIsChainTail, ChainIsRecoverable, Committed
  <1>7. CASE UNCHANGED <<chain, last_entangled_block, req, pc>>
    BY <1>1, <1>7
    DEF ChainInv, NewBlocksAreLast, LastBlockIsChainTail, ChainIsRecoverable,
        Committed, NewData, NewParity
  <1> QED
    BY <1>3, <1>4, <1>5, <1>6, <1>7, StepShapes

(* The invariant of the chain holds in every reachable state.               *)
LEMMA ChainInvariant == Spec => []ChainInv
  BY ChainInit, ChainStep, PTL DEF Spec

(* The cached block is the tail of the chain, whatever flushes fail.        *)
THEOREM LastBlockCorrect == Spec => []LastBlockIsChainTail
  <1>1. ChainInv => LastBlockIsChainTail
    BY DEF ChainInv
  <1> QED
    BY <1>1, ChainInvariant, PTL

-----------------------------------------------------------------------------
(* Refinement.                                                              *)

(* The write path implements EntanglementLog: submitting the two bios is    *)
(* the step that extends the log, every other step stutters.                *)
THEOREM Refinement == Spec => ImplementsLog
  <1> USE DEF Log!Entry, Log!ParitySector, Log!TailContent, Log!Xor, Log!crc32b,
              Log!CrcInput, Log!ZeroBlock, Log!Position, Log!Block
  <1>1. Init => Log!Init
    BY DEF Init, Log!Init, Committed
  <1>2. ChainInv /\ [Next]_vars => [Log!Next]_Committed
    <2> SUFFICES ASSUME ChainInv, [Next]_vars, Committed' # Committed
                 PROVE  Log!Next
      OBVIOUS
    <2>1. chain \in Seq(ChainEntry) /\ Len(chain) \in Nat /\ last_entangled_block \in Block
      BY LenProperties DEF ChainInv, TypeInv, TypeOK
    <2>2. ASSUME NEW s \in DataSector, NEW d \in Block, NEW page \in Block,
                 NEW m \in Beyond, NEW n \in Beyond,
                 StartWrite(s, d, page, m, n)
          PROVE  FALSE
      <3> DEFINE p == NextParity(d, last_entangled_block)
      <3>1. /\ Entry(s, d, m) \in ChainEntry
            /\ Entry(ParitySector(s), p, n) \in ChainEntry
        BY <2>1, NextParityIsXor, EntryType, SectorType
      <3>2. /\ pc = "idle" /\ pc' = "dataSector"
            /\ chain' = Append(Append(chain, Entry(s, d, m)), Entry(ParitySector(s), p, n))
        BY <2>2 DEF StartWrite
      <3>3. SubSeq(chain', 1, Len(chain') - 2) = chain
        BY <2>1, <3>1, <3>2, AppendTwo
      <3> QED
        BY <3>2, <3>3 DEF Committed
    <2>3. CASE Progress
      BY <2>3 DEF Progress, Committed
    <2>4. CASE Abort
      BY <2>4 DEF Abort, Committed
    <2>5. CASE Submit
      <3>1. pc = "submit" /\ Committed' = chain /\ Committed = SubSeq(chain, 1, Len(chain) - 2)
        BY <2>5 DEF Submit, Committed
      <3>2. /\ req.sector \in DataSector /\ req.data \in Block
            /\ Len(chain) >= 2
        BY <3>1 DEF ChainInv, TypeInv, TypeOK, NewBlocksAreLast, Request
      <3>3. PICK m \in Beyond : NewData = Entry(req.sector, req.data, m)
        BY <3>1 DEF ChainInv, NewBlocksAreLast
      <3>4. PICK n \in Beyond : NewParity = Entry(ParitySector(req.sector), req.parity, n)
        BY <3>1 DEF ChainInv, NewBlocksAreLast
      <3>5. req.parity = Xor(req.data, TailContent(Committed))
        BY <2>1, <3>1, <3>2, NextParityIsXor
        DEF ChainInv, NewBlocksAreLast, LastBlockIsChainTail
      <3>6. chain = Append(Append(Committed, NewData), NewParity)
        BY <2>1, <3>1, <3>2, DropTwo DEF NewData, NewParity
      <3>7. Committed' = Append(Append(Committed, Entry(req.sector, req.data, m)),
                                Entry(ParitySector(req.sector),
                                      Xor(req.data, TailContent(Committed)), n))
        BY <3>1, <3>3, <3>4, <3>5, <3>6
      <3>8. Log!Extend(req.sector, req.data, m, n)
        BY <3>7 DEF Log!Extend, Entry, ParitySector, TailContent, Xor, crc32b,
                    CrcInput, ZeroBlock, Position
      <3> QED
        BY <3>2, <3>8 DEF Log!Next, Block, Position
    <2>6. CASE UNCHANGED <<chain, last_entangled_block, req, pc>>
      BY <2>6 DEF Committed
    <2> QED
      BY <2>2, <2>3, <2>4, <2>5, <2>6, StepShapes
  <1> QED
    BY <1>1, <1>2, ChainInvariant, PTL DEF Spec, ImplementsLog, Log!Spec

-----------------------------------------------------------------------------
(* The write at which a session oopses.                                     *)

(* The checksums the write in the handler has appended so far.              *)
Pending ==
  IF pc \in {"paritySector", "parityChecksum"} THEN 1
  ELSE IF pc = "submit" THEN 2 ELSE 0

(* How many checksums were appended, over one flush at most.                *)
CountInv ==
  failed = 0 /\ wild = 0 =>
    IF pc = "oops" THEN done = ChecksumsPerBlock - 1
    ELSE \/ /\ checksums.next = MetaStart + SectorBlocks
            /\ checksums.size = 2 * done + Pending
         \/ /\ checksums.next = MetaStart + SectorBlocks + 1
            /\ checksums.size + ChecksumsPerBlock - 1 = 2 * done + Pending

(* Every step keeps the relation of buffer sizes and completed writes.      *)
LEMMA CountStep == TypeInv /\ CountInv /\ [Next]_vars => CountInv'
  <1> SUFFICES ASSUME TypeInv, CountInv, [Next]_vars, failed' = 0, wild' = 0
               PROVE  CountInv'
    BY DEF CountInv
  <1> DEFINE C == ChecksumsPerBlock
  <1>0. /\ failed \in Nat /\ wild \in Nat /\ done \in Nat
        /\ checksums.size \in 0 .. C - 1 /\ checksums.next \in Nat
        /\ SectorsPerBlock \in Nat /\ C = 2 * SectorsPerBlock
        /\ MetaStart \in Nat /\ SectorBlocks \in Nat
    BY MetadataAssumption DEF TypeInv, TypeOK, Buffer, ChecksumsPerBlock
  <1> HIDE DEF C
  <1>1. ASSUME NEW m \in {sectors, checksums}, FlushFails(m)
        PROVE  FALSE
    BY <1>0, <1>1 DEF FlushFails
  <1>2. ASSUME NEW s \in DataSector, NEW d \in Block, NEW page \in Block,
               NEW m \in Beyond, NEW n \in Beyond,
               StartWrite(s, d, page, m, n)
        PROVE  CountInv'
    BY <1>0, <1>2 DEF StartWrite, CountInv, Pending, C
  <1>3. CASE AppendDataSector
    BY <1>0, <1>1, <1>3 DEF AppendDataSector, AppendSector, CountInv, Pending, C
  <1>4. CASE AppendDataChecksum
    <2>1. CASE /\ Fits(checksums, C)
               /\ checksums' = Stored(checksums, NewData.block_checksum)
               /\ pc' = "paritySector"
               /\ UNCHANGED <<failed, wild, done>>
      BY <1>0, <1>4, <2>1 DEF AppendDataChecksum, CountInv, Pending, Stored, C
    <2>2. CASE /\ ~Fits(checksums, C)
               /\ pc' = "oops"
               /\ UNCHANGED <<failed, wild, done>>
      <3>1. checksums.size = C - 1
        BY <1>0, <2>2 DEF Fits
      <3>2. done = C - 1
        BY <1>0, <1>4, <2>2, <3>1 DEF AppendDataChecksum, CountInv, Pending, C
      <3> QED
        BY <2>2, <3>2 DEF CountInv, C
    <2>3. wild' # wild + 1
      BY <1>0
    <2> QED
      BY <1>1, <1>4, <2>1, <2>2, <2>3 DEF AppendDataChecksum, C
  <1>5. CASE AppendParitySector
    BY <1>0, <1>1, <1>5 DEF AppendParitySector, AppendSector, CountInv, Pending, C
  <1>6. CASE AppendParityChecksum
    <2>1. CASE /\ Fits(checksums, C)
               /\ checksums' = Stored(checksums, NewParity.block_checksum)
               /\ pc' = "submit"
               /\ UNCHANGED <<failed, wild, done>>
      BY <1>0, <1>6, <2>1 DEF AppendParityChecksum, CountInv, Pending, Stored, C
    <2>2. CASE /\ ~Fits(checksums, C)
               /\ checksums' = Stored(ChecksumsReset, NewParity.block_checksum)
               /\ pc' = "submit"
               /\ UNCHANGED <<failed, wild, done>>
      <3>1. checksums.size = C - 1
        BY <1>0, <2>2 DEF Fits
      <3>2. checksums'.size = 1 /\ checksums'.next = checksums.next + 1
        BY <2>2 DEF Stored, ChecksumsReset, Reset
      <3>3. /\ checksums.next = MetaStart + SectorBlocks
            /\ C - 1 = 2 * done + 1
        BY <1>0, <1>6, <2>2, <3>1 DEF AppendParityChecksum, CountInv, Pending, C
      <3> QED
        BY <1>0, <2>2, <3>2, <3>3 DEF CountInv, Pending, C
    <2> QED
      BY <1>1, <1>6, <2>1, <2>2 DEF AppendParityChecksum, C
  <1>7. CASE Submit
    BY <1>0, <1>7 DEF Submit, CountInv, Pending, C
  <1>8. CASE UNCHANGED vars
    BY <1>8 DEF vars, CountInv, Pending
  <1> QED
    BY <1>2, <1>3, <1>4, <1>5, <1>6, <1>7, <1>8 DEF Next

(* With no failed flush and no wild read survived, every session oopses at  *)
(* the same write: its number is the number of checksums in a block.        *)
THEOREM OopsWrite == Spec => []OopsAtSecondChecksumFlush
  <1>1. Init => CountInv
    BY DEF Init, CountInv, Pending
  <1>2. TypeInv /\ CountInv => OopsAtSecondChecksumFlush
    <2> SUFFICES ASSUME TypeInv, CountInv, failed = 0, wild = 0
                 PROVE  /\ done < ChecksumsPerBlock
                        /\ pc = "oops" => done = ChecksumsPerBlock - 1
      BY DEF OopsAtSecondChecksumFlush
    <2>1. /\ done \in Nat /\ checksums.size \in 0 .. ChecksumsPerBlock - 1
          /\ ChecksumsPerBlock \in Nat
      BY Capacities DEF TypeInv, TypeOK, Buffer
    <2> QED
      BY <2>1 DEF CountInv, Pending
  <1> QED
    BY <1>1, <1>2, CountStep, TypeInit, TypeStep, PTL DEF Spec
-----------------------------------------------------------------------------
(* The map of checksums follows the chain, with parities that share their   *)
(* sector with data, and whatever flushes fail.  First, the entry of the    *)
(* chain a sector was last recorded in.                                     *)

IsLastOf(c, s, i) ==
  /\ i \in 1 .. Len(c)
  /\ c[i].block_sector = s
  /\ \A j \in 1 .. Len(c) : j > i => c[j].block_sector # s

NotIn(c, s) == \A i \in 1 .. Len(c) : c[i].block_sector # s

IsChecksumOf(x, b) == \E m \in Beyond : x = crc32b(b, m)

(* What MapTracksChain says, with the last entry named by its position      *)
(* instead of chosen.                                                       *)
MatchesAt(map, c, s) ==
  \/ NotIn(c, s) /\ map[s] = ZeroChecksum
  \/ \E i \in 1 .. Len(c) : IsLastOf(c, s, i) /\ IsChecksumOf(map[s], c[i].content)

MapMatches(map, c) == \A s \in MapSector : MatchesAt(map, c, s)

(* Two entries added to the chain, and their checksums put in the map in    *)
(* the same order, leave the map with the last checksum of each sector: of  *)
(* the parity, if it has the sector of its own data.                        *)
LEMMA ExtendMatches ==
  ASSUME NEW c \in Seq(ChainEntry), NEW map \in [MapSector -> Checksum],
         NEW a \in ChainEntry, NEW b \in ChainEntry,
         MapMatches(map, c),
         IsChecksumOf(a.block_checksum, a.content),
         IsChecksumOf(b.block_checksum, b.content)
  PROVE  MapMatches(Recorded(Recorded(map, a.block_sector, a.block_checksum),
                             b.block_sector, b.block_checksum),
                    Append(Append(c, a), b))
  <1> DEFINE t == Append(Append(c, a), b)
             new == Recorded(Recorded(map, a.block_sector, a.block_checksum),
                             b.block_sector, b.block_checksum)
             k == Len(c)
  <1>1. k \in Nat
    BY LenProperties
  <1>2. /\ Len(t) = k + 2
        /\ t[k + 1] = a
        /\ t[k + 2] = b
        /\ \A i \in 1 .. k : t[i] = c[i]
    BY AppendTwo
  <1>4. \A s \in MapSector :
          new[s] = IF s = b.block_sector THEN b.block_checksum
                   ELSE IF s = a.block_sector THEN a.block_checksum
                   ELSE map[s]
    BY DEF Recorded
  <1>5. MapMatches(map, c)
    OBVIOUS
  <1> HIDE DEF t, new
  <1>6. \A i \in 1 .. Len(t) : i \in 1 .. k \/ i = k + 1 \/ i = k + 2
    BY <1>1, <1>2
  <1>7. ASSUME NEW s \in MapSector PROVE MatchesAt(new, t, s)
    <2>1. CASE s = b.block_sector
      <3>1. k + 2 \in 1 .. Len(t) /\ \A j \in 1 .. Len(t) : ~(j > k + 2)
        BY <1>1, <1>2
      <3>2. IsLastOf(t, s, k + 2)
        BY <1>2, <2>1, <3>1 DEF IsLastOf
      <3>3. IsChecksumOf(new[s], t[k + 2].content)
        BY <1>2, <1>4, <2>1
      <3> QED
        BY <3>1, <3>2, <3>3 DEF MatchesAt
    <2>2. CASE s # b.block_sector /\ s = a.block_sector
      <3>1. k + 1 \in 1 .. Len(t) /\ \A j \in 1 .. Len(t) : j > k + 1 => j = k + 2
        BY <1>1, <1>2
      <3>2. IsLastOf(t, s, k + 1)
        BY <1>2, <2>2, <3>1 DEF IsLastOf
      <3>3. IsChecksumOf(new[s], t[k + 1].content)
        BY <1>2, <1>4, <2>2
      <3> QED
        BY <3>1, <3>2, <3>3 DEF MatchesAt
    <2>3. CASE s # b.block_sector /\ s # a.block_sector
      <3>1. new[s] = map[s]
        BY <1>4, <2>3
      <3>2. CASE NotIn(c, s) /\ map[s] = ZeroChecksum
        <4>1. NotIn(t, s)
          BY <1>2, <1>6, <2>3, <3>2 DEF NotIn, k
        <4> QED
          BY <3>1, <3>2, <4>1 DEF MatchesAt
      <3>3. ASSUME NEW i \in 1 .. k, IsLastOf(c, s, i), IsChecksumOf(map[s], c[i].content)
            PROVE  MatchesAt(new, t, s)
        <4>1. i \in 1 .. Len(t) /\ t[i] = c[i]
          BY <1>1, <1>2
        <4>2. IsLastOf(t, s, i)
          BY <1>2, <1>6, <2>3, <3>3, <4>1 DEF IsLastOf, k
        <4>3. IsChecksumOf(new[s], t[i].content)
          BY <3>1, <3>3, <4>1
        <4> QED
          BY <4>1, <4>2, <4>3 DEF MatchesAt
      <3> QED
        BY <1>5, <3>2, <3>3 DEF MapMatches, MatchesAt
    <2> QED
      BY <2>1, <2>2, <2>3
  <1>8. MapMatches(new, t)
    BY <1>7 DEF MapMatches
  <1> QED
    BY <1>8 DEF new, t

-----------------------------------------------------------------------------
(* While a write is in the handler the map still matches the chain without  *)
(* its two blocks, which is what a failed flush goes back to.               *)

MapInv == ChainInv /\ MapMatches(sector_checksum_map, Committed)

(* Only Submit changes the map.                                             *)
LEMMA OnlySubmitMaps ==
  ASSUME [Next]_vars
  PROVE  Submit \/ sector_checksum_map' = sector_checksum_map
  BY DEF Next, vars, StartWrite, AppendDataSector, AppendDataChecksum,
         AppendParitySector, AppendParityChecksum

(* Only Submit changes what is committed.                                   *)
LEMMA OnlySubmitCommits ==
  ASSUME ChainInv, [Next]_vars, ~Submit
  PROVE  Committed' = Committed
  <1>1. ASSUME NEW s \in DataSector, NEW d \in Block, NEW page \in Block,
               NEW m \in Beyond, NEW n \in Beyond,
               StartWrite(s, d, page, m, n)
        PROVE  Committed' = Committed
    <2> DEFINE p == NextParity(d, last_entangled_block)
    <2>1. chain \in Seq(ChainEntry) /\ p \in Block
      BY NextParityIsXor DEF ChainInv, TypeInv, TypeOK
    <2>2. Entry(s, d, m) \in ChainEntry /\ Entry(ParitySector(s), p, n) \in ChainEntry
      BY <2>1, EntryType, SectorType
    <2>3. /\ pc = "idle" /\ pc' = "dataSector"
          /\ chain' = Append(Append(chain, Entry(s, d, m)), Entry(ParitySector(s), p, n))
      BY <1>1 DEF StartWrite
    <2> HIDE DEF p
    <2>4. SubSeq(chain', 1, Len(chain') - 2) = chain
      BY <2>1, <2>2, <2>3, AppendTwo
    <2> QED
      BY <2>3, <2>4 DEF Committed
  <1>2. CASE Progress \/ Abort \/ UNCHANGED <<chain, last_entangled_block, req, pc>>
    BY <1>2 DEF Progress, Abort, Committed
  <1> QED
    BY <1>1, <1>2, StepShapes

(* The handler's exit takes the write it has done into the chain.           *)
LEMMA SubmitMatches ==
  ASSUME MapInv, Submit
  PROVE  MapMatches(sector_checksum_map', chain)
  <1> DEFINE c == SubSeq(chain, 1, Len(chain) - 2)
  <1>1. /\ pc = "submit"
        /\ TypeInv
        /\ chain \in Seq(ChainEntry) /\ Len(chain) >= 2
        /\ sector_checksum_map \in [MapSector -> Checksum]
    BY DEF Submit, MapInv, ChainInv, TypeInv, TypeOK, HandlerOwnsTwo
  <1>2. /\ c \in Seq(ChainEntry)
        /\ chain = Append(Append(c, NewData), NewParity)
    BY <1>1, DropTwo DEF NewData, NewParity
  <1>3. NewData \in ChainEntry /\ NewParity \in ChainEntry
    BY <1>1, TypeParts DEF NewOK
  <1>4. MapMatches(sector_checksum_map, c)
    BY <1>1 DEF MapInv, Committed
  <1>5. /\ NewData.block_sector = req.sector
        /\ NewParity.block_sector = ParitySector(req.sector)
        /\ IsChecksumOf(NewData.block_checksum, NewData.content)
        /\ IsChecksumOf(NewParity.block_checksum, NewParity.content)
    BY <1>1 DEF MapInv, ChainInv, NewBlocksAreLast, Entry, IsChecksumOf
  <1>6. sector_checksum_map' =
          Recorded(Recorded(sector_checksum_map, NewData.block_sector, NewData.block_checksum),
                   NewParity.block_sector, NewParity.block_checksum)
    BY <1>5 DEF Submit
  <1> HIDE DEF c
  <1> QED
    BY <1>1, <1>2, <1>3, <1>4, <1>5, <1>6, ExtendMatches

(* No sector is in the empty chain, and the map starts with zeros.          *)
LEMMA MapInit == Init => MapInv
  <1> SUFFICES ASSUME Init PROVE MapInv
    OBVIOUS
  <1>1. Committed = << >> /\ Len(<< >>) = 0
    BY EmptySeq DEF Init, Committed
  <1>2. \A s \in MapSector : NotIn(Committed, s) /\ sector_checksum_map[s] = ZeroChecksum
    BY <1>1 DEF Init, NotIn
  <1> QED
    BY <1>2, ChainInit DEF MapInv, MapMatches, MatchesAt

(* Every step keeps the map with the committed chain.                       *)
LEMMA MapStep == MapInv /\ [Next]_vars => MapInv'
  <1> SUFFICES ASSUME MapInv, [Next]_vars PROVE MapInv'
    OBVIOUS
  <1>1. ChainInv'
    BY ChainStep DEF MapInv
  <1>2. CASE Submit
    <2>1. Committed' = chain
      BY <1>2 DEF Submit, Committed
    <2>2. MapMatches(sector_checksum_map', Committed')
      BY <1>2, <2>1, SubmitMatches
    <2> QED
      BY <1>1, <2>2 DEF MapInv, MapMatches, MatchesAt
  <1>3. CASE ~Submit
    <2>1. sector_checksum_map' = sector_checksum_map
      BY <1>3, OnlySubmitMaps
    <2>2. Committed' = Committed
      BY <1>3, OnlySubmitCommits DEF MapInv
    <2> QED
      BY <1>1, <2>1, <2>2 DEF MapInv, MapMatches, MatchesAt, NotIn, IsLastOf
  <1> QED
    BY <1>2, <1>3

(* The position an entry's sector was last recorded at is the greatest.     *)
LEMMA LastIsChosen ==
  ASSUME NEW c \in Seq(ChainEntry), NEW s, NEW i \in 1 .. Len(c), IsLastOf(c, s, i)
  PROVE  LET at == {j \in 1 .. Len(c) : c[j].block_sector = s} IN
         i \in at /\ i = CHOOSE l \in at : \A j \in at : j <= l
  <1> DEFINE at == {j \in 1 .. Len(c) : c[j].block_sector = s}
  <1>1. Len(c) \in Nat
    BY LenProperties
  <1>2. i \in at /\ \A j \in at : j <= i
    BY <1>1 DEF IsLastOf
  <1>3. \A l \in at : (\A j \in at : j <= l) => l = i
    BY <1>1, <1>2
  <1> HIDE DEF at
  <1>4. (CHOOSE l \in at : \A j \in at : j <= l) = i
    BY <1>2, <1>3
  <1> QED
    BY <1>2, <1>4 DEF at

(* Between writes the map has, for each sector it has an entry for, a       *)
(* checksum of the content the chain last recorded for it.  A write that a failed flush took back   *)
(* has left no trace in it, and where the parity of one write has the       *)
(* sector of another's data, the later of the two is what the map has       *)
(* (lines 1085-1086).                                                       *)
THEOREM MapCorrect == Spec => []MapTracksChain
  <1>1. MapInv => MapTracksChain
    <2> SUFFICES ASSUME MapInv, pc = "idle", NEW s \in MapSector
                 PROVE  LET at == {i \in 1 .. Len(chain) : chain[i].block_sector = s} IN
                        IF at = {} THEN sector_checksum_map[s] = ZeroChecksum
                        ELSE LET last == CHOOSE i \in at : \A j \in at : j <= i
                             IN  \E m \in Beyond :
                                   sector_checksum_map[s] = crc32b(chain[last].content, m)
      BY DEF MapTracksChain
    <2> DEFINE at == {i \in 1 .. Len(chain) : chain[i].block_sector = s}
               last == CHOOSE i \in at : \A j \in at : j <= i
    <2>1. Committed = chain /\ chain \in Seq(ChainEntry)
      BY DEF Committed, MapInv, ChainInv, TypeInv, TypeOK
    <2>2. CASE NotIn(chain, s) /\ sector_checksum_map[s] = ZeroChecksum
      <3>1. at = {}
        BY <2>2 DEF NotIn
      <3> QED
        BY <2>2, <3>1
    <2>3. ASSUME NEW i \in 1 .. Len(chain), IsLastOf(chain, s, i),
                 IsChecksumOf(sector_checksum_map[s], chain[i].content)
          PROVE  at # {} /\ IsChecksumOf(sector_checksum_map[s], chain[last].content)
      <3>1. i \in at /\ i = last
        BY <2>1, <2>3, LastIsChosen
      <3> HIDE DEF at, last
      <3> QED
        BY <2>3, <3>1
    <2>4. MatchesAt(sector_checksum_map, chain, s)
      BY <2>1 DEF MapInv, MapMatches
    <2> HIDE DEF last, at
    <2>5. CASE ~(NotIn(chain, s) /\ sector_checksum_map[s] = ZeroChecksum)
      <3>1. at # {} /\ \E m \in Beyond :
                         sector_checksum_map[s] = crc32b(chain[last].content, m)
        BY <2>3, <2>4, <2>5 DEF MatchesAt, IsChecksumOf
      <3> QED
        BY <3>1 DEF at, last
    <2> QED
      BY <2>2, <2>5 DEF at, last
  <1>2. Spec => []MapInv
    BY MapInit, MapStep, PTL DEF Spec
  <1> QED
    BY <1>1, <1>2, PTL

-----------------------------------------------------------------------------
(* The disk has of each block that survives the bytes that were stored: all *)
(* of a data block, and of a parity those of a pointer's size.              *)
Agrees(b, c) == \A k \in 0 .. PtrBytes - 1 : b[k] = c[k]

Holds(d, c) ==
  \A i \in 1 .. Len(c) : Survives(c, i) => Agrees(d[c[i].block_sector], c[i].content)

(* Two entries added to the chain, and their blocks written in the same     *)
(* order: whatever sectors they have, what survives is on disk.             *)
LEMMA ExtendHolds ==
  ASSUME NEW c \in Seq(ChainEntry), NEW d \in [Sector -> Block],
         NEW a \in ChainEntry, NEW b \in ChainEntry, NEW x, NEW y,
         Holds(d, c), Agrees(x, a.content), Agrees(y, b.content)
  PROVE  Holds([[d EXCEPT ![a.block_sector] = x] EXCEPT ![b.block_sector] = y],
               Append(Append(c, a), b))
  <1> DEFINE t == Append(Append(c, a), b)
             new == [[d EXCEPT ![a.block_sector] = x] EXCEPT ![b.block_sector] = y]
             k == Len(c)
  <1>1. k \in Nat
    BY LenProperties
  <1>2. /\ Len(t) = k + 2
        /\ t[k + 1] = a
        /\ t[k + 2] = b
        /\ \A i \in 1 .. k : t[i] = c[i]
    BY AppendTwo
  <1>3. a.block_sector \in Sector /\ b.block_sector \in Sector
        /\ \A i \in 1 .. k : c[i].block_sector \in Sector
    <2>1. \A i \in 1 .. k : c[i] \in ChainEntry
      BY ElementOfSeq
    <2>2. \A e \in ChainEntry : e.block_sector \in Sector
      BY DEF ChainEntry
    <2> QED
      BY <2>1, <2>2
  <1>4. \A s \in Sector :
          new[s] = IF s = b.block_sector THEN y
                   ELSE IF s = a.block_sector THEN x ELSE d[s]
    BY <1>3
  <1>5. Holds(d, c)
    OBVIOUS
  <1> HIDE DEF t, new
  <1>6. ASSUME NEW i \in 1 .. Len(t), Survives(t, i)
        PROVE  Agrees(new[t[i].block_sector], t[i].content)
    <2>1. CASE i = k + 2
      BY <1>2, <1>3, <1>4, <2>1
    <2>2. CASE i = k + 1
      <3>1. b.block_sector # a.block_sector
        <4>1. k + 2 \in i + 1 .. Len(t)
          BY <1>1, <1>2, <2>2
        <4> QED
          BY <1>2, <1>6, <2>2, <4>1 DEF Survives
      <3> QED
        BY <1>2, <1>3, <1>4, <2>2, <3>1
    <2>3. CASE i \in 1 .. k
      <3>1. /\ t[i] = c[i] /\ k + 1 \in i + 1 .. Len(t) /\ k + 2 \in i + 1 .. Len(t)
            /\ \A j \in i + 1 .. k : j \in i + 1 .. Len(t) /\ j \in 1 .. k
        BY <1>1, <1>2, <2>3
      <3>2. /\ c[i].block_sector # a.block_sector /\ c[i].block_sector # b.block_sector
            /\ Survives(c, i)
        BY <1>2, <1>6, <3>1 DEF Survives, k
      <3>3. new[t[i].block_sector] = d[c[i].block_sector]
        BY <1>3, <1>4, <2>3, <3>1, <3>2
      <3> QED
        BY <1>5, <2>3, <3>1, <3>2, <3>3 DEF Holds, k
    <2> QED
      BY <1>1, <1>2, <2>1, <2>2, <2>3
  <1>7. Holds(new, t)
    BY <1>6 DEF Holds
  <1> QED
    BY <1>7 DEF new, t

(* The page of the parity bio has the bytes of the parity that are stored.  *)
PageAgrees == pc # "idle" => Agrees(req.page, req.parity)

ContentInv == ChainInv /\ PageAgrees /\ Holds(disk, Committed)

LEMMA ContentInit == Init => ContentInv
  <1> SUFFICES ASSUME Init PROVE ContentInv
    OBVIOUS
  <1>1. Committed = << >> /\ Len(<< >>) = 0
    BY EmptySeq DEF Init, Committed
  <1> QED
    BY <1>1, ChainInit DEF ContentInv, Init, PageAgrees, Holds

(* The handler's exit writes the two blocks it took into the chain.         *)
LEMMA SubmitHolds ==
  ASSUME ContentInv, Submit
  PROVE  Holds(disk', chain)
  <1> DEFINE c == SubSeq(chain, 1, Len(chain) - 2)
  <1>1. /\ pc = "submit"
        /\ TypeInv
        /\ chain \in Seq(ChainEntry) /\ Len(chain) >= 2
        /\ disk \in [Sector -> Block]
    BY DEF Submit, ContentInv, ChainInv, TypeInv, TypeOK, HandlerOwnsTwo
  <1>2. /\ c \in Seq(ChainEntry)
        /\ chain = Append(Append(c, NewData), NewParity)
    BY <1>1, DropTwo DEF NewData, NewParity
  <1>3. NewData \in ChainEntry /\ NewParity \in ChainEntry
    BY <1>1, TypeParts DEF NewOK
  <1>4. Holds(disk, c)
    BY <1>1 DEF ContentInv, Committed
  <1>5. /\ NewData.block_sector = req.sector /\ NewData.content = req.data
        /\ NewParity.block_sector = ParitySector(req.sector) /\ NewParity.content = req.parity
    BY <1>1 DEF ContentInv, ChainInv, NewBlocksAreLast, Entry
  <1>6. Agrees(req.data, NewData.content) /\ Agrees(req.page, NewParity.content)
    BY <1>1, <1>5 DEF ContentInv, PageAgrees, Agrees
  <1>7. disk' = [[disk EXCEPT ![NewData.block_sector] = req.data]
                   EXCEPT ![NewParity.block_sector] = req.page]
    BY <1>5 DEF Submit
  <1> HIDE DEF c
  <1> QED
    BY <1>1, <1>2, <1>3, <1>4, <1>6, <1>7, ExtendHolds

(* Only Submit writes to the disk, and only the start of a write fills its  *)
(* page.                                                                    *)
LEMMA OnlySubmitWrites ==
  ASSUME [Next]_vars
  PROVE  Submit \/ disk' = disk
  BY DEF Next, vars, StartWrite, AppendDataSector, AppendDataChecksum,
         AppendParitySector, AppendParityChecksum

LEMMA PageStep ==
  ASSUME PageAgrees, ChainInv, [Next]_vars
  PROVE  PageAgrees'
  <1>1. ASSUME NEW s \in DataSector, NEW d \in Block, NEW page \in Block,
               NEW m \in Beyond, NEW n \in Beyond,
               StartWrite(s, d, page, m, n)
        PROVE  PageAgrees'
    <2> DEFINE p == NextParity(d, last_entangled_block)
    <2>1. req'.parity = p /\ req'.page = MemcpyPtrSize(page, p)
      BY <1>1 DEF StartWrite
    <2> HIDE DEF p
    <2>2. \A k \in 0 .. PtrBytes - 1 : k \in Position /\ k < PtrBytes
      BY SizeAssumption DEF Position
    <2> QED
      BY <2>1, <2>2 DEF PageAgrees, Agrees, MemcpyPtrSize
  <1>2. CASE Progress
    BY <1>2 DEF Progress, PageAgrees, Agrees
  <1>3. CASE Abort
    BY <1>3 DEF Abort, PageAgrees
  <1>4. CASE Submit
    BY <1>4 DEF Submit, PageAgrees
  <1>5. CASE UNCHANGED <<chain, last_entangled_block, req, pc>>
    BY <1>5 DEF PageAgrees, Agrees
  <1> QED
    BY <1>1, <1>2, <1>3, <1>4, <1>5, StepShapes

LEMMA ContentStep == ContentInv /\ [Next]_vars => ContentInv'
  <1> SUFFICES ASSUME ContentInv, [Next]_vars PROVE ContentInv'
    OBVIOUS
  <1>1. ChainInv' /\ PageAgrees'
    BY ChainStep, PageStep DEF ContentInv
  <1>2. CASE Submit
    <2>1. Committed' = chain
      BY <1>2 DEF Submit, Committed
    <2>2. Holds(disk', Committed')
      BY <1>2, <2>1, SubmitHolds
    <2> QED
      BY <1>1, <2>2 DEF ContentInv, Holds, Survives, Agrees
  <1>3. CASE ~Submit
    <2>1. disk' = disk
      BY <1>3, OnlySubmitWrites
    <2>2. Committed' = Committed
      BY <1>3, OnlySubmitCommits DEF ContentInv
    <2> QED
      BY <1>1, <2>1, <2>2 DEF ContentInv, Holds, Survives, Agrees
  <1> QED
    BY <1>2, <1>3

(* For blocks of any size, and writes of any sectors: a data block that     *)
(* survives on disk with both its neighbours can be recomputed from them,   *)
(* as far as parities are stored, whatever flushes failed in between.       *)
THEOREM RecoverableCorrect == Spec => []SurvivingBlocksAreRecoverable
  <1>1. ContentInv => SurvivingBlocksAreRecoverable
    <2> DEFINE c == Committed
               left(i) == IF i = 1 THEN ZeroBlock ELSE OnDevice(i - 1)
    <2> SUFFICES ASSUME ContentInv, NEW i \in 1 .. Len(c) - 1, i % 2 = 1,
                        \A j \in {i - 1, i, i + 1} \ {0} : Survives(c, j),
                        NEW k \in 0 .. PtrBytes - 1
                 PROVE  OnDevice(i)[k] = XorByte(left(i)[k], OnDevice(i + 1)[k])
      BY DEF SurvivingBlocksAreRecoverable
    <2>1. c \in Seq(ChainEntry) /\ Recoverable(c)
      <3>1. chain \in Seq(ChainEntry) /\ Len(chain) % 2 = 0 /\ Recoverable(chain)
        BY DEF ContentInv, ChainInv, TypeInv, TypeOK, ChainIsRecoverable
      <3>2. CASE pc = "idle"
        BY <3>1, <3>2 DEF Committed
      <3>3. CASE pc # "idle"
        <4>1. Len(chain) >= 2 /\ c = SubSeq(chain, 1, Len(chain) - 2)
          BY <3>3 DEF ContentInv, ChainInv, NewBlocksAreLast, Committed
        <4> HIDE DEF c
        <4>2. Recoverable(c)
          BY <3>1, <4>1, PrefixRecoverable
        <4>3. c \in Seq(ChainEntry)
          BY <3>1, <4>1, DropTwo
        <4> QED
          BY <4>2, <4>3
      <3> QED
        BY <3>2, <3>3
    <2>2. /\ Len(c) \in Nat /\ i \in 1 .. Len(c) /\ i + 1 \in 1 .. Len(c)
          /\ i # 1 => i - 1 \in 1 .. Len(c) /\ i - 1 # 0
          /\ i # 0 /\ i + 1 # 0
      BY <2>1, LenProperties
    <2>3. Holds(disk, c)
      BY DEF ContentInv
    <2>4. ASSUME NEW j \in 1 .. Len(c), Survives(c, j)
          PROVE  OnDevice(j)[k] = c[j].content[k]
      BY <2>3, <2>4 DEF Holds, Agrees, OnDevice
    <2>5. OnDevice(i)[k] = c[i].content[k] /\ OnDevice(i + 1)[k] = c[i + 1].content[k]
      BY <2>2, <2>4
    <2>6. i # 1 => OnDevice(i - 1)[k] = c[i - 1].content[k]
      BY <2>2, <2>4
    <2>7. c[i].content = Xor(IF i = 1 THEN ZeroBlock ELSE c[i - 1].content, c[i + 1].content)
      BY <2>1 DEF Recoverable
    <2>8. k \in Position
      BY SizeAssumption DEF Position
    <2>9. \A a, b : Xor(a, b)[k] = XorByte(a[k], b[k])
      BY <2>8 DEF Xor
    <2> HIDE DEF c
    <2>10. CASE i = 1
      BY <2>5, <2>7, <2>9, <2>10
    <2>11. CASE i # 1
      BY <2>5, <2>6, <2>7, <2>9, <2>11
    <2> QED
      BY <2>10, <2>11
  <1>2. Spec => []ContentInv
    BY ContentInit, ContentStep, PTL DEF Spec
  <1> QED
    BY <1>1, <1>2, PTL
=============================================================================

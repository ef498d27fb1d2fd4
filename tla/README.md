# A TLA+ model of the entanglement device-mapper target

The repository holds a Linux device-mapper target, `entanglement`, that stores
each block it is given together with a parity. Data and parities form one chain,
`d1 p1 d2 p2 ...`, where `p(i) = d(i) XOR p(i-1)`. A block that is lost can be
computed from its neighbours in the chain. The list of sectors and checksums that
describes the chain is kept in a metadata area on the same device. This directory
models that program in TLA+, checks the models with TLC and proves theorems about
them with TLAPS.

Paths without a directory below are in `src/dm_ent/`. "The report" is
`src/report/thesis.tex`.

## 1. Inventory

| Part | Where | State | Operations | Model |
|---|---|---|---|---|
| Blocks, XOR, checksum | `utils.h`, `target.c:969-977` | none | XOR loop, `is_buffer_empty`, `memcpy` of pointer size, `crc32b` | `Blocks` |
| Write path | `target.c:856-1125` | list `entanglement`, `last_entangled_block`, two metadata buffers with their sizes and next blocks, `sector_checksum_map`, `metadata_buffers_lock` | `process_write_bio`, `flush_metadata` | `WritePath`, `EntanglementLog` |
| Geometry and addressing | `target.c:648-675`, `utils.h:18-51`, `user_app/main.c:275-372` | geometry fields of `struct entanglement_device` | constructor arithmetic, sector arithmetic of each kind of I/O | `Layout` |
| Bio lifecycle | `target.c:798-854, 902-1158` | references on bios, page pool, lock, requests under way | `map`, `process_read_bio`, `process_write_bio`, three `end_io` callbacks | `BioLifecycle` |
| Repair | `target.c:295-574` | list, `corrupted_blocks` and `irrecoverable_blocks` bitmaps | `repair_corrupted_blocks`, `repair_block`, `repair_block_rec` | `Repair` |
| Search for corruption | `target.c:576-623` | map, bitmap, both locks | `check_corruption` | `Startup` |
| Simulated corruption | `target.c:55-103` | device contents | `corrupt_blocks` | `Startup` |
| Session | `target.c:105-292` | everything that survives a close | `load_...`, `store_entanglement_and_checksums` | `Session` |
| Constructor, destructor | `target.c:625-793` | allocations, reference on the device | `entanglement_tgt_ctr`, `entanglement_tgt_dtr` | `Lifecycle`; the geometry in `Layout` |
| Module init, exit | `target.c:1198-1240` | bioset, page pool, registration | `dm_entanglement_init`, `_exit` | `Lifecycle` |
| User application | `user_app/main.c` | none | create and destroy the device | `Lifecycle`; its size arithmetic in `Layout` |
| Queue limits | `target.c:1160-1183` | none | `io_hints`, `iterate_devices` | not modelled, constants only |
| Logging, report, scripts | | none | | not modelled, no logic |

How they interact. The application measures the disk and asks device-mapper for
a virtual device of half its size; device-mapper calls the constructor, which
divides the disk, loads the metadata of the last session, simulates corruption if
asked to, looks for corrupted blocks and repairs them. From then on the block
layer calls `map` for each bio, from as many threads as there are submitters. A
read is cloned and passed on. A write takes `metadata_buffers_lock`, is appended
to the chain and to the metadata buffers, flushes a full buffer synchronously,
and then becomes two requests. The block layer parks what is submitted inside `map`
and issues it when `map` has returned, after the lock was released; completions run
as callbacks in any order.
The destructor stores what is left in the buffers.

What is hard here, and what makes it correct:

- *A write changes five things.* The list, the cached last block, two buffers
  that fill at different rates, and the map must agree whatever flush fails in
  between. Correct means: the cached block is the tail of the list, a block that is on
  disk with its neighbours is their XOR, the logs list the chain in order, the map has
  the checksum last written.
- *The logs are written in whole blocks with a slot to spare.* Off-by-one errors
  would lose, repeat or overrun an entry, and a retried flush must not change a
  block that is on disk.
- *Addresses come in 512-byte sectors and in 4096-byte blocks* and the code adds
  the one to the other. Correct means: areas do not overlap and requests stay on
  the device. That a write destroys no other block's parity is not so (section 3);
  that no parity destroys data written before it is what the arithmetic leaves.
- *A write becomes two requests*, completed in any order, each of which may
  fail. Correct means: each request has its reference, pages return to the pool, every
  bio is answered, and the device sees the writes that are in the chain and no others.
- *Repair walks a circular list in two directions* under bitmaps it changes as
  it goes. Correct means: no block that was not rebuilt loses its bit, no
  corrupted block is forgotten, and the walk ends before the list head.
- *Closing and reopening* goes through a format whose reader and writer disagree,
  and a crash may come at any point. Correct means: what was flushed stays on
  disk, in order, whatever later sessions do, and the loaded list follows it.
- *Every allocation and call of the constructor may fail*, and so may every step
  of loading the module. Correct means: nothing is held without a device but what is
  known to leak, a device lacks nothing, pools outlive the target, and a command's
  result is true.

`PROJECT.json` lists the hazards one by one, each at its line.

## 2. Modules

    Blocks ---+---- EntanglementLog            what a chain promises
              |            ^
              |            | refinement (log <- Committed)
              +------- WritePath ---- MCWritePath   WritePathProofs <- DriftProofs
              |            ^                                       <- LogProofs
              |            | EXTENDS, its Next is a step of a session      ^
              |         Session ----- MCSession     SessionProofs ---------+
              |
    Repair ---+---- MCRepair
         ^    |
         |    |  EXTENDS both, Repair's Next is a step of the constructor
         +- Startup ----------------- MCStartup     RepairProofs
    Layout                            (a run's module itself)   LayoutProofs
    BioLifecycle -------------------- MCBioLifecycle            BioProofs
    Lifecycle                         (a run's module itself)   LifecycleProofs

**Blocks.** A block is a function from positions to bytes. Bytes and XOR are
constants: all the target relies on is that XOR is a commutative group operation
where each byte is its own inverse (`ByteAssumption`). `memcpy(dst, src,
sizeof(src))` is `MemcpyPtrSize`, which replaces the first `PtrBytes` positions.
`crc32b` takes no length and stops at the first zero byte, or runs past the
block: its value is the input it reads, including a constant `Beyond` for what
lies after the block. So two blocks with the same prefix up to a zero byte have
the same checksum in the model, as in the code.

**EntanglementLog.** The abstract specification: a log that only grows, by a data
block and its parity at a time.

**WritePath.** `process_write_bio` from the lock to the unlock, and
`flush_metadata`. `chain` is the list, `sectors` and `checksums` are the two
buffers (content, size in entries, next block), `metaDisk` the metadata blocks
written. The lock is held throughout, so one program counter is enough; the
handler is split where it may block in a synchronous write:

| Action | Code |
|---|---|
| `StartWrite` | 949-1023: parity, copy to the page, two `list_add_tail` |
| `AppendDataSector` | 1026-1037 |
| `AppendDataChecksum` | 1039-1051, with the `memcpy` of a value as an address at 1049 |
| `AppendParitySector`, `AppendParityChecksum` | 1053-1079 |
| `FlushFails` (in each append) | 873-879, 1103-1105 |
| `Submit` | 1082-1100 |

A flush that fails may or may not have reached the disk. The wild `memcpy` faults
(`pc = "oops"`, lock held for ever) or copies an arbitrary entry (`wild`). A
buffer entry nothing wrote is `Unset`, since `kmalloc` does not clear; one that
`memset` reached is `Default`; `memset` reaches 8 bytes, that is one sector or two
checksums.

`content` of an entry of `chain` is history: what was computed for it. `disk` is what
the device has at each sector, the parities in the page they were submitted in; later
writes overwrite it. `Submit` writes both blocks at once and in order; other orders and
errors of the device are in `BioLifecycle`. `sector_checksum_map` has `MapEntries`
entries, `dev_size` in the code, and is indexed by 512-byte sector: `Recorded` keeps a
checksum if the map has an entry for the sector (`MapSector`). For all others the code
stores past the end of the array, which is taken to change no state of the target.

A flush is taken to return. Where the block layer parks the bio of the flush behind the
`map` that waits for it, it does not (`FlushHangs` of `BioLifecycle`): the handler
then stops at the flush with the lock held, which is a behaviour of `WritePath` that
goes no further. What the module says of the steps behind a flush is about the code
as written, with a flush that is answered.

**Layout.** The application's measurement, which may fail and goes on as a negative
size (`NotMeasured`); the geometry fields, in the arithmetic of `unsigned int`,
`dev_size` in that of `int` (`AsInt`); the size the application computes; and the
512-byte sectors that one request reaches: a write bio, a flush, a round of the loader
(`load_metadata`), a flush in a session that loaded (`flush_after_load`), and the block
of an entry of a loaded list (`entry_io`), of whose sector one byte is left. Sizes wrap
at `UintRange`. No field but itself is computed from `dev_size`.

**BioLifecycle.** One handler per bio, interleaved freely, and the device
completing requests in any order and failing some. `refs` counts `bio_get` minus
`bio_put`, `answers` is what the upper layer was told, `page` where the parity's
page is; `sub` follows the two bios of a write, which the error paths leak, and the
clone of a read.

- Handler steps are split at the lock and at its release. `NoPageForWrite` and
  `InterruptWrite` are the exits before it. `EnterFails` stands for the five allocations
  (two bios, a buffer, two entries) and the bio without data between the lock and the
  chain; the exit at 962 returns an `err` nothing set, so the bio may be ended once
  or twice. `AbortWrite` stands for the flushes that fail behind it, `OopsWrite` for the
  wild `memcpy` and for stores past the map that fault.
- What is submitted in `map` is `parked`: it goes to the list `current->bio_list` of the
  thread, and `Issue` gives it to the device, data before parity, when `map` has
  returned. By then the lock is free, so two threads may issue in another order than
  that of the chain. For the same reason a flush, which submits a bio and waits for it
  in `map` with the lock held, waits for ever (`FlushHangs`).
- A completion is as many steps as it has effects: `bio_put` of the original
  (`ReadCompletes`, `WriteCompletes`), then `bio_endio` of it (`ReadEnds`, `WriteEnds`),
  then `mempool_free` for a parity (`ParityPageFreed`).

Upper layers are external: they do not write a sector again before an earlier write of
it has been answered, and hold a reference on a bio until it is answered.

**Repair.** One iteration of the loop of `repair_corrupted_blocks` is one step: it
runs in the constructor, where nothing interleaves. `repair_block_rec` is a
recursive function of direction and position; a rebuilt block is recorded with
the two positions it is computed from, instead of its content. The list head,
which the code takes for a block when it walks that far, is a fault. A read or
write that fails is modelled for the root only, which is all that can happen as
the recursion never repairs (`OnlyRootsAreRebuilt`).

**Session.** `WritePath` in the phases of a device: `OpenNew` (the command `init`),
`load_entanglement_and_checksums` (`open`), any step of the write path, the
destructor, which stores the two buffers and may fail at each write, and `Crash` at
any point of a write. What is on `disk` outlives a session, the map does not. A
closed device has lost its memory; what the next session sees is `metaDisk`. The
loader is translated as it computes: all slots of all sector blocks become entries
of the list, each with the low byte of its sector, since its test for the end
compares a byte with a 64-bit value; the checksums are read from a block that no
session wrote to, so their values are `Unset`. The next block of sectors is the
first one of the log's checksums. `recorded` is the history of the sectors a new
device had in its chain.

**Startup.** What the constructor does between loading and accepting requests,
as the composition of `corrupt_blocks`, `check_corruption` and the repair pass of
`Repair`. The search looks at the sectors `Checked`, from `metadata_size` on below
`dev_size`. `disk` has the contents of blocks; the rebuilt blocks of `Repair`, which
are pairs of positions there, become contents here (`RebuiltOnDisk`). The map that
the search compares with is the cleared one, as nothing fills it before.

**Lifecycle.** Resources from `insmod` to `rmmod`. `have` are those of the module,
`held` the allocations of the constructor (`step` is the next one, or the next
call), `list` the blocks of the entanglement. `AllocationFails` and `CallFails`
free what the label the code jumps to frees (`ErrorLabel`); `dm_get_device`, the
second step, jumps into the middle of the ladder. A call that is interrupted in its
wait for a lock, and the destructor's store, keep the pages they have
(`CallInterrupted`, `PagesTaken`): `lost` counts pages, `interrupted` the waits. Today
nobody contends for these locks, as the device is not reachable while it is made or
removed, but the code handles the case. `app` is the command that runs;
it returns through `TaskFails`, an error path of the constructor, `CtrReturns` or
the destructor. Device-mapper and the module loader are external: a table needs a
registered target, a module in use is not removed, a device with a bio that never
ends is not destroyed.

A few operators are headed "Slip in X". They are X with a plausible mistake (a
dropped reset, a `<=` for a `<`, an unlock too early). No specification uses them;
putting one in the place of X shows that a property notices. `PROJECT.json`
("mutants") says which property each one breaks.

## 3. What the runs show

Passing runs. The longest, `write`, takes a minute or two.

| Run | Properties besides types | Bounds |
|---|---|---|
| `write` | `LastBlockIsChainTail`, `SurvivingBlocksAreRecoverable`, `SectorLogMatchesChain`, `ChecksumLogMatchesChain`, `MapTracksChain`, `LogsDriftOnlyByFailures`, `OopsAtSecondChecksumFlush`, `ChecksumsNeedHalfTheBlocks`, `FlushedBlocksAreFinal`, `ImplementsLog` | one-byte blocks over {0, 1}, two data sectors of which one is the other's parity sector, a map with entries for two of the three sectors, 3 sectors (so 6 checksums) to a metadata block, 6 writes, 2 failures: both buffers are flushed several times, and a session without failures reaches its oops at the 6th write |
| `layout` | `DivisionIsSound`, `RequestsStayOnDevice`, `ParityLandsAhead` | eleven sizes around the points where an area gets its first block, and a disk that cannot be measured; `UintRange` 4096 so that `dev_size * 3` wraps for the last two and `dev_size` is negative for the last; every byte as an entry of a loaded list; up to 4 flushes |
| `bio` | `IssuedWritesAreInChain`, `ReferencesBalance`, `OnlySecondEndTouchesFreed`, `PagesComeBack`, `AnswersAgree`, `ReadsAreAnswered`, `WritesAreAnswered` | two writes of different sectors and a read; lack of memory, interrupts, aborts, an oops, a flush that hangs, device errors |
| `startup` | `OopsOnlyOverFirstBlock`, `NoRootIsForgotten`, `OnlyRootsAreRebuilt`, `BitsFollowRepairs`, `OnlyMarkedBlocksAreRewritten`, `OneHitChangesChecksum`, `StartupEnds` | every list of 0, 2, 4 or 6 blocks over three sectors, every content of both bitmaps; blocks of two bits, of which one starts with a zero; corruption on lists of up to 2 |
| `session` | `FlushedSectorsSurvive`, `LoadFollowsTheLog`, `LaterSessionsKeepTheLog` | a sector area of two blocks of 3 slots, 6 writes, 1 failed flush, 3 sessions; four sectors fill the area, so that 6 writes of two sectors run over its end; `ByteRange` 4, so that the kept byte is not the sector |
| `lifecycle` | `TargetNeedsPools`, `NothingIsHeldWithoutDevice`, `ReturnTellsDevice`, `CommandsReturn` | 4 commands: create, a second create, close, create again; loading and removing the module without bound |

Why the bounds are enough. *Write path*: a write appends two entries to each
buffer, and a buffer's state is its fill level; 6 writes with blocks of 3 and 6
entries pass every fill level, and flush at each of the four appends. A failure
leaves one or two entries behind, which shifts the level; two failures give every
combination. Two bytes and blocks of one byte are enough for XOR to differ from
copying; that a short `memcpy` is short needs blocks of two (`write_parity`).
*Bios*: two writes contend for the lock while requests of the other are parked, in
flight or ending; `bio_order` has the two write one sector, which a stale completion
needs. `BioProofs` is about any number. *Startup*: a recursion looks two blocks to each
side, and six blocks give it room to recurse twice; what corruption does to one
block does not depend on the others, so short lists do for it. *Session*: a new
device, a reopening, and a session after that which finds what the reopened one
left; the area is filled and left within a session. *Lifecycle*: the state after a
command depends on the device and the module only, and 4 commands visit every
combination twice.

Fairness is assumed for liveness only.

- `BioLifecycle`: a thread that returned from `map` issues what it parked, and the
  device completes what it was given (weak fairness of each), a completion goes on, a
  thread that runs goes on, if only into `FlushHangs` (weak fairness of the handler's
  steps together, so nothing says that a flush returns), and a mutex that keeps being
  freed gets to each waiter (strong fairness of taking it; kernel mutexes hand off to a
  waiter that has waited too long). None for arrivals, interrupts or the choice to fail.
  `WritesAreAnswered` excepts the oops and the flush that hangs, after which the lock is
  never freed; reads are answered even then.
- `Startup`: one thread runs the constructor and its I/O is synchronous, so some
  step is taken (weak fairness of the whole). `StartupEnds` shows that the walks
  end.
- `Lifecycle`: the thread of an ioctl goes on (weak fairness of the constructor's
  steps and of the module's), and each ioctl is answered, unless the module died
  with device-mapper's lock. `CommandsReturn` excepts that and a thread that
  oopsed or hangs.

Deadlock is not checked except for `layout`: the other systems really end, when
the bounded number of writes or commands is done, the constructor has returned, or
a handler oopsed.

Runs that show a disagreement. Each states one sentence of a comment or of the
report and TLC finds a behaviour of the code that contradicts it; `PROJECT.json`
("findings") quotes the sentence.

| Run | What happens |
|---|---|
| `write_parity` | 8 bytes of the parity are copied to its page; the rest is what the pool's last user left |
| `bio_order` | a write is answered when one of its two requests is done, so its parity may land over that of a later write |
| `repair_both` | a block is rebuilt as the XOR of one neighbour with itself |
| `session_restores` | a close without an error stores one sector of the buffer, so the last sectors of the chain are missing after the next open |
| `session_userdata` | after a load the checksums go to a block in front of the metadata, among the user's data |
| `startup_unnoticed` | a block is corrupted, its checksum is another, and the search does not mark it: the map it compares with is empty, so it reads no block |

The models contain more that departs from what the comments or the report say, too
plain to need a run of its own; each is visible in the definition named:

- a failed checksum flush leaves its sector in the buffer, so that all later
  checksums are one off (`FlushFails`; `target.c:165, 1105`, thesis 131);
- after a checksum flush the ongoing checksum is not put in the buffer, as it is
  passed as an address (`AppendDataChecksum`; `target.c:1048-1049`);
- parities land among the data, an eighth of the way to the other half, since a
  number of blocks is added to a sector, and data is written over them: on a device of
  8192 blocks the parity of the block at sector 0 is at sector 4104, where a write of
  that sector destroys it. `ParityLandsAhead` says in which direction this cannot
  happen (`process_write_bio` of `Layout`; `target.c:987`, thesis 122);
- a sector that is written again, or overwritten in this way, leaves its old neighbours
  in the chain without what they were computed from, and nothing recomputes them
  (`Survives` of `WritePath`; thesis 102);
- of a parity 8 bytes are stored, so only those of a data block can be rebuilt
  (`SurvivingBlocksAreRecoverable`; `target.c:977`);
- requests reach the device after the lock is released, in an order that may not be that
  of the chain (`Issue`; `target.c:1094-1099`);
- the first flush, after 256 writes or so, waits for a bio that is parked behind it, with
  the lock held: no later write is answered, and none of the behaviour behind a flush is
  reached (`FlushHangs`; `target.c:873`, `utils.h:45`);
- a completion drops the reference before it ends the bio, and the bio is gone for
  upper layers with its first end: the second completion of a write may end freed memory
  (`OnlySecondEndTouchesFreed`; `target.c:839-840, 850-851`, for reads 802-803);
- a bio without data in memory leaves `map` with an `err` nothing set, possibly as a
  success after it was ended with an error, and its parity buffer is not freed
  (`EnterFails`; `target.c:961-963, 1109`);
- of a bio of several blocks only the first gets a parity (`MaxIoBlocks`;
  `target.c:748`, thesis 122);
- unused entries reach the disk uninitialised, because `memset` clears 8 bytes of a
  buffer `kmalloc` did not clear (`Reset`, `Flushed`; `target.c:20-22, 881, 706`);
- nothing compares `next_sector` with the size of its area, so the sector log runs
  on into the checksums (`Reset`; `target.c:885`); the area is too small for one
  entry per block where the division rounds down, one block for 688 on a device of
  700 (`Geometry`; `target.c:660`);
- the metadata lies inside the virtual device, whose size the application
  computes without it (`VirtualDeviceSize`; `user_app/main.c:336`, thesis 135);
- a parity straddles two blocks when `metadata_size` is not a multiple of 8
  (`process_write_bio` of `Layout`; `target.c:987`);
- the map of `dev_size` entries is indexed by 512-byte sector: for most sectors of a
  device the store is past its end (`MapSector`, `Recorded`; `target.c:690, 1085-1086`);
- `dev_size` is an `int`, negative from 2^31 blocks on, which the comparison at 597
  takes for a huge unsigned number, so that the search runs on past the map, and a
  product at 1181 overflows (`AsInt`; `device.h:14`);
- the application does not look at what `get_disk_size` returns and passes a negative
  size on (`NotMeasured`; `user_app/main.c:282-294, 326`);
- the metadata size wraps for devices of more than a third of 2^32 blocks
  (`MetadataSize`; `target.c:659`);
- repairing the first block of the list faults (`Right`; `target.c:457, 484`);
- a parity with an even sector is taken for a data block (`IsRoot`;
  `target.c:560-564`);
- a parity that good neighbours would restore is marked irrecoverable, since
  nothing but a deeper recursion sets `result_state` (`Unrepaired`;
  `target.c:299`, thesis 150-152);
- `bitmap_alloc` does not clear the irrecoverable bitmap, so the pass may skip a
  block it could repair (`InitialMarks`; `target.c:554`, thesis 162), nor the
  corrupted bitmap, so it may overwrite good blocks with zeros (`target.c:683`);
- a loaded list has every slot of the sector area, whatever was written, with one
  byte of each sector, which is then taken for the number of a 4096-byte block
  (`LoadedChain`; `target.c:168, 189`, thesis 142);
- the last block's content is read from the block that has the last slot's byte for
  its number (`load_entanglement_and_checksums` of `Session`; `target.c:210`);
- a session that loaded takes the first block of the earlier session's checksums for
  the next one of sectors: its first flush, or its close, overwrites that log, and its
  own sectors are where no later load looks (`LoadedSectors`; `target.c:206, 670`);
- with `corrupt_chance` so small that no block is hit, `corrupt_blocks` returns an
  `err` nothing set; the application passes it the address of its argument
  (`CorruptionEnds`, `Command`; `target.c:102`, `user_app/main.c:332`);
- every second block only is searched, as `sector` is advanced twice (`Checked`;
  `target.c:597, 612`, thesis 145);
- a `bioset_init` or a page pool that fails leads to unregistering a target that
  was never registered, which device-mapper takes for a BUG; a failed registration
  keeps bioset and pool (`InitFails`; `target.c:1224-1229`);
- the blocks of a list that was loaded are not freed if a later call fails, nor at
  close if storing fails (`LeakList`; `target.c:272-283, 758-776`), and
  `dm_put_device` is called with NULL after a failed `dm_get_device`
  (`target.c:678, 773`);
- a wait for a lock that is interrupted loses the pages taken before it
  (`InterruptWrite` for writes; `CallInterrupted` and the destructor of `Lifecycle` for
  `target.c:138, 274, 594`) and, in `corrupt_blocks`, a page that is not to be had
  leaves the lock taken, which is freed with the device (`CallFails`; `target.c:67-71`).

## 4. What is proved

The proofs hold for every value of the constants that satisfies the named
assumptions: any block size and set of bytes with a XOR, any set of sectors, any
size of a metadata block from two sectors on, any size of the map, any number of
failures; any set of device sizes below the range of `unsigned int`, whatever that
range is; any finite set of writes and any set of reads; any number of sessions; any
list of blocks and any content of the bitmaps.

`WritePathProofs`:

- `TypeCorrect`: types, with the part that matters: a buffer's size stays below
  its capacity, the last slot stays free. It is inductive as it stands, with
  lemmas on what `Stored` and `Reset` do to a buffer.
- `LastBlockCorrect`: not inductive, because a failed flush takes the last two blocks off
  again and one has to know which they are. `ChainInv` adds to it that while a write is
  in the handler the last two blocks are its own and were computed from the block before
  (`NewBlocksAreLast`), that the length is even, and that each data block of the chain,
  as it was computed, is the XOR of its neighbours (`Recoverable`). The algebra is in
  `XorCancels` and `NextParityIsXor` (the copy made when the last block is all
  zeros is the XOR as well); `AppendTwo` and `DropTwo` are about sequences.
- `RecoverableCorrect`: the same of what is on disk. `Recoverable` is about contents once
  computed; `ContentInv` ties them to the device: a block of the committed chain whose
  sector no later one was written to is at its sector, up to the bytes that are stored
  (`Agrees`, `Holds`), and so is the page of the write in the handler (`PageAgrees`).
  `ExtendHolds` is the step that overwrites: the two new blocks may have the sectors of
  earlier ones, or the parity that of the data, and exactly those stop surviving.
- `Refinement`: `Spec => ImplementsLog`. `Submit` maps to a step of the log, all
  other steps, failing ones included, to stuttering.
- `OopsWrite`: with no failure the number of completed writes is tied to the
  checksum buffer's size (`CountInv`), so the write that oopses is the
  `ChecksumsPerBlock`-th: the 1024th in the code.
- `MapCorrect`: the entries the map has match the chain, whichever stores miss it.
  The invariant `MapMatches` names the position a sector was last recorded at, where
  the property chooses it, and is about the chain without the write in the handler,
  so that a failed flush, which leaves the map alone, keeps it. `ExtendMatches` has
  the three cases: the sector is the parity's, the data's, or neither's; in the
  first the parity wins, even if data and parity share the sector.

`DriftProofs`, on top of these:

- `DriftBounded`: the two logs run ahead of the chain, and of each other, by what
  failures account for and no more. The property is about idle states; `DriftInv`
  says for each value of `pc` which entries of the write in the handler are already
  in the buffers. `LogGrows` is the arithmetic of appending and flushing.
- `HalfTheBlocks`: from the same invariant, that a block of checksums is flushed
  only after two of sectors. It needs a step of nonlinear arithmetic, split by hand.

`LogProofs`, on top of `DriftProofs`, about what is on disk. Its hypothesis
`[]InArea` is that the sector buffer has its next block in the sector area. Nothing
in the code checks that (see the list above), and where it fails the sector log
runs into the checksums, so the three properties do not hold without it. The `write`
run has an area large enough for its bound.

- `BlocksAreFinal`: a metadata block on disk never changes. `DiskInv` says that a
  block at the next position of a log is one a failed flush left, and that the buffer
  is then still full, with that content (`Left`); what keeps the two logs apart is
  the hypothesis.
- `SectorLogCorrect`, `ChecksumLogCorrect`: without failures the logs list the
  chain. `EntryPosition` and `NextPosition` are the arithmetic of finding entry i at
  slot `(i - 1) % used` of block `(i - 1) \div used`; `LogAppends`, `LogIsFlushed` and
  `LogIsElsewhere` say what an append, a flush and a write to another block do to
  what a log reads. `TurnOf` uses the lengths proved in `DriftProofs` to show that
  the entry a step appends is the one whose turn it is in the chain.

`SessionProofs`, on top of `LogProofs`:

- `LogIsKept`: a session that loaded never writes to the sector area. The invariant
  `SectorsGoBehind` says that such a session's sectors start at its end;
  `OnlyNextBlocks`, that a step writes to the next block of either buffer only.
- `SessionTypeCorrect`: types. A loaded list has entries that a write never makes
  (`LoadedEntry`), so the types of `WritePathProofs` hold only of a new device's
  chain (`NewDeviceTypes`), and `WriteTypes` shows again that every step of the write
  path keeps the weaker ones.
- `DurableSurvive`, `LoadCorrect`: what a new device flushed stays on disk, and every
  load finds it in order. One invariant, `SessionInv`, follows the log through the life
  of a device. While a new device is open, the log is half on disk and half in the
  buffer: `NewSession` has `DriftInv`, `Covered` and `SectorLog` of `LogProofs`, of
  which an own theorem could not be cited, since it is about the write path alone, and
  `NewKeeps` derives from them that the durable sectors are flushed. At all other times
  they are on disk (`Older`): neither what the destructor stores, nor a crash, which
  changes no block, nor a later session touches them (`DurableUntouched`). For a
  session that loaded, that needs two facts: its sectors go behind the area, and its
  checksums stay below it (`LoadSession`). The second is not a matter of the layout
  only: as writes append two checksums at a time, the second flush comes with a
  checksum of data, behind which line 1049 faults, so without a wild read at most two
  blocks are written (`FewChecksums`), and `SessionAssumption` leaves them room.
- Both are under the hypotheses of the properties, `failed = 0 /\ wild = 0`, counted
  over all sessions: after a failed flush the sectors of a block are no longer where
  the theorem looks for them, and a wild copy may be anything.

`SessionAssumption` says that the two values for an entry that is no sector, the
cleared one and the unknown one, are neither sectors nor each other; and that a device
with a block of sectors has its metadata behind block `2 * SectorBlocks + 2`. Real
devices have: the metadata is at most three blocks in 1024, at the end
(`MetadataIsSmall` of `LayoutProofs`), and it takes 683 blocks for a block of sectors.

`RepairProofs`, about `Repair` and `Startup`:

- The recursive function. `repair_block_rec` is defined as what satisfies an equation,
  and nothing can be said of it before there is such a function. `RecursionIsDefined`
  proves that there is one for every list, direction and bitmap: if not, there is a
  least number of steps to the end of the list for which no function does (`Least`,
  from the well-foundedness of `<`), and one more round of the equation makes one, as
  a call depends on the block two further on only (`CallUses`). So induction over the
  list is replaced by a least counterexample, which needs no operator parameter. The
  function that puts rebuilt blocks on disk has its witness spelt out
  (`NothingRebuilt`, `OneRebuilt`): no step rebuilds more than one.
- What it returns. `WalkGivesUp`, by a least counterexample again: a walk to the left
  from a corrupted block rebuilds nothing, marks corrupted blocks only, and ends in the
  fault only if the first block is corrupted. `RightReturns`: the walk to the right
  starts left of the root and stops at the root. `RootOutcome` puts the two together and
  `RepairShapes` states each step of the pass without the recursion.
- The invariant `StartupInv` has types; which values the two program counters have
  together (`Stages`); that a block hit once differs in its second byte (`Corrupted`);
  and that every block behind the cursor is dealt with (`Passed`), which
  `NoRootIsForgotten` says of the end only. A sector may be listed twice, so a step at
  one position must not undo what was done at another: bits of corrupted blocks are
  only cleared, marks only set.
- From it `StartupTypeCorrect`, `OopsOverFirstBlock`, `RootsAreHandled`,
  `OneHitIsSeen` (`HitIsSeen` is about the checksum alone: either the second byte is
  read before and after, with another value, or one of the two inputs ends before it),
  and, of steps, `RecursionRepairsNothing`, `BitsAreJustified` and
  `GoodBlocksAreKept`.

`LayoutProofs`:

- `TypeCorrect`, and `DivisionCorrect`: the constructor's areas are disjoint and
  on the device for every size, even where the multiplication wraps
  (`GeometryFits`, from `MetadataSizeBound`; `ModBound` is the step about `%`).
- `StayOnDevice`, `ParityIsAhead`: with `NothingBeforeCtr`, that no request
  precedes the constructor. For loads, `MetadataIsSmall` and `LoadedBlocks` bound
  the metadata of a device by its size: a device that has a block of sectors has at
  least 683 blocks, which is why a byte is always the number of a block on it. For
  `ParityIsAhead`, `ScaleBound` bounds the distance of a parity from below by the size of
  the device, whatever `metadata_size` wraps to.

`LifecycleProofs`: `TypeCorrect`, `PoolsOutliveTarget`, `NothingHeld`,
`CompleteDevice` (a device that is up has all its allocations, which no run asks) and
`ReturnsTell`, from one invariant `IInv`. What is added to the properties is the state in
between: `HeldSoFar`, that the constructor holds exactly the allocations before its
step, from which every error label empties it; `PagesAccounted`, that the pages lost are
at most two for each wait that was interrupted; `PoolsBeforeTarget`, which resources the
module has while it loads or unloads; `ConstructedByACommand`, that a constructor runs
only under a command that makes a device, which makes the result true.

`BioProofs`:

- `TypeCorrect`, `ReferencesCorrect`, `AnswersCorrect`, `EndsCorrect`, from one
  invariant `BioInv` about each bio by itself: for each place its handler can be at, how
  far its two requests are, parked, with the device, ending, done or given up
  (`RequestsInv`), hence how many references it holds (`RefsInv`: `Pending` is what a
  request counts; `CountHalves` turns the cardinality into a sum), what it was told and
  how often (`AnswersInv`: `Told` is the same of answers; `Says` is n times the same
  answer), and where its page is (`PageInv`). There is one lemma for each action. An
  action touches one bio, or that and the lock, and `OthersKeep` deals with all others
  at once.
- `IssuedCorrect` is about several bios at once, hence a second invariant, `OrderInv`: the
  lock is held by whoever is inside, who is the last of the chain (`LockInv`), and exactly
  the writes that entered and were not given up are in it, each at one place
  (`EnteredInv`). `AbortWriteInOrder` is the step that matters: what is taken off the
  end of the chain is the write that gives up, and no other.
- `PagesCorrect` needs both: a page lost to an interrupted wait is of a write that never
  got into the chain.

Only model-checked: liveness (`ReadsAreAnswered`, `WritesAreAnswered`, `StartupEnds`,
`CommandsReturn`), which is out of this prover's reach.

## 5. What is not modelled

- The CRC's collisions: two inputs `crc32b` reads differently are taken to differ.
- The memory of bios and requests: that the second completion of a write may end freed
  memory is `OnlySecondEndTouchesFreed`, what it then finds there is not modelled, nor
  is the read of a page after the last `bio_put` of its request (`target.c:843`).
- What a store past the end of `sector_checksum_map` does to the memory behind it, other
  than a fault (`OopsWrite` of `BioLifecycle`).
- The kernel stack: the recursion of the repair takes a frame for every two blocks of the
  list, and nothing bounds it.
- Flushes in their two roles at once: `BioLifecycle` has the one that never returns,
  `WritePath` and `Session` those that do.
- The order in which the device writes data and parities, in `WritePath`: it is that of
  the chain there, and any in `BioLifecycle`.
- Bios without data, which `map` passes on untouched.
- User data and parities that overwrite the metadata: `Session` takes the two to be
  apart. `MetadataStaysOffData` and the overlap named above say when they are not.
- A load that fails after it read part of the log: it leaves the disk as it was and
  no device (`CallFails` of `Lifecycle`), so it is no step of `Session`.
- Queue limits and iteration of devices, which set constants; logging; parsing of
  arguments; `ent_disk_writeSector` and `ent_disk_writeManySectors`, which nothing
  calls; scripts and build files.

## 6. What could follow

`EntanglementTarget`: write path, bios and layout composed, so that data written over
parities, stale completions and requests issued out of order meet the chain and a repair.

---------------------------- MODULE BioLifecycle ----------------------------
(***************************************************************************)
(* The life of the bios that reach entanglement_tgt_map: the references    *)
(* the target takes on them, the lock of the write path, the two requests  *)
(* a write becomes and the order in which the device completes them, and   *)
(* what upper layers are told.                                             *)
(*                                                                         *)
(* What a write does to the chain and the metadata is in WritePath; here a *)
(* write is in, or not in, the chain.  The block layer is external.  What  *)
(* is submitted inside map is parked on a list of the thread and issued    *)
(* only when map has returned, so a thread that waits in map for a request *)
(* of its own waits for ever.  Upper layers do not write a sector again    *)
(* before an earlier write of it is answered, hold a reference on a bio    *)
(* until it is answered, and device-mapper answers a bio for which map     *)
(* returns DM_MAPIO_KILL.                                                  *)
(***************************************************************************)
EXTENDS Naturals, Sequences, SequencesExt, FiniteSets

CONSTANTS
  Write,         \* write bios
  Read,          \* read bios
  Sector,        \* the sectors they address
  SectorOf,      \* which one each addresses
  DeviceErrors,  \* whether the device may fail a request
  NoBio

ASSUME BioAssumption ==
  /\ Write \cap Read = {} /\ NoBio \notin Write
  /\ IsFiniteSet(Write)
  /\ DeviceErrors \in BOOLEAN
  /\ SectorOf \in [Write \cup Read -> Sector]

Bio == Write \cup Read
Half == {"data", "parity"}

VARIABLES
  at,         \* where the handler of each bio is
  refs,       \* the references the target holds on each bio
  answers,    \* what upper layers were told of each bio, in order
  lock,       \* the holder of metadata_buffers_lock
  sub,        \* the clone of a read, the data and parity bio of a write
  page,       \* the page of each write's parity
  chain,      \* the writes in the entanglement, in order
  disk        \* which write's data and parity each sector's blocks are

vars == <<at, refs, answers, lock, sub, page, chain, disk>>

-----------------------------------------------------------------------------
Init ==
  /\ at = [b \in Bio |-> "new"]
  /\ refs = [b \in Bio |-> 0]
  /\ answers = [b \in Bio |-> << >>]
  /\ lock = NoBio
  /\ sub = [b \in Bio |-> [h \in Half |-> "none"]]
  /\ page = [w \in Write |-> "none"]
  /\ chain = << >>
  /\ disk = [s \in Sector |-> [h \in Half |-> NoBio]]

Answered(b) == answers[b] # << >>

Answer(b, status) == answers' = [answers EXCEPT ![b] = Append(@, status)]

(* Slips in Put: one bio_put, or one too many.                              *)
PutOnce(b, n) == refs' = [refs EXCEPT ![b] = @ - 1]
PutTooMany(b, n) == refs' = [refs EXCEPT ![b] = @ - n - 1]

Put(b, n) == refs' = [refs EXCEPT ![b] = @ - n]

(* Slip in FreePage: no mempool_free.                                       *)
KeepPage(w) == UNCHANGED page

FreePage(w) == page' = [page EXCEPT ![w] = "free"]

(* Slip in Unlock: no mutex_unlock.                                         *)
KeepLock == UNCHANGED lock

Unlock == lock' = NoBio

(* The device gets the requests a thread parked, data before parity, once   *)
(* map has returned, in whatever order the threads come to it.              *)
Issue(b, h) ==
  /\ sub[b][h] = "parked"
  /\ h = "parity" => sub[b]["data"] # "parked"
  /\ sub' = [sub EXCEPT ![b][h] = "inflight"]
  /\ UNCHANGED <<at, refs, answers, lock, page, chain, disk>>

-----------------------------------------------------------------------------
(* process_read_bio: take a reference and submit a clone.                   *)
SubmitRead(r) ==
  /\ at[r] = "new"
  /\ at' = [at EXCEPT ![r] = "returned"]
  /\ refs' = [refs EXCEPT ![r] = @ + 1]
  /\ sub' = [sub EXCEPT ![r]["data"] = "parked"]
  /\ UNCHANGED <<answers, lock, page, chain, disk>>

(* Slip in KillRead: the clone was already submitted.                       *)
KillSubmittedRead(r) ==
  /\ at[r] = "new"
  /\ at' = [at EXCEPT ![r] = "failed"]
  /\ refs' = [refs EXCEPT ![r] = @ + 1]
  /\ sub' = [sub EXCEPT ![r]["data"] = "parked"]
  /\ Answer(r, "error")
  /\ UNCHANGED <<lock, page, chain, disk>>

(* No clone: drop the reference again, map returns DM_MAPIO_KILL.           *)
KillRead(r) ==
  /\ at[r] = "new"
  /\ at' = [at EXCEPT ![r] = "failed"]
  /\ Answer(r, "error")
  /\ UNCHANGED <<refs, lock, sub, page, chain, disk>>

(* ent_dev_read_end_io drops the reference first.                           *)
ReadCompletes(r) ==
  /\ sub[r]["data"] = "inflight"
  /\ sub' = [sub EXCEPT ![r]["data"] = "ending"]
  /\ Put(r, 1)
  /\ UNCHANGED <<at, answers, lock, page, chain, disk>>

(* Slip in ReadEnds: it needs the lock of the write path.                   *)
ReadEndsUnderLock(r) ==
  /\ lock = NoBio
  /\ sub[r]["data"] = "ending"
  /\ sub' = [sub EXCEPT ![r]["data"] = "done"]
  /\ Answer(r, "ok")
  /\ UNCHANGED <<at, refs, lock, page, chain, disk>>

(* Whatever the status of the clone, the bio is ended with the status it    *)
(* started with, which is success.                                          *)
ReadEnds(r) ==
  /\ sub[r]["data"] = "ending"
  /\ sub' = [sub EXCEPT ![r]["data"] = "done"]
  /\ Answer(r, "ok")
  /\ UNCHANGED <<at, refs, lock, page, chain, disk>>

-----------------------------------------------------------------------------
(* process_write_bio up to the lock: a page for the parity.                 *)
ArriveWrite(w) ==
  /\ at[w] = "new"
  /\ \A v \in Write \ {w} :
       SectorOf[v] = SectorOf[w] => at[v] = "new" \/ Answered(v)
  /\ at' = [at EXCEPT ![w] = "waiting"]
  /\ page' = [page EXCEPT ![w] = "held"]
  /\ UNCHANGED <<refs, answers, lock, sub, chain, disk>>

(* No page: -ENOMEM at once.                                                *)
NoPageForWrite(w) ==
  /\ at[w] = "new"
  /\ \A v \in Write \ {w} :
       SectorOf[v] = SectorOf[w] => at[v] = "new" \/ Answered(v)
  /\ at' = [at EXCEPT ![w] = "failed"]
  /\ Answer(w, "error")
  /\ UNCHANGED <<refs, lock, sub, page, chain, disk>>

(* mutex_lock_interruptible fails: -EINTR at once, and the page is lost.    *)
InterruptWrite(w) ==
  /\ at[w] = "waiting"
  /\ at' = [at EXCEPT ![w] = "failed"]
  /\ page' = [page EXCEPT ![w] = "lost"]
  /\ Answer(w, "error")
  /\ UNCHANGED <<refs, lock, sub, chain, disk>>

(* The lock, the two references, the two bios and the entry in the chain.   *)
EnterWrite(w) ==
  /\ at[w] = "waiting"
  /\ lock = NoBio
  /\ lock' = w
  /\ at' = [at EXCEPT ![w] = "locked"]
  /\ refs' = [refs EXCEPT ![w] = @ + 2]
  /\ chain' = Append(chain, w)
  /\ UNCHANGED <<answers, sub, page, disk>>

(* One of the five allocations between the lock and the entry in the chain  *)
(* fails, or the bio has no data in memory: what was taken so far is given  *)
(* back but the bios, of which none, the clone or both are allocated, and   *)
(* the answers are those of the later error path.  The last exit returns an *)
(* err that nothing set: if it is 0, map does not answer a second time.     *)
EnterFails(w) ==
  /\ at[w] = "waiting"
  /\ lock = NoBio
  /\ at' = [at EXCEPT ![w] = "failed"]
  /\ FreePage(w)
  /\ \E allocated \in {{}, {"data"}, Half}, errors \in {<<"error">>, <<"error", "error">>} :
       /\ Len(errors) = 1 => allocated = Half
       /\ sub' = [sub EXCEPT ![w] = [h \in Half |-> IF h \in allocated THEN "leaked" ELSE @[h]]]
       /\ answers' = [answers EXCEPT ![w] = @ \o errors]
  /\ UNCHANGED <<refs, lock, chain, disk>>

(* Slip in AbortWrite: the two bios were submitted before the metadata was  *)
(* written.                                                                 *)
AbortSubmitted(w) ==
  /\ at[w] = "locked"
  /\ at' = [at EXCEPT ![w] = "failed"]
  /\ chain' = Front(chain)
  /\ FreePage(w)
  /\ Unlock
  /\ sub' = [sub EXCEPT ![w] = [h \in Half |-> "parked"]]
  /\ Answer(w, "error")
  /\ UNCHANGED <<refs, disk>>

(* A flush that fails before it waits: off the chain, of which it is the    *)
(* last, both references dropped, the page freed, the lock released,        *)
(* bio_endio with BLK_STS_IOERR and then DM_MAPIO_KILL, which ends the bio  *)
(* a second time.  The two bios are lost.                                   *)
AbortWrite(w) ==
  /\ at[w] = "locked"
  /\ at' = [at EXCEPT ![w] = "failed"]
  /\ chain' = Front(chain)
  /\ Put(w, 2)
  /\ FreePage(w)
  /\ Unlock
  /\ sub' = [sub EXCEPT ![w] = [h \in Half |-> "leaked"]]
  /\ answers' = [answers EXCEPT ![w] = @ \o <<"error", "error">>]
  /\ UNCHANGED disk

(* A flush submits a bio and waits for it in map, with the lock held: the   *)
(* bio is parked behind the very call that waits.                           *)
FlushHangs(w) ==
  /\ at[w] = "locked"
  /\ at' = [at EXCEPT ![w] = "flushing"]
  /\ UNCHANGED <<refs, answers, lock, sub, page, chain, disk>>

(* The wild memcpy of line 1049, or a store past the checksum map (1085):   *)
(* the thread dies with the lock held.                                      *)
OopsWrite(w) ==
  /\ at[w] = "locked"
  /\ at' = [at EXCEPT ![w] = "oops"]
  /\ UNCHANGED <<refs, answers, lock, sub, page, chain, disk>>

(* Both bios are submitted, the lock is released, and map returns.          *)
SubmitWrite(w) ==
  /\ at[w] = "locked"
  /\ at' = [at EXCEPT ![w] = "returned"]
  /\ sub' = [sub EXCEPT ![w] = [h \in Half |-> "parked"]]
  /\ Unlock
  /\ UNCHANGED <<refs, answers, page, chain, disk>>

(* ent_dev_write_end_io_clone and ent_dev_write_end_io, in three steps: the *)
(* reference is dropped, the bio is ended, each time with success, and the  *)
(* page of a parity is freed.  The device may complete the two in any       *)
(* order, and fail them.                                                    *)
WriteCompletes(w, h) ==
  /\ sub[w][h] = "inflight"
  /\ sub' = [sub EXCEPT ![w][h] = "ending"]
  /\ Put(w, 1)
  /\ \/ disk' = [disk EXCEPT ![SectorOf[w]][h] = w]
     \/ DeviceErrors /\ disk' = disk
  /\ UNCHANGED <<at, answers, lock, page, chain>>

WriteEnds(w, h) ==
  /\ sub[w][h] = "ending"
  /\ sub' = [sub EXCEPT ![w][h] = IF h = "parity" THEN "ended" ELSE "done"]
  /\ Answer(w, "ok")
  /\ UNCHANGED <<at, refs, lock, page, chain, disk>>

ParityPageFreed(w) ==
  /\ sub[w]["parity"] = "ended"
  /\ sub' = [sub EXCEPT ![w]["parity"] = "done"]
  /\ FreePage(w)
  /\ UNCHANGED <<at, refs, answers, lock, chain, disk>>

HandlerStep(w) == SubmitWrite(w) \/ AbortWrite(w) \/ OopsWrite(w) \/ FlushHangs(w)

Next ==
  \/ \E b \in Bio, h \in Half : Issue(b, h)
  \/ \E r \in Read : SubmitRead(r) \/ KillRead(r) \/ ReadCompletes(r) \/ ReadEnds(r)
  \/ \E w \in Write :
       \/ ArriveWrite(w) \/ NoPageForWrite(w) \/ InterruptWrite(w)
       \/ EnterWrite(w) \/ EnterFails(w)
       \/ SubmitWrite(w) \/ AbortWrite(w) \/ OopsWrite(w) \/ FlushHangs(w)
       \/ \E h \in Half : WriteCompletes(w, h) \/ WriteEnds(w, h)
       \/ ParityPageFreed(w)

(* A thread that returns from map issues what it parked, the device         *)
(* completes what it was given, a completion and a handler that runs go on, *)
(* if only into a wait without end, and a mutex that keeps becoming free is *)
(* handed to each of its waiters.                                           *)
Fairness ==
  /\ \A b \in Bio, h \in Half : WF_vars(Issue(b, h))
  /\ \A r \in Read : WF_vars(ReadCompletes(r)) /\ WF_vars(ReadEnds(r))
  /\ \A w \in Write :
       /\ WF_vars(HandlerStep(w))
       /\ SF_vars(EnterWrite(w))
       /\ \A h \in Half : WF_vars(WriteCompletes(w, h)) /\ WF_vars(WriteEnds(w, h))
       /\ WF_vars(ParityPageFreed(w))

Spec == Init /\ [][Next]_vars /\ Fairness

-----------------------------------------------------------------------------
(* Properties.                                                              *)

TypeOK ==
  /\ at \in [Bio -> {"new", "waiting", "locked", "flushing", "returned", "failed", "oops"}]
  /\ refs \in [Bio -> 0 .. 2]
  /\ answers \in [Bio -> Seq({"ok", "error"})]
  /\ lock \in Write \cup {NoBio}
  /\ sub \in [Bio -> [Half -> {"none", "parked", "inflight", "ending", "ended", "done",
                               "leaked"}]]
  /\ page \in [Write -> {"none", "held", "free", "lost"}]
  /\ chain \in Seq(Write)
  /\ disk \in [Sector -> [Half -> Write \cup {NoBio}]]

Submitted == {"parked", "inflight", "ending", "ended", "done"}

(* The lock is released before the device has seen anything of a write, and *)
(* threads may issue their requests in another order than that of the       *)
(* chain.  What holds is that a write reaches the device, both halves of    *)
(* it, data first, only if it is in the chain and stays there, once, and    *)
(* that a write no longer in the lock either is there or was given up       *)
(* (lines 1022-1023, 1094-1106).                                            *)
IssuedWritesAreInChain ==
  /\ \A w \in Write :
       /\ w \in Range(chain) <=> at[w] \in {"locked", "flushing", "oops", "returned"}
       /\ \A h \in Half : sub[w][h] \in Submitted <=> at[w] = "returned"
       /\ sub[w]["data"] = "parked" => sub[w]["parity"] \notin Submitted \ {"parked"}
       /\ at[w] \in {"locked", "flushing", "oops"} <=> lock = w
  /\ IsInjective(chain)

(* The target keeps a reference on a bio for each request that has yet to   *)
(* complete, so each path drops what it took (lines 802, 839, 850, 813-830, *)
(* 937-946, 1115-1118); a write that oopsed or hangs keeps both for ever.   *)
ReferencesBalance ==
  \A b \in Bio :
    refs[b] = IF at[b] \in {"locked", "flushing", "oops"}
              THEN 2
              ELSE Cardinality({h \in Half : sub[b][h] \in {"parked", "inflight"}})

(* A completion drops its reference before it ends the bio (lines 802-803,  *)
(* 839-840, 850-851), and upper layers drop theirs when the bio is ended    *)
(* for the first time.  So the second completion of a write, if the first   *)
(* has ended the bio, ends one that may be gone; no other does.             *)
OnlySecondEndTouchesFreed ==
  \A b \in Bio, h \in Half :
    sub[b][h] = "ending" =>
      \/ refs[b] > 0 \/ ~Answered(b)
      \/ b \in Write /\ \E g \in Half \ {h} : sub[b][g] \in {"ended", "done"}

(* Once a write is over, its parity's page is back in the pool, except after *)
(* an interrupted wait for the lock (lines 932-935, 843, 1117).             *)
PagesComeBack ==
  \A w \in Write :
    /\ at[w] = "returned" /\ sub[w]["parity"] = "done" => page[w] = "free"
    /\ at[w] = "failed" =>
         page[w] \in {"none", "free"} \/ (page[w] = "lost" /\ w \notin Range(chain))
    /\ page[w] = "free" => sub[w]["parity"] \in {"none", "leaked", "done"}

(* No bio is told both that it succeeded and that it failed; a read is      *)
(* answered at most once and a write at most twice; and a request that was  *)
(* given up is never one of a write that succeeded (lines 803, 840, 851,    *)
(* 1121-1124, 1144-1154).                                                   *)
AnswersAgree ==
  \A b \in Bio :
    /\ Len(answers[b]) <= IF b \in Read THEN 1 ELSE 2
    /\ Cardinality(Range(answers[b])) <= 1
    /\ "leaked" \in Range(sub[b]) => "ok" \notin Range(answers[b])

(* A read never waits for the write path: it is answered even while a write *)
(* that oopsed or hangs keeps the lock for ever (lines 808-833).            *)
ReadsAreAnswered ==
  \A r \in Read : at[r] # "new" ~> Answered(r)

(* A write is answered unless some write dies or hangs with the lock: no    *)
(* error path keeps it (lines 902-1125).                                    *)
WritesAreAnswered ==
  \A w \in Write :
    at[w] # "new" ~> Answered(w) \/ \E v \in Write : at[v] \in {"oops", "flushing"}

-----------------------------------------------------------------------------
(* What the report says and the code does not do.                           *)

(* The checksum recorded last for a sector is the one of what is on disk,   *)
(* when no request is under way and none failed.                            *)
DiskHasLastWrite ==
  (\A w \in Write : /\ at[w] = "returned"
                    /\ \A h \in Half : sub[w][h] = "done") =>
    \A s \in Sector, h \in Half :
      LET ofSector == SelectSeq(chain, LAMBDA w : SectorOf[w] = s) IN
      ofSector # << >> => disk[s][h] \in {NoBio, Last(ofSector)}
=============================================================================

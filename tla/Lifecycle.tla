----------------------------- MODULE Lifecycle -----------------------------
(***************************************************************************)
(* Who owns what, from insmod to rmmod: the resources of the module, the   *)
(* allocations of the constructor with the error label each failure jumps  *)
(* to, the calls it makes before the device is up, the destructor, and the *)
(* commands of the application that cause all this.                        *)
(*                                                                         *)
(* Device-mapper and the module loader are external: there is one device,  *)
(* as the application uses one name; a table needs a registered target;    *)
(* a module with a device is not removed; a device with a bio under way    *)
(* that never ends is not destroyed.  What a call does to the disk is in   *)
(* Session and Startup; here it succeeds, fails, or is interrupted while   *)
(* it waits for a lock.  The code is ready for that, although nobody else  *)
(* knows the device while it is made or removed.  The pages that writes    *)
(* take are in BioLifecycle.                                               *)
(***************************************************************************)
EXTENDS Naturals, Sequences

CONSTANTS
  NoCommand,
  MaxCommands      \* bound: commands of the application

ASSUME LifecycleAssumption == MaxCommands \in Nat

VARIABLES
  module,       \* "out", "loading", "in", "unloading", or "dead" after a BUG
  have,         \* of bioset, page_pool and the registered target
  device,       \* "none", "constructing", "up", or "stuck" after an oops
  step,         \* the constructor's next allocation or call
  held,         \* what the constructor allocated and nobody freed
  list,         \* the blocks of the entanglement: "none", "live", "leaked"
  lost,         \* pages of the pool that nobody will give back
  interrupted,  \* history: waits for a lock that a signal ended
  app,          \* the command the application runs, with its arguments
  result,       \* what the last command returned
  commands      \* history: commands so far

vars == <<module, have, device, step, held, list, lost, interrupted, app, result, commands>>

moduleVars == <<module, have>>
deviceVars == <<device, step, held, list>>
pageVars == <<lost, interrupted>>
appVars == <<app, result, commands>>

Init ==
  /\ module = "out" /\ have = {}
  /\ device = "none" /\ step = 1 /\ held = {} /\ list = "none"
  /\ lost = 0 /\ interrupted = 0
  /\ app = NoCommand /\ result = "none" /\ commands = 0

-----------------------------------------------------------------------------
(* The module.                                                              *)

InitSteps == << "bioset", "page_pool", "target" >>

(* A module that is inserted again has fresh memory: what an earlier        *)
(* failure left is lost.                                                    *)
Insert ==
  /\ module = "out"
  /\ module' = "loading" /\ have' = {}
  /\ UNCHANGED <<deviceVars, pageVars, appVars>>

Missing == {i \in DOMAIN InitSteps : InitSteps[i] \notin have}

IsNext(r) == \E i \in Missing : InitSteps[i] = r /\ \A j \in Missing : i <= j

InitStep(r) ==
  /\ module = "loading" /\ IsNext(r)
  /\ have' = have \cup {r}
  /\ module' = IF r = "target" THEN "in" ELSE "loading"
  /\ UNCHANGED <<deviceVars, pageVars, appVars>>

(* A registration that fails gives nothing back.  The other failures end in *)
(* err_bioset_alloc, which unregisters a target that is not registered:     *)
(* device-mapper takes that for a BUG and keeps its own lock.               *)
InitFails(r) ==
  /\ module = "loading" /\ IsNext(r)
  /\ module' = IF r = "target" THEN "out" ELSE "dead"
  /\ have' = IF r = "page_pool" THEN have \ {"bioset"} ELSE have
  /\ UNCHANGED <<deviceVars, pageVars, appVars>>

Remove ==
  /\ module = "in" /\ device = "none"
  /\ module' = "unloading"
  /\ UNCHANGED <<have, deviceVars, pageVars, appVars>>

(* Slip in ExitStep: the order of the initialisation.                       *)
ExitInOrderOfInit(r) ==
  /\ module = "unloading" /\ r \in have
  /\ CASE r = "bioset"    -> TRUE
       [] r = "page_pool" -> "bioset" \notin have
       [] r = "target"    -> "page_pool" \notin have
  /\ have' = have \ {r}
  /\ module' = IF have' = {} THEN "out" ELSE "unloading"
  /\ UNCHANGED <<deviceVars, pageVars, appVars>>

(* dm_entanglement_exit: the target, the bioset, the pool.                  *)
ExitStep(r) ==
  /\ module = "unloading" /\ r \in have
  /\ CASE r = "target"    -> TRUE
       [] r = "bioset"    -> "target" \notin have
       [] r = "page_pool" -> "bioset" \notin have
  /\ have' = have \ {r}
  /\ module' = IF have' = {} THEN "out" ELSE "unloading"
  /\ UNCHANGED <<deviceVars, pageVars, appVars>>

-----------------------------------------------------------------------------
(* The application.  init and open always pass a corrupt_chance of 0;       *)
(* corrupt passes a variable that is not set, or a truncated pointer.       *)

Command ==
  [command : {"init", "open", "corrupt", "close"}, redundancy_flag : BOOLEAN,
   corruption : BOOLEAN]

main(c) ==
  /\ app = NoCommand /\ commands < MaxCommands
  /\ c.corruption => c.command = "corrupt"
  /\ app' = c /\ result' = "none" /\ commands' = commands + 1
  /\ UNCHANGED <<moduleVars, deviceVars, pageVars>>

Return(how) == app' = NoCommand /\ result' = how /\ UNCHANGED commands

(* A task of libdevmapper fails before its ioctl, the name is in use, the   *)
(* target is unknown, or there is no device to remove.                      *)
TaskFails ==
  /\ app # NoCommand /\ device \in {"none", "up"}
  /\ Return("error")
  /\ UNCHANGED <<moduleVars, deviceVars, pageVars>>

ent_dm_create ==
  /\ app # NoCommand /\ app.command # "close"
  /\ "target" \in have /\ module = "in"
  /\ device = "none"
  /\ device' = "constructing" /\ step' = 1 /\ list' = "none"
  /\ UNCHANGED <<held, moduleVars, pageVars, appVars>>

-----------------------------------------------------------------------------
(* The constructor.                                                         *)

Allocations ==
  << "ent_dev", "dev", "corrupted_blocks", "sector_checksum_map",
     "last_entangled_block", "block_sector_buffer", "block_checksum_buffer" >>

Calls ==
  << "load_entanglement_and_checksums", "corrupt_blocks", "check_corruption" >>

NumAllocations == Len(Allocations)

Constructing == device = "constructing" /\ app # NoCommand

Call == IF step > NumAllocations /\ step <= NumAllocations + Len(Calls)
        THEN Calls[step - NumAllocations] ELSE "none"

(* Slip in ErrorLabel: each label is one too late.                          *)
LabelBefore(k) == IF k <= NumAllocations /\ k > 1 THEN k - 2 ELSE NumAllocations

(* How many of the allocations the label frees that a failure of the k-th   *)
(* step jumps to.  dm_get_device, the second, jumps in the middle.          *)
ErrorLabel(k) ==
  CASE k = 2 -> 4
    [] k \in {1} \cup 3 .. NumAllocations -> k - 1
    [] k > NumAllocations -> NumAllocations

FreedFrom(label) == {Allocations[i] : i \in 1 .. label}

(* kfree of NULL does nothing, and dm_put_device of NULL only complains.    *)
Unwind(k) == held' = held \ FreedFrom(ErrorLabel(k))

Allocate ==
  /\ Constructing /\ step <= NumAllocations
  /\ held' = held \cup {Allocations[step]}
  /\ step' = step + 1
  /\ UNCHANGED <<device, list, moduleVars, pageVars, appVars>>

AllocationFails ==
  /\ Constructing /\ step <= NumAllocations
  /\ Unwind(step)
  /\ device' = "none"
  /\ Return("error")
  /\ UNCHANGED <<step, list, moduleVars, pageVars>>

Wanted ==
  CASE Call = "load_entanglement_and_checksums" -> app.command # "init"
    [] Call = "corrupt_blocks" -> app.corruption
    [] Call = "check_corruption" -> app.redundancy_flag

(* Slip in SkipCall: the same call is looked at again.                      *)
SkipNothing ==
  /\ Constructing /\ Call # "none" /\ ~Wanted
  /\ UNCHANGED vars

SkipCall ==
  /\ Constructing /\ Call # "none" /\ ~Wanted
  /\ step' = step + 1
  /\ UNCHANGED <<device, held, list, moduleVars, pageVars, appVars>>

(* Slip in CallReturns: the next call is left out.                          *)
CallReturnsTwice ==
  /\ Constructing /\ Call # "none" /\ Wanted
  /\ step' = step + 2
  /\ list' = IF Call = "load_entanglement_and_checksums" THEN "live" ELSE list
  /\ UNCHANGED <<device, held, moduleVars, pageVars, appVars>>

CallReturns ==
  /\ Constructing /\ Call # "none" /\ Wanted
  /\ step' = step + 1
  /\ list' = IF Call = "load_entanglement_and_checksums" THEN "live" ELSE list
  /\ UNCHANGED <<device, held, moduleVars, pageVars, appVars>>

(* A list that was loaded, wholly or up to an error, is not freed.          *)
LeakList == list' \in IF list = "live" THEN {"leaked"} ELSE {list}

(* Slip in CallFails: the constructor returns 0.                            *)
CallFailsUnnoticed ==
  /\ Constructing /\ Call # "none" /\ Wanted
  /\ LeakList
  /\ Unwind(step)
  /\ device' = "none"
  /\ Return("ok")
  /\ UNCHANGED <<step, moduleVars, pageVars>>

(* An error, on every path of which the call gives back its pages.  A load  *)
(* may have got to some of the blocks of its list.  corrupt_blocks may keep *)
(* its lock, which is freed with ent_dev.                                   *)
CallFails ==
  /\ Constructing /\ Call # "none" /\ Wanted
  /\ \/ LeakList
     \/ Call = "load_entanglement_and_checksums" /\ list' = "leaked"
  /\ Unwind(step)
  /\ device' = "none"
  /\ Return("error")
  /\ UNCHANGED <<step, moduleVars, pageVars>>

(* A signal ends a wait for a lock, and the caller returns with the pages   *)
(* it has.                                                                  *)
LosePages(n) == lost' = lost + n /\ interrupted' = interrupted + 1

(* Two pages at line 138, none at 67, as corrupt_blocks takes its lock      *)
(* first, and one at 594.                                                   *)
PagesTaken ==
  CASE Call = "load_entanglement_and_checksums" -> 2
    [] Call = "corrupt_blocks" -> 0
    [] Call = "check_corruption" -> 1

CallInterrupted ==
  /\ Constructing /\ Call # "none" /\ Wanted
  /\ LeakList
  /\ LosePages(PagesTaken)
  /\ Unwind(step)
  /\ device' = "none"
  /\ Return("error")
  /\ UNCHANGED <<step, moduleVars>>

(* The repair pass ran into the head of the list: the thread dies.          *)
CallOopses ==
  /\ Constructing /\ Call = "check_corruption" /\ Wanted
  /\ list = "live"
  /\ device' = "stuck"
  /\ UNCHANGED <<step, held, list, moduleVars, pageVars, appVars>>

CtrReturns ==
  /\ Constructing /\ step > NumAllocations + Len(Calls)
  /\ device' = "up"
  /\ Return("ok")
  /\ UNCHANGED <<step, held, list, moduleVars, pageVars>>

-----------------------------------------------------------------------------
(* The device in use, and its end.                                          *)

WriteIsEntangled ==
  /\ device = "up"
  /\ list' = "live"
  /\ UNCHANGED <<device, step, held, moduleVars, pageVars, appVars>>

(* A write whose bio never ends: the wild memcpy of line 1049 kills it, or  *)
(* its flush waits for a bio that is parked behind it (BioLifecycle).       *)
WriteOopses ==
  /\ device = "up"
  /\ device' = "stuck" /\ list' = "live"
  /\ UNCHANGED <<step, held, moduleVars, pageVars, appVars>>

Destroyed ==
  { "dev", "block_checksum_buffer", "block_sector_buffer", "last_entangled_block",
    "sector_checksum_map", "corrupted_blocks", "ent_dev" }

(* Nobody looks at what store_entanglement_and_checksums returns; it frees  *)
(* the list only after everything else in it went well, and if the wait for *)
(* the lock is interrupted it keeps both its pages.                         *)
entanglement_tgt_dtr ==
  /\ app # NoCommand /\ app.command = "close" /\ device = "up"
  /\ \/ (list' = "none" \/ LeakList) /\ UNCHANGED pageVars
     \/ LeakList /\ LosePages(2)
  /\ held' = held \ Destroyed
  /\ device' = "none"
  /\ Return("ok")
  /\ UNCHANGED <<step, moduleVars>>

-----------------------------------------------------------------------------
CtrStep ==
  Allocate \/ AllocationFails \/ SkipCall \/ CallReturns \/ CallFails
    \/ CallInterrupted \/ CallOopses \/ CtrReturns

ModuleStep ==
  \E r \in {"bioset", "page_pool", "target"} : InitStep(r) \/ InitFails(r) \/ ExitStep(r)

Next ==
  \/ Insert \/ Remove
  \/ \E r \in {"bioset", "page_pool", "target"} : InitStep(r) \/ InitFails(r) \/ ExitStep(r)
  \/ \E c \in Command : main(c)
  \/ TaskFails \/ ent_dm_create
  \/ Allocate \/ AllocationFails \/ SkipCall \/ CallReturns \/ CallFails
  \/ CallInterrupted \/ CallOopses \/ CtrReturns
  \/ WriteIsEntangled \/ WriteOopses
  \/ entanglement_tgt_dtr

(* The thread of an ioctl goes on, and each ioctl is answered, unless it    *)
(* waits for the lock that a BUG left behind.                               *)
Fairness ==
  /\ WF_vars(CtrStep)
  /\ WF_vars(module # "dead" /\ (TaskFails \/ ent_dm_create \/ entanglement_tgt_dtr))
  /\ WF_vars(ModuleStep)

Spec == Init /\ [][Next]_vars /\ Fairness
-----------------------------------------------------------------------------
(* Properties.                                                              *)

TypeOK ==
  /\ module \in {"out", "loading", "in", "unloading", "dead"}
  /\ have \subseteq {"bioset", "page_pool", "target"}
  /\ device \in {"none", "constructing", "up", "stuck"}
  /\ step \in 1 .. NumAllocations + Len(Calls) + 1
  /\ held \subseteq FreedFrom(NumAllocations)
  /\ list \in {"none", "live", "leaked"}
  /\ lost \in Nat /\ interrupted \in Nat
  /\ app \in Command \cup {NoCommand}
  /\ result \in {"none", "ok", "error"}
  /\ commands \in 0 .. MaxCommands

(* Whoever can reach the target finds its bioset and page pool: while it is *)
(* registered, and as long as a device uses it (lines 1201-1237).           *)
TargetNeedsPools ==
  /\ "target" \in have => have = {"bioset", "page_pool", "target"}
  /\ device # "none" => module = "in" /\ "target" \in have

(* Wherever the constructor fails, and whatever the destructor's store      *)
(* does, without a device nothing stays allocated but what the code leaks:  *)
(* the blocks of a list that was loaded or written, and the one or two      *)
(* pages of the pool a call has when a wait for a lock is interrupted       *)
(* (lines 138, 274, 594; 648-777, 779-793).                                 *)
NothingIsHeldWithoutDevice ==
  device = "none" => held = {} /\ list # "live" /\ lost <= 2 * interrupted

(* What a command returns tells whether there is a device: init, open and   *)
(* corrupt succeed only if they made one, close only if there is none left, *)
(* and a command that fails leaves a device as it was (main.c:338-368).     *)
ReturnTellsDevice ==
  [][app # NoCommand /\ app' = NoCommand =>
       IF result' = "error"
       THEN device' \in {"none", "up"} /\ (device = "up" <=> device' = "up")
       ELSE device' = IF app.command = "close" THEN "none" ELSE "up"]_vars

(* A command returns, unless a thread died or hangs: in the repair pass, in *)
(* a write, or in the module's initialisation, with the lock of             *)
(* device-mapper held.                                                      *)
(* (main.c:305-372)                                                         *)
CommandsReturn ==
  app # NoCommand ~> app = NoCommand \/ device = "stuck" \/ module = "dead"
=============================================================================

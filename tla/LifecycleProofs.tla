--------------------------- MODULE LifecycleProofs ---------------------------
(***************************************************************************)
(* For any number of commands: the target never lacks its pools, nothing   *)
(* but what the code leaks stays allocated without a device, a device is   *)
(* complete, and what a command returns tells whether there is one.        *)
(***************************************************************************)
EXTENDS Lifecycle, TLAPS

(* The order in which the module's resources come and go.                   *)
PoolsBeforeTarget ==
  /\ "page_pool" \in have /\ module = "loading" => "bioset" \in have
  /\ module = "loading" => "target" \notin have
  /\ module = "in" => have = {"bioset", "page_pool", "target"}
  /\ module \in {"out", "dead"} => "target" \notin have

(* The constructor holds what the steps so far allocated, and loads the     *)
(* list only after the last allocation.                                     *)
HeldSoFar ==
  device = "constructing" =>
    /\ held = FreedFrom(IF step > NumAllocations THEN NumAllocations ELSE step - 1)
    /\ step <= NumAllocations => list # "live"

(* The command that constructs the device is none that removes it.          *)
ConstructedByACommand ==
  device = "constructing" => app # NoCommand /\ app.command # "close"

(* A device has all its allocations before a bio can reach it (645-757).    *)
DeviceIsComplete == device = "up" => held = FreedFrom(NumAllocations)

(* Only interrupted waits lose pages, and no more than a call takes.        *)
PagesAccounted == lost <= 2 * interrupted

IInv ==
  /\ TypeOK
  /\ PoolsBeforeTarget
  /\ TargetNeedsPools
  /\ HeldSoFar
  /\ ConstructedByACommand
  /\ PagesAccounted
  /\ NothingIsHeldWithoutDevice
  /\ DeviceIsComplete

-----------------------------------------------------------------------------
(* The lengths of the constructor's two lists.                              *)
LEMMA Lengths == NumAllocations = 7 /\ Len(Calls) = 3
  BY DEF NumAllocations, Allocations, Calls

(* The label a failure jumps to frees at least what is held, although the   *)
(* second step jumps in the middle.                                         *)
LEMMA LabelFreesAll ==
  ASSUME IInv, Constructing
  PROVE  held \ FreedFrom(ErrorLabel(step)) = {}
  <1>1. step \in 1 .. 11 /\ device = "constructing"
    BY Lengths DEF IInv, TypeOK, Constructing
  <1> DEFINE m == IF step > NumAllocations THEN NumAllocations ELSE step - 1
  <1>2. m \in 0 .. 7 /\ ErrorLabel(step) \in 0 .. 7 /\ m <= ErrorLabel(step)
    BY <1>1, Lengths DEF ErrorLabel
  <1>3. held = FreedFrom(m)
    BY <1>1 DEF IInv, HeldSoFar
  <1> HIDE DEF m
  <1>4. FreedFrom(m) \subseteq FreedFrom(ErrorLabel(step))
    BY <1>2 DEF FreedFrom
  <1> QED
    BY <1>3, <1>4

(* The destructor frees what the constructor allocates.                     *)
LEMMA DestroyedIsAll == Destroyed = FreedFrom(NumAllocations)
  <1>1. FreedFrom(7) = {Allocations[1], Allocations[2], Allocations[3], Allocations[4],
                        Allocations[5], Allocations[6], Allocations[7]}
    <2>1. 1 .. 7 = {1, 2, 3, 4, 5, 6, 7}
      OBVIOUS
    <2> QED
      BY <2>1 DEF FreedFrom
  <1> QED
    BY <1>1, Lengths DEF Destroyed, Allocations

(* The next allocation completes the prefix of those before it.             *)
LEMMA OneMore ==
  ASSUME NEW k \in 1 .. 7
  PROVE  FreedFrom(k - 1) \cup {Allocations[k]} = FreedFrom(k)
  <1>1. 1 .. k = 1 .. (k - 1) \cup {k}
    OBVIOUS
  <1> QED
    BY <1>1 DEF FreedFrom

-----------------------------------------------------------------------------
LEMMA InitHolds == Init => IInv
  <1> SUFFICES ASSUME Init PROVE IInv
    OBVIOUS
  <1> QED
    BY Lengths, LifecycleAssumption
    DEF Init, IInv, TypeOK, PoolsBeforeTarget, TargetNeedsPools, HeldSoFar,
        ConstructedByACommand, PagesAccounted,
        NothingIsHeldWithoutDevice, DeviceIsComplete

(* The steps of the module leave the device and the commands alone.         *)
LEMMA ModuleStepHolds ==
  ASSUME IInv, Insert \/ Remove \/ ModuleStep
  PROVE  IInv'
  <1> USE DEF moduleVars, deviceVars, pageVars, appVars
  <1>1. UNCHANGED <<deviceVars, pageVars, appVars>>
    BY DEF Insert, Remove, ModuleStep, InitStep, InitFails, ExitStep
  <1> DEFINE Typed == /\ module' \in {"out", "loading", "in", "unloading", "dead"}
                      /\ have' \subseteq {"bioset", "page_pool", "target"}
             Ordered == PoolsBeforeTarget' /\ TargetNeedsPools'
  <1>2. Typed /\ Ordered
    <2> USE DEF IInv, TypeOK, PoolsBeforeTarget, TargetNeedsPools
    <2>1. CASE Insert
      BY <2>1 DEF Insert
    <2>2. CASE Remove
      BY <2>2 DEF Remove
    <2>3. ASSUME NEW r \in {"bioset", "page_pool", "target"}, InitStep(r) \/ InitFails(r)
          PROVE  Typed /\ Ordered
      <3>1. /\ r = "page_pool" => "bioset" \in have
            /\ r = "target" => {"bioset", "page_pool"} \subseteq have
            /\ r \notin have /\ module = "loading"
        <4>1. DOMAIN InitSteps = 1 .. 3
          BY DEF InitSteps
        <4>2. /\ r = "page_pool" => "bioset" \in have
              /\ r = "target" => {"bioset", "page_pool"} \subseteq have
              /\ r \notin have
          BY <2>3, <4>1 DEF InitStep, InitFails, IsNext, Missing, InitSteps
        <4> QED
          BY <2>3, <4>2 DEF InitStep, InitFails
      <3>2. CASE InitStep(r)
        BY <3>1, <3>2 DEF InitStep
      <3>3. CASE InitFails(r)
        BY <3>1, <3>3 DEF InitFails
      <3> QED
        BY <2>3, <3>2, <3>3
    <2>4. ASSUME NEW r \in {"bioset", "page_pool", "target"}, ExitStep(r)
          PROVE  Typed /\ Ordered
      BY <2>4 DEF ExitStep
    <2> QED
      BY <2>1, <2>2, <2>3, <2>4 DEF ModuleStep
  <1> QED
    BY <1>1, <1>2
    DEF IInv, TypeOK, HeldSoFar, ConstructedByACommand, PagesAccounted,
        NothingIsHeldWithoutDevice,
        DeviceIsComplete, FreedFrom

(* A command starts or fails: the device stays as it is.                    *)
LEMMA CommandHolds ==
  ASSUME IInv, (\E c \in Command : main(c)) \/ TaskFails
  PROVE  IInv'
  <1> USE DEF moduleVars, deviceVars, pageVars
  <1>1. UNCHANGED <<moduleVars, deviceVars, pageVars>>
    BY DEF main, TaskFails
  <1>2. /\ app' \in Command \cup {NoCommand}
        /\ result' \in {"none", "ok", "error"}
        /\ commands' \in 0 .. MaxCommands
    BY LifecycleAssumption DEF IInv, TypeOK, main, TaskFails, Return
  <1>3. ConstructedByACommand'
    BY <1>1 DEF main, TaskFails, ConstructedByACommand, IInv
  <1> QED
    BY <1>1, <1>2, <1>3
    DEF IInv, TypeOK, PoolsBeforeTarget, TargetNeedsPools, HeldSoFar, PagesAccounted,
        NothingIsHeldWithoutDevice, DeviceIsComplete, FreedFrom

(* The constructor starts with nothing held.                                *)
LEMMA CreateHolds ==
  ASSUME IInv, ent_dm_create
  PROVE  IInv'
  <1> USE DEF moduleVars, pageVars, appVars
  <1>1. held' = {} /\ FreedFrom(0) = {}
    BY DEF IInv, NothingIsHeldWithoutDevice, ent_dm_create, FreedFrom
  <1>2. HeldSoFar'
    BY <1>1, Lengths DEF ent_dm_create, HeldSoFar, FreedFrom
  <1> QED
    BY <1>1, <1>2, Lengths
    DEF ent_dm_create, IInv, TypeOK, PoolsBeforeTarget, TargetNeedsPools,
        ConstructedByACommand, PagesAccounted,
        NothingIsHeldWithoutDevice, DeviceIsComplete, FreedFrom

(* Another allocation.                                                      *)
LEMMA AllocateHolds ==
  ASSUME IInv, Allocate
  PROVE  IInv'
  <1> USE DEF moduleVars, pageVars, appVars
  <1>1. step \in 1 .. 7 /\ device = "constructing" /\ step' = step + 1
    BY Lengths DEF Allocate, IInv, TypeOK, Constructing
  <1>2. held = FreedFrom(step - 1)
    BY <1>1, Lengths DEF IInv, HeldSoFar
  <1>3. held' = FreedFrom(step)
    BY <1>1, <1>2, OneMore DEF Allocate
  <1>4. FreedFrom(step) \subseteq FreedFrom(7)
    BY <1>1 DEF FreedFrom
  <1>5. (IF step' > NumAllocations THEN NumAllocations ELSE step' - 1) = step
    BY <1>1, Lengths
  <1>6. HeldSoFar'
    BY <1>1, <1>3, <1>5, Lengths DEF HeldSoFar, FreedFrom, IInv, Allocate
  <1>7. TypeOK'
    BY <1>1, <1>3, <1>4, Lengths DEF IInv, TypeOK, Allocate, FreedFrom
  <1> QED
    BY <1>1, <1>6, <1>7
    DEF IInv, Allocate, PoolsBeforeTarget, TargetNeedsPools, ConstructedByACommand,
        PagesAccounted, NothingIsHeldWithoutDevice, DeviceIsComplete

(* The calls before the device is up allocate and free nothing but blocks   *)
(* of the list.                                                             *)
LEMMA CallHolds ==
  ASSUME IInv, SkipCall \/ CallReturns \/ CallOopses
  PROVE  IInv'
  <1> USE DEF moduleVars, pageVars, appVars
  <1>1. step \in 8 .. 10 /\ device = "constructing" /\ app # NoCommand
    BY Lengths DEF SkipCall, CallReturns, CallOopses, Constructing, Call, IInv, TypeOK
  <1>2. /\ step' \in {step, step + 1} /\ held' = held /\ app' = app
        /\ device' \in {"constructing", "stuck"}
        /\ list' \in {list, "live"}
        /\ UNCHANGED <<module, have, lost, interrupted, result, commands>>
    BY <1>1 DEF SkipCall, CallReturns, CallOopses
  <1>3. held = FreedFrom(7)
    BY <1>1, Lengths DEF IInv, HeldSoFar
  <1>4. /\ (IF step' > NumAllocations THEN NumAllocations ELSE step' - 1) = 7
        /\ ~(step' <= NumAllocations)
    BY <1>1, <1>2, Lengths
  <1>5. HeldSoFar'
    BY <1>2, <1>3, <1>4 DEF HeldSoFar, FreedFrom
  <1> QED
    BY <1>1, <1>2, <1>5, Lengths
    DEF IInv, TypeOK, PoolsBeforeTarget, TargetNeedsPools, ConstructedByACommand,
        PagesAccounted, NothingIsHeldWithoutDevice, DeviceIsComplete, FreedFrom

(* A step of the constructor that fails frees what is held, loses a list    *)
(* that was loaded, and if it is interrupted the pages of the call.         *)
LEMMA FailureHolds ==
  ASSUME IInv, AllocationFails \/ CallFails \/ CallInterrupted
  PROVE  IInv'
  <1> USE DEF moduleVars, pageVars
  <1>1. Constructing /\ device' = "none" /\ UNCHANGED <<step, module, have>>
    BY DEF AllocationFails, CallFails, CallInterrupted
  <1>2. held' = {}
    BY <1>1, LabelFreesAll DEF AllocationFails, CallFails, CallInterrupted, Unwind
  <1>3. /\ app' = NoCommand /\ result' = "error" /\ UNCHANGED commands
        /\ list' \in {list, "leaked"}
    BY DEF AllocationFails, CallFails, CallInterrupted, Return, LeakList
  <1>4. list' # "live"
    <2>1. CASE AllocationFails
      BY <2>1 DEF AllocationFails, Constructing, IInv, HeldSoFar
    <2>2. CASE CallFails \/ CallInterrupted
      BY <2>2 DEF CallFails, CallInterrupted, LeakList
    <2> QED
      BY <2>1, <2>2
  <1>5. lost' \in Nat /\ interrupted' \in Nat /\ PagesAccounted'
    <2>1. CASE AllocationFails \/ CallFails
      BY <2>1 DEF AllocationFails, CallFails, PagesAccounted, IInv, TypeOK
    <2>2. CASE CallInterrupted
      <3>1. PagesTaken \in 0 .. 2
        <4>1. Call \in {Calls[1], Calls[2], Calls[3]}
          <5>1. step - 7 \in {1, 2, 3}
            BY <2>2, Lengths DEF CallInterrupted, Call, IInv, TypeOK
          <5> QED
            BY <2>2, <5>1, Lengths DEF CallInterrupted, Call
        <4> QED
          BY <4>1 DEF Calls, PagesTaken
      <3>2. lost' = lost + PagesTaken /\ interrupted' = interrupted + 1
        BY <2>2 DEF CallInterrupted, LosePages
      <3> QED
        BY <3>1, <3>2 DEF PagesAccounted, IInv, TypeOK
    <2> QED
      BY <2>1, <2>2
  <1>6. TypeOK'
    BY <1>1, <1>2, <1>3, <1>5 DEF IInv, TypeOK
  <1>7. PoolsBeforeTarget' /\ TargetNeedsPools'
    BY <1>1 DEF IInv, PoolsBeforeTarget, TargetNeedsPools
  <1> QED
    BY <1>1, <1>2, <1>4, <1>5, <1>6, <1>7
    DEF IInv, HeldSoFar, ConstructedByACommand, PagesAccounted,
        NothingIsHeldWithoutDevice, DeviceIsComplete

(* The device comes up, is written to, and is destroyed.                    *)
LEMMA DeviceHolds ==
  ASSUME IInv, CtrReturns \/ WriteIsEntangled \/ WriteOopses \/ entanglement_tgt_dtr
  PROVE  IInv'
  <1> USE DEF moduleVars, pageVars, appVars
  <1>1. CASE CtrReturns
    <2>1. held = FreedFrom(NumAllocations)
      BY <1>1, Lengths DEF CtrReturns, Constructing, IInv, HeldSoFar, TypeOK
    <2> QED
      BY <1>1, <2>1
      DEF CtrReturns, Constructing, Return, IInv, TypeOK, PoolsBeforeTarget, TargetNeedsPools,
          HeldSoFar, ConstructedByACommand, PagesAccounted,
          NothingIsHeldWithoutDevice, DeviceIsComplete, FreedFrom
  <1>2. CASE WriteIsEntangled \/ WriteOopses
    BY <1>2
    DEF WriteIsEntangled, WriteOopses, IInv, TypeOK, PoolsBeforeTarget, TargetNeedsPools,
        HeldSoFar, ConstructedByACommand, PagesAccounted,
        NothingIsHeldWithoutDevice, DeviceIsComplete, FreedFrom
  <1>3. CASE entanglement_tgt_dtr
    <2>1. held' = {}
      BY <1>3, DestroyedIsAll DEF entanglement_tgt_dtr, IInv, DeviceIsComplete
    <2>2. list' \in {"none", "leaked"}
      BY <1>3 DEF entanglement_tgt_dtr, LeakList, IInv, TypeOK
    <2>3. lost' \in Nat /\ interrupted' \in Nat /\ PagesAccounted'
      BY <1>3 DEF entanglement_tgt_dtr, LosePages, PagesAccounted, IInv, TypeOK
    <2> QED
      BY <1>3, <2>1, <2>2, <2>3
      DEF entanglement_tgt_dtr, Return, IInv, TypeOK, PoolsBeforeTarget, TargetNeedsPools,
          HeldSoFar, ConstructedByACommand, PagesAccounted,
          NothingIsHeldWithoutDevice, DeviceIsComplete, FreedFrom
  <1> QED
    BY <1>1, <1>2, <1>3

(* The invariant is inductive.                                              *)
LEMMA Inductive == Spec => []IInv
  <1>1. Init => IInv
    BY InitHolds
  <1>2. IInv /\ [Next]_vars => IInv'
    <2> SUFFICES ASSUME IInv, [Next]_vars PROVE IInv'
      OBVIOUS
    <2>1. CASE Insert \/ Remove \/ ModuleStep
      BY <2>1, ModuleStepHolds
    <2>2. CASE (\E c \in Command : main(c)) \/ TaskFails
      BY <2>2, CommandHolds
    <2>3. CASE ent_dm_create
      BY <2>3, CreateHolds
    <2>4. CASE Allocate
      BY <2>4, AllocateHolds
    <2>5. CASE SkipCall \/ CallReturns \/ CallOopses
      BY <2>5, CallHolds
    <2>6. CASE AllocationFails \/ CallFails \/ CallInterrupted
      BY <2>6, FailureHolds
    <2>7. CASE CtrReturns \/ WriteIsEntangled \/ WriteOopses \/ entanglement_tgt_dtr
      BY <2>7, DeviceHolds
    <2>8. CASE UNCHANGED vars
      BY <2>8
      DEF vars, IInv, TypeOK, PoolsBeforeTarget, TargetNeedsPools, HeldSoFar,
          ConstructedByACommand, PagesAccounted,
          NothingIsHeldWithoutDevice, DeviceIsComplete, FreedFrom
    <2> QED
      BY <2>1, <2>2, <2>3, <2>4, <2>5, <2>6, <2>7, <2>8 DEF Next, ModuleStep
  <1> QED
    BY <1>1, <1>2, PTL DEF Spec

-----------------------------------------------------------------------------
(* The type invariant of Lifecycle.                                         *)
THEOREM TypeCorrect == Spec => []TypeOK
  BY Inductive, PTL DEF IInv

(* A target that is registered or in use has its bioset and its page pool.  *)
THEOREM PoolsOutliveTarget == Spec => []TargetNeedsPools
  BY Inductive, PTL DEF IInv

(* Every failing step of the constructor, and the destructor, free all that *)
(* was allocated but the blocks of a list, and only an interrupted wait     *)
(* costs the pool pages, two at most.                                       *)
THEOREM NothingHeld == Spec => []NothingIsHeldWithoutDevice
  BY Inductive, PTL DEF IInv

(* No bio reaches a device that lacks one of its allocations.               *)
THEOREM CompleteDevice == Spec => []DeviceIsComplete
  BY Inductive, PTL DEF IInv

(* What a command returns tells whether there is a device.                  *)
THEOREM ReturnsTell == Spec => ReturnTellsDevice
  <1> DEFINE Tells ==
        app # NoCommand /\ app' = NoCommand =>
          IF result' = "error"
          THEN device' \in {"none", "up"} /\ (device = "up" <=> device' = "up")
          ELSE device' = IF app.command = "close" THEN "none" ELSE "up"
  <1>1. IInv /\ [Next]_vars => [Tells]_vars
    <2> SUFFICES ASSUME IInv, Next, app # NoCommand, app' = NoCommand PROVE Tells
      OBVIOUS
    <2>1. TaskFails \/ AllocationFails \/ CallFails \/ CallInterrupted \/ CtrReturns
            \/ entanglement_tgt_dtr
      BY DEF Next, Insert, Remove, InitStep, InitFails, ExitStep, main, ent_dm_create,
             Allocate, SkipCall, CallReturns, CallOopses, WriteIsEntangled, WriteOopses,
             appVars
    <2>2. CASE TaskFails
      BY <2>2 DEF TaskFails, Return, deviceVars
    <2>3. CASE AllocationFails \/ CallFails \/ CallInterrupted
      BY <2>3 DEF AllocationFails, CallFails, CallInterrupted, Constructing, Return
    <2>4. CASE CtrReturns
      BY <2>4 DEF CtrReturns, Constructing, Return, IInv, ConstructedByACommand
    <2>5. CASE entanglement_tgt_dtr
      BY <2>5 DEF entanglement_tgt_dtr, Return
    <2> QED
      BY <2>1, <2>2, <2>3, <2>4, <2>5
  <1> QED
    BY <1>1, Inductive, PTL DEF Spec, ReturnTellsDevice
=============================================================================

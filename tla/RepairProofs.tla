---------------------------- MODULE RepairProofs ----------------------------
(***************************************************************************)
(* For every list the loader may leave, every content of the two bitmaps   *)
(* and of the blocks, and every I/O error: what the constructor does to    *)
(* the blocks and to the bits before the device takes requests.            *)
(*                                                                         *)
(* The recursive function of the repair is shown to exist, and then that   *)
(* every walk it makes ends in giving up or in the oops.  Both go by a     *)
(* least counterexample, as repair_block_rec calls itself on blocks that   *)
(* are nearer to the end it walks to.                                      *)
(***************************************************************************)
EXTENDS Startup, SequenceTheorems, WellFoundedInduction, TLAPS

-----------------------------------------------------------------------------
(* The recursion.                                                           *)

(* A nonempty set of numbers has a least element.                           *)
LEMMA Least ==
  ASSUME NEW T, T \subseteq Nat, T # {}
  PROVE  \E n \in T : \A m \in T : n <= m
  <1>1. PICK n \in T : \A m \in T : ~(<<m, n>> \in OpToRel(<, Nat))
    BY NatLessThanWellFounded, WFMin
  <1>2. \A m \in T : <<m, n>> \in Nat \X Nat
    OBVIOUS
  <1>3. \A m \in T : ~(m < n)
    BY <1>1, <1>2 DEF OpToRel
  <1> QED
    BY <1>3

(* How many blocks a walk may still visit.                                  *)
Steps(dir, i) == IF dir = -1 THEN i ELSE Len(entanglement) - i

(* A call uses of the others only the one two blocks on.                    *)
LEMMA CallUses ==
  ASSUME NEW bits, NEW dir \in {-1, 1}, NEW f, NEW g, NEW i \in 1 .. Len(entanglement),
         \A j \in 1 .. Len(entanglement) : j = i + 2 * dir => f[j] = g[j]
  PROVE  Call(bits, dir, f, i) = Call(bits, dir, g, i)
  <1>1. CASE {i + dir, i + 2 * dir} \subseteq 1 .. Len(entanglement)
    BY <1>1 DEF Call
  <1>2. CASE ~({i + dir, i + 2 * dir} \subseteq 1 .. Len(entanglement))
    BY <1>2 DEF Call
  <1> QED
    BY <1>1, <1>2

(* repair_block_rec is the function its definition asks for.                *)
LEMMA RecursionIsDefined ==
  ASSUME NEW bits, NEW dir \in {-1, 1}, Len(entanglement) \in Nat
  PROVE  LET rec == repair_block_rec(bits, dir) IN
         rec = [i \in 1 .. Len(entanglement) |-> Call(bits, dir, rec, i)]
  <1> DEFINE last == Len(entanglement)
             D == 1 .. last
             IsRec(g) == g = [i \in D |-> Call(bits, dir, g, i)]
             IsRecUpTo(g, n) == \A i \in D : Steps(dir, i) <= n => g[i] = Call(bits, dir, g, i)
             T == {n \in Nat : ~\E g : IsRecUpTo(g, n - 1)}
  <1> DEFINE TwoOn(i) == i + 2 * dir
  <1>0. \A f, g : \A i \in D :
          (\A j \in D : j = TwoOn(i) => f[j] = g[j]) => Call(bits, dir, f, i) = Call(bits, dir, g, i)
    BY CallUses
  <1>1. \A i \in D : Steps(dir, i) \in 0 .. last
    BY DEF Steps
  <1>2. T = {}
    <2> SUFFICES ASSUME T # {} PROVE FALSE
      OBVIOUS
    <2>1. PICK n \in T : \A m \in T : n <= m
      BY Least
    <2>2. n \in Nat /\ ~\E g : IsRecUpTo(g, n - 1)
      OBVIOUS
    <2>3. n # 0
      <3>1. IsRecUpTo({}, 0 - 1)
        BY <1>1
      <3> QED
        BY <2>2, <3>1
    <2>4. PICK g : IsRecUpTo(g, n - 1 - 1)
      <3>1. n - 1 \in Nat /\ ~(n <= n - 1)
        BY <2>2, <2>3
      <3> QED
        BY <2>1, <3>1
    <2> DEFINE h == [i \in D |-> Call(bits, dir, g, i)]
    <2>5. IsRecUpTo(h, n - 1)
      <3> SUFFICES ASSUME NEW i \in D, Steps(dir, i) <= n - 1
                   PROVE  h[i] = Call(bits, dir, h, i)
        OBVIOUS
      <3>1. \A j \in D : j = TwoOn(i) => h[j] = g[j]
        <4> SUFFICES ASSUME NEW j \in D, j = TwoOn(i) PROVE h[j] = g[j]
          OBVIOUS
        <4>1. Steps(dir, j) <= n - 1 - 1
          BY <2>2 DEF Steps
        <4>2. g[j] = Call(bits, dir, g, j)
          <5> HIDE DEF h, T
          <5> QED
            BY <2>4, <4>1
        <4>3. h[j] = Call(bits, dir, g, j)
          <5> HIDE DEF T, IsRecUpTo
          <5> QED
            OBVIOUS
        <4> HIDE DEF h, T, IsRecUpTo
        <4> QED
          BY <4>2, <4>3
      <3> HIDE DEF h, T, IsRecUpTo, D, TwoOn
      <3>2. Call(bits, dir, h, i) = Call(bits, dir, g, i)
        BY <1>0, <3>1
      <3>3. h[i] = Call(bits, dir, g, i)
        BY DEF h
      <3> QED
        BY <3>2, <3>3
    <2> QED
      BY <2>2, <2>5
  <1>3. \E g : IsRec(g)
    <2>1. last + 1 \in Nat /\ last + 1 - 1 = last
      OBVIOUS
    <2>2. PICK g : IsRecUpTo(g, last)
      BY <1>2, <2>1
    <2> DEFINE h == [i \in D |-> Call(bits, dir, g, i)]
    <2>3. \A i \in D : h[i] = g[i]
      BY <1>1, <2>2
    <2>4. \A i \in D : Call(bits, dir, h, i) = Call(bits, dir, g, i)
      <3> SUFFICES ASSUME NEW i \in D PROVE Call(bits, dir, h, i) = Call(bits, dir, g, i)
        OBVIOUS
      <3> HIDE DEF h, T, IsRecUpTo, D, TwoOn
      <3> QED
        BY <1>0, <2>3
    <2>5. IsRec(h)
      BY <2>4
    <2> QED
      BY <2>5
  <1>4. repair_block_rec(bits, dir) = CHOOSE g : IsRec(g)
    BY DEF repair_block_rec
  <1> HIDE DEF IsRec
  <1>5. IsRec(repair_block_rec(bits, dir))
    BY <1>3, <1>4
  <1> QED
    BY <1>5 DEF IsRec

(* What a walk to the left of a corrupted block returns: it rebuilt nothing,*)
(* marked corrupted blocks, and faults only if the first block is one.      *)
GaveUp(bits, r) ==
  \E s \in {"IRRECOVERABLE", "oops"}, marks \in SUBSET bits :
    /\ r = Outcome(s, marks, << >>)
    /\ s = "oops" => entanglement[1] \in bits

LEMMA GaveUpFields ==
  ASSUME NEW bits, NEW r, GaveUp(bits, r)
  PROVE  /\ r.state \in {"IRRECOVERABLE", "oops"}
         /\ r.marks \subseteq bits /\ r.rebuilt = << >>
         /\ r.state = "oops" => entanglement[1] \in bits
  BY DEF GaveUp, Outcome

(* A call returns that if the call it makes does.                           *)
LEMMA CallGivesUp ==
  ASSUME NEW bits, NEW rec, NEW i \in 1 .. Len(entanglement), Len(entanglement) \in Nat,
         entanglement[i] \in bits,
         i - 2 \in 1 .. Len(entanglement) /\ entanglement[i - 2] \in bits =>
           GaveUp(bits, rec[i - 2])
  PROVE  GaveUp(bits, Call(bits, -1, rec, i))
  <1> DEFINE last == Len(entanglement)
             deeper == IF entanglement[i - 2] \in bits THEN rec[i - 2] ELSE GiveUp(i)
             ends == i - 1 \in 1 .. last /\ (entanglement[i - 1] \in bits \/ i - 1 = 1)
  <1>1. Call(bits, -1, rec, i) =
          IF ends THEN GiveUp(i)
          ELSE IF {i - 1, i - 2} \subseteq 1 .. last THEN Return(deeper, i, i - 1, i - 2)
          ELSE Fault
    <2>1. i + (-1) = i - 1 /\ i + 2 * (-1) = i - 2
      OBVIOUS
    <2> QED
      BY <2>1 DEF Call, IsBeginning, Unrepaired
  <1>2. GaveUp(bits, GiveUp(i))
    BY DEF GaveUp, GiveUp
  <1> HIDE DEF ends
  <1>3. CASE ends
    BY <1>1, <1>2, <1>3
  <1>4. CASE ~ends /\ {i - 1, i - 2} \subseteq 1 .. last
    <2>1. GaveUp(bits, deeper)
      BY <1>2, <1>4
    <2> HIDE DEF deeper
    <2>2. PICK s \in {"IRRECOVERABLE", "oops"}, marks \in SUBSET bits :
            /\ deeper = [state |-> s, marks |-> marks, rebuilt |-> << >>]
            /\ s = "oops" => entanglement[1] \in bits
      BY <2>1 DEF GaveUp, Outcome
    <2>3. CASE s = "IRRECOVERABLE"
      <3>1. Return(deeper, i, i - 1, i - 2)
              = [deeper EXCEPT !.marks = @ \cup {entanglement[i]}]
        BY <2>2, <2>3 DEF Return
      <3>2. Return(deeper, i, i - 1, i - 2)
              = Outcome(s, marks \cup {entanglement[i]}, << >>)
        BY <2>2, <3>1 DEF Outcome
      <3> QED
        BY <1>1, <1>4, <2>3, <3>2 DEF GaveUp
    <2>4. CASE s = "oops"
      <3>1. Return(deeper, i, i - 1, i - 2) = deeper
        BY <2>2, <2>4 DEF Return
      <3> QED
        BY <1>1, <1>4, <2>1, <3>1
    <2> QED
      BY <2>2, <2>3, <2>4
  <1>5. CASE ~ends /\ ~({i - 1, i - 2} \subseteq 1 .. last)
    <2>1. i = 1
      BY <1>5 DEF ends
    <2> QED
      BY <1>1, <1>5, <2>1 DEF GaveUp, Fault
  <1> QED
    BY <1>3, <1>4, <1>5

(* No walk to the left ever repairs, however long the list.                 *)
LEMMA WalkGivesUp ==
  ASSUME NEW bits, NEW i \in 1 .. Len(entanglement), Len(entanglement) \in Nat,
         entanglement[i] \in bits
  PROVE  GaveUp(bits, repair_block_rec(bits, -1)[i])
  <1> DEFINE D == 1 .. Len(entanglement)
             rec == repair_block_rec(bits, -1)
             T == {j \in D : entanglement[j] \in bits /\ ~GaveUp(bits, rec[j])}
  <1>1. rec = [j \in D |-> Call(bits, -1, rec, j)]
    BY RecursionIsDefined
  <1> HIDE DEF rec
  <1>2. T = {}
    <2> SUFFICES ASSUME T # {} PROVE FALSE
      OBVIOUS
    <2>1. PICK j \in T : \A k \in T : j <= k
      <3>1. T \subseteq Nat
        OBVIOUS
      <3> HIDE DEF T
      <3> QED
        BY <3>1, Least
    <2>2. j \in D /\ entanglement[j] \in bits /\ ~GaveUp(bits, rec[j])
      OBVIOUS
    <2>3. j - 2 \in D /\ entanglement[j - 2] \in bits => GaveUp(bits, rec[j - 2])
      <3>1. ~(j <= j - 2)
        BY <2>2
      <3> QED
        BY <2>1, <3>1
    <2> HIDE DEF T
    <2>4. GaveUp(bits, Call(bits, -1, rec, j))
      BY <2>2, <2>3, CallGivesUp
    <2> QED
      BY <1>1, <2>2, <2>4
  <1> QED
    BY <1>2 DEF rec

-----------------------------------------------------------------------------
(* The two calls of repair_block on a root.                                 *)
LEMMA LeftReturns ==
  ASSUME NEW i \in 1 .. Len(entanglement), Len(entanglement) \in Nat
  PROVE  IF i > 1 /\ entanglement[i - 1] \in corrupted_blocks
         THEN GaveUp(corrupted_blocks, Left(i))
         ELSE Left(i) = Fine
  <1>1. ASSUME i > 1, entanglement[i - 1] \in corrupted_blocks
        PROVE  GaveUp(corrupted_blocks, Left(i))
    <2>1. i - 1 \in 1 .. Len(entanglement)
      BY <1>1
    <2> QED
      BY <1>1, <2>1, WalkGivesUp DEF Left
  <1> QED
    BY <1>1 DEF Left

(* The "right" walk starts at the block before the root and finds the root  *)
(* corrupted at once.                                                       *)
LEMMA RightReturns ==
  ASSUME NEW i \in 1 .. Len(entanglement), Len(entanglement) \in Nat,
         entanglement[i] \in corrupted_blocks
  PROVE  Right(i) = IF i = 1 THEN Fault
                    ELSE IF entanglement[i - 1] \in corrupted_blocks
                    THEN Outcome("IRRECOVERABLE", {entanglement[i - 1]}, << >>)
                    ELSE Fine
  <1>1. Left(i).rebuilt = << >>
    BY LeftReturns, GaveUpFields DEF Fine, Outcome
  <1>2. corrupted_blocks \ SectorsOf(Left(i).rebuilt) = corrupted_blocks
    BY <1>1 DEF SectorsOf, Range
  <1>3. ASSUME i # 1, entanglement[i - 1] \in corrupted_blocks
        PROVE  repair_block_rec(corrupted_blocks, 1)[i - 1]
                 = Outcome("IRRECOVERABLE", {entanglement[i - 1]}, << >>)
    <2> DEFINE rec == repair_block_rec(corrupted_blocks, 1)
    <2>1. i - 1 \in 1 .. Len(entanglement) /\ (i - 1) + 1 = i
      BY <1>3
    <2>2. rec[i - 1] = Call(corrupted_blocks, 1, rec, i - 1)
      <3>1. rec = [j \in 1 .. Len(entanglement) |-> Call(corrupted_blocks, 1, rec, j)]
        BY RecursionIsDefined
      <3> HIDE DEF rec
      <3> QED
        BY <2>1, <3>1
    <2> HIDE DEF rec
    <2>3. Call(corrupted_blocks, 1, rec, i - 1) = GiveUp(i - 1)
      BY <2>1 DEF Call
    <2> QED
      BY <2>2, <2>3 DEF rec, GiveUp
  <1>4. CASE i = 1
    BY <1>4 DEF Right
  <1>5. CASE i # 1
    <2>1. i > 1
      BY <1>5
    <2>2. CASE entanglement[i - 1] \in corrupted_blocks
      BY <1>2, <1>3, <1>5, <2>1, <2>2 DEF Right
    <2>3. CASE entanglement[i - 1] \notin corrupted_blocks
      BY <1>2, <1>5, <2>1, <2>3 DEF Right
    <2> QED
      BY <1>5, <2>2, <2>3
  <1> QED
    BY <1>4, <1>5

(* The two outcomes together, at a root of the pass.                        *)
LEMMA RootOutcome ==
  ASSUME AtRoot, Len(entanglement) \in Nat, cursor \in Nat \ {0}
  PROVE  /\ Left(cursor).rebuilt = << >> /\ Right(cursor).rebuilt = << >>
         /\ Left(cursor).marks \cup Right(cursor).marks \subseteq corrupted_blocks
         /\ "oops" \in States(cursor) => entanglement[1] \in corrupted_blocks
         /\ States(cursor) = {"REPAIRED"} =>
              /\ cursor > 1 /\ entanglement[cursor - 1] \notin corrupted_blocks
              /\ Left(cursor).marks = {} /\ Right(cursor).marks = {}
  <1>1. cursor \in 1 .. Len(entanglement) /\ entanglement[cursor] \in corrupted_blocks
    BY DEF AtRoot, IsRoot
  <1>2. IF cursor > 1 /\ entanglement[cursor - 1] \in corrupted_blocks
        THEN GaveUp(corrupted_blocks, Left(cursor))
        ELSE Left(cursor) = Fine
    BY <1>1, LeftReturns
  <1>3. Right(cursor) = IF cursor = 1 THEN Fault
                        ELSE IF entanglement[cursor - 1] \in corrupted_blocks
                        THEN Outcome("IRRECOVERABLE", {entanglement[cursor - 1]}, << >>)
                        ELSE Fine
    BY <1>1, RightReturns
  <1>4. CASE cursor = 1
    BY <1>1, <1>2, <1>3, <1>4 DEF States, Fine, Fault, Outcome
  <1>5. CASE cursor > 1 /\ entanglement[cursor - 1] \in corrupted_blocks
    <2>1. /\ Left(cursor).state \in {"IRRECOVERABLE", "oops"}
          /\ Left(cursor).marks \subseteq corrupted_blocks
          /\ Left(cursor).rebuilt = << >>
          /\ Left(cursor).state = "oops" => entanglement[1] \in corrupted_blocks
      BY <1>2, <1>5, GaveUpFields
    <2>2. Right(cursor) = Outcome("IRRECOVERABLE", {entanglement[cursor - 1]}, << >>)
      BY <1>3, <1>5
    <2>3. /\ Right(cursor).state = "IRRECOVERABLE"
          /\ Right(cursor).marks = {entanglement[cursor - 1]}
          /\ Right(cursor).rebuilt = << >>
      BY <2>2 DEF Outcome
    <2>4. States(cursor) # {"REPAIRED"}
      BY <2>3 DEF States
    <2>5. "oops" \in States(cursor) => Left(cursor).state = "oops"
      BY <2>3 DEF States
    <2> QED
      BY <1>5, <2>1, <2>3, <2>4, <2>5
  <1>6. CASE cursor > 1 /\ entanglement[cursor - 1] \notin corrupted_blocks
    <2>1. Left(cursor) = Fine /\ Right(cursor) = Fine
      BY <1>2, <1>3, <1>6
    <2> QED
      BY <1>6, <2>1 DEF States, Fine, Outcome
  <1> QED
    BY <1>1, <1>4, <1>5, <1>6

-----------------------------------------------------------------------------
(* What a step of the pass comes to, without the recursion.                 *)
Written == [position : 1 .. Len(entanglement),
            from : (1 .. Len(entanglement)) \X (1 .. Len(entanglement))]

(* The block rebuilt at the cursor, if the block before it is good.         *)
Rebuilt == Write(cursor, cursor - 1, cursor - 1)

OverGoodBlock ==
  /\ cursor \in 2 .. Len(entanglement)
  /\ entanglement[cursor - 1] \notin corrupted_blocks

Marks ==
  /\ AtRoot /\ Advance
  /\ UNCHANGED <<corrupted_blocks, writes, errors>>
  /\ \E m \in SUBSET corrupted_blocks :
       entanglement[cursor] \in m /\ irrecoverable_blocks' = irrecoverable_blocks \cup m

Rebuilds ==
  /\ AtRoot /\ OverGoodBlock /\ Advance
  /\ UNCHANGED <<irrecoverable_blocks, errors>>
  /\ writes' = Append(writes, Rebuilt)
  /\ corrupted_blocks' = corrupted_blocks \ {entanglement[cursor]}

Fails ==
  /\ AtRoot /\ OverGoodBlock /\ Advance
  /\ UNCHANGED <<corrupted_blocks, irrecoverable_blocks, writes>>
  /\ errors' = errors \cup {cursor}

Faults == RepairFaults /\ entanglement[1] \in corrupted_blocks

LEMMA SectorsOfNone == SectorsOf(<< >>) = {}
  BY DEF SectorsOf, Range

LEMMA SectorsOfOne ==
  ASSUME NEW w
  PROVE  SectorsOf(<<w>>) = {entanglement[w.position]}
  <1>1. Range(<<w>>) = {w}
    BY DEF Range
  <1> QED
    BY <1>1 DEF SectorsOf

LEMMA RepairShapes ==
  ASSUME Len(entanglement) \in Nat, cursor \in Nat \ {0}, writes \in Seq(Written), Next
  PROVE  Skip \/ Faults \/ Marks \/ Rebuilds \/ Fails \/ Finish
  <1>1. CASE Skip
    BY <1>1
  <1>2. CASE Finish
    BY <1>2
  <1>3. CASE RepairFaults
    BY <1>3, RootOutcome DEF RepairFaults, Faults
  <1>4. writes \o << >> = writes
    BY ConcatEmptySeq
  <1>5. << >> \in Seq(Written)
    BY EmptySeq
  <1>6. AtRoot => cursor \in 1 .. Len(entanglement) /\ entanglement[cursor] \in corrupted_blocks
    BY DEF AtRoot, IsRoot
  <1>7. CASE MarkIrrecoverable
    <2>1. AtRoot /\ Advance /\ errors' = errors /\ Recurse({entanglement[cursor]}, << >>)
      BY <1>7 DEF MarkIrrecoverable
    <2> DEFINE m == Left(cursor).marks \cup Right(cursor).marks \cup {entanglement[cursor]}
    <2>2. /\ irrecoverable_blocks' = irrecoverable_blocks \cup m
          /\ writes' = writes
          /\ corrupted_blocks' = corrupted_blocks
      <3>1. Left(cursor).rebuilt \o Right(cursor).rebuilt \o << >> = << >>
        BY <1>5, <2>1, RootOutcome, ConcatEmptySeq
      <3> QED
        BY <1>4, <2>1, <3>1, SectorsOfNone DEF Recurse
    <2>3. m \in SUBSET corrupted_blocks /\ entanglement[cursor] \in m
      BY <1>6, <2>1, RootOutcome
    <2> HIDE DEF m
    <2> QED
      BY <2>1, <2>2, <2>3 DEF Marks
  <1>8. CASE Rebuild
    <2>1. /\ AtRoot /\ Advance /\ errors' = errors
          /\ States(cursor) = {"REPAIRED"} /\ Recurse({}, <<Rebuilt>>)
      BY <1>8 DEF Rebuild, Rebuilt
    <2>2. OverGoodBlock /\ Left(cursor).marks = {} /\ Right(cursor).marks = {}
      BY <1>6, <2>1, RootOutcome DEF OverGoodBlock
    <2>3. Rebuilt \in Written /\ Rebuilt.position = cursor
      BY <2>2 DEF OverGoodBlock, Rebuilt, Write, Written
    <2>4. <<Rebuilt>> \in Seq(Written)
      BY <2>3
    <2>5. /\ irrecoverable_blocks' = irrecoverable_blocks
          /\ writes' = writes \o <<Rebuilt>>
          /\ corrupted_blocks' = corrupted_blocks \ {entanglement[cursor]}
      <3>1. Left(cursor).rebuilt \o Right(cursor).rebuilt \o <<Rebuilt>> = <<Rebuilt>>
        BY <1>5, <2>1, <2>4, RootOutcome, ConcatEmptySeq
      <3>2. SectorsOf(<<Rebuilt>>) = {entanglement[cursor]}
        BY <2>3, SectorsOfOne
      <3> QED
        BY <2>1, <2>2, <3>1, <3>2 DEF Recurse
    <2>6. writes' = Append(writes, Rebuilt)
      BY <2>3, <2>5, AppendIsConcat
    <2> QED
      BY <2>1, <2>2, <2>5, <2>6 DEF Rebuilds
  <1>9. CASE RebuildFails
    <2>1. /\ AtRoot /\ Advance /\ errors' = errors \cup {cursor}
          /\ States(cursor) = {"REPAIRED"} /\ Recurse({}, << >>)
      BY <1>9 DEF RebuildFails
    <2>2. OverGoodBlock /\ Left(cursor).marks = {} /\ Right(cursor).marks = {}
      BY <1>6, <2>1, RootOutcome DEF OverGoodBlock
    <2>3. /\ irrecoverable_blocks' = irrecoverable_blocks
          /\ writes' = writes
          /\ corrupted_blocks' = corrupted_blocks
      <3>1. Left(cursor).rebuilt \o Right(cursor).rebuilt \o << >> = << >>
        BY <1>5, <2>1, RootOutcome, ConcatEmptySeq
      <3> QED
        BY <1>4, <2>1, <2>2, <3>1, SectorsOfNone DEF Recurse
    <2> QED
      BY <2>1, <2>2, <2>3 DEF Fails
  <1> QED
    BY <1>1, <1>2, <1>3, <1>7, <1>8, <1>9 DEF Next

-----------------------------------------------------------------------------
(* What is rebuilt on the disk.                                             *)
LEMMA NothingRebuilt ==
  ASSUME NEW d
  PROVE  RebuiltOnDisk(d, << >>) = d
  <1> DEFINE Body(g, n) ==
               IF n = 0 THEN d
               ELSE [g[n - 1] EXCEPT ![entanglement[<< >>[n].position]] =
                       Xor(g[n - 1][entanglement[<< >>[n].from[1]]],
                           g[n - 1][entanglement[<< >>[n].from[2]]])]
             IsAfter(g) == g = [n \in 0 .. 0 |-> Body(g, n)]
  <1>1. Len(<< >>) = 0
    OBVIOUS
  <1>2. RebuiltOnDisk(d, << >>) = (CHOOSE g : IsAfter(g))[0]
    BY <1>1 DEF RebuiltOnDisk
  <1>3. IsAfter([n \in 0 .. 0 |-> d])
    OBVIOUS
  <1>4. \A g : IsAfter(g) => g[0] = d
    OBVIOUS
  <1> HIDE DEF IsAfter
  <1> QED
    BY <1>2, <1>3, <1>4

LEMMA OneRebuilt ==
  ASSUME NEW d, NEW w
  PROVE  RebuiltOnDisk(d, <<w>>) =
           [d EXCEPT ![entanglement[w.position]] =
              Xor(d[entanglement[w.from[1]]], d[entanglement[w.from[2]]])]
  <1> DEFINE Put(e, v) ==
               [e EXCEPT ![entanglement[v.position]] =
                  Xor(e[entanglement[v.from[1]]], e[entanglement[v.from[2]]])]
             Body(g, n) == IF n = 0 THEN d ELSE Put(g[n - 1], <<w>>[n])
             IsAfter(g) == g = [n \in 0 .. 1 |-> Body(g, n)]
             h == [n \in 0 .. 1 |-> IF n = 0 THEN d ELSE Put(d, w)]
  <1>1. Len(<<w>>) = 1
    OBVIOUS
  <1>2. RebuiltOnDisk(d, <<w>>) = (CHOOSE g : IsAfter(g))[1]
    BY <1>1 DEF RebuiltOnDisk
  <1> HIDE DEF Put
  <1>3. IsAfter(h)
    <2>1. h[0] = d
      OBVIOUS
    <2>2. \A n \in 0 .. 1 : Body(h, n) = IF n = 0 THEN d ELSE Put(d, w)
      BY <2>1
    <2> QED
      BY <2>2
  <1>4. \A g : IsAfter(g) => g[1] = Put(d, w)
    <2> SUFFICES ASSUME NEW g, IsAfter(g) PROVE g[1] = Put(d, w)
      OBVIOUS
    <2>1. g[0] = d
      OBVIOUS
    <2>2. g[1] = Put(g[0], <<w>>[1])
      OBVIOUS
    <2> QED
      BY <2>1, <2>2
  <1> HIDE DEF IsAfter
  <1>5. (CHOOSE g : IsAfter(g))[1] = Put(d, w)
    BY <1>3, <1>4
  <1> QED
    BY <1>2, <1>5 DEF Put

-----------------------------------------------------------------------------
(* The inductive invariant of the constructor.                              *)
StartupTypes ==
  /\ entanglement \in Seq(Sector)
  /\ corrupted_blocks \subseteq Sector
  /\ irrecoverable_blocks \subseteq Sector
  /\ cursor \in 1 .. Len(entanglement) + 1
  /\ pc \in {"scan", "oops", "done", "failed"}
  /\ writes \in Seq(Written)
  /\ errors \subseteq 1 .. Len(entanglement)
  /\ stage \in {"corrupt", "check", "repair", "up", "refused"}
  /\ redundancy_flag \in BOOLEAN
  /\ disk \in [Sector -> Block]
  /\ original \in [Sector -> Block]
  /\ hits \in [Sector -> Nat]

(* Which calls the two program counters allow together.                     *)
Stages ==
  /\ stage = "check" => cursor = 1
  /\ stage \in {"corrupt", "check"} => pc = "scan"
  /\ pc = "oops" => entanglement[1] \in corrupted_blocks
  /\ pc \in {"done", "failed"} => stage \in {"up", "refused"}

(* What corrupt_blocks did to a block, for the first two times.             *)
Corrupted ==
  stage \in {"corrupt", "check"} =>
    \A s \in Sector :
      /\ hits[s] = 0 => disk[s] = original[s]
      /\ hits[s] = 1 => disk[s] = [original[s] EXCEPT ![1] = NextByte(@)]

(* The blocks the pass has left behind are accounted for.                   *)
Handled(j) ==
  entanglement[j] \in corrupted_blocks /\ entanglement[j] % 2 = 0 =>
    entanglement[j] \in irrecoverable_blocks \/ j \in errors

Passed ==
  /\ stage = "repair" /\ pc = "scan" => \A j \in 1 .. cursor - 1 : Handled(j)
  /\ pc \in {"done", "failed"} => \A j \in 1 .. Len(entanglement) : Handled(j)

StartupInv == StartupTypes /\ Stages /\ Corrupted /\ Passed

LEMMA HereIsABlock ==
  ASSUME StartupTypes, cursor <= Len(entanglement)
  PROVE  Len(entanglement) \in Nat /\ cursor \in 1 .. Len(entanglement) /\ Here \in Sector
  <1>1. Len(entanglement) \in Nat
    BY LenProperties DEF StartupTypes
  <1>2. cursor \in 1 .. Len(entanglement)
    BY <1>1 DEF StartupTypes
  <1>3. entanglement[cursor] \in Sector
    BY <1>2, ElementOfSeq DEF StartupTypes
  <1> QED
    BY <1>1, <1>2, <1>3 DEF Here

LEMMA XorIsBlock ==
  ASSUME NEW a \in Block, NEW b \in Block
  PROVE  Xor(a, b) \in Block
  BY ByteAssumption DEF Xor, Block

(* What a rebuilt block leaves on the disk.                                 *)
LEMMA RebuiltHere ==
  ASSUME StartupTypes, OverGoodBlock
  PROVE  \E b \in Block : RebuiltOnDisk(disk, <<Rebuilt>>) = [disk EXCEPT ![Here] = b]
  <1>1. /\ Len(entanglement) \in Nat
        /\ cursor \in 1 .. Len(entanglement) /\ cursor - 1 \in 1 .. Len(entanglement)
    BY LenProperties DEF StartupTypes, OverGoodBlock
  <1>2. entanglement[cursor - 1] \in Sector
    BY <1>1, ElementOfSeq DEF StartupTypes
  <1> DEFINE b == Xor(disk[entanglement[cursor - 1]], disk[entanglement[cursor - 1]])
  <1>3. b \in Block
    BY <1>2, XorIsBlock DEF StartupTypes
  <1>4. /\ Rebuilt.position = cursor
        /\ Rebuilt.from[1] = cursor - 1 /\ Rebuilt.from[2] = cursor - 1
    BY DEF Rebuilt, Write
  <1>5. RebuiltOnDisk(disk, <<Rebuilt>>) =
          [disk EXCEPT ![entanglement[Rebuilt.position]] =
             Xor(disk[entanglement[Rebuilt.from[1]]], disk[entanglement[Rebuilt.from[2]]])]
    BY OneRebuilt
  <1>6. RebuiltOnDisk(disk, <<Rebuilt>>) = [disk EXCEPT ![Here] = b]
    BY <1>4, <1>5 DEF Here
  <1> HIDE DEF b
  <1> QED
    BY <1>3, <1>6

LEMMA RepairStepShapes ==
  ASSUME StartupTypes, RepairStep
  PROVE  /\ Skip \/ Faults \/ Marks \/ Rebuilds \/ Fails \/ Finish
         /\ \/ disk' = disk
            \/ AtRoot /\ OverGoodBlock /\ \E b \in Block : disk' = [disk EXCEPT ![Here] = b]
  <1>1. Len(entanglement) \in Nat /\ cursor \in Nat \ {0} /\ writes \in Seq(Written)
    BY LenProperties DEF StartupTypes
  <1>2. Skip \/ Faults \/ Marks \/ Rebuilds \/ Fails \/ Finish
    BY <1>1, RepairShapes DEF RepairStep
  <1>3. \/ disk' = RebuiltOnDisk(disk, SubSeq(writes', Len(writes) + 1, Len(writes')))
        \/ errors' # errors /\ disk' = RebuiltOnDisk(disk, <<Rebuilt>>)
    BY DEF RepairStep, Rebuilt
  <1>4. Len(writes) \in Nat
    BY <1>1, LenProperties
  <1>5. CASE Fails \/ Rebuilds
    <2>1. AtRoot /\ OverGoodBlock
      BY <1>5 DEF Fails, Rebuilds
    <2>2. \E b \in Block : RebuiltOnDisk(disk, <<Rebuilt>>) = [disk EXCEPT ![Here] = b]
      BY <2>1, RebuiltHere
    <2>3. CASE writes' = writes
      <3>1. SubSeq(writes', Len(writes) + 1, Len(writes')) = << >>
        BY <1>4, <2>3, SubSeqEmpty
      <3> QED
        BY <1>2, <1>3, <2>1, <2>2, <3>1, NothingRebuilt
    <2>4. CASE Rebuilds
      <3>1. Rebuilt \in Written
        BY <1>1, <2>1 DEF OverGoodBlock, Rebuilt, Write, Written
      <3>2. writes' = Append(writes, Rebuilt)
        BY <2>4 DEF Rebuilds
      <3>3. Len(writes') = Len(writes) + 1 /\ writes'[Len(writes) + 1] = Rebuilt
        BY <1>1, <3>1, <3>2, AppendProperties
      <3>4. SubSeq(writes', Len(writes) + 1, Len(writes')) = <<Rebuilt>>
        <4>1. writes' \in Seq(Written)
          BY <1>1, <3>1, <3>2, AppendProperties
        <4>2. Len(writes) + 1 \in 1 .. Len(writes') /\ Len(writes') \in Len(writes) + 1 .. Len(writes')
          BY <1>4, <3>3
        <4>3. SubSeq(writes', Len(writes) + 1, Len(writes'))
                = SubSeq(writes', Len(writes) + 1, Len(writes') - 1) \o <<writes'[Len(writes')]>>
          BY <4>1, <4>2, SubSeqRecursiveSecond
        <4>4. SubSeq(writes', Len(writes) + 1, Len(writes') - 1) = << >>
          BY <1>4, <3>3, SubSeqEmpty
        <4>5. << >> \o <<Rebuilt>> = <<Rebuilt>>
          BY <3>1, ConcatEmptySeq
        <4> QED
          BY <3>3, <4>3, <4>4, <4>5
      <3> QED
        BY <1>2, <1>3, <2>1, <2>2, <3>4
    <2> QED
      BY <1>5, <2>3, <2>4 DEF Fails
  <1>6. CASE Skip \/ Faults \/ Marks \/ Finish
    <2>1. writes' = writes /\ errors' = errors
      BY <1>6 DEF Skip, Faults, RepairFaults, Marks, Finish
    <2>2. SubSeq(writes', Len(writes) + 1, Len(writes')) = << >>
      BY <1>4, <2>1, SubSeqEmpty
    <2> QED
      BY <1>2, <1>3, <2>1, <2>2, NothingRebuilt
  <1> QED
    BY <1>2, <1>5, <1>6

-----------------------------------------------------------------------------
(* The types.                                                               *)
LEMMA CorruptedHereIsADisk ==
  ASSUME StartupTypes, cursor <= Len(entanglement)
  PROVE  CorruptedHere \in [Sector -> Block]
  <1>1. Here \in Sector
    BY HereIsABlock
  <1>2. \A b \in Block : [b EXCEPT ![1] = NextByte(@)] \in Block
    BY StartupAssumption DEF Block
  <1>3. CorruptedHere = [disk EXCEPT ![Here] = [disk[Here] EXCEPT ![1] = NextByte(@)]]
    BY DEF CorruptedHere
  <1> QED
    BY <1>1, <1>2, <1>3 DEF StartupTypes

LEMMA TypesStep ==
  ASSUME StartupTypes, [StartupNext]_startupVars
  PROVE  StartupTypes'
  <1>1. Len(entanglement) \in Nat
    BY LenProperties DEF StartupTypes
  <1>2. CASE CorruptBlock
    <2>1. CorruptedHere \in [Sector -> Block] /\ Here \in Sector
      BY <1>2, HereIsABlock, CorruptedHereIsADisk DEF CorruptBlock
    <2>2. hits' \in [Sector -> Nat]
      BY <1>2, <2>1 DEF CorruptBlock, StartupTypes
    <2>3. cursor' \in 1 .. Len(entanglement) + 1
      BY <1>1, <1>2 DEF CorruptBlock, Advance, StartupTypes
    <2> QED
      BY <1>2, <2>1, <2>2, <2>3 DEF CorruptBlock, Advance, StartupTypes, Written
  <1>3. CASE SpareBlock
    <2>1. cursor' \in 1 .. Len(entanglement) + 1
      BY <1>1, <1>3 DEF SpareBlock, Advance, StartupTypes
    <2> QED
      BY <1>3, <2>1 DEF SpareBlock, Advance, StartupTypes, Written
  <1>4. CASE CorruptionFails
    <2>1. CorruptedHere \in [Sector -> Block] /\ Here \in Sector
      BY <1>4, HereIsABlock, CorruptedHereIsADisk DEF CorruptionFails
    <2>2. hits' \in [Sector -> Nat] /\ disk' \in [Sector -> Block]
      <3>1. CASE UNCHANGED <<disk, hits>>
        BY <3>1 DEF StartupTypes
      <3>2. CASE disk' = CorruptedHere /\ hits' = [hits EXCEPT ![Here] = @ + 1]
        BY <2>1, <3>2 DEF StartupTypes
      <3> QED
        BY <1>4, <3>1, <3>2 DEF CorruptionFails
    <2> QED
      BY <1>4, <2>2 DEF CorruptionFails, vars, StartupTypes, Written
  <1>5. CASE CorruptionEnds
    <2>1. stage' \in {"check", "up", "refused"}
      BY <1>5 DEF CorruptionEnds, AfterCorruption
    <2> QED
      BY <1>1, <1>5, <2>1 DEF CorruptionEnds, StartupTypes, Written
  <1>6. CASE check_corruption
    <2>1. corrupted_blocks' \subseteq Sector
      BY <1>6 DEF check_corruption, Checked, StartupTypes
    <2> QED
      BY <1>6, <2>1 DEF check_corruption, StartupTypes, Written
  <1>7. CASE CheckFails
    BY <1>7 DEF CheckFails, vars, StartupTypes, Written
  <1>8. CASE RepairStep
    <2>1. /\ Skip \/ Faults \/ Marks \/ Rebuilds \/ Fails \/ Finish
          /\ \/ disk' = disk
             \/ AtRoot /\ OverGoodBlock /\ \E b \in Block : disk' = [disk EXCEPT ![Here] = b]
      BY <1>8, RepairStepShapes
    <2>2. disk' \in [Sector -> Block]
      BY <2>1 DEF StartupTypes
    <2>3. /\ entanglement' = entanglement
          /\ stage' \in {"up", "refused", "repair"}
          /\ redundancy_flag' = redundancy_flag /\ original' = original /\ hits' = hits
      BY <1>8, <2>1 DEF RepairStep, Skip, Faults, RepairFaults, Marks, Rebuilds, Fails,
                        Finish, Advance
    <2>4. cursor' \in 1 .. Len(entanglement) + 1 /\ pc' \in {"scan", "oops", "done", "failed"}
      <3>1. AtRoot => cursor <= Len(entanglement)
        BY DEF AtRoot
      <3> QED
        BY <1>1, <2>1, <3>1 DEF Skip, Faults, RepairFaults, Marks, Rebuilds, Fails,
                                Finish, Advance, StartupTypes
    <2>5. corrupted_blocks' \subseteq Sector /\ irrecoverable_blocks' \subseteq Sector
      BY <2>1 DEF Skip, Faults, RepairFaults, Marks, Rebuilds, Fails, Finish, StartupTypes
    <2>6. errors' \subseteq 1 .. Len(entanglement)
      <3>1. CASE Fails
        BY <1>1, <3>1 DEF Fails, OverGoodBlock, StartupTypes
      <3>2. CASE ~Fails
        BY <2>1, <3>2 DEF Skip, Faults, RepairFaults, Marks, Rebuilds, Finish, StartupTypes
      <3> QED
        BY <3>1, <3>2
    <2>7. writes' \in Seq(Written)
      <3>1. CASE Rebuilds
        <4>1. Rebuilt \in Written
          BY <1>1, <3>1 DEF Rebuilds, OverGoodBlock, Rebuilt, Write, Written
        <4> QED
          BY <3>1, <4>1, AppendProperties DEF Rebuilds, StartupTypes
      <3>2. CASE ~Rebuilds
        BY <2>1, <3>2 DEF Skip, Faults, RepairFaults, Marks, Fails, Finish, StartupTypes
      <3> QED
        BY <3>1, <3>2
    <2> QED
      BY <2>2, <2>3, <2>4, <2>5, <2>6, <2>7 DEF StartupTypes, Written
  <1>9. CASE UNCHANGED startupVars
    BY <1>9 DEF startupVars, vars, StartupTypes, Written
  <1> QED
    BY <1>2, <1>3, <1>4, <1>5, <1>6, <1>7, <1>8, <1>9 DEF StartupNext

-----------------------------------------------------------------------------
(* The other parts of the invariant.                                        *)

(* A step of the repair pass, as far as the program counters go.            *)
LEMMA RepairStages ==
  ASSUME StartupTypes, RepairStep
  PROVE  /\ stage = "repair" /\ pc = "scan" /\ entanglement' = entanglement
         /\ \/ stage' = "repair" /\ pc' = "scan" /\ (Skip \/ Marks \/ Rebuilds \/ Fails)
            \/ stage' = "repair" /\ pc' = "oops" /\ Faults
            \/ stage' \in {"up", "refused"} /\ pc' \in {"done", "failed"} /\ Finish
  <1>1. Skip \/ Faults \/ Marks \/ Rebuilds \/ Fails \/ Finish
    BY RepairStepShapes
  <1>2. /\ stage = "repair"
        /\ stage' = CASE pc' = "done" -> "up"
                      [] pc' = "failed" -> "refused"
                      [] OTHER -> "repair"
    BY DEF RepairStep
  <1>3. CASE Skip \/ Marks \/ Rebuilds \/ Fails
    <2>1. pc = "scan" /\ pc' = "scan" /\ entanglement' = entanglement
      BY <1>3 DEF Skip, Marks, Rebuilds, Fails, AtRoot, Advance
    <2> QED
      BY <1>2, <1>3, <2>1
  <1>4. CASE Faults
    BY <1>2, <1>4 DEF Faults, RepairFaults, AtRoot
  <1>5. CASE Finish
    BY <1>2, <1>5 DEF Finish
  <1> QED
    BY <1>1, <1>3, <1>4, <1>5

LEMMA StagesStep ==
  ASSUME StartupTypes, Stages, [StartupNext]_startupVars
  PROVE  Stages'
  <1>1. CASE CorruptBlock \/ SpareBlock
    BY <1>1 DEF CorruptBlock, SpareBlock, Advance, Stages
  <1>2. CASE CorruptionFails
    BY <1>2 DEF CorruptionFails, vars, Stages
  <1>3. CASE CorruptionEnds
    BY <1>3 DEF CorruptionEnds, AfterCorruption, Stages
  <1>4. CASE check_corruption \/ CheckFails
    BY <1>4 DEF check_corruption, CheckFails, vars, Stages
  <1>5. CASE RepairStep
    <2>1. CASE Faults
      BY <1>5, <2>1, RepairStages DEF Faults, RepairFaults, Stages
    <2>2. CASE ~Faults
      BY <1>5, <2>2, RepairStages DEF Stages
    <2> QED
      BY <2>1, <2>2
  <1>6. CASE UNCHANGED startupVars
    BY <1>6 DEF startupVars, vars, Stages
  <1> QED
    BY <1>1, <1>2, <1>3, <1>4, <1>5, <1>6 DEF StartupNext

LEMMA CorruptedStep ==
  ASSUME StartupTypes, Corrupted, [StartupNext]_startupVars
  PROVE  Corrupted'
  <1>1. CASE CorruptBlock
    <2>1. /\ stage = "corrupt" /\ original' = original
          /\ disk' = [disk EXCEPT ![Here] = [disk[Here] EXCEPT ![1] = NextByte(@)]]
          /\ hits' = [hits EXCEPT ![Here] = @ + 1]
      BY <1>1 DEF CorruptBlock, CorruptedHere
    <2> SUFFICES ASSUME NEW s \in Sector
                 PROVE  /\ hits'[s] = 0 => disk'[s] = original'[s]
                        /\ hits'[s] = 1 => disk'[s] = [original'[s] EXCEPT ![1] = NextByte(@)]
      BY DEF Corrupted
    <2>2. /\ hits[s] = 0 => disk[s] = original[s]
          /\ hits[s] = 1 => disk[s] = [original[s] EXCEPT ![1] = NextByte(@)]
      BY <2>1 DEF Corrupted
    <2>3. CASE s = Here
      <3>1. /\ disk'[s] = [disk[s] EXCEPT ![1] = NextByte(@)]
            /\ hits[s] \in Nat /\ hits'[s] = hits[s] + 1
        BY <2>1, <2>3 DEF StartupTypes
      <3> QED
        BY <2>1, <2>2, <3>1
    <2>4. CASE s # Here
      <3>1. disk'[s] = disk[s] /\ hits'[s] = hits[s]
        BY <2>1, <2>4 DEF StartupTypes
      <3> QED
        BY <2>1, <2>2, <3>1
    <2> QED
      BY <2>3, <2>4
  <1>2. CASE SpareBlock
    BY <1>2 DEF SpareBlock, Corrupted
  <1>3. CASE CorruptionFails \/ CheckFails
    BY <1>3 DEF CorruptionFails, CheckFails, Corrupted
  <1>4. CASE CorruptionEnds
    BY <1>4 DEF CorruptionEnds, Corrupted
  <1>5. CASE check_corruption
    BY <1>5 DEF check_corruption, Corrupted
  <1>6. CASE RepairStep
    BY <1>6, RepairStages DEF Corrupted
  <1>7. CASE UNCHANGED startupVars
    BY <1>7 DEF startupVars, Corrupted
  <1> QED
    BY <1>1, <1>2, <1>3, <1>4, <1>5, <1>6, <1>7 DEF StartupNext

(* The step that leaves a block behind has dealt with it, and with no other *)
(* block that was dealt with before.                                        *)
LEMMA PassedStep ==
  ASSUME StartupTypes, Stages, Passed, [StartupNext]_startupVars
  PROVE  Passed'
  <1>1. Len(entanglement) \in Nat /\ cursor \in 1 .. Len(entanglement) + 1
    BY LenProperties DEF StartupTypes
  <1>2. CASE CorruptBlock \/ SpareBlock
    BY <1>2 DEF CorruptBlock, SpareBlock, Advance, Passed
  <1>3. CASE CorruptionFails
    BY <1>3 DEF CorruptionFails, vars, Stages, Passed
  <1>4. CASE CorruptionEnds
    BY <1>4 DEF CorruptionEnds, AfterCorruption, Stages, Passed
  <1>5. CASE check_corruption
    <2>1. cursor' = 1 /\ pc' = "scan"
      BY <1>5 DEF check_corruption, Stages
    <2> QED
      BY <2>1 DEF Passed
  <1>6. CASE CheckFails
    BY <1>6 DEF CheckFails, vars, Stages, Passed
  <1>7. CASE RepairStep
    <2>1. \A j \in 1 .. cursor - 1 : Handled(j)
      BY <1>7, RepairStages DEF Passed
    <2>2. ASSUME Skip \/ Marks \/ Rebuilds \/ Fails
          PROVE  \A j \in 1 .. cursor' - 1 : Handled(j)'
      <3>1. cursor' = cursor + 1 /\ entanglement' = entanglement
        BY <2>2 DEF Skip, Marks, Rebuilds, Fails, Advance
      <3>2. /\ corrupted_blocks' \subseteq corrupted_blocks
            /\ irrecoverable_blocks \subseteq irrecoverable_blocks'
            /\ errors \subseteq errors'
        BY <2>2 DEF Skip, Marks, Rebuilds, Fails
      <3>3. \A j \in 1 .. cursor - 1 : Handled(j)'
        BY <2>1, <3>1, <3>2 DEF Handled
      <3>4. \A j : j = cursor => Handled(j)'
        <4>1. \/ entanglement[cursor] \notin corrupted_blocks'
              \/ entanglement[cursor] % 2 # 0
              \/ entanglement[cursor] \in irrecoverable_blocks'
              \/ cursor \in errors'
          BY <2>2 DEF Skip, IsRoot, Marks, Rebuilds, Fails
        <4> QED
          BY <3>1, <4>1 DEF Handled
      <3> QED
        BY <1>1, <3>1, <3>3, <3>4
    <2>3. ASSUME Finish
          PROVE  \A j \in 1 .. Len(entanglement') : Handled(j)'
      <3>1. UNCHANGED <<entanglement, corrupted_blocks, irrecoverable_blocks, errors>>
        BY <2>3 DEF Finish
      <3>2. cursor > Len(entanglement)
        BY <2>3 DEF Finish
      <3>3. \A j \in 1 .. Len(entanglement) : Handled(j)
        BY <1>1, <2>1, <3>2
      <3> QED
        BY <3>1, <3>3 DEF Handled
    <2> QED
      BY <1>7, <2>2, <2>3, RepairStages DEF Passed
  <1>8. CASE UNCHANGED startupVars
    BY <1>8 DEF startupVars, vars, Passed, Handled
  <1> QED
    BY <1>2, <1>3, <1>4, <1>5, <1>6, <1>7, <1>8 DEF StartupNext

LEMMA StartupInvInit ==
  ASSUME StartupInit
  PROVE  StartupInv
  <1>1. entanglement \in Seq(Sector) /\ irrecoverable_blocks \subseteq Sector
    BY RepairAssumption DEF StartupInit, Init
  <1>2. Len(entanglement) \in Nat
    BY <1>1, LenProperties
  <1>3. /\ corrupted_blocks \subseteq Sector /\ cursor \in 1 .. Len(entanglement) + 1
        /\ cursor = 1 /\ pc = "scan" /\ errors \subseteq 1 .. Len(entanglement)
    BY <1>2 DEF StartupInit, Init
  <1>4. writes \in Seq(Written)
    BY EmptySeq DEF StartupInit, Init
  <1>5. /\ disk \in [Sector -> Block] /\ original = disk
        /\ hits \in [Sector -> Nat] /\ \A s \in Sector : hits[s] = 0
        /\ redundancy_flag \in BOOLEAN
    BY StartupAssumption DEF StartupInit
  <1>6. stage \in {"corrupt", "check", "up"}
    BY DEF StartupInit
  <1>7. StartupTypes
    BY <1>1, <1>3, <1>4, <1>5, <1>6 DEF StartupTypes
  <1>8. Corrupted
    BY <1>5 DEF Corrupted
  <1> QED
    BY <1>3, <1>6, <1>7, <1>8 DEF StartupInv, Stages, Passed

LEMMA StartupInvariant == StartupSpec => []StartupInv
  <1>1. StartupInit => StartupInv
    BY StartupInvInit
  <1>2. StartupInv /\ [StartupNext]_startupVars => StartupInv'
    BY TypesStep, StagesStep, CorruptedStep, PassedStep DEF StartupInv
  <1> QED
    BY <1>1, <1>2, PTL DEF StartupSpec

-----------------------------------------------------------------------------
(* What holds in every state.                                               *)

(* The variables of the constructor and of its repair pass keep their types. *)
THEOREM StartupTypeCorrect == StartupSpec => []StartupTypeOK
  <1>1. StartupInv => StartupTypeOK
    <2> SUFFICES ASSUME StartupInv PROVE StartupTypeOK
      OBVIOUS
    <2>1. \A w \in Range(writes) : w \in Written
      BY RangeOfSeq DEF StartupInv, StartupTypes
    <2>2. \A w \in Range(writes) :
            /\ w.position \in 1 .. Len(entanglement)
            /\ w.from \in (1 .. Len(entanglement)) \X (1 .. Len(entanglement))
      BY <2>1 DEF Written
    <2> QED
      BY <2>2 DEF StartupInv, StartupTypes, StartupTypeOK, TypeOK
  <1> QED
    BY <1>1, StartupInvariant, PTL

(* For every list and both bitmaps: the pass touches the head of the list   *)
(* only when the first block of the list is marked as corrupted.            *)
THEOREM OopsOverFirstBlock == StartupSpec => []OopsOnlyOverFirstBlock
  <1>1. StartupInv => OopsOnlyOverFirstBlock
    BY DEF StartupInv, Stages, OopsOnlyOverFirstBlock
  <1> QED
    BY <1>1, StartupInvariant, PTL

(* A pass that returns has cleared, marked or given up every even sector    *)
(* that was marked as corrupted, however often the list names it.           *)
THEOREM RootsAreHandled == StartupSpec => []NoRootIsForgotten
  <1>1. StartupInv => NoRootIsForgotten
    BY DEF StartupInv, Passed, Handled, NoRootIsForgotten
  <1> QED
    BY <1>1, StartupInvariant, PTL

(* A change of the second byte changes what the checksum reads.             *)
LEMMA HitIsSeen ==
  ASSUME NEW b \in Block, b[0] # ZeroByte, NEW m, NEW n
  PROVE  crc32b([b EXCEPT ![1] = NextByte(@)], m) # crc32b(b, n)
  <1> DEFINE d == [b EXCEPT ![1] = NextByte(@)]
             readOf(c) == {i \in Position : \A j \in 0 .. i : c[j] # ZeroByte}
  <1>1. 0 \in Position /\ 1 \in Position /\ 0 .. 1 = {0, 1}
    BY StartupAssumption, SizeAssumption DEF Position
  <1>2. b[1] \in Byte /\ NextByte(b[1]) # b[1]
    BY <1>1, StartupAssumption DEF Block
  <1>3. d[0] = b[0] /\ d[1] = NextByte(b[1])
    BY <1>1 DEF Block
  <1>4. 1 \in readOf(b) <=> b[1] # ZeroByte
    BY <1>1
  <1>5. 1 \in readOf(d) <=> d[1] # ZeroByte
    BY <1>1, <1>3
  <1> HIDE DEF d
  <1>6. \A c : DOMAIN CrcInput(c) = readOf(c) /\ \A i \in readOf(c) : CrcInput(c)[i] = c[i]
    BY DEF CrcInput
  <1> HIDE DEF readOf
  <1>7. CrcInput(d) # CrcInput(b)
    <2> SUFFICES ASSUME CrcInput(d) = CrcInput(b) PROVE FALSE
      OBVIOUS
    <2>1. readOf(d) = readOf(b)
      BY <1>6
    <2>2. 1 \notin readOf(b)
      <3> SUFFICES ASSUME 1 \in readOf(b) PROVE FALSE
        OBVIOUS
      <3>1. d[1] = b[1]
        BY <1>6, <2>1
      <3> QED
        BY <1>2, <1>3, <3>1
    <2>3. b[1] = ZeroByte /\ d[1] = ZeroByte
      BY <1>4, <1>5, <2>1, <2>2
    <2> QED
      BY <1>2, <1>3, <2>3
  <1>8. crc32b(d, m).read = CrcInput(d) /\ crc32b(b, n).read = CrcInput(b)
    BY DEF crc32b
  <1> QED
    BY <1>7, <1>8 DEF d

(* A block hit once by corrupt_blocks has a checksum it did not have, what- *)
(* ever its size, its content and the memory behind it.                     *)
THEOREM OneHitIsSeen == StartupSpec => []OneHitChangesChecksum
  <1>1. StartupInv => OneHitChangesChecksum
    <2> SUFFICES ASSUME StartupInv, stage \in {"corrupt", "check"},
                        NEW s \in Sector, NEW m \in Beyond, NEW n \in Beyond,
                        hits[s] = 1, original[s][0] # ZeroByte
                 PROVE  crc32b(disk[s], m) # crc32b(original[s], n)
      BY DEF OneHitChangesChecksum
    <2>1. disk[s] = [original[s] EXCEPT ![1] = NextByte(@)]
      BY DEF StartupInv, Corrupted
    <2>2. original[s] \in Block
      BY DEF StartupInv, StartupTypes
    <2> QED
      BY <2>1, <2>2, HitIsSeen
  <1> QED
    BY <1>1, StartupInvariant, PTL

-----------------------------------------------------------------------------
(* What holds of every step.                                                *)

(* A step of the constructor that is no step of the repair pass writes no   *)
(* block of the list back and takes no bit away.                            *)
LEMMA OnlyRepairRewrites ==
  ASSUME [StartupNext]_startupVars, ~RepairStep
  PROVE  /\ writes' = writes
         /\ irrecoverable_blocks' = irrecoverable_blocks
         /\ corrupted_blocks' = corrupted_blocks
         /\ stage # "corrupt" => disk' = disk
  <1>1. CASE check_corruption
    <2>1. \A s \in Sector : sector_checksum_map[s] = ZeroChecksum
      BY DEF sector_checksum_map
    <2>2. {s \in Checked : /\ sector_checksum_map[s] # ZeroChecksum
                           /\ \E m \in Beyond : crc32b(disk[s], m) # sector_checksum_map[s]} = {}
      BY <2>1 DEF Checked
    <2> QED
      BY <1>1, <2>2 DEF check_corruption
  <1>2. CASE CorruptBlock \/ SpareBlock \/ CorruptionEnds
    BY <1>2 DEF CorruptBlock, SpareBlock, CorruptionEnds
  <1>3. CASE CorruptionFails \/ CheckFails
    BY <1>3 DEF CorruptionFails, CheckFails, vars
  <1>4. CASE UNCHANGED startupVars
    BY <1>4 DEF startupVars, vars
  <1> QED
    BY <1>1, <1>2, <1>3, <1>4 DEF StartupNext

(* No block is ever written but the one the loop is at, from the one before *)
(* it, which was good: the recursion repairs nothing, however long the list. *)
THEOREM RecursionRepairsNothing == StartupSpec => OnlyRootsAreRebuilt
  <1> DEFINE P == writes' # writes =>
                    /\ writes' = Append(writes, Write(cursor, cursor - 1, cursor - 1))
                    /\ entanglement[cursor - 1] \notin corrupted_blocks
  <1>1. StartupInv /\ [StartupNext]_startupVars => [P]_vars
    <2> SUFFICES ASSUME StartupInv, [StartupNext]_startupVars, writes' # writes
                 PROVE  P
      OBVIOUS
    <2>1. RepairStep
      BY OnlyRepairRewrites
    <2>2. Rebuilds
      BY <2>1, RepairStepShapes
      DEF StartupInv, Skip, Faults, RepairFaults, Marks, Fails, Finish
    <2> QED
      BY <2>2 DEF Rebuilds, OverGoodBlock, Rebuilt
  <1> QED
    BY <1>1, StartupInvariant, PTL DEF StartupSpec, OnlyRootsAreRebuilt

(* Only corrupted blocks become irrecoverable, and only a block that was    *)
(* written loses its bit.                                                   *)
THEOREM BitsAreJustified == StartupSpec => BitsFollowRepairs
  <1> DEFINE P == /\ irrecoverable_blocks \subseteq irrecoverable_blocks'
                  /\ irrecoverable_blocks' \ irrecoverable_blocks \subseteq corrupted_blocks'
                  /\ corrupted_blocks' \subseteq corrupted_blocks
                  /\ corrupted_blocks \ corrupted_blocks' \subseteq SectorsOf(writes')
  <1>1. StartupInv /\ [StartupNext]_startupVars => [P]_vars
    <2> SUFFICES ASSUME StartupInv, [StartupNext]_startupVars PROVE P
      OBVIOUS
    <2>1. CASE ~RepairStep
      BY <2>1, OnlyRepairRewrites
    <2>2. CASE RepairStep
      <3>1. Skip \/ Faults \/ Marks \/ Rebuilds \/ Fails \/ Finish
        BY <2>2, RepairStepShapes DEF StartupInv
      <3>2. CASE Rebuilds
        <4>1. Len(entanglement) \in Nat /\ writes \in Seq(Written)
          BY LenProperties DEF StartupInv, StartupTypes
        <4>2. Rebuilt \in Written /\ Rebuilt.position = cursor
          BY <3>2, <4>1 DEF Rebuilds, OverGoodBlock, Rebuilt, Write, Written
        <4>3. /\ writes' \in Seq(Written) /\ Len(writes') = Len(writes) + 1
              /\ writes'[Len(writes) + 1] = Rebuilt /\ Len(writes) \in Nat
          BY <3>2, <4>1, <4>2, AppendProperties, LenProperties DEF Rebuilds
        <4>4. Range(writes') = {writes'[j] : j \in 1 .. Len(writes')}
          BY <4>3, RangeEquality
        <4>5. Rebuilt \in Range(writes')
          BY <4>3, <4>4
        <4>6. entanglement[cursor] \in SectorsOf(writes')
          BY <4>2, <4>5 DEF SectorsOf
        <4> QED
          BY <3>2, <4>6 DEF Rebuilds
      <3>3. CASE Marks
        BY <3>3 DEF Marks
      <3>4. CASE Skip \/ Faults \/ Fails \/ Finish
        BY <3>4 DEF Skip, Faults, RepairFaults, Fails, Finish
      <3> QED
        BY <3>1, <3>2, <3>3, <3>4
    <2> QED
      BY <2>1, <2>2
  <1> QED
    BY <1>1, StartupInvariant, PTL DEF StartupSpec, BitsFollowRepairs

(* Search and repair leave every block as it was that is not in the list or *)
(* whose bit is not set, whichever read or write fails.                     *)
THEOREM GoodBlocksAreKept == StartupSpec => OnlyMarkedBlocksAreRewritten
  <1> DEFINE P == stage # "corrupt" =>
                    \A s \in Sector :
                      disk'[s] # disk[s] => s \in corrupted_blocks /\ s \in Range(entanglement)
  <1>1. StartupInv /\ [StartupNext]_startupVars => [P]_startupVars
    <2> SUFFICES ASSUME StartupInv, [StartupNext]_startupVars, stage # "corrupt",
                        NEW s \in Sector, disk'[s] # disk[s]
                 PROVE  s \in corrupted_blocks /\ s \in Range(entanglement)
      OBVIOUS
    <2>1. RepairStep
      BY OnlyRepairRewrites
    <2>2. AtRoot /\ OverGoodBlock /\ \E b \in Block : disk' = [disk EXCEPT ![Here] = b]
      BY <2>1, RepairStepShapes DEF StartupInv
    <2>3. s = entanglement[cursor]
      BY <2>2 DEF Here, StartupInv, StartupTypes
    <2>4. entanglement \in Seq(Sector) /\ cursor \in 1 .. Len(entanglement)
      BY <2>2, LenProperties DEF OverGoodBlock, StartupInv, StartupTypes
    <2>5. s \in Range(entanglement)
      BY <2>3, <2>4, RangeEquality
    <2>6. s \in corrupted_blocks
      BY <2>2, <2>3 DEF AtRoot, IsRoot
    <2> QED
      BY <2>5, <2>6
  <1> QED
    BY <1>1, StartupInvariant, PTL DEF StartupSpec, OnlyMarkedBlocksAreRewritten
=============================================================================

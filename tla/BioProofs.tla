------------------------------ MODULE BioProofs ------------------------------
(***************************************************************************)
(* Proofs about BioLifecycle: for any number of bios and sectors, and      *)
(* whatever order requests are issued and completed in, references, pages  *)
(* and answers are right, only the second completion of a write may end a  *)
(* bio that is gone, and what the device gets of writes is in the chain.   *)
(***************************************************************************)
EXTENDS BioLifecycle, SequenceTheorems, FiniteSetTheorems, TLAPS

(* What a set of halves can come to.                                        *)
LEMMA CountHalves ==
  ASSUME NEW f, NEW X
  PROVE  Cardinality({h \in Half : f[h] \in X}) =
           (IF f["data"] \in X THEN 1 ELSE 0) + (IF f["parity"] \in X THEN 1 ELSE 0)
  <1> DEFINE S == {h \in Half : f[h] \in X}
  <1>1. CASE f["data"] \in X /\ f["parity"] \in X
    <2>1. S = {"data"} \cup {"parity"}
      BY <1>1 DEF Half
    <2>2. IsFiniteSet({"data"}) /\ Cardinality({"data"}) = 1
      BY FS_Singleton
    <2>3. Cardinality({"data"} \cup {"parity"}) = 2
      BY <2>2, FS_AddElement
    <2> QED
      BY <1>1, <2>1, <2>3
  <1>2. CASE f["data"] \in X /\ f["parity"] \notin X
    <2>1. S = {"data"}
      BY <1>2 DEF Half
    <2> QED
      BY <1>2, <2>1, FS_Singleton
  <1>3. CASE f["data"] \notin X /\ f["parity"] \in X
    <2>1. S = {"parity"}
      BY <1>3 DEF Half
    <2> QED
      BY <1>3, <2>1, FS_Singleton
  <1>4. CASE f["data"] \notin X /\ f["parity"] \notin X
    <2>1. S = {}
      BY <1>4 DEF Half
    <2> QED
      BY <1>4, <2>1, FS_EmptySet
  <1> QED
    BY <1>1, <1>2, <1>3, <1>4

(* A sequence of n times the same answer.                                   *)
Says(s, n, x) ==
  /\ s \in Seq({"ok", "error"})
  /\ Len(s) = n
  /\ \A i \in 1 .. n : s[i] = x

LEMMA NothingSaid == ASSUME NEW x PROVE Says(<< >>, 0, x)
  BY DEF Says

LEMMA OneMore ==
  ASSUME NEW s, NEW n \in Nat, NEW x \in {"ok", "error"}, Says(s, n, x)
  PROVE  Says(Append(s, x), n + 1, x)
  <1> DEFINE t == Append(s, x)
  <1>1. /\ t \in Seq({"ok", "error"})
        /\ Len(t) = n + 1
        /\ \A i \in 1 .. n : t[i] = s[i]
        /\ t[n + 1] = x
    BY AppendProperties DEF Says
  <1> HIDE DEF t
  <1>2. \A i \in 1 .. n + 1 : i \in 1 .. n \/ i = n + 1
    OBVIOUS
  <1>3. \A i \in 1 .. n + 1 : t[i] = x
    BY <1>1, <1>2 DEF Says
  <1> QED
    BY <1>1, <1>3 DEF Says, t

(* Both errors of the error path.                                           *)
LEMMA TwoErrors ==
  ASSUME NEW s, NEW x, Says(s, 0, x)
  PROVE  Says(s \o <<"error", "error">>, 2, "error")
  <1> DEFINE e == <<"error", "error">>
             t == s \o e
  <1>1. e \in Seq({"ok", "error"}) /\ Len(e) = 2 /\ e[1] = "error" /\ e[2] = "error"
    OBVIOUS
  <1>2. s \in Seq({"ok", "error"}) /\ Len(s) = 0
    BY DEF Says
  <1> HIDE DEF e
  <1>3. /\ t \in Seq({"ok", "error"})
        /\ Len(t) = 2
        /\ \A i \in 1 .. 2 : t[i] = e[i]
    <2>1. /\ t \in Seq({"ok", "error"})
          /\ Len(t) = Len(s) + Len(e)
          /\ \A i \in 1 .. Len(s) + Len(e) :
               t[i] = IF i <= Len(s) THEN s[i] ELSE e[i - Len(s)]
      BY <1>1, <1>2, ConcatProperties
    <2> HIDE DEF t
    <2> QED
      BY <2>1, <1>1, <1>2
  <1> HIDE DEF t
  <1>4. \A i \in 1 .. 2 : t[i] = "error"
    BY <1>1, <1>3
  <1> QED
    BY <1>3, <1>4 DEF Says, t, e

LEMMA OneAnswerOnly ==
  ASSUME NEW s, NEW n \in Nat, NEW x, Says(s, n, x)
  PROVE  /\ Range(s) \subseteq {x}
         /\ Cardinality(Range(s)) <= 1
  <1>1. Range(s) \subseteq {x}
    BY DEF Range, Says
  <1>2. Range(s) = {} \/ Range(s) = {x}
    BY <1>1
  <1>3. Cardinality({}) = 0 /\ Cardinality({x}) = 1
    BY FS_EmptySet, FS_Singleton
  <1> QED
    BY <1>1, <1>2, <1>3

-----------------------------------------------------------------------------
Inside == {"locked", "flushing", "oops"}

(* What a request that has yet to complete counts, and one that answered.   *)
Pending(x) == IF x \in {"parked", "inflight"} THEN 1 ELSE 0

Told(x) == IF x \in {"ended", "done"} THEN 1 ELSE 0

(* A read holds a reference from its submission to its completion.          *)
ReadInv(r) ==
  /\ at[r] \in {"new", "returned", "failed"}
  /\ sub[r]["parity"] = "none"
  /\ at[r] \in {"new", "failed"} => sub[r]["data"] = "none"
  /\ at[r] = "returned" => sub[r]["data"] \in {"parked", "inflight", "ending", "done"}
  /\ refs[r] = Pending(sub[r]["data"])
  /\ at[r] = "new" => Says(answers[r], 0, "ok")
  /\ at[r] = "returned" => Says(answers[r], Told(sub[r]["data"]), "ok")
  /\ at[r] = "failed" => Says(answers[r], 1, "error")

(* How far the two requests of a write are, by where its handler is.        *)
RequestsInv(w) ==
  /\ at[w] \in {"new", "waiting"} \cup Inside => \A h \in Half : sub[w][h] = "none"
  /\ at[w] = "returned" =>
       /\ sub[w]["data"] \in Submitted \ {"ended"} /\ sub[w]["parity"] \in Submitted
       /\ sub[w]["data"] = "parked" => sub[w]["parity"] = "parked"
  /\ at[w] = "failed" => \A h \in Half : sub[w][h] \in {"none", "leaked"}

(* Its references, each given back by one of the completions.               *)
RefsInv(w) ==
  refs[w] = IF at[w] \in Inside
            THEN 2
            ELSE Pending(sub[w]["data"]) + Pending(sub[w]["parity"])

(* Each completion answers it, unless its handler failed.                   *)
AnswersInv(w) ==
  /\ at[w] \in {"new", "waiting"} \cup Inside => Says(answers[w], 0, "ok")
  /\ at[w] = "returned" =>
       Says(answers[w], Told(sub[w]["data"]) + Told(sub[w]["parity"]), "ok")
  /\ at[w] = "failed" =>
       Says(answers[w], 1, "error") \/ Says(answers[w], 2, "error")

(* Its page.                                                                *)
PageInv(w) ==
  /\ at[w] = "new" => page[w] = "none"
  /\ at[w] \in {"waiting"} \cup Inside => page[w] = "held"
  /\ at[w] = "returned" =>
       page[w] = IF sub[w]["parity"] = "done" THEN "free" ELSE "held"
  /\ at[w] = "failed" => page[w] \in {"none", "free", "lost"}

WriteInv(w) == RequestsInv(w) /\ RefsInv(w) /\ AnswersInv(w) /\ PageInv(w)

BioInv ==
  /\ TypeOK
  /\ \A r \in Read : ReadInv(r)
  /\ \A w \in Write : WriteInv(w)

LEMMA BioInit == Init => BioInv
  <1> SUFFICES ASSUME Init PROVE BioInv
    OBVIOUS
  <1> USE DEF Init, Bio
  <1>1. TypeOK
    BY DEF TypeOK, Half
  <1>2. ASSUME NEW b \in Bio
        PROVE  /\ at[b] = "new" /\ refs[b] = 0
               /\ sub[b]["data"] = "none" /\ sub[b]["parity"] = "none"
               /\ \A x : Says(answers[b], 0, x)
    BY NothingSaid DEF Half
  <1>3. ASSUME NEW r \in Read PROVE ReadInv(r)
    BY <1>2 DEF ReadInv, Pending
  <1>4. ASSUME NEW w \in Write PROVE WriteInv(w)
    <2>1. page[w] = "none"
      OBVIOUS
    <2>2. at[w] = "new" /\ refs[w] = 0 /\ \A x : Says(answers[w], 0, x)
      BY <1>2
    <2>3. \A h \in Half : sub[w][h] = "none"
      BY <1>2 DEF Half
    <2>4. RequestsInv(w) /\ PageInv(w) /\ AnswersInv(w)
      BY <2>1, <2>2, <2>3 DEF RequestsInv, PageInv, AnswersInv, Inside
    <2>5. RefsInv(w)
      BY <2>2, <1>2 DEF RefsInv, Pending, Inside
    <2> QED
      BY <2>4, <2>5 DEF WriteInv
  <1> QED
    BY <1>1, <1>3, <1>4 DEF BioInv

-----------------------------------------------------------------------------
(* A step of one bio leaves what is said of the others alone.               *)
OnlyOf(b) ==
  /\ \A c \in Bio \ {b} :
       at'[c] = at[c] /\ refs'[c] = refs[c] /\ answers'[c] = answers[c] /\ sub'[c] = sub[c]
  /\ \A w \in Write \ {b} : page'[w] = page[w]

LEMMA OthersKeep ==
  ASSUME BioInv, NEW b \in Bio, OnlyOf(b)
  PROVE  /\ \A r \in Read \ {b} : ReadInv(r)'
         /\ \A w \in Write \ {b} : WriteInv(w)'
  <1>1. ASSUME NEW r \in Read \ {b} PROVE ReadInv(r)'
    <2>1. /\ at'[r] = at[r] /\ refs'[r] = refs[r] /\ answers'[r] = answers[r]
          /\ sub'[r] = sub[r]
      BY <1>1 DEF OnlyOf, Bio
    <2> QED
      BY <1>1, <2>1 DEF BioInv, ReadInv, Says, Pending, Told
  <1>2. ASSUME NEW w \in Write \ {b} PROVE WriteInv(w)'
    <2>1. /\ at'[w] = at[w] /\ refs'[w] = refs[w] /\ answers'[w] = answers[w]
          /\ sub'[w] = sub[w] /\ page'[w] = page[w]
      BY <1>2 DEF OnlyOf, Bio
    <2>2. WriteInv(w)
      BY <1>2 DEF BioInv
    <2>3. RequestsInv(w)' /\ PageInv(w)'
      BY <2>1, <2>2 DEF WriteInv, RequestsInv, PageInv
    <2>4. RefsInv(w)'
      BY <2>1, <2>2 DEF WriteInv, RefsInv, Pending
    <2>5. AnswersInv(w)'
      BY <2>1, <2>2 DEF WriteInv, AnswersInv, Says, Told
    <2> QED
      BY <2>3, <2>4, <2>5 DEF WriteInv
  <1> QED
    BY <1>1, <1>2

(* What is left to show of the step of a read, and of a write.              *)
LEMMA ReadStep ==
  ASSUME BioInv, NEW r \in Read, OnlyOf(r), TypeOK', ReadInv(r)'
  PROVE  BioInv'
  <1>1. r \in Bio /\ r \notin Write
    BY BioAssumption DEF Bio
  <1> QED
    BY <1>1, OthersKeep DEF BioInv

LEMMA WriteStep ==
  ASSUME BioInv, NEW w \in Write, OnlyOf(w), TypeOK', WriteInv(w)'
  PROVE  BioInv'
  <1>1. w \in Bio /\ w \notin Read
    BY BioAssumption DEF Bio
  <1> QED
    BY <1>1, OthersKeep DEF BioInv

States == {"none", "parked", "inflight", "ending", "ended", "done", "leaked"}

(* A step of one bio: where its handler is, its references, its answers and *)
(* its requests; and the rest keeps its type.                               *)
StepOf(b, a, n, s, x) ==
  /\ a \in {"new", "waiting", "locked", "flushing", "returned", "failed", "oops"}
  /\ n \in 0 .. 2 /\ s \in Seq({"ok", "error"}) /\ x \in [Half -> States]
  /\ at' = [at EXCEPT ![b] = a] /\ refs' = [refs EXCEPT ![b] = n]
  /\ answers' = [answers EXCEPT ![b] = s] /\ sub' = [sub EXCEPT ![b] = x]
  /\ lock' \in Write \cup {NoBio} /\ page' \in [Write -> {"none", "held", "free", "lost"}]
  /\ chain' \in Seq(Write) /\ disk' \in [Sector -> [Half -> Write \cup {NoBio}]]
  /\ \A w \in Write \ {b} : page'[w] = page[w]

LEMMA StepKeepsTypes ==
  ASSUME TypeOK, NEW b \in Bio, NEW a, NEW n, NEW s, NEW x, StepOf(b, a, n, s, x)
  PROVE  /\ TypeOK' /\ OnlyOf(b)
         /\ at'[b] = a /\ refs'[b] = n /\ answers'[b] = s /\ sub'[b] = x
  <1>1. /\ at' \in [Bio -> {"new", "waiting", "locked", "flushing", "returned", "failed", "oops"}]
        /\ at'[b] = a /\ \A c \in Bio \ {b} : at'[c] = at[c]
    BY DEF TypeOK, StepOf
  <1>2. refs' \in [Bio -> 0 .. 2] /\ refs'[b] = n /\ \A c \in Bio \ {b} : refs'[c] = refs[c]
    BY DEF TypeOK, StepOf
  <1>3. /\ answers' \in [Bio -> Seq({"ok", "error"})]
        /\ answers'[b] = s /\ \A c \in Bio \ {b} : answers'[c] = answers[c]
    BY DEF TypeOK, StepOf
  <1>4. /\ sub' \in [Bio -> [Half -> States]]
        /\ sub'[b] = x /\ \A c \in Bio \ {b} : sub'[c] = sub[c]
    BY DEF TypeOK, States, StepOf
  <1> QED
    BY <1>1, <1>2, <1>3, <1>4 DEF TypeOK, States, StepOf, OnlyOf

(* EXCEPT that changes nothing.                                             *)
LEMMA Same ==
  ASSUME TypeOK, NEW b \in Bio
  PROVE  /\ at = [at EXCEPT ![b] = at[b]] /\ refs = [refs EXCEPT ![b] = refs[b]]
         /\ answers = [answers EXCEPT ![b] = answers[b]] /\ sub = [sub EXCEPT ![b] = sub[b]]
         /\ at[b] \in {"new", "waiting", "locked", "flushing", "returned", "failed", "oops"}
         /\ refs[b] \in 0 .. 2 /\ answers[b] \in Seq({"ok", "error"})
         /\ sub[b] \in [Half -> States]
         /\ \A h \in Half, v \in States :
              /\ [sub EXCEPT ![b][h] = v] = [sub EXCEPT ![b] = [sub[b] EXCEPT ![h] = v]]
              /\ [sub[b] EXCEPT ![h] = v] \in [Half -> States]
              /\ [sub[b] EXCEPT ![h] = v][h] = v
              /\ \A g \in Half \ {h} : [sub[b] EXCEPT ![h] = v][g] = sub[b][g]
  BY DEF TypeOK, States

-----------------------------------------------------------------------------
(* The issue of a request, of a read or of a write.                         *)
LEMMA IssueKeeps ==
  ASSUME BioInv, NEW b \in Bio, NEW h \in Half, Issue(b, h)
  PROVE  BioInv'
  <1> DEFINE x == [sub[b] EXCEPT ![h] = "inflight"]
  <1>1. TypeOK /\ "inflight" \in States /\ h \in {"data", "parity"}
    BY DEF BioInv, States, Half
  <1>2. /\ x \in [Half -> States] /\ x[h] = "inflight"
        /\ \A g \in Half \ {h} : x[g] = sub[b][g]
    BY <1>1, Same
  <1>3. /\ sub' = [sub EXCEPT ![b] = x] /\ sub[b][h] = "parked"
        /\ h = "parity" => sub[b]["data"] # "parked"
        /\ UNCHANGED <<at, refs, answers, lock, page, chain, disk>>
    BY <1>1, Same DEF Issue
  <1> HIDE DEF x
  <1>4. /\ TypeOK'
        /\ at'[b] = at[b] /\ refs'[b] = refs[b] /\ answers'[b] = answers[b] /\ sub'[b] = x
        /\ \A c \in Bio \ {b} : sub'[c] = sub[c]
    <2>1. sub' \in [Bio -> [Half -> States]] /\ sub'[b] = x /\ \A c \in Bio \ {b} : sub'[c] = sub[c]
      BY <1>1, <1>2, <1>3 DEF TypeOK, States
    <2> QED
      BY <1>1, <1>3, <2>1 DEF TypeOK, States
  <1>5. OnlyOf(b)
    BY <1>3, <1>4 DEF OnlyOf
  <1>6. CASE b \in Read
    <2>1. ReadInv(b)
      BY <1>6 DEF BioInv
    <2>2. h = "data" /\ x["data"] = "inflight" /\ x["parity"] = sub[b]["parity"]
      BY <1>1, <1>2, <1>3, <2>1 DEF ReadInv, Half
    <2>3. ReadInv(b)'
      BY <1>3, <1>4, <2>1, <2>2 DEF ReadInv, Pending, Told, Says
    <2> QED
      BY <1>4, <1>5, <1>6, <2>3, ReadStep
  <1>7. CASE b \in Write
    <2>1. RequestsInv(b) /\ RefsInv(b) /\ AnswersInv(b) /\ PageInv(b)
      BY <1>7 DEF BioInv, WriteInv
    <2>2. at[b] = "returned"
      BY <1>1, <1>3, <1>7, <2>1 DEF RequestsInv, BioInv, TypeOK, Inside, Half
    <2>3. x["data"] = (IF h = "data" THEN "inflight" ELSE sub[b]["data"])
          /\ x["parity"] = (IF h = "parity" THEN "inflight" ELSE sub[b]["parity"])
      BY <1>1, <1>2 DEF Half
    <2>4. RequestsInv(b)' /\ RefsInv(b)' /\ PageInv(b)'
      <3>1. RequestsInv(b)'
        BY <1>1, <1>3, <1>4, <2>1, <2>2, <2>3 DEF RequestsInv, Submitted, Inside
      <3>2. RefsInv(b)'
        BY <1>1, <1>3, <1>4, <2>1, <2>2, <2>3 DEF RefsInv, Inside, Pending
      <3>3. PageInv(b)'
        BY <1>1, <1>3, <1>4, <2>1, <2>2, <2>3 DEF PageInv, Inside
      <3> QED
        BY <3>1, <3>2, <3>3
    <2>5. AnswersInv(b)'
      <3>1. Told(x["data"]) = Told(sub[b]["data"]) /\ Told(x["parity"]) = Told(sub[b]["parity"])
        BY <1>1, <1>3, <2>3 DEF Told
      <3> QED
        BY <1>4, <2>1, <2>2, <3>1 DEF AnswersInv, Inside, Says
    <2> QED
      BY <1>4, <1>5, <1>7, <2>4, <2>5, WriteStep DEF WriteInv
  <1> QED
    BY <1>6, <1>7 DEF Bio

-----------------------------------------------------------------------------
(* The steps of a read.                                                     *)
LEMMA SubmitReadKeeps ==
  ASSUME BioInv, NEW r \in Read, SubmitRead(r)
  PROVE  BioInv'
  <1>1. r \in Bio /\ r \notin Write /\ TypeOK /\ ReadInv(r)
    BY BioAssumption DEF BioInv, Bio
  <1> DEFINE x == [sub[r] EXCEPT !["data"] = "parked"]
  <1>2. /\ x \in [Half -> States] /\ x["data"] = "parked" /\ x["parity"] = sub[r]["parity"]
    BY <1>1, Same DEF States, Half
  <1>3. at[r] = "new" /\ refs[r] = 0 /\ Says(answers[r], 0, "ok")
    BY <1>1 DEF SubmitRead, ReadInv, Pending
  <1>4. /\ at' = [at EXCEPT ![r] = "returned"] /\ refs' = [refs EXCEPT ![r] = 1]
        /\ answers' = [answers EXCEPT ![r] = answers[r]] /\ sub' = [sub EXCEPT ![r] = x]
    BY <1>1, <1>3, Same DEF SubmitRead
  <1> HIDE DEF x
  <1>5. /\ TypeOK'
        /\ at'[r] = "returned" /\ refs'[r] = 1 /\ answers'[r] = answers[r] /\ sub'[r] = x
        /\ OnlyOf(r)
    <2>1. StepOf(r, "returned", 1, answers[r], x)
      <3>1. /\ lock' \in Write \cup {NoBio} /\ page' \in [Write -> {"none", "held", "free", "lost"}]
            /\ chain' \in Seq(Write) /\ disk' \in [Sector -> [Half -> Write \cup {NoBio}]]
            /\ page' = page
        BY <1>1 DEF SubmitRead, TypeOK
      <3> QED
        BY <1>1, <1>2, <1>4, Same, <3>1 DEF StepOf
    <2> QED
      BY <1>1, <2>1, StepKeepsTypes
  <1>6. ReadInv(r)'
    BY <1>1, <1>2, <1>3, <1>5 DEF ReadInv, Pending, Told
  <1> QED
    BY <1>5, <1>6, ReadStep

LEMMA KillReadKeeps ==
  ASSUME BioInv, NEW r \in Read, KillRead(r)
  PROVE  BioInv'
  <1>1. r \in Bio /\ r \notin Write /\ TypeOK /\ ReadInv(r)
    BY BioAssumption DEF BioInv, Bio
  <1> DEFINE s == Append(answers[r], "error")
  <1>2. at[r] = "new" /\ Says(answers[r], 0, "error")
    BY <1>1 DEF KillRead, ReadInv, Says
  <1>3. Says(s, 0 + 1, "error") /\ s \in Seq({"ok", "error"})
    BY <1>2, OneMore DEF Says
  <1>4. /\ at' = [at EXCEPT ![r] = "failed"] /\ refs' = [refs EXCEPT ![r] = refs[r]]
        /\ answers' = [answers EXCEPT ![r] = s] /\ sub' = [sub EXCEPT ![r] = sub[r]]
    BY <1>1, Same DEF KillRead, Answer
  <1> HIDE DEF s
  <1>5. /\ TypeOK'
        /\ at'[r] = "failed" /\ refs'[r] = refs[r] /\ answers'[r] = s /\ sub'[r] = sub[r]
        /\ OnlyOf(r)
    <2>1. StepOf(r, "failed", refs[r], s, sub[r])
      <3>1. /\ lock' \in Write \cup {NoBio} /\ page' \in [Write -> {"none", "held", "free", "lost"}]
            /\ chain' \in Seq(Write) /\ disk' \in [Sector -> [Half -> Write \cup {NoBio}]]
            /\ page' = page
        BY <1>1 DEF KillRead, TypeOK
      <3> QED
        BY <1>1, <1>3, <1>4, Same, <3>1 DEF StepOf
    <2> QED
      BY <1>1, <2>1, StepKeepsTypes
  <1>6. ReadInv(r)'
    BY <1>1, <1>2, <1>3, <1>5 DEF ReadInv, Pending
  <1> QED
    BY <1>5, <1>6, ReadStep

LEMMA ReadCompletesKeeps ==
  ASSUME BioInv, NEW r \in Read, ReadCompletes(r)
  PROVE  BioInv'
  <1>1. r \in Bio /\ r \notin Write /\ TypeOK /\ ReadInv(r)
    BY BioAssumption DEF BioInv, Bio
  <1> DEFINE x == [sub[r] EXCEPT !["data"] = "ending"]
  <1>2. /\ x \in [Half -> States] /\ x["data"] = "ending" /\ x["parity"] = sub[r]["parity"]
    BY <1>1, Same DEF States, Half
  <1>3. at[r] = "returned" /\ refs[r] = 1 /\ Says(answers[r], 0, "ok")
    BY <1>1 DEF ReadCompletes, ReadInv, Pending, Told
  <1>4. /\ at' = [at EXCEPT ![r] = at[r]] /\ refs' = [refs EXCEPT ![r] = 0]
        /\ answers' = [answers EXCEPT ![r] = answers[r]] /\ sub' = [sub EXCEPT ![r] = x]
    BY <1>1, <1>3, Same DEF ReadCompletes, Put
  <1> HIDE DEF x
  <1>5. /\ TypeOK'
        /\ at'[r] = at[r] /\ refs'[r] = 0 /\ answers'[r] = answers[r] /\ sub'[r] = x
        /\ OnlyOf(r)
    <2>1. StepOf(r, at[r], 0, answers[r], x)
      <3>1. /\ lock' \in Write \cup {NoBio} /\ page' \in [Write -> {"none", "held", "free", "lost"}]
            /\ chain' \in Seq(Write) /\ disk' \in [Sector -> [Half -> Write \cup {NoBio}]]
            /\ page' = page
        BY <1>1 DEF ReadCompletes, TypeOK
      <3> QED
        BY <1>1, <1>2, <1>4, Same, <3>1 DEF StepOf
    <2> QED
      BY <1>1, <2>1, StepKeepsTypes
  <1>6. ReadInv(r)'
    BY <1>1, <1>2, <1>3, <1>5 DEF ReadInv, Pending, Told
  <1> QED
    BY <1>5, <1>6, ReadStep

LEMMA ReadEndsKeeps ==
  ASSUME BioInv, NEW r \in Read, ReadEnds(r)
  PROVE  BioInv'
  <1>1. r \in Bio /\ r \notin Write /\ TypeOK /\ ReadInv(r)
    BY BioAssumption DEF BioInv, Bio
  <1> DEFINE x == [sub[r] EXCEPT !["data"] = "done"]
             s == Append(answers[r], "ok")
  <1>2. /\ x \in [Half -> States] /\ x["data"] = "done" /\ x["parity"] = sub[r]["parity"]
    BY <1>1, Same DEF States, Half
  <1>3. at[r] = "returned" /\ refs[r] = 0 /\ Says(answers[r], 0, "ok")
    BY <1>1 DEF ReadEnds, ReadInv, Pending, Told
  <1>4. Says(s, 0 + 1, "ok") /\ s \in Seq({"ok", "error"})
    BY <1>3, OneMore DEF Says
  <1>5. /\ at' = [at EXCEPT ![r] = at[r]] /\ refs' = [refs EXCEPT ![r] = refs[r]]
        /\ answers' = [answers EXCEPT ![r] = s] /\ sub' = [sub EXCEPT ![r] = x]
    BY <1>1, <1>3, Same DEF ReadEnds, Answer, States, Half
  <1> HIDE DEF x, s
  <1>6. /\ TypeOK'
        /\ at'[r] = at[r] /\ refs'[r] = refs[r] /\ answers'[r] = s /\ sub'[r] = x
        /\ OnlyOf(r)
    <2>1. StepOf(r, at[r], refs[r], s, x)
      <3>1. /\ lock' \in Write \cup {NoBio} /\ page' \in [Write -> {"none", "held", "free", "lost"}]
            /\ chain' \in Seq(Write) /\ disk' \in [Sector -> [Half -> Write \cup {NoBio}]]
            /\ page' = page
        BY <1>1 DEF ReadEnds, TypeOK
      <3> QED
        BY <1>1, <1>2, <1>4, <1>5, Same, <3>1 DEF StepOf
    <2> QED
      BY <1>1, <2>1, StepKeepsTypes
  <1>7. ReadInv(r)'
    BY <1>1, <1>2, <1>3, <1>4, <1>6 DEF ReadInv, Pending, Told
  <1> QED
    BY <1>6, <1>7, ReadStep

-----------------------------------------------------------------------------
(* The steps of a write.                                                    *)
LEMMA ArriveWriteKeeps ==
  ASSUME BioInv, NEW w \in Write, ArriveWrite(w)
  PROVE  BioInv'
  <1>1. w \in Bio /\ TypeOK /\ RequestsInv(w) /\ RefsInv(w) /\ AnswersInv(w) /\ at[w] = "new"
    BY DEF BioInv, WriteInv, Bio, ArriveWrite
  <1>2. StepOf(w, "waiting", refs[w], answers[w], sub[w]) /\ page'[w] = "held"
    <2>1. /\ lock' \in Write \cup {NoBio} /\ page' \in [Write -> {"none", "held", "free", "lost"}]
          /\ chain' \in Seq(Write) /\ disk' \in [Sector -> [Half -> Write \cup {NoBio}]]
          /\ page'[w] = "held"
          /\ \A v \in Write \ {w} : page'[v] = page[v]
      BY <1>1 DEF ArriveWrite, TypeOK
    <2> QED
      BY <1>1, <2>1, Same DEF StepOf, ArriveWrite
  <1>3. /\ TypeOK' /\ OnlyOf(w) /\ at'[w] = "waiting" /\ refs'[w] = refs[w]
        /\ answers'[w] = answers[w] /\ sub'[w] = sub[w]
    BY <1>1, <1>2, StepKeepsTypes
  <1>4. WriteInv(w)'
    <2>1. RequestsInv(w)' /\ PageInv(w)'
      BY <1>1, <1>2, <1>3 DEF RequestsInv, PageInv, Inside
    <2>2. RefsInv(w)'
      BY <1>1, <1>3 DEF RefsInv, Pending, Inside
    <2>3. AnswersInv(w)'
      BY <1>1, <1>3 DEF AnswersInv, Says, Inside
    <2> QED
      BY <2>1, <2>2, <2>3 DEF WriteInv
  <1> QED
    BY <1>3, <1>4, WriteStep

(* A write that fails before it takes the lock, with or without a page.     *)
LEMMA NotEnteredKeeps ==
  ASSUME BioInv, NEW w \in Write, NoPageForWrite(w) \/ InterruptWrite(w)
  PROVE  BioInv'
  <1> DEFINE s == Append(answers[w], "error")
  <1>1. /\ w \in Bio /\ TypeOK /\ RequestsInv(w) /\ RefsInv(w) /\ AnswersInv(w) /\ PageInv(w)
        /\ at[w] \in {"new", "waiting"} /\ (at[w] = "new" => page' = page)
        /\ at[w] = "waiting" => page' = [page EXCEPT ![w] = "lost"]
    BY DEF BioInv, WriteInv, Bio, NoPageForWrite, InterruptWrite
  <1>2. Says(s, 0 + 1, "error") /\ s \in Seq({"ok", "error"})
    <2>1. Says(answers[w], 0, "error")
      BY <1>1 DEF AnswersInv, Says
    <2> QED
      BY <2>1, OneMore DEF Says
  <1>3. StepOf(w, "failed", refs[w], s, sub[w]) /\ page'[w] \in {"none", "lost"}
    <2>1. /\ lock' \in Write \cup {NoBio} /\ page' \in [Write -> {"none", "held", "free", "lost"}]
          /\ chain' \in Seq(Write) /\ disk' \in [Sector -> [Half -> Write \cup {NoBio}]]
          /\ \A v \in Write \ {w} : page'[v] = page[v]
      BY <1>1 DEF NoPageForWrite, InterruptWrite, TypeOK
    <2>2. page'[w] \in {"none", "lost"}
      BY <1>1 DEF PageInv, TypeOK
    <2>3. at' = [at EXCEPT ![w] = "failed"] /\ answers' = [answers EXCEPT ![w] = s]
          /\ refs' = refs /\ sub' = sub
      BY DEF NoPageForWrite, InterruptWrite, Answer
    <2> HIDE DEF s
    <2> QED
      BY <1>1, <1>2, <2>1, <2>2, <2>3, Same DEF StepOf
  <1> HIDE DEF s
  <1>4. /\ TypeOK' /\ OnlyOf(w) /\ at'[w] = "failed" /\ refs'[w] = refs[w]
        /\ answers'[w] = s /\ sub'[w] = sub[w]
    BY <1>1, <1>3, StepKeepsTypes
  <1>5. WriteInv(w)'
    <2>1. RequestsInv(w)' /\ PageInv(w)'
      BY <1>1, <1>3, <1>4 DEF RequestsInv, PageInv, Inside
    <2>2. RefsInv(w)'
      BY <1>1, <1>4 DEF RefsInv, Pending, Inside
    <2>3. AnswersInv(w)'
      BY <1>2, <1>4 DEF AnswersInv, Inside
    <2> QED
      BY <2>1, <2>2, <2>3 DEF WriteInv
  <1> QED
    BY <1>4, <1>5, WriteStep

LEMMA EnterWriteKeeps ==
  ASSUME BioInv, NEW w \in Write, EnterWrite(w)
  PROVE  BioInv'
  <1>1. /\ w \in Bio /\ TypeOK /\ RequestsInv(w) /\ AnswersInv(w) /\ PageInv(w)
        /\ at[w] = "waiting" /\ page' = page
    BY DEF BioInv, WriteInv, Bio, EnterWrite
  <1>2. refs[w] = 0
    BY <1>1 DEF BioInv, WriteInv, RequestsInv, RefsInv, Pending, Inside, Half
  <1>3. StepOf(w, "locked", 2, answers[w], sub[w])
    <2>1. /\ lock' \in Write \cup {NoBio} /\ page' \in [Write -> {"none", "held", "free", "lost"}]
          /\ chain' \in Seq(Write) /\ disk' \in [Sector -> [Half -> Write \cup {NoBio}]]
          /\ \A v \in Write \ {w} : page'[v] = page[v]
      BY <1>1, AppendProperties DEF EnterWrite, TypeOK
    <2> QED
      BY <1>1, <1>2, <2>1, Same DEF StepOf, EnterWrite
  <1>4. /\ TypeOK' /\ OnlyOf(w) /\ at'[w] = "locked" /\ refs'[w] = 2
        /\ answers'[w] = answers[w] /\ sub'[w] = sub[w]
    BY <1>1, <1>3, StepKeepsTypes
  <1>5. WriteInv(w)'
    <2>1. RequestsInv(w)' /\ PageInv(w)' /\ RefsInv(w)'
      BY <1>1, <1>4 DEF RequestsInv, PageInv, RefsInv, Inside
    <2>2. AnswersInv(w)'
      BY <1>1, <1>4 DEF AnswersInv, Says, Inside
    <2> QED
      BY <2>1, <2>2 DEF WriteInv
  <1> QED
    BY <1>4, <1>5, WriteStep

LEMMA EnterFailsKeeps ==
  ASSUME BioInv, NEW w \in Write, EnterFails(w)
  PROVE  BioInv'
  <1>1. /\ w \in Bio /\ TypeOK /\ RequestsInv(w) /\ RefsInv(w) /\ AnswersInv(w)
        /\ at[w] = "waiting" /\ page' = [page EXCEPT ![w] = "free"]
    BY DEF BioInv, WriteInv, Bio, EnterFails, FreePage
  <1>2. refs[w] = 0 /\ \A h \in Half : sub[w][h] = "none"
    BY <1>1 DEF RequestsInv, RefsInv, Pending, Inside, Half
  <1>3. PICK allocated \in {{}, {"data"}, Half},
             errors \in {<<"error">>, <<"error", "error">>} :
          /\ sub' = [sub EXCEPT ![w] = [h \in Half |-> IF h \in allocated THEN "leaked" ELSE sub[w][h]]]
          /\ answers' = [answers EXCEPT ![w] = answers[w] \o errors]
    BY <1>1 DEF EnterFails, TypeOK
  <1> DEFINE x == [h \in Half |-> IF h \in allocated THEN "leaked" ELSE sub[w][h]]
             s == answers[w] \o errors
  <1>4. /\ x \in [Half -> States] /\ \A h \in Half : x[h] \in {"none", "leaked"}
    BY <1>2 DEF States
  <1>5. Says(s, 1, "error") \/ Says(s, 2, "error")
    <2>1. Says(answers[w], 0, "error")
      BY <1>1 DEF AnswersInv, Says
    <2>2. CASE errors = <<"error", "error">>
      BY <2>1, <2>2, TwoErrors
    <2>3. CASE errors = <<"error">>
      <3>1. answers[w] = << >>
        BY <2>1, EmptySeq DEF Says
      <3>2. s = <<"error">>
        BY <2>3, <3>1
      <3> HIDE DEF s
      <3>3. Len(s) = 1 /\ s[1] = "error" /\ s \in Seq({"ok", "error"})
        BY <3>2
      <3> QED
        BY <3>3 DEF Says
    <2> QED
      BY <2>2, <2>3
  <1> HIDE DEF x, s
  <1>6. StepOf(w, "failed", refs[w], s, x)
    <2>1. /\ lock' \in Write \cup {NoBio} /\ page' \in [Write -> {"none", "held", "free", "lost"}]
          /\ chain' \in Seq(Write) /\ disk' \in [Sector -> [Half -> Write \cup {NoBio}]]
          /\ \A v \in Write \ {w} : page'[v] = page[v]
      BY <1>1 DEF EnterFails, TypeOK
    <2>2. at' = [at EXCEPT ![w] = "failed"] /\ refs' = refs
      BY DEF EnterFails
    <2>3. sub' = [sub EXCEPT ![w] = x] /\ answers' = [answers EXCEPT ![w] = s]
      BY <1>3 DEF x, s
    <2>4. s \in Seq({"ok", "error"})
      BY <1>5 DEF Says
    <2> QED
      BY <1>1, <1>4, <2>1, <2>2, <2>3, <2>4, Same DEF StepOf
  <1>7. /\ TypeOK' /\ OnlyOf(w) /\ at'[w] = "failed" /\ refs'[w] = refs[w]
        /\ answers'[w] = s /\ sub'[w] = x /\ page'[w] = "free"
    BY <1>1, <1>6, StepKeepsTypes DEF TypeOK
  <1>8. WriteInv(w)'
    <2>1. RequestsInv(w)' /\ PageInv(w)' /\ AnswersInv(w)'
      BY <1>4, <1>5, <1>7 DEF RequestsInv, PageInv, AnswersInv, Inside
    <2>2. RefsInv(w)'
      BY <1>2, <1>4, <1>7 DEF RefsInv, Pending, Inside, Half
    <2> QED
      BY <2>1, <2>2 DEF WriteInv
  <1> QED
    BY <1>7, <1>8, WriteStep

LEMMA AbortWriteKeeps ==
  ASSUME BioInv, NEW w \in Write, AbortWrite(w)
  PROVE  BioInv'
  <1>1. /\ w \in Bio /\ TypeOK /\ RefsInv(w) /\ AnswersInv(w)
        /\ at[w] = "locked" /\ page' = [page EXCEPT ![w] = "free"]
    BY DEF BioInv, WriteInv, Bio, AbortWrite, FreePage
  <1> DEFINE x == [h \in Half |-> "leaked"]
             s == answers[w] \o <<"error", "error">>
  <1>2. x \in [Half -> States] /\ \A h \in Half : x[h] = "leaked"
    BY DEF States
  <1>3. refs[w] = 2 /\ Says(s, 2, "error") /\ s \in Seq({"ok", "error"})
    <2>1. refs[w] = 2 /\ Says(answers[w], 0, "error")
      BY <1>1 DEF RefsInv, AnswersInv, Says, Inside
    <2>2. Says(s, 2, "error")
      BY <2>1, TwoErrors
    <2> QED
      BY <2>1, <2>2 DEF Says
  <1>4. /\ at' = [at EXCEPT ![w] = "failed"] /\ refs' = [refs EXCEPT ![w] = 0]
        /\ answers' = [answers EXCEPT ![w] = s] /\ sub' = [sub EXCEPT ![w] = x]
    BY <1>1, <1>3 DEF AbortWrite, Put, TypeOK
  <1> HIDE DEF x, s
  <1>5. StepOf(w, "failed", 0, s, x)
    <2>1. chain' \in Seq(Write)
      <3>1. Len(chain) \in Nat /\ chain' = SubSeq(chain, 1, Len(chain) - 1)
        BY <1>1 DEF TypeOK, AbortWrite, Front
      <3>2. \A i \in 1 .. Len(chain) - 1 : chain[i] \in Write
        BY <1>1 DEF TypeOK
      <3> QED
        BY <3>1, <3>2, SubSeqProperties
    <2>2. /\ lock' \in Write \cup {NoBio} /\ page' \in [Write -> {"none", "held", "free", "lost"}]
          /\ disk' \in [Sector -> [Half -> Write \cup {NoBio}]]
          /\ \A v \in Write \ {w} : page'[v] = page[v]
      BY <1>1 DEF AbortWrite, Unlock, TypeOK
    <2> QED
      BY <1>2, <1>3, <1>4, <2>1, <2>2 DEF StepOf
  <1>6. /\ TypeOK' /\ OnlyOf(w) /\ at'[w] = "failed" /\ refs'[w] = 0
        /\ answers'[w] = s /\ sub'[w] = x /\ page'[w] = "free"
    BY <1>1, <1>5, StepKeepsTypes DEF TypeOK
  <1>7. WriteInv(w)'
    <2>1. RequestsInv(w)' /\ PageInv(w)' /\ AnswersInv(w)'
      BY <1>2, <1>3, <1>6 DEF RequestsInv, PageInv, AnswersInv, Inside
    <2>2. RefsInv(w)'
      BY <1>2, <1>6 DEF RefsInv, Pending, Inside, Half
    <2> QED
      BY <2>1, <2>2 DEF WriteInv
  <1> QED
    BY <1>6, <1>7, WriteStep

(* A write that dies or hangs with the lock.                                *)
LEMMA StuckWriteKeeps ==
  ASSUME BioInv, NEW w \in Write, OopsWrite(w) \/ FlushHangs(w)
  PROVE  BioInv'
  <1>1. /\ w \in Bio /\ TypeOK /\ RequestsInv(w) /\ RefsInv(w) /\ AnswersInv(w) /\ PageInv(w)
        /\ at[w] = "locked" /\ page' = page
    BY DEF BioInv, WriteInv, Bio, OopsWrite, FlushHangs
  <1>2. PICK a \in {"oops", "flushing"} : at' = [at EXCEPT ![w] = a]
    BY DEF OopsWrite, FlushHangs
  <1>3. StepOf(w, a, refs[w], answers[w], sub[w])
    <2>1. /\ lock' \in Write \cup {NoBio} /\ page' \in [Write -> {"none", "held", "free", "lost"}]
          /\ chain' \in Seq(Write) /\ disk' \in [Sector -> [Half -> Write \cup {NoBio}]]
          /\ \A v \in Write \ {w} : page'[v] = page[v]
          /\ refs' = refs /\ answers' = answers /\ sub' = sub
      BY <1>1 DEF OopsWrite, FlushHangs, TypeOK
    <2> QED
      BY <1>1, <1>2, <2>1, Same DEF StepOf
  <1>4. /\ TypeOK' /\ OnlyOf(w) /\ at'[w] = a /\ refs'[w] = refs[w]
        /\ answers'[w] = answers[w] /\ sub'[w] = sub[w]
    BY <1>1, <1>3, StepKeepsTypes
  <1>5. WriteInv(w)'
    <2>1. RequestsInv(w)' /\ PageInv(w)' /\ RefsInv(w)'
      BY <1>1, <1>4 DEF RequestsInv, PageInv, RefsInv, Inside
    <2>2. AnswersInv(w)'
      BY <1>1, <1>4 DEF AnswersInv, Says, Inside
    <2> QED
      BY <2>1, <2>2 DEF WriteInv
  <1> QED
    BY <1>4, <1>5, WriteStep

LEMMA SubmitWriteKeeps ==
  ASSUME BioInv, NEW w \in Write, SubmitWrite(w)
  PROVE  BioInv'
  <1>1. /\ w \in Bio /\ TypeOK /\ RefsInv(w) /\ AnswersInv(w) /\ PageInv(w)
        /\ at[w] = "locked" /\ page' = page
    BY DEF BioInv, WriteInv, Bio, SubmitWrite
  <1> DEFINE x == [h \in Half |-> "parked"]
  <1>2. x \in [Half -> States] /\ x["data"] = "parked" /\ x["parity"] = "parked"
    BY DEF States, Half
  <1>3. /\ at' = [at EXCEPT ![w] = "returned"] /\ sub' = [sub EXCEPT ![w] = x]
        /\ refs' = refs /\ answers' = answers
    BY DEF SubmitWrite
  <1> HIDE DEF x
  <1>4. StepOf(w, "returned", refs[w], answers[w], x)
    <2>1. /\ lock' \in Write \cup {NoBio} /\ page' \in [Write -> {"none", "held", "free", "lost"}]
          /\ chain' \in Seq(Write) /\ disk' \in [Sector -> [Half -> Write \cup {NoBio}]]
          /\ \A v \in Write \ {w} : page'[v] = page[v]
      BY <1>1 DEF SubmitWrite, Unlock, TypeOK
    <2> QED
      BY <1>1, <1>2, <1>3, <2>1, Same DEF StepOf
  <1>5. /\ TypeOK' /\ OnlyOf(w) /\ at'[w] = "returned" /\ refs'[w] = refs[w]
        /\ answers'[w] = answers[w] /\ sub'[w] = x
    BY <1>1, <1>4, StepKeepsTypes
  <1>6. WriteInv(w)'
    <2>1. RequestsInv(w)' /\ PageInv(w)'
      BY <1>1, <1>2, <1>5 DEF RequestsInv, PageInv, Submitted, Inside
    <2>2. RefsInv(w)'
      BY <1>1, <1>2, <1>5 DEF RefsInv, Pending, Inside
    <2>3. AnswersInv(w)'
      BY <1>1, <1>2, <1>5 DEF AnswersInv, Says, Told, Inside
    <2> QED
      BY <2>1, <2>2, <2>3 DEF WriteInv
  <1> QED
    BY <1>5, <1>6, WriteStep

(* The three steps of a completion: what is left of the request counts less *)
(* as a reference, then more as an answer.                                  *)
LEMMA OneOfHalves ==
  ASSUME TypeOK, NEW w \in Bio, NEW h \in Half, NEW v \in States
  PROVE  LET x == [sub[w] EXCEPT ![h] = v] IN
         /\ x \in [Half -> States]
         /\ [sub EXCEPT ![w][h] = v] = [sub EXCEPT ![w] = x]
         /\ x["data"] = IF h = "data" THEN v ELSE sub[w]["data"]
         /\ x["parity"] = IF h = "parity" THEN v ELSE sub[w]["parity"]
         /\ sub[w]["data"] \in States /\ sub[w]["parity"] \in States
         /\ h \in {"data", "parity"}
  BY Same DEF Half, TypeOK, States

LEMMA WriteCompletesKeeps ==
  ASSUME BioInv, NEW w \in Write, NEW h \in Half, WriteCompletes(w, h)
  PROVE  BioInv'
  <1>1. /\ w \in Bio /\ TypeOK /\ RequestsInv(w) /\ RefsInv(w) /\ AnswersInv(w) /\ PageInv(w)
        /\ sub[w][h] = "inflight" /\ page' = page
    BY DEF BioInv, WriteInv, Bio, WriteCompletes
  <1> DEFINE x == [sub[w] EXCEPT ![h] = "ending"]
  <1>2. /\ x \in [Half -> States] /\ [sub EXCEPT ![w][h] = "ending"] = [sub EXCEPT ![w] = x]
        /\ x["data"] = IF h = "data" THEN "ending" ELSE sub[w]["data"]
        /\ x["parity"] = IF h = "parity" THEN "ending" ELSE sub[w]["parity"]
        /\ h \in {"data", "parity"}
    <2>1. "ending" \in States
      BY DEF States
    <2> QED
      BY <1>1, <2>1, OneOfHalves
  <1> HIDE DEF x
  <1>3. at[w] = "returned"
    BY <1>1 DEF TypeOK, RequestsInv, Inside
  <1>4. refs[w] - 1 = Pending(x["data"]) + Pending(x["parity"]) /\ refs[w] - 1 \in 0 .. 2
    BY <1>1, <1>2, <1>3 DEF RefsInv, Pending, Inside
  <1>5. /\ at' = at /\ answers' = answers
        /\ sub' = [sub EXCEPT ![w] = x] /\ refs' = [refs EXCEPT ![w] = refs[w] - 1]
    BY <1>2 DEF WriteCompletes, Put
  <1>6. StepOf(w, "returned", refs[w] - 1, answers[w], x)
    <2>1. /\ lock' \in Write \cup {NoBio} /\ page' \in [Write -> {"none", "held", "free", "lost"}]
          /\ chain' \in Seq(Write) /\ disk' \in [Sector -> [Half -> Write \cup {NoBio}]]
          /\ \A v \in Write \ {w} : page'[v] = page[v]
      <3>1. disk' \in [Sector -> [Half -> Write \cup {NoBio}]]
        <4>1. SectorOf[w] \in Sector /\ disk \in [Sector -> [Half -> Write \cup {NoBio}]]
          BY <1>1, BioAssumption DEF TypeOK, Bio
        <4>2. CASE disk' = disk
          BY <4>1, <4>2
        <4>3. CASE disk' = [disk EXCEPT ![SectorOf[w]][h] = w]
          BY <4>1, <4>3
        <4> QED
          BY <4>2, <4>3 DEF WriteCompletes
      <3> QED
        BY <1>1, <3>1 DEF WriteCompletes, TypeOK
    <2> QED
      BY <1>1, <1>2, <1>3, <1>4, <1>5, <2>1, Same DEF StepOf
  <1>7. /\ TypeOK' /\ OnlyOf(w) /\ at'[w] = "returned" /\ refs'[w] = refs[w] - 1
        /\ answers'[w] = answers[w] /\ sub'[w] = x
    BY <1>1, <1>6, StepKeepsTypes
  <1>8. WriteInv(w)'
    <2>1. RequestsInv(w)' /\ PageInv(w)'
      BY <1>1, <1>2, <1>3, <1>7 DEF RequestsInv, PageInv, Submitted, Inside
    <2>2. RefsInv(w)'
      BY <1>4, <1>7 DEF RefsInv, Inside, Pending
    <2>3. Told(x["data"]) = Told(sub[w]["data"]) /\ Told(x["parity"]) = Told(sub[w]["parity"])
      BY <1>1, <1>2 DEF Told
    <2>4. AnswersInv(w)'
      BY <1>1, <1>3, <1>7, <2>3 DEF AnswersInv, Says, Inside
    <2> QED
      BY <2>1, <2>2, <2>4 DEF WriteInv
  <1> QED
    BY <1>7, <1>8, WriteStep

LEMMA WriteEndsKeeps ==
  ASSUME BioInv, NEW w \in Write, NEW h \in Half, WriteEnds(w, h)
  PROVE  BioInv'
  <1> DEFINE v == IF h = "parity" THEN "ended" ELSE "done"
             x == [sub[w] EXCEPT ![h] = v]
             s == Append(answers[w], "ok")
  <1>1. /\ w \in Bio /\ TypeOK /\ RequestsInv(w) /\ RefsInv(w) /\ AnswersInv(w) /\ PageInv(w)
        /\ sub[w][h] = "ending" /\ page' = page
    BY DEF BioInv, WriteInv, Bio, WriteEnds
  <1>2. /\ x \in [Half -> States] /\ [sub EXCEPT ![w][h] = v] = [sub EXCEPT ![w] = x]
        /\ x["data"] = IF h = "data" THEN "done" ELSE sub[w]["data"]
        /\ x["parity"] = IF h = "parity" THEN "ended" ELSE sub[w]["parity"]
        /\ sub[w]["data"] \in States /\ sub[w]["parity"] \in States
        /\ h \in {"data", "parity"}
    <2>1. v \in States
      BY DEF States
    <2> HIDE DEF v
    <2>2. /\ x \in [Half -> States] /\ [sub EXCEPT ![w][h] = v] = [sub EXCEPT ![w] = x]
          /\ x["data"] = IF h = "data" THEN v ELSE sub[w]["data"]
          /\ x["parity"] = IF h = "parity" THEN v ELSE sub[w]["parity"]
          /\ sub[w]["data"] \in States /\ sub[w]["parity"] \in States
          /\ h \in {"data", "parity"}
      BY <1>1, <2>1, OneOfHalves
    <2> QED
      BY <2>2 DEF v
  <1>3. at[w] = "returned"
    BY <1>1 DEF TypeOK, RequestsInv, Inside
  <1>4. /\ at' = at /\ refs' = refs
        /\ sub' = [sub EXCEPT ![w] = x] /\ answers' = [answers EXCEPT ![w] = s]
    BY <1>2 DEF WriteEnds, Answer
  <1> HIDE DEF x
  <1> DEFINE n == Told(sub[w]["data"]) + Told(sub[w]["parity"])
  <1>5. n \in Nat /\ n + 1 = Told(x["data"]) + Told(x["parity"])
    BY <1>1, <1>2 DEF Told
  <1>6. Says(s, Told(x["data"]) + Told(x["parity"]), "ok") /\ s \in Seq({"ok", "error"})
    <2>1. Says(answers[w], n, "ok")
      BY <1>1, <1>3 DEF AnswersInv
    <2> HIDE DEF n
    <2>2. Says(s, n + 1, "ok")
      BY <1>5, <2>1, OneMore
    <2> QED
      BY <1>5, <2>2 DEF Says
  <1> HIDE DEF s
  <1>7. StepOf(w, "returned", refs[w], s, x)
    <2>1. /\ lock' \in Write \cup {NoBio} /\ page' \in [Write -> {"none", "held", "free", "lost"}]
          /\ chain' \in Seq(Write) /\ disk' \in [Sector -> [Half -> Write \cup {NoBio}]]
          /\ \A u \in Write \ {w} : page'[u] = page[u]
      BY <1>1 DEF WriteEnds, TypeOK
    <2> QED
      BY <1>1, <1>2, <1>3, <1>4, <1>6, <2>1, Same DEF StepOf
  <1>8. /\ TypeOK' /\ OnlyOf(w) /\ at'[w] = "returned" /\ refs'[w] = refs[w]
        /\ answers'[w] = s /\ sub'[w] = x
    BY <1>1, <1>7, StepKeepsTypes
  <1>9. WriteInv(w)'
    <2>1. RequestsInv(w)' /\ PageInv(w)'
      BY <1>1, <1>2, <1>3, <1>8 DEF RequestsInv, PageInv, Submitted, Inside
    <2>2. RefsInv(w)'
      BY <1>1, <1>2, <1>3, <1>8 DEF RefsInv, Inside, Pending
    <2>3. AnswersInv(w)'
      BY <1>6, <1>8 DEF AnswersInv, Inside
    <2> QED
      BY <2>1, <2>2, <2>3 DEF WriteInv
  <1> QED
    BY <1>8, <1>9, WriteStep

LEMMA ParityPageFreedKeeps ==
  ASSUME BioInv, NEW w \in Write, ParityPageFreed(w)
  PROVE  BioInv'
  <1> DEFINE x == [sub[w] EXCEPT !["parity"] = "done"]
  <1>1. /\ w \in Bio /\ TypeOK /\ RequestsInv(w) /\ RefsInv(w) /\ AnswersInv(w)
        /\ sub[w]["parity"] = "ended" /\ page' = [page EXCEPT ![w] = "free"]
    BY DEF BioInv, WriteInv, Bio, ParityPageFreed, FreePage
  <1>2. /\ x \in [Half -> States] /\ [sub EXCEPT ![w]["parity"] = "done"] = [sub EXCEPT ![w] = x]
        /\ x["data"] = sub[w]["data"] /\ x["parity"] = "done"
    <2>1. "done" \in States /\ "parity" \in Half /\ "parity" # "data"
      BY DEF States, Half
    <2> QED
      BY <1>1, <2>1, OneOfHalves
  <1>3. at[w] = "returned"
    BY <1>1 DEF TypeOK, RequestsInv, Inside, Half
  <1>4. at' = at /\ refs' = refs /\ answers' = answers /\ sub' = [sub EXCEPT ![w] = x]
    BY <1>2 DEF ParityPageFreed
  <1> HIDE DEF x
  <1>5. StepOf(w, "returned", refs[w], answers[w], x) /\ page'[w] = "free"
    <2>1. /\ lock' \in Write \cup {NoBio} /\ page' \in [Write -> {"none", "held", "free", "lost"}]
          /\ chain' \in Seq(Write) /\ disk' \in [Sector -> [Half -> Write \cup {NoBio}]]
          /\ \A v \in Write \ {w} : page'[v] = page[v]
          /\ page'[w] = "free"
      BY <1>1 DEF ParityPageFreed, TypeOK
    <2> QED
      BY <1>1, <1>2, <1>3, <1>4, <2>1, Same DEF StepOf
  <1>6. /\ TypeOK' /\ OnlyOf(w) /\ at'[w] = "returned" /\ refs'[w] = refs[w]
        /\ answers'[w] = answers[w] /\ sub'[w] = x
    BY <1>1, <1>5, StepKeepsTypes
  <1>7. WriteInv(w)'
    <2>1. RequestsInv(w)' /\ PageInv(w)'
      BY <1>1, <1>2, <1>3, <1>5, <1>6 DEF RequestsInv, PageInv, Submitted, Inside
    <2>2. RefsInv(w)'
      BY <1>1, <1>2, <1>3, <1>6 DEF RefsInv, Inside, Pending
    <2>3. Told(x["data"]) = Told(sub[w]["data"]) /\ Told(x["parity"]) = Told(sub[w]["parity"])
      BY <1>1, <1>2 DEF Told
    <2>4. AnswersInv(w)'
      BY <1>1, <1>3, <1>6, <2>3 DEF AnswersInv, Says, Inside
    <2> QED
      BY <2>1, <2>2, <2>4 DEF WriteInv
  <1> QED
    BY <1>6, <1>7, WriteStep

LEMMA BioStep == BioInv /\ [Next]_vars => BioInv'
  <1> SUFFICES ASSUME BioInv, [Next]_vars PROVE BioInv'
    OBVIOUS
  <1>1. ASSUME NEW b \in Bio, NEW h \in Half, Issue(b, h) PROVE BioInv'
    BY <1>1, IssueKeeps
  <1>2. ASSUME NEW r \in Read,
               SubmitRead(r) \/ KillRead(r) \/ ReadCompletes(r) \/ ReadEnds(r)
        PROVE  BioInv'
    BY <1>2, SubmitReadKeeps, KillReadKeeps, ReadCompletesKeeps, ReadEndsKeeps
  <1>3. ASSUME NEW w \in Write,
               ArriveWrite(w) \/ NoPageForWrite(w) \/ InterruptWrite(w)
                 \/ EnterWrite(w) \/ EnterFails(w)
        PROVE  BioInv'
    BY <1>3, ArriveWriteKeeps, NotEnteredKeeps, EnterWriteKeeps, EnterFailsKeeps
  <1>4. ASSUME NEW w \in Write,
               SubmitWrite(w) \/ AbortWrite(w) \/ OopsWrite(w) \/ FlushHangs(w)
                 \/ ParityPageFreed(w)
        PROVE  BioInv'
    BY <1>4, SubmitWriteKeeps, AbortWriteKeeps, StuckWriteKeeps, ParityPageFreedKeeps
  <1>5. ASSUME NEW w \in Write, NEW h \in Half, WriteCompletes(w, h) \/ WriteEnds(w, h)
        PROVE  BioInv'
    BY <1>5, WriteCompletesKeeps, WriteEndsKeeps
  <1>6. CASE UNCHANGED vars
    BY <1>6 DEF vars, BioInv, TypeOK, ReadInv, WriteInv, RequestsInv, RefsInv, AnswersInv,
                PageInv, Says, Pending, Told
  <1> QED
    BY <1>1, <1>2, <1>3, <1>4, <1>5, <1>6 DEF Next

LEMMA BioInvariant == Spec => []BioInv
  BY BioInit, BioStep, PTL DEF Spec

-----------------------------------------------------------------------------
(* Types, for any number of bios: a bio never has more references taken on  *)
(* it than two, nor fewer than none.                                        *)
THEOREM TypeCorrect == Spec => []TypeOK
  <1>1. BioInv => TypeOK
    BY DEF BioInv
  <1> QED
    BY <1>1, BioInvariant, PTL

(* Each path of a bio gives back the references it took, one for each       *)
(* request that completes.                                                  *)
THEOREM ReferencesCorrect == Spec => []ReferencesBalance
  <1>1. BioInv => ReferencesBalance
    <2> SUFFICES ASSUME BioInv, NEW b \in Bio
                 PROVE  refs[b] = IF at[b] \in {"locked", "flushing", "oops"}
                          THEN 2
                          ELSE Cardinality({h \in Half : sub[b][h] \in {"parked", "inflight"}})
      BY DEF ReferencesBalance
    <2>1. Cardinality({h \in Half : sub[b][h] \in {"parked", "inflight"}}) =
            Pending(sub[b]["data"]) + Pending(sub[b]["parity"])
      BY CountHalves DEF Pending
    <2>2. CASE b \in Read
      BY <2>1, <2>2 DEF BioInv, ReadInv, Pending
    <2>3. CASE b \in Write
      <3>1. RefsInv(b)
        BY <2>3 DEF BioInv, WriteInv
      <3> QED
        BY <2>1, <3>1 DEF RefsInv, Inside
    <2> QED
      BY <2>2, <2>3 DEF Bio
  <1> QED
    BY <1>1, BioInvariant, PTL

(* Whatever the order of the completions, only the second one of a write,   *)
(* after the first has ended the bio, ends one that nobody holds.           *)
THEOREM EndsCorrect == Spec => []OnlySecondEndTouchesFreed
  <1>1. BioInv => OnlySecondEndTouchesFreed
    <2> SUFFICES ASSUME BioInv, NEW b \in Bio, NEW h \in Half, sub[b][h] = "ending",
                        ~(refs[b] > 0), Answered(b)
                 PROVE  b \in Write /\ \E g \in Half \ {h} : sub[b][g] \in {"ended", "done"}
      BY DEF OnlySecondEndTouchesFreed
    <2>1. ASSUME NEW n, Says(answers[b], n, "ok"), n \in Nat PROVE n # 0
      <3>1. Len(answers[b]) = n /\ answers[b] \in Seq({"ok", "error"})
        BY <2>1 DEF Says
      <3> QED
        BY <3>1, EmptySeq DEF Answered
    <2>2. CASE b \in Read
      <3>1. ReadInv(b) /\ at[b] = "returned" /\ sub[b]["data"] = "ending"
        BY <2>2 DEF BioInv, ReadInv, Half
      <3>2. Says(answers[b], 0, "ok")
        BY <3>1 DEF ReadInv, Told
      <3> QED
        BY <2>1, <3>2
    <2>3. CASE b \in Write
      <3>1. RequestsInv(b) /\ RefsInv(b) /\ AnswersInv(b) /\ h \in {"data", "parity"}
        BY <2>3 DEF BioInv, WriteInv, Half
      <3>2. at[b] = "returned"
        BY <2>3, <3>1 DEF RequestsInv, Inside, BioInv, TypeOK, Bio
      <3>3. /\ sub[b]["data"] \in Submitted /\ sub[b]["parity"] \in Submitted
            /\ sub[b]["data"] \notin {"parked", "inflight"}
            /\ sub[b]["parity"] \notin {"parked", "inflight"}
        BY <3>1, <3>2 DEF RequestsInv, RefsInv, Inside, Pending
      <3>4. Told(sub[b]["data"]) + Told(sub[b]["parity"]) # 0
        <4>1. Told(sub[b]["data"]) + Told(sub[b]["parity"]) \in Nat
          BY DEF Told
        <4>2. Says(answers[b], Told(sub[b]["data"]) + Told(sub[b]["parity"]), "ok")
          BY <3>1, <3>2 DEF AnswersInv
        <4> QED
          BY <2>1, <4>1, <4>2
      <3>5. sub[b]["data"] \in {"ended", "done"} \/ sub[b]["parity"] \in {"ended", "done"}
        BY <3>4 DEF Told
      <3> QED
        BY <2>3, <3>1, <3>5 DEF Half
    <2> QED
      BY <2>2, <2>3 DEF Bio
  <1> QED
    BY <1>1, BioInvariant, PTL

(* No bio is told success and failure, and none is answered too often.      *)
THEOREM AnswersCorrect == Spec => []AnswersAgree
  <1>1. BioInv => AnswersAgree
    <2> SUFFICES ASSUME BioInv, NEW b \in Bio
                 PROVE  /\ Len(answers[b]) <= IF b \in Read THEN 1 ELSE 2
                        /\ Cardinality(Range(answers[b])) <= 1
                        /\ "leaked" \in Range(sub[b]) => "ok" \notin Range(answers[b])
      BY DEF AnswersAgree
    <2>1. "leaked" \in Range(sub[b]) => sub[b]["data"] = "leaked" \/ sub[b]["parity"] = "leaked"
      <3>1. DOMAIN sub[b] = Half
        BY DEF BioInv, TypeOK
      <3> QED
        BY <3>1 DEF Range, Half
    <2>2. CASE b \in Read
      <3>1. ReadInv(b) /\ Told(sub[b]["data"]) \in 0 .. 1
        BY <2>2 DEF BioInv, Told
      <3>2. \E n \in 0 .. 1, x \in {"ok", "error"} : Says(answers[b], n, x)
        BY <3>1 DEF ReadInv
      <3>3. "leaked" \notin Range(sub[b])
        BY <2>1, <3>1 DEF ReadInv
      <3>4. PICK n \in 0 .. 1, x \in {"ok", "error"} : Says(answers[b], n, x)
        BY <3>2
      <3>5. Len(answers[b]) <= 1 /\ Cardinality(Range(answers[b])) <= 1
        <4>1. n \in Nat /\ Len(answers[b]) = n
          BY <3>4 DEF Says
        <4>2. Cardinality(Range(answers[b])) <= 1
          BY <3>4, <4>1, OneAnswerOnly
        <4> QED
          BY <4>1, <4>2
      <3> QED
        BY <2>2, <3>3, <3>5
    <2>3. CASE b \in Write
      <3>1. b \notin Read /\ RequestsInv(b) /\ AnswersInv(b)
            /\ Told(sub[b]["data"]) + Told(sub[b]["parity"]) \in 0 .. 2
        BY <2>3, BioAssumption DEF BioInv, WriteInv, Told
      <3>2. /\ \E n \in 0 .. 2, x \in {"ok", "error"} : Says(answers[b], n, x)
            /\ at[b] = "failed" => \E n \in 0 .. 2 : Says(answers[b], n, "error")
        BY <3>1, <2>3 DEF AnswersInv, BioInv, TypeOK, Bio, Inside
      <3>3. "leaked" \in Range(sub[b]) => at[b] = "failed"
        BY <2>1, <2>3, <3>1 DEF RequestsInv, Half, BioInv, TypeOK, Bio, Submitted, Inside
      <3>4. at[b] = "failed" => "ok" \notin Range(answers[b])
        BY <3>2, OneAnswerOnly
      <3>5. PICK n \in 0 .. 2, x \in {"ok", "error"} : Says(answers[b], n, x)
        BY <3>2
      <3>6. Len(answers[b]) <= 2 /\ Cardinality(Range(answers[b])) <= 1
        <4>1. n \in Nat /\ Len(answers[b]) = n
          BY <3>5 DEF Says
        <4>2. Cardinality(Range(answers[b])) <= 1
          BY <3>5, <4>1, OneAnswerOnly
        <4> QED
          BY <4>1, <4>2
      <3> QED
        BY <3>1, <3>3, <3>4, <3>6
    <2> QED
      BY <2>2, <2>3 DEF Bio
  <1> QED
    BY <1>1, BioInvariant, PTL

-----------------------------------------------------------------------------
(* The chain.  The write that has the lock is the last of it; each other    *)
(* one in it has left the lock, and submitted what it had to.               *)
LockInv ==
  /\ \A w \in Write : at[w] \in Inside <=> lock = w
  /\ lock # NoBio => Len(chain) > 0 /\ chain[Len(chain)] = lock

(* Each write that entered, and was not given up, is in it at one place.    *)
EnteredInv ==
  /\ \A w \in Write :
       at[w] \in Inside \cup {"returned"} <=> \E a \in 1 .. Len(chain) : chain[a] = w
  /\ \A a, b \in 1 .. Len(chain) : chain[a] = chain[b] => a = b

OrderInv == LockInv /\ EnteredInv

LEMMA OrderInit == Init => OrderInv
  <1> SUFFICES ASSUME Init PROVE OrderInv
    OBVIOUS
  <1>1. Len(chain) = 0 /\ lock = NoBio
    BY DEF Init
  <1>2. \A w \in Write : at[w] = "new" /\ w # NoBio
    BY BioAssumption DEF Init, Bio
  <1> QED
    BY <1>1, <1>2 DEF OrderInv, LockInv, EnteredInv, Inside

(* A step that takes no lock and submits nothing.                           *)
LEMMA QuietStep ==
  ASSUME OrderInv, chain' = chain, lock' = lock,
         \A w \in Write : \/ at'[w] = at[w]
                          \/ at[w] \in {"new", "waiting"} /\ at'[w] \in {"waiting", "failed"}
                          \/ at[w] = "locked" /\ at'[w] \in {"oops", "flushing"}
  PROVE  OrderInv'
  <1>1. \A w \in Write :
          /\ at'[w] \in Inside <=> at[w] \in Inside
          /\ at'[w] = "returned" <=> at[w] = "returned"
    BY DEF Inside
  <1> QED
    BY <1>1 DEF OrderInv, LockInv, EnteredInv

(* A write that submits its requests gives up the lock and stays.           *)
LEMMA SubmitWriteInOrder ==
  ASSUME TypeOK, OrderInv, NEW w \in Write, SubmitWrite(w)
  PROVE  OrderInv'
  <1>1. /\ at[w] = "locked" /\ at'[w] = "returned" /\ lock' = NoBio /\ chain' = chain
        /\ \A v \in Write \ {w} : at'[v] = at[v]
    BY DEF SubmitWrite, Unlock, TypeOK, Bio
  <1>2. lock = w /\ \A v \in Write : at'[v] \notin Inside /\ v # NoBio
    BY <1>1, BioAssumption DEF OrderInv, LockInv, Inside
  <1>3. \A v \in Write : at'[v] \in Inside \cup {"returned"} <=> at[v] \in Inside \cup {"returned"}
    BY <1>1 DEF Inside
  <1> QED
    BY <1>1, <1>2, <1>3 DEF OrderInv, LockInv, EnteredInv

(* A write that gets the lock is put behind all that are in the chain.      *)
LEMMA EnterWriteInOrder ==
  ASSUME TypeOK, OrderInv, NEW w \in Write, EnterWrite(w)
  PROVE  OrderInv'
  <1>1. /\ lock = NoBio /\ lock' = w /\ chain' = Append(chain, w)
        /\ at[w] = "waiting" /\ at'[w] = "locked"
        /\ \A v \in Write \ {w} : at'[v] = at[v]
    BY DEF EnterWrite, TypeOK, Bio
  <1>2. /\ Len(chain) \in Nat /\ Len(chain') = Len(chain) + 1
        /\ \A a \in 1 .. Len(chain) : chain'[a] = chain[a]
        /\ chain'[Len(chain) + 1] = w
    BY <1>1, AppendProperties, LenProperties DEF TypeOK
  <1>3. \A a \in 1 .. Len(chain') : a \in 1 .. Len(chain) \/ a = Len(chain) + 1
    BY <1>2
  <1>4. \A a \in 1 .. Len(chain) : chain[a] # w
    BY <1>1 DEF OrderInv, EnteredInv, Inside
  <1>5. LockInv'
    <2>1. \A v \in Write \ {w} : at'[v] \notin Inside
      BY <1>1, BioAssumption DEF OrderInv, LockInv
    <2>2. at'[w] \in Inside
      BY <1>1 DEF Inside
    <2> QED
      BY <1>1, <1>2, <2>1, <2>2 DEF LockInv
  <1>6. EnteredInv'
    <2>1. \A v \in Write :
            at'[v] \in Inside \cup {"returned"} <=> \E a \in 1 .. Len(chain') : chain'[a] = v
      <3> SUFFICES ASSUME NEW v \in Write
                   PROVE  at'[v] \in Inside \cup {"returned"}
                            <=> \E a \in 1 .. Len(chain') : chain'[a] = v
        OBVIOUS
      <3>1. CASE v = w
        BY <1>1, <1>2, <3>1 DEF Inside
      <3>2. CASE v # w
        <4>1. (\E a \in 1 .. Len(chain') : chain'[a] = v) <=> \E a \in 1 .. Len(chain) : chain[a] = v
          BY <1>2, <1>3, <3>2
        <4> QED
          BY <1>1, <3>2, <4>1 DEF OrderInv, EnteredInv
      <3> QED
        BY <3>1, <3>2
    <2>2. \A a, b \in 1 .. Len(chain') : chain'[a] = chain'[b] => a = b
      BY <1>2, <1>3, <1>4 DEF OrderInv, EnteredInv
    <2> QED
      BY <2>1, <2>2 DEF EnteredInv
  <1> QED
    BY <1>5, <1>6 DEF OrderInv

(* A write that has the lock and is taken off the chain is the last of it.  *)
LEMMA AbortWriteInOrder ==
  ASSUME TypeOK, OrderInv, NEW w \in Write, AbortWrite(w)
  PROVE  OrderInv'
  <1>1. /\ at[w] = "locked" /\ at'[w] = "failed" /\ lock' = NoBio
        /\ chain' = SubSeq(chain, 1, Len(chain) - 1)
        /\ \A v \in Write \ {w} : at'[v] = at[v]
    BY DEF AbortWrite, Unlock, Front, TypeOK, Bio
  <1>2. lock = w /\ Len(chain) \in Nat \ {0} /\ chain[Len(chain)] = w
    <2>1. Len(chain) \in Nat
      BY LenProperties DEF TypeOK
    <2>2. lock = w
      BY <1>1 DEF OrderInv, LockInv, Inside
    <2> QED
      BY <2>1, <2>2, BioAssumption DEF OrderInv, LockInv
  <1>3. /\ Len(chain') = Len(chain) - 1
        /\ \A a \in 1 .. Len(chain) - 1 : chain'[a] = chain[a]
    <2>1. \A a \in 1 .. Len(chain) - 1 : chain[a] \in Write
      BY <1>2, ElementOfSeq DEF TypeOK
    <2>2. /\ Len(SubSeq(chain, 1, Len(chain) - 1))
               = IF 1 <= Len(chain) - 1 THEN Len(chain) - 1 - 1 + 1 ELSE 0
          /\ \A a \in 1 .. Len(chain) - 1 - 1 + 1 :
               SubSeq(chain, 1, Len(chain) - 1)[a] = chain[1 + a - 1]
      BY <1>2, <2>1, SubSeqProperties
    <2> DEFINE front == SubSeq(chain, 1, Len(chain) - 1)
    <2> HIDE DEF front
    <2>3. Len(front) = Len(chain) - 1
      <3>1. \A n \in Nat \ {0} : (IF 1 <= n - 1 THEN n - 1 - 1 + 1 ELSE 0) = n - 1
        OBVIOUS
      <3> QED
        BY <1>2, <2>2, <3>1 DEF front
    <2>4. \A a \in 1 .. Len(chain) - 1 : a \in 1 .. Len(chain) - 1 - 1 + 1 /\ 1 + a - 1 = a
      BY <1>2
    <2>5. \A a \in 1 .. Len(chain) - 1 : front[a] = chain[a]
      BY <2>2, <2>4 DEF front
    <2> QED
      BY <1>1, <2>3, <2>5 DEF front
  <1>4. \A a \in 1 .. Len(chain) : a \in 1 .. Len(chain') \/ chain[a] = w
    BY <1>2, <1>3
  <1>5. \A a \in 1 .. Len(chain') : a \in 1 .. Len(chain) /\ chain'[a] = chain[a] /\ chain[a] # w
    <2> SUFFICES ASSUME NEW a \in 1 .. Len(chain')
                 PROVE  a \in 1 .. Len(chain) /\ chain'[a] = chain[a] /\ chain[a] # w
      OBVIOUS
    <2>1. a \in 1 .. Len(chain) /\ a # Len(chain) /\ chain'[a] = chain[a]
      BY <1>2, <1>3
    <2> QED
      BY <1>2, <2>1 DEF OrderInv, EnteredInv
  <1>6. LockInv'
    <2>1. \A v \in Write : at'[v] \notin Inside /\ v # NoBio
      BY <1>1, <1>2, BioAssumption DEF OrderInv, LockInv, Inside
    <2> QED
      BY <1>1, <2>1 DEF LockInv
  <1>7. EnteredInv'
    <2>1. \A v \in Write :
            at'[v] \in Inside \cup {"returned"} <=> \E a \in 1 .. Len(chain') : chain'[a] = v
      <3> SUFFICES ASSUME NEW v \in Write
                   PROVE  at'[v] \in Inside \cup {"returned"}
                            <=> \E a \in 1 .. Len(chain') : chain'[a] = v
        OBVIOUS
      <3>1. CASE v = w
        BY <1>1, <1>5, <3>1 DEF Inside
      <3>2. CASE v # w
        <4>1. (\E a \in 1 .. Len(chain') : chain'[a] = v) <=> \E a \in 1 .. Len(chain) : chain[a] = v
          BY <1>4, <1>5, <3>2
        <4> QED
          BY <1>1, <3>2, <4>1 DEF OrderInv, EnteredInv
      <3> QED
        BY <3>1, <3>2
    <2>2. \A a, b \in 1 .. Len(chain') : chain'[a] = chain'[b] => a = b
      BY <1>5 DEF OrderInv, EnteredInv
    <2> QED
      BY <2>1, <2>2 DEF EnteredInv
  <1> QED
    BY <1>6, <1>7 DEF OrderInv

LEMMA OrderStep == BioInv /\ OrderInv /\ [Next]_vars => OrderInv'
  <1> SUFFICES ASSUME TypeOK, OrderInv, [Next]_vars PROVE OrderInv'
    BY DEF BioInv
  <1>1. ASSUME NEW b \in Bio, NEW h \in Half, Issue(b, h) PROVE OrderInv'
    <2>1. chain' = chain /\ lock' = lock /\ at' = at
      BY <1>1 DEF Issue
    <2> QED
      BY <2>1, QuietStep
  <1>2. ASSUME NEW r \in Read,
               SubmitRead(r) \/ KillRead(r) \/ ReadCompletes(r) \/ ReadEnds(r)
        PROVE  OrderInv'
    <2>1. /\ chain' = chain /\ lock' = lock
          /\ \A w \in Write : at'[w] = at[w]
      BY <1>2, BioAssumption DEF SubmitRead, KillRead, ReadCompletes, ReadEnds, TypeOK, Bio
    <2> QED
      BY <2>1, QuietStep
  <1>3. ASSUME NEW w \in Write,
               ArriveWrite(w) \/ NoPageForWrite(w) \/ InterruptWrite(w) \/ EnterFails(w)
                 \/ OopsWrite(w) \/ FlushHangs(w)
        PROVE  OrderInv'
    <2>1. /\ chain' = chain /\ lock' = lock
          /\ \A v \in Write \ {w} : at'[v] = at[v]
          /\ \/ at[w] \in {"new", "waiting"} /\ at'[w] \in {"waiting", "failed"}
             \/ at[w] = "locked" /\ at'[w] \in {"oops", "flushing"}
      BY <1>3 DEF ArriveWrite, NoPageForWrite, InterruptWrite, EnterFails, OopsWrite, FlushHangs,
                  TypeOK, Bio
    <2> QED
      BY <2>1, QuietStep
  <1>4. ASSUME NEW w \in Write, NEW h \in Half,
               WriteCompletes(w, h) \/ WriteEnds(w, h) \/ ParityPageFreed(w)
        PROVE  OrderInv'
    <2>1. chain' = chain /\ lock' = lock /\ at' = at
      BY <1>4 DEF WriteCompletes, WriteEnds, ParityPageFreed
    <2> QED
      BY <2>1, QuietStep
  <1>5. CASE UNCHANGED vars
    BY <1>5, QuietStep DEF vars
  <1>6. \E h : h \in Half
    BY DEF Half
  <1> QED
    BY <1>1, <1>2, <1>3, <1>4, <1>5, <1>6, SubmitWriteInOrder, EnterWriteInOrder,
       AbortWriteInOrder DEF Next

LEMMA OrderInvariant == Spec => []OrderInv
  BY OrderInit, OrderStep, BioInvariant, PTL DEF Spec

(* For any number of writes: what the device gets of them is in the chain,  *)
(* once, and stays there, each with its data before its parity.             *)
THEOREM IssuedCorrect == Spec => []IssuedWritesAreInChain
  <1>1. BioInv /\ OrderInv => IssuedWritesAreInChain
    <2> SUFFICES ASSUME BioInv, OrderInv PROVE IssuedWritesAreInChain
      OBVIOUS
    <2>1. IsInjective(chain)
      BY DEF OrderInv, EnteredInv, IsInjective, BioInv, TypeOK
    <2>2. ASSUME NEW w \in Write
          PROVE  /\ w \in Range(chain) <=> at[w] \in {"locked", "flushing", "oops", "returned"}
                 /\ \A h \in Half : sub[w][h] \in Submitted <=> at[w] = "returned"
                 /\ sub[w]["data"] = "parked" => sub[w]["parity"] \notin Submitted \ {"parked"}
                 /\ at[w] \in {"locked", "flushing", "oops"} <=> lock = w
      <3>1. w \in Range(chain) <=> \E a \in 1 .. Len(chain) : chain[a] = w
        <4>1. chain \in Seq(Write)
          BY DEF BioInv, TypeOK
        <4>2. DOMAIN chain = 1 .. Len(chain)
          BY <4>1, LenProperties
        <4> QED
          BY <4>2 DEF Range
      <3>2. RequestsInv(w) /\ at[w] \in {"new", "waiting", "locked", "flushing", "returned",
                                        "failed", "oops"}
        <4>1. RequestsInv(w) /\ TypeOK /\ w \in Bio
          BY DEF BioInv, WriteInv, Bio
        <4> QED
          BY <4>1 DEF TypeOK
      <3>3. \A h \in Half : sub[w][h] \in Submitted <=> at[w] = "returned"
        BY <3>2 DEF RequestsInv, Submitted, Inside, Half
      <3>4. sub[w]["data"] = "parked" => sub[w]["parity"] \notin Submitted \ {"parked"}
        BY <3>2, <3>3 DEF RequestsInv, Submitted, Half
      <3> QED
        BY <3>1, <3>3, <3>4 DEF OrderInv, LockInv, EnteredInv, Inside
    <2> QED
      BY <2>1, <2>2 DEF IssuedWritesAreInChain
  <1> QED
    BY <1>1, BioInvariant, OrderInvariant, PTL

(* A page is back in the pool when its write is over, unless the wait for   *)
(* the lock was interrupted.                                                *)
THEOREM PagesCorrect == Spec => []PagesComeBack
  <1>1. BioInv /\ OrderInv => PagesComeBack
    <2> SUFFICES ASSUME BioInv, OrderInv, NEW w \in Write
                 PROVE  /\ at[w] = "returned" /\ sub[w]["parity"] = "done" => page[w] = "free"
                        /\ at[w] = "failed" =>
                             page[w] \in {"none", "free"} \/ (page[w] = "lost" /\ w \notin Range(chain))
                        /\ page[w] = "free" => sub[w]["parity"] \in {"none", "leaked", "done"}
      BY DEF PagesComeBack
    <2>1. RequestsInv(w) /\ PageInv(w)
      BY DEF BioInv, WriteInv
    <2>2. at[w] = "failed" => w \notin Range(chain)
      <3>1. w \in Range(chain) <=> \E a \in 1 .. Len(chain) : chain[a] = w
        <4>1. chain \in Seq(Write)
          BY DEF BioInv, TypeOK
        <4>2. DOMAIN chain = 1 .. Len(chain)
          BY <4>1, LenProperties
        <4> QED
          BY <4>2 DEF Range
      <3> QED
        BY <3>1 DEF OrderInv, EnteredInv, Inside
    <2>3. at[w] \in {"new", "waiting", "locked", "flushing", "returned", "failed", "oops"}
      BY DEF BioInv, TypeOK, Bio
    <2> QED
      BY <2>1, <2>2, <2>3 DEF RequestsInv, PageInv, Inside, Half
  <1> QED
    BY <1>1, BioInvariant, OrderInvariant, PTL
=============================================================================

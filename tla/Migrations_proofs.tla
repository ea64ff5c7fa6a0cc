--------------------------- MODULE Migrations_proofs ---------------------------
(***************************************************************************)
(* Proofs about Migrations, for any instances, releases, files and faults. *)
(*                                                                         *)
(* Only the instance that has the advisory lock works on the files         *)
(* (Locked), so a file it has found missing is still missing when it       *)
(* commits it, and what others have found applied stays as it is           *)
(* (AppliedSoFar).                                                         *)
(***************************************************************************)
EXTENDS Migrations, SequenceTheorems, TLAPS

\* The files of a release have names and checksums.
LEMMA FileType ==
  ASSUME NEW r \in Releases
  PROVE  /\ Len(Files[r]) \in Nat
         /\ \A k \in 1..Len(Files[r]) : Files[r][k].id \in Ids /\ Files[r][k].sum \in Sums
<1>1. Files[r] \in Seq([id: Ids, sum: Sums])
  BY MigrationsAssumption
<1>2. \A k \in 1..Len(Files[r]) : Files[r][k] \in [id: Ids, sum: Sums]
  BY <1>1, ElementOfSeq
<1> QED
  BY <1>1, <1>2

\* The file an instance is working on.
LEMMA AtFile ==
  ASSUME IInv, NEW i \in Instances, instance[i].pc \in {"run", "record", "commit"}
  PROVE  /\ instance[i].n \in 1..Len(FilesOf(i))
         /\ File(i).id \in Ids /\ File(i).sum \in Sums
         /\ history[File(i).id] = NoSum
<1>1. instance[i].release \in Releases
  BY DEF IInv, TypeOK
<1>2. instance[i].n \in 1..Len(FilesOf(i)) /\ history[File(i).id] = NoSum
  BY <1>1, FileType DEF IInv, AppliedSoFar, AppliedBy, FilesOf
<1> QED
  BY <1>1, <1>2, FileType DEF FilesOf, File

\* The steps that leave the history alone.
Reading(i) ==
  \/ \E r \in Releases : Start(i, r)
  \/ Lock(i) \/ Check(i) \/ Run(i) \/ Record(i) \/ Unlock(i) \/ StatementFails(i) \/ Crash(i)

LEMMA NextCases ==
  ASSUME [Next]_vars
  PROVE  UNCHANGED vars \/ \E i \in Instances : Reading(i) \/ Commit(i)
BY DEF Next, Work, Reading

\* What such a step of i does to the state of i, action by action.
LEMMA ReadingStep ==
  ASSUME IInv, NEW i \in Instances, Reading(i)
  PROVE  /\ UNCHANGED <<history, times>>
         /\ \A j \in Instances : j # i => instance'[j] = instance[j]
         /\ \/ \E r \in Releases :
                 Start(i, r) /\ instance'[i] = [pc |-> "lock", release |-> r, n |-> 0]
            \/ /\ Lock(i) \/ Check(i)
               /\ instance'[i] = [instance[i] EXCEPT !.pc = "check", !.n = @ + 1]
            \/ \E pc \in Steps :
                 /\ Check(i) \/ Run(i) \/ Record(i) \/ Unlock(i) \/ StatementFails(i) \/ Crash(i)
                 /\ instance'[i] = [instance[i] EXCEPT !.pc = pc]
<1> USE DEF IInv, TypeOK, Goto, GoOn, Steps
<1>1. CASE \E r \in Releases : Start(i, r)
  BY <1>1 DEF Start
<1>2. CASE Lock(i)
  BY <1>2 DEF Lock
<1>3. CASE Check(i)
  BY <1>3 DEF Check
<1>4. CASE Run(i) \/ Record(i)
  BY <1>4 DEF Run, Record
<1>5. CASE Unlock(i)
  BY <1>5 DEF Unlock
<1>6. CASE StatementFails(i) \/ Crash(i)
  BY <1>6 DEF StatementFails, Crash
<1> QED
  BY <1>1, <1>2, <1>3, <1>4, <1>5, <1>6 DEF Reading

-------------------------------------------------------------------------------
(* The inductive invariant *)

LEMMA InitIInv == Init => IInv
BY MigrationsAssumption
   DEF Init, IInv, TypeOK, Locked, AppliedSoFar, AppliedBy, HistoryIsSchema, Steps

LEMMA TypeStep ==
  ASSUME IInv, [Next]_vars
  PROVE  TypeOK'
<1> DEFINE States == [pc: Steps, release: Releases, n: Nat]
<1>1. CASE UNCHANGED vars
  BY <1>1 DEF vars, IInv, TypeOK
<1>2. ASSUME NEW i \in Instances, NEW new \in States,
             instance' = [instance EXCEPT ![i] = new]
      PROVE  instance' \in [Instances -> States]
  BY <1>2 DEF IInv, TypeOK
<1>3. ASSUME NEW i \in Instances, NEW pc \in Steps, Goto(i, pc) \/ GoOn(i)
      PROVE  instance' \in [Instances -> States]
  BY <1>3 DEF Goto, GoOn, IInv, TypeOK, Steps
<1>4. ASSUME Fault PROVE faults' \in Nat
  BY <1>4 DEF Fault, IInv, TypeOK
<1>5. ASSUME NEW i \in Instances, Reading(i)
      PROVE  TypeOK'
  <2>1. /\ history' \in [Ids -> Sums \cup {NoSum}] /\ times' \in [Ids -> Nat]
    BY <1>5, ReadingStep DEF IInv, TypeOK
  <2>2. holder' \in Instances \cup {Nobody}
    BY <1>5 DEF Reading, Start, Lock, Check, Run, Record, Unlock, StatementFails, Crash,
                IInv, TypeOK
  <2>3. faults' \in Nat
    BY <1>4, <1>5 DEF Reading, Start, Lock, Check, Run, Record, Unlock, StatementFails,
                      Crash, IInv, TypeOK
  <2>4. instance' \in [Instances -> States]
    <3>1. CASE \E r \in Releases : Start(i, r)
      BY <1>2, <3>1 DEF Start, Steps
    <3>2. \A pc \in {"down", "check", "run", "record", "commit", "finish", "abort", "up", "failed"} :
            pc \in Steps
      BY DEF Steps
    <3>3. CASE Lock(i) \/ Check(i)
      BY <1>3, <3>2, <3>3 DEF Lock, Check
    <3>4. CASE Run(i) \/ Record(i) \/ Unlock(i)
      BY <1>3, <3>2, <3>4 DEF Run, Record, Unlock
    <3>5. CASE StatementFails(i) \/ Crash(i)
      BY <1>3, <3>2, <3>5 DEF StatementFails, Crash
    <3> QED
      BY <1>5, <3>1, <3>3, <3>4, <3>5 DEF Reading
  <2> QED
    BY <2>1, <2>2, <2>3, <2>4 DEF TypeOK
<1>6. ASSUME NEW i \in Instances, Commit(i)
      PROVE  TypeOK'
  <2>1. File(i).id \in Ids /\ File(i).sum \in Sums
    BY <1>6, AtFile DEF Commit
  <2>2. history' \in [Ids -> Sums \cup {NoSum}] /\ times' \in [Ids -> Nat]
    BY <1>6, <2>1 DEF Commit, IInv, TypeOK
  <2>3. instance' \in [Instances -> States]
    BY <1>3, <1>6 DEF Commit, Steps
  <2>4. faults' \in Nat /\ holder' \in Instances \cup {Nobody}
    BY <1>4, <1>6 DEF Commit, IInv, TypeOK
  <2> QED
    BY <2>2, <2>3, <2>4 DEF TypeOK
<1> QED
  BY <1>1, <1>5, <1>6, NextCases

\* Another instance does not move, and keeps the lock if it has it.
LEMMA LockedStep ==
  ASSUME IInv, [Next]_vars
  PROVE  Locked'
<1> DEFINE Working == {"check", "run", "record", "commit", "finish", "abort"}
<1>1. CASE UNCHANGED vars
  BY <1>1 DEF vars, IInv, Locked
<1>2. ASSUME NEW i \in Instances, Reading(i)
      PROVE  Locked'
  <2> SUFFICES ASSUME NEW j \in Instances, instance'[j].pc \in Working
               PROVE  holder' = j
    BY DEF Locked
  <2>1. CASE j # i
    <3>1. instance'[j] = instance[j]
      BY <1>2, <2>1, ReadingStep
    <3>2. holder = j
      BY <3>1 DEF IInv, Locked
    <3>3. holder # Nobody /\ holder # i
      BY <2>1, <3>2, MigrationsAssumption
    <3>4. instance[i].pc \notin Working
      BY <3>3 DEF IInv, Locked
    <3> QED
      BY <1>2, <3>2, <3>3, <3>4
         DEF Reading, Start, Lock, Check, Run, Record, Unlock, StatementFails, Crash
  <2>2. CASE j = i
    <3>1. CASE Lock(i)
      BY <2>2, <3>1 DEF Lock
    <3>2. CASE (\E r \in Releases : Start(i, r)) \/ Unlock(i) \/ Crash(i)
      <4>1. instance'[i].pc \notin Working
        BY <3>2 DEF Start, Unlock, Crash, Goto, IInv, TypeOK
      <4> QED
        BY <2>2, <4>1
    <3>3. CASE Check(i) \/ Run(i) \/ Record(i) \/ StatementFails(i)
      <4>1. instance[i].pc \in Working /\ holder' = holder
        BY <3>3 DEF Check, Run, Record, StatementFails
      <4> QED
        BY <2>2, <4>1 DEF IInv, Locked
    <3> QED
      BY <1>2, <3>1, <3>2, <3>3 DEF Reading
  <2> QED
    BY <2>1, <2>2
<1>3. ASSUME NEW i \in Instances, Commit(i)
      PROVE  Locked'
  <2>1. holder' = holder /\ instance[i].pc = "commit"
    BY <1>3 DEF Commit
  <2>2. \A j \in Instances : j # i => instance'[j] = instance[j]
    BY <1>3 DEF Commit, Goto, GoOn, IInv, TypeOK
  <2> QED
    BY <2>1, <2>2 DEF IInv, Locked
<1> QED
  BY <1>1, <1>2, <1>3, NextCases

LEMMA AppliedStep ==
  ASSUME IInv, [Next]_vars
  PROVE  AppliedSoFar'
<1>1. CASE UNCHANGED vars
  BY <1>1 DEF vars, IInv, AppliedSoFar, AppliedBy, FilesOf, File
<1>2. ASSUME NEW i \in Instances, Reading(i)
      PROVE  AppliedSoFar'
  <2> SUFFICES ASSUME NEW j \in Instances PROVE AppliedBy(j)'
    BY DEF AppliedSoFar
  <2>1. UNCHANGED history
    BY <1>2, ReadingStep
  <2>2. CASE j # i
    <3>1. instance'[j] = instance[j]
      BY <1>2, <2>2, ReadingStep
    <3> QED
      BY <2>1, <3>1 DEF IInv, AppliedSoFar, AppliedBy, FilesOf, File
  <2>3. CASE j = i
    <3>1. /\ AppliedBy(i) /\ instance[i].release \in Releases /\ instance[i].n \in Nat
          /\ instance[i] \in [pc: Steps, release: Releases, n: Nat]
      BY DEF IInv, AppliedSoFar, TypeOK
    <3>2. Len(FilesOf(i)) \in Nat
      BY <3>1, FileType DEF FilesOf
    <3>3. CASE \E r \in Releases : instance'[i] = [pc |-> "lock", release |-> r, n |-> 0]
      BY <2>3, <3>3 DEF AppliedBy
    <3>4. CASE Lock(i) /\ instance'[i] = [instance[i] EXCEPT !.pc = "check", !.n = @ + 1]
      <4>1. instance[i].n = 0
        BY <3>1, <3>4 DEF AppliedBy, Lock
      <4>2. /\ instance'[i].pc = "check" /\ instance'[i].n = 1
            /\ instance'[i].release = instance[i].release
        BY <3>1, <3>4, <4>1
      <4>3. FilesOf(i)' = FilesOf(i)
        BY <4>2 DEF FilesOf
      <4> QED
        BY <2>3, <3>2, <4>2, <4>3 DEF AppliedBy
    <3>5. CASE Check(i) /\ instance'[i] = [instance[i] EXCEPT !.pc = "check", !.n = @ + 1]
      <4>1. /\ instance'[i].pc = "check" /\ instance'[i].n = instance[i].n + 1
            /\ instance'[i].release = instance[i].release
        BY <3>1, <3>5
      <4>2. instance[i].n \in 1..Len(FilesOf(i)) /\ history[File(i).id] = File(i).sum
        <5>1. \A pc : ~ Goto(i, pc)
          BY <3>1, <4>1 DEF Goto, IInv, TypeOK
        <5>2. /\ ~ instance[i].n > Len(FilesOf(i)) /\ history[File(i).id] = File(i).sum
              /\ instance[i].pc = "check"
          BY <3>5, <5>1 DEF Check
        <5>3. instance[i].n \in 1..(Len(FilesOf(i)) + 1)
          BY <3>1, <5>2 DEF AppliedBy
        <5> QED
          BY <3>2, <5>2, <5>3
      <4>3. FilesOf(i)' = FilesOf(i)
        BY <4>1 DEF FilesOf
      <4>4. \A k \in 1..instance[i].n : history[FilesOf(i)[k].id] = FilesOf(i)[k].sum
        BY <3>1, <3>5, <4>2 DEF AppliedBy, Check, File
      <4> QED
        BY <2>1, <2>3, <3>1, <3>2, <4>1, <4>2, <4>3, <4>4 DEF AppliedBy
    <3>6. ASSUME NEW pc \in Steps, instance'[i] = [instance[i] EXCEPT !.pc = pc],
                 Check(i) \/ Run(i) \/ Record(i) \/ Unlock(i) \/ StatementFails(i) \/ Crash(i)
          PROVE  AppliedBy(i)'
      <4>1. /\ instance'[i].pc = pc /\ instance'[i].n = instance[i].n
            /\ instance'[i].release = instance[i].release
        BY <3>1, <3>6
      <4>2. FilesOf(i)' = FilesOf(i) /\ File(i)' = File(i)
        BY <4>1 DEF FilesOf, File
      <4>3. CASE pc \in {"down", "failed", "abort"}
        BY <4>1, <4>3 DEF AppliedBy
      <4>4. CASE Check(i) /\ pc \in {"run", "finish"}
        <5>1. /\ instance[i].pc = "check"
              /\ pc = "finish" => instance[i].n > Len(FilesOf(i))
              /\ pc = "run" => ~ instance[i].n > Len(FilesOf(i)) /\ history[File(i).id] = NoSum
          BY <3>1, <4>1, <4>4 DEF Check, Goto, GoOn, IInv, TypeOK
        <5> QED
          BY <2>1, <3>1, <3>2, <4>1, <4>2, <4>4, <5>1 DEF AppliedBy
      <4>5. CASE (Run(i) /\ pc = "record") \/ (Record(i) /\ pc = "commit")
                   \/ (Unlock(i) /\ pc = "up")
        <5>1. /\ pc \in {"record", "commit"} => instance[i].pc \in {"run", "record"}
              /\ pc = "up" => instance[i].pc = "finish"
          BY <4>1, <4>5 DEF Run, Record, Unlock, Goto, IInv, TypeOK
        <5> QED
          BY <2>1, <3>1, <4>1, <4>2, <4>5, <5>1 DEF AppliedBy
      <4>6. \/ pc \in {"down", "failed", "abort"}
            \/ Check(i) /\ pc \in {"run", "finish"}
            \/ Run(i) /\ pc = "record"
            \/ Record(i) /\ pc = "commit"
            \/ Unlock(i) /\ pc = "up"
        <5>1. CASE Check(i)
          BY <3>1, <4>1, <5>1 DEF Check, Goto, GoOn, IInv, TypeOK
        <5>2. CASE Run(i) \/ Record(i) \/ Unlock(i)
          BY <4>1, <5>2 DEF Run, Record, Unlock, Goto, IInv, TypeOK
        <5>3. CASE StatementFails(i) \/ Crash(i)
          BY <4>1, <5>3 DEF StatementFails, Crash, Goto, IInv, TypeOK
        <5> QED
          BY <3>6, <5>1, <5>2, <5>3
      <4> QED
        BY <4>3, <4>4, <4>5, <4>6
    <3> QED
      BY <1>2, <2>3, <3>3, <3>4, <3>5, <3>6, ReadingStep
  <2> QED
    BY <2>2, <2>3
<1>3. ASSUME NEW i \in Instances, Commit(i)
      PROVE  AppliedSoFar'
  <2> SUFFICES ASSUME NEW j \in Instances PROVE AppliedBy(j)'
    BY DEF AppliedSoFar
  <2>1. /\ instance[i].n \in 1..Len(FilesOf(i)) /\ instance[i].pc = "commit"
        /\ File(i).id \in Ids /\ File(i).sum \in Sums /\ history[File(i).id] = NoSum
    BY <1>3, AtFile DEF Commit
  <2>2. /\ history'[File(i).id] = File(i).sum
        /\ \A id : history[id] \in Sums => history'[id] = history[id]
    <3>1. history' = [history EXCEPT ![File(i).id] = File(i).sum]
      BY <1>3 DEF Commit
    <3>2. \A id \in Ids : id # File(i).id => history'[id] = history[id]
      BY <3>1 DEF IInv, TypeOK
    <3> QED
      BY <2>1, <3>1, <3>2, MigrationsAssumption DEF IInv, TypeOK
  <2>3. \A k \in 1..Len(FilesOf(j)) :
          history[FilesOf(j)[k].id] = FilesOf(j)[k].sum
            => history'[FilesOf(j)[k].id] = FilesOf(j)[k].sum
    <3>1. instance[j].release \in Releases
      BY DEF IInv, TypeOK
    <3> QED
      BY <2>2, <3>1, FileType DEF FilesOf
  <2>4. CASE j # i
    <3>1. instance'[j] = instance[j]
      BY <1>3, <2>4 DEF Commit, Goto, GoOn, IInv, TypeOK
    <3>2. instance[j].pc \notin {"check", "run", "record", "commit", "finish", "abort"}
      BY <2>1, <2>4 DEF IInv, Locked
    <3>3. AppliedBy(j) /\ FilesOf(j)' = FilesOf(j) /\ instance[j].release \in Releases
      BY <3>1 DEF IInv, AppliedSoFar, FilesOf, TypeOK
    <3>4. Len(FilesOf(j)) \in Nat
      BY <3>3, FileType DEF FilesOf
    <3> QED
      BY <2>3, <3>1, <3>2, <3>3, <3>4 DEF AppliedBy
  <2>5. CASE j = i
    <3>1. AppliedBy(i) /\ instance[i].release \in Releases /\ Len(FilesOf(i)) \in Nat
      BY FileType DEF IInv, AppliedSoFar, FilesOf, TypeOK
    <3>2. CASE Goto(i, "abort")
      <4>1. instance'[i].pc = "abort"
        BY <3>2 DEF Goto, IInv, TypeOK
      <4> QED
        BY <2>5, <4>1 DEF AppliedBy
    <3>3. CASE GoOn(i)
      <4>1. /\ instance'[i].pc = "check" /\ instance'[i].n = instance[i].n + 1
            /\ instance'[i].release = instance[i].release
        BY <3>3 DEF GoOn, IInv, TypeOK
      <4>2. FilesOf(i)' = FilesOf(i)
        BY <4>1 DEF FilesOf
      <4>3. \A k \in 1..instance[i].n : history'[FilesOf(i)[k].id] = FilesOf(i)[k].sum
        BY <2>1, <2>2, <2>3, <2>5, <3>1 DEF AppliedBy, File
      <4> QED
        BY <2>1, <2>5, <3>1, <4>1, <4>2, <4>3 DEF AppliedBy
    <3> QED
      BY <1>3, <3>2, <3>3 DEF Commit
  <2> QED
    BY <2>4, <2>5
<1> QED
  BY <1>1, <1>2, <1>3, NextCases

\* A commit finds its file missing in the history, so it was not run before.
LEMMA HistoryStep ==
  ASSUME IInv, [Next]_vars
  PROVE  HistoryIsSchema'
<1>1. CASE UNCHANGED vars
  BY <1>1 DEF vars, IInv, HistoryIsSchema
<1>2. ASSUME NEW i \in Instances, Reading(i)
      PROVE  HistoryIsSchema'
  BY <1>2, ReadingStep DEF IInv, HistoryIsSchema
<1>3. ASSUME NEW i \in Instances, Commit(i)
      PROVE  HistoryIsSchema'
  <2>1. File(i).id \in Ids /\ File(i).sum \in Sums /\ history[File(i).id] = NoSum
    BY <1>3, AtFile DEF Commit
  <2>2. /\ history' = [history EXCEPT ![File(i).id] = File(i).sum]
        /\ times' = [times EXCEPT ![File(i).id] = @ + 1]
    BY <1>3 DEF Commit
  <2> QED
    BY <2>1, <2>2, MigrationsAssumption DEF IInv, TypeOK, HistoryIsSchema
<1> QED
  BY <1>1, <1>2, <1>3, NextCases

LEMMA Inductive ==
  ASSUME IInv, [Next]_vars
  PROVE  IInv'
BY TypeStep, LockedStep, AppliedStep, HistoryStep DEF IInv

-------------------------------------------------------------------------------
(* The theorems *)

\* Whatever the number of instances, releases and faults, a migration script is
\* committed once and together with its record (ApplyMigrationAsync).
THEOREM MigrationsRunOnce == Spec => []HistoryIsSchema
<1>1. Init => IInv
  BY InitIInv
<1>2. IInv /\ [Next]_vars => IInv'
  BY Inductive
<1>3. IInv => HistoryIsSchema
  BY DEF IInv
<1> QED
  BY <1>1, <1>2, <1>3, PTL DEF Spec

\* An instance whose StartAsync returned has the schema of its release.
LEMMA UpFromIInv == IInv => UpIsMigrated
<1> SUFFICES ASSUME IInv, NEW i \in Instances, instance[i].pc = "up",
                    NEW k \in 1..Len(FilesOf(i))
             PROVE  history[FilesOf(i)[k].id] = FilesOf(i)[k].sum /\ times[FilesOf(i)[k].id] = 1
  BY DEF UpIsMigrated
<1>1. /\ Len(FilesOf(i)) \in Nat
      /\ FilesOf(i)[k].id \in Ids /\ FilesOf(i)[k].sum \in Sums
  BY FileType DEF FilesOf, IInv, TypeOK
<1>2. history[FilesOf(i)[k].id] = FilesOf(i)[k].sum
  BY <1>1 DEF IInv, AppliedSoFar, AppliedBy
<1> QED
  BY <1>1, <1>2, MigrationsAssumption DEF IInv, HistoryIsSchema

\* The instances that are up keep their schema under any later release.
THEOREM UpMeansMigrated == Spec => []UpIsMigrated
<1>1. Init => IInv
  BY InitIInv
<1>2. IInv /\ [Next]_vars => IInv'
  BY Inductive
<1>3. IInv => UpIsMigrated
  BY UpFromIInv
<1> QED
  BY <1>1, <1>2, <1>3, PTL DEF Spec
===============================================================================

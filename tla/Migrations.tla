------------------------------- MODULE Migrations -------------------------------
(***************************************************************************)
(* DatabaseMigrationService: every instance of the application applies the *)
(* files of its release when it starts, in the order of their names, under *)
(* one advisory lock, each in a transaction with the record of its name    *)
(* and checksum.  Instances of several releases start at once, restart and *)
(* crash; releases differ in the files they have and what is in them.      *)
(***************************************************************************)
EXTENDS Naturals, Sequences

CONSTANTS
  Instances,   \* instances of the application that apply migrations
  Releases,    \* releases that get deployed
  Ids,         \* names of migration files
  Sums,        \* checksums of what is in them
  Files,       \* release -> its files in the order of their names
  MaxFaults    \* bound on crashes and failing statements

NoSum == "none"
Nobody == "nobody"

ASSUME MigrationsAssumption ==
  /\ Files \in [Releases -> Seq([id: Ids, sum: Sums])]
  /\ NoSum \notin Sums
  /\ Nobody \notin Instances
  /\ MaxFaults \in Nat

VARIABLES
  history,   \* file name -> its checksum in nexusops_schema_migrations
  times,     \* file name -> how often its script has been committed
  holder,    \* instance whose connection has the advisory lock
  instance,  \* instance -> where its start is, its release, the file it is at
  faults     \* faults so far

vars == <<history, times, holder, instance, faults>>

Steps == {"down", "lock", "check", "run", "record", "commit", "finish", "abort", "up", "failed"}

TypeOK ==
  /\ history \in [Ids -> Sums \cup {NoSum}]
  /\ times \in [Ids -> Nat]
  /\ holder \in Instances \cup {Nobody}
  /\ instance \in [Instances -> [pc: Steps, release: Releases, n: Nat]]
  /\ faults \in Nat

Init ==
  /\ history = [id \in Ids |-> NoSum]
  /\ times = [id \in Ids |-> 0]
  /\ holder = Nobody
  /\ instance \in [Instances -> [pc: {"down"}, release: Releases, n: {0}]]
  /\ faults = 0

-------------------------------------------------------------------------------
FilesOf(i) == Files[instance[i].release]
File(i) == FilesOf(i)[instance[i].n]

Goto(i, pc) == instance' = [instance EXCEPT ![i].pc = pc]
GoOn(i) == instance' = [instance EXCEPT ![i].pc = "check", ![i].n = @ + 1]

Fault == faults < MaxFaults /\ faults' = faults + 1

\* An instance of some release is started, or restarted.
Start(i, r) ==
  /\ instance[i].pc \in {"down", "failed"}
  /\ instance' = [instance EXCEPT ![i] = [pc |-> "lock", release |-> r, n |-> 0]]
  /\ UNCHANGED <<history, times, holder, faults>>

\* pg_advisory_lock; the history table exists from here on.
Lock(i) ==
  /\ instance[i].pc = "lock"
  /\ holder = Nobody
  /\ holder' = i
  /\ GoOn(i)
  /\ UNCHANGED <<history, times, faults>>

\* Faulty variant: an applied file is passed over whatever is in it now.
CheckName(i) ==
  /\ instance[i].pc = "check"
  /\ IF instance[i].n > Len(FilesOf(i)) THEN Goto(i, "finish")
     ELSE IF history[File(i).id] = NoSum THEN Goto(i, "run")
     ELSE GoOn(i)
  /\ UNCHANGED <<history, times, holder, faults>>

\* The recorded checksum of the next file: none, the same, or another one.
Check(i) ==
  /\ instance[i].pc = "check"
  /\ IF instance[i].n > Len(FilesOf(i)) THEN Goto(i, "finish")
     ELSE IF history[File(i).id] = NoSum THEN Goto(i, "run")
     ELSE IF history[File(i).id] = File(i).sum THEN GoOn(i)
     ELSE Goto(i, "abort")
  /\ UNCHANGED <<history, times, holder, faults>>

\* Faulty variant: the script is executed outside of the transaction.
RunAtOnce(i) ==
  /\ instance[i].pc = "run"
  /\ times' = [times EXCEPT ![File(i).id] = @ + 1]
  /\ Goto(i, "record")
  /\ UNCHANGED <<history, holder, faults>>

\* The script runs in the transaction; only the commit shows its effects.
Run(i) ==
  /\ instance[i].pc = "run"
  /\ Goto(i, "record")
  /\ UNCHANGED <<history, times, holder, faults>>

\* The insert into the history, whose key is the name.
Record(i) ==
  /\ instance[i].pc = "record"
  /\ Goto(i, IF history[File(i).id] = NoSum THEN "commit" ELSE "abort")
  /\ UNCHANGED <<history, times, holder, faults>>

\* The instance hears of the commit or the connection breaks before it does.
Commit(i) ==
  /\ instance[i].pc = "commit"
  /\ history' = [history EXCEPT ![File(i).id] = File(i).sum]
  /\ times' = [times EXCEPT ![File(i).id] = @ + 1]
  /\ \/ GoOn(i) /\ UNCHANGED faults
     \/ Fault /\ Goto(i, "abort")
  /\ UNCHANGED holder

\* A statement fails: an exception, the transaction is rolled back.
StatementFails(i) ==
  /\ instance[i].pc \in {"check", "run", "record", "commit"}
  /\ Fault
  /\ Goto(i, "abort")
  /\ UNCHANGED <<history, times, holder>>

\* Faulty variant: the lock is given back only at the end of the work.
UnlockUnlessFailed(i) ==
  /\ instance[i].pc \in {"finish", "abort"}
  /\ holder' = IF instance[i].pc = "finish" THEN Nobody ELSE holder
  /\ Goto(i, IF instance[i].pc = "finish" THEN "up" ELSE "failed")
  /\ UNCHANGED <<history, times, faults>>

\* The finally block; an exception then ends the start of the host.
Unlock(i) ==
  /\ instance[i].pc \in {"finish", "abort"}
  /\ holder' = Nobody
  /\ Goto(i, IF instance[i].pc = "finish" THEN "up" ELSE "failed")
  /\ UNCHANGED <<history, times, faults>>

\* The process is gone, and with its connection its lock and transaction.
Crash(i) ==
  /\ instance[i].pc # "down"
  /\ Fault
  /\ holder' = IF holder = i THEN Nobody ELSE holder
  /\ Goto(i, "down")
  /\ UNCHANGED <<history, times>>

Work(i) == Check(i) \/ Run(i) \/ Record(i) \/ Commit(i) \/ Unlock(i)

Next ==
  \E i \in Instances :
    \/ \E r \in Releases : Start(i, r)
    \/ Lock(i) \/ Work(i) \/ StatementFails(i) \/ Crash(i)

Spec == Init /\ [][Next]_vars

\* Postgres serves the waiters of the lock in turn; an instance keeps working.
FairSpec == Spec /\ \A i \in Instances : SF_vars(Lock(i)) /\ WF_vars(Work(i))

-------------------------------------------------------------------------------
(* Properties *)

\* Who works on the files has the lock.
Locked ==
  \A i \in Instances :
    instance[i].pc \in {"check", "run", "record", "commit", "finish", "abort"} => holder = i

\* The files before the one an instance is at are applied as it knows them.
AppliedBy(i) ==
  /\ instance[i].pc = "lock" => instance[i].n = 0
  /\ instance[i].pc \in {"check", "run", "record", "commit", "finish", "up"} =>
       /\ instance[i].n \in 1..(Len(FilesOf(i)) + 1)
       /\ \A k \in 1..(instance[i].n - 1) : history[FilesOf(i)[k].id] = FilesOf(i)[k].sum
  /\ instance[i].pc \in {"run", "record", "commit"} =>
       instance[i].n <= Len(FilesOf(i)) /\ history[File(i).id] = NoSum
  /\ instance[i].pc \in {"finish", "up"} => instance[i].n = Len(FilesOf(i)) + 1

AppliedSoFar == \A i \in Instances : AppliedBy(i)

\* A migration runs once, whatever crashes and however many instances start
\* together, and the history says so: a script and its record are one step.
HistoryIsSchema ==
  \A id \in Ids : times[id] = IF history[id] = NoSum THEN 0 ELSE 1

\* The inductive invariant
IInv == TypeOK /\ Locked /\ AppliedSoFar /\ HistoryIsSchema

\* An instance that is up works on a schema made by exactly the files of its
\* release, and stays so while newer releases migrate the database further: a
\* release with another content for an applied file never gets up.
UpIsMigrated ==
  \A i \in Instances :
    instance[i].pc = "up" =>
      \A k \in 1..Len(FilesOf(i)) :
        history[FilesOf(i)[k].id] = FilesOf(i)[k].sum /\ times[FilesOf(i)[k].id] = 1

\* An instance that waits for the lock comes up, fails or crashes: no other
\* instance, stopped at any point, keeps it from starting.
EventuallyStarted ==
  \A i \in Instances : instance[i].pc = "lock" ~> instance[i].pc \in {"up", "failed", "down"}
===============================================================================

---------------------------- MODULE VoiceDispatch ----------------------------
(***************************************************************************)
(* How NexusOps places an outbound voice call.                             *)
(*                                                                         *)
(* A session row (voice_call_sessions) says how far a call is; a queue row *)
(* (voice_call_queue) says who has to start it.  Four kinds of process     *)
(* work on them, each a sequence of single SQL statements:                 *)
(*   - workers   run QueuedVoiceCallWorker: enqueue, claim under a lease,  *)
(*               start the call, settle the queue row;                     *)
(*   - starters  are requests POST /voice/calls/start, which start the     *)
(*               same call with the same code and no queue row;            *)
(*   - editors   are requests POST /voice/calls/{id}/complete, /fail and   *)
(*               /outcome: they read the session and write back all of it; *)
(*   - webhooks  are Twilio status callbacks.                              *)
(* Between two statements anything can happen: another process runs, the   *)
(* process dies, a lease runs out, or the reply of a statement that took   *)
(* effect is lost.                                                         *)
(***************************************************************************)
EXTENDS Naturals, FiniteSets, CallStatus

CONSTANTS
  Sessions,     \* voice call sessions of the tenant
  Workers,      \* instances of QueuedVoiceCallWorker
  Starters,     \* API requests that start a call
  Editors,      \* API requests that edit a session
  Webhooks,     \* status callbacks being handled
  Words,        \* the Twilio status words that arrive
  MaxAttempts,  \* VoiceCallQueueOptions.MaxAttempts
  MaxFaults     \* bound on crashes, database errors and leases lost while held

Callers == Workers \cup Starters
Processes == Callers \cup Editors \cup Webhooks

ASSUME ProcessesAssumption ==
  /\ Workers \cap Starters = {}
  /\ Callers \cap (Editors \cup Webhooks) = {}
  /\ Editors \cap Webhooks = {}

NoSession == "none"     \* where a process has no session

ASSUME SessionsAssumption == NoSession \notin Sessions

ASSUME BoundsAssumption == MaxAttempts \in Nat \ {0} /\ MaxFaults \in Nat

VARIABLES
  row,      \* session -> its voice_call_sessions row
  queue,    \* session -> its voice_call_queue row
  proc,     \* process -> where it is and its local variables
  placed,   \* session -> number of calls Twilio has created for it
  requests, \* session -> number of requests sent to Twilio to create its call
  retried,  \* session -> the attempts whose 429 put it back to queued
  faults    \* faults so far

vars == <<row, queue, proc, placed, requests, retried, faults>>

-------------------------------------------------------------------------------
(* Rows and local variables *)

NoCall == 0     \* provider_call_id is null; the n-th call of a session has id n

Rows == [status: Statuses, call: Nat,
         failure: {"none", "provider", "operator"},  \* FailureReason
         outcome: BOOLEAN]                           \* Outcome is set

NewRow == [status |-> "queued", call |-> NoCall, failure |-> "none", outcome |-> FALSE]

\* "absent" means there is no row.  A claim writes a fresh lock_id and counts
\* itself in attempts: the number stands for the id.  The timer is what the
\* claim compares with now(): available_at of a pending row, the end of the
\* lease of a row being processed.
QueueRows == [status: {"absent", "pending", "processing", "completed", "dead_letter"},
              attempts: Nat, lock: Nat, timer: {"running", "over"}]

NoQueueRow == [status |-> "absent", attempts |-> 0, lock |-> 0, timer |-> "running"]
NewQueueRow == [status |-> "pending", attempts |-> 0, lock |-> 0, timer |-> "over"]

Steps == {"idle", "claim", "read", "initiate", "request", "record", "fail",
          "requeue", "retry", "complete", "recheck", "settle", "dead",
          "edit", "hook"}

Errors == {"throttled", "invalid", "other", "cancelled"}
Edits == {"completed", "failed", "outcome"}

\* att is QueuedVoiceCall.Attempt and, in its role of lock id, LockId; snap is
\* the session object in memory, call the new providerCallId, arg the exception
\* being handled, the edit requested or the status a callback reports.
Locals == [pc: Steps, s: Sessions \cup {NoSession}, snap: Rows, att: Nat,
           call: Nat, arg: {"none"} \cup Errors \cup Edits \cup Statuses]

Idle == [pc |-> "idle", s |-> NoSession, snap |-> NewRow, att |-> 0,
         call |-> NoCall, arg |-> "none"]

TypeOK ==
  /\ row \in [Sessions -> Rows]
  /\ queue \in [Sessions -> QueueRows]
  /\ proc \in [Processes -> Locals]
  /\ placed \in [Sessions -> Nat]
  /\ requests \in [Sessions -> Nat]
  /\ retried \in [Sessions -> SUBSET Nat]
  /\ faults \in Nat

Init ==
  /\ row = [s \in Sessions |-> NewRow]
  /\ queue = [s \in Sessions |-> NoQueueRow]
  /\ proc = [p \in Processes |-> Idle]
  /\ placed = [s \in Sessions |-> 0]
  /\ requests = [s \in Sessions |-> 0]
  /\ retried = [s \in Sessions |-> {}]
  /\ faults = 0

-------------------------------------------------------------------------------
(* Control flow *)

\* The local variables l at the next step; an ended request leaves nothing.
AtStep(l, next) == IF next = "idle" THEN Idle ELSE [l EXCEPT !.pc = next]

\* Where a process is after a statement threw something that is neither an
\* InvalidOperationException nor a cancellation.  Inside the try block of
\* ProcessAsync the last catch dead-letters the queue row; from inside a catch
\* block, and while polling, the exception reaches the loop of ExecuteAsync.
OnDatabaseError(p) ==
  IF p \in Workers /\ proc[p].pc \in {"read", "initiate", "record", "fail", "complete"}
  THEN "dead" ELSE "idle"

\* An InvalidOperationException: the worker looks at the session again.
OnInvalidOperation(p) == IF p \in Workers THEN "recheck" ELSE "idle"

Fault == faults < MaxFaults /\ faults' = faults + 1

Move(p, l) == proc' = [proc EXCEPT ![p] = l]

\* The statement of p took effect and p, whose local variables are then l,
\* goes on at the step next, unless the connection breaks before it hears.
Goto(p, l, next) ==
  \/ Move(p, AtStep(l, next)) /\ UNCHANGED faults
  \/ Fault /\ Move(p, AtStep(l, OnDatabaseError(p)))

\* Faulty variants: no WHERE clause at all, and one that forgets the status.
UnconditionalUpdate(p) == TRUE
ComparesCallOnly(p) == row[proc[p].s].call = proc[p].snap.call

\* The WHERE clause of TryUpdateAsync, with what p read before.
Unchanged(p) ==
  LET l == proc[p] IN row[l.s].status = l.snap.status /\ row[l.s].call = l.snap.call

\* TryUpdateAsync: writes every column of the session in memory, or nothing.
TryUpdate(p, new) ==
  row' = IF Unchanged(p) THEN [row EXCEPT ![proc[p].s] = new] ELSE row

-------------------------------------------------------------------------------
(* The worker's loop *)

EnqueuePendingSessions(w) ==
  /\ proc[w].pc = "idle"
  /\ queue' = [s \in Sessions |->
                 IF row[s].status = "queued" /\ queue[s].status = "absent"
                 THEN NewQueueRow ELSE queue[s]]
  /\ Goto(w, proc[w], "claim")
  /\ UNCHANGED <<row, placed, requests, retried>>

\* Faulty variant: the row of a worker that died is never claimed again.
ClaimablePendingOnly(s) == queue[s].status = "pending" /\ queue[s].timer = "over"

Claimable(s) == queue[s].status \in {"pending", "processing"} /\ queue[s].timer = "over"

\* Which claimable row is the oldest is left open.
Claim(w) ==
  /\ proc[w].pc = "claim"
  /\ \E s \in Sessions :
       LET attempt == queue[s].attempts + 1 IN
       /\ Claimable(s)
       /\ queue' = [queue EXCEPT ![s].status = "processing", ![s].attempts = attempt,
                                 ![s].lock = attempt, ![s].timer = "running"]
       /\ Goto(w, [proc[w] EXCEPT !.s = s, !.att = attempt], "read")
  /\ UNCHANGED <<row, placed, requests, retried>>

ClaimNothing(w) ==
  /\ proc[w].pc = "claim"
  /\ ~ \E s \in Sessions : Claimable(s)
  /\ Move(w, Idle)
  /\ UNCHANGED <<row, queue, placed, requests, retried, faults>>

-------------------------------------------------------------------------------
(* VoiceCallService.StartAsync, for workers and starters *)

StartRequest(c, s) ==
  /\ proc[c].pc = "idle"
  /\ Move(c, [Idle EXCEPT !.pc = "read", !.s = s])
  /\ UNCHANGED <<row, queue, placed, requests, retried, faults>>

ReadSession(p) ==
  LET s == proc[p].s IN
  /\ proc[p].pc = "read"
  /\ Goto(p, [proc[p] EXCEPT !.snap = row[s]],
          IF row[s].status = "queued" THEN "initiate" ELSE OnInvalidOperation(p))
  /\ UNCHANGED <<row, queue, placed, requests, retried>>

MarkInitiating(p) ==
  LET s == proc[p].s
      new == [proc[p].snap EXCEPT !.status = "initiating"] IN
  /\ proc[p].pc = "initiate"
  /\ TryUpdate(p, new)
  /\ Goto(p, [proc[p] EXCEPT !.snap = new],
          IF Unchanged(p) THEN "request" ELSE OnInvalidOperation(p))
  /\ requests' = IF proc'[p].pc = "request" THEN [requests EXCEPT ![s] = @ + 1] ELSE requests
  /\ UNCHANGED <<queue, placed, retried>>

\* Twilio creates a call.  The answer with its SID arrives, or it arrives
\* without one, or cannot be parsed, or the client gave up waiting for it.
CallCreated(p) ==
  LET s == proc[p].s IN
  /\ proc[p].pc = "request"
  /\ placed' = [placed EXCEPT ![s] = @ + 1]
  /\ \/ Move(p, [proc[p] EXCEPT !.pc = "record", !.call = placed[s] + 1])
     \/ \E e \in Errors \ {"throttled"} : Move(p, [proc[p] EXCEPT !.pc = "fail", !.arg = e])
  /\ UNCHANGED <<row, queue, requests, retried, faults>>

\* No call is created: HTTP 429, another refusal or a network error, no
\* configuration or number, or a cancelled request.
CallRefused(p) ==
  /\ proc[p].pc = "request"
  /\ \E e \in Errors : Move(p, [proc[p] EXCEPT !.pc = "fail", !.arg = e])
  /\ UNCHANGED <<row, queue, placed, requests, retried, faults>>

\* Faulty variants: every error is retried; one attempt too many.
RetryAnyError(p) ==
  IF p \in Workers /\ proc[p].att < MaxAttempts THEN "requeue" ELSE "dead"
OneRetryTooMany(p) ==
  IF p \notin Workers THEN "idle"
  ELSE IF proc[p].arg = "throttled" /\ proc[p].att <= MaxAttempts THEN "requeue" ELSE "dead"

\* The filters of the catch clauses of ProcessAsync.
AfterFailure(p) ==
  IF p \notin Workers THEN "idle"
  ELSE CASE proc[p].arg = "throttled" /\ proc[p].att < MaxAttempts -> "requeue"
         [] proc[p].arg = "invalid" -> "recheck"
         [] proc[p].arg = "cancelled" -> "idle"
         [] OTHER -> "dead"

\* The catch block of StartAsync; whether the update hit is not looked at.
MarkFailed(p) ==
  /\ proc[p].pc = "fail"
  /\ TryUpdate(p, [proc[p].snap EXCEPT !.status = "failed", !.failure = "provider"])
  /\ Goto(p, proc[p], AfterFailure(p))
  /\ UNCHANGED <<queue, placed, requests, retried>>

RecordCall(p) ==
  /\ proc[p].pc = "record"
  /\ TryUpdate(p, [proc[p].snap EXCEPT !.call = proc[p].call])
  /\ Goto(p, proc[p],
          IF ~Unchanged(p) THEN OnInvalidOperation(p)
          ELSE IF p \in Workers THEN "complete" ELSE "idle")
  /\ UNCHANGED <<queue, placed, requests, retried>>

-------------------------------------------------------------------------------
(* Settling the queue row: the rest of ProcessAsync *)

TryRequeue(w) ==
  LET s == proc[w].s
      revive == row[s].status = "failed" /\ row[s].call = NoCall IN
  /\ proc[w].pc = "requeue"
  /\ row' = IF revive
            THEN [row EXCEPT ![s].status = "queued", ![s].failure = "none"]
            ELSE row
  /\ retried' = IF revive THEN [retried EXCEPT ![s] = @ \cup {proc[w].att}] ELSE retried
  /\ Goto(w, proc[w], IF revive THEN "retry" ELSE "dead")
  /\ UNCHANGED <<queue, placed, requests>>

\* Faulty variant: the lock id is left out of the WHERE clause.
HoldsAnyLease(w) == queue[proc[w].s].status = "processing"

HoldsLease(w) ==
  queue[proc[w].s].status = "processing" /\ queue[proc[w].s].lock = proc[w].att

\* UpdateAsync: only the holder of the lease changes the row.
Settle(w, status) ==
  LET s == proc[w].s IN
  queue' = IF HoldsLease(w)
           THEN [queue EXCEPT ![s].status = status, ![s].lock = 0, ![s].timer = "running"]
           ELSE queue

\* Faulty variant: the row of a throttled call is completed.
CompletesInsteadOfRetry(w) ==
  /\ proc[w].pc = "retry"
  /\ Settle(w, "completed")
  /\ Goto(w, proc[w], "idle")
  /\ UNCHANGED <<row, placed, requests, retried>>

MarkRetry(w) ==
  /\ proc[w].pc = "retry"
  /\ Settle(w, "pending")
  /\ Goto(w, proc[w], "idle")
  /\ UNCHANGED <<row, placed, requests, retried>>

\* From the try block a lost lease is an InvalidOperationException to catch.
MarkCompleted(w) ==
  /\ proc[w].pc \in {"complete", "settle"}
  /\ Settle(w, "completed")
  /\ Goto(w, proc[w],
          IF proc[w].pc = "complete" /\ ~HoldsLease(w) THEN "recheck" ELSE "idle")
  /\ UNCHANGED <<row, placed, requests, retried>>

MarkDeadLetter(w) ==
  /\ proc[w].pc = "dead"
  /\ Settle(w, "dead_letter")
  /\ Goto(w, proc[w], "idle")
  /\ UNCHANGED <<row, placed, requests, retried>>

\* Faulty variant: the row of a session that failed is completed.
RecheckQueuedOnly(w) ==
  /\ proc[w].pc = "recheck"
  /\ Goto(w, proc[w],
          IF row[proc[w].s].status = "queued" THEN "dead" ELSE "settle")
  /\ UNCHANGED <<row, queue, placed, requests, retried>>

Recheck(w) ==
  /\ proc[w].pc = "recheck"
  /\ Goto(w, proc[w],
          IF row[proc[w].s].status \in {"queued", "failed"} THEN "dead" ELSE "settle")
  /\ UNCHANGED <<row, queue, placed, requests, retried>>

-------------------------------------------------------------------------------
(* Editors and webhooks *)

EditRequest(e, s, edit) ==
  /\ proc[e].pc = "idle"
  /\ Goto(e, [Idle EXCEPT !.s = s, !.snap = row[s], !.arg = edit], "edit")
  /\ UNCHANGED <<row, queue, placed, requests, retried>>

Edited(snap, edit) ==
  IF edit = "outcome"
  THEN [snap EXCEPT !.outcome = TRUE]
  ELSE [snap EXCEPT !.status = edit,
                    !.failure = IF edit = "failed" THEN "operator" ELSE @]

\* UpsertAsync: every column, whatever the row holds by now.
WriteEdit(e) ==
  /\ proc[e].pc = "edit"
  /\ row' = [row EXCEPT ![proc[e].s] = Edited(proc[e].snap, proc[e].arg)]
  /\ Move(e, Idle)
  /\ UNCHANGED <<queue, placed, requests, retried, faults>>

\* A callback about the call the row records, with a word that moves it on;
\* any other callback ends here and changes nothing.
StatusCallback(h, s, word) ==
  /\ proc[h].pc = "idle"
  /\ row[s].call \in 1..placed[s]
  /\ word \in ProviderWords
  /\ CanApplyProviderStatus(row[s].status, MappedStatus(word))
  /\ Goto(h, [Idle EXCEPT !.s = s, !.snap = row[s], !.arg = MappedStatus(word)], "hook")
  /\ UNCHANGED <<row, queue, placed, requests, retried>>

ApplyCallback(h) ==
  /\ proc[h].pc = "hook"
  /\ TryUpdate(h, [proc[h].snap EXCEPT !.status = proc[h].arg])
  /\ Move(h, Idle)
  /\ UNCHANGED <<queue, placed, requests, retried, faults>>

-------------------------------------------------------------------------------
(* Time and faults *)

\* The delay of a retry passes.
BecomeDue(s) ==
  /\ queue[s].status = "pending" /\ queue[s].timer = "running"
  /\ queue' = [queue EXCEPT ![s].timer = "over"]
  /\ UNCHANGED <<row, proc, placed, requests, retried, faults>>

Held(s) == \E w \in Workers : proc[w].s = s /\ proc[w].att = queue[s].lock

\* A lease runs out: of a worker that is gone, or of one still at work.
ExpireLease(s) ==
  /\ queue[s].status = "processing" /\ queue[s].timer = "running"
  /\ queue' = [queue EXCEPT ![s].timer = "over"]
  /\ IF Held(s) THEN Fault ELSE UNCHANGED faults
  /\ UNCHANGED <<row, proc, placed, requests, retried>>

\* A statement fails and has no effect.
DatabaseError(p) ==
  /\ proc[p].pc \notin {"idle", "request"}
  /\ Fault
  /\ Move(p, AtStep(proc[p], OnDatabaseError(p)))
  /\ UNCHANGED <<row, queue, placed, requests, retried>>

\* The process stops, or its request is aborted and it notices nothing more.
Crash(p) ==
  /\ proc[p].pc # "idle"
  /\ Fault
  /\ Move(p, Idle)
  /\ UNCHANGED <<row, queue, placed, requests, retried>>

-------------------------------------------------------------------------------
Start(p) ==
  \/ ReadSession(p) \/ MarkInitiating(p) \/ MarkFailed(p) \/ RecordCall(p)

Provider(p) == CallCreated(p) \/ CallRefused(p)

Worker(w) ==
  \/ EnqueuePendingSessions(w) \/ Claim(w) \/ ClaimNothing(w)
  \/ TryRequeue(w) \/ MarkRetry(w) \/ MarkCompleted(w) \/ MarkDeadLetter(w) \/ Recheck(w)

Time(s) == BecomeDue(s) \/ ExpireLease(s)

Next ==
  \/ \E p \in Callers : Start(p) \/ Provider(p)
  \/ \E w \in Workers : Worker(w)
  \/ \E c \in Starters, s \in Sessions : StartRequest(c, s)
  \/ \E e \in Editors, s \in Sessions, edit \in {"completed", "failed"} : EditRequest(e, s, edit)
  \/ \E e \in Editors : WriteEdit(e)
  \/ \E h \in Webhooks, s \in Sessions, word \in Words : StatusCallback(h, s, word)
  \/ \E h \in Webhooks : ApplyCallback(h)
  \/ \E s \in Sessions : Time(s)
  \/ \E p \in Processes : DatabaseError(p) \/ Crash(p)

Spec == Init /\ [][Next]_vars

\* With requests POST /voice/calls/{id}/outcome as well.
OutcomeRequest(e, s) == EditRequest(e, s, "outcome")
NextWithOutcome == Next \/ \E e \in Editors, s \in Sessions : OutcomeRequest(e, s)
SpecWithOutcome == Init /\ [][NextWithOutcome]_vars

\* With such of these requests only as write "queued" over "queued", so that they
\* do not take back a start.
KeepsStarts ==
  \A e \in Editors :
    WriteEdit(e) /\ Edited(proc[e].snap, proc[e].arg).status = "queued" =>
      row[proc[e].s].status = "queued"
CarefulSpec == SpecWithOutcome /\ [][KeepsStarts]_vars

\* A worker that is running keeps taking steps, and so does a request it waits
\* for (StartAsync has a bounded HTTP timeout); time passes. Nothing obliges a
\* client to send a request, Twilio to call back, or anything to fail.
Fairness ==
  /\ \A w \in Workers : WF_vars(Worker(w)) /\ WF_vars(Start(w)) /\ WF_vars(Provider(w))
  /\ \A c \in Starters : WF_vars(Start(c)) /\ WF_vars(Provider(c))
  /\ \A s \in Sessions : WF_vars(BecomeDue(s)) /\ WF_vars(~Held(s) /\ ExpireLease(s))

FairSpec == Spec /\ Fairness

-------------------------------------------------------------------------------
(* What the sessions look like to CallPlacement *)

\* p has asked for a call of s and may yet be told to ask again.
Asking(p, s) ==
  /\ proc[p].s = s
  /\ \/ proc[p].pc \in {"request", "requeue"}
     \/ proc[p].pc = "fail" /\ proc[p].arg = "throttled"

Underway(s) == \E p \in Callers : Asking(p, s)

Phase(s) ==
  CASE placed[s] > 0 -> "placed"
    [] placed[s] = 0 /\ Underway(s) -> "trying"
    [] placed[s] = 0 /\ ~Underway(s) /\ row[s].status = "queued" -> "waiting"
    [] OTHER -> "abandoned"

Placement == INSTANCE CallPlacement
               WITH phase <- [s \in Sessions |-> Phase(s)], tries <- requests

-------------------------------------------------------------------------------
(* The inductive invariant behind AtMostOneCallPlaced, RequestsBounded,    *)
(* RefinesPlacement, FinalStaysFinal, CallKept, LeaseExclusive and         *)
(* QueuedIsServed                                                          *)

\* A process beyond polling works on some session, an editor knows what to edit.
SessionChosen ==
  /\ \A p \in Processes : proc[p].pc \notin {"idle", "claim"} => proc[p].s \in Sessions
  /\ \A e \in Editors : proc[e].pc = "edit" => proc[e].arg \in Edits

\* No start and no callback is about to write "queued" but the one that requeues.
NobodyWritesQueued ==
  /\ \A p \in Callers : proc[p].pc = "initiate" => proc[p].snap.status = "queued"
  /\ \A h \in Webhooks : proc[h].pc = "hook" => proc[h].arg \in Statuses \ {"queued"}

\* Steps of a start that may still write the session it read.
Starting == {"initiate", "request", "record", "fail"}

\* What a process will write still fits what it read: a start holds a session
\* that has no call yet, so does an editor that read it queued, and a callback has
\* a status it may move on from.
SnapshotsFit ==
  /\ \A s \in Sessions : row[s].status = "queued" => row[s].call = NoCall
  /\ \A p \in Callers :
       proc[p].pc \in Starting =>
         /\ proc[p].snap.call = NoCall
         /\ proc[p].pc # "initiate" => proc[p].snap.status = "initiating"
  /\ \A e \in Editors :
       proc[e].pc = "edit" /\ proc[e].snap.status = "queued" => proc[e].snap.call = NoCall
  /\ \A h \in Webhooks :
       proc[h].pc = "hook" => CanApplyProviderStatus(proc[h].snap.status, proc[h].arg)

\* A session has one token: being queued, being asked for, having its call.
OneToken ==
  \A s \in Sessions :
    /\ placed[s] <= 1
    /\ placed[s] = 1 => row[s].status # "queued" /\ ~Underway(s)
    /\ row[s].status = "queued" => ~Underway(s)
    /\ \A p, q \in Callers : Asking(p, s) /\ Asking(q, s) => p = q

\* Steps of a worker before it is known how its attempt ended.
Attempting == {"read", "initiate", "request", "record", "fail", "requeue"}

\* Claims are numbered apart.
AttemptsDistinct ==
  /\ \A s \in Sessions : queue[s].status = "absent" => queue[s].attempts = 0
  /\ \A w \in Workers :
       proc[w].s \in Sessions => proc[w].att \in 1..queue[proc[w].s].attempts
  /\ \A v, w \in Workers :
       v # w /\ proc[v].s = proc[w].s /\ proc[v].s \in Sessions => proc[v].att # proc[w].att
  /\ \A w \in Workers : proc[w].pc = "requeue" => proc[w].att < MaxAttempts

\* Requests are paid for by the retries, each once, and one more once the session
\* is started.
RequestsPaid ==
  /\ \A s \in Sessions :
       /\ retried[s] \subseteq 1..queue[s].attempts
       /\ retried[s] \subseteq 1..(MaxAttempts - 1)
       /\ requests[s] <= Cardinality(retried[s]) + (IF row[s].status = "queued" THEN 0 ELSE 1)
  /\ \A w \in Workers :
       proc[w].pc \in Attempting => proc[w].att \notin retried[proc[w].s]

\* While nothing fails, a worker has the lease of the session it works on.
LeasesHeld ==
  faults = 0 =>
    \A w \in Workers :
      proc[w].pc \notin {"idle", "claim"} => HoldsLease(w) /\ queue[proc[w].s].timer = "running"

\* Steps of a worker that has seen its session no longer queued.
Decided == {"request", "record", "fail", "requeue", "complete", "recheck", "settle", "dead"}

\* Nobody else puts that session back before the worker has settled its row.
DecidedIsNotQueued ==
  faults = 0 =>
    \A w \in Workers : proc[w].pc \in Decided => row[proc[w].s].status # "queued"

\* While nothing fails, a session waiting to be started has a queue row some
\* worker will claim, or none yet: a row is settled only when its session is.
QueuedIsServed ==
  \A s \in Sessions :
    faults = 0 /\ row[s].status = "queued" => queue[s].status \notin {"completed", "dead_letter"}

\* The part that POST /outcome keeps, unless it takes a session back to "queued".
OutcomeInv ==
  /\ TypeOK /\ SessionChosen
  /\ NobodyWritesQueued /\ SnapshotsFit
  /\ OneToken /\ AttemptsDistinct /\ RequestsPaid
  /\ LeasesHeld /\ DecidedIsNotQueued /\ QueuedIsServed

\* Editors write final statuses.
EditorsFinish ==
  \A e \in Editors : proc[e].pc = "edit" => proc[e].arg \in {"completed", "failed"}

IInv == OutcomeInv /\ EditorsFinish

\* The start of s was failed by StartAsync.
ProviderFailed(s) == row[s].status = "failed" /\ row[s].failure = "provider"

\* A session that the provider failed is over, and no start and no callback that
\* has still to write one read it then.
FailuresFit ==
  /\ \A s \in Sessions : row[s].failure = "provider" => row[s].status \in Terminal
  /\ \A p \in Processes :
       proc[p].pc \in Starting \cup {"hook"} => proc[p].snap.failure # "provider"

\* The same of a worker that is about to complete its row: with FailuresFit and
\* OutcomeInv the inductive invariant behind CompletedUnlessLate.
CompletesStarted ==
  faults = 0 /\ Starters = {} =>
    \A w \in Workers : proc[w].pc \in {"complete", "settle"} => ~ProviderFailed(proc[w].s)

(* Properties *)

\* Whatever crashes, expires, is retried or is edited, Twilio is never made to
\* create two calls for one session: StartAsync's conditional update admits one
\* start at a time, and only a 429, which creates no call, admits another.
AtMostOneCallPlaced == \A s \in Sessions : placed[s] <= 1

\* The provider is asked at most MaxAttempts times for a session, although the
\* queue counts claims and starters ask without the queue.
RequestsBounded == \A s \in Sessions : requests[s] <= MaxAttempts

\* The rows, queue and processes together implement the promise: requests come
\* one at a time, only a throttled one is repeated, and a placed call is final.
RefinesPlacement == Placement!Spec

\* A final status is left only for "queued", and only while no call exists: a
\* late callback or a second worker cannot bring a finished call back.
FinalStaysFinal ==
  [][\A s \in Sessions :
       row[s].status \in Terminal /\ row'[s].status \notin Terminal =>
         row'[s].status = "queued" /\ placed[s] = 0]_vars

\* An unexpired lease ends by a step of its holder: no other worker claims the
\* row, and none that lost its own lease on that row settles it.
LeaseExclusive ==
  [][\A s \in Sessions, w \in Workers :
       /\ proc[w].s = s /\ proc[w].att = queue[s].lock
       /\ queue[s].status = "processing" /\ queue[s].timer = "running"
       /\ queue'[s].status # "processing" \/ queue'[s].lock # queue[s].lock
       => proc'[w] # proc[w]]_vars

\* The id of the call is not lost once it is recorded, but to an editor, whose
\* write of the whole row takes it away: callbacks and starts keep it.
CallKept ==
  [][\A s \in Sessions :
       row[s].call # NoCall /\ row'[s].call # row[s].call =>
         \E e \in Editors : proc[e].pc = "edit" /\ proc[e].s = s /\ proc'[e] # proc[e]]_vars

\* The queue has nothing left to do for s.
Settled(s) ==
  /\ queue[s].status \notin {"pending", "processing"}
  /\ row[s].status = "queued" => queue[s].status # "absent"

\* If nothing fails, every session ends with its call recorded or in a final
\* status, and its queue row, unless a starter was faster, is settled.
EventuallyHandled ==
  [](faults = 0) =>
    \A s \in Sessions :
      <>[](Settled(s) /\ (row[s].call # NoCall \/ row[s].status \in Terminal))

\* Even when something fails no session waits for ever for a worker, and no
\* queue row stays open: the row of a worker that died is claimed again.
EventuallySettled == \A s \in Sessions : <>[]Settled(s)

\* A row of the queue is completed only when its session was started: one that
\* waits for its retry, or whose start the provider failed, is not.
CompletedMeansStarted ==
  \A s \in Sessions :
    queue[s].status = "completed" => row[s].status # "queued" /\ ~ProviderFailed(s)

\* It takes a fault, such as a lease that runs out during the request, or a direct
\* start, which fails behind the queue's back, to complete a row wrongly.
CompletedUnlessLate == faults = 0 /\ Starters = {} => CompletedMeansStarted
===============================================================================

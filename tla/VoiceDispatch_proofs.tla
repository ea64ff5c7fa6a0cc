------------------------- MODULE VoiceDispatch_proofs -------------------------
(***************************************************************************)
(* Proofs about VoiceDispatch, for any sets of sessions and processes and  *)
(* any number of attempts and faults: its types, that no session is called *)
(* twice, that the provider is asked at most MaxAttempts times, that no    *)
(* session is forgotten while nothing fails, that a final status, a        *)
(* recorded call and a lease are kept, and that the dispatch implements    *)
(* CallPlacement. What does not need it is proved with any request POST    *)
(* /outcome, the rest with those that take back no start.                  *)
(***************************************************************************)
EXTENDS VoiceDispatch, FiniteSetTheorems, TLAPS

\* Whatever Goto does, p ends with the local variables l, at the step it
\* meant to reach, or where a database error leads from where it was.
LEMMA GotoCases ==
  ASSUME NEW p, NEW l, NEW next, Goto(p, l, next)
  PROVE  \/ proc' = [proc EXCEPT ![p] = AtStep(l, next)]
         \/ proc' = [proc EXCEPT ![p] = AtStep(l, OnDatabaseError(p))]
BY DEF Goto, Move

LEMMA AtStepType ==
  ASSUME NEW l \in Locals, NEW next \in Steps
  PROVE  /\ AtStep(l, next) \in Locals
         /\ AtStep(l, next).pc = next
         /\ next # "idle" => AtStep(l, next) = [l EXCEPT !.pc = next]
BY DEF AtStep, Locals, Idle, Steps, NewRow, NoCall, Rows, Statuses

LEMMA FaultType == ASSUME faults \in Nat, Fault PROVE faults' \in Nat
BY DEF Fault

LEMMA GotoType ==
  ASSUME TypeOK, NEW p \in Processes, NEW l \in Locals, NEW next \in Steps,
         Goto(p, l, next)
  PROVE  /\ proc' \in [Processes -> Locals]
         /\ faults' \in Nat
         /\ \A q \in Processes : q # p => proc'[q] = proc[q]
         /\ \/ proc'[p] = AtStep(l, next)
            \/ proc'[p] = AtStep(l, OnDatabaseError(p))
<1>1. OnDatabaseError(p) \in Steps
  BY DEF OnDatabaseError, Steps
<1>2. AtStep(l, next) \in Locals /\ AtStep(l, OnDatabaseError(p)) \in Locals
  BY <1>1, AtStepType
<1>3. faults' \in Nat
  BY FaultType DEF Goto, TypeOK
<1>4. QED
  BY <1>2, <1>3, GotoCases DEF TypeOK

LEMMA TryUpdateType ==
  ASSUME TypeOK, NEW p \in Processes, NEW new \in Rows, TryUpdate(p, new)
  PROVE  row' \in [Sessions -> Rows]
BY DEF TypeOK, TryUpdate

-------------------------------------------------------------------------------
(* Types *)

Typed == TypeOK /\ SessionChosen

LEMMA TypedInit == Init => Typed
BY DEF Init, Typed, TypeOK, SessionChosen, Rows, QueueRows, Locals, NewRow, NoQueueRow,
       Idle, NoCall, Statuses, Steps, Processes

\* A step of p that goes to a step of its own keeps the processes' types.
LEMMA GotoTyped ==
  ASSUME Typed, NEW p \in Processes, NEW l \in Locals, NEW next \in Steps,
         l.s \in Sessions \/ next \in {"idle", "claim"},
         next = "edit" => l.arg \in Edits,
         l.s \in Sessions \/ OnDatabaseError(p) = "idle",
         Goto(p, l, next)
  PROVE  proc' \in [Processes -> Locals] /\ faults' \in Nat /\ SessionChosen'
<1>1. /\ proc' \in [Processes -> Locals]
      /\ faults' \in Nat
      /\ \A q \in Processes : q # p => proc'[q] = proc[q]
      /\ \/ proc'[p] = AtStep(l, next)
         \/ proc'[p] = AtStep(l, OnDatabaseError(p))
  BY GotoType DEF Typed
<1>2. proc'[p].pc \notin {"idle", "claim"} => proc'[p].s \in Sessions
  <2>1. OnDatabaseError(p) \in {"dead", "idle"}
    BY DEF OnDatabaseError
  <2>2. CASE proc'[p] = AtStep(l, next)
    BY <2>2 DEF AtStep, Idle, Locals
  <2>3. CASE proc'[p] = AtStep(l, OnDatabaseError(p))
    BY <2>1, <2>3 DEF AtStep, Idle, Locals
  <2>4. QED
    BY <1>1, <2>2, <2>3
<1>3. proc'[p].pc = "edit" => proc'[p].arg \in Edits
  <2>1. AtStep(l, OnDatabaseError(p)).pc # "edit"
    BY DEF OnDatabaseError, AtStep, Idle, Locals
  <2>2. CASE proc'[p] = AtStep(l, next)
    BY <2>2 DEF AtStep, Idle, Locals
  <2>3. QED
    BY <1>1, <2>1, <2>2
<1>4. QED
  BY <1>1, <1>2, <1>3 DEF Typed, SessionChosen, Processes

LEMMA MoveTyped ==
  ASSUME Typed, NEW p \in Processes, NEW l \in Locals,
         l.pc = "idle" \/ l.s \in Sessions, l.pc # "edit", Move(p, l)
  PROVE  proc' \in [Processes -> Locals] /\ SessionChosen'
BY DEF Typed, TypeOK, SessionChosen, Move

LEMMA IdleType == Idle \in Locals /\ Idle.pc = "idle"
BY DEF Idle, Locals, Steps, Rows, NewRow, Statuses, NoCall

LEMMA TypedStart ==
  ASSUME Typed, NEW p \in Callers, Start(p)
  PROVE  Typed'
<1> DEFINE s == proc[p].s
<1>1. /\ p \in Processes
      /\ proc[p] \in Locals
      /\ OnInvalidOperation(p) \in {"recheck", "idle"}
  BY DEF Typed, TypeOK, Processes, OnInvalidOperation
<1>2. CASE ReadSession(p)
  <2>1. s \in Sessions
    BY <1>1, <1>2 DEF ReadSession, Typed, SessionChosen
  <2>2. [proc[p] EXCEPT !.snap = row[s]] \in Locals
    BY <1>1, <2>1 DEF Typed, TypeOK, Locals
  <2>3. QED
    BY <1>1, <1>2, <2>1, <2>2, GotoTyped DEF ReadSession, Typed, TypeOK, Steps, Locals
<1>3. CASE MarkInitiating(p)
  <2> DEFINE new == [proc[p].snap EXCEPT !.status = "initiating"]
  <2>1. s \in Sessions
    BY <1>1, <1>3 DEF MarkInitiating, Typed, SessionChosen
  <2>2. new \in Rows /\ [proc[p] EXCEPT !.snap = new] \in Locals
    BY <1>1 DEF Locals, Rows, Statuses
  <2>3. row' \in [Sessions -> Rows]
    BY <1>1, <1>3, <2>2, TryUpdateType DEF MarkInitiating, Typed
  <2>4. proc' \in [Processes -> Locals] /\ faults' \in Nat /\ SessionChosen'
    BY <1>1, <1>3, <2>1, <2>2, GotoTyped DEF MarkInitiating, Steps, Locals
  <2>5. requests' \in [Sessions -> Nat]
    BY <1>3, <2>1 DEF MarkInitiating, Typed, TypeOK
  <2>6. QED
    BY <1>3, <2>3, <2>4, <2>5 DEF MarkInitiating, Typed, TypeOK
<1>4. CASE MarkFailed(p)
  <2> DEFINE new == [proc[p].snap EXCEPT !.status = "failed", !.failure = "provider"]
  <2>1. s \in Sessions
    BY <1>1, <1>4 DEF MarkFailed, Typed, SessionChosen
  <2>2. new \in Rows /\ AfterFailure(p) \in {"idle", "requeue", "recheck", "dead"}
    BY <1>1 DEF Locals, Rows, Statuses, AfterFailure
  <2>3. row' \in [Sessions -> Rows]
    BY <1>1, <1>4, <2>2, TryUpdateType DEF MarkFailed, Typed
  <2>4. proc' \in [Processes -> Locals] /\ faults' \in Nat /\ SessionChosen'
    BY <1>1, <1>4, <2>1, <2>2, GotoTyped DEF MarkFailed, Steps
  <2>5. QED
    BY <1>4, <2>3, <2>4 DEF MarkFailed, Typed, TypeOK
<1>5. CASE RecordCall(p)
  <2> DEFINE new == [proc[p].snap EXCEPT !.call = proc[p].call]
             next == IF ~Unchanged(p) THEN OnInvalidOperation(p)
                     ELSE IF p \in Workers THEN "complete" ELSE "idle"
  <2>1. s \in Sessions
    BY <1>1, <1>5 DEF RecordCall, Typed, SessionChosen
  <2>2. new \in Rows /\ next \in Steps
    BY <1>1 DEF Locals, Rows, Steps
  <2>3. row' \in [Sessions -> Rows]
    BY <1>1, <1>5, <2>2, TryUpdateType DEF RecordCall, Typed
  <2>4. proc' \in [Processes -> Locals] /\ faults' \in Nat /\ SessionChosen'
    <3>1. Goto(p, proc[p], next) /\ next # "edit"
      BY <1>1, <1>5 DEF RecordCall
    <3> HIDE DEF next
    <3>2. QED
      BY <1>1, <2>1, <2>2, <3>1, GotoTyped
  <2>5. QED
    BY <1>5, <2>3, <2>4 DEF RecordCall, Typed, TypeOK
<1>6. QED
  BY <1>2, <1>3, <1>4, <1>5 DEF Start

LEMMA TypedProvider ==
  ASSUME Typed, NEW p \in Callers, Provider(p)
  PROVE  Typed'
<1> DEFINE s == proc[p].s
<1>1. p \in Processes /\ proc[p] \in Locals /\ s \in Sessions
  BY DEF Typed, TypeOK, Processes, SessionChosen, Provider, CallCreated, CallRefused
<1>2. \A e \in Errors : [proc[p] EXCEPT !.pc = "fail", !.arg = e] \in Locals
  BY <1>1 DEF Locals, Steps
<1>3. [proc[p] EXCEPT !.pc = "record", !.call = placed[s] + 1] \in Locals
  <2>1. placed[s] + 1 \in Nat
    BY <1>1 DEF Typed, TypeOK
  <2>2. QED
    BY <1>1, <2>1 DEF Locals, Steps
<1>4. ASSUME NEW l \in Locals, l.s = s, l.pc # "edit", Move(p, l)
      PROVE  proc' \in [Processes -> Locals] /\ SessionChosen'
  BY <1>1, <1>4, MoveTyped
<1>5. proc' \in [Processes -> Locals] /\ SessionChosen'
  <2>1. CASE Move(p, [proc[p] EXCEPT !.pc = "record", !.call = placed[s] + 1])
    BY <1>1, <1>3, <1>4, <2>1 DEF Locals
  <2>2. CASE \E e \in Errors : Move(p, [proc[p] EXCEPT !.pc = "fail", !.arg = e])
    BY <1>1, <1>2, <1>4, <2>2 DEF Locals
  <2>3. QED
    BY <2>1, <2>2 DEF Provider, CallCreated, CallRefused
<1>6. placed' \in [Sessions -> Nat]
  <2>1. placed' = placed \/ placed' = [placed EXCEPT ![s] = @ + 1]
    BY DEF Provider, CallCreated, CallRefused
  <2>2. QED
    BY <1>1, <2>1 DEF Typed, TypeOK
<1>7. UNCHANGED <<row, queue, requests, retried, faults>>
  BY DEF Provider, CallCreated, CallRefused
<1>8. QED
  BY <1>5, <1>6, <1>7 DEF Typed, TypeOK

LEMMA SettleType ==
  ASSUME Typed, NEW w \in Workers, NEW status \in {"pending", "completed", "dead_letter"},
         proc[w].s \in Sessions, Settle(w, status)
  PROVE  queue' \in [Sessions -> QueueRows]
<1> DEFINE s == proc[w].s
<1>1. CASE HoldsLease(w)
  <2>1. queue' = [queue EXCEPT ![s].status = status, ![s].lock = 0, ![s].timer = "running"]
    BY <1>1 DEF Settle
  <2>2. QED
    BY <2>1 DEF Typed, TypeOK, QueueRows
<1>2. CASE ~HoldsLease(w)
  BY <1>2 DEF Settle, Typed, TypeOK
<1>3. QED
  BY <1>1, <1>2

LEMMA TypedWorker ==
  ASSUME Typed, NEW w \in Workers, Worker(w)
  PROVE  Typed'
<1> DEFINE s == proc[w].s
<1>1. w \in Processes /\ proc[w] \in Locals
  BY DEF Typed, TypeOK, Processes, Callers
<1>2. CASE EnqueuePendingSessions(w)
  <2>1. queue' \in [Sessions -> QueueRows]
    BY <1>2 DEF EnqueuePendingSessions, Typed, TypeOK, NewQueueRow, NoQueueRow, QueueRows
  <2>2. OnDatabaseError(w) = "idle"
    BY <1>2 DEF EnqueuePendingSessions, OnDatabaseError
  <2>3. proc' \in [Processes -> Locals] /\ faults' \in Nat /\ SessionChosen'
    BY <1>1, <1>2, <2>2, GotoTyped DEF EnqueuePendingSessions, Steps
  <2>4. QED
    BY <1>2, <2>1, <2>3 DEF EnqueuePendingSessions, Typed, TypeOK
<1>3. CASE Claim(w)
  <2>1. PICK t \in Sessions :
          /\ queue' = [queue EXCEPT ![t].status = "processing",
                                    ![t].attempts = queue[t].attempts + 1,
                                    ![t].lock = queue[t].attempts + 1, ![t].timer = "running"]
          /\ Goto(w, [proc[w] EXCEPT !.s = t, !.att = queue[t].attempts + 1], "read")
    BY <1>3 DEF Claim
  <2>2. queue[t].attempts + 1 \in Nat
    BY DEF Typed, TypeOK, QueueRows
  <2>3. queue' \in [Sessions -> QueueRows]
    BY <2>1, <2>2 DEF Typed, TypeOK, QueueRows
  <2> DEFINE l == [proc[w] EXCEPT !.s = t, !.att = queue[t].attempts + 1]
  <2>4. l \in Locals /\ l.s = t
    BY <1>1, <2>2 DEF Locals
  <2>5. proc' \in [Processes -> Locals] /\ faults' \in Nat /\ SessionChosen'
    <3>1. Goto(w, l, "read")
      BY <2>1
    <3> HIDE DEF l
    <3>2. QED
      BY <1>1, <2>4, <3>1, GotoTyped DEF Steps
  <2>6. QED
    BY <1>3, <2>3, <2>5 DEF Claim, Typed, TypeOK
<1>4. CASE ClaimNothing(w)
  BY <1>1, <1>4, MoveTyped, IdleType DEF ClaimNothing, Typed, TypeOK
<1>5. s \in Sessions \/ EnqueuePendingSessions(w) \/ Claim(w) \/ ClaimNothing(w)
  BY <1>1 DEF Worker, TryRequeue, MarkRetry, MarkCompleted, MarkDeadLetter, Recheck,
              Typed, SessionChosen
<1>6. ASSUME NEW next \in Steps \ {"edit"}, s \in Sessions, Goto(w, proc[w], next)
      PROVE  proc' \in [Processes -> Locals] /\ faults' \in Nat /\ SessionChosen'
  BY <1>1, <1>6, GotoTyped
<1>7. CASE s \in Sessions /\ TryRequeue(w)
  <2>1. row' \in [Sessions -> Rows]
    <3> DEFINE r == [row[s] EXCEPT !.status = "queued", !.failure = "none"]
    <3>1. row \in [Sessions -> Rows] /\ row[s] \in Rows
      BY <1>7 DEF Typed, TypeOK
    <3>2. r \in Rows
      BY <3>1 DEF Rows, Statuses
    <3>3. row' = [row EXCEPT ![s] = r] \/ row' = row
      BY <1>7, <3>1 DEF TryRequeue
    <3> HIDE DEF r
    <3>4. QED
      BY <1>7, <3>1, <3>2, <3>3
  <2>2. retried' \in [Sessions -> SUBSET Nat]
    BY <1>1, <1>7 DEF TryRequeue, Typed, TypeOK, Locals
  <2>3. proc' \in [Processes -> Locals] /\ faults' \in Nat /\ SessionChosen'
    BY <1>6, <1>7 DEF TryRequeue, Steps
  <2>4. QED
    BY <1>7, <2>1, <2>2, <2>3 DEF TryRequeue, Typed, TypeOK
<1>8. CASE s \in Sessions /\ MarkRetry(w)
  <2>1. proc' \in [Processes -> Locals] /\ faults' \in Nat /\ SessionChosen'
    BY <1>6, <1>8 DEF MarkRetry, Steps
  <2>2. QED
    BY <1>8, <2>1, SettleType DEF MarkRetry, Typed, TypeOK
<1>9. CASE s \in Sessions /\ MarkCompleted(w)
  <2>1. proc' \in [Processes -> Locals] /\ faults' \in Nat /\ SessionChosen'
    BY <1>6, <1>9 DEF MarkCompleted, Steps
  <2>2. QED
    BY <1>9, <2>1, SettleType DEF MarkCompleted, Typed, TypeOK
<1>10. CASE s \in Sessions /\ MarkDeadLetter(w)
  <2>1. proc' \in [Processes -> Locals] /\ faults' \in Nat /\ SessionChosen'
    BY <1>6, <1>10 DEF MarkDeadLetter, Steps
  <2>2. QED
    BY <1>10, <2>1, SettleType DEF MarkDeadLetter, Typed, TypeOK
<1>11. CASE s \in Sessions /\ Recheck(w)
  <2>1. proc' \in [Processes -> Locals] /\ faults' \in Nat /\ SessionChosen'
    BY <1>6, <1>11 DEF Recheck, Steps
  <2>2. QED
    BY <1>11, <2>1 DEF Recheck, Typed, TypeOK
<1>12. QED
  BY <1>2, <1>3, <1>4, <1>5, <1>7, <1>8, <1>9, <1>10, <1>11 DEF Worker

LEMMA MappedStatusType ==
  ASSUME NEW word \in ProviderWords PROVE MappedStatus(word) \in Statuses
<1>1. CASE word \in {"initiated", "in-progress", "no-answer", "canceled"}
  BY <1>1 DEF MappedStatus, Statuses
<1>2. CASE word \in {"queued", "ringing", "completed", "failed", "busy"}
  BY <1>2 DEF MappedStatus, Statuses
<1>3. QED
  BY <1>1, <1>2 DEF ProviderWords

LEMMA TypedRequests ==
  ASSUME Typed, NobodyWritesQueued
  PROVE  /\ \A c \in Starters, s \in Sessions : StartRequest(c, s) => Typed'
         /\ \A e \in Editors, s \in Sessions, edit \in Edits : EditRequest(e, s, edit) => Typed'
         /\ \A e \in Editors : WriteEdit(e) => Typed'
         /\ \A h \in Webhooks, s \in Sessions, word \in Words : StatusCallback(h, s, word) => Typed'
         /\ \A h \in Webhooks : ApplyCallback(h) => Typed'
<1>1. ASSUME NEW c \in Starters, NEW s \in Sessions, StartRequest(c, s)
      PROVE  Typed'
  <2>1. c \in Processes /\ [Idle EXCEPT !.pc = "read", !.s = s] \in Locals
    BY IdleType DEF Processes, Callers, Locals, Steps
  <2>2. QED
    BY <1>1, <2>1, MoveTyped, IdleType DEF StartRequest, Typed, TypeOK, Locals
<1>2. ASSUME NEW e \in Editors, NEW s \in Sessions, NEW edit \in Edits, EditRequest(e, s, edit)
      PROVE  Typed'
  <2> DEFINE l == [Idle EXCEPT !.s = s, !.snap = row[s], !.arg = edit]
  <2>1. e \in Processes /\ l \in Locals /\ l.s \in Sessions /\ l.arg \in Edits
    BY IdleType DEF Processes, Locals, Typed, TypeOK
  <2>2. Goto(e, l, "edit")
    BY <1>2 DEF EditRequest
  <2> HIDE DEF l
  <2>3. proc' \in [Processes -> Locals] /\ faults' \in Nat /\ SessionChosen'
    BY <2>1, <2>2, GotoTyped DEF Steps
  <2>4. QED
    BY <1>2, <2>3 DEF EditRequest, Typed, TypeOK
<1>3. ASSUME NEW e \in Editors, WriteEdit(e)
      PROVE  Typed'
  <2>1. e \in Processes /\ proc[e] \in Locals
    BY DEF Processes, Typed, TypeOK
  <2>2. Edited(proc[e].snap, proc[e].arg) \in Rows
    BY <1>3, <2>1 DEF WriteEdit, Typed, SessionChosen, Edits, Edited, Locals, Rows, Statuses
  <2>3. QED
    BY <1>3, <2>1, <2>2, MoveTyped, IdleType DEF WriteEdit, Typed, TypeOK
<1>4. ASSUME NEW h \in Webhooks, NEW s \in Sessions, NEW word \in Words, StatusCallback(h, s, word)
      PROVE  Typed'
  <2> DEFINE l == [Idle EXCEPT !.s = s, !.snap = row[s], !.arg = MappedStatus(word)]
  <2>1. MappedStatus(word) \in Statuses
    BY <1>4, MappedStatusType DEF StatusCallback
  <2>2. h \in Processes /\ l \in Locals /\ l.s \in Sessions
    BY <2>1, IdleType DEF Processes, Locals, Typed, TypeOK
  <2>3. Goto(h, l, "hook")
    BY <1>4 DEF StatusCallback
  <2> HIDE DEF l
  <2>4. proc' \in [Processes -> Locals] /\ faults' \in Nat /\ SessionChosen'
    BY <2>2, <2>3, GotoTyped DEF Steps
  <2>5. QED
    BY <1>4, <2>4 DEF StatusCallback, Typed, TypeOK
<1>5. ASSUME NEW h \in Webhooks, ApplyCallback(h)
      PROVE  Typed'
  <2>1. h \in Processes /\ proc[h] \in Locals
    BY DEF Processes, Typed, TypeOK
  <2>2. [proc[h].snap EXCEPT !.status = proc[h].arg] \in Rows
    BY <1>5, <2>1 DEF ApplyCallback, NobodyWritesQueued, Locals, Rows
  <2>3. row' \in [Sessions -> Rows]
    BY <1>5, <2>1, <2>2, TryUpdateType DEF ApplyCallback, Typed
  <2>4. QED
    BY <1>5, <2>1, <2>3, MoveTyped, IdleType DEF ApplyCallback, Typed, TypeOK
<1>6. QED
  BY <1>1, <1>2, <1>3, <1>4, <1>5

LEMMA TypedEnvironment ==
  ASSUME Typed
  PROVE  /\ \A s \in Sessions : Time(s) => Typed'
         /\ \A p \in Processes : DatabaseError(p) \/ Crash(p) => Typed'
<1>1. ASSUME NEW s \in Sessions, Time(s)
      PROVE  Typed'
  <2>1. faults' \in Nat
    BY <1>1, FaultType DEF Time, BecomeDue, ExpireLease, Typed, TypeOK
  <2>2. queue' \in [Sessions -> QueueRows]
    <3>1. queue' = [queue EXCEPT ![s].timer = "over"]
      BY <1>1 DEF Time, BecomeDue, ExpireLease
    <3>2. QED
      BY <3>1 DEF Typed, TypeOK, QueueRows
  <2>3. UNCHANGED <<row, proc, placed, requests, retried>>
    BY <1>1 DEF Time, BecomeDue, ExpireLease
  <2>4. QED
    BY <2>1, <2>2, <2>3 DEF Typed, TypeOK, SessionChosen
<1>2. ASSUME NEW p \in Processes, DatabaseError(p) \/ Crash(p)
      PROVE  Typed'
  <2>1. proc[p] \in Locals
    BY DEF Typed, TypeOK
  <2>2. faults' \in Nat
    BY <1>2, FaultType DEF DatabaseError, Crash, Typed, TypeOK
  <2>3. proc' \in [Processes -> Locals] /\ SessionChosen'
    <3>1. CASE Crash(p)
      BY <3>1, MoveTyped, IdleType DEF Crash
    <3>2. CASE DatabaseError(p)
      <4>1. OnDatabaseError(p) \in Steps
        BY DEF OnDatabaseError, Steps
      <4>2. AtStep(proc[p], OnDatabaseError(p)) \in Locals
        BY <2>1, <4>1, AtStepType
      <4>3. \/ AtStep(proc[p], OnDatabaseError(p)).pc = "idle"
            \/ AtStep(proc[p], OnDatabaseError(p)).s \in Sessions
        BY <2>1, IdleType DEF OnDatabaseError, AtStep, Typed, SessionChosen, Locals
      <4>4. AtStep(proc[p], OnDatabaseError(p)).pc # "edit"
        BY <2>1, IdleType DEF OnDatabaseError, AtStep, Locals
      <4>5. QED
        BY <3>2, <4>2, <4>3, <4>4, MoveTyped DEF DatabaseError
    <3>3. QED
      BY <1>2, <3>1, <3>2
  <2>4. QED
    BY <1>2, <2>2, <2>3 DEF DatabaseError, Crash, Typed, TypeOK
<1>3. QED
  BY <1>1, <1>2

LEMMA TypedStep ==
  ASSUME Typed, NobodyWritesQueued, [NextWithOutcome]_vars
  PROVE  Typed'
<1>1. CASE UNCHANGED vars
  BY <1>1 DEF vars, Typed, TypeOK, SessionChosen
<1>2. CASE NextWithOutcome
  BY <1>2, TypedStart, TypedProvider, TypedWorker, TypedRequests, TypedEnvironment
     DEF NextWithOutcome, Next, OutcomeRequest, Edits
<1>3. QED
  BY <1>1, <1>2

LEMMA NobodyInit == Init => NobodyWritesQueued
BY DEF Init, NobodyWritesQueued, Idle, Processes, Callers

\* Where a step of p that ends in Goto leaves p.
LEMMA GotoEffect ==
  ASSUME Typed, NEW p \in Processes, NEW l \in Locals, NEW next \in Steps, Goto(p, l, next)
  PROVE  /\ \A q \in Processes : q # p => proc'[q] = proc[q]
         /\ \/ proc'[p] = Idle
            \/ next # "idle" /\ proc'[p] = [l EXCEPT !.pc = next]
            \/ p \in Workers /\ proc'[p] = [l EXCEPT !.pc = "dead"]
<1>1. /\ \A q \in Processes : q # p => proc'[q] = proc[q]
      /\ \/ proc'[p] = AtStep(l, next)
         \/ proc'[p] = AtStep(l, OnDatabaseError(p))
  BY GotoType DEF Typed
<1>2. AtStep(l, next) = Idle \/ (next # "idle" /\ AtStep(l, next) = [l EXCEPT !.pc = next])
  BY DEF AtStep
<1>3. \/ AtStep(l, OnDatabaseError(p)) = Idle
      \/ p \in Workers /\ AtStep(l, OnDatabaseError(p)) = [l EXCEPT !.pc = "dead"]
  BY DEF AtStep, OnDatabaseError
<1>4. QED
  BY <1>1, <1>2, <1>3

LEMMA MoveEffect ==
  ASSUME Typed, NEW p \in Processes, NEW l, Move(p, l)
  PROVE  /\ \A q \in Processes : q # p => proc'[q] = proc[q]
         /\ proc'[p] = l
BY DEF Typed, TypeOK, Move

\* Webhooks write what they were asked to write, and a start writes a session it
\* has read as queued only as initiating.
LEMMA NobodyStep ==
  ASSUME Typed, NobodyWritesQueued, [NextWithOutcome]_vars
  PROVE  NobodyWritesQueued'
<1> USE DEF Processes, Callers
<1>1. CASE UNCHANGED vars
  BY <1>1 DEF vars, NobodyWritesQueued
<1>2. ASSUME NEW p \in Processes,
             \A q \in Processes : q # p => proc'[q] = proc[q],
             p \in Callers => (proc'[p].pc = "initiate" => proc'[p].snap.status = "queued"),
             p \in Webhooks => (proc'[p].pc = "hook" => proc'[p].arg \in Statuses \ {"queued"})
      PROVE  NobodyWritesQueued'
  BY <1>2 DEF NobodyWritesQueued
<1>3. ASSUME NEW p \in Processes, NEW l \in Locals, NEW next \in Steps, Goto(p, l, next),
             next \notin {"initiate", "hook"}
      PROVE  NobodyWritesQueued'
  <2>1. \/ proc'[p] = Idle
        \/ proc'[p] = [l EXCEPT !.pc = next]
        \/ proc'[p] = [l EXCEPT !.pc = "dead"]
    BY <1>3, GotoEffect
  <2>0. proc'[p].pc \notin {"initiate", "hook"}
    BY <1>3, <2>1, IdleType DEF Locals
  <2>2. \A q \in Processes : q # p => proc'[q] = proc[q]
    BY <1>3, GotoEffect
  <2>3. QED
    BY <1>2, <2>0, <2>2
<1>4. ASSUME NEW p \in Processes, NEW l, Move(p, l), l.pc \notin {"initiate", "hook"}
      PROVE  NobodyWritesQueued'
  <2>1. proc'[p] = l /\ \A q \in Processes : q # p => proc'[q] = proc[q]
    BY <1>4, MoveEffect
  <2>2. QED
    BY <1>2, <1>4, <2>1
<1>5. \A p \in Processes : proc[p] \in Locals
  BY DEF Typed, TypeOK
<1>6. ASSUME NEW p \in Callers, Start(p)
      PROVE  NobodyWritesQueued'
  <2>1. CASE ReadSession(p)
    <3> DEFINE l == [proc[p] EXCEPT !.snap = row[proc[p].s]]
    <3>1. proc[p].s \in Sessions
      BY <2>1 DEF ReadSession, Typed, SessionChosen
    <3>2. l \in Locals /\ l.snap = row[proc[p].s]
      BY <1>5, <3>1 DEF Typed, TypeOK, Locals
    <3>3. CASE row[proc[p].s].status = "queued"
      <4>1. Goto(p, l, "initiate")
        BY <2>1, <3>3 DEF ReadSession
      <4> HIDE DEF l
      <4>2. /\ \A q \in Processes : q # p => proc'[q] = proc[q]
            /\ \/ proc'[p] = Idle
               \/ proc'[p] = [l EXCEPT !.pc = "initiate"]
               \/ proc'[p] = [l EXCEPT !.pc = "dead"]
        <5>1. p \in Processes /\ "initiate" \in Steps
          BY DEF Steps
        <5>2. QED
          BY <3>2, <4>1, <5>1, GotoEffect
      <4>3. /\ proc'[p].pc # "hook"
            /\ proc'[p].pc = "initiate" => proc'[p].snap.status = "queued"
        BY <3>2, <3>3, <4>2, IdleType DEF Locals
      <4>4. QED
        BY <1>2, <4>2, <4>3
    <3>4. CASE row[proc[p].s].status # "queued"
      BY <1>3, <2>1, <3>2, <3>4 DEF ReadSession, OnInvalidOperation, Steps
    <3>5. QED
      BY <3>3, <3>4
  <2>2. CASE MarkInitiating(p)
    <3> DEFINE new == [proc[p].snap EXCEPT !.status = "initiating"]
               l == [proc[p] EXCEPT !.snap = new]
    <3>1. l \in Locals
      BY <1>5 DEF Locals, Rows, Statuses
    <3>2. \E next \in {"request", "recheck", "idle"} : Goto(p, l, next)
      BY <2>2 DEF MarkInitiating, OnInvalidOperation
    <3> HIDE DEF l
    <3>3. QED
      BY <1>3, <3>1, <3>2 DEF Steps
  <2>3. CASE MarkFailed(p)
    <3>1. AfterFailure(p) \in {"idle", "requeue", "recheck", "dead"}
      BY DEF AfterFailure
    <3>2. QED
      BY <1>3, <1>5, <2>3, <3>1 DEF MarkFailed, Steps
  <2>4. CASE RecordCall(p)
    <3>1. \E next \in {"recheck", "idle", "complete"} : Goto(p, proc[p], next)
      BY <2>4 DEF RecordCall, OnInvalidOperation
    <3>2. QED
      BY <1>3, <1>5, <3>1 DEF Steps
  <2>5. QED
    BY <1>6, <2>1, <2>2, <2>3, <2>4 DEF Start
<1>7. ASSUME NEW p \in Callers, Provider(p)
      PROVE  NobodyWritesQueued'
  <2>1. \E l \in Locals : l.pc \in {"record", "fail"} /\ Move(p, l)
    <3>1. placed[proc[p].s] + 1 \in Nat
      <4>1. proc[p].pc = "request"
        BY <1>7 DEF Provider, CallCreated, CallRefused
      <4>2. proc[p].s \in Sessions
        BY <4>1 DEF Typed, SessionChosen
      <4>3. QED
        BY <4>2 DEF Typed, TypeOK
    <3>2. [proc[p] EXCEPT !.pc = "record", !.call = placed[proc[p].s] + 1] \in Locals
      BY <1>5, <3>1 DEF Locals, Steps
    <3>3. \A e \in Errors : [proc[p] EXCEPT !.pc = "fail", !.arg = e] \in Locals
      BY <1>5 DEF Locals, Steps
    <3>4. CASE Move(p, [proc[p] EXCEPT !.pc = "record", !.call = placed[proc[p].s] + 1])
      BY <1>5, <3>2, <3>4 DEF Locals
    <3>5. CASE \E e \in Errors : Move(p, [proc[p] EXCEPT !.pc = "fail", !.arg = e])
      BY <1>5, <3>3, <3>5 DEF Locals
    <3>6. QED
      BY <1>7, <3>4, <3>5 DEF Provider, CallCreated, CallRefused
  <2>2. QED
    BY <1>4, <2>1
<1>8. ASSUME NEW w \in Workers, Worker(w)
      PROVE  NobodyWritesQueued'
  <2>1. CASE Claim(w)
    <3>1. PICK s \in Sessions : Goto(w, [proc[w] EXCEPT !.s = s, !.att = queue[s].attempts + 1], "read")
      BY <2>1 DEF Claim
    <3> DEFINE l == [proc[w] EXCEPT !.s = s, !.att = queue[s].attempts + 1]
    <3>2. queue[s].attempts + 1 \in Nat
      BY DEF Typed, TypeOK, QueueRows
    <3>3. l \in Locals
      BY <1>5, <3>2 DEF Locals
    <3>4. Goto(w, l, "read")
      BY <3>1
    <3> HIDE DEF l
    <3>5. QED
      BY <1>3, <3>3, <3>4 DEF Steps
  <2>2. CASE ClaimNothing(w)
    BY <1>4, <2>2, IdleType DEF ClaimNothing
  <2>3. CASE \E next \in {"claim", "retry", "dead", "idle", "recheck", "settle"} : Goto(w, proc[w], next)
    BY <1>3, <1>5, <2>3 DEF Steps
  <2>4. QED
    BY <1>8, <2>1, <2>2, <2>3
       DEF Worker, EnqueuePendingSessions, TryRequeue, MarkRetry, MarkCompleted, MarkDeadLetter, Recheck
<1>9. ASSUME NEW c \in Starters, NEW s \in Sessions, StartRequest(c, s)
      PROVE  NobodyWritesQueued'
  BY <1>4, <1>9, IdleType DEF StartRequest, Locals
<1>10. ASSUME NEW e \in Editors, NEW s \in Sessions, NEW edit \in Edits, EditRequest(e, s, edit)
       PROVE  NobodyWritesQueued'
  <2> DEFINE l == [Idle EXCEPT !.s = s, !.snap = row[s], !.arg = edit]
  <2>1. l \in Locals
    BY IdleType DEF Locals, Typed, TypeOK
  <2>2. Goto(e, l, "edit")
    BY <1>10 DEF EditRequest
  <2> HIDE DEF l
  <2>3. QED
    BY <1>3, <2>1, <2>2 DEF Steps
<1>11. ASSUME NEW e \in Editors, WriteEdit(e)
       PROVE  NobodyWritesQueued'
  BY <1>4, <1>11, IdleType DEF WriteEdit
<1>12. ASSUME NEW h \in Webhooks, NEW s \in Sessions, NEW word \in Words, StatusCallback(h, s, word)
       PROVE  NobodyWritesQueued'
  <2> DEFINE l == [Idle EXCEPT !.s = s, !.snap = row[s], !.arg = MappedStatus(word)]
  <2>1. MappedStatus(word) \in Statuses \ {"queued"}
    BY <1>12, MappedStatusType DEF StatusCallback, CanApplyProviderStatus, Terminal
  <2>2. l \in Locals /\ l.arg = MappedStatus(word)
    BY <2>1, IdleType DEF Locals, Typed, TypeOK
  <2>3. Goto(h, l, "hook")
    BY <1>12 DEF StatusCallback
  <2> HIDE DEF l
  <2>4. h \notin Callers
    BY ProcessesAssumption
  <2>5. /\ \A q \in Processes : q # h => proc'[q] = proc[q]
        /\ proc'[h] = Idle \/ proc'[h] = [l EXCEPT !.pc = "hook"]
    BY <2>2, <2>3, <2>4, GotoEffect DEF Steps
  <2>6. proc'[h].pc = "hook" => proc'[h].arg \in Statuses \ {"queued"}
    BY <2>1, <2>2, <2>5, IdleType DEF Locals
  <2>7. QED
    BY <1>2, <2>4, <2>5, <2>6
<1>13. ASSUME NEW h \in Webhooks, ApplyCallback(h)
       PROVE  NobodyWritesQueued'
  BY <1>4, <1>13, IdleType DEF ApplyCallback
<1>14. ASSUME NEW s \in Sessions, Time(s)
       PROVE  NobodyWritesQueued'
  BY <1>14 DEF Time, BecomeDue, ExpireLease, NobodyWritesQueued
<1>15. ASSUME NEW p \in Processes, DatabaseError(p) \/ Crash(p)
       PROVE  NobodyWritesQueued'
  <2>1. \E l : l.pc \in {"dead", "idle"} /\ Move(p, l)
    BY <1>5, <1>15, IdleType DEF DatabaseError, Crash, OnDatabaseError, AtStep, Locals
  <2>2. QED
    BY <1>4, <2>1
<1>16. CASE NextWithOutcome
  BY <1>6, <1>7, <1>8, <1>9, <1>10, <1>11, <1>12, <1>13, <1>14, <1>15, <1>16
     DEF NextWithOutcome, Next, OutcomeRequest, Edits
<1>17. QED
  BY <1>1, <1>16

\* Every reachable state has the types of the model, whatever editors write.
THEOREM TypeCorrect == SpecWithOutcome => []TypeOK
<1>1. Init => Typed /\ NobodyWritesQueued
  BY TypedInit, NobodyInit
<1>2. Typed /\ NobodyWritesQueued /\ [NextWithOutcome]_vars => (Typed /\ NobodyWritesQueued)'
  BY TypedStep, NobodyStep
<1>3. Typed => TypeOK
  BY DEF Typed
<1>4. QED
  BY <1>1, <1>2, <1>3, PTL DEF SpecWithOutcome
-------------------------------------------------------------------------------
(* One call at most.  A step moves the token of at most one session t.     *)

SameElsewhere(t) ==
  \A s \in Sessions \ {t} :
    /\ row'[s].status = row[s].status
    /\ \A q \in Callers : Asking(q, s)' <=> Asking(q, s)

\* The step gives no token; it may give one up.
Quiet(t) ==
  /\ SameElsewhere(t)
  /\ UNCHANGED <<placed, requests, retried>>
  /\ t \in Sessions =>
       /\ row'[t].status = "queued" => row[t].status = "queued"
       /\ \A q \in Callers : Asking(q, t)' => Asking(q, t)

\* The conditional update hit: the session is no longer queued, p asks.
Asks(p, t) ==
  /\ SameElsewhere(t)
  /\ row[t].status = "queued" /\ row'[t].status # "queued"
  /\ Asking(p, t)'
  /\ \A q \in Callers \ {p} : Asking(q, t)' <=> Asking(q, t)
  /\ requests' = [requests EXCEPT ![t] = requests[t] + 1]
  /\ UNCHANGED <<placed, retried>>

\* p asked, and there is a call now.
Places(p, t) ==
  /\ SameElsewhere(t)
  /\ row'[t].status = row[t].status
  /\ Asking(p, t) /\ ~Asking(p, t)'
  /\ \A q \in Callers \ {p} : Asking(q, t)' <=> Asking(q, t)
  /\ placed' = [placed EXCEPT ![t] = placed[t] + 1]
  /\ UNCHANGED <<requests, retried>>

\* p asked, was throttled, and puts the session back.
Revives(p, t) ==
  /\ SameElsewhere(t)
  /\ row[t].status # "queued" /\ row'[t].status = "queued"
  /\ p \in Workers /\ proc[p].pc = "requeue" /\ proc'[p].pc \in {"retry", "dead", "idle"}
  /\ Asking(p, t) /\ ~Asking(p, t)'
  /\ \A q \in Callers \ {p} : Asking(q, t)' <=> Asking(q, t)
  /\ retried' = [retried EXCEPT ![t] = retried[t] \cup {proc[p].att}]
  /\ UNCHANGED <<placed, requests>>

\* A process that is in none of the asking steps before, or works on t, and in
\* none after moves no token of another session.
LEMMA QuietStep ==
  ASSUME NEW p \in Processes, NEW t,
         \A q \in Processes : q # p => proc'[q] = proc[q],
         proc[p].pc \in {"request", "requeue", "fail"} => proc[p].s = t,
         proc'[p].pc \notin {"request", "requeue", "fail"},
         \A s \in Sessions : s # t => row'[s].status = row[s].status,
         t \in Sessions => (row'[t].status = "queued" => row[t].status = "queued"),
         UNCHANGED <<placed, requests, retried>>
  PROVE  Quiet(t)
<1>1. \A q \in Callers, s \in Sessions : q # p => (Asking(q, s)' <=> Asking(q, s))
  BY DEF Asking, Processes
<1>2. \A s \in Sessions : ~Asking(p, s)'
  BY DEF Asking
<1>3. \A s \in Sessions : s # t => ~Asking(p, s)
  BY DEF Asking
<1>4. QED
  BY <1>1, <1>2, <1>3 DEF Quiet, SameElsewhere

LEMMA QuietGoto ==
  ASSUME Typed, NEW p \in Processes, NEW l \in Locals, NEW next \in Steps, NEW t,
         Goto(p, l, next), next \notin {"request", "requeue", "fail"},
         proc[p].pc \in {"request", "requeue", "fail"} => proc[p].s = t,
         \A s \in Sessions : s # t => row'[s].status = row[s].status,
         t \in Sessions => (row'[t].status = "queued" => row[t].status = "queued"),
         UNCHANGED <<placed, requests, retried>>
  PROVE  Quiet(t)
<1>1. /\ \A q \in Processes : q # p => proc'[q] = proc[q]
      /\ \/ proc'[p] = Idle
         \/ proc'[p] = [l EXCEPT !.pc = next]
         \/ proc'[p] = [l EXCEPT !.pc = "dead"]
  BY GotoEffect
<1>2. proc'[p].pc \notin {"request", "requeue", "fail"}
  BY <1>1, IdleType DEF Locals
<1>3. QED
  BY <1>1, <1>2, QuietStep

LEMMA QuietMove ==
  ASSUME Typed, NEW p \in Processes, NEW l, NEW t,
         Move(p, l), l.pc \notin {"request", "requeue", "fail"},
         proc[p].pc \in {"request", "requeue", "fail"} => proc[p].s = t,
         \A s \in Sessions : s # t => row'[s].status = row[s].status,
         t \in Sessions => (row'[t].status = "queued" => row[t].status = "queued"),
         UNCHANGED <<placed, requests, retried>>
  PROVE  Quiet(t)
<1>1. proc'[p] = l /\ \A q \in Processes : q # p => proc'[q] = proc[q]
  BY MoveEffect
<1>2. QED
  BY <1>1, QuietStep

\* What an update writes, or leaves, in the session's status.
LEMMA TryUpdateEffect ==
  ASSUME Typed, NEW p \in Processes, NEW new \in Rows, TryUpdate(p, new)
  PROVE  /\ \A s \in Sessions : s # proc[p].s => row'[s] = row[s]
         /\ Unchanged(p) /\ proc[p].s \in Sessions => row'[proc[p].s] = new
         /\ ~Unchanged(p) => row' = row
BY DEF TryUpdate, Typed, TypeOK

\* A step of CarefulSpec
CarefulStep == [NextWithOutcome]_vars /\ [KeepsStarts]_vars

Moved(t) ==
  \/ Quiet(t)
  \/ t \in Sessions /\ \E p \in Callers : Asks(p, t) \/ Places(p, t) \/ Revives(p, t)

LEMMA MovedStart ==
  ASSUME Typed, NobodyWritesQueued, NEW p \in Callers, Start(p)
  PROVE  \E t \in Sessions : Moved(t)
<1> DEFINE l == proc[p]
<1>1. p \in Processes /\ l \in Locals /\ l.snap \in Rows
  BY DEF Typed, TypeOK, Processes, Locals
<1>0. PICK t \in Sessions : t = proc[p].s
  BY <1>1 DEF Start, ReadSession, MarkInitiating, MarkFailed, RecordCall, Typed, SessionChosen
<1> USE <1>0
<1>3. \A s \in Sessions : row[s] \in Rows
  BY DEF Typed, TypeOK
<1>4. CASE ReadSession(p)
  <2> DEFINE new == [l EXCEPT !.snap = row[t]]
  <2>1. new \in Locals
    BY <1>1, <1>3 DEF Locals
  <2>2. \E next \in {"initiate", "recheck", "idle"} : Goto(p, new, next)
    BY <1>4 DEF ReadSession, OnInvalidOperation
  <2>3. row' = row /\ l.pc = "read" /\ UNCHANGED <<placed, requests, retried>>
    BY <1>4 DEF ReadSession
  <2> HIDE DEF new
  <2>4. Quiet(t)
    BY <1>1, <2>1, <2>2, <2>3, QuietGoto DEF Steps
  <2>5. QED
    BY <2>4 DEF Moved
<1>5. CASE MarkInitiating(p)
  <2> DEFINE new == [l.snap EXCEPT !.status = "initiating"]
             m == [l EXCEPT !.snap = new]
             next == IF Unchanged(p) THEN "request" ELSE OnInvalidOperation(p)
  <2>1. new \in Rows /\ m \in Locals /\ new.status = "initiating" /\ m.s = t /\ m.pc = "initiate"
    BY <1>1, <1>5 DEF MarkInitiating, Locals, Rows, Statuses
  <2>2. TryUpdate(p, new) /\ Goto(p, m, next)
    BY <1>5 DEF MarkInitiating
  <2>3. /\ requests' = IF proc'[p].pc = "request"
                       THEN [requests EXCEPT ![t] = requests[t] + 1] ELSE requests
        /\ UNCHANGED <<placed, retried>> /\ l.pc = "initiate"
    BY <1>5 DEF MarkInitiating
  <2>4. /\ \A s \in Sessions : s # t => row'[s] = row[s]
        /\ Unchanged(p) => row'[t] = new
        /\ ~Unchanged(p) => row' = row
    BY <1>1, <2>1, <2>2, TryUpdateEffect
  <2>5. Unchanged(p) => row[t].status = "queued"
    BY <2>3 DEF Unchanged, NobodyWritesQueued
  <2>6. next \in Steps
    BY DEF OnInvalidOperation, Steps
  <2>7. next # "request" => next \in {"recheck", "idle"}
    BY DEF OnInvalidOperation
  <2>8. next = "request" <=> Unchanged(p)
    BY DEF OnInvalidOperation
  <2> HIDE DEF new, m, next
  <2>9. /\ \A q \in Processes : q # p => proc'[q] = proc[q]
        /\ \/ proc'[p] = Idle
           \/ proc'[p] = [m EXCEPT !.pc = next]
           \/ proc'[p] = [m EXCEPT !.pc = "dead"]
    BY <1>1, <2>1, <2>2, <2>6, GotoEffect
  <2>10. CASE proc'[p].pc = "request"
    <3>1. proc'[p] = [m EXCEPT !.pc = next] /\ next = "request"
      BY <2>1, <2>9, <2>10, IdleType DEF Locals
    <3>2. Asking(p, t)' /\ \A s \in Sessions : Asking(p, s)' => s = t
      BY <2>1, <3>1 DEF Asking, Locals
    <3>3. \A s \in Sessions : ~Asking(p, s)
      BY <2>3 DEF Asking
    <3>4. \A q \in Callers, s \in Sessions : q # p => (Asking(q, s)' <=> Asking(q, s))
      BY <2>9 DEF Asking, Processes
    <3>5. row[t].status = "queued" /\ row'[t].status # "queued"
      BY <2>1, <2>4, <2>5, <2>8, <3>1
    <3>6. Asks(p, t)
      BY <2>3, <2>4, <2>10, <3>2, <3>3, <3>4, <3>5 DEF Asks, SameElsewhere
    <3>7. QED
      BY <3>6 DEF Moved
  <2>11. CASE proc'[p].pc # "request"
    <3>1. proc'[p].pc \notin {"request", "requeue", "fail"}
      BY <2>1, <2>7, <2>9, <2>11, IdleType DEF Locals
    <3>2. row'[t].status = "queued" => row[t].status = "queued"
      BY <2>1, <2>4
    <3>3. Quiet(t)
      BY <1>1, <2>3, <2>4, <2>9, <2>11, <3>1, <3>2, QuietStep
    <3>4. QED
      BY <3>3 DEF Moved
  <2>12. QED
    BY <2>10, <2>11
<1>6. CASE MarkFailed(p)
  <2> DEFINE new == [l.snap EXCEPT !.status = "failed", !.failure = "provider"]
  <2>1. new \in Rows /\ new.status = "failed"
    BY <1>1 DEF Rows, Statuses
  <2>2. TryUpdate(p, new) /\ Goto(p, l, AfterFailure(p)) /\ l.pc = "fail"
        /\ UNCHANGED <<placed, requests, retried>>
    BY <1>6 DEF MarkFailed
  <2> HIDE DEF new
  <2>3. /\ \A s \in Sessions : s # t => row'[s] = row[s]
        /\ row'[t] = row[t] \/ row'[t] = new
    BY <1>1, <2>1, <2>2, TryUpdateEffect
  <2>4. CASE AfterFailure(p) = "requeue"
    <3>1. p \in Workers /\ l.arg = "throttled"
      BY <2>4 DEF AfterFailure
    <3>2. /\ \A q \in Processes : q # p => proc'[q] = proc[q]
          /\ proc'[p] = Idle \/ proc'[p] = [l EXCEPT !.pc = "requeue"] \/ proc'[p] = [l EXCEPT !.pc = "dead"]
      <4>1. "requeue" \in Steps /\ Goto(p, l, "requeue")
        BY <2>2, <2>4 DEF Steps
      <4>2. QED
        BY <1>1, <4>1, GotoEffect
    <3>3. \A s \in Sessions : Asking(p, s)' => s = t
      BY <1>1, <3>2, IdleType DEF Asking, Locals
    <3>4. Asking(p, t) /\ \A s \in Sessions : Asking(p, s) => s = t
      BY <2>2, <3>1 DEF Asking
    <3>5. \A q \in Callers, s \in Sessions : q # p => (Asking(q, s)' <=> Asking(q, s))
      BY <3>2 DEF Asking, Processes
    <3>6. Quiet(t)
      BY <2>1, <2>2, <2>3, <3>3, <3>4, <3>5 DEF Quiet, SameElsewhere
    <3>7. QED
      BY <3>6 DEF Moved
  <2>5. CASE AfterFailure(p) # "requeue"
    <3>1. AfterFailure(p) \in {"idle", "recheck", "dead"}
      BY <2>5 DEF AfterFailure
    <3>2. Quiet(t)
      BY <1>1, <2>1, <2>2, <2>3, <3>1, QuietGoto DEF Steps
    <3>3. QED
      BY <3>2 DEF Moved
  <2>6. QED
    BY <2>4, <2>5
<1>7. CASE RecordCall(p)
  <2> DEFINE new == [l.snap EXCEPT !.call = l.call]
  <2>1. new \in Rows /\ new.status = l.snap.status
    BY <1>1 DEF Rows, Locals
  <2>2. TryUpdate(p, new) /\ l.pc = "record" /\ UNCHANGED <<placed, requests, retried>>
    BY <1>7 DEF RecordCall
  <2>3. \E next \in {"recheck", "idle", "complete"} : Goto(p, l, next)
    BY <1>7 DEF RecordCall, OnInvalidOperation
  <2> HIDE DEF new
  <2>4. /\ \A s \in Sessions : s # t => row'[s] = row[s]
        /\ row'[t].status = row[t].status
    BY <1>1, <2>1, <2>2, TryUpdateEffect DEF Unchanged
  <2>5. Quiet(t)
    BY <1>1, <2>2, <2>3, <2>4, QuietGoto DEF Steps
  <2>6. QED
    BY <2>5 DEF Moved
<1>8. QED
  BY <1>4, <1>5, <1>6, <1>7 DEF Start

LEMMA MovedProvider ==
  ASSUME Typed, NEW p \in Callers, Provider(p)
  PROVE  \E t \in Sessions : Moved(t)
<1> DEFINE l == proc[p]
<1>1. p \in Processes /\ l \in Locals /\ l.pc = "request"
  BY DEF Typed, TypeOK, Processes, Provider, CallCreated, CallRefused
<1>0. PICK t \in Sessions : t = proc[p].s
  BY <1>1 DEF Typed, SessionChosen
<1> USE <1>0
<1>3. Asking(p, t) /\ \A s \in Sessions : Asking(p, s) => s = t
  BY <1>1 DEF Asking
<1>4. row' = row /\ UNCHANGED <<requests, retried>>
  BY DEF Provider, CallCreated, CallRefused
<1>5. CASE CallCreated(p)
  <2>1. \E m : /\ Move(p, m)
               /\ m.pc = "record" \/ (m.pc = "fail" /\ m.arg # "throttled")
    <3>1. CASE Move(p, [l EXCEPT !.pc = "record", !.call = placed[t] + 1])
      <4>1. [l EXCEPT !.pc = "record", !.call = placed[t] + 1].pc = "record"
        BY <1>1 DEF Locals
      <4>2. QED
        BY <3>1, <4>1
    <3>2. ASSUME NEW e \in Errors \ {"throttled"}, Move(p, [l EXCEPT !.pc = "fail", !.arg = e])
          PROVE  \E m : Move(p, m) /\ m.pc = "fail" /\ m.arg # "throttled"
      <4>1. /\ [l EXCEPT !.pc = "fail", !.arg = e].pc = "fail"
            /\ [l EXCEPT !.pc = "fail", !.arg = e].arg # "throttled"
        BY <1>1 DEF Locals
      <4>2. QED
        BY <3>2, <4>1
    <3>3. QED
      BY <1>5, <3>1, <3>2 DEF CallCreated
  <2>2. \A s \in Sessions : ~Asking(p, s)'
    BY <1>1, <2>1, MoveEffect DEF Asking
  <2>3. \A q \in Callers, s \in Sessions : q # p => (Asking(q, s)' <=> Asking(q, s))
    BY <1>1, <2>1, MoveEffect DEF Asking, Processes
  <2>4. placed' = [placed EXCEPT ![t] = placed[t] + 1]
    BY <1>5 DEF CallCreated
  <2>5. Places(p, t)
    BY <1>3, <1>4, <2>2, <2>3, <2>4 DEF Places, SameElsewhere
  <2>6. QED
    BY <2>5 DEF Moved
<1>6. CASE CallRefused(p)
  <2>1. PICK e \in Errors : Move(p, [l EXCEPT !.pc = "fail", !.arg = e])
    BY <1>6 DEF CallRefused
  <2>2. \A s \in Sessions : Asking(p, s)' => s = t
    <3>1. proc'[p] = [l EXCEPT !.pc = "fail", !.arg = e]
      BY <1>1, <2>1, MoveEffect
    <3>2. QED
      BY <1>1, <3>1 DEF Asking, Locals
  <2>3. \A q \in Callers, s \in Sessions : q # p => (Asking(q, s)' <=> Asking(q, s))
    BY <1>1, <2>1, MoveEffect DEF Asking, Processes
  <2>4. placed' = placed
    BY <1>6 DEF CallRefused
  <2>5. Quiet(t)
    BY <1>3, <1>4, <2>2, <2>3, <2>4 DEF Quiet, SameElsewhere
  <2>6. QED
    BY <2>5 DEF Moved
<1>7. QED
  BY <1>5, <1>6 DEF Provider

LEMMA MovedWorker ==
  ASSUME Typed, NEW w \in Workers, Worker(w)
  PROVE  \E t : Moved(t)
<1> DEFINE l == proc[w]
<1>1. w \in Processes /\ w \in Callers /\ l \in Locals
  BY DEF Typed, TypeOK, Processes, Callers
<1>2. ASSUME NEW next \in {"claim", "retry", "dead", "idle", "recheck", "settle"}, Goto(w, l, next),
             UNCHANGED <<row, placed, requests, retried>>
      PROVE  \E t : Moved(t)
  <2>1. PICK t : t = l.s
    OBVIOUS
  <2>2. Quiet(t)
    BY <1>1, <1>2, <2>1, QuietGoto DEF Steps
  <2>3. QED
    BY <2>2 DEF Moved
<1>3. CASE Claim(w)
  <2>1. PICK t \in Sessions : Goto(w, [l EXCEPT !.s = t, !.att = queue[t].attempts + 1], "read")
    BY <1>3 DEF Claim
  <2> DEFINE m == [l EXCEPT !.s = t, !.att = queue[t].attempts + 1]
  <2>2. queue[t].attempts + 1 \in Nat
    BY DEF Typed, TypeOK, QueueRows
  <2>3. m \in Locals /\ Goto(w, m, "read")
    BY <1>1, <2>1, <2>2 DEF Locals
  <2>4. l.pc = "claim" /\ UNCHANGED <<row, placed, requests, retried>>
    BY <1>3 DEF Claim
  <2> HIDE DEF m
  <2>5. Quiet(t)
    BY <1>1, <2>3, <2>4, QuietGoto DEF Steps
  <2>6. QED
    BY <2>5 DEF Moved
<1>4. CASE ClaimNothing(w)
  <2>1. PICK t : t = l.s
    OBVIOUS
  <2>2. Quiet(t)
    BY <1>1, <1>4, <2>1, QuietMove, IdleType DEF ClaimNothing
  <2>3. QED
    BY <2>2 DEF Moved
<1>5. CASE TryRequeue(w)
  <2>0. l.pc = "requeue" /\ UNCHANGED <<placed, requests>>
    BY <1>5 DEF TryRequeue
  <2>1. PICK t \in Sessions : t = l.s
    BY <1>1, <2>0 DEF Typed, SessionChosen
  <2> USE <2>1
  <2> DEFINE revive == row[t].status = "failed" /\ row[t].call = NoCall
  <2>2. \E next \in {"retry", "dead"} : Goto(w, l, next)
    BY <1>5 DEF TryRequeue
  <2>3. CASE revive
    <3>1. /\ row' = [row EXCEPT ![t].status = "queued", ![t].failure = "none"]
          /\ retried' = [retried EXCEPT ![t] = retried[t] \cup {l.att}]
      BY <1>5, <2>3 DEF TryRequeue
    <3>2. /\ \A q \in Processes : q # w => proc'[q] = proc[q]
          /\ \/ proc'[w] = Idle
             \/ \E next \in {"retry", "dead"} : proc'[w] = [l EXCEPT !.pc = next]
      <4>1. PICK next \in {"retry", "dead"} : Goto(w, l, next)
        BY <2>2
      <4>2. next \in Steps
        BY DEF Steps
      <4>3. QED
        BY <1>1, <4>1, <4>2, GotoEffect
    <3>3. proc'[w].pc \in {"retry", "dead", "idle"}
      BY <1>1, <3>2, IdleType DEF Locals
    <3>4. \A s \in Sessions : ~Asking(w, s)'
      BY <3>3 DEF Asking
    <3>5. Asking(w, t) /\ \A s \in Sessions : Asking(w, s) => s = t
      BY <2>0 DEF Asking
    <3>6. \A q \in Callers, s \in Sessions : q # w => (Asking(q, s)' <=> Asking(q, s))
      BY <3>2 DEF Asking, Processes
    <3>7. /\ row[t].status # "queued" /\ row'[t].status = "queued"
          /\ \A s \in Sessions : s # t => row'[s] = row[s]
      BY <2>3, <3>1 DEF Typed, TypeOK, Rows
    <3>8. Revives(w, t)
      BY <2>0, <3>1, <3>3, <3>4, <3>5, <3>6, <3>7 DEF Revives, SameElsewhere
    <3>9. QED
      BY <1>1, <3>8 DEF Moved
  <2>4. CASE ~revive
    <3>1. row' = row /\ retried' = retried
      BY <1>5, <2>4 DEF TryRequeue
    <3>2. Quiet(t)
      BY <1>1, <2>0, <2>2, <3>1, QuietGoto DEF Steps
    <3>3. QED
      BY <3>2 DEF Moved
  <2>5. QED
    BY <2>3, <2>4
<1>6. CASE EnqueuePendingSessions(w)
  BY <1>2, <1>6 DEF EnqueuePendingSessions
<1>7. CASE MarkRetry(w) \/ MarkDeadLetter(w)
  BY <1>2, <1>7 DEF MarkRetry, MarkDeadLetter
<1>8. CASE MarkCompleted(w)
  BY <1>2, <1>8 DEF MarkCompleted
<1>9. CASE Recheck(w)
  BY <1>2, <1>9 DEF Recheck
<1>10. QED
  BY <1>3, <1>4, <1>5, <1>6, <1>7, <1>8, <1>9 DEF Worker

LEMMA MovedRequests ==
  ASSUME Typed, NobodyWritesQueued, KeepsStarts
  PROVE  /\ \A c \in Starters, s \in Sessions : StartRequest(c, s) => Moved(s)
         /\ \A e \in Editors, s \in Sessions, edit \in Edits :
              EditRequest(e, s, edit) => Moved(s)
         /\ \A e \in Editors : WriteEdit(e) => \E t \in Sessions : Moved(t)
         /\ \A h \in Webhooks, s \in Sessions, word \in Words :
              StatusCallback(h, s, word) => Moved(s)
         /\ \A h \in Webhooks : ApplyCallback(h) => \E t \in Sessions : Moved(t)
<1> USE DEF Processes, Callers
<1>0. \A p \in Processes : proc[p] \in Locals
  BY DEF Typed, TypeOK
<1>1. ASSUME NEW c \in Starters, NEW s \in Sessions, StartRequest(c, s)
      PROVE  Moved(s)
  <2>1. /\ Move(c, [Idle EXCEPT !.pc = "read", !.s = s])
        /\ [Idle EXCEPT !.pc = "read", !.s = s].pc = "read"
    BY <1>1, IdleType DEF StartRequest, Locals
  <2>2. Quiet(s)
    BY <1>1, <2>1, QuietMove DEF StartRequest
  <2>3. QED
    BY <2>2 DEF Moved
<1>2. ASSUME NEW e \in Editors, NEW s \in Sessions, NEW edit \in Edits, EditRequest(e, s, edit)
      PROVE  Moved(s)
  <2> DEFINE m == [Idle EXCEPT !.s = s, !.snap = row[s], !.arg = edit]
  <2>1. m \in Locals /\ Goto(e, m, "edit")
    BY <1>2, IdleType DEF EditRequest, Locals, Typed, TypeOK, Edits
  <2> HIDE DEF m
  <2>2. Quiet(s)
    BY <1>2, <2>1, QuietGoto DEF EditRequest, Steps
  <2>3. QED
    BY <2>2 DEF Moved
<1>3. ASSUME NEW e \in Editors, WriteEdit(e)
      PROVE  \E t \in Sessions : Moved(t)
  <2>1. PICK t \in Sessions : t = proc[e].s
    BY <1>3 DEF WriteEdit, Typed, SessionChosen
  <2> USE <2>1
  <2> DEFINE new == Edited(proc[e].snap, proc[e].arg)
  <2>3. new.status = "queued" => row[t].status = "queued"
    BY <1>3 DEF KeepsStarts
  <2>4. row' = [row EXCEPT ![t] = new]
    BY <1>3 DEF WriteEdit
  <2> HIDE DEF new
  <2>5. /\ row'[t].status = "queued" => row[t].status = "queued"
        /\ \A s \in Sessions : s # t => row'[s].status = row[s].status
    BY <2>3, <2>4 DEF Typed, TypeOK
  <2>6. Quiet(t)
    BY <1>3, <2>5, QuietMove, IdleType DEF WriteEdit
  <2>7. QED
    BY <2>6 DEF Moved
<1>4. ASSUME NEW h \in Webhooks, NEW s \in Sessions, NEW word \in Words, StatusCallback(h, s, word)
      PROVE  Moved(s)
  <2> DEFINE m == [Idle EXCEPT !.s = s, !.snap = row[s], !.arg = MappedStatus(word)]
  <2>1. MappedStatus(word) \in Statuses
    BY <1>4, MappedStatusType DEF StatusCallback
  <2>2. m \in Locals /\ Goto(h, m, "hook")
    BY <1>4, <2>1, IdleType DEF StatusCallback, Locals, Typed, TypeOK
  <2> HIDE DEF m
  <2>3. Quiet(s)
    BY <1>4, <2>2, QuietGoto DEF StatusCallback, Steps
  <2>4. QED
    BY <2>3 DEF Moved
<1>5. ASSUME NEW h \in Webhooks, ApplyCallback(h)
      PROVE  \E t \in Sessions : Moved(t)
  <2>1. PICK t \in Sessions : t = proc[h].s
    BY <1>5 DEF ApplyCallback, Typed, SessionChosen
  <2> USE <2>1
  <2> DEFINE new == [proc[h].snap EXCEPT !.status = proc[h].arg]
  <2>2. proc[h].arg \in Statuses \ {"queued"}
    BY <1>5 DEF ApplyCallback, NobodyWritesQueued
  <2>3. new \in Rows /\ new.status # "queued"
    BY <1>0, <2>2 DEF Locals, Rows
  <2>4. TryUpdate(h, new)
    BY <1>5 DEF ApplyCallback
  <2> HIDE DEF new
  <2>5. /\ \A s \in Sessions : s # t => row'[s] = row[s]
        /\ row'[t] = row[t] \/ row'[t] = new
    BY <2>3, <2>4, TryUpdateEffect
  <2>6. Quiet(t)
    BY <1>5, <2>3, <2>5, QuietMove, IdleType DEF ApplyCallback
  <2>7. QED
    BY <2>6 DEF Moved
<1>6. QED
  BY <1>1, <1>2, <1>3, <1>4, <1>5

LEMMA MovedEnvironment ==
  ASSUME Typed
  PROVE  /\ \A s \in Sessions : Time(s) => Moved(s)
         /\ \A p \in Processes : DatabaseError(p) \/ Crash(p) => \E t : Moved(t)
<1>1. ASSUME NEW s \in Sessions, Time(s)
      PROVE  Moved(s)
  <2>1. UNCHANGED <<row, proc, placed, requests, retried>>
    BY <1>1 DEF Time, BecomeDue, ExpireLease
  <2>2. Quiet(s)
    BY <2>1 DEF Quiet, SameElsewhere, Asking
  <2>3. QED
    BY <2>2 DEF Moved
<1>2. ASSUME NEW p \in Processes, DatabaseError(p) \/ Crash(p)
      PROVE  \E t : Moved(t)
  <2>1. PICK t : t = proc[p].s
    OBVIOUS
  <2>2. proc[p] \in Locals /\ UNCHANGED <<row, placed, requests, retried>>
    BY <1>2 DEF Typed, TypeOK, DatabaseError, Crash
  <2>3. \E m : m.pc \in {"dead", "idle"} /\ Move(p, m)
    BY <1>2, <2>2, IdleType DEF DatabaseError, Crash, OnDatabaseError, AtStep, Locals
  <2>4. Quiet(t)
    BY <2>1, <2>2, <2>3, QuietMove
  <2>5. QED
    BY <2>4 DEF Moved
<1>3. QED
  BY <1>1, <1>2

LEMMA MovedStep ==
  ASSUME Typed, NobodyWritesQueued, CarefulStep
  PROVE  \E t : Moved(t)
<1>1. CASE UNCHANGED vars
  <2>1. Quiet(NoSession)
    BY <1>1 DEF vars, Quiet, SameElsewhere, Asking
  <2>2. QED
    BY <2>1 DEF Moved
<1>2. CASE NextWithOutcome /\ KeepsStarts
  BY <1>2, MovedStart, MovedProvider, MovedWorker, MovedRequests, MovedEnvironment
     DEF NextWithOutcome, Next, OutcomeRequest, Edits
<1>3. QED
  BY <1>1, <1>2 DEF CarefulStep

LEMMA TokenInit == Init => OneToken
BY DEF Init, OneToken, Underway, Asking, Idle, Processes, Callers, NoSession

LEMMA TokenStep ==
  ASSUME TypeOK, OneToken, NEW t, Moved(t)
  PROVE  OneToken'
<1> DEFINE Token(s) ==
      /\ placed[s] <= 1
      /\ placed[s] = 1 => row[s].status # "queued" /\ \A q \in Callers : ~Asking(q, s)
      /\ row[s].status = "queued" => \A q \in Callers : ~Asking(q, s)
      /\ \A p, q \in Callers : Asking(p, s) /\ Asking(q, s) => p = q
<1>1. \A s \in Sessions : Token(s)
  BY DEF OneToken, Underway
<1>2. \A s \in Sessions : placed[s] \in Nat
  BY DEF TypeOK
<1>3. CASE Quiet(t)
  <2>1. ASSUME NEW s \in Sessions PROVE Token(s)'
    <3>1. placed' = placed
      BY <1>3 DEF Quiet
    <3>2. row'[s].status = "queued" => row[s].status = "queued"
      BY <1>3 DEF Quiet, SameElsewhere
    <3>3. \A q \in Callers : Asking(q, s)' => Asking(q, s)
      BY <1>3 DEF Quiet, SameElsewhere
    <3>4. QED
      BY <1>1, <3>1, <3>2, <3>3
  <2>2. QED
    BY <2>1 DEF OneToken, Underway
<1>4. ASSUME t \in Sessions, NEW s \in Sessions, s # t, SameElsewhere(t), placed'[s] = placed[s]
      PROVE  Token(s)'
  <2>1. /\ row'[s].status = row[s].status
        /\ \A q \in Callers : Asking(q, s)' <=> Asking(q, s)
    BY <1>4 DEF SameElsewhere
  <2>2. QED
    BY <1>1, <1>4, <2>1
<1>5. ASSUME t \in Sessions, NEW p \in Callers, Asks(p, t)
      PROVE  OneToken'
  <2>1. Token(t)'
    BY <1>1, <1>2, <1>5 DEF Asks
  <2>2. \A s \in Sessions : Token(s)'
    BY <1>4, <1>5, <2>1 DEF Asks
  <2>3. QED
    BY <2>2 DEF OneToken, Underway
<1>6. ASSUME t \in Sessions, NEW p \in Callers, Places(p, t)
      PROVE  OneToken'
  <2>1. placed[t] = 0 /\ row[t].status # "queued"
    BY <1>1, <1>2, <1>6 DEF Places
  <2>2. placed' = [placed EXCEPT ![t] = placed[t] + 1]
    BY <1>6 DEF Places
  <2>3. placed'[t] = 1 /\ \A s \in Sessions : s # t => placed'[s] = placed[s]
    BY <1>6, <2>1, <2>2 DEF TypeOK
  <2>4. \A q \in Callers : ~Asking(q, t)'
    BY <1>1, <1>6 DEF Places
  <2>5. Token(t)'
    BY <1>6, <2>1, <2>3, <2>4 DEF Places
  <2>6. \A s \in Sessions : Token(s)'
    BY <1>4, <1>6, <2>3, <2>5 DEF Places
  <2>7. QED
    BY <2>6 DEF OneToken, Underway
<1>7. ASSUME t \in Sessions, NEW p \in Callers, Revives(p, t)
      PROVE  OneToken'
  <2>1. placed[t] = 0 /\ placed' = placed
    BY <1>1, <1>2, <1>7 DEF Revives
  <2>2. \A q \in Callers : ~Asking(q, t)'
    BY <1>1, <1>7 DEF Revives
  <2>3. Token(t)'
    BY <2>1, <2>2
  <2>4. \A s \in Sessions : Token(s)'
    BY <1>4, <1>7, <2>1, <2>3 DEF Revives
  <2>5. QED
    BY <2>4 DEF OneToken, Underway
<1>8. QED
  BY <1>3, <1>5, <1>6, <1>7 DEF Moved

-------------------------------------------------------------------------------
(* Requests are bounded.  A 429 that puts the session back is remembered   *)
(* under the number of its claim, no number is used twice, and the number  *)
(* of requests never exceeds that of the 429s by more than one.            *)

\* w goes on with the attempt it is at, or drops it.
Keep(w) ==
  \/ proc'[w].s \notin Sessions /\ proc'[w].pc \notin Attempting
  \/ /\ proc'[w].s = proc[w].s /\ proc'[w].att = proc[w].att
     /\ proc'[w].pc \in Attempting => proc[w].pc \in Attempting
     /\ proc'[w].pc = "requeue" => proc[w].att < MaxAttempts

Still ==
  /\ \A w \in Workers : Keep(w)
  /\ \A s \in Sessions :
       /\ queue'[s].attempts = queue[s].attempts
       /\ queue'[s].status = "absent" => queue[s].status = "absent"

Claims(w, t) ==
  /\ \A v \in Workers : v # w => proc'[v] = proc[v]
  /\ \/ Keep(w)
     \/ /\ proc'[w].s = t /\ proc'[w].att = queue[t].attempts + 1
        /\ proc'[w].pc # "requeue"
  /\ queue'[t].attempts = queue[t].attempts + 1 /\ queue'[t].status # "absent"
  /\ \A s \in Sessions : s # t => queue'[s] = queue[s]
  /\ retried' = retried

LEMMA KeepOthers ==
  ASSUME AttemptsDistinct, NEW p,
         \A q \in Processes : q # p => proc'[q] = proc[q],
         p \in Workers => Keep(p)
  PROVE  \A w \in Workers : Keep(w)
BY DEF AttemptsDistinct, Keep, Processes, Callers

LEMMA IdleKeep ==
  ASSUME NEW p, proc'[p] = Idle PROVE Keep(p)
BY SessionsAssumption DEF Keep, Idle, Attempting

LEMMA KeepGoto ==
  ASSUME Typed, AttemptsDistinct, NEW p \in Processes, NEW l \in Locals, NEW next \in Steps,
         Goto(p, l, next), l.s = proc[p].s, l.att = proc[p].att,
         next \in Attempting => proc[p].pc \in Attempting,
         p \in Workers /\ next = "requeue" => l.att < MaxAttempts
  PROVE  \A w \in Workers : Keep(w)
<1>1. /\ \A q \in Processes : q # p => proc'[q] = proc[q]
      /\ \/ proc'[p] = Idle
         \/ proc'[p] = [l EXCEPT !.pc = next]
         \/ proc'[p] = [l EXCEPT !.pc = "dead"]
  BY GotoEffect
<1>2. CASE proc'[p] = Idle
  BY <1>1, <1>2, IdleKeep, KeepOthers
<1>3. CASE proc'[p] = [l EXCEPT !.pc = next]
  <2>1. proc'[p].s = l.s /\ proc'[p].att = l.att /\ proc'[p].pc = next
    BY <1>3 DEF Locals
  <2>2. p \in Workers => Keep(p)
    BY <2>1 DEF Keep
  <2>3. QED
    BY <1>1, <2>2, KeepOthers
<1>4. CASE proc'[p] = [l EXCEPT !.pc = "dead"]
  <2>1. proc'[p].s = l.s /\ proc'[p].att = l.att /\ proc'[p].pc = "dead"
    BY <1>4 DEF Locals
  <2>2. Keep(p)
    BY <2>1 DEF Keep, Attempting
  <2>3. QED
    BY <1>1, <2>2, KeepOthers
<1>5. QED
  BY <1>1, <1>2, <1>3, <1>4

LEMMA SettleStill ==
  ASSUME Typed, NEW w \in Workers, NEW status \in {"pending", "completed", "dead_letter"},
         proc[w].s \in Sessions, Settle(w, status)
  PROVE  \A s \in Sessions : /\ queue'[s].attempts = queue[s].attempts
                             /\ queue'[s].status = "absent" => queue[s].status = "absent"
<1> DEFINE t == proc[w].s
<1>1. CASE HoldsLease(w)
  <2>1. queue' = [queue EXCEPT ![t].status = status, ![t].lock = 0, ![t].timer = "running"]
    BY <1>1 DEF Settle
  <2>2. QED
    BY <2>1 DEF Typed, TypeOK, QueueRows
<1>2. CASE ~HoldsLease(w)
  BY <1>2 DEF Settle
<1>3. QED
  BY <1>1, <1>2

LEMMA NumberedStart ==
  ASSUME Typed, AttemptsDistinct, NEW p \in Callers, Start(p) \/ Provider(p)
  PROVE  Still
<1> DEFINE l == proc[p]
<1>1. p \in Processes /\ l \in Locals
  BY DEF Typed, TypeOK, Processes
<1>2. queue' = queue
  BY DEF Start, ReadSession, MarkInitiating, MarkFailed, RecordCall,
         Provider, CallCreated, CallRefused
<1>3. SUFFICES \A w \in Workers : Keep(w)
  BY <1>2 DEF Still
<1>4. l.s \in Sessions
  BY <1>1 DEF Start, ReadSession, MarkInitiating, MarkFailed, RecordCall,
         Provider, CallCreated, CallRefused, Typed, SessionChosen
<1>5. CASE ReadSession(p)
  <2> DEFINE m == [l EXCEPT !.snap = row[l.s]]
  <2>1. m \in Locals /\ m.s = l.s /\ m.att = l.att
    BY <1>1, <1>4 DEF Locals, Typed, TypeOK
  <2>2. \E next \in {"initiate", "recheck", "idle"} : Goto(p, m, next)
    BY <1>5 DEF ReadSession, OnInvalidOperation
  <2>3. l.pc \in Attempting
    BY <1>5 DEF ReadSession, Attempting
  <2> HIDE DEF m
  <2>4. QED
    BY <1>1, <2>1, <2>2, <2>3, KeepGoto DEF Steps
<1>6. CASE MarkInitiating(p)
  <2> DEFINE m == [l EXCEPT !.snap = [l.snap EXCEPT !.status = "initiating"]]
  <2>1. m \in Locals /\ m.s = l.s /\ m.att = l.att
    BY <1>1 DEF Locals, Rows, Statuses
  <2>2. \E next \in {"request", "recheck", "idle"} : Goto(p, m, next)
    BY <1>6 DEF MarkInitiating, OnInvalidOperation
  <2>3. l.pc \in Attempting
    BY <1>6 DEF MarkInitiating, Attempting
  <2> HIDE DEF m
  <2>4. QED
    BY <1>1, <2>1, <2>2, <2>3, KeepGoto DEF Steps
<1>7. CASE MarkFailed(p)
  <2>1. /\ AfterFailure(p) \in {"idle", "requeue", "recheck", "dead"}
        /\ p \in Workers /\ AfterFailure(p) = "requeue" => l.att < MaxAttempts
    BY DEF AfterFailure
  <2>2. Goto(p, l, AfterFailure(p)) /\ l.pc \in Attempting
    BY <1>7 DEF MarkFailed, Attempting
  <2>3. QED
    BY <1>1, <2>1, <2>2, KeepGoto DEF Steps
<1>8. CASE RecordCall(p)
  <2>1. \E next \in {"recheck", "complete", "idle"} : Goto(p, l, next)
    BY <1>8 DEF RecordCall, OnInvalidOperation
  <2>2. QED
    BY <1>1, <2>1, KeepGoto DEF Steps, Attempting
<1>9. CASE Provider(p)
  <2>1. PICK m : Move(p, m) /\ m.s = l.s /\ m.att = l.att /\ m.pc \in {"record", "fail"}
    <3>1. CASE Move(p, [l EXCEPT !.pc = "record", !.call = placed[l.s] + 1])
      <4> DEFINE m == [l EXCEPT !.pc = "record", !.call = placed[l.s] + 1]
      <4>1. m.s = l.s /\ m.att = l.att /\ m.pc = "record"
        BY <1>1 DEF Locals
      <4>2. QED
        BY <3>1, <4>1
    <3>2. ASSUME NEW e \in Errors, Move(p, [l EXCEPT !.pc = "fail", !.arg = e])
          PROVE  \E m : Move(p, m) /\ m.s = l.s /\ m.att = l.att /\ m.pc \in {"record", "fail"}
      <4> DEFINE m == [l EXCEPT !.pc = "fail", !.arg = e]
      <4>1. m.s = l.s /\ m.att = l.att /\ m.pc = "fail"
        BY <1>1 DEF Locals
      <4>2. QED
        BY <3>2, <4>1
    <3>3. QED
      BY <1>9, <3>1, <3>2 DEF Provider, CallCreated, CallRefused
  <2>2. proc'[p] = m /\ \A q \in Processes : q # p => proc'[q] = proc[q]
    BY <1>1, <2>1, MoveEffect
  <2>3. l.pc \in Attempting
    BY <1>9 DEF Provider, CallCreated, CallRefused, Attempting
  <2>4. Keep(p)
    BY <2>1, <2>2, <2>3 DEF Keep
  <2>5. QED
    BY <2>2, <2>4, KeepOthers
<1>10. QED
  BY <1>5, <1>6, <1>7, <1>8, <1>9 DEF Start

LEMMA NumberedWorker ==
  ASSUME Typed, AttemptsDistinct, NEW w \in Workers, Worker(w)
  PROVE  Still \/ \E t \in Sessions : Claims(w, t)
<1> DEFINE l == proc[w]
<1>1. w \in Processes /\ l \in Locals
  BY DEF Typed, TypeOK, Processes, Callers
<1>2. ASSUME NEW next \in {"claim", "retry", "dead", "idle", "recheck", "settle"}, Goto(w, l, next)
      PROVE  \A v \in Workers : Keep(v)
  BY <1>1, <1>2, KeepGoto DEF Steps, Attempting
<1>3. CASE Claim(w)
  <2>1. PICK t \in Sessions :
          /\ Claimable(t)
          /\ queue' = [queue EXCEPT ![t].status = "processing",
                                    ![t].attempts = queue[t].attempts + 1,
                                    ![t].lock = queue[t].attempts + 1, ![t].timer = "running"]
          /\ Goto(w, [l EXCEPT !.s = t, !.att = queue[t].attempts + 1], "read")
    BY <1>3 DEF Claim
  <2> DEFINE m == [l EXCEPT !.s = t, !.att = queue[t].attempts + 1]
  <2>2. queue[t].attempts + 1 \in Nat
    BY DEF Typed, TypeOK, QueueRows
  <2>3. m \in Locals /\ m.s = t /\ m.att = queue[t].attempts + 1 /\ Goto(w, m, "read")
    BY <1>1, <2>1, <2>2 DEF Locals
  <2>4. /\ queue'[t].attempts = queue[t].attempts + 1 /\ queue'[t].status # "absent"
        /\ \A s \in Sessions : s # t => queue'[s] = queue[s]
    BY <2>1 DEF Typed, TypeOK, QueueRows
  <2> HIDE DEF m
  <2>5. /\ \A q \in Processes : q # w => proc'[q] = proc[q]
        /\ \/ proc'[w] = Idle
           \/ proc'[w] = [m EXCEPT !.pc = "read"]
           \/ proc'[w] = [m EXCEPT !.pc = "dead"]
    <3>1. "read" \in Steps
      BY DEF Steps
    <3>2. QED
      BY <1>1, <2>3, <3>1, GotoEffect
  <2>6. Keep(w) \/ (proc'[w].s = t /\ proc'[w].att = queue[t].attempts + 1 /\ proc'[w].pc # "requeue")
    BY <2>3, <2>5, IdleKeep DEF Locals
  <2>7. retried' = retried
    BY <1>3 DEF Claim
  <2>8. Claims(w, t)
    BY <2>4, <2>5, <2>6, <2>7 DEF Claims, Processes, Callers
  <2>9. QED
    BY <2>8
<1>4. CASE ClaimNothing(w)
  <2>1. proc'[w] = Idle /\ \A q \in Processes : q # w => proc'[q] = proc[q]
    BY <1>1, <1>4, MoveEffect DEF ClaimNothing
  <2>2. QED
    BY <1>4, <2>1, IdleKeep, KeepOthers DEF ClaimNothing, Still
<1>5. CASE EnqueuePendingSessions(w)
  <2>1. \A s \in Sessions : /\ queue'[s].attempts = queue[s].attempts
                            /\ queue'[s].status = "absent" => queue[s].status = "absent"
    <3>1. ASSUME NEW s \in Sessions
          PROVE  /\ queue'[s].attempts = queue[s].attempts
                 /\ queue'[s].status = "absent" => queue[s].status = "absent"
      <4>1. queue'[s] = queue[s] \/ (queue[s].status = "absent" /\ queue'[s] = NewQueueRow)
        BY <1>5 DEF EnqueuePendingSessions
      <4>2. NewQueueRow.attempts = 0 /\ NewQueueRow.status = "pending"
        BY DEF NewQueueRow
      <4>3. QED
        BY <4>1, <4>2 DEF AttemptsDistinct
    <3>2. QED
      BY <3>1
  <2>2. QED
    BY <1>2, <1>5, <2>1 DEF EnqueuePendingSessions, Still
<1>6. CASE TryRequeue(w)
  BY <1>2, <1>6 DEF TryRequeue, Still
<1>7. CASE Recheck(w)
  BY <1>2, <1>7 DEF Recheck, Still
<1>8. CASE MarkRetry(w) \/ MarkDeadLetter(w) \/ MarkCompleted(w)
  <2>1. l.s \in Sessions
    BY <1>1, <1>8 DEF MarkRetry, MarkDeadLetter, MarkCompleted, Typed, SessionChosen
  <2>2. \E status \in {"pending", "completed", "dead_letter"} : Settle(w, status)
    BY <1>8 DEF MarkRetry, MarkDeadLetter, MarkCompleted
  <2>3. \E next \in {"idle", "recheck"} : Goto(w, l, next)
    BY <1>8 DEF MarkRetry, MarkDeadLetter, MarkCompleted
  <2>4. QED
    BY <1>2, <2>1, <2>2, <2>3, SettleStill DEF Still
<1>9. QED
  BY <1>3, <1>4, <1>5, <1>6, <1>7, <1>8 DEF Worker

LEMMA NumberedOthers ==
  ASSUME Typed, AttemptsDistinct, NextWithOutcome
  PROVE  \/ Still
         \/ \E p \in Callers : Start(p) \/ Provider(p)
         \/ \E w \in Workers : Worker(w)
<1>1. ASSUME NEW p \in Processes, p \notin Workers, queue' = queue,
             \A q \in Processes : q # p => proc'[q] = proc[q]
      PROVE  Still
  BY <1>1, KeepOthers DEF Still
<1>2. ASSUME NEW c \in Starters, NEW s \in Sessions, StartRequest(c, s)
      PROVE  Still
  <2>1. c \in Processes /\ c \notin Workers
    BY ProcessesAssumption DEF Processes, Callers
  <2>2. QED
    BY <1>1, <1>2, <2>1, MoveEffect DEF StartRequest
<1>3. ASSUME NEW e \in Editors \cup Webhooks, queue' = queue,
             (\E l : Move(e, l)) \/ (\E l \in Locals, next \in Steps : Goto(e, l, next))
      PROVE  Still
  <2>1. e \in Processes /\ e \notin Workers
    BY ProcessesAssumption DEF Processes, Callers
  <2>2. QED
    BY <1>1, <1>3, <2>1, MoveEffect, GotoEffect
<1>4. ASSUME NEW e \in Editors, NEW s \in Sessions, NEW edit \in Edits, EditRequest(e, s, edit)
      PROVE  Still
  <2> DEFINE m == [Idle EXCEPT !.s = s, !.snap = row[s], !.arg = edit]
  <2>1. m \in Locals /\ Goto(e, m, "edit") /\ "edit" \in Steps
    BY <1>4, IdleType DEF EditRequest, Locals, Typed, TypeOK, Edits, Steps
  <2> HIDE DEF m
  <2>2. QED
    BY <1>3, <1>4, <2>1 DEF EditRequest
<1>5. ASSUME NEW h \in Webhooks, NEW s \in Sessions, NEW word \in Words, StatusCallback(h, s, word)
      PROVE  Still
  <2> DEFINE m == [Idle EXCEPT !.s = s, !.snap = row[s], !.arg = MappedStatus(word)]
  <2>1. MappedStatus(word) \in Statuses
    BY <1>5, MappedStatusType DEF StatusCallback
  <2>2. m \in Locals /\ Goto(h, m, "hook") /\ "hook" \in Steps
    BY <1>5, <2>1, IdleType DEF StatusCallback, Locals, Typed, TypeOK, Steps
  <2> HIDE DEF m
  <2>3. QED
    BY <1>3, <1>5, <2>2 DEF StatusCallback
<1>6. ASSUME NEW e \in Editors \cup Webhooks, WriteEdit(e) \/ ApplyCallback(e)
      PROVE  Still
  BY <1>3, <1>6 DEF WriteEdit, ApplyCallback
<1>7. ASSUME NEW s \in Sessions, Time(s)
      PROVE  Still
  <2>1. queue' = [queue EXCEPT ![s].timer = "over"] /\ proc' = proc
    BY <1>7 DEF Time, BecomeDue, ExpireLease
  <2>2. \A t \in Sessions : /\ queue'[t].attempts = queue[t].attempts
                            /\ queue'[t].status = queue[t].status
    BY <2>1 DEF Typed, TypeOK, QueueRows
  <2>3. \A w \in Workers : Keep(w)
    BY <2>1 DEF Keep, AttemptsDistinct
  <2>4. QED
    BY <2>2, <2>3 DEF Still
<1>8. ASSUME NEW p \in Processes, DatabaseError(p) \/ Crash(p)
      PROVE  Still
  <2>1. proc[p] \in Locals /\ queue' = queue
    BY <1>8 DEF Typed, TypeOK, DatabaseError, Crash
  <2>2. Move(p, Idle) \/ Move(p, [proc[p] EXCEPT !.pc = "dead"])
    BY <1>8 DEF DatabaseError, Crash, OnDatabaseError, AtStep
  <2>3. [proc[p] EXCEPT !.pc = "dead"].s = proc[p].s /\ [proc[p] EXCEPT !.pc = "dead"].att = proc[p].att
        /\ [proc[p] EXCEPT !.pc = "dead"].pc = "dead"
    BY <2>1 DEF Locals
  <2>4. Keep(p)
    <3>1. proc'[p] = Idle \/ proc'[p] = [proc[p] EXCEPT !.pc = "dead"]
      BY <2>2, MoveEffect
    <3>2. CASE proc'[p] = [proc[p] EXCEPT !.pc = "dead"]
      BY <2>3, <3>2 DEF Keep, Attempting
    <3>3. QED
      BY <3>1, <3>2, IdleKeep
  <2>5. \A q \in Processes : q # p => proc'[q] = proc[q]
    BY <2>2, MoveEffect
  <2>6. QED
    BY <2>1, <2>4, <2>5, KeepOthers DEF Still
<1>9. QED
  BY <1>2, <1>4, <1>5, <1>6, <1>7, <1>8 DEF NextWithOutcome, Next, OutcomeRequest, Edits

LEMMA NumberedStep ==
  ASSUME Typed, AttemptsDistinct, [NextWithOutcome]_vars
  PROVE  Still \/ \E w \in Workers, t \in Sessions : Claims(w, t)
<1>1. CASE UNCHANGED vars
  <2>1. \A w \in Workers : Keep(w)
    BY <1>1 DEF vars, Keep, AttemptsDistinct
  <2>2. QED
    BY <1>1, <2>1 DEF vars, Still
<1>2. CASE NextWithOutcome
  BY <1>2, NumberedOthers, NumberedStart, NumberedWorker
<1>3. QED
  BY <1>1, <1>2

Budgeted == AttemptsDistinct /\ RequestsPaid

LEMMA BudgetInit == Init => Budgeted
<1> SUFFICES ASSUME Init PROVE Budgeted
  OBVIOUS
<1>1. AttemptsDistinct
  BY SessionsAssumption DEF Init, AttemptsDistinct, Idle, NoQueueRow, Processes, Callers
<1>2. Cardinality({}) = 0
  BY FS_EmptySet
<1>3. RequestsPaid
  BY <1>2 DEF Init, RequestsPaid, NewRow, Idle, Attempting, Processes, Callers
<1>4. QED
  BY <1>1, <1>3 DEF Budgeted

\* Which 429s are remembered after a step.
LEMMA RetriedStep ==
  ASSUME Typed, NEW t, Moved(t)
  PROVE  \/ retried' = retried
         \/ t \in Sessions /\ \E p \in Workers : Revives(p, t)
BY DEF Moved, Quiet, Asks, Places, Revives

LEMMA DistinctStep ==
  ASSUME Typed, Typed', AttemptsDistinct, [NextWithOutcome]_vars
  PROVE  AttemptsDistinct'
<1>1. \A w \in Workers : proc[w] \in Locals /\ proc'[w] \in Locals /\ proc[w].att \in Nat
  BY DEF Typed, TypeOK, Processes, Callers, Locals
<1>2. \A s \in Sessions : queue[s].attempts \in Nat
  BY DEF Typed, TypeOK, QueueRows
<1>3. CASE Still
  <2>1. \A s \in Sessions : queue'[s].status = "absent" => queue'[s].attempts = 0
    BY <1>3 DEF Still, AttemptsDistinct
  <2>2. \A w \in Workers : proc'[w].s \in Sessions => proc'[w].att \in 1..queue'[proc'[w].s].attempts
    BY <1>3 DEF Still, Keep, AttemptsDistinct
  <2>3. \A v, w \in Workers :
          v # w /\ proc'[v].s = proc'[w].s /\ proc'[v].s \in Sessions => proc'[v].att # proc'[w].att
    BY <1>3 DEF Still, Keep, AttemptsDistinct
  <2>4. \A w \in Workers : proc'[w].pc = "requeue" => proc'[w].att < MaxAttempts
    BY <1>3 DEF Still, Keep, Attempting
  <2>5. QED
    BY <2>1, <2>2, <2>3, <2>4 DEF AttemptsDistinct
<1>4. ASSUME NEW w \in Workers, NEW u \in Sessions, Claims(w, u)
      PROVE  AttemptsDistinct'
  <2>1. \A s \in Sessions : /\ queue'[s].status = "absent" => queue'[s].attempts = 0
                            /\ queue'[s].attempts >= queue[s].attempts
                            /\ queue'[s].attempts \in Nat
    BY <1>2, <1>4 DEF Claims, AttemptsDistinct
  <2>2. \A v \in Workers : Keep(v) \/ (v = w /\ proc'[w].s = u /\ proc'[w].att = queue[u].attempts + 1
                                       /\ proc'[w].pc # "requeue")
    BY <1>4 DEF Claims, Keep, AttemptsDistinct
  <2>3. \A v \in Workers : Keep(v) /\ proc'[v].s \in Sessions =>
          proc'[v].att \in 1..queue[proc'[v].s].attempts
    BY DEF Keep, AttemptsDistinct
  <2>4. queue'[u].attempts = queue[u].attempts + 1 /\ retried' = retried
    BY <1>4 DEF Claims
  <2>5. \A v \in Workers : proc'[v].s \in Sessions => proc'[v].att \in 1..queue'[proc'[v].s].attempts
    BY <1>1, <1>2, <2>1, <2>2, <2>3, <2>4
  <2>6. ASSUME NEW v \in Workers, NEW x \in Workers,
               v # x, proc'[v].s = proc'[x].s, proc'[v].s \in Sessions
        PROVE  proc'[v].att # proc'[x].att
    <3>1. CASE Keep(v) /\ Keep(x)
      BY <2>6, <3>1 DEF Keep, AttemptsDistinct
    <3>2. CASE Keep(v) /\ ~Keep(x)
      BY <1>2, <2>2, <2>3, <2>6, <3>2
    <3>3. CASE ~Keep(v) /\ Keep(x)
      BY <1>2, <2>2, <2>3, <2>6, <3>3
    <3>4. QED
      BY <2>2, <2>6, <3>1, <3>2, <3>3
  <2>7. \A v \in Workers : proc'[v].pc = "requeue" => proc'[v].att < MaxAttempts
    BY <2>2 DEF Keep, Attempting
  <2>8. QED
    BY <2>1, <2>5, <2>6, <2>7 DEF AttemptsDistinct
<1>5. QED
  BY <1>3, <1>4, NumberedStep

\* No retry is paid for with the number of a claim that is still being tried.
LEMMA UnpaidStep ==
  ASSUME Typed, Typed', Budgeted, [NextWithOutcome]_vars, NEW t, Moved(t),
         NEW w \in Workers, proc'[w].pc \in Attempting
  PROVE  proc'[w].att \notin retried'[proc'[w].s]
<1>1. \A s \in Sessions : queue[s].attempts \in Nat
  BY DEF Typed, TypeOK, QueueRows
<1>2. proc'[w].s \in Sessions
  BY DEF Typed, SessionChosen, Attempting, Processes, Callers
<1>3. ASSUME Keep(w) PROVE proc'[w].att \notin retried'[proc'[w].s]
  <2>1. /\ proc'[w].s = proc[w].s /\ proc'[w].att = proc[w].att /\ proc[w].pc \in Attempting
        /\ proc[w].att \notin retried[proc[w].s]
    BY <1>3 DEF Keep, Budgeted, RequestsPaid
  <2>2. CASE retried' = retried
    BY <2>1, <2>2
  <2>3. ASSUME t \in Sessions, NEW p \in Workers, Revives(p, t)
        PROVE  proc'[w].att \notin retried'[proc'[w].s]
    <3>1. /\ retried' = [retried EXCEPT ![t] = retried[t] \cup {proc[p].att}]
          /\ proc[p].s = t /\ p # w
      BY <2>3 DEF Revives, Asking, Attempting
    <3>2. CASE proc[w].s = t
      BY <2>1, <2>3, <3>1, <3>2 DEF Budgeted, AttemptsDistinct, Typed, TypeOK
    <3>3. CASE proc[w].s # t
      BY <1>2, <2>1, <3>1, <3>3 DEF Typed, TypeOK
    <3>4. QED
      BY <3>2, <3>3
  <2>4. QED
    BY <2>2, <2>3, RetriedStep
<1>4. ASSUME NEW v \in Workers, NEW u \in Sessions, Claims(v, u)
      PROVE  proc'[w].att \notin retried'[proc'[w].s]
  <2>1. CASE Keep(w)
    BY <1>3, <2>1
  <2>2. CASE ~Keep(w)
    <3>1. proc'[w].s = u /\ proc'[w].att = queue[u].attempts + 1 /\ retried' = retried
      BY <1>4, <2>2 DEF Claims, Keep, Budgeted, AttemptsDistinct
    <3>2. retried[u] \subseteq 1..queue[u].attempts
      BY <1>4 DEF Budgeted, RequestsPaid
    <3>3. QED
      BY <1>1, <3>1, <3>2
  <2>3. QED
    BY <2>1, <2>2
<1>5. QED
  BY <1>3, <1>4, NumberedStep DEF Still, Budgeted

LEMMA Counted ==
  ASSUME NEW S, NEW n \in Nat, S \subseteq 1..n
  PROVE  /\ IsFiniteSet(S) /\ Cardinality(S) \in Nat /\ Cardinality(S) <= n
         /\ \A x : x \notin S => Cardinality(S \cup {x}) = Cardinality(S) + 1
<1>1. IsFiniteSet(1..n) /\ Cardinality(1..n) = n
  BY FS_Interval
<1>2. IsFiniteSet(S) /\ Cardinality(S) <= Cardinality(1..n)
  BY <1>1, FS_Subset
<1>3. QED
  BY <1>1, <1>2, FS_AddElement, FS_CardinalityType

LEMMA PaidStep ==
  ASSUME Typed, Typed', Budgeted, [NextWithOutcome]_vars, NEW t, Moved(t)
  PROVE  RequestsPaid'
<1> DEFINE Paid(s) == requests[s] <= Cardinality(retried[s]) + (IF row[s].status = "queued" THEN 0 ELSE 1)
<1>1. \A s \in Sessions : queue'[s].attempts >= queue[s].attempts
                          /\ queue[s].attempts \in Nat /\ queue'[s].attempts \in Nat
  <2>1. \A s \in Sessions : queue[s].attempts \in Nat /\ queue'[s].attempts \in Nat
    BY DEF Typed, TypeOK, QueueRows
  <2>2. QED
    BY <2>1, NumberedStep DEF Still, Claims, Budgeted
<1>0. \A w \in Workers : proc'[w].pc \in Attempting => proc'[w].att \notin retried'[proc'[w].s]
  BY UnpaidStep
<1>2. \A s \in Sessions : /\ IsFiniteSet(retried[s]) /\ Cardinality(retried[s]) \in Nat
                          /\ \A x : x \notin retried[s] =>
                               Cardinality(retried[s] \cup {x}) = Cardinality(retried[s]) + 1
  BY <1>1, Counted DEF Budgeted, RequestsPaid
<1>3. \A s \in Sessions : requests[s] \in Nat
  BY DEF Typed, TypeOK
<1>4. \A s \in Sessions : /\ retried[s] \subseteq 1..queue[s].attempts
                          /\ retried[s] \subseteq 1..(MaxAttempts - 1)
                          /\ Paid(s)
  BY DEF Budgeted, RequestsPaid
<1>5. CASE retried' = retried
  <2>1. \A s \in Sessions : retried'[s] \subseteq 1..queue'[s].attempts
    BY <1>1, <1>4, <1>5
  <2>2. ASSUME NEW s \in Sessions PROVE Paid(s)'
    <3>1. CASE requests'[s] = requests[s] /\ (row'[s].status = "queued" => row[s].status = "queued")
      BY <1>2, <1>3, <1>4, <1>5, <3>1
    <3>2. CASE requests'[s] = requests[s] + 1 /\ row[s].status = "queued" /\ row'[s].status # "queued"
      BY <1>2, <1>3, <1>4, <1>5, <3>2
    <3>3. CASE Quiet(t)
      BY <3>1, <3>3 DEF Quiet, SameElsewhere
    <3>4. ASSUME t \in Sessions, NEW p \in Callers, Asks(p, t)
          PROVE  Paid(s)'
      <4>1. requests' = [requests EXCEPT ![t] = requests[t] + 1]
        BY <3>4 DEF Asks
      <4>2. CASE s = t
        BY <3>2, <3>4, <4>1, <4>2 DEF Asks, Typed, TypeOK
      <4>3. CASE s # t
        BY <3>1, <3>4, <4>1, <4>3 DEF Asks, SameElsewhere, Typed, TypeOK
      <4>4. QED
        BY <4>2, <4>3
    <3>5. ASSUME t \in Sessions, NEW p \in Callers, Places(p, t)
          PROVE  Paid(s)'
      BY <3>1, <3>5 DEF Places, SameElsewhere
    <3>6. ASSUME t \in Sessions, NEW p \in Callers, Revives(p, t)
          PROVE  Paid(s)'
      <4>1. proc[p].att \in retried[t]
        <5>1. retried' = [retried EXCEPT ![t] = retried[t] \cup {proc[p].att}]
          BY <3>6 DEF Revives
        <5>2. QED
          BY <1>5, <3>6, <5>1 DEF Typed, TypeOK
      <4>2. p \in Workers /\ proc[p].pc \in Attempting /\ proc[p].s = t
        BY <3>6 DEF Revives, Attempting, Asking
      <4>3. QED
        BY <4>1, <4>2 DEF Budgeted, RequestsPaid
    <3>7. QED
      BY <3>3, <3>4, <3>5, <3>6 DEF Moved
  <2>3. QED
    BY <1>0, <1>4, <1>5, <2>1, <2>2 DEF RequestsPaid
<1>6. ASSUME t \in Sessions, NEW p \in Workers, Revives(p, t)
      PROVE  RequestsPaid'
  <2> DEFINE n == proc[p].att
  <2>1. /\ retried' = [retried EXCEPT ![t] = retried[t] \cup {n}]
        /\ requests' = requests
        /\ proc[p].pc = "requeue" /\ proc[p].s = t
        /\ row[t].status # "queued" /\ row'[t].status = "queued"
        /\ \A s \in Sessions : s # t => row'[s].status = row[s].status
    BY <1>6 DEF Revives, SameElsewhere, Asking
  <2>2. n \in 1..queue[t].attempts /\ n \notin retried[t] /\ n < MaxAttempts /\ n \in Nat
    BY <1>1, <1>6, <2>1 DEF Budgeted, AttemptsDistinct, RequestsPaid, Attempting
  <2>3. /\ retried'[t] = retried[t] \cup {n}
        /\ \A s \in Sessions : s # t => retried'[s] = retried[s]
    BY <1>6, <2>1 DEF Typed, TypeOK
  <2>4. n \in 1..(MaxAttempts - 1) /\ n \in 1..queue'[t].attempts
    BY <1>1, <1>6, <2>2, BoundsAssumption
  <2>5. \A s \in Sessions : /\ retried'[s] \subseteq 1..queue'[s].attempts
                            /\ retried'[s] \subseteq 1..(MaxAttempts - 1)
    BY <1>1, <1>4, <2>3, <2>4
  <2>6. Paid(t)'
    BY <1>2, <1>3, <1>4, <1>6, <2>1, <2>2, <2>3
  <2>7. \A s \in Sessions : s # t => Paid(s)'
    BY <1>4, <2>1, <2>3
  <2>8. QED
    BY <1>0, <2>5, <2>6, <2>7 DEF RequestsPaid
<1>7. QED
  BY <1>5, <1>6, RetriedStep

-------------------------------------------------------------------------------
(* What a step may do to a row.                                            *)

\* p may write what it holds.
Fits(p) ==
  /\ p \in Callers /\ proc[p].pc \in Starting =>
       /\ proc[p].snap.call = NoCall
       /\ proc[p].pc # "initiate" => proc[p].snap.status = "initiating"
  /\ p \in Editors /\ proc[p].pc = "edit" /\ proc[p].snap.status = "queued" =>
       proc[p].snap.call = NoCall
  /\ p \in Webhooks /\ proc[p].pc = "hook" =>
       CanApplyProviderStatus(proc[p].snap.status, proc[p].arg)

\* An editor that read s writes it.
EditedBy(e, s) == proc[e].pc = "edit" /\ proc[e].s = s /\ proc'[e] # proc[e]

SameCall(s) == row'[s].call = row[s].call

\* The ways a row changes: a start marks it, fails it or records its call, a
\* worker puts it back, an editor writes it, a callback moves it on.
RowStep(s) ==
  \/ row'[s] = row[s]
  \/ row[s].status = "queued" /\ row'[s].status = "initiating" /\ SameCall(s)
  \/ row'[s].status = "failed" /\ SameCall(s)
  \/ row[s].status = "initiating" /\ row'[s].status = "initiating" /\ row[s].call = NoCall
  \/ /\ row'[s].status = "queued" /\ SameCall(s) /\ row[s].call = NoCall
     /\ \E w \in Workers : proc[w].pc = "requeue" /\ proc[w].s = s
  \/ \E e \in Editors : EditedBy(e, s) /\ row'[s] = Edited(proc[e].snap, proc[e].arg)
  \/ CanApplyProviderStatus(row[s].status, row'[s].status) /\ SameCall(s)

\* A conditional update that hit found the status and the call p had read.
LEMMA TryUpdateRow ==
  ASSUME Typed, NEW p \in Processes, NEW new \in Rows, TryUpdate(p, new), NEW s \in Sessions
  PROVE  \/ row'[s] = row[s]
         \/ /\ row'[s] = new
            /\ row[s].status = proc[p].snap.status /\ row[s].call = proc[p].snap.call
BY DEF TryUpdate, Unchanged, Typed, TypeOK

LEMMA RowStart ==
  ASSUME Typed, NobodyWritesQueued, SnapshotsFit, NEW p \in Callers, Start(p), NEW s \in Sessions
  PROVE  RowStep(s)
<1> DEFINE snap == proc[p].snap
<1>1. p \in Processes /\ proc[p] \in Locals /\ snap \in Rows /\ proc[p].call \in Nat
  BY DEF Typed, TypeOK, Processes, Locals
<1>2. CASE ReadSession(p)
  BY <1>2 DEF ReadSession, RowStep
<1>3. CASE MarkInitiating(p)
  <2> DEFINE new == [snap EXCEPT !.status = "initiating"]
  <2>1. new \in Rows /\ new.status = "initiating" /\ new.call = snap.call
    BY <1>1 DEF Rows, Statuses
  <2>2. TryUpdate(p, new) /\ snap.status = "queued"
    BY <1>3 DEF MarkInitiating, NobodyWritesQueued
  <2> HIDE DEF new
  <2>3. QED
    BY <1>1, <2>1, <2>2, TryUpdateRow DEF RowStep, SameCall
<1>4. CASE MarkFailed(p)
  <2> DEFINE new == [snap EXCEPT !.status = "failed", !.failure = "provider"]
  <2>1. new \in Rows /\ new.status = "failed" /\ new.call = snap.call
    BY <1>1 DEF Rows, Statuses
  <2>2. TryUpdate(p, new)
    BY <1>4 DEF MarkFailed
  <2> HIDE DEF new
  <2>3. QED
    BY <1>1, <2>1, <2>2, TryUpdateRow DEF RowStep, SameCall
<1>5. CASE RecordCall(p)
  <2> DEFINE new == [snap EXCEPT !.call = proc[p].call]
  <2>1. new \in Rows /\ new.status = snap.status
    BY <1>1 DEF Rows
  <2>2. TryUpdate(p, new) /\ snap.status = "initiating" /\ snap.call = NoCall
    BY <1>5 DEF RecordCall, SnapshotsFit, Starting
  <2> HIDE DEF new
  <2>3. QED
    BY <1>1, <2>1, <2>2, TryUpdateRow DEF RowStep
<1>6. QED
  BY <1>2, <1>3, <1>4, <1>5 DEF Start

LEMMA RowRequeue ==
  ASSUME Typed, NEW w \in Workers, TryRequeue(w), NEW s \in Sessions
  PROVE  RowStep(s)
<1> DEFINE t == proc[w].s
<1>1. proc[w].pc = "requeue" /\ t \in Sessions /\ row \in [Sessions -> Rows]
  BY DEF TryRequeue, Typed, TypeOK, SessionChosen, Processes, Callers
<1>2. \/ row' = row
      \/ /\ row' = [row EXCEPT ![t].status = "queued", ![t].failure = "none"]
         /\ row[t].call = NoCall
  BY DEF TryRequeue
<1>3. CASE row' = [row EXCEPT ![t].status = "queued", ![t].failure = "none"] /\ row[t].call = NoCall
  <2>1. row'[t].status = "queued" /\ row'[t].call = row[t].call
    BY <1>1, <1>3 DEF Rows
  <2>2. s # t => row'[s] = row[s]
    BY <1>1, <1>3
  <2>3. QED
    BY <1>1, <1>3, <2>1, <2>2 DEF RowStep, SameCall
<1>4. QED
  BY <1>2, <1>3 DEF RowStep

LEMMA RowEdit ==
  ASSUME Typed, NEW e \in Editors, WriteEdit(e), NEW s \in Sessions
  PROVE  RowStep(s)
<1> DEFINE t == proc[e].s
           new == Edited(proc[e].snap, proc[e].arg)
<1>1. /\ proc[e].pc = "edit" /\ row' = [row EXCEPT ![t] = new] /\ Move(e, Idle)
      /\ e \in Processes /\ t \in Sessions
  BY DEF WriteEdit, Typed, SessionChosen, Processes
<1>2. proc'[e] = Idle /\ proc'[e] # proc[e]
  BY <1>1, MoveEffect, IdleType
<1> HIDE DEF new
<1>3. row'[s] = IF s = t THEN new ELSE row[s]
  BY <1>1 DEF Typed, TypeOK
<1>4. QED
  BY <1>1, <1>2, <1>3 DEF RowStep, EditedBy, new

LEMMA RowCallback ==
  ASSUME Typed, SnapshotsFit, NEW h \in Webhooks, ApplyCallback(h), NEW s \in Sessions,
         proc[h].arg \in Statuses
  PROVE  RowStep(s)
<1> DEFINE new == [proc[h].snap EXCEPT !.status = proc[h].arg]
<1>1. h \in Processes /\ proc[h].snap \in Rows
  BY DEF Typed, TypeOK, Processes, Locals
<1>2. new \in Rows /\ new.status = proc[h].arg /\ new.call = proc[h].snap.call
  BY <1>1 DEF Rows
<1>3. TryUpdate(h, new) /\ CanApplyProviderStatus(proc[h].snap.status, proc[h].arg)
  BY DEF ApplyCallback, SnapshotsFit
<1> HIDE DEF new
<1>4. QED
  BY <1>1, <1>2, <1>3, TryUpdateRow DEF RowStep, SameCall

\* Every step changes every row in one of these ways.
LEMMA RowSteps ==
  ASSUME Typed, NobodyWritesQueued, SnapshotsFit, [NextWithOutcome]_vars
  PROVE  \A s \in Sessions : RowStep(s)
<1> SUFFICES ASSUME NEW s \in Sessions PROVE RowStep(s)
  OBVIOUS
<1>1. CASE row' = row
  BY <1>1 DEF RowStep
<1>2. ASSUME NEW p \in Callers, Start(p) \/ Provider(p) PROVE RowStep(s)
  <2>1. Provider(p) => row' = row
    BY DEF Provider, CallCreated, CallRefused
  <2>2. QED
    BY <1>1, <1>2, <2>1, RowStart
<1>3. ASSUME NEW w \in Workers, Worker(w) PROVE RowStep(s)
  <2>1. TryRequeue(w) \/ row' = row
    BY <1>3 DEF Worker, EnqueuePendingSessions, Claim, ClaimNothing, MarkRetry, MarkCompleted,
                MarkDeadLetter, Recheck
  <2>2. QED
    BY <1>1, <2>1, RowRequeue
<1>4. ASSUME NEW h \in Webhooks, ApplyCallback(h) PROVE RowStep(s)
  <2>1. proc[h].arg \in Statuses
    BY <1>4 DEF ApplyCallback, NobodyWritesQueued
  <2>2. QED
    BY <1>4, <2>1, RowCallback
<1>5. CASE \/ \E c \in Starters, t \in Sessions : StartRequest(c, t)
           \/ \E e \in Editors, t \in Sessions, edit \in Edits : EditRequest(e, t, edit)
           \/ \E h \in Webhooks, t \in Sessions, word \in Words : StatusCallback(h, t, word)
           \/ \E t \in Sessions : Time(t)
           \/ \E p \in Processes : DatabaseError(p) \/ Crash(p)
  <2>1. row' = row
    BY <1>5 DEF StartRequest, EditRequest, StatusCallback, Time, BecomeDue, ExpireLease,
                DatabaseError, Crash
  <2>2. QED
    BY <1>1, <2>1
<1>6. CASE NextWithOutcome
  BY <1>2, <1>3, <1>4, <1>5, <1>6, RowEdit DEF NextWithOutcome, Next, OutcomeRequest, Edits
<1>7. QED
  BY <1>1, <1>6 DEF vars

LEMMA FitsAre ==
  SnapshotsFit <=> /\ \A s \in Sessions : row[s].status = "queued" => row[s].call = NoCall
                   /\ \A p \in Processes : Fits(p)
BY DEF SnapshotsFit, Fits, Processes, Callers

\* A start keeps what it has read, and an editor or a callback begins with
\* what it has just read.
LEMMA FitsStep ==
  ASSUME Typed, NobodyWritesQueued, SnapshotsFit, [NextWithOutcome]_vars
  PROVE  \A p \in Processes : Fits(p)'
<1>0. /\ \A p \in Processes : Fits(p) /\ proc[p] \in Locals
      /\ \A s \in Sessions : row[s] \in Rows
  BY FitsAre DEF Typed, TypeOK
<1>1. CASE UNCHANGED vars
  BY <1>0, <1>1 DEF vars, Fits
<1>2. ASSUME NEW p \in Processes, \A q \in Processes : q # p => proc'[q] = proc[q], Fits(p)'
      PROVE  \A q \in Processes : Fits(q)'
  BY <1>0, <1>2 DEF Fits
<1>3. ASSUME NEW p \in Processes, proc'[p].pc \notin Starting \cup {"edit", "hook"} PROVE Fits(p)'
  BY <1>3 DEF Fits, Starting
<1>4. ASSUME NEW p \in Processes, NEW l \in Locals, NEW next \in Steps, Goto(p, l, next),
             next \notin Starting \cup {"edit", "hook"}
      PROVE  \A q \in Processes : Fits(q)'
  <2>1. /\ \A q \in Processes : q # p => proc'[q] = proc[q]
        /\ \/ proc'[p] = Idle
           \/ proc'[p] = [l EXCEPT !.pc = next]
           \/ proc'[p] = [l EXCEPT !.pc = "dead"]
    BY <1>4, GotoEffect
  <2>2. proc'[p].pc \notin Starting \cup {"edit", "hook"}
    BY <1>4, <2>1, IdleType DEF Locals, Starting
  <2>3. QED
    BY <1>2, <1>3, <2>1, <2>2
<1>5. ASSUME NEW p \in Processes, NEW l, Move(p, l), l.pc \notin Starting \cup {"edit", "hook"}
      PROVE  \A q \in Processes : Fits(q)'
  BY <1>2, <1>3, <1>5, MoveEffect
<1>6. \A c \in Callers : c \in Processes /\ c \notin Editors /\ c \notin Webhooks
  BY ProcessesAssumption DEF Processes
<1>7. ASSUME NEW p \in Callers, Start(p)
      PROVE  \A q \in Processes : Fits(q)'
  <2>1. CASE ReadSession(p)
    <3> DEFINE l == [proc[p] EXCEPT !.snap = row[proc[p].s]]
    <3>1. proc[p].s \in Sessions
      BY <1>6, <2>1 DEF ReadSession, Typed, SessionChosen
    <3>2. l \in Locals /\ l.snap = row[proc[p].s]
      BY <1>0, <1>6, <3>1 DEF Locals
    <3>3. CASE row[proc[p].s].status = "queued"
      <4>1. Goto(p, l, "initiate") /\ row[proc[p].s].call = NoCall
        BY <2>1, <3>1, <3>3 DEF ReadSession, SnapshotsFit
      <4> HIDE DEF l
      <4>2. /\ \A q \in Processes : q # p => proc'[q] = proc[q]
            /\ \/ proc'[p] = Idle
               \/ proc'[p] = [l EXCEPT !.pc = "initiate"]
               \/ proc'[p] = [l EXCEPT !.pc = "dead"]
        BY <1>6, <3>2, <4>1, GotoEffect DEF Steps
      <4>3. /\ proc'[p].pc \in {"idle", "initiate", "dead"}
            /\ proc'[p].pc = "initiate" => proc'[p].snap = l.snap
        BY <3>2, <4>2, IdleType DEF Locals
      <4>4. Fits(p)'
        BY <1>6, <3>2, <4>1, <4>3 DEF Fits, Starting
      <4>5. QED
        BY <1>2, <1>6, <4>2, <4>4
    <3>4. CASE row[proc[p].s].status # "queued"
      <4>1. \E next \in {"recheck", "idle"} : Goto(p, l, next)
        BY <2>1, <3>4 DEF ReadSession, OnInvalidOperation
      <4> HIDE DEF l
      <4>2. QED
        BY <1>4, <1>6, <3>2, <4>1 DEF Steps, Starting
    <3>5. QED
      BY <3>3, <3>4
  <2>2. CASE MarkInitiating(p)
    <3> DEFINE new == [proc[p].snap EXCEPT !.status = "initiating"]
               l == [proc[p] EXCEPT !.snap = new]
    <3>1. proc[p].pc = "initiate" /\ proc[p].snap.call = NoCall
      BY <2>2 DEF MarkInitiating, SnapshotsFit, Starting
    <3>2. l \in Locals /\ l.snap.call = NoCall /\ l.snap.status = "initiating"
      BY <1>0, <1>6, <3>1 DEF Locals, Rows, Statuses
    <3>3. PICK next \in {"request", "recheck", "idle"} : Goto(p, l, next)
      BY <2>2 DEF MarkInitiating, OnInvalidOperation
    <3> HIDE DEF l
    <3>4. /\ \A q \in Processes : q # p => proc'[q] = proc[q]
          /\ \/ proc'[p] = Idle
             \/ proc'[p] = [l EXCEPT !.pc = next]
             \/ proc'[p] = [l EXCEPT !.pc = "dead"]
      <4>1. next \in Steps /\ p \in Processes
        BY <1>6 DEF Steps
      <4>2. QED
        BY <3>2, <3>3, <4>1, GotoEffect
    <3>5. /\ proc'[p].pc \in {"idle", "request", "recheck", "dead"}
          /\ proc'[p].pc = "request" => proc'[p].snap = l.snap
      BY <3>2, <3>4, IdleType DEF Locals
    <3>6. Fits(p)'
      BY <1>6, <3>2, <3>5 DEF Fits, Starting
    <3>7. QED
      BY <1>2, <1>6, <3>4, <3>6
  <2>3. CASE MarkFailed(p)
    <3>1. AfterFailure(p) \in {"idle", "requeue", "recheck", "dead"} /\ Goto(p, proc[p], AfterFailure(p))
      BY <2>3 DEF AfterFailure, MarkFailed
    <3>2. QED
      BY <1>0, <1>4, <1>6, <3>1 DEF Steps, Starting
  <2>4. CASE RecordCall(p)
    <3>1. \E next \in {"recheck", "idle", "complete"} : Goto(p, proc[p], next)
      BY <2>4 DEF RecordCall, OnInvalidOperation
    <3>2. QED
      BY <1>0, <1>4, <1>6, <3>1 DEF Steps, Starting
  <2>5. QED
    BY <1>7, <2>1, <2>2, <2>3, <2>4 DEF Start
<1>8. ASSUME NEW p \in Callers, Provider(p)
      PROVE  \A q \in Processes : Fits(q)'
  <2>1. proc[p].pc = "request"
    BY <1>8 DEF Provider, CallCreated, CallRefused
  <2>2. PICK l : l.pc \in {"record", "fail"} /\ l.snap = proc[p].snap /\ Move(p, l)
    <3>1. \A n : LET l == [proc[p] EXCEPT !.pc = "record", !.call = n]
                 IN  l.pc = "record" /\ l.snap = proc[p].snap
      BY <1>0, <1>6 DEF Locals
    <3>2. \A e : LET l == [proc[p] EXCEPT !.pc = "fail", !.arg = e]
                 IN  l.pc = "fail" /\ l.snap = proc[p].snap
      BY <1>0, <1>6 DEF Locals
    <3>3. CASE Move(p, [proc[p] EXCEPT !.pc = "record", !.call = placed[proc[p].s] + 1])
      BY <3>1, <3>3
    <3>4. CASE \E e \in Errors : Move(p, [proc[p] EXCEPT !.pc = "fail", !.arg = e])
      BY <3>2, <3>4
    <3>5. QED
      BY <1>8, <3>3, <3>4 DEF Provider, CallCreated, CallRefused
  <2>3. proc'[p] = l /\ \A q \in Processes : q # p => proc'[q] = proc[q]
    BY <1>6, <2>2, MoveEffect
  <2>4. Fits(p)'
    BY <1>6, <2>1, <2>2, <2>3 DEF Fits, SnapshotsFit, Starting
  <2>5. QED
    BY <1>2, <1>6, <2>3, <2>4
<1>9. ASSUME NEW w \in Workers, Worker(w)
      PROVE  \A q \in Processes : Fits(q)'
  <2>0. w \in Processes
    BY DEF Processes, Callers
  <2>1. CASE Claim(w)
    <3>1. PICK s \in Sessions : Goto(w, [proc[w] EXCEPT !.s = s, !.att = queue[s].attempts + 1], "read")
      BY <2>1 DEF Claim
    <3> DEFINE l == [proc[w] EXCEPT !.s = s, !.att = queue[s].attempts + 1]
    <3>2. queue[s].attempts + 1 \in Nat
      BY DEF Typed, TypeOK, QueueRows
    <3>3. l \in Locals
      BY <1>0, <2>0, <3>2 DEF Locals
    <3>4. Goto(w, l, "read")
      BY <3>1
    <3> HIDE DEF l
    <3>5. QED
      BY <1>4, <2>0, <3>3, <3>4 DEF Steps, Starting
  <2>2. CASE ClaimNothing(w)
    BY <1>5, <2>0, <2>2, IdleType DEF ClaimNothing, Starting
  <2>3. CASE \E next \in {"claim", "retry", "dead", "idle", "recheck", "settle"} : Goto(w, proc[w], next)
    BY <1>0, <1>4, <2>0, <2>3 DEF Steps, Starting
  <2>4. QED
    BY <1>9, <2>1, <2>2, <2>3
       DEF Worker, EnqueuePendingSessions, TryRequeue, MarkRetry, MarkCompleted, MarkDeadLetter, Recheck
<1>10. ASSUME NEW c \in Starters, NEW s \in Sessions, StartRequest(c, s)
       PROVE  \A q \in Processes : Fits(q)'
  <2>1. [Idle EXCEPT !.pc = "read", !.s = s].pc = "read"
    BY IdleType DEF Locals
  <2>2. QED
    BY <1>5, <1>10, <2>1 DEF StartRequest, Starting, Processes, Callers
<1>11. ASSUME NEW e \in Editors, NEW s \in Sessions, NEW edit \in Edits, EditRequest(e, s, edit)
       PROVE  \A q \in Processes : Fits(q)'
  <2> DEFINE l == [Idle EXCEPT !.s = s, !.snap = row[s], !.arg = edit]
  <2>1. l \in Locals /\ l.snap = row[s]
    BY <1>0, IdleType DEF Locals
  <2>2. Goto(e, l, "edit")
    BY <1>11 DEF EditRequest
  <2> HIDE DEF l
  <2>3. e \in Processes /\ e \notin Callers /\ e \notin Webhooks
    BY ProcessesAssumption DEF Processes
  <2>4. /\ \A q \in Processes : q # e => proc'[q] = proc[q]
        /\ \/ proc'[e] = Idle
           \/ proc'[e] = [l EXCEPT !.pc = "edit"]
           \/ proc'[e] = [l EXCEPT !.pc = "dead"]
    BY <2>1, <2>2, <2>3, GotoEffect DEF Steps
  <2>5. proc'[e].pc = "edit" => proc'[e].snap = row[s]
    BY <2>1, <2>4, IdleType DEF Locals
  <2>6. Fits(e)'
    BY <2>3, <2>5 DEF Fits, SnapshotsFit
  <2>7. QED
    BY <1>2, <2>3, <2>4, <2>6
<1>12. ASSUME NEW h \in Webhooks, NEW s \in Sessions, NEW word \in Words, StatusCallback(h, s, word)
       PROVE  \A q \in Processes : Fits(q)'
  <2> DEFINE l == [Idle EXCEPT !.s = s, !.snap = row[s], !.arg = MappedStatus(word)]
  <2>1. MappedStatus(word) \in Statuses /\ CanApplyProviderStatus(row[s].status, MappedStatus(word))
    BY <1>12, MappedStatusType DEF StatusCallback
  <2>2. l \in Locals /\ l.arg = MappedStatus(word) /\ l.snap = row[s]
    BY <1>0, <2>1, IdleType DEF Locals
  <2>3. Goto(h, l, "hook")
    BY <1>12 DEF StatusCallback
  <2> HIDE DEF l
  <2>4. h \in Processes /\ h \notin Callers /\ h \notin Editors
    BY ProcessesAssumption DEF Processes
  <2>5. /\ \A q \in Processes : q # h => proc'[q] = proc[q]
        /\ \/ proc'[h] = Idle
           \/ proc'[h] = [l EXCEPT !.pc = "hook"]
           \/ proc'[h] = [l EXCEPT !.pc = "dead"]
    BY <2>2, <2>3, <2>4, GotoEffect DEF Steps
  <2>6. proc'[h].pc = "hook" => proc'[h].snap = l.snap /\ proc'[h].arg = l.arg
    BY <2>2, <2>5, IdleType DEF Locals
  <2>7. Fits(h)'
    BY <2>1, <2>2, <2>4, <2>6 DEF Fits
  <2>8. QED
    BY <1>2, <2>4, <2>5, <2>7
<1>13. ASSUME NEW p \in Editors \cup Webhooks, WriteEdit(p) \/ ApplyCallback(p)
       PROVE  \A q \in Processes : Fits(q)'
  BY <1>5, <1>13, IdleType DEF WriteEdit, ApplyCallback, Processes, Starting
<1>14. ASSUME NEW s \in Sessions, Time(s)
       PROVE  \A q \in Processes : Fits(q)'
  BY <1>0, <1>14 DEF Time, BecomeDue, ExpireLease, Fits
<1>15. ASSUME NEW p \in Processes, DatabaseError(p) \/ Crash(p)
       PROVE  \A q \in Processes : Fits(q)'
  <2>1. \E l : l.pc \in {"dead", "idle"} /\ Move(p, l)
    BY <1>0, <1>15, IdleType DEF DatabaseError, Crash, OnDatabaseError, AtStep, Locals
  <2>2. QED
    BY <1>5, <2>1 DEF Starting
<1>16. CASE NextWithOutcome
  BY <1>7, <1>8, <1>9, <1>10, <1>11, <1>12, <1>13, <1>14, <1>15, <1>16
     DEF NextWithOutcome, Next, OutcomeRequest, Edits
<1>17. QED
  BY <1>1, <1>16

LEMMA SnapshotsInit == Init => SnapshotsFit
BY DEF Init, SnapshotsFit, Idle, NewRow, Processes, Callers, Starting

LEMMA SnapshotsStep ==
  ASSUME Typed, NobodyWritesQueued, SnapshotsFit, [NextWithOutcome]_vars
  PROVE  SnapshotsFit'
<1>1. ASSUME NEW s \in Sessions, row'[s].status = "queued" PROVE row'[s].call = NoCall
  <2>1. RowStep(s) /\ (row[s].status = "queued" => row[s].call = NoCall)
    BY RowSteps DEF SnapshotsFit
  <2>2. ~CanApplyProviderStatus(row[s].status, row'[s].status)
    BY <1>1 DEF CanApplyProviderStatus, Terminal
  <2>3. ASSUME NEW e \in Editors, EditedBy(e, s), row'[s] = Edited(proc[e].snap, proc[e].arg)
        PROVE  row'[s].call = NoCall
    <3>1. proc[e].snap \in Rows /\ proc[e].arg \in Edits
      BY <2>3 DEF EditedBy, Typed, TypeOK, SessionChosen, Locals, Processes
    <3>2. row'[s].call = proc[e].snap.call /\ proc[e].snap.status = "queued"
      BY <1>1, <2>3, <3>1 DEF Edited, Edits, Rows
    <3>3. QED
      BY <2>3, <3>2 DEF EditedBy, SnapshotsFit
  <2>4. QED
    BY <1>1, <2>1, <2>2, <2>3 DEF RowStep, SameCall
<1>2. \A p \in Processes : Fits(p)'
  BY FitsStep
<1>3. QED
  BY <1>1, <1>2 DEF SnapshotsFit, Fits, Processes, Callers

-------------------------------------------------------------------------------
(* While nothing fails, who works on a session has its lease, and a        *)
(* session is put back only by the worker that has it.                     *)

Served == LeasesHeld /\ DecidedIsNotQueued /\ QueuedIsServed

\* The part of Served that is about one worker.
Serves(w) ==
  /\ proc[w].pc \notin {"idle", "claim"} =>
       HoldsLease(w) /\ queue[proc[w].s].timer = "running"
  /\ proc[w].pc \in Decided => row[proc[w].s].status # "queued"

Waits(w) == proc[w].pc \in {"idle", "claim"}

LEMMA ServedIs ==
  faults = 0 => (Served <=> /\ \A w \in Workers : Serves(w)
                            /\ \A s \in Sessions : row[s].status = "queued" =>
                                 queue[s].status \notin {"completed", "dead_letter"})
BY DEF Served, LeasesHeld, DecidedIsNotQueued, QueuedIsServed, Serves

\* The same in the next state.
LEMMA ServedIsNext ==
  ASSUME faults' = 0, \A w \in Workers : Serves(w)',
         \A s \in Sessions : row'[s].status = "queued" =>
           queue'[s].status \notin {"completed", "dead_letter"}
  PROVE  Served'
BY DEF Served, LeasesHeld, DecidedIsNotQueued, QueuedIsServed, Serves

LEMMA FaultsGrow == ASSUME [NextWithOutcome]_vars PROVE UNCHANGED faults \/ Fault
<1>1. ASSUME NEW p \in Callers, Start(p) \/ Provider(p) PROVE UNCHANGED faults \/ Fault
  BY <1>1 DEF Start, ReadSession, MarkInitiating, MarkFailed, RecordCall,
              Provider, CallCreated, CallRefused, Goto
<1>2. ASSUME NEW w \in Workers, Worker(w) PROVE UNCHANGED faults \/ Fault
  BY <1>2 DEF Worker, EnqueuePendingSessions, Claim, ClaimNothing, TryRequeue, MarkRetry,
              MarkCompleted, MarkDeadLetter, Recheck, Goto
<1>3. CASE \/ \E c \in Starters, s \in Sessions : StartRequest(c, s)
           \/ \E e \in Editors, s \in Sessions, edit \in Edits : EditRequest(e, s, edit)
           \/ \E e \in Editors : WriteEdit(e)
           \/ \E h \in Webhooks, s \in Sessions, word \in Words : StatusCallback(h, s, word)
           \/ \E h \in Webhooks : ApplyCallback(h)
           \/ \E s \in Sessions : Time(s)
           \/ \E p \in Processes : DatabaseError(p) \/ Crash(p)
  BY <1>3 DEF StartRequest, EditRequest, WriteEdit, StatusCallback, ApplyCallback, Time,
              BecomeDue, ExpireLease, DatabaseError, Crash, Goto
<1>4. CASE NextWithOutcome
  BY <1>1, <1>2, <1>3, <1>4 DEF NextWithOutcome, Next, OutcomeRequest, Edits
<1>5. QED
  BY <1>4 DEF vars

\* Without a fault a step goes where it means to.
LEMMA CalmGoto ==
  ASSUME Typed, NEW p \in Processes, NEW l \in Locals, NEW next \in Steps, Goto(p, l, next),
         faults' = 0
  PROVE  /\ \A q \in Processes : q # p => proc'[q] = proc[q]
         /\ next = "idle" => proc'[p] = Idle
         /\ next # "idle" => proc'[p].pc = next /\ proc'[p].s = l.s /\ proc'[p].att = l.att
<1>1. ~Fault
  BY DEF Fault, Typed, TypeOK
<1>2. proc' = [proc EXCEPT ![p] = AtStep(l, next)]
  BY <1>1 DEF Goto, Move
<1>3. proc'[p] = AtStep(l, next) /\ \A q \in Processes : q # p => proc'[q] = proc[q]
  BY <1>2 DEF Typed, TypeOK
<1>4. next = "idle" => AtStep(l, next) = Idle
  BY DEF AtStep
<1>5. next # "idle" => AtStep(l, next) = [l EXCEPT !.pc = next]
  BY DEF AtStep
<1>6. QED
  BY <1>3, <1>4, <1>5 DEF Locals

\* A session is put back only by a worker that requeues it.
LEMMA NewlyQueued ==
  ASSUME Typed, NobodyWritesQueued, SnapshotsFit, OneToken, CarefulStep,
         NEW s \in Sessions, row'[s].status = "queued", row[s].status # "queued"
  PROVE  \E w \in Workers : proc[w].pc = "requeue" /\ proc[w].s = s /\ proc'[w] # proc[w]
<1>1. PICK t : Moved(t)
  BY MovedStep
<1>2. ~Quiet(t)
  BY DEF Quiet, SameElsewhere
<1>3. PICK p \in Callers : t \in Sessions /\ (Asks(p, t) \/ Places(p, t) \/ Revives(p, t))
  BY <1>1, <1>2 DEF Moved
<1>4. SameElsewhere(t) /\ s = t
  BY <1>3 DEF Asks, Places, Revives, SameElsewhere
<1>5. Revives(p, t)
  BY <1>3, <1>4 DEF Asks, Places
<1>6. proc[p].s = t /\ proc[p].pc = "requeue" /\ p \in Workers /\ proc'[p].pc # "requeue"
  BY <1>5 DEF Revives, Asking
<1>7. QED
  BY <1>4, <1>6

\* Two workers do not work on the same session.
LEMMA Alone ==
  ASSUME Typed, AttemptsDistinct, Served, faults = 0, NEW w \in Workers, ~Waits(w),
         NEW v \in Workers, v # w, proc[v].s = proc[w].s
  PROVE  Waits(v)
<1>1. proc[w].s \in Sessions
  BY DEF Typed, SessionChosen, Waits, Processes, Callers
<1>2. HoldsLease(w) /\ (~Waits(v) => HoldsLease(v))
  BY DEF Served, LeasesHeld, Waits
<1>3. QED
  BY <1>1, <1>2 DEF HoldsLease, AttemptsDistinct

\* A step of w that touches only the session t, on which no other worker is.
LEMMA ServeStep ==
  ASSUME Typed, Served, faults = 0, faults' = 0, NEW w \in Workers, NEW t,
         \A v \in Workers : v # w => proc'[v] = proc[v] /\ (proc[v].s = t => Waits(v)),
         \A s \in Sessions : s # t =>
           /\ row'[s].status = "queued" => row[s].status = "queued"
           /\ queue'[s] = queue[s] \/ (queue[s].status = "absent" /\ queue'[s].status = "pending"),
         Serves(w)',
         t \in Sessions /\ row'[t].status = "queued" =>
           queue'[t].status \notin {"completed", "dead_letter"}
  PROVE  Served'
<1>1. ASSUME NEW v \in Workers, v # w PROVE Serves(v)'
  <2>1. proc'[v] = proc[v] /\ Serves(v)
    BY <1>1, ServedIs
  <2>2. CASE Waits(v)
    BY <2>1, <2>2 DEF Serves, Waits, Decided
  <2>3. CASE ~Waits(v)
    <3>1. proc[v].s \in Sessions /\ proc[v].s # t
      BY <1>1, <2>3 DEF Typed, SessionChosen, Waits, Processes, Callers
    <3>2. HoldsLease(v) /\ queue[proc[v].s].timer = "running"
      BY <2>1, <2>3 DEF Serves, Waits
    <3>3. queue'[proc[v].s] = queue[proc[v].s]
      BY <3>1, <3>2 DEF HoldsLease
    <3>4. row'[proc[v].s].status = "queued" => row[proc[v].s].status = "queued"
      BY <3>1
    <3>5. QED
      BY <2>1, <3>2, <3>3, <3>4 DEF Serves, HoldsLease
  <2>4. QED
    BY <2>2, <2>3
<1>2. ASSUME NEW s \in Sessions, row'[s].status = "queued"
      PROVE  queue'[s].status \notin {"completed", "dead_letter"}
  BY <1>2, ServedIs
<1>3. QED
  BY <1>1, <1>2, ServedIsNext

\* A step of a worker with its session that leaves the queue alone.
LEMMA KeepStep ==
  ASSUME Typed, NobodyWritesQueued, SnapshotsFit, OneToken, AttemptsDistinct, Served,
         CarefulStep, faults = 0, faults' = 0,
         NEW w \in Workers, ~Waits(w), queue' = queue,
         NEW l \in Locals, l.s = proc[w].s, l.att = proc[w].att,
         NEW next \in Steps \ {"claim"}, Goto(w, l, next) \/ Move(w, [l EXCEPT !.pc = next]),
         next \in Decided => row'[proc[w].s].status # "queued"
  PROVE  Served'
<1> DEFINE t == proc[w].s
<1>1. w \in Processes /\ t \in Sessions
  BY DEF Typed, SessionChosen, Waits, Processes, Callers
<1>2. /\ \A q \in Processes : q # w => proc'[q] = proc[q]
      /\ next = "idle" => proc'[w].pc = "idle"
      /\ next # "idle" => proc'[w].pc = next /\ proc'[w].s = t /\ proc'[w].att = l.att
  <2>1. CASE Goto(w, l, next)
    BY <1>1, <2>1, CalmGoto, IdleType
  <2>2. CASE Move(w, [l EXCEPT !.pc = next])
    BY <1>1, <2>2, MoveEffect DEF Locals
  <2>3. QED
    BY <2>1, <2>2
<1>3. \A v \in Workers : v # w => proc'[v] = proc[v] /\ (proc[v].s = t => Waits(v))
  BY <1>2, Alone DEF Processes, Callers
<1>4. HoldsLease(w) /\ queue[t].timer = "running"
  BY DEF Served, LeasesHeld, Waits
<1>5. Serves(w)'
  <2>1. CASE next = "idle"
    BY <1>2, <2>1 DEF Serves, Decided
  <2>2. CASE next # "idle"
    BY <1>2, <1>4, <2>2 DEF Serves, HoldsLease
  <2>3. QED
    BY <2>1, <2>2
<1>6. \A s \in Sessions : s # t => (row'[s].status = "queued" => row[s].status = "queued")
  BY <1>3, NewlyQueued
<1>7. queue'[t].status \notin {"completed", "dead_letter"}
  BY <1>4 DEF HoldsLease
<1>8. QED
  BY <1>1, <1>3, <1>5, <1>6, <1>7, ServeStep

\* The row of a decided worker's session is not queued by what is no requeuing.
LEMMA StaysDecided ==
  ASSUME Typed, NobodyWritesQueued, SnapshotsFit, OneToken, AttemptsDistinct, Served,
         CarefulStep, faults = 0,
         NEW w \in Workers, proc[w].pc \in Decided \ {"requeue"},
         \A v \in Workers : v # w => proc'[v] = proc[v]
  PROVE  row'[proc[w].s].status # "queued"
<1>1. proc[w].s \in Sessions /\ row[proc[w].s].status # "queued"
  BY DEF Typed, SessionChosen, Decided, Served, DecidedIsNotQueued, Processes, Callers
<1>2. QED
  BY <1>1, NewlyQueued

\* The start of a call by a worker.
LEMMA ServedStart ==
  ASSUME Typed, NobodyWritesQueued, SnapshotsFit, OneToken, AttemptsDistinct, Served,
         CarefulStep, faults = 0, faults' = 0,
         NEW w \in Workers, Start(w) \/ Provider(w)
  PROVE  Served'
<1> DEFINE t == proc[w].s
<1>1. /\ w \in Callers /\ w \in Processes /\ ~Waits(w) /\ proc[w] \in Locals
      /\ t \in Sessions /\ queue' = queue
  BY DEF Start, ReadSession, MarkInitiating, MarkFailed, RecordCall, Provider, CallCreated,
         CallRefused, Waits, Typed, TypeOK, SessionChosen, Processes, Callers
<1>2. row[t] \in Rows /\ proc[w].snap \in Rows /\ placed[t] + 1 \in Nat
  BY <1>1 DEF Typed, TypeOK, Locals
<1>3. ASSUME NEW l \in Locals, l.s = t, l.att = proc[w].att, NEW next \in Steps \ {"claim"},
             Goto(w, l, next) \/ Move(w, [l EXCEPT !.pc = next]),
             next \in Decided /\ proc[w].pc \notin Decided \ {"requeue"} => row'[t].status # "queued"
      PROVE  Served'
  <2>1. \A q \in Processes : q # w => proc'[q] = proc[q]
    BY <1>1, <1>3, CalmGoto, MoveEffect
  <2>2. \A v \in Workers : v # w => proc'[v] = proc[v]
    BY <2>1 DEF Processes, Callers
  <2>3. next \in Decided => row'[t].status # "queued"
    BY <1>3, <2>2, StaysDecided
  <2>4. QED
    BY <1>1, <1>3, <2>3, KeepStep
<1>4. CASE ReadSession(w)
  <2> DEFINE l == [proc[w] EXCEPT !.snap = row[t]]
             next == IF row[t].status = "queued" THEN "initiate" ELSE "recheck"
  <2>1. l \in Locals /\ l.s = t /\ l.att = proc[w].att
    BY <1>1, <1>2 DEF Locals
  <2>2. Goto(w, l, next) /\ row' = row
    BY <1>4 DEF ReadSession, OnInvalidOperation
  <2>3. next \in Steps \ {"claim"} /\ (next \in Decided => row'[t].status # "queued")
    BY <2>2 DEF Steps, Decided
  <2> HIDE DEF l, next
  <2>4. QED
    BY <1>3, <2>1, <2>2, <2>3
<1>5. CASE MarkInitiating(w)
  <2> DEFINE new == [proc[w].snap EXCEPT !.status = "initiating"]
             l == [proc[w] EXCEPT !.snap = new]
             next == IF Unchanged(w) THEN "request" ELSE "recheck"
  <2>1. new \in Rows /\ new.status = "initiating" /\ l \in Locals /\ l.s = t /\ l.att = proc[w].att
    BY <1>1, <1>2 DEF Locals, Rows, Statuses
  <2>2. Goto(w, l, next) /\ TryUpdate(w, new)
    BY <1>5 DEF MarkInitiating, OnInvalidOperation
  <2>3. proc[w].snap.status = "queued" /\ proc[w].snap.call = NoCall
    BY <1>1, <1>5 DEF MarkInitiating, NobodyWritesQueued, SnapshotsFit, Starting
  <2>4. row'[t].status # "queued"
    <3>1. CASE Unchanged(w)
      BY <1>1, <2>1, <2>2, <3>1, TryUpdateEffect
    <3>2. CASE ~Unchanged(w)
      BY <1>1, <2>1, <2>2, <2>3, <3>2, TryUpdateEffect DEF Unchanged, SnapshotsFit
    <3>3. QED
      BY <3>1, <3>2
  <2>5. next \in Steps \ {"claim"}
    BY DEF Steps
  <2> HIDE DEF l, next
  <2>6. QED
    BY <1>3, <2>1, <2>2, <2>4, <2>5
<1>6. CASE MarkFailed(w)
  <2>1. AfterFailure(w) \in Steps \ {"claim"} /\ Goto(w, proc[w], AfterFailure(w))
    BY <1>6 DEF MarkFailed, AfterFailure, Steps
  <2>2. proc[w].pc \in Decided \ {"requeue"}
    BY <1>6 DEF MarkFailed, Decided
  <2>3. QED
    BY <1>1, <1>3, <2>1, <2>2
<1>7. CASE RecordCall(w)
  <2>1. PICK next \in {"recheck", "complete"} : Goto(w, proc[w], next)
    BY <1>7 DEF RecordCall, OnInvalidOperation
  <2>2. proc[w].pc \in Decided \ {"requeue"} /\ next \in Steps \ {"claim"}
    BY <1>7 DEF RecordCall, Decided, Steps
  <2>3. QED
    BY <1>1, <1>3, <2>1, <2>2
<1>8. CASE Provider(w)
  <2>1. proc[w].pc \in Decided \ {"requeue"}
    BY <1>8 DEF Provider, CallCreated, CallRefused, Decided
  <2>2. CASE Move(w, [proc[w] EXCEPT !.pc = "record", !.call = placed[t] + 1])
    <3> DEFINE l == [proc[w] EXCEPT !.call = placed[t] + 1]
    <3>1. l \in Locals /\ l.s = t /\ l.att = proc[w].att /\ Move(w, [l EXCEPT !.pc = "record"])
      BY <1>1, <1>2, <2>2 DEF Locals
    <3> HIDE DEF l
    <3>2. QED
      BY <1>3, <2>1, <3>1 DEF Steps
  <2>3. ASSUME NEW e \in Errors, Move(w, [proc[w] EXCEPT !.pc = "fail", !.arg = e]) PROVE Served'
    <3> DEFINE l == [proc[w] EXCEPT !.arg = e]
    <3>1. l \in Locals /\ l.s = t /\ l.att = proc[w].att /\ Move(w, [l EXCEPT !.pc = "fail"])
      BY <1>1, <2>3 DEF Locals
    <3> HIDE DEF l
    <3>2. QED
      BY <1>3, <2>1, <3>1 DEF Steps
  <2>4. QED
    BY <1>8, <2>2, <2>3 DEF Provider, CallCreated, CallRefused
<1>9. QED
  BY <1>4, <1>5, <1>6, <1>7, <1>8 DEF Start

\* A worker that settles the row of its session is done with it.
LEMMA ServedSettle ==
  ASSUME Typed, NobodyWritesQueued, SnapshotsFit, OneToken, AttemptsDistinct, Served,
         CarefulStep, faults = 0, faults' = 0,
         NEW w \in Workers, MarkRetry(w) \/ MarkCompleted(w) \/ MarkDeadLetter(w)
  PROVE  Served'
<1> DEFINE t == proc[w].s
<1>1. /\ w \in Processes /\ ~Waits(w) /\ proc[w] \in Locals /\ t \in Sessions /\ row' = row
  BY DEF MarkRetry, MarkCompleted, MarkDeadLetter, Waits, Typed, TypeOK, SessionChosen,
         Processes, Callers
<1>2. HoldsLease(w)
  BY <1>1 DEF Served, LeasesHeld, Waits
<1>3. Goto(w, proc[w], "idle")
  BY <1>2 DEF MarkRetry, MarkCompleted, MarkDeadLetter
<1>4. proc'[w] = Idle /\ \A q \in Processes : q # w => proc'[q] = proc[q]
  BY <1>1, <1>3, CalmGoto DEF Steps
<1>5. \A v \in Workers : v # w => proc'[v] = proc[v] /\ (proc[v].s = t => Waits(v))
  BY <1>1, <1>4, Alone DEF Processes, Callers
<1>6. Serves(w)'
  BY <1>4, IdleType DEF Serves, Decided
<1>7. PICK status \in {"pending", "completed", "dead_letter"} :
        Settle(w, status) /\ (status # "pending" => proc[w].pc \in Decided)
  BY DEF MarkRetry, MarkCompleted, MarkDeadLetter, Decided
<1>8. queue' = [queue EXCEPT ![t].status = status, ![t].lock = 0, ![t].timer = "running"]
  BY <1>2, <1>7 DEF Settle
<1>9. queue'[t].status = status /\ \A s \in Sessions : s # t => queue'[s] = queue[s]
  BY <1>1, <1>8 DEF Typed, TypeOK, QueueRows
<1>10. proc[w].pc \in Decided => row[t].status # "queued"
  BY DEF Served, DecidedIsNotQueued
<1>11. row'[t].status = "queued" => queue'[t].status \notin {"completed", "dead_letter"}
  BY <1>1, <1>7, <1>9, <1>10
<1>12. QED
  BY <1>1, <1>5, <1>6, <1>9, <1>11, ServeStep

LEMMA ServedClaim ==
  ASSUME Typed, Served, faults = 0, faults' = 0, NEW w \in Workers, Claim(w)
  PROVE  Served'
<1>1. PICK t \in Sessions :
        /\ Claimable(t)
        /\ queue' = [queue EXCEPT ![t].status = "processing", ![t].attempts = queue[t].attempts + 1,
                                  ![t].lock = queue[t].attempts + 1, ![t].timer = "running"]
        /\ Goto(w, [proc[w] EXCEPT !.s = t, !.att = queue[t].attempts + 1], "read")
  BY DEF Claim
<1> DEFINE l == [proc[w] EXCEPT !.s = t, !.att = queue[t].attempts + 1]
<1>2. /\ w \in Processes /\ proc[w] \in Locals /\ queue[t] \in QueueRows
      /\ queue[t].attempts + 1 \in Nat /\ row' = row
  BY DEF Claim, Typed, TypeOK, QueueRows, Processes, Callers
<1>3. l \in Locals /\ l.s = t /\ l.att = queue[t].attempts + 1
  BY <1>2 DEF Locals
<1>4. Goto(w, l, "read")
  BY <1>1
<1> HIDE DEF l
<1>5. /\ \A q \in Processes : q # w => proc'[q] = proc[q]
      /\ proc'[w].pc = "read" /\ proc'[w].s = t /\ proc'[w].att = queue[t].attempts + 1
  BY <1>2, <1>3, <1>4, CalmGoto DEF Steps
<1>6. /\ queue'[t].status = "processing" /\ queue'[t].timer = "running"
      /\ queue'[t].lock = queue[t].attempts + 1
      /\ \A s \in Sessions : s # t => queue'[s] = queue[s]
  BY <1>1, <1>2 DEF Typed, TypeOK, QueueRows
<1>7. Serves(w)'
  BY <1>5, <1>6 DEF Serves, HoldsLease, Decided
<1>8. ASSUME NEW v \in Workers, v # w
      PROVE  proc'[v] = proc[v] /\ (proc[v].s = t => Waits(v))
  <2>1. ~Waits(v) => queue[proc[v].s].timer = "running"
    BY DEF Served, LeasesHeld, Waits
  <2>2. queue[t].timer = "over"
    BY <1>1 DEF Claimable
  <2>3. QED
    BY <1>5, <1>8, <2>1, <2>2 DEF Processes, Callers
<1>9. QED
  BY <1>2, <1>6, <1>7, <1>8, ServeStep

LEMMA ServedWorker ==
  ASSUME Typed, NobodyWritesQueued, SnapshotsFit, OneToken, AttemptsDistinct, Served,
         CarefulStep, faults = 0, faults' = 0, NEW w \in Workers, Worker(w)
  PROVE  Served'
<1>0. w \in Processes /\ proc[w] \in Locals
  BY DEF Typed, TypeOK, Processes, Callers
<1>1. CASE EnqueuePendingSessions(w)
  <2>1. /\ proc[w].pc = "idle" /\ Goto(w, proc[w], "claim") /\ row' = row
        /\ \A s \in Sessions : \/ queue'[s] = queue[s]
                               \/ queue[s].status = "absent" /\ queue'[s].status = "pending"
    BY <1>1 DEF EnqueuePendingSessions, NewQueueRow
  <2>2. proc'[w].pc = "claim" /\ \A q \in Processes : q # w => proc'[q] = proc[q]
    BY <1>0, <2>1, CalmGoto DEF Steps
  <2>3. Serves(w)'
    BY <2>2 DEF Serves, Decided
  <2>4. ASSUME NEW v \in Workers, v # w
        PROVE  proc'[v] = proc[v] /\ (proc[v].s = NoSession => Waits(v))
    BY <2>2, <2>4, SessionsAssumption DEF Typed, SessionChosen, Waits, Processes, Callers
  <2>5. QED
    BY <2>1, <2>3, <2>4, SessionsAssumption, ServeStep
<1>2. CASE Claim(w)
  BY <1>2, ServedClaim
<1>3. CASE ClaimNothing(w)
  <2>1. /\ proc'[w] = Idle /\ \A q \in Processes : q # w => proc'[q] = proc[q]
        /\ row' = row /\ queue' = queue
    BY <1>0, <1>3, MoveEffect DEF ClaimNothing
  <2>2. Serves(w)'
    BY <2>1, IdleType DEF Serves, Decided
  <2>3. ASSUME NEW v \in Workers, v # w
        PROVE  proc'[v] = proc[v] /\ (proc[v].s = NoSession => Waits(v))
    BY <2>1, <2>3, SessionsAssumption DEF Typed, SessionChosen, Waits, Processes, Callers
  <2>4. QED
    BY <2>1, <2>2, <2>3, SessionsAssumption, ServeStep
<1>4. CASE TryRequeue(w)
  <2> DEFINE t == proc[w].s
             revive == row[t].status = "failed" /\ row[t].call = NoCall
             next == IF revive THEN "retry" ELSE "dead"
  <2>1. proc[w].pc = "requeue" /\ Goto(w, proc[w], next) /\ queue' = queue
    BY <1>4 DEF TryRequeue
  <2>2. ~revive => row' = row
    BY <1>4 DEF TryRequeue
  <2>3. row[t].status # "queued"
    BY <2>1 DEF Served, DecidedIsNotQueued, Decided
  <2>4. next \in Steps \ {"claim"} /\ (next \in Decided => row'[t].status # "queued")
    BY <2>2, <2>3 DEF Steps, Decided
  <2>5. ~Waits(w)
    BY <2>1 DEF Waits
  <2> HIDE DEF next
  <2>6. QED
    BY <1>0, <2>1, <2>4, <2>5, KeepStep
<1>5. CASE Recheck(w)
  <2>1. /\ proc[w].pc = "recheck" /\ queue' = queue /\ row' = row
        /\ \E next \in {"dead", "settle"} : Goto(w, proc[w], next)
    BY <1>5 DEF Recheck
  <2>2. PICK next \in {"dead", "settle"} : Goto(w, proc[w], next)
    BY <2>1
  <2>3. ~Waits(w) /\ next \in Steps \ {"claim"} /\ row'[proc[w].s].status # "queued"
    BY <2>1 DEF Served, DecidedIsNotQueued, Decided, Waits, Steps
  <2>4. QED
    BY <1>0, <2>1, <2>2, <2>3, KeepStep
<1>6. QED
  BY <1>1, <1>2, <1>3, <1>4, <1>5, ServedSettle DEF Worker

\* What is no step of a worker, nor of time, leaves the queue and the workers alone.
LEMMA ServedOutside ==
  ASSUME Typed, NobodyWritesQueued, SnapshotsFit, OneToken, Served, CarefulStep,
         faults = 0, faults' = 0, queue' = queue, \A w \in Workers : proc'[w] = proc[w]
  PROVE  Served'
<1>1. \A s \in Sessions : row'[s].status = "queued" => row[s].status = "queued"
  BY NewlyQueued
<1>2. ASSUME NEW w \in Workers PROVE Serves(w)'
  <2>1. Serves(w) /\ proc'[w] = proc[w]
    BY ServedIs
  <2>2. proc[w].pc \in Decided => proc[w].s \in Sessions
    BY DEF Typed, SessionChosen, Decided, Processes, Callers
  <2>3. QED
    BY <1>1, <2>1, <2>2 DEF Serves, HoldsLease
<1>3. QED
  BY <1>1, <1>2, ServedIs, ServedIsNext

\* A lease does not run out while its worker is there, unless something fails.
LEMMA ServedTime ==
  ASSUME Typed, Served, faults = 0, faults' = 0, NEW t \in Sessions, Time(t)
  PROVE  Served'
<1>1. /\ proc' = proc /\ row' = row /\ queue' = [queue EXCEPT ![t].timer = "over"]
      /\ queue[t].status = "pending" \/ ~Held(t)
  BY DEF Time, BecomeDue, ExpireLease, Fault
<1>2. \A s \in Sessions : /\ queue'[s].status = queue[s].status /\ queue'[s].lock = queue[s].lock
                          /\ s # t => queue'[s] = queue[s]
  BY <1>1 DEF Typed, TypeOK, QueueRows
<1>3. ASSUME NEW w \in Workers PROVE Serves(w)'
  <2>1. Serves(w)
    BY ServedIs
  <2>2. CASE Waits(w)
    BY <1>1, <2>1, <2>2 DEF Serves, Waits, Decided
  <2>3. CASE ~Waits(w)
    <3>1. proc[w].s \in Sessions /\ HoldsLease(w)
      BY <2>1, <2>3 DEF Typed, SessionChosen, Serves, Waits, Processes, Callers
    <3>2. proc[w].s # t
      BY <1>1, <3>1 DEF HoldsLease, Held
    <3>3. QED
      BY <1>1, <1>2, <2>1, <3>1, <3>2 DEF Serves, HoldsLease
  <2>4. QED
    BY <2>2, <2>3
<1>4. QED
  BY <1>1, <1>2, <1>3, ServedIs, ServedIsNext

LEMMA ServedInit == Init => Served
BY DEF Init, Served, LeasesHeld, DecidedIsNotQueued, QueuedIsServed, Decided, Idle,
       NoQueueRow, Processes, Callers

LEMMA ServedNext ==
  ASSUME Typed, NobodyWritesQueued, SnapshotsFit, OneToken, AttemptsDistinct, Served, CarefulStep
  PROVE  Served'
<1>1. CASE faults' # 0
  BY <1>1 DEF Served, LeasesHeld, DecidedIsNotQueued, QueuedIsServed
<1>2. CASE faults' = 0
  <2>1. faults = 0 /\ ~Fault
    BY <1>2, FaultsGrow DEF CarefulStep, Fault, Typed, TypeOK
  <2>2. ASSUME queue' = queue, \A w \in Workers : proc'[w] = proc[w] PROVE Served'
    BY <1>2, <2>1, <2>2, ServedOutside
  <2>3. ASSUME NEW p \in Callers, Start(p) \/ Provider(p) PROVE Served'
    <3>1. CASE p \in Workers
      BY <1>2, <2>1, <2>3, <3>1, ServedStart
    <3>2. CASE p \notin Workers
      <4>1. queue' = queue
        BY <2>3 DEF Start, ReadSession, MarkInitiating, MarkFailed, RecordCall,
                    Provider, CallCreated, CallRefused
      <4>2. \E l : Move(p, l)
        BY <2>3 DEF Start, ReadSession, MarkInitiating, MarkFailed, RecordCall,
                    Provider, CallCreated, CallRefused, Goto
      <4>3. \A w \in Workers : proc'[w] = proc[w]
        BY <3>2, <4>2, MoveEffect DEF Processes, Callers
      <4>4. QED
        BY <2>2, <4>1, <4>3
    <3>3. QED
      BY <3>1, <3>2
  <2>4. ASSUME NEW p \in (Starters \cup Editors \cup Webhooks),
               queue' = queue, NEW l, Move(p, l)
        PROVE  Served'
    <3>1. p \in Processes /\ p \notin Workers
      BY ProcessesAssumption DEF Processes, Callers
    <3>2. \A w \in Workers : proc'[w] = proc[w]
      BY <2>4, <3>1, MoveEffect DEF Processes, Callers
    <3>3. QED
      BY <2>2, <2>4, <3>2
  <2>5. ASSUME NEW c \in Starters, NEW s \in Sessions, StartRequest(c, s) PROVE Served'
    BY <2>4, <2>5 DEF StartRequest
  <2>6. ASSUME NEW e \in Editors, NEW s \in Sessions, NEW edit \in Edits, EditRequest(e, s, edit)
        PROVE  Served'
    BY <2>4, <2>6 DEF EditRequest, Goto
  <2>7. ASSUME NEW e \in Editors, WriteEdit(e) PROVE Served'
    BY <2>4, <2>7 DEF WriteEdit
  <2>8. ASSUME NEW h \in Webhooks, NEW s \in Sessions, NEW word \in Words, StatusCallback(h, s, word)
        PROVE  Served'
    BY <2>4, <2>8 DEF StatusCallback, Goto
  <2>9. ASSUME NEW h \in Webhooks, ApplyCallback(h) PROVE Served'
    BY <2>4, <2>9 DEF ApplyCallback
  <2>10. ASSUME NEW p \in Processes, DatabaseError(p) \/ Crash(p) PROVE Served'
    BY <2>1, <2>10 DEF DatabaseError, Crash
  <2>11. CASE NextWithOutcome
    BY <1>2, <2>1, <2>3, <2>5, <2>6, <2>7, <2>8, <2>9, <2>10, <2>11, ServedWorker, ServedTime
       DEF NextWithOutcome, Next, OutcomeRequest, Edits
  <2>12. QED
    BY <2>2, <2>11 DEF CarefulStep, vars
<1>3. QED
  BY <1>1, <1>2

\* The conjunction that is inductive.
LEMMA Inductive == /\ Init => OutcomeInv
                   /\ OutcomeInv /\ CarefulStep => OutcomeInv'
<1>1. Init => OutcomeInv
  BY TypedInit, NobodyInit, SnapshotsInit, TokenInit, BudgetInit, ServedInit
     DEF Typed, Budgeted, Served, OutcomeInv
<1>2. ASSUME OutcomeInv, CarefulStep PROVE OutcomeInv'
  <2>1. Typed /\ NobodyWritesQueued /\ SnapshotsFit /\ OneToken /\ Budgeted /\ Served
    BY <1>2 DEF OutcomeInv, Typed, Budgeted, Served
  <2>2. PICK t : Moved(t)
    BY <1>2, <2>1, MovedStep
  <2>3. Typed' /\ NobodyWritesQueued' /\ SnapshotsFit'
    BY <1>2, <2>1, TypedStep, NobodyStep, SnapshotsStep DEF CarefulStep
  <2>4. OneToken' /\ AttemptsDistinct' /\ RequestsPaid'
    BY <1>2, <2>1, <2>2, <2>3, TokenStep, DistinctStep, PaidStep DEF CarefulStep, Typed, Budgeted
  <2>5. Served'
    BY <1>2, <2>1, ServedNext DEF Budgeted
  <2>6. QED
    BY <2>3, <2>4, <2>5 DEF OutcomeInv, Typed, Served
<1>3. QED
  BY <1>1, <1>2

LEMMA CarefulInv == CarefulSpec => []OutcomeInv
BY Inductive, PTL DEF CarefulSpec, SpecWithOutcome, CarefulStep

-------------------------------------------------------------------------------
(* Without POST /outcome editors only finish sessions, so no start is      *)
(* taken back.                                                             *)

LEMMA FinishStep ==
  ASSUME Typed, EditorsFinish, [Next]_vars
  PROVE  EditorsFinish'
<1>1. CASE UNCHANGED vars
  BY <1>1 DEF vars, EditorsFinish
<1>2. ASSUME NEW p \in Processes, NEW l, Move(p, l),
             p \in Editors /\ l.pc = "edit" => l.arg \in {"completed", "failed"}
      PROVE  EditorsFinish'
  BY <1>2, MoveEffect DEF EditorsFinish, Processes
<1>3. ASSUME NEW p \in Callers, Start(p) \/ Provider(p) \/ (p \in Workers /\ Worker(p))
      PROVE  EditorsFinish'
  <2>1. p \in Processes /\ p \notin Editors
    BY ProcessesAssumption DEF Processes
  <2>2. \E l : Move(p, l)
    BY <1>3 DEF Start, ReadSession, MarkInitiating, MarkFailed, RecordCall, Provider, CallCreated,
                CallRefused, Worker, EnqueuePendingSessions, Claim, ClaimNothing, TryRequeue,
                MarkRetry, MarkCompleted, MarkDeadLetter, Recheck, Goto
  <2>3. QED
    BY <1>2, <2>1, <2>2
<1>4. ASSUME NEW e \in Editors, NEW s \in Sessions, NEW edit \in {"completed", "failed"},
             EditRequest(e, s, edit)
      PROVE  EditorsFinish'
  <2> DEFINE l == [Idle EXCEPT !.s = s, !.snap = row[s], !.arg = edit]
  <2>1. l \in Locals /\ l.arg = edit /\ e \in Processes
    BY IdleType DEF Locals, Typed, TypeOK, Edits, Processes
  <2>2. Goto(e, l, "edit")
    BY <1>4 DEF EditRequest
  <2> HIDE DEF l
  <2>3. /\ \A q \in Processes : q # e => proc'[q] = proc[q]
        /\ \/ proc'[e] = Idle
           \/ proc'[e] = [l EXCEPT !.pc = "edit"]
           \/ proc'[e] = [l EXCEPT !.pc = "dead"]
    BY <2>1, <2>2, GotoEffect DEF Steps
  <2>4. proc'[e].pc = "edit" => proc'[e].arg = edit
    BY <2>1, <2>3, IdleType DEF Locals
  <2>5. QED
    BY <1>4, <2>3, <2>4 DEF EditorsFinish, Processes
<1>5. ASSUME NEW c \in Starters, NEW s \in Sessions, StartRequest(c, s)
      PROVE  EditorsFinish'
  <2>1. c \in Processes /\ c \notin Editors
    BY ProcessesAssumption DEF Processes, Callers
  <2>2. QED
    BY <1>2, <1>5, <2>1 DEF StartRequest
<1>6. ASSUME NEW e \in Editors, WriteEdit(e) PROVE EditorsFinish'
  BY <1>2, <1>6, IdleType DEF WriteEdit, Processes
<1>7. ASSUME NEW h \in Webhooks,
             ApplyCallback(h) \/ \E s \in Sessions, word \in Words : StatusCallback(h, s, word)
      PROVE  EditorsFinish'
  <2>1. h \in Processes /\ h \notin Editors
    BY ProcessesAssumption DEF Processes
  <2>2. \E l : Move(h, l)
    BY <1>7 DEF ApplyCallback, StatusCallback, Goto
  <2>3. QED
    BY <1>2, <2>1, <2>2
<1>8. ASSUME NEW s \in Sessions, Time(s) PROVE EditorsFinish'
  BY <1>8 DEF Time, BecomeDue, ExpireLease, EditorsFinish
<1>9. ASSUME NEW p \in Processes, DatabaseError(p) \/ Crash(p) PROVE EditorsFinish'
  <2>1. proc[p] \in Locals
    BY DEF Typed, TypeOK
  <2>2. \E l : l.pc \in {"dead", "idle"} /\ Move(p, l)
    BY <1>9, <2>1, IdleType DEF DatabaseError, Crash, OnDatabaseError, AtStep, Locals
  <2>3. QED
    BY <1>2, <2>2
<1>10. CASE Next
  BY <1>3, <1>4, <1>5, <1>6, <1>7, <1>8, <1>9, <1>10 DEF Next, Callers
<1>11. QED
  BY <1>1, <1>10

\* A session completed or failed by its editor is not put back.
LEMMA FinishKeeps == ASSUME Typed, EditorsFinish PROVE KeepsStarts
<1>1. SUFFICES ASSUME NEW e \in Editors, WriteEdit(e)
               PROVE  Edited(proc[e].snap, proc[e].arg).status # "queued"
  BY DEF KeepsStarts
<1>2. proc[e].snap \in Rows /\ proc[e].arg \in {"completed", "failed"}
  BY <1>1 DEF WriteEdit, EditorsFinish, Typed, TypeOK, Locals, Processes
<1>3. QED
  BY <1>2 DEF Edited, Rows

\* What is said of CarefulSpec holds of the dispatch without POST /outcome.
THEOREM SpecIsCareful == Spec => CarefulSpec /\ []EditorsFinish
<1> DEFINE Inv == Typed /\ NobodyWritesQueued /\ EditorsFinish
<1>1. Init => Inv
  BY TypedInit, NobodyInit DEF Init, EditorsFinish, Idle, Processes
<1>2. [Next]_vars => [NextWithOutcome]_vars
  BY DEF NextWithOutcome
<1>3. Inv /\ [Next]_vars => Inv'
  BY <1>2, TypedStep, NobodyStep, FinishStep
<1>4. Inv => KeepsStarts
  BY FinishKeeps
<1>5. QED
  BY <1>1, <1>2, <1>3, <1>4, PTL DEF Spec, CarefulSpec, SpecWithOutcome

-------------------------------------------------------------------------------
(* What holds of every state                                               *)

LEMMA RequestsLimit == OutcomeInv => RequestsBounded
<1>1. ASSUME OutcomeInv, NEW s \in Sessions PROVE requests[s] <= MaxAttempts
  <2>1. retried[s] \subseteq 1..(MaxAttempts - 1) /\ MaxAttempts - 1 \in Nat
    BY <1>1, BoundsAssumption DEF OutcomeInv, RequestsPaid
  <2>2. Cardinality(retried[s]) \in Nat /\ Cardinality(retried[s]) <= MaxAttempts - 1
    BY <2>1, Counted
  <2>3. requests[s] <= Cardinality(retried[s]) + 1 /\ requests[s] \in Nat
    BY <1>1, <2>2 DEF OutcomeInv, RequestsPaid, TypeOK
  <2>4. QED
    BY <2>2, <2>3, BoundsAssumption
<1>2. QED
  BY <1>1 DEF RequestsBounded

\* What the other theorems rest on holds of every reachable state: who may start
\* a session, who may write "queued", and which 429 paid for which request.
THEOREM InvariantHolds == Spec => []IInv
BY CarefulInv, SpecIsCareful, PTL DEF IInv

\* No session is ever called twice: not after a crash, a lost reply, a lease
\* that ran out during the request, a retry after a 429, or an edit of the
\* status between two steps of a start.
THEOREM AtMostOneCall == Spec => []AtMostOneCallPlaced
<1>1. OutcomeInv => AtMostOneCallPlaced
  BY DEF OutcomeInv, OneToken, AtMostOneCallPlaced
<1>2. QED
  BY <1>1, CarefulInv, SpecIsCareful, PTL

\* A session costs at most MaxAttempts requests, however often its queue row
\* is claimed again after a crash and whoever else starts it.
THEOREM RequestsAreBounded == Spec => []RequestsBounded
BY RequestsLimit, CarefulInv, SpecIsCareful, PTL

\* Nothing is lost while nothing fails: no session that still waits to be started
\* has a settled queue row, whoever else starts, edits or calls back meanwhile.
THEOREM QueuedAreServed == Spec => []QueuedIsServed
<1>1. OutcomeInv => QueuedIsServed
  BY DEF OutcomeInv
<1>2. QED
  BY <1>1, CarefulInv, SpecIsCareful, PTL

-------------------------------------------------------------------------------
(* A queue row is completed only when its session was started.             *)

Writing == Starting \cup {"hook"}

\* A start and a callback write what they held before or have just read, and
\* that was not over.
Holds(p) ==
  proc'[p].pc \in Writing =>
    \/ proc[p].pc \in Writing /\ proc'[p].snap.failure = proc[p].snap.failure
    \/ \E s \in Sessions : row[s].status \notin Terminal /\ proc'[p].snap = row[s]

LEMMA HoldsStart ==
  ASSUME Typed, NEW p \in Callers, Start(p) \/ Provider(p)
  PROVE  Holds(p)
<1>1. p \in Processes /\ proc[p] \in Locals /\ proc[p].snap \in Rows
  BY DEF Typed, TypeOK, Processes, Locals
<1>2. CASE ReadSession(p)
  <2> DEFINE s == proc[p].s
             l == [proc[p] EXCEPT !.snap = row[s]]
             next == IF row[s].status = "queued" THEN "initiate" ELSE OnInvalidOperation(p)
  <2>1. s \in Sessions /\ row[s] \in Rows
    BY <1>1, <1>2 DEF ReadSession, Typed, TypeOK, SessionChosen
  <2>2. l \in Locals /\ l.snap = row[s]
    BY <1>1, <2>1 DEF Locals
  <2>3. Goto(p, l, next) /\ next \in Steps
    BY <1>2 DEF ReadSession, OnInvalidOperation, Steps
  <2>4. next \in Writing => row[s].status \notin Terminal
    BY DEF Writing, Starting, OnInvalidOperation, Terminal
  <2> HIDE DEF l, next
  <2>5. proc'[p].pc \in Writing => proc'[p].pc = next /\ proc'[p].snap = row[s]
    <3>1. \/ proc'[p] = Idle
          \/ proc'[p] = [l EXCEPT !.pc = next]
          \/ proc'[p] = [l EXCEPT !.pc = "dead"]
      BY <1>1, <2>2, <2>3, GotoEffect
    <3>2. QED
      BY <2>2, <3>1, IdleType DEF Locals, Writing, Starting
  <2>6. QED
    BY <2>1, <2>4, <2>5 DEF Holds
<1>3. CASE MarkInitiating(p)
  <2> DEFINE new == [proc[p].snap EXCEPT !.status = "initiating"]
             l == [proc[p] EXCEPT !.snap = new]
             next == IF Unchanged(p) THEN "request" ELSE OnInvalidOperation(p)
  <2>1. new \in Rows /\ new.failure = proc[p].snap.failure
    BY <1>1 DEF Rows, Statuses
  <2>2. l \in Locals /\ l.snap.failure = proc[p].snap.failure
    BY <1>1, <2>1 DEF Locals
  <2>3. Goto(p, l, next) /\ next \in Steps /\ proc[p].pc = "initiate"
    BY <1>3 DEF MarkInitiating, OnInvalidOperation, Steps
  <2> HIDE DEF l, next
  <2>4. \/ proc'[p] = Idle
        \/ proc'[p] = [l EXCEPT !.pc = next]
        \/ proc'[p] = [l EXCEPT !.pc = "dead"]
    BY <1>1, <2>2, <2>3, GotoEffect
  <2>5. QED
    BY <2>2, <2>3, <2>4, IdleType DEF Holds, Locals, Writing, Starting
<1>4. CASE MarkFailed(p) \/ RecordCall(p)
  <2>1. PICK next \in {"idle", "requeue", "recheck", "dead", "complete"} : Goto(p, proc[p], next)
    BY <1>4 DEF MarkFailed, AfterFailure, RecordCall, OnInvalidOperation
  <2>2. next \in Steps
    BY DEF Steps
  <2>3. \/ proc'[p] = Idle
        \/ proc'[p] = [proc[p] EXCEPT !.pc = next]
        \/ proc'[p] = [proc[p] EXCEPT !.pc = "dead"]
    BY <1>1, <2>1, <2>2, GotoEffect
  <2>4. QED
    BY <1>1, <2>3, IdleType DEF Holds, Locals, Writing, Starting
<1>5. CASE Provider(p)
  <2>1. proc[p].pc = "request"
    BY <1>5 DEF Provider, CallCreated, CallRefused
  <2>2. \/ Move(p, [proc[p] EXCEPT !.pc = "record", !.call = placed[proc[p].s] + 1])
        \/ \E e \in Errors : Move(p, [proc[p] EXCEPT !.pc = "fail", !.arg = e])
    BY <1>5 DEF Provider, CallCreated, CallRefused
  <2>3. PICK l : l.snap = proc[p].snap /\ Move(p, l)
    <3>1. \A n : [proc[p] EXCEPT !.pc = "record", !.call = n].snap = proc[p].snap
      BY <1>1 DEF Locals
    <3>2. \A e : [proc[p] EXCEPT !.pc = "fail", !.arg = e].snap = proc[p].snap
      BY <1>1 DEF Locals
    <3>3. QED
      BY <2>2, <3>1, <3>2
  <2>4. proc'[p].snap = proc[p].snap
    BY <1>1, <2>3, MoveEffect
  <2>5. QED
    BY <2>1, <2>4 DEF Holds, Writing, Starting
<1>6. QED
  BY <1>2, <1>3, <1>4, <1>5 DEF Start

LEMMA HoldsStep ==
  ASSUME Typed, [NextWithOutcome]_vars, NEW q \in Processes
  PROVE  Holds(q)
<1>0. proc[q] \in Locals
  BY DEF Typed, TypeOK
<1>1. CASE proc'[q] = proc[q]
  BY <1>1 DEF Holds
<1>2. ASSUME NEW p \in Processes, NEW l, Move(p, l), p = q => Holds(q) PROVE Holds(q)
  BY <1>1, <1>2, MoveEffect
<1>3. ASSUME NEW p \in Processes, NEW l \in Locals, NEW next \in Steps \ Writing, Goto(p, l, next)
      PROVE  Holds(q)
  <2>1. /\ p # q => proc'[q] = proc[q]
        /\ \/ proc'[p] = Idle
           \/ proc'[p] = [l EXCEPT !.pc = next]
           \/ proc'[p] = [l EXCEPT !.pc = "dead"]
    BY <1>3, GotoEffect
  <2>2. proc'[p].pc \notin Writing
    BY <1>3, <2>1, IdleType DEF Locals, Writing, Starting
  <2>3. QED
    BY <1>1, <2>1, <2>2 DEF Holds
<1>4. ASSUME NEW p \in Processes, NEW l, Move(p, l), l.pc \notin Writing PROVE Holds(q)
  BY <1>2, <1>4, MoveEffect DEF Holds
<1>5. ASSUME NEW p \in Callers, Start(p) \/ Provider(p) PROVE Holds(q)
  <2>1. \E l : Move(p, l)
    BY <1>5 DEF Start, ReadSession, MarkInitiating, MarkFailed, RecordCall,
                Provider, CallCreated, CallRefused, Goto
  <2>2. QED
    BY <1>2, <1>5, <2>1, HoldsStart DEF Processes
<1>6. ASSUME NEW w \in Workers, Worker(w) PROVE Holds(q)
  <2>0. w \in Processes /\ proc[w] \in Locals
    BY DEF Typed, TypeOK, Processes, Callers
  <2>1. CASE Claim(w)
    <3>1. PICK s \in Sessions : Goto(w, [proc[w] EXCEPT !.s = s, !.att = queue[s].attempts + 1], "read")
      BY <2>1 DEF Claim
    <3> DEFINE l == [proc[w] EXCEPT !.s = s, !.att = queue[s].attempts + 1]
    <3>2. queue[s].attempts + 1 \in Nat
      BY DEF Typed, TypeOK, QueueRows
    <3>3. l \in Locals /\ Goto(w, l, "read")
      BY <2>0, <3>1, <3>2 DEF Locals
    <3> HIDE DEF l
    <3>4. QED
      BY <1>3, <2>0, <3>3 DEF Steps, Writing, Starting
  <2>2. CASE ClaimNothing(w)
    BY <1>4, <2>0, <2>2, IdleType DEF ClaimNothing, Writing, Starting
  <2>3. CASE \E next \in {"claim", "retry", "dead", "idle", "recheck", "settle"} : Goto(w, proc[w], next)
    BY <1>3, <2>0, <2>3 DEF Steps, Writing, Starting
  <2>4. QED
    BY <1>6, <2>1, <2>2, <2>3
       DEF Worker, EnqueuePendingSessions, TryRequeue, MarkRetry, MarkCompleted, MarkDeadLetter, Recheck
<1>7. ASSUME NEW c \in Starters, NEW s \in Sessions, StartRequest(c, s) PROVE Holds(q)
  <2>1. [Idle EXCEPT !.pc = "read", !.s = s].pc \notin Writing
    BY IdleType DEF Locals, Writing, Starting
  <2>2. QED
    BY <1>4, <1>7, <2>1 DEF StartRequest, Processes, Callers
<1>8. ASSUME NEW e \in Editors, NEW s \in Sessions, NEW edit \in Edits, EditRequest(e, s, edit)
      PROVE  Holds(q)
  <2> DEFINE l == [Idle EXCEPT !.s = s, !.snap = row[s], !.arg = edit]
  <2>1. l \in Locals
    BY IdleType DEF Typed, TypeOK, Locals
  <2>2. Goto(e, l, "edit")
    BY <1>8 DEF EditRequest
  <2> HIDE DEF l
  <2>3. QED
    BY <1>3, <2>1, <2>2 DEF Steps, Writing, Starting, Processes
<1>9. ASSUME NEW h \in Webhooks, NEW s \in Sessions, NEW word \in Words, StatusCallback(h, s, word)
      PROVE  Holds(q)
  <2> DEFINE l == [Idle EXCEPT !.s = s, !.snap = row[s], !.arg = MappedStatus(word)]
  <2>1. MappedStatus(word) \in Statuses /\ CanApplyProviderStatus(row[s].status, MappedStatus(word))
    BY <1>9, MappedStatusType DEF StatusCallback
  <2>2. l \in Locals /\ l.snap = row[s] /\ row[s].status \notin Terminal
    <3>1. row[s] \in Rows /\ l \in Locals /\ l.snap = row[s]
      BY <2>1, IdleType DEF Typed, TypeOK, Locals
    <3>2. row[s].status \notin Terminal
      BY <2>1 DEF CanApplyProviderStatus, Terminal
    <3>3. QED
      BY <3>1, <3>2
  <2>3. Goto(h, l, "hook") /\ h \in Processes
    BY <1>9 DEF StatusCallback, Processes
  <2> HIDE DEF l
  <2>4. /\ h # q => proc'[q] = proc[q]
        /\ \/ proc'[h] = Idle
           \/ proc'[h] = [l EXCEPT !.pc = "hook"]
           \/ proc'[h] = [l EXCEPT !.pc = "dead"]
    BY <2>2, <2>3, GotoEffect DEF Steps
  <2>5. proc'[h].pc \in Writing => proc'[h].snap = row[s]
    BY <2>2, <2>4, IdleType DEF Locals, Writing, Starting
  <2>6. QED
    BY <1>1, <2>2, <2>4, <2>5 DEF Holds
<1>10. ASSUME NEW p \in Editors \cup Webhooks, WriteEdit(p) \/ ApplyCallback(p) PROVE Holds(q)
  BY <1>4, <1>10, IdleType DEF WriteEdit, ApplyCallback, Processes, Writing, Starting
<1>11. ASSUME NEW s \in Sessions, Time(s) PROVE Holds(q)
  BY <1>1, <1>11 DEF Time, BecomeDue, ExpireLease
<1>12. ASSUME NEW p \in Processes, DatabaseError(p) \/ Crash(p) PROVE Holds(q)
  <2>1. proc[p] \in Locals
    BY DEF Typed, TypeOK
  <2>2. \E l : l.pc \in {"dead", "idle"} /\ Move(p, l)
    BY <1>12, <2>1, IdleType DEF DatabaseError, Crash, OnDatabaseError, AtStep, Locals
  <2>3. QED
    BY <1>4, <2>2 DEF Writing, Starting
<1>13. CASE NextWithOutcome
  BY <1>5, <1>6, <1>7, <1>8, <1>9, <1>10, <1>11, <1>12, <1>13
     DEF NextWithOutcome, Next, OutcomeRequest, Edits
<1>14. QED
  BY <1>1, <1>13 DEF vars

\* s is being failed by the process that started it.
Failing(s) == \E p \in Callers : proc[p].pc = "fail" /\ proc[p].s = s

\* A row comes to say that the provider failed only from a start that fails it.
LEMMA FailedRow ==
  ASSUME Typed, EditorsFinish, FailuresFit, [NextWithOutcome]_vars, NEW s \in Sessions
  PROVE  \/ row'[s] = row[s]
         \/ row'[s].failure # "provider"
         \/ row'[s].status = "completed"
         \/ row'[s].status = "failed" /\ Failing(s)
<1> DEFINE Goal == \/ row'[s] = row[s]
                   \/ row'[s].failure # "provider"
                   \/ row'[s].status = "completed"
                   \/ row'[s].status = "failed" /\ Failing(s)
<1>1. CASE row' = row
  BY <1>1
<1>2. ASSUME NEW p \in Processes, NEW new \in Rows, TryUpdate(p, new), new.failure # "provider"
      PROVE  Goal
  BY <1>2, TryUpdateRow
<1>3. ASSUME NEW p \in Callers, Start(p) \/ Provider(p) PROVE Goal
  <2> DEFINE snap == proc[p].snap
  <2>1. p \in Processes /\ snap \in Rows /\ proc[p].call \in Nat
    BY DEF Typed, TypeOK, Locals, Processes
  <2>2. CASE MarkInitiating(p)
    <3> DEFINE new == [snap EXCEPT !.status = "initiating"]
    <3>1. snap.failure # "provider"
      BY <2>1, <2>2 DEF MarkInitiating, FailuresFit, Starting
    <3>2. new \in Rows /\ new.failure # "provider"
      BY <2>1, <3>1 DEF Rows, Statuses
    <3>3. TryUpdate(p, new)
      BY <2>2 DEF MarkInitiating
    <3> HIDE DEF new
    <3>4. QED
      BY <1>2, <2>1, <3>2, <3>3
  <2>3. CASE RecordCall(p)
    <3> DEFINE new == [snap EXCEPT !.call = proc[p].call]
    <3>1. snap.failure # "provider"
      BY <2>1, <2>3 DEF RecordCall, FailuresFit, Starting
    <3>2. new \in Rows /\ new.failure # "provider"
      BY <2>1, <3>1 DEF Rows
    <3>3. TryUpdate(p, new)
      BY <2>3 DEF RecordCall
    <3> HIDE DEF new
    <3>4. QED
      BY <1>2, <2>1, <3>2, <3>3
  <2>4. CASE MarkFailed(p)
    <3> DEFINE new == [snap EXCEPT !.status = "failed", !.failure = "provider"]
    <3>1. new \in Rows /\ new.status = "failed"
      BY <2>1 DEF Rows, Statuses
    <3>2. TryUpdate(p, new) /\ proc[p].pc = "fail"
      BY <2>4 DEF MarkFailed
    <3> HIDE DEF new
    <3>3. CASE proc[p].s = s
      BY <2>1, <3>1, <3>2, <3>3, TryUpdateRow DEF Failing
    <3>4. CASE proc[p].s # s
      BY <2>1, <3>1, <3>2, <3>4, TryUpdateEffect
    <3>5. QED
      BY <3>3, <3>4
  <2>5. CASE ReadSession(p) \/ Provider(p)
    BY <1>1, <2>5 DEF ReadSession, Provider, CallCreated, CallRefused
  <2>6. QED
    BY <1>3, <2>2, <2>3, <2>4, <2>5 DEF Start
<1>4. ASSUME NEW w \in Workers, Worker(w) PROVE Goal
  <2>1. CASE TryRequeue(w)
    <3> DEFINE u == proc[w].s
    <3>1. \/ row' = row
          \/ row' = [row EXCEPT ![u].status = "queued", ![u].failure = "none"]
      BY <2>1 DEF TryRequeue
    <3>2. row \in [Sessions -> Rows]
      BY DEF Typed, TypeOK
    <3>3. s # u => row'[s] = row[s]
      BY <3>1, <3>2
    <3>4. s = u => row' = row \/ row'[s].failure = "none"
      BY <3>1, <3>2 DEF Rows
    <3>5. QED
      BY <1>1, <3>3, <3>4
  <2>2. CASE ~TryRequeue(w)
    BY <1>1, <1>4, <2>2 DEF Worker, EnqueuePendingSessions, Claim, ClaimNothing, MarkRetry,
                            MarkCompleted, MarkDeadLetter, Recheck
  <2>3. QED
    BY <2>1, <2>2
<1>5. ASSUME NEW e \in Editors, WriteEdit(e) PROVE Goal
  <2> DEFINE new == Edited(proc[e].snap, proc[e].arg)
  <2>1. /\ proc[e].snap \in Rows /\ proc[e].arg \in {"completed", "failed"}
        /\ row' = [row EXCEPT ![proc[e].s] = new]
    BY <1>5 DEF WriteEdit, EditorsFinish, Typed, TypeOK, Locals, Processes
  <2>2. new.status = "completed" \/ new.failure = "operator"
    BY <2>1 DEF Edited, Rows
  <2> HIDE DEF new
  <2>3. row'[s] = row[s] \/ row'[s] = new
    BY <2>1 DEF Typed, TypeOK
  <2>4. QED
    BY <2>2, <2>3
<1>6. ASSUME NEW h \in Webhooks, ApplyCallback(h) PROVE Goal
  <2> DEFINE new == [proc[h].snap EXCEPT !.status = proc[h].arg]
  <2>1. h \in Processes /\ proc[h].snap \in Rows /\ TryUpdate(h, new)
    BY <1>6 DEF ApplyCallback, Typed, TypeOK, Locals, Processes
  <2>2. proc[h].snap.failure # "provider"
    BY <1>6, <2>1 DEF ApplyCallback, FailuresFit
  <2>3. new.failure # "provider"
    BY <2>1, <2>2 DEF Rows
  <2> HIDE DEF new
  <2>4. row'[s] = row[s] \/ row'[s] = new
    BY <2>1 DEF TryUpdate, Typed, TypeOK
  <2>5. QED
    BY <2>3, <2>4
<1>7. CASE \/ \E c \in Starters, u \in Sessions : StartRequest(c, u)
           \/ \E e \in Editors, u \in Sessions, edit \in Edits : EditRequest(e, u, edit)
           \/ \E h \in Webhooks, u \in Sessions, word \in Words : StatusCallback(h, u, word)
           \/ \E u \in Sessions : Time(u)
           \/ \E p \in Processes : DatabaseError(p) \/ Crash(p)
  <2>1. row' = row
    BY <1>7 DEF StartRequest, EditRequest, StatusCallback, Time, BecomeDue, ExpireLease,
                DatabaseError, Crash
  <2>2. QED
    BY <1>1, <2>1
<1>8. CASE NextWithOutcome
  BY <1>3, <1>4, <1>5, <1>6, <1>7, <1>8 DEF NextWithOutcome, Next, OutcomeRequest, Edits
<1>9. QED
  BY <1>1, <1>8 DEF vars

\* What was true of failures stays so.
LEMMA FailuresStep ==
  ASSUME Typed, EditorsFinish, FailuresFit, [NextWithOutcome]_vars
  PROVE  FailuresFit'
<1>1. ASSUME NEW s \in Sessions, row'[s].failure = "provider" PROVE row'[s].status \in Terminal
  BY <1>1, FailedRow DEF FailuresFit, Terminal
<1>2. ASSUME NEW p \in Processes, proc'[p].pc \in Writing PROVE proc'[p].snap.failure # "provider"
  <2>1. \/ proc[p].pc \in Writing /\ proc'[p].snap.failure = proc[p].snap.failure
        \/ \E s \in Sessions : row[s].status \notin Terminal /\ proc'[p].snap = row[s]
    BY <1>2, HoldsStep DEF Holds
  <2>2. QED
    BY <2>1 DEF FailuresFit, Writing
<1>3. QED
  BY <1>1, <1>2 DEF FailuresFit, Writing

Completing == {"complete", "settle"}

\* ProviderFailed in the next state
FailedNext(s) == row'[s].status = "failed" /\ row'[s].failure = "provider"

\* A queue row is completed by a worker that means to.
LEMMA NewlyCompleted ==
  ASSUME Typed, [NextWithOutcome]_vars, NEW s \in Sessions,
         queue'[s].status = "completed", queue[s].status # "completed"
  PROVE  row' = row /\ \E w \in Workers : proc[w].pc \in Completing /\ proc[w].s = s
<1> DEFINE Goal == row' = row /\ \E w \in Workers : proc[w].pc \in Completing /\ proc[w].s = s
<1>0. queue \in [Sessions -> QueueRows] /\ queue' # queue
  BY DEF Typed, TypeOK
<1>1. ASSUME NEW w \in Workers, NEW status, Settle(w, status)
      PROVE  proc[w].s = s /\ status = "completed"
  <2>1. queue' = [queue EXCEPT ![proc[w].s].status = status, ![proc[w].s].lock = 0,
                               ![proc[w].s].timer = "running"]
    BY <1>0, <1>1 DEF Settle
  <2>2. s # proc[w].s => queue'[s] = queue[s]
    BY <1>0, <2>1
  <2>3. s = proc[w].s => queue'[s].status = status
    BY <1>0, <2>1 DEF QueueRows
  <2>4. QED
    BY <2>2, <2>3
<1>2. ASSUME NEW w \in Workers, Worker(w) PROVE Goal
  <2>1. ~EnqueuePendingSessions(w)
    BY DEF EnqueuePendingSessions, NewQueueRow
  <2>2. ~Claim(w)
    <3>1. SUFFICES ASSUME NEW u \in Sessions,
                          queue' = [queue EXCEPT ![u].status = "processing",
                                                 ![u].attempts = queue[u].attempts + 1,
                                                 ![u].lock = queue[u].attempts + 1,
                                                 ![u].timer = "running"]
                   PROVE  FALSE
      BY DEF Claim
    <3>2. s # u => queue'[s] = queue[s]
      BY <1>0, <3>1
    <3>3. s = u => queue'[s].status = "processing"
      BY <1>0, <3>1 DEF QueueRows
    <3>4. QED
      BY <3>2, <3>3
  <2>3. ~MarkRetry(w) /\ ~MarkDeadLetter(w)
    BY <1>1 DEF MarkRetry, MarkDeadLetter
  <2>4. CASE MarkCompleted(w)
    BY <1>1, <2>4 DEF MarkCompleted, Completing
  <2>5. QED
    BY <1>0, <1>2, <2>1, <2>2, <2>3, <2>4 DEF Worker, ClaimNothing, TryRequeue, Recheck
<1>3. ASSUME NEW u \in Sessions PROVE ~Time(u)
  <2>1. SUFFICES ASSUME queue' = [queue EXCEPT ![u].timer = "over"] PROVE FALSE
    BY DEF Time, BecomeDue, ExpireLease
  <2>2. QED
    BY <1>0, <2>1 DEF QueueRows
<1>4. CASE NextWithOutcome
  BY <1>0, <1>2, <1>3, <1>4
     DEF NextWithOutcome, Next, OutcomeRequest, Start, ReadSession, MarkInitiating, MarkFailed,
         RecordCall, Provider, CallCreated, CallRefused, StartRequest, EditRequest, WriteEdit,
         StatusCallback, ApplyCallback, DatabaseError, Crash
<1>5. QED
  BY <1>0, <1>4 DEF vars

\* A worker goes on to complete its row only with a call it has recorded, or for
\* a session that it has seen neither queued nor failed.
LEMMA NewlyCompleting ==
  ASSUME Typed, FailuresFit, [NextWithOutcome]_vars,
         NEW w \in Workers, proc'[w] # proc[w], proc'[w].pc \in Completing
  PROVE  ~FailedNext(proc'[w].s)
<1>0. w \in Processes /\ w \in Callers /\ proc[w] \in Locals
  BY DEF Typed, TypeOK, Processes, Callers
<1>1. ASSUME NEW p \in Processes, NEW l, Move(p, l) PROVE p = w /\ proc'[w] = l
  BY <1>0, <1>1, MoveEffect
<1>2. ASSUME NEW l \in Locals, NEW next \in Steps, Goto(w, l, next)
      PROVE  next \in Completing /\ proc'[w].pc = next /\ proc'[w].s = l.s
  <2>1. \/ proc'[w] = Idle
        \/ proc'[w] = [l EXCEPT !.pc = next]
        \/ proc'[w] = [l EXCEPT !.pc = "dead"]
    BY <1>0, <1>2, GotoEffect
  <2>2. QED
    BY <1>2, <2>1, IdleType DEF Locals, Completing
<1>3. CASE RecordCall(w)
  <2> DEFINE s == proc[w].s
             new == [proc[w].snap EXCEPT !.call = proc[w].call]
             next == IF ~Unchanged(w) THEN "recheck" ELSE "complete"
  <2>1. TryUpdate(w, new) /\ Goto(w, proc[w], next) /\ proc[w].pc = "record"
    BY <1>3 DEF RecordCall, OnInvalidOperation
  <2>2. proc'[w].s = s /\ Unchanged(w)
    BY <1>0, <1>2, <2>1 DEF Steps, Completing
  <2>3. s \in Sessions /\ proc[w].snap \in Rows /\ proc[w].snap.failure # "provider"
    BY <1>0, <2>1 DEF Typed, SessionChosen, FailuresFit, Starting, Locals
  <2>4. new.failure # "provider" /\ row'[s] = new
    <3>1. new.failure = proc[w].snap.failure
      BY <2>3 DEF Rows
    <3>2. row' = [row EXCEPT ![s] = new]
      BY <2>1, <2>2 DEF TryUpdate
    <3> HIDE DEF new
    <3>3. QED
      BY <2>3, <3>1, <3>2 DEF Typed, TypeOK
  <2>5. QED
    BY <2>2, <2>4 DEF FailedNext
<1>4. CASE Recheck(w)
  <2> DEFINE s == proc[w].s
             next == IF row[s].status \in {"queued", "failed"} THEN "dead" ELSE "settle"
  <2>1. Goto(w, proc[w], next) /\ row' = row
    BY <1>4 DEF Recheck
  <2>2. proc'[w].s = s /\ row[s].status # "failed"
    BY <1>0, <1>2, <2>1 DEF Steps, Completing
  <2>3. QED
    BY <2>1, <2>2 DEF FailedNext
<1>5. ~Provider(w)
  <2>1. \A n : [proc[w] EXCEPT !.pc = "record", !.call = n].pc = "record"
    BY <1>0 DEF Locals
  <2>2. \A e : [proc[w] EXCEPT !.pc = "fail", !.arg = e].pc = "fail"
    BY <1>0 DEF Locals
  <2>3. Provider(w) => \/ Move(w, [proc[w] EXCEPT !.pc = "record", !.call = placed[proc[w].s] + 1])
                       \/ \E e \in Errors : Move(w, [proc[w] EXCEPT !.pc = "fail", !.arg = e])
    BY DEF Provider, CallCreated, CallRefused
  <2>4. \A l : Move(w, l) => l.pc \in Completing
    BY <1>0, <1>1
  <2>5. QED
    BY <2>1, <2>2, <2>3, <2>4 DEF Completing
<1>6. ~ReadSession(w) /\ ~MarkInitiating(w) /\ ~MarkFailed(w)
  <2>1. ASSUME ReadSession(w) PROVE FALSE
    <3> DEFINE l == [proc[w] EXCEPT !.snap = row[proc[w].s]]
    <3>1. proc[w].s \in Sessions
      BY <1>0, <2>1 DEF ReadSession, Typed, SessionChosen
    <3>2. l \in Locals /\ \E next \in {"initiate", "recheck"} : Goto(w, l, next)
      BY <1>0, <2>1, <3>1 DEF ReadSession, OnInvalidOperation, Typed, TypeOK, Locals
    <3> HIDE DEF l
    <3>3. QED
      BY <1>2, <3>2 DEF Steps, Completing
  <2>2. ASSUME MarkInitiating(w) PROVE FALSE
    <3> DEFINE new == [proc[w].snap EXCEPT !.status = "initiating"]
               l == [proc[w] EXCEPT !.snap = new]
    <3>1. new \in Rows
      BY <1>0 DEF Locals, Rows, Statuses
    <3>2. l \in Locals /\ \E next \in {"request", "recheck"} : Goto(w, l, next)
      BY <1>0, <2>2, <3>1 DEF MarkInitiating, OnInvalidOperation, Locals
    <3> HIDE DEF l
    <3>3. QED
      BY <1>2, <3>2 DEF Steps, Completing
  <2>3. ASSUME MarkFailed(w) PROVE FALSE
    <3>1. \E next \in {"idle", "requeue", "recheck", "dead"} : Goto(w, proc[w], next)
      BY <2>3 DEF MarkFailed, AfterFailure
    <3>2. QED
      BY <1>0, <1>2, <3>1 DEF Steps, Completing
  <2>4. QED
    BY <2>1, <2>2, <2>3
<1>7. ASSUME Worker(w), ~Recheck(w) PROVE FALSE
  <2>1. CASE Claim(w)
    <3>1. PICK s \in Sessions : Goto(w, [proc[w] EXCEPT !.s = s, !.att = queue[s].attempts + 1], "read")
      BY <2>1 DEF Claim
    <3> DEFINE l == [proc[w] EXCEPT !.s = s, !.att = queue[s].attempts + 1]
    <3>2. queue[s].attempts + 1 \in Nat
      BY DEF Typed, TypeOK, QueueRows
    <3>3. l \in Locals /\ Goto(w, l, "read")
      BY <1>0, <3>1, <3>2 DEF Locals
    <3> HIDE DEF l
    <3>4. QED
      BY <1>2, <3>3 DEF Steps, Completing
  <2>2. CASE ClaimNothing(w)
    BY <1>0, <1>1, <2>2, IdleType DEF ClaimNothing, Completing
  <2>3. CASE \E next \in {"claim", "retry", "dead", "idle", "recheck"} : Goto(w, proc[w], next)
    BY <1>0, <1>2, <2>3 DEF Steps, Completing
  <2>4. QED
    BY <1>7, <2>1, <2>2, <2>3
       DEF Worker, EnqueuePendingSessions, TryRequeue, MarkRetry, MarkCompleted, MarkDeadLetter
<1>8. ASSUME NEW p \in Callers, Start(p) \/ Provider(p) \/ (p \in Workers /\ Worker(p)) PROVE p = w
  <2>1. \E l : Move(p, l)
    BY <1>8 DEF Start, ReadSession, MarkInitiating, MarkFailed, RecordCall, Provider, CallCreated,
                CallRefused, Worker, EnqueuePendingSessions, Claim, ClaimNothing, TryRequeue,
                MarkRetry, MarkCompleted, MarkDeadLetter, Recheck, Goto
  <2>2. QED
    BY <1>1, <2>1 DEF Processes
<1>9. ASSUME NEW p \in Starters \cup Editors \cup Webhooks, NEW l PROVE ~Move(p, l)
  BY <1>1, ProcessesAssumption DEF Processes, Callers
<1>10. /\ \A c \in Starters, s \in Sessions : ~StartRequest(c, s)
       /\ \A e \in Editors, s \in Sessions, edit \in Edits : ~EditRequest(e, s, edit)
       /\ \A e \in Editors : ~WriteEdit(e)
       /\ \A h \in Webhooks, s \in Sessions, word \in Words : ~StatusCallback(h, s, word)
       /\ \A h \in Webhooks : ~ApplyCallback(h)
  BY <1>9 DEF StartRequest, EditRequest, WriteEdit, StatusCallback, ApplyCallback, Goto
<1>11. \A s \in Sessions : ~Time(s)
  BY DEF Time, BecomeDue, ExpireLease
<1>12. ASSUME NEW p \in Processes, DatabaseError(p) \/ Crash(p) PROVE FALSE
  <2>1. \E l : l.pc \in {"dead", "idle"} /\ Move(p, l)
    <3>1. proc[p] \in Locals
      BY DEF Typed, TypeOK
    <3>2. QED
      BY <1>12, <3>1, IdleType DEF DatabaseError, Crash, OnDatabaseError, AtStep, Locals
  <2>2. QED
    BY <1>1, <2>1 DEF Completing
<1>13. CASE NextWithOutcome
  BY <1>3, <1>4, <1>5, <1>6, <1>7, <1>8, <1>10, <1>11, <1>12, <1>13
     DEF NextWithOutcome, Next, OutcomeRequest, Edits, Start, Callers
<1>14. QED
  BY <1>13 DEF vars

\* While nothing fails and there are no direct starts, who fails a session is the
\* worker that holds its row, so that nobody else completes it before or after.
LEMMA CompletesStep ==
  ASSUME OutcomeInv, OutcomeInv', FailuresFit, EditorsFinish, CompletesStarted, CompletedUnlessLate,
         [NextWithOutcome]_vars
  PROVE  CompletesStarted' /\ CompletedUnlessLate'
<1>0. Typed /\ Served /\ AttemptsDistinct
  BY DEF OutcomeInv, Typed, Served
<1>1. SUFFICES ASSUME faults' = 0, Starters = {} PROVE CompletesStarted' /\ CompletedUnlessLate'
  BY DEF CompletesStarted, CompletedUnlessLate
<1>2. faults = 0
  BY <1>0, <1>1, FaultsGrow DEF Fault, Typed, TypeOK
<1>3. ASSUME NEW s \in Sessions, FailedNext(s), ~ProviderFailed(s)
      PROVE  \E v \in Workers : proc[v].pc = "fail" /\ proc[v].s = s
  BY <1>0, <1>1, <1>3, FailedRow DEF ProviderFailed, FailedNext, Failing, Callers
<1>4. ASSUME NEW w \in Workers, proc'[w].pc \in Completing PROVE ~FailedNext(proc'[w].s)
  <2>1. CASE proc'[w] # proc[w]
    BY <1>0, <1>4, <2>1, NewlyCompleting
  <2>2. CASE proc'[w] = proc[w]
    <3>1. proc[w].s \in Sessions /\ ~Waits(w) /\ ~ProviderFailed(proc[w].s)
      BY <1>0, <1>1, <1>2, <1>4, <2>2
         DEF Typed, SessionChosen, Waits, Completing, CompletesStarted, Processes, Callers
    <3>2. ASSUME NEW v \in Workers, proc[v].pc = "fail", proc[v].s = proc[w].s PROVE FALSE
      <4>1. v # w /\ ~Waits(v)
        BY <1>4, <2>2, <3>2 DEF Completing, Waits
      <4>2. QED
        BY <1>0, <1>2, <3>1, <3>2, <4>1, Alone
    <3>3. ~FailedNext(proc[w].s)
      BY <1>3, <3>1, <3>2, <2>2
    <3>4. QED
      BY <2>2, <3>3
  <2>3. QED
    BY <2>1, <2>2
<1>5. ASSUME NEW s \in Sessions, queue'[s].status = "completed"
      PROVE  row'[s].status # "queued" /\ ~FailedNext(s)
  <2>1. row'[s].status # "queued"
    BY <1>1, <1>5 DEF OutcomeInv, QueuedIsServed
  <2>2. CASE queue[s].status = "completed"
    <3>1. ~ProviderFailed(s)
      BY <1>1, <1>2, <2>2 DEF CompletedUnlessLate, CompletedMeansStarted
    <3>2. ASSUME NEW v \in Workers, proc[v].pc = "fail", proc[v].s = s PROVE FALSE
      BY <1>0, <1>2, <2>2, <3>2 DEF Served, LeasesHeld, HoldsLease
    <3>3. QED
      BY <1>3, <2>1, <3>1, <3>2
  <2>3. CASE queue[s].status # "completed"
    <3>1. row' = row /\ \E w \in Workers : proc[w].pc \in Completing /\ proc[w].s = s
      BY <1>0, <1>5, <2>3, NewlyCompleted
    <3>2. ~ProviderFailed(s)
      BY <1>1, <1>2, <3>1 DEF CompletesStarted, Completing
    <3>3. QED
      BY <2>1, <3>1, <3>2 DEF ProviderFailed, FailedNext
  <2>4. QED
    BY <2>2, <2>3
<1>6. QED
  BY <1>4, <1>5
     DEF CompletesStarted, CompletedUnlessLate, CompletedMeansStarted, Completing, ProviderFailed,
         FailedNext

\* What a finding of the runs needs: a queue row is completed for a session that
\* waits for its retry, or that the provider failed, only after a fault or with
\* direct starts beside the queue.
THEOREM CompletedWereStarted == Spec => []CompletedUnlessLate
<1> DEFINE Inv == FailuresFit /\ CompletesStarted /\ CompletedUnlessLate
<1>1. Init => Inv
  BY DEF Init, FailuresFit, CompletesStarted, CompletedUnlessLate, CompletedMeansStarted,
         ProviderFailed, Idle, NewRow, NoQueueRow, Starting, Processes, Callers
<1>2. IInv /\ IInv' /\ Inv /\ [Next]_vars => Inv'
  <2>1. SUFFICES ASSUME IInv, IInv', Inv, [Next]_vars PROVE Inv'
    OBVIOUS
  <2>2. Typed /\ EditorsFinish /\ OutcomeInv /\ OutcomeInv' /\ [NextWithOutcome]_vars
    BY <2>1 DEF IInv, OutcomeInv, Typed, NextWithOutcome
  <2>3. QED
    BY <2>1, <2>2, FailuresStep, CompletesStep
<1>3. QED
  BY <1>1, <1>2, InvariantHolds, PTL DEF Spec

-------------------------------------------------------------------------------
(* What no step does                                                       *)

\* A session that is over stays over, unless it is queued again, and then
\* nobody was called: whatever an editor, a late callback or another worker had
\* read, a conditional update compares it and an editor writes a final status.
THEOREM FinalIsFinal == Spec => FinalStaysFinal
<1> DEFINE Stays ==
      \A s \in Sessions :
        row[s].status \in Terminal /\ row'[s].status \notin Terminal =>
          row'[s].status = "queued" /\ placed[s] = 0
<1>1. ASSUME IInv, [Next]_vars PROVE Stays
  <2>1. \A s \in Sessions : RowStep(s)
    BY <1>1, RowSteps DEF IInv, OutcomeInv, Typed, NextWithOutcome
  <2>2. ASSUME NEW s \in Sessions, row[s].status \in Terminal, row'[s].status \notin Terminal
        PROVE  row'[s].status = "queued" /\ placed[s] = 0
    <3>1. ~CanApplyProviderStatus(row[s].status, row'[s].status)
      BY <2>2 DEF CanApplyProviderStatus, Terminal
    <3>2. row[s].status \notin {"queued", "initiating"} /\ row'[s].status \notin {"completed", "failed"}
      BY <2>2 DEF Terminal
    <3>3. ASSUME NEW e \in Editors, EditedBy(e, s)
          PROVE  Edited(proc[e].snap, proc[e].arg).status \in {"completed", "failed"}
      <4>1. proc[e].snap \in Rows /\ proc[e].arg \in {"completed", "failed"}
        BY <1>1, <3>3 DEF EditedBy, IInv, OutcomeInv, EditorsFinish, TypeOK, Locals, Processes
      <4>2. QED
        BY <4>1 DEF Edited, Rows
    <3>4. ASSUME NEW w \in Workers, proc[w].pc = "requeue", proc[w].s = s
          PROVE  placed[s] = 0
      <4>1. Underway(s)
        BY <3>4 DEF Underway, Asking, Callers
      <4>2. QED
        BY <1>1, <4>1 DEF IInv, OutcomeInv, OneToken, TypeOK
    <3>5. QED
      BY <2>1, <2>2, <3>1, <3>2, <3>3, <3>4 DEF RowStep
  <2>3. QED
    BY <2>2
<1>2. IInv /\ [Next]_vars => [Stays]_vars
  BY <1>1
<1>3. QED
  BY <1>2, InvariantHolds, PTL DEF Spec, FinalStaysFinal

\* A recorded call id is lost only to an editor's write of the whole row: the
\* conditional updates of starts and callbacks carry the id they compared.
THEOREM CallIsKept == SpecWithOutcome => CallKept
<1> DEFINE Inv == Typed /\ NobodyWritesQueued /\ SnapshotsFit
           Kept ==
      \A s \in Sessions :
        row[s].call # NoCall /\ row'[s].call # row[s].call =>
          \E e \in Editors : proc[e].pc = "edit" /\ proc[e].s = s /\ proc'[e] # proc[e]
<1>1. Init => Inv
  BY TypedInit, NobodyInit, SnapshotsInit
<1>2. Inv /\ [NextWithOutcome]_vars => Inv'
  BY TypedStep, NobodyStep, SnapshotsStep
<1>3. ASSUME Inv, [NextWithOutcome]_vars PROVE Kept
  <2>1. \A s \in Sessions : RowStep(s)
    BY <1>3, RowSteps
  <2>2. QED
    BY <2>1 DEF RowStep, SameCall, EditedBy
<1>4. Inv /\ [NextWithOutcome]_vars => [Kept]_vars
  BY <1>3
<1>5. QED
  BY <1>1, <1>2, <1>4, PTL DEF SpecWithOutcome, CallKept

\* A worker that settles a row moves on from where it was.
LEMMA SettlerMoves ==
  ASSUME Typed, NEW v \in Workers, MarkRetry(v) \/ MarkCompleted(v) \/ MarkDeadLetter(v)
  PROVE  proc'[v] # proc[v]
<1>1. v \in Processes /\ proc[v] \in Locals
  BY DEF Typed, TypeOK, Processes, Callers
<1>2. CASE proc[v].pc = "complete"
  <2>1. \E next \in {"recheck", "idle"} : Goto(v, proc[v], next)
    BY <1>2 DEF MarkRetry, MarkCompleted, MarkDeadLetter
  <2>2. PICK next \in {"recheck", "idle"} : Goto(v, proc[v], next)
    BY <2>1
  <2>3. next \in Steps
    BY DEF Steps
  <2>4. \/ proc'[v] = Idle
        \/ proc'[v] = [proc[v] EXCEPT !.pc = next]
        \/ proc'[v] = [proc[v] EXCEPT !.pc = "dead"]
    BY <1>1, <2>2, <2>3, GotoEffect
  <2>5. proc'[v].pc # "complete"
    BY <1>1, <2>4, IdleType DEF Locals
  <2>6. QED
    BY <1>2, <2>5
<1>3. CASE proc[v].pc # "complete"
  <2>1. proc[v].pc \in {"retry", "settle", "dead"} /\ Goto(v, proc[v], "idle")
    BY <1>3 DEF MarkRetry, MarkCompleted, MarkDeadLetter
  <2>2. OnDatabaseError(v) = "idle"
    BY <2>1 DEF OnDatabaseError
  <2>3. \A l : AtStep(l, "idle") = Idle
    BY DEF AtStep
  <2>4. proc'[v] = AtStep(proc[v], "idle") \/ proc'[v] = AtStep(proc[v], OnDatabaseError(v))
    BY <1>1, <2>1, GotoType DEF Typed, Steps
  <2>5. QED
    BY <2>1, <2>2, <2>3, <2>4, IdleType
<1>4. QED
  BY <1>2, <1>3

\* The statuses and locks of the queue are those of before, but of a row that
\* was free to claim, that was not there, or that the holder of its lease settles.
LEMMA LeaseStep ==
  ASSUME Typed, [NextWithOutcome]_vars, NEW s \in Sessions,
         queue[s].status = "processing", queue[s].timer = "running"
  PROVE  \/ queue'[s].status = queue[s].status /\ queue'[s].lock = queue[s].lock
         \/ \E v \in Workers : /\ proc[v].s = s /\ proc[v].att = queue[s].lock
                               /\ proc'[v] # proc[v]
<1> DEFINE Same == queue'[s].status = queue[s].status /\ queue'[s].lock = queue[s].lock
           Ends(v) == proc[v].s = s /\ proc[v].att = queue[s].lock /\ proc'[v] # proc[v]
<1>0. queue \in [Sessions -> QueueRows]
  BY DEF Typed, TypeOK
<1>1. CASE queue' = queue
  BY <1>1
<1>2. ASSUME NEW v \in Workers, NEW status, Settle(v, status),
             MarkRetry(v) \/ MarkCompleted(v) \/ MarkDeadLetter(v)
      PROVE  Same \/ Ends(v)
  <2>1. CASE HoldsLease(v) /\ proc[v].s = s
    BY <1>2, <2>1, SettlerMoves DEF HoldsLease
  <2>2. CASE HoldsLease(v) /\ proc[v].s # s
    BY <1>0, <1>2, <2>2 DEF Settle
  <2>3. CASE ~HoldsLease(v)
    BY <1>2, <2>3 DEF Settle
  <2>4. QED
    BY <2>1, <2>2, <2>3
<1>3. ASSUME NEW v \in Workers, Worker(v) PROVE Same \/ Ends(v)
  <2>1. CASE EnqueuePendingSessions(v)
    BY <2>1 DEF EnqueuePendingSessions
  <2>2. CASE Claim(v)
    <3>1. PICK t \in Sessions :
            /\ Claimable(t)
            /\ queue' = [queue EXCEPT ![t].status = "processing", ![t].attempts = queue[t].attempts + 1,
                                      ![t].lock = queue[t].attempts + 1, ![t].timer = "running"]
      BY <2>2 DEF Claim
    <3>2. t # s
      BY <3>1 DEF Claimable
    <3>3. QED
      BY <1>0, <3>1, <3>2
  <2>3. CASE MarkRetry(v) \/ MarkCompleted(v) \/ MarkDeadLetter(v)
    BY <1>2, <2>3 DEF MarkRetry, MarkCompleted, MarkDeadLetter
  <2>4. CASE ClaimNothing(v) \/ TryRequeue(v) \/ Recheck(v)
    BY <1>1, <2>4 DEF ClaimNothing, TryRequeue, Recheck
  <2>5. QED
    BY <1>3, <2>1, <2>2, <2>3, <2>4 DEF Worker
<1>4. ASSUME NEW t \in Sessions, Time(t) PROVE Same
  <2>1. queue' = [queue EXCEPT ![t].timer = "over"]
    BY <1>4 DEF Time, BecomeDue, ExpireLease
  <2>2. QED
    BY <1>0, <2>1 DEF QueueRows
<1>5. ASSUME NEW p \in Callers, Start(p) \/ Provider(p) PROVE Same
  <2>1. queue' = queue
    BY <1>5 DEF Start, ReadSession, MarkInitiating, MarkFailed, RecordCall,
                Provider, CallCreated, CallRefused
  <2>2. QED
    BY <2>1
<1>6. CASE \/ \E c \in Starters, t \in Sessions : StartRequest(c, t)
           \/ \E e \in Editors, t \in Sessions, edit \in Edits : EditRequest(e, t, edit)
           \/ \E e \in Editors : WriteEdit(e)
           \/ \E h \in Webhooks, t \in Sessions, word \in Words : StatusCallback(h, t, word)
           \/ \E h \in Webhooks : ApplyCallback(h)
           \/ \E p \in Processes : DatabaseError(p) \/ Crash(p)
  <2>1. queue' = queue
    BY <1>6 DEF StartRequest, EditRequest, WriteEdit, StatusCallback, ApplyCallback,
                DatabaseError, Crash
  <2>2. QED
    BY <2>1
<1>7. CASE NextWithOutcome
  BY <1>3, <1>4, <1>5, <1>6, <1>7 DEF NextWithOutcome, Next, OutcomeRequest, Edits
<1>8. QED
  BY <1>1, <1>7 DEF vars

\* While a lease runs, only the worker that holds it ends it: the claim compares
\* the timer, settling compares the lock id, and no two claims share a number.
THEOREM LeaseIsExclusive == SpecWithOutcome => LeaseExclusive
<1> DEFINE Inv == Typed /\ NobodyWritesQueued /\ AttemptsDistinct
           Exclusive ==
      \A s \in Sessions, w \in Workers :
        /\ proc[w].s = s /\ proc[w].att = queue[s].lock
        /\ queue[s].status = "processing" /\ queue[s].timer = "running"
        /\ queue'[s].status # "processing" \/ queue'[s].lock # queue[s].lock
        => proc'[w] # proc[w]
<1>1. ASSUME Inv, [NextWithOutcome]_vars PROVE Exclusive
  <2>1. SUFFICES ASSUME NEW s \in Sessions, NEW w \in Workers,
                        proc[w].s = s, proc[w].att = queue[s].lock,
                        queue[s].status = "processing", queue[s].timer = "running",
                        queue'[s].status # "processing" \/ queue'[s].lock # queue[s].lock
                 PROVE  proc'[w] # proc[w]
    OBVIOUS
  <2>2. PICK v \in Workers : proc[v].s = s /\ proc[v].att = queue[s].lock /\ proc'[v] # proc[v]
    BY <1>1, <2>1, LeaseStep
  <2>3. v = w
    BY <1>1, <2>1, <2>2 DEF AttemptsDistinct
  <2>4. QED
    BY <2>2, <2>3
<1>2. Inv /\ [NextWithOutcome]_vars => [Exclusive]_vars
  BY <1>1
<1>3. Init => Inv
  BY TypedInit, NobodyInit, BudgetInit DEF Budgeted
<1>4. Inv /\ [NextWithOutcome]_vars => Inv'
  BY TypedStep, NobodyStep, DistinctStep
<1>5. QED
  BY <1>2, <1>3, <1>4, PTL DEF SpecWithOutcome, LeaseExclusive

-------------------------------------------------------------------------------
(* The dispatch implements CallPlacement.                                  *)

phases == [s \in Sessions |-> Phase(s)]

LEMMA PhaseValue ==
  ASSUME OutcomeInv, NEW s \in Sessions
  PROVE  /\ Phase(s) = "placed" <=> placed[s] = 1
         /\ Phase(s) = "trying" <=> Underway(s)
         /\ Phase(s) = "waiting" <=> placed[s] = 0 /\ row[s].status = "queued"
         /\ Phase(s) \in {"placed", "trying", "waiting", "abandoned"}
<1>1. placed[s] = 0 \/ placed[s] = 1
  BY DEF OutcomeInv, TypeOK, OneToken
<1>2. /\ placed[s] = 1 => ~Underway(s)
      /\ row[s].status = "queued" => ~Underway(s) /\ placed[s] # 1
  BY DEF OutcomeInv, OneToken
<1>3. CASE placed[s] = 1
  BY <1>2, <1>3 DEF Phase
<1>4. CASE placed[s] = 0
  BY <1>2, <1>4 DEF Phase
<1>5. QED
  BY <1>1, <1>3, <1>4

LEMMA PlacementStep ==
  ASSUME OutcomeInv, OutcomeInv', NEW t, Moved(t)
  PROVE  [Placement!Next]_<<phases, requests>>
<1> DEFINE New(s) == Phase(s)'
<1>1. \A s \in Sessions : /\ placed[s] \in Nat /\ placed[s] <= 1
                          /\ placed'[s] \in Nat /\ placed'[s] <= 1
  BY DEF OutcomeInv, TypeOK, OneToken
<1>2. ASSUME NEW s \in Sessions
      PROVE  /\ New(s) = "placed" <=> placed'[s] = 1
             /\ New(s) = "trying" <=> Underway(s)'
             /\ New(s) = "waiting" <=> placed'[s] = 0 /\ row'[s].status = "queued"
             /\ New(s) \in {"placed", "trying", "waiting", "abandoned"}
  <2>1. placed'[s] = 0 \/ placed'[s] = 1
    BY <1>1
  <2>2. /\ placed'[s] = 1 => ~Underway(s)'
        /\ row'[s].status = "queued" => ~Underway(s)' /\ placed'[s] # 1
    BY DEF OutcomeInv, OneToken
  <2>3. CASE placed'[s] = 1
    BY <2>2, <2>3 DEF Phase
  <2>4. CASE placed'[s] = 0
    BY <2>2, <2>4 DEF Phase
  <2>5. QED
    BY <2>1, <2>3, <2>4
<1>3. ASSUME NEW s \in Sessions, s # t, SameElsewhere(t), placed'[s] = placed[s]
      PROVE  New(s) = Phase(s)
  <2>1. (Underway(s)' <=> Underway(s)) /\ row'[s].status = row[s].status
    BY <1>3 DEF SameElsewhere, Underway
  <2>2. QED
    BY <1>2, <1>3, <2>1, PhaseValue
<1>4. phases' = [s \in Sessions |-> New(s)]
  BY DEF phases
<1>5. ASSUME t \in Sessions, NEW new, New(t) = new, \A s \in Sessions : s # t => New(s) = Phase(s)
      PROVE  phases' = [phases EXCEPT ![t] = new] /\ phases[t] = Phase(t)
  BY <1>4, <1>5 DEF phases
<1>6. CASE Quiet(t)
  <2>1. placed' = placed /\ requests' = requests /\ SameElsewhere(t)
    BY <1>6 DEF Quiet
  <2>2. \A s \in Sessions : s # t => New(s) = Phase(s)
    BY <1>3, <2>1
  <2>3. CASE t \notin Sessions
    <3>1. phases' = phases
      BY <1>4, <2>2, <2>3 DEF phases
    <3>2. QED
      BY <2>1, <3>1
  <2>4. CASE t \in Sessions
    <3>1. Underway(t)' => Underway(t)
      BY <1>6, <2>4 DEF Quiet, Underway
    <3>2. row'[t].status = "queued" => row[t].status = "queued"
      BY <1>6, <2>4 DEF Quiet
    <3>3. row[t].status = "queued" => ~Underway(t)
      BY <2>4 DEF OutcomeInv, OneToken
    <3>4. New(t) = Phase(t) \/ (Phase(t) \in {"waiting", "trying"} /\ New(t) = "abandoned")
      BY <1>1, <1>2, <2>1, <2>4, <3>1, <3>2, <3>3, PhaseValue
    <3>5. CASE New(t) = Phase(t)
      <4>1. phases' = phases
        BY <1>4, <2>2, <3>5 DEF phases
      <4>2. QED
        BY <2>1, <4>1
    <3>6. CASE Phase(t) \in {"waiting", "trying"} /\ New(t) = "abandoned"
      <4>1. phases' = [phases EXCEPT ![t] = "abandoned"] /\ phases[t] = Phase(t)
        BY <1>5, <2>2, <2>4, <3>6
      <4>2. Placement!GiveUp(t)
        BY <2>1, <3>6, <4>1 DEF Placement!GiveUp, phases
      <4>3. QED
        BY <2>4, <4>2 DEF Placement!Next
    <3>7. QED
      BY <3>4, <3>5, <3>6
  <2>5. QED
    BY <2>3, <2>4
<1>7. ASSUME t \in Sessions, NEW p \in Callers, Asks(p, t)
      PROVE  Placement!Next
  <2>1. /\ row[t].status = "queued" /\ placed' = placed /\ Asking(p, t)' /\ SameElsewhere(t)
        /\ requests' = [requests EXCEPT ![t] = requests[t] + 1]
    BY <1>7 DEF Asks
  <2>2. placed[t] = 0 /\ Phase(t) = "waiting" /\ New(t) = "trying"
    BY <1>1, <1>2, <1>7, <2>1, PhaseValue DEF OutcomeInv, OneToken, Underway
  <2>3. requests[t] < MaxAttempts
    <3>1. retried[t] \subseteq 1..(MaxAttempts - 1) /\ MaxAttempts - 1 \in Nat
      BY <1>7, BoundsAssumption DEF OutcomeInv, RequestsPaid
    <3>2. Cardinality(retried[t]) \in Nat /\ Cardinality(retried[t]) <= MaxAttempts - 1
      BY <3>1, Counted
    <3>3. requests[t] <= Cardinality(retried[t]) + 0 /\ requests[t] \in Nat
      BY <1>7, <2>1, <3>2 DEF OutcomeInv, RequestsPaid, TypeOK
    <3>4. QED
      BY <3>2, <3>3, BoundsAssumption
  <2>4. \A s \in Sessions : s # t => New(s) = Phase(s)
    BY <1>3, <2>1
  <2>5. phases' = [phases EXCEPT ![t] = "trying"] /\ phases[t] = "waiting"
    BY <1>5, <1>7, <2>2, <2>4
  <2>6. Placement!Try(t)
    BY <2>1, <2>3, <2>5 DEF Placement!Try, phases
  <2>7. QED
    BY <1>7, <2>6 DEF Placement!Next
<1>8. ASSUME t \in Sessions, NEW p \in Callers, Places(p, t)
      PROVE  Placement!Next
  <2>1. /\ requests' = requests /\ SameElsewhere(t) /\ Asking(p, t)
        /\ placed' = [placed EXCEPT ![t] = placed[t] + 1]
    BY <1>8 DEF Places
  <2>2. placed'[t] = placed[t] + 1 /\ \A s \in Sessions : s # t => placed'[s] = placed[s]
    BY <1>8, <2>1 DEF OutcomeInv, TypeOK
  <2>3. Phase(t) = "trying"
    BY <1>8, <2>1, PhaseValue DEF Underway
  <2>4. New(t) = "placed"
    BY <1>1, <1>2, <1>8, <2>2
  <2>5. \A s \in Sessions : s # t => New(s) = Phase(s)
    BY <1>3, <2>1, <2>2
  <2>6. phases' = [phases EXCEPT ![t] = "placed"] /\ phases[t] = "trying"
    BY <1>5, <1>8, <2>3, <2>4, <2>5
  <2>7. Placement!Place(t)
    BY <2>1, <2>6 DEF Placement!Place, phases
  <2>8. QED
    BY <1>8, <2>7 DEF Placement!Next
<1>9. ASSUME t \in Sessions, NEW p \in Callers, Revives(p, t)
      PROVE  Placement!Next
  <2>1. /\ requests' = requests /\ placed' = placed /\ SameElsewhere(t) /\ Asking(p, t)
        /\ row'[t].status = "queued"
    BY <1>9 DEF Revives
  <2>2. Phase(t) = "trying"
    BY <1>9, <2>1, PhaseValue DEF Underway
  <2>3. New(t) = "waiting"
    BY <1>1, <1>2, <1>9, <2>1 DEF OutcomeInv, OneToken
  <2>4. \A s \in Sessions : s # t => New(s) = Phase(s)
    BY <1>3, <2>1
  <2>5. phases' = [phases EXCEPT ![t] = "waiting"] /\ phases[t] = "trying"
    BY <1>5, <1>9, <2>2, <2>3, <2>4
  <2>6. Placement!Throttled(t)
    BY <2>1, <2>5 DEF Placement!Throttled, phases
  <2>7. QED
    BY <1>9, <2>6 DEF Placement!Next
<1>10. QED
  BY <1>6, <1>7, <1>8, <1>9 DEF Moved

LEMMA CarefulPlacement == CarefulSpec => RefinesPlacement
<1>1. Init => Placement!Init
  BY SessionsAssumption
     DEF Init, Placement!Init, Phase, Underway, Asking, NewRow, Idle, Processes, Callers, phases
<1>2. OutcomeInv /\ OutcomeInv' /\ CarefulStep => [Placement!Next]_<<phases, requests>>
  <2>1. ASSUME OutcomeInv, OutcomeInv', CarefulStep PROVE [Placement!Next]_<<phases, requests>>
    BY <2>1, MovedStep, PlacementStep DEF OutcomeInv, Typed
  <2>2. QED
    BY <2>1
<1>3. QED
  BY <1>1, <1>2, CarefulInv, PTL
     DEF CarefulSpec, SpecWithOutcome, CarefulStep, RefinesPlacement, Placement!Spec, phases

\* Rows, queue, workers and requests together keep the promise of
\* CallPlacement: one try at a time, repeated only after a 429, at most
\* MaxAttempts of them, none after a call was placed or the session given up.
THEOREM ImplementsPlacement == Spec => RefinesPlacement
BY CarefulPlacement, SpecIsCareful

\* POST /outcome breaks this only by taking a started session back to "queued":
\* as long as it does not, sessions are called once, within the bound on
\* requests, none is forgotten while nothing fails, and the promise is kept.
THEOREM CarefulOutcomes ==
  CarefulSpec => /\ [](AtMostOneCallPlaced /\ RequestsBounded /\ QueuedIsServed)
                 /\ RefinesPlacement
<1>1. OutcomeInv => AtMostOneCallPlaced /\ RequestsBounded /\ QueuedIsServed
  BY RequestsLimit DEF OutcomeInv, OneToken, AtMostOneCallPlaced
<1>2. QED
  BY <1>1, CarefulInv, CarefulPlacement, PTL
===============================================================================

------------------------- MODULE VoiceConsole_proofs -------------------------
(***************************************************************************)
(* For any calls and any number of requests in flight: the table of the    *)
(* console is whole and counted, the details are those of the selected     *)
(* call unless another one was selected in the middle of a fetch, and only *)
(* the user selects.                                                       *)
(***************************************************************************)
EXTENDS VoiceConsole, TLAPS

Calls == Mocks \cup Stored \cup {"none"}

LEMMA InitInv == Init => IInv
<1> SUFFICES ASSUME Init PROVE IInv
  OBVIOUS
<1>1. version \in Versions /\ 0 \in 0..MaxVersion
  BY ConsoleAssumption DEF Init, Versions
<1>2. fetch \in [Fetches -> FetchStates] /\ \A f \in Fetches : fetch[f].kind = "idle"
  BY DEF Init, Idle, FetchStates
<1>3. TypeOK
  BY <1>1, <1>2 DEF Init, TypeOK, MockStatuses
<1>4. Simulated = {}
  BY DEF Init, Simulated
<1>5. TableIsWhole
  BY <1>4 DEF Init, TableIsWhole, Counted
<1>6. FetchesAreSelected /\ DetailIsSelected
  BY <1>2 DEF Init, FetchesAreSelected, DetailIsSelected
<1> QED
  BY <1>3, <1>5, <1>6 DEF IInv

-------------------------------------------------------------------------------
(* Fetches *)

\* A request of the page goes on to a state of its own.
LEMMA FetchStep ==
  ASSUME TypeOK, NEW f \in Fetches, NEW new \in FetchStates, fetch' = [fetch EXCEPT ![f] = new]
  PROVE  /\ fetch' \in [Fetches -> FetchStates] /\ fetch'[f] = new
         /\ \A g \in Fetches : g # f => fetch'[g] = fetch[g]
BY DEF TypeOK

\* The states of a request, and what they hold.
LEMMA FetchValues ==
  /\ Idle \in FetchStates /\ Idle.kind = "idle"
  /\ \A k \in {"calls", "failed"} : [kind |-> k] \in FetchStates
  /\ \A v \in Versions : [kind |-> "answered", version |-> v] \in FetchStates
  /\ \A s \in Stored : [kind |-> "transcript", call |-> s] \in FetchStates
  /\ \A x \in FetchStates : /\ x.kind = "answered" => x.version \in Versions
                            /\ x.kind = "transcript" => x.call \in Stored
                            /\ x.kind = "transcript" => x = [kind |-> "transcript", call |-> x.call]
<1>1. /\ Idle \in FetchStates /\ Idle.kind = "idle"
      /\ \A k \in {"calls", "failed"} : [kind |-> k] \in FetchStates
      /\ \A v \in Versions : [kind |-> "answered", version |-> v] \in FetchStates
      /\ \A s \in Stored : [kind |-> "transcript", call |-> s] \in FetchStates
  BY DEF FetchStates, Idle
<1>2. ASSUME NEW x \in FetchStates, x.kind = "answered" PROVE x.version \in Versions
  BY <1>2 DEF FetchStates
<1>3. ASSUME NEW x \in FetchStates, x.kind = "transcript"
      PROVE  x \in [kind: {"transcript"}, call: Stored]
  BY <1>3 DEF FetchStates
<1>4. ASSUME NEW x \in FetchStates, x.kind = "transcript"
      PROVE  x.call \in Stored /\ x = [kind |-> "transcript", call |-> x.call]
  BY <1>3, <1>4
<1> QED
  BY <1>1, <1>2, <1>4

\* A load that begins, is answered or ends is no fetch of a transcript.
LEMMA LoadStep ==
  ASSUME IInv, NEW f \in Fetches, fetch[f].kind # "transcript",
         NEW new \in FetchStates, new.kind # "transcript", fetch' = [fetch EXCEPT ![f] = new],
         UNCHANGED <<selectedId, detail, crossed>>
  PROVE  fetch' \in [Fetches -> FetchStates] /\ FetchesAreSelected' /\ DetailIsSelected'
<1>1. /\ fetch' \in [Fetches -> FetchStates] /\ fetch'[f] = new
      /\ \A g \in Fetches : g # f => fetch'[g] = fetch[g]
  BY FetchStep DEF IInv
<1>2. FetchesAreSelected'
  BY <1>1 DEF IInv, FetchesAreSelected
<1>3. ASSUME ~crossed, detail.state = "loading"
      PROVE  \E g \in Fetches : fetch'[g] = [kind |-> "transcript", call |-> selectedId]
  <2>1. PICK g \in Fetches : fetch[g] = [kind |-> "transcript", call |-> selectedId]
    BY <1>3 DEF IInv, DetailIsSelected
  <2>2. g # f
    BY <2>1
  <2> QED
    BY <1>1, <2>1, <2>2
<1>4. DetailIsSelected'
  BY <1>3 DEF IInv, DetailIsSelected
<1> QED
  BY <1>1, <1>2, <1>4

\* Whoever shows a simulated call has nothing left to wait for, or has crossed.
LEMMA ShowStep ==
  ASSUME IInv, NEW m \in Mocks, ShowMock(m), fetch' = fetch
  PROVE  /\ selectedId' \in Calls /\ crossed' \in BOOLEAN
         /\ detail' \in [of: Calls, state: {"empty", "loading", "shown", "error"}]
         /\ FetchesAreSelected' /\ DetailIsSelected'
<1>1. /\ selectedId' = m /\ detail' = [of |-> m, state |-> "shown"]
      /\ crossed' = (crossed \/ FetchingOther(m))
  BY DEF ShowMock
<1>2. FetchesAreSelected'
  BY <1>1 DEF FetchesAreSelected, FetchingOther
<1>3. DetailIsSelected'
  BY <1>1 DEF DetailIsSelected
<1>4. crossed' \in BOOLEAN
  BY <1>1 DEF IInv, TypeOK
<1> QED
  BY <1>1, <1>2, <1>3, <1>4 DEF Calls

-------------------------------------------------------------------------------
(* Steps *)

\* The statuses the timers write.
LEMMA NextStatusValue ==
  ASSUME NEW status \in DOMAIN NextStatus
  PROVE  status # "none" /\ NextStatus[status] \in {"in_progress", "completed"}
BY DEF NextStatus

\* A load: the request, its answer, its end.
LEMMA LoadInv ==
  ASSUME IInv, NEW f \in Fetches, Load(f) \/ AnswerLoad(f) \/ FailLoad(f)
  PROVE  IInv'
<1>1. /\ UNCHANGED <<version, mockCalls, calls, stats, selectedId, detail, signedIn, crossed>>
      /\ note' \in {note, "loading", "not loaded"}
  BY DEF Load, AnswerLoad, FailLoad, page
<1>2. fetch[f].kind # "transcript"
  BY FetchValues DEF Load, AnswerLoad, FailLoad
<1>3. \E new \in FetchStates : new.kind # "transcript" /\ fetch' = [fetch EXCEPT ![f] = new]
  <2>1. CASE Load(f)
    BY <2>1, FetchValues DEF Load
  <2>2. CASE AnswerLoad(f)
    BY <2>2, FetchValues DEF AnswerLoad, IInv, TypeOK
  <2>3. CASE FailLoad(f)
    BY <2>3, FetchValues DEF FailLoad
  <2> QED
    BY <2>1, <2>2, <2>3
<1>4. fetch' \in [Fetches -> FetchStates] /\ FetchesAreSelected' /\ DetailIsSelected'
  BY <1>1, <1>2, <1>3, LoadStep
<1>5. TypeOK'
  BY <1>1, <1>4 DEF IInv, TypeOK
<1>6. TableIsWhole'
  BY <1>1 DEF IInv, TableIsWhole, Counted, Simulated
<1> QED
  BY <1>4, <1>5, <1>6 DEF IInv

LEMMA ApplyInv ==
  ASSUME IInv, NEW f \in Fetches, ApplyLoad(f)
  PROVE  IInv'
<1>1. /\ fetch[f].kind = "answered" /\ fetch' = [fetch EXCEPT ![f] = Idle]
      /\ calls' = [stored |-> fetch[f].version, mocks |-> Simulated]
      /\ stats' = Counted(calls', mockCalls) /\ signedIn' = TRUE /\ note' = "loaded"
      /\ UNCHANGED <<version, mockCalls, selectedId, detail, crossed>>
  BY DEF ApplyLoad
<1>2. fetch' \in [Fetches -> FetchStates] /\ FetchesAreSelected' /\ DetailIsSelected'
  BY <1>1, LoadStep, FetchValues
<1>a. fetch[f].version \in Versions
  BY <1>1, FetchValues DEF IInv, TypeOK
<1>3. fetch[f].version \in 0..MaxVersion
  BY <1>a, ConsoleAssumption DEF Versions
<1>4. Simulated \subseteq Mocks /\ Simulated' = Simulated
  BY <1>1 DEF Simulated
<1>5. TypeOK'
  BY <1>1, <1>2, <1>3, <1>4 DEF IInv, TypeOK
<1>6. TableIsWhole'
  BY <1>1, <1>4 DEF TableIsWhole, Counted
<1> QED
  BY <1>2, <1>5, <1>6 DEF IInv

LEMMA SimulateInv ==
  ASSUME IInv, NEW m \in Mocks, Simulate(m)
  PROVE  IInv'
<1>1. /\ mockCalls' = [mockCalls EXCEPT ![m] = "ringing"]
      /\ calls' = [calls EXCEPT !.mocks = @ \cup {m}]
      /\ stats' = Counted(calls', mockCalls') /\ ShowMock(m)
      /\ UNCHANGED <<version, note, signedIn, fetch>>
  BY DEF Simulate
<1>2. /\ selectedId' \in Calls /\ crossed' \in BOOLEAN
      /\ detail' \in [of: Calls, state: {"empty", "loading", "shown", "error"}]
      /\ FetchesAreSelected' /\ DetailIsSelected'
  BY <1>1, ShowStep
<1>3. mockCalls' \in [Mocks -> MockStatuses] /\ Simulated' = Simulated \cup {m}
  BY <1>1 DEF IInv, TypeOK, MockStatuses, Simulated
<1>4. /\ calls' \in [stored: 0..MaxVersion, mocks: SUBSET Mocks]
      /\ calls'.mocks = calls.mocks \cup {m}
  BY <1>1 DEF IInv, TypeOK
<1>5. TypeOK'
  BY <1>1, <1>2, <1>3, <1>4 DEF IInv, TypeOK, Calls
<1>6. TableIsWhole'
  BY <1>1, <1>3, <1>4 DEF IInv, TableIsWhole, Counted
<1> QED
  BY <1>2, <1>5, <1>6 DEF IInv

LEMMA UpdateInv ==
  ASSUME IInv, NEW m \in Mocks, UpdateMock(m)
  PROVE  IInv'
<1>1. /\ mockCalls[m] \in DOMAIN NextStatus
      /\ mockCalls' = [mockCalls EXCEPT ![m] = NextStatus[mockCalls[m]]]
      /\ stats' = Counted(calls, mockCalls')
      /\ ShowMock(m) \/ UNCHANGED <<selectedId, detail, crossed>>
      /\ UNCHANGED <<version, calls, note, signedIn, fetch>>
  BY DEF UpdateMock
<1>2. /\ selectedId' \in Calls /\ crossed' \in BOOLEAN
      /\ detail' \in [of: Calls, state: {"empty", "loading", "shown", "error"}]
      /\ FetchesAreSelected' /\ DetailIsSelected'
  <2>1. CASE ShowMock(m)
    BY <1>1, <2>1, ShowStep
  <2>2. CASE UNCHANGED <<selectedId, detail, crossed>>
    BY <1>1, <2>2 DEF IInv, TypeOK, Calls, FetchesAreSelected, DetailIsSelected
  <2> QED
    BY <1>1, <2>1, <2>2
<1>3. mockCalls' \in [Mocks -> MockStatuses] /\ Simulated' = Simulated
  <2> DEFINE status == NextStatus[mockCalls[m]]
  <2>1. status \in {"in_progress", "completed"} /\ mockCalls[m] # "none"
    BY <1>1, NextStatusValue
  <2>2. mockCalls' = [mockCalls EXCEPT ![m] = status]
    BY <1>1
  <2> HIDE DEF status
  <2> QED
    BY <2>1, <2>2 DEF IInv, TypeOK, MockStatuses, Simulated
<1>4. TypeOK'
  BY <1>1, <1>2, <1>3 DEF IInv, TypeOK, Calls
<1>5. TableIsWhole'
  BY <1>1, <1>3 DEF IInv, TableIsWhole, Counted
<1> QED
  BY <1>2, <1>4, <1>5 DEF IInv

LEMMA ClickInv ==
  ASSUME IInv, NEW m \in Mocks, ClickMock(m)
  PROVE  IInv'
<1>1. ShowMock(m) /\ UNCHANGED <<version, mockCalls, calls, stats, note, signedIn, fetch>>
  BY DEF ClickMock
<1>2. /\ selectedId' \in Calls /\ crossed' \in BOOLEAN
      /\ detail' \in [of: Calls, state: {"empty", "loading", "shown", "error"}]
      /\ FetchesAreSelected' /\ DetailIsSelected'
  BY <1>1, ShowStep
<1>3. TypeOK'
  BY <1>1, <1>2 DEF IInv, TypeOK, Calls
<1>4. TableIsWhole'
  BY <1>1 DEF IInv, TableIsWhole, Counted, Simulated
<1> QED
  BY <1>2, <1>3, <1>4 DEF IInv

\* The click on a stored call: every fetch that is on its way is of that call,
\* or the clicks have crossed.
LEMMA ClickStoredInv ==
  ASSUME IInv, NEW f \in Fetches, NEW s \in Stored, ClickStored(f, s)
  PROVE  IInv'
<1> DEFINE new == [kind |-> "transcript", call |-> s]
<1>1. /\ fetch' = [fetch EXCEPT ![f] = new]
      /\ selectedId' = s /\ detail' = [of |-> s, state |-> "loading"]
      /\ crossed' = (crossed \/ FetchingOther(s))
      /\ UNCHANGED <<version, mockCalls, calls, stats, note, signedIn>>
  BY DEF ClickStored
<1>2. new \in FetchStates /\ new.kind = "transcript" /\ new.call = s
  BY FetchValues
<1>3. /\ fetch' \in [Fetches -> FetchStates] /\ fetch'[f] = new
      /\ \A g \in Fetches : g # f => fetch'[g] = fetch[g]
  BY <1>1, <1>2, FetchStep DEF IInv
<1>4. DetailIsSelected'
  BY <1>1, <1>3 DEF DetailIsSelected
<1> HIDE DEF new
<1>5. FetchesAreSelected'
  BY <1>1, <1>2, <1>3 DEF FetchesAreSelected, FetchingOther
<1>6. TypeOK'
  BY <1>1, <1>3 DEF IInv, TypeOK
<1>7. TableIsWhole'
  BY <1>1 DEF IInv, TableIsWhole, Counted, Simulated
<1> QED
  BY <1>4, <1>5, <1>6, <1>7 DEF IInv

\* The transcript that arrives is that of the selected call, or the clicks have
\* crossed.
LEMMA TranscriptInv ==
  ASSUME IInv, NEW f \in Fetches, ShowTranscript(f)
  PROVE  IInv'
<1>1. /\ fetch[f].kind = "transcript" /\ fetch' = [fetch EXCEPT ![f] = Idle]
      /\ UNCHANGED <<version, mockCalls, calls, stats, note, selectedId, signedIn, crossed>>
  BY DEF ShowTranscript
<1>2. PICK state \in {"shown", "error"} : detail' = [of |-> fetch[f].call, state |-> state]
  BY DEF ShowTranscript
<1>3. /\ fetch' \in [Fetches -> FetchStates] /\ fetch'[f].kind = "idle"
      /\ \A g \in Fetches : g # f => fetch'[g] = fetch[g]
  BY <1>1, FetchStep, FetchValues DEF IInv
<1>4. fetch[f].call \in Stored /\ (~crossed => fetch[f].call = selectedId)
  BY <1>1, FetchValues DEF IInv, TypeOK, FetchesAreSelected
<1>5. FetchesAreSelected'
  BY <1>1, <1>3 DEF IInv, FetchesAreSelected
<1>6. DetailIsSelected'
  BY <1>1, <1>2, <1>4 DEF DetailIsSelected
<1>7. TypeOK'
  BY <1>1, <1>2, <1>3, <1>4 DEF IInv, TypeOK
<1>8. TableIsWhole'
  BY <1>1 DEF IInv, TableIsWhole, Counted, Simulated
<1> QED
  BY <1>5, <1>6, <1>7, <1>8 DEF IInv

LEMMA ServerInv ==
  ASSUME IInv, ServerChanges
  PROVE  IInv'
<1>a. version \in Versions /\ version < MaxVersion /\ version' = version + 1
      /\ UNCHANGED <<page, fetch>>
  BY DEF ServerChanges, IInv, TypeOK
<1>b. version' \in Versions
  BY <1>a, ConsoleAssumption DEF Versions
<1>1. version' \in Versions /\ UNCHANGED <<page, fetch>>
  BY <1>a, <1>b
<1>2. TypeOK'
  BY <1>1 DEF IInv, TypeOK, page
<1>3. TableIsWhole' /\ FetchesAreSelected' /\ DetailIsSelected'
  BY <1>1 DEF IInv, page, TableIsWhole, Counted, Simulated, FetchesAreSelected, DetailIsSelected
<1> QED
  BY <1>2, <1>3 DEF IInv

LEMMA StepInv == ASSUME IInv, [Next]_vars PROVE IInv'
<1>1. CASE UNCHANGED vars
  <2>1. TypeOK'
    BY <1>1 DEF IInv, TypeOK, vars, page
  <2>2. TableIsWhole' /\ FetchesAreSelected' /\ DetailIsSelected'
    BY <1>1 DEF IInv, vars, page, TableIsWhole, Counted, Simulated, FetchesAreSelected, DetailIsSelected
  <2> QED
    BY <2>1, <2>2 DEF IInv
<1>2. CASE Next
  BY <1>2, LoadInv, ApplyInv, SimulateInv, UpdateInv, ClickInv, ClickStoredInv, TranscriptInv, ServerInv
     DEF Next, Settle
<1> QED
  BY <1>1, <1>2

\* The table, the statistics, the selection and the fetches in flight agree, in
\* whatever order the answers and the timers come (load, updateMock, selectCall).
THEOREM InvariantHolds == Spec => []IInv
<1>1. IInv /\ [Next]_vars => IInv'
  BY StepInv
<1> QED
  BY InitInv, <1>1, PTL DEF Spec

\* No answer takes a simulated call out of the table, and the statistics count
\* what it shows (load, stats).
THEOREM TablesAreWhole == Spec => []TableIsWhole
<1>1. IInv => TableIsWhole
  BY DEF IInv
<1> QED
  BY InvariantHolds, <1>1, PTL

\* The console shows the details of the selected call, unless another call was
\* selected in the middle of a fetch (selectCall).
THEOREM DetailsAreSelected == Spec => []DetailIsSelected
<1>1. IInv => DetailIsSelected
  BY DEF IInv
<1> QED
  BY InvariantHolds, <1>1, PTL

\* No timer and no answer selects a call (updateMock, selectCall).
THEOREM UsersSelect == Spec => SelectionIsTheUsers
<1> DEFINE Users == \/ \E m \in Mocks : Simulate(m) \/ ClickMock(m)
                    \/ \E f \in Fetches, s \in Stored : ClickStored(f, s)
<1>1. ASSUME Next, selectedId' # selectedId PROVE Users
  <2>1. ~ \E f \in Fetches : Load(f) \/ Settle(f)
    BY <1>1 DEF Load, Settle, AnswerLoad, ApplyLoad, FailLoad, ShowTranscript, page
  <2>2. ~ \E m \in Mocks : UpdateMock(m)
    BY <1>1 DEF UpdateMock, ShowMock
  <2>3. ~ServerChanges
    BY <1>1 DEF ServerChanges, page
  <2> QED
    BY <1>1, <2>1, <2>2, <2>3 DEF Next
<1>2. [Next]_vars => [selectedId' # selectedId => Users]_vars
  BY <1>1
<1> QED
  BY <1>2, PTL DEF Spec, SelectionIsTheUsers
===============================================================================

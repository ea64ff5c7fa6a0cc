------------------------------ MODULE VoiceConsole ------------------------------
(***************************************************************************)
(* The console of the voice worker, the script of wwwroot/index.html: the  *)
(* list of calls, the transcript of the selected one and simulated calls   *)
(* that timers move on.  Each action is a callback that runs to its next   *)
(* await.  Loads and transcripts that are fetched at the same time are     *)
(* answered in any order, and the page may have gone on meanwhile.         *)
(***************************************************************************)
EXTENDS Naturals

CONSTANTS
  Mocks,       \* simulated calls
  Stored,      \* calls of the server
  Fetches,     \* requests of the page that are in flight at the same time
  MaxVersion   \* bound on the changes of the server's list

ASSUME ConsoleAssumption ==
  /\ Mocks \cap Stored = {} /\ "none" \notin Mocks \cup Stored
  /\ MaxVersion \in Nat \ {0}

\* What the timers of a simulated call make of its status
NextStatus == [ringing |-> "in_progress", in_progress |-> "completed"]
MockStatuses == {"none", "ringing", "in_progress", "completed"}

VARIABLES
  version,    \* how often the server's calls have changed
  mockCalls,  \* simulated call -> its status
  calls,      \* the version of the stored calls, 0 before any, and the simulated
              \* calls in the table
  stats,      \* what the statistics have counted
  note,       \* the line that says how the last load went
  selectedId, detail, \* the selected call, and whose details are shown
  signedIn,   \* calls can be simulated
  fetch,      \* request of the page -> what it waits for
  crossed     \* a call was selected while the transcript of another one was fetched

page == <<mockCalls, calls, stats, note, selectedId, detail, signedIn, crossed>>
vars == <<version, page, fetch>>

Versions == 1..MaxVersion
Idle == [kind |-> "idle"]
FetchStates ==
  [kind: {"idle", "calls", "failed"}] \cup [kind: {"answered"}, version: Versions]
    \cup [kind: {"transcript"}, call: Stored]

Init ==
  /\ version = 1
  /\ mockCalls = [m \in Mocks |-> "none"]
  /\ calls = [stored |-> 0, mocks |-> {}]
  /\ stats = [stored |-> 0, mocks |-> [m \in {} |-> "none"]]
  /\ note = "ready" /\ selectedId = "none" /\ detail = [of |-> "none", state |-> "empty"]
  /\ signedIn = FALSE
  /\ fetch = [f \in Fetches |-> Idle]
  /\ crossed = FALSE

-------------------------------------------------------------------------------
\* calls holds the objects of mockCalls, so that it sees their new status.
Counted(list, status) == [stored |-> list.stored, mocks |-> [m \in list.mocks |-> status[m]]]

Simulated == {m \in Mocks : mockCalls[m] # "none"}

FetchingOther(id) == \E f \in Fetches : fetch[f].kind = "transcript" /\ fetch[f].call # id

\* selectCall of a simulated call, which does not wait
ShowMock(m) ==
  /\ selectedId' = m /\ detail' = [of |-> m, state |-> "shown"]
  /\ crossed' = (crossed \/ FetchingOther(m))

\* The loading of the calls, by either of two buttons; the server answers ...
Load(f) ==
  /\ fetch[f] = Idle
  /\ fetch' = [fetch EXCEPT ![f] = [kind |-> "calls"]]
  /\ note' = "loading"
  /\ UNCHANGED <<version, mockCalls, calls, stats, selectedId, detail, signedIn, crossed>>

\* ... with the calls it has then, or with an error ...
AnswerLoad(f) ==
  /\ fetch[f].kind = "calls"
  /\ \E answer \in {[kind |-> "answered", version |-> version], [kind |-> "failed"]} :
       fetch' = [fetch EXCEPT ![f] = answer]
  /\ UNCHANGED <<version, page>>

\* Faulty variant: the stored calls replace the table.
ApplyStored(f) ==
  /\ fetch[f].kind = "answered"
  /\ calls' = [stored |-> fetch[f].version, mocks |-> {}]
  /\ stats' = Counted(calls', mockCalls)
  /\ signedIn' = TRUE /\ note' = "loaded"
  /\ fetch' = [fetch EXCEPT ![f] = Idle]
  /\ UNCHANGED <<version, mockCalls, selectedId, detail, crossed>>

\* ... and the page puts the simulated calls it has by now before them ...
ApplyLoad(f) ==
  /\ fetch[f].kind = "answered"
  /\ calls' = [stored |-> fetch[f].version, mocks |-> Simulated]
  /\ stats' = Counted(calls', mockCalls)
  /\ signedIn' = TRUE /\ note' = "loaded"
  /\ fetch' = [fetch EXCEPT ![f] = Idle]
  /\ UNCHANGED <<version, mockCalls, selectedId, detail, crossed>>

\* ... or shows the error and keeps what it had.
FailLoad(f) ==
  /\ fetch[f].kind = "failed"
  /\ note' = "not loaded"
  /\ fetch' = [fetch EXCEPT ![f] = Idle]
  /\ UNCHANGED <<version, mockCalls, calls, stats, selectedId, detail, signedIn, crossed>>

\* simulateCall
Simulate(m) ==
  /\ signedIn /\ mockCalls[m] = "none"
  /\ mockCalls' = [mockCalls EXCEPT ![m] = "ringing"]
  /\ calls' = [calls EXCEPT !.mocks = @ \cup {m}]
  /\ stats' = Counted(calls', mockCalls')
  /\ ShowMock(m)
  /\ UNCHANGED <<version, note, signedIn, fetch>>

\* Faulty variant: the call is shown whether it is selected or not.
UpdateMockShown(m) ==
  /\ mockCalls[m] \in DOMAIN NextStatus
  /\ mockCalls' = [mockCalls EXCEPT ![m] = NextStatus[@]]
  /\ stats' = Counted(calls, mockCalls')
  /\ ShowMock(m)
  /\ UNCHANGED <<version, calls, note, signedIn, fetch>>

\* Faulty variant: the second timer is not set.
UpdateMockOnce(m) ==
  /\ mockCalls[m] = "ringing"
  /\ mockCalls' = [mockCalls EXCEPT ![m] = NextStatus[@]]
  /\ stats' = Counted(calls, mockCalls')
  /\ IF selectedId = m THEN ShowMock(m) ELSE UNCHANGED <<selectedId, detail, crossed>>
  /\ UNCHANGED <<version, calls, note, signedIn, fetch>>

\* updateMock, the callback of the timers
UpdateMock(m) ==
  /\ mockCalls[m] \in DOMAIN NextStatus
  /\ mockCalls' = [mockCalls EXCEPT ![m] = NextStatus[@]]
  /\ stats' = Counted(calls, mockCalls')
  /\ IF selectedId = m THEN ShowMock(m) ELSE UNCHANGED <<selectedId, detail, crossed>>
  /\ UNCHANGED <<version, calls, note, signedIn, fetch>>

\* A click on a row: selectCall, which fetches the transcript of a stored call.
ClickMock(m) ==
  /\ m \in calls.mocks
  /\ ShowMock(m)
  /\ UNCHANGED <<version, mockCalls, calls, stats, note, signedIn, fetch>>

ClickStored(f, s) ==
  /\ calls.stored # 0 /\ fetch[f] = Idle
  /\ fetch' = [fetch EXCEPT ![f] = [kind |-> "transcript", call |-> s]]
  /\ selectedId' = s /\ detail' = [of |-> s, state |-> "loading"]
  /\ crossed' = (crossed \/ FetchingOther(s))
  /\ UNCHANGED <<version, mockCalls, calls, stats, note, signedIn>>

\* Faulty variant: nothing is shown for an error.
ShowTranscriptOnly(f) ==
  /\ fetch[f].kind = "transcript"
  /\ detail' \in {detail, [of |-> fetch[f].call, state |-> "shown"]}
  /\ fetch' = [fetch EXCEPT ![f] = Idle]
  /\ UNCHANGED <<version, mockCalls, calls, stats, note, selectedId, signedIn, crossed>>

\* The transcript, or an error, is shown whatever is selected by now.
ShowTranscript(f) ==
  /\ fetch[f].kind = "transcript"
  /\ \E state \in {"shown", "error"} : detail' = [of |-> fetch[f].call, state |-> state]
  /\ fetch' = [fetch EXCEPT ![f] = Idle]
  /\ UNCHANGED <<version, mockCalls, calls, stats, note, selectedId, signedIn, crossed>>

\* The calls of the server change.
ServerChanges ==
  /\ version < MaxVersion /\ version' = version + 1
  /\ UNCHANGED <<page, fetch>>

Settle(f) == AnswerLoad(f) \/ ApplyLoad(f) \/ FailLoad(f) \/ ShowTranscript(f)

Next ==
  \/ \E f \in Fetches : Load(f) \/ Settle(f) \/ \E s \in Stored : ClickStored(f, s)
  \/ \E m \in Mocks : Simulate(m) \/ UpdateMock(m) \/ ClickMock(m)
  \/ ServerChanges

\* Timers fire, and a fetch ends with an answer or an error of the browser.
Fairness == (\A f \in Fetches : WF_vars(Settle(f))) /\ \A m \in Mocks : WF_vars(UpdateMock(m))

Spec == Init /\ [][Next]_vars /\ Fairness

-------------------------------------------------------------------------------
(* Properties *)

TypeOK ==
  /\ version \in Versions
  /\ mockCalls \in [Mocks -> MockStatuses]
  /\ calls \in [stored: 0..MaxVersion, mocks: SUBSET Mocks]
  /\ note \in {"ready", "loading", "loaded", "not loaded"}
  /\ selectedId \in Mocks \cup Stored \cup {"none"}
  /\ detail \in [of: Mocks \cup Stored \cup {"none"}, state: {"empty", "loading", "shown", "error"}]
  /\ fetch \in [Fetches -> FetchStates]
  /\ signedIn \in BOOLEAN /\ crossed \in BOOLEAN

\* No load takes a simulated call out of the table, whenever its answer arrives
\* (load), and the statistics have counted what the table shows, after every
\* callback (stats).
TableIsWhole ==
  /\ calls.mocks = Simulated
  /\ stats = Counted(calls, mockCalls)

\* The details are those of the selected call, and loading means that they are
\* being fetched, unless another call was selected in the middle of a fetch
\* (selectCall does not compare selectedId when the transcript has arrived).
DetailIsSelected ==
  ~ crossed =>
    /\ detail.of = selectedId
    /\ detail.state = "loading" => \E f \in Fetches : fetch[f] = [kind |-> "transcript", call |-> selectedId]

\* Every transcript that is fetched is that of the selected call, unless another
\* call was selected in the middle of the fetch.
FetchesAreSelected ==
  ~ crossed => \A f \in Fetches : fetch[f].kind = "transcript" => fetch[f].call = selectedId

\* The inductive invariant: with FetchesAreSelected a transcript that arrives is
\* that of the call whose details are shown.
IInv == TypeOK /\ TableIsWhole /\ FetchesAreSelected /\ DetailIsSelected

\* Only the user selects a call: no timer and no answer does.
SelectionIsTheUsers ==
  [][selectedId' # selectedId =>
       \/ \E m \in Mocks : Simulate(m) \/ ClickMock(m)
       \/ \E f \in Fetches, s \in Stored : ClickStored(f, s)]_vars

\* The page never says for ever that it is loading.
PageSettles ==
  /\ (note = "loading") ~> (note # "loading")
  /\ (detail.state = "loading") ~> (detail.state # "loading")

\* A simulated call ends, and is in the table then.
SimulationsEnd ==
  \A m \in Mocks : (mockCalls[m] # "none") ~> (mockCalls[m] = "completed" /\ m \in calls.mocks)
===============================================================================

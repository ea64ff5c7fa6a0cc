-------------------------- MODULE MediaBridge_proofs --------------------------
(***************************************************************************)
(* Proofs about MediaBridge, for any finite set of streams and any number  *)
(* of slots.                                                               *)
(***************************************************************************)
EXTENDS MediaBridge, FiniteSetTheorems, TLAPS

Quiet == Ended \cup {"none"}

\* x goes on as new: it keeps its slot, and its relays run only while bridging.
Proper(x, new) ==
  /\ Become(x, new) /\ UNCHANGED free
  /\ new \in StreamStates
  /\ stream[x].pc # "idle" /\ new.pc # "idle"
  /\ new.pc # "bridge" => {new.fromTwilio, new.fromOpenAi} \subseteq Quiet

LEMMA AgainType ==
  ASSUME NEW x, NEW socket
  PROVE  Again(x, socket) \in {"receive", "ended"}
BY DEF Again

LEMMA ProperHandler ==
  ASSUME IInv, NEW x \in Streams, Accept(x) \/ Connect(x)
  PROVE  \E new \in StreamStates : Proper(x, new)
<1>1. stream[x] \in StreamStates
  BY DEF IInv, TypeOK
<1>2. stream[x].pc # "bridge" => Relays(x) \subseteq Quiet
  BY DEF IInv, NothingLeftRunning, Quiet
<1>3. CASE Accept(x)
  <2>1. PICK next \in {"connect", "release"} : Goto(x, next)
    BY <1>3 DEF Accept
  <2>2. [stream[x] EXCEPT !.pc = next] \in StreamStates
    BY <1>1, <2>1 DEF StreamStates
  <2> QED
    BY <1>1, <1>2, <1>3, <2>1, <2>2 DEF Proper, Accept, Goto, Relays, StreamStates
<1>4. CASE Connect(x)
  <2> DEFINE bridging == [stream[x] EXCEPT !.pc = "bridge", !.fromTwilio = "receive",
                                           !.fromOpenAi = "receive"]
             failing == [stream[x] EXCEPT !.pc = "release"]
  <2>1. bridging \in StreamStates /\ failing \in StreamStates
    BY <1>1 DEF StreamStates
  <2>2. bridging.pc = "bridge"
    BY <1>1 DEF StreamStates
  <2>3. /\ failing.pc = "release"
        /\ {failing.fromTwilio, failing.fromOpenAi} = Relays(x)
    BY <1>1 DEF StreamStates, Relays
  <2>4. stream[x].pc = "connect" /\ UNCHANGED free
    BY <1>4 DEF Connect
  <2>5. Become(x, bridging) \/ Become(x, failing)
    BY <1>4 DEF Connect, Goto
  <2> HIDE DEF bridging, failing
  <2>6. Become(x, bridging) => Proper(x, bridging)
    BY <2>1, <2>2, <2>4 DEF Proper
  <2>7. Become(x, failing) => Proper(x, failing)
    BY <1>2, <2>1, <2>3, <2>4 DEF Proper
  <2> QED
    BY <2>1, <2>5, <2>6, <2>7
<1> QED
  BY <1>3, <1>4

\* A relay that runs belongs to a stream that is bridging, and stays with it.
LEMMA Relayed ==
  ASSUME IInv, NEW x \in Streams, ~ Relays(x) \subseteq Quiet, UNCHANGED free,
         NEW new \in StreamStates, new.pc = stream[x].pc, Become(x, new)
  PROVE  Proper(x, new)
BY DEF Proper, IInv, NothingLeftRunning, Quiet

LEMMA Moves ==
  ASSUME IInv, NEW x \in Streams, Relaying(x) \/ Cancelling(x)
  PROVE  \E new \in StreamStates : new.pc = stream[x].pc /\ Become(x, new)
<1> DEFINE Good(new) == new \in StreamStates /\ new.pc = stream[x].pc
<1>1. stream[x] \in StreamStates
  BY DEF IInv, TypeOK
<1>2. \A next \in {"receive", "send"} \cup Ended : Good(Twilio(x, next))
  BY <1>1 DEF Twilio, StreamStates
<1>3. \A next \in {"receive", "wait_sid", "send", "clear", "interrupt", "persist"} \cup Ended :
         Good(OpenAi(x, next))
  BY <1>1 DEF OpenAi, StreamStates
<1>4. \A socket : Again(x, socket) \in {"receive", "ended"}
  BY AgainType
<1>5. ASSUME NEW new, Good(new)
      PROVE  /\ \A socket \in Sockets : /\ Good([new EXCEPT !.twilio = socket])
                                       /\ Good([new EXCEPT !.openai = socket])
             /\ Good([new EXCEPT !.sid = TRUE])
  BY <1>5 DEF StreamStates
<1> SUFFICES \E new : Good(new) /\ Become(x, new)
  OBVIOUS
<1>6. /\ "aborted" \in Sockets /\ "close_received" \in Sockets
      /\ {"ended", "failed", "cancelled"} \subseteq Ended
  BY DEF Sockets, Ended
<1> HIDE DEF Good
<1>7. CASE ReceiveFromTwilio(x)
  <2>1. Again(x, stream[x].twilio) \in {"receive", "send"} \cup Ended
    BY <1>4, <1>6
  <2> QED
    BY <1>2, <1>5, <1>6, <1>7, <2>1 DEF ReceiveFromTwilio
<1>8. CASE SendToOpenAi(x)
  BY <1>2, <1>4, <1>6, <1>8 DEF SendToOpenAi
<1>9. CASE ReceiveFromOpenAi(x)
  <2>1. Again(x, stream[x].openai) \in {"receive"} \cup Ended
    BY <1>4, <1>6
  <2> QED
    BY <1>3, <1>5, <1>6, <1>9, <2>1 DEF ReceiveFromOpenAi
<1>10. CASE WorkForOpenAi(x)
  <2>1. AfterStep(x) \in {"receive", "send", "interrupt"} \cup Ended
    BY <1>4, <1>6 DEF AfterStep
  <2> QED
    BY <1>3, <1>6, <1>10, <2>1 DEF WorkForOpenAi
<1>11. CASE CancelFromTwilio(x)
  BY <1>2, <1>5, <1>6, <1>11 DEF CancelFromTwilio
<1>12. CASE CancelFromOpenAi(x)
  BY <1>3, <1>5, <1>6, <1>12 DEF CancelFromOpenAi
<1> QED
  BY <1>7, <1>8, <1>9, <1>10, <1>11, <1>12 DEF Relaying, Cancelling

LEMMA ProperRelay ==
  ASSUME IInv, NEW x \in Streams, Relaying(x) \/ Cancelling(x)
  PROVE  \E new \in StreamStates : Proper(x, new)
<1>1. UNCHANGED free /\ ~ Relays(x) \subseteq Quiet
  BY DEF Relaying, Cancelling, ReceiveFromTwilio, SendToOpenAi, ReceiveFromOpenAi,
         WorkForOpenAi, CancelFromTwilio, CancelFromOpenAi, Relays, Quiet, Ended
<1> QED
  BY <1>1, Moves, Relayed

LEMMA ProperEnd ==
  ASSUME IInv, NEW x \in Streams,
         Ending(x) \/ TimeLimit(x) \/ PeerCloses(x) \/ CloseFails(x)
  PROVE  \E new \in StreamStates : Proper(x, new)
<1>1. stream[x] \in StreamStates
  BY DEF IInv, TypeOK
<1>2. UNCHANGED free
  BY DEF Ending, StopOther, TimeLimit, RequestStop, Join, CloseIfOpen, PeerCloses, CloseFails
<1>3. stream[x].pc # "bridge" => Relays(x) \subseteq Quiet
  BY DEF IInv, NothingLeftRunning, Quiet
<1>4. ASSUME RequestStop(x)
      PROVE  \E new \in StreamStates : Proper(x, new)
  <2> DEFINE new == [stream[x] EXCEPT !.stop = TRUE]
  <2>1. new \in StreamStates /\ new.pc = "bridge"
    BY <1>1, <1>4 DEF StreamStates, RequestStop
  <2> QED
    BY <1>2, <1>4, <2>1 DEF Proper, RequestStop
<1>5. ASSUME NEW pc \in {"close_openai", "close_twilio", "release"}, Goto(x, pc),
             stream[x].pc # "idle", Relays(x) \subseteq Quiet
      PROVE  \E new \in StreamStates : Proper(x, new)
  <2> DEFINE new == [stream[x] EXCEPT !.pc = pc]
  <2>1. new \in StreamStates /\ new.pc = pc /\ {new.fromTwilio, new.fromOpenAi} = Relays(x)
    BY <1>1 DEF StreamStates, Relays
  <2>2. Become(x, new)
    BY <1>5 DEF Goto
  <2> HIDE DEF new
  <2> QED
    BY <1>2, <1>5, <2>1, <2>2 DEF Proper
<1>6. CASE Join(x)
  BY <1>5, <1>6 DEF Join, Quiet
<1>7. ASSUME Closing(x) # "none"
      PROVE  /\ stream[x].pc # "idle" /\ Relays(x) \subseteq Quiet
             /\ AfterClose(x) \in {"close_twilio", "release"}
  BY <1>3, <1>7 DEF Closing, AfterClose
<1>8. CASE CloseIfOpen(x) \/ PeerCloses(x) \/ CloseFails(x)
  BY <1>5, <1>7, <1>8 DEF CloseIfOpen, PeerCloses, CloseFails
<1> QED
  BY <1>4, <1>6, <1>8 DEF Ending, StopOther, TimeLimit

-------------------------------------------------------------------------------
(* The inductive invariant *)

LEMMA InitIInv == Init => IInv
<1> SUFFICES ASSUME Init PROVE IInv
  OBVIOUS
<1>1. TypeOK
  BY StreamsAssumption DEF Init, TypeOK, StreamStates, Idle, Sockets
<1>2. NothingLeftRunning
  BY DEF Init, NothingLeftRunning, Idle, Relays
<1>3. Busy = {}
  BY DEF Init, Busy, Idle
<1>4. SlotsConserved
  BY <1>3, FS_EmptySet, StreamsAssumption DEF SlotsConserved, Init
<1> QED
  BY <1>1, <1>2, <1>4 DEF IInv

LEMMA BusyFinite == IsFiniteSet(Busy) /\ Cardinality(Busy) \in Nat
<1>1. IsFiniteSet(Busy)
  BY FS_Subset, StreamsAssumption DEF Busy
<1> QED
  BY <1>1, FS_CardinalityType

LEMMA ProperKeeps ==
  ASSUME IInv, NEW x \in Streams, NEW new, Proper(x, new)
  PROVE  IInv'
<1>1. /\ stream' = [stream EXCEPT ![x] = new]
      /\ free' = free
  BY DEF Proper, Become
<1>2. TypeOK'
  BY <1>1 DEF IInv, TypeOK, Proper
<1>3. Busy' = Busy
  BY <1>1 DEF Busy, Proper, IInv, TypeOK
<1>4. SlotsConserved'
  BY <1>1, <1>3 DEF IInv, SlotsConserved
<1>5. NothingLeftRunning'
  BY <1>1 DEF IInv, NothingLeftRunning, Proper, Relays, Quiet, TypeOK
<1> QED
  BY <1>2, <1>4, <1>5 DEF IInv

LEMMA TakeSlotKeeps ==
  ASSUME IInv, NEW x \in Streams, TakeSlot(x)
  PROVE  IInv'
<1> DEFINE new == [stream[x] EXCEPT !.pc = "accept"]
<1>1. new \in StreamStates /\ new.pc = "accept"
      /\ {new.fromTwilio, new.fromOpenAi} = Relays(x)
  BY DEF IInv, TypeOK, StreamStates, Relays
<1>2. stream' = [stream EXCEPT ![x] = new]
  BY DEF TakeSlot, Goto, Become
<1> HIDE DEF new
<1>3. TypeOK'
  BY <1>1, <1>2 DEF IInv, TypeOK, TakeSlot
<1>4. NothingLeftRunning'
  BY <1>1, <1>2 DEF IInv, NothingLeftRunning, TakeSlot, Relays, TypeOK
<1>5. Busy' = Busy \cup {x} /\ x \notin Busy
  BY <1>1, <1>2 DEF Busy, TakeSlot, IInv, TypeOK
<1>6. Cardinality(Busy') = Cardinality(Busy) + 1
  BY <1>5, BusyFinite, FS_AddElement
<1>7. SlotsConserved'
  BY <1>6, BusyFinite, StreamsAssumption DEF IInv, SlotsConserved, TakeSlot, TypeOK
<1> QED
  BY <1>3, <1>4, <1>7 DEF IInv

LEMMA ReleaseKeeps ==
  ASSUME IInv, NEW x \in Streams, Release(x)
  PROVE  IInv'
<1>1. stream' = [stream EXCEPT ![x] = Idle] /\ free' = free + 1
  BY DEF Release, Become
<1>2. TypeOK'
  BY <1>1 DEF IInv, TypeOK, StreamStates, Idle, Sockets
<1>3. NothingLeftRunning'
  BY <1>1 DEF IInv, NothingLeftRunning, Relays, Idle, TypeOK
<1>4. Busy' = Busy \ {x} /\ x \in Busy
  BY <1>1 DEF Busy, Release, IInv, TypeOK, Idle
<1>5. Cardinality(Busy') = Cardinality(Busy) - 1
  BY <1>4, BusyFinite, FS_RemoveElement
<1>6. SlotsConserved'
  BY <1>1, <1>5, BusyFinite, StreamsAssumption DEF IInv, SlotsConserved, TypeOK
<1> QED
  BY <1>2, <1>3, <1>6 DEF IInv

LEMMA Inductive == Spec => []IInv
<1>1. IInv /\ [Next]_vars => IInv'
  <2> SUFFICES ASSUME IInv, [Next]_vars PROVE IInv'
    OBVIOUS
  <2>1. CASE UNCHANGED vars
    BY <2>1 DEF vars, IInv, TypeOK, SlotsConserved, Busy, NothingLeftRunning, Relays
  <2>2. ASSUME NEW x \in Streams, Handler(x)
        PROVE  IInv'
    BY <2>2, TakeSlotKeeps, ReleaseKeeps, ProperHandler, ProperKeeps DEF Handler
  <2>3. ASSUME NEW x \in Streams, Relaying(x) \/ Cancelling(x)
        PROVE  IInv'
    BY <2>3, ProperRelay, ProperKeeps
  <2>4. ASSUME NEW x \in Streams, Ending(x) \/ TimeLimit(x) \/ PeerCloses(x) \/ CloseFails(x)
        PROVE  IInv'
    BY <2>4, ProperEnd, ProperKeeps
  <2> QED
    BY <2>1, <2>2, <2>3, <2>4 DEF Next
<1> QED
  BY InitIInv, <1>1, PTL DEF Spec

-------------------------------------------------------------------------------
(* Theorems *)

\* No stream loses a slot or gives it back twice, however it ends.
THEOREM SlotsAreConserved == Spec => []SlotsConserved
<1>1. IInv => SlotsConserved
  BY DEF IInv
<1> QED
  BY <1>1, Inductive, PTL

\* When a stream is closed or has given its slot back its relays have ended.
THEOREM RelaysAreOver == Spec => []NothingLeftRunning
<1>1. IInv => NothingLeftRunning
  BY DEF IInv
<1> QED
  BY <1>1, Inductive, PTL
===============================================================================

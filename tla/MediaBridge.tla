------------------------------ MODULE MediaBridge ------------------------------
(***************************************************************************)
(* A Twilio media stream: VoiceMediaWebSocketHandler takes a slot, accepts *)
(* the WebSocket and has OpenAIRealtimeClient bridge it to OpenAI; two     *)
(* relays run until one of them ends or the stream is stopped from outside *)
(* (its time limit, or the client is gone), then the other is cancelled,   *)
(* the sockets are closed and the slot is given back.                      *)
(*                                                                         *)
(* Cancelling a receive or a send of a .NET WebSocket aborts the socket,   *)
(* and closing one that is open waits for the other side to close it too.  *)
(* Requests refused before they take a slot leave no trace.                *)
(***************************************************************************)
EXTENDS Naturals, FiniteSets

CONSTANTS
  Streams,     \* requests for a media stream
  MaxStreams   \* VoiceMediaSecurityOptions.MaxConcurrentStreams

ASSUME StreamsAssumption == IsFiniteSet(Streams) /\ MaxStreams \in Nat \ {0}

VARIABLES
  free,    \* _streamSlots.CurrentCount
  stream   \* stream -> the state of its handler, its relays and its sockets

vars == <<free, stream>>

\* How a relay ends: by its loop, by an exception, by the cancellation.
Ended == {"ended", "failed", "cancelled"}

Sockets == {"open", "close_received", "aborted"}

\* fromTwilio and fromOpenAi are the two relays, "none" before they start; sid
\* says that the streamSid is known, stop that the cancellation is requested.
StreamStates ==
  [pc: {"idle", "accept", "connect", "bridge", "close_openai", "close_twilio", "release"},
   fromTwilio: {"none", "receive", "send"} \cup Ended,
   fromOpenAi: {"none", "receive", "wait_sid", "send", "clear", "interrupt", "persist"} \cup Ended,
   twilio: Sockets, openai: Sockets, sid: BOOLEAN, stop: BOOLEAN]

Idle == [pc |-> "idle", fromTwilio |-> "none", fromOpenAi |-> "none",
         twilio |-> "open", openai |-> "open", sid |-> FALSE, stop |-> FALSE]

TypeOK == free \in Nat /\ stream \in [Streams -> StreamStates]

Init == free = MaxStreams /\ stream = [x \in Streams |-> Idle]

-------------------------------------------------------------------------------
(* VoiceMediaWebSocketHandler.HandleAsync *)

Become(x, new) == stream' = [stream EXCEPT ![x] = new]

Goto(x, pc) == Become(x, [stream[x] EXCEPT !.pc = pc])

TakeSlot(x) ==
  /\ stream[x].pc = "idle"
  /\ free > 0
  /\ free' = free - 1
  /\ Goto(x, "accept")

\* The upgrade and the connection to OpenAI succeed or throw; nothing but the
\* relays could have used the sockets.
Accept(x) ==
  /\ stream[x].pc = "accept"
  /\ \E next \in {"connect", "release"} : Goto(x, next)
  /\ UNCHANGED free

Connect(x) ==
  /\ stream[x].pc = "connect"
  /\ \/ Become(x, [stream[x] EXCEPT !.pc = "bridge", !.fromTwilio = "receive",
                                    !.fromOpenAi = "receive"])
     \/ Goto(x, "release")
  /\ UNCHANGED free

\* The finally block
Release(x) ==
  /\ stream[x].pc = "release"
  /\ free' = free + 1
  /\ Become(x, Idle)

-------------------------------------------------------------------------------
(* The relays *)

\* The head of the loop of a relay that reads from a socket in a state.
Again(x, socket) ==
  IF socket = "open" /\ ~stream[x].stop THEN "receive" ELSE "ended"

Twilio(x, next) == [stream[x] EXCEPT !.fromTwilio = next]
OpenAi(x, next) == [stream[x] EXCEPT !.fromOpenAi = next]

\* A message of Twilio: "start" tells the id of the stream, "media" carries
\* audio for OpenAI, "stop" and a close frame end the relay, and whatever
\* cannot be read throws.
ReceiveFromTwilio(x) ==
  LET again == Again(x, stream[x].twilio) IN
  /\ stream[x].fromTwilio = "receive"
  /\ \/ Become(x, [Twilio(x, again) EXCEPT !.sid = TRUE])
     \/ \E next \in {again, "send", "ended", "failed"} : Become(x, Twilio(x, next))
     \/ Become(x, [Twilio(x, "ended") EXCEPT !.twilio = "close_received"])
     \/ Become(x, [Twilio(x, "failed") EXCEPT !.twilio = "aborted"])
  /\ UNCHANGED free

SendToOpenAi(x) ==
  /\ stream[x].fromTwilio = "send"
  /\ \E next \in {Again(x, stream[x].twilio), "failed"} : Become(x, Twilio(x, next))
  /\ UNCHANGED free

CancelFromTwilio(x) ==
  /\ stream[x].stop
  /\ \/ /\ stream[x].fromTwilio = "receive"
        /\ Become(x, [Twilio(x, "cancelled") EXCEPT !.twilio = "aborted"])
     \/ /\ stream[x].fromTwilio = "send"
        /\ Become(x, [Twilio(x, "cancelled") EXCEPT !.openai = "aborted"])
  /\ UNCHANGED free

\* A message of OpenAI: audio waits for the id of the stream; speech of the
\* caller clears what Twilio has yet to play and cancels the response; a
\* transcript is stored; anything else is passed over.
ReceiveFromOpenAi(x) ==
  LET again == Again(x, stream[x].openai) IN
  /\ stream[x].fromOpenAi = "receive"
  /\ \/ \E next \in {again, "wait_sid", "persist", "failed"} : Become(x, OpenAi(x, next))
     \/ stream[x].sid /\ Become(x, OpenAi(x, "clear"))
     \/ Become(x, [OpenAi(x, "ended") EXCEPT !.openai = "close_received"])
     \/ Become(x, [OpenAi(x, "failed") EXCEPT !.openai = "aborted"])
  /\ UNCHANGED free

\* The step after the one at which the relay from OpenAI is.
AfterStep(x) ==
  CASE stream[x].fromOpenAi = "wait_sid" -> "send"
    [] stream[x].fromOpenAi = "clear" -> "interrupt"
    [] OTHER -> Again(x, stream[x].openai)

\* Failing to store a transcript is logged and no more.
WorkForOpenAi(x) ==
  /\ stream[x].fromOpenAi \in {"wait_sid", "send", "clear", "interrupt", "persist"}
  /\ stream[x].fromOpenAi = "wait_sid" => stream[x].sid
  /\ \/ Become(x, OpenAi(x, AfterStep(x)))
     \/ stream[x].fromOpenAi \notin {"wait_sid", "persist"} /\ Become(x, OpenAi(x, "failed"))
  /\ UNCHANGED free

\* Faulty variant: a transcript is stored without the token.
CancelAllButPersist(x) ==
  /\ stream[x].stop
  /\ stream[x].fromOpenAi \in {"receive", "wait_sid", "send", "clear", "interrupt"}
  /\ Become(x, OpenAi(x, "cancelled"))
  /\ UNCHANGED free

CancelFromOpenAi(x) ==
  /\ stream[x].stop
  /\ \/ /\ stream[x].fromOpenAi \in {"receive", "interrupt"}
        /\ Become(x, [OpenAi(x, "cancelled") EXCEPT !.openai = "aborted"])
     \/ /\ stream[x].fromOpenAi \in {"send", "clear"}
        /\ Become(x, [OpenAi(x, "cancelled") EXCEPT !.twilio = "aborted"])
     \/ /\ stream[x].fromOpenAi \in {"wait_sid", "persist"}
        /\ Become(x, OpenAi(x, "cancelled"))
  /\ UNCHANGED free

-------------------------------------------------------------------------------
(* The end of OpenAIRealtimeClient.BridgeAsync *)

RequestStop(x) ==
  /\ stream[x].pc = "bridge" /\ ~stream[x].stop
  /\ Become(x, [stream[x] EXCEPT !.stop = TRUE])
  /\ UNCHANGED free

\* One relay has ended.
StopOther(x) ==
  /\ stream[x].fromTwilio \in Ended \/ stream[x].fromOpenAi \in Ended
  /\ RequestStop(x)

\* The time limit of the stream has passed, or its request is aborted.
TimeLimit(x) == RequestStop(x)

Relays(x) == {stream[x].fromTwilio, stream[x].fromOpenAi}

\* Faulty variants: the other relay is not waited for; an exception of a relay
\* goes past the release of the slot.
JoinFirst(x) ==
  /\ stream[x].pc = "bridge" /\ stream[x].stop
  /\ Relays(x) \cap Ended # {}
  /\ Goto(x, IF "failed" \in Relays(x) THEN "release" ELSE "close_openai")
  /\ UNCHANGED free
JoinWithoutFinally(x) ==
  /\ stream[x].pc = "bridge" /\ stream[x].stop
  /\ Relays(x) \subseteq Ended
  /\ IF "failed" \in Relays(x) THEN Become(x, Idle) ELSE Goto(x, "close_openai")
  /\ UNCHANGED free

\* Task.WhenAll: an exception other than the cancellation skips the closing.
Join(x) ==
  /\ stream[x].pc = "bridge" /\ stream[x].stop
  /\ Relays(x) \subseteq Ended
  /\ Goto(x, IF "failed" \in Relays(x) THEN "release" ELSE "close_openai")
  /\ UNCHANGED free

Closing(x) ==
  CASE stream[x].pc = "close_openai" -> stream[x].openai
    [] stream[x].pc = "close_twilio" -> stream[x].twilio
    [] OTHER -> "none"

AfterClose(x) == IF stream[x].pc = "close_openai" THEN "close_twilio" ELSE "release"

\* CloseIfOpenAsync: nothing to do, or the answer to the other side's close.
CloseIfOpen(x) ==
  /\ Closing(x) \in {"aborted", "close_received"}
  /\ Goto(x, AfterClose(x))
  /\ UNCHANGED free

\* The other side answers our close, which waits for that without a token.
PeerCloses(x) ==
  /\ Closing(x) = "open"
  /\ Goto(x, AfterClose(x))
  /\ UNCHANGED free

\* The connection breaks while it is being closed.
CloseFails(x) ==
  /\ Closing(x) \in {"open", "close_received"}
  /\ Goto(x, "release")
  /\ UNCHANGED free

-------------------------------------------------------------------------------
Handler(x) == TakeSlot(x) \/ Accept(x) \/ Connect(x) \/ Release(x)

Relaying(x) ==
  \/ ReceiveFromTwilio(x) \/ SendToOpenAi(x)
  \/ ReceiveFromOpenAi(x) \/ WorkForOpenAi(x)

Cancelling(x) == CancelFromTwilio(x) \/ CancelFromOpenAi(x)

Ending(x) == StopOther(x) \/ Join(x) \/ CloseIfOpen(x)

Next ==
  \E x \in Streams :
    \/ Handler(x) \/ Relaying(x) \/ Cancelling(x) \/ Ending(x)
    \/ TimeLimit(x) \/ PeerCloses(x) \/ CloseFails(x)

Spec == Init /\ [][Next]_vars

\* The handler runs, a cancelled operation ends and the time limit passes.
\* Nobody has to send anything, take a slot, or answer.
Fairness ==
  \A x \in Streams :
    /\ WF_vars(Accept(x) \/ Connect(x) \/ Release(x))
    /\ WF_vars(CancelFromTwilio(x)) /\ WF_vars(CancelFromOpenAi(x))
    /\ WF_vars(Ending(x)) /\ WF_vars(TimeLimit(x))

FairSpec == Spec /\ Fairness

\* Both Twilio and OpenAI answer a close, or their connection breaks.
PeersSpec == FairSpec /\ \A x \in Streams : WF_vars(PeerCloses(x) \/ CloseFails(x))

-------------------------------------------------------------------------------
(* Properties *)

Busy == {x \in Streams : stream[x].pc # "idle"}

\* Every slot is free or belongs to one stream: none is lost when a stream
\* throws, and none given back twice, so the limit of streams stays what it is.
SlotsConserved == free + Cardinality(Busy) = MaxStreams

\* No relay runs on when its stream is being closed or has given its slot back:
\* nothing is sent, and no transcript stored, for a stream that is over.
NothingLeftRunning ==
  \A x \in Streams :
    stream[x].pc # "bridge" => Relays(x) \subseteq Ended \cup {"none"}

IInv == TypeOK /\ SlotsConserved /\ NothingLeftRunning

\* Once one relay has ended or the time is over, the other one ends as well,
\* even with a silent Twilio and a silent OpenAI.
StopEndsRelays ==
  \A x \in Streams : stream[x].pc = "bridge" /\ stream[x].stop ~> stream[x].pc # "bridge"

\* A stream gives its slot back.
EventuallyReleased == \A x \in Streams : stream[x].pc = "accept" ~> stream[x].pc = "idle"
===============================================================================

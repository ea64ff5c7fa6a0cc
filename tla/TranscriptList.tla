---------------------------- MODULE TranscriptList ----------------------------
(***************************************************************************)
(* What a transcript is: InMemoryVoiceTranscriptRepository.  Under one     *)
(* lock a message gets the number of messages of its session plus one.     *)
(***************************************************************************)
EXTENDS Naturals, FiniteSets

CONSTANTS Sessions, Messages

VARIABLE rows      \* session -> its numbered messages

Init == rows = [s \in Sessions |-> {}]

Append(s, m) ==
  rows' = [rows EXCEPT ![s] = @ \cup {[number |-> Cardinality(@) + 1, message |-> m]}]

Next == \E s \in Sessions, m \in Messages : Append(s, m)

Spec == Init /\ [][Next]_rows
===============================================================================

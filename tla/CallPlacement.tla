---------------------------- MODULE CallPlacement ----------------------------
(***************************************************************************)
(* What the dispatch of voice calls promises the one who pays for them:    *)
(* a session is tried a bounded number of times, one try after another; a  *)
(* try is repeated only if the provider refused it for its rate limit; and *)
(* once a call has been placed, or the session given up, that is the end.  *)
(***************************************************************************)
EXTENDS Naturals

CONSTANTS Sessions, MaxAttempts

VARIABLES
  phase,   \* session -> "waiting", "trying", "placed" or "abandoned"
  tries    \* session -> number of requests sent to the provider

Init ==
  /\ phase = [s \in Sessions |-> "waiting"]
  /\ tries = [s \in Sessions |-> 0]

Try(s) ==
  /\ phase[s] = "waiting" /\ tries[s] < MaxAttempts
  /\ phase' = [phase EXCEPT ![s] = "trying"]
  /\ tries' = [tries EXCEPT ![s] = @ + 1]

Throttled(s) ==
  /\ phase[s] = "trying"
  /\ phase' = [phase EXCEPT ![s] = "waiting"]
  /\ UNCHANGED tries

Place(s) ==
  /\ phase[s] = "trying"
  /\ phase' = [phase EXCEPT ![s] = "placed"]
  /\ UNCHANGED tries

GiveUp(s) ==
  /\ phase[s] \in {"waiting", "trying"}
  /\ phase' = [phase EXCEPT ![s] = "abandoned"]
  /\ UNCHANGED tries

Next == \E s \in Sessions : Try(s) \/ Throttled(s) \/ Place(s) \/ GiveUp(s)

Spec == Init /\ [][Next]_<<phase, tries>>
===============================================================================

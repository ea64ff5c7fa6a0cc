------------------------------ MODULE CallStatus ------------------------------
(***************************************************************************)
(* The status of a voice call session (enum VoiceCallStatus), and the two  *)
(* pure functions VoiceCallService applies to a Twilio status callback:    *)
(* the translation of Twilio's word and the table of allowed moves.        *)
(***************************************************************************)

\* Postgres names of the members of VoiceCallStatus.
Statuses == {"queued", "initiating", "ringing", "answered", "in_progress",
             "completed", "failed", "busy", "no_answer", "cancelled"}

\* VoiceCallService.IsTerminal
Terminal == {"completed", "failed", "busy", "no_answer", "cancelled"}

\* Words TryMapProviderStatus knows; every other word maps to nothing.
ProviderWords == {"queued", "initiated", "ringing", "in-progress",
                  "completed", "failed", "busy", "no-answer", "canceled"}

\* What a known word stands for. No word of Twilio stands for "answered".
MappedStatus(word) ==
  CASE word = "initiated"   -> "initiating"
    [] word = "in-progress" -> "in_progress"
    [] word = "no-answer"   -> "no_answer"
    [] word = "canceled"    -> "cancelled"
    [] OTHER                -> word

\* Moves a callback may make: forward only, and never out of a final status.
CanApplyProviderStatus(current, next) ==
  \/ current = "initiating"  /\ next \in {"ringing", "answered", "in_progress"} \cup Terminal
  \/ current = "ringing"     /\ next \in {"answered", "in_progress"} \cup Terminal
  \/ current = "answered"    /\ next \in {"in_progress"} \cup Terminal
  \/ current = "in_progress" /\ next \in Terminal
===============================================================================

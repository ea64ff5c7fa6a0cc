--------------------------- MODULE MCVoiceDispatch ---------------------------
EXTENDS VoiceDispatch, TLC

WorkerSymmetry == Permutations(Workers)
===============================================================================

------------------------- MODULE MCBackgroundTracker -------------------------
(* An instance of BackgroundTracker for TLC: three kinds, one of them a raw *)
(* tag, and caps small enough for a message to reach them.                  *)
EXTENDS BackgroundTracker, TLC

MCKinds == {"subagent", "shell", "monitor"}

\* Ids are only compared with each other, and so are session ids.
MCSymmetry == Permutations(Ids) \cup Permutations(ResumeIds)
=============================================================================

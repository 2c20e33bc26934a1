---------------------------- MODULE MCCliProcess ----------------------------
(* Instances of CliProcess for TLC: the kinds of backends that behave       *)
(* differently.                                                             *)
EXTENDS CliProcess

Backend(streamer, formatter, blocks, resumer) ==
  [streamer |-> streamer, formatter |-> formatter, blocks |-> blocks, resumer |-> resumer]

\* opencode, codex, agy: one subprocess per turn.
SpawnPerTurn == {Backend(FALSE, FALSE, FALSE, TRUE)}

\* A streaming backend that cannot resume.
Persistent == {Backend(TRUE, TRUE, FALSE, FALSE)}

\* Also claude (streams, formats blocks and resumes) and Streamers without
\* InputFormatter, with and without a BlockFormatter.
Resumable ==
  SpawnPerTurn \cup {Backend(TRUE, TRUE, TRUE, TRUE), Backend(TRUE, FALSE, FALSE, TRUE),
                    Backend(TRUE, FALSE, TRUE, TRUE)}
=============================================================================

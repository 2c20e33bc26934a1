--------------------------- MODULE ProcessContract ---------------------------
(***************************************************************************)
(* What the Process interface (process.go at the repository's root)        *)
(* promises a caller about one session, seen from outside: Output(), Err() *)
(* and the resumption of a session by Send.                                *)
(***************************************************************************)

CONSTANT Errors   \* terminal errors; "nil", the clean exit, is one of them

VARIABLES
  phase,   \* "live", "ended" (Err() answers) or "closed" (Output() closed too)
  err      \* what Err() returns, "nil" while the session is live

vars == <<phase, err>>

Init == phase = "live" /\ err = "nil"

\* The terminal error is published before the output channel closes.
End ==
  /\ phase = "live"
  /\ phase' = "ended"
  /\ err' \in Errors

Close ==
  /\ phase = "ended"
  /\ phase' = "closed"
  /\ UNCHANGED err

\* Send restarts only a session whose last turn ended cleanly.
Resume ==
  /\ phase = "closed"
  /\ err = "nil"
  /\ phase' = "live"
  /\ UNCHANGED err

Next == End \/ Close \/ Resume

Spec == Init /\ [][Next]_vars
=============================================================================

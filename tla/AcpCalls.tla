------------------------------ MODULE AcpCalls ------------------------------
(***************************************************************************)
(* What a JSON-RPC connection promises the goroutines that make calls on   *)
(* it (engine/acp/conn.go, Call): a call ends once; an answer that has     *)
(* reached a call is what the call returns, whatever its context does in   *)
(* the meantime; "connection closed" is said only of a connection whose    *)
(* reader has ended, and never of a call that has its answer.              *)
(***************************************************************************)
CONSTANT Calls

VARIABLES
  stage,    \* "idle", "open", "answered" (the answer is there), "over"
  outcome,  \* what the call returned: "none" until it is over
  up        \* TRUE until the reader of the connection ends

vars == <<stage, outcome, up>>

\* The results of handleCallResponse for an answer.
Answers == {"ok", "bad"}

Init ==
  /\ stage = [c \in Calls |-> "idle"]
  /\ outcome = [c \in Calls |-> "none"]
  /\ up = TRUE

Begin(c) ==
  /\ stage[c] = "idle"
  /\ stage' = [stage EXCEPT ![c] = "open"]
  /\ UNCHANGED <<outcome, up>>

\* The answer arrives; nothing that follows takes it back.
Arrive(c) ==
  /\ stage[c] = "open"
  /\ up
  /\ stage' = [stage EXCEPT ![c] = "answered"]
  /\ UNCHANGED <<outcome, up>>

Return(c, o) ==
  /\ \/ stage[c] = "answered" /\ o \in Answers
     \/ stage[c] = "open" /\ o \in {"unsent", "cancelled"}
     \/ stage[c] = "open" /\ o = "closed" /\ ~up
  /\ stage' = [stage EXCEPT ![c] = "over"]
  /\ outcome' = [outcome EXCEPT ![c] = o]
  /\ UNCHANGED up

\* The reader ends.
Down ==
  /\ up
  /\ up' = FALSE
  /\ UNCHANGED <<stage, outcome>>

Next ==
  \/ Down
  \/ \E c \in Calls :
       \/ Begin(c)
       \/ Arrive(c)
       \/ \E o \in Answers \cup {"unsent", "cancelled", "closed"} : Return(c, o)

Spec == Init /\ [][Next]_vars
=============================================================================

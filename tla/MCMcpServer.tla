----------------------------- MODULE MCMcpServer -----------------------------
(* Instances of McpServer for TLC: which tool each of three requests calls. *)
EXTENDS McpServer, TLC

CONSTANTS a, b, c

Script(x, y, z, events) == [tools |-> (a :> x) @@ (b :> y) @@ (c :> z), events |-> events]

Scenes ==
  {Script("session_start", "session_send", "session_send", {"cancel"}),
   Script("session_start", "session_send", "session_stop", {"exit"}),
   Script("session_start", "session_send", "session_send", {"sendFails"}),
   Script("session_start", "session_send", "session_stop", {"reap"}),
   Script("session_start", "session_start", "session_stop", {}),
   Script("session_start", "run_turn", "probe_backend", {"hang"}),
   Script("session_start", "probe_backend", "session_stop", {"refuse"}),
   Script("session_start", "session_send", "session_stop", {"shutdown"})}
=============================================================================

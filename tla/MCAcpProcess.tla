---------------------------- MODULE MCAcpProcess ----------------------------
(* Instances of AcpProcess for TLC: which events occur in one run. *)
EXTENDS AcpProcess

Scenes ==
  {{"second", "pair"}, {"second", "update", "expire"}, {"second", "expire", "exit"},
   {"second", "refuse"}, {"exit", "pair"}, {"read", "burst"}, {"garbage", "pair"},
   {"pair", "plain"}, {"update", "permission"}, {"update", "stop", "quit"}, {"replay", "exit"}}

LateScenes == {{"second", "update", "expire"}, {"second", "permission"}}
=============================================================================

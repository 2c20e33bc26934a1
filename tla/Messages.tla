------------------------------ MODULE Messages ------------------------------
(***************************************************************************)
(* The message every backend line becomes (message.go), its token usage,   *)
(* and what a consumer gathers from the messages of a turn                 *)
(* (turnsummary.go).  Content is kept only as far as it is told apart: a   *)
(* message has some or none.  An optional record is a sequence of at most  *)
(* one.                                                                    *)
(***************************************************************************)
EXTENDS Integers, Sequences, SequencesExt

Blank ==
  [type |-> "", content |-> "", resume |-> "", parent |-> "", code |-> "", stop |-> "",
   isError |-> FALSE, denials |-> <<>>, tool |-> <<>>, tools |-> <<>>, tasks |-> <<>>,
   usage |-> <<>>]

Message(type) == [Blank EXCEPT !.type = type]

\* The types that end in _delta: those are what TurnSummary leaves out.
Deltas == {"text_delta", "tool_use_delta", "thinking_delta"}
IsDelta(type) == type \in Deltas

\* input, cacheRead and cacheWrite are the input side of a call; used and
\* size its context window, 0 for "not reported".
Usage(input, output, cacheRead, cacheWrite) ==
  [input |-> input, output |-> output, cacheRead |-> cacheRead, cacheWrite |-> cacheWrite,
   used |-> 0, size |-> 0]

\* <<used, size>>, or nothing.
ContextFill(msg) ==
  IF msg.usage # <<>> /\ (msg.usage[1].used > 0 \/ msg.usage[1].size > 0)
  THEN <<[used |-> msg.usage[1].used, size |-> msg.usage[1].size]>> ELSE <<>>

EmptySummary ==
  [texts |-> 0, thoughts |-> 0, errors |-> 0, calls |-> <<>>, usage |-> <<>>, stop |-> "",
   denials |-> <<>>, isError |-> FALSE, result |-> FALSE]

\* The tool calls of a message: the whole list when there is one, else the
\* single call.
CallsOf(msg) ==
  IF msg.type = "background_tasks" THEN <<>>
  ELSE IF msg.tools # <<>> THEN msg.tools ELSE msg.tool

Add(summary, msg) ==
  LET s == [summary EXCEPT !.calls = @ \o CallsOf(msg)]
  IN CASE IsDelta(msg.type)        -> summary
       [] msg.type = "text"        -> [s EXCEPT !.texts = @ + 1]
       [] msg.type = "thinking"    -> [s EXCEPT !.thoughts = @ + 1]
       [] msg.type = "error"       -> [s EXCEPT !.errors = @ + 1]
       [] msg.type = "result"      ->
            [s EXCEPT !.usage = msg.usage, !.stop = msg.stop, !.denials = msg.denials,
                      !.isError = msg.isError, !.result = TRUE]
       [] OTHER                    -> s

Summary(msgs) == FoldLeft(Add, EmptySummary, msgs)
=============================================================================

----------------------------- MODULE MCCliStream -----------------------------
(* Sessions for CliStream.  For each backend one session with few options    *)
(* and many lines, and one with many options and the lines that name a       *)
(* session; for claude also one for the rarer lines and one for the shapes   *)
(* a line can have around the limit.                                         *)
EXTENDS CliStream, TLC

Line(raw) == [n |-> 1, end |-> "lf", raw |-> raw]

Assistant(content, usage) ==
  [type |-> "assistant", message |-> [content |-> content, usage |-> usage]]
Of(parent, raw) == raw @@ [parent_tool_use_id |-> parent]
Says == <<[type |-> "text", text |-> "hi"]>>
Calls == <<[type |-> "tool_use", name |-> "Task", id |-> "t1"],
           [type |-> "tool_use", name |-> "Read", id |-> "t2"]>>
Announces(reason) ==
  [type |-> "stream_event", event |-> [type |-> "message_delta", delta |-> [stop_reason |-> reason]]]
Delta(kind) ==
  [type |-> "stream_event", event |-> [type |-> "content_block_delta", delta |-> [type |-> kind]]]
Used == [input_tokens |-> 1, output_tokens |-> 3]
InitLine == [type |-> "system", subtype |-> "init", session_id |-> "s1"]
Garbage == [type |-> "garbage"]
Blanks == [type |-> "blank"]

ClaudeCore ==
  { InitLine,
    Assistant(Says, [input_tokens |-> 1, cache_read_input_tokens |-> 1]),
    Assistant(Calls, [input_tokens |-> -5, cache_creation_input_tokens |-> 3]),
    Of("t1", Assistant(Says, [input_tokens |-> 9])),
    Announces("max_tokens"),
    [type |-> "result", stop_reason |-> "null", usage |-> Used],
    Of("t1", [type |-> "result", stop_reason |-> "refusal", usage |-> Used]),
    [type |-> "error", code |-> "overloaded", note |-> "busy"],
    Garbage }

ClaudeTurn ==
  { Assistant(Says, [input_tokens |-> 1, cache_read_input_tokens |-> 1]), Announces("max_tokens"),
    [type |-> "result", stop_reason |-> "null", usage |-> Used] }

ClaudeRare ==
  { [type |-> "init", session_id |-> "s2"],
    Assistant(<<[type |-> "thinking", thinking |-> "hm"]>>, Used),
    Assistant(<<>>, Used) @@ [text |-> "flat"],
    [type |-> "tool", name |-> "Read", id |-> "t2"],
    [type |-> "result", stop_reason |-> "end_turn", is_error |-> TRUE,
     permission_denials |-> <<[tool |-> "Bash"], [tool |-> "ctl"]>>],
    [type |-> "result", text |-> "done", total_cost_usd |-> 1],
    Of("not_text", [type |-> "result", stop_reason |-> "refusal"]),
    [type |-> "system", subtype |-> "background_tasks_changed",
     tasks |-> <<[task_id |-> "t1", task_type |-> "local_agent"], [task_id |-> "ctl"],
                 [task_id |-> "b1", task_type |-> "local_bash"], [task_id |-> "m1", task_type |-> "monitor"]>>],
    [type |-> "system", subtype |-> "task_notification", status |-> "completed",
     task_id |-> "t1", tool_use_id |-> "u1"],
    [type |-> "system", subtype |-> "task_notification", status |-> "running"],
    [type |-> "system", subtype |-> "hook_started"],
    [type |-> "rate_limit_event", rate_limit_info |-> [status |-> "allowed"]],
    [type |-> "context_window"], [type |-> "ctl"], [type |-> "null"], Blanks,
    Announces("ctl"), Of("t1", Announces("tool_use")),
    Delta("text_delta"), Delta("input_json_delta"), Delta("signature_delta") }

Shapes ==
  [n : (MaxLine - 1)..(MaxLine + 1), end : DOMAIN Endings, raw : {Assistant(Says, Used)}]
  \cup {[n |-> 0, end |-> "crlf", raw |-> Blanks]}

Item(item) == [type |-> "item.completed", item |-> item]
Thread(id) == [type |-> "thread.started", thread_id |-> id]

CodexIds == { Thread("s1"), Thread("s2"), Thread("odd"), [type |-> "turn.completed"] }
CodexLines ==
  { Thread("s1"),
    Item([type |-> "agent_message", text |-> "hi"]), Item([type |-> "reasoning", text |-> "hm"]),
    Item([type |-> "command_execution"]), Item([type |-> "mcp_tool_call", tool_name |-> "find"]),
    Item([type |-> "error", text |-> "bad"]), Item([type |-> "other"]),
    [type |-> "turn.started"], [type |-> "turn.completed", usage |-> Used],
    [type |-> "turn.failed"], [type |-> "error", message |-> "bad"], Garbage }

Step(id) == [type |-> "step_start", sessionID |-> id]
Finish(reason) ==
  [type |-> "step_finish",
   part |-> [reason |-> reason, tokens |-> [input |-> 2, output |-> 1, cache |-> [read |-> 1]]]]

OpenCodeIds == { Step("s1"), Step("s2"), Step("odd"), Finish("stop") }
OpenCodeLines ==
  { Step("s1"),
    [type |-> "text", part |-> [text |-> "hi"]], [type |-> "reasoning", part |-> [text |-> "hm"]],
    [type |-> "tool_use", part |-> [tool |-> "bash", callID |-> "t1",
                                    state |-> [status |-> "error", error |-> "bad"]]],
    Finish("stop"), Finish("tool-calls"), Finish("length"), [type |-> "step_finish", part |-> <<>>],
    [type |-> "error", error |-> [name |-> "E", data |-> [message |-> "bad"]]],
    [type |-> "heartbeat"], Garbage }

AgySays(id) == [type |-> "agy_session", id |-> id]
AgyLines ==
  { AgySays("s1"), AgySays("s2"), AgySays("odd"), [type |-> "text"], [type |-> "result"] }

----------------------------------------------------------------------------
Just(k, values) == {<<>>} \cup {k :> v : v \in values}
Both(A, B) == {a @@ b : a \in A, b \in B}

Roots == Both(Just("mode", {"plan", "act", "odd"}), Just("hitl", {"on", "off", "odd"}))
Rest  == {<<>>,
  [effort |-> "low", model |-> "m", thinking_budget |-> "positive", add_dirs |-> {"abs", "rel"},
   session_name |-> "n", resume_id |-> "s2", fork |-> "1", ephemeral |-> "1"],
  [effort |-> "medium", model |-> "dash", thinking_budget |-> "odd", add_dirs |-> {"dash"},
   session_name |-> "long", title |-> "n", variant |-> "max", resume_id |-> "odd"],
  [effort |-> "odd"]}
Sweep(k, values) == Both(Both(Roots, Just(k, values)), Rest)
Resumes == {<<>>, [resume_id |-> "s2"], [resume_id |-> "odd"]}

MCScenes == {
  "claude", "claude_resumed", "claude_rare", "claude_shapes", "claude_options",
  "codex", "codex_ids", "codex_options",
  "opencode", "opencode_ids", "opencode_options",
  "agy", "agy_options" }

Rare == {"claude_rare"}

MCBackend ==
  [s \in MCScenes |->
     CASE s \in {"claude", "claude_resumed", "claude_rare", "claude_shapes", "claude_options"} -> "claude"
       [] s \in {"codex", "codex_ids", "codex_options"} -> "codex"
       [] s \in {"opencode", "opencode_ids", "opencode_options"} -> "opencode"
       [] OTHER -> "agy"]

MCOptions ==
  [s \in MCScenes |->
     CASE s = "claude_options" -> Sweep("permission_mode", DOMAIN MapPermission \cup {"odd"})
       [] s = "codex_options"  -> Sweep("sandbox", Sandboxes \cup {"odd"})
       [] s = "opencode_options" -> Both(Roots, Rest)
       [] s = "agy_options"    -> Sweep("dangerously_skip_permissions", {"yes", "no", "odd"})
       [] s \in {"claude", "claude_resumed", "claude_rare", "claude_shapes"} -> {[resume_id |-> "s1"]}
       [] s \in {"codex", "opencode"} -> {<<>>}
       [] OTHER -> Resumes]

MCLines ==
  [s \in MCScenes |->
     CASE s = "claude_shapes" -> Shapes
       [] s = "claude"        -> {Line(r) : r \in ClaudeCore}
       [] s = "claude_resumed" -> {Line(r) : r \in ClaudeTurn}
       [] s = "claude_rare"   -> {Line(r) : r \in ClaudeRare}
       [] s = "claude_options" -> {Line(InitLine)}
       [] s = "codex_ids"     -> {Line(r) : r \in CodexIds}
       [] s = "opencode_ids"  -> {Line(r) : r \in OpenCodeIds}
       [] s = "codex"         -> {Line(r) : r \in CodexLines}
       [] s = "codex_options" -> {Line(Thread("s1"))}
       [] s = "opencode"      -> {Line(r) : r \in OpenCodeLines}
       [] s = "opencode_options" -> {Line(Step("s1"))}
       [] s = "agy"           -> {Line(r) : r \in AgyLines}
       [] OTHER               -> {Line(AgySays("s1"))}]

MCMaxHeard ==
  [s \in MCScenes |->
     CASE s \in {"claude", "claude_resumed"} -> 4
       [] s \in {"codex", "opencode", "codex_ids", "opencode_ids", "agy"} -> 3
       [] s \in {"claude_rare", "claude_shapes"} -> 2
       [] OTHER -> 1]

\* Replacing and resuming is looked at with the lines that name a session.
MCMaxSpawns ==
  [s \in MCScenes |->
     CASE s \in {"codex_ids", "opencode_ids", "agy"} -> 3
       [] s \in {"claude", "claude_rare", "codex", "opencode"} -> 1
       [] OTHER -> 2]
=============================================================================

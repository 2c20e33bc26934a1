------------------------------ MODULE CliParse ------------------------------
(***************************************************************************)
(* What the parsers of the four CLI backends make of one line of output    *)
(* (claude/parse.go, codex/parse.go, opencode/parse.go, agy/parse.go).     *)
(*                                                                         *)
(* A line is a record: its JSON object with the keys it has, or a `type`   *)
(* of "blank" (only white space) or "garbage" (not JSON).  Keys that hold  *)
(* objects are absent when the code would find no object there.  The JSON  *)
(* null is "null", a value of another type where text is expected is       *)
(* "not_text", and text with a control character in it is "ctl".  The one  *)
(* key that holds text on some lines and an object on others ("message")   *)
(* is `note` where it holds text.                                          *)
(*                                                                         *)
(* Codex, OpenCode and agy remember the first session id they see in one   *)
(* write-once cell of the backend: Nothing until then, and for codex       *)
(* Sentinel after a thread.started without a usable id.                    *)
(***************************************************************************)
EXTENDS Messages

CONSTANTS
  Ids,       \* session ids of the shape the backends accept
  Nothing,   \* the nil pointer
  Sentinel   \* codex's noUUIDSentinel

\* No backend's pattern for a session id matches the empty string.
ASSUME IdAssumption ==
  Nothing \notin Ids /\ Sentinel \notin Ids /\ Nothing # Sentinel /\ "" \notin Ids

----------------------------------------------------------------------------
(* jsonutil and the sanitizers *)

GetString(m, k) == IF k \in DOMAIN m /\ m[k] \notin {"null", "not_text"} THEN m[k] ELSE ""
GetInt(m, k)    == IF k \in DOMAIN m THEN m[k] ELSE 0
GetMap(m, k)    == IF k \in DOMAIN m THEN m[k] ELSE <<>>
GetList(m, k)   == IF k \in DOMAIN m THEN m[k] ELSE <<>>
GetBool(m, k)   == k \in DOMAIN m /\ m[k]

Sanitize(s) == IF s = "ctl" THEN "" ELSE s

First(s) == IF s = <<>> THEN "" ELSE s[1]
OrElse(s, t) == IF s # "" THEN s ELSE t

----------------------------------------------------------------------------
(* Claude *)

IsSubagentEvent(raw) ==
  "parent_tool_use_id" \in DOMAIN raw /\ raw.parent_tool_use_id # "null"

\* The message every line starts from: its type and the subagent it came from.
Base(raw, type) ==
  [Message(type) EXCEPT !.parent = GetString(raw, "parent_tool_use_id")]

ExtractTokenUsage(source) ==
  LET u == GetMap(source, "usage")
      n == Usage(GetInt(u, "input_tokens"), GetInt(u, "output_tokens"),
                 GetInt(u, "cache_read_input_tokens"), GetInt(u, "cache_creation_input_tokens"))
      reported == n # Usage(0, 0, 0, 0) \/ GetInt(source, "total_cost_usd") > 0
  IN IF reported THEN <<n>> ELSE <<>>

ClaudeInit(raw) == [Base(raw, "init") EXCEPT !.resume = GetString(raw, "session_id")]

ExtractToolCall(m) == [name |-> GetString(m, "name"), id |-> GetString(m, "id")]

Blocks(raw, type) ==
  SelectSeq(GetList(GetMap(raw, "message"), "content"), LAMBDA b : GetString(b, "type") = type)

Texts(raw) ==
  SelectSeq(GetList(GetMap(raw, "message"), "content"), LAMBDA b :
    GetString(b, "type") \notin {"thinking", "tool_use"} /\ GetString(b, "text") # "")

Thoughts(raw) == SelectSeq(Blocks(raw, "thinking"), LAMBDA b : GetString(b, "thinking") # "")

ToolCalls(raw) ==
  [i \in DOMAIN Blocks(raw, "tool_use") |-> ExtractToolCall(Blocks(raw, "tool_use")[i])]

\* Thinking is the content only when there is no text.
ClaudeAssistant(raw) ==
  LET texts    == Texts(raw)
      thoughts == Thoughts(raw)
      calls    == ToolCalls(raw)
      flat     == OrElse(GetString(raw, "text"), GetString(raw, "content"))
      quiet    == texts = <<>> /\ thoughts # <<>>
  IN [Base(raw, IF quiet THEN "thinking" ELSE "text") EXCEPT
        !.content = IF quiet THEN thoughts[1].thinking
                    ELSE IF texts # <<>> THEN texts[1].text ELSE flat,
        !.tools = calls,
        !.tool  = IF calls = <<>> THEN <<>> ELSE <<Last(calls)>>,
        !.usage = ExtractTokenUsage(GetMap(raw, "message"))]

ClaudeTool(raw) == [Base(raw, "tool_result") EXCEPT !.tool = <<ExtractToolCall(raw)>>]

BackgroundTaskKind(type) ==
  CASE type = "local_agent" -> "subagent"
    [] type = "local_bash"  -> "shell"
    [] OTHER                -> Sanitize(type)

\* Entries without a usable id are left out.
TaskEntries(raw) ==
  LET entries == SelectSeq(GetList(raw, "tasks"), LAMBDA t : Sanitize(GetString(t, "task_id")) # "")
  IN [i \in DOMAIN entries |->
        [id |-> entries[i].task_id,
         kind |-> BackgroundTaskKind(GetString(entries[i], "task_type"))]]

ClaudeBackgroundTasks(raw) ==
  [Base(raw, "background_tasks") EXCEPT !.tasks = TaskEntries(raw)]

TerminalTaskStatuses ==
  {"completed", "failed", "error", "cancelled", "canceled", "timeout", "stopped"}

ClaudeTaskNotification(raw) ==
  IF GetString(raw, "status") \notin TerminalTaskStatuses
  THEN [Base(raw, "system") EXCEPT !.content = GetString(raw, "note")]
  ELSE LET id == Sanitize(GetString(raw, "task_id"))
       IN [Message("task_result") EXCEPT
             !.parent  = GetString(raw, "tool_use_id"),
             !.content = GetString(raw, "summary"),
             !.tasks   = IF id = "" THEN <<>> ELSE <<[id |-> id, kind |-> ""]>>]

SummarisedSubtypes == {"hook_started", "hook_progress", "hook_response", "thinking_tokens"}

ClaudeSystem(raw) ==
  LET subtype == GetString(raw, "subtype")
  IN CASE subtype = "init"                     -> ClaudeInit(raw)
       [] subtype = "background_tasks_changed" -> ClaudeBackgroundTasks(raw)
       [] subtype = "task_notification"        -> ClaudeTaskNotification(raw)
       [] OTHER ->
            [Base(raw, "system") EXCEPT !.content =
               OrElse(GetString(raw, "note"),
                      IF subtype \in SummarisedSubtypes THEN subtype ELSE "")]

PermissionDenials(raw) ==
  LET all == [i \in DOMAIN GetList(raw, "permission_denials") |->
                LET d == raw.permission_denials[i]
                IN [tool |-> Sanitize(GetString(d, "tool")), reason |-> GetString(d, "reason")]]
  IN SelectSeq(all, LAMBDA d : d.tool # "" \/ d.reason # "")

ClaudeResult(raw) ==
  [Base(raw, "result") EXCEPT
     !.content = IF "result" \in DOMAIN raw /\ raw.result \notin {"null", "not_text"}
                 THEN raw.result ELSE GetString(raw, "text"),
     !.usage   = ExtractTokenUsage(raw),
     !.stop    = Sanitize(GetString(raw, "stop_reason")),
     !.denials = PermissionDenials(raw),
     !.isError = GetBool(raw, "is_error")]

ClaudeError(raw) ==
  [Base(raw, "error") EXCEPT
     !.code    = Sanitize(GetString(raw, "code")),
     !.content = OrElse(GetString(raw, "note"), GetString(raw, "error"))]

DeltaKinds ==
  [text_delta |-> "text_delta", input_json_delta |-> "tool_use_delta",
   thinking_delta |-> "thinking_delta"]

ClaudeContentDelta(raw, event) ==
  LET kind == GetString(GetMap(event, "delta"), "type")
  IN IF kind \in DOMAIN DeltaKinds
     THEN [Base(raw, DeltaKinds[kind]) EXCEPT !.content = "partial"]
     ELSE [Base(raw, "system") EXCEPT !.content = "content_block_delta"]

\* A message_delta carries the stop reason the result line will not have.
ClaudeStreamEvent(raw) ==
  LET event == GetMap(raw, "event")
  IN CASE GetString(event, "type") = "content_block_delta" -> ClaudeContentDelta(raw, event)
       [] GetString(event, "type") = "message_delta" ->
            [Base(raw, "system") EXCEPT
               !.content = "stream_event",
               !.stop = Sanitize(GetString(GetMap(event, "delta"), "stop_reason"))]
       [] OTHER -> [Base(raw, "system") EXCEPT !.content = "stream_event"]

\* A type the parser does not know becomes the message's type as it is, unless
\* it is overlong or has control characters in it.
ClaudeUnknown(raw) ==
  LET limited == raw.type = "rate_limit_event" /\
                 (GetString(GetMap(raw, "rate_limit_info"), "status") # "" \/
                  GetString(GetMap(raw, "rate_limit_info"), "rateLimitType") # "")
  IN [Base(raw, IF raw.type \in {"ctl", "overlong"} THEN "system" ELSE raw.type) EXCEPT
        !.content = IF limited THEN "rate_limit_event" ELSE ""]

\* The usage of a subagent is not the parent's, and its result does not end
\* the parent's turn: it is demoted and loses everything a result says of one.
Demoted(raw, msg) ==
  LET bare == [msg EXCEPT !.usage = <<>>]
  IN IF ~IsSubagentEvent(raw) THEN msg
     ELSE IF msg.type # "result" THEN bare
     ELSE [bare EXCEPT
             !.type = "task_result", !.stop = "", !.isError = FALSE, !.denials = <<>>,
             !.tasks = IF Sanitize(msg.parent) = "" THEN <<>>
                       ELSE <<[id |-> msg.parent, kind |-> "subagent"]>>]

ClaudeLine(raw) ==
  Demoted(raw, CASE raw.type = "system"       -> ClaudeSystem(raw)
                 [] raw.type = "init"         -> ClaudeInit(raw)
                 [] raw.type = "assistant"    -> ClaudeAssistant(raw)
                 [] raw.type = "tool"         -> ClaudeTool(raw)
                 [] raw.type = "result"       -> ClaudeResult(raw)
                 [] raw.type = "error"        -> ClaudeError(raw)
                 [] raw.type = "stream_event" -> ClaudeStreamEvent(raw)
                 [] OTHER                     -> ClaudeUnknown(raw))

----------------------------------------------------------------------------
(* Codex *)

CodexError(m) ==
  [Message("error") EXCEPT !.code = Sanitize(GetString(m, "code")),
                           !.content = OrElse(GetString(m, "message"), "failed")]

CodexItem(item) ==
  LET type == GetString(item, "type")
      Call(name) == [Message("tool_result") EXCEPT !.tool = <<[name |-> name, id |-> ""]>>]
  IN CASE type = "agent_message" -> [Message("text") EXCEPT !.content = GetString(item, "text")]
       [] type = "reasoning"     -> [Message("thinking") EXCEPT !.content = GetString(item, "text")]
       [] type \in {"command_execution", "file_changes", "web_search"} -> Call(type)
       [] type = "mcp_tool_call" ->
            Call(OrElse(OrElse(GetString(item, "name"), GetString(item, "tool_name")), type))
       [] type = "error" ->
            [CodexError(item) EXCEPT !.content = OrElse(GetString(item, "message"),
                                                 OrElse(GetString(item, "text"), "failed"))]
       [] OTHER -> [Message("system") EXCEPT !.content = "item.completed"]

CodexUsage(raw) ==
  LET u == GetMap(raw, "usage")
      n == Usage(GetInt(u, "input_tokens"), GetInt(u, "output_tokens"),
                 GetInt(u, "cached_input_tokens"), 0)
  IN IF n = Usage(0, 0, 0, 0) /\ GetInt(u, "reasoning_output_tokens") = 0 THEN <<>> ELSE <<n>>

CodexEvent(raw) ==
  CASE raw.type = "item.completed" -> CodexItem(GetMap(raw, "item"))
    [] raw.type = "turn.completed" -> [Message("result") EXCEPT !.usage = CodexUsage(raw)]
    [] raw.type = "turn.failed"    -> CodexError(GetMap(raw, "error"))
    [] raw.type = "error"          -> CodexError(raw)
    [] OTHER -> [Message("system") EXCEPT !.content = raw.type]

\* Mutant of ThreadStarted: the sentinel is never replaced by a usable id.
ThreadStartedOnce(raw, cell) ==
  LET tid == GetString(raw, "thread_id")
  IN IF tid \in Ids /\ cell = Nothing
     THEN [msg |-> [Message("init") EXCEPT !.resume = tid], cell |-> tid]
     ELSE IF cell = Nothing
     THEN [msg |-> Message("init"), cell |-> Sentinel]
     ELSE [msg |-> [Message("system") EXCEPT !.content = "thread.started"], cell |-> cell]

\* The first usable thread id is kept; a first thread without one leaves the
\* sentinel, so that only a later usable id makes another init.
ThreadStarted(raw, cell) ==
  LET tid == GetString(raw, "thread_id")
  IN IF tid \in Ids /\ cell \in {Nothing, Sentinel}
     THEN [msg |-> [Message("init") EXCEPT !.resume = tid], cell |-> tid]
     ELSE IF cell = Nothing
     THEN [msg |-> Message("init"), cell |-> Sentinel]
     ELSE [msg |-> [Message("system") EXCEPT !.content = "thread.started"], cell |-> cell]

----------------------------------------------------------------------------
(* OpenCode *)

\* Every step_start makes an init until one brings a valid id.
StepStart(raw, cell) ==
  LET sid == GetString(raw, "sessionID")
  IN IF cell # Nothing
     THEN [msg |-> [Message("system") EXCEPT !.content = "step_start"], cell |-> cell]
     ELSE IF sid \in Ids
     THEN [msg |-> [Message("init") EXCEPT !.resume = sid], cell |-> sid]
     ELSE [msg |-> Message("init"), cell |-> cell]

OpenCodeTokens(raw) ==
  LET t == GetMap(GetMap(raw, "part"), "tokens")
      cache == GetMap(t, "cache")
  IN IF GetInt(t, "input") = 0 /\ GetInt(t, "output") = 0 THEN <<>>
     ELSE <<Usage(GetInt(t, "input"), GetInt(t, "output"),
                  GetInt(cache, "read"), GetInt(cache, "write"))>>

StepFinishStopReasons == [stop |-> "end_turn"]

\* A step that ended to call tools is not the end of the turn, and its tokens
\* are not taken.
StepFinish(raw) ==
  LET reason == GetString(GetMap(raw, "part"), "reason")
  IN IF reason = "tool-calls" THEN [Message("system") EXCEPT !.content = "step_finish"]
     ELSE [Message("result") EXCEPT
             !.usage = OpenCodeTokens(raw),
             !.stop  = IF reason \in DOMAIN StepFinishStopReasons
                       THEN StepFinishStopReasons[reason] ELSE Sanitize(reason)]

OpenCodeToolUse(raw) ==
  LET part == GetMap(raw, "part")
      state == GetMap(part, "state")
      failed == GetString(state, "status") = "error"
  IN [Message("tool_result") EXCEPT
        !.tool = <<[name |-> GetString(part, "tool"), id |-> GetString(part, "callID")]>>,
        !.content = IF failed THEN GetString(state, "error") ELSE ""]

OpenCodeError(raw) ==
  LET err == GetMap(raw, "error")
  IN [Message("error") EXCEPT
        !.code = Sanitize(GetString(err, "name")),
        !.content = IF "error" \notin DOMAIN raw THEN "unknown error"
                    ELSE OrElse(GetString(GetMap(err, "data"), "message"),
                                GetString(err, "message"))]

OpenCodeEvent(raw) ==
  LET text == GetString(GetMap(raw, "part"), "text")
  IN CASE raw.type = "text"        -> [Message("text") EXCEPT !.content = text]
       [] raw.type = "reasoning"   -> [Message("thinking") EXCEPT !.content = text]
       [] raw.type = "tool_use"    -> OpenCodeToolUse(raw)
       [] raw.type = "step_finish" -> StepFinish(raw)
       [] raw.type = "error"       -> OpenCodeError(raw)
       [] OTHER -> [Message("system") EXCEPT !.content = raw.type]

----------------------------------------------------------------------------
(* Antigravity: plain text, and the two lines the shell wrapper prints *)

\* The first well-formed id is kept, but every such line reports its own.
AgySession(raw, cell) ==
  IF raw.id \in Ids
  THEN [msg |-> [Message("init") EXCEPT !.resume = raw.id],
        cell |-> IF cell = Nothing THEN raw.id ELSE cell]
  ELSE [msg |-> Message("init"), cell |-> cell]

AgyText(raw) ==
  IF raw.type = "result" THEN [Message("result") EXCEPT !.stop = "end_turn"]
  ELSE [Message("text") EXCEPT !.content = "text"]

----------------------------------------------------------------------------
(* Parser.ParseLine: what the line becomes, and the backend's cell after it *)

Skipped(backend, raw) ==
  raw.type = "blank" \/ (backend = "codex" /\ raw.type \in {"turn.started", "item.started"})

\* A parse error: not JSON, or no type.  Every line is text to agy.
Malformed(backend, raw) ==
  backend # "agy" /\ (raw.type = "garbage" \/ GetString(raw, "type") = "")

Unchanged(msg, cell) == [msg |-> msg, cell |-> cell]

ParseLine(backend, raw, cell) ==
  CASE backend = "claude" -> Unchanged(ClaudeLine(raw), cell)
    [] backend = "codex" ->
         IF raw.type = "thread.started" THEN ThreadStarted(raw, cell)
         ELSE Unchanged(CodexEvent(raw), cell)
    [] backend = "opencode" ->
         IF raw.type = "step_start" THEN StepStart(raw, cell)
         ELSE Unchanged(OpenCodeEvent(raw), cell)
    [] backend = "agy" ->
         IF raw.type = "agy_session" THEN AgySession(raw, cell)
         ELSE Unchanged(AgyText(raw), cell)
=============================================================================

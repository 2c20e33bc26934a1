------------------------------- MODULE CliArgs -------------------------------
(***************************************************************************)
(* The command line each CLI backend builds for a session: for its first   *)
(* subprocess (SpawnArgs, StreamArgs) and for the ones that resume it      *)
(* (ResumeArgs).  Options are a record with the keys that are set.  Of a   *)
(* value only its class matters: "nul" holds a null byte, "dash" starts    *)
(* with a dash, "long" is beyond a length limit, "positive" is a positive  *)
(* integer; list options are sets of such entries, "abs" an absolute path. *)
(* A command line is what it resumes and its set of <<flag, value>> pairs: *)
(* their order, the base flags and the prompt are left out.                *)
(***************************************************************************)
EXTENDS CliParse

Opt(o, k) == IF k \in DOMAIN o THEN o[k] ELSE ""
IsSet(o, k) == Opt(o, k) # ""
Clean(v)    == v \notin {"", "nul"}
Plain(v)    == v \notin {"", "nul", "dash"}

\* agentrun.ParseListOption
Entries(o, k) == IF k \in DOMAIN o THEN {e \in o[k] : Clean(e)} ELSE {}

\* agentrun.ParsePositiveIntOption and ParseBoolOption: the values they take,
\* and whether they report an error.
Positive(o, k)   == Opt(o, k) = "positive"
ValidInt(o, k)   == Opt(o, k) \in {"", "positive"}
Truthy(o, k)     == Opt(o, k) \in {"true", "on", "1", "yes"}
ValidBool(o, k)  == Truthy(o, k) \/ Opt(o, k) \in {"", "false", "off", "0", "no"}

\* optutil
RootOptionsSet(o) == IsSet(o, "mode") \/ IsSet(o, "hitl")
ValidModeHITL(o)  == Opt(o, "mode") \in {"", "plan", "act"} /\ Opt(o, "hitl") \in {"", "on", "off"}
ValidEffort(o)    == Opt(o, "effort") \in {"", "low", "medium", "high"}
AddDirs(o)        == {<<"--add-dir", d>> : d \in Entries(o, "add_dirs") \cap {"abs"}}

When(condition, flag, value) == IF condition THEN {<<flag, value>>} ELSE {}

Spawned(flags)     == [resumes |-> FALSE, id |-> "", flags |-> flags]
Resuming(id, flags) == [resumes |-> TRUE, id |-> id, flags |-> flags]

Model(o, flag) == When(Plain(Opt(o, "model")), flag, Opt(o, "model"))

----------------------------------------------------------------------------
(* Claude *)

MapPermission ==
  [default |-> "default", acceptEdits |-> "acceptEdits", bypassAll |-> "bypassPermissions",
   plan |-> "plan", dontAsk |-> "dontAsk"]

\* Mode and HITL, when either is set, hide the backend's own option.
ResolvePermissionFlag(o) ==
  CASE RootOptionsSet(o) /\ Opt(o, "mode") = "plan" -> "plan"
    [] RootOptionsSet(o) /\ Opt(o, "mode") # "plan" /\ Opt(o, "hitl") = "off" ->
         "bypassPermissions"
    [] ~RootOptionsSet(o) /\ Opt(o, "permission_mode") \in DOMAIN MapPermission \ {"default"} ->
         MapPermission[Opt(o, "permission_mode")]
    [] OTHER -> ""

ClaudeSessionFlags(o) ==
  LET permission == ResolvePermissionFlag(o)
  IN UNION {
       Model(o, "--model"),
       When(Clean(Opt(o, "system_prompt")), "--system-prompt", "text"),
       When(permission # "", "--permission-mode", permission),
       When(Positive(o, "max_turns"), "--max-turns", "positive"),
       When(Positive(o, "thinking_budget"), "--max-thinking-tokens", "positive"),
       When(IsSet(o, "effort") /\ ValidEffort(o), "--effort", Opt(o, "effort")),
       AddDirs(o),
       When(Plain(Opt(o, "session_name")), "--name", Opt(o, "session_name")),
       When(Truthy(o, "remote_control"), "--remote-control", ""),
       {<<"--allowedTools", t>> : t \in Entries(o, "allowed_tools") \ {"dash"}} }

\* The streaming command line, the one the engine starts claude with.
ClaudeStreamArgs(o) ==
  LET flags == ClaudeSessionFlags(o) \cup {<<"--input-format", "stream-json">>,
                                           <<"--include-partial-messages", "">>}
  IN IF Opt(o, "resume_id") \in Ids THEN Resuming(Opt(o, "resume_id"), flags) ELSE Spawned(flags)

ClaudeValidOptions(o) ==
  /\ ValidModeHITL(o) /\ ValidEffort(o)
  /\ RootOptionsSet(o) \/ Opt(o, "permission_mode") \in {""} \cup DOMAIN MapPermission
  /\ ValidInt(o, "max_turns") /\ ValidInt(o, "thinking_budget")
  /\ ValidBool(o, "remote_control")

----------------------------------------------------------------------------
(* Codex *)

Sandboxes == {"read-only", "workspace-write", "danger-full-access"}

CodexCommonFlags(o) ==
  UNION {
    Model(o, "-m"),
    When(IsSet(o, "ephemeral"), "--ephemeral", ""),
    When(IsSet(o, "skip_git_check"), "--skip-git-repo-check", ""),
    When(IsSet(o, "effort") /\ ValidEffort(o), "model_reasoning_effort", Opt(o, "effort")),
    AddDirs(o) }

\* Plan mode never gets --full-auto, which would open the workspace to writes.
FullAuto(o) ==
  RootOptionsSet(o) /\ Opt(o, "mode") # "plan" /\ Opt(o, "hitl") = "off"

ExecSandbox(o) ==
  IF RootOptionsSet(o) THEN IF Opt(o, "mode") = "plan" THEN "read-only" ELSE ""
  ELSE IF Opt(o, "sandbox") \in Sandboxes THEN Opt(o, "sandbox") ELSE ""

\* Mutant of ResolveResumeFullAuto: the mode is not looked at on resume.
ResumeFullAutoAnyMode(o) == RootOptionsSet(o) /\ Opt(o, "hitl") = "off"

ResolveResumeFullAuto(o) == FullAuto(o)

\* --sandbox exists on the first exec only.
CodexResumeCommand(id, o) ==
  Resuming(id, CodexCommonFlags(o) \cup When(ResolveResumeFullAuto(o), "--full-auto", ""))

CodexExecCommand(o) ==
  Spawned(UNION {
    When(Plain(Opt(o, "profile")), "-p", Opt(o, "profile")),
    When(Plain(Opt(o, "output_schema")), "--output-schema", Opt(o, "output_schema")),
    CodexCommonFlags(o),
    When(ExecSandbox(o) # "", "--sandbox", ExecSandbox(o)),
    When(FullAuto(o), "--full-auto", "") })

\* Any id without a null byte resumes, well-formed or not.
CodexSpawnArgs(o) ==
  IF Clean(Opt(o, "resume_id")) THEN CodexResumeCommand(Opt(o, "resume_id"), o)
  ELSE CodexExecCommand(o)

CodexValidOptions(o) ==
  /\ ValidModeHITL(o) /\ ValidEffort(o)
  /\ RootOptionsSet(o) \/ Opt(o, "sandbox") \in {""} \cup Sandboxes

----------------------------------------------------------------------------
(* OpenCode: Mode and HITL have no flags *)

EffortToVariant == [low |-> "low", high |-> "high"]

ResolveVariant(o) ==
  IF Opt(o, "effort") \in DOMAIN EffortToVariant THEN EffortToVariant[Opt(o, "effort")]
  ELSE IF Clean(Opt(o, "variant")) THEN Opt(o, "variant") ELSE ""

TitleOK(v) == Plain(v) /\ v # "long"

ResolveTitle(o) ==
  IF TitleOK(Opt(o, "session_name")) THEN Opt(o, "session_name")
  ELSE IF TitleOK(Opt(o, "title")) THEN Opt(o, "title") ELSE ""

OpenCodeCommonFlags(o) ==
  UNION {
    Model(o, "--model"),
    When(IsSet(o, "thinking_budget"), "--thinking", ""),
    When(ResolveVariant(o) # "", "--variant", ResolveVariant(o)) }

OpenCodeSpawnArgs(o) ==
  LET flags == UNION {
        OpenCodeCommonFlags(o),
        When(Clean(Opt(o, "agent_id")), "--agent", Opt(o, "agent_id")),
        When(ResolveTitle(o) # "", "--title", ResolveTitle(o)) }
  IN IF Opt(o, "resume_id") \in Ids THEN Resuming(Opt(o, "resume_id"), flags) ELSE Spawned(flags)

OpenCodeResumeCommand(id, o) ==
  Resuming(id, OpenCodeCommonFlags(o) \cup When(IsSet(o, "fork"), "--fork", ""))

----------------------------------------------------------------------------
(* Antigravity *)

\* HITL alone hides the backend's own option; the mode is not looked at.
SkipPermissions(o) ==
  IF IsSet(o, "hitl") THEN Opt(o, "hitl") = "off"
  ELSE Truthy(o, "dangerously_skip_permissions")

AgyFlags(o) ==
  UNION {
    Model(o, "--model"),
    AddDirs(o),
    When(SkipPermissions(o), "--dangerously-skip-permissions", ""),
    When(Truthy(o, "agy_sandbox"), "--sandbox", "") }

----------------------------------------------------------------------------
(* What the engine calls *)

Streams(backend) == backend = "claude"

\* Engine.Start: StreamArgs for a streamer, SpawnArgs for the others.
FirstArgs(backend, o) ==
  CASE backend = "claude"   -> ClaudeStreamArgs(o)
    [] backend = "codex"    -> CodexSpawnArgs(o)
    [] backend = "opencode" -> OpenCodeSpawnArgs(o)
    [] backend = "agy"      -> Spawned(AgyFlags(o))

\* The id to resume: what the backend captured, else the option.
ResolveId(o, cell) == IF cell \in {Nothing, Sentinel} THEN Opt(o, "resume_id") ELSE cell

\* ResumeArgs returns an error, and so does Send, unless:
MayResume(backend, o, cell) ==
  CASE backend = "claude"   -> Opt(o, "resume_id") \in Ids /\ ClaudeValidOptions(o)
    [] backend = "codex"    -> Clean(ResolveId(o, cell)) /\ CodexValidOptions(o)
    [] backend = "opencode" -> ResolveId(o, cell) \in Ids
    [] backend = "agy"      -> ResolveId(o, cell) # "" /\ ValidModeHITL(o)

ResumeArgs(backend, o, cell) ==
  CASE backend = "claude"   -> Resuming(Opt(o, "resume_id"), ClaudeSessionFlags(o))
    [] backend = "codex"    -> CodexResumeCommand(ResolveId(o, cell), o)
    [] backend = "opencode" -> OpenCodeResumeCommand(ResolveId(o, cell), o)
    [] backend = "agy"      -> Resuming(ResolveId(o, cell), AgyFlags(o))
=============================================================================

------------------------------ MODULE CliStream ------------------------------
(***************************************************************************)
(* What a CLI session's subprocesses are told and what is made of their    *)
(* output: the command line of each (Engine.Start, Send's two resume       *)
(* paths), and scanLines, which reads a line, has the backend parse it,    *)
(* enriches the message and emits it (engine/cli/process.go).              *)
(* Goroutines and channels are CliProcess's subject; here a line is one    *)
(* step.  The background-task books are BackgroundTracker's.               *)
(***************************************************************************)
EXTENDS CliArgs, LineRead, FiniteSets, FiniteSetsExt

CONSTANTS
  Scenes,    \* names of the sessions to look at
  Backend,   \* the backend of each
  Options,   \* the options each may be started with
  Lines,     \* the lines its subprocesses may print
  MaxHeard,  \* bound: lines its subprocesses print
  MaxSpawns  \* bound: subprocesses of each session

ASSUME StreamAssumption ==
  /\ \A s \in Scenes : Backend[s] \in {"claude", "codex", "opencode", "agy"}
  /\ \A s \in Scenes : MaxHeard[s] \in Nat /\ MaxSpawns[s] \in Nat \ {0}
  /\ \A s \in Scenes : \A line \in Lines[s] :
       /\ line.n \in Nat /\ line.end \in DOMAIN Endings /\ "type" \in DOMAIN line.raw
       /\ line.raw.type = "assistant" =>
            LET message == GetMap(line.raw, "message")
                content == GetList(message, "content")
                usage   == GetMap(message, "usage")
            IN /\ content \in Seq({content[i] : i \in DOMAIN content})
               /\ \A k \in {"input_tokens", "cache_read_input_tokens", "cache_creation_input_tokens"} :
                    GetInt(usage, k) \in Int

VARIABLES
  scene, opts,  \* the session, fixed at Start
  phase,        \* new, scanning, replacing, replaced, exited, failed or refused
  argvs,        \* the command lines built so far, and what had been heard by then
  cell,         \* the backend's write-once session id
  scan,         \* which subprocess's output is being read
  last,         \* lastStopReason, a local of scanLines
  peak,         \* maxCallFill, a local of scanLines
  heard,        \* every line taken from a subprocess
  out           \* every message emitted, with the line it came from

vars == <<scene, opts, phase, argvs, cell, scan, last, peak, heard, out>>

backend == Backend[scene]

----------------------------------------------------------------------------
(* Enrichment *)

\* Mutant of CarryForward: a result does not clear the reason.
CarryForwardKept(msg, carried) ==
  CASE msg.type = "init"   -> [msg |-> msg, last |-> ""]
    [] msg.type = "result" -> [msg |-> [msg EXCEPT !.stop = OrElse(@, carried)], last |-> carried]
    [] OTHER -> [msg |-> [msg EXCEPT !.stop = ""], last |-> OrElse(msg.stop, carried)]

\* A stop reason on any message but a result is kept for the next result
\* without one; an init or a result clears it.
CarryForward(msg, carried) ==
  CASE msg.type = "init"   -> [msg |-> msg, last |-> ""]
    [] msg.type = "result" -> [msg |-> [msg EXCEPT !.stop = OrElse(@, carried)], last |-> ""]
    [] OTHER -> [msg |-> [msg EXCEPT !.stop = ""], last |-> OrElse(msg.stop, carried)]

Positives(n) == IF n > 0 THEN n ELSE 0
CallContextFill(u) == Positives(u.input) + Positives(u.cacheRead) + Positives(u.cacheWrite)

\* The fill of each call goes on its own message, the peak of the turn on the
\* result; a value the backend reported itself stands.
WithUsed(msg, used) ==
  IF msg.usage = <<>> \/ msg.usage[1].used # 0 THEN msg ELSE [msg EXCEPT !.usage[1].used = used]

ApplyContextFill(msg, max) ==
  CASE msg.type = "init"   -> [msg |-> msg, peak |-> 0]
    [] msg.type = "result" -> [msg |-> WithUsed(msg, max), peak |-> 0]
    [] msg.type \notin {"init", "result"} /\ msg.usage = <<>> -> [msg |-> msg, peak |-> max]
    [] OTHER -> LET fill == CallContextFill(msg.usage[1])
                IN [msg |-> WithUsed(msg, fill), peak |-> IF fill > max THEN fill ELSE max]

SynthesizeContextWindow(msg) ==
  IF msg.type \in {"result", "init", "error"} \/ ContextFill(msg) = <<>> THEN <<>>
  ELSE <<[Message("context_window") EXCEPT
            !.usage = <<[Usage(0, 0, 0, 0) EXCEPT !.used = ContextFill(msg)[1].used,
                                                  !.size = ContextFill(msg)[1].size]>>]>>

----------------------------------------------------------------------------
Init ==
  /\ scene \in Scenes /\ opts \in Options[scene]
  /\ phase = "new" /\ argvs = <<>> /\ cell = Nothing
  /\ scan = 0 /\ last = "" /\ peak = 0 /\ heard = <<>> /\ out = <<>>

Spawn(args) == argvs' = Append(argvs, [args |-> args, at |-> Len(heard)])

\* A fresh readLoop: the carried reason and the peak start over.
NewScan == scan' = scan + 1 /\ last' = "" /\ peak' = 0 /\ phase' = "scanning"

Start ==
  /\ phase = "new"
  /\ ValidEffort(opts)
  /\ Spawn(FirstArgs(backend, opts)) /\ NewScan
  /\ UNCHANGED <<scene, opts, cell, heard, out>>

StartRefused ==
  /\ phase = "new"
  /\ ~ValidEffort(opts)
  /\ phase' = "refused"
  /\ UNCHANGED <<scene, opts, argvs, cell, scan, last, peak, heard, out>>

----------------------------------------------------------------------------
\* An unterminated line is the last one of its stream.
MoreToRead ==
  \A i \in DOMAIN heard : heard[i].scan = scan => Terminated(heard[i].line)

Hear(line) ==
  /\ phase \in {"scanning", "replacing"}
  /\ Len(heard) < MaxHeard[scene] /\ MoreToRead
  /\ heard' = Append(heard, [line |-> line, scan |-> scan])

\* The loop's end: finish, or only the signal the replacing Send waits for.
LoopEnds(verdict) == phase' = IF phase = "replacing" THEN "replaced" ELSE verdict

LineTooLong(line) ==
  /\ ~ReadLine(line).ok /\ Hear(line)
  /\ LoopEnds("failed")
  /\ UNCHANGED <<scene, opts, argvs, cell, scan, last, peak, out>>

SkipLine(line) ==
  /\ ReadLine(line).ok /\ Hear(line)
  /\ Skipped(backend, line.raw)
  /\ UNCHANGED <<scene, opts, phase, argvs, cell, scan, last, peak, out>>

\* enrichMessage and emitWithSynthesis.  A Send that is replacing the process
\* has cancelled the emit, which may lose the message and ends the loop.
EmitMessage(msg, max) ==
  LET carried == CarryForward(msg, last)
      filled  == ApplyContextFill(carried.msg, max)
      sent    == <<filled.msg>> \o SynthesizeContextWindow(filled.msg)
      Entry(m) == [line |-> Len(heard) + 1, msg |-> m]
  IN /\ last' = carried.last /\ peak' = filled.peak
     /\ \/ out' = out \o [i \in DOMAIN sent |-> Entry(sent[i])] /\ UNCHANGED phase
        \/ /\ phase = "replacing" /\ LoopEnds("exited")
           /\ \E n \in 0..(Len(sent) - 1) : out' = out \o [i \in 1..n |-> Entry(sent[i])]

\* A line the backend cannot parse becomes an error message of the engine's,
\* which, unlike an error of the backend's, leaves the peak alone.
ParseError(line) ==
  /\ ReadLine(line).ok /\ Hear(line)
  /\ ~Skipped(backend, line.raw) /\ Malformed(backend, line.raw)
  /\ EmitMessage([Message("error") EXCEPT !.content = "parse"], peak)
  /\ UNCHANGED <<scene, opts, argvs, cell, scan>>

ParsedLine(line) ==
  /\ ReadLine(line).ok /\ Hear(line)
  /\ ~Skipped(backend, line.raw) /\ ~Malformed(backend, line.raw)
  /\ LET parsed == ParseLine(backend, line.raw, cell)
     IN /\ cell' = parsed.cell
        /\ EmitMessage(parsed.msg, IF parsed.msg.type = "error" THEN 0 ELSE peak)
  /\ UNCHANGED <<scene, opts, argvs, scan>>

\* The subprocess exits, with code 0.
EndOfStream ==
  /\ phase \in {"scanning", "replacing"}
  /\ LoopEnds("exited")
  /\ UNCHANGED <<scene, opts, argvs, cell, scan, last, peak, heard, out>>

----------------------------------------------------------------------------
\* Send after a clean exit.
ResumeAfterCleanExit ==
  /\ phase = "exited" /\ Len(argvs) < MaxSpawns[scene]
  /\ MayResume(backend, opts, cell)
  /\ Spawn(ResumeArgs(backend, opts, cell)) /\ NewScan
  /\ UNCHANGED <<scene, opts, cell, heard, out>>

\* Send while the subprocess runs: the command line is built before the old
\* readLoop has ended.
ReplaceSubprocess ==
  /\ phase = "scanning" /\ ~Streams(backend) /\ Len(argvs) < MaxSpawns[scene]
  /\ MayResume(backend, opts, cell)
  /\ Spawn(ResumeArgs(backend, opts, cell))
  /\ phase' = "replacing"
  /\ UNCHANGED <<scene, opts, cell, scan, last, peak, heard, out>>

SpawnReplacement ==
  /\ phase = "replaced"
  /\ NewScan
  /\ UNCHANGED <<scene, opts, argvs, cell, heard, out>>

ReadSome ==
  \E line \in Lines[scene] :
    LineTooLong(line) \/ SkipLine(line) \/ ParseError(line) \/ ParsedLine(line)

Next ==
  \/ Start \/ StartRefused \/ ReadSome \/ EndOfStream
  \/ ResumeAfterCleanExit \/ ReplaceSubprocess \/ SpawnReplacement

Spec == Init /\ [][Next]_vars

----------------------------------------------------------------------------
(* Reference definitions, over the lines as the subprocesses printed them *)

Raw(i) == heard[i].line.raw
Emitted(i) == {k \in DOMAIN out : out[k].line = i}
HasType(i, types) == \E k \in Emitted(i) : out[k].msg.type \in types

EndsTurn(raw) ==
  CASE backend = "claude"   -> raw.type = "result" /\ ~IsSubagentEvent(raw)
    [] backend = "codex"    -> raw.type = "turn.completed"
    [] backend = "opencode" -> /\ raw.type = "step_finish"
                               /\ GetString(GetMap(raw, "part"), "reason") # "tool-calls"
    [] backend = "agy"      -> raw.type = "result"

\* The lines since the last one of these kinds, within a subprocess.
Since(i, types) ==
  {j \in 1..(i - 1) :
     /\ heard[j].scan = heard[i].scan
     /\ \A m \in j..(i - 1) : ~HasType(m, types)}

\* The reason a message_delta announces, of the parent agent or of a subagent.
DeltaReason(raw) ==
  IF backend = "claude" /\ raw.type = "stream_event"
     /\ GetString(GetMap(raw, "event"), "type") = "message_delta"
  THEN Sanitize(GetString(GetMap(GetMap(raw, "event"), "delta"), "stop_reason")) ELSE ""

AnnouncedReason(raw) == IF IsSubagentEvent(raw) THEN "" ELSE DeltaReason(raw)

OwnReason(raw) ==
  CASE backend = "claude"   -> Sanitize(GetString(raw, "stop_reason"))
    [] backend = "codex"    -> ""
    [] backend = "opencode" -> LET reason == GetString(GetMap(raw, "part"), "reason")
                               IN IF reason = "stop" THEN "end_turn" ELSE Sanitize(reason)
    [] backend = "agy"      -> "end_turn"

\* The lines of the turn so far on which the parent announced a reason.
Announcements(i) == {j \in Since(i, {"init", "result"}) : AnnouncedReason(Raw(j)) # ""}

ReasonOf(i) ==
  IF OwnReason(Raw(i)) # "" THEN OwnReason(Raw(i))
  ELSE IF Announcements(i) = {} THEN "" ELSE AnnouncedReason(Raw(Max(Announcements(i))))

\* What subagents announced after that, in the turn.
SubagentReasons(i) ==
  {DeltaReason(Raw(j)) : j \in {j \in Since(i, {"init", "result"}) :
     IsSubagentEvent(Raw(j)) /\ \A m \in Announcements(i) : m < j}} \ {""}

\* What one model call of the parent agent had in its context.
CallFill(raw) ==
  IF backend = "claude" /\ raw.type = "assistant" /\ ~IsSubagentEvent(raw)
  THEN LET u == GetMap(GetMap(raw, "message"), "usage")
       IN Positives(GetInt(u, "input_tokens")) + Positives(GetInt(u, "cache_read_input_tokens"))
            + Positives(GetInt(u, "cache_creation_input_tokens"))
  ELSE 0

PeakOf(i) ==
  Max({0} \cup {CallFill(Raw(j)) :
        j \in {j \in Since(i, {"init", "result"}) :
                 \A m \in (j + 1)..(i - 1) : HasType(m, {"error"}) => Malformed(backend, Raw(m))}})

ToolUses(raw) ==
  SelectSeq(GetList(GetMap(raw, "message"), "content"),
            LAMBDA b : GetString(b, "type") = "tool_use")

CallCount(raw) ==
  CASE backend = "claude" /\ raw.type = "assistant" -> Len(ToolUses(raw))
    [] backend = "claude" /\ raw.type = "tool"       -> 1
    [] backend = "opencode" /\ raw.type = "tool_use" -> 1
    [] backend = "codex" /\ raw.type = "item.completed" ->
         IF GetString(GetMap(raw, "item"), "type") \in
              {"command_execution", "file_changes", "web_search", "mcp_tool_call"} THEN 1 ELSE 0
    [] OTHER -> 0

\* The tool calls on these lines.
CallsOn(lines) == UNION {{i} \X (1..CallCount(Raw(i))) : i \in lines}

IdIn(raw) ==
  CASE backend = "codex" /\ raw.type = "thread.started"   -> GetString(raw, "thread_id")
    [] backend = "opencode" /\ raw.type = "step_start"    -> GetString(raw, "sessionID")
    [] backend = "agy" /\ raw.type = "agy_session"        -> raw.id
    [] OTHER -> ""

----------------------------------------------------------------------------
(* Properties *)

\* Exactly the lines within the limit are read, whatever the boundaries of the
\* buffer they straddle, and while a subprocess is read none of its lines but
\* the skipped ones goes without a message.
LinesKept ==
  /\ \A i \in DOMAIN heard :
       LET line == heard[i].line
       IN IF Oversized(line) THEN Emitted(i) = {}
          ELSE /\ ReadLine(line).ok /\ ReadLine(line).size = line.n
               /\ heard[i].scan = scan /\ phase = "scanning" =>
                    Emitted(i) # {} \/ Skipped(backend, line.raw)
  /\ phase = "failed" => Oversized(Last(heard).line)

\* A result is emitted for the lines that end the agent's own turn and for no
\* others; its stop reason is its own or the last one the agent announced in
\* that turn. A result without a reason of its own may have one that a subagent
\* of the turn announced since: SubagentReasonsStay says what the code should do.
ReasonsOfTheirTurn ==
  \A k \in DOMAIN out :
    LET msg == out[k].msg
        i   == out[k].line
    IN /\ msg.type = "result" =>
            /\ EndsTurn(Raw(i))
            /\ msg.stop = ReasonOf(i) \/ (OwnReason(Raw(i)) = "" /\ msg.stop \in SubagentReasons(i))
       /\ msg.type # "result" => ~EndsTurn(Raw(i)) /\ msg.stop = ""

\* A subagent's stop reason describes the subagent, not the parent turn, and is
\* not the parent's result's (engine/cli/claude/parse.go:76-81). The parser
\* clears it on a subagent's result only; parseStreamEvent keeps it on a
\* message_delta of a subagent, and the carry-forward takes it.
SubagentReasonsStay ==
  \A k \in DOMAIN out : out[k].msg.type = "result" => out[k].msg.stop = ReasonOf(out[k].line)

\* A result's context fill is the largest of the turn's model calls.
PeaksOfTheirTurn ==
  \A k \in DOMAIN out :
    LET msg == out[k].msg
    IN msg.type = "result" /\ msg.usage # <<>> => msg.usage[1].used = PeakOf(out[k].line)

\* A context window made up from a message follows that message at once, and
\* just when the message's own model call filled some of it.  A line of the
\* agent's that calls itself a context window has no fill and is none of these.
WindowsFollowCalls ==
  \A k \in DOMAIN out :
    LET msg  == out[k].msg
        fill == CallFill(Raw(out[k].line))
    IN IF msg.type = "context_window" /\ msg.usage # <<>>
       THEN k > 1 /\ out[k - 1].line = out[k].line /\ fill > 0 /\ msg.usage[1].used = fill
       ELSE fill > 0 =>
              /\ k < Len(out) /\ out[k + 1].line = out[k].line
              /\ out[k + 1].msg.type = "context_window" /\ out[k + 1].msg.usage # <<>>

\* The messages of out[k]'s turn so far: those since the last result before it.
TurnStart(k) ==
  LET results == {j \in 1..(k - 1) : out[j].msg.type = "result"}
  IN IF results = {} THEN 1 ELSE Max(results) + 1

TurnUpTo(k) == [j \in 1..(k - TurnStart(k) + 1) |-> out[TurnStart(k) + j - 1].msg]

\* What TurnSummary.Add makes of a turn up to its result is that result's stop
\* reason, and each tool call of the turn once.
SummariesExact ==
  \A k \in {k \in DOMAIN out : out[k].msg.type = "result"} :
    LET turn == Summary(TurnUpTo(k))
    IN /\ turn.result /\ turn.stop = out[k].msg.stop
       /\ Len(turn.calls) = Cardinality(CallsOn({out[j].line : j \in TurnStart(k)..k}))

\* StreamFaithful: what a consumer sees is what the agent said.  No line is
\* lost or refused for the way it falls into the read buffer; a subagent's
\* result ends no turn, and neither stop reason nor context fill of one turn
\* shows up on the result of another, though a subagent's announced reason may
\* on its parent's (applyStopReasonCarryForward,
\* applyContextFill and emitWithSynthesis in engine/cli/process.go, ReadLine
\* in lineread.go, TurnSummary.Add).
StreamFaithful ==
  LinesKept /\ ReasonsOfTheirTurn /\ PeaksOfTheirTurn /\ WindowsFollowCalls /\ SummariesExact

\* SameSession: every resumed subprocess is told to continue the session the
\* agent first named in a usable form, or, before it has named one, the session
\* of the caller's option; once named it never changes, whatever later
\* subprocesses report (parseThreadStarted, parseStepStart, the agy_session
\* sentinel, and ResumeArgs of the backends; claude goes by the option alone).
\* An init that names a session names that one.  Only agy repeats whatever a
\* later sentinel says.
SameSession ==
  LET Named(n) == {i \in 1..n : ~Oversized(heard[i].line) /\ IdIn(Raw(i)) \in Ids}
  IN /\ \A a \in DOMAIN argvs :
          argvs[a].args.resumes =>
            argvs[a].args.id = IF Named(argvs[a].at) = {} THEN Opt(opts, "resume_id")
                               ELSE IdIn(Raw(Min(Named(argvs[a].at))))
     /\ \A k \in DOMAIN out :
          (backend \in {"codex", "opencode"} /\ out[k].msg.type = "init" /\ out[k].msg.resume # "")
            => out[k].msg.resume = cell

Bypasses(args) ==
  args.flags \cap {<<"--permission-mode", "bypassPermissions">>, <<"--full-auto", "">>,
                   <<"--dangerously-skip-permissions", "">>} # {}

\* What lets a session act without asking: HITL off outside plan mode, or,
\* when neither root option is set, the backend's own option.  agy knows no
\* modes.
Permitted ==
  IF backend = "agy" THEN Opt(opts, "hitl") = "off" \/
                          (~IsSet(opts, "hitl") /\ Truthy(opts, "dangerously_skip_permissions"))
  ELSE IF RootOptionsSet(opts) THEN Opt(opts, "mode") # "plan" /\ Opt(opts, "hitl") = "off"
  ELSE Opt(opts, "permission_mode") = "bypassAll"

\* NoEscalation: no subprocess of a session, the first or a resumed one, is told
\* to skip the permission prompts unless the options permit it, and a resumed
\* one is told so just when the first was (resolvePermissionFlag,
\* resolveExecPolicy and resolveResumeFullAuto, appendPermissionArgs).  Only the
\* flags that skip prompts are compared: codex gives its --sandbox to the first
\* subprocess alone and relies on the agent to keep it.
NoEscalation ==
  \A a \in DOMAIN argvs :
    /\ Bypasses(argvs[a].args) => Permitted
    /\ Bypasses(argvs[a].args) <=> Bypasses(argvs[1].args)
=============================================================================

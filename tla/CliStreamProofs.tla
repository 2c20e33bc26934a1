---------------------------- MODULE CliStreamProofs ----------------------------
(***************************************************************************)
(* What holds of a CLI session for any lines, options and session ids, any *)
(* read buffer and any limit: which of its lines reach the consumer, whose *)
(* stop reason and whose largest context fill a result has, which messages *)
(* a context window follows, what a turn's summary counts, which session   *)
(* its subprocesses resume, and with what permissions they run.            *)
(***************************************************************************)
EXTENDS CliStream, LineReadProofs, FiniteSetTheorems

-----------------------------------------------------------------------------
(* The flags that let an agent act without asking.                         *)

Unprompted ==
  {<<"--permission-mode", "bypassPermissions">>, <<"--full-auto", "">>,
   <<"--dangerously-skip-permissions", "">>}

UnpromptedFlags == {"--permission-mode", "--full-auto", "--dangerously-skip-permissions"}

LEMMA UnpromptedNames ==
  \A x \in Unprompted : x[1] \in UnpromptedFlags
<1>1. /\ <<"--permission-mode", "bypassPermissions">>[1] = "--permission-mode"
      /\ <<"--full-auto", "">>[1] = "--full-auto"
      /\ <<"--dangerously-skip-permissions", "">>[1] = "--dangerously-skip-permissions"
  OBVIOUS
<1> QED
  BY <1>1, Zenon DEF Unprompted, UnpromptedFlags

LEMMA OtherFlag ==
  ASSUME NEW condition, NEW flag, NEW value,
         flag \notin UnpromptedFlags
  PROVE  When(condition, flag, value) \cap Unprompted = {}
<1>1. \A x \in When(condition, flag, value) : x = <<flag, value>>
  BY DEF When
<1>2. \A x \in When(condition, flag, value) : x[1] = flag
  BY <1>1
<1> QED
  BY ONLY <1>2, UnpromptedNames, flag \notin UnpromptedFlags

LEMMA Unaffected ==
  ASSUME NEW o, NEW flag,
         flag \notin UnpromptedFlags
  PROVE  AddDirs(o) \cap Unprompted = {} /\ Model(o, flag) \cap Unprompted = {}
<1>1. AddDirs(o) \cap Unprompted = {}
  <2>1. \A x \in AddDirs(o) : x[1] = "--add-dir"
    BY DEF AddDirs
  <2>2. "--add-dir" \notin UnpromptedFlags
    BY DEF UnpromptedFlags
  <2> QED
    BY ONLY <2>1, <2>2, UnpromptedNames
<1>2. Model(o, flag) \cap Unprompted = {}
  BY OtherFlag DEF Model
<1> QED
  BY <1>1, <1>2

\* Claude's session flags lift the prompts just when its permission flag does.
LEMMA ClaudeUnprompted ==
  ASSUME NEW o
  PROVE  ClaudeSessionFlags(o) \cap Unprompted # {}
           <=> ResolvePermissionFlag(o) = "bypassPermissions"
<1>1. PICK permission : permission = ResolvePermissionFlag(o)
  OBVIOUS
<1>2. PICK A : A = When(permission # "", "--permission-mode", permission)
  OBVIOUS
<1>3. PICK parts : parts = {
        Model(o, "--model"),
        When(Clean(Opt(o, "system_prompt")), "--system-prompt", "text"),
        A,
        When(Positive(o, "max_turns"), "--max-turns", "positive"),
        When(Positive(o, "thinking_budget"), "--max-thinking-tokens", "positive"),
        When(IsSet(o, "effort") /\ ValidEffort(o), "--effort", Opt(o, "effort")),
        AddDirs(o),
        When(Plain(Opt(o, "session_name")), "--name", Opt(o, "session_name")),
        When(Truthy(o, "remote_control"), "--remote-control", ""),
        {<<"--allowedTools", t>> : t \in Entries(o, "allowed_tools") \ {"dash"}} }
  OBVIOUS
<1>4. ClaudeSessionFlags(o) = UNION parts
  BY <1>1, <1>2, <1>3, Zenon DEF ClaudeSessionFlags
<1>5. A \in parts /\ \A part \in parts : part = A \/ part \cap Unprompted = {}
  <2>1. {<<"--allowedTools", t>> : t \in Entries(o, "allowed_tools") \ {"dash"}} \cap Unprompted = {}
    <3>1. \A x \in {<<"--allowedTools", t>> : t \in Entries(o, "allowed_tools") \ {"dash"}} :
            x[1] = "--allowedTools"
      OBVIOUS
    <3>2. "--allowedTools" \notin UnpromptedFlags
      BY DEF UnpromptedFlags
    <3> QED
      BY ONLY <3>1, <3>2, UnpromptedNames
  <2>2. AddDirs(o) \cap Unprompted = {} /\ Model(o, "--model") \cap Unprompted = {}
    BY Unaffected DEF UnpromptedFlags
  <2>3. /\ When(Clean(Opt(o, "system_prompt")), "--system-prompt", "text") \cap Unprompted = {}
        /\ When(Positive(o, "max_turns"), "--max-turns", "positive") \cap Unprompted = {}
        /\ When(Positive(o, "thinking_budget"), "--max-thinking-tokens", "positive")
             \cap Unprompted = {}
        /\ When(IsSet(o, "effort") /\ ValidEffort(o), "--effort", Opt(o, "effort"))
             \cap Unprompted = {}
        /\ When(Plain(Opt(o, "session_name")), "--name", Opt(o, "session_name"))
             \cap Unprompted = {}
        /\ When(Truthy(o, "remote_control"), "--remote-control", "") \cap Unprompted = {}
    BY OtherFlag DEF UnpromptedFlags
  <2> QED
    BY ONLY <1>3, <2>1, <2>2, <2>3
<1>6. A \cap Unprompted # {} <=> permission = "bypassPermissions"
  <2>1. A # {} => A = {<<"--permission-mode", permission>>}
    BY <1>2 DEF When
  <2>2. permission = "bypassPermissions" => A = {<<"--permission-mode", permission>>}
    BY <1>2 DEF When
  <2>3. <<"--permission-mode", permission>> \in Unprompted <=> permission = "bypassPermissions"
    <3>1. /\ <<"--permission-mode", permission>>[1] = "--permission-mode"
          /\ <<"--permission-mode", permission>>[2] = permission
      OBVIOUS
    <3>2. /\ <<"--permission-mode", "bypassPermissions">>[2] = "bypassPermissions"
          /\ <<"--full-auto", "">>[1] = "--full-auto"
          /\ <<"--dangerously-skip-permissions", "">>[1] = "--dangerously-skip-permissions"
      OBVIOUS
    <3>3. "--permission-mode" # "--full-auto" /\ "--permission-mode" # "--dangerously-skip-permissions"
      OBVIOUS
    <3> QED
      BY <3>1, <3>2, <3>3, Zenon DEF Unprompted
  <2> QED
    BY ONLY <2>1, <2>2, <2>3
<1> QED
  BY <1>1, <1>4, <1>5, <1>6

\* Codex's flags lift them just when they hold --full-auto.
LEMMA CodexUnprompted ==
  ASSUME NEW o, NEW id
  PROVE  /\ CodexExecCommand(o).flags \cap Unprompted # {} <=> FullAuto(o)
         /\ CodexResumeCommand(id, o).flags \cap Unprompted # {} <=> FullAuto(o)
<1>1. CodexCommonFlags(o) \cap Unprompted = {}
  <2>1. /\ When(IsSet(o, "ephemeral"), "--ephemeral", "") \cap Unprompted = {}
        /\ When(IsSet(o, "skip_git_check"), "--skip-git-repo-check", "") \cap Unprompted = {}
        /\ When(IsSet(o, "effort") /\ ValidEffort(o), "model_reasoning_effort", Opt(o, "effort"))
             \cap Unprompted = {}
    BY OtherFlag DEF UnpromptedFlags
  <2>2. AddDirs(o) \cap Unprompted = {} /\ Model(o, "-m") \cap Unprompted = {}
    BY Unaffected DEF UnpromptedFlags
  <2> QED
    BY ONLY <2>1, <2>2, Zenon DEF CodexCommonFlags
<1>2. When(FullAuto(o), "--full-auto", "") \cap Unprompted # {} <=> FullAuto(o)
  BY DEF When, Unprompted
<1>3. CodexResumeCommand(id, o).flags = CodexCommonFlags(o) \cup When(FullAuto(o), "--full-auto", "")
  BY DEF CodexResumeCommand, Resuming, ResolveResumeFullAuto
<1>4. /\ When(Plain(Opt(o, "profile")), "-p", Opt(o, "profile")) \cap Unprompted = {}
      /\ When(Plain(Opt(o, "output_schema")), "--output-schema", Opt(o, "output_schema"))
           \cap Unprompted = {}
      /\ When(ExecSandbox(o) # "", "--sandbox", ExecSandbox(o)) \cap Unprompted = {}
  BY OtherFlag DEF UnpromptedFlags
<1>5. CodexExecCommand(o).flags =
        UNION { When(Plain(Opt(o, "profile")), "-p", Opt(o, "profile")),
                When(Plain(Opt(o, "output_schema")), "--output-schema", Opt(o, "output_schema")),
                CodexCommonFlags(o),
                When(ExecSandbox(o) # "", "--sandbox", ExecSandbox(o)),
                When(FullAuto(o), "--full-auto", "") }
  BY DEF CodexExecCommand, Spawned
<1>6. CodexResumeCommand(id, o).flags \cap Unprompted # {} <=> FullAuto(o)
  BY ONLY <1>1, <1>2, <1>3
<1>7. CodexExecCommand(o).flags \cap Unprompted # {} <=> FullAuto(o)
  BY ONLY <1>1, <1>2, <1>4, <1>5, ZenonT(60)
<1> QED
  BY <1>6, <1>7

\* OpenCode has no such flag.
LEMMA OpenCodePrompts ==
  ASSUME NEW o, NEW id
  PROVE  /\ OpenCodeSpawnArgs(o).flags \cap Unprompted = {}
         /\ OpenCodeResumeCommand(id, o).flags \cap Unprompted = {}
<1>1. OpenCodeCommonFlags(o) \cap Unprompted = {}
  <2>1. /\ When(IsSet(o, "thinking_budget"), "--thinking", "") \cap Unprompted = {}
        /\ When(ResolveVariant(o) # "", "--variant", ResolveVariant(o)) \cap Unprompted = {}
    BY OtherFlag DEF UnpromptedFlags
  <2>2. Model(o, "--model") \cap Unprompted = {}
    BY Unaffected DEF UnpromptedFlags
  <2> QED
    BY ONLY <2>1, <2>2, Zenon DEF OpenCodeCommonFlags
<1>2. /\ When(Clean(Opt(o, "agent_id")), "--agent", Opt(o, "agent_id")) \cap Unprompted = {}
      /\ When(ResolveTitle(o) # "", "--title", ResolveTitle(o)) \cap Unprompted = {}
      /\ When(IsSet(o, "fork"), "--fork", "") \cap Unprompted = {}
  BY OtherFlag DEF UnpromptedFlags
<1>3. OpenCodeResumeCommand(id, o).flags =
        OpenCodeCommonFlags(o) \cup When(IsSet(o, "fork"), "--fork", "")
  BY DEF OpenCodeResumeCommand, Resuming
<1>4. OpenCodeSpawnArgs(o).flags =
        UNION { OpenCodeCommonFlags(o),
                When(Clean(Opt(o, "agent_id")), "--agent", Opt(o, "agent_id")),
                When(ResolveTitle(o) # "", "--title", ResolveTitle(o)) }
  BY DEF OpenCodeSpawnArgs, Resuming, Spawned
<1>5. OpenCodeResumeCommand(id, o).flags \cap Unprompted = {}
  BY ONLY <1>1, <1>2, <1>3
<1>6. OpenCodeSpawnArgs(o).flags \cap Unprompted = {}
  BY ONLY <1>1, <1>2, <1>4, Zenon
<1> QED
  BY <1>5, <1>6

LEMMA AgyUnprompted ==
  ASSUME NEW o
  PROVE  AgyFlags(o) \cap Unprompted # {} <=> SkipPermissions(o)
<1>1. /\ AddDirs(o) \cap Unprompted = {} /\ Model(o, "--model") \cap Unprompted = {}
  BY Unaffected DEF UnpromptedFlags
<1>2. When(Truthy(o, "agy_sandbox"), "--sandbox", "") \cap Unprompted = {}
  BY OtherFlag DEF UnpromptedFlags
<1>3. When(SkipPermissions(o), "--dangerously-skip-permissions", "") \cap Unprompted # {}
        <=> SkipPermissions(o)
  BY DEF When, Unprompted
<1> QED
  BY ONLY <1>1, <1>2, <1>3, Zenon DEF AgyFlags

-----------------------------------------------------------------------------
(* Sequences of messages.                                                  *)

\* A sequence, of whatever its elements are.
Proper(s) == s \in Seq({s[i] : i \in DOMAIN s})

LEMMA ProperSequence ==
  ASSUME NEW S, NEW s \in Seq(S)
  PROVE  Proper(s)
<1>1. Len(s) \in Nat /\ DOMAIN s = 1..Len(s) /\ s \in [1..Len(s) -> S]
  BY LenProperties
<1>2. s \in [1..Len(s) -> {s[i] : i \in DOMAIN s}]
  BY <1>1
<1> QED
  BY <1>1, <1>2, SeqDef DEF Proper

\* t is s and n more elements, those of f.
Extended(t, s, n, f) ==
  /\ Proper(t)
  /\ Len(s) \in Nat /\ Len(t) = Len(s) + n
  /\ \A i \in 1..Len(s) : t[i] = s[i]
  /\ \A i \in (Len(s) + 1)..(Len(s) + n) : t[i] = f[i - Len(s)]

LEMMA ProperConcat ==
  ASSUME NEW s, NEW n, NEW T, NEW f, Proper(s), n \in Nat, f \in [1..n -> T]
  PROVE  Extended(s \o f, s, n, f)
<1>1. PICK S : S = {s[i] : i \in DOMAIN s} \cup T
  OBVIOUS
<1>2. /\ Len(s) \in Nat /\ DOMAIN s = 1..Len(s)
      /\ s \in [1..Len(s) -> {s[i] : i \in DOMAIN s}]
  BY LenProperties DEF Proper
<1>3. s \in Seq(S)
  <2>1. s \in [1..Len(s) -> S]
    BY <1>1, <1>2
  <2> QED
    BY <1>2, <2>1, SeqDef
<1>4. f \in Seq(S) /\ Len(f) = n
  <2>1. f \in [1..n -> S]
    BY <1>1
  <2>2. f \in Seq(S)
    BY <2>1, SeqDef
  <2> QED
    BY <2>1, <2>2, LenProperties
<1>5. /\ s \o f \in Seq(S)
      /\ Len(s \o f) = Len(s) + Len(f)
      /\ \A i \in 1..(Len(s) + Len(f)) : (s \o f)[i] = IF i <= Len(s) THEN s[i] ELSE f[i - Len(s)]
  BY <1>3, <1>4, ConcatProperties
<1>6. Proper(s \o f)
  BY <1>5, ProperSequence
<1> QED
  BY <1>2, <1>4, <1>5, <1>6 DEF Extended

\* A context window gives no reason to stop, and follows no init, result or error.
Follows(window, msg) ==
  /\ window.type = "context_window" /\ window.stop = ""
  /\ msg.type \notin {"init", "result", "error"}

\* A message is sent alone or followed by a context window.
LEMMA Sent ==
  ASSUME NEW msg
  PROVE  LET sent == <<msg>> \o SynthesizeContextWindow(msg)
         IN /\ Len(sent) \in 1..2 /\ DOMAIN sent = 1..Len(sent)
            /\ \A i \in 1..Len(sent) : sent[i] = msg \/ Follows(sent[i], msg)
<1>1. PICK tail : tail = SynthesizeContextWindow(msg)
  OBVIOUS
<1>2. tail = <<>> \/ \E window : tail = <<window>> /\ Follows(window, msg)
  <2>1. \A u : LET window == [Message("context_window") EXCEPT !.usage = u]
               IN window.type = "context_window" /\ window.stop = ""
    BY DEF Message, Blank
  <2> QED
    BY <1>1, <2>1 DEF SynthesizeContextWindow, Follows
<1>3. PICK S : S = {msg} \cup {x \in {tail[i] : i \in DOMAIN tail} : Follows(x, msg)}
  OBVIOUS
<1>4. <<msg>> \in Seq(S) /\ Len(<<msg>>) = 1
  BY <1>3
<1>5. tail \in Seq(S) /\ Len(tail) \in 0..1
  <2>1. CASE tail = <<>>
    BY <2>1, EmptySeq
  <2>2. ASSUME NEW window, tail = <<window>>, Follows(window, msg)
        PROVE  tail \in Seq(S) /\ Len(tail) \in 0..1
    <3>1. tail[1] = window /\ 1 \in DOMAIN tail
      BY <2>2
    <3>2. window \in {tail[i] : i \in DOMAIN tail}
      BY <3>1
    <3>3. window \in S
      BY <1>3, <2>2, <3>2
    <3>4. <<window>> \in Seq(S) /\ Len(<<window>>) = 1
      BY <3>3
    <3> QED
      BY <2>2, <3>4
  <2> QED
    BY <1>2, <2>1, <2>2
<1>6. /\ <<msg>> \o tail \in Seq(S)
      /\ Len(<<msg>> \o tail) = Len(<<msg>>) + Len(tail)
  BY <1>4, <1>5, ConcatProperties
<1>7. PICK sent : sent = <<msg>> \o tail
  OBVIOUS
<1>8. /\ Len(sent) \in 1..2 /\ DOMAIN sent = 1..Len(sent)
      /\ \A i \in 1..Len(sent) : sent[i] \in S
  <2>1. sent \in Seq(S)
    BY <1>6, <1>7
  <2>2. DOMAIN sent = 1..Len(sent) /\ \A i \in 1..Len(sent) : sent[i] \in S
    BY <2>1, LenProperties
  <2> QED
    BY <1>4, <1>5, <1>6, <1>7, <2>2
<1>9. \A x \in S : x = msg \/ Follows(x, msg)
  BY <1>3
<1> QED
  BY <1>1, <1>7, <1>8, <1>9

-----------------------------------------------------------------------------
(* Types                                                                   *)

Cells == Ids \cup {Nothing, Sentinel}
Commands == {FirstArgs(backend, opts)} \cup {ResumeArgs(backend, opts, c) : c \in Cells}

Types ==
  /\ scene \in Scenes
  /\ cell \in Cells /\ (backend # "codex" => cell # Sentinel)
  /\ scan \in Nat
  /\ heard \in Seq([line : Lines[scene], scan : Nat])
  /\ argvs \in Seq([args : Commands, at : Nat])
  /\ Proper(out)

LEMMA Backends ==
  ASSUME scene \in Scenes
  PROVE  backend \in {"claude", "codex", "opencode", "agy"}
BY StreamAssumption DEF backend

LEMMA LineTypes ==
  ASSUME scene \in Scenes, NEW line \in Lines[scene]
  PROVE  line.n \in Nat /\ line.end \in DOMAIN Endings /\ "type" \in DOMAIN line.raw
BY StreamAssumption

\* What a line heard adds to the lines heard before.
LEMMA Hears ==
  ASSUME Types, NEW line \in Lines[scene], Hear(line)
  PROVE  /\ heard' \in Seq([line : Lines[scene], scan : Nat])
         /\ Len(heard) \in Nat /\ Len(heard') = Len(heard) + 1
         /\ \A i \in 1..Len(heard) : heard'[i] = heard[i]
         /\ heard'[Len(heard) + 1] = [line |-> line, scan |-> scan]
<1>1. PICK entry : entry = [line |-> line, scan |-> scan]
  OBVIOUS
<1>2. /\ heard \in Seq([line : Lines[scene], scan : Nat])
      /\ entry \in [line : Lines[scene], scan : Nat]
  BY <1>1 DEF Types
<1>3. /\ Append(heard, entry) \in Seq([line : Lines[scene], scan : Nat])
      /\ Len(Append(heard, entry)) = Len(heard) + 1
      /\ \A i \in 1..Len(heard) : Append(heard, entry)[i] = heard[i]
      /\ Append(heard, entry)[Len(heard) + 1] = entry
  BY <1>2, AppendProperties
<1>4. Len(heard) \in Nat
  BY <1>2, LenProperties
<1> QED
  BY <1>1, <1>3, <1>4 DEF Hear

\* What a subprocess started adds to the command lines.
LEMMA Spawns ==
  ASSUME Types, NEW args \in Commands, Spawn(args)
  PROVE  /\ argvs' \in Seq([args : Commands, at : Nat])
         /\ Len(argvs) \in Nat /\ Len(argvs') = Len(argvs) + 1
         /\ \A a \in 1..Len(argvs) : argvs'[a] = argvs[a]
         /\ argvs'[Len(argvs) + 1] = [args |-> args, at |-> Len(heard)]
<1>1. PICK entry : entry = [args |-> args, at |-> Len(heard)]
  OBVIOUS
<1>2. /\ argvs \in Seq([args : Commands, at : Nat])
      /\ entry \in [args : Commands, at : Nat]
  <2>1. Len(heard) \in Nat
    BY LenProperties DEF Types
  <2> QED
    BY <1>1, <2>1 DEF Types
<1>3. /\ Append(argvs, entry) \in Seq([args : Commands, at : Nat])
      /\ Len(Append(argvs, entry)) = Len(argvs) + 1
      /\ \A i \in 1..Len(argvs) : Append(argvs, entry)[i] = argvs[i]
      /\ Append(argvs, entry)[Len(argvs) + 1] = entry
  BY <1>2, AppendProperties
<1>4. Len(argvs) \in Nat
  BY <1>2, LenProperties
<1> QED
  BY <1>1, <1>3, <1>4 DEF Spawn

\* The first n of these messages of line i are what new adds to old.
Added(new, old, i, sent, n) ==
  /\ Proper(new) /\ Len(old) \in Nat /\ Len(new) = Len(old) + n
  /\ \A k \in 1..Len(old) : new[k] = old[k]
  /\ \A k \in (Len(old) + 1)..Len(new) :
       k - Len(old) \in 1..n /\ new[k] = [line |-> i, msg |-> sent[k - Len(old)]]

\* What is emitted for a message: its sequence of messages is added to those
\* before, or, when a replacing Send cancels the emit, only the first of them.
LEMMA EmitsSome ==
  ASSUME Types, NEW msg, NEW max, EmitMessage(msg, max),
         NEW sent, Len(sent) \in 1..2, DOMAIN sent = 1..Len(sent),
         LET filled == ApplyContextFill(CarryForward(msg, last).msg, max).msg
         IN sent = <<filled>> \o SynthesizeContextWindow(filled)
  PROVE  \E n \in 0..Len(sent) :
           /\ Added(out', out, Len(heard) + 1, sent, n)
           /\ \/ n = Len(sent) /\ phase' = phase
              \/ phase = "replacing" /\ phase' = "replaced"
<1>1. \E n \in 0..Len(sent) :
        /\ out' = out \o [i \in 1..n |-> [line |-> Len(heard) + 1, msg |-> sent[i]]]
        /\ \/ n = Len(sent) /\ phase' = phase
           \/ phase = "replacing" /\ phase' = "replaced"
  <2>1. \/ /\ out' = out \o [i \in 1..Len(sent) |-> [line |-> Len(heard) + 1, msg |-> sent[i]]]
           /\ phase' = phase
        \/ /\ phase = "replacing" /\ LoopEnds("exited")
           /\ \E n \in 0..(Len(sent) - 1) :
                out' = out \o [i \in 1..n |-> [line |-> Len(heard) + 1, msg |-> sent[i]]]
    <3>1. \/ /\ out' = out \o [i \in DOMAIN sent |-> [line |-> Len(heard) + 1, msg |-> sent[i]]]
             /\ UNCHANGED phase
          \/ /\ phase = "replacing" /\ LoopEnds("exited")
             /\ \E n \in 0..(Len(sent) - 1) :
                  out' = out \o [i \in 1..n |-> [line |-> Len(heard) + 1, msg |-> sent[i]]]
      BY Zenon DEF EmitMessage
    <3> QED
      BY <3>1
  <2>2. CASE /\ out' = out \o [i \in 1..Len(sent) |-> [line |-> Len(heard) + 1, msg |-> sent[i]]]
             /\ phase' = phase
    <3>1. Len(sent) \in 0..Len(sent)
      OBVIOUS
    <3> QED
      BY <2>2, <3>1
  <2>3. CASE /\ phase = "replacing" /\ LoopEnds("exited")
             /\ \E n \in 0..(Len(sent) - 1) :
                  out' = out \o [i \in 1..n |-> [line |-> Len(heard) + 1, msg |-> sent[i]]]
    <3>1. phase' = "replaced"
      BY <2>3 DEF LoopEnds
    <3>2. PICK n \in 0..(Len(sent) - 1) :
            out' = out \o [i \in 1..n |-> [line |-> Len(heard) + 1, msg |-> sent[i]]]
      BY <2>3
    <3>3. n \in 0..Len(sent)
      OBVIOUS
    <3> QED
      BY <2>3, <3>1, <3>2, <3>3
  <2> QED
    BY <2>1, <2>2, <2>3
<1>2. PICK n \in 0..Len(sent) :
        /\ out' = out \o [i \in 1..n |-> [line |-> Len(heard) + 1, msg |-> sent[i]]]
        /\ \/ n = Len(sent) /\ phase' = phase
           \/ phase = "replacing" /\ phase' = "replaced"
  BY <1>1
<1>3. PICK T : T = {[line |-> Len(heard) + 1, msg |-> sent[i]] : i \in 1..n}
  OBVIOUS
<1>4. PICK f : f = [i \in 1..n |-> [line |-> Len(heard) + 1, msg |-> sent[i]]]
  OBVIOUS
<1>5. n \in Nat /\ f \in [1..n -> T] /\ Proper(out)
  BY <1>3, <1>4 DEF Types
<1>6. /\ Proper(out \o f)
      /\ Len(out) \in Nat /\ Len(out \o f) = Len(out) + n
      /\ \A i \in 1..Len(out) : (out \o f)[i] = out[i]
      /\ \A i \in (Len(out) + 1)..(Len(out) + n) : (out \o f)[i] = f[i - Len(out)]
  <2>1. Extended(out \o f, out, n, f)
    BY ONLY <1>5, ProperConcat
  <2> QED
    BY ONLY <2>1 DEF Extended
<1>7. out' = out \o f
  BY <1>2, <1>4
<1>8. ASSUME NEW k \in (Len(out) + 1)..Len(out')
      PROVE  /\ k - Len(out) \in 1..n
             /\ out'[k] = [line |-> Len(heard) + 1, msg |-> sent[k - Len(out)]]
  <2>1. k - Len(out) \in 1..n /\ out'[k] = f[k - Len(out)]
    BY <1>5, <1>6, <1>7
  <2> QED
    BY <1>4, <2>1
<1>9. /\ Proper(out') /\ Len(out) \in Nat /\ Len(out') = Len(out) + n
      /\ \A k \in 1..Len(out) : out'[k] = out[k]
  BY ONLY <1>6, <1>7
<1>10. Added(out', out, Len(heard) + 1, sent, n)
  BY ONLY <1>8, <1>9 DEF Added
<1> QED
  BY ONLY ZenonT(60), <1>2, <1>10

\* So the messages emitted are the filled one and a context window behind it,
\* or, when a replacing Send cancels the emit, only the first of them.
LEMMA Emits ==
  ASSUME Types, NEW msg, NEW max, EmitMessage(msg, max)
  PROVE  LET filled == ApplyContextFill(CarryForward(msg, last).msg, max).msg
         IN /\ Proper(out') /\ Len(out) \in Nat /\ Len(out') \in Nat /\ Len(out') >= Len(out)
            /\ \A k \in 1..Len(out) : out'[k] = out[k]
            /\ \A k \in (Len(out) + 1)..Len(out') :
                 /\ out'[k].line = Len(heard) + 1
                 /\ out'[k].msg = filled \/ Follows(out'[k].msg, filled)
            /\ \/ Len(out') > Len(out) /\ phase' = phase
               \/ phase = "replacing" /\ phase' = "replaced"
<1>1. PICK filled : filled = ApplyContextFill(CarryForward(msg, last).msg, max).msg
  OBVIOUS
<1>2. PICK sent : sent = <<filled>> \o SynthesizeContextWindow(filled)
  OBVIOUS
<1>3. /\ Len(sent) \in 1..2 /\ DOMAIN sent = 1..Len(sent)
      /\ \A i \in 1..Len(sent) : sent[i] = filled \/ Follows(sent[i], filled)
  BY <1>2, Sent
<1>4. PICK n \in 0..Len(sent) :
        /\ Added(out', out, Len(heard) + 1, sent, n)
        /\ \/ n = Len(sent) /\ phase' = phase
           \/ phase = "replacing" /\ phase' = "replaced"
  BY <1>1, <1>2, <1>3, EmitsSome
<1>5. /\ Proper(out') /\ Len(out) \in Nat /\ Len(out') = Len(out) + n
      /\ \A k \in 1..Len(out) : out'[k] = out[k]
      /\ \A k \in (Len(out) + 1)..Len(out') :
           /\ k - Len(out) \in 1..n
           /\ out'[k] = [line |-> Len(heard) + 1, msg |-> sent[k - Len(out)]]
  BY ONLY <1>4 DEF Added
<1>6. ASSUME NEW k \in (Len(out) + 1)..Len(out')
      PROVE  /\ out'[k].line = Len(heard) + 1
             /\ out'[k].msg = filled \/ Follows(out'[k].msg, filled)
  <2>1. /\ k - Len(out) \in 1..n
        /\ out'[k] = [line |-> Len(heard) + 1, msg |-> sent[k - Len(out)]]
    BY ONLY <1>5, <1>6
  <2>2. k - Len(out) \in 1..Len(sent)
    BY ONLY <1>3, n \in 0..Len(sent), <2>1
  <2>3. out'[k].line = Len(heard) + 1 /\ out'[k].msg = sent[k - Len(out)]
    BY ONLY <2>1
  <2> QED
    BY ONLY <1>3, <2>2, <2>3
<1>7. n \in Nat /\ Len(sent) > 0
  BY <1>3
<1>8. /\ Len(out') \in Nat /\ Len(out') >= Len(out)
      /\ (Len(out') > Len(out) /\ phase' = phase) \/ (phase = "replacing" /\ phase' = "replaced")
  BY ONLY <1>4, <1>5, <1>7
<1> QED
  BY ONLY <1>1, <1>5, <1>6, <1>8

-----------------------------------------------------------------------------
(* What a line does to the backend's session id.                           *)

\* The first line that names a session fills the cell, for good.
LEMMA WrittenOnce ==
  ASSUME scene \in Scenes, cell \in Cells, backend # "codex" => cell # Sentinel, NEW raw
  PROVE  LET after == ParseLine(backend, raw, cell).cell
         IN /\ cell \in Ids => after = cell
            /\ cell \notin Ids /\ IdIn(raw) \in Ids => after = IdIn(raw)
            /\ cell \notin Ids /\ IdIn(raw) \notin Ids =>
                 after \in {Nothing, Sentinel} /\ (backend # "codex" => after # Sentinel)
<1>1. backend \in {"claude", "codex", "opencode", "agy"}
  BY Backends
<1>2. cell \in Ids <=> cell \notin {Nothing, Sentinel}
  BY IdAssumption DEF Cells
<1>3. CASE backend = "claude"
  <2>1. ParseLine(backend, raw, cell).cell = cell
    BY <1>3 DEF ParseLine, Unchanged
  <2>2. IdIn(raw) = ""
    BY <1>3 DEF IdIn
  <2> QED
    BY <1>2, <2>1, <2>2, IdAssumption
<1>4. CASE backend = "codex"
  <2>1. CASE raw.type = "thread.started"
    <3>1. ParseLine(backend, raw, cell) = ThreadStarted(raw, cell)
      BY <1>4, <2>1 DEF ParseLine
    <3>2. IdIn(raw) = GetString(raw, "thread_id")
      BY <1>4, <2>1 DEF IdIn
    <3>3. PICK tid : tid = GetString(raw, "thread_id")
      OBVIOUS
    <3>4. ThreadStarted(raw, cell).cell =
            IF tid \in Ids /\ cell \in {Nothing, Sentinel} THEN tid
            ELSE IF cell = Nothing THEN Sentinel ELSE cell
      BY <3>3 DEF ThreadStarted
    <3> QED
      BY <1>2, <1>4, <3>1, <3>2, <3>3, <3>4, IdAssumption
  <2>2. CASE raw.type # "thread.started"
    <3>1. ParseLine(backend, raw, cell).cell = cell
      BY <1>4, <2>2 DEF ParseLine, Unchanged
    <3>2. IdIn(raw) = ""
      BY <1>4, <2>2 DEF IdIn
    <3> QED
      BY <1>2, <1>4, <3>1, <3>2, IdAssumption
  <2> QED
    BY <2>1, <2>2
<1>5. CASE backend = "opencode"
  <2>1. CASE raw.type = "step_start"
    <3>1. ParseLine(backend, raw, cell) = StepStart(raw, cell)
      BY <1>5, <2>1 DEF ParseLine
    <3>2. IdIn(raw) = GetString(raw, "sessionID")
      BY <1>5, <2>1 DEF IdIn
    <3>3. PICK sid : sid = GetString(raw, "sessionID")
      OBVIOUS
    <3>4. StepStart(raw, cell).cell =
            IF cell # Nothing THEN cell ELSE IF sid \in Ids THEN sid ELSE cell
      BY <3>3 DEF StepStart
    <3> QED
      BY <1>2, <1>5, <3>1, <3>2, <3>3, <3>4, IdAssumption
  <2>2. CASE raw.type # "step_start"
    <3>1. ParseLine(backend, raw, cell).cell = cell
      BY <1>5, <2>2 DEF ParseLine, Unchanged
    <3>2. IdIn(raw) = ""
      BY <1>5, <2>2 DEF IdIn
    <3> QED
      BY <1>2, <1>5, <3>1, <3>2, IdAssumption
  <2> QED
    BY <2>1, <2>2
<1>6. CASE backend = "agy"
  <2>1. CASE raw.type = "agy_session"
    <3>1. ParseLine(backend, raw, cell) = AgySession(raw, cell)
      BY <1>6, <2>1 DEF ParseLine
    <3>2. IdIn(raw) = raw.id
      BY <1>6, <2>1 DEF IdIn
    <3>3. AgySession(raw, cell).cell =
            IF raw.id \in Ids /\ cell = Nothing THEN raw.id ELSE cell
      BY DEF AgySession
    <3> QED
      BY <1>2, <1>6, <3>1, <3>2, <3>3, IdAssumption
  <2>2. CASE raw.type # "agy_session"
    <3>1. ParseLine(backend, raw, cell).cell = cell
      BY <1>6, <2>2 DEF ParseLine, Unchanged
    <3>2. IdIn(raw) = ""
      BY <1>6, <2>2 DEF IdIn
    <3> QED
      BY <1>2, <1>6, <3>1, <3>2, IdAssumption
  <2> QED
    BY <2>1, <2>2
<1> QED
  BY <1>1, <1>3, <1>4, <1>5, <1>6

LEMMA CellStays ==
  ASSUME Types, NEW raw, cell' = ParseLine(backend, raw, cell).cell, scene' = scene
  PROVE  cell' \in Cells /\ (backend' # "codex" => cell' # Sentinel)
<1>1. PICK after : after = ParseLine(backend, raw, cell).cell
  OBVIOUS
<1>2. /\ cell \in Ids => after = cell
      /\ cell \notin Ids /\ IdIn(raw) \in Ids => after = IdIn(raw)
      /\ cell \notin Ids /\ IdIn(raw) \notin Ids =>
           after \in {Nothing, Sentinel} /\ (backend # "codex" => after # Sentinel)
  BY <1>1, WrittenOnce DEF Types
<1>3. backend' = backend
  BY DEF backend
<1> QED
  BY <1>1, <1>2, <1>3, IdAssumption DEF Cells

-----------------------------------------------------------------------------
(* The steps of a session, told apart by what they do to its books.        *)

\* A line is taken, and this becomes of it.
Takes(line) ==
  /\ line \in Lines[scene] /\ Hear(line)
  /\ scene' = scene /\ opts' = opts /\ argvs' = argvs /\ scan' = scan

\* A subprocess is told these arguments.
Tells(args) ==
  /\ args \in Commands /\ Spawn(args)
  /\ scene' = scene /\ opts' = opts /\ cell' = cell /\ heard' = heard /\ out' = out

LEMMA ReadSteps ==
  ASSUME Types, ReadSome
  PROVE  \E line \in Lines[scene] :
           /\ Takes(line)
           /\ \/ LineTooLong(line) \/ SkipLine(line) \/ ParseError(line) \/ ParsedLine(line)
BY DEF ReadSome, Takes, LineTooLong, SkipLine, ParseError, ParsedLine

LEMMA SpawnSteps ==
  ASSUME Types, Start \/ ResumeAfterCleanExit \/ ReplaceSubprocess
  PROVE  \E args : Tells(args)
                   /\ (Start => args = FirstArgs(backend, opts))
                   /\ (~Start => args = ResumeArgs(backend, opts, cell))
<1>1. CASE Start
  BY <1>1 DEF Start, Tells, Commands, NewScan
<1>2. CASE ResumeAfterCleanExit /\ ~Start
  BY <1>2 DEF ResumeAfterCleanExit, Tells, Commands, NewScan, Types
<1>3. CASE ReplaceSubprocess /\ ~Start
  BY <1>3 DEF ReplaceSubprocess, Tells, Commands, Types
<1> QED
  BY <1>1, <1>2, <1>3

\* The other steps touch none of the books.
LEMMA OtherSteps ==
  ASSUME StartRefused \/ EndOfStream \/ SpawnReplacement
  PROVE  UNCHANGED <<scene, opts, argvs, cell, heard, out>>
BY DEF StartRefused, EndOfStream, SpawnReplacement

LEMMA TypesInit ==
  ASSUME Init
  PROVE  Types
<1>1. cell = Nothing /\ scan = 0 /\ scene \in Scenes
  BY DEF Init
<1>2. heard = <<>> /\ argvs = <<>> /\ out = <<>>
  BY DEF Init
<1>3. /\ heard \in Seq([line : Lines[scene], scan : Nat])
      /\ argvs \in Seq([args : Commands, at : Nat])
      /\ Proper(out)
  BY <1>2, EmptySeq DEF Proper
<1> QED
  BY <1>1, <1>3, IdAssumption DEF Types, Cells

LEMMA TypesStep ==
  ASSUME Types, [Next]_vars
  PROVE  Types'
<1>1. ASSUME ReadSome
      PROVE  Types'
  <2>1. PICK line \in Lines[scene] :
          /\ Takes(line)
          /\ \/ LineTooLong(line) \/ SkipLine(line) \/ ParseError(line) \/ ParsedLine(line)
    BY <1>1, ReadSteps
  <2>2. /\ scene' = scene /\ opts' = opts /\ argvs' = argvs /\ scan' = scan
        /\ Hear(line)
    BY <2>1 DEF Takes
  <2>3. heard' \in Seq([line : Lines[scene], scan : Nat])
    BY <2>2, Hears
  <2>4. cell' \in Cells /\ (backend' # "codex" => cell' # Sentinel)
    <3>1. CASE cell' = cell
      BY <2>2, <3>1 DEF Types, Cells, backend
    <3>2. CASE ParsedLine(line)
      <4>1. cell' = ParseLine(backend, line.raw, cell).cell
        BY <3>2 DEF ParsedLine
      <4> QED
        BY <2>2, <4>1, CellStays
    <3> QED
      BY <2>1, <3>1, <3>2 DEF LineTooLong, SkipLine, ParseError
  <2>5. Proper(out')
    <3>1. CASE out' = out
      BY <3>1 DEF Types
    <3>2. CASE \E msg, max : EmitMessage(msg, max)
      BY <3>2, Emits
    <3> QED
      BY <2>1, <3>1, <3>2 DEF LineTooLong, SkipLine, ParseError, ParsedLine
  <2>6. /\ scene' \in Scenes /\ scan' \in Nat
        /\ argvs' \in Seq([args : Commands', at : Nat])
        /\ Lines[scene]' = Lines[scene]
    BY <2>2 DEF Types, Commands, Cells, backend
  <2> QED
    BY <2>3, <2>4, <2>5, <2>6 DEF Types
<1>2. ASSUME Start \/ ResumeAfterCleanExit \/ ReplaceSubprocess
      PROVE  Types'
  <2>1. PICK args : Tells(args)
    BY <1>2, SpawnSteps
  <2>2. /\ args \in Commands /\ Spawn(args)
        /\ scene' = scene /\ opts' = opts /\ cell' = cell /\ heard' = heard /\ out' = out
    BY <2>1 DEF Tells
  <2>3. argvs' \in Seq([args : Commands, at : Nat])
    BY <2>2, Spawns
  <2>4. Commands' = Commands /\ backend' = backend /\ Cells' = Cells
    BY <2>2 DEF Commands, backend, Cells
  <2>5. scan' \in Nat
    <3>1. scan' = scan \/ scan' = scan + 1
      BY <1>2 DEF Start, ResumeAfterCleanExit, ReplaceSubprocess, NewScan
    <3> QED
      BY <3>1 DEF Types
  <2> QED
    BY <2>2, <2>3, <2>4, <2>5 DEF Types
<1>3. ASSUME StartRefused \/ EndOfStream \/ SpawnReplacement
      PROVE  Types'
  <2>1. UNCHANGED <<scene, opts, argvs, cell, heard, out>>
    BY <1>3, OtherSteps
  <2>2. scan' \in Nat
    <3>1. scan' = scan \/ scan' = scan + 1
      BY <1>3 DEF StartRefused, EndOfStream, SpawnReplacement, NewScan
    <3> QED
      BY <3>1 DEF Types
  <2> QED
    BY <2>1, <2>2 DEF Types, Commands, Cells, backend
<1>4. CASE UNCHANGED vars
  BY <1>4 DEF vars, Types, Commands, Cells, backend
<1> QED
  BY <1>1, <1>2, <1>3, <1>4 DEF Next

-----------------------------------------------------------------------------
(* Permissions                                                             *)

\* Whether a session runs without permission prompts: its options decide.
Unasked ==
  CASE backend = "claude"   -> ResolvePermissionFlag(opts) = "bypassPermissions"
    [] backend = "codex"    -> FullAuto(opts)
    [] backend = "opencode" -> FALSE
    [] backend = "agy"      -> SkipPermissions(opts)

\* Every command line a session may have lifts the prompts or none does.
LEMMA SameForAll ==
  ASSUME scene \in Scenes, NEW args \in Commands
  PROVE  args.flags \cap Unprompted # {} <=> Unasked
<1>1. backend \in {"claude", "codex", "opencode", "agy"}
  BY Backends
<1>2. args = FirstArgs(backend, opts) \/ \E c \in Cells : args = ResumeArgs(backend, opts, c)
  BY DEF Commands
<1>3. CASE backend = "claude"
  <2>1. ResumeArgs(backend, opts, Nothing).flags = ClaudeSessionFlags(opts)
        /\ \A c \in Cells : ResumeArgs(backend, opts, c).flags = ClaudeSessionFlags(opts)
    BY <1>3 DEF ResumeArgs, Resuming
  <2>2. FirstArgs(backend, opts).flags =
          ClaudeSessionFlags(opts) \cup {<<"--input-format", "stream-json">>,
                                         <<"--include-partial-messages", "">>}
    BY <1>3 DEF FirstArgs, ClaudeStreamArgs, Resuming, Spawned
  <2>3. {<<"--input-format", "stream-json">>, <<"--include-partial-messages", "">>}
          \cap Unprompted = {}
    <3>1. /\ <<"--input-format", "stream-json">>[1] = "--input-format"
          /\ <<"--include-partial-messages", "">>[1] = "--include-partial-messages"
      OBVIOUS
    <3>2. "--input-format" \notin UnpromptedFlags /\ "--include-partial-messages" \notin UnpromptedFlags
      BY DEF UnpromptedFlags
    <3>3. <<"--input-format", "stream-json">> \notin Unprompted
      BY ONLY <3>1, <3>2, UnpromptedNames, Zenon
    <3>4. <<"--include-partial-messages", "">> \notin Unprompted
      BY ONLY <3>1, <3>2, UnpromptedNames, Zenon
    <3> QED
      BY ONLY <3>3, <3>4
  <2>4. args.flags \cap Unprompted = ClaudeSessionFlags(opts) \cap Unprompted
    BY <1>2, <2>1, <2>2, <2>3
  <2> QED
    BY <1>3, <2>4, ClaudeUnprompted DEF Unasked
<1>4. CASE backend = "codex"
  <2>1. args = CodexExecCommand(opts) \/ \E id : args = CodexResumeCommand(id, opts)
    BY <1>2, <1>4 DEF FirstArgs, ResumeArgs, CodexSpawnArgs
  <2> QED
    BY <1>4, <2>1, CodexUnprompted DEF Unasked
<1>5. CASE backend = "opencode"
  <2>1. args = OpenCodeSpawnArgs(opts) \/ \E id : args = OpenCodeResumeCommand(id, opts)
    BY <1>2, <1>5 DEF FirstArgs, ResumeArgs
  <2> QED
    BY <1>5, <2>1, OpenCodePrompts DEF Unasked
<1>6. CASE backend = "agy"
  <2>1. args.flags = AgyFlags(opts)
    <3>1. FirstArgs(backend, opts).flags = AgyFlags(opts)
      BY <1>6 DEF FirstArgs, Spawned
    <3>2. \A c \in Cells : ResumeArgs(backend, opts, c).flags = AgyFlags(opts)
      BY <1>6 DEF ResumeArgs, Resuming
    <3> QED
      BY <1>2, <3>1, <3>2
  <2> QED
    BY <1>6, <2>1, AgyUnprompted DEF Unasked
<1> QED
  BY <1>1, <1>3, <1>4, <1>5, <1>6

LEMMA OnlyIfPermitted ==
  ASSUME scene \in Scenes, Unasked
  PROVE  Permitted
<1>1. backend \in {"claude", "codex", "opencode", "agy"}
  BY Backends
<1>2. CASE backend = "claude"
  <2>1. ResolvePermissionFlag(opts) = "bypassPermissions"
    BY <1>2 DEF Unasked
  <2>2. CASE RootOptionsSet(opts)
    BY <1>2, <2>1, <2>2 DEF ResolvePermissionFlag, Permitted
  <2>3. CASE ~RootOptionsSet(opts)
    <3>1. /\ Opt(opts, "permission_mode") \in DOMAIN MapPermission \ {"default"}
          /\ MapPermission[Opt(opts, "permission_mode")] = "bypassPermissions"
      BY <2>1, <2>3 DEF ResolvePermissionFlag
    <3>2. Opt(opts, "permission_mode") = "bypassAll"
      BY <3>1 DEF MapPermission
    <3> QED
      BY <1>2, <2>3, <3>2 DEF Permitted
  <2> QED
    BY <2>2, <2>3
<1>3. CASE backend = "codex"
  BY <1>3 DEF Unasked, FullAuto, Permitted
<1>4. CASE backend = "opencode"
  BY <1>4 DEF Unasked
<1>5. CASE backend = "agy"
  BY <1>5 DEF Unasked, SkipPermissions, Permitted
<1> QED
  BY <1>1, <1>2, <1>3, <1>4, <1>5

LEMMA TypesNoEscalation ==
  ASSUME Types
  PROVE  NoEscalation
<1>1. DOMAIN argvs = 1..Len(argvs) /\ Len(argvs) \in Nat
  BY LenProperties DEF Types
<1>2. \A a \in DOMAIN argvs : argvs[a].args \in Commands
  <2>1. \A a \in 1..Len(argvs) : argvs[a] \in [args : Commands, at : Nat]
    BY LenProperties DEF Types
  <2>2. \A e \in [args : Commands, at : Nat] : e.args \in Commands
    OBVIOUS
  <2> QED
    BY <1>1, <2>1, <2>2
<1>3. \A a \in DOMAIN argvs : 1 \in DOMAIN argvs
  BY <1>1
<1>4. \A a \in DOMAIN argvs : argvs[a].args.flags \cap Unprompted # {} <=> Unasked
  BY <1>2, SameForAll DEF Types
<1>5. Unasked => Permitted
  BY OnlyIfPermitted DEF Types
<1>6. \A args : Bypasses(args) <=> args.flags \cap Unprompted # {}
  BY DEF Bypasses, Unprompted
<1> QED
  BY <1>3, <1>4, <1>5, <1>6 DEF NoEscalation

\* Types is an invariant by itself.
THEOREM SessionsAreTyped == Spec => []Types
<1>1. Init => Types
  BY TypesInit
<1>2. Types /\ [Next]_vars => Types'
  BY TypesStep
<1> QED
  BY <1>1, <1>2, PTL DEF Spec

\* No subprocess of a session runs without permission prompts unless the
\* options it was started with permit it, and a resumed one is bound as the
\* first was, for any options (resolvePermissionFlag, resolveExecPolicy and
\* resolveResumeFullAuto, appendPermissionArgs).
THEOREM PermissionsAreKept == Spec => []NoEscalation
<1>1. Types => NoEscalation
  BY TypesNoEscalation
<1> QED
  BY <1>1, SessionsAreTyped, PTL

-----------------------------------------------------------------------------
(* Which session a subprocess resumes                                      *)

\* Among the first m lines, those that name a session.
NamedBy(m) == {i \in 1..m : ~Oversized(heard[i].line) /\ IdIn(Raw(i)) \in Ids}

IdAt(m) ==
  IF NamedBy(m) = {} THEN Opt(opts, "resume_id") ELSE IdIn(Raw(Min(NamedBy(m))))

\* The cell holds what the first of them named.
Captured ==
  IF NamedBy(Len(heard)) = {} THEN cell \in {Nothing, Sentinel}
  ELSE cell = IdIn(Raw(Min(NamedBy(Len(heard)))))

\* Every command line resumes what was named when it was built.
Told ==
  \A e \in {argvs[a] : a \in DOMAIN argvs} :
    e.at \in 0..Len(heard) /\ (e.args.resumes => e.args.id = IdAt(e.at))

InitsNamed ==
  \A k \in DOMAIN out :
    (backend \in {"codex", "opencode"} /\ out[k].msg.type = "init" /\ out[k].msg.resume # "")
      => out[k].msg.resume = cell /\ cell \in Ids

Session == Captured /\ Told /\ InitsNamed /\ (phase = "new" => heard = <<>>)

LEMMA LeastOf ==
  ASSUME NEW S, S \subseteq Nat, NEW m \in S, \A y \in S : m <= y
  PROVE  Min(S) = m
<1>1. PICK x : x = Min(S)
  OBVIOUS
<1>2. x \in S /\ \A y \in S : x <= y
  BY <1>1 DEF Min
<1>3. m <= x /\ x <= m /\ x \in Nat /\ m \in Nat
  BY <1>2
<1> QED
  BY <1>1, <1>3

LEMMA LeastIsOne ==
  ASSUME NEW S, S \subseteq Nat, S # {}
  PROVE  Min(S) \in S /\ \A y \in S : Min(S) <= y
<1>1. PICK m \in S : \A y \in S : m <= y
  BY LeastNatural
<1>2. Min(S) = m
  BY <1>1, LeastOf
<1> QED
  BY <1>1, <1>2

\* The lines heard before name what they named.
LEMMA NamesStay ==
  ASSUME Types, scene' = scene, \A i \in 1..Len(heard) : heard'[i] = heard[i]
  PROVE  \A m \in 0..Len(heard) :
           /\ NamedBy(m)' = NamedBy(m)
           /\ NamedBy(m) # {} => Min(NamedBy(m)) \in 1..m /\ IdIn(Raw(Min(NamedBy(m)))) \in Ids
           /\ opts' = opts => IdAt(m)' = IdAt(m)
           /\ NamedBy(m) # {} => IdIn(Raw(Min(NamedBy(m))))' = IdIn(Raw(Min(NamedBy(m))))
<1>1. backend' = backend
  BY DEF backend
<1>2. Len(heard) \in Nat
  BY LenProperties DEF Types
<1>3. \A i \in 1..Len(heard) : /\ IdIn(Raw(i))' = IdIn(Raw(i))
                               /\ Oversized(heard[i].line)' = Oversized(heard[i].line)
  <2>1. \A i \in 1..Len(heard) : Raw(i)' = Raw(i) /\ (heard[i].line)' = heard[i].line
    BY DEF Raw
  <2>2. \A i \in 1..Len(heard) : Oversized(heard[i].line)' = Oversized(heard[i].line)
    BY <2>1 DEF Oversized
  <2>3. \A i \in 1..Len(heard) : IdIn(Raw(i))' = IdIn(Raw(i))
    BY <1>1, <2>1 DEF IdIn
  <2> QED
    BY <2>2, <2>3
<1>4. ASSUME NEW m \in 0..Len(heard)
      PROVE  /\ NamedBy(m)' = NamedBy(m)
             /\ NamedBy(m) # {} => Min(NamedBy(m)) \in 1..m /\ IdIn(Raw(Min(NamedBy(m)))) \in Ids
             /\ opts' = opts => IdAt(m)' = IdAt(m)
             /\ NamedBy(m) # {} => IdIn(Raw(Min(NamedBy(m))))' = IdIn(Raw(Min(NamedBy(m))))
  <2>1. 1..m \subseteq 1..Len(heard) /\ 1..m \subseteq Nat
    BY <1>2
  <2>2. NamedBy(m)' = NamedBy(m)
    BY <1>3, <2>1 DEF NamedBy
  <2>3. NamedBy(m) # {} => Min(NamedBy(m)) \in NamedBy(m)
    <3>1. NamedBy(m) \subseteq Nat
      BY <2>1 DEF NamedBy
    <3> QED
      BY <3>1, LeastIsOne
  <2>4. NamedBy(m) # {} => Min(NamedBy(m)) \in 1..m /\ IdIn(Raw(Min(NamedBy(m)))) \in Ids
    BY <2>3 DEF NamedBy
  <2>5. NamedBy(m) # {} => Min(NamedBy(m))' = Min(NamedBy(m))
    BY <2>2 DEF Min
  <2>6. NamedBy(m) # {} => IdIn(Raw(Min(NamedBy(m))))' = IdIn(Raw(Min(NamedBy(m))))
    <3>1. SUFFICES ASSUME NamedBy(m) # {}
                   PROVE  IdIn(Raw(Min(NamedBy(m))))' = IdIn(Raw(Min(NamedBy(m))))
      OBVIOUS
    <3>2. PICK i \in 1..Len(heard) : i = Min(NamedBy(m))
      BY <2>1, <2>4, <3>1
    <3>3. Raw(Min(NamedBy(m)))' = Raw(Min(NamedBy(m)))
      BY <2>5, <3>1, <3>2 DEF Raw
    <3> QED
      BY <1>1, <3>3 DEF IdIn
  <2>7. opts' = opts => IdAt(m)' = IdAt(m)
    <3>1. opts' = opts => Opt(opts, "resume_id")' = Opt(opts, "resume_id")
      BY DEF Opt
    <3> QED
      BY <2>2, <2>6, <3>1 DEF IdAt
  <2> QED
    BY <2>2, <2>4, <2>6, <2>7
<1> QED
  BY <1>4

\* A line taken may name a session besides.
LEMMA NamesTaken ==
  ASSUME Types, NEW line \in Lines[scene], Takes(line)
  PROVE  /\ NamedBy(Len(heard))' =
              NamedBy(Len(heard)) \cup (IF ~Oversized(line) /\ IdIn(line.raw) \in Ids
                                        THEN {Len(heard) + 1} ELSE {})
         /\ IdIn(Raw(Len(heard)))' = IdIn(line.raw)
<1>1. /\ Len(heard) \in Nat /\ Len(heard') = Len(heard) + 1
      /\ \A i \in 1..Len(heard) : heard'[i] = heard[i]
      /\ heard'[Len(heard) + 1] = [line |-> line, scan |-> scan]
  BY Hears DEF Takes
<1>2. scene' = scene /\ backend' = backend
  BY DEF Takes, backend
<1>3. PICK n \in Nat : n = Len(heard)
  BY <1>1
<1>4. NamedBy(n)' = NamedBy(n)
  <2>1. \A m \in 0..Len(heard) : NamedBy(m)' = NamedBy(m)
    BY <1>1, <1>2, NamesStay
  <2> QED
    BY <1>3, <2>1
<1>5. heard'[n + 1].line = line /\ Len(heard') = n + 1
  BY <1>1, <1>3
<1>6. IdIn(Raw(n + 1))' = IdIn(line.raw)
  <2>1. Raw(n + 1)' = line.raw
    BY <1>5 DEF Raw
  <2> QED
    BY <1>2, <2>1 DEF IdIn
<1>7. Oversized(heard[n + 1].line)' = Oversized(line)
  BY <1>5 DEF Oversized
<1>8. NamedBy(Len(heard))' =
        {i \in 1..(n + 1) : Oversized(heard[i].line)' = FALSE /\ IdIn(Raw(i))' \in Ids}
  BY <1>5 DEF NamedBy, Oversized
<1>9. NamedBy(n)' = {i \in 1..n : Oversized(heard[i].line)' = FALSE /\ IdIn(Raw(i))' \in Ids}
  BY DEF NamedBy, Oversized
<1>10. 1..(n + 1) = 1..n \cup {n + 1}
  OBVIOUS
<1>11. NamedBy(Len(heard))' =
         NamedBy(n) \cup (IF ~Oversized(line) /\ IdIn(line.raw) \in Ids THEN {n + 1} ELSE {})
  BY <1>4, <1>6, <1>7, <1>8, <1>9, <1>10 DEF Oversized
<1>12. NamedBy(Len(heard)) = NamedBy(n)
  BY <1>3
<1>13. IdIn(Raw(Len(heard)))' = IdIn(Raw(n + 1))'
  BY <1>2, <1>5 DEF IdIn, Raw
<1> QED
  BY <1>3, <1>6, <1>11, <1>12, <1>13

LEMMA CapturedTaken ==
  ASSUME Types, Captured, NEW line \in Lines[scene], Takes(line),
         cell \in Ids => cell' = cell,
         cell \notin Ids /\ ~Oversized(line) /\ IdIn(line.raw) \in Ids => cell' = IdIn(line.raw),
         cell \notin Ids /\ ~(~Oversized(line) /\ IdIn(line.raw) \in Ids) =>
           cell' \in {Nothing, Sentinel}
  PROVE  Captured'
<1>1. /\ Len(heard) \in Nat /\ Len(heard') = Len(heard) + 1
      /\ \A i \in 1..Len(heard) : heard'[i] = heard[i]
  BY Hears DEF Takes
<1>2. scene' = scene /\ backend' = backend
  BY DEF Takes, backend
<1>3. PICK n \in Nat : n = Len(heard)
  BY <1>1
<1>4. PICK named : named = NamedBy(n)
  OBVIOUS
<1>5. PICK after : after = NamedBy(Len(heard))'
  OBVIOUS
<1>6. /\ after = named \cup (IF ~Oversized(line) /\ IdIn(line.raw) \in Ids THEN {n + 1} ELSE {})
      /\ IdIn(Raw(Len(heard)))' = IdIn(line.raw)
  <2>1. /\ NamedBy(Len(heard))' =
             NamedBy(Len(heard)) \cup (IF ~Oversized(line) /\ IdIn(line.raw) \in Ids
                                       THEN {Len(heard) + 1} ELSE {})
        /\ IdIn(Raw(Len(heard)))' = IdIn(line.raw)
    BY NamesTaken
  <2> QED
    BY <1>3, <1>4, <1>5, <2>1
<1>7. named \subseteq 1..n
  BY <1>4 DEF NamedBy
<1>8. Captured' <=> IF after = {} THEN cell' \in {Nothing, Sentinel}
                    ELSE cell' = IdIn(Raw(Min(NamedBy(Len(heard)))))'
  BY <1>5 DEF Captured
<1>9. CASE named = {}
  <2>1. cell \in {Nothing, Sentinel} /\ cell \notin Ids
    BY <1>3, <1>4, <1>9, IdAssumption DEF Captured
  <2>2. CASE ~Oversized(line) /\ IdIn(line.raw) \in Ids
    <3>1. after = {n + 1}
      BY <1>6, <1>9, <2>2
    <3>2. Min(after) = n + 1
      <4>1. after \subseteq Nat /\ n + 1 \in after /\ \A y \in after : n + 1 <= y
        BY <1>3, <3>1
      <4> QED
        BY <4>1, LeastOf
    <3>3. Min(NamedBy(Len(heard)))' = Min(after)
      BY <1>5 DEF Min
    <3>4. IdIn(Raw(Min(NamedBy(Len(heard)))))' = IdIn(Raw(Len(heard)))'
      BY <1>1, <1>3, <3>2, <3>3 DEF IdIn, Raw
    <3> QED
      BY <1>6, <1>8, <2>1, <2>2, <3>1, <3>4
  <2>3. CASE ~(~Oversized(line) /\ IdIn(line.raw) \in Ids)
    BY <1>6, <1>8, <1>9, <2>1, <2>3
  <2> QED
    BY <2>2, <2>3
<1>10. CASE named # {}
  <2>1. PICK least : least = Min(named)
    OBVIOUS
  <2>2. least \in named /\ \A y \in named : least <= y
    <3>1. named \subseteq Nat
      BY <1>7
    <3> QED
      BY <1>10, <2>1, <3>1, LeastIsOne
  <2>3. Min(after) = least
    <3>1. after \subseteq Nat /\ least \in after /\ \A y \in after : least <= y
      <4>1. \A y \in after : y \in named \/ y = n + 1
        BY <1>6
      <4>2. \A y \in named : y \in Nat /\ y <= n
        BY <1>3, <1>7
      <4>3. least \in after
        BY <1>6, <2>2
      <4> QED
        BY <2>2, <4>1, <4>2, <4>3
    <3> QED
      BY <3>1, LeastOf
  <2>4. cell = IdIn(Raw(least))
    BY <1>3, <1>4, <1>10, <2>1 DEF Captured
  <2>5. cell \in Ids
    BY <1>4, <2>2, <2>4 DEF NamedBy
  <2>6. Min(NamedBy(Len(heard)))' = least
    BY <1>5, <2>3 DEF Min
  <2>7. IdIn(Raw(Min(NamedBy(Len(heard)))))' = IdIn(Raw(least))
    <3>1. Raw(Min(NamedBy(Len(heard))))' = Raw(least)
      <4>1. least \in 1..Len(heard)
        BY <1>3, <1>7, <2>2
      <4> QED
        BY <1>1, <2>6, <4>1 DEF Raw
    <3> QED
      BY <1>2, <3>1 DEF IdIn
  <2>8. after # {}
    BY <1>6, <1>10
  <2> QED
    BY <1>8, <2>4, <2>5, <2>7, <2>8
<1> QED
  BY <1>9, <1>10

-----------------------------------------------------------------------------
(* The messages that name a session                                        *)

\* Enrichment leaves a message's type and its session alone.
LEMMA Enriched ==
  ASSUME NEW msg, "type" \in DOMAIN msg, "resume" \in DOMAIN msg, NEW carried, NEW max
  PROVE  LET filled == ApplyContextFill(CarryForward(msg, carried).msg, max).msg
         IN filled.type = msg.type /\ filled.resume = msg.resume
<1>1. PICK m : m = CarryForward(msg, carried).msg
  OBVIOUS
<1>2. \A v : LET e == [msg EXCEPT !.stop = v]
             IN /\ "type" \in DOMAIN e /\ "resume" \in DOMAIN e
                /\ e.type = msg.type /\ e.resume = msg.resume
  OBVIOUS
<1>3. m = msg \/ \E v : m = [msg EXCEPT !.stop = v]
  BY <1>1 DEF CarryForward
<1>4. /\ "type" \in DOMAIN m /\ "resume" \in DOMAIN m
      /\ m.type = msg.type /\ m.resume = msg.resume
  BY <1>2, <1>3
<1>5. \A v : LET e == [m EXCEPT !.usage[1].used = v]
             IN e.type = m.type /\ e.resume = m.resume
  BY <1>4
<1>6. \A used : WithUsed(m, used) = m \/ \E v : WithUsed(m, used) = [m EXCEPT !.usage[1].used = v]
  BY DEF WithUsed
<1>7. ApplyContextFill(m, max).msg = m \/ \E used : ApplyContextFill(m, max).msg = WithUsed(m, used)
  BY DEF ApplyContextFill
<1>8. PICK filled : filled = ApplyContextFill(m, max).msg
  OBVIOUS
<1>9. filled = m \/ \E v : filled = [m EXCEPT !.usage[1].used = v]
  BY <1>6, <1>7, <1>8
<1>10. filled.type = m.type /\ filled.resume = m.resume
  BY <1>5, <1>9
<1> QED
  BY <1>1, <1>4, <1>8, <1>10

Unnaming(msg) == "type" \in DOMAIN msg /\ "resume" \in DOMAIN msg /\ msg.type # "init"

\* A message made like this names no session.
LEMMA UnnamingMessages ==
  ASSUME NEW t, t # "init", NEW c, NEW d
  PROVE  /\ Unnaming([Message(t) EXCEPT !.content = c])
         /\ Unnaming([Message(t) EXCEPT !.usage = c])
         /\ Unnaming([Message(t) EXCEPT !.tool = <<c>>])
         /\ Unnaming([Message(t) EXCEPT !.code = c, !.content = d])
         /\ Unnaming([Message(t) EXCEPT !.usage = c, !.stop = d])
         /\ Unnaming([Message(t) EXCEPT !.tool = <<c>>, !.content = d])
<1>1. Unnaming([Message(t) EXCEPT !.content = c])
  BY DEF Unnaming, Message, Blank
<1>2. Unnaming([Message(t) EXCEPT !.usage = c])
  BY DEF Unnaming, Message, Blank
<1>3. Unnaming([Message(t) EXCEPT !.tool = <<c>>])
  BY DEF Unnaming, Message, Blank
<1>4. Unnaming([Message(t) EXCEPT !.code = c, !.content = d])
  BY DEF Unnaming, Message, Blank
<1>5. Unnaming([Message(t) EXCEPT !.usage = c, !.stop = d])
  BY DEF Unnaming, Message, Blank
<1>6. Unnaming([Message(t) EXCEPT !.tool = <<c>>, !.content = d])
  BY DEF Unnaming, Message, Blank
<1> QED
  BY <1>1, <1>2, <1>3, <1>4, <1>5, <1>6

LEMMA NamingMessages ==
  ASSUME NEW id
  PROVE  LET named == [Message("init") EXCEPT !.resume = id]
         IN /\ "type" \in DOMAIN named /\ "resume" \in DOMAIN named /\ named.resume = id
            /\ "type" \in DOMAIN Message("init") /\ "resume" \in DOMAIN Message("init")
            /\ Message("init").resume = ""
BY DEF Message, Blank

LEMMA CodexEventUnnaming ==
  ASSUME NEW raw
  PROVE  Unnaming(CodexEvent(raw))
<1>1. ASSUME NEW m
      PROVE  Unnaming(CodexError(m)) /\ \A c : Unnaming([CodexError(m) EXCEPT !.content = c])
  <2>1. Unnaming(CodexError(m))
    BY UnnamingMessages, Zenon DEF CodexError
  <2>2. \A c : Unnaming([CodexError(m) EXCEPT !.content = c])
    BY <2>1 DEF Unnaming
  <2> QED
    BY <2>1, <2>2
<1>2. "text" # "init" /\ "thinking" # "init" /\ "tool_result" # "init" /\ "system" # "init"
      /\ "result" # "init" /\ "error" # "init"
  OBVIOUS
<1>3. ASSUME NEW item
      PROVE  Unnaming(CodexItem(item))
  <2>1. /\ \A t, c : t # "init" => Unnaming([Message(t) EXCEPT !.content = c])
        /\ \A c : Unnaming([Message("tool_result") EXCEPT !.tool = <<c>>])
    BY UnnamingMessages
  <2>2. PICK type : type = GetString(item, "type")
    OBVIOUS
  <2>3. CASE type = "agent_message"
    BY <1>2, <2>1, <2>2, <2>3 DEF CodexItem
  <2>4. CASE type = "reasoning"
    BY <1>2, <2>1, <2>2, <2>4 DEF CodexItem
  <2>5. CASE type \in {"command_execution", "file_changes", "web_search"}
    BY <1>2, <2>1, <2>2, <2>5 DEF CodexItem
  <2>6. CASE type = "mcp_tool_call"
    BY <1>2, <2>1, <2>2, <2>6 DEF CodexItem
  <2>7. CASE type = "error"
    BY <1>1, <1>2, <2>2, <2>7 DEF CodexItem
  <2>8. CASE type \notin {"agent_message", "reasoning", "command_execution", "file_changes",
                          "web_search", "mcp_tool_call", "error"}
    BY <1>2, <2>1, <2>2, <2>8 DEF CodexItem
  <2> QED
    BY <2>3, <2>4, <2>5, <2>6, <2>7, <2>8
<1>4. Unnaming([Message("result") EXCEPT !.usage = CodexUsage(raw)])
  BY <1>2, UnnamingMessages
<1>5. Unnaming([Message("system") EXCEPT !.content = raw.type])
  BY <1>2, UnnamingMessages
<1> QED
  BY <1>1, <1>3, <1>4, <1>5 DEF CodexEvent

LEMMA OpenCodeEventUnnaming ==
  ASSUME NEW raw
  PROVE  Unnaming(OpenCodeEvent(raw))
<1>1. "text" # "init" /\ "thinking" # "init" /\ "tool_result" # "init" /\ "system" # "init"
      /\ "result" # "init" /\ "error" # "init"
  OBVIOUS
<1>2. Unnaming(OpenCodeToolUse(raw))
  BY <1>1, UnnamingMessages, Zenon DEF OpenCodeToolUse
<1>3. Unnaming(OpenCodeError(raw))
  BY <1>1, UnnamingMessages, Zenon DEF OpenCodeError
<1>4. Unnaming(StepFinish(raw))
  <2>1. Unnaming([Message("system") EXCEPT !.content = "step_finish"])
    BY <1>1, UnnamingMessages
  <2>2. \A c, d : Unnaming([Message("result") EXCEPT !.usage = c, !.stop = d])
    BY <1>1, UnnamingMessages
  <2> QED
    BY <2>1, <2>2 DEF StepFinish
<1>5. \A c : /\ Unnaming([Message("text") EXCEPT !.content = c])
             /\ Unnaming([Message("thinking") EXCEPT !.content = c])
             /\ Unnaming([Message("system") EXCEPT !.content = c])
  BY <1>1, UnnamingMessages
<1> QED
  BY <1>2, <1>3, <1>4, <1>5 DEF OpenCodeEvent

\* Of Codex and OpenCode, only the message of the line that fills the cell
\* names a session.
LEMMA NamingMessage ==
  ASSUME backend \in {"codex", "opencode"}, NEW raw
  PROVE  LET parsed == ParseLine(backend, raw, cell)
         IN /\ "type" \in DOMAIN parsed.msg /\ "resume" \in DOMAIN parsed.msg
            /\ parsed.msg.type = "init" /\ parsed.msg.resume # "" =>
                 parsed.msg.resume = parsed.cell /\ parsed.cell \in Ids
<1>1. Unnaming([Message("system") EXCEPT !.content = "thread.started"])
      /\ Unnaming([Message("system") EXCEPT !.content = "step_start"])
  <2>1. "system" # "init"
    OBVIOUS
  <2> QED
    BY <2>1, UnnamingMessages
<1>2. CASE backend = "codex" /\ raw.type = "thread.started"
  <2>1. ParseLine(backend, raw, cell) = ThreadStarted(raw, cell)
    BY <1>2 DEF ParseLine
  <2>2. PICK tid : tid = GetString(raw, "thread_id")
    OBVIOUS
  <2>3. CASE tid \in Ids /\ cell \in {Nothing, Sentinel}
    <3>1. /\ ThreadStarted(raw, cell).msg = [Message("init") EXCEPT !.resume = tid]
          /\ ThreadStarted(raw, cell).cell = tid
      BY <2>2, <2>3 DEF ThreadStarted
    <3> QED
      BY <2>1, <2>3, <3>1, NamingMessages
  <2>4. CASE ~(tid \in Ids /\ cell \in {Nothing, Sentinel})
    <3>1. \/ ThreadStarted(raw, cell).msg = Message("init")
          \/ Unnaming(ThreadStarted(raw, cell).msg)
      BY <1>1, <2>2, <2>4 DEF ThreadStarted
    <3> QED
      BY <2>1, <3>1, NamingMessages DEF Unnaming
  <2> QED
    BY <2>3, <2>4
<1>3. CASE backend = "opencode" /\ raw.type = "step_start"
  <2>1. ParseLine(backend, raw, cell) = StepStart(raw, cell)
    BY <1>3 DEF ParseLine
  <2>2. PICK sid : sid = GetString(raw, "sessionID")
    OBVIOUS
  <2>3. CASE cell = Nothing /\ sid \in Ids
    <3>1. /\ StepStart(raw, cell).msg = [Message("init") EXCEPT !.resume = sid]
          /\ StepStart(raw, cell).cell = sid
      BY <2>2, <2>3 DEF StepStart
    <3> QED
      BY <2>1, <2>3, <3>1, NamingMessages
  <2>4. CASE ~(cell = Nothing /\ sid \in Ids)
    <3>1. \/ StepStart(raw, cell).msg = Message("init")
          \/ Unnaming(StepStart(raw, cell).msg)
      BY <1>1, <2>2, <2>4 DEF StepStart
    <3> QED
      BY <2>1, <3>1, NamingMessages DEF Unnaming
  <2> QED
    BY <2>3, <2>4
<1>4. CASE (backend = "codex" /\ raw.type # "thread.started")
           \/ (backend = "opencode" /\ raw.type # "step_start")
  <2>1. \/ ParseLine(backend, raw, cell).msg = CodexEvent(raw)
        \/ ParseLine(backend, raw, cell).msg = OpenCodeEvent(raw)
    BY <1>4 DEF ParseLine, Unchanged
  <2>2. Unnaming(ParseLine(backend, raw, cell).msg)
    BY <2>1, CodexEventUnnaming, OpenCodeEventUnnaming
  <2> QED
    BY <2>2 DEF Unnaming
<1> QED
  BY <1>2, <1>3, <1>4

-----------------------------------------------------------------------------
(* The session is an invariant                                             *)

\* A line without a message names no session.
LEMMA MuteLines ==
  ASSUME scene \in Scenes, NEW line \in Lines[scene],
         Skipped(backend, line.raw) \/ Malformed(backend, line.raw)
  PROVE  IdIn(line.raw) \notin Ids
<1>1. "type" \in DOMAIN line.raw
  BY LineTypes
<1>2. "" \notin Ids
  BY IdAssumption
<1>3. CASE Skipped(backend, line.raw)
  <2>1. line.raw.type \in {"blank", "turn.started", "item.started"}
    BY <1>3 DEF Skipped
  <2> QED
    BY <1>2, <2>1 DEF IdIn
<1>4. CASE Malformed(backend, line.raw)
  <2>1. backend # "agy"
        /\ (line.raw.type = "garbage" \/ GetString(line.raw, "type") = "")
    BY <1>4 DEF Malformed
  <2>2. GetString(line.raw, "type") = "" => line.raw.type \in {"null", "not_text", ""}
    BY <1>1 DEF GetString
  <2>3. line.raw.type \in {"garbage", "null", "not_text", ""}
    BY <2>1, <2>2
  <2> QED
    BY <1>2, <2>1, <2>3 DEF IdIn
<1> QED
  BY <1>3, <1>4

\* What a line taken does to the cell.
LEMMA CellTaken ==
  ASSUME Types, NEW line \in Lines[scene],
         LineTooLong(line) \/ SkipLine(line) \/ ParseError(line) \/ ParsedLine(line)
  PROVE  /\ cell \in Ids => cell' = cell
         /\ cell \notin Ids /\ ~Oversized(line) /\ IdIn(line.raw) \in Ids => cell' = IdIn(line.raw)
         /\ cell \notin Ids /\ ~(~Oversized(line) /\ IdIn(line.raw) \in Ids) =>
              cell' \in {Nothing, Sentinel}
<1>1. ReadLine(line).ok <=> ~Oversized(line)
  <2>1. line.n \in Nat /\ line.end \in DOMAIN Endings
    BY LineTypes DEF Types
  <2> QED
    BY <2>1, LinesAreReadWhole
<1>2. cell \notin Ids => cell \in {Nothing, Sentinel}
  BY DEF Types, Cells
<1>3. CASE LineTooLong(line)
  BY <1>1, <1>2, <1>3 DEF LineTooLong
<1>4. CASE SkipLine(line) \/ ParseError(line)
  <2>1. cell' = cell /\ (Skipped(backend, line.raw) \/ Malformed(backend, line.raw))
    BY <1>4 DEF SkipLine, ParseError
  <2>2. IdIn(line.raw) \notin Ids
    BY <2>1, MuteLines DEF Types
  <2> QED
    BY <1>2, <2>1, <2>2
<1>5. CASE ParsedLine(line)
  <2>1. ReadLine(line).ok /\ cell' = ParseLine(backend, line.raw, cell).cell
    BY <1>5 DEF ParsedLine
  <2>2. PICK after : after = ParseLine(backend, line.raw, cell).cell
    OBVIOUS
  <2>3. /\ cell \in Ids => after = cell
        /\ cell \notin Ids /\ IdIn(line.raw) \in Ids => after = IdIn(line.raw)
        /\ cell \notin Ids /\ IdIn(line.raw) \notin Ids => after \in {Nothing, Sentinel}
    BY <2>2, WrittenOnce DEF Types
  <2> QED
    BY <1>1, <2>1, <2>2, <2>3
<1> QED
  BY <1>3, <1>4, <1>5

\* Any init among the messages a line adds names what is in the cell.
LEMMA InitsTaken ==
  ASSUME Types, InitsNamed, NEW line \in Lines[scene], Takes(line),
         LineTooLong(line) \/ SkipLine(line) \/ ParseError(line) \/ ParsedLine(line)
  PROVE  InitsNamed'
<1>1. backend' = backend
  BY DEF Takes, backend
<1>2. cell \in Ids => cell' = cell
  BY CellTaken
<1>3. CASE out' = out
  BY <1>1, <1>2, <1>3 DEF InitsNamed
<1>4. ASSUME NEW msg, NEW max, EmitMessage(msg, max),
             backend \in {"codex", "opencode"} =>
               /\ "type" \in DOMAIN msg /\ "resume" \in DOMAIN msg
               /\ msg.type = "init" /\ msg.resume # "" => msg.resume = cell' /\ cell' \in Ids
      PROVE  InitsNamed'
  <2>1. PICK filled : filled = ApplyContextFill(CarryForward(msg, last).msg, max).msg
    OBVIOUS
  <2>2. /\ Proper(out') /\ Len(out) \in Nat /\ Len(out') \in Nat
        /\ \A k \in 1..Len(out) : out'[k] = out[k]
        /\ \A k \in (Len(out) + 1)..Len(out') :
             out'[k].msg = filled \/ Follows(out'[k].msg, filled)
    BY <1>4, <2>1, Emits
  <2>3. DOMAIN out = 1..Len(out) /\ DOMAIN out' = 1..Len(out')
    BY <2>2, LenProperties DEF Proper, Types
  <2>4. ASSUME NEW k \in DOMAIN out', backend \in {"codex", "opencode"},
               out'[k].msg.type = "init", out'[k].msg.resume # ""
        PROVE  out'[k].msg.resume = cell' /\ cell' \in Ids
    <3>1. CASE k \in 1..Len(out)
      <4>1. out'[k] = out[k] /\ k \in DOMAIN out
        BY <2>2, <2>3, <3>1
      <4>2. out[k].msg.resume = cell /\ cell \in Ids
        BY <2>4, <4>1 DEF InitsNamed
      <4> QED
        BY <1>2, <4>1, <4>2
    <3>2. CASE k \in (Len(out) + 1)..Len(out')
      <4>1. out'[k].msg = filled
        <5>1. "init" # "context_window"
          OBVIOUS
        <5> QED
          BY <2>2, <2>4, <3>2, <5>1 DEF Follows
      <4>2. filled.type = msg.type /\ filled.resume = msg.resume
        <5>1. "type" \in DOMAIN msg /\ "resume" \in DOMAIN msg
          BY <1>4, <2>4
        <5>2. LET f == ApplyContextFill(CarryForward(msg, last).msg, max).msg
              IN f.type = msg.type /\ f.resume = msg.resume
          BY <5>1, Enriched
        <5> QED
          BY <2>1, <5>2
      <4> QED
        BY <1>4, <2>4, <4>1, <4>2
    <3> QED
      BY <2>2, <2>3, <3>1, <3>2
  <2> QED
    BY <1>1, <2>4 DEF InitsNamed
<1>5. CASE LineTooLong(line) \/ SkipLine(line)
  BY <1>3, <1>5 DEF LineTooLong, SkipLine
<1>6. CASE ParseError(line)
  <2>1. PICK msg : msg = [Message("error") EXCEPT !.content = "parse"]
    OBVIOUS
  <2>2. EmitMessage(msg, peak)
    BY <1>6, <2>1 DEF ParseError
  <2>3. "error" # "init"
    OBVIOUS
  <2>4. Unnaming(msg)
    BY <2>1, <2>3, UnnamingMessages
  <2> QED
    BY <1>4, <2>2, <2>4 DEF Unnaming
<1>7. CASE ParsedLine(line)
  <2>1. PICK msg : msg = ParseLine(backend, line.raw, cell).msg
    OBVIOUS
  <2>2. PICK max : max = IF msg.type = "error" THEN 0 ELSE peak
    OBVIOUS
  <2>3. EmitMessage(msg, max) /\ cell' = ParseLine(backend, line.raw, cell).cell
    BY <1>7, <2>1, <2>2 DEF ParsedLine
  <2>4. backend \in {"codex", "opencode"} =>
          /\ "type" \in DOMAIN msg /\ "resume" \in DOMAIN msg
          /\ msg.type = "init" /\ msg.resume # "" => msg.resume = cell' /\ cell' \in Ids
    BY <2>1, <2>3, NamingMessage
  <2> QED
    BY <1>4, <2>3, <2>4
<1> QED
  BY <1>5, <1>6, <1>7

LEMMA ToldTaken ==
  ASSUME Types, Told, NEW line \in Lines[scene], Takes(line)
  PROVE  Told'
<1>1. /\ Len(heard) \in Nat /\ Len(heard') = Len(heard) + 1
      /\ \A i \in 1..Len(heard) : heard'[i] = heard[i]
  BY Hears DEF Takes
<1>2. scene' = scene /\ opts' = opts /\ argvs' = argvs
  BY DEF Takes
<1>3. \A m \in 0..Len(heard) : IdAt(m)' = IdAt(m)
  BY <1>1, <1>2, NamesStay
<1>4. ASSUME NEW e \in {argvs[a] : a \in DOMAIN argvs}
      PROVE  e.at \in 0..Len(heard') /\ (e.args.resumes => e.args.id = IdAt(e.at)')
  <2>1. e.at \in 0..Len(heard) /\ (e.args.resumes => e.args.id = IdAt(e.at))
    BY DEF Told
  <2>2. PICK m \in 0..Len(heard) : m = e.at
    BY <2>1
  <2>3. IdAt(e.at)' = IdAt(e.at)
    BY <1>3, <2>2
  <2> QED
    BY <1>1, <2>1, <2>3
<1> QED
  BY <1>2, <1>4 DEF Told

\* The id a subprocess is told, in terms of the cell.
LEMMA IdTold ==
  ASSUME Types, Session, NEW args,
         \/ phase = "new" /\ args = FirstArgs(backend, opts)
         \/ args = ResumeArgs(backend, opts, cell)
  PROVE  args.resumes => args.id = IdAt(Len(heard))
<1>1. backend \in {"claude", "codex", "opencode", "agy"}
  BY Backends DEF Types
<1>2. PICK resume : resume = Opt(opts, "resume_id")
  OBVIOUS
<1>3. CASE phase = "new" /\ args = FirstArgs(backend, opts)
  <2>1. NamedBy(Len(heard)) = {}
    <3>1. Len(heard) = 0
      BY <1>3, EmptySeq DEF Session
    <3>2. 1..Len(heard) = {}
      BY <3>1
    <3> QED
      BY <3>2 DEF NamedBy
  <2>2. IdAt(Len(heard)) = resume
    BY <1>2, <2>1 DEF IdAt
  <2>3. args.resumes => args.id = resume
    <3>1. CASE backend = "claude"
      BY <1>2, <1>3, <3>1 DEF FirstArgs, ClaudeStreamArgs, Resuming, Spawned
    <3>2. CASE backend = "codex"
      BY <1>2, <1>3, <3>2
         DEF FirstArgs, CodexSpawnArgs, CodexResumeCommand, CodexExecCommand, Resuming, Spawned
    <3>3. CASE backend = "opencode"
      BY <1>2, <1>3, <3>3 DEF FirstArgs, OpenCodeSpawnArgs, Resuming, Spawned
    <3>4. CASE backend = "agy"
      BY <1>3, <3>4 DEF FirstArgs, Spawned
    <3> QED
      BY <1>1, <3>1, <3>2, <3>3, <3>4
  <2> QED
    BY <2>2, <2>3
<1>4. CASE args = ResumeArgs(backend, opts, cell)
  <2>1. backend = "claude" => NamedBy(Len(heard)) = {}
    <3>1. backend = "claude" => \A i \in 1..Len(heard) : IdIn(Raw(i)) = ""
      BY DEF IdIn
    <3> QED
      BY <3>1, IdAssumption DEF NamedBy
  <2>2. ResolveId(opts, cell) = IdAt(Len(heard))
    <3>1. CASE NamedBy(Len(heard)) = {}
      BY <3>1 DEF Session, Captured, IdAt, ResolveId
    <3>2. CASE NamedBy(Len(heard)) # {}
      <4>1. cell = IdIn(Raw(Min(NamedBy(Len(heard))))) /\ IdAt(Len(heard)) = cell
        BY <3>2 DEF Session, Captured, IdAt
      <4>2. cell \in Ids
        <5>1. NamedBy(Len(heard)) \subseteq Nat
          BY LenProperties DEF NamedBy, Types
        <5>2. Min(NamedBy(Len(heard))) \in NamedBy(Len(heard))
          BY <3>2, <5>1, LeastIsOne
        <5> QED
          BY <4>1, <5>2 DEF NamedBy
      <4> QED
        BY <4>1, <4>2, IdAssumption DEF ResolveId
    <3> QED
      BY <3>1, <3>2
  <2>3. CASE backend = "claude"
    BY <1>4, <2>1, <2>3 DEF ResumeArgs, Resuming, IdAt
  <2>4. CASE backend = "codex"
    BY <1>4, <2>2, <2>4 DEF ResumeArgs, CodexResumeCommand, Resuming
  <2>5. CASE backend = "opencode"
    BY <1>4, <2>2, <2>5 DEF ResumeArgs, OpenCodeResumeCommand, Resuming
  <2>6. CASE backend = "agy"
    BY <1>4, <2>2, <2>6 DEF ResumeArgs, Resuming
  <2> QED
    BY <1>1, <2>3, <2>4, <2>5, <2>6
<1> QED
  BY <1>3, <1>4

LEMMA SessionInit ==
  ASSUME Init
  PROVE  Session
<1>1. heard = <<>> /\ argvs = <<>> /\ out = <<>> /\ cell = Nothing
  BY DEF Init
<1>2. NamedBy(Len(heard)) = {}
  <2>1. Len(heard) = 0
    BY <1>1, EmptySeq
  <2>2. 1..Len(heard) = {}
    BY <2>1
  <2> QED
    BY <2>2 DEF NamedBy
<1>3. DOMAIN argvs = {} /\ DOMAIN out = {}
  BY <1>1
<1> QED
  BY <1>1, <1>2, <1>3 DEF Session, Captured, Told, InitsNamed

LEMMA CapturedStays ==
  ASSUME Captured, scene' = scene, heard' = heard, cell' = cell
  PROVE  Captured'
<1>1. NamedBy(Len(heard))' = NamedBy(Len(heard))
  BY DEF NamedBy, Raw, Oversized, IdIn, backend
<1>2. PICK least : least = Min(NamedBy(Len(heard)))
  OBVIOUS
<1>3. Min(NamedBy(Len(heard)))' = least
  BY <1>1, <1>2 DEF Min
<1>4. IdIn(Raw(Min(NamedBy(Len(heard)))))' = IdIn(Raw(least))
  <2>1. Raw(Min(NamedBy(Len(heard))))' = Raw(least)
    BY <1>3 DEF Raw
  <2> QED
    BY <2>1 DEF IdIn, backend
<1> QED
  BY <1>1, <1>2, <1>4 DEF Captured

\* A step that leaves the books as they are.
LEMMA SessionStays ==
  ASSUME Types, Session, UNCHANGED <<scene, opts, argvs, cell, heard, out>>,
         phase' = "new" => phase = "new"
  PROVE  Session'
<1>1. \A m : NamedBy(m)' = NamedBy(m)
  BY DEF NamedBy, Raw, Oversized, IdIn, backend
<1>2. Captured'
  BY CapturedStays DEF Session
<1>3. \A m : IdAt(m)' = IdAt(m)
  BY DEF IdAt, NamedBy, Raw, Oversized, IdIn, backend
<1>4. Told'
  BY <1>3 DEF Session, Told
<1>5. InitsNamed'
  BY DEF Session, InitsNamed, backend
<1> QED
  BY <1>2, <1>4, <1>5 DEF Session

LEMMA SessionTaken ==
  ASSUME Types, Session, ReadSome
  PROVE  Session'
<1>1. PICK line \in Lines[scene] :
        /\ Takes(line)
        /\ \/ LineTooLong(line) \/ SkipLine(line) \/ ParseError(line) \/ ParsedLine(line)
  BY ReadSteps
<1>2. Captured'
  <2>1. /\ cell \in Ids => cell' = cell
        /\ cell \notin Ids /\ ~Oversized(line) /\ IdIn(line.raw) \in Ids => cell' = IdIn(line.raw)
        /\ cell \notin Ids /\ ~(~Oversized(line) /\ IdIn(line.raw) \in Ids) =>
             cell' \in {Nothing, Sentinel}
    BY <1>1, CellTaken
  <2> QED
    BY <1>1, <2>1, CapturedTaken DEF Session
<1>3. Told'
  BY <1>1, ToldTaken DEF Session
<1>4. InitsNamed'
  BY <1>1, InitsTaken DEF Session
<1>5. phase' # "new"
  <2>1. phase \in {"scanning", "replacing"}
    BY <1>1 DEF Takes, Hear
  <2>2. phase' = phase \/ phase' \in {"replaced", "failed", "exited"}
    <3>1. CASE LineTooLong(line)
      BY <3>1 DEF LineTooLong, LoopEnds
    <3>2. CASE SkipLine(line)
      BY <3>2 DEF SkipLine
    <3>3. CASE \E msg, max : EmitMessage(msg, max)
      BY <3>3, Emits
    <3> QED
      BY <1>1, <3>1, <3>2, <3>3 DEF ParseError, ParsedLine
  <2> QED
    BY <2>1, <2>2
<1> QED
  BY <1>2, <1>3, <1>4, <1>5 DEF Session

LEMMA SessionTold ==
  ASSUME Types, Session, Start \/ ResumeAfterCleanExit \/ ReplaceSubprocess
  PROVE  Session'
<1>1. PICK args : /\ Tells(args)
                  /\ Start => args = FirstArgs(backend, opts)
                  /\ ~Start => args = ResumeArgs(backend, opts, cell)
  BY SpawnSteps
<1>2. scene' = scene /\ opts' = opts /\ cell' = cell /\ heard' = heard /\ out' = out
  BY <1>1 DEF Tells
<1>3. args.resumes => args.id = IdAt(Len(heard))
  <2>1. Start => phase = "new"
    BY DEF Start
  <2> QED
    BY <1>1, <2>1, IdTold
<1>4. \A m : IdAt(m)' = IdAt(m)
  BY <1>2 DEF IdAt, NamedBy, Raw, Oversized, IdIn, backend
<1>5. Captured'
  BY <1>2, CapturedStays DEF Session
<1>6. Told'
  <2>1. /\ argvs' \in Seq([args : Commands, at : Nat])
        /\ Len(argvs) \in Nat /\ Len(argvs') = Len(argvs) + 1
        /\ \A a \in 1..Len(argvs) : argvs'[a] = argvs[a]
        /\ argvs'[Len(argvs) + 1] = [args |-> args, at |-> Len(heard)]
    BY <1>1, Spawns DEF Tells
  <2>2. DOMAIN argvs = 1..Len(argvs) /\ DOMAIN argvs' = 1..(Len(argvs) + 1)
    BY <2>1, LenProperties DEF Types
  <2>3. Len(heard) \in Nat
    BY LenProperties DEF Types
  <2>4. ASSUME NEW a \in DOMAIN argvs'
        PROVE  \/ argvs'[a] \in {argvs[b] : b \in DOMAIN argvs}
               \/ argvs'[a] = [args |-> args, at |-> Len(heard)]
    BY <2>1, <2>2
  <2>5. ASSUME NEW e \in {argvs'[a] : a \in DOMAIN argvs'}
        PROVE  e.at \in 0..Len(heard') /\ (e.args.resumes => e.args.id = IdAt(e.at)')
    <3>1. CASE e \in {argvs[b] : b \in DOMAIN argvs}
      <4>1. e.at \in 0..Len(heard) /\ (e.args.resumes => e.args.id = IdAt(e.at))
        BY <3>1 DEF Session, Told
      <4>2. IdAt(e.at)' = IdAt(e.at)
        BY <1>4
      <4> QED
        BY <1>2, <4>1, <4>2
    <3>2. CASE e = [args |-> args, at |-> Len(heard)]
      <4>1. PICK n \in Nat : n = Len(heard)
        BY <2>3
      <4>2. e.at = n /\ e.args = args
        BY <3>2, <4>1
      <4>3. args.resumes => args.id = IdAt(n)
        BY <1>3, <4>1
      <4>4. IdAt(n)' = IdAt(n)
        BY <1>4
      <4>5. IdAt(e.at)' = IdAt(n)'
        BY <4>2
      <4> QED
        BY <1>2, <4>1, <4>2, <4>3, <4>4, <4>5
    <3> QED
      BY <2>4, <2>5, <3>1, <3>2
  <2> QED
    BY <2>5 DEF Told
<1>7. InitsNamed'
  BY <1>2 DEF Session, InitsNamed, backend
<1>8. phase' # "new"
  BY DEF Start, ResumeAfterCleanExit, ReplaceSubprocess, NewScan
<1> QED
  BY <1>5, <1>6, <1>7, <1>8 DEF Session

LEMMA SessionStep ==
  ASSUME Types, Session, [Next]_vars
  PROVE  Session'
<1>1. CASE ReadSome
  BY <1>1, SessionTaken
<1>2. CASE Start \/ ResumeAfterCleanExit \/ ReplaceSubprocess
  BY <1>2, SessionTold
<1>3. CASE StartRefused \/ EndOfStream \/ SpawnReplacement
  <2>1. UNCHANGED <<scene, opts, argvs, cell, heard, out>>
    BY <1>3, OtherSteps
  <2>2. phase' # "new"
    BY <1>3 DEF StartRefused, EndOfStream, SpawnReplacement, NewScan, LoopEnds
  <2> QED
    BY <2>1, <2>2, SessionStays
<1>4. CASE UNCHANGED vars
  <2>1. UNCHANGED <<scene, opts, argvs, cell, heard, out>> /\ phase' = phase
    BY <1>4 DEF vars
  <2> QED
    BY <2>1, SessionStays
<1> QED
  BY <1>1, <1>2, <1>3, <1>4 DEF Next

LEMMA SessionIsTheSame ==
  ASSUME Types, Session
  PROVE  SameSession
<1>1. ASSUME NEW a \in DOMAIN argvs, argvs[a].args.resumes
      PROVE  argvs[a].args.id = IdAt(argvs[a].at)
  <2>1. PICK e \in {argvs[b] : b \in DOMAIN argvs} : e = argvs[a]
    OBVIOUS
  <2> QED
    BY <1>1, <2>1 DEF Session, Told
<1> QED
  BY <1>1 DEF SameSession, IdAt, NamedBy, Session, InitsNamed

\* A resumed subprocess continues the session the agent first named in a
\* usable form or, before that, the one of the caller's option, whatever lines
\* came before and however its Sends were mixed with them (the write-once
\* cells of parseThreadStarted, parseStepStart and the agy_session sentinel,
\* and ResumeArgs of the backends).
THEOREM SessionsResumeThemselves == Spec => []SameSession
<1>1. Init => Types /\ Session
  BY TypesInit, SessionInit
<1>2. Types /\ Session /\ [Next]_vars => (Types /\ Session)'
  BY TypesStep, SessionStep
<1>3. Types /\ Session => SameSession
  BY SessionIsTheSame
<1> QED
  BY <1>1, <1>2, <1>3, PTL DEF Spec

-----------------------------------------------------------------------------
(* Which lines reach the consumer                                          *)

\* What was emitted came from lines within the limit, and while a subprocess
\* is read each of its lines within the limit has left something or was one to
\* skip.
Attributed ==
  \A k \in DOMAIN out :
    out[k].line \in 1..Len(heard) /\ ~Oversized(heard[out[k].line].line)

Covers(i) ==
  ~Oversized(heard[i].line) /\ heard[i].scan = scan /\ phase = "scanning" =>
    \/ \E k \in DOMAIN out : out[k].line = i
    \/ Skipped(backend, heard[i].line.raw)

Lossless ==
  /\ Attributed
  /\ \A i \in 1..Len(heard) : heard[i].scan <= scan /\ Covers(i)
  /\ phase = "failed" => Len(heard) > 0 /\ Oversized(heard[Len(heard)].line)

LEMMA LosslessInit ==
  ASSUME Init
  PROVE  Lossless
<1>1. heard = <<>> /\ out = <<>> /\ phase = "new"
  BY DEF Init
<1>2. Len(heard) = 0 /\ DOMAIN out = {}
  BY <1>1, EmptySeq
<1>3. 1..Len(heard) = {}
  BY <1>2
<1> QED
  BY <1>1, <1>2, <1>3 DEF Lossless, Attributed

\* The lines before a line that is taken.
LEMMA EarlierLines ==
  ASSUME Types, Lossless, NEW line \in Lines[scene], Takes(line),
         phase' = "scanning" => phase = "scanning",
         Proper(out'), Len(out') >= Len(out), \A k \in 1..Len(out) : out'[k] = out[k]
  PROVE  \A i \in 1..Len(heard) : heard'[i].scan <= scan' /\ Covers(i)'
<1>1. \A i \in 1..Len(heard) : heard'[i] = heard[i]
  BY Hears DEF Takes
<1>2. scan' = scan /\ backend' = backend
  BY DEF Takes, backend
<1>3. /\ Len(out) \in Nat /\ Len(out') \in Nat
      /\ DOMAIN out = 1..Len(out) /\ DOMAIN out' = 1..Len(out')
  BY LenProperties DEF Types, Proper
<1>4. ASSUME NEW i \in 1..Len(heard)
      PROVE  heard'[i].scan <= scan' /\ Covers(i)'
  <2>1. heard[i].scan <= scan /\ Covers(i)
    BY DEF Lossless
  <2>2. heard'[i] = heard[i]
    BY <1>1
  <2>3. SUFFICES ASSUME ~Oversized(heard'[i].line), heard'[i].scan = scan', phase' = "scanning"
                 PROVE  \/ \E k \in DOMAIN out' : out'[k].line = i
                        \/ Skipped(backend, heard[i].line.raw)
    BY <1>2, <2>1, <2>2 DEF Covers, Oversized, Skipped
  <2>4. \/ \E k \in DOMAIN out : out[k].line = i
        \/ Skipped(backend, heard[i].line.raw)
    BY <1>2, <2>1, <2>2, <2>3 DEF Covers
  <2>5. ASSUME NEW k \in DOMAIN out, out[k].line = i
        PROVE  \E k2 \in DOMAIN out' : out'[k2].line = i
    <3>1. k \in DOMAIN out' /\ out'[k] = out[k]
      BY <1>3
    <3> QED
      BY <2>5, <3>1
  <2> QED
    BY <2>4, <2>5
<1> QED
  BY <1>4

LEMMA LosslessTaken ==
  ASSUME Types, Lossless, ReadSome
  PROVE  Lossless'
<1>1. PICK line \in Lines[scene] :
        /\ Takes(line)
        /\ \/ LineTooLong(line) \/ SkipLine(line) \/ ParseError(line) \/ ParsedLine(line)
  BY ReadSteps
<1>2. /\ Len(heard) \in Nat /\ Len(heard') = Len(heard) + 1
      /\ \A i \in 1..Len(heard) : heard'[i] = heard[i]
      /\ heard'[Len(heard) + 1] = [line |-> line, scan |-> scan]
  BY <1>1, Hears DEF Takes
<1>3. PICK n \in Nat : n = Len(heard)
  BY <1>2
<1>4. heard'[n + 1].line = line /\ heard'[n + 1].scan = scan /\ Len(heard') = n + 1
  BY <1>2, <1>3
<1>5. scan' = scan /\ scan \in Nat /\ backend' = backend /\ phase \in {"scanning", "replacing"}
  BY <1>1 DEF Takes, Hear, backend, Types
<1>6. ReadLine(line).ok <=> ~Oversized(line)
  <2>1. line.n \in Nat /\ line.end \in DOMAIN Endings
    BY LineTypes DEF Types
  <2> QED
    BY <2>1, LinesAreReadWhole
<1>7. /\ Len(out) \in Nat /\ DOMAIN out = 1..Len(out)
  BY LenProperties DEF Types, Proper
<1>8. \/ /\ LineTooLong(line) /\ out' = out /\ Oversized(line)
         /\ phase' \in {"replaced", "failed"}
      \/ /\ SkipLine(line) /\ out' = out /\ phase' = phase
         /\ Skipped(backend, line.raw)
      \/ /\ ~Oversized(line)
         /\ \E msg, max : EmitMessage(msg, max)
  BY <1>1, <1>6 DEF LineTooLong, SkipLine, ParseError, ParsedLine, LoopEnds
<1>9. /\ Proper(out') /\ Len(out') \in Nat /\ Len(out') >= Len(out)
      /\ \A k \in 1..Len(out) : out'[k] = out[k]
      /\ \A k \in (Len(out) + 1)..Len(out') : out'[k].line = n + 1 /\ ~Oversized(line)
      /\ phase' = "scanning" => phase = "scanning"
      /\ phase' = "failed" => Oversized(line)
      /\ phase' = "scanning" =>
           Oversized(line) \/ Skipped(backend, line.raw) \/ Len(out') > Len(out)
  <2>1. CASE out' = out
    <3>1. Proper(out') /\ Len(out') = Len(out) /\ (Len(out) + 1)..Len(out') = {}
      BY <1>7, <2>1 DEF Types
    <3>2. \A k \in 1..Len(out) : out'[k] = out[k]
      BY <2>1
    <3>3. \/ Oversized(line) /\ phase' \in {"replaced", "failed"}
          \/ phase' = phase /\ Skipped(backend, line.raw)
          \/ \E msg, max : EmitMessage(msg, max)
      BY <1>8
    <3>4. (\E msg, max : EmitMessage(msg, max)) =>
            (Len(out') > Len(out) /\ phase' = phase) \/ (phase = "replacing" /\ phase' = "replaced")
      BY Emits
    <3> QED
      BY <1>5, <1>7, <3>1, <3>2, <3>3, <3>4
  <2>2. CASE ~Oversized(line) /\ \E msg, max : EmitMessage(msg, max)
    <3>1. PICK msg, max : EmitMessage(msg, max)
      BY <2>2
    <3>2. /\ Proper(out') /\ Len(out') \in Nat /\ Len(out') >= Len(out)
          /\ \A k \in 1..Len(out) : out'[k] = out[k]
          /\ \A k \in (Len(out) + 1)..Len(out') : out'[k].line = Len(heard) + 1
          /\ \/ Len(out') > Len(out) /\ phase' = phase
             \/ phase = "replacing" /\ phase' = "replaced"
      BY <3>1, Emits
    <3> QED
      BY SMTT(40), <1>3, <1>5, <2>2, <3>2
  <2> QED
    BY <1>8, <2>1, <2>2
<1>10. DOMAIN out' = 1..Len(out')
  BY <1>9, LenProperties DEF Proper
<1>11. Attributed'
  <2>1. ASSUME NEW k \in DOMAIN out'
        PROVE  out'[k].line \in 1..Len(heard') /\ ~Oversized(heard'[out'[k].line].line)
    <3>1. CASE k \in 1..Len(out)
      <4>1. out'[k] = out[k] /\ k \in DOMAIN out
        BY <1>7, <1>9, <3>1
      <4>2. out[k].line \in 1..Len(heard) /\ ~Oversized(heard[out[k].line].line)
        BY <4>1 DEF Lossless, Attributed
      <4> QED
        BY <1>2, <4>1, <4>2
    <3>2. CASE k \in (Len(out) + 1)..Len(out')
      BY <1>4, <1>9, <3>2
    <3> QED
      BY <1>7, <1>9, <1>10, <3>1, <3>2
  <2> QED
    BY <2>1 DEF Attributed, Oversized
<1>12. \A i \in 1..Len(heard) : heard'[i].scan <= scan' /\ Covers(i)'
  BY <1>1, <1>9, EarlierLines
<1>13. heard'[n + 1].scan <= scan' /\ Covers(n + 1)'
  <2>1. SUFFICES ASSUME ~Oversized(line), phase' = "scanning"
                 PROVE  \/ \E k \in DOMAIN out' : out'[k].line = n + 1
                        \/ Skipped(backend, line.raw)
    BY <1>4, <1>5 DEF Covers, Oversized, Skipped
  <2>2. Skipped(backend, line.raw) \/ Len(out') > Len(out)
    BY <1>9, <2>1
  <2>3. ASSUME Len(out') > Len(out)
        PROVE  \E k \in DOMAIN out' : out'[k].line = n + 1
    <3>1. Len(out') \in (Len(out) + 1)..Len(out') /\ Len(out') \in DOMAIN out'
      BY <1>7, <1>9, <1>10, <2>3
    <3> QED
      BY <1>9, <3>1
  <2> QED
    BY <2>2, <2>3
<1>14. \A i \in 1..Len(heard') : heard'[i].scan <= scan' /\ Covers(i)'
  <2>1. 1..Len(heard') = 1..Len(heard) \cup {n + 1}
    BY <1>2, <1>3
  <2> QED
    BY <1>12, <1>13, <2>1
<1>15. phase' = "failed" => Len(heard') > 0 /\ Oversized(heard'[Len(heard')].line)
  BY <1>4, <1>9
<1> QED
  BY <1>11, <1>14, <1>15 DEF Lossless, Oversized

\* A subprocess that starts to be read has none of the lines heard before, and
\* the other steps only stop the reading.
LEMMA LosslessStays ==
  ASSUME Types, Lossless, scene' = scene, heard' = heard, out' = out,
         \/ NewScan
         \/ scan' = scan /\ (phase' = "scanning" => phase = "scanning")
                         /\ (phase' = "failed" => phase = "failed")
  PROVE  Lossless'
<1>1. scan \in Nat /\ backend' = backend
  BY DEF Types, backend
<1>2. Attributed'
  BY DEF Lossless, Attributed, Oversized
<1>3. \A i \in 1..Len(heard) : heard[i].scan \in Nat
  <2>1. \A i \in 1..Len(heard) : heard[i] \in [line : Lines[scene], scan : Nat]
    BY LenProperties DEF Types
  <2>2. \A e \in [line : Lines[scene], scan : Nat] : e.scan \in Nat
    OBVIOUS
  <2> QED
    BY <2>1, <2>2
<1>4. ASSUME NEW i \in 1..Len(heard)
      PROVE  heard'[i].scan <= scan' /\ Covers(i)'
  <2>1. heard[i].scan <= scan /\ heard[i].scan \in Nat /\ Covers(i)
    BY <1>3 DEF Lossless
  <2>2. CASE NewScan
    <3>1. scan' = scan + 1
      BY <2>2 DEF NewScan
    <3>2. heard'[i].scan # scan' /\ heard'[i].scan <= scan'
      BY <1>1, <2>1, <3>1
    <3> QED
      BY <3>2 DEF Covers
  <2>3. CASE scan' = scan /\ (phase' = "scanning" => phase = "scanning")
    BY <1>1, <2>1, <2>3 DEF Covers, Oversized, Skipped
  <2> QED
    BY <2>2, <2>3
<1>5. phase' = "failed" => Len(heard') > 0 /\ Oversized(heard'[Len(heard')].line)
  BY DEF Lossless, NewScan
<1> QED
  BY <1>2, <1>4, <1>5 DEF Lossless, Oversized

LEMMA LosslessStep ==
  ASSUME Types, Lossless, [Next]_vars
  PROVE  Lossless'
<1>1. CASE ReadSome
  BY <1>1, LosslessTaken
<1>2. CASE Start \/ ResumeAfterCleanExit
  <2>1. scene' = scene /\ heard' = heard /\ out' = out /\ NewScan
    BY <1>2 DEF Start, ResumeAfterCleanExit
  <2> QED
    BY <2>1, LosslessStays
<1>3. CASE ReplaceSubprocess
  <2>1. scene' = scene /\ heard' = heard /\ out' = out /\ scan' = scan /\ phase' = "replacing"
    BY <1>3 DEF ReplaceSubprocess
  <2> QED
    BY <2>1, LosslessStays
<1>4. CASE SpawnReplacement
  <2>1. scene' = scene /\ heard' = heard /\ out' = out /\ NewScan
    BY <1>4 DEF SpawnReplacement
  <2> QED
    BY <2>1, LosslessStays
<1>5. CASE StartRefused \/ EndOfStream
  <2>1. /\ scene' = scene /\ heard' = heard /\ out' = out /\ scan' = scan
        /\ phase' \in {"refused", "replaced", "exited"}
    BY <1>5 DEF StartRefused, EndOfStream, LoopEnds
  <2> QED
    BY <2>1, LosslessStays
<1>6. CASE UNCHANGED vars
  <2>1. scene' = scene /\ heard' = heard /\ out' = out /\ scan' = scan /\ phase' = phase
    BY <1>6 DEF vars
  <2> QED
    BY <2>1, LosslessStays
<1> QED
  BY <1>1, <1>2, <1>3, <1>4, <1>5, <1>6 DEF Next

LEMMA LosslessKeeps ==
  ASSUME Types, Lossless
  PROVE  LinesKept
<1>1. DOMAIN heard = 1..Len(heard)
  BY LenProperties DEF Types
<1>2. ASSUME NEW i \in DOMAIN heard
      PROVE  LET line == heard[i].line
             IN IF Oversized(line) THEN Emitted(i) = {}
                ELSE /\ ReadLine(line).ok /\ ReadLine(line).size = line.n
                     /\ heard[i].scan = scan /\ phase = "scanning" =>
                          Emitted(i) # {} \/ Skipped(backend, line.raw)
  <2>1. heard[i].line \in Lines[scene]
    <3>1. heard[i] \in [line : Lines[scene], scan : Nat]
      BY <1>1, LenProperties DEF Types
    <3> QED
      BY <3>1
  <2>2. /\ ReadLine(heard[i].line).ok <=> ~Oversized(heard[i].line)
        /\ ReadLine(heard[i].line).size = heard[i].line.n
    <3>1. heard[i].line.n \in Nat /\ heard[i].line.end \in DOMAIN Endings
      BY <2>1, LineTypes DEF Types
    <3> QED
      BY <3>1, LinesAreReadWhole
  <2>3. Oversized(heard[i].line) => Emitted(i) = {}
    BY DEF Lossless, Attributed, Emitted
  <2>4. ~Oversized(heard[i].line) /\ heard[i].scan = scan /\ phase = "scanning" =>
          Emitted(i) # {} \/ Skipped(backend, heard[i].line.raw)
    BY <1>1 DEF Lossless, Covers, Emitted
  <2> QED
    BY <2>2, <2>3, <2>4
<1>3. phase = "failed" => Oversized(Last(heard).line)
  BY DEF Lossless, Last
<1> QED
  BY <1>2, <1>3 DEF LinesKept

\* The lines that leave no message behind while their subprocess is read are
\* the oversized ones, which end it, and the ones the backend skips; no other
\* is lost or refused for the way it falls into the read buffer (scanLines and
\* emitWithSynthesis in engine/cli/process.go, ReadLine in lineread.go).  This
\* is the first part of StreamFaithful.
THEOREM NoLineIsLost == Spec => []LinesKept
<1>1. Init => Types /\ Lossless
  BY TypesInit, LosslessInit
<1>2. Types /\ Lossless /\ [Next]_vars => (Types /\ Lossless)'
  BY TypesStep, LosslessStep
<1>3. Types /\ Lossless => LinesKept
  BY LosslessKeeps
<1> QED
  BY <1>1, <1>2, <1>3, PTL DEF Spec

-----------------------------------------------------------------------------
(* What a line's message says of the turn.                                 *)

\* A message of this type that gives no reason to stop.
Silent(msg, t) ==
  "type" \in DOMAIN msg /\ "stop" \in DOMAIN msg /\ msg.type = t /\ msg.stop = ""

\* It ends the turn just when the line does, with the line's own reason; any
\* other message brings the reason the line announces, an init none.
Says(raw, msg) ==
  /\ "type" \in DOMAIN msg /\ "stop" \in DOMAIN msg
  /\ msg.type = "result" => EndsTurn(raw) /\ msg.stop = OwnReason(raw)
  /\ msg.type # "result" => ~EndsTurn(raw) /\ msg.stop = DeltaReason(raw)
  /\ msg.type = "init" => msg.stop = ""

LEMMA SilentSays ==
  ASSUME NEW raw, NEW msg, NEW t, Silent(msg, t), t # "result",
         ~EndsTurn(raw), DeltaReason(raw) = ""
  PROVE  Says(raw, msg)
BY DEF Says, Silent

LEMMA SilentMessages ==
  ASSUME NEW t, NEW a, NEW b
  PROVE  /\ Silent(Message(t), t)
         /\ Silent([Message(t) EXCEPT !.content = a], t)
         /\ Silent([Message(t) EXCEPT !.resume = a], t)
         /\ Silent([Message(t) EXCEPT !.tool = <<a>>], t)
         /\ Silent([Message(t) EXCEPT !.usage = a], t)
         /\ Silent([Message(t) EXCEPT !.code = a, !.content = b], t)
         /\ Silent([Message(t) EXCEPT !.tool = <<a>>, !.content = b], t)
<1>1. Silent(Message(t), t) /\ Silent([Message(t) EXCEPT !.content = a], t)
  BY DEF Silent, Message, Blank
<1>2. Silent([Message(t) EXCEPT !.resume = a], t) /\ Silent([Message(t) EXCEPT !.usage = a], t)
  BY DEF Silent, Message, Blank
<1>3. Silent([Message(t) EXCEPT !.tool = <<a>>], t)
  BY DEF Silent, Message, Blank
<1>4. Silent([Message(t) EXCEPT !.code = a, !.content = b], t)
  BY DEF Silent, Message, Blank
<1>5. Silent([Message(t) EXCEPT !.tool = <<a>>, !.content = b], t)
  BY DEF Silent, Message, Blank
<1> QED
  BY <1>1, <1>2, <1>3, <1>4, <1>5

LEMMA CodexSays ==
  ASSUME backend = "codex", NEW raw, NEW c
  PROVE  Says(raw, ParseLine(backend, raw, c).msg)
<1>0. /\ DeltaReason(raw) = "" /\ OwnReason(raw) = ""
      /\ EndsTurn(raw) <=> raw.type = "turn.completed"
  BY DEF DeltaReason, OwnReason, EndsTurn
<1>1. /\ "text" # "result" /\ "thinking" # "result" /\ "tool_result" # "result"
      /\ "system" # "result" /\ "error" # "result" /\ "init" # "result"
  OBVIOUS
<1>2. CASE raw.type = "turn.completed"
  <2>1. ParseLine(backend, raw, c).msg = [Message("result") EXCEPT !.usage = CodexUsage(raw)]
    BY <1>2 DEF ParseLine, Unchanged, CodexEvent
  <2>2. Silent(ParseLine(backend, raw, c).msg, "result")
    BY ZenonT(60), <2>1, SilentMessages
  <2> QED
    BY <1>0, <1>2, <2>2 DEF Says, Silent
<1>3. CASE raw.type = "thread.started"
  <2>1. ParseLine(backend, raw, c).msg = ThreadStarted(raw, c).msg
    BY <1>3 DEF ParseLine
  <2>2. /\ \A t : Silent([Message("init") EXCEPT !.resume = t], "init")
        /\ Silent(Message("init"), "init")
        /\ Silent([Message("system") EXCEPT !.content = "thread.started"], "system")
    BY SilentMessages
  <2>3. \E t \in {"init", "system"} : Silent(ThreadStarted(raw, c).msg, t)
    BY <2>2 DEF ThreadStarted
  <2>4. ~EndsTurn(raw)
    BY <1>0, <1>3
  <2> QED
    BY <1>0, <1>1, <2>1, <2>3, <2>4, SilentSays
<1>4. CASE raw.type \notin {"turn.completed", "thread.started"}
  <2>1. ParseLine(backend, raw, c).msg = CodexEvent(raw)
    BY <1>4 DEF ParseLine, Unchanged
  <2>2. ASSUME NEW m
        PROVE  Silent(CodexError(m), "error")
               /\ \A a : Silent([CodexError(m) EXCEPT !.content = a], "error")
    <3>1. Silent(CodexError(m), "error")
      BY SilentMessages, Zenon DEF CodexError
    <3>2. \A a : Silent([CodexError(m) EXCEPT !.content = a], "error")
      BY <3>1 DEF Silent
    <3> QED
      BY <3>1, <3>2
  <2>3. ASSUME NEW item
        PROVE  \E t : t # "result" /\ Silent(CodexItem(item), t)
    <3>0. PICK type : type = GetString(item, "type")
      OBVIOUS
    <3>1. /\ \A t, a : Silent([Message(t) EXCEPT !.content = a], t)
          /\ \A a : Silent([Message("tool_result") EXCEPT !.tool = <<a>>], "tool_result")
      BY SilentMessages
    <3>2. CASE type = "agent_message"
      BY <1>1, <3>0, <3>1, <3>2 DEF CodexItem
    <3>3. CASE type = "reasoning"
      BY <1>1, <3>0, <3>1, <3>3 DEF CodexItem
    <3>4. CASE type \in {"command_execution", "file_changes", "web_search"}
      BY <1>1, <3>0, <3>1, <3>4 DEF CodexItem
    <3>5. CASE type = "mcp_tool_call"
      BY <1>1, <3>0, <3>1, <3>5 DEF CodexItem
    <3>6. CASE type = "error"
      BY <1>1, <2>2, <3>0, <3>6 DEF CodexItem
    <3>7. CASE type \notin {"agent_message", "reasoning", "command_execution", "file_changes",
                            "web_search", "mcp_tool_call", "error"}
      BY <1>1, <3>0, <3>1, <3>7 DEF CodexItem
    <3> QED
      BY <3>2, <3>3, <3>4, <3>5, <3>6, <3>7
  <2>4. \E t : t # "result" /\ Silent(CodexEvent(raw), t)
    <3>1. Silent([Message("system") EXCEPT !.content = raw.type], "system")
      BY SilentMessages
    <3> QED
      BY <1>1, <1>4, <2>2, <2>3, <3>1 DEF CodexEvent
  <2>5. ~EndsTurn(raw)
    BY <1>0, <1>4
  <2> QED
    BY <1>0, <2>1, <2>4, <2>5, SilentSays
<1> QED
  BY <1>2, <1>3, <1>4

LEMMA OpenCodeSays ==
  ASSUME backend = "opencode", NEW raw, NEW c
  PROVE  Says(raw, ParseLine(backend, raw, c).msg)
<1>0. PICK reason : reason = GetString(GetMap(raw, "part"), "reason")
  OBVIOUS
<1>1. /\ DeltaReason(raw) = ""
      /\ OwnReason(raw) = IF reason = "stop" THEN "end_turn" ELSE Sanitize(reason)
      /\ EndsTurn(raw) <=> raw.type = "step_finish" /\ reason # "tool-calls"
  BY <1>0 DEF DeltaReason, OwnReason, EndsTurn
<1>2. /\ "text" # "result" /\ "thinking" # "result" /\ "tool_result" # "result"
      /\ "system" # "result" /\ "error" # "result" /\ "init" # "result"
  OBVIOUS
<1>3. \A t, a : Silent([Message(t) EXCEPT !.content = a], t)
  BY SilentMessages
<1>4. CASE raw.type = "step_finish" /\ reason # "tool-calls"
  <2>1. ParseLine(backend, raw, c).msg = StepFinish(raw)
    BY <1>4 DEF ParseLine, Unchanged, OpenCodeEvent
  <2>2. PICK stop : stop = IF reason = "stop" THEN "end_turn" ELSE Sanitize(reason)
    OBVIOUS
  <2>3. PICK usage : StepFinish(raw) = [Message("result") EXCEPT !.usage = usage, !.stop = stop]
    <3>1. PICK table : table = StepFinishStopReasons
      OBVIOUS
    <3>2. (reason \in DOMAIN table <=> reason = "stop") /\ table["stop"] = "end_turn"
      BY <3>1 DEF StepFinishStopReasons
    <3>3. StepFinish(raw) =
            [Message("result") EXCEPT
               !.usage = OpenCodeTokens(raw),
               !.stop  = IF reason \in DOMAIN table THEN table[reason] ELSE Sanitize(reason)]
      BY <1>0, <1>4, <3>1 DEF StepFinish
    <3>4. (IF reason \in DOMAIN table THEN table[reason] ELSE Sanitize(reason)) = stop
      BY <2>2, <3>2
    <3> QED
      BY ONLY <3>3, <3>4
  <2>4. /\ "type" \in DOMAIN StepFinish(raw) /\ "stop" \in DOMAIN StepFinish(raw)
        /\ StepFinish(raw).type = "result" /\ StepFinish(raw).stop = stop
    BY <2>3 DEF Message, Blank
  <2> QED
    BY <1>1, <1>4, <2>1, <2>2, <2>4 DEF Says
<1>5. CASE raw.type = "step_finish" /\ reason = "tool-calls"
  <2>1. ParseLine(backend, raw, c).msg = [Message("system") EXCEPT !.content = "step_finish"]
    BY <1>0, <1>5 DEF ParseLine, Unchanged, OpenCodeEvent, StepFinish
  <2>2. Silent([Message("system") EXCEPT !.content = "step_finish"], "system")
    BY SilentMessages
  <2>3. Silent(ParseLine(backend, raw, c).msg, "system")
    BY ONLY <2>1, <2>2
  <2> QED
    BY <1>1, <1>2, <1>5, <2>3, SilentSays
<1>6. CASE raw.type = "step_start"
  <2>1. ParseLine(backend, raw, c).msg = StepStart(raw, c).msg
    BY <1>6 DEF ParseLine
  <2>2. /\ \A t : Silent([Message("init") EXCEPT !.resume = t], "init")
        /\ Silent(Message("init"), "init")
    BY SilentMessages
  <2>3. \E t \in {"init", "system"} : Silent(StepStart(raw, c).msg, t)
    BY <1>3, <2>2 DEF StepStart
  <2> QED
    BY <1>1, <1>2, <1>6, <2>1, <2>3, SilentSays
<1>7. CASE raw.type \notin {"step_finish", "step_start"}
  <2>1. ParseLine(backend, raw, c).msg = OpenCodeEvent(raw)
    BY <1>7 DEF ParseLine, Unchanged
  <2>2. Silent(OpenCodeToolUse(raw), "tool_result")
    BY SilentMessages, Zenon DEF OpenCodeToolUse
  <2>3. Silent(OpenCodeError(raw), "error")
    BY SilentMessages, Zenon DEF OpenCodeError
  <2>4. \E t : t # "result" /\ Silent(OpenCodeEvent(raw), t)
    BY <1>2, <1>3, <1>7, <2>2, <2>3 DEF OpenCodeEvent
  <2> QED
    BY <1>1, <1>7, <2>1, <2>4, SilentSays
<1> QED
  BY <1>4, <1>5, <1>6, <1>7

LEMMA AgySays ==
  ASSUME backend = "agy", NEW raw, NEW c
  PROVE  Says(raw, ParseLine(backend, raw, c).msg)
<1>0. /\ DeltaReason(raw) = "" /\ OwnReason(raw) = "end_turn"
      /\ EndsTurn(raw) <=> raw.type = "result"
  BY DEF DeltaReason, OwnReason, EndsTurn
<1>1. CASE raw.type = "result"
  <2>1. ParseLine(backend, raw, c).msg = [Message("result") EXCEPT !.stop = "end_turn"]
    BY <1>1 DEF ParseLine, Unchanged, AgyText
  <2> QED
    BY <1>0, <1>1, <2>1 DEF Says, Message, Blank
<1>2. CASE raw.type # "result"
  <2>1. /\ \A a : Silent([Message("init") EXCEPT !.resume = a], "init")
        /\ Silent(Message("init"), "init")
        /\ Silent([Message("text") EXCEPT !.content = "text"], "text")
    BY SilentMessages
  <2>2. \E t \in {"init", "text"} : Silent(ParseLine(backend, raw, c).msg, t)
    <3>1. CASE raw.type = "agy_session"
      <4>1. ParseLine(backend, raw, c).msg = AgySession(raw, c).msg
        BY <3>1 DEF ParseLine
      <4> QED
        BY <2>1, <4>1 DEF AgySession
    <3>2. CASE raw.type # "agy_session"
      <4>1. ParseLine(backend, raw, c).msg = AgyText(raw)
        BY <3>2 DEF ParseLine, Unchanged
      <4> QED
        BY <1>2, <2>1, <4>1 DEF AgyText
    <3> QED
      BY <3>1, <3>2
  <2>3. "init" # "result" /\ "text" # "result"
    OBVIOUS
  <2> QED
    BY <1>0, <1>2, <2>2, <2>3, SilentSays
<1> QED
  BY <1>1, <1>2

\* Claude's messages, before the subagents' are told apart.
LEMMA ClaudeMessages ==
  ASSUME NEW raw, NEW t, NEW a, NEW b, NEW c, NEW d
  PROVE  /\ Silent(Base(raw, t), t)
         /\ Silent([Base(raw, t) EXCEPT !.content = a], t)
         /\ Silent([Base(raw, t) EXCEPT !.resume = a], t)
         /\ Silent([Base(raw, t) EXCEPT !.tasks = a], t)
         /\ Silent([Base(raw, t) EXCEPT !.tool = <<a>>], t)
         /\ Silent([Base(raw, t) EXCEPT !.code = a, !.content = b], t)
         /\ Silent([Message(t) EXCEPT !.parent = a, !.content = b, !.tasks = c], t)
         /\ Silent([Base(raw, t) EXCEPT !.content = a, !.tools = b, !.tool = c, !.usage = d], t)
<1>0. /\ DOMAIN Base(raw, t) = DOMAIN Blank
      /\ Base(raw, t).type = t /\ Base(raw, t).stop = ""
  BY DEF Base, Message, Blank
<1>1. DOMAIN Blank = {"type", "content", "resume", "parent", "code", "stop", "isError", "denials",
                      "tool", "tools", "tasks", "usage"}
  BY DEF Blank
<1>2. Silent(Base(raw, t), t) /\ Silent([Base(raw, t) EXCEPT !.content = a], t)
  BY <1>0, <1>1 DEF Silent
<1>3. Silent([Base(raw, t) EXCEPT !.resume = a], t) /\ Silent([Base(raw, t) EXCEPT !.tasks = a], t)
  BY <1>0, <1>1 DEF Silent
<1>4. Silent([Base(raw, t) EXCEPT !.tool = <<a>>], t)
  BY <1>0, <1>1 DEF Silent
<1>5. Silent([Base(raw, t) EXCEPT !.code = a, !.content = b], t)
  BY <1>0, <1>1 DEF Silent
<1>6. Silent([Message(t) EXCEPT !.parent = a, !.content = b, !.tasks = c], t)
  BY DEF Silent, Message, Blank
<1>7. Silent([Base(raw, t) EXCEPT !.content = a, !.tools = b, !.tool = c, !.usage = d], t)
  BY <1>0, <1>1 DEF Silent
<1> QED
  BY <1>2, <1>3, <1>4, <1>5, <1>6, <1>7

\* A subagent's message keeps the reason it announces, its result does not.
LEMMA DemotedSays ==
  ASSUME NEW raw, NEW msg, "type" \in DOMAIN msg, "stop" \in DOMAIN msg
  PROVE  LET told == Demoted(raw, msg)
         IN /\ "type" \in DOMAIN told /\ "stop" \in DOMAIN told
            /\ IF IsSubagentEvent(raw) /\ msg.type = "result"
                 THEN told.type = "task_result" /\ told.stop = ""
                 ELSE told.type = msg.type /\ told.stop = msg.stop
<1>1. PICK bare : bare = [msg EXCEPT !.usage = <<>>]
  OBVIOUS
<1>2. /\ "type" \in DOMAIN bare /\ "stop" \in DOMAIN bare
      /\ bare.type = msg.type /\ bare.stop = msg.stop
  BY <1>1
<1>3. \A tasks : LET told == [bare EXCEPT !.type = "task_result", !.stop = "", !.isError = FALSE,
                                          !.denials = <<>>, !.tasks = tasks]
                 IN /\ "type" \in DOMAIN told /\ "stop" \in DOMAIN told
                    /\ told.type = "task_result" /\ told.stop = ""
  BY <1>2
<1>4. CASE IsSubagentEvent(raw) /\ msg.type = "result"
  <2>1. \E tasks : Demoted(raw, msg) =
          [bare EXCEPT !.type = "task_result", !.stop = "", !.isError = FALSE,
                       !.denials = <<>>, !.tasks = tasks]
    BY <1>1, <1>4 DEF Demoted
  <2> QED
    BY <1>3, <1>4, <2>1
<1>5. CASE ~(IsSubagentEvent(raw) /\ msg.type = "result")
  <2>1. Demoted(raw, msg) = msg \/ Demoted(raw, msg) = bare
    BY <1>1, <1>5 DEF Demoted
  <2> QED
    BY <1>2, <1>5, <2>1
<1> QED
  BY <1>4, <1>5

\* The kinds of lines that are not results or stream events.
LEMMA ClaudeSilent ==
  ASSUME NEW raw
  PROVE  /\ \E t : t # "result" /\ Silent(ClaudeSystem(raw), t)
         /\ Silent(ClaudeInit(raw), "init")
         /\ \E t : t # "result" /\ Silent(ClaudeAssistant(raw), t)
         /\ Silent(ClaudeTool(raw), "tool_result")
         /\ Silent(ClaudeError(raw), "error")
<1>0. /\ "init" # "result" /\ "background_tasks" # "result" /\ "system" # "result"
      /\ "task_result" # "result" /\ "thinking" # "result" /\ "text" # "result"
  OBVIOUS
<1>1. Silent(ClaudeInit(raw), "init")
  BY ClaudeMessages, Zenon DEF ClaudeInit
<1>2. Silent(ClaudeTool(raw), "tool_result")
  BY ClaudeMessages, Zenon DEF ClaudeTool
<1>3. Silent(ClaudeError(raw), "error")
  BY ClaudeMessages, Zenon DEF ClaudeError
<1>4. Silent(ClaudeBackgroundTasks(raw), "background_tasks")
  BY ClaudeMessages, Zenon DEF ClaudeBackgroundTasks
<1>5. \A a : Silent([Base(raw, "system") EXCEPT !.content = a], "system")
  BY ClaudeMessages
<1>6. \E t : t # "result" /\ Silent(ClaudeTaskNotification(raw), t)
  <2>1. \A a, b, c : Silent([Message("task_result") EXCEPT !.parent = a, !.content = b, !.tasks = c],
                            "task_result")
    BY ClaudeMessages
  <2> QED
    BY <1>0, <1>5, <2>1 DEF ClaudeTaskNotification
<1>7. \E t : t # "result" /\ Silent(ClaudeSystem(raw), t)
  <2>1. PICK subtype : subtype = GetString(raw, "subtype")
    OBVIOUS
  <2>2. CASE subtype = "init"
    BY <1>0, <1>1, <2>1, <2>2 DEF ClaudeSystem
  <2>3. CASE subtype = "background_tasks_changed"
    BY <1>0, <1>4, <2>1, <2>3 DEF ClaudeSystem
  <2>4. CASE subtype = "task_notification"
    BY <1>6, <2>1, <2>4 DEF ClaudeSystem
  <2>5. CASE subtype \notin {"init", "background_tasks_changed", "task_notification"}
    BY <1>0, <1>5, <2>1, <2>5 DEF ClaudeSystem
  <2> QED
    BY <2>2, <2>3, <2>4, <2>5
<1>8. \E t : t # "result" /\ Silent(ClaudeAssistant(raw), t)
  <2>1. \A t, a, b, c, d :
          Silent([Base(raw, t) EXCEPT !.content = a, !.tools = b, !.tool = c, !.usage = d], t)
    BY ClaudeMessages
  <2>2. \E t \in {"thinking", "text"} : Silent(ClaudeAssistant(raw), t)
    BY <2>1 DEF ClaudeAssistant
  <2> QED
    BY <1>0, <2>2
<1> QED
  BY <1>1, <1>2, <1>3, <1>7, <1>8

LEMMA ClaudeSays ==
  ASSUME backend = "claude", NEW raw, NEW c
  PROVE  Says(raw, ParseLine(backend, raw, c).msg)
<1>0. PICK event : event = GetMap(raw, "event")
  OBVIOUS
<1>1. PICK own, announced : /\ own = Sanitize(GetString(raw, "stop_reason"))
                            /\ announced = Sanitize(GetString(GetMap(event, "delta"), "stop_reason"))
  OBVIOUS
<1>2. /\ EndsTurn(raw) <=> raw.type = "result" /\ ~IsSubagentEvent(raw)
      /\ OwnReason(raw) = own
      /\ DeltaReason(raw) =
           IF raw.type = "stream_event" /\ GetString(event, "type") = "message_delta"
             THEN announced ELSE ""
  BY <1>0, <1>1 DEF EndsTurn, OwnReason, DeltaReason
<1>3. ParseLine(backend, raw, c).msg = ClaudeLine(raw)
  BY DEF ParseLine, Unchanged
<1>4. ASSUME NEW msg, ClaudeLine(raw) = Demoted(raw, msg),
             "type" \in DOMAIN msg, "stop" \in DOMAIN msg,
             msg.type = "result" <=> raw.type = "result",
             msg.type = "result" => msg.stop = own,
             msg.type # "result" => msg.stop = DeltaReason(raw),
             msg.type = "init" => msg.stop = ""
      PROVE  Says(raw, ClaudeLine(raw))
  <2>1. PICK told : told = Demoted(raw, msg)
    OBVIOUS
  <2>2. /\ "type" \in DOMAIN told /\ "stop" \in DOMAIN told
        /\ IF IsSubagentEvent(raw) /\ msg.type = "result"
             THEN told.type = "task_result" /\ told.stop = ""
             ELSE told.type = msg.type /\ told.stop = msg.stop
    BY <1>4, <2>1, DemotedSays
  <2>3. "task_result" # "result" /\ "task_result" # "init" /\ "stream_event" # "result"
    OBVIOUS
  <2> QED
    BY <1>2, <1>4, <2>1, <2>2, <2>3 DEF Says
<1>5. ASSUME NEW msg, NEW t, ClaudeLine(raw) = Demoted(raw, msg), Silent(msg, t), t # "result",
             raw.type \notin {"result", "stream_event"}
      PROVE  Says(raw, ClaudeLine(raw))
  BY <1>2, <1>4, <1>5 DEF Silent
<1>6. CASE raw.type = "system"
  <2>1. ClaudeLine(raw) = Demoted(raw, ClaudeSystem(raw))
    BY <1>6 DEF ClaudeLine
  <2> QED
    BY <1>3, <1>5, <1>6, <2>1, ClaudeSilent
<1>7. CASE raw.type = "init"
  <2>1. ClaudeLine(raw) = Demoted(raw, ClaudeInit(raw))
    BY <1>7 DEF ClaudeLine
  <2>2. "init" # "result"
    OBVIOUS
  <2> QED
    BY <1>3, <1>5, <1>7, <2>1, <2>2, ClaudeSilent
<1>8. CASE raw.type = "assistant"
  <2>1. ClaudeLine(raw) = Demoted(raw, ClaudeAssistant(raw))
    BY <1>8 DEF ClaudeLine
  <2> QED
    BY <1>3, <1>5, <1>8, <2>1, ClaudeSilent
<1>9. CASE raw.type = "tool"
  <2>1. ClaudeLine(raw) = Demoted(raw, ClaudeTool(raw))
    BY <1>9 DEF ClaudeLine
  <2>2. "tool_result" # "result"
    OBVIOUS
  <2> QED
    BY <1>3, <1>5, <1>9, <2>1, <2>2, ClaudeSilent
<1>10. CASE raw.type = "error"
  <2>1. ClaudeLine(raw) = Demoted(raw, ClaudeError(raw))
    BY <1>10 DEF ClaudeLine
  <2>2. "error" # "result"
    OBVIOUS
  <2> QED
    BY <1>3, <1>5, <1>10, <2>1, <2>2, ClaudeSilent
<1>11. CASE raw.type = "result"
  <2>1. ClaudeLine(raw) = Demoted(raw, ClaudeResult(raw))
    BY <1>11 DEF ClaudeLine
  <2>2. PICK msg : msg = ClaudeResult(raw)
    OBVIOUS
  <2>3. \A a, b, d, e : LET m == [Base(raw, "result") EXCEPT !.content = a, !.usage = b, !.stop = own,
                                                             !.denials = d, !.isError = e]
                        IN /\ "type" \in DOMAIN m /\ "stop" \in DOMAIN m
                           /\ m.type = "result" /\ m.stop = own
    BY ZenonT(60) DEF Base, Message, Blank
  <2>4. \E a, b, d, e : msg = [Base(raw, "result") EXCEPT !.content = a, !.usage = b, !.stop = own,
                                                          !.denials = d, !.isError = e]
    BY <1>1, <2>2, Zenon DEF ClaudeResult
  <2>5. /\ "type" \in DOMAIN msg /\ "stop" \in DOMAIN msg
        /\ msg.type = "result" /\ msg.stop = own
    BY ONLY <2>3, <2>4
  <2>6. "result" # "init"
    OBVIOUS
  <2> QED
    BY <1>3, <1>4, <1>11, <2>1, <2>2, <2>5, <2>6
<1>12. CASE raw.type = "stream_event"
  <2>1. ClaudeLine(raw) = Demoted(raw, ClaudeStreamEvent(raw))
    BY <1>12 DEF ClaudeLine
  <2>2. PICK msg : msg = ClaudeStreamEvent(raw)
    OBVIOUS
  <2>3. "stream_event" # "result"
    OBVIOUS
  <2>4. CASE GetString(event, "type") = "message_delta"
    <3>1. msg = [Base(raw, "system") EXCEPT !.content = "stream_event", !.stop = announced]
      BY <1>0, <1>1, <2>2, <2>4 DEF ClaudeStreamEvent
    <3>2. /\ "type" \in DOMAIN msg /\ "stop" \in DOMAIN msg
          /\ msg.type = "system" /\ msg.stop = announced
      BY <3>1 DEF Base, Message, Blank
    <3>3. "system" # "result" /\ "system" # "init"
      OBVIOUS
    <3> QED
      BY <1>2, <1>3, <1>4, <1>12, <2>1, <2>2, <2>3, <2>4, <3>2, <3>3
  <2>5. CASE GetString(event, "type") # "message_delta"
    <3>1. \E t : t # "result" /\ Silent(msg, t)
      <4>1. PICK kind : kind = GetString(GetMap(event, "delta"), "type")
        OBVIOUS
      <4>2. kind \in DOMAIN DeltaKinds => DeltaKinds[kind] # "result"
        <5>1. DOMAIN DeltaKinds = {"text_delta", "input_json_delta", "thinking_delta"}
          BY DEF DeltaKinds
        <5>2. /\ DeltaKinds["text_delta"] # "result" /\ DeltaKinds["input_json_delta"] # "result"
              /\ DeltaKinds["thinking_delta"] # "result"
          BY DEF DeltaKinds
        <5> QED
          BY ONLY <5>1, <5>2
      <4>3. \E t : t # "result" /\ Silent(ClaudeContentDelta(raw, event), t)
        <5>1. CASE kind \in DOMAIN DeltaKinds
          <6>1. ClaudeContentDelta(raw, event) =
                  [Base(raw, DeltaKinds[kind]) EXCEPT !.content = "partial"]
            BY <4>1, <5>1 DEF ClaudeContentDelta
          <6>2. Silent([Base(raw, DeltaKinds[kind]) EXCEPT !.content = "partial"], DeltaKinds[kind])
            BY ClaudeMessages
          <6> QED
            BY ONLY <4>2, <5>1, <6>1, <6>2
        <5>2. CASE kind \notin DOMAIN DeltaKinds
          <6>1. ClaudeContentDelta(raw, event) =
                  [Base(raw, "system") EXCEPT !.content = "content_block_delta"]
            BY <4>1, <5>2 DEF ClaudeContentDelta
          <6>2. Silent([Base(raw, "system") EXCEPT !.content = "content_block_delta"], "system")
            BY ClaudeMessages
          <6>3. "system" # "result"
            OBVIOUS
          <6> QED
            BY ONLY <6>1, <6>2, <6>3
        <5> QED
          BY <5>1, <5>2
      <4>4. msg = ClaudeContentDelta(raw, event)
            \/ msg = [Base(raw, "system") EXCEPT !.content = "stream_event"]
        BY <1>0, <2>2, <2>5 DEF ClaudeStreamEvent
      <4>5. Silent([Base(raw, "system") EXCEPT !.content = "stream_event"], "system")
        BY ClaudeMessages
      <4>6. "system" # "result"
        OBVIOUS
      <4> QED
        BY ONLY <4>3, <4>4, <4>5, <4>6
    <3> QED
      BY <1>2, <1>3, <1>4, <1>12, <2>1, <2>2, <2>3, <2>5, <3>1 DEF Silent
  <2> QED
    BY <2>4, <2>5
<1>13. CASE raw.type \notin {"system", "init", "assistant", "tool", "result", "error", "stream_event"}
  <2>1. ClaudeLine(raw) = Demoted(raw, ClaudeUnknown(raw))
    BY <1>13 DEF ClaudeLine
  <2>2. PICK t : t = IF raw.type \in {"ctl", "overlong"} THEN "system" ELSE raw.type
    OBVIOUS
  <2>3. t # "result"
    BY <1>13, <2>2
  <2>4. \A a : Silent([Base(raw, t) EXCEPT !.content = a], t)
    BY ClaudeMessages
  <2>5. \E a : ClaudeUnknown(raw) = [Base(raw, t) EXCEPT !.content = a]
    BY <2>2, Zenon DEF ClaudeUnknown
  <2>6. Silent(ClaudeUnknown(raw), t)
    BY <2>4, <2>5
  <2> QED
    BY <1>3, <1>5, <1>13, <2>1, <2>3, <2>6
<1> QED
  BY <1>6, <1>7, <1>8, <1>9, <1>10, <1>11, <1>12, <1>13

LEMMA LineSays ==
  ASSUME scene \in Scenes, NEW raw, NEW c
  PROVE  Says(raw, ParseLine(backend, raw, c).msg)
BY Backends, ClaudeSays, CodexSays, OpenCodeSays, AgySays

\* A line the backend cannot parse, or one it skips, says nothing of the turn.
LEMMA MuteSays ==
  ASSUME scene \in Scenes, NEW line \in Lines[scene],
         Skipped(backend, line.raw) \/ Malformed(backend, line.raw)
  PROVE  /\ DeltaReason(line.raw) = ""
         /\ Malformed(backend, line.raw) => ~EndsTurn(line.raw)
<1>1. "type" \in DOMAIN line.raw /\ backend \in {"claude", "codex", "opencode", "agy"}
  BY LineTypes, Backends
<1>2. CASE Malformed(backend, line.raw)
  <2>1. backend # "agy"
        /\ (line.raw.type = "garbage" \/ GetString(line.raw, "type") = "")
    BY <1>2 DEF Malformed
  <2>2. GetString(line.raw, "type") = "" => line.raw.type \in {"null", "not_text", ""}
    BY ZenonT(60), <1>1 DEF GetString
  <2>3. line.raw.type \in {"garbage", "null", "not_text", ""}
    BY <2>1, <2>2
  <2>4. line.raw.type \notin {"result", "turn.completed", "step_finish", "stream_event"}
    BY <2>3
  <2> QED
    BY <1>1, <2>1, <2>4 DEF EndsTurn, DeltaReason
<1>3. CASE Skipped(backend, line.raw) /\ ~Malformed(backend, line.raw)
  <2>1. line.raw.type \in {"blank", "turn.started", "item.started"}
    BY <1>3 DEF Skipped
  <2>2. line.raw.type # "stream_event"
    BY <2>1
  <2> QED
    BY <1>3, <2>2 DEF DeltaReason
<1> QED
  BY <1>2, <1>3

\* What a message is after enrichment, and what is carried on.
Filled(msg, carried, max) == ApplyContextFill(CarryForward(msg, carried).msg, max).msg
Left(msg, carried) == CarryForward(msg, carried).last

\* Filling leaves the type and the reason alone.
LEMMA FillKeeps ==
  ASSUME NEW m, "type" \in DOMAIN m, "stop" \in DOMAIN m, NEW max
  PROVE  ApplyContextFill(m, max).msg.type = m.type /\ ApplyContextFill(m, max).msg.stop = m.stop
<1>1. ASSUME NEW used
      PROVE  WithUsed(m, used).type = m.type /\ WithUsed(m, used).stop = m.stop
  <2>1. PICK e : e = [m EXCEPT !.usage[1].used = used]
    OBVIOUS
  <2>2. e.type = m.type /\ e.stop = m.stop
    BY <2>1
  <2>3. WithUsed(m, used) = m \/ WithUsed(m, used) = e
    BY <2>1 DEF WithUsed
  <2> QED
    BY <2>2, <2>3
<1>2. ApplyContextFill(m, max).msg = m \/ \E used : ApplyContextFill(m, max).msg = WithUsed(m, used)
  BY DEF ApplyContextFill
<1> QED
  BY <1>1, <1>2

\* A result gets its own reason or the carried one; an init clears what is
\* carried, any other message gives its reason away.
LEMMA ReasonsTaken ==
  ASSUME NEW msg, "type" \in DOMAIN msg, "stop" \in DOMAIN msg, NEW carried, NEW max
  PROVE  /\ Filled(msg, carried, max).type = msg.type
         /\ msg.type = "result" => Filled(msg, carried, max).stop = OrElse(msg.stop, carried)
         /\ msg.type = "init"   => Filled(msg, carried, max).stop = msg.stop
         /\ msg.type \notin {"init", "result"} => Filled(msg, carried, max).stop = ""
         /\ Left(msg, carried) = IF msg.type \in {"init", "result"} THEN ""
                                 ELSE OrElse(msg.stop, carried)
<1>1. PICK m : m = CarryForward(msg, carried).msg
  OBVIOUS
<1>2. /\ "type" \in DOMAIN m /\ "stop" \in DOMAIN m /\ m.type = msg.type
      /\ msg.type = "result" => m.stop = OrElse(msg.stop, carried)
      /\ msg.type = "init" => m.stop = msg.stop
      /\ msg.type \notin {"init", "result"} => m.stop = ""
  <2>1. CASE msg.type = "init"
    BY <1>1, <2>1 DEF CarryForward
  <2>2. CASE msg.type = "result"
    <3>1. m = [msg EXCEPT !.stop = OrElse(msg.stop, carried)]
      BY <1>1, <2>2 DEF CarryForward
    <3> QED
      BY <2>2, <3>1
  <2>3. CASE msg.type \notin {"init", "result"}
    <3>1. m = [msg EXCEPT !.stop = ""]
      BY <1>1, <2>3 DEF CarryForward
    <3> QED
      BY <2>3, <3>1
  <2> QED
    BY <2>1, <2>2, <2>3
<1>3. Left(msg, carried) = IF msg.type \in {"init", "result"} THEN ""
                           ELSE OrElse(msg.stop, carried)
  BY DEF Left, CarryForward
<1>4. Filled(msg, carried, max).type = m.type /\ Filled(msg, carried, max).stop = m.stop
  BY <1>1, <1>2, FillKeeps DEF Filled
<1> QED
  BY <1>2, <1>3, <1>4

-----------------------------------------------------------------------------
(* Whose reason a result has                                               *)

\* Among the first n lines, those of a subprocess that announced a reason
\* after the last init or result.
Announcers(n, s) ==
  {j \in 1..n : /\ heard[j].scan = s
                /\ \A m \in j..n : ~HasType(m, {"init", "result"})
                /\ DeltaReason(Raw(j)) # ""}

LastAnnounced(S) == IF S = {} THEN "" ELSE DeltaReason(Raw(Max(S)))

\* The carried reason is what the last of them announced.
Carried ==
  phase \in {"scanning", "replacing"} => last = LastAnnounced(Announcers(Len(heard), scan))

\* The parser and the carry-forward do not tell a subagent's announcement from
\* the parent's: the reason a result gets, and what that makes of all messages.
CarriedReason(i) ==
  LET announced == {j \in Since(i, {"init", "result"}) : DeltaReason(Raw(j)) # ""}
  IN IF OwnReason(Raw(i)) # "" THEN OwnReason(Raw(i))
     ELSE IF announced = {} THEN "" ELSE DeltaReason(Raw(Max(announced)))

ReasonsCarried ==
  \A k \in DOMAIN out :
    LET msg == out[k].msg
        i   == out[k].line
    IN /\ msg.type = "result" => EndsTurn(Raw(i)) /\ msg.stop = CarriedReason(i)
       /\ msg.type # "result" => ~EndsTurn(Raw(i)) /\ msg.stop = ""

Reasoned == Lossless /\ Carried /\ ReasonsCarried

LEMMA GreatestOf ==
  ASSUME NEW S, NEW n \in Nat, S \subseteq 1..n, S # {}
  PROVE  Max(S) \in S /\ \A y \in S : Max(S) >= y
<1>1. PICK T : T = {n - x : x \in S}
  OBVIOUS
<1>2. T \subseteq Nat /\ T # {}
  <2>1. \A x \in S : n - x \in Nat
    OBVIOUS
  <2> QED
    BY <1>1, <2>1
<1>3. PICK m \in T : \A y \in T : m <= y
  BY <1>2, LeastNatural
<1>4. PICK x \in S : m = n - x
  BY <1>1, <1>3
<1>5. \A y \in S : x >= y
  <2>1. ASSUME NEW y \in S
        PROVE  x >= y
    <3>1. n - y \in T
      BY <1>1
    <3>2. n - x <= n - y /\ x \in Int /\ y \in Int
      BY <1>3, <1>4, <3>1
    <3> QED
      BY <3>2
  <2> QED
    BY <2>1
<1> QED
  BY <1>5 DEF Max

LEMMA GreatestIs ==
  ASSUME NEW S, NEW n \in Nat, S \subseteq 1..n, n \in S
  PROVE  Max(S) = n
<1>1. PICK x : x = Max(S)
  OBVIOUS
<1>2. n \in S /\ \A y \in S : n >= y
  OBVIOUS
<1>3. x \in S /\ \A y \in S : x >= y
  BY <1>1, <1>2 DEF Max
<1>4. x >= n /\ n >= x /\ x \in Nat
  BY <1>2, <1>3
<1> QED
  BY <1>1, <1>4

\* A line's reason is the result's of that line.
LEMMA ReasonIs ==
  ASSUME NEW i
  PROVE  /\ CarriedReason(i) = IF OwnReason(Raw(i)) # "" THEN OwnReason(Raw(i))
                          ELSE LastAnnounced(Announcers(i - 1, heard[i].scan))
         /\ CarriedReason(i)' = IF OwnReason(Raw(i))' # "" THEN OwnReason(Raw(i))'
                           ELSE LastAnnounced(Announcers(i - 1, heard[i].scan))'
<1>1. {j \in Since(i, {"init", "result"}) : DeltaReason(Raw(j)) # ""}
        = Announcers(i - 1, heard[i].scan)
  BY DEF Since, Announcers
<1>2. {j \in Since(i, {"init", "result"})' : DeltaReason(Raw(j))' # ""}
        = Announcers(i - 1, heard[i].scan)'
  BY DEF Since, Announcers
<1>3. CarriedReason(i) = IF OwnReason(Raw(i)) # "" THEN OwnReason(Raw(i))
                    ELSE LastAnnounced(Announcers(i - 1, heard[i].scan))
  BY <1>1 DEF CarriedReason, LastAnnounced
<1>4. CarriedReason(i)' = IF OwnReason(Raw(i))' # "" THEN OwnReason(Raw(i))'
                     ELSE LastAnnounced(Announcers(i - 1, heard[i].scan))'
  BY <1>2 DEF CarriedReason, LastAnnounced
<1> QED
  BY <1>3, <1>4

\* A line more that announces nothing and ends nothing.
LEMMA NoneAnnounced ==
  ASSUME NEW n \in Nat, NEW next, next = n + 1,
         DeltaReason(Raw(next))' = "", ~HasType(next, {"init", "result"})'
  PROVE  Announcers(next, scan)' = Announcers(n, scan)'
<1>1. 1..next = 1..n \cup {next} /\ next \notin 1..n
  BY ONLY n \in Nat, next = n + 1
<1>2. \A j \in 1..n : j..next = j..n \cup {next}
  BY ONLY n \in Nat, next = n + 1
<1>3. next \notin Announcers(next, scan)'
  <2>1. \A j \in Announcers(next, scan)' : DeltaReason(Raw(j))' # ""
    BY DEF Announcers
  <2> QED
    BY <2>1
<1>4. ASSUME NEW j \in 1..n
      PROVE  j \in Announcers(next, scan)' <=> j \in Announcers(n, scan)'
  <2>1. (\A m \in j..next : ~HasType(m, {"init", "result"})')
          <=> (\A m \in j..n : ~HasType(m, {"init", "result"})')
    BY <1>2
  <2>2. j \in 1..next
    BY <1>1
  <2> QED
    BY <2>1, <2>2 DEF Announcers
<1>5. Announcers(next, scan)' \subseteq 1..next /\ Announcers(n, scan)' \subseteq 1..n
  BY DEF Announcers
<1> QED
  BY ONLY <1>1, <1>3, <1>4, <1>5

LEMMA ScanStays ==
  ASSUME scan' = scan, NEW n, NEW S, S = Announcers(n, scan),
         \A s : Announcers(n, s)' = Announcers(n, s)
  PROVE  Announcers(n, scan)' = S /\ S \subseteq 1..n
<1>1. PICK s : s = scan
  OBVIOUS
<1>2. Announcers(n, scan)' = Announcers(n, s)'
  BY <1>1 DEF Announcers
<1> QED
  BY <1>1, <1>2 DEF Announcers

\* What is added to the lines and the messages does not change the reasons of
\* the lines before.
LEMMA ReasonsStay ==
  ASSUME Types, Attributed, NEW n \in Nat, n = Len(heard), backend' = backend,
         \A i \in 1..n : heard'[i] = heard[i],
         Proper(out'), Len(out') >= Len(out), \A k \in 1..Len(out) : out'[k] = out[k],
         \A k \in (Len(out) + 1)..Len(out') : out'[k].line = n + 1
  PROVE  /\ \A i \in 1..n : /\ Raw(i)' = Raw(i)
                            /\ HasType(i, {"init", "result"})' <=> HasType(i, {"init", "result"})
         /\ \A i \in 0..n : \A s : Announcers(i, s)' = Announcers(i, s)
         /\ \A S \in SUBSET (1..n) : LastAnnounced(S)' = LastAnnounced(S)
         /\ \A i \in 1..n : CarriedReason(i)' = CarriedReason(i)
<1>1. /\ Len(out) \in Nat /\ Len(out') \in Nat
      /\ DOMAIN out = 1..Len(out) /\ DOMAIN out' = 1..Len(out')
  BY LenProperties DEF Types, Proper
<1>2. \A i \in 1..n : Raw(i)' = Raw(i)
  BY DEF Raw
<1>3. \A i \in 1..n : /\ DeltaReason(Raw(i))' = DeltaReason(Raw(i))
                      /\ OwnReason(Raw(i))' = OwnReason(Raw(i))
  BY <1>2 DEF DeltaReason, OwnReason
<1>4. ASSUME NEW i \in 1..n
      PROVE  HasType(i, {"init", "result"})' <=> HasType(i, {"init", "result"})
  <2>1. HasType(i, {"init", "result"})
          <=> \E k \in 1..Len(out) : out[k].line = i /\ out[k].msg.type \in {"init", "result"}
    BY <1>1 DEF HasType, Emitted
  <2>2. HasType(i, {"init", "result"})'
          <=> \E k \in 1..Len(out') : out'[k].line = i /\ out'[k].msg.type \in {"init", "result"}
    BY <1>1 DEF HasType, Emitted
  <2>3. \A k \in (Len(out) + 1)..Len(out') : out'[k].line # i
    BY <1>4
  <2>4. 1..Len(out') = 1..Len(out) \cup (Len(out) + 1)..Len(out')
    BY <1>1
  <2> QED
    BY <2>1, <2>2, <2>3, <2>4
<1>5. ASSUME NEW i \in 0..n, NEW s
      PROVE  Announcers(i, s)' = Announcers(i, s)
  <2>1. \A j \in 1..i : j \in 1..n /\ j..i \subseteq 1..n
    BY <1>5
  <2>2. \A j \in 1..i : /\ heard'[j].scan = heard[j].scan
                        /\ (DeltaReason(Raw(j))' # "") <=> (DeltaReason(Raw(j)) # "")
                        /\ \A m \in j..i : HasType(m, {"init", "result"})'
                                             <=> HasType(m, {"init", "result"})
    BY <1>3, <1>4, <2>1
  <2> QED
    BY <2>2 DEF Announcers
<1>6. ASSUME NEW S \in SUBSET (1..n)
      PROVE  LastAnnounced(S)' = LastAnnounced(S)
  <2>1. S # {} => Max(S) \in 1..n
    BY GreatestOf
  <2> QED
    BY <1>3, <2>1 DEF LastAnnounced
<1>7. ASSUME NEW i \in 1..n
      PROVE  CarriedReason(i)' = CarriedReason(i)
  <2>1. /\ CarriedReason(i) = IF OwnReason(Raw(i)) # "" THEN OwnReason(Raw(i))
                         ELSE LastAnnounced(Announcers(i - 1, heard[i].scan))
        /\ CarriedReason(i)' = IF OwnReason(Raw(i))' # "" THEN OwnReason(Raw(i))'
                          ELSE LastAnnounced(Announcers(i - 1, heard[i].scan))'
    BY ReasonIs
  <2>2. PICK s, S : s = heard[i].scan /\ S = Announcers(i - 1, s)
    OBVIOUS
  <2>3. i - 1 \in 0..n /\ heard'[i].scan = s
    BY <2>2
  <2>4. Announcers(i - 1, heard[i].scan)' = S /\ S \subseteq 1..n
    <3>1. Announcers(i - 1, heard[i].scan)' = Announcers(i - 1, s)'
      BY <2>3 DEF Announcers
    <3>2. S \subseteq 1..(i - 1)
      BY <2>2 DEF Announcers
    <3> QED
      BY <1>5, <2>2, <2>3, <3>1, <3>2
  <2>5. LastAnnounced(Announcers(i - 1, heard[i].scan))' = LastAnnounced(S)'
    BY <2>4 DEF LastAnnounced
  <2> QED
    BY <1>3, <1>6, <2>1, <2>2, <2>4, <2>5
<1> QED
  BY <1>2, <1>4, <1>5, <1>6, <1>7

\* What a line taken adds to the messages: they come from its own message, and
\* while the reading goes on there is at least one.
LEMMA MessagesTaken ==
  ASSUME Types, Lossless, NEW line \in Lines[scene], Takes(line),
         NEW msg, NEW max, EmitMessage(msg, max), Says(line.raw, msg)
  PROVE  \E filled :
           /\ \A k \in (Len(out) + 1)..Len(out') :
                out'[k].msg = filled \/ Follows(out'[k].msg, filled)
           /\ phase' \in {"scanning", "replacing"} => Len(out') > Len(out)
           /\ filled.type = msg.type
           /\ msg.type = "result" => filled.stop = OrElse(msg.stop, last) /\ last' = ""
           /\ msg.type = "init" => filled.stop = "" /\ last' = ""
           /\ msg.type \notin {"init", "result"} =>
                filled.stop = "" /\ last' = OrElse(msg.stop, last)
<1>1. "type" \in DOMAIN msg /\ "stop" \in DOMAIN msg /\ (msg.type = "init" => msg.stop = "")
  BY DEF Says
<1>2. PICK filled : filled = Filled(msg, last, max)
  OBVIOUS
<1>3. /\ filled.type = msg.type
      /\ msg.type = "result" => filled.stop = OrElse(msg.stop, last)
      /\ msg.type = "init" => filled.stop = msg.stop
      /\ msg.type \notin {"init", "result"} => filled.stop = ""
      /\ Left(msg, last) = IF msg.type \in {"init", "result"} THEN "" ELSE OrElse(msg.stop, last)
  <2>1. "type" \in DOMAIN msg /\ "stop" \in DOMAIN msg
    BY <1>1
  <2>2. \A carried :
          /\ Filled(msg, carried, max).type = msg.type
          /\ msg.type = "result" => Filled(msg, carried, max).stop = OrElse(msg.stop, carried)
          /\ msg.type = "init"   => Filled(msg, carried, max).stop = msg.stop
          /\ msg.type \notin {"init", "result"} => Filled(msg, carried, max).stop = ""
          /\ Left(msg, carried) = IF msg.type \in {"init", "result"} THEN ""
                                  ELSE OrElse(msg.stop, carried)
    BY <2>1, ReasonsTaken
  <2> QED
    BY ONLY <1>2, <2>2
<1>4. last' = Left(msg, last)
  BY DEF EmitMessage, Left
<1>5. /\ \A k \in (Len(out) + 1)..Len(out') :
           out'[k].msg = filled \/ Follows(out'[k].msg, filled)
      /\ \/ Len(out') > Len(out) /\ phase' = phase
         \/ phase = "replacing" /\ phase' = "replaced"
  BY <1>2, Emits DEF Filled
<1> QED
  BY <1>1, <1>3, <1>4, <1>5

\* What every step that takes a line shows of the books.
LEMMA BooksTaken ==
  ASSUME Types, Lossless, NEW line \in Lines[scene], Takes(line), NEW n \in Nat, n = Len(heard),
         LineTooLong(line) \/ SkipLine(line) \/ ParseError(line) \/ ParsedLine(line)
  PROVE  /\ Len(heard') = n + 1
         /\ \A i \in 1..n : heard'[i] = heard[i]
         /\ heard'[n + 1].line = line /\ heard'[n + 1].scan = scan
         /\ scan' = scan /\ backend' = backend /\ phase \in {"scanning", "replacing"}
         /\ Proper(out') /\ Len(out) \in Nat /\ Len(out') \in Nat /\ Len(out') >= Len(out)
         /\ DOMAIN out = 1..Len(out) /\ DOMAIN out' = 1..Len(out')
         /\ \A k \in 1..Len(out) : out'[k] = out[k]
         /\ \A k \in (Len(out) + 1)..Len(out') : out'[k].line = n + 1
<1>1. /\ Len(heard') = n + 1
      /\ \A i \in 1..n : heard'[i] = heard[i]
      /\ heard'[n + 1].line = line /\ heard'[n + 1].scan = scan
  <2>1. Hear(line)
    BY DEF Takes
  <2>2. /\ Len(heard') = Len(heard) + 1
        /\ \A i \in 1..Len(heard) : heard'[i] = heard[i]
        /\ heard'[Len(heard) + 1] = [line |-> line, scan |-> scan]
    BY <2>1, Hears
  <2> QED
    BY <2>2
<1>2. scan' = scan /\ backend' = backend /\ phase \in {"scanning", "replacing"}
  BY DEF Takes, Hear, backend
<1>3. Proper(out) /\ Len(out) \in Nat
  BY LenProperties DEF Types, Proper
<1>4. /\ Proper(out') /\ Len(out') \in Nat /\ Len(out') >= Len(out)
      /\ \A k \in 1..Len(out) : out'[k] = out[k]
      /\ \A k \in (Len(out) + 1)..Len(out') : out'[k].line = n + 1
  <2>1. CASE out' = out
    BY <1>3, <2>1
  <2>2. CASE \E msg, max : EmitMessage(msg, max)
    BY <2>2, Emits
  <2> QED
    BY <2>1, <2>2 DEF LineTooLong, SkipLine, ParseError, ParsedLine
<1>5. DOMAIN out = 1..Len(out) /\ DOMAIN out' = 1..Len(out')
  BY <1>3, <1>4, LenProperties DEF Proper
<1> QED
  BY <1>1, <1>2, <1>3, <1>4, <1>5

\* A line that leaves no message, and is not oversized, leaves the carried
\* reason; so does one that ends the reading.
LEMMA QuietLine ==
  ASSUME Types, Reasoned, NEW line \in Lines[scene], Takes(line),
         LineTooLong(line) \/ SkipLine(line)
  PROVE  Carried' /\ ReasonsCarried'
<1>1. PICK n \in Nat : n = Len(heard)
  BY LenProperties DEF Types
<1>2. out' = out /\ last' = last
  BY DEF LineTooLong, SkipLine
<1>3. /\ Len(heard') = n + 1
      /\ \A i \in 1..n : heard'[i] = heard[i]
      /\ heard'[n + 1].line = line /\ heard'[n + 1].scan = scan
      /\ scan' = scan /\ backend' = backend /\ phase \in {"scanning", "replacing"}
      /\ Proper(out') /\ Len(out) \in Nat /\ Len(out') \in Nat /\ Len(out') >= Len(out)
      /\ DOMAIN out = 1..Len(out) /\ DOMAIN out' = 1..Len(out')
      /\ \A k \in 1..Len(out) : out'[k] = out[k]
      /\ \A k \in (Len(out) + 1)..Len(out') : out'[k].line = n + 1
  BY <1>1, BooksTaken DEF Reasoned
<1>4. /\ \A i \in 1..n : /\ Raw(i)' = Raw(i)
                         /\ HasType(i, {"init", "result"})' <=> HasType(i, {"init", "result"})
      /\ \A i \in 0..n : \A s : Announcers(i, s)' = Announcers(i, s)
      /\ \A S \in SUBSET (1..n) : LastAnnounced(S)' = LastAnnounced(S)
      /\ \A i \in 1..n : CarriedReason(i)' = CarriedReason(i)
  BY <1>1, <1>3, ReasonsStay DEF Reasoned, Lossless
<1>5. \A k \in DOMAIN out : out[k].line \in 1..n
  BY <1>1 DEF Reasoned, Lossless, Attributed
<1>6. ReasonsCarried'
  <2>1. \A k \in DOMAIN out : /\ EndsTurn(Raw(out[k].line))' <=> EndsTurn(Raw(out[k].line))
                              /\ CarriedReason(out[k].line)' = CarriedReason(out[k].line)
    BY <1>2, <1>3, <1>4, <1>5 DEF EndsTurn
  <2> QED
    BY <1>2, <2>1 DEF Reasoned, ReasonsCarried
<1>7. Carried'
  <2>1. CASE LineTooLong(line)
    BY <1>3, <2>1 DEF LineTooLong, LoopEnds, Carried
  <2>2. CASE SkipLine(line)
    <3>1. PICK S : S = Announcers(n, scan)
      OBVIOUS
    <3>0. PICK next : next = n + 1
      OBVIOUS
    <3>2. DeltaReason(Raw(next))' = ""
      <4>1. DeltaReason(line.raw) = ""
        BY <2>2, MuteSays DEF SkipLine, Types
      <4> QED
        BY <1>3, <3>0, <4>1 DEF DeltaReason, Raw
    <3>3. ~HasType(next, {"init", "result"})'
      BY <1>2, <1>5, <3>0 DEF HasType, Emitted
    <3>4. Announcers(n, scan)' = S /\ S \subseteq 1..n
      BY <1>3, <1>4, <3>1, ScanStays
    <3>5. Announcers(next, scan)' = Announcers(n, scan)'
      BY <3>0, <3>2, <3>3, NoneAnnounced
    <3>6. last = LastAnnounced(S)
      BY <1>1, <1>3, <3>1 DEF Reasoned, Carried
    <3>7. LastAnnounced(Announcers(Len(heard), scan))' = LastAnnounced(S)'
      <4>1. Announcers(Len(heard), scan)' = S
        BY <1>3, <3>0, <3>4, <3>5
      <4> QED
        BY <4>1 DEF LastAnnounced
    <3> QED
      BY <1>2, <1>4, <3>4, <3>6, <3>7 DEF Carried
  <2> QED
    BY <2>1, <2>2
<1> QED
  BY <1>6, <1>7

Right(i, msg) ==
  /\ msg.type = "result" => EndsTurn(Raw(i)) /\ msg.stop = CarriedReason(i)
  /\ msg.type # "result" => ~EndsTurn(Raw(i)) /\ msg.stop = ""

LEMMA RightReasons ==
  ASSUME \A k \in DOMAIN out' : \E i, m : out'[k].line = i /\ out'[k].msg = m /\ Right(i, m)'
  PROVE  ReasonsCarried'
<1>1. ASSUME NEW k \in DOMAIN out'
      PROVE  Right(out[k].line, out[k].msg)'
  <2>1. PICK i, m : out'[k].line = i /\ out'[k].msg = m /\ Right(i, m)'
    OBVIOUS
  <2> QED
    BY <2>1 DEF Right
<1> QED
  BY <1>1 DEF ReasonsCarried, Right

\* A line whose message says what the line does.
LEMMA TellingLine ==
  ASSUME Types, Reasoned, NEW line \in Lines[scene], Takes(line),
         ParseError(line) \/ ParsedLine(line),
         NEW msg, NEW max, EmitMessage(msg, max), Says(line.raw, msg)
  PROVE  Carried' /\ ReasonsCarried'
<1>1. PICK n \in Nat, next \in Nat : n = Len(heard) /\ next = n + 1
  BY LenProperties DEF Types
<1>2. /\ Len(heard') = next
      /\ \A i \in 1..n : heard'[i] = heard[i]
      /\ heard'[next].line = line /\ heard'[next].scan = scan
      /\ scan' = scan /\ backend' = backend /\ phase \in {"scanning", "replacing"}
      /\ Proper(out') /\ Len(out) \in Nat /\ Len(out') \in Nat /\ Len(out') >= Len(out)
      /\ DOMAIN out = 1..Len(out) /\ DOMAIN out' = 1..Len(out')
      /\ \A k \in 1..Len(out) : out'[k] = out[k]
      /\ \A k \in (Len(out) + 1)..Len(out') : out'[k].line = n + 1
  BY <1>1, BooksTaken DEF Reasoned
<1>3. /\ \A i \in 1..n : /\ Raw(i)' = Raw(i)
                         /\ HasType(i, {"init", "result"})' <=> HasType(i, {"init", "result"})
      /\ \A i \in 0..n : \A s : Announcers(i, s)' = Announcers(i, s)
      /\ \A S \in SUBSET (1..n) : LastAnnounced(S)' = LastAnnounced(S)
      /\ \A i \in 1..n : CarriedReason(i)' = CarriedReason(i)
  BY <1>1, <1>2, ReasonsStay DEF Reasoned, Lossless
<1>4. \A k \in DOMAIN out : out[k].line \in 1..n
  BY <1>1 DEF Reasoned, Lossless, Attributed
<1>5. PICK filled :
        /\ \A k \in (Len(out) + 1)..Len(out') :
             out'[k].msg = filled \/ Follows(out'[k].msg, filled)
        /\ phase' \in {"scanning", "replacing"} => Len(out') > Len(out)
        /\ filled.type = msg.type
        /\ msg.type = "result" => filled.stop = OrElse(msg.stop, last) /\ last' = ""
        /\ msg.type = "init" => filled.stop = "" /\ last' = ""
        /\ msg.type \notin {"init", "result"} =>
             filled.stop = "" /\ last' = OrElse(msg.stop, last)
  BY MessagesTaken DEF Reasoned
<1>6. /\ msg.type = "result" => EndsTurn(line.raw) /\ msg.stop = OwnReason(line.raw)
      /\ msg.type # "result" => ~EndsTurn(line.raw) /\ msg.stop = DeltaReason(line.raw)
  BY DEF Says
<1>7. /\ DeltaReason(Raw(next))' = DeltaReason(line.raw)
      /\ OwnReason(Raw(next))' = OwnReason(line.raw)
      /\ EndsTurn(Raw(next))' <=> EndsTurn(line.raw)
  BY <1>2 DEF DeltaReason, OwnReason, EndsTurn, Raw
<1>8. PICK S : S = Announcers(n, scan)
  OBVIOUS
<1>9. /\ Announcers(n, scan)' = S /\ S \subseteq 1..n
      /\ last = LastAnnounced(S) /\ LastAnnounced(S)' = last
  <2>1. Announcers(n, scan)' = S /\ S \subseteq 1..n
    <3>1. \A s : Announcers(n, s)' = Announcers(n, s)
      BY <1>1, <1>3
    <3> QED
      BY <1>2, <1>8, <3>1, ScanStays
  <2>2. last = LastAnnounced(S)
    BY <1>1, <1>2, <1>8 DEF Reasoned, Carried
  <2> QED
    BY <1>3, <2>1, <2>2
<1>10. CarriedReason(next)' = IF OwnReason(line.raw) # "" THEN OwnReason(line.raw) ELSE last
  <2>1. CarriedReason(next)' = IF OwnReason(Raw(next))' # "" THEN OwnReason(Raw(next))'
                          ELSE LastAnnounced(Announcers(next - 1, heard[next].scan))'
    BY ReasonIs
  <2>2. Announcers(next - 1, heard[next].scan)' = Announcers(n, scan)'
    BY <1>1, <1>2 DEF Announcers
  <2>3. LastAnnounced(Announcers(next - 1, heard[next].scan))' = LastAnnounced(S)'
    BY <1>9, <2>2 DEF LastAnnounced
  <2> QED
    BY <1>7, <1>9, <2>1, <2>3
<1>11. ReasonsCarried'
  <2>1. ASSUME NEW k \in DOMAIN out'
        PROVE  \E i, m : out'[k].line = i /\ out'[k].msg = m /\ Right(i, m)'
    <3>1. PICK i, m : i = out'[k].line /\ m = out'[k].msg
      OBVIOUS
    <3>2. CASE k \in 1..Len(out)
      <4>1. i = out[k].line /\ m = out[k].msg /\ i \in 1..n
        BY <1>2, <1>4, <3>1, <3>2
      <4>2. Right(i, m)
        BY <1>2, <3>2, <4>1 DEF Reasoned, ReasonsCarried, Right
      <4>3. EndsTurn(Raw(i))' <=> EndsTurn(Raw(i))
        BY <1>2, <1>3, <4>1 DEF EndsTurn
      <4>4. Right(i, m)'
        BY <1>3, <4>1, <4>2, <4>3 DEF Right
      <4> QED
        BY <3>1, <4>4
    <3>3. CASE k \in (Len(out) + 1)..Len(out')
      <4>1. i = next
        BY <1>1, <1>2, <3>1, <3>3
      <4>2. m = filled \/ Follows(m, filled)
        BY <1>5, <3>1, <3>3
      <4>3. /\ m.type = "result" => /\ EndsTurn(line.raw)
                                    /\ m.stop = OrElse(OwnReason(line.raw), last)
            /\ m.type # "result" => ~EndsTurn(line.raw) /\ m.stop = ""
        <5>1. CASE m = filled
          BY <1>5, <1>6, <5>1
        <5>2. CASE Follows(m, filled)
          <6>1. "context_window" # "result"
            OBVIOUS
          <6> QED
            BY <1>5, <1>6, <5>2, <6>1 DEF Follows
        <5> QED
          BY <4>2, <5>1, <5>2
      <4>4. Right(next, m)'
        BY <1>7, <1>10, <4>3 DEF Right, OrElse
      <4> QED
        BY <3>1, <4>1, <4>4
    <3> QED
      BY <1>2, <3>2, <3>3
  <2> QED
    BY <2>1, RightReasons
<1>12. CASE phase' \notin {"scanning", "replacing"}
  BY <1>11, <1>12 DEF Carried
<1>13. CASE phase' \in {"scanning", "replacing"}
  <2>1. PICK T : T = Announcers(next, scan)'
    OBVIOUS
  <2>2. LastAnnounced(Announcers(Len(heard), scan))' = LastAnnounced(T)'
    BY <1>2, <2>1 DEF LastAnnounced
  <2>3. CASE msg.type \in {"init", "result"}
    <3>1. HasType(next, {"init", "result"})'
      <4>1. PICK k : k = Len(out')
        OBVIOUS
      <4>2. k \in (Len(out) + 1)..Len(out') /\ k \in DOMAIN out'
        <5>1. Len(out') > Len(out) /\ Len(out) \in Nat /\ Len(out') \in Nat
          BY <1>2, <1>5, <1>13
        <5>2. DOMAIN out' = 1..Len(out')
          BY <1>2
        <5> QED
          BY ONLY <4>1, <5>1, <5>2
      <4>3. out'[k].line = next
        BY <1>1, <1>2, <4>2
      <4>4. out'[k].msg.type \in {"init", "result"}
        BY <1>5, <2>3, <4>2 DEF Follows
      <4> QED
        BY <4>2, <4>3, <4>4 DEF HasType, Emitted
    <3>2. T = {}
      <4>1. \A j \in 1..next : next \in j..next
        BY <1>1
      <4>2. \A j \in T : j \in 1..next /\ \A m \in j..next : ~HasType(m, {"init", "result"})'
        BY <2>1 DEF Announcers
      <4> QED
        BY <3>1, <4>1, <4>2
    <3>3. LastAnnounced(T)' = ""
      BY <3>2 DEF LastAnnounced
    <3> QED
      BY <1>5, <1>11, <2>2, <2>3, <3>3 DEF Carried
  <2>4. CASE msg.type \notin {"init", "result"}
    <3>1. msg.stop = DeltaReason(line.raw) /\ last' = OrElse(msg.stop, last)
      BY <1>5, <1>6, <2>4
    <3>2. ~HasType(next, {"init", "result"})'
      <4>1. ASSUME NEW k \in DOMAIN out', out'[k].line = next
            PROVE  out'[k].msg.type \notin {"init", "result"}
        <5>1. k \in (Len(out) + 1)..Len(out')
          BY <1>1, <1>2, <1>4, <4>1
        <5>2. "context_window" \notin {"init", "result"}
          OBVIOUS
        <5> QED
          BY <1>5, <2>4, <5>1, <5>2 DEF Follows
      <4> QED
        BY <4>1 DEF HasType, Emitted
    <3>3. CASE DeltaReason(line.raw) = ""
      <4>1. T = S
        BY <1>1, <1>7, <1>9, <2>1, <3>2, <3>3, NoneAnnounced
      <4>2. last' = last
        BY <3>1, <3>3 DEF OrElse
      <4> QED
        BY <1>9, <1>11, <2>2, <4>1, <4>2 DEF Carried
    <3>4. CASE DeltaReason(line.raw) # ""
      <4>1. last' = DeltaReason(line.raw)
        BY <3>1, <3>4 DEF OrElse
      <4>2. next \in T /\ T \subseteq 1..next
        <5>1. \A m \in next..next : m = next
          BY <1>1
        <5>2. next \in 1..next
          BY <1>1
        <5> QED
          BY <1>2, <1>7, <2>1, <3>2, <3>4, <5>1, <5>2 DEF Announcers
      <4>3. Max(T) = next
        <5>1. next \in Nat
          BY <1>1
        <5> QED
          BY <4>2, <5>1, GreatestIs
      <4>4. LastAnnounced(T)' = DeltaReason(Raw(next))'
        BY <4>2, <4>3 DEF LastAnnounced
      <4> QED
        BY <1>7, <1>11, <2>2, <4>1, <4>4 DEF Carried
    <3> QED
      BY <3>3, <3>4
  <2> QED
    BY <2>3, <2>4
<1> QED
  BY <1>12, <1>13

LEMMA ReasonedTaken ==
  ASSUME Types, Reasoned, ReadSome
  PROVE  Carried' /\ ReasonsCarried'
<1>1. PICK line \in Lines[scene] :
        /\ Takes(line)
        /\ \/ LineTooLong(line) \/ SkipLine(line) \/ ParseError(line) \/ ParsedLine(line)
  BY ReadSteps
<1>2. CASE LineTooLong(line) \/ SkipLine(line)
  BY <1>1, <1>2, QuietLine
<1>3. CASE ParseError(line)
  <2>1. PICK msg : msg = [Message("error") EXCEPT !.content = "parse"]
    OBVIOUS
  <2>2. EmitMessage(msg, peak) /\ Malformed(backend, line.raw)
    BY <1>3, <2>1 DEF ParseError
  <2>3. Silent(msg, "error")
    BY <2>1, SilentMessages
  <2>4. Says(line.raw, msg)
    <3>1. DeltaReason(line.raw) = "" /\ ~EndsTurn(line.raw)
      BY <2>2, MuteSays DEF Types
    <3>2. "error" # "result"
      OBVIOUS
    <3> QED
      BY <2>3, <3>1, <3>2, SilentSays
  <2> QED
    BY <1>1, <1>3, <2>2, <2>4, TellingLine
<1>4. CASE ParsedLine(line)
  <2>1. PICK msg : msg = ParseLine(backend, line.raw, cell).msg
    OBVIOUS
  <2>2. PICK max : max = IF msg.type = "error" THEN 0 ELSE peak
    OBVIOUS
  <2>3. EmitMessage(msg, max)
    BY <1>4, <2>1, <2>2 DEF ParsedLine
  <2>4. Says(line.raw, msg)
    BY <2>1, LineSays DEF Types
  <2> QED
    BY <1>1, <1>4, <2>3, <2>4, TellingLine
<1> QED
  BY <1>1, <1>2, <1>3, <1>4

\* A subprocess that starts to be read has announced nothing yet.
LEMMA ReasonedStays ==
  ASSUME Types, Reasoned, scene' = scene, heard' = heard, out' = out,
         \/ NewScan
         \/ phase' \notin {"scanning", "replacing"}
         \/ scan' = scan /\ last' = last /\ phase \in {"scanning", "replacing"}
  PROVE  Carried' /\ ReasonsCarried'
<1>1. PICK n \in Nat : n = Len(heard)
  BY LenProperties DEF Types
<1>2. /\ backend' = backend /\ Proper(out) /\ Len(out) \in Nat
      /\ Len(out') >= Len(out) /\ (Len(out) + 1)..Len(out') = {}
  BY LenProperties DEF Types, Proper, backend
<1>3. /\ \A i \in 1..n : Raw(i)' = Raw(i)
      /\ \A i \in 0..n : \A s : Announcers(i, s)' = Announcers(i, s)
      /\ \A S \in SUBSET (1..n) : LastAnnounced(S)' = LastAnnounced(S)
      /\ \A i \in 1..n : CarriedReason(i)' = CarriedReason(i)
  BY <1>1, <1>2, ReasonsStay DEF Reasoned, Lossless
<1>4. ReasonsCarried'
  <2>1. ASSUME NEW k \in DOMAIN out'
        PROVE  \E i, m : out'[k].line = i /\ out'[k].msg = m /\ Right(i, m)'
    <3>1. PICK i, m : i = out[k].line /\ m = out[k].msg
      OBVIOUS
    <3>2. i \in 1..n
      BY <1>1, <3>1 DEF Reasoned, Lossless, Attributed
    <3>3. Right(i, m)
      BY <3>1 DEF Reasoned, ReasonsCarried, Right
    <3>4. EndsTurn(Raw(i))' <=> EndsTurn(Raw(i))
      BY <1>2, <1>3, <3>2 DEF EndsTurn
    <3>5. Right(i, m)'
      BY <1>3, <3>2, <3>3, <3>4 DEF Right
    <3> QED
      BY <3>1, <3>5
  <2> QED
    BY <2>1, RightReasons
<1>5. CASE NewScan
  <2>1. scan' = scan + 1 /\ last' = "" /\ scan \in Nat
    BY <1>5 DEF NewScan, Types
  <2>2. \A i \in 1..n : heard[i].scan \in Nat /\ heard[i].scan <= scan
    <3>1. \A i \in 1..n : heard[i] \in [line : Lines[scene], scan : Nat]
      BY <1>1, LenProperties DEF Types
    <3>2. \A e \in [line : Lines[scene], scan : Nat] : e.scan \in Nat
      OBVIOUS
    <3> QED
      BY <1>1, <3>1, <3>2 DEF Reasoned, Lossless
  <2>3. ASSUME NEW i \in 1..n
        PROVE  heard'[i].scan # scan'
    <3>1. PICK a, b : a = heard[i].scan /\ b = scan
      OBVIOUS
    <3>2. a \in Nat /\ a <= b /\ b \in Nat
      BY <2>1, <2>2, <3>1
    <3>3. a # b + 1
      BY ONLY <3>2
    <3>4. heard'[i].scan = a /\ scan' = b + 1
      BY <2>1, <3>1
    <3> QED
      BY ONLY <3>3, <3>4
  <2>4. Announcers(Len(heard), scan)' = {}
    <3>1. Announcers(Len(heard), scan)' \subseteq 1..Len(heard')
      BY DEF Announcers
    <3>2. \A j \in Announcers(Len(heard), scan)' : heard'[j].scan = scan'
      BY DEF Announcers
    <3>3. 1..Len(heard') = 1..n
      BY <1>1
    <3> QED
      BY ONLY <2>3, <3>1, <3>2, <3>3
  <2>5. LastAnnounced(Announcers(Len(heard), scan))' = ""
    BY <2>4 DEF LastAnnounced
  <2> QED
    BY <1>4, <2>1, <2>5 DEF Carried
<1>6. CASE phase' \notin {"scanning", "replacing"}
  BY <1>4, <1>6 DEF Carried
<1>7. CASE scan' = scan /\ last' = last /\ phase \in {"scanning", "replacing"}
  <2>1. PICK S : S = Announcers(n, scan)
    OBVIOUS
  <2>2. Announcers(n, scan)' = S /\ S \subseteq 1..n
    <3>1. \A s : Announcers(n, s)' = Announcers(n, s)
      BY <1>1, <1>3
    <3> QED
      BY <1>7, <2>1, <3>1, ScanStays
  <2>3. LastAnnounced(Announcers(Len(heard), scan))' = LastAnnounced(S)'
    <3>1. Announcers(Len(heard), scan)' = S
      BY <1>1, <2>2
    <3> QED
      BY <3>1 DEF LastAnnounced
  <2>4. last = LastAnnounced(S)
    BY <1>1, <1>7, <2>1 DEF Reasoned, Carried
  <2> QED
    BY <1>3, <1>4, <1>7, <2>2, <2>3, <2>4 DEF Carried
<1> QED
  BY <1>5, <1>6, <1>7

LEMMA ReasonedInit ==
  ASSUME Init
  PROVE  Reasoned
<1>1. out = <<>> /\ phase = "new"
  BY DEF Init
<1>2. DOMAIN out = {}
  BY <1>1, EmptySeq
<1>3. Carried /\ ReasonsCarried
  BY <1>1, <1>2 DEF Carried, ReasonsCarried
<1> QED
  BY <1>3, LosslessInit DEF Reasoned

LEMMA ReasonedStep ==
  ASSUME Types, Reasoned, [Next]_vars
  PROVE  Reasoned'
<1>0. Lossless'
  BY LosslessStep DEF Reasoned
<1>1. CASE ReadSome
  BY <1>0, <1>1, ReasonedTaken DEF Reasoned
<1>2. CASE Start \/ ResumeAfterCleanExit \/ SpawnReplacement
  <2>1. scene' = scene /\ heard' = heard /\ out' = out /\ NewScan
    BY <1>2 DEF Start, ResumeAfterCleanExit, SpawnReplacement
  <2> QED
    BY <1>0, <2>1, ReasonedStays DEF Reasoned
<1>3. CASE ReplaceSubprocess
  <2>1. /\ scene' = scene /\ heard' = heard /\ out' = out
        /\ scan' = scan /\ last' = last /\ phase \in {"scanning", "replacing"}
    BY <1>3 DEF ReplaceSubprocess
  <2> QED
    BY <1>0, <2>1, ReasonedStays DEF Reasoned
<1>4. CASE StartRefused \/ EndOfStream
  <2>1. /\ scene' = scene /\ heard' = heard /\ out' = out
        /\ phase' \in {"refused", "replaced", "exited"}
    BY <1>4 DEF StartRefused, EndOfStream, LoopEnds
  <2> QED
    BY <1>0, <2>1, ReasonedStays DEF Reasoned
<1>5. CASE UNCHANGED vars
  <2>1. /\ scene' = scene /\ heard' = heard /\ out' = out
        /\ scan' = scan /\ last' = last /\ phase' = phase
    BY <1>5 DEF vars
  <2>2. phase \in {"scanning", "replacing"} \/ phase' \notin {"scanning", "replacing"}
    BY <2>1
  <2> QED
    BY <1>0, <2>1, <2>2, ReasonedStays DEF Reasoned
<1> QED
  BY <1>1, <1>2, <1>3, <1>4, <1>5 DEF Next

\* The greatest of a set of numbers, when it is there.
LEMMA MaxIs ==
  ASSUME NEW S, NEW m \in S, \A x \in S : x \in Int /\ m >= x
  PROVE  Max(S) = m
<1>1. PICK x : x = Max(S)
  OBVIOUS
<1>2. x \in S /\ \A y \in S : x >= y
  BY <1>1 DEF Max
<1>3. x >= m /\ m >= x /\ x \in Int /\ m \in Int
  BY <1>2
<1> QED
  BY <1>1, <1>3

\* What a result carries is the parent's, or a subagent's that came later.
LEMMA CarriedOrOverheard ==
  ASSUME NEW i \in Nat, CarriedReason(i) # ReasonOf(i)
  PROVE  OwnReason(Raw(i)) = "" /\ CarriedReason(i) \in SubagentReasons(i)
<1>1. PICK D : D = {j \in Since(i, {"init", "result"}) : DeltaReason(Raw(j)) # ""}
  OBVIOUS
<1>2. Announcements(i) = {j \in D : ~IsSubagentEvent(Raw(j))}
  BY <1>1 DEF Announcements, AnnouncedReason
<1>3. OwnReason(Raw(i)) = ""
  BY DEF CarriedReason, ReasonOf
<1>4. D # {} /\ CarriedReason(i) = DeltaReason(Raw(Max(D)))
  <2>1. CASE D = {}
    BY <1>1, <1>2, <1>3, <2>1 DEF CarriedReason, ReasonOf
  <2> QED
    BY <1>1, <1>3, <2>1 DEF CarriedReason
<1>5. PICK x : x = Max(D)
  OBVIOUS
<1>6. D \subseteq 1..i
  <2>1. PICK S : S = Since(i, {"init", "result"})
    OBVIOUS
  <2>2. S \subseteq 1..(i - 1)
    BY <2>1 DEF Since
  <2>3. D \subseteq S
    BY <1>1, <2>1
  <2>4. 1..(i - 1) \subseteq 1..i
    OBVIOUS
  <2> QED
    BY <2>2, <2>3, <2>4
<1>7. x \in D /\ \A y \in D : x >= y
  BY <1>4, <1>5, <1>6, GreatestOf
<1>8. IsSubagentEvent(Raw(x))
  <2>1. CASE ~IsSubagentEvent(Raw(x))
    <3>1. x \in Announcements(i) /\ \A y \in Announcements(i) : x >= y
      BY <1>2, <1>7, <2>1
    <3>2. Max(Announcements(i)) = x
      <4>1. Announcements(i) \subseteq D /\ D \subseteq Int
        BY <1>2, <1>6
      <4>2. \A y \in Announcements(i) : y \in Int /\ x >= y
        BY <1>7, <4>1
      <4> QED
        BY <3>1, <4>2, MaxIs
    <3>3. ReasonOf(i) = DeltaReason(Raw(x))
      BY <1>3, <2>1, <3>1, <3>2 DEF ReasonOf, AnnouncedReason
    <3> QED
      BY <1>4, <1>5, <3>3
  <2> QED
    BY <2>1
<1>9. ASSUME NEW m \in Announcements(i)
      PROVE  m < x
  <2>1. m \in D /\ m # x
    BY <1>2, <1>8
  <2>2. m \in Int /\ x \in Int /\ x >= m
    BY <1>6, <1>7, <2>1
  <2> QED
    BY <2>1, <2>2
<1>10. x \in Since(i, {"init", "result"}) /\ DeltaReason(Raw(x)) # ""
  BY <1>1, <1>7
<1> QED
  BY <1>3, <1>4, <1>5, <1>8, <1>9, <1>10 DEF SubagentReasons

\* Results come from just the lines that end the agent's own turn, so a
\* subagent's result ends none, and each carries its own stop reason or the
\* last one announced since the init or result before it, the agent's own
\* unless a subagent announced one after it: no turn's reason shows up on
\* another's result (applyStopReasonCarryForward in engine/cli/process.go and
\* the backends' parsers).  This is the second part of StreamFaithful.
THEOREM ReasonsAreOwn == Spec => []ReasonsOfTheirTurn
<1>1. Init => Types /\ Reasoned
  BY TypesInit, ReasonedInit
<1>2. Types /\ Reasoned /\ [Next]_vars => (Types /\ Reasoned)'
  BY TypesStep, ReasonedStep
<1>3. ASSUME Types, Reasoned
      PROVE  ReasonsOfTheirTurn
  <2>1. ASSUME NEW k \in DOMAIN out
        PROVE  out[k].line \in Nat
    <3>1. out[k].line \in 1..Len(heard)
      BY <1>3, <2>1 DEF Reasoned, Lossless, Attributed
    <3> QED
      BY <3>1
  <2> QED
    BY <1>3, <2>1, CarriedOrOverheard DEF Reasoned, ReasonsCarried, ReasonsOfTheirTurn
<1>4. Types /\ Reasoned => ReasonsOfTheirTurn
  BY <1>3
<1> QED
  BY <1>1, <1>2, <1>4, PTL DEF Spec

-----------------------------------------------------------------------------
(* Summaries: the equations of the fold that a turn's summary is.          *)

\* What MapThenFoldSet makes of the elements of s at each set of positions up
\* to n, from the least to the greatest.
IsFold(f, s, n) ==
  f = [t \in SUBSET (1..n) |-> IF t = {} THEN EmptySummary
                               ELSE Add(f[t \ {Max(t)}], s[Max(t)])]

LEMMA FoldExists ==
  ASSUME NEW s, NEW n \in Nat
  PROVE  \E f : IsFold(f, s, n)
<1>1. PICK T : T = {i \in Nat : ~\E f : IsFold(f, s, i)}
  OBVIOUS
<1>2. CASE T = {}
  BY <1>1, <1>2
<1>3. CASE T # {}
  <2>1. PICK i \in T : \A j \in T : i <= j
    BY <1>1, <1>3, LeastNatural
  <2>2. i # 0
    <3>1. PICK f : f = [t \in SUBSET (1..0) |-> EmptySummary]
      OBVIOUS
    <3>2. 1..0 = {} /\ \A t \in SUBSET (1..0) : t = {}
      OBVIOUS
    <3>3. f = [t \in SUBSET (1..0) |-> IF t = {} THEN EmptySummary
                                       ELSE Add(f[t \ {Max(t)}], s[Max(t)])]
      BY <3>1, <3>2
    <3> QED
      BY <1>1, <2>1, <3>3 DEF IsFold
  <2>3. PICK m \in Nat : i = m + 1
    BY <1>1, <2>1, <2>2
  <2>4. PICK f : IsFold(f, s, m)
    <3>1. m \notin T
      BY <2>1, <2>3
    <3> QED
      BY <1>1, <3>1
  <2>5. PICK g : g = [t \in SUBSET (1..i) |-> IF i \in t THEN Add(f[t \ {i}], s[i]) ELSE f[t]]
    OBVIOUS
  <2>6. ASSUME NEW t \in SUBSET (1..i)
        PROVE  g[t] = IF t = {} THEN EmptySummary ELSE Add(g[t \ {Max(t)}], s[Max(t)])
    <3>0. i \in Nat /\ 1..i = 1..m \cup {i} /\ i \notin 1..m
      BY ONLY m \in Nat, <2>3
    <3>1. \A u \in SUBSET (1..m) :
            f[u] = IF u = {} THEN EmptySummary ELSE Add(f[u \ {Max(u)}], s[Max(u)])
      BY <2>4 DEF IsFold
    <3>2. CASE i \in t
      <4>1. Max(t) = i
        BY <3>0, <3>2, GreatestIs
      <4>2. t \ {i} \in SUBSET (1..i) /\ i \notin t \ {i}
        OBVIOUS
      <4>3. g[t] = Add(f[t \ {i}], s[i]) /\ g[t \ {i}] = f[t \ {i}]
        BY <2>5, <3>2, <4>2
      <4> QED
        BY <3>2, <4>1, <4>3
    <3>3. CASE i \notin t
      <4>1. t \in SUBSET (1..m)
        BY <3>0, <3>3
      <4>2. g[t] = f[t] /\ g[t \ {Max(t)}] = f[t \ {Max(t)}]
        BY <2>5, <3>3
      <4> QED
        BY <3>1, <4>1, <4>2
    <3> QED
      BY <3>2, <3>3
  <2>7. IsFold(g, s, i)
    <3>1. g = [t \in SUBSET (1..i) |-> g[t]]
      BY <2>5
    <3>2. [t \in SUBSET (1..i) |-> g[t]]
            = [t \in SUBSET (1..i) |-> IF t = {} THEN EmptySummary
                                       ELSE Add(g[t \ {Max(t)}], s[Max(t)])]
      BY <2>6, Zenon
    <3> QED
      BY <3>1, <3>2 DEF IsFold
  <2> QED
    BY <1>1, <2>1, <2>7
<1> QED
  BY <1>2, <1>3

\* One position more is one Add more.
LEMMA FoldSteps ==
  ASSUME NEW f, NEW s, NEW n \in Nat, IsFold(f, s, n)
  PROVE  /\ f[1..0] = EmptySummary
         /\ \A i \in 1..n : f[1..i] = Add(f[1..(i - 1)], s[i])
<1>1. \A t \in SUBSET (1..n) :
        f[t] = IF t = {} THEN EmptySummary ELSE Add(f[t \ {Max(t)}], s[Max(t)])
  BY DEF IsFold
<1>2. 1..0 = {} /\ 1..0 \in SUBSET (1..n)
  OBVIOUS
<1>3. ASSUME NEW i \in 1..n
      PROVE  f[1..i] = Add(f[1..(i - 1)], s[i])
  <2>1. i \in Nat /\ 1..i \in SUBSET (1..n) /\ i \in 1..i /\ (1..i) \ {i} = 1..(i - 1)
    OBVIOUS
  <2>2. Max(1..i) = i
    BY <2>1, GreatestIs
  <2> QED
    BY <1>1, <2>1, <2>2
<1> QED
  BY <1>1, <1>2, <1>3

LEMMA FoldsAgree ==
  ASSUME NEW f, NEW s, NEW n \in Nat, IsFold(f, s, n),
         NEW g, NEW r, NEW k \in Nat, IsFold(g, r, k),
         NEW m \in Nat, m <= n, m <= k, \A i \in 1..m : s[i] = r[i]
  PROVE  f[1..m] = g[1..m]
<1>1. PICK T : T = {i \in 0..m : f[1..i] # g[1..i]}
  OBVIOUS
<1>2. CASE T = {}
  BY <1>1, <1>2
<1>3. CASE T # {}
  <2>0. T \subseteq 0..m /\ 0..m \subseteq Nat
    BY <1>1
  <2>1. PICK i \in T : \A j \in T : i <= j
    BY ONLY <1>3, <2>0, LeastNatural
  <2>2. i # 0
    BY <1>1, <2>1, FoldSteps
  <2>3. i - 1 \in 0..m /\ i \in 1..m /\ i \in 1..n /\ i \in 1..k /\ i - 1 \notin T
    BY <1>1, <2>1, <2>2
  <2>4. f[1..(i - 1)] = g[1..(i - 1)]
    BY <1>1, <2>3
  <2>5. f[1..i] = Add(f[1..(i - 1)], s[i]) /\ g[1..i] = Add(g[1..(i - 1)], r[i])
    BY <2>3, FoldSteps
  <2> QED
    BY <1>1, <2>1, <2>3, <2>4, <2>5
<1> QED
  BY <1>2, <1>3

LEMMA SummaryIs ==
  ASSUME NEW s, NEW n \in Nat, DOMAIN s = 1..n
  PROVE  \E f : IsFold(f, s, n) /\ Summary(s) = f[1..n]
<1>1. Summary(s) = (CHOOSE f : f = [t \in SUBSET DOMAIN s |->
                                      IF t = {} THEN EmptySummary
                                      ELSE Add(f[t \ {Max(t)}], s[Max(t)])])[DOMAIN s]
  BY Zenon DEF Summary, FoldLeft, MapThenFoldSet
<1>2. Summary(s) = (CHOOSE f : IsFold(f, s, n))[1..n]
  BY <1>1, Zenon DEF IsFold
<1>3. IsFold(CHOOSE f : IsFold(f, s, n), s, n)
  BY FoldExists
<1> QED
  BY <1>2, <1>3

\* A summary of nothing is empty, and one message more is one Add more.
LEMMA SummaryGrows ==
  ASSUME NEW s, NEW n \in Nat, DOMAIN s = 1..n
  PROVE  /\ n = 0 => Summary(s) = EmptySummary
         /\ \A r : n > 0 /\ DOMAIN r = 1..(n - 1) /\ (\A i \in 1..(n - 1) : r[i] = s[i])
              => Summary(s) = Add(Summary(r), s[n])
<1>1. PICK f : IsFold(f, s, n) /\ Summary(s) = f[1..n]
  BY SummaryIs
<1>2. CASE n = 0
  BY <1>1, <1>2, FoldSteps
<1>3. ASSUME NEW r, n > 0, DOMAIN r = 1..(n - 1), \A i \in 1..(n - 1) : r[i] = s[i]
      PROVE  Summary(s) = Add(Summary(r), s[n])
  <2>1. n - 1 \in Nat /\ n \in 1..n /\ n - 1 <= n
    BY <1>3
  <2>2. PICK g : IsFold(g, r, n - 1) /\ Summary(r) = g[1..(n - 1)]
    BY <1>3, <2>1, SummaryIs
  <2>3. g[1..(n - 1)] = f[1..(n - 1)]
    BY <1>1, <1>3, <2>1, <2>2, FoldsAgree
  <2>4. f[1..n] = Add(f[1..(n - 1)], s[n])
    BY <1>1, <2>1, FoldSteps
  <2> QED
    BY <1>1, <2>2, <2>3, <2>4
<1> QED
  BY <1>2, <1>3

-----------------------------------------------------------------------------
(* What a line's message says of the model call and of the tool calls.     *)

\* A message of this type with this usage and these tool calls.
Carries(msg, t, u, tool, tools) ==
  /\ "type" \in DOMAIN msg /\ "usage" \in DOMAIN msg
  /\ "tool" \in DOMAIN msg /\ "tools" \in DOMAIN msg
  /\ msg.type = t /\ msg.usage = u /\ msg.tool = tool /\ msg.tools = tools

\* Neither usage nor calls.
Bare(msg) == \E t : Carries(msg, t, <<>>, <<>>, <<>>)

\* What a summary takes of the message's tool calls.
Gathered(msg) == IF IsDelta(msg.type) THEN <<>> ELSE CallsOf(msg)

\* The message has the line's tool calls; it reports a model call of the
\* parent's as the line does, or the usage of the turn on a result.
Bears(raw, msg) ==
  /\ "type" \in DOMAIN msg /\ "usage" \in DOMAIN msg
  /\ "tool" \in DOMAIN msg /\ "tools" \in DOMAIN msg
  /\ \/ msg.usage = <<>> /\ CallFill(raw) = 0
     \/ \E a, b, c, d :
          /\ msg.usage = <<Usage(a, b, c, d)>>
          /\ \/ msg.type = "result" /\ CallFill(raw) = 0
             \/ /\ msg.type \notin {"result", "init", "error", "context_window"}
                /\ CallFill(raw) = Positives(a) + Positives(c) + Positives(d)
  /\ Proper(Gathered(msg)) /\ Len(Gathered(msg)) = CallCount(raw)

LEMMA ShortSequences ==
  ASSUME NEW a
  PROVE  /\ Proper(<<>>) /\ Len(<<>>) = 0
         /\ Proper(<<a>>) /\ Len(<<a>>) = 1
<1>1. Proper(<<>>) /\ Len(<<>>) = 0
  BY EmptySeq DEF Proper
<1>2. <<a>> \in Seq({a}) /\ Len(<<a>>) = 1
  OBVIOUS
<1> QED
  BY <1>1, <1>2, ProperSequence

LEMMA BearsNothing ==
  ASSUME NEW raw, NEW msg, Bare(msg), CallFill(raw) = 0, CallCount(raw) = 0
  PROVE  Bears(raw, msg)
<1>1. PICK t : Carries(msg, t, <<>>, <<>>, <<>>)
  BY DEF Bare
<1>2. Gathered(msg) = <<>>
  BY <1>1 DEF Gathered, CallsOf, Carries
<1> QED
  BY <1>1, <1>2, ShortSequences DEF Bears, Carries

LEMMA BearsOneCall ==
  ASSUME NEW raw, NEW msg, NEW call, Carries(msg, "tool_result", <<>>, <<call>>, <<>>),
         CallFill(raw) = 0, CallCount(raw) = 1
  PROVE  Bears(raw, msg)
<1>1. Gathered(msg) = <<call>>
  <2>1. ~IsDelta("tool_result") /\ "tool_result" # "background_tasks"
    BY DEF IsDelta, Deltas
  <2> QED
    BY <2>1 DEF Gathered, CallsOf, Carries
<1> QED
  BY <1>1, ShortSequences DEF Bears, Carries

LEMMA BearsUsage ==
  ASSUME NEW raw, NEW msg, NEW u, Carries(msg, "result", u, <<>>, <<>>),
         u = <<>> \/ \E a, b, c, d : u = <<Usage(a, b, c, d)>>,
         CallFill(raw) = 0, CallCount(raw) = 0
  PROVE  Bears(raw, msg)
<1>1. Gathered(msg) = <<>>
  BY DEF Gathered, CallsOf, Carries
<1>2. msg.usage = u /\ msg.type = "result"
  BY DEF Carries
<1>3. \/ msg.usage = <<>> /\ CallFill(raw) = 0
      \/ \E a, b, c, d : msg.usage = <<Usage(a, b, c, d)>> /\ msg.type = "result" /\ CallFill(raw) = 0
  BY <1>2
<1> QED
  BY <1>1, <1>3, ShortSequences DEF Bears, Carries

LEMMA CarryingMessages ==
  ASSUME NEW t, NEW a, NEW b
  PROVE  /\ Carries(Message(t), t, <<>>, <<>>, <<>>)
         /\ Carries([Message(t) EXCEPT !.content = a], t, <<>>, <<>>, <<>>)
         /\ Carries([Message(t) EXCEPT !.resume = a], t, <<>>, <<>>, <<>>)
         /\ Carries([Message(t) EXCEPT !.stop = a], t, <<>>, <<>>, <<>>)
         /\ Carries([Message(t) EXCEPT !.code = a, !.content = b], t, <<>>, <<>>, <<>>)
         /\ Carries([Message(t) EXCEPT !.tool = <<a>>], t, <<>>, <<a>>, <<>>)
         /\ Carries([Message(t) EXCEPT !.tool = <<a>>, !.content = b], t, <<>>, <<a>>, <<>>)
         /\ Carries([Message(t) EXCEPT !.usage = a], t, a, <<>>, <<>>)
         /\ Carries([Message(t) EXCEPT !.usage = a, !.stop = b], t, a, <<>>, <<>>)
<1>0. /\ DOMAIN Message(t) = DOMAIN Blank /\ Message(t).type = t /\ Message(t).usage = <<>>
      /\ Message(t).tool = <<>> /\ Message(t).tools = <<>>
  BY DEF Message, Blank
<1>1. DOMAIN Blank = {"type", "content", "resume", "parent", "code", "stop", "isError", "denials",
                      "tool", "tools", "tasks", "usage"}
  BY DEF Blank
<1>2. /\ Carries(Message(t), t, <<>>, <<>>, <<>>)
      /\ Carries([Message(t) EXCEPT !.content = a], t, <<>>, <<>>, <<>>)
  BY <1>0, <1>1 DEF Carries
<1>3. /\ Carries([Message(t) EXCEPT !.resume = a], t, <<>>, <<>>, <<>>)
      /\ Carries([Message(t) EXCEPT !.stop = a], t, <<>>, <<>>, <<>>)
  BY <1>0, <1>1 DEF Carries
<1>4. Carries([Message(t) EXCEPT !.code = a, !.content = b], t, <<>>, <<>>, <<>>)
  BY <1>0, <1>1 DEF Carries
<1>5. Carries([Message(t) EXCEPT !.tool = <<a>>], t, <<>>, <<a>>, <<>>)
  BY <1>0, <1>1 DEF Carries
<1>6. Carries([Message(t) EXCEPT !.tool = <<a>>, !.content = b], t, <<>>, <<a>>, <<>>)
  BY <1>0, <1>1 DEF Carries
<1>7. Carries([Message(t) EXCEPT !.usage = a], t, a, <<>>, <<>>)
  BY <1>0, <1>1 DEF Carries
<1>8. Carries([Message(t) EXCEPT !.usage = a, !.stop = b], t, a, <<>>, <<>>)
  BY <1>0, <1>1 DEF Carries
<1> QED
  BY <1>2, <1>3, <1>4, <1>5, <1>6, <1>7, <1>8

LEMMA ClaudeCarrying ==
  ASSUME NEW raw, NEW t, NEW a, NEW b, NEW c, NEW d, NEW e
  PROVE  /\ Carries(Base(raw, t), t, <<>>, <<>>, <<>>)
         /\ Carries([Base(raw, t) EXCEPT !.content = a], t, <<>>, <<>>, <<>>)
         /\ Carries([Base(raw, t) EXCEPT !.resume = a], t, <<>>, <<>>, <<>>)
         /\ Carries([Base(raw, t) EXCEPT !.tasks = a], t, <<>>, <<>>, <<>>)
         /\ Carries([Base(raw, t) EXCEPT !.tool = <<a>>], t, <<>>, <<a>>, <<>>)
         /\ Carries([Base(raw, t) EXCEPT !.code = a, !.content = b], t, <<>>, <<>>, <<>>)
         /\ Carries([Base(raw, t) EXCEPT !.content = a, !.stop = b], t, <<>>, <<>>, <<>>)
         /\ Carries([Message(t) EXCEPT !.parent = a, !.content = b, !.tasks = c], t, <<>>, <<>>, <<>>)
         /\ Carries([Base(raw, t) EXCEPT !.content = a, !.tools = b, !.tool = c, !.usage = d],
                    t, d, c, b)
         /\ Carries([Base(raw, t) EXCEPT !.content = a, !.usage = b, !.stop = c, !.denials = d,
                                         !.isError = e], t, b, <<>>, <<>>)
<1>0. /\ DOMAIN Base(raw, t) = DOMAIN Blank
      /\ Base(raw, t).type = t /\ Base(raw, t).usage = <<>>
      /\ Base(raw, t).tool = <<>> /\ Base(raw, t).tools = <<>>
  BY DEF Base, Message, Blank
<1>1. DOMAIN Blank = {"type", "content", "resume", "parent", "code", "stop", "isError", "denials",
                      "tool", "tools", "tasks", "usage"}
  BY DEF Blank
<1>2. /\ Carries(Base(raw, t), t, <<>>, <<>>, <<>>)
      /\ Carries([Base(raw, t) EXCEPT !.content = a], t, <<>>, <<>>, <<>>)
  BY <1>0, <1>1 DEF Carries
<1>3. /\ Carries([Base(raw, t) EXCEPT !.resume = a], t, <<>>, <<>>, <<>>)
      /\ Carries([Base(raw, t) EXCEPT !.tasks = a], t, <<>>, <<>>, <<>>)
  BY <1>0, <1>1 DEF Carries
<1>4. Carries([Base(raw, t) EXCEPT !.tool = <<a>>], t, <<>>, <<a>>, <<>>)
  BY <1>0, <1>1 DEF Carries
<1>5. /\ Carries([Base(raw, t) EXCEPT !.code = a, !.content = b], t, <<>>, <<>>, <<>>)
      /\ Carries([Base(raw, t) EXCEPT !.content = a, !.stop = b], t, <<>>, <<>>, <<>>)
  BY <1>0, <1>1 DEF Carries
<1>6. Carries([Message(t) EXCEPT !.parent = a, !.content = b, !.tasks = c], t, <<>>, <<>>, <<>>)
  BY DEF Carries, Message, Blank
<1>7. Carries([Base(raw, t) EXCEPT !.content = a, !.tools = b, !.tool = c, !.usage = d], t, d, c, b)
  BY <1>0, <1>1 DEF Carries
<1>8. Carries([Base(raw, t) EXCEPT !.content = a, !.usage = b, !.stop = c, !.denials = d,
                                   !.isError = e], t, b, <<>>, <<>>)
  BY SMTT(40), <1>0, <1>1 DEF Carries
<1> QED
  BY <1>2, <1>3, <1>4, <1>5, <1>6, <1>7, <1>8

\* The messages with neither.
LEMMA BareMessages ==
  ASSUME NEW t, NEW a, NEW b
  PROVE  /\ Bare(Message(t))
         /\ Bare([Message(t) EXCEPT !.content = a])
         /\ Bare([Message(t) EXCEPT !.resume = a])
         /\ Bare([Message(t) EXCEPT !.stop = a])
         /\ Bare([Message(t) EXCEPT !.code = a, !.content = b])
BY ZenonT(60), CarryingMessages DEF Bare

LEMMA ClaudeBare ==
  ASSUME NEW raw, NEW t, NEW a, NEW b, NEW c
  PROVE  /\ Bare([Base(raw, t) EXCEPT !.content = a])
         /\ Bare([Base(raw, t) EXCEPT !.resume = a])
         /\ Bare([Base(raw, t) EXCEPT !.tasks = a])
         /\ Bare([Base(raw, t) EXCEPT !.code = a, !.content = b])
         /\ Bare([Base(raw, t) EXCEPT !.content = a, !.stop = b])
         /\ Bare([Message(t) EXCEPT !.parent = a, !.content = b, !.tasks = c])
BY ClaudeCarrying DEF Bare

\* A subagent's message keeps its tool calls and loses its usage.
LEMMA DemotedCarries ==
  ASSUME NEW raw, NEW msg, NEW t, NEW u, NEW tool, NEW tools, Carries(msg, t, u, tool, tools)
  PROVE  Carries(Demoted(raw, msg),
                 IF IsSubagentEvent(raw) /\ t = "result" THEN "task_result" ELSE t,
                 IF IsSubagentEvent(raw) THEN <<>> ELSE u, tool, tools)
<1>1. PICK bare : bare = [msg EXCEPT !.usage = <<>>]
  OBVIOUS
<1>2. Carries(bare, t, <<>>, tool, tools) /\ msg.type = t
  BY <1>1 DEF Carries
<1>3. \A tasks : Carries([bare EXCEPT !.type = "task_result", !.stop = "", !.isError = FALSE,
                                      !.denials = <<>>, !.tasks = tasks],
                         "task_result", <<>>, tool, tools)
  BY <1>2 DEF Carries
<1>4. CASE ~IsSubagentEvent(raw)
  <2>1. Demoted(raw, msg) = msg
    BY <1>4 DEF Demoted
  <2> QED
    BY <1>4, <2>1
<1>5. CASE IsSubagentEvent(raw) /\ t # "result"
  <2>1. Demoted(raw, msg) = bare
    BY <1>1, <1>2, <1>5 DEF Demoted
  <2> QED
    BY <1>2, <1>5, <2>1
<1>6. CASE IsSubagentEvent(raw) /\ t = "result"
  <2>1. \E tasks : Demoted(raw, msg) =
          [bare EXCEPT !.type = "task_result", !.stop = "", !.isError = FALSE,
                       !.denials = <<>>, !.tasks = tasks]
    BY <1>1, <1>2, <1>6 DEF Demoted
  <2> QED
    BY <1>3, <1>6, <2>1
<1> QED
  BY <1>4, <1>5, <1>6

LEMMA CodexBears ==
  ASSUME backend = "codex", NEW raw, NEW c
  PROVE  Bears(raw, ParseLine(backend, raw, c).msg)
<1>0. PICK type : type = GetString(GetMap(raw, "item"), "type")
  OBVIOUS
<1>1. /\ CallFill(raw) = 0
      /\ CallCount(raw) = IF /\ raw.type = "item.completed"
                             /\ type \in {"command_execution", "file_changes", "web_search", "mcp_tool_call"}
                          THEN 1 ELSE 0
  BY <1>0 DEF CallFill, CallCount
<1>2. /\ \A t : Bare(Message(t))
      /\ \A t, a : Bare([Message(t) EXCEPT !.content = a])
      /\ \A t, a : Bare([Message(t) EXCEPT !.resume = a])
      /\ \A t, a : Carries([Message(t) EXCEPT !.tool = <<a>>], t, <<>>, <<a>>, <<>>)
  BY BareMessages, CarryingMessages
<1>3. CASE raw.type = "turn.completed"
  <2>1. ParseLine(backend, raw, c).msg = [Message("result") EXCEPT !.usage = CodexUsage(raw)]
    BY <1>3 DEF ParseLine, Unchanged, CodexEvent
  <2>2. PICK u : u = CodexUsage(raw)
    OBVIOUS
  <2>3. u = <<>> \/ \E a, b, d, e : u = <<Usage(a, b, d, e)>>
    BY SMTT(40), <2>2 DEF CodexUsage
  <2>4. Carries([Message("result") EXCEPT !.usage = u], "result", u, <<>>, <<>>)
    BY CarryingMessages
  <2>5. CallFill(raw) = 0 /\ CallCount(raw) = 0
    BY <1>1, <1>3
  <2> QED
    BY <2>1, <2>2, <2>3, <2>4, <2>5, BearsUsage
<1>4. CASE raw.type = "thread.started"
  <2>1. ParseLine(backend, raw, c).msg = ThreadStarted(raw, c).msg
    BY <1>4 DEF ParseLine
  <2>2. Bare(ThreadStarted(raw, c).msg)
    BY <1>2 DEF ThreadStarted
  <2>3. CallFill(raw) = 0 /\ CallCount(raw) = 0
    BY <1>1, <1>4
  <2> QED
    BY <2>1, <2>2, <2>3, BearsNothing
<1>5. ASSUME NEW m
      PROVE  /\ Bare(CodexError(m))
             /\ \A a : Bare([CodexError(m) EXCEPT !.content = a])
  <2>1. Bare(CodexError(m))
    BY BareMessages, Zenon DEF CodexError
  <2> QED
    BY <2>1 DEF Bare, Carries
<1>6. CASE raw.type = "item.completed"
  <2>1. PICK item : item = GetMap(raw, "item")
    OBVIOUS
  <2>2. ParseLine(backend, raw, c).msg = CodexItem(item) /\ type = GetString(item, "type")
    BY <1>0, <1>6, <2>1 DEF ParseLine, Unchanged, CodexEvent
  <2>3. CASE type \in {"command_execution", "file_changes", "web_search", "mcp_tool_call"}
    <3>1. \E call : CodexItem(item) = [Message("tool_result") EXCEPT !.tool = <<call>>]
      <4>1. CASE type = "mcp_tool_call"
        BY <2>2, <4>1 DEF CodexItem
      <4>2. CASE type \in {"command_execution", "file_changes", "web_search"}
        BY <2>2, <4>2 DEF CodexItem
      <4> QED
        BY <2>3, <4>1, <4>2
    <3>2. CallFill(raw) = 0 /\ CallCount(raw) = 1
      BY <1>1, <1>6, <2>3
    <3> QED
      BY <1>2, <2>2, <3>1, <3>2, BearsOneCall
  <2>4. CASE type \notin {"command_execution", "file_changes", "web_search", "mcp_tool_call"}
    <3>1. Bare(CodexItem(item))
      <4>1. CASE type = "error"
        BY <1>5, <2>2, <4>1 DEF CodexItem
      <4>2. CASE type = "agent_message"
        BY <1>2, <2>2, <4>2 DEF CodexItem
      <4>3. CASE type = "reasoning"
        BY <1>2, <2>2, <4>3 DEF CodexItem
      <4>4. CASE type \notin {"error", "agent_message", "reasoning"}
        BY <1>2, <2>2, <2>4, <4>4 DEF CodexItem
      <4> QED
        BY <4>1, <4>2, <4>3, <4>4
    <3>2. CallFill(raw) = 0 /\ CallCount(raw) = 0
      BY <1>1, <2>4
    <3> QED
      BY <2>2, <3>1, <3>2, BearsNothing
  <2> QED
    BY <2>3, <2>4
<1>7. CASE raw.type \notin {"turn.completed", "thread.started", "item.completed"}
  <2>1. ParseLine(backend, raw, c).msg = CodexEvent(raw)
    BY <1>7 DEF ParseLine, Unchanged
  <2>2. Bare(CodexEvent(raw))
    BY <1>2, <1>5, <1>7 DEF CodexEvent
  <2>3. CallFill(raw) = 0 /\ CallCount(raw) = 0
    BY <1>1, <1>7
  <2> QED
    BY <2>1, <2>2, <2>3, BearsNothing
<1> QED
  BY <1>3, <1>4, <1>6, <1>7

LEMMA OpenCodeBears ==
  ASSUME backend = "opencode", NEW raw, NEW c
  PROVE  Bears(raw, ParseLine(backend, raw, c).msg)
<1>1. CallFill(raw) = 0 /\ CallCount(raw) = IF raw.type = "tool_use" THEN 1 ELSE 0
  BY DEF CallFill, CallCount
<1>2. /\ \A t : Bare(Message(t))
      /\ \A t, a : Bare([Message(t) EXCEPT !.content = a])
      /\ \A t, a : Bare([Message(t) EXCEPT !.resume = a])
      /\ \A t, a, b : Bare([Message(t) EXCEPT !.code = a, !.content = b])
      /\ \A t, a, b : Carries([Message(t) EXCEPT !.tool = <<a>>, !.content = b], t, <<>>, <<a>>, <<>>)
      /\ \A t, a, b : Carries([Message(t) EXCEPT !.usage = a, !.stop = b], t, a, <<>>, <<>>)
  BY BareMessages, CarryingMessages
<1>3. CASE raw.type = "tool_use"
  <2>1. ParseLine(backend, raw, c).msg = OpenCodeToolUse(raw)
    BY <1>3 DEF ParseLine, Unchanged, OpenCodeEvent
  <2>2. \E call : Carries(OpenCodeToolUse(raw), "tool_result", <<>>, <<call>>, <<>>)
    BY <1>2, Zenon DEF OpenCodeToolUse
  <2> QED
    BY <1>1, <1>3, <2>1, <2>2, BearsOneCall
<1>4. CASE raw.type = "step_finish" /\ GetString(GetMap(raw, "part"), "reason") # "tool-calls"
  <2>1. ParseLine(backend, raw, c).msg = StepFinish(raw)
    BY <1>4 DEF ParseLine, Unchanged, OpenCodeEvent
  <2>2. PICK u : u = OpenCodeTokens(raw)
    OBVIOUS
  <2>3. u = <<>> \/ \E a, b, d, e : u = <<Usage(a, b, d, e)>>
    BY <2>2, Zenon DEF OpenCodeTokens
  <2>4. Carries(StepFinish(raw), "result", u, <<>>, <<>>)
    BY <1>2, <1>4, <2>2, Zenon DEF StepFinish
  <2>5. CallFill(raw) = 0 /\ CallCount(raw) = 0
    BY <1>1, <1>4
  <2> QED
    BY <2>1, <2>3, <2>4, <2>5, BearsUsage
<1>5. CASE raw.type # "tool_use" /\ ~(raw.type = "step_finish"
                                      /\ GetString(GetMap(raw, "part"), "reason") # "tool-calls")
  <2>1. Bare(ParseLine(backend, raw, c).msg)
    <3>1. CASE raw.type = "step_start"
      <4>1. ParseLine(backend, raw, c).msg = StepStart(raw, c).msg
        BY <3>1 DEF ParseLine
      <4>2. /\ Bare([Message("system") EXCEPT !.content = "step_start"]) /\ Bare(Message("init"))
            /\ \A a : Bare([Message("init") EXCEPT !.resume = a])
        BY BareMessages
      <4> QED
        BY <4>1, <4>2 DEF StepStart
    <3>2. CASE raw.type # "step_start"
      <4>1. ParseLine(backend, raw, c).msg = OpenCodeEvent(raw)
        BY <3>2 DEF ParseLine, Unchanged
      <4>2. Bare(OpenCodeError(raw))
        BY <1>2, Zenon DEF OpenCodeError
      <4>3. raw.type = "step_finish" => Bare(StepFinish(raw))
        BY <1>2, <1>5 DEF StepFinish
      <4>4. Bare(OpenCodeEvent(raw))
        BY <1>2, <1>5, <4>2, <4>3 DEF OpenCodeEvent
      <4> QED
        BY <4>1, <4>4
    <3> QED
      BY <3>1, <3>2
  <2>2. CallFill(raw) = 0 /\ CallCount(raw) = 0
    BY <1>1, <1>5
  <2> QED
    BY <2>1, <2>2, BearsNothing
<1> QED
  BY <1>3, <1>4, <1>5

LEMMA AgyBears ==
  ASSUME backend = "agy", NEW raw, NEW c
  PROVE  Bears(raw, ParseLine(backend, raw, c).msg)
<1>1. CallFill(raw) = 0 /\ CallCount(raw) = 0
  BY SMTT(40) DEF CallFill, CallCount
<1>2. /\ \A t : Bare(Message(t))
      /\ \A t, a : Bare([Message(t) EXCEPT !.content = a])
      /\ \A t, a : Bare([Message(t) EXCEPT !.resume = a])
      /\ \A t, a : Bare([Message(t) EXCEPT !.stop = a])
  BY BareMessages, CarryingMessages
<1>3. Bare(ParseLine(backend, raw, c).msg)
  <2>1. CASE raw.type = "agy_session"
    <3>1. ParseLine(backend, raw, c).msg = AgySession(raw, c).msg
      BY <2>1 DEF ParseLine
    <3> QED
      BY <1>2, <3>1 DEF AgySession
  <2>2. CASE raw.type # "agy_session"
    <3>1. ParseLine(backend, raw, c).msg = AgyText(raw)
      BY <2>2 DEF ParseLine, Unchanged
    <3>2. \/ AgyText(raw) = [Message("result") EXCEPT !.stop = "end_turn"]
          \/ AgyText(raw) = [Message("text") EXCEPT !.content = "text"]
      BY DEF AgyText
    <3> QED
      BY ONLY <1>2, <3>1, <3>2
  <2> QED
    BY <2>1, <2>2
<1> QED
  BY <1>1, <1>3, BearsNothing

\* The usage of one of claude's lines.
LEMMA UsageExtracted ==
  ASSUME NEW source
  PROVE  LET u == GetMap(source, "usage")
             a == GetInt(u, "input_tokens")
             c == GetInt(u, "cache_read_input_tokens")
             d == GetInt(u, "cache_creation_input_tokens")
         IN \/ ExtractTokenUsage(source) = <<>> /\ a = 0 /\ c = 0 /\ d = 0
            \/ \E b : ExtractTokenUsage(source) = <<Usage(a, b, c, d)>>
<1>1. PICK u, a, b, c, d : /\ u = GetMap(source, "usage")
                           /\ a = GetInt(u, "input_tokens") /\ b = GetInt(u, "output_tokens")
                           /\ c = GetInt(u, "cache_read_input_tokens")
                           /\ d = GetInt(u, "cache_creation_input_tokens")
  OBVIOUS
<1>2. \/ ExtractTokenUsage(source) = <<>> /\ Usage(a, b, c, d) = Usage(0, 0, 0, 0)
      \/ ExtractTokenUsage(source) = <<Usage(a, b, c, d)>>
  BY <1>1, Zenon DEF ExtractTokenUsage
<1>3. Usage(a, b, c, d) = Usage(0, 0, 0, 0) => a = 0 /\ c = 0 /\ d = 0
  <2>1. /\ Usage(a, b, c, d).input = a /\ Usage(a, b, c, d).cacheRead = c
        /\ Usage(a, b, c, d).cacheWrite = d
        /\ Usage(0, 0, 0, 0).input = 0 /\ Usage(0, 0, 0, 0).cacheRead = 0
        /\ Usage(0, 0, 0, 0).cacheWrite = 0
    BY DEF Usage
  <2> QED
    BY <2>1
<1> QED
  BY <1>1, <1>2, <1>3

\* The lines of claude's that are neither results nor model calls.
LEMMA ClaudeQuiet ==
  ASSUME NEW raw
  PROVE  /\ Bare(ClaudeSystem(raw))
         /\ Bare(ClaudeInit(raw))
         /\ Bare(ClaudeError(raw))
         /\ Bare(ClaudeStreamEvent(raw))
         /\ Bare(ClaudeUnknown(raw))
<1>1. /\ \A t, a : Bare([Base(raw, t) EXCEPT !.content = a])
      /\ \A t, a : Bare([Base(raw, t) EXCEPT !.resume = a])
      /\ \A t, a : Bare([Base(raw, t) EXCEPT !.tasks = a])
      /\ \A t, a, b : Bare([Base(raw, t) EXCEPT !.code = a, !.content = b])
      /\ \A t, a, b : Bare([Base(raw, t) EXCEPT !.content = a, !.stop = b])
      /\ \A t, a, b, c : Bare([Message(t) EXCEPT !.parent = a, !.content = b, !.tasks = c])
  BY ClaudeBare
<1>2. Bare(ClaudeInit(raw))
  BY <1>1, Zenon DEF ClaudeInit
<1>3. Bare(ClaudeError(raw))
  BY <1>1, Zenon DEF ClaudeError
<1>4. Bare(ClaudeUnknown(raw))
  BY <1>1, Zenon DEF ClaudeUnknown
<1>5. Bare(ClaudeSystem(raw))
  <2>1. Bare(ClaudeBackgroundTasks(raw))
    BY <1>1, Zenon DEF ClaudeBackgroundTasks
  <2>2. Bare(ClaudeTaskNotification(raw))
    <3>1. CASE GetString(raw, "status") \notin TerminalTaskStatuses
      BY <1>1, <3>1, Zenon DEF ClaudeTaskNotification
    <3>2. CASE GetString(raw, "status") \in TerminalTaskStatuses
      BY <1>1, <3>2, ZenonT(60) DEF ClaudeTaskNotification
    <3> QED
      BY <3>1, <3>2
  <2>3. \A a : Bare([Base(raw, "system") EXCEPT !.content = a])
    BY ClaudeBare
  <2> QED
    BY <1>2, <2>1, <2>2, <2>3 DEF ClaudeSystem
<1>6. Bare(ClaudeStreamEvent(raw))
  <2>1. \A event : Bare(ClaudeContentDelta(raw, event))
    BY <1>1 DEF ClaudeContentDelta
  <2> QED
    BY <1>1, <2>1 DEF ClaudeStreamEvent
<1> QED
  BY <1>2, <1>3, <1>4, <1>5, <1>6, ZenonT(60)

\* A demoted message carries no more than the message.
LEMMA DemotedBears ==
  ASSUME NEW raw, NEW msg, Bare(msg), CallFill(raw) = 0, CallCount(raw) = 0
  PROVE  Bears(raw, Demoted(raw, msg))
<1>1. PICK t : Carries(msg, t, <<>>, <<>>, <<>>)
  BY DEF Bare
<1>2. Carries(Demoted(raw, msg), IF IsSubagentEvent(raw) /\ t = "result" THEN "task_result" ELSE t,
              IF IsSubagentEvent(raw) THEN <<>> ELSE <<>>, <<>>, <<>>)
  BY <1>1, DemotedCarries
<1>3. Bare(Demoted(raw, msg))
  BY <1>2 DEF Bare
<1> QED
  BY <1>3, BearsNothing

\* What the agent's lines with a model call in them look like.
LEMMA AssistantLines ==
  ASSUME scene \in Scenes, NEW line \in Lines[scene], line.raw.type = "assistant"
  PROVE  LET message == GetMap(line.raw, "message")
             content == GetList(message, "content")
             usage   == GetMap(message, "usage")
         IN /\ content \in Seq({content[i] : i \in DOMAIN content})
            /\ GetInt(usage, "input_tokens") \in Int
            /\ GetInt(usage, "cache_read_input_tokens") \in Int
            /\ GetInt(usage, "cache_creation_input_tokens") \in Int
BY StreamAssumption

LEMMA ClaudeBears ==
  ASSUME Types, backend = "claude", NEW line \in Lines[scene], NEW raw, raw = line.raw, NEW c
  PROVE  Bears(raw, ParseLine(backend, raw, c).msg)
<1>1. ParseLine(backend, raw, c).msg = ClaudeLine(raw)
  BY DEF ParseLine, Unchanged
<1>2. /\ raw.type # "assistant" => CallFill(raw) = 0
      /\ raw.type \notin {"assistant", "tool"} => CallCount(raw) = 0
      /\ raw.type = "tool" => CallCount(raw) = 1
  BY DEF CallFill, CallCount
<1>3. CASE raw.type \notin {"assistant", "tool", "result"}
  <2>1. PICK msg : /\ ClaudeLine(raw) = Demoted(raw, msg)
                   /\ msg \in {ClaudeSystem(raw), ClaudeInit(raw), ClaudeError(raw),
                               ClaudeStreamEvent(raw), ClaudeUnknown(raw)}
    BY <1>3 DEF ClaudeLine
  <2>2. Bare(msg)
    BY <2>1, ClaudeQuiet
  <2> QED
    BY <1>1, <1>2, <1>3, <2>1, <2>2, DemotedBears
<1>4. CASE raw.type = "tool"
  <2>1. ClaudeLine(raw) = Demoted(raw, ClaudeTool(raw))
    BY <1>4 DEF ClaudeLine
  <2>2. PICK call : Carries(ClaudeTool(raw), "tool_result", <<>>, <<call>>, <<>>)
    BY ClaudeCarrying, Zenon DEF ClaudeTool
  <2>3. Carries(ClaudeLine(raw), "tool_result", <<>>, <<call>>, <<>>)
    <3>1. "tool_result" # "result"
      OBVIOUS
    <3>2. Carries(Demoted(raw, ClaudeTool(raw)),
                  IF IsSubagentEvent(raw) /\ "tool_result" = "result" THEN "task_result" ELSE "tool_result",
                  IF IsSubagentEvent(raw) THEN <<>> ELSE <<>>, <<call>>, <<>>)
      BY <2>2, DemotedCarries
    <3> QED
      BY <2>1, <3>1, <3>2
  <2>4. CallFill(raw) = 0 /\ CallCount(raw) = 1
    BY <1>2, <1>4
  <2> QED
    BY <1>1, <2>3, <2>4, BearsOneCall
<1>5. CASE raw.type = "result"
  <2>1. ClaudeLine(raw) = Demoted(raw, ClaudeResult(raw))
    BY <1>5 DEF ClaudeLine
  <2>2. PICK u : u = ExtractTokenUsage(raw)
    OBVIOUS
  <2>3. u = <<>> \/ \E a, b, d, e : u = <<Usage(a, b, d, e)>>
    BY <2>2, UsageExtracted
  <2>4. Carries(ClaudeResult(raw), "result", u, <<>>, <<>>)
    <3>1. \A a, b, d, e, f : Carries([Base(raw, "result") EXCEPT !.content = a, !.usage = b, !.stop = d,
                                          !.denials = e, !.isError = f], "result", b, <<>>, <<>>)
      BY ClaudeCarrying
    <3> QED
      BY <2>2, <3>1, ZenonT(60) DEF ClaudeResult
  <2>5. Carries(ClaudeLine(raw), IF IsSubagentEvent(raw) /\ "result" = "result" THEN "task_result" ELSE "result",
                IF IsSubagentEvent(raw) THEN <<>> ELSE u, <<>>, <<>>)
    BY <2>1, <2>4, DemotedCarries
  <2>6. CallFill(raw) = 0 /\ CallCount(raw) = 0
    BY <1>2, <1>5
  <2>7. CASE IsSubagentEvent(raw)
    <3>1. Bare(ClaudeLine(raw))
      BY <2>5, <2>7 DEF Bare
    <3> QED
      BY <1>1, <2>6, <3>1, BearsNothing
  <2>8. CASE ~IsSubagentEvent(raw)
    <3>1. Carries(ClaudeLine(raw), "result", u, <<>>, <<>>)
      BY <2>5, <2>8
    <3> QED
      BY <1>1, <2>3, <2>6, <3>1, BearsUsage
  <2> QED
    BY <2>7, <2>8
<1>6. CASE raw.type = "assistant"
  <2>1. ClaudeLine(raw) = Demoted(raw, ClaudeAssistant(raw))
    BY <1>6 DEF ClaudeLine
  <2>2. PICK message, content, calls, u :
          /\ message = GetMap(raw, "message") /\ content = GetList(message, "content")
          /\ calls = ToolCalls(raw) /\ u = ExtractTokenUsage(message)
    OBVIOUS
  <2>3. Proper(content)
    <3>1. scene \in Scenes
      BY DEF Types
    <3>2. GetList(GetMap(line.raw, "message"), "content") = content
      BY <2>2
    <3> QED
      BY <1>6, <3>1, <3>2, AssistantLines DEF Proper
  <2>4. PICK blocks : blocks = Blocks(raw, "tool_use")
    OBVIOUS
  <2>5. Len(blocks) \in Nat /\ DOMAIN blocks = 1..Len(blocks)
    BY <2>2, <2>3, <2>4 DEF Blocks, Proper
  <2>6. CallCount(raw) = Len(blocks)
    BY <1>6, <2>2, <2>4 DEF CallCount, ToolUses, Blocks
  <2>7. Proper(calls) /\ Len(calls) = CallCount(raw)
    <3>1. calls = [i \in 1..Len(blocks) |-> ExtractToolCall(blocks[i])]
      BY <2>2, <2>4, <2>5 DEF ToolCalls
    <3>2. PICK S : S = {ExtractToolCall(blocks[i]) : i \in 1..Len(blocks)}
      OBVIOUS
    <3>3. calls \in [1..Len(blocks) -> S]
      BY <3>1, <3>2
    <3>4. calls \in Seq(S)
      BY <2>5, <3>3, SeqDef
    <3>5. Len(calls) = Len(blocks)
      BY <2>5, <3>3, <3>4, LenProperties
    <3> QED
      BY <2>6, <3>4, <3>5, ProperSequence
  <2>8. PICK t, one : /\ t \in {"text", "thinking"}
                      /\ one = IF calls = <<>> THEN <<>> ELSE <<Last(calls)>>
                      /\ Carries(ClaudeAssistant(raw), t, u, one, calls)
    <3>1. PICK one : one = IF calls = <<>> THEN <<>> ELSE <<Last(calls)>>
      OBVIOUS
    <3>2. /\ \A a : Carries([Base(raw, "text") EXCEPT !.content = a, !.tools = calls, !.tool = one,
                                                     !.usage = u], "text", u, one, calls)
          /\ \A a : Carries([Base(raw, "thinking") EXCEPT !.content = a, !.tools = calls, !.tool = one,
                                                         !.usage = u], "thinking", u, one, calls)
      BY ClaudeCarrying
    <3>3. \/ \E a : ClaudeAssistant(raw) =
               [Base(raw, "text") EXCEPT !.content = a, !.tools = calls, !.tool = one, !.usage = u]
          \/ \E a : ClaudeAssistant(raw) =
               [Base(raw, "thinking") EXCEPT !.content = a, !.tools = calls, !.tool = one, !.usage = u]
      BY <2>2, <3>1, Zenon DEF ClaudeAssistant
    <3>4. \/ Carries(ClaudeAssistant(raw), "text", u, one, calls)
          \/ Carries(ClaudeAssistant(raw), "thinking", u, one, calls)
      BY ONLY <3>2, <3>3, Zenon
    <3> QED
      BY <3>1, <3>4
  <2>9. Carries(ClaudeLine(raw), t, IF IsSubagentEvent(raw) THEN <<>> ELSE u, one, calls)
    <3>1. t # "result"
      BY <2>8
    <3>2. Carries(Demoted(raw, ClaudeAssistant(raw)),
                  IF IsSubagentEvent(raw) /\ t = "result" THEN "task_result" ELSE t,
                  IF IsSubagentEvent(raw) THEN <<>> ELSE u, one, calls)
      BY <2>8, DemotedCarries
    <3> QED
      BY <2>1, <3>1, <3>2
  <2>10. PICK msg : msg = ClaudeLine(raw)
    OBVIOUS
  <2>11. /\ "type" \in DOMAIN msg /\ "usage" \in DOMAIN msg
         /\ "tool" \in DOMAIN msg /\ "tools" \in DOMAIN msg
         /\ msg.type = t /\ msg.usage = (IF IsSubagentEvent(raw) THEN <<>> ELSE u)
         /\ msg.tool = one /\ msg.tools = calls
    BY <2>9, <2>10 DEF Carries
  <2>12. Gathered(msg) = calls
    <3>1. ~IsDelta(t) /\ t # "background_tasks"
      BY <2>8 DEF IsDelta, Deltas
    <3> QED
      BY <2>8, <2>11, <3>1 DEF Gathered, CallsOf
  <2>13. \/ msg.usage = <<>> /\ CallFill(raw) = 0
         \/ \E a, b, d, e : /\ msg.usage = <<Usage(a, b, d, e)>>
                            /\ CallFill(raw) = Positives(a) + Positives(d) + Positives(e)
    <3>1. CASE IsSubagentEvent(raw)
      BY <2>11, <3>1 DEF CallFill
    <3>2. CASE ~IsSubagentEvent(raw)
      <4>1. PICK usage, a, d, e : /\ usage = GetMap(message, "usage")
                                  /\ a = GetInt(usage, "input_tokens")
                                  /\ d = GetInt(usage, "cache_read_input_tokens")
                                  /\ e = GetInt(usage, "cache_creation_input_tokens")
        OBVIOUS
      <4>2. CallFill(raw) = Positives(a) + Positives(d) + Positives(e)
        BY <1>6, <2>2, <3>2, <4>1 DEF CallFill
      <4>3. \/ u = <<>> /\ a = 0 /\ d = 0 /\ e = 0
            \/ \E b : u = <<Usage(a, b, d, e)>>
        BY <2>2, <4>1, UsageExtracted
      <4>4. Positives(0) + Positives(0) + Positives(0) = 0
        BY DEF Positives
      <4> QED
        BY <2>11, <3>2, <4>2, <4>3, <4>4
    <3> QED
      BY <3>1, <3>2
  <2>14. t \notin {"result", "init", "error", "context_window"}
    BY <2>8
  <2>15. Bears(raw, msg)
    BY <2>7, <2>11, <2>12, <2>13, <2>14 DEF Bears
  <2> QED
    BY <1>1, <2>10, <2>15
<1> QED
  BY <1>3, <1>4, <1>5, <1>6

\* Each line's message bears what the line does.
LEMMA LineBears ==
  ASSUME Types, NEW line \in Lines[scene], NEW c
  PROVE  Bears(line.raw, ParseLine(backend, line.raw, c).msg)
BY Backends, ClaudeBears, CodexBears, OpenCodeBears, AgyBears DEF Types

\* A line the backend cannot parse, or one it skips, reports no call of either
\* kind.
LEMMA MuteBears ==
  ASSUME Types, NEW line \in Lines[scene],
         Skipped(backend, line.raw) \/ Malformed(backend, line.raw)
  PROVE  CallFill(line.raw) = 0 /\ CallCount(line.raw) = 0
<1>1. "type" \in DOMAIN line.raw /\ backend \in {"claude", "codex", "opencode", "agy"}
  BY LineTypes, Backends DEF Types
<1>2. line.raw.type \in {"garbage", "null", "not_text", "", "blank", "turn.started", "item.started"}
  BY <1>1 DEF Malformed, Skipped, GetString
<1>3. line.raw.type \notin {"assistant", "tool", "tool_use", "item.completed"}
  BY <1>2
<1> QED
  BY <1>1, <1>3 DEF CallFill, CallCount

\* The fill of a call is a number of tokens.
LEMMA FillIsNatural ==
  ASSUME Types, NEW line \in Lines[scene]
  PROVE  CallFill(line.raw) \in Nat
<1>1. PICK raw, u : raw = line.raw /\ u = GetMap(GetMap(raw, "message"), "usage")
  OBVIOUS
<1>2. CASE backend = "claude" /\ raw.type = "assistant" /\ ~IsSubagentEvent(raw)
  <2>1. PICK a, c, d : /\ a = GetInt(u, "input_tokens") /\ c = GetInt(u, "cache_read_input_tokens")
                       /\ d = GetInt(u, "cache_creation_input_tokens")
    OBVIOUS
  <2>2. a \in Int /\ c \in Int /\ d \in Int
    BY <1>1, <1>2, <2>1, AssistantLines DEF Types
  <2>3. CallFill(raw) = Positives(a) + Positives(c) + Positives(d)
    BY <1>1, <1>2, <2>1 DEF CallFill
  <2> QED
    BY <1>1, <2>2, <2>3 DEF Positives
<1>3. CASE ~(backend = "claude" /\ raw.type = "assistant" /\ ~IsSubagentEvent(raw))
  BY <1>1, <1>3 DEF CallFill
<1> QED
  BY <1>2, <1>3

\* A context window made up for a call of this fill.
Window(w, fill) ==
  /\ w.type = "context_window" /\ w.usage # <<>> /\ w.usage[1].used = fill
  /\ Gathered(w) = <<>>

\* What carrying the reason leaves of a message.
LEMMA CarryKeeps ==
  ASSUME NEW msg, NEW carried, NEW t, NEW u, NEW tool, NEW tools, Carries(msg, t, u, tool, tools)
  PROVE  Carries(CarryForward(msg, carried).msg, t, u, tool, tools)
<1>1. \A stop : Carries([msg EXCEPT !.stop = stop], t, u, tool, tools)
  BY DEF Carries
<1>2. CarryForward(msg, carried).msg = msg
      \/ \E stop : CarryForward(msg, carried).msg = [msg EXCEPT !.stop = stop]
  BY DEF CarryForward
<1> QED
  BY <1>1, <1>2

\* A value for the fill goes on the usage, when there is one.
LEMMA UsedGiven ==
  ASSUME NEW msg, NEW used, NEW t, NEW u, NEW tool, NEW tools, Carries(msg, t, u, tool, tools)
  PROVE  /\ u = <<>> => WithUsed(msg, used) = msg
         /\ \A a, b, c, d : u = <<Usage(a, b, c, d)>> =>
              Carries(WithUsed(msg, used), t, <<[Usage(a, b, c, d) EXCEPT !.used = used]>>, tool, tools)
<1>1. u = <<>> => WithUsed(msg, used) = msg
  BY DEF WithUsed, Carries
<1>2. ASSUME NEW a, NEW b, NEW c, NEW d, u = <<Usage(a, b, c, d)>>
      PROVE  Carries(WithUsed(msg, used), t, <<[Usage(a, b, c, d) EXCEPT !.used = used]>>, tool, tools)
  <2>1. PICK n : n = Usage(a, b, c, d)
    OBVIOUS
  <2>2. n.used = 0
    BY <2>1 DEF Usage
  <2>3. msg.usage = <<n>> /\ msg.usage # <<>> /\ msg.usage[1] = n
    BY <1>2, <2>1 DEF Carries
  <2>4. WithUsed(msg, used) = [msg EXCEPT !.usage[1].used = used]
    BY <2>2, <2>3 DEF WithUsed
  <2>5. [msg.usage EXCEPT ![1].used = used] = <<[n EXCEPT !.used = used]>>
    BY <2>3
  <2>6. Carries([msg EXCEPT !.usage[1].used = used], t, [msg.usage EXCEPT ![1].used = used], tool, tools)
    BY DEF Carries
  <2> QED
    BY <2>1, <2>4, <2>5, <2>6
<1> QED
  BY <1>1, <1>2

LEMMA WindowMade ==
  ASSUME NEW u
  PROVE  LET w == [Message("context_window") EXCEPT !.usage = <<u>>]
         IN /\ w.type = "context_window" /\ w.usage = <<u>> /\ w.usage # <<>> /\ w.usage[1] = u
            /\ Gathered(w) = <<>>
<1>1. Carries([Message("context_window") EXCEPT !.usage = <<u>>], "context_window", <<u>>, <<>>, <<>>)
  BY CarryingMessages
<1>2. PICK w : w = [Message("context_window") EXCEPT !.usage = <<u>>]
  OBVIOUS
<1>3. w.type = "context_window" /\ w.usage = <<u>> /\ w.tool = <<>> /\ w.tools = <<>>
  BY <1>1, <1>2 DEF Carries
<1>4. Gathered(w) = <<>>
  BY <1>3 DEF Gathered, CallsOf
<1> QED
  BY SMTT(40), <1>2, <1>3, <1>4

\* A message with a fill is followed by its context window, one without by
\* nothing.
LEMMA WindowsMade ==
  ASSUME NEW msg, NEW t, NEW u, NEW tool, NEW tools, Carries(msg, t, u, tool, tools)
  PROVE  /\ u = <<>> \/ t \in {"result", "init", "error"} => SynthesizeContextWindow(msg) = <<>>
         /\ \A a, b, c, d, fill :
              /\ u = <<[Usage(a, b, c, d) EXCEPT !.used = fill]>> /\ fill \in Nat
              /\ t \notin {"result", "init", "error"}
              => IF fill > 0 THEN \E w : SynthesizeContextWindow(msg) = <<w>> /\ Window(w, fill)
                 ELSE SynthesizeContextWindow(msg) = <<>>
<1>0. msg.type = t /\ msg.usage = u
  BY DEF Carries
<1>1. ASSUME u = <<>> \/ t \in {"result", "init", "error"}
      PROVE  SynthesizeContextWindow(msg) = <<>>
  BY <1>0, <1>1 DEF SynthesizeContextWindow, ContextFill
<1>2. ASSUME NEW a, NEW b, NEW c, NEW d, NEW fill \in Nat,
             u = <<[Usage(a, b, c, d) EXCEPT !.used = fill]>>, t \notin {"result", "init", "error"}
      PROVE  IF fill > 0 THEN \E w : SynthesizeContextWindow(msg) = <<w>> /\ Window(w, fill)
             ELSE SynthesizeContextWindow(msg) = <<>>
  <2>1. PICK n : n = [Usage(a, b, c, d) EXCEPT !.used = fill]
    OBVIOUS
  <2>2. n.used = fill /\ n.size = 0
    BY <2>1 DEF Usage
  <2>3. msg.usage # <<>> /\ msg.usage[1] = n
    BY <1>0, <1>2, <2>1
  <2>4. CASE fill > 0
    <3>1. PICK shown : shown = [used |-> fill, size |-> 0]
      OBVIOUS
    <3>2. ContextFill(msg) = <<shown>> /\ shown.used = fill
      BY <2>2, <2>3, <2>4, <3>1 DEF ContextFill
    <3>3. PICK w : w = [Message("context_window") EXCEPT
              !.usage = <<[Usage(0, 0, 0, 0) EXCEPT !.used = shown.used, !.size = shown.size]>>]
      OBVIOUS
    <3>4. SynthesizeContextWindow(msg) = <<w>>
      <4>1. ContextFill(msg) # <<>> /\ ContextFill(msg)[1] = shown
        BY <3>2
      <4> QED
        BY <1>0, <1>2, <3>3, <4>1 DEF SynthesizeContextWindow
    <3>5. [Usage(0, 0, 0, 0) EXCEPT !.used = shown.used, !.size = shown.size].used = fill
      BY <3>2 DEF Usage
    <3>6. Window(w, fill)
      BY <3>3, <3>5, WindowMade DEF Window
    <3> QED
      BY <2>4, <3>4, <3>6
  <2>5. CASE ~(fill > 0)
    <3>1. ContextFill(msg) = <<>>
      BY <2>2, <2>3, <2>5 DEF ContextFill
    <3> QED
      BY <2>5, <3>1 DEF SynthesizeContextWindow
  <2> QED
    BY <2>4, <2>5
<1> QED
  BY <1>1, <1>2

\* What becomes of a message that bears what its line does: a result is given
\* the peak, any other its own call's fill, and it is this call that counts for
\* the peak and is shown in a context window.
LEMMA FillsTaken ==
  ASSUME NEW raw, NEW msg, Bears(raw, msg), CallFill(raw) \in Nat, NEW carried, NEW max \in Nat,
         NEW filled, filled = Filled(msg, carried, max),
         NEW after, after = ApplyContextFill(CarryForward(msg, carried).msg, max).peak
  PROVE  /\ filled.type = msg.type /\ Gathered(filled) = Gathered(msg)
         /\ msg.type = "result" /\ filled.usage # <<>> => filled.usage[1].used = max
         /\ msg.type = "context_window" => filled.usage = <<>>
         /\ msg.type \in {"result", "init", "error", "context_window"} => CallFill(raw) = 0
         /\ after = IF msg.type \in {"init", "result"} THEN 0
                    ELSE IF CallFill(raw) > max THEN CallFill(raw) ELSE max
         /\ IF CallFill(raw) > 0
              THEN \E w : SynthesizeContextWindow(filled) = <<w>> /\ Window(w, CallFill(raw))
              ELSE SynthesizeContextWindow(filled) = <<>>
<1>1. PICK t, u, tool, tools : Carries(msg, t, u, tool, tools)
  BY DEF Bears, Carries
<1>2. msg.type = t /\ msg.usage = u /\ msg.tool = tool /\ msg.tools = tools
  BY <1>1 DEF Carries
<1>3. PICK m : m = CarryForward(msg, carried).msg
  OBVIOUS
<1>4. Carries(m, t, u, tool, tools)
  BY <1>1, <1>3, CarryKeeps
<1>5. m.type = t /\ m.usage = u
  BY <1>4 DEF Carries
<1>6. /\ filled = ApplyContextFill(m, max).msg
      /\ after = ApplyContextFill(m, max).peak
  BY <1>3 DEF Filled
<1>7. ASSUME NEW v, Carries(filled, t, v, tool, tools)
      PROVE  filled.type = msg.type /\ Gathered(filled) = Gathered(msg) /\ filled.usage = v
  BY <1>2, <1>7 DEF Carries, Gathered, CallsOf
<1>8. CASE u = <<>>
  <2>1. CallFill(raw) = 0
    BY <1>2, <1>8 DEF Bears
  <2>2. filled = m
    <3>1. \A used : WithUsed(m, used) = m
      BY <1>5, <1>8 DEF WithUsed
    <3> QED
      BY <1>5, <1>6, <1>8, <3>1 DEF ApplyContextFill
  <2>3. after = IF t \in {"init", "result"} THEN 0 ELSE max
    BY <1>5, <1>6, <1>8 DEF ApplyContextFill
  <2>4. SynthesizeContextWindow(filled) = <<>>
    BY <1>4, <1>8, <2>2, WindowsMade
  <2>5. ~(0 > max)
    OBVIOUS
  <2> QED
    BY <1>2, <1>4, <1>7, <1>8, <2>1, <2>2, <2>3, <2>4, <2>5
<1>9. ASSUME NEW a, NEW b, NEW c, NEW d, u = <<Usage(a, b, c, d)>>,
             t = "result" /\ CallFill(raw) = 0
      PROVE  /\ filled.type = msg.type /\ Gathered(filled) = Gathered(msg)
             /\ filled.usage # <<>> => filled.usage[1].used = max
             /\ after = 0 /\ SynthesizeContextWindow(filled) = <<>>
  <2>1. filled = WithUsed(m, max) /\ after = 0
    BY <1>5, <1>6, <1>9 DEF ApplyContextFill
  <2>2. PICK n : n = [Usage(a, b, c, d) EXCEPT !.used = max]
    OBVIOUS
  <2>3. Carries(filled, t, <<n>>, tool, tools)
    BY <1>4, <1>9, <2>1, <2>2, UsedGiven
  <2>4. n.used = max
    BY <2>2 DEF Usage
  <2>5. filled.usage = <<n>>
    BY <1>7, <2>3
  <2>6. SynthesizeContextWindow(filled) = <<>>
    BY <1>9, <2>3, WindowsMade
  <2> QED
    BY <1>7, <2>1, <2>3, <2>4, <2>5, <2>6
<1>10. ASSUME NEW a, NEW b, NEW c, NEW d, u = <<Usage(a, b, c, d)>>,
              t \notin {"result", "init", "error", "context_window"},
              CallFill(raw) = Positives(a) + Positives(c) + Positives(d)
       PROVE  /\ filled.type = msg.type /\ Gathered(filled) = Gathered(msg)
              /\ after = IF CallFill(raw) > max THEN CallFill(raw) ELSE max
              /\ IF CallFill(raw) > 0
                   THEN \E w : SynthesizeContextWindow(filled) = <<w>> /\ Window(w, CallFill(raw))
                   ELSE SynthesizeContextWindow(filled) = <<>>
  <2>1. PICK n, fill : n = Usage(a, b, c, d) /\ fill = CallFill(raw)
    OBVIOUS
  <2>2. CallContextFill(n) = fill
    BY <1>10, <2>1 DEF CallContextFill, Usage
  <2>3. m.usage # <<>> /\ m.usage[1] = n
    BY <1>5, <1>10, <2>1
  <2>4. filled = WithUsed(m, fill) /\ after = IF fill > max THEN fill ELSE max
    BY <1>5, <1>6, <1>10, <2>2, <2>3 DEF ApplyContextFill
  <2>5. Carries(filled, t, <<[Usage(a, b, c, d) EXCEPT !.used = fill]>>, tool, tools)
    BY <1>4, <1>10, <2>4, UsedGiven
  <2>6. IF fill > 0 THEN \E w : SynthesizeContextWindow(filled) = <<w>> /\ Window(w, fill)
        ELSE SynthesizeContextWindow(filled) = <<>>
    <3>1. fill \in Nat /\ t \notin {"result", "init", "error"}
      BY <1>10, <2>1
    <3> QED
      BY <2>5, <3>1, WindowsMade
  <2> QED
    BY <1>7, <2>1, <2>4, <2>5, <2>6
<1>11. \/ u = <<>>
       \/ \E a, b, c, d :
            /\ u = <<Usage(a, b, c, d)>>
            /\ \/ t = "result" /\ CallFill(raw) = 0
               \/ /\ t \notin {"result", "init", "error", "context_window"}
                  /\ CallFill(raw) = Positives(a) + Positives(c) + Positives(d)
  BY <1>2 DEF Bears
<1>12. CASE t = "result" /\ CallFill(raw) = 0 /\ \E a, b, c, d : u = <<Usage(a, b, c, d)>>
  <2>1. "result" # "context_window" /\ ~(0 > 0)
    OBVIOUS
  <2> QED
    BY <1>2, <1>9, <1>12, <2>1
<1>13. CASE /\ t \notin {"result", "init", "error", "context_window"}
            /\ \E a, b, c, d : /\ u = <<Usage(a, b, c, d)>>
                               /\ CallFill(raw) = Positives(a) + Positives(c) + Positives(d)
  BY <1>2, <1>10, <1>13
<1> QED
  BY <1>8, <1>11, <1>12, <1>13

-----------------------------------------------------------------------------
(* The calls of a turn: whose fill its result has, which context windows   *)
(* and which tool calls are in it.                                         *)

\* What counts of a line taken: its subprocess, its calls of both kinds, and
\* the messages it led to that start the peak over.
Resets(i) ==
  {out[k].msg.type : k \in Emitted(i)} \cap
    (IF Malformed(backend, Raw(i)) THEN {"init", "result"} ELSE {"init", "result", "error"})

Marks ==
  [i \in 1..Len(heard) |->
     [scan |-> heard[i].scan, fill |-> CallFill(Raw(i)), count |-> CallCount(Raw(i)),
      resets |-> Resets(i)]]

\* The lines up to n of subprocess s since the peak started over.
CallsSince(marks, n, s) ==
  {j \in 1..n : /\ marks[j].scan = s /\ marks[j].resets \cap {"init", "result"} = {}
                /\ \A m \in (j + 1)..n : marks[m].resets = {}}

IsPeak(marks, p, lines) ==
  /\ p \in Nat
  /\ p = 0 \/ \E j \in lines : p = marks[j].fill
  /\ \A j \in lines : marks[j].fill \in 0..p

\* s[k] is the context window made up from the message before it.
Trails(marks, s, k) ==
  /\ k > 1 /\ s[k - 1].line = s[k].line /\ s[k - 1].msg.type # "result"
  /\ marks[s[k].line].fill > 0 /\ Window(s[k].msg, marks[s[k].line].fill)

\* s[k] is its line's own message, the first of it; when the line reports a
\* model call the window follows.
Leads(marks, s, k) ==
  /\ k > 1 => s[k - 1].line < s[k].line
  /\ Proper(Gathered(s[k].msg)) /\ Len(Gathered(s[k].msg)) = marks[s[k].line].count
  /\ s[k].msg.type = "context_window" => s[k].msg.usage = <<>>
  /\ marks[s[k].line].fill > 0 => k < Len(s) /\ Trails(marks, s, k + 1)

Sourced(marks, s) == \A k \in 1..Len(s) : Leads(marks, s, k) \/ Trails(marks, s, k)

Peaks(marks, s) ==
  \A k \in 1..Len(s) :
    LET msg == s[k].msg
        i   == s[k].line
    IN msg.type = "result" /\ msg.usage # <<>> =>
         IsPeak(marks, msg.usage[1].used, CallsSince(marks, i - 1, marks[i].scan))

\* The peak so far is that of the lines since it started over.
Peaked ==
  phase \in {"scanning", "replacing"} => IsPeak(Marks, peak, CallsSince(Marks, Len(heard), scan))

\* The one backend that reports model calls is never replaced while it runs.
Streamed == backend = "claude" => phase # "replacing"

Accounted == Lossless /\ Sourced(Marks, out) /\ Peaks(Marks, out) /\ Peaked /\ Streamed

\* The marks of the lines before a line stay as they are.
LEMMA CallsStay ==
  ASSUME NEW M, NEW N, NEW n \in Nat, \A j \in 1..n : N[j] = M[j], NEW s
  PROVE  /\ CallsSince(N, n, s) = CallsSince(M, n, s)
         /\ \A p : IsPeak(M, p, CallsSince(M, n, s)) => IsPeak(N, p, CallsSince(N, n, s))
<1>1. CallsSince(N, n, s) = CallsSince(M, n, s)
  BY DEF CallsSince
<1>2. CallsSince(M, n, s) \subseteq 1..n
  BY DEF CallsSince
<1> QED
  BY <1>1, <1>2 DEF IsPeak

\* A line more: its own call counts, unless its message starts the peak over.
LEMMA PeakGrows ==
  ASSUME NEW M, NEW N, NEW n \in Nat, \A j \in 1..n : N[j] = M[j], NEW s, NEW p,
         IsPeak(M, p, CallsSince(M, n, s)),
         NEW f \in Nat, NEW r, N[n + 1].scan = s, N[n + 1].fill = f, N[n + 1].resets = r, NEW q,
         \/ r = {} /\ q = IF f > p THEN f ELSE p
         \/ r # {} /\ f = 0 /\ q = 0
  PROVE  IsPeak(N, q, CallsSince(N, n + 1, s))
<1>1. n + 1 \in 1..(n + 1) /\ 1..(n + 1) = 1..n \cup {n + 1} /\ n + 1 \notin 1..n
  OBVIOUS
<1>2. ASSUME NEW j \in CallsSince(N, n + 1, s)
      PROVE  j = n + 1 \/ (r = {} /\ j \in 1..n /\ j \in CallsSince(M, n, s))
  <2>1. /\ j \in 1..(n + 1) /\ N[j].scan = s /\ N[j].resets \cap {"init", "result"} = {}
        /\ \A m \in (j + 1)..(n + 1) : N[m].resets = {}
    BY DEF CallsSince
  <2>2. CASE j \in 1..n
    <3>1. n + 1 \in (j + 1)..(n + 1) /\ \A m \in (j + 1)..n : m \in (j + 1)..(n + 1) /\ m \in 1..n
      BY <2>2
    <3>2. r = {} /\ M[j].scan = s /\ M[j].resets \cap {"init", "result"} = {}
          /\ \A m \in (j + 1)..n : M[m].resets = {}
      BY <2>1, <2>2, <3>1
    <3> QED
      BY <2>2, <3>2 DEF CallsSince
  <2> QED
    BY <1>1, <2>1, <2>2
<1>3. ASSUME r = {}, NEW j \in CallsSince(M, n, s)
      PROVE  j \in 1..n /\ j \in CallsSince(N, n + 1, s)
  <2>1. /\ j \in 1..n /\ M[j].scan = s /\ M[j].resets \cap {"init", "result"} = {}
        /\ \A m \in (j + 1)..n : M[m].resets = {}
    BY DEF CallsSince
  <2>2. \A m \in (j + 1)..(n + 1) : m = n + 1 \/ (m \in (j + 1)..n /\ m \in 1..n)
    BY <2>1
  <2>3. j \in 1..(n + 1) /\ N[j] = M[j] /\ \A m \in (j + 1)..(n + 1) : N[m].resets = {}
    BY <1>3, <2>1, <2>2
  <2> QED
    BY <2>1, <2>3 DEF CallsSince
<1>4. r = {} => n + 1 \in CallsSince(N, n + 1, s)
  <2>1. (n + 2)..(n + 1) = {} /\ n + 1 + 1 = n + 2
    OBVIOUS
  <2> QED
    BY <1>1, <2>1 DEF CallsSince
<1>5. CASE r # {}
  <2>1. \A j \in CallsSince(N, n + 1, s) : N[j].fill \in 0..0
    BY <1>2, <1>5
  <2>2. q = 0 /\ 0 \in Nat
    BY <1>5
  <2> QED
    BY ONLY <2>1, <2>2 DEF IsPeak
<1>6. CASE r = {}
  <2>1. /\ p \in Nat
        /\ p = 0 \/ \E j \in CallsSince(M, n, s) : p = M[j].fill
        /\ \A j \in CallsSince(M, n, s) : M[j].fill \in 0..p
    BY DEF IsPeak
  <2>2. /\ q = IF f > p THEN f ELSE p
        /\ q \in Nat /\ f \in 0..q /\ 0..p \subseteq 0..q
    BY <1>6, <2>1
  <2>3. ASSUME NEW j \in CallsSince(N, n + 1, s)
        PROVE  N[j].fill \in 0..q
    <3>1. CASE j = n + 1
      BY <2>2, <3>1
    <3>2. CASE j \in 1..n /\ j \in CallsSince(M, n, s)
      <4>1. N[j].fill = M[j].fill /\ M[j].fill \in 0..p
        BY <2>1, <3>2
      <4> QED
        BY ONLY <2>2, <4>1
    <3> QED
      BY <1>2, <3>1, <3>2
  <2>4. q = 0 \/ \E j \in CallsSince(N, n + 1, s) : q = N[j].fill
    <3>1. CASE f > p
      BY <1>4, <1>6, <2>2, <3>1
    <3>2. CASE ~(f > p)
      BY <1>3, <1>6, <2>1, <2>2, <3>2
    <3> QED
      BY <3>1, <3>2
  <2> QED
    BY ONLY <2>2, <2>3, <2>4 DEF IsPeak
<1> QED
  BY <1>5, <1>6

\* What a line's messages are, for its mark: none, or its own, with a context
\* window behind it just when it reports a model call.
Yields(mark, sent, d) ==
  /\ d \in 0..2
  /\ d > 0 =>
       /\ Proper(Gathered(sent[1])) /\ Len(Gathered(sent[1])) = mark.count
       /\ sent[1].type = "context_window" => sent[1].usage = <<>>
  /\ mark.fill > 0 => d # 1
  /\ d = 2 => mark.fill > 0 /\ sent[1].type # "result" /\ Window(sent[2], mark.fill)

LEMMA SourcedGrows ==
  ASSUME NEW M, NEW N, NEW n \in Nat, \A j \in 1..n : N[j] = M[j],
         NEW s, NEW t, \A k \in 1..Len(s) : s[k].line \in 1..n, Sourced(M, s),
         NEW sent, NEW d, Added(t, s, n + 1, sent, d), Yields(N[n + 1], sent, d)
  PROVE  Sourced(N, t)
<1>1. /\ Len(s) \in Nat /\ d \in 0..2 /\ Len(t) = Len(s) + d
      /\ \A k \in 1..Len(s) : t[k] = s[k]
      /\ \A k \in (Len(s) + 1)..Len(t) : t[k] = [line |-> n + 1, msg |-> sent[k - Len(s)]]
  BY DEF Added, Yields
<1>2. ASSUME NEW k \in 1..Len(s), k > 1
      PROVE  k - 1 \in 1..Len(s) /\ t[k - 1] = s[k - 1]
  BY <1>1, <1>2
<1>3. ASSUME NEW k \in 1..Len(s)
      PROVE  t[k] = s[k] /\ N[t[k].line] = M[s[k].line]
  BY <1>1
<1>4. ASSUME NEW k \in 1..Len(s), Trails(M, s, k)
      PROVE  Trails(N, t, k)
  BY ONLY <1>2, <1>3, <1>4 DEF Trails
<1>5. ASSUME NEW k \in 1..Len(s), Leads(M, s, k)
      PROVE  Leads(N, t, k)
  <2>1. /\ k > 1 => t[k - 1].line < t[k].line
        /\ Proper(Gathered(t[k].msg)) /\ Len(Gathered(t[k].msg)) = N[t[k].line].count
        /\ t[k].msg.type = "context_window" => t[k].msg.usage = <<>>
    BY ONLY <1>2, <1>3, <1>5 DEF Leads
  <2>2. ASSUME N[t[k].line].fill > 0
        PROVE  k < Len(t) /\ Trails(N, t, k + 1)
    <3>1. k < Len(s) /\ Trails(M, s, k + 1)
      BY ONLY <1>3, <1>5, <2>2 DEF Leads
    <3>2. k + 1 \in 1..Len(s) /\ k < Len(t)
      BY <1>1, <3>1
    <3> QED
      BY <1>4, <3>1, <3>2
  <2> QED
    BY ONLY <2>1, <2>2 DEF Leads
<1>6. ASSUME d = 2
      PROVE  Trails(N, t, Len(s) + 2)
  <2>1. /\ Len(s) + 1 \in (Len(s) + 1)..Len(t) /\ Len(s) + 2 \in (Len(s) + 1)..Len(t)
        /\ (Len(s) + 1) - Len(s) = 1 /\ (Len(s) + 2) - Len(s) = 2
        /\ Len(s) + 2 > 1 /\ (Len(s) + 2) - 1 = Len(s) + 1
    BY <1>1, <1>6
  <2>2. /\ t[Len(s) + 1] = [line |-> n + 1, msg |-> sent[1]]
        /\ t[Len(s) + 2] = [line |-> n + 1, msg |-> sent[2]]
    BY <1>1, <2>1
  <2>3. N[n + 1].fill > 0 /\ sent[1].type # "result" /\ Window(sent[2], N[n + 1].fill)
    BY <1>6 DEF Yields
  <2> QED
    BY ONLY <2>1, <2>2, <2>3 DEF Trails
<1>7. ASSUME d > 0
      PROVE  Leads(N, t, Len(s) + 1)
  <2>1. Len(s) + 1 \in (Len(s) + 1)..Len(t) /\ (Len(s) + 1) - Len(s) = 1
    BY <1>1, <1>7
  <2>2. t[Len(s) + 1] = [line |-> n + 1, msg |-> sent[1]]
    BY <1>1, <2>1
  <2>3. ASSUME Len(s) + 1 > 1
        PROVE  t[(Len(s) + 1) - 1].line < t[Len(s) + 1].line
    <3>1. (Len(s) + 1) - 1 = Len(s) /\ Len(s) \in 1..Len(s)
      BY <1>1, <2>3
    <3>2. t[Len(s)].line \in 1..n
      BY <1>1, <3>1
    <3>3. t[Len(s)].line < n + 1
      BY <3>2
    <3> QED
      BY <2>2, <3>1, <3>3
  <2>4. /\ Proper(Gathered(sent[1])) /\ Len(Gathered(sent[1])) = N[n + 1].count
        /\ sent[1].type = "context_window" => sent[1].usage = <<>>
    BY <1>7 DEF Yields
  <2>5. ASSUME N[n + 1].fill > 0
        PROVE  Len(s) + 1 < Len(t) /\ Trails(N, t, (Len(s) + 1) + 1)
    <3>1. d = 2
      BY <1>1, <1>7, <2>5 DEF Yields
    <3>2. Len(s) + 1 < Len(t) /\ (Len(s) + 1) + 1 = Len(s) + 2
      BY <1>1, <3>1
    <3> QED
      BY <1>6, <3>1, <3>2
  <2> QED
    BY ONLY <2>2, <2>3, <2>4, <2>5 DEF Leads
<1>8. ASSUME NEW k \in 1..Len(t)
      PROVE  Leads(N, t, k) \/ Trails(N, t, k)
  <2>1. k \in 1..Len(s) \/ (k = Len(s) + 1 /\ d > 0) \/ (k = Len(s) + 2 /\ d = 2)
    <3>1. Len(s) \in Nat /\ d \in 0..2 /\ k \in 1..(Len(s) + d)
      BY <1>1
    <3> QED
      BY ONLY <3>1
  <2>2. CASE k \in 1..Len(s)
    <3>1. Leads(M, s, k) \/ Trails(M, s, k)
      BY <2>2 DEF Sourced
    <3> QED
      BY <1>4, <1>5, <2>2, <3>1
  <2> QED
    BY <1>6, <1>7, <2>1, <2>2
<1> QED
  BY ONLY <1>8 DEF Sourced

\* The results among these messages are given this peak.
GivenPeak(sent, d, p) ==
  \A i \in 1..d : sent[i].type = "result" /\ sent[i].usage # <<>> => sent[i].usage[1].used = p

\* The results before keep their peaks; one of the line taken has the peak so
\* far, when it has a usage to put it on.
LEMMA PeaksGrow ==
  ASSUME NEW M, NEW N, NEW n \in Nat, \A j \in 1..n : N[j] = M[j],
         NEW s, NEW t, \A k \in 1..Len(s) : s[k].line \in 1..n, Peaks(M, s),
         NEW sent, NEW d, Added(t, s, n + 1, sent, d),
         NEW p, IsPeak(M, p, CallsSince(M, n, N[n + 1].scan)), GivenPeak(sent, d, p)
  PROVE  Peaks(N, t)
<1>1. /\ Len(s) \in Nat /\ Len(t) = Len(s) + d
      /\ \A k \in 1..Len(s) : t[k] = s[k]
      /\ \A k \in (Len(s) + 1)..Len(t) :
           k - Len(s) \in 1..d /\ t[k] = [line |-> n + 1, msg |-> sent[k - Len(s)]]
  BY DEF Added
<1>2. ASSUME NEW k \in 1..Len(t), t[k].msg.type = "result", t[k].msg.usage # <<>>
      PROVE  IsPeak(N, t[k].msg.usage[1].used, CallsSince(N, t[k].line - 1, N[t[k].line].scan))
  <2>1. CASE k \in 1..Len(s)
    <3>1. PICK i : i = s[k].line
      OBVIOUS
    <3>2. t[k] = s[k] /\ i \in 1..n
      BY <1>1, <2>1, <3>1
    <3>3. IsPeak(M, s[k].msg.usage[1].used, CallsSince(M, i - 1, M[i].scan))
      BY <1>2, <2>1, <3>1, <3>2 DEF Peaks
    <3>4. i - 1 \in Nat /\ N[i] = M[i] /\ \A j \in 1..(i - 1) : N[j] = M[j]
      BY <3>2, SMTT(40)
    <3>5. IsPeak(N, s[k].msg.usage[1].used, CallsSince(N, i - 1, M[i].scan))
      BY ONLY <3>3, <3>4, CallsStay
    <3> QED
      BY ONLY <3>1, <3>2, <3>4, <3>5
  <2>2. CASE k \notin 1..Len(s)
    <3>1. k \in (Len(s) + 1)..Len(t)
      BY <1>1, <2>2
    <3>2. k - Len(s) \in 1..d /\ t[k].line = n + 1 /\ t[k].msg = sent[k - Len(s)]
      <4>1. k - Len(s) \in 1..d /\ t[k] = [line |-> n + 1, msg |-> sent[k - Len(s)]]
        BY ONLY <1>1, <3>1
      <4> QED
        BY ONLY <4>1
    <3>3. t[k].msg.usage[1].used = p /\ t[k].line - 1 = n
      BY <1>2, <3>2 DEF GivenPeak
    <3>4. IsPeak(N, p, CallsSince(N, n, N[n + 1].scan))
      BY CallsStay
    <3> QED
      BY ONLY <3>2, <3>3, <3>4
  <2> QED
    BY <2>1, <2>2
<1> QED
  BY ONLY <1>2 DEF Peaks

LEMMA BackendStays ==
  ASSUME backend' = backend, NEW raw
  PROVE  CallFill(raw)' = CallFill(raw) /\ CallCount(raw)' = CallCount(raw)
<1>1. CallFill(raw)' = CallFill(raw)
  BY DEF CallFill
<1>2. CallCount(raw)' = CallCount(raw)
  BY DEF CallCount
<1> QED
  BY <1>1, <1>2

LEMMA WhatIsAdded ==
  ASSUME NEW new, NEW old, NEW i, NEW sent, NEW n \in Nat, Added(new, old, i, sent, n), Proper(old)
  PROVE  /\ Len(old) \in Nat /\ Len(new) = Len(old) + n
         /\ DOMAIN old = 1..Len(old) /\ DOMAIN new = 1..Len(new)
         /\ 1..Len(new) = 1..Len(old) \cup (Len(old) + 1)..Len(new)
         /\ \A k \in 1..Len(old) : new[k] = old[k]
         /\ \A k \in (Len(old) + 1)..Len(new) : new[k].line = i
<1>1. /\ Proper(new) /\ Len(old) \in Nat /\ Len(new) = Len(old) + n
      /\ \A k \in 1..Len(old) : new[k] = old[k]
      /\ \A k \in (Len(old) + 1)..Len(new) :
           k - Len(old) \in 1..n /\ new[k] = [line |-> i, msg |-> sent[k - Len(old)]]
  BY DEF Added
<1>2. DOMAIN old = 1..Len(old) /\ DOMAIN new = 1..Len(new)
  BY <1>1, LenProperties DEF Proper
<1>3. 1..Len(new) = 1..Len(old) \cup (Len(old) + 1)..Len(new)
  BY <1>1
<1>4. ASSUME NEW k \in (Len(old) + 1)..Len(new)
      PROVE  new[k].line = i
  <2>1. new[k] = [line |-> i, msg |-> sent[k - Len(old)]]
    BY ONLY <1>1, <1>4
  <2> QED
    BY ONLY <2>1
<1> QED
  BY ONLY <1>1, <1>2, <1>3, <1>4

Typed(new, old, sent, n) ==
  /\ \A k \in (Len(old) + 1)..Len(new) : \E j \in 1..n : new[k].msg.type = sent[j].type
  /\ \A j \in 1..n : \E k \in (Len(old) + 1)..Len(new) : new[k].msg.type = sent[j].type

LEMMA TypesAdded ==
  ASSUME NEW new, NEW old, NEW i, NEW sent, NEW n \in Nat, Added(new, old, i, sent, n)
  PROVE  Typed(new, old, sent, n)
<1>1. /\ Len(old) \in Nat /\ Len(new) = Len(old) + n
      /\ \A k \in (Len(old) + 1)..Len(new) :
           k - Len(old) \in 1..n /\ new[k] = [line |-> i, msg |-> sent[k - Len(old)]]
  BY DEF Added
<1>2. ASSUME NEW k \in (Len(old) + 1)..Len(new)
      PROVE  k - Len(old) \in 1..n /\ new[k].msg.type = sent[k - Len(old)].type
  <2>1. k - Len(old) \in 1..n /\ new[k] = [line |-> i, msg |-> sent[k - Len(old)]]
    BY ONLY <1>1, <1>2
  <2> QED
    BY ONLY <2>1
<1>3. ASSUME NEW j \in 1..n
      PROVE  \E k \in (Len(old) + 1)..Len(new) : new[k].msg.type = sent[j].type
  <2>1. Len(old) + j \in (Len(old) + 1)..Len(new) /\ (Len(old) + j) - Len(old) = j
    BY <1>1
  <2>2. new[Len(old) + j].msg.type = sent[j].type
    BY <1>2, <2>1
  <2> QED
    BY <2>1, <2>2
<1> QED
  BY ONLY <1>2, <1>3 DEF Typed

\* The marks of the lines before a line taken are not changed by it.
LEMMA MarksStay ==
  ASSUME Types, NEW n \in Nat, n = Len(heard), backend' = backend, Len(heard') >= n,
         \A i \in 1..n : heard'[i] = heard[i],
         NEW m \in Nat, NEW sent, NEW d \in Nat, m > n, Added(out', out, m, sent, d)
  PROVE  \A i \in 1..n : Marks'[i] = Marks[i]
<1>0. Proper(out)
  BY DEF Types
<1>1. /\ Len(out) \in Nat /\ Len(out') = Len(out) + d
      /\ DOMAIN out = 1..Len(out) /\ DOMAIN out' = 1..Len(out')
      /\ 1..Len(out') = 1..Len(out) \cup (Len(out) + 1)..Len(out')
      /\ \A k \in 1..Len(out) : out'[k] = out[k]
      /\ \A k \in (Len(out) + 1)..Len(out') : out'[k].line = m
  <2>1. d \in Nat /\ Added(out', out, m, sent, d)
    OBVIOUS
  <2> QED
    BY ONLY <1>0, <2>1, WhatIsAdded
<1>2. DOMAIN out = 1..Len(out) /\ DOMAIN out' = 1..Len(out')
  BY <1>1
<1>3. ASSUME NEW i \in 1..n
      PROVE  Marks'[i] = Marks[i]
  <2>1. PICK raw : raw = Raw(i)
    OBVIOUS
  <2>2. Raw(i)' = raw /\ heard'[i] = heard[i]
    BY <1>3, <2>1 DEF Raw
  <2>3. Emitted(i)' = Emitted(i)
    <3>1. 1..Len(out') = 1..Len(out) \cup (Len(out) + 1)..Len(out')
      BY ONLY <1>1
    <3>2. \A k \in (Len(out) + 1)..Len(out') : out'[k].line # i
      BY <1>1
    <3>3. Emitted(i)' = {k \in 1..Len(out') : out'[k].line = i}
      BY <1>2 DEF Emitted
    <3>4. Emitted(i) = {k \in 1..Len(out) : out[k].line = i}
      BY <1>2 DEF Emitted
    <3> QED
      BY <1>1, <3>1, <3>2, <3>3, <3>4
  <2>4. Resets(i)' = Resets(i)
    <3>1. {out'[k].msg.type : k \in Emitted(i)'} = {out[k].msg.type : k \in Emitted(i)}
      <4>1. \A k \in Emitted(i) : k \in 1..Len(out)
        BY <1>2 DEF Emitted
      <4> QED
        BY <1>1, <2>3, <4>1
    <3> QED
      BY <2>1, <2>2, <3>1 DEF Resets
  <2>5. CallFill(Raw(i))' = CallFill(Raw(i)) /\ CallCount(Raw(i))' = CallCount(Raw(i))
    <3>1. CallFill(raw)' = CallFill(raw) /\ CallCount(raw)' = CallCount(raw)
      BY BackendStays
    <3>2. CallFill(Raw(i))' = CallFill(raw)'
      BY <2>2 DEF CallFill
    <3>3. CallCount(Raw(i))' = CallCount(raw)'
      BY <2>2, Zenon DEF CallCount
    <3> QED
      BY <2>1, <3>1, <3>2, <3>3
  <2>6. i \in 1..Len(heard) /\ i \in 1..Len(heard')
    <3>1. Len(heard') >= n /\ n \in Nat /\ i \in 1..n /\ n = Len(heard)
      BY <1>3
    <3>2. ASSUME NEW l, l >= n, l \in Int
          PROVE  i \in 1..l
      BY <3>2
    <3> QED
      BY <3>1
  <2>7. Marks[i] = [scan |-> heard[i].scan, fill |-> CallFill(Raw(i)), count |-> CallCount(Raw(i)),
                    resets |-> Resets(i)]
    BY <2>6 DEF Marks
  <2>8. Marks'[i] = [scan |-> heard'[i].scan, fill |-> CallFill(Raw(i))',
                     count |-> CallCount(Raw(i))', resets |-> Resets(i)']
    BY <2>6 DEF Marks
  <2> QED
    BY ONLY <2>2, <2>4, <2>5, <2>7, <2>8
<1> QED
  BY <1>3

\* The types of the first d of these messages.
Kinds(sent, d) == {sent[j].type : j \in 1..d}

\* The mark of the line taken.
LEMMA MarkAdded ==
  ASSUME Types, Attributed, backend' = backend,
         NEW next, next \in 1..Len(heard'), next \notin 1..Len(heard),
         NEW line, heard'[next].line = line, heard'[next].scan = scan,
         NEW sent, NEW d \in Nat, Added(out', out, next, sent, d)
  PROVE  /\ Marks'[next].scan = scan
         /\ Marks'[next].fill = CallFill(line.raw) /\ Marks'[next].count = CallCount(line.raw)
         /\ Marks'[next].resets =
              Kinds(sent, d) \cap
                (IF Malformed(backend, line.raw) THEN {"init", "result"}
                 ELSE {"init", "result", "error"})
<1>0. Proper(out)
  BY DEF Types
<1>1. /\ Len(out) \in Nat /\ Len(out') = Len(out) + d
      /\ DOMAIN out = 1..Len(out) /\ DOMAIN out' = 1..Len(out')
      /\ 1..Len(out') = 1..Len(out) \cup (Len(out) + 1)..Len(out')
      /\ \A k \in 1..Len(out) : out'[k] = out[k]
      /\ \A k \in (Len(out) + 1)..Len(out') : out'[k].line = next
  <2>1. d \in Nat /\ Added(out', out, next, sent, d)
    OBVIOUS
  <2> QED
    BY ONLY <1>0, <2>1, WhatIsAdded
<1>2. DOMAIN out = 1..Len(out) /\ DOMAIN out' = 1..Len(out')
  BY <1>1
<1>3. PICK raw : raw = line.raw
  OBVIOUS
<1>4. Raw(next)' = raw
  BY <1>3 DEF Raw
<1>5. \A k \in 1..Len(out) : out'[k].line # next
  <2>1. \A k \in 1..Len(out) : out[k].line \in 1..Len(heard)
    BY <1>2 DEF Attributed
  <2> QED
    BY <1>1, <2>1
<1>6. {out'[k].msg.type : k \in Emitted(next)'} = Kinds(sent, d)
  <2>1. Emitted(next)' = (Len(out) + 1)..Len(out')
    <3>2. \A k \in (Len(out) + 1)..Len(out') : out'[k].line = next
      BY ONLY <1>1, <1>3
    <3>3. Emitted(next)' = {k \in 1..Len(out') : out'[k].line = next}
      BY <1>2 DEF Emitted
    <3>4. 1..Len(out') = 1..Len(out) \cup (Len(out) + 1)..Len(out')
      BY ONLY <1>1
    <3> QED
      BY ONLY <1>5, <3>2, <3>3, <3>4
  <2>2. PICK new, K : new = out' /\ K = (Len(out) + 1)..Len(new)
    OBVIOUS
  <2>3. PICK S, T : S = {new[k].msg.type : k \in K} /\ T = {sent[j].type : j \in 1..d}
    OBVIOUS
  <2>4. S = T
    <3>1. d \in Nat /\ Added(new, out, next, sent, d)
      BY <2>2
    <3>2. Typed(new, out, sent, d)
      BY ONLY <3>1, TypesAdded
    <3>3. /\ \A k \in K : \E j \in 1..d : new[k].msg.type = sent[j].type
          /\ \A j \in 1..d : \E k \in K : new[k].msg.type = sent[j].type
      BY ONLY <2>2, <3>2, Zenon DEF Typed
    <3>4. ASSUME NEW x \in S
          PROVE  x \in T
      <4>1. PICK k \in K : x = new[k].msg.type
        BY ONLY <2>3, <3>4
      <4>2. PICK j \in 1..d : x = sent[j].type
        BY ONLY <3>3, <4>1
      <4> QED
        BY ONLY <2>3, <4>2
    <3>5. ASSUME NEW x \in T
          PROVE  x \in S
      <4>1. PICK j \in 1..d : x = sent[j].type
        BY ONLY <2>3, <3>5
      <4>2. PICK k \in K : x = new[k].msg.type
        BY ONLY <3>3, <4>1
      <4> QED
        BY ONLY <2>3, <4>2
    <3> QED
      BY ONLY <3>4, <3>5
  <2>5. Emitted(next)' = K
    BY <2>1, <2>2
  <2>6. T = Kinds(sent, d)
    BY ONLY <2>3 DEF Kinds
  <2> QED
    BY ONLY <2>2, <2>3, <2>4, <2>5, <2>6
<1>7. Resets(next)' = Kinds(sent, d) \cap
                        (IF Malformed(backend, raw) THEN {"init", "result"}
                         ELSE {"init", "result", "error"})
  BY <1>4, <1>6 DEF Resets
<1>8. CallFill(Raw(next))' = CallFill(raw) /\ CallCount(Raw(next))' = CallCount(raw)
  <2>1. CallFill(raw)' = CallFill(raw) /\ CallCount(raw)' = CallCount(raw)
    BY BackendStays
  <2>2. CallFill(Raw(next))' = CallFill(raw)'
    BY <1>4 DEF CallFill
  <2>3. CallCount(Raw(next))' = CallCount(raw)'
    BY <1>4, Zenon DEF CallCount
  <2> QED
    BY <2>1, <2>2, <2>3
<1>9. Marks'[next] = [scan |-> heard'[next].scan, fill |-> CallFill(Raw(next))',
                      count |-> CallCount(Raw(next))', resets |-> Resets(next)']
  BY DEF Marks
<1> QED
  BY <1>3, <1>7, <1>8, <1>9

\* The messages sent for a line: its own, and a context window when it reports
\* a model call.
LEMMA SentWhole ==
  ASSUME NEW filled, NEW tail, NEW sent, sent = <<filled>> \o tail,
         NEW w, tail = <<>> \/ tail = <<w>>
  PROVE  /\ DOMAIN sent = 1..Len(sent) /\ sent[1] = filled
         /\ tail = <<>> => Len(sent) = 1
         /\ tail = <<w>> => Len(sent) = 2 /\ sent[2] = w
<1>1. PICK S : S = {filled, w}
  OBVIOUS
<1>2. <<filled>> \in Seq(S) /\ Len(<<filled>>) = 1 /\ <<filled>>[1] = filled
  BY <1>1
<1>3. /\ tail \in Seq(S)
      /\ tail = <<>> => Len(tail) = 0
      /\ tail = <<w>> => Len(tail) = 1 /\ tail[1] = w
  <2>1. <<>> \in Seq(S) /\ Len(<<>>) = 0
    BY EmptySeq
  <2>2. <<w>> \in Seq(S) /\ Len(<<w>>) = 1 /\ <<w>>[1] = w
    BY <1>1
  <2> QED
    BY <2>1, <2>2
<1>4. /\ sent \in Seq(S) /\ Len(sent) = 1 + Len(tail)
      /\ \A i \in 1..(1 + Len(tail)) : sent[i] = IF i <= 1 THEN <<filled>>[i] ELSE tail[i - 1]
  BY <1>2, <1>3, ConcatProperties
<1>5. DOMAIN sent = 1..Len(sent)
  BY <1>4, LenProperties
<1> QED
  BY <1>2, <1>3, <1>4, <1>5

\* A line's own message, for a line the backend cannot parse or for one it can.
Own(raw, msg, max) ==
  /\ Bears(raw, msg) /\ CallFill(raw) \in Nat
  /\ \/ Malformed(backend, raw) /\ msg.type = "error" /\ max = peak
     \/ ~Malformed(backend, raw) /\ max = IF msg.type = "error" THEN 0 ELSE peak

LEMMA OwnMessage ==
  ASSUME Types, NEW line \in Lines[scene], ParseError(line) \/ ParsedLine(line)
  PROVE  \E msg, max : EmitMessage(msg, max) /\ Own(line.raw, msg, max)
<1>1. CallFill(line.raw) \in Nat
  BY FillIsNatural
<1>2. CASE ParseError(line)
  <2>1. PICK msg : msg = [Message("error") EXCEPT !.content = "parse"]
    OBVIOUS
  <2>2. EmitMessage(msg, peak) /\ Malformed(backend, line.raw)
    BY <1>2, <2>1 DEF ParseError
  <2>3. Bare(msg) /\ msg.type = "error"
    <3>1. Carries(msg, "error", <<>>, <<>>, <<>>)
      BY <2>1, CarryingMessages
    <3> QED
      BY <3>1 DEF Bare, Carries
  <2>4. Bears(line.raw, msg)
    BY <2>2, <2>3, MuteBears, BearsNothing
  <2> QED
    BY <1>1, <2>2, <2>3, <2>4 DEF Own
<1>3. CASE ParsedLine(line)
  <2>1. PICK msg : msg = ParseLine(backend, line.raw, cell).msg
    OBVIOUS
  <2>2. PICK max : max = IF msg.type = "error" THEN 0 ELSE peak
    OBVIOUS
  <2>3. EmitMessage(msg, max) /\ ~Malformed(backend, line.raw)
    BY <1>3, <2>1, <2>2 DEF ParsedLine
  <2>4. Bears(line.raw, msg)
    BY <2>1, LineBears
  <2> QED
    BY <1>1, <2>2, <2>3, <2>4 DEF Own
<1> QED
  BY <1>2, <1>3

\* What is sent for it, and what becomes of the peak.
LEMMA OwnSent ==
  ASSUME NEW raw, NEW msg, NEW max, Own(raw, msg, max), peak \in Nat, EmitMessage(msg, max),
         Types, backend # "claude" \/ phase # "replacing"
  PROVE  \E sent, d :
           /\ Added(out', out, Len(heard) + 1, sent, d)
           /\ d \in 0..2
           /\ d > 0 =>
                /\ Proper(Gathered(sent[1])) /\ Len(Gathered(sent[1])) = CallCount(raw)
                /\ sent[1].type = "context_window" => sent[1].usage = <<>>
           /\ CallFill(raw) > 0 => d = 2
           /\ d = 2 => CallFill(raw) > 0 /\ sent[1].type # "result" /\ Window(sent[2], CallFill(raw))
           /\ d = 0 => phase' \notin {"scanning", "replacing"}
           /\ d > 0 => sent[1].type = msg.type
           /\ d > 0 /\ sent[1].type = "result" /\ sent[1].usage # <<>> => sent[1].usage[1].used = peak
           /\ peak' = IF msg.type \in {"init", "result"} THEN 0
                      ELSE IF CallFill(raw) > max THEN CallFill(raw) ELSE max
           /\ msg.type \in {"result", "init", "error"} => CallFill(raw) = 0
<1>1. PICK fill, filled, tail, sent :
        /\ fill = CallFill(raw) /\ filled = Filled(msg, last, max)
        /\ tail = SynthesizeContextWindow(filled) /\ sent = <<filled>> \o tail
  OBVIOUS
<1>2. fill \in Nat /\ max \in Nat /\ Bears(raw, msg)
  BY <1>1 DEF Own
<1>3. /\ filled.type = msg.type /\ Gathered(filled) = Gathered(msg)
      /\ msg.type = "result" /\ filled.usage # <<>> => filled.usage[1].used = max
      /\ msg.type = "context_window" => filled.usage = <<>>
      /\ msg.type \in {"result", "init", "error", "context_window"} => fill = 0
      /\ peak' = IF msg.type \in {"init", "result"} THEN 0 ELSE IF fill > max THEN fill ELSE max
      /\ IF fill > 0 THEN \E w : tail = <<w>> /\ Window(w, fill) ELSE tail = <<>>
  <2>1. PICK after : after = ApplyContextFill(CarryForward(msg, last).msg, max).peak
    OBVIOUS
  <2>2. peak' = after
    BY <2>1 DEF EmitMessage
  <2>3. CallFill(raw) \in Nat
    BY <1>1, <1>2
  <2> QED
    BY <1>1, <1>2, <2>1, <2>2, <2>3, FillsTaken
<1>4. PICK w : IF fill > 0 THEN tail = <<w>> /\ Window(w, fill) ELSE tail = <<>>
  BY <1>3
<1>5. /\ DOMAIN sent = 1..Len(sent) /\ sent[1] = filled
      /\ tail = <<>> => Len(sent) = 1
      /\ tail = <<w>> => Len(sent) = 2 /\ sent[2] = w
  BY <1>1, <1>4, SentWhole
<1>6. Len(sent) = IF fill > 0 THEN 2 ELSE 1
  BY <1>4, <1>5
<1>7. PICK d \in 0..Len(sent) :
        /\ Added(out', out, Len(heard) + 1, sent, d)
        /\ \/ d = Len(sent) /\ phase' = phase
           \/ phase = "replacing" /\ phase' = "replaced"
  <2>1. Len(sent) \in 1..2
    BY <1>6
  <2> QED
    BY ZenonT(60), <1>1, <1>5, <2>1, EmitsSome DEF Filled
<1>8. fill > 0 => d = 2
  <2>1. fill > 0 => backend = "claude"
    BY <1>1 DEF CallFill
  <2> QED
    BY <1>6, <1>7, <2>1
<1>9. d \in 0..2 /\ (d = 2 => fill > 0) /\ (d = 0 => phase' \notin {"scanning", "replacing"})
  <2>1. d = 0 => phase' = "replaced"
    BY <1>6, <1>7
  <2> QED
    BY <1>6, <2>1
<1>10. /\ Proper(Gathered(filled)) /\ Len(Gathered(filled)) = CallCount(raw)
       /\ filled.type = "context_window" => filled.usage = <<>>
  BY <1>2, <1>3 DEF Bears
<1>11. d = 2 => filled.type # "result" /\ Window(sent[2], fill)
  BY <1>3, <1>4, <1>5, <1>9
<1>12. filled.type = "result" /\ filled.usage # <<>> => filled.usage[1].used = peak
  <2>1. msg.type = "result" => max = peak
    BY DEF Own
  <2> QED
    BY <1>3, <2>1
<1> QED
  BY ONLY <1>1, <1>3, <1>5, <1>7, <1>8, <1>9, <1>10, <1>11, <1>12

LEMMA NothingAdded ==
  ASSUME NEW s, Proper(s), NEW i, NEW sent
  PROVE  Added(s, s, i, sent, 0)
<1>1. Len(s) \in Nat
  BY LenProperties DEF Proper
<1>2. Len(s) = Len(s) + 0 /\ (Len(s) + 1)..Len(s) = {}
  BY <1>1
<1> QED
  BY <1>1, <1>2 DEF Added

\* What a line taken adds, and the peak after it.
LEMMA LineAdds ==
  ASSUME Types, Accounted, NEW line \in Lines[scene], Takes(line), NEW n \in Nat, n = Len(heard),
         LineTooLong(line) \/ SkipLine(line) \/ ParseError(line) \/ ParsedLine(line),
         NEW M, M = Marks, NEW N, N = Marks'
  PROVE  \E sent, d :
           /\ d \in Nat /\ Added(out', out, n + 1, sent, d) /\ Yields(N[n + 1], sent, d)
           /\ GivenPeak(sent, d, peak)
           /\ \A j \in 1..n : N[j] = M[j]
           /\ N[n + 1].scan = scan
           /\ phase' \in {"scanning", "replacing"} =>
                IsPeak(N, peak', CallsSince(N, n + 1, scan))
<1>1. /\ Len(heard') = n + 1
      /\ \A i \in 1..n : heard'[i] = heard[i]
      /\ heard'[n + 1].line = line /\ heard'[n + 1].scan = scan
      /\ scan' = scan /\ backend' = backend /\ phase \in {"scanning", "replacing"}
  BY BooksTaken DEF Accounted
<1>2. Proper(out) /\ Lossless /\ Attributed
  BY DEF Types, Accounted, Lossless
<1>3. IsPeak(M, peak, CallsSince(M, n, scan)) /\ peak \in Nat
  BY <1>1 DEF Accounted, Peaked, IsPeak
<1>4. CallFill(line.raw) \in Nat
  BY FillIsNatural
<1>5. ASSUME NEW sent, NEW d \in Nat, Added(out', out, n + 1, sent, d)
      PROVE  /\ \A j \in 1..n : N[j] = M[j]
             /\ N[n + 1].scan = scan /\ N[n + 1].fill = CallFill(line.raw)
             /\ N[n + 1].count = CallCount(line.raw)
             /\ N[n + 1].resets = Kinds(sent, d) \cap
                                    (IF Malformed(backend, line.raw) THEN {"init", "result"}
                                     ELSE {"init", "result", "error"})
  <2>1. \A j \in 1..n : N[j] = M[j]
    <3>1. n + 1 \in Nat /\ n + 1 > n /\ Len(heard') >= n
      BY <1>1
    <3>2. \A i \in 1..n : Marks'[i] = Marks[i]
      BY <1>1, <1>5, <3>1, MarksStay
    <3> QED
      BY <3>2
  <2>2. PICK next : next = n + 1
    OBVIOUS
  <2>3. next \in 1..Len(heard') /\ next \notin 1..Len(heard)
    BY <1>1, <2>2
  <2>4. /\ Marks'[next].scan = scan
        /\ Marks'[next].fill = CallFill(line.raw) /\ Marks'[next].count = CallCount(line.raw)
        /\ Marks'[next].resets =
             Kinds(sent, d) \cap
               (IF Malformed(backend, line.raw) THEN {"init", "result"}
                ELSE {"init", "result", "error"})
    <3>1. Types /\ heard'[next].line = line /\ heard'[next].scan = scan
      BY <1>1, <2>2
    <3>2. Added(out', out, next, sent, d) /\ d \in Nat
      BY <1>5, <2>2
    <3> QED
      BY ONLY <1>1, <1>2, <2>3, <3>1, <3>2, MarkAdded
  <2> QED
    BY <2>1, <2>2, <2>4
<1>6. CASE LineTooLong(line) \/ SkipLine(line)
  <2>1. out' = out /\ peak' = peak
    BY <1>6 DEF LineTooLong, SkipLine
  <2>2. Added(out', out, n + 1, <<>>, 0) /\ 0 \in Nat
    BY <1>2, <2>1, NothingAdded
  <2>3. Yields(N[n + 1], <<>>, 0) /\ GivenPeak(<<>>, 0, peak)
    <3>1. 1..0 = {}
      OBVIOUS
    <3> QED
      BY <3>1 DEF Yields, GivenPeak
  <2>4. /\ \A j \in 1..n : N[j] = M[j]
        /\ N[n + 1].scan = scan /\ N[n + 1].fill = CallFill(line.raw) /\ N[n + 1].resets = {}
    <3>1. /\ \A j \in 1..n : N[j] = M[j]
          /\ N[n + 1].scan = scan /\ N[n + 1].fill = CallFill(line.raw)
          /\ \E types : N[n + 1].resets = Kinds(<<>>, 0) \cap types
      BY <1>5, <2>2
    <3>2. Kinds(<<>>, 0) = {}
      BY DEF Kinds
    <3> QED
      BY <3>1, <3>2
  <2>5. ASSUME phase' \in {"scanning", "replacing"}
        PROVE  IsPeak(N, peak', CallsSince(N, n + 1, scan))
    <3>1. SkipLine(line)
      BY <1>6, <2>5 DEF LineTooLong, LoopEnds
    <3>2. CallFill(line.raw) = 0
      BY <3>1, MuteBears DEF SkipLine
    <3>3. ~(0 > peak) /\ 0 \in Nat
      BY <1>3
    <3> QED
      BY <1>3, <2>1, <2>4, <3>2, <3>3, PeakGrows
  <2> QED
    BY <2>2, <2>3, <2>4, <2>5
<1>7. CASE ParseError(line) \/ ParsedLine(line)
  <2>1. PICK msg, max, raw : EmitMessage(msg, max) /\ Own(raw, msg, max) /\ raw = line.raw
    BY <1>7, OwnMessage
  <2>2. PICK sent, d :
           /\ Added(out', out, Len(heard) + 1, sent, d)
           /\ d \in 0..2
           /\ d > 0 =>
                /\ Proper(Gathered(sent[1])) /\ Len(Gathered(sent[1])) = CallCount(raw)
                /\ sent[1].type = "context_window" => sent[1].usage = <<>>
           /\ CallFill(raw) > 0 => d = 2
           /\ d = 2 => CallFill(raw) > 0 /\ sent[1].type # "result" /\ Window(sent[2], CallFill(raw))
           /\ d = 0 => phase' \notin {"scanning", "replacing"}
           /\ d > 0 => sent[1].type = msg.type
           /\ d > 0 /\ sent[1].type = "result" /\ sent[1].usage # <<>> => sent[1].usage[1].used = peak
           /\ peak' = IF msg.type \in {"init", "result"} THEN 0
                      ELSE IF CallFill(raw) > max THEN CallFill(raw) ELSE max
           /\ msg.type \in {"result", "init", "error"} => CallFill(raw) = 0
    <3>1. backend # "claude" \/ phase # "replacing"
      BY DEF Accounted, Streamed
    <3> QED
      BY <1>3, <2>1, <3>1, OwnSent
  <2>3. d \in Nat /\ Added(out', out, n + 1, sent, d)
    BY <2>2
  <2>4. /\ \A j \in 1..n : N[j] = M[j]
        /\ N[n + 1].scan = scan /\ N[n + 1].fill = CallFill(raw) /\ N[n + 1].count = CallCount(raw)
        /\ N[n + 1].resets = Kinds(sent, d) \cap
                               (IF Malformed(backend, raw) THEN {"init", "result"}
                                ELSE {"init", "result", "error"})
    BY <1>5, <2>1, <2>3
  <2>5. Yields(N[n + 1], sent, d)
    <3>1. CallFill(raw) > 0 => d # 1
      BY <2>2
    <3> QED
      BY ONLY <2>2, <2>4, <3>1 DEF Yields
  <2>6. ASSUME NEW i \in 1..d, sent[i].type = "result", sent[i].usage # <<>>
        PROVE  sent[i].usage[1].used = peak
    <3>1. i = 1 \/ (i = 2 /\ d = 2)
      BY <2>2
    <3>2. d = 2 => sent[2].type = "context_window"
      BY <2>2 DEF Window
    <3>3. i = 1 /\ d > 0
      BY <2>2, <2>6, <3>1, <3>2
    <3> QED
      BY <2>2, <2>6, <3>3
  <2>7. ASSUME phase' \in {"scanning", "replacing"}
        PROVE  IsPeak(N, peak', CallsSince(N, n + 1, scan))
    <3>1. PICK r, types : /\ r = N[n + 1].resets
                          /\ types = IF Malformed(backend, raw) THEN {"init", "result"}
                                     ELSE {"init", "result", "error"}
      OBVIOUS
    <3>2. r = {msg.type} \cap types
      <4>1. d \in 1..2 /\ sent[1].type = msg.type
        BY <2>2, <2>7
      <4>2. d = 2 => sent[2].type = "context_window"
        BY <2>2 DEF Window
      <4>3. "context_window" \notin types
        BY <3>1
      <4>4. ASSUME NEW x \in types
            PROVE  x \in Kinds(sent, d) <=> x = msg.type
        BY <4>1, <4>2, <4>3, <4>4 DEF Kinds
      <4>5. r = Kinds(sent, d) \cap types
        BY <2>4, <3>1
      <4> QED
        BY ONLY <4>4, <4>5
    <3>3. PICK f : f = CallFill(raw)
      OBVIOUS
    <3>4. \/ r = {} /\ peak' = IF f > peak THEN f ELSE peak
          \/ r # {} /\ f = 0 /\ peak' = 0
      <4>1. CASE Malformed(backend, raw)
        <5>1. msg.type = "error" /\ max = peak
          BY <2>1, <4>1 DEF Own
        <5> QED
          BY <2>2, <3>1, <3>2, <3>3, <4>1, <5>1
      <4>2. CASE ~Malformed(backend, raw) /\ msg.type \in {"init", "result"}
        BY <2>2, <3>1, <3>2, <3>3, <4>2
      <4>3. CASE ~Malformed(backend, raw) /\ msg.type = "error"
        <5>1. max = 0 /\ f = 0 /\ ~(0 > 0)
          BY <2>1, <2>2, <3>3, <4>3 DEF Own
        <5> QED
          BY <2>2, <3>1, <3>2, <3>3, <4>3, <5>1
      <4>4. CASE ~Malformed(backend, raw) /\ msg.type \notin {"init", "result", "error"}
        <5>1. max = peak
          BY <2>1, <4>4 DEF Own
        <5> QED
          BY <2>2, <3>1, <3>2, <3>3, <4>4, <5>1
      <4> QED
        BY <4>1, <4>2, <4>3, <4>4
    <3>5. f \in Nat /\ N[n + 1].scan = scan /\ N[n + 1].fill = f /\ N[n + 1].resets = r
      BY <1>4, <2>1, <2>4, <3>1, <3>3
    <3> QED
      BY ONLY n \in Nat, <1>3, <2>4, <3>4, <3>5, PeakGrows
  <2> QED
    BY ONLY <2>3, <2>4, <2>5, <2>6, <2>7 DEF GivenPeak
<1> QED
  BY <1>6, <1>7

LEMMA AccountedTaken ==
  ASSUME Types, Accounted, ReadSome
  PROVE  (Sourced(Marks, out) /\ Peaks(Marks, out) /\ Peaked /\ Streamed)'
<1>1. PICK line \in Lines[scene] :
        /\ Takes(line)
        /\ LineTooLong(line) \/ SkipLine(line) \/ ParseError(line) \/ ParsedLine(line)
  BY ReadSteps
<1>0. PICK n \in Nat : n = Len(heard)
  BY LenProperties DEF Types
<1>2. PICK M, N : M = Marks /\ N = Marks' /\ n = Len(heard)
  BY <1>0
<1>3. /\ Len(heard') = n + 1 /\ scan' = scan /\ backend' = backend
      /\ phase \in {"scanning", "replacing"}
  BY <1>1, <1>2, BooksTaken DEF Accounted
<1>4. PICK sent, d :
        /\ d \in Nat /\ Added(out', out, n + 1, sent, d) /\ Yields(N[n + 1], sent, d)
        /\ GivenPeak(sent, d, peak)
        /\ \A j \in 1..n : N[j] = M[j]
        /\ N[n + 1].scan = scan
        /\ phase' \in {"scanning", "replacing"} => IsPeak(N, peak', CallsSince(N, n + 1, scan))
  BY <1>1, <1>2, LineAdds
<1>5. /\ \A k \in 1..Len(out) : out[k].line \in 1..n
      /\ Sourced(M, out) /\ Peaks(M, out)
      /\ IsPeak(M, peak, CallsSince(M, n, N[n + 1].scan))
  <2>1. DOMAIN out = 1..Len(out)
    BY LenProperties DEF Types, Proper
  <2>2. \A k \in 1..Len(out) : out[k].line \in 1..n
    BY <1>2, <2>1 DEF Accounted, Lossless, Attributed
  <2>3. Sourced(M, out) /\ Peaks(M, out) /\ IsPeak(M, peak, CallsSince(M, n, scan))
    BY <1>2, <1>3 DEF Accounted, Peaked
  <2> QED
    BY <1>4, <2>2, <2>3
<1>6. PICK s, t : s = out /\ t = out'
  OBVIOUS
<1>7. Sourced(N, t)
  BY ONLY n \in Nat, <1>4, <1>5, <1>6, SourcedGrows
<1>8. Peaks(N, t)
  <2>1. /\ \A k \in 1..Len(s) : s[k].line \in 1..n
        /\ Peaks(M, s) /\ Added(t, s, n + 1, sent, d)
    BY <1>4, <1>5, <1>6
  <2>2. \A j \in 1..n : N[j] = M[j]
    BY <1>4
  <2>3. GivenPeak(sent, d, peak)
    BY ONLY <1>4
  <2>4. IsPeak(M, peak, CallsSince(M, n, N[n + 1].scan))
    BY <1>5
  <2> QED
    BY ONLY n \in Nat, <2>1, <2>2, <2>3, <2>4, PeaksGrow
<1>9. Sourced(Marks, out)' /\ Peaks(Marks, out)'
  BY <1>2, <1>6, <1>7, <1>8
<1>10. Peaked'
  <2>1. phase' \in {"scanning", "replacing"} =>
          IsPeak(Marks', peak', CallsSince(Marks', Len(heard'), scan'))
    BY <1>2, <1>3, <1>4
  <2> QED
    BY <2>1 DEF Peaked
<1>11. Streamed'
  <2>1. phase' = phase \/ phase' # "replacing"
    BY <1>1, Emits DEF LineTooLong, SkipLine, ParseError, ParsedLine, LoopEnds
  <2> QED
    BY <1>3, <2>1 DEF Accounted, Streamed
<1> QED
  BY <1>9, <1>10, <1>11

\* A subprocess that starts to be read has made no call yet.
LEMMA AccountedStays ==
  ASSUME Types, Accounted, scene' = scene, heard' = heard, out' = out,
         \/ NewScan
         \/ phase' \notin {"scanning", "replacing"}
         \/ scan' = scan /\ peak' = peak /\ phase \in {"scanning", "replacing"},
         backend = "claude" => phase' # "replacing"
  PROVE  (Sourced(Marks, out) /\ Peaks(Marks, out) /\ Peaked /\ Streamed)'
<1>1. PICK n \in Nat : n = Len(heard)
  BY LenProperties DEF Types
<1>2. backend' = backend
  BY DEF backend
<1>3. \A j \in 1..n : Marks'[j] = Marks[j]
  <2>1. n + 1 \in Nat /\ n + 1 > n /\ Len(heard') >= n /\ 0 \in Nat
    BY <1>1
  <2>2. Added(out', out, n + 1, <<>>, 0)
    BY NothingAdded DEF Types
  <2> QED
    BY <1>1, <1>2, <2>1, <2>2, MarksStay
<1>4. PICK M, N, s : M = Marks /\ N = Marks' /\ s = out
  OBVIOUS
<1>5. N = M
  <2>1. M = [j \in 1..n |-> M[j]] /\ N = [j \in 1..n |-> N[j]]
    BY <1>1, <1>4 DEF Marks
  <2>2. \A j \in 1..n : N[j] = M[j]
    BY <1>3, <1>4
  <2> QED
    BY ONLY <2>1, <2>2, Zenon
<1>6. Sourced(Marks, out)' /\ Peaks(Marks, out)'
  <2>1. Sourced(N, out') /\ Peaks(N, out')
    BY <1>4, <1>5 DEF Accounted
  <2> QED
    BY <1>4, <2>1
<1>7. Peaked'
  <2>1. CASE NewScan
    <3>1. scan' = scan + 1 /\ peak' = 0 /\ scan \in Nat
      BY <2>1 DEF NewScan, Types
    <3>2. \A j \in 1..n : M[j].scan \in Nat /\ M[j].scan <= scan
      <4>1. \A j \in 1..n : heard[j] \in [line : Lines[scene], scan : Nat]
        BY <1>1, LenProperties DEF Types
      <4>2. \A e \in [line : Lines[scene], scan : Nat] : e.scan \in Nat
        OBVIOUS
      <4>3. \A j \in 1..n : M[j].scan = heard[j].scan
        BY <1>1, <1>4 DEF Marks
      <4> QED
        BY <1>1, <4>1, <4>2, <4>3 DEF Accounted, Lossless
    <3>3. ASSUME NEW j \in CallsSince(N, n, scan')
          PROVE  FALSE
      <4>1. j \in 1..n /\ N[j].scan = scan'
        BY DEF CallsSince
      <4>2. PICK a, b : a = M[j].scan /\ b = scan
        OBVIOUS
      <4>3. a \in Nat /\ b \in Nat /\ a <= b /\ a = b + 1
        BY <1>5, <3>1, <3>2, <4>1, <4>2
      <4> QED
        BY ONLY <4>3
    <3>4. CallsSince(N, n, scan') = {}
      BY <3>3
    <3>5. IsPeak(N, peak', CallsSince(N, n, scan'))
      BY <3>1, <3>4 DEF IsPeak
    <3> QED
      BY <1>1, <1>4, <3>5 DEF Peaked
  <2>2. CASE phase' \notin {"scanning", "replacing"}
    BY <2>2 DEF Peaked
  <2>3. CASE scan' = scan /\ peak' = peak /\ phase \in {"scanning", "replacing"}
    <3>1. IsPeak(M, peak, CallsSince(M, n, scan))
      BY <1>1, <1>4, <2>3 DEF Accounted, Peaked
    <3>2. IsPeak(N, peak', CallsSince(N, n, scan'))
      BY <1>5, <2>3, <3>1
    <3> QED
      BY <1>1, <1>4, <3>2 DEF Peaked
  <2> QED
    BY <2>1, <2>2, <2>3
<1>8. Streamed'
  BY <1>2 DEF Streamed
<1> QED
  BY <1>6, <1>7, <1>8

LEMMA AccountedInit ==
  ASSUME Init
  PROVE  Accounted
<1>1. out = <<>> /\ phase = "new"
  BY DEF Init
<1>2. 1..Len(out) = {}
  BY <1>1, EmptySeq
<1>3. Sourced(Marks, out) /\ Peaks(Marks, out)
  BY <1>2 DEF Sourced, Peaks
<1> QED
  BY <1>1, <1>3, LosslessInit DEF Accounted, Peaked, Streamed

LEMMA AccountedStep ==
  ASSUME Types, Accounted, [Next]_vars
  PROVE  Accounted'
<1>0. Lossless'
  BY LosslessStep DEF Accounted
<1>1. CASE ReadSome
  BY <1>0, <1>1, AccountedTaken DEF Accounted
<1>2. CASE Start \/ ResumeAfterCleanExit \/ SpawnReplacement
  <2>1. scene' = scene /\ heard' = heard /\ out' = out /\ NewScan /\ phase' # "replacing"
    BY <1>2 DEF Start, ResumeAfterCleanExit, SpawnReplacement, NewScan
  <2> QED
    BY <1>0, <2>1, AccountedStays DEF Accounted
<1>3. CASE ReplaceSubprocess
  <2>1. /\ scene' = scene /\ heard' = heard /\ out' = out
        /\ scan' = scan /\ peak' = peak /\ phase \in {"scanning", "replacing"}
        /\ backend # "claude"
    BY <1>3 DEF ReplaceSubprocess, Streams
  <2> QED
    BY <1>0, <2>1, AccountedStays DEF Accounted
<1>4. CASE StartRefused \/ EndOfStream
  <2>1. /\ scene' = scene /\ heard' = heard /\ out' = out
        /\ phase' \notin {"scanning", "replacing"} /\ phase' # "replacing"
    BY <1>4 DEF StartRefused, EndOfStream, LoopEnds
  <2> QED
    BY <1>0, <2>1, AccountedStays DEF Accounted
<1>5. CASE UNCHANGED vars
  <2>1. /\ scene' = scene /\ heard' = heard /\ out' = out
        /\ scan' = scan /\ peak' = peak /\ phase' = phase
    BY <1>5 DEF vars
  <2>2. phase \in {"scanning", "replacing"} \/ phase' \notin {"scanning", "replacing"}
    BY <2>1
  <2>3. backend = "claude" => phase' # "replacing"
    BY <2>1 DEF Accounted, Streamed
  <2> QED
    BY <1>0, <2>1, <2>2, <2>3, AccountedStays DEF Accounted
<1> QED
  BY <1>1, <1>2, <1>3, <1>4, <1>5 DEF Next

\* What the marks say of the line a message came from.
LEMMA MarkOf ==
  ASSUME Types, Accounted, NEW k \in DOMAIN out
  PROVE  /\ k \in Nat /\ 1 <= k /\ k <= Len(out)
         /\ out[k].line \in 1..Len(heard)
         /\ Marks[out[k].line].fill = CallFill(Raw(out[k].line))
         /\ Marks[out[k].line].count = CallCount(Raw(out[k].line))
         /\ Marks[out[k].line].scan = heard[out[k].line].scan
         /\ Leads(Marks, out, k) \/ Trails(Marks, out, k)
<1>1. DOMAIN out = 1..Len(out) /\ Len(out) \in Nat
  BY LenProperties DEF Types, Proper
<1>2. out[k].line \in 1..Len(heard)
  BY DEF Accounted, Lossless, Attributed
<1>3. k \in 1..Len(out)
  BY <1>1
<1>4. Leads(Marks, out, k) \/ Trails(Marks, out, k)
  BY <1>3 DEF Accounted, Sourced
<1> QED
  BY <1>1, <1>2, <1>3, <1>4 DEF Marks

LEMMA WindowsKept ==
  ASSUME Types, Accounted
  PROVE  WindowsFollowCalls
<1>1. SUFFICES ASSUME NEW k \in DOMAIN out
               PROVE  LET msg  == out[k].msg
                          fill == CallFill(Raw(out[k].line))
                      IN IF msg.type = "context_window" /\ msg.usage # <<>>
                         THEN k > 1 /\ out[k - 1].line = out[k].line /\ fill > 0
                              /\ msg.usage[1].used = fill
                         ELSE fill > 0 =>
                                /\ k < Len(out) /\ out[k + 1].line = out[k].line
                                /\ out[k + 1].msg.type = "context_window"
                                /\ out[k + 1].msg.usage # <<>>
  BY DEF WindowsFollowCalls
<1>2. PICK fill : fill = CallFill(Raw(out[k].line))
  OBVIOUS
<1>3. k \in Nat /\ Marks[out[k].line].fill = fill
  BY <1>2, MarkOf
<1>4. CASE Leads(Marks, out, k)
  <2>1. out[k].msg.type = "context_window" => out[k].msg.usage = <<>>
    BY <1>4 DEF Leads
  <2>2. fill > 0 => k < Len(out) /\ Trails(Marks, out, k + 1)
    BY <1>3, <1>4 DEF Leads
  <2>3. fill > 0 => /\ k < Len(out) /\ out[k + 1].line = out[k].line
                    /\ out[k + 1].msg.type = "context_window" /\ out[k + 1].msg.usage # <<>>
    <3>1. (k + 1) - 1 = k
      BY <1>3
    <3> QED
      BY <2>2, <3>1 DEF Trails, Window
  <2> QED
    BY <1>2, <2>1, <2>3
<1>5. CASE Trails(Marks, out, k)
  BY <1>2, <1>3, <1>5 DEF Trails, Window
<1> QED
  BY <1>4, <1>5, MarkOf

LEMMA PeaksKept ==
  ASSUME Types, Accounted
  PROVE  PeaksOfTheirTurn
<1>1. SUFFICES ASSUME NEW k \in DOMAIN out, out[k].msg.type = "result", out[k].msg.usage # <<>>
               PROVE  out[k].msg.usage[1].used = PeakOf(out[k].line)
  BY DEF PeaksOfTheirTurn
<1>2. PICK i, p : i = out[k].line /\ p = out[k].msg.usage[1].used
  OBVIOUS
<1>3. /\ k \in 1..Len(out) /\ i \in 1..Len(heard) /\ Marks[i].scan = heard[i].scan
      /\ i \in Nat /\ Len(heard) \in Nat
  <2>1. Len(out) \in Nat /\ DOMAIN out = 1..Len(out) /\ Len(heard) \in Nat
    BY LenProperties DEF Types, Proper
  <2> QED
    BY <1>2, <2>1, MarkOf
<1>4. IsPeak(Marks, p, CallsSince(Marks, i - 1, heard[i].scan))
  BY <1>1, <1>2, <1>3 DEF Accounted, Peaks
<1>5. \A j \in 1..Len(heard) :
        /\ Marks[j].scan = heard[j].scan /\ Marks[j].fill = CallFill(Raw(j))
        /\ Marks[j].resets = Resets(j)
  BY DEF Marks
<1>6. PICK L : L = {j \in Since(i, {"init", "result"}) :
                      \A m \in (j + 1)..(i - 1) :
                        HasType(m, {"error"}) => Malformed(backend, Raw(m))}
  OBVIOUS
<1>7. \A j : j \in L <=> j \in CallsSince(Marks, i - 1, heard[i].scan)
  <2>1. \A j : Resets(j) \cap {"init", "result"} = {} <=> ~HasType(j, {"init", "result"})
    BY DEF Resets, HasType
  <2>2. \A j : Resets(j) = {} <=> /\ ~HasType(j, {"init", "result"})
                                  /\ HasType(j, {"error"}) => Malformed(backend, Raw(j))
    BY DEF Resets, HasType
  <2>3. ASSUME NEW j
        PROVE  j \in L <=> j \in CallsSince(Marks, i - 1, heard[i].scan)
    <3>1. j \in CallsSince(Marks, i - 1, heard[i].scan) <=>
            /\ j \in 1..(i - 1) /\ Marks[j].scan = heard[i].scan
            /\ Marks[j].resets \cap {"init", "result"} = {}
            /\ \A m \in (j + 1)..(i - 1) : Marks[m].resets = {}
      BY DEF CallsSince
    <3>2. j \in L <=>
            /\ j \in 1..(i - 1) /\ heard[j].scan = heard[i].scan
            /\ \A m \in j..(i - 1) : ~HasType(m, {"init", "result"})
            /\ \A m \in (j + 1)..(i - 1) : HasType(m, {"error"}) => Malformed(backend, Raw(m))
      BY <1>6 DEF Since
    <3>3. CASE j \notin 1..(i - 1)
      BY <3>1, <3>2, <3>3
    <3>4. CASE j \in 1..(i - 1)
      <4>1. \A m \in j..(i - 1) : m \in 1..Len(heard) /\ (m = j \/ m \in (j + 1)..(i - 1))
        BY <1>3, <3>4
      <4>2. j \in j..(i - 1) /\ \A m \in (j + 1)..(i - 1) : m \in j..(i - 1)
        BY <1>3, <3>4
      <4>3. \A m \in j..(i - 1) : Marks[m].scan = heard[m].scan /\ Marks[m].resets = Resets(m)
        BY <1>5, <4>1
      <4>4. /\ Marks[j].scan = heard[j].scan
            /\ Marks[j].resets \cap {"init", "result"} = {} <=> ~HasType(j, {"init", "result"})
        BY <2>1, <4>2, <4>3
      <4>5. (\A m \in (j + 1)..(i - 1) : Marks[m].resets = {}) <=>
              /\ \A m \in (j + 1)..(i - 1) : ~HasType(m, {"init", "result"})
              /\ \A m \in (j + 1)..(i - 1) : HasType(m, {"error"}) => Malformed(backend, Raw(m))
        BY <2>2, <4>2, <4>3
      <4>6. (\A m \in j..(i - 1) : ~HasType(m, {"init", "result"})) <=>
              /\ ~HasType(j, {"init", "result"})
              /\ \A m \in (j + 1)..(i - 1) : ~HasType(m, {"init", "result"})
        BY ONLY <4>1, <4>2
      <4> QED
        BY <3>1, <3>2, <3>4, <4>4, <4>5, <4>6
    <3> QED
      BY <3>3, <3>4
  <2> QED
    BY <2>3
<1>8. L \subseteq 1..Len(heard)
  BY <1>3, <1>6 DEF Since
<1>9. PICK S : S = {0} \cup {CallFill(Raw(j)) : j \in L}
  OBVIOUS
<1>10. PeakOf(i) = Max(S)
  BY <1>6, <1>9 DEF PeakOf
<1>11. p \in S /\ \A x \in S : x \in Int /\ p >= x
  <2>1. p \in Nat /\ (p = 0 \/ \E j \in L : p = CallFill(Raw(j)))
    BY <1>4, <1>5, <1>7, <1>8 DEF IsPeak
  <2>2. \A j \in L : CallFill(Raw(j)) \in 0..p
    BY <1>4, <1>5, <1>7, <1>8 DEF IsPeak
  <2> QED
    BY <1>9, <2>1, <2>2
<1> QED
  BY <1>2, <1>10, <1>11, MaxIs

-----------------------------------------------------------------------------
(* A turn's summary.                                                       *)

\* A message more: its tool calls, and a result's reason.
LEMMA AddTakes ==
  ASSUME NEW summary, DOMAIN summary = DOMAIN EmptySummary, Proper(summary.calls),
         NEW msg, Proper(Gathered(msg))
  PROVE  /\ DOMAIN Add(summary, msg) = DOMAIN EmptySummary
         /\ Proper(Add(summary, msg).calls)
         /\ Len(Add(summary, msg).calls) = Len(summary.calls) + Len(Gathered(msg))
         /\ msg.type = "result" => Add(summary, msg).result /\ Add(summary, msg).stop = msg.stop
<1>1. PICK s : s = [summary EXCEPT !.calls = @ \o CallsOf(msg)]
  OBVIOUS
<1>2. /\ DOMAIN s = DOMAIN EmptySummary /\ s.calls = summary.calls \o CallsOf(msg)
      /\ DOMAIN EmptySummary = {"texts", "thoughts", "errors", "calls", "usage", "stop",
                                "denials", "isError", "result"}
  BY <1>1 DEF EmptySummary
<1>3. CASE IsDelta(msg.type)
  <2>1. Add(summary, msg) = summary \/ msg.type \in {"text", "thinking", "error", "result"}
    BY <1>3 DEF Add
  <2>2. msg.type \notin {"text", "thinking", "error", "result"}
    BY <1>3 DEF IsDelta, Deltas
  <2>3. Gathered(msg) = <<>> /\ Len(summary.calls) \in Nat
    BY <1>3, LenProperties DEF Gathered, Proper
  <2> QED
    BY <2>1, <2>2, <2>3, EmptySeq
<1>4. CASE ~IsDelta(msg.type)
  <2>1. /\ DOMAIN Add(summary, msg) = DOMAIN EmptySummary
        /\ Add(summary, msg).calls = summary.calls \o CallsOf(msg)
        /\ msg.type = "result" => Add(summary, msg).result /\ Add(summary, msg).stop = msg.stop
    <3>1. CASE msg.type = "result"
      <4>1. Add(summary, msg) = [s EXCEPT !.usage = msg.usage, !.stop = msg.stop,
                                          !.denials = msg.denials, !.isError = msg.isError,
                                          !.result = TRUE]
        BY <1>1, <1>4, <3>1 DEF Add
      <4> QED
        BY <1>2, <4>1
    <3>2. CASE msg.type # "result"
      <4>1. \/ Add(summary, msg) = s
            \/ Add(summary, msg) = [s EXCEPT !.texts = @ + 1]
            \/ Add(summary, msg) = [s EXCEPT !.thoughts = @ + 1]
            \/ Add(summary, msg) = [s EXCEPT !.errors = @ + 1]
        BY <1>1, <1>4, <3>2 DEF Add
      <4> QED
        BY <1>2, <3>2, <4>1
    <3> QED
      BY <3>1, <3>2
  <2>2. Gathered(msg) = CallsOf(msg)
    BY <1>4 DEF Gathered
  <2>3. PICK calls, taken : calls = summary.calls /\ taken = CallsOf(msg)
    OBVIOUS
  <2>4. /\ Len(taken) \in Nat /\ taken \in [1..Len(taken) -> {taken[i] : i \in DOMAIN taken}]
        /\ Proper(calls)
    BY <2>2, <2>3, LenProperties DEF Proper
  <2>5. Extended(calls \o taken, calls, Len(taken), taken)
    BY ONLY <2>4, ProperConcat
  <2> QED
    BY <2>1, <2>2, <2>3, <2>5 DEF Extended
<1> QED
  BY <1>3, <1>4

\* The calls of one line more.
LEMMA CallsCounted ==
  ASSUME NEW C, IsFiniteSet(C), NEW i, NEW n \in Nat, \A c \in C : c[1] # i
  PROVE  /\ IsFiniteSet(C \cup ({i} \X (1..n)))
         /\ Cardinality(C \cup ({i} \X (1..n))) = Cardinality(C) + n
<1>1. PICK P : P = {i} \X (1..n)
  OBVIOUS
<1>2. /\ IsFiniteSet({i}) /\ Cardinality({i}) = 1
      /\ IsFiniteSet(1..n) /\ Cardinality(1..n) = n
  <2>1. IsFiniteSet(1..n) /\ Cardinality(1..n) = IF 1 > n THEN 0 ELSE n - 1 + 1
    BY FS_Interval
  <2>2. IsFiniteSet({i}) /\ Cardinality({i}) = 1
    BY FS_Singleton, Zenon
  <2>3. Cardinality(1..n) = n
    BY <2>1
  <2> QED
    BY <2>1, <2>2, <2>3
<1>3. IsFiniteSet(P) /\ Cardinality(P) = n
  <2>1. IsFiniteSet({i} \X (1..n)) /\ Cardinality({i} \X (1..n)) = Cardinality({i}) * Cardinality(1..n)
    BY ONLY <1>2, FS_Product
  <2>2. 1 * n = n
    OBVIOUS
  <2> QED
    BY ONLY <1>1, <1>2, <2>1, <2>2
<1>4. C \cap P = {}
  BY <1>1
<1>5. Cardinality(C \cap P) = 0 /\ Cardinality(C) \in Nat
  BY <1>4, FS_EmptySet, FS_CardinalityType
<1>6. IsFiniteSet(C \cup P) /\ Cardinality(C \cup P) = Cardinality(C) + Cardinality(P) - Cardinality(C \cap P)
  BY ONLY IsFiniteSet(C), <1>3, FS_Union
<1> QED
  BY <1>1, <1>3, <1>5, <1>6

LEMMA TurnsStart ==
  ASSUME Types, NEW k \in DOMAIN out
  PROVE  /\ TurnStart(k) \in Nat /\ 1 <= TurnStart(k) /\ TurnStart(k) <= k
         /\ k = 1 \/ out[k - 1].msg.type = "result" => TurnStart(k) = k
         /\ k > 1 /\ out[k - 1].msg.type # "result" => TurnStart(k) = TurnStart(k - 1)
<1>1. PICK results : results = {j \in 1..(k - 1) : out[j].msg.type = "result"}
  OBVIOUS
<1>2. TurnStart(k) = IF results = {} THEN 1 ELSE Max(results) + 1
  BY <1>1 DEF TurnStart
<1>3. k \in Nat /\ k >= 1 /\ k - 1 \in Nat /\ results \subseteq 1..(k - 1)
  <2>1. DOMAIN out = 1..Len(out) /\ Len(out) \in Nat
    BY LenProperties DEF Types, Proper
  <2> QED
    BY <1>1, <2>1
<1>4. results # {} => Max(results) \in 1..(k - 1)
  BY <1>3, GreatestOf
<1>5. TurnStart(k) \in Nat /\ 1 <= TurnStart(k) /\ TurnStart(k) <= k
  BY <1>2, <1>3, <1>4
<1>6. CASE k = 1
  BY <1>2, <1>3, <1>6
<1>7. CASE k > 1 /\ out[k - 1].msg.type = "result"
  <2>1. k - 1 \in results
    BY <1>1, <1>3, <1>7
  <2>2. Max(results) = k - 1
    BY <1>3, <2>1, GreatestIs
  <2> QED
    BY <1>2, <1>3, <1>5, <1>7, <2>1, <2>2
<1>8. CASE k > 1 /\ out[k - 1].msg.type # "result"
  <2>1. \A j : j \in results <=> j \in 1..((k - 1) - 1) /\ out[j].msg.type = "result"
    BY <1>1, <1>3, <1>8
  <2>2. results = {j \in 1..((k - 1) - 1) : out[j].msg.type = "result"}
    BY <2>1
  <2>3. TurnStart(k - 1) = IF results = {} THEN 1 ELSE Max(results) + 1
    BY <2>2 DEF TurnStart
  <2> QED
    BY <1>2, <1>5, <1>8, <2>3
<1> QED
  BY <1>3, <1>5, <1>6, <1>7, <1>8

\* The lines of out[k]'s turn up to it are those up to its own, and their tool
\* calls are as many as the summary so far has.
LinesUpTo(k) == {out[j].line : j \in TurnStart(k)..k}

Counted(k) ==
  /\ \A i \in LinesUpTo(k) : i <= out[k].line
  /\ IsFiniteSet(CallsOn(LinesUpTo(k)))
  /\ DOMAIN Summary(TurnUpTo(k)) = DOMAIN EmptySummary
  /\ Proper(Summary(TurnUpTo(k)).calls)
  /\ Len(Summary(TurnUpTo(k)).calls) = Cardinality(CallsOn(LinesUpTo(k)))

\* What the turn had before out[k]: a summary, and the calls of some lines.
Before(k, summary, lines) ==
  /\ \A i \in lines : i <= out[k].line
  /\ IsFiniteSet(CallsOn(lines))
  /\ DOMAIN summary = DOMAIN EmptySummary
  /\ Proper(summary.calls)
  /\ Len(summary.calls) = Cardinality(CallsOn(lines))
  /\ Summary(TurnUpTo(k)) = Add(summary, out[k].msg)
  /\ \A i : i \in LinesUpTo(k) <=> i \in lines \/ i = out[k].line
  /\ IF k > 1 /\ out[k - 1].msg.type # "result" THEN out[k - 1].line \in lines /\
                                                     (\A i \in lines : i <= out[k - 1].line)
     ELSE lines = {}

\* The first message of a turn follows nothing; any other, what was so far.
LEMMA WhatIsBefore ==
  ASSUME Types, Accounted, NEW k \in DOMAIN out,
         k > 1 => Counted(k - 1)
  PROVE  \E summary, lines : Before(k, summary, lines)
<1>0. /\ DOMAIN out = 1..Len(out) /\ Len(out) \in Nat /\ k \in Nat /\ 1 <= k
      /\ \A j \in DOMAIN out : out[j].line \in Nat
  <2>1. DOMAIN out = 1..Len(out) /\ Len(out) \in Nat
    BY LenProperties DEF Types, Proper
  <2>2. \A j \in DOMAIN out : out[j].line \in 1..Len(heard)
    BY DEF Accounted, Lossless, Attributed
  <2> QED
    BY <2>1, <2>2
<1>1. PICK m \in Nat : m = k - TurnStart(k) + 1
  BY <1>0, TurnsStart
<1>2. PICK turn : turn = TurnUpTo(k)
  OBVIOUS
<1>3. /\ DOMAIN turn = 1..m
      /\ \A j \in 1..m : turn[j] = out[TurnStart(k) + j - 1].msg
      /\ Summary(TurnUpTo(k)) = Summary(turn)
  BY <1>1, <1>2 DEF TurnUpTo
<1>4. m > 0 /\ m \in 1..m /\ turn[m] = out[k].msg
  <2>1. m \in 1..m /\ TurnStart(k) + m - 1 = k
    BY <1>0, <1>1, TurnsStart
  <2> QED
    BY <1>3, <2>1
<1>5. \A r : DOMAIN r = 1..(m - 1) /\ (\A j \in 1..(m - 1) : r[j] = turn[j])
               => Summary(turn) = Add(Summary(r), out[k].msg)
  BY ONLY m \in Nat, <1>3, <1>4, SummaryGrows
<1>6. CASE k = 1 \/ out[k - 1].msg.type = "result"
  <2>1. TurnStart(k) = k /\ m = 1
    BY <1>0, <1>1, <1>6, TurnsStart
  <2>2. PICK none : none = [j \in 1..0 |-> 0]
    OBVIOUS
  <2>3. DOMAIN none = 1..0 /\ 0 \in Nat
    BY <2>2
  <2>4. Summary(none) = EmptySummary
    BY ONLY <2>3, SummaryGrows
  <2>5. Summary(TurnUpTo(k)) = Add(EmptySummary, out[k].msg)
    <3>1. 1..(m - 1) = {} /\ 1..0 = {}
      BY <2>1
    <3> QED
      BY <1>3, <1>5, <2>3, <2>4, <3>1
  <2>6. \A i : i \in LinesUpTo(k) <=> i = out[k].line
    <3>1. k..k = {k}
      BY <1>0
    <3> QED
      BY <2>1, <3>1 DEF LinesUpTo
  <2>7. CallsOn({}) = {}
    BY DEF CallsOn
  <2>8. EmptySummary.calls = <<>> /\ Proper(<<>>) /\ Len(<<>>) = 0
    BY ShortSequences DEF EmptySummary
  <2>9. Before(k, EmptySummary, {})
    BY <1>6, <2>5, <2>6, <2>7, <2>8, FS_EmptySet, SMTT(40) DEF Before
  <2> QED
    BY <2>9
<1>7. CASE k > 1 /\ out[k - 1].msg.type # "result"
  <2>0. Counted(k - 1) /\ k - 1 \in DOMAIN out
    BY <1>0, <1>7
  <2>1. TurnStart(k) = TurnStart(k - 1) /\ m = (k - 1) - TurnStart(k - 1) + 1 + 1
    BY <1>0, <1>1, <1>7, <2>0, TurnsStart
  <2>2. PICK start : start = TurnStart(k - 1) /\ start = TurnStart(k) /\ start \in Nat /\ start <= k - 1
    BY <2>0, <2>1, TurnsStart
  <2>3. m - 1 = (k - 1) - start + 1
    BY <1>0, <2>1, <2>2
  <2>4. PICK r : r = TurnUpTo(k - 1)
    OBVIOUS
  <2>5. DOMAIN r = 1..(m - 1) /\ \A j \in 1..(m - 1) : r[j] = out[start + j - 1].msg
    BY <2>2, <2>3, <2>4 DEF TurnUpTo
  <2>6. \A j \in 1..(m - 1) : r[j] = turn[j]
    <3>1. \A j \in 1..(m - 1) : j \in 1..m
      BY <1>1
    <3> QED
      BY <1>3, <2>2, <2>5, <3>1
  <2>7. Summary(TurnUpTo(k)) = Add(Summary(TurnUpTo(k - 1)), out[k].msg)
    BY <1>3, <1>5, <2>4, <2>5, <2>6
  <2>8. \A i : i \in LinesUpTo(k) <=> i \in LinesUpTo(k - 1) \/ i = out[k].line
    <3>1. \A j : j \in start..k <=> j \in start..(k - 1) \/ j = k
      BY <1>0, <2>2
    <3> QED
      BY <2>2, <3>1 DEF LinesUpTo
  <2>9. out[k - 1].line \in LinesUpTo(k - 1) /\ \A i \in LinesUpTo(k - 1) : i \in Nat
    <3>1. k - 1 \in start..(k - 1) /\ \A j \in start..(k - 1) : j \in DOMAIN out
      <4>1. 1 <= start
        BY <1>0, <2>2, TurnsStart
      <4> QED
        BY <1>0, <2>0, <2>2, <4>1
    <3> QED
      BY <1>0, <2>2, <3>1 DEF LinesUpTo
  <2>10. out[k - 1].line <= out[k].line
    <3>1. Leads(Marks, out, k) \/ Trails(Marks, out, k)
      BY MarkOf
    <3> QED
      BY <1>0, <1>7, <2>0, <3>1 DEF Leads, Trails
  <2>11. \A i \in LinesUpTo(k - 1) : i <= out[k].line
    <3>1. PICK a, b : a = out[k - 1].line /\ b = out[k].line /\ a \in Nat /\ b \in Nat /\ a <= b
      BY <1>0, <2>0, <2>10
    <3>2. \A i \in LinesUpTo(k - 1) : i \in Nat /\ i <= a
      BY <2>0, <2>9, <3>1 DEF Counted
    <3> QED
      BY ONLY <3>1, <3>2
  <2>12. Before(k, Summary(TurnUpTo(k - 1)), LinesUpTo(k - 1))
    BY <1>7, <2>0, <2>7, <2>8, <2>9, <2>11 DEF Before, Counted
  <2> QED
    BY <2>12
<1> QED
  BY <1>0, <1>6, <1>7

LEMMA CountGrows ==
  ASSUME Types, Accounted, NEW k \in DOMAIN out,
         k > 1 => Counted(k - 1)
  PROVE  /\ Counted(k)
         /\ out[k].msg.type = "result" =>
              Summary(TurnUpTo(k)).result /\ Summary(TurnUpTo(k)).stop = out[k].msg.stop
<1>1. PICK summary, lines : Before(k, summary, lines)
  BY WhatIsBefore
<1>2. PICK i, msg, now : i = out[k].line /\ msg = out[k].msg /\ now = Add(summary, msg)
  OBVIOUS
<1>3. i \in Nat /\ \A j \in LinesUpTo(k) : j <= i
  <2>1. i \in 1..Len(heard)
    BY <1>2, MarkOf
  <2> QED
    BY <1>1, <1>2, <2>1 DEF Before
<1>4. /\ Proper(Gathered(msg))
      /\ DOMAIN summary = DOMAIN EmptySummary /\ Proper(summary.calls)
  <2>1. Proper(Gathered(msg))
    <3>1. CASE Leads(Marks, out, k)
      BY <1>2, <3>1 DEF Leads
    <3>2. CASE Trails(Marks, out, k)
      BY <1>2, <3>2, ShortSequences DEF Trails, Window
    <3> QED
      BY <3>1, <3>2, MarkOf
  <2> QED
    BY <1>1, <2>1 DEF Before
<1>5. /\ DOMAIN now = DOMAIN EmptySummary /\ Proper(now.calls)
      /\ Len(now.calls) = Len(summary.calls) + Len(Gathered(msg))
      /\ msg.type = "result" => now.result /\ now.stop = msg.stop
  BY <1>2, <1>4, AddTakes
<1>6. Summary(TurnUpTo(k)) = now
  BY <1>1, <1>2 DEF Before
<1>7. PICK C, D : C = CallsOn(lines) /\ D = CallsOn(LinesUpTo(k))
  OBVIOUS
<1>8. IsFiniteSet(C) /\ Cardinality(C) \in Nat /\ Len(summary.calls) = Cardinality(C)
  BY <1>1, <1>7, FS_CardinalityType DEF Before
<1>9. IsFiniteSet(D) /\ Len(now.calls) = Cardinality(D)
  <2>1. CASE Leads(Marks, out, k)
    <3>1. i \notin lines
      <4>1. CASE k > 1 /\ out[k - 1].msg.type # "result"
        <5>1. PICK a : a = out[k - 1].line
          OBVIOUS
        <5>2. a < i /\ a \in Nat
          <6>1. k - 1 \in DOMAIN out
            <7>1. DOMAIN out = 1..Len(out) /\ Len(out) \in Nat
              BY LenProperties DEF Types, Proper
            <7> QED
              BY <4>1, <7>1
          <6>2. out[k - 1].line \in 1..Len(heard)
            BY <6>1, MarkOf
          <6> QED
            BY <1>2, <2>1, <4>1, <5>1, <6>2 DEF Leads
        <5>3. \A j \in lines : j <= a
          BY <1>1, <4>1, <5>1 DEF Before
        <5> QED
          BY ONLY <1>3, <5>2, <5>3
      <4>2. CASE ~(k > 1 /\ out[k - 1].msg.type # "result")
        BY <1>1, <4>2 DEF Before
      <4> QED
        BY <4>1, <4>2
    <3>2. PICK n : n = CallCount(Raw(i))
      OBVIOUS
    <3>3. n = Len(Gathered(msg)) /\ n \in Nat
      <4>1. Len(Gathered(msg)) = n
        BY <1>2, <2>1, <3>2, MarkOf DEF Leads
      <4> QED
        BY <1>4, <4>1, LenProperties DEF Proper
    <3>4. D = C \cup ({i} \X (1..n))
      <4>1. \A c : c \in D <=> \E j \in LinesUpTo(k) : c \in {j} \X (1..CallCount(Raw(j)))
        BY <1>7 DEF CallsOn
      <4>2. \A c : c \in C <=> \E j \in lines : c \in {j} \X (1..CallCount(Raw(j)))
        BY <1>7 DEF CallsOn
      <4>3. \A j : j \in LinesUpTo(k) <=> j \in lines \/ j = i
        BY <1>1, <1>2 DEF Before
      <4>4. \A c : c \in D <=> c \in C \/ c \in {i} \X (1..n)
        BY ONLY <3>2, <4>1, <4>2, <4>3, Zenon
      <4> QED
        BY <4>4
    <3>5. \A c \in C : c[1] # i
      <4>1. ASSUME NEW c \in C, c[1] = i
            PROVE  FALSE
        <5>1. PICK j \in lines : c \in {j} \X (1..CallCount(Raw(j)))
          BY <1>7 DEF CallsOn
        <5>2. c[1] = j
          BY <5>1
        <5> QED
          BY <3>1, <4>1, <5>2
      <4> QED
        BY <4>1
    <3>6. IsFiniteSet(D) /\ Cardinality(D) = Cardinality(C) + n
      BY ONLY <1>8, <3>3, <3>4, <3>5, CallsCounted, ZenonT(60)
    <3> QED
      BY <1>5, <1>8, <3>3, <3>6
  <2>2. CASE Trails(Marks, out, k)
    <3>1. i \in lines
      BY <1>1, <1>2, <2>2 DEF Before, Trails
    <3>2. \A j : j \in LinesUpTo(k) <=> j \in lines
      BY <1>1, <1>2, <3>1 DEF Before
    <3>3. D = C
      <4>1. LinesUpTo(k) = lines
        BY <3>2
      <4> QED
        BY <1>7, <4>1
    <3>4. Gathered(msg) = <<>>
      BY <1>2, <2>2 DEF Trails, Window
    <3> QED
      BY <1>5, <1>8, <3>3, <3>4, EmptySeq
  <2> QED
    BY <2>1, <2>2, MarkOf
<1> QED
  BY <1>2, <1>3, <1>5, <1>6, <1>7, <1>9 DEF Counted

LEMMA SummariesKept ==
  ASSUME Types, Accounted
  PROVE  SummariesExact
<1>1. DOMAIN out = 1..Len(out) /\ Len(out) \in Nat
  BY LenProperties DEF Types, Proper
<1>2. \A k \in DOMAIN out : Counted(k)
  <2>1. PICK T : T = {k \in 1..Len(out) : ~Counted(k)}
    OBVIOUS
  <2>2. CASE T = {}
    BY <1>1, <2>1, <2>2
  <2>3. CASE T # {}
    <3>1. T \subseteq Nat
      BY <1>1, <2>1
    <3>2. PICK k \in T : \A j \in T : k <= j
      BY ONLY <2>3, <3>1, LeastNatural
    <3>3. k \in DOMAIN out /\ ~Counted(k)
      BY <1>1, <2>1, <3>2
    <3>4. k > 1 => Counted(k - 1)
      <4>1. k > 1 => k - 1 \in 1..Len(out) /\ k - 1 \notin T
        BY <1>1, <3>2, <3>3
      <4> QED
        BY <2>1, <4>1
    <3> QED
      BY <3>3, <3>4, CountGrows
  <2> QED
    BY <2>2, <2>3
<1>3. ASSUME NEW k \in DOMAIN out, out[k].msg.type = "result"
      PROVE  /\ Summary(TurnUpTo(k)).result
             /\ Summary(TurnUpTo(k)).stop = out[k].msg.stop
             /\ Len(Summary(TurnUpTo(k)).calls)
                  = Cardinality(CallsOn({out[j].line : j \in TurnStart(k)..k}))
  <2>1. k > 1 => k - 1 \in DOMAIN out
    BY <1>1
  <2>2. Summary(TurnUpTo(k)).result /\ Summary(TurnUpTo(k)).stop = out[k].msg.stop
    BY <1>2, <1>3, <2>1, CountGrows
  <2> QED
    BY <1>2, <2>2 DEF Counted, LinesUpTo
<1> QED
  BY <1>3 DEF SummariesExact

-----------------------------------------------------------------------------
(* What the consumer sees is what the agent said.                          *)

\* A context window the consumer sees, unless it is a line of the agent's own,
\* follows the message of a model call that filled some of the context and has
\* that call's fill, and every such call is followed by one
\* (applyContextFill and emitWithSynthesis in engine/cli/process.go).
THEOREM WindowsFollow == Spec => []WindowsFollowCalls
<1>1. Init => Types /\ Accounted
  BY TypesInit, AccountedInit
<1>2. Types /\ Accounted /\ [Next]_vars => (Types /\ Accounted)'
  BY TypesStep, AccountedStep
<1>3. Types /\ Accounted => WindowsFollowCalls
  BY WindowsKept
<1> QED
  BY <1>1, <1>2, <1>3, PTL DEF Spec

\* The context fill of a result is the largest of the model calls of its own
\* turn: no call of an earlier turn, of an earlier subprocess, of a subagent
\* or from before an error of the backend's counts (applyContextFill and
\* scanLines in engine/cli/process.go).
THEOREM PeaksAreOwn == Spec => []PeaksOfTheirTurn
<1>1. Init => Types /\ Accounted
  BY TypesInit, AccountedInit
<1>2. Types /\ Accounted /\ [Next]_vars => (Types /\ Accounted)'
  BY TypesStep, AccountedStep
<1>3. Types /\ Accounted => PeaksOfTheirTurn
  BY PeaksKept
<1> QED
  BY <1>1, <1>2, <1>3, PTL DEF Spec

\* The summary of a turn of any length, as TurnSummary.Add makes it one
\* message at a time, has each tool call of the turn's lines once, and the
\* stop reason of the turn's result.
THEOREM SummariesAreExact == Spec => []SummariesExact
<1>1. Init => Types /\ Accounted
  BY TypesInit, AccountedInit
<1>2. Types /\ Accounted /\ [Next]_vars => (Types /\ Accounted)'
  BY TypesStep, AccountedStep
<1>3. Types /\ Accounted => SummariesExact
  BY SummariesKept
<1> QED
  BY <1>1, <1>2, <1>3, PTL DEF Spec

\* What a consumer sees is what the agent said: which lines are read, whose
\* stop reason and whose peak fill a result has, which context windows are
\* made up and what the turn's summary counts (applyStopReasonCarryForward,
\* applyContextFill and emitWithSynthesis in engine/cli/process.go, ReadLine
\* in lineread.go, TurnSummary.Add).
THEOREM StreamIsFaithful == Spec => []StreamFaithful
<1>1. StreamFaithful <=> /\ LinesKept /\ ReasonsOfTheirTurn /\ PeaksOfTheirTurn
                         /\ WindowsFollowCalls /\ SummariesExact
  BY DEF StreamFaithful
<1> QED
  BY <1>1, NoLineIsLost, ReasonsAreOwn, PeaksAreOwn, WindowsFollow, SummariesAreExact, PTL
=============================================================================

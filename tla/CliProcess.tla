----------------------------- MODULE CliProcess -----------------------------
(***************************************************************************)
(* The life cycle of a CLI session (engine/cli/process.go): one `process`  *)
(* value, the subprocesses it runs one after the other, one readLoop       *)
(* goroutine per subprocess, and the goroutines that call Send and Stop.   *)
(*                                                                         *)
(* A subprocess, its reader and its read context share one index, the      *)
(* generation: generation 1 is started by newProcess, each later one by a  *)
(* Send that resumes.  An epoch is one pair of output/done channels:       *)
(* p.output and p.done are the channels of the current epoch, which        *)
(* spawnCleanResume advances.                                              *)
(*                                                                         *)
(* p.mu is the boolean `locked`.  A critical section whose effects nobody  *)
(* can see half done is one action, guarded by ~locked; only finishLocked, *)
(* which closes two channels that other goroutines watch without the lock, *)
(* holds it over two steps.                                                *)
(***************************************************************************)
EXTENDS Naturals, Sequences

CONSTANTS
  Senders,       \* goroutines that call Send
  Stoppers,      \* goroutines that call Stop
  Backends,      \* the capabilities of the backends to consider
  OutputBuffer,  \* capacity of the output channel
  Discipline,    \* when the caller begins a Send, see MayBegin
  Faults,        \* faults the environment injects: "read", "panic", "spawn"
  MaxSends,      \* bound: calls of Send
  MaxText        \* bound: non-result lines per subprocess

ASSUME CliAssumption ==
  /\ Backends \subseteq [streamer : BOOLEAN, formatter : BOOLEAN, blocks : BOOLEAN,
                        resumer : BOOLEAN]
  /\ \A b \in Backends : (b.streamer /\ b.formatter) \/ b.resumer  \* validateSendCapability
  /\ OutputBuffer \in Nat \ {0}
  /\ Discipline \in {"any", "afterResult", "afterClose"}
  /\ Faults \subseteq {"read", "panic", "spawn"}
  /\ MaxSends \in Nat
  /\ MaxText \in Nat

VARIABLES
  caps,       \* p.caps: capabilities of the session's backend
  epoch,      \* index of the channels p.output and p.done refer to
  chan,       \* per epoch: done closed?, output closed?, output's buffer
  termErr,    \* p.termErr
  finished,   \* p.finishOnce has run
  locked,     \* p.mu is held across steps (by finishLocked)
  cmd,        \* generation p.cmd, p.stdin and p.cancelRead belong to
  replacing,  \* p.replacing
  cmdDone,    \* tokens in the channel p.cmdDone, capacity 1
  awaiting,   \* p.awaitingResult
  stopping,   \* p.stopping
  stopOnce,   \* state of p.stopOnce
  gens,       \* generations spawned so far
  sub,        \* per generation: the subprocess
  loop,       \* per generation: its readLoop goroutine
  snd,        \* per sender: the call in progress
  sends,      \* calls of Send begun
  stp,        \* per stopper: the call in progress
  turn        \* how the consumer of Output() left its last turn

chanVars == <<epoch, chan, termErr, finished, locked>>
ctlVars  == <<cmd, replacing, cmdDone, awaiting, stopping, stopOnce>>
vars == <<caps, chanVars, ctlVars, gens, sub, loop, snd, sends, stp, turn>>

Gens   == 1 .. (MaxSends + 1)
Epochs == 0 .. MaxSends

TermErrs == {"nil", "exit", "noresult", "scan", "panic", "terminated", "ctx", "spawn"}
Lines    == {"text", "window", "result", "error"}
Messages == [kind : Lines, from : Gens]
Signals  == {"none", "term", "kill"}

FreshChannels == [done |-> FALSE, closed |-> FALSE, buf |-> <<>>]

\* A subprocess that a spawn command starts with its prompt has accepted one
\* turn; a streaming one waits for its first turn on stdin.
NoSub == [state |-> "none", sig |-> "none", reaped |-> FALSE, stdinClosed |-> FALSE,
          accepted |-> 0, results |-> 0, texts |-> 0]
Started(prompted) ==
  [NoSub EXCEPT !.state = "running", !.accepted = IF prompted THEN 1 ELSE 0]

NoLoop == [pc |-> "none", cancelled |-> FALSE, sending |-> <<>>, target |-> 0,
           err |-> "nil", cmd |-> 1, res |-> "nil"]
NewLoop == [NoLoop EXCEPT !.pc = "scan"]

IdleSender == [pc |-> "idle", expired |-> FALSE, old |-> 1, new |-> 1, err |-> "nil"]

\* Engine.Start opens a stdin pipe for a streaming backend that can format
\* input; a resumed subprocess gets one whenever the backend is a Streamer.
UseStreamer == caps.streamer /\ caps.formatter
HasStdin(g) == caps.streamer /\ (g = 1 => caps.formatter)

\* SendBlocks prefers the backend's BlockFormatter to its InputFormatter.
CanFormat == caps.blocks \/ caps.formatter

-----------------------------------------------------------------------------
(* newProcess, on the subprocess Engine.Start spawned.                     *)
Init ==
  /\ caps \in Backends
  /\ epoch = 0
  /\ chan = [e \in Epochs |-> FreshChannels]
  /\ termErr = "nil"
  /\ finished = FALSE
  /\ locked = FALSE
  /\ cmd = 1
  /\ replacing = FALSE
  /\ cmdDone = 0
  /\ awaiting = TRUE
  /\ stopping = FALSE
  /\ stopOnce = "new"
  /\ gens = 1
  /\ sub = [g \in Gens |-> IF g = 1 THEN Started(~UseStreamer) ELSE NoSub]
  /\ loop = [g \in Gens |-> IF g = 1 THEN NewLoop ELSE NoLoop]
  /\ snd = [s \in Senders |-> IdleSender]
  /\ sends = 0
  /\ stp = [t \in Stoppers |-> [pc |-> "idle", cmd |-> 1, ch |-> 0]]
  /\ turn = IF UseStreamer THEN "result" ELSE "open"

-----------------------------------------------------------------------------
(* The operating system: signals and process exit.                         *)

\* signalProcess; a process that already exited is not affected.
Signalled(S, g, sig) ==
  [S EXCEPT ![g].sig = IF S[g].state # "running" \/ @ = "kill" THEN @ ELSE sig]

\* A killed process never exits with status 0; any other one may do as it likes.
Exit(g) ==
  /\ sub[g].state = "running"
  /\ \E status \in {"exit0", "exit1"} :
       /\ status = "exit0" => sub[g].sig # "kill"
       /\ sub' = [sub EXCEPT ![g] = [@ EXCEPT !.state = status, !.sig = "none"]]
  /\ UNCHANGED <<chanVars, ctlVars, gens, loop, snd, sends, stp, turn>>

Exited(g) == sub[g].state \in {"exit0", "exit1"}

-----------------------------------------------------------------------------
(* readLoop, scanLines and emitWithSynthesis.                              *)

\* A line parses to a message; `sending` holds it and, for a message with
\* context fill, the MessageContextWindow synthesised after it.
Parsed(g, msgs) ==
  loop' = [loop EXCEPT ![g] = [@ EXCEPT !.pc = "emit", !.sending = msgs, !.target = epoch]]

ReadText(g) ==
  /\ loop[g].pc = "scan"
  /\ sub[g].texts < MaxText
  /\ \E msgs \in {<<"text">>, <<"text", "window">>} : Parsed(g, msgs)
  /\ sub' = [sub EXCEPT ![g].texts = @ + 1]
  /\ UNCHANGED <<chanVars, ctlVars, gens, snd, sends, stp, turn>>

\* Mutant of ReadResult: the result is not acknowledged.
ReadResultUnacknowledged(g) ==
  /\ loop[g].pc = "scan"
  /\ sub[g].results < sub[g].accepted
  /\ Parsed(g, <<"result">>)
  /\ UNCHANGED <<chanVars, ctlVars, gens, sub, snd, sends, stp, turn>>

\* enrichMessage acknowledges the result before it is sent.  The agent answers
\* each turn it accepted with at most one result.
ReadResult(g) ==
  /\ loop[g].pc = "scan"
  /\ sub[g].results < sub[g].accepted
  /\ awaiting' = FALSE
  /\ Parsed(g, <<"result">>)
  /\ UNCHANGED <<chanVars, cmd, replacing, cmdDone, stopping, stopOnce,
                 gens, sub, snd, sends, stp, turn>>

ReadEOF(g) ==
  /\ loop[g].pc = "scan"
  /\ loop' = [loop EXCEPT ![g].pc = "defer"]
  /\ UNCHANGED <<chanVars, ctlVars, gens, sub, snd, sends, stp, turn>>

\* A panic in the goroutine is recovered by the deferred function, which kills
\* whatever p.cmd is by then.
Panicked(g) ==
  /\ loop' = [loop EXCEPT ![g] = [@ EXCEPT !.pc = "defer", !.err = "panic",
                                           !.sending = <<>>, !.target = 0]]
  /\ sub' = Signalled(sub, cmd, "kill")

ParserPanic(g) ==
  /\ loop[g].pc = "scan"
  /\ "panic" \in Faults
  /\ Panicked(g)
  /\ UNCHANGED <<chanVars, ctlVars, gens, snd, sends, stp, turn>>

Deliver(ch, g, kind) ==
  chan' = [chan EXCEPT ![ch].buf = Append(@, [kind |-> kind, from |-> g])]

Room(ch) == Len(chan[ch].buf) < OutputBuffer

\* A reader error is surfaced as a message if there is room for it.
ReadError(g) ==
  /\ loop[g].pc = "scan"
  /\ "read" \in Faults
  /\ IF chan[epoch].closed
       THEN Panicked(g) /\ UNCHANGED chan
       ELSE /\ IF Room(epoch) THEN Deliver(epoch, g, "error") ELSE UNCHANGED chan
            /\ loop' = [loop EXCEPT ![g] = [@ EXCEPT !.pc = "readError", !.err = "scan"]]
            /\ UNCHANGED sub
  /\ UNCHANGED <<epoch, termErr, finished, locked, ctlVars, gens, snd, sends, stp, turn>>

KillAfterError(g) ==
  /\ loop[g].pc = "readError"
  /\ ~locked
  /\ sub' = Signalled(sub, cmd, "kill")
  /\ loop' = [loop EXCEPT ![g].pc = "defer"]
  /\ UNCHANGED <<chanVars, ctlVars, gens, snd, sends, stp, turn>>

\* select: the send, or the cancelled read context; a send on a closed channel
\* panics.
Emit(g) ==
  /\ loop[g].pc = "emit"
  /\ LET ch == loop[g].target
         kind == Head(loop[g].sending)
         rest == Tail(loop[g].sending)
     IN /\ ~chan[ch].closed
        /\ Room(ch)
        /\ Deliver(ch, g, kind)
        /\ loop' = [loop EXCEPT ![g] =
                      IF rest = <<>>
                        THEN [@ EXCEPT !.pc = "scan", !.sending = <<>>, !.target = 0]
                        ELSE [@ EXCEPT !.sending = rest, !.target = epoch]]
        /\ sub' = [sub EXCEPT ![g].results = IF kind = "result" THEN @ + 1 ELSE @]
  /\ UNCHANGED <<epoch, termErr, finished, locked, ctlVars, gens, snd, sends, stp, turn>>

EmitCancelled(g) ==
  /\ loop[g].pc = "emit"
  /\ loop[g].cancelled
  /\ loop' = [loop EXCEPT ![g] = [@ EXCEPT !.pc = "defer", !.sending = <<>>, !.target = 0]]
  /\ UNCHANGED <<chanVars, ctlVars, gens, sub, snd, sends, stp, turn>>

EmitOnClosed(g) ==
  /\ loop[g].pc = "emit"
  /\ chan[loop[g].target].closed
  /\ Panicked(g)
  /\ UNCHANGED <<chanVars, ctlVars, gens, snd, sends, stp, turn>>

-----------------------------------------------------------------------------
(* readLoop's deferred function: wait for the subprocess, judge how the    *)
(* session ended, finalizeTurn, signal cmdDone.                            *)

ReadCmd(g) ==
  /\ loop[g].pc = "defer"
  /\ ~locked
  /\ loop' = [loop EXCEPT ![g] = [@ EXCEPT !.pc = "wait", !.cmd = cmd]]
  /\ UNCHANGED <<chanVars, ctlVars, gens, sub, snd, sends, stp, turn>>

\* cmd.Wait: a second Wait on the same command returns an error.
Reap(g) ==
  LET c == loop[g].cmd IN
  /\ loop[g].pc = "wait"
  /\ Exited(c)
  /\ loop' = [loop EXCEPT ![g] =
                [@ EXCEPT !.pc = "judge",
                          !.res = IF sub[c].reaped \/ sub[c].state = "exit1"
                                    THEN "exit" ELSE "nil"]]
  /\ sub' = [sub EXCEPT ![c].reaped = TRUE]
  /\ UNCHANGED <<chanVars, ctlVars, gens, snd, sends, stp, turn>>

\* Mutant of Verdict: the debt of a result is not looked at.
VerdictWithoutDebt(g) ==
  IF stopping THEN "terminated"
  ELSE IF loop[g].err # "nil" THEN loop[g].err
  ELSE loop[g].res

Verdict(g) ==
  IF stopping THEN "terminated"
  ELSE IF loop[g].err # "nil" THEN loop[g].err
  ELSE IF loop[g].res = "nil" /\ awaiting THEN "noresult"
  ELSE loop[g].res

Judge(g) ==
  /\ loop[g].pc = "judge"
  /\ loop' = [loop EXCEPT ![g] =
                [@ EXCEPT !.pc = "finalize", !.res = Verdict(g), !.err = "nil", !.cmd = 1]]
  /\ UNCHANGED <<chanVars, ctlVars, gens, sub, snd, sends, stp, turn>>

\* finishLocked up to close(done); the lock stays held until CloseOutput.
CloseDone(err) ==
  /\ finished' = TRUE
  /\ termErr' = err
  /\ chan' = [chan EXCEPT ![epoch].done = TRUE]
  /\ locked' = TRUE

\* finalizeTurn: nothing to close when a Send claimed replacement, or when
\* finishOnce ran before.
FinalizeSkip(g) ==
  /\ loop[g].pc = "finalize"
  /\ ~locked
  /\ replacing \/ finished
  /\ loop' = [loop EXCEPT ![g].pc = "signal"]
  /\ UNCHANGED <<chanVars, ctlVars, gens, sub, snd, sends, stp, turn>>

FinalizeDone(g) ==
  /\ loop[g].pc = "finalize"
  /\ ~locked
  /\ ~replacing
  /\ ~finished
  /\ CloseDone(loop[g].res)
  /\ loop' = [loop EXCEPT ![g].pc = "closeOutput"]
  /\ UNCHANGED <<epoch, ctlVars, gens, sub, snd, sends, stp, turn>>

CloseOutput ==
  /\ chan' = [chan EXCEPT ![epoch].closed = TRUE]
  /\ locked' = FALSE

FinalizeOutput(g) ==
  /\ loop[g].pc = "closeOutput"
  /\ CloseOutput
  /\ loop' = [loop EXCEPT ![g].pc = "signal"]
  /\ UNCHANGED <<epoch, termErr, finished, ctlVars, gens, sub, snd, sends, stp, turn>>

\* Mutant of SignalCmdDone: the channel has room for more than one token.
SignalCmdDoneUnbounded(g) ==
  /\ loop[g].pc = "signal"
  /\ cmdDone' = cmdDone + 1
  /\ loop' = [loop EXCEPT ![g] = [NoLoop EXCEPT !.pc = "end"]]
  /\ UNCHANGED <<chanVars, cmd, replacing, awaiting, stopping, stopOnce,
                 gens, sub, snd, sends, stp, turn>>

\* The send on cmdDone blocks while the previous token is still there.
SignalCmdDone(g) ==
  /\ loop[g].pc = "signal"
  /\ cmdDone = 0
  /\ cmdDone' = 1
  /\ loop' = [loop EXCEPT ![g] = [NoLoop EXCEPT !.pc = "end"]]
  /\ UNCHANGED <<chanVars, cmd, replacing, awaiting, stopping, stopOnce,
                 gens, sub, snd, sends, stp, turn>>

-----------------------------------------------------------------------------
(* The caller: RunTurn drains Output() until a result or the close.        *)

AllIdle == \A s \in Senders : snd[s].pc = "idle"

\* When the caller starts its next turn: at any time (several goroutines, or
\* a RunTurn whose context expired), after the previous turn's result, or only
\* once it saw the output channel closed.
MayBegin ==
  CASE Discipline = "any"         -> TRUE
    [] Discipline = "afterResult" -> turn \in {"result", "closed"}
    [] Discipline = "afterClose"  -> turn = "closed"

\* A sequential sender drains only when Send has returned.
MayReceive ==
  CASE Discipline = "any"         -> TRUE
    [] Discipline = "afterResult" -> turn = "open" /\ (UseStreamer \/ AllIdle)
    [] Discipline = "afterClose"  -> turn # "closed" /\ (UseStreamer \/ AllIdle)

Receive ==
  /\ MayReceive
  /\ chan[epoch].buf # <<>>
  /\ chan' = [chan EXCEPT ![epoch].buf = Tail(@)]
  /\ turn' = IF Head(chan[epoch].buf).kind = "result" THEN "result" ELSE turn
  /\ UNCHANGED <<epoch, termErr, finished, locked, ctlVars, gens, sub, loop, snd, sends, stp>>

ReceiveClosed ==
  /\ MayReceive
  /\ turn # "closed"
  /\ chan[epoch].buf = <<>>
  /\ chan[epoch].closed
  /\ turn' = "closed"
  /\ UNCHANGED <<chanVars, ctlVars, gens, sub, loop, snd, sends, stp>>

-----------------------------------------------------------------------------
(* SendBlocks.                                                             *)

GoTo(s, pc) == snd' = [snd EXCEPT ![s].pc = pc]

\* Fields a call no longer reads are cleared.  A caller whose Send failed starts no drain for it.
Return(s) == snd' = [snd EXCEPT ![s] = IdleSender]
Succeed(s) == Return(s) /\ UNCHANGED turn
Fail(s) == Return(s) /\ turn' = IF chan[epoch].closed THEN "closed" ELSE "result"

SendBegin(s) ==
  /\ snd[s].pc = "idle"
  /\ sends < MaxSends
  /\ MayBegin
  /\ sends' = sends + 1
  /\ IF stopping
       THEN UNCHANGED <<snd, turn>>                       \* ErrTerminated
       ELSE GoTo(s, "probe") /\ turn' = "open"
  /\ UNCHANGED <<chanVars, ctlVars, gens, sub, loop, stp>>

\* The caller's context is cancelled or reaches its deadline; a write to stdin
\* never looks at it.
Expire(s) ==
  /\ caps.resumer
  /\ snd[s].pc # "idle"
  /\ ~snd[s].expired
  /\ snd' = [snd EXCEPT ![s].expired = TRUE]
  /\ UNCHANGED <<chanVars, ctlVars, gens, sub, loop, sends, stp, turn>>

\* Has the session ended?  Otherwise Path 1 (stdin) or Path 2 (replacement).
Probe(s) ==
  /\ snd[s].pc = "probe"
  /\ GoTo(s, IF chan[epoch].done THEN "classify"
             ELSE IF HasStdin(cmd) THEN "stdin" ELSE "claim")
  /\ UNCHANGED <<chanVars, ctlVars, gens, sub, loop, sends, stp, turn>>

\* Mutant of CleanExit: the terminal error is not looked at.
AnyExit == caps.resumer

CleanExit == caps.resumer /\ termErr = "nil"

Classify(s) ==
  /\ snd[s].pc = "classify"
  /\ ~locked
  /\ IF CleanExit THEN GoTo(s, "resume") /\ UNCHANGED turn ELSE Fail(s)
  /\ UNCHANGED <<chanVars, ctlVars, gens, sub, loop, sends, stp>>

-----------------------------------------------------------------------------
(* sendStdinData.                                                          *)

\* Neither formatter ("InputFormatter missing"): ErrSendNotSupported.
SendUnsupported(s) ==
  /\ snd[s].pc = "stdin"
  /\ ~CanFormat
  /\ Fail(s)
  /\ UNCHANGED <<chanVars, ctlVars, gens, sub, loop, sends, stp>>

\* Take the stdin pipe under the lock, then announce the turn before writing.
TakeStdin(s) ==
  /\ snd[s].pc = "stdin"
  /\ CanFormat
  /\ ~locked
  /\ snd' = [snd EXCEPT ![s] = [@ EXCEPT !.pc = "write", !.old = cmd]]
  /\ awaiting' = TRUE
  /\ UNCHANGED <<chanVars, cmd, replacing, cmdDone, stopping, stopOnce,
                 gens, sub, loop, sends, stp, turn>>

BrokenPipe(g) == sub[g].stdinClosed \/ Exited(g)

WriteStdin(s) ==
  /\ snd[s].pc = "write"
  /\ ~BrokenPipe(snd[s].old)
  /\ sub' = [sub EXCEPT ![snd[s].old].accepted = @ + 1]
  /\ Succeed(s)
  /\ UNCHANGED <<chanVars, ctlVars, gens, loop, sends, stp>>

WriteFails(s) ==
  /\ snd[s].pc = "write"
  /\ BrokenPipe(snd[s].old)
  /\ awaiting' = FALSE
  /\ Fail(s)
  /\ UNCHANGED <<chanVars, cmd, replacing, cmdDone, stopping, stopOnce,
                 gens, sub, loop, sends, stp>>

-----------------------------------------------------------------------------
(* resumeAfterCleanExit and spawnCleanResume.                              *)

CheckResume(s) ==
  /\ snd[s].pc = "resume"
  /\ IF stopping \/ snd[s].expired
       THEN Fail(s)
       ELSE GoTo(s, "spawnClean") /\ UNCHANGED turn
  /\ UNCHANGED <<chanVars, ctlVars, gens, sub, loop, sends, stp>>

\* spawnCmd: a subprocess starts with the prompt in its arguments.  The bound
\* never disables it: a Send spawns at most once.
Spawn(s, pc) ==
  /\ gens <= MaxSends
  /\ gens' = gens + 1
  /\ sub' = [sub EXCEPT ![gens + 1] = Started(TRUE)]
  /\ snd' = [snd EXCEPT ![s] = [@ EXCEPT !.pc = pc, !.new = gens + 1]]

\* Also ResumeArgs, LookPath and spawnCmd failing: nothing was changed yet.
SpawnCleanFails(s) ==
  /\ snd[s].pc = "spawnClean"
  /\ "spawn" \in Faults
  /\ Fail(s)
  /\ UNCHANGED <<chanVars, ctlVars, gens, sub, loop, sends, stp>>

SpawnClean(s) ==
  /\ snd[s].pc = "spawnClean"
  /\ Spawn(s, "drain")
  /\ UNCHANGED <<chanVars, ctlVars, loop, sends, stp, turn>>

\* Drop the token the previous readLoop may have left.
DrainToken(s) ==
  /\ snd[s].pc = "drain"
  /\ cmdDone' = 0
  /\ GoTo(s, "commit")
  /\ UNCHANGED <<chanVars, cmd, replacing, awaiting, stopping, stopOnce,
                 gens, sub, loop, sends, stp, turn>>

\* Mutant of FreshEpoch: finishOnce and termErr are reset, the channels are not.
ResetEpoch ==
  /\ finished' = FALSE
  /\ termErr' = "nil"
  /\ UNCHANGED epoch

FreshEpoch ==
  /\ epoch < MaxSends               \* bound, never reached: a Send commits once
  /\ epoch' = epoch + 1
  /\ finished' = FALSE
  /\ termErr' = "nil"

\* Mutant of CommitClean: a concurrent Stop is not looked for.
CommitCleanUnchecked(s) ==
  /\ snd[s].pc = "commit"
  /\ ~locked
  /\ FreshEpoch
  /\ GoTo(s, "install")
  /\ UNCHANGED <<chan, locked, sub, ctlVars, gens, loop, sends, stp, turn>>

CommitClean(s) ==
  /\ snd[s].pc = "commit"
  /\ ~locked
  /\ IF stopping
       THEN /\ sub' = Signalled(sub, snd[s].new, "kill")
            /\ GoTo(s, "abort")
            /\ UNCHANGED chanVars
       ELSE /\ FreshEpoch
            /\ GoTo(s, "install")
            /\ UNCHANGED <<chan, locked, sub>>
  /\ UNCHANGED <<ctlVars, gens, loop, sends, stp, turn>>

AbortClean(s) ==
  /\ snd[s].pc = "abort"
  /\ Exited(snd[s].new)
  /\ sub' = [sub EXCEPT ![snd[s].new].reaped = TRUE]
  /\ Fail(s)
  /\ UNCHANGED <<chanVars, ctlVars, gens, loop, sends, stp>>

-----------------------------------------------------------------------------
(* installSubprocess.                                                      *)

Install(s) ==
  /\ snd[s].pc = "install"
  /\ ~locked
  /\ cmd' = snd[s].new
  /\ replacing' = FALSE
  /\ GoTo(s, "start")
  /\ UNCHANGED <<chanVars, cmdDone, awaiting, stopping, stopOnce,
                 gens, sub, loop, sends, stp, turn>>

\* The goroutine starts on the read context that Install published, cancelled
\* already if a Stop took it from there.
StartLoop(s) ==
  /\ snd[s].pc = "start"
  /\ awaiting' = TRUE
  /\ loop' = [loop EXCEPT ![snd[s].new].pc = "scan"]
  /\ Succeed(s)
  /\ UNCHANGED <<chanVars, cmd, replacing, cmdDone, stopping, stopOnce,
                 gens, sub, sends, stp>>

-----------------------------------------------------------------------------
(* replaceSubprocess, spawnReplacement and failReplacement.                *)

\* Mutant of Claim: the terminal state is not checked again under p.mu.
ClaimUnchecked(s) ==
  /\ snd[s].pc = "claim"
  /\ ~locked
  /\ replacing' = TRUE
  /\ snd' = [snd EXCEPT ![s] = [@ EXCEPT !.pc = "interrupt", !.old = cmd]]
  /\ UNCHANGED <<chanVars, cmd, cmdDone, awaiting, stopping, stopOnce,
                 gens, sub, loop, sends, stp, turn>>

\* Under p.mu: either the turn was finalized meanwhile, or this Send claims the
\* replacement and the old readLoop will leave the channels open.
Claim(s) ==
  /\ snd[s].pc = "claim"
  /\ ~locked
  /\ IF chan[epoch].done
       THEN /\ IF termErr = "nil" THEN GoTo(s, "spawnClean") /\ UNCHANGED turn ELSE Fail(s)
            /\ UNCHANGED <<replacing, sub>>
       ELSE /\ replacing' = TRUE
            /\ sub' = [sub EXCEPT ![cmd].stdinClosed = HasStdin(cmd)]
            /\ snd' = [snd EXCEPT ![s] = [@ EXCEPT !.pc = "interrupt", !.old = cmd]]
            /\ UNCHANGED turn
  /\ UNCHANGED <<chanVars, cmd, cmdDone, awaiting, stopping, stopOnce,
                 gens, loop, sends, stp>>

\* ResumeArgs or LookPath fails before anything is claimed.
ClaimFails(s) ==
  /\ snd[s].pc = "claim"
  /\ "spawn" \in Faults
  /\ Fail(s)
  /\ UNCHANGED <<chanVars, ctlVars, gens, sub, loop, sends, stp>>

Cancel(g) == loop' = [loop EXCEPT ![g].cancelled = TRUE]

Interrupt(s) ==
  /\ snd[s].pc = "interrupt"
  /\ Cancel(snd[s].old)
  /\ sub' = Signalled(sub, snd[s].old, "term")
  /\ GoTo(s, "await")
  /\ UNCHANGED <<chanVars, ctlVars, gens, sends, stp, turn>>

TakeToken ==
  /\ cmdDone = 1
  /\ cmdDone' = 0
  /\ UNCHANGED <<cmd, replacing, awaiting, stopping>>

AwaitOld(s) ==
  /\ snd[s].pc = "await"
  /\ TakeToken
  /\ GoTo(s, "spawnReplacement")
  /\ UNCHANGED <<chanVars, stopOnce, gens, sub, loop, sends, stp, turn>>

\* Mutant of AwaitExpired: SIGKILL is not sent.
AwaitExpiredNoKill(s) ==
  /\ snd[s].pc = "await"
  /\ snd[s].expired
  /\ GoTo(s, "awaitKilled")
  /\ UNCHANGED <<chanVars, ctlVars, gens, sub, loop, sends, stp, turn>>

AwaitExpired(s) ==
  /\ snd[s].pc = "await"
  /\ snd[s].expired
  /\ sub' = Signalled(sub, snd[s].old, "kill")
  /\ GoTo(s, "awaitKilled")
  /\ UNCHANGED <<chanVars, ctlVars, gens, loop, sends, stp, turn>>

AwaitKilled(s) ==
  /\ snd[s].pc = "awaitKilled"
  /\ TakeToken
  /\ snd' = [snd EXCEPT ![s] = [@ EXCEPT !.pc = "fail", !.err = "ctx"]]
  /\ UNCHANGED <<chanVars, stopOnce, gens, sub, loop, sends, stp, turn>>

SpawnReplacement(s) ==
  /\ snd[s].pc = "spawnReplacement"
  /\ Spawn(s, "install")
  /\ UNCHANGED <<chanVars, ctlVars, loop, sends, stp, turn>>

SpawnReplacementFails(s) ==
  /\ snd[s].pc = "spawnReplacement"
  /\ "spawn" \in Faults
  /\ snd' = [snd EXCEPT ![s] = [@ EXCEPT !.pc = "fail", !.err = "spawn"]]
  /\ UNCHANGED <<chanVars, ctlVars, gens, sub, loop, sends, stp, turn>>

FailReplacement(s) ==
  /\ snd[s].pc = "fail"
  /\ ~locked
  /\ replacing' = FALSE
  /\ IF finished
       THEN GoTo(s, "failSignal") /\ UNCHANGED <<chan, termErr, finished, locked>>
       ELSE GoTo(s, "failOutput") /\ CloseDone(snd[s].err)
  /\ UNCHANGED <<epoch, cmd, cmdDone, awaiting, stopping, stopOnce,
                 gens, sub, loop, sends, stp, turn>>

FailOutput(s) ==
  /\ snd[s].pc = "failOutput"
  /\ CloseOutput
  /\ GoTo(s, "failSignal")
  /\ UNCHANGED <<epoch, termErr, finished, ctlVars, gens, sub, loop, sends, stp, turn>>

FailSignal(s) ==
  /\ snd[s].pc = "failSignal"
  /\ cmdDone' = 1
  /\ Fail(s)
  /\ UNCHANGED <<chanVars, cmd, replacing, awaiting, stopping, stopOnce,
                 gens, sub, loop, sends, stp>>

-----------------------------------------------------------------------------
(* Stop.  The first caller runs the body under stopOnce, later ones wait   *)
(* for it and then for the done channel.                                   *)

StopGoTo(t, pc) == stp' = [stp EXCEPT ![t].pc = pc]

StopCall(t) ==
  /\ stp[t].pc = "idle"
  /\ StopGoTo(t, "once")
  /\ UNCHANGED <<chanVars, ctlVars, gens, sub, loop, snd, sends, turn>>

StopFirst(t) ==
  /\ stp[t].pc = "once"
  /\ stopOnce = "new"
  /\ stopOnce' = "running"
  /\ stopping' = TRUE
  /\ StopGoTo(t, "snapshot")
  /\ UNCHANGED <<chanVars, cmd, replacing, cmdDone, awaiting,
                 gens, sub, loop, snd, sends, turn>>

\* `<-p.done` evaluates p.done once, before it blocks.
Join(t) ==
  stp' = [stp EXCEPT ![t] = [@ EXCEPT !.pc = "join", !.cmd = 1, !.ch = epoch]]

StopLater(t) ==
  /\ stp[t].pc = "once"
  /\ stopOnce = "done"
  /\ Join(t)
  /\ UNCHANGED <<chanVars, ctlVars, gens, sub, loop, snd, sends, turn>>

StopSnapshot(t) ==
  /\ stp[t].pc = "snapshot"
  /\ ~locked
  /\ sub' = [sub EXCEPT ![cmd].stdinClosed = HasStdin(cmd)]
  /\ stp' = [stp EXCEPT ![t] = [@ EXCEPT !.pc = "terminate", !.cmd = cmd]]
  /\ UNCHANGED <<chanVars, ctlVars, gens, loop, snd, sends, turn>>

\* Mutant of StopTerminate: the read context is not cancelled.
StopTerminateOnly(t) ==
  /\ stp[t].pc = "terminate"
  /\ sub' = Signalled(sub, stp[t].cmd, "term")
  /\ StopGoTo(t, "await")
  /\ UNCHANGED <<chanVars, ctlVars, gens, loop, snd, sends, turn>>

StopTerminate(t) ==
  /\ stp[t].pc = "terminate"
  /\ Cancel(stp[t].cmd)
  /\ sub' = Signalled(sub, stp[t].cmd, "term")
  /\ StopGoTo(t, "await")
  /\ UNCHANGED <<chanVars, ctlVars, gens, snd, sends, turn>>

\* Mutant of StopEscalate: SIGKILL is not sent.
StopEscalateNoKill(t) ==
  /\ stp[t].pc = "await"
  /\ StopGoTo(t, "awaitKilled")
  /\ UNCHANGED <<chanVars, ctlVars, gens, sub, loop, snd, sends, turn>>

\* The grace period elapsed or Stop's context is done.
StopEscalate(t) ==
  /\ stp[t].pc = "await"
  /\ sub' = Signalled(sub, stp[t].cmd, "kill")
  /\ StopGoTo(t, "awaitKilled")
  /\ UNCHANGED <<chanVars, ctlVars, gens, loop, snd, sends, turn>>

StopTakeToken(t) ==
  /\ stp[t].pc \in {"await", "awaitKilled"}
  /\ TakeToken
  /\ stopOnce' = "done"
  /\ Join(t)
  /\ UNCHANGED <<chanVars, gens, sub, loop, snd, sends, turn>>

StopReturn(t) ==
  /\ stp[t].pc = "join"
  /\ chan[stp[t].ch].done
  /\ StopGoTo(t, "returned")
  /\ UNCHANGED <<chanVars, ctlVars, gens, sub, loop, snd, sends, turn>>

-----------------------------------------------------------------------------
LoopStep(g) ==
  /\ \/ KillAfterError(g) \/ Emit(g) \/ EmitCancelled(g) \/ EmitOnClosed(g)
     \/ ReadCmd(g) \/ Reap(g) \/ Judge(g)
     \/ FinalizeSkip(g) \/ FinalizeDone(g) \/ FinalizeOutput(g) \/ SignalCmdDone(g)
  /\ UNCHANGED caps

LoopNext(g) ==
  \/ ReadText(g) \/ ReadResult(g) \/ ReadEOF(g) \/ ParserPanic(g) \/ ReadError(g)
  \/ LoopStep(g)

SendStep(s) ==
  /\ \/ Probe(s) \/ Classify(s) \/ SendUnsupported(s) \/ TakeStdin(s) \/ WriteFails(s)
     \/ CheckResume(s) \/ SpawnClean(s) \/ DrainToken(s) \/ CommitClean(s) \/ AbortClean(s)
     \/ Install(s) \/ StartLoop(s)
     \/ Claim(s) \/ Interrupt(s) \/ AwaitOld(s) \/ AwaitExpired(s) \/ AwaitKilled(s)
     \/ SpawnReplacement(s) \/ FailReplacement(s) \/ FailOutput(s) \/ FailSignal(s)
  /\ UNCHANGED caps

SendNext(s) ==
  \/ SendBegin(s) \/ Expire(s) \/ WriteStdin(s)
  \/ SpawnCleanFails(s) \/ ClaimFails(s) \/ SpawnReplacementFails(s)
  \/ SendStep(s)

StopStep(t) ==
  /\ \/ StopFirst(t) \/ StopLater(t) \/ StopSnapshot(t) \/ StopTerminate(t)
     \/ StopEscalate(t) \/ StopTakeToken(t) \/ StopReturn(t)
  /\ UNCHANGED caps

Next ==
  /\ \/ \E g \in Gens : Exit(g) \/ LoopNext(g)
     \/ Receive \/ ReceiveClosed
     \/ \E s \in Senders : SendNext(s)
     \/ \E t \in Stoppers : StopCall(t) \/ StopStep(t)
  /\ UNCHANGED caps

Spec == Init /\ [][Next]_vars

\* Goroutines that can run do run, a killed process dies, and a pipe whose
\* writer is gone reports EOF.  The agent, the consumer and the callers owe
\* nothing: a subprocess may ignore SIGTERM, Output() may never be read.
Fairness ==
  /\ \A g \in Gens : /\ WF_vars(LoopStep(g))
                     /\ WF_vars(Exited(g) /\ ReadEOF(g) /\ UNCHANGED caps)
                     /\ WF_vars(sub[g].sig = "kill" /\ Exit(g) /\ UNCHANGED caps)
  /\ \A s \in Senders : WF_vars(SendStep(s))
  /\ \A t \in Stoppers : WF_vars(StopStep(t))

FairSpec == Spec /\ Fairness

\* RunTurn asks for a context with a deadline: every Send's context expires.
DeadlineSpec == FairSpec /\ \A s \in Senders : WF_vars(Expire(s) /\ UNCHANGED caps)

-----------------------------------------------------------------------------
(* Properties.                                                             *)

LoopPCs == {"none", "scan", "emit", "readError", "defer", "wait", "judge",
            "finalize", "closeOutput", "signal", "end"}
SendPCs == {"idle", "probe", "classify", "stdin", "write", "resume", "spawnClean",
            "drain", "commit", "abort", "install", "start", "claim", "interrupt",
            "await", "awaitKilled", "spawnReplacement", "fail", "failOutput", "failSignal"}
StopPCs == {"idle", "once", "snapshot", "terminate", "await", "awaitKilled",
            "join", "returned"}

ChannelPair == [done : BOOLEAN, closed : BOOLEAN, buf : Seq(Messages)]
Subprocess  == [state : {"none", "running", "exit0", "exit1"}, sig : Signals,
                reaped : BOOLEAN, stdinClosed : BOOLEAN,
                accepted : Nat, results : Nat, texts : Nat]
Reader ==
  {r \in [pc : LoopPCs, cancelled : BOOLEAN, sending : Seq(Lines), target : Epochs,
          err : TermErrs, cmd : Gens, res : TermErrs] :
     r.pc = "emit" => r.sending # <<>>}
SendCall    == [pc : SendPCs, expired : BOOLEAN, old : Gens, new : Gens, err : TermErrs]
StopCalls   == [pc : StopPCs, cmd : Gens, ch : Epochs]

\* Every variable stays within the values the code can give it; in particular
\* cmdDone never holds more than the one token its buffer has room for.
TypeOK ==
  /\ caps \in Backends
  /\ epoch \in Epochs
  /\ chan \in [Epochs -> ChannelPair]
  /\ termErr \in TermErrs
  /\ finished \in BOOLEAN
  /\ locked \in BOOLEAN
  /\ cmd \in Gens
  /\ replacing \in BOOLEAN
  /\ cmdDone \in {0, 1}
  /\ awaiting \in BOOLEAN
  /\ stopping \in BOOLEAN
  /\ stopOnce \in {"new", "running", "done"}
  /\ gens \in Gens
  /\ sub \in [Gens -> Subprocess]
  /\ loop \in [Gens -> Reader]
  /\ snd \in [Senders -> SendCall]
  /\ sends \in 0 .. MaxSends
  /\ stp \in [Stoppers -> StopCalls]
  /\ turn \in {"open", "result", "closed"}

\* The reader of generation g has not come to its finalizeTurn decision.
Reading(g) == loop[g].pc \in {"scan", "emit", "readError", "defer", "wait", "judge", "finalize"}

\* installSubprocess: "Must be called while no readLoop is active for this
\* process".  At most one readLoop reads, waits for p.cmd or is about to decide
\* whether the session ends.
SingleReader == \A g, h \in Gens : Reading(g) /\ Reading(h) => g = h

Ended == chan[epoch].done

\* Err: "Returns nil if the session ended cleanly with a result message".  A
\* session that ended without error has put on Output() a result for every turn
\* its last subprocess accepted, and for one at least.
CleanExitHasResult ==
  Ended /\ termErr = "nil" => sub[cmd].results > 0 /\ sub[cmd].results = sub[cmd].accepted

\* Generation g owes a result, or a Send has just announced a turn to it.
Owes(g) == \/ sub[g].results = 0
           \/ sub[g].results < sub[g].accepted
           \/ \E s \in Senders : snd[s].pc = "write"

\* A reader judges a subprocess that is not p.cmd any more: the next one was
\* installed while this reader was still active, on a token of cmdDone that an
\* earlier reader left (see SingleReader).
Superseded(g) == loop[g].cmd # cmd

\* A readLoop reports ErrNoResult only for a subprocess that still owes the
\* result of a turn: no result is acknowledged too late or charged to the wrong
\* turn.  Excepted is a superseded reader: p.awaitingResult is by then the debt
\* of another subprocess, and its verdict may be a false alarm.
NoResultTruthful ==
  [][\A g \in Gens : loop[g].pc = "judge" /\ loop'[g].res = "noresult"
        => Owes(loop[g].cmd) \/ Superseded(g)]_vars

\* replaceSubprocess keeps the channels of the turn it interrupts: from its claim
\* until installSubprocess or failReplacement withdraws it, through the wait for
\* the old readLoop and the spawn, p.replacing stands and nobody ends the
\* session.  The promise goes no further: after installSubprocess a readLoop
\* that is still active (see SingleReader) closes the channels, and the
\* replacement's reader panics on them.
ReplacementKeepsChannel ==
  /\ \A s \in Senders :
       snd[s].pc \in {"interrupt", "await", "awaitKilled", "spawnReplacement", "fail"}
         => replacing
  /\ replacing => ~Ended

\* Once a Stop returned and no Send is under way no subprocess is left running,
\* those a concurrent resume spawned included.
StoppedMeansDead ==
  (\E t \in Stoppers : stp[t].pc = "returned") /\ AllIdle
    => \A g \in Gens : sub[g].state # "running"

\* Stop "blocks until the output channel is closed" and no longer: every call of
\* Stop returns, whether or not the subprocess heeds SIGTERM and whether or not
\* anyone reads Output().
StopReturns == \A t \in Stoppers : stp[t].pc # "idle" ~> stp[t].pc = "returned"

\* Stop leaves no goroutine behind: each readLoop gets past its blocked send,
\* its Wait and its cmdDone signal.
ReadersEnd == \A g \in Gens : stopping /\ loop[g].pc # "none" ~> loop[g].pc = "end"

\* With a context that expires, a Send that resumes returns even when the old
\* subprocess ignores SIGTERM; only a write to stdin may block.
SendReturns == \A s \in Senders : snd[s].pc # "idle" ~> snd[s].pc \in {"idle", "write"}

\* The refinement mapping to the contract of the Process interface.
Phase == IF chan[epoch].closed THEN "closed" ELSE IF chan[epoch].done THEN "ended" ELSE "live"

Contract == INSTANCE ProcessContract WITH Errors <- TermErrs, phase <- Phase, err <- termErr

\* Err() answers before Output() closes and its answer does not change; only a
\* session that ended without error, its output closed, is resumed by Send.
ImplementsContract == Contract!Spec
=============================================================================

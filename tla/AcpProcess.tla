----------------------------- MODULE AcpProcess -----------------------------
(***************************************************************************)
(* The life cycle of an ACP session (engine/acp/process.go and engine.go): *)
(* Start with its handshake, turns (Send), the ReadLoop and the dispatcher *)
(* that move the agent's updates to Output through a bounded queue,        *)
(* permission requests, finish and Stop.                                   *)
(*                                                                         *)
(* A turn is named after the Send that runs it.  The agent works on its    *)
(* prompts in the order they came, whether or not their Sends have given   *)
(* up.  The JSON-RPC connection itself is AcpConn; here a write takes no   *)
(* time, and the ReadLoop reads a frame when the agent produces it.        *)
(*                                                                         *)
(* A critical section that cannot block is one step; emit and emitUpdate,  *)
(* which block on a full channel, then keep their mutex.                   *)
(***************************************************************************)
EXTENDS Integers, Sequences, FiniteSets

CONSTANTS
  MaxSends,      \* bound: goroutines that call Send, once each
  Perms,         \* permission requests of the agent
  OutputBuffer,  \* capacity of output
  QueueSize,     \* capacity of updateCh
  Scenarios,     \* what the environment may do, see Events
  MaxUpdates,    \* bound: session updates of the agent
  MaxKept,       \* maxAccumulatedContent, in deltas
  MaxReplay      \* bound: those of them it sends before Start returns

Events == {"expire",      \* contexts of Sends end
           "exit",        \* the agent exits by itself
           "read",        \* the ReadLoop fails, on a line too long
           "garbage",     \* the agent writes malformed frames
           "refuse",      \* it answers prompts with errors
           "permission",  \* it asks for permission
           "replay",      \* it sends updates before Start returns
           "update",      \* it sends an update after that
           "pair",        \* it sends two
           "burst",       \* it sends as many as the bound allows
           "plain",       \* some of the updates are no deltas
           "second",      \* more than one Send is called
           "quit",        \* the consumer stops reading Output
           "stop"}        \* Stop is called

ASSUME AcpAssumption ==
  /\ MaxSends \in Nat \ {0}
  /\ Perms \cap {"reader", "dispatcher", "start"} = {}
  /\ OutputBuffer \in Nat \ {0} /\ QueueSize \in Nat \ {0}
  /\ MaxUpdates \in Nat /\ MaxUpdates >= 2 /\ MaxReplay \in 0..MaxUpdates
  /\ MaxKept \in Nat \ {0}
  /\ Scenarios \subseteq SUBSET Events

VARIABLES
  events,     \* what happens in this run
  start,      \* Start: its place
  send,       \* each Send: its place, or how it returned
  expired,    \* Sends whose context is done
  call,       \* the Call goroutine of each turn: its place, then its result
  rpcDone,    \* p.rpcDone: the turn whose Call goroutine the next Send waits for
  active,     \* p.permHandler and p.turnAccum: the turn they belong to
  acc,        \* per turn: its collectors, with the deltas and the denials they hold
  publish,    \* what handlePromptResult has still to queue
  updateMu,   \* the Send that holds p.updateMu while it blocks
  queue,      \* p.updateCh
  queueClosed,
  reader,     \* the ReadLoop goroutine: its place, and the message it queues
  emitting,   \* emit: the message each caller delivers, and whether it blocks
  dispatched, \* the dispatcher has ended
  out,        \* p.output
  outClosed,
  stopping, cancelled, done, termErr,
  readErr,    \* conn.Err() is set
  stop,       \* Stop: its place
  perm,       \* each permission request: its goroutine, its turn, its handler's turn
  agent,      \* the subprocess: running, "clean" or "crashed" exit; prompts to work on
  spoke,      \* per turn: the deltas the agent has sent for it
  updates,    \* updates sent; each is named after its number
  listening   \* somebody reads Output

turnVars == <<send, call, rpcDone, active, acc, publish, updateMu>>
pipeVars == <<queue, queueClosed, reader, emitting, dispatched, out, outClosed>>
endVars  == <<stopping, cancelled, done, termErr, readErr>>
envVars  == <<events, expired, agent, spoke, updates, listening>>
vars == <<start, turnVars, pipeVars, endVars, envVars, stop, perm>>

Emitters == {"reader", "dispatcher", "start"} \cup Perms
None == 0
Sends == 1..MaxSends
Tags == Sends \cup {None}
Msg(type, turn) == [type |-> type, turn |-> turn]
Messages == [type : {"update", "synthesized", "result", "init", "error"}, turn : Tags]
Error == Msg("error", None)
NoEmit == [blocked |-> FALSE, msgs |-> <<>>]

Calling  == {"initialize", "session", "mode", "config"}
InTurn   == {"fence", "waiting", "publishing"}
Finished == {"ok", "failed", "expired", "terminated", "invalid"}

Init ==
  /\ events \in Scenarios
  /\ start = "validate"
  /\ send = [t \in Sends |-> "idle"]
  /\ expired = {}
  /\ call = [t \in Sends |-> "none"]
  /\ rpcDone = None
  /\ active = None
  /\ acc = [t \in Sends |-> [sealed |-> FALSE, heard |-> {}, denied |-> {}]]
  /\ publish = <<>>
  /\ updateMu = None
  /\ queue = <<>> /\ queueClosed = FALSE
  /\ reader = [at |-> "reading", msg |-> Error]
  /\ emitting = [w \in Emitters |-> NoEmit]
  /\ dispatched = FALSE
  /\ out = <<>> /\ outClosed = FALSE
  /\ stopping = FALSE /\ cancelled = FALSE /\ done = FALSE
  /\ termErr = "nil"
  /\ readErr = FALSE
  /\ stop = "idle"
  /\ perm = [r \in Perms |-> [at |-> "none", turn |-> None, by |-> None]]
  /\ agent = [state |-> "running", prompts |-> <<>>]
  /\ spoke = [t \in Tags |-> {}]
  /\ updates = 0
  /\ listening = TRUE

-----------------------------------------------------------------------------
(* emit: outputMu is held from the look at outputClosed to the delivery.   *)

OutputMuFree == \A w \in Emitters : ~emitting[w].blocked
Idle(w) == emitting[w] = NoEmit

\* The value of emitting once w calls emit.
Emitting(w, msg) == [emitting EXCEPT ![w].msgs = <<msg>>]

\* The select of emit: it delivers, drops when the session is cancelled, or blocks.
Deliver(w) ==
  \/ /\ Len(out) < OutputBuffer
     /\ out' = out \o emitting[w].msgs
     /\ emitting' = [emitting EXCEPT ![w] = NoEmit]
  \/ /\ cancelled
     /\ emitting' = [emitting EXCEPT ![w] = NoEmit]
     /\ UNCHANGED out

\* Mutant of EmitFirst: the channel is looked at without outputMu.
EmitFirstUnlocked(w) ==
  /\ ~Idle(w)
  /\ \/ ~outClosed /\ Deliver(w)
     \/ ~outClosed /\ emitting' = [emitting EXCEPT ![w].blocked = TRUE] /\ UNCHANGED out

EmitFirst(w) ==
  /\ ~Idle(w)
  /\ OutputMuFree
  /\ \/ outClosed /\ emitting' = [emitting EXCEPT ![w] = NoEmit] /\ UNCHANGED out
     \/ ~outClosed /\ Deliver(w)
     \/ /\ ~outClosed /\ Len(out) = OutputBuffer /\ ~cancelled
        /\ emitting' = [emitting EXCEPT ![w].blocked = TRUE]
        /\ UNCHANGED out

EmitBlocked(w) == emitting[w].blocked /\ Deliver(w)

Emit(w) ==
  /\ EmitFirst(w) \/ EmitBlocked(w)
  /\ UNCHANGED <<start, turnVars, endVars, envVars, stop, perm, queue, queueClosed,
                 reader, dispatched, outClosed>>

\* The caller of the session, once it has it.
Receive ==
  /\ start = "returned"
  /\ listening
  /\ out # <<>>
  /\ out' = Tail(out)
  /\ UNCHANGED <<start, turnVars, queue, queueClosed, reader, emitting, dispatched, outClosed,
                 endVars, envVars, stop, perm>>

StopListening ==
  /\ "quit" \in events
  /\ listening
  /\ listening' = FALSE
  /\ UNCHANGED <<start, turnVars, pipeVars, endVars, events, expired, agent, spoke, updates, stop, perm>>

-----------------------------------------------------------------------------
(* The dispatcher: from the queue to Output, until the queue is closed.    *)

Dispatch ==
  /\ ~dispatched
  /\ Idle("dispatcher")
  /\ queue # <<>>
  /\ queue' = Tail(queue)
  /\ \/ /\ OutputMuFree /\ Len(out) < OutputBuffer
        /\ out' = Append(out, Head(queue))
        /\ UNCHANGED emitting
     \/ /\ ~OutputMuFree \/ Len(out) = OutputBuffer \/ cancelled
        /\ emitting' = Emitting("dispatcher", Head(queue))
        /\ UNCHANGED out
  /\ UNCHANGED <<start, turnVars, queueClosed, reader, dispatched, outClosed, endVars, envVars,
                 stop, perm>>

DispatchEnds ==
  /\ ~dispatched
  /\ Idle("dispatcher")
  /\ queue = <<>> /\ queueClosed
  /\ dispatched' = TRUE
  /\ UNCHANGED <<start, turnVars, queue, queueClosed, reader, emitting, out, outClosed, endVars,
                 envVars, stop, perm>>

-----------------------------------------------------------------------------
(* The ReadLoop: frames in the order the agent writes them.                *)

Reading ==
  /\ start # "validate"
  /\ reader.at = "reading"
  /\ Idle("reader")

\* The prompt the agent works on.
Current == IF agent.prompts = <<>> THEN None ELSE Head(agent.prompts)

\* The text and thinking builders of a turn's accumulator stand as one.
Full(t) == Cardinality(acc[t].heard) >= MaxKept

\* Mutant of Observe: the check of the cap is off by one.
ObserveShort(n, delta) ==
  acc' = IF ~delta \/ active = None \/ acc[active].sealed \/ Cardinality(acc[active].heard) + 1 >= MaxKept
         THEN acc
         ELSE [acc EXCEPT ![active].heard = @ \cup {n}]

\* turnAccumulator.observe keeps text and thinking deltas, up to the cap; nothing
\* between turns, nothing once sealed.  A delta cut at the cap is the one that
\* reaches it.
Observe(n, delta) ==
  acc' = IF ~delta \/ active = None \/ acc[active].sealed \/ Full(active) THEN acc
         ELSE [acc EXCEPT ![active].heard = @ \cup {n}]

\* The select of the update handler.
Enqueue(msg) ==
  \/ /\ Len(queue) < QueueSize
     /\ queue' = Append(queue, msg)
     /\ reader' = [at |-> "reading", msg |-> Error]
  \/ /\ cancelled
     /\ reader' = [at |-> "reading", msg |-> Error]
     /\ UNCHANGED queue

\* On a full queue the ReadLoop blocks.
Wait(msg) ==
  /\ Len(queue) = QueueSize
  /\ ~cancelled
  /\ reader' = [at |-> "queueing", msg |-> msg]
  /\ UNCHANGED queue

Limit ==
  CASE start # "returned" -> IF "replay" \in events THEN MaxReplay ELSE 0
    [] "burst" \in events -> MaxUpdates
    [] "pair" \in events -> 2
    [] OTHER -> IF "update" \in events THEN 1 ELSE 0

\* An update is a delta with text in it, or any other.
ReadUpdate ==
  /\ Reading
  /\ updates < Limit
  /\ updates' = updates + 1
  /\ \E delta \in BOOLEAN :
       /\ ~delta => "plain" \in events
       /\ spoke' = IF delta THEN [spoke EXCEPT ![Current] = @ \cup {updates + 1}] ELSE spoke
       /\ Observe(updates + 1, delta)
  /\ LET msg == Msg("update", Current) IN Enqueue(msg) \/ Wait(msg)
  /\ UNCHANGED <<start, send, call, rpcDone, active, publish, updateMu, queueClosed, emitting,
                 dispatched, out, outClosed, endVars, events, expired, agent, listening, stop, perm>>

UpdateQueued ==
  /\ reader.at = "queueing"
  /\ Enqueue(reader.msg)
  /\ UNCHANGED <<start, turnVars, queueClosed, emitting, dispatched, out, outClosed, endVars,
                 envVars, stop, perm>>

\* Malformed JSON: the ReadLoop emits the error itself, past the queue.
ReadGarbage ==
  /\ Reading
  /\ "garbage" \in events
  /\ updates < Limit
  /\ updates' = updates + 1
  /\ emitting' = Emitting("reader", Error)
  /\ UNCHANGED <<start, turnVars, queue, queueClosed, reader, dispatched, out, outClosed, endVars,
                 events, expired, agent, spoke, listening, stop, perm>>

\* The answer of a prompt; nobody waits for that of a Send that gave up.
ReadAnswer ==
  /\ Reading
  /\ agent.prompts # <<>>
  /\ agent' = [agent EXCEPT !.prompts = Tail(@)]
  /\ \E answer \in {"ok", "error"} :
       /\ answer = "error" => "refuse" \in events
       /\ call' = IF call[Current] = "open" THEN [call EXCEPT ![Current] = answer] ELSE call
  /\ UNCHANGED <<start, send, rpcDone, active, acc, publish, updateMu, pipeVars, endVars, events, expired,
                 spoke, updates, listening, stop, perm>>

\* A permission request gets a goroutine of its own.
ReadPermission(r) ==
  /\ Reading
  /\ "permission" \in events
  /\ agent.prompts # <<>>
  /\ perm[r].at = "none"
  /\ perm' = [perm EXCEPT ![r].at = "spawned", ![r].turn = Current]
  /\ UNCHANGED <<start, turnVars, pipeVars, endVars, envVars, stop>>

\* The ReadLoop ends; drainPending fails the calls in progress.
ReadEnds ==
  /\ Reading
  /\ call' = [t \in Sends |-> IF call[t] = "open" THEN "error" ELSE call[t]]
  /\ reader' = [reader EXCEPT !.at = "closing"]
  /\ UNCHANGED <<start, send, rpcDone, active, acc, publish, updateMu, queue, queueClosed,
                 emitting, dispatched, out, outClosed, stopping, cancelled, done, termErr, envVars,
                 stop, perm>>

EndOfFile == agent.state # "running" /\ ReadEnds /\ UNCHANGED readErr

ReadFails == "read" \in events /\ ReadEnds /\ readErr' = TRUE

\* Mutant of CloseQueue: without updateMu.
CloseQueueUnlocked ==
  /\ reader.at = "closing"
  /\ queueClosed' = TRUE
  /\ reader' = [reader EXCEPT !.at = "draining"]
  /\ UNCHANGED <<start, turnVars, queue, emitting, dispatched, out, outClosed, endVars, envVars,
                 stop, perm>>

CloseQueue ==
  /\ reader.at = "closing"
  /\ updateMu = None
  /\ queueClosed' = TRUE
  /\ reader' = [reader EXCEPT !.at = "draining"]
  /\ UNCHANGED <<start, turnVars, queue, emitting, dispatched, out, outClosed, endVars, envVars,
                 stop, perm>>

\* Once the dispatcher is through, an agent that could not be read is killed.
Drained ==
  /\ reader.at = "draining"
  /\ dispatched
  /\ agent' = IF readErr THEN [agent EXCEPT !.state = IF @ = "running" THEN "crashed" ELSE @]
              ELSE agent
  /\ reader' = [reader EXCEPT !.at = "reaping"]
  /\ UNCHANGED <<start, turnVars, queue, queueClosed, emitting, dispatched, out, outClosed,
                 endVars, events, expired, spoke, updates, listening, stop, perm>>

\* finish: a stopped session ended because of that.
Verdict ==
  IF stopping THEN "terminated"
  ELSE IF readErr THEN "reader"
  ELSE IF agent.state = "crashed" THEN "exit" ELSE "nil"

\* Mutant of FinishDone: output is closed first.
FinishDoneLast ==
  /\ reader.at = "reaping"
  /\ agent.state # "running"
  /\ cancelled' = TRUE
  /\ outClosed' = TRUE
  /\ reader' = [reader EXCEPT !.at = "finishing"]
  /\ UNCHANGED <<start, turnVars, queue, queueClosed, emitting, dispatched, out, stopping, done,
                 termErr, readErr, envVars, stop, perm>>

\* The subprocess is reaped; finish publishes the terminal error, then closes done.
FinishDone ==
  /\ reader.at = "reaping"
  /\ agent.state # "running"
  /\ termErr' = Verdict
  /\ cancelled' = TRUE
  /\ done' = TRUE
  /\ reader' = [reader EXCEPT !.at = "finishing"]
  /\ UNCHANGED <<start, turnVars, queue, queueClosed, emitting, dispatched, out, outClosed,
                 stopping, readErr, envVars, stop, perm>>

FinishOutput ==
  /\ reader.at = "finishing"
  /\ OutputMuFree
  /\ outClosed' = TRUE
  /\ reader' = [reader EXCEPT !.at = "over"]
  /\ UNCHANGED <<start, turnVars, queue, queueClosed, emitting, dispatched, out, endVars, envVars,
                 stop, perm>>

-----------------------------------------------------------------------------
(* Permission requests: the goroutine loads the handler installed when it  *)
(* runs, which decides (HITL, the caller's handler, its timeout or panic)  *)
(* while the session goes on.                                              *)

PermissionLoads(r) ==
  /\ perm[r].at = "spawned"
  /\ perm' = [perm EXCEPT ![r].at = IF active = None THEN "over" ELSE "deciding",
                          ![r].by = active]
  /\ UNCHANGED <<start, turnVars, pipeVars, endVars, envVars, stop>>

\* turnDenials.add: nothing once sealed.
Deny(r) ==
  acc' = IF acc[perm[r].by].sealed THEN acc
         ELSE [acc EXCEPT ![perm[r].by].denied = @ \cup {r}]

\* Approved; denied, which is recorded; or an error, which is emitted.
PermissionDecided(r) ==
  /\ perm[r].at = "deciding"
  /\ perm' = [perm EXCEPT ![r].at = "over"]
  /\ \/ UNCHANGED <<acc, emitting>>
     \/ Deny(r) /\ UNCHANGED emitting
     \/ emitting' = Emitting(r, Error) /\ UNCHANGED acc
  /\ UNCHANGED <<start, send, call, rpcDone, active, publish, updateMu, queue, queueClosed, reader,
                 dispatched, out, outClosed, endVars, envVars, stop>>

-----------------------------------------------------------------------------
(* Start: validation, the handshake, and kill when it fails.               *)

\* HITL, effort, directory and environment are looked at, the binary is found
\* and run, or Start returns an error and there is no session.
Validate ==
  /\ start = "validate"
  /\ start' \in {"rejected", "initialize"}
  /\ UNCHANGED <<turnVars, pipeVars, endVars, envVars, stop, perm>>

\* After MessageInit a mode is set if it is asked for and offered, then a model.
NextStep(step) ==
  CASE step = "initialize" -> {"session"}
    [] step = "session" -> {"init"}
    [] step = "init" -> {"mode", "config", "returned"}
    [] step = "mode" -> {"config", "returned"}
    [] step = "config" -> {"returned"}

\* A call of the handshake is answered, as long as frames are read.  A new
\* session's id may be invalid, which fails like an error.
HandshakeAnswered ==
  /\ start \in Calling
  /\ Reading
  /\ start' \in NextStep(start)
  /\ emitting' = IF start' = "init" THEN Emitting("start", Msg("init", None)) ELSE emitting
  /\ UNCHANGED <<turnVars, queue, queueClosed, reader, dispatched, out, outClosed, endVars,
                 envVars, stop, perm>>

\* A call fails: refused, the connection closed, or HandshakeTimeout has passed.
HandshakeFails ==
  /\ start \in Calling \ {"config"}
  /\ start' = "kill"
  /\ UNCHANGED <<turnVars, pipeVars, endVars, envVars, stop, perm>>

\* session/set_config_option may fail: the error is emitted and Start goes on.
ConfigFails ==
  /\ start = "config"
  /\ emitting' = Emitting("start", Error)
  /\ start' = "warned"
  /\ UNCHANGED <<turnVars, queue, queueClosed, reader, dispatched, out, outClosed, endVars,
                 envVars, stop, perm>>

HandshakeEmitted ==
  /\ start \in {"init", "warned"}
  /\ Idle("start")
  /\ start' \in (IF start = "init" THEN NextStep("init") ELSE {"returned"})
  /\ UNCHANGED <<turnVars, pipeVars, endVars, envVars, stop, perm>>

\* kill: stopping, cancel and SIGKILL, then the end of the session.
Kill ==
  /\ start = "kill"
  /\ stopping' = TRUE
  /\ cancelled' = TRUE
  /\ agent' = [agent EXCEPT !.state = IF @ = "running" THEN "crashed" ELSE @]
  /\ start' = "killed"
  /\ UNCHANGED <<turnVars, pipeVars, done, termErr, readErr, events, expired, spoke, updates, listening,
                 stop, perm>>

Killed ==
  /\ start = "killed"
  /\ done
  /\ start' = "rejected"
  /\ UNCHANGED <<turnVars, pipeVars, endVars, envVars, stop, perm>>

-----------------------------------------------------------------------------
(* Send.  turnMu is held by the Send that is in its turn.                  *)

TurnMuFree == \A t \in Sends : send[t] \notin InTurn

\* Sends are numbered in the order they begin.
SendBegin(t) ==
  /\ send[t] = "idle"
  /\ \A u \in Sends : u < t => "second" \in events /\ send[u] # "idle"
  /\ start = "returned"
  /\ \/ (stopping \/ done) /\ send' = [send EXCEPT ![t] = "terminated"]
     \/ ~stopping /\ ~done /\ \E at \in {"locking", "invalid"} : send' = [send EXCEPT ![t] = at]
  /\ UNCHANGED <<start, call, rpcDone, active, acc, publish, updateMu, pipeVars, endVars, envVars,
                 stop, perm>>

\* Mutant of TakeTurn: Sends are not serialized.
TakeTurnUnlocked(t) ==
  /\ send[t] = "locking"
  /\ send' = [send EXCEPT ![t] = IF stopping THEN "terminated" ELSE "fence"]
  /\ UNCHANGED <<start, call, rpcDone, active, acc, publish, updateMu, pipeVars, endVars, envVars,
                 stop, perm>>

TakeTurn(t) ==
  /\ send[t] = "locking"
  /\ TurnMuFree
  /\ send' = [send EXCEPT ![t] = IF stopping THEN "terminated" ELSE "fence"]
  /\ UNCHANGED <<start, call, rpcDone, active, acc, publish, updateMu, pipeVars, endVars, envVars,
                 stop, perm>>

\* The collectors are installed and the Call goroutine starts.
PassFence(t) ==
  /\ send[t] = "fence"
  /\ rpcDone # None => call[rpcDone] \in {"ok", "error"}
  /\ send' = [send EXCEPT ![t] = "waiting"]
  /\ call' = [call EXCEPT ![t] = "writing"]
  /\ rpcDone' = t
  /\ active' = t
  /\ UNCHANGED <<start, acc, publish, updateMu, pipeVars, endVars, envVars, stop, perm>>

FenceGivesUp(t) ==
  /\ send[t] = "fence"
  /\ rpcDone # None
  /\ \/ done /\ send' = [send EXCEPT ![t] = "terminated"]
     \/ t \in expired /\ send' = [send EXCEPT ![t] = "expired"]
  /\ UNCHANGED <<start, call, rpcDone, active, acc, publish, updateMu, pipeVars, endVars, envVars,
                 stop, perm>>

\* The prompt is written, unless stdin is closed or the agent is gone.
WritePrompt(t) ==
  /\ call[t] = "writing"
  /\ IF agent.state = "running" /\ stop \in {"idle", "notify"}
     THEN /\ call' = [call EXCEPT ![t] = "open"]
          /\ agent' = [agent EXCEPT !.prompts = Append(@, t)]
     ELSE /\ call' = [call EXCEPT ![t] = "error"]
          /\ UNCHANGED agent
  /\ UNCHANGED <<start, send, rpcDone, active, acc, publish, updateMu, pipeVars, endVars, events, expired,
                 spoke, updates, listening, stop, perm>>

CallExpires(t) ==
  /\ call[t] = "open"
  /\ t \in expired
  /\ call' = [call EXCEPT ![t] = "error"]
  /\ UNCHANGED <<start, send, rpcDone, active, acc, publish, updateMu, pipeVars, endVars, envVars,
                 stop, perm>>

Seal(t) == acc' = [acc EXCEPT ![t].sealed = TRUE]

\* The deferred deactivation, on every way out of a turn.
Leave(t, how) ==
  /\ send' = [send EXCEPT ![t] = how]
  /\ active' = None

\* seal's synthesized message, if there is anything to say, and the result.
Result(t) ==
  IF acc[t].heard = {} THEN <<Msg("result", t)>> ELSE <<Msg("synthesized", t), Msg("result", t)>>

\* The select of executeSendBlocks takes any of its cases that is ready.
TurnAnswered(t) ==
  /\ send[t] = "waiting"
  /\ call[t] \in {"ok", "error"}
  /\ rpcDone' = None
  /\ Seal(t)
  /\ IF call[t] = "error"
     THEN Leave(t, "failed") /\ UNCHANGED publish
     ELSE /\ publish' = Result(t)
          /\ send' = [send EXCEPT ![t] = "publishing"]
          /\ UNCHANGED active
  /\ UNCHANGED <<start, call, updateMu, pipeVars, endVars, envVars, stop, perm>>

\* The session has ended; an answer that is there decides what Send returns.
TurnEnded(t) ==
  /\ send[t] = "waiting"
  /\ done
  /\ Seal(t)
  /\ Leave(t, CASE call[t] = "ok" -> "ok" [] call[t] = "error" -> "failed" [] OTHER -> "terminated")
  /\ UNCHANGED <<start, call, rpcDone, publish, updateMu, pipeVars, endVars, envVars, stop, perm>>

\* The context is done: session/cancel is sent by a goroutine nobody waits for.
TurnExpired(t) ==
  /\ send[t] = "waiting"
  /\ t \in expired
  /\ Seal(t)
  /\ Leave(t, "expired")
  /\ UNCHANGED <<start, call, rpcDone, publish, updateMu, pipeVars, endVars, envVars, stop, perm>>

\* emitUpdate: updateMu is held from the look at updateChClosed to the delivery.
Published(t) ==
  /\ publish' = Tail(publish)
  /\ updateMu' = None
  /\ IF Len(publish) = 1 THEN Leave(t, "ok") ELSE UNCHANGED <<send, active>>

\* Mutant of Put: what does not fit is dropped.
PutOrDrop(t) ==
  /\ queue' = IF Len(queue) < QueueSize THEN Append(queue, Head(publish)) ELSE queue
  /\ Published(t)

\* The select of emitUpdate.
Put(t) ==
  /\ \/ Len(queue) < QueueSize /\ queue' = Append(queue, Head(publish))
     \/ cancelled /\ UNCHANGED queue
  /\ Published(t)

Block(t) ==
  /\ Len(queue) = QueueSize
  /\ ~cancelled
  /\ updateMu' = t
  /\ UNCHANGED <<publish, send, active, queue>>

Publish(t) ==
  /\ send[t] = "publishing"
  /\ \/ updateMu = t /\ Put(t)
     \/ updateMu = None /\ queueClosed /\ Published(t) /\ UNCHANGED queue
     \/ updateMu = None /\ ~queueClosed /\ (Put(t) \/ Block(t))
  /\ UNCHANGED <<start, call, rpcDone, acc, queueClosed, reader, emitting, dispatched, out,
                 outClosed, endVars, envVars, stop, perm>>

-----------------------------------------------------------------------------
(* Stop; and the environment.                                              *)

StopBegin ==
  /\ "stop" \in events
  /\ stop = "idle"
  /\ start = "returned"
  /\ stop' = "notify"
  /\ stopping' = TRUE
  /\ UNCHANGED <<start, turnVars, pipeVars, cancelled, done, termErr, readErr, envVars, perm>>

\* Mutant of StopSignal: the emitters are not released.
StopSignalOnly ==
  /\ stop = "notify"
  /\ stop' = "grace"
  /\ UNCHANGED <<start, turnVars, pipeVars, endVars, envVars, perm>>

\* The shutdown notification, the end of stdin, cancel and SIGTERM.
StopSignal ==
  /\ stop = "notify"
  /\ stop' = "grace"
  /\ cancelled' = TRUE
  /\ UNCHANGED <<start, turnVars, pipeVars, stopping, done, termErr, readErr, envVars, perm>>

\* The grace period or Stop's context is over.
StopKill ==
  /\ stop = "grace"
  /\ ~done
  /\ stop' = "killed"
  /\ agent' = [agent EXCEPT !.state = IF @ = "running" THEN "crashed" ELSE @]
  /\ UNCHANGED <<start, turnVars, pipeVars, endVars, events, expired, spoke, updates, listening, perm>>

StopReturn ==
  /\ stop \in {"grace", "killed"}
  /\ done
  /\ stop' = "returned"
  /\ UNCHANGED <<start, turnVars, pipeVars, endVars, envVars, perm>>

Expire(t) ==
  /\ "expire" \in events
  /\ send[t] \in {"fence", "waiting"}
  /\ t \notin expired
  /\ expired' = expired \cup {t}
  /\ UNCHANGED <<start, turnVars, pipeVars, endVars, events, agent, spoke, updates, listening, stop, perm>>

\* The agent exits by itself, or since Stop has asked it to.
AgentExits ==
  /\ agent.state = "running"
  /\ start # "validate"
  /\ "exit" \in events \/ stop = "grace"
  /\ agent' \in {[agent EXCEPT !.state = how] : how \in {"clean", "crashed"}}
  /\ UNCHANGED <<start, turnVars, pipeVars, endVars, events, expired, spoke, updates, listening, stop, perm>>

-----------------------------------------------------------------------------
StartStep ==
  Validate \/ HandshakeFails \/ ConfigFails \/ HandshakeEmitted \/ Kill \/ Killed \/ Emit("start")

SendStep(t) ==
  \/ TakeTurn(t) \/ PassFence(t) \/ FenceGivesUp(t)
  \/ TurnAnswered(t) \/ TurnEnded(t) \/ TurnExpired(t) \/ Publish(t)
  \/ WritePrompt(t) \/ CallExpires(t)

ReaderStep ==
  \/ UpdateQueued \/ EndOfFile \/ Emit("reader")
  \/ CloseQueue \/ Drained \/ FinishDone \/ FinishOutput

DispatcherStep == Dispatch \/ DispatchEnds \/ Emit("dispatcher")

StopStep == StopSignal \/ StopKill \/ StopReturn

Next ==
  \/ StartStep \/ HandshakeAnswered
  \/ \E t \in Sends : SendBegin(t) \/ SendStep(t) \/ Expire(t)
  \/ ReaderStep \/ ReadUpdate \/ ReadGarbage \/ ReadAnswer \/ ReadFails
  \/ DispatcherStep
  \/ \E r \in Perms :
       ReadPermission(r) \/ PermissionLoads(r) \/ PermissionDecided(r) \/ Emit(r)
  \/ StopBegin \/ StopStep
  \/ Receive \/ StopListening
  \/ AgentExits

Spec == Init /\ [][Next]_vars

\* Goroutines that can run do; timers fire; an end of file is read; whoever
\* listens to Output reads it.  Nothing is assumed of what the agent sends or when.
FairSpec ==
  /\ Spec
  /\ WF_vars(StartStep) /\ WF_vars(ReaderStep) /\ WF_vars(DispatcherStep) /\ WF_vars(StopStep)
  /\ \A t \in Sends : WF_vars(SendStep(t))
  /\ \A r \in Perms : WF_vars(Emit(r))
  /\ WF_vars(Receive)

-----------------------------------------------------------------------------
(* Properties.                                                             *)

\* Types and bounds; one message per emitter; at most one of them, and the
\* Send in its turn, block with their mutex.
TypeOK ==
  /\ start \in Calling \cup {"validate", "init", "warned", "returned", "kill", "killed", "rejected"}
  /\ send \in [Sends -> InTurn \cup Finished \cup {"idle", "locking"}]
  /\ events \in Scenarios
  /\ expired \subseteq Sends /\ spoke \in [Tags -> SUBSET (1..MaxUpdates)]
  /\ call \in [Sends -> {"none", "writing", "open", "ok", "error"}]
  /\ {rpcDone, active, updateMu} \subseteq Tags
  /\ acc \in [Sends -> [sealed : BOOLEAN, heard : SUBSET (1..MaxUpdates), denied : SUBSET Perms]]
  /\ Len(publish) \in 0..2
  /\ Len(queue) \in 0..QueueSize /\ Len(out) \in 0..OutputBuffer
  /\ \A i \in DOMAIN publish : publish[i] \in Messages
  /\ \A i \in DOMAIN queue : queue[i] \in Messages
  /\ \A i \in DOMAIN out : out[i] \in Messages
  /\ reader \in [at : {"reading", "queueing", "closing", "draining", "reaping", "finishing", "over"},
                 msg : Messages]
  /\ \A w \in Emitters : Len(emitting[w].msgs) \in 0..1
  /\ \A v, w \in Emitters : emitting[v].blocked /\ emitting[w].blocked => v = w
  /\ updateMu # None => send[updateMu] = "publishing"
  /\ {queueClosed, dispatched, outClosed, stopping, cancelled, done, readErr, listening} \subseteq BOOLEAN
  /\ termErr \in {"nil", "exit", "reader", "terminated"}
  /\ stop \in {"idle", "notify", "grace", "killed", "returned"}
  /\ perm \in [Perms -> [at : {"none", "spawned", "deciding", "over"}, turn : Tags, by : Tags]]
  /\ agent.state \in {"running", "clean", "crashed"}
  /\ updates \in 0..MaxUpdates

\* Nobody blocks in a send on a channel that is closed under it, which would
\* panic: finish waits for outputMu, the end of the ReadLoop for updateMu.
ChannelsOpen ==
  /\ outClosed => OutputMuFree
  /\ queueClosed => updateMu = None /\ reader.at # "queueing"

\* The messages of the session on their way through the queue to the consumer.
Pipe ==
  out \o emitting["dispatcher"].msgs \o queue
      \o (IF reader.at = "queueing" THEN <<reader.msg>> ELSE <<>>)

\* A turn's result comes after all the updates of the turn and after the
\* message synthesized from them.  That message leaves out a delta of the turn
\* only when the accumulator was full.
ResultLast ==
  \A t \in Sends :
    /\ \A i, j \in DOMAIN Pipe :
         i < j /\ Pipe[i] = Msg("result", t) => Pipe[j].turn # t
    /\ send[t] = "publishing" => spoke[t] \subseteq acc[t].heard \/ Full(t)

\* The deltas that are no other turn's: the turn's own, and those between turns.
Own(t) == spoke[t] \cup spoke[None]

\* Whose Send returned an error in its turn: its context ended, or the call
\* failed, be it that the agent refused.
GaveUp(u) == send[u] \in {"expired", "failed"}

\* The only deltas of another turn that a turn sums up are those of a turn whose
\* Send gave up.
OwnUpdates ==
  \A t \in Sends :
    \A n \in acc[t].heard : n \in Own(t) \/ \E u \in Sends : GaveUp(u) /\ n \in spoke[u]

\* A Send that saw its answer in a living session has put the result where
\* the consumer finds it, however full the queue was.
ResultKept ==
  [][\A t \in Sends :
       send[t] = "publishing" /\ send'[t] = "ok" =>
         \/ queueClosed \/ cancelled
         \/ queue' # <<>> /\ queue'[Len(queue')] = Msg("result", t)]_vars

\* Output is full before the caller of Start has it to read: MessageInit and
\* what the agent sends during its handshake are more than its buffer holds.
Unread == start \notin {"returned", "rejected"} /\ Len(out) = OutputBuffer

\* Start returns, unless what is emitted before that fills Output; Stop
\* returns, whoever reads Output; a Send in its turn returns when the session
\* has ended and, as long as Output is read, when its context is done; and
\* Output closes when the agent has exited, if it is read.
EverythingEnds ==
  /\ (start = "initialize") ~> (start \in {"returned", "rejected"} \/ Unread)
  /\ (stop = "notify") ~> (stop = "returned")
  /\ \A t \in Sends :
       (send[t] \in InTurn /\ (done \/ t \in expired))
         ~> (send[t] \in Finished \/ (~listening /\ ~done))
  /\ (agent.state # "running") ~> (outClosed \/ ~listening \/ Unread)

\* A session is a Process that is never resumed: Err answers before Output
\* closes and its answer stays.
Contract ==
  INSTANCE ProcessContract WITH
    Errors <- {"nil", "exit", "reader", "terminated"},
    phase <- IF outClosed THEN "closed" ELSE IF done THEN "ended" ELSE "live",
    err <- termErr

ImplementsContract == Contract!Spec

\* What process.go says of the deactivation at the end of a turn: what comes
\* late for it never reaches the next turn.
LateFramesIgnored ==
  \A t \in Sends :
    /\ acc[t].heard \subseteq Own(t)
    /\ \A r \in acc[t].denied : perm[r].turn = t
=============================================================================

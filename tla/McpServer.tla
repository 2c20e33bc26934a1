------------------------------ MODULE McpServer ------------------------------
(***************************************************************************)
(* The sessions of the MCP diagnostic server (cmd/agentrun-mcp) and the    *)
(* turns its handlers run on them (runturn.go).                            *)
(*                                                                         *)
(* Every tool call is a request with a goroutine of its own. A process is  *)
(* named by the request that started it, and so is the session that is     *)
(* registered for it. Of the engines only what a caller of Process sees is *)
(* modelled: prompts go in, results come out of Output, the process may    *)
(* end by itself, and Stop ends it. The tools that read and change nothing *)
(* (list_backends, parse_line, ...) are left out.                          *)
(***************************************************************************)
EXTENDS Integers, Sequences, FiniteSets

CONSTANTS
  Requests,     \* tool calls
  Nobody,
  Scripts,      \* bound: which tool each request calls and what else may happen
  MaxSessions,  \* maxLiveSessions
  SemCapacity,  \* cap(sem)
  RateLimit,    \* maxSessionCreationsPerMin
  MaxTicks      \* bound: reaper ticks that find something to reap

ASSUME ServerAssumption ==
  /\ MaxSessions \in Nat /\ SemCapacity \in Nat /\ RateLimit \in Nat /\ MaxTicks \in Nat
  /\ MaxSessions < SemCapacity
  /\ Nobody \notin Requests

Tools == {"session_start", "session_send", "session_stop", "run_turn", "probe_backend"}
Starting == {"session_start", "run_turn", "probe_backend"}

\* What the clock, the agents, the callers and the operator may do in a run.
Events == {"cancel", "exit", "refuse", "hang", "sendFails", "reap", "shutdown"}

ASSUME ScriptsAssumption ==
  Scripts \subseteq [tools : [Requests -> Tools], events : SUBSET Events]

VARIABLES
  tool,      \* the tool each request calls
  may,       \* the events of this run
  pc,        \* where its handler is
  on,        \* the process it works on
  expired,   \* requests whose context is done
  snd,       \* the Send goroutine: "none", "pending", "ok", "err"
  got,       \* whose result its turn read
  verdict,   \* how its turn ended: "none", "result", "closed", "timeout", "error"
  life,      \* per process: "none", "running", "clean" (Err() is nil), "failed"
  seq,       \* processes that are a SequentialSender
  stopping,  \* processes whose Stop was called
  raced,     \* those a Stop of which met a Send that resumes or replaces
  inbox,     \* prompts the agent has not answered
  out,       \* results in Output, by the request whose prompt they answer
  sem,       \* tokens in the semaphore
  store,     \* sessions.sessions
  stamps,    \* creationTimestamps, how many
  active,    \* activeTurns of each session
  idle,      \* sessions whose lastActivity is further back than maxIdle
  holder,    \* who holds each session's mu
  reaping,   \* sessions the reaper removed and has still to stop
  closing,   \* sessions stopAll is stopping
  main,      \* "serving", "stopAll", "exited"
  ticks

handlers == <<tool, may, pc, on, expired, snd, got, verdict>>
procs == <<life, seq, stopping, raced, inbox, out>>
sessions == <<store, stamps, active, idle, holder>>
vars == <<handlers, procs, sem, sessions, reaping, closing, main, ticks>>

Init ==
  /\ \E s \in Scripts : tool = s.tools /\ may = s.events
  /\ pc = [r \in Requests |-> "idle"]
  /\ on = [r \in Requests |-> r]
  /\ expired = {}
  /\ snd = [r \in Requests |-> "none"]
  /\ got = [r \in Requests |-> Nobody]
  /\ verdict = [r \in Requests |-> "none"]
  /\ life = [p \in Requests |-> "none"]
  /\ seq = {} /\ stopping = {} /\ raced = {}
  /\ inbox = [p \in Requests |-> <<>>]
  /\ out = [p \in Requests |-> <<>>]
  /\ sem = 0
  /\ store = {} /\ stamps = 0 /\ idle = {}
  /\ active = [p \in Requests |-> 0]
  /\ holder = [p \in Requests |-> Nobody]
  /\ reaping = {} /\ closing = {} /\ main = "serving" /\ ticks = 0

At(r, place) == main # "exited" /\ pc[r] = place
Goto(r, place) == pc' = [pc EXCEPT ![r] = place]
Failed(p) == life[p] = "failed"          \* Err() is not nil
Running(p) == life[p] = "running"

-----------------------------------------------------------------------------
(* The front of every handler: the semaphore, the deferred releases.        *)

\* session_send and session_stop name a session that session_start returned.
Arrive(r) ==
  /\ At(r, "idle") /\ main = "serving"
  /\ on' \in {[on EXCEPT ![r] = p] : p \in IF tool[r] \in Starting THEN {r} ELSE
                {q \in Requests : tool[q] = "session_start" /\ pc[q] = "answered"
                                  /\ verdict[q] = "registered"}}
  /\ Goto(r, IF tool[r] = "session_stop" THEN "lookup" ELSE "acquireSem")
  /\ UNCHANGED <<tool, may, expired, snd, got, verdict, procs, sem, sessions, reaping, closing,
                 main, ticks>>

AcquireSem(r) ==
  /\ At(r, "acquireSem") /\ sem < SemCapacity
  /\ sem' = sem + 1
  /\ Goto(r, IF tool[r] = "session_send" THEN "lookup" ELSE "start")
  /\ UNCHANGED <<tool, may, on, expired, snd, got, verdict, procs, sessions, reaping, closing,
                 main, ticks>>

AcquireFails(r) ==
  /\ At(r, "acquireSem") /\ r \in expired
  /\ Goto(r, "answered")
  /\ UNCHANGED <<tool, may, on, expired, snd, got, verdict, procs, sem, sessions, reaping,
                 closing, main, ticks>>

\* The context of a request: cancelled by the client, or past clampTimeout
\* once the semaphore is acquired.
Expire(r) ==
  /\ main # "exited" /\ r \notin expired
  /\ \/ pc[r] = "acquireSem" /\ "cancel" \in may
     \/ pc[r] \in {"starting", "sending", "drain"}
  /\ expired' = expired \cup {r}
  /\ UNCHANGED <<tool, may, pc, on, snd, got, verdict, procs, sem, sessions, reaping, closing,
                 main, ticks>>


\* The deferred releases, in every handler that acquired the semaphore.
Release == sem' = sem - 1

-----------------------------------------------------------------------------
(* RunFirstTurn and RunTurn.                                                 *)

\* Input checks, makeEngine, Validate or Start fail: nothing was started.
StartFails(r) ==
  /\ At(r, "start") /\ "refuse" \in may
  /\ Goto(r, "answered") /\ Release
  /\ UNCHANGED <<tool, may, on, expired, snd, got, verdict, procs, sessions, reaping, closing,
                 main, ticks>>

\* Start spawns. A spawn-per-turn backend has been given the prompt; the Start
\* of the others may still have a handshake to do.
StartProcess(r) ==
  /\ At(r, "start")
  /\ life' = [life EXCEPT ![r] = "running"]
  /\ \/ /\ seq' = seq \cup {r}
        /\ inbox' = [inbox EXCEPT ![r] = <<r>>]
        /\ Goto(r, "drain")
     \/ /\ Goto(r, "starting")
        /\ UNCHANGED <<seq, inbox>>
  /\ UNCHANGED <<tool, may, on, expired, snd, got, verdict, stopping, raced, out, sem, sessions,
                 reaping, closing, main, ticks>>

\* RunFirstTurn starts the Send goroutine.
Started(r) ==
  /\ At(r, "starting")
  /\ snd' = [snd EXCEPT ![r] = "pending"]
  /\ Goto(r, "drain")
  /\ UNCHANGED <<tool, may, on, expired, got, verdict, procs, sem, sessions, reaping, closing,
                 main, ticks>>

\* The handshake failed: Start has killed the agent and returns no process.
HandshakeFails(r) ==
  /\ At(r, "starting")
  /\ r \in expired \/ ~Running(r) \/ "refuse" \in may
  /\ life' = [life EXCEPT ![r] = "failed"]
  /\ Goto(r, "answered") /\ Release
  /\ UNCHANGED <<tool, may, on, expired, snd, got, verdict, seq, stopping, raced, inbox, out,
                 sessions, reaping, closing, main, ticks>>

\* A subprocess for prompt r on fresh channels, as a resume after a clean exit
\* installs it.
Resume(p, r) ==
  /\ life[p] = "clean" /\ p \notin stopping
  /\ life' = [life EXCEPT ![p] = "running"]
  /\ inbox' = [inbox EXCEPT ![p] = <<r>>]
  /\ out' = [out EXCEPT ![p] = <<>>]

\* The Send goroutine of a streaming or ACP process. It outlives the turn that
\* started it. Send may also fail after the prompt was delivered.
Deliver(r) ==
  LET p == on[r] IN
  /\ main # "exited" /\ snd[r] = "pending"
  /\ \/ /\ Running(p)
        /\ inbox' = [inbox EXCEPT ![p] = Append(@, r)]
        /\ \E res \in {"ok"} \cup (IF "sendFails" \in may THEN {"err"} ELSE {}) :
             snd' = [snd EXCEPT ![r] = res]
        /\ UNCHANGED <<life, out>>
     \/ Resume(p, r) /\ snd' = [snd EXCEPT ![r] = "ok"]
     \/ /\ ~Running(p) \/ p \in stopping \/ r \in expired \/ "sendFails" \in may
        /\ snd' = [snd EXCEPT ![r] = "err"]
        /\ UNCHANGED <<life, inbox, out>>
  /\ UNCHANGED <<tool, may, pc, on, expired, got, verdict, seq, stopping, raced, sem, sessions,
                 reaping, closing, main, ticks>>

\* The turn of request r is over.
Over(r, how) ==
  /\ verdict' = [verdict EXCEPT ![r] = how]
  /\ Goto(r, "after")

\* The synchronous Send of a SequentialSender resumes a subprocess that ended
\* cleanly, or replaces one that still runs and keeps its channels. Only the
\* resume looks for a Stop before it commits: a replacement that was claimed
\* before the Stop may be installed after it.
SendSequential(r) ==
  LET p == on[r] IN
  /\ At(r, "sending") /\ r \notin expired
  /\ \/ Resume(p, r)
     \/ /\ Running(p) /\ p \notin stopping \ raced
        /\ inbox' = [inbox EXCEPT ![p] = <<r>>]
        /\ UNCHANGED <<life, out>>
  /\ Goto(r, "drain")
  /\ UNCHANGED <<tool, may, on, expired, snd, got, verdict, seq, stopping, raced, sem, sessions,
                 reaping, closing, main, ticks>>

\* A replacement that fails has killed the subprocess and ends the session.
SendSequentialFails(r) ==
  LET p == on[r] IN
  /\ At(r, "sending")
  /\ r \in expired \/ p \in stopping \/ Failed(p) \/ "sendFails" \in may
  /\ life' \in {life, [life EXCEPT ![p] = IF Running(p) THEN "failed" ELSE @]}
  /\ Over(r, "error")
  /\ UNCHANGED <<tool, may, on, expired, snd, got, seq, stopping, raced, inbox, out, sem, sessions,
                 reaping, closing, main, ticks>>

\* A result was read; collectSendError looks at the Send error once.
ReadResult(r) ==
  LET p == on[r] IN
  /\ At(r, "drain") /\ out[p] # <<>>
  /\ got' = [got EXCEPT ![r] = Head(out[p])]
  /\ out' = [out EXCEPT ![p] = Tail(@)]
  /\ Over(r, IF snd[r] = "err" THEN "error" ELSE "result")
  /\ UNCHANGED <<tool, may, on, expired, snd, life, seq, stopping, raced, inbox, sem, sessions,
                 reaping, closing, main, ticks>>

\* Output was closed without a result: the Send error, or proc.Err().
OutputClosed(r) ==
  LET p == on[r] IN
  /\ At(r, "drain") /\ ~Running(p) /\ out[p] = <<>>
  /\ Over(r, IF snd[r] = "err" \/ Failed(p) THEN "error" ELSE "closed")
  /\ UNCHANGED <<tool, may, on, expired, snd, got, procs, sem, sessions, reaping, closing, main,
                 ticks>>

SendFails(r) ==
  /\ At(r, "drain") /\ snd[r] = "err"
  /\ Over(r, "error")
  /\ UNCHANGED <<tool, may, on, expired, snd, got, procs, sem, sessions, reaping, closing, main,
                 ticks>>

TimedOut(r) ==
  /\ At(r, "drain") /\ r \in expired
  /\ Over(r, "timeout")
  /\ UNCHANGED <<tool, may, on, expired, snd, got, procs, sem, sessions, reaping, closing, main,
                 ticks>>

-----------------------------------------------------------------------------
(* After the turn of a handler that started its process.                    *)

\* A Send that is past its look at stopping. It and Stop each wait for, or
\* drain, the token that the old reader leaves once, and there is no other.
Resuming(p) ==
  \E q \in Requests :
    on[q] = p /\ (pc[q] = "sending" \/ (snd[q] = "pending" /\ life[p] = "clean"))

CallStop(S) ==
  /\ stopping' = stopping \cup S
  /\ raced' = raced \cup {p \in S : Resuming(p)}

StopProcess(r) == CallStop({on[r]}) /\ Goto(r, "stopping")

AfterRun(r) ==
  /\ At(r, "after") /\ tool[r] \in {"run_turn", "probe_backend"}
  /\ StopProcess(r)
  /\ UNCHANGED <<tool, may, on, expired, snd, got, verdict, life, seq, inbox, out, sem, sessions,
                 reaping, closing, main, ticks>>

AfterFirst(r) ==
  /\ At(r, "after") /\ tool[r] = "session_start"
  /\ IF Failed(on[r]) THEN StopProcess(r) ELSE Goto(r, "register") /\ UNCHANGED <<stopping, raced>>
  /\ UNCHANGED <<tool, may, on, expired, snd, got, verdict, life, seq, inbox, out, sem, sessions,
                 reaping, closing, main, ticks>>

\* Mutant of MayCreate: the limit off by one.
MayCreateOneMore(kept) ==
  /\ Cardinality(store) =< MaxSessions
  /\ kept \in 0..stamps
  /\ kept < RateLimit

\* Stamps older than a minute are pruned before they are counted.
MayCreate(kept) ==
  /\ Cardinality(store) < MaxSessions
  /\ kept \in 0..stamps
  /\ kept < RateLimit

\* "registered" is what the caller learns of the session's id.
Create(r) ==
  /\ At(r, "register")
  /\ \E kept \in 0..stamps : MayCreate(kept) /\ stamps' = kept + 1
  /\ store' = store \cup {r}
  /\ verdict' = [verdict EXCEPT ![r] = "registered"]
  /\ Goto(r, "answered") /\ Release
  /\ UNCHANGED <<tool, may, on, expired, snd, got, procs, active, idle, holder, reaping, closing,
                 main, ticks>>

\* No capacity, too many creations, or no random bytes for an id.
CreateFails(r) ==
  /\ At(r, "register")
  /\ \E kept \in 0..stamps : (~MayCreate(kept) \/ "refuse" \in may) /\ stamps' = kept
  /\ StopProcess(r)
  /\ UNCHANGED <<tool, may, on, expired, snd, got, verdict, life, seq, inbox, out, sem, store,
                 active, idle, holder, reaping, closing, main, ticks>>

-----------------------------------------------------------------------------
(* session_send and session_stop.                                           *)

NotFound(r) ==
  /\ At(r, "lookup") /\ on[r] \notin store
  /\ Goto(r, "answered")
  /\ IF tool[r] = "session_send" THEN Release ELSE UNCHANGED sem
  /\ UNCHANGED <<tool, may, on, expired, snd, got, verdict, procs, sessions, reaping, closing,
                 main, ticks>>

Get(r) ==
  /\ At(r, "lookup") /\ tool[r] = "session_send" /\ on[r] \in store
  /\ Goto(r, "lock")
  /\ UNCHANGED <<tool, may, on, expired, snd, got, verdict, procs, sem, sessions, reaping,
                 closing, main, ticks>>

\* Mutant of Lock: the turns of a session are not serialized.
NoLock(r) == TRUE

\* entry.mu serializes the turns of a session.
Lock(r) == holder[on[r]] = Nobody

\* Mutant of Counted: the turn is uncounted when it ends and never counted.
NotCounted(p) == active

Counted(p) == [active EXCEPT ![p] = @ + 1]

BeginTurn(r) ==
  LET p == on[r] IN
  /\ At(r, "lock") /\ Lock(r)
  /\ holder' = [holder EXCEPT ![p] = r]
  /\ active' = Counted(p)
  /\ idle' = idle \ {p}
  /\ IF p \in seq
     THEN Goto(r, "sending") /\ UNCHANGED snd
     ELSE Goto(r, "drain") /\ snd' = [snd EXCEPT ![r] = "pending"]
  /\ UNCHANGED <<tool, may, on, expired, got, verdict, procs, sem, store, stamps, reaping, closing,
                 main, ticks>>

\* The deferred calls of doSessionSend.
EndTurn(p) ==
  /\ holder' = [holder EXCEPT ![p] = Nobody]
  /\ active' = [active EXCEPT ![p] = @ - 1]

AfterSend(r) ==
  LET p == on[r] IN
  /\ At(r, "after") /\ tool[r] = "session_send" /\ ~Failed(p)
  /\ idle' = idle \ {p}
  /\ EndTurn(p)
  /\ Goto(r, "answered") /\ Release
  /\ UNCHANGED <<tool, may, on, expired, snd, got, verdict, procs, store, stamps, reaping, closing,
                 main, ticks>>

\* Mutant of Removed: the failed session stays registered.
NotRemoved(p) == store

Removed(p) == store \ {p}

AutoRemove(r) ==
  LET p == on[r] IN
  /\ At(r, "after") /\ tool[r] = "session_send" /\ Failed(p)
  /\ idle' = idle \ {p}
  /\ store' = Removed(p)
  /\ StopProcess(r)
  /\ UNCHANGED <<tool, may, on, expired, snd, got, verdict, life, seq, inbox, out, sem, stamps,
                 active, holder, reaping, closing, main, ticks>>

SessionStop(r) ==
  LET p == on[r] IN
  /\ At(r, "lookup") /\ tool[r] = "session_stop" /\ p \in store
  /\ store' = store \ {p}
  /\ StopProcess(r)
  /\ UNCHANGED <<tool, may, on, expired, snd, got, verdict, life, seq, inbox, out, sem, stamps,
                 active, idle, holder, reaping, closing, main, ticks>>

\* Stop has returned: the process is dead, its prompts are lost.
Dead(p) ==
  /\ life' \in {[life EXCEPT ![p] = IF Running(p) THEN end ELSE @] : end \in {"clean", "failed"}}
  /\ inbox' = [inbox EXCEPT ![p] = <<>>]

Stopped(r) ==
  LET p == on[r] IN
  /\ At(r, "stopping")
  /\ Dead(p)
  /\ Goto(r, "answered")
  /\ IF tool[r] = "session_stop" THEN UNCHANGED sem ELSE Release
  /\ IF tool[r] = "session_send" THEN EndTurn(p) ELSE UNCHANGED <<holder, active>>
  /\ UNCHANGED <<tool, may, on, expired, snd, got, verdict, seq, stopping, raced, out, store,
                 stamps, idle, reaping, closing, main, ticks>>

-----------------------------------------------------------------------------
(* The reaper, the shutdown of main, the agents and the clock.              *)

\* Time passes: nothing happened on a session for longer than maxIdle.
GrowIdle(p) ==
  /\ main # "exited" /\ p \in store \ idle /\ "reap" \in may
  /\ idle' = idle \cup {p}
  /\ UNCHANGED <<handlers, procs, sem, store, stamps, active, holder, reaping, closing, main,
                 ticks>>

Reapable == {p \in store \cap idle : active[p] = 0}

\* The reaper stops what it removed one by one before its next tick.
ReapIdle ==
  /\ main = "serving" /\ reaping = {} /\ Reapable # {} /\ ticks < MaxTicks
  /\ store' = store \ Reapable
  /\ reaping' = Reapable
  /\ ticks' = ticks + 1
  /\ UNCHANGED <<handlers, procs, sem, stamps, active, idle, holder, closing, main>>

ReaperStops(p) ==
  /\ main # "exited" /\ p \in reaping
  /\ IF p \notin stopping
     THEN CallStop({p}) /\ UNCHANGED <<life, inbox, reaping>>
     ELSE Dead(p) /\ reaping' = reaping \ {p} /\ UNCHANGED <<stopping, raced>>
  /\ UNCHANGED <<handlers, seq, out, sem, sessions, closing, main, ticks>>

\* Mutant of Taken: the map is replaced before its entries are listed.
TakenLate == {}

\* server.Run returned: the store is emptied into the list of entries to stop.
Taken == store

StopAll ==
  /\ main = "serving" /\ "shutdown" \in may
  /\ main' = "stopAll"
  /\ closing' = Taken /\ store' = {}
  /\ CallStop(Taken)
  /\ UNCHANGED <<handlers, life, seq, inbox, out, sem, stamps, active, idle, holder, reaping,
                 ticks>>

Closed(p) ==
  /\ main = "stopAll" /\ p \in closing
  /\ Dead(p) /\ closing' = closing \ {p}
  /\ UNCHANGED <<handlers, seq, stopping, raced, out, sem, sessions, reaping, main, ticks>>

\* main returns; requests still in flight are cut off.
Exit ==
  /\ main = "stopAll" /\ closing = {}
  /\ main' = "exited"
  /\ UNCHANGED <<handlers, procs, sem, sessions, reaping, closing, ticks>>

\* server.Run returned an error: os.Exit skips stopAll.
RunFails ==
  /\ main = "serving" /\ "shutdown" \in may
  /\ main' = "exited"
  /\ UNCHANGED <<handlers, procs, sem, sessions, reaping, closing, ticks>>

AgentAnswers(p) ==
  /\ Running(p) /\ inbox[p] # <<>>
  /\ out' = [out EXCEPT ![p] = Append(@, Head(inbox[p]))]
  /\ inbox' = [inbox EXCEPT ![p] = Tail(@)]
  /\ UNCHANGED <<handlers, life, seq, stopping, raced, sem, sessions, reaping, closing, main, ticks>>

AgentExits(p) ==
  /\ Running(p) /\ "exit" \in may
  /\ life' \in {[life EXCEPT ![p] = end] : end \in {"clean", "failed"}}
  /\ inbox' = [inbox EXCEPT ![p] = <<>>]
  /\ UNCHANGED <<handlers, seq, stopping, raced, out, sem, sessions, reaping, closing, main, ticks>>

Handler(r) ==
  \/ AcquireSem(r) \/ AcquireFails(r)
  \/ StartFails(r) \/ StartProcess(r) \/ Started(r) \/ HandshakeFails(r)
  \/ SendSequential(r) \/ SendSequentialFails(r)
  \/ ReadResult(r) \/ OutputClosed(r) \/ SendFails(r) \/ TimedOut(r)
  \/ AfterRun(r) \/ AfterFirst(r) \/ Create(r) \/ CreateFails(r)
  \/ NotFound(r) \/ Get(r) \/ BeginTurn(r) \/ AfterSend(r) \/ AutoRemove(r)
  \/ SessionStop(r) \/ Stopped(r)

Next ==
  \/ \E r \in Requests : Arrive(r) \/ Handler(r) \/ Expire(r) \/ Deliver(r)
  \/ \E p \in Requests :
       \/ GrowIdle(p) \/ ReaperStops(p) \/ Closed(p)
       \/ AgentAnswers(p) \/ AgentExits(p)
  \/ ReapIdle \/ StopAll \/ Exit \/ RunFails

Spec == Init /\ [][Next]_vars

-----------------------------------------------------------------------------
(* Fairness. Goroutines run and the timer of clampTimeout fires; nothing is *)
(* asked of agents or callers. Each request takes a token and a lock once,  *)
(* so those it waits for stay free in the end and weak fairness is enough.  *)
(* A Stop and the Send it met may wait for ever, and so may a Start whose   *)
(* agent floods Output before anybody reads it.                             *)

Stuck(r) ==
  \/ pc[r] \in {"sending", "stopping"} /\ on[r] \in raced
  \/ pc[r] = "starting" /\ "hang" \in may

Fairness ==
  /\ \A r \in Requests :
       /\ WF_vars(Handler(r) /\ ~Stuck(r)) /\ WF_vars(Deliver(r))
       /\ WF_vars(Expire(r) /\ pc[r] # "acquireSem")
  /\ \A p \in Requests :
       WF_vars(ReaperStops(p) /\ p \notin raced) /\ WF_vars(Closed(p) /\ p \notin raced)
  /\ WF_vars(Exit)

FairSpec == Spec /\ Fairness

-----------------------------------------------------------------------------
Places == {"idle", "acquireSem", "lookup", "start", "starting", "lock", "sending", "drain", "after",
           "register", "stopping", "answered"}

TypeOK ==
  /\ tool \in [Requests -> Tools] /\ may \subseteq Events
  /\ pc \in [Requests -> Places]
  /\ on \in [Requests -> Requests]
  /\ expired \subseteq Requests
  /\ snd \in [Requests -> {"none", "pending", "ok", "err"}]
  /\ got \in [Requests -> Requests \cup {Nobody}]
  /\ verdict \in [Requests -> {"none", "result", "closed", "timeout", "error", "registered"}]
  /\ life \in [Requests -> {"none", "running", "clean", "failed"}]
  /\ seq \subseteq Requests /\ stopping \subseteq Requests /\ raced \subseteq stopping
  /\ inbox \in [Requests -> Seq(Requests)] /\ out \in [Requests -> Seq(Requests)]
  /\ sem \in 0..SemCapacity
  /\ store \subseteq Requests /\ idle \subseteq Requests
  /\ stamps \in 0..RateLimit
  /\ active \in [Requests -> Nat]
  /\ holder \in [Requests -> Requests \cup {Nobody}]
  /\ reaping \subseteq Requests /\ closing \subseteq Requests
  /\ main \in {"serving", "stopAll", "exited"}
  /\ ticks \in 0..MaxTicks

\* The handlers that have a process of their own or took one out of the store.
Holds(r, p) ==
  /\ on[r] = p
  /\ \/ tool[r] \in Starting /\ pc[r] \in {"starting", "drain", "after", "register", "stopping"}
     \/ tool[r] \in {"session_send", "session_stop"} /\ pc[r] = "stopping"

\* No subprocess runs that nobody will stop: each is a registered session, or a
\* handler, the reaper or stopAll has it in hand. So when the server exits after
\* stopAll only the requests it cuts off, and a session registered after stopAll
\* emptied the store, leave a process behind.
NoOrphan ==
  \A p \in Requests :
    Running(p) => p \in store \cup reaping \cup closing \/ \E r \in Requests : Holds(r, p)

\* The session limit is checked after the subprocess ran its first turn, yet
\* what runs at once is bounded: the sessions, a process for each token of the
\* semaphore whose holder is not inside a session's turn, and those that are
\* already being stopped.
LiveBound ==
  Cardinality({p \in Requests : Running(p) /\ p \notin stopping \cup reaping})
    =< MaxSessions + sem - Cardinality({p \in Requests : active[p] > 0})

\* A turn that reports the result of another prompt finds it on a session on which
\* some turn has left an answer of its own unread, or got none: it timed out, failed,
\* or found Output closed. A session all of whose turns read their own result never
\* mixes answers up.
Unread(q) == verdict[q] \in {"timeout", "error", "closed"} \/ (tool[q] = "session_start" /\ got[q] # q)
OwnAnswer ==
  \A r \in Requests :
    got[r] \notin {r, Nobody} => \E q \in Requests \ {r} : on[q] = on[r] /\ Unread(q)

\* A session_send on a process that has failed takes the session out of the
\* store, whichever way its turn ends.
FailedSessionsLeave ==
  \A r \in Requests :
    (tool[r] = "session_send" /\ pc[r] \in {"sending", "drain"} /\ Failed(on[r]))
      ~> (on[r] \notin store \/ main = "exited")

\* Every request that arrived is answered, unless the server exits; there are
\* finitely many, so a time comes when all have been. Left over are the handlers
\* that may wait for ever, in a Stop that met a Send that resumes or replaces, in
\* that Send, or in a Start that hangs, and who waits for the lock of a session or
\* a token that such a handler holds.
Behind(r) ==
  \/ pc[r] = "lock" /\ \E q \in Requests : holder[on[r]] = q /\ Stuck(q)
  \/ pc[r] = "acquireSem" /\ sem = SemCapacity
       /\ \E q \in Requests : Stuck(q) /\ tool[q] # "session_stop"

Settled ==
  main = "exited"
    \/ \A r \in Requests : pc[r] \in {"idle", "answered"} \/ Stuck(r) \/ Behind(r)
=============================================================================

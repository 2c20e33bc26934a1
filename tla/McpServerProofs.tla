--------------------------- MODULE McpServerProofs ---------------------------
(***************************************************************************)
(* The safety of the MCP server for any set of tool calls and any limits:  *)
(* the semaphore and the locks of the sessions, who has which subprocess   *)
(* in hand, how many run at once, and whose answer a turn reports.         *)
(***************************************************************************)
EXTENDS McpServer, FiniteSetTheorems, TLAPS

-----------------------------------------------------------------------------
(* The inductive invariant, by what its parts relate.                      *)

HandlerTypes ==
  /\ tool \in [Requests -> Tools]
  /\ pc \in [Requests -> Places]
  /\ on \in [Requests -> Requests]
  /\ snd \in [Requests -> {"none", "pending", "ok", "err"}]
  /\ got \in [Requests -> Requests \cup {Nobody}]
  /\ verdict \in [Requests -> {"none", "result", "closed", "timeout", "error", "registered"}]

ProcTypes ==
  /\ life \in [Requests -> {"none", "running", "clean", "failed"}]
  /\ seq \subseteq Requests /\ stopping \subseteq Requests /\ raced \subseteq stopping
  /\ inbox \in [Requests -> Seq(Requests)] /\ out \in [Requests -> Seq(Requests)]

SessionTypes ==
  /\ store \subseteq Requests /\ idle \subseteq Requests
  /\ stamps \in 0..RateLimit
  /\ active \in [Requests -> {0, 1}]
  /\ holder \in [Requests -> Requests \cup {Nobody}]
  /\ reaping \subseteq Requests /\ closing \subseteq Requests

OtherTypes ==
  /\ may \subseteq Events
  /\ expired \subseteq Requests
  /\ main \in {"serving", "stopAll", "exited"}
  /\ ticks \in 0..MaxTicks

Typed == HandlerTypes /\ ProcTypes /\ SessionTypes /\ OtherTypes

\* Which handler gets where; the session a handler names has its first turn
\* behind it; who stops a process has called Stop.
Routes ==
  \A r \in Requests :
    /\ tool[r] \in Starting => on[r] = r /\ pc[r] \notin {"lookup", "lock", "sending"}
    /\ tool[r] = "session_send" => pc[r] \notin {"start", "starting", "register"}
    /\ tool[r] = "session_stop" => pc[r] \in {"idle", "lookup", "stopping", "answered"}
    /\ pc[r] = "register" => tool[r] = "session_start"
    /\ tool[r] \notin Starting /\ pc[r] # "idle" =>
         tool[on[r]] = "session_start" /\ pc[on[r]] = "answered"
    /\ pc[r] = "stopping" => on[r] \in stopping

\* A turn of a session is counted once and holds the session's lock.
InSession(r) == tool[r] = "session_send" /\ pc[r] \in {"sending", "drain", "after", "stopping"}

Turns ==
  /\ \A p \in Requests : active[p] = IF holder[p] = Nobody THEN 0 ELSE 1
  /\ \A p \in Requests : holder[p] # Nobody => on[holder[p]] = p /\ InSession(holder[p])
  /\ \A r \in Requests : InSession(r) => holder[on[r]] = r

\* The semaphore counts the handlers between their acquisition and their release.
Acquired(r) ==
  /\ tool[r] # "session_stop" /\ pc[r] \notin {"idle", "acquireSem", "answered"}
  /\ tool[r] = "session_send" \/ pc[r] # "lookup"

Tokens == {r \in Requests : Acquired(r)}

Bounded ==
  /\ IsFiniteSet(Tokens) /\ sem = Cardinality(Tokens) /\ sem <= SemCapacity
  /\ IsFiniteSet(store) /\ Cardinality(store) <= MaxSessions

\* A process that was started is in somebody's hands, or dead for good: stopped,
\* or given up by the Start that spawned it.
InHand(p) == p \in store \cup reaping \cup closing \/ \E r \in Requests : Holds(r, p)

Gone(p) == (p \in stopping /\ ~Running(p)) \/ Failed(p)

Hands ==
  /\ \A p \in Requests : life[p] # "none" => InHand(p) \/ Gone(p)
  /\ closing \subseteq stopping
  /\ main = "serving" => closing = {}

\* A turn of p is over that has left its own answer unread.
Past == {"after", "register", "stopping", "answered"}
Missed(q) ==
  /\ pc[q] \in Past
  /\ IF tool[q] = "session_start" THEN got[q] # q ELSE verdict[q] \in {"timeout", "error", "closed"}
Spoiled(p) == \E q \in Requests : on[q] = p /\ Missed(q)

\* Prompts and answers on process p, by request: each is there once, of a turn
\* that waits for it or of one that is over, and then some answer was left.
In(q, s) == \E i \in DOMAIN s : s[i] = q
Distinct(s) == \A i, j \in DOMAIN s : s[i] = s[j] => i = j
Queued(q, p) == In(q, inbox[p])
Answered(q, p) == In(q, out[p])
Underway(q) == snd[q] = "pending"
Item(q, p) == Queued(q, p) \/ Answered(q, p) \/ (Underway(q) /\ on[q] = p)

Located ==
  \A p, q \in Requests :
    Item(q, p) => on[q] = p /\ (pc[q] = "drain" \/ (pc[q] \in Past /\ Spoiled(p)))

Single ==
  /\ \A p, q \in Requests :
       /\ Queued(q, p) => ~Answered(q, p) /\ ~Underway(q)
       /\ Answered(q, p) => ~Underway(q)
  /\ \A p \in Requests : Distinct(inbox[p]) /\ Distinct(out[p])

Fresh == \A q \in Requests : pc[q] \notin Past => got[q] = Nobody

Items == Located /\ Single /\ Fresh

Foreign ==
  \A r \in Requests :
    got[r] \notin {r, Nobody} => \E q \in Requests \ {r} : on[q] = on[r] /\ Missed(q)

Inv == Typed /\ Routes /\ Turns /\ Bounded /\ Hands /\ Items /\ Foreign

-----------------------------------------------------------------------------
(* Types.                                                                  *)

\* Prompts and answers on their way: a sequence more, less or anew.
LEMMA SequenceTypes ==
  ASSUME NEW s \in Seq(Requests), NEW r \in Requests
  PROVE  /\ Append(s, r) \in Seq(Requests) /\ <<r>> \in Seq(Requests) /\ <<>> \in Seq(Requests)
         /\ s # <<>> => Tail(s) \in Seq(Requests) /\ Head(s) \in Requests
  OBVIOUS

LEMMA ArriveTypes ==
  ASSUME Typed, NEW r \in Requests,
         Arrive(r) \/ AcquireSem(r) \/ AcquireFails(r) \/ Expire(r) \/ StartFails(r)
           \/ AfterRun(r) \/ AfterFirst(r) \/ NotFound(r) \/ Get(r)
  PROVE  Typed'
<1>1. pc' \in [Requests -> Places]
  BY DEF Typed, HandlerTypes, Places, Arrive, AcquireSem, AcquireFails, Expire, StartFails,
         AfterRun, AfterFirst, NotFound, Get, Goto, StopProcess, CallStop
<1>2. on' \in [Requests -> Requests]
  BY DEF Typed, HandlerTypes, Arrive, AcquireSem, AcquireFails, Expire, StartFails,
         AfterRun, AfterFirst, NotFound, Get
<1>3. stopping' \subseteq Requests /\ raced' \subseteq stopping' /\ expired' \subseteq Requests
  BY DEF Typed, HandlerTypes, ProcTypes, OtherTypes, Arrive, AcquireSem, AcquireFails, Expire,
         StartFails,
         AfterRun, AfterFirst, NotFound, Get, StopProcess, CallStop, procs
<1>4. HandlerTypes'
  BY <1>1, <1>2
  DEF Typed, HandlerTypes, Arrive, AcquireSem, AcquireFails, Expire, StartFails,
      AfterRun, AfterFirst, NotFound, Get
<1>5. ProcTypes' /\ SessionTypes'
  BY <1>3
  DEF Typed, ProcTypes, SessionTypes, procs, sessions, Arrive, AcquireSem, AcquireFails, Expire,
      StartFails, AfterRun, AfterFirst, NotFound, Get
<1>6. OtherTypes'
  BY <1>3
  DEF Typed, OtherTypes, Arrive, AcquireSem, AcquireFails, Expire, StartFails, AfterRun,
      AfterFirst, NotFound, Get
<1> QED
  BY <1>4, <1>5, <1>6 DEF Typed

LEMMA RunTypes ==
  ASSUME Typed, NEW r \in Requests,
         StartProcess(r) \/ Started(r) \/ HandshakeFails(r) \/ Deliver(r) \/ SendSequential(r)
           \/ SendSequentialFails(r) \/ ReadResult(r) \/ OutputClosed(r) \/ SendFails(r)
           \/ TimedOut(r)
  PROVE  Typed'
<1>0. on[r] \in Requests /\ inbox[on[r]] \in Seq(Requests) /\ out[on[r]] \in Seq(Requests)
  BY DEF Typed, HandlerTypes, ProcTypes
<1>1. pc' \in [Requests -> Places]
  BY DEF Typed, HandlerTypes, Places, Goto, Over, StartProcess, Started, HandshakeFails, Deliver,
         SendSequential,
         SendSequentialFails, ReadResult, OutputClosed, SendFails, TimedOut
<1>2. snd' \in [Requests -> {"none", "pending", "ok", "err"}]
  BY DEF Typed, HandlerTypes, Over, StartProcess, Started, HandshakeFails, Deliver, SendSequential,
         SendSequentialFails, ReadResult, OutputClosed, SendFails, TimedOut
<1>3. got' \in [Requests -> Requests \cup {Nobody}]
  BY <1>0, SequenceTypes
  DEF Typed, HandlerTypes, Over, StartProcess, Started, HandshakeFails, Deliver, SendSequential,
      SendSequentialFails, ReadResult, OutputClosed, SendFails, TimedOut
<1>4. verdict' \in [Requests -> {"none", "result", "closed", "timeout", "error", "registered"}]
  BY DEF Typed, HandlerTypes, Over, StartProcess, Started, HandshakeFails, Deliver, SendSequential,
         SendSequentialFails, ReadResult, OutputClosed, SendFails, TimedOut
<1>5. life' \in [Requests -> {"none", "running", "clean", "failed"}]
  <2>1. life' = life \/ \E q \in Requests, e \in {"running", "failed"} : life' = [life EXCEPT ![q] = e]
    <3>1. CASE SendSequentialFails(r)
      <4>1. \/ life' = life
            \/ life' = [life EXCEPT ![on[r]] = "failed"]
            \/ life' = [life EXCEPT ![on[r]] = life[on[r]]]
        BY <3>1 DEF SendSequentialFails
      <4> QED
        BY <1>0, <4>1 DEF Typed, ProcTypes
    <3> QED
      BY <1>0, <3>1
      DEF Resume, StartProcess, Started, HandshakeFails, Deliver, SendSequential, ReadResult,
          OutputClosed, SendFails,
          TimedOut, procs
  <2> QED
    BY <2>1 DEF Typed, ProcTypes
<1>6. inbox' \in [Requests -> Seq(Requests)]
  <2>1. inbox' = inbox \/ \E q \in Requests, s \in Seq(Requests) : inbox' = [inbox EXCEPT ![q] = s]
    <3>0. <<r>> \in Seq(Requests)
      OBVIOUS
    <3>1. CASE StartProcess(r)
      BY <3>0, <3>1 DEF StartProcess
    <3>2. CASE Deliver(r)
      BY <1>0, <3>2, SequenceTypes DEF Deliver, Resume
    <3>3. CASE SendSequential(r)
      BY <1>0, <3>3, SequenceTypes DEF SendSequential, Resume
    <3> QED
      BY <3>1, <3>2, <3>3 DEF Started, HandshakeFails, SendSequentialFails, ReadResult,
                              OutputClosed, SendFails, TimedOut, procs
  <2> QED
    BY <2>1 DEF Typed, ProcTypes
<1>7. out' \in [Requests -> Seq(Requests)]
  <2>1. out' = out \/ \E q \in Requests, s \in Seq(Requests) : out' = [out EXCEPT ![q] = s]
    <3>1. CASE ReadResult(r)
      BY <1>0, <3>1, SequenceTypes DEF ReadResult
    <3>2. CASE Deliver(r) \/ SendSequential(r)
      BY <1>0, <3>2, SequenceTypes DEF Deliver, SendSequential, Resume
    <3> QED
      BY <3>1, <3>2 DEF StartProcess, Started, HandshakeFails, SendSequentialFails, OutputClosed,
                        SendFails, TimedOut, procs
  <2> QED
    BY <2>1 DEF Typed, ProcTypes
<1>8. UNCHANGED <<tool, may, on, expired, stopping, raced, sessions, reaping, closing, main, ticks>>
      /\ seq' \subseteq Requests
  BY DEF Typed, ProcTypes, Over, StartProcess, Started, HandshakeFails, Deliver, SendSequential,
         SendSequentialFails, ReadResult, OutputClosed, SendFails, TimedOut, procs
<1> QED
  BY <1>1, <1>2, <1>3, <1>4, <1>5, <1>6, <1>7, <1>8
  DEF Typed, HandlerTypes, ProcTypes, SessionTypes, OtherTypes, sessions

LEMMA SessionStepTypes ==
  ASSUME Typed, Turns, NEW r \in Requests,
         Create(r) \/ CreateFails(r) \/ BeginTurn(r) \/ AfterSend(r) \/ AutoRemove(r)
           \/ SessionStop(r) \/ Stopped(r)
  PROVE  Typed'
<1>0. on[r] \in Requests
  BY DEF Typed, HandlerTypes
<1>1. pc' \in [Requests -> Places]
  BY DEF Typed, HandlerTypes, Places, Goto, StopProcess, CallStop, Create, CreateFails, BeginTurn,
         AfterSend,
         AutoRemove, SessionStop, Stopped
<1>2. snd' \in [Requests -> {"none", "pending", "ok", "err"}]
  BY DEF Typed, HandlerTypes, Create, CreateFails, BeginTurn, AfterSend, AutoRemove, SessionStop,
         Stopped
<1>3. verdict' \in [Requests -> {"none", "result", "closed", "timeout", "error", "registered"}]
  BY DEF Typed, HandlerTypes, Create, CreateFails, BeginTurn, AfterSend, AutoRemove, SessionStop,
         Stopped
<1>4. HandlerTypes'
  BY <1>1, <1>2, <1>3
  DEF Typed, HandlerTypes, Create, CreateFails, BeginTurn, AfterSend, AutoRemove, SessionStop,
      Stopped
<1>5. ProcTypes'
  BY ZenonT(60), <1>0, SequenceTypes
  DEF Typed, ProcTypes, StopProcess, CallStop, Create, CreateFails, BeginTurn, AfterSend,
      AutoRemove,
      SessionStop, Stopped, Dead, procs
<1>6. stamps' \in 0..RateLimit
  BY ServerAssumption
  DEF Typed, SessionTypes, Create, CreateFails, MayCreate, BeginTurn, AfterSend, AutoRemove,
      SessionStop, Stopped
<1>7. active' \in [Requests -> {0, 1}] /\ holder' \in [Requests -> Requests \cup {Nobody}]
  <2>1. CASE BeginTurn(r)
    <3>1. active[on[r]] = 0
      BY <1>0, <2>1 DEF BeginTurn, Lock, Turns
    <3> QED
      BY <1>0, <2>1, <3>1 DEF Typed, SessionTypes, BeginTurn, Counted
  <2>2. CASE InSession(r) /\ EndTurn(on[r])
    <3>1. active[on[r]] = 1
      BY <1>0, <2>2, ServerAssumption DEF Turns
    <3> QED
      BY <1>0, <2>2, <3>1 DEF Typed, SessionTypes, EndTurn
  <2>3. CASE UNCHANGED <<active, holder>>
    BY <2>3 DEF Typed, SessionTypes
  <2> QED
    BY <2>1, <2>2, <2>3
    DEF InSession, At, Create, CreateFails, AfterSend, AutoRemove, SessionStop, Stopped
<1>8. store' \subseteq Requests /\ idle' \subseteq Requests /\ UNCHANGED <<reaping, closing>>
  BY DEF Typed, SessionTypes, Create, CreateFails, BeginTurn, AfterSend, AutoRemove, SessionStop,
         Stopped, Removed
<1>9. OtherTypes'
  BY DEF Typed, OtherTypes, Create, CreateFails, BeginTurn, AfterSend, AutoRemove, SessionStop,
         Stopped
<1> QED
  BY <1>4, <1>5, <1>6, <1>7, <1>8, <1>9 DEF Typed, SessionTypes

LEMMA RestTypes ==
  ASSUME Typed, NEW p \in Requests,
         GrowIdle(p) \/ ReaperStops(p) \/ Closed(p) \/ AgentAnswers(p) \/ AgentExits(p)
           \/ ReapIdle \/ StopAll \/ Exit \/ RunFails
  PROVE  Typed'
<1>1. inbox[p] \in Seq(Requests) /\ out[p] \in Seq(Requests)
  BY DEF Typed, ProcTypes
<1>2. inbox' \in [Requests -> Seq(Requests)]
  <2>1. inbox' = inbox \/ \E s \in Seq(Requests) : inbox' = [inbox EXCEPT ![p] = s]
    <3>1. CASE AgentAnswers(p)
      BY <1>1, <3>1, SequenceTypes DEF AgentAnswers
    <3>2. <<>> \in Seq(Requests)
      OBVIOUS
    <3> QED
      BY <3>1, <3>2 DEF GrowIdle, ReaperStops, Closed, AgentExits, ReapIdle, StopAll, Exit,
                        RunFails, Dead, procs
  <2> QED
    BY <2>1 DEF Typed, ProcTypes
<1>3. out' \in [Requests -> Seq(Requests)]
  <2>1. CASE AgentAnswers(p)
    <3>1. Append(out[p], Head(inbox[p])) \in Seq(Requests)
      BY <1>1, <2>1, SequenceTypes DEF AgentAnswers
    <3> QED
      BY <2>1, <3>1 DEF AgentAnswers, Typed, ProcTypes
  <2> QED
    BY <2>1
    DEF Typed, ProcTypes, GrowIdle, ReaperStops, Closed, AgentExits, ReapIdle, StopAll, Exit,
        RunFails, procs
<1>4. ProcTypes'
  BY ZenonT(60), <1>2, <1>3
  DEF Typed, ProcTypes, SessionTypes, GrowIdle, ReaperStops, Closed, AgentAnswers, AgentExits,
      ReapIdle, StopAll, CallStop, Exit, RunFails, Dead, procs, Taken
<1>5. HandlerTypes'
  BY DEF Typed, HandlerTypes, handlers, GrowIdle, ReaperStops, Closed, AgentAnswers, AgentExits,
         ReapIdle, StopAll, Exit, RunFails
<1>6. SessionTypes'
  BY DEF Typed, SessionTypes, sessions, GrowIdle, ReaperStops, Closed, AgentAnswers, AgentExits,
         ReapIdle, Reapable, StopAll, Taken, Exit, RunFails
<1>7. OtherTypes'
  BY ServerAssumption
  DEF Typed, OtherTypes, handlers, GrowIdle, ReaperStops, Closed, AgentAnswers, AgentExits,
      ReapIdle, StopAll, Exit, RunFails
<1> QED
  BY <1>4, <1>5, <1>6, <1>7 DEF Typed

LEMMA TypesStep ==
  ASSUME Typed, Turns, [Next]_vars
  PROVE  Typed'
<1>1. CASE UNCHANGED vars
  BY <1>1
  DEF vars, handlers, procs, sessions, Typed, HandlerTypes, ProcTypes, SessionTypes, OtherTypes
<1>2. CASE ReapIdle \/ StopAll \/ Exit \/ RunFails
  <2>1. CASE Requests = {}
    BY <1>2, <2>1
    DEF handlers, procs, sessions, Typed, HandlerTypes, ProcTypes, SessionTypes, OtherTypes,
        ReapIdle, Reapable, StopAll, CallStop, Taken, Exit, RunFails
  <2> QED
    BY <1>2, <2>1, RestTypes
<1> QED
  BY <1>1, <1>2, ArriveTypes, RunTypes, SessionStepTypes, RestTypes DEF Next, Handler

-----------------------------------------------------------------------------
(* Routes.                                                                 *)

\* A handler that is on its way goes to a place its tool may be at.
LEMMA Move ==
  ASSUME Typed, Routes, NEW r \in Requests, NEW w \in Places \ {"idle"},
         pc' = [pc EXCEPT ![r] = w], UNCHANGED <<tool, on>>, stopping \subseteq stopping',
         pc[r] \notin {"idle", "answered"},
         tool[r] \in Starting => w \notin {"lookup", "lock", "sending"},
         tool[r] = "session_send" => w \notin {"start", "starting", "register"},
         tool[r] = "session_stop" => w \in {"stopping", "answered"},
         w = "register" => tool[r] = "session_start",
         w = "stopping" => on[r] \in stopping'
  PROVE  Routes'
<1>1. ASSUME NEW x \in Requests
      PROVE  pc'[x] = IF x = r THEN w ELSE pc[x]
  BY DEF Typed, HandlerTypes
<1>2. ASSUME NEW x \in Requests
      PROVE  /\ tool'[x] \in Starting => on'[x] = x /\ pc'[x] \notin {"lookup", "lock", "sending"}
             /\ tool'[x] = "session_send" => pc'[x] \notin {"start", "starting", "register"}
             /\ tool'[x] = "session_stop" => pc'[x] \in {"idle", "lookup", "stopping", "answered"}
             /\ pc'[x] = "register" => tool'[x] = "session_start"
             /\ pc'[x] = "stopping" => on'[x] \in stopping'
  BY <1>1, <1>2 DEF Routes
<1>3. ASSUME NEW x \in Requests, tool'[x] \notin Starting, pc'[x] # "idle"
      PROVE  tool'[on'[x]] = "session_start" /\ pc'[on'[x]] = "answered"
  <2>1. pc[x] # "idle" /\ on[x] \in Requests
    BY <1>1, <1>3 DEF Typed, HandlerTypes
  <2>2. tool[on[x]] = "session_start" /\ pc[on[x]] = "answered"
    BY <1>3, <2>1 DEF Routes
  <2> QED
    BY <1>1, <2>1, <2>2
<1> QED
  BY <1>2, <1>3 DEF Routes

LEMMA Stand ==
  ASSUME Routes, UNCHANGED <<tool, pc, on>>, stopping \subseteq stopping'
  PROVE  Routes'
  BY DEF Routes

LEMMA ArriveRoutes ==
  ASSUME Typed, Routes, NEW r \in Requests, Arrive(r)
  PROVE  Routes'
<1>1. PICK w \in {"lookup", "acquireSem"} :
        pc' = [pc EXCEPT ![r] = w] /\ w = IF tool[r] = "session_stop" THEN "lookup" ELSE "acquireSem"
  BY DEF Arrive, Goto
<1>2. PICK p \in Requests :
        /\ on' = [on EXCEPT ![r] = p]
        /\ p \in IF tool[r] \in Starting THEN {r} ELSE
                {q \in Requests : tool[q] = "session_start" /\ pc[q] = "answered"
                                  /\ verdict[q] = "registered"}
  BY DEF Arrive
<1>3. pc[r] = "idle" /\ UNCHANGED <<tool, stopping>>
  BY DEF Arrive, At, procs
<1>4. ASSUME NEW x \in Requests
      PROVE  /\ pc'[x] = IF x = r THEN w ELSE pc[x]
             /\ on'[x] = IF x = r THEN p ELSE on[x]
  BY <1>1, <1>2 DEF Typed, HandlerTypes
<1>5. ASSUME NEW x \in Requests
      PROVE  /\ tool'[x] \in Starting => on'[x] = x /\ pc'[x] \notin {"lookup", "lock", "sending"}
             /\ tool'[x] = "session_send" => pc'[x] \notin {"start", "starting", "register"}
             /\ tool'[x] = "session_stop" => pc'[x] \in {"idle", "lookup", "stopping", "answered"}
             /\ pc'[x] = "register" => tool'[x] = "session_start"
             /\ pc'[x] = "stopping" => on'[x] \in stopping'
  BY <1>1, <1>2, <1>3, <1>4, <1>5 DEF Routes, Starting
<1>6. ASSUME NEW x \in Requests, tool'[x] \notin Starting, pc'[x] # "idle"
      PROVE  tool'[on'[x]] = "session_start" /\ pc'[on'[x]] = "answered"
  <2>1. tool[on'[x]] = "session_start" /\ pc[on'[x]] = "answered" /\ on'[x] \in Requests
    BY <1>2, <1>3, <1>4, <1>6 DEF Routes, Typed, HandlerTypes
  <2> QED
    BY <1>3, <1>4, <2>1
<1> QED
  BY <1>5, <1>6 DEF Routes

LEMMA HandlerRoutes ==
  ASSUME Typed, Routes, NEW r \in Requests, Handler(r)
  PROVE  Routes'
<1>0. stopping \subseteq stopping' /\ UNCHANGED <<tool, on>>
  BY DEF Handler, AcquireSem, AcquireFails, StartFails, StartProcess, Started, HandshakeFails,
         SendSequential,
         SendSequentialFails, ReadResult, OutputClosed, SendFails, TimedOut, AfterRun, AfterFirst,
         Create, CreateFails, NotFound, Get, BeginTurn, AfterSend, AutoRemove, SessionStop,
         Stopped, StopProcess, CallStop, procs
<1>1. CASE AcquireSem(r)
  <2>1. PICK w \in {"lookup", "start"} :
          pc' = [pc EXCEPT ![r] = w] /\ w = IF tool[r] = "session_send" THEN "lookup" ELSE "start"
    BY <1>1 DEF AcquireSem, Goto
  <2>2. pc[r] = "acquireSem" /\ tool[r] # "session_stop" /\ w \in Places \ {"idle"}
    BY <1>1 DEF AcquireSem, At, Routes, Places
  <2> QED
    BY <1>0, <2>1, <2>2, Move DEF Starting, Places
<1>2. CASE \/ AcquireFails(r) \/ StartFails(r) \/ HandshakeFails(r) \/ NotFound(r) \/ Create(r)
           \/ AfterSend(r) \/ Stopped(r)
  <2>1. pc' = [pc EXCEPT ![r] = "answered"] /\ pc[r] \notin {"idle", "answered"}
    BY <1>2 DEF AcquireFails, StartFails, HandshakeFails, NotFound, Create, AfterSend, Stopped,
                At, Goto
  <2> QED
    BY <1>0, <2>1, Move DEF Places
<1>3. CASE StartProcess(r) \/ Started(r) \/ SendSequential(r)
  <2>1. PICK w \in {"drain", "starting"} :
          /\ pc' = [pc EXCEPT ![r] = w] /\ pc[r] \in {"start", "starting", "sending"}
          /\ w = "starting" => pc[r] = "start"
    BY <1>3 DEF StartProcess, Started, SendSequential, At, Goto
  <2>2. tool[r] # "session_stop" /\ (w = "starting" => tool[r] # "session_send")
    BY <2>1 DEF Routes
  <2>3. w \in Places \ {"idle"}
    BY DEF Places
  <2> QED
    BY <1>0, <2>1, <2>2, <2>3, Move
<1>4. CASE SendSequentialFails(r) \/ ReadResult(r) \/ OutputClosed(r) \/ SendFails(r) \/ TimedOut(r)
  <2>1. pc' = [pc EXCEPT ![r] = "after"] /\ pc[r] \in {"sending", "drain"}
    BY <1>4 DEF SendSequentialFails, ReadResult, OutputClosed, SendFails, TimedOut, At, Goto, Over
  <2>2. tool[r] # "session_stop"
    BY <2>1 DEF Routes
  <2> QED
    BY <1>0, <2>1, <2>2, Move DEF Places
<1>5. CASE AfterRun(r) \/ CreateFails(r) \/ AutoRemove(r) \/ SessionStop(r)
  <2>1. /\ pc' = [pc EXCEPT ![r] = "stopping"] /\ pc[r] \notin {"idle", "answered"}
        /\ on[r] \in stopping'
    BY <1>5 DEF AfterRun, CreateFails, AutoRemove, SessionStop, At, Goto, StopProcess, CallStop
  <2> QED
    BY <1>0, <2>1, Move DEF Places
<1>6. CASE AfterFirst(r)
  <2>1. PICK w \in {"stopping", "register"} :
          pc' = [pc EXCEPT ![r] = w] /\ (w = "stopping" => on[r] \in stopping')
    BY <1>6 DEF AfterFirst, Goto, StopProcess, CallStop
  <2>2. pc[r] = "after" /\ tool[r] = "session_start"
    BY <1>6 DEF AfterFirst, At
  <2>3. w \in Places \ {"idle"}
    BY DEF Places
  <2> QED
    BY <1>0, <2>1, <2>2, <2>3, Move
<1>7. CASE Get(r) \/ BeginTurn(r)
  <2>1. PICK w \in {"lock", "sending", "drain"} : pc' = [pc EXCEPT ![r] = w]
    BY <1>7 DEF Get, BeginTurn, Goto
  <2>2. pc[r] \in {"lookup", "lock"} /\ tool[r] = "session_send"
    BY <1>7 DEF Get, BeginTurn, At, Routes, Starting, Tools, Typed, HandlerTypes
  <2>3. w \in Places \ {"idle"}
    BY DEF Places
  <2> QED
    BY <1>0, <2>1, <2>2, <2>3, Move DEF Starting
<1> QED
  BY <1>1, <1>2, <1>3, <1>4, <1>5, <1>6, <1>7 DEF Handler

\* What changes no handler's place, tool or process, and ends no Stop.
LEMMA QuietSteps ==
  ASSUME [Next]_vars,
         ~ \E r \in Requests : Arrive(r) \/ Handler(r)
  PROVE  /\ UNCHANGED <<tool, pc, on, got, verdict, sem, active, holder>>
         /\ stopping \subseteq stopping'
<1>1. CASE \E r \in Requests : Expire(r) \/ Deliver(r)
  BY <1>1 DEF Expire, Deliver, procs, sessions
<1>2. CASE \E p \in Requests : GrowIdle(p) \/ ReaperStops(p) \/ Closed(p) \/ AgentAnswers(p) \/ AgentExits(p)
  BY <1>2 DEF GrowIdle, ReaperStops, CallStop, Closed, AgentAnswers, AgentExits, handlers, procs,
              sessions
<1>3. CASE ReapIdle \/ StopAll \/ Exit \/ RunFails \/ UNCHANGED vars
  BY <1>3 DEF ReapIdle, StopAll, CallStop, Exit, RunFails, vars, handlers, procs, sessions
<1> QED
  BY <1>1, <1>2, <1>3 DEF Next

LEMMA RoutesStep ==
  ASSUME Typed, Routes, [Next]_vars
  PROVE  Routes'
  BY ArriveRoutes, HandlerRoutes, QuietSteps, Stand

-----------------------------------------------------------------------------
(* The turns of a session and its lock.                                    *)

LEMMA SameTurns ==
  ASSUME Typed, Turns, UNCHANGED <<active, holder>>,
         \A x \in Requests : (InSession(x)' <=> InSession(x)) /\ (InSession(x) => on'[x] = on[x])
  PROVE  Turns'
<1>1. ASSUME NEW p \in Requests, holder'[p] # Nobody
      PROVE  on'[holder'[p]] = p /\ InSession(holder[p])'
  <2>1. holder[p] \in Requests
    BY <1>1 DEF Typed, SessionTypes
  <2> QED
    BY <1>1, <2>1 DEF Turns, InSession
<1> QED
  BY <1>1 DEF Turns

\* A handler takes the lock, which was free, or leaves its turn.
LEMMA BeginTurns ==
  ASSUME Typed, Turns, NEW r \in Requests, BeginTurn(r), Routes
  PROVE  Turns'
<1>0. on[r] \in Requests /\ holder[on[r]] = Nobody /\ active[on[r]] = 0 /\ UNCHANGED <<on, tool>>
      /\ pc[r] = "lock" /\ tool[r] = "session_send"
  BY DEF Typed, HandlerTypes, BeginTurn, Lock, At, Turns, Routes, Tools, Starting
<1>1. ASSUME NEW p \in Requests
      PROVE  /\ holder'[p] = IF p = on[r] THEN r ELSE holder[p]
             /\ active'[p] = IF p = on[r] THEN 1 ELSE active[p]
  BY <1>0 DEF BeginTurn, Counted, Typed, SessionTypes
<1>2. PICK w \in {"sending", "drain"} : pc' = [pc EXCEPT ![r] = w]
  BY DEF BeginTurn, Goto
<1>3. ASSUME NEW x \in Requests
      PROVE  InSession(x)' <=> (x = r \/ InSession(x))
  BY <1>0, <1>2 DEF InSession, Typed, HandlerTypes
<1>4. r # Nobody
  BY ServerAssumption
<1>5. \A p \in Requests : active'[p] = IF holder'[p] = Nobody THEN 0 ELSE 1
  BY <1>0, <1>1, <1>4 DEF Turns, Typed, SessionTypes
<1>6. ASSUME NEW p \in Requests, holder'[p] # Nobody
      PROVE  on'[holder'[p]] = p /\ InSession(holder[p])'
  <2>1. CASE p = on[r]
    BY <1>0, <1>1, <1>3, <2>1 DEF InSession
  <2>2. CASE p # on[r]
    <3>1. holder'[p] = holder[p] /\ holder[p] \in Requests /\ on[holder[p]] = p /\ InSession(holder[p])
      BY <1>1, <1>6, <2>2 DEF Typed, SessionTypes, Turns
    <3> QED
      BY <1>0, <1>3, <3>1 DEF InSession
  <2> QED
    BY <2>1, <2>2
<1>7. ASSUME NEW x \in Requests, InSession(x)'
      PROVE  holder'[on'[x]] = x
  BY <1>0, <1>1, <1>3, <1>7, ServerAssumption DEF Turns, Typed, HandlerTypes
<1> QED
  BY <1>5, <1>6, <1>7 DEF Turns

LEMMA EndTurns ==
  ASSUME Typed, Turns, NEW r \in Requests, AfterSend(r) \/ (Stopped(r) /\ tool[r] = "session_send")
  PROVE  Turns'
<1>0. /\ on[r] \in Requests /\ InSession(r) /\ UNCHANGED <<on, tool>>
      /\ pc' = [pc EXCEPT ![r] = "answered"] /\ EndTurn(on[r])
  BY DEF Typed, HandlerTypes, AfterSend, Stopped, At, Goto, InSession
<1>1. holder[on[r]] = r /\ active[on[r]] = 1
  BY <1>0, ServerAssumption DEF Turns
<1>2. ASSUME NEW p \in Requests
      PROVE  /\ holder'[p] = IF p = on[r] THEN Nobody ELSE holder[p]
             /\ active'[p] = IF p = on[r] THEN 0 ELSE active[p]
  BY <1>0, <1>1 DEF EndTurn, Typed, SessionTypes
<1>3. ASSUME NEW x \in Requests
      PROVE  InSession(x)' <=> (x # r /\ InSession(x))
  BY <1>0 DEF InSession, Typed, HandlerTypes
<1>4. \A p \in Requests : active'[p] = IF holder'[p] = Nobody THEN 0 ELSE 1
  BY <1>0, <1>2 DEF Turns, Typed, SessionTypes
<1>5. ASSUME NEW p \in Requests, holder'[p] # Nobody
      PROVE  on'[holder'[p]] = p /\ InSession(holder[p])'
  <2>1. p # on[r]
    BY <1>2, <1>5
  <2>2. holder'[p] = holder[p] /\ holder[p] \in Requests /\ on[holder[p]] = p /\ InSession(holder[p])
    BY <1>2, <1>5, <2>1 DEF Typed, SessionTypes, Turns
  <2>3. holder[p] # r
    BY <2>1, <2>2
  <2> QED
    BY <1>0, <1>3, <2>2, <2>3 DEF InSession
<1>6. ASSUME NEW x \in Requests, InSession(x)'
      PROVE  holder'[on'[x]] = x
  <2>1. x # r /\ InSession(x) /\ on[x] \in Requests /\ holder[on[x]] = x
    BY <1>3, <1>6 DEF Typed, HandlerTypes, Turns
  <2> QED
    BY <1>0, <1>1, <1>2, <2>1
<1> QED
  BY <1>4, <1>5, <1>6 DEF Turns

LEMMA TurnsStep ==
  ASSUME Typed, Routes, Turns, [Next]_vars
  PROVE  Turns'
<1>1. ASSUME NEW r \in Requests, Arrive(r)
      PROVE  Turns'
  <2>1. pc[r] = "idle" /\ UNCHANGED <<tool, active, holder>>
    BY <1>1 DEF Arrive, At, sessions
  <2>2. PICK w \in {"lookup", "acquireSem"}, p \in Requests :
          pc' = [pc EXCEPT ![r] = w] /\ on' = [on EXCEPT ![r] = p]
    BY <1>1 DEF Arrive, Goto
  <2>3. \A x \in Requests : (InSession(x)' <=> InSession(x)) /\ (InSession(x) => on'[x] = on[x])
    BY <2>1, <2>2 DEF InSession, Typed, HandlerTypes
  <2> QED
    BY <2>1, <2>3, SameTurns
<1>2. ASSUME NEW r \in Requests, Handler(r)
      PROVE  Turns'
  <2>1. CASE BeginTurn(r)
    BY <2>1, BeginTurns
  <2>2. CASE AfterSend(r) \/ (Stopped(r) /\ tool[r] = "session_send")
    BY <2>2, EndTurns
  <2>3. CASE AcquireSem(r) \/ AcquireFails(r) \/ StartFails(r) \/ StartProcess(r) \/ Started(r)
               \/ HandshakeFails(r) \/ AfterRun(r) \/ AfterFirst(r) \/ Create(r) \/ CreateFails(r) \/ NotFound(r) \/ Get(r)
               \/ SessionStop(r) \/ (Stopped(r) /\ tool[r] # "session_send")
    <3>1. /\ UNCHANGED <<tool, on, active, holder>>
          /\ \E w \in Places : pc' = [pc EXCEPT ![r] = w]
      BY <2>3
      DEF AcquireSem, AcquireFails, StartFails, StartProcess, Started, HandshakeFails, AfterRun,
          AfterFirst, Create,
          CreateFails, NotFound, Get, SessionStop, Stopped, Goto, StopProcess, CallStop, Places,
          sessions
    <3>2. ~InSession(r)
      BY <2>3
      DEF AcquireSem, AcquireFails, StartFails, StartProcess, Started, HandshakeFails, AfterRun,
          AfterFirst, Create,
          CreateFails, NotFound, Get, SessionStop, Stopped, At, InSession, Routes, Starting
    <3>3. tool[r] # "session_send" \/ pc'[r] \in {"lookup", "lock", "answered", "start"}
      BY <2>3
      DEF AcquireSem, AcquireFails, StartFails, StartProcess, Started, HandshakeFails, AfterRun,
          AfterFirst, Create,
          CreateFails, NotFound, Get, SessionStop, Stopped, At, Goto, Routes, Typed, HandlerTypes
    <3>4. \A x \in Requests : (InSession(x)' <=> InSession(x)) /\ (InSession(x) => on'[x] = on[x])
      BY <3>1, <3>2, <3>3 DEF InSession, Typed, HandlerTypes
    <3> QED
      BY <3>1, <3>4, SameTurns
  <2>4. CASE SendSequential(r) \/ SendSequentialFails(r) \/ ReadResult(r) \/ OutputClosed(r)
               \/ SendFails(r) \/ TimedOut(r) \/ AutoRemove(r)
    <3>1. /\ UNCHANGED <<tool, on, active, holder>>
          /\ \E w \in {"drain", "after", "stopping"} : pc' = [pc EXCEPT ![r] = w]
          /\ pc[r] \in {"sending", "drain", "after"}
      BY <2>4
      DEF SendSequential, SendSequentialFails, ReadResult, OutputClosed, SendFails, TimedOut,
          AutoRemove, Goto, Over, StopProcess, CallStop, At, sessions
    <3>2. \A x \in Requests : (InSession(x)' <=> InSession(x)) /\ (InSession(x) => on'[x] = on[x])
      BY <3>1 DEF InSession, Typed, HandlerTypes
    <3> QED
      BY <3>1, <3>2, SameTurns
  <2> QED
    BY <1>2, <2>1, <2>2, <2>3, <2>4 DEF Handler
<1>3. CASE ~ \E r \in Requests : Arrive(r) \/ Handler(r)
  <2>1. UNCHANGED <<tool, pc, on, active, holder>>
    BY <1>3, QuietSteps
  <2>2. \A x \in Requests : (InSession(x)' <=> InSession(x)) /\ (InSession(x) => on'[x] = on[x])
    BY <2>1 DEF InSession
  <2> QED
    BY <2>1, <2>2, SameTurns
<1> QED
  BY <1>1, <1>2, <1>3

-----------------------------------------------------------------------------
(* The semaphore and the limit of the store.                               *)

\* What a step does to the handlers that have a token.
LEMMA TokensStep ==
  ASSUME Typed, Routes, [Next]_vars
  PROVE  \/ UNCHANGED sem /\ Tokens' = Tokens
         \/ \E r \in Requests \ Tokens : sem < SemCapacity /\ sem' = sem + 1 /\ Tokens' = Tokens \cup {r}
         \/ \E r \in Tokens : sem' = sem - 1 /\ Tokens' = Tokens \ {r}
<1>1. ASSUME NEW r \in Requests, NEW w \in Places, UNCHANGED tool, pc' = [pc EXCEPT ![r] = w]
      PROVE  /\ Acquired(r)' => Tokens' = Tokens \cup {r}
             /\ ~Acquired(r)' => Tokens' = Tokens \ {r}
  <2>1. \A x \in Requests \ {r} : Acquired(x)' <=> Acquired(x)
    BY <1>1 DEF Typed, HandlerTypes, Acquired
  <2> QED
    BY <2>1 DEF Tokens
<1>2. ASSUME NEW r \in Requests, AcquireSem(r)
      PROVE  /\ r \notin Tokens
             /\ sem < SemCapacity /\ sem' = sem + 1 /\ Tokens' = Tokens \cup {r}
  <2>1. pc[r] = "acquireSem" /\ tool[r] # "session_stop" /\ UNCHANGED tool /\ sem < SemCapacity /\ sem' = sem + 1
    BY <1>2 DEF AcquireSem, At, Routes
  <2>2. PICK w \in Places :
          pc' = [pc EXCEPT ![r] = w] /\ w = IF tool[r] = "session_send" THEN "lookup" ELSE "start"
    BY <1>2 DEF AcquireSem, Goto, Places
  <2>3. Acquired(r)'
    BY <2>1, <2>2 DEF Acquired, Typed, HandlerTypes
  <2> QED
    BY <1>1, <2>1, <2>2, <2>3 DEF Acquired, Tokens
<1>3. ASSUME NEW r \in Requests,
             StartFails(r) \/ HandshakeFails(r) \/ Create(r) \/ (NotFound(r) /\ tool[r] = "session_send")
               \/ AfterSend(r) \/ (Stopped(r) /\ tool[r] # "session_stop")
      PROVE  r \in Tokens /\ sem' = sem - 1 /\ Tokens' = Tokens \ {r}
  <2>1. /\ UNCHANGED tool /\ pc' = [pc EXCEPT ![r] = "answered"] /\ sem' = sem - 1
        /\ pc[r] \in {"start", "starting", "register", "lookup", "after", "stopping"}
        /\ pc[r] = "lookup" => tool[r] = "session_send"
        /\ tool[r] # "session_stop"
    BY <1>3 DEF StartFails, HandshakeFails, Create, NotFound, AfterSend, Stopped, At, Goto,
                Release, Routes
  <2>2. r \in Tokens /\ ~Acquired(r)' /\ "answered" \in Places
    BY <2>1 DEF Tokens, Acquired, Typed, HandlerTypes, Places
  <2> QED
    BY <1>1, <2>1, <2>2
<1>4. ASSUME NEW r \in Requests, NEW w \in Places,
             UNCHANGED <<tool, sem>>, pc' = [pc EXCEPT ![r] = w], Acquired(r)' <=> Acquired(r)
      PROVE  UNCHANGED sem /\ Tokens' = Tokens
  BY <1>1, <1>4 DEF Tokens
<1>5. ASSUME NEW r \in Requests,
             Arrive(r) \/ AcquireFails(r) \/ (NotFound(r) /\ tool[r] # "session_send")
               \/ SessionStop(r) \/ (Stopped(r) /\ tool[r] = "session_stop")
      PROVE  UNCHANGED sem /\ Tokens' = Tokens
  <2>1. /\ UNCHANGED <<tool, sem>>
        /\ pc[r] \in {"idle", "acquireSem"} \/ tool[r] = "session_stop"
    BY <1>5 DEF Arrive, AcquireFails, NotFound, SessionStop, Stopped, At, Routes, Tools, Starting,
                Typed, HandlerTypes
  <2>2. PICK w \in Places :
          /\ pc' = [pc EXCEPT ![r] = w]
          /\ w \in {"acquireSem", "answered"} \/ tool[r] = "session_stop"
    BY <1>5 DEF Arrive, AcquireFails, NotFound, SessionStop, Stopped, Goto, StopProcess, CallStop,
                Places, Routes, Tools, Starting, Typed, HandlerTypes, At
  <2>3. Acquired(r)' <=> Acquired(r)
    BY <2>1, <2>2 DEF Acquired, Typed, HandlerTypes
  <2> QED
    BY <1>4, <2>1, <2>2, <2>3
<1>6. ASSUME NEW r \in Requests,
             StartProcess(r) \/ Started(r) \/ SendSequential(r) \/ SendSequentialFails(r)
               \/ ReadResult(r) \/ OutputClosed(r) \/ SendFails(r) \/ TimedOut(r) \/ AfterRun(r) \/ AfterFirst(r)
               \/ CreateFails(r) \/ Get(r) \/ BeginTurn(r) \/ AutoRemove(r)
      PROVE  UNCHANGED sem /\ Tokens' = Tokens
  <2>1. /\ UNCHANGED <<tool, sem>> /\ tool[r] # "session_stop"
        /\ pc[r] \notin {"idle", "acquireSem", "answered"} /\ (tool[r] = "session_send" \/ pc[r] # "lookup")
    BY <1>6
    DEF StartProcess, Started, SendSequential, SendSequentialFails, ReadResult, OutputClosed,
        SendFails,
        TimedOut, AfterRun, AfterFirst, CreateFails, Get, BeginTurn, AutoRemove, At, Routes
  <2>2. PICK w \in {"starting", "drain", "after", "stopping", "register", "lock", "sending"} : pc' = [pc EXCEPT ![r] = w]
    BY <1>6
    DEF StartProcess, Started, SendSequential, SendSequentialFails, ReadResult, OutputClosed,
        SendFails,
        TimedOut, AfterRun, AfterFirst, CreateFails, Get, BeginTurn, AutoRemove, Goto, Over,
        StopProcess, CallStop
  <2>3. (Acquired(r)' <=> Acquired(r)) /\ w \in Places
    BY <2>1, <2>2 DEF Acquired, Typed, HandlerTypes, Places
  <2> QED
    BY <1>4, <2>1, <2>2, <2>3
<1>7. CASE ~ \E r \in Requests : Arrive(r) \/ Handler(r)
  BY <1>7, QuietSteps DEF Tokens, Acquired
<1> QED
  BY <1>2, <1>3, <1>5, <1>6, <1>7 DEF Handler, Tokens

\* What a step does to the store.
LEMMA StoreStep ==
  ASSUME Typed, [Next]_vars
  PROVE  store' \subseteq store \/ \E r \in Requests : Create(r) /\ store' = store \cup {r}
<1>1. ASSUME NEW r \in Requests, Arrive(r) \/ Handler(r) \/ Expire(r) \/ Deliver(r)
      PROVE  store' \subseteq store \/ (Create(r) /\ store' = store \cup {r})
  <2>1. CASE Create(r)
    BY <2>1 DEF Create
  <2>2. CASE CreateFails(r) \/ BeginTurn(r) \/ AfterSend(r) \/ AutoRemove(r) \/ SessionStop(r) \/ Stopped(r)
    BY <2>2 DEF CreateFails, BeginTurn, AfterSend, AutoRemove, Removed, SessionStop, Stopped
  <2> QED
    BY <1>1, <2>1, <2>2
    DEF Handler, Arrive, Expire, Deliver, AcquireSem, AcquireFails, StartFails, StartProcess,
        Started, HandshakeFails,
        SendSequential, SendSequentialFails, ReadResult, OutputClosed, SendFails, TimedOut,
        AfterRun, AfterFirst, NotFound, Get, sessions
<1>2. CASE \/ \E p \in Requests : GrowIdle(p) \/ ReaperStops(p) \/ Closed(p) \/ AgentAnswers(p) \/ AgentExits(p)
           \/ ReapIdle \/ StopAll \/ Exit \/ RunFails \/ UNCHANGED vars
  BY <1>2
  DEF GrowIdle, ReaperStops, Closed, AgentAnswers, AgentExits, ReapIdle, StopAll, Exit, RunFails,
      vars, sessions
<1> QED
  BY <1>1, <1>2 DEF Next

LEMMA BoundedStep ==
  ASSUME Typed, Routes, Bounded, [Next]_vars
  PROVE  Bounded'
<1>1. IsFiniteSet(Tokens)' /\ sem' = Cardinality(Tokens)' /\ sem' <= SemCapacity
  <2>1. CASE UNCHANGED sem /\ Tokens' = Tokens
    BY <2>1 DEF Bounded
  <2>2. ASSUME NEW r \in Requests \ Tokens,
               sem < SemCapacity, sem' = sem + 1, Tokens' = Tokens \cup {r}
        PROVE  IsFiniteSet(Tokens') /\ sem' = Cardinality(Tokens') /\ sem' <= SemCapacity
    BY <2>2, FS_AddElement, FS_CardinalityType, ServerAssumption DEF Bounded
  <2>3. ASSUME NEW r \in Tokens, sem' = sem - 1, Tokens' = Tokens \ {r}
        PROVE  IsFiniteSet(Tokens') /\ sem' = Cardinality(Tokens') /\ sem' <= SemCapacity
    BY <2>3, FS_RemoveElement, FS_CardinalityType, ServerAssumption DEF Bounded
  <2> QED
    BY <2>1, <2>2, <2>3, TokensStep
<1>2. IsFiniteSet(store)' /\ Cardinality(store)' <= MaxSessions
  <2>1. CASE store' \subseteq store
    BY <2>1, FS_Subset, FS_CardinalityType, ServerAssumption DEF Bounded
  <2>2. ASSUME NEW r \in Requests, Create(r), store' = store \cup {r}
        PROVE  IsFiniteSet(store') /\ Cardinality(store') <= MaxSessions
    <3>1. Cardinality(store) < MaxSessions
      BY <2>2 DEF Create, MayCreate
    <3>2. IsFiniteSet(store) /\ Cardinality(store) \in Nat
      BY FS_CardinalityType DEF Bounded
    <3>3. IsFiniteSet(store') /\ Cardinality(store') <= Cardinality(store) + 1 /\ Cardinality(store') \in Nat
      BY <2>2, <3>2, FS_AddElement, FS_CardinalityType
    <3> QED
      BY <3>1, <3>2, <3>3, ServerAssumption
  <2> QED
    BY <2>1, <2>2, StoreStep
<1> QED
  BY <1>1, <1>2 DEF Bounded

-----------------------------------------------------------------------------
(* Who has a process in hand.                                              *)

\* Dead ends a process that runs and lets others be.
LEMMA DeadEnds ==
  ASSUME Typed, NEW p \in Requests, Dead(p), NEW x \in Requests
  PROVE  /\ life'[x] = life[x] \/ (x = p /\ Running(p) /\ life'[x] \in {"clean", "failed"})
         /\ ~Running(p)'
  BY DEF Typed, ProcTypes, Dead, Running

\* The ways a process starts, starts again and ends.
LEMMA LifeStep ==
  ASSUME Typed, [Next]_vars, NEW p \in Requests
  PROVE  \/ life'[p] = life[p]
         \/ StartProcess(p) \/ HandshakeFails(p)
         \/ life[p] = "clean" /\ p \notin stopping /\ life'[p] = "running"
         \/ Running(p) /\ life'[p] \in {"clean", "failed"}
<1>1. ASSUME NEW r \in Requests, StartProcess(r) \/ HandshakeFails(r)
      PROVE  life'[p] = life[p] \/ StartProcess(p) \/ HandshakeFails(p)
  BY <1>1 DEF StartProcess, HandshakeFails, Typed, ProcTypes
<1>2. ASSUME NEW r \in Requests, Deliver(r) \/ SendSequential(r)
      PROVE  life'[p] = life[p] \/ (life[p] = "clean" /\ p \notin stopping /\ life'[p] = "running")
  <2>1. UNCHANGED life \/ Resume(on[r], r)
    BY <1>2 DEF Deliver, SendSequential
  <2> QED
    BY <2>1 DEF Resume, Typed, ProcTypes
<1>3. ASSUME NEW r \in Requests, SendSequentialFails(r)
      PROVE  life'[p] = life[p] \/ (Running(p) /\ life'[p] \in {"clean", "failed"})
  BY <1>3 DEF SendSequentialFails, Typed, ProcTypes, Running
<1>4. ASSUME NEW r \in Requests, Stopped(r)
      PROVE  life'[p] = life[p] \/ (Running(p) /\ life'[p] \in {"clean", "failed"})
  BY <1>4, DeadEnds DEF Stopped, Typed, HandlerTypes
<1>5. ASSUME NEW q \in Requests, ReaperStops(q) \/ Closed(q) \/ AgentExits(q)
      PROVE  life'[p] = life[p] \/ (Running(p) /\ life'[p] \in {"clean", "failed"})
  <2>1. CASE AgentExits(q)
    BY <2>1 DEF AgentExits, Running, Typed, ProcTypes
  <2>2. CASE UNCHANGED life \/ Dead(q)
    BY <2>2, DeadEnds
  <2> QED
    BY <1>5, <2>1, <2>2 DEF ReaperStops, Closed
<1>6. ASSUME NEW r \in Requests,
             Arrive(r) \/ Expire(r) \/ (Handler(r) /\ ~StartProcess(r) /\ ~HandshakeFails(r)
                                          /\ ~SendSequential(r) /\ ~SendSequentialFails(r)
                                          /\ ~Stopped(r))
      PROVE  UNCHANGED life
  BY <1>6
  DEF Handler, Arrive, Expire, AcquireSem, AcquireFails, StartFails, Started, ReadResult,
      OutputClosed,
      SendFails, TimedOut, AfterRun, AfterFirst, Create, CreateFails, NotFound, Get, BeginTurn,
      AfterSend, AutoRemove, SessionStop, procs
<1>7. CASE \/ \E q \in Requests : GrowIdle(q) \/ AgentAnswers(q)
           \/ ReapIdle \/ StopAll \/ Exit \/ RunFails \/ UNCHANGED vars
  BY <1>7 DEF GrowIdle, AgentAnswers, ReapIdle, StopAll, Exit, RunFails, vars, procs
<1> QED
  BY <1>1, <1>2, <1>3, <1>4, <1>5, <1>6, <1>7 DEF Next

\* A handler lets go of its process when it registers it or has stopped it, or
\* when its handshake failed.
LEMMA HoldsStep ==
  ASSUME Typed, Routes, [Next]_vars, NEW r \in Requests, NEW p \in Requests, Holds(r, p)
  PROVE  \/ Holds(r, p)'
         \/ (Create(r) \/ HandshakeFails(r)) /\ r = p
         \/ Stopped(r) /\ on[r] = p /\ p \in stopping
<1>0. on[r] = p /\ pc[r] \in {"starting", "drain", "after", "register", "stopping"}
  BY DEF Holds
<1>1. ASSUME NEW x \in Requests, Arrive(x)
      PROVE  Holds(r, p)'
  <2>1. x # r /\ UNCHANGED tool
    BY <1>0, <1>1 DEF Arrive, At
  <2>2. pc'[r] = pc[r] /\ on'[r] = on[r]
    BY <1>1, <2>1 DEF Arrive, Goto, Typed, HandlerTypes
  <2> QED
    BY <2>1, <2>2 DEF Holds
<1>2. ASSUME NEW x \in Requests \ {r}, Handler(x)
      PROVE  Holds(r, p)'
  <2>1. UNCHANGED <<tool, on>> /\ \E w \in Places : pc' = [pc EXCEPT ![x] = w]
    BY <1>2
    DEF Handler, AcquireSem, AcquireFails, StartFails, StartProcess, Started, HandshakeFails,
        SendSequential,
        SendSequentialFails, ReadResult, OutputClosed, SendFails, TimedOut, AfterRun, AfterFirst,
        Create, CreateFails, NotFound, Get, BeginTurn, AfterSend, AutoRemove, SessionStop, Stopped,
        StopProcess, CallStop, Over, Goto, Places
  <2> QED
    BY <2>1 DEF Holds, Typed, HandlerTypes
<1>3. ASSUME Handler(r), ~Create(r), ~HandshakeFails(r), ~Stopped(r)
      PROVE  Holds(r, p)'
  <2>1. tool[r] \in Starting \/ pc[r] = "stopping"
    BY DEF Holds
  <2>2. /\ UNCHANGED <<tool, on>> /\ tool[r] \in Starting
        /\ \E w \in {"drain", "after", "register", "stopping"} : pc' = [pc EXCEPT ![r] = w]
    BY <1>0, <1>3, <2>1
    DEF Handler, AcquireSem, AcquireFails, StartFails, StartProcess, Started, SendSequential,
        SendSequentialFails, ReadResult, OutputClosed, SendFails, TimedOut, AfterRun, AfterFirst,
        CreateFails, NotFound, Get, BeginTurn, AfterSend, AutoRemove, SessionStop,
        StopProcess, CallStop, Over, Goto, At, Starting
  <2> QED
    BY <1>0, <2>2 DEF Holds, Typed, HandlerTypes
<1>4. ASSUME Create(r) \/ HandshakeFails(r)
      PROVE  r = p
  <2>1. tool[r] \in Starting
    BY <1>4 DEF Create, HandshakeFails, At, Routes, Starting, Tools, Typed, HandlerTypes
  <2> QED
    BY <1>0, <2>1 DEF Routes
<1>5. ASSUME Stopped(r)
      PROVE  p \in stopping
  BY <1>0, <1>5 DEF Stopped, At, Routes
<1>6. CASE ~ \E x \in Requests : Arrive(x) \/ Handler(x)
  BY <1>6, QuietSteps DEF Holds
<1> QED
  BY <1>0, <1>1, <1>2, <1>3, <1>4, <1>5, <1>6

\* A session leaves the store into somebody's hands.
LEMMA StoreLeaves ==
  ASSUME Typed, Routes, [Next]_vars, NEW p \in store
  PROVE  p \in store' \cup reaping' \cup closing' \/ \E r \in Requests : Holds(r, p)'
<1>1. ASSUME NEW r \in Requests, AutoRemove(r) \/ SessionStop(r), on[r] = p
      PROVE  Holds(r, p)'
  BY <1>1 DEF AutoRemove, SessionStop, StopProcess, CallStop, Goto, Holds, Typed, HandlerTypes
<1>2. ASSUME NEW r \in Requests,
             Arrive(r) \/ Handler(r) \/ Expire(r) \/ Deliver(r),
             ~((AutoRemove(r) \/ SessionStop(r)) /\ on[r] = p)
      PROVE  p \in store'
  <2>1. CASE Create(r) \/ CreateFails(r) \/ BeginTurn(r) \/ AfterSend(r) \/ AutoRemove(r) \/ SessionStop(r) \/ Stopped(r)
    BY <1>2, <2>1 DEF Create, CreateFails, BeginTurn, AfterSend, AutoRemove, Removed, SessionStop,
                      Stopped
  <2> QED
    BY <1>2, <2>1
    DEF Handler, Arrive, Expire, Deliver, AcquireSem, AcquireFails, StartFails, StartProcess,
        Started, HandshakeFails,
        SendSequential, SendSequentialFails, ReadResult, OutputClosed, SendFails, TimedOut,
        AfterRun, AfterFirst, NotFound, Get, sessions
<1>3. CASE \/ \E q \in Requests : GrowIdle(q) \/ ReaperStops(q) \/ Closed(q) \/ AgentAnswers(q) \/ AgentExits(q)
           \/ ReapIdle \/ StopAll \/ Exit \/ RunFails \/ UNCHANGED vars
  BY <1>3
  DEF GrowIdle, ReaperStops, Closed, AgentAnswers, AgentExits, ReapIdle, StopAll, Taken, Exit,
      RunFails,
      vars, sessions
<1> QED
  BY <1>1, <1>2, <1>3 DEF Next

\* The reaper and stopAll let go of a process when they have stopped it.
LEMMA ListsStep ==
  ASSUME Typed, Hands, [Next]_vars
  PROVE  /\ \A p \in reaping : p \in reaping' \/ (Dead(p) /\ p \in stopping)
         /\ \A p \in closing : p \in closing' \/ (Dead(p) /\ p \in stopping)
         /\ closing' \subseteq stopping'
         /\ main' = "serving" => closing' = {}
<1>1. ASSUME NEW r \in Requests, Arrive(r) \/ Handler(r) \/ Expire(r) \/ Deliver(r)
      PROVE  UNCHANGED <<reaping, closing, main>> /\ stopping \subseteq stopping'
  <2>1. CASE Arrive(r) \/ Expire(r) \/ Deliver(r)
    BY <2>1 DEF Arrive, Expire, Deliver, procs
  <2>2. CASE Handler(r)
    BY <2>2
    DEF Handler, AcquireSem, AcquireFails, StartFails, StartProcess, Started, HandshakeFails,
        SendSequential,
        SendSequentialFails, ReadResult, OutputClosed, SendFails, TimedOut, AfterRun, AfterFirst,
        Create, CreateFails, NotFound, Get, BeginTurn, AfterSend, AutoRemove, SessionStop, Stopped,
        StopProcess, CallStop, procs
  <2> QED
    BY <1>1, <2>1, <2>2
<1>2. ASSUME NEW p \in Requests, ReaperStops(p)
      PROVE  /\ \A q \in reaping : q \in reaping' \/ (Dead(q) /\ q \in stopping)
             /\ UNCHANGED <<closing, main>> /\ stopping \subseteq stopping'
  BY <1>2 DEF ReaperStops, CallStop, procs
<1>3. ASSUME NEW p \in Requests, Closed(p)
      PROVE  /\ \A q \in closing : q \in closing' \/ (Dead(q) /\ q \in stopping)
             /\ closing' \subseteq closing /\ UNCHANGED <<reaping, stopping, main>>
  BY <1>3 DEF Closed, Hands
<1>4. ASSUME ReapIdle
      PROVE  reaping = {} /\ UNCHANGED <<closing, main, stopping>>
  BY <1>4 DEF ReapIdle, procs
<1>5. ASSUME StopAll
      PROVE  closing = {} /\ UNCHANGED reaping /\ main' # "serving" /\ closing' \subseteq stopping'
  BY <1>5 DEF StopAll, CallStop, Hands
<1>6. CASE \/ \E q \in Requests : GrowIdle(q) \/ AgentAnswers(q) \/ AgentExits(q)
           \/ Exit \/ RunFails \/ UNCHANGED vars
  <2>1. UNCHANGED <<reaping, closing, stopping>> /\ (main' = main \/ main' # "serving")
    BY <1>6 DEF GrowIdle, AgentAnswers, AgentExits, Exit, RunFails, vars, procs
  <2> QED
    BY <2>1 DEF Hands
<1>7. CASE \E r \in Requests : Arrive(r) \/ Handler(r) \/ Expire(r) \/ Deliver(r)
  BY <1>1, <1>7 DEF Hands
<1>8. CASE \E p \in Requests : ReaperStops(p)
  BY <1>2, <1>8 DEF Hands
<1>9. CASE \E p \in Requests : Closed(p)
  BY <1>3, <1>9 DEF Hands
<1>10. CASE ReapIdle
  BY <1>4, <1>10 DEF Hands
<1>11. CASE StopAll
  BY <1>5, <1>11 DEF Hands
<1> QED
  BY <1>6, <1>7, <1>8, <1>9, <1>10, <1>11 DEF Next

LEMMA StoppingGrows ==
  ASSUME [Next]_vars
  PROVE  stopping \subseteq stopping'
<1>1. ASSUME NEW r \in Requests, Arrive(r) \/ Handler(r)
      PROVE  stopping \subseteq stopping'
  BY <1>1
  DEF Handler, Arrive, AcquireSem, AcquireFails, StartFails, StartProcess, Started,
      HandshakeFails, SendSequential,
      SendSequentialFails, ReadResult, OutputClosed, SendFails, TimedOut, AfterRun, AfterFirst,
      Create, CreateFails, NotFound, Get, BeginTurn, AfterSend, AutoRemove, SessionStop, Stopped,
      StopProcess, CallStop, procs
<1> QED
  BY <1>1, QuietSteps

LEMMA HandsStep ==
  ASSUME Typed, Routes, Hands, [Next]_vars
  PROVE  Hands'
<1>1. ASSUME NEW p \in Requests, life'[p] # "none"
      PROVE  InHand(p)' \/ Gone(p)'
  <2>1. CASE StartProcess(p)
    <3>1. Holds(p, p)'
      BY <2>1 DEF StartProcess, At, Goto, Holds, Routes, Starting, Tools, Typed, HandlerTypes
    <3> QED
      BY <3>1 DEF InHand
  <2>3. CASE HandshakeFails(p)
    BY <2>3 DEF HandshakeFails, Gone, Failed, Typed, ProcTypes
  <2>2. CASE ~StartProcess(p) /\ ~HandshakeFails(p)
    <3>0. /\ life[p] # "none"
          /\ p \in stopping => (~Running(p) => ~Running(p)')
          /\ p \in stopping => p \in stopping'
          /\ Failed(p) => Failed(p)'
      BY <1>1, <2>2, LifeStep, StoppingGrows DEF Running, Failed
    <3>1. CASE p \in store
      BY <3>1, StoreLeaves DEF InHand
    <3>2. CASE p \in reaping \cup closing
      <4>1. p \in reaping' \cup closing' \/ (Dead(p) /\ p \in stopping)
        BY <3>2, ListsStep
      <4>2. CASE p \in reaping' \cup closing'
        BY <4>2 DEF InHand
      <4>3. CASE Dead(p) /\ p \in stopping
        BY <3>0, <4>3, DeadEnds DEF Gone
      <4> QED
        BY <4>1, <4>2, <4>3
    <3>3. ASSUME NEW r \in Requests, Holds(r, p)
          PROVE  InHand(p)' \/ Gone(p)'
      <4>1. CASE Holds(r, p)'
        BY <4>1 DEF InHand
      <4>2. CASE Create(r) /\ r = p
        BY <4>2 DEF Create, InHand
      <4>3. CASE Stopped(r) /\ on[r] = p /\ p \in stopping
        BY <3>0, <4>3, DeadEnds DEF Stopped, Gone
      <4> QED
        BY <2>2, <3>3, <4>1, <4>2, <4>3, HoldsStep
    <3>4. CASE Gone(p)
      BY <3>0, <3>4 DEF Gone
    <3> QED
      BY <3>0, <3>1, <3>2, <3>3, <3>4 DEF Hands, InHand
  <2> QED
    BY <2>1, <2>2, <2>3
<1> QED
  BY <1>1, ListsStep DEF Hands

-----------------------------------------------------------------------------
(* Prompts and answers.                                                    *)

\* What a sequence holds when it grows, shrinks or starts anew.
LEMMA GrownSequence ==
  ASSUME NEW s \in Seq(Requests), NEW r \in Requests
  PROVE  /\ \A q \in Requests : In(q, Append(s, r)) <=> In(q, s) \/ q = r
         /\ Distinct(s) /\ ~In(r, s) => Distinct(Append(s, r))
<1>1. DOMAIN s = 1..Len(s) /\ DOMAIN Append(s, r) = 1..(Len(s) + 1) /\ Len(s) \in Nat
  OBVIOUS
<1>2. \A i \in DOMAIN s : Append(s, r)[i] = s[i]
  OBVIOUS
<1>3. Append(s, r)[Len(s) + 1] = r
  OBVIOUS
<1>4. \A i \in DOMAIN Append(s, r) : i \in DOMAIN s \/ i = Len(s) + 1
  BY <1>1
<1>5. \A q \in Requests : In(q, Append(s, r)) <=> In(q, s) \/ q = r
  <2>1. ASSUME NEW q \in Requests, In(q, Append(s, r))
        PROVE  In(q, s) \/ q = r
    BY <1>2, <1>3, <1>4, <2>1 DEF In
  <2>2. ASSUME NEW q \in Requests, In(q, s)
        PROVE  In(q, Append(s, r))
    BY <1>1, <1>2, <2>2 DEF In
  <2>3. In(r, Append(s, r))
    BY <1>1, <1>3 DEF In
  <2> QED
    BY <2>1, <2>2, <2>3
<1>6. ASSUME Distinct(s), ~In(r, s)
      PROVE  Distinct(Append(s, r))
  BY <1>2, <1>3, <1>4, <1>6 DEF Distinct, In
<1> QED
  BY <1>5, <1>6

LEMMA ShrunkSequence ==
  ASSUME NEW s \in Seq(Requests), s # <<>>
  PROVE  /\ \A q \in Requests : In(q, Tail(s)) => In(q, s)
         /\ In(Head(s), s)
         /\ Distinct(s) => Distinct(Tail(s)) /\ ~In(Head(s), Tail(s))
<1>1. /\ DOMAIN s = 1..Len(s) /\ Len(s) \in Nat \ {0} /\ DOMAIN Tail(s) = 1..(Len(s) - 1)
      /\ Head(s) = s[1]
  OBVIOUS
<1>2. \A i \in DOMAIN Tail(s) : Tail(s)[i] = s[i + 1] /\ i + 1 \in DOMAIN s /\ i \in Nat /\ i + 1 # 1
  BY <1>1
<1>3. \A q \in Requests : In(q, Tail(s)) => In(q, s)
  BY <1>2 DEF In
<1>4. In(Head(s), s)
  BY <1>1 DEF In
<1>5. ASSUME Distinct(s)
      PROVE  Distinct(Tail(s))
  BY <1>2, <1>5 DEF Distinct
<1>6. ASSUME Distinct(s)
      PROVE  ~In(Head(s), Tail(s))
  <2>1. 1 \in DOMAIN s
    BY <1>1
  <2> QED
    BY <1>1, <1>2, <1>6, <2>1 DEF Distinct, In
<1> QED
  BY <1>3, <1>4, <1>5, <1>6

LEMMA NewSequence ==
  ASSUME NEW r \in Requests
  PROVE  /\ \A q \in Requests : ~In(q, <<>>) /\ (In(q, <<r>>) <=> q = r)
         /\ Distinct(<<>>) /\ Distinct(<<r>>)
  BY DEF In, Distinct

\* A handler changes nothing of another one.
LEMMA OneHandler ==
  ASSUME Typed, NEW r \in Requests, Handler(r)
  PROVE  /\ UNCHANGED <<tool, on>>
         /\ \A x \in Requests \ {r} : pc'[x] = pc[x] /\ got'[x] = got[x] /\ verdict'[x] = verdict[x]
                                      /\ snd'[x] = snd[x]
<1>1. UNCHANGED <<tool, on>> /\ \E w \in Places : pc' = [pc EXCEPT ![r] = w]
  BY DEF Handler, AcquireSem, AcquireFails, StartFails, StartProcess, Started, HandshakeFails,
         SendSequential,
         SendSequentialFails, ReadResult, OutputClosed, SendFails, TimedOut, AfterRun, AfterFirst,
         Create, CreateFails, NotFound, Get, BeginTurn, AfterSend, AutoRemove, SessionStop, Stopped,
         StopProcess, CallStop, Over, Goto, Places
<1>2. UNCHANGED got \/ \E v \in Requests : got' = [got EXCEPT ![r] = v]
  <2>1. ReadResult(r) => \E v \in Requests : got' = [got EXCEPT ![r] = v]
    <3>1. ReadResult(r) => out[on[r]] # <<>> /\ out[on[r]] \in Seq(Requests)
      BY DEF ReadResult, Typed, HandlerTypes, ProcTypes
    <3> QED
      BY <3>1, SequenceTypes DEF ReadResult
  <2> QED
    BY <2>1
    DEF Handler, AcquireSem, AcquireFails, StartFails, StartProcess, Started, HandshakeFails,
        SendSequential,
        SendSequentialFails, OutputClosed, SendFails, TimedOut, AfterRun, AfterFirst,
        Create, CreateFails, NotFound, Get, BeginTurn, AfterSend, AutoRemove, SessionStop, Stopped
<1>3. UNCHANGED verdict \/ \E v \in {"error", "result", "closed", "timeout", "registered"} : verdict' = [verdict EXCEPT ![r] = v]
  BY DEF Handler, AcquireSem, AcquireFails, StartFails, StartProcess, Started, HandshakeFails,
         SendSequential,
         SendSequentialFails, ReadResult, OutputClosed, SendFails, TimedOut, AfterRun, AfterFirst,
         Create, CreateFails, NotFound, Get, BeginTurn, AfterSend, AutoRemove, SessionStop,
         Stopped, Over
<1>4. UNCHANGED snd \/ snd' = [snd EXCEPT ![r] = "pending"]
  BY DEF Handler, AcquireSem, AcquireFails, StartFails, StartProcess, Started, HandshakeFails,
         SendSequential,
         SendSequentialFails, ReadResult, OutputClosed, SendFails, TimedOut, AfterRun, AfterFirst,
         Create, CreateFails, NotFound, Get, BeginTurn, AfterSend, AutoRemove, SessionStop, Stopped
<1>5. /\ \A x \in Requests \ {r} : pc'[x] = pc[x]
      /\ \A x \in Requests \ {r} : got'[x] = got[x]
  BY <1>1, <1>2 DEF Typed, HandlerTypes
<1>6. /\ \A x \in Requests \ {r} : verdict'[x] = verdict[x]
      /\ \A x \in Requests \ {r} : snd'[x] = snd[x]
  BY <1>3, <1>4 DEF Typed, HandlerTypes
<1> QED
  BY <1>1, <1>5, <1>6

\* A turn that is over stays so, and keeps what it read.
LEMMA PastStep ==
  ASSUME Typed, Routes, [Next]_vars, NEW q \in Requests, pc[q] \in Past
  PROVE  /\ pc'[q] \in Past /\ on'[q] = on[q] /\ got'[q] = got[q] /\ tool'[q] = tool[q]
         /\ verdict'[q] = verdict[q] \/ tool[q] = "session_start"
<1>1. ASSUME NEW r \in Requests, Arrive(r)
      PROVE  UNCHANGED <<tool, got, verdict>> /\ pc'[q] = pc[q] /\ on'[q] = on[q]
  <2>1. r # q /\ UNCHANGED <<tool, got, verdict>>
    BY <1>1 DEF Arrive, At, Past
  <2> QED
    BY <1>1, <2>1 DEF Arrive, Goto, Typed, HandlerTypes
<1>2. ASSUME NEW r \in Requests \ {q}, Handler(r)
      PROVE  pc'[q] = pc[q] /\ on'[q] = on[q] /\ got'[q] = got[q] /\ tool'[q] = tool[q] /\ verdict'[q] = verdict[q]
  BY <1>2, OneHandler
<1>3. ASSUME Handler(q)
      PROVE  /\ pc'[q] \in Past /\ UNCHANGED <<tool, on, got>>
             /\ verdict'[q] = verdict[q] \/ tool[q] = "session_start"
  <2>1. \/ AfterRun(q) \/ AfterFirst(q) \/ CreateFails(q) \/ AfterSend(q) \/ AutoRemove(q) \/ Stopped(q)
        \/ (Create(q) /\ tool[q] = "session_start")
    BY <1>3
    DEF Handler, AcquireSem, AcquireFails, StartFails, StartProcess, Started, HandshakeFails,
        SendSequential,
        SendSequentialFails, ReadResult, OutputClosed, SendFails, TimedOut, Create, NotFound, Get,
        BeginTurn, SessionStop, At, Past, Routes
  <2>2. \E w \in Past : pc' = [pc EXCEPT ![q] = w]
    BY <2>1 DEF AfterRun, AfterFirst, Create, CreateFails, AfterSend, AutoRemove, Stopped,
                StopProcess, CallStop, Goto, Past
  <2>3. UNCHANGED <<tool, on, got>> /\ (verdict' = verdict \/ tool[q] = "session_start")
    BY <2>1 DEF AfterRun, AfterFirst, Create, CreateFails, AfterSend, AutoRemove, Stopped
  <2> QED
    BY <2>2, <2>3 DEF Typed, HandlerTypes
<1>4. CASE ~ \E r \in Requests : Arrive(r) \/ Handler(r)
  BY <1>4, QuietSteps
<1> QED
  BY <1>1, <1>2, <1>3, <1>4

LEMMA MissedStays ==
  ASSUME Typed, Routes, [Next]_vars, NEW q \in Requests, Missed(q)
  PROVE  Missed(q)' /\ on'[q] = on[q]
  BY PastStep DEF Missed

LEMMA SpoiledStays ==
  ASSUME Typed, Routes, [Next]_vars, NEW p \in Requests, Spoiled(p)
  PROVE  Spoiled(p)'
<1>1. PICK q \in Requests : on[q] = p /\ Missed(q)
  BY DEF Spoiled
<1>2. Missed(q)' /\ on'[q] = p
  BY <1>1, MissedStays
<1> QED
  BY <1>2 DEF Spoiled, Missed

\* Before its turn is over a handler has read nothing.
LEMMA FreshStep ==
  ASSUME Typed, Routes, Fresh, [Next]_vars
  PROVE  Fresh'
<1>1. ASSUME NEW q \in Requests, pc'[q] \notin Past
      PROVE  got'[q] = Nobody
  <2>1. pc[q] \notin Past /\ got[q] = Nobody
    BY <1>1, PastStep DEF Fresh
  <2>2. ASSUME NEW r \in Requests, Arrive(r)
        PROVE  UNCHANGED got
    BY <2>2 DEF Arrive
  <2>3. ASSUME NEW r \in Requests \ {q}, Handler(r)
        PROVE  got'[q] = got[q]
    BY <2>3, OneHandler
  <2>4. ASSUME Handler(q)
        PROVE  UNCHANGED got
    <3>1. CASE ReadResult(q)
      <4>1. pc' = [pc EXCEPT ![q] = "after"]
        BY <3>1 DEF ReadResult, Over, Goto
      <4> QED
        BY <1>1, <4>1 DEF Past, Typed, HandlerTypes
    <3> QED
      BY <2>4, <3>1
      DEF Handler, AcquireSem, AcquireFails, StartFails, StartProcess, Started, HandshakeFails,
          SendSequential,
          SendSequentialFails, OutputClosed, SendFails, TimedOut, AfterRun, AfterFirst,
          Create, CreateFails, NotFound, Get, BeginTurn, AfterSend, AutoRemove, SessionStop, Stopped
  <2>5. CASE ~ \E r \in Requests : Arrive(r) \/ Handler(r)
    BY <2>1, <2>5, QuietSteps
  <2> QED
    BY <2>1, <2>2, <2>3, <2>4, <2>5
<1> QED
  BY <1>1 DEF Fresh

\* One turn at a time reads a process: its first, or the one with the lock.
LEMMA OneReader ==
  ASSUME Typed, Routes, Turns, NEW x \in Requests, NEW r \in Requests,
         on[x] = on[r], pc[x] = "drain", pc[r] = "drain"
  PROVE  x = r
<1>1. tool[x] \in Starting \cup {"session_send"} /\ tool[r] \in Starting \cup {"session_send"}
  BY DEF Routes, Typed, HandlerTypes, Tools, Starting
<1>2. CASE tool[x] \in Starting /\ tool[r] \in Starting
  BY <1>2 DEF Routes
<1>3. CASE tool[x] = "session_send" /\ tool[r] = "session_send"
  BY <1>3 DEF Turns, InSession
<1>4. ASSUME NEW y \in {x, r}, NEW z \in {x, r}, tool[y] \in Starting, tool[z] = "session_send"
      PROVE  FALSE
  <2>1. on[y] = y /\ pc[on[z]] = "answered"
    BY <1>4 DEF Routes, Starting
  <2> QED
    BY <2>1
<1> QED
  BY <1>1, <1>2, <1>3, <1>4

\* Where prompts and answers are found after a step: they belong to a turn that
\* waits, or they were there before, and if their turn ended an answer was left.
LEMMA Relocated ==
  ASSUME Typed, Routes, Located, [Next]_vars,
         \A p, q \in Requests :
           Item(q, p)' =>
             \/ on'[q] = p /\ pc'[q] = "drain"
             \/ Item(q, p) /\ pc'[q] = pc[q] /\ on'[q] = on[q]
             \/ Item(q, p) /\ pc[q] \in Past
             \/ on'[q] = p /\ pc'[q] \in Past /\ Spoiled(p)'
  PROVE  Located'
<1>1. ASSUME NEW p \in Requests, NEW q \in Requests, Item(q, p)'
      PROVE  on'[q] = p /\ (pc'[q] = "drain" \/ (pc'[q] \in Past /\ Spoiled(p)'))
  <2>1. CASE Item(q, p) /\ pc'[q] = pc[q] /\ on'[q] = on[q]
    BY <2>1, SpoiledStays DEF Located
  <2>2. CASE Item(q, p) /\ pc[q] \in Past
    <3>1. on[q] = p /\ Spoiled(p)
      BY <2>2 DEF Located, Past
    <3> QED
      BY <2>2, <3>1, SpoiledStays, PastStep
  <2> QED
    BY <1>1, <2>1, <2>2
<1> QED
  BY <1>1 DEF Located

\* A handler that is not there yet has no prompt or answer anywhere.
LEMMA NothingYet ==
  ASSUME Typed, Located, NEW q \in Requests, pc[q] \notin Past \cup {"drain"}, NEW p \in Requests
  PROVE  ~Queued(q, p) /\ ~Answered(q, p) /\ ~Underway(q)
<1>1. on[q] \in Requests
  BY DEF Typed, HandlerTypes
<1> QED
  BY <1>1 DEF Located, Item

\* Steps that send nothing and answer nothing; a dying process loses its prompts.
LEMMA FewerItems ==
  ASSUME Typed, Routes, Located, Single, [Next]_vars, UNCHANGED <<out, snd>>,
         \A p \in Requests : inbox'[p] = inbox[p] \/ inbox'[p] = <<>>,
         \A q \in Requests :
           \/ pc'[q] = pc[q] /\ on'[q] = on[q]
           \/ pc[q] # "drain"
           \/ pc'[q] \in Past /\ on'[q] = on[q] /\ Missed(q)'
  PROVE  Located' /\ Single'
<1>1. ASSUME NEW p \in Requests, NEW q \in Requests
      PROVE  /\ Queued(q, p)' => Queued(q, p)
             /\ Answered(q, p)' <=> Answered(q, p)
             /\ Underway(q)' <=> Underway(q)
  BY NewSequence DEF Queued, Answered, Underway
<1>2. Single'
  <2>1. \A p \in Requests : Distinct(inbox[p])' /\ Distinct(out[p])'
    BY NewSequence DEF Single
  <2>2. ASSUME NEW p \in Requests, NEW q \in Requests
        PROVE  /\ Queued(q, p)' => ~Answered(q, p)' /\ ~Underway(q)'
               /\ Answered(q, p)' => ~Underway(q)'
    BY <1>1 DEF Single
  <2> QED
    BY <2>1, <2>2 DEF Single
<1>3. ASSUME NEW p \in Requests, NEW q \in Requests, Item(q, p)'
      PROVE  \/ Item(q, p) /\ pc'[q] = pc[q] /\ on'[q] = on[q]
             \/ Item(q, p) /\ pc[q] \in Past
             \/ on'[q] = p /\ pc'[q] \in Past /\ Spoiled(p)'
  <2>1. Queued(q, p) \/ Answered(q, p) \/ (Underway(q) /\ on'[q] = p)
    BY <1>1, <1>3 DEF Item
  <2>2. pc[q] \in Past \cup {"drain"}
    BY <2>1, NothingYet
  <2>3. pc[q] \in Past => on'[q] = on[q]
    BY PastStep
  <2>4. CASE pc[q] = "drain" /\ pc'[q] \in Past /\ on'[q] = on[q] /\ Missed(q)'
    <3>1. on[q] = p
      BY <2>1, <2>4 DEF Located, Item
    <3> QED
      BY <2>4, <3>1 DEF Spoiled, Missed
  <2> QED
    BY <2>1, <2>2, <2>3, <2>4 DEF Item
<1>4. Located'
  BY <1>3, Relocated
<1> QED
  BY <1>2, <1>4

\* The steps of a handler that neither sends nor reads.
LEMMA StillItems ==
  ASSUME Typed, Routes, Located, Single, Fresh, [Next]_vars, NEW r \in Requests,
         Handler(r), ~StartProcess(r), ~Started(r), ~SendSequential(r), ~ReadResult(r), ~BeginTurn(r)
  PROVE  Located' /\ Single'
<1>1. UNCHANGED <<out, snd>>
  BY DEF Handler, AcquireSem, AcquireFails, StartFails, HandshakeFails, SendSequentialFails,
         OutputClosed, SendFails,
         TimedOut, AfterRun, AfterFirst, Create, CreateFails, NotFound, Get, AfterSend, AutoRemove,
         SessionStop, Stopped, StopProcess, CallStop, procs
<1>2. UNCHANGED inbox \/ inbox' = [inbox EXCEPT ![on[r]] = <<>>]
  BY DEF Handler, AcquireSem, AcquireFails, StartFails, HandshakeFails, SendSequentialFails,
         OutputClosed, SendFails,
         TimedOut, AfterRun, AfterFirst, Create, CreateFails, NotFound, Get, AfterSend, AutoRemove,
         SessionStop, Stopped, StopProcess, CallStop, Dead, procs
<1>3. \A p \in Requests : inbox'[p] = inbox[p] \/ inbox'[p] = <<>>
  BY <1>2 DEF Typed, ProcTypes
<1>4. ASSUME pc[r] = "drain"
      PROVE  pc'[r] \in Past /\ on'[r] = on[r] /\ Missed(r)'
  <2>1. OutputClosed(r) \/ SendFails(r) \/ TimedOut(r)
    BY <1>4
    DEF Handler, At, AcquireSem, AcquireFails, StartFails, HandshakeFails, SendSequentialFails,
        AfterRun, AfterFirst, Create, CreateFails, NotFound, Get, AfterSend, AutoRemove,
        SessionStop, Stopped, StartProcess, Started, SendSequential, ReadResult, BeginTurn
  <2>2. PICK v \in {"timeout", "error", "closed"} :
          /\ verdict' = [verdict EXCEPT ![r] = v] /\ pc' = [pc EXCEPT ![r] = "after"]
          /\ UNCHANGED <<on, got, tool>>
    BY <2>1 DEF OutputClosed, SendFails, TimedOut, Over, Goto
  <2>3. got[r] = Nobody
    BY <1>4 DEF Fresh, Past
  <2> QED
    BY <2>2, <2>3, ServerAssumption DEF Missed, Past, Typed, HandlerTypes
<1>5. \A q \in Requests \ {r} : pc'[q] = pc[q] /\ on'[q] = on[q]
  BY OneHandler
<1> QED
  BY <1>1, <1>3, <1>4, <1>5, FewerItems

\* A process dies and loses its prompts; or nothing of this happens.
LEMMA DyingItems ==
  ASSUME Typed, Routes, Located, Single, [Next]_vars,
         \/ \E r \in Requests : Arrive(r) \/ Expire(r)
         \/ \E p \in Requests : GrowIdle(p) \/ ReaperStops(p) \/ Closed(p) \/ AgentExits(p)
         \/ ReapIdle \/ StopAll \/ Exit \/ RunFails \/ UNCHANGED vars
  PROVE  Located' /\ Single'
<1>1. UNCHANGED <<out, snd>>
  BY DEF Arrive, Expire, GrowIdle, ReaperStops, Closed, AgentExits, ReapIdle, StopAll, Exit,
         RunFails,
         vars, handlers, procs
<1>2. UNCHANGED inbox \/ \E p \in Requests : inbox' = [inbox EXCEPT ![p] = <<>>]
  BY DEF Arrive, Expire, GrowIdle, ReaperStops, Closed, AgentExits, ReapIdle, StopAll, Exit,
         RunFails,
         vars, handlers, procs, Dead
<1>3. \A p \in Requests : inbox'[p] = inbox[p] \/ inbox'[p] = <<>>
  BY <1>2 DEF Typed, ProcTypes
<1>4. \A q \in Requests : (pc'[q] = pc[q] /\ on'[q] = on[q]) \/ pc[q] # "drain"
  <2>1. CASE \E r \in Requests : Arrive(r)
    BY <2>1 DEF Arrive, At, Goto, Typed, HandlerTypes
  <2>2. CASE \/ \E r \in Requests : Expire(r)
             \/ \E p \in Requests : GrowIdle(p) \/ ReaperStops(p) \/ Closed(p) \/ AgentExits(p)
             \/ ReapIdle \/ StopAll \/ Exit \/ RunFails \/ UNCHANGED vars
    BY <2>2 DEF Expire, GrowIdle, ReaperStops, Closed, AgentExits, ReapIdle, StopAll, Exit,
                RunFails,
                vars, handlers
  <2> QED
    BY <2>1, <2>2
<1> QED
  BY <1>1, <1>3, <1>4, FewerItems

\* The prompt of a turn that waits, or that gave up and left an answer, is on
\* its way or delivered, alone or after others.
LEMMA SentItems ==
  ASSUME Typed, Routes, Located, Single, [Next]_vars, UNCHANGED on, NEW r \in Requests,
         \A p \in Requests : ~Queued(r, p) /\ ~Answered(r, p),
         \A q \in Requests \ {r} : pc'[q] = pc[q] /\ snd'[q] = snd[q],
         pc'[r] = "drain" \/ (pc'[r] \in Past /\ Spoiled(on[r])),
         \A p \in Requests : out'[p] = out[p] \/ out'[p] = <<>>,
         \A p \in Requests \ {on[r]} : inbox'[p] = inbox[p],
         \/ inbox'[on[r]] = inbox[on[r]]
         \/ inbox'[on[r]] \in {Append(inbox[on[r]], r), <<r>>} /\ snd'[r] # "pending"
  PROVE  Located' /\ Single'
<1>0. on[r] \in Requests /\ inbox[on[r]] \in Seq(Requests)
  BY DEF Typed, HandlerTypes, ProcTypes
<1>1. ASSUME NEW p \in Requests, NEW q \in Requests
      PROVE  /\ Queued(q, p)' => Queued(q, p) \/ (q = r /\ p = on[r] /\ ~Underway(r)')
             /\ Answered(q, p)' => Answered(q, p)
             /\ q # r => (Underway(q)' <=> Underway(q))
  <2>1. Queued(q, p)' => Queued(q, p) \/ (q = r /\ p = on[r] /\ ~Underway(r)')
    <3>1. CASE p # on[r]
      BY <3>1 DEF Queued
    <3>2. CASE p = on[r]
      <4>1. /\ In(q, Append(inbox[on[r]], r)) <=> In(q, inbox[on[r]]) \/ q = r
            /\ In(q, <<r>>) <=> q = r
        BY <1>0, GrownSequence, NewSequence
      <4>2. CASE inbox'[on[r]] = inbox[on[r]]
        BY <3>2, <4>2 DEF Queued
      <4>3. CASE inbox'[on[r]] \in {Append(inbox[on[r]], r), <<r>>} /\ snd'[r] # "pending"
        BY <3>2, <4>1, <4>3 DEF Queued, Underway
      <4> QED
        BY <4>2, <4>3
    <3> QED
      BY <3>1, <3>2
  <2>2. Answered(q, p)' => Answered(q, p)
    BY NewSequence DEF Answered
  <2> QED
    BY <2>1, <2>2 DEF Underway
<1>2. ASSUME NEW p \in Requests
      PROVE  Distinct(inbox[p])' /\ Distinct(out[p])'
  <2>1. Distinct(out'[p])
    BY NewSequence DEF Single
  <2>2. Distinct(inbox'[p])
    <3>1. CASE p # on[r]
      BY <3>1 DEF Single
    <3>2. CASE p = on[r]
      <4>1. Distinct(inbox[on[r]]) /\ ~In(r, inbox[on[r]])
        BY <1>0 DEF Single, Queued
      <4>2. Distinct(Append(inbox[on[r]], r)) /\ Distinct(<<r>>)
        BY <1>0, <4>1, GrownSequence, NewSequence
      <4> QED
        BY <3>2, <4>1, <4>2
    <3> QED
      BY <3>1, <3>2
  <2> QED
    BY <2>1, <2>2
<1>3. ASSUME NEW p \in Requests, NEW q \in Requests
      PROVE  /\ Queued(q, p)' => ~Answered(q, p)' /\ ~Underway(q)'
             /\ Answered(q, p)' => ~Underway(q)'
  BY <1>1 DEF Single
<1>4. Single'
  BY <1>2, <1>3 DEF Single
<1>5. ASSUME NEW p \in Requests, NEW q \in Requests, Item(q, p)'
      PROVE  \/ on'[q] = p /\ pc'[q] = "drain"
             \/ Item(q, p) /\ pc'[q] = pc[q] /\ on'[q] = on[q]
             \/ on'[q] = p /\ pc'[q] \in Past /\ Spoiled(p)'
  <2>0. Queued(q, p)' \/ Answered(q, p)' \/ (Underway(q)' /\ on'[q] = p)
    BY <1>5 DEF Item
  <2>1. CASE q # r
    <3>1. Item(q, p)
      BY <1>1, <2>0, <2>1 DEF Item
    <3> QED
      BY <2>1, <3>1
  <2>2. CASE q = r
    <3>1. on'[r] = p
      BY <1>1, <2>0, <2>2
    <3>2. Spoiled(on[r]) => Spoiled(p)'
      BY <1>0, <3>1, SpoiledStays
    <3> QED
      BY <2>2, <3>1, <3>2
  <2> QED
    BY <2>1, <2>2
<1>6. Located'
  BY <1>5, Relocated
<1> QED
  BY <1>4, <1>6

LEMMA BeginItems ==
  ASSUME Typed, Routes, Located, Single, [Next]_vars, NEW r \in Requests, BeginTurn(r)
  PROVE  Located' /\ Single'
<1>1. pc[r] = "lock" /\ UNCHANGED <<on, inbox, out>> /\ Handler(r)
  BY DEF BeginTurn, At, procs, Handler
<1>2. \A q \in Requests \ {r} : pc'[q] = pc[q] /\ snd'[q] = snd[q]
  BY <1>1, OneHandler
<1>3. CASE on[r] \in seq
  <2>1. UNCHANGED snd
    BY <1>3 DEF BeginTurn
  <2> QED
    BY <1>1, <1>2, <2>1, FewerItems
<1>4. CASE on[r] \notin seq
  <2>1. pc'[r] = "drain"
    BY <1>4 DEF BeginTurn, Goto, Typed, HandlerTypes
  <2>2. \A p \in Requests : ~Queued(r, p) /\ ~Answered(r, p)
    BY <1>1, NothingYet DEF Past
  <2> QED
    BY <1>1, <1>2, <2>1, <2>2, SentItems
<1> QED
  BY <1>3, <1>4

LEMMA StartItems ==
  ASSUME Typed, Routes, Located, Single, [Next]_vars, NEW r \in Requests,
         StartProcess(r) \/ Started(r) \/ SendSequential(r)
  PROVE  Located' /\ Single'
<1>0. Handler(r) /\ pc[r] \in {"start", "starting", "sending"} /\ UNCHANGED on /\ on[r] \in Requests
  BY DEF Handler, StartProcess, Started, SendSequential, At, Typed, HandlerTypes
<1>1. \A q \in Requests \ {r} : pc'[q] = pc[q] /\ snd'[q] = snd[q]
  BY <1>0, OneHandler
<1>2. \A p \in Requests : ~Queued(r, p) /\ ~Answered(r, p) /\ ~Underway(r)
  BY <1>0, NothingYet DEF Past
<1>3. CASE UNCHANGED <<inbox, out, snd>>
  BY <1>0, <1>1, <1>3, FewerItems
<1>4. CASE ~UNCHANGED <<inbox, out, snd>>
  <2>1. pc'[r] = "drain"
    BY <1>4 DEF StartProcess, Started, SendSequential, Goto, Typed, HandlerTypes
  <2>2. StartProcess(r) => on[r] = r
    BY DEF StartProcess, At, Routes, Typed, HandlerTypes, Tools, Starting
  <2>3. UNCHANGED out \/ out' = [out EXCEPT ![on[r]] = <<>>]
    BY DEF StartProcess, Started, SendSequential, Resume, procs
  <2>4. \/ UNCHANGED inbox
        \/ inbox' = [inbox EXCEPT ![on[r]] = <<r>>] /\ UNCHANGED snd
    BY <2>2 DEF StartProcess, Started, SendSequential, Resume, procs
  <2>5. \A p \in Requests : out'[p] = out[p] \/ out'[p] = <<>>
    BY <2>3 DEF Typed, ProcTypes
  <2>6. /\ \A p \in Requests \ {on[r]} : inbox'[p] = inbox[p]
        /\ inbox'[on[r]] = inbox[on[r]] \/ (inbox'[on[r]] = <<r>> /\ snd'[r] # "pending")
    BY <1>0, <1>2, <2>4 DEF Typed, ProcTypes, Underway
  <2> QED
    BY <1>0, <1>1, <1>2, <2>1, <2>5, <2>6, SentItems
<1> QED
  BY <1>3, <1>4

LEMMA DeliverItems ==
  ASSUME Typed, Routes, Located, Single, [Next]_vars, NEW r \in Requests, Deliver(r)
  PROVE  Located' /\ Single'
<1>0. /\ on[r] \in Requests /\ Underway(r) /\ UNCHANGED <<on, pc>>
      /\ inbox[on[r]] \in Seq(Requests)
  BY DEF Deliver, Underway, Typed, HandlerTypes, ProcTypes
<1>1. PICK res \in {"ok", "err"} : snd' = [snd EXCEPT ![r] = res]
  BY DEF Deliver
<1>2. /\ \A q \in Requests \ {r} : snd'[q] = snd[q]
      /\ snd'[r] # "pending"
  BY <1>1 DEF Typed, HandlerTypes
<1>3. pc[r] = "drain" \/ (pc[r] \in Past /\ Spoiled(on[r]))
  BY <1>0 DEF Located, Item
<1>4. \A p \in Requests : ~Queued(r, p) /\ ~Answered(r, p)
  BY <1>0 DEF Single
<1>5. UNCHANGED out \/ out' = [out EXCEPT ![on[r]] = <<>>]
  BY DEF Deliver, Resume
<1>6. \/ UNCHANGED inbox
      \/ inbox' = [inbox EXCEPT ![on[r]] = <<r>>]
      \/ inbox' = [inbox EXCEPT ![on[r]] = Append(inbox[on[r]], r)]
  BY DEF Deliver, Resume
<1>7. \A p \in Requests : out'[p] = out[p] \/ out'[p] = <<>>
  BY <1>5 DEF Typed, ProcTypes
<1>8. /\ \A p \in Requests \ {on[r]} : inbox'[p] = inbox[p]
      /\ inbox'[on[r]] = inbox[on[r]] \/ inbox'[on[r]] \in {Append(inbox[on[r]], r), <<r>>}
  BY <1>0, <1>6 DEF Typed, ProcTypes
<1> QED
  BY <1>0, <1>2, <1>3, <1>4, <1>7, <1>8, SentItems

\* A turn that reads another's answer finds that an earlier one was left.
LEMMA ReadItems ==
  ASSUME Typed, Routes, Turns, Located, Single, Fresh, [Next]_vars, NEW r \in Requests, ReadResult(r)
  PROVE  /\ Located' /\ Single'
         /\ got'[r] # r => Spoiled(on[r])
<1>0. /\ on[r] \in Requests /\ Handler(r) /\ pc[r] = "drain" /\ UNCHANGED <<inbox, snd, on>>
      /\ out[on[r]] \in Seq(Requests) /\ out[on[r]] # <<>>
  BY DEF ReadResult, Handler, At, Typed, HandlerTypes, ProcTypes
<1>1. PICK x \in Requests : x = Head(out[on[r]])
  BY <1>0, SequenceTypes
<1>2. /\ Answered(x, on[r])
      /\ Distinct(Tail(out[on[r]])) /\ ~In(x, Tail(out[on[r]]))
      /\ \A q \in Requests : In(q, Tail(out[on[r]])) => Answered(q, on[r])
  <2>1. Distinct(out[on[r]])
    BY <1>0 DEF Single
  <2> QED
    BY <1>0, <1>1, <2>1, ShrunkSequence DEF Answered
<1>3. /\ got'[r] = x /\ pc'[r] = "after"
      /\ out' = [out EXCEPT ![on[r]] = Tail(out[on[r]])]
  BY <1>1 DEF ReadResult, Over, Goto, Typed, HandlerTypes
<1>4. \A p \in Requests : out'[p] = IF p = on[r] THEN Tail(out[on[r]]) ELSE out[p]
  BY <1>3 DEF Typed, ProcTypes
<1>5. ASSUME NEW p \in Requests, NEW q \in Requests
      PROVE  /\ Queued(q, p)' <=> Queued(q, p)
             /\ Underway(q)' <=> Underway(q)
             /\ Answered(q, p)' => Answered(q, p) /\ ~(p = on[r] /\ q = x)
  BY <1>0, <1>2, <1>4 DEF Queued, Underway, Answered
<1>6. Single'
  <2>1. \A p \in Requests : Distinct(inbox[p])' /\ Distinct(out[p])'
    BY <1>0, <1>2, <1>4 DEF Single
  <2>2. ASSUME NEW p \in Requests, NEW q \in Requests
        PROVE  /\ Queued(q, p)' => ~Answered(q, p)' /\ ~Underway(q)'
               /\ Answered(q, p)' => ~Underway(q)'
    BY <1>5 DEF Single
  <2> QED
    BY <2>1, <2>2 DEF Single
<1>7. x # r => Spoiled(on[r])
  <2>1. on[x] = on[r] /\ (pc[x] = "drain" \/ Spoiled(on[r]))
    BY <1>0, <1>2 DEF Located, Item
  <2> QED
    BY <1>0, <2>1, OneReader
<1>8. ASSUME NEW p \in Requests, NEW q \in Requests, Item(q, p)'
      PROVE  \/ Item(q, p) /\ pc'[q] = pc[q] /\ on'[q] = on[q]
             \/ on'[q] = p /\ pc'[q] \in Past /\ Spoiled(p)'
  <2>1. Item(q, p)
    BY <1>0, <1>5, <1>8 DEF Item
  <2>2. CASE q # r
    BY <1>0, <2>1, <2>2, OneHandler
  <2>3. CASE q = r
    <3>1. on[r] = p
      BY <2>1, <2>3 DEF Located
    <3>2. x # r
      BY <1>0, <1>2, <1>5, <1>8, <2>3, <3>1 DEF Item, Single
    <3>3. Spoiled(p)'
      BY <1>7, <3>1, <3>2, SpoiledStays
    <3> QED
      BY <1>0, <1>3, <2>3, <3>1, <3>3 DEF Past
  <2> QED
    BY <2>2, <2>3
<1>9. Located'
  BY <1>8, Relocated
<1> QED
  BY <1>3, <1>6, <1>7, <1>9

LEMMA AnswerItems ==
  ASSUME Typed, Routes, Located, Single, [Next]_vars, NEW p \in Requests, AgentAnswers(p)
  PROVE  Located' /\ Single'
<1>0. /\ UNCHANGED <<pc, on, snd>> /\ inbox[p] \in Seq(Requests) /\ inbox[p] # <<>> /\ out[p] \in Seq(Requests)
      /\ Distinct(inbox[p]) /\ Distinct(out[p])
  BY DEF AgentAnswers, handlers, Typed, ProcTypes, Single
<1>1. PICK x \in Requests : x = Head(inbox[p])
  BY <1>0, SequenceTypes
<1>2. /\ Queued(x, p)
      /\ Distinct(Tail(inbox[p])) /\ ~In(x, Tail(inbox[p]))
      /\ \A q \in Requests : In(q, Tail(inbox[p])) => Queued(q, p)
  BY <1>0, <1>1, ShrunkSequence DEF Queued
<1>3. ~In(x, out[p]) /\ ~Underway(x)
  BY <1>2 DEF Single, Answered
<1>4. /\ Distinct(Append(out[p], x))
      /\ \A q \in Requests : In(q, Append(out[p], x)) <=> Answered(q, p) \/ q = x
  BY <1>0, <1>3, GrownSequence DEF Answered
<1>5. /\ \A y \in Requests : inbox'[y] = IF y = p THEN Tail(inbox[p]) ELSE inbox[y]
      /\ \A y \in Requests : out'[y] = IF y = p THEN Append(out[p], x) ELSE out[y]
  BY <1>1 DEF AgentAnswers, Typed, ProcTypes
<1>6. ASSUME NEW y \in Requests, NEW q \in Requests
      PROVE  /\ Queued(q, y)' => Queued(q, y) /\ ~(y = p /\ q = x)
             /\ Underway(q)' <=> Underway(q)
             /\ Answered(q, y)' => Answered(q, y) \/ (y = p /\ q = x)
  BY <1>0, <1>2, <1>4, <1>5 DEF Queued, Underway, Answered
<1>7. Single'
  <2>1. \A y \in Requests : Distinct(inbox[y])' /\ Distinct(out[y])'
    BY <1>2, <1>4, <1>5 DEF Single
  <2>2. ASSUME NEW y \in Requests, NEW q \in Requests
        PROVE  /\ Queued(q, y)' => ~Answered(q, y)' /\ ~Underway(q)'
               /\ Answered(q, y)' => ~Underway(q)'
    BY <1>3, <1>6 DEF Single
  <2> QED
    BY <2>1, <2>2 DEF Single
<1>8. ASSUME NEW y \in Requests, NEW q \in Requests, Item(q, y)'
      PROVE  Item(q, y) /\ pc'[q] = pc[q] /\ on'[q] = on[q]
  BY <1>0, <1>2, <1>6, <1>8 DEF Item
<1>9. Located'
  BY <1>8, Relocated
<1> QED
  BY <1>7, <1>9

LEMMA ItemsStep ==
  ASSUME Typed, Routes, Turns, Items, [Next]_vars
  PROVE  Items'
<1>0. Located /\ Single /\ Fresh
  BY DEF Items
<1>1. ASSUME NEW r \in Requests, Handler(r)
      PROVE  Located' /\ Single'
  BY <1>0, <1>1, StillItems, BeginItems, StartItems, ReadItems
<1>2. ASSUME NEW r \in Requests, Deliver(r)
      PROVE  Located' /\ Single'
  BY <1>0, <1>2, DeliverItems
<1>3. ASSUME NEW p \in Requests, AgentAnswers(p)
      PROVE  Located' /\ Single'
  BY <1>0, <1>3, AnswerItems
<1>4. ASSUME \/ \E r \in Requests : Arrive(r) \/ Expire(r)
             \/ \E p \in Requests : GrowIdle(p) \/ ReaperStops(p) \/ Closed(p) \/ AgentExits(p)
             \/ ReapIdle \/ StopAll \/ Exit \/ RunFails \/ UNCHANGED vars
      PROVE  Located' /\ Single'
  BY <1>0, <1>4, DyingItems
<1>5. Located' /\ Single'
  BY <1>1, <1>2, <1>3, <1>4 DEF Next
<1>6. Fresh'
  BY <1>0, FreshStep
<1> QED
  BY <1>5, <1>6 DEF Items

-----------------------------------------------------------------------------
(* Whose answer a turn reports.                                            *)

LEMMA ForeignStep ==
  ASSUME Typed, Routes, Turns, Items, Foreign, [Next]_vars
  PROVE  Foreign'
<1>0. Located /\ Single /\ Fresh
  BY DEF Items
<1>1. ASSUME NEW r \in Requests, got'[r] \notin {r, Nobody}
      PROVE  \E q \in Requests \ {r} : on'[q] = on'[r] /\ Missed(q)'
  <2>1. CASE pc[r] \in Past
    <3>1. got[r] = got'[r] /\ on'[r] = on[r]
      BY <2>1, PastStep
    <3>2. PICK q \in Requests \ {r} : on[q] = on[r] /\ Missed(q)
      BY <1>1, <3>1 DEF Foreign
    <3>3. Missed(q)' /\ on'[q] = on[q]
      BY <3>2, MissedStays
    <3> QED
      BY <3>1, <3>2, <3>3
  <2>2. CASE pc[r] \notin Past
    <3>1. got[r] = Nobody
      BY <1>0, <2>2 DEF Fresh
    <3>2. ReadResult(r)
      <4>1. ASSUME NEW x \in Requests, Arrive(x)
            PROVE  UNCHANGED got
        BY <4>1 DEF Arrive
      <4>2. ASSUME NEW x \in Requests \ {r}, Handler(x)
            PROVE  got'[r] = got[r]
        BY <4>2, OneHandler
      <4>3. ASSUME Handler(r), ~ReadResult(r)
            PROVE  UNCHANGED got
        BY <4>3
        DEF Handler, AcquireSem, AcquireFails, StartFails, StartProcess, Started, HandshakeFails,
            SendSequential,
            SendSequentialFails, OutputClosed, SendFails, TimedOut, AfterRun, AfterFirst,
            Create, CreateFails, NotFound, Get, BeginTurn, AfterSend, AutoRemove, SessionStop,
            Stopped
      <4>4. \E x \in Requests : Arrive(x) \/ Handler(x)
        BY <1>1, <3>1, QuietSteps
      <4> QED
        BY <1>1, <3>1, <4>1, <4>2, <4>3, <4>4
    <3>3. Spoiled(on[r]) /\ Handler(r)
      BY <1>0, <1>1, <3>2, ReadItems DEF Handler
    <3>4. PICK q \in Requests : on[q] = on[r] /\ Missed(q)
      BY <3>3 DEF Spoiled
    <3>5. q # r
      BY <2>2, <3>4 DEF Missed
    <3>6. Missed(q)' /\ on'[q] = on[q] /\ on'[r] = on[r]
      BY <3>3, <3>4, MissedStays, OneHandler
    <3> QED
      BY <3>4, <3>5, <3>6
  <2> QED
    BY <2>1, <2>2
<1> QED
  BY <1>1 DEF Foreign, Missed

-----------------------------------------------------------------------------
(* The invariant holds of every behaviour.                                 *)

LEMMA InvInit ==
  ASSUME Init
  PROVE  Inv
<1>1. \A r \in Requests : pc[r] = "idle" /\ on[r] = r /\ snd[r] = "none" /\ got[r] = Nobody
                          /\ life[r] = "none" /\ inbox[r] = <<>> /\ out[r] = <<>>
                          /\ active[r] = 0 /\ holder[r] = Nobody
  BY DEF Init
<1>2. Typed
  <2>1. tool \in [Requests -> Tools] /\ may \subseteq Events
    BY ScriptsAssumption DEF Init
  <2>2. <<>> \in Seq(Requests)
    OBVIOUS
  <2> QED
    BY <2>1, <2>2, ServerAssumption
    DEF Init, Typed, HandlerTypes, ProcTypes, SessionTypes, OtherTypes, Places
<1>3. Routes
  BY <1>1 DEF Routes, Past
<1>4. Turns
  BY <1>1 DEF Turns, InSession
<1>5. Bounded
  <2>1. Tokens = {} /\ store = {} /\ sem = 0
    BY <1>1 DEF Tokens, Acquired, Init
  <2> QED
    BY <2>1, FS_EmptySet, ServerAssumption DEF Bounded
<1>6. Hands
  BY <1>1 DEF Hands, Init
<1>7. Items
  <2>1. \A p, q \in Requests : ~Queued(q, p) /\ ~Answered(q, p) /\ ~Underway(q)
    BY ZenonT(60), <1>1, NewSequence DEF Queued, Answered, Underway
  <2>2. \A p \in Requests : Distinct(inbox[p]) /\ Distinct(out[p])
    BY <1>1, NewSequence
  <2> QED
    BY <1>1, <2>1, <2>2 DEF Items, Located, Single, Fresh, Item
<1>8. Foreign
  BY <1>1 DEF Foreign
<1> QED
  BY <1>2, <1>3, <1>4, <1>5, <1>6, <1>7, <1>8 DEF Inv

LEMMA InvStep ==
  ASSUME Inv, [Next]_vars
  PROVE  Inv'
<1>1. Typed /\ Routes /\ Turns /\ Bounded /\ Hands /\ Items /\ Foreign
  BY DEF Inv
<1>2. Typed' /\ Routes' /\ Turns' /\ Bounded'
  BY <1>1, TypesStep, RoutesStep, TurnsStep, BoundedStep
<1>3. Hands' /\ Items' /\ Foreign'
  BY <1>1, HandsStep, ItemsStep, ForeignStep
<1> QED
  BY <1>2, <1>3 DEF Inv

LEMMA Invariance == Spec => []Inv
<1>1. Init => Inv
  BY InvInit
<1>2. Inv /\ [Next]_vars => Inv'
  BY InvStep
<1> QED
  BY <1>1, <1>2, PTL DEF Spec

\* Every variable keeps its range, whatever the callers, the agents, the reaper
\* and the shutdown do: the semaphore never exceeds its capacity nor falls below
\* zero, and the creation stamps stay within the rate limit (sessions.go).
THEOREM TypeCorrect == Spec => []TypeOK
<1>1. ASSUME Inv
      PROVE  TypeOK
  <2>1. sem \in 0..SemCapacity
    BY <1>1, FS_CardinalityType, ServerAssumption DEF Inv, Bounded
  <2>2. active \in [Requests -> Nat]
    BY <1>1 DEF Inv, Typed, SessionTypes
  <2> QED
    BY <1>1, <2>1, <2>2 DEF Inv, Typed, HandlerTypes, ProcTypes, SessionTypes, OtherTypes, TypeOK
<1> QED
  BY <1>1, Invariance, PTL

\* Every subprocess that runs is a registered session, or in the hands of a
\* handler, of the reaper or of stopAll: no path of the handlers drops one.
THEOREM NoProcessIsOrphaned == Spec => []NoOrphan
<1>1. ASSUME Inv
      PROVE  NoOrphan
  BY <1>1 DEF Inv, Hands, InHand, NoOrphan, Gone, Failed, Running
<1> QED
  BY <1>1, Invariance, PTL

\* A turn that reports another prompt's result follows a turn of the same
\* process that ended without reading its own (doSessionSend, RunFirstTurn).
THEOREM AnswersAreOwn == Spec => []OwnAnswer
<1>1. ASSUME Inv
      PROVE  OwnAnswer
  <2>1. \A q \in Requests : Missed(q) => Unread(q)
    BY DEF Missed, Unread
  <2> QED
    BY <1>1, <2>1 DEF Inv, Foreign, OwnAnswer
<1> QED
  BY <1>1, Invariance, PTL

-----------------------------------------------------------------------------
(* How many subprocesses run.                                              *)

\* The handlers that have a first turn or its aftermath under way.
Starters == {r \in Requests : tool[r] \in Starting /\ pc[r] \in {"starting", "drain", "after", "register"}}
\* The sessions that have a turn under way.
Busy == {p \in Requests : active[p] > 0}
\* What runs and nobody is stopping yet.
Live == {p \in Requests : Running(p) /\ p \notin stopping \cup reaping}

\* A process that runs is a session or still with the handler that started it.
LEMMA LiveAreHeld ==
  ASSUME Typed, Routes, Hands
  PROVE  Live \subseteq store \cup Starters
<1> SUFFICES ASSUME NEW p \in Live
             PROVE  p \in store \cup Starters
  OBVIOUS
<1>1. p \in Requests /\ InHand(p) /\ p \notin stopping /\ p \notin reaping
  BY DEF Live, Hands, Gone, Failed, Running
<1>2. p \notin closing
  BY <1>1 DEF Hands
<1>3. ASSUME NEW r \in Requests, Holds(r, p)
      PROVE  p \in Starters
  <2>1. pc[r] # "stopping"
    BY <1>1, <1>3 DEF Holds, Routes
  <2> QED
    BY <1>3, <2>1 DEF Holds, Routes, Starters
<1> QED
  BY <1>1, <1>2, <1>3 DEF InHand

\* Each busy session has a handler of its own that has a token and started nothing.
LEMMA TokensSuffice ==
  ASSUME Typed, Routes, Turns, Bounded
  PROVE  /\ IsFiniteSet(Starters) /\ IsFiniteSet(Busy)
         /\ Cardinality(Starters) + Cardinality(Busy) <= Cardinality(Tokens)
<1>1. PICK T \in SUBSET Requests : T = {r \in Requests : InSession(r)}
  OBVIOUS
<1>2. Starters \subseteq Tokens /\ T \subseteq Tokens /\ Starters \cap T = {}
  BY <1>1 DEF Starters, Tokens, Acquired, InSession, Starting
<1>3. PICK f \in [T -> Requests] : f = [r \in T |-> on[r]]
  BY <1>1 DEF Typed, HandlerTypes
<1>4. \A r \in T : f[r] \in Busy
  <2>1. ASSUME NEW r \in T
        PROVE  active[on[r]] = 1 /\ on[r] \in Requests
    BY <1>1, ServerAssumption DEF Turns, Typed, HandlerTypes
  <2> QED
    BY <1>3, <2>1 DEF Busy
<1>5. \A p \in Busy : \E r \in T : f[r] = p
  <2>1. ASSUME NEW p \in Busy
        PROVE  holder[p] \in T /\ on[holder[p]] = p
    BY <1>1 DEF Busy, Turns, Typed, SessionTypes
  <2> QED
    BY <1>3, <2>1
<1>6. f \in Surjection(T, Busy)
  BY <1>3, <1>4, <1>5 DEF Surjection
<1>7. IsFiniteSet(T) /\ IsFiniteSet(Starters) /\ IsFiniteSet(Tokens)
  BY <1>2, FS_Subset DEF Bounded
<1>8. IsFiniteSet(Busy) /\ Cardinality(Busy) <= Cardinality(T)
  BY <1>6, <1>7, FS_Surjection
<1>9. Cardinality(Starters \cup T) = Cardinality(Starters) + Cardinality(T)
  <2>1. Cardinality(Starters \cup T) = Cardinality(Starters) + Cardinality(T) - Cardinality({})
    BY <1>2, <1>7, FS_Union
  <2> QED
    BY <1>7, <2>1, FS_EmptySet, FS_CardinalityType
<1>10. Cardinality(Starters \cup T) <= Cardinality(Tokens)
  BY <1>2, <1>7, FS_Subset
<1> QED
  BY <1>7, <1>8, <1>9, <1>10, FS_CardinalityType

\* However many calls arrive at once, the subprocesses that run and that nobody
\* is stopping are at most maxLiveSessions and one for each token of the
\* semaphore whose holder is not in a session's turn: the limit that is checked
\* only after the first turn does not let more start (sessions.go, Create).
THEOREM LiveProcessesAreBounded == Spec => []LiveBound
<1>1. ASSUME Inv
      PROVE  LiveBound
  <2>0. Typed /\ Routes /\ Turns /\ Bounded /\ Hands
    BY <1>1 DEF Inv
  <2>1. Live \subseteq store \cup Starters
    BY <2>0, LiveAreHeld
  <2>2. /\ IsFiniteSet(Starters) /\ IsFiniteSet(Busy)
        /\ Cardinality(Starters) + Cardinality(Busy) <= sem
    BY <2>0, TokensSuffice DEF Bounded
  <2>3. IsFiniteSet(store) /\ Cardinality(store) <= MaxSessions
    BY <2>0 DEF Bounded
  <2>4. /\ IsFiniteSet(store \cup Starters)
        /\ Cardinality(store \cup Starters) =
             Cardinality(store) + Cardinality(Starters) - Cardinality(store \cap Starters)
    BY <2>2, <2>3, FS_Union
  <2>5. IsFiniteSet(store \cap Starters)
    BY <2>3, FS_Subset
  <2>6. Cardinality(Live) <= Cardinality(store \cup Starters) /\ IsFiniteSet(Live)
    BY <2>1, <2>4, FS_Subset
  <2>7. /\ Cardinality(Live) \in Nat /\ Cardinality(store) \in Nat /\ Cardinality(Starters) \in Nat
        /\ Cardinality(store \cap Starters) \in Nat /\ Cardinality(Busy) \in Nat
    BY <2>2, <2>3, <2>5, <2>6, FS_CardinalityType
  <2>8. sem \in Nat
    BY <2>0, FS_CardinalityType DEF Bounded
  <2>9. Cardinality(Live) <= MaxSessions + sem - Cardinality(Busy)
    BY <2>2, <2>3, <2>4, <2>6, <2>7, <2>8, ServerAssumption
  <2> QED
    BY <2>9 DEF LiveBound, Live, Busy
<1> QED
  BY <1>1, Invariance, PTL

=============================================================================

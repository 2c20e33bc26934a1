-------------------------- MODULE AcpProcessProofs --------------------------
(***************************************************************************)
(* The safety of an ACP session for any number of Sends, permission        *)
(* requests and updates and any capacity of its channels.                  *)
(***************************************************************************)
EXTENDS AcpProcess, TLAPS

-----------------------------------------------------------------------------
(* The inductive invariant, by what its parts relate.                      *)

Starts  == Calling \cup {"validate", "init", "warned", "returned", "kill", "killed", "rejected"}
Returns == InTurn \cup Finished \cup {"idle", "locking"}
Places  == {"reading", "queueing", "closing", "draining", "reaping", "finishing", "over"}
Agents  == [state : {"running", "clean", "crashed"}, prompts : Seq(Sends)]
Emits   == [blocked : BOOLEAN, msgs : Seq(Messages)]
Accs    == [sealed : BOOLEAN, heard : SUBSET (1..MaxUpdates), denied : SUBSET Perms]
PermAts == [at : {"none", "spawned", "deciding", "over"}, turn : Tags, by : Tags]

\* The variables of turns, of the way to Output, and of the rest.
TurnTypes ==
  /\ start \in Starts
  /\ send \in [Sends -> Returns]
  /\ call \in [Sends -> {"none", "writing", "open", "ok", "error"}]
  /\ rpcDone \in Tags /\ active \in Tags
  /\ acc \in [Sends -> Accs]
  /\ publish \in Seq(Messages)
  /\ perm \in [Perms -> PermAts]
  /\ \A r \in Perms : perm[r].at = "deciding" => perm[r].by \in Sends

PipeTypes ==
  /\ queue \in Seq(Messages) /\ Len(queue) <= QueueSize
  /\ out \in Seq(Messages) /\ Len(out) <= OutputBuffer
  /\ reader \in [at : Places, msg : Messages]
  /\ emitting \in [Emitters -> Emits]
  /\ \A w \in Emitters : emitting[w] = NoEmit \/ Len(emitting[w].msgs) = 1

OtherTypes ==
  /\ events \in Scenarios
  /\ expired \subseteq Sends /\ spoke \in [Tags -> SUBSET (1..MaxUpdates)]
  /\ {queueClosed, dispatched, outClosed, stopping, cancelled, done, readErr, listening} \subseteq BOOLEAN
  /\ termErr \in {"nil", "exit", "reader", "terminated"}
  /\ stop \in {"idle", "notify", "grace", "killed", "returned"}
  /\ agent \in Agents
  /\ updates \in 0..MaxUpdates

\* The two mutexes kept while their holder blocks.
Mutexes ==
  /\ \A v, w \in Emitters : emitting[v].blocked /\ emitting[w].blocked => v = w
  /\ updateMu \in Tags
  /\ updateMu # None => send[updateMu] = "publishing"

\* The end of the session follows the places of the ReadLoop.
Ends ==
  /\ done <=> reader.at \in {"finishing", "over"}
  /\ ~done => termErr = "nil"
  /\ outClosed <=> reader.at = "over"
  /\ queueClosed <=> reader.at \in {"draining", "reaping", "finishing", "over"}
  /\ outClosed => OutputMuFree
  /\ queueClosed => updateMu = None

\* A turn: who is in it, what of its Call and its collectors that Send knows.
Turns ==
  /\ \A t, u \in Sends : send[t] \in InTurn /\ send[u] \in InTurn => t = u
  /\ active # None => send[active] \in {"waiting", "publishing"}
  /\ (\A t \in Sends : send[t] # "publishing") => publish = <<>>
  /\ \A t \in Sends :
       /\ send[t] \in {"idle", "locking", "fence", "invalid"} => call[t] = "none"
       /\ send[t] \in {"idle", "locking", "fence"} => ~acc[t].sealed
       /\ send[t] = "waiting" => active = t /\ ~acc[t].sealed /\ call[t] # "none"
       /\ send[t] = "publishing" =>
            /\ acc[t].sealed /\ call[t] = "ok"
            /\ publish \in {<<Msg("result", t)>>, <<Msg("synthesized", t), Msg("result", t)>>}
       /\ send[t] = "ok" => call[t] = "ok"
       /\ send[t] = "terminated" => call[t] = "none" \/ done

\* The agent has the prompts whose Calls are not answered, once each.
Prompts ==
  /\ \A i \in DOMAIN agent.prompts : call[agent.prompts[i]] \in {"open", "error"}
  /\ \A i, j \in DOMAIN agent.prompts : agent.prompts[i] = agent.prompts[j] => i = j

\* What the agent sent for a turn, and what the turn's collectors heard.
Heard ==
  /\ \A t \in Sends : spoke[t] # {} => call[t] \notin {"none", "writing"}
  /\ \A t \in Sends : send[t] \in {"waiting", "publishing"} => spoke[t] \subseteq acc[t].heard \/ Full(t)
  /\ OwnUpdates

\* The results in a sequence are of the turns in over; no message of a turn
\* comes after its result, in a sequence or in one that follows it.
Settled(s, over) == \A i \in DOMAIN s : s[i].type = "result" => s[i].turn \in over
Before(s, r) ==
  \A i \in DOMAIN s, j \in DOMAIN r : s[i].type = "result" => r[j].turn # s[i].turn
Ordered(s) ==
  \A i, j \in DOMAIN s : i < j /\ s[i].type = "result" => s[j].turn # s[i].turn

\* Output, what the dispatcher holds, and the queue.
Streams(o, h, q, over) ==
  /\ Settled(o, over) /\ Settled(h, over) /\ Settled(q, over)
  /\ Ordered(o) /\ Ordered(q)
  /\ Before(o, h) /\ Before(o, q) /\ Before(h, q)

Held == emitting["dispatcher"].msgs
Over == {t \in Sends : send[t] = "ok"}

\* The other emitters deliver nothing that belongs to a turn.
Aside ==
  \A w \in Emitters \ {"dispatcher"} : \A i \in DOMAIN emitting[w].msgs :
    emitting[w].msgs[i].turn = None /\ emitting[w].msgs[i].type # "result"

Flow ==
  /\ Streams(out, Held, queue, Over)
  /\ Aside
  /\ reader.at = "queueing" =>
       /\ reader.msg.type = "update"
       /\ reader.msg.turn # None => agent.prompts # <<>> /\ reader.msg.turn = agent.prompts[1]

Typed == TurnTypes /\ PipeTypes /\ OtherTypes

Inv == Typed /\ Mutexes /\ Ends /\ Turns /\ Prompts /\ Heard /\ Flow

-----------------------------------------------------------------------------
(* Facts the steps keep needing.                                           *)

LEMMA MessageTypes ==
  /\ Error \in Messages
  /\ Error.turn = None /\ Error.type = "error"
  /\ Msg("init", None) \in Messages
  /\ \A t \in Tags : /\ Msg("update", t) \in Messages
                     /\ Msg("synthesized", t) \in Messages
                     /\ Msg("result", t) \in Messages
  BY AcpAssumption DEF Error, Msg, Messages, Tags, None, Sends

LEMMA EmitterTypes ==
  /\ {"reader", "dispatcher", "start"} \subseteq Emitters
  /\ Perms \subseteq Emitters
  /\ \A r \in Perms : r \notin {"reader", "dispatcher", "start"}
  BY AcpAssumption DEF Emitters

\* The prompt the agent works on is one of a Send that is there, or none.
LEMMA CurrentType ==
  ASSUME agent \in Agents
  PROVE  /\ Current \in Tags
         /\ agent.prompts # <<>> => Current \in Sends /\ Current = agent.prompts[1]
         /\ agent.prompts = <<>> => Current = None
<1>1. agent.prompts \in Seq(Sends)
  BY DEF Agents
<1>2. agent.prompts # <<>> => Head(agent.prompts) = agent.prompts[1] /\ agent.prompts[1] \in Sends
  BY <1>1
<1> QED
  BY <1>2 DEF Current, Tags

\* A message more, or the first one less.
LEMMA AppendFacts ==
  ASSUME NEW s \in Seq(Messages), NEW m \in Messages
  PROVE  /\ Append(s, m) \in Seq(Messages) /\ Len(Append(s, m)) = Len(s) + 1
         /\ Append(s, m)[Len(s) + 1] = m
         /\ \A i \in DOMAIN s : Append(s, m)[i] = s[i] /\ i \in DOMAIN Append(s, m)
         /\ \A i \in DOMAIN Append(s, m) : i \in DOMAIN s \/ i = Len(s) + 1
         /\ s \o <<m>> = Append(s, m)
  OBVIOUS

LEMMA TailFacts ==
  ASSUME NEW s \in Seq(Messages), s # <<>>
  PROVE  /\ Tail(s) \in Seq(Messages) /\ Len(Tail(s)) = Len(s) - 1
         /\ Head(s) = s[1] /\ Head(s) \in Messages
         /\ \A i \in DOMAIN Tail(s) : i + 1 \in DOMAIN s /\ Tail(s)[i] = s[i + 1]
         /\ 1 \in DOMAIN s /\ \A i \in DOMAIN s : i >= 1
  OBVIOUS

\* What an emitter holds, when it holds something, is one message.
LEMMA HeldFacts ==
  ASSUME PipeTypes, NEW w \in Emitters, ~Idle(w)
  PROVE  \E m \in Messages : emitting[w].msgs = <<m>> /\ emitting[w].msgs[1] = m
<1>1. emitting[w].msgs \in Seq(Messages) /\ Len(emitting[w].msgs) = 1
  BY DEF PipeTypes, Emits, Idle, NoEmit
<1>2. emitting[w].msgs[1] \in Messages /\ emitting[w].msgs = <<emitting[w].msgs[1]>>
  BY <1>1
<1> QED
  BY <1>2

-----------------------------------------------------------------------------
(* Types.                                                                  *)

\* emit: the message is delivered, dropped or kept.
LEMMA EmitTypes ==
  ASSUME Typed, NEW w \in Emitters, Emit(w)
  PROVE  Typed'
<1>1. PICK m \in Messages : emitting[w].msgs = <<m>> /\ emitting[w].msgs[1] = m
  BY HeldFacts DEF Typed, Emit, EmitFirst, EmitBlocked, PipeTypes, Idle, NoEmit
<1>2. out' = out \/ (out' = Append(out, m) /\ Len(out) < OutputBuffer)
  BY <1>1, AppendFacts DEF Emit, EmitFirst, EmitBlocked, Deliver, Typed, PipeTypes
<1>3. out' \in Seq(Messages) /\ Len(out') <= OutputBuffer
  BY SMTT(40), <1>2, AppendFacts, AcpAssumption DEF Typed, PipeTypes
<1>4. emitting' \in [Emitters -> Emits] /\ \A v \in Emitters : emitting'[v] = NoEmit \/ Len(emitting'[v].msgs) = 1
  <2>1. NoEmit \in Emits
    BY DEF NoEmit, Emits
  <2>2. CASE emitting' = [emitting EXCEPT ![w] = NoEmit]
    BY <2>1, <2>2 DEF Typed, PipeTypes
  <2>3. CASE emitting' = [emitting EXCEPT ![w].blocked = TRUE]
    <3>1. Len(emitting[w].msgs) = 1
      BY <1>1
    <3> QED
      BY <2>3, <3>1 DEF Typed, PipeTypes, Emits
  <2> QED
    BY <2>2, <2>3 DEF Emit, EmitFirst, EmitBlocked, Deliver
<1> QED
  BY <1>3, <1>4 DEF Emit, Typed, TurnTypes, PipeTypes, OtherTypes, turnVars, endVars, envVars

\* The call of emit, in the steps that make one.
LEMMA EmittingTypes ==
  ASSUME PipeTypes, NEW w \in Emitters, NEW m \in Messages
  PROVE  /\ Emitting(w, m) \in [Emitters -> Emits]
         /\ \A v \in Emitters : Emitting(w, m)[v] = NoEmit \/ Len(Emitting(w, m)[v].msgs) = 1
<1>1. <<m>> \in Seq(Messages) /\ Len(<<m>>) = 1
  OBVIOUS
<1>2. Emitting(w, m) \in [Emitters -> Emits]
  BY <1>1 DEF PipeTypes, Emits, Emitting
<1>3. \A v \in Emitters : v # w => Emitting(w, m)[v] = emitting[v]
  BY DEF PipeTypes, Emitting
<1>4. Emitting(w, m)[w].msgs = <<m>>
  BY DEF PipeTypes, Emits, Emitting
<1> QED
  BY <1>1, <1>2, <1>3, <1>4 DEF PipeTypes

\* A step that leaves the pipe and what the environment did alone.
LEMMA HandshakeTypes ==
  ASSUME Typed,
         Validate \/ HandshakeAnswered \/ HandshakeFails \/ ConfigFails \/ HandshakeEmitted
           \/ Kill \/ Killed
  PROVE  Typed'
<1>1. start' \in Starts
  BY DEF Typed, TurnTypes, Starts, Calling, Validate, HandshakeAnswered, HandshakeFails,
         ConfigFails, HandshakeEmitted, Kill, Killed, NextStep
<1>2. /\ emitting' \in [Emitters -> Emits]
      /\ \A w \in Emitters : emitting'[w] = NoEmit \/ Len(emitting'[w].msgs) = 1
  <2>1. CASE \E m \in Messages : emitting' = Emitting("start", m)
    <3>1. PICK m \in Messages : emitting' = Emitting("start", m)
      BY <2>1
    <3>2. "start" \in Emitters /\ PipeTypes
      BY EmitterTypes DEF Typed
    <3> QED
      BY <3>1, <3>2, EmittingTypes
  <2>2. CASE UNCHANGED emitting
    BY <2>2 DEF Typed, PipeTypes
  <2>3. CASE Validate \/ HandshakeFails \/ HandshakeEmitted \/ Kill \/ Killed
    BY <2>2, <2>3 DEF Validate, HandshakeFails, HandshakeEmitted, Kill, Killed, pipeVars
  <2>4. CASE HandshakeAnswered
    BY <2>1, <2>2, <2>4, MessageTypes DEF HandshakeAnswered
  <2>5. CASE ConfigFails
    BY <2>1, <2>5, MessageTypes DEF ConfigFails
  <2> QED
    BY <2>3, <2>4, <2>5
<1>3. agent' \in Agents
  BY DEF Typed, OtherTypes, Agents, Validate, HandshakeAnswered, HandshakeFails, ConfigFails,
         HandshakeEmitted, Kill, Killed, envVars
<1>4. TurnTypes'
  BY <1>1
  DEF Typed, TurnTypes, turnVars, Validate, HandshakeAnswered, HandshakeFails, ConfigFails,
      HandshakeEmitted, Kill, Killed
<1>5. PipeTypes'
  BY <1>2
  DEF Typed, PipeTypes, pipeVars, Validate, HandshakeAnswered, HandshakeFails, ConfigFails,
      HandshakeEmitted, Kill, Killed
<1>6. OtherTypes'
  BY <1>3
  DEF Typed, OtherTypes, pipeVars, endVars, envVars, Validate, HandshakeAnswered, HandshakeFails,
      ConfigFails, HandshakeEmitted, Kill, Killed
<1> QED
  BY <1>4, <1>5, <1>6 DEF Typed

\* What Result queues is well typed.
LEMMA ResultTypes ==
  ASSUME TurnTypes, NEW t \in Sends
  PROVE  Result(t) \in Seq(Messages)
  BY MessageTypes DEF Result, Tags

LEMMA TurnStepTypes ==
  ASSUME Typed, NEW t \in Sends,
         SendBegin(t) \/ TakeTurn(t) \/ PassFence(t) \/ FenceGivesUp(t) \/ CallExpires(t)
           \/ TurnAnswered(t) \/ TurnEnded(t) \/ TurnExpired(t)
  PROVE  Typed'
<1>1. t \in Tags /\ None \in Tags
  BY DEF Tags
<1>2. send' \in [Sends -> Returns]
  BY DEF Typed, TurnTypes, Returns, InTurn, Finished, SendBegin, TakeTurn, PassFence, FenceGivesUp,
         CallExpires, TurnAnswered, TurnEnded, TurnExpired, Leave
<1>3. call' \in [Sends -> {"none", "writing", "open", "ok", "error"}]
  BY DEF Typed, TurnTypes, SendBegin, TakeTurn, PassFence, FenceGivesUp,
         CallExpires, TurnAnswered, TurnEnded, TurnExpired
<1>4. rpcDone' \in Tags /\ active' \in Tags
  BY <1>1
  DEF Typed, TurnTypes, SendBegin, TakeTurn, PassFence, FenceGivesUp,
      CallExpires, TurnAnswered, TurnEnded, TurnExpired, Leave
<1>5. acc' \in [Sends -> Accs]
  <2>1. acc \in [Sends -> Accs] /\ [acc EXCEPT ![t].sealed = TRUE] \in [Sends -> Accs]
    BY DEF Typed, TurnTypes, Accs
  <2>2. acc' = acc \/ acc' = [acc EXCEPT ![t].sealed = TRUE]
    BY DEF SendBegin, TakeTurn, PassFence, FenceGivesUp, CallExpires, TurnAnswered, TurnEnded,
           TurnExpired, Seal
  <2> QED
    BY <2>1, <2>2
<1>6. publish' \in Seq(Messages)
  <2>1. publish \in Seq(Messages) /\ Result(t) \in Seq(Messages)
    BY ResultTypes DEF Typed, TurnTypes
  <2>2. publish' = publish \/ publish' = Result(t)
    BY DEF SendBegin, TakeTurn, PassFence, FenceGivesUp, CallExpires, TurnAnswered, TurnEnded,
           TurnExpired
  <2> QED
    BY <2>1, <2>2
<1>7. UNCHANGED <<start, perm, pipeVars, endVars, envVars, stop>>
  BY DEF SendBegin, TakeTurn, PassFence, FenceGivesUp, CallExpires, TurnAnswered, TurnEnded,
         TurnExpired, pipeVars, endVars, envVars
<1> QED
  BY <1>2, <1>3, <1>4, <1>5, <1>6, <1>7
  DEF Typed, TurnTypes, PipeTypes, OtherTypes, pipeVars, endVars, envVars

LEMMA WriteTypes ==
  ASSUME Typed, NEW t \in Sends, WritePrompt(t)
  PROVE  Typed'
<1>1. agent' \in Agents
  <2>1. agent \in Agents
    BY DEF Typed, OtherTypes
  <2>2. agent' = agent \/ agent' = [agent EXCEPT !.prompts = Append(@, t)]
    BY DEF WritePrompt
  <2>3. Append(agent.prompts, t) \in Seq(Sends)
    BY <2>1 DEF Agents
  <2> QED
    BY <2>1, <2>2, <2>3 DEF Agents
<1>2. call' \in [Sends -> {"none", "writing", "open", "ok", "error"}]
  BY DEF Typed, TurnTypes, WritePrompt
<1> QED
  BY <1>1, <1>2 DEF Typed, TurnTypes, PipeTypes, OtherTypes, WritePrompt, pipeVars, endVars

\* Publishing takes the first message from publish, if there is one.
LEMMA PublishTypes ==
  ASSUME Typed, NEW t \in Sends, Publish(t), publish # <<>>
  PROVE  Typed'
<1>1. publish \in Seq(Messages) /\ queue \in Seq(Messages) /\ Len(queue) <= QueueSize
  BY DEF Typed, TurnTypes, PipeTypes
<1>2. Tail(publish) \in Seq(Messages) /\ Head(publish) \in Messages
  BY <1>1, TailFacts
<1>3. publish' \in Seq(Messages)
  BY <1>1, <1>2 DEF Publish, Put, Block, Published
<1>4. queue' = queue \/ (queue' = Append(queue, Head(publish)) /\ Len(queue) < QueueSize)
  BY DEF Publish, Put, Block, Published
<1>5. queue' \in Seq(Messages) /\ Len(queue') <= QueueSize
  BY <1>1, <1>2, <1>4, AppendFacts, AcpAssumption
<1>6. send' \in [Sends -> Returns] /\ active' \in Tags
  BY DEF Typed, TurnTypes, Returns, Finished, Tags, Publish, Put, Block, Published, Leave
<1> QED
  BY <1>3, <1>5, <1>6 DEF Typed, TurnTypes, PipeTypes, OtherTypes, Publish, endVars, envVars

LEMMA DispatchTypes ==
  ASSUME Typed, Dispatch
  PROVE  Typed'
<1>1. "dispatcher" \in Emitters /\ PipeTypes
  BY EmitterTypes DEF Typed
<1>2. queue # <<>> /\ queue \in Seq(Messages) /\ out \in Seq(Messages)
  BY DEF Typed, PipeTypes, Dispatch
<1>3. Tail(queue) \in Seq(Messages) /\ Len(Tail(queue)) <= QueueSize /\ Head(queue) \in Messages
  BY <1>1, <1>2, TailFacts, AcpAssumption DEF PipeTypes
<1>4. out' \in Seq(Messages) /\ Len(out') <= OutputBuffer
  <2>1. out' = out \/ (out' = Append(out, Head(queue)) /\ Len(out) < OutputBuffer)
    BY DEF Dispatch
  <2>2. Len(out) <= OutputBuffer
    BY <1>1 DEF PipeTypes
  <2> QED
    BY SMTT(40), <1>2, <1>3, <2>1, <2>2, AppendFacts, AcpAssumption
<1>5. /\ emitting' \in [Emitters -> Emits]
      /\ \A w \in Emitters : emitting'[w] = NoEmit \/ Len(emitting'[w].msgs) = 1
  <2>1. CASE emitting' = emitting
    BY <1>1, <2>1 DEF PipeTypes
  <2>2. CASE emitting' = Emitting("dispatcher", Head(queue))
    BY <1>1, <1>3, <2>2, EmittingTypes
  <2> QED
    BY <2>1, <2>2 DEF Dispatch
<1> QED
  BY <1>3, <1>4, <1>5
  DEF Typed, TurnTypes, PipeTypes, OtherTypes, Dispatch, turnVars, endVars, envVars

\* The ReadLoop and a message for the queue.
LEMMA EnqueueTypes ==
  ASSUME PipeTypes, NEW m \in Messages, Enqueue(m) \/ Wait(m)
  PROVE  /\ queue' \in Seq(Messages) /\ Len(queue') <= QueueSize
         /\ reader' \in [at : Places, msg : Messages]
<1>1. queue' = queue \/ (queue' = Append(queue, m) /\ Len(queue) < QueueSize)
  BY DEF Enqueue, Wait
<1>2. queue' \in Seq(Messages) /\ Len(queue') <= QueueSize
  BY SMTT(40), <1>1, AppendFacts, AcpAssumption DEF PipeTypes
<1> QED
  BY <1>2, MessageTypes DEF Enqueue, Wait, Places

LEMMA LimitType == Limit \in 0..MaxUpdates
  BY AcpAssumption DEF Limit

\* The three things an update does: nothing, if it is no delta; or it is sent for
\* the agent's turn, and kept by the active turn or not.
Unheard == UNCHANGED <<acc, spoke>>
Spoken  == spoke' = [spoke EXCEPT ![Current] = @ \cup {updates + 1}]
Dropped == (active = None \/ acc[active].sealed \/ Full(active)) /\ UNCHANGED acc
Kept    == /\ active # None /\ ~acc[active].sealed /\ ~Full(active)
           /\ acc' = [acc EXCEPT ![active].heard = @ \cup {updates + 1}]

LEMMA ReadUpdateKinds ==
  ASSUME ReadUpdate
  PROVE  Unheard \/ (Spoken /\ (Dropped \/ Kept))
  BY DEF ReadUpdate, Observe, Unheard, Spoken, Dropped, Kept

LEMMA ReadUpdateTypes ==
  ASSUME Typed, ReadUpdate
  PROVE  Typed'
<1>1. Current \in Tags /\ Msg("update", Current) \in Messages
  BY CurrentType, MessageTypes DEF Typed, OtherTypes
<1>2. /\ queue' \in Seq(Messages) /\ Len(queue') <= QueueSize
      /\ reader' \in [at : Places, msg : Messages]
  BY <1>1, EnqueueTypes DEF Typed, ReadUpdate
<1>3. updates' \in 0..MaxUpdates
  BY LimitType, AcpAssumption DEF Typed, OtherTypes, ReadUpdate
<1>4. updates + 1 \in 1..MaxUpdates
  BY LimitType, AcpAssumption DEF Typed, OtherTypes, ReadUpdate
<1>5. acc' \in [Sends -> Accs]
  <2>1. acc \in [Sends -> Accs] /\ active \in Tags
    BY DEF Typed, TurnTypes
  <2>2. CASE Kept
    BY <1>4, <2>1, <2>2 DEF Kept, Accs, Tags
  <2> QED
    BY <2>1, <2>2, ReadUpdateKinds DEF Unheard, Dropped
<1>6. spoke' \in [Tags -> SUBSET (1..MaxUpdates)]
  BY <1>1, <1>4, ReadUpdateKinds DEF Typed, OtherTypes, Unheard, Spoken
<1> QED
  BY <1>2, <1>3, <1>5, <1>6 DEF Typed, TurnTypes, PipeTypes, OtherTypes, ReadUpdate, endVars

LEMMA UpdateQueuedTypes ==
  ASSUME Typed, UpdateQueued
  PROVE  Typed'
<1>1. reader.msg \in Messages
  BY DEF Typed, PipeTypes
<1>2. /\ queue' \in Seq(Messages) /\ Len(queue') <= QueueSize
      /\ reader' \in [at : Places, msg : Messages]
  BY <1>1, EnqueueTypes DEF Typed, UpdateQueued
<1> QED
  BY <1>2 DEF Typed, TurnTypes, PipeTypes, OtherTypes, UpdateQueued, turnVars, endVars, envVars

LEMMA ReadGarbageTypes ==
  ASSUME Typed, ReadGarbage
  PROVE  Typed'
<1>1. "reader" \in Emitters /\ PipeTypes /\ Error \in Messages
  BY EmitterTypes, MessageTypes DEF Typed
<1>2. /\ emitting' \in [Emitters -> Emits]
      /\ \A w \in Emitters : emitting'[w] = NoEmit \/ Len(emitting'[w].msgs) = 1
  BY <1>1, EmittingTypes DEF ReadGarbage
<1>3. updates' \in 0..MaxUpdates
  BY LimitType, AcpAssumption DEF Typed, OtherTypes, ReadGarbage
<1> QED
  BY <1>2, <1>3 DEF Typed, TurnTypes, PipeTypes, OtherTypes, ReadGarbage, turnVars, endVars

LEMMA ReadAnswerTypes ==
  ASSUME Typed, ReadAnswer
  PROVE  Typed'
<1>1. agent' \in Agents
  <2>1. agent \in Agents /\ agent.prompts # <<>>
    BY DEF Typed, OtherTypes, ReadAnswer
  <2>2. Tail(agent.prompts) \in Seq(Sends)
    BY <2>1 DEF Agents
  <2> QED
    BY <2>1, <2>2 DEF Agents, ReadAnswer
<1>2. call' \in [Sends -> {"none", "writing", "open", "ok", "error"}]
  BY DEF Typed, TurnTypes, ReadAnswer
<1> QED
  BY <1>1, <1>2 DEF Typed, TurnTypes, PipeTypes, OtherTypes, ReadAnswer, pipeVars, endVars

LEMMA PermissionTypes ==
  ASSUME Typed, NEW r \in Perms, ReadPermission(r) \/ PermissionLoads(r) \/ PermissionDecided(r)
  PROVE  Typed'
<1>1. Current \in Tags /\ active \in Tags /\ r \in Emitters
  BY CurrentType, EmitterTypes DEF Typed, TurnTypes, OtherTypes
<1>2. /\ perm \in [Perms -> PermAts] /\ acc \in [Sends -> Accs]
      /\ \A q \in Perms : perm[q].at = "deciding" => perm[q].by \in Sends
  BY DEF Typed, TurnTypes
<1>3. /\ perm' \in [Perms -> PermAts]
      /\ \A q \in Perms : perm'[q].at = "deciding" => perm'[q].by \in Sends
  <2>1. CASE ReadPermission(r)
    BY <1>1, <1>2, <2>1 DEF PermAts, ReadPermission
  <2>2. CASE PermissionLoads(r)
    BY ZenonT(60), <1>1, <1>2, <2>2 DEF PermAts, PermissionLoads, Tags
  <2>3. CASE PermissionDecided(r)
    BY <1>1, <1>2, <2>3 DEF PermAts, PermissionDecided
  <2> QED
    BY <2>1, <2>2, <2>3
<1>4. acc' \in [Sends -> Accs]
  <2>1. CASE acc' = acc
    BY <1>2, <2>1
  <2>2. CASE perm[r].at = "deciding" /\ Deny(r)
    <3>1. perm[r].by \in Sends
      BY <2>2 DEF Typed, TurnTypes
    <3> QED
      BY <1>2, <2>2, <3>1 DEF Deny, Accs
  <2> QED
    BY <2>1, <2>2 DEF ReadPermission, PermissionLoads, PermissionDecided, turnVars
<1>5. /\ emitting' \in [Emitters -> Emits]
      /\ \A w \in Emitters : emitting'[w] = NoEmit \/ Len(emitting'[w].msgs) = 1
  <2>1. CASE emitting' = emitting
    BY <2>1 DEF Typed, PipeTypes
  <2>2. CASE emitting' = Emitting(r, Error)
    BY <1>1, <2>2, MessageTypes, EmittingTypes DEF Typed
  <2> QED
    BY <2>1, <2>2 DEF ReadPermission, PermissionLoads, PermissionDecided, pipeVars
<1> QED
  BY <1>3, <1>4, <1>5
  DEF Typed, TurnTypes, PipeTypes, OtherTypes, ReadPermission, PermissionLoads,
      PermissionDecided, turnVars, pipeVars, endVars, envVars

LEMMA ReadEndsTypes ==
  ASSUME Typed, EndOfFile \/ ReadFails
  PROVE  Typed'
<1>1. reader' \in [at : Places, msg : Messages]
  BY DEF Typed, PipeTypes, Places, EndOfFile, ReadFails, ReadEnds
<1>2. call' \in [Sends -> {"none", "writing", "open", "ok", "error"}]
  BY DEF Typed, TurnTypes, EndOfFile, ReadFails, ReadEnds
<1> QED
  BY <1>1, <1>2
  DEF Typed, TurnTypes, PipeTypes, OtherTypes, EndOfFile, ReadFails, ReadEnds, envVars

LEMMA FinishTypes ==
  ASSUME Typed, CloseQueue \/ Drained \/ FinishDone \/ FinishOutput
  PROVE  Typed'
<1>1. reader' \in [at : Places, msg : Messages]
  BY DEF Typed, PipeTypes, Places, CloseQueue, Drained, FinishDone, FinishOutput
<1>2. agent' \in Agents
  BY DEF Typed, OtherTypes, Agents, CloseQueue, Drained, FinishDone, FinishOutput, envVars
<1>3. termErr' \in {"nil", "exit", "reader", "terminated"}
  BY DEF Typed, OtherTypes, CloseQueue, Drained, FinishDone, FinishOutput, endVars, Verdict
<1>4. TurnTypes'
  BY DEF Typed, TurnTypes, CloseQueue, Drained, FinishDone, FinishOutput, turnVars
<1>5. PipeTypes'
  BY <1>1 DEF Typed, PipeTypes, CloseQueue, Drained, FinishDone, FinishOutput
<1>6. OtherTypes'
  BY <1>2, <1>3
  DEF Typed, OtherTypes, CloseQueue, Drained, FinishDone, FinishOutput, endVars, envVars
<1> QED
  BY <1>4, <1>5, <1>6 DEF Typed

LEMMA ReceiveTypes ==
  ASSUME Typed, Receive
  PROVE  Typed'
<1>1. out \in Seq(Messages) /\ out # <<>> /\ Len(out) <= OutputBuffer
  BY DEF Typed, PipeTypes, Receive
<1>2. out' \in Seq(Messages) /\ Len(out') <= OutputBuffer
  BY <1>1, TailFacts, AcpAssumption DEF Receive
<1> QED
  BY <1>2 DEF Typed, TurnTypes, PipeTypes, OtherTypes, Receive, turnVars, endVars, envVars

LEMMA StopTypes ==
  ASSUME Typed,
         StopBegin \/ StopStep \/ AgentExits \/ StopListening \/ DispatchEnds
           \/ (\E t \in Sends : Expire(t))
  PROVE  Typed'
<1>1. agent' \in Agents
  BY DEF Typed, OtherTypes, Agents, StopBegin, StopStep, StopSignal, StopKill, StopReturn,
         AgentExits, StopListening, DispatchEnds, Expire, envVars
<1>2. expired' \subseteq Sends
  BY DEF Typed, OtherTypes, StopBegin, StopStep, StopSignal, StopKill, StopReturn,
         AgentExits, StopListening, DispatchEnds, Expire, envVars
<1>3. TurnTypes' /\ PipeTypes'
  BY DEF Typed, TurnTypes, PipeTypes, StopBegin, StopStep, StopSignal, StopKill, StopReturn,
         AgentExits, StopListening, DispatchEnds, Expire, turnVars, pipeVars
<1>4. OtherTypes'
  BY <1>1, <1>2
  DEF Typed, OtherTypes, StopBegin, StopStep, StopSignal, StopKill, StopReturn,
      AgentExits, StopListening, DispatchEnds, Expire, pipeVars, endVars, envVars
<1> QED
  BY <1>3, <1>4 DEF Typed

LEMMA TypesStep ==
  ASSUME Typed, Turns, [Next]_vars
  PROVE  Typed'
<1>1. CASE UNCHANGED vars
  BY <1>1
  DEF Typed, TurnTypes, PipeTypes, OtherTypes, vars, turnVars, pipeVars, endVars, envVars
<1>2. CASE \E t \in Sends : Publish(t)
  <2>1. PICK t \in Sends : Publish(t)
    BY <1>2
  <2>2. publish # <<>>
    BY <2>1 DEF Turns, Publish
  <2> QED
    BY <2>1, <2>2, PublishTypes
<1> QED
  BY <1>1, <1>2, EmitterTypes, EmitTypes, HandshakeTypes, TurnStepTypes, WriteTypes, DispatchTypes,
     ReadUpdateTypes, UpdateQueuedTypes, ReadGarbageTypes, ReadAnswerTypes, PermissionTypes,
     ReadEndsTypes, FinishTypes, ReceiveTypes, StopTypes
  DEF Next, StartStep, SendStep, ReaderStep, DispatcherStep

-----------------------------------------------------------------------------
(* The mutexes and the end of the session.                                 *)

\* What a step does to outputMu: a call of emit does not take it yet.
LEMMA OutputMuMoves ==
  ASSUME Typed, [Next]_vars, \A w \in Emitters : ~Emit(w)
  PROVE  \A v \in Emitters : emitting'[v].blocked = emitting[v].blocked
<1>1. ASSUME NEW w \in Emitters, NEW m \in Messages, emitting' = Emitting(w, m)
      PROVE  \A v \in Emitters : emitting'[v].blocked = emitting[v].blocked
  BY <1>1 DEF Typed, PipeTypes, Emits, Emitting
<1>2. CASE UNCHANGED emitting
  BY <1>2
<1>3. CASE Dispatch
  <2>1. queue # <<>> /\ queue \in Seq(Messages)
    BY <1>3 DEF Dispatch, Typed, PipeTypes
  <2>2. "dispatcher" \in Emitters /\ Head(queue) \in Messages
    BY <2>1, EmitterTypes, TailFacts
  <2> QED
    BY <1>1, <1>2, <1>3, <2>2 DEF Dispatch
<1>4. CASE HandshakeAnswered \/ ConfigFails
  BY <1>1, <1>2, <1>4, EmitterTypes, MessageTypes DEF HandshakeAnswered, ConfigFails
<1>5. CASE ReadGarbage
  BY <1>1, <1>5, EmitterTypes, MessageTypes DEF ReadGarbage
<1>6. CASE \E r \in Perms : PermissionDecided(r)
  BY <1>1, <1>2, <1>6, EmitterTypes, MessageTypes DEF PermissionDecided
<1>7. CASE \E t \in Sends : SendBegin(t) \/ SendStep(t) \/ Expire(t)
  BY <1>2, <1>7
  DEF SendBegin, SendStep, Expire, TakeTurn, PassFence, FenceGivesUp, TurnAnswered, TurnEnded,
      TurnExpired, Publish, WritePrompt, CallExpires, pipeVars
<1>8. CASE StartStep
  BY <1>2, <1>4, <1>8, EmitterTypes
  DEF StartStep, Validate, HandshakeFails, HandshakeEmitted, Kill, Killed, pipeVars
<1>9. CASE ReaderStep
  BY <1>2, <1>9, EmitterTypes
  DEF ReaderStep, UpdateQueued, EndOfFile, ReadEnds, CloseQueue, Drained, FinishDone, FinishOutput
<1>10. CASE StopStep \/ StopBegin \/ Receive \/ StopListening \/ AgentExits \/ UNCHANGED vars
  BY <1>2, <1>10
  DEF StopStep, StopSignal, StopKill, StopReturn, StopBegin, Receive, StopListening, AgentExits,
      vars, pipeVars
<1>11. CASE ReadUpdate \/ ReadAnswer \/ ReadFails \/ DispatchEnds
             \/ (\E r \in Perms : ReadPermission(r) \/ PermissionLoads(r))
  BY <1>2, <1>11
  DEF ReadUpdate, ReadAnswer, ReadFails, ReadEnds, DispatchEnds, ReadPermission, PermissionLoads,
      pipeVars
<1> QED
  BY <1>3, <1>4, <1>5, <1>6, <1>7, <1>8, <1>9, <1>10, <1>11, EmitterTypes DEF Next, DispatcherStep

\* emit takes outputMu when it is free and the channel open; who has it keeps
\* it or releases it.
LEMMA EmitMu ==
  ASSUME Typed, NEW w \in Emitters, Emit(w)
  PROVE  /\ \A v \in Emitters : v # w => emitting'[v] = emitting[v]
         /\ emitting'[w].blocked => OutputMuFree /\ ~outClosed
         /\ outClosed' = outClosed
<1>1. PICK b \in {NoEmit, [emitting[w] EXCEPT !.blocked = TRUE]} : emitting' = [emitting EXCEPT ![w] = b]
  BY DEF Emit, EmitFirst, EmitBlocked, Deliver, Typed, PipeTypes, Emits
<1>2. emitting'[w].blocked =>
        /\ OutputMuFree /\ ~outClosed
  BY DEF Emit, EmitFirst, EmitBlocked, Deliver, Typed, PipeTypes, NoEmit
<1> QED
  BY <1>1, <1>2 DEF Emit, Typed, PipeTypes

\* updateMu is taken by a Send that publishes, which lets it go when it moves on.
LEMMA UpdateMuMoves ==
  ASSUME Typed, Mutexes, [Next]_vars
  PROVE  /\ updateMu' \in Tags
         /\ updateMu' # None => send'[updateMu'] = "publishing"
         /\ queueClosed /\ updateMu = None => updateMu' = None
<1>1. CASE UNCHANGED <<send, updateMu>>
  BY <1>1 DEF Mutexes
<1>2. ASSUME NEW t \in Sends, Publish(t)
      PROVE  /\ updateMu' \in Tags
             /\ updateMu' # None => send'[updateMu'] = "publishing"
             /\ queueClosed /\ updateMu = None => updateMu' = None
  BY <1>2 DEF Publish, Put, Block, Published, Mutexes, Tags
<1>3. ASSUME NEW t \in Sends, send[t] # "publishing", UNCHANGED updateMu,
             \A u \in Sends : u # t => send'[u] = send[u]
      PROVE  /\ updateMu' \in Tags
             /\ updateMu' # None => send'[updateMu'] = "publishing"
             /\ queueClosed /\ updateMu = None => updateMu' = None
  BY <1>3 DEF Mutexes, Tags
<1>4. ASSUME NEW t \in Sends, SendBegin(t) \/ SendStep(t) \/ Expire(t)
      PROVE  \/ Publish(t) \/ UNCHANGED <<send, updateMu>>
             \/ /\ send[t] # "publishing" /\ UNCHANGED updateMu
                /\ \A u \in Sends : u # t => send'[u] = send[u]
  BY <1>4
  DEF Typed, TurnTypes, SendBegin, SendStep, Expire, TakeTurn, PassFence, FenceGivesUp,
      TurnAnswered, TurnEnded, TurnExpired, Leave, WritePrompt, CallExpires, turnVars
<1>5. CASE StartStep \/ ReaderStep \/ DispatcherStep \/ StopStep
  BY <1>1, <1>5
  DEF StartStep, ReaderStep, DispatcherStep, StopStep, Validate, HandshakeFails, ConfigFails,
      HandshakeEmitted, Kill, Killed, Emit, UpdateQueued, EndOfFile, ReadEnds, CloseQueue, Drained,
      FinishDone, FinishOutput, Dispatch, DispatchEnds, StopSignal, StopKill, StopReturn, turnVars
<1>6. CASE HandshakeAnswered \/ ReadUpdate \/ ReadGarbage \/ ReadAnswer \/ ReadFails \/ StopBegin
             \/ Receive \/ StopListening \/ AgentExits \/ UNCHANGED vars
             \/ (\E r \in Perms :
                   ReadPermission(r) \/ PermissionLoads(r) \/ PermissionDecided(r) \/ Emit(r))
  BY <1>1, <1>6
  DEF HandshakeAnswered, ReadUpdate, ReadGarbage, ReadAnswer, ReadFails, ReadEnds, StopBegin,
      Receive, StopListening, AgentExits, ReadPermission, PermissionLoads, PermissionDecided, Emit,
      vars, turnVars
<1> QED
  BY <1>1, <1>2, <1>3, <1>4, <1>5, <1>6 DEF Next

LEMMA MutexesStep ==
  ASSUME Typed, Mutexes, [Next]_vars
  PROVE  Mutexes'
<1>1. \A v, w \in Emitters : emitting'[v].blocked /\ emitting'[w].blocked => v = w
  <2>1. CASE \A w \in Emitters : ~Emit(w)
    BY <2>1, OutputMuMoves DEF Mutexes
  <2>2. CASE \E w \in Emitters : Emit(w)
    BY <2>2, EmitMu DEF Mutexes, OutputMuFree
  <2> QED
    BY <2>1, <2>2
<1> QED
  BY <1>1, UpdateMuMoves DEF Mutexes

\* The places of the ReadLoop that matter to the end of the session change in
\* three steps, and what follows the place changes with it.
LEMMA FinishMoves ==
  ASSUME Typed, [Next]_vars, ~CloseQueue, ~FinishDone, ~FinishOutput
  PROVE  /\ UNCHANGED <<done, termErr, outClosed, queueClosed>>
         /\ \/ reader'.at = reader.at
            \/ {reader.at, reader'.at} \subseteq {"reading", "queueing", "closing"}
            \/ reader.at = "draining" /\ reader'.at = "reaping"
<1>1. CASE UNCHANGED <<reader, done, termErr, outClosed, queueClosed>>
  BY <1>1
<1>2. CASE ReadUpdate \/ UpdateQueued
  BY <1>2 DEF ReadUpdate, UpdateQueued, Enqueue, Wait, Reading, endVars
<1>3. CASE EndOfFile \/ ReadFails
  BY <1>3 DEF Typed, PipeTypes, EndOfFile, ReadFails, ReadEnds, Reading
<1>4. CASE Drained
  BY <1>4 DEF Typed, PipeTypes, Drained, endVars
<1>5. CASE StartStep \/ StopStep \/ StopBegin \/ Receive \/ StopListening \/ AgentExits \/ UNCHANGED vars
  BY <1>1, <1>5
  DEF StartStep, StopStep, Validate, HandshakeFails, ConfigFails, HandshakeEmitted, Kill, Killed,
      Emit, StopSignal, StopKill, StopReturn, StopBegin, Receive, StopListening, AgentExits, vars,
      pipeVars, endVars
<1>6. CASE \E t \in Sends : SendBegin(t) \/ SendStep(t) \/ Expire(t)
  BY <1>1, <1>6
  DEF SendBegin, SendStep, Expire, TakeTurn, PassFence, FenceGivesUp, TurnAnswered, TurnEnded,
      TurnExpired, Publish, WritePrompt, CallExpires, pipeVars, endVars
<1>7. CASE DispatcherStep \/ HandshakeAnswered \/ ReadGarbage \/ ReadAnswer \/ Emit("reader")
             \/ (\E r \in Perms :
                   ReadPermission(r) \/ PermissionLoads(r) \/ PermissionDecided(r) \/ Emit(r))
  BY <1>1, <1>7
  DEF DispatcherStep, Dispatch, DispatchEnds, Emit, HandshakeAnswered, ReadGarbage, ReadAnswer,
      ReadPermission, PermissionLoads, PermissionDecided, pipeVars, endVars
<1> QED
  BY <1>1, <1>2, <1>3, <1>4, <1>5, <1>6, <1>7 DEF Next, ReaderStep

LEMMA EndsStep ==
  ASSUME Typed, Mutexes, Ends, [Next]_vars
  PROVE  Ends'
<1>1. (outClosed => OutputMuFree)'
  <2>1. CASE \A w \in Emitters : ~Emit(w)
    <3>1. OutputMuFree' <=> OutputMuFree
      BY <2>1, OutputMuMoves DEF OutputMuFree
    <3>2. outClosed' => outClosed \/ OutputMuFree
      BY FinishMoves DEF CloseQueue, FinishDone, FinishOutput
    <3> QED
      BY <3>1, <3>2 DEF Ends
  <2>2. CASE \E w \in Emitters : Emit(w)
    BY <2>2, EmitMu DEF Ends, OutputMuFree
  <2> QED
    BY <2>1, <2>2
<1>2. (queueClosed => updateMu = None)'
  <2>1. CASE CloseQueue
    BY <2>1 DEF CloseQueue, turnVars
  <2>2. CASE ~CloseQueue
    BY <2>2, UpdateMuMoves, FinishMoves DEF Ends, FinishDone, FinishOutput
  <2> QED
    BY <2>1, <2>2
<1>3. CASE CloseQueue
  BY <1>1, <1>2, <1>3 DEF Typed, PipeTypes, OtherTypes, Ends, CloseQueue, endVars
<1>4. CASE FinishDone
  BY <1>1, <1>2, <1>4 DEF Typed, PipeTypes, OtherTypes, Ends, FinishDone
<1>5. CASE FinishOutput
  BY <1>1, <1>2, <1>5 DEF Typed, PipeTypes, OtherTypes, Ends, FinishOutput, endVars
<1> QED
  BY <1>1, <1>2, <1>3, <1>4, <1>5, FinishMoves DEF Ends

-----------------------------------------------------------------------------
(* Turns.                                                                  *)

\* What a Send in its turn may publish.
Published1(t) == <<Msg("result", t)>>
Published2(t) == <<Msg("synthesized", t), Msg("result", t)>>

LEMMA PublishForms ==
  ASSUME NEW t \in Sends
  PROVE  /\ Len(Published1(t)) = 1 /\ Head(Published1(t)) = Msg("result", t)
         /\ Len(Published2(t)) = 2 /\ Head(Published2(t)) = Msg("synthesized", t)
         /\ Tail(Published2(t)) = Published1(t) /\ Tail(Published1(t)) = <<>>
  BY DEF Published1, Published2

\* A Send that is not in a turn, and one that leaves it.
LEMMA OutsideTurn ==
  ASSUME Typed, Turns, NEW t \in Sends,
         SendBegin(t) \/ TakeTurn(t) \/ FenceGivesUp(t)
  PROVE  Turns'
<1>1. /\ \A u \in Sends : u # t => send'[u] = send[u]
      /\ send[t] \in {"idle", "locking", "fence"}
      /\ send'[t] \in {"locking", "invalid", "terminated", "expired"} \/ (send'[t] = "fence" /\ TurnMuFree)
      /\ UNCHANGED <<call, active, acc, publish, done>>
  BY DEF Typed, TurnTypes, Returns, InTurn, Finished, SendBegin, TakeTurn, FenceGivesUp, endVars
<1>2. \A u, v \in Sends : send'[u] \in InTurn /\ send'[v] \in InTurn => u = v
  BY <1>1 DEF Turns, InTurn, TurnMuFree
<1>3. active' # None => send'[active'] \in {"waiting", "publishing"}
  BY <1>1 DEF Typed, TurnTypes, Turns, Tags
<1>4. call[t] = "none"
  BY <1>1 DEF Turns
<1> QED
  BY <1>1, <1>2, <1>3, <1>4 DEF Turns

LEMMA PassFenceTurns ==
  ASSUME Typed, Turns, NEW t \in Sends, PassFence(t)
  PROVE  Turns'
<1>1. /\ \A u \in Sends : u # t => send'[u] = send[u] /\ call'[u] = call[u]
      /\ send[t] = "fence" /\ send'[t] = "waiting" /\ call'[t] = "writing"
      /\ active' = t /\ UNCHANGED <<acc, publish, done>>
  BY DEF Typed, TurnTypes, PassFence, endVars
<1>2. \A u \in Sends : u # t => send[u] \notin InTurn
  BY <1>1 DEF Turns, InTurn
<1> QED
  BY <1>1, <1>2 DEF Turns, InTurn

\* The way out of a turn, and the way on to publishing.
LEMMA WaitingTurns ==
  ASSUME Typed, Turns, NEW t \in Sends, TurnAnswered(t) \/ TurnEnded(t) \/ TurnExpired(t)
  PROVE  Turns'
<1>1. /\ \A u \in Sends : u # t => send'[u] = send[u] /\ acc'[u] = acc[u]
      /\ send[t] = "waiting" /\ acc'[t].sealed
      /\ UNCHANGED <<call, done>>
  BY DEF Typed, TurnTypes, Accs, TurnAnswered, TurnEnded, TurnExpired, Leave, Seal, endVars
<1>2. \A u \in Sends : u # t => send[u] \notin InTurn
  BY <1>1 DEF Turns, InTurn
<1>3. CASE send'[t] = "publishing" /\ call[t] = "ok" /\ active' = active /\ publish' = Result(t)
  BY <1>1, <1>2, <1>3 DEF Turns, InTurn, Result
<1>4. CASE /\ active' = None /\ publish' = publish
           /\ \/ send'[t] = "ok" /\ call[t] = "ok"
              \/ send'[t] \in {"failed", "expired"}
              \/ send'[t] = "terminated" /\ done
  <2>1. publish = <<>>
    BY <1>1, <1>2 DEF Turns, InTurn
  <2> QED
    BY <1>1, <1>2, <1>4, <2>1 DEF Turns, InTurn
<1> QED
  BY <1>3, <1>4 DEF Typed, TurnTypes, TurnAnswered, TurnEnded, TurnExpired, Leave

LEMMA PublishTurns ==
  ASSUME Typed, Turns, NEW t \in Sends, Publish(t)
  PROVE  Turns'
<1>1. /\ send[t] = "publishing" /\ acc[t].sealed /\ call[t] = "ok"
      /\ \A u \in Sends : u # t => send[u] \notin InTurn
      /\ publish = Published1(t) \/ publish = Published2(t)
  BY DEF Turns, InTurn, Publish, Published1, Published2
<1>2. UNCHANGED <<call, acc, done>>
  BY DEF Publish, endVars
<1>3. CASE UNCHANGED <<send, active, publish>>
  BY <1>2, <1>3 DEF Turns
<1>4. CASE Published(t)
  <2>1. CASE publish = Published1(t)
    <3>1. send' = [send EXCEPT ![t] = "ok"] /\ active' = None /\ publish' = <<>>
      BY <1>4, <2>1, PublishForms DEF Published, Leave
    <3> QED
      BY <1>1, <1>2, <3>1 DEF Typed, TurnTypes, Turns, InTurn
  <2>2. CASE publish = Published2(t)
    <3>1. send' = send /\ active' = active /\ publish' = Published1(t)
      BY <1>4, <2>2, PublishForms DEF Published
    <3> QED
      BY <1>1, <1>2, <3>1 DEF Turns, InTurn, Published1
  <2> QED
    BY <1>1, <2>1, <2>2
<1> QED
  BY <1>3, <1>4 DEF Publish, Put, Block

\* Calls that are written, answered or given up, whatever Send does.
LEMMA CallTurns ==
  ASSUME Typed, Turns,
         UNCHANGED <<send, active, acc, publish>>, done => done',
         \A u \in Sends : call'[u] = call[u] \/ (call[u] \in {"writing", "open"} /\ call'[u] # "none")
  PROVE  Turns'
  BY DEF Typed, TurnTypes, Turns

\* The collectors, which nobody but the turn seals.
LEMMA AccTurns ==
  ASSUME Typed, Turns, UNCHANGED <<send, active, call, publish, done>>,
         \A u \in Sends : acc'[u].sealed = acc[u].sealed
  PROVE  Turns'
  BY DEF Typed, TurnTypes, Turns

\* Nothing else concerns turns, but that the session ends.
LEMMA OtherTurns ==
  ASSUME Typed, Ends, [Next]_vars,
         \A t \in Sends : ~(SendBegin(t) \/ SendStep(t)),
         ~ReadUpdate, ~ReadAnswer, ~EndOfFile, ~ReadFails,
         \A r \in Perms : ~PermissionDecided(r)
  PROVE  UNCHANGED turnVars /\ (done => done')
<1>1. CASE UNCHANGED vars
  BY <1>1 DEF vars, endVars
<1>2. CASE StartStep \/ HandshakeAnswered
  BY <1>2
  DEF StartStep, HandshakeAnswered, Validate, HandshakeFails, ConfigFails, HandshakeEmitted, Kill,
      Killed, Emit, endVars
<1>3. CASE StopStep \/ StopBegin \/ Receive \/ StopListening \/ AgentExits
             \/ (\E t \in Sends : Expire(t))
  BY <1>3
  DEF StopStep, StopSignal, StopKill, StopReturn, StopBegin, Receive, StopListening, AgentExits,
      Expire, endVars
<1>4. CASE ReaderStep \/ ReadGarbage
  BY <1>4
  DEF ReaderStep, UpdateQueued, Emit, CloseQueue, Drained, FinishDone, FinishOutput, ReadGarbage,
      endVars
<1>5. CASE \E w \in Emitters : Emit(w)
  BY <1>5 DEF Emit, endVars
<1>6. CASE Dispatch \/ DispatchEnds
  BY <1>6 DEF Dispatch, DispatchEnds, endVars
<1>7. CASE \E r \in Perms : ReadPermission(r) \/ PermissionLoads(r)
  BY <1>7 DEF ReadPermission, PermissionLoads, endVars
<1> QED
  BY <1>1, <1>2, <1>3, <1>4, <1>5, <1>6, <1>7, EmitterTypes DEF Next, DispatcherStep

LEMMA TurnsStep ==
  ASSUME Typed, Ends, Turns, [Next]_vars
  PROVE  Turns'
<1>1. CASE \E t \in Sends : WritePrompt(t) \/ CallExpires(t)
  <2>1. /\ UNCHANGED <<send, active, acc, publish>>
        /\ done => done'
        /\ \A u \in Sends : call'[u] = call[u] \/ (call[u] \in {"writing", "open"} /\ call'[u] # "none")
    BY <1>1 DEF Typed, TurnTypes, WritePrompt, CallExpires, endVars
  <2> QED
    BY <2>1, CallTurns
<1>2. CASE ReadAnswer
  <2>1. Current \in Sends
    BY <1>2, CurrentType DEF Typed, OtherTypes, ReadAnswer
  <2>2. /\ UNCHANGED <<send, active, acc, publish>>
        /\ done => done'
        /\ \A u \in Sends : call'[u] = call[u] \/ (call[u] \in {"writing", "open"} /\ call'[u] # "none")
    BY <1>2, <2>1 DEF Typed, TurnTypes, ReadAnswer, endVars
  <2> QED
    BY <2>2, CallTurns
<1>3. CASE EndOfFile \/ ReadFails
  <2>1. /\ UNCHANGED <<send, active, acc, publish>>
        /\ done => done'
        /\ \A u \in Sends : call'[u] = call[u] \/ (call[u] \in {"writing", "open"} /\ call'[u] # "none")
    BY <1>3 DEF Typed, TurnTypes, EndOfFile, ReadFails, ReadEnds
  <2> QED
    BY <2>1, CallTurns
<1>4. CASE ReadUpdate
  BY <1>4, ReadUpdateKinds, AccTurns
  DEF Typed, TurnTypes, Accs, Tags, ReadUpdate, Unheard, Dropped, Kept, endVars
<1>5. CASE \E r \in Perms : PermissionDecided(r)
  BY <1>5, AccTurns DEF Typed, TurnTypes, Accs, PermissionDecided, Deny, endVars
<1>6. CASE UNCHANGED turnVars /\ (done => done')
  BY <1>6 DEF turnVars, Turns
<1> QED
  BY <1>1, <1>2, <1>3, <1>4, <1>5, <1>6, OutsideTurn, PassFenceTurns, WaitingTurns, PublishTurns,
     OtherTurns
  DEF SendStep

-----------------------------------------------------------------------------
(* What the agent has to answer.                                           *)

LEMMA WritePrompts ==
  ASSUME Typed, Prompts, NEW t \in Sends, WritePrompt(t)
  PROVE  Prompts'
<1>1. agent.prompts \in Seq(Sends) /\ call[t] = "writing"
  BY DEF Typed, OtherTypes, Agents, WritePrompt
<1>2. \A u \in Sends : u # t => call'[u] = call[u]
  BY DEF Typed, TurnTypes, WritePrompt
<1>3. \A i \in DOMAIN agent.prompts : agent.prompts[i] \in Sends /\ agent.prompts[i] # t
  BY <1>1 DEF Prompts
<1>4. CASE agent'.prompts = Append(agent.prompts, t) /\ call'[t] = "open"
  BY <1>1, <1>2, <1>3, <1>4 DEF Prompts
<1>5. CASE agent' = agent
  BY <1>2, <1>3, <1>5 DEF Prompts
<1> QED
  BY <1>4, <1>5 DEF Typed, TurnTypes, OtherTypes, Agents, WritePrompt

\* The answered Call is of the first prompt, which is in the sequence once.
LEMMA AnswerPrompts ==
  ASSUME Typed, Prompts, ReadAnswer
  PROVE  /\ Prompts'
         /\ Current \in Sends
         /\ \A u \in Sends : u # Current => call'[u] = call[u]
         /\ call'[Current] # "writing" /\ call'[Current] # "none"
         /\ \A i \in DOMAIN agent'.prompts : agent'.prompts[i] # Current
<1> PICK c \in Sends : c = Current /\ c = agent.prompts[1]
  BY CurrentType DEF Typed, OtherTypes, ReadAnswer
<1>1. agent.prompts \in Seq(Sends) /\ agent.prompts # <<>> /\ agent'.prompts = Tail(agent.prompts)
  BY DEF Typed, OtherTypes, Agents, ReadAnswer
<1>2. /\ \A i \in DOMAIN Tail(agent.prompts) :
           /\ i + 1 \in DOMAIN agent.prompts /\ Tail(agent.prompts)[i] = agent.prompts[i + 1]
           /\ agent.prompts[i + 1] \in Sends /\ i + 1 # 1
      /\ 1 \in DOMAIN agent.prompts
      /\ \A i, j \in DOMAIN Tail(agent.prompts) : i + 1 = j + 1 => i = j
  BY <1>1
<1>3. \A i \in DOMAIN agent'.prompts : agent'.prompts[i] # c
  BY <1>1, <1>2 DEF Prompts
<1>4. (\A u \in Sends : u # c => call'[u] = call[u]) /\ (call'[c] = call[c] \/ call'[c] \in {"ok", "error"})
  BY DEF Typed, TurnTypes, ReadAnswer
<1>5. call[c] \in {"open", "error"}
  BY <1>2 DEF Prompts
<1>6. Prompts'
  BY <1>1, <1>2, <1>3, <1>4 DEF Prompts
<1> QED
  BY <1>3, <1>4, <1>5, <1>6

\* Other steps leave the prompts, and move only Calls nobody answers.
LEMMA OtherPrompts ==
  ASSUME Typed, [Next]_vars, \A t \in Sends : ~WritePrompt(t), ~ReadAnswer
  PROVE  /\ agent'.prompts = agent.prompts
         /\ \A u \in Sends : \/ call'[u] = call[u]
                             \/ call[u] = "open" /\ call'[u] = "error"
                             \/ call'[u] = "writing" /\ PassFence(u)
<1>1. CASE UNCHANGED <<agent, call>>
  BY <1>1
<1>2. CASE Kill \/ Drained \/ StopKill \/ AgentExits
  <2>1. agent.prompts \in Seq(Sends) /\ UNCHANGED call
    BY <1>2 DEF Typed, OtherTypes, Agents, Kill, Drained, StopKill, AgentExits, turnVars
  <2>2. agent'.prompts = agent.prompts
    BY <1>2 DEF Typed, OtherTypes, Agents, Kill, Drained, StopKill, AgentExits
  <2> QED
    BY <2>1, <2>2
<1>3. CASE EndOfFile \/ ReadFails
  BY <1>3 DEF Typed, TurnTypes, EndOfFile, ReadFails, ReadEnds, envVars
<1>4. CASE \E t \in Sends : CallExpires(t) \/ PassFence(t)
  BY <1>4 DEF Typed, TurnTypes, CallExpires, PassFence, envVars
<1>5. CASE \E t \in Sends : SendBegin(t) \/ TakeTurn(t) \/ FenceGivesUp(t) \/ TurnAnswered(t)
                              \/ TurnEnded(t) \/ TurnExpired(t) \/ Publish(t) \/ Expire(t)
  BY <1>1, <1>5
  DEF SendBegin, TakeTurn, FenceGivesUp, TurnAnswered, TurnEnded, TurnExpired, Publish, Expire,
      turnVars, envVars
<1>6. CASE Validate \/ HandshakeAnswered \/ HandshakeFails \/ ConfigFails \/ HandshakeEmitted \/ Killed
  BY <1>1, <1>6
  DEF Validate, HandshakeAnswered, HandshakeFails, ConfigFails, HandshakeEmitted, Killed,
      turnVars, envVars
<1>7. CASE StopSignal \/ StopReturn \/ StopBegin \/ Receive \/ StopListening \/ UNCHANGED vars
  BY <1>1, <1>7
  DEF StopSignal, StopReturn, StopBegin, Receive, StopListening, vars, turnVars, envVars
<1>8. CASE UpdateQueued \/ ReadUpdate \/ ReadGarbage \/ CloseQueue \/ FinishDone \/ FinishOutput
  BY <1>1, <1>8
  DEF UpdateQueued, ReadUpdate, ReadGarbage, CloseQueue, FinishDone, FinishOutput, turnVars, envVars
<1>9. CASE Dispatch \/ DispatchEnds \/ (\E w \in Emitters : Emit(w))
  BY <1>1, <1>9 DEF Dispatch, DispatchEnds, Emit, turnVars, envVars
<1>10. CASE \E r \in Perms : ReadPermission(r) \/ PermissionLoads(r) \/ PermissionDecided(r)
  BY <1>1, <1>10 DEF ReadPermission, PermissionLoads, PermissionDecided, turnVars, envVars
<1> QED
  BY <1>2, <1>3, <1>4, <1>5, <1>6, <1>7, <1>8, <1>9, <1>10, EmitterTypes
  DEF Next, StartStep, SendStep, ReaderStep, DispatcherStep, StopStep

LEMMA PromptsStep ==
  ASSUME Typed, Turns, Prompts, [Next]_vars
  PROVE  Prompts'
<1>1. CASE (\A t \in Sends : ~WritePrompt(t)) /\ ~ReadAnswer
  <2>1. \A i \in DOMAIN agent.prompts : agent.prompts[i] \in Sends
    BY DEF Typed, OtherTypes, Agents
  <2>2. \A u \in Sends : PassFence(u) => call[u] = "none"
    BY DEF Turns, PassFence
  <2> QED
    BY <1>1, <2>1, <2>2, OtherPrompts DEF Prompts
<1> QED
  BY <1>1, WritePrompts, AnswerPrompts

-----------------------------------------------------------------------------
(* What was sent for a turn and what its collectors heard.                 *)

\* The turn of an update is one whose Call is not answered, so it is in its
\* turn, or its Send gave up.
LEMMA CurrentTurn ==
  ASSUME Typed, Ends, Turns, Prompts, Current # None, reader.at \in {"reading", "queueing"}
  PROVE  /\ Current \in Sends
         /\ call[Current] \in {"open", "error"}
         /\ send[Current] \in {"waiting", "expired", "failed"}
<1> PICK c \in Sends : c = Current /\ c = agent.prompts[1] /\ agent.prompts # <<>>
  BY CurrentType DEF Typed, OtherTypes
<1>1. agent.prompts \in Seq(Sends) /\ 1 \in DOMAIN agent.prompts
  BY DEF Typed, OtherTypes, Agents
<1>2. call[c] \in {"open", "error"}
  BY <1>1 DEF Prompts
<1>3. ~done
  BY DEF Ends
<1>4. send[c] \in Returns
  BY DEF Typed, TurnTypes
<1> QED
  BY <1>2, <1>3, <1>4 DEF Turns, Returns, InTurn, Finished

LEMMA FullKept ==
  ASSUME NEW t \in Sends, acc'[t].heard = acc[t].heard
  PROVE  Full(t)' <=> Full(t)
  BY DEF Full

LEMMA ReadUpdateHeard ==
  ASSUME Typed, Ends, Turns, Prompts, Heard, ReadUpdate
  PROVE  Heard'
<1>0. UNCHANGED <<send, call>> /\ Reading
  BY DEF ReadUpdate
<1>1. CASE Unheard
  BY <1>0, <1>1 DEF Unheard, Heard, Full, OwnUpdates, Own, GaveUp
<1>2. CASE Spoken /\ (Dropped \/ Kept)
  <2> PICK c \in Tags, n \in Nat : c = Current /\ n = updates + 1
    BY CurrentType DEF Typed, OtherTypes
  <2>1. c # None => /\ c \in Sends /\ call[c] \in {"open", "error"}
                    /\ send[c] \in {"waiting", "expired", "failed"}
    BY <1>0, CurrentTurn DEF Reading
  <2>2. None \notin Sends /\ \A t \in Sends : t \in Tags
    BY DEF None, Sends, Tags
  <2>3. spoke'[c] = spoke[c] \cup {n} /\ \A u \in Tags : u # c => spoke'[u] = spoke[u]
    BY <1>2 DEF Spoken, Typed, OtherTypes
  <2>4. \A t \in Sends : \/ acc'[t].heard = acc[t].heard
                         \/ t = active /\ ~Full(t) /\ acc'[t].heard = acc[t].heard \cup {n}
    BY <1>2 DEF Dropped, Kept, Typed, TurnTypes, Accs
  <2>5. c # None /\ send[c] = "waiting" => n \in acc'[c].heard \/ (Full(c) /\ acc'[c].heard = acc[c].heard)
    <3>1. c # None /\ send[c] = "waiting" => c \in Sends /\ active = c /\ ~acc[c].sealed
      BY <2>1 DEF Turns
    <3> QED
      BY <1>2, <3>1 DEF Dropped, Kept, Typed, TurnTypes, Accs
  <2>6. \A t \in Sends : spoke'[t] # {} => call'[t] \notin {"none", "writing"}
    BY <1>0, <2>1, <2>2, <2>3 DEF Heard
  <2>7. ASSUME NEW t \in Sends, send[t] \in {"waiting", "publishing"}
        PROVE  spoke'[t] \subseteq acc'[t].heard \/ Full(t)'
    <3>1. spoke[t] \subseteq acc[t].heard \/ Full(t)
      BY <2>7 DEF Heard
    <3>2. CASE t = c
      BY <2>1, <2>2, <2>3, <2>4, <2>5, <2>7, <3>1, <3>2, FullKept
    <3>3. CASE t # c
      BY <2>2, <2>3, <2>4, <3>1, <3>3, FullKept
    <3> QED
      BY <3>2, <3>3
  <2>8. OwnUpdates'
    <3> SUFFICES ASSUME NEW t \in Sends, NEW m \in acc'[t].heard
                 PROVE  m \in Own(t)' \/ \E u \in Sends : GaveUp(u) /\ m \in spoke'[u]
      BY <1>0 DEF OwnUpdates, GaveUp
    <3>1. \A u \in Tags : spoke[u] \subseteq spoke'[u]
      BY <2>3
    <3>2. CASE m \in acc[t].heard
      BY <2>2, <3>1, <3>2 DEF Heard, OwnUpdates, Own, None, Tags
    <3>3. CASE m = n /\ t = active
      <4>1. send[t] \in InTurn
        BY <2>2, <3>3 DEF Turns, InTurn
      <4>2. c # None /\ send[c] = "waiting" => c = t
        BY <2>1, <4>1 DEF Turns, InTurn
      <4> QED
        BY <2>1, <2>3, <3>3, <4>2 DEF Own, GaveUp
    <3> QED
      BY <2>4, <3>2, <3>3
  <2> QED
    BY <1>0, <2>6, <2>7, <2>8 DEF Heard
<1> QED
  BY <1>1, <1>2, ReadUpdateKinds

\* A Send that gave up stays so, and a turn keeps what it has heard.
LEMMA SendHeard ==
  ASSUME Typed, Turns, Heard, UNCHANGED spoke,
         \A u \in Sends : acc'[u].heard = acc[u].heard,
         \A u \in Sends : \/ call'[u] = call[u]
                          \/ call'[u] \notin {"none", "writing"}
                          \/ call[u] \in {"none", "writing"},
         \A u \in Sends : \/ send'[u] = send[u]
                          \/ send[u] \notin {"expired", "failed"} /\ send'[u] \notin {"waiting", "publishing"}
                          \/ send[u] = "fence" /\ send'[u] = "waiting"
                          \/ send[u] = "waiting" /\ send'[u] = "publishing"
  PROVE  Heard'
<1>1. \A u \in Sends : spoke'[u] # {} => call'[u] \notin {"none", "writing"}
  BY DEF Heard
<1>2. \A u \in Sends : send[u] = "fence" => spoke[u] = {}
  BY DEF Heard, Turns
<1>3. \A u \in Sends :
        send'[u] \in {"waiting", "publishing"} => spoke'[u] \subseteq acc'[u].heard \/ Full(u)'
  BY <1>2, FullKept DEF Heard
<1>4. OwnUpdates'
  BY DEF Heard, OwnUpdates, Own, GaveUp
<1> QED
  BY <1>1, <1>3, <1>4 DEF Heard

LEMMA StepsHeard ==
  ASSUME Typed, Ends, Turns, Heard, [Next]_vars, ~ReadUpdate
  PROVE  Heard'
<1>1. UNCHANGED spoke
  BY DEF Next, vars, envVars, StartStep, Validate, HandshakeFails, ConfigFails, HandshakeEmitted,
         Kill, Killed, Emit, HandshakeAnswered, SendBegin, SendStep, TakeTurn, PassFence,
         FenceGivesUp, TurnAnswered, TurnEnded, TurnExpired, Publish, WritePrompt, CallExpires,
         Expire, ReaderStep, UpdateQueued, EndOfFile, ReadEnds, CloseQueue, Drained, FinishDone,
         FinishOutput, ReadGarbage, ReadAnswer, ReadFails, DispatcherStep, Dispatch, DispatchEnds,
         ReadPermission, PermissionLoads, PermissionDecided, StopBegin, StopStep, StopSignal,
         StopKill, StopReturn, Receive, StopListening, AgentExits
<1>2. CASE \A t \in Sends : ~SendBegin(t) /\ ~SendStep(t)
  <2>1. UNCHANGED send
    BY <1>2, OtherTurns
    DEF turnVars, ReadAnswer, EndOfFile, ReadFails, ReadEnds, PermissionDecided
  <2>2. \A u \in Sends : acc'[u].heard = acc[u].heard
    <3>1. \A r \in Perms : perm[r].at = "deciding" /\ Deny(r) =>
            \A u \in Sends : acc'[u].heard = acc[u].heard
      BY DEF Deny, Typed, TurnTypes, Accs
    <3>2. CASE \E r \in Perms : PermissionDecided(r)
      BY <3>1, <3>2 DEF PermissionDecided
    <3>3. CASE \A r \in Perms : ~PermissionDecided(r)
      BY <1>2, <3>3, OtherTurns DEF turnVars, ReadAnswer, EndOfFile, ReadFails, ReadEnds
    <3> QED
      BY <3>2, <3>3
  <2>3. \A u \in Sends : call'[u] = call[u] \/ call'[u] \notin {"none", "writing"}
    BY <1>2, OtherTurns
    DEF turnVars, ReadAnswer, EndOfFile, ReadFails, ReadEnds, PermissionDecided, Typed, TurnTypes
  <2> QED
    BY <1>1, <2>1, <2>2, <2>3, SendHeard
<1>3. CASE \E t \in Sends : SendBegin(t) \/ SendStep(t)
  <2> PICK t \in Sends : SendBegin(t) \/ SendStep(t)
    BY <1>3
  <2>1. \A u \in Sends : acc'[u].heard = acc[u].heard
    <3>1. acc' = acc \/ acc' = [acc EXCEPT ![t].sealed = TRUE]
      BY DEF SendBegin, SendStep, TakeTurn, PassFence, FenceGivesUp, TurnAnswered, TurnEnded,
             TurnExpired, Publish, WritePrompt, CallExpires, Seal
    <3> QED
      BY <3>1 DEF Typed, TurnTypes, Accs
  <2>2. \A u \in Sends : \/ call'[u] = call[u]
                         \/ call'[u] \notin {"none", "writing"}
                         \/ call[u] \in {"none", "writing"}
    BY DEF SendBegin, SendStep, TakeTurn, PassFence, FenceGivesUp, TurnAnswered, TurnEnded,
           TurnExpired, Publish, WritePrompt, CallExpires, Turns, Typed, TurnTypes
  <2>3. \A u \in Sends : u # t => send'[u] = send[u]
    BY DEF SendBegin, SendStep, TakeTurn, PassFence, FenceGivesUp, TurnAnswered, TurnEnded,
           TurnExpired, Publish, Put, Block, Published, WritePrompt, CallExpires, Leave, Typed, TurnTypes
  <2>4. \/ send'[t] = send[t]
        \/ send[t] \notin {"expired", "failed"} /\ send'[t] \notin {"waiting", "publishing"}
        \/ send[t] = "fence" /\ send'[t] = "waiting"
        \/ send[t] = "waiting" /\ send'[t] = "publishing"
    BY DEF SendBegin, SendStep, TakeTurn, PassFence, FenceGivesUp, TurnAnswered, TurnEnded,
           TurnExpired, Publish, Put, Block, Published, WritePrompt, CallExpires, Leave, Typed, TurnTypes
  <2> QED
    BY <1>1, <2>1, <2>2, <2>3, <2>4, SendHeard
<1> QED
  BY <1>2, <1>3

LEMMA HeardStep ==
  ASSUME Typed, Ends, Turns, Prompts, Heard, [Next]_vars
  PROVE  Heard'
  BY ReadUpdateHeard, StepsHeard

-----------------------------------------------------------------------------
(* The way of messages to Output.                                          *)

LEMMA StreamsGrow ==
  ASSUME NEW o, NEW h, NEW q, NEW over, NEW later, over \subseteq later, Streams(o, h, q, over)
  PROVE  Streams(o, h, q, later)
  BY DEF Streams, Settled

\* A message of a turn that is not over, and so none of whose result is ahead.
LEMMA StreamsPut ==
  ASSUME NEW o \in Seq(Messages), NEW h \in Seq(Messages), NEW q \in Seq(Messages),
         NEW m \in Messages, NEW over, NEW later, over \subseteq later,
         Streams(o, h, q, over), m.turn \notin over, m.type = "result" => m.turn \in later
  PROVE  Streams(o, h, Append(q, m), later)
<1>1. Settled(Append(q, m), later)
  BY AppendFacts DEF Streams, Settled
<1>2. Ordered(Append(q, m))
  BY AppendFacts DEF Streams, Settled, Ordered
<1>3. Before(o, Append(q, m)) /\ Before(h, Append(q, m))
  BY AppendFacts DEF Streams, Settled, Before
<1> QED
  BY <1>1, <1>2, <1>3 DEF Streams, Settled

\* The dispatcher takes a message and delivers it at once, or holds it.
LEMMA StreamsDispatch ==
  ASSUME NEW o \in Seq(Messages), NEW q \in Seq(Messages), q # <<>>, NEW over,
         Streams(o, <<>>, q, over)
  PROVE  /\ Streams(Append(o, Head(q)), <<>>, Tail(q), over)
         /\ Streams(o, <<Head(q)>>, Tail(q), over)
<1>1. Settled(Tail(q), over) /\ Ordered(Tail(q)) /\ Before(o, Tail(q))
  BY TailFacts DEF Streams, Settled, Ordered, Before
<1>2. \A j \in DOMAIN Tail(q) : Head(q).type = "result" => Tail(q)[j].turn # Head(q).turn
  BY TailFacts DEF Streams, Ordered
<1>3. Head(q) \in Messages /\ (Head(q).type = "result" => Head(q).turn \in over)
  BY TailFacts DEF Streams, Settled
<1>4. \A i \in DOMAIN o : o[i].type = "result" => Head(q).turn # o[i].turn
  BY TailFacts DEF Streams, Before
<1>5. Settled(Append(o, Head(q)), over) /\ Ordered(Append(o, Head(q)))
  BY <1>3, <1>4, AppendFacts DEF Streams, Settled, Ordered
<1>6. Before(Append(o, Head(q)), Tail(q))
  BY <1>1, <1>2, <1>3, AppendFacts DEF Before
<1>7. DOMAIN <<Head(q)>> = {1} /\ <<Head(q)>>[1] = Head(q) /\ DOMAIN <<>> = {}
  OBVIOUS
<1>8. Streams(Append(o, Head(q)), <<>>, Tail(q), over)
  BY <1>1, <1>5, <1>6, <1>7 DEF Streams, Settled, Before
<1>9. Streams(o, <<Head(q)>>, Tail(q), over)
  BY <1>1, <1>2, <1>3, <1>4, <1>7 DEF Streams, Settled, Before
<1> QED
  BY <1>8, <1>9

\* The message held is delivered, or dropped.
LEMMA StreamsDeliver ==
  ASSUME NEW o \in Seq(Messages), NEW q \in Seq(Messages), NEW m \in Messages, NEW over,
         Streams(o, <<m>>, q, over)
  PROVE  Streams(Append(o, m), <<>>, q, over) /\ Streams(o, <<>>, q, over)
<1>1. DOMAIN <<m>> = {1} /\ <<m>>[1] = m /\ DOMAIN <<>> = {}
  OBVIOUS
<1>2. /\ m.type = "result" => m.turn \in over
      /\ \A i \in DOMAIN o : o[i].type = "result" => m.turn # o[i].turn
      /\ \A j \in DOMAIN q : m.type = "result" => q[j].turn # m.turn
  BY <1>1 DEF Streams, Settled, Before
<1>3. Settled(Append(o, m), over) /\ Ordered(Append(o, m)) /\ Before(Append(o, m), q)
  BY <1>2, AppendFacts DEF Streams, Settled, Ordered, Before
<1> QED
  BY <1>1, <1>3 DEF Streams, Settled, Before

\* A message that belongs to no turn is delivered past the dispatcher.
LEMMA StreamsAside ==
  ASSUME NEW o \in Seq(Messages), NEW h \in Seq(Messages), NEW q \in Seq(Messages),
         NEW m \in Messages, m.turn = None, m.type # "result",
         NEW over, None \notin over, Streams(o, h, q, over)
  PROVE  Streams(Append(o, m), h, q, over)
<1>1. Settled(Append(o, m), over) /\ Ordered(Append(o, m))
  BY AppendFacts DEF Streams, Settled, Ordered
<1>2. Before(Append(o, m), h) /\ Before(Append(o, m), q)
  BY AppendFacts DEF Streams, Before
<1> QED
  BY <1>1, <1>2 DEF Streams

LEMMA StreamsReceive ==
  ASSUME NEW o \in Seq(Messages), NEW h \in Seq(Messages), NEW q \in Seq(Messages), o # <<>>,
         NEW over, Streams(o, h, q, over)
  PROVE  Streams(Tail(o), h, q, over)
  BY TailFacts DEF Streams, Settled, Ordered, Before

\* A turn that is over stays so.
LEMMA OverStays ==
  ASSUME Typed, Ends, [Next]_vars
  PROVE  Over \subseteq Over'
<1>1. CASE UNCHANGED send
  BY <1>1 DEF Over
<1>2. CASE \E t \in Sends : SendBegin(t) \/ SendStep(t)
  BY <1>2
  DEF Over, Typed, TurnTypes, SendBegin, SendStep, TakeTurn, PassFence, FenceGivesUp,
      TurnAnswered, TurnEnded, TurnExpired, Publish, Put, Block, Published, WritePrompt,
      CallExpires, Leave
<1>3. CASE \A t \in Sends : ~(SendBegin(t) \/ SendStep(t))
  BY <1>1, <1>3, OtherTurns
  DEF turnVars, ReadUpdate, ReadAnswer, EndOfFile, ReadFails, ReadEnds, PermissionDecided
<1> QED
  BY <1>2, <1>3

LEMMA PipeFacts ==
  ASSUME Typed
  PROVE  /\ out \in Seq(Messages) /\ queue \in Seq(Messages) /\ Held \in Seq(Messages)
         /\ None \notin Over
         /\ "dispatcher" \in Emitters
  BY EmitterTypes DEF Typed, PipeTypes, Emits, Held, Over, None, Sends

LEMMA EmitStreams ==
  ASSUME Typed, Streams(out, Held, queue, Over), Aside, NEW w \in Emitters, Emit(w)
  PROVE  /\ Streams(out, Held, queue, Over)'
         /\ Aside'
<1>1. UNCHANGED <<queue, Over>>
  BY DEF Emit, turnVars, Over
<1>2. PICK m \in Messages : emitting[w].msgs = <<m>> /\ emitting[w].msgs[1] = m
  BY HeldFacts DEF Typed, Emit, EmitFirst, EmitBlocked, PipeTypes, Idle, NoEmit
<1>3. out' = out \/ out' = Append(out, m)
  BY <1>2, AppendFacts DEF Emit, EmitFirst, EmitBlocked, Deliver, Typed, PipeTypes
<1>4. \/ emitting' = [emitting EXCEPT ![w] = NoEmit]
      \/ emitting' = [emitting EXCEPT ![w].blocked = TRUE] /\ out' = out
  BY DEF Emit, EmitFirst, EmitBlocked, Deliver
<1>5. \A v \in Emitters : v # w => emitting'[v] = emitting[v]
  BY EmitMu
<1>6. emitting'[w].msgs = <<>> \/ (emitting'[w].msgs = emitting[w].msgs /\ out' = out)
  BY <1>4 DEF Typed, PipeTypes, Emits, NoEmit
<1>7. Aside'
  <2>1. \A v \in Emitters : emitting'[v].msgs = emitting[v].msgs \/ emitting'[v].msgs = <<>>
    BY <1>5, <1>6
  <2> QED
    BY <2>1 DEF Aside
<1>8. CASE w = "dispatcher"
  <2>1. Held = <<m>>
    BY <1>2, <1>8 DEF Held
  <2>2. Held' = <<>> \/ (Held' = Held /\ out' = out)
    BY <1>6, <1>8 DEF Held
  <2> QED
    BY <1>1, <1>3, <1>7, <2>1, <2>2, PipeFacts, StreamsDeliver
<1>9. CASE w # "dispatcher"
  <2>1. Held' = Held
    BY <1>5, <1>9, PipeFacts DEF Held
  <2>2. m.turn = None /\ m.type # "result"
    BY <1>2, <1>9 DEF Aside
  <2> QED
    BY <1>1, <1>3, <1>7, <2>1, <2>2, PipeFacts, StreamsAside
<1> QED
  BY <1>8, <1>9

\* The other calls of emit: MessageInit and errors.
LEMMA EmittingAside ==
  ASSUME Typed, Aside, NEW w \in Emitters, w # "dispatcher",
         NEW m \in Messages, m.turn = None, m.type # "result", emitting' = Emitting(w, m)
  PROVE  Held' = Held /\ Aside'
<1>1. \A v \in Emitters : v # w => emitting'[v] = emitting[v]
  BY DEF Typed, PipeTypes, Emitting
<1>2. emitting'[w].msgs = <<m>>
  BY DEF Typed, PipeTypes, Emits, Emitting
<1>3. Held' = Held
  BY <1>1, PipeFacts DEF Held
<1>4. \A i \in DOMAIN <<m>> : <<m>>[i] = m
  OBVIOUS
<1> QED
  BY <1>1, <1>2, <1>3, <1>4 DEF Aside

LEMMA DispatchStreams ==
  ASSUME Typed, Streams(out, Held, queue, Over), Aside, Dispatch
  PROVE  Streams(out, Held, queue, Over)' /\ Aside'
<1>1. UNCHANGED Over /\ queue # <<>> /\ queue' = Tail(queue)
  BY DEF Dispatch, turnVars, Over
<1>2. Held = <<>>
  BY DEF Dispatch, Idle, NoEmit, Held
<1>3. CASE out' = Append(out, Head(queue)) /\ emitting' = emitting
  <2>1. Held' = <<>> /\ Aside'
    BY <1>2, <1>3 DEF Held, Aside
  <2>2. Streams(Append(out, Head(queue)), <<>>, Tail(queue), Over)
    BY <1>1, <1>2, PipeFacts, StreamsDispatch
  <2> QED
    BY <1>1, <1>3, <2>1, <2>2
<1>4. CASE out' = out /\ emitting' = Emitting("dispatcher", Head(queue))
  <2>1. Held' = <<Head(queue)>>
    BY <1>4, PipeFacts DEF Typed, PipeTypes, Emits, Emitting, Held
  <2>2. Aside'
    BY <1>4 DEF Typed, PipeTypes, Emitting, Aside
  <2>3. Streams(out, <<Head(queue)>>, Tail(queue), Over)
    BY <1>1, <1>2, PipeFacts, StreamsDispatch
  <2> QED
    BY <1>1, <1>4, <2>1, <2>2, <2>3
<1> QED
  BY <1>3, <1>4 DEF Dispatch

\* The update the ReadLoop queues belongs to no turn that is over.
LEMMA EnqueueStreams ==
  ASSUME Typed, Ends, Turns, Prompts, Flow, ReadUpdate \/ UpdateQueued
  PROVE  Streams(out, Held, queue, Over)'
<1>1. UNCHANGED <<out, Held, Over>>
  BY DEF ReadUpdate, UpdateQueued, turnVars, Held, Over
<1>2. PICK m \in Messages :
        /\ Enqueue(m) \/ Wait(m)
        /\ m.type = "update"
        /\ m.turn # None => m.turn = Current
        /\ reader.at \in {"reading", "queueing"}
  <2>1. CASE ReadUpdate
    <3>1. Msg("update", Current) \in Messages
      BY CurrentType, MessageTypes DEF Typed, OtherTypes
    <3>2. Msg("update", Current).type = "update" /\ Msg("update", Current).turn = Current
      BY DEF Msg
    <3> QED
      BY <2>1, <3>1, <3>2 DEF ReadUpdate, Reading
  <2>2. CASE UpdateQueued
    <3>1. reader.msg \in Messages
      BY DEF Typed, PipeTypes
    <3> QED
      BY <2>2, <3>1, CurrentType DEF UpdateQueued, Flow, Typed, OtherTypes
  <2> QED
    BY <2>1, <2>2
<1>3. m.turn \notin Over
  BY <1>2, CurrentTurn, PipeFacts DEF Over
<1>4. queue' = queue \/ queue' = Append(queue, m)
  BY <1>2 DEF Enqueue, Wait
<1> QED
  BY <1>1, <1>2, <1>3, <1>4, PipeFacts, StreamsPut DEF Flow

\* The result is queued by the step that ends its turn.
LEMMA PublishStreams ==
  ASSUME Typed, Ends, Turns, Streams(out, Held, queue, Over), NEW t \in Sends, Publish(t)
  PROVE  Streams(out, Held, queue, Over)'
<1>1. UNCHANGED <<out, Held>>
  BY DEF Publish, Held
<1>2. Over \subseteq Over'
  BY OverStays DEF Next, SendStep
<1>3. queue' = queue \/ (queue' = Append(queue, Head(publish)) /\ Published(t))
  BY DEF Publish, Put, Block
<1>4. publish = Published1(t) \/ publish = Published2(t)
  BY DEF Turns, Publish, Published1, Published2
<1>5. t \notin Over
  BY DEF Publish, Over
<1>6. Msg("result", t) \in Messages /\ Msg("synthesized", t) \in Messages
  BY MessageTypes DEF Tags
<1>7. Head(publish).turn = t /\ Head(publish) \in Messages
  BY <1>4, <1>6, PublishForms DEF Msg
<1>8. Published(t) /\ Head(publish).type = "result" => t \in Over'
  BY <1>4, PublishForms DEF Published, Leave, Msg, Over, Typed, TurnTypes
<1>9. CASE queue' = queue
  BY <1>1, <1>2, <1>9, StreamsGrow
<1>10. CASE queue' = Append(queue, Head(publish)) /\ Published(t)
  BY <1>1, <1>2, <1>5, <1>7, <1>8, <1>10, PipeFacts, StreamsPut
<1> QED
  BY <1>3, <1>9, <1>10

\* The update the ReadLoop waits to queue stays that of the agent's first prompt.
LEMMA QueueingStep ==
  ASSUME Typed, Flow, [Next]_vars
  PROVE  reader'.at = "queueing" =>
           /\ reader'.msg.type = "update"
           /\ reader'.msg.turn # None =>
                agent'.prompts # <<>> /\ reader'.msg.turn = agent'.prompts[1]
<1>1. CASE ReadUpdate
  BY <1>1, CurrentType DEF ReadUpdate, Enqueue, Wait, Msg, Typed, OtherTypes
<1>2. CASE UpdateQueued
  BY <1>2 DEF UpdateQueued, Enqueue
<1>3. CASE EndOfFile \/ ReadFails \/ CloseQueue \/ Drained \/ FinishDone \/ FinishOutput
  BY <1>3 DEF Typed, PipeTypes, EndOfFile, ReadFails, ReadEnds, CloseQueue, Drained, FinishDone, FinishOutput
<1>4. CASE ReadAnswer
  BY <1>4 DEF ReadAnswer, Reading, pipeVars
<1>5. CASE UNCHANGED reader /\ agent'.prompts = agent.prompts
  BY <1>5 DEF Flow
<1>6. CASE \E t \in Sends : WritePrompt(t)
  <2> PICK t \in Sends : WritePrompt(t)
    BY <1>6
  <2>1. UNCHANGED reader
    BY DEF WritePrompt, pipeVars
  <2>2. agent.prompts \in Seq(Sends)
    BY DEF Typed, OtherTypes, Agents
  <2>3. agent.prompts # <<>> => agent'.prompts # <<>> /\ agent'.prompts[1] = agent.prompts[1]
    BY <2>2 DEF WritePrompt, Typed, OtherTypes, Agents
  <2> QED
    BY <2>1, <2>3 DEF Flow
<1>7. CASE StartStep \/ HandshakeAnswered \/ StopStep \/ StopBegin \/ Receive \/ StopListening
             \/ AgentExits \/ UNCHANGED vars
  <2>1. UNCHANGED reader
    BY <1>7
    DEF StartStep, HandshakeAnswered, Validate, HandshakeFails, ConfigFails, HandshakeEmitted, Kill,
        Killed, Emit, StopStep, StopSignal, StopKill, StopReturn, StopBegin, Receive, StopListening,
        AgentExits, vars, pipeVars
  <2>2. (\A t \in Sends : ~WritePrompt(t)) /\ ~ReadAnswer => agent'.prompts = agent.prompts
    BY OtherPrompts
  <2> QED
    BY <1>4, <1>5, <1>6, <2>1, <2>2
<1>8. CASE \E t \in Sends : SendBegin(t) \/ SendStep(t) \/ Expire(t)
  <2>1. UNCHANGED reader
    BY <1>8
    DEF SendBegin, SendStep, TakeTurn, PassFence, FenceGivesUp, TurnAnswered, TurnEnded, TurnExpired,
        Publish, WritePrompt, CallExpires, Expire, pipeVars
  <2> QED
    BY <1>4, <1>5, <1>6, <2>1, OtherPrompts
<1>9. CASE DispatcherStep \/ Emit("reader") \/ ReadGarbage
             \/ (\E r \in Perms :
                   ReadPermission(r) \/ PermissionLoads(r) \/ PermissionDecided(r) \/ Emit(r))
  <2>1. UNCHANGED reader
    BY <1>9
    DEF DispatcherStep, Dispatch, DispatchEnds, Emit, ReadGarbage, ReadPermission, PermissionLoads,
        PermissionDecided, pipeVars
  <2> QED
    BY <1>4, <1>5, <1>6, <2>1, OtherPrompts
<1> QED
  BY <1>1, <1>2, <1>3, <1>4, <1>7, <1>8, <1>9 DEF Next, ReaderStep

\* Nothing else touches the streams.
LEMMA OtherStreams ==
  ASSUME Typed, Ends, Flow, [Next]_vars, ~Dispatch, ~Receive, ~ReadUpdate, ~UpdateQueued,
         \A w \in Emitters : ~Emit(w), \A t \in Sends : ~Publish(t)
  PROVE  Streams(out, Held, queue, Over)' /\ Aside'
<1>1. UNCHANGED <<out, queue>>
  BY EmitterTypes
  DEF Next, vars, StartStep, Validate, HandshakeFails, ConfigFails, HandshakeEmitted, Kill, Killed,
      HandshakeAnswered, SendBegin, SendStep, TakeTurn, PassFence, FenceGivesUp, TurnAnswered,
      TurnEnded, TurnExpired, WritePrompt, CallExpires, Expire, ReaderStep, EndOfFile, ReadEnds,
      CloseQueue, Drained, FinishDone, FinishOutput, ReadGarbage, ReadAnswer, ReadFails,
      DispatcherStep, DispatchEnds, ReadPermission, PermissionLoads, PermissionDecided, StopBegin,
      StopStep, StopSignal, StopKill, StopReturn, StopListening, AgentExits, pipeVars
<1>2. Held' = Held /\ Aside'
  <2>1. CASE UNCHANGED emitting
    BY <2>1 DEF Held, Aside, Flow
  <2>2. CASE \E m \in {Error, Msg("init", None)}, w \in {"start", "reader"} \cup Perms :
               emitting' = Emitting(w, m)
    <3> PICK m \in {Error, Msg("init", None)}, w \in {"start", "reader"} \cup Perms :
               emitting' = Emitting(w, m)
      BY <2>2
    <3>1. m \in Messages /\ m.turn = None /\ m.type # "result"
      BY MessageTypes DEF Error, Msg
    <3>2. w \in Emitters /\ w # "dispatcher"
      BY EmitterTypes
    <3> QED
      BY <3>1, <3>2, EmittingAside DEF Flow
  <2>3. HandshakeAnswered \/ ConfigFails \/ ReadGarbage \/ (\E r \in Perms : PermissionDecided(r)) =>
          \/ UNCHANGED emitting
          \/ \E m \in {Error, Msg("init", None)}, w \in {"start", "reader"} \cup Perms :
               emitting' = Emitting(w, m)
    BY DEF HandshakeAnswered, ConfigFails, ReadGarbage, PermissionDecided
  <2>4. HandshakeAnswered \/ ConfigFails \/ ReadGarbage \/ (\E r \in Perms : PermissionDecided(r))
          \/ UNCHANGED emitting
    BY EmitterTypes
    DEF Next, vars, StartStep, Validate, HandshakeFails, HandshakeEmitted, Kill, Killed,
        SendBegin, SendStep, TakeTurn, PassFence, FenceGivesUp, TurnAnswered,
        TurnEnded, TurnExpired, WritePrompt, CallExpires, Expire, ReaderStep, EndOfFile, ReadEnds,
        CloseQueue, Drained, FinishDone, FinishOutput, ReadAnswer, ReadFails,
        DispatcherStep, DispatchEnds, ReadPermission, PermissionLoads, StopBegin,
        StopStep, StopSignal, StopKill, StopReturn, StopListening, AgentExits, pipeVars
  <2> QED
    BY <2>1, <2>2, <2>3, <2>4
<1> QED
  BY <1>1, <1>2, OverStays, StreamsGrow DEF Flow

LEMMA FlowStep ==
  ASSUME Typed, Ends, Turns, Prompts, Flow, [Next]_vars
  PROVE  Flow'
<1>1. Streams(out, Held, queue, Over)' /\ Aside'
  <2>1. CASE Receive
    <3>1. UNCHANGED <<Held, queue, Over, emitting>> /\ out # <<>> /\ out' = Tail(out)
      BY <2>1 DEF Receive, turnVars, Held, Over
    <3>2. Streams(Tail(out), Held, queue, Over)
      BY <3>1, PipeFacts, StreamsReceive DEF Flow
    <3> QED
      BY <3>1, <3>2 DEF Flow, Aside
  <2>2. CASE ReadUpdate \/ UpdateQueued
    <3>1. UNCHANGED emitting
      BY <2>2 DEF ReadUpdate, UpdateQueued
    <3> QED
      BY <2>2, <3>1, EnqueueStreams DEF Flow, Aside
  <2>3. CASE \E t \in Sends : Publish(t)
    <3>1. UNCHANGED emitting
      BY <2>3 DEF Publish
    <3> QED
      BY <2>3, <3>1, PublishStreams DEF Flow, Aside
  <2>4. CASE Dispatch
    BY <2>4, DispatchStreams DEF Flow
  <2>5. CASE \E w \in Emitters : Emit(w)
    BY <2>5, EmitStreams DEF Flow
  <2> QED
    BY <2>1, <2>2, <2>3, <2>4, <2>5, OtherStreams
<1> QED
  BY <1>1, QueueingStep DEF Flow

-----------------------------------------------------------------------------
(* The invariant, and what follows from it.                                *)

LEMMA InitInv == Init => Inv
<1> SUFFICES ASSUME Init PROVE Inv
  OBVIOUS
<1>1. Typed
  <2>1. NoEmit \in Emits
    BY DEF NoEmit, Emits
  <2>2. TurnTypes
    BY DEF Init, TurnTypes, Starts, Returns, Accs, PermAts, Tags
  <2>3. PipeTypes
    BY <2>1, AcpAssumption, MessageTypes DEF Init, PipeTypes, Places
  <2>4. [state |-> "running", prompts |-> <<>>] \in Agents
    BY DEF Agents
  <2>5. {queueClosed, dispatched, outClosed, stopping, cancelled, done, readErr, listening} \subseteq BOOLEAN
    BY DEF Init
  <2>6. updates \in 0..MaxUpdates
    BY AcpAssumption DEF Init
  <2>7. OtherTypes
    BY <2>4, <2>5, <2>6 DEF Init, OtherTypes
  <2> QED
    BY <2>2, <2>3, <2>7 DEF Typed
<1>2. Mutexes /\ Ends
  BY EmitterTypes DEF Init, Mutexes, Ends, OutputMuFree, NoEmit, Tags
<1>3. Turns /\ Prompts /\ Heard
  BY DEF Init, Turns, Prompts, Heard, OwnUpdates, InTurn, Tags
<1>4. Flow
  BY EmitterTypes DEF Init, Flow, Streams, Settled, Before, Ordered, Aside, Held, NoEmit
<1> QED
  BY <1>1, <1>2, <1>3, <1>4 DEF Inv

LEMMA NextInv ==
  ASSUME Inv, [Next]_vars
  PROVE  Inv'
  BY TypesStep, MutexesStep, EndsStep, TurnsStep, PromptsStep, HeardStep, FlowStep DEF Inv

LEMMA Invariance == Spec => []Inv
  BY InitInv, NextInv, PTL DEF Spec

\* Type correctness, with the two mutexes: nobody blocks in emit or emitUpdate
\* while another does, and the channels never hold more than their capacity.
THEOREM TypeCorrect == Spec => []TypeOK
<1>1. Inv => TypeOK
  <2> SUFFICES ASSUME Inv PROVE TypeOK
    OBVIOUS
  <2>1. /\ Len(publish) \in 0..2
        /\ \A i \in DOMAIN publish : publish[i] \in Messages
    <3>1. \/ publish = <<>>
          \/ \E t \in Sends : publish = Published1(t) \/ publish = Published2(t)
      BY DEF Inv, Turns, Published1, Published2
    <3>2. publish \in Seq(Messages)
      BY DEF Inv, Typed, TurnTypes
    <3> QED
      BY <3>1, <3>2, PublishForms
  <2>2. /\ Len(queue) \in 0..QueueSize /\ Len(out) \in 0..OutputBuffer
        /\ \A i \in DOMAIN queue : queue[i] \in Messages
        /\ \A i \in DOMAIN out : out[i] \in Messages
    BY AcpAssumption DEF Inv, Typed, PipeTypes
  <2>3. \A w \in Emitters : Len(emitting[w].msgs) \in 0..1
    BY DEF Inv, Typed, PipeTypes, NoEmit
  <2>4. agent.state \in {"running", "clean", "crashed"}
    BY DEF Inv, Typed, OtherTypes, Agents
  <2>5. reader \in [at : Places, msg : Messages]
    BY DEF Inv, Typed, PipeTypes
  <2> QED
    BY <2>1, <2>2, <2>3, <2>4, <2>5
    DEF Inv, Typed, TurnTypes, OtherTypes, Mutexes, TypeOK, Starts, Returns, Places, Accs, PermAts
<1> QED
  BY <1>1, Invariance, PTL

\* No goroutine of the session ever blocks in, or makes, a send on a channel
\* that finish or the end of the ReadLoop has closed, which would panic: for any
\* number of Sends and permission requests.
THEOREM ChannelsStayOpen == Spec => []ChannelsOpen
<1>1. Inv => ChannelsOpen
  BY DEF Inv, Ends, ChannelsOpen
<1> QED
  BY <1>1, Invariance, PTL

\* A turn sums up its own updates and those of turns whose Send gave up before
\* the agent's answer, never those of a turn that had its result.
THEOREM UpdatesAreOwn == Spec => []OwnUpdates
<1>1. Inv => OwnUpdates
  BY DEF Inv, Heard
<1> QED
  BY <1>1, Invariance, PTL

\* Sequences one after the other.
LEMMA OrderedConcat ==
  ASSUME NEW s \in Seq(Messages), NEW r \in Seq(Messages), Ordered(s), Ordered(r), Before(s, r)
  PROVE  Ordered(s \o r) /\ s \o r \in Seq(Messages)
<1>1. /\ s \o r \in Seq(Messages) /\ Len(s \o r) = Len(s) + Len(r)
      /\ \A i \in 1..Len(s) : (s \o r)[i] = s[i]
      /\ \A i \in Len(s) + 1 .. Len(s) + Len(r) : (s \o r)[i] = r[i - Len(s)] /\ i - Len(s) \in DOMAIN r
  OBVIOUS
<1>2. \A i, j \in DOMAIN (s \o r) : i < j /\ (s \o r)[i].type = "result" => (s \o r)[j].turn # (s \o r)[i].turn
  BY <1>1 DEF Ordered, Before
<1> QED
  BY <1>1, <1>2 DEF Ordered

LEMMA BeforeConcat ==
  ASSUME NEW s \in Seq(Messages), NEW r \in Seq(Messages), NEW u \in Seq(Messages),
         Before(s, u), Before(r, u)
  PROVE  Before(s \o r, u)
<1>1. /\ Len(s \o r) = Len(s) + Len(r)
      /\ \A i \in 1..Len(s) : (s \o r)[i] = s[i]
      /\ \A i \in Len(s) + 1 .. Len(s) + Len(r) : (s \o r)[i] = r[i - Len(s)] /\ i - Len(s) \in DOMAIN r
      /\ DOMAIN (s \o r) = 1 .. Len(s) + Len(r)
  OBVIOUS
<1> QED
  BY <1>1 DEF Before

\* On its way to the consumer a turn's result comes after everything else of
\* the turn, whatever is delivered past the dispatcher and whatever the agent
\* sends late, and the turn's accumulator has kept every delta of the turn or is
\* full: for any number of turns, updates and places in the channels, any cap.
THEOREM ResultsComeLast == Spec => []ResultLast
<1>1. Inv => ResultLast
  <2> SUFFICES ASSUME Inv PROVE ResultLast
    OBVIOUS
  <2> DEFINE last == IF reader.at = "queueing" THEN <<reader.msg>> ELSE <<>>
  <2>1. Typed /\ Ends /\ Turns /\ Prompts /\ Heard /\ Flow
    BY DEF Inv
  <2>2. last \in Seq(Messages) /\ Ordered(last)
    BY <2>1 DEF Typed, PipeTypes, Ordered
  <2>3. Before(out, last) /\ Before(Held, last) /\ Before(queue, last)
    <3>1. CASE reader.at = "queueing"
      <4>1. reader.msg.turn \notin Over
        BY <2>1, <3>1, CurrentTurn, CurrentType, PipeFacts DEF Flow, Over, Typed, OtherTypes
      <4>2. \A j \in DOMAIN last : last[j] = reader.msg
        BY <3>1
      <4> QED
        BY <2>1, <4>1, <4>2 DEF Flow, Streams, Settled, Before
    <3>2. CASE reader.at # "queueing"
      BY <3>2 DEF Before
    <3> QED
      BY <3>1, <3>2
  <2>4. Ordered(Held)
    <3>1. Len(Held) \in {0, 1}
      BY <2>1, PipeFacts DEF Typed, PipeTypes, NoEmit, Held
    <3> QED
      BY <2>1, <3>1, PipeFacts DEF Ordered
  <2>5. Ordered(out \o Held) /\ out \o Held \in Seq(Messages)
    BY <2>1, <2>4, PipeFacts, OrderedConcat DEF Flow, Streams
  <2>6. Before(out \o Held, queue) /\ Before(out \o Held, last)
    BY <2>1, <2>2, <2>3, PipeFacts, BeforeConcat DEF Flow, Streams
  <2>7. Ordered((out \o Held) \o queue) /\ (out \o Held) \o queue \in Seq(Messages)
    BY <2>1, <2>5, <2>6, PipeFacts, OrderedConcat DEF Flow, Streams
  <2>8. Before((out \o Held) \o queue, last)
    BY <2>1, <2>2, <2>3, <2>5, <2>6, PipeFacts, BeforeConcat
  <2>9. Ordered(((out \o Held) \o queue) \o last)
    BY <2>2, <2>7, <2>8, OrderedConcat
  <2>10. Ordered(Pipe)
    BY <2>9 DEF Pipe, Held
  <2> QED
    BY <2>1, <2>10 DEF ResultLast, Ordered, Msg, Heard
<1> QED
  BY <1>1, Invariance, PTL

\* A Send that saw its answer in a living session has put its result at the end
\* of the queue by the step in which it returns.
THEOREM ResultsAreKept == Spec => ResultKept
<1>1. ASSUME Inv, [Next]_vars, NEW t \in Sends, send[t] = "publishing", send'[t] = "ok"
      PROVE  \/ queueClosed \/ cancelled
             \/ queue' # <<>> /\ queue'[Len(queue')] = Msg("result", t)
  <2>1. Typed /\ Ends /\ Turns
    BY <1>1 DEF Inv
  <2>2. Publish(t)
    <3>1. CASE \A u \in Sends : ~(SendBegin(u) \/ SendStep(u))
      BY <1>1, <2>1, <3>1, OtherTurns
      DEF turnVars, ReadUpdate, ReadAnswer, EndOfFile, ReadFails, ReadEnds, PermissionDecided
    <3>2. CASE \E u \in Sends : SendBegin(u) \/ SendStep(u)
      <4> PICK u \in Sends : SendBegin(u) \/ SendStep(u)
        BY <3>2
      <4>1. \A v \in Sends : v # u => send'[v] = send[v]
        BY <2>1
        DEF Typed, TurnTypes, SendBegin, SendStep, TakeTurn, PassFence, FenceGivesUp,
            TurnAnswered, TurnEnded, TurnExpired, Publish, Put, Block, Published, WritePrompt,
            CallExpires, Leave
      <4>2. SendBegin(t) \/ SendStep(t)
        BY <1>1, <4>1
      <4> QED
        BY <1>1, <4>2
        DEF SendBegin, SendStep, TakeTurn, PassFence, FenceGivesUp, TurnAnswered, TurnEnded,
            TurnExpired, WritePrompt, CallExpires
    <3> QED
      BY <3>1, <3>2
  <2>3. publish = Published1(t) /\ (Put(t) \/ queueClosed)
    <3>1. publish = Published1(t) \/ publish = Published2(t)
      BY <1>1, <2>1 DEF Turns, Published1, Published2
    <3> QED
      BY <1>1, <2>2, <3>1, PublishForms DEF Publish, Put, Block, Published
  <2>4. queueClosed \/ cancelled \/ queue' = Append(queue, Msg("result", t))
    BY <2>3, PublishForms DEF Put
  <2>5. Msg("result", t) \in Messages /\ queue \in Seq(Messages)
    BY <2>1, MessageTypes, PipeFacts DEF Tags
  <2> QED
    BY <2>4, <2>5
<1>2. Inv /\ [Next]_vars =>
        [\A t \in Sends :
           send[t] = "publishing" /\ send'[t] = "ok" =>
             \/ queueClosed \/ cancelled
             \/ queue' # <<>> /\ queue'[Len(queue')] = Msg("result", t)]_vars
  BY <1>1
<1> QED
  BY <1>2, Invariance, PTL DEF Spec, ResultKept

\* A session implements the Process interface's contract: Err answers before
\* Output closes, its answer never changes, and the session is never resumed.
THEOREM SessionIsAProcess == Spec => ImplementsContract
<1>1. Init => Contract!Init
  BY DEF Init, Contract!Init
<1>2. Inv /\ [Next]_vars => [Contract!Next]_(Contract!vars)
  <2> SUFFICES ASSUME Inv, [Next]_vars PROVE [Contract!Next]_(Contract!vars)
    OBVIOUS
  <2>1. CASE FinishDone
    <3>1. /\ ~done /\ ~outClosed /\ done' /\ ~outClosed'
      BY <2>1 DEF Inv, Typed, OtherTypes, Ends, FinishDone
    <3>2. termErr' \in {"nil", "exit", "reader", "terminated"}
      BY <2>1 DEF FinishDone, Verdict
    <3> QED
      BY <3>1, <3>2 DEF Contract!Next, Contract!End
  <2>2. CASE FinishOutput
    <3>1. done /\ ~outClosed /\ outClosed' /\ UNCHANGED termErr
      BY <2>2 DEF Inv, Typed, OtherTypes, Ends, FinishOutput, endVars
    <3> QED
      BY <3>1 DEF Contract!Next, Contract!Close
  <2>3. CASE UNCHANGED <<done, termErr, outClosed>>
    BY <2>3 DEF Contract!vars
  <2>4. CASE CloseQueue
    BY <2>3, <2>4 DEF CloseQueue, endVars
  <2> QED
    BY <2>1, <2>2, <2>3, <2>4, FinishMoves DEF Inv
<1> QED
  BY <1>1, <1>2, Invariance, PTL DEF Spec, ImplementsContract, Contract!Spec
=============================================================================

---------------------------- MODULE AcpConnProofs ----------------------------
(***************************************************************************)
(* The safety of the JSON-RPC connection for any number of calls, requests *)
(* and notifications: the mutex, the table of pending calls, the delivery  *)
(* of answers, and that every call is one of AcpCalls.                     *)
(***************************************************************************)
EXTENDS AcpConn, TLAPS

\* What the table, the channels and the reader know of one another.
\* An entry is a call in progress whose channel is empty.
Table == \A c \in pending : pc[c] = "started" /\ ch[c] = "empty"

\* The answer being delivered is for a call that left the table with an empty
\* channel: there is one delivery per registration.
Delivery ==
  reader.at = "delivering" =>
    /\ reader.msg.call \notin pending
    /\ ch[reader.msg.call] = "empty"
    /\ pc[reader.msg.call] # "idle"
    /\ sending[reader.msg.call] = "sent"

\* A call that has not begun is nowhere; an answer is there only for a request
\* that was sent; channels are closed by the end of the ReadLoop; an outcome is
\* that of a call that returned.
Stages ==
  \A c \in Calls :
    /\ pc[c] = "idle" => ch[c] = "empty"
    /\ ch[c] \in Answers => sending[c] = "sent"
    /\ ch[c] = "closed" => reader.at = "done"
    /\ outcome[c] # "none" => pc[c] = "returned"

Inv == TypeOK /\ Table /\ Delivery /\ Stages

-----------------------------------------------------------------------------
Places == {"reading", "delivering", "replying", "handling", "draining", "done"}
ReaderStates ==
  [at : Places, msg : [call : Calls \cup {Reader}, answer : Answers]]

\* The part of TypeOK that is about the mutex.
SendType ==
  /\ sending \in [Writers -> {"no", "queued", "writing", "sent", "failed"}]
  /\ \A v, w \in Writers : sending[v] = "writing" /\ sending[w] = "writing" => v = w

\* The places of the ReadLoop, and the frames it reads, keep their types.
LEMMA ReaderType ==
  /\ \A place \in Places : At(place) \in ReaderStates /\ At(place).at = place
  /\ \A c \in Calls, a \in Answers :
       [at |-> "delivering", msg |-> [call |-> c, answer |-> a]] \in ReaderStates
  BY DEF ReaderStates, Places, At, NoCall, Answers

LEMMA FrameType ==
  ASSUME TypeOK, ReadFrame
  PROVE  frames' \in 0..MaxFrames
  BY ConnAssumption DEF TypeOK, ReadFrame

LEMMA InitInv == Init => Inv
  BY ConnAssumption
  DEF Init, Inv, TypeOK, Table, Delivery, Stages, At, NoCall, Answers, Writers

\* The mutex: what happens to sending leaves at most one writer inside.
LEMMA SendStep ==
  ASSUME Inv, NEW w \in Writers, Acquire(w) \/ WriteEnds(w) \/ (w \in Notices /\ Notify(w))
  PROVE  Inv'
<1>1. /\ sending' \in [Writers -> {"no", "queued", "writing", "sent", "failed"}]
      /\ \A v \in Writers : v # w => sending'[v] = sending[v]
      /\ sending[w] # "sent"
      /\ UNCHANGED <<pc, outcome, expired, pending, ch, served, reader, frames>>
  BY DEF Inv, TypeOK, Acquire, WriteEnds, Notify, Queue
<1>2. sending'[w] = "writing" => MuFree
  BY DEF Inv, TypeOK, Acquire, WriteEnds, Notify, Queue
<1>3. \A v, u \in Writers : sending'[v] = "writing" /\ sending'[u] = "writing" => v = u
  BY <1>1, <1>2 DEF Inv, TypeOK, MuFree
<1>4. TypeOK'
  BY <1>1, <1>3 DEF Inv, TypeOK
<1>5. Table' /\ Delivery' /\ Stages'
  BY <1>1 DEF Inv, TypeOK, Table, Delivery, Stages, Writers
<1> QED
  BY <1>4, <1>5 DEF Inv

LEMMA RegisterStep ==
  ASSUME Inv, NEW c \in Calls, Register(c)
  PROVE  Inv'
<1>1. c \in Writers
  BY DEF Writers
<1>2. TypeOK'
  BY <1>1 DEF Inv, TypeOK, Register, Queue
<1>3. Table' /\ Delivery' /\ Stages'
  BY <1>1 DEF Inv, TypeOK, Table, Delivery, Stages, Register, Queue, MuFree, Answers
<1> QED
  BY <1>2, <1>3 DEF Inv

LEMMA ReturnsStep ==
  ASSUME Inv, NEW c \in Calls, CallReturns(c) \/ Expire(c)
  PROVE  Inv'
<1> USE DEF Inv, TypeOK, Table, Delivery, Stages, Answers
<1>1. CASE Unsent(c)
  BY <1>1 DEF Unsent, Return
<1>2. CASE TakeAnswer(c)
  BY <1>2 DEF TakeAnswer, Waiting, Received, Return, Outcome
<1>3. CASE GiveUp(c)
  BY <1>3 DEF GiveUp, Waiting
<1>4. CASE LastLook(c)
  BY <1>4 DEF LastLook, Received, Return, Outcome
<1>5. CASE Expire(c)
  BY <1>5 DEF Expire
<1> QED
  BY <1>1, <1>2, <1>3, <1>4, <1>5 DEF CallReturns

LEMMA ResponseStep ==
  ASSUME Inv, NEW c \in Calls, NEW a \in Answers, ReadResponse(c, a)
  PROVE  Inv'
<1>1. TypeOK'
  <2>1. frames' \in 0..MaxFrames
    BY FrameType DEF Inv, ReadResponse
  <2>2. reader' \in ReaderStates /\ (reader'.at = "delivering" => reader'.msg.call \in Calls)
    BY ReaderType DEF Inv, TypeOK, ReadResponse, ReaderStates, Places
  <2>3. pending' \subseteq Calls
    BY DEF Inv, TypeOK, ReadResponse, TakePending
  <2> QED
    BY <2>1, <2>2, <2>3 DEF Inv, TypeOK, ReadResponse, ReaderStates, Places
<1>2. Table' /\ Delivery' /\ Stages'
  BY DEF Inv, TypeOK, Table, Delivery, Stages, Answers, ReadResponse, ReadFrame, TakePending
<1> QED
  BY <1>1, <1>2 DEF Inv

LEMMA DeliverStep ==
  ASSUME Inv, Deliver
  PROVE  Inv'
<1>1. reader.msg.call \in Calls /\ reader.msg.answer \in Answers
  BY DEF Inv, TypeOK, Deliver
<1>2. TypeOK'
  BY <1>1 DEF Inv, TypeOK, Deliver, At, NoCall, Answers
<1>3. Table' /\ Delivery' /\ Stages'
  BY <1>1 DEF Inv, TypeOK, Table, Delivery, Stages, Answers, Deliver, At, NoCall
<1> QED
  BY <1>2, <1>3 DEF Inv

LEMMA MethodStep ==
  ASSUME Inv, NEW r \in Requests, ReadMethod(r) \/ HandlerReturns(r)
  PROVE  Inv'
<1>1. r \in Writers \ Calls /\ Reader \in Writers \ Calls
  BY ConnAssumption DEF Writers
<1>2. TypeOK'
  <2>1. frames' \in 0..MaxFrames
    BY FrameType DEF Inv, TypeOK, ReadMethod, HandlerReturns
  <2>2. reader' \in ReaderStates /\ (reader'.at = "delivering" => reader'.msg.call \in Calls)
    BY ReaderType DEF Inv, TypeOK, ReadMethod, HandlerReturns, ReaderStates, Places
  <2>3. served' \in [Requests -> {"none", "running", "replying"}]
    BY DEF Inv, TypeOK, ReadMethod, HandlerReturns
  <2>4. SendType'
    BY <1>1 DEF Inv, TypeOK, SendType, ReadMethod, HandlerReturns, Queue
  <2> QED
    BY <2>1, <2>2, <2>3, <2>4
    DEF Inv, TypeOK, SendType, ReadMethod, HandlerReturns, ReaderStates, Places
<1>3. Table' /\ Delivery' /\ Stages'
  <2>1. UNCHANGED <<pc, outcome, pending, ch>>
    BY DEF ReadMethod, HandlerReturns
  <2>2. \A d \in Calls : d \in Writers /\ sending'[d] = sending[d]
    BY <1>1 DEF Writers, Inv, TypeOK, ReadMethod, HandlerReturns, Queue
  <2>3. reader' = reader \/ (reader.at # "done" /\ reader'.at # "delivering")
    BY DEF ReadMethod, HandlerReturns, ReadFrame, At
  <2>4. Delivery'
    BY <2>1, <2>2, <2>3 DEF Inv, TypeOK, Delivery
  <2> QED
    BY <2>1, <2>2, <2>3, <2>4 DEF Inv, Table, Stages
<1> QED
  BY <1>2, <1>3 DEF Inv

LEMMA ReaderInv ==
  ASSUME Inv, ReaderReplied \/ NotificationHandled \/ ReadNotification \/ SkipFrame \/ ReadEnds
  PROVE  Inv'
<1>1. Reader \in Writers \ Calls
  BY ConnAssumption DEF Writers
<1>2. TypeOK'
  <2>1. frames' \in 0..MaxFrames
    BY FrameType
    DEF Inv, TypeOK, ReaderReplied, NotificationHandled, ReadNotification, SkipFrame, ReadEnds
  <2>2. reader' \in ReaderStates /\ (reader'.at = "delivering" => reader'.msg.call \in Calls)
    BY ReaderType
    DEF Inv, TypeOK, ReaderReplied, NotificationHandled, ReadNotification, SkipFrame, ReadEnds,
        ReaderStates, Places
  <2>3. SendType'
    BY <1>1
    DEF Inv, TypeOK, SendType, ReaderReplied, NotificationHandled, ReadNotification, SkipFrame,
        ReadEnds
  <2> QED
    BY <2>1, <2>2, <2>3
    DEF Inv, TypeOK, SendType, ReaderReplied, NotificationHandled, ReadNotification, SkipFrame,
        ReadEnds, ReaderStates, Places
<1>3. Table' /\ Delivery' /\ Stages'
  <2>1. UNCHANGED <<pc, outcome, pending, ch>>
    BY DEF ReaderReplied, NotificationHandled, ReadNotification, SkipFrame, ReadEnds
  <2>2. \A d \in Calls : d \in Writers /\ sending'[d] = sending[d]
    BY <1>1 DEF Writers, Inv, TypeOK, ReaderReplied, NotificationHandled, ReadNotification, SkipFrame, ReadEnds
  <2>3. reader' = reader \/ (reader.at # "done" /\ reader'.at # "delivering")
    BY DEF ReaderReplied, NotificationHandled, ReadNotification, SkipFrame, ReadEnds,
           ReadFrame, At
  <2>4. Delivery'
    BY <2>1, <2>2, <2>3 DEF Inv, TypeOK, Delivery
  <2> QED
    BY <2>1, <2>2, <2>3, <2>4 DEF Inv, Table, Stages
<1> QED
  BY <1>2, <1>3 DEF Inv

LEMMA DrainStep ==
  ASSUME Inv, Drain
  PROVE  Inv'
  BY DEF Inv, TypeOK, Table, Delivery, Stages, Answers, Drain, At, NoCall

LEMMA NextInv ==
  ASSUME Inv, [Next]_vars
  PROVE  Inv'
<1>1. CASE UNCHANGED vars
  BY <1>1 DEF vars, Inv, TypeOK, Table, Delivery, Stages
<1>2. CASE \E n \in Notices : Notify(n)
  BY <1>2, SendStep DEF Writers
<1> QED
  BY <1>1, <1>2, SendStep, RegisterStep, ReturnsStep, ResponseStep, DeliverStep, MethodStep,
     ReaderInv, DrainStep DEF Next, ReaderStep

\* The invariant of the connection; what follows are its consequences.
LEMMA Invariance == Spec => []Inv
  BY InitInv, NextInv, PTL DEF Spec

\* Type correctness: the mutex admits one writer at a time, whoever writes.
THEOREM TypeCorrect == Spec => []TypeOK
<1>1. Inv => TypeOK
  BY DEF Inv
<1> QED
  BY <1>1, Invariance, PTL

\* An answer is delivered into an empty, open channel: conn.go's send on the
\* call's channel never blocks the ReadLoop and never panics, for any number of
\* calls and whatever answers the agent repeats.
THEOREM DeliveryIsSafe == Spec => []DeliverySafe
<1>1. Inv => DeliverySafe
  BY DEF Inv, Delivery, DeliverySafe
<1> QED
  BY <1>1, Invariance, PTL

\* The table of pending calls holds calls in progress only.
THEOREM NoEntryLeaks == Spec => []PendingInProgress
<1>1. Inv => PendingInProgress
  BY DEF Inv, Table, PendingInProgress
<1> QED
  BY <1>1, Invariance, PTL

-----------------------------------------------------------------------------
(* Each step of the connection is one of AcpCalls, or none.                *)

Up == reader.at \notin {"draining", "done"}
ContractStep == [Contract!Next]_(Contract!vars)

\* Steps in which no call begins, is answered or ends, nor the ReadLoop.
Quiet == Up' = Up /\ outcome' = outcome /\ \A c \in Calls : Stage(c)' = Stage(c)

LEMMA QuietStep ==
  ASSUME Quiet
  PROVE  ContractStep
  BY DEF Quiet, Up, ContractStep, Contract!vars

\* A step of one call moves its stage alone.
LEMMA StageMoves ==
  ASSUME NEW c \in Calls, NEW s, Stage(c)' = s, \A d \in Calls : d # c => Stage(d)' = Stage(d)
  PROVE  [d \in Calls |-> Stage(d)]' = [[d \in Calls |-> Stage(d)] EXCEPT ![c] = s]
  OBVIOUS

LEMMA BeginContract ==
  ASSUME Inv, NEW c \in Calls, Register(c)
  PROVE  ContractStep
<1>1. Stage(c) = "idle" /\ Stage(c)' = "open" /\ UNCHANGED <<outcome, reader>>
  BY DEF Inv, TypeOK, Stages, Answers, Register, Stage
<1>2. \A d \in Calls : d # c => Stage(d)' = Stage(d)
  BY DEF Inv, TypeOK, Register, Stage
<1>3. Contract!Begin(c)
  BY <1>1, <1>2, StageMoves DEF Contract!Begin
<1> QED
  BY <1>3 DEF ContractStep, Contract!Next

LEMMA ReturnContract ==
  ASSUME Inv, NEW c \in Calls, Unsent(c) \/ TakeAnswer(c) \/ LastLook(c)
  PROVE  ContractStep
<1>1. PICK o : Return(c, o)
  BY DEF Unsent, TakeAnswer, LastLook
<1>2. UNCHANGED reader /\ \A d \in Calls : d # c => Stage(d)' = Stage(d)
  BY DEF Inv, TypeOK, Unsent, TakeAnswer, LastLook, Return, Received, Stage
<1>3. Stage(c)' = "over" /\ outcome' = [outcome EXCEPT ![c] = o]
  BY <1>1 DEF Inv, TypeOK, Return, Stage
<1>4. \/ Stage(c) = "answered" /\ o \in Answers
      \/ Stage(c) = "open" /\ o \in {"unsent", "cancelled"}
      \/ Stage(c) = "open" /\ o = "closed" /\ ~Up
  <2>1. outcome'[c] = o
    BY <1>3 DEF Inv, TypeOK
  <2>2. CASE Unsent(c)
    BY <2>1, <2>2 DEF Inv, TypeOK, Stages, Unsent, Return, Stage, Answers
  <2>3. CASE TakeAnswer(c)
    BY <2>1, <2>3 DEF Inv, TypeOK, Stages, TakeAnswer, Waiting, Return, Outcome, Stage, Answers, Up
  <2>4. CASE LastLook(c)
    BY <2>1, <2>4 DEF Inv, TypeOK, Stages, LastLook, Return, Outcome, Stage, Answers, Up
  <2> QED
    BY <2>2, <2>3, <2>4
<1>5. Contract!Return(c, o)
  BY <1>2, <1>3, <1>4, StageMoves DEF Contract!Return, Contract!Answers, Answers, Up
<1> QED
  BY <1>4, <1>5 DEF ContractStep, Contract!Next, Contract!Answers, Answers

LEMMA DeliverContract ==
  ASSUME Inv, Deliver
  PROVE  ContractStep
<1>0. reader.msg.call \in Calls
  BY DEF Inv, TypeOK, Deliver
<1> PICK c \in Calls : c = reader.msg.call
  BY <1>0
<1>1. reader.msg.answer \in Answers
  BY DEF Inv, TypeOK
<1>2. UNCHANGED outcome /\ Up /\ Up'
  BY DEF Deliver, Up, At
<1>3. \A d \in Calls : d # c => Stage(d)' = Stage(d)
  BY DEF Inv, TypeOK, Deliver, Stage
<1>4. CASE pc[c] = "returned"
  <2>1. Stage(c)' = Stage(c)
    BY <1>4 DEF Deliver, Stage
  <2>2. Quiet
    BY <1>2, <1>3, <2>1 DEF Quiet
  <2> QED
    BY <2>2, QuietStep
<1>5. CASE pc[c] # "returned"
  <2>1. pc[c] \in {"started", "removed"} /\ pc' = pc
    BY <1>1, <1>5 DEF Inv, TypeOK, Delivery, Deliver
  <2>2. ch[c] = "empty" /\ ch'[c] = reader.msg.answer
    BY <1>1 DEF Inv, TypeOK, Deliver
  <2>3. Stage(c) = "open"
    BY <2>1, <2>2 DEF Stage, Answers
  <2>4. Stage(c)' = "answered"
    BY <1>1, <2>1, <2>2 DEF Stage, Answers
  <2>5. [d \in Calls |-> Stage(d)]' = [[d \in Calls |-> Stage(d)] EXCEPT ![c] = "answered"]
    BY <1>1, <1>3, <2>4, StageMoves
  <2>6. Contract!Arrive(c)
    BY <1>1, <1>2, <2>3, <2>5 DEF Contract!Arrive, Up
  <2> QED
    BY <1>1, <2>6 DEF ContractStep, Contract!Next
<1> QED
  BY <1>4, <1>5

LEMMA EndContract ==
  ASSUME Inv, ReadEnds
  PROVE  ContractStep
<1>1. \A c \in Calls : Stage(c)' = Stage(c)
  BY DEF ReadEnds, Stage
<1>2. Up /\ ~Up' /\ UNCHANGED outcome
  BY DEF ReadEnds, Up, At
<1>3. Contract!Down
  BY <1>1, <1>2 DEF Contract!Down, Up
<1> QED
  BY <1>3 DEF ContractStep, Contract!Next

\* The rest is quiet: the drain closes channels of calls that stay open.
LEMMA OthersQuiet ==
  ASSUME Inv, [Next]_vars,
         \A c \in Calls : ~(Register(c) \/ Unsent(c) \/ TakeAnswer(c) \/ LastLook(c)),
         ~Deliver, ~ReadEnds
  PROVE  Quiet
<1>1. CASE UNCHANGED <<pc, outcome, ch>> /\ UNCHANGED Up
  BY <1>1 DEF Quiet, Stage
<1>2. CASE \E c \in Calls : GiveUp(c)
  BY <1>2 DEF Inv, TypeOK, GiveUp, Waiting, Quiet, Stage, Up
<1>3. CASE Drain
  BY <1>3 DEF Inv, TypeOK, Table, Drain, At, Quiet, Stage, Up, Answers
<1> QED
  BY <1>1, <1>2, <1>3
  DEF Next, vars, Acquire, WriteEnds, Notify, CallReturns, Expire, ReadResponse, ReadMethod,
      HandlerReturns, ReaderStep, ReaderReplied, NotificationHandled, ReadNotification, SkipFrame,
      ReadFrame, At, Up

LEMMA NextContract ==
  ASSUME Inv, [Next]_vars
  PROVE  ContractStep
  BY BeginContract, ReturnContract, DeliverContract, EndContract, OthersQuiet, QuietStep

\* The connection keeps the promise of Call: each call ends once, with the
\* answer if one has reached it, and "connection closed" is said of ended
\* connections only.
THEOREM CallsKeepTheirAnswers == Spec => ImplementsCalls
<1>1. Init => Contract!Init
  BY DEF Init, Contract!Init, Stage, At
<1>2. Inv /\ [Next]_vars => [Contract!Next]_(Contract!vars)
  BY NextContract DEF ContractStep
<1> QED
  BY <1>1, <1>2, Invariance, PTL DEF Spec, ImplementsCalls, Contract!Spec
=============================================================================

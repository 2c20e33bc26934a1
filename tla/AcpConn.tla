------------------------------- MODULE AcpConn -------------------------------
(***************************************************************************)
(* The JSON-RPC connection of an ACP session (engine/acp/conn.go): calls   *)
(* that wait for their answer or their context, the single ReadLoop that   *)
(* delivers answers and serves the agent's own requests, and the mutex     *)
(* that both the table of pending calls and every write go through.        *)
(*                                                                         *)
(* A call is identified with its id: nextID never hands one out twice.     *)
(* A write holds the mutex for as long as the pipe takes, so it has a      *)
(* beginning and an end; the other critical sections are one step each and *)
(* need the mutex to be free.                                              *)
(***************************************************************************)
EXTENDS Integers, FiniteSets

CONSTANTS
  Calls,      \* goroutines inside Call, one call each
  Requests,   \* method calls the agent makes of the client
  Notices,    \* goroutines inside Notify
  Reader,     \* the ReadLoop goroutine
  MaxFrames   \* bound: lines read, the end of the stream not counted

Writers == Calls \cup Requests \cup Notices \cup {Reader}

ASSUME ConnAssumption ==
  /\ MaxFrames \in Nat
  /\ Reader \notin Calls \cup Requests \cup Notices
  /\ Calls \cap Requests = {} /\ Calls \cap Notices = {} /\ Requests \cap Notices = {}

VARIABLES
  pc,        \* "idle", "started", "removed" (gave up, its entry is deleted), "returned"
  outcome,   \* what Call returned, "none" before
  expired,   \* the calls whose context is done
  pending,   \* c.pending
  ch,        \* the channel of each call: "empty", "closed" or the answer in its buffer
  sending,   \* where each writer is in send
  served,    \* the agent's requests: "none", "running", "replying"
  reader,    \* the ReadLoop: where it is, and the answer it is delivering
  frames     \* lines read

vars == <<pc, outcome, expired, pending, ch, sending, served, reader, frames>>

\* A result that fits the caller's type; an error object, or a misfit.
Answers == {"ok", "bad"}
NoCall == [call |-> Reader, answer |-> "ok"]
At(place) == [at |-> place, msg |-> NoCall]

MuFree == \A w \in Writers : sending[w] # "writing"

Init ==
  /\ pc = [c \in Calls |-> "idle"]
  /\ outcome = [c \in Calls |-> "none"]
  /\ expired = {}
  /\ pending = {}
  /\ ch = [c \in Calls |-> "empty"]
  /\ sending = [w \in Writers |-> "no"]
  /\ served = [r \in Requests |-> "none"]
  /\ reader = At("reading")
  /\ frames = 0

-----------------------------------------------------------------------------
(* send: the mutex, then the write.  The write ends when the pipe has room *)
(* or is broken; of those who write, only Call acts on Encode's error.     *)

Queue(w) == sending' = [sending EXCEPT ![w] = "queued"]

\* Mutant of Acquire: Encode without the mutex.
AcquireUnlocked(w) ==
  /\ sending[w] = "queued"
  /\ sending' = [sending EXCEPT ![w] = "writing"]
  /\ UNCHANGED <<pc, outcome, expired, pending, ch, served, reader, frames>>

Acquire(w) ==
  /\ sending[w] = "queued"
  /\ MuFree
  /\ sending' = [sending EXCEPT ![w] = "writing"]
  /\ UNCHANGED <<pc, outcome, expired, pending, ch, served, reader, frames>>

WriteEnds(w) ==
  /\ sending[w] = "writing"
  /\ \/ sending' = [sending EXCEPT ![w] = "sent"]
     \/ w \in Calls /\ sending' = [sending EXCEPT ![w] = "failed"]
  /\ UNCHANGED <<pc, outcome, expired, pending, ch, served, reader, frames>>

\* Notify is send and nothing else.
Notify(n) ==
  /\ n \in Notices
  /\ sending[n] = "no"
  /\ Queue(n)
  /\ UNCHANGED <<pc, outcome, expired, pending, ch, served, reader, frames>>

-----------------------------------------------------------------------------
(* Call.                                                                   *)

Waiting(c) == pc[c] = "started" /\ sending[c] = "sent"

Return(c, o) ==
  /\ pc' = [pc EXCEPT ![c] = "returned"]
  /\ outcome' = [outcome EXCEPT ![c] = o]

\* handleCallResponse: what a received value, or the close, makes of the call.
Outcome(value) == IF value = "closed" THEN "closed" ELSE value

\* A receive empties the buffer; a closed channel stays closed.
Received(c) == ch' = [ch EXCEPT ![c] = IF @ = "closed" THEN @ ELSE "empty"]

Register(c) ==
  /\ pc[c] = "idle"
  /\ MuFree
  /\ pc' = [pc EXCEPT ![c] = "started"]
  /\ pending' = pending \cup {c}
  /\ Queue(c)
  /\ UNCHANGED <<outcome, expired, ch, served, reader, frames>>

\* Mutant of Unsent: the entry of a call that could not be sent stays.
UnsentKept(c) ==
  /\ pc[c] = "started"
  /\ sending[c] = "failed"
  /\ MuFree
  /\ Return(c, "unsent")
  /\ UNCHANGED <<expired, pending, ch, sending, served, reader, frames>>

Unsent(c) ==
  /\ pc[c] = "started"
  /\ sending[c] = "failed"
  /\ MuFree
  /\ pending' = pending \ {c}
  /\ Return(c, "unsent")
  /\ UNCHANGED <<expired, ch, sending, served, reader, frames>>

\* The environment: a context ends at any time.  One that has ended before the
\* call is like one that ends as it begins: Call looks at it when it waits.
Expire(c) ==
  /\ c \notin expired
  /\ pc[c] = "started"
  /\ expired' = expired \cup {c}
  /\ UNCHANGED <<pc, outcome, pending, ch, sending, served, reader, frames>>

\* The select of Call picks any of its cases that is ready.
TakeAnswer(c) ==
  /\ Waiting(c)
  /\ ch[c] # "empty"
  /\ Received(c)
  /\ Return(c, Outcome(ch[c]))
  /\ UNCHANGED <<expired, pending, sending, served, reader, frames>>

GiveUp(c) ==
  /\ Waiting(c)
  /\ c \in expired
  /\ MuFree
  /\ pending' = pending \ {c}
  /\ pc' = [pc EXCEPT ![c] = "removed"]
  /\ UNCHANGED <<outcome, expired, ch, sending, served, reader, frames>>

\* Mutant of LastLook: the context's error without a look into the channel.
NoLastLook(c) ==
  /\ pc[c] = "removed"
  /\ Return(c, "cancelled")
  /\ UNCHANGED <<expired, pending, ch, sending, served, reader, frames>>

\* The answer may have come between the expiry and the deletion.
LastLook(c) ==
  /\ pc[c] = "removed"
  /\ Received(c)
  /\ Return(c, IF ch[c] = "empty" THEN "cancelled" ELSE Outcome(ch[c]))
  /\ UNCHANGED <<expired, pending, sending, served, reader, frames>>

-----------------------------------------------------------------------------
(* ReadLoop, one frame at a time.                                          *)

ReadFrame ==
  /\ reader.at = "reading"
  /\ frames < MaxFrames
  /\ frames' = frames + 1

\* Mutant of TakePending: the entry is looked up and left there.
LeavePending(c) == UNCHANGED pending

TakePending(c) == pending' = pending \ {c}

\* handleResponse: an answer to a request the agent has seen, possibly not the
\* first one.  The entry is deleted under the mutex, the answer is delivered
\* after it; an answer nobody waits for is dropped.
ReadResponse(c, a) ==
  /\ ReadFrame
  /\ sending[c] = "sent"
  /\ MuFree
  /\ \/ /\ c \in pending
        /\ TakePending(c)
        /\ reader' = [at |-> "delivering", msg |-> [call |-> c, answer |-> a]]
     \/ /\ c \notin pending
        /\ UNCHANGED <<pending, reader>>
  /\ UNCHANGED <<pc, outcome, expired, ch, sending, served>>

\* A send on the channel of the call: its buffer takes one answer.
Deliver ==
  /\ reader.at = "delivering"
  /\ ch[reader.msg.call] = "empty"
  /\ ch' = [ch EXCEPT ![reader.msg.call] = reader.msg.answer]
  /\ reader' = At("reading")
  /\ UNCHANGED <<pc, outcome, expired, pending, sending, served, frames>>

\* handleMethodCall: a goroutine per request with a handler; without one the
\* ReadLoop itself writes the error.
ReadMethod(r) ==
  /\ ReadFrame
  /\ served[r] = "none"
  /\ \/ /\ served' = [served EXCEPT ![r] = "running"]
        /\ UNCHANGED <<sending, reader>>
     \/ /\ UNCHANGED served
        /\ Queue(Reader)
        /\ reader' = At("replying")
  /\ UNCHANGED <<pc, outcome, expired, pending, ch>>

\* Mutant of HandlerReturns: a handler's error is not reported to the agent.
HandlerReturnsSilently(r) ==
  /\ served[r] = "running"
  /\ \/ served' = [served EXCEPT ![r] = "replying"] /\ Queue(r)
     \/ served' = [served EXCEPT ![r] = "none"] /\ UNCHANGED sending
  /\ UNCHANGED <<pc, outcome, expired, pending, ch, reader, frames>>

\* The handler's result, its error, or a result that cannot be marshalled: all
\* are one reply, whose write error is ignored.
HandlerReturns(r) ==
  /\ served[r] = "running"
  /\ served' = [served EXCEPT ![r] = "replying"]
  /\ Queue(r)
  /\ UNCHANGED <<pc, outcome, expired, pending, ch, reader, frames>>

ReaderReplied ==
  /\ reader.at = "replying"
  /\ sending[Reader] = "sent"
  /\ sending' = [sending EXCEPT ![Reader] = "no"]
  /\ reader' = At("reading")
  /\ UNCHANGED <<pc, outcome, expired, pending, ch, served, frames>>

\* A notification with a handler: the ReadLoop runs it and reads nothing meanwhile.
ReadNotification ==
  /\ ReadFrame
  /\ reader' = At("handling")
  /\ UNCHANGED <<pc, outcome, expired, pending, ch, sending, served>>

NotificationHandled ==
  /\ reader.at = "handling"
  /\ reader' = At("reading")
  /\ UNCHANGED <<pc, outcome, expired, pending, ch, sending, served, frames>>

\* A line that is no object, malformed JSON, a notification nobody handles, a
\* message with neither id nor method.
SkipFrame ==
  /\ ReadFrame
  /\ UNCHANGED <<pc, outcome, expired, pending, ch, sending, served, reader>>

\* End of file, a read error or a line over the limit: the loop is left.
ReadEnds ==
  /\ reader.at = "reading"
  /\ reader' = At("draining")
  /\ UNCHANGED <<pc, outcome, expired, pending, ch, sending, served, frames>>

\* Mutant of Drain: the table is emptied, the channels stay open.
DrainOpen ==
  /\ reader.at = "draining"
  /\ MuFree
  /\ pending' = {}
  /\ reader' = At("done")
  /\ UNCHANGED <<pc, outcome, expired, ch, sending, served, frames>>

\* drainPending, then done is closed.
Drain ==
  /\ reader.at = "draining"
  /\ MuFree
  /\ ch' = [c \in Calls |-> IF c \in pending THEN "closed" ELSE ch[c]]
  /\ pending' = {}
  /\ reader' = At("done")
  /\ UNCHANGED <<pc, outcome, expired, sending, served, frames>>

-----------------------------------------------------------------------------
CallReturns(c) ==
  Unsent(c) \/ TakeAnswer(c) \/ GiveUp(c) \/ LastLook(c)

ReaderStep ==
  Deliver \/ ReaderReplied \/ NotificationHandled \/ Drain

Next ==
  \/ \E w \in Writers : Acquire(w) \/ WriteEnds(w)
  \/ \E n \in Notices : Notify(n)
  \/ \E c \in Calls : Register(c) \/ CallReturns(c) \/ Expire(c) \/ \E a \in Answers : ReadResponse(c, a)
  \/ \E r \in Requests : ReadMethod(r) \/ HandlerReturns(r)
  \/ ReaderStep \/ ReadNotification \/ SkipFrame \/ ReadEnds

Spec == Init /\ [][Next]_vars

\* A goroutine that can run runs, once the mutex stays free if it needs it; a
\* handler returns (PermissionTimeout bounds it); a write ends, because the agent
\* reads its stdin or dies.  Nothing is assumed of answers or of contexts.
FairSpec ==
  /\ Spec
  /\ \A w \in Writers : WF_vars(Acquire(w)) /\ WF_vars(WriteEnds(w))
  /\ \A c \in Calls : WF_vars(CallReturns(c))
  /\ \A r \in Requests : WF_vars(HandlerReturns(r))
  /\ WF_vars(ReaderStep)

-----------------------------------------------------------------------------
(* Properties.                                                             *)

\* Types; and the mutex: one writer at a time.
TypeOK ==
  /\ pc \in [Calls -> {"idle", "started", "removed", "returned"}]
  /\ outcome \in [Calls -> Answers \cup {"none", "closed", "unsent", "cancelled"}]
  /\ expired \subseteq Calls
  /\ pending \subseteq Calls
  /\ ch \in [Calls -> Answers \cup {"empty", "closed"}]
  /\ sending \in [Writers -> {"no", "queued", "writing", "sent", "failed"}]
  /\ served \in [Requests -> {"none", "running", "replying"}]
  /\ reader \in [at : {"reading", "delivering", "replying", "handling", "draining", "done"},
                 msg : [call : Calls \cup {Reader}, answer : Answers]]
  /\ reader.at = "delivering" => reader.msg.call \in Calls
  /\ frames \in 0..MaxFrames
  /\ \A v, w \in Writers : sending[v] = "writing" /\ sending[w] = "writing" => v = w

\* When the ReadLoop sends an answer, the channel has room and is open: the
\* loop never blocks on a caller that is gone, nor panics on a closed channel,
\* whatever duplicates the agent sends and whichever contexts expire.
DeliverySafe == reader.at = "delivering" => ch[reader.msg.call] = "empty"

\* The table holds calls in progress only, and a call whose answer is on its
\* way or there has left it: no entry leaks on any of Call's ways out.
PendingInProgress ==
  \A c \in pending : pc[c] = "started" /\ ch[c] = "empty"

\* A call whose context is done returns, and so does a call that was pending
\* when the ReadLoop ended, without the help of its context.
CallsReturn ==
  \A c \in Calls :
    /\ (pc[c] = "started" /\ c \in expired) ~> (pc[c] = "returned")
    /\ (c \in pending /\ reader.at = "draining") ~> (pc[c] = "returned")

\* Every request of the agent that has a handler is replied to, whatever the
\* handler returns.
RequestsReplied ==
  \A r \in Requests : (served[r] = "running") ~> (sending[r] = "sent")

\* The connection implements what Call promises: see AcpCalls.
Stage(c) ==
  CASE pc[c] = "idle" -> "idle"
    [] pc[c] = "returned" -> "over"
    [] pc[c] \in {"started", "removed"} /\ ch[c] \in Answers -> "answered"
    [] OTHER -> "open"

Contract ==
  INSTANCE AcpCalls WITH stage <- [c \in Calls |-> Stage(c)],
                         up <- reader.at \notin {"draining", "done"}

ImplementsCalls == Contract!Spec
=============================================================================

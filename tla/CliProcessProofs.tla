-------------------------- MODULE CliProcessProofs --------------------------
(***************************************************************************)
(* Type correctness of CliProcess, for any number of senders, stoppers,    *)
(* sends and messages and for every backend and discipline.                *)
(*                                                                         *)
(* Most variables are functions whose values are records, and a step       *)
(* changes a few fields of one of them.  There is a lemma for each kind of *)
(* update; the proof then goes through the actions one by one.             *)
(***************************************************************************)
EXTENDS CliProcess, TLAPS

Subs    == [Gens -> Subprocess]
Readers == [Gens -> Reader]
Calls   == [Senders -> SendCall]
Stops   == [Stoppers -> StopCalls]
Chans   == [Epochs -> ChannelPair]

\* The index sets contain what the initial state uses.
LEMMA Indices == 1 \in Gens /\ 0 \in Epochs
BY CliAssumption DEF Gens, Epochs

-----------------------------------------------------------------------------
(* Readers.                                                                *)

LEMMA ReaderTo ==
  ASSUME loop \in Readers, NEW g \in Gens, NEW pc \in LoopPCs \ {"emit"}
  PROVE  [loop EXCEPT ![g].pc = pc] \in Readers
<1>1. [loop[g] EXCEPT !.pc = pc] \in Reader
  BY DEF Reader, Readers
<1>2. [loop EXCEPT ![g].pc = pc] = [loop EXCEPT ![g] = [loop[g] EXCEPT !.pc = pc]]
  BY DEF Readers
<1> QED
  BY <1>1, <1>2 DEF Readers

LEMMA ReaderSet ==
  ASSUME loop \in Readers, NEW g \in Gens, NEW r \in Reader, loop' = [loop EXCEPT ![g] = r]
  PROVE  loop' \in Readers
BY DEF Readers

LEMMA ParsedType ==
  ASSUME TypeOK, NEW g \in Gens, NEW msgs \in Seq(Lines) \ {<<>>}, Parsed(g, msgs)
  PROVE  loop' \in Readers
<1>1. loop \in Readers /\ epoch \in Epochs
  BY DEF TypeOK, Readers
<1>2. [loop[g] EXCEPT !.pc = "emit", !.sending = msgs, !.target = epoch] \in Reader
  <2>1. loop[g] \in Reader /\ msgs \in Seq(Lines) /\ msgs # <<>>
    BY <1>1 DEF Readers
  <2> QED
    BY <1>1, <2>1 DEF Reader, LoopPCs
<1> QED
  BY <1>1, <1>2, ReaderSet DEF Parsed

LEMMA CancelType ==
  ASSUME TypeOK, NEW g \in Gens, Cancel(g)
  PROVE  loop' \in Readers
<1>1. loop \in Readers
  BY DEF TypeOK, Readers
<1>2. [loop[g] EXCEPT !.cancelled = TRUE] \in Reader
  <2>1. loop[g] \in Reader
    BY <1>1 DEF Readers
  <2> QED
    BY <2>1 DEF Reader
<1>3. loop' = [loop EXCEPT ![g] = [loop[g] EXCEPT !.cancelled = TRUE]]
  BY <1>1 DEF Readers, Cancel
<1> QED
  BY <1>1, <1>2, <1>3, ReaderSet

\* The two readers that do not derive from the one before.
LEMMA FreshReaders ==
  NoLoop \in Reader /\ NewLoop \in Reader /\ [NoLoop EXCEPT !.pc = "end"] \in Reader
<1>1. <<>> \in Seq(Lines)
  OBVIOUS
<1> QED
  BY <1>1, Indices DEF NoLoop, NewLoop, Reader, LoopPCs, TermErrs

-----------------------------------------------------------------------------
(* Subprocesses.                                                           *)

LEMMA SubSet ==
  ASSUME sub \in Subs, NEW g \in Gens, NEW r \in Subprocess, sub' = [sub EXCEPT ![g] = r]
  PROVE  sub' \in Subs
BY DEF Subs

LEMMA SignalledType ==
  ASSUME sub \in Subs, NEW g \in Gens, NEW sig \in Signals
  PROVE  Signalled(sub, g, sig) \in Subs
<1> DEFINE sent == IF sub[g].state # "running" \/ sub[g].sig = "kill" THEN sub[g].sig ELSE sig
<1>1. sub[g] \in Subprocess
  BY DEF Subs
<1>2. sent \in Signals
  BY <1>1 DEF Subprocess
<1>3. Signalled(sub, g, sig) = [sub EXCEPT ![g].sig = sent]
  BY DEF Signalled
<1> HIDE DEF sent
<1>4. [sub[g] EXCEPT !.sig = sent] \in Subprocess
  BY <1>1, <1>2 DEF Subprocess
<1>5. [sub EXCEPT ![g].sig = sent] = [sub EXCEPT ![g] = [sub[g] EXCEPT !.sig = sent]]
  BY DEF Subs
<1> QED
  BY <1>3, <1>4, <1>5 DEF Subs

LEMMA ReapedType ==
  ASSUME sub \in Subs, NEW g \in Gens
  PROVE  [sub EXCEPT ![g].reaped = TRUE] \in Subs
<1>1. [sub[g] EXCEPT !.reaped = TRUE] \in Subprocess
  BY DEF Subs, Subprocess
<1>2. [sub EXCEPT ![g].reaped = TRUE] = [sub EXCEPT ![g] = [sub[g] EXCEPT !.reaped = TRUE]]
  BY DEF Subs
<1> QED
  BY <1>1, <1>2 DEF Subs

LEMMA HasStdinType ==
  ASSUME TypeOK, NEW g \in Gens
  PROVE  HasStdin(g) \in BOOLEAN
BY CliAssumption DEF TypeOK, HasStdin

LEMMA StdinClosedType ==
  ASSUME sub \in Subs, NEW g \in Gens, NEW b \in BOOLEAN
  PROVE  [sub EXCEPT ![g].stdinClosed = b] \in Subs
<1>1. [sub[g] EXCEPT !.stdinClosed = b] \in Subprocess
  BY DEF Subs, Subprocess
<1>2. [sub EXCEPT ![g].stdinClosed = b] = [sub EXCEPT ![g] = [sub[g] EXCEPT !.stdinClosed = b]]
  BY DEF Subs
<1> QED
  BY <1>1, <1>2 DEF Subs

LEMMA FreshSubs == NoSub \in Subprocess /\ \A b \in BOOLEAN : Started(b) \in Subprocess
BY DEF NoSub, Started, Subprocess, Signals

LEMMA PanickedType ==
  ASSUME TypeOK, NEW g \in Gens, Panicked(g)
  PROVE  loop' \in Readers /\ sub' \in Subs
<1>1. loop \in Readers /\ sub \in Subs /\ cmd \in Gens
  BY DEF TypeOK, Readers, Subs
<1>2. <<>> \in Seq(Lines)
  OBVIOUS
<1>3. [loop[g] EXCEPT !.pc = "defer", !.err = "panic", !.sending = <<>>, !.target = 0] \in Reader
  <2>1. loop[g] \in Reader
    BY <1>1 DEF Readers
  <2> QED
    BY <1>2, <2>1, Indices DEF Reader, LoopPCs, TermErrs
<1>4. loop' \in Readers
  BY <1>1, <1>3, ReaderSet DEF Panicked
<1>5. sub' \in Subs
  BY <1>1, SignalledType DEF Panicked, Signals
<1> QED
  BY <1>4, <1>5

-----------------------------------------------------------------------------
(* Channels.                                                               *)

LEMMA ChanSet ==
  ASSUME chan \in Chans, NEW e \in Epochs, NEW r \in ChannelPair, chan' = [chan EXCEPT ![e] = r]
  PROVE  chan' \in Chans
BY DEF Chans

LEMMA DeliverType ==
  ASSUME TypeOK, NEW e \in Epochs, NEW g \in Gens, NEW kind \in Lines, Deliver(e, g, kind)
  PROVE  chan' \in Chans
<1> DEFINE b == Append(chan[e].buf, [kind |-> kind, from |-> g])
<1>1. chan \in Chans /\ chan[e] \in ChannelPair
  BY DEF TypeOK, Chans
<1>2. [kind |-> kind, from |-> g] \in Messages
  BY DEF Messages
<1>3. b \in Seq(Messages)
  BY <1>1, <1>2 DEF ChannelPair
<1>4. chan' = [chan EXCEPT ![e].buf = b]
  BY DEF Deliver
<1> HIDE DEF b
<1>5. [chan[e] EXCEPT !.buf = b] \in ChannelPair
  BY <1>1, <1>3 DEF ChannelPair
<1>6. chan' = [chan EXCEPT ![e] = [chan[e] EXCEPT !.buf = b]]
  BY <1>1, <1>4 DEF Chans
<1> QED
  BY <1>1, <1>5, <1>6, ChanSet

LEMMA CloseDoneType ==
  ASSUME TypeOK, NEW err \in TermErrs, CloseDone(err)
  PROVE  chan' \in Chans /\ finished' \in BOOLEAN /\ termErr' \in TermErrs /\ locked' \in BOOLEAN
<1>1. chan \in Chans /\ epoch \in Epochs
  BY DEF TypeOK, Chans
<1>2. [chan[epoch] EXCEPT !.done = TRUE] \in ChannelPair
  BY <1>1 DEF Chans, ChannelPair
<1>3. chan' = [chan EXCEPT ![epoch] = [chan[epoch] EXCEPT !.done = TRUE]]
  BY <1>1 DEF CloseDone, Chans
<1>4. chan' \in Chans
  BY <1>1, <1>2, <1>3, ChanSet
<1> QED
  BY <1>4 DEF CloseDone

LEMMA CloseOutputType ==
  ASSUME TypeOK, CloseOutput
  PROVE  chan' \in Chans /\ locked' \in BOOLEAN
<1>1. chan \in Chans /\ epoch \in Epochs
  BY DEF TypeOK, Chans
<1>2. [chan[epoch] EXCEPT !.closed = TRUE] \in ChannelPair
  BY <1>1 DEF Chans, ChannelPair
<1>3. chan' = [chan EXCEPT ![epoch] = [chan[epoch] EXCEPT !.closed = TRUE]]
  BY <1>1 DEF CloseOutput, Chans
<1>4. chan' \in Chans
  BY <1>1, <1>2, <1>3, ChanSet
<1> QED
  BY <1>4 DEF CloseOutput

-----------------------------------------------------------------------------
(* Calls of Send and Stop.                                                 *)

LEMMA CallSet ==
  ASSUME snd \in Calls, NEW s \in Senders, NEW r \in SendCall, snd' = [snd EXCEPT ![s] = r]
  PROVE  snd' \in Calls
BY DEF Calls

LEMMA GoToType ==
  ASSUME TypeOK, NEW s \in Senders, NEW pc \in SendPCs, GoTo(s, pc)
  PROVE  snd' \in Calls
<1>1. snd \in Calls
  BY DEF TypeOK, Calls
<1>2. [snd[s] EXCEPT !.pc = pc] \in SendCall
  BY <1>1 DEF Calls, SendCall
<1>3. snd' = [snd EXCEPT ![s] = [snd[s] EXCEPT !.pc = pc]]
  BY <1>1 DEF GoTo, Calls
<1> QED
  BY <1>1, <1>2, <1>3, CallSet

LEMMA ReturnType ==
  ASSUME TypeOK, NEW s \in Senders, Return(s)
  PROVE  snd' \in Calls
<1>1. IdleSender \in SendCall
  BY Indices DEF IdleSender, SendCall, SendPCs, TermErrs
<1>2. snd \in Calls
  BY DEF TypeOK, Calls
<1> QED
  BY <1>1, <1>2, CallSet DEF Return

LEMMA FailType ==
  ASSUME TypeOK, NEW s \in Senders, Fail(s)
  PROVE  snd' \in Calls /\ turn' \in {"open", "result", "closed"}
BY ReturnType DEF Fail

LEMMA SucceedType ==
  ASSUME TypeOK, NEW s \in Senders, Succeed(s)
  PROVE  snd' \in Calls /\ turn' \in {"open", "result", "closed"}
BY ReturnType DEF Succeed, TypeOK

LEMMA SpawnType ==
  ASSUME TypeOK, NEW s \in Senders, NEW pc \in SendPCs, Spawn(s, pc)
  PROVE  gens' \in Gens /\ sub' \in Subs /\ snd' \in Calls
<1>1. gens \in Gens /\ gens + 1 \in Gens /\ gens' = gens + 1
  BY CliAssumption DEF TypeOK, Spawn, Gens
<1>2. snd \in Calls /\ sub \in Subs
  BY DEF TypeOK, Calls, Subs
<1>3. sub' \in Subs
  BY <1>1, <1>2, SubSet, FreshSubs DEF Spawn
<1>4. [snd[s] EXCEPT !.pc = pc, !.new = gens + 1] \in SendCall
  BY <1>1, <1>2 DEF Calls, SendCall
<1>5. snd' \in Calls
  BY <1>2, <1>4, CallSet DEF Spawn
<1> QED
  BY <1>1, <1>3, <1>5

LEMMA StopSet ==
  ASSUME stp \in Stops, NEW t \in Stoppers, NEW r \in StopCalls, stp' = [stp EXCEPT ![t] = r]
  PROVE  stp' \in Stops
BY DEF Stops

LEMMA StopGoToType ==
  ASSUME TypeOK, NEW t \in Stoppers, NEW pc \in StopPCs, StopGoTo(t, pc)
  PROVE  stp' \in Stops
<1>1. stp \in Stops
  BY DEF TypeOK, Stops
<1>2. [stp[t] EXCEPT !.pc = pc] \in StopCalls
  BY <1>1 DEF Stops, StopCalls
<1>3. stp' = [stp EXCEPT ![t] = [stp[t] EXCEPT !.pc = pc]]
  BY <1>1 DEF StopGoTo, Stops
<1> QED
  BY <1>1, <1>2, <1>3, StopSet

LEMMA JoinType ==
  ASSUME TypeOK, NEW t \in Stoppers, Join(t)
  PROVE  stp' \in Stops
<1>1. stp \in Stops /\ epoch \in Epochs
  BY DEF TypeOK, Stops
<1>2. [stp[t] EXCEPT !.pc = "join", !.cmd = 1, !.ch = epoch] \in StopCalls
  BY <1>1, Indices DEF Stops, StopCalls, StopPCs
<1> QED
  BY <1>1, <1>2, StopSet DEF Join

-----------------------------------------------------------------------------
(* The initial state and the steps of the environment and of readLoop.     *)

LEMMA InitType == Init => TypeOK
<1> SUFFICES ASSUME Init PROVE TypeOK
  OBVIOUS
<1>1. UseStreamer \in BOOLEAN /\ caps \in Backends
  BY CliAssumption DEF Init, UseStreamer
<1>2. sub \in Subs
  BY <1>1, FreshSubs DEF Init, Subs
<1>3. loop \in Readers
  BY FreshReaders DEF Init, Readers
<1>4. snd \in Calls
  BY Indices DEF Init, Calls, IdleSender, SendCall, SendPCs, TermErrs
<1>5. stp \in Stops
  BY Indices DEF Init, Stops, StopCalls, StopPCs
<1>6. chan \in Chans
  <2>1. <<>> \in Seq(Messages)
    OBVIOUS
  <2> QED
    BY <2>1 DEF Init, Chans, FreshChannels, ChannelPair
<1>7. /\ epoch \in Epochs /\ cmd \in Gens /\ gens \in Gens
      /\ termErr \in TermErrs
      /\ sends \in 0 .. MaxSends
      /\ turn \in {"open", "result", "closed"}
  BY Indices, CliAssumption DEF Init, TermErrs
<1>8. /\ finished \in BOOLEAN /\ locked \in BOOLEAN /\ replacing \in BOOLEAN
      /\ awaiting \in BOOLEAN /\ stopping \in BOOLEAN
      /\ cmdDone \in {0, 1} /\ stopOnce \in {"new", "running", "done"}
  BY DEF Init
<1> QED
  BY <1>1, <1>2, <1>3, <1>4, <1>5, <1>6, <1>7, <1>8
     DEF TypeOK, Subs, Readers, Calls, Stops, Chans

\* In the steps below the types of the variables an action changes are shown
\* one by one; the others are unchanged.
LEMMA ExitType ==
  ASSUME TypeOK, UNCHANGED caps, NEW g \in Gens, Exit(g)
  PROVE  TypeOK'
<1>1. sub' \in Subs
  <2>1. PICK status \in {"exit0", "exit1"} :
          sub' = [sub EXCEPT ![g] = [sub[g] EXCEPT !.state = status, !.sig = "none"]]
    BY DEF Exit
  <2>2. sub \in Subs /\ sub[g] \in Subprocess
    BY DEF TypeOK, Subs
  <2>3. [sub[g] EXCEPT !.state = status, !.sig = "none"] \in Subprocess
    BY <2>2 DEF Subprocess, Signals
  <2> QED
    BY <2>1, <2>2, <2>3, SubSet
<1> QED
  BY <1>1 DEF Exit, TypeOK, chanVars, ctlVars, Subs

LEMMA ReadType ==
  ASSUME TypeOK, UNCHANGED caps, NEW g \in Gens,
         ReadText(g) \/ ReadResult(g) \/ ReadEOF(g) \/ ParserPanic(g) \/ ReadError(g)
  PROVE  TypeOK'
<1> USE DEF chanVars, ctlVars, Subs, Readers, Chans
<1>0. /\ loop \in Readers /\ sub \in Subs /\ chan \in Chans
      /\ cmd \in Gens /\ epoch \in Epochs
  BY DEF TypeOK
<1>1. CASE ReadText(g)
  <2>1. PICK msgs \in {<<"text">>, <<"text", "window">>} : Parsed(g, msgs)
    BY <1>1 DEF ReadText
  <2>2. /\ <<"text">> \in Seq(Lines) /\ <<"text", "window">> \in Seq(Lines)
        /\ <<"text">> # <<>> /\ <<"text", "window">> # <<>>
    BY DEF Lines
  <2>3. loop' \in Readers
    BY <2>1, <2>2, ParsedType
  <2>4. sub' \in Subs
    <3>1. [sub[g] EXCEPT !.texts = sub[g].texts + 1] \in Subprocess
      BY <1>0 DEF Subprocess
    <3>2. sub' = [sub EXCEPT ![g] = [sub[g] EXCEPT !.texts = sub[g].texts + 1]]
      BY <1>0, <1>1 DEF ReadText
    <3> QED
      BY <1>0, <3>1, <3>2, SubSet
  <2> QED
    BY <1>1, <2>3, <2>4 DEF ReadText, TypeOK
<1>2. CASE ReadResult(g)
  <2>1. <<"result">> \in Seq(Lines) \ {<<>>}
    BY DEF Lines
  <2>2. loop' \in Readers
    BY <1>2, <2>1, ParsedType DEF ReadResult
  <2> QED
    BY <1>2, <2>2 DEF ReadResult, TypeOK
<1>3. CASE ReadEOF(g)
  <2>1. loop' \in Readers
    BY <1>0, <1>3, ReaderTo DEF ReadEOF, LoopPCs
  <2> QED
    BY <1>3, <2>1 DEF ReadEOF, TypeOK
<1>4. CASE ParserPanic(g)
  <2>1. loop' \in Readers /\ sub' \in Subs
    BY <1>4, PanickedType DEF ParserPanic
  <2> QED
    BY <1>4, <2>1 DEF ParserPanic, TypeOK
<1>5. CASE ReadError(g)
  <2>1. CASE chan[epoch].closed
    <3>1. loop' \in Readers /\ sub' \in Subs
      BY <1>5, <2>1, PanickedType DEF ReadError
    <3> QED
      BY <1>5, <2>1, <3>1 DEF ReadError, TypeOK
  <2>2. CASE ~chan[epoch].closed
    <3>1. chan' \in Chans
      <4>1. "error" \in Lines
        BY DEF Lines
      <4> QED
        BY <1>0, <1>5, <2>2, <4>1, DeliverType DEF ReadError
    <3>2. loop' \in Readers
      <4>1. [loop[g] EXCEPT !.pc = "readError", !.err = "scan"] \in Reader
        <5>1. loop[g] \in Reader
          BY <1>0
        <5> QED
          BY <5>1 DEF Reader, LoopPCs, TermErrs
      <4> QED
        BY <1>0, <1>5, <2>2, <4>1, ReaderSet DEF ReadError
    <3> QED
      BY <1>5, <2>2, <3>1, <3>2 DEF ReadError, TypeOK
  <2> QED
    BY <2>1, <2>2
<1> QED
  BY <1>1, <1>2, <1>3, <1>4, <1>5

LEMMA EmitType ==
  ASSUME TypeOK, UNCHANGED caps, NEW g \in Gens,
         KillAfterError(g) \/ Emit(g) \/ EmitCancelled(g) \/ EmitOnClosed(g)
  PROVE  TypeOK'
<1> USE DEF chanVars, ctlVars, Subs, Readers, Chans
<1>0. /\ loop \in Readers /\ sub \in Subs /\ chan \in Chans
      /\ cmd \in Gens /\ epoch \in Epochs
      /\ loop[g] \in Reader
  BY DEF TypeOK
<1>1. CASE KillAfterError(g)
  <2>1. loop' \in Readers
    BY <1>0, <1>1, ReaderTo DEF KillAfterError, LoopPCs
  <2>2. sub' \in Subs
    BY <1>0, <1>1, SignalledType DEF KillAfterError, Signals
  <2> QED
    BY <1>1, <2>1, <2>2 DEF KillAfterError, TypeOK
<1>2. CASE Emit(g)
  <2> DEFINE kind == Head(loop[g].sending)
             rest == Tail(loop[g].sending)
  <2>1. /\ loop[g].sending \in Seq(Lines) /\ loop[g].sending # <<>>
        /\ loop[g].target \in Epochs
    BY <1>0, <1>2 DEF Emit, Reader
  <2>2. kind \in Lines /\ rest \in Seq(Lines)
    BY <2>1
  <2>3. chan' \in Chans
    BY <1>2, <2>1, <2>2, DeliverType DEF Emit
  <2>4. /\ sub' = [sub EXCEPT ![g].results = IF kind = "result" THEN @ + 1 ELSE @]
        /\ loop' = [loop EXCEPT ![g] =
                      IF rest = <<>>
                        THEN [@ EXCEPT !.pc = "scan", !.sending = <<>>, !.target = 0]
                        ELSE [@ EXCEPT !.sending = rest, !.target = epoch]]
    BY <1>2 DEF Emit
  <2> HIDE DEF kind, rest
  <2>5. sub' \in Subs
    <3> DEFINE n == IF kind = "result" THEN sub[g].results + 1 ELSE sub[g].results
    <3>1. sub[g] \in Subprocess
      BY <1>0
    <3>2. n \in Nat
      BY <3>1 DEF Subprocess
    <3>3. sub' = [sub EXCEPT ![g] = [sub[g] EXCEPT !.results = n]]
      BY <1>0, <2>4
    <3> HIDE DEF n
    <3>4. [sub[g] EXCEPT !.results = n] \in Subprocess
      BY <3>1, <3>2 DEF Subprocess
    <3> QED
      BY <1>0, <3>3, <3>4, SubSet
  <2>6. loop' \in Readers
    <3>1. CASE rest = <<>>
      <4>1. <<>> \in Seq(Lines)
        OBVIOUS
      <4>2. [loop[g] EXCEPT !.pc = "scan", !.sending = <<>>, !.target = 0] \in Reader
        BY <1>0, <4>1, Indices DEF Reader, LoopPCs
      <4> QED
        BY <1>0, <2>4, <3>1, <4>2, ReaderSet
    <3>2. CASE rest # <<>>
      <4>1. [loop[g] EXCEPT !.sending = rest, !.target = epoch] \in Reader
        BY <1>0, <2>2, <3>2 DEF Reader
      <4> QED
        BY <1>0, <2>4, <3>2, <4>1, ReaderSet
    <3> QED
      BY <3>1, <3>2
  <2> QED
    BY <1>2, <2>3, <2>5, <2>6 DEF Emit, TypeOK
<1>3. CASE EmitCancelled(g)
  <2>1. loop' \in Readers
    <3>1. <<>> \in Seq(Lines)
      OBVIOUS
    <3>2. [loop[g] EXCEPT !.pc = "defer", !.sending = <<>>, !.target = 0] \in Reader
      BY <1>0, <3>1, Indices DEF Reader, LoopPCs
    <3> QED
      BY <1>0, <1>3, <3>2, ReaderSet DEF EmitCancelled
  <2> QED
    BY <1>3, <2>1 DEF EmitCancelled, TypeOK
<1>4. CASE EmitOnClosed(g)
  <2>1. loop' \in Readers /\ sub' \in Subs
    BY <1>4, PanickedType DEF EmitOnClosed
  <2> QED
    BY <1>4, <2>1 DEF EmitOnClosed, TypeOK
<1> QED
  BY <1>1, <1>2, <1>3, <1>4

LEMMA DeferType ==
  ASSUME TypeOK, UNCHANGED caps, NEW g \in Gens,
         \/ ReadCmd(g) \/ Reap(g) \/ Judge(g) \/ FinalizeSkip(g) \/ FinalizeDone(g)
         \/ FinalizeOutput(g) \/ SignalCmdDone(g)
  PROVE  TypeOK'
<1> USE DEF chanVars, ctlVars, Subs, Readers, Chans
<1>0. /\ loop \in Readers /\ sub \in Subs /\ chan \in Chans
      /\ cmd \in Gens /\ epoch \in Epochs
      /\ loop[g] \in Reader
  BY DEF TypeOK
<1>1. CASE ReadCmd(g)
  <2>1. [loop[g] EXCEPT !.pc = "wait", !.cmd = cmd] \in Reader
    BY <1>0 DEF Reader, LoopPCs
  <2>2. loop' \in Readers
    BY <1>0, <1>1, <2>1, ReaderSet DEF ReadCmd
  <2> QED
    BY <1>1, <2>2 DEF ReadCmd, TypeOK
<1>2. CASE Reap(g)
  <2> DEFINE c == loop[g].cmd
             res == IF sub[c].reaped \/ sub[c].state = "exit1" THEN "exit" ELSE "nil"
  <2>1. /\ loop' = [loop EXCEPT ![g] = [loop[g] EXCEPT !.pc = "judge", !.res = res]]
        /\ sub' = [sub EXCEPT ![c].reaped = TRUE]
    BY <1>0, <1>2 DEF Reap
  <2>2. c \in Gens /\ res \in TermErrs
    BY <1>0 DEF Reader, TermErrs
  <2> HIDE DEF c, res
  <2>3. [loop[g] EXCEPT !.pc = "judge", !.res = res] \in Reader
    BY <1>0, <2>2 DEF Reader, LoopPCs
  <2>4. loop' \in Readers
    BY <1>0, <2>1, <2>3, ReaderSet
  <2>5. sub' \in Subs
    BY <1>0, <2>1, <2>2, ReapedType
  <2> QED
    BY <1>2, <2>4, <2>5 DEF Reap, TypeOK
<1>3. CASE Judge(g)
  <2> DEFINE res == Verdict(g)
  <2>1. loop' = [loop EXCEPT ![g] =
                   [loop[g] EXCEPT !.pc = "finalize", !.res = res, !.err = "nil", !.cmd = 1]]
    BY <1>0, <1>3 DEF Judge
  <2>2. res \in TermErrs
    BY <1>0 DEF Verdict, Reader, TermErrs
  <2> HIDE DEF res
  <2>3. [loop[g] EXCEPT !.pc = "finalize", !.res = res, !.err = "nil", !.cmd = 1] \in Reader
    BY <1>0, <2>2, Indices DEF Reader, LoopPCs, TermErrs
  <2>4. loop' \in Readers
    BY <1>0, <2>1, <2>3, ReaderSet
  <2> QED
    BY <1>3, <2>4 DEF Judge, TypeOK
<1>4. CASE FinalizeSkip(g)
  <2>1. loop' \in Readers
    BY <1>0, <1>4, ReaderTo DEF FinalizeSkip, LoopPCs
  <2> QED
    BY <1>4, <2>1 DEF FinalizeSkip, TypeOK
<1>5. CASE FinalizeDone(g)
  <2>1. loop' \in Readers
    BY <1>0, <1>5, ReaderTo DEF FinalizeDone, LoopPCs
  <2>2. loop[g].res \in TermErrs
    BY <1>0 DEF Reader
  <2>3. chan' \in Chans /\ finished' \in BOOLEAN /\ termErr' \in TermErrs /\ locked' \in BOOLEAN
    BY <1>5, <2>2, CloseDoneType DEF FinalizeDone
  <2> QED
    BY <1>5, <2>1, <2>3 DEF FinalizeDone, TypeOK
<1>6. CASE FinalizeOutput(g)
  <2>1. loop' \in Readers
    BY <1>0, <1>6, ReaderTo DEF FinalizeOutput, LoopPCs
  <2>2. chan' \in Chans /\ locked' \in BOOLEAN
    BY <1>6, CloseOutputType DEF FinalizeOutput
  <2> QED
    BY <1>6, <2>1, <2>2 DEF FinalizeOutput, TypeOK
<1>7. CASE SignalCmdDone(g)
  <2>1. loop' \in Readers
    BY <1>0, <1>7, FreshReaders, ReaderSet DEF SignalCmdDone
  <2> QED
    BY <1>7, <2>1 DEF SignalCmdDone, TypeOK
<1> QED
  BY <1>1, <1>2, <1>3, <1>4, <1>5, <1>6, <1>7

LEMMA ReceiveType ==
  ASSUME TypeOK, UNCHANGED caps, Receive \/ ReceiveClosed
  PROVE  TypeOK'
<1> USE DEF chanVars, ctlVars, Chans
<1>1. CASE Receive
  <2>1. chan \in Chans /\ epoch \in Epochs /\ chan[epoch] \in ChannelPair
    BY DEF TypeOK
  <2>2. Tail(chan[epoch].buf) \in Seq(Messages)
    BY <1>1, <2>1 DEF Receive, ChannelPair
  <2>3. [chan[epoch] EXCEPT !.buf = Tail(chan[epoch].buf)] \in ChannelPair
    BY <2>1, <2>2 DEF ChannelPair
  <2>4. chan' = [chan EXCEPT ![epoch] = [chan[epoch] EXCEPT !.buf = Tail(chan[epoch].buf)]]
    BY <1>1, <2>1 DEF Receive
  <2>5. chan' \in Chans
    BY <2>1, <2>3, <2>4, ChanSet
  <2>6. turn' \in {"open", "result", "closed"}
    BY <1>1 DEF Receive, TypeOK
  <2> QED
    BY <1>1, <2>5, <2>6 DEF Receive, TypeOK
<1>2. CASE ReceiveClosed
  BY <1>2 DEF ReceiveClosed, TypeOK
<1> QED
  BY <1>1, <1>2

-----------------------------------------------------------------------------
(* The steps of Send and Stop.                                             *)

LEMMA SendStdinType ==
  ASSUME TypeOK, UNCHANGED caps, NEW s \in Senders,
         \/ SendBegin(s) \/ Expire(s) \/ Probe(s) \/ Classify(s)
         \/ SendUnsupported(s) \/ TakeStdin(s) \/ WriteStdin(s) \/ WriteFails(s)
  PROVE  TypeOK'
<1> USE DEF chanVars, ctlVars, Subs, Readers, Calls, Stops, Chans
<1>0. /\ loop \in Readers /\ sub \in Subs /\ snd \in Calls /\ stp \in Stops
      /\ cmd \in Gens /\ epoch \in Epochs
      /\ snd[s] \in SendCall
  BY DEF TypeOK
<1>1. CASE SendBegin(s)
  <2>1. snd' \in Calls
    BY <1>0, <1>1, GoToType DEF SendBegin, SendPCs
  <2>2. turn' \in {"open", "result", "closed"} /\ sends' \in 0 .. MaxSends
    BY <1>1, CliAssumption DEF SendBegin, TypeOK
  <2> QED
    BY <1>1, <2>1, <2>2 DEF SendBegin, TypeOK
<1>2. CASE Expire(s)
  <2>1. snd' \in Calls
    <3>1. [snd[s] EXCEPT !.expired = TRUE] \in SendCall
      BY <1>0 DEF SendCall
    <3>2. snd' = [snd EXCEPT ![s] = [snd[s] EXCEPT !.expired = TRUE]]
      BY <1>0, <1>2 DEF Expire
    <3> QED
      BY <1>0, <3>1, <3>2, CallSet
  <2> QED
    BY <1>2, <2>1 DEF Expire, TypeOK
<1>3. CASE Probe(s)
  <2>1. snd' \in Calls
    <3>1. PICK pc \in SendPCs : GoTo(s, pc)
      BY <1>3 DEF Probe, SendPCs
    <3> QED
      BY <3>1, GoToType
  <2> QED
    BY <1>3, <2>1 DEF Probe, TypeOK
<1>4. CASE Classify(s)
  <2>1. snd' \in Calls /\ turn' \in {"open", "result", "closed"}
    <3>1. (GoTo(s, "resume") /\ UNCHANGED turn) \/ Fail(s)
      BY <1>4 DEF Classify
    <3>2. "resume" \in SendPCs
      BY DEF SendPCs
    <3> QED
      BY <3>1, <3>2, GoToType, FailType DEF TypeOK
  <2> QED
    BY <1>4, <2>1 DEF Classify, TypeOK
<1>5. CASE SendUnsupported(s)
  <2>1. snd' \in Calls /\ turn' \in {"open", "result", "closed"}
    BY <1>5, FailType DEF SendUnsupported
  <2> QED
    BY <1>5, <2>1 DEF SendUnsupported, TypeOK
<1>6. CASE TakeStdin(s)
  <2>1. snd' \in Calls
    <3>1. [snd[s] EXCEPT !.pc = "write", !.old = cmd] \in SendCall
      BY <1>0 DEF SendCall, SendPCs, TermErrs
    <3> QED
      BY <1>0, <1>6, <3>1, CallSet DEF TakeStdin
  <2> QED
    BY <1>6, <2>1 DEF TakeStdin, TypeOK
<1>7. CASE WriteStdin(s)
  <2>1. snd' \in Calls /\ turn' \in {"open", "result", "closed"}
    BY <1>7, SucceedType DEF WriteStdin
  <2>2. sub' \in Subs
    <3> DEFINE g == snd[s].old
    <3>1. g \in Gens
      BY <1>0 DEF SendCall
    <3>2. sub' = [sub EXCEPT ![g].accepted = @ + 1]
      BY <1>7 DEF WriteStdin
    <3> HIDE DEF g
    <3>3. [sub[g] EXCEPT !.accepted = sub[g].accepted + 1] \in Subprocess
      BY <1>0, <3>1 DEF Subprocess
    <3>4. sub' = [sub EXCEPT ![g] = [sub[g] EXCEPT !.accepted = sub[g].accepted + 1]]
      BY <1>0, <3>1, <3>2
    <3> QED
      BY <1>0, <3>1, <3>3, <3>4, SubSet
  <2> QED
    BY <1>7, <2>1, <2>2 DEF WriteStdin, TypeOK
<1>8. CASE WriteFails(s)
  <2>1. snd' \in Calls /\ turn' \in {"open", "result", "closed"}
    BY <1>8, FailType DEF WriteFails
  <2> QED
    BY <1>8, <2>1 DEF WriteFails, TypeOK
<1> QED
  BY <1>1, <1>2, <1>3, <1>4, <1>5, <1>6, <1>7, <1>8

LEMMA SendCleanType ==
  ASSUME TypeOK, UNCHANGED caps, NEW s \in Senders,
         \/ CheckResume(s) \/ SpawnCleanFails(s) \/ SpawnClean(s) \/ DrainToken(s)
         \/ CommitClean(s) \/ AbortClean(s) \/ Install(s) \/ StartLoop(s)
  PROVE  TypeOK'
<1> USE DEF chanVars, ctlVars, Subs, Readers, Calls, Stops, Chans
<1>0. /\ loop \in Readers /\ sub \in Subs /\ snd \in Calls /\ stp \in Stops
      /\ cmd \in Gens /\ epoch \in Epochs
      /\ snd[s] \in SendCall
  BY DEF TypeOK
<1>1. CASE CheckResume(s)
  <2>1. snd' \in Calls /\ turn' \in {"open", "result", "closed"}
    <3>1. (GoTo(s, "spawnClean") /\ UNCHANGED turn) \/ Fail(s)
      BY <1>1 DEF CheckResume
    <3>2. "spawnClean" \in SendPCs
      BY DEF SendPCs
    <3> QED
      BY <3>1, <3>2, GoToType, FailType DEF TypeOK
  <2> QED
    BY <1>1, <2>1 DEF CheckResume, TypeOK
<1>2. CASE SpawnCleanFails(s)
  <2>1. snd' \in Calls /\ turn' \in {"open", "result", "closed"}
    BY <1>2, FailType DEF SpawnCleanFails
  <2> QED
    BY <1>2, <2>1 DEF SpawnCleanFails, TypeOK
<1>3. CASE SpawnClean(s)
  <2>1. gens' \in Gens /\ sub' \in Subs /\ snd' \in Calls
    BY <1>3, SpawnType DEF SpawnClean, SendPCs
  <2> QED
    BY <1>3, <2>1 DEF SpawnClean, TypeOK
<1>4. CASE DrainToken(s)
  <2>1. snd' \in Calls
    BY <1>4, GoToType DEF DrainToken, SendPCs
  <2> QED
    BY <1>4, <2>1 DEF DrainToken, TypeOK
<1>5. CASE CommitClean(s)
  <2>1. snd' \in Calls
    BY <1>5, GoToType DEF CommitClean, SendPCs
  <2>2. sub' \in Subs
    <3>1. snd[s].new \in Gens
      BY <1>0 DEF SendCall
    <3> QED
      BY <1>0, <1>5, <3>1, SignalledType DEF CommitClean, Signals
  <2>3. /\ epoch' \in Epochs /\ chan' = chan /\ locked' = locked
        /\ finished' \in BOOLEAN /\ termErr' \in TermErrs
    <3>1. UNCHANGED chanVars \/ (FreshEpoch /\ UNCHANGED <<chan, locked>>)
      BY <1>5 DEF CommitClean
    <3>2. CASE UNCHANGED chanVars
      BY <3>2 DEF TypeOK
    <3>3. CASE FreshEpoch /\ UNCHANGED <<chan, locked>>
      <4>1. epoch \in Nat /\ epoch < MaxSends /\ epoch' = epoch + 1
        BY <1>0, <3>3, CliAssumption DEF FreshEpoch, Epochs
      <4>2. epoch' \in Epochs
        BY <4>1, CliAssumption DEF Epochs
      <4> QED
        BY <3>3, <4>2 DEF FreshEpoch, TermErrs
    <3> QED
      BY <3>1, <3>2, <3>3
  <2> QED
    BY <1>5, <2>1, <2>2, <2>3 DEF CommitClean, TypeOK
<1>6. CASE AbortClean(s)
  <2>1. snd' \in Calls /\ turn' \in {"open", "result", "closed"}
    BY <1>6, FailType DEF AbortClean
  <2>2. sub' \in Subs
    <3>1. snd[s].new \in Gens
      BY <1>0 DEF SendCall
    <3> QED
      BY <1>0, <1>6, <3>1, ReapedType DEF AbortClean
  <2> QED
    BY <1>6, <2>1, <2>2 DEF AbortClean, TypeOK
<1>7. CASE Install(s)
  <2>1. snd' \in Calls
    BY <1>7, GoToType DEF Install, SendPCs
  <2>2. cmd' \in Gens
    BY <1>0, <1>7 DEF Install, SendCall
  <2> QED
    BY <1>7, <2>1, <2>2 DEF Install, TypeOK
<1>8. CASE StartLoop(s)
  <2>1. snd' \in Calls /\ turn' \in {"open", "result", "closed"}
    BY <1>8, SucceedType DEF StartLoop
  <2>2. loop' \in Readers
    <3>1. snd[s].new \in Gens
      BY <1>0 DEF SendCall
    <3> QED
      BY <1>0, <1>8, <3>1, ReaderTo DEF StartLoop, LoopPCs
  <2> QED
    BY <1>8, <2>1, <2>2 DEF StartLoop, TypeOK
<1> QED
  BY <1>1, <1>2, <1>3, <1>4, <1>5, <1>6, <1>7, <1>8

LEMMA SendReplaceType ==
  ASSUME TypeOK, UNCHANGED caps, NEW s \in Senders,
         \/ Claim(s) \/ ClaimFails(s) \/ Interrupt(s) \/ AwaitOld(s)
         \/ AwaitExpired(s) \/ AwaitKilled(s) \/ SpawnReplacement(s)
         \/ SpawnReplacementFails(s) \/ FailReplacement(s) \/ FailOutput(s)
         \/ FailSignal(s)
  PROVE  TypeOK'
<1> USE DEF chanVars, ctlVars, Subs, Readers, Calls, Stops, Chans
<1>0. /\ loop \in Readers /\ sub \in Subs /\ snd \in Calls /\ stp \in Stops
      /\ cmd \in Gens /\ epoch \in Epochs
      /\ snd[s] \in SendCall
  BY DEF TypeOK
<1>1. CASE Claim(s)
  <2>1. snd' \in Calls /\ turn' \in {"open", "result", "closed"}
    <3>1. [snd[s] EXCEPT !.pc = "interrupt", !.old = cmd] \in SendCall
      BY <1>0 DEF SendCall, SendPCs
    <3>2. "spawnClean" \in SendPCs
      BY DEF SendPCs
    <3>3. CASE chan[epoch].done
      BY <1>1, <3>2, <3>3, GoToType, FailType DEF Claim, TypeOK
    <3>4. CASE ~chan[epoch].done
      BY <1>0, <1>1, <3>1, <3>4, CallSet DEF Claim, TypeOK
    <3> QED
      BY <3>3, <3>4
  <2>2. sub' \in Subs
    BY <1>0, <1>1, HasStdinType, StdinClosedType DEF Claim
  <2>3. replacing' \in BOOLEAN
    BY <1>1 DEF Claim, TypeOK
  <2> QED
    BY <1>1, <2>1, <2>2, <2>3 DEF Claim, TypeOK
<1>2. CASE ClaimFails(s)
  <2>1. snd' \in Calls /\ turn' \in {"open", "result", "closed"}
    BY <1>2, FailType DEF ClaimFails
  <2> QED
    BY <1>2, <2>1 DEF ClaimFails, TypeOK
<1>3. CASE Interrupt(s)
  <2>1. snd' \in Calls
    BY <1>3, GoToType DEF Interrupt, SendPCs
  <2>2. loop' \in Readers
    <3>1. snd[s].old \in Gens
      BY <1>0 DEF SendCall
    <3> QED
      BY <1>3, <3>1, CancelType DEF Interrupt
  <2>3. sub' \in Subs
    <3>1. snd[s].old \in Gens
      BY <1>0 DEF SendCall
    <3> QED
      BY <1>0, <1>3, <3>1, SignalledType DEF Interrupt, Signals
  <2> QED
    BY <1>3, <2>1, <2>2, <2>3 DEF Interrupt, TypeOK
<1>4. CASE AwaitOld(s)
  <2>1. snd' \in Calls
    BY <1>4, GoToType DEF AwaitOld, SendPCs
  <2> QED
    BY <1>4, <2>1 DEF AwaitOld, TakeToken, TypeOK
<1>5. CASE AwaitExpired(s)
  <2>1. snd' \in Calls
    BY <1>5, GoToType DEF AwaitExpired, SendPCs
  <2>2. sub' \in Subs
    <3>1. snd[s].old \in Gens
      BY <1>0 DEF SendCall
    <3> QED
      BY <1>0, <1>5, <3>1, SignalledType DEF AwaitExpired, Signals
  <2> QED
    BY <1>5, <2>1, <2>2 DEF AwaitExpired, TypeOK
<1>6. CASE AwaitKilled(s)
  <2>1. snd' \in Calls
    <3>1. [snd[s] EXCEPT !.pc = "fail", !.err = "ctx"] \in SendCall
      BY <1>0 DEF SendCall, SendPCs, TermErrs
    <3> QED
      BY <1>0, <1>6, <3>1, CallSet DEF AwaitKilled
  <2> QED
    BY <1>6, <2>1 DEF AwaitKilled, TakeToken, TypeOK
<1>7. CASE SpawnReplacement(s)
  <2>1. gens' \in Gens /\ sub' \in Subs /\ snd' \in Calls
    BY <1>7, SpawnType DEF SpawnReplacement, SendPCs
  <2> QED
    BY <1>7, <2>1 DEF SpawnReplacement, TypeOK
<1>8. CASE SpawnReplacementFails(s)
  <2>1. snd' \in Calls
    <3>1. [snd[s] EXCEPT !.pc = "fail", !.err = "spawn"] \in SendCall
      BY <1>0 DEF SendCall, SendPCs, TermErrs
    <3> QED
      BY <1>0, <1>8, <3>1, CallSet DEF SpawnReplacementFails
  <2> QED
    BY <1>8, <2>1 DEF SpawnReplacementFails, TypeOK
<1>9. CASE FailReplacement(s)
  <2>1. snd' \in Calls
    BY <1>9, GoToType DEF FailReplacement, SendPCs
  <2>2. /\ chan' \in Chans /\ finished' \in BOOLEAN
        /\ termErr' \in TermErrs /\ locked' \in BOOLEAN
    <3>1. snd[s].err \in TermErrs
      BY <1>0 DEF SendCall
    <3> QED
      BY <1>9, <3>1, CloseDoneType DEF FailReplacement, TypeOK
  <2> QED
    BY <1>9, <2>1, <2>2 DEF FailReplacement, TypeOK
<1>10. CASE FailOutput(s)
  <2>1. snd' \in Calls
    BY <1>10, GoToType DEF FailOutput, SendPCs
  <2>2. chan' \in Chans /\ locked' \in BOOLEAN
    BY <1>10, CloseOutputType DEF FailOutput
  <2> QED
    BY <1>10, <2>1, <2>2 DEF FailOutput, TypeOK
<1>11. CASE FailSignal(s)
  <2>1. snd' \in Calls /\ turn' \in {"open", "result", "closed"}
    BY <1>11, FailType DEF FailSignal
  <2> QED
    BY <1>11, <2>1 DEF FailSignal, TypeOK
<1> QED
  BY <1>1, <1>2, <1>3, <1>4, <1>5, <1>6, <1>7, <1>8, <1>9, <1>10, <1>11

LEMMA StopType ==
  ASSUME TypeOK, UNCHANGED caps, NEW t \in Stoppers,
         \/ StopCall(t) \/ StopFirst(t) \/ StopLater(t) \/ StopSnapshot(t)
         \/ StopTerminate(t) \/ StopEscalate(t) \/ StopTakeToken(t) \/ StopReturn(t)
  PROVE  TypeOK'
<1> USE DEF chanVars, ctlVars, Subs, Readers, Calls, Stops, Chans
<1>0. /\ loop \in Readers /\ sub \in Subs /\ snd \in Calls /\ stp \in Stops
      /\ cmd \in Gens /\ epoch \in Epochs
      /\ stp[t] \in StopCalls
  BY DEF TypeOK
<1>1. CASE StopCall(t)
  <2>1. stp' \in Stops
    BY <1>1, StopGoToType DEF StopCall, StopPCs
  <2> QED
    BY <1>1, <2>1 DEF StopCall, TypeOK
<1>2. CASE StopFirst(t)
  <2>1. stp' \in Stops
    BY <1>2, StopGoToType DEF StopFirst, StopPCs
  <2> QED
    BY <1>2, <2>1 DEF StopFirst, TypeOK
<1>3. CASE StopLater(t)
  <2>1. stp' \in Stops
    BY <1>3, JoinType DEF StopLater
  <2> QED
    BY <1>3, <2>1 DEF StopLater, TypeOK
<1>4. CASE StopSnapshot(t)
  <2>1. sub' \in Subs
    BY <1>0, <1>4, HasStdinType, StdinClosedType DEF StopSnapshot
  <2>2. stp' \in Stops
    <3>1. [stp[t] EXCEPT !.pc = "terminate", !.cmd = cmd] \in StopCalls
      BY <1>0 DEF StopCalls, StopPCs
    <3> QED
      BY <1>0, <1>4, <3>1, StopSet DEF StopSnapshot
  <2> QED
    BY <1>4, <2>1, <2>2 DEF StopSnapshot, TypeOK
<1>5. CASE StopTerminate(t)
  <2>1. stp' \in Stops
    BY <1>5, StopGoToType DEF StopTerminate, StopPCs
  <2>2. loop' \in Readers
    <3>1. stp[t].cmd \in Gens
      BY <1>0 DEF StopCalls
    <3> QED
      BY <1>5, <3>1, CancelType DEF StopTerminate
  <2>3. sub' \in Subs
    <3>1. stp[t].cmd \in Gens
      BY <1>0 DEF StopCalls
    <3> QED
      BY <1>0, <1>5, <3>1, SignalledType DEF StopTerminate, Signals
  <2> QED
    BY <1>5, <2>1, <2>2, <2>3 DEF StopTerminate, TypeOK
<1>6. CASE StopEscalate(t)
  <2>1. stp' \in Stops
    BY <1>6, StopGoToType DEF StopEscalate, StopPCs
  <2>2. sub' \in Subs
    <3>1. stp[t].cmd \in Gens
      BY <1>0 DEF StopCalls
    <3> QED
      BY <1>0, <1>6, <3>1, SignalledType DEF StopEscalate, Signals
  <2> QED
    BY <1>6, <2>1, <2>2 DEF StopEscalate, TypeOK
<1>7. CASE StopTakeToken(t)
  <2>1. stp' \in Stops
    BY <1>7, JoinType DEF StopTakeToken
  <2> QED
    BY <1>7, <2>1 DEF StopTakeToken, TakeToken, TypeOK
<1>8. CASE StopReturn(t)
  <2>1. stp' \in Stops
    BY <1>8, StopGoToType DEF StopReturn, StopPCs
  <2> QED
    BY <1>8, <2>1 DEF StopReturn, TypeOK
<1> QED
  BY <1>1, <1>2, <1>3, <1>4, <1>5, <1>6, <1>7, <1>8

-----------------------------------------------------------------------------
LEMMA NextType ==
  ASSUME TypeOK, [Next]_vars
  PROVE  TypeOK'
<1>1. CASE UNCHANGED vars
  BY <1>1 DEF TypeOK, vars, chanVars, ctlVars
<1>2. CASE Next
  <2>1. UNCHANGED caps
    BY <1>2 DEF Next
  <2>2. ASSUME NEW g \in Gens, Exit(g) \/ LoopNext(g) PROVE TypeOK'
    BY <2>1, <2>2, ExitType, ReadType, EmitType, DeferType DEF LoopNext, LoopStep
  <2>3. ASSUME Receive \/ ReceiveClosed PROVE TypeOK'
    BY <2>1, <2>3, ReceiveType
  <2>4. ASSUME NEW s \in Senders, SendNext(s) PROVE TypeOK'
    BY <2>1, <2>4, SendStdinType, SendCleanType, SendReplaceType DEF SendNext, SendStep
  <2>5. ASSUME NEW t \in Stoppers, StopCall(t) \/ StopStep(t) PROVE TypeOK'
    BY <2>1, <2>5, StopType DEF StopStep
  <2> QED
    BY <1>2, <2>2, <2>3, <2>4, <2>5 DEF Next
<1> QED
  BY <1>1, <1>2

\* Whatever the interleaving of readLoops, Sends and Stops, every variable keeps
\* to its type; in particular cmdDone holds at most the one token its buffer has
\* room for, and a readLoop that is about to emit has a message to emit.
THEOREM TypeCorrect == Spec => []TypeOK
<1>1. TypeOK /\ [Next]_vars => TypeOK'
  BY NextType
<1> QED
  BY <1>1, InitType, PTL DEF Spec

=============================================================================

------------------------- MODULE CliContractProofs -------------------------
(***************************************************************************)
(* CliProcess implements ProcessContract: Err() answers before Output()    *)
(* closes, its answer stands, and only a session that ended without error, *)
(* its output closed, is resumed.  Proved for any number of Stops, any     *)
(* backend, any behaviour of subprocesses and consumer, when the calls of  *)
(* Send do not overlap.  (Two Sends that both find the session ended both  *)
(* resume it; the second discards the channels of the first.)              *)
(*                                                                         *)
(* The inductive invariant ties finishOnce, the error and the two channels *)
(* of an epoch to p.mu: `done` is closed and `output` is not exactly while *)
(* finishLocked holds the lock, the channels of later epochs are fresh,    *)
(* and a Send on its way to resume the session keeps what it found true.   *)
(*                                                                         *)
(* On it rests the session's own safety: the channels of a turn whose      *)
(* subprocess is being replaced stay open; one reader at a time, and       *)
(* nobody left by Stop, for callers that never replace; a result for each  *)
(* clean exit, where a subprocess has one prompt; and no result reported   *)
(* missing that is there.  Each has its hypothesis on the caller, without  *)
(* which the code does not keep it.                                        *)
(***************************************************************************)
EXTENDS CliProcessProofs

OneSender == \A s, t \in Senders : s = t

ChannelsInv ==
  /\ finished <=> chan[epoch].done
  /\ locked <=> (chan[epoch].done /\ ~chan[epoch].closed)
  /\ chan[epoch].closed => chan[epoch].done
  /\ \A e \in Epochs : e > epoch => ~chan[e].done /\ ~chan[e].closed
  /\ ~finished => termErr = "nil"

\* Who is between the two closes of finishLocked.
Closing(g) == loop[g].pc = "closeOutput"
Failing(s) == snd[s].pc = "failOutput"

LockInv ==
  /\ \A g \in Gens : Closing(g) => locked
  /\ \A s \in Senders : Failing(s) => locked
  /\ \A g, h \in Gens : Closing(g) /\ Closing(h) => g = h
  /\ \A g \in Gens, s \in Senders : ~(Closing(g) /\ Failing(s))

\* A Send that decided to resume after a clean exit.
ResumePCs == {"resume", "spawnClean", "drain", "commit"}

ResumeInv ==
  \A s \in Senders :
    /\ snd[s].pc \in ResumePCs => chan[epoch].closed /\ termErr = "nil"
    /\ snd[s].pc = "classify" => chan[epoch].done

Inv == ChannelsInv /\ LockInv /\ ResumeInv

LEMMA InitInv == Init => Inv
<1> SUFFICES ASSUME Init PROVE Inv
  OBVIOUS
<1>1. epoch = 0 /\ epoch \in Epochs /\ termErr = "nil" /\ ~finished /\ ~locked
  BY Indices DEF Init
<1>2. \A e \in Epochs : ~chan[e].done /\ ~chan[e].closed
  BY DEF Init, FreshChannels
<1>3. \A g \in Gens : loop[g].pc # "closeOutput"
  BY DEF Init, NewLoop, NoLoop
<1>4. \A s \in Senders : snd[s].pc = "idle"
  BY DEF Init, IdleSender
<1>5. ChannelsInv
  BY <1>1, <1>2 DEF ChannelsInv
<1>6. LockInv
  BY <1>3, <1>4 DEF LockInv, Closing, Failing
<1>7. ResumeInv
  BY <1>4 DEF ResumeInv, ResumePCs
<1> QED
  BY <1>5, <1>6, <1>7 DEF Inv

-----------------------------------------------------------------------------
(* Most steps leave the ends of the channels, the error and the lock alone *)
(* and bring nobody closer to closing or resuming.                         *)

SameEnds ==
  /\ UNCHANGED <<epoch, termErr, finished, locked>>
  /\ \A e \in Epochs : chan'[e].done = chan[e].done /\ chan'[e].closed = chan[e].closed

QuietLoop == \A g \in Gens : loop'[g].pc = "closeOutput" => loop[g].pc = "closeOutput"

QuietSend ==
  \A s \in Senders :
    /\ snd'[s].pc = "failOutput" => snd[s].pc = "failOutput"
    /\ snd'[s].pc \in {"resume", "spawnClean", "drain", "commit"}
         => \/ snd[s].pc \in {"resume", "spawnClean", "drain", "commit"}
            \/ chan[epoch].closed /\ termErr = "nil"
    /\ snd'[s].pc = "classify" => snd[s].pc = "classify" \/ chan[epoch].done

Quiet == SameEnds /\ QuietLoop /\ QuietSend

LEMMA QuietInv ==
  ASSUME TypeOK, Inv, Quiet
  PROVE  Inv'
<1>1. epoch \in Epochs /\ SameEnds /\ QuietLoop /\ QuietSend
  BY DEF TypeOK, Quiet
<1>2. ChannelsInv'
  BY <1>1 DEF Inv, ChannelsInv, SameEnds
<1>3. LockInv'
  BY <1>1 DEF Inv, LockInv, SameEnds, QuietLoop, QuietSend, Closing, Failing
<1>4. ResumeInv'
  BY <1>1 DEF Inv, ResumeInv, ResumePCs, SameEnds, QuietSend
<1> QED
  BY <1>2, <1>3, <1>4 DEF Inv

LEMMA ExitQuiet ==
  ASSUME NEW g \in Gens, Exit(g)
  PROVE  Quiet
BY DEF Exit, chanVars, Quiet, SameEnds, QuietLoop, QuietSend

LEMMA ReaderQuiet ==
  ASSUME TypeOK, Inv, NEW g \in Gens,
         \/ ReadText(g) \/ ReadResult(g) \/ ReadEOF(g) \/ ParserPanic(g)
         \/ ReadError(g) \/ KillAfterError(g) \/ Emit(g) \/ EmitCancelled(g)
         \/ EmitOnClosed(g) \/ ReadCmd(g) \/ Reap(g) \/ Judge(g) \/ FinalizeSkip(g)
         \/ SignalCmdDone(g)
  PROVE  Quiet
<1> USE DEF chanVars, Readers, Chans, Calls, Quiet, SameEnds, QuietLoop, QuietSend
<1>0. /\ loop \in Readers /\ chan \in Chans /\ snd \in Calls /\ epoch \in Epochs
      /\ ChannelsInv /\ ResumeInv
  BY DEF TypeOK, Inv
<1>1. CASE ReadText(g)
  BY <1>0, <1>1 DEF ReadText, Parsed
<1>2. CASE ReadResult(g)
  BY <1>0, <1>2 DEF ReadResult, Parsed
<1>3. CASE ReadEOF(g)
  BY <1>0, <1>3 DEF ReadEOF
<1>4. CASE ParserPanic(g)
  BY <1>0, <1>4 DEF ParserPanic, Panicked
<1>5. CASE ReadError(g)
  <2>1. UNCHANGED <<epoch, termErr, finished, locked, snd>>
    BY <1>5 DEF ReadError
  <2>2. CASE chan[epoch].closed
    <3>1. Panicked(g) /\ UNCHANGED chan
      BY <1>5, <2>2 DEF ReadError
    <3> QED
      BY <1>0, <2>1, <3>1 DEF Panicked
  <2>3. CASE ~chan[epoch].closed
    <3>1. /\ Deliver(epoch, g, "error") \/ UNCHANGED chan
          /\ loop' = [loop EXCEPT ![g] = [loop[g] EXCEPT !.pc = "readError", !.err = "scan"]]
      BY <1>5, <2>3 DEF ReadError
    <3>2. CASE Deliver(epoch, g, "error")
      BY <1>0, <2>1, <3>1, <3>2 DEF Deliver
    <3>3. CASE UNCHANGED chan
      BY <1>0, <2>1, <3>1, <3>3
    <3> QED
      BY <3>1, <3>2, <3>3
  <2> QED
    BY <2>2, <2>3
<1>6. CASE KillAfterError(g)
  BY <1>0, <1>6 DEF KillAfterError
<1>7. CASE Emit(g)
  BY <1>0, <1>7 DEF Emit, Deliver
<1>8. CASE EmitCancelled(g)
  BY <1>0, <1>8 DEF EmitCancelled
<1>9. CASE EmitOnClosed(g)
  BY <1>0, <1>9 DEF EmitOnClosed, Panicked
<1>10. CASE ReadCmd(g)
  BY <1>0, <1>10 DEF ReadCmd
<1>11. CASE Reap(g)
  BY <1>0, <1>11 DEF Reap
<1>12. CASE Judge(g)
  BY <1>0, <1>12 DEF Judge
<1>13. CASE FinalizeSkip(g)
  BY <1>0, <1>13 DEF FinalizeSkip
<1>14. CASE SignalCmdDone(g)
  BY <1>0, <1>14 DEF SignalCmdDone, NoLoop
<1> QED
  BY <1>1, <1>2, <1>3, <1>4, <1>5, <1>6, <1>7, <1>8, <1>9, <1>10, <1>11, <1>12, <1>13, <1>14

LEMMA SendQuiet ==
  ASSUME TypeOK, Inv, NEW s \in Senders,
         \/ SendBegin(s) \/ Expire(s) \/ Probe(s) \/ Classify(s)
         \/ SendUnsupported(s) \/ TakeStdin(s) \/ WriteStdin(s) \/ WriteFails(s)
         \/ CheckResume(s) \/ SpawnCleanFails(s) \/ SpawnClean(s) \/ DrainToken(s)
         \/ AbortClean(s) \/ Install(s) \/ StartLoop(s)
  PROVE  Quiet
<1> USE DEF chanVars, Readers, Chans, Calls, Quiet, SameEnds, QuietLoop, QuietSend
<1>0. /\ loop \in Readers /\ chan \in Chans /\ snd \in Calls /\ epoch \in Epochs
      /\ ChannelsInv /\ ResumeInv
  BY DEF TypeOK, Inv
<1>1. CASE SendBegin(s)
  <2>1. UNCHANGED <<chanVars, loop>>
    BY <1>1 DEF SendBegin
  <2>2. UNCHANGED snd \/ GoTo(s, "probe")
    BY <1>1 DEF SendBegin
  <2>3. CASE UNCHANGED snd
    BY <2>1, <2>3
  <2>4. CASE GoTo(s, "probe")
    BY <1>0, <2>1, <2>4 DEF GoTo
  <2> QED
    BY <2>2, <2>3, <2>4
<1>2. CASE Expire(s)
  BY <1>0, <1>2 DEF Expire
<1>3. CASE Probe(s)
  BY <1>0, <1>3 DEF Probe, GoTo
<1>4. CASE Classify(s)
  <2>1. UNCHANGED <<chanVars, loop>> /\ ~locked /\ snd[s].pc = "classify"
    BY <1>4 DEF Classify
  <2>2. chan[epoch].closed
    BY <1>0, <2>1 DEF ChannelsInv, ResumeInv
  <2>3. CASE CleanExit
    <3>1. GoTo(s, "resume") /\ termErr = "nil"
      BY <1>4, <2>3 DEF Classify, CleanExit
    <3> QED
      BY <1>0, <2>1, <2>2, <3>1 DEF GoTo
  <2>4. CASE ~CleanExit
    <3>1. Return(s)
      BY <1>4, <2>4 DEF Classify, Fail
    <3> QED
      BY <1>0, <2>1, <3>1 DEF Return, IdleSender
  <2> QED
    BY <2>3, <2>4
<1>5. CASE SendUnsupported(s)
  BY <1>0, <1>5 DEF SendUnsupported, Fail, Return, IdleSender
<1>6. CASE TakeStdin(s)
  BY <1>0, <1>6 DEF TakeStdin
<1>7. CASE WriteStdin(s)
  BY <1>0, <1>7 DEF WriteStdin, Succeed, Return, IdleSender
<1>8. CASE WriteFails(s)
  BY <1>0, <1>8 DEF WriteFails, Fail, Return, IdleSender
<1>9. CASE CheckResume(s)
  <2>1. UNCHANGED <<chanVars, loop>> /\ snd[s].pc = "resume"
    BY <1>9 DEF CheckResume
  <2>2. Return(s) \/ GoTo(s, "spawnClean")
    BY <1>9 DEF CheckResume, Fail
  <2>3. CASE Return(s)
    BY <1>0, <2>1, <2>3 DEF Return, IdleSender
  <2>4. CASE GoTo(s, "spawnClean")
    BY <1>0, <2>1, <2>4 DEF GoTo
  <2> QED
    BY <2>2, <2>3, <2>4
<1>10. CASE SpawnCleanFails(s)
  BY <1>0, <1>10 DEF SpawnCleanFails, Fail, Return, IdleSender
<1>11. CASE SpawnClean(s)
  BY <1>0, <1>11 DEF SpawnClean, Spawn
<1>12. CASE DrainToken(s)
  BY <1>0, <1>12 DEF DrainToken, GoTo
<1>13. CASE AbortClean(s)
  BY <1>0, <1>13 DEF AbortClean, Fail, Return, IdleSender
<1>14. CASE Install(s)
  BY <1>0, <1>14 DEF Install, GoTo
<1>15. CASE StartLoop(s)
  BY <1>0, <1>15 DEF StartLoop, Succeed, Return, IdleSender
<1> QED
  BY <1>1, <1>2, <1>3, <1>4, <1>5, <1>6, <1>7, <1>8, <1>9, <1>10, <1>11, <1>12, <1>13, <1>14, <1>15

LEMMA ReplaceQuiet ==
  ASSUME TypeOK, Inv, NEW s \in Senders,
         \/ Claim(s) \/ ClaimFails(s) \/ Interrupt(s) \/ AwaitOld(s)
         \/ AwaitExpired(s) \/ AwaitKilled(s) \/ SpawnReplacement(s)
         \/ SpawnReplacementFails(s) \/ FailSignal(s)
  PROVE  Quiet
<1> USE DEF chanVars, Readers, Chans, Calls, Quiet, SameEnds, QuietLoop, QuietSend
<1>0. /\ loop \in Readers /\ chan \in Chans /\ snd \in Calls /\ epoch \in Epochs
      /\ ChannelsInv /\ ResumeInv
  BY DEF TypeOK, Inv
<1>1. CASE Claim(s)
  <2>1. UNCHANGED <<chanVars, loop>> /\ ~locked
    BY <1>1 DEF Claim
  <2>2. CASE chan[epoch].done /\ termErr = "nil"
    <3>1. GoTo(s, "spawnClean")
      BY <1>1, <2>2 DEF Claim
    <3>2. chan[epoch].closed
      BY <1>0, <2>1, <2>2 DEF ChannelsInv
    <3> QED
      BY <1>0, <2>1, <2>2, <3>1, <3>2 DEF GoTo
  <2>3. CASE chan[epoch].done /\ termErr # "nil"
    <3>1. Return(s)
      BY <1>1, <2>3 DEF Claim, Fail
    <3> QED
      BY <1>0, <2>1, <3>1 DEF Return, IdleSender
  <2>4. CASE ~chan[epoch].done
    <3>1. snd' = [snd EXCEPT ![s] = [snd[s] EXCEPT !.pc = "interrupt", !.old = cmd]]
      BY <1>1, <2>4 DEF Claim
    <3> QED
      BY <1>0, <2>1, <3>1
  <2> QED
    BY <2>2, <2>3, <2>4
<1>2. CASE ClaimFails(s)
  BY <1>0, <1>2 DEF ClaimFails, Fail, Return, IdleSender
<1>3. CASE Interrupt(s)
  BY <1>0, <1>3 DEF Interrupt, GoTo, Cancel
<1>4. CASE AwaitOld(s)
  BY <1>0, <1>4 DEF AwaitOld, GoTo
<1>5. CASE AwaitExpired(s)
  BY <1>0, <1>5 DEF AwaitExpired, GoTo
<1>6. CASE AwaitKilled(s)
  BY <1>0, <1>6 DEF AwaitKilled
<1>7. CASE SpawnReplacement(s)
  BY <1>0, <1>7 DEF SpawnReplacement, Spawn
<1>8. CASE SpawnReplacementFails(s)
  BY <1>0, <1>8 DEF SpawnReplacementFails
<1>9. CASE FailSignal(s)
  BY <1>0, <1>9 DEF FailSignal, Fail, Return, IdleSender
<1> QED
  BY <1>1, <1>2, <1>3, <1>4, <1>5, <1>6, <1>7, <1>8, <1>9

LEMMA StopQuiet ==
  ASSUME TypeOK, Inv, NEW t \in Stoppers,
         \/ StopCall(t) \/ StopFirst(t) \/ StopLater(t) \/ StopSnapshot(t)
         \/ StopTerminate(t) \/ StopEscalate(t) \/ StopTakeToken(t) \/ StopReturn(t)
  PROVE  Quiet
<1> USE DEF chanVars, Readers, Chans, Calls, Quiet, SameEnds, QuietLoop, QuietSend
<1>0. /\ loop \in Readers /\ chan \in Chans /\ snd \in Calls /\ epoch \in Epochs
      /\ ChannelsInv /\ ResumeInv
  BY DEF TypeOK, Inv
<1>1. CASE StopCall(t)
  BY <1>0, <1>1 DEF StopCall
<1>2. CASE StopFirst(t)
  BY <1>0, <1>2 DEF StopFirst
<1>3. CASE StopLater(t)
  BY <1>0, <1>3 DEF StopLater
<1>4. CASE StopSnapshot(t)
  BY <1>0, <1>4 DEF StopSnapshot
<1>5. CASE StopTerminate(t)
  BY <1>0, <1>5 DEF StopTerminate, Cancel
<1>6. CASE StopEscalate(t)
  BY <1>0, <1>6 DEF StopEscalate
<1>7. CASE StopTakeToken(t)
  BY <1>0, <1>7 DEF StopTakeToken
<1>8. CASE StopReturn(t)
  BY <1>0, <1>8 DEF StopReturn
<1> QED
  BY <1>1, <1>2, <1>3, <1>4, <1>5, <1>6, <1>7, <1>8

LEMMA ReceiveQuiet ==
  ASSUME TypeOK, Receive \/ ReceiveClosed
  PROVE  Quiet
<1>1. chan \in Chans
  BY DEF TypeOK, Chans
<1>2. UNCHANGED <<epoch, termErr, finished, locked, loop, snd>>
  BY DEF Receive, ReceiveClosed, chanVars
<1>3. SameEnds
  <2>1. CASE Receive
    BY <1>1, <1>2, <2>1 DEF Receive, SameEnds, Chans
  <2>2. CASE ReceiveClosed
    BY <1>2, <2>2 DEF ReceiveClosed, SameEnds, chanVars
  <2> QED
    BY <2>1, <2>2
<1> QED
  BY <1>2, <1>3 DEF Quiet, QuietLoop, QuietSend

-----------------------------------------------------------------------------
(* The steps that close or replace channels.                               *)

LEMMA CloseDoneInv ==
  ASSUME TypeOK, ChannelsInv, ~locked, ~finished, UNCHANGED epoch,
         NEW err \in TermErrs, CloseDone(err)
  PROVE  /\ ChannelsInv'
         /\ locked' /\ chan'[epoch].done /\ ~chan'[epoch].closed
         /\ \A e \in Epochs : chan'[e].closed = chan[e].closed
<1>1. chan \in Chans /\ epoch \in Epochs /\ epoch \in Nat
  BY CliAssumption DEF TypeOK, Chans, Epochs
<1>2. finished' /\ locked' /\ termErr' = err /\ epoch' = epoch
  BY DEF CloseDone
<1>3. /\ chan'[epoch].done = TRUE
      /\ chan'[epoch].closed = chan[epoch].closed
      /\ \A e \in Epochs : e # epoch => chan'[e] = chan[e]
  BY <1>1 DEF CloseDone, Chans, ChannelPair
<1>4. ~chan[epoch].done /\ ~chan[epoch].closed
  BY DEF ChannelsInv
<1>5. \A e \in Epochs : e > epoch => ~chan'[e].done /\ ~chan'[e].closed
  BY <1>1, <1>3 DEF ChannelsInv, Epochs
<1>6. ChannelsInv'
  BY <1>2, <1>3, <1>4, <1>5 DEF ChannelsInv
<1> QED
  BY <1>2, <1>3, <1>4, <1>6

LEMMA CloseOutputInv ==
  ASSUME TypeOK, ChannelsInv, locked, UNCHANGED <<epoch, termErr, finished>>, CloseOutput
  PROVE  /\ ChannelsInv'
         /\ ~locked' /\ chan'[epoch].done /\ chan'[epoch].closed
<1>1. chan \in Chans /\ epoch \in Epochs /\ epoch \in Nat
  BY CliAssumption DEF TypeOK, Chans, Epochs
<1>2. ~locked' /\ UNCHANGED <<epoch, termErr, finished>>
  BY DEF CloseOutput
<1>3. /\ chan'[epoch].closed = TRUE
      /\ chan'[epoch].done = chan[epoch].done
      /\ \A e \in Epochs : e # epoch => chan'[e] = chan[e]
  BY <1>1 DEF CloseOutput, Chans, ChannelPair
<1>4. chan[epoch].done /\ ~chan[epoch].closed
  BY DEF ChannelsInv
<1>5. \A e \in Epochs : e > epoch => ~chan'[e].done /\ ~chan'[e].closed
  BY <1>1, <1>3 DEF ChannelsInv, Epochs
<1>6. ChannelsInv'
  BY <1>2, <1>3, <1>4, <1>5 DEF ChannelsInv
<1> QED
  BY <1>2, <1>3, <1>4, <1>6

LEMMA QuietPhase ==
  ASSUME TypeOK, Quiet
  PROVE  UNCHANGED <<Phase, termErr>>
<1>1. epoch \in Epochs /\ epoch' = epoch /\ termErr' = termErr
  BY DEF TypeOK, Quiet, SameEnds
<1>2. chan'[epoch].done = chan[epoch].done /\ chan'[epoch].closed = chan[epoch].closed
  BY <1>1 DEF Quiet, SameEnds
<1> QED
  BY <1>1, <1>2 DEF Phase

\* A step of the contract, or one the contract does not see.
ContractStep == Contract!Next \/ UNCHANGED <<Phase, termErr>>

LEMMA QuietStep ==
  ASSUME TypeOK, Inv, Quiet
  PROVE  Inv' /\ ContractStep
BY QuietInv, QuietPhase DEF ContractStep

\* close(done): the contract's End.
LEMMA CloseDoneStep ==
  ASSUME TypeOK, Inv, ~locked, ~finished, UNCHANGED epoch,
         NEW err \in TermErrs, CloseDone(err)
  PROVE  ContractStep
<1>1. ~chan[epoch].done /\ ~chan[epoch].closed
  BY DEF Inv, ChannelsInv
<1>2. chan'[epoch].done /\ ~chan'[epoch].closed /\ epoch' = epoch
  BY CloseDoneInv DEF Inv
<1>3. Phase = "live" /\ Phase' = "ended"
  BY <1>1, <1>2 DEF Phase
<1>4. termErr' \in TermErrs
  BY DEF CloseDone
<1> QED
  BY <1>3, <1>4 DEF ContractStep, Contract!Next, Contract!End

\* close(output): the contract's Close.
LEMMA CloseOutputStep ==
  ASSUME TypeOK, Inv, locked, UNCHANGED <<epoch, termErr, finished>>, CloseOutput
  PROVE  ContractStep
<1>1. chan[epoch].done /\ ~chan[epoch].closed
  BY DEF Inv, ChannelsInv
<1>2. chan'[epoch].closed /\ epoch' = epoch
  BY CloseOutputInv DEF Inv
<1>3. Phase = "ended" /\ Phase' = "closed" /\ termErr' = termErr
  BY <1>1, <1>2 DEF Phase
<1> QED
  BY <1>3 DEF ContractStep, Contract!Next, Contract!Close

LEMMA FinalizeStep ==
  ASSUME TypeOK, Inv, NEW g \in Gens, FinalizeDone(g) \/ FinalizeOutput(g)
  PROVE  Inv' /\ ContractStep
<1>0. loop \in Readers /\ epoch \in Epochs /\ ChannelsInv /\ LockInv /\ ResumeInv
  BY DEF TypeOK, Readers, Inv
<1>1. CASE FinalizeDone(g)
  <2>1. /\ ~locked /\ ~finished /\ CloseDone(loop[g].res)
        /\ loop' = [loop EXCEPT ![g].pc = "closeOutput"]
        /\ UNCHANGED <<epoch, snd>>
    BY <1>1 DEF FinalizeDone
  <2>2. loop[g].res \in TermErrs
    BY <1>0 DEF Readers, Reader
  <2>3. ChannelsInv' /\ locked' /\ chan'[epoch].done
    BY <1>0, <2>1, <2>2, CloseDoneInv
  <2>4. ContractStep
    BY <2>1, <2>2, CloseDoneStep
  <2>5. \A h \in Gens : loop'[h].pc = "closeOutput" => h = g
    <3>1. \A h \in Gens : loop[h].pc # "closeOutput"
      BY <1>0, <2>1 DEF LockInv, Closing
    <3> QED
      BY <1>0, <2>1, <3>1 DEF Readers
  <2>6. \A s \in Senders : snd'[s].pc # "failOutput"
    BY <1>0, <2>1 DEF LockInv, Failing
  <2>7. LockInv'
    BY <2>3, <2>5, <2>6 DEF LockInv, Closing, Failing
  <2>8. \A s \in Senders : snd'[s].pc \notin ResumePCs
    <3>1. ~chan[epoch].closed
      BY <1>0, <2>1 DEF ChannelsInv
    <3> QED
      BY <1>0, <2>1, <3>1 DEF ResumeInv
  <2>9. ResumeInv'
    BY <2>1, <2>3, <2>8 DEF ResumeInv, ResumePCs
  <2> QED
    BY <2>3, <2>4, <2>7, <2>9 DEF Inv
<1>2. CASE FinalizeOutput(g)
  <2>1. /\ loop[g].pc = "closeOutput" /\ CloseOutput
        /\ loop' = [loop EXCEPT ![g].pc = "signal"]
        /\ UNCHANGED <<epoch, termErr, finished, snd>>
    BY <1>2 DEF FinalizeOutput
  <2>2. locked
    BY <1>0, <2>1 DEF LockInv, Closing
  <2>3. ChannelsInv' /\ chan'[epoch].done /\ chan'[epoch].closed
    BY <1>0, <2>1, <2>2, CloseOutputInv
  <2>4. ContractStep
    BY <2>1, <2>2, CloseOutputStep
  <2>5. \A h \in Gens : loop'[h].pc # "closeOutput"
    <3>1. \A h \in Gens : loop[h].pc = "closeOutput" => h = g
      BY <1>0, <2>1 DEF LockInv, Closing
    <3> QED
      BY <1>0, <2>1, <3>1 DEF Readers
  <2>6. \A s \in Senders : snd'[s].pc # "failOutput"
    BY <1>0, <2>1 DEF LockInv, Closing, Failing
  <2>7. LockInv'
    BY <2>5, <2>6 DEF LockInv, Closing, Failing
  <2>8. ResumeInv'
    BY <1>0, <2>1, <2>3 DEF ResumeInv, ResumePCs
  <2> QED
    BY <2>3, <2>4, <2>7, <2>8 DEF Inv
<1> QED
  BY <1>1, <1>2

LEMMA FailStep ==
  ASSUME TypeOK, Inv, OneSender, NEW s \in Senders, FailReplacement(s) \/ FailOutput(s)
  PROVE  Inv' /\ ContractStep
<1>0. snd \in Calls /\ epoch \in Epochs /\ ChannelsInv /\ LockInv /\ ResumeInv
  BY DEF TypeOK, Calls, Inv
<1>1. CASE FailReplacement(s) /\ finished
  <2>1. GoTo(s, "failSignal") /\ UNCHANGED <<chan, epoch, termErr, finished, locked, loop>>
    BY <1>1 DEF FailReplacement
  <2>2. SameEnds /\ QuietLoop
    BY <2>1 DEF SameEnds, QuietLoop
  <2>3. QuietSend
    BY <1>0, <2>1 DEF QuietSend, GoTo, Calls
  <2> QED
    BY <2>2, <2>3, QuietStep DEF Quiet
<1>2. CASE FailReplacement(s) /\ ~finished
  <2>1. /\ ~locked /\ ~finished /\ CloseDone(snd[s].err)
        /\ snd' = [snd EXCEPT ![s].pc = "failOutput"]
        /\ UNCHANGED <<epoch, loop>>
    BY <1>2 DEF FailReplacement, GoTo
  <2>2. snd[s].err \in TermErrs
    BY <1>0 DEF Calls, SendCall
  <2>3. ChannelsInv' /\ locked' /\ chan'[epoch].done
    BY <1>0, <2>1, <2>2, CloseDoneInv
  <2>4. ContractStep
    BY <2>1, <2>2, CloseDoneStep
  <2>5. \A g \in Gens : loop'[g].pc # "closeOutput"
    BY <1>0, <2>1 DEF LockInv, Closing
  <2>6. LockInv'
    BY <2>3, <2>5 DEF LockInv, Closing, Failing
  <2>7. \A t \in Senders : snd'[t].pc = "failOutput"
    BY <1>0, <2>1 DEF OneSender, Calls
  <2>8. ResumeInv'
    BY <2>7 DEF ResumeInv, ResumePCs
  <2> QED
    BY <2>3, <2>4, <2>6, <2>8 DEF Inv
<1>3. CASE FailOutput(s)
  <2>1. /\ snd[s].pc = "failOutput" /\ CloseOutput
        /\ snd' = [snd EXCEPT ![s].pc = "failSignal"]
        /\ UNCHANGED <<epoch, termErr, finished, loop>>
    BY <1>3 DEF FailOutput, GoTo
  <2>2. locked
    BY <1>0, <2>1 DEF LockInv, Failing
  <2>3. ChannelsInv'
    BY <1>0, <2>1, <2>2, CloseOutputInv
  <2>4. ContractStep
    BY <2>1, <2>2, CloseOutputStep
  <2>5. \A g \in Gens : loop'[g].pc # "closeOutput"
    BY <1>0, <2>1 DEF LockInv, Closing, Failing
  <2>6. \A t \in Senders : snd'[t].pc = "failSignal"
    BY <1>0, <2>1 DEF OneSender, Calls
  <2>7. LockInv' /\ ResumeInv'
    BY <2>5, <2>6 DEF LockInv, ResumeInv, ResumePCs, Closing, Failing
  <2> QED
    BY <2>3, <2>4, <2>7 DEF Inv
<1> QED
  BY <1>1, <1>2, <1>3

\* The contract's Resume: the next epoch begins with fresh channels.
LEMMA CommitStep ==
  ASSUME TypeOK, Inv, OneSender, NEW s \in Senders, CommitClean(s)
  PROVE  Inv' /\ ContractStep
<1>0. /\ snd \in Calls /\ epoch \in Epochs /\ epoch \in Nat
      /\ ChannelsInv /\ LockInv /\ ResumeInv
  BY CliAssumption DEF TypeOK, Calls, Inv, Epochs
<1>1. snd[s].pc = "commit" /\ ~locked /\ loop' = loop
  BY DEF CommitClean
<1>2. CASE stopping
  <2>1. GoTo(s, "abort") /\ UNCHANGED chanVars
    BY <1>2 DEF CommitClean
  <2>2. SameEnds /\ QuietLoop
    BY <1>1, <2>1 DEF SameEnds, QuietLoop, chanVars
  <2>3. QuietSend
    BY <1>0, <2>1 DEF QuietSend, GoTo, Calls
  <2> QED
    BY <2>2, <2>3, QuietStep DEF Quiet
<1>3. CASE ~stopping
  <2>1. FreshEpoch /\ GoTo(s, "install") /\ UNCHANGED <<chan, locked>>
    BY <1>3 DEF CommitClean
  <2>2. /\ epoch < MaxSends /\ epoch' = epoch + 1
        /\ ~finished' /\ termErr' = "nil" /\ ~locked' /\ chan' = chan
    BY <1>1, <2>1 DEF FreshEpoch
  <2>3. epoch' \in Epochs /\ epoch' > epoch
    BY <1>0, <2>2, CliAssumption DEF Epochs
  <2>4. chan[epoch].closed /\ termErr = "nil"
    BY <1>0, <1>1 DEF ResumeInv, ResumePCs
  <2>5. \A e \in Epochs : e > epoch => ~chan[e].done /\ ~chan[e].closed
    BY <1>0 DEF ChannelsInv
  <2>6. ~chan[epoch'].done /\ ~chan[epoch'].closed
    BY <2>3, <2>5
  <2>7. \A e \in Epochs : e > epoch' => ~chan[e].done /\ ~chan[e].closed
    BY <1>0, <2>2, <2>5 DEF Epochs
  <2>8. ChannelsInv'
    BY <2>2, <2>6, <2>7 DEF ChannelsInv
  <2>9. \A t \in Senders : snd'[t].pc = "install"
    BY <1>0, <2>1 DEF OneSender, GoTo, Calls
  <2>10. \A g \in Gens : loop'[g].pc # "closeOutput"
    BY <1>0, <1>1 DEF LockInv, Closing
  <2>11. LockInv' /\ ResumeInv'
    BY <2>9, <2>10 DEF LockInv, ResumeInv, ResumePCs, Closing, Failing
  <2>12. Phase = "closed" /\ Phase' = "live"
    BY <2>2, <2>4, <2>6 DEF Phase
  <2>13. ContractStep
    BY <2>2, <2>4, <2>12 DEF ContractStep, Contract!Next, Contract!Resume
  <2> QED
    BY <2>8, <2>11, <2>13 DEF Inv
<1> QED
  BY <1>2, <1>3

-----------------------------------------------------------------------------
LEMMA LoopContract ==
  ASSUME TypeOK, Inv, NEW g \in Gens, LoopNext(g)
  PROVE  Inv' /\ ContractStep
<1>1. CASE FinalizeDone(g) \/ FinalizeOutput(g)
  BY <1>1, FinalizeStep
<1>2. CASE ~(FinalizeDone(g) \/ FinalizeOutput(g))
  BY <1>2, ReaderQuiet, QuietStep DEF LoopNext, LoopStep
<1> QED
  BY <1>1, <1>2

LEMMA SendContract ==
  ASSUME TypeOK, Inv, OneSender, NEW s \in Senders, SendNext(s)
  PROVE  Inv' /\ ContractStep
<1>1. CASE FailReplacement(s) \/ FailOutput(s)
  BY <1>1, FailStep
<1>2. CASE CommitClean(s)
  BY <1>2, CommitStep
<1>3. CASE ~(FailReplacement(s) \/ FailOutput(s) \/ CommitClean(s))
  BY <1>3, SendQuiet, ReplaceQuiet, QuietStep DEF SendNext, SendStep
<1> QED
  BY <1>1, <1>2, <1>3

LEMMA NextContract ==
  ASSUME TypeOK, Inv, OneSender, [Next]_vars
  PROVE  Inv' /\ ContractStep
<1>1. CASE \E g \in Gens : Exit(g) \/ LoopNext(g)
  BY <1>1, ExitQuiet, QuietStep, LoopContract
<1>2. CASE Receive \/ ReceiveClosed
  BY <1>2, ReceiveQuiet, QuietStep
<1>3. CASE \E s \in Senders : SendNext(s)
  BY <1>3, SendContract
<1>4. CASE \E t \in Stoppers : StopCall(t) \/ StopStep(t)
  BY <1>4, StopQuiet, QuietStep DEF StopStep
<1>5. CASE UNCHANGED vars
  <2>1. Quiet
    BY <1>5 DEF vars, chanVars, Quiet, SameEnds, QuietLoop, QuietSend
  <2> QED
    BY <2>1, QuietStep
<1> QED
  BY <1>1, <1>2, <1>3, <1>4, <1>5 DEF Next

\* CliProcess implements the contract of the Process interface, for callers
\* whose Sends do not overlap: process.go's channels, error and resumption are
\* seen by them as ProcessContract says.
THEOREM SessionImplementsContract ==
  ASSUME OneSender
  PROVE  Spec => ImplementsContract
<1>1. Init => Inv
  BY InitInv
<1>2. Init => Contract!Init
  BY Indices DEF Init, Contract!Init, Phase, FreshChannels
<1>3. TypeOK /\ Inv /\ [Next]_vars => Inv' /\ [Contract!Next]_(Contract!vars)
  BY NextContract DEF ContractStep, Contract!vars
<1>4. Spec => []TypeOK
  BY TypeCorrect
<1> QED
  BY <1>1, <1>2, <1>3, <1>4, PTL DEF Spec, ImplementsContract, Contract!Spec

-----------------------------------------------------------------------------
(* A Send that replaces the subprocess owns the channels meanwhile: the    *)
(* flag p.replacing, set under p.mu when the session was found alive, is   *)
(* what every finalizeTurn looks at, and only this Send puts it back.      *)

HoldPCs == {"interrupt", "await", "awaitKilled", "spawnReplacement", "fail"}

Claimed ==
  /\ \A s \in Senders : snd[s].pc \in HoldPCs => replacing
  /\ replacing => ~chan[epoch].done

\* A step that keeps the ends of the channels and the flag, and claims nothing.
LEMMA ClaimKept ==
  ASSUME TypeOK, Claimed, Quiet, replacing' = replacing,
         \A s \in Senders : snd'[s].pc \in HoldPCs => snd[s].pc \in HoldPCs
  PROVE  Claimed'
<1>1. /\ epoch \in Epochs /\ epoch' = epoch
      /\ \A e \in Epochs : chan'[e].done = chan[e].done
  BY DEF TypeOK, Quiet, SameEnds
<1> QED
  BY <1>1 DEF Claimed

LEMMA LoopKeepsClaim ==
  ASSUME TypeOK, Inv, Claimed, NEW g \in Gens, LoopNext(g)
  PROVE  Claimed'
<1>0. snd' = snd /\ replacing' = replacing
  BY DEF LoopNext, LoopStep, ctlVars, ReadText, ReadResult, ReadEOF, ParserPanic,
         ReadError, KillAfterError, Emit, EmitCancelled, EmitOnClosed, ReadCmd,
         Reap, Judge, FinalizeSkip, FinalizeDone, FinalizeOutput, SignalCmdDone
<1>1. CASE FinalizeDone(g)
  BY <1>0, <1>1 DEF FinalizeDone, Claimed
<1>2. CASE FinalizeOutput(g)
  <2>1. chan[epoch].done
    BY <1>2 DEF FinalizeOutput, Inv, LockInv, ChannelsInv, Closing
  <2> QED
    BY <1>0, <2>1 DEF Claimed
<1>3. CASE ~(FinalizeDone(g) \/ FinalizeOutput(g))
  <2>1. Quiet
    BY <1>3, ReaderQuiet DEF LoopNext, LoopStep
  <2> QED
    BY <1>0, <2>1, ClaimKept
<1> QED
  BY <1>1, <1>2, <1>3

LEMMA GoToPc ==
  ASSUME TypeOK, NEW s \in Senders, NEW pc, GoTo(s, pc)
  PROVE  snd'[s].pc = pc /\ \A r \in Senders : r # s => snd'[r] = snd[r]
BY DEF TypeOK, GoTo, SendCall

LEMMA ReturnPc ==
  ASSUME TypeOK, NEW s \in Senders, Return(s)
  PROVE  snd'[s].pc = "idle" /\ \A r \in Senders : r # s => snd'[r] = snd[r]
BY DEF TypeOK, Return, IdleSender

LEMMA SpawnPc ==
  ASSUME TypeOK, NEW s \in Senders, NEW pc, Spawn(s, pc)
  PROVE  snd'[s].pc = pc
<1>1. snd' = [snd EXCEPT ![s] = [snd[s] EXCEPT !.pc = pc, !.new = gens + 1]]
  BY DEF Spawn
<1> QED
  BY <1>1 DEF TypeOK, SendCall

\* The sender's own steps.  The flag is set where done was seen open, and put
\* back where the Send stops holding the claim.
LEMMA SendKeepsFlag ==
  ASSUME TypeOK, Inv, Claimed, NEW s \in Senders, SendNext(s)
  PROVE  replacing' => ~chan'[epoch'].done
<1>1. CASE \/ SendBegin(s) \/ Expire(s) \/ Probe(s) \/ Classify(s)
           \/ SendUnsupported(s) \/ TakeStdin(s) \/ WriteStdin(s) \/ WriteFails(s)
           \/ CheckResume(s) \/ SpawnCleanFails(s) \/ SpawnClean(s) \/ DrainToken(s)
           \/ AbortClean(s) \/ StartLoop(s)
  <2>1. Quiet
    BY <1>1, SendQuiet
  <2>2. epoch \in Epochs /\ epoch' = epoch /\ chan'[epoch].done = chan[epoch].done
    BY <2>1 DEF TypeOK, Quiet, SameEnds
  <2>3. replacing' = replacing
    BY <1>1 DEF SendBegin, Expire, Probe, Classify, SendUnsupported, TakeStdin, WriteStdin,
         WriteFails, CheckResume, SpawnCleanFails, SpawnClean, DrainToken, AbortClean,
         StartLoop, ctlVars
  <2> QED
    BY <2>2, <2>3 DEF Claimed
<1>2. CASE \/ ClaimFails(s) \/ Interrupt(s) \/ AwaitOld(s) \/ AwaitExpired(s)
           \/ AwaitKilled(s) \/ SpawnReplacement(s) \/ SpawnReplacementFails(s)
           \/ FailSignal(s)
  <2>1. UNCHANGED <<epoch, chan, replacing>>
    BY <1>2 DEF ClaimFails, Interrupt, AwaitOld, AwaitExpired, AwaitKilled, SpawnReplacement,
         SpawnReplacementFails, FailSignal, TakeToken, chanVars, ctlVars
  <2> QED
    BY <2>1 DEF Claimed
<1>3. CASE Claim(s)
  BY <1>3 DEF Claim, chanVars, Claimed
<1>4. CASE Install(s) \/ FailReplacement(s)
  BY <1>4 DEF Install, FailReplacement
<1>5. CASE CommitClean(s)
  <2>1. replacing' = replacing /\ chan' = chan
    BY <1>5 DEF CommitClean, ctlVars, chanVars
  <2>2. CASE epoch' = epoch
    BY <2>1, <2>2 DEF Claimed
  <2>3. CASE epoch' = epoch + 1 /\ epoch < MaxSends
    <3>1. epoch \in Epochs /\ MaxSends \in Nat
      BY CliAssumption DEF TypeOK
    <3>2. epoch + 1 \in Epochs /\ epoch + 1 > epoch
      BY <2>3, <3>1 DEF Epochs
    <3> QED
      BY <2>1, <2>3, <3>2 DEF Inv, ChannelsInv
  <2> QED
    BY <1>5, <2>2, <2>3 DEF CommitClean, FreshEpoch, chanVars
<1>6. CASE FailOutput(s)
  <2>1. chan[epoch].done
    BY <1>6 DEF FailOutput, Inv, LockInv, ChannelsInv, Failing
  <2> QED
    BY <1>6, <2>1 DEF FailOutput, ctlVars, Claimed
<1> QED
  BY <1>1, <1>2, <1>3, <1>4, <1>5, <1>6 DEF SendNext, SendStep

\* A Send that holds the claim after its step has the flag set.
LEMMA SendKeepsClaim ==
  ASSUME TypeOK, Inv, OneSender, Claimed, NEW s \in Senders, SendNext(s)
  PROVE  Claimed'
<1>0. /\ snd \in Calls /\ epoch \in Epochs
      /\ \A r \in Senders : r = s
  BY DEF TypeOK, Calls, OneSender
<1> SUFFICES ASSUME snd'[s].pc \in HoldPCs PROVE replacing'
  BY <1>0, SendKeepsFlag DEF Claimed
<1>1. CASE Claim(s)
  <2>1. CASE chan[epoch].done
    <3>1. GoTo(s, "spawnClean") \/ Return(s)
      BY <1>1, <2>1 DEF Claim, Fail
    <3> QED
      BY <3>1, GoToPc, ReturnPc DEF HoldPCs
  <2>2. CASE ~chan[epoch].done
    BY <1>1, <2>2 DEF Claim
  <2> QED
    BY <2>1, <2>2
<1>2. CASE Interrupt(s) \/ AwaitOld(s) \/ AwaitExpired(s) \/ AwaitKilled(s)
           \/ SpawnReplacement(s) \/ SpawnReplacementFails(s)
  <2>1. snd[s].pc \in HoldPCs /\ replacing' = replacing
    BY <1>2 DEF Interrupt, AwaitOld, AwaitExpired, AwaitKilled, SpawnReplacement,
                SpawnReplacementFails, TakeToken, HoldPCs, ctlVars
  <2> QED
    BY <2>1 DEF Claimed
<1>3. CASE Expire(s)
  <2>1. snd'[s].pc = snd[s].pc /\ replacing' = replacing
    BY <1>0, <1>3 DEF Expire, Calls, ctlVars
  <2> QED
    BY <2>1 DEF Claimed
<1>4. CASE SendBegin(s)
  <2>1. (snd' = snd \/ GoTo(s, "probe")) /\ replacing' = replacing
    BY <1>4 DEF SendBegin, ctlVars
  <2>2. snd'[s].pc \in {snd[s].pc, "probe"}
    BY <2>1, GoToPc
  <2> QED
    BY <2>1, <2>2 DEF Claimed, HoldPCs
<1>5. CASE Probe(s) \/ DrainToken(s) \/ Install(s) \/ FailOutput(s)
  <2>1. PICK pc \in {"classify", "stdin", "claim", "commit", "start", "failSignal"} : GoTo(s, pc)
    BY <1>5 DEF Probe, DrainToken, Install, FailOutput
  <2> QED
    BY <2>1, GoToPc DEF HoldPCs
<1>6. CASE Classify(s) \/ CheckResume(s) \/ CommitClean(s) \/ FailReplacement(s)
  <2>1. \/ \E pc \in {"resume", "spawnClean", "abort", "install", "failOutput", "failSignal"} :
             GoTo(s, pc)
        \/ Return(s)
    BY <1>6 DEF Classify, CheckResume, CommitClean, FailReplacement, Fail
  <2> QED
    BY <2>1, GoToPc, ReturnPc DEF HoldPCs
<1>7. CASE \/ SendUnsupported(s) \/ WriteStdin(s) \/ WriteFails(s)
           \/ AbortClean(s) \/ StartLoop(s) \/ ClaimFails(s) \/ SpawnCleanFails(s)
           \/ FailSignal(s)
  <2>1. Return(s)
    BY <1>7 DEF SendUnsupported, WriteStdin, WriteFails, AbortClean, StartLoop,
         ClaimFails, SpawnCleanFails, FailSignal, Fail, Succeed
  <2> QED
    BY <2>1, ReturnPc DEF HoldPCs
<1>8. CASE SpawnClean(s)
  BY <1>8, SpawnPc DEF SpawnClean, HoldPCs
<1>9. CASE TakeStdin(s)
  <2>1. snd' = [snd EXCEPT ![s] = [snd[s] EXCEPT !.pc = "write", !.old = cmd]]
    BY <1>9 DEF TakeStdin
  <2> QED
    BY <1>0, <2>1 DEF Calls, SendCall, HoldPCs
<1> QED
  BY <1>1, <1>2, <1>3, <1>4, <1>5, <1>6, <1>7, <1>8, <1>9 DEF SendNext, SendStep

LEMMA ClaimedStep ==
  ASSUME TypeOK, Inv, OneSender, Claimed, [Next]_vars
  PROVE  Claimed'
<1>1. ASSUME NEW g \in Gens, Exit(g) PROVE Claimed'
  BY <1>1, ExitQuiet, ClaimKept DEF Exit, ctlVars
<1>2. ASSUME NEW g \in Gens, LoopNext(g) PROVE Claimed'
  BY <1>2, LoopKeepsClaim
<1>3. CASE Receive \/ ReceiveClosed
  <2>1. snd' = snd /\ replacing' = replacing
    BY <1>3 DEF Receive, ReceiveClosed, ctlVars
  <2> QED
    BY <1>3, <2>1, ReceiveQuiet, ClaimKept
<1>4. ASSUME NEW s \in Senders, SendNext(s) PROVE Claimed'
  BY <1>4, SendKeepsClaim
<1>5. ASSUME NEW t \in Stoppers, StopCall(t) \/ StopStep(t) PROVE Claimed'
  <2>1. snd' = snd /\ replacing' = replacing
    BY <1>5 DEF StopCall, StopStep, StopFirst, StopLater, StopSnapshot, StopTerminate,
                StopEscalate, StopTakeToken, StopReturn, TakeToken, ctlVars
  <2>2. Quiet
    BY <1>5, StopQuiet DEF StopStep
  <2> QED
    BY <2>1, <2>2, ClaimKept
<1>6. CASE UNCHANGED vars
  BY <1>6 DEF vars, chanVars, ctlVars, Claimed
<1> QED
  BY <1>1, <1>2, <1>3, <1>4, <1>5, <1>6 DEF Next

\* replaceSubprocess keeps the channels of the turn it interrupts from its claim
\* to installSubprocess, with Stops, failing spawns and expiring contexts at any
\* moment, as long as Sends do not overlap.
THEOREM ReplacementIsSafe ==
  ASSUME OneSender
  PROVE  Spec => []ReplacementKeepsChannel
<1>1. Init => Inv /\ Claimed
  BY InitInv DEF Init, Claimed, HoldPCs, IdleSender
<1>2. TypeOK /\ Inv /\ Claimed /\ [Next]_vars => Inv' /\ Claimed'
  BY NextContract, ClaimedStep
<1>3. Claimed => ReplacementKeepsChannel
  BY DEF Claimed, HoldPCs, ReplacementKeepsChannel, Ended
<1> QED
  BY <1>1, <1>2, <1>3, TypeCorrect, PTL DEF Spec

-----------------------------------------------------------------------------
(* Callers that never make Send replace a running subprocess: those who    *)
(* drain Output() to its close before the next turn, or whose backend      *)
(* takes every turn on stdin.  For them the subprocess of p.cmd is the     *)
(* only one alive, its reader the only one reading.                        *)

NeverReplaces ==
  \/ Discipline = "afterClose"
  \/ \A b \in Backends : b.streamer /\ b.formatter

ReplacePCs == {"claim", "interrupt", "await", "awaitKilled", "spawnReplacement",
               "fail", "failOutput", "failSignal"}

\* No Send replaces: one that begins found the session ended, or has a pipe.
Routed ==
  /\ ~replacing
  /\ \A s \in Senders : snd[s].pc \notin ReplacePCs
  /\ ~UseStreamer =>
       /\ turn = "closed" => AllIdle /\ chan[epoch].closed
       /\ \A s \in Senders : snd[s].pc = "probe" => chan[epoch].closed

\* A Send holds a subprocess it spawned and no reader knows.
SpawnedPCs == {"drain", "commit", "abort", "install", "start"}
Holds(s, g) == snd[s].pc \in SpawnedPCs /\ snd[s].new = g

Spawns ==
  /\ cmd <= gens
  /\ \A g \in Gens : g > gens => loop[g].pc = "none"
  /\ \A s \in Senders, g \in Gens : Holds(s, g) => g <= gens /\ loop[g].pc = "none"

Sole ==
  /\ \A g \in Gens : Reading(g) => g = cmd /\ ~chan[epoch].done
  /\ \A g \in Gens : loop[g].pc \in {"wait", "judge"} => loop[g].cmd = cmd
  /\ \A s \in Senders :
       /\ snd[s].pc \in {"install", "start"}
            => ~chan[epoch].done /\ \A g \in Gens : ~Reading(g)
       /\ snd[s].pc = "start" => snd[s].new = cmd

\* Whoever is alive is being read, or still in the hands of a Send.
WaitedFor(g) == loop[g].pc \in {"scan", "emit", "readError", "defer", "wait"}
Alive == \A g \in Gens : sub[g].state = "running"
                           => WaitedFor(g) \/ \E s \in Senders : Holds(s, g)

\* A Stop that got as far as waiting for `done` waits for the session's last.
StopsLast ==
  /\ stopOnce # "new" => stopping
  /\ \A t \in Stoppers :
       /\ stp[t].pc \notin {"idle", "once"} => stopping
       /\ stp[t].pc = "join" => stp[t].ch = epoch
       /\ stp[t].pc = "returned" => chan[epoch].done
  /\ \A g \in Gens : loop[g].cancelled => stopping

Orderly == Routed /\ Spawns /\ Sole /\ Alive /\ StopsLast

LEMMA InitOrderly == ASSUME Init PROVE Orderly
<1>1. /\ 1 \in Gens /\ \A g \in Gens : g \in Nat
      /\ cmd = 1 /\ gens = 1 /\ ~replacing /\ ~stopping /\ stopOnce = "new"
      /\ \A s \in Senders : snd[s].pc = "idle"
      /\ \A t \in Stoppers : stp[t].pc = "idle"
      /\ ~UseStreamer => turn = "open"
      /\ epoch \in Epochs /\ ~chan[epoch].done
  BY Indices DEF Init, IdleSender, FreshChannels, Gens
<1>2. \A g \in Gens : /\ loop[g].pc = IF g = 1 THEN "scan" ELSE "none"
                      /\ ~loop[g].cancelled
                      /\ g # 1 => sub[g].state = "none"
  BY DEF Init, NewLoop, NoLoop, NoSub
<1>3. Routed
  BY <1>1 DEF Routed, ReplacePCs
<1>4. Spawns
  BY <1>1, <1>2 DEF Spawns, Holds, SpawnedPCs
<1>5. Sole
  BY <1>1, <1>2 DEF Sole, Reading
<1>6. Alive
  BY <1>2 DEF Alive, WaitedFor
<1>7. StopsLast
  BY <1>1, <1>2 DEF StopsLast
<1> QED
  BY <1>3, <1>4, <1>5, <1>6, <1>7 DEF Orderly

\* A step that moves no reader, spawns nothing, kills or leaves alone, and
\* brings no Send to its installation.
Plain ==
  /\ SameEnds /\ UNCHANGED <<cmd, gens>>
  /\ \A g \in Gens : /\ loop'[g].pc = loop[g].pc /\ loop'[g].cmd = loop[g].cmd
                     /\ sub'[g].state = "running" => sub[g].state = "running"
  /\ \A s \in Senders :
       /\ \A g \in Gens : Holds(s, g)' => Holds(s, g)
       /\ \A g \in Gens : Holds(s, g) /\ sub'[g].state = "running" => Holds(s, g)'
       /\ snd'[s].pc \in {"install", "start"} => snd'[s].pc = snd[s].pc /\ snd'[s].new = snd[s].new

LEMMA PlainKeeps ==
  ASSUME TypeOK, Plain, Spawns, Sole, Alive
  PROVE  (Spawns /\ Sole /\ Alive)'
<1>1. /\ epoch' = epoch /\ epoch \in Epochs /\ cmd' = cmd /\ gens' = gens
      /\ chan'[epoch].done = chan[epoch].done
  BY DEF Plain, SameEnds, TypeOK
<1>2. \A g \in Gens : /\ loop'[g].pc = loop[g].pc /\ loop'[g].cmd = loop[g].cmd
                      /\ Reading(g)' <=> Reading(g)
                      /\ WaitedFor(g)' <=> WaitedFor(g)
                      /\ sub'[g].state = "running" => sub[g].state = "running"
  BY DEF Plain, Reading, WaitedFor
<1>3. \A s \in Senders, g \in Gens :
        /\ Holds(s, g)' => Holds(s, g)
        /\ Holds(s, g) /\ sub'[g].state = "running" => Holds(s, g)'
  BY DEF Plain
<1>4. \A s \in Senders : snd'[s].pc \in {"install", "start"} =>
                           snd'[s].pc = snd[s].pc /\ snd'[s].new = snd[s].new
  BY DEF Plain
<1>5. Spawns'
  BY <1>1, <1>2, <1>3 DEF Spawns
<1>6. Sole'
  BY <1>1, <1>2, <1>4 DEF Sole
<1>7. Alive'
  BY <1>2, <1>3 DEF Alive
<1> QED
  BY <1>5, <1>6, <1>7

-----------------------------------------------------------------------------
(* A step of a reader.                                                     *)

SameStates == \A h \in Gens : sub'[h].state = sub[h].state /\ sub'[h].accepted = sub[h].accepted

LEMMA SignalledStates ==
  ASSUME TypeOK, NEW g \in Gens, NEW sig, sub' = Signalled(sub, g, sig)
  PROVE  SameStates /\ \A h \in Gens : sub'[h].results = sub[h].results
BY DEF TypeOK, Subprocess, SameStates, Signalled

\* What any step of the reader of generation g leaves alone, and where it goes.
LoopFrame(g) ==
  /\ UNCHANGED <<epoch, cmd, replacing, stopping, stopOnce, gens, snd, stp, caps>>
  /\ \A h \in Gens : h # g => loop'[h] = loop[h]
  /\ loop[g].pc \notin {"none", "end"} /\ loop'[g].pc # "none"
  /\ Reading(g)' => Reading(g)
  /\ WaitedFor(g) => WaitedFor(g)' \/ (loop[g].pc = "wait" /\ Exited(loop[g].cmd))
  /\ loop'[g].pc = "wait" => loop'[g].cmd = cmd
  /\ loop'[g].pc = "judge" => loop[g].pc = "wait" /\ loop'[g].cmd = loop[g].cmd
  /\ loop'[g].cancelled => loop[g].cancelled
  /\ SameStates

LEMMA LoopIsFramed ==
  ASSUME TypeOK, UNCHANGED caps, NEW g \in Gens, LoopNext(g)
  PROVE  LoopFrame(g)
<1> USE DEF LoopFrame, chanVars, ctlVars, Readers, Subs, Reading, WaitedFor, SameStates
<1>0. loop \in Readers /\ sub \in Subs /\ cmd \in Gens
  BY DEF TypeOK, Readers, Subs
<1>1. CASE ReadText(g)
  BY <1>0, <1>1 DEF ReadText, Parsed, Reader, Subprocess
<1>2. CASE ReadResult(g)
  BY <1>0, <1>2 DEF ReadResult, Parsed, Reader
<1>3. CASE ReadEOF(g)
  BY <1>0, <1>3 DEF ReadEOF, Reader
<1>4. CASE ParserPanic(g)
  BY <1>0, <1>4, SignalledStates DEF ParserPanic, Panicked, Reader
<1>5. CASE ReadError(g) /\ chan[epoch].closed
  <2>1. /\ Panicked(g) /\ loop[g].pc = "scan"
        /\ UNCHANGED <<epoch, ctlVars, gens, snd, stp>>
    BY <1>5 DEF ReadError
  <2> QED
    BY <1>0, <2>1, SignalledStates DEF Panicked, Reader
<1>6. CASE ReadError(g) /\ ~chan[epoch].closed
  <2>1. /\ loop' = [loop EXCEPT ![g] = [loop[g] EXCEPT !.pc = "readError", !.err = "scan"]]
        /\ UNCHANGED sub /\ loop[g].pc = "scan"
        /\ UNCHANGED <<epoch, ctlVars, gens, snd, stp>>
    BY <1>6 DEF ReadError
  <2> QED
    BY <1>0, <2>1 DEF Reader
<1>7. CASE KillAfterError(g)
  BY <1>0, <1>7, SignalledStates DEF KillAfterError, Reader
<1>8. CASE Emit(g)
  <2>1. /\ loop[g].pc = "emit" /\ UNCHANGED <<epoch, ctlVars, gens, snd, stp>>
        /\ \E n : sub' = [sub EXCEPT ![g] = [sub[g] EXCEPT !.results = n]]
    BY <1>0, <1>8, Zenon DEF Emit
  <2>2. PICK r : /\ loop' = [loop EXCEPT ![g] = r]
                 /\ \/ r = [loop[g] EXCEPT !.pc = "scan", !.sending = <<>>, !.target = 0]
                    \/ r = [loop[g] EXCEPT !.sending = Tail(loop[g].sending), !.target = epoch]
    BY <1>8 DEF Emit
  <2>3. /\ \A h \in Gens : h # g => loop'[h] = loop[h]
        /\ loop'[g].pc \in {"scan", "emit"} /\ loop'[g].cancelled = loop[g].cancelled
    <3>1. loop[g] \in Reader /\ DOMAIN loop = Gens
      BY <1>0
    <3>2. {"pc", "cancelled"} \subseteq DOMAIN loop[g]
      BY <3>1 DEF Reader
    <3>3. r.pc \in {"scan", "emit"} /\ r.cancelled = loop[g].cancelled
      BY <2>1, <2>2, <3>2
    <3>4. loop'[g] = r /\ \A h \in Gens : h # g => loop'[h] = loop[h]
      BY ONLY <2>2, <3>1, g \in Gens
    <3> QED
      BY <3>3, <3>4
  <2>4. SameStates
    BY <1>0, <2>1 DEF Subprocess
  <2> QED
    BY <2>1, <2>3, <2>4
<1>9. CASE EmitCancelled(g)
  BY <1>0, <1>9 DEF EmitCancelled, Reader
<1>10. CASE EmitOnClosed(g)
  BY <1>0, <1>10, SignalledStates DEF EmitOnClosed, Panicked, Reader
<1>11. CASE ReadCmd(g)
  BY <1>0, <1>11 DEF ReadCmd, Reader
<1>12. CASE Reap(g)
  BY <1>0, <1>12 DEF Reap, Reader, Subprocess
<1>13. CASE Judge(g)
  BY <1>0, <1>13 DEF Judge, Reader
<1>14. CASE FinalizeSkip(g)
  BY <1>0, <1>14 DEF FinalizeSkip, Reader
<1>15. CASE FinalizeDone(g)
  BY <1>0, <1>15 DEF FinalizeDone, Reader
<1>16. CASE FinalizeOutput(g)
  BY <1>0, <1>16 DEF FinalizeOutput, Reader
<1>17. CASE SignalCmdDone(g)
  BY <1>0, <1>17 DEF SignalCmdDone, NoLoop, Reader
<1> QED
  BY <1>1, <1>2, <1>3, <1>4, <1>5, <1>6, <1>7, <1>8, <1>9, <1>10, <1>11, <1>12, <1>13,
     <1>14, <1>15, <1>16, <1>17 DEF LoopNext, LoopStep

\* A reader closes the session's channels only at its finalizeTurn, and no step
\* opens one again.
LEMMA LoopEnds ==
  ASSUME TypeOK, Inv, NEW g \in Gens, LoopNext(g)
  PROVE  /\ chan[epoch].done => chan'[epoch].done
         /\ chan[epoch].closed => chan'[epoch].closed
         /\ chan'[epoch].done => chan[epoch].done \/ FinalizeDone(g)
<1>0. epoch \in Epochs /\ chan \in Chans
  BY DEF TypeOK, Chans
<1>1. CASE FinalizeDone(g)
  BY <1>0, <1>1 DEF FinalizeDone, CloseDone, Chans, ChannelPair
<1>2. CASE FinalizeOutput(g)
  BY <1>0, <1>2 DEF FinalizeOutput, CloseOutput, Chans, ChannelPair
<1>3. CASE ~(FinalizeDone(g) \/ FinalizeOutput(g))
  BY <1>0, <1>3, ReaderQuiet DEF LoopNext, LoopStep, Quiet, SameEnds
<1> QED
  BY <1>1, <1>2, <1>3

LEMMA LoopOrderly ==
  ASSUME TypeOK, Inv, Orderly, UNCHANGED caps, NEW g \in Gens, LoopNext(g)
  PROVE  Spawns' /\ Sole' /\ Alive' /\ StopsLast'
<1>1. LoopFrame(g)
  BY LoopIsFramed
<1>2. /\ UNCHANGED <<epoch, cmd, gens, snd, stp, stopping, stopOnce>>
      /\ \A h \in Gens : h # g => loop'[h] = loop[h]
      /\ \A h \in Gens : Reading(h)' => Reading(h)
      /\ \A h \in Gens : sub'[h].state = sub[h].state
  BY <1>1 DEF LoopFrame, Reading, SameStates
<1>3. \A s \in Senders, h \in Gens : Holds(s, h)' <=> Holds(s, h)
  BY <1>2 DEF Holds
<1>4. Spawns'
  BY <1>1, <1>2, <1>3 DEF Orderly, Spawns, LoopFrame
<1>5. Reading(g) => g = cmd /\ ~chan[epoch].done
  BY DEF Orderly, Sole
<1>6. FinalizeDone(g) => \A h \in Gens : ~Reading(h)'
  <2> SUFFICES ASSUME FinalizeDone(g), NEW h \in Gens, Reading(h)' PROVE FALSE
    OBVIOUS
  <2>1. Reading(g) /\ Reading(h)
    BY <1>2 DEF FinalizeDone, Reading
  <2>2. h = g
    BY <2>1 DEF Orderly, Sole
  <2>3. loop'[g].pc = "closeOutput"
    BY DEF FinalizeDone, TypeOK, Reader
  <2> QED
    BY <2>2, <2>3 DEF Reading
<1>7. Sole'
  <2>1. \A h \in Gens : Reading(h)' => h = cmd' /\ ~chan'[epoch'].done
    BY <1>2, <1>6, LoopEnds DEF Orderly, Sole
  <2>2. \A h \in Gens : loop'[h].pc \in {"wait", "judge"} => loop'[h].cmd = cmd'
    BY <1>1, <1>2 DEF Orderly, Sole, LoopFrame
  <2>3. ASSUME NEW s \in Senders, snd'[s].pc \in {"install", "start"}
        PROVE  ~chan'[epoch'].done /\ \A h \in Gens : ~Reading(h)'
    <3>1. ~chan[epoch].done /\ \A h \in Gens : ~Reading(h)
      BY <1>2, <2>3 DEF Orderly, Sole
    <3>2. ~FinalizeDone(g)
      BY <3>1 DEF FinalizeDone, Reading
    <3> QED
      BY <1>2, <3>1, <3>2, LoopEnds
  <2>4. \A s \in Senders : snd'[s].pc = "start" => snd'[s].new = cmd'
    BY <1>2 DEF Orderly, Sole
  <2> QED
    BY <2>1, <2>2, <2>3, <2>4 DEF Sole
<1>8. Alive'
  <2> SUFFICES ASSUME NEW h \in Gens, sub[h].state = "running", WaitedFor(h)
               PROVE  WaitedFor(h)'
    BY <1>2, <1>3 DEF Orderly, Alive
  <2>1. CASE h # g
    BY <1>2, <2>1 DEF WaitedFor
  <2>2. CASE h = g
    <3>1. g = cmd /\ (loop[g].pc = "wait" => loop[g].cmd = g)
      BY <1>5, <2>2 DEF WaitedFor, Reading, Orderly, Sole
    <3> QED
      BY <1>1, <2>2, <3>1 DEF LoopFrame, Exited
  <2> QED
    BY <2>1, <2>2
<1>9. StopsLast'
  BY <1>1, <1>2, LoopEnds DEF Orderly, StopsLast, LoopFrame
<1> QED
  BY <1>4, <1>7, <1>8, <1>9

-----------------------------------------------------------------------------
(* A step of a Send that does not replace.                                 *)

Ends(s) == \/ SendUnsupported(s) \/ WriteFails(s) \/ SpawnCleanFails(s) \/ AbortClean(s)
           \/ (Classify(s) /\ ~CleanExit)
           \/ (CheckResume(s) /\ (stopping \/ snd[s].expired))
Goes(s) == \/ (Classify(s) /\ CleanExit)
           \/ (CheckResume(s) /\ ~(stopping \/ snd[s].expired))
           \/ DrainToken(s) \/ CommitClean(s) \/ Install(s)

LEMMA RoutedSends ==
  ASSUME Routed, NEW s \in Senders, SendNext(s)
  PROVE  \/ SendBegin(s) \/ Expire(s) \/ Probe(s) \/ TakeStdin(s) \/ WriteStdin(s)
         \/ SpawnClean(s) \/ StartLoop(s) \/ Ends(s) \/ Goes(s)
<1>1. snd[s].pc \notin ReplacePCs
  BY DEF Routed
<1> QED
  BY <1>1 DEF SendNext, SendStep, ReplacePCs, Ends, Goes, Claim, ClaimFails, Interrupt, AwaitOld,
     AwaitExpired, AwaitKilled, SpawnReplacement, SpawnReplacementFails, FailReplacement,
     FailOutput, FailSignal

LEMMA EndsFails ==
  ASSUME NEW s \in Senders, Ends(s)
  PROVE  /\ Fail(s) /\ snd[s].pc # "idle"
         /\ UNCHANGED <<chanVars, cmd, replacing, stopping, stopOnce, gens, loop, stp>>
         /\ UNCHANGED sub \/ AbortClean(s)
BY DEF Ends, Classify, SendUnsupported, WriteFails, CheckResume, SpawnCleanFails, AbortClean,
       ctlVars

LEMMA GoesOn ==
  ASSUME NEW s \in Senders, Goes(s)
  PROVE  /\ \E pc \in {"resume", "spawnClean", "commit", "abort", "install", "start"} :
              GoTo(s, pc)
         /\ snd[s].pc # "idle"
         /\ turn' = turn
         /\ replacing' = replacing \/ ~replacing'
         /\ UNCHANGED <<chan, locked, stopping, stopOnce, gens, loop, stp>>
BY DEF Goes, Classify, CheckResume, DrainToken, CommitClean, Install, chanVars, ctlVars

\* Without the pipe a turn begins, and stays, with the session ended.
LEMMA SendRouted ==
  ASSUME TypeOK, Inv, OneSender, NeverReplaces, Routed, UNCHANGED caps,
         NEW s \in Senders, SendNext(s)
  PROVE  Routed'
<1>0. /\ epoch \in Epochs /\ caps \in Backends /\ snd \in Calls
      /\ \A r \in Senders : r = s
      /\ UseStreamer' = UseStreamer
      /\ ~replacing /\ snd[s].pc \notin ReplacePCs
  BY DEF TypeOK, Calls, OneSender, UseStreamer, Routed
<1>1. ~UseStreamer => Discipline = "afterClose"
  BY <1>0 DEF NeverReplaces, UseStreamer
<1>2. ~UseStreamer /\ snd[s].pc # "idle" => turn # "closed"
  BY DEF Routed, AllIdle
<1>3. SUFFICES /\ ~replacing' /\ snd'[s].pc \notin ReplacePCs
               /\ ~UseStreamer =>
                    /\ turn' = "closed" => snd'[s].pc = "idle" /\ chan'[epoch'].closed
                    /\ snd'[s].pc = "probe" => chan'[epoch'].closed
  BY <1>0 DEF Routed, AllIdle
<1>4. CASE SendBegin(s)
  <2>1. UNCHANGED <<chan, epoch, replacing>>
    BY <1>4 DEF SendBegin, chanVars, ctlVars
  <2>2. CASE UNCHANGED <<snd, turn>>
    BY <1>0, <2>1, <2>2 DEF Routed, AllIdle
  <2>3. CASE GoTo(s, "probe") /\ turn' = "open"
    <3>1. ~UseStreamer => chan[epoch].closed
      BY <1>1, <1>4 DEF SendBegin, MayBegin, Routed
    <3> QED
      BY <1>0, <2>1, <2>3, <3>1, GoToPc DEF ReplacePCs
  <2> QED
    BY <1>4, <2>2, <2>3 DEF SendBegin
<1>5. CASE Expire(s)
  <2>1. snd'[s].pc = snd[s].pc /\ UNCHANGED <<chan, epoch, replacing, turn>>
    BY <1>0, <1>5 DEF Expire, Calls, SendCall, chanVars, ctlVars
  <2> QED
    BY <1>0, <2>1 DEF Routed, AllIdle
<1>6. CASE Probe(s)
  <2>1. UNCHANGED <<chan, epoch, replacing, turn>> /\ snd[s].pc = "probe"
    BY <1>6 DEF Probe, chanVars, ctlVars
  <2>2. chan[epoch].done \/ HasStdin(cmd)
    BY <2>1 DEF Routed, UseStreamer, HasStdin, Inv, ChannelsInv
  <2>3. PICK pc \in {"classify", "stdin"} : GoTo(s, pc)
    BY <1>6, <2>2 DEF Probe
  <2> QED
    BY <1>0, <1>2, <2>1, <2>3, GoToPc DEF ReplacePCs
<1>7. CASE TakeStdin(s)
  <2>1. /\ snd' = [snd EXCEPT ![s] = [snd[s] EXCEPT !.pc = "write", !.old = cmd]]
        /\ UNCHANGED <<chan, epoch, replacing, turn>> /\ snd[s].pc = "stdin"
    BY <1>7 DEF TakeStdin, chanVars
  <2>2. snd'[s].pc = "write"
    BY <1>0, <2>1 DEF Calls, SendCall
  <2> QED
    BY <1>0, <1>2, <2>1, <2>2 DEF ReplacePCs
<1>8. CASE SpawnClean(s)
  <2>1. snd'[s].pc = "drain" /\ UNCHANGED <<chan, epoch, replacing, turn>> /\ snd[s].pc = "spawnClean"
    BY <1>8, SpawnPc DEF SpawnClean, chanVars, ctlVars
  <2> QED
    BY <1>0, <1>2, <2>1 DEF ReplacePCs
<1>9. CASE WriteStdin(s) \/ StartLoop(s)
  <2>1. /\ Return(s) /\ UNCHANGED <<chan, epoch, replacing, turn>>
        /\ snd[s].pc # "idle"
    BY <1>9 DEF WriteStdin, StartLoop, Succeed, chanVars, ctlVars
  <2> QED
    BY <1>0, <1>2, <2>1, ReturnPc DEF ReplacePCs
<1>10. CASE Ends(s)
  <2>1. Fail(s) /\ UNCHANGED <<chan, epoch, replacing>>
    BY <1>10, EndsFails DEF chanVars
  <2>2. snd'[s].pc = "idle"
    BY <2>1, ReturnPc DEF Fail
  <2>3. turn' = "closed" => chan[epoch].closed
    BY <2>1 DEF Fail
  <2> QED
    BY <1>0, <2>1, <2>2, <2>3 DEF ReplacePCs
<1>11. CASE Goes(s)
  <2>1. PICK pc \in {"resume", "spawnClean", "commit", "abort", "install", "start"} : GoTo(s, pc)
    BY <1>11, GoesOn
  <2>2. turn' = turn /\ ~replacing' /\ snd[s].pc # "idle"
    BY <1>0, <1>11, GoesOn
  <2> QED
    BY <1>2, <2>1, <2>2, GoToPc DEF ReplacePCs
<1> QED
  BY <1>4, <1>5, <1>6, <1>7, <1>8, <1>9, <1>10, <1>11, RoutedSends

\* Nobody rises, and the Send loses at most a subprocess that is dead.
LEMMA PlainSends ==
  ASSUME TypeOK, Inv, OneSender, NEW s \in Senders,
         \/ SendBegin(s) \/ Expire(s) \/ Probe(s) \/ TakeStdin(s) \/ WriteStdin(s) \/ Ends(s)
         \/ (Goes(s) /\ ~Install(s) /\ ~(CommitClean(s) /\ ~stopping))
  PROVE  Plain /\ UNCHANGED <<epoch, chan, stopping, stopOnce, stp, loop>>
<1>0. /\ sub \in Subs /\ snd \in Calls
      /\ \A r \in Senders : r = s
  BY DEF TypeOK, Subs, Calls, OneSender
<1>1. CASE Expire(s)
  <2>1. /\ snd'[s].pc = snd[s].pc /\ snd'[s].new = snd[s].new
        /\ UNCHANGED <<chanVars, ctlVars, gens, sub, loop, stp>>
    BY <1>0, <1>1 DEF Expire, Calls, SendCall
  <2> QED
    BY <1>0, <2>1 DEF Plain, SameEnds, Holds, chanVars, ctlVars
<1>2. CASE SendBegin(s) \/ Probe(s)
  <2>1. /\ snd[s].pc \in {"idle", "probe"}
        /\ snd' = snd \/ \E pc \in {"probe", "classify", "stdin", "claim"} : GoTo(s, pc)
        /\ UNCHANGED <<chanVars, ctlVars, gens, sub, loop, stp>>
    BY <1>2 DEF SendBegin, Probe
  <2>2. snd'[s].pc \in {"idle", "probe", "classify", "stdin", "claim"}
    BY <2>1, GoToPc
  <2> QED
    BY <1>0, <2>1, <2>2 DEF Plain, SameEnds, Holds, SpawnedPCs, chanVars, ctlVars
<1>3. CASE TakeStdin(s)
  <2>1. /\ snd[s].pc = "stdin"
        /\ snd' = [snd EXCEPT ![s] = [snd[s] EXCEPT !.pc = "write", !.old = cmd]]
        /\ UNCHANGED <<chanVars, cmd, stopping, stopOnce, gens, sub, loop, stp>>
    BY <1>3 DEF TakeStdin
  <2>2. snd'[s].pc = "write"
    BY <1>0, <2>1 DEF Calls, SendCall
  <2> QED
    BY <1>0, <2>1, <2>2 DEF Plain, SameEnds, Holds, SpawnedPCs, chanVars
<1>4. CASE WriteStdin(s)
  <2>1. /\ snd[s].pc = "write" /\ Return(s)
        /\ sub' = [sub EXCEPT ![snd[s].old].accepted = @ + 1]
        /\ UNCHANGED <<chanVars, ctlVars, gens, loop, stp>>
    BY <1>4 DEF WriteStdin, Succeed
  <2>2. snd'[s].pc = "idle"
    BY <2>1, ReturnPc
  <2>3. \A g \in Gens : sub'[g].state = sub[g].state
    BY <1>0, <2>1 DEF Subs, Subprocess
  <2> QED
    BY <1>0, <2>1, <2>2, <2>3 DEF Plain, SameEnds, Holds, SpawnedPCs, chanVars, ctlVars
<1>5. CASE Ends(s)
  <2>1. /\ snd'[s].pc = "idle"
        /\ UNCHANGED <<chanVars, cmd, stopping, stopOnce, gens, loop, stp>>
    BY <1>5, EndsFails, ReturnPc DEF Fail
  <2>2. \A g \in Gens : sub'[g].state = sub[g].state
    <3>1. CASE UNCHANGED sub
      BY <3>1
    <3>2. CASE AbortClean(s)
      BY <1>0, <3>2 DEF AbortClean, Subs, Subprocess
    <3> QED
      BY <1>5, <3>1, <3>2, EndsFails
  <2>3. snd[s].pc \in SpawnedPCs => AbortClean(s)
    BY <1>5 DEF Ends, SpawnedPCs, Classify, CheckResume, SendUnsupported, WriteFails, SpawnCleanFails
  <2>4. AbortClean(s) => snd[s].pc = "abort" /\ sub[snd[s].new].state # "running"
    BY DEF AbortClean, Exited
  <2> QED
    BY <1>0, <2>1, <2>2, <2>3, <2>4 DEF Plain, SameEnds, Holds, SpawnedPCs, chanVars
<1>6. CASE Goes(s) /\ ~Install(s) /\ ~(CommitClean(s) /\ ~stopping)
  <2>1. /\ UNCHANGED <<chanVars, cmd, gens>>
        /\ UNCHANGED <<stopping, stopOnce, loop, stp>>
    BY <1>6 DEF Goes, Classify, CheckResume, DrainToken, CommitClean, ctlVars
  <2>2. \A g \in Gens : sub'[g].state = sub[g].state
    <3>1. UNCHANGED sub \/ \E g \in Gens : sub' = Signalled(sub, g, "kill")
      BY <1>0, <1>6 DEF Goes, Classify, CheckResume, DrainToken, CommitClean, Calls, SendCall
    <3> QED
      BY <3>1, SignalledStates DEF SameStates
  <2>3. \/ /\ snd[s].pc \in {"classify", "resume"}
           /\ \E pc \in {"resume", "spawnClean"} : GoTo(s, pc)
        \/ /\ snd[s].pc \in {"drain", "commit"}
           /\ \E pc \in {"commit", "abort"} : GoTo(s, pc)
    BY <1>6 DEF Goes, Classify, CheckResume, DrainToken, CommitClean
  <2>4. /\ snd'[s].new = snd[s].new
        /\ \/ snd[s].pc \in {"classify", "resume"} /\ snd'[s].pc \in {"resume", "spawnClean"}
           \/ snd[s].pc \in {"drain", "commit"} /\ snd'[s].pc \in {"commit", "abort"}
    BY <1>0, <2>3 DEF GoTo, Calls, SendCall
  <2> QED
    BY <1>0, <2>1, <2>2, <2>4 DEF Plain, SameEnds, Holds, SpawnedPCs, chanVars
<1> QED
  BY <1>1, <1>2, <1>3, <1>4, <1>5, <1>6

\* Stops are not disturbed while the session keeps its epoch.
LEMMA StopsKept ==
  ASSUME TypeOK, Orderly, SameEnds, UNCHANGED <<stopping, stopOnce, stp>>,
         \A g \in Gens : loop'[g].cancelled => loop[g].cancelled
  PROVE  StopsLast'
<1>1. epoch' = epoch /\ chan'[epoch].done = chan[epoch].done
  BY DEF TypeOK, SameEnds
<1> QED
  BY <1>1 DEF Orderly, StopsLast

LEMMA SpawnOrderly ==
  ASSUME TypeOK, Inv, OneSender, Orderly, NEW s \in Senders, SpawnClean(s)
  PROVE  Spawns' /\ Sole' /\ Alive' /\ StopsLast'
<1>0. /\ sub \in Subs /\ snd \in Calls /\ gens \in Nat /\ cmd \in Nat
      /\ \A g \in Gens : g \in Nat
      /\ \A r \in Senders : r = s
  BY CliAssumption DEF TypeOK, Subs, Calls, OneSender, Gens
<1>1. /\ snd[s].pc = "spawnClean"
      /\ gens + 1 \in Gens /\ gens' = gens + 1
      /\ sub' = [sub EXCEPT ![gens + 1] = Started(TRUE)]
      /\ snd' = [snd EXCEPT ![s] = [snd[s] EXCEPT !.pc = "drain", !.new = gens + 1]]
      /\ UNCHANGED <<epoch, chan, termErr, finished, locked, cmd, stopping, stopOnce, loop, stp>>
  BY <1>0, CliAssumption DEF SpawnClean, Spawn, chanVars, ctlVars, Gens
<1>2. snd'[s].pc = "drain" /\ snd'[s].new = gens + 1
  BY <1>0, <1>1 DEF Calls, SendCall
<1>3. \A g \in Gens : Holds(s, g)' <=> g = gens + 1
  BY <1>2 DEF Holds, SpawnedPCs
<1>4. \A g \in Gens : ~Holds(s, g)
  BY <1>1 DEF Holds, SpawnedPCs
<1>5. Spawns'
  BY <1>0, <1>1, <1>3 DEF Orderly, Spawns
<1>6. Sole'
  BY <1>0, <1>1, <1>2 DEF Orderly, Sole, Reading
<1>7. Alive'
  <2>1. \A g \in Gens : g # gens + 1 => sub'[g] = sub[g]
    BY <1>0, <1>1 DEF Subs
  <2> QED
    BY <1>0, <1>1, <1>3, <1>4, <2>1 DEF Orderly, Alive, WaitedFor
<1>8. StopsLast'
  BY <1>1, StopsKept DEF SameEnds
<1> QED
  BY <1>5, <1>6, <1>7, <1>8

\* The next epoch: its `done` is open, no reader reads, no Stop has begun.
LEMMA CommitOrderly ==
  ASSUME TypeOK, Inv, OneSender, Orderly, NEW s \in Senders, CommitClean(s), ~stopping
  PROVE  Spawns' /\ Sole' /\ Alive' /\ StopsLast'
<1>0. /\ snd \in Calls /\ epoch \in Epochs /\ epoch \in Nat
      /\ \A r \in Senders : r = s
  BY CliAssumption DEF TypeOK, Calls, OneSender, Epochs
<1>1. /\ snd[s].pc = "commit" /\ FreshEpoch
      /\ snd' = [snd EXCEPT ![s].pc = "install"]
      /\ UNCHANGED <<chan, sub, cmd, gens, loop, stp, stopping, stopOnce>>
  BY DEF CommitClean, ctlVars, GoTo
<1>2. epoch' \in Epochs /\ epoch' > epoch
  BY <1>0, <1>1, CliAssumption DEF FreshEpoch, Epochs
<1>3. chan[epoch].done /\ ~chan[epoch'].done
  BY <1>0, <1>1, <1>2 DEF Inv, ChannelsInv, ResumeInv, ResumePCs
<1>4. \A g \in Gens : ~Reading(g) /\ (Reading(g)' <=> Reading(g)) /\ (WaitedFor(g)' <=> WaitedFor(g))
  BY <1>1, <1>3 DEF Orderly, Sole, Reading, WaitedFor
<1>5. snd'[s].pc = "install" /\ snd'[s].new = snd[s].new
  BY <1>0, <1>1 DEF Calls, SendCall
<1>6. \A g \in Gens : Holds(s, g)' <=> Holds(s, g)
  BY <1>1, <1>5 DEF Holds, SpawnedPCs
<1>7. Spawns'
  BY <1>0, <1>1, <1>6 DEF Orderly, Spawns
<1>8. Sole'
  <2>1. \A g \in Gens : loop'[g].pc \notin {"wait", "judge"}
    BY <1>1, <1>4 DEF Reading
  <2>2. \A g \in Gens : ~Reading(g)'
    BY <1>4
  <2>3. snd'[s].pc # "start" /\ ~chan'[epoch'].done
    BY <1>1, <1>3, <1>5
  <2> QED
    BY <1>0, <2>1, <2>2, <2>3 DEF Sole
<1>9. Alive'
  BY <1>0, <1>1, <1>4, <1>6 DEF Orderly, Alive
<1>10. StopsLast'
  BY <1>1 DEF Orderly, StopsLast
<1> QED
  BY <1>7, <1>8, <1>9, <1>10

LEMMA InstallOrderly ==
  ASSUME TypeOK, Inv, OneSender, Orderly, NEW s \in Senders, Install(s)
  PROVE  Spawns' /\ Sole' /\ Alive' /\ StopsLast'
<1>0. /\ snd \in Calls
      /\ \A r \in Senders : r = s
  BY DEF TypeOK, Calls, OneSender
<1>1. /\ snd[s].pc = "install" /\ cmd' = snd[s].new /\ snd[s].new \in Gens
      /\ snd' = [snd EXCEPT ![s].pc = "start"]
      /\ UNCHANGED <<epoch, chan, termErr, finished, locked, sub, gens, loop, stp, stopping, stopOnce>>
  BY <1>0 DEF Install, chanVars, GoTo, Calls, SendCall
<1>2. snd'[s].pc = "start" /\ snd'[s].new = snd[s].new
  BY <1>0, <1>1 DEF Calls, SendCall
<1>3. \A g \in Gens : ~Reading(g) /\ (Reading(g)' <=> Reading(g)) /\ (WaitedFor(g)' <=> WaitedFor(g))
  BY <1>1 DEF Orderly, Sole, Reading, WaitedFor
<1>4. ~chan[epoch].done
  BY <1>1 DEF Orderly, Sole
<1>5. \A g \in Gens : Holds(s, g)' <=> Holds(s, g)
  BY <1>1, <1>2 DEF Holds, SpawnedPCs
<1>6. Spawns'
  <2>1. Holds(s, snd[s].new)
    BY <1>1 DEF Holds, SpawnedPCs
  <2> QED
    BY <1>0, <1>1, <1>5, <2>1 DEF Orderly, Spawns
<1>7. Sole'
  <2>1. \A g \in Gens : loop'[g].pc \notin {"wait", "judge"}
    BY <1>1, <1>3 DEF Reading
  <2> QED
    BY <1>0, <1>1, <1>2, <1>3, <1>4, <2>1 DEF Sole
<1>8. Alive'
  BY <1>0, <1>1, <1>3, <1>5 DEF Orderly, Alive
<1>9. StopsLast'
  BY <1>1, StopsKept DEF SameEnds
<1> QED
  BY <1>6, <1>7, <1>8, <1>9

LEMMA StartOrderly ==
  ASSUME TypeOK, Inv, OneSender, Orderly, NEW s \in Senders, StartLoop(s)
  PROVE  Spawns' /\ Sole' /\ Alive' /\ StopsLast'
<1>0. /\ snd \in Calls /\ loop \in Readers /\ gens \in Nat
      /\ \A g \in Gens : g \in Nat
      /\ \A r \in Senders : r = s
  BY DEF TypeOK, Calls, Readers, OneSender, Gens
<1>1. PICK n \in Gens : n = snd[s].new
  BY <1>0 DEF Calls, SendCall
<1>2. /\ snd[s].pc = "start" /\ Return(s)
      /\ loop' = [loop EXCEPT ![n].pc = "scan"]
      /\ UNCHANGED <<epoch, chan, termErr, finished, locked, sub, cmd, gens, stp, stopping, stopOnce>>
  BY <1>1 DEF StartLoop, Succeed, chanVars
<1>3. /\ n = cmd /\ Holds(s, n) /\ n <= gens /\ ~chan[epoch].done
      /\ \A g \in Gens : ~Reading(g)
  BY <1>1, <1>2 DEF Orderly, Sole, Spawns, Holds, SpawnedPCs
<1>4. /\ loop'[n].pc = "scan" /\ loop'[n].cancelled = loop[n].cancelled
      /\ \A g \in Gens : g # n => loop'[g] = loop[g]
  BY <1>0, <1>2 DEF Readers, Reader
<1>5. snd'[s].pc = "idle"
  BY <1>2, ReturnPc
<1>6. \A g \in Gens : ~Holds(s, g)' /\ (Holds(s, g) => g = n)
  BY <1>1, <1>5 DEF Holds, SpawnedPCs
<1>7. Spawns'
  BY <1>0, <1>2, <1>3, <1>4, <1>6 DEF Orderly, Spawns
<1>8. Sole'
  <2>1. \A g \in Gens : Reading(g)' => g = n
    BY <1>3, <1>4 DEF Reading
  <2>2. \A g \in Gens : loop'[g].pc \notin {"wait", "judge"}
    BY <1>3, <1>4 DEF Reading
  <2> QED
    BY <1>0, <1>2, <1>3, <1>5, <2>1, <2>2 DEF Sole
<1>9. Alive'
  <2>1. WaitedFor(n)'
    BY <1>4 DEF WaitedFor
  <2>2. \A g \in Gens : g # n /\ WaitedFor(g) => WaitedFor(g)'
    BY <1>4 DEF WaitedFor
  <2> QED
    BY <1>0, <1>2, <1>6, <2>1, <2>2 DEF Orderly, Alive
<1>10. StopsLast'
  <2>1. \A g \in Gens : loop'[g].cancelled => loop[g].cancelled
    BY <1>4
  <2> QED
    BY <1>2, <2>1, StopsKept DEF SameEnds
<1> QED
  BY <1>7, <1>8, <1>9, <1>10

LEMMA SendOrderly ==
  ASSUME TypeOK, Inv, OneSender, NeverReplaces, Orderly, UNCHANGED caps,
         NEW s \in Senders, SendNext(s)
  PROVE  Orderly'
<1>1. Routed
  BY DEF Orderly
<1>2. Routed'
  BY <1>1, SendRouted
<1>3. CASE SpawnClean(s)
  BY <1>2, <1>3, SpawnOrderly DEF Orderly
<1>4. CASE CommitClean(s) /\ ~stopping
  BY <1>2, <1>4, CommitOrderly DEF Orderly
<1>5. CASE Install(s)
  BY <1>2, <1>5, InstallOrderly DEF Orderly
<1>6. CASE StartLoop(s)
  BY <1>2, <1>6, StartOrderly DEF Orderly
<1>7. CASE \/ SendBegin(s) \/ Expire(s) \/ Probe(s) \/ TakeStdin(s) \/ WriteStdin(s) \/ Ends(s)
           \/ (Goes(s) /\ ~Install(s) /\ ~(CommitClean(s) /\ ~stopping))
  <2>1. Plain /\ UNCHANGED <<stopping, stopOnce, stp, loop>>
    BY <1>7, PlainSends
  <2>2. Spawns' /\ Sole' /\ Alive'
    BY <2>1, PlainKeeps DEF Orderly
  <2>3. StopsLast'
    BY <2>1, StopsKept DEF Plain
  <2> QED
    BY <1>2, <2>2, <2>3 DEF Orderly
<1> QED
  BY <1>1, <1>3, <1>4, <1>5, <1>6, <1>7, RoutedSends

-----------------------------------------------------------------------------
(* The other steps.                                                        *)

LEMMA RoutedKept ==
  ASSUME TypeOK, Routed, UNCHANGED <<caps, epoch, replacing, snd, turn>>,
         chan[epoch].closed => chan'[epoch].closed
  PROVE  Routed'
BY DEF Routed, AllIdle, UseStreamer

LEMMA LoopRouted ==
  ASSUME TypeOK, Inv, Routed, UNCHANGED caps, NEW g \in Gens, LoopNext(g)
  PROVE  Routed'
<1>1. turn' = turn
  BY DEF LoopNext, LoopStep, ReadText, ReadResult, ReadEOF, ParserPanic,
         ReadError, KillAfterError, Emit, EmitCancelled, EmitOnClosed, ReadCmd,
         Reap, Judge, FinalizeSkip, FinalizeDone, FinalizeOutput, SignalCmdDone
<1> QED
  BY <1>1, LoopIsFramed, LoopEnds, RoutedKept DEF LoopFrame

LEMMA ExitOrderly ==
  ASSUME TypeOK, Orderly, UNCHANGED caps, NEW g \in Gens, Exit(g)
  PROVE  Orderly'
<1>1. UNCHANGED <<chanVars, ctlVars, gens, loop, snd, stp, turn>>
  BY DEF Exit
<1>2. \A h \in Gens : sub'[h].state = "running" => sub[h].state = "running"
  BY DEF Exit, TypeOK, Subprocess
<1>3. SameEnds /\ \A s \in Senders, h \in Gens : Holds(s, h)' <=> Holds(s, h)
  BY <1>1 DEF SameEnds, chanVars, Holds
<1>4. Plain
  BY <1>1, <1>2, <1>3 DEF Plain, chanVars, ctlVars
<1> QED
  BY <1>1, <1>3, <1>4, PlainKeeps, StopsKept, RoutedKept DEF Orderly, chanVars, ctlVars

LEMMA ReceiveOrderly ==
  ASSUME TypeOK, Inv, NeverReplaces, Orderly, UNCHANGED caps, Receive \/ ReceiveClosed
  PROVE  Orderly'
<1>1. UNCHANGED <<epoch, ctlVars, gens, sub, loop, snd, stp>>
  BY DEF Receive, ReceiveClosed, chanVars
<1>2. SameEnds
  BY ReceiveQuiet DEF Quiet
<1>3. Plain
  BY <1>1, <1>2 DEF Plain, ctlVars, Holds
<1>4. epoch \in Epochs /\ caps \in Backends /\ (chan'[epoch].closed <=> chan[epoch].closed)
  BY <1>2 DEF TypeOK, SameEnds
<1>5. Routed'
  <2>1. ASSUME ~UseStreamer, turn' = "closed" PROVE AllIdle /\ chan[epoch].closed
    <3>1. Discipline = "afterClose"
      BY <1>4, <2>1 DEF NeverReplaces, UseStreamer
    <3>2. MayReceive
      BY DEF Receive, ReceiveClosed
    <3>3. AllIdle /\ turn # "closed"
      BY <2>1, <3>1, <3>2 DEF MayReceive
    <3> QED
      BY <2>1, <3>3 DEF Receive, ReceiveClosed
  <2> QED
    BY <1>1, <1>4, <2>1 DEF Orderly, Routed, AllIdle, UseStreamer, ctlVars
<1> QED
  BY <1>1, <1>2, <1>3, <1>5, PlainKeeps, StopsKept DEF Orderly, ctlVars

LEMMA StopPlain ==
  ASSUME TypeOK, Inv, NEW t \in Stoppers, StopCall(t) \/ StopStep(t)
  PROVE  /\ Plain /\ UNCHANGED <<epoch, chan, snd, turn, replacing>>
         /\ stopping => stopping'
         /\ \A g \in Gens : sub'[g].results = sub[g].results /\ sub'[g].accepted = sub[g].accepted
<1>0. sub \in Subs /\ loop \in Readers /\ stp \in Stops /\ cmd \in Gens
  BY DEF TypeOK, Subs, Readers, Stops
<1>1. UNCHANGED <<chanVars, cmd, replacing, gens, snd, turn>> /\ (stopping => stopping')
  BY DEF StopCall, StopStep, StopFirst, StopLater, StopSnapshot, StopTerminate,
         StopEscalate, StopTakeToken, StopReturn, TakeToken, ctlVars
<1>2. UNCHANGED loop \/ \E g \in Gens : Cancel(g)
  BY <1>0 DEF StopCall, StopStep, StopFirst, StopLater, StopSnapshot, StopTerminate,
              StopEscalate, StopTakeToken, StopReturn, Stops, StopCalls
<1>3. \A g \in Gens : loop'[g].pc = loop[g].pc /\ loop'[g].cmd = loop[g].cmd
  BY <1>0, <1>2 DEF Cancel, Readers, Reader
<1>4. \A g \in Gens : /\ sub'[g].state = sub[g].state
                      /\ sub'[g].results = sub[g].results /\ sub'[g].accepted = sub[g].accepted
  <2>1. \/ UNCHANGED sub
        \/ sub' = [sub EXCEPT ![cmd].stdinClosed = HasStdin(cmd)]
        \/ \E g \in Gens, sig \in Signals : sub' = Signalled(sub, g, sig)
    BY <1>0 DEF StopCall, StopStep, StopFirst, StopLater, StopSnapshot, StopTerminate,
                StopEscalate, StopTakeToken, StopReturn, Stops, StopCalls, Signals
  <2>2. CASE sub' = [sub EXCEPT ![cmd].stdinClosed = HasStdin(cmd)]
    BY <1>0, <2>2 DEF Subs, Subprocess
  <2>3. CASE \E g \in Gens, sig \in Signals : sub' = Signalled(sub, g, sig)
    BY <2>3, SignalledStates DEF SameStates
  <2> QED
    BY <2>1, <2>2, <2>3
<1>5. SameEnds /\ \A s \in Senders, g \in Gens : Holds(s, g)' <=> Holds(s, g)
  BY <1>1 DEF SameEnds, chanVars, Holds
<1> QED
  BY <1>1, <1>3, <1>4, <1>5 DEF Plain, chanVars

LEMMA StopOrderly ==
  ASSUME TypeOK, Inv, Orderly, UNCHANGED caps, NEW t \in Stoppers, StopCall(t) \/ StopStep(t)
  PROVE  Orderly'
<1>1. Plain /\ UNCHANGED <<epoch, chan, snd, turn, replacing>>
  BY StopPlain
<1>2. Routed' /\ Spawns' /\ Sole' /\ Alive'
  BY <1>1, PlainKeeps, RoutedKept DEF Orderly
<1>3. StopsLast'
  <2>0. /\ stp \in Stops /\ loop \in Readers /\ epoch' = epoch /\ chan' = chan
        /\ stopOnce # "new" => stopping
        /\ \A r \in Stoppers :
             /\ stp[r].pc \notin {"idle", "once"} => stopping
             /\ stp[r].pc = "join" => stp[r].ch = epoch
             /\ stp[r].pc = "returned" => chan[epoch].done
        /\ \A g \in Gens : loop[g].cancelled => stopping
    BY <1>1 DEF TypeOK, Stops, Readers, Orderly, StopsLast
  <2>1. CASE StopCall(t)
    BY <2>0, <2>1 DEF StopCall, StopGoTo, StopsLast, Stops, StopCalls, ctlVars
  <2>2. CASE StopFirst(t)
    BY <2>0, <2>2 DEF StopFirst, StopGoTo, StopsLast, Stops, StopCalls
  <2>3. CASE StopLater(t)
    BY <2>0, <2>3 DEF StopLater, Join, StopsLast, Stops, StopCalls, ctlVars
  <2>4. CASE StopSnapshot(t)
    BY <2>0, <2>4 DEF StopSnapshot, StopsLast, Stops, StopCalls, ctlVars
  <2>5. CASE StopTerminate(t)
    <3>1. \A g \in Gens : loop'[g].cancelled => stopping
      BY <2>0, <2>5 DEF StopTerminate
    <3> QED
      BY <2>0, <2>5, <3>1 DEF StopTerminate, StopGoTo, StopsLast, Stops, StopCalls, ctlVars
  <2>6. CASE StopEscalate(t)
    BY <2>0, <2>6 DEF StopEscalate, StopGoTo, StopsLast, Stops, StopCalls, ctlVars
  <2>7. CASE StopTakeToken(t)
    BY <2>0, <2>7 DEF StopTakeToken, TakeToken, Join, StopsLast, Stops, StopCalls
  <2>8. CASE StopReturn(t)
    BY <2>0, <2>8 DEF StopReturn, StopGoTo, StopsLast, Stops, StopCalls, ctlVars
  <2> QED
    BY <2>1, <2>2, <2>3, <2>4, <2>5, <2>6, <2>7, <2>8 DEF StopStep
<1> QED
  BY <1>2, <1>3 DEF Orderly

LEMMA OrderlyStep ==
  ASSUME TypeOK, Inv, OneSender, NeverReplaces, Orderly, [Next]_vars
  PROVE  Orderly'
<1>1. ASSUME NEW g \in Gens, Exit(g), UNCHANGED caps PROVE Orderly'
  BY <1>1, ExitOrderly
<1>2. ASSUME NEW g \in Gens, LoopNext(g), UNCHANGED caps PROVE Orderly'
  BY <1>2, LoopOrderly, LoopRouted DEF Orderly
<1>3. ASSUME Receive \/ ReceiveClosed, UNCHANGED caps PROVE Orderly'
  BY <1>3, ReceiveOrderly
<1>4. ASSUME NEW s \in Senders, SendNext(s), UNCHANGED caps PROVE Orderly'
  BY <1>4, SendOrderly
<1>5. ASSUME NEW t \in Stoppers, StopCall(t) \/ StopStep(t), UNCHANGED caps PROVE Orderly'
  BY <1>5, StopOrderly
<1>6. CASE UNCHANGED vars
  <2>1. UNCHANGED <<caps, chanVars, ctlVars, gens, sub, loop, snd, stp, turn>>
    BY <1>6 DEF vars
  <2>2. SameEnds /\ Plain
    BY <2>1 DEF SameEnds, Plain, Holds, chanVars, ctlVars
  <2> QED
    BY <2>1, <2>2, PlainKeeps, StopsKept, RoutedKept DEF Orderly, chanVars, ctlVars
<1> QED
  BY <1>1, <1>2, <1>3, <1>4, <1>5, <1>6 DEF Next

\* The invariant of the callers that never replace.
LEMMA OrderlyAlways ==
  ASSUME OneSender, NeverReplaces
  PROVE  Spec => [](TypeOK /\ Inv /\ Orderly)
<1>1. Init => Inv /\ Orderly
  BY InitInv, InitOrderly
<1>2. TypeOK /\ Inv /\ Orderly /\ [Next]_vars => Inv' /\ Orderly'
  BY NextContract, OrderlyStep
<1> QED
  BY <1>1, <1>2, TypeCorrect, PTL DEF Spec

\* At most one readLoop reads, waits for p.cmd or is about to decide how the
\* session ended, when the caller drains Output() to its close before each Send
\* or the backend takes its turns on stdin: installSubprocess's precondition "no
\* readLoop is active" holds, with Stop at any moment and any fault.
THEOREM OneReaderAtATime ==
  ASSUME OneSender, NeverReplaces
  PROVE  Spec => []SingleReader
<1>1. Orderly => SingleReader
  BY DEF Orderly, Sole, SingleReader
<1> QED
  BY <1>1, OrderlyAlways, PTL

\* A returned Stop has seen `done` of the last epoch there will be, which its
\* reader closes after it waited for the subprocess; and a Send that spawned one
\* meanwhile waits for it too.
THEOREM StopLeavesNobody ==
  ASSUME OneSender, NeverReplaces
  PROVE  Spec => []StoppedMeansDead
<1>1. ASSUME Orderly PROVE StoppedMeansDead
  <2> SUFFICES ASSUME NEW t \in Stoppers, stp[t].pc = "returned", AllIdle,
                      NEW g \in Gens, sub[g].state = "running"
               PROVE  FALSE
    BY DEF StoppedMeansDead
  <2>1. chan[epoch].done
    BY <1>1 DEF Orderly, StopsLast
  <2>2. ~Reading(g)
    BY <1>1, <2>1 DEF Orderly, Sole
  <2>3. \A s \in Senders : ~Holds(s, g)
    BY DEF AllIdle, Holds, SpawnedPCs
  <2> QED
    BY <1>1, <2>2, <2>3 DEF Orderly, Alive, WaitedFor, Reading
<1> QED
  BY <1>1, OrderlyAlways, PTL

-----------------------------------------------------------------------------
(* Backends that start one subprocess for each prompt: a clean exit means  *)
(* the result of that prompt reached Output().                             *)

OnePrompt ==
  /\ Discipline = "afterClose"
  /\ \A b \in Backends : ~(b.streamer /\ b.formatter)

\* What is known of the result the subprocess of generation g owes: readLoop
\* acknowledged it only if it put it on Output(), or the turn is known to have
\* failed.
Unpaid(g) == sub[g].results = 0

Accounts(g) ==
  /\ sub[g].results \in {0, 1}
  /\ loop[g].pc = "scan" => (Unpaid(g) => awaiting)
  /\ loop[g].pc = "emit" =>
       \/ loop[g].sending = <<"result">> /\ Unpaid(g)
       \/ /\ loop[g].sending \in {<<"text">>, <<"text", "window">>, <<"window">>}
          /\ Unpaid(g) => awaiting
  /\ loop[g].pc \in {"readError", "defer", "wait", "judge"} =>
       (Unpaid(g) => awaiting \/ stopping \/ loop[g].err # "nil")
  /\ loop[g].pc = "finalize" => (loop[g].res = "nil" => ~Unpaid(g))

Paid ==
  /\ \A s \in Senders : snd[s].pc \notin {"stdin", "write"}
  /\ \A g \in Gens : /\ g <= gens => sub[g].accepted = 1
                     /\ loop[g].pc = "none" => Unpaid(g)
                     /\ Accounts(g)
  /\ Ended /\ termErr = "nil" => sub[cmd].results = 1

LEMMA OnePromptFacts ==
  ASSUME TypeOK, OnePrompt
  PROVE  NeverReplaces /\ ~UseStreamer
BY DEF TypeOK, OnePrompt, NeverReplaces, UseStreamer

LEMMA InitPaid == ASSUME OnePrompt, Init PROVE Paid
<1>1. /\ ~UseStreamer /\ awaiting /\ gens = 1 /\ epoch = 0 /\ ~chan[epoch].done
      /\ \A g \in Gens : g \in Nat /\ g >= 1
      /\ \A s \in Senders : snd[s].pc = "idle"
  BY Indices DEF Init, OnePrompt, UseStreamer, FreshChannels, IdleSender, Gens
<1>2. \A g \in Gens : /\ loop[g].pc \in {"none", "scan"}
                      /\ sub[g].results = 0
                      /\ g = 1 => sub[g].accepted = 1
  BY <1>1 DEF Init, NewLoop, NoLoop, NoSub, Started
<1> QED
  BY <1>1, <1>2 DEF Paid, Accounts, Unpaid, Ended

\* Accounts are kept by a step that moves no reader and changes no result.
LEMMA PaidKept ==
  ASSUME TypeOK, Paid, SameEnds, UNCHANGED <<cmd, gens, awaiting>>, stopping => stopping',
         \A s \in Senders : snd'[s].pc \notin {"stdin", "write"},
         \A g \in Gens :
           /\ sub'[g].results = sub[g].results /\ sub'[g].accepted = sub[g].accepted
           /\ loop'[g].pc = loop[g].pc /\ loop'[g].sending = loop[g].sending
           /\ loop'[g].err = loop[g].err /\ loop'[g].res = loop[g].res
  PROVE  Paid'
<1>1. /\ epoch' = epoch /\ chan'[epoch].done = chan[epoch].done /\ termErr' = termErr
      /\ cmd \in Gens
  BY DEF TypeOK, SameEnds
<1>2. \A g \in Gens : Accounts(g)' /\ (Unpaid(g)' <=> Unpaid(g))
  BY DEF Paid, Accounts, Unpaid
<1> QED
  BY <1>1, <1>2 DEF Paid, Ended

\* A reader changes the results of its own subprocess only, by delivering one,
\* and the debt only by acknowledging one.
LEMMA LoopResults ==
  ASSUME TypeOK, NEW g \in Gens, LoopNext(g)
  PROVE  /\ \A h \in Gens : h # g \/ ~Emit(g) => sub'[h].results = sub[h].results
         /\ ReadResult(g) \/ awaiting' = awaiting
<1>0. sub \in Subs /\ cmd \in Gens /\ loop \in Readers
  BY DEF TypeOK, Subs, Readers
<1>1. ReadResult(g) \/ awaiting' = awaiting
  BY DEF LoopNext, LoopStep, ctlVars, ReadText, ReadEOF, ParserPanic,
         ReadError, KillAfterError, Emit, EmitCancelled, EmitOnClosed, ReadCmd,
         Reap, Judge, FinalizeSkip, FinalizeDone, FinalizeOutput, SignalCmdDone
<1>2. \/ UNCHANGED sub
      \/ sub' = [sub EXCEPT ![g].texts = @ + 1]
      \/ sub' = Signalled(sub, cmd, "kill")
      \/ sub' = [sub EXCEPT ![loop[g].cmd].reaped = TRUE]
      \/ Emit(g)
  BY DEF LoopNext, LoopStep, ReadText, ReadResult, ReadEOF, ParserPanic, Panicked,
         ReadError, KillAfterError, EmitCancelled, EmitOnClosed, ReadCmd,
         Reap, Judge, FinalizeSkip, FinalizeDone, FinalizeOutput, SignalCmdDone
<1>3. CASE sub' = [sub EXCEPT ![g].texts = @ + 1]
  BY <1>0, <1>1, <1>3 DEF Subs, Subprocess
<1>4. CASE sub' = Signalled(sub, cmd, "kill")
  BY <1>0, <1>1, <1>4, SignalledStates
<1>5. CASE sub' = [sub EXCEPT ![loop[g].cmd].reaped = TRUE]
  BY <1>0, <1>1, <1>5 DEF Subs, Subprocess
<1>6. CASE Emit(g)
  BY <1>0, <1>1, <1>6 DEF Emit, Subs, Subprocess
<1> QED
  BY <1>1, <1>2, <1>3, <1>4, <1>5, <1>6

\* A reader that gives up leaves an error, unless it was cancelled, by a Stop.
LEMMA GivesUp ==
  ASSUME TypeOK, NEW g \in Gens, sub'[g].results \in {0, 1},
         loop'[g].pc \in {"readError", "defer"}, loop'[g].err # "nil" \/ stopping'
  PROVE  Accounts(g)'
BY DEF Accounts

LEMMA PanickedGivesUp ==
  ASSUME TypeOK, NEW g \in Gens, Panicked(g)
  PROVE  loop'[g].pc = "defer" /\ loop'[g].err = "panic"
BY DEF Panicked, TypeOK, Reader

LEMMA LoopAccounts ==
  ASSUME TypeOK, Orderly, Paid, UNCHANGED caps, NEW g \in Gens, LoopNext(g)
  PROVE  Accounts(g)'
<1>0. loop \in Readers /\ sub \in Subs /\ Accounts(g) /\ sub[g].results \in {0, 1}
  BY DEF TypeOK, Readers, Subs, Paid, Accounts
<1>1. ~Emit(g) => sub'[g].results = sub[g].results
  BY LoopResults
<1>2. stopping' = stopping /\ (ReadResult(g) \/ awaiting' = awaiting)
  BY LoopIsFramed, LoopResults DEF LoopFrame
<1>3. CASE ReadText(g)
  <2>1. PICK msgs \in {<<"text">>, <<"text", "window">>} : Parsed(g, msgs)
    BY <1>3 DEF ReadText
  <2>2. loop'[g].pc = "emit" /\ loop'[g].sending = msgs
    BY <1>0, <2>1 DEF Parsed, Readers, Reader
  <2>3. loop[g].pc = "scan" /\ sub'[g].results = sub[g].results /\ awaiting' = awaiting
    BY <1>3, LoopResults DEF ReadText, Emit, ReadResult, ctlVars
  <2>4. loop'[g].sending \in {<<"text">>, <<"text", "window">>, <<"window">>}
    BY <2>1, <2>2
  <2> QED
    BY <1>0, <2>2, <2>3, <2>4 DEF Accounts, Unpaid
<1>4. CASE ReadResult(g)
  <2>1. Parsed(g, <<"result">>) /\ loop[g].pc = "scan" /\ sub[g].results < sub[g].accepted
        /\ sub' = sub
    BY <1>4 DEF ReadResult
  <2>2. loop'[g].pc = "emit" /\ loop'[g].sending = <<"result">>
    BY <1>0, <2>1 DEF Parsed, Readers, Reader
  <2>3. g <= gens
    BY <2>1 DEF Orderly, Sole, Spawns, Reading
  <2>4. sub[g].results = 0
    BY <1>0, <2>1, <2>3 DEF Paid
  <2> QED
    BY <2>1, <2>2, <2>4 DEF Accounts, Unpaid
<1>5. CASE ReadEOF(g)
  <2>1. loop'[g].pc = "defer" /\ loop[g].pc = "scan" /\ sub' = sub /\ awaiting' = awaiting
    BY <1>0, <1>5 DEF ReadEOF, Readers, Reader, ctlVars
  <2> QED
    BY <1>0, <2>1 DEF Accounts, Unpaid
<1>6. CASE Panicked(g)
  <2>1. sub'[g].results \in {0, 1}
    BY <1>0, <1>6, SignalledStates DEF Panicked, TypeOK
  <2> QED
    BY <1>6, <2>1, PanickedGivesUp, GivesUp
<1>7. CASE ReadError(g) /\ ~Panicked(g)
  <2>1. loop' = [loop EXCEPT ![g] = [loop[g] EXCEPT !.pc = "readError", !.err = "scan"]]
        /\ sub' = sub
    BY <1>7 DEF ReadError
  <2>2. loop'[g].pc = "readError" /\ loop'[g].err = "scan"
    BY <1>0, <2>1 DEF Readers, Reader
  <2> QED
    BY <1>0, <2>1, <2>2, GivesUp
<1>8. CASE KillAfterError(g) \/ ReadCmd(g)
  <2>1. /\ loop'[g].pc \in {"defer", "wait"} /\ loop'[g].err = loop[g].err
        /\ loop[g].pc \in {"readError", "defer"}
    <3>1. CASE KillAfterError(g)
      BY <1>0, <3>1 DEF KillAfterError, Readers, Reader
    <3>2. CASE ReadCmd(g)
      BY <1>0, <3>2 DEF ReadCmd, Readers, Reader
    <3> QED
      BY <1>8, <3>1, <3>2
  <2>2. sub'[g].results = sub[g].results /\ awaiting' = awaiting
    BY <1>1, <1>2, <2>1 DEF Emit, ReadResult
  <2> QED
    BY <1>0, <1>2, <2>1, <2>2 DEF Accounts, Unpaid
<1>9. CASE Emit(g)
  <2>1. awaiting' = awaiting /\ loop[g].pc = "emit"
    BY <1>9 DEF Emit, ctlVars
  <2>2. CASE loop[g].sending = <<"result">> /\ Unpaid(g)
    <3>1. Head(loop[g].sending) = "result" /\ Tail(loop[g].sending) = <<>>
      BY <2>2
    <3>2. /\ loop' = [loop EXCEPT ![g] = [loop[g] EXCEPT !.pc = "scan", !.sending = <<>>, !.target = 0]]
          /\ sub' = [sub EXCEPT ![g].results = sub[g].results + 1]
      BY <1>0, <1>9, <3>1 DEF Emit, Subs
    <3>3. loop'[g].pc = "scan" /\ sub'[g].results = 1
      BY <1>0, <2>2, <3>2 DEF Readers, Reader, Subs, Subprocess, Unpaid
    <3> QED
      BY <3>3 DEF Accounts, Unpaid
  <2>3. CASE loop[g].sending \in {<<"text">>, <<"window">>} /\ (Unpaid(g) => awaiting)
    <3>1. Head(loop[g].sending) # "result" /\ Tail(loop[g].sending) = <<>>
      <4>1. CASE loop[g].sending = <<"text">>
        BY <4>1
      <4>2. CASE loop[g].sending = <<"window">>
        BY <4>2
      <4> QED
        BY <2>3, <4>1, <4>2
    <3>2. /\ loop' = [loop EXCEPT ![g] = [loop[g] EXCEPT !.pc = "scan", !.sending = <<>>, !.target = 0]]
          /\ sub' = [sub EXCEPT ![g].results = sub[g].results]
      BY <1>0, <1>9, <3>1 DEF Emit, Subs
    <3>3. loop'[g].pc = "scan" /\ sub'[g].results = sub[g].results
      BY <1>0, <3>2 DEF Readers, Reader, Subs, Subprocess
    <3> QED
      BY <1>0, <2>1, <2>3, <3>3 DEF Accounts, Unpaid
  <2>4. CASE loop[g].sending = <<"text", "window">> /\ (Unpaid(g) => awaiting)
    <3>1. Head(loop[g].sending) # "result" /\ Tail(loop[g].sending) = <<"window">>
      BY <2>4
    <3>2. <<"window">> # <<>>
      OBVIOUS
    <3>3. /\ loop' = [loop EXCEPT ![g] = [loop[g] EXCEPT !.sending = <<"window">>, !.target = epoch]]
          /\ sub' = [sub EXCEPT ![g].results = sub[g].results]
      BY <1>0, <1>9, <3>1, <3>2 DEF Emit, Subs
    <3>4. /\ loop'[g].pc = "emit" /\ loop'[g].sending = <<"window">>
          /\ sub'[g].results = sub[g].results
      BY <1>0, <2>1, <3>3 DEF Readers, Reader, Subs, Subprocess
    <3> QED
      BY <1>0, <2>1, <2>4, <3>4 DEF Accounts, Unpaid
  <2> QED
    BY <1>0, <2>1, <2>2, <2>3, <2>4 DEF Accounts
<1>10. CASE EmitCancelled(g)
  <2>1. /\ loop'[g].pc = "defer" /\ loop[g].cancelled
        /\ sub' = sub
    BY <1>0, <1>10 DEF EmitCancelled, Readers, Reader
  <2>2. stopping'
    BY <1>2, <2>1 DEF Orderly, StopsLast
  <2> QED
    BY <1>0, <2>1, <2>2, GivesUp
<1>11. CASE Reap(g)
  <2>1. loop'[g].pc = "judge" /\ loop'[g].err = loop[g].err /\ loop[g].pc = "wait"
    BY <1>0, <1>11 DEF Reap, Readers, Reader
  <2>2. sub'[g].results = sub[g].results /\ awaiting' = awaiting
    BY <1>1, <1>2, <2>1 DEF Emit, ReadResult
  <2> QED
    BY <1>0, <1>2, <2>1, <2>2 DEF Accounts, Unpaid
<1>12. CASE Judge(g)
  <2>1. /\ loop'[g].pc = "finalize" /\ loop'[g].res = Verdict(g) /\ loop[g].pc = "judge"
        /\ sub' = sub
    BY <1>0, <1>12 DEF Judge, Readers, Reader
  <2>2. Verdict(g) = "nil" => ~stopping /\ loop[g].err = "nil" /\ ~awaiting
    BY DEF Verdict
  <2> QED
    BY <1>0, <2>1, <2>2 DEF Accounts, Unpaid
<1>13. CASE FinalizeSkip(g) \/ FinalizeDone(g) \/ FinalizeOutput(g) \/ SignalCmdDone(g)
  <2>1. loop'[g].pc \in {"closeOutput", "signal", "end"}
    BY <1>0, <1>13 DEF FinalizeSkip, FinalizeDone, FinalizeOutput, SignalCmdDone, NoLoop,
                       Readers, Reader
  <2>2. sub'[g].results \in {0, 1}
    BY <1>0, <1>13 DEF FinalizeSkip, FinalizeDone, FinalizeOutput, SignalCmdDone
  <2> QED
    BY <2>1, <2>2 DEF Accounts
<1>14. ParserPanic(g) \/ EmitOnClosed(g) => Panicked(g)
  BY DEF ParserPanic, EmitOnClosed
<1> QED
  BY <1>3, <1>4, <1>5, <1>6, <1>7, <1>8, <1>9, <1>10, <1>11, <1>12, <1>13, <1>14
     DEF LoopNext, LoopStep

LEMMA LoopPaid ==
  ASSUME TypeOK, Inv, Orderly, Paid, UNCHANGED caps, NEW g \in Gens, LoopNext(g)
  PROVE  Paid'
<1>1. /\ UNCHANGED <<epoch, cmd, gens, snd, stopping>>
      /\ \A h \in Gens : h # g => loop'[h] = loop[h]
      /\ loop'[g].pc # "none" /\ SameStates
  BY LoopIsFramed DEF LoopFrame
<1>2. \A h \in Gens : h # g => sub'[h].results = sub[h].results
  BY LoopResults
<1>3. \A h \in Gens : Accounts(h)'
  <2> SUFFICES ASSUME NEW h \in Gens, h # g PROVE Accounts(h)'
    BY LoopAccounts
  <2>1. Accounts(h) /\ loop'[h] = loop[h] /\ sub'[h].results = sub[h].results
    BY <1>1, <1>2 DEF Paid
  <2>2. CASE Reading(h)
    <3>1. ~Reading(g)
      BY <2>2 DEF Orderly, Sole
    <3>2. awaiting' = awaiting
      BY <3>1, LoopResults DEF ReadResult, Reading
    <3> QED
      BY <1>1, <2>1, <3>2 DEF Accounts, Unpaid
  <2>3. CASE ~Reading(h)
    BY <2>1, <2>3 DEF Accounts, Reading
  <2> QED
    BY <2>2, <2>3
<1>4. \A h \in Gens : loop'[h].pc = "none" => Unpaid(h)'
  BY <1>1, <1>2 DEF Paid, Unpaid
<1>5. ASSUME chan'[epoch].done, termErr' = "nil" PROVE sub'[cmd].results = 1
  <2>0. cmd \in Gens
    BY DEF TypeOK
  <2>1. CASE FinalizeDone(g)
    <3>1. g = cmd /\ loop[g].pc = "finalize" /\ loop[g].res = "nil" /\ sub' = sub
      BY <1>5, <2>1 DEF FinalizeDone, CloseDone, Orderly, Sole, Reading
    <3> QED
      BY <3>1 DEF Paid, Accounts, Unpaid
  <2>2. CASE ~FinalizeDone(g)
    <3>1. chan[epoch].done
      BY <1>5, <2>2, LoopEnds
    <3>2. termErr' = termErr
      BY <2>2 DEF LoopNext, LoopStep, chanVars, ReadText, ReadResult, ReadEOF, ParserPanic,
         ReadError, KillAfterError, Emit, EmitCancelled, EmitOnClosed, ReadCmd,
         Reap, Judge, FinalizeSkip, FinalizeOutput, SignalCmdDone
    <3>3. ~Emit(g)
      BY <3>1 DEF Emit, Orderly, Sole, Reading
    <3> QED
      BY <1>5, <2>0, <3>1, <3>2, <3>3, LoopResults DEF Paid, Ended
  <2> QED
    BY <2>1, <2>2
<1> QED
  BY <1>1, <1>3, <1>4, <1>5 DEF Paid, SameStates, Ended

LEMMA PlainSendPaid ==
  ASSUME TypeOK, Inv, OneSender, OnePrompt, Routed, Paid, NEW s \in Senders,
         \/ SendBegin(s) \/ Expire(s) \/ Probe(s) \/ Ends(s)
         \/ (Goes(s) /\ ~Install(s) /\ ~(CommitClean(s) /\ ~stopping))
  PROVE  Paid'
<1>0. /\ sub \in Subs /\ snd \in Calls
      /\ \A r \in Senders : r = s
      /\ snd[s].pc \notin {"stdin", "write"}
  BY DEF TypeOK, Subs, Calls, OneSender, Paid
<1>1. Plain /\ UNCHANGED <<stopping, loop>>
  BY PlainSends
<1>2. awaiting' = awaiting
  BY <1>0 DEF SendBegin, Expire, Probe, Ends, Goes, Classify, CheckResume, DrainToken,
              CommitClean, SendUnsupported, WriteFails, SpawnCleanFails, AbortClean, ctlVars
<1>3. \A g \in Gens : sub'[g].results = sub[g].results /\ sub'[g].accepted = sub[g].accepted
  <2>1. \/ UNCHANGED sub
        \/ \E g \in Gens : sub' = Signalled(sub, g, "kill")
        \/ \E g \in Gens : sub' = [sub EXCEPT ![g].reaped = TRUE]
    <3>1. snd[s].new \in Gens
      BY <1>0 DEF Calls, SendCall
    <3> QED
      BY <1>0, <3>1 DEF SendBegin, Expire, Probe, Ends, Goes, Classify, CheckResume, DrainToken,
              CommitClean, SendUnsupported, WriteFails, SpawnCleanFails, AbortClean
  <2>2. CASE \E g \in Gens : sub' = Signalled(sub, g, "kill")
    BY <2>2, SignalledStates DEF SameStates
  <2>3. CASE \E g \in Gens : sub' = [sub EXCEPT ![g].reaped = TRUE]
    BY <1>0, <2>3 DEF Subs, Subprocess
  <2> QED
    BY <2>1, <2>2, <2>3
<1>4. snd'[s].pc \notin {"stdin", "write"}
  <2>1. CASE SendBegin(s)
    BY <1>0, <2>1, GoToPc DEF SendBegin
  <2>2. CASE Expire(s)
    <3>1. snd'[s].pc = snd[s].pc
      BY <1>0, <2>2 DEF Expire, Calls, SendCall
    <3> QED
      BY <1>0, <3>1
  <2>3. CASE Probe(s)
    <3>1. chan[epoch].done
      BY <2>3, OnePromptFacts DEF Probe, Routed, Inv, ChannelsInv
    <3>2. GoTo(s, "classify")
      BY <2>3, <3>1 DEF Probe
    <3> QED
      BY <3>2, GoToPc
  <2>4. CASE Ends(s)
    BY <2>4, EndsFails, ReturnPc DEF Fail
  <2>5. CASE Goes(s)
    BY <2>5, GoesOn, GoToPc
  <2> QED
    BY <2>1, <2>2, <2>3, <2>4, <2>5
<1> QED
  BY <1>0, <1>1, <1>2, <1>3, <1>4, PaidKept DEF Plain

LEMMA SendPaid ==
  ASSUME TypeOK, Inv, OneSender, OnePrompt, Orderly, Paid,
         NEW s \in Senders, SendNext(s)
  PROVE  Paid'
<1>0. /\ sub \in Subs /\ snd \in Calls /\ loop \in Readers
      /\ gens \in Nat /\ cmd \in Gens /\ cmd <= gens
      /\ \A g \in Gens : g \in Nat
      /\ \A r \in Senders : r = s
      /\ snd[s].pc \notin {"stdin", "write"}
  BY DEF TypeOK, Subs, Calls, Readers, Gens, OneSender, Paid, Orderly, Spawns
<1>1. ~TakeStdin(s) /\ ~WriteStdin(s)
  BY <1>0 DEF TakeStdin, WriteStdin
<1>2. CASE SpawnClean(s)
  <2>1. /\ gens + 1 \in Gens /\ gens' = gens + 1
        /\ sub' = [sub EXCEPT ![gens + 1] = Started(TRUE)]
        /\ UNCHANGED <<chan, epoch, termErr, cmd, awaiting, stopping, loop>>
    BY <1>0, <1>2, CliAssumption DEF SpawnClean, Spawn, chanVars, ctlVars, Gens
  <2>2. snd'[s].pc = "drain"
    BY <1>2, SpawnPc DEF SpawnClean
  <2>3. /\ \A g \in Gens : g # gens + 1 => sub'[g] = sub[g]
        /\ sub'[gens + 1].accepted = 1 /\ sub'[gens + 1].results = 0
    BY <1>0, <2>1 DEF Subs, Started, NoSub
  <2>4. loop[gens + 1].pc = "none"
    BY <1>0, <2>1 DEF Orderly, Spawns
  <2>5. \A g \in Gens : Accounts(g)' /\ (loop[g].pc = "none" => Unpaid(g)')
    BY <2>1, <2>3, <2>4 DEF Paid, Accounts, Unpaid
  <2>6. \A g \in Gens : g <= gens + 1 => sub'[g].accepted = 1
    BY <1>0, <2>3 DEF Paid
  <2>7. cmd # gens + 1
    BY <1>0
  <2> QED
    BY <1>0, <2>1, <2>2, <2>3, <2>5, <2>6, <2>7 DEF Paid, Ended
<1>3. CASE CommitClean(s) /\ ~stopping
  <2>1. /\ snd[s].pc = "commit" /\ GoTo(s, "install") /\ FreshEpoch
        /\ UNCHANGED <<chan, sub, cmd, gens, loop, awaiting, stopping>>
    BY <1>3 DEF CommitClean, ctlVars
  <2>2. snd'[s].pc = "install"
    BY <2>1, GoToPc
  <2>3. ~chan'[epoch'].done
    <3>1. epoch \in Nat /\ epoch' \in Epochs /\ epoch' > epoch
      BY <2>1, CliAssumption DEF FreshEpoch, TypeOK, Epochs
    <3> QED
      BY <2>1, <3>1 DEF Inv, ChannelsInv
  <2>4. \A g \in Gens : Accounts(g)' /\ (Unpaid(g)' <=> Unpaid(g))
    BY <2>1 DEF Paid, Accounts, Unpaid
  <2> QED
    BY <1>0, <2>1, <2>2, <2>3, <2>4 DEF Paid, Ended
<1>4. CASE Install(s)
  <2>1. /\ snd[s].pc = "install" /\ GoTo(s, "start")
        /\ UNCHANGED <<chan, epoch, sub, gens, loop, awaiting, stopping>>
    BY <1>4 DEF Install, chanVars
  <2>2. snd'[s].pc = "start" /\ ~chan[epoch].done
    BY <2>1, GoToPc DEF Orderly, Sole
  <2>3. \A g \in Gens : Accounts(g)' /\ (Unpaid(g)' <=> Unpaid(g))
    BY <2>1 DEF Paid, Accounts, Unpaid
  <2> QED
    BY <1>0, <2>1, <2>2, <2>3 DEF Paid, Ended
<1>5. CASE StartLoop(s)
  <2>1. PICK n \in Gens : n = snd[s].new
    BY <1>0 DEF Calls, SendCall
  <2>2. /\ snd[s].pc = "start" /\ Return(s) /\ awaiting'
        /\ loop' = [loop EXCEPT ![n].pc = "scan"]
        /\ UNCHANGED <<epoch, chan, sub, cmd, gens, stopping>>
    BY <1>5, <2>1 DEF StartLoop, Succeed, chanVars
  <2>3. loop[n].pc = "none" /\ ~chan[epoch].done
    BY <2>1, <2>2 DEF Orderly, Spawns, Sole, Holds, SpawnedPCs
  <2>4. loop'[n].pc = "scan" /\ \A g \in Gens : g # n => loop'[g] = loop[g]
    BY <1>0, <2>2 DEF Readers, Reader
  <2>5. snd'[s].pc = "idle"
    BY <2>2, ReturnPc
  <2>6. \A g \in Gens : Accounts(g)' /\ (loop'[g].pc = "none" => Unpaid(g)')
    BY <2>2, <2>3, <2>4 DEF Paid, Accounts, Unpaid
  <2> QED
    BY <1>0, <2>2, <2>3, <2>5, <2>6 DEF Paid, Ended
<1>6. Routed
  BY DEF Orderly
<1> QED
  BY <1>1, <1>2, <1>3, <1>4, <1>5, <1>6, RoutedSends, PlainSendPaid

LEMMA PaidStep ==
  ASSUME TypeOK, Inv, OneSender, OnePrompt, Orderly, Paid, [Next]_vars
  PROVE  Paid'
<1>0. \A s \in Senders : snd[s].pc \notin {"stdin", "write"}
  BY DEF Paid
<1>1. ASSUME NEW g \in Gens, Exit(g) PROVE Paid'
  <2>1. UNCHANGED <<chanVars, ctlVars, gens, loop, snd>>
    BY <1>1 DEF Exit
  <2>2. \A h \in Gens : sub'[h].results = sub[h].results /\ sub'[h].accepted = sub[h].accepted
    BY <1>1 DEF Exit, TypeOK, Subprocess
  <2> QED
    BY <1>0, <2>1, <2>2, PaidKept DEF SameEnds, chanVars, ctlVars
<1>2. ASSUME NEW g \in Gens, LoopNext(g), UNCHANGED caps PROVE Paid'
  BY <1>2, LoopPaid
<1>3. ASSUME Receive \/ ReceiveClosed PROVE Paid'
  <2>1. UNCHANGED <<ctlVars, gens, sub, loop, snd>>
    BY <1>3 DEF Receive, ReceiveClosed
  <2>2. SameEnds
    BY <1>3, ReceiveQuiet DEF Quiet
  <2> QED
    BY <1>0, <2>1, <2>2, PaidKept DEF ctlVars
<1>4. ASSUME NEW s \in Senders, SendNext(s) PROVE Paid'
  BY <1>4, SendPaid
<1>5. ASSUME NEW t \in Stoppers, StopCall(t) \/ StopStep(t) PROVE Paid'
  <2>0. loop \in Readers
    BY DEF TypeOK, Readers
  <2>1. awaiting' = awaiting
    BY <1>5 DEF StopCall, StopStep, StopFirst, StopLater, StopSnapshot, StopTerminate,
         StopEscalate, StopTakeToken, StopReturn, TakeToken, ctlVars
  <2>2. UNCHANGED loop \/ \E g : Cancel(g)
    BY <1>5 DEF StopCall, StopStep, StopFirst, StopLater, StopSnapshot, StopTerminate,
                StopEscalate, StopTakeToken, StopReturn
  <2>3. \A g \in Gens : /\ loop'[g].pc = loop[g].pc /\ loop'[g].sending = loop[g].sending
                        /\ loop'[g].err = loop[g].err /\ loop'[g].res = loop[g].res
    BY <2>0, <2>2 DEF Cancel, Readers, Reader
  <2> QED
    BY <1>0, <1>5, <2>1, <2>3, StopPlain, PaidKept DEF Plain
<1>6. CASE UNCHANGED vars
  BY <1>0, <1>6, PaidKept DEF vars, chanVars, ctlVars, SameEnds
<1> QED
  BY <1>1, <1>2, <1>3, <1>4, <1>5, <1>6 DEF Next

\* Err: "nil if the session ended cleanly with a result message".  It keeps its
\* word for backends that run one subprocess per prompt and a caller that drains
\* Output(): read errors, parser panics, failed spawns and Stops included.
THEOREM CleanExitsAreAnswered ==
  ASSUME OneSender, OnePrompt
  PROVE  Spec => []CleanExitHasResult
<1>1. Init => Paid
  BY InitPaid
<1>2. NeverReplaces
  BY DEF OnePrompt, NeverReplaces
<1>3. TypeOK /\ Inv /\ Orderly /\ Paid /\ [Next]_vars => Paid'
  BY PaidStep
<1>4. TypeOK /\ Inv /\ Orderly /\ Paid => CleanExitHasResult
  <2> SUFFICES ASSUME TypeOK, Inv, Orderly, Paid, Ended, termErr = "nil"
               PROVE  sub[cmd].results > 0 /\ sub[cmd].results = sub[cmd].accepted
    BY DEF CleanExitHasResult
  <2>1. cmd \in Gens /\ cmd <= gens
    BY DEF TypeOK, Orderly, Spawns
  <2> QED
    BY <2>1 DEF Paid
<1>5. Spec => [](TypeOK /\ Inv /\ Orderly)
  BY <1>2, OrderlyAlways
<1> QED
  BY <1>1, <1>3, <1>4, <1>5, PTL DEF Spec

-----------------------------------------------------------------------------
(* p.awaitingResult is set and cleared without the lock, by Sends and by   *)
(* every readLoop.  It never claims a debt that is not there: when it is   *)
(* set, the subprocess of p.cmd owes a result, or is about to be asked.    *)

Writing == \E s \in Senders : snd[s].pc = "write"

Delivering(g) == loop[g].pc = "emit" /\ loop[g].sending = <<"result">>

Emissions == {<<"result">>, <<"text">>, <<"text", "window">>, <<"window">>}

\* A subprocess some Send spawned and has not started reading owes its first result.
Unread ==
  /\ cmd <= gens
  /\ \A g \in Gens : g > gens => loop[g].pc = "none"
  /\ \A s \in Senders, g \in Gens :
       Holds(s, g) => g <= gens /\ loop[g].pc = "none" /\ sub[g].results = 0
  /\ \A s \in Senders : /\ snd[s].pc = "start" => snd[s].new = cmd
                        /\ snd[s].pc = "write" => snd[s].old = cmd

Lawful(g) ==
  /\ sub[g].results <= sub[g].accepted
  /\ loop[g].pc = "emit" => loop[g].sending \in Emissions
  /\ Delivering(g) => sub[g].results < sub[g].accepted
  /\ loop[g].pc = "judge" => loop[g].res \in {"nil", "exit"}

Owed ==
  awaiting =>
    \/ Writing
    \/ sub[cmd].results = 0 /\ ~Delivering(cmd)
    \/ IF Delivering(cmd) THEN sub[cmd].results + 1 < sub[cmd].accepted
                          ELSE sub[cmd].results < sub[cmd].accepted

Debts == Unread /\ (\A g \in Gens : Lawful(g)) /\ Owed

LEMMA InitDebts == ASSUME Init PROVE Debts
<1>1. /\ gens = 1 /\ cmd = 1 /\ \A g \in Gens : g \in Nat
      /\ \A s \in Senders : snd[s].pc = "idle"
  BY Indices DEF Init, IdleSender, Gens
<1>2. \A g \in Gens : /\ loop[g].pc = IF g = 1 THEN "scan" ELSE "none"
                      /\ sub[g].results = 0 /\ sub[g].accepted \in {0, 1}
  BY DEF Init, NewLoop, NoLoop, NoSub, Started
<1>3. Unread
  BY <1>1, <1>2 DEF Unread, Holds, SpawnedPCs
<1>4. \A g \in Gens : Lawful(g)
  BY <1>2 DEF Lawful, Delivering
<1>5. Owed
  BY <1>1, <1>2, Indices DEF Owed, Delivering
<1> QED
  BY <1>3, <1>4, <1>5 DEF Debts

\* A step that moves no reader, asks and answers nothing.
Flat ==
  /\ UNCHANGED <<cmd, gens>> /\ (awaiting' => awaiting)
  /\ \A g \in Gens :
       /\ sub'[g].results = sub[g].results /\ sub'[g].accepted = sub[g].accepted
       /\ loop'[g].pc = loop[g].pc /\ loop'[g].sending = loop[g].sending
       /\ loop'[g].res = loop[g].res
  /\ \A s \in Senders :
       /\ snd'[s].pc \in SpawnedPCs => snd[s].pc \in SpawnedPCs /\ snd'[s].new = snd[s].new
       /\ snd'[s].pc = "start" => snd[s].pc = "start"
       /\ snd'[s].pc = "write" => snd[s].pc = "write" /\ snd'[s].old = snd[s].old
       /\ snd[s].pc = "write" => snd'[s].pc = "write" \/ ~awaiting'

LEMMA FlatDebts ==
  ASSUME TypeOK, Debts, Flat
  PROVE  Debts'
<1>1. cmd' = cmd /\ gens' = gens /\ cmd \in Gens /\ (awaiting' => awaiting)
  BY DEF Flat, TypeOK
<1>2. \A g \in Gens : Lawful(g)' /\ (Delivering(g)' <=> Delivering(g))
  BY DEF Flat, Debts, Lawful, Delivering
<1>3. \A s \in Senders, g \in Gens : Holds(s, g)' => Holds(s, g)
  BY DEF Flat, Holds
<1>4. Unread'
  BY <1>1, <1>3 DEF Flat, Debts, Unread, SpawnedPCs
<1>5. awaiting' /\ Writing => Writing'
  BY DEF Flat, Writing
<1>6. Owed'
  BY <1>1, <1>2, <1>5 DEF Flat, Debts, Owed
<1> QED
  BY <1>2, <1>4, <1>6 DEF Debts

LEMMA StopFlat ==
  ASSUME TypeOK, Inv, NEW t \in Stoppers, StopCall(t) \/ StopStep(t)
  PROVE  Flat
<1>0. loop \in Readers
  BY DEF TypeOK, Readers
<1>1. awaiting' = awaiting
  BY DEF StopCall, StopStep, StopFirst, StopLater, StopSnapshot, StopTerminate,
         StopEscalate, StopTakeToken, StopReturn, TakeToken, ctlVars
<1>2. UNCHANGED loop \/ \E g : Cancel(g)
  BY DEF StopCall, StopStep, StopFirst, StopLater, StopSnapshot, StopTerminate,
         StopEscalate, StopTakeToken, StopReturn
<1>3. \A g \in Gens : /\ loop'[g].pc = loop[g].pc /\ loop'[g].sending = loop[g].sending
                      /\ loop'[g].res = loop[g].res
  BY <1>0, <1>2 DEF Cancel, Readers, Reader
<1>4. UNCHANGED <<cmd, gens, snd>>
  BY StopPlain DEF Plain
<1> QED
  BY <1>1, <1>3, <1>4, StopPlain DEF Flat

\* The steps of a Send that neither write nor start anything.
LEMMA SendFlat ==
  ASSUME TypeOK, OneSender, NEW s \in Senders,
         \/ SendBegin(s) \/ Expire(s) \/ Probe(s) \/ Ends(s) \/ (Goes(s) /\ ~Install(s))
         \/ Claim(s) \/ ClaimFails(s) \/ Interrupt(s) \/ AwaitOld(s) \/ AwaitExpired(s)
         \/ AwaitKilled(s) \/ SpawnReplacementFails(s) \/ FailReplacement(s) \/ FailOutput(s)
         \/ FailSignal(s)
  PROVE  Flat
<1>0. /\ sub \in Subs /\ snd \in Calls /\ loop \in Readers /\ cmd \in Gens
      /\ \A r \in Senders : r = s
      /\ snd[s].new \in Gens /\ snd[s].old \in Gens
  BY DEF TypeOK, Subs, Calls, Readers, OneSender, SendCall
<1>1. UNCHANGED <<cmd, gens>> /\ (awaiting' => awaiting)
  BY DEF SendBegin, Expire, Probe, Ends, Goes, Classify, CheckResume, DrainToken,
         CommitClean, SendUnsupported, WriteFails, SpawnCleanFails, AbortClean, Claim,
         ClaimFails, Interrupt, AwaitOld, AwaitExpired, AwaitKilled, SpawnReplacementFails,
         FailReplacement, FailOutput, FailSignal, TakeToken, ctlVars
<1>2. \A g \in Gens : sub'[g].results = sub[g].results /\ sub'[g].accepted = sub[g].accepted
  <2>1. \/ UNCHANGED sub
        \/ \E g \in Gens, sig \in {"term", "kill"} : sub' = Signalled(sub, g, sig)
        \/ \E g \in Gens : sub' = [sub EXCEPT ![g].reaped = TRUE]
        \/ sub' = [sub EXCEPT ![cmd].stdinClosed = HasStdin(cmd)]
    BY <1>0 DEF SendBegin, Expire, Probe, Ends, Goes, Classify, CheckResume, DrainToken,
         CommitClean, SendUnsupported, WriteFails, SpawnCleanFails, AbortClean, Claim,
         ClaimFails, Interrupt, AwaitOld, AwaitExpired, AwaitKilled, SpawnReplacementFails,
         FailReplacement, FailOutput, FailSignal
  <2>2. CASE \E g \in Gens, sig \in {"term", "kill"} : sub' = Signalled(sub, g, sig)
    BY <2>2, SignalledStates DEF SameStates
  <2>3. CASE \E g \in Gens : sub' = [sub EXCEPT ![g].reaped = TRUE]
    BY <1>0, <2>3 DEF Subs, Subprocess
  <2>4. CASE sub' = [sub EXCEPT ![cmd].stdinClosed = HasStdin(cmd)]
    BY <1>0, <2>4 DEF Subs, Subprocess
  <2> QED
    BY <2>1, <2>2, <2>3, <2>4
<1>3. \A g \in Gens : /\ loop'[g].pc = loop[g].pc /\ loop'[g].sending = loop[g].sending
                      /\ loop'[g].res = loop[g].res
  <2>1. UNCHANGED loop \/ \E g : Cancel(g)
    BY DEF SendBegin, Expire, Probe, Ends, Goes, Classify, CheckResume, DrainToken,
         CommitClean, SendUnsupported, WriteFails, SpawnCleanFails, AbortClean, Claim,
         ClaimFails, Interrupt, AwaitOld, AwaitExpired, AwaitKilled, SpawnReplacementFails,
         FailReplacement, FailOutput, FailSignal
  <2> QED
    BY <1>0, <2>1 DEF Cancel, Readers, Reader
<1>4. /\ snd'[s].pc \in SpawnedPCs => snd[s].pc \in SpawnedPCs /\ snd'[s].new = snd[s].new
      /\ snd'[s].pc = "start" => snd[s].pc = "start"
      /\ snd'[s].pc = "write" => snd[s].pc = "write" /\ snd'[s].old = snd[s].old
      /\ snd[s].pc = "write" => snd'[s].pc = "write" \/ ~awaiting'
  <2>1. CASE Expire(s)
    BY <1>0, <2>1 DEF Expire, Calls, SendCall
  <2>2. CASE SendBegin(s)
    <3>1. (snd' = snd \/ GoTo(s, "probe")) /\ snd[s].pc = "idle"
      BY <2>2 DEF SendBegin
    <3> QED
      BY <3>1, GoToPc DEF SpawnedPCs
  <2>3. CASE Ends(s) \/ ClaimFails(s) \/ FailSignal(s)
    <3>1. Fail(s)
      BY <2>3, EndsFails DEF ClaimFails, FailSignal
    <3>2. snd[s].pc = "write" => ~awaiting'
      BY <2>3 DEF Ends, Classify, CheckResume, SendUnsupported, WriteFails, SpawnCleanFails,
                  AbortClean, ClaimFails, FailSignal
    <3> QED
      BY <3>1, <3>2, ReturnPc DEF Fail, SpawnedPCs
  <2>4. CASE Probe(s) \/ (Goes(s) /\ ~(DrainToken(s) \/ CommitClean(s) \/ Install(s)))
             \/ FailReplacement(s) \/ FailOutput(s) \/ Interrupt(s) \/ AwaitOld(s)
             \/ AwaitExpired(s)
    <3>1. snd[s].pc # "write"
      BY <2>4 DEF Probe, Goes, Classify, CheckResume, FailReplacement, FailOutput, Interrupt,
                  AwaitOld, AwaitExpired
    <3>2. PICK pc \in {"classify", "stdin", "claim", "resume", "spawnClean", "failSignal",
                       "failOutput", "await", "spawnReplacement", "awaitKilled"} : GoTo(s, pc)
      BY <2>4 DEF Probe, Goes, Classify, CheckResume, FailReplacement, FailOutput, Interrupt,
                  AwaitOld, AwaitExpired
    <3> QED
      BY <3>1, <3>2, GoToPc DEF SpawnedPCs
  <2>5. CASE DrainToken(s) \/ CommitClean(s)
    <3>1. /\ snd[s].pc \in {"drain", "commit"}
          /\ \E pc \in {"commit", "abort", "install"} : GoTo(s, pc)
      BY <2>5 DEF DrainToken, CommitClean
    <3>2. snd'[s].new = snd[s].new /\ snd'[s].pc \in {"commit", "abort", "install"}
      BY <1>0, <3>1 DEF GoTo, Calls, SendCall
    <3> QED
      BY <3>1, <3>2 DEF SpawnedPCs
  <2>6. CASE Claim(s)
    <3>1. \/ GoTo(s, "spawnClean") \/ Return(s)
          \/ snd' = [snd EXCEPT ![s] = [snd[s] EXCEPT !.pc = "interrupt", !.old = cmd]]
      BY <2>6 DEF Claim, Fail
    <3>2. snd'[s].pc \in {"spawnClean", "idle", "interrupt"}
      <4>1. CASE GoTo(s, "spawnClean") \/ Return(s)
        BY <4>1, GoToPc, ReturnPc
      <4>2. CASE snd' = [snd EXCEPT ![s] = [snd[s] EXCEPT !.pc = "interrupt", !.old = cmd]]
        BY <1>0, <4>2 DEF Calls, SendCall
      <4> QED
        BY <3>1, <4>1, <4>2
    <3> QED
      BY <2>6, <3>2 DEF Claim, SpawnedPCs
  <2>7. CASE AwaitKilled(s) \/ SpawnReplacementFails(s)
    <3>1. /\ snd[s].pc # "write"
          /\ \E err \in TermErrs :
               snd' = [snd EXCEPT ![s] = [snd[s] EXCEPT !.pc = "fail", !.err = err]]
      BY <2>7 DEF AwaitKilled, SpawnReplacementFails, TermErrs
    <3>2. snd'[s].pc = "fail"
      BY <1>0, <3>1 DEF Calls, SendCall
    <3> QED
      BY <3>1, <3>2 DEF SpawnedPCs
  <2> QED
    BY <2>1, <2>2, <2>3, <2>4, <2>5, <2>6, <2>7
<1> QED
  BY <1>0, <1>1, <1>2, <1>3, <1>4 DEF Flat

\* The turn is announced before it is written, and counted by then.
LEMMA WriteDebts ==
  ASSUME TypeOK, OneSender, Debts, NEW s \in Senders, TakeStdin(s) \/ WriteStdin(s)
  PROVE  Debts'
<1>0. /\ sub \in Subs /\ snd \in Calls /\ cmd \in Gens
      /\ \A r \in Senders : r = s
  BY DEF TypeOK, Subs, Calls, OneSender
<1>1. CASE TakeStdin(s)
  <2>1. /\ snd' = [snd EXCEPT ![s] = [snd[s] EXCEPT !.pc = "write", !.old = cmd]]
        /\ UNCHANGED <<cmd, gens, sub, loop>>
    BY <1>1 DEF TakeStdin
  <2>2. snd'[s].pc = "write" /\ snd'[s].old = cmd
    BY <1>0, <2>1 DEF Calls, SendCall
  <2>3. Unread'
    BY <1>0, <2>1, <2>2 DEF Debts, Unread, Holds, SpawnedPCs
  <2>4. \A g \in Gens : Lawful(g)'
    BY <2>1 DEF Debts, Lawful, Delivering
  <2>5. Owed'
    BY <2>2 DEF Owed, Writing
  <2> QED
    BY <2>3, <2>4, <2>5 DEF Debts
<1>2. CASE WriteStdin(s)
  <2>1. /\ snd[s].pc = "write" /\ Return(s)
        /\ sub' = [sub EXCEPT ![snd[s].old].accepted = @ + 1]
        /\ UNCHANGED <<cmd, gens, loop, awaiting>>
    BY <1>2 DEF WriteStdin, Succeed, ctlVars
  <2>2. snd'[s].pc = "idle" /\ snd[s].old = cmd
    BY <2>1, ReturnPc DEF Debts, Unread
  <2>3. /\ \A g \in Gens : /\ sub'[g].results = sub[g].results /\ sub[g].results \in Nat
                           /\ sub[g].accepted \in Nat
                           /\ g # cmd => sub'[g].accepted = sub[g].accepted
        /\ sub'[cmd].accepted = sub[cmd].accepted + 1
    BY <1>0, <2>1, <2>2 DEF Subs, Subprocess
  <2>4. Unread'
    BY <1>0, <2>1, <2>2, <2>3 DEF Debts, Unread, Holds, SpawnedPCs
  <2>5. \A g \in Gens : Lawful(g)' /\ (Delivering(g)' <=> Delivering(g))
    BY <2>1, <2>3 DEF Debts, Lawful, Delivering
  <2>6. Owed'
    <3>1. /\ sub[cmd].results <= sub[cmd].accepted
          /\ Delivering(cmd) => sub[cmd].results < sub[cmd].accepted
      BY <1>0 DEF Debts, Lawful
    <3>2. Delivering(cmd)' <=> Delivering(cmd)
      BY <2>1 DEF Delivering
    <3> QED
      BY <1>0, <2>1, <2>3, <3>1, <3>2 DEF Owed
  <2> QED
    BY <2>4, <2>5, <2>6 DEF Debts
<1> QED
  BY <1>1, <1>2

LEMMA SpawnDebts ==
  ASSUME TypeOK, OneSender, Debts, NEW s \in Senders, SpawnClean(s) \/ SpawnReplacement(s)
  PROVE  Debts'
<1>0. /\ sub \in Subs /\ snd \in Calls /\ gens \in Nat
      /\ cmd \in Gens /\ cmd \in Nat /\ cmd <= gens
      /\ \A g \in Gens : g \in Nat
      /\ \A r \in Senders : r = s
  BY DEF TypeOK, Subs, Calls, OneSender, Gens, Debts, Unread
<1>1. PICK pc \in {"drain", "install"} : Spawn(s, pc)
  BY DEF SpawnClean, SpawnReplacement
<1>2. PICK n \in Gens : n = gens + 1
  BY <1>0, <1>1, CliAssumption DEF Spawn, Gens
<1>3. /\ gens' = n /\ snd[s].pc # "write"
      /\ sub' = [sub EXCEPT ![n] = Started(TRUE)]
      /\ snd' = [snd EXCEPT ![s] = [snd[s] EXCEPT !.pc = pc, !.new = n]]
      /\ UNCHANGED <<cmd, loop, awaiting>>
  BY <1>1, <1>2 DEF SpawnClean, SpawnReplacement, Spawn, ctlVars
<1>4. /\ snd'[s].pc = pc /\ snd'[s].new = n
      /\ \A g \in Gens : Holds(s, g)' => g = n
  BY <1>0, <1>3 DEF Calls, SendCall, Holds
<1>5. /\ \A g \in Gens : g # n => sub'[g] = sub[g]
      /\ sub'[n].accepted = 1 /\ sub'[n].results = 0
  BY <1>0, <1>3 DEF Subs, Started, NoSub
<1>6. ASSUME NEW g \in Gens, g >= n PROVE loop[g].pc = "none"
  <2>1. g > gens
    BY <1>0, <1>2, <1>6
  <2> QED
    BY <2>1 DEF Debts, Unread
<1>7. n \in Nat /\ n <= n /\ cmd <= n /\ cmd # n /\ \A g \in Gens : g > n => g >= n
  BY <1>0, <1>2
<1>8. Unread'
  BY <1>0, <1>3, <1>4, <1>5, <1>6, <1>7 DEF Unread
<1>9. \A g \in Gens : Lawful(g)'
  <2>1. loop[n].pc = "none"
    BY <1>6, <1>7
  <2>2. ASSUME NEW g \in Gens, g = n PROVE Lawful(g)'
    <3>1. loop'[g].pc = "none" /\ sub'[g].results = 0 /\ sub'[g].accepted = 1
      BY <1>3, <1>5, <2>1, <2>2
    <3> QED
      BY <3>1 DEF Lawful, Delivering
  <2>3. \A g \in Gens : g # n => Lawful(g)'
    BY <1>3, <1>5 DEF Debts, Lawful, Delivering
  <2> QED
    BY <2>2, <2>3
<1>10. Owed'
  <2>1. ~Writing
    BY <1>0, <1>3 DEF Writing
  <2> QED
    BY <1>0, <1>3, <1>5, <1>7, <2>1 DEF Debts, Owed, Delivering
<1> QED
  BY <1>8, <1>9, <1>10 DEF Debts

LEMMA StartDebts ==
  ASSUME TypeOK, OneSender, Debts, NEW s \in Senders, Install(s) \/ StartLoop(s)
  PROVE  Debts'
<1>0. /\ snd \in Calls /\ loop \in Readers /\ sub \in Subs /\ gens \in Nat
      /\ \A g \in Gens : g \in Nat
      /\ \A r \in Senders : r = s
  BY DEF TypeOK, Calls, Readers, Subs, OneSender, Gens
<1>1. PICK n \in Gens : n = snd[s].new
  BY <1>0 DEF Calls, SendCall
<1>2. n <= gens /\ loop[n].pc = "none" /\ sub[n].results = 0
  <2>1. Holds(s, n)
    BY <1>1 DEF Install, StartLoop, Holds, SpawnedPCs
  <2> QED
    BY <2>1 DEF Debts, Unread
<1>3. CASE Install(s)
  <2>1. /\ cmd' = n /\ GoTo(s, "start") /\ snd[s].pc = "install"
        /\ UNCHANGED <<sub, gens, loop, awaiting>>
    BY <1>1, <1>3 DEF Install
  <2>2. snd'[s].pc = "start" /\ snd'[s].new = n
    BY <1>0, <1>1, <2>1 DEF GoTo, Calls, SendCall
  <2>3. Unread'
    BY <1>0, <1>2, <2>1, <2>2 DEF Debts, Unread, Holds
  <2>4. \A g \in Gens : Lawful(g)'
    BY <2>1 DEF Debts, Lawful, Delivering
  <2>5. Owed'
    BY <1>2, <2>1 DEF Owed, Delivering
  <2> QED
    BY <1>2, <2>1, <2>3, <2>4, <2>5 DEF Debts
<1>4. CASE StartLoop(s)
  <2>1. /\ snd[s].pc = "start" /\ Return(s) /\ awaiting'
        /\ loop' = [loop EXCEPT ![n].pc = "scan"]
        /\ UNCHANGED <<sub, cmd, gens>>
    BY <1>1, <1>4 DEF StartLoop, Succeed
  <2>2. snd'[s].pc = "idle" /\ n = cmd
    BY <1>1, <2>1, ReturnPc DEF Debts, Unread
  <2>3. loop'[n].pc = "scan" /\ \A g \in Gens : g # n => loop'[g] = loop[g]
    BY <1>0, <2>1 DEF Readers, Reader
  <2>4. Unread'
    BY <1>0, <1>2, <2>1, <2>2, <2>3 DEF Debts, Unread, Holds, SpawnedPCs
  <2>5. \A g \in Gens : Lawful(g)'
    BY <2>1, <2>3 DEF Debts, Lawful, Delivering
  <2>6. Owed'
    BY <1>2, <2>1, <2>2, <2>3 DEF Owed, Delivering
  <2> QED
    BY <2>4, <2>5, <2>6 DEF Debts
<1> QED
  BY <1>3, <1>4

\* A reader acknowledges a result before it delivers it, and delivers none that
\* was not asked for.
LEMMA LoopLawful ==
  ASSUME TypeOK, UNCHANGED caps, NEW g \in Gens, Lawful(g), LoopNext(g)
  PROVE  /\ Lawful(g)'
         /\ \/ ~awaiting'
            \/ /\ ~Delivering(g)'
               /\ \/ sub'[g].results = sub[g].results
                  \/ Delivering(g) /\ sub'[g].results = sub[g].results + 1
<1>0. /\ loop \in Readers /\ sub \in Subs
      /\ sub[g].results \in Nat /\ sub[g].accepted \in Nat
      /\ sub[g].results <= sub[g].accepted
  BY DEF TypeOK, Readers, Subs, Subprocess, Lawful
<1>1. /\ ~Emit(g) => sub'[g].results = sub[g].results
      /\ sub'[g].accepted = sub[g].accepted
  BY LoopResults, LoopIsFramed DEF LoopFrame, SameStates
<1>2. ASSUME sub'[g].results = sub[g].results, loop'[g].pc \notin {"emit", "judge"}
      PROVE  Lawful(g)' /\ ~Delivering(g)' /\ sub'[g].results = sub[g].results
  BY <1>0, <1>1, <1>2 DEF Lawful, Delivering
<1>3. CASE ReadText(g)
  <2>1. PICK msgs \in {<<"text">>, <<"text", "window">>} : Parsed(g, msgs)
    BY <1>3 DEF ReadText
  <2>2. loop'[g].pc = "emit" /\ loop'[g].sending = msgs
    BY <1>0, <2>1 DEF Parsed, Readers, Reader
  <2>3. sub'[g].results = sub[g].results
    BY <1>1, <1>3 DEF ReadText, Emit
  <2>4. msgs # <<"result">>
    <3>1. CASE msgs = <<"text">>
      BY <3>1
    <3>2. CASE msgs = <<"text", "window">>
      BY <3>2
    <3> QED
      BY <2>1, <3>1, <3>2
  <2>5. ~Delivering(g)' /\ loop'[g].sending \in Emissions
    BY <2>2, <2>4 DEF Delivering, Emissions
  <2> QED
    BY <1>0, <1>1, <2>2, <2>3, <2>5 DEF Lawful
<1>4. CASE ReadResult(g)
  <2>1. /\ Parsed(g, <<"result">>) /\ sub[g].results < sub[g].accepted
        /\ sub' = sub /\ ~awaiting'
    BY <1>4 DEF ReadResult
  <2>2. loop'[g].pc = "emit" /\ loop'[g].sending = <<"result">>
    BY <1>0, <2>1 DEF Parsed, Readers, Reader
  <2> QED
    BY <1>0, <2>1, <2>2 DEF Lawful, Emissions
<1>5. CASE ReadEOF(g) \/ KillAfterError(g) \/ ReadCmd(g) \/ EmitCancelled(g)
  <2>1. sub'[g].results = sub[g].results /\ loop'[g].pc \in {"defer", "wait"}
    <3>1. CASE ReadEOF(g)
      BY <1>1, <1>0, <3>1 DEF ReadEOF, Emit, Readers, Reader
    <3>2. CASE KillAfterError(g)
      BY <1>1, <1>0, <3>2 DEF KillAfterError, Emit, Readers, Reader
    <3>3. CASE ReadCmd(g)
      BY <1>1, <1>0, <3>3 DEF ReadCmd, Emit, Readers, Reader
    <3>4. CASE EmitCancelled(g)
      BY <1>0, <3>4 DEF EmitCancelled, Readers, Reader
    <3> QED
      BY <1>5, <3>1, <3>2, <3>3, <3>4
  <2> QED
    BY <1>2, <2>1
<1>6. CASE Panicked(g)
  <2>1. loop'[g].pc = "defer" /\ sub'[g].results = sub[g].results
    BY <1>6, SignalledStates, PanickedGivesUp DEF Panicked, TypeOK
  <2> QED
    BY <1>0, <1>1, <2>1 DEF Lawful, Delivering
<1>7. CASE ReadError(g) /\ ~Panicked(g)
  <2>1. loop' = [loop EXCEPT ![g] = [loop[g] EXCEPT !.pc = "readError", !.err = "scan"]]
        /\ loop[g].pc = "scan"
    BY <1>7 DEF ReadError
  <2>2. loop'[g].pc = "readError" /\ sub'[g].results = sub[g].results
    BY <1>0, <1>1, <2>1 DEF Emit, Readers, Reader
  <2> QED
    BY <1>2, <2>2
<1>8. CASE Emit(g)
  <2>1. awaiting' = awaiting /\ loop[g].pc = "emit" /\ loop[g].sending \in Emissions
    BY <1>8 DEF Emit, ctlVars, Lawful
  <2>2. CASE loop[g].sending = <<"result">>
    <3>1. Head(loop[g].sending) = "result" /\ Tail(loop[g].sending) = <<>>
      BY <2>2
    <3>2. /\ loop' = [loop EXCEPT ![g] = [loop[g] EXCEPT !.pc = "scan", !.sending = <<>>, !.target = 0]]
          /\ sub' = [sub EXCEPT ![g].results = sub[g].results + 1]
      BY <1>0, <1>8, <3>1 DEF Emit, Subs
    <3>3. loop'[g].pc = "scan" /\ sub'[g].results = sub[g].results + 1
      BY <1>0, <3>2 DEF Readers, Reader, Subs, Subprocess
    <3>4. Delivering(g) /\ sub[g].results < sub[g].accepted
      BY <2>1, <2>2 DEF Lawful, Delivering
    <3> QED
      BY <1>0, <1>1, <3>3, <3>4 DEF Lawful, Delivering
  <2>3. CASE loop[g].sending \in {<<"text">>, <<"window">>}
    <3>1. Head(loop[g].sending) # "result" /\ Tail(loop[g].sending) = <<>>
      <4>1. CASE loop[g].sending = <<"text">>
        BY <4>1
      <4>2. CASE loop[g].sending = <<"window">>
        BY <4>2
      <4> QED
        BY <2>3, <4>1, <4>2
    <3>2. /\ loop' = [loop EXCEPT ![g] = [loop[g] EXCEPT !.pc = "scan", !.sending = <<>>, !.target = 0]]
          /\ sub' = [sub EXCEPT ![g].results = sub[g].results]
      BY <1>0, <1>8, <3>1 DEF Emit, Subs
    <3>3. loop'[g].pc = "scan" /\ sub'[g].results = sub[g].results
      BY <1>0, <3>2 DEF Readers, Reader, Subs, Subprocess
    <3> QED
      BY <1>0, <1>1, <3>3 DEF Lawful, Delivering
  <2>4. CASE loop[g].sending = <<"text", "window">>
    <3>1. Head(loop[g].sending) # "result" /\ Tail(loop[g].sending) = <<"window">>
      BY <2>4
    <3>2. <<"window">> # <<>> /\ <<"window">> # <<"result">>
      OBVIOUS
    <3>3. /\ loop' = [loop EXCEPT ![g] = [loop[g] EXCEPT !.sending = <<"window">>, !.target = epoch]]
          /\ sub' = [sub EXCEPT ![g].results = sub[g].results]
      BY <1>0, <1>8, <3>1, <3>2 DEF Emit, Subs
    <3>4. /\ loop'[g].pc = "emit" /\ loop'[g].sending = <<"window">>
          /\ sub'[g].results = sub[g].results
      BY <1>0, <2>1, <3>3 DEF Readers, Reader, Subs, Subprocess
    <3>5. ~Delivering(g)' /\ loop'[g].sending \in Emissions
      BY <3>2, <3>4 DEF Delivering, Emissions
    <3> QED
      BY <1>0, <1>1, <3>4, <3>5 DEF Lawful
  <2> QED
    BY <2>1, <2>2, <2>3, <2>4 DEF Emissions
<1>9. CASE Reap(g)
  <2>1. /\ loop'[g].pc = "judge" /\ loop'[g].res \in {"nil", "exit"} /\ loop[g].pc = "wait"
    BY <1>0, <1>9 DEF Reap, Readers, Reader
  <2>2. sub'[g].results = sub[g].results
    BY <1>1, <2>1 DEF Emit
  <2> QED
    BY <1>0, <1>1, <2>1, <2>2 DEF Lawful, Delivering
<1>10. CASE Judge(g)
  <2>1. sub' = sub /\ loop'[g].pc = "finalize"
    BY <1>0, <1>10 DEF Judge, Readers, Reader
  <2> QED
    BY <1>2, <2>1
<1>11. CASE FinalizeSkip(g) \/ FinalizeDone(g) \/ FinalizeOutput(g) \/ SignalCmdDone(g)
  <2>1. loop'[g].pc \in {"closeOutput", "signal", "end"}
    BY <1>0, <1>11 DEF FinalizeSkip, FinalizeDone, FinalizeOutput, SignalCmdDone, NoLoop,
                       Readers, Reader
  <2>2. sub' = sub
    BY <1>11 DEF FinalizeSkip, FinalizeDone, FinalizeOutput, SignalCmdDone
  <2> QED
    BY <1>2, <2>1, <2>2
<1>12. ParserPanic(g) \/ EmitOnClosed(g) => Panicked(g)
  BY DEF ParserPanic, EmitOnClosed
<1> QED
  BY <1>3, <1>4, <1>5, <1>6, <1>7, <1>8, <1>9, <1>10, <1>11, <1>12
     DEF LoopNext, LoopStep

LEMMA LoopDebts ==
  ASSUME TypeOK, Debts, UNCHANGED caps, NEW g \in Gens, LoopNext(g)
  PROVE  Debts'
<1>0. /\ sub \in Subs /\ cmd \in Gens
      /\ \A h \in Gens : sub[h].results \in Nat /\ sub[h].accepted \in Nat
  BY DEF TypeOK, Subs, Subprocess
<1>1. /\ UNCHANGED <<cmd, gens, snd>>
      /\ \A h \in Gens : h # g => loop'[h] = loop[h]
      /\ loop[g].pc # "none" /\ loop'[g].pc # "none"
      /\ \A h \in Gens : sub'[h].accepted = sub[h].accepted
  BY LoopIsFramed DEF LoopFrame, SameStates
<1>2. /\ \A h \in Gens : h # g => sub'[h].results = sub[h].results
      /\ awaiting' => awaiting
  BY LoopResults DEF ReadResult
<1>3. /\ Lawful(g)'
      /\ \/ ~awaiting'
         \/ /\ ~Delivering(g)'
            /\ \/ sub'[g].results = sub[g].results
               \/ Delivering(g) /\ sub'[g].results = sub[g].results + 1
  BY LoopLawful DEF Debts
<1>4. Unread'
  <2>1. cmd <= gens /\ cmd' = cmd /\ gens' = gens
    BY <1>1 DEF Debts, Unread
  <2>2. \A h \in Gens : h > gens => loop'[h].pc = "none"
    BY <1>1 DEF Debts, Unread
  <2>3. \A s \in Senders, h \in Gens : Holds(s, h)' => Holds(s, h)
    BY <1>1 DEF Holds
  <2>4. \A s \in Senders, h \in Gens :
          Holds(s, h) => h # g /\ h <= gens /\ loop[h].pc = "none" /\ sub[h].results = 0
    BY <1>1 DEF Debts, Unread
  <2>5. \A s \in Senders : /\ snd'[s].pc = "start" => snd'[s].new = cmd'
                           /\ snd'[s].pc = "write" => snd'[s].old = cmd'
    BY <1>1 DEF Debts, Unread
  <2> QED
    BY <1>1, <1>2, <2>1, <2>2, <2>3, <2>4, <2>5 DEF Unread
<1>5. \A h \in Gens : Lawful(h)'
  <2> SUFFICES ASSUME NEW h \in Gens, h # g PROVE Lawful(h)'
    BY <1>3
  <2> QED
    BY <1>1, <1>2 DEF Debts, Lawful, Delivering
<1>6. Owed'
  <2> SUFFICES ASSUME awaiting', ~Writing
               PROVE  Owed'
    BY <1>1 DEF Owed, Writing
  <2>1. \/ sub[cmd].results = 0 /\ ~Delivering(cmd)
        \/ IF Delivering(cmd) THEN sub[cmd].results + 1 < sub[cmd].accepted
                              ELSE sub[cmd].results < sub[cmd].accepted
    BY <1>2 DEF Debts, Owed
  <2>2. CASE cmd = g
    BY <1>0, <1>1, <1>3, <2>1, <2>2 DEF Owed
  <2>3. CASE cmd # g
    <3>1. Delivering(cmd)' <=> Delivering(cmd)
      BY <1>0, <1>1, <2>3 DEF Delivering
    <3> QED
      BY <1>0, <1>1, <1>2, <2>1, <2>3, <3>1 DEF Owed
  <2> QED
    BY <2>2, <2>3
<1> QED
  BY <1>4, <1>5, <1>6 DEF Debts

LEMMA SendDebts ==
  ASSUME TypeOK, OneSender, Debts, NEW s \in Senders, SendNext(s)
  PROVE  Debts'
<1>1. CASE TakeStdin(s) \/ WriteStdin(s)
  BY <1>1, WriteDebts
<1>2. CASE SpawnClean(s) \/ SpawnReplacement(s)
  BY <1>2, SpawnDebts
<1>3. CASE Install(s) \/ StartLoop(s)
  BY <1>3, StartDebts
<1>4. CASE \/ SendBegin(s) \/ Expire(s) \/ Probe(s) \/ Ends(s) \/ (Goes(s) /\ ~Install(s))
           \/ Claim(s) \/ ClaimFails(s) \/ Interrupt(s) \/ AwaitOld(s) \/ AwaitExpired(s)
           \/ AwaitKilled(s) \/ SpawnReplacementFails(s) \/ FailReplacement(s) \/ FailOutput(s)
           \/ FailSignal(s)
  BY <1>4, SendFlat, FlatDebts
<1> QED
  BY <1>1, <1>2, <1>3, <1>4 DEF SendNext, SendStep, Ends, Goes

LEMMA DebtsStep ==
  ASSUME TypeOK, Inv, OneSender, Debts, [Next]_vars
  PROVE  Debts'
<1>1. ASSUME NEW g \in Gens, Exit(g) PROVE Debts'
  <2>1. UNCHANGED <<cmd, awaiting, gens, loop, snd>>
    BY <1>1 DEF Exit, ctlVars
  <2>2. \A h \in Gens : sub'[h].results = sub[h].results /\ sub'[h].accepted = sub[h].accepted
    BY <1>1 DEF Exit, TypeOK, Subprocess
  <2> QED
    BY <2>1, <2>2, FlatDebts DEF Flat
<1>2. ASSUME NEW g \in Gens, LoopNext(g), UNCHANGED caps PROVE Debts'
  BY <1>2, LoopDebts
<1>3. ASSUME Receive \/ ReceiveClosed PROVE Debts'
  <2>1. UNCHANGED <<cmd, awaiting, gens, sub, loop, snd>>
    BY <1>3 DEF Receive, ReceiveClosed, ctlVars
  <2> QED
    BY <2>1, FlatDebts DEF Flat
<1>4. ASSUME NEW s \in Senders, SendNext(s) PROVE Debts'
  BY <1>4, SendDebts
<1>5. ASSUME NEW t \in Stoppers, StopCall(t) \/ StopStep(t) PROVE Debts'
  BY <1>5, StopFlat, FlatDebts
<1>6. CASE UNCHANGED vars
  <2>1. UNCHANGED <<cmd, awaiting, gens, sub, loop, snd>>
    BY <1>6 DEF vars, ctlVars
  <2> QED
    BY <2>1, FlatDebts DEF Flat
<1> QED
  BY <1>1, <1>2, <1>3, <1>4, <1>5, <1>6 DEF Next

\* Nothing but its own judgement charges a readLoop with a missing result.
Uncharged == \A g \in Gens : loop[g].err # "noresult"

LEMMA InitUncharged == ASSUME Init PROVE Uncharged
BY DEF Init, Uncharged, NewLoop, NoLoop

LEMMA UnchargedStep ==
  ASSUME TypeOK, Uncharged, [Next]_vars
  PROVE  Uncharged'
<1>0. loop \in Readers
  BY DEF TypeOK, Readers
<1>1. ASSUME NEW g \in Gens, LoopNext(g), UNCHANGED caps PROVE Uncharged'
  <2>1. \A h \in Gens : h # g => loop'[h] = loop[h]
    BY <1>1, LoopIsFramed DEF LoopFrame
  <2>2. CASE ReadText(g) \/ ReadResult(g)
    BY ZenonT(60), <1>0, <2>1, <2>2 DEF ReadText, ReadResult, Parsed, Uncharged, Readers, Reader
  <2>3. CASE Panicked(g)
    BY <2>1, <2>3, PanickedGivesUp DEF Uncharged
  <2>4. CASE ReadError(g) /\ ~Panicked(g)
    BY <1>0, <2>1, <2>4 DEF ReadError, Uncharged, Readers, Reader
  <2>5. CASE Emit(g)
    <3>1. \/ loop' = [loop EXCEPT ![g] = [loop[g] EXCEPT !.pc = "scan", !.sending = <<>>, !.target = 0]]
          \/ loop' = [loop EXCEPT ![g] = [loop[g] EXCEPT !.sending = Tail(loop[g].sending),
                                                         !.target = epoch]]
      BY <1>0, <2>5 DEF Emit, Readers
    <3> QED
      BY <1>0, <2>1, <3>1 DEF Uncharged, Readers, Reader
  <2>6. CASE ReadEOF(g) \/ KillAfterError(g) \/ EmitCancelled(g) \/ ReadCmd(g)
    <3>1. loop'[g].err = loop[g].err
      <4>1. CASE ReadEOF(g)
        BY <1>0, <4>1 DEF ReadEOF, Readers, Reader
      <4>2. CASE KillAfterError(g)
        BY <1>0, <4>2 DEF KillAfterError, Readers, Reader
      <4>3. CASE EmitCancelled(g)
        BY <1>0, <4>3 DEF EmitCancelled, Readers, Reader
      <4>4. CASE ReadCmd(g)
        BY <1>0, <4>4 DEF ReadCmd, Readers, Reader
      <4> QED
        BY <2>6, <4>1, <4>2, <4>3, <4>4
    <3> QED
      BY <2>1, <3>1 DEF Uncharged
  <2>7. CASE Reap(g) \/ Judge(g)
    <3>1. loop'[g].err \in {loop[g].err, "nil"}
      <4>1. CASE Reap(g)
        BY <1>0, <4>1 DEF Reap, Readers, Reader
      <4>2. CASE Judge(g)
        BY <1>0, <4>2 DEF Judge, Readers, Reader
      <4> QED
        BY <2>7, <4>1, <4>2
    <3> QED
      BY <2>1, <3>1 DEF Uncharged
  <2>8. CASE FinalizeSkip(g) \/ FinalizeDone(g) \/ FinalizeOutput(g) \/ SignalCmdDone(g)
    <3>1. loop'[g].err \in {loop[g].err, "nil"}
      BY <1>0, <2>8 DEF FinalizeSkip, FinalizeDone, FinalizeOutput, SignalCmdDone, NoLoop,
                        Readers, Reader
    <3> QED
      BY <2>1, <3>1 DEF Uncharged
  <2>9. ParserPanic(g) \/ EmitOnClosed(g) => Panicked(g)
    BY DEF ParserPanic, EmitOnClosed
  <2> QED
    BY <1>1, <2>2, <2>3, <2>4, <2>5, <2>6, <2>7, <2>8, <2>9 DEF LoopNext, LoopStep
<1>2. ASSUME NEW s \in Senders, SendNext(s) PROVE Uncharged'
  <2>1. UNCHANGED loop \/ (\E g : Cancel(g)) \/ \E g : loop' = [loop EXCEPT ![g].pc = "scan"]
    BY <1>2 DEF SendNext, SendStep, SendBegin, Expire, WriteStdin, SpawnCleanFails, ClaimFails,
         SpawnReplacementFails, Probe, Classify, SendUnsupported, TakeStdin, WriteFails,
         CheckResume, SpawnClean, DrainToken, CommitClean, AbortClean, Install, StartLoop,
         Claim, Interrupt, AwaitOld, AwaitExpired, AwaitKilled, SpawnReplacement,
         FailReplacement, FailOutput, FailSignal
  <2> QED
    BY ZenonT(60), <1>0, <2>1 DEF Cancel, Uncharged, Readers, Reader
<1>3. ASSUME NEW t \in Stoppers, StopCall(t) \/ StopStep(t) PROVE Uncharged'
  <2>1. UNCHANGED loop \/ \E g : Cancel(g)
    BY SMTT(40), <1>3 DEF StopCall, StopStep, StopFirst, StopLater, StopSnapshot, StopTerminate,
                StopEscalate, StopTakeToken, StopReturn
  <2> QED
    BY ZenonT(60), <1>0, <2>1 DEF Cancel, Uncharged, Readers, Reader
<1>4. ASSUME \/ \E g \in Gens : Exit(g)
             \/ Receive \/ ReceiveClosed \/ UNCHANGED vars
      PROVE  Uncharged'
  BY <1>4 DEF Exit, Receive, ReceiveClosed, vars, Uncharged
<1> QED
  BY <1>1, <1>2, <1>3, <1>4 DEF Next

\* A readLoop calls a session unanswered only when p.awaitingResult is set.
LEMMA OnlyJudged ==
  ASSUME TypeOK, Debts, Uncharged, [Next]_vars,
         NEW g \in Gens, loop[g].pc = "judge", loop'[g].res = "noresult"
  PROVE  awaiting
<1>0. loop \in Readers /\ loop[g].res \in {"nil", "exit"} /\ loop[g].err # "noresult"
  BY DEF TypeOK, Readers, Debts, Lawful, Uncharged
<1>1. ASSUME NEW h \in Gens, LoopNext(h), UNCHANGED caps PROVE awaiting
  <2>1. h = g
    BY <1>0, <1>1, LoopIsFramed DEF LoopFrame
  <2>2. Judge(g)
    BY <1>1, <2>1 DEF LoopNext, LoopStep, ReadText, ReadResult, ReadEOF, ParserPanic,
         ReadError, KillAfterError, Emit, EmitCancelled, EmitOnClosed, ReadCmd,
         Reap, FinalizeSkip, FinalizeDone, FinalizeOutput, SignalCmdDone
  <2>3. Verdict(g) = "noresult"
    BY <1>0, <2>2 DEF Judge, Readers, Reader
  <2> QED
    BY <1>0, <2>3 DEF Verdict
<1>2. CASE UNCHANGED loop
  BY <1>0, <1>2
<1>3. ASSUME NEW h, Cancel(h) PROVE FALSE
  BY <1>0, <1>3 DEF Cancel, Readers, Reader
<1>4. ASSUME NEW s \in Senders, SendNext(s) PROVE UNCHANGED loop \/ \E h : Cancel(h)
  <2>1. CASE StartLoop(s)
    <3>1. loop'[g].res = loop[g].res
      BY <1>0, <2>1 DEF StartLoop, Readers, Reader
    <3> QED
      BY <1>0, <3>1
  <2>2. CASE ~StartLoop(s)
    BY <1>4, <2>2 DEF SendNext, SendStep, SendBegin, Expire, WriteStdin, SpawnCleanFails,
         ClaimFails, SpawnReplacementFails, Probe, Classify, SendUnsupported, TakeStdin,
         WriteFails, CheckResume, SpawnClean, DrainToken, CommitClean, AbortClean, Install,
         Claim, Interrupt, AwaitOld, AwaitExpired, AwaitKilled, SpawnReplacement,
         FailReplacement, FailOutput, FailSignal
  <2> QED
    BY <2>1, <2>2
<1>5. ASSUME NEW t \in Stoppers, StopCall(t) \/ StopStep(t)
      PROVE  UNCHANGED loop \/ \E h : Cancel(h)
  BY SMTT(40), <1>5 DEF StopCall, StopStep, StopFirst, StopLater, StopSnapshot, StopTerminate,
              StopEscalate, StopTakeToken, StopReturn
<1>6. (\E h \in Gens : Exit(h)) \/ Receive \/ ReceiveClosed \/ UNCHANGED vars => UNCHANGED loop
  BY DEF Exit, Receive, ReceiveClosed, vars
<1> QED
  BY <1>1, <1>2, <1>3, <1>4, <1>5, <1>6 DEF Next

\* What a readLoop that reports ErrNoResult found of the subprocess of p.cmd.
LEMMA JudgedDebt ==
  ASSUME TypeOK, Debts, Uncharged, [Next]_vars,
         NEW g \in Gens, loop[g].pc = "judge", loop'[g].res = "noresult"
  PROVE  Owes(cmd)
<1>1. awaiting /\ cmd \in Gens /\ sub[cmd].results \in Nat /\ sub[cmd].accepted \in Nat
  BY OnlyJudged DEF TypeOK, Subprocess
<1> QED
  BY <1>1 DEF Debts, Owed, Owes, Writing

LEMMA DebtsAlways ==
  ASSUME OneSender
  PROVE  Spec => [](TypeOK /\ Debts /\ Uncharged)
<1>1. Init => Inv /\ Debts /\ Uncharged
  BY InitInv, InitDebts, InitUncharged
<1>2. TypeOK /\ Inv /\ Debts /\ Uncharged /\ [Next]_vars => Inv' /\ Debts' /\ Uncharged'
  BY NextContract, DebtsStep, UnchargedStep
<1> QED
  BY <1>1, <1>2, TypeCorrect, PTL DEF Spec

\* A readLoop that reports ErrNoResult judged a subprocess that still owes a
\* result, or one that a Send had superseded meanwhile: for any discipline of a
\* single caller, for every backend, with Stop and faults at any moment.
THEOREM DebtsAreReal ==
  ASSUME OneSender
  PROVE  Spec => NoResultTruthful
<1> DEFINE Truthful == \A g \in Gens : loop[g].pc = "judge" /\ loop'[g].res = "noresult"
                                         => Owes(loop[g].cmd) \/ Superseded(g)
<1>1. TypeOK /\ Debts /\ Uncharged /\ [Next]_vars => [Truthful]_vars
  BY JudgedDebt DEF Superseded
<1> QED
  BY <1>1, DebtsAlways, PTL DEF Spec, NoResultTruthful

\* Where no Send replaces a running subprocess, for a caller that drains
\* Output() or a backend that takes every turn on stdin, ErrNoResult is never a
\* false alarm: the subprocess judged still owes the result of a turn.
THEOREM NoFalseAlarm ==
  ASSUME OneSender, NeverReplaces
  PROVE  Spec => [][\A g \in Gens : loop[g].pc = "judge" /\ loop'[g].res = "noresult"
                                       => Owes(loop[g].cmd)]_vars
<1> DEFINE Due == \A g \in Gens : loop[g].pc = "judge" /\ loop'[g].res = "noresult"
                                    => Owes(loop[g].cmd)
<1>1. TypeOK /\ Debts /\ Uncharged /\ Orderly /\ [Next]_vars => [Due]_vars
  BY JudgedDebt DEF Orderly, Sole
<1>2. Spec => []Orderly
  BY OrderlyAlways, PTL
<1> QED
  BY <1>1, <1>2, DebtsAlways, PTL DEF Spec
=============================================================================

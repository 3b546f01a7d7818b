---------------------------- MODULE ClientProofs ----------------------------
(***************************************************************************)
(* What the cleanup function of Dial guarantees, for any number of calls,  *)
(* finishers and verdicts of the connection.                               *)
(***************************************************************************)
EXTENDS Client, TLAPS

\* Close has returned to c only when the socket is closed, or with the cause
\* of its context when the close is claimed and the peer may hold it up.
Shutting(c) ==
  state = "closed" \/ (Stalls /\ state = "claimed" /\ answer[c] = "cause")

\* An outcome that may be reported to the observers.
Truthful(o) ==
  /\ o \in Outcomes
  /\ o = "normal" => verdict = "nil"
  /\ o = "failed" => verdict \notin {"none", "nil"}
  /\ o = "canceled" => \E c \in ctxDone : answer[c] \notin {"none", "nil"}

\* The connection: a verdict follows the closing of the socket, and a caller
\* is answered with that verdict or with the cause of its own context.
AnswerInv ==
  /\ verdict # "none" => state = "closed"
  /\ \A c \in Closers : answer[c] # "none" =>
       /\ Shutting(c)
       /\ \/ answer[c] = verdict
          \/ answer[c] = "cause" /\ c \in ctxDone

\* Callers past Close have an answer and an outcome that follows from it.
OutcomeInv ==
  \A c \in Closers : call[c] \in {"report", "ret"} =>
    answer[c] # "none" /\ Truthful(clientOutcome[c])

\* A finisher has panicked, and with it the caller that ran it.
Panicked == \E d \in Closers : call[d] = "panicked"

\* finishOnce: nothing is reported before it, all is reported after it, and
\* nobody returns earlier.
FinishInv ==
  /\ finish = "new" => result = "none"
  /\ finish # "new" => Truthful(result)
  /\ finish = "done" => left = 0 \/ Panicked
  /\ \A c \in Closers : call[c] = "ret" => finish = "done"

ClientInv == ClientTypeOK /\ AnswerInv /\ OutcomeInv /\ FinishInv

-----------------------------------------------------------------------------
\* Nothing has happened when the program starts.
LEMMA InitClient == ClientInit => ClientInv
BY ClientAssumption
   DEF ClientInit, Conn!Init, CallStates, ClientInv, ClientTypeOK, AnswerInv,
       OutcomeInv, FinishInv

\* Dial touches neither the connection nor the callers.
LEMMA DialKeeps ==
  ASSUME ClientInv, DialInvalid \/ DialStart \/ DialFail \/ DialDone \/ DialPanic
  PROVE  ClientInv'
BY DEF DialInvalid, DialStart, DialFail, DialDone, DialPanic, conn, cleanupVars,
       ClientInv, ClientTypeOK, AnswerInv, OutcomeInv, FinishInv, Panicked,
       Truthful, Shutting

\* An outcome stays truthful: a verdict and an answer, once there, stay, and
\* contexts only end.
LEMMA TruthfulStays ==
  ASSUME verdict = "none" \/ verdict' = verdict, ctxDone \subseteq ctxDone',
         \A c \in ctxDone : answer[c] # "none" => answer'[c] = answer[c],
         "nil" \in Verdicts, "none" \notin Verdicts,
         NEW o, Truthful(o)
  PROVE  Truthful(o)'
BY DEF Truthful

\* The connection by itself.
LEMMA ConnKeeps == ASSUME ClientInv, ConnStep PROVE ClientInv'
<1>. USE DEF cleanupVars
<1>1. (verdict = "none" \/ verdict' = verdict) /\ UNCHANGED cleanupVars
  BY DEF ConnStep, Conn!Claim, Conn!Shut, Conn!Decide, Conn!Answer,
         Conn!AnswerCause, Conn!Reply
<1>2. \A c \in Closers : answer[c] # "none" => answer'[c] = answer[c]
  BY DEF ConnStep, Conn!Claim, Conn!Shut, Conn!Decide, Conn!Answer,
         Conn!AnswerCause, Conn!Reply, ClientInv, ClientTypeOK
<1>3. ClientTypeOK' /\ AnswerInv'
  <2>. USE DEF Shutting
  <2>1. CASE Conn!Claim \/ Conn!Shut
    BY <1>1, <2>1
       DEF ConnStep, Conn!Claim, Conn!Shut, ClientInv, ClientTypeOK, AnswerInv
  <2>2. ASSUME NEW v \in Verdicts, Conn!Decide(v)
        PROVE  ClientTypeOK' /\ AnswerInv'
    BY <1>1, <2>2, ClientAssumption
       DEF ConnStep, Conn!Decide, ClientInv, ClientTypeOK, AnswerInv
  <2>3. ASSUME NEW c \in Closers, Conn!Answer(c)
        PROVE  ClientTypeOK' /\ AnswerInv'
    BY <1>1, <2>3, ClientAssumption
       DEF ConnStep, Conn!Answer, Conn!Reply, ClientInv, ClientTypeOK, AnswerInv
  <2>4. ASSUME NEW c \in Closers, c \in ctxDone, Conn!AnswerCause(c)
        PROVE  ClientTypeOK' /\ AnswerInv'
    BY <1>1, <2>4
       DEF ConnStep, Conn!AnswerCause, Conn!Reply, ClientInv, ClientTypeOK,
           AnswerInv
  <2>. QED  BY <2>1, <2>2, <2>3, <2>4 DEF ConnStep
<1>4. \A o : Truthful(o) => Truthful(o)'
  <2>1. ctxDone \subseteq Closers /\ ctxDone' = ctxDone
    BY <1>1 DEF ClientInv, ClientTypeOK
  <2>. QED  BY <1>1, <1>2, <2>1, TruthfulStays, ClientAssumption
<1>5. OutcomeInv' /\ FinishInv'
  BY <1>1, <1>2, <1>4 DEF ClientInv, OutcomeInv, FinishInv, Panicked
<1>. QED  BY <1>3, <1>5 DEF ClientInv

\* A context that ends makes more outcomes truthful, never fewer.
LEMMA CancelKeeps ==
  ASSUME ClientInv, NEW c \in Closers, CleanupCall(c) \/ CancelCleanup(c)
  PROVE  ClientInv'
<1>1. /\ UNCHANGED <<verdict, state, answer, clientOutcome, finish, left, result>>
      /\ ctxDone \subseteq ctxDone'
  BY DEF CleanupCall, CancelCleanup, conn
<1>2. ClientTypeOK' /\ AnswerInv'
  BY <1>1
     DEF CleanupCall, CancelCleanup, conn, CallStates, ClientInv, ClientTypeOK,
         AnswerInv, Shutting
<1>3. /\ \A d \in Closers : call'[d] \in {"report", "ret"} => call'[d] = call[d]
      /\ Panicked => Panicked'
  BY DEF CleanupCall, CancelCleanup, ClientInv, ClientTypeOK, Panicked
<1>4. \A o : Truthful(o) => Truthful(o)'
  BY <1>1, TruthfulStays, ClientAssumption
<1>. QED
  BY <1>1, <1>2, <1>3, <1>4 DEF ClientInv, OutcomeInv, FinishInv

\* A caller that has its answer, and finishOnce.
LEMMA CleanupKeeps ==
  ASSUME ClientInv, NEW c \in Closers, Cleanup(c)
  PROVE  ClientInv'
<1>1. UNCHANGED <<verdict, state, answer, ctxDone>>
  BY DEF Cleanup, CloseReturned, FinishFirst, FinishNext, FinishPanic,
         CleanupReturn, conn
<1>. USE DEF conn, CallStates
<1>2. \A o : Truthful(o) <=> Truthful(o)'
  BY <1>1 DEF Truthful
<1>3. AnswerInv'
  BY <1>1 DEF ClientInv, AnswerInv, Shutting
<1>4. CASE CloseReturned(c)
  <2>1. Truthful(Outcome(c)) /\ Outcome(c) \in Outcomes
    BY <1>4, ClientAssumption
       DEF CloseReturned, Outcome, Truthful, Outcomes, ClientInv, ClientTypeOK,
           AnswerInv
  <2>2. ClientTypeOK'
    BY <1>1, <1>4, <2>1 DEF CloseReturned, ClientInv, ClientTypeOK
  <2>3. OutcomeInv'
    BY <1>1, <1>4, <1>2, <2>1
       DEF CloseReturned, ClientInv, ClientTypeOK, OutcomeInv
  <2>4. FinishInv'
    BY <1>4, <1>2 DEF CloseReturned, ClientInv, ClientTypeOK, FinishInv, Panicked
  <2>. QED
    BY <1>3, <2>2, <2>3, <2>4 DEF ClientInv
<1>5. CASE FinishFirst(c)
  <2>1. Truthful(clientOutcome[c]) /\ clientOutcome[c] \in Outcomes
    BY <1>5 DEF FinishFirst, ClientInv, OutcomeInv, Truthful
  <2>2. finish' # "new" /\ finish' # "done"
    BY <1>5, ClientAssumption DEF FinishFirst
  <2>. QED
    BY <1>1, <1>5, <1>2, <1>3, <2>1, <2>2
       DEF FinishFirst, ClientInv, ClientTypeOK, OutcomeInv, FinishInv
<1>6. CASE FinishNext(c)
  BY <1>1, <1>6, <1>2, <1>3, ClientAssumption
     DEF FinishNext, ClientInv, ClientTypeOK, OutcomeInv, FinishInv, Panicked
<1>7. CASE CleanupReturn(c)
  BY <1>1, <1>7, <1>2, <1>3
     DEF CleanupReturn, ClientInv, ClientTypeOK, OutcomeInv, FinishInv, Panicked
<1>8. CASE FinishPanic(c)
  BY <1>1, <1>2, <1>3, <1>8, ClientAssumption
     DEF FinishPanic, ClientInv, ClientTypeOK, OutcomeInv, FinishInv, Panicked
<1>. QED  BY <1>4, <1>5, <1>6, <1>7, <1>8 DEF Cleanup

\* ClientInv is an invariant of the specification.
LEMMA ClientAlways == ClientSpec => []ClientInv
<1>1. ClientInv /\ [ClientNext]_clientVars => ClientInv'
  <2>. SUFFICES ASSUME ClientInv, [ClientNext]_clientVars PROVE ClientInv'
    OBVIOUS
  <2>1. CASE UNCHANGED clientVars
    BY <2>1
       DEF clientVars, conn, cleanupVars, ClientInv, ClientTypeOK, AnswerInv,
           OutcomeInv, FinishInv, Panicked, Truthful, Shutting
  <2>. QED  BY <2>1, DialKeeps, ConnKeeps, CancelKeeps, CleanupKeeps DEF ClientNext
<1>. QED  BY <1>1, InitClient, PTL DEF ClientSpec

-----------------------------------------------------------------------------
\* Dial and cleanup: every variable keeps its type; in particular the loop
\* over the finishers stays within them.
THEOREM ClientTypeCorrect == ClientSpec => []ClientTypeOK
<1>1. ClientInv => ClientTypeOK
  BY DEF ClientInv
<1>. QED  BY <1>1, ClientAlways, PTL

\* cleanup: whichever call returns, and however many run at once, all
\* finishers have run by then, unless one panicked, and the socket is closed,
\* or its close is claimed and held up by the peer and the caller's context
\* ended.
THEOREM CleanupIsComplete == ClientSpec => []CleanupComplete
<1>1. ClientInv => CleanupComplete
  BY ClientAssumption
     DEF ClientInv, AnswerInv, OutcomeInv, FinishInv, CleanupComplete, Truthful,
         Panicked, Shutting, Outcomes
<1>. QED  BY <1>1, ClientAlways, PTL

\* cleanup: although each caller decides the outcome from a context of its
\* own, the observers hear of a normal end only if the one verdict of Close
\* is nil, of a failure only if it is an error, and of a cancellation only if
\* Close gave an error to a caller whose context had ended.
THEOREM ResultIsTruthful == ClientSpec => []ResultTruthful
<1>1. ClientInv => ResultTruthful
  BY DEF ClientInv, FinishInv, ResultTruthful, Truthful
<1>. QED  BY <1>1, ClientAlways, PTL
=============================================================================

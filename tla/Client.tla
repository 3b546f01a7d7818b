------------------------------- MODULE Client -------------------------------
(***************************************************************************)
(* Dial and the cleanup function it returns.  Any number of goroutines may *)
(* call cleanup, at any time and with contexts of their own; each closes   *)
(* the connection, and a sync.Once lets the first of them report the       *)
(* session to the observers.  The connection is the abstract one of        *)
(* ConnectionContract, which module Connection implements.                 *)
(***************************************************************************)
EXTENDS Naturals, FiniteSets, Observer

CONSTANTS
  Closers,    \* the goroutines that call cleanup
  Verdicts,   \* what Connection.Close may report; "nil" stands for a handshake
              \* both sides agreed on and for a connection closed before it
  Stalls,     \* as in ConnectionContract
  Finishers   \* how many observers gave a finisher

ASSUME ClientAssumption ==
  /\ IsFiniteSet(Closers) /\ {"new", "done"} \cap Closers = {}
  /\ "nil" \in Verdicts /\ Finishers \in Nat
  /\ {"none", "cause", "invalid"} \cap Verdicts = {}

VARIABLES
  state, verdict, answer,  \* the connection, by its contract
  dial,     \* "idle", "dialing", "failed", "panicked" or "connected"
  dialErr,  \* what Dial returned: "none", "nil", "cause" or "error"
  call,     \* per caller of cleanup: one of CallStates
  ctxDone,  \* callers whose cleanup context is done
  clientOutcome,  \* per caller: the outcome it would report, or "none"
  finish,   \* finishOnce: "new", the goroutine running it, or "done"
  left,     \* finishers still to run
  result    \* the outcome the observers were told, or "none"

conn == <<state, verdict, answer>>
cleanupVars == <<call, ctxDone, clientOutcome, finish, left, result>>
clientVars == <<conn, dial, dialErr, cleanupVars>>

Conn == INSTANCE ConnectionContract

CallStates == {"idle", "closing", "report", "ret", "panicked"}

ClientTypeOK ==
  /\ state \in {"open", "claimed", "closed"}
  /\ verdict \in Verdicts \cup {"none"}
  /\ answer \in [Closers -> Verdicts \cup {"none", "cause", "invalid"}]
  /\ dial \in {"idle", "dialing", "failed", "panicked", "connected"}
  /\ dialErr \in {"none", "nil", "cause", "error"}
  /\ call \in [Closers -> CallStates]
  /\ ctxDone \subseteq Closers
  /\ clientOutcome \in [Closers -> Outcomes \cup {"none"}]
  /\ finish \in {"new", "done"} \cup Closers
  /\ left \in 0..Finishers
  /\ result \in Outcomes \cup {"none"}

ClientInit ==
  /\ Conn!Init
  /\ dial = "idle" /\ dialErr = "none"
  /\ call = [c \in Closers |-> "idle"]
  /\ ctxDone = {}
  /\ clientOutcome = [c \in Closers |-> "none"]
  /\ finish = "new" /\ left = Finishers /\ result = "none"

-----------------------------------------------------------------------------
(* Dial                                                                     *)

\* A nil context, a configuration or an observer that does not validate.
DialInvalid ==
  /\ dial = "idle"
  /\ dial' = "failed" /\ dialErr' = "error"
  /\ UNCHANGED <<conn, cleanupVars>>

DialStart ==
  /\ dial = "idle"
  /\ dial' = "dialing"
  /\ UNCHANGED <<conn, dialErr, cleanupVars>>

\* The handshake fails; its timeout or cancellation is the one cause named.
DialFail ==
  /\ dial = "dialing"
  /\ dial' = "failed" /\ dialErr' \in {"cause", "error"}
  /\ UNCHANGED <<conn, cleanupVars>>

DialDone ==
  /\ dial = "dialing"
  /\ dial' = "connected" /\ dialErr' = "nil"
  /\ UNCHANGED <<conn, cleanupVars>>

\* beginObservers: an observer panics; the connection is nobody's.
DialPanic ==
  /\ dial = "dialing"
  /\ dial' = "panicked"
  /\ UNCHANGED <<conn, dialErr, cleanupVars>>

-----------------------------------------------------------------------------
(* cleanup                                                                  *)

CleanupCall(c) ==
  /\ dial = "connected" /\ call[c] = "idle"
  /\ call' = [call EXCEPT ![c] = "closing"]
  /\ UNCHANGED <<conn, dial, dialErr, ctxDone, clientOutcome, finish, left, result>>

CancelCleanup(c) ==
  /\ c \notin ctxDone /\ call[c] \notin {"ret", "panicked"}
  /\ ctxDone' = ctxDone \cup {c}
  /\ UNCHANGED <<conn, dial, dialErr, call, clientOutcome, finish, left, result>>

\* The connection on its own, and the answers it gives its callers.
ConnStep ==
  /\ dial = "connected"
  /\ \/ Conn!Claim \/ Conn!Shut
     \/ \E v \in Verdicts : Conn!Decide(v)
     \/ \E c \in Closers : /\ call[c] = "closing"
                           /\ \/ Conn!Answer(c)
                              \/ c \in ctxDone /\ Conn!AnswerCause(c)
  /\ UNCHANGED <<dial, dialErr, cleanupVars>>

\* Faulty variant: the first caller's context alone decides the outcome.
OutcomeByContext(c) == IF c \in ctxDone THEN "canceled" ELSE "failed"

\* A close that failed counts as canceled if the caller's context ended.
Outcome(c) ==
  CASE answer[c] = "nil" -> "normal"
    [] answer[c] # "nil" /\ c \in ctxDone -> "canceled"
    [] OTHER -> "failed"

CloseReturned(c) ==
  /\ call[c] = "closing" /\ answer[c] # "none"
  /\ clientOutcome' = [clientOutcome EXCEPT ![c] = Outcome(c)]
  /\ call' = [call EXCEPT ![c] = "report"]
  /\ UNCHANGED <<conn, dial, dialErr, ctxDone, finish, left, result>>

\* finishOnce.Do: the first caller runs the finishers ...
FinishFirst(c) ==
  /\ call[c] = "report" /\ finish = "new"
  /\ finish' = c
  /\ result' = clientOutcome[c]
  /\ UNCHANGED <<conn, dial, dialErr, call, ctxDone, clientOutcome, left>>

\* Faulty variant: the loop runs one finisher too many.
FinishNextPast(c) ==
  /\ finish = c
  /\ left' = left - 1
  /\ finish' = IF left = 0 THEN "done" ELSE finish
  /\ UNCHANGED <<conn, dial, dialErr, call, ctxDone, clientOutcome, result>>

\* ... the finishers, last to first, each told the same outcome.
FinishNext(c) ==
  /\ finish = c
  /\ IF left = 0 THEN finish' = "done" /\ UNCHANGED left
                 ELSE left' = left - 1 /\ UNCHANGED finish
  /\ UNCHANGED <<conn, dial, dialErr, call, ctxDone, clientOutcome, result>>

\* A finisher panics: the panic leaves the loop and unwinds its caller, and
\* for sync.Once the call is done, so the finishers that are left never run.
FinishPanic(c) ==
  /\ finish = c /\ left # 0
  /\ left' = left - 1
  /\ finish' = "done"
  /\ call' = [call EXCEPT ![c] = "panicked"]
  /\ UNCHANGED <<conn, dial, dialErr, ctxDone, clientOutcome, result>>

\* Faulty variant: an atomic flag instead of sync.Once, nobody waits.
CleanupReturnEarly(c) ==
  /\ call[c] = "report" /\ finish # "new"
  /\ call' = [call EXCEPT ![c] = "ret"]
  /\ UNCHANGED <<conn, dial, dialErr, ctxDone, clientOutcome, finish, left, result>>

\* ... and every other one waits until they are through.
CleanupReturn(c) ==
  /\ call[c] = "report" /\ finish = "done"
  /\ call' = [call EXCEPT ![c] = "ret"]
  /\ UNCHANGED <<conn, dial, dialErr, ctxDone, clientOutcome, finish, left, result>>

Cleanup(c) ==
  \/ CloseReturned(c)
  \/ FinishFirst(c) \/ FinishNext(c) \/ FinishPanic(c)
  \/ CleanupReturn(c)

ClientNext ==
  \/ DialInvalid \/ DialStart \/ DialFail \/ DialDone \/ DialPanic
  \/ ConnStep
  \/ \E c \in Closers : CleanupCall(c) \/ CancelCleanup(c) \/ Cleanup(c)

ClientSpec == ClientInit /\ [][ClientNext]_clientVars

-----------------------------------------------------------------------------
(* Properties                                                               *)

\* cleanup: when any call has returned, every finisher has run, also for the
\* calls that did not run them, unless one panicked, and the socket is closed.
\* Only a call whose own context ended may return while a stalled peer still
\* holds up the close, and then the close is claimed.
CleanupComplete ==
  \A c \in Closers : call[c] = "ret" =>
    /\ result # "none"
    /\ left = 0 \/ \E d \in Closers : call[d] = "panicked"
    /\ state = "closed" \/ (Stalls /\ state = "claimed" /\ answer[c] = "cause")

\* cleanup: whichever call reports, the observers hear of a normal end only if
\* the one verdict of Connection.Close is nil (the handshake agreed, or the
\* connection was found closed: net.ErrClosed counts as nil), of a failure
\* only if it is an error, and of a cancellation only if Close gave an error
\* to a call whose own context had ended.
ResultTruthful ==
  /\ result = "normal" => verdict = "nil"
  /\ result = "failed" => verdict \notin {"none", "nil"}
  /\ result = "canceled" =>
       \E c \in ctxDone : answer[c] \notin {"none", "nil"}
=============================================================================

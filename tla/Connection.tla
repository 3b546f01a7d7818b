----------------------------- MODULE Connection -----------------------------
(***************************************************************************)
(* The starter's Connection: Read, Write, Ping and Close over one native   *)
(* connection.  Close runs the native handshake once, in a goroutine of    *)
(* its own; every caller waits for that goroutine or for its own context,  *)
(* and a caller whose context ends forces the socket closed.               *)
(***************************************************************************)
EXTENDS NativeConn

VARIABLES
  once,       \* closeOnce has run: the handshake goroutine exists
  closeErr,   \* Connection.closeErr
  closeDone   \* the channel closeDone is closed

wrapVars == <<once, closeErr, closeDone>>
vars == <<nativeVars, wrapVars>>

TypeOK ==
  /\ NativeTypeOK
  /\ once \in BOOLEAN /\ closeDone \in BOOLEAN
  /\ closeErr \in Errors

Init ==
  /\ NativeInit
  /\ once = FALSE /\ closeErr = "nil" /\ closeDone = FALSE

-----------------------------------------------------------------------------
(* Connection.Close                                                         *)

\* Faulty variant: any status is accepted.
ValidAny(s) == TRUE

\* validStatus, and the check of the reason: only the four application codes.
ValidStatus(s) == s \in AppStatus

CloseInvalid(c, s) ==
  /\ pc[c] = "idle" /\ ~ValidStatus(s)
  /\ Goto(c, "ret")
  /\ err' = [err EXCEPT ![c] = "invalid"]
  /\ UNCHANGED <<flagVars, lockVars, frame, then, ctxVars, readVars, peerVars,
                 wireVars, wrapVars>>

\* The context is already done: CloseNow, without a handshake.
CloseCancelled(c, s) ==
  /\ pc[c] = "idle" /\ ValidStatus(s) /\ c \in ctxDone
  /\ Goto(c, "cas")
  /\ then' = [then EXCEPT ![c] = "ret"]
  /\ err' = [err EXCEPT ![c] = "cause"]
  /\ UNCHANGED <<flagVars, lockVars, frame, ctxVars, readVars, peerVars,
                 wireVars, wrapVars>>

\* Otherwise closeOnce starts the handshake with the first caller's status.
CloseCall(c, s) ==
  /\ pc[c] = "idle" /\ ValidStatus(s) /\ c \notin ctxDone
  /\ once' = TRUE
  /\ pc' = IF once THEN [pc EXCEPT ![c] = "select"]
                   ELSE [pc EXCEPT ![c] = "select", ![CloseGo] = "cas"]
  /\ code' = IF once THEN code ELSE s
  /\ UNCHANGED <<closing, closed, closeSent, closeReceived, lockVars, frame,
                 then, err, ctxVars, readVars, peerVars, wireVars, closeErr,
                 closeDone>>

\* select: the handshake has ended ...
CloseVerdict(c) ==
  /\ pc[c] = "select" /\ closeDone
  /\ Goto(c, "ret")
  /\ err' = [err EXCEPT ![c] = closeErr]
  /\ UNCHANGED <<flagVars, lockVars, frame, then, ctxVars, readVars, peerVars,
                 wireVars, wrapVars>>

\* Faulty variant: a cancelled caller returns without forcing the socket.
CloseForceNot(c) ==
  /\ pc[c] = "select" /\ c \in ctxDone
  /\ Goto(c, "ret")
  /\ err' = [err EXCEPT ![c] = "cause"]
  /\ UNCHANGED <<flagVars, lockVars, frame, then, ctxVars, readVars, peerVars,
                 wireVars, wrapVars>>

\* ... or the context has, and the caller forces the socket closed.
CloseForce(c) ==
  /\ pc[c] = "select" /\ c \in ctxDone
  /\ Goto(c, "cas")
  /\ then' = [then EXCEPT ![c] = "await"]
  /\ err' = [err EXCEPT ![c] = "cause"]
  /\ UNCHANGED <<flagVars, lockVars, frame, ctxVars, readVars, peerVars,
                 wireVars, wrapVars>>

\* After forcing, the caller still waits for the goroutine.
CloseAwait(c) ==
  /\ pc[c] = "await" /\ closeDone
  /\ Goto(c, "ret")
  /\ UNCHANGED <<flagVars, lockVars, frame, then, err, ctxVars, readVars,
                 peerVars, wireVars, wrapVars>>

\* Conn.Close and Conn.CloseNow both start by claiming the close.
CasClosing(p) ==
  /\ pc[p] = "cas"
  /\ closing' = TRUE
  /\ CASE closing ->
            Goto(p, "waitClosed") /\ UNCHANGED <<frame, then, late>>
       [] ~closing /\ p = CloseGo ->
            StartWrite(p, <<"close", code>>, "hsLock")
       [] OTHER ->
            Goto(p, "close") /\ UNCHANGED <<frame, then, late>>
  /\ UNCHANGED <<closed, closeSent, closeReceived, code, lockVars, err, ctxDone,
                 readVars, peerVars, wireVars, wrapVars>>

\* Faulty variant: the callers are released before the error is stored.
PublishLate ==
  /\ pc[CloseGo] = "publish"
  /\ closeDone' = TRUE
  /\ \/ UNCHANGED <<pc, closeErr>>
     \/ /\ closeDone /\ Goto(CloseGo, "signal")
        /\ closeErr' = IF err[CloseGo] = "ErrClosed" THEN "nil" ELSE err[CloseGo]
  /\ UNCHANGED <<flagVars, lockVars, frame, then, err, ctxVars, readVars,
                 peerVars, wireVars, once>>

\* The goroutine of closeOnce stores what Conn.Close returned ...
Publish ==
  /\ pc[CloseGo] = "publish"
  /\ closeErr' = IF err[CloseGo] = "ErrClosed" THEN "nil" ELSE err[CloseGo]
  /\ Goto(CloseGo, "signal")
  /\ UNCHANGED <<flagVars, lockVars, frame, then, err, ctxVars, readVars,
                 peerVars, wireVars, once, closeDone>>

\* ... and then releases the callers.
Signal ==
  /\ pc[CloseGo] = "signal"
  /\ closeDone' = TRUE
  /\ Goto(CloseGo, "done")
  /\ UNCHANGED <<flagVars, lockVars, frame, then, err, ctxVars, readVars,
                 peerVars, wireVars, once, closeErr>>

-----------------------------------------------------------------------------
(* Read, Write, Ping                                                        *)

Read ==
  /\ pc[Reader] = "idle"
  /\ Goto(Reader, "rdLock")
  /\ UNCHANGED <<flagVars, lockVars, frame, then, err, ctxVars, readVars,
                 peerVars, wireVars, wrapVars>>

\* A message type or size the wrapper refuses never reaches the socket.
Write(w) ==
  /\ pc[w] = "idle"
  /\ \/ Goto(w, "mLock") /\ UNCHANGED err
     \/ Goto(w, "ret") /\ err' = [err EXCEPT ![w] = "invalid"]
  /\ UNCHANGED <<flagVars, lockVars, frame, then, ctxVars, readVars, peerVars,
                 wireVars, wrapVars>>

Ping(p) ==
  /\ pc[p] = "idle"
  /\ StartWrite(p, <<"ping", p>>, "pgWait")
  /\ UNCHANGED <<flagVars, lockVars, err, ctxDone, readVars, peerVars, wireVars,
                 wrapVars>>

-----------------------------------------------------------------------------
\* One step of goroutine p inside the library.
NativeStep(p) ==
  \/ CloseBegin(p) \/ CloseWriter(p) \/ CloseEnd(p) \/ WaitClosed(p)
  \/ WLock(p) \/ WWrite(p) \/ WFail(p) \/ WSent(p)
  \/ ReadLoop(p) \/ ReadCas(p) \/ Fin(p)
  \/ p = CloseGo /\ (HsLock \/ HsDrain \/ HsSkip)
  \/ p = Reader /\ (RdLock \/ RdHead \/ RdBody \/ RdTooBig \/ RdBodyEnds)
  \/ p \in Writers /\ MLock(p)
  \/ p \in Pingers /\ PingWait(p)

\* What a goroutine that is in a call does next: these steps keep coming.
Step(p) ==
  \/ NativeStep(p) /\ UNCHANGED wrapVars
  \/ CasClosing(p)
  \/ p = CloseGo /\ (Publish \/ Signal)
  \/ p \in Closers /\ (CloseVerdict(p) \/ CloseForce(p) \/ CloseAwait(p))

\* What the application starts, or never does.
Call ==
  \/ \E c \in Closers, s \in Codes :
       CloseInvalid(c, s) \/ CloseCancelled(c, s) \/ CloseCall(c, s)
  \/ Read
  \/ \E w \in Writers : Write(w)
  \/ \E p \in Pingers : Ping(p)

Clock ==
  /\ \/ \E p \in Callers : Cancel(p)
     \/ \E p \in Procs : Expire(p) \/ Fire(p)
  /\ UNCHANGED wrapVars

Peer ==
  /\ \/ \E k \in FrameKinds : PeerSend(k)
     \/ PeerRest
     \/ \E s \in Status : PeerClose(s)
     \/ \E p \in Pingers : PeerPong(p)
     \/ PeerGone
     \/ PeerStall
  /\ UNCHANGED wrapVars

Next == (\E p \in Procs : Step(p)) \/ Call \/ Clock \/ Peer

Spec == Init /\ [][Next]_vars

-----------------------------------------------------------------------------
(* Fairness: a goroutine that can run is run, and timers go off.  Nothing   *)
(* is assumed of the application, and of the peer only what Cooperative     *)
(* says.                                                                    *)

Fairness ==
  \A p \in Procs : /\ WF_vars(Step(p))
                   /\ WF_vars(Expire(p) /\ UNCHANGED wrapVars)
                   /\ WF_vars(Fire(p) /\ UNCHANGED wrapVars)

FairSpec == Spec /\ Fairness

\* A peer that finishes every frame it starts; it may still never answer.
CooperativeSpec == FairSpec /\ WF_vars(PeerRest /\ UNCHANGED wrapVars)

-----------------------------------------------------------------------------
(* Properties                                                               *)

\* The reader or the handshake goroutine goes on to release readMu.  One that
\* echoes the peer's close frame ("rdCas" comes next) has done so already and
\* may close the connection itself.
ReleasesReadMu(q) ==
  \/ pc[q] \in {"rdHead", "rdBody", "hsDrain", "hsRead", "rdCas", "fin"}
  \/ pc[q] \in {"wLock", "wWrite", "wSent"} /\ then[q] \in {"rdHead", "hsRead", "fin"}

\* writeFrame: a close frame is the last frame this side ever puts on the
\* wire, whichever of Close, the echo of a received close frame and the
\* library's own error frames come first, and whoever else is writing.
NothingAfterClose ==
  \A i \in DOMAIN outbox : outbox[i][1] = "close" => i = Len(outbox)

\* readLoop: reader() and waitCloseHandshake never parse the byte stream at
\* the same time, although handleControl releases readMu early and its
\* deferred unlock may release a hold of the other goroutine.
StreamOwned ==
  pc[Reader] \in {"rdHead", "rdBody"} => pc[CloseGo] \notin {"hsDrain", "hsRead"}

\* mu.lock, Conn.close: nobody waits for a lock that no goroutine is going to
\* release, its own goroutine's hold above all.  Conn.close, under closeMu,
\* waits on a client for writeFrameMu and then for readMu; it keeps what it
\* locks, and only after that may a lock be full with nobody inside.
LocksHaveHolders ==
  LET waits(l) == \E p \in Procs : pc[p] = l
  IN /\ closeMu => waits("closeWait") \/ waits("closeRead")
     /\ msgMu => \E w \in Writers : pc[w] \in {"wLock", "wWrite", "wSent", "fin"}
     /\ readMu /\ (~closed \/ waits("closeWait") \/ waits("closeRead")) =>
          \E q \in {Reader, CloseGo} : ReleasesReadMu(q)
     /\ writeFrameMu /\ (~closed \/ waits("closeWait")) =>
          \E q \in Procs : pc[q] \in {"wWrite", "wSent"}

\* Connection.Close: when a call returns, the socket is closed.  This is what
\* the comment of Close, README.md and docs/dependency-review.md say of it.
ReturnedMeansClosed ==
  \A c \in Closers : pc[c] = "ret" /\ err[c] # "invalid" => closed

\* Connection.Close: a call that took part in the handshake, whether it ended
\* with the verdict or was cancelled while it waited, returns with the socket
\* closed, however long the peer pauses inside a frame.  (A call made with a
\* context that is done already only calls CloseNow; its `then' is "ret".)
WaitedMeansClosed ==
  \A c \in Closers :
    pc[c] = "ret" /\ err[c] # "invalid" /\ then[c] # "ret" => closed

\* Connection.Close: every caller that was not cancelled gets the one verdict
\* of the handshake, and never one read before the goroutine stored it.
SameVerdict ==
  \A c \in Closers :
    pc[c] = "ret" /\ err[c] \notin {"invalid", "cause"} =>
      closeDone /\ err[c] = closeErr

\* sanitizeConnectionError: a PeerCloseError carries the status the peer
\* really sent, for a reader as for the closers, and a closer sees it only if
\* the peer did not answer with the status it was sent.
PeerErrorTruthful ==
  /\ pc[Reader] = "ret" /\ err[Reader] \in Status => closeReceived = err[Reader]
  /\ closeErr \in Status => closeReceived = closeErr /\ closeErr # code

\* Connection.Read: the payload returned belongs to the header that was read.
\* It holds if the peer sends neither a ping nor a malformed frame while the
\* handshake reads; either ends the handshake between two frames (ConnTorn).
NoTornMessage == pc[Reader] = "idle" => got[2] = <<"tail", got[1]>>

\* Connection.Close implements ConnectionContract: claimed and closed at most
\* once, decided only when closed, each call answered once.
Contract == INSTANCE ConnectionContract WITH
  Verdicts <- Errors,
  state    <- IF closed THEN "closed" ELSE IF closing THEN "claimed" ELSE "open",
  verdict  <- IF closeDone THEN closeErr ELSE "none",
  answer   <- [c \in Closers |-> IF pc[c] = "ret" THEN err[c] ELSE "none"]

\* Connection.Close, as its callers see it, is what the contract promises: no
\* verdict before the socket is closed, and one answer for each call.
ImplementsContract == Contract!Spec

\* Connection.Close: against a peer that finishes its frames but need not
\* answer, read, or stay, every call returns.
CloseReturns == \A c \in Closers : (pc[c] = "select") ~> (pc[c] = "ret")

\* Connection.Close, "Cancellation force-closes the socket and returns the
\* caller's cause": a cancelled call returns whatever the peer does.
CancelledCloseReturns ==
  \A c \in Closers : (pc[c] = "select" /\ c \in ctxDone) ~> (pc[c] = "ret")

\* Connection.Read, Write and Ping: a call whose context is cancelled returns.
CancelledCallReturns ==
  \A p \in Callers \ Closers :
    (p \in ctxDone /\ pc[p] # "idle") ~> (pc[p] \in {"ret", "idle"})

\* Connection.Read, "Canceling the context closes the underlying connection".
ReadCancelCloses ==
  (pc[Reader] = "ret" /\ err[Reader] = "cause") ~> closed

=============================================================================

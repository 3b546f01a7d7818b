------------------------- MODULE CloseVerdictProofs -------------------------
(***************************************************************************)
(* What Connection.Close tells its callers, for any number of them: the    *)
(* socket is closed when a call that waited returns, all calls that waited *)
(* get the one verdict, and nobody waits for a lock that is never          *)
(* released.                                                               *)
(***************************************************************************)
EXTENDS WireProofs

USE DEF flagVars, lockVars, procVars, ctxVars, readVars, peerVars, wireVars,
        wrapVars

\* Where a call of Close can be, and where it is on its way to force the
\* socket closed.
ForceLabels == InClose \cup {"cas", "close", "waitClosed", "await"}
CloseLabels == ForceLabels \cup {"idle", "select", "ret"}

\* Conn.Close has closed the socket, or found it closed.
ShutLabels == InClose \cup {"publish", "signal", "done"}

\* A call that returned was refused, was cancelled after the socket was
\* closed, or got the verdict.
Returned(c) ==
  \/ err[c] = "invalid"
  \/ err[c] = "cause" /\ (closed \/ (Stalls /\ then[c] = "ret"))
  \/ closeDone /\ err[c] = closeErr

CloserInv(c) ==
  /\ pc[c] \in CloseLabels
  /\ pc[c] \in ForceLabels => err[c] = "cause" /\ then[c] \in {"ret", "await"}
  /\ pc[c] = "waitClosed" => closing
  /\ pc[c] \in InClose => closed
  /\ pc[c] = "ret" => Returned(c)

CloseGoInv ==
  /\ closeDone => pc[CloseGo] = "done"
  /\ pc[CloseGo] \in ShutLabels => closed

VerdictInv == CloseGoInv /\ \A c \in Closers : CloserInv(c)

\* A fresh connection has answered nobody.
LEMMA InitVerdict == Init => VerdictInv
BY DEF Init, NativeInit, VerdictInv, CloseGoInv, CloserInv, CloseLabels,
       ShutLabels, ForceLabels, InClose, Procs, Callers, CloseGo

\* CloseNow is all of the library a call of Close runs by itself.
LEMMA CloserNative ==
  ASSUME NEW c \in Closers, pc[c] \in CloseLabels, NativeStep(c)
  PROVE  CloseBegin(c) \/ CloseWriter(c) \/ CloseEnd(c) \/ WaitClosed(c)
<1>1. c # CloseGo /\ c # Reader /\ c \notin Writers /\ c \notin Pingers
  BY ProcsAssumption
<1>. QED
  BY <1>1 DEF NativeStep, ReadLoop, ReadCas, Fin, WLock, WWrite, WFail, WSent,
              CloseLabels, ForceLabels, InClose

\* The handshake goroutine gets past Conn.Close only with the socket closed.
LEMMA CloseGoNative ==
  ASSUME TypeInv, CloseGoInv, NativeStep(CloseGo), UNCHANGED wrapVars
  PROVE  CloseGoInv'
<1>. USE DEF TypeInv, TypeOK, NativeTypeOK, ProcsOK, Goto, CloseGoInv, ShutLabels,
             InClose
<1>0. CloseGo \in Procs /\ CloseGo # Reader /\ CloseGo # Timer
      /\ CloseGo \notin Writers /\ CloseGo \notin Pingers
  BY ProcsAssumption DEF Procs, CloseGo, Reader, Timer
<1>1. ~closeDone
  BY DEF NativeStep, ReadLoop, CloseBegin, CloseWriter, CloseEnd, WaitClosed,
         WLock, WWrite, WFail, WSent, ReadCas, Fin, HsLock, HsDrain, HsSkip,
         RdLock, RdHead,
         RdBody, RdTooBig, RdBodyEnds, MLock, PingWait
<1>2. pc'[CloseGo] \in ShutLabels => closed'
  <2>1. CASE \/ CloseBegin(CloseGo) \/ CloseWriter(CloseGo)
             \/ CloseEnd(CloseGo) \/ WaitClosed(CloseGo)
    BY <1>0, <2>1 DEF CloseBegin, CloseWriter, CloseEnd, WaitClosed
  <2>2. CASE \/ WLock(CloseGo) \/ WWrite(CloseGo) \/ WFail(CloseGo)
             \/ WSent(CloseGo)
    BY <1>0, <2>2 DEF WLock, WWrite, WFail, WSent, WriteReturn, Returns
  <2>3. CASE ReadLoop(CloseGo)
    BY <1>0, <2>3 DEF ReadLoop, ReadEnds, ReadPing, ReadPong, ReadBad,
                      ReadUnmasked, ReadClose, StartWrite
  <2>4. CASE ReadCas(CloseGo) \/ Fin(CloseGo)
    BY <1>0, <2>4 DEF ReadCas, Fin
  <2>5. CASE HsLock \/ HsDrain \/ HsSkip
    BY <1>0, <2>5 DEF HsLock, HsDrain, HsSkip
  <2>. QED  BY <1>0, <2>1, <2>2, <2>3, <2>4, <2>5 DEF NativeStep
<1>. QED  BY <1>1, <1>2

\* One call of Close, stepped by itself inside the library: it returns only
\* with the socket closed, or after the 15s of a stalled handshake.
LEMMA CloserSelf ==
  ASSUME TypeInv, NEW c \in Closers, CloserInv(c), NativeStep(c),
         UNCHANGED wrapVars
  PROVE  CloserInv(c)'
<1>. USE DEF TypeInv, TypeOK, NativeTypeOK, ProcsOK, Goto, CloserInv, CloseLabels,
             ForceLabels, Returned, InClose
<1>1. c \in Procs /\ AfterClose(c) = then[c] /\ c # CloseGo
  BY ProcsAssumption DEF Procs, Callers, AfterClose
<1>2. CASE CloseBegin(c)
  BY <1>1, <1>2 DEF CloseBegin
<1>3. CASE CloseWriter(c)
  BY <1>1, <1>3 DEF CloseWriter
<1>4. CASE CloseEnd(c)
  BY <1>1, <1>4 DEF CloseEnd
<1>5. CASE WaitClosed(c)
  BY <1>1, <1>5 DEF WaitClosed
<1>. QED  BY <1>2, <1>3, <1>4, <1>5, CloserNative

\* A step that leaves a call of Close, the verdict and the flags alone.
LEMMA CloserOther ==
  ASSUME NEW c \in Closers, CloserInv(c),
         pc'[c] = pc[c], err'[c] = err[c], then'[c] = then[c],
         closed => closed', closing => closing',
         closeDone => closeDone' /\ closeErr' = closeErr
  PROVE  CloserInv(c)'
BY DEF CloserInv, Returned

\* Steps of the library keep the invariant.
LEMMA NativeVerdict ==
  ASSUME TypeInv, VerdictInv, NEW p \in Procs, NativeStep(p), UNCHANGED wrapVars
  PROVE  VerdictInv'
<1>1. CloseGoInv'
  <2>1. CASE p = CloseGo
    BY <2>1, CloseGoNative DEF VerdictInv
  <2>2. CASE p # CloseGo
    BY <2>2, NativeLocal DEF VerdictInv, CloseGoInv, Procs
  <2>. QED  BY <2>1, <2>2
<1>2. ASSUME NEW c \in Closers
      PROVE  CloserInv(c)'
  <2>1. CASE p = c
    BY <2>1, CloserSelf DEF VerdictInv
  <2>2. CASE p # c
    BY <2>2, NativeLocal, CloserOther DEF VerdictInv, Procs, Callers
  <2>. QED  BY <2>1, <2>2
<1>. QED  BY <1>1, <1>2 DEF VerdictInv

\* The clock and the peer neither move a closer nor end the handshake.
LEMMA EnvironmentVerdict ==
  ASSUME TypeInv, VerdictInv, Clock \/ Peer
  PROVE  VerdictInv'
<1>1. UNCHANGED <<closed, closing, err, then, closeDone, closeErr>>
  BY DEF Clock, Peer, Cancel, Expire, Fire, PeerSend, PeerRest, PeerClose,
         PeerPong, PeerGone, PeerStall
<1>2. \A q \in Procs \ {Timer} : pc'[q] = pc[q]
  BY DEF TypeInv, TypeOK, NativeTypeOK, ProcsOK, Goto, Clock, Peer, Cancel,
         Expire, Fire, PeerSend, PeerRest, PeerClose, PeerPong, PeerGone, PeerStall
<1>3. CloseGo \in Procs \ {Timer} /\ Closers \subseteq Procs \ {Timer}
  BY ProcsAssumption DEF Procs, Callers, CloseGo, Timer
<1>4. CloseGoInv'
  BY <1>1, <1>2, <1>3 DEF VerdictInv, CloseGoInv
<1>5. ASSUME NEW c \in Closers PROVE CloserInv(c)'
  BY <1>1, <1>2, <1>3, CloserOther DEF VerdictInv
<1>. QED  BY <1>4, <1>5 DEF VerdictInv

\* The wrapper's own steps: a call starts, forces or returns; the goroutine
\* claims the close, stores its error, then releases the callers.
LEMMA WrapperVerdict ==
  ASSUME TypeInv, VerdictInv,
         \/ Call
         \/ \E p \in Procs : CasClosing(p)
         \/ Publish \/ Signal
         \/ \E c \in Closers : CloseVerdict(c) \/ CloseForce(c) \/ CloseAwait(c)
  PROVE  VerdictInv'
<1>. USE DEF TypeInv, TypeOK, NativeTypeOK, ProcsOK, Goto, VerdictInv, InClose
<1>0. /\ CloseGo \in Procs /\ Reader \in Procs /\ CloseGo # Reader
      /\ Closers \subseteq Procs /\ CloseGo \notin Closers /\ Reader \notin Closers
      /\ Writers \subseteq Procs \ Closers /\ CloseGo \notin Writers
      /\ Pingers \subseteq Procs \ Closers /\ CloseGo \notin Pingers
  BY ProcsAssumption DEF Procs, Callers, CloseGo, Reader
<1>1. ASSUME NEW c \in Closers,
             \/ \E s \in Codes : CloseInvalid(c, s) \/ CloseCancelled(c, s)
             \/ CloseVerdict(c) \/ CloseForce(c) \/ CloseAwait(c)
      PROVE  VerdictInv'
  <2>1. /\ UNCHANGED <<closed, closing, closeDone, closeErr>>
        /\ \A q \in Procs \ {c} : /\ pc'[q] = pc[q] /\ err'[q] = err[q]
                                   /\ then'[q] = then[q]
    BY <1>0, <1>1 DEF CloseInvalid, CloseCancelled, CloseVerdict, CloseForce,
                      CloseAwait
  <2>2. CloseGoInv'
    BY <1>0, <2>1 DEF CloseGoInv
  <2>3. CloserInv(c)'
    BY <1>0, <1>1 DEF CloserInv, Returned, CloseLabels, ForceLabels, CloseGoInv,
       ShutLabels, CloseInvalid, CloseCancelled, CloseVerdict, CloseForce, CloseAwait
  <2>4. ASSUME NEW d \in Closers, d # c PROVE CloserInv(d)'
    BY <1>0, <2>1, <2>4, CloserOther
  <2>. QED  BY <2>2, <2>3, <2>4
<1>2. ASSUME NEW c \in Closers, NEW s \in Codes, CloseCall(c, s)
      PROVE  VerdictInv'
  <2>1. /\ UNCHANGED <<closed, closing, closeDone, closeErr, err, then>>
        /\ \A q \in Procs \ {c, CloseGo} : pc'[q] = pc[q]
        /\ pc[c] = "idle" /\ pc'[c] = "select"
        /\ pc'[CloseGo] \in {pc[CloseGo], "cas"}
        /\ ~once \/ pc'[CloseGo] = pc[CloseGo]
    BY <1>0, <1>2 DEF CloseCall
  <2>2. CloseGoInv'
    BY <2>1 DEF CloseGoInv, CloseGoStarted, ShutLabels
  <2>3. CloserInv(c)'
    BY <2>1 DEF CloserInv, CloseLabels, ForceLabels
  <2>4. ASSUME NEW d \in Closers, d # c PROVE CloserInv(d)'
    BY <1>0, <2>1, <2>4, CloserOther
  <2>. QED  BY <2>2, <2>3, <2>4
<1>3. CASE Read \/ (\E w \in Writers : Write(w)) \/ (\E p \in Pingers : Ping(p))
  <2>1. UNCHANGED <<closed, closing, closeDone, closeErr>>
    BY <1>3 DEF Read, Write, Ping
  <2>2. \A q \in Closers \cup {CloseGo} :
          pc'[q] = pc[q] /\ err'[q] = err[q] /\ then'[q] = then[q]
    <3>1. CASE Read
      BY <1>0, <3>1 DEF Read
    <3>2. CASE \E w \in Writers : Write(w)
      BY <1>0, <3>2 DEF Write
    <3>3. CASE \E p \in Pingers : Ping(p)
      BY <1>0, <3>3 DEF Ping, StartWrite
    <3>. QED  BY <1>3, <3>1, <3>2, <3>3
  <2>. QED  BY <2>1, <2>2, CloserOther DEF CloseGoInv
<1>4. ASSUME NEW p \in Procs, CasClosing(p)
      PROVE  VerdictInv'
  <2>1. /\ UNCHANGED <<closed, closeDone, closeErr, err>> /\ closing'
        /\ \A q \in Procs \ {p} : pc'[q] = pc[q] /\ then'[q] = then[q]
        /\ pc[p] = "cas"
    BY <1>4 DEF CasClosing, StartWrite
  <2>2. pc'[p] \in {"waitClosed", "wLock", "close"}
    BY <1>4 DEF CasClosing, StartWrite
  <2>3. CloseGoInv'
    BY <1>0, <2>1, <2>2 DEF CloseGoInv, ShutLabels
  <2>4. ASSUME NEW c \in Closers, c = p PROVE CloserInv(c)'
    <3>1. pc'[c] \in {"waitClosed", "close"} /\ then'[c] = then[c]
      BY <1>0, <1>4, <2>4 DEF CasClosing
    <3>. QED  BY <2>1, <2>4, <3>1 DEF CloserInv, CloseLabels, ForceLabels
  <2>5. ASSUME NEW c \in Closers, c # p PROVE CloserInv(c)'
    BY <1>0, <2>1, <2>5, CloserOther
  <2>. QED  BY <2>3, <2>4, <2>5
<1>5. CASE Publish \/ Signal
  <2>1. /\ UNCHANGED <<closed, closing, err, then>> /\ ~closeDone
        /\ \A q \in Closers : pc'[q] = pc[q]
    BY <1>0, <1>5 DEF Publish, Signal, CloseGoInv
  <2>2. CloseGoInv'
    BY <1>0, <1>5, <2>1 DEF Publish, Signal, CloseGoInv, ShutLabels
  <2>3. ASSUME NEW c \in Closers PROVE CloserInv(c)'
    BY <1>0, <2>1, CloserOther
  <2>. QED  BY <2>2, <2>3
<1>. QED  BY <1>1, <1>2, <1>3, <1>4, <1>5 DEF Call

\* Every step of the specification keeps the invariant.
LEMMA NextVerdict == TypeInv /\ VerdictInv /\ [Next]_vars => VerdictInv'
<1>. SUFFICES ASSUME TypeInv, VerdictInv, [Next]_vars PROVE VerdictInv'
  OBVIOUS
<1>1. ASSUME NEW p \in Procs, NativeStep(p), UNCHANGED wrapVars
      PROVE  VerdictInv'
  BY <1>1, NativeVerdict
<1>2. CASE UNCHANGED vars
  BY <1>2 DEF vars, nativeVars, VerdictInv, CloseGoInv, CloserInv, Returned
<1>. QED
  BY <1>1, <1>2, WrapperVerdict, EnvironmentVerdict DEF Next, Step

\* The invariant holds in every reachable state.
LEMMA VerdictAlways == Spec => [](TypeInv /\ VerdictInv)
BY InitType, NextType, InitVerdict, NextVerdict, PTL DEF Spec

\* Connection.Close: whatever the other goroutines, the timers and the peer
\* do, a call that took part in the handshake returns with the socket closed,
\* also one that was cancelled while it waited.
THEOREM WaitingClosesTheSocket == Spec => []WaitedMeansClosed
<1>1. TypeInv /\ VerdictInv => WaitedMeansClosed
  BY DEF VerdictInv, CloserInv, Returned, CloseGoInv, ShutLabels,
         WaitedMeansClosed
<1>. QED  BY <1>1, VerdictAlways, PTL

\* Connection.Close: against a peer that never pauses inside a frame for 15s,
\* every call returns with the socket closed, also one made with a context
\* that is done already.  Without the hypothesis it is false: ConnForce.cfg.
THEOREM CloseClosesTheSocket ==
  ASSUME ~Stalls PROVE Spec => []ReturnedMeansClosed
<1>1. TypeInv /\ VerdictInv => ReturnedMeansClosed
  BY DEF VerdictInv, CloserInv, Returned, CloseGoInv, ShutLabels,
         ReturnedMeansClosed
<1>. QED  BY <1>1, VerdictAlways, PTL

\* Connection.Close: all calls that waited for the handshake return the one
\* verdict stored in closeErr, however their wake-ups interleave.
THEOREM OneVerdict == Spec => []SameVerdict
<1>1. TypeInv /\ VerdictInv => SameVerdict
  BY DEF VerdictInv, CloserInv, Returned, SameVerdict
<1>. QED  BY <1>1, VerdictAlways, PTL

-----------------------------------------------------------------------------
(* The status a PeerCloseError carries.                                    *)

\* Conn.Close has compared the peer's status with its own.
Compared == InClose \cup {"close", "publish", "signal", "done"}

\* A status that a goroutine carries as an error is the one received; the
\* handshake goroutine has none before the handshake, and none that equals the
\* status it sent after it.
TruthInv ==
  /\ err[Reader] \in Status => closeReceived = err[Reader]
  /\ err[CloseGo] \in Status => closeReceived = err[CloseGo]
  /\ err[CloseGo] \in Status /\ pc[CloseGo] \in Compared => err[CloseGo] # code
  /\ pc[CloseGo] \in {"idle", "cas", "waitClosed"} => err[CloseGo] = "nil"
  /\ closeErr \in Status => closeReceived = closeErr /\ closeErr # code
  /\ ~once => closeErr = "nil"

\* What is not a status.
LEMMA NotStatus ==
  {"none", "nil", "ErrClosed", "ctx", "io", "cause", "protocol", "tooBig",
   "invalid"} \cap Status = {}
BY DEF Status, AppStatus

\* A fresh connection has received no status.
LEMMA InitTruth == Init => TruthInv
BY NotStatus DEF Init, NativeInit, TruthInv, Compared, InClose, Procs, Callers

\* A goroutine inside the library gets an error with a status only from the
\* close frame the connection has received.
LEMMA StatusIsReceived ==
  ASSUME TypeInv, NEW p \in Procs, NativeStep(p), err'[p] \in Status
  PROVE  err'[p] = err[p] \/ closeReceived' = err'[p]
<1>. USE NotStatus DEF TypeInv, TypeOK, NativeTypeOK, ProcsOK
<1>1. CASE CloseBegin(p) \/ CloseWriter(p) \/ CloseEnd(p) \/ WaitClosed(p)
  BY <1>1 DEF CloseBegin, CloseWriter, CloseEnd, WaitClosed
<1>2. CASE WLock(p) \/ WWrite(p) \/ WFail(p) \/ WSent(p)
  BY <1>2 DEF WLock, WWrite, WFail, WSent, WriteReturn
<1>3. CASE ReadEnds(p)
  BY <1>3 DEF ReadEnds
<1>4. CASE ReadPing(p) \/ ReadPong(p) \/ ReadBad(p) \/ ReadUnmasked(p)
  BY <1>4 DEF ReadPing, ReadPong, ReadBad, ReadUnmasked
<1>5. CASE ReadClose(p) \/ ReadCas(p) \/ Fin(p)
  BY <1>5 DEF ReadClose, ReadCas, Fin
<1>6. CASE p = CloseGo /\ (HsLock \/ HsDrain \/ HsSkip)
  BY <1>6 DEF HsLock, HsDrain, HsSkip
<1>7. CASE p = Reader /\ (RdLock \/ RdHead \/ RdBody \/ RdTooBig)
  BY <1>7 DEF RdLock, RdHead, RdBody, RdTooBig
<1>8. CASE MLock(p) \/ PingWait(p)
  BY <1>8 DEF MLock, PingWait
<1>. QED
  BY <1>1, <1>2, <1>3, <1>4, <1>5, <1>6, <1>7, <1>8
     DEF NativeStep, ReadLoop, RdBodyEnds

\* The handshake goroutine gets past the comparison with a status only if the
\* status is not its own.
LEMMA HandshakeTruth ==
  ASSUME TypeInv, StreamInv, TruthInv, NativeStep(CloseGo)
  PROVE  /\ err'[CloseGo] \in Status /\ pc'[CloseGo] \in Compared =>
              err'[CloseGo] # code
         /\ pc'[CloseGo] \in {"idle", "cas", "waitClosed"} => err'[CloseGo] = "nil"
<1>. USE NotStatus DEF TypeInv, TypeOK, NativeTypeOK, ProcsOK, Goto, TruthInv,
                       Compared, InClose
<1>0. /\ CloseGo \in Procs /\ CloseGo # Reader /\ CloseGo # Timer
      /\ CloseGo \notin Writers /\ CloseGo \notin Pingers
  BY ProcsAssumption DEF Procs, CloseGo, Reader, Timer
<1>1. /\ pc[CloseGo] \notin {"idle", "cas"} => closing
      /\ pc[CloseGo] \in WriteLabels => then[CloseGo] \in {"hsLock", "hsRead", "fin"}
  BY DEF StreamInv, HandshakeInv
<1>2. CASE \/ CloseBegin(CloseGo) \/ CloseWriter(CloseGo)
           \/ CloseEnd(CloseGo) \/ WaitClosed(CloseGo)
  BY <1>0, <1>2 DEF CloseBegin, CloseWriter, CloseEnd, WaitClosed, AfterClose
<1>3. CASE \/ WLock(CloseGo) \/ WWrite(CloseGo) \/ WFail(CloseGo)
           \/ WSent(CloseGo)
  BY <1>0, <1>1, <1>3 DEF WLock, WWrite, WFail, WSent, WriteReturn, WriteLabels
<1>4. CASE ReadLoop(CloseGo)
  BY <1>0, <1>4 DEF ReadLoop, ReadEnds, ReadPing, ReadPong, ReadBad,
                    ReadUnmasked, ReadClose, StartWrite
<1>5. CASE ReadCas(CloseGo) \/ Fin(CloseGo)
  BY <1>0, <1>1, <1>5 DEF ReadCas, Fin
<1>6. CASE HsLock \/ HsDrain \/ HsSkip
  BY <1>0, <1>6 DEF HsLock, HsDrain, HsSkip
<1>. QED  BY <1>0, <1>2, <1>3, <1>4, <1>5, <1>6 DEF NativeStep

\* Steps of the library keep the invariant.
LEMMA NativeTruth ==
  ASSUME TypeInv, StreamInv, TruthInv, NEW p \in Procs, NativeStep(p),
         UNCHANGED wrapVars
  PROVE  TruthInv'
<1>0. Reader \in Procs /\ CloseGo \in Procs
  BY DEF Procs, Callers
<1>1. ASSUME NEW q \in {Reader, CloseGo}, err'[q] \in Status
      PROVE  closeReceived' = err'[q]
  <2>1. err'[q] = err[q] \/ closeReceived' = err'[q]
    BY <1>0, <1>1, NativeLocal, StatusIsReceived
  <2>2. err'[q] = err[q] => closeReceived = err[q] /\ closeReceived # "none"
    BY <1>1, NotStatus DEF TruthInv
  <2>. QED  BY <2>1, <2>2, NativeLocal
<1>2. /\ err'[CloseGo] \in Status /\ pc'[CloseGo] \in Compared =>
           err'[CloseGo] # code
      /\ pc'[CloseGo] \in {"idle", "cas", "waitClosed"} => err'[CloseGo] = "nil"
  <2>1. CASE p = CloseGo
    BY <2>1, HandshakeTruth
  <2>2. CASE p # CloseGo
    BY <1>0, <2>2, NativeLocal DEF TruthInv
  <2>. QED  BY <2>1, <2>2
<1>3. closeErr \in Status => closeReceived' = closeErr /\ closeErr # code
  BY NativeLocal, NotStatus DEF TruthInv
<1>. QED  BY <1>1, <1>2, <1>3, NativeLocal DEF TruthInv

\* The clock, the peer and the wrapper: Publish stores what was compared.
LEMMA RestTruth ==
  ASSUME TypeInv, StreamInv, TruthInv,
         \/ Call \/ Clock \/ Peer
         \/ \E p \in Procs : CasClosing(p)
         \/ Publish \/ Signal
         \/ \E c \in Closers : CloseVerdict(c) \/ CloseForce(c) \/ CloseAwait(c)
  PROVE  TruthInv'
<1>. USE DEF TypeInv, TypeOK, NativeTypeOK, ProcsOK, Goto, TruthInv
<1>0. /\ Reader \in Procs /\ CloseGo \in Procs /\ Reader # CloseGo
      /\ Timer \in Procs /\ Timer # CloseGo
      /\ Closers \subseteq Procs \ {Reader, CloseGo}
      /\ Writers \subseteq Procs \ {Reader, CloseGo}
      /\ Pingers \subseteq Procs \ {Reader, CloseGo}
  BY ProcsAssumption DEF Procs, Callers, Reader, CloseGo, Timer
<1>1. ASSUME NEW c \in Closers,
             \/ \E s \in Codes : CloseInvalid(c, s) \/ CloseCancelled(c, s)
             \/ CloseVerdict(c) \/ CloseForce(c) \/ CloseAwait(c)
      PROVE  TruthInv'
  <2>1. /\ UNCHANGED <<closeReceived, code, closeErr, once>>
        /\ \A q \in Procs \ {c} : pc'[q] = pc[q] /\ err'[q] = err[q]
    BY <1>0, <1>1 DEF CloseInvalid, CloseCancelled, CloseVerdict, CloseForce,
                      CloseAwait
  <2>. QED  BY <1>0, <2>1
<1>2. ASSUME NEW c \in Closers, NEW s \in Codes, CloseCall(c, s)
      PROVE  TruthInv'
  <2>1. /\ UNCHANGED <<closeReceived, closeErr, err>> /\ once'
        /\ \/ UNCHANGED code /\ pc'[CloseGo] = pc[CloseGo]
           \/ ~once /\ pc'[CloseGo] = "cas"
    BY <1>0, <1>2 DEF CloseCall
  <2>2. CASE UNCHANGED code /\ pc'[CloseGo] = pc[CloseGo]
    BY <2>1, <2>2
  <2>3. CASE ~once /\ pc'[CloseGo] = "cas"
    <3>1. pc[CloseGo] = "idle" /\ closeErr = "nil"
      BY <2>3 DEF CloseGoStarted
    <3>. QED  BY <2>1, <2>3, <3>1, NotStatus DEF Compared, InClose
  <2>. QED  BY <2>1, <2>2, <2>3
<1>3. CASE Read
  <2>1. /\ UNCHANGED <<closeReceived, code, closeErr, once, err>>
        /\ pc'[CloseGo] = pc[CloseGo]
    BY <1>0, <1>3 DEF Read
  <2>. QED  BY <2>1
<1>7. ASSUME NEW p \in Writers \cup Pingers, Write(p) \/ Ping(p)
      PROVE  TruthInv'
  <2>1. /\ UNCHANGED <<closeReceived, code, closeErr, once>>
        /\ \A q \in {Reader, CloseGo} : err'[q] = err[q]
        /\ pc'[CloseGo] = pc[CloseGo]
    BY <1>0, <1>7 DEF Write, Ping, StartWrite
  <2>. QED  BY <2>1
<1>4. CASE Clock \/ Peer
  <2>1. /\ UNCHANGED <<closeReceived, code, closeErr, once, err>>
        /\ pc'[CloseGo] = pc[CloseGo]
    BY <1>0, <1>4
       DEF Clock, Peer, Cancel, Expire, Fire, PeerSend, PeerRest, PeerClose,
           PeerPong, PeerGone, PeerStall
  <2>. QED  BY <2>1
<1>5. ASSUME NEW p \in Procs, CasClosing(p)
      PROVE  TruthInv'
  <2>1. /\ UNCHANGED <<closeReceived, code, closeErr, once, err>>
        /\ \/ pc'[CloseGo] = pc[CloseGo]
           \/ pc[CloseGo] = "cas" /\ pc'[CloseGo] \in {"waitClosed", "wLock"}
    BY <1>0, <1>5 DEF CasClosing, StartWrite
  <2>. QED  BY <2>1, NotStatus DEF Compared, InClose
<1>6. CASE Publish \/ Signal
  <2>1. /\ UNCHANGED <<closeReceived, code, once, err>>
        /\ closeErr' \in {closeErr, "nil", err[CloseGo]}
        /\ pc[CloseGo] \in Compared /\ pc'[CloseGo] \in {"signal", "done"}
    BY <1>0, <1>6 DEF Publish, Signal, Compared, InClose
  <2>2. once
    BY <2>1 DEF CloseGoStarted, Compared, InClose
  <2>. QED  BY <2>1, <2>2, NotStatus DEF Compared, InClose
<1>. QED  BY <1>1, <1>2, <1>3, <1>4, <1>5, <1>6, <1>7 DEF Call

\* Every step of the specification keeps the invariant.
LEMMA NextTruth ==
  TypeInv /\ StreamInv /\ TruthInv /\ [Next]_vars => TruthInv'
<1>. SUFFICES ASSUME TypeInv, StreamInv, TruthInv, [Next]_vars PROVE TruthInv'
  OBVIOUS
<1>1. CASE UNCHANGED vars
  BY <1>1 DEF vars, nativeVars, TruthInv
<1>. QED  BY <1>1, NativeTruth, RestTruth DEF Next, Step

\* sanitizeConnectionError, Conn.Close, handleControl: whatever statuses cross,
\* a reader or a closer that is told a status of the peer is told the one the
\* peer sent, and a closer is told none that it asked for itself.
THEOREM PeerStatusIsTrue == Spec => []PeerErrorTruthful
<1>1. TypeInv /\ TruthInv => PeerErrorTruthful
  BY DEF TruthInv, PeerErrorTruthful
<1>2. Spec => []TruthInv
  BY StreamAlways, InitTruth, NextTruth, PTL DEF Spec
<1>. QED  BY <1>1, <1>2, StreamAlways, PTL

-----------------------------------------------------------------------------
(* A lock that is full has a holder.  Only Conn.close keeps what it locks,  *)
(* after its wait, and the socket is closed by then.                        *)

\* The labels at which a writer has the message lock.
InMessageLock == WriteLabels \cup {"fin"}

\* Conn.close has run to its end, or has the writer's lock at least.
Shut == closed /\ \A p \in Procs : pc[p] \notin InClose
WriterShut == closed /\ \A p \in Procs : pc[p] # "closeWait"

\* One goroutine closes the socket, and it is the one that holds closeMu.
WaitInv ==
  /\ \A p \in Procs : pc[p] \in InClose => closed
  /\ \A p, q \in Procs : pc[p] \in InClose /\ pc[q] \in InClose => p = q
  /\ closeMu => \E p \in Procs : pc[p] \in InClose

FrameHeld == writeFrameMu => WriterShut \/ \E q \in Procs : pc[q] \in InFrame

\* A writer writes nothing but its message, so it never closes on its way.
MessageHeld ==
  /\ msgMu => \E w \in Writers : pc[w] \in InMessageLock
  /\ \A w \in Writers : pc[w] \in WriteLabels =>
       frame[w][1] = "data" /\ then[w] = "fin" /\ pc[w] # "wSent"

\* A reader that reports an error to the peer while it holds readMu has seen no
\* close frame that nobody has claimed, so writeFrame does not close under it.
ReadHeld ==
  /\ readMu => Shut \/ ReleasesReadMu(Reader) \/ ReleasesReadMu(CloseGo)
  /\ pc[Reader] \in WriteLabels /\ then[Reader] = "fin" =>
       closing \/ closeReceived = "none"

HoldInv == WaitInv /\ FrameHeld /\ MessageHeld /\ ReadHeld

\* A fresh connection has every lock free.
LEMMA InitHold == Init => HoldInv
BY DEF Init, NativeInit, HoldInv, WaitInv, FrameHeld, MessageHeld, ReadHeld,
       WriteLabels, InClose, Procs, Callers

\* A step with which nobody begins, goes on with or ends Conn.close.
Calm ==
  /\ UNCHANGED <<closeMu, closed>>
  /\ \A q \in Procs : \/ pc'[q] = pc[q]
                      \/ pc[q] \notin InClose /\ pc'[q] \notin InClose

LEMMA CalmKeeps ==
  ASSUME WaitInv, Calm
  PROVE  WaitInv' /\ (Shut => Shut') /\ (WriterShut => WriterShut')
<1>1. \A q \in Procs : pc'[q] \in InClose <=> pc[q] \in InClose
  BY DEF Calm
<1>2. \A q \in Procs : pc'[q] = "closeWait" => pc[q] = "closeWait"
  BY DEF Calm, InClose
<1>. QED
  BY <1>1, <1>2 DEF WaitInv, Calm, Shut, WriterShut

\* Conn.close begins once, when nobody has; it has locked the writer out when
\* it goes on, and at its end the connection is shut.
LEMMA CloseKeeps ==
  ASSUME TypeInv, WaitInv, NEW p \in Procs,
         (CloseBegin(p) /\ ~closed) \/ CloseWriter(p) \/ CloseEnd(p)
  PROVE  /\ WaitInv' /\ (Shut => Shut') /\ (WriterShut => WriterShut')
         /\ CloseEnd(p) => Shut'
         /\ CloseWriter(p) \/ CloseEnd(p) => WriterShut'
<1>. USE DEF TypeInv, TypeOK, NativeTypeOK, ProcsOK, WaitInv, Shut, WriterShut,
             InClose, Goto
<1>1. CASE CloseBegin(p) /\ ~closed
  <2>1. /\ closed' /\ closeMu' /\ pc[p] = "close"
        /\ pc' = [pc EXCEPT ![p] = "closeWait"]
    BY <1>1 DEF CloseBegin
  <2>2. \A q \in Procs : pc'[q] \in InClose <=> q = p
    BY <1>1, <2>1
  <2>3. ~CloseWriter(p) /\ ~CloseEnd(p)
    BY <2>1 DEF CloseWriter, CloseEnd
  <2>. QED
    BY <1>1, <2>1, <2>2, <2>3
<1>2. CASE CloseWriter(p)
  <2>1. /\ closed /\ closed' = closed /\ closeMu' = closeMu
        /\ pc[p] = "closeWait" /\ pc' = [pc EXCEPT ![p] = "closeRead"]
    BY <1>2 DEF CloseWriter
  <2>2. \A q \in Procs : /\ pc'[q] \in InClose <=> pc[q] \in InClose
                         /\ pc'[q] # "closeWait"
    BY <2>1
  <2>3. ~CloseEnd(p)
    BY <2>1 DEF CloseEnd
  <2>. QED
    BY <2>1, <2>2, <2>3
<1>3. CASE CloseEnd(p)
  <2>1. AfterClose(p) \notin InClose
    BY DEF AfterClose, Returns
  <2>2. /\ closed /\ closed' = closed /\ ~closeMu' /\ pc[p] = "closeRead"
        /\ pc' = [pc EXCEPT ![p] = AfterClose(p)]
    BY <1>3 DEF CloseEnd
  <2>3. \A q \in Procs : pc'[q] \notin InClose
    BY <2>1, <2>2
  <2>. QED
    BY <2>2, <2>3
<1>. QED
  BY <1>1, <1>2, <1>3

\* Every other step inside the library.
LEMMA NativeCalm ==
  ASSUME TypeInv, NEW p \in Procs, NativeStep(p)
  PROVE  \/ (CloseBegin(p) /\ ~closed) \/ CloseWriter(p) \/ CloseEnd(p)
         \/ Calm
<1>. USE DEF TypeInv, TypeOK, NativeTypeOK, ProcsOK, Calm, InClose, Goto
<1>1. then[p] \notin InClose /\ AfterClose(p) \notin InClose
  BY DEF Returns, AfterClose
<1>2. CASE (CloseBegin(p) /\ closed) \/ WaitClosed(p)
  BY <1>1, <1>2 DEF CloseBegin, WaitClosed
<1>3. CASE WLock(p) \/ WWrite(p) \/ WFail(p) \/ WSent(p)
  BY <1>1, <1>3 DEF WLock, WWrite, WFail, WSent, WriteReturn
<1>4. CASE ReadEnds(p) /\ pc[p] \notin InClose
  BY <1>4 DEF ReadEnds
<1>5. CASE /\ ReadPing(p) \/ ReadPong(p) \/ ReadBad(p) \/ ReadUnmasked(p)
           /\ pc[p] \notin InClose
  BY <1>5 DEF ReadPing, ReadPong, ReadBad, ReadUnmasked, Receive, StartWrite
<1>6. CASE ReadClose(p) /\ pc[p] \notin InClose
  BY <1>6 DEF ReadClose, Receive, StartWrite
<1>7. CASE ReadCas(p) \/ Fin(p)
  BY <1>7 DEF ReadCas, Fin
<1>8. CASE p = CloseGo /\ (HsLock \/ HsDrain \/ HsSkip)
  BY <1>8 DEF HsLock, HsDrain, HsSkip, Receive
<1>9. CASE p = Reader /\ (RdLock \/ RdHead \/ RdBody \/ RdTooBig)
  BY <1>9 DEF RdLock, RdHead, RdBody, RdTooBig, Receive, StartWrite
<1>10. CASE MLock(p) \/ PingWait(p)
  BY <1>10 DEF MLock, PingWait, StartWrite
<1>. QED
  BY <1>2, <1>3, <1>4, <1>5, <1>6, <1>7, <1>8, <1>9, <1>10
     DEF NativeStep, ReadLoop, RdBodyEnds

LEMMA NativeWait ==
  ASSUME TypeInv, WaitInv, NEW p \in Procs, NativeStep(p)
  PROVE  /\ WaitInv' /\ (Shut => Shut') /\ (WriterShut => WriterShut')
         /\ CloseEnd(p) => Shut'
         /\ CloseWriter(p) \/ CloseEnd(p) => WriterShut'
<1>1. ASSUME Calm, CloseWriter(p) \/ CloseEnd(p) PROVE FALSE
  <2>1. AfterClose(p) \notin InClose
    BY DEF AfterClose, Returns, InClose, TypeInv, TypeOK, NativeTypeOK, ProcsOK
  <2>2. /\ pc[p] \in InClose
        /\ \/ pc[p] = "closeWait" /\ pc'[p] = "closeRead"
           \/ pc'[p] = AfterClose(p)
    BY <1>1 DEF CloseWriter, CloseEnd, Goto, InClose, TypeInv, TypeOK,
                NativeTypeOK, ProcsOK
  <2>. QED
    BY <1>1, <2>1, <2>2 DEF Calm, InClose
<1>. QED
  BY <1>1, NativeCalm, CalmKeeps, CloseKeeps

\* writeFrameMu is released by whoever leaves writeFrame.
LEMMA NativeFrameHeld ==
  ASSUME TypeInv, WaitInv, FrameHeld, NEW p \in Procs, NativeStep(p)
  PROVE  FrameHeld'
<1>. USE DEF TypeInv, TypeOK, NativeTypeOK, ProcsOK, InFrame, Goto
<1>1. ASSUME pc[p] \notin InFrame, writeFrameMu' => writeFrameMu
      PROVE  FrameHeld'
  BY <1>1, NativeWait, NativeLocal DEF FrameHeld
<1>2. CASE CloseWriter(p) \/ CloseEnd(p)
  BY <1>2, NativeWait DEF FrameHeld
<1>3. CASE WLock(p)
  <2>1. pc[p] \notin InFrame /\ (writeFrameMu' = writeFrameMu \/ pc'[p] \in InFrame)
    BY <1>3 DEF WLock
  <2>. QED
    BY <1>1, <2>1 DEF FrameHeld
<1>4. CASE WWrite(p)
  <2>1. ~writeFrameMu' \/ pc'[p] \in InFrame
    BY <1>4 DEF WWrite
  <2>. QED
    BY <2>1 DEF FrameHeld
<1>5. CASE WFail(p) \/ WSent(p)
  BY <1>5 DEF WFail, WSent, FrameHeld
<1>6. CASE CloseBegin(p) \/ WaitClosed(p)
  BY <1>1, <1>6 DEF CloseBegin, WaitClosed
<1>7. CASE ReadLoop(p)
  <2>1. writeFrameMu' = writeFrameMu /\ pc[p] \notin InFrame
    BY <1>7 DEF ReadLoop, ReadEnds, ReadPing, ReadPong, ReadBad, ReadUnmasked,
                ReadClose
  <2>. QED
    BY <1>1, <2>1
<1>8. CASE ReadCas(p) \/ Fin(p) \/ MLock(p) \/ PingWait(p)
  BY <1>1, <1>8 DEF ReadCas, Fin, MLock, PingWait
<1>9. CASE p = CloseGo /\ (HsLock \/ HsDrain \/ HsSkip)
  BY <1>1, <1>9 DEF HsLock, HsDrain, HsSkip
<1>10. CASE p = Reader /\ (RdLock \/ RdHead \/ RdBody \/ RdTooBig \/ RdBodyEnds)
  BY <1>1, <1>10 DEF RdLock, RdHead, RdBody, RdTooBig, RdBodyEnds, ReadEnds
<1>. QED
  BY <1>2, <1>3, <1>4, <1>5, <1>6, <1>7, <1>8, <1>9, <1>10 DEF NativeStep

\* msgMu is a writer's from its lock to its deferred unlock.
LEMMA NativeMessageHeld ==
  ASSUME TypeInv, StreamInv, MessageHeld, NEW p \in Procs, NativeStep(p)
  PROVE  MessageHeld'
<1>. USE DEF TypeInv, TypeOK, NativeTypeOK, ProcsOK, InMessageLock, WriteLabels, Goto
<1>1. CASE p \notin Writers
  <2>1. msgMu' = msgMu
    <3>1. CASE Fin(p)
      BY <1>1, <3>1 DEF Fin, FlagsOK
    <3>2. CASE ReadLoop(p)
      BY <3>2 DEF ReadLoop, ReadEnds, ReadPing, ReadPong, ReadBad, ReadUnmasked,
                  ReadClose
    <3>. QED
      BY <1>1, <3>1, <3>2 DEF NativeStep, CloseBegin, CloseWriter, CloseEnd,
         WaitClosed, WLock, WWrite, WFail, WSent, ReadCas, HsLock, HsDrain, HsSkip,
         RdLock, RdHead,
         RdBody, RdTooBig, RdBodyEnds, ReadEnds, PingWait
  <2>2. \A w \in Writers : /\ w \in Procs /\ pc'[w] = pc[w]
                           /\ then'[w] = then[w] /\ frame'[w] = frame[w]
    BY <1>1, NativeLocal DEF Procs, Callers
  <2>. QED
    BY <2>1, <2>2 DEF MessageHeld
<1>2. CASE p \in Writers
  <2>0. p \notin {Reader, CloseGo, Timer} /\ p \notin Pingers
    BY <1>2, ProcsAssumption
  <2>1. pc[p] \notin {"rdHead", "hsRead", "rdCas"}
    BY <2>0 DEF StreamInv, OtherInv
  <2>2. \A w \in Writers \ {p} : /\ w \in Procs /\ pc'[w] = pc[w]
                                 /\ then'[w] = then[w] /\ frame'[w] = frame[w]
    BY NativeLocal DEF Procs, Callers
  <2>3. /\ pc'[p] \in WriteLabels =>
             frame'[p][1] = "data" /\ then'[p] = "fin" /\ pc'[p] # "wSent"
        /\ \/ ~msgMu' \/ pc'[p] \in InMessageLock
           \/ pc[p] \notin InMessageLock /\ msgMu' = msgMu
    <3>1. CASE CloseBegin(p) \/ CloseWriter(p) \/ CloseEnd(p) \/ WaitClosed(p)
      BY <2>0, <3>1 DEF CloseBegin, CloseWriter, CloseEnd, WaitClosed,
                              AfterClose, Returns
    <3>2. CASE WLock(p) \/ WWrite(p) \/ WFail(p) \/ WSent(p)
      <4>1. frame[p][1] = "data" /\ then[p] = "fin" /\ pc[p] # "wSent"
        BY <1>2, <3>2 DEF MessageHeld, WLock, WWrite, WFail, WSent
      <4>. QED
        BY <3>2, <4>1 DEF WLock, WWrite, WFail, WSent, WriteReturn
    <3>3. CASE Fin(p)
      BY <1>2, <2>0, <3>3 DEF Fin
    <3>4. CASE MLock(p)
      BY <3>4 DEF MLock, StartWrite
    <3>. QED
      BY <2>0, <2>1, <3>1, <3>2, <3>3, <3>4 DEF NativeStep, ReadLoop, ReadCas
  <2>. QED
    BY <1>2, <2>2, <2>3 DEF MessageHeld
<1>. QED
  BY <1>1, <1>2

\* Nobody else reads, or releases readMu.
LEMMA OtherReadHeld ==
  ASSUME TypeInv, StreamInv, WaitInv, ReadHeld,
         NEW p \in Procs \ {Reader, CloseGo}, NativeStep(p)
  PROVE  ReadHeld'
<1>. USE DEF TypeInv, TypeOK, NativeTypeOK, ProcsOK, FlagsOK, Goto
<1>0. Reader \in Procs /\ CloseGo \in Procs
  BY DEF Procs, Callers
<1>1. pc[p] \notin {"rdHead", "hsRead", "rdCas"}
  BY DEF StreamInv, OtherInv
<1>2. closeReceived' = closeReceived /\ (readMu' = readMu \/ CloseEnd(p))
  <2>1. CASE CloseBegin(p) \/ CloseWriter(p) \/ CloseEnd(p) \/ WaitClosed(p)
    BY <2>1 DEF CloseBegin, CloseWriter, CloseEnd, WaitClosed
  <2>2. CASE WLock(p) \/ WWrite(p) \/ WFail(p) \/ WSent(p)
    BY <2>2 DEF WLock, WWrite, WFail, WSent
  <2>3. CASE Fin(p)
    BY <2>3 DEF Fin
  <2>4. CASE MLock(p) \/ PingWait(p)
    BY <2>4 DEF MLock, PingWait
  <2>. QED
    BY <1>1, <2>1, <2>2, <2>3, <2>4 DEF NativeStep, ReadLoop, ReadCas
<1>3. \A q \in {Reader, CloseGo} : pc'[q] = pc[q] /\ then'[q] = then[q]
  BY <1>0, NativeLocal
<1>4. (Shut => Shut') /\ (CloseEnd(p) => Shut') /\ (closing => closing')
  BY NativeWait, NativeLocal
<1>. QED
  BY <1>2, <1>3, <1>4 DEF ReadHeld, ReleasesReadMu

\* The reader releases readMu on every way out of Read, and before it closes
\* the connection itself.
LEMMA ReaderReadHeld ==
  ASSUME TypeInv, StreamInv, WaitInv, ReadHeld, NativeStep(Reader)
  PROVE  ReadHeld'
<1>. USE DEF TypeInv, TypeOK, NativeTypeOK, ProcsOK, FlagsOK, Goto
<1>0. /\ Reader \in Procs /\ CloseGo \in Procs /\ Reader # CloseGo
      /\ Reader # Timer /\ Reader \notin Writers /\ Reader \notin Pingers
  BY ProcsAssumption DEF Procs, Callers, Reader, CloseGo, Timer
<1>1. /\ Shut => Shut'
      /\ CloseEnd(Reader) => Shut'
      /\ ReleasesReadMu(CloseGo)' <=> ReleasesReadMu(CloseGo)
  <2>1. pc'[CloseGo] = pc[CloseGo] /\ then'[CloseGo] = then[CloseGo]
    BY <1>0, NativeLocal
  <2>. QED
    BY <1>0, <2>1, NativeWait DEF ReleasesReadMu
<1>2. SUFFICES
        /\ \/ ~readMu' \/ Shut' \/ ReleasesReadMu(Reader)'
           \/ (readMu' <=> readMu) /\ ~ReleasesReadMu(Reader)
        /\ pc'[Reader] \in WriteLabels /\ then'[Reader] = "fin" =>
             closing' \/ closeReceived' = "none"
  BY <1>1 DEF ReadHeld
<1>. USE DEF ReleasesReadMu, WriteLabels
<1>3. CASE \/ CloseBegin(Reader) \/ CloseWriter(Reader)
           \/ CloseEnd(Reader) \/ WaitClosed(Reader)
  BY <1>0, <1>1, <1>3 DEF CloseBegin, CloseWriter, CloseEnd, WaitClosed,
                              AfterClose, Returns
<1>. USE DEF StreamInv, ReaderInv, ReadHeld
<1>4. CASE WLock(Reader)
  BY <1>0, <1>4 DEF WLock, WriteReturn
<1>5. CASE WWrite(Reader)
  BY <1>0, <1>5 DEF WWrite, WriteReturn
<1>6. CASE WFail(Reader)
  BY <1>0, <1>6 DEF WFail, WriteReturn
<1>7. CASE WSent(Reader)
  BY <1>0, <1>7 DEF WSent, WriteReturn
<1>8. CASE pc[Reader] \in {"rdHead", "rdBody"} /\ ReadEnds(Reader)
  BY <1>0, <1>8 DEF ReadEnds
<1>9. CASE pc[Reader] = "rdHead" /\ (ReadPing(Reader) \/ ReadPong(Reader))
  BY <1>0, <1>9 DEF ReadPing, ReadPong, StartWrite, Receive
<1>10. CASE pc[Reader] = "rdHead" /\ (ReadBad(Reader) \/ ReadUnmasked(Reader))
  BY <1>0, <1>10 DEF ReadBad, ReadUnmasked, StartWrite, Receive
<1>11. CASE pc[Reader] = "rdHead" /\ ReadClose(Reader)
  BY <1>0, <1>11 DEF ReadClose, StartWrite, Receive
<1>12. CASE ReadCas(Reader) \/ Fin(Reader)
  BY <1>0, <1>12 DEF ReadCas, Fin
<1>13. CASE RdLock
  BY <1>0, <1>13 DEF RdLock
<1>14. CASE RdHead \/ RdBody
  BY <1>0, <1>14 DEF RdHead, RdBody
<1>15. CASE RdTooBig
  BY <1>0, <1>15 DEF RdTooBig, StartWrite, Receive
<1>. QED
  BY <1>0, <1>3, <1>4, <1>5, <1>6, <1>7, <1>8, <1>9, <1>10, <1>11, <1>12, <1>13,
     <1>14, <1>15 DEF NativeStep, ReadLoop, RdBodyEnds

\* The handshake goroutine has claimed the close: writeFrame never closes under
\* it, and it releases readMu before it does so itself.
LEMMA HandshakeReadHeld ==
  ASSUME TypeInv, StreamInv, WaitInv, ReadHeld, NativeStep(CloseGo)
  PROVE  ReadHeld'
<1>. USE DEF TypeInv, TypeOK, NativeTypeOK, ProcsOK, FlagsOK, Goto
<1>0. /\ Reader \in Procs /\ CloseGo \in Procs /\ Reader # CloseGo
      /\ CloseGo # Timer /\ CloseGo \notin Writers /\ CloseGo \notin Pingers
  BY ProcsAssumption DEF Procs, Callers, Reader, CloseGo, Timer
<1>1. pc[CloseGo] \notin {"idle", "cas"}
  BY <1>0 DEF NativeStep, CloseBegin, CloseWriter, CloseEnd, WaitClosed,
     WLock, WWrite, WFail, WSent, ReadLoop, ReadCas, Fin, HsLock, HsDrain, HsSkip
<1>2. closing /\ closing'
  BY <1>0, <1>1, NativeLocal DEF StreamInv, HandshakeInv
<1>3. /\ Shut => Shut'
      /\ CloseEnd(CloseGo) => Shut'
      /\ ReleasesReadMu(Reader)' <=> ReleasesReadMu(Reader)
  <2>1. pc'[Reader] = pc[Reader] /\ then'[Reader] = then[Reader]
    BY <1>0, NativeLocal
  <2>. QED
    BY <1>0, <2>1, NativeWait DEF ReleasesReadMu
<1>4. SUFFICES \/ ~readMu' \/ Shut' \/ ReleasesReadMu(CloseGo)'
               \/ (readMu' <=> readMu) /\ ~ReleasesReadMu(CloseGo)
  BY <1>2, <1>3 DEF ReadHeld
<1>. USE DEF ReleasesReadMu, WriteLabels
<1>5. CASE \/ CloseBegin(CloseGo) \/ CloseWriter(CloseGo)
           \/ CloseEnd(CloseGo) \/ WaitClosed(CloseGo)
  BY <1>0, <1>3, <1>5 DEF CloseBegin, CloseWriter, CloseEnd, WaitClosed, AfterClose
<1>. USE DEF StreamInv, HandshakeInv
<1>6. CASE WLock(CloseGo)
  BY <1>0, <1>6 DEF WLock, WriteReturn
<1>7. CASE WWrite(CloseGo)
  BY <1>0, <1>7 DEF WWrite, WriteReturn
<1>8. CASE WFail(CloseGo)
  BY <1>0, <1>8 DEF WFail, WriteReturn
<1>9. CASE WSent(CloseGo)
  BY <1>0, <1>2, <1>9 DEF WSent, WriteReturn
<1>10. CASE pc[CloseGo] = "hsRead" /\ (ReadEnds(CloseGo) \/ ReadUnmasked(CloseGo))
  BY <1>0, <1>10 DEF ReadEnds, ReadUnmasked
<1>11. CASE pc[CloseGo] = "hsRead" /\ (ReadPing(CloseGo) \/ ReadPong(CloseGo))
  BY <1>0, <1>11 DEF ReadPing, ReadPong, StartWrite
<1>12. CASE pc[CloseGo] = "hsRead" /\ (ReadBad(CloseGo) \/ ReadClose(CloseGo))
  BY <1>0, <1>12 DEF ReadBad, ReadClose, StartWrite
<1>13. CASE ReadCas(CloseGo) \/ Fin(CloseGo)
  BY <1>0, <1>2, <1>13 DEF ReadCas, Fin
<1>14. CASE HsLock
  BY <1>0, <1>14 DEF HsLock
<1>15. CASE HsDrain \/ HsSkip
  BY <1>0, <1>15 DEF HsDrain, HsSkip
<1>. QED
  BY <1>0, <1>5, <1>6, <1>7, <1>8, <1>9, <1>10, <1>11, <1>12, <1>13, <1>14,
     <1>15 DEF NativeStep, ReadLoop

\* The wrapper, the clock and the peer take and release no lock, and move no
\* goroutine that is inside one.
LEMMA RestHold ==
  ASSUME TypeInv, StreamInv, HoldInv,
         \/ Call \/ Clock \/ Peer
         \/ \E p \in Procs : CasClosing(p)
         \/ Publish \/ Signal
         \/ \E c \in Closers : CloseVerdict(c) \/ CloseForce(c) \/ CloseAwait(c)
  PROVE  HoldInv'
<1>. USE DEF TypeInv, TypeOK, NativeTypeOK, ProcsOK, Goto
<1>. DEFINE Outside == {"idle", "cas", "select", "await", "publish", "signal"}
            Away == {"rdLock", "mLock", "ret", "wLock", "cas", "select", "close",
                     "waitClosed", "signal", "done"}
<1>. DEFINE Apart ==
              /\ UNCHANGED <<lockVars, closed, closeReceived>>
              /\ closing => closing'
              /\ \A q \in Procs :
                   \/ pc'[q] = pc[q] /\ then'[q] = then[q] /\ frame'[q] = frame[q]
                   \/ /\ pc[q] \in Outside /\ pc'[q] \in Away
                      /\ q \in Writers \cup {Reader} => pc'[q] # "wLock"
<1>0. /\ Reader \in Procs /\ CloseGo \in Procs /\ Reader # CloseGo
      /\ Timer \in Procs /\ Timer \notin Writers /\ Timer # Reader
      /\ Closers \subseteq Procs /\ Writers \subseteq Procs
      /\ Pingers \subseteq Procs /\ Pingers \cap Writers = {}
      /\ Closers \cap Writers = {} /\ CloseGo \notin Writers
      /\ Reader \notin Closers /\ Reader \notin Pingers
  BY ProcsAssumption DEF Procs, Callers, Reader, CloseGo, Timer
<1>1. Apart
  <2>1. ASSUME NEW c \in Closers, NEW s \in Codes,
               CloseInvalid(c, s) \/ CloseCancelled(c, s) \/ CloseCall(c, s)
        PROVE  Apart
    BY <1>0, <2>1 DEF CloseInvalid, CloseCancelled, CloseCall, CloseGoStarted
  <2>2. CASE Read
    BY <1>0, <2>2 DEF Read
  <2>3. ASSUME NEW w \in Writers, Write(w) PROVE Apart
    BY <1>0, <2>3 DEF Write
  <2>4. ASSUME NEW p \in Pingers, Ping(p) PROVE Apart
    BY <1>0, <2>4 DEF Ping, StartWrite
  <2>5. CASE Clock
    BY <1>0, <2>5 DEF Clock, Cancel, Expire, Fire
  <2>6. CASE Peer
    BY <2>6 DEF Peer, PeerSend, PeerRest, PeerClose, PeerPong, PeerGone, PeerStall
  <2>7. ASSUME NEW p \in Procs, CasClosing(p) PROVE Apart
    BY <1>0, <2>7 DEF CasClosing, StartWrite
  <2>8. CASE Publish \/ Signal
    BY <1>0, <2>8 DEF Publish, Signal
  <2>9. ASSUME NEW c \in Closers, CloseVerdict(c) \/ CloseForce(c) \/ CloseAwait(c)
        PROVE  Apart
    BY <1>0, <2>9 DEF CloseVerdict, CloseForce, CloseAwait
  <2>. QED
    BY <2>1, <2>2, <2>3, <2>4, <2>5, <2>6, <2>7, <2>8, <2>9 DEF Call
<1>2. Calm
  BY <1>1 DEF Calm, InClose
<1>3. WaitInv' /\ (Shut => Shut') /\ (WriterShut => WriterShut')
  BY <1>2, CalmKeeps DEF HoldInv
<1>4. FrameHeld'
  BY <1>1, <1>3 DEF HoldInv, FrameHeld, InFrame
<1>5. MessageHeld'
  BY <1>0, <1>1 DEF HoldInv, MessageHeld, InMessageLock, WriteLabels
<1>6. ReadHeld'
  BY <1>0, <1>1, <1>3 DEF HoldInv, ReadHeld, ReleasesReadMu, WriteLabels
<1>. QED
  BY <1>3, <1>4, <1>5, <1>6 DEF HoldInv

\* Every step of the specification keeps the invariant.
LEMMA NextHold == TypeInv /\ StreamInv /\ HoldInv /\ [Next]_vars => HoldInv'
<1>. SUFFICES ASSUME TypeInv, StreamInv, HoldInv, [Next]_vars PROVE HoldInv'
  OBVIOUS
<1>1. ASSUME NEW p \in Procs, NativeStep(p)
      PROVE  HoldInv'
  <2>1. WaitInv' /\ FrameHeld' /\ MessageHeld'
    BY <1>1, NativeWait, NativeFrameHeld, NativeMessageHeld DEF HoldInv
  <2>2. ReadHeld'
    BY <1>1, OtherReadHeld, ReaderReadHeld, HandshakeReadHeld DEF HoldInv
  <2>. QED
    BY <2>1, <2>2 DEF HoldInv
<1>2. CASE UNCHANGED vars
  <2>1. WaitInv' /\ (Shut => Shut') /\ (WriterShut => WriterShut')
    BY <1>2 DEF vars, nativeVars, HoldInv, WaitInv, Shut, WriterShut
  <2>. QED
    BY <1>2, <2>1 DEF vars, nativeVars, HoldInv, FrameHeld, MessageHeld,
                      ReadHeld, ReleasesReadMu
<1>. QED
  BY <1>1, <1>2, RestHold DEF Next, Step

\* mu.lock, Conn.close, handleControl, writeFrame: for any number of closers,
\* writers and pingers, nobody waits for a lock that no goroutine is going to
\* release, and Conn.close never waits for its own goroutine.
THEOREM EveryLockHasHolder == Spec => []LocksHaveHolders
<1>1. Spec => []HoldInv
  BY InitHold, NextHold, StreamAlways, PTL DEF Spec
<1>2. HoldInv => LocksHaveHolders
  BY DEF HoldInv, WaitInv, FrameHeld, MessageHeld, ReadHeld, Shut, WriterShut,
         InClose, InFrame, InMessageLock, WriteLabels, LocksHaveHolders
<1>. QED
  BY <1>1, <1>2, PTL
=============================================================================

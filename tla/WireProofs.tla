----------------------------- MODULE WireProofs -----------------------------
(***************************************************************************)
(* What goes over the wire, for any number of writers, pingers, closers    *)
(* and frames of the peer: a close frame is the last frame a connection    *)
(* writes; one goroutine at a time parses what it reads; and a message is  *)
(* put together from its own chunks.                                       *)
(***************************************************************************)
EXTENDS ConnectionProofs, SequenceTheorems

USE DEF flagVars, lockVars, procVars, ctxVars, readVars, peerVars, wireVars,
        wrapVars

-----------------------------------------------------------------------------
(* A close frame is the last frame.  The property alone is not inductive:   *)
(* between the flush of a close frame and the assignment of closeSentErr    *)
(* nothing but writeFrameMu keeps other goroutines out.                     *)

\* The labels inside the critical section of writeFrame.
InFrame == {"wWrite", "wSent"}

\* The labels of a goroutine that has closed the connection and still has to
\* leave Conn.close.
InClose == {"closeWait", "closeRead"}

\* writeFrameMu is held whenever a goroutine is inside writeFrame on an open
\* connection, and at most one is.  (A reader that closes the connection from
\* inside writeFrame may release the lock of another goroutine afterwards.)
\* A close frame on the wire is the last frame there, and is recorded in
\* closeSentErr or about to be.
CloseFrameInv ==
  /\ \A p \in Procs : pc[p] \in InFrame => writeFrameMu \/ closed
  /\ \A p \in Procs : pc[p] \in InClose => closed
  /\ \A p, q \in Procs : pc[p] \in InFrame /\ pc[q] \in InFrame => p = q
  /\ \A i \in DOMAIN outbox :
       outbox[i][1] = "close" =>
         /\ i = Len(outbox)
         /\ closeSent \/ \E p \in Procs : pc[p] = "wSent"

\* A step that writes nothing, and with which nobody enters or leaves
\* writeFrame.
Quiet ==
  /\ outbox' = outbox /\ closeSent' = closeSent
  /\ writeFrameMu => writeFrameMu' \/ closed'
  /\ closed => closed'
  /\ \A q \in Procs : \/ pc'[q] = pc[q]
                      \/ /\ pc[q] \notin InFrame /\ pc'[q] \notin InFrame
                         /\ pc'[q] \in InClose => closed'

\* A fresh connection has written nothing.
LEMMA InitFrame == Init => CloseFrameInv
BY DEF Init, NativeInit, CloseFrameInv, InFrame, InClose

\* Quiet steps keep the invariant.
LEMMA QuietKeeps ==
  ASSUME CloseFrameInv, Quiet
  PROVE  CloseFrameInv'
<1>1. \A p \in Procs : pc'[p] \in InFrame => pc'[p] = pc[p]
  BY DEF Quiet
<1>2. \A p \in Procs : pc[p] = "wSent" => pc'[p] = "wSent"
  BY DEF Quiet, InFrame
<1>3. \A p \in Procs : /\ pc'[p] \in InFrame => writeFrameMu' \/ closed'
                       /\ pc'[p] \in InClose => closed'
  BY <1>1 DEF CloseFrameInv, Quiet
<1>4. \A p, q \in Procs : pc'[p] \in InFrame /\ pc'[q] \in InFrame => p = q
  BY <1>1 DEF CloseFrameInv
<1>5. \A i \in DOMAIN outbox' :
        outbox'[i][1] = "close" =>
          /\ i = Len(outbox')
          /\ closeSent' \/ \E p \in Procs : pc'[p] = "wSent"
  BY <1>2 DEF CloseFrameInv, Quiet
<1>. QED  BY <1>3, <1>4, <1>5 DEF CloseFrameInv

\* writeFrame: taking the lock, writing, failing and recording a close frame.
LEMMA WriteKeeps ==
  ASSUME TypeInv, CloseFrameInv, NEW p \in Procs,
         WLock(p) \/ WWrite(p) \/ WFail(p) \/ WSent(p)
  PROVE  CloseFrameInv'
<1>. USE DEF TypeInv, TypeOK, NativeTypeOK
<1>1. /\ \A q \in Procs \ {p} : pc'[q] = pc[q]
      /\ then[p] \notin InFrame
  BY DEF ProcsOK, WLock, WWrite, WFail, WSent, WriteReturn, Goto, InFrame, Returns
<1>6. closed' = closed /\ \A q \in Procs : pc'[q] \in InClose => closed'
  <2>1. closed' = closed /\ pc'[p] \notin InClose
    BY DEF ProcsOK, WLock, WWrite, WFail, WSent, WriteReturn, Goto, InClose, Returns
  <2>. QED  BY <1>1, <2>1 DEF CloseFrameInv
<1>2. CASE WLock(p)
  <2>1. CASE /\ ~writeFrameMu /\ ~closed /\ writeFrameMu'
             /\ pc' = [pc EXCEPT ![p] = "wWrite"]
    <3>1. \A q \in Procs : pc[q] \notin InFrame
      BY <2>1 DEF CloseFrameInv
    <3>2. \A q \in Procs : pc'[q] \in InFrame => q = p
      BY <1>1, <3>1
    <3>3. UNCHANGED <<outbox, closeSent>>
      BY <1>2 DEF WLock
    <3>4. \A q \in Procs : pc[q] # "wSent"
      BY <3>1 DEF InFrame
    <3>. QED  BY <1>6, <2>1, <3>2, <3>3, <3>4 DEF CloseFrameInv
  <2>2. CASE \E e \in Errors : WriteReturn(p, e) /\ UNCHANGED writeFrameMu
    <3>1. pc[p] \notin InFrame /\ pc'[p] \notin InFrame
      BY <1>1, <1>2, <2>2 DEF ProcsOK, WLock, WriteReturn, Goto, InFrame
    <3>. QED  BY <1>1, <1>2, <1>6, <2>2, <3>1, QuietKeeps DEF Quiet, WLock
  <2>. QED  BY <1>2, <2>1, <2>2 DEF WLock, Goto, Errors
<1>3. CASE WWrite(p)
  <2>1. \A q \in Procs : pc[q] \in InFrame => q = p
    BY <1>3 DEF WWrite, CloseFrameInv, InFrame
  <2>2. \A i \in DOMAIN outbox : outbox[i][1] # "close"
    BY <1>3, <2>1 DEF WWrite, CloseFrameInv, InFrame
  <2>3. /\ outbox \in Seq(Frame) /\ frame[p] \in Frame
        /\ outbox' = Append(outbox, frame[p]) /\ closeSent' = closeSent
    BY <1>3 DEF WWrite, WireOK, ProcsOK
  <2>4. \A i \in DOMAIN outbox' :
          outbox'[i][1] = "close" => i = Len(outbox') /\ frame[p][1] = "close"
    BY <2>2, <2>3
  <2>5. CASE frame[p][1] = "close"
    <3>1. pc' = [pc EXCEPT ![p] = "wSent"] /\ UNCHANGED writeFrameMu
      BY <1>3, <2>5 DEF WWrite, Goto
    <3>2. pc'[p] = "wSent" /\ (writeFrameMu' \/ closed')
      BY <1>3, <1>6, <3>1 DEF WWrite, CloseFrameInv, InFrame, ProcsOK
    <3>3. \A q \in Procs : pc'[q] \in InFrame => q = p
      BY <1>1, <2>1
    <3>. QED  BY <1>6, <2>4, <3>2, <3>3 DEF CloseFrameInv
  <2>6. CASE frame[p][1] # "close"
    <3>1. pc'[p] \notin InFrame
      BY <1>1, <1>3, <2>6 DEF WWrite, WriteReturn, Goto, InFrame, ProcsOK
    <3>2. \A q \in Procs : pc'[q] \notin InFrame
      BY <1>1, <2>1, <3>1
    <3>. QED  BY <1>6, <2>4, <2>6, <3>2 DEF CloseFrameInv
  <2>. QED  BY <2>5, <2>6
<1>4. CASE WFail(p)
  <2>1. \A q \in Procs : pc[q] \in InFrame => q = p
    BY <1>4 DEF WFail, CloseFrameInv, InFrame
  <2>2. pc'[p] \notin InFrame
    BY <1>1, <1>4 DEF WFail, WriteReturn, Goto, InFrame, ProcsOK
  <2>3. \A q \in Procs : pc'[q] \notin InFrame
    BY <1>1, <2>1, <2>2
  <2>4. \A q \in Procs : pc[q] # "wSent"
    BY <1>4, <2>1 DEF WFail, InFrame
  <2>. QED  BY <1>4, <1>6, <2>3, <2>4 DEF CloseFrameInv, WFail
<1>5. CASE WSent(p)
  <2>1. \A q \in Procs : pc[q] \in InFrame => q = p
    BY <1>5 DEF WSent, CloseFrameInv, InFrame
  <2>2. pc'[p] \notin InFrame
    BY <1>1, <1>5 DEF WSent, WriteReturn, Goto, InFrame, ProcsOK
  <2>3. \A q \in Procs : pc'[q] \notin InFrame
    BY <1>1, <2>1, <2>2
  <2>. QED  BY <1>5, <1>6, <2>3 DEF CloseFrameInv, WSent
<1>. QED  BY <1>2, <1>3, <1>4, <1>5

\* Every other step inside the library is quiet.
LEMMA NativeStepQuiet ==
  ASSUME TypeInv, CloseFrameInv, NEW p \in Procs, NativeStep(p)
  PROVE  WLock(p) \/ WWrite(p) \/ WFail(p) \/ WSent(p) \/ Quiet
<1>. USE DEF TypeInv, TypeOK, NativeTypeOK, ProcsOK, InFrame, InClose, Quiet, Goto
<1>1. then[p] \notin InFrame \cup InClose /\ AfterClose(p) \notin InFrame \cup InClose
  BY DEF Returns, AfterClose
<1>2. CASE CloseBegin(p) \/ CloseWriter(p) \/ CloseEnd(p) \/ WaitClosed(p)
  <2>1. pc[p] \in InClose => closed
    BY DEF CloseFrameInv
  <2>2. CASE CloseBegin(p)
    BY <1>1, <2>2 DEF FlagsOK, CloseBegin
  <2>3. CASE CloseWriter(p)
    BY <1>1, <2>1, <2>3 DEF FlagsOK, CloseWriter
  <2>4. CASE CloseEnd(p)
    BY <1>1, <2>1, <2>4 DEF FlagsOK, CloseEnd
  <2>5. CASE WaitClosed(p)
    BY <1>1, <2>5 DEF WaitClosed
  <2>. QED  BY <1>2, <2>2, <2>3, <2>4, <2>5
<1>3. CASE ReadEnds(p) /\ pc[p] \notin InFrame
  BY <1>3 DEF ReadEnds
<1>4. CASE (ReadPing(p) \/ ReadPong(p) \/ ReadBad(p) \/ ReadUnmasked(p))
           /\ pc[p] \notin InFrame
  BY <1>4 DEF ReadPing, ReadPong, ReadBad, ReadUnmasked, Receive, StartWrite
<1>5. CASE ReadClose(p) /\ pc[p] \notin InFrame
  BY <1>5 DEF ReadClose, Receive, StartWrite
<1>6. CASE ReadCas(p) \/ Fin(p)
  BY <1>6 DEF ReadCas, Fin
<1>7. CASE p = CloseGo /\ (HsLock \/ HsDrain \/ HsSkip)
  BY <1>7 DEF HsLock, HsDrain, HsSkip, Receive
<1>8. CASE p = Reader /\ (RdLock \/ RdHead \/ RdBody \/ RdTooBig)
  BY <1>8 DEF RdLock, RdHead, RdBody, RdTooBig, Receive, StartWrite
<1>9. CASE MLock(p) \/ PingWait(p)
  BY <1>9 DEF MLock, PingWait, StartWrite
<1>. QED
  BY <1>2, <1>3, <1>4, <1>5, <1>6, <1>7, <1>8, <1>9
     DEF NativeStep, ReadLoop, RdBodyEnds

\* The wrapper, the clock and the peer are quiet.
LEMMA RestQuiet ==
  ASSUME TypeInv,
         \/ Call \/ Clock \/ Peer
         \/ \E p \in Procs : CasClosing(p)
         \/ Publish \/ Signal
         \/ \E c \in Closers : CloseVerdict(c) \/ CloseForce(c) \/ CloseAwait(c)
  PROVE  Quiet
<1>. USE DEF TypeInv, TypeOK, NativeTypeOK, ProcsOK, InFrame, InClose, Quiet, Goto
<1>1. ASSUME NEW c \in Closers, NEW s \in Codes,
             CloseInvalid(c, s) \/ CloseCancelled(c, s) \/ CloseCall(c, s)
      PROVE  Quiet
  BY <1>1 DEF CloseInvalid, CloseCancelled, CloseCall, CloseGoStarted
<1>2. CASE Read \/ (\E w \in Writers : Write(w)) \/ (\E p \in Pingers : Ping(p))
  <2>1. PICK p \in Procs : /\ pc[p] = "idle"
                           /\ \E l \in {"rdLock", "mLock", "ret", "wLock"} :
                                pc' = [pc EXCEPT ![p] = l]
    BY <1>2 DEF Read, Write, Ping, StartWrite, Procs, Callers
  <2>2. UNCHANGED <<outbox, closeSent, writeFrameMu, closed>>
    BY <1>2 DEF Read, Write, Ping
  <2>. QED  BY <2>1, <2>2
<1>3. CASE Clock
  BY <1>3 DEF Clock, Cancel, Expire, Fire
<1>4. CASE Peer
  BY <1>4 DEF Peer, PeerSend, PeerRest, PeerClose, PeerPong, PeerGone, PeerStall
<1>5. CASE \E p \in Procs : CasClosing(p)
  BY <1>5 DEF CasClosing, StartWrite
<1>6. CASE Publish \/ Signal
  BY <1>6 DEF Publish, Signal
<1>7. CASE \E c \in Closers : CloseVerdict(c) \/ CloseForce(c) \/ CloseAwait(c)
  BY <1>7 DEF CloseVerdict, CloseForce, CloseAwait
<1>. QED  BY <1>1, <1>2, <1>3, <1>4, <1>5, <1>6, <1>7 DEF Call

\* Every step of the specification keeps the invariant.
LEMMA NextFrame == TypeInv /\ CloseFrameInv /\ [Next]_vars => CloseFrameInv'
<1>. SUFFICES ASSUME TypeInv, CloseFrameInv, [Next]_vars PROVE CloseFrameInv'
  OBVIOUS
<1>1. ASSUME NEW p \in Procs, NativeStep(p)
      PROVE  CloseFrameInv'
  BY <1>1, NativeStepQuiet, WriteKeeps, QuietKeeps
<1>2. CASE UNCHANGED vars
  BY <1>2, QuietKeeps DEF vars, nativeVars, Quiet
<1>. QED  BY <1>1, <1>2, RestQuiet, QuietKeeps DEF Next, Step

\* writeFrame, Conn.Close, handleControl, writeError: whoever closes first and
\* however many goroutines write, nothing follows a close frame on the wire.
THEOREM CloseFrameIsLast == Spec => []NothingAfterClose
<1>1. Spec => [](TypeInv /\ CloseFrameInv)
  BY InitType, NextType, InitFrame, NextFrame, PTL DEF Spec
<1>2. CloseFrameInv => NothingAfterClose
  BY DEF CloseFrameInv, NothingAfterClose
<1>. QED  BY <1>1, <1>2, PTL

-----------------------------------------------------------------------------
(* One goroutine at a time parses the stream.  The locks do not say so by   *)
(* themselves: a reader on its way out may release readMu while the         *)
(* handshake holds it, which is harmless only because it never reads again. *)

\* The labels of writeFrame.
WriteLabels == {"wLock", "wWrite", "wSent"}

\* Nobody but the reader and the handshake goroutine runs readLoop.
OtherInv ==
  \A p \in Procs \ {Reader, CloseGo} :
    /\ pc[p] \notin {"rdHead", "hsRead", "rdCas"}
    /\ then[p] \notin {"rdHead", "hsRead", "rdCas"}

\* Where the reader can be: reading, as long as it has met no error, or on its
\* way out of Read.  It writes pongs while reading, close frames after that.
ReaderInv ==
  /\ err[Reader] = "nil" =>
       \/ pc[Reader] \in {"idle", "rdLock", "rdHead", "rdLock2", "rdBody",
                          "rdLock3", "fin"}
       \/ /\ pc[Reader] \in {"wLock", "wWrite"} /\ then[Reader] = "rdHead"
          /\ frame[Reader][1] # "close"
  /\ err[Reader] # "nil" =>
       \/ pc[Reader] \in {"ret", "fin", "rdCas"}
       \/ /\ pc[Reader] \in {"close", "closeWait", "closeRead"}
          /\ then[Reader] \in {"rdCas", "fin"}
       \/ /\ pc[Reader] \in WriteLabels /\ then[Reader] \in {"rdCas", "fin"}
          /\ frame[Reader][1] = "close"

\* Where the handshake goroutine can be, and what it writes on its way.
HandshakeInv ==
  /\ pc[CloseGo] \in {"idle", "cas", "waitClosed", "hsLock", "hsDrain",
                      "hsRead", "rdCas", "fin", "close", "closeWait", "closeRead",
                      "publish", "signal", "done"} \cup WriteLabels
  /\ pc[CloseGo] \in WriteLabels =>
       \/ then[CloseGo] = "hsLock" /\ frame[CloseGo][1] = "close"
       \/ then[CloseGo] = "hsRead" /\ frame[CloseGo][1] # "close"
       \/ then[CloseGo] = "fin"    /\ frame[CloseGo][1] = "close"
  /\ pc[CloseGo] \notin {"idle", "cas"} => closing

\* The handshake goroutine is about to read.
Awaiting ==
  \/ pc[CloseGo] \in {"hsLock", "hsDrain", "hsRead"}
  \/ pc[CloseGo] \in WriteLabels /\ then[CloseGo] = "hsRead"

\* Between a lock of readMu and its unlock: the reader ...
Reading ==
  /\ err[Reader] = "nil"
  /\ pc[Reader] \in {"rdHead", "rdBody", "fin"} \cup WriteLabels

\* ... and the handshake goroutine.
Handshaking ==
  \/ pc[CloseGo] \in {"hsDrain", "hsRead", "rdCas", "fin"}
  \/ pc[CloseGo] \in WriteLabels /\ then[CloseGo] # "hsLock"

LockInv ==
  /\ Awaiting => closeSent \/ closed
  /\ Reading => readMu
  /\ Handshaking => readMu \/ err[Reader] # "nil"
  /\ ~(Reading /\ Handshaking)

StreamInv == OtherInv /\ ReaderInv /\ HandshakeInv /\ LockInv

\* A goroutine inside the library changes no one else's place or error, and
\* the close flags and the status received are never taken back.
LEMMA NativeLocal ==
  ASSUME TypeInv, NEW p \in Procs, NativeStep(p)
  PROVE  /\ \A q \in Procs \ {p} : /\ pc'[q] = pc[q]
                                   /\ err'[q] = err[q]
                                   /\ then'[q] = then[q]
                                   /\ frame'[q] = frame[q]
         /\ closed => closed'
         /\ closing => closing'
         /\ closeSent => closeSent'
         /\ code' = code
         /\ closeReceived # "none" => closeReceived' = closeReceived
<1>. USE DEF TypeInv, TypeOK, NativeTypeOK, ProcsOK, Goto
<1>1. CASE CloseBegin(p) \/ CloseWriter(p) \/ CloseEnd(p) \/ WaitClosed(p)
  BY <1>1 DEF CloseBegin, CloseWriter, CloseEnd, WaitClosed
<1>2. CASE WLock(p) \/ WWrite(p) \/ WFail(p) \/ WSent(p)
  BY <1>2 DEF WLock, WWrite, WFail, WSent, WriteReturn
<1>3. CASE ReadEnds(p)
  BY <1>3 DEF ReadEnds
<1>4. CASE ReadPing(p) \/ ReadPong(p) \/ ReadBad(p) \/ ReadUnmasked(p)
  BY <1>4 DEF ReadPing, ReadPong, ReadBad, ReadUnmasked, StartWrite, Receive
<1>5. CASE ReadClose(p) \/ ReadCas(p) \/ Fin(p)
  BY <1>5 DEF ReadClose, ReadCas, Fin, StartWrite, Receive
<1>6. CASE p = CloseGo /\ (HsLock \/ HsDrain \/ HsSkip)
  BY <1>6 DEF HsLock, HsDrain, HsSkip, Receive
<1>7. CASE p = Reader /\ (RdLock \/ RdHead \/ RdBody \/ RdTooBig)
  BY <1>7 DEF RdLock, RdHead, RdBody, RdTooBig, StartWrite, Receive
<1>8. CASE MLock(p) \/ PingWait(p)
  BY <1>8 DEF MLock, PingWait, StartWrite
<1>. QED
  BY <1>1, <1>2, <1>3, <1>4, <1>5, <1>6, <1>7, <1>8
     DEF NativeStep, ReadLoop, RdBodyEnds


\* A fresh connection has no goroutine inside it.
LEMMA InitStream == Init => StreamInv
BY ProcsAssumption
   DEF Init, NativeInit, StreamInv, OtherInv, ReaderInv, HandshakeInv, LockInv,
       Awaiting, Reading, Handshaking, WriteLabels, Procs, Callers, Reader, CloseGo

\* A step that leaves the reader and the handshake goroutine where they are,
\* releases no lock and takes no flag back.
LEMMA StreamOther ==
  ASSUME StreamInv, OtherInv',
         \A q \in {Reader, CloseGo} : /\ pc'[q] = pc[q] /\ err'[q] = err[q]
                                      /\ then'[q] = then[q] /\ frame'[q] = frame[q],
         closing => closing', closed => closed', closeSent => closeSent',
         readMu => readMu'
  PROVE  StreamInv'
BY DEF StreamInv, ReaderInv, HandshakeInv, LockInv, Awaiting, Reading,
       Handshaking

\* Every other goroutine: its unlocks are not of readMu.
LEMMA OtherStream ==
  ASSUME TypeInv, StreamInv, NEW p \in Procs \ {Reader, CloseGo}, NativeStep(p)
  PROVE  StreamInv'
<1>. USE DEF TypeInv, TypeOK, NativeTypeOK, ProcsOK, FlagsOK, Goto
<1>0. Reader \in Procs /\ CloseGo \in Procs
  BY DEF Procs, Callers
<1>1. pc[p] \notin {"rdHead", "hsRead", "rdCas"}
      /\ then[p] \notin {"rdHead", "hsRead", "rdCas"}
  BY DEF StreamInv, OtherInv
<1>2. pc'[p] \notin {"rdHead", "hsRead", "rdCas"}
      /\ then'[p] \notin {"rdHead", "hsRead", "rdCas"}
      /\ (readMu => readMu')
  <2>1. CASE CloseBegin(p) \/ CloseWriter(p) \/ CloseEnd(p) \/ WaitClosed(p)
    BY <1>1, <2>1 DEF CloseBegin, CloseWriter, CloseEnd, WaitClosed, AfterClose
  <2>2. CASE WLock(p) \/ WWrite(p) \/ WFail(p) \/ WSent(p)
    BY <1>1, <2>2 DEF WLock, WWrite, WFail, WSent, WriteReturn
  <2>3. CASE Fin(p)
    BY <1>1, <2>3 DEF Fin
  <2>4. CASE MLock(p) \/ PingWait(p)
    BY <1>1, <2>4 DEF MLock, PingWait, StartWrite
  <2>. QED
    BY <1>1, <2>1, <2>2, <2>3, <2>4 DEF NativeStep, ReadLoop, ReadCas
<1>3. OtherInv'
  BY <1>2, NativeLocal DEF StreamInv, OtherInv
<1>. QED  BY <1>0, <1>2, <1>3, NativeLocal, StreamOther

\* The reader gives readMu up only when it holds it, or for good.
LEMMA ReaderStream ==
  ASSUME TypeInv, StreamInv, NativeStep(Reader)
  PROVE  StreamInv'
<1>. USE DEF TypeInv, TypeOK, NativeTypeOK, ProcsOK, FlagsOK, Goto
<1>0. /\ Reader \in Procs /\ CloseGo \in Procs /\ Reader # CloseGo
      /\ Reader # Timer /\ Reader \notin Writers /\ Reader \notin Pingers
  BY ProcsAssumption DEF Procs, Callers, Reader, CloseGo, Timer
<1>1. OtherInv' /\ HandshakeInv'
  BY <1>0, NativeLocal DEF StreamInv, OtherInv, HandshakeInv
<1>2. /\ Awaiting' = Awaiting /\ Handshaking' = Handshaking
      /\ Awaiting' => closeSent' \/ closed'
  BY <1>0, NativeLocal DEF StreamInv, LockInv, Awaiting, Handshaking
<1>3. SUFFICES /\ ReaderInv'
               /\ Reading' => readMu'
               /\ Handshaking => readMu' \/ err'[Reader] # "nil"
               /\ ~(Reading' /\ Handshaking)
  BY <1>1, <1>2 DEF StreamInv, LockInv
<1>. USE DEF StreamInv, ReaderInv, LockInv, Reading, WriteLabels
<1>4. CASE \/ CloseBegin(Reader) \/ CloseWriter(Reader)
           \/ CloseEnd(Reader) \/ WaitClosed(Reader)
  BY <1>0, <1>4 DEF CloseBegin, CloseWriter, CloseEnd, WaitClosed, AfterClose
<1>5. CASE WLock(Reader)
  BY <1>0, <1>5 DEF WLock, WriteReturn
<1>6. CASE WWrite(Reader)
  BY <1>0, <1>6 DEF WWrite, WriteReturn
<1>7. CASE WFail(Reader)
  BY <1>0, <1>7 DEF WFail, WriteReturn
<1>8. CASE WSent(Reader)
  BY <1>0, <1>8 DEF WSent, WriteReturn
<1>9. CASE pc[Reader] \in {"rdHead", "rdBody"} /\ ReadEnds(Reader)
  BY <1>0, <1>9 DEF ReadEnds, Status, AppStatus
<1>10. CASE pc[Reader] = "rdHead" /\ (ReadPing(Reader) \/ ReadPong(Reader))
  BY <1>0, <1>10 DEF ReadPing, ReadPong, StartWrite
<1>11. CASE pc[Reader] = "rdHead" /\ (ReadBad(Reader) \/ ReadUnmasked(Reader))
  BY <1>0, <1>11 DEF ReadBad, ReadUnmasked, StartWrite
<1>12. CASE pc[Reader] = "rdHead" /\ ReadClose(Reader)
  <2>1. Head(inbox)[2] \in Status
    <3>1. Head(inbox) \in Chunk /\ Head(inbox)[1] = "close"
      BY <1>12, ReceiveType DEF ReadClose
    <3>. QED  BY <3>1, ChunkFacts
  <2>2. Head(inbox)[2] # "nil"
    BY <2>1 DEF Status, AppStatus
  <2>. QED  BY <1>0, <1>12, <2>2 DEF ReadClose, StartWrite
<1>13. CASE ReadCas(Reader)
  BY <1>0, <1>13 DEF ReadCas
<1>14. CASE Fin(Reader)
  BY <1>0, <1>14 DEF Fin
<1>15. CASE RdLock
  BY <1>0, <1>15 DEF RdLock
<1>16. CASE RdHead \/ RdBody
  BY <1>0, <1>16 DEF RdHead, RdBody
<1>17. CASE RdTooBig
  BY <1>0, <1>17 DEF RdTooBig, StartWrite
<1>. QED
  BY <1>0, <1>4, <1>5, <1>6, <1>7, <1>8, <1>9, <1>10, <1>11, <1>12, <1>13,
     <1>14, <1>15, <1>16, <1>17 DEF NativeStep, ReadLoop, RdBodyEnds

\* The handshake goroutine keeps readMu from waitCloseHandshake's lock to its
\* deferred unlock: our close frame is out, so it never echoes the peer's.
LEMMA HandshakeStream ==
  ASSUME TypeInv, StreamInv, NativeStep(CloseGo)
  PROVE  StreamInv'
<1>. USE DEF TypeInv, TypeOK, NativeTypeOK, ProcsOK, FlagsOK, Goto
<1>0. /\ Reader \in Procs /\ CloseGo \in Procs /\ Reader # CloseGo
      /\ CloseGo # Timer /\ CloseGo \notin Writers /\ CloseGo \notin Pingers
  BY ProcsAssumption DEF Procs, Callers, Reader, CloseGo, Timer
<1>1. OtherInv' /\ ReaderInv' /\ Reading' = Reading /\ err'[Reader] = err[Reader]
  BY <1>0, NativeLocal DEF StreamInv, OtherInv, ReaderInv, Reading
<1>2. SUFFICES /\ HandshakeInv'
               /\ Awaiting' => closeSent' \/ closed'
               /\ Reading => readMu'
               /\ Handshaking' => readMu' \/ err[Reader] # "nil"
               /\ ~(Reading /\ Handshaking')
  BY <1>1 DEF StreamInv, LockInv
<1>. USE DEF StreamInv, HandshakeInv, LockInv, Awaiting, Handshaking, WriteLabels
<1>3. CASE \/ CloseBegin(CloseGo) \/ CloseWriter(CloseGo)
           \/ CloseEnd(CloseGo) \/ WaitClosed(CloseGo)
  BY <1>0, <1>3 DEF CloseBegin, CloseWriter, CloseEnd, WaitClosed, AfterClose
<1>4. CASE WLock(CloseGo)
  BY <1>0, <1>4 DEF WLock, WriteReturn
<1>5. CASE WWrite(CloseGo)
  BY <1>0, <1>5 DEF WWrite, WriteReturn
<1>6. CASE WFail(CloseGo)
  BY <1>0, <1>6 DEF WFail, WriteReturn
<1>7. CASE WSent(CloseGo)
  BY <1>0, <1>7 DEF WSent, WriteReturn
<1>8. CASE pc[CloseGo] = "hsRead" /\ (ReadEnds(CloseGo) \/ ReadUnmasked(CloseGo))
  BY <1>0, <1>8 DEF ReadEnds, ReadUnmasked
<1>9. CASE pc[CloseGo] = "hsRead" /\ (ReadPing(CloseGo) \/ ReadPong(CloseGo))
  <2>1. CASE ReadPing(CloseGo)
    BY <1>0, <1>9, <2>1 DEF ReadPing, StartWrite
  <2>2. CASE ReadPong(CloseGo)
    BY <1>0, <1>9, <2>2 DEF ReadPong
  <2>. QED  BY <1>9, <2>1, <2>2
<1>10. CASE pc[CloseGo] = "hsRead" /\ ReadBad(CloseGo)
  BY <1>0, <1>10 DEF ReadBad, StartWrite
<1>11. CASE pc[CloseGo] = "hsRead" /\ ReadClose(CloseGo)
  BY <1>0, <1>11 DEF ReadClose, Receive
<1>12. CASE ReadCas(CloseGo) \/ Fin(CloseGo)
  BY <1>0, <1>12 DEF ReadCas, Fin
<1>13. CASE HsLock
  BY <1>0, <1>13 DEF HsLock
<1>14. CASE HsDrain \/ HsSkip
  BY <1>0, <1>14 DEF HsDrain, HsSkip
<1>. QED
  BY <1>0, <1>3, <1>4, <1>5, <1>6, <1>7, <1>8, <1>9, <1>10, <1>11, <1>12,
     <1>13, <1>14 DEF NativeStep, ReadLoop

\* The wrapper, the clock and the peer take and release no lock.
LEMMA RestStream ==
  ASSUME TypeInv, StreamInv,
         \/ Call \/ Clock \/ Peer
         \/ \E p \in Procs : CasClosing(p)
         \/ Publish \/ Signal
         \/ \E c \in Closers : CloseVerdict(c) \/ CloseForce(c) \/ CloseAwait(c)
  PROVE  StreamInv'
<1>. USE DEF TypeInv, TypeOK, NativeTypeOK, ProcsOK, Goto
<1>0. /\ Reader \in Procs /\ CloseGo \in Procs /\ Reader # CloseGo
      /\ Timer \in Procs /\ Timer # CloseGo /\ Timer # Reader
      /\ Closers \subseteq Procs \ {Reader, CloseGo}
      /\ Writers \subseteq Procs \ {Reader, CloseGo}
      /\ Pingers \subseteq Procs \ {Reader, CloseGo}
  BY ProcsAssumption DEF Procs, Callers, Reader, CloseGo, Timer
<1>1. /\ UNCHANGED <<closed, closeSent, readMu>>
      /\ closing => closing'
  <2>1. CASE Call
    <3>1. ASSUME NEW c \in Closers, NEW s \in Codes,
                 CloseInvalid(c, s) \/ CloseCancelled(c, s) \/ CloseCall(c, s)
          PROVE  UNCHANGED <<closed, closeSent, readMu, closing>>
      BY <3>1 DEF CloseInvalid, CloseCancelled, CloseCall
    <3>2. ASSUME NEW p, Read \/ Write(p) \/ Ping(p)
          PROVE  UNCHANGED <<closed, closeSent, readMu, closing>>
      BY <3>2 DEF Read, Write, Ping
    <3>. QED  BY <2>1, <3>1, <3>2 DEF Call
  <2>2. CASE Clock \/ Peer
    BY <2>2 DEF Clock, Peer, Cancel, Expire, Fire, PeerSend, PeerRest, PeerClose,
                PeerPong, PeerGone, PeerStall
  <2>3. CASE \E p \in Procs : CasClosing(p)
    BY <2>3 DEF CasClosing
  <2>4. CASE \/ Publish \/ Signal
             \/ \E c \in Closers : \/ CloseVerdict(c) \/ CloseForce(c)
                                   \/ CloseAwait(c)
    BY <2>4 DEF Publish, Signal, CloseVerdict, CloseForce, CloseAwait
  <2>. QED  BY <2>1, <2>2, <2>3, <2>4
<1>2. ASSUME NEW c \in Closers,
             \/ \E s \in Codes : CloseInvalid(c, s) \/ CloseCancelled(c, s)
             \/ CloseVerdict(c) \/ CloseForce(c) \/ CloseAwait(c)
      PROVE  StreamInv'
  <2>1. \A q \in Procs \ {c} : /\ pc'[q] = pc[q] /\ err'[q] = err[q]
                               /\ then'[q] = then[q] /\ frame'[q] = frame[q]
    BY <1>0, <1>2 DEF CloseInvalid, CloseCancelled, CloseVerdict, CloseForce,
                      CloseAwait
  <2>2. pc'[c] \in {"ret", "cas"} /\ then'[c] \in {then[c], "ret", "await"}
    BY <1>0, <1>2 DEF CloseInvalid, CloseCancelled, CloseVerdict, CloseForce,
                      CloseAwait
  <2>3. OtherInv'
    BY <1>0, <2>1, <2>2 DEF StreamInv, OtherInv
  <2>. QED  BY <1>0, <1>1, <2>1, <2>3, StreamOther
<1>3. ASSUME NEW c \in Closers, NEW s \in Codes, CloseCall(c, s)
      PROVE  StreamInv'
  <2>1. /\ UNCHANGED <<err, then, frame, closing>>
        /\ \A q \in Procs \ {c, CloseGo} : pc'[q] = pc[q]
        /\ pc'[c] = "select"
        /\ \/ pc'[CloseGo] = pc[CloseGo]
           \/ pc[CloseGo] = "idle" /\ pc'[CloseGo] = "cas"
    BY <1>0, <1>3 DEF CloseCall, CloseGoStarted
  <2>2. OtherInv'
    BY <1>0, <2>1 DEF StreamInv, OtherInv
  <2>. QED
    BY <1>0, <1>1, <2>1, <2>2 DEF StreamInv, ReaderInv, HandshakeInv, LockInv,
       Awaiting, Reading, Handshaking, WriteLabels
<1>4. CASE Read
  <2>1. /\ UNCHANGED <<err, then, frame, closing>>
        /\ \A q \in Procs \ {Reader} : pc'[q] = pc[q]
        /\ pc[Reader] = "idle" /\ pc'[Reader] = "rdLock"
    BY <1>0, <1>4 DEF Read
  <2>. QED
    BY <1>0, <1>1, <2>1 DEF StreamInv, OtherInv, ReaderInv, HandshakeInv, LockInv,
       Awaiting, Reading, Handshaking, WriteLabels
<1>5. ASSUME NEW p \in Writers \cup Pingers, Write(p) \/ Ping(p)
      PROVE  StreamInv'
  <2>1. \A q \in Procs \ {p} : /\ pc'[q] = pc[q] /\ err'[q] = err[q]
                               /\ then'[q] = then[q] /\ frame'[q] = frame[q]
    BY <1>0, <1>5 DEF Write, Ping, StartWrite
  <2>2. /\ pc'[p] \in {"mLock", "ret", "wLock"}
        /\ then'[p] \in {then[p], "pgWait"}
    BY <1>0, <1>5 DEF Write, Ping, StartWrite
  <2>3. OtherInv'
    BY <1>0, <2>1, <2>2 DEF StreamInv, OtherInv
  <2>. QED  BY <1>0, <1>1, <2>1, <2>3, StreamOther
<1>6. CASE Clock \/ Peer
  <2>1. /\ UNCHANGED <<err, then, frame, closing>>
        /\ \A q \in Procs \ {Timer} : pc'[q] = pc[q]
        /\ pc'[Timer] \in {pc[Timer], "close"}
    BY <1>0, <1>6
       DEF Clock, Peer, Cancel, Expire, Fire, PeerSend, PeerRest, PeerClose,
           PeerPong, PeerGone, PeerStall
  <2>2. OtherInv'
    BY <1>0, <2>1 DEF StreamInv, OtherInv
  <2>. QED  BY <1>0, <1>1, <2>1, <2>2, StreamOther
<1>7. ASSUME NEW p \in Procs, CasClosing(p)
      PROVE  StreamInv'
  <2>1. /\ UNCHANGED err /\ closing' /\ pc[p] = "cas"
        /\ \A q \in Procs \ {p} : /\ pc'[q] = pc[q] /\ then'[q] = then[q]
                                   /\ frame'[q] = frame[q]
    BY <1>7 DEF CasClosing, StartWrite
  <2>2. p # Reader
    BY <2>1 DEF StreamInv, ReaderInv, WriteLabels
  <2>3. CASE p # CloseGo
    <3>1. pc'[p] \in {"waitClosed", "close"} /\ then'[p] = then[p]
      BY <1>7, <2>3 DEF CasClosing
    <3>2. OtherInv'
      BY <2>1, <3>1 DEF StreamInv, OtherInv
    <3>. QED  BY <1>0, <1>1, <2>1, <2>2, <2>3, <3>2, StreamOther
  <2>4. CASE p = CloseGo
    <3>1. \/ pc'[p] = "waitClosed"
          \/ /\ pc'[p] = "wLock" /\ then'[p] = "hsLock"
             /\ frame'[p] = <<"close", code>>
      BY <1>7, <2>4 DEF CasClosing, StartWrite
    <3>2. OtherInv' /\ ReaderInv' /\ Reading' = Reading
      BY <1>0, <2>1, <2>4 DEF StreamInv, OtherInv, ReaderInv, Reading
    <3>3. HandshakeInv' /\ ~Awaiting' /\ ~Handshaking'
      BY <2>1, <2>4, <3>1 DEF HandshakeInv, Awaiting, Handshaking, WriteLabels
    <3>. QED  BY <1>1, <3>2, <3>3 DEF StreamInv, LockInv
  <2>. QED  BY <2>3, <2>4
<1>8. CASE Publish \/ Signal
  <2>1. /\ UNCHANGED <<err, then, frame, closing>>
        /\ \A q \in Procs \ {CloseGo} : pc'[q] = pc[q]
        /\ pc[CloseGo] \in {"publish", "signal"}
        /\ pc'[CloseGo] \in {"signal", "done"}
    BY <1>0, <1>8 DEF Publish, Signal
  <2>. QED
    BY <1>0, <1>1, <2>1 DEF StreamInv, OtherInv, ReaderInv, HandshakeInv, LockInv,
       Awaiting, Reading, Handshaking, WriteLabels
<1>. QED  BY <1>2, <1>3, <1>4, <1>5, <1>6, <1>7, <1>8 DEF Call

\* Every step of the specification keeps the invariant.
LEMMA NextStream == TypeInv /\ StreamInv /\ [Next]_vars => StreamInv'
<1>. SUFFICES ASSUME TypeInv, StreamInv, [Next]_vars PROVE StreamInv'
  OBVIOUS
<1>1. ASSUME NEW p \in Procs, NativeStep(p)
      PROVE  StreamInv'
  BY <1>1, OtherStream, ReaderStream, HandshakeStream
<1>2. CASE UNCHANGED vars
  BY <1>2 DEF vars, nativeVars, StreamInv, OtherInv, ReaderInv, HandshakeInv,
              LockInv, Awaiting, Reading, Handshaking
<1>. QED  BY <1>1, <1>2, RestStream DEF Next, Step

\* The invariant holds in every reachable state.
LEMMA StreamAlways == Spec => [](TypeInv /\ StreamInv)
BY InitType, NextType, InitStream, NextStream, PTL DEF Spec

\* Conn.reader, waitCloseHandshake: although readMu may be released by a
\* goroutine that does not hold it, the reader and the handshake never parse
\* the stream at the same time.
THEOREM StreamHasOneReader == Spec => []StreamOwned
<1>1. TypeInv /\ StreamInv => StreamOwned
  BY DEF StreamInv, ReaderInv, LockInv, Reading, Handshaking, StreamOwned,
         WriteLabels
<1>. QED  BY <1>1, StreamAlways, PTL

-----------------------------------------------------------------------------
(* A message is put together from its own chunks, as long as the peer sends *)
(* neither pings nor malformed frames: those make the handshake give up in  *)
(* the middle of the stream.                                                *)

\* What is still to be read: what has arrived, then what the peer still owes.
Stream == inbox \o rest

\* The next chunk opens a frame, or there is none; the next chunk goes on with
\* a message, or with message k.
AtFrame(s)    == s # <<>> => Head(s)[1] \notin {"over", "tail"}
InMessage(s)  == s # <<>> /\ Head(s)[1] \in {"over", "tail"}
Inside(s, k)  == s # <<>> /\ Head(s) \in {<<"over", k>>, <<"tail", k>>}

\* A stream of whole messages and control frames, without pings and malformed
\* frames, from some point on.
WholeFrames(s) ==
  \A i \in 1 .. Len(s) :
    /\ s[i][1] \notin {"ping", "bad"}
    /\ s[i][1] \in {"head", "over"} =>
         /\ s[i][2] # 0
         /\ i + 1 <= Len(s)
         /\ s[i + 1] \in {<<"over", s[i][2]>>, <<"tail", s[i][2]>>}
    /\ s[i][1] \notin {"head", "over"} /\ i + 1 <= Len(s) =>
         s[i + 1][1] \notin {"over", "tail"}

\* Nothing more will be read.
StreamOver == closed \/ closeReceived # "none" \/ (inbox = <<>> /\ peer = "gone")

\* payloadLength is right about where the stream stands.
InStep == IF payload = 0 THEN AtFrame(Stream) ELSE Inside(Stream, payload)

\* The reader is inside a message exactly while payloadLength counts it.
PayloadInv ==
  /\ pc[Reader] \in {"rdLock2", "rdBody"} => payload # 0
  /\ err[Reader] = "nil" /\ pc[Reader] \notin {"rdLock2", "rdBody"} => payload = 0

\* The handshake goes on until nothing more will be read, and knows where the
\* stream stands.
DrainInv ==
  /\ pc[CloseGo] = "hsRead" => AtFrame(Stream) \/ StreamOver
  /\ pc[CloseGo] = "hsDrain" => InMessage(Stream) \/ StreamOver
  /\ pc[CloseGo] \in WriteLabels => then[CloseGo] = "hsLock"
  /\ pc[CloseGo] \in {"rdCas", "fin"} => StreamOver

TornInv ==
  /\ got[2] = <<"tail", got[1]>>
  /\ WholeFrames(Stream)
  /\ PayloadInv
  /\ DrainInv
  /\ Handshaking \/ StreamOver \/ InStep

\* Reading from the front of a stream, and moving the peer's next chunk into
\* the buffer.
LEMMA StreamParts ==
  ASSUME NEW a \in Seq(Chunk), NEW b \in Seq(Chunk)
  PROVE  /\ a \o b \in Seq(Chunk)
         /\ Len(a) \in Nat /\ Len(b) \in Nat
         /\ Len(a \o b) = Len(a) + Len(b)
         /\ \A i \in 1 .. Len(a) : (a \o b)[i] = a[i]
         /\ \A i \in 1 .. Len(b) : (a \o b)[Len(a) + i] = b[i]
         /\ a # <<>> => /\ a \o b # <<>> /\ Head(a \o b) = Head(a)
                        /\ Tail(a \o b) = Tail(a) \o b
         /\ b # <<>> => Append(a, Head(b)) \o Tail(b) = a \o b
         /\ a \o <<>> = a
<1>1. /\ a \o b \in Seq(Chunk)
      /\ Len(a) \in Nat /\ Len(b) \in Nat
      /\ Len(a \o b) = Len(a) + Len(b)
      /\ \A i \in 1 .. Len(a) : (a \o b)[i] = a[i]
      /\ \A i \in 1 .. Len(b) : (a \o b)[Len(a) + i] = b[i]
  OBVIOUS
<1>2. ASSUME a # <<>>
      PROVE  a \o b # <<>> /\ Head(a \o b) = Head(a) /\ Tail(a \o b) = Tail(a) \o b
  BY <1>2
<1>3. ASSUME b # <<>>
      PROVE  Append(a, Head(b)) \o Tail(b) = a \o b
  BY <1>3
<1>4. a \o <<>> = a
  OBVIOUS
<1>. QED  BY <1>1, <1>2, <1>3, <1>4

\* Reading one chunk of whole frames leaves whole frames; a header is followed
\* by its payload, and what ends a frame by a new one.
LEMMA FrontRead ==
  ASSUME NEW s \in Seq(Chunk), s # <<>>, WholeFrames(s)
  PROVE  /\ Head(s)[1] \notin {"ping", "bad"}
         /\ WholeFrames(Tail(s))
         /\ Head(s)[1] \in {"head", "over"} =>
              Inside(Tail(s), Head(s)[2]) /\ Head(s)[2] # 0
         /\ Head(s)[1] \notin {"head", "over"} => AtFrame(Tail(s))
<1>. DEFINE t == Tail(s)
<1>1. /\ t \in Seq(Chunk) /\ Len(s) \in Nat /\ Len(t) = Len(s) - 1
      /\ Len(s) >= 1 /\ Head(s) = s[1]
      /\ \A i \in 1 .. Len(t) : t[i] = s[i + 1]
      /\ t # <<>> <=> Len(t) >= 1
      /\ t # <<>> => Head(t) = t[1]
  OBVIOUS
<1>. HIDE DEF t
<1>2. WholeFrames(t)
  <2>. SUFFICES ASSUME NEW i \in 1 .. Len(t)
                PROVE  /\ t[i][1] \notin {"ping", "bad"}
                       /\ t[i][1] \in {"head", "over"} =>
                            /\ t[i][2] # 0
                            /\ i + 1 <= Len(t)
                            /\ t[i + 1] \in {<<"over", t[i][2]>>, <<"tail", t[i][2]>>}
                       /\ t[i][1] \notin {"head", "over"} /\ i + 1 <= Len(t) =>
                            t[i + 1][1] \notin {"over", "tail"}
    BY DEF WholeFrames
  <2>1. i + 1 \in 1 .. Len(s) /\ t[i] = s[i + 1]
    BY <1>1
  <2>2. i + 1 <= Len(t) <=> (i + 1) + 1 <= Len(s)
    BY <1>1
  <2>3. i + 1 <= Len(t) => t[i + 1] = s[(i + 1) + 1]
    BY <1>1
  <2>. QED  BY <2>1, <2>2, <2>3 DEF WholeFrames
<1>3. /\ s[1][1] \notin {"ping", "bad"}
      /\ s[1][1] \in {"head", "over"} =>
           /\ s[1][2] # 0 /\ 2 <= Len(s)
           /\ s[2] \in {<<"over", s[1][2]>>, <<"tail", s[1][2]>>}
      /\ s[1][1] \notin {"head", "over"} /\ 2 <= Len(s) =>
           s[2][1] \notin {"over", "tail"}
  <2>1. 1 \in 1 .. Len(s) /\ 1 + 1 = 2
    BY <1>1
  <2>. QED  BY <2>1 DEF WholeFrames
<1>4. t # <<>> <=> 2 <= Len(s)
  BY <1>1
<1>5. t # <<>> => Head(t) = s[2]
  BY <1>1
<1>. QED  BY <1>1, <1>2, <1>3, <1>4, <1>5 DEF Inside, AtFrame, t

\* Whole frames after whole frames.
LEMMA FramesArrive ==
  ASSUME NEW s \in Seq(Chunk), NEW t \in Seq(Chunk),
         WholeFrames(s), WholeFrames(t), AtFrame(t)
  PROVE  /\ WholeFrames(s \o t)
         /\ AtFrame(s) => AtFrame(s \o t)
         /\ InMessage(s) => InMessage(s \o t)
         /\ \A k : Inside(s, k) => Inside(s \o t, k)
<1>. DEFINE u == s \o t
<1>1. /\ Len(s) \in Nat /\ Len(t) \in Nat /\ Len(u) = Len(s) + Len(t)
      /\ \A i \in 1 .. Len(s) : u[i] = s[i]
      /\ \A i \in 1 .. Len(t) : u[Len(s) + i] = t[i]
      /\ s # <<>> => u # <<>> /\ Head(u) = Head(s)
  BY StreamParts
<1>2. s = <<>> => u = t
  OBVIOUS
<1>3. Len(t) >= 1 => t # <<>> /\ Head(t) = t[1]
  OBVIOUS
<1>. HIDE DEF u
<1>4. WholeFrames(u)
  <2>. SUFFICES ASSUME NEW i \in 1 .. Len(u)
                PROVE  /\ u[i][1] \notin {"ping", "bad"}
                       /\ u[i][1] \in {"head", "over"} =>
                            /\ u[i][2] # 0
                            /\ i + 1 <= Len(u)
                            /\ u[i + 1] \in {<<"over", u[i][2]>>, <<"tail", u[i][2]>>}
                       /\ u[i][1] \notin {"head", "over"} /\ i + 1 <= Len(u) =>
                            u[i + 1][1] \notin {"over", "tail"}
    BY DEF WholeFrames
  <2>1. CASE i + 1 <= Len(s)
    <3>1. i \in 1 .. Len(s) /\ u[i] = s[i] /\ u[i + 1] = s[i + 1] /\ i + 1 <= Len(u)
      BY <1>1, <2>1
    <3>. QED  BY <2>1, <3>1 DEF WholeFrames
  <2>2. CASE i = Len(s)
    <3>1. i \in 1 .. Len(s) /\ u[i] = s[i] /\ ~(i + 1 <= Len(s))
      BY <1>1, <2>2
    <3>2. i + 1 <= Len(u) => Len(t) >= 1 /\ u[i + 1] = t[1]
      BY <1>1, <2>2
    <3>3. i + 1 <= Len(u) => u[i + 1][1] \notin {"over", "tail"}
      BY <1>3, <3>2 DEF AtFrame
    <3>. QED  BY <3>1, <3>3 DEF WholeFrames
  <2>3. CASE i > Len(s)
    <3>. DEFINE j == i - Len(s)
    <3>1. j \in 1 .. Len(t) /\ u[i] = t[j] /\ (i + 1 <= Len(u) <=> j + 1 <= Len(t))
      <4>1. j \in 1 .. Len(t) /\ i = Len(s) + j
        BY <1>1, <2>3
      <4>. HIDE DEF j
      <4>. QED  BY <1>1, <4>1
    <3>2. j + 1 <= Len(t) => u[i + 1] = t[j + 1]
      <4>1. j \in 1 .. Len(t) /\ i + 1 = Len(s) + (j + 1)
        BY <1>1, <2>3
      <4>. HIDE DEF j
      <4>. QED  BY <1>1, <4>1
    <3>. HIDE DEF j
    <3>. QED  BY <3>1, <3>2 DEF WholeFrames
  <2>. QED  BY <1>1, <2>1, <2>2, <2>3
<1>. QED  BY <1>1, <1>2, <1>4 DEF AtFrame, InMessage, Inside, u

\* What the peer may send without pings and malformed frames.
QuietPeer == PeerSends \cap {"ping", "bad"} = {}

\* The peer sends whole frames.
LEMMA ChunksWhole ==
  /\ \A k \in {"data", "big"}, i \in Nat \ {0} :
       /\ WholeFrames(Chunks(k, i)) /\ AtFrame(Chunks(k, i))
       /\ Chunks(k, i) \in Seq(Chunk) /\ Chunks(k, i) # <<>>
  /\ \A c \in Chunk : c[1] \in {"close", "pong"} =>
       <<c>> \in Seq(Chunk) /\ WholeFrames(<<c>>) /\ AtFrame(<<c>>)
<1>1. ASSUME NEW i \in Nat \ {0}
      PROVE  LET s == <<<<"head", i>>, <<"tail", i>>>>
             IN WholeFrames(s) /\ AtFrame(s) /\ s \in Seq(Chunk) /\ s # <<>>
  <2>. DEFINE s == <<<<"head", i>>, <<"tail", i>>>>
  <2>0. <<"head", i>> \in Chunk /\ <<"tail", i>> \in Chunk
    BY PeerFacts
  <2>1. /\ s \in Seq(Chunk) /\ s # <<>> /\ Head(s) = <<"head", i>> /\ Len(s) = 2
        /\ s[1] = <<"head", i>> /\ s[2] = <<"tail", i>>
    BY <2>0
  <2>. HIDE DEF s
  <2>2. AtFrame(s)
    BY <2>1 DEF AtFrame
  <2>3. WholeFrames(s)
    <3>. SUFFICES ASSUME NEW j \in 1 .. Len(s)
                  PROVE  /\ s[j][1] \notin {"ping", "bad"}
                         /\ s[j][1] \in {"head", "over"} =>
                              /\ s[j][2] # 0
                              /\ j + 1 <= Len(s)
                              /\ s[j + 1] \in {<<"over", s[j][2]>>, <<"tail", s[j][2]>>}
                         /\ s[j][1] \notin {"head", "over"} /\ j + 1 <= Len(s) =>
                              s[j + 1][1] \notin {"over", "tail"}
      BY DEF WholeFrames
    <3>1. CASE j = 1
      <4>1. j + 1 = 2 /\ j + 1 <= Len(s) /\ s[j] = <<"head", i>> /\ s[j + 1] = <<"tail", i>>
        BY <2>1, <3>1
      <4>. QED  BY <4>1
    <3>2. CASE j = 2
      <4>1. ~(j + 1 <= Len(s)) /\ s[j] = <<"tail", i>>
        BY <2>1, <3>2
      <4>. QED  BY <4>1
    <3>. QED  BY <2>1, <3>1, <3>2
  <2>. QED  BY <2>1, <2>2, <2>3 DEF s
<1>2. ASSUME NEW i \in Nat \ {0}
      PROVE  LET s == <<<<"head", i>>, <<"over", i>>, <<"tail", i>>>>
             IN WholeFrames(s) /\ AtFrame(s) /\ s \in Seq(Chunk) /\ s # <<>>
  <2>. DEFINE s == <<<<"head", i>>, <<"over", i>>, <<"tail", i>>>>
  <2>0. <<"head", i>> \in Chunk /\ <<"over", i>> \in Chunk /\ <<"tail", i>> \in Chunk
    BY PeerFacts
  <2>1. /\ s \in Seq(Chunk) /\ s # <<>> /\ Head(s) = <<"head", i>> /\ Len(s) = 3
        /\ s[1] = <<"head", i>> /\ s[2] = <<"over", i>> /\ s[3] = <<"tail", i>>
    BY <2>0
  <2>. HIDE DEF s
  <2>2. AtFrame(s)
    BY <2>1 DEF AtFrame
  <2>3. WholeFrames(s)
    <3>. SUFFICES ASSUME NEW j \in 1 .. Len(s)
                  PROVE  /\ s[j][1] \notin {"ping", "bad"}
                         /\ s[j][1] \in {"head", "over"} =>
                              /\ s[j][2] # 0
                              /\ j + 1 <= Len(s)
                              /\ s[j + 1] \in {<<"over", s[j][2]>>, <<"tail", s[j][2]>>}
                         /\ s[j][1] \notin {"head", "over"} /\ j + 1 <= Len(s) =>
                              s[j + 1][1] \notin {"over", "tail"}
      BY DEF WholeFrames
    <3>1. CASE j = 1
      <4>1. j + 1 = 2 /\ j + 1 <= Len(s) /\ s[j] = <<"head", i>> /\ s[j + 1] = <<"over", i>>
        BY <2>1, <3>1
      <4>. QED  BY <4>1
    <3>2. CASE j = 2
      <4>1. j + 1 = 3 /\ j + 1 <= Len(s) /\ s[j] = <<"over", i>> /\ s[j + 1] = <<"tail", i>>
        BY <2>1, <3>2
      <4>. QED  BY <4>1
    <3>3. CASE j = 3
      <4>1. ~(j + 1 <= Len(s)) /\ s[j] = <<"tail", i>>
        BY <2>1, <3>3
      <4>. QED  BY <4>1
    <3>. QED  BY <2>1, <3>1, <3>2, <3>3
  <2>. QED  BY <2>1, <2>2, <2>3 DEF s
<1>3. ASSUME NEW c \in Chunk, c[1] \in {"close", "pong"}
      PROVE  <<c>> \in Seq(Chunk) /\ WholeFrames(<<c>>) /\ AtFrame(<<c>>)
  BY <1>3 DEF WholeFrames, AtFrame
<1>. QED  BY <1>1, <1>2, <1>3 DEF Chunks

\* Whatever arrives, arrives behind what is still to be read.
LEMMA PeerGrows ==
  ASSUME QuietPeer, TypeInv, WholeFrames(Stream), Peer
  PROVE  /\ WholeFrames(Stream)'
         /\ AtFrame(Stream) => AtFrame(Stream)'
         /\ InMessage(Stream) => InMessage(Stream)'
         /\ \A k : Inside(Stream, k) => Inside(Stream, k)'
<1>. USE DEF TypeInv, TypeOK, NativeTypeOK, WireOK
<1>0. inbox \in Seq(Chunk) /\ rest \in Seq(Chunk) /\ sent + 1 \in Nat \ {0}
  OBVIOUS
<1>1. ASSUME NEW t \in Seq(Chunk), WholeFrames(t), AtFrame(t),
             Stream' = Stream \o t
      PROVE  /\ WholeFrames(Stream)'
             /\ AtFrame(Stream) => AtFrame(Stream)'
             /\ InMessage(Stream) => InMessage(Stream)'
             /\ \A k : Inside(Stream, k) => Inside(Stream, k)'
  <2>1. Stream \in Seq(Chunk)
    BY <1>0, StreamParts DEF Stream
  <2>. QED  BY <1>1, <2>1, FramesArrive
<1>2. ASSUME NEW kind \in FrameKinds, PeerSend(kind)
      PROVE  Stream' = Stream \o Chunks(kind, sent + 1) /\ kind \in {"data", "big"}
  <2>1. kind \in {"data", "big"}
    BY <1>2 DEF PeerSend, QuietPeer, FrameKinds
  <2>. DEFINE c == Chunks(kind, sent + 1)
  <2>2. c \in Seq(Chunk) /\ c # <<>>
    BY <1>0, <2>1, ChunksWhole
  <2>3. rest = <<>> /\ inbox' = Append(inbox, Head(c)) /\ rest' = Tail(c)
    BY <1>2 DEF PeerSend
  <2>. HIDE DEF c
  <2>4. Append(inbox, Head(c)) \o Tail(c) = inbox \o c
    BY <1>0, <2>2, StreamParts
  <2>5. Stream = inbox
    BY <1>0, <2>3, StreamParts DEF Stream
  <2>. QED  BY <2>1, <2>3, <2>4, <2>5 DEF Stream, c
<1>3. ASSUME NEW c \in Chunk, rest = <<>>, rest' = rest, inbox' = Append(inbox, c)
      PROVE  Stream' = Stream \o <<c>>
  <2>1. Stream = inbox /\ Stream' = inbox'
    <3>1. Append(inbox, c) \in Seq(Chunk)
      BY <1>0
    <3>. QED  BY <1>0, <1>3, <3>1, StreamParts DEF Stream
  <2>2. Append(inbox, c) = inbox \o <<c>>
    BY <1>0
  <2>. QED  BY <1>3, <2>1, <2>2
<1>4. CASE \E kind \in FrameKinds : PeerSend(kind)
  BY <1>0, <1>1, <1>2, <1>4, ChunksWhole
<1>5. CASE PeerRest
  <2>1. Stream' = Stream
    BY <1>0, <1>5, StreamParts DEF PeerRest, Stream
  <2>. QED  BY <2>1
<1>6. CASE \E x \in Status : PeerClose(x)
  <2>1. PICK x \in Status : PeerClose(x)
    BY <1>6
  <2>2. <<"close", x>> \in Chunk /\ Stream' = Stream \o <<<<"close", x>>>>
    BY <1>3, <2>1, PeerFacts DEF PeerClose
  <2>. QED  BY <1>1, <2>2, ChunksWhole
<1>7. CASE \E g \in Pingers : PeerPong(g)
  <2>1. PICK g \in Pingers : PeerPong(g)
    BY <1>7
  <2>2. <<"pong", g>> \in Chunk /\ Stream' = Stream \o <<<<"pong", g>>>>
    BY <1>3, <2>1, PeerFacts DEF PeerPong
  <2>. QED  BY <1>1, <2>2, ChunksWhole
<1>8. CASE PeerGone \/ PeerStall
  <2>1. Stream' = Stream
    BY <1>8 DEF PeerGone, PeerStall, Stream
  <2>. QED  BY <2>1
<1>. QED  BY <1>4, <1>5, <1>6, <1>7, <1>8 DEF Peer

\* A chunk is received from the front of the stream, and only if the stream is
\* not over.
LEMMA Received ==
  ASSUME TypeInv, WholeFrames(Stream), NEW K, Receive(K), UNCHANGED rest
  PROVE  /\ ~StreamOver
         /\ Stream # <<>> /\ Head(Stream) = Head(inbox)
         /\ Head(inbox) \in Chunk /\ Head(inbox)[1] \in K \ {"ping", "bad"}
         /\ WholeFrames(Stream)'
         /\ Head(inbox)[1] \in {"head", "over"} =>
              Inside(Stream', Head(inbox)[2]) /\ Head(inbox)[2] # 0
         /\ Head(inbox)[1] \notin {"head", "over"} => AtFrame(Stream)'
<1>1. inbox \in Seq(Chunk) /\ rest \in Seq(Chunk)
  BY DEF TypeInv, TypeOK, NativeTypeOK, WireOK
<1>2. Head(inbox) \in Chunk /\ Head(inbox)[1] \in K /\ inbox # <<>> /\ ~StreamOver
  BY <1>1 DEF Receive, StreamOver
<1>3. /\ Stream \in Seq(Chunk) /\ Stream # <<>> /\ Head(Stream) = Head(inbox)
      /\ Stream' = Tail(Stream)
  BY <1>1, <1>2, StreamParts DEF Stream, Receive
<1>4. /\ Head(Stream)[1] \notin {"ping", "bad"}
      /\ WholeFrames(Tail(Stream))
      /\ Head(Stream)[1] \in {"head", "over"} =>
           Inside(Tail(Stream), Head(Stream)[2]) /\ Head(Stream)[2] # 0
      /\ Head(Stream)[1] \notin {"head", "over"} => AtFrame(Tail(Stream))
  BY <1>3, FrontRead
<1>5. /\ WholeFrames(Stream)'
      /\ Head(inbox)[1] \in {"head", "over"} => Inside(Stream', Head(inbox)[2])
      /\ Head(inbox)[1] \notin {"head", "over"} => AtFrame(Stream)'
  BY <1>3, <1>4
<1>. QED  BY <1>2, <1>3, <1>4, <1>5

\* A fresh connection has nothing to read.
LEMMA InitTorn == Init => TornInv
<1>. SUFFICES ASSUME Init PROVE TornInv
  OBVIOUS
<1>1. Stream = <<>> /\ payload = 0
  BY DEF Init, NativeInit, Stream
<1>2. WholeFrames(Stream) /\ AtFrame(Stream) /\ InStep
  BY <1>1 DEF WholeFrames, AtFrame, InStep
<1>3. PayloadInv /\ DrainInv /\ got[2] = <<"tail", got[1]>>
  BY DEF Init, NativeInit, PayloadInv, DrainInv, WriteLabels, Procs, Callers,
         Reader, CloseGo
<1>. QED  BY <1>2, <1>3 DEF TornInv

\* A step that reads nothing and moves neither of the two goroutines.
LEMMA TornOther ==
  ASSUME TornInv, WholeFrames(Stream)',
         \A q \in {Reader, CloseGo} : /\ pc'[q] = pc[q] /\ err'[q] = err[q]
                                      /\ then'[q] = then[q],
         UNCHANGED <<payload, got>>,
         StreamOver => StreamOver',
         AtFrame(Stream) => AtFrame(Stream)',
         InMessage(Stream) => InMessage(Stream)',
         \A k : Inside(Stream, k) => Inside(Stream, k)'
  PROVE  TornInv'
<1>1. PayloadInv' /\ DrainInv' /\ Handshaking' = Handshaking
  BY DEF TornInv, PayloadInv, DrainInv, Handshaking
<1>2. InStep => InStep'
  BY DEF InStep
<1>. QED  BY <1>1, <1>2 DEF TornInv

\* The buffer, what the peer owes and the reader's count change only when a
\* goroutine reads.
StreamVars == <<inbox, rest, peer, payload, got>>

LEMMA OverStays ==
  ASSUME UNCHANGED <<inbox, peer>>, closed => closed',
         closeReceived # "none" => closeReceived' = closeReceived, StreamOver
  PROVE  StreamOver'
BY DEF StreamOver

\* Nobody else reads.
LEMMA OtherTorn ==
  ASSUME TypeInv, StreamInv, TornInv, NEW p \in Procs \ {Reader, CloseGo},
         NativeStep(p)
  PROVE  TornInv'
<1>0. Reader \in Procs /\ CloseGo \in Procs
  BY DEF Procs, Callers
<1>1. pc[p] \notin {"rdHead", "hsRead", "rdCas"}
  BY DEF StreamInv, OtherInv
<1>2. UNCHANGED StreamVars
  BY <1>1 DEF NativeStep, ReadLoop, ReadCas, CloseBegin, CloseWriter, CloseEnd, WaitClosed,
              WLock, WWrite, WFail, WSent, Fin, MLock, PingWait, StreamVars
<1>3. Stream' = Stream
  BY <1>2 DEF Stream, StreamVars
<1>4. StreamOver => StreamOver'
  BY <1>2, NativeLocal, OverStays DEF StreamVars
<1>. QED
  BY <1>0, <1>2, <1>3, <1>4, NativeLocal, TornOther DEF TornInv, StreamVars

\* The reader: while it reads, the handshake does not, and payloadLength is
\* right, so that the next chunk is the payload of its header.
LEMMA ReaderTorn ==
  ASSUME TypeInv, StreamInv, StreamInv', TornInv, NativeStep(Reader)
  PROVE  TornInv'
<1>. USE DEF TypeInv, TypeOK, NativeTypeOK, ProcsOK, Goto
<1>0. /\ Reader \in Procs /\ CloseGo \in Procs /\ Reader # CloseGo
      /\ Reader # Timer /\ Reader \notin Writers /\ Reader \notin Pingers
  BY ProcsAssumption DEF Procs, Callers, Reader, CloseGo, Timer
<1>1. Handshaking' = Handshaking /\ pc'[CloseGo] = pc[CloseGo]
      /\ then'[CloseGo] = then[CloseGo]
  BY <1>0, NativeLocal DEF Handshaking
\* It reads nothing.
<1>2. ASSUME UNCHANGED StreamVars, PayloadInv'
      PROVE  TornInv'
  <2>1. Stream' = Stream
    BY <1>2 DEF Stream, StreamVars
  <2>2. StreamOver => StreamOver'
    BY <1>0, <1>2, NativeLocal, OverStays DEF StreamVars
  <2>3. DrainInv'
    BY <1>1, <2>1, <2>2 DEF TornInv, DrainInv
  <2>4. InStep' = InStep
    BY <1>2, <2>1 DEF InStep, StreamVars
  <2>. QED  BY <1>1, <1>2, <2>1, <2>2, <2>3, <2>4 DEF TornInv, StreamVars
\* It reads a chunk.
<1>3. ASSUME NEW K, pc[Reader] \in {"rdHead", "rdBody"}, Receive(K), UNCHANGED rest
      PROVE  /\ err[Reader] = "nil" /\ InStep /\ DrainInv' /\ ~Handshaking'
             /\ payload = 0 <=> pc[Reader] = "rdHead"
             /\ Head(inbox)[1] \in K \ {"ping", "bad"} /\ Head(inbox) \in Chunk
             /\ Stream # <<>> /\ Head(Stream) = Head(inbox)
             /\ WholeFrames(Stream)'
             /\ Head(inbox)[1] \in {"head", "over"} =>
                  Inside(Stream', Head(inbox)[2]) /\ Head(inbox)[2] # 0
             /\ Head(inbox)[1] \notin {"head", "over"} => AtFrame(Stream)'
  <2>1. err[Reader] = "nil" /\ ~Handshaking
    BY <1>3 DEF StreamInv, ReaderInv, LockInv, Reading, WriteLabels
  <2>2. WholeFrames(Stream)
    BY DEF TornInv
  <2>3. /\ ~StreamOver
        /\ Stream # <<>> /\ Head(Stream) = Head(inbox)
        /\ Head(inbox) \in Chunk /\ Head(inbox)[1] \in K \ {"ping", "bad"}
        /\ WholeFrames(Stream)'
        /\ Head(inbox)[1] \in {"head", "over"} =>
             Inside(Stream', Head(inbox)[2]) /\ Head(inbox)[2] # 0
        /\ Head(inbox)[1] \notin {"head", "over"} => AtFrame(Stream)'
    BY <1>3, <2>2, Received
  <2>4. DrainInv'
    BY <1>1, <2>1 DEF TornInv, DrainInv, Handshaking, WriteLabels
  <2>5. payload = 0 <=> pc[Reader] = "rdHead"
    BY <1>3, <2>1 DEF TornInv, PayloadInv
  <2>. QED  BY <1>1, <2>1, <2>3, <2>4, <2>5 DEF TornInv
<1>4. CASE \/ CloseBegin(Reader) \/ CloseWriter(Reader)
           \/ CloseEnd(Reader) \/ WaitClosed(Reader)
  <2>1. UNCHANGED StreamVars
    BY <1>4 DEF CloseBegin, CloseWriter, CloseEnd, WaitClosed, StreamVars
  <2>2. PayloadInv'
    BY <1>0, <1>4 DEF TornInv, PayloadInv, StreamInv, ReaderInv, WriteLabels,
       CloseBegin, CloseWriter, CloseEnd, WaitClosed, AfterClose
  <2>. QED  BY <1>2, <2>1, <2>2
<1>5. CASE WLock(Reader) \/ WWrite(Reader) \/ WFail(Reader) \/ WSent(Reader)
  <2>1. UNCHANGED StreamVars
    BY <1>5 DEF WLock, WWrite, WFail, WSent, StreamVars
  <2>2. then[Reader] \in {"rdHead", "rdCas", "fin"} /\ pc[Reader] \in WriteLabels
    BY <1>5 DEF StreamInv, ReaderInv, WriteLabels, WLock, WWrite, WFail, WSent
  <2>3. pc'[Reader] \notin {"rdLock2", "rdBody"}
    BY <1>0, <1>5, <2>2 DEF WLock, WWrite, WFail, WSent, WriteReturn
  <2>4. err'[Reader] = "nil" => err[Reader] = "nil"
    BY <1>0, <1>5 DEF WLock, WWrite, WFail, WSent, WriteReturn
  <2>5. PayloadInv'
    BY <2>1, <2>2, <2>3, <2>4 DEF TornInv, PayloadInv, WriteLabels, StreamVars
  <2>. QED  BY <1>2, <2>1, <2>5
<1>6. CASE pc[Reader] \in {"rdHead", "rdBody"} /\ ReadEnds(Reader)
  <2>1. UNCHANGED StreamVars
    BY <1>6 DEF ReadEnds, StreamVars
  <2>2. pc'[Reader] = "fin" /\ err'[Reader] # "nil"
    BY <1>0, <1>6 DEF ReadEnds, FlagsOK, Status, AppStatus
  <2>3. PayloadInv'
    BY <2>2 DEF PayloadInv
  <2>. QED  BY <1>2, <2>1, <2>3
<1>7. CASE pc[Reader] = "rdHead" /\ (ReadPing(Reader) \/ ReadUnmasked(Reader))
  <2>1. \E K \in {{"ping"}, {"bad"}} : Receive(K) /\ UNCHANGED rest
    BY <1>7 DEF ReadPing, ReadUnmasked
  <2>. QED  BY <1>3, <1>7, <2>1
<1>8. CASE pc[Reader] = "rdHead" /\ ReadBad(Reader)
  <2>1. Receive({"bad", "tail", "over"}) /\ UNCHANGED rest
    BY <1>8 DEF ReadBad
  <2>2. Head(inbox)[1] \in {"tail", "over"} /\ AtFrame(Stream)
        /\ Stream # <<>> /\ Head(Stream) = Head(inbox)
    BY <1>3, <1>8, <2>1 DEF InStep
  <2>. QED  BY <2>2 DEF AtFrame
<1>9. CASE pc[Reader] = "rdHead" /\ ReadPong(Reader)
  <2>1. Receive({"pong"}) /\ UNCHANGED <<rest, pc, err, payload, got>>
    BY <1>9 DEF ReadPong
  <2>2. AtFrame(Stream)' /\ payload' = 0 /\ WholeFrames(Stream)' /\ DrainInv'
    BY <1>3, <1>9, <2>1
  <2>3. InStep' /\ PayloadInv'
    BY <2>1, <2>2 DEF InStep, TornInv, PayloadInv
  <2>. QED  BY <2>1, <2>2, <2>3 DEF TornInv
<1>10. CASE pc[Reader] = "rdHead" /\ ReadClose(Reader)
  <2>1. /\ Receive({"close"}) /\ UNCHANGED <<rest, payload, got>>
        /\ closeReceived' = Head(inbox)[2] /\ err'[Reader] = Head(inbox)[2]
        /\ pc'[Reader] \in {"rdCas", "wLock"}
    BY <1>0, <1>10 DEF ReadClose, StartWrite
  <2>2. /\ WholeFrames(Stream)' /\ DrainInv'
        /\ Head(inbox) \in Chunk /\ Head(inbox)[1] = "close"
    BY <1>3, <1>10, <2>1
  <2>3. Head(inbox)[2] \in Status
    BY <2>2, ChunkFacts
  <2>4. Head(inbox)[2] \notin {"nil", "none"}
    BY <2>3 DEF Status, AppStatus
  <2>5. StreamOver' /\ PayloadInv'
    BY <2>1, <2>4 DEF StreamOver, PayloadInv
  <2>. QED  BY <2>1, <2>2, <2>5 DEF TornInv
<1>11. CASE ReadCas(Reader) \/ Fin(Reader)
  <2>1. UNCHANGED StreamVars
    BY <1>11 DEF ReadCas, Fin, StreamVars
  <2>2. /\ pc[Reader] \in {"rdCas", "fin"}
        /\ pc'[Reader] \in {"fin", "close", "ret", "idle"}
        /\ err'[Reader] = "nil" => err[Reader] = "nil"
    BY <1>0, <1>11 DEF ReadCas, Fin
  <2>3. PayloadInv'
    BY <2>1, <2>2 DEF TornInv, PayloadInv, StreamVars
  <2>. QED  BY <1>2, <2>1, <2>3
<1>12. CASE RdLock
  <2>1. UNCHANGED StreamVars
    BY <1>12 DEF RdLock, StreamVars
  <2>2. PayloadInv'
    BY <1>0, <1>12, <2>1 DEF RdLock, TornInv, PayloadInv, StreamVars, StreamInv,
                             ReaderInv, WriteLabels
  <2>. QED  BY <1>2, <2>1, <2>2
<1>13. CASE RdHead
  <2>1. /\ pc[Reader] = "rdHead" /\ Receive({"head"})
        /\ UNCHANGED <<rest, got, err>>
        /\ payload' = Head(inbox)[2] /\ pc'[Reader] = "rdLock2"
    BY <1>0, <1>13 DEF RdHead
  <2>2. /\ WholeFrames(Stream)' /\ DrainInv' /\ Head(inbox)[1] = "head"
        /\ Inside(Stream', Head(inbox)[2]) /\ Head(inbox)[2] # 0
    BY <1>3, <2>1
  <2>3. InStep' /\ PayloadInv'
    BY <2>1, <2>2 DEF InStep, PayloadInv
  <2>. QED  BY <2>1, <2>2, <2>3 DEF TornInv
<1>14. CASE RdBody
  <2>1. /\ pc[Reader] = "rdBody" /\ UNCHANGED <<rest, err>>
        /\ Receive({"head", "tail", "ping", "pong", "bad", "close"})
        /\ payload' = 0 /\ pc'[Reader] = "rdLock3"
        /\ got' = <<payload, Head(inbox)>>
    BY <1>0, <1>14 DEF RdBody
  <2>2. /\ WholeFrames(Stream)' /\ DrainInv' /\ InStep /\ payload # 0
        /\ Head(inbox)[1] # "over" /\ Head(Stream) = Head(inbox)
        /\ Head(inbox)[1] \notin {"head", "over"} => AtFrame(Stream)'
    BY <1>3, <2>1
  <2>3. Head(inbox) = <<"tail", payload>>
    BY <2>2 DEF InStep, Inside
  <2>4. InStep' /\ PayloadInv'
    BY <2>1, <2>2, <2>3 DEF InStep, PayloadInv
  <2>5. got'[2] = <<"tail", got'[1]>>
    BY <2>1, <2>3
  <2>. QED  BY <2>2, <2>4, <2>5 DEF TornInv
<1>15. CASE RdTooBig
  <2>1. /\ pc[Reader] = "rdBody" /\ UNCHANGED <<rest, payload, got>>
        /\ Receive({"over"}) /\ pc'[Reader] = "wLock" /\ err'[Reader] = "tooBig"
    BY <1>0, <1>15 DEF RdTooBig, StartWrite
  <2>2. /\ WholeFrames(Stream)' /\ DrainInv' /\ InStep /\ payload # 0
        /\ Head(inbox)[1] = "over" /\ Head(Stream) = Head(inbox)
        /\ Inside(Stream', Head(inbox)[2])
    BY <1>3, <2>1
  <2>3. Head(inbox) = <<"over", payload>>
    BY <2>2 DEF InStep, Inside
  <2>4. InStep' /\ PayloadInv'
    BY <2>1, <2>2, <2>3 DEF InStep, PayloadInv
  <2>. QED  BY <2>1, <2>2, <2>4 DEF TornInv
<1>16. pc[Reader] # "hsRead"
  BY DEF StreamInv, ReaderInv, WriteLabels
<1>. QED
  BY <1>0, <1>4, <1>5, <1>6, <1>7, <1>8, <1>9, <1>10, <1>11, <1>12, <1>13,
     <1>14, <1>15, <1>16 DEF NativeStep, ReadLoop, RdBodyEnds

\* The handshake: it starts where payloadLength says the stream stands, and
\* stops only when the stream is over.
LEMMA HandshakeTorn ==
  ASSUME TypeInv, StreamInv, TornInv, NativeStep(CloseGo)
  PROVE  TornInv'
<1>. USE DEF TypeInv, TypeOK, NativeTypeOK, ProcsOK, Goto
<1>0. /\ Reader \in Procs /\ CloseGo \in Procs /\ Reader # CloseGo
      /\ CloseGo # Timer /\ CloseGo \notin Writers /\ CloseGo \notin Pingers
  BY ProcsAssumption DEF Procs, Callers, Reader, CloseGo, Timer
<1>1. pc'[Reader] = pc[Reader] /\ err'[Reader] = err[Reader]
  BY <1>0, NativeLocal
<1>2. UNCHANGED <<payload, got, rest, peer>>
  BY <1>0 DEF NativeStep, ReadLoop, ReadEnds, ReadPing, ReadPong, ReadBad,
     ReadUnmasked, ReadClose, ReadCas, CloseBegin, CloseWriter, CloseEnd, WaitClosed, WLock,
     WWrite, WFail, WSent, Fin, HsLock, HsDrain, HsSkip
<1>3. PayloadInv' /\ got'[2] = <<"tail", got'[1]>>
  BY <1>1, <1>2 DEF TornInv, PayloadInv
\* It reads nothing.
<1>4. ASSUME UNCHANGED inbox, DrainInv', ~Handshaking => ~Handshaking',
             Handshaking => Handshaking' \/ StreamOver
      PROVE  TornInv'
  <2>1. Stream' = Stream /\ InStep' = InStep
    BY <1>2, <1>4 DEF Stream, InStep
  <2>2. StreamOver => StreamOver'
    BY <1>0, <1>2, <1>4, NativeLocal, OverStays
  <2>. QED  BY <1>3, <1>4, <2>1, <2>2 DEF TornInv
\* It reads a chunk.
<1>5. ASSUME NEW K, Receive(K)
      PROVE  /\ ~StreamOver
             /\ Stream # <<>> /\ Head(Stream) = Head(inbox)
             /\ Head(inbox) \in Chunk /\ Head(inbox)[1] \in K \ {"ping", "bad"}
             /\ WholeFrames(Stream)'
             /\ Head(inbox)[1] \in {"head", "over"} => Inside(Stream', Head(inbox)[2])
             /\ Head(inbox)[1] \notin {"head", "over"} => AtFrame(Stream)'
  BY <1>2, <1>5, Received DEF TornInv
<1>6. CASE \/ CloseBegin(CloseGo) \/ CloseWriter(CloseGo)
           \/ CloseEnd(CloseGo) \/ WaitClosed(CloseGo)
  <2>1. /\ UNCHANGED inbox
        /\ pc[CloseGo] \in {"close", "closeWait", "closeRead", "waitClosed"}
        /\ pc'[CloseGo] \in {"closeWait", "closeRead", "publish"}
    BY <1>0, <1>6 DEF CloseBegin, CloseWriter, CloseEnd, WaitClosed, AfterClose
  <2>2. DrainInv' /\ ~Handshaking /\ ~Handshaking'
    BY <2>1 DEF DrainInv, Handshaking, WriteLabels
  <2>. QED  BY <1>4, <2>1, <2>2
<1>7. CASE \/ WLock(CloseGo) \/ WWrite(CloseGo) \/ WFail(CloseGo)
           \/ WSent(CloseGo)
  <2>1. /\ pc[CloseGo] \in WriteLabels /\ then[CloseGo] = "hsLock"
        /\ frame[CloseGo][1] = "close"
    BY <1>7 DEF TornInv, DrainInv, StreamInv, HandshakeInv, WriteLabels, WLock,
       WWrite, WFail, WSent
  <2>2. /\ UNCHANGED <<inbox, then>>
        /\ pc'[CloseGo] \in {"wWrite", "wSent", "hsLock", "close"}
    BY <1>0, <1>7, <2>1 DEF WLock, WWrite, WFail, WSent, WriteReturn
  <2>3. DrainInv' /\ ~Handshaking /\ ~Handshaking'
    BY <2>1, <2>2 DEF DrainInv, Handshaking, WriteLabels
  <2>. QED  BY <1>4, <2>2, <2>3
<1>8. CASE pc[CloseGo] = "hsRead" /\ ReadEnds(CloseGo)
  <2>1. UNCHANGED inbox /\ pc'[CloseGo] = "fin" /\ StreamOver
    BY <1>0, <1>8 DEF ReadEnds, StreamOver
  <2>2. StreamOver'
    BY <1>0, <1>2, <2>1, NativeLocal, OverStays
  <2>3. DrainInv' /\ Handshaking /\ Handshaking'
    BY <1>8, <2>1, <2>2 DEF DrainInv, Handshaking, WriteLabels
  <2>. QED  BY <1>4, <2>1, <2>3
<1>9. CASE pc[CloseGo] = "hsRead" /\ (ReadPing(CloseGo) \/ ReadUnmasked(CloseGo))
  <2>1. \E K \in {{"ping"}, {"bad"}} : Receive(K)
    BY <1>9 DEF ReadPing, ReadUnmasked
  <2>. QED  BY <1>5, <2>1
<1>10. CASE pc[CloseGo] = "hsRead" /\ ReadBad(CloseGo)
  <2>1. Receive({"bad", "tail", "over"})
    BY <1>10 DEF ReadBad
  <2>2. /\ Head(inbox)[1] \in {"tail", "over"} /\ AtFrame(Stream)
        /\ Stream # <<>> /\ Head(Stream) = Head(inbox)
    BY <1>5, <1>10, <2>1 DEF TornInv, DrainInv
  <2>. QED  BY <2>2 DEF AtFrame
<1>11. CASE pc[CloseGo] = "hsRead" /\ ReadPong(CloseGo)
  <2>1. Receive({"pong"}) /\ UNCHANGED <<pc, then>>
    BY <1>11 DEF ReadPong
  <2>2. AtFrame(Stream)' /\ WholeFrames(Stream)'
    BY <1>5, <2>1
  <2>3. DrainInv' /\ Handshaking'
    BY <1>11, <2>1, <2>2 DEF DrainInv, Handshaking, WriteLabels
  <2>. QED  BY <1>3, <2>2, <2>3 DEF TornInv
<1>12. CASE pc[CloseGo] = "hsRead" /\ ReadClose(CloseGo)
  <2>1. Receive({"close"}) /\ closeReceived' = Head(inbox)[2]
    BY <1>12 DEF ReadClose
  <2>2. closeSent
    BY <1>12, <2>1 DEF Receive, StreamInv, LockInv, Awaiting
  <2>3. pc'[CloseGo] = "rdCas"
    BY <1>0, <1>12, <2>2 DEF ReadClose
  <2>4. WholeFrames(Stream)' /\ Head(inbox) \in Chunk /\ Head(inbox)[1] = "close"
    BY <1>5, <2>1
  <2>5. Head(inbox)[2] \in Status
    BY <2>4, ChunkFacts
  <2>6. StreamOver'
    BY <2>1, <2>5 DEF StreamOver, Status, AppStatus
  <2>7. DrainInv'
    BY <2>3, <2>6 DEF DrainInv, WriteLabels
  <2>. QED  BY <1>3, <2>4, <2>6, <2>7 DEF TornInv
<1>13. CASE ReadCas(CloseGo)
  <2>1. closing
    BY <1>13 DEF ReadCas, StreamInv, HandshakeInv
  <2>2. UNCHANGED inbox /\ pc[CloseGo] = "rdCas" /\ pc'[CloseGo] = "fin"
    BY <1>0, <1>13, <2>1 DEF ReadCas
  <2>3. StreamOver /\ StreamOver'
    BY <1>0, <1>2, <2>2, NativeLocal, OverStays DEF TornInv, DrainInv
  <2>4. DrainInv' /\ Handshaking /\ Handshaking'
    BY <2>2, <2>3 DEF DrainInv, Handshaking, WriteLabels
  <2>. QED  BY <1>4, <2>2, <2>4
<1>14. CASE Fin(CloseGo)
  <2>1. UNCHANGED inbox /\ pc[CloseGo] = "fin" /\ pc'[CloseGo] = "close"
    BY <1>0, <1>14 DEF Fin
  <2>2. StreamOver
    BY <2>1 DEF TornInv, DrainInv
  <2>3. DrainInv' /\ Handshaking
    BY <2>1 DEF DrainInv, Handshaking, WriteLabels
  <2>. QED  BY <1>4, <2>1, <2>2, <2>3
<1>15. CASE HsLock
  <2>1. UNCHANGED <<inbox, then>> /\ pc[CloseGo] = "hsLock" /\ ~Handshaking
    BY <1>15 DEF HsLock, Handshaking, WriteLabels
  <2>2. CASE pc'[CloseGo] = "close"
    <3>1. DrainInv' /\ ~Handshaking'
      BY <2>2 DEF DrainInv, Handshaking, WriteLabels
    <3>. QED  BY <1>4, <2>1, <3>1
  <2>3. CASE pc'[CloseGo] = (IF payload = 0 THEN "hsRead" ELSE "hsDrain")
    <3>1. StreamOver => StreamOver'
      BY <1>0, <1>2, <2>1, NativeLocal, OverStays
    <3>2. Stream' = Stream
      BY <1>2, <2>1 DEF Stream
    <3>3. StreamOver \/ InStep
      BY <2>1 DEF TornInv
    <3>4. \A k : Inside(Stream, k) => InMessage(Stream)
      BY DEF Inside, InMessage
    <3>5. DrainInv' /\ Handshaking'
      BY <2>3, <3>1, <3>2, <3>3, <3>4 DEF DrainInv, Handshaking, WriteLabels, InStep
    <3>. QED  BY <1>3, <3>2, <3>5 DEF TornInv
  <2>. QED  BY <1>0, <1>15, <2>2, <2>3 DEF HsLock
<1>16. CASE HsDrain /\ UNCHANGED inbox
  <2>1. pc[CloseGo] = "hsDrain"
    BY <1>16 DEF HsDrain
  <2>2. pc'[CloseGo] = "fin" /\ StreamOver
    <3>1. inbox # <<>> => Tail(inbox) # inbox
      <4>1. inbox \in Seq(Chunk)
        BY DEF WireOK
      <4>. QED  BY <4>1
    <3>. QED  BY <1>0, <1>16, <3>1 DEF HsDrain, StreamOver
  <2>3. StreamOver'
    BY <1>0, <1>2, <1>16, <2>2, NativeLocal, OverStays
  <2>4. DrainInv' /\ Handshaking /\ Handshaking'
    BY <2>1, <2>2, <2>3 DEF DrainInv, Handshaking, WriteLabels
  <2>. QED  BY <1>4, <1>16, <2>2, <2>4
<1>17. CASE HsDrain /\ ~UNCHANGED inbox
  <2>1. /\ pc[CloseGo] = "hsDrain" /\ ~closed /\ inbox # <<>>
        /\ inbox' = Tail(inbox) /\ UNCHANGED <<closeReceived, closed, outbox>>
        /\ pc'[CloseGo] = IF Head(inbox)[1] = "tail" THEN "hsRead" ELSE "hsDrain"
    BY <1>0, <1>17 DEF HsDrain
  <2>2. Handshaking'
    BY <2>1 DEF Handshaking
  <2>3. /\ Stream # <<>> /\ Head(Stream) = Head(inbox)
        /\ WholeFrames(Stream)'
        /\ Head(inbox)[1] \in {"head", "over"} => Inside(Stream', Head(inbox)[2])
        /\ Head(inbox)[1] \notin {"head", "over"} => AtFrame(Stream)'
    <3>1. inbox \in Seq(Chunk) /\ rest \in Seq(Chunk)
      BY DEF WireOK
    <3>2. /\ Stream \in Seq(Chunk) /\ Stream # <<>> /\ Head(Stream) = Head(inbox)
          /\ Stream' = Tail(Stream)
      BY <1>2, <2>1, <3>1, StreamParts DEF Stream
    <3>3. WholeFrames(Stream)
      BY DEF TornInv
    <3>. QED  BY <3>2, <3>3, FrontRead
  <2>4. CASE closeReceived # "none"
    <3>1. StreamOver'
      BY <2>1, <2>4 DEF StreamOver
    <3>2. DrainInv'
      BY <2>1, <3>1 DEF DrainInv, WriteLabels
    <3>. QED  BY <1>3, <2>2, <2>3, <3>2 DEF TornInv
  <2>5. CASE closeReceived = "none"
    <3>1. InMessage(Stream)
      BY <2>1, <2>5 DEF TornInv, DrainInv, StreamOver
    <3>2. Head(inbox)[1] \in {"over", "tail"}
      BY <2>3, <3>1 DEF InMessage
    <3>3. Head(inbox)[1] = "over" => InMessage(Stream)'
      BY <2>3 DEF Inside, InMessage
    <3>4. DrainInv'
      BY <2>1, <2>3, <3>2, <3>3 DEF DrainInv, WriteLabels
    <3>. QED  BY <1>3, <2>2, <2>3, <3>4 DEF TornInv
  <2>. QED  BY <2>4, <2>5
<1>18. CASE HsSkip
  <2>1. /\ pc[CloseGo] = "hsRead" /\ Receive({"head"})
        /\ pc'[CloseGo] = "hsDrain"
    BY <1>0, <1>18 DEF HsSkip
  <2>2. WholeFrames(Stream)' /\ InMessage(Stream)'
    BY <1>5, <2>1 DEF Inside, InMessage
  <2>3. DrainInv' /\ Handshaking'
    BY <2>1, <2>2 DEF DrainInv, Handshaking, WriteLabels
  <2>. QED  BY <1>3, <2>2, <2>3 DEF TornInv
<1>19. pc[CloseGo] # "rdHead"
  BY DEF StreamInv, HandshakeInv, WriteLabels
<1>. QED
  BY <1>0, <1>6, <1>7, <1>8, <1>9, <1>10, <1>11, <1>12, <1>13, <1>14, <1>15,
     <1>16, <1>17, <1>18, <1>19 DEF NativeStep, ReadLoop

\* The wrapper and the clock read nothing; the peer only adds to the stream.
LEMMA RestTorn ==
  ASSUME QuietPeer, TypeInv, StreamInv, TornInv,
         \/ Call \/ Clock \/ Peer
         \/ \E p \in Procs : CasClosing(p)
         \/ Publish \/ Signal
         \/ \E c \in Closers : CloseVerdict(c) \/ CloseForce(c) \/ CloseAwait(c)
  PROVE  TornInv'
<1>. USE DEF TypeInv, TypeOK, NativeTypeOK, ProcsOK, Goto
<1>0. /\ Reader \in Procs /\ CloseGo \in Procs /\ Reader # CloseGo
      /\ Timer \in Procs /\ Timer # CloseGo /\ Timer # Reader
      /\ Closers \subseteq Procs \ {Reader, CloseGo}
      /\ Writers \subseteq Procs \ {Reader, CloseGo}
      /\ Pingers \subseteq Procs \ {Reader, CloseGo}
  BY ProcsAssumption DEF Procs, Callers, Reader, CloseGo, Timer
<1>1. ASSUME UNCHANGED <<StreamVars, closed, closeReceived>>,
             PayloadInv', DrainInv' \/ UNCHANGED <<pc, then>>,
             Handshaking' <=> Handshaking
      PROVE  TornInv'
  <2>1. Stream' = Stream /\ StreamOver' = StreamOver /\ InStep' = InStep
    BY <1>1 DEF Stream, StreamOver, InStep, StreamVars
  <2>2. DrainInv'
    BY <1>1, <2>1 DEF TornInv, DrainInv
  <2>. QED  BY <1>1, <2>1, <2>2 DEF TornInv, StreamVars
<1>2. ASSUME UNCHANGED <<StreamVars, closed, closeReceived>>,
             \A q \in {Reader, CloseGo} : /\ pc'[q] = pc[q] /\ err'[q] = err[q]
                                          /\ then'[q] = then[q]
      PROVE  TornInv'
  <2>1. Stream' = Stream /\ StreamOver' = StreamOver
    BY <1>2 DEF Stream, StreamOver, StreamVars
  <2>. QED  BY <1>2, <2>1, TornOther DEF TornInv, StreamVars
<1>3. ASSUME NEW c \in Closers,
             \/ \E s \in Codes : CloseInvalid(c, s) \/ CloseCancelled(c, s)
             \/ CloseVerdict(c) \/ CloseForce(c) \/ CloseAwait(c)
      PROVE  TornInv'
  <2>1. /\ UNCHANGED <<StreamVars, closed, closeReceived>>
        /\ \A q \in Procs \ {c} : /\ pc'[q] = pc[q] /\ err'[q] = err[q]
                                   /\ then'[q] = then[q]
    BY <1>0, <1>3 DEF CloseInvalid, CloseCancelled, CloseVerdict, CloseForce,
                      CloseAwait, StreamVars
  <2>. QED  BY <1>0, <1>2, <2>1
<1>4. ASSUME NEW c \in Closers, NEW s \in Codes, CloseCall(c, s)
      PROVE  TornInv'
  <2>1. /\ UNCHANGED <<StreamVars, closed, closeReceived, err, then>>
        /\ pc'[Reader] = pc[Reader]
        /\ \/ pc'[CloseGo] = pc[CloseGo]
           \/ pc[CloseGo] = "idle" /\ pc'[CloseGo] = "cas"
    BY <1>0, <1>4 DEF CloseCall, CloseGoStarted, StreamVars
  <2>2. CASE pc'[CloseGo] = pc[CloseGo]
    BY <1>2, <2>1, <2>2
  <2>3. CASE pc[CloseGo] = "idle" /\ pc'[CloseGo] = "cas"
    <3>1. PayloadInv' /\ DrainInv' /\ ~Handshaking /\ ~Handshaking'
      BY <2>1, <2>3 DEF TornInv, PayloadInv, DrainInv, Handshaking, WriteLabels,
                        StreamVars
    <3>. QED  BY <1>1, <2>1, <3>1
  <2>. QED  BY <2>1, <2>2, <2>3
<1>5. CASE Read
  <2>1. /\ UNCHANGED <<StreamVars, closed, closeReceived, err, then>>
        /\ pc'[CloseGo] = pc[CloseGo]
        /\ pc[Reader] = "idle" /\ pc'[Reader] = "rdLock"
    BY <1>0, <1>5 DEF Read, StreamVars
  <2>2. PayloadInv' /\ Handshaking' = Handshaking
    BY <2>1 DEF TornInv, PayloadInv, Handshaking, StreamVars
  <2>3. Stream' = Stream /\ StreamOver' = StreamOver
    BY <2>1 DEF Stream, StreamOver, StreamVars
  <2>4. DrainInv'
    BY <2>1, <2>3 DEF TornInv, DrainInv
  <2>. QED  BY <1>1, <2>1, <2>2, <2>4
<1>6. ASSUME NEW p \in Writers \cup Pingers, Write(p) \/ Ping(p)
      PROVE  TornInv'
  <2>1. /\ UNCHANGED <<StreamVars, closed, closeReceived>>
        /\ \A q \in Procs \ {p} : /\ pc'[q] = pc[q] /\ err'[q] = err[q]
                                   /\ then'[q] = then[q]
    BY <1>0, <1>6 DEF Write, Ping, StartWrite, StreamVars
  <2>. QED  BY <1>0, <1>2, <2>1
<1>7. CASE Clock
  <2>1. /\ UNCHANGED <<StreamVars, closed, closeReceived, err, then>>
        /\ \A q \in Procs \ {Timer} : pc'[q] = pc[q]
    BY <1>0, <1>7 DEF Clock, Cancel, Expire, Fire, StreamVars
  <2>. QED  BY <1>0, <1>2, <2>1
<1>8. CASE Peer
  <2>1. /\ UNCHANGED <<payload, got, closed, closeReceived, pc, err, then>>
        /\ peer = "gone" => UNCHANGED <<inbox, peer>>
    BY <1>8 DEF Peer, PeerSend, PeerRest, PeerClose, PeerPong, PeerGone, PeerStall
  <2>2. StreamOver => StreamOver'
    BY <2>1 DEF StreamOver
  <2>3. WholeFrames(Stream)
    BY DEF TornInv
  <2>4. /\ WholeFrames(Stream)'
        /\ AtFrame(Stream) => AtFrame(Stream)'
        /\ InMessage(Stream) => InMessage(Stream)'
        /\ \A k : Inside(Stream, k) => Inside(Stream, k)'
    BY <1>8, <2>3, PeerGrows
  <2>. QED  BY <2>1, <2>2, <2>4, TornOther
<1>9. ASSUME NEW p \in Procs, CasClosing(p)
      PROVE  TornInv'
  <2>1. /\ UNCHANGED <<StreamVars, closed, closeReceived, err>> /\ pc[p] = "cas"
        /\ \A q \in Procs \ {p} : pc'[q] = pc[q] /\ then'[q] = then[q]
    BY <1>9 DEF CasClosing, StartWrite, StreamVars
  <2>2. p # Reader
    BY <2>1 DEF StreamInv, ReaderInv, WriteLabels
  <2>3. CASE p # CloseGo
    BY <1>0, <1>2, <2>1, <2>2, <2>3
  <2>4. CASE p = CloseGo
    <3>1. \/ pc'[p] = "waitClosed"
          \/ pc'[p] = "wLock" /\ then'[p] = "hsLock"
      BY <1>9, <2>4 DEF CasClosing, StartWrite
    <3>2. DrainInv' /\ ~Handshaking /\ ~Handshaking'
      BY <2>1, <2>4, <3>1 DEF DrainInv, Handshaking, WriteLabels
    <3>3. PayloadInv'
      BY <1>0, <2>1, <2>2 DEF TornInv, PayloadInv, StreamVars
    <3>. QED  BY <1>1, <2>1, <3>2, <3>3
  <2>. QED  BY <2>3, <2>4
<1>10. CASE Publish \/ Signal
  <2>1. /\ UNCHANGED <<StreamVars, closed, closeReceived, err, then>>
        /\ pc'[Reader] = pc[Reader]
        /\ pc[CloseGo] \in {"publish", "signal"}
        /\ pc'[CloseGo] \in {"signal", "done"}
    BY <1>0, <1>10 DEF Publish, Signal, StreamVars
  <2>2. PayloadInv' /\ DrainInv' /\ ~Handshaking /\ ~Handshaking'
    BY <2>1 DEF TornInv, PayloadInv, DrainInv, Handshaking, WriteLabels, StreamVars
  <2>. QED  BY <1>1, <2>1, <2>2
<1>. QED
  BY <1>3, <1>4, <1>5, <1>6, <1>7, <1>8, <1>9, <1>10 DEF Call

\* Every step of the specification keeps the invariant.
LEMMA NextTorn ==
  ASSUME QuietPeer, TypeInv, StreamInv, StreamInv', TornInv, [Next]_vars
  PROVE  TornInv'
<1>1. ASSUME NEW p \in Procs, NativeStep(p)
      PROVE  TornInv'
  BY <1>1, OtherTorn, ReaderTorn, HandshakeTorn
<1>2. CASE UNCHANGED vars
  <2>1. UNCHANGED <<Stream, StreamOver, InStep, Handshaking, PayloadInv>>
    BY <1>2 DEF vars, nativeVars, Stream, StreamOver, InStep, Handshaking, PayloadInv
  <2>2. DrainInv'
    BY <1>2, <2>1 DEF vars, nativeVars, TornInv, DrainInv
  <2>. QED  BY <1>2, <2>1, <2>2 DEF vars, nativeVars, TornInv
<1>. QED  BY <1>1, <1>2, RestTorn DEF Next, Step

\* Connection.Read, msgReader, waitCloseHandshake: as long as the peer sends no
\* pings and no malformed frames, every message Read returns is made of the
\* payload of its own header, however reader and handshake share the stream.
THEOREM MessagesAreWhole ==
  ASSUME QuietPeer
  PROVE  Spec => []NoTornMessage
<1>1. TypeInv /\ StreamInv /\ TornInv /\ [Next]_vars => TornInv'
  BY NextTorn, NextStream
<1>2. Spec => []TornInv
  BY <1>1, StreamAlways, InitTorn, PTL DEF Spec
<1>3. TornInv => NoTornMessage
  BY DEF TornInv, NoTornMessage
<1>. QED  BY <1>2, <1>3, PTL

=============================================================================

-------------------------- MODULE ConnectionProofs --------------------------
(***************************************************************************)
(* Theorems about Connection, for any callers, any peer and any bounds.    *)
(***************************************************************************)
EXTENDS Connection, TLAPS

USE DEF flagVars, lockVars, procVars, ctxVars, readVars, peerVars, wireVars,
        wrapVars, Reader, CloseGo, Timer, Callers, Procs

-----------------------------------------------------------------------------
(* What the type proofs need of the frames and chunks: the rest of them     *)
(* treats Frame and Chunk as opaque.                                        *)

\* Every frame the library writes is one of Frame.
LEMMA FrameFacts ==
  /\ \A s \in Status : <<"close", s>> \in Frame
  /\ \A w \in Writers : <<"data", w>> \in Frame
  /\ \A p \in Pingers : <<"ping", p>> \in Frame
  /\ <<"pong", "peer">> \in Frame
  /\ <<"none", "none">> \in Frame
BY DEF Frame

\* The kind of a chunk says what it carries.
LEMMA ChunkFacts ==
  \A x \in Chunk : /\ x[1] = "close" => x[2] \in Status
                   /\ x[1] \in {"head", "over", "tail"} => x[2] \in Nat
                   /\ x[1] = "pong" => x[2] \in Pingers
BY DEF Chunk

\* What the peer sends is one of Chunk.
LEMMA PeerFacts ==
  /\ \A i \in Nat : \A k \in {"head", "over", "tail"} : <<k, i>> \in Chunk
  /\ \A s \in Status : <<"close", s>> \in Chunk
  /\ \A p \in Pingers : <<"pong", p>> \in Chunk
  /\ <<"ping", "peer">> \in Chunk /\ <<"bad", "peer">> \in Chunk
BY DEF Chunk

\* A frame the peer starts is a first chunk and a sequence of further ones.
LEMMA ChunksType ==
  ASSUME NEW k \in FrameKinds \ {"close"}, NEW i \in Nat
  PROVE  Head(Chunks(k, i)) \in Chunk /\ Tail(Chunks(k, i)) \in Seq(Chunk)
<1>1. CASE k = "data"
  <2>1. Chunks(k, i) = <<<<"head", i>>, <<"tail", i>>>>
    BY <1>1 DEF Chunks
  <2>2. <<"head", i>> \in Chunk /\ <<"tail", i>> \in Chunk
    BY PeerFacts
  <2>. QED  BY <2>1, <2>2
<1>2. CASE k = "big"
  BY <1>2, PeerFacts DEF Chunks
<1>3. CASE k \in {"ping", "bad"}
  BY <1>3, PeerFacts DEF Chunks
<1>. QED  BY <1>1, <1>2, <1>3 DEF FrameKinds

\* A chunk that is received leaves a sequence of chunks behind.
LEMMA ReceiveType ==
  ASSUME NativeTypeOK, NEW K, Receive(K)
  PROVE  /\ inbox' \in Seq(Chunk)
         /\ Head(inbox) \in Chunk
         /\ outbox' = outbox
         /\ Head(inbox)[1] \in K
BY DEF NativeTypeOK, WireOK, Receive

\* One step of a goroutine inside the library keeps every variable of the
\* native connection in its type; in particular a goroutine only ever writes
\* frames with a legal status and a status stored as closeReceivedErr is legal.
LEMMA NativeStepType ==
  ASSUME NativeTypeOK, NEW p \in Procs, NativeStep(p)
  PROVE  NativeTypeOK'
<1>. USE ProcsAssumption, PeerAssumption
<1>1. CASE CloseBegin(p)
  <2>1. FlagsOK'  BY <1>1 DEF NativeTypeOK, FlagsOK, CloseBegin
  <2>2. ReadOK'  BY <1>1 DEF NativeTypeOK, ReadOK, CloseBegin
  <2>3. WireOK'  BY <1>1 DEF NativeTypeOK, WireOK, CloseBegin
  <2>4. ProcsOK'
    BY <1>1
       DEF NativeTypeOK, ProcsOK, CloseBegin, Labels, Returns, Goto,
           AfterClose, Errors
  <2>. QED  BY <2>1, <2>2, <2>3, <2>4 DEF NativeTypeOK
<1>2. CASE CloseEnd(p)
  <2>1. FlagsOK'  BY <1>2 DEF NativeTypeOK, FlagsOK, CloseEnd
  <2>2. ReadOK'  BY <1>2 DEF NativeTypeOK, ReadOK, CloseEnd
  <2>3. WireOK'  BY <1>2 DEF NativeTypeOK, WireOK, CloseEnd
  <2>4. ProcsOK'
    BY <1>2
       DEF NativeTypeOK, ProcsOK, CloseEnd, Labels, Returns, Goto, AfterClose
  <2>. QED  BY <2>1, <2>2, <2>3, <2>4 DEF NativeTypeOK
<1>3. CASE WaitClosed(p)
  <2>1. FlagsOK'  BY <1>3 DEF NativeTypeOK, FlagsOK, WaitClosed
  <2>2. ReadOK'  BY <1>3 DEF NativeTypeOK, ReadOK, WaitClosed
  <2>3. WireOK'  BY <1>3 DEF NativeTypeOK, WireOK, WaitClosed
  <2>4. ProcsOK'
    BY <1>3
       DEF NativeTypeOK, ProcsOK, WaitClosed, Labels, Returns, Goto, AfterClose
  <2>. QED  BY <2>1, <2>2, <2>3, <2>4 DEF NativeTypeOK
<1>4. CASE WLock(p)
  <2>1. FlagsOK'  BY <1>4 DEF NativeTypeOK, FlagsOK, WLock
  <2>2. ReadOK'  BY <1>4 DEF NativeTypeOK, ReadOK, WLock
  <2>3. WireOK'  BY <1>4 DEF NativeTypeOK, WireOK, WLock
  <2>4. ProcsOK'
    BY <1>4
       DEF NativeTypeOK, ProcsOK, WLock, Labels, Returns, Goto, WriteReturn,
           FreshTimeout, Errors
  <2>. QED  BY <2>1, <2>2, <2>3, <2>4 DEF NativeTypeOK
<1>5. CASE WWrite(p)
  <2>1. FlagsOK'  BY <1>5 DEF NativeTypeOK, FlagsOK, WWrite, ProcsOK
  <2>2. ReadOK'  BY <1>5 DEF NativeTypeOK, ReadOK, WWrite, ProcsOK
  <2>3. WireOK'  BY <1>5 DEF NativeTypeOK, WireOK, WWrite, ProcsOK
  <2>4. ProcsOK'
    BY <1>5
       DEF NativeTypeOK, ProcsOK, WWrite, Labels, Returns, Goto, WriteReturn,
           FreshTimeout, Errors
  <2>. QED  BY <2>1, <2>2, <2>3, <2>4 DEF NativeTypeOK
<1>6. CASE WFail(p)
  <2>1. FlagsOK'  BY <1>6 DEF NativeTypeOK, FlagsOK, WFail
  <2>2. ReadOK'  BY <1>6 DEF NativeTypeOK, ReadOK, WFail
  <2>3. WireOK'  BY <1>6 DEF NativeTypeOK, WireOK, WFail
  <2>4. ProcsOK'
    BY <1>6
       DEF NativeTypeOK, ProcsOK, WFail, Labels, Returns, Goto, WriteReturn,
           FreshTimeout, Errors
  <2>. QED  BY <2>1, <2>2, <2>3, <2>4 DEF NativeTypeOK
<1>7. CASE WSent(p)
  <2>1. FlagsOK'  BY <1>7 DEF NativeTypeOK, FlagsOK, WSent
  <2>2. ReadOK'  BY <1>7 DEF NativeTypeOK, ReadOK, WSent
  <2>3. WireOK'  BY <1>7 DEF NativeTypeOK, WireOK, WSent
  <2>4. ProcsOK'
    BY <1>7
       DEF NativeTypeOK, ProcsOK, WSent, Labels, Returns, Goto, WriteReturn,
           FreshTimeout, Errors
  <2>. QED  BY <2>1, <2>2, <2>3, <2>4 DEF NativeTypeOK
<1>8. CASE ReadEnds(p)
  <2>1. FlagsOK'  BY <1>8 DEF NativeTypeOK, FlagsOK, ReadEnds
  <2>2. ReadOK'  BY <1>8 DEF NativeTypeOK, ReadOK, ReadEnds
  <2>3. WireOK'  BY <1>8 DEF NativeTypeOK, WireOK, ReadEnds
  <2>4. ProcsOK'
    BY <1>8 DEF NativeTypeOK, ProcsOK, ReadEnds, Labels, Returns, Goto
  <2>. QED  BY <2>1, <2>2, <2>3, <2>4 DEF NativeTypeOK
<1>9. CASE pc[p] \in {"rdHead", "hsRead"} /\ ReadPing(p)
  <2>1. FlagsOK'
    BY <1>9, ReceiveType, ChunkFacts DEF NativeTypeOK, FlagsOK, ReadPing
  <2>2. ReadOK'
    BY <1>9, ReceiveType, ChunkFacts DEF NativeTypeOK, ReadOK, ReadPing
  <2>3. WireOK'
    BY <1>9, ReceiveType, ChunkFacts DEF NativeTypeOK, WireOK, ReadPing
  <2>4. ProcsOK'
    BY <1>9, ReceiveType, ChunkFacts, FrameFacts
       DEF NativeTypeOK, ProcsOK, ReadPing, Labels, Returns, Goto, StartWrite,
           FreshTimeout, Errors
  <2>. QED  BY <2>1, <2>2, <2>3, <2>4 DEF NativeTypeOK
<1>10. CASE ReadPong(p)
  <2>0. Head(inbox)[2] \in Pingers
    <3>1. Head(inbox) \in Chunk /\ Head(inbox)[1] = "pong"
      BY <1>10, ReceiveType DEF ReadPong
    <3>. QED  BY <3>1, ChunkFacts
  <2>1. FlagsOK'
    BY <1>10, <2>0, ReceiveType DEF NativeTypeOK, FlagsOK, ReadPong
  <2>2. ReadOK'  BY <1>10, <2>0, ReceiveType DEF NativeTypeOK, ReadOK, ReadPong
  <2>3. WireOK'  BY <1>10, <2>0, ReceiveType DEF NativeTypeOK, WireOK, ReadPong
  <2>4. ProcsOK'
    BY <1>10, ReceiveType, ChunkFacts DEF NativeTypeOK, ProcsOK, ReadPong
  <2>. QED  BY <2>1, <2>2, <2>3, <2>4 DEF NativeTypeOK
<1>11. CASE ReadBad(p)
  <2>1. FlagsOK'
    BY <1>11, ReceiveType, ChunkFacts DEF NativeTypeOK, FlagsOK, ReadBad
  <2>2. ReadOK'
    BY <1>11, ReceiveType, ChunkFacts DEF NativeTypeOK, ReadOK, ReadBad
  <2>3. WireOK'
    BY <1>11, ReceiveType, ChunkFacts DEF NativeTypeOK, WireOK, ReadBad
  <2>4. ProcsOK'
    BY <1>11, ReceiveType, ChunkFacts, FrameFacts
       DEF NativeTypeOK, ProcsOK, ReadBad, Labels, Returns, Goto, StartWrite,
           FreshTimeout, Errors, Status
  <2>. QED  BY <2>1, <2>2, <2>3, <2>4 DEF NativeTypeOK
<1>12. CASE ReadUnmasked(p)
  <2>1. FlagsOK'
    BY <1>12, ReceiveType, ChunkFacts DEF NativeTypeOK, FlagsOK, ReadUnmasked
  <2>2. ReadOK'
    BY <1>12, ReceiveType, ChunkFacts DEF NativeTypeOK, ReadOK, ReadUnmasked
  <2>3. WireOK'
    BY <1>12, ReceiveType, ChunkFacts DEF NativeTypeOK, WireOK, ReadUnmasked
  <2>4. ProcsOK'
    BY <1>12, ReceiveType, ChunkFacts
       DEF NativeTypeOK, ProcsOK, ReadUnmasked, Labels, Returns, Goto, Errors
  <2>. QED  BY <2>1, <2>2, <2>3, <2>4 DEF NativeTypeOK
<1>13. CASE ReadClose(p)
  <2>0. closeReceived' \in Status
    <3>1. Head(inbox) \in Chunk /\ Head(inbox)[1] = "close"
      BY <1>13, ReceiveType DEF ReadClose
    <3>. QED  BY <1>13, <3>1, ChunkFacts DEF ReadClose
  <2>1. FlagsOK'
    BY <1>13, <2>0 DEF NativeTypeOK, FlagsOK, ReadClose
  <2>2. ReadOK'
    BY <1>13, ReceiveType, ChunkFacts DEF NativeTypeOK, ReadOK, ReadClose
  <2>3. WireOK'
    BY <1>13, ReceiveType, ChunkFacts DEF NativeTypeOK, WireOK, ReadClose
  <2>4. ProcsOK'
    BY <1>13, ReceiveType, ChunkFacts, FrameFacts
       DEF NativeTypeOK, ProcsOK, ReadClose, Labels, Returns, Goto, StartWrite,
           FreshTimeout, Errors
  <2>. QED  BY <2>1, <2>2, <2>3, <2>4 DEF NativeTypeOK
<1>14. CASE ReadCas(p)
  <2>1. FlagsOK'  BY <1>14 DEF NativeTypeOK, FlagsOK, ReadCas
  <2>2. ReadOK'  BY <1>14 DEF NativeTypeOK, ReadOK, ReadCas
  <2>3. WireOK'  BY <1>14 DEF NativeTypeOK, WireOK, ReadCas
  <2>4. ProcsOK'
    BY <1>14 DEF NativeTypeOK, ProcsOK, ReadCas, Labels, Returns, Goto
  <2>. QED  BY <2>1, <2>2, <2>3, <2>4 DEF NativeTypeOK
<1>15. CASE Fin(p)
  <2>1. FlagsOK'  BY <1>15 DEF NativeTypeOK, FlagsOK, Fin
  <2>2. ReadOK'  BY <1>15 DEF NativeTypeOK, ReadOK, Fin
  <2>3. WireOK'  BY <1>15 DEF NativeTypeOK, WireOK, Fin
  <2>4. ProcsOK'
    BY <1>15 DEF NativeTypeOK, ProcsOK, Fin, Labels, Returns, Goto, Errors
  <2>. QED  BY <2>1, <2>2, <2>3, <2>4 DEF NativeTypeOK
<1>16. CASE HsLock
  <2>1. FlagsOK'  BY <1>16 DEF NativeTypeOK, FlagsOK, HsLock
  <2>2. ReadOK'  BY <1>16 DEF NativeTypeOK, ReadOK, HsLock
  <2>3. WireOK'  BY <1>16 DEF NativeTypeOK, WireOK, HsLock
  <2>4. ProcsOK'
    BY <1>16 DEF NativeTypeOK, ProcsOK, HsLock, Labels, Returns, Goto, Errors
  <2>. QED  BY <2>1, <2>2, <2>3, <2>4 DEF NativeTypeOK
<1>17. CASE HsDrain
  <2>1. FlagsOK'  BY <1>17 DEF NativeTypeOK, FlagsOK, HsDrain
  <2>2. ReadOK'  BY <1>17 DEF NativeTypeOK, ReadOK, HsDrain
  <2>3. WireOK'
    <3>1. inbox \in Seq(Chunk) /\ UNCHANGED <<rest, outbox, sent, peer, stalled>>
      BY <1>17 DEF NativeTypeOK, WireOK, HsDrain
    <3>2. inbox' = inbox \/ (inbox # <<>> /\ inbox' = Tail(inbox))
      BY <1>17 DEF HsDrain
    <3>3. inbox' \in Seq(Chunk)
      BY <3>1, <3>2
    <3>. QED  BY <3>1, <3>3 DEF NativeTypeOK, WireOK
  <2>4. ProcsOK'
    BY <1>17 DEF NativeTypeOK, ProcsOK, HsDrain, Labels, Returns, Goto, Errors
  <2>. QED  BY <2>1, <2>2, <2>3, <2>4 DEF NativeTypeOK
<1>18. CASE HsSkip
  <2>1. FlagsOK'
    BY <1>18, ReceiveType, ChunkFacts DEF NativeTypeOK, FlagsOK, HsSkip
  <2>2. ReadOK'
    BY <1>18, ReceiveType, ChunkFacts DEF NativeTypeOK, ReadOK, HsSkip
  <2>3. WireOK'
    BY <1>18, ReceiveType, ChunkFacts DEF NativeTypeOK, WireOK, HsSkip
  <2>4. ProcsOK'
    BY <1>18, ReceiveType, ChunkFacts
       DEF NativeTypeOK, ProcsOK, HsSkip, Labels, Returns, Goto
  <2>. QED  BY <2>1, <2>2, <2>3, <2>4 DEF NativeTypeOK
<1>19. CASE RdLock
  <2>1. FlagsOK'  BY <1>19 DEF NativeTypeOK, FlagsOK, RdLock
  <2>2. ReadOK'  BY <1>19 DEF NativeTypeOK, ReadOK, RdLock
  <2>3. WireOK'  BY <1>19 DEF NativeTypeOK, WireOK, RdLock
  <2>4. ProcsOK'
    BY <1>19 DEF NativeTypeOK, ProcsOK, RdLock, Labels, Returns, Goto, Errors
  <2>. QED  BY <2>1, <2>2, <2>3, <2>4 DEF NativeTypeOK
<1>20. CASE RdHead
  <2>1. FlagsOK'
    BY <1>20, ReceiveType, ChunkFacts DEF NativeTypeOK, FlagsOK, RdHead
  <2>2. ReadOK'
    BY <1>20, ReceiveType, ChunkFacts DEF NativeTypeOK, ReadOK, RdHead
  <2>3. WireOK'
    BY <1>20, ReceiveType, ChunkFacts DEF NativeTypeOK, WireOK, RdHead
  <2>4. ProcsOK'
    BY <1>20, ReceiveType, ChunkFacts
       DEF NativeTypeOK, ProcsOK, RdHead, Labels, Returns, Goto
  <2>. QED  BY <2>1, <2>2, <2>3, <2>4 DEF NativeTypeOK
<1>21. CASE RdBody
  <2>1. FlagsOK'
    BY <1>21, ReceiveType, ChunkFacts DEF NativeTypeOK, FlagsOK, RdBody
  <2>2. ReadOK'
    BY <1>21, ReceiveType, ChunkFacts DEF NativeTypeOK, ReadOK, RdBody
  <2>3. WireOK'
    BY <1>21, ReceiveType, ChunkFacts DEF NativeTypeOK, WireOK, RdBody
  <2>4. ProcsOK'
    BY <1>21, ReceiveType, ChunkFacts
       DEF NativeTypeOK, ProcsOK, RdBody, Labels, Returns, Goto
  <2>. QED  BY <2>1, <2>2, <2>3, <2>4 DEF NativeTypeOK
<1>22. CASE RdTooBig
  <2>1. FlagsOK'
    BY <1>22, ReceiveType, ChunkFacts DEF NativeTypeOK, FlagsOK, RdTooBig
  <2>2. ReadOK'
    BY <1>22, ReceiveType, ChunkFacts DEF NativeTypeOK, ReadOK, RdTooBig
  <2>3. WireOK'
    BY <1>22, ReceiveType, ChunkFacts DEF NativeTypeOK, WireOK, RdTooBig
  <2>4. ProcsOK'
    BY <1>22, ReceiveType, ChunkFacts, FrameFacts
       DEF NativeTypeOK, ProcsOK, RdTooBig, Labels, Returns, Goto, StartWrite,
           FreshTimeout, Errors, Status
  <2>. QED  BY <2>1, <2>2, <2>3, <2>4 DEF NativeTypeOK
<1>23. CASE p \in Writers /\ MLock(p)
  <2>1. FlagsOK'  BY <1>23 DEF NativeTypeOK, FlagsOK, MLock
  <2>2. ReadOK'  BY <1>23 DEF NativeTypeOK, ReadOK, MLock
  <2>3. WireOK'  BY <1>23 DEF NativeTypeOK, WireOK, MLock
  <2>4. ProcsOK'
    BY <1>23, FrameFacts
       DEF NativeTypeOK, ProcsOK, MLock, Labels, Returns, Goto, StartWrite,
           FreshTimeout, Errors
  <2>. QED  BY <2>1, <2>2, <2>3, <2>4 DEF NativeTypeOK
<1>24. CASE p \in Pingers /\ PingWait(p)
  <2>1. FlagsOK'  BY <1>24 DEF NativeTypeOK, FlagsOK, PingWait
  <2>2. ReadOK'  BY <1>24 DEF NativeTypeOK, ReadOK, PingWait
  <2>3. WireOK'  BY <1>24 DEF NativeTypeOK, WireOK, PingWait
  <2>4. ProcsOK'
    BY <1>24 DEF NativeTypeOK, ProcsOK, PingWait, Labels, Returns, Goto, Errors
  <2>. QED  BY <2>1, <2>2, <2>3, <2>4 DEF NativeTypeOK
<1>25. CASE CloseWriter(p)
  <2>1. FlagsOK'  BY <1>25 DEF NativeTypeOK, FlagsOK, CloseWriter
  <2>2. ReadOK'  BY <1>25 DEF NativeTypeOK, ReadOK, CloseWriter
  <2>3. WireOK'  BY <1>25 DEF NativeTypeOK, WireOK, CloseWriter
  <2>4. ProcsOK'
    BY <1>25 DEF NativeTypeOK, ProcsOK, CloseWriter, Labels, Returns, Goto
  <2>. QED  BY <2>1, <2>2, <2>3, <2>4 DEF NativeTypeOK
<1>. QED
  BY <1>1, <1>2, <1>3, <1>4, <1>5, <1>6, <1>7, <1>8, <1>9, <1>10, <1>11, <1>12,
         <1>13, <1>14, <1>15, <1>16, <1>17, <1>18, <1>19, <1>20, <1>21, <1>22,
         <1>23, <1>24, <1>25
  DEF NativeStep, ReadLoop, RdBodyEnds

\* Contexts, timers and the peer keep the types as well.
LEMMA EnvironmentType ==
  ASSUME NativeTypeOK, Clock \/ Peer
  PROVE  NativeTypeOK'
<1>. USE ProcsAssumption, PeerAssumption
<1>1. CASE \E p \in Callers : Cancel(p)
  <2>1. FlagsOK'  BY <1>1 DEF NativeTypeOK, FlagsOK, Cancel
  <2>2. ReadOK'  BY <1>1 DEF NativeTypeOK, ReadOK, Cancel
  <2>3. WireOK'  BY <1>1 DEF NativeTypeOK, WireOK, Cancel
  <2>4. ProcsOK'
    BY <1>1 DEF NativeTypeOK, ProcsOK, Cancel
  <2>. QED  BY <2>1, <2>2, <2>3, <2>4 DEF NativeTypeOK
<1>2. CASE \E p \in Procs : Expire(p)
  <2>1. FlagsOK'  BY <1>2 DEF NativeTypeOK, FlagsOK, Expire
  <2>2. ReadOK'  BY <1>2 DEF NativeTypeOK, ReadOK, Expire
  <2>3. WireOK'  BY <1>2 DEF NativeTypeOK, WireOK, Expire
  <2>4. ProcsOK'
    BY <1>2 DEF NativeTypeOK, ProcsOK, Expire
  <2>. QED  BY <2>1, <2>2, <2>3, <2>4 DEF NativeTypeOK
<1>3. CASE \E p \in Procs : Fire(p)
  <2>1. FlagsOK'  BY <1>3 DEF NativeTypeOK, FlagsOK, Fire
  <2>2. ReadOK'  BY <1>3 DEF NativeTypeOK, ReadOK, Fire
  <2>3. WireOK'  BY <1>3 DEF NativeTypeOK, WireOK, Fire
  <2>4. ProcsOK'
    BY <1>3 DEF NativeTypeOK, ProcsOK, Fire, Labels, Returns, Goto
  <2>. QED  BY <2>1, <2>2, <2>3, <2>4 DEF NativeTypeOK
<1>4. CASE \E k \in FrameKinds : PeerSend(k)
  <2>1. FlagsOK'
    BY <1>4, PeerFacts DEF NativeTypeOK, FlagsOK, PeerSend, Chunks, FrameKinds
  <2>2. ReadOK'
    BY <1>4, PeerFacts DEF NativeTypeOK, ReadOK, PeerSend, Chunks, FrameKinds
  <2>3. WireOK'
    <3>1. PICK k \in FrameKinds : PeerSend(k)
      BY <1>4
    <3>2. /\ Head(Chunks(k, sent + 1)) \in Chunk
          /\ Tail(Chunks(k, sent + 1)) \in Seq(Chunk)
      BY <3>1, ChunksType DEF NativeTypeOK, WireOK, PeerSend
    <3>. QED  BY <3>1, <3>2 DEF NativeTypeOK, WireOK, PeerSend
  <2>4. ProcsOK'
    BY <1>4 DEF NativeTypeOK, ProcsOK, PeerSend
  <2>. QED  BY <2>1, <2>2, <2>3, <2>4 DEF NativeTypeOK
<1>5. CASE PeerRest
  <2>1. FlagsOK'  BY <1>5 DEF NativeTypeOK, FlagsOK, PeerRest
  <2>2. ReadOK'  BY <1>5 DEF NativeTypeOK, ReadOK, PeerRest
  <2>3. WireOK'  BY <1>5 DEF NativeTypeOK, WireOK, PeerRest
  <2>4. ProcsOK'
    BY <1>5 DEF NativeTypeOK, ProcsOK, PeerRest
  <2>. QED  BY <2>1, <2>2, <2>3, <2>4 DEF NativeTypeOK
<1>6. CASE \E s \in Status : PeerClose(s)
  <2>1. FlagsOK'  BY <1>6, PeerFacts DEF NativeTypeOK, FlagsOK, PeerClose
  <2>2. ReadOK'  BY <1>6, PeerFacts DEF NativeTypeOK, ReadOK, PeerClose
  <2>3. WireOK'  BY <1>6, PeerFacts DEF NativeTypeOK, WireOK, PeerClose
  <2>4. ProcsOK'
    BY <1>6 DEF NativeTypeOK, ProcsOK, PeerClose
  <2>. QED  BY <2>1, <2>2, <2>3, <2>4 DEF NativeTypeOK
<1>7. CASE \E p \in Pingers : PeerPong(p)
  <2>1. FlagsOK'  BY <1>7, PeerFacts DEF NativeTypeOK, FlagsOK, PeerPong
  <2>2. ReadOK'  BY <1>7, PeerFacts DEF NativeTypeOK, ReadOK, PeerPong
  <2>3. WireOK'  BY <1>7, PeerFacts DEF NativeTypeOK, WireOK, PeerPong
  <2>4. ProcsOK'
    BY <1>7 DEF NativeTypeOK, ProcsOK, PeerPong
  <2>. QED  BY <2>1, <2>2, <2>3, <2>4 DEF NativeTypeOK
<1>8. CASE PeerGone
  <2>1. FlagsOK'  BY <1>8 DEF NativeTypeOK, FlagsOK, PeerGone
  <2>2. ReadOK'  BY <1>8 DEF NativeTypeOK, ReadOK, PeerGone
  <2>3. WireOK'  BY <1>8 DEF NativeTypeOK, WireOK, PeerGone
  <2>4. ProcsOK'
    BY <1>8 DEF NativeTypeOK, ProcsOK, PeerGone
  <2>. QED  BY <2>1, <2>2, <2>3, <2>4 DEF NativeTypeOK
<1>9. CASE PeerStall
  <2>1. FlagsOK'  BY <1>9 DEF NativeTypeOK, FlagsOK, PeerStall
  <2>2. ReadOK'  BY <1>9 DEF NativeTypeOK, ReadOK, PeerStall
  <2>3. WireOK'  BY <1>9 DEF NativeTypeOK, WireOK, PeerStall
  <2>4. ProcsOK'
    BY <1>9 DEF NativeTypeOK, ProcsOK, PeerStall
  <2>. QED  BY <2>1, <2>2, <2>3, <2>4 DEF NativeTypeOK
<1>. QED
  BY <1>1, <1>2, <1>3, <1>4, <1>5, <1>6, <1>7, <1>8, <1>9 DEF Clock, Peer

-----------------------------------------------------------------------------
(* The wrapper.  The status of the close frame is the one closeOnce stored, *)
(* so the types rest on the fact that the goroutine runs only after it.     *)

\* The goroutine of closeOnce runs only once a caller's status is stored.
CloseGoStarted ==
  /\ pc[CloseGo] # "idle" => once
  /\ once => code \in AppStatus

\* The inductive form of TypeOK.
TypeInv == TypeOK /\ CloseGoStarted

\* The initial state of a fresh connection is well typed.
LEMMA InitType == Init => TypeInv
<1>. SUFFICES ASSUME Init PROVE TypeInv
  OBVIOUS
<1>. USE ProcsAssumption DEF Init, NativeInit
<1>1. FlagsOK  BY DEF FlagsOK
<1>2. ProcsOK  BY FrameFacts DEF ProcsOK, Labels, Returns, Errors
<1>3. ReadOK  BY PeerFacts DEF ReadOK
<1>4. WireOK
  <2>1. <<>> \in Seq(Chunk) /\ <<>> \in Seq(Frame)
    OBVIOUS
  <2>. QED  BY <2>1 DEF WireOK
<1>5. CloseGoStarted  BY DEF CloseGoStarted
<1>. QED  BY <1>1, <1>2, <1>3, <1>4, <1>5
          DEF TypeInv, TypeOK, NativeTypeOK, Errors

\* A step inside the library neither starts the goroutine of closeOnce nor
\* changes the status it was given.
LEMMA NativeStepStarted ==
  ASSUME TypeInv, NEW p \in Procs, NativeStep(p), UNCHANGED wrapVars
  PROVE  CloseGoStarted'
<1>. USE ProcsAssumption DEF TypeInv, TypeOK, CloseGoStarted
<1>1. code' = code
  BY DEF NativeStep, ReadLoop, RdBodyEnds, CloseBegin, CloseWriter, CloseEnd, WaitClosed,
         WLock, WWrite, WFail, WSent, ReadEnds, ReadPing, ReadPong, ReadBad,
         ReadUnmasked, ReadClose, ReadCas, Fin, HsLock, HsDrain, HsSkip,
                RdLock,
         RdHead, RdBody, RdTooBig, MLock, PingWait
<1>2. pc[p] # "idle"
  BY DEF NativeStep, ReadLoop, RdBodyEnds, CloseBegin, CloseWriter, CloseEnd, WaitClosed,
         WLock, WWrite, WFail, WSent, ReadCas, Fin, HsLock, HsDrain, HsSkip,
         RdLock, RdHead, RdBody, RdTooBig, MLock, PingWait
<1>3. \A q \in Procs \ {p} : pc'[q] = pc[q]
  BY DEF NativeTypeOK, ProcsOK, NativeStep, ReadLoop, RdBodyEnds, CloseBegin,
         CloseWriter, CloseEnd, WaitClosed, WLock, WWrite, WFail, WSent, ReadEnds, ReadPing,
         ReadPong, ReadBad, ReadUnmasked, ReadClose, ReadCas, Fin, HsLock,
         HsDrain, HsSkip, RdLock, RdHead, RdBody, RdTooBig, MLock, PingWait,
         Goto, StartWrite, WriteReturn
<1>. QED  BY <1>1, <1>2, <1>3

\* Contexts, timers and the peer do not touch the goroutine of closeOnce.
LEMMA EnvironmentStarted ==
  ASSUME TypeInv, Clock \/ Peer
  PROVE  CloseGoStarted'
<1>1. code' = code /\ once' = once
  BY DEF Clock, Peer, Cancel, Expire, Fire, PeerSend, PeerRest, PeerClose,
         PeerPong, PeerGone, PeerStall
<1>2. pc'[CloseGo] = pc[CloseGo]
  BY DEF TypeInv, TypeOK, NativeTypeOK, ProcsOK, Clock, Peer, Cancel, Expire,
         Fire, PeerSend, PeerRest, PeerClose, PeerPong, PeerGone, PeerStall,
                Goto
<1>. QED  BY <1>1, <1>2 DEF TypeInv, CloseGoStarted

\* One call of the application, or one step of the wrapper's own, is well
\* typed: a close frame is only built from a status validStatus accepted.
LEMMA WrapperType ==
  ASSUME TypeInv,
         \/ Call
         \/ \E p \in Procs : CasClosing(p)
         \/ Publish \/ Signal
         \/ \E c \in Closers : CloseVerdict(c) \/ CloseForce(c) \/ CloseAwait(c)
  PROVE  TypeInv'
<1>. USE ProcsAssumption, PeerAssumption DEF TypeInv, TypeOK, CloseGoStarted
<1>1. ASSUME NEW c \in Closers, NEW s \in Codes,
             CloseInvalid(c, s) \/ CloseCancelled(c, s)
      PROVE  TypeInv'
  <2>1. FlagsOK' /\ ReadOK' /\ WireOK' /\ UNCHANGED wrapVars
    BY <1>1 DEF CloseInvalid, CloseCancelled, NativeTypeOK, FlagsOK, ReadOK, WireOK
  <2>2. ProcsOK' /\ CloseGoStarted'
    BY <1>1 DEF CloseInvalid, CloseCancelled, NativeTypeOK, ProcsOK, Goto,
                Labels, Returns, Errors
  <2>. QED  BY <2>1, <2>2 DEF NativeTypeOK
<1>2. ASSUME NEW c \in Closers, NEW s \in Codes, CloseCall(c, s)
      PROVE  TypeInv'
  <2>1. code' \in AppStatus
    BY <1>2 DEF CloseCall, ValidStatus
  <2>2. FlagsOK' /\ ReadOK' /\ WireOK'
    BY <1>2, <2>1 DEF CloseCall, NativeTypeOK, FlagsOK, ReadOK, WireOK
  <2>3. ProcsOK'
    BY <1>2 DEF CloseCall, NativeTypeOK, ProcsOK, Labels
  <2>. QED  BY <1>2, <2>1, <2>2, <2>3 DEF CloseCall, NativeTypeOK
<1>3. CASE Read \/ (\E w \in Writers : Write(w)) \/ (\E p \in Pingers : Ping(p))
  <2>1. UNCHANGED <<flagVars, lockVars, readVars, peerVars, wireVars, wrapVars>>
    BY <1>3 DEF Read, Write, Ping
  <2>2. ProcsOK'
    BY <1>3, FrameFacts
       DEF Read, Write, Ping, NativeTypeOK, ProcsOK, Goto, StartWrite,
           FreshTimeout, Labels, Returns, Errors
  <2>3. pc'[CloseGo] = pc[CloseGo]
    <3>1. CASE Read
      BY <3>1 DEF Read, NativeTypeOK, ProcsOK, Goto, Reader, CloseGo
    <3>2. ASSUME NEW w \in Writers, Write(w) PROVE pc'[CloseGo] = pc[CloseGo]
      BY <3>2 DEF Write, NativeTypeOK, ProcsOK, Goto
    <3>3. ASSUME NEW p \in Pingers, Ping(p) PROVE pc'[CloseGo] = pc[CloseGo]
      BY <3>3 DEF Ping, NativeTypeOK, ProcsOK, Goto, StartWrite
    <3>. QED  BY <1>3, <3>1, <3>2, <3>3
  <2>4. FlagsOK' /\ ReadOK' /\ WireOK' /\ CloseGoStarted'
    BY <2>1, <2>3 DEF NativeTypeOK, FlagsOK, ReadOK, WireOK
  <2>. QED  BY <2>1, <2>2, <2>4 DEF NativeTypeOK
<1>4. ASSUME NEW p \in Procs, CasClosing(p)
      PROVE  TypeInv'
  <2>1. pc[p] = "cas" /\ p = CloseGo => <<"close", code>> \in Frame
    BY FrameFacts DEF Status
  <2>2. FlagsOK' /\ ReadOK' /\ WireOK' /\ UNCHANGED <<code, wrapVars>>
    BY <1>4 DEF CasClosing, NativeTypeOK, FlagsOK, ReadOK, WireOK
  <2>3. ProcsOK' /\ CloseGoStarted'
    <3>1. CASE closing \/ p # CloseGo
      BY <1>4, <2>2, <3>1 DEF CasClosing, NativeTypeOK, ProcsOK, Goto, Labels
    <3>2. CASE ~closing /\ p = CloseGo
      BY <1>4, <2>1, <2>2, <3>2
         DEF CasClosing, NativeTypeOK, ProcsOK, Goto, StartWrite, FreshTimeout,
             Labels, Returns
    <3>. QED  BY <3>1, <3>2
  <2>. QED  BY <2>2, <2>3 DEF NativeTypeOK
<1>5. CASE Publish \/ Signal
  <2>1. FlagsOK' /\ ReadOK' /\ WireOK' /\ UNCHANGED <<code, once>>
    BY <1>5 DEF Publish, Signal, NativeTypeOK, FlagsOK, ReadOK, WireOK
  <2>2. ProcsOK'
    BY <1>5 DEF Publish, Signal, NativeTypeOK, ProcsOK, Goto, Labels
  <2>3. closeErr' \in Errors /\ closeDone' \in BOOLEAN
    <3>1. "nil" \in Errors /\ err[CloseGo] \in Errors
      BY DEF NativeTypeOK, ProcsOK, Errors
    <3>. QED  BY <1>5, <3>1 DEF Publish, Signal
  <2>4. CloseGoStarted'
    BY <1>5, <2>1 DEF Publish, Signal
  <2>. QED  BY <2>1, <2>2, <2>3, <2>4 DEF NativeTypeOK
<1>6. ASSUME NEW c \in Closers, CloseVerdict(c) \/ CloseForce(c) \/ CloseAwait(c)
      PROVE  TypeInv'
  <2>1. FlagsOK' /\ ReadOK' /\ WireOK' /\ UNCHANGED wrapVars /\ code' = code
    BY <1>6 DEF CloseVerdict, CloseForce, CloseAwait, NativeTypeOK, FlagsOK,
                ReadOK, WireOK
  <2>2. ProcsOK'
    BY <1>6 DEF CloseVerdict, CloseForce, CloseAwait, NativeTypeOK, ProcsOK,
                Goto, Labels, Returns, Errors
  <2>3. CloseGoStarted'
    BY <1>6, <2>1 DEF CloseVerdict, CloseForce, CloseAwait, NativeTypeOK,
                      ProcsOK, Goto
  <2>. QED  BY <2>1, <2>2, <2>3 DEF NativeTypeOK
<1>. QED  BY <1>1, <1>2, <1>3, <1>4, <1>5, <1>6 DEF Call

\* Every step of the specification keeps the types.
LEMMA NextType == TypeInv /\ [Next]_vars => TypeInv'
<1>. SUFFICES ASSUME TypeInv, [Next]_vars PROVE TypeInv'
  OBVIOUS
<1>1. ASSUME NEW p \in Procs, NativeStep(p), UNCHANGED wrapVars
      PROVE  TypeInv'
  BY <1>1, NativeStepType, NativeStepStarted DEF TypeInv, TypeOK
<1>2. CASE Clock \/ Peer
  BY <1>2, EnvironmentType, EnvironmentStarted DEF TypeInv, TypeOK, Clock, Peer
<1>3. CASE UNCHANGED vars
  BY <1>3 DEF vars, nativeVars, TypeInv, TypeOK, NativeTypeOK, FlagsOK, ProcsOK,
              ReadOK, WireOK, CloseGoStarted
<1>. QED  BY <1>1, <1>2, <1>3, WrapperType DEF Next, Step

\* Connection, Conn: whatever the application, the peer, the timers and the
\* scheduler do, every variable keeps its type; in particular only statuses
\* that validStatus accepted or the library chose itself are sent.
THEOREM TypeCorrect == Spec => []TypeOK
<1>1. Spec => []TypeInv
  BY InitType, NextType, PTL DEF Spec
<1>2. TypeInv => TypeOK
  BY DEF TypeInv
<1>. QED  BY <1>1, <1>2, PTL

=============================================================================

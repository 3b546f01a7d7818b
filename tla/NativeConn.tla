----------------------------- MODULE NativeConn -----------------------------
(***************************************************************************)
(* The connection object of the vendored github.com/coder/websocket        *)
(* library, as the starter uses it: the two atomic close flags, the three  *)
(* channel-based locks, the close handshake, and the frame reader and      *)
(* writer that every goroutine holding the connection shares.              *)
(*                                                                         *)
(* This module declares the state and the steps of one goroutine p inside  *)
(* the library.  Connection adds the wrapper that starts those goroutines. *)
(*                                                                         *)
(* Every lock is the library's mu: a channel of capacity one, released by  *)
(* a non-blocking receive, so a goroutine may release a lock it does not   *)
(* hold.  A lock is therefore only a BOOLEAN ("the channel is full").      *)
(*                                                                         *)
(* A message on the wire is a header chunk and one or two payload chunks;  *)
(* a control frame is one chunk.  Payload bytes are abstracted to the      *)
(* identity of the message they belong to.                                 *)
(***************************************************************************)
EXTENDS Naturals, Sequences, FiniteSets

CONSTANTS
  Closers,     \* goroutines that call Connection.Close
  Writers,     \* goroutines that call Connection.Write
  Pingers,     \* goroutines that call Connection.Ping
  Client,      \* TRUE on the dialling side: close() also takes writeFrameMu
  Compressed,  \* TRUE if messages are written compressed, under writeMu
  PeerSends,   \* what the peer may send: a subset of FrameKinds
  PeerStatus,  \* the statuses a peer may start a close handshake with
  PeerFaults,  \* a subset of {"gone", "stall"}: how the peer may fail
  Cancellable, \* the callers whose context may be cancelled
  Codes,       \* the statuses the application calls Close with
  MaxFrames,   \* bound: frames the peer sends on its own initiative
  Stalls       \* TRUE if the peer may pause inside a frame for over 15s

\* The kinds of frame the peer may open; echoes and pongs are answers.
FrameKinds == {"data", "big", "bad", "ping", "close"}

\* What Connection.Close accepts, and what the library sends by itself.
AppStatus == {"NormalClosure", "GoingAway", "PolicyViolation", "InternalError"}
Status    == AppStatus \cup {"MessageTooBig", "ProtocolError"}

Errors == Status \cup
  {"nil", "ErrClosed", "ctx", "io", "cause", "protocol", "tooBig", "invalid"}

Reader  == "reader"   \* the one goroutine that calls Connection.Read
CloseGo == "closeGo"  \* the goroutine started by closeOnce
Timer   == "timer"    \* the context.AfterFunc goroutines of armed timeouts

Callers == Closers \cup Writers \cup Pingers \cup {Reader}
Procs   == Callers \cup {CloseGo, Timer}

ASSUME ProcsAssumption ==
  /\ Closers \cap Writers = {}
  /\ Closers \cap Pingers = {}
  /\ Writers \cap Pingers = {}
  /\ {Reader, CloseGo, Timer} \cap (Closers \cup Writers \cup Pingers) = {}

ASSUME PeerAssumption ==
  /\ Client \in BOOLEAN
  /\ Compressed \in BOOLEAN
  /\ Stalls \in BOOLEAN
  /\ PeerSends \subseteq FrameKinds
  /\ PeerStatus \subseteq Status
  /\ PeerFaults \subseteq {"gone", "stall"}
  /\ Cancellable \subseteq Callers
  /\ Codes \subseteq Status
  /\ MaxFrames \in Nat

VARIABLES
  closing,        \* Conn.closing: a close has been claimed
  closed,         \* Conn.closed: the channel is closed, the socket with it
  closeMu,        \* held by the goroutine inside Conn.close
  readMu,         \* Conn.readMu
  writeFrameMu,   \* Conn.writeFrameMu
  msgMu,          \* Conn.msgWriter.mu
  closeSent,      \* Conn.closeSentErr # nil
  code,           \* the status Conn.Close was called with, or "none"
  closeReceived,  \* Conn.closeReceivedErr: the peer's status, or "none"
  payload,        \* id of the message msgReader.payloadLength counts, or 0
  pongs,          \* activePings whose pong channel is full
  pc, frame, then, err,  \* per goroutine: where it is, the frame it writes,
                         \* where it goes on after that, the error it carries
  ctxDone,        \* callers whose context is done
  late,           \* goroutines whose current 5s timeout has expired
  got,            \* what Read has put together: <<header id, payload chunk>>
  inbox,          \* chunks sent by the peer and not yet read
  outbox,         \* frames flushed to the socket
  rest,           \* chunks the peer still owes of the frame it is sending
  sent,           \* frames the peer has sent on its own initiative
  peer,           \* "open", "closed" (has sent its close frame) or "gone"
  stalled         \* the peer no longer reads: writes block

flagVars == <<closing, closed, closeSent, closeReceived, code>>
lockVars == <<closeMu, readMu, writeFrameMu, msgMu>>
procVars == <<pc, frame, then, err>>
ctxVars  == <<ctxDone, late>>
readVars == <<payload, pongs, got>>
peerVars == <<rest, sent, peer, stalled>>
wireVars == <<inbox, outbox>>
nativeVars ==
  <<flagVars, lockVars, procVars, ctxVars, readVars, peerVars, wireVars>>

Goto(p, l) == pc' = [pc EXCEPT ![p] = l]

Labels ==
  {"idle", "ret", "done",                            \* not in a call
   "select", "cas", "await",                         \* Connection.Close
   "publish", "signal",                              \* its goroutine
   "close", "closeWait", "closeRead", "waitClosed",  \* Conn.close, CloseNow
   "wLock", "wWrite", "wSent",                       \* writeFrame
   "hsLock", "hsDrain", "hsRead",                    \* waitCloseHandshake
   "rdLock", "rdHead", "rdLock2", "rdBody",          \* Read
   "rdLock3", "rdCas",
   "mLock", "pgWait", "fin"}                         \* Write, Ping, defers

\* What travels from the peer ...
Chunk == ({"head", "over", "tail"} \X Nat) \cup ({"close"} \X Status)
         \cup {<<"ping", "peer">>, <<"bad", "peer">>} \cup ({"pong"} \X Pingers)
\* ... and to the peer.
Frame == ({"close"} \X Status) \cup ({"data"} \X Writers)
         \cup ({"ping"} \X Pingers) \cup {<<"pong", "peer">>, <<"none", "none">>}

\* Where a goroutine goes on after a frame it wrote or a close it made.
Returns == {"idle", "hsLock", "hsRead", "rdHead", "rdCas", "pgWait", "await",
            "fin", "ret"}

FlagsOK ==
  /\ closing \in BOOLEAN /\ closed \in BOOLEAN /\ closeSent \in BOOLEAN
  /\ closeMu \in BOOLEAN /\ readMu \in BOOLEAN
  /\ writeFrameMu \in BOOLEAN /\ msgMu \in BOOLEAN
  /\ closeReceived \in Status \cup {"none"}
  /\ code \in AppStatus \cup {"none"}

ProcsOK ==
  /\ pc \in [Procs -> Labels]
  /\ then \in [Procs -> Returns]
  /\ frame \in [Procs -> Frame]
  /\ err \in [Procs -> Errors]
  /\ ctxDone \subseteq Callers /\ late \subseteq Procs

ReadOK == payload \in Nat /\ got \in Nat \X Chunk /\ pongs \subseteq Pingers

WireOK ==
  /\ inbox \in Seq(Chunk) /\ rest \in Seq(Chunk) /\ outbox \in Seq(Frame)
  /\ sent \in Nat
  /\ peer \in {"open", "closed", "gone"}
  /\ stalled \in BOOLEAN

NativeTypeOK == FlagsOK /\ ProcsOK /\ ReadOK /\ WireOK

NativeInit ==
  /\ closing = FALSE /\ closed = FALSE
  /\ closeSent = FALSE /\ closeReceived = "none" /\ code = "none"
  /\ closeMu = FALSE /\ readMu = FALSE
  /\ writeFrameMu = FALSE /\ msgMu = FALSE
  /\ payload = 0 /\ pongs = {} /\ got = <<0, <<"tail", 0>>>>
  /\ pc = [p \in Procs |-> "idle"]
  /\ frame = [p \in Procs |-> <<"none", "none">>]
  /\ then = [p \in Procs |-> "idle"]
  /\ err = [p \in Procs |-> "nil"]
  /\ ctxDone = {} /\ late = {}
  /\ inbox = <<>> /\ outbox = <<>>
  /\ rest = <<>> /\ sent = 0 /\ peer = "open" /\ stalled = FALSE

-----------------------------------------------------------------------------
(* Contexts.  A write of a close frame runs under its own background        *)
(* timeout, everything else under the caller's context.                     *)

\* Faulty variant: only timeouts end an operation, the caller's context not.
OpDoneTimeoutOnly(p) == p \in late

OpDone(p) ==
  \/ p \in late
  \/ p \in ctxDone /\ ~(pc[p] \in {"wLock", "wWrite", "wSent"}
                        /\ frame[p][1] = "close")

\* The goroutine is inside the library under a five second timeout.
Timed(p) ==
  IF p = CloseGo
  THEN pc[p] \in {"wLock", "wWrite", "wSent", "hsLock", "hsDrain", "hsRead"}
  ELSE pc[p] \in {"wLock", "wWrite", "wSent"} /\ p \notin Writers

\* A timeout derived from the context of waitCloseHandshake outlives the pong.
FreshTimeout(p, f) ==
  late' = IF p = CloseGo /\ f[1] = "pong" THEN late ELSE late \ {p}

Cancel(p) ==
  /\ p \in Cancellable /\ pc[p] # "ret" /\ p \notin ctxDone
  /\ ctxDone' = ctxDone \cup {p}
  /\ UNCHANGED <<flagVars, lockVars, procVars, late, readVars, peerVars, wireVars>>

Expire(p) ==
  /\ Timed(p) /\ p \notin late
  /\ late' = late \cup {p}
  /\ UNCHANGED <<flagVars, lockVars, procVars, ctxDone, readVars, peerVars, wireVars>>

\* Faulty variant: reads are not armed with the context.
FireWritesOnly(p) ==
  /\ pc[p] \in {"wWrite", "wSent"} /\ OpDone(p) /\ ~closed
  /\ pc[Timer] = "idle" /\ Goto(Timer, "close")
  /\ UNCHANGED <<flagVars, lockVars, frame, then, err, ctxVars, readVars,
                 peerVars, wireVars>>

\* setupReadTimeout / setupWriteTimeout: once armed, the end of the context
\* closes the connection from a goroutine of its own.
Fire(p) ==
  /\ pc[p] \in {"wWrite", "wSent", "rdHead", "rdBody", "hsRead"}
  /\ pc[p] = "wWrite" => ~closeSent
  /\ OpDone(p) /\ ~closed
  /\ pc[Timer] = "idle" /\ Goto(Timer, "close")
  /\ UNCHANGED <<flagVars, lockVars, frame, then, err, ctxVars, readVars,
                 peerVars, wireVars>>

-----------------------------------------------------------------------------
(* Conn.close: only the first caller closes the socket; it then waits for   *)
(* the writer and the reader to let go of the buffers.                      *)

AfterClose(p) ==
  CASE p = CloseGo -> "publish"
    [] p = Timer   -> "done"
    [] OTHER       -> then[p]

\* p called close from inside writeFrame (see WSent), whose deferred unlock
\* releases writeFrameMu a second time, whoever holds it by then.
InWriteFrame(p) == p = Reader /\ then[p] = "rdCas"

CloseBegin(p) ==
  /\ pc[p] = "close" /\ ~closeMu
  /\ IF closed
     THEN /\ Goto(p, AfterClose(p))
          /\ writeFrameMu' = (writeFrameMu /\ ~InWriteFrame(p))
          /\ UNCHANGED <<closed, closeMu, err>>
     ELSE /\ closed' = TRUE /\ closeMu' = TRUE
          /\ Goto(p, "closeWait")
          /\ \/ UNCHANGED err
             \/ /\ p = CloseGo /\ err[p] = "nil"   \* rwc.Close failed
                /\ err' = [err EXCEPT ![p] = "io"]
          /\ UNCHANGED writeFrameMu
  /\ UNCHANGED <<closing, closeSent, closeReceived, code, readMu, msgMu, frame,
                 then, ctxVars, readVars, peerVars, wireVars>>

\* msgWriter.close: a client waits for the frame that is being written, and
\* keeps the lock: nothing writes to a closed connection.
CloseWriter(p) ==
  /\ pc[p] = "closeWait" /\ (Client => ~writeFrameMu)
  /\ writeFrameMu' = (Client \/ writeFrameMu)
  /\ Goto(p, "closeRead")
  /\ UNCHANGED <<flagVars, closeMu, readMu, msgMu, frame, then, err, ctxVars,
                 readVars, peerVars, wireVars>>

\* msgWriter.writeMu is taken around writeFrame only by a compressed message;
\* mw.mu keeps a second writer out, so the lock needs no state of its own.
WriteMu ==
  Compressed /\ \E w \in Writers : pc[w] \in {"wLock", "wWrite"}

\* Then it waits for a compressed message, and msgReader.close for the reader.
CloseEnd(p) ==
  /\ pc[p] = "closeRead" /\ ~WriteMu /\ ~readMu
  /\ readMu' = TRUE
  /\ closeMu' = FALSE
  /\ writeFrameMu' = (writeFrameMu /\ ~InWriteFrame(p))
  /\ Goto(p, AfterClose(p))
  /\ UNCHANGED <<flagVars, msgMu, frame, then, err, ctxVars, readVars,
                 peerVars, wireVars>>

\* Faulty variant: whoever lost the claim does not wait for the winner.
WaitClosedNot(p) ==
  /\ pc[p] = "waitClosed"
  /\ Goto(p, AfterClose(p))
  /\ UNCHANGED <<flagVars, lockVars, frame, then, err, ctxVars, readVars,
                 peerVars, wireVars>>

\* waitGoroutines: somebody else has claimed the close.  Its 15s outlast both
\* 5s timeouts of the handshake, but not a handshake stuck inside a frame.
WaitClosed(p) ==
  /\ pc[p] = "waitClosed"
  /\ \/ closed
     \/ Stalls /\ pc[CloseGo] = "hsDrain"
  /\ Goto(p, AfterClose(p))
  /\ UNCHANGED <<flagVars, lockVars, frame, then, err, ctxVars, readVars,
                 peerVars, wireVars>>

-----------------------------------------------------------------------------
(* writeFrame                                                               *)

StartWrite(p, f, next) ==
  /\ frame' = [frame EXCEPT ![p] = f]
  /\ then' = [then EXCEPT ![p] = next]
  /\ Goto(p, "wLock")
  /\ FreshTimeout(p, f)

\* Where p goes when writeFrame returned e.  writeClose ignores the error
\* of every close frame except that the handshake fails unless it is ErrClosed.
WriteReturn(p, e) ==
  LET handshake == frame[p][1] = "close" /\ then[p] = "hsLock"
      lost == /\ e # "nil"
              /\ frame[p][1] = "close" => handshake /\ e # "ErrClosed"
  IN /\ Goto(p, IF ~lost THEN then[p] ELSE IF handshake THEN "close" ELSE "fin")
     /\ err' = IF lost THEN [err EXCEPT ![p] = e] ELSE err
     /\ FreshTimeout(p, frame[p])

WLock(p) ==
  /\ pc[p] = "wLock"
  /\ \/ /\ ~writeFrameMu /\ ~closed
        /\ writeFrameMu' = TRUE
        /\ Goto(p, "wWrite")
        /\ UNCHANGED <<err, late>>
     \/ /\ \/ closed /\ WriteReturn(p, "ErrClosed")
           \/ OpDone(p) /\ WriteReturn(p, "ctx")
        /\ UNCHANGED writeFrameMu
  /\ UNCHANGED <<flagVars, closeMu, readMu, msgMu, frame, then, ctxDone,
                 readVars, peerVars, wireVars>>

\* Faulty variant: closeSentErr is not consulted before a frame is written.
WWriteAlways(p) ==
  /\ pc[p] = "wWrite" /\ ~closed /\ ~stalled
  /\ outbox' = Append(outbox, frame[p])
  /\ WriteReturn(p, "nil") /\ writeFrameMu' = FALSE
  /\ closeSent' = (closeSent \/ frame[p][1] = "close")
  /\ UNCHANGED <<closing, closed, closeReceived, code, closeMu, readMu, msgMu,
                 frame, then, ctxDone, readVars, peerVars, inbox>>

\* The frame reaches the socket.
WWrite(p) ==
  /\ pc[p] = "wWrite" /\ ~closeSent /\ ~closed /\ ~stalled
  /\ outbox' = Append(outbox, frame[p])
  /\ IF frame[p][1] = "close"
     THEN Goto(p, "wSent") /\ UNCHANGED <<writeFrameMu, err, late>>
     ELSE WriteReturn(p, "nil") /\ writeFrameMu' = FALSE
  /\ UNCHANGED <<flagVars, closeMu, readMu, msgMu, frame, then, ctxDone,
                 readVars, peerVars, inbox>>

\* The frame is refused, or the socket fails under it.
WFail(p) ==
  /\ pc[p] = "wWrite"
  /\ \/ closeSent \/ closed \/ peer = "gone"
  /\ WriteReturn(p, IF closed /\ frame[p][1] = "close" THEN "nil"
                    ELSE IF OpDone(p) THEN "ctx"
                    ELSE IF closed \/ closeSent THEN "ErrClosed"
                    ELSE "io")
  /\ writeFrameMu' = FALSE
  /\ UNCHANGED <<flagVars, closeMu, readMu, msgMu, frame, then, ctxDone,
                 readVars, peerVars, wireVars>>

\* A flushed close frame is recorded; the second half of a handshake that
\* nobody has claimed unlocks and closes the connection from here.
WSent(p) ==
  /\ pc[p] = "wSent"
  /\ closeSent' = TRUE
  /\ IF closeReceived # "none" /\ ~closing
     THEN closing' = TRUE /\ Goto(p, "close") /\ UNCHANGED <<err, late>>
     ELSE WriteReturn(p, "nil") /\ UNCHANGED closing
  /\ writeFrameMu' = FALSE
  /\ UNCHANGED <<closed, closeReceived, code, closeMu, readMu, msgMu, frame,
                 then, ctxDone, readVars, peerVars, wireVars>>

-----------------------------------------------------------------------------
(* readLoop, run by the reader (at "rdHead") and by the handshake (at       *)
(* "hsRead").  Both hold readMu when they get here.                         *)

\* A read ends without a frame: prepareRead finds the connection closed or its
\* close frame received, or the socket fails under the read, closed by us or
\* left by the peer, and finishRead then prefers the error of the context.
ReadEnds(p) ==
  \E e \in Errors :
    /\ \/ closed /\ e = "ErrClosed"
       \/ ~closed /\ closeReceived # "none" /\ e = closeReceived
       \/ /\ closed \/ (closeReceived = "none" /\ inbox = <<>> /\ peer = "gone")
          /\ e = IF OpDone(p) THEN "ctx" ELSE IF closed THEN "ErrClosed" ELSE "io"
    /\ err' = [err EXCEPT ![p] = e]
    /\ Goto(p, "fin")
    /\ UNCHANGED <<flagVars, lockVars, frame, then, ctxVars, readVars,
                   peerVars, wireVars>>

\* The chunk at the front of the buffer can be read, and is.
Receive(kinds) ==
  /\ ~closed /\ closeReceived = "none"
  /\ inbox # <<>> /\ Head(inbox)[1] \in kinds
  /\ inbox' = Tail(inbox) /\ UNCHANGED outbox

\* Faulty variant: readMu is given up to write the pong, as it is for a close.
ReadPingUnlocked(p) ==
  /\ Receive({"ping"})
  /\ StartWrite(p, <<"pong", "peer">>, pc[p])
  /\ readMu' = FALSE
  /\ UNCHANGED <<flagVars, closeMu, writeFrameMu, msgMu, err, ctxDone, readVars,
                 peerVars>>

\* handleControl of a ping: answer it, go on reading.
ReadPing(p) ==
  /\ Receive({"ping"})
  /\ StartWrite(p, <<"pong", "peer">>, pc[p])
  /\ UNCHANGED <<flagVars, lockVars, err, ctxDone, readVars, peerVars>>

ReadPong(p) ==
  /\ Receive({"pong"})
  /\ pongs' = pongs \cup {Head(inbox)[2]}
  /\ UNCHANGED <<flagVars, lockVars, procVars, ctxVars, payload, got, peerVars>>

\* writeError: answer a malformed frame with a close frame, give up reading,
\* leave the connection open.
ReadBad(p) ==
  /\ Receive({"bad", "tail", "over"})
  /\ StartWrite(p, <<"close", "ProtocolError">>, "fin")
  /\ err' = [err EXCEPT ![p] = "protocol"]
  /\ UNCHANGED <<flagVars, lockVars, ctxDone, readVars, peerVars>>

\* A server refuses an unmasked frame without telling the peer.
ReadUnmasked(p) ==
  /\ ~Client /\ Receive({"bad"})
  /\ err' = [err EXCEPT ![p] = "protocol"]
  /\ Goto(p, "fin")
  /\ UNCHANGED <<flagVars, lockVars, frame, then, ctxVars, readVars, peerVars>>

\* Faulty variant: readMu is kept while the close frame is echoed.
ReadCloseLocked(p) ==
  /\ Receive({"close"})
  /\ closeReceived' = Head(inbox)[2]
  /\ err' = [err EXCEPT ![p] = Head(inbox)[2]]
  /\ StartWrite(p, <<"close", Head(inbox)[2]>>, "rdCas")
  /\ UNCHANGED <<closing, closed, closeSent, code, lockVars, ctxDone, readVars,
                 peerVars>>

\* handleControl of a close frame: readMu is given up to echo it.
ReadClose(p) ==
  /\ Receive({"close"})
  /\ closeReceived' = Head(inbox)[2]
  /\ err' = [err EXCEPT ![p] = Head(inbox)[2]]
  /\ IF closeSent
     THEN Goto(p, "rdCas") /\ UNCHANGED <<readMu, frame, then, late>>
     ELSE /\ readMu' = FALSE
          /\ StartWrite(p, <<"close", Head(inbox)[2]>>, "rdCas")
  /\ UNCHANGED <<closing, closed, closeSent, code, closeMu, writeFrameMu, msgMu,
                 ctxDone, readVars, peerVars>>

\* ... and whoever claims the close, closes.
ReadCas(p) ==
  /\ pc[p] = "rdCas"
  /\ closing' = TRUE
  /\ IF closing
     THEN Goto(p, "fin") /\ UNCHANGED <<readMu, then>>
     ELSE /\ readMu' = FALSE
          /\ then' = [then EXCEPT ![p] = "fin"]
          /\ Goto(p, "close")
  /\ UNCHANGED <<closed, closeSent, closeReceived, code, closeMu, writeFrameMu,
                 msgMu, frame, err, ctxVars, readVars, peerVars, wireVars>>

ReadLoop(p) ==
  /\ pc[p] \in {"rdHead", "hsRead"}
  /\ \/ ReadEnds(p) \/ ReadPing(p) \/ ReadPong(p)
     \/ ReadBad(p) \/ ReadUnmasked(p) \/ ReadClose(p)

-----------------------------------------------------------------------------
(* waitCloseHandshake                                                       *)

HsLock ==
  /\ pc[CloseGo] = "hsLock"
  /\ \/ /\ ~readMu /\ ~closed
        /\ readMu' = TRUE
        /\ Goto(CloseGo, IF payload = 0 THEN "hsRead" ELSE "hsDrain")
        /\ UNCHANGED err
     \/ /\ \E e \in {"ErrClosed", "ctx"} :
             /\ e = "ErrClosed" => closed
             /\ e = "ctx" => CloseGo \in late
             /\ err' = [err EXCEPT ![CloseGo] = e]
        /\ Goto(CloseGo, "close")
        /\ UNCHANGED readMu
  /\ UNCHANGED <<flagVars, closeMu, writeFrameMu, msgMu, frame, then, ctxVars,
                 readVars, peerVars, wireVars>>

\* Faulty variant: the drain gives up, and gives readMu up, at its timeout.
HsDrainTimed ==
  /\ pc[CloseGo] = "hsDrain"
  /\ \/ /\ ~closed /\ inbox # <<>>
        /\ inbox' = Tail(inbox)
        /\ Goto(CloseGo, IF Head(inbox)[1] = "tail" THEN "hsRead" ELSE "hsDrain")
        /\ UNCHANGED err
     \/ /\ closed \/ CloseGo \in late
        /\ err' = [err EXCEPT ![CloseGo] = "ctx"]
        /\ Goto(CloseGo, "fin")
        /\ UNCHANGED inbox
  /\ UNCHANGED <<flagVars, lockVars, frame, then, ctxVars, readVars, peerVars,
                 outbox>>

\* ReadByte until the payload is gone: no context, no timeout, and the count
\* the reader relies on (payload) is not updated.
HsDrain ==
  /\ pc[CloseGo] = "hsDrain"
  /\ \/ /\ ~closed /\ inbox # <<>>
        /\ inbox' = Tail(inbox)
        /\ Goto(CloseGo, IF Head(inbox)[1] = "tail" THEN "hsRead" ELSE "hsDrain")
        /\ UNCHANGED err
     \/ /\ closed \/ (inbox = <<>> /\ peer = "gone")
        /\ err' = [err EXCEPT ![CloseGo] = IF closed THEN "ErrClosed" ELSE "io"]
        /\ Goto(CloseGo, "fin")
        /\ UNCHANGED inbox
  /\ UNCHANGED <<flagVars, lockVars, frame, then, ctxVars, readVars, peerVars,
                 outbox>>

\* A data frame that arrives during the handshake is drained the same way.
HsSkip ==
  /\ pc[CloseGo] = "hsRead"
  /\ Receive({"head"})
  /\ Goto(CloseGo, "hsDrain")
  /\ UNCHANGED <<flagVars, lockVars, frame, then, err, ctxVars, readVars, peerVars>>

-----------------------------------------------------------------------------
(* Conn.Read = reader(), msgReader.Read for the payload, msgReader.Read for *)
(* the EOF.  Each locks readMu for itself: in between the lock is free.     *)

RdLock ==
  /\ pc[Reader] \in {"rdLock", "rdLock2", "rdLock3"}
  /\ \/ /\ ~readMu /\ ~closed
        /\ readMu' = TRUE
        /\ Goto(Reader, CASE pc[Reader] = "rdLock"  -> "rdHead"
                          [] pc[Reader] = "rdLock2" -> "rdBody"
                          [] OTHER                  -> "fin")
        /\ UNCHANGED err
     \/ /\ closed \/ Reader \in ctxDone
        /\ err' = [err EXCEPT ![Reader] =
                     IF Reader \in ctxDone THEN "cause" ELSE "ErrClosed"]
        /\ Goto(Reader, "ret")
        /\ UNCHANGED readMu
  /\ UNCHANGED <<flagVars, closeMu, writeFrameMu, msgMu, frame, then, ctxVars,
                 readVars, peerVars, wireVars>>

RdHead ==
  /\ pc[Reader] = "rdHead"
  /\ Receive({"head"})
  /\ payload' = Head(inbox)[2]
  /\ readMu' = FALSE
  /\ Goto(Reader, "rdLock2")
  /\ UNCHANGED <<flagVars, closeMu, writeFrameMu, msgMu, frame, then, err,
                 ctxVars, pongs, got, peerVars>>

\* readFramePayload takes the next bytes of the stream, whatever they are.
RdBody ==
  /\ pc[Reader] = "rdBody"
  /\ Receive({"head", "tail", "ping", "pong", "bad", "close"})
  /\ payload' = 0
  /\ got' = <<payload, Head(inbox)>>
  /\ readMu' = FALSE
  /\ Goto(Reader, "rdLock3")
  /\ UNCHANGED <<flagVars, closeMu, writeFrameMu, msgMu, frame, then, err,
                 ctxVars, pongs, peerVars>>

\* limitReader: the message is larger than the configured maximum; what is
\* left of it stays unread.
RdTooBig ==
  /\ pc[Reader] = "rdBody"
  /\ Receive({"over"})
  /\ StartWrite(Reader, <<"close", "MessageTooBig">>, "fin")
  /\ err' = [err EXCEPT ![Reader] = "tooBig"]
  /\ UNCHANGED <<flagVars, lockVars, ctxDone, readVars, peerVars>>

RdBodyEnds == pc[Reader] = "rdBody" /\ ReadEnds(Reader)

-----------------------------------------------------------------------------
(* Write and Ping                                                           *)

\* msgWriter.reset takes the message lock under the caller's context.
MLock(p) ==
  /\ pc[p] = "mLock"
  /\ \/ /\ ~msgMu /\ ~closed
        /\ msgMu' = TRUE
        /\ StartWrite(p, <<"data", p>>, "fin")
        /\ UNCHANGED err
     \/ /\ closed \/ p \in ctxDone
        /\ err' = [err EXCEPT ![p] = IF p \in ctxDone THEN "cause" ELSE "ErrClosed"]
        /\ Goto(p, "ret")
        /\ UNCHANGED <<msgMu, frame, then, late>>
  /\ UNCHANGED <<flagVars, closeMu, readMu, writeFrameMu, ctxDone, readVars,
                 peerVars, wireVars>>

PingWait(p) ==
  /\ pc[p] = "pgWait"
  /\ \E e \in {"nil", "ctx", "ErrClosed"} :
       /\ \/ e = "nil" /\ p \in pongs
          \/ e = "ctx" /\ p \in ctxDone
          \/ e = "ErrClosed" /\ closed
       /\ err' = [err EXCEPT ![p] = e]
  /\ Goto(p, "fin")
  /\ UNCHANGED <<flagVars, lockVars, frame, then, ctxVars, readVars, peerVars,
                 wireVars>>

-----------------------------------------------------------------------------
(* The deferred unlocks at the end of an operation.  The handshake goes on  *)
(* to close the connection: agreement on the status is not an error.        *)

\* Faulty variant: the peer's echo of our own status is taken for an error.
FinKeepsStatus(p) ==
  /\ pc[p] = "fin"
  /\ readMu' = (readMu /\ p \notin {Reader, CloseGo})
  /\ msgMu' = (msgMu /\ p \notin Writers)
  /\ Goto(p, CASE p = CloseGo -> "close"
               [] p = Reader /\ err[p] = "nil" -> "idle"
               [] OTHER -> "ret")
  /\ UNCHANGED <<flagVars, closeMu, writeFrameMu, frame, then, err, ctxVars,
                 readVars, peerVars, wireVars>>

Fin(p) ==
  /\ pc[p] = "fin"
  /\ readMu' = (readMu /\ p \notin {Reader, CloseGo})
  /\ msgMu' = (msgMu /\ p \notin Writers)
  /\ Goto(p, CASE p = CloseGo -> "close"
               [] p = Reader /\ err[p] = "nil" -> "idle"
               [] OTHER -> "ret")
  /\ err' = [err EXCEPT ![p] = IF p = CloseGo /\ @ = code THEN "nil"
                               ELSE IF p \in ctxDone /\ @ # "nil" THEN "cause"
                               ELSE @]
  /\ UNCHANGED <<flagVars, closeMu, writeFrameMu, frame, then, ctxVars, readVars,
                 peerVars, wireVars>>

-----------------------------------------------------------------------------
(* The peer.                                                                *)

Chunks(kind, id) ==
  CASE kind = "data" -> <<<<"head", id>>, <<"tail", id>>>>
    [] kind = "big"  -> <<<<"head", id>>, <<"over", id>>, <<"tail", id>>>>
    [] OTHER         -> <<<<kind, "peer">>>>

PeerSend(kind) ==
  /\ peer = "open" /\ rest = <<>> /\ sent < MaxFrames
  /\ kind \in PeerSends \ {"close"}
  /\ sent' = sent + 1
  /\ inbox' = Append(inbox, Head(Chunks(kind, sent + 1)))
  /\ rest' = Tail(Chunks(kind, sent + 1))
  /\ UNCHANGED <<flagVars, lockVars, procVars, ctxVars, readVars, peer, stalled,
                 outbox>>

PeerRest ==
  /\ peer = "open" /\ rest # <<>>
  /\ inbox' = Append(inbox, Head(rest))
  /\ rest' = Tail(rest)
  /\ UNCHANGED <<flagVars, lockVars, procVars, ctxVars, readVars, sent, peer,
                 stalled, outbox>>

\* The peer starts a handshake, or answers the close frame it was sent.
PeerClose(s) ==
  /\ peer = "open" /\ rest = <<>>
  /\ \/ "close" \in PeerSends /\ s \in PeerStatus
     \/ ~stalled /\ \E i \in DOMAIN outbox : outbox[i] = <<"close", s>>
  /\ peer' = "closed"
  /\ inbox' = Append(inbox, <<"close", s>>)
  /\ UNCHANGED <<flagVars, lockVars, procVars, ctxVars, readVars, rest, sent,
                 stalled, outbox>>

PeerPong(p) ==
  /\ peer = "open" /\ rest = <<>> /\ ~stalled
  /\ \E i \in DOMAIN outbox : outbox[i] = <<"ping", p>>
  /\ p \notin pongs /\ \A i \in DOMAIN inbox : inbox[i] # <<"pong", p>>
  /\ inbox' = Append(inbox, <<"pong", p>>)
  /\ UNCHANGED <<flagVars, lockVars, procVars, ctxVars, readVars, peerVars, outbox>>

PeerGone ==
  /\ "gone" \in PeerFaults /\ peer # "gone"
  /\ peer' = "gone"
  /\ UNCHANGED <<flagVars, lockVars, procVars, ctxVars, readVars, rest, sent,
                 stalled, wireVars>>

\* The peer stops reading: its window fills and every later write blocks.
PeerStall ==
  /\ "stall" \in PeerFaults /\ ~stalled
  /\ stalled' = TRUE
  /\ UNCHANGED <<flagVars, lockVars, procVars, ctxVars, readVars, rest, sent,
                 peer, wireVars>>
=============================================================================

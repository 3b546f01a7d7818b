--------------------------- MODULE ContractProofs ---------------------------
(***************************************************************************)
(* Connection.Close, with its locks, frames, goroutines and timers,        *)
(* implements ConnectionContract, for any callers, peer and bounds.        *)
(***************************************************************************)
EXTENDS CloseVerdictProofs

USE DEF flagVars, lockVars, procVars, ctxVars, readVars, peerVars, wireVars,
        wrapVars

\* The contract's view of the connection.
State     == IF closed THEN "closed" ELSE IF closing THEN "claimed" ELSE "open"
Verdict   == IF closeDone THEN closeErr ELSE "none"
Answer(c) == IF pc[c] = "ret" THEN err[c] ELSE "none"

\* A step of the contract, or a stutter.
ContractStep == [Contract!Next]_(Contract!vars)

\* The close flags, which only ever go up, take the contract from open to
\* claimed to closed while nobody is answered.
LEMMA FlagStep ==
  ASSUME TypeInv, TypeInv',
         closed => closed', closing => closing',
         \A c \in Closers : pc'[c] = pc[c] /\ err'[c] = err[c],
         Verdict' = Verdict
  PROVE  ContractStep
<1>1. [c \in Closers |-> Answer(c)]' = [c \in Closers |-> Answer(c)]
  BY DEF Answer
<1>2. State' = State \/ (State = "open" /\ State' = "claimed")
      \/ (State # "closed" /\ State' = "closed")
  BY DEF State, TypeInv, TypeOK, NativeTypeOK, FlagsOK
<1>. QED
  BY <1>1, <1>2 DEF ContractStep, Contract!Next, Contract!vars, Contract!Claim,
                    Contract!Shut, State, Verdict, Answer

\* A call that returns "cause" or "invalid" or the verdict is answered once.
LEMMA AnswerStep ==
  ASSUME NEW c \in Closers, pc[c] # "ret",
         State' = State, Verdict' = Verdict,
         \A d \in Closers \ {c} : pc'[d] = pc[d] /\ err'[d] = err[d],
         \/ Answer(c)' = "none"
         \/ Answer(c)' = "invalid"
         \/ Answer(c)' = "cause" /\ (closed \/ (Stalls /\ closing))
         \/ Answer(c)' = Verdict /\ closeDone /\ closeErr # "none"
  PROVE  ContractStep
<1>1. [d \in Closers |-> Answer(d)]' =
        [[d \in Closers |-> Answer(d)] EXCEPT ![c] = Answer(c)']
  BY DEF Answer
<1>2. Answer(c) = "none"
  BY DEF Answer
<1>3. CASE Answer(c)' = "none"
  <2>1. [d \in Closers |-> Answer(d)]' = [d \in Closers |-> Answer(d)]
    BY <1>2, <1>3 DEF Answer
  <2>. QED  BY <2>1 DEF ContractStep, Contract!vars, State, Verdict, Answer
<1>4. CASE Answer(c)' = "invalid"
  BY <1>1, <1>2, <1>4 DEF ContractStep, Contract!Next, Contract!Reject,
     Contract!Reply, State, Verdict, Answer
<1>5. CASE Answer(c)' = "cause" /\ (closed \/ (Stalls /\ closing))
  BY <1>1, <1>2, <1>5 DEF ContractStep, Contract!Next, Contract!AnswerCause,
     Contract!Reply, State, Verdict, Answer
<1>6. CASE Answer(c)' = Verdict /\ closeDone /\ closeErr # "none"
  BY <1>1, <1>2, <1>6 DEF ContractStep, Contract!Next, Contract!Answer,
     Contract!Reply, State, Verdict, Answer
<1>. QED  BY <1>3, <1>4, <1>5, <1>6

\* A step inside the library moves the flags, or lets one cancelled call go.
LEMMA NativeContract ==
  ASSUME TypeInv, TypeInv', VerdictInv, NEW p \in Procs, NativeStep(p),
         UNCHANGED wrapVars
  PROVE  ContractStep
<1>. USE DEF TypeInv, TypeOK, NativeTypeOK, ProcsOK, Goto
<1>0. Closers \subseteq Procs /\ Verdict' = Verdict
  BY DEF Procs, Callers, Verdict
<1>1. CASE p \notin Closers
  BY <1>0, <1>1, NativeLocal, FlagStep
<1>2. CASE p \in Closers
  <2>0. /\ AfterClose(p) = then[p] /\ CloserInv(p) /\ pc[p] # "ret"
        /\ CloseBegin(p) \/ CloseWriter(p) \/ CloseEnd(p) \/ WaitClosed(p)
    <3>1. p # CloseGo /\ p # Timer
      BY <1>2, ProcsAssumption
    <3>2. CloserInv(p)
      BY <1>2 DEF VerdictInv
    <3>3. CloseBegin(p) \/ CloseWriter(p) \/ CloseEnd(p) \/ WaitClosed(p)
      BY <1>2, <3>2, CloserNative DEF CloserInv
    <3>. QED
      BY <3>1, <3>2, <3>3
         DEF AfterClose, CloseBegin, CloseWriter, CloseEnd, WaitClosed
  <2>1. CASE CloseBegin(p) /\ ~closed
    <3>1. pc'[p] = "closeWait" /\ err'[p] = err[p] /\ pc[p] = "close"
          /\ closed' /\ closing' = closing
      BY <1>2, <2>1, ProcsAssumption DEF CloseBegin
    <3>2. \A d \in Closers \ {p} : pc'[d] = pc[d] /\ err'[d] = err[d]
      BY <1>0, NativeLocal
    <3>3. [d \in Closers |-> Answer(d)]' = [d \in Closers |-> Answer(d)]
      BY <3>1, <3>2 DEF Answer
    <3>. QED
      BY <1>0, <2>1, <3>1, <3>3
         DEF ContractStep, Contract!Next, Contract!Shut, State, Verdict, Answer
  <2>2. CASE CloseWriter(p)
    <3>1. /\ UNCHANGED <<closed, closing, err>>
          /\ pc'[p] = "closeRead" /\ pc[p] = "closeWait"
      BY <2>2 DEF CloseWriter
    <3>2. \A d \in Closers \ {p} : pc'[d] = pc[d] /\ err'[d] = err[d]
      BY <1>0, NativeLocal
    <3>3. State' = State /\ Answer(p)' = "none"
      BY <3>1 DEF State, Answer
    <3>. QED  BY <1>0, <1>2, <3>1, <3>2, <3>3, AnswerStep
  <2>3. CASE ~(CloseBegin(p) /\ ~closed) /\ ~CloseWriter(p)
    <3>1. UNCHANGED <<closed, closing, err>> /\ pc' = [pc EXCEPT ![p] = then[p]]
      BY <2>0, <2>3 DEF CloseBegin, CloseEnd, WaitClosed
    <3>2. /\ pc[p] \in {"close", "closeRead", "waitClosed"}
          /\ pc'[p] = "ret" => closed \/ (Stalls /\ closing)
      BY <2>0, <2>3, <3>1
         DEF CloseBegin, CloseEnd, WaitClosed, CloserInv, InClose
    <3>3. Answer(p)' \in {"none", "cause"}
      BY <2>0, <3>1, <3>2 DEF Answer, CloserInv, ForceLabels, InClose
    <3>4. Answer(p)' = "cause" => closed \/ (Stalls /\ closing)
      BY <3>2 DEF Answer
    <3>5. State' = State
      BY <3>1 DEF State
    <3>6. \A d \in Closers \ {p} : pc'[d] = pc[d] /\ err'[d] = err[d]
      BY <1>0, NativeLocal
    <3>. QED  BY <1>0, <1>2, <3>2, <3>3, <3>4, <3>5, <3>6, AnswerStep
  <2>. QED  BY <2>1, <2>2, <2>3
<1>. QED  BY <1>1, <1>2

\* The clock and the peer are invisible to the callers of Close.
LEMMA EnvironmentContract ==
  ASSUME TypeInv, TypeInv', Clock \/ Peer
  PROVE  ContractStep
<1>1. UNCHANGED <<closed, closing, err, closeDone, closeErr>>
  BY DEF Clock, Peer, Cancel, Expire, Fire, PeerSend, PeerRest, PeerClose,
         PeerPong, PeerGone, PeerStall
<1>2. \A q \in Procs \ {Timer} : pc'[q] = pc[q]
  BY DEF TypeInv, TypeOK, NativeTypeOK, ProcsOK, Goto, Clock, Peer, Cancel,
         Expire, Fire, PeerSend, PeerRest, PeerClose, PeerPong, PeerGone, PeerStall
<1>3. Closers \subseteq Procs \ {Timer}
  BY ProcsAssumption DEF Procs, Callers
<1>. QED  BY <1>1, <1>2, <1>3, FlagStep DEF Verdict

\* The wrapper's own steps start a call, claim the close, decide, or answer.
LEMMA WrapperContract ==
  ASSUME TypeInv, TypeInv', VerdictInv,
         \/ Call
         \/ \E p \in Procs : CasClosing(p)
         \/ Publish \/ Signal
         \/ \E c \in Closers : CloseVerdict(c) \/ CloseForce(c) \/ CloseAwait(c)
  PROVE  ContractStep
<1>. USE DEF TypeInv, TypeOK, NativeTypeOK, ProcsOK, Goto
<1>0. /\ CloseGo \in Procs /\ Reader \in Procs
      /\ Closers \subseteq Procs /\ CloseGo \notin Closers /\ Reader \notin Closers
      /\ Writers \subseteq Procs \ Closers /\ Pingers \subseteq Procs \ Closers
  BY ProcsAssumption DEF Procs, Callers
<1>1. ASSUME NEW c \in Closers,
             \/ \E s \in Codes : CloseInvalid(c, s) \/ CloseCancelled(c, s)
             \/ CloseVerdict(c) \/ CloseForce(c) \/ CloseAwait(c)
      PROVE  ContractStep
  <2>1. /\ UNCHANGED <<closed, closing, closeDone, closeErr>>
        /\ \A d \in Closers \ {c} : pc'[d] = pc[d] /\ err'[d] = err[d]
        /\ pc[c] # "ret"
    BY <1>0, <1>1 DEF CloseInvalid, CloseCancelled, CloseVerdict, CloseForce,
                      CloseAwait
  <2>2. State' = State /\ Verdict' = Verdict
    BY <2>1 DEF State, Verdict
  <2>3. closeDone => closed /\ closeErr # "none"
    BY DEF VerdictInv, CloseGoInv, ShutLabels, Errors, Status, AppStatus
  <2>4. CASE (\E s \in Codes : CloseCancelled(c, s)) \/ CloseForce(c)
    <3>1. Answer(c)' = "none"
      BY <1>0, <2>4 DEF CloseCancelled, CloseForce, Answer
    <3>. QED  BY <2>1, <2>2, <3>1, AnswerStep
  <2>5. CASE \E s \in Codes : CloseInvalid(c, s)
    <3>1. Answer(c)' = "invalid"
      BY <1>0, <2>5 DEF CloseInvalid, Answer
    <3>. QED  BY <2>1, <2>2, <3>1, AnswerStep
  <2>6. CASE CloseVerdict(c)
    <3>1. Answer(c)' = Verdict /\ closeDone
      BY <1>0, <2>6 DEF CloseVerdict, Answer, Verdict
    <3>. QED  BY <2>1, <2>2, <2>3, <3>1, AnswerStep
  <2>7. CASE CloseAwait(c)
    <3>1. Answer(c)' = "cause" /\ closeDone
      BY <1>0, <2>7 DEF CloseAwait, Answer, VerdictInv, CloserInv, ForceLabels
    <3>. QED  BY <2>1, <2>2, <2>3, <3>1, AnswerStep
  <2>. QED  BY <1>1, <2>4, <2>5, <2>6, <2>7
<1>2. ASSUME NEW c \in Closers, NEW s \in Codes, CloseCall(c, s)
      PROVE  ContractStep
  <2>1. /\ UNCHANGED <<closed, closing, closeDone, closeErr, err>>
        /\ \A d \in Closers \ {c} : pc'[d] = pc[d]
        /\ pc[c] = "idle" /\ pc'[c] = "select"
    BY <1>0, <1>2 DEF CloseCall
  <2>2. State' = State /\ Verdict' = Verdict /\ Answer(c)' = "none"
    BY <2>1 DEF State, Verdict, Answer
  <2>. QED  BY <2>1, <2>2, AnswerStep
<1>3. CASE Read \/ (\E w \in Writers : Write(w)) \/ (\E p \in Pingers : Ping(p))
  <2>1. UNCHANGED <<closed, closing, closeDone, closeErr>>
    BY <1>3 DEF Read, Write, Ping
  <2>2. \A d \in Closers : pc'[d] = pc[d] /\ err'[d] = err[d]
    <3>1. CASE Read
      BY <1>0, <3>1 DEF Read
    <3>2. CASE \E w \in Writers : Write(w)
      BY <1>0, <3>2 DEF Write
    <3>3. CASE \E p \in Pingers : Ping(p)
      BY <1>0, <3>3 DEF Ping, StartWrite
    <3>. QED  BY <1>3, <3>1, <3>2, <3>3
  <2>. QED  BY <2>1, <2>2, FlagStep DEF Verdict
<1>4. ASSUME NEW p \in Procs, CasClosing(p)
      PROVE  ContractStep
  <2>1. /\ UNCHANGED <<closed, closeDone, closeErr, err>> /\ closing'
        /\ \A q \in Procs \ {p} : pc'[q] = pc[q]
        /\ pc[p] = "cas" /\ pc'[p] \in {"waitClosed", "wLock", "close"}
    BY <1>4 DEF CasClosing, StartWrite
  <2>2. [d \in Closers |-> Answer(d)]' = [d \in Closers |-> Answer(d)]
    BY <1>0, <2>1 DEF Answer
  <2>3. State' = State \/ (State = "open" /\ State' = "claimed")
    BY <2>1 DEF State, FlagsOK
  <2>. QED
    BY <2>1, <2>2, <2>3 DEF ContractStep, Contract!Next, Contract!Claim,
                            Contract!vars, State, Verdict, Answer
<1>5. CASE Publish
  <2>1. /\ UNCHANGED <<closed, closing, err>> /\ Verdict' = Verdict
        /\ \A d \in Closers : pc'[d] = pc[d]
    BY <1>0, <1>5 DEF Publish, VerdictInv, CloseGoInv, Verdict
  <2>. QED  BY <2>1, FlagStep
<1>6. CASE Signal
  <2>1. /\ UNCHANGED <<closed, closing, err, closeErr>> /\ closed /\ ~closeDone
        /\ closeDone' /\ \A d \in Closers : pc'[d] = pc[d]
    BY <1>0, <1>6 DEF Signal, VerdictInv, CloseGoInv, ShutLabels
  <2>2. [d \in Closers |-> Answer(d)]' = [d \in Closers |-> Answer(d)]
    BY <2>1 DEF Answer
  <2>. QED
    BY <2>1, <2>2 DEF ContractStep, Contract!Next, Contract!Decide, Answer
<1>. QED  BY <1>1, <1>2, <1>3, <1>4, <1>5, <1>6 DEF Call

\* Connection.Close implements its contract: every behaviour of the goroutines,
\* locks, frames and timers looks, to the callers of Close, like one claim, one
\* close, one verdict after it, and one answer for each call.
THEOREM CloseMeetsContract == Spec => ImplementsContract
<1>1. Init => Contract!Init
  BY DEF Init, NativeInit, Contract!Init, Procs, Callers
<1>2. TypeInv /\ TypeInv' /\ VerdictInv /\ [Next]_vars => [Contract!Next]_(Contract!vars)
  <2>. SUFFICES ASSUME TypeInv, TypeInv', VerdictInv, [Next]_vars
                PROVE  ContractStep
    BY DEF ContractStep
  <2>1. CASE UNCHANGED vars
    BY <2>1, FlagStep DEF vars, nativeVars, Verdict
  <2>2. ASSUME NEW p \in Procs, NativeStep(p), UNCHANGED wrapVars
        PROVE  ContractStep
    BY <2>2, NativeContract
  <2>. QED
    BY <2>1, <2>2, WrapperContract, EnvironmentContract DEF Next, Step
<1>. QED
  BY <1>1, <1>2, VerdictAlways, PTL DEF Spec, ImplementsContract, Contract!Spec

=============================================================================

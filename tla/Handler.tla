------------------------------ MODULE Handler -------------------------------
(***************************************************************************)
(* Handler.ServeHTTP: net/http runs one call for each request, all of them *)
(* sharing the slot channel and the active counter.  A call vets the       *)
(* request, takes a slot, upgrades, tells the observers, runs the session  *)
(* handler, closes the connection, reports the outcome, and gives back in  *)
(* its deferred functions what it took.                                    *)
(*                                                                         *)
(* Connection.Close enters by its contract (module ConnectionContract): it *)
(* claims the close, and when it returns the socket is closed.  It need    *)
(* not return: the run ConnStall shows a peer that keeps it from doing so. *)
(* The session handler has no Close of its own under way when it returns;  *)
(* only then could this one return with the socket open (run ConnForce).   *)
(***************************************************************************)
EXTENDS Naturals, Sequences, FiniteSets, Observer

CONSTANTS
  Sessions,        \* the requests, each served by a goroutine of its own
  MaxConnections,  \* capacity of the slot channel
  NumObservers,    \* the observers given to NewHandler
  AllowInsecure,   \* config.allowInsecure
  Authenticates    \* config.authenticate # nil

ASSUME HandlerAssumption ==
  /\ IsFiniteSet(Sessions)
  /\ MaxConnections \in Nat \ {0}
  /\ NumObservers \in Nat
  /\ AllowInsecure \in BOOLEAN /\ Authenticates \in BOOLEAN

\* What a session handler may return: nil, the PeerCloseError of an ordinary
\* close (1000, 1001), or any other error.
HandlerErrors == {"nil", "peerClosed", "error"}

\* What Connection.Close may return: nil, an ordinary close of the peer (1000,
\* 1001) that crossed ours, or anything else, a timeout for example.
CloseResults == {"nil", "peerClosed", "failed"}

VARIABLES
  slots,      \* len(handler.slots)
  active,     \* handler.active
  pc,         \* per request: where its ServeHTTP call is
  cancelled,  \* requests whose context is done
  open,       \* upgraded requests whose socket the call has not closed
  claimed,    \* connections whose close has been claimed (Conn.closing)
  panicked,   \* calls that an application callback unwound
  handlerErr, closeResult,  \* what handle and Close returned, or "none"
  outcome,    \* the outcome the call would report now, or "none"
  begun,      \* the observers that gave a finisher, in order
  finished    \* the observers whose finisher ran, with the outcome it got

vars == <<slots, active, pc, cancelled, open, claimed, panicked, handlerErr,
          closeResult, outcome, begun, finished>>
local == <<cancelled, open, claimed, panicked, handlerErr, closeResult,
           outcome, begun, finished>>

\* Where a call holds a slot, and where it counts as active.
Active  == {"begin", "handle", "close", "closing", "force", "finish", "leave"}
Holding == Active \cup {"accept", "release"}
Labels  == Holding \cup {"idle", "auth", "slot", "done"}

Holders == {s \in Sessions : pc[s] \in Holding}
Actives == {s \in Sessions : pc[s] \in Active}

TypeOK ==
  /\ slots \in Nat /\ active \in Nat
  /\ pc \in [Sessions -> Labels]
  /\ cancelled \subseteq Sessions /\ open \subseteq Sessions
  /\ claimed \subseteq Sessions /\ panicked \subseteq Sessions
  /\ handlerErr \in [Sessions -> HandlerErrors \cup {"none"}]
  /\ closeResult \in [Sessions -> CloseResults \cup {"none"}]
  /\ outcome \in [Sessions -> Outcomes \cup {"none"}]
  /\ begun \in [Sessions -> Seq(Nat)]
  /\ finished \in [Sessions -> Seq(Nat \X Outcomes)]

Init ==
  /\ slots = 0 /\ active = 0
  /\ pc = [s \in Sessions |-> "idle"]
  /\ cancelled = {} /\ open = {} /\ claimed = {} /\ panicked = {}
  /\ handlerErr = [s \in Sessions |-> "none"]
  /\ closeResult = [s \in Sessions |-> "none"]
  /\ outcome = [s \in Sessions |-> "none"]
  /\ begun = [s \in Sessions |-> <<>>]
  /\ finished = [s \in Sessions |-> <<>>]

-----------------------------------------------------------------------------
At(s, l) == pc[s] = l
Goto(s, l) == pc' = [pc EXCEPT ![s] = l]

\* TLS, or an explicit exception for a loopback request.
Arrive(s, tls, loopback) ==
  /\ At(s, "idle")
  /\ Goto(s, IF tls \/ (AllowInsecure /\ loopback)
             THEN IF Authenticates THEN "auth" ELSE "slot"
             ELSE "done")
  /\ UNCHANGED <<slots, active, local>>

\* The application's callback accepts or refuses the request.
Authenticate(s) ==
  /\ At(s, "auth")
  /\ \/ Goto(s, "slot") \/ Goto(s, "done")
  /\ UNCHANGED <<slots, active, local>>

\* Faulty variant: the capacity is checked one too late.
TakeSlotLate(s) ==
  /\ At(s, "slot")
  /\ IF slots <= MaxConnections
     THEN slots' = slots + 1 /\ Goto(s, "accept")
     ELSE Goto(s, "done") /\ UNCHANGED slots
  /\ UNCHANGED <<active, local>>

\* A non-blocking send: without a free slot the request is refused.
TakeSlot(s) ==
  /\ At(s, "slot")
  /\ IF slots < MaxConnections
     THEN slots' = slots + 1 /\ Goto(s, "accept")
     ELSE Goto(s, "done") /\ UNCHANGED slots
  /\ UNCHANGED <<active, local>>

\* Faulty variant: the deferred decrement is registered before the upgrade.
AcceptCounted(s) ==
  /\ At(s, "accept")
  /\ \/ /\ Goto(s, "leave")
        /\ UNCHANGED <<active, open>>
     \/ /\ active' = active + 1
        /\ open' = open \cup {s}
        /\ Goto(s, "begin")
  /\ UNCHANGED <<slots, cancelled, claimed, panicked, handlerErr,
                 closeResult, outcome, begun, finished>>

\* nativews.Accept refuses the upgrade, or hijacks the socket.
Accept(s) ==
  /\ At(s, "accept")
  /\ \/ /\ Goto(s, "release")
        /\ UNCHANGED <<active, open>>
     \/ /\ active' = active + 1
        /\ open' = open \cup {s}
        /\ Goto(s, "begin")
  /\ UNCHANGED <<slots, cancelled, claimed, panicked, handlerErr,
                 closeResult, outcome, begun, finished>>

\* One finisher for each observer that gives one; the call has asked i - 1.
BeginObserver(s, i) ==
  /\ At(s, "begin") /\ i <= NumObservers
  /\ \A j \in DOMAIN begun[s] : begun[s][j] < i
  /\ begun' = [begun EXCEPT ![s] = Append(@, i)]
  /\ UNCHANGED <<slots, active, pc, cancelled, open, claimed, panicked,
                 handlerErr, closeResult, outcome, finished>>

\* The remaining observers, if any, gave nil.
BeginDone(s) ==
  /\ At(s, "begin")
  /\ Goto(s, "handle")
  /\ UNCHANGED <<slots, active, local>>

\* A cancelled request counts as canceled whatever its handler returned, and
\* an ordinary close of the peer is not an error.
ServerOutcome(s, e) ==
  IF s \in cancelled THEN "canceled" ELSE IF e = "error" THEN "failed" ELSE "normal"

\* The session runs for as long as the application wants.
HandlerReturn(s, e) ==
  /\ At(s, "handle")
  /\ handlerErr' = [handlerErr EXCEPT ![s] = e]
  /\ outcome' = [outcome EXCEPT ![s] = ServerOutcome(s, e)]
  /\ Goto(s, "close")
  /\ UNCHANGED <<slots, active, cancelled, open, claimed, panicked,
                 closeResult, begun, finished>>

\* Connection.Close claims the close ...
Close(s) ==
  /\ At(s, "close")
  /\ claimed' = claimed \cup {s}
  /\ Goto(s, "closing")
  /\ UNCHANGED <<slots, active, cancelled, open, panicked, handlerErr,
                 closeResult, outcome, begun, finished>>

\* Faulty variant: a handshake that fails leaves the socket open.
CloseReturnLeaks(s, r) ==
  /\ At(s, "closing")
  /\ open' = IF r = "nil" THEN open \ {s} ELSE open
  /\ closeResult' = [closeResult EXCEPT ![s] = r]
  /\ Goto(s, IF r = "nil" THEN "finish" ELSE "force")
  /\ UNCHANGED <<slots, active, cancelled, claimed, panicked, handlerErr,
                 outcome, begun, finished>>

\* ... and returns, if it ever does, with the socket closed.
CloseReturn(s, r) ==
  /\ At(s, "closing")
  /\ open' = open \ {s}
  /\ closeResult' = [closeResult EXCEPT ![s] = r]
  /\ Goto(s, IF r = "nil" THEN "finish" ELSE "force")
  /\ UNCHANGED <<slots, active, cancelled, claimed, panicked, handlerErr,
                 outcome, begun, finished>>

\* closeNow: CloseNow on a claimed connection always returns net.ErrClosed.
ForceClose(s) ==
  /\ At(s, "force")
  /\ outcome' = [outcome EXCEPT ![s] = IF s \in claimed THEN "failed" ELSE @]
  /\ claimed' = claimed \cup {s}
  /\ Goto(s, "finish")
  /\ UNCHANGED <<slots, active, cancelled, open, panicked, handlerErr,
                 closeResult, begun, finished>>

\* Faulty variant: the finishers run in the order the observers began.
FinishForward(s) ==
  /\ At(s, "finish")
  /\ IF Len(finished[s]) = Len(begun[s])
     THEN Goto(s, "leave") /\ UNCHANGED finished
     ELSE /\ finished' = [finished EXCEPT ![s] =
               Append(@, <<begun[s][Len(@) + 1], outcome[s]>>)]
          /\ UNCHANGED pc
  /\ UNCHANGED <<slots, active, cancelled, open, claimed, panicked,
                 handlerErr, closeResult, outcome, begun>>

\* The finishers run last to first.
Finish(s) ==
  /\ At(s, "finish")
  /\ IF Len(finished[s]) = Len(begun[s])
     THEN Goto(s, "leave") /\ UNCHANGED finished
     ELSE /\ finished' = [finished EXCEPT ![s] =
               Append(@, <<begun[s][Len(begun[s]) - Len(@)], outcome[s]>>)]
          /\ UNCHANGED pc
  /\ UNCHANGED <<slots, active, cancelled, open, claimed, panicked,
                 handlerErr, closeResult, outcome, begun>>

\* Faulty variant: a panic unwinds past the active counter.
PanicUncounted(s) ==
  /\ pc[s] \in {"begin", "handle", "finish"}
  /\ panicked' = panicked \cup {s}
  /\ Goto(s, "release")
  /\ UNCHANGED <<slots, active, cancelled, open, claimed, handlerErr,
                 closeResult, outcome, begun, finished>>

\* A panic of the application's callbacks runs the deferred functions only:
\* the hijacked socket is not closed and no finisher runs.
Panic(s) ==
  /\ pc[s] \in {"begin", "handle", "finish"}
  /\ panicked' = panicked \cup {s}
  /\ Goto(s, "leave")
  /\ UNCHANGED <<slots, active, cancelled, open, claimed, handlerErr,
                 closeResult, outcome, begun, finished>>

\* defer handler.active.Add(-1)
Leave(s) ==
  /\ At(s, "leave")
  /\ active' = active - 1
  /\ Goto(s, "release")
  /\ UNCHANGED <<slots, local>>

\* defer func() { <-handler.slots }()
Release(s) ==
  /\ At(s, "release")
  /\ slots' = slots - 1
  /\ Goto(s, "done")
  /\ UNCHANGED <<active, local>>

\* The client goes away, or the server shuts down.
Cancel(s) ==
  /\ pc[s] # "done" /\ s \notin cancelled
  /\ cancelled' = cancelled \cup {s}
  /\ UNCHANGED <<slots, active, pc, open, claimed, panicked, handlerErr,
                 closeResult, outcome, begun, finished>>

\* The garbage collector finalizes a connection nobody owns any more.
Finalize(s) ==
  /\ At(s, "done") /\ s \in open
  /\ open' = open \ {s}
  /\ UNCHANGED <<slots, active, pc, cancelled, claimed, panicked, handlerErr,
                 closeResult, outcome, begun, finished>>

Serve(s) ==
  \/ \E tls, loopback \in BOOLEAN : Arrive(s, tls, loopback)
  \/ Authenticate(s) \/ TakeSlot(s) \/ Accept(s)
  \/ \E i \in 1..NumObservers : BeginObserver(s, i)
  \/ BeginDone(s)
  \/ \E e \in HandlerErrors : HandlerReturn(s, e)
  \/ Close(s)
  \/ \E r \in CloseResults : CloseReturn(s, r)
  \/ ForceClose(s) \/ Finish(s) \/ Leave(s) \/ Release(s)
  \/ Panic(s)

Next == \E s \in Sessions : Serve(s) \/ Cancel(s) \/ Finalize(s)

Spec == Init /\ [][Next]_vars

-----------------------------------------------------------------------------
(* Properties                                                               *)

\* ServeHTTP: the channel counts exactly the calls that hold a slot, on every
\* path out of the call, and they never exceed the configured capacity.
SlotsExact == slots = Cardinality(Holders) /\ slots <= MaxConnections

\* Handler.Active: the counter is exactly the accepted sessions, and since it
\* is given back before the slot it never shows more than the capacity.
ActiveExact == active = Cardinality(Actives) /\ active <= slots

\* ServeHTTP: an open socket belongs to a call that holds a slot, so capacity
\* bounds sockets; only the socket of a session that panicked escapes.
OpenHoldsSlot ==
  \A s \in open : pc[s] \in Holding \/ s \in panicked

\* beginObservers: finishers run in reverse, each at most once, all with one
\* outcome, and none while the socket of the session is still open.
FinishersNested ==
  \A s \in Sessions :
    /\ \A i \in DOMAIN finished[s] :
         /\ i <= Len(begun[s])
         /\ finished[s][i] = <<begun[s][Len(begun[s]) - i + 1], outcome[s]>>
    /\ finished[s] # <<>> => s \notin open
    /\ At(s, "done") /\ handlerErr[s] # "none" /\ s \notin panicked =>
         Len(finished[s]) = Len(begun[s])

\* observer.go, "OutcomeFailed identifies an application or protocol failure":
\* a session whose handler did not fail, on a connection both sides closed
\* with an ordinary close frame, is not reported as failed.
FailedMeansFailure ==
  \A s \in Sessions : outcome[s] = "failed" =>
    handlerErr[s] = "error" \/ closeResult[s] = "failed"
=============================================================================

------------------------- MODULE ConnectionContract -------------------------
(***************************************************************************)
(* What Connection.Close promises to its callers, without locks, frames or *)
(* goroutines: the connection is claimed and closed once, one verdict is   *)
(* reached after it is closed, and each call is answered once, with that   *)
(* verdict or, if its context ended, with the context's cause.             *)
(***************************************************************************)
CONSTANTS
  Closers,   \* the callers of Close
  Verdicts,  \* what the handshake may end with
  Stalls     \* a peer may hold up a claimed close for longer than CloseNow waits

VARIABLES
  state,     \* "open", "claimed" or "closed"
  verdict,   \* the result of the handshake, or "none"
  answer     \* per caller: what Close returned, or "none"

vars == <<state, verdict, answer>>

Init ==
  /\ state = "open"
  /\ verdict = "none"
  /\ answer = [c \in Closers |-> "none"]

Claim ==
  /\ state = "open" /\ state' = "claimed"
  /\ UNCHANGED <<verdict, answer>>

\* Timeouts close a connection that nobody has claimed.
Shut ==
  /\ state # "closed" /\ state' = "closed"
  /\ UNCHANGED <<verdict, answer>>

Decide(v) ==
  /\ state = "closed" /\ verdict = "none"
  /\ verdict' = v
  /\ UNCHANGED <<state, answer>>

Reply(c, a) ==
  /\ answer[c] = "none"
  /\ answer' = [answer EXCEPT ![c] = a]
  /\ UNCHANGED <<state, verdict>>

Answer(c) == verdict # "none" /\ Reply(c, verdict)

AnswerCause(c) ==
  /\ state = "closed" \/ (Stalls /\ state = "claimed")
  /\ Reply(c, "cause")

Reject(c) == Reply(c, "invalid")

Next ==
  \/ Claim \/ Shut
  \/ \E v \in Verdicts : Decide(v)
  \/ \E c \in Closers : Answer(c) \/ AnswerCause(c) \/ Reject(c)

Spec == Init /\ [][Next]_vars
=============================================================================

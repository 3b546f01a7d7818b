---------------------------- MODULE HandlerProofs ---------------------------
(***************************************************************************)
(* The slot channel and the active counter of Handler are exact, sockets   *)
(* are held by calls that hold a slot, and finishers run nested, for any   *)
(* number of concurrent requests and observers and any capacity.           *)
(***************************************************************************)
EXTENDS Handler, FiniteSetTheorems, SequenceTheorems, TLAPS

\* The counters and the calls they count; a call is active only while it
\* holds a slot.
CountInv ==
  /\ pc \in [Sessions -> Labels]
  /\ SlotsExact
  /\ active = Cardinality(Actives)

\* Sets of calls are finite, so adding or removing one call changes their
\* number by one.
LEMMA CountOne ==
  ASSUME NEW S \in SUBSET Sessions, NEW s \in Sessions
  PROVE  /\ IsFiniteSet(S) /\ Cardinality(S) \in Nat
         /\ s \notin S => Cardinality(S \cup {s}) = Cardinality(S) + 1
         /\ s \in S => Cardinality(S \ {s}) = Cardinality(S) - 1
<1>1. IsFiniteSet(S)
  BY HandlerAssumption, FS_Subset
<1>. QED
  BY <1>1, FS_CardinalityType, FS_AddElement, FS_RemoveElement

\* What moving one call from one label to another does to the two sets.
LEMMA MoveOne ==
  ASSUME pc \in [Sessions -> Labels], NEW s \in Sessions, NEW l \in Labels,
         Goto(s, l)
  PROVE  /\ pc' \in [Sessions -> Labels]
         /\ l \in Holding /\ pc[s] \in Holding => Holders' = Holders
         /\ l \notin Holding /\ pc[s] \notin Holding => Holders' = Holders
         /\ l \in Holding /\ pc[s] \notin Holding =>
              Holders' = Holders \cup {s} /\ s \notin Holders
         /\ l \notin Holding /\ pc[s] \in Holding =>
              Holders' = Holders \ {s} /\ s \in Holders
         /\ l \in Active /\ pc[s] \in Active => Actives' = Actives
         /\ l \notin Active /\ pc[s] \notin Active => Actives' = Actives
         /\ l \in Active /\ pc[s] \notin Active =>
              Actives' = Actives \cup {s} /\ s \notin Actives
         /\ l \notin Active /\ pc[s] \in Active =>
              Actives' = Actives \ {s} /\ s \in Actives
BY DEF Goto, Holders, Actives

\* No call holds a slot before the first request.
LEMMA InitCount == Init => CountInv
<1>. SUFFICES ASSUME Init PROVE CountInv
  OBVIOUS
<1>1. Holders = {} /\ Actives = {} /\ pc \in [Sessions -> Labels]
  BY DEF Init, Holders, Actives, Holding, Active, Labels
<1>. QED
  BY <1>1, FS_EmptySet, HandlerAssumption DEF Init, CountInv, SlotsExact

\* A call that moves without touching a counter stays on its side of both.
LEMMA Uncounted ==
  ASSUME CountInv, NEW s \in Sessions, NEW l \in Labels, Goto(s, l),
         UNCHANGED <<slots, active>>,
         l \in Holding <=> pc[s] \in Holding,
         l \in Active <=> pc[s] \in Active
  PROVE  CountInv'
BY MoveOne DEF CountInv, SlotsExact

\* Every step of a call keeps both counts.
LEMMA ServeCount ==
  ASSUME CountInv, NEW s \in Sessions, Serve(s)
  PROVE  CountInv'
<1>. USE DEF At, Labels, Holding, Active
<1>0. Holders \in SUBSET Sessions /\ Actives \in SUBSET Sessions
  BY DEF Holders, Actives
<1>1. CASE \E tls, loopback \in BOOLEAN : Arrive(s, tls, loopback)
  <2>1. PICK l \in {"auth", "slot", "done"} : Goto(s, l)
    BY <1>1 DEF Arrive
  <2>. QED  BY <1>1, <2>1, Uncounted DEF Arrive
<1>2. CASE Authenticate(s)
  BY <1>2, Uncounted DEF Authenticate
<1>3. CASE TakeSlot(s)
  <2>1. CASE slots < MaxConnections
    <3>1. Goto(s, "accept") /\ slots' = slots + 1 /\ active' = active
      BY <1>3, <2>1 DEF TakeSlot
    <3>2. /\ Holders' = Holders \cup {s} /\ s \notin Holders
          /\ Actives' = Actives /\ pc' \in [Sessions -> Labels]
      BY <1>3, <3>1, MoveOne DEF TakeSlot, CountInv
    <3>3. Cardinality(Holders') = Cardinality(Holders) + 1
      BY <1>0, <3>2, CountOne
    <3>. QED
      BY <1>0, <2>1, <3>1, <3>2, <3>3, CountOne, HandlerAssumption
         DEF CountInv, SlotsExact
  <2>2. CASE ~(slots < MaxConnections)
    BY <1>3, <2>2, Uncounted DEF TakeSlot
  <2>. QED  BY <2>1, <2>2
<1>4. CASE Accept(s)
  <2>1. CASE Goto(s, "release") /\ active' = active
    BY <1>4, <2>1, Uncounted DEF Accept
  <2>2. CASE Goto(s, "begin") /\ active' = active + 1
    <3>1. /\ Actives' = Actives \cup {s} /\ s \notin Actives
          /\ Holders' = Holders /\ pc' \in [Sessions -> Labels]
      BY <1>4, <2>2, MoveOne DEF Accept, CountInv
    <3>2. Cardinality(Actives') = Cardinality(Actives) + 1
      BY <1>0, <3>1, CountOne
    <3>. QED  BY <1>4, <2>2, <3>1, <3>2 DEF Accept, CountInv, SlotsExact
  <2>. QED  BY <1>4, <2>1, <2>2 DEF Accept
<1>5. CASE \E i \in 1..NumObservers : BeginObserver(s, i)
  BY <1>5 DEF BeginObserver, CountInv, SlotsExact, Holders, Actives
<1>6. CASE BeginDone(s)
  BY <1>6, Uncounted DEF BeginDone
<1>7. CASE \E e \in HandlerErrors : HandlerReturn(s, e)
  BY <1>7, Uncounted DEF HandlerReturn
<1>8. CASE Close(s)
  BY <1>8, Uncounted DEF Close
<1>9. CASE \E r \in CloseResults : CloseReturn(s, r)
  <2>1. PICK l \in {"finish", "force"} : Goto(s, l)
    BY <1>9 DEF CloseReturn
  <2>. QED  BY <1>9, <2>1, Uncounted DEF CloseReturn
<1>10. CASE ForceClose(s)
  BY <1>10, Uncounted DEF ForceClose
<1>11. CASE Finish(s)
  <2>1. CASE Goto(s, "leave")
    BY <1>11, <2>1, Uncounted DEF Finish
  <2>2. CASE UNCHANGED pc
    BY <1>11, <2>2 DEF Finish, CountInv, SlotsExact, Holders, Actives
  <2>. QED  BY <1>11, <2>1, <2>2 DEF Finish
<1>12. CASE Leave(s)
  <2>1. /\ Actives' = Actives \ {s} /\ s \in Actives
        /\ Holders' = Holders /\ pc' \in [Sessions -> Labels]
    BY <1>12, MoveOne DEF Leave, CountInv
  <2>2. Cardinality(Actives') = Cardinality(Actives) - 1
    BY <1>0, <2>1, CountOne
  <2>. QED  BY <1>12, <2>1, <2>2 DEF Leave, CountInv, SlotsExact
<1>13. CASE Release(s)
  <2>1. /\ Holders' = Holders \ {s} /\ s \in Holders
        /\ Actives' = Actives /\ pc' \in [Sessions -> Labels]
    BY <1>13, MoveOne DEF Release, CountInv
  <2>2. Cardinality(Holders') = Cardinality(Holders) - 1
    BY <1>0, <2>1, CountOne
  <2>. QED
    BY <1>0, <1>13, <2>1, <2>2, CountOne, HandlerAssumption
       DEF Release, CountInv, SlotsExact
<1>14. CASE Panic(s)
  BY <1>14, Uncounted DEF Panic
<1>. QED
  BY <1>1, <1>2, <1>3, <1>4, <1>5, <1>6, <1>7, <1>8, <1>10, <1>11, <1>12, <1>13,
     <1>14, <1>9 DEF Serve

\* CountInv is an invariant of the specification.
LEMMA CountAlways == Spec => []CountInv
<1>1. CountInv /\ [Next]_vars => CountInv'
  <2>. SUFFICES ASSUME CountInv, [Next]_vars PROVE CountInv'
    OBVIOUS
  <2>1. ASSUME NEW s \in Sessions, Cancel(s) \/ Finalize(s)
        PROVE  CountInv'
    BY <2>1 DEF Cancel, Finalize, CountInv, SlotsExact, Holders, Actives
  <2>2. CASE UNCHANGED vars
    BY <2>2 DEF vars, CountInv, SlotsExact, Holders, Actives
  <2>. QED  BY <2>1, <2>2, ServeCount DEF Next
<1>. QED  BY <1>1, InitCount, PTL DEF Spec

\* ServeHTTP: on every path through any number of concurrent calls, panics
\* included, the slot channel holds one token for each call that took one, and
\* the configured capacity is never exceeded.
THEOREM SlotsAreExact == Spec => []SlotsExact
<1>1. CountInv => SlotsExact
  BY DEF CountInv
<1>. QED  BY <1>1, CountAlways, PTL

\* Handler.Active: the counter is exactly the number of accepted sessions and
\* never exceeds the slots taken.
THEOREM ActiveIsExact == Spec => []ActiveExact
<1>1. CountInv => ActiveExact
  <2>. SUFFICES ASSUME CountInv PROVE ActiveExact
    OBVIOUS
  <2>1. Actives \subseteq Holders /\ Holders \in SUBSET Sessions
    BY DEF Actives, Holders, Holding
  <2>2. IsFiniteSet(Holders)
    BY <2>1, HandlerAssumption, FS_Subset
  <2>3. Cardinality(Actives) <= Cardinality(Holders)
    BY <2>1, <2>2, FS_Subset
  <2>. QED  BY <2>3 DEF CountInv, SlotsExact, ActiveExact
<1>. QED  BY <1>1, CountAlways, PTL

-----------------------------------------------------------------------------
(* One session: its socket, its outcome and its finishers.                  *)

SessionTypes ==
  /\ pc \in [Sessions -> Labels]
  /\ cancelled \subseteq Sessions /\ open \subseteq Sessions
  /\ claimed \subseteq Sessions /\ panicked \subseteq Sessions
  /\ handlerErr \in [Sessions -> HandlerErrors \cup {"none"}]
  /\ closeResult \in [Sessions -> CloseResults \cup {"none"}]
  /\ outcome \in [Sessions -> Outcomes \cup {"none"}]
  /\ begun \in [Sessions -> Seq(Nat)]
  /\ finished \in [Sessions -> Seq(Nat \X Outcomes)]

\* A socket is open from the upgrade until Close returns, or since a panic.
SocketInv(s) ==
  /\ s \in open => pc[s] \in {"begin", "handle", "close", "closing"} \/ s \in panicked
  /\ s \in panicked => pc[s] \in {"leave", "release", "done"}

\* There is an outcome from the handler's return to the last finisher.
OutcomeInv(s) ==
  /\ pc[s] \in {"close", "closing", "force", "finish"} => outcome[s] \in Outcomes
  /\ pc[s] \in {"idle", "auth", "slot", "accept", "begin", "handle"} =>
       handlerErr[s] = "none"

\* The finishers that ran are the last ones that began, last to first.
FinishedInv(s) ==
  /\ finished[s] # <<>> =>
       s \notin open /\ pc[s] \in {"finish", "leave", "release", "done"}
  /\ Len(finished[s]) <= Len(begun[s])
  /\ \A i \in 1..Len(finished[s]) :
       finished[s][i] = <<begun[s][Len(begun[s]) - i + 1], outcome[s]>>
  /\ /\ pc[s] \in {"leave", "release", "done"}
     /\ handlerErr[s] # "none" /\ s \notin panicked
     => Len(finished[s]) = Len(begun[s])

SessionInv ==
  SessionTypes
    /\ \A s \in Sessions : SocketInv(s) /\ OutcomeInv(s) /\ FinishedInv(s)

\* No session has begun before the first request.
LEMMA InitSession == Init => SessionInv
BY DEF Init, SessionInv, SessionTypes, Labels, SocketInv, OutcomeInv, FinishedInv

\* What a session's part of the invariant depends on.
LEMMA SameSession ==
  ASSUME SessionInv, NEW t \in Sessions,
         pc'[t] = pc[t], t \in open' <=> t \in open,
         t \in panicked' <=> t \in panicked, handlerErr'[t] = handlerErr[t],
         outcome'[t] = outcome[t], begun'[t] = begun[t],
         finished'[t] = finished[t]
  PROVE  SocketInv(t)' /\ OutcomeInv(t)' /\ FinishedInv(t)'
BY DEF SessionInv, SocketInv, OutcomeInv, FinishedInv

\* The lists of a session are sequences, with a length.
LEMMA SessionLists ==
  ASSUME SessionInv, NEW s \in Sessions
  PROVE  /\ begun[s] \in Seq(Nat) /\ finished[s] \in Seq(Nat \X Outcomes)
         /\ Len(begun[s]) \in Nat /\ Len(finished[s]) \in Nat
         /\ DOMAIN finished[s] = 1..Len(finished[s])
         /\ finished[s] = <<>> => Len(finished[s]) = 0
<1>1. begun[s] \in Seq(Nat) /\ finished[s] \in Seq(Nat \X Outcomes)
  BY DEF SessionInv, SessionTypes
<1>. QED  BY <1>1, LenProperties, EmptySeq

\* An observer gives a finisher: none has run yet.
LEMMA BeginSession ==
  ASSUME SessionInv, NEW s \in Sessions, NEW i \in 1..NumObservers,
         BeginObserver(s, i)
  PROVE  SessionInv'
<1>1. i \in Nat /\ begun \in [Sessions -> Seq(Nat)]
  BY HandlerAssumption DEF SessionInv, SessionTypes
<1>2. Append(begun[s], i) \in Seq(Nat)
  BY <1>1, AppendProperties
<1>3. begun' = [begun EXCEPT ![s] = Append(begun[s], i)]
  BY DEF BeginObserver
<1>4. SessionTypes'
  BY <1>1, <1>2, <1>3 DEF BeginObserver, SessionInv, SessionTypes
<1>5. Len(finished[s]) = 0 /\ finished[s] = <<>>
  BY SessionLists DEF BeginObserver, At, SessionInv, FinishedInv
<1>6. Len(begun'[s]) \in Nat
  BY <1>1, <1>2, <1>3, LenProperties
<1>7. SocketInv(s)' /\ OutcomeInv(s)'
  BY DEF BeginObserver, SessionInv, SocketInv, OutcomeInv
<1>8. FinishedInv(s)'
  <2>1. finished'[s] = finished[s] /\ 1..Len(finished'[s]) = {}
    BY <1>5 DEF BeginObserver
  <2>2. pc'[s] = "begin"
    BY DEF BeginObserver, At
  <2>. QED  BY <1>5, <1>6, <2>1, <2>2 DEF FinishedInv
<1>9. ASSUME NEW t \in Sessions \ {s}
      PROVE  SocketInv(t)' /\ OutcomeInv(t)' /\ FinishedInv(t)'
  <2>1. begun'[t] = begun[t]
    BY <1>1, <1>3
  <2>. QED  BY <2>1, SameSession DEF BeginObserver
<1>. QED  BY <1>4, <1>7, <1>8, <1>9 DEF SessionInv

\* One finisher runs, or all have.
LEMMA FinishSession ==
  ASSUME SessionInv, NEW s \in Sessions, Finish(s)
  PROVE  SessionInv'
<1>0. /\ s \notin open /\ s \notin panicked /\ outcome[s] \in Outcomes
      /\ At(s, "finish") /\ FinishedInv(s)
  BY DEF Finish, At, SessionInv, SocketInv, OutcomeInv
<1>1. CASE Len(finished[s]) = Len(begun[s])
  <2>1. Goto(s, "leave") /\ UNCHANGED finished
    BY <1>1 DEF Finish
  <2>2. SessionTypes' /\ pc'[s] = "leave"
    BY <2>1 DEF Finish, Goto, Labels, Holding, Active, SessionInv, SessionTypes
  <2>3. SocketInv(s)' /\ OutcomeInv(s)'
    BY <1>0, <2>2 DEF Finish, SocketInv, OutcomeInv
  <2>4. FinishedInv(s)'
    BY <1>0, <1>1, <2>1, <2>2 DEF Finish, FinishedInv
  <2>5. ASSUME NEW t \in Sessions \ {s}
        PROVE  SocketInv(t)' /\ OutcomeInv(t)' /\ FinishedInv(t)'
    <3>1. pc'[t] = pc[t]
      BY <2>1 DEF Goto, SessionInv, SessionTypes
    <3>. QED  BY <2>1, <3>1, SameSession DEF Finish
  <2>. QED  BY <2>2, <2>3, <2>4, <2>5 DEF SessionInv
<1>2. CASE Len(finished[s]) # Len(begun[s])
  <2>. DEFINE n == Len(finished[s])
              e == <<begun[s][Len(begun[s]) - n], outcome[s]>>
              longer == Append(finished[s], e)
  <2>1. n \in Nat /\ Len(begun[s]) \in Nat /\ n + 1 <= Len(begun[s])
    BY <1>0, <1>2, SessionLists DEF FinishedInv
  <2>2. e \in Nat \X Outcomes
    <3>1. Len(begun[s]) - n \in 1..Len(begun[s])
      <4>. DEFINE m == Len(begun[s])
      <4>1. n \in Nat /\ m \in Nat /\ n + 1 <= m
        BY <2>1
      <4>. HIDE DEF n, m
      <4>2. m - n \in 1..m
        BY <4>1
      <4>. QED  BY <4>2 DEF m
    <3>2. begun[s][Len(begun[s]) - n] \in Nat
      BY <3>1, SessionLists, ElementOfSeq
    <3>. QED  BY <1>0, <3>2
  <2>3. finished' = [finished EXCEPT ![s] = longer] /\ UNCHANGED pc
    BY <1>2 DEF Finish
  <2>4. /\ longer \in Seq(Nat \X Outcomes) /\ Len(longer) = n + 1
        /\ \A i \in 1..n : longer[i] = finished[s][i]
        /\ longer[n + 1] = e
    <3>. HIDE DEF e
    <3>. QED  BY <2>2, SessionLists, AppendProperties
  <2>. HIDE DEF longer
  <2>5. SessionTypes'
    BY <2>3, <2>4 DEF Finish, SessionInv, SessionTypes
  <2>6. finished'[s] = longer
    BY <2>3 DEF SessionInv, SessionTypes
  <2>7. \A i \in 1..Len(longer) :
          longer[i] = <<begun[s][Len(begun[s]) - i + 1], outcome[s]>>
    <3>. SUFFICES ASSUME NEW i \in 1..Len(longer)
                  PROVE  longer[i] = <<begun[s][Len(begun[s]) - i + 1], outcome[s]>>
      OBVIOUS
    <3>1. CASE i \in 1..n
      BY <1>0, <2>4, <3>1 DEF FinishedInv
    <3>2. CASE i = n + 1
      <4>1. Len(begun[s]) - n = Len(begun[s]) - i + 1
        BY <2>1, <3>2
      <4>. QED  BY <2>4, <3>2, <4>1
    <3>. QED
      <4>. HIDE DEF n
      <4>. QED  BY <2>1, <2>4, <3>1, <3>2
  <2>8. SocketInv(s)' /\ OutcomeInv(s)'
    BY <1>0, <2>3 DEF Finish, At, SocketInv, OutcomeInv
  <2>9. FinishedInv(s)'
    BY <1>0, <2>1, <2>3, <2>4, <2>6, <2>7 DEF Finish, At, FinishedInv
  <2>10. ASSUME NEW t \in Sessions \ {s}
         PROVE  SocketInv(t)' /\ OutcomeInv(t)' /\ FinishedInv(t)'
    <3>1. finished'[t] = finished[t]
      BY <2>3 DEF SessionInv, SessionTypes
    <3>. QED  BY <2>3, <3>1, SameSession DEF Finish
  <2>. QED  BY <2>5, <2>8, <2>9, <2>10 DEF SessionInv
<1>. QED  BY <1>1, <1>2

\* Every step of a call keeps what is known of all sessions.
LEMMA ServeSession ==
  ASSUME SessionInv, NEW s \in Sessions, Serve(s)
  PROVE  SessionInv'
<1>. USE DEF At, Goto, local, Labels, Holding, Active, SessionInv, SessionTypes,
             SocketInv, OutcomeInv, FinishedInv
<1>1. CASE \E tls, loopback \in BOOLEAN : Arrive(s, tls, loopback)
  BY <1>1 DEF Arrive
<1>2. CASE Authenticate(s)
  <2>1. SessionTypes' /\ pc[s] = "auth" /\ pc'[s] \in {"slot", "done"}
    BY <1>2 DEF Authenticate
  <2>2. SocketInv(s)' /\ OutcomeInv(s)' /\ FinishedInv(s)'
    BY <1>2, <2>1 DEF Authenticate
  <2>3. ASSUME NEW t \in Sessions \ {s}
        PROVE  SocketInv(t)' /\ OutcomeInv(t)' /\ FinishedInv(t)'
    <3>1. pc'[t] = pc[t] /\ (t \in open' <=> t \in open)
      BY <1>2 DEF Authenticate
    <3>. QED  BY <1>2, <3>1, SameSession DEF Authenticate
  <2>. HIDE DEF SessionTypes, SocketInv, OutcomeInv, FinishedInv
  <2>. QED  BY <2>1, <2>2, <2>3
<1>3. CASE TakeSlot(s)
  <2>1. SessionTypes' /\ pc[s] = "slot" /\ pc'[s] \in {"accept", "done"}
    BY <1>3 DEF TakeSlot
  <2>2. SocketInv(s)' /\ OutcomeInv(s)' /\ FinishedInv(s)'
    BY <1>3, <2>1 DEF TakeSlot
  <2>3. ASSUME NEW t \in Sessions \ {s}
        PROVE  SocketInv(t)' /\ OutcomeInv(t)' /\ FinishedInv(t)'
    <3>1. pc'[t] = pc[t] /\ (t \in open' <=> t \in open)
      BY <1>3 DEF TakeSlot
    <3>. QED  BY <1>3, <3>1, SameSession DEF TakeSlot
  <2>. HIDE DEF SessionTypes, SocketInv, OutcomeInv, FinishedInv
  <2>. QED  BY <2>1, <2>2, <2>3
<1>4. CASE Accept(s)
  <2>1. SessionTypes' /\ pc[s] = "accept" /\ pc'[s] \in {"release", "begin"}
    BY <1>4 DEF Accept
  <2>2. SocketInv(s)' /\ OutcomeInv(s)' /\ FinishedInv(s)'
    BY <1>4, <2>1 DEF Accept
  <2>3. ASSUME NEW t \in Sessions \ {s}
        PROVE  SocketInv(t)' /\ OutcomeInv(t)' /\ FinishedInv(t)'
    <3>1. pc'[t] = pc[t] /\ (t \in open' <=> t \in open)
      BY <1>4 DEF Accept
    <3>. QED  BY <1>4, <3>1, SameSession DEF Accept
  <2>. HIDE DEF SessionTypes, SocketInv, OutcomeInv, FinishedInv
  <2>. QED  BY <2>1, <2>2, <2>3
<1>5. CASE \E i \in 1..NumObservers : BeginObserver(s, i)
  BY <1>5, BeginSession
<1>6. CASE BeginDone(s)
  BY <1>6 DEF BeginDone
<1>7. CASE \E e \in HandlerErrors : HandlerReturn(s, e)
  <2>1. PICK e \in HandlerErrors : HandlerReturn(s, e)
    BY <1>7
  <2>2. /\ pc[s] = "handle" /\ pc'[s] = "close" /\ outcome'[s] \in Outcomes
        /\ UNCHANGED <<open, panicked, begun, finished>> /\ SessionTypes'
    BY <2>1 DEF HandlerReturn, ServerOutcome, Outcomes, HandlerErrors
  <2>3. SocketInv(s)' /\ OutcomeInv(s)' /\ FinishedInv(s)'
    <3>1. SocketInv(s) /\ finished[s] = <<>>
      BY <2>2
    <3>. HIDE DEF SessionInv, SessionTypes
    <3>2. SocketInv(s)' /\ OutcomeInv(s)'
      BY <2>2, <3>1
    <3>3. Len(begun[s]) \in Nat
      BY SessionLists
    <3>. QED  BY <2>2, <3>1, <3>2, <3>3
  <2>4. ASSUME NEW t \in Sessions \ {s}
        PROVE  SocketInv(t)' /\ OutcomeInv(t)' /\ FinishedInv(t)'
    <3>1. /\ pc'[t] = pc[t] /\ outcome'[t] = outcome[t]
          /\ handlerErr'[t] = handlerErr[t]
      BY <2>1 DEF HandlerReturn
    <3>. QED  BY <2>2, <3>1, SameSession
  <2>. HIDE DEF SessionTypes, SocketInv, OutcomeInv, FinishedInv
  <2>. QED  BY <2>2, <2>3, <2>4
<1>8. CASE Close(s)
  BY <1>8 DEF Close
<1>9. CASE \E r \in CloseResults : CloseReturn(s, r)
  <2>1. PICK r \in CloseResults : CloseReturn(s, r)
    BY <1>9
  <2>2. pc'[s] \in {"finish", "force"} /\ SessionTypes'
    BY <2>1 DEF CloseReturn
  <2>3. SocketInv(s)' /\ OutcomeInv(s)' /\ FinishedInv(s)'
    BY <2>1, <2>2 DEF CloseReturn
  <2>4. ASSUME NEW t \in Sessions \ {s}
        PROVE  SocketInv(t)' /\ OutcomeInv(t)' /\ FinishedInv(t)'
    BY <2>1 DEF CloseReturn
  <2>. QED  BY <2>2, <2>3, <2>4
<1>10. CASE ForceClose(s)
  <2>1. /\ pc[s] = "force" /\ pc'[s] = "finish" /\ outcome'[s] \in Outcomes
        /\ UNCHANGED <<open, panicked, handlerErr, begun, finished>>
        /\ SessionTypes'
    BY <1>10 DEF ForceClose, Outcomes
  <2>2. SocketInv(s)' /\ OutcomeInv(s)' /\ FinishedInv(s)'
    <3>1. SocketInv(s) /\ finished[s] = <<>>
      BY <2>1
    <3>. HIDE DEF SessionInv, SessionTypes
    <3>2. SocketInv(s)' /\ OutcomeInv(s)'
      BY <2>1, <3>1
    <3>3. Len(begun[s]) \in Nat
      BY SessionLists
    <3>. QED  BY <2>1, <3>1, <3>2, <3>3
  <2>3. ASSUME NEW t \in Sessions \ {s}
        PROVE  SocketInv(t)' /\ OutcomeInv(t)' /\ FinishedInv(t)'
    <3>1. pc'[t] = pc[t] /\ outcome'[t] = outcome[t]
      BY <1>10 DEF ForceClose
    <3>. QED  BY <2>1, <3>1, SameSession
  <2>. HIDE DEF SessionTypes, SocketInv, OutcomeInv, FinishedInv
  <2>. QED  BY <2>1, <2>2, <2>3
<1>11. CASE Finish(s)
  BY <1>11, FinishSession
<1>12. CASE Leave(s)
  BY <1>12 DEF Leave
<1>13. CASE Release(s)
  BY <1>13 DEF Release
<1>14. CASE Panic(s)
  BY <1>14 DEF Panic
<1>. QED
  BY <1>1, <1>2, <1>3, <1>4, <1>5, <1>6, <1>7, <1>8, <1>10, <1>11, <1>12, <1>13,
     <1>14, <1>9 DEF Serve

\* SessionInv is an invariant of the specification.
LEMMA SessionAlways == Spec => []SessionInv
<1>1. SessionInv /\ [Next]_vars => SessionInv'
  <2>. SUFFICES ASSUME SessionInv, [Next]_vars PROVE SessionInv'
    OBVIOUS
  <2>. USE DEF SessionInv, SessionTypes, SocketInv, OutcomeInv, FinishedInv
  <2>1. ASSUME NEW s \in Sessions, Cancel(s)
        PROVE  SessionInv'
    BY <2>1 DEF Cancel
  <2>2. ASSUME NEW s \in Sessions, Finalize(s)
        PROVE  SessionInv'
    BY <2>2 DEF Finalize, At
  <2>3. CASE UNCHANGED vars
    BY <2>3 DEF vars
  <2>. QED  BY <2>1, <2>2, <2>3, ServeSession DEF Next
<1>. QED  BY <1>1, InitSession, PTL DEF Spec

\* ServeHTTP: every variable keeps its type, for any number of requests; the
\* counters never go below zero.
THEOREM HandlerTypeCorrect == Spec => []TypeOK
<1>1. SessionInv /\ CountInv => TypeOK
  <2>. SUFFICES ASSUME SessionInv, CountInv PROVE TypeOK
    OBVIOUS
  <2>1. Holders \in SUBSET Sessions /\ Actives \in SUBSET Sessions
    BY DEF Holders, Actives
  <2>2. slots \in Nat /\ active \in Nat
    <3>1. IsFiniteSet(Holders) /\ IsFiniteSet(Actives)
      BY <2>1, HandlerAssumption, FS_Subset
    <3>. QED  BY <3>1, FS_CardinalityType DEF CountInv, SlotsExact
  <2>. QED  BY <2>2 DEF SessionInv, SessionTypes, TypeOK
<1>. QED  BY <1>1, SessionAlways, CountAlways, PTL

\* ServeHTTP: the configured capacity bounds the open sockets, but for those
\* of sessions that panicked.
THEOREM OpenSocketHoldsSlot == Spec => []OpenHoldsSlot
<1>1. SessionInv => OpenHoldsSlot
  BY DEF SessionInv, SessionTypes, SocketInv, OpenHoldsSlot, Holding, Active
<1>. QED  BY <1>1, SessionAlways, PTL

\* beginObservers: whatever observers a session has, its finishers run in
\* reverse, once, with one outcome and on a closed socket.
THEOREM FinishersAreNested == Spec => []FinishersNested
<1>1. SessionInv => FinishersNested
  <2>. SUFFICES ASSUME SessionInv, NEW s \in Sessions
                PROVE  /\ \A i \in DOMAIN finished[s] :
                            /\ i <= Len(begun[s])
                            /\ finished[s][i] =
                                 <<begun[s][Len(begun[s]) - i + 1], outcome[s]>>
                       /\ finished[s] # <<>> => s \notin open
                       /\ At(s, "done") /\ handlerErr[s] # "none"
                            /\ s \notin panicked
                          => Len(finished[s]) = Len(begun[s])
    BY DEF FinishersNested
  <2>1. FinishedInv(s)
    BY DEF SessionInv
  <2>2. \A i \in DOMAIN finished[s] : i \in 1..Len(finished[s]) /\ i <= Len(begun[s])
    BY <2>1, SessionLists DEF FinishedInv
  <2>. QED  BY <2>1, <2>2 DEF FinishedInv, At
<1>. QED  BY <1>1, SessionAlways, PTL
=============================================================================

---------------------------- MODULE MCEndpoints -----------------------------
(***************************************************************************)
(* Both ends of the starter for TLC: a handler is constructed and a client *)
(* dials (MCConfig), and once a plain configuration of each is accepted    *)
(* the handler serves its requests, or the client calls cleanup.  The two  *)
(* ends share no state, so one of them moves while the other rests.        *)
(***************************************************************************)
EXTENDS MCConfig, Handler, Client

EndpointsInit == MCInit /\ Init /\ ClientInit

Configured ==
  /\ server = PlainServer /\ config = PlainClient /\ configured = 1
  /\ check = "accepted" /\ maximum = 0

EndpointsNext ==
  \/ MCNext /\ Init /\ ClientInit /\ UNCHANGED <<vars, clientVars>>
  \/ /\ Configured
     /\ \/ Next /\ ClientInit /\ UNCHANGED clientVars
        \/ ClientNext /\ Init /\ UNCHANGED vars
     /\ UNCHANGED <<serverVars, configVars, readVars>>

EndpointsSpec ==
  EndpointsInit
    /\ [][EndpointsNext]_<<serverVars, configVars, readVars, vars, clientVars>>
=============================================================================

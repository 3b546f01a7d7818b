------------------------------ MODULE MCConfig ------------------------------
(***************************************************************************)
(* Server and client configurations at and around every bound, and the     *)
(* message limit they configure at work, for TLC.  The three are separate  *)
(* parts of a program, here with one of them varied at a time.             *)
(***************************************************************************)
EXTENDS ServerConfig, ClientConfig, MessageLimit

Lists(S, n) == UNION {[1..k -> S] : k \in 0..n}

Limits ==   \* one field at a time leaves its default
  {<<0, 0, 0, 0>>}
    \cup {<<v, 0, 0, 0>> : v \in {-1, 1, 16777216, 16777217}}
    \cup {<<0, v, 0, 0>> : v \in {-1, 1, 4096, 4097}}
    \cup {<<0, 0, v, 0>> : v \in {-1, 1, 255, 256, 16777216, 16777217}}
    \cup {<<0, 0, 0, v>> : v \in {-1, 1, 999, 1000, 30000000, 30000001}}

ServerCase(limits, origins, protocols, compression, authenticate, anonymous, any) ==
  [MaxMessageBytes |-> limits[1], MaxConnections |-> limits[2],
   CompressionAt |-> limits[3], CloseTimeout |-> limits[4],
   OriginPatterns |-> origins, Subprotocols |-> protocols,
   Compression |-> compression, Authenticate |-> authenticate,
   AllowAnonymous |-> anonymous, AllowAnyOrigin |-> any,
   handle |-> TRUE, observers |-> <<"value">>]

MCServerConfigs ==
  {ServerCase(l, o, <<1>>, z, a, n, y) :
     l \in Limits, o \in Lists({1, 2}, 1),
     z \in BOOLEAN, a \in BOOLEAN, n \in BOOLEAN, y \in BOOLEAN}
  \cup
  {ServerCase(<<0, 0, 0, 0>>, o, p, FALSE, TRUE, FALSE, FALSE) :
     o \in Lists(1..4, 4), p \in Lists({1, 2}, 3)}
  \cup
  {[ServerCase(<<0, 0, 0, 0>>, <<>>, <<1>>, FALSE, TRUE, FALSE, FALSE)
      EXCEPT !.handle = h, !.observers = o] :
     h \in BOOLEAN, o \in Lists({"value", "nil", "typedNil"}, 2)}

-----------------------------------------------------------------------------
Target(scheme, loopback, exact, port) ==
  [scheme |-> scheme, loopback |-> loopback, exact |-> exact, port |-> port]

MCTargets ==
  {Target(s, l, TRUE, 443) : s \in {"ws", "wss", "http"}, l \in BOOLEAN}
    \cup {Target("wss", FALSE, e, p) : e \in BOOLEAN, p \in {0, 65535, 65536}}

MCTLSConfigs ==
  {NoTLS} \cup [given : {TRUE}, skipVerify : BOOLEAN,
                minVersion : {0, 11, 12, 13}]

Header(name, bytes, valid, values) ==
  [name |-> name, bytes |-> bytes, valid |-> valid, values |-> values]

\* Two headers of 4096 bytes fill the limit, with an Authorization of 87
\* bytes a third of 3996 does; one byte more is too much.
MCHeaders ==
  LET a == Header("A", 6, TRUE, <<4090>>)
      b == Header("B", 6, TRUE, <<2042, 2042>>)
      c == Header("C", 6, TRUE, <<3990>>)
      d == Header("D", 1, TRUE, <<>>)
      e == Header("E", 1, TRUE, <<0>>)
      f == Header("F", 1, FALSE, <<1>>)
  IN {{}, {a}, {d, f}, {a, b}, {a, c, d}, {a, b, e}, {a, c, e}, {a, b, f}}

MCProtocols == {<<>>, <<1, 1>>}

MCAuths ==
  {[bytes |-> 0, wellFormed |-> TRUE]}
    \cup [bytes : {87, 4096, 4097}, wellFormed : BOOLEAN]

ClientCase(target, tlsConfig, headers, a, limit, protocols, t, anonymous, insecure) ==
  [target |-> target, tls |-> tlsConfig, headers |-> headers, auth |-> a,
   limit |-> limit, protocols |-> protocols, timeout |-> t,
   anonymous |-> anonymous, insecure |-> insecure, transport |-> TRUE]

\* The plainest configuration of each side, but for compression.
PlainServer ==
  ServerCase(<<0, 0, 0, 0>>, <<>>, <<1>>, TRUE, TRUE, FALSE, FALSE)

PlainClient ==
  ClientCase(Target("wss", FALSE, TRUE, 443), NoTLS, {},
             [bytes |-> 0, wellFormed |-> TRUE], 0, <<>>, 0, TRUE, FALSE)

\* Every transport with no headers, every set of headers over one transport,
\* and the remaining bounds.
MCClientConfigs ==
  LET wss == Target("wss", FALSE, TRUE, 443)
      none == [bytes |-> 0, wellFormed |-> TRUE]
  IN {ClientCase(g, c, {}, none, 0, <<>>, 0, TRUE, i) :
        g \in MCTargets, c \in MCTLSConfigs, i \in BOOLEAN}
     \cup
     {ClientCase(wss, NoTLS, h, a, 0, <<>>, 0, n, FALSE) :
        h \in MCHeaders, a \in MCAuths, n \in BOOLEAN}
     \cup
     {ClientCase(wss, NoTLS, {}, none, l, p, t, TRUE, FALSE) :
        l \in {-1, 0, 1, 16777216, 16777217}, p \in MCProtocols,
        t \in {-1, 0, 1, 999, 1000, 30000000, 30000001}}
     \cup
     {[PlainClient EXCEPT !.transport = FALSE]}

-----------------------------------------------------------------------------
MCPlainServer == {PlainServer}
MCPlainClient == {PlainClient}

MCReadLimits == {-1, 1, 2, 3}

MCInit ==
  /\ \/ config = PlainClient /\ configured = 1
     \/ server = PlainServer /\ configured = 1
     \/ server = PlainServer /\ config = PlainClient
  /\ ServerInit /\ ConfigInit /\ ReadInit

\* A handler is constructed, then a client dials; a connection of the plain
\* configurations, but for its limit, reads.
MCNext ==
  \/ NewHandler /\ UNCHANGED <<configVars, readVars>>
  \/ normal # Unset /\ ConfigNext /\ UNCHANGED <<serverVars, readVars>>
  \/ /\ server = PlainServer /\ config = PlainClient /\ check = "accepted"
     /\ ReadNext /\ UNCHANGED <<serverVars, configVars>>

MCSpec == MCInit /\ [][MCNext]_<<serverVars, configVars, readVars>>
=============================================================================

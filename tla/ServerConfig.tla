---------------------------- MODULE ServerConfig ----------------------------
(***************************************************************************)
(* NewHandler: the session handler, the configuration and the observers    *)
(* are checked in that order, and the configuration is normalised.         *)
(***************************************************************************)
EXTENDS Normalizers

CONSTANT ServerConfigs   \* the configurations to try

VARIABLES
  server,   \* the ServerConfig, with the session handler and the observers
  normal    \* the configuration of the handler, Rejected or Unset

serverVars == <<server, normal>>

\* The fields of ServerConfig, with what else NewHandler is given.
ASSUME ServerConfigsAssumption ==
  ServerConfigs \subseteq
    [MaxMessageBytes : Int, MaxConnections : Int, CompressionAt : Int,
     CloseTimeout : Int, OriginPatterns : Seq(Nat), Subprotocols : Seq(Nat),
     Compression : BOOLEAN, Authenticate : BOOLEAN, AllowAnonymous : BOOLEAN,
     AllowAnyOrigin : BOOLEAN, handle : BOOLEAN,
     observers : Seq({"value", "nil", "typedNil"})]

defaultMaxConnections == 256
maxConnections        == 4096
defaultCloseTimeout   == 5000000    \* microseconds
maxCloseTimeout       == 30000000

Unset == [ok |-> FALSE, value |-> "unset"]

\* Anonymous access, authentication and the open origin policy exclude each
\* other the way the code says.
ServerAuthenticationOK(c) ==
  /\ c.Authenticate \/ c.AllowAnonymous
  /\ ~(c.Authenticate /\ c.AllowAnonymous)
  /\ c.AllowAnyOrigin => c.Authenticate

\* The configuration with every normalised value in place.
normalizedServerConfig(c, bytes, conns, origins, protocols, at, timeout) ==
  [MaxMessageBytes |-> bytes,     MaxConnections |-> conns,
   OriginPatterns  |-> origins,   Subprotocols   |-> protocols,
   CompressionAt   |-> at,        CloseTimeout   |-> timeout,
   Compression     |-> c.Compression,     Authenticate   |-> c.Authenticate,
   AllowAnonymous  |-> c.AllowAnonymous,  AllowAnyOrigin |-> c.AllowAnyOrigin,
   handle          |-> c.handle,          observers      |-> c.observers]

normalizeServerConfig(c) ==
  LET maximum     == normalizeMessageLimit(c.MaxMessageBytes)
      connections == Between(c.MaxConnections, defaultMaxConnections, 1,
                             maxConnections)
      origins     == normalizeOrigins(c.OriginPatterns, c.AllowAnyOrigin)
      protocols   == normalizeSubprotocols(c.Subprotocols)
      threshold   == normalizeCompression(c.Compression, c.CompressionAt)
      timeout     == Between(c.CloseTimeout, defaultCloseTimeout,
                             millisecond, maxCloseTimeout)
  IN IF /\ ServerAuthenticationOK(c)
        /\ maximum.ok /\ connections.ok /\ origins.ok /\ protocols.ok
        /\ threshold.ok /\ timeout.ok
     THEN Is(normalizedServerConfig(c, maximum.value, connections.value,
                                    origins.value, protocols.value,
                                    threshold.value, timeout.value))
     ELSE Rejected

\* Besides the nil interface, a nil pointer (map, func...) in an interface.
nilInterface(observer) == observer \in {"nil", "typedNil"}

validateObservers(observers) ==
  \A i \in DOMAIN observers : ~nilInterface(observers[i])

newHandler(c) ==
  IF c.handle /\ validateObservers(c.observers)
  THEN normalizeServerConfig(c) ELSE Rejected

ServerInit == server \in ServerConfigs /\ normal = Unset

NewHandler ==
  /\ normal = Unset
  /\ normal' = newHandler(server)
  /\ UNCHANGED server

ServerSpec == ServerInit /\ [][NewHandler]_serverVars

-----------------------------------------------------------------------------
(* Properties                                                               *)

Injective(s) == \A i, j \in DOMAIN s : s[i] = s[j] => i = j

\* normalizeServerConfig: what it accepts, it accepts again and leaves alone:
\* every default it fills in, also the message limit's, which it does not
\* check, is inside the range that a configured value is checked against.
Idempotent == normal.ok => newHandler(normal.value) = normal

\* normalizeOrigins: comparing neighbours of the sorted copy finds every
\* duplicate, and the copy holds exactly the given patterns.
OriginsExact ==
  normal.ok =>
    /\ Injective(server.OriginPatterns)
    /\ {normal.value.OriginPatterns[i] : i \in DOMAIN normal.value.OriginPatterns}
         = {server.OriginPatterns[i] : i \in DOMAIN server.OriginPatterns}

\* ServerConfig: a field left at zero never is the reason for a rejection.
ZeroIsDefault ==
  normal = Rejected =>
    ~newHandler([server EXCEPT
        !.MaxMessageBytes = IF @ = 0 THEN 1 ELSE @,
        !.MaxConnections = IF @ = 0 THEN 1 ELSE @,
        !.CompressionAt = IF @ = 0 /\ server.Compression THEN 256 ELSE @,
        !.CloseTimeout = IF @ = 0 THEN millisecond ELSE @]).ok
=============================================================================

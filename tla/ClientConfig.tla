---------------------------- MODULE ClientConfig ----------------------------
(***************************************************************************)
(* normalizeClientConfig.  The header loop ranges over a Go map, so the    *)
(* headers are visited in any order, with a running total that may refuse  *)
(* the configuration half way; everything else is checked in the order of  *)
(* the code.  A string is abstracted to the facts the checks read: a URL   *)
(* to its parts, a header to its length and the lengths of its values.     *)
(***************************************************************************)
EXTENDS Normalizers, FiniteSetsExt

CONSTANT Configs   \* the configurations to try: records with the fields
  \* target     a URL: [scheme, loopback, exact, port]
  \* tls        [given, skipVerify, minVersion]; not given is a nil pointer
  \* headers    a set of [name, bytes, valid, values]
  \* auth       [bytes, wellFormed]; no bytes is the empty string
  \* limit, protocols, timeout, anonymous, insecure
  \* transport  http.DefaultTransport is an *http.Transport

VARIABLES
  config,      \* the ClientConfig
  check,       \* the check that comes next, or "accepted" or "rejected"
  refusedAt,   \* the check that rejected it, or "none"
  visited,     \* headers the loop has normalised
  total,       \* the loop's running total
  auth,        \* the authorization value added to the headers, in bytes
  tls,         \* the TLS configuration of the transport
  timeout      \* the handshake timeout

configVars == <<config, check, refusedAt, visited, total, auth, tls, timeout>>

\* A map of headers, and lengths in bytes.
ASSUME ConfigsAssumption ==
  \A c \in Configs :
    /\ c.tls \in [given : BOOLEAN, skipVerify : BOOLEAN, minVersion : Nat]
    /\ IsFiniteSet(c.headers)
    /\ \A h \in c.headers : h.bytes \in Nat /\ h.values \in Seq(Nat)
    /\ c.auth.bytes \in Nat

maxHeaderBytes          == 8192
maxAuthorizationBytes   == 4096
authorizationName       == 13      \* len("Authorization")
defaultHandshakeTimeout == 10000000   \* microseconds
maxHandshakeTimeout     == 30000000
VersionTLS12            == 12
maxPort                 == 65535

NoTLS == [given |-> FALSE, skipVerify |-> FALSE, minVersion |-> 0]

ConfigInit ==
  /\ config \in Configs
  /\ check = "url" /\ refusedAt = "none" /\ visited = {} /\ total = 0 /\ auth = 0
  /\ tls = NoTLS /\ timeout = 0

-----------------------------------------------------------------------------
\* A check that passes goes on to the next one; otherwise Dial returns.
Pass(ok, next) ==
  /\ check' = IF ok THEN next ELSE "rejected"
  /\ refusedAt' = IF ok THEN "none" ELSE check

\* Faulty variant: plain ws is not restricted to this host.
WebSocketSchemeOKAnyHost(t, insecure) ==
  t.scheme \in {"ws", "wss"} /\ (t.scheme = "ws" <=> insecure)

\* validateWebSocketScheme, and the restriction of ws to loopback hosts.
WebSocketSchemeOK(t, insecure) ==
  /\ t.scheme \in {"ws", "wss"}
  /\ t.scheme = "ws" => insecure /\ t.loopback
  /\ t.scheme = "wss" => ~insecure

\* exact: it parses, has a host, no credentials, fragment or white space.
NormalizeURL ==
  /\ check = "url"
  /\ Pass(/\ config.target.exact
          /\ WebSocketSchemeOK(config.target, config.insecure)
          /\ config.target.port \in 1..maxPort, "limits")
  /\ UNCHANGED <<config, visited, total, auth, tls, timeout>>

NormalizeLimits ==
  /\ check = "limits"
  /\ Pass(/\ normalizeMessageLimit(config.limit).ok
          /\ normalizeSubprotocols(config.protocols).ok, "headers")
  /\ UNCHANGED <<config, visited, total, auth, tls, timeout>>

\* The bytes one header adds: its name once for every value.
HeaderBytes(h) == Len(h.values) * h.bytes + SumFunction(h.values)

\* Faulty variant: the limit applies to each header, not to their total.
NormalizeHeaderAlone(h) ==
  /\ check = "headers" /\ h \in config.headers \ visited
  /\ Pass(h.valid /\ HeaderBytes(h) <= maxHeaderBytes, "headers")
  /\ total' = total + HeaderBytes(h)
  /\ visited' = visited \cup {h}
  /\ UNCHANGED <<config, auth, tls, timeout>>

\* One header of the map: a canonical name that is not reserved, and values
\* without line breaks, as long as the total stays within the limit.
NormalizeHeader(h) ==
  /\ check = "headers" /\ h \in config.headers \ visited
  /\ Pass(h.valid /\ total + HeaderBytes(h) <= maxHeaderBytes, "headers")
  /\ total' = total + HeaderBytes(h)
  /\ visited' = visited \cup {h}
  /\ UNCHANGED <<config, auth, tls, timeout>>

HeadersDone ==
  /\ check = "headers" /\ visited = config.headers
  /\ Pass(TRUE, "authorization")
  /\ UNCHANGED <<config, visited, total, auth, tls, timeout>>

\* Faulty variant: the authorization is not counted with the headers.
NormalizeAuthorizationUncounted ==
  /\ check = "authorization"
  /\ Pass(/\ config.auth.bytes = 0 <=> config.anonymous
          /\ config.auth.bytes <= maxAuthorizationBytes
          /\ config.auth.bytes # 0 => config.auth.wellFormed, "tls")
  /\ auth' = config.auth.bytes
  /\ UNCHANGED <<config, visited, total, tls, timeout>>

\* Required unless anonymous, and the two exclude each other; the header it
\* becomes counts against the limit.
NormalizeAuthorization ==
  /\ check = "authorization"
  /\ Pass(/\ config.auth.bytes = 0 <=> config.anonymous
          /\ config.auth.bytes <= maxAuthorizationBytes
          /\ config.auth.bytes # 0 =>
               /\ config.auth.wellFormed
               /\ total + authorizationName + config.auth.bytes <= maxHeaderBytes,
          "tls")
  /\ auth' = config.auth.bytes
  /\ UNCHANGED <<config, visited, total, tls, timeout>>

\* No TLS for ws; for wss a clone that verifies, TLS 1.2 or newer.
NormalizeTLS ==
  /\ check = "tls"
  /\ IF config.target.scheme = "ws"
     THEN Pass(~config.tls.given, "timeout") /\ UNCHANGED tls
     ELSE LET minimum == IF config.tls.minVersion = 0
                         THEN VersionTLS12
                         ELSE config.tls.minVersion
          IN /\ Pass(~config.tls.skipVerify /\ minimum >= VersionTLS12, "timeout")
             /\ tls' = [config.tls EXCEPT !.given = TRUE, !.minVersion = minimum]
  /\ UNCHANGED <<config, visited, total, auth, timeout>>

NormalizeTimeout ==
  LET chosen == IF config.timeout = 0 THEN defaultHandshakeTimeout
                                      ELSE config.timeout
  IN /\ check = "timeout"
     /\ Pass(millisecond <= chosen /\ chosen <= maxHandshakeTimeout, "transport")
     /\ timeout' = chosen
     /\ UNCHANGED <<config, visited, total, auth, tls>>

\* The transport is a clone of the default one, which a program may replace.
CloneTransport ==
  /\ check = "transport"
  /\ Pass(config.transport, "accepted")
  /\ UNCHANGED <<config, visited, total, auth, tls, timeout>>

ConfigNext ==
  \/ NormalizeURL \/ NormalizeLimits
  \/ \E h \in config.headers : NormalizeHeader(h)
  \/ HeadersDone \/ NormalizeAuthorization \/ NormalizeTLS \/ NormalizeTimeout
  \/ CloneTransport

ConfigSpec == ConfigInit /\ [][ConfigNext]_configVars

-----------------------------------------------------------------------------
(* Properties                                                               *)

\* What the request carries, counted from the configuration.
SentBytes(c) ==
  MapThenSumSet(HeaderBytes, c.headers)
    + (IF c.auth.bytes = 0 THEN 0 ELSE authorizationName + c.auth.bytes)

\* normalizeClientConfig: an accepted configuration never sends more header
\* bytes than the limit, the Authorization header included.
HeaderBudget == check = "accepted" => SentBytes(config) <= maxHeaderBytes

\* normalizeHeaders: whether the headers are refused does not depend on the
\* order in which Go happens to visit the map.
HeadersOrderFree ==
  LET acceptable == /\ \A h \in config.headers : h.valid
                    /\ MapThenSumSet(HeaderBytes, config.headers)
                         <= maxHeaderBytes
  IN /\ refusedAt = "headers" => ~acceptable
     /\ check \in {"authorization", "tls", "timeout", "transport", "accepted"} =>
          acceptable

\* Dial: an accepted configuration speaks verified TLS 1.2 or newer, or it
\* stays on this host because the caller said so.
SecureTransport ==
  check = "accepted" =>
    \/ /\ config.target.scheme = "wss"
       /\ tls.given /\ ~tls.skipVerify /\ tls.minVersion >= VersionTLS12
    \/ /\ config.target.scheme = "ws" /\ config.target.loopback
       /\ config.insecure /\ ~tls.given
=============================================================================

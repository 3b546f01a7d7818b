---------------------------- MODULE MessageLimit ----------------------------
(***************************************************************************)
(* How the configured message limit is enforced: newConnection stores the  *)
(* maximum plus one in the native limitReader, which every message resets, *)
(* and Connection.Read is io.ReadAll over it.  A message is a sequence of  *)
(* frames whose payloads arrive in pieces of any size.  A compressed one   *)
(* is decompressed below the limitReader: a single frame as far as this    *)
(* module is concerned, the end of which compress/flate reports after its  *)
(* last byte, or together with it when the sender marked its last block as *)
(* final.                                                                  *)
(***************************************************************************)
EXTENDS Normalizers

CONSTANTS
  ReadLimits,   \* MaxMessageBytes as configured, on both ends
  MaxPayload,   \* bound: bytes of a frame
  MaxFragments, \* bound: frames of a message
  MaxMessages   \* bound: messages read from the connection

ASSUME MessageLimitAssumption ==
  /\ ReadLimits \subseteq Int
  /\ MaxPayload \in Nat /\ MaxFragments \in Nat /\ MaxMessages \in Nat

VARIABLES
  configured,     \* MaxMessageBytes of the configuration
  maximum,        \* Connection.maxMessage, 0 before newConnection
  readLimit,      \* limitReader.limit
  remaining,      \* limitReader.n
  message,        \* the message being read, or the last one read
  frames,         \* its frames after the one being read
  payloadLength,  \* bytes of the frame not read yet
  got,            \* bytes ReadAll has
  messages,       \* messages so far
  readState          \* "none", "reading", "message" or "tooBig"

readVars == <<configured, maximum, readLimit, remaining, message, frames,
              payloadLength, got, messages, readState>>

\* final: the last bytes and the end of the stream come in one call.
Messages ==
  [frames : UNION {[1..k -> 0..MaxPayload] : k \in 1..MaxFragments},
   final : {FALSE}]
  \cup [frames : [1..1 -> 1..MaxPayload], final : {TRUE}]

Size(m) == SumFunction(m.frames)

ReadInit ==
  /\ configured \in ReadLimits
  /\ maximum = 0 /\ readLimit = 0 /\ remaining = 0
  /\ message = [frames |-> <<>>, final |-> FALSE] /\ frames = <<>>
  /\ payloadLength = 0 /\ got = 0 /\ messages = 0 /\ readState = "none"

\* Faulty variant: the limit is the maximum itself.
newConnectionExact ==
  /\ maximum = 0 /\ normalizeMessageLimit(configured).ok
  /\ maximum' = normalizeMessageLimit(configured).value
  /\ readLimit' = maximum'
  /\ UNCHANGED <<configured, remaining, message, frames, payloadLength, got,
                 messages, readState>>

\* Faulty variant: the byte SetReadLimit adds is added here as well.
newConnectionTwice ==
  /\ maximum = 0 /\ normalizeMessageLimit(configured).ok
  /\ maximum' = normalizeMessageLimit(configured).value
  /\ readLimit' = maximum' + 2
  /\ UNCHANGED <<configured, remaining, message, frames, payloadLength, got,
                 messages, readState>>

\* newConnection, with Conn.SetReadLimit.
newConnection ==
  /\ maximum = 0 /\ normalizeMessageLimit(configured).ok
  /\ maximum' = normalizeMessageLimit(configured).value
  /\ readLimit' = maximum' + 1
  /\ UNCHANGED <<configured, remaining, message, frames, payloadLength, got,
                 messages, readState>>

\* Connection.Write refuses what is longer than its own maximum.
WriteAccepts(size) == size <= maximum

\* The header of a message: msgReader.reset.
ReadStart(m) ==
  /\ maximum > 0 /\ readState \in {"none", "message"} /\ messages < MaxMessages
  /\ message' = m
  /\ remaining' = readLimit
  /\ payloadLength' = Head(m.frames) /\ frames' = Tail(m.frames)
  /\ got' = 0 /\ readState' = "reading" /\ messages' = messages + 1
  /\ UNCHANGED <<configured, maximum, readLimit>>

\* limitReader.Read with nothing left: the connection is closed with 1009.
LimitReached ==
  /\ readState = "reading" /\ remaining = 0
  /\ readState' = "tooBig"
  /\ UNCHANGED <<configured, maximum, readLimit, remaining, message, frames,
                 payloadLength, got, messages>>

\* One call that returns bytes: never more than the limit leaves.
ReadSome(k) ==
  /\ readState = "reading" /\ remaining > 0
  /\ k <= remaining /\ k <= payloadLength
  /\ remaining' = remaining - k
  /\ payloadLength' = payloadLength - k
  /\ got' = got + k
  /\ readState' = IF message.final /\ k = payloadLength THEN "message" ELSE readState
  /\ UNCHANGED <<configured, maximum, readLimit, message, frames, messages>>

\* msgReader.read at the end of a frame: the continuation's header.
NextFrame ==
  /\ readState = "reading" /\ remaining > 0
  /\ payloadLength = 0 /\ frames # <<>>
  /\ payloadLength' = Head(frames) /\ frames' = Tail(frames)
  /\ UNCHANGED <<configured, maximum, readLimit, remaining, message, got,
                 messages, readState>>

ReadEnd ==
  /\ readState = "reading" /\ remaining > 0
  /\ payloadLength = 0 /\ frames = <<>>
  /\ readState' = "message"
  /\ UNCHANGED <<configured, maximum, readLimit, remaining, message, frames,
                 payloadLength, got, messages>>

ReadNext ==
  \/ newConnection
  \/ \E m \in Messages : ReadStart(m)
  \/ LimitReached
  \/ \E k \in 1..MaxPayload : ReadSome(k)
  \/ NextFrame \/ ReadEnd

ReadSpec == ReadInit /\ [][ReadNext]_readVars

-----------------------------------------------------------------------------
(* Properties                                                               *)

\* Connection.Read and Connection.Write, docs/dependency-review.md "Messages
\* ... are bounded": however a message is cut into frames and pieces, it is
\* read whole or not at all, and what one end may write the other end with
\* the same configuration reads; a message of exactly the maximum passes.
WritableIsReadable ==
  /\ readState = "message" => got = Size(message)
  /\ readState = "tooBig" => ~WriteAccepts(Size(message))

\* Connection.Read, Conn.SetReadLimit, "sets the max number of bytes to read
\* for a single message": no message above the maximum is returned.
ReadBounded == readState = "message" => got <= maximum

\* Connection.Read: the byte that SetReadLimit adds is returned only if the
\* sender ended the message with a final deflate block, since limitReader
\* then never sees the call that would have failed; what is returned never
\* exceeds the maximum by more, and not at all without compression.
ReadSlack ==
  readState = "message" =>
    got <= maximum \/ (message.final /\ got = maximum + 1)
=============================================================================

---------------------------- MODULE Normalizers -----------------------------
(***************************************************************************)
(* The normalisers of config.go that the server and the client share, as   *)
(* functions from a value to a normalised one or to Rejected.  Strings are *)
(* abstracted to natural numbers in the order Go sorts them; numbers and   *)
(* limits are the program's own.                                           *)
(***************************************************************************)
EXTENDS Integers, Sequences, FiniteSets, Functions

CONSTANTS
  UnsafePatterns,  \* origin patterns that are not exact safe host patterns
  NotTokens,       \* subprotocols that are not portable HTTP tokens
  MaxPatterns,     \* maxOriginPatterns
  MaxProtocols     \* maxSubprotocols

ASSUME NormalizersAssumption == MaxPatterns \in Nat /\ MaxProtocols \in Nat

defaultMaxMessageBytes == 1048576
maxMessageBytes        == 16777216
defaultCompressionAt   == 512
millisecond            == 1000   \* durations are in microseconds

Rejected == [ok |-> FALSE]
Is(v)    == [ok |-> TRUE, value |-> v]

\* Zero is replaced by the default, and the result must be in range.
Between(v, default, low, high) ==
  LET chosen == IF v = 0 THEN default ELSE v
  IN IF chosen < low \/ chosen > high THEN Rejected ELSE Is(chosen)

-----------------------------------------------------------------------------
\* Faulty variant: zero is refused instead of replaced.
MessageLimitStrict(limit) ==
  IF limit < 1 \/ limit > maxMessageBytes THEN Rejected ELSE Is(limit)

\* Zero stands for the default, which is not checked.
normalizeMessageLimit(limit) ==
  IF limit = 0 THEN Is(defaultMaxMessageBytes)
  ELSE IF limit < 1 \/ limit > maxMessageBytes THEN Rejected ELSE Is(limit)

\* Faulty variant: the copy is not sorted before neighbours are compared.
OriginsUnsorted(patterns, allowAny) ==
  IF \/ allowAny /\ patterns # <<>>
     \/ Len(patterns) > MaxPatterns
     \/ \E i \in DOMAIN patterns :
          \/ patterns[i] \in UnsafePatterns
          \/ i > 1 /\ patterns[i] = patterns[i - 1]
  THEN Rejected
  ELSE Is(patterns)

\* slices.Sort: the values of s rearranged in order.
slicesSort(s) ==
  CHOOSE t \in {[i \in DOMAIN s |-> s[p[i]]] : p \in Bijection(DOMAIN s, DOMAIN s)} :
    \A i, j \in DOMAIN s : i <= j => t[i] <= t[j]

\* A sorted copy; duplicates are looked for among neighbours only.
normalizeOrigins(patterns, allowAny) ==
  LET sorted == slicesSort(patterns)
  IN IF \/ allowAny /\ patterns # <<>>
        \/ Len(patterns) > MaxPatterns
        \/ \E i \in DOMAIN sorted :
             \/ sorted[i] \in UnsafePatterns
             \/ i > 1 /\ sorted[i] = sorted[i - 1]
     THEN Rejected
     ELSE Is(sorted)

\* A copy in the given order: the order is the preference.
normalizeSubprotocols(protocols) ==
  IF \/ Len(protocols) > MaxProtocols
     \/ \E i \in DOMAIN protocols :
          \/ protocols[i] \in NotTokens
          \/ \E prior \in 1..(i - 1) : protocols[i] = protocols[prior]
  THEN Rejected
  ELSE Is(protocols)

\* Faulty variant: the default is filled in although compression is off.
CompressionDefaulted(enabled, threshold) ==
  IF enabled \/ threshold = 0
  THEN Between(threshold, defaultCompressionAt, 256, maxMessageBytes)
  ELSE Rejected

normalizeCompression(enabled, threshold) ==
  IF enabled THEN Between(threshold, defaultCompressionAt, 256, maxMessageBytes)
  ELSE IF threshold # 0 THEN Rejected ELSE Is(0)
=============================================================================

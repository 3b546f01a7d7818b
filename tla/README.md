# A TLA+ verification of the Spice WebSocket starter

The starter wraps a vendored `github.com/coder/websocket` connection in a small
API (`Connection`, `Handler`, `Dial`, two configurations).  What is hard in it
is not the API but what happens when several goroutines close, read, write and
cancel one connection at once, with a peer that answers, stays silent, or stops
inside a frame.  Beside it stands the repository's quality gate, a program that
runs commands under a deadline and owns temporary files.  The modules here
translate that code from `src/`, TLC checks them on small instances, and TLAPS
proves their safety properties for every number of callers, sessions, frames,
headers and deferred calls.

## 1. Inventory

| Component | State | Operations | Interacts with |
|---|---|---|---|
| Connection wrapper (`connection.go`) | `closeOnce`, `closeErr`, `closeDone` | `Read`, `Write`, `Ping`, `Close`, `closeNow` | calls the native connection; starts one goroutine for the handshake |
| Native connection (vendored `conn.go`, `close.go`, `read.go`, `write.go`) | `closing`, `closed`, `closeSentErr`, `closeReceivedErr`, `readMu`, `writeFrameMu`, `msgWriter.mu`, `closeMu`, `msgReader.payloadLength`, `activePings` | close handshake, frame reader, frame writer, timeouts | shared by all callers, the handshake goroutine and the `AfterFunc` goroutines of its timeouts; the peer by way of the socket |
| Server handler (`server.go`) | slot channel, `active` | `ServeHTTP`, `Active` | one goroutine per request; application callbacks; `Connection.Close`, `closeNow`; observers |
| Observers (`observer.go`) | the list of finishers of one session | `beginObservers` and the function it returns | called by `ServeHTTP` and by `Dial`'s cleanup |
| Client (`client.go`) | `finishOnce` | `Dial`, the cleanup function | `Connection.Close`; observers |
| Server configuration (`config.go`) | none | `normalizeServerConfig` | read by `NewHandler` |
| Client configuration (`config.go`) | none | `normalizeClientConfig` | read by `Dial` |
| Message limit (`newConnection`, vendored `limitReader`, `msgReader`) | `limit`, `n`, `payloadLength` | `SetReadLimit`, one `Read` of a message | the configurations give the limit; `Connection.Write` has its own |
| Quality gate, release rehearsal (`internal/qualitygate`) | temporary files and trees, deferred calls, the joined error, the deadline; the module cache and the repository outside it | six modes, each a list of steps | external commands, the file system, the network |
| Manifest, generated registration | constants | none | Spice framework |

What makes each of them correct, and what is hard about it:

* **Connection and native connection.**  A `Close` that has waited for the
  handshake has closed the socket; all callers get one verdict, and never before it was stored; no
  frame follows a close frame; two goroutines never parse the stream at once; a
  message is not put together from two; a reported peer status is the one the
  peer sent; calls return.  Hard: the locks are channels that a goroutine may
  release without holding them, `handleControl` releases `readMu` in the middle
  of `readLoop`, `reader()` gives the lock up between header and payload, and
  cancellation acts differently before and after a timeout is armed.
* **Handler.**  Slots and counter are exact on every path: refusals, failed
  upgrades, failed closes, panics.  Finishers run in reverse, once, with one
  outcome, on a closed socket.
* **Client.**  Of several concurrent cleanups one reports, truthfully, and
  nobody returns before the report is complete.
* **Configurations.**  Normalisation is idempotent; the header budget includes
  the header added after the count; the verdict does not depend on Go's map
  order; the scheme, loopback, TLS and "insecure" checks agree.

* **Message limit.**  What one end may write the other end reads, however it is
  cut into frames and pieces; more than the maximum is refused.  Hard: the limit
  is the maximum plus one, and the end of a message may come with its last byte
  or after it.
* **Quality gate.**  Exit code 0 means that everything the mode stands for was
  done and nothing failed; exit code 1 means that something did fail; temporary
  files are gone either way; the gate returns.  Hard: deferred calls that set
  the result, in reverse order; some removals count and others are only warned
  about; commands that run offline on what others downloaded; a deadline that may
  strike anywhere, and processes that outlive it; a run after a killed run.

The hazards, each at its line, are listed in `PROJECT.json`.

## 2. Modules

| Module | Models | Extends or instantiates |
|---|---|---|
| `NativeConn` | state and steps of one goroutine inside the vendored library, and the peer | |
| `Connection` | `connection.go` over it; specification, fairness, properties | extends `NativeConn`, instantiates `ConnectionContract` |
| `ConnectionContract` | what `Close` promises, without locks or frames | |
| `Observer` | the outcomes both ends report | |
| `Handler` | `ServeHTTP` and its deferred functions | extends `Observer` |
| `Client` | `Dial` and cleanup | extends `Observer`, instantiates `ConnectionContract` |
| `Normalizers`, `ServerConfig`, `ClientConfig` | `config.go`, `NewHandler`; `slicesSort` is what `slices.Sort` promises | the last two extend the first |
| `MessageLimit` | `newConnection`, `limitReader` and `msgReader` | extends `Normalizers` |
| `GateChecks` | what the gate decides about files, as predicates | |
| `QualityGate` | `internal/qualitygate`, every mode | extends `GateChecks` |
| `MCConnection`, `MCHandler`, `MCConfig`, `MCQualityGate` | the instances TLC checks | |
| `MCEndpoints` | both ends in one instance: a handler and a client are configured, then serve and clean up | extends `MCConfig`, `Handler`, `Client` |
| `ConnectionProofs`, `WireProofs`, `CloseVerdictProofs`, `ContractProofs` | theorems about the connection | each extends the one before it |
| `HandlerProofs`, `ClientProofs`, `ConfigProofs`, `GateProofs` | theorems about the other components | the modules they are about |

### NativeConn and Connection

A goroutine is a member of `Procs`: the callers of `Close` (`Closers`), `Write`
(`Writers`) and `Ping` (`Pingers`), one reader, the handshake goroutine
`CloseGo` that `closeOnce` starts, and `Timer`, which stands for the
`context.AfterFunc` goroutines of armed timeouts.  `pc[p]` is where it is;
`frame[p]` the frame it is writing, `then[p]` where it goes on afterwards, and
`err[p]` the error it carries.  Labels are grouped by function in `Labels`.

| Source | Actions |
|---|---|
| `Connection.Close` | `CloseInvalid`, `CloseCancelled`, `CloseCall`, `CloseVerdict`, `CloseForce`, `CloseAwait`; its goroutine `Publish`, `Signal` |
| `Conn.Close`, `CloseNow` | `CasClosing`, `WaitClosed` |
| `Conn.close`, `msgWriter.close`, `msgReader.close` | `CloseBegin`, `CloseWriter`, `CloseEnd` |
| `waitCloseHandshake` | `HsLock`, `HsDrain`, `HsSkip`, then `ReadLoop` |
| `writeFrame`, `writeClose` | `WLock`, `WWrite`, `WFail`, `WSent` |
| `readLoop`, `handleControl` | `ReadLoop`, `ReadCas` |
| `Conn.Reader`, `msgReader` | `RdLock`, `RdHead`, `RdBody`, `RdTooBig`, `RdBodyEnds` |
| `Conn.Write`, `Conn.Ping` | `MLock`, `PingWait` |
| deferred unlocks and error mapping | `Fin` |
| contexts and timeouts | `Cancel`, `Expire`, `Fire` |
| the peer (external) | `PeerSend`, `PeerRest`, `PeerClose`, `PeerPong`, `PeerGone`, `PeerStall` |

Abstractions, all of them of data or of the outside:

* A message is a header chunk and one payload chunk (two if it is over the read
  limit); a control frame is one chunk.  Payload bytes are the identity of
  their message.  Fragments and compressed messages are in `MessageLimit`,
  without concurrency; masking is left out.
* A lock is a Boolean, because the library's `mu` is a channel of capacity one
  whose unlock is a non-blocking receive: ownership is not enforced by the
  code, so it is a property here (`StreamOwned`), not an assumption.
* A lost race for a lock is decided when the step is taken: a goroutine at a
  lock takes it, or finds the connection closed, or finds its context ended,
  exactly the cases of the library's `select`.
* The five second timeouts may expire whenever they are armed (`Expire`).  The
  fifteen seconds of `waitGoroutines` are longer than both together, so they
  matter only when the peer pauses inside a frame, where no timeout is armed;
  the constant `Stalls` says whether it may.
* `msgWriter.writeMu` is held exactly while a compressed message is inside
  `writeFrame` (`WriteMu`), and `msgWriter.mu` keeps a second writer out, so it
  needs no variable.  `Compressed` says whether messages are compressed.
* A `writeFrame` that closes the connection releases `writeFrameMu` once more in
  its deferred call, whoever holds it by then (`InWriteFrame`).
* One reader, as the library requires; it stops after an error.  A nil context
  or connection is refused without effect and has no action.
* `Timer` acts once: closing is idempotent, a second firing changes nothing.

### Handler and Client

`Handler` has one process per request.  `Connection.Close` enters by its
contract: `Close` claims the connection, and `CloseReturn`, which nothing forces
to happen, closes the socket and returns nil, an ordinary peer close or another
error.  That it closes the socket is `ContractProofs!CloseMeetsContract` together
with `WaitingClosesTheSocket`, since the context of this call is a fresh one; the
exception of the contract, a call that finds another one stuck, would need the
session handler to leave a `Close` of its own under way when it returns, which the
module assumes it does not.  `Panic` models a panic in an observer, in the session
handler or in a finisher: `net/http` recovers it after the deferred functions, so
the slot is returned, but no further finisher runs, and a hijacked socket that was
not closed yet stays open until the library's finalizer closes it (`Finalize`).

`Client` runs on the contract itself: its `ConnStep` takes steps of the
`ConnectionContract` instance.  A panicking observer leaves `Dial` without a
connection to close (`DialPanic`); a panicking finisher unwinds its caller, and
`sync.Once` counts as done, so the finishers left never run (`FinishPanic`).

### Configurations

Strings are numbers and facts about them (an origin pattern is a rank in the
sort order, a header has a byte count and validity facts).  Numbers keep their
bounds, and the configurations enumerated are at and around every bound.
`ClientConfig` visits the header map one header at a time in every order, as
`range` over a map may.

`MessageLimit` reads messages of every size around the limit, in every division
into frames and of a frame's payload into pieces, one call of
`limitReader.Read` at a time.  `MCConfig` puts it beside the two configurations,
with one of the three varied at a time; `MCEndpoints` lets the handler serve and
the client clean up once the plain configurations are accepted.  They share one
run and the limit's normalisation, but no state, so each moves while the others
rest.  Durations are microseconds, for the values below a millisecond.

### Quality gate

The gate is sequential, so its state is a program counter `at` in a list of
*frames*.  A frame is a step of `run`, or one boundary of a compatibility step
(each boundary is a function call with deferred calls of its own), and holds
operations: a command that runs offline and needs module graphs in the cache, a
network command that gets some, a file operation, a check of contents, the
creation of a temporary file, a deferred call.  `Steps` writes the modes down
with the names of the source; the actions interpret an operation each:

| Source | Actions |
|---|---|
| `command`, `capture`, `mergedEnvironment` | `RunOffline`, `Timeout` |
| `networkCommand`, `networkCapture`, `onlineEnvironment` | `RunOnline`, `Timeout` |
| file reads and walks | `FileStep` |
| `readCompatibility`, `directRequirement`, `totalCoverage`, `validateRelease...` | `CheckStep`, with the predicates of `GateChecks` |
| `os.CreateTemp`, `os.MkdirTemp`, the sum file | `Create`, `Defer`, `WriteSum` |
| `compatibilityState` and its deferred comparison | `State`, `Compare` |
| `cleanup`, `removeTree`, `os.Remove` of the profile | `Remove` |
| the loop of `run`, `execute` | `FrameDone` |
| the 15 minute context | `Expire` |
| outside | `Hang`, `OrphanEnds`, `Edit`, `Interrupt` |

Abstractions: what a command computes is nondeterministic, except that an
offline command fails without its modules and that a check decides by the
repository.  A repository is a record of the facts the gate looks at; `differs`
names the comparisons with generated or expected text that fail (`vendor`,
`format`, `workflow`...).  The repository's state for the comparison is the
number of changes made to it, and the temporary files if the directory for
them lies inside it.  `Interrupt` ends the process without its deferred calls
and starts it again with the same flags, over what the first run left behind.
`expired` may become true at any point, so a slow command needs no clock.

Remarks that the properties state as exceptions, since no document denies them:

* `NothingLeftBehind`: a coverage profile that cannot be closed is not removed
  (`main.go:671`).
* `NoFailureSwallowed`: a modfile or tree that cannot be removed is only warned
  about (`main.go:487`, `main.go:596`); a coverage profile that cannot be removed
  is an error (`main.go:674`), and the property says so.
* `FailureHasCause`: mode `fmt` prepares nothing, so it fails on a module cache
  without the tools.
* `GateReturns`: a process that a killed command left behind and that never lets
  go of the pipe keeps `capture` (`main.go:804`, no `WaitDelay`) and so the gate
  for ever; the property says that nothing else does.
* `requireReleaseTool` checks which release tools may be used after the
  rehearsal has used them, and after "all verification passed" was printed; the
  exit code is still right.

## 3. Runs

Passing runs:

| Run | Instance | Shows |
|---|---|---|
| `ConnClose` | 2 closers, 1 cancellable, cancellable reader; one data or ping frame, peer close; the peer may stop inside a frame; valid and invalid status; server | `TypeOK`, `StreamOwned`, `WaitedMeansClosed`, `SameVerdict`, `PeerErrorTruthful`, `ImplementsContract` |
| `ConnWrite` | closer, cancellable writer of compressed messages, reader, peer close, peer that stops reading; client | `NothingAfterClose`, `LocksHaveHolders`, `CloseReturns`, `CancelledCallReturns` |
| `ConnRead` | reader, closer, cancellable pinger, 2 messages within or over the limit, peer close and pongs, but no ping and no malformed frame; client | `NoTornMessage` |
| `ConnLive` | closer, cancellable reader; peer vanishes, stops reading, sends data, malformed frames, pings; server | `CloseReturns`, `CancelledCallReturns` |
| `Endpoints` | configurations at and around every bound; limits 1 to 3, two messages of up to 3 frames of up to 4 bytes; 2 requests, 1 slot, 2 observers; 3 cleanup callers, 2 finishers | `Idempotent`, `OriginsExact`, `ZeroIsDefault`; `HeaderBudget`, `HeadersOrderFree`, `SecureTransport`; `WritableIsReadable`, `ReadSlack`; `TypeOK`, `SlotsExact`, `ActiveExact`, `OpenHoldsSlot`, `FinishersNested`; `ClientTypeOK`, `CleanupComplete`, `ResultTruthful` |
| `Gate` | all modes; a sound repository with an empty cache, unsound ones with a full cache; six renderings; one edit, one file that cannot be removed, two runs | `TypeOK`, `NoFailureSwallowed`, `FailureHasCause`, `GateProves`, `NothingLeftBehind`, `ReleaseVouched`, `GateReturns` |

`WaitedMeansClosed` is the part of "`Close` closes the socket" that holds: a
call that took part in the handshake, with the verdict or cancelled while it
waited.  A call made with a context that is done already is finding 5.
`ReadSlack` is the part of the read limit that holds: nothing above the maximum
without compression, and at most one byte with it; the byte is finding 6.
`ResultTruthful` speaks of the verdict of `Close`, which is nil for a handshake
both sides agreed on and also for a connection found closed
(`connection.go:179-185`).
`CancelledCallReturns` is checked of `Write` (`ConnWrite`) and of `Read`
(`ConnLive`); with a pinger next to them the liveness check is out of reach, so of
`Ping` only safety is checked (`ConnRead`).

Why the bounds are enough to be interesting.  Two closers give all the roles
`Close` distinguishes: the one that starts the handshake, one that joins it,
one that is cancelled before or during it, one that comes after it.  One frame
of the peer is enough for the handshake to meet the reader between header and
payload, or for a ping to end it early; the peer's close frame is what makes
`handleControl` drop the lock; two messages are needed for a payload to be taken for another's (`ConnRead`).  One
writer next to a closer and the reader's echo gives three competitors for
`writeFrameMu`, and the writer is the one that may be stuck in it.  Two
requests on one slot are the smallest case with a refusal next to a session,
and two observers, either of which may give no finisher, the smallest in which
the order of the finishers shows.  A limit of 3 leaves room below and above
it within one frame and across three, and the second message shows that the
limit is reset.  In the gate one edit (`MaxEdits`) can fall before, between or
after the two digests of a boundary, one file that stays (`MaxStuck`) is enough
to tell a warning from an error, and a second run (`MaxRuns`) meets whatever the
first left; two boundaries, minimum and current, are all there are.  Every mode
reaches exit code 0 in the run.  Where a theorem exists (section 5) the bounds do not matter.
`CHECK_DEADLOCK FALSE` is set everywhere because the applications, the peer
and the requests may all stop; that nobody waits for ever is stated as
liveness.  Each property has a faulty variant of a mapped definition
(*Faulty variant* in the modules), under which it is violated.

### Fairness

`Fairness` says that a goroutine that can run is run, and that armed timers go
off: Go's scheduler and runtime timers.  Nothing is assumed of the application:
calling, cancelling and returning from a session handler are never fair.  Of
the peer, `CooperativeSpec` assumes only that it finishes a frame it has begun
(`PeerRest`); it may never answer, never read, never close or vanish.  Without
that assumption `Close` may hang, which is the first finding.  `Handler` and
`Client` assume no fairness: their calls of `Close` may never return, and a
slot is then never given back.  `QualityGate` assumes that the process runs and
that its context's timer fires; that a command ends by itself, or that a process
left behind by a killed one ends or closes its pipe (`OrphanEnds`), is not
assumed.

## 4. Where code and documentation disagree

Each is a run that is expected to find a violation.

1. `ConnStall` / `CancelledCloseReturns`.  `connection.go:148` says that
   cancellation force-closes the socket and returns the caller's cause.  A
   cancelled `Close` calls `closeNow` and then waits for the handshake
   goroutine (`connection.go:194`).  That goroutine has claimed the close, so
   `CloseNow` only waits for it; and while it skips the rest of a half-read
   message (`close.go:208`) no timeout is armed.  A peer that stops inside a
   frame keeps the cancelled call from returning.
2. `ConnReadCancel` / `ReadCancelCloses`.  `connection.go:81` says cancelling
   the context of `Read` closes the connection.  A `Read` cancelled while it
   takes `readMu` returns before the timeout is armed (`conn.go:290`), and the
   connection stays open.
3. `ConnTorn` / `NoTornMessage`.  `Read` returns "one complete bounded
   message".  The handshake skips the payload of a half-read message without
   updating `payloadLength` (`close.go:208`).  If a ping follows, its pong is
   refused because our close frame is already out, the handshake gives up and
   releases `readMu`, and before the socket is closed the reader continues with
   a `payloadLength` whose bytes are gone: it returns what comes next on the
   stream.  A malformed frame ends the handshake in the same way.  `ConnRead`
   shows that without such a ping or malformed frame this does not happen.
4. `HandlerOutcome` / `FailedMeansFailure`.  `observer.go` reserves
   `OutcomeFailed` for an application or protocol failure.  If the peer's
   ordinary close crosses ours, `Close` returns its status as an error,
   `closeNow` finds the connection already claimed, and the session is
   reported as failed (`server.go:117`).
5. `ConnForce` / `ReturnedMeansClosed`.  "Cancellation force-closes the socket"
   (`connection.go:148`, `README.md:64`, `docs/dependency-review.md:27`).  A
   `Close` whose context is done when it is called runs `closeNow` and returns
   (`connection.go:167-173`).  If another `Close` has claimed the connection and
   its peer has stopped inside a frame, `CloseNow` waits 15 seconds for it
   (`close.go:231-249`) and gives up: the call returns with the socket open.
6. `ReadLimit` / `ReadBounded`.  `SetReadLimit` "sets the max number of bytes to
   read for a single message", and "when the limit is hit, reads return an
   error" (`read.go:88-94`).  The limit is the maximum plus one, and the refusal
   comes with the call after that byte; a compressed message whose sender marked
   its last block as final ends with its last bytes, so that call is never made
   and one byte more than the maximum is returned (how `compress/flate` reports
   the end is external to the repository).

Two more observations carry no run because no document speaks of them: a ping
during the handshake lets `Close` return nil without the peer's close frame
having been read, and a panicking session handler leaves its socket open,
outside the connection limit, until the garbage collector finds it
(`OpenHoldsSlot` states exactly that exception).

## 5. Proofs

Assumptions on the constants, all evaluated by TLC in the runs:
`ProcsAssumption` (the sets of callers are disjoint), `PeerAssumption` (the
constants of the connection have their types), `HandlerAssumption` (finitely
many requests, a positive capacity), `ClientAssumption` (finitely many cleanup
callers, a natural number of finishers), `ServerConfigsAssumption`,
`ConfigsAssumption`, `NormalizersAssumption` and `MessageLimitAssumption` (the
configurations and messages are records of the right shape, with any numbers),
`GateAssumption` (the bounds of the gate's model are natural numbers),
`RequestAssumption` and `RenderAssumption` (the flags the gate is called with
and the renderings it compares have their types).  Nothing bounds the number of
closers, writers, pingers, frames, requests, observers, headers, origins, bytes
or runs.

| Theorem | States | Inductive invariant |
|---|---|---|
| `ConnectionProofs!TypeCorrect` | `[]TypeOK` | `TypeInv`: also "a handshake goroutine past its start has a status", without which the frame it writes could be ill-typed |
| `WireProofs!CloseFrameIsLast` | `[]NothingAfterClose` | `CloseFrameInv`: a close frame is on the wire only if it is recorded (`closeSent`) or its writer stands between flush and record, and at most one goroutine is inside `writeFrame` |
| `WireProofs!StreamHasOneReader` | `[]StreamOwned` | `StreamInv`, below |
| `WireProofs!MessagesAreWhole` | `[]NoTornMessage`, if `QuietPeer` | `TornInv`, below |
| `CloseVerdictProofs!WaitingClosesTheSocket`, `OneVerdict` | `[]WaitedMeansClosed`, `[]SameVerdict` | `VerdictInv`: a goroutine past its wait, the handshake goroutine at `publish` or later, and a set `closeDone` each imply a closed socket; the stored error does not change once released |
| `CloseVerdictProofs!CloseClosesTheSocket` | `[]ReturnedMeansClosed`, if `~Stalls` | `VerdictInv`; without the hypothesis it is false (finding 5) |
| `CloseVerdictProofs!PeerStatusIsTrue` | `[]PeerErrorTruthful` | `TruthInv`: a status carried as an error is the one received; the handshake goroutine has none before the handshake and not its own after it.  Rests on `StreamInv`: only because its close is claimed does it never skip the comparison |
| `CloseVerdictProofs!EveryLockHasHolder` | `[]LocksHaveHolders` | `HoldInv`, below |
| `ContractProofs!CloseMeetsContract` | `Spec => ImplementsContract` | `TypeInv` and `VerdictInv`: every step of `Connection` is a step or a stutter of `ConnectionContract` under the mapping in `Connection` |
| `HandlerProofs!HandlerTypeCorrect`, `SlotsAreExact`, `ActiveIsExact` | `[]TypeOK`, `[]SlotsExact`, `[]ActiveExact` | `CountInv`: both counters are the cardinalities of the sets of calls at the labels that hold them; `Active` labels are among the `Holding` ones, so the order of the two deferred functions gives `active <= slots` |
| `HandlerProofs!OpenSocketHoldsSlot`, `FinishersAreNested` | `[]OpenHoldsSlot`, `[]FinishersNested` | `SessionInv`: a socket is open only between upgrade and close unless its call panicked; the finishers that ran are the last that began, last to first, with the one outcome |
| `ClientProofs!ClientTypeCorrect`, `CleanupIsComplete`, `ResultIsTruthful` | `[]ClientTypeOK`, `[]CleanupComplete`, `[]ResultTruthful` | `ClientInv`: one caller is inside `finishOnce`, what it has reported so far is what its own close gave, and only a panic ends `finishOnce` with finishers left |
| `ConfigProofs!ZeroStandsForDefault`, `OriginsAreExact`, `NormalizingTwice` | `[]ZeroIsDefault`, `[]OriginsExact`, `[]Idempotent` | `HandlerInv`: the result is the normalisation of the configuration given |
| `ConfigProofs!TransportIsSecure`, `HeadersFitBudget`, `HeadersAreOrderFree` | `[]SecureTransport`, `[]HeaderBudget`, `[]HeadersOrderFree` | `TransportInv`; `HeaderInv`: the bytes counted are the sum over the headers visited |
| `ConfigProofs!WrittenIsRead`, `ExcessIsOneByte` | `[]WritableIsReadable`, `[]ReadSlack` | `LimitInv` (the limit is the maximum plus one; `n` is what is left of it) and `FramesInv` (what was read and what is left add up to the message) |
| `GateProofs!GateTypeCorrect` | `[]TypeOK` | `PlaceInv`: the program counter stays inside the frames of the mode |
| `GateProofs!FailuresAreKept` | `[]NoFailureSwallowed` | `FaultInv`: once a fault other than an edit or a removal only warned about is recorded, the result is a failure and no deferred call takes it back |
| `GateProofs!TemporaryFilesAreRemoved` | `[]NothingLeftBehind` | `TempInv`: each temporary file has a pending removal or is excepted |
| `GateProofs!ReleaseIsVouched` | `[]ReleaseVouched` | `PassedInv`: the checks passed so far are those of the operations behind `at` |
| `GateProofs!LinesAreProved` | `[]GateProves` | `CallInv`, `TestedInv`, `CountInv`: what a frame stands for was done when `at` is behind it |
| `GateProofs!FailuresHaveCauses` | `[]FailureHasCause` | `CauseInv`, `ReadyInv`, below |

None of the properties is inductive by itself.  `NothingAfterClose`, for
example, says nothing about a goroutine already inside `writeFrame` with a
frame in hand; the mutual exclusion given by `writeFrameMu` has to be part of
the invariant.  The five arguments worth telling:

* **One reader (`StreamInv`).**  `readMu` proves nothing by itself, since
  `handleControl` and the deferred unlocks release it without checking who
  holds it.  The invariant says where the reader and the handshake goroutine
  can be and that (1) a reader that has met no error and stands between lock
  and unlock holds the lock, (2) a handshake goroutine there holds it *or the
  reader has met an error*, (3) the two are never there together.  The second
  case is the one in which the reader released the handshake's lock, and it is
  harmless because a reader with an error never locks again.  That the
  handshake does not give the lock up to echo a close frame needs (4): when it
  reads, our close frame is out or the socket is closed.
* **Locks have holders (`HoldInv`).**  `Conn.close` waits for `readMu` under
  `closeMu`, so a goroutine that closed the connection with `readMu` in its hands
  would wait for itself; the comment at `read.go:355` is about this.  The reader
  that echoes a close frame has released the lock; the handshake goroutine has
  claimed the close, so `writeFrame` never closes under it.  The case left is a
  reader that reports a malformed or too long message while it holds the lock:
  `writeFrame` would close under it if a close frame had been received that
  nobody has claimed.  `HoldInv` says that there is none, since only that reader
  or the handshake goroutine could have received it.  The same invariant follows
  `writeFrameMu`, `msgMu` and `closeMu`.  It is the safety half of
  `CloseReturns`: the closed socket lets every holder move, and fairness does
  the rest.
* **Whole messages (`TornInv`).**  The stream still to be read, buffer and
  peer's debt together (`inbox \o rest`), consists of whole frames; and either
  the handshake is reading, or nothing will be read any more, or
  `payloadLength` is right about where the stream stands (`InStep`).  The
  handshake stops in the middle of a stream only for a ping or a malformed
  frame.  Hence the hypothesis `QuietPeer`, without which the property is false
  (finding 3): the proof attempt fails exactly where `ConnTorn` ends.
* **Sums and sorting (`ConfigProofs`).**  The library's induction theorems
  cannot be instantiated here, so `LeastNat` derives from the well-foundedness
  of `<` that a set of naturals with a member has a least one, and inductions
  are written as least counterexamples.  With it `SumFunctionOnSet`, a recursive
  function over `CHOOSE`, is shown to compute a sum that does not depend on the
  order (`IsSum`, `SumGrows`), and every finite list to have a sorted permutation
  (`SortExists`), which makes `slicesSort` the list `slices.Sort` returns.
* **No failure without a cause (`CauseInv`, `ReadyInv`).**  Two things could make
  a sound gate fail.  The gate's own temporary files could make the second
  `compatibilityState` of a boundary differ from the first: `CauseInv` says that
  while nothing went wrong the state taken is the edits so far plus the temporary
  files that are not the frame's own (`Others`), and by `NoOwnFiles` the frame's
  own are gone when the second one is taken.  And an offline command could lack a
  module: `ReadyInv` says that what the operations behind `at` fetch is in the
  cache, and `ProgramReady` that in the program of every mode but `fmt`, for
  every `-line`, what an offline command needs is fetched by an earlier
  frame.  The second is shown per frame and put together over concatenations
  (`ReadyConcat`, `LeavesMore`), since the frames of `compatibility` are as many
  as the lines asked for.

The proofs also found what TLC does not look at: three `CASE` expressions whose
guards overlapped (in `NativeConn` and `QualityGate`).  TLC takes the first
guard that holds; TLA+ does not say which is taken.  They now are `IF` chains or
have disjoint guards.

Only model-checked: the liveness properties `CloseReturns`,
`CancelledCallReturns` and `GateReturns`, since fairness and `ENABLED` are out of
the prover's reach.

## 6. Not modelled

* Manifest and generated files: constants, no decisions.
* Vendored frame codec, masking, compression, HTTP upgrade and dial:
  third-party data processing; `Accept` and `Dial` enter by their results.
* Streaming `Reader`/`Writer`, `CloseRead`, `NetConn`: the starter never calls
  them.
* The Spice framework and development tools: linked against only.
* Of the quality gate: command lines, log lines, the texts of the SBOM, of the
  release workflow and of coverage reports, each reduced to whether it passes.

## 7. Plan

1. Done: native connection, wrapper, contract, handler, client, configurations,
   message limit, quality gate; the proofs above, which cover every safety
   property of the runs.
2. Two endpoints: a client `Connection` against a server `Connection` in place
   of the abstract peer, for handshakes that cross.

---------------------------- MODULE QualityGate -----------------------------
(***************************************************************************)
(* internal/qualitygate: one process that runs, in the order of the mode,  *)
(* frames of operations: external commands under a 15 minute context, file *)
(* operations and checks.  A frame is a step of the gate, or one boundary  *)
(* of a compatibility step: it stops at its first error, runs its deferred *)
(* calls last to first, and the gate stops after the first frame that      *)
(* fails.  Offline commands run with GOPROXY=off and so need their module  *)
(* graphs in the cache, which the network commands fill.                   *)
(***************************************************************************)
EXTENDS GateChecks

CONSTANTS
  Requests,   \* the invocations to try: records of the flags mode and line,
              \* the repository repo, the module cache, and whether the
              \* directory for temporary files lies inside the repository
  Renders,    \* what the release renderer may write
  MaxEdits,   \* bound: changes others make to the repository meanwhile
  MaxStuck,   \* bound: temporary files that cannot be removed
  MaxRuns     \* bound: runs, each after the one before was killed

ASSUME GateAssumption ==
  MaxEdits \in Nat /\ MaxStuck \in Nat /\ MaxRuns \in Nat \ {0}

\* A file of checksums is a sequence of lines.
ASSUME RenderAssumption ==
  \A r \in Renders : "checksums" \in DOMAIN r =>
    DOMAIN r["checksums"].lines = 1..Len(r["checksums"].lines)

VARIABLES
  request,    \* the invocation, a member of Requests
  cache,      \* the module graphs in the module cache
  at,         \* <<frame, operation>> that comes next
  defers,     \* deferred calls of the frame, the last one first
  failed,     \* the frame's error is not nil
  before,     \* the repository's state when a boundary began
  output,     \* the directories the renderer has written
  child,      \* "none", a command that "hung", or an "orphan" of a killed
              \* command that still holds the pipe capture reads
  expired,    \* the context's deadline has passed
  edits,      \* changes to the repository so far
  temp,       \* temporary files: <<run, frame, kind>>
  stuck,      \* those whose removal failed
  faults,     \* what went wrong in this run
  tested,     \* <<line, untouched>> for each boundary that passed
  run,        \* number of this run
  exit        \* "running", or the exit code

vars == <<request, cache, at, defers, failed, before, output, child, expired,
          edits, temp, stuck, faults, tested, run, exit>>

-----------------------------------------------------------------------------
(* The frames of every mode.                                                *)

Do(op, arg) == [op |-> op, arg |-> arg]
Frame(ops)  == <<[line |-> "none", ops |-> ops]>>
Check(what) == Do("check", <<what>>)
File        == Do("file", "")   \* file operations that may fail

\* A command runs offline and needs module graphs, or online and gets some.
\* Its output goes to os.Stdout, or is captured through a pipe.
command(needs)       == Do("command", needs)
capture(needs)       == Do("capture", needs)
networkCommand(gets) == Do("network", gets)
networkCapture       == Do("networkCapture", {})

toolPath            == capture({"tools"})
repositoryRoot      == File
goFiles             == File
treeDigests         == File
readReleaseArtifact == File

\* The Go version and the mode are looked at before anything runs.
start == Frame(<<repositoryRoot, Check("go"), Check("mode")>>)
checkIdentity ==
  Frame(<<File, Check("identity"), File, Check("compatibility"),
          capture({}), Check("minimum")>>)

checkReleaseWorkflow == <<File, Check("workflow")>>

prepareDependencies ==
  Frame(<<networkCommand({"product"}), networkCommand({"tools"}),
          networkCommand({"product tests"}), networkCommand({"tools tests"})>>
        \o checkReleaseWorkflow)

format(write) ==
  Frame(IF write
        THEN <<goFiles, toolPath, Do("rewrite", {}),
               toolPath, Do("rewrite", {})>>
        ELSE <<goFiles, toolPath, capture({}), Check("imports"),
               toolPath, capture({}), Check("format")>>)

checkModule == Frame(<<command({"product", "product tests"}),
                       Do("create", "vendor"), command({"product"}),
                       treeDigests, treeDigests, Check("vendor")>>)
vet         == Frame(<<command({})>>)
lint        == Frame(<<toolPath, command({}), toolPath, command({})>>)
security    == Frame(<<toolPath, command({}), toolPath, command({})>>)
tests       == Frame(<<command({}), command({})>>)
offline     == Frame(<<command({}), command({})>>)

coverage ==
  Frame(<<Do("create", "profile"), File, Do("defer", "profile"),
          command({}), capture({}), Check("coverage")>>)

validateReleaseRehearsal ==
  <<Check("artifacts"), readReleaseArtifact, Check("checksums"),
    readReleaseArtifact, Check("sbom")>>

\* The tool is resolved, plans once and renders twice.
releaseRehearsal ==
  Frame(<<Do("create", "rehearsal"), capture({}), capture({}), File,
          Do("render", {}), Do("render", {}), treeDigests, treeDigests,
          Check("deterministic")>> \o validateReleaseRehearsal)

requireReleaseTool == Frame(<<capture({}), Check("authorization")>>)

\* Both product files are read, then copied to a modfile with its sum file.
alternateModfile ==
  <<File, Do("create", "mod"), File, Do("write", "sum"), command({})>>

resolveExactCoreVersion == <<networkCapture, Check("resolved")>>

PrepareBoundary(b) ==
  [line |-> b, ops |-> resolveExactCoreVersion \o alternateModfile
                         \o <<networkCommand({b})>>]

verifyCompatibilityBoundary(b) ==
  [line |-> b,
   ops |-> <<Do("state", b)>> \o alternateModfile
             \o <<capture({b}), Do("check", <<"selected", b>>),
                  capture({b}), Check("packages"),
                  command({b}), command({b})>>]

\* The compatibility file and the -line flag are read, then each boundary is
\* taken on its own.
Boundaries(line, frame) ==
  LET lines == boundaries(line)
  IN Frame(<<File, Check("compatibility"), Do("check", <<"line", line>>)>>)
       \o [i \in DOMAIN lines |-> frame[lines[i]]]

prepareCompatibilityDependencies(line) ==
  Boundaries(line, [b \in Lines |-> PrepareBoundary(b)])

coreCompatibility(line) ==
  Boundaries(line, [b \in Lines |-> verifyCompatibilityBoundary(b)])

Modes == {"check", "compatibility", "fmt", "release-rehearsal", "verify",
          "verify-release"}

\* Faulty variant: the flag decides in every mode.
PreparationLineFlag(mode, line) == line

\* What is prepared: both lines whatever -line says, when all is verified.
PreparationLine(mode, line) ==
  IF mode \in {"verify", "verify-release"} THEN "all" ELSE line

\* The steps of a mode, in order.
Steps(mode, line) ==
  LET prepared ==
        prepareCompatibilityDependencies(PreparationLine(mode, line))
  IN CASE mode = "check" ->
            checkIdentity \o prepareDependencies \o format(FALSE)
              \o checkModule \o vet
       [] mode = "compatibility" ->
            checkIdentity \o prepared \o coreCompatibility(line)
       [] mode = "fmt" -> format(TRUE)
       [] mode = "release-rehearsal" -> checkIdentity \o releaseRehearsal
       [] mode \in {"verify", "verify-release"} ->
            checkIdentity \o prepareDependencies \o prepared \o format(FALSE)
              \o checkModule \o vet \o lint \o security \o tests \o coverage
              \o coreCompatibility("all") \o offline
              \o (IF mode = "verify-release" THEN releaseRehearsal ELSE <<>>)
       [] OTHER -> <<>>

Program(mode, line) == start \o Steps(mode, line) \o requireReleaseTool

\* What -mode and -line may say, a value of neither being "unknown".
ModeFlags == Modes \cup {"unknown"}
LineFlags == {"minimum", "current", "all", "unknown"}

\* The module graphs commands need: of both modules, with the dependencies
\* of their tests, and of the product at either line.
ModuleGraphs == {"product", "product tests", "tools", "tools tests",
                 "minimum", "current"}

ASSUME RequestAssumption ==
  \A r \in Requests :
    r.mode \in ModeFlags /\ r.line \in LineFlags /\ r.cache \subseteq ModuleGraphs

Programs == [m \in ModeFlags |-> [l \in LineFlags |-> Program(m, l)]]

Frames == Programs[request.mode][request.line]
Ops    == Frames[at[1]].ops
Op     == Ops[at[2]]

-----------------------------------------------------------------------------
(* Operations.                                                              *)

Init ==
  /\ request \in Requests
  /\ cache = request.cache
  /\ at = <<1, 1>> /\ defers = <<>> /\ failed = FALSE /\ before = <<>>
  /\ output = <<>> /\ child = "none" /\ expired = FALSE /\ edits = 0
  /\ temp = {} /\ stuck = {} /\ faults = {} /\ tested = {}
  /\ run = 1 /\ exit = "running"

Active    == exit = "running" /\ child = "none"
Finished  == at[2] > Len(Ops)
AtOp(ops) == Active /\ ~Finished /\ Op.op \in ops

Pass    == at' = <<at[1], at[2] + 1>> /\ UNCHANGED <<failed, faults>>
Fail(f) ==   \* the frame's function returns
  failed' = TRUE /\ faults' = faults \cup {f} /\ at' = <<at[1], Len(Ops) + 1>>

Temp(kinds) == {<<run, at[1], k>> : k \in kinds}

\* compatibilityState: every regular file below the root, by content.
compatibilityState ==
  <<edits, IF request.tempInside THEN temp ELSE {}>>

FileStep ==
  /\ AtOp({"file"})
  /\ Pass \/ Fail("file")
  /\ UNCHANGED <<request, cache, defers, before, output, child, expired, edits,
                 temp, stuck, tested, run, exit>>

\* What a check of invocation r finds, given the rendered directories out.
Holds(check, r, out) ==
  LET repo == r.repo
  IN CASE check[1] = "mode"          -> r.mode \in Modes
       [] check[1] = "line"          -> ValidLine(check[2])
       [] check[1] = "identity"      -> CanonicalModule(repo)
       [] check[1] = "minimum"       -> RequiresMinimum(repo)
       [] check[1] = "compatibility" -> readCompatibility(repo)
       [] check[1] = "selected"      ->
            SelectedVersion(repo, check[2]) = repo.compatibility[check[2]]
       [] check[1] = "packages"      -> compatibilityPackages(repo) # {}
       [] check[1] = "coverage"      -> CoverageOK(repo)
       [] check[1] = "authorization" -> validateReleaseToolAuthorization(repo)
       [] check[1] = "deterministic" -> deterministicReleaseArtifacts(out)
       [] check[1] = "artifacts"     -> ExpectedArtifacts(out[1])
       [] check[1] = "checksums"     -> validateReleaseChecksums(out[1])
       [] check[1] = "sbom"          -> validateReleaseSBOM(out[1]["sbom"])
       [] OTHER                      -> check[1] \notin repo.differs

CheckStep ==
  /\ AtOp({"check"})
  /\ IF Holds(Op.arg, request, output) THEN Pass ELSE Fail("content")
  /\ UNCHANGED <<request, cache, defers, before, output, child, expired, edits,
                 temp, stuck, tested, run, exit>>

\* Faulty variant: the sum file is forgotten.
CleanupModOnly(kind) ==
  IF kind = "profile" THEN <<>>
  ELSE <<[call |-> "remove", kinds |-> {kind}]>>

\* os.CreateTemp or os.MkdirTemp, with a name of its own.  What removes it
\* is known from here on, except for the coverage profile.
Cleanup(kind) ==
  CASE kind = "mod" -> <<[call |-> "remove", kinds |-> {"mod", "sum"}]>>
    [] kind = "profile" -> <<>>
    [] OTHER -> <<[call |-> "remove", kinds |-> {kind}]>>

Create ==
  /\ AtOp({"create"})
  /\ \/ Fail("file") /\ UNCHANGED <<temp, defers>>
     \/ /\ Pass
        /\ temp' = temp \cup Temp({Op.arg})
        /\ defers' = Cleanup(Op.arg) \o defers
  /\ UNCHANGED <<request, cache, before, output, child, expired, edits, stuck,
                 tested, run, exit>>

Defer ==
  /\ AtOp({"defer"})
  /\ Pass
  /\ defers' = <<[call |-> "removeStrict", kinds |-> {Op.arg}]>> \o defers
  /\ UNCHANGED <<request, cache, before, output, child, expired, edits, temp,
                 stuck, tested, run, exit>>

\* os.WriteFile of the sum file: when it fails the file may exist already.
WriteSum ==
  /\ AtOp({"write"})
  /\ \/ Pass /\ temp' = temp \cup Temp({Op.arg})
     \/ Fail("file") /\ temp' \in {temp, temp \cup Temp({Op.arg})}
  /\ UNCHANGED <<request, cache, defers, before, output, child, expired, edits,
                 stuck, tested, run, exit>>

\* The state of the repository when the boundary begins, to be compared when
\* it ends.
State ==
  /\ AtOp({"state"})
  /\ \/ Fail("file") /\ UNCHANGED <<before, defers>>
     \/ /\ Pass
        /\ before' = compatibilityState
        /\ defers' = <<[call |-> "compare"]>> \o defers
  /\ UNCHANGED <<request, cache, output, child, expired, edits, temp, stuck,
                 tested, run, exit>>

-----------------------------------------------------------------------------
(* Commands.                                                                *)

Offline == {"command", "capture", "rewrite", "render"}
Online  == {"network", "networkCapture"}

\* An offline command that finds its modules in the cache may succeed.
RunOffline ==
  /\ AtOp(Offline) /\ ~expired
  /\ \/ /\ Op.arg \subseteq cache
        /\ Pass
        /\ edits' = edits + (IF Op.op = "rewrite" THEN 1 ELSE 0)
        /\ \/ Op.op = "render" /\ \E r \in Renders : output' = Append(output, r)
           \/ Op.op # "render" /\ UNCHANGED output
     \/ /\ Fail(IF Op.arg \subseteq cache THEN "command" ELSE "cold")
        /\ UNCHANGED <<edits, output>>
  /\ UNCHANGED <<request, cache, defers, before, child, expired, temp, stuck,
                 tested, run, exit>>

RunOnline ==
  /\ AtOp(Online) /\ ~expired
  /\ \/ Pass /\ cache' = cache \cup Op.arg
     \/ Fail("network") /\ UNCHANGED cache
  /\ UNCHANGED <<request, defers, before, output, child, expired, edits, temp,
                 stuck, tested, run, exit>>

\* A command that does not end by itself.
Hang ==
  /\ AtOp(Offline \cup Online) /\ ~expired
  /\ child' = "hung"
  /\ UNCHANGED <<request, cache, at, defers, failed, before, output, expired,
                 edits, temp, stuck, faults, tested, run, exit>>

\* Faulty variant: the commands are not bound to the context.
TimeoutUnbound ==
  /\ AtOp(Offline \cup Online) /\ expired
  /\ Fail("deadline") /\ child' = "none"
  /\ UNCHANGED <<request, cache, defers, before, output, expired, edits, temp,
                 stuck, tested, run, exit>>

\* exec.CommandContext after the deadline: nothing starts, and a running
\* command is killed.  What it started itself may live on, and capture waits
\* until the pipe has no writer left.
Timeout ==
  /\ expired /\ exit = "running"
  /\ \/ AtOp(Offline \cup Online) /\ Fail("deadline") /\ child' = "none"
     \/ child = "hung" /\ Fail("deadline") /\ child' = "none"
     \/ /\ child = "hung" /\ Op.op \in {"capture", "rewrite", "networkCapture"}
        /\ child' = "orphan" /\ UNCHANGED <<at, failed, faults>>
  /\ UNCHANGED <<request, cache, defers, before, output, expired, edits, temp,
                 stuck, tested, run, exit>>

\* The orphan ends or closes the pipe, and the call that waited returns.
OrphanEnds ==
  /\ exit = "running" /\ child = "orphan"
  /\ Fail("deadline") /\ child' = "none"
  /\ UNCHANGED <<request, cache, defers, before, output, expired, edits, temp,
                 stuck, tested, run, exit>>

-----------------------------------------------------------------------------
(* The end of a frame, and of the run.                                      *)

Unwinding(call) ==
  Active /\ Finished /\ defers # <<>> /\ Head(defers).call \in call

\* Faulty variant: the result of os.Remove is not joined to the profile's.
RemoveForgiving ==
  LET mine == temp \cap Temp(Head(defers).kinds)
      strict == Head(defers).call = "removeStrict"
  IN /\ Unwinding({"remove", "removeStrict"})
     /\ \E kept \in SUBSET mine :
          /\ Cardinality(stuck) + Cardinality(kept) <= MaxStuck
          /\ temp' = (temp \ mine) \cup kept
          /\ stuck' = stuck \cup kept
          /\ faults' = IF kept = {} THEN faults
                       ELSE faults \cup {IF strict THEN "removal" ELSE "warning"}
     /\ defers' = Tail(defers)
     /\ UNCHANGED <<request, cache, at, failed, before, output, child, expired,
                    edits, tested, run, exit>>

\* The modfiles and the trees are removed with a warning at most, a coverage
\* profile that stays is an error.
Remove ==
  LET mine == temp \cap Temp(Head(defers).kinds)
      strict == Head(defers).call = "removeStrict"
  IN /\ Unwinding({"remove", "removeStrict"})
     /\ \E kept \in SUBSET mine :
          /\ Cardinality(stuck) + Cardinality(kept) <= MaxStuck
          /\ temp' = (temp \ mine) \cup kept
          /\ stuck' = stuck \cup kept
          /\ faults' = IF kept = {} THEN faults
                       ELSE faults \cup {IF strict THEN "removal" ELSE "warning"}
          /\ failed' = (failed \/ (strict /\ kept # {}))
     /\ defers' = Tail(defers)
     /\ UNCHANGED <<request, cache, at, before, output, child, expired, edits,
                    tested, run, exit>>

\* Faulty variant: the states are not compared.
CompareNot ==
  LET line == Frames[at[1]].line
  IN /\ Unwinding({"compare"})
     /\ UNCHANGED <<failed, faults>>
     /\ tested' = IF failed THEN tested
                  ELSE tested \cup {<<line, before = compatibilityState>>}
     /\ defers' = Tail(defers)
     /\ UNCHANGED <<request, cache, at, before, output, child, expired, edits,
                    temp, stuck, run, exit>>

\* The last deferred call of a boundary: its modfiles are gone by now, and an
\* error the boundary ended with stays.
Compare ==
  LET line == Frames[at[1]].line
  IN /\ Unwinding({"compare"})
     /\ \/ failed' = TRUE /\ faults' = faults \cup {"file"}
        \/ /\ failed' = (failed \/ before # compatibilityState)
           /\ UNCHANGED faults
     /\ tested' = IF failed' THEN tested
                  ELSE tested \cup {<<line, before = compatibilityState>>}
     /\ defers' = Tail(defers)
     /\ UNCHANGED <<request, cache, at, before, output, child, expired, edits,
                    temp, stuck, run, exit>>

\* Faulty variant: the loop runs past the last frame.
FrameDonePast ==
  /\ Active /\ Finished /\ defers = <<>>
  /\ \/ failed /\ exit' = "1" /\ UNCHANGED at
     \/ ~failed /\ exit' = (IF at[1] > Len(Frames) THEN "0" ELSE exit)
                /\ at' = <<at[1] + 1, 1>>
  /\ UNCHANGED <<request, cache, defers, failed, before, output, child, expired,
                 edits, temp, stuck, faults, tested, run>>

\* run and execute: on to the next frame, or return.
FrameDone ==
  /\ Active /\ Finished /\ defers = <<>>
  /\ \/ failed /\ exit' = "1" /\ UNCHANGED at
     \/ ~failed /\ at[1] = Len(Frames) /\ exit' = "0" /\ UNCHANGED at
     \/ ~failed /\ at[1] < Len(Frames) /\ at' = <<at[1] + 1, 1>> /\ UNCHANGED exit
  /\ UNCHANGED <<request, cache, defers, failed, before, output, child, expired,
                 edits, temp, stuck, faults, tested, run>>

-----------------------------------------------------------------------------
(* The environment.                                                         *)

\* 15 minutes have passed.
Expire ==
  /\ exit = "running" /\ ~expired
  /\ expired' = TRUE
  /\ UNCHANGED <<request, cache, at, defers, failed, before, output, child,
                 edits, temp, stuck, faults, tested, run, exit>>

\* Somebody, or a test, changes a file of the repository.
Edit ==
  /\ exit = "running" /\ edits < MaxEdits
  /\ edits' = edits + 1
  /\ faults' = faults \cup {"edit"}
  /\ UNCHANGED <<request, cache, at, defers, failed, before, output, child,
                 expired, temp, stuck, tested, run, exit>>

\* An interrupt ends the process where it stands, nothing deferred is run,
\* and the same command is given again: the module cache and what the killed
\* run left behind are still there (whose it was no longer matters).
Interrupt ==
  /\ exit = "running" /\ run < MaxRuns
  /\ run' = run + 1
  /\ at' = <<1, 1>> /\ defers' = <<>> /\ failed' = FALSE /\ before' = <<>>
  /\ output' = <<>> /\ child' = "none" /\ expired' = FALSE /\ edits' = 0
  /\ temp' = {<<0, 0, t[3]>> : t \in temp} /\ stuck' = {}
  /\ faults' = {} /\ tested' = {}
  /\ UNCHANGED <<request, cache, exit>>

GateStep ==
  \/ FileStep \/ CheckStep \/ Create \/ Defer \/ WriteSum \/ State
  \/ RunOffline \/ RunOnline \/ Timeout \/ Remove \/ Compare \/ FrameDone

Next == GateStep \/ Hang \/ OrphanEnds \/ Expire \/ Edit \/ Interrupt

\* The process runs and its timer fires.  Nothing is assumed of a command, nor
\* of what a killed one has left running.
Spec == Init /\ [][Next]_vars /\ WF_vars(GateStep) /\ WF_vars(Expire)

-----------------------------------------------------------------------------
(* Properties                                                               *)

Kinds == {"mod", "sum", "vendor", "profile", "rehearsal"}

TypeOK ==
  /\ request \in Requests
  /\ cache \subseteq ModuleGraphs
  /\ at[1] \in 1..Len(Frames) /\ at[2] \in 1..(Len(Ops) + 1)
  /\ Len(defers) <= 2 /\ Len(output) <= 2
  /\ failed \in BOOLEAN /\ expired \in BOOLEAN
  /\ child \in {"none", "hung", "orphan"}
  /\ \A t \in temp : t[1] \in {0, run} /\ t[3] \in Kinds
  /\ stuck \subseteq temp
  /\ faults \subseteq {"file", "content", "command", "cold", "network",
                       "deadline", "removal", "warning", "edit"}
  /\ tested \subseteq Lines \X BOOLEAN
  /\ edits \in 0..(MaxEdits + 2) /\ run \in 1..MaxRuns
  /\ exit \in {"running", "0", "1"}

\* run, coverage, verifyCompatibilityBoundary: no error is lost on its way
\* out, through deferred calls that set the result themselves: the gate ends
\* with 0 only if no file operation, check or command of the run failed, the
\* removal of the coverage profile included.  What stays of the modfiles and
\* the temporary trees is only warned about, and so no failure of the run.
NoFailureSwallowed == exit = "0" => faults \subseteq {"edit", "warning"}

\* run: whatever the module cache holds at first, every check finds its
\* modules: they are prepared before GOPROXY=off, also when -line says less
\* than the mode tests.  Temporary files are gone before the repository is
\* compared, even if they are kept inside it.  So a gate that fails has met a
\* fault, or is the formatter, which prepares nothing.
FailureHasCause ==
  exit = "1" => \/ faults \ {"cold"} # {}
                \/ request.mode = "fmt" /\ faults = {"cold"}

\* README.md: the gate proves both lines.  It ends with 0 only after every
\* line the mode stands for was tested on a repository that was the same
\* before and after.
GateProves ==
  exit = "0" =>
    tested = {<<l, TRUE>> : l \in
      CASE request.mode \in {"verify", "verify-release"} -> {"minimum", "current"}
        [] request.mode = "compatibility" /\ request.line = "all" ->
             {"minimum", "current"}
        [] request.mode = "compatibility" /\ request.line # "all" ->
             {request.line}
        [] OTHER -> {}}

\* alternateModfile, checkModule, coverage, releaseRehearsal: a run that
\* returns, after whatever error or timeout, leaves no temporary file behind
\* but those it could not remove, and a profile it could not close.
NothingLeftBehind ==
  exit # "running" =>
    \A t \in temp :
      \/ t[1] # run \/ t \in stuck
      \/ t[3] = "profile" /\ "file" \in faults

\* docs/releasing.md: after a rehearsal that passed, someone who has only
\* checksums.txt can check every other file of the release with it, each
\* against exactly one line, and the other render is the same.
ReleaseVouched ==
  exit = "0" /\ output # <<>> =>
    LET files == DOMAIN output[1] \ {"checksums"}
        lines == output[1]["checksums"].lines
    IN /\ output[2] = output[1]
       /\ Len(lines) = Cardinality(files)
       /\ \A f \in files : \E i \in DOMAIN lines : lines[i] = <<output[1][f], f>>

\* execute: a gate comes to an end, though its commands may hang.  One thing
\* keeps it for ever: a process that a killed command left behind and that
\* never lets go of the pipe capture reads (main.go sets no WaitDelay).
GateReturns == <>(exit # "running") \/ <>[](child = "orphan")
=============================================================================

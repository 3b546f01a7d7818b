----------------------------- MODULE GateProofs -----------------------------
(***************************************************************************)
(* What exit codes 0 and 1 of the quality gate stand for, and what a run   *)
(* leaves behind, for every set of invocations and repositories,           *)
(* everything the renderer may write, and any number of edits, files that  *)
(* cannot be removed and interrupted runs.                                 *)
(***************************************************************************)
EXTENDS QualityGate, FiniteSetTheorems, SequenceTheorems, TLAPS

-----------------------------------------------------------------------------
(* How the gate moves.                                                      *)

\* An operation of the frame succeeds.
Advance ==
  /\ Active /\ ~Finished /\ Pass
  /\ Op.op = "check" => Holds(Op.arg, request, output)
  /\ cache' = IF Op.op \in Online THEN cache \cup Op.arg ELSE cache
  /\ IF Op.op = "render" THEN \E r \in Renders : output' = Append(output, r)
     ELSE output' = output
  /\ edits' = IF Op.op = "rewrite" THEN edits + 1 ELSE edits
  /\ temp' = IF Op.op \in {"create", "write"} THEN temp \cup Temp({Op.arg})
             ELSE temp
  /\ before' = IF Op.op = "state" THEN compatibilityState ELSE before
  /\ defers' = CASE Op.op = "create" -> Cleanup(Op.arg) \o defers
                 [] Op.op = "defer" ->
                      <<[call |-> "removeStrict", kinds |-> {Op.arg}]>> \o defers
                 [] Op.op = "state" -> <<[call |-> "compare"]>> \o defers
                 [] OTHER -> defers
  /\ UNCHANGED <<request, child, expired, stuck, tested, run, exit>>

\* An operation fails and the frame's function returns.
Abort ==
  /\ exit = "running"
  /\ child = "none" => ~Finished
  /\ \E f \in {"file", "content", "command", "cold", "network", "deadline"} :
       /\ Fail(f)
       /\ f = "cold" => Op.op \in Offline /\ ~(Op.arg \subseteq cache)
       /\ child = "none" /\ Op.op = "file" => f = "file"
       /\ child = "none" => Op.op # "defer"
  /\ child' = "none"
  /\ \/ temp' = temp
     \/ child = "none" /\ Op.op = "write" /\ temp' = temp \cup Temp({Op.arg})
  /\ UNCHANGED <<request, cache, defers, before, output, expired, edits, stuck,
                 tested, run, exit>>

\* A command hangs, or is killed and leaves a process behind.
Wait ==
  /\ exit = "running"
  /\ AtOp(Offline \cup Online) \/ child = "hung"
  /\ child' \in {"hung", "orphan"}
  /\ UNCHANGED <<request, cache, at, defers, failed, before, output, expired,
                 edits, temp, stuck, faults, tested, run, exit>>

\* Every action that is about an operation is one of these.
LEMMA OperationSteps ==
  ASSUME edits \in Nat,
         \/ FileStep \/ CheckStep \/ Create \/ Defer \/ WriteSum \/ State
         \/ RunOffline \/ RunOnline \/ Timeout \/ OrphanEnds \/ Hang
  PROVE  Advance \/ Abort \/ Wait
<1>. USE DEF AtOp, Active, Offline, Online
<1>1. CASE FileStep
  <2>1. CASE Pass
    BY <1>1, <2>1 DEF FileStep, Advance
  <2>2. CASE Fail("file")
    BY <1>1, <2>2 DEF FileStep, Abort
  <2>. QED
    BY <1>1, <2>1, <2>2 DEF FileStep
<1>2. CASE CheckStep
  <2>1. CASE Holds(Op.arg, request, output) /\ Pass
    BY <1>2, <2>1 DEF CheckStep, Advance
  <2>2. CASE Fail("content")
    BY <1>2, <2>2 DEF CheckStep, Abort
  <2>. QED
    BY <1>2, <2>1, <2>2 DEF CheckStep
<1>3. CASE Create
  BY <1>3 DEF Create, Advance, Abort
<1>4. CASE Defer
  BY <1>4 DEF Defer, Advance, Abort
<1>5. CASE WriteSum
  BY <1>5 DEF WriteSum, Advance, Abort
<1>6. CASE State
  BY <1>6 DEF State, Advance, Abort
<1>7. CASE RunOffline
  BY <1>7 DEF RunOffline, Advance, Abort
<1>8. CASE RunOnline
  BY <1>8 DEF RunOnline, Advance, Abort
<1>9. CASE Timeout \/ OrphanEnds
  BY <1>9 DEF Timeout, OrphanEnds, Abort, Wait
<1>10. CASE Hang
  BY <1>10 DEF Hang, Wait
<1>. QED
  BY <1>1, <1>2, <1>3, <1>4, <1>5, <1>6, <1>7, <1>8, <1>9, <1>10

-----------------------------------------------------------------------------
(* No failure is swallowed.                                                 *)

Faults == {"file", "content", "command", "cold", "network", "deadline",
           "removal", "warning", "edit"}

\* A fault other than an edit or a warning makes the frame fail, and a failed
\* frame is never forgotten before the process exits.
FaultInv ==
  /\ request \in Requests /\ edits \in Nat /\ run \in 1..MaxRuns
  /\ failed \in BOOLEAN /\ expired \in BOOLEAN
  /\ child \in {"none", "hung", "orphan"} /\ exit \in {"running", "0", "1"}
  /\ faults \subseteq Faults
  /\ failed \/ faults \subseteq {"edit", "warning"}
  /\ exit = "0" => ~failed
  /\ exit = "1" => failed

LEMMA FaultStep == ASSUME FaultInv, [Next]_vars PROVE FaultInv'
<1>. USE DEF FaultInv, Faults
<1>1. CASE Advance
  BY <1>1 DEF Advance, Active, Pass
<1>2. CASE Abort
  BY <1>2 DEF Abort, Fail
<1>3. CASE Wait
  BY <1>3 DEF Wait
<1>4. CASE Remove
  BY <1>4 DEF Remove, Unwinding, Active
<1>5. CASE Compare
  BY <1>5 DEF Compare, Unwinding, Active
<1>6. CASE FrameDone
  BY <1>6 DEF FrameDone, Active
<1>7. CASE Expire
  BY <1>7 DEF Expire
<1>8. CASE Edit
  BY <1>8 DEF Edit
<1>9. CASE Interrupt
  <2>1. run' \in 1..MaxRuns
    BY <1>9, GateAssumption DEF Interrupt
  <2>. QED
    BY <1>9, <2>1 DEF Interrupt
<1>10. CASE UNCHANGED vars
  BY <1>10 DEF vars
<1>. QED
  BY <1>1, <1>2, <1>3, <1>4, <1>5, <1>6, <1>7, <1>8, <1>9, <1>10,
     OperationSteps DEF Next, GateStep

LEMMA FaultAlways == Spec => []FaultInv
<1>1. Init => FaultInv
  <2>. SUFFICES ASSUME Init PROVE FaultInv
    OBVIOUS
  <2>1. run \in 1..MaxRuns
    BY GateAssumption DEF Init
  <2>. QED
    BY <2>1 DEF Init, FaultInv
<1>. QED
  BY <1>1, FaultStep, PTL DEF Spec

\* run, coverage, verifyCompatibilityBoundary: an error survives every
\* deferred call that sets the result itself, so the gate ends with 0 only if
\* no file operation, check or command of the run failed, the removal of the
\* coverage profile included; only the removals the code merely warns about
\* are left out.
THEOREM FailuresAreKept == Spec => []NoFailureSwallowed
<1>1. FaultInv => NoFailureSwallowed
  BY DEF FaultInv, NoFailureSwallowed
<1>. QED
  BY <1>1, FaultAlways, PTL

-----------------------------------------------------------------------------
(* The operations of every frame.                                           *)

\* Checks of the repository, and of what was rendered.
Names == {"go", "mode", "identity", "compatibility", "minimum", "workflow",
          "imports", "format", "vendor", "coverage", "authorization",
          "resolved", "packages"}

PlainChecks ==
  {<<w>> : w \in Names} \cup {<<"selected", b>> : b \in Lines}
  \cup {<<"line", l>> : l \in LineFlags}

OutputChecks ==
  {<<"deterministic">>, <<"artifacts">>, <<"checksums">>, <<"sbom">>}

\* Operations that neither create nor remove anything, and checks that do not
\* look at what was rendered.
PlainOps ==
  [op : {"command", "capture", "network", "networkCapture"},
   arg : SUBSET ModuleGraphs]
  \cup [op : {"file"}, arg : {""}]
  \cup [op : {"check"}, arg : PlainChecks]

\* Every operation of the gate.
AllOps ==
  PlainOps
  \cup [op : {"rewrite", "render"}, arg : {{}}]
  \cup [op : {"create", "write", "defer"}, arg : Kinds]
  \cup [op : {"state"}, arg : Lines]
  \cup [op : {"check"}, arg : OutputChecks]

PlainFrames == [line : {"none"}, ops : Seq(PlainOps)]

\* Frames that neither rewrite files nor render a release, and the frames of
\* all programs.
SafeFrames ==
  PlainFrames \cup {checkModule[1], coverage[1]}
  \cup {PrepareBoundary(b) : b \in Lines}
  \cup {verifyCompatibilityBoundary(b) : b \in Lines}

GateFrames == SafeFrames \cup {format(TRUE)[1], releaseRehearsal[1]}

\* A tuple of members of a set is a sequence over it.
LEMMA Tuples ==
  ASSUME NEW S
  PROVE  /\ \A a \in S : <<a>> \in Seq(S)
         /\ \A a, b \in S : <<a, b>> \in Seq(S)
         /\ \A a, b, c \in S : <<a, b, c>> \in Seq(S)
         /\ \A a, b, c, d \in S : <<a, b, c, d>> \in Seq(S)
         /\ \A a, b, c, d, e \in S : <<a, b, c, d, e>> \in Seq(S)
         /\ \A a, b, c, d, e, f \in S : <<a, b, c, d, e, f>> \in Seq(S)
<1>1. \A a \in S : <<a>> \in Seq(S)
  OBVIOUS
<1>2. \A a, b \in S : <<a, b>> \in Seq(S)
  OBVIOUS
<1>3. \A a, b, c \in S : <<a, b, c>> \in Seq(S)
  OBVIOUS
<1>4. \A a, b, c, d \in S : <<a, b, c, d>> \in Seq(S)
  OBVIOUS
<1>5. \A a, b, c, d, e \in S : <<a, b, c, d, e>> \in Seq(S)
  OBVIOUS
<1>6. \A a, b, c, d, e, f \in S : <<a, b, c, d, e, f>> \in Seq(S)
  OBVIOUS
<1>. QED
  BY <1>1, <1>2, <1>3, <1>4, <1>5, <1>6

\* Commands, file operations and checks of the repository are plain.
LEMMA Plain ==
  /\ \A g \in SUBSET ModuleGraphs :
       /\ command(g) \in PlainOps /\ capture(g) \in PlainOps
       /\ networkCommand(g) \in PlainOps
  /\ networkCapture \in PlainOps /\ toolPath \in PlainOps /\ File \in PlainOps
  /\ \A w \in Names : Check(w) \in PlainOps
  /\ \A b \in Lines : Do("check", <<"selected", b>>) \in PlainOps
  /\ \A l \in LineFlags : Do("check", <<"line", l>>) \in PlainOps
<1>1. \A g \in SUBSET ModuleGraphs :
        /\ command(g) \in PlainOps /\ capture(g) \in PlainOps
        /\ networkCommand(g) \in PlainOps
  BY DEF PlainOps, command, capture, networkCommand, Do
<1>2. networkCapture \in PlainOps
  BY DEF PlainOps, networkCapture, Do
<1>3. toolPath \in PlainOps
  BY <1>1 DEF toolPath, ModuleGraphs
<1>4. File \in PlainOps
  BY DEF PlainOps, File, Do
<1>5. \A w \in Names : Check(w) \in PlainOps
  BY DEF PlainOps, PlainChecks, Check, Do
<1>6. \A b \in Lines : Do("check", <<"selected", b>>) \in PlainOps
  BY DEF PlainOps, PlainChecks, Do
<1>7. \A l \in LineFlags : Do("check", <<"line", l>>) \in PlainOps
  BY DEF PlainOps, PlainChecks, Do
<1>. QED
  BY <1>1, <1>2, <1>3, <1>4, <1>5, <1>6, <1>7

LEMMA PlainFrame ==
  ASSUME NEW ops \in Seq(PlainOps)
  PROVE  Frame(ops) \in Seq(PlainFrames)
BY DEF Frame, PlainFrames

\* The steps that only look.
LEMMA PlainSteps ==
  /\ start \in Seq(PlainFrames) /\ checkIdentity \in Seq(PlainFrames)
  /\ prepareDependencies \in Seq(PlainFrames)
  /\ format(FALSE) \in Seq(PlainFrames)
  /\ vet \in Seq(PlainFrames) /\ lint \in Seq(PlainFrames)
  /\ security \in Seq(PlainFrames) /\ tests \in Seq(PlainFrames)
  /\ offline \in Seq(PlainFrames) /\ requireReleaseTool \in Seq(PlainFrames)
<1>1. command({}) \in PlainOps /\ capture({}) \in PlainOps
  BY Plain
<1>2. start \in Seq(PlainFrames)
  <2>1. Check("go") \in PlainOps /\ Check("mode") \in PlainOps
    BY Plain DEF Names
  <2>2. <<File, Check("go"), Check("mode")>> \in Seq(PlainOps)
    BY <2>1, Plain, Tuples
  <2>. QED
    BY <2>2, PlainFrame DEF start, repositoryRoot
<1>3. checkIdentity \in Seq(PlainFrames)
  <2>1. /\ Check("identity") \in PlainOps /\ Check("compatibility") \in PlainOps
        /\ Check("minimum") \in PlainOps
    BY Plain DEF Names
  <2>2. <<File, Check("identity"), File, Check("compatibility"),
          capture({}), Check("minimum")>> \in Seq(PlainOps)
    BY <1>1, <2>1, Plain, Tuples
  <2>. QED
    BY <2>2, PlainFrame DEF checkIdentity
<1>4. prepareDependencies \in Seq(PlainFrames)
  <2>1. /\ networkCommand({"product"}) \in PlainOps
        /\ networkCommand({"tools"}) \in PlainOps
        /\ networkCommand({"product tests"}) \in PlainOps
        /\ networkCommand({"tools tests"}) \in PlainOps
    BY Plain DEF ModuleGraphs
  <2>2. Check("workflow") \in PlainOps
    BY Plain DEF Names
  <2>3. <<networkCommand({"product"}), networkCommand({"tools"}),
          networkCommand({"product tests"}), networkCommand({"tools tests"})>>
        \in Seq(PlainOps)
    BY <2>1, Tuples
  <2>4. <<File, Check("workflow")>> \in Seq(PlainOps)
    BY <2>2, Plain, Tuples
  <2>. QED
    BY <2>3, <2>4, ConcatProperties, PlainFrame
    DEF prepareDependencies, checkReleaseWorkflow
<1>5. format(FALSE) \in Seq(PlainFrames)
  <2>1. Check("imports") \in PlainOps /\ Check("format") \in PlainOps
    BY Plain DEF Names
  <2>2. <<File, toolPath, capture({}), Check("imports"), toolPath, capture({}),
          Check("format")>> \in Seq(PlainOps)
    BY <1>1, <2>1, Plain
  <2>. QED
    BY <2>2, PlainFrame DEF format, goFiles
<1>6. vet \in Seq(PlainFrames) /\ tests \in Seq(PlainFrames)
      /\ offline \in Seq(PlainFrames)
  BY <1>1, Tuples, PlainFrame DEF vet, tests, offline
<1>7. lint \in Seq(PlainFrames) /\ security \in Seq(PlainFrames)
  BY <1>1, Plain, Tuples, PlainFrame DEF lint, security
<1>8. requireReleaseTool \in Seq(PlainFrames)
  <2>1. Check("authorization") \in PlainOps
    BY Plain DEF Names
  <2>. QED
    BY <1>1, <2>1, Tuples, PlainFrame DEF requireReleaseTool
<1>. QED
  BY <1>2, <1>3, <1>4, <1>5, <1>6, <1>7, <1>8

\* The formatter's frame rewrites twice.
LEMMA RewriteOps ==
  LET o == format(TRUE)[1].ops
  IN /\ Len(o) = 5 /\ o[3] = Do("rewrite", {}) /\ o[5] = Do("rewrite", {})
     /\ o[1] \in PlainOps /\ o[2] \in PlainOps /\ o[4] \in PlainOps
BY Plain DEF format, Frame, goFiles

LEMMA ModuleOps ==
  LET o == checkModule[1].ops
  IN /\ Len(o) = 6 /\ o[2] = Do("create", "vendor")
     /\ \A k \in {1, 3, 4, 5, 6} : o[k] \in PlainOps
<1>1. /\ command({"product", "product tests"}) \in PlainOps
      /\ command({"product"}) \in PlainOps
  BY Plain DEF ModuleGraphs
<1>2. Check("vendor") \in PlainOps
  BY Plain DEF Names
<1>3. /\ Len(checkModule[1].ops) = 6
      /\ checkModule[1].ops[2] = Do("create", "vendor")
  BY DEF checkModule, Frame
<1>4. checkModule[1].ops[1] \in PlainOps /\ checkModule[1].ops[3] \in PlainOps
  BY <1>1 DEF checkModule, Frame
<1>5. /\ checkModule[1].ops[4] \in PlainOps /\ checkModule[1].ops[5] \in PlainOps
      /\ checkModule[1].ops[6] \in PlainOps
  BY <1>2, Plain DEF checkModule, Frame, treeDigests
<1>. QED
  BY <1>3, <1>4, <1>5

LEMMA CoverageOps ==
  LET o == coverage[1].ops
  IN /\ Len(o) = 6 /\ o[1] = Do("create", "profile") /\ o[2] = File
     /\ o[3] = Do("defer", "profile")
     /\ \A k \in {2, 4, 5, 6} : o[k] \in PlainOps
<1>1. Check("coverage") \in PlainOps
  BY Plain DEF Names
<1>2. command({}) \in PlainOps /\ capture({}) \in PlainOps
  BY Plain
<1>. QED
  BY <1>1, <1>2, Plain DEF coverage, Frame

LEMMA RehearsalOps ==
  LET o == releaseRehearsal[1].ops
  IN /\ Len(o) = 14 /\ o[1] = Do("create", "rehearsal")
     /\ o[5] = Do("render", {}) /\ o[6] = Do("render", {})
     /\ o[9] = Check("deterministic") /\ o[10] = Check("artifacts")
     /\ o[12] = Check("checksums") /\ o[14] = Check("sbom")
     /\ \A k \in {2, 3, 4, 7, 8, 11, 13} : o[k] \in PlainOps
<1>. DEFINE p == <<Do("create", "rehearsal"), capture({}), capture({}), File,
                   Do("render", {}), Do("render", {}), treeDigests,
                   treeDigests, Check("deterministic")>>
            q == validateReleaseRehearsal
<1>1. capture({}) \in PlainOps
  BY Plain
<1>2. /\ Len(p) = 9 /\ p[1] = Do("create", "rehearsal")
      /\ p[5] = Do("render", {}) /\ p[6] = Do("render", {})
      /\ p[9] = Check("deterministic")
      /\ \A k \in {2, 3, 4, 7, 8} : p[k] \in PlainOps
  BY <1>1, Plain DEF treeDigests
<1>3. /\ Len(q) = 5 /\ q[1] = Check("artifacts") /\ q[3] = Check("checksums")
      /\ q[5] = Check("sbom") /\ q[2] \in PlainOps /\ q[4] \in PlainOps
  BY Plain DEF validateReleaseRehearsal, readReleaseArtifact
<1>4. p \in Seq({p[i] : i \in 1..9}) /\ q \in Seq({q[i] : i \in 1..5})
  BY DEF validateReleaseRehearsal
<1>5. releaseRehearsal[1].ops = p \o q
  BY DEF releaseRehearsal, Frame
<1>. HIDE DEF p, q
<1>. DEFINE S == {p[i] : i \in 1..9} \cup {q[i] : i \in 1..5}
<1>6. p \in Seq(S) /\ q \in Seq(S)
  BY <1>4
<1>. HIDE DEF S
<1>7. /\ Len(p \o q) = Len(p) + Len(q)
      /\ \A i \in 1 .. Len(p) + Len(q) :
           (p \o q)[i] = IF i <= Len(p) THEN p[i] ELSE q[i - Len(p)]
  BY <1>6, ConcatProperties
<1>8. /\ Len(p \o q) = 14
      /\ \A i \in 1..9 : (p \o q)[i] = p[i]
  <2>1. Len(p) = 9 /\ Len(q) = 5
    BY <1>2, <1>3
  <2>. QED
    BY <1>7, <2>1
<1>9. /\ (p \o q)[10] = q[1] /\ (p \o q)[11] = q[2] /\ (p \o q)[12] = q[3]
      /\ (p \o q)[13] = q[4] /\ (p \o q)[14] = q[5]
  BY <1>2, <1>3, <1>7
<1>10. \A k \in {2, 3, 4, 7, 8, 11, 13} : (p \o q)[k] \in PlainOps
  <2>1. \A k \in {2, 3, 4, 7, 8} : (p \o q)[k] \in PlainOps
    BY <1>2, <1>8
  <2>2. (p \o q)[11] \in PlainOps /\ (p \o q)[13] \in PlainOps
    BY <1>3, <1>9
  <2>. QED
    BY <2>1, <2>2
<1>11. /\ (p \o q)[1] = p[1] /\ (p \o q)[5] = p[5] /\ (p \o q)[6] = p[6]
       /\ (p \o q)[9] = p[9]
  BY <1>8
<1>. QED
  BY <1>2, <1>3, <1>5, <1>8, <1>9, <1>10, <1>11

LEMMA ModfileOps ==
  LET o == alternateModfile
  IN /\ o \in Seq(AllOps) /\ Len(o) = 5
     /\ o[2] = Do("create", "mod") /\ o[4] = Do("write", "sum")
     /\ o[1] \in PlainOps /\ o[3] \in PlainOps /\ o[5] \in PlainOps
<1>1. command({}) \in PlainOps /\ File \in PlainOps
  BY Plain
<1>2. Do("create", "mod") \in AllOps /\ Do("write", "sum") \in AllOps
  BY DEF AllOps, Do, Kinds
<1>3. PlainOps \subseteq AllOps
  BY DEF AllOps
<1>4. alternateModfile \in Seq(AllOps)
  BY <1>1, <1>2, <1>3, Tuples DEF alternateModfile
<1>. QED
  BY <1>1, <1>4 DEF alternateModfile

\* Operations with a modfile between others.
LEMMA AroundModfile ==
  ASSUME NEW p \in Seq(AllOps), NEW q \in Seq(PlainOps)
  PROVE  LET o == p \o alternateModfile \o q
             n == Len(p)
         IN /\ o \in Seq(AllOps) /\ Len(o) = n + 5 + Len(q)
            /\ \A k \in 1..n : o[k] = p[k]
            /\ o[n + 2] = Do("create", "mod") /\ o[n + 4] = Do("write", "sum")
            /\ \A k \in (n + 1)..Len(o) :
                 k \notin {n + 2, n + 4} => o[k] \in PlainOps
<1>. DEFINE a == alternateModfile
<1>1. /\ a \in Seq(AllOps) /\ Len(a) = 5
      /\ a[2] = Do("create", "mod") /\ a[4] = Do("write", "sum")
      /\ a[1] \in PlainOps /\ a[3] \in PlainOps /\ a[5] \in PlainOps
  BY ModfileOps
<1>. HIDE DEF a
<1>2. q \in Seq(AllOps)
  BY DEF AllOps
<1>3. /\ p \o a \in Seq(AllOps)
      /\ Len(p \o a) = Len(p) + Len(a)
      /\ \A i \in 1 .. Len(p) + Len(a) :
           (p \o a)[i] = IF i <= Len(p) THEN p[i] ELSE a[i - Len(p)]
  BY <1>1, ConcatProperties
<1>. DEFINE pa == p \o a
<1>. HIDE DEF pa
<1>4. /\ pa \o q \in Seq(AllOps)
      /\ Len(pa \o q) = Len(pa) + Len(q)
      /\ \A i \in 1 .. Len(pa) + Len(q) :
           (pa \o q)[i] = IF i <= Len(pa) THEN pa[i] ELSE q[i - Len(pa)]
  BY <1>2, <1>3, ConcatProperties DEF pa
<1>. DEFINE o == pa \o q
            n == Len(p)
            m == Len(q)
<1>. HIDE DEF o
<1>5. /\ n \in Nat /\ m \in Nat /\ Len(pa) = n + 5 /\ Len(o) = n + 5 + m
  BY <1>1, <1>3, <1>4, LenProperties DEF o, pa
<1>6. \A k \in 1..(n + 5) : o[k] = pa[k]
  BY <1>4, <1>5 DEF o
<1>7. \A k \in 1..n : o[k] = p[k]
  BY <1>1, <1>3, <1>5, <1>6 DEF pa
<1>8. /\ o[n + 1] = a[1] /\ o[n + 2] = a[2] /\ o[n + 3] = a[3]
      /\ o[n + 4] = a[4] /\ o[n + 5] = a[5]
  <2>1. \A k \in (n + 1)..(n + 5) : o[k] = a[k - n]
    BY <1>1, <1>3, <1>5, <1>6 DEF pa
  <2>2. /\ (n + 1) - n = 1 /\ (n + 2) - n = 2 /\ (n + 3) - n = 3
        /\ (n + 4) - n = 4 /\ (n + 5) - n = 5
        /\ {n + 1, n + 2, n + 3, n + 4, n + 5} \subseteq (n + 1)..(n + 5)
    BY <1>5
  <2>. HIDE DEF n
  <2>. QED
    BY <2>1, <2>2
<1>9. \A k \in 1..m : o[n + 5 + k] = q[k]
  BY <1>4, <1>5 DEF o
<1>10. \A k \in 1..m : o[n + 5 + k] \in PlainOps
  BY <1>5, <1>9, ElementOfSeq
<1>11. ASSUME NEW k \in (n + 1)..Len(o), k \notin {n + 2, n + 4}
       PROVE  o[k] \in PlainOps
  <2>1. CASE k <= n + 5
    <3>1. k = n + 1 \/ k = n + 3 \/ k = n + 5
      BY <1>5, <1>11, <2>1
    <3>. QED
      BY <1>1, <1>8, <3>1
  <2>2. CASE k > n + 5
    <3>1. PICK j \in 1..m : k = n + 5 + j
      <4>1. k - (n + 5) \in 1..m /\ k = n + 5 + (k - (n + 5))
        BY <1>5, <1>11, <2>2
      <4>. QED
        BY <4>1
    <3>. QED
      BY <1>10, <3>1
  <2>. QED
    BY <1>5, <2>1, <2>2
<1>. QED
  BY <1>1, <1>4, <1>5, <1>7, <1>8, <1>11 DEF o, pa, a

LEMMA PrepareOps ==
  ASSUME NEW b \in Lines
  PROVE  LET o == PrepareBoundary(b).ops
         IN /\ o \in Seq(AllOps) /\ Len(o) = 8
            /\ o[4] = Do("create", "mod") /\ o[6] = Do("write", "sum")
            /\ \A k \in 1..8 : k \notin {4, 6} => o[k] \in PlainOps
<1>. DEFINE p == resolveExactCoreVersion
            q == <<networkCommand({b})>>
<1>1. Check("resolved") \in PlainOps /\ networkCapture \in PlainOps
  BY Plain DEF Names
<1>2. p \in Seq(PlainOps) /\ Len(p) = 2 /\ p[1] \in PlainOps /\ p[2] \in PlainOps
  BY <1>1, Tuples DEF resolveExactCoreVersion
<1>3. networkCommand({b}) \in PlainOps
  BY Plain DEF ModuleGraphs, Lines
<1>4. q \in Seq(PlainOps) /\ Len(q) = 1
  BY <1>3, Tuples
<1>5. PrepareBoundary(b).ops = p \o alternateModfile \o q
  BY DEF PrepareBoundary
<1>. HIDE DEF p, q
<1>6. p \in Seq(AllOps)
  BY <1>2 DEF AllOps
<1>. DEFINE o == p \o alternateModfile \o q
<1>. HIDE DEF o
<1>7. /\ o \in Seq(AllOps) /\ Len(o) = Len(p) + 5 + Len(q)
      /\ \A k \in 1..Len(p) : o[k] = p[k]
      /\ o[Len(p) + 2] = Do("create", "mod")
      /\ o[Len(p) + 4] = Do("write", "sum")
      /\ \A k \in (Len(p) + 1)..Len(o) :
           k \notin {Len(p) + 2, Len(p) + 4} => o[k] \in PlainOps
  BY <1>4, <1>6, AroundModfile DEF o
<1>8. Len(o) = 8 /\ o[4] = Do("create", "mod") /\ o[6] = Do("write", "sum")
  BY <1>2, <1>4, <1>7
<1>9. o[1] \in PlainOps /\ o[2] \in PlainOps
  BY <1>2, <1>7
<1>10. \A k \in 3..8 : k \notin {4, 6} => o[k] \in PlainOps
  <2>. SUFFICES ASSUME NEW k \in 3..8, k \notin {4, 6}
                PROVE  o[k] \in PlainOps
    OBVIOUS
  <2>1. Len(p) = 2 /\ Len(o) = 8
    BY <1>2, <1>8
  <2>2. k \in (Len(p) + 1)..Len(o) /\ k \notin {Len(p) + 2, Len(p) + 4}
    BY <2>1
  <2>. QED
    BY <1>7, <2>2
<1>11. \A k \in 1..8 : k \notin {4, 6} => o[k] \in PlainOps
  BY <1>9, <1>10
<1>. QED
  BY <1>5, <1>7, <1>8, <1>11 DEF o

LEMMA VerifyOps ==
  ASSUME NEW b \in Lines
  PROVE  LET o == verifyCompatibilityBoundary(b).ops
         IN /\ o \in Seq(AllOps) /\ Len(o) = 12 /\ o[1] = Do("state", b)
            /\ o[3] = Do("create", "mod") /\ o[5] = Do("write", "sum")
            /\ \A k \in 2..12 : k \notin {3, 5} => o[k] \in PlainOps
<1>. DEFINE p == <<Do("state", b)>>
            q == <<capture({b}), Do("check", <<"selected", b>>), capture({b}),
                   Check("packages"), command({b}), command({b})>>
<1>1. Do("state", b) \in AllOps
  BY DEF AllOps, Do
<1>2. p \in Seq(AllOps) /\ Len(p) = 1 /\ p[1] = Do("state", b)
  BY <1>1, Tuples
<1>3. /\ capture({b}) \in PlainOps /\ command({b}) \in PlainOps
      /\ Do("check", <<"selected", b>>) \in PlainOps
  BY Plain DEF ModuleGraphs, Lines
<1>4. Check("packages") \in PlainOps
  BY Plain DEF Names
<1>5. q \in Seq(PlainOps) /\ Len(q) = 6
  BY <1>3, <1>4, Tuples
<1>6. verifyCompatibilityBoundary(b).ops = p \o alternateModfile \o q
  BY DEF verifyCompatibilityBoundary
<1>. HIDE DEF p, q
<1>. DEFINE o == p \o alternateModfile \o q
<1>. HIDE DEF o
<1>7. /\ o \in Seq(AllOps) /\ Len(o) = Len(p) + 5 + Len(q)
      /\ \A k \in 1..Len(p) : o[k] = p[k]
      /\ o[Len(p) + 2] = Do("create", "mod")
      /\ o[Len(p) + 4] = Do("write", "sum")
      /\ \A k \in (Len(p) + 1)..Len(o) :
           k \notin {Len(p) + 2, Len(p) + 4} => o[k] \in PlainOps
  BY <1>2, <1>5, AroundModfile DEF o
<1>8. Len(o) = 12 /\ o[3] = Do("create", "mod") /\ o[5] = Do("write", "sum")
  BY <1>2, <1>5, <1>7
<1>9. o[1] = Do("state", b)
  BY <1>2, <1>7
<1>10. \A k \in 2..12 : k \notin {3, 5} => o[k] \in PlainOps
  <2>. SUFFICES ASSUME NEW k \in 2..12, k \notin {3, 5}
                PROVE  o[k] \in PlainOps
    OBVIOUS
  <2>1. Len(p) = 1 /\ Len(o) = 12
    BY <1>2, <1>8
  <2>2. k \in (Len(p) + 1)..Len(o) /\ k \notin {Len(p) + 2, Len(p) + 4}
    BY <2>1
  <2>. QED
    BY <1>7, <2>2
<1>. QED
  BY <1>6, <1>7, <1>8, <1>9, <1>10 DEF o

LEMMA PlainKinds ==
  ASSUME NEW o \in PlainOps
  PROVE  /\ o \in AllOps
         /\ o.op \in {"command", "capture", "network", "networkCapture", "file",
                      "check"}
         /\ o.op = "check" => o.arg \in PlainChecks
BY DEF PlainOps, AllOps

\* What removes something at the end of the frame.
Cleaner(o) == \/ o.op = "defer"
              \/ o.op = "create" /\ o.arg # "profile"

\* How the operations of a frame fit together: the sum file is written next
\* to a modfile, a profile is closed and then removed at the end, at most one
\* operation leaves something to remove, and a boundary begins with its
\* state.
FitsAt(f, k) ==
  /\ f.ops[k].op = "write" =>
       /\ f.ops[k].arg = "sum"
       /\ \E j \in 1..(k - 1) : f.ops[j] = Do("create", "mod")
  /\ f.ops[k] = Do("create", "profile") =>
       /\ k + 2 <= Len(f.ops) /\ f.ops[k + 1].op = "file"
       /\ f.ops[k + 2] = Do("defer", "profile")
  /\ f.ops[k].op = "state" => k = 1 /\ f.ops[k].arg = f.line
  /\ \A j \in 1..Len(f.ops) :
       Cleaner(f.ops[j]) /\ Cleaner(f.ops[k]) => j = k

Fits(f) ==
  /\ f.ops \in Seq(AllOps)
  /\ \A k \in 1..Len(f.ops) : FitsAt(f, k)

LEMMA PlainFits ==
  ASSUME NEW f, NEW k, f.ops[k] \in PlainOps
  PROVE  FitsAt(f, k) /\ ~Cleaner(f.ops[k])
<1>1. f.ops[k].op \notin {"write", "create", "state", "defer"}
  BY PlainKinds
<1>2. f.ops[k] # Do("create", "profile")
  BY <1>1 DEF Do
<1>. QED
  BY <1>1, <1>2 DEF FitsAt, Cleaner

LEMMA FramesFit == \A f \in GateFrames : Fits(f)
<1>1. ASSUME NEW f \in PlainFrames PROVE Fits(f)
  <2>1. f.ops \in Seq(PlainOps)
    BY DEF PlainFrames
  <2>2. \A k \in 1..Len(f.ops) : f.ops[k] \in PlainOps
    BY <2>1, ElementOfSeq
  <2>3. f.ops \in Seq(AllOps)
    BY <2>1 DEF AllOps
  <2>. QED
    BY <2>2, <2>3, PlainFits DEF Fits
<1>2. Fits(format(TRUE)[1])
  <2>. DEFINE f == format(TRUE)[1]
  <2>1. f.ops \in Seq(AllOps)
    <3>1. /\ File \in AllOps /\ toolPath \in AllOps
          /\ Do("rewrite", {}) \in AllOps
      BY Plain, PlainKinds DEF AllOps, Do
    <3>. QED
      BY <3>1, Tuples DEF format, Frame, goFiles
  <2>2. /\ Len(f.ops) = 5 /\ f.ops[3] = Do("rewrite", {})
        /\ f.ops[5] = Do("rewrite", {})
        /\ f.ops[1] \in PlainOps /\ f.ops[2] \in PlainOps /\ f.ops[4] \in PlainOps
    BY RewriteOps
  <2>. HIDE DEF f
  <2>3. FitsAt(f, 3) /\ FitsAt(f, 5)
    BY <2>2 DEF FitsAt, Cleaner, Do
  <2>4. FitsAt(f, 1) /\ FitsAt(f, 2) /\ FitsAt(f, 4)
    BY <2>2, PlainFits
  <2>5. \A k \in 1..Len(f.ops) : FitsAt(f, k)
    BY <2>2, <2>3, <2>4
  <2>. QED
    BY <2>1, <2>5 DEF Fits, f
<1>3. Fits(checkModule[1])
  <2>. DEFINE f == checkModule[1]
  <2>1. /\ Len(f.ops) = 6 /\ f.ops[2] = Do("create", "vendor")
        /\ f.ops[1] \in PlainOps /\ f.ops[3] \in PlainOps /\ f.ops[4] \in PlainOps
        /\ f.ops[5] \in PlainOps /\ f.ops[6] \in PlainOps
    BY ModuleOps
  <2>2. f.ops \in Seq(AllOps)
    <3>1. Do("create", "vendor") \in AllOps
      BY DEF AllOps, Do, Kinds
    <3>2. File \in AllOps /\ Check("vendor") \in AllOps
      BY Plain, PlainKinds DEF Names
    <3>3. /\ command({"product", "product tests"}) \in AllOps
          /\ command({"product"}) \in AllOps
      BY Plain, PlainKinds DEF ModuleGraphs
    <3>. QED
      BY <3>1, <3>2, <3>3, Tuples DEF checkModule, Frame, treeDigests
  <2>. HIDE DEF f
  <2>3. \A j \in 1..Len(f.ops) : Cleaner(f.ops[j]) => j = 2
    BY <2>1, PlainFits
  <2>4. FitsAt(f, 2)
    BY <2>1, <2>3 DEF FitsAt, Do
  <2>5. /\ FitsAt(f, 1) /\ FitsAt(f, 3) /\ FitsAt(f, 4) /\ FitsAt(f, 5)
        /\ FitsAt(f, 6)
    BY <2>1, PlainFits
  <2>6. \A k \in 1..Len(f.ops) : FitsAt(f, k)
    BY <2>1, <2>4, <2>5
  <2>. QED
    BY <2>2, <2>6 DEF Fits, f
<1>4. Fits(coverage[1])
  <2>. DEFINE f == coverage[1]
  <2>1. /\ Len(f.ops) = 6 /\ f.ops[1] = Do("create", "profile")
        /\ f.ops[2] = File /\ f.ops[3] = Do("defer", "profile")
        /\ f.ops[2] \in PlainOps /\ f.ops[4] \in PlainOps
        /\ f.ops[5] \in PlainOps /\ f.ops[6] \in PlainOps
    BY CoverageOps
  <2>2. f.ops \in Seq(AllOps)
    <3>1. Do("create", "profile") \in AllOps /\ Do("defer", "profile") \in AllOps
      BY DEF AllOps, Do, Kinds
    <3>2. File \in AllOps /\ Check("coverage") \in AllOps
      BY Plain, PlainKinds DEF Names
    <3>3. command({}) \in AllOps /\ capture({}) \in AllOps
      BY Plain, PlainKinds
    <3>. QED
      BY <3>1, <3>2, <3>3, Tuples DEF coverage, Frame
  <2>. HIDE DEF f
  <2>3. ~Cleaner(f.ops[1])
    BY <2>1 DEF Cleaner, Do
  <2>4. \A j \in 1..Len(f.ops) : Cleaner(f.ops[j]) => j = 3
    BY <2>1, <2>3, PlainFits
  <2>5. FitsAt(f, 1)
    <3>1. f.ops[1].op = "create" /\ f.ops[2].op = "file"
      <4>1. Do("create", "profile").op = "create" /\ File.op = "file"
        BY DEF Do, File
      <4>. QED
        BY <2>1, <4>1
    <3>2. /\ 1 + 2 <= Len(f.ops) /\ f.ops[1 + 1].op = "file"
          /\ f.ops[1 + 2] = Do("defer", "profile")
      BY <2>1, <3>1
    <3>. QED
      BY <2>3, <3>1, <3>2 DEF FitsAt
  <2>6. FitsAt(f, 3)
    BY <2>1, <2>4 DEF FitsAt, Do
  <2>7. FitsAt(f, 2) /\ FitsAt(f, 4) /\ FitsAt(f, 5) /\ FitsAt(f, 6)
    BY <2>1, PlainFits
  <2>8. \A k \in 1..Len(f.ops) : FitsAt(f, k)
    BY <2>1, <2>5, <2>6, <2>7
  <2>. QED
    BY <2>2, <2>8 DEF Fits, f
<1>5. Fits(releaseRehearsal[1])
  <2>. DEFINE f == releaseRehearsal[1]
  <2>1. /\ Len(f.ops) = 14 /\ f.ops[1] = Do("create", "rehearsal")
        /\ f.ops[5] = Do("render", {}) /\ f.ops[6] = Do("render", {})
        /\ f.ops[9] = Check("deterministic") /\ f.ops[10] = Check("artifacts")
        /\ f.ops[12] = Check("checksums") /\ f.ops[14] = Check("sbom")
        /\ \A k \in {2, 3, 4, 7, 8, 11, 13} : f.ops[k] \in PlainOps
    BY RehearsalOps
  <2>2. f.ops \in Seq(AllOps)
    <3>1. Do("create", "rehearsal") \in AllOps /\ Do("render", {}) \in AllOps
      BY DEF AllOps, Do, Kinds
    <3>2. File \in AllOps /\ capture({}) \in AllOps
      BY Plain, PlainKinds
    <3>3. /\ Check("deterministic") \in AllOps /\ Check("artifacts") \in AllOps
          /\ Check("checksums") \in AllOps /\ Check("sbom") \in AllOps
      BY DEF AllOps, OutputChecks, Check, Do
    <3>4. <<Do("create", "rehearsal"), capture({}), capture({}), File,
            Do("render", {}), Do("render", {}), File, File,
            Check("deterministic")>> \in Seq(AllOps)
      BY <3>1, <3>2, <3>3
    <3>5. <<Check("artifacts"), File, Check("checksums"), File, Check("sbom")>>
          \in Seq(AllOps)
      BY <3>2, <3>3, Tuples
    <3>. QED
      BY <3>4, <3>5, ConcatProperties DEF releaseRehearsal, Frame,
         validateReleaseRehearsal, treeDigests, readReleaseArtifact
  <2>. HIDE DEF f
  <2>3. \A k \in {5, 6, 9, 10, 12, 14} : f.ops[k].op \in {"render", "check"}
    BY <2>1 DEF Check, Do
  <2>4. \A k \in 2..Len(f.ops) :
          f.ops[k] \in PlainOps \/ f.ops[k].op \in {"render", "check"}
    BY <2>1, <2>3
  <2>5. \A j \in 1..Len(f.ops) : Cleaner(f.ops[j]) => j = 1
    BY <2>1, <2>4, PlainFits DEF Cleaner
  <2>6. FitsAt(f, 1)
    BY <2>1, <2>5 DEF FitsAt, Do
  <2>7. ASSUME NEW k \in 2..Len(f.ops) PROVE FitsAt(f, k)
    BY <2>4, PlainFits DEF FitsAt, Cleaner, Do
  <2>8. \A k \in 1..Len(f.ops) : FitsAt(f, k)
    BY <2>1, <2>6, <2>7
  <2>. QED
    BY <2>2, <2>8 DEF Fits, f
<1>6. ASSUME NEW b \in Lines PROVE Fits(PrepareBoundary(b))
  <2>. DEFINE f == PrepareBoundary(b)
  <2>1. /\ f.ops \in Seq(AllOps) /\ Len(f.ops) = 8
        /\ f.ops[4] = Do("create", "mod") /\ f.ops[6] = Do("write", "sum")
        /\ \A k \in 1..8 : k \notin {4, 6} => f.ops[k] \in PlainOps
    BY PrepareOps
  <2>. HIDE DEF f
  <2>2. \A j \in 1..Len(f.ops) : Cleaner(f.ops[j]) => j = 4
    BY <2>1, PlainFits DEF Cleaner, Do
  <2>3. FitsAt(f, 4)
    BY <2>1, <2>2 DEF FitsAt, Do
  <2>4. FitsAt(f, 6)
    <3>1. 4 \in 1..(6 - 1)
      OBVIOUS
    <3>. QED
      BY <2>1, <3>1 DEF FitsAt, Cleaner, Do
  <2>5. \A k \in 1..8 : k \notin {4, 6} => FitsAt(f, k)
    BY <2>1, PlainFits
  <2>6. \A k \in 1..Len(f.ops) : FitsAt(f, k)
    BY <2>1, <2>3, <2>4, <2>5
  <2>. QED
    BY <2>1, <2>6 DEF Fits, f
<1>7. ASSUME NEW b \in Lines PROVE Fits(verifyCompatibilityBoundary(b))
  <2>. DEFINE f == verifyCompatibilityBoundary(b)
  <2>1. /\ f.ops \in Seq(AllOps) /\ Len(f.ops) = 12 /\ f.ops[1] = Do("state", b)
        /\ f.ops[3] = Do("create", "mod") /\ f.ops[5] = Do("write", "sum")
        /\ \A k \in 2..12 : k \notin {3, 5} => f.ops[k] \in PlainOps
    BY VerifyOps
  <2>2. f.line = b
    BY DEF verifyCompatibilityBoundary
  <2>. HIDE DEF f
  <2>3. \A j \in 1..Len(f.ops) : Cleaner(f.ops[j]) => j = 3
    <3>1. ~Cleaner(f.ops[1]) /\ ~Cleaner(f.ops[5])
      BY <2>1 DEF Cleaner, Do
    <3>2. \A j \in 2..12 : j \notin {3, 5} => ~Cleaner(f.ops[j])
      BY <2>1, PlainFits
    <3>3. \A j \in 1..12 : j = 1 \/ j \in 2..12
      OBVIOUS
    <3>. QED
      BY <2>1, <3>1, <3>2, <3>3
  <2>4. FitsAt(f, 1)
    BY <2>1, <2>2 DEF FitsAt, Cleaner, Do
  <2>5. FitsAt(f, 3)
    BY <2>1, <2>3 DEF FitsAt, Do
  <2>6. FitsAt(f, 5)
    <3>1. 3 \in 1..(5 - 1)
      OBVIOUS
    <3>. QED
      BY <2>1, <3>1 DEF FitsAt, Cleaner, Do
  <2>7. \A k \in 2..12 : k \notin {3, 5} => FitsAt(f, k)
    BY <2>1, PlainFits
  <2>8. \A k \in 1..Len(f.ops) : FitsAt(f, k)
    <3>1. \A j \in 1..12 : j = 1 \/ j \in 2..12
      OBVIOUS
    <3>. QED
      BY <2>1, <2>4, <2>5, <2>6, <2>7, <3>1
  <2>. QED
    BY <2>1, <2>8 DEF Fits, f
<1>. QED
  BY <1>1, <1>2, <1>3, <1>4, <1>5, <1>6, <1>7 DEF GateFrames, SafeFrames

-----------------------------------------------------------------------------
(* The frames of every mode.                                                *)

LEMMA BoundaryLines ==
  ASSUME NEW line \in LineFlags
  PROVE  boundaries(line) \in Seq(Lines)
BY Tuples, EmptySeq DEF boundaries, Lines, LineFlags

\* The frames of a compatibility step: one that reads, one for each boundary.
LEMMA BoundaryFrames ==
  ASSUME NEW line \in LineFlags, NEW S, PlainFrames \subseteq S,
         NEW frame \in [Lines -> S]
  PROVE  LET s == Boundaries(line, frame)
             n == Len(boundaries(line))
         IN /\ s \in Seq(S) /\ Len(s) = 1 + n /\ n \in Nat
            /\ s[1] \in PlainFrames
            /\ Len(s[1].ops) = 3
            /\ s[1].ops[3] = Do("check", <<"line", line>>)
            /\ \A i \in 1..n : s[1 + i] = frame[boundaries(line)[i]]
<1>. DEFINE lines == boundaries(line)
            p == Frame(<<File, Check("compatibility"),
                         Do("check", <<"line", line>>)>>)
            q == [i \in DOMAIN lines |-> frame[lines[i]]]
<1>1. Check("compatibility") \in PlainOps
  BY Plain DEF Names
<1>2. <<File, Check("compatibility"), Do("check", <<"line", line>>)>>
      \in Seq(PlainOps)
  BY <1>1, Plain, Tuples
<1>3. p \in Seq(PlainFrames)
  BY <1>2, PlainFrame
<1>4. /\ Len(p) = 1 /\ Len(p[1].ops) = 3
      /\ p[1].ops[3] = Do("check", <<"line", line>>)
  BY DEF Frame
<1>5. lines \in Seq(Lines)
  BY BoundaryLines
<1>6. Boundaries(line, frame) = p \o q
  BY DEF Boundaries
<1>. HIDE DEF p, lines
<1>7. q \in Seq(S) /\ Len(q) = Len(lines) /\ Len(lines) \in Nat
      /\ \A i \in 1..Len(lines) : q[i] = frame[lines[i]]
  BY <1>5
<1>8. p \in Seq(S) /\ p[1] \in PlainFrames
  <2>1. p[1] \in PlainFrames
    <3>1. 1 \in 1..Len(p)
      BY <1>4
    <3>. QED
      BY <1>3, <3>1, ElementOfSeq
  <2>2. p \in Seq(S)
    BY <1>3
  <2>. QED
    BY <2>1, <2>2
<1>. HIDE DEF q
<1>9. /\ p \o q \in Seq(S) /\ Len(p \o q) = Len(p) + Len(q)
      /\ \A i \in 1 .. Len(p) + Len(q) :
           (p \o q)[i] = IF i <= Len(p) THEN p[i] ELSE q[i - Len(p)]
  BY <1>7, <1>8, ConcatProperties
<1>10. (p \o q)[1] = p[1]
  BY <1>4, <1>7, <1>9
<1>11. \A i \in 1..Len(lines) : (p \o q)[1 + i] = q[i]
  BY <1>4, <1>7, <1>9
<1>. QED
  BY <1>4, <1>6, <1>7, <1>8, <1>9, <1>10, <1>11 DEF lines

LEMMA SeqSubset ==
  ASSUME NEW S, NEW T, S \subseteq T
  PROVE  \A s \in Seq(S) : s \in Seq(T)
OBVIOUS

LEMMA SeqConcat ==
  ASSUME NEW S
  PROVE  \A s, t \in Seq(S) : s \o t \in Seq(S)
BY ConcatProperties

LEMMA SafeSteps ==
  /\ start \in Seq(SafeFrames) /\ checkIdentity \in Seq(SafeFrames)
  /\ prepareDependencies \in Seq(SafeFrames)
  /\ format(FALSE) \in Seq(SafeFrames) /\ checkModule \in Seq(SafeFrames)
  /\ vet \in Seq(SafeFrames) /\ lint \in Seq(SafeFrames)
  /\ security \in Seq(SafeFrames) /\ tests \in Seq(SafeFrames)
  /\ coverage \in Seq(SafeFrames) /\ offline \in Seq(SafeFrames)
  /\ requireReleaseTool \in Seq(SafeFrames)
  /\ \A l \in LineFlags :
       /\ prepareCompatibilityDependencies(l) \in Seq(SafeFrames)
       /\ coreCompatibility(l) \in Seq(SafeFrames)
<1>1. PlainFrames \subseteq SafeFrames
  BY DEF SafeFrames
<1>2. checkModule \in Seq(SafeFrames)
  <2>1. checkModule = <<checkModule[1]>>
    BY DEF checkModule, Frame
  <2>. QED
    BY <2>1, Tuples DEF SafeFrames
<1>3. coverage \in Seq(SafeFrames)
  <2>1. coverage = <<coverage[1]>>
    BY DEF coverage, Frame
  <2>. QED
    BY <2>1, Tuples DEF SafeFrames
<1>4. ASSUME NEW l \in LineFlags
      PROVE  /\ prepareCompatibilityDependencies(l) \in Seq(SafeFrames)
             /\ coreCompatibility(l) \in Seq(SafeFrames)
  <2>1. [b \in Lines |-> PrepareBoundary(b)] \in [Lines -> SafeFrames]
    BY DEF SafeFrames
  <2>2. [b \in Lines |-> verifyCompatibilityBoundary(b)] \in [Lines -> SafeFrames]
    BY DEF SafeFrames
  <2>. QED
    BY <1>1, <2>1, <2>2, BoundaryFrames
    DEF prepareCompatibilityDependencies, coreCompatibility
<1>5. \A s \in Seq(PlainFrames) : s \in Seq(SafeFrames)
  BY <1>1
<1>. QED
  BY <1>2, <1>3, <1>4, <1>5, PlainSteps

\* All that verify does before a rehearsal.
Verification ==
  checkIdentity \o prepareDependencies \o prepareCompatibilityDependencies("all")
    \o format(FALSE) \o checkModule \o vet \o lint \o security \o tests
    \o coverage \o coreCompatibility("all") \o offline

LEMMA StepsOfModes ==
  ASSUME NEW line \in LineFlags
  PROVE  /\ Steps("check", line) =
              checkIdentity \o prepareDependencies \o format(FALSE)
                \o checkModule \o vet
         /\ Steps("compatibility", line) =
              checkIdentity \o prepareCompatibilityDependencies(line)
                \o coreCompatibility(line)
         /\ Steps("fmt", line) = format(TRUE)
         /\ Steps("release-rehearsal", line) = checkIdentity \o releaseRehearsal
         /\ Steps("verify", line) = Verification \o <<>>
         /\ Steps("verify-release", line) = Verification \o releaseRehearsal
         /\ Steps("unknown", line) = <<>>
BY DEF Steps, Verification, PreparationLine

\* Most frames are safe; a rehearsal, if there is one, comes last, and the
\* formatter runs alone.
LEMMA StepsShape ==
  ASSUME NEW mode \in ModeFlags, NEW line \in LineFlags
  PROVE  \/ Steps(mode, line) \in Seq(SafeFrames)
         \/ \E s \in Seq(SafeFrames) : Steps(mode, line) = s \o releaseRehearsal
         \/ mode = "fmt" /\ Steps(mode, line) = format(TRUE)
<1>1. Verification \in Seq(SafeFrames)
  <2>1. "all" \in LineFlags
    BY DEF LineFlags
  <2>. QED
    BY <2>1, SafeSteps, SeqConcat DEF Verification
<1>2. CASE mode = "check"
  <2>1. checkIdentity \o prepareDependencies \o format(FALSE) \o checkModule
          \o vet \in Seq(SafeFrames)
    BY SafeSteps, SeqConcat
  <2>. QED
    BY <1>2, <2>1, StepsOfModes
<1>3. CASE mode = "compatibility"
  <2>1. checkIdentity \o prepareCompatibilityDependencies(line)
          \o coreCompatibility(line) \in Seq(SafeFrames)
    BY SafeSteps, SeqConcat
  <2>. QED
    BY <1>3, <2>1, StepsOfModes
<1>4. CASE mode = "fmt"
  BY <1>4, StepsOfModes
<1>5. CASE mode = "release-rehearsal"
  BY <1>5, SafeSteps, StepsOfModes
<1>6. CASE mode = "verify"
  BY <1>1, <1>6, ConcatEmptySeq, StepsOfModes
<1>7. CASE mode = "verify-release"
  BY <1>1, <1>7, StepsOfModes
<1>8. CASE mode = "unknown"
  BY <1>8, EmptySeq, StepsOfModes
<1>. QED
  BY <1>2, <1>3, <1>4, <1>5, <1>6, <1>7, <1>8 DEF ModeFlags, Modes

\* What every program looks like.
Shape(s) ==
  /\ s \in Seq(GateFrames) /\ Len(s) >= 2
  /\ s[Len(s)] = requireReleaseTool[1]
  /\ \A i \in 1..Len(s) :
       \/ s[i] \in SafeFrames
       \/ i = 2 /\ s[i] = format(TRUE)[1]
       \/ i = Len(s) - 1 /\ s[i] = releaseRehearsal[1]

LEMMA ProgramShape ==
  ASSUME NEW mode \in ModeFlags, NEW line \in LineFlags
  PROVE  Shape(Program(mode, line))
<1>. DEFINE t == Steps(mode, line)
<1>1. /\ start \in Seq(SafeFrames) /\ Len(start) = 1
      /\ requireReleaseTool \in Seq(SafeFrames) /\ Len(requireReleaseTool) = 1
  BY SafeSteps DEF start, requireReleaseTool, Frame
<1>2. /\ format(TRUE) \in Seq(GateFrames) /\ Len(format(TRUE)) = 1
      /\ releaseRehearsal \in Seq(GateFrames) /\ Len(releaseRehearsal) = 1
  <2>1. format(TRUE) = <<format(TRUE)[1]>>
    BY DEF format, Frame
  <2>2. releaseRehearsal = <<releaseRehearsal[1]>>
    BY DEF releaseRehearsal, Frame
  <2>. QED
    BY <2>1, <2>2, Tuples DEF GateFrames
<1>3. \A u \in Seq(SafeFrames) : u \in Seq(GateFrames)
  <2>1. SafeFrames \subseteq GateFrames
    BY DEF GateFrames
  <2>. QED
    BY <2>1, SeqSubset
<1>4. /\ t \in Seq(GateFrames)
      /\ \A i \in 1..Len(t) :
           \/ t[i] \in SafeFrames
           \/ i = 1 /\ t[i] = format(TRUE)[1]
           \/ i = Len(t) /\ t[i] = releaseRehearsal[1]
  <2>. HIDE DEF t
  <2>1. CASE t \in Seq(SafeFrames)
    <3>1. \A i \in 1..Len(t) : t[i] \in SafeFrames
      BY <2>1, ElementOfSeq
    <3>. QED
      BY <1>3, <2>1, <3>1
  <2>2. CASE t = format(TRUE)
    <3>0. Len(t) = 1
      BY <1>2, <2>2
    <3>1. \A i \in 1..Len(t) : i = 1
      BY <3>0
    <3>. QED
      BY <1>2, <2>2, <3>1
  <2>3. ASSUME NEW s \in Seq(SafeFrames), t = s \o releaseRehearsal
        PROVE  <1>4
    <3>1. /\ t \in Seq(GateFrames) /\ Len(t) = Len(s) + Len(releaseRehearsal)
          /\ \A i \in 1 .. Len(s) + Len(releaseRehearsal) :
               t[i] = IF i <= Len(s) THEN s[i] ELSE releaseRehearsal[i - Len(s)]
      BY <1>2, <1>3, <2>3, ConcatProperties
    <3>2. Len(s) \in Nat /\ \A i \in 1..Len(s) : s[i] \in SafeFrames
      BY LenProperties, ElementOfSeq
    <3>3. \A i \in 1..Len(s) : t[i] \in SafeFrames
      BY <1>2, <3>1, <3>2
    <3>4. t[Len(s) + 1] = releaseRehearsal[1] /\ Len(t) = Len(s) + 1
      BY <1>2, <3>1, <3>2
    <3>5. \A i \in 1..Len(t) : i \in 1..Len(s) \/ i = Len(s) + 1
      BY <3>2, <3>4
    <3>. QED
      BY <3>1, <3>3, <3>4, <3>5
  <2>. QED
    BY <2>1, <2>2, <2>3, StepsShape DEF t
<1>. DEFINE a == start \o t
            z == requireReleaseTool
<1>. HIDE DEF t
<1>5. /\ a \in Seq(GateFrames) /\ Len(a) = 1 + Len(t) /\ Len(t) \in Nat
      /\ \A i \in 1 .. 1 + Len(t) : a[i] = IF i <= 1 THEN start[i] ELSE t[i - 1]
  <2>1. start \in Seq(GateFrames) /\ Len(start) = 1 /\ Len(t) \in Nat
    BY <1>1, <1>3, <1>4, LenProperties
  <2>2. /\ a \in Seq(GateFrames) /\ Len(a) = Len(start) + Len(t)
        /\ \A i \in 1 .. Len(start) + Len(t) :
             a[i] = IF i <= Len(start) THEN start[i] ELSE t[i - Len(start)]
    BY <1>4, <2>1, ConcatProperties
  <2>. HIDE DEF a
  <2>. QED
    BY <2>1, <2>2
<1>6. start[1] \in SafeFrames /\ z[1] \in SafeFrames
  BY <1>1, ElementOfSeq
<1>7. \A i \in 1..Len(a) :
        \/ a[i] \in SafeFrames
        \/ i = 2 /\ a[i] = format(TRUE)[1]
        \/ i = Len(a) /\ a[i] = releaseRehearsal[1]
  <2>. HIDE DEF a
  <2>. TAKE i \in 1..Len(a)
  <2>1. CASE i = 1
    <3>1. a[1] = start[1]
      BY <1>5
    <3>. QED
      BY <1>6, <2>1, <3>1
  <2>2. CASE i # 1
    <3>1. i - 1 \in 1..Len(t) /\ a[i] = t[i - 1]
      BY <1>5, <2>2
    <3>2. i - 1 = 1 => i = 2
      BY <1>5, <2>2
    <3>3. i - 1 = Len(t) => i = Len(a)
      BY <1>5, <2>2
    <3>. QED
      BY <1>4, <3>1, <3>2, <3>3
  <2>. QED
    BY <2>1, <2>2
<1>. DEFINE s == a \o z
<1>. HIDE DEF a, z
<1>8. /\ s \in Seq(GateFrames) /\ Len(s) = Len(a) + 1
      /\ \A i \in 1 .. Len(a) + 1 : s[i] = IF i <= Len(a) THEN a[i] ELSE z[i - Len(a)]
  <2>1. z \in Seq(GateFrames) /\ Len(z) = 1
    BY <1>1, <1>3 DEF z
  <2>2. /\ s \in Seq(GateFrames) /\ Len(s) = Len(a) + Len(z)
        /\ \A i \in 1 .. Len(a) + Len(z) :
             s[i] = IF i <= Len(a) THEN a[i] ELSE z[i - Len(a)]
    BY <1>5, <2>1, ConcatProperties
  <2>. HIDE DEF s
  <2>. QED
    BY <2>1, <2>2
<1>. HIDE DEF s
<1>9. Len(a) \in Nat /\ Len(a) >= 1
  BY <1>5
<1>10. s[Len(s)] = z[1] /\ Len(s) >= 2
  BY <1>8, <1>9
<1>11. \A i \in 1..Len(a) : s[i] = a[i]
  BY <1>8, <1>9
<1>12. \A i \in 1..Len(s) :
         \/ s[i] \in SafeFrames
         \/ i = 2 /\ s[i] = format(TRUE)[1]
         \/ i = Len(s) - 1 /\ s[i] = releaseRehearsal[1]
  <2>. TAKE i \in 1..Len(s)
  <2>1. CASE i = Len(s)
    BY <1>6, <1>10, <2>1
  <2>2. CASE i # Len(s)
    <3>1. i \in 1..Len(a) /\ (i = Len(a) => i = Len(s) - 1)
      BY <1>8, <1>9, <2>2
    <3>. QED
      BY <1>7, <1>11, <3>1
  <2>. QED
    BY <2>1, <2>2
<1>. QED
  BY <1>8, <1>10, <1>12 DEF Shape, Program, s, a, z, t

-----------------------------------------------------------------------------
(* Where the gate stands.                                                   *)

\* The place is always in the program; a command that has not ended is the
\* one there; the process exits at the end of a frame, with 0 only at the end
\* of the last.
PlaceInv ==
  /\ at[1] \in 1..Len(Frames) /\ at[2] \in 1..(Len(Ops) + 1)
  /\ child # "none" =>
       exit = "running" /\ ~Finished /\ Op.op \in Offline \cup Online
  /\ exit # "running" => Finished /\ defers = <<>>
  /\ exit = "0" => at[1] = Len(Frames)

LEMMA FramesShape ==
  ASSUME request \in Requests
  PROVE  /\ Shape(Frames)
         /\ \A i \in 1..Len(Frames) : Frames[i] \in GateFrames /\ Fits(Frames[i])
<1>1. request.mode \in ModeFlags /\ request.line \in LineFlags
  BY RequestAssumption
<1>2. Frames = Program(request.mode, request.line)
  BY <1>1 DEF Frames, Programs
<1>3. Shape(Frames)
  BY <1>1, <1>2, ProgramShape
<1>. QED
  BY <1>3, FramesFit, ElementOfSeq DEF Shape

\* Facts about the place that every step uses.
LEMMA PlaceFacts ==
  ASSUME FaultInv, PlaceInv
  PROVE  /\ Shape(Frames) /\ Len(Frames) \in Nat
         /\ Frames[at[1]] \in GateFrames /\ Fits(Frames[at[1]])
         /\ Ops \in Seq(AllOps) /\ Len(Ops) \in Nat
         /\ at[1] \in Nat /\ at[2] \in Nat
         /\ Finished <=> at[2] = Len(Ops) + 1
         /\ ~Finished => at[2] \in 1..Len(Ops) /\ Op \in AllOps
<1>1. /\ Shape(Frames) /\ Frames[at[1]] \in GateFrames /\ Fits(Frames[at[1]])
  BY FramesShape DEF FaultInv, PlaceInv
<1>2. Len(Frames) \in Nat
  BY <1>1, LenProperties DEF Shape
<1>3. Ops \in Seq(AllOps) /\ Len(Ops) \in Nat
  BY <1>1, LenProperties DEF Fits, Ops
<1>4. at[1] \in Nat /\ at[2] \in Nat
  BY <1>2, <1>3 DEF PlaceInv
<1>5. /\ Finished <=> at[2] = Len(Ops) + 1
      /\ ~Finished => at[2] \in 1..Len(Ops)
  BY <1>3, <1>4 DEF PlaceInv, Finished
<1>6. ~Finished => Op \in AllOps
  BY <1>3, <1>5, ElementOfSeq DEF Op
<1>. QED
  BY <1>1, <1>2, <1>3, <1>4, <1>5, <1>6

LEMMA AdvancePlace ==
  ASSUME FaultInv, PlaceInv, Advance
  PROVE  /\ Frames' = Frames /\ Ops' = Ops /\ at'[1] = at[1]
         /\ at'[2] = at[2] + 1 /\ at[2] \in 1..Len(Ops) /\ Op \in AllOps
         /\ Op = Frames[at[1]].ops[at[2]]
         /\ PlaceInv'
<1>1. at[2] \in 1..Len(Ops) /\ Op \in AllOps /\ Len(Ops) \in Nat
  BY PlaceFacts DEF Advance
<1>2. /\ Frames' = Frames /\ at'[1] = at[1] /\ at'[2] = at[2] + 1
      /\ exit' = "running" /\ child' = "none"
  BY DEF Advance, Active, Pass, Frames
<1>3. Ops' = Ops
  BY <1>2 DEF Ops
<1>4. PlaceInv'
  BY <1>1, <1>2, <1>3 DEF PlaceInv
<1>. QED
  BY <1>1, <1>2, <1>3, <1>4 DEF Op, Ops

LEMMA AbortPlace ==
  ASSUME FaultInv, PlaceInv, Abort
  PROVE  /\ Frames' = Frames /\ Ops' = Ops /\ at'[1] = at[1]
         /\ at'[2] = Len(Ops) + 1 /\ at[2] \in 1..Len(Ops) /\ Op \in AllOps
         /\ Op = Frames[at[1]].ops[at[2]]
         /\ Finished' /\ failed' /\ exit' = "running"
         /\ PlaceInv'
<1>1. ~Finished
  BY DEF Abort, PlaceInv
<1>2. at[2] \in 1..Len(Ops) /\ Op \in AllOps /\ Len(Ops) \in Nat
  BY <1>1, PlaceFacts
<1>3. /\ Frames' = Frames /\ at'[1] = at[1] /\ at'[2] = Len(Ops) + 1
      /\ exit' = "running" /\ child' = "none" /\ failed'
  BY DEF Abort, Fail, Frames
<1>4. Ops' = Ops
  BY <1>3 DEF Ops
<1>5. PlaceInv' /\ Finished'
  BY <1>2, <1>3, <1>4 DEF PlaceInv, Finished
<1>. QED
  BY <1>2, <1>3, <1>4, <1>5 DEF Op, Ops

\* The other steps of a run leave the place alone, but for FrameDone.
LEMMA StandStill ==
  ASSUME UNCHANGED <<request, at>>
  PROVE  Frames' = Frames /\ Ops' = Ops /\ (Finished' <=> Finished) /\ Op' = Op
BY DEF Frames, Ops, Finished, Op

LEMMA PlaceStep == ASSUME FaultInv, PlaceInv, [Next]_vars PROVE PlaceInv'
<1>1. CASE Advance
  BY <1>1, AdvancePlace
<1>2. CASE Abort
  BY <1>2, AbortPlace
<1>3. CASE Wait
  <2>1. ~Finished /\ Op.op \in Offline \cup Online
    BY <1>3 DEF Wait, AtOp, PlaceInv
  <2>. QED
    BY <1>3, <2>1, StandStill DEF Wait, PlaceInv
<1>4. CASE Remove
  BY <1>4, StandStill DEF Remove, Unwinding, Active, PlaceInv
<1>5. CASE Compare
  BY <1>5, StandStill DEF Compare, Unwinding, Active, PlaceInv
<1>6. CASE FrameDone
  <2>1. CASE UNCHANGED at
    BY <1>6, <2>1, StandStill DEF FrameDone, Active, PlaceInv
  <2>2. CASE at[1] < Len(Frames) /\ at' = <<at[1] + 1, 1>> /\ UNCHANGED exit
    <3>1. Frames' = Frames /\ at'[1] = at[1] + 1 /\ at'[2] = 1
      BY <1>6, <2>2 DEF FrameDone, Frames
    <3>2. at[1] + 1 \in 1..Len(Frames)
      BY <2>2, PlaceFacts
    <3>3. Len(Frames[at[1] + 1].ops) \in Nat
      BY <3>2, FramesShape, LenProperties DEF FaultInv, Fits
    <3>4. Ops' = Frames[at[1] + 1].ops
      BY <3>1 DEF Ops
    <3>5. at'[2] \in 1..(Len(Ops') + 1)
      BY <3>1, <3>3, <3>4
    <3>. QED
      BY <1>6, <2>2, <3>1, <3>2, <3>5 DEF FrameDone, Active, PlaceInv
  <2>. QED
    BY <1>6, <2>1, <2>2 DEF FrameDone
<1>7. CASE Expire \/ Edit
  BY <1>7, StandStill DEF Expire, Edit, PlaceInv
<1>8. CASE Interrupt
  <2>1. Frames' = Frames /\ at'[1] = 1 /\ at'[2] = 1
    BY <1>8 DEF Interrupt, Frames
  <2>2. 1 \in 1..Len(Frames)
    BY PlaceFacts DEF Shape
  <2>3. Len(Frames[1].ops) \in Nat
    BY <2>2, FramesShape, LenProperties DEF FaultInv, Fits
  <2>4. at'[2] \in 1..(Len(Ops') + 1)
    BY <2>1, <2>3 DEF Ops
  <2>. QED
    BY <1>8, <2>1, <2>2, <2>4 DEF Interrupt, PlaceInv
<1>9. CASE UNCHANGED vars
  BY <1>9, StandStill DEF vars, PlaceInv
<1>. QED
  BY <1>1, <1>2, <1>3, <1>4, <1>5, <1>6, <1>7, <1>8, <1>9, OperationSteps
  DEF Next, GateStep, FaultInv

LEMMA PlaceAlways == Spec => [](FaultInv /\ PlaceInv)
<1>1. Init => PlaceInv
  <2>. SUFFICES ASSUME Init PROVE PlaceInv
    OBVIOUS
  <2>1. request \in Requests /\ at[1] = 1 /\ at[2] = 1
    BY DEF Init
  <2>2. Shape(Frames) /\ Len(Frames) \in Nat
    BY <2>1, FramesShape, LenProperties DEF Shape
  <2>3. 1 \in 1..Len(Frames)
    BY <2>2 DEF Shape
  <2>4. Len(Frames[1].ops) \in Nat
    BY <2>1, <2>3, FramesShape, LenProperties DEF Fits
  <2>5. at[2] \in 1..(Len(Ops) + 1)
    BY <2>1, <2>4 DEF Ops
  <2>. QED
    BY <2>1, <2>3, <2>5 DEF Init, PlaceInv
<1>. QED
  BY <1>1, PlaceStep, FaultAlways, PTL DEF Spec

-----------------------------------------------------------------------------
(* Every check of the run has passed.                                       *)

LEMMA SafeKinds ==
  ASSUME NEW f \in SafeFrames, NEW k \in 1..Len(f.ops)
  PROVE  /\ f.ops[k].op \notin {"render", "rewrite"}
         /\ f.ops[k].op = "check" => f.ops[k].arg \in PlainChecks
<1>1. CASE f.ops[k] \in PlainOps
  BY <1>1, PlainKinds
<1>2. CASE f \in PlainFrames
  <2>1. f.ops[k] \in PlainOps
    BY <1>2, ElementOfSeq DEF PlainFrames
  <2>. QED
    BY <1>1, <2>1
<1>3. CASE f.ops[k].op \in {"create", "write", "defer", "state"}
  BY <1>3
<1>4. CASE f = checkModule[1]
  <2>1. k = 2 \/ k \in {1, 3, 4, 5, 6}
    BY <1>4, ModuleOps
  <2>2. f.ops[k] \in PlainOps \/ f.ops[k] = Do("create", "vendor")
    BY <1>4, <2>1, ModuleOps
  <2>. QED
    BY <1>1, <1>3, <2>2 DEF Do
<1>5. CASE f = coverage[1]
  <2>1. k = 1 \/ k = 3 \/ k \in {2, 4, 5, 6}
    BY <1>5, CoverageOps
  <2>2. \/ f.ops[k] \in PlainOps
        \/ f.ops[k] = Do("create", "profile")
        \/ f.ops[k] = Do("defer", "profile")
    BY <1>5, <2>1, CoverageOps
  <2>. QED
    BY <1>1, <1>3, <2>2 DEF Do
<1>6. ASSUME NEW b \in Lines, f = PrepareBoundary(b)
      PROVE  f.ops[k] \in PlainOps \/ f.ops[k].op \in {"create", "write"}
  <2>1. f.ops[k] \in PlainOps \/ f.ops[k] = Do("create", "mod")
        \/ f.ops[k] = Do("write", "sum")
    BY <1>6, PrepareOps
  <2>. QED
    BY <2>1 DEF Do
<1>7. ASSUME NEW b \in Lines, f = verifyCompatibilityBoundary(b)
      PROVE  f.ops[k] \in PlainOps \/ f.ops[k].op \in {"create", "write", "state"}
  <2>1. k = 1 \/ k \in 2..12
    <3>1. Len(f.ops) = 12
      BY <1>7, VerifyOps
    <3>. QED
      BY <3>1
  <2>2. f.ops[k] \in PlainOps \/ f.ops[k] = Do("create", "mod")
        \/ f.ops[k] = Do("write", "sum") \/ f.ops[k] = Do("state", b)
    BY <1>7, <2>1, VerifyOps
  <2>. QED
    BY <2>2 DEF Do
<1>. QED
  BY <1>1, <1>2, <1>3, <1>4, <1>5, <1>6, <1>7 DEF SafeFrames

LEMMA RewriteKinds ==
  ASSUME NEW k \in 1..Len(format(TRUE)[1].ops)
  PROVE  LET o == format(TRUE)[1].ops[k]
         IN /\ o.op # "render"
            /\ o.op = "rewrite" => k \in {3, 5}
            /\ o.op = "check" => o.arg \in PlainChecks
<1>. DEFINE f == format(TRUE)[1]
<1>1. /\ Len(f.ops) = 5 /\ f.ops[3] = Do("rewrite", {})
      /\ f.ops[5] = Do("rewrite", {})
      /\ f.ops[1] \in PlainOps /\ f.ops[2] \in PlainOps /\ f.ops[4] \in PlainOps
  BY RewriteOps
<1>. HIDE DEF f
<1>2. k \in 1..5
  BY <1>1 DEF f
<1>3. CASE k \in {1, 2, 4}
  <2>1. f.ops[k] \in PlainOps
    BY <1>1, <1>3
  <2>. QED
    BY <2>1, PlainKinds DEF f
<1>4. CASE k \in {3, 5}
  <2>1. f.ops[k] = Do("rewrite", {})
    BY <1>1, <1>4
  <2>2. f.ops[k].op = "rewrite"
    BY <2>1 DEF Do
  <2>. QED
    BY <1>4, <2>2 DEF f
<1>5. k \in {1, 2, 4} \/ k \in {3, 5}
  BY <1>2
<1>. QED
  BY <1>3, <1>4, <1>5

LEMMA RehearsalKinds ==
  ASSUME NEW k \in 1..Len(releaseRehearsal[1].ops)
  PROVE  LET o == releaseRehearsal[1].ops[k]
         IN /\ o.op # "rewrite"
            /\ o.op = "render" => k \in {5, 6}
            /\ o.op = "check" => o.arg \in PlainChecks \/ k >= 9
<1>. DEFINE f == releaseRehearsal[1]
<1>1. /\ Len(f.ops) = 14 /\ f.ops[1] = Do("create", "rehearsal")
      /\ f.ops[5] = Do("render", {}) /\ f.ops[6] = Do("render", {})
      /\ f.ops[9] = Check("deterministic") /\ f.ops[10] = Check("artifacts")
      /\ f.ops[12] = Check("checksums") /\ f.ops[14] = Check("sbom")
      /\ \A j \in {2, 3, 4, 7, 8, 11, 13} : f.ops[j] \in PlainOps
  BY RehearsalOps
<1>. HIDE DEF f
<1>2. k \in 1..14
  BY <1>1 DEF f
<1>3. CASE k \in {2, 3, 4, 7, 8, 11, 13}
  <2>1. f.ops[k] \in PlainOps
    BY <1>1, <1>3
  <2>. QED
    BY <2>1, PlainKinds DEF f
<1>4. CASE k = 1
  BY <1>1, <1>4 DEF f, Do
<1>5. CASE k \in {5, 6}
  BY <1>1, <1>5 DEF f, Do
<1>6. CASE k \in {9, 10, 12, 14}
  BY <1>1, <1>6 DEF f, Check, Do
<1>. QED
  BY <1>2, <1>3, <1>4, <1>5, <1>6

\* Where a program looks at what was rendered, renders and rewrites.
LEMMA CheckPlace ==
  ASSUME NEW F, Shape(F), NEW i \in 1..Len(F), NEW k \in 1..Len(F[i].ops),
         F[i].ops[k].op = "check"
  PROVE  \/ F[i].ops[k].arg \in PlainChecks
         \/ i = Len(F) - 1 /\ F[i] = releaseRehearsal[1] /\ k >= 9
<1>1. CASE F[i] \in SafeFrames
  BY <1>1, SafeKinds
<1>2. CASE i = 2 /\ F[i] = format(TRUE)[1]
  <2>1. k \in 1..Len(format(TRUE)[1].ops) /\ format(TRUE)[1].ops[k].op = "check"
    BY <1>2
  <2>. QED
    BY <1>2, <2>1, RewriteKinds
<1>3. CASE i = Len(F) - 1 /\ F[i] = releaseRehearsal[1]
  <2>1. /\ k \in 1..Len(releaseRehearsal[1].ops)
        /\ releaseRehearsal[1].ops[k].op = "check"
    BY <1>3
  <2>. QED
    BY <1>3, <2>1, RehearsalKinds
<1>. QED
  BY <1>1, <1>2, <1>3 DEF Shape

LEMMA RenderPlace ==
  ASSUME NEW F, Shape(F), NEW i \in 1..Len(F), NEW k \in 1..Len(F[i].ops),
         F[i].ops[k].op = "render"
  PROVE  i = Len(F) - 1 /\ F[i] = releaseRehearsal[1] /\ k \in {5, 6}
<1>1. CASE F[i] \in SafeFrames
  BY <1>1, SafeKinds
<1>2. CASE i = 2 /\ F[i] = format(TRUE)[1]
  <2>1. k \in 1..Len(format(TRUE)[1].ops) /\ format(TRUE)[1].ops[k].op = "render"
    BY <1>2
  <2>. QED
    BY <2>1, RewriteKinds
<1>3. CASE i = Len(F) - 1 /\ F[i] = releaseRehearsal[1]
  <2>1. /\ k \in 1..Len(releaseRehearsal[1].ops)
        /\ releaseRehearsal[1].ops[k].op = "render"
    BY <1>3
  <2>. QED
    BY <1>3, <2>1, RehearsalKinds
<1>. QED
  BY <1>1, <1>2, <1>3 DEF Shape

LEMMA RewritePlace ==
  ASSUME NEW F, Shape(F), NEW i \in 1..Len(F), NEW k \in 1..Len(F[i].ops),
         F[i].ops[k].op = "rewrite"
  PROVE  i = 2 /\ F[i] = format(TRUE)[1] /\ k \in {3, 5}
<1>1. CASE F[i] \in SafeFrames
  BY <1>1, SafeKinds
<1>2. CASE i = 2 /\ F[i] = format(TRUE)[1]
  <2>1. k \in 1..Len(format(TRUE)[1].ops) /\ format(TRUE)[1].ops[k].op = "rewrite"
    BY <1>2
  <2>. QED
    BY <1>2, <2>1, RewriteKinds
<1>3. CASE i = Len(F) - 1 /\ F[i] = releaseRehearsal[1]
  <2>1. /\ k \in 1..Len(releaseRehearsal[1].ops)
        /\ releaseRehearsal[1].ops[k].op = "rewrite"
    BY <1>3
  <2>. QED
    BY <2>1, RehearsalKinds
<1>. QED
  BY <1>1, <1>2, <1>3 DEF Shape

\* A check of the repository does not look at what was rendered.
LEMMA HoldsPlain ==
  ASSUME NEW c \in PlainChecks, NEW r, NEW o1, NEW o2, Holds(c, r, o1)
  PROVE  Holds(c, r, o2)
<1>1. c[1] \in Names \cup {"selected", "line"}
  BY DEF PlainChecks
<1>. QED
  BY <1>1 DEF Holds, Names

\* The operations behind the gate.
Behind(i, k) == \/ i < at[1]
                \/ i = at[1] /\ k < at[2]

\* While no frame has failed, every check the gate is past holds, of what has
\* been rendered by now; and nothing is rendered before the rehearsal.
PassedInv ==
  /\ ~failed =>
       \A i \in 1..Len(Frames) : \A k \in 1..Len(Frames[i].ops) :
         Behind(i, k) /\ Frames[i].ops[k].op = "check"
           => Holds(Frames[i].ops[k].arg, request, output)
  /\ output \in Seq(Renders)
  /\ output # <<>> =>
       \E i \in 1..at[1] :
         i = Len(Frames) - 1 /\ Frames[i] = releaseRehearsal[1]

LEMMA PassedAdvance ==
  ASSUME FaultInv, PlaceInv, PassedInv, Advance PROVE PassedInv'
<1>1. /\ Frames' = Frames /\ at'[1] = at[1] /\ at'[2] = at[2] + 1
      /\ at[2] \in 1..Len(Ops) /\ Op = Frames[at[1]].ops[at[2]]
  BY AdvancePlace
<1>2. /\ Shape(Frames) /\ at[1] \in 1..Len(Frames) /\ at[1] \in Nat
      /\ at[2] \in Nat /\ Len(Frames) \in Nat
  BY PlaceFacts DEF PlaceInv
<1>3. at[2] \in 1..Len(Frames[at[1]].ops)
  BY <1>1 DEF Ops
<1>4. request' = request /\ failed' = failed
  BY DEF Advance, Pass
<1>5. ASSUME Op.op # "render"
      PROVE  output' = output
  BY <1>5 DEF Advance
<1>6. ASSUME Op.op = "render"
      PROVE  /\ at[1] = Len(Frames) - 1 /\ Frames[at[1]] = releaseRehearsal[1]
             /\ at[2] \in {5, 6}
  <2>1. Frames[at[1]].ops[at[2]].op = "render"
    BY <1>1, <1>6
  <2>2. ASSUME NEW i \in 1..Len(Frames), NEW k \in 1..Len(Frames[i].ops),
               Frames[i].ops[k].op = "render"
        PROVE  /\ i = Len(Frames) - 1 /\ Frames[i] = releaseRehearsal[1]
               /\ k \in {5, 6}
    <3>1. Shape(Frames)
      BY <1>2
    <3>. QED
      BY <2>2, <3>1, RenderPlace
  <2>. QED
    BY <1>2, <1>3, <2>1, <2>2
<1>7. ASSUME ~failed, NEW i \in 1..Len(Frames),
             NEW k \in 1..Len(Frames[i].ops), Behind(i, k)',
             Frames[i].ops[k].op = "check"
      PROVE  Holds(Frames[i].ops[k].arg, request, output')
  <2>1. Behind(i, k) \/ (i = at[1] /\ k = at[2])
    <3>1. Len(Frames[i].ops) \in Nat
      BY FramesShape, LenProperties DEF FaultInv, Fits
    <3>. QED
      BY <1>1, <1>2, <1>7, <3>1 DEF Behind
  <2>2. CASE Op.op # "render"
    <3>1. CASE Behind(i, k)
      BY <1>5, <1>7, <2>2, <3>1 DEF PassedInv
    <3>2. CASE i = at[1] /\ k = at[2]
      BY <1>1, <1>5, <1>7, <2>2, <3>2 DEF Advance
    <3>. QED
      BY <2>1, <3>1, <3>2
  <2>3. CASE Op.op = "render"
    <3>1. Behind(i, k)
      BY <1>1, <1>7, <2>1, <2>3
    <3>2. Frames[i].ops[k].arg \in PlainChecks
      <4>1. \/ Frames[i].ops[k].arg \in PlainChecks
            \/ i = Len(Frames) - 1 /\ k >= 9
        BY <1>2, <1>7, CheckPlace
      <4>2. ~(i = Len(Frames) - 1 /\ k >= 9)
        <5>1. Len(Frames[i].ops) \in Nat
          BY FramesShape, LenProperties DEF FaultInv, Fits
        <5>. QED
          BY <1>2, <1>6, <2>3, <3>1, <5>1 DEF Behind
      <4>. QED
        BY <4>1, <4>2
    <3>3. Holds(Frames[i].ops[k].arg, request, output)
      BY <1>7, <3>1 DEF PassedInv
    <3>. QED
      BY <3>2, <3>3, HoldsPlain
  <2>. QED
    BY <2>2, <2>3
<1>8. ASSUME output' # <<>>
      PROVE  \E i \in 1..at[1] :
               i = Len(Frames) - 1 /\ Frames[i] = releaseRehearsal[1]
  <2>1. CASE Op.op # "render"
    BY <1>5, <1>8, <2>1 DEF PassedInv
  <2>2. CASE Op.op = "render"
    <3>1. at[1] \in 1..at[1]
      BY <1>2
    <3>. QED
      BY <1>6, <2>2, <3>1
  <2>. QED
    BY <2>1, <2>2
<1>9. output' \in Seq(Renders)
  BY AppendProperties DEF PassedInv, Advance
<1>. QED
  BY <1>1, <1>4, <1>7, <1>8, <1>9 DEF PassedInv

LEMMA PassedStep ==
  ASSUME FaultInv, PlaceInv, PassedInv, [Next]_vars PROVE PassedInv'
<1>1. CASE Advance
  BY <1>1, PassedAdvance
<1>2. CASE Abort
  <2>1. Frames' = Frames /\ at'[1] = at[1] /\ failed' /\ output' = output
    BY <1>2, AbortPlace DEF Abort
  <2>. QED
    BY <2>1 DEF PassedInv
<1>3. CASE UNCHANGED <<request, at, output>> /\ (~failed' => ~failed)
  BY <1>3, StandStill DEF PassedInv, Behind
<1>4. CASE Wait \/ Expire \/ Edit \/ UNCHANGED vars
  BY <1>3, <1>4 DEF Wait, Expire, Edit, vars
<1>5. CASE Remove
  BY <1>3, <1>5 DEF Remove
<1>6. CASE Compare
  BY <1>3, <1>6 DEF Compare
<1>7. CASE FrameDone
  <2>1. CASE UNCHANGED at
    BY <1>3, <1>7, <2>1 DEF FrameDone
  <2>2. CASE at[1] < Len(Frames) /\ at' = <<at[1] + 1, 1>>
    <3>1. /\ Frames' = Frames /\ at'[1] = at[1] + 1 /\ at'[2] = 1
          /\ request' = request /\ output' = output /\ failed' = failed
      BY <1>7, <2>2 DEF FrameDone, Frames
    <3>2. at[1] \in Nat /\ at[2] = Len(Ops) + 1 /\ Len(Ops) \in Nat
      BY <1>7, PlaceFacts DEF FrameDone
    <3>3. ASSUME NEW i \in 1..Len(Frames), NEW k \in 1..Len(Frames[i].ops),
                 Behind(i, k)'
          PROVE  Behind(i, k)
      <4>1. i < at[1] + 1 \/ k < 1
        BY <3>1, <3>3 DEF Behind
      <4>2. Len(Frames[i].ops) \in Nat
        BY FramesShape, LenProperties DEF FaultInv, Fits
      <4>3. i < at[1] \/ i = at[1]
        BY <3>2, <4>1, <4>2
      <4>4. i = at[1] => k < at[2]
        BY <3>2, <4>2 DEF Ops
      <4>. QED
        BY <4>3, <4>4 DEF Behind
    <3>4. \A i \in 1..at[1] : i \in 1..(at[1] + 1)
      BY <3>2
    <3>. QED
      BY <3>1, <3>3, <3>4 DEF PassedInv
  <2>. QED
    BY <1>7, <2>1, <2>2 DEF FrameDone
<1>8. CASE Interrupt
  <2>1. Frames' = Frames /\ at'[1] = 1 /\ at'[2] = 1 /\ output' = <<>>
    BY <1>8 DEF Interrupt, Frames
  <2>2. ASSUME NEW i \in 1..Len(Frames), NEW k \in 1..Len(Frames[i].ops)
        PROVE  ~Behind(i, k)'
    <3>1. Len(Frames) \in Nat /\ Len(Frames[i].ops) \in Nat
      BY PlaceFacts, FramesShape, LenProperties DEF FaultInv, Fits
    <3>. QED
      BY <2>1, <3>1 DEF Behind
  <2>. QED
    BY <2>1, <2>2 DEF PassedInv
<1>. QED
  BY <1>1, <1>2, <1>4, <1>5, <1>6, <1>7, <1>8, OperationSteps
  DEF Next, GateStep, FaultInv

LEMMA PassedAlways == Spec => [](FaultInv /\ PlaceInv /\ PassedInv)
<1>1. Init => PassedInv
  <2>. SUFFICES ASSUME Init PROVE PassedInv
    OBVIOUS
  <2>1. request \in Requests /\ at[1] = 1 /\ at[2] = 1 /\ output = <<>>
    BY DEF Init
  <2>2. ASSUME NEW i \in 1..Len(Frames), NEW k \in 1..Len(Frames[i].ops)
        PROVE  ~Behind(i, k)
    <3>1. Len(Frames) \in Nat /\ Len(Frames[i].ops) \in Nat
      BY <2>1, FramesShape, LenProperties DEF Fits, Shape
    <3>. QED
      BY <2>1, <3>1 DEF Behind
  <2>. QED
    BY <2>1, <2>2 DEF PassedInv
<1>. QED
  BY <1>1, PassedStep, PlaceAlways, PTL DEF Spec

\* When the gate ends with 0 all its checks have passed.
LEMMA AllPassed ==
  ASSUME FaultInv, PlaceInv, PassedInv, exit = "0",
         NEW i \in 1..Len(Frames), NEW k \in 1..Len(Frames[i].ops),
         Frames[i].ops[k].op = "check"
  PROVE  Holds(Frames[i].ops[k].arg, request, output)
<1>1. ~failed /\ at[1] = Len(Frames) /\ at[2] = Len(Ops) + 1
  BY PlaceFacts DEF FaultInv, PlaceInv
<1>2. Len(Frames) \in Nat /\ Len(Frames[i].ops) \in Nat
  BY PlaceFacts, FramesShape, LenProperties DEF FaultInv, Fits
<1>3. Behind(i, k)
  BY <1>1, <1>2 DEF Behind, Ops
<1>. QED
  BY <1>1, <1>3 DEF PassedInv

\* docs/releasing.md, releaseRehearsal: whatever the renderer writes, after a
\* rehearsal that passed each file of the release is vouched for by exactly
\* one line of checksums.txt, and both renders are the same.
THEOREM ReleaseIsVouched == Spec => []ReleaseVouched
<1>1. ASSUME FaultInv, PlaceInv, PassedInv PROVE ReleaseVouched
  <2>. SUFFICES ASSUME exit = "0", output # <<>>
                PROVE  LET files == DOMAIN output[1] \ {"checksums"}
                           lines == output[1]["checksums"].lines
                       IN /\ output[2] = output[1]
                          /\ Len(lines) = Cardinality(files)
                          /\ \A f \in files : \E i \in DOMAIN lines :
                               lines[i] = <<output[1][f], f>>
    BY DEF ReleaseVouched
  <2>1. PICK r \in 1..at[1] : Frames[r] = releaseRehearsal[1]
    BY <1>1 DEF PassedInv
  <2>2. r \in 1..Len(Frames)
    BY <1>1, PlaceFacts DEF PlaceInv
  <2>3. \A k \in 1..Len(Frames[r].ops) :
          Frames[r].ops[k].op = "check"
            => Holds(Frames[r].ops[k].arg, request, output)
    BY <1>1, <2>2, AllPassed
  <2>4. /\ Len(Frames[r].ops) = 14
        /\ Frames[r].ops[9] = Check("deterministic")
        /\ Frames[r].ops[10] = Check("artifacts")
        /\ Frames[r].ops[12] = Check("checksums")
    BY <2>1, RehearsalOps
  <2>5. /\ Holds(Check("deterministic").arg, request, output)
        /\ Holds(Check("artifacts").arg, request, output)
        /\ Holds(Check("checksums").arg, request, output)
    <3>1. /\ Check("deterministic").op = "check" /\ Check("artifacts").op = "check"
          /\ Check("checksums").op = "check"
      BY DEF Check, Do
    <3>2. {9, 10, 12} \subseteq 1..Len(Frames[r].ops)
      BY <2>4
    <3>. QED
      BY <2>3, <2>4, <3>1, <3>2
  <2>6. /\ Holds(<<"deterministic">>, request, output)
        /\ Holds(<<"artifacts">>, request, output)
        /\ Holds(<<"checksums">>, request, output)
    BY <2>5 DEF Check, Do
  <2>7. output[1] = output[2]
    BY <2>6 DEF Holds, deterministicReleaseArtifacts
  <2>8. ExpectedArtifacts(output[1])
    BY <2>6 DEF Holds
  <2>9. validateReleaseChecksums(output[1])
    BY <2>6 DEF Holds
  <2>10. DOMAIN output[1] \ {"checksums"} = {"sbom", "archive"}
    BY <2>8 DEF ExpectedArtifacts, Expected
  <2>11. Cardinality({"sbom", "archive"}) = 2
    <3>1. IsFiniteSet({"sbom"}) /\ Cardinality({"sbom"}) = 1
      BY FS_Singleton
    <3>2. {"sbom"} \cup {"archive"} = {"sbom", "archive"}
      OBVIOUS
    <3>3. "archive" \notin {"sbom"}
      OBVIOUS
    <3>4. Cardinality({"sbom"} \cup {"archive"}) = Cardinality({"sbom"}) + 1
      BY <3>1, <3>3, FS_AddElement
    <3>. QED
      BY <3>1, <3>2, <3>4
  <2>. DEFINE lines == output[1]["checksums"].lines
  <2>12. /\ Len(lines) = 2
         /\ lines[1] = <<output[1]["sbom"], "sbom">>
         /\ lines[2] = <<output[1]["archive"], "archive">>
    BY <2>9 DEF validateReleaseChecksums, Vouched
  <2>13. DOMAIN lines = 1..2
    <3>1. output[1] \in Renders
      BY <1>1, EmptySeq, ElementOfSeq DEF PassedInv
    <3>2. "checksums" \in DOMAIN output[1]
      BY <2>8 DEF ExpectedArtifacts, Expected
    <3>. QED
      BY <2>12, <3>1, <3>2, RenderAssumption
  <2>14. 1 \in DOMAIN lines /\ 2 \in DOMAIN lines
    BY <2>13
  <2>. QED
    BY <2>7, <2>10, <2>11, <2>12, <2>14
<1>. QED
  BY <1>1, PassedAlways, PTL

-----------------------------------------------------------------------------
(* Temporary files.                                                         *)

Removals == {"remove", "removeStrict"}

\* The deferred calls there can be.
Calls == [call : Removals, kinds : SUBSET Kinds] \cup [call : {"compare"}]

\* A deferred call will remove files of this kind.
Covered(kind) ==
  \E i \in 1..Len(defers) :
    defers[i].call \in Removals /\ kind \in defers[i].kinds

\* The frame has just created a profile, and not yet deferred its removal.
ProfileOpen ==
  \E p \in 1..Len(Ops) :
    /\ Ops[p] = Do("create", "profile")
    /\ at[2] \in {p + 1, p + 2} /\ at[2] <= Len(Ops)

\* A temporary file of this run that is still there cannot be removed, or is
\* a profile that could not be closed, or belongs to the current frame, which
\* is going to remove it.
Accounted(t) ==
  \/ t[1] # run
  \/ t \in stuck
  \/ t[3] = "profile" /\ "file" \in faults
  \/ t[2] = at[1] /\ Covered(t[3])
  \/ t[2] = at[1] /\ t[3] = "profile" /\ ProfileOpen

TempInv ==
  /\ defers \in Seq(Calls)
  /\ temp \subseteq {0, run} \X Nat \X Kinds
  /\ \A t \in temp : Accounted(t)
  /\ ~Finished =>
       \A j \in 1..(at[2] - 1) : Ops[j] = Do("create", "mod") => Covered("sum")

LEMMA DeferCall ==
  ASSUME defers \in Seq(Calls), NEW c \in Calls, defers' = <<c>> \o defers
  PROVE  /\ defers' \in Seq(Calls) /\ Len(defers') = Len(defers) + 1
         /\ \A k : Covered(k) => Covered(k)'
         /\ c.call \in Removals => \A k \in c.kinds : Covered(k)'
         /\ defers'[1] = c
         /\ \A i \in 1..Len(defers') : i = 1 \/ (/\ i - 1 \in 1..Len(defers)
                                                /\ defers'[i] = defers[i - 1])
<1>1. <<c>> \in Seq(Calls) /\ Len(<<c>>) = 1 /\ <<c>>[1] = c
  BY Tuples
<1>. DEFINE s == <<c>>
<1>. HIDE DEF s
<1>2. /\ defers' \in Seq(Calls) /\ Len(defers') = Len(s) + Len(defers)
      /\ \A i \in 1 .. Len(s) + Len(defers) :
           defers'[i] = IF i <= Len(s) THEN s[i] ELSE defers[i - Len(s)]
  BY <1>1, ConcatProperties DEF s
<1>3. Len(s) = 1 /\ s[1] = c /\ Len(defers) \in Nat
  BY <1>1, LenProperties DEF s
<1>4. Len(defers') = Len(defers) + 1 /\ defers'[1] = c
  BY <1>2, <1>3
<1>5. \A i \in 1..Len(defers) : defers'[i + 1] = defers[i] /\ i + 1 \in 1..Len(defers')
  BY <1>2, <1>3, <1>4
<1>6. 1 \in 1..Len(defers')
  BY <1>3, <1>4
<1>7. \A i \in 1..Len(defers') : i = 1 \/ (/\ i - 1 \in 1..Len(defers)
                                           /\ defers'[i] = defers[i - 1])
  BY <1>2, <1>3, <1>4
<1>. QED
  BY <1>2, <1>4, <1>5, <1>6, <1>7 DEF Covered

LEMMA RunCall ==
  ASSUME defers \in Seq(Calls), defers # <<>>, defers' = Tail(defers)
  PROVE  /\ defers' \in Seq(Calls) /\ Len(defers') = Len(defers) - 1
         /\ Head(defers) \in Calls
         /\ \A k : Covered(k) =>
              \/ Covered(k)'
              \/ Head(defers).call \in Removals /\ k \in Head(defers).kinds
         /\ Head(defers) = defers[1] /\ Len(defers) \in Nat \ {0}
         /\ \A i \in 1..Len(defers') :
              i + 1 \in 1..Len(defers) /\ defers'[i] = defers[i + 1]
<1>1. /\ Head(defers) \in Calls /\ defers' \in Seq(Calls)
      /\ Len(defers') = Len(defers) - 1
      /\ \A i \in 1..Len(defers') : defers'[i] = defers[i + 1]
  BY HeadTailProperties
<1>2. Head(defers) = defers[1] /\ Len(defers) \in Nat
  BY LenProperties
<1>3. ASSUME NEW i \in 1..Len(defers), i # 1
      PROVE  i - 1 \in 1..Len(defers') /\ defers'[i - 1] = defers[i]
  <2>1. i - 1 \in 1..Len(defers') /\ (i - 1) + 1 = i
    BY <1>1, <1>2, <1>3
  <2>. QED
    BY <1>1, <2>1
<1>4. Len(defers) \in Nat \ {0}
  BY EmptySeq
<1>5. \A i \in 1..Len(defers') : i + 1 \in 1..Len(defers)
  BY <1>1, <1>4
<1>. QED
  BY <1>1, <1>2, <1>3, <1>4, <1>5 DEF Covered

\* The call an operation defers.
LEMMA PushedCall ==
  ASSUME FaultInv, PlaceInv, defers \in Seq(Calls), Advance
  PROVE  /\ Cleaner(Op) => \E c \in Calls :
              /\ defers' = <<c>> \o defers
              /\ c.call \in Removals /\ Op.arg \in c.kinds
              /\ Op.op = "create" /\ Op.arg = "mod" => "sum" \in c.kinds
         /\ Op.op = "state" => defers' = <<[call |-> "compare"]>> \o defers
         /\ ~Cleaner(Op) /\ Op.op # "state" => defers' = defers
<1>1. Op \in AllOps
  BY AdvancePlace
<1>2. CASE Op.op = "create" /\ Op.arg # "profile"
  <2>. DEFINE c == [call |-> "remove",
                    kinds |-> IF Op.arg = "mod" THEN {"mod", "sum"} ELSE {Op.arg}]
  <2>1. Op.arg \in Kinds
    BY <1>1, <1>2 DEF AllOps, PlainOps
  <2>2. Cleanup(Op.arg) = <<c>>
    BY <1>2 DEF Cleanup
  <2>3. c \in Calls /\ c.call \in Removals /\ Op.arg \in c.kinds
        /\ (Op.arg = "mod" => "sum" \in c.kinds)
    BY <2>1 DEF Calls, Removals, Kinds
  <2>. HIDE DEF c
  <2>4. defers' = <<c>> \o defers
    BY <1>2, <2>2 DEF Advance
  <2>. QED
    BY <1>2, <2>3, <2>4 DEF Cleaner
<1>3. CASE Op.op = "create" /\ Op.arg = "profile"
  <2>1. defers' = defers
    BY <1>3, ConcatEmptySeq DEF Advance, Cleanup
  <2>. QED
    BY <1>3, <2>1 DEF Cleaner
<1>4. CASE Op.op = "defer"
  <2>. DEFINE c == [call |-> "removeStrict", kinds |-> {Op.arg}]
  <2>1. Op.arg \in Kinds
    BY <1>1, <1>4 DEF AllOps, PlainOps
  <2>2. c \in Calls /\ c.call \in Removals /\ Op.arg \in c.kinds
    BY <2>1 DEF Calls, Removals
  <2>. HIDE DEF c
  <2>3. defers' = <<c>> \o defers
    BY <1>4 DEF Advance, c
  <2>. QED
    BY <1>4, <2>2, <2>3 DEF Cleaner
<1>5. CASE Op.op = "state"
  BY <1>5 DEF Advance, Cleaner
<1>6. CASE Op.op \notin {"create", "defer", "state"}
  BY <1>6 DEF Advance, Cleaner
<1>. QED
  BY <1>2, <1>3, <1>4, <1>5, <1>6

LEMMA AdvanceCalls ==
  ASSUME FaultInv, PlaceInv, defers \in Seq(Calls), Advance
  PROVE  /\ defers' \in Seq(Calls)
         /\ \A k : Covered(k) => Covered(k)'
         /\ Cleaner(Op) => \A a : a = Op.arg => Covered(a)'
         /\ Op = Do("create", "mod") => Covered("sum")'
<1>1. CASE Cleaner(Op)
  <2>1. PICK c \in Calls :
          /\ defers' = <<c>> \o defers
          /\ c.call \in Removals /\ Op.arg \in c.kinds
          /\ Op.op = "create" /\ Op.arg = "mod" => "sum" \in c.kinds
    BY <1>1, PushedCall
  <2>2. Op = Do("create", "mod") => Op.op = "create" /\ Op.arg = "mod"
    BY DEF Do
  <2>. QED
    BY <1>1, <2>1, <2>2, DeferCall
<1>2. CASE Op.op = "state"
  <2>1. [call |-> "compare"] \in Calls
    BY DEF Calls
  <2>2. ~Cleaner(Op) /\ Op # Do("create", "mod")
    BY <1>2 DEF Cleaner, Do
  <2>. QED
    BY <1>2, <2>1, <2>2, DeferCall, PushedCall
<1>3. CASE ~Cleaner(Op) /\ Op.op # "state"
  <2>1. Op # Do("create", "mod")
    BY <1>3 DEF Cleaner, Do
  <2>. QED
    BY <1>3, <2>1, PushedCall DEF Covered
<1>. QED
  BY <1>1, <1>2, <1>3

\* In a frame with an open profile the file is closed or its removal is
\* deferred next.
LEMMA OpenNext ==
  ASSUME FaultInv, PlaceInv, ProfileOpen
  PROVE  /\ ~Finished
         /\ \/ /\ Op.op = "file" /\ at[2] + 1 <= Len(Ops)
               /\ \E p \in 1..Len(Ops) :
                    /\ Ops[p] = Do("create", "profile")
                    /\ at[2] + 1 = p + 2
            \/ Op = Do("defer", "profile")
<1>1. PICK p \in 1..Len(Ops) :
        /\ Ops[p] = Do("create", "profile")
        /\ at[2] \in {p + 1, p + 2} /\ at[2] <= Len(Ops)
  BY DEF ProfileOpen
<1>2. /\ p + 2 <= Len(Ops) /\ Ops[p + 1].op = "file"
      /\ Ops[p + 2] = Do("defer", "profile") /\ Len(Ops) \in Nat
      /\ at[2] \in Nat
  BY <1>1, PlaceFacts DEF Fits, FitsAt, Ops
<1>3. ~Finished
  BY <1>1, <1>2 DEF Finished
<1>4. CASE at[2] = p + 1
  BY <1>1, <1>2, <1>3, <1>4 DEF Op
<1>5. CASE at[2] = p + 2
  BY <1>2, <1>3, <1>5 DEF Op
<1>. QED
  BY <1>1, <1>4, <1>5

LEMMA TempAdvance ==
  ASSUME FaultInv, PlaceInv, TempInv, Advance PROVE TempInv'
<1>1. /\ Ops' = Ops /\ at'[1] = at[1] /\ at'[2] = at[2] + 1
      /\ at[2] \in 1..Len(Ops) /\ Op \in AllOps /\ Op = Ops[at[2]]
  BY AdvancePlace DEF Op
<1>2. /\ defers' \in Seq(Calls)
      /\ \A k : Covered(k) => Covered(k)'
      /\ Cleaner(Op) => \A a : a = Op.arg => Covered(a)'
      /\ Op = Do("create", "mod") => Covered("sum")'
  BY AdvanceCalls DEF TempInv
<1>3. at[1] \in Nat /\ at[2] \in Nat /\ Len(Ops) \in Nat /\ Fits(Frames[at[1]])
  BY PlaceFacts
<1>4. FitsAt(Frames[at[1]], at[2])
  BY <1>1, <1>3 DEF Fits, Ops
<1>5. run' = run /\ stuck' = stuck /\ faults' = faults
  BY DEF Advance, Pass
<1>6. ASSUME NEW t \in temp PROVE Accounted(t)'
  <2>1. CASE \/ t[1] # run
             \/ t \in stuck
             \/ t[3] = "profile" /\ "file" \in faults
             \/ t[2] = at[1] /\ Covered(t[3])
    BY <1>1, <1>2, <1>5, <2>1 DEF Accounted
  <2>2. CASE t[2] = at[1] /\ t[3] = "profile" /\ ProfileOpen
    <3>1. CASE Op = Do("defer", "profile")
      <4>1. Cleaner(Op) /\ Op.arg = "profile"
        BY <3>1 DEF Cleaner, Do
      <4>. QED
        BY <1>1, <1>2, <2>2, <4>1 DEF Accounted
    <3>2. CASE /\ at[2] + 1 <= Len(Ops)
               /\ \E p \in 1..Len(Ops) :
                    Ops[p] = Do("create", "profile") /\ at[2] + 1 = p + 2
      <4>1. ProfileOpen'
        BY <1>1, <3>2 DEF ProfileOpen
      <4>. QED
        BY <1>1, <2>2, <4>1 DEF Accounted
    <3>. QED
      BY <2>2, <3>1, <3>2, OpenNext
  <2>. QED
    BY <2>1, <2>2 DEF TempInv, Accounted
<1>7. ASSUME Op.op = "create"
      PROVE  /\ Op.arg \in Kinds
             /\ \A a : a = Op.arg =>
                  Covered(a)' \/ (a = "profile" /\ ProfileOpen')
  <2>1. Op.arg \in Kinds
    BY <1>1, <1>7 DEF AllOps, PlainOps
  <2>2. CASE Op.arg # "profile"
    BY <1>2, <1>7, <2>1, <2>2 DEF Cleaner
  <2>3. CASE Op.arg = "profile"
    <3>1. Op = Do("create", "profile")
      BY <1>1, <1>7, <2>3 DEF AllOps, PlainOps, Do
    <3>2. at[2] + 2 <= Len(Ops)
      BY <1>1, <1>4, <3>1 DEF FitsAt, Ops
    <3>3. at[2] + 1 <= Len(Ops)
      BY <1>3, <3>2
    <3>4. ProfileOpen'
      BY <1>1, <3>1, <3>3 DEF ProfileOpen
    <3>. QED
      BY <2>1, <2>3, <3>4
  <2>. QED
    BY <2>1, <2>2, <2>3
<1>8. ASSUME Op.op = "write"
      PROVE  Op.arg \in Kinds /\ \A a : a = Op.arg => Covered(a)'
  <2>1. /\ Op.arg = "sum"
        /\ \E j \in 1..(at[2] - 1) : Ops[j] = Do("create", "mod")
    BY <1>1, <1>4, <1>8 DEF FitsAt, Ops
  <2>2. Covered("sum")
    BY <2>1 DEF TempInv, Advance
  <2>. QED
    BY <1>2, <2>1, <2>2 DEF Kinds
<1>9. /\ temp' \subseteq {0, run'} \X Nat \X Kinds
      /\ \A t \in temp' : Accounted(t)'
  <2>1. CASE Op.op \in {"create", "write"}
    <3>0. PICK n : n = <<run, at[1], Op.arg>>
      OBVIOUS
    <3>1. temp' = temp \cup {n}
      BY <2>1, <3>0 DEF Advance, Temp
    <3>2. n \in {0, run} \X Nat \X Kinds
      BY <1>3, <1>7, <1>8, <2>1, <3>0
    <3>3. Accounted(n)'
      <4>1. n[2] = at[1] /\ n[3] = Op.arg
        BY <3>0
      <4>. QED
        BY <1>1, <1>7, <1>8, <2>1, <4>1 DEF Accounted
    <3>. QED
      BY <1>5, <1>6, <3>1, <3>2, <3>3 DEF TempInv
  <2>2. CASE Op.op \notin {"create", "write"}
    BY <1>5, <1>6, <2>2 DEF Advance, TempInv
  <2>. QED
    BY <2>1, <2>2
<1>10. ASSUME NEW j \in 1..(at'[2] - 1), Ops'[j] = Do("create", "mod")
       PROVE  Covered("sum")'
  <2>1. j \in 1..(at[2] - 1) \/ j = at[2]
    BY <1>1, <1>3
  <2>. QED
    BY <1>1, <1>2, <1>10, <2>1 DEF TempInv, Advance
<1>. QED
  BY <1>2, <1>9, <1>10 DEF TempInv

LEMMA TempAbort ==
  ASSUME FaultInv, PlaceInv, TempInv, Abort PROVE TempInv'
<1>1. /\ at'[1] = at[1] /\ at[2] \in 1..Len(Ops) /\ Op \in AllOps
      /\ Op = Ops[at[2]] /\ Finished'
  BY AbortPlace DEF Op
<1>2. at[1] \in Nat /\ at[2] \in Nat /\ Len(Ops) \in Nat /\ Fits(Frames[at[1]])
  BY PlaceFacts
<1>3. FitsAt(Frames[at[1]], at[2])
  BY <1>1, <1>2 DEF Fits, Ops
<1>4. run' = run /\ stuck' = stuck /\ defers' = defers
  BY DEF Abort
<1>5. PICK f : Fail(f) /\ (child = "none" /\ Op.op = "file" => f = "file")
               /\ (child = "none" => Op.op # "defer")
  BY DEF Abort
<1>6. ASSUME NEW t \in temp PROVE Accounted(t)'
  <2>1. CASE \/ t[1] # run
             \/ t \in stuck
             \/ t[3] = "profile" /\ "file" \in faults
             \/ t[2] = at[1] /\ Covered(t[3])
    BY <1>1, <1>4, <1>5, <2>1 DEF Accounted, Covered, Fail
  <2>2. CASE t[2] = at[1] /\ t[3] = "profile" /\ ProfileOpen
    <3>1. Op.op \in {"file", "defer"}
      BY <2>2, OpenNext DEF Do
    <3>2. child = "none"
      BY <3>1 DEF PlaceInv, Offline, Online
    <3>3. "file" \in faults'
      BY <1>5, <3>1, <3>2 DEF Fail
    <3>. QED
      BY <2>2, <3>3 DEF Accounted
  <2>. QED
    BY <2>1, <2>2 DEF TempInv, Accounted
<1>7. ASSUME Op.op = "write", ~Finished
      PROVE  Op.arg \in Kinds /\ \A a : a = Op.arg => Covered(a)'
  <2>1. /\ Op.arg = "sum"
        /\ \E j \in 1..(at[2] - 1) : Ops[j] = Do("create", "mod")
    BY <1>1, <1>3, <1>7 DEF FitsAt, Ops
  <2>2. Covered("sum")
    BY <1>7, <2>1 DEF TempInv
  <2>. QED
    BY <1>4, <2>1, <2>2 DEF Kinds, Covered
<1>8. /\ temp' \subseteq {0, run'} \X Nat \X Kinds
      /\ \A t \in temp' : Accounted(t)'
  <2>1. CASE temp' = temp
    BY <1>4, <1>6, <2>1 DEF TempInv
  <2>2. CASE child = "none" /\ Op.op = "write" /\ temp' = temp \cup Temp({Op.arg})
    <3>1. PICK n : n = <<run, at[1], Op.arg>>
      OBVIOUS
    <3>2. temp' = temp \cup {n}
      BY <2>2, <3>1 DEF Temp
    <3>3. ~Finished
      BY <2>2 DEF Abort
    <3>4. n \in {0, run} \X Nat \X Kinds
      BY <1>2, <1>7, <2>2, <3>1, <3>3
    <3>5. Accounted(n)'
      <4>1. n[2] = at[1] /\ n[3] = Op.arg
        BY <3>1
      <4>. QED
        BY <1>1, <1>7, <2>2, <3>3, <4>1 DEF Accounted
    <3>. QED
      BY <1>4, <1>6, <3>2, <3>4, <3>5 DEF TempInv
  <2>. QED
    BY <2>1, <2>2 DEF Abort
<1>. QED
  BY <1>1, <1>4, <1>8 DEF TempInv

LEMMA TempRemove ==
  ASSUME FaultInv, PlaceInv, TempInv, Remove PROVE TempInv'
<1>1. /\ Ops' = Ops /\ at' = at /\ run' = run /\ (Finished' <=> Finished)
      /\ defers' = Tail(defers) /\ defers # <<>> /\ Finished
  BY StandStill DEF Remove, Unwinding
<1>2. /\ defers' \in Seq(Calls)
      /\ \A k : Covered(k) =>
           \/ Covered(k)'
           \/ Head(defers).call \in Removals /\ k \in Head(defers).kinds
  BY <1>1, RunCall DEF TempInv
<1>. DEFINE mine == temp \cap Temp(Head(defers).kinds)
<1>3. PICK kept \in SUBSET mine :
        /\ temp' = (temp \ mine) \cup kept
        /\ stuck' = stuck \cup kept
        /\ faults \subseteq faults'
  BY DEF Remove
<1>4. temp' \subseteq temp /\ stuck \subseteq stuck' /\ faults \subseteq faults'
  BY <1>3
<1>5. ASSUME NEW t \in temp' PROVE Accounted(t)'
  <2>1. t \in temp /\ (t \in mine => t \in stuck')
    BY <1>3, <1>5
  <2>2. Accounted(t)
    BY <2>1 DEF TempInv
  <2>3. CASE \/ t[1] # run
             \/ t \in stuck
             \/ t[3] = "profile" /\ "file" \in faults
    BY <1>1, <1>4, <2>3 DEF Accounted
  <2>4. CASE t[1] = run /\ t[2] = at[1] /\ Covered(t[3])
    <3>1. CASE Covered(t[3])'
      BY <1>1, <2>4, <3>1 DEF Accounted
    <3>2. CASE t[3] \in Head(defers).kinds
      <4>1. t = <<t[1], t[2], t[3]>>
        BY <2>1 DEF TempInv
      <4>2. t \in mine
        BY <2>1, <2>4, <3>2, <4>1 DEF Temp
      <4>. QED
        BY <2>1, <4>2 DEF Accounted
    <3>. QED
      BY <1>2, <2>4, <3>1, <3>2
  <2>5. ~ProfileOpen
    BY <1>1, OpenNext
  <2>. QED
    BY <2>2, <2>3, <2>4, <2>5 DEF Accounted
<1>. QED
  BY <1>1, <1>2, <1>4, <1>5 DEF TempInv

LEMMA TempStep ==
  ASSUME FaultInv, PlaceInv, TempInv, [Next]_vars PROVE TempInv'
<1>1. CASE Advance
  BY <1>1, TempAdvance
<1>2. CASE Abort
  BY <1>2, TempAbort
<1>3. CASE /\ UNCHANGED <<request, at, run, temp, stuck, defers>>
           /\ faults \subseteq faults'
  <2>1. Ops' = Ops /\ (Finished' <=> Finished)
    BY <1>3, StandStill
  <2>2. ProfileOpen' = ProfileOpen
    BY <1>3, <2>1 DEF ProfileOpen
  <2>3. \A k : Covered(k)' = Covered(k)
    BY <1>3 DEF Covered
  <2>4. \A t : Accounted(t) => Accounted(t)'
    BY <1>3, <2>2, <2>3 DEF Accounted
  <2>. QED
    BY <1>3, <2>1, <2>3, <2>4 DEF TempInv
<1>4. CASE Wait \/ Expire \/ Edit \/ UNCHANGED vars
  BY <1>3, <1>4 DEF Wait, Expire, Edit, vars
<1>5. CASE Remove
  BY <1>5, TempRemove
<1>6. CASE Compare
  <2>1. /\ Ops' = Ops /\ at' = at /\ (Finished' <=> Finished)
        /\ defers' = Tail(defers) /\ defers # <<>> /\ Finished
        /\ run' = run /\ temp' = temp /\ stuck' = stuck /\ faults \subseteq faults'
        /\ Head(defers).call \notin Removals
    BY <1>6, StandStill DEF Compare, Unwinding, Removals
  <2>2. defers' \in Seq(Calls) /\ \A k : Covered(k) => Covered(k)'
    BY <2>1, RunCall DEF TempInv
  <2>3. ~ProfileOpen
    BY <2>1, OpenNext
  <2>4. \A t : Accounted(t) => Accounted(t)'
    BY <2>1, <2>2, <2>3 DEF Accounted
  <2>. QED
    BY <2>1, <2>2, <2>4 DEF TempInv
<1>7. CASE FrameDone
  <2>1. /\ defers = <<>> /\ Finished /\ UNCHANGED <<defers, run, temp, stuck, faults>>
    BY <1>7 DEF FrameDone
  <2>2. \A k : ~Covered(k)
    BY <2>1, EmptySeq DEF Covered
  <2>3. ~ProfileOpen
    BY <2>1, OpenNext
  <2>4. \A t : Accounted(t) => Accounted(t)'
    BY <2>1, <2>2, <2>3 DEF Accounted
  <2>5. ~Finished' => at'[2] = 1
    BY <1>7, <2>1, StandStill DEF FrameDone
  <2>6. \A j \in 1..(1 - 1) : FALSE
    OBVIOUS
  <2>. QED
    BY <2>1, <2>4, <2>5, <2>6 DEF TempInv
<1>8. CASE Interrupt
  <2>1. /\ temp' = {<<0, 0, t[3]>> : t \in temp} /\ run' = run + 1
        /\ defers' = <<>> /\ at'[2] = 1
    BY <1>8 DEF Interrupt
  <2>2. temp' \subseteq {0, run'} \X Nat \X Kinds
    BY <2>1 DEF TempInv
  <2>3. ASSUME NEW t \in temp' PROVE Accounted(t)'
    <3>1. t[1] = 0 /\ run' # 0
      BY <2>1, GateAssumption DEF FaultInv
    <3>. QED
      BY <3>1 DEF Accounted
  <2>4. \A j \in 1..(1 - 1) : FALSE
    OBVIOUS
  <2>. QED
    BY <2>1, <2>2, <2>3, <2>4, EmptySeq DEF TempInv
<1>. QED
  BY <1>1, <1>2, <1>4, <1>5, <1>6, <1>7, <1>8, OperationSteps
  DEF Next, GateStep, FaultInv

LEMMA TempAlways == Spec => [](FaultInv /\ PlaceInv /\ TempInv)
<1>1. Init => TempInv
  <2>. SUFFICES ASSUME Init PROVE TempInv
    OBVIOUS
  <2>1. temp = {} /\ defers = <<>> /\ at[2] = 1
    BY DEF Init
  <2>2. \A j \in 1..(1 - 1) : FALSE
    OBVIOUS
  <2>. QED
    BY <2>1, <2>2, EmptySeq DEF TempInv
<1>. QED
  BY <1>1, TempStep, PlaceAlways, PTL DEF Spec

\* alternateModfile, checkModule, coverage, releaseRehearsal: a run that
\* returns, after whatever error, timeout or number of interrupted runs before
\* it, leaves no temporary file of its own behind but those it could not
\* remove, and a profile it could not close.
THEOREM TemporaryFilesAreRemoved == Spec => []NothingLeftBehind
<1>1. ASSUME FaultInv, PlaceInv, TempInv PROVE NothingLeftBehind
  <2>. SUFFICES ASSUME exit # "running", NEW t \in temp
                PROVE  \/ t[1] # run \/ t \in stuck
                       \/ t[3] = "profile" /\ "file" \in faults
    BY DEF NothingLeftBehind
  <2>1. defers = <<>> /\ Finished
    BY <1>1 DEF PlaceInv
  <2>2. ~Covered(t[3])
    BY <2>1, EmptySeq DEF Covered
  <2>3. ~ProfileOpen
    BY <1>1, <2>1, OpenNext
  <2>. QED
    BY <1>1, <2>2, <2>3 DEF TempInv, Accounted
<1>. QED
  BY <1>1, TempAlways, PTL

-----------------------------------------------------------------------------
(* Deferred calls, and the boundaries that were tested.                     *)

BoundaryTests == {verifyCompatibilityBoundary(b) : b \in Lines}

LEMMA BoundaryFacts ==
  ASSUME NEW f \in BoundaryTests
  PROVE  /\ Len(f.ops) = 12 /\ f.ops[1].op = "state" /\ f.line \in Lines
         /\ f \in GateFrames
<1>1. PICK b \in Lines : f = verifyCompatibilityBoundary(b)
  BY DEF BoundaryTests
<1>2. Len(f.ops) = 12 /\ f.ops[1] = Do("state", b)
  BY <1>1, VerifyOps
<1>3. f.line = b
  BY <1>1 DEF verifyCompatibilityBoundary
<1>4. f.ops[1].op = "state"
  BY <1>2 DEF Do
<1>5. f \in GateFrames
  BY <1>1 DEF GateFrames, SafeFrames
<1>. QED
  BY <1>2, <1>3, <1>4, <1>5

\* Only these frames take the state of the repository.
LEMMA StateFrame ==
  ASSUME NEW f \in GateFrames, NEW k \in 1..Len(f.ops), f.ops[k].op = "state"
  PROVE  k = 1 /\ f \in BoundaryTests
<1>1. k = 1 /\ f.ops[k].arg = f.line /\ f.ops[k] \in AllOps
  BY FramesFit, ElementOfSeq DEF Fits, FitsAt
<1>2. f.line \in Lines
  BY <1>1 DEF AllOps, PlainOps
<1>3. f.line # "none"
  BY <1>2 DEF Lines
<1>4. f \notin PlainFrames
  BY <1>3 DEF PlainFrames
<1>5. /\ f # checkModule[1] /\ f # coverage[1] /\ f # format(TRUE)[1]
      /\ f # releaseRehearsal[1]
  <2>1. checkModule[1].line = "none" /\ coverage[1].line = "none"
    BY DEF checkModule, coverage, Frame
  <2>2. format(TRUE)[1].line = "none" /\ releaseRehearsal[1].line = "none"
    BY DEF format, releaseRehearsal, Frame
  <2>. QED
    BY <1>3, <2>1, <2>2
<1>6. ASSUME NEW b \in Lines, f = PrepareBoundary(b) PROVE FALSE
  <2>1. f.ops[1] \in PlainOps
    BY <1>6, PrepareOps
  <2>. QED
    BY <1>1, <2>1, PlainKinds
<1>. QED
  BY <1>1, <1>4, <1>5, <1>6 DEF GateFrames, SafeFrames, BoundaryTests

Pending  == \E i \in 1..Len(defers) : defers[i].call = "compare"
Removing == \E i \in 1..Len(defers) : defers[i].call \in Removals

\* The comparison of a boundary is deferred first and so runs last, a frame
\* removes what it created once, and what could not be removed is not tried
\* again.
CallInv ==
  /\ at[2] = 1 => defers = <<>>
  /\ \A i \in 1..Len(defers) : defers[i].call = "compare" => i = Len(defers)
  /\ \A i, j \in 1..Len(defers) :
       defers[i].call \in Removals /\ defers[j].call \in Removals => i = j
  /\ Pending => Frames[at[1]] \in BoundaryTests /\ at[2] > 1
  /\ ~Finished /\ Removing => \E j \in 1..(at[2] - 1) : Cleaner(Ops[j])
  /\ \A t \in stuck :
       /\ t \in temp
       /\ \/ t[2] < at[1]
          \/ t[2] = at[1] /\ Finished /\ ~Removing

LEMMA CallAdvance ==
  ASSUME FaultInv, PlaceInv, TempInv, CallInv, Advance
  PROVE  CallInv' /\ (Op.op # "state" => (Pending' <=> Pending))
<1>1. /\ Frames' = Frames /\ Ops' = Ops /\ at'[1] = at[1] /\ at'[2] = at[2] + 1
      /\ at[2] \in 1..Len(Ops) /\ Op = Ops[at[2]] /\ ~Finished
      /\ stuck' = stuck /\ temp \subseteq temp'
  BY AdvancePlace DEF Op, Advance
<1>2. /\ at[2] \in Nat /\ Len(Ops) \in Nat /\ Fits(Frames[at[1]])
      /\ at[1] \in Nat /\ Frames[at[1]] \in GateFrames
  BY PlaceFacts
<1>3. defers \in Seq(Calls) /\ Len(defers) \in Nat
  BY LenProperties DEF TempInv
<1>4. \A t \in stuck : t \in temp' /\ t[2] < at'[1]
  BY <1>1 DEF CallInv
<1>5. at'[2] # 1 /\ at'[2] > 1
  BY <1>1, <1>2
<1>6. CASE Cleaner(Op)
  <2>1. PICK c \in Calls : defers' = <<c>> \o defers /\ c.call \in Removals
    BY <1>3, <1>6, PushedCall
  <2>2. /\ Len(defers') = Len(defers) + 1 /\ defers'[1] = c
        /\ \A i \in 1..Len(defers') : i = 1 \/ (/\ i - 1 \in 1..Len(defers)
                                                /\ defers'[i] = defers[i - 1])
    BY <1>3, <2>1, DeferCall
  <2>3. ~Removing
    <3>1. \A j, k \in 1..Len(Ops) : Cleaner(Ops[j]) /\ Cleaner(Ops[k]) => j = k
      BY <1>2 DEF Fits, FitsAt, Ops
    <3>2. \A j \in 1..(at[2] - 1) : j \in 1..Len(Ops) /\ j # at[2]
      BY <1>1, <1>2
    <3>. QED
      BY <1>1, <1>6, <3>1, <3>2 DEF CallInv
  <2>4. c.call # "compare"
    BY <2>1 DEF Removals
  <2>5. \A i \in 1..Len(defers') : defers'[i].call = "compare" => i = Len(defers')
    <3>. SUFFICES ASSUME NEW i \in 1..Len(defers'), defers'[i].call = "compare"
                  PROVE  i = Len(defers')
      OBVIOUS
    <3>1. i - 1 \in 1..Len(defers) /\ defers'[i] = defers[i - 1]
      BY <2>2, <2>4
    <3>2. i - 1 = Len(defers)
      BY <3>1 DEF CallInv
    <3>. QED
      BY <1>3, <2>2, <3>2
  <2>6. \A i \in 1..Len(defers') : defers'[i].call \in Removals => i = 1
    BY <2>2, <2>3 DEF Removing
  <2>7. Pending' <=> Pending
    <3>1. Pending' => Pending
      BY <2>2, <2>4 DEF Pending
    <3>2. ASSUME NEW i \in 1..Len(defers)
          PROVE  i + 1 \in 1..Len(defers') /\ defers'[i + 1] = defers[i]
      BY <1>3, <2>2
    <3>. QED
      BY <3>1, <3>2 DEF Pending
  <2>8. at[2] \in 1..(at'[2] - 1)
    BY <1>1, <1>2
  <2>9. Pending' => Frames'[at'[1]] \in BoundaryTests
    BY <1>1, <2>7 DEF CallInv
  <2>10. \E j \in 1..(at'[2] - 1) : Cleaner(Ops'[j])
    BY <1>1, <1>6, <2>8
  <2>. QED
    BY <1>1, <1>4, <1>5, <2>5, <2>6, <2>7, <2>9, <2>10 DEF CallInv
<1>7. CASE Op.op = "state"
  <2>1. at[2] = 1 /\ Frames[at[1]] \in BoundaryTests
    BY <1>1, <1>2, <1>7, StateFrame DEF Ops
  <2>2. defers = <<>>
    BY <2>1 DEF CallInv
  <2>3. [call |-> "compare"] \in Calls
    BY DEF Calls
  <2>4. PICK c \in Calls : c = [call |-> "compare"] /\ defers' = <<c>> \o defers
    BY <1>3, <1>7, <2>3, PushedCall DEF Cleaner
  <2>5. Len(defers') = 1 /\ defers'[1] = c
    BY <1>3, <2>2, <2>4, DeferCall, EmptySeq
  <2>6. c.call = "compare" /\ c.call \notin Removals
    BY <2>4 DEF Removals
  <2>7. ~Removing'
    BY <2>5, <2>6 DEF Removing
  <2>8. \A i \in 1..Len(defers') : i = 1 /\ i = Len(defers')
    BY <2>5
  <2>9. \A i \in 1..Len(defers') : defers'[i].call \notin Removals
    BY <2>5, <2>6, <2>8
  <2>. QED
    BY <1>1, <1>4, <1>5, <1>7, <2>1, <2>7, <2>8, <2>9 DEF CallInv
<1>8. CASE ~Cleaner(Op) /\ Op.op # "state"
  <2>1. defers' = defers
    BY <1>3, <1>8, PushedCall
  <2>2. (Pending' <=> Pending) /\ (Removing' <=> Removing)
    BY <2>1 DEF Pending, Removing
  <2>3. \A j \in 1..(at[2] - 1) : j \in 1..(at'[2] - 1)
    BY <1>1, <1>2
  <2>4. Removing => \E j \in 1..(at'[2] - 1) : Cleaner(Ops'[j])
    BY <1>1, <2>3 DEF CallInv
  <2>. QED
    BY <1>1, <1>4, <1>5, <2>1, <2>2, <2>4 DEF CallInv
<1>. QED
  BY <1>6, <1>7, <1>8 DEF Cleaner

\* A boundary that has taken its state has a comparison to come.
LEMMA PendingNext ==
  ASSUME FaultInv, PlaceInv, TempInv, Advance, Op.op = "state" PROVE Pending'
<1>1. defers \in Seq(Calls) /\ [call |-> "compare"] \in Calls
  BY DEF TempInv, Calls
<1>2. PICK c \in Calls : c = [call |-> "compare"] /\ defers' = <<c>> \o defers
  BY <1>1, PushedCall
<1>3. defers'[1] = c /\ Len(defers') = Len(defers) + 1 /\ Len(defers) \in Nat
  BY <1>1, <1>2, DeferCall, LenProperties
<1>4. 1 \in 1..Len(defers')
  BY <1>3
<1>. QED
  BY <1>2, <1>3, <1>4 DEF Pending

\* A call is run at the end of the frame.
LEMMA CallRun ==
  ASSUME TempInv, CallInv, Finished, defers # <<>>, defers' = Tail(defers),
         UNCHANGED <<request, at>>
  PROVE  /\ \A i \in 1..Len(defers') :
              defers'[i].call = "compare" => i = Len(defers')
         /\ \A i, j \in 1..Len(defers') :
              defers'[i].call \in Removals /\ defers'[j].call \in Removals => i = j
         /\ Pending' => Pending
         /\ Pending /\ Head(defers).call # "compare" => Pending'
         /\ Removing' => Removing
         /\ Head(defers).call \in Removals => Removing /\ ~Removing'
         /\ Head(defers).call = "compare" => defers' = <<>> /\ Pending /\ ~Pending'
<1>1. /\ defers' \in Seq(Calls) /\ Len(defers') = Len(defers) - 1
      /\ Head(defers) = defers[1] /\ Len(defers) \in Nat \ {0}
      /\ \A i \in 1..Len(defers') :
           i + 1 \in 1..Len(defers) /\ defers'[i] = defers[i + 1]
  BY RunCall DEF TempInv
<1>2. 1 \in 1..Len(defers)
  BY <1>1
<1>3. ASSUME NEW i \in 1..Len(defers'), defers'[i].call = "compare"
      PROVE  i = Len(defers')
  <2>1. i + 1 = Len(defers)
    BY <1>1, <1>3 DEF CallInv
  <2>2. Len(defers') = Len(defers) - 1 /\ Len(defers) \in Nat
    BY <1>1
  <2>. QED
    BY <2>1, <2>2
<1>4. ASSUME NEW i \in 1..Len(defers'), NEW j \in 1..Len(defers'),
             defers'[i].call \in Removals, defers'[j].call \in Removals
      PROVE  i = j
  <2>1. i + 1 = j + 1
    BY <1>1, <1>4 DEF CallInv
  <2>. QED
    BY <2>1
<1>5. (Pending' => Pending) /\ (Removing' => Removing)
  BY <1>1 DEF Pending, Removing
<1>6. ASSUME Pending, Head(defers).call # "compare" PROVE Pending'
  <2>1. PICK i \in 1..Len(defers) : defers[i].call = "compare"
    BY <1>6 DEF Pending
  <2>2. i # 1
    BY <1>1, <1>6, <2>1
  <2>3. i - 1 \in 1..Len(defers') /\ (i - 1) + 1 = i
    BY <1>1, <2>2
  <2>4. defers'[i - 1] = defers[i]
    BY <1>1, <2>3
  <2>. QED
    BY <2>1, <2>3, <2>4 DEF Pending
<1>7. ASSUME Head(defers).call \in Removals PROVE Removing /\ ~Removing'
  <2>1. Removing
    BY <1>1, <1>2, <1>7 DEF Removing
  <2>2. ASSUME NEW i \in 1..Len(defers'), defers'[i].call \in Removals
        PROVE  FALSE
    <3>1. i + 1 = 1
      BY <1>1, <1>2, <1>7, <2>2 DEF CallInv
    <3>. QED
      BY <3>1
  <2>. QED
    BY <2>1, <2>2 DEF Removing
<1>8. ASSUME Head(defers).call = "compare"
      PROVE  defers' = <<>> /\ Pending /\ ~Pending'
  <2>1. 1 = Len(defers)
    BY <1>1, <1>2, <1>8 DEF CallInv
  <2>2. Len(defers') = 0
    BY <1>1, <2>1
  <2>3. defers' = <<>>
    BY <1>1, <2>2, EmptySeq
  <2>4. Pending
    BY <1>1, <1>2, <1>8 DEF Pending
  <2>5. \A i \in 1..Len(defers') : FALSE
    BY <2>3, EmptySeq
  <2>. QED
    BY <2>3, <2>4, <2>5 DEF Pending
<1>. QED
  BY <1>3, <1>4, <1>5, <1>6, <1>7, <1>8

LEMMA CallRemove ==
  ASSUME FaultInv, PlaceInv, TempInv, CallInv, Remove
  PROVE  CallInv' /\ (Pending' <=> Pending)
<1>1. /\ Frames' = Frames /\ Ops' = Ops /\ at' = at /\ Finished' /\ Finished
      /\ defers' = Tail(defers) /\ defers # <<>>
      /\ Head(defers).call \in Removals
      /\ UNCHANGED <<request, at, run>>
  BY StandStill DEF Remove, Unwinding, Removals
<1>. DEFINE mine == temp \cap Temp(Head(defers).kinds)
<1>2. PICK kept \in SUBSET mine :
        temp' = (temp \ mine) \cup kept /\ stuck' = stuck \cup kept
  BY DEF Remove
<1>3. /\ \A i \in 1..Len(defers') :
           defers'[i].call = "compare" => i = Len(defers')
      /\ \A i, j \in 1..Len(defers') :
           defers'[i].call \in Removals /\ defers'[j].call \in Removals => i = j
      /\ Pending' => Pending
      /\ Pending /\ Head(defers).call # "compare" => Pending'
      /\ Removing /\ ~Removing'
  BY <1>1, CallRun
<1>4. at[1] \in Nat /\ at[2] # 1
  BY <1>1, PlaceFacts DEF CallInv
<1>5. ASSUME NEW t \in mine PROVE t[2] = at[1]
  BY DEF Temp
<1>6. \A t \in stuck : t \in temp /\ t[2] < at[1]
  BY <1>3 DEF CallInv
<1>7. \A t \in stuck : t \notin mine
  BY <1>4, <1>5, <1>6
<1>8. ASSUME NEW t \in stuck'
      PROVE  t \in temp' /\ (t[2] < at[1] \/ t[2] = at[1])
  BY <1>2, <1>5, <1>6, <1>7
<1>9. Head(defers).call # "compare"
  BY <1>1 DEF Removals
<1>. QED
  BY <1>1, <1>3, <1>4, <1>8, <1>9 DEF CallInv

LEMMA CallStep ==
  ASSUME FaultInv, PlaceInv, TempInv, CallInv, [Next]_vars
  PROVE  CallInv'
<1>1. CASE Advance
  BY <1>1, CallAdvance
<1>2. CASE Abort
  <2>1. /\ Frames' = Frames /\ Ops' = Ops /\ at'[1] = at[1] /\ Finished'
        /\ at'[2] = Len(Ops) + 1 /\ at[2] \in 1..Len(Ops)
    BY <1>2, AbortPlace
  <2>2. defers' = defers /\ stuck' = stuck /\ temp \subseteq temp'
    BY <1>2 DEF Abort
  <2>3. at'[2] > 1 /\ at'[2] # 1 /\ ~Finished
    BY <1>2, <2>1, PlaceFacts DEF Abort, PlaceInv
  <2>4. (Pending' <=> Pending) /\ (Removing' <=> Removing)
    BY <2>2 DEF Pending, Removing
  <2>. QED
    BY <2>1, <2>2, <2>3, <2>4 DEF CallInv
<1>3. CASE UNCHANGED <<request, at, temp, stuck, defers>>
  <2>1. Frames' = Frames /\ Ops' = Ops /\ (Finished' <=> Finished)
    BY <1>3, StandStill
  <2>2. (Pending' <=> Pending) /\ (Removing' <=> Removing)
    BY <1>3 DEF Pending, Removing
  <2>. QED
    BY <1>3, <2>1, <2>2 DEF CallInv
<1>4. CASE Wait \/ Expire \/ Edit \/ UNCHANGED vars
  BY <1>3, <1>4 DEF Wait, Expire, Edit, vars
<1>5. CASE Remove
  BY <1>5, CallRemove
<1>6. CASE Compare
  <2>1. /\ Frames' = Frames /\ Ops' = Ops /\ at' = at /\ Finished' /\ Finished
        /\ defers' = Tail(defers) /\ defers # <<>>
        /\ Head(defers).call = "compare"
        /\ UNCHANGED <<request, at, temp, stuck>>
    BY <1>6, StandStill DEF Compare, Unwinding
  <2>2. defers' = <<>> /\ (Removing' => Removing) /\ ~Pending'
    BY <2>1, CallRun
  <2>3. \A i \in 1..Len(defers') : FALSE
    BY <2>2, EmptySeq
  <2>. QED
    BY <2>1, <2>2, <2>3 DEF CallInv
<1>7. CASE FrameDone
  <2>1. /\ defers = <<>> /\ defers' = <<>> /\ Finished
        /\ UNCHANGED <<request, temp, stuck>> /\ Frames' = Frames
    BY <1>7 DEF FrameDone, Frames
  <2>2. CASE UNCHANGED at
    BY <1>3, <2>1, <2>2
  <2>3. CASE at' = <<at[1] + 1, 1>>
    <3>1. \A i \in 1..Len(defers') : FALSE
      BY <2>1, EmptySeq
    <3>2. ~Pending' /\ ~Removing'
      BY <3>1 DEF Pending, Removing
    <3>3. at[1] \in Nat /\ at'[1] = at[1] + 1
      BY <2>3, PlaceFacts
    <3>4. \A t \in stuck : t \in temp /\ (t[2] < at[1] \/ t[2] = at[1])
      BY DEF CallInv
    <3>5. ASSUME NEW t \in stuck PROVE t[2] < at[1] + 1
      <4>1. t \in {0, run} \X Nat \X Kinds
        BY <3>4 DEF TempInv
      <4>2. t[2] \in Nat
        BY <4>1
      <4>. QED
        BY <3>3, <3>4, <4>2
    <3>. QED
      BY <2>1, <3>1, <3>2, <3>3, <3>4, <3>5 DEF CallInv
  <2>. QED
    BY <1>7, <2>2, <2>3 DEF FrameDone
<1>8. CASE Interrupt
  <2>1. defers' = <<>> /\ stuck' = {}
    BY <1>8 DEF Interrupt
  <2>2. \A i \in 1..Len(defers') : FALSE
    BY <2>1, EmptySeq
  <2>3. ~Pending' /\ ~Removing'
    BY <2>2 DEF Pending, Removing
  <2>. QED
    BY <2>1, <2>2, <2>3 DEF CallInv
<1>. QED
  BY <1>1, <1>2, <1>4, <1>5, <1>6, <1>7, <1>8, OperationSteps
  DEF Next, GateStep, FaultInv

LEMMA CallAlways == Spec => [](FaultInv /\ PlaceInv /\ TempInv /\ CallInv)
<1>1. Init => CallInv
  <2>. SUFFICES ASSUME Init PROVE CallInv
    OBVIOUS
  <2>1. defers = <<>> /\ stuck = {}
    BY DEF Init
  <2>2. \A i \in 1..Len(defers) : FALSE
    BY <2>1, EmptySeq
  <2>3. ~Pending /\ ~Removing
    BY <2>2 DEF Pending, Removing
  <2>. QED
    BY <2>1, <2>2, <2>3 DEF CallInv
<1>. QED
  BY <1>1, CallStep, TempAlways, PTL DEF Spec

-----------------------------------------------------------------------------
(* The boundaries that were tested.                                         *)

\* The gate is past the comparison that ends a boundary.
Done(j) ==
  /\ Frames[j] \in BoundaryTests
  /\ \/ j < at[1]
     \/ j = at[1] /\ at[2] > 1 /\ ~Pending

\* While no frame has failed, the boundaries recorded as tested are those the
\* gate is past, each on a repository that had not changed.
TestedInv ==
  /\ tested \subseteq Lines \X BOOLEAN
  /\ ~failed =>
       \A p : p \in tested <=>
               \E j \in 1..Len(Frames) : Done(j) /\ p = <<Frames[j].line, TRUE>>

LEMMA TestedSame ==
  ASSUME TestedInv, Frames' = Frames, tested' = tested, ~failed' => ~failed,
         ~failed' => \A j \in 1..Len(Frames) : Done(j)' <=> Done(j)
  PROVE  TestedInv'
<1>1. ASSUME ~failed'
      PROVE  \A p : p \in tested' <=> \E j \in 1..Len(Frames') :
                                       Done(j)' /\ p = <<Frames'[j].line, TRUE>>
  <2>1. \A p : p \in tested <=>
               \E j \in 1..Len(Frames) : Done(j) /\ p = <<Frames[j].line, TRUE>>
    BY <1>1 DEF TestedInv
  <2>. QED
    BY <1>1, <2>1
<1>. QED
  BY <1>1 DEF TestedInv

LEMMA TestedStep ==
  ASSUME FaultInv, PlaceInv, TempInv, CallInv, TestedInv, [Next]_vars
  PROVE  TestedInv'
<1>1. CASE Advance
  <2>1. /\ Frames' = Frames /\ at'[1] = at[1] /\ at'[2] = at[2] + 1
        /\ Op = Frames[at[1]].ops[at[2]] /\ at[2] \in 1..Len(Ops)
    BY <1>1, AdvancePlace
  <2>2. at[1] \in Nat /\ at[2] \in Nat /\ Frames[at[1]] \in GateFrames
    BY PlaceFacts
  <2>3. failed' = failed /\ tested' = tested
    BY <1>1 DEF Advance, Pass
  <2>4. CASE Op.op = "state"
    <3>1. at[2] = 1 /\ ~(at[2] > 1)
      BY <2>1, <2>2, <2>4, StateFrame DEF Ops
    <3>2. Pending'
      BY <1>1, <2>4, PendingNext
    <3>3. \A j \in 1..Len(Frames) : Done(j)' <=> Done(j)
      BY <2>1, <3>1, <3>2 DEF Done
    <3>. QED
      BY <2>1, <2>3, <3>3, TestedSame
  <2>5. CASE Op.op # "state"
    <3>1. Pending' <=> Pending
      BY <1>1, <2>5, CallAdvance
    <3>2. Frames[at[1]] \in BoundaryTests => at[2] > 1
      <4>1. Frames[at[1]] \in BoundaryTests => at[2] # 1
        BY <2>1, <2>5, BoundaryFacts
      <4>. QED
        BY <2>1, <2>2, <4>1
    <3>3. at'[2] > 1
      BY <2>1, <2>2
    <3>4. \A j \in 1..Len(Frames) : Done(j)' <=> Done(j)
      BY <2>1, <3>1, <3>2, <3>3 DEF Done
    <3>. QED
      BY <2>1, <2>3, <3>4, TestedSame
  <2>. QED
    BY <2>4, <2>5
<1>2. CASE Abort
  <2>1. Frames' = Frames /\ failed'
    BY <1>2, AbortPlace
  <2>. QED
    BY <1>2, <2>1, TestedSame DEF Abort
<1>3. CASE UNCHANGED <<request, at, defers, tested, failed>>
  <2>1. Frames' = Frames
    BY <1>3, StandStill
  <2>2. Pending' <=> Pending
    BY <1>3 DEF Pending
  <2>3. \A j : Done(j)' <=> Done(j)
    BY <1>3, <2>1, <2>2 DEF Done
  <2>. QED
    BY <1>3, <2>1, <2>3, TestedSame
<1>4. CASE Wait \/ Expire \/ Edit \/ UNCHANGED vars
  BY <1>3, <1>4 DEF Wait, Expire, Edit, vars
<1>5. CASE Remove
  <2>1. Frames' = Frames /\ UNCHANGED <<at, tested>> /\ (~failed' => ~failed)
    BY <1>5 DEF Remove, Frames
  <2>2. Pending' <=> Pending
    BY <1>5, CallRemove
  <2>3. \A j : Done(j)' <=> Done(j)
    BY <2>1, <2>2 DEF Done
  <2>. QED
    BY <2>1, <2>3, TestedSame
<1>6. CASE Compare
  <2>1. /\ Frames' = Frames /\ UNCHANGED <<request, at>> /\ Finished
        /\ defers' = Tail(defers) /\ defers # <<>>
        /\ Head(defers).call = "compare"
    BY <1>6 DEF Compare, Unwinding, Frames
  <2>2. Pending /\ ~Pending'
    BY <2>1, CallRun
  <2>3. Frames[at[1]] \in BoundaryTests /\ at[2] > 1
    BY <2>2 DEF CallInv
  <2>4. Frames[at[1]].line \in Lines
    BY <2>3, BoundaryFacts
  <2>5. ~failed' => ~failed /\ before = compatibilityState
    BY <1>6 DEF Compare
  <2>. DEFINE new == <<Frames[at[1]].line, before = compatibilityState>>
  <2>6. tested' = IF failed' THEN tested ELSE tested \cup {new}
    BY <1>6 DEF Compare
  <2>7. new \in Lines \X BOOLEAN
    BY <2>4
  <2>8. ~failed' => new = <<Frames[at[1]].line, TRUE>>
    BY <2>5
  <2>9. tested' \subseteq Lines \X BOOLEAN
    <3>. HIDE DEF new
    <3>. QED
      BY <2>6, <2>7 DEF TestedInv
  <2>10. /\ at[1] \in 1..Len(Frames) /\ at[1] \in Nat
         /\ \A j \in 1..Len(Frames) : Done(j)' <=> Done(j) \/ j = at[1]
    BY <2>1, <2>2, <2>3, PlaceFacts DEF Done, PlaceInv
  <2>11. ASSUME ~failed'
         PROVE  \A p : p \in tested' <=>
                        \E j \in 1..Len(Frames') :
                          Done(j)' /\ p = <<Frames'[j].line, TRUE>>
    <3>. HIDE DEF new
    <3>1. \A p : p \in tested <=>
                 \E j \in 1..Len(Frames) : Done(j) /\ p = <<Frames[j].line, TRUE>>
      BY <2>5, <2>11 DEF TestedInv
    <3>2. \A p : p \in tested' <=> p \in tested \/ p = <<Frames[at[1]].line, TRUE>>
      BY <2>6, <2>8, <2>11
    <3>. QED
      BY <2>1, <2>10, <3>1, <3>2
  <2>. QED
    BY <2>9, <2>11 DEF TestedInv
<1>7. CASE FrameDone
  <2>1. /\ defers = <<>> /\ defers' = <<>> /\ Finished /\ Frames' = Frames
        /\ UNCHANGED <<request, tested, failed>>
    BY <1>7 DEF FrameDone, Frames
  <2>2. CASE UNCHANGED at
    BY <1>3, <2>1, <2>2
  <2>3. CASE at' = <<at[1] + 1, 1>>
    <3>1. ~Pending /\ at'[1] = at[1] + 1 /\ ~(at'[2] > 1) /\ at[1] \in Nat
      BY <2>1, <2>3, EmptySeq, PlaceFacts DEF Pending
    <3>2. Frames[at[1]] \in BoundaryTests => at[2] > 1
      BY <2>1, BoundaryFacts, PlaceFacts DEF Ops
    <3>3. ASSUME NEW j \in 1..Len(Frames) PROVE Done(j)' <=> Done(j)
      <4>1. j < at'[1] <=> (j < at[1] \/ j = at[1])
        BY <3>1
      <4>. QED
        BY <2>1, <3>1, <3>2, <4>1 DEF Done
    <3>. QED
      BY <2>1, <3>3, TestedSame
  <2>. QED
    BY <1>7, <2>2, <2>3 DEF FrameDone
<1>8. CASE Interrupt
  <2>1. tested' = {} /\ at'[1] = 1 /\ at'[2] = 1
    BY <1>8 DEF Interrupt
  <2>2. \A j \in 1..Len(Frames') : ~Done(j)'
    BY <2>1 DEF Done
  <2>. QED
    BY <2>1, <2>2 DEF TestedInv
<1>. QED
  BY <1>1, <1>2, <1>4, <1>5, <1>6, <1>7, <1>8, OperationSteps
  DEF Next, GateStep, FaultInv

LEMMA TestedAlways ==
  Spec => [](FaultInv /\ PlaceInv /\ TempInv /\ CallInv /\ TestedInv)
<1>1. Init => TestedInv
  <2>. SUFFICES ASSUME Init PROVE TestedInv
    OBVIOUS
  <2>1. tested = {} /\ at[1] = 1 /\ at[2] = 1
    BY DEF Init
  <2>2. \A j \in 1..Len(Frames) : ~Done(j)
    BY <2>1 DEF Done
  <2>. QED
    BY <2>1, <2>2 DEF TestedInv
<1>. QED
  BY <1>1, TestedStep, CallAlways, PTL DEF Spec

\* A frame is one of a program's.
Occurs(f, s) == \E j \in 1..Len(s) : s[j] = f

LEMMA OccursConcat ==
  ASSUME NEW f
  PROVE  \A s, t \in Seq(GateFrames) :
           Occurs(f, s \o t) <=> Occurs(f, s) \/ Occurs(f, t)
<1>. TAKE s \in Seq(GateFrames), t \in Seq(GateFrames)
<1>. DEFINE c == s \o t
<1>1. /\ Len(c) = Len(s) + Len(t) /\ Len(s) \in Nat /\ Len(t) \in Nat
      /\ \A i \in 1 .. Len(s) + Len(t) :
           c[i] = IF i <= Len(s) THEN s[i] ELSE t[i - Len(s)]
  BY ConcatProperties, LenProperties
<1>. HIDE DEF c
<1>2. ASSUME NEW i \in 1..Len(s) PROVE i \in 1..Len(c) /\ c[i] = s[i]
  BY <1>1
<1>3. ASSUME NEW i \in 1..Len(t)
      PROVE  Len(s) + i \in 1..Len(c) /\ c[Len(s) + i] = t[i]
  <2>1. /\ Len(s) + i \in 1 .. Len(s) + Len(t) /\ ~(Len(s) + i <= Len(s))
        /\ (Len(s) + i) - Len(s) = i
    BY <1>1
  <2>. QED
    BY <1>1, <2>1
<1>4. ASSUME NEW i \in 1..Len(c)
      PROVE  \/ i \in 1..Len(s) /\ c[i] = s[i]
             \/ i - Len(s) \in 1..Len(t) /\ c[i] = t[i - Len(s)]
  BY <1>1
<1>5. Occurs(f, c) <=> Occurs(f, s) \/ Occurs(f, t)
  BY <1>2, <1>3, <1>4 DEF Occurs
<1>. QED
  BY <1>5 DEF c

OtherFrames == GateFrames \ BoundaryTests

LEMMA OtherSteps ==
  /\ start \in Seq(OtherFrames) /\ checkIdentity \in Seq(OtherFrames)
  /\ prepareDependencies \in Seq(OtherFrames)
  /\ format(FALSE) \in Seq(OtherFrames) /\ checkModule \in Seq(OtherFrames)
  /\ vet \in Seq(OtherFrames) /\ lint \in Seq(OtherFrames)
  /\ security \in Seq(OtherFrames) /\ tests \in Seq(OtherFrames)
  /\ coverage \in Seq(OtherFrames) /\ offline \in Seq(OtherFrames)
  /\ requireReleaseTool \in Seq(OtherFrames)
  /\ format(TRUE) \in Seq(OtherFrames) /\ releaseRehearsal \in Seq(OtherFrames)
  /\ \A l \in LineFlags :
       prepareCompatibilityDependencies(l) \in Seq(OtherFrames)
<1>1. \A f \in BoundaryTests : f.line # "none"
  BY BoundaryFacts DEF Lines
<1>2. PlainFrames \subseteq OtherFrames
  <2>1. \A f \in PlainFrames : f.line = "none"
    BY DEF PlainFrames
  <2>. QED
    BY <1>1, <2>1 DEF OtherFrames, GateFrames, SafeFrames
<1>3. checkModule \in Seq(OtherFrames) /\ coverage \in Seq(OtherFrames)
  <2>1. checkModule = <<checkModule[1]>> /\ checkModule[1].line = "none"
    BY DEF checkModule, Frame
  <2>2. coverage = <<coverage[1]>> /\ coverage[1].line = "none"
    BY DEF coverage, Frame
  <2>3. checkModule[1] \in OtherFrames /\ coverage[1] \in OtherFrames
    BY <1>1, <2>1, <2>2 DEF OtherFrames, GateFrames, SafeFrames
  <2>. QED
    BY <2>1, <2>2, <2>3, Tuples
<1>4. format(TRUE) \in Seq(OtherFrames) /\ releaseRehearsal \in Seq(OtherFrames)
  <2>1. format(TRUE) = <<format(TRUE)[1]>> /\ format(TRUE)[1].line = "none"
    BY DEF format, Frame
  <2>2. /\ releaseRehearsal = <<releaseRehearsal[1]>>
        /\ releaseRehearsal[1].line = "none"
    BY DEF releaseRehearsal, Frame
  <2>3. format(TRUE)[1] \in OtherFrames /\ releaseRehearsal[1] \in OtherFrames
    BY <1>1, <2>1, <2>2 DEF OtherFrames, GateFrames
  <2>. QED
    BY <2>1, <2>2, <2>3, Tuples
<1>5. ASSUME NEW b \in Lines PROVE PrepareBoundary(b) \in OtherFrames
  <2>1. PrepareBoundary(b).ops[1] \in PlainOps
    BY PrepareOps
  <2>2. PrepareBoundary(b).ops[1].op # "state"
    BY <2>1, PlainKinds
  <2>3. PrepareBoundary(b) \notin BoundaryTests
    BY <2>2, BoundaryFacts
  <2>. QED
    BY <2>3 DEF OtherFrames, GateFrames, SafeFrames
<1>6. ASSUME NEW l \in LineFlags
      PROVE  prepareCompatibilityDependencies(l) \in Seq(OtherFrames)
  <2>1. [b \in Lines |-> PrepareBoundary(b)] \in [Lines -> OtherFrames]
    BY <1>5
  <2>. QED
    BY <1>2, <2>1, BoundaryFrames DEF prepareCompatibilityDependencies
<1>7. \A s \in Seq(PlainFrames) : s \in Seq(OtherFrames)
  BY <1>2
<1>. QED
  BY <1>3, <1>4, <1>6, <1>7, PlainSteps

LEMMA OtherConcat ==
  /\ \A s \in Seq(OtherFrames) : s \in Seq(GateFrames)
  /\ \A s \in Seq(OtherFrames) : \A f \in BoundaryTests : ~Occurs(f, s)
<1>1. OtherFrames \subseteq GateFrames
  BY DEF OtherFrames
<1>2. ASSUME NEW s \in Seq(OtherFrames), NEW f \in BoundaryTests, Occurs(f, s)
      PROVE  FALSE
  <2>1. \A j \in 1..Len(s) : s[j] \in OtherFrames
    BY ElementOfSeq
  <2>. QED
    BY <1>2, <2>1 DEF Occurs, OtherFrames
<1>. QED
  BY <1>1, <1>2, SeqSubset

\* coreCompatibility checks the line it is given, and tests what it says.
LEMMA CoreFrames ==
  ASSUME NEW line \in LineFlags
  PROVE  /\ coreCompatibility(line) \in Seq(GateFrames)
         /\ \A b \in Lines :
              Occurs(verifyCompatibilityBoundary(b), coreCompatibility(line))
                <=> line \in {b, "all"}
         /\ \E f : /\ Occurs(f, coreCompatibility(line)) /\ Len(f.ops) = 3
                   /\ f.ops[3] = Do("check", <<"line", line>>)
<1>. DEFINE frame == [b \in Lines |-> verifyCompatibilityBoundary(b)]
            s == coreCompatibility(line)
            lines == boundaries(line)
            n == Len(lines)
<1>1. PlainFrames \subseteq GateFrames /\ frame \in [Lines -> GateFrames]
  BY DEF GateFrames, SafeFrames
<1>. HIDE DEF frame
<1>2. /\ s \in Seq(GateFrames) /\ Len(s) = 1 + n /\ n \in Nat
      /\ s[1] \in PlainFrames
      /\ Len(s[1].ops) = 3
      /\ s[1].ops[3] = Do("check", <<"line", line>>)
      /\ \A i \in 1..n : s[1 + i] = frame[lines[i]]
  BY <1>1, BoundaryFrames DEF coreCompatibility, frame
<1>3. lines \in Seq(Lines)
  BY BoundaryLines
<1>4. \A b \in Lines : line \in {b, "all"} <=> \E i \in 1..n : lines[i] = b
  <2>1. CASE line = "minimum"
    <3>1. n = 1 /\ lines[1] = "minimum"
      BY <2>1 DEF boundaries
    <3>. HIDE DEF n, lines
    <3>. QED
      BY <2>1, <3>1 DEF Lines
  <2>2. CASE line = "current"
    <3>1. n = 1 /\ lines[1] = "current"
      BY <2>2 DEF boundaries
    <3>. HIDE DEF n, lines
    <3>. QED
      BY <2>2, <3>1 DEF Lines
  <2>3. CASE line = "all"
    <3>1. n = 2 /\ lines[1] = "minimum" /\ lines[2] = "current"
      BY <2>3 DEF boundaries
    <3>. HIDE DEF n, lines
    <3>2. 1 \in 1..n /\ 2 \in 1..n
      BY <3>1
    <3>. QED
      BY <2>3, <3>1, <3>2 DEF Lines
  <2>4. CASE line = "unknown"
    <3>1. n = 0
      BY <2>4 DEF boundaries
    <3>. HIDE DEF n, lines
    <3>. QED
      BY <2>4, <3>1 DEF Lines
  <2>. QED
    BY <2>1, <2>2, <2>3, <2>4 DEF LineFlags
<1>. HIDE DEF s, lines, n
<1>5. \A i \in 1..n : lines[i] \in Lines
  BY <1>3, ElementOfSeq DEF n
<1>6. s[1].line = "none"
  BY <1>2 DEF PlainFrames
<1>7. \A b, c \in Lines : /\ frame[b] = verifyCompatibilityBoundary(b)
                         /\ frame[b].line = b /\ (frame[b] = frame[c] => b = c)
                         /\ frame[b].line # "none"
  BY DEF frame, verifyCompatibilityBoundary, Lines
<1>8. ASSUME NEW b \in Lines
      PROVE  Occurs(frame[b], s) <=> \E i \in 1..n : lines[i] = b
  <2>1. ASSUME NEW j \in 1..Len(s), s[j] = frame[b]
        PROVE  \E i \in 1..n : lines[i] = b
    <3>1. j # 1
      BY <1>6, <1>7, <2>1
    <3>2. j - 1 \in 1..n /\ 1 + (j - 1) = j
      BY <1>2, <3>1
    <3>3. s[j] = frame[lines[j - 1]]
      BY <1>2, <3>2
    <3>. QED
      BY <1>5, <1>7, <2>1, <3>2, <3>3
  <2>2. ASSUME NEW i \in 1..n, lines[i] = b PROVE Occurs(frame[b], s)
    <3>1. 1 + i \in 1..Len(s)
      BY <1>2
    <3>. QED
      BY <1>2, <2>2, <3>1 DEF Occurs
  <2>. QED
    BY <2>1, <2>2 DEF Occurs
<1>9. Occurs(s[1], s)
  <2>1. 1 \in 1..Len(s)
    BY <1>2
  <2>. QED
    BY <2>1 DEF Occurs
<1>. QED
  BY <1>2, <1>4, <1>7, <1>8, <1>9 DEF s

\* The boundaries a mode tests.
LEMMA ModeBoundaries ==
  ASSUME NEW mode \in ModeFlags, NEW line \in LineFlags
  PROVE  /\ \A b \in Lines :
              Occurs(verifyCompatibilityBoundary(b), Program(mode, line))
                <=> \/ mode \in {"verify", "verify-release"}
                    \/ mode = "compatibility" /\ line \in {b, "all"}
         /\ mode = "compatibility" =>
              \E f : /\ Occurs(f, Program(mode, line)) /\ Len(f.ops) = 3
                    /\ f.ops[3] = Do("check", <<"line", line>>)
<1>. DEFINE t == Steps(mode, line)
            v(b) == verifyCompatibilityBoundary(b)
            Asked(b) == \/ mode \in {"verify", "verify-release"}
                        \/ mode = "compatibility" /\ line \in {b, "all"}
            LineCheck(f) == /\ Len(f.ops) = 3
                            /\ f.ops[3] = Do("check", <<"line", line>>)
            Right == /\ t \in Seq(GateFrames)
                     /\ \A b \in Lines : Occurs(v(b), t) <=> Asked(b)
                     /\ mode = "compatibility" =>
                          \E f : Occurs(f, t) /\ LineCheck(f)
<1>1. /\ \A b \in Lines : v(b) \in BoundaryTests
      /\ \A s, u \in Seq(OtherFrames) : s \o u \in Seq(OtherFrames)
      /\ \A s, u \in Seq(GateFrames) : s \o u \in Seq(GateFrames)
      /\ \A s, u \in Seq(GateFrames) : \A f :
           Occurs(f, s \o u) <=> Occurs(f, s) \/ Occurs(f, u)
  BY SeqConcat, OccursConcat DEF BoundaryTests
<1>2. /\ \A s \in Seq(OtherFrames) : s \in Seq(GateFrames)
      /\ \A s \in Seq(OtherFrames) : \A b \in Lines : ~Occurs(v(b), s)
  BY <1>1, OtherConcat
<1>. HIDE DEF v
<1>3. ASSUME t \in Seq(OtherFrames),
             mode \notin {"verify", "verify-release", "compatibility"}
      PROVE  Right
  BY <1>2, <1>3
<1>4. ASSUME mode = "check" PROVE Right
  <2>1. checkIdentity \o prepareDependencies \o format(FALSE) \o checkModule
          \o vet \in Seq(OtherFrames)
    BY <1>1, OtherSteps
  <2>. QED
    BY <1>3, <1>4, <2>1, StepsOfModes
<1>5. ASSUME mode = "compatibility" PROVE Right
  <2>. DEFINE p == checkIdentity \o prepareCompatibilityDependencies(line)
  <2>1. p \in Seq(OtherFrames) /\ t = p \o coreCompatibility(line)
    BY <1>1, <1>5, OtherSteps, StepsOfModes
  <2>. HIDE DEF p, t
  <2>2. /\ coreCompatibility(line) \in Seq(GateFrames)
        /\ \A b \in Lines : Occurs(v(b), coreCompatibility(line))
                             <=> line \in {b, "all"}
        /\ \E f : Occurs(f, coreCompatibility(line)) /\ LineCheck(f)
    BY CoreFrames DEF v
  <2>. HIDE DEF LineCheck
  <2>3. t \in Seq(GateFrames)
    BY <1>1, <1>2, <2>1, <2>2
  <2>4. \A f : Occurs(f, t) <=> Occurs(f, p) \/ Occurs(f, coreCompatibility(line))
    BY <1>1, <1>2, <2>1, <2>2
  <2>. QED
    BY <1>2, <1>5, <2>1, <2>2, <2>3, <2>4
<1>6. ASSUME mode = "fmt" PROVE Right
  BY <1>3, <1>6, OtherSteps, StepsOfModes
<1>7. ASSUME mode = "release-rehearsal" PROVE Right
  BY <1>1, <1>3, <1>7, OtherSteps, StepsOfModes
<1>8. ASSUME mode \in {"verify", "verify-release"} PROVE Right
  <2>. DEFINE p == checkIdentity \o prepareDependencies
                     \o prepareCompatibilityDependencies("all") \o format(FALSE)
                     \o checkModule \o vet \o lint \o security \o tests \o coverage
              c == coreCompatibility("all")
              z == IF mode = "verify" THEN <<>> ELSE releaseRehearsal
  <2>0. "all" \in LineFlags
    BY DEF LineFlags
  <2>1. p \in Seq(OtherFrames)
    BY <1>1, <2>0, OtherSteps
  <2>2. z \in Seq(OtherFrames)
    BY OtherSteps, EmptySeq
  <2>3. t = ((p \o c) \o offline) \o z
    BY <1>8, StepsOfModes DEF Verification
  <2>4. c \in Seq(GateFrames) /\ \A b \in Lines : Occurs(v(b), c)
    BY <2>0, CoreFrames DEF v
  <2>. HIDE DEF p, c, z, t
  <2>5. /\ p \in Seq(GateFrames) /\ z \in Seq(GateFrames)
        /\ offline \in Seq(GateFrames)
    BY <1>2, <2>1, <2>2, OtherSteps
  <2>6. /\ p \o c \in Seq(GateFrames) /\ (p \o c) \o offline \in Seq(GateFrames)
        /\ t \in Seq(GateFrames)
    BY <1>1, <2>3, <2>4, <2>5
  <2>7. \A f : Occurs(f, c) => Occurs(f, t)
    BY <1>1, <2>3, <2>4, <2>5, <2>6
  <2>. QED
    BY <1>8, <2>4, <2>6, <2>7
<1>9. ASSUME mode = "unknown" PROVE Right
  BY <1>3, <1>9, EmptySeq, StepsOfModes
<1>10. Right
  BY <1>4, <1>5, <1>6, <1>7, <1>8, <1>9 DEF ModeFlags, Modes
<1>. HIDE DEF t, Asked, LineCheck
<1>11. Program(mode, line) = (start \o t) \o requireReleaseTool
  BY DEF Program, t
<1>12. /\ start \in Seq(OtherFrames) /\ requireReleaseTool \in Seq(OtherFrames)
       /\ start \in Seq(GateFrames) /\ requireReleaseTool \in Seq(GateFrames)
  BY <1>2, OtherSteps
<1>13. \A f : Occurs(f, Program(mode, line)) <=>
                \/ Occurs(f, start) \/ Occurs(f, t) \/ Occurs(f, requireReleaseTool)
  <2>1. t \in Seq(GateFrames)
    BY <1>10
  <2>2. start \o t \in Seq(GateFrames)
    BY <1>1, <1>12, <2>1
  <2>3. \A f : Occurs(f, start \o t) <=> Occurs(f, start) \/ Occurs(f, t)
    BY <1>1, <1>12, <2>1
  <2>. DEFINE a == start \o t
  <2>4. a \in Seq(GateFrames) /\ \A f : Occurs(f, a) <=> Occurs(f, start) \/ Occurs(f, t)
    BY <2>2, <2>3
  <2>5. Program(mode, line) = a \o requireReleaseTool
    BY <1>11
  <2>. HIDE DEF a
  <2>. QED
    BY <1>1, <1>12, <2>4, <2>5
<1>14. \A b \in Lines : Occurs(v(b), Program(mode, line)) <=> Asked(b)
  BY <1>2, <1>10, <1>12, <1>13
<1>15. mode = "compatibility" =>
         \E f : Occurs(f, Program(mode, line)) /\ LineCheck(f)
  BY <1>10, <1>13
<1>. QED
  BY <1>14, <1>15 DEF v, Asked, LineCheck

\* README.md, compatibilityVersions.boundaries, verifyCompatibilityBoundary:
\* the gate ends with 0 only after each line the mode and the -line flag stand
\* for was tested, on a repository that was the same before and after, and
\* after nothing else was recorded.
THEOREM LinesAreProved == Spec => []GateProves
<1>1. ASSUME FaultInv, PlaceInv, PassedInv, CallInv, TestedInv PROVE GateProves
  <2>. DEFINE v(b) == verifyCompatibilityBoundary(b)
              mode == request.mode
              line == request.line
              Asked(b) == \/ mode \in {"verify", "verify-release"}
                          \/ mode = "compatibility" /\ line \in {b, "all"}
              asked == CASE mode \in {"verify", "verify-release"} ->
                              {"minimum", "current"}
                         [] mode = "compatibility" /\ line = "all" ->
                              {"minimum", "current"}
                         [] mode = "compatibility" /\ line # "all" -> {line}
                         [] OTHER -> {}
  <2>. SUFFICES ASSUME exit = "0" PROVE tested = {<<l, TRUE>> : l \in asked}
    BY DEF GateProves
  <2>1. /\ mode \in ModeFlags /\ line \in LineFlags
        /\ Frames = Program(mode, line)
    BY <1>1, RequestAssumption DEF FaultInv, Frames, Programs
  <2>2. ~failed /\ at[1] = Len(Frames) /\ defers = <<>> /\ Len(Frames) \in Nat
        /\ Frames[Len(Frames)] = requireReleaseTool[1]
    BY <1>1, PlaceFacts DEF FaultInv, PlaceInv, Shape
  <2>3. requireReleaseTool[1] \notin BoundaryTests
    <3>1. requireReleaseTool[1].line = "none"
      BY DEF requireReleaseTool, Frame
    <3>. QED
      BY <3>1, BoundaryFacts DEF Lines
  <2>4. \A j \in 1..Len(Frames) : Done(j) <=> Frames[j] \in BoundaryTests
    <3>1. \A j \in 1..Len(Frames) : j < at[1] \/ j = Len(Frames)
      BY <2>2
    <3>. QED
      BY <2>2, <2>3, <3>1 DEF Done
  <2>5. \A p : p \in tested <=>
               \E j \in 1..Len(Frames) : Done(j) /\ p = <<Frames[j].line, TRUE>>
    BY <1>1, <2>2 DEF TestedInv
  <2>6. \A b \in Lines : v(b) \in BoundaryTests /\ v(b).line = b
    BY DEF BoundaryTests, verifyCompatibilityBoundary
  <2>7. \A f \in BoundaryTests : \E b \in Lines : f = v(b)
    BY DEF BoundaryTests
  <2>8. \A b \in Lines : Occurs(v(b), Frames) <=> Asked(b)
    BY <2>1, ModeBoundaries
  <2>. HIDE DEF v, Asked, mode, line
  <2>9. \A p : p \in tested <=> \E b \in Lines : Asked(b) /\ p = <<b, TRUE>>
    <3>1. ASSUME NEW p \in tested PROVE \E b \in Lines : Asked(b) /\ p = <<b, TRUE>>
      <4>1. PICK j \in 1..Len(Frames) : Done(j) /\ p = <<Frames[j].line, TRUE>>
        BY <2>5
      <4>2. PICK b \in Lines : Frames[j] = v(b)
        BY <2>4, <2>7, <4>1
      <4>3. Asked(b)
        BY <2>8, <4>2 DEF Occurs
      <4>. QED
        BY <2>6, <4>1, <4>2, <4>3
    <3>2. ASSUME NEW b \in Lines, Asked(b) PROVE <<b, TRUE>> \in tested
      <4>1. PICK j \in 1..Len(Frames) : Frames[j] = v(b)
        BY <2>8, <3>2 DEF Occurs
      <4>2. Done(j) /\ Frames[j].line = b
        BY <2>4, <2>6, <4>1
      <4>. QED
        BY <2>5, <4>2
    <3>. QED
      BY <3>1, <3>2
  <2>10. mode = "compatibility" => line \in {"minimum", "current", "all"}
    <3>. SUFFICES ASSUME mode = "compatibility"
                  PROVE  line \in {"minimum", "current", "all"}
      OBVIOUS
    <3>1. PICK f : /\ Occurs(f, Frames) /\ Len(f.ops) = 3
                   /\ f.ops[3] = Do("check", <<"line", line>>)
      BY <2>1, ModeBoundaries DEF mode, line
    <3>2. PICK i \in 1..Len(Frames) : Frames[i] = f
      BY <3>1 DEF Occurs
    <3>3. \A k \in 1..Len(Frames[i].ops) :
            Frames[i].ops[k].op = "check"
              => Holds(Frames[i].ops[k].arg, request, output)
      BY <1>1, AllPassed
    <3>4. 3 \in 1..Len(Frames[i].ops)
      BY <3>1, <3>2
    <3>5. /\ Frames[i].ops[3].op = "check"
          /\ Frames[i].ops[3].arg = <<"line", line>>
      BY <3>1, <3>2 DEF Do
    <3>6. Holds(<<"line", line>>, request, output)
      BY <3>3, <3>4, <3>5
    <3>. QED
      BY <3>6 DEF Holds, ValidLine
  <2>11. \A b : b \in asked <=> b \in Lines /\ Asked(b)
    <3>1. CASE mode \in {"verify", "verify-release"}
      BY <3>1 DEF Asked, Lines
    <3>2. CASE mode = "compatibility" /\ line = "all"
      BY <3>2 DEF Asked, Lines
    <3>3. CASE mode = "compatibility" /\ line # "all"
      BY <2>10, <3>3 DEF Asked, Lines
    <3>4. CASE mode \notin {"verify", "verify-release", "compatibility"}
      BY <3>4 DEF Asked
    <3>. QED
      BY <3>1, <3>2, <3>3, <3>4
  <2>. HIDE DEF asked
  <2>. QED
    BY <2>9, <2>11
<1>. QED
  BY <1>1, PassedAlways, TestedAlways, PTL

-----------------------------------------------------------------------------
(* Types and bounds.                                                        *)

\* What is rendered and rewritten is counted by the place: the rehearsal, next
\* to last, renders twice, and the formatter, second and alone, rewrites twice.
CountInv ==
  /\ cache \subseteq ModuleGraphs
  /\ at[1] < Len(Frames) - 1 => Len(output) = 0
  /\ at[1] = Len(Frames) - 1 /\ at[2] <= 5 => Len(output) = 0
  /\ at[1] = Len(Frames) - 1 /\ at[2] <= 6 => Len(output) <= 1
  /\ Len(output) <= 2
  /\ at[1] = 1 => edits <= MaxEdits
  /\ at[1] = 2 /\ at[2] <= 3 => edits <= MaxEdits
  /\ at[1] = 2 /\ at[2] <= 5 => edits <= MaxEdits + 1
  /\ edits <= MaxEdits + 2

LEMMA CountAdvance ==
  ASSUME FaultInv, PlaceInv, PassedInv, CountInv, Advance
  PROVE  CountInv'
<1>1. /\ Frames' = Frames /\ at'[1] = at[1] /\ at'[2] = at[2] + 1
      /\ Op \in AllOps /\ Op = Frames[at[1]].ops[at[2]]
      /\ at[2] \in 1..Len(Frames[at[1]].ops) /\ at[1] \in 1..Len(Frames)
  BY AdvancePlace DEF Ops, PlaceInv
<1>2. /\ at[1] \in Nat /\ at[2] \in Nat /\ Len(Frames) \in Nat /\ Shape(Frames)
      /\ edits \in Nat /\ MaxEdits \in Nat
  BY PlaceFacts, GateAssumption DEF FaultInv
<1>3. output \in Seq(Renders) /\ Len(output) \in Nat
  BY LenProperties DEF PassedInv
<1>4. cache' \subseteq ModuleGraphs
  <2>1. Op.op \in Online => Op.arg \subseteq ModuleGraphs
    BY <1>1 DEF AllOps, PlainOps, Online
  <2>. QED
    BY <2>1 DEF CountInv, Advance
<1>5. /\ at[1] < Len(Frames) - 1 => Len(output') = 0
      /\ at[1] = Len(Frames) - 1 /\ at[2] + 1 <= 5 => Len(output') = 0
      /\ at[1] = Len(Frames) - 1 /\ at[2] + 1 <= 6 => Len(output') <= 1
      /\ Len(output') <= 2
  <2>1. CASE Op.op = "render"
    <3>1. at[1] = Len(Frames) - 1 /\ at[2] \in {5, 6}
      BY <1>1, <1>2, <2>1, RenderPlace
    <3>2. PICK r \in Renders : output' = Append(output, r)
      BY <2>1 DEF Advance
    <3>3. Len(output') = Len(output) + 1
      BY <1>3, <3>2, AppendProperties
    <3>. QED
      BY <1>2, <1>3, <3>1, <3>3 DEF CountInv
  <2>2. CASE Op.op # "render"
    <3>1. output' = output
      BY <2>2 DEF Advance
    <3>. QED
      BY <1>2, <1>3, <3>1 DEF CountInv
  <2>. QED
    BY <2>1, <2>2
<1>6. /\ at[1] = 1 => edits' <= MaxEdits
      /\ at[1] = 2 /\ at[2] + 1 <= 3 => edits' <= MaxEdits
      /\ at[1] = 2 /\ at[2] + 1 <= 5 => edits' <= MaxEdits + 1
      /\ edits' <= MaxEdits + 2
  <2>1. CASE Op.op = "rewrite"
    <3>1. at[1] = 2 /\ at[2] \in {3, 5}
      BY <1>1, <1>2, <2>1, RewritePlace
    <3>2. edits' = edits + 1
      BY <2>1 DEF Advance
    <3>. QED
      BY <1>2, <3>1, <3>2 DEF CountInv
  <2>2. CASE Op.op # "rewrite"
    <3>1. edits' = edits
      BY <2>2 DEF Advance
    <3>. QED
      BY <1>2, <3>1 DEF CountInv
  <2>. QED
    BY <2>1, <2>2
<1>. QED
  BY <1>1, <1>4, <1>5, <1>6 DEF CountInv

LEMMA CountStep ==
  ASSUME FaultInv, PlaceInv, PassedInv, CountInv, [Next]_vars
  PROVE  CountInv'
<1>0. /\ at[1] \in Nat /\ at[2] \in Nat /\ Len(Frames) \in Nat
      /\ edits \in Nat /\ MaxEdits \in Nat /\ Len(Frames) >= 2
  BY PlaceFacts, GateAssumption DEF FaultInv, Shape
<1>1. CASE Advance
  BY <1>1, CountAdvance
<1>2. CASE Abort
  <2>1. /\ Frames' = Frames /\ at'[1] = at[1] /\ at'[2] = Len(Ops) + 1
        /\ at[2] \in 1..Len(Ops)
    BY <1>2, AbortPlace
  <2>2. UNCHANGED <<cache, output, edits>>
    BY <1>2 DEF Abort
  <2>3. at'[2] > at[2] /\ Len(Ops) \in Nat
    BY <2>1, PlaceFacts
  <2>4. /\ at'[2] <= 5 => at[2] <= 5
        /\ at'[2] <= 6 => at[2] <= 6
        /\ at'[2] <= 3 => at[2] <= 3
    BY <1>0, <2>1, <2>3
  <2>. QED
    BY <2>1, <2>2, <2>4 DEF CountInv
<1>3. CASE UNCHANGED <<request, cache, at, output, edits>>
  <2>1. Frames' = Frames
    BY <1>3, StandStill
  <2>. QED
    BY <1>3, <2>1 DEF CountInv
<1>4. CASE Wait \/ Remove \/ Compare \/ Expire \/ UNCHANGED vars
  BY <1>3, <1>4 DEF Wait, Remove, Compare, Expire, vars
<1>5. CASE Edit
  <2>1. Frames' = Frames /\ UNCHANGED <<cache, at, output>>
        /\ edits' = edits + 1 /\ edits < MaxEdits
    BY <1>5 DEF Edit, Frames
  <2>. QED
    BY <1>0, <2>1 DEF CountInv
<1>6. CASE FrameDone
  <2>1. CASE UNCHANGED at
    BY <1>3, <1>6, <2>1 DEF FrameDone
  <2>2. CASE at[1] < Len(Frames) /\ at' = <<at[1] + 1, 1>>
    <3>1. Frames' = Frames /\ UNCHANGED <<cache, output, edits>>
      BY <1>6 DEF FrameDone, Frames
    <3>2. at'[1] = at[1] + 1 /\ at'[2] = 1 /\ at[1] >= 1
      BY <1>0, <2>2 DEF PlaceInv
    <3>3. /\ at'[1] < Len(Frames) - 1 => at[1] < Len(Frames) - 1
          /\ at'[1] = Len(Frames) - 1 => at[1] < Len(Frames) - 1
          /\ at'[1] = 2 => at[1] = 1
          /\ at'[1] # 1
      BY <1>0, <3>2
    <3>4. /\ Len(output) = 0 => Len(output) <= 1
          /\ edits <= MaxEdits => edits <= MaxEdits + 1
      BY <1>0
    <3>. QED
      BY <3>1, <3>3, <3>4 DEF CountInv
  <2>. QED
    BY <1>6, <2>1, <2>2 DEF FrameDone
<1>7. CASE Interrupt
  <2>1. cache' = cache /\ output' = <<>> /\ edits' = 0
    BY <1>7 DEF Interrupt
  <2>2. Len(output') = 0
    BY <2>1
  <2>. QED
    BY <1>0, <2>1, <2>2 DEF CountInv
<1>. QED
  BY <1>1, <1>2, <1>4, <1>5, <1>6, <1>7, OperationSteps
  DEF Next, GateStep, FaultInv

LEMMA CountAlways == Spec => []CountInv
<1>1. Init => CountInv
  <2>. SUFFICES ASSUME Init PROVE CountInv
    OBVIOUS
  <2>1. /\ request \in Requests /\ cache = request.cache
        /\ output = <<>> /\ edits = 0
    BY DEF Init
  <2>2. Len(output) = 0
    BY <2>1
  <2>. QED
    BY <2>1, <2>2, RequestAssumption, GateAssumption DEF CountInv
<1>. QED
  BY <1>1, CountStep, PassedAlways, PTL DEF Spec

\* Every variable keeps its type: the place is in the program, a frame defers
\* at most a removal and a comparison, at most two releases are rendered and
\* two rewrites done, and what could not be removed is still there.
THEOREM GateTypeCorrect == Spec => []TypeOK
<1>1. ASSUME FaultInv, PlaceInv, PassedInv, TempInv, CallInv, TestedInv, CountInv
      PROVE  TypeOK
  <2>1. defers \in Seq(Calls) /\ Len(defers) \in Nat
    BY <1>1, LenProperties DEF TempInv
  <2>2. Len(defers) <= 2
    <3>0. Len(defers) \in Nat
      BY <2>1
    <3>. SUFFICES ASSUME Len(defers) > 2 PROVE FALSE
      BY <3>0
    <3>1. /\ 1 \in 1..Len(defers) /\ 2 \in 1..Len(defers)
          /\ Len(defers) # 1 /\ Len(defers) # 2
      <4>1. \A n \in Nat : n > 2 => 1 \in 1..n /\ 2 \in 1..n /\ n # 1 /\ n # 2
        OBVIOUS
      <4>. QED
        BY <3>0, <4>1, Zenon
    <3>2. defers[1] \in Calls /\ defers[2] \in Calls
      BY <2>1, <3>1, ElementOfSeq
    <3>3. defers[1].call # "compare" /\ defers[2].call # "compare"
      BY <1>1, <3>1 DEF CallInv
    <3>4. defers[1].call \in Removals /\ defers[2].call \in Removals
      BY <3>2, <3>3 DEF Calls
    <3>. QED
      BY <1>1, <3>1, <3>4 DEF CallInv
  <2>3. stuck \subseteq temp
    BY <1>1 DEF CallInv
  <2>4. ASSUME NEW t \in temp PROVE t[1] \in {0, run} /\ t[3] \in Kinds
    <3>1. t \in {0, run} \X Nat \X Kinds
      BY <1>1 DEF TempInv
    <3>. QED
      BY <3>1
  <2>5. edits \in 0..(MaxEdits + 2)
    BY <1>1, GateAssumption DEF FaultInv, CountInv
  <2>. QED
    BY <1>1, <2>2, <2>3, <2>4, <2>5
    DEF TypeOK, FaultInv, Faults, PlaceInv, CountInv, TestedInv
<1>. QED
  BY <1>1, CountAlways, PassedAlways, TestedAlways, PTL

-----------------------------------------------------------------------------
(* A gate that fails has met a fault.                                       *)

\* The temporary files that are not the current frame's.
Others == {t \in temp : t[1] # run \/ t[2] # at[1]}

\* A frame that has failed is at its end and something went wrong, a file
\* that could not be removed included.  While nothing has gone wrong, the
\* state a boundary took is that of the repository without the boundary's own
\* modfiles.
CauseInv ==
  /\ failed => faults # {} /\ Finished
  /\ stuck # {} => faults # {}
  /\ Pending /\ faults = {} =>
       before = <<edits, IF request.tempInside THEN Others ELSE {}>>

\* A boundary has no file of its own before it begins and after its removals.
LEMMA NoOwnFiles ==
  ASSUME FaultInv, PlaceInv, TempInv, CallInv, CauseInv, faults = {},
         at[2] = 1 \/ Finished, ~Removing
  PROVE  Others = temp
<1>1. \A k : ~Covered(k)
  BY DEF Covered, Removing
<1>2. ~ProfileOpen
  <2>1. ASSUME Finished PROVE ~ProfileOpen
    BY <2>1, OpenNext
  <2>2. ASSUME at[2] = 1 PROVE ~ProfileOpen
    <3>1. \A p \in 1..Len(Ops) : at[2] \notin {p + 1, p + 2}
      BY <2>2, PlaceFacts
    <3>. QED
      BY <3>1 DEF ProfileOpen
  <2>. QED
    BY <2>1, <2>2
<1>3. stuck = {}
  BY DEF CauseInv
<1>4. \A t \in temp : t[1] # run
  BY <1>1, <1>2, <1>3 DEF TempInv, Accounted
<1>. QED
  BY <1>4 DEF Others

\* The frames of the boundaries rewrite nothing.
LEMMA BoundaryKeeps ==
  ASSUME NEW f \in BoundaryTests, NEW k \in 1..Len(f.ops)
  PROVE  f.ops[k].op # "rewrite"
<1>1. f \in SafeFrames
  BY DEF BoundaryTests, SafeFrames
<1>. QED
  BY <1>1, SafeKinds

LEMMA CauseStep ==
  ASSUME FaultInv, PlaceInv, TempInv, CallInv, CauseInv, [Next]_vars
  PROVE  CauseInv'
<1>1. CASE Advance
  <2>1. /\ Frames' = Frames /\ at'[1] = at[1] /\ at[2] \in 1..Len(Ops)
        /\ Op = Frames[at[1]].ops[at[2]] /\ ~Finished
    BY <1>1, AdvancePlace DEF Advance
  <2>2. UNCHANGED <<request, run, stuck, failed, faults>>
    BY <1>1 DEF Advance, Pass
  <2>3. ~failed
    BY <2>1 DEF CauseInv
  <2>4. Others' = Others
    <3>1. CASE temp' = temp
      BY <2>1, <2>2, <3>1 DEF Others
    <3>2. CASE temp' = temp \cup Temp({Op.arg})
      <4>1. \A t \in Temp({Op.arg}) : t[1] = run /\ t[2] = at[1]
        BY DEF Temp
      <4>. QED
        BY <2>1, <2>2, <3>2, <4>1 DEF Others
    <3>. QED
      BY <1>1, <3>1, <3>2 DEF Advance
  <2>5. CASE Op.op = "state"
    <3>1. at[2] = 1
      BY <2>1, <2>5, PlaceFacts, StateFrame DEF Ops
    <3>2. ~Removing
      <4>1. defers = <<>>
        BY <3>1 DEF CallInv
      <4>. QED
        BY <4>1, EmptySeq DEF Removing
    <3>3. faults = {} => Others = temp
      BY <3>1, <3>2, NoOwnFiles
    <3>4. before' = compatibilityState /\ edits' = edits
      BY <1>1, <2>5 DEF Advance
    <3>. QED
      BY <2>2, <2>3, <2>4, <3>3, <3>4 DEF CauseInv, compatibilityState
  <2>6. CASE Op.op # "state"
    <3>1. Pending' <=> Pending
      BY <1>1, <2>6, CallAdvance
    <3>2. Pending => Op.op # "rewrite"
      BY <2>1, BoundaryKeeps DEF CallInv, Ops
    <3>3. before' = before /\ (Pending => edits' = edits)
      BY <1>1, <2>6, <3>2 DEF Advance
    <3>. QED
      BY <2>2, <2>3, <2>4, <3>1, <3>3 DEF CauseInv
  <2>. QED
    BY <2>5, <2>6
<1>2. CASE Abort
  <2>1. faults' # {} /\ Finished' /\ stuck' = stuck /\ faults \subseteq faults'
    BY <1>2, AbortPlace DEF Abort, Fail
  <2>. QED
    BY <2>1 DEF CauseInv
<1>3. CASE UNCHANGED <<request, at, temp, stuck, defers, before, edits, run,
                       failed, faults>>
  <2>1. Finished' <=> Finished
    BY <1>3, StandStill
  <2>2. (Pending' <=> Pending) /\ Others' = Others
    BY <1>3 DEF Pending, Others
  <2>. QED
    BY <1>3, <2>1, <2>2 DEF CauseInv
<1>4. CASE Wait \/ Expire \/ UNCHANGED vars
  BY <1>3, <1>4 DEF Wait, Expire, vars
<1>5. CASE Edit
  <2>1. /\ faults' # {} /\ UNCHANGED <<stuck, failed>> /\ faults \subseteq faults'
        /\ (Finished' <=> Finished)
    BY <1>5, StandStill DEF Edit
  <2>. QED
    BY <2>1 DEF CauseInv
<1>6. CASE Remove
  <2>. DEFINE mine == temp \cap Temp(Head(defers).kinds)
  <2>1. PICK kept \in SUBSET mine :
          /\ temp' = (temp \ mine) \cup kept
          /\ stuck' = stuck \cup kept
          /\ faults \subseteq faults' /\ (kept # {} => faults' # {})
          /\ failed' => failed \/ kept # {}
    BY <1>6 DEF Remove
  <2>2. /\ Finished /\ Finished' /\ UNCHANGED <<request, at, run, before, edits>>
    BY <1>6, StandStill DEF Remove, Unwinding
  <2>3. Pending' <=> Pending
    BY <1>6, CallRemove
  <2>4. \A t \in mine : t[1] = run /\ t[2] = at[1]
    BY DEF Temp
  <2>. HIDE DEF mine
  <2>5. Others' = Others
    BY <2>1, <2>2, <2>4 DEF Others
  <2>6. failed' => faults' # {}
    BY <2>1 DEF CauseInv
  <2>7. stuck' # {} => faults' # {}
    BY <2>1 DEF CauseInv
  <2>8. faults' = {} => faults = {}
    BY <2>1
  <2>. QED
    BY <2>2, <2>3, <2>5, <2>6, <2>7, <2>8 DEF CauseInv
<1>7. CASE Compare
  <2>1. /\ Finished /\ Finished' /\ UNCHANGED <<request, at, stuck>>
        /\ defers' = Tail(defers) /\ defers # <<>>
        /\ Head(defers).call = "compare" /\ faults \subseteq faults'
    BY <1>7, StandStill DEF Compare, Unwinding
  <2>2. Pending /\ ~Pending' /\ defers' = <<>>
    BY <2>1, CallRun
  <2>3. ~Removing
    <3>1. /\ Len(defers') = Len(defers) - 1 /\ Head(defers) = defers[1]
          /\ Len(defers) \in Nat
      BY <2>1, RunCall DEF TempInv
    <3>2. Len(defers') = 0
      BY <2>2, EmptySeq
    <3>3. \A i \in 1..Len(defers) : i = 1
      <4>1. Len(defers) = 1
        BY <3>1, <3>2
      <4>2. \A i \in 1..1 : i = 1
        OBVIOUS
      <4>. QED
        BY <4>1, <4>2
    <3>. QED
      BY <2>1, <3>1, <3>3 DEF Removing, Removals
  <2>4. faults = {} => before = compatibilityState
    BY <2>1, <2>2, <2>3, NoOwnFiles DEF CauseInv, compatibilityState
  <2>5. failed' => faults' # {}
    BY <1>7, <2>4 DEF Compare, CauseInv
  <2>. QED
    BY <2>1, <2>2, <2>5 DEF CauseInv
<1>8. CASE FrameDone
  <2>1. /\ defers' = <<>> /\ UNCHANGED <<stuck, failed, faults>>
        /\ Finished
    BY <1>8 DEF FrameDone
  <2>2. ~Pending'
    BY <2>1, EmptySeq DEF Pending
  <2>3. failed => Finished'
    BY <1>8, <2>1, StandStill DEF FrameDone
  <2>. QED
    BY <2>1, <2>2, <2>3 DEF CauseInv
<1>9. CASE Interrupt
  <2>1. defers' = <<>> /\ stuck' = {} /\ ~failed'
    BY <1>9 DEF Interrupt
  <2>2. ~Pending'
    BY <2>1, EmptySeq DEF Pending
  <2>. QED
    BY <2>1, <2>2 DEF CauseInv
<1>. QED
  BY <1>1, <1>2, <1>4, <1>5, <1>6, <1>7, <1>8, <1>9, OperationSteps
  DEF Next, GateStep, FaultInv

LEMMA CauseAlways ==
  Spec => [](FaultInv /\ PlaceInv /\ TempInv /\ CallInv /\ CauseInv)
<1>1. Init => CauseInv
  <2>. SUFFICES ASSUME Init PROVE CauseInv
    OBVIOUS
  <2>1. defers = <<>> /\ stuck = {} /\ ~failed
    BY DEF Init
  <2>2. ~Pending
    BY <2>1, EmptySeq DEF Pending
  <2>. QED
    BY <2>1, <2>2 DEF CauseInv
<1>. QED
  BY <1>1, CauseStep, CallAlways, PTL DEF Spec

-----------------------------------------------------------------------------
(* The module graphs a command needs are in the cache.                      *)

\* Operations, and frames of them, whose offline commands find their modules
\* if the graphs in C are in the cache.
Supplied(C) == {o \in AllOps : o.op \in Offline => o.arg \subseteq C}
SuppliedFrames(C) == {f \in GateFrames : f.ops \in Seq(Supplied(C))}

\* What the operations of a frame, and the frames of a program, fetch.
Fetches(f, g) ==
  \E k \in 1..Len(f.ops) : f.ops[k].op \in Online /\ g \in f.ops[k].arg

Fetched(s) == {g \in ModuleGraphs : \E i \in 1..Len(s) : Fetches(s[i], g)}

\* Every offline command of the frames s finds its modules if those in C are
\* in the cache at first: the others are fetched by an earlier frame.
Ready(s, C) ==
  \A i \in 1..Len(s) : \A k \in 1..Len(s[i].ops) :
    s[i].ops[k].op \in Offline =>
      \A g \in s[i].ops[k].arg :
        g \in C \/ \E j \in 1..(i - 1) : Fetches(s[j], g)

LEMMA ReadyFlat ==
  ASSUME NEW C, NEW s \in Seq(SuppliedFrames(C)), NEW D, C \subseteq D
  PROVE  s \in Seq(GateFrames) /\ Ready(s, D)
<1>1. s \in Seq(GateFrames)
  BY DEF SuppliedFrames
<1>2. ASSUME NEW i \in 1..Len(s), NEW k \in 1..Len(s[i].ops)
      PROVE  s[i].ops[k] \in Supplied(C)
  <2>1. s[i] \in SuppliedFrames(C)
    BY ElementOfSeq
  <2>2. s[i].ops \in Seq(Supplied(C))
    BY <2>1 DEF SuppliedFrames
  <2>. QED
    BY <2>2, ElementOfSeq
<1>. QED
  BY <1>1, <1>2 DEF Ready, Supplied

\* One step after the other: the second may need what the first fetches.
LEMMA ReadyConcat ==
  ASSUME NEW s \in Seq(GateFrames), NEW t \in Seq(GateFrames), NEW C,
         Ready(s, C), Ready(t, C \cup Fetched(s))
  PROVE  /\ s \o t \in Seq(GateFrames) /\ Ready(s \o t, C)
         /\ Fetched(s \o t) = Fetched(s) \cup Fetched(t)
<1>. DEFINE u == s \o t
<1>1. /\ u \in Seq(GateFrames)
      /\ Len(u) = Len(s) + Len(t) /\ Len(s) \in Nat /\ Len(t) \in Nat
      /\ \A i \in 1 .. Len(s) + Len(t) :
           u[i] = IF i <= Len(s) THEN s[i] ELSE t[i - Len(s)]
  BY ConcatProperties, LenProperties
<1>. HIDE DEF u
<1>2. ASSUME NEW i \in 1..Len(s) PROVE i \in 1..Len(u) /\ u[i] = s[i]
  BY <1>1
<1>3. ASSUME NEW i \in 1..Len(t)
      PROVE  Len(s) + i \in 1..Len(u) /\ u[Len(s) + i] = t[i]
  <2>1. /\ Len(s) + i \in 1 .. Len(s) + Len(t) /\ ~(Len(s) + i <= Len(s))
        /\ (Len(s) + i) - Len(s) = i
    BY <1>1
  <2>. QED
    BY <1>1, <2>1
<1>4. ASSUME NEW i \in 1..Len(u)
      PROVE  \/ i \in 1..Len(s) /\ u[i] = s[i]
             \/ i - Len(s) \in 1..Len(t) /\ u[i] = t[i - Len(s)]
  BY <1>1
<1>5. Fetched(u) = Fetched(s) \cup Fetched(t)
  <2>1. ASSUME NEW g PROVE (\E i \in 1..Len(u) : Fetches(u[i], g)) <=>
                             \/ \E i \in 1..Len(s) : Fetches(s[i], g)
                             \/ \E i \in 1..Len(t) : Fetches(t[i], g)
    <3>1. ASSUME NEW i \in 1..Len(s), Fetches(s[i], g)
          PROVE  \E j \in 1..Len(u) : Fetches(u[j], g)
      BY <1>2, <3>1
    <3>2. ASSUME NEW i \in 1..Len(t), Fetches(t[i], g)
          PROVE  \E j \in 1..Len(u) : Fetches(u[j], g)
      BY <1>3, <3>2
    <3>3. ASSUME NEW i \in 1..Len(u), Fetches(u[i], g)
          PROVE  \/ \E j \in 1..Len(s) : Fetches(s[j], g)
                 \/ \E j \in 1..Len(t) : Fetches(t[j], g)
      BY <1>4, <3>3
    <3>. QED
      BY <3>1, <3>2, <3>3
  <2>. QED
    BY <2>1 DEF Fetched
<1>6. ASSUME NEW i \in 1..Len(u), NEW k \in 1..Len(u[i].ops),
             u[i].ops[k].op \in Offline, NEW g \in u[i].ops[k].arg, g \notin C
      PROVE  \E j \in 1..(i - 1) : Fetches(u[j], g)
  <2>1. CASE i \in 1..Len(s) /\ u[i] = s[i]
    <3>1. PICK j \in 1..(i - 1) : Fetches(s[j], g)
      BY <1>6, <2>1 DEF Ready
    <3>2. j \in 1..Len(s)
      BY <1>1, <2>1
    <3>. QED
      BY <1>2, <3>1, <3>2
  <2>2. CASE i - Len(s) \in 1..Len(t) /\ u[i] = t[i - Len(s)]
    <3>. DEFINE m == i - Len(s)
    <3>1. m \in 1..Len(t) /\ u[i] = t[m] /\ i = Len(s) + m /\ m \in Nat
      BY <1>1, <2>2
    <3>. HIDE DEF m
    <3>2. g \in C \cup Fetched(s) \/ \E j \in 1..(m - 1) : Fetches(t[j], g)
      BY <1>6, <3>1 DEF Ready
    <3>3. ASSUME NEW j \in 1..(m - 1), Fetches(t[j], g)
          PROVE  \E l \in 1..(i - 1) : Fetches(u[l], g)
      <4>1. j \in 1..Len(t) /\ Len(s) + j \in 1..(i - 1)
        BY <1>1, <3>1
      <4>. QED
        BY <1>3, <3>3, <4>1
    <3>4. ASSUME NEW j \in 1..Len(s), Fetches(s[j], g)
          PROVE  \E l \in 1..(i - 1) : Fetches(u[l], g)
      <4>1. j \in 1..(i - 1)
        BY <1>1, <3>1
      <4>. QED
        BY <1>2, <3>4, <4>1
    <3>. QED
      BY <1>6, <3>2, <3>3, <3>4 DEF Fetched
  <2>. QED
    BY <1>4, <2>1, <2>2
<1>7. Ready(u, C)
  BY <1>6 DEF Ready
<1>. QED
  BY <1>1, <1>5, <1>7 DEF u

\* Frames that find their modules, and have fetched those in D by their end.
Leaves(s, D) == s \in Seq(GateFrames) /\ Ready(s, {}) /\ D \subseteq Fetched(s)

LEMMA LeavesMore ==
  ASSUME NEW s, NEW D, Leaves(s, D), NEW C \in SUBSET D,
         NEW t \in Seq(SuppliedFrames(C)), NEW E \in SUBSET Fetched(t)
  PROVE  Leaves(s \o t, D \cup E)
<1>1. t \in Seq(GateFrames) /\ Ready(t, {} \cup Fetched(s))
  BY ReadyFlat DEF Leaves
<1>. QED
  BY <1>1, ReadyConcat DEF Leaves

\* Only offline commands need modules.
LEMMA SuppliedOps ==
  ASSUME NEW C
  PROVE  /\ \A g \in SUBSET ModuleGraphs : g \subseteq C =>
              command(g) \in Supplied(C) /\ capture(g) \in Supplied(C)
         /\ command({}) \in Supplied(C) /\ capture({}) \in Supplied(C)
         /\ \A g \in SUBSET ModuleGraphs : networkCommand(g) \in Supplied(C)
         /\ \A o \in AllOps : o.op \notin Offline => o \in Supplied(C)
         /\ networkCapture \in Supplied(C) /\ File \in Supplied(C)
         /\ \A w \in Names : Check(w) \in Supplied(C)
<1>1. \A o \in AllOps : o.op \notin Offline => o \in Supplied(C)
  BY DEF Supplied
<1>2. PlainOps \subseteq AllOps
  BY DEF AllOps
<1>3. ASSUME NEW g \in SUBSET ModuleGraphs, g \subseteq C
      PROVE  command(g) \in Supplied(C) /\ capture(g) \in Supplied(C)
  <2>1. command(g) \in AllOps /\ capture(g) \in AllOps
    BY <1>2, Plain
  <2>2. command(g).arg = g /\ capture(g).arg = g
    BY DEF command, capture, Do
  <2>. QED
    BY <1>3, <2>1, <2>2 DEF Supplied
<1>4. \A g \in SUBSET ModuleGraphs :
        networkCommand(g) \in AllOps /\ networkCommand(g).op \notin Offline
  BY <1>2, Plain DEF networkCommand, Do, Offline
<1>5. /\ networkCapture \in AllOps /\ networkCapture.op \notin Offline
      /\ File \in AllOps /\ File.op \notin Offline
  BY <1>2, Plain DEF networkCapture, File, Do, Offline
<1>6. \A w \in Names : Check(w) \in AllOps /\ Check(w).op \notin Offline
  BY <1>2, Plain DEF Check, Do, Offline
<1>. QED
  BY <1>1, <1>3, <1>4, <1>5, <1>6

LEMMA SuppliedFrame ==
  ASSUME NEW C, NEW ops \in Seq(Supplied(C)), Frame(ops) \in Seq(GateFrames)
  PROVE  Frame(ops) \in Seq(SuppliedFrames(C))
<1>. DEFINE f == [line |-> "none", ops |-> ops]
<1>1. Frame(ops) = <<f>> /\ f.ops = ops
  BY DEF Frame
<1>. HIDE DEF f
<1>2. f \in GateFrames
  <2>1. 1 \in 1..Len(<<f>>) /\ <<f>>[1] = f
    OBVIOUS
  <2>. QED
    BY <1>1, <2>1, ElementOfSeq
<1>3. f \in SuppliedFrames(C)
  BY <1>1, <1>2 DEF SuppliedFrames
<1>. QED
  BY <1>1, <1>3, Tuples

\* What the steps need before them.
LEMMA SuppliedSteps ==
  /\ start \in Seq(SuppliedFrames({}))
  /\ checkIdentity \in Seq(SuppliedFrames({}))
  /\ prepareDependencies \in Seq(SuppliedFrames({}))
  /\ vet \in Seq(SuppliedFrames({})) /\ tests \in Seq(SuppliedFrames({}))
  /\ coverage \in Seq(SuppliedFrames({})) /\ offline \in Seq(SuppliedFrames({}))
  /\ releaseRehearsal \in Seq(SuppliedFrames({}))
  /\ requireReleaseTool \in Seq(SuppliedFrames({}))
  /\ format(FALSE) \in Seq(SuppliedFrames({"tools"}))
  /\ lint \in Seq(SuppliedFrames({"tools"}))
  /\ security \in Seq(SuppliedFrames({"tools"}))
  /\ checkModule \in Seq(SuppliedFrames({"product", "product tests"}))
<1>. DEFINE T == {"tools"}
            P == {"product", "product tests"}
<1>1. /\ \A s \in Seq(OtherFrames) : s \in Seq(GateFrames)
  BY OtherConcat
<1>2. \A C : /\ command({}) \in Supplied(C) /\ capture({}) \in Supplied(C)
             /\ File \in Supplied(C) /\ \A w \in Names : Check(w) \in Supplied(C)
  BY SuppliedOps
<1>3. toolPath \in Supplied(T)
  BY SuppliedOps DEF toolPath, ModuleGraphs
<1>4. command(P) \in Supplied(P) /\ command({"product"}) \in Supplied(P)
  BY SuppliedOps DEF ModuleGraphs
<1>5. \A C : \A o \in AllOps : o.op \notin Offline => o \in Supplied(C)
  BY SuppliedOps
<1>6. start \in Seq(SuppliedFrames({}))
  <2>1. Check("go") \in Supplied({}) /\ Check("mode") \in Supplied({})
    BY <1>2 DEF Names
  <2>2. <<File, Check("go"), Check("mode")>> \in Seq(Supplied({}))
    BY <1>2, <2>1, Tuples
  <2>. QED
    BY <1>1, <2>2, OtherSteps, SuppliedFrame DEF start, repositoryRoot
<1>7. checkIdentity \in Seq(SuppliedFrames({}))
  <2>1. /\ Check("identity") \in Supplied({}) /\ Check("minimum") \in Supplied({})
        /\ Check("compatibility") \in Supplied({})
    BY <1>2 DEF Names
  <2>2. <<File, Check("identity"), File, Check("compatibility"),
          capture({}), Check("minimum")>> \in Seq(Supplied({}))
    BY <1>2, <2>1, Tuples
  <2>. QED
    BY <1>1, <2>2, OtherSteps, SuppliedFrame DEF checkIdentity
<1>8. prepareDependencies \in Seq(SuppliedFrames({}))
  <2>1. /\ networkCommand({"product"}) \in Supplied({})
        /\ networkCommand({"tools"}) \in Supplied({})
        /\ networkCommand({"product tests"}) \in Supplied({})
        /\ networkCommand({"tools tests"}) \in Supplied({})
    BY SuppliedOps DEF ModuleGraphs
  <2>2. Check("workflow") \in Supplied({})
    BY <1>2 DEF Names
  <2>3. <<networkCommand({"product"}), networkCommand({"tools"}),
          networkCommand({"product tests"}), networkCommand({"tools tests"})>>
        \in Seq(Supplied({}))
    BY <2>1, Tuples
  <2>4. <<File, Check("workflow")>> \in Seq(Supplied({}))
    BY <1>2, <2>2, Tuples
  <2>. QED
    BY <1>1, <2>3, <2>4, SeqConcat, OtherSteps, SuppliedFrame
    DEF prepareDependencies, checkReleaseWorkflow
<1>9. /\ vet \in Seq(SuppliedFrames({})) /\ tests \in Seq(SuppliedFrames({}))
      /\ offline \in Seq(SuppliedFrames({}))
  <2>1. /\ <<command({})>> \in Seq(Supplied({}))
        /\ <<command({}), command({})>> \in Seq(Supplied({}))
    BY <1>2, Tuples
  <2>. QED
    BY <1>1, <2>1, OtherSteps, SuppliedFrame DEF vet, tests, offline
<1>10. coverage \in Seq(SuppliedFrames({}))
  <2>1. /\ Do("create", "profile") \in Supplied({})
        /\ Do("defer", "profile") \in Supplied({})
    BY DEF Supplied, AllOps, Do, Kinds, Offline
  <2>2. Check("coverage") \in Supplied({})
    BY <1>2 DEF Names
  <2>3. <<Do("create", "profile"), File, Do("defer", "profile"), command({}),
          capture({}), Check("coverage")>> \in Seq(Supplied({}))
    BY <1>2, <2>1, <2>2, Tuples
  <2>. QED
    BY <1>1, <2>3, OtherSteps, SuppliedFrame DEF coverage
<1>11. releaseRehearsal \in Seq(SuppliedFrames({}))
  <2>1. /\ Do("create", "rehearsal") \in Supplied({})
        /\ Do("render", {}) \in Supplied({})
    BY DEF Supplied, AllOps, Do, Kinds, Offline
  <2>2. /\ Check("deterministic") \in Supplied({})
        /\ Check("artifacts") \in Supplied({})
        /\ Check("checksums") \in Supplied({}) /\ Check("sbom") \in Supplied({})
    BY DEF Supplied, AllOps, OutputChecks, Check, Do, Offline
  <2>3. <<Do("create", "rehearsal"), capture({}), capture({}), File,
          Do("render", {}), Do("render", {}), File, File,
          Check("deterministic")>> \in Seq(Supplied({}))
    BY <1>2, <2>1, <2>2
  <2>4. <<Check("artifacts"), File, Check("checksums"), File, Check("sbom")>>
        \in Seq(Supplied({}))
    BY <1>2, <2>2, Tuples
  <2>. QED
    BY <1>1, <2>3, <2>4, SeqConcat, OtherSteps, SuppliedFrame
    DEF releaseRehearsal, validateReleaseRehearsal, treeDigests,
        readReleaseArtifact
<1>12. requireReleaseTool \in Seq(SuppliedFrames({}))
  <2>1. Check("authorization") \in Supplied({})
    BY <1>2 DEF Names
  <2>2. <<capture({}), Check("authorization")>> \in Seq(Supplied({}))
    BY <1>2, <2>1, Tuples
  <2>. QED
    BY <1>1, <2>2, OtherSteps, SuppliedFrame DEF requireReleaseTool
<1>13. format(FALSE) \in Seq(SuppliedFrames(T))
  <2>1. Check("imports") \in Supplied(T) /\ Check("format") \in Supplied(T)
    BY <1>2 DEF Names
  <2>2. File \in Supplied(T) /\ capture({}) \in Supplied(T)
    BY <1>2
  <2>. HIDE DEF T
  <2>3. <<File, toolPath, capture({}), Check("imports"), toolPath, capture({}),
          Check("format")>> \in Seq(Supplied(T))
    BY <1>3, <2>1, <2>2
  <2>. QED
    BY <1>1, <2>3, OtherSteps, SuppliedFrame DEF format, goFiles
<1>14. lint \in Seq(SuppliedFrames(T)) /\ security \in Seq(SuppliedFrames(T))
  <2>1. <<toolPath, command({}), toolPath, command({})>> \in Seq(Supplied(T))
    BY <1>2, <1>3, Tuples
  <2>. QED
    BY <1>1, <2>1, OtherSteps, SuppliedFrame DEF lint, security
<1>15. checkModule \in Seq(SuppliedFrames(P))
  <2>1. Do("create", "vendor") \in Supplied(P)
    BY DEF Supplied, AllOps, Do, Kinds, Offline
  <2>2. Check("vendor") \in Supplied(P)
    BY <1>2 DEF Names
  <2>3. <<command(P), Do("create", "vendor"), command({"product"}),
          File, File, Check("vendor")>> \in Seq(Supplied(P))
    BY <1>2, <1>4, <2>1, <2>2, Tuples
  <2>. QED
    BY <1>1, <2>3, OtherSteps, SuppliedFrame DEF checkModule, treeDigests
<1>. QED
  BY <1>6, <1>7, <1>8, <1>9, <1>10, <1>11, <1>12, <1>13, <1>14, <1>15

\* An operation that fetches a graph does so in whatever frame it is part of.
LEMMA FetchedByOps ==
  ASSUME NEW p \in Seq(AllOps), NEW q \in Seq(AllOps), NEW f, f.ops = p \o q,
         NEW g
  PROVE  /\ \A k \in 1..Len(p) : p[k].op \in Online /\ g \in p[k].arg => Fetches(f, g)
         /\ \A k \in 1..Len(q) : q[k].op \in Online /\ g \in q[k].arg => Fetches(f, g)
<1>. DEFINE u == p \o q
<1>1. /\ Len(u) = Len(p) + Len(q) /\ Len(p) \in Nat /\ Len(q) \in Nat
      /\ \A i \in 1 .. Len(p) + Len(q) :
           u[i] = IF i <= Len(p) THEN p[i] ELSE q[i - Len(p)]
  BY ConcatProperties, LenProperties
<1>2. f.ops = u
  OBVIOUS
<1>. HIDE DEF u
<1>3. ASSUME NEW i \in 1..Len(p) PROVE i \in 1..Len(u) /\ u[i] = p[i]
  BY <1>1
<1>4. ASSUME NEW i \in 1..Len(q)
      PROVE  Len(p) + i \in 1..Len(u) /\ u[Len(p) + i] = q[i]
  <2>1. /\ Len(p) + i \in 1 .. Len(p) + Len(q) /\ ~(Len(p) + i <= Len(p))
        /\ (Len(p) + i) - Len(p) = i
    BY <1>1
  <2>. QED
    BY <1>1, <2>1
<1>. QED
  BY <1>2, <1>3, <1>4 DEF Fetches

\* prepareDependencies fetches what the tools and the module's checks need.
LEMMA DependenciesFetched ==
  {"product", "product tests", "tools", "tools tests"}
    \subseteq Fetched(prepareDependencies)
<1>. DEFINE p == <<networkCommand({"product"}), networkCommand({"tools"}),
                   networkCommand({"product tests"}),
                   networkCommand({"tools tests"})>>
            q == checkReleaseWorkflow
            f == prepareDependencies[1]
<1>1. p \in Seq(AllOps) /\ q \in Seq(AllOps)
  <2>1. /\ networkCommand({"product"}) \in AllOps
        /\ networkCommand({"tools"}) \in AllOps
        /\ networkCommand({"product tests"}) \in AllOps
        /\ networkCommand({"tools tests"}) \in AllOps
    BY Plain DEF ModuleGraphs, AllOps
  <2>2. Check("workflow") \in AllOps /\ File \in AllOps
    BY Plain DEF Names, AllOps
  <2>. QED
    BY <2>1, <2>2, Tuples DEF checkReleaseWorkflow
<1>2. f.ops = p \o q /\ Len(prepareDependencies) = 1
  BY DEF prepareDependencies, Frame
<1>3. /\ Len(p) = 4 /\ p[1] = networkCommand({"product"})
      /\ p[2] = networkCommand({"tools"}) /\ p[3] = networkCommand({"product tests"})
      /\ p[4] = networkCommand({"tools tests"})
  OBVIOUS
<1>4. \A g : networkCommand(g).op \in Online /\ networkCommand(g).arg = g
  BY DEF networkCommand, Do, Online
<1>. HIDE DEF p, q, f
<1>5. 1 \in 1..Len(p) /\ 2 \in 1..Len(p) /\ 3 \in 1..Len(p) /\ 4 \in 1..Len(p)
  <2>1. Len(p) = 4
    BY <1>3
  <2>. QED
    BY <2>1
<1>6. \A g : \A k \in 1..Len(p) :
        p[k].op \in Online /\ g \in p[k].arg => Fetches(f, g)
  BY <1>1, <1>2, FetchedByOps
<1>7. /\ Fetches(f, "product") /\ Fetches(f, "tools")
      /\ Fetches(f, "product tests") /\ Fetches(f, "tools tests")
  <2>1. ASSUME NEW g, NEW k \in 1..Len(p), p[k] = networkCommand({g})
        PROVE  Fetches(f, g)
    <3>1. p[k].op \in Online /\ g \in p[k].arg
      BY <1>4, <2>1
    <3>. QED
      BY <1>6, <3>1
  <2>2. Fetches(f, "product")
    BY <1>3, <1>5, <2>1
  <2>3. Fetches(f, "tools")
    BY <1>3, <1>5, <2>1
  <2>4. Fetches(f, "product tests")
    BY <1>3, <1>5, <2>1
  <2>5. Fetches(f, "tools tests")
    BY <1>3, <1>5, <2>1
  <2>. QED
    BY <2>2, <2>3, <2>4, <2>5
<1>8. 1 \in 1..Len(prepareDependencies)
  BY <1>2
<1>. QED
  BY <1>7, <1>8 DEF Fetched, ModuleGraphs, f

\* The lines a flag stands for.
LinesOf(line) ==
  {b \in Lines : \E i \in 1..Len(boundaries(line)) : boundaries(line)[i] = b}

LEMMA SuppliedBoundaries ==
  ASSUME NEW line \in LineFlags, NEW C, NEW frame \in [Lines -> GateFrames],
         \A b \in LinesOf(line) : frame[b] \in SuppliedFrames(C)
  PROVE  Boundaries(line, frame) \in Seq(SuppliedFrames(C))
<1>. DEFINE lines == boundaries(line)
            p == Frame(<<File, Check("compatibility"),
                         Do("check", <<"line", line>>)>>)
            q == [i \in DOMAIN lines |-> frame[lines[i]]]
<1>1. p \in Seq(SuppliedFrames(C))
  <2>1. Check("compatibility") \in PlainOps
    BY Plain DEF Names
  <2>2. <<File, Check("compatibility"), Do("check", <<"line", line>>)>>
        \in Seq(PlainOps)
    BY <2>1, Plain, Tuples
  <2>3. p \in Seq(GateFrames)
    <3>1. p \in Seq(PlainFrames) /\ PlainFrames \subseteq GateFrames
      BY <2>2, PlainFrame DEF GateFrames, SafeFrames
    <3>. QED
      BY <3>1, SeqSubset
  <2>4. Check("compatibility") \in Supplied(C) /\ File \in Supplied(C)
    BY SuppliedOps DEF Names
  <2>5. Do("check", <<"line", line>>) \in Supplied(C)
    <3>1. Do("check", <<"line", line>>) \in AllOps
      BY Plain DEF AllOps
    <3>. QED
      BY <3>1, SuppliedOps DEF Do, Offline
  <2>6. <<File, Check("compatibility"), Do("check", <<"line", line>>)>>
        \in Seq(Supplied(C))
    BY <2>4, <2>5, Tuples
  <2>. QED
    BY <2>3, <2>6, SuppliedFrame
<1>2. lines \in Seq(Lines)
  BY BoundaryLines
<1>3. \A i \in 1..Len(lines) : frame[lines[i]] \in SuppliedFrames(C)
  BY <1>2, ElementOfSeq DEF LinesOf
<1>4. Boundaries(line, frame) = p \o q
  BY DEF Boundaries
<1>. HIDE DEF p, lines
<1>5. q \in Seq(SuppliedFrames(C))
  BY <1>2, <1>3
<1>. HIDE DEF q
<1>. QED
  BY <1>1, <1>4, <1>5, SeqConcat

\* Both compatibility steps work through the same boundaries: what the second
\* needs is what the first fetches.
LEMMA BoundariesFetched ==
  ASSUME NEW line \in LineFlags
  PROVE  /\ prepareCompatibilityDependencies(line) \in Seq(SuppliedFrames({}))
         /\ LinesOf(line) \subseteq Fetched(prepareCompatibilityDependencies(line))
         /\ coreCompatibility(line) \in Seq(SuppliedFrames(LinesOf(line)))
<1>. DEFINE prepare == [b \in Lines |-> PrepareBoundary(b)]
            verify == [b \in Lines |-> verifyCompatibilityBoundary(b)]
<1>1. prepare \in [Lines -> GateFrames] /\ verify \in [Lines -> GateFrames]
  BY DEF GateFrames, SafeFrames
<1>2. \A C : alternateModfile \in Seq(Supplied(C))
  <2>. TAKE C
  <2>1. Do("create", "mod") \in Supplied(C) /\ Do("write", "sum") \in Supplied(C)
    BY DEF Supplied, AllOps, Do, Kinds, Offline
  <2>. QED
    BY <2>1, SuppliedOps, Tuples DEF alternateModfile
<1>3. ASSUME NEW b \in Lines
      PROVE  PrepareBoundary(b) \in SuppliedFrames({}) /\ Fetches(PrepareBoundary(b), b)
  <2>. DEFINE p == resolveExactCoreVersion \o alternateModfile
              q == <<networkCommand({b})>>
  <2>1. Check("resolved") \in Supplied({}) /\ networkCapture \in Supplied({})
    BY SuppliedOps DEF Names
  <2>2. networkCommand({b}) \in Supplied({})
    BY SuppliedOps DEF ModuleGraphs, Lines
  <2>3. p \in Seq(Supplied({})) /\ q \in Seq(Supplied({}))
    BY <1>2, <2>1, <2>2, Tuples, SeqConcat DEF resolveExactCoreVersion
  <2>4. PrepareBoundary(b).ops = p \o q
    BY DEF PrepareBoundary
  <2>5. /\ 1 \in 1..Len(q) /\ q[1].op \in Online /\ b \in q[1].arg
    BY DEF networkCommand, Do, Online
  <2>. HIDE DEF p, q
  <2>6. p \in Seq(AllOps) /\ q \in Seq(AllOps)
    BY <2>3 DEF Supplied
  <2>7. Fetches(PrepareBoundary(b), b)
    BY <2>4, <2>5, <2>6, FetchedByOps
  <2>8. PrepareBoundary(b).ops \in Seq(Supplied({}))
    BY <2>3, <2>4, SeqConcat
  <2>. QED
    BY <2>7, <2>8 DEF SuppliedFrames, GateFrames, SafeFrames
<1>4. ASSUME NEW b \in LinesOf(line)
      PROVE  verifyCompatibilityBoundary(b) \in SuppliedFrames(LinesOf(line))
  <2>. DEFINE C == LinesOf(line)
              p == <<Do("state", b)>>
              q == <<capture({b}), Do("check", <<"selected", b>>), capture({b}),
                     Check("packages"), command({b}), command({b})>>
  <2>0. b \in Lines
    BY DEF LinesOf
  <2>. HIDE DEF C
  <2>1. {b} \subseteq C /\ {b} \in SUBSET ModuleGraphs
    BY <2>0 DEF C, ModuleGraphs, Lines
  <2>2. command({b}) \in Supplied(C) /\ capture({b}) \in Supplied(C)
    BY <2>1, SuppliedOps
  <2>3. Check("packages") \in Supplied(C)
    BY SuppliedOps DEF Names
  <2>4. Do("check", <<"selected", b>>) \in Supplied(C) /\ Do("state", b) \in Supplied(C)
    <3>1. Do("check", <<"selected", b>>) \in AllOps /\ Do("state", b) \in AllOps
      BY <2>0, Plain DEF AllOps, Do
    <3>. QED
      BY <3>1, SuppliedOps DEF Do, Offline
  <2>5. p \in Seq(Supplied(C)) /\ q \in Seq(Supplied(C))
    BY <2>2, <2>3, <2>4, Tuples
  <2>6. verifyCompatibilityBoundary(b).ops = p \o alternateModfile \o q
    BY DEF verifyCompatibilityBoundary
  <2>. HIDE DEF p, q
  <2>7. verifyCompatibilityBoundary(b).ops \in Seq(Supplied(C))
    BY <1>2, <2>5, <2>6, SeqConcat
  <2>. QED
    BY <2>0, <2>7 DEF C, SuppliedFrames, GateFrames, SafeFrames
<1>5. \A b \in Lines : /\ prepare[b] = PrepareBoundary(b)
                      /\ verify[b] = verifyCompatibilityBoundary(b)
  OBVIOUS
<1>6. LinesOf(line) \subseteq Lines
  BY DEF LinesOf
<1>7. /\ prepareCompatibilityDependencies(line) = Boundaries(line, prepare)
      /\ coreCompatibility(line) = Boundaries(line, verify)
  BY DEF prepareCompatibilityDependencies, coreCompatibility
<1>. HIDE DEF prepare, verify
<1>8. /\ Boundaries(line, prepare) \in Seq(SuppliedFrames({}))
      /\ Boundaries(line, verify) \in Seq(SuppliedFrames(LinesOf(line)))
  BY <1>1, <1>3, <1>4, <1>5, <1>6, SuppliedBoundaries
<1>9. LinesOf(line) \subseteq Fetched(Boundaries(line, prepare))
  <2>. DEFINE s == Boundaries(line, prepare)
              lines == boundaries(line)
  <2>1. /\ Len(s) = 1 + Len(lines) /\ Len(lines) \in Nat
        /\ \A i \in 1..Len(lines) : s[1 + i] = prepare[lines[i]]
    <3>1. PlainFrames \subseteq GateFrames
      BY DEF GateFrames, SafeFrames
    <3>. QED
      BY <1>1, <3>1, BoundaryFrames
  <2>. HIDE DEF s
  <2>2. ASSUME NEW b \in LinesOf(line) PROVE \E i \in 1..Len(s) : Fetches(s[i], b)
    <3>1. PICK i \in 1..Len(lines) : lines[i] = b /\ b \in Lines
      BY DEF LinesOf
    <3>2. 1 + i \in 1..Len(s)
      BY <2>1
    <3>. QED
      BY <1>3, <1>5, <2>1, <3>1, <3>2
  <2>3. Lines \subseteq ModuleGraphs
    BY DEF Lines, ModuleGraphs
  <2>. QED
    BY <1>6, <2>2, <2>3 DEF Fetched, s
<1>. QED
  BY <1>7, <1>8, <1>9

\* In every mode but fmt, whatever the -line flag says, each offline command
\* comes after the network commands that fetch its modules.
LEMMA ProgramReady ==
  ASSUME NEW mode \in ModeFlags \ {"fmt"}, NEW line \in LineFlags
  PROVE  Ready(Program(mode, line), {})
<1>. DEFINE D == {"product", "product tests", "tools", "tools tests"}
            t == Steps(mode, line)
<1>1. \A s, B, C, u :
        Leaves(s, B) /\ C \subseteq B /\ u \in Seq(SuppliedFrames(C))
          => Leaves(s \o u, B)
  <2>. SUFFICES ASSUME NEW s, NEW B, NEW C, NEW u, Leaves(s, B), C \subseteq B,
                       u \in Seq(SuppliedFrames(C))
                PROVE  Leaves(s \o u, B)
    OBVIOUS
  <2>1. Leaves(s \o u, B \cup {})
    BY LeavesMore
  <2>2. B \cup {} = B
    OBVIOUS
  <2>. QED
    BY <2>1, <2>2
<1>2. \A s, B, u, E :
        Leaves(s, B) /\ u \in Seq(SuppliedFrames({})) /\ E \subseteq Fetched(u)
          => Leaves(s \o u, B \cup E)
  <2>. SUFFICES ASSUME NEW s, NEW B, NEW u, NEW E, Leaves(s, B),
                       u \in Seq(SuppliedFrames({})), E \subseteq Fetched(u)
                PROVE  Leaves(s \o u, B \cup E)
    OBVIOUS
  <2>1. {} \in SUBSET B
    OBVIOUS
  <2>. QED
    BY <2>1, LeavesMore
<1>3. Leaves(checkIdentity, {}) /\ Leaves(start, {}) /\ Leaves(<<>>, {})
  <2>1. <<>> \in Seq(SuppliedFrames({}))
    BY EmptySeq
  <2>2. ASSUME NEW s \in Seq(SuppliedFrames({})) PROVE Leaves(s, {})
    <3>1. s \in Seq(GateFrames) /\ Ready(s, {})
      BY ReadyFlat
    <3>. QED
      BY <3>1 DEF Leaves
  <2>. QED
    BY <2>1, <2>2, SuppliedSteps
<1>4. \A s, B, u : Leaves(s, B) /\ u \in Seq(SuppliedFrames({}))
                    => Leaves(s \o u, B)
  <2>1. \A B : {} \subseteq B
    OBVIOUS
  <2>. QED
    BY <1>1, <2>1
<1>5. Leaves(checkIdentity \o prepareDependencies, D)
  <2>1. Leaves(checkIdentity \o prepareDependencies, {} \cup D)
    BY <1>2, <1>3, SuppliedSteps, DependenciesFetched
  <2>2. {} \cup D = D
    OBVIOUS
  <2>. QED
    BY <2>1, <2>2
\* The steps that need the product and the tools.
<1>6. ASSUME NEW s, NEW B, Leaves(s, B), D \subseteq B
      PROVE  Leaves(s \o format(FALSE) \o checkModule \o vet, B)
  <2>1. {"tools"} \subseteq B /\ {"product", "product tests"} \subseteq B
    BY <1>6
  <2>2. Leaves(s \o format(FALSE), B)
    BY <1>1, <1>6, <2>1, SuppliedSteps
  <2>3. Leaves(s \o format(FALSE) \o checkModule, B)
    BY <1>1, <2>1, <2>2, SuppliedSteps
  <2>. QED
    BY <1>4, <2>3, SuppliedSteps
<1>7. ASSUME mode = "check" PROVE Leaves(t, {})
  <2>1. Leaves(checkIdentity \o prepareDependencies \o format(FALSE)
                 \o checkModule \o vet, D)
    BY <1>5, <1>6
  <2>. QED
    BY <1>7, <2>1, StepsOfModes DEF Leaves
<1>8. ASSUME mode = "compatibility" PROVE Leaves(t, {})
  <2>. DEFINE p == prepareCompatibilityDependencies(line)
              c == coreCompatibility(line)
  <2>1. /\ p \in Seq(SuppliedFrames({})) /\ LinesOf(line) \subseteq Fetched(p)
        /\ c \in Seq(SuppliedFrames(LinesOf(line)))
    BY BoundariesFetched
  <2>. HIDE DEF p, c
  <2>2. Leaves(checkIdentity \o p, {} \cup LinesOf(line))
    BY <1>2, <1>3, <2>1
  <2>3. Leaves(checkIdentity \o p \o c, {} \cup LinesOf(line))
    BY <1>1, <2>1, <2>2
  <2>. QED
    BY <1>8, <2>3, StepsOfModes DEF Leaves, p, c
<1>9. ASSUME mode = "release-rehearsal" PROVE Leaves(t, {})
  BY <1>3, <1>4, <1>9, StepsOfModes, SuppliedSteps
<1>10. ASSUME mode \in {"verify", "verify-release"} PROVE Leaves(t, {})
  <2>. DEFINE p == prepareCompatibilityDependencies("all")
              c == coreCompatibility("all")
              B == D \cup LinesOf("all")
              a1 == checkIdentity \o prepareDependencies \o p
              a2 == a1 \o format(FALSE) \o checkModule \o vet
              a3 == a2 \o lint \o security \o tests
              a4 == a3 \o coverage \o c \o offline
  <2>1. /\ p \in Seq(SuppliedFrames({})) /\ LinesOf("all") \subseteq Fetched(p)
        /\ c \in Seq(SuppliedFrames(LinesOf("all")))
    BY BoundariesFetched DEF LineFlags
  <2>2. Verification = a4
    BY DEF Verification
  <2>3. {"tools"} \subseteq B /\ LinesOf("all") \subseteq B /\ D \subseteq B
    OBVIOUS
  <2>. HIDE DEF p, c
  <2>4. Leaves(a1, B)
    BY <1>2, <1>5, <2>1
  <2>. HIDE DEF a1, B, D
  <2>5. Leaves(a2, B)
    BY <1>6, <2>3, <2>4
  <2>. HIDE DEF a2
  <2>6. Leaves(a2 \o lint, B)
    BY <1>1, <2>3, <2>5, SuppliedSteps
  <2>7. Leaves(a2 \o lint \o security, B)
    BY <1>1, <2>3, <2>6, SuppliedSteps
  <2>8. Leaves(a3, B)
    BY <1>4, <2>7, SuppliedSteps
  <2>. HIDE DEF a3
  <2>9. Leaves(a3 \o coverage, B)
    BY <1>4, <2>8, SuppliedSteps
  <2>10. Leaves(a3 \o coverage \o c, B)
    BY <1>1, <2>1, <2>3, <2>9
  <2>11. Leaves(a4, B)
    BY <1>4, <2>10, SuppliedSteps
  <2>. HIDE DEF a4
  <2>12. Leaves(a4 \o <<>>, B)
    <3>1. <<>> \in Seq(SuppliedFrames({}))
      BY EmptySeq
    <3>. QED
      BY <1>4, <2>11, <3>1
  <2>13. Leaves(t, B)
    <3>1. Leaves(a4 \o releaseRehearsal, B)
      BY <1>4, <2>11, SuppliedSteps
    <3>. QED
      BY <1>10, <2>2, <2>12, <3>1, StepsOfModes
  <2>. QED
    BY <2>13 DEF Leaves
<1>11. ASSUME mode = "unknown" PROVE Leaves(t, {})
  BY <1>3, <1>11, StepsOfModes
<1>12. Leaves(t, {})
  BY <1>7, <1>8, <1>9, <1>10, <1>11 DEF ModeFlags, Modes
<1>13. Program(mode, line) = start \o t \o requireReleaseTool
  BY DEF Program
<1>. HIDE DEF t
<1>14. Leaves(start \o t, {})
  <2>1. Ready(t, {} \cup Fetched(start))
    BY <1>12 DEF Leaves, Ready
  <2>. QED
    BY <1>3, <1>12, <2>1, ReadyConcat DEF Leaves
<1>15. Leaves(start \o t \o requireReleaseTool, {})
  BY <1>4, <1>14, SuppliedSteps
<1>. QED
  BY <1>13, <1>15 DEF Leaves

\* While no frame has failed, the graphs the network commands behind the gate
\* fetch are in the cache; only the formatter meets a cold one.
ReadyInv ==
  /\ ~failed =>
       \A i \in 1..Len(Frames) : \A k \in 1..Len(Frames[i].ops) :
         Behind(i, k) /\ Frames[i].ops[k].op \in Online
           => Frames[i].ops[k].arg \subseteq cache
  /\ "cold" \in faults => request.mode = "fmt"

LEMMA ReadyAbort ==
  ASSUME FaultInv, PlaceInv, CauseInv, ReadyInv, Abort PROVE ReadyInv'
<1>1. /\ failed' /\ request' = request /\ at[2] \in 1..Len(Ops)
      /\ Op = Frames[at[1]].ops[at[2]] /\ at[1] \in 1..Len(Frames) /\ ~Finished
  BY AbortPlace DEF Abort, PlaceInv
<1>2. ASSUME "cold" \in faults', "cold" \notin faults PROVE request.mode = "fmt"
  <2>1. Op.op \in Offline /\ ~(Op.arg \subseteq cache)
    BY <1>2 DEF Abort, Fail
  <2>2. SUFFICES ASSUME request.mode # "fmt" PROVE FALSE
    OBVIOUS
  <2>3. Ready(Frames, {})
    <3>1. request.mode \in ModeFlags /\ request.line \in LineFlags
      BY RequestAssumption DEF FaultInv
    <3>2. Frames = Program(request.mode, request.line)
      BY <3>1 DEF Frames, Programs
    <3>. QED
      BY <2>2, <3>1, <3>2, ProgramReady
  <2>4. PICK g \in Op.arg : g \notin cache
    BY <2>1
  <2>5. at[2] \in 1..Len(Frames[at[1]].ops)
    BY <1>1 DEF Ops
  <2>6. PICK j \in 1..(at[1] - 1) : Fetches(Frames[j], g)
    BY <1>1, <2>1, <2>3, <2>4, <2>5 DEF Ready
  <2>7. PICK k \in 1..Len(Frames[j].ops) :
          Frames[j].ops[k].op \in Online /\ g \in Frames[j].ops[k].arg
    BY <2>6 DEF Fetches
  <2>8. j \in 1..Len(Frames) /\ j < at[1]
    BY <1>1, PlaceFacts
  <2>9. ~failed
    BY <1>1 DEF CauseInv
  <2>10. Frames[j].ops[k].arg \subseteq cache
    BY <2>7, <2>8, <2>9 DEF ReadyInv, Behind
  <2>. QED
    BY <2>4, <2>7, <2>10
<1>. QED
  BY <1>1, <1>2 DEF ReadyInv

LEMMA ReadyStep ==
  ASSUME FaultInv, PlaceInv, CauseInv, ReadyInv, [Next]_vars PROVE ReadyInv'
<1>1. CASE Advance
  <2>1. /\ Frames' = Frames /\ at'[1] = at[1] /\ at'[2] = at[2] + 1
        /\ Op = Frames[at[1]].ops[at[2]] /\ at[1] \in Nat /\ at[2] \in Nat
    BY <1>1, AdvancePlace, PlaceFacts
  <2>2. /\ UNCHANGED <<request, failed, faults>> /\ cache \subseteq cache'
        /\ Op.op \in Online => Op.arg \subseteq cache'
    BY <1>1 DEF Advance, Pass
  <2>3. ASSUME ~failed, NEW i \in 1..Len(Frames),
               NEW k \in 1..Len(Frames[i].ops), Behind(i, k)',
               Frames[i].ops[k].op \in Online
        PROVE  Frames[i].ops[k].arg \subseteq cache'
    <3>1. Len(Frames[i].ops) \in Nat
      BY FramesShape, LenProperties DEF FaultInv, Fits
    <3>2. Behind(i, k) \/ (i = at[1] /\ k = at[2])
      BY <2>1, <2>3, <3>1 DEF Behind
    <3>3. CASE Behind(i, k)
      BY <2>2, <2>3, <3>3 DEF ReadyInv
    <3>4. CASE i = at[1] /\ k = at[2]
      BY <2>1, <2>2, <2>3, <3>4
    <3>. QED
      BY <3>2, <3>3, <3>4
  <2>. QED
    BY <2>1, <2>2, <2>3 DEF ReadyInv
<1>2. CASE Abort
  BY <1>2, ReadyAbort
<1>3. CASE /\ UNCHANGED <<request, at, cache>> /\ (~failed' => ~failed)
           /\ "cold" \in faults' => "cold" \in faults
  BY <1>3, StandStill DEF ReadyInv, Behind
<1>4. CASE Wait \/ Expire \/ Edit \/ UNCHANGED vars
  BY <1>3, <1>4 DEF Wait, Expire, Edit, vars
<1>5. CASE Remove
  BY <1>3, <1>5 DEF Remove
<1>6. CASE Compare
  BY <1>3, <1>6 DEF Compare
<1>7. CASE FrameDone
  <2>1. CASE UNCHANGED at
    BY <1>3, <1>7, <2>1 DEF FrameDone
  <2>2. CASE at' = <<at[1] + 1, 1>>
    <3>1. /\ Frames' = Frames /\ at'[1] = at[1] + 1 /\ at'[2] = 1
          /\ UNCHANGED <<request, cache, failed, faults>>
      BY <1>7, <2>2 DEF FrameDone, Frames
    <3>2. at[1] \in Nat /\ at[2] = Len(Ops) + 1 /\ Len(Ops) \in Nat
      BY <1>7, PlaceFacts DEF FrameDone
    <3>3. ASSUME NEW i \in 1..Len(Frames), NEW k \in 1..Len(Frames[i].ops),
                 Behind(i, k)'
          PROVE  Behind(i, k)
      <4>1. i < at[1] + 1 \/ k < 1
        BY <3>1, <3>3 DEF Behind
      <4>2. Len(Frames[i].ops) \in Nat
        BY FramesShape, LenProperties DEF FaultInv, Fits
      <4>3. i < at[1] \/ i = at[1]
        BY <3>2, <4>1, <4>2
      <4>4. i = at[1] => k < at[2]
        BY <3>2, <4>2 DEF Ops
      <4>. QED
        BY <4>3, <4>4 DEF Behind
    <3>. QED
      BY <3>1, <3>3 DEF ReadyInv
  <2>. QED
    BY <1>7, <2>1, <2>2 DEF FrameDone
<1>8. CASE Interrupt
  <2>1. Frames' = Frames /\ at'[1] = 1 /\ at'[2] = 1 /\ faults' = {}
    BY <1>8 DEF Interrupt, Frames
  <2>2. ASSUME NEW i \in 1..Len(Frames), NEW k \in 1..Len(Frames[i].ops)
        PROVE  ~Behind(i, k)'
    <3>1. Len(Frames) \in Nat /\ Len(Frames[i].ops) \in Nat
      BY PlaceFacts, FramesShape, LenProperties DEF FaultInv, Fits
    <3>. QED
      BY <2>1, <3>1 DEF Behind
  <2>. QED
    BY <2>1, <2>2 DEF ReadyInv
<1>. QED
  BY <1>1, <1>2, <1>4, <1>5, <1>6, <1>7, <1>8, OperationSteps
  DEF Next, GateStep, FaultInv

LEMMA ReadyAlways == Spec => [](FaultInv /\ CauseInv /\ ReadyInv)
<1>1. Init => ReadyInv
  <2>. SUFFICES ASSUME Init PROVE ReadyInv
    OBVIOUS
  <2>1. request \in Requests /\ at[1] = 1 /\ at[2] = 1 /\ faults = {}
    BY DEF Init
  <2>2. ASSUME NEW i \in 1..Len(Frames), NEW k \in 1..Len(Frames[i].ops)
        PROVE  ~Behind(i, k)
    <3>1. Len(Frames) \in Nat /\ Len(Frames[i].ops) \in Nat
      BY <2>1, FramesShape, LenProperties DEF Fits, Shape
    <3>. QED
      BY <2>1, <3>1 DEF Behind
  <2>. QED
    BY <2>1, <2>2 DEF ReadyInv
<1>. QED
  BY <1>1, ReadyStep, CauseAlways, PTL DEF Spec

\* run, prepareDependencies, prepareCompatibilityDependencies,
\* verifyCompatibilityBoundary: whatever the module cache holds at first and
\* whatever -mode and -line say, a gate that fails has met a fault: no command
\* but the formatter's lacks a module, and the gate's own temporary files, in
\* the repository or not, never make a boundary differ from what it was.
THEOREM FailuresHaveCauses == Spec => []FailureHasCause
<1>1. ASSUME FaultInv, CauseInv, ReadyInv PROVE FailureHasCause
  <2>. SUFFICES ASSUME exit = "1", faults \ {"cold"} = {}
                PROVE  request.mode = "fmt" /\ faults = {"cold"}
    BY DEF FailureHasCause
  <2>1. faults # {}
    BY <1>1 DEF FaultInv, CauseInv
  <2>2. faults = {"cold"}
    BY <2>1
  <2>. QED
    BY <1>1, <2>2 DEF ReadyInv
<1>. QED
  BY <1>1, ReadyAlways, PTL
=============================================================================

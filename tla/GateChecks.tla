----------------------------- MODULE GateChecks -----------------------------
(***************************************************************************)
(* What the quality gate decides about the repository's own files and      *)
(* about the output of the release renderer, as predicates.  A version is  *)
(* a number: 0 is the empty string and -n is n with white space around it. *)
(* A digest stands for the content it was taken of.                        *)
(***************************************************************************)
EXTENDS Integers, Sequences, FiniteSets

CONSTANTS developmentVersion, toolchainVersion   \* the release tools' versions

Core         == "spice"
ReleaseTools == {"development", "toolchain"}   \* modules and their tools

\* The version each release tool is authorized at.
Authorized(tool) ==
  IF tool = "development" THEN developmentVersion ELSE toolchainVersion

ToolPackage  == "internal/qualitygate"
Lines        == {"minimum", "current"}

-----------------------------------------------------------------------------
\* readCompatibility: one strict JSON document with two exact versions.
readCompatibility(repo) ==
  LET c == repo.compatibility
  IN c.decodes /\ c.schema = 1 /\ c.minimum > 0 /\ c.current > 0

\* compatibilityVersions.boundaries: the lines a -line flag stands for.
ValidLine(line) == line \in {"minimum", "current", "all"}

boundaries(line) ==
  CASE line = "minimum" -> <<"minimum">>
    [] line = "current" -> <<"current">>
    [] line = "all" -> <<"minimum", "current">>
    [] OTHER -> <<>>

\* The first direct requirement with a version counts, none is an error.
directRequirement(repo, module) ==
  LET direct == SelectSeq(repo.require, LAMBDA r : /\ r.path = module
                                                   /\ ~r.indirect
                                                   /\ r.version # 0)
  IN IF direct = <<>> THEN 0 ELSE direct[1].version

CanonicalModule(repo) == repo.canonical /\ ~repo.replaces

RequiresMinimum(repo) ==
  directRequirement(repo, Core) = repo.compatibility.minimum

\* Minimal version selection takes the highest version anything requires.
SelectedVersion(repo, boundary) ==
  IF repo.floor > repo.compatibility[boundary]
  THEN repo.floor ELSE repo.compatibility[boundary]

compatibilityPackages(repo) == repo.packages \ {ToolPackage}

\* totalCoverage against minimumCoverage, in tenths of a percent; a report
\* without a total is -1.
minimumCoverage == 850

CoverageOK(repo) == repo.coverage >= minimumCoverage

\* Each tool is declared once, and required at the exact version wherever it
\* is required.
validateReleaseToolAuthorization(repo) ==
  \A tool \in ReleaseTools :
    /\ Cardinality({i \in DOMAIN repo.tool : repo.tool[i] = tool}) = 1
    /\ \E i \in DOMAIN repo.require : repo.require[i].path = tool
    /\ \A i \in DOMAIN repo.require :
         repo.require[i].path = tool => repo.require[i].version = Authorized(tool)

-----------------------------------------------------------------------------
\* An output directory maps the files in it to their contents; the content
\* of checksums.txt is its lines, each a digest and a name, and whether the
\* last one ends with a newline.
Expected == <<"checksums", "sbom", "archive">>   \* sorted, as they must be
Vouched  == <<"sbom", "archive">>

\* Faulty variant: lines after the expected ones are not looked at.
ChecksumsPrefix(output) ==
  LET file == output["checksums"]
  IN /\ file.newline
     /\ \A i \in DOMAIN Vouched :
          /\ i <= Len(file.lines)
          /\ file.lines[i] = <<output[Vouched[i]], Vouched[i]>>

validateReleaseChecksums(output) ==
  LET file == output["checksums"]
  IN /\ file.newline
     /\ Len(file.lines) = Len(Vouched)
     /\ \A i \in DOMAIN Vouched :
          file.lines[i] = <<output[Vouched[i]], Vouched[i]>>

\* A strict SPDX document with the renderer's provenance.
validateReleaseSBOM(content) == content = "provenance"

ExpectedArtifacts(output) ==
  DOMAIN output = {Expected[i] : i \in DOMAIN Expected}

deterministicReleaseArtifacts(outputs) == outputs[1] = outputs[2]
=============================================================================

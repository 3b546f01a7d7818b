--------------------------- MODULE MCQualityGate ----------------------------
(* Invocations, repositories and renderings for TLC. *)
EXTENDS QualityGate

Requirement(path, version, indirect) ==
  [path |-> path, version |-> version, indirect |-> indirect]

Repository ==
  [canonical |-> TRUE, replaces |-> FALSE,
   compatibility |-> [decodes |-> TRUE, schema |-> 1, minimum |-> 1,
                      current |-> 2],
   require |-> <<Requirement("spice", 1, FALSE),
                 Requirement("development", 1, FALSE),
                 Requirement("toolchain", 2, FALSE)>>,
   tool |-> <<"development", "toolchain">>,
   floor |-> 1, packages |-> {"websocket", ToolPackage},
   coverage |-> 850, differs |-> {}]

Warm == {"product", "product tests", "tools", "tools tests", "minimum",
         "current"}

Request(mode, line, repo, modules0, inside) ==
  [mode |-> mode, line |-> line, repo |-> repo, cache |-> modules0,
   tempInside |-> inside]

\* Every mode on a sound repository with an empty module cache, and flags
\* that nothing stands for.
MCSound ==
  {Request("compatibility", l, Repository, {}, i) :
     l \in {"all", "current"}, i \in BOOLEAN}
  \cup {Request("verify", "minimum", Repository, {}, TRUE),
        Request("fmt", "all", Repository, Warm, FALSE),
        Request("compatibility", "unknown", Repository, Warm, FALSE)}
  \cup {Request(m, "all", Repository, {}, FALSE) :
          m \in Modes \cup {"unknown"}}

\* A repository with one thing wrong with it, in the mode that looks at it.
MCBroken ==
  {Request("compatibility", "all", r, Warm, FALSE) : r \in
     {[Repository EXCEPT !.compatibility = c] :
        c \in {[decodes |-> TRUE, schema |-> 1, minimum |-> 2, current |-> 1],
               [decodes |-> TRUE, schema |-> 1, minimum |-> 1, current |-> -2],
               [decodes |-> FALSE, schema |-> 1, minimum |-> 1, current |-> 2]}}
     \cup {[Repository EXCEPT !.floor = 2],
           [Repository EXCEPT !.packages = {ToolPackage}],
           [Repository EXCEPT !.differs = {"resolved"}]}}
  \cup {Request("verify", "all", [Repository EXCEPT !.coverage = 849], Warm,
                FALSE),
        Request("fmt", "all", [Repository EXCEPT !.differs = {"go"}], Warm,
                FALSE),
        Request("check", "all", [Repository EXCEPT !.differs = {"vendor"}],
                Warm, FALSE)}
  \cup {Request("release-rehearsal", "all", r, Warm, FALSE) : r \in
          {[Repository EXCEPT !.tool = <<"development">>],
           [Repository EXCEPT !.require =
              Append(@, Requirement("development", 2, TRUE))],
           [Repository EXCEPT !.require =
              <<@[1], Requirement("development", 2, FALSE),
                Requirement("toolchain", 1, FALSE)>>]}}

MCRequests == MCSound \cup MCBroken

Output(lines, newline, archive, sbom) ==
  [f \in {"checksums", "sbom", "archive"} |->
     CASE f = "checksums" -> [lines |-> lines, newline |-> newline]
       [] f = "sbom" -> sbom
       [] f = "archive" -> archive]

MCRenders ==
  LET good == <<<<"provenance", "sbom">>, <<"source", "archive">>>>
  IN {Output(good, TRUE, "source", "provenance"),
      Output(good, FALSE, "source", "provenance"),
      Output(good, TRUE, "other", "provenance"),
      Output(<<<<"unsound", "sbom">>, good[2]>>, TRUE, "source", "unsound"),
      Output(<<good[2], good[1]>>, TRUE, "source", "provenance"),
      Output(Append(good, good[1]), TRUE, "source", "provenance")}
=============================================================================

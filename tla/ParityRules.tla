------------------------------ MODULE ParityRules ------------------------------
(***************************************************************************)
(* The parity rules of src/parity/rules.ts, as functions of a repository:  *)
(* what each finds, and what its migration makes of the repository.        *)
(*                                                                         *)
(* A repository s is a record of the parts that more than one rule or the  *)
(* operator can tell apart (Values).  A part whose text only its own rule  *)
(* reads is one value, "ok", and its ways of being wrong.                  *)
(***************************************************************************)
EXTENDS Naturals, Sequences, FiniteSets

\* The rules, in the order of their registration.
Order == << "secrets.env-op", "mise.config-root", "mise.versioning",
            "skills.project-manifest", "sot.agent-symlinks",
            "bmad.scaffold", "bmad.version", "bmad.cli-roots",
            "sot.project-json", "provenance.copier", "board.schema" >>
Rules == {Order[i] : i \in DOMAIN Order}

\* The first of some rules in that order.
First(rules) ==
    Order[CHOOSE i \in DOMAIN Order : Order[i] \in rules /\ \A j \in 1..i-1 : Order[j] \notin rules]

\* The parts of a repository and what each may be.
Values == [
    \* .env.op, the .env lines of .gitignore, the enter hook and the script that make .env
    envOp |-> {"ok", "none", "example", "hands"}, ignore |-> {"ok", "none", "noline"},
    hook |-> {"managed", "none", "legacy"}, writer |-> {"ok", "none", "old"},
    \* mise.toml, its AGENTS-linking contract, its versioning block; scripts; version-files.conf
    mise |-> {"ok", "none", "torn"}, link |-> {"ok", "drift", "skills", "hand"},
    block |-> {"ok", "none"}, script |-> {"ok", "none", "old", "stale"},
    versions |-> {"ok", "none", "own"},
    \* retired skill writers; Skillex's selection; the CLI skills roots (in detail: SkillRoots),
    \* "mixed" when one is blocked and another can be converted
    retired |-> {"none", "file", "dir"}, skills |-> {"ok", "stale", "foreign"},
    roots |-> {"ok", "none", "real", "blocked", "mixed"},
    \* the agent files
    agents |-> {"none", "own", "claude", "gemini", "readme"}, readme |-> {"none", "there"},
    claude |-> {"link", "none", "file", "else", "broken"},
    gemini |-> {"link", "none", "file", "else", "broken"},
    \* .project.json ("vestige": its automation holds nothing but the retired reconcile), what
    \* it says, and the .plane.json it replaces
    json |-> {"ok", "none", "torn", "drift", "vestige"}, name |-> {"none", "own", "title"},
    roles |-> {"ok", "missing", "stale", "unprovisioned"}, optOut |-> {"no", "yes"},
    waived |-> SUBSET Rules, plane |-> {"none", "there", "both", "kept"},
    board |-> {"match", "unlinked", "differs"},
    \* Copier's answers; _bmad, the name and version in it; skills it supports no more
    copier |-> {"own", "title", "base", "none", "torn"}, bmad |-> {"full", "none", "part", "bad"},
    bmadName |-> {"own", "title", "base"}, version |-> {"now", "old"},
    unsupported |-> {"none", "generated", "own"}, ignoreAgents |-> {"ok", "none"} ]
Parts == DOMAIN Values

IsRepository(s) ==
    /\ s = [p \in Parts |-> s[p]]
    /\ \A p \in Parts : s[p] \in Values[p]

\* A failing finding is fixable or needs hands.
Verdict(fixable, manual) ==
    IF fixable THEN "fix" ELSE IF manual THEN "hands" ELSE "pass"

Outcome(before, after, held) ==
    [repo |-> after,
     status |-> IF held # "" THEN held
                ELSE IF after = before THEN "noop" ELSE "applied"]

Readable(s) == s.json \notin {"none", "torn"}

\* A mise.toml that is not there has no hook, contract or block; a .project.json that is
\* not there or cannot be parsed says nothing.
Sound(s) ==
    LET m == IF s.mise # "none" THEN s
             ELSE [s EXCEPT !.hook = "none", !.link = "ok", !.block = "none"]
    IN  IF Readable(m) THEN m
        ELSE [m EXCEPT !.name = "none", !.roles = "ok", !.optOut = "no", !.waived = {},
                       !.board = "unlinked"]

\* Names: "own" was chosen, "title" is made from the directory's, "base" is it.
CanonicalName(s) == IF s.name # "none" THEN s.name ELSE "title"
BmadName(s)      == IF s.name # "none" THEN s.name ELSE "base"

\* Faulty: it is made anew whatever there is.
WithMiseAnew(s) == [s EXCEPT !.mise = "ok", !.link = "ok", !.block = "ok", !.hook = "managed"]

\* mise.toml, made from the template (external: a submodule) where there is none.
WithMise(s) ==
    IF s.mise # "none" THEN s
    ELSE [s EXCEPT !.mise = "ok", !.link = "ok", !.block = "ok", !.hook = "managed"]

-----------------------------------------------------------------------------
(* secrets.env-op *)

EnvOpFinding(s) ==
    Verdict(\/ s.envOp # "ok" \/ s.ignore # "ok" \/ s.mise # "ok"
            \/ s.hook # (IF s.optOut = "yes" THEN "none" ELSE "managed")
            \/ s.writer # (IF s.optOut = "yes" THEN "none" ELSE "ok"), FALSE)

\* .gitignore is only completed when one of its two other lines is missing.
EnvOpRepair(s) ==
    LET m == WithMise(s)
        hook == IF s.optOut = "yes" THEN "none" ELSE "managed"
    IN  Outcome(s,
            [m EXCEPT !.envOp  = IF @ \in {"none", "example"} THEN "ok" ELSE @,
                      !.ignore = IF @ = "none" THEN "ok" ELSE @,
                      !.hook   = IF m.mise = "torn" THEN @ ELSE hook,
                      !.writer = IF s.optOut = "yes" THEN "none" ELSE "ok"],
            IF s.envOp = "hands" THEN "blocked"
            ELSE IF s.mise = "torn" THEN "partial" ELSE "")

(* mise.config-root.  A hook with more than the retired command in it ("hand") is
   the operator's to change. *)

ScriptIssue(s) == s.script \in {"none", "old"}

LinkFinding(s) ==
    Verdict(s.mise = "none" \/ ScriptIssue(s) \/ (s.mise = "ok" /\ s.link \in {"drift", "skills"}),
            s.mise = "torn" \/ s.link = "hand")

Linked(s) == IF s.mise = "ok" /\ s.link \in {"drift", "skills"}
             THEN [s EXCEPT !.link = "ok"] ELSE s

LinkRepair(s) ==
    Outcome(s, [Linked(WithMise(s)) EXCEPT !.script = "ok"],
            IF s.mise = "torn" \/ (s.mise = "ok" /\ s.link = "hand") THEN "partial" ELSE "")

(* mise.versioning *)

VersionsFinding(s) ==
    Verdict(s.mise = "none" \/ s.block = "none" \/ s.versions = "none", FALSE)

VersionsRepair(s) ==
    LET m == WithMise(s)
    IN  Outcome(s, [m EXCEPT !.block = IF m.mise = "ok" THEN "ok" ELSE @, !.versions = "ok"],
                IF s.mise = "torn" THEN "partial" ELSE "")

-----------------------------------------------------------------------------
(* skills.project-manifest.  Skillex is external: it brings "stale" selections up to
   date and refuses "foreign" ones, and it does nothing while a root is no alias. *)

\* Some root cannot be converted without loss.
Barred(s) == s.roots \in {"blocked", "mixed"}

Wiring(s) == s.mise = "torn" \/ (s.mise = "ok" /\ s.link \in {"skills", "hand"})

SkillsFinding(s) ==
    LET found == s.skills # "ok" \/ s.roots # "ok"
        clean == s.skills # "foreign" /\ ~Barred(s)
    IN  IF ~(found \/ Wiring(s) \/ s.retired # "none") THEN "pass"
        ELSE Verdict(/\ s.retired # "dir"
                     /\ \/ found /\ clean
                        \/ Wiring(s)
                        \/ s.retired = "file"
                        \/ s.mise = "ok" /\ s.link = "drift", TRUE)

Synced(s, works) ==
    IF works /\ s.roots = "ok" /\ s.skills = "stale" THEN [s EXCEPT !.skills = "ok"] ELSE s

\* Each root whose own plan is clean is converted; a blocked one is left as it is.
Converted(roots) ==
    IF roots \in {"none", "real"} THEN "ok" ELSE IF roots = "mixed" THEN "blocked" ELSE roots

WithRoots(s) == [s EXCEPT !.roots = Converted(@)]

SkillsRepair(s, works) ==
    IF s.retired = "dir" THEN Outcome(s, s, "blocked")
    ELSE LET t == Synced(WithRoots(Linked(WithMise([s EXCEPT !.retired = "none"]))), works)
             fine == t.skills = "ok" /\ t.roots = "ok" /\ works
         IN  Outcome(s, t, IF fine THEN "" ELSE IF t = s THEN "blocked" ELSE "partial")

(* sot.agent-symlinks.  CLAUDE.md and GEMINI.md are links to AGENTS.md, files of the
   operator's, links to something else ("else"), or links to nothing ("broken"). *)

There(s, f) == s[f] \in {"file", "else"} \/ (s[f] = "link" /\ s.agents # "none")

SymlinksFinding(s) ==
    IF s.agents = "none"
    THEN IF s.readme = "there" \/ There(s, "claude") \/ There(s, "gemini") THEN "fix" ELSE "skip"
    ELSE Verdict(s.claude # "link" \/ s.gemini # "link", FALSE)

\* AGENTS.md is made of the first agent file that is one, or else of README.md.
Bootstrapped(s) ==
    IF s.agents # "none" THEN s
    ELSE IF s.claude = "file" THEN [s EXCEPT !.agents = "claude", !.claude = "none"]
    ELSE IF s.gemini = "file" THEN [s EXCEPT !.agents = "gemini", !.gemini = "none"]
    ELSE IF s.readme = "there" THEN [s EXCEPT !.agents = "readme"] ELSE s

\* Faulty: any file in the way is replaced.
EnsureSymlinkAnyway(s, f) == [s EXCEPT ![f] = "link"]

\* A file is left alone.
EnsureSymlink(s, f) == IF s[f] \in {"none", "else"} THEN [s EXCEPT ![f] = "link"] ELSE s

\* A broken link makes symlinkSync() throw, before the file after it is looked at.
SymlinksRepair(s) ==
    LET b == Bootstrapped(s)
        c == EnsureSymlink(b, "claude")
    IN  IF b.agents = "none" THEN Outcome(s, s, "blocked")
        ELSE IF b.claude = "broken" THEN Outcome(s, b, "blocked")
        ELSE LET t == EnsureSymlink(c, "gemini")
             IN  Outcome(s, t, IF t.claude = "link" /\ t.gemini = "link" THEN "" ELSE "blocked")

-----------------------------------------------------------------------------
(* bmad.scaffold, bmad.version, bmad.cli-roots.  The installer is external: it fills
   in what is missing, sets the name it is given and its own version, makes a real
   directory of a root that is not there, and writes skills where Skillex had links;
   what is left of that is handed over to Skillex. *)

ScaffoldFinding(s) ==
    IF s.bmad = "bad" THEN "hands"
    ELSE Verdict(s.bmad # "full" \/ s.bmadName # BmadName(s), FALSE)

\* Faulty: the installer is not told the project's name.
InstalledUnnamed(s, handed) ==
    Synced([s EXCEPT !.bmad = "full", !.bmadName = "base", !.version = "now",
                     !.roots = IF @ = "none" THEN "real" ELSE @], handed)

Installed(s, handed) ==
    LET fresh == s.bmad = "none" \/ s.version = "old"
        t == [s EXCEPT !.bmad = "full", !.bmadName = BmadName(s), !.version = "now",
                       !.roots = IF @ = "none" THEN "real" ELSE @,
                       !.skills = IF fresh /\ @ = "ok" THEN "stale" ELSE @]
    IN  Synced(t, handed)

\* What "applied" says is the missing files and the names, not what the installer wrote.
ScaffoldRepair(s, works, handed) ==
    IF s.bmad = "bad" \/ ~works THEN Outcome(s, s, "blocked")
    ELSE LET found == ScaffoldFinding(s) = "fix"
         IN  Outcome(s, Installed(s, found /\ handed), IF found THEN "applied" ELSE "noop")

VersionFinding(s) ==
    IF s.bmad = "none" THEN "skip" ELSE Verdict(s.version = "old", FALSE)

VersionRepair(s, works, handed) ==
    IF s.bmad = "none" \/ s.version = "now" THEN Outcome(s, s, "noop")
    ELSE IF s.bmad = "bad" \/ ~works THEN Outcome(s, s, "blocked")
    ELSE Outcome(s, Installed(s, handed), "applied")

RootsIssue(s) == s.roots # "ok" \/ s.bmad = "none"

RootsFinding(s) ==
    IF ~(RootsIssue(s) \/ s.unsupported # "none" \/ s.ignoreAgents = "none") THEN "pass"
    ELSE Verdict(s.unsupported # "own" /\ (RootsIssue(s) => ~Barred(s)), TRUE)

RootsRepair(s) ==
    IF s.unsupported = "own" THEN Outcome(s, s, "blocked")
    ELSE IF Barred(s) THEN Outcome(s, WithRoots(s), IF s.roots = "mixed" THEN "partial" ELSE "blocked")
    ELSE Outcome(s, [s EXCEPT !.roots = "ok", !.ignoreAgents = "ok", !.unsupported = "none"], "")

-----------------------------------------------------------------------------
(* sot.project-json, provenance.copier, board.schema *)

JsonFinding(s) ==
    IF ~Readable(s) THEN "fix"
    ELSE Verdict(\/ s.json \in {"drift", "vestige"} \/ s.name = "none"
                 \/ s.roles \in {"missing", "stale"} \/ s.plane \in {"there", "both"},
                 s.roles = "unprovisioned")

\* An agent that is declared and not provisioned stays declared.  An automation that is
\* left out because nothing else is in it is not taken out of what the file already says.
Canonical(s) ==
    [s EXCEPT !.json = IF @ = "vestige" THEN @ ELSE "ok", !.name = CanonicalName(s),
              !.roles = IF @ = "unprovisioned" THEN @ ELSE "ok"]

JsonRepair(s) ==
    Outcome(s, [Canonical(s) EXCEPT !.plane = IF @ = "there" THEN "kept" ELSE @],
            IF s.plane = "both" THEN "blocked" ELSE "")

CopierFinding(s) ==
    Verdict(\/ s.copier \in {"none", "torn"}
            \/ s.name # "none" /\ s.copier # s.name, FALSE)

CopierRepair(s) == Outcome(s, [s EXCEPT !.copier = CanonicalName(s)], "")

BoardFinding(s) ==
    IF s.board = "unlinked" THEN "skip"
    ELSE Verdict(s.board = "differs", FALSE)

BoardRepair(s, works) ==
    IF s.board = "unlinked" THEN Outcome(s, s, "skipped")
    ELSE IF ~works THEN Outcome(s, s, "blocked")
    ELSE Outcome(s, [s EXCEPT !.board = "match"], "")

-----------------------------------------------------------------------------
\* What rule r finds.
Finding(r, s) ==
    CASE r = "secrets.env-op" -> EnvOpFinding(s)
      [] r = "mise.config-root" -> LinkFinding(s)
      [] r = "mise.versioning" -> VersionsFinding(s)
      [] r = "skills.project-manifest" -> SkillsFinding(s)
      [] r = "sot.agent-symlinks" -> SymlinksFinding(s)
      [] r = "bmad.scaffold" -> ScaffoldFinding(s)
      [] r = "bmad.version" -> VersionFinding(s)
      [] r = "bmad.cli-roots" -> RootsFinding(s)
      [] r = "sot.project-json" -> JsonFinding(s)
      [] r = "provenance.copier" -> CopierFinding(s)
      [] r = "board.schema" -> BoardFinding(s)

\* What its migration does; works, handed: the program it calls does as it is asked.
Repair(r, s, works, handed) ==
    CASE r = "secrets.env-op" -> EnvOpRepair(s)
      [] r = "mise.config-root" -> LinkRepair(s)
      [] r = "mise.versioning" -> VersionsRepair(s)
      [] r = "skills.project-manifest" -> SkillsRepair(s, works)
      [] r = "sot.agent-symlinks" -> SymlinksRepair(s)
      [] r = "bmad.scaffold" -> ScaffoldRepair(s, works, handed)
      [] r = "bmad.version" -> VersionRepair(s, works, handed)
      [] r = "bmad.cli-roots" -> RootsRepair(s)
      [] r = "sot.project-json" -> JsonRepair(s)
      [] r = "provenance.copier" -> CopierRepair(s)
      [] r = "board.schema" -> BoardRepair(s, works)

Outside == {"skills.project-manifest", "bmad.scaffold", "bmad.version", "board.schema"}

Fine(r, s) == Finding(r, s) \in {"pass", "skip"}
=============================================================================

---------------------------- MODULE BmadVersions ----------------------------
(* What pjangler asks of BMAD's installer (parity/rules.ts): which modules, at
   which version, from which package, and when it looks at npm at all. Modules
   Parity and BmadUpdate say what becomes of a repository when it asks; here are
   the algorithms behind the question. A version is its three numbers and the
   identifiers behind the dash; a name of a module is a value. *)
EXTENDS Integers, Sequences, FiniteSets

CONSTANTS Names,     \* names of modules, with "core", "custom", "g33"
          Ids, Num,  \* pre-release identifiers; what they are as numbers, or NaN
          Rank,      \* their order as texts
          NaN, None

Least(S) == CHOOSE x \in S : \A y \in S : x <= y

---------------------------------------------------------------------------
(* Versions *)

Versions == [core : Nat \X Nat \X Nat, pre : Seq(Ids)]

Sign(n) == IF n < 0 THEN -1 ELSE IF n > 0 THEN 1 ELSE 0
CompareIds(x, y) == IF Num[x] # NaN /\ Num[y] # NaN THEN Sign(Num[x] - Num[y])
                    ELSE Sign(Rank[x] - Rank[y])

\* The first place where one list ends or the identifiers differ decides.
ComparePre(p, q) ==
  LET D == {i \in 1 .. Len(p) : i > Len(q) \/ CompareIds(p[i], q[i]) # 0}
           \cup {i \in 1 .. Len(q) : i > Len(p)}
      i == Least(D)
  IN  IF D = {} THEN 0
      ELSE IF i > Len(p) THEN -1 ELSE IF i > Len(q) THEN 1 ELSE CompareIds(p[i], q[i])

\* compareBmadVersions: a release is after its pre-releases.
Compare(a, b) ==
  LET D == {i \in 1 .. 3 : a.core[i] # b.core[i]} IN
  IF D # {} THEN Sign(a.core[Least(D)] - b.core[Least(D)])
  ELSE IF a.pre = b.pre THEN 0
  ELSE IF a.pre = <<>> THEN 1 ELSE IF b.pre = <<>> THEN -1
  ELSE ComparePre(a.pre, b.pre)

\* bmadChannelTarget, of the tags among `next` and `latest` that npm has: the tag
\* to go to, if any.
Target(tags) ==
  IF "next" \notin DOMAIN tags THEN {}
  ELSE IF "latest" \in DOMAIN tags /\ Compare(tags["latest"], tags["next"]) > 0
       THEN {"latest"} ELSE {"next"}

---------------------------------------------------------------------------
(* The cache of npm's tags *)

Ttl == 60    \* minutes

\* resolveBmadDistTags: npm answers `fetched` or nothing; saves says whether the
\* cache can be written.
Resolve(cache, now, fetched, saves) ==
  IF cache # None /\ now - cache.at < Ttl
  THEN [tags |-> cache.tags, stale |-> FALSE, cache |-> cache]
  ELSE IF fetched # None
  THEN [tags |-> fetched, stale |-> FALSE,
        cache |-> IF saves THEN [at |-> now, tags |-> fetched] ELSE cache]
  ELSE IF cache # None THEN [tags |-> cache.tags, stale |-> TRUE, cache |-> cache]
  ELSE [tags |-> None, stale |-> FALSE, cache |-> cache]

---------------------------------------------------------------------------
(* The modules *)

\* An entry of the manifest: a record of the retired reserved name, something
\* that names no module, or a module with the channel and version it rides.
Modules == [is : {"module"}, name : Names, channel : {"stable", "next", "pinned"}]
Entry == Modules \cup {[is |-> "legacy"], [is |-> "bad"]}
NamesIn(entries) == {e.name : e \in {x \in entries : x.is = "module"}}
DefaultModules == {"bmm", "bmb", "cis"}

\* The manifest and config.toml, each of which may be absent; a manifest may be
\* no YAML or hold no list.
Manifests == [there : BOOLEAN, legible : BOOLEAN, entries : SUBSET Entry]
Tomls == [there : BOOLEAN, modules : SUBSET Names]

\* manifestBmadModules, then config.toml, then the defaults. A manifest that
\* cannot be read as one, or names no module somewhere, is refused.
Invalid(manifest) == manifest.there /\ (~manifest.legible \/ [is |-> "bad"] \in manifest.entries)
Selected(manifest, toml) ==
  IF manifest.there THEN NamesIn(manifest.entries) \ {"core", "custom", "g33"}
  ELSE IF toml.there THEN toml.modules \ {"g33"}
  ELSE DefaultModules

\* Whether g33, which its owner installs, was there before: either file says so.
HadG33(manifest, toml) ==
  \/ manifest.there /\ ~Invalid(manifest) /\ "g33" \in NamesIn(manifest.entries)
  \/ toml.there /\ "g33" \in toml.modules

\* requiredBmadSentinels; bmadInstallerArgs (none at all would mean defaults).
Sentinels(modules) == {"core", "config.toml", "manifest"} \cup modules
ModulesArg(modules) == IF modules = {} THEN {"core"} ELSE modules

\* bmadProjectNameIssues: the files that give another name. Only declared modules
\* count; an unreadable declaration makes every directory count.
NameIssues(expected, tomlName, manifest, toml, configs) ==
  LET checked == IF Invalid(manifest) THEN DOMAIN configs
                 ELSE Selected(manifest, toml) \cap DOMAIN configs IN
  {m \in checked : configs[m] # expected}
  \cup (IF tomlName = expected THEN {} ELSE {"config.toml"})

\* bmadUpgradeChannelArgs: a stable installer moves every module to its stable
\* channel, except what the operator has pinned.
ChannelArgs(version, manifest) ==
  IF version.pre # <<>> \/ ~manifest.there \/ ~manifest.legible THEN [update |-> FALSE, pins |-> {}]
  ELSE [update |-> TRUE,
        pins |-> {e.name : e \in {x \in manifest.entries : x.is = "module" /\ x.channel = "pinned"}}]

---------------------------------------------------------------------------
(* The installer *)

\* resolveBmadInstallerPackage. above: the directories over an explicit installer
\* and whether each is the root of a bmad-method package; npx: how the probe of
\* npm ended and whether what it printed lies in such a package. At most one root.
PackageRoot(explicit, above, npx) ==
  IF explicit
  THEN LET found == {i \in 1 .. Len(above) : i <= 5 /\ above[i]} IN
       IF found = {} THEN {} ELSE {Least(found)}
  ELSE IF npx.status = 0 /\ npx.package THEN {0} ELSE {}

\* preflightBmadLifecycle: the pinned version is among those the probe printed.
ProbeOk(status, reported, pin) == status = 0 /\ pin \in reported

\* invokeBmadInstallerProcess, runBmadInstall: the fingerprinted entry when there
\* is one; what g33 left that nobody reconciles stops the run before it.
Invocation(root, preserved, status) ==
  IF preserved THEN [ran |-> "nothing", ok |-> FALSE]
  ELSE [ran |-> IF root = {} THEN "npx" ELSE "entry", ok |-> status = 0]

---------------------------------------------------------------------------
(* What is promised *)

\* Identifiers that stand at the same place are of one kind, as in next.1, next.12.
Alike(a, b) == \A i \in 1 .. Len(a.pre) \cap 1 .. Len(b.pre) :
                 (Num[a.pre[i]] = NaN) <=> (Num[b.pre[i]] = NaN)

\* compareBmadVersions orders versions whose identifiers are alike (PJAN-149: the
\* audit and the migration must agree on which of two is behind).
OrdersAlike(a, b, c) ==
  /\ Compare(a, b) = -Compare(b, a)
  /\ Alike(a, b) /\ Alike(b, c) /\ Alike(a, c) /\ Compare(a, b) <= 0 /\ Compare(b, c) <= 0
       => Compare(a, c) <= 0

\* The target of an upgrade is never behind a tag that is known with `next`.
TargetIsLatest(tags) ==
  \A to \in Target(tags), t \in DOMAIN tags : Compare(tags[to], tags[t]) >= 0

\* What is not marked stale is younger than an hour, as long as the clock has
\* not been set back; a failed write loses nothing.
FreshIsYoung(cache, now, fetched, saves) ==
  LET r == Resolve(cache, now, fetched, saves) IN
  /\ r.tags # None /\ ~r.stale /\ (cache # None => cache.at <= now)
       => r.tags = fetched \/ (now - cache.at < Ttl /\ r.tags = cache.tags)
  /\ cache # None => r.tags # None /\ r.cache # None

\* The installer is asked for every module of the operator's and never for g33;
\* a selection it is asked for is one whose sentinels the audit looks for.
AskedIsDeclared(manifest, toml) ==
  LET s == Selected(manifest, toml) IN
  ~Invalid(manifest) =>
    /\ "g33" \notin ModulesArg(s) /\ ModulesArg(s) # {}
    /\ ModulesArg(s) \subseteq Sentinels(s)
    /\ manifest.there => NamesIn(manifest.entries) \subseteq s \cup {"core", "custom", "g33"}
    /\ manifest.there /\ "g33" \in NamesIn(manifest.entries) => HadG33(manifest, toml)

\* No upgrade moves a module that the operator has pinned off its version.
PinsAreKept(version, manifest) ==
  LET c == ChannelArgs(version, manifest) IN
  c.update => \A e \in manifest.entries : e.is = "module" /\ e.channel = "pinned" => e.name \in c.pins
=============================================================================

----------------------- MODULE ParityAndCaptures_proofs -----------------------
(* Two parts that share nothing but this file.  First, what TLAPS proves of   *)
(* the parity rules and of the command that migrates by them, for all         *)
(* deviations, repositories and bounds: a repository settles, a report of     *)
(* success is true, and no migration takes what is the operator's or another  *)
(* rule's.  Then what it proves of the capture of sessions, for all sets of   *)
(* sessions and workers, and every limit and bound: that a success is final,  *)
(* that a retry is one attempt, and that evidence is kept while it is         *)
(* referred to.                                                               *)
EXTENDS Parity, CaptureReceipts, FiniteSetTheorems, TLAPS

-----------------------------------------------------------------------------
(* Parity: repositories, part by part *)

\* But for some parts, t is as s is.
Alike(s, t, parts) == \A p \in Parts \ parts : t[p] = s[p]

\* A repository stays one when its parts become what they may be.
LEMMA Retyped ==
  ASSUME NEW s, IsRepository(s), NEW t, DOMAIN t = Parts, t = [p \in Parts |-> t[p]],
         NEW parts, Alike(s, t, parts), \A p \in parts : t[p] \in Values[p]
  PROVE  IsRepository(t)
BY DEF IsRepository, Alike

LEMMA PartsAre ==
  Parts = {"envOp", "ignore", "hook", "writer", "mise", "link", "block", "script", "versions",
           "retired", "skills", "roots", "agents", "readme", "claude", "gemini", "json", "name",
           "roles", "optOut", "waived", "plane", "board", "copier", "bmad", "bmadName",
           "version", "unsupported", "ignoreAgents"}
BY DEF Parts, Values

\* One part is given a value.
LEMMA OnePart ==
  ASSUME NEW s, IsRepository(s), NEW p \in Parts, NEW v \in Values[p],
         NEW t, t = [s EXCEPT ![p] = v]
  PROVE  IsRepository(t) /\ t[p] = v /\ Alike(s, t, {p})
<1>1. DOMAIN s = Parts
  BY DEF IsRepository
<1>2. DOMAIN t = Parts /\ t = [x \in Parts |-> t[x]] /\ t[p] = v
  BY <1>1
<1>3. Alike(s, t, {p})
  BY <1>1 DEF Alike
<1> QED BY <1>2, <1>3 DEF IsRepository, Alike

\* Two repositories with the same parts are one.
LEMMA SameParts ==
  ASSUME NEW s, IsRepository(s), NEW t, IsRepository(t), Alike(s, t, {})
  PROVE  t = s
<1>1. \A p \in Parts : t[p] = s[p]
  BY DEF Alike
<1>2. s = [p \in Parts |-> s[p]] /\ t = [p \in Parts |-> t[p]]
  BY DEF IsRepository
<1> QED BY <1>1, <1>2

LEMMA WithMiseEffect ==
  ASSUME NEW s, IsRepository(s), NEW t, t = WithMise(s)
  PROVE  /\ IsRepository(t)
         /\ t.mise = IF s.mise = "none" THEN "ok" ELSE s.mise
         /\ t.link = IF s.mise = "none" THEN "ok" ELSE s.link
         /\ t.block = IF s.mise = "none" THEN "ok" ELSE s.block
         /\ t.hook = IF s.mise = "none" THEN "managed" ELSE s.hook
         /\ Alike(s, t, {"mise", "link", "block", "hook"})
<1>1. CASE s.mise = "none"
  <2>1. t = [s EXCEPT !.mise = "ok", !.link = "ok", !.block = "ok", !.hook = "managed"]
    BY <1>1 DEF WithMise
  <2>2. DOMAIN s = Parts /\ DOMAIN t = Parts
    BY <2>1 DEF IsRepository
  <2>3. Alike(s, t, {"mise", "link", "block", "hook"})
    <3> SUFFICES ASSUME NEW p \in Parts, p # "mise", p # "link", p # "block", p # "hook"
                 PROVE  t[p] = s[p]
      BY DEF Alike
    <3> QED BY <2>1, <2>2
  <2>4. t.mise = "ok" /\ t.link = "ok" /\ t.block = "ok" /\ t.hook = "managed"
    BY <2>1, <2>2, PartsAre
  <2>5. t = [p \in Parts |-> t[p]]
    BY <2>1, <2>2
  <2>6. IsRepository(t)
    BY <2>2, <2>3, <2>4, <2>5, Retyped DEF Values
  <2> QED BY <1>1, <2>3, <2>4, <2>6
<1>2. CASE s.mise # "none"
  BY <1>2 DEF WithMise, Alike
<1> QED BY <1>1, <1>2

LEMMA LinkedEffect ==
  ASSUME NEW s, IsRepository(s), NEW t, t = Linked(s)
  PROVE  /\ IsRepository(t)
         /\ t.link = IF s.mise = "ok" /\ s.link \in {"drift", "skills"} THEN "ok" ELSE s.link
         /\ Alike(s, t, {"link"})
<1>1. CASE s.mise = "ok" /\ s.link \in {"drift", "skills"}
  <2>1. t = [s EXCEPT !["link"] = "ok"]
    BY <1>1 DEF Linked
  <2>2. "link" \in Parts /\ "ok" \in Values["link"]
    BY PartsAre DEF Values
  <2>3. IsRepository(t) /\ t["link"] = "ok" /\ Alike(s, t, {"link"})
    BY <2>1, <2>2, OnePart
  <2> QED BY <1>1, <2>3
<1>2. CASE ~(s.mise = "ok" /\ s.link \in {"drift", "skills"})
  BY <1>2 DEF Linked, Alike
<1> QED BY <1>1, <1>2

LEMMA EnvOpEffect ==
  ASSUME NEW s, IsRepository(s), NEW t, t = EnvOpRepair(s).repo
  PROVE  /\ IsRepository(t)
         /\ t.envOp  = IF s.envOp \in {"none", "example"} THEN "ok" ELSE s.envOp
         /\ t.ignore = IF s.ignore = "none" THEN "ok" ELSE s.ignore
         /\ t.writer = IF s.optOut = "yes" THEN "none" ELSE "ok"
         /\ t.mise = IF s.mise = "none" THEN "ok" ELSE s.mise
         /\ t.link = IF s.mise = "none" THEN "ok" ELSE s.link
         /\ t.block = IF s.mise = "none" THEN "ok" ELSE s.block
         /\ t.hook = IF s.mise = "torn" THEN s.hook ELSE IF s.optOut = "yes" THEN "none" ELSE "managed"
         /\ Alike(s, t, {"envOp", "ignore", "writer", "mise", "link", "block", "hook"})
<1> DEFINE m == WithMise(s)
           hook == IF m.mise = "torn" THEN m.hook ELSE IF s.optOut = "yes" THEN "none" ELSE "managed"
           writer == IF s.optOut = "yes" THEN "none" ELSE "ok"
           envOp == IF m.envOp \in {"none", "example"} THEN "ok" ELSE m.envOp
           ignore == IF m.ignore = "none" THEN "ok" ELSE m.ignore
<1>1. t = [m EXCEPT !.envOp = envOp, !.ignore = ignore, !.hook = hook, !.writer = writer]
  BY DEF EnvOpRepair, Outcome
<1>2. /\ IsRepository(m) /\ Alike(s, m, {"mise", "link", "block", "hook"})
      /\ m.mise = IF s.mise = "none" THEN "ok" ELSE s.mise
      /\ m.link = IF s.mise = "none" THEN "ok" ELSE s.link
      /\ m.block = IF s.mise = "none" THEN "ok" ELSE s.block
      /\ m.hook = IF s.mise = "none" THEN "managed" ELSE s.hook
  BY WithMiseEffect
<1> HIDE DEF m
<1>3. DOMAIN m = Parts /\ DOMAIN t = Parts /\ t = [p \in Parts |-> t[p]]
  BY <1>1, <1>2 DEF IsRepository
<1>4. t.envOp = envOp /\ t.ignore = ignore /\ t.hook = hook /\ t.writer = writer
  BY <1>1, <1>3, PartsAre
<1>5. Alike(m, t, {"envOp", "ignore", "hook", "writer"})
  <2> SUFFICES ASSUME NEW p \in Parts, p # "envOp", p # "ignore", p # "hook", p # "writer"
               PROVE  t[p] = m[p]
    BY DEF Alike
  <2> QED BY <1>1, <1>3
<1>6. \A p \in {"envOp", "ignore", "hook", "writer"} : m[p] \in Values[p]
  BY <1>2, PartsAre DEF IsRepository
<1>7. IsRepository(t)
  <2>1. envOp \in Values.envOp /\ ignore \in Values.ignore /\ hook \in Values.hook /\ writer \in Values.writer
    BY <1>6 DEF Values
  <2> HIDE DEF envOp, ignore, hook, writer
  <2> QED BY <2>1, <1>2, <1>3, <1>4, <1>5, Retyped
<1> QED BY <1>2, <1>4, <1>5, <1>7, PartsAre DEF Alike

LEMMA LinkEffect ==
  ASSUME NEW s, IsRepository(s), NEW t, t = LinkRepair(s).repo
  PROVE  /\ IsRepository(t)
         /\ t.mise = IF s.mise = "none" THEN "ok" ELSE s.mise
         /\ t.link = IF s.mise = "none" \/ (s.mise = "ok" /\ s.link \in {"drift", "skills"}) THEN "ok" ELSE s.link
         /\ t.block = IF s.mise = "none" THEN "ok" ELSE s.block
         /\ t.hook = IF s.mise = "none" THEN "managed" ELSE s.hook
         /\ t.script = "ok"
         /\ Alike(s, t, {"mise", "link", "block", "hook", "script"})
<1> DEFINE m == WithMise(s)
           l == Linked(m)
<1>1. t = [l EXCEPT !["script"] = "ok"]
  BY DEF LinkRepair, Outcome
<1>2. /\ IsRepository(m) /\ Alike(s, m, {"mise", "link", "block", "hook"})
      /\ m.mise = IF s.mise = "none" THEN "ok" ELSE s.mise
      /\ m.link = IF s.mise = "none" THEN "ok" ELSE s.link
      /\ m.block = IF s.mise = "none" THEN "ok" ELSE s.block
      /\ m.hook = IF s.mise = "none" THEN "managed" ELSE s.hook
  BY WithMiseEffect
<1> HIDE DEF m
<1>3. /\ IsRepository(l) /\ Alike(m, l, {"link"})
      /\ l.link = IF m.mise = "ok" /\ m.link \in {"drift", "skills"} THEN "ok" ELSE m.link
  BY <1>2, LinkedEffect
<1> HIDE DEF l
<1>4. "script" \in Parts /\ "ok" \in Values["script"]
  BY PartsAre DEF Values
<1>5. IsRepository(t) /\ t["script"] = "ok" /\ Alike(l, t, {"script"})
  BY <1>1, <1>3, <1>4, OnePart
<1> QED BY <1>2, <1>3, <1>5, PartsAre DEF Alike

LEMMA VersionsEffect ==
  ASSUME NEW s, IsRepository(s), NEW t, t = VersionsRepair(s).repo
  PROVE  /\ IsRepository(t)
         /\ t.mise = IF s.mise = "none" THEN "ok" ELSE s.mise
         /\ t.link = IF s.mise = "none" THEN "ok" ELSE s.link
         /\ t.block = IF s.mise = "torn" THEN s.block ELSE "ok"
         /\ t.hook = IF s.mise = "none" THEN "managed" ELSE s.hook
         /\ t.versions = "ok"
         /\ Alike(s, t, {"mise", "link", "block", "hook", "versions"})
<1> DEFINE m == WithMise(s)
           block == IF m.mise = "ok" THEN "ok" ELSE m.block
<1>1. t = [m EXCEPT !.block = block, !.versions = "ok"]
  BY DEF VersionsRepair, Outcome
<1>2. /\ IsRepository(m) /\ Alike(s, m, {"mise", "link", "block", "hook"})
      /\ m.mise = IF s.mise = "none" THEN "ok" ELSE s.mise
      /\ m.link = IF s.mise = "none" THEN "ok" ELSE s.link
      /\ m.block = IF s.mise = "none" THEN "ok" ELSE s.block
      /\ m.hook = IF s.mise = "none" THEN "managed" ELSE s.hook
  BY WithMiseEffect
<1> HIDE DEF m
<1>3. DOMAIN m = Parts /\ DOMAIN t = Parts /\ t = [p \in Parts |-> t[p]]
  BY <1>1, <1>2 DEF IsRepository
<1>4. t.block = block /\ t.versions = "ok"
  BY <1>1, <1>3, PartsAre
<1>5. Alike(m, t, {"block", "versions"})
  <2> SUFFICES ASSUME NEW p \in Parts, p # "block", p # "versions"
               PROVE  t[p] = m[p]
    BY DEF Alike
  <2> QED BY <1>1, <1>3
<1>6. m.block \in Values.block /\ s.mise \in Values.mise
  BY <1>2, PartsAre DEF IsRepository
<1>7. block \in Values.block /\ "ok" \in Values.versions /\ s.mise \in {"ok", "none", "torn"}
  BY <1>6 DEF Values
<1>8. IsRepository(t)
  <2> HIDE DEF block
  <2> QED BY <1>2, <1>3, <1>4, <1>5, <1>7, Retyped
<1> QED BY <1>2, <1>4, <1>5, <1>7, <1>8, PartsAre DEF Alike

LEMMA WithRootsEffect ==
  ASSUME NEW s, IsRepository(s), NEW t, t = WithRoots(s)
  PROVE  /\ IsRepository(t)
         /\ t.roots = Converted(s.roots)
         /\ Alike(s, t, {"roots"})
<1>1. t = [s EXCEPT !["roots"] = Converted(s.roots)]
  BY PartsAre DEF WithRoots, IsRepository
<1>2. "roots" \in Parts /\ Converted(s.roots) \in Values["roots"]
  <2>1. s.roots \in Values.roots
    BY PartsAre DEF IsRepository
  <2> QED BY <2>1, PartsAre DEF Values, Converted
<1>3. IsRepository(t) /\ t["roots"] = Converted(s.roots) /\ Alike(s, t, {"roots"})
  BY <1>1, <1>2, OnePart
<1> QED BY <1>3

LEMMA SyncedEffect ==
  ASSUME NEW s, IsRepository(s), NEW works \in BOOLEAN, NEW t, t = Synced(s, works)
  PROVE  /\ IsRepository(t)
         /\ t.skills = IF works /\ s.roots = "ok" /\ s.skills = "stale" THEN "ok" ELSE s.skills
         /\ Alike(s, t, {"skills"})
<1>1. CASE works /\ s.roots = "ok" /\ s.skills = "stale"
  <2>1. t = [s EXCEPT !["skills"] = "ok"]
    BY <1>1 DEF Synced
  <2>2. "skills" \in Parts /\ "ok" \in Values["skills"]
    BY PartsAre DEF Values
  <2>3. IsRepository(t) /\ t["skills"] = "ok" /\ Alike(s, t, {"skills"})
    BY <2>1, <2>2, OnePart
  <2> QED BY <1>1, <2>3
<1>2. CASE ~(works /\ s.roots = "ok" /\ s.skills = "stale")
  BY <1>2 DEF Synced, Alike
<1> QED BY <1>1, <1>2

LEMMA SkillsEffect ==
  ASSUME NEW s, IsRepository(s), s.retired # "dir", NEW works \in BOOLEAN,
         NEW t, t = SkillsRepair(s, works).repo
  PROVE  /\ IsRepository(t)
         /\ t.retired = "none"
         /\ t.mise = IF s.mise = "none" THEN "ok" ELSE s.mise
         /\ t.link = IF s.mise = "none" \/ (s.mise = "ok" /\ s.link \in {"drift", "skills"}) THEN "ok" ELSE s.link
         /\ t.block = IF s.mise = "none" THEN "ok" ELSE s.block
         /\ t.hook = IF s.mise = "none" THEN "managed" ELSE s.hook
         /\ t.roots = Converted(s.roots)
         /\ t.skills = s.skills \/ (t.roots = "ok" /\ s.skills = "stale" /\ t.skills = "ok")
         /\ Alike(s, t, {"retired", "mise", "link", "block", "hook", "roots", "skills"})
<1> DEFINE a == [s EXCEPT !["retired"] = "none"]
           m == WithMise(a)
           l == Linked(m)
           r == WithRoots(l)
<1>1. t = Synced(r, works)
  BY DEF SkillsRepair, Outcome
<1>2. "retired" \in Parts /\ "none" \in Values["retired"]
  BY PartsAre DEF Values
<1>3. IsRepository(a) /\ a["retired"] = "none" /\ Alike(s, a, {"retired"})
  BY <1>2, OnePart
<1> HIDE DEF a
<1>4. /\ IsRepository(m) /\ Alike(a, m, {"mise", "link", "block", "hook"})
      /\ m.mise = IF a.mise = "none" THEN "ok" ELSE a.mise
      /\ m.link = IF a.mise = "none" THEN "ok" ELSE a.link
      /\ m.block = IF a.mise = "none" THEN "ok" ELSE a.block
      /\ m.hook = IF a.mise = "none" THEN "managed" ELSE a.hook
  BY <1>3, WithMiseEffect
<1> HIDE DEF m
<1>5. /\ IsRepository(l) /\ Alike(m, l, {"link"})
      /\ l.link = IF m.mise = "ok" /\ m.link \in {"drift", "skills"} THEN "ok" ELSE m.link
  BY <1>4, LinkedEffect
<1> HIDE DEF l
<1>6. /\ IsRepository(r) /\ Alike(l, r, {"roots"})
      /\ r.roots = Converted(l.roots)
  BY <1>5, WithRootsEffect
<1> HIDE DEF r
<1>7. /\ IsRepository(t) /\ Alike(r, t, {"skills"})
      /\ t.skills = IF works /\ r.roots = "ok" /\ r.skills = "stale" THEN "ok" ELSE r.skills
  BY <1>1, <1>6, SyncedEffect
<1>8. Alike(s, t, {"retired", "mise", "link", "block", "hook", "roots", "skills"})
  BY <1>3, <1>4, <1>5, <1>6, <1>7 DEF Alike
<1>9. /\ t.retired = "none" /\ t.roots = r.roots /\ r.roots = Converted(s.roots)
      /\ r.skills = s.skills
  BY <1>3, <1>4, <1>5, <1>6, <1>7, PartsAre DEF Alike
<1>10. t.mise = m.mise /\ t.link = l.link /\ t.block = m.block /\ t.hook = m.hook
  BY <1>5, <1>6, <1>7, PartsAre DEF Alike
<1>11. a.mise = s.mise /\ a.link = s.link /\ a.block = s.block /\ a.hook = s.hook
  BY <1>3, PartsAre DEF Alike
<1> QED BY <1>4, <1>5, <1>7, <1>8, <1>9, <1>10, <1>11

\* Skillex brings a selection up to date when it works, and the roots are aliases.
LEMMA SkillsSynced ==
  ASSUME NEW s, IsRepository(s), s.retired # "dir",
         NEW t, t = SkillsRepair(s, TRUE).repo, t.roots = "ok"
  PROVE  t.skills # "stale"
<1> DEFINE a == [s EXCEPT !["retired"] = "none"]
           m == WithMise(a)
           l == Linked(m)
           r == WithRoots(l)
<1>1. t = Synced(r, TRUE)
  BY DEF SkillsRepair, Outcome
<1>2. "retired" \in Parts /\ "none" \in Values["retired"]
  BY PartsAre DEF Values
<1>3. IsRepository(a)
  BY <1>2, OnePart
<1> HIDE DEF a
<1>4. IsRepository(m)
  BY <1>3, WithMiseEffect
<1> HIDE DEF m
<1>5. IsRepository(l)
  BY <1>4, LinkedEffect
<1> HIDE DEF l
<1>6. IsRepository(r)
  BY <1>5, WithRootsEffect
<1> HIDE DEF r
<1>7. CASE r.roots = "ok" /\ r.skills = "stale"
  <2>1. t = [r EXCEPT !.skills = "ok"]
    BY <1>1, <1>7 DEF Synced
  <2> QED BY <1>6, <2>1, PartsAre DEF IsRepository
<1>8. CASE ~(r.roots = "ok" /\ r.skills = "stale")
  <2>1. t = r
    BY <1>1, <1>8 DEF Synced
  <2> QED BY <1>8, <2>1
<1> QED BY <1>7, <1>8

LEMMA BootstrappedEffect ==
  ASSUME NEW s, IsRepository(s), NEW t, t = Bootstrapped(s)
  PROVE  /\ IsRepository(t)
         /\ t.agents = CASE s.agents # "none" -> s.agents
                         [] s.agents = "none" /\ s.claude = "file" -> "claude"
                         [] s.agents = "none" /\ s.claude # "file" /\ s.gemini = "file" -> "gemini"
                         [] OTHER -> IF s.readme = "there" THEN "readme" ELSE "none"
         /\ t.claude = IF s.agents = "none" /\ s.claude = "file" THEN "none" ELSE s.claude
         /\ t.gemini = IF s.agents = "none" /\ s.claude # "file" /\ s.gemini = "file" THEN "none" ELSE s.gemini
         /\ Alike(s, t, {"agents", "claude", "gemini"})
<1>1. DOMAIN s = Parts
  BY DEF IsRepository
<1>2. /\ {"claude", "gemini", "readme"} \subseteq Values.agents
      /\ "none" \in Values.claude /\ "none" \in Values.gemini
  BY DEF Values
<1>3. CASE s.agents # "none"
  BY <1>3 DEF Bootstrapped, Alike
<1>4. CASE s.agents = "none" /\ s.claude = "file"
  <2>1. t = [s EXCEPT !.agents = "claude", !.claude = "none"]
    BY <1>4 DEF Bootstrapped
  <2>2. DOMAIN t = Parts /\ t = [p \in Parts |-> t[p]]
    BY <1>1, <2>1
  <2>3. t.agents = "claude" /\ t.claude = "none"
    BY <1>1, <2>1, PartsAre
  <2>4. Alike(s, t, {"agents", "claude"})
    <3> SUFFICES ASSUME NEW p \in Parts, p # "agents", p # "claude"
                 PROVE  t[p] = s[p]
      BY DEF Alike
    <3> QED BY <1>1, <2>1
  <2>5. IsRepository(t)
    BY <1>2, <2>2, <2>3, <2>4, Retyped
  <2> QED BY <1>4, <2>3, <2>4, <2>5, PartsAre DEF Alike
<1>5. CASE s.agents = "none" /\ s.claude # "file" /\ s.gemini = "file"
  <2>1. t = [s EXCEPT !.agents = "gemini", !.gemini = "none"]
    BY <1>5 DEF Bootstrapped
  <2>2. DOMAIN t = Parts /\ t = [p \in Parts |-> t[p]]
    BY <1>1, <2>1
  <2>3. t.agents = "gemini" /\ t.gemini = "none"
    BY <1>1, <2>1, PartsAre
  <2>4. Alike(s, t, {"agents", "gemini"})
    <3> SUFFICES ASSUME NEW p \in Parts, p # "agents", p # "gemini"
                 PROVE  t[p] = s[p]
      BY DEF Alike
    <3> QED BY <1>1, <2>1
  <2>5. IsRepository(t)
    BY <1>2, <2>2, <2>3, <2>4, Retyped
  <2> QED BY <1>5, <2>3, <2>4, <2>5, PartsAre DEF Alike
<1>6. CASE s.agents = "none" /\ s.claude # "file" /\ s.gemini # "file" /\ s.readme = "there"
  <2>1. t = [s EXCEPT !["agents"] = "readme"]
    BY <1>6 DEF Bootstrapped
  <2>2. "agents" \in Parts /\ "readme" \in Values["agents"]
    BY <1>2, PartsAre
  <2>3. IsRepository(t) /\ t["agents"] = "readme" /\ Alike(s, t, {"agents"})
    BY <2>1, <2>2, OnePart
  <2> QED BY <1>6, <2>3, PartsAre DEF Alike
<1>7. CASE s.agents = "none" /\ s.claude # "file" /\ s.gemini # "file" /\ s.readme # "there"
  BY <1>7 DEF Bootstrapped, Alike
<1> QED BY <1>3, <1>4, <1>5, <1>6, <1>7

LEMMA EnsureSymlinkEffect ==
  ASSUME NEW s, IsRepository(s), NEW f \in {"claude", "gemini"}, NEW t, t = EnsureSymlink(s, f)
  PROVE  /\ IsRepository(t)
         /\ t[f] = IF s[f] \in {"none", "else"} THEN "link" ELSE s[f]
         /\ Alike(s, t, {f})
<1>1. f \in Parts /\ "link" \in Values[f]
  BY PartsAre DEF Values
<1>2. CASE s[f] \in {"none", "else"}
  <2>1. t = [s EXCEPT ![f] = "link"]
    BY <1>2 DEF EnsureSymlink
  <2>2. IsRepository(t) /\ t[f] = "link" /\ Alike(s, t, {f})
    BY <1>1, <2>1, OnePart
  <2> QED BY <1>2, <2>2
<1>3. CASE s[f] \notin {"none", "else"}
  BY <1>3 DEF EnsureSymlink, Alike
<1> QED BY <1>2, <1>3

LEMMA SymlinksEffect ==
  ASSUME NEW s, IsRepository(s), NEW t, t = SymlinksRepair(s).repo,
         NEW b, b = Bootstrapped(s)
  PROVE  /\ IsRepository(t)
         /\ t.agents = b.agents
         /\ t.claude = IF b.agents = "none" \/ b.claude \notin {"none", "else"} THEN b.claude ELSE "link"
         /\ t.gemini = IF b.agents = "none" \/ b.claude = "broken" \/ b.gemini \notin {"none", "else"}
                       THEN b.gemini ELSE "link"
         /\ Alike(s, t, {"agents", "claude", "gemini"})
<1>1. /\ IsRepository(b) /\ Alike(s, b, {"agents", "claude", "gemini"})
      /\ b.agents = "none" => s.agents = "none" /\ s.claude # "file" /\ s.gemini # "file" /\ s.readme # "there"
  BY BootstrappedEffect
<1>5. b.agents = "none" => b = s
  BY <1>1 DEF Bootstrapped
<1>2. CASE b.agents = "none"
  BY <1>1, <1>2, <1>5 DEF SymlinksRepair, Outcome
<1>3. CASE b.agents # "none" /\ b.claude = "broken"
  BY <1>1, <1>3 DEF SymlinksRepair, Outcome
<1>4. CASE b.agents # "none" /\ b.claude # "broken"
  <2> DEFINE c == EnsureSymlink(b, "claude")
  <2>1. t = EnsureSymlink(c, "gemini")
    BY <1>4 DEF SymlinksRepair, Outcome
  <2>2. /\ IsRepository(c) /\ Alike(b, c, {"claude"})
        /\ c["claude"] = IF b["claude"] \in {"none", "else"} THEN "link" ELSE b["claude"]
    BY <1>1, EnsureSymlinkEffect
  <2> HIDE DEF c
  <2>3. /\ IsRepository(t) /\ Alike(c, t, {"gemini"})
        /\ t["gemini"] = IF c["gemini"] \in {"none", "else"} THEN "link" ELSE c["gemini"]
    BY <2>1, <2>2, EnsureSymlinkEffect
  <2> QED BY <1>1, <1>4, <2>2, <2>3, PartsAre DEF Alike
<1> QED BY <1>2, <1>3, <1>4

\* What the installer replaces is made by it: _bmad is new or of another version.
Anew(s) == s.bmad = "none" \/ s.version = "old"

LEMMA InstalledEffect ==
  ASSUME NEW s, IsRepository(s), NEW handed \in BOOLEAN, NEW t, t = Installed(s, handed)
  PROVE  /\ IsRepository(t)
         /\ t.bmad = "full" /\ t.version = "now" /\ t.bmadName = BmadName(s)
         /\ t.roots = IF s.roots = "none" THEN "real" ELSE s.roots
         /\ t.skills = CASE s.skills = "foreign" -> "foreign"
                         [] s.skills = "ok" /\ ~Anew(s) -> "ok"
                         [] OTHER -> IF handed /\ s.roots = "ok" THEN "ok" ELSE "stale"
         /\ Alike(s, t, {"bmad", "bmadName", "version", "roots", "skills"})
<1> DEFINE bmadName == BmadName(s)
           roots == IF s.roots = "none" THEN "real" ELSE s.roots
           skills == IF Anew(s) /\ s.skills = "ok" THEN "stale" ELSE s.skills
           i == [s EXCEPT !.bmad = "full", !.bmadName = bmadName, !.version = "now",
                          !.roots = roots, !.skills = skills]
<1>1. t = Synced(i, handed)
  BY DEF Installed, Anew
<1>2. DOMAIN s = Parts
  BY DEF IsRepository
<1>3. DOMAIN i = Parts /\ i = [p \in Parts |-> i[p]]
  BY <1>2
<1>4. /\ i.bmad = "full" /\ i.bmadName = bmadName /\ i.version = "now"
      /\ i.roots = roots /\ i.skills = skills
  BY <1>2, PartsAre
<1>5. Alike(s, i, {"bmad", "bmadName", "version", "roots", "skills"})
  <2> SUFFICES ASSUME NEW p \in Parts,
                      p # "bmad", p # "bmadName", p # "version", p # "roots", p # "skills"
               PROVE  i[p] = s[p]
    BY DEF Alike
  <2> QED BY <1>2
<1>6. s.name \in Values.name /\ s.roots \in Values.roots /\ s.skills \in Values.skills
  BY PartsAre DEF IsRepository
<1>7. /\ "full" \in Values.bmad /\ "now" \in Values.version
      /\ bmadName \in Values.bmadName /\ roots \in Values.roots /\ skills \in Values.skills
      /\ s.skills \in {"ok", "stale", "foreign"}
  BY <1>6 DEF Values, BmadName
<1> HIDE DEF i
<1>8. IsRepository(i)
  <2> HIDE DEF bmadName, roots, skills
  <2> QED BY <1>3, <1>4, <1>5, <1>7, Retyped
<1>9. /\ IsRepository(t) /\ Alike(i, t, {"skills"})
      /\ t.skills = IF handed /\ i.roots = "ok" /\ i.skills = "stale" THEN "ok" ELSE i.skills
  BY <1>1, <1>8, SyncedEffect
<1>10. t.bmad = i.bmad /\ t.bmadName = i.bmadName /\ t.version = i.version /\ t.roots = i.roots
  BY <1>9, PartsAre DEF Alike
<1>11. Alike(s, t, {"bmad", "bmadName", "version", "roots", "skills"})
  BY <1>5, <1>9 DEF Alike
<1> QED BY <1>4, <1>7, <1>9, <1>10, <1>11

LEMMA RootsEffect ==
  ASSUME NEW s, IsRepository(s), NEW t, t = RootsRepair(s).repo,
         s.unsupported # "own", ~Barred(s)
  PROVE  /\ IsRepository(t)
         /\ t.roots = "ok" /\ t.ignoreAgents = "ok" /\ t.unsupported = "none"
         /\ Alike(s, t, {"roots", "ignoreAgents", "unsupported"})
<1>1. t = [s EXCEPT !.roots = "ok", !.ignoreAgents = "ok", !.unsupported = "none"]
  BY DEF RootsRepair, Outcome
<1>2. DOMAIN s = Parts
  BY DEF IsRepository
<1>3. DOMAIN t = Parts /\ t = [p \in Parts |-> t[p]]
  BY <1>1, <1>2
<1>4. t.roots = "ok" /\ t.ignoreAgents = "ok" /\ t.unsupported = "none"
  BY <1>1, <1>2, PartsAre
<1>5. Alike(s, t, {"roots", "ignoreAgents", "unsupported"})
  <2> SUFFICES ASSUME NEW p \in Parts, p # "roots", p # "ignoreAgents", p # "unsupported"
               PROVE  t[p] = s[p]
    BY DEF Alike
  <2> QED BY <1>1, <1>2
<1>6. IsRepository(t)
  BY <1>3, <1>4, <1>5, Retyped DEF Values
<1> QED BY <1>4, <1>5, <1>6

\* A root that is blocked is left as it is.
LEMMA SameRoots ==
  ASSUME NEW s, IsRepository(s), s.roots = "blocked"
  PROVE  WithRoots(s) = s
BY PartsAre DEF WithRoots, Converted, IsRepository

\* With a blocked root the others are converted, and that is all.
LEMMA BarredRootsEffect ==
  ASSUME NEW s, IsRepository(s), NEW t, t = RootsRepair(s).repo,
         s.unsupported # "own", Barred(s)
  PROVE  IsRepository(t) /\ t.roots = "blocked" /\ Alike(s, t, {"roots"})
<1>1. t = WithRoots(s)
  BY DEF RootsRepair, Outcome
<1> QED BY <1>1, WithRootsEffect DEF Barred, Converted

LEMMA JsonEffect ==
  ASSUME NEW s, IsRepository(s), NEW t, t = JsonRepair(s).repo
  PROVE  /\ IsRepository(t)
         /\ t.json = IF s.json = "vestige" THEN s.json ELSE "ok"
         /\ t.name = CanonicalName(s)
         /\ t.roles = IF s.roles = "unprovisioned" THEN s.roles ELSE "ok"
         /\ t.plane = IF s.plane = "there" THEN "kept" ELSE s.plane
         /\ Alike(s, t, {"json", "name", "roles", "plane"})
<1> DEFINE json == IF s.json = "vestige" THEN s.json ELSE "ok"
           name == CanonicalName(s)
           roles == IF s.roles = "unprovisioned" THEN s.roles ELSE "ok"
           plane == IF s.plane = "there" THEN "kept" ELSE s.plane
<1>1. DOMAIN s = Parts
  BY DEF IsRepository
<1>2. t = [s EXCEPT !.json = json, !.name = name, !.roles = roles, !.plane = plane]
  BY <1>1, PartsAre DEF JsonRepair, Outcome, Canonical
<1>3. DOMAIN t = Parts /\ t = [p \in Parts |-> t[p]]
  BY <1>1, <1>2
<1>4. t.json = json /\ t.name = name /\ t.roles = roles /\ t.plane = plane
  BY <1>1, <1>2, PartsAre
<1>5. Alike(s, t, {"json", "name", "roles", "plane"})
  <2> SUFFICES ASSUME NEW p \in Parts, p # "json", p # "name", p # "roles", p # "plane"
               PROVE  t[p] = s[p]
    BY DEF Alike
  <2> QED BY <1>1, <1>2
<1>6. s.name \in Values.name /\ s.roles \in Values.roles /\ s.plane \in Values.plane
  BY PartsAre DEF IsRepository
<1>7. json \in Values.json /\ name \in Values.name /\ roles \in Values.roles /\ plane \in Values.plane
  BY <1>6 DEF Values, CanonicalName
<1>8. IsRepository(t)
  <2> HIDE DEF json, name, roles, plane
  <2> QED BY <1>3, <1>4, <1>5, <1>7, Retyped
<1> QED BY <1>4, <1>5, <1>8

LEMMA CopierEffect ==
  ASSUME NEW s, IsRepository(s), NEW t, t = CopierRepair(s).repo
  PROVE  IsRepository(t) /\ t.copier = CanonicalName(s) /\ Alike(s, t, {"copier"})
<1>1. t = [s EXCEPT !["copier"] = CanonicalName(s)]
  BY DEF CopierRepair, Outcome
<1>2. s.name \in Values.name /\ "copier" \in Parts
  BY PartsAre DEF IsRepository
<1>3. CanonicalName(s) \in Values["copier"]
  BY <1>2 DEF Values, CanonicalName
<1>4. DOMAIN s = Parts /\ DOMAIN t = Parts /\ t = [p \in Parts |-> t[p]] /\ t["copier"] = CanonicalName(s)
  BY <1>1, <1>2 DEF IsRepository
<1>5. Alike(s, t, {"copier"})
  BY <1>1, <1>4 DEF Alike
<1> QED BY <1>3, <1>4, <1>5, Retyped

LEMMA BoardEffect ==
  ASSUME NEW s, IsRepository(s), NEW works \in BOOLEAN, NEW t, t = BoardRepair(s, works).repo
  PROVE  /\ IsRepository(t)
         /\ t.board = IF s.board = "unlinked" \/ ~works THEN s.board ELSE "match"
         /\ Alike(s, t, {"board"})
<1>1. CASE s.board = "unlinked" \/ ~works
  BY <1>1 DEF BoardRepair, Outcome, Alike
<1>2. CASE s.board # "unlinked" /\ works
  <2>1. t = [s EXCEPT !["board"] = "match"]
    BY <1>2 DEF BoardRepair, Outcome
  <2>2. "board" \in Parts /\ "match" \in Values["board"]
    BY PartsAre DEF Values
  <2>3. IsRepository(t) /\ t["board"] = "match" /\ Alike(s, t, {"board"})
    BY <2>1, <2>2, OnePart
  <2> QED BY <1>2, <2>3
<1> QED BY <1>1, <1>2

-----------------------------------------------------------------------------
(* The rules by name *)

LEMMA RulesAre ==
  Rules = {"secrets.env-op", "mise.config-root", "mise.versioning", "skills.project-manifest",
           "sot.agent-symlinks", "bmad.scaffold", "bmad.version", "bmad.cli-roots",
           "sot.project-json", "provenance.copier", "board.schema"}
<1>1. DOMAIN Order = 1..11
  BY DEF Order
<1>2. DOMAIN Order = {1, 2, 3, 4, 5, 6, 7, 8, 9, 10, 11}
  BY <1>1
<1> QED BY <1>2 DEF Rules, Order

LEMMA FindingsAre ==
  ASSUME NEW s
  PROVE  /\ Finding("secrets.env-op", s) = EnvOpFinding(s)
         /\ Finding("mise.config-root", s) = LinkFinding(s)
         /\ Finding("mise.versioning", s) = VersionsFinding(s)
         /\ Finding("skills.project-manifest", s) = SkillsFinding(s)
         /\ Finding("sot.agent-symlinks", s) = SymlinksFinding(s)
         /\ Finding("bmad.scaffold", s) = ScaffoldFinding(s)
         /\ Finding("bmad.version", s) = VersionFinding(s)
         /\ Finding("bmad.cli-roots", s) = RootsFinding(s)
         /\ Finding("sot.project-json", s) = JsonFinding(s)
         /\ Finding("provenance.copier", s) = CopierFinding(s)
         /\ Finding("board.schema", s) = BoardFinding(s)
BY DEF Finding

LEMMA RepairsAre ==
  ASSUME NEW s, NEW works, NEW handed
  PROVE  /\ Repair("secrets.env-op", s, works, handed) = EnvOpRepair(s)
         /\ Repair("mise.config-root", s, works, handed) = LinkRepair(s)
         /\ Repair("mise.versioning", s, works, handed) = VersionsRepair(s)
         /\ Repair("skills.project-manifest", s, works, handed) = SkillsRepair(s, works)
         /\ Repair("sot.agent-symlinks", s, works, handed) = SymlinksRepair(s)
         /\ Repair("bmad.scaffold", s, works, handed) = ScaffoldRepair(s, works, handed)
         /\ Repair("bmad.version", s, works, handed) = VersionRepair(s, works, handed)
         /\ Repair("bmad.cli-roots", s, works, handed) = RootsRepair(s)
         /\ Repair("sot.project-json", s, works, handed) = JsonRepair(s)
         /\ Repair("provenance.copier", s, works, handed) = CopierRepair(s)
         /\ Repair("board.schema", s, works, handed) = BoardRepair(s, works)
BY DEF Repair

\* The parts that a rule's migration may change.
Touched(r) ==
  CASE r = "secrets.env-op" -> {"envOp", "ignore", "writer", "mise", "link", "block", "hook"}
    [] r = "mise.config-root" -> {"mise", "link", "block", "hook", "script"}
    [] r = "mise.versioning" -> {"mise", "link", "block", "hook", "versions"}
    [] r = "skills.project-manifest" -> {"retired", "mise", "link", "block", "hook", "roots", "skills"}
    [] r = "sot.agent-symlinks" -> {"agents", "claude", "gemini"}
    [] r \in {"bmad.scaffold", "bmad.version"} -> {"bmad", "bmadName", "version", "roots", "skills"}
    [] r = "bmad.cli-roots" -> {"roots", "ignoreAgents", "unsupported"}
    [] r = "sot.project-json" -> {"json", "name", "roles", "plane"}
    [] r = "provenance.copier" -> {"copier"}
    [] r = "board.schema" -> {"board"}

\* The parts that a rule's finding depends on, and whether its migration would do anything.
Looks(r) ==
  CASE r = "secrets.env-op" -> {"envOp", "ignore", "mise", "hook", "writer", "optOut"}
    [] r = "mise.config-root" -> {"mise", "script", "link"}
    [] r = "mise.versioning" -> {"mise", "block", "versions"}
    [] r = "skills.project-manifest" -> {"skills", "roots", "mise", "link", "retired"}
    [] r = "sot.agent-symlinks" -> {"agents", "readme", "claude", "gemini"}
    [] r = "bmad.scaffold" -> {"bmad", "bmadName", "name"}
    [] r = "bmad.version" -> {"bmad", "version"}
    [] r = "bmad.cli-roots" -> {"roots", "bmad", "unsupported", "ignoreAgents"}
    [] r = "sot.project-json" -> {"json", "name", "roles", "plane"}
    [] r = "provenance.copier" -> {"copier", "name"}
    [] r = "board.schema" -> {"board"}

\* A migration whose rule finds something, and which leaves all as it is.
NoWork(r, s) ==
  CASE r = "secrets.env-op" ->
         /\ s.mise # "none" /\ s.envOp \notin {"none", "example"} /\ s.ignore # "none"
         /\ s.mise # "torn" => s.hook = (IF s.optOut = "yes" THEN "none" ELSE "managed")
         /\ s.writer = IF s.optOut = "yes" THEN "none" ELSE "ok"
    [] r = "mise.versioning" -> s.mise = "torn" /\ s.versions = "ok"
    [] r = "skills.project-manifest" ->
         /\ s.retired = "none" /\ s.mise # "none" /\ s.roots \notin {"none", "real", "mixed"}
         /\ ~(s.mise = "ok" /\ s.link \in {"drift", "skills"})
         /\ ~(s.roots = "ok" /\ s.skills = "stale")
    [] r = "sot.agent-symlinks" ->
         \/ s.agents = "none" /\ s.readme = "none" /\ s.claude # "file" /\ s.gemini # "file"
         \/ /\ s.agents # "none" /\ s.claude \notin {"none", "else"}
            /\ s.claude = "broken" \/ s.gemini \notin {"none", "else"}
    [] r = "bmad.version" -> s.bmad = "bad"
    [] r = "bmad.cli-roots" -> s.roots = "ok" /\ s.ignoreAgents = "ok" /\ s.unsupported = "none"
    [] r = "sot.project-json" ->
         s.json \in {"ok", "vestige"} /\ s.name # "none" /\ s.roles \in {"ok", "unprovisioned"} /\ s.plane # "there"
    [] OTHER -> FALSE

LEMMA LooksOnly ==
  ASSUME NEW s, NEW t, NEW r \in Rules, \A p \in Looks(r) : t[p] = s[p]
  PROVE  Finding(r, t) = Finding(r, s) /\ (NoWork(r, t) <=> NoWork(r, s))
<1>1. CASE r = "secrets.env-op"
  <2>1. /\ t.envOp = s.envOp /\ t.ignore = s.ignore /\ t.mise = s.mise /\ t.hook = s.hook
        /\ t.writer = s.writer /\ t.optOut = s.optOut
    BY <1>1 DEF Looks
  <2> QED BY <1>1, <2>1, FindingsAre DEF EnvOpFinding, NoWork
<1>2. CASE r = "mise.config-root"
  <2>1. t.mise = s.mise /\ t.script = s.script /\ t.link = s.link
    BY <1>2 DEF Looks
  <2> QED BY <1>2, <2>1, FindingsAre DEF LinkFinding, ScriptIssue, NoWork
<1>3. CASE r = "mise.versioning"
  <2>1. t.mise = s.mise /\ t.block = s.block /\ t.versions = s.versions
    BY <1>3 DEF Looks
  <2> QED BY <1>3, <2>1, FindingsAre DEF VersionsFinding, NoWork
<1>4. CASE r = "skills.project-manifest"
  <2>1. /\ t.skills = s.skills /\ t.roots = s.roots /\ t.mise = s.mise /\ t.link = s.link
        /\ t.retired = s.retired
    BY <1>4 DEF Looks
  <2> QED BY <1>4, <2>1, FindingsAre DEF SkillsFinding, Wiring, Barred, NoWork
<1>5. CASE r = "sot.agent-symlinks"
  <2>1. t.agents = s.agents /\ t.readme = s.readme /\ t.claude = s.claude /\ t.gemini = s.gemini
    BY <1>5 DEF Looks
  <2> QED BY <1>5, <2>1, FindingsAre DEF SymlinksFinding, There, NoWork
<1>6. CASE r = "bmad.scaffold"
  <2>1. t.bmad = s.bmad /\ t.bmadName = s.bmadName /\ t.name = s.name
    BY <1>6 DEF Looks
  <2> QED BY <1>6, <2>1, FindingsAre DEF ScaffoldFinding, BmadName, NoWork
<1>7. CASE r = "bmad.version"
  <2>1. t.bmad = s.bmad /\ t.version = s.version
    BY <1>7 DEF Looks
  <2> QED BY <1>7, <2>1, FindingsAre DEF VersionFinding, NoWork
<1>8. CASE r = "bmad.cli-roots"
  <2>1. /\ t.roots = s.roots /\ t.bmad = s.bmad /\ t.unsupported = s.unsupported
        /\ t.ignoreAgents = s.ignoreAgents
    BY <1>8 DEF Looks
  <2> QED BY <1>8, <2>1, FindingsAre DEF RootsFinding, RootsIssue, Barred, NoWork
<1>9. CASE r = "sot.project-json"
  <2>1. t.json = s.json /\ t.name = s.name /\ t.roles = s.roles /\ t.plane = s.plane
    BY <1>9 DEF Looks
  <2> QED BY <1>9, <2>1, FindingsAre DEF JsonFinding, Readable, NoWork
<1>10. CASE r = "provenance.copier"
  <2>1. t.copier = s.copier /\ t.name = s.name
    BY <1>10 DEF Looks
  <2> QED BY <1>10, <2>1, FindingsAre DEF CopierFinding, NoWork
<1>11. CASE r = "board.schema"
  <2>1. t.board = s.board
    BY <1>11 DEF Looks
  <2> QED BY <1>11, <2>1, FindingsAre DEF BoardFinding, NoWork
<1> QED BY <1>1, <1>2, <1>3, <1>4, <1>5, <1>6, <1>7, <1>8, <1>9, <1>10, <1>11, RulesAre

-----------------------------------------------------------------------------
(* What any migration does *)

\* A migration by the installer leaves all as it is, or installs.
LEMMA ScaffoldEffect ==
  ASSUME NEW s, NEW works \in BOOLEAN, NEW handed \in BOOLEAN,
         NEW t, t = ScaffoldRepair(s, works, handed).repo
  PROVE  \/ t = s /\ (s.bmad = "bad" \/ works = FALSE)
         \/ /\ s.bmad # "bad" /\ works = TRUE
            /\ t = Installed(s, IF ScaffoldFinding(s) = "fix" THEN handed ELSE FALSE)
<1>1. CASE s.bmad = "bad" \/ ~works
  BY <1>1 DEF ScaffoldRepair, Outcome
<1>2. CASE s.bmad # "bad" /\ works
  <2>1. t = Installed(s, ScaffoldFinding(s) = "fix" /\ handed)
    BY <1>2 DEF ScaffoldRepair, Outcome
  <2>2. CASE ScaffoldFinding(s) = "fix" /\ handed
    BY <1>2, <2>1, <2>2
  <2>3. CASE ~(ScaffoldFinding(s) = "fix" /\ handed)
    <3>1. t = Installed(s, FALSE) /\ (IF ScaffoldFinding(s) = "fix" THEN handed ELSE FALSE) = FALSE
      BY <2>1, <2>3
    <3> QED BY <1>2, <3>1
  <2> QED BY <2>2, <2>3
<1> QED BY <1>1, <1>2

LEMMA VersionEffect ==
  ASSUME NEW s, NEW works \in BOOLEAN, NEW handed \in BOOLEAN,
         NEW t, t = VersionRepair(s, works, handed).repo
  PROVE  \/ t = s /\ (s.bmad \in {"none", "bad"} \/ s.version = "now" \/ works = FALSE)
         \/ /\ s.bmad \notin {"none", "bad"} /\ s.version # "now" /\ works = TRUE
            /\ t = Installed(s, handed)
BY DEF VersionRepair, Outcome

\* How a migration, of whichever rule, may change each part that others rely on.
Migrated(s, t) ==
  /\ t.envOp = s.envOp \/ (s.envOp \in {"none", "example"} /\ t.envOp = "ok")
  /\ t.mise = s.mise \/ (s.mise = "none" /\ t.mise = "ok" /\ t.link = "ok")
  /\ t.link = s.link \/ (t.link = "ok" /\ (s.mise = "none" \/ s.link \in {"drift", "skills"}))
  /\ t.script = s.script \/ t.script = "ok"
  /\ t.retired = s.retired \/ (s.retired # "dir" /\ t.retired = "none")
  /\ t.skills = s.skills \/ (s.skills # "foreign" /\ t.skills # "foreign")
  /\ \/ t.roots = s.roots
     \/ ~Barred(s) /\ t.roots \in {"ok", "real"}
     \/ s.roots = "mixed" /\ t.roots = "blocked"
  /\ Texts(s) \ {"none"} \subseteq Texts(t)
  /\ t.json = s.json \/ t.json = "ok"
  /\ t.name = s.name \/ (s.name = "none" /\ t.name = "title")
  /\ t.roles = s.roles \/ (s.roles # "unprovisioned" /\ t.roles = "ok")
  /\ t.optOut = s.optOut /\ t.waived = s.waived
  /\ t.plane = s.plane \/ (s.plane = "there" /\ t.plane = "kept")
  /\ t.bmad = s.bmad \/ (s.bmad # "bad" /\ t.bmad = "full")
  /\ t.unsupported = s.unsupported \/ (s.unsupported # "own" /\ t.unsupported = "none")
  /\ t.board = s.board \/ (s.board # "unlinked" /\ t.board = "match")

LEMMA MigrationMoves ==
  ASSUME NEW s, IsRepository(s), NEW r \in Rules, NEW works \in BOOLEAN, NEW handed \in BOOLEAN,
         NEW t, t = Repair(r, s, works, handed).repo
  PROVE  IsRepository(t) /\ Alike(s, t, Touched(r)) /\ Migrated(s, t)
<1>1. CASE t = s
  BY <1>1 DEF Alike, Migrated
<1>2. CASE r = "secrets.env-op"
  <2>1. t = EnvOpRepair(s).repo /\ Touched(r) = {"envOp", "ignore", "writer", "mise", "link", "block", "hook"}
    BY <1>2, RepairsAre DEF Touched
  <2>2. Alike(s, t, Touched(r)) /\ IsRepository(t)
    BY <2>1, EnvOpEffect
  <2>3. /\ t.envOp = s.envOp \/ (s.envOp \in {"none", "example"} /\ t.envOp = "ok")
        /\ t.mise = s.mise \/ (s.mise = "none" /\ t.mise = "ok" /\ t.link = "ok")
        /\ t.link = s.link \/ (t.link = "ok" /\ s.mise = "none")
    BY <2>1, EnvOpEffect
  <2> QED BY <2>1, <2>2, <2>3, PartsAre DEF Alike, Migrated, Texts
<1>3. CASE r = "mise.config-root"
  <2>1. t = LinkRepair(s).repo /\ Touched(r) = {"mise", "link", "block", "hook", "script"}
    BY <1>3, RepairsAre DEF Touched
  <2>2. /\ IsRepository(t) /\ Alike(s, t, {"mise", "link", "block", "hook", "script"})
        /\ t.mise = s.mise \/ (s.mise = "none" /\ t.mise = "ok" /\ t.link = "ok")
        /\ t.link = s.link \/ (t.link = "ok" /\ (s.mise = "none" \/ s.link \in {"drift", "skills"}))
        /\ t.script = "ok"
    BY <2>1, LinkEffect
  <2> QED BY <2>1, <2>2, PartsAre DEF Alike, Migrated, Texts
<1>4. CASE r = "mise.versioning"
  <2>1. t = VersionsRepair(s).repo /\ Touched(r) = {"mise", "link", "block", "hook", "versions"}
    BY <1>4, RepairsAre DEF Touched
  <2> QED BY <2>1, VersionsEffect, PartsAre DEF Alike, Migrated, Texts
<1>5. CASE r = "skills.project-manifest" /\ t # s
  <2>1. /\ t = SkillsRepair(s, works).repo
        /\ Touched(r) = {"retired", "mise", "link", "block", "hook", "roots", "skills"}
    BY <1>5, RepairsAre DEF Touched
  <2>2. s.retired # "dir"
    BY <1>5, <2>1 DEF SkillsRepair, Outcome
  <2>3. Alike(s, t, Touched(r)) /\ IsRepository(t)
    BY <2>1, <2>2, SkillsEffect
  <2>4. /\ t.mise = s.mise \/ (s.mise = "none" /\ t.mise = "ok" /\ t.link = "ok")
        /\ t.link = s.link \/ (t.link = "ok" /\ (s.mise = "none" \/ s.link \in {"drift", "skills"}))
        /\ t.retired = "none"
        /\ t.skills = s.skills \/ (s.skills # "foreign" /\ t.skills # "foreign")
        /\ \/ t.roots = s.roots
           \/ ~Barred(s) /\ t.roots \in {"ok", "real"}
           \/ s.roots = "mixed" /\ t.roots = "blocked"
    BY <2>1, <2>2, SkillsEffect DEF Barred, Converted
  <2> QED BY <2>1, <2>2, <2>3, <2>4, PartsAre DEF Alike, Migrated, Texts
<1>6. CASE r = "sot.agent-symlinks"
  <2> DEFINE b == Bootstrapped(s)
  <2>1. t = SymlinksRepair(s).repo /\ Touched(r) = {"agents", "claude", "gemini"}
    BY <1>6, RepairsAre DEF Touched
  <2>2. /\ b.agents = CASE s.agents # "none" -> s.agents
                        [] s.agents = "none" /\ s.claude = "file" -> "claude"
                        [] s.agents = "none" /\ s.claude # "file" /\ s.gemini = "file" -> "gemini"
                        [] OTHER -> IF s.readme = "there" THEN "readme" ELSE "none"
        /\ b.claude = IF s.agents = "none" /\ s.claude = "file" THEN "none" ELSE s.claude
        /\ b.gemini = IF s.agents = "none" /\ s.claude # "file" /\ s.gemini = "file" THEN "none" ELSE s.gemini
    BY BootstrappedEffect
  <2> HIDE DEF b
  <2>3. /\ IsRepository(t) /\ Alike(s, t, {"agents", "claude", "gemini"})
        /\ t.agents = b.agents
        /\ t.claude = IF b.agents = "none" \/ b.claude \notin {"none", "else"} THEN b.claude ELSE "link"
        /\ t.gemini = IF b.agents = "none" \/ b.claude = "broken" \/ b.gemini \notin {"none", "else"}
                      THEN b.gemini ELSE "link"
    BY <2>1, SymlinksEffect DEF b
  <2>4. Texts(s) \ {"none"} \subseteq Texts(t)
    BY <2>2, <2>3 DEF Texts
  <2> QED BY <2>1, <2>3, <2>4, PartsAre DEF Alike, Migrated
<1>7. CASE r \in {"bmad.scaffold", "bmad.version"} /\ t # s
  <2>1. Touched(r) = {"bmad", "bmadName", "version", "roots", "skills"}
    BY <1>7 DEF Touched
  <2>2. s.bmad # "bad" /\ \E h \in BOOLEAN : t = Installed(s, h)
    <3>1. CASE r = "bmad.scaffold"
      <4>1. t = ScaffoldRepair(s, works, handed).repo
        BY <3>1, RepairsAre
      <4>2. s.bmad # "bad" /\ t = Installed(s, IF ScaffoldFinding(s) = "fix" THEN handed ELSE FALSE)
        BY <1>7, <4>1, ScaffoldEffect
      <4> QED BY <4>2
    <3>2. CASE r = "bmad.version"
      <4>1. t = VersionRepair(s, works, handed).repo
        BY <3>2, RepairsAre
      <4>2. s.bmad # "bad" /\ t = Installed(s, handed)
        BY <1>7, <4>1, VersionEffect
      <4> QED BY <4>2
    <3> QED BY <1>7, <3>1, <3>2
  <2>3. s.roots \in {"ok", "none", "real", "blocked", "mixed"} /\ s.skills \in {"ok", "stale", "foreign"}
    BY PartsAre DEF IsRepository, Values
  <2>4. Alike(s, t, Touched(r)) /\ IsRepository(t)
    BY <2>1, <2>2, InstalledEffect
  <2>5. /\ t.bmad = "full"
        /\ t.skills = s.skills \/ (s.skills # "foreign" /\ t.skills # "foreign")
        /\ t.roots = s.roots \/ (~Barred(s) /\ t.roots \in {"ok", "real"})
    BY <2>2, <2>3, InstalledEffect DEF Barred
  <2> QED BY <2>1, <2>2, <2>4, <2>5, PartsAre DEF Alike, Migrated, Texts
<1>8. CASE r = "bmad.cli-roots" /\ t # s
  <2>1. t = RootsRepair(s).repo /\ Touched(r) = {"roots", "ignoreAgents", "unsupported"}
    BY <1>8, RepairsAre DEF Touched
  <2>2. s.unsupported # "own" /\ s.roots # "blocked"
    <3>1. s.roots = "blocked" => WithRoots(s) = s
      BY SameRoots
    <3> QED BY <1>8, <2>1, <3>1 DEF RootsRepair, Outcome, Barred
  <2>3. CASE Barred(s)
    BY <2>1, <2>2, <2>3, BarredRootsEffect, PartsAre DEF Alike, Migrated, Texts, Barred
  <2>4. CASE ~Barred(s)
    BY <2>1, <2>2, <2>4, RootsEffect, PartsAre DEF Alike, Migrated, Texts
  <2> QED BY <2>3, <2>4
<1>9. CASE r = "sot.project-json"
  <2>1. t = JsonRepair(s).repo /\ Touched(r) = {"json", "name", "roles", "plane"}
    BY <1>9, RepairsAre DEF Touched
  <2> QED BY <2>1, JsonEffect, PartsAre DEF Alike, Migrated, Texts, CanonicalName
<1>10. CASE r = "provenance.copier"
  <2>1. t = CopierRepair(s).repo /\ Touched(r) = {"copier"}
    BY <1>10, RepairsAre DEF Touched
  <2>2. IsRepository(t) /\ Alike(s, t, {"copier"})
    BY <2>1, CopierEffect
  <2> QED BY <2>1, <2>2, PartsAre DEF Alike, Migrated, Texts
<1>11. CASE r = "board.schema"
  <2>1. t = BoardRepair(s, works).repo /\ Touched(r) = {"board"}
    BY <1>11, RepairsAre DEF Touched
  <2>2. /\ IsRepository(t) /\ Alike(s, t, {"board"})
        /\ t.board = IF s.board = "unlinked" \/ ~works THEN s.board ELSE "match"
    BY <2>1, BoardEffect
  <2> QED BY <2>1, <2>2, PartsAre DEF Alike, Migrated, Texts
<1> QED BY <1>1, <1>2, <1>3, <1>4, <1>5, <1>6, <1>7, <1>8, <1>9, <1>10, <1>11, RulesAre

\* What needs hands goes on needing them: no migration makes it fixable or right.
LEMMA HandsStay ==
  ASSUME NEW s, IsRepository(s), NEW t, Migrated(s, t), NEW x \in Rules, Finding(x, s) = "hands"
  PROVE  Finding(x, t) = "hands"
<1>1. /\ s.mise \in {"ok", "none", "torn"} /\ s.link \in {"ok", "drift", "skills", "hand"}
      /\ s.retired \in {"none", "file", "dir"}
  BY PartsAre DEF IsRepository, Values
<1>2. CASE x = "mise.config-root"
  BY <1>1, <1>2, FindingsAre DEF Migrated, LinkFinding, ScriptIssue, Verdict
<1>3. CASE x = "skills.project-manifest"
  <2>1. SkillsFinding(s) = "hands"
    BY <1>3, FindingsAre
  <2>2. CASE s.retired = "dir"
    <3>1. t.retired = "dir"
      BY <2>2 DEF Migrated
    <3>2. SkillsFinding(t) = "hands"
      BY <3>1 DEF SkillsFinding, Verdict
    <3> QED BY <1>3, <3>2, FindingsAre
  <2>3. CASE s.retired # "dir"
    <3>1. /\ s.skills = "foreign" \/ Barred(s)
          /\ ~Wiring(s) /\ s.retired # "file"
          /\ ~(s.mise = "ok" /\ s.link = "drift")
      BY <1>1, <2>1, <2>3 DEF SkillsFinding, Verdict
    <3>2. (t.skills = "foreign" \/ Barred(t))
      BY <3>1 DEF Migrated, Barred
    <3>3. t.retired # "file" /\ t.retired # "dir"
      BY <2>3, <3>1 DEF Migrated
    <3>4. ~(t.mise = "torn") /\ ~(t.mise = "ok" /\ t.link \in {"skills", "hand", "drift"})
      BY <1>1, <3>1 DEF Migrated, Wiring
    <3>5. SkillsFinding(t) = "hands"
      BY <3>2, <3>3, <3>4 DEF SkillsFinding, Wiring, Verdict, Barred
    <3> QED BY <1>3, <3>5, FindingsAre
  <2> QED BY <2>2, <2>3
<1>4. CASE x = "bmad.scaffold"
  BY <1>4, FindingsAre DEF Migrated, ScaffoldFinding, Verdict
<1>5. CASE x = "bmad.cli-roots"
  BY <1>5, FindingsAre DEF Migrated, RootsFinding, RootsIssue, Verdict, Barred
<1>6. CASE x = "sot.project-json"
  BY <1>6, FindingsAre DEF Migrated, JsonFinding, Readable, Verdict
<1>7. CASE x \in {"secrets.env-op", "mise.versioning", "sot.agent-symlinks", "bmad.version",
                  "provenance.copier", "board.schema"}
  BY <1>7, FindingsAre DEF EnvOpFinding, VersionsFinding, SymlinksFinding, VersionFinding,
                           CopierFinding, BoardFinding, Verdict
<1> QED BY <1>2, <1>3, <1>4, <1>5, <1>6, <1>7, RulesAre

-----------------------------------------------------------------------------
(* A migration and its own rule *)

\* Rule r would change nothing in s.
AtRest(r, s) == r \in s.waived \/ Finding(r, s) # "fix" \/ NoWork(r, s)

LEMMA PartIsTyped ==
  ASSUME NEW s, IsRepository(s)
  PROVE  /\ s.envOp \in {"ok", "none", "example", "hands"} /\ s.ignore \in {"ok", "none", "noline"}
         /\ s.hook \in {"managed", "none", "legacy"} /\ s.writer \in {"ok", "none", "old"}
         /\ s.mise \in {"ok", "none", "torn"} /\ s.link \in {"ok", "drift", "skills", "hand"}
         /\ s.block \in {"ok", "none"} /\ s.script \in {"ok", "none", "old", "stale"}
         /\ s.versions \in {"ok", "none", "own"}
         /\ s.retired \in {"none", "file", "dir"} /\ s.skills \in {"ok", "stale", "foreign"}
         /\ s.roots \in {"ok", "none", "real", "blocked", "mixed"}
         /\ s.agents \in {"none", "own", "claude", "gemini", "readme"} /\ s.readme \in {"none", "there"}
         /\ s.claude \in {"link", "none", "file", "else", "broken"}
         /\ s.gemini \in {"link", "none", "file", "else", "broken"}
         /\ s.json \in {"ok", "none", "torn", "drift", "vestige"} /\ s.name \in {"none", "own", "title"}
         /\ s.roles \in {"ok", "missing", "stale", "unprovisioned"} /\ s.optOut \in {"no", "yes"}
         /\ s.plane \in {"none", "there", "both", "kept"} /\ s.board \in {"match", "unlinked", "differs"}
         /\ s.copier \in {"own", "title", "base", "none", "torn"}
         /\ s.bmad \in {"full", "none", "part", "bad"} /\ s.bmadName \in {"own", "title", "base"}
         /\ s.version \in {"now", "old"} /\ s.unsupported \in {"none", "generated", "own"}
         /\ s.ignoreAgents \in {"ok", "none"}
BY PartsAre DEF IsRepository, Values

LEMMA SymlinksNoWork ==
  ASSUME NEW s, IsRepository(s), NoWork("sot.agent-symlinks", s)
  PROVE  SymlinksRepair(s).repo = s
<1> DEFINE b == Bootstrapped(s)
<1>1. b = s
  BY DEF NoWork, Bootstrapped
<1>2. CASE s.agents = "none" \/ s.claude = "broken"
  BY <1>1, <1>2 DEF SymlinksRepair, Outcome
<1>3. CASE s.agents # "none" /\ s.claude # "broken"
  <2>1. s.claude \notin {"none", "else"} /\ s.gemini \notin {"none", "else"}
    BY <1>3 DEF NoWork
  <2>2. EnsureSymlink(s, "claude") = s /\ EnsureSymlink(s, "gemini") = s
    BY <2>1 DEF EnsureSymlink
  <2> QED BY <1>1, <1>3, <2>2 DEF SymlinksRepair, Outcome
<1> QED BY <1>2, <1>3

\* What the migration of rule r does when every program that it calls does as it is asked.
Done(r, s) == Repair(r, s, TRUE, TRUE)

LEMMA DoneAre ==
  ASSUME NEW s
  PROVE  /\ Done("secrets.env-op", s) = EnvOpRepair(s)
         /\ Done("mise.config-root", s) = LinkRepair(s)
         /\ Done("mise.versioning", s) = VersionsRepair(s)
         /\ Done("skills.project-manifest", s) = SkillsRepair(s, TRUE)
         /\ Done("sot.agent-symlinks", s) = SymlinksRepair(s)
         /\ Done("bmad.scaffold", s) = ScaffoldRepair(s, TRUE, TRUE)
         /\ Done("bmad.version", s) = VersionRepair(s, TRUE, TRUE)
         /\ Done("bmad.cli-roots", s) = RootsRepair(s)
         /\ Done("sot.project-json", s) = JsonRepair(s)
         /\ Done("provenance.copier", s) = CopierRepair(s)
         /\ Done("board.schema", s) = BoardRepair(s, TRUE)
BY RepairsAre DEF Done

\* What a migration says: "applied" when it changed something, but for the installer's,
\* and "skipped" only without a board.
Says(r, s, out) ==
  /\ out.status \in {"applied", "noop", "blocked", "skipped", "partial"}
  /\ out.status = "skipped" => r = "board.schema" /\ s.board = "unlinked"
  /\ out.status = "applied" /\ out.repo = s =>
       r = "bmad.scaffold" \/ (r = "bmad.version" /\ s.bmad # "bad")

LEMMA StatusesAre ==
  ASSUME NEW s, NEW works \in BOOLEAN, NEW handed \in BOOLEAN
  PROVE  /\ Says("secrets.env-op", s, EnvOpRepair(s)) /\ Says("mise.config-root", s, LinkRepair(s))
         /\ Says("mise.versioning", s, VersionsRepair(s))
         /\ Says("skills.project-manifest", s, SkillsRepair(s, works))
         /\ Says("sot.agent-symlinks", s, SymlinksRepair(s))
         /\ Says("bmad.scaffold", s, ScaffoldRepair(s, works, handed))
         /\ Says("bmad.version", s, VersionRepair(s, works, handed))
         /\ Says("bmad.cli-roots", s, RootsRepair(s)) /\ Says("sot.project-json", s, JsonRepair(s))
         /\ Says("provenance.copier", s, CopierRepair(s))
         /\ Says("board.schema", s, BoardRepair(s, works))
<1>1. Says("secrets.env-op", s, EnvOpRepair(s))
  BY DEF Says, EnvOpRepair, Outcome
<1>2. Says("mise.config-root", s, LinkRepair(s))
  BY DEF Says, LinkRepair, Outcome
<1>3. Says("mise.versioning", s, VersionsRepair(s))
  BY DEF Says, VersionsRepair, Outcome
<1>4. Says("skills.project-manifest", s, SkillsRepair(s, works))
  BY DEF Says, SkillsRepair, Outcome
<1>5. Says("sot.agent-symlinks", s, SymlinksRepair(s))
  BY DEF Says, SymlinksRepair, Outcome
<1>6. Says("bmad.scaffold", s, ScaffoldRepair(s, works, handed))
  BY DEF Says, ScaffoldRepair, Outcome
<1>7. Says("bmad.version", s, VersionRepair(s, works, handed))
  BY DEF Says, VersionRepair, Outcome
<1>8. Says("bmad.cli-roots", s, RootsRepair(s))
  BY DEF Says, RootsRepair, Outcome
<1>9. Says("sot.project-json", s, JsonRepair(s))
  BY DEF Says, JsonRepair, Outcome
<1>10. Says("provenance.copier", s, CopierRepair(s))
  BY DEF Says, CopierRepair, Outcome
<1>11. Says("board.schema", s, BoardRepair(s, works))
  BY DEF Says, BoardRepair, Outcome
<1> QED BY <1>1, <1>2, <1>3, <1>4, <1>5, <1>6, <1>7, <1>8, <1>9, <1>10, <1>11

\* What is as it was in the parts that may have changed is as it was.
LEMMA Unchanged ==
  ASSUME NEW s, IsRepository(s), NEW t, IsRepository(t), NEW parts, Alike(s, t, parts),
         \A p \in parts : t[p] = s[p]
  PROVE  t = s
<1>1. Alike(s, t, {})
  BY DEF Alike
<1> QED BY <1>1, SameParts

LEMMA SkillsNoWork ==
  ASSUME NEW s, IsRepository(s), NoWork("skills.project-manifest", s), NEW works \in BOOLEAN,
         NEW t, t = SkillsRepair(s, works).repo
  PROVE  t = s
<1>1. /\ s.retired = "none" /\ s.mise # "none" /\ s.roots \notin {"none", "real", "mixed"}
      /\ ~(s.mise = "ok" /\ s.link \in {"drift", "skills"})
      /\ ~(s.roots = "ok" /\ s.skills = "stale")
  BY DEF NoWork
<1>2. s.retired # "dir"
  BY <1>1
<1>3. IsRepository(t) /\ Alike(s, t, {"retired", "mise", "link", "block", "hook", "roots", "skills"})
  BY <1>2, SkillsEffect
<1>4. t.retired = "none" /\ t.mise = s.mise /\ t.block = s.block /\ t.hook = s.hook
  BY <1>1, <1>2, SkillsEffect
<1>5. t.roots = s.roots /\ t.link = s.link
  BY <1>1, <1>2, SkillsEffect DEF Converted
<1>6. t.skills = s.skills \/ (t.roots = "ok" /\ s.skills = "stale" /\ t.skills = "ok")
  BY <1>1, <1>2, SkillsEffect
<1>7. \A p \in {"retired", "mise", "link", "block", "hook", "roots", "skills"} : t[p] = s[p]
  BY <1>1, <1>4, <1>5, <1>6
<1> QED BY <1>3, <1>7, Unchanged

LEMMA NothingToDo ==
  ASSUME NEW s, IsRepository(s), NEW r \in Rules, Finding(r, s) = "fix", NoWork(r, s),
         NEW out, out = Done(r, s), NEW t, t = out.repo
  PROVE  t = s /\ out.status # "applied"
<1>1. CASE r = "secrets.env-op"
  <2>1. out = EnvOpRepair(s) /\ t = EnvOpRepair(s).repo
    BY <1>1, DoneAre
  <2>2. IsRepository(t) /\ Alike(s, t, {"envOp", "ignore", "writer", "mise", "link", "block", "hook"})
    BY <2>1, EnvOpEffect
  <2>3. \A p \in {"envOp", "ignore", "writer", "mise", "link", "block", "hook"} : t[p] = s[p]
    <3>1. t.envOp = s.envOp /\ t.ignore = s.ignore /\ t.writer = s.writer /\ t.mise = s.mise /\ t.link = s.link /\ t.block = s.block /\ t.hook = s.hook
      BY <1>1, <2>1, EnvOpEffect, PartIsTyped DEF NoWork
    <3> QED BY <3>1
  <2>4. t = s
    BY <2>2, <2>3, Unchanged
  <2> QED BY <1>1, <2>1, <2>4, StatusesAre DEF Says
<1>2. CASE r = "mise.versioning"
  <2>1. out = VersionsRepair(s) /\ t = VersionsRepair(s).repo
    BY <1>2, DoneAre
  <2>2. IsRepository(t) /\ Alike(s, t, {"mise", "link", "block", "hook", "versions"})
    BY <2>1, VersionsEffect
  <2>3. \A p \in {"mise", "link", "block", "hook", "versions"} : t[p] = s[p]
    <3>1. t.mise = s.mise /\ t.link = s.link /\ t.block = s.block /\ t.hook = s.hook /\ t.versions = s.versions
      BY <1>2, <2>1, VersionsEffect, PartIsTyped DEF NoWork
    <3> QED BY <3>1
  <2>4. t = s
    BY <2>2, <2>3, Unchanged
  <2> QED BY <1>2, <2>1, <2>4, StatusesAre DEF Says
<1>3. CASE r = "skills.project-manifest"
  <2>1. out = SkillsRepair(s, TRUE) /\ t = SkillsRepair(s, TRUE).repo
    BY <1>3, DoneAre
  <2>2. t = s
    BY <1>3, <2>1, SkillsNoWork
  <2> QED BY <1>3, <2>1, <2>2, StatusesAre DEF Says
<1>4. CASE r = "sot.agent-symlinks"
  <2>1. out = SymlinksRepair(s) /\ t = SymlinksRepair(s).repo
    BY <1>4, DoneAre
  <2>2. t = s
    BY <1>4, <2>1, SymlinksNoWork
  <2> QED BY <1>4, <2>1, <2>2, StatusesAre DEF Says
<1>5. CASE r = "bmad.version"
  <2>1. out = VersionRepair(s, TRUE, TRUE) /\ s.bmad = "bad"
    BY <1>5, DoneAre DEF NoWork
  <2> QED BY <2>1 DEF VersionRepair, Outcome
<1>6. CASE r = "bmad.cli-roots"
  <2>1. out = RootsRepair(s) /\ t = RootsRepair(s).repo
    BY <1>6, DoneAre
  <2>2. s.roots = "ok" /\ s.ignoreAgents = "ok" /\ s.unsupported = "none"
    BY <1>6 DEF NoWork
  <2>3. IsRepository(t) /\ Alike(s, t, {"roots", "ignoreAgents", "unsupported"})
    BY <2>1, <2>2, RootsEffect DEF Barred
  <2>4. \A p \in {"roots", "ignoreAgents", "unsupported"} : t[p] = s[p]
    <3>1. t.roots = s.roots /\ t.ignoreAgents = s.ignoreAgents /\ t.unsupported = s.unsupported
      BY <1>6, <2>1, <2>2, RootsEffect, PartIsTyped DEF Barred
    <3> QED BY <3>1
  <2>5. t = s
    BY <2>3, <2>4, Unchanged
  <2> QED BY <1>6, <2>1, <2>5, StatusesAre DEF Says
<1>7. CASE r = "sot.project-json"
  <2>1. out = JsonRepair(s) /\ t = JsonRepair(s).repo
    BY <1>7, DoneAre
  <2>2. s.json \in {"ok", "vestige"} /\ s.name # "none" /\ s.roles \in {"ok", "unprovisioned"} /\ s.plane # "there"
    BY <1>7 DEF NoWork
  <2>3. IsRepository(t) /\ Alike(s, t, {"json", "name", "roles", "plane"})
    BY <2>1, <2>2, JsonEffect
  <2>4. \A p \in {"json", "name", "roles", "plane"} : t[p] = s[p]
    <3>1. t.json = s.json /\ t.name = s.name /\ t.roles = s.roles /\ t.plane = s.plane
      BY <1>7, <2>1, <2>2, JsonEffect, PartIsTyped DEF CanonicalName
    <3> QED BY <3>1
  <2>5. t = s
    BY <2>3, <2>4, Unchanged
  <2> QED BY <1>7, <2>1, <2>5, StatusesAre DEF Says
<1>8. CASE r \in {"mise.config-root", "bmad.scaffold", "provenance.copier", "board.schema"}
  BY <1>8 DEF NoWork
<1> QED BY <1>1, <1>2, <1>3, <1>4, <1>5, <1>6, <1>7, <1>8, RulesAre

LEMMA DoneMoves ==
  ASSUME NEW s, IsRepository(s), NEW r \in Rules, NEW t, t = Done(r, s).repo
  PROVE  IsRepository(t) /\ Alike(s, t, Touched(r)) /\ Migrated(s, t)
BY MigrationMoves DEF Done

LEMMA SkillsDone ==
  ASSUME NEW s, IsRepository(s), s.retired # "dir",
         NEW t, t = Done("skills.project-manifest", s).repo
  PROVE  /\ t.retired = "none"
         /\ t.mise = IF s.mise = "none" THEN "ok" ELSE s.mise
         /\ t.link = IF s.mise = "none" \/ (s.mise = "ok" /\ s.link \in {"drift", "skills"}) THEN "ok" ELSE s.link
         /\ t.block = IF s.mise = "none" THEN "ok" ELSE s.block
         /\ t.hook = IF s.mise = "none" THEN "managed" ELSE s.hook
         /\ t.roots = Converted(s.roots)
         /\ t.skills = s.skills \/ (t.roots = "ok" /\ s.skills = "stale" /\ t.skills = "ok")
         /\ t.roots = "ok" => t.skills # "stale"
<1>1. t = SkillsRepair(s, TRUE).repo
  BY DoneAre
<1>2. t.roots = "ok" => t.skills # "stale"
  BY <1>1, SkillsSynced
<1>3. \A works \in BOOLEAN : t = SkillsRepair(s, works).repo =>
         /\ t.retired = "none"
         /\ t.mise = IF s.mise = "none" THEN "ok" ELSE s.mise
         /\ t.link = IF s.mise = "none" \/ (s.mise = "ok" /\ s.link \in {"drift", "skills"}) THEN "ok" ELSE s.link
         /\ t.block = IF s.mise = "none" THEN "ok" ELSE s.block
         /\ t.hook = IF s.mise = "none" THEN "managed" ELSE s.hook
         /\ t.roots = Converted(s.roots)
         /\ t.skills = s.skills \/ (t.roots = "ok" /\ s.skills = "stale" /\ t.skills = "ok")
  BY SkillsEffect
<1> QED BY <1>1, <1>2, <1>3

\* What the installer leaves of the skills, handed over or not.
LEMMA InstalledSkills ==
  ASSUME NEW s, IsRepository(s), NEW handed \in BOOLEAN, NEW t, t = Installed(s, handed)
  PROVE  /\ t.bmad = "full" /\ t.version = "now" /\ t.bmadName = BmadName(s)
         /\ t.roots = IF s.roots = "none" THEN "real" ELSE s.roots
         /\ s.skills = "foreign" <=> t.skills = "foreign"
         /\ s.skills = "ok" /\ ~Anew(s) => t.skills = "ok"
BY InstalledEffect, PartIsTyped

LEMMA HandedOver ==
  ASSUME NEW s, IsRepository(s), s.roots = "ok", s.skills # "foreign", NEW t, t = Installed(s, TRUE)
  PROVE  t.skills = "ok"
<1> DEFINE i == [s EXCEPT !.bmad = "full", !.bmadName = BmadName(s), !.version = "now",
                          !.roots = IF @ = "none" THEN "real" ELSE @,
                          !.skills = IF Anew(s) /\ @ = "ok" THEN "stale" ELSE @]
<1>1. t = Synced(i, TRUE)
  BY DEF Installed, Anew
<1>2. i.roots = "ok" /\ i.skills \in {"ok", "stale"} /\ DOMAIN i = Parts
  BY PartsAre, PartIsTyped DEF IsRepository
<1> HIDE DEF i
<1>3. CASE i.skills = "stale"
  <2>1. t = [i EXCEPT !.skills = "ok"]
    BY <1>1, <1>2, <1>3 DEF Synced
  <2> QED BY <1>2, <2>1, PartsAre
<1>4. CASE i.skills = "ok"
  <2>1. t = i
    BY <1>1, <1>4 DEF Synced
  <2> QED BY <1>4, <2>1
<1> QED BY <1>2, <1>3, <1>4

LEMMA ScaffoldDone ==
  ASSUME NEW s, IsRepository(s), s.bmad # "bad", NEW t, t = Done("bmad.scaffold", s).repo
  PROVE  /\ t.bmad = "full" /\ t.version = "now" /\ t.bmadName = BmadName(s)
         /\ t.roots = IF s.roots = "none" THEN "real" ELSE s.roots
         /\ s.skills = "foreign" <=> t.skills = "foreign"
         /\ s.skills = "ok" /\ ~Anew(s) => t.skills = "ok"
         /\ ScaffoldFinding(s) = "fix" /\ s.roots = "ok" /\ s.skills # "foreign" => t.skills = "ok"
<1>1. t = ScaffoldRepair(s, TRUE, TRUE).repo
  BY DoneAre
<1>2. \A handed \in BOOLEAN : t = Installed(s, handed) =>
         /\ t.bmad = "full" /\ t.version = "now" /\ t.bmadName = BmadName(s)
         /\ t.roots = IF s.roots = "none" THEN "real" ELSE s.roots
         /\ s.skills = "foreign" <=> t.skills = "foreign"
         /\ s.skills = "ok" /\ ~Anew(s) => t.skills = "ok"
  BY InstalledSkills
<1>3. CASE ScaffoldFinding(s) = "fix"
  <2>1. t = Installed(s, TRUE)
    BY <1>1, <1>3 DEF ScaffoldRepair, Outcome
  <2>2. s.roots = "ok" /\ s.skills # "foreign" => t.skills = "ok"
    BY <2>1, HandedOver
  <2> QED BY <1>2, <2>1, <2>2
<1>4. CASE ScaffoldFinding(s) # "fix"
  <2>1. t = Installed(s, FALSE)
    BY <1>1, <1>4 DEF ScaffoldRepair, Outcome
  <2> QED BY <1>2, <1>4, <2>1
<1> QED BY <1>3, <1>4

LEMMA VersionDone ==
  ASSUME NEW s, IsRepository(s), s.bmad \notin {"none", "bad"}, s.version # "now",
         NEW t, t = Done("bmad.version", s).repo
  PROVE  /\ t.bmad = "full" /\ t.version = "now" /\ t.bmadName = BmadName(s)
         /\ t.roots = IF s.roots = "none" THEN "real" ELSE s.roots
         /\ s.skills = "foreign" <=> t.skills = "foreign"
         /\ s.roots = "ok" /\ s.skills # "foreign" => t.skills = "ok"
<1>1. t = VersionRepair(s, TRUE, TRUE).repo
  BY DoneAre
<1>2. \A handed \in BOOLEAN : t = Installed(s, handed) =>
         /\ t.bmad = "full" /\ t.version = "now" /\ t.bmadName = BmadName(s)
         /\ t.roots = IF s.roots = "none" THEN "real" ELSE s.roots
         /\ s.skills = "foreign" <=> t.skills = "foreign"
  BY InstalledSkills
<1>3. t = Installed(s, TRUE)
  BY <1>1 DEF VersionRepair, Outcome
<1>4. s.roots = "ok" /\ s.skills # "foreign" => t.skills = "ok"
  BY <1>3, HandedOver
<1> QED BY <1>2, <1>3, <1>4

\* Where a migration that leaves all as it is would be the installer's.
LEMMA InstallerIdle ==
  ASSUME NEW s
  PROVE  /\ s.bmad = "bad" => Done("bmad.scaffold", s).repo = s
         /\ s.bmad \in {"none", "bad"} \/ s.version = "now" => Done("bmad.version", s).repo = s
<1>1. \A works, handed \in BOOLEAN : s.bmad = "bad" => ScaffoldRepair(s, works, handed).repo = s
  BY DEF ScaffoldRepair, Outcome
<1>2. \A works, handed \in BOOLEAN : s.bmad \in {"none", "bad"} \/ s.version = "now" =>
                                       VersionRepair(s, works, handed).repo = s
  BY DEF VersionRepair, Outcome
<1> QED BY <1>1, <1>2, DoneAre

-----------------------------------------------------------------------------
(* A migration and its own rule: it has nothing more to do *)

LEMMA OwnWork ==
  ASSUME NEW s, IsRepository(s), NEW r \in Rules, NEW t, t = Done(r, s).repo
  PROVE  AtRest(r, t)
<1>0. IsRepository(t) /\ Alike(s, t, Touched(r))
  BY DoneMoves
<1>1. CASE r = "secrets.env-op"
  <2>1. t = EnvOpRepair(s).repo /\ t.optOut = s.optOut
    BY <1>0, <1>1, DoneAre, PartsAre DEF Touched, Alike
  <2>2. /\ t.envOp \notin {"none", "example"} /\ t.ignore # "none" /\ t.mise # "none"
        /\ t.writer = IF s.optOut = "yes" THEN "none" ELSE "ok"
    BY <2>1, EnvOpEffect
  <2>3. t.mise # "torn" => t.hook = IF s.optOut = "yes" THEN "none" ELSE "managed"
    BY <2>1, EnvOpEffect
  <2>4. NoWork("secrets.env-op", t)
    BY <2>1, <2>2, <2>3 DEF NoWork
  <2> QED BY <1>1, <2>4 DEF AtRest
<1>2. CASE r = "mise.config-root"
  <2>1. t = LinkRepair(s).repo
    BY <1>2, DoneAre
  <2>2. t.mise # "none" /\ t.script = "ok" /\ ~(t.mise = "ok" /\ t.link \in {"drift", "skills"})
    BY <2>1, LinkEffect
  <2>3. LinkFinding(t) # "fix"
    BY <2>2 DEF LinkFinding, ScriptIssue, Verdict
  <2> QED BY <1>2, <2>3, FindingsAre DEF AtRest
<1>3. CASE r = "mise.versioning"
  <2>1. t = VersionsRepair(s).repo
    BY <1>3, DoneAre
  <2>2. t.mise # "none" /\ t.versions = "ok" /\ (t.mise # "torn" => t.block = "ok")
    BY <2>1, VersionsEffect
  <2>3. CASE t.mise = "torn"
    BY <1>3, <2>2, <2>3 DEF AtRest, NoWork
  <2>4. CASE t.mise # "torn"
    <3>1. VersionsFinding(t) # "fix"
      BY <2>2, <2>4 DEF VersionsFinding, Verdict
    <3> QED BY <1>3, <3>1, FindingsAre DEF AtRest
  <2> QED BY <2>3, <2>4
<1>4. CASE r = "skills.project-manifest"
  <2>1. CASE s.retired = "dir"
    <3>1. t = s
      <4>1. \A works \in BOOLEAN : SkillsRepair(s, works).repo = s
        BY <2>1 DEF SkillsRepair, Outcome
      <4> QED BY <1>4, <4>1, DoneAre
    <3>2. SkillsFinding(t) # "fix"
      BY <2>1, <3>1 DEF SkillsFinding, Verdict
    <3> QED BY <1>4, <3>2, FindingsAre DEF AtRest
  <2>2. CASE s.retired # "dir"
    <3>1. /\ t.retired = "none" /\ t.mise # "none" /\ t.roots \notin {"none", "real", "mixed"}
          /\ ~(t.mise = "ok" /\ t.link \in {"drift", "skills"})
          /\ ~(t.roots = "ok" /\ t.skills = "stale")
      BY <1>4, <2>2, SkillsDone DEF Converted
    <3> QED BY <1>4, <3>1 DEF AtRest, NoWork
  <2> QED BY <2>1, <2>2
<1>5. CASE r = "sot.agent-symlinks"
  <2> DEFINE b == Bootstrapped(s)
  <2>1. t = SymlinksRepair(s).repo /\ t.readme = s.readme
    BY <1>0, <1>5, DoneAre, PartsAre DEF Touched, Alike
  <2>2. b.agents = "none" => /\ s.readme # "there" /\ b.claude # "file" /\ b.gemini # "file"
    BY BootstrappedEffect
  <2> HIDE DEF b
  <2>3. /\ t.agents = b.agents
        /\ t.claude = IF b.agents = "none" \/ b.claude \notin {"none", "else"} THEN b.claude ELSE "link"
        /\ t.gemini = IF b.agents = "none" \/ b.claude = "broken" \/ b.gemini \notin {"none", "else"}
                      THEN b.gemini ELSE "link"
    BY <2>1, SymlinksEffect DEF b
  <2>4. s.readme \in {"none", "there"}
    BY PartIsTyped
  <2>5. NoWork("sot.agent-symlinks", t)
    BY <2>1, <2>2, <2>3, <2>4 DEF NoWork
  <2> QED BY <1>5, <2>5 DEF AtRest
<1>6. CASE r = "bmad.scaffold"
  <2>1. CASE s.bmad = "bad"
    <3>1. t = s /\ ScaffoldFinding(s) # "fix"
      BY <1>6, <2>1, InstallerIdle DEF ScaffoldFinding
    <3> QED BY <1>6, <3>1, FindingsAre DEF AtRest
  <2>2. CASE s.bmad # "bad"
    <3>1. t.bmad = "full" /\ t.bmadName = BmadName(s)
      BY <1>6, <2>2, ScaffoldDone
    <3>2. t.name = s.name
      BY <1>0, <1>6, PartsAre DEF Touched, Alike
    <3>3. ScaffoldFinding(t) # "fix"
      BY <3>1, <3>2 DEF ScaffoldFinding, BmadName, Verdict
    <3> QED BY <1>6, <3>3, FindingsAre DEF AtRest
  <2> QED BY <2>1, <2>2
<1>7. CASE r = "bmad.version"
  <2>1. CASE s.bmad \in {"none", "bad"} \/ s.version = "now"
    <3>1. t = s
      BY <1>7, <2>1, InstallerIdle
    <3>2. VersionFinding(t) # "fix" \/ t.bmad = "bad"
      BY <2>1, <3>1 DEF VersionFinding, Verdict
    <3> QED BY <1>7, <3>2, FindingsAre DEF AtRest, NoWork
  <2>2. CASE ~(s.bmad \in {"none", "bad"} \/ s.version = "now")
    <3>1. t.version = "now"
      BY <1>7, <2>2, VersionDone
    <3>2. VersionFinding(t) # "fix"
      BY <3>1 DEF VersionFinding, Verdict
    <3> QED BY <1>7, <3>2, FindingsAre DEF AtRest
  <2> QED BY <2>1, <2>2
<1>8. CASE r = "bmad.cli-roots"
  <2>1. t = RootsRepair(s).repo
    BY <1>8, DoneAre
  <2>2. CASE s.unsupported = "own" \/ Barred(s)
    <3>1. t = s \/ t.roots = "blocked"
      BY <2>1, <2>2, BarredRootsEffect DEF RootsRepair, Outcome
    <3>2. RootsFinding(t) # "fix"
      BY <2>2, <3>1 DEF RootsFinding, RootsIssue, Verdict, Barred
    <3> QED BY <1>8, <3>2, FindingsAre DEF AtRest
  <2>3. CASE s.unsupported # "own" /\ ~Barred(s)
    <3>1. t.roots = "ok" /\ t.ignoreAgents = "ok" /\ t.unsupported = "none"
      BY <2>1, <2>3, RootsEffect
    <3> QED BY <1>8, <3>1 DEF AtRest, NoWork
  <2> QED BY <2>2, <2>3
<1>9. CASE r = "sot.project-json"
  <2>1. t = JsonRepair(s).repo
    BY <1>9, DoneAre
  <2>2. t.json \in {"ok", "vestige"} /\ t.name # "none" /\ t.roles \in {"ok", "unprovisioned"} /\ t.plane # "there"
    BY <2>1, JsonEffect DEF CanonicalName
  <2> QED BY <1>9, <2>2 DEF AtRest, NoWork
<1>10. CASE r = "provenance.copier"
  <2>1. t = CopierRepair(s).repo /\ t.name = s.name
    BY <1>0, <1>10, DoneAre, PartsAre DEF Touched, Alike
  <2>2. t.copier = CanonicalName(s) /\ s.name \in {"none", "own", "title"}
    BY <2>1, CopierEffect, PartIsTyped
  <2>3. CopierFinding(t) # "fix"
    BY <2>1, <2>2 DEF CopierFinding, CanonicalName, Verdict
  <2> QED BY <1>10, <2>3, FindingsAre DEF AtRest
<1>11. CASE r = "board.schema"
  <2>1. t.board \in {"unlinked", "match"}
    <3>1. s.board = "unlinked" => \A works \in BOOLEAN : BoardRepair(s, works).repo = s
      BY DEF BoardRepair, Outcome
    <3>2. t = BoardRepair(s, TRUE).repo
      BY <1>11, DoneAre
    <3>3. CASE s.board = "unlinked"
      BY <3>1, <3>2, <3>3
    <3>4. CASE s.board # "unlinked"
      <4>1. t = [s EXCEPT !.board = "match"]
        BY <3>2, <3>4 DEF BoardRepair, Outcome
      <4> QED BY <4>1, PartsAre DEF IsRepository
    <3> QED BY <3>3, <3>4
  <2>2. BoardFinding(t) # "fix"
    BY <2>1 DEF BoardFinding, Verdict
  <2> QED BY <1>11, <2>2, FindingsAre DEF AtRest
<1> QED BY <1>1, <1>2, <1>3, <1>4, <1>5, <1>6, <1>7, <1>8, <1>9, <1>10, <1>11, RulesAre

-----------------------------------------------------------------------------
(* A migration and the other rules *)

\* Rule x finds no more in t than it did in s.
Keeps(x, s, t) == (AtRest(x, s) => AtRest(x, t)) /\ (Fine(x, s) => Fine(x, t))

LEMMA LooksArePart ==
  ASSUME NEW r \in Rules
  PROVE  Looks(r) \subseteq Parts
BY RulesAre, PartsAre DEF Looks

\* A rule that looks at nothing a migration touches finds what it found.
LEMMA KeepsUntouched ==
  ASSUME NEW s, NEW x \in Rules, NEW t, t.waived = s.waived, NEW parts, Alike(s, t, parts),
         parts \intersect Looks(x) = {}
  PROVE  Keeps(x, s, t)
<1>1. \A p \in Looks(x) : t[p] = s[p]
  BY LooksArePart DEF Alike
<1>2. Finding(x, t) = Finding(x, s) /\ (NoWork(x, t) <=> NoWork(x, s))
  BY <1>1, LooksOnly
<1> QED BY <1>2 DEF Keeps, AtRest, Fine

\* The same, when what it looks at is left as it was if it has no work.
LEMMA KeepsAsWas ==
  ASSUME NEW s, NEW x \in Rules, NEW t, t.waived = s.waived,
         Finding(x, s) # "fix" \/ NoWork(x, s) => \A p \in Looks(x) : t[p] = s[p]
  PROVE  Keeps(x, s, t)
<1>1. CASE Finding(x, s) # "fix" \/ NoWork(x, s)
  <2>1. Finding(x, t) = Finding(x, s) /\ (NoWork(x, t) <=> NoWork(x, s))
    BY <1>1, LooksOnly
  <2> QED BY <2>1 DEF Keeps, AtRest, Fine
<1>2. CASE ~(Finding(x, s) # "fix" \/ NoWork(x, s))
  BY <1>2 DEF Keeps, AtRest, Fine
<1> QED BY <1>1, <1>2

LEMMA KeepsFine ==
  ASSUME NEW s, NEW x, NEW t, Fine(x, t)
  PROVE  Keeps(x, s, t)
BY DEF Keeps, AtRest, Fine

\* Which rules look at what another's migration touches.
Sharing ==
  ({"secrets.env-op", "mise.config-root", "mise.versioning", "skills.project-manifest"} \X
      {"secrets.env-op", "mise.config-root", "mise.versioning", "skills.project-manifest"})
  \union {<<"skills.project-manifest", "bmad.cli-roots">>, <<"bmad.cli-roots", "skills.project-manifest">>,
          <<"sot.project-json", "bmad.scaffold">>, <<"sot.project-json", "provenance.copier">>}
  \union ({"bmad.scaffold", "bmad.version"} \X
             {"bmad.scaffold", "bmad.version", "bmad.cli-roots", "skills.project-manifest"})

LEMMA SharingIs ==
  ASSUME NEW r \in Rules, NEW x \in Rules, r # x, <<r, x>> \notin Sharing
  PROVE  Touched(r) \intersect Looks(x) = {}
<1> USE DEF Touched, Looks, Sharing
<1>1. CASE r = "secrets.env-op"
  BY <1>1, RulesAre
<1>2. CASE r = "mise.config-root"
  BY <1>2, RulesAre
<1>3. CASE r = "mise.versioning"
  BY <1>3, RulesAre
<1>4. CASE r = "skills.project-manifest"
  BY <1>4, RulesAre
<1>5. CASE r = "sot.agent-symlinks"
  BY <1>5, RulesAre
<1>6. CASE r = "bmad.scaffold"
  BY <1>6, RulesAre
<1>7. CASE r = "bmad.version"
  BY <1>7, RulesAre
<1>8. CASE r = "bmad.cli-roots"
  BY <1>8, RulesAre
<1>9. CASE r = "sot.project-json"
  BY <1>9, RulesAre
<1>10. CASE r = "provenance.copier"
  BY <1>10, RulesAre
<1>11. CASE r = "board.schema"
  BY <1>11, RulesAre
<1> QED BY <1>1, <1>2, <1>3, <1>4, <1>5, <1>6, <1>7, <1>8, <1>9, <1>10, <1>11, RulesAre

MiseRules == {"secrets.env-op", "mise.config-root", "mise.versioning", "skills.project-manifest"}

\* What the migrations that share mise.toml make of it: it is made where there is none, and a
\* retired link is taken out of it.
LEMMA MiseDone ==
  ASSUME NEW s, IsRepository(s), NEW r \in MiseRules, NEW t, t = Done(r, s).repo
  PROVE  \/ t = s
         \/ /\ t.mise = IF s.mise = "none" THEN "ok" ELSE s.mise
            /\ s.mise = "none" => t.link = "ok"
            /\ s.mise # "none" /\ ~(s.mise = "ok" /\ s.link \in {"drift", "skills"}) => t.link = s.link
            /\ t.link = s.link \/ t.link = "ok"
            /\ s.mise # "none" /\ r # "mise.versioning" => t.block = s.block
            /\ s.mise # "none" /\ r # "secrets.env-op" => t.hook = s.hook
<1>1. CASE r = "secrets.env-op"
  <2>1. t = EnvOpRepair(s).repo
    BY <1>1, DoneAre
  <2> QED BY <1>1, <2>1, EnvOpEffect
<1>2. CASE r = "mise.config-root"
  <2>1. t = LinkRepair(s).repo
    BY <1>2, DoneAre
  <2> QED BY <1>2, <2>1, LinkEffect
<1>3. CASE r = "mise.versioning"
  <2>1. t = VersionsRepair(s).repo
    BY <1>3, DoneAre
  <2> QED BY <1>3, <2>1, VersionsEffect
<1>4. CASE r = "skills.project-manifest"
  <2>1. CASE s.retired = "dir"
    <3>1. \A works \in BOOLEAN : SkillsRepair(s, works).repo = s
      BY <2>1 DEF SkillsRepair, Outcome
    <3> QED BY <1>4, <3>1, DoneAre
  <2>2. CASE s.retired # "dir"
    BY <1>4, <2>2, SkillsDone
  <2> QED BY <2>1, <2>2
<1> QED BY <1>1, <1>2, <1>3, <1>4 DEF MiseRules

LEMMA KeepsMise ==
  ASSUME NEW s, IsRepository(s), NEW r \in MiseRules, NEW x \in MiseRules, r # x,
         NEW t, t = Done(r, s).repo
  PROVE  Keeps(x, s, t)
<1>0. MiseRules \subseteq Rules
  BY RulesAre DEF MiseRules
<1>1. /\ IsRepository(t) /\ Alike(s, t, Touched(r)) /\ t.waived = s.waived
  BY <1>0, DoneMoves DEF Migrated
<1>2. SUFFICES ASSUME t # s PROVE Keeps(x, s, t)
  BY DEF Keeps
<1>3. /\ t.mise = IF s.mise = "none" THEN "ok" ELSE s.mise
      /\ s.mise = "none" => t.link = "ok"
      /\ s.mise # "none" /\ ~(s.mise = "ok" /\ s.link \in {"drift", "skills"}) => t.link = s.link
      /\ t.link = s.link \/ t.link = "ok"
      /\ s.mise # "none" /\ r # "mise.versioning" => t.block = s.block
      /\ s.mise # "none" /\ r # "secrets.env-op" => t.hook = s.hook
  BY <1>2, MiseDone
<1>4. CASE x = "secrets.env-op"
  <2>1. t.envOp = s.envOp /\ t.ignore = s.ignore /\ t.writer = s.writer /\ t.optOut = s.optOut
    BY <1>1, <1>4, PartsAre DEF MiseRules, Touched, Alike
  <2>2. Finding(x, s) # "fix" \/ NoWork(x, s) => s.mise # "none"
    BY <1>4, FindingsAre DEF EnvOpFinding, NoWork, Verdict
  <2>3. s.mise # "none" => \A p \in Looks(x) : t[p] = s[p]
    BY <1>3, <1>4, <2>1 DEF Looks
  <2> QED BY <1>0, <1>1, <2>2, <2>3, KeepsAsWas
<1>5. CASE x = "mise.config-root"
  <2>1. t.script = s.script
    BY <1>1, <1>5, PartsAre DEF MiseRules, Touched, Alike
  <2>2. Finding(x, s) # "fix" \/ NoWork(x, s) =>
           s.mise # "none" /\ ~(s.mise = "ok" /\ s.link \in {"drift", "skills"})
    BY <1>5, FindingsAre DEF LinkFinding, NoWork, Verdict
  <2>3. Finding(x, s) # "fix" \/ NoWork(x, s) => \A p \in Looks(x) : t[p] = s[p]
    BY <1>3, <1>5, <2>1, <2>2 DEF Looks
  <2> QED BY <1>0, <1>1, <2>3, KeepsAsWas
<1>6. CASE x = "mise.versioning"
  <2>1. t.versions = s.versions
    BY <1>1, <1>6, PartsAre DEF MiseRules, Touched, Alike
  <2>2. Finding(x, s) # "fix" \/ NoWork(x, s) => s.mise # "none"
    BY <1>6, FindingsAre DEF VersionsFinding, NoWork, Verdict
  <2>3. s.mise # "none" => \A p \in Looks(x) : t[p] = s[p]
    BY <1>3, <1>6, <2>1 DEF Looks
  <2> QED BY <1>0, <1>1, <2>2, <2>3, KeepsAsWas
<1>7. CASE x = "skills.project-manifest"
  <2>1. t.skills = s.skills /\ t.roots = s.roots /\ t.retired = s.retired
    BY <1>1, <1>7, PartsAre DEF MiseRules, Touched, Alike
  <2>2. (t.mise = s.mise /\ t.link = s.link) \/ (t.mise # "none" /\ t.mise = s.mise /\ t.link = "ok") \/ (t.mise = "ok" /\ t.link = "ok")
    BY <1>3
  <2>3. CASE t.mise = s.mise /\ t.link = s.link
    BY <1>0, <1>1, <1>7, <2>1, <2>3, KeepsAsWas DEF Looks
  <2>4. CASE t.mise # "none" /\ ~(t.mise = "ok" /\ t.link # "ok") /\ (t.mise = "torn" => s.mise = "torn")
    <3>1. Wiring(t) => Wiring(s)
      BY <2>4 DEF Wiring
    <3>2. SkillsFinding(s) = "pass" => SkillsFinding(t) = "pass"
      BY <2>1, <2>4, <3>1 DEF SkillsFinding, Verdict, Barred
    <3>3. SkillsFinding(t) = "fix" => SkillsFinding(s) = "fix"
      BY <2>1, <2>4, <3>1 DEF SkillsFinding, Verdict, Barred
    <3>4. NoWork("skills.project-manifest", s) => NoWork("skills.project-manifest", t)
      BY <2>1, <2>4 DEF NoWork
    <3>5. SkillsFinding(s) \in {"pass", "fix", "hands"}
      BY DEF SkillsFinding, Verdict
    <3> QED BY <1>1, <1>7, <3>2, <3>3, <3>4, <3>5, FindingsAre DEF Keeps, AtRest, Fine
  <2> QED BY <2>2, <2>3, <2>4
<1> QED BY <1>4, <1>5, <1>6, <1>7 DEF MiseRules

\* Rules that the state of the roots or of _bmad concerns, after what makes the roots aliases or
\* runs the installer.
LEMMA KeepsRoots ==
  ASSUME NEW s, IsRepository(s), NEW t, t = Done("skills.project-manifest", s).repo
  PROVE  Keeps("bmad.cli-roots", s, t)
<1>1. /\ IsRepository(t) /\ Alike(s, t, Touched("skills.project-manifest")) /\ t.waived = s.waived
  BY DoneMoves, RulesAre DEF Migrated
<1>2. SUFFICES ASSUME t # s PROVE Keeps("bmad.cli-roots", s, t)
  BY DEF Keeps
<1>3. s.retired # "dir"
  <2>1. s.retired = "dir" => \A works \in BOOLEAN : SkillsRepair(s, works).repo = s
    BY DEF SkillsRepair, Outcome
  <2> QED BY <1>2, <2>1, DoneAre
<1>4. t.roots = Converted(s.roots)
  BY <1>3, SkillsDone
<1>5. t.bmad = s.bmad /\ t.unsupported = s.unsupported /\ t.ignoreAgents = s.ignoreAgents
  BY <1>1, PartsAre DEF Touched, Alike
<1>6. CASE s.roots \notin {"none", "real", "mixed"}
  <2>1. t.roots = s.roots
    BY <1>4, <1>6 DEF Converted
  <2> QED BY <1>1, <1>5, <2>1, KeepsAsWas, RulesAre DEF Looks
<1>7. CASE s.roots \in {"none", "real", "mixed"}
  <2>1. ~NoWork("bmad.cli-roots", s) /\ RootsFinding(s) # "pass" /\ RootsFinding(s) # "skip"
    BY <1>7 DEF NoWork, RootsFinding, RootsIssue, Verdict
  <2>2. RootsFinding(s) # "fix" => RootsFinding(t) # "fix"
    BY <1>4, <1>5, <1>7 DEF RootsFinding, RootsIssue, Verdict, Barred, Converted
  <2> QED BY <1>1, <2>1, <2>2, FindingsAre DEF Keeps, AtRest, Fine
<1> QED BY <1>6, <1>7

LEMMA KeepsSkills ==
  ASSUME NEW s, IsRepository(s), NEW t, t = Done("bmad.cli-roots", s).repo
  PROVE  Keeps("skills.project-manifest", s, t)
<1>1. /\ IsRepository(t) /\ Alike(s, t, Touched("bmad.cli-roots")) /\ t.waived = s.waived
  BY DoneMoves, RulesAre DEF Migrated
<1>2. SUFFICES ASSUME t # s PROVE Keeps("skills.project-manifest", s, t)
  BY DEF Keeps
<1>3. s.roots # "blocked" /\ t.roots = IF s.roots = "mixed" THEN "blocked" ELSE "ok"
  <2>1. t = RootsRepair(s).repo
    BY DoneAre
  <2>2. s.unsupported # "own" /\ s.roots # "blocked"
    <3>1. s.roots = "blocked" => WithRoots(s) = s
      BY SameRoots
    <3> QED BY <1>2, <2>1, <3>1 DEF RootsRepair, Outcome, Barred
  <2> QED BY <2>1, <2>2, RootsEffect, BarredRootsEffect DEF Barred
<1>4. t.skills = s.skills /\ t.mise = s.mise /\ t.link = s.link /\ t.retired = s.retired
  BY <1>1, PartsAre DEF Touched, Alike
<1>5. CASE s.roots = "ok"
  BY <1>1, <1>3, <1>4, <1>5, KeepsAsWas, RulesAre DEF Looks
<1>6. CASE s.roots # "ok"
  <2>1. s.roots \in {"none", "real", "mixed"}
    BY <1>3, <1>6, PartIsTyped
  <2>2. ~NoWork("skills.project-manifest", s) /\ SkillsFinding(s) \notin {"pass", "skip"}
    BY <1>6, <2>1 DEF NoWork, SkillsFinding, Verdict
  <2>3. SkillsFinding(s) # "fix" => SkillsFinding(t) # "fix"
    BY <1>3, <1>4, <1>6, <2>1 DEF SkillsFinding, Wiring, Verdict, Barred
  <2> QED BY <1>1, <2>2, <2>3, FindingsAre DEF Keeps, AtRest, Fine
<1> QED BY <1>5, <1>6

\* The installer finds work, or would replace nothing: the links that Skillex made stay.
LEMMA KeepsInstalled ==
  ASSUME NEW s, IsRepository(s), NEW r \in {"bmad.scaffold", "bmad.version"},
         NEW x \in {"bmad.scaffold", "bmad.version", "bmad.cli-roots", "skills.project-manifest"}, r # x,
         x = "skills.project-manifest" /\ r = "bmad.scaffold" => Finding(r, s) # "pass" \/ ~Anew(s),
         NEW t, t = Done(r, s).repo
  PROVE  Keeps(x, s, t)
<1>0. r \in Rules /\ x \in Rules
  BY RulesAre
<1>1. /\ IsRepository(t) /\ Alike(s, t, Touched(r)) /\ t.waived = s.waived
  BY <1>0, DoneMoves DEF Migrated
<1>2. SUFFICES ASSUME t # s PROVE Keeps(x, s, t)
  BY DEF Keeps
<1>3. s.bmad # "bad" /\ (r = "bmad.version" => s.bmad # "none" /\ s.version # "now")
  BY <1>2, InstallerIdle
<1>4. /\ t.bmad = "full" /\ t.version = "now" /\ t.bmadName = BmadName(s)
      /\ t.roots = IF s.roots = "none" THEN "real" ELSE s.roots
      /\ s.skills = "foreign" <=> t.skills = "foreign"
  <2>1. CASE r = "bmad.scaffold"
    BY <1>3, <2>1, ScaffoldDone
  <2>2. CASE r = "bmad.version"
    BY <1>3, <2>2, VersionDone
  <2> QED BY <2>1, <2>2
<1>5. /\ t.name = s.name /\ t.unsupported = s.unsupported /\ t.ignoreAgents = s.ignoreAgents
      /\ t.mise = s.mise /\ t.link = s.link /\ t.retired = s.retired
  BY <1>1, PartsAre DEF Touched, Alike
<1>6. CASE x = "bmad.scaffold"
  <2>1. ScaffoldFinding(t) = "pass"
    BY <1>4, <1>5 DEF ScaffoldFinding, BmadName, Verdict
  <2> QED BY <1>6, <2>1, FindingsAre, KeepsFine DEF Fine
<1>7. CASE x = "bmad.version"
  <2>1. VersionFinding(t) = "pass"
    BY <1>4 DEF VersionFinding, Verdict
  <2> QED BY <1>7, <2>1, FindingsAre, KeepsFine DEF Fine
<1>8. CASE x = "bmad.cli-roots"
  <2>1. RootsFinding(s) = "pass" => RootsFinding(t) = "pass"
    BY <1>4, <1>5 DEF RootsFinding, RootsIssue, Verdict, Barred
  <2>2. NoWork("bmad.cli-roots", s) => NoWork("bmad.cli-roots", t)
    BY <1>4, <1>5 DEF NoWork
  <2>3. RootsFinding(s) # "fix" => RootsFinding(t) # "fix"
    BY <1>4, <1>5 DEF RootsFinding, RootsIssue, Verdict, Barred
  <2>4. RootsFinding(s) # "skip"
    BY DEF RootsFinding, Verdict
  <2> QED BY <1>1, <1>8, <2>1, <2>2, <2>3, <2>4, FindingsAre DEF Keeps, AtRest, Fine
<1>9. CASE x = "skills.project-manifest"
  <2>1. s.skills = "ok" /\ s.roots = "ok" => t.skills = "ok"
    <3>1. CASE r = "bmad.scaffold"
      <4>1. ScaffoldFinding(s) = "fix" \/ ~Anew(s)
        BY <1>3, <1>9, <3>1, FindingsAre DEF ScaffoldFinding, Verdict
      <4> QED BY <1>3, <3>1, <4>1, ScaffoldDone
    <3>2. CASE r = "bmad.version"
      BY <1>3, <3>2, VersionDone
    <3> QED BY <3>1, <3>2
  <2>2. SkillsFinding(s) = "pass" => SkillsFinding(t) = "pass"
    BY <1>4, <1>5, <2>1 DEF SkillsFinding, Wiring, Verdict, Barred
  <2>3. NoWork("skills.project-manifest", s) => NoWork("skills.project-manifest", t)
    BY <1>4, <1>5, <2>1, PartIsTyped DEF NoWork
  <2>4. SkillsFinding(s) # "fix" => SkillsFinding(t) # "fix"
    BY <1>4, <1>5, <2>1 DEF SkillsFinding, Wiring, Verdict, Barred
  <2>5. SkillsFinding(s) # "skip"
    BY DEF SkillsFinding, Verdict
  <2> QED BY <1>1, <1>9, <2>2, <2>3, <2>4, <2>5, FindingsAre DEF Keeps, AtRest, Fine
<1> QED BY <1>6, <1>7, <1>8, <1>9

\* Names change only where there was none.
LEMMA KeepsNamed ==
  ASSUME NEW s, IsRepository(s), NEW x \in {"bmad.scaffold", "provenance.copier"},
         NEW t, t = Done("sot.project-json", s).repo, t.name = s.name
  PROVE  Keeps(x, s, t)
<1>0. "sot.project-json" \in Rules /\ x \in Rules
  BY RulesAre
<1>1. /\ Alike(s, t, {"json", "name", "roles", "plane"}) /\ t.waived = s.waived
  BY <1>0, DoneMoves DEF Migrated, Touched
<1>2. \A p \in Looks(x) : t[p] = s[p]
  BY <1>1, PartsAre DEF Looks, Alike
<1> QED BY <1>0, <1>1, <1>2, KeepsAsWas

\* No migration gives another rule work, or takes it out of parity: but for the names that go
\* with one in .project.json, and for what an installer that had nothing to do replaces.
LEMMA OthersKeep ==
  ASSUME NEW s, IsRepository(s), NEW r \in Rules, NEW x \in Rules, r # x,
         NEW t, t = Done(r, s).repo,
         t.name = s.name \/ x \notin {"bmad.scaffold", "provenance.copier"},
         x = "skills.project-manifest" /\ r = "bmad.scaffold" => Finding(r, s) # "pass" \/ ~Anew(s)
  PROVE  Keeps(x, s, t)
<1>1. Alike(s, t, Touched(r)) /\ t.waived = s.waived
  BY DoneMoves DEF Migrated
<1>2. CASE <<r, x>> \notin Sharing
  BY <1>1, <1>2, SharingIs, KeepsUntouched
<1>3. CASE r \in MiseRules /\ x \in MiseRules
  BY <1>3, KeepsMise
<1>4. CASE r = "skills.project-manifest" /\ x = "bmad.cli-roots"
  BY <1>4, KeepsRoots
<1>5. CASE r = "bmad.cli-roots" /\ x = "skills.project-manifest"
  BY <1>5, KeepsSkills
<1>6. CASE r = "sot.project-json" /\ x \in {"bmad.scaffold", "provenance.copier"}
  BY <1>6, KeepsNamed
<1>7. CASE /\ r \in {"bmad.scaffold", "bmad.version"}
           /\ x \in {"bmad.scaffold", "bmad.version", "bmad.cli-roots", "skills.project-manifest"}
  BY <1>7, KeepsInstalled
<1> QED BY <1>2, <1>3, <1>4, <1>5, <1>6, <1>7 DEF Sharing, MiseRules

-----------------------------------------------------------------------------
(* The next rule *)

\* None of some rules is among the first k.
NoneOf(rules, k) == \A j \in 1..k : Order[j] \notin rules

LEMMA FirstIs ==
  ASSUME NEW rules \in SUBSET Rules, rules # {}
  PROVE  \E i \in 1..11 : First(rules) = Order[i] /\ Order[i] \in rules /\ NoneOf(rules, i - 1)
<1> DEFINE P(i) == Order[i] \in rules /\ \A j \in 1..i-1 : Order[j] \notin rules
           Found == \E i \in 1..11 : P(i)
<1>1. DOMAIN Order = 1..11
  BY DEF Order
<1>2. \A k \in 1..11 : NoneOf(rules, k - 1) => NoneOf(rules, k) \/ Found
  <2> SUFFICES ASSUME NEW k \in 1..11, NoneOf(rules, k - 1) PROVE NoneOf(rules, k) \/ Found
    OBVIOUS
  <2>1. CASE Order[k] \in rules
    <3>1. P(k)
      BY <2>1 DEF NoneOf
    <3> QED BY <3>1
  <2>2. CASE Order[k] \notin rules
    <3>1. \A j \in 1..k : j = k \/ j \in 1..k-1
      OBVIOUS
    <3> QED BY <2>2, <3>1 DEF NoneOf
  <2> QED BY <2>1, <2>2
<1>3. NoneOf(rules, 0)
  BY DEF NoneOf
<1>4. ~NoneOf(rules, 11)
  BY <1>1 DEF NoneOf, Rules
<1> HIDE DEF Found
<1>5. NoneOf(rules, 1) \/ Found
  BY <1>2, <1>3
<1>6. NoneOf(rules, 2) \/ Found
  BY <1>2, <1>5
<1>7. NoneOf(rules, 3) \/ Found
  BY <1>2, <1>6
<1>8. NoneOf(rules, 4) \/ Found
  BY <1>2, <1>7
<1>9. NoneOf(rules, 5) \/ Found
  BY <1>2, <1>8
<1>10. NoneOf(rules, 6) \/ Found
  BY <1>2, <1>9
<1>11. NoneOf(rules, 7) \/ Found
  BY <1>2, <1>10
<1>12. NoneOf(rules, 8) \/ Found
  BY <1>2, <1>11
<1>13. NoneOf(rules, 9) \/ Found
  BY <1>2, <1>12
<1>14. NoneOf(rules, 10) \/ Found
  BY <1>2, <1>13
<1>15. Found
  BY <1>2, <1>4, <1>14
<1> DEFINE c == CHOOSE i \in DOMAIN Order : P(i)
<1>16. c \in 1..11 /\ P(c)
  BY <1>1, <1>15 DEF Found
<1>17. First(rules) = Order[c]
  BY DEF First
<1> HIDE DEF c
<1> QED BY <1>16, <1>17 DEF NoneOf

LEMMA NextRule ==
  ASSUME NEW rules \in SUBSET Rules, rules # {}
  PROVE  /\ First(rules) \in rules
         /\ "bmad.scaffold" \in rules =>
              First(rules) \in {"secrets.env-op", "mise.config-root", "mise.versioning",
                                "skills.project-manifest", "sot.agent-symlinks", "bmad.scaffold"}
<1>1. PICK i \in 1..11 : First(rules) = Order[i] /\ Order[i] \in rules /\ NoneOf(rules, i - 1)
  BY FirstIs
<1>2. "bmad.scaffold" \in rules => ~(6 \in 1..i-1)
  BY <1>1 DEF NoneOf, Order
<1>3. "bmad.scaffold" \in rules => i \in {1, 2, 3, 4, 5, 6}
  BY <1>2
<1> QED BY <1>1, <1>3 DEF Order

LEMMA CalmIsDone ==
  ASSUME NEW s, NEW r, NEW works \in BOOLEAN, NEW handed \in BOOLEAN, works, handed
  PROVE  Repair(r, s, works, handed) = Done(r, s)
<1>1. works = TRUE /\ handed = TRUE
  OBVIOUS
<1> QED BY <1>1, Zenon DEF Done

LEMMA MigrationSays ==
  ASSUME NEW s, NEW r \in Rules, NEW works \in BOOLEAN, NEW handed \in BOOLEAN
  PROVE  Says(r, s, Repair(r, s, works, handed))
BY StatusesAre, RepairsAre, RulesAre

\* A step of Migrate, without the choices in it.
LEMMA MigrateIs ==
  ASSUME ParityTypeOK, Migrate, NEW r, r = First(run.queue)
  PROVE  /\ r \in run.queue /\ r \in Rules /\ run.at = "migrate" /\ wrong' = wrong
         /\ IsRepository(repo') /\ Alike(repo, repo', Touched(r)) /\ Migrated(repo, repo')
         /\ run' \in Commands
         /\ run'.at = "migrate" /\ run'.all = run.all /\ run'.pass = run.pass
         /\ run'.manual = run.manual
         /\ run'.queue = run.queue \ {r} /\ run'.due = run.due \union {r}
         /\ \A x \in Rules \ {r} : run'.results[x] = run.results[x]
         /\ run'.results[r] # "none"
         /\ run'.results[r] = "skipped" => r = "board.schema" /\ repo.board = "unlinked"
         /\ run'.wrote => run.wrote \/ run'.results[r] = "applied" \/ repo' # repo
         /\ run'.calm => /\ run.calm /\ repo' = Done(r, repo).repo
                         /\ run'.results[r] = Done(r, repo).status
         /\ quiet' = quiet \/ quiet' = 0
         /\ run.calm /\ ~run'.calm => quiet' = 0
         /\ failures' \in 0..MaxFailures
         /\ failures' = failures => repo' = Done(r, repo).repo
<1>1. /\ run \in Commands /\ IsRepository(repo) /\ failures \in 0..MaxFailures
      /\ run.queue \in SUBSET Rules /\ run.queue # {} /\ run.at = "migrate"
  BY DEF ParityTypeOK, Migrate, Commands
<1>2. r \in run.queue /\ r \in Rules
  BY <1>1, NextRule
<1>3. PICK works \in BOOLEAN, handed \in BOOLEAN :
        /\ (works /\ handed) \/ (r \in Outside /\ failures < MaxFailures)
        /\ repo' = Repair(r, repo, works, handed).repo
        /\ run' = [run EXCEPT !.queue = @ \ {r}, !.due = @ \union {r},
                              !.results[r] = Repair(r, repo, works, handed).status,
                              !.wrote = @ \/ Repair(r, repo, works, handed).status = "applied"
                                          \/ Repair(r, repo, works, handed).repo # repo,
                              !.calm = @ /\ (works /\ handed)]
        /\ failures' = failures + (IF works /\ handed THEN 0 ELSE 1)
        /\ quiet' = IF works /\ handed THEN quiet ELSE 0
  BY DEF Migrate
<1>4. IsRepository(repo') /\ Alike(repo, repo', Touched(r)) /\ Migrated(repo, repo')
  BY <1>1, <1>2, <1>3, MigrationMoves
<1>5. Says(r, repo, Repair(r, repo, works, handed))
  BY <1>2, MigrationSays
<1>6. works /\ handed => Repair(r, repo, works, handed) = Done(r, repo)
  BY CalmIsDone, Zenon
<1> DEFINE status == Repair(r, repo, works, handed).status
           wrote == run.wrote \/ Repair(r, repo, works, handed).status = "applied"
                               \/ Repair(r, repo, works, handed).repo # repo
           calm == run.calm /\ (works /\ handed)
<1>7. status \in {"applied", "noop", "blocked", "skipped", "partial"}
  BY <1>5 DEF Says
<1>8. wrote \in BOOLEAN /\ calm \in BOOLEAN
  BY <1>1 DEF Commands
<1> HIDE DEF status, wrote, calm
<1>9. run' = [run EXCEPT !.queue = @ \ {r}, !.due = @ \union {r}, !.results[r] = status,
                         !.wrote = wrote, !.calm = calm]
  BY <1>3, Zenon DEF status, wrote, calm
<1>10. /\ run'.at = "migrate" /\ run'.all = run.all /\ run'.pass = run.pass
       /\ run'.manual = run.manual
       /\ run'.queue = run.queue \ {r} /\ run'.due = run.due \union {r}
       /\ run'.results = [run.results EXCEPT ![r] = status]
       /\ run'.wrote = wrote /\ run'.calm = calm
  BY <1>1, <1>9 DEF Commands
<1>11. run' \in Commands
  BY <1>1, <1>2, <1>7, <1>8, <1>9 DEF Commands, Statuses
<1>12. run'.results[r] = status /\ \A x \in Rules \ {r} : run'.results[x] = run.results[x]
  BY <1>1, <1>2, <1>10 DEF Commands
<1>13. run'.results[r] = "skipped" => r = "board.schema" /\ repo.board = "unlinked"
  BY <1>5, <1>12 DEF Says, status
<1>14. run'.wrote => run.wrote \/ run'.results[r] = "applied" \/ repo' # repo
  BY <1>3, <1>10, <1>12 DEF wrote, status
<1>15. run'.calm => /\ run.calm /\ repo' = Done(r, repo).repo
                    /\ run'.results[r] = Done(r, repo).status
  BY <1>3, <1>6, <1>10, <1>12 DEF calm, status
<1>16. /\ quiet' = quiet \/ quiet' = 0
       /\ run.calm /\ ~run'.calm => quiet' = 0
  BY <1>3, <1>10 DEF calm
<1>17. failures' \in 0..MaxFailures
  BY <1>1, <1>3, BoundAssumption
<1>18. failures' = failures => repo' = Done(r, repo).repo
  BY <1>1, <1>3, <1>6
<1>19. wrong' = wrong
  BY DEF Migrate
<1> QED BY <1>1, <1>2, <1>4, <1>7, <1>10, <1>11, <1>12, <1>13, <1>14, <1>15, <1>16, <1>17, <1>18, <1>19

-----------------------------------------------------------------------------
(* Type correctness *)

LEMMA SoundIs ==
  ASSUME NEW s, IsRepository(s)
  PROVE  IsRepository(Sound(s)) /\ (Sound(s).mise = "none" => Sound(s).link = "ok")
<1> DEFINE m == IF s.mise # "none" THEN s ELSE [s EXCEPT !.hook = "none", !.link = "ok", !.block = "none"]
           e == [m EXCEPT !.name = "none", !.roles = "ok", !.optOut = "no", !.waived = {},
                          !.board = "unlinked"]
<1>1. Sound(s) = IF Readable(m) THEN m ELSE e
  BY DEF Sound
<1>2. IsRepository(m) /\ (m.mise = "none" => m.link = "ok")
  <2>1. CASE s.mise # "none"
    BY <2>1
  <2>2. CASE s.mise = "none"
    <3>1. m = [s EXCEPT !.hook = "none", !.link = "ok", !.block = "none"]
      BY <2>2
    <3>2. DOMAIN s = Parts /\ DOMAIN m = Parts /\ m = [p \in Parts |-> m[p]]
      BY <3>1 DEF IsRepository
    <3>3. m.hook = "none" /\ m.link = "ok" /\ m.block = "none"
      BY <3>1, <3>2, PartsAre
    <3>4. Alike(s, m, {"hook", "link", "block"})
      <4> SUFFICES ASSUME NEW p \in Parts, p # "hook", p # "link", p # "block"
                   PROVE  m[p] = s[p]
        BY DEF Alike
      <4> QED BY <3>1, <3>2
    <3> HIDE DEF m
    <3>5. "none" \in Values.hook /\ "ok" \in Values.link /\ "none" \in Values.block
      BY DEF Values
    <3>6. IsRepository(m)
      BY <3>2, <3>3, <3>4, <3>5, Retyped
    <3> QED BY <3>3, <3>6
  <2> QED BY <2>1, <2>2
<1> HIDE DEF m
<1>3. IsRepository(e) /\ e.mise = m.mise /\ e.link = m.link
  <2>1. DOMAIN m = Parts /\ DOMAIN e = Parts /\ e = [p \in Parts |-> e[p]]
    BY <1>2 DEF IsRepository
  <2>2. e.name = "none" /\ e.roles = "ok" /\ e.optOut = "no" /\ e.waived = {} /\ e.board = "unlinked"
    BY <2>1, PartsAre
  <2>3. Alike(m, e, {"name", "roles", "optOut", "waived", "board"})
    <3> SUFFICES ASSUME NEW p \in Parts, p # "name", p # "roles", p # "optOut", p # "waived", p # "board"
                 PROVE  e[p] = m[p]
      BY DEF Alike
    <3> QED BY <2>1
  <2> HIDE DEF e
  <2>4. /\ "none" \in Values.name /\ "ok" \in Values.roles /\ "no" \in Values.optOut
        /\ {} \in Values.waived /\ "unlinked" \in Values.board
    BY DEF Values
  <2>5. IsRepository(e)
    <3>1. \A p \in {"name", "roles", "optOut", "waived", "board"} : e[p] \in Values[p]
      BY <2>2, <2>4
    <3> QED BY <1>2, <2>1, <2>3, <3>1, Retyped
  <2> QED BY <2>3, <2>5, PartsAre DEF Alike
<1> HIDE DEF e
<1> QED BY <1>1, <1>2, <1>3

LEMMA DeviateIs ==
  ASSUME NEW s, IsRepository(s), NEW ds \in SUBSET Deviations
  PROVE  IsRepository(Deviate(s, ds)) /\ (Deviate(s, ds).mise = "none" => Deviate(s, ds).link = "ok")
<1> DEFINE of(p) == {d \in ds : d[1] = p}
           t == [p \in DOMAIN s |-> IF of(p) = {} THEN s[p] ELSE (CHOOSE d \in of(p) : TRUE)[2]]
<1>1. DOMAIN s = Parts
  BY DEF IsRepository
<1>2. \A p \in Parts : t[p] \in Values[p]
  <2> SUFFICES ASSUME NEW p \in Parts PROVE t[p] \in Values[p]
    OBVIOUS
  <2>1. CASE of(p) = {}
    BY <1>1, <2>1 DEF IsRepository
  <2>2. CASE of(p) # {}
    <3> DEFINE d == CHOOSE e \in of(p) : TRUE
    <3>1. d \in of(p)
      BY <2>2
    <3>2. d \in Deviations /\ d[1] = p
      BY <3>1
    <3>3. d[2] \in Values[p]
      BY <3>2, RepositoryAssumption
    <3> QED BY <1>1, <2>2, <3>3
  <2> QED BY <2>1, <2>2
<1>3. IsRepository(t)
  BY <1>1, <1>2 DEF IsRepository
<1>4. Deviate(s, ds) = Sound(t)
  BY DEF Deviate
<1> HIDE DEF t
<1> QED BY <1>3, <1>4, SoundIs

LEMMA IdleIs ==
  /\ Idle \in Commands /\ Idle.at = "idle" /\ Idle.queue = {} /\ Idle.due = {} /\ Idle.manual = {}
  /\ Idle.wrote = FALSE /\ Idle.calm = TRUE /\ \A r \in Rules : Idle.results[r] = "none"
BY DEF Idle, Commands, Statuses

LEMMA TypeInit ==
  ASSUME ParityInit
  PROVE  ParityTypeOK
<1>1. PICK ds \in {{}} \union {{d, e} : d, e \in Deviations} :
         Cardinality(ds) <= MaxWrong /\ repo = Deviate(InParity, ds) /\ wrong = Cardinality(ds)
  BY DEF ParityInit
<1>2. ds \in SUBSET Deviations
  OBVIOUS
<1>3. IsFiniteSet(ds)
  <2>1. CASE ds = {}
    BY <2>1, FS_EmptySet
  <2>2. CASE ds # {}
    <3>1. PICK d \in Deviations, e \in Deviations : ds = {d, e}
      BY <2>2
    <3>2. IsFiniteSet({d})
      BY FS_Singleton
    <3>3. ds = {d} \union {e}
      BY <3>1
    <3> QED BY <3>2, <3>3, FS_AddElement
  <2> QED BY <2>1, <2>2
<1>4. wrong \in 0..MaxWrong
  BY <1>1, <1>3, FS_CardinalityType, BoundAssumption
<1>5. IsRepository(repo)
  BY <1>1, <1>2, DeviateIs, RepositoryAssumption
<1>6. run = Idle /\ quiet = 0 /\ failures = 0
  BY DEF ParityInit
<1> QED BY <1>4, <1>5, <1>6, IdleIs, BoundAssumption DEF ParityTypeOK, Reported

\* What the other steps make of the command.
LEMMA MigrateAllIs ==
  ASSUME MigrateAll
  PROVE  /\ run.at = "idle" /\ run' \in Commands
         /\ run'.at = "migrate" /\ run'.all = TRUE /\ run'.pass = 1 /\ run'.due = {}
         /\ run'.queue = {r \in Rules : Audited(r, repo) = "fix"}
         /\ run'.manual = {r \in Rules : Audited(r, repo) = "hands"}
         /\ run'.wrote = FALSE /\ run'.calm = TRUE /\ \A r \in Rules : run'.results[r] = "none"
         /\ repo' = repo /\ quiet' = quiet /\ wrong' = wrong /\ failures' = failures
BY DEF MigrateAll, Idle, Commands, Statuses

LEMMA MigrateRuleIs ==
  ASSUME NEW r \in Rules, MigrateRule(r)
  PROVE  /\ run.at = "idle" /\ run' \in Commands
         /\ run'.at = "migrate" /\ run'.all = FALSE /\ run'.pass = 2 /\ run'.due = {}
         /\ run'.queue = {r} /\ run'.manual = {}
         /\ run'.wrote = FALSE /\ run'.calm = TRUE /\ \A x \in Rules : run'.results[x] = "none"
         /\ repo' = repo /\ quiet' = 0 /\ wrong' = wrong /\ failures' = failures
BY DEF MigrateRule, Idle, Commands, Statuses

LEMMA VerifyIs ==
  ASSUME ParityTypeOK, Verify
  PROVE  /\ run.at = "migrate" /\ run.queue = {} /\ run' \in Commands
         /\ run'.at = (IF run.pass = 1 THEN "recheck" ELSE "report")
         /\ run'.all = run.all /\ run'.pass = run.pass /\ run'.due = {} /\ run'.queue = run.queue
         /\ run'.manual = run.manual /\ run'.wrote = run.wrote /\ run'.calm = run.calm
         /\ \A r \in Rules : run'.results[r] = IF r \in run.due THEN Verified(run.results[r], r, repo)
                                               ELSE run.results[r]
         /\ repo' = repo /\ quiet' = quiet /\ wrong' = wrong /\ failures' = failures
<1>1. run \in Commands
  BY DEF ParityTypeOK
<1>2. \A r \in Rules : Verified(run.results[r], r, repo) \in Statuses
  BY <1>1 DEF Verified, Commands, Statuses
<1> DEFINE results == [r \in Rules |-> IF r \in run.due THEN Verified(run.results[r], r, repo) ELSE run.results[r]]
<1>3. results \in [Rules -> Statuses]
  BY <1>1, <1>2 DEF Commands
<1>4. /\ run' = [run EXCEPT !.at = IF run.pass = 1 THEN "recheck" ELSE "report",
                           !.due = {}, !.results = results]
      /\ run.at = "migrate" /\ run.queue = {} /\ UNCHANGED <<repo, quiet, wrong, failures>>
  BY DEF Verify
<1>5. \A r \in Rules : results[r] = IF r \in run.due THEN Verified(run.results[r], r, repo) ELSE run.results[r]
  OBVIOUS
<1> HIDE DEF results
<1> QED BY <1>1, <1>3, <1>4, <1>5 DEF Commands

LEMMA RecheckIs ==
  ASSUME ParityTypeOK, Recheck
  PROVE  /\ run.at = "recheck" /\ run' \in Commands
         /\ run'.queue = {r \in run.manual : Finding(r, repo) = "fix"}
         /\ run'.manual = {r \in run.manual : Finding(r, repo) = "hands"}
         /\ run'.at = (IF run'.queue = {} THEN "report" ELSE "migrate") /\ run'.pass = 2
         /\ run'.all = run.all /\ run'.due = run.due /\ run'.wrote = run.wrote
         /\ run'.calm = run.calm /\ run'.results = run.results
         /\ repo' = repo /\ quiet' = quiet /\ wrong' = wrong /\ failures' = failures
<1>1. run \in Commands
  BY DEF ParityTypeOK
<1> QED BY <1>1 DEF Recheck, Commands

LEMMA EditIs ==
  ASSUME ParityTypeOK, Edit
  PROVE  /\ IsRepository(repo') /\ (repo'.mise = "none" => repo'.link = "ok")
         /\ run' = [run EXCEPT !.calm = FALSE] /\ run' \in Commands /\ run'.calm = FALSE
         /\ run'.queue = run.queue /\ run'.manual = run.manual /\ run'.due = run.due
         /\ run'.at = run.at /\ run'.all = run.all /\ run'.pass = run.pass /\ run'.wrote = run.wrote
         /\ run'.results = run.results /\ quiet' = 0 /\ failures' = failures
         /\ wrong' \in 0..MaxWrong
<1>1. PICK d \in Deviations : repo' = Deviate(repo, {d})
  BY DEF Edit
<1>2. IsRepository(repo') /\ (repo'.mise = "none" => repo'.link = "ok")
  BY <1>1, DeviateIs DEF ParityTypeOK
<1>3. wrong' \in 0..MaxWrong
  BY BoundAssumption DEF Edit, ParityTypeOK
<1> QED BY <1>2, <1>3 DEF Edit, ParityTypeOK, Commands

LEMMA TypeNext ==
  ASSUME ParityTypeOK, [ParityNext]_parityVars
  PROVE  ParityTypeOK'
<1>1. CASE MigrateAll
  <2>1. run'.queue \intersect run'.manual = {}
    BY <1>1, MigrateAllIs
  <2>2. {r \in Rules : run'.results[r] # "none"} = {}
    BY <1>1, MigrateAllIs
  <2> QED BY <1>1, <2>1, <2>2, MigrateAllIs DEF ParityTypeOK, Reported
<1>2. ASSUME NEW r \in Rules, MigrateRule(r) PROVE ParityTypeOK'
  <2>1. {x \in Rules : run'.results[x] # "none"} = {}
    BY <1>2, MigrateRuleIs
  <2>2. Reported' = {}
    BY <2>1 DEF Reported
  <2>3. /\ run' \in Commands /\ run'.manual = {} /\ run'.due = {}
        /\ repo' = repo /\ quiet' = 0 /\ wrong' = wrong /\ failures' = failures
    BY <1>2, MigrateRuleIs
  <2> QED BY <2>2, <2>3 DEF ParityTypeOK
<1>3. CASE Migrate
  <2> DEFINE r == First(run.queue)
  <2>1. /\ r \in run.queue /\ r \in Rules /\ wrong' = wrong /\ IsRepository(repo') /\ run' \in Commands
        /\ run'.manual = run.manual
        /\ run'.queue = run.queue \ {r} /\ run'.due = run.due \union {r}
        /\ \A x \in Rules \ {r} : run'.results[x] = run.results[x]
        /\ run'.results[r] # "none" /\ (quiet' = quiet \/ quiet' = 0) /\ failures' \in 0..MaxFailures
    BY <1>3, MigrateIs
  <2> HIDE DEF r
  <2>2. Reported' = Reported \union {r}
    BY <2>1 DEF Reported
  <2> QED BY <2>1, <2>2 DEF ParityTypeOK
<1>4. CASE Verify
  <2>1. Reported' = Reported
    <3>1. \A x \in Rules : run'.results[x] = "none" <=> run.results[x] = "none"
      BY <1>4, VerifyIs DEF Verified
    <3> QED BY <3>1 DEF Reported
  <2> QED BY <1>4, <2>1, VerifyIs DEF ParityTypeOK
<1>5. CASE Recheck
  <2>1. Reported' = Reported
    BY <1>5, RecheckIs DEF Reported
  <2>2. run'.queue \subseteq run.manual /\ run'.manual \subseteq run.manual /\ run'.queue \intersect run'.manual = {}
    BY <1>5, RecheckIs
  <2> QED BY <1>5, <2>1, <2>2, RecheckIs DEF ParityTypeOK
<1>6. CASE Report
  <2>1. run' = Idle /\ quiet' \in 0..2 /\ UNCHANGED <<repo, wrong, failures>>
    BY <1>6 DEF Report, ParityTypeOK
  <2> QED BY <2>1, IdleIs DEF ParityTypeOK, Reported
<1>7. CASE Edit
  <2>1. Reported' = Reported
    BY <1>7, EditIs DEF Reported
  <2>2. /\ IsRepository(repo') /\ run' \in Commands
        /\ run'.queue = run.queue /\ run'.manual = run.manual /\ run'.due = run.due
        /\ quiet' = 0 /\ failures' = failures /\ wrong' \in 0..MaxWrong
    BY <1>7, EditIs
  <2> QED BY <2>1, <2>2 DEF ParityTypeOK
<1>8. CASE Kill
  <2>1. run' = Idle /\ quiet' = 0 /\ UNCHANGED <<repo, wrong>> /\ failures' \in 0..MaxFailures
    BY <1>8, BoundAssumption DEF Kill, ParityTypeOK
  <2> QED BY <2>1, IdleIs DEF ParityTypeOK, Reported
<1>9. CASE UNCHANGED parityVars
  BY <1>9 DEF parityVars, ParityTypeOK, Reported
<1> QED BY <1>1, <1>2, <1>3, <1>4, <1>5, <1>6, <1>7, <1>8, <1>9 DEF ParityNext

\* Every part of the repository stays one of the values that the rules can tell apart,
\* and the command that migrates has a status for exactly the rules it has been through:
\* what runParityMigrations() collects in its results (src/recipes/registry.ts).
THEOREM ParityTypeCorrect == ParitySpec => []ParityTypeOK
<1>1. ParityInit => ParityTypeOK
  BY TypeInit
<1>2. ParityTypeOK /\ [ParityNext]_parityVars => ParityTypeOK'
  BY TypeNext
<1> QED BY <1>1, <1>2, PTL DEF ParitySpec

-----------------------------------------------------------------------------
(* The inductive invariant *)

NameDependent == {"bmad.scaffold", "provenance.copier"}

\* A mise.toml that is not there says nothing.
SoundInv == repo.mise = "none" => repo.link = "ok"

\* What disturbs a command starts the count of quiet runs anew; a command that is over has left nothing.
QuietInv ==
  /\ ~run.calm => quiet = 0
  /\ run.at # "idle" /\ ~run.all => quiet = 0 /\ run.pass = 2
  /\ run.at = "idle" => /\ run.queue = {} /\ run.due = {} /\ run.manual = {} /\ ~run.wrote
                        /\ \A r \in Rules : run.results[r] = "none"

\* While nothing disturbs it, a command has one pass over the fixable rules, and what needs hands
\* goes on needing them.
RunInv ==
  /\ run.at # "migrate" => run.queue = {}
  /\ run.at = "recheck" => run.all
  /\ run.calm =>
       /\ \A r \in run.manual : Finding(r, repo) = "hands"
       /\ run.at = "migrate" => run.due = Reported
       /\ run.at = "migrate" /\ run.all => run.pass = 1

\* What a command that nothing disturbs has verified is so.
ReportsInv ==
  run.calm =>
    /\ run.results["board.schema"] = "skipped" => repo.board = "unlinked"
    /\ \A r \in Rules :
         /\ run.results[r] = "skipped" => r = "board.schema"
         /\ run.at \in {"recheck", "report"} /\ run.results[r] \in {"applied", "noop"} => Fine(r, repo)

\* The rules that a first quiet run leaves without work for the next; the names in _bmad and in
\* Copier's answers may need a second.
Resting == Rules \ (IF quiet = 0 THEN NameDependent ELSE {})

\* An undisturbed run of --all: each rule is at rest or is still to come.
QueueInv ==
  run.calm /\ run.all =>
    /\ run.queue \intersect repo.waived = {}
    /\ "bmad.scaffold" \in run.queue => Finding("bmad.scaffold", repo) = "fix"
    /\ run.at # "idle" => \A x \in Resting : AtRest(x, repo) \/ x \in run.queue

\* What quiet runs leave.
RestInv ==
  /\ quiet # 0 => \A x \in Rules \ NameDependent : AtRest(x, repo)
  /\ quiet = 2 => /\ \A x \in Rules : AtRest(x, repo)
                  /\ ~run.wrote
                  /\ \A x \in run.queue : Finding(x, repo) = "fix"

ParityInv == /\ ParityTypeOK /\ SoundInv /\ QuietInv /\ RunInv /\ ReportsInv
             /\ QueueInv /\ RestInv

LEMMA ParityInvInit ==
  ASSUME ParityInit
  PROVE  ParityInv
<1>1. ParityTypeOK
  BY TypeInit
<1>2. PICK ds \in {{}} \union {{d, e} : d, e \in Deviations} : repo = Deviate(InParity, ds)
  BY DEF ParityInit
<1>3. SoundInv
  <2>1. ds \in SUBSET Deviations
    OBVIOUS
  <2> QED BY <1>2, <2>1, DeviateIs, RepositoryAssumption DEF SoundInv
<1>4. run = Idle /\ quiet = 0
  BY DEF ParityInit
<1>5. QuietInv
  BY <1>4, IdleIs DEF QuietInv, Idle
<1>6. RunInv
  BY <1>4, IdleIs DEF RunInv, Idle
<1>7. ReportsInv
  BY <1>4, IdleIs, RulesAre DEF ReportsInv
<1>8. QueueInv
  BY <1>4, IdleIs DEF QueueInv, Idle
<1>9. RestInv
  BY <1>4 DEF RestInv
<1> QED BY <1>1, <1>3, <1>5, <1>6, <1>7, <1>8, <1>9 DEF ParityInv

\* A report and a kill leave the command idle; a report counts a quiet run.
LEMMA EndIs ==
  ASSUME ParityTypeOK, Report \/ Kill
  PROVE  /\ run' = Idle /\ repo' = repo /\ run.at # "idle"
         /\ quiet' = 0 \/ quiet' = quiet
            \/ (run.at = "report" /\ run.all /\ run.calm /\ quiet' = quiet + 1)
         /\ Report /\ run.all /\ run.calm /\ quiet # 2 => quiet' = quiet + 1
BY DEF Report, Kill, ParityTypeOK

LEMMA SoundNext ==
  ASSUME ParityInv, [ParityNext]_parityVars
  PROVE  SoundInv'
<1> USE DEF ParityInv, SoundInv
<1>1. CASE Migrate
  <2>1. Migrated(repo, repo')
    BY <1>1, MigrateIs
  <2> QED BY <2>1 DEF Migrated
<1>2. CASE Edit
  BY <1>2, EditIs
<1>3. CASE repo' = repo
  BY <1>3
<1> QED BY <1>1, <1>2, <1>3 DEF ParityNext, parityVars, MigrateAll, MigrateRule, Verify, Recheck, Report, Kill

LEMMA QuietNext ==
  ASSUME ParityInv, [ParityNext]_parityVars
  PROVE  QuietInv'
<1> USE DEF ParityInv
<1>1. CASE MigrateAll
  BY <1>1, MigrateAllIs DEF QuietInv
<1>2. ASSUME NEW r \in Rules, MigrateRule(r) PROVE QuietInv'
  BY <1>2, MigrateRuleIs DEF QuietInv
<1>3. CASE Migrate
  <2>1. /\ run.at = "migrate" /\ run'.at = "migrate" /\ run'.all = run.all /\ run'.pass = run.pass
        /\ quiet' = quiet \/ quiet' = 0
        /\ run.calm /\ ~run'.calm => quiet' = 0
    BY <1>3, MigrateIs
  <2> QED BY <2>1 DEF QuietInv
<1>4. CASE Verify
  <2>1. /\ run.at = "migrate" /\ run'.at # "idle"
        /\ run'.all = run.all /\ run'.pass = run.pass /\ run'.calm = run.calm /\ quiet' = quiet
    BY <1>4, VerifyIs
  <2> QED BY <2>1 DEF QuietInv
<1>5. CASE Recheck
  <2>1. /\ run.at = "recheck" /\ run'.at # "idle" /\ run'.pass = 2
        /\ run'.all = run.all /\ run'.calm = run.calm /\ quiet' = quiet
    BY <1>5, RecheckIs
  <2> QED BY <2>1 DEF QuietInv
<1>6. CASE Report \/ Kill
  BY <1>6, EndIs, IdleIs DEF QuietInv
<1>7. CASE Edit
  <2>1. /\ run'.at = run.at /\ run'.all = run.all /\ run'.pass = run.pass /\ run'.queue = run.queue
        /\ run'.due = run.due /\ run'.manual = run.manual /\ run'.wrote = run.wrote
        /\ run'.results = run.results /\ quiet' = 0
    BY <1>7, EditIs
  <2> QED BY <2>1 DEF QuietInv
<1>8. CASE UNCHANGED parityVars
  BY <1>8 DEF parityVars, QuietInv
<1> QED BY <1>1, <1>2, <1>3, <1>4, <1>5, <1>6, <1>7, <1>8 DEF ParityNext

LEMMA RunNext ==
  ASSUME ParityInv, [ParityNext]_parityVars
  PROVE  RunInv'
<1> USE DEF ParityInv
<1>1. CASE MigrateAll
  <2>1. /\ run'.at = "migrate" /\ run'.all = TRUE /\ run'.pass = 1 /\ run'.due = {} /\ repo' = repo
        /\ run'.manual = {r \in Rules : Audited(r, repo) = "hands"}
        /\ \A r \in Rules : run'.results[r] = "none"
    BY <1>1, MigrateAllIs
  <2>2. \A r \in run'.manual : Finding(r, repo') = "hands"
    BY <2>1 DEF Audited
  <2>3. Reported' = {}
    BY <2>1 DEF Reported
  <2> QED BY <2>1, <2>2, <2>3 DEF RunInv
<1>2. ASSUME NEW r \in Rules, MigrateRule(r) PROVE RunInv'
  <2>1. /\ run'.at = "migrate" /\ run'.all = FALSE /\ run'.due = {} /\ run'.manual = {}
        /\ \A x \in Rules : run'.results[x] = "none"
    BY <1>2, MigrateRuleIs
  <2>2. Reported' = {}
    BY <2>1 DEF Reported
  <2> QED BY <2>1, <2>2 DEF RunInv
<1>3. CASE Migrate
  <2> DEFINE r == First(run.queue)
  <2>1. /\ r \in Rules /\ run.at = "migrate" /\ run'.at = "migrate" /\ run'.all = run.all /\ run'.pass = run.pass
        /\ run'.manual = run.manual /\ run'.due = run.due \union {r} /\ Migrated(repo, repo')
        /\ \A x \in Rules \ {r} : run'.results[x] = run.results[x]
        /\ run'.results[r] # "none" /\ (run'.calm => run.calm)
    BY <1>3, MigrateIs
  <2> HIDE DEF r
  <2>2. Reported' = Reported \union {r}
    BY <2>1 DEF Reported
  <2>3. run.calm => \A x \in run.manual : Finding(x, repo') = "hands"
    <3> SUFFICES ASSUME run.calm, NEW x \in run.manual PROVE Finding(x, repo') = "hands"
      OBVIOUS
    <3>1. Finding(x, repo) = "hands" /\ x \in Rules /\ IsRepository(repo)
      BY DEF RunInv, ParityTypeOK, Commands
    <3> QED BY <2>1, <3>1, HandsStay
  <2> QED BY <2>1, <2>2, <2>3 DEF RunInv
<1>4. CASE Verify
  <2>1. /\ run.at = "migrate" /\ run.queue = {} /\ run'.queue = {} /\ run'.at \in {"recheck", "report"}
        /\ run'.at = "recheck" => run.pass = 1
        /\ run'.all = run.all /\ run'.calm = run.calm /\ run'.manual = run.manual /\ repo' = repo
    BY <1>4, VerifyIs
  <2> QED BY <2>1 DEF RunInv, QuietInv
<1>5. CASE Recheck
  <2>1. /\ run.at = "recheck" /\ run'.at = (IF run'.queue = {} THEN "report" ELSE "migrate")
        /\ run'.queue = {r \in run.manual : Finding(r, repo) = "fix"}
        /\ run'.manual = {r \in run.manual : Finding(r, repo) = "hands"}
        /\ run'.calm = run.calm /\ repo' = repo
    BY <1>5, RecheckIs
  <2>2. run.calm => run'.queue = {}
    BY <2>1 DEF RunInv
  <2> QED BY <2>1, <2>2 DEF RunInv
<1>6. CASE Report \/ Kill
  <2>1. run' = Idle
    BY <1>6, EndIs
  <2> QED BY <2>1, IdleIs DEF RunInv
<1>7. CASE Edit
  <2>1. run'.at = run.at /\ run'.all = run.all /\ run'.queue = run.queue /\ run'.calm = FALSE
    BY <1>7, EditIs
  <2> QED BY <2>1 DEF RunInv
<1>8. CASE UNCHANGED parityVars
  BY <1>8 DEF parityVars, RunInv, Reported
<1> QED BY <1>1, <1>2, <1>3, <1>4, <1>5, <1>6, <1>7, <1>8 DEF ParityNext

LEMMA ResultsNext ==
  ASSUME ParityInv, [ParityNext]_parityVars
  PROVE  ReportsInv'
<1> USE DEF ParityInv
<1>0. "board.schema" \in Rules
  BY RulesAre
<1>1. CASE MigrateAll
  BY <1>0, <1>1, MigrateAllIs DEF ReportsInv
<1>2. ASSUME NEW r \in Rules, MigrateRule(r) PROVE ReportsInv'
  BY <1>0, <1>2, MigrateRuleIs DEF ReportsInv
<1>3. CASE Migrate
  <2> DEFINE r == First(run.queue)
  <2>1. /\ r \in Rules /\ run'.at = "migrate" /\ Migrated(repo, repo')
        /\ \A x \in Rules \ {r} : run'.results[x] = run.results[x]
        /\ run'.results[r] = "skipped" => r = "board.schema" /\ repo.board = "unlinked"
        /\ (run'.calm => run.calm)
    BY <1>3, MigrateIs
  <2> HIDE DEF r
  <2>2. repo.board = "unlinked" => repo'.board = "unlinked"
    BY <2>1 DEF Migrated
  <2> QED BY <1>0, <2>1, <2>2 DEF ReportsInv
<1>4. CASE Verify
  <2>1. /\ run.at = "migrate" /\ run'.calm = run.calm /\ repo' = repo
        /\ \A r \in Rules : run'.results[r] = IF r \in run.due THEN Verified(run.results[r], r, repo)
                                              ELSE run.results[r]
    BY <1>4, VerifyIs
  <2>2. SUFFICES ASSUME run.calm PROVE ReportsInv'
    BY <2>1 DEF ReportsInv
  <2>3. run.due = Reported
    BY <2>1, <2>2 DEF RunInv
  <2>4. \A r \in Rules : run'.results[r] = IF run.results[r] # "none" THEN Verified(run.results[r], r, repo)
                                           ELSE "none"
    BY <2>1, <2>3 DEF Reported
  <2>5. \A r \in Rules : /\ run'.results[r] = "skipped" => run.results[r] = "skipped"
                         /\ run'.results[r] \in {"applied", "noop"} => Fine(r, repo)
    BY <2>4 DEF Verified
  <2> QED BY <1>0, <2>1, <2>2, <2>5 DEF ReportsInv
<1>5. CASE Recheck
  <2>1. /\ run.at = "recheck" /\ run'.calm = run.calm /\ repo' = repo /\ run'.results = run.results
    BY <1>5, RecheckIs
  <2> QED BY <2>1 DEF ReportsInv
<1>6. CASE Report \/ Kill
  <2>1. run' = Idle
    BY <1>6, EndIs
  <2> QED BY <1>0, <2>1, IdleIs DEF ReportsInv
<1>7. CASE Edit
  <2>1. run'.calm = FALSE
    BY <1>7, EditIs
  <2> QED BY <2>1 DEF ReportsInv
<1>8. CASE UNCHANGED parityVars
  BY <1>8 DEF parityVars, ReportsInv
<1> QED BY <1>1, <1>2, <1>3, <1>4, <1>5, <1>6, <1>7, <1>8 DEF ParityNext

\* When .project.json is at rest it has a name.
LEMMA NamedAtRest ==
  ASSUME NEW s, AtRest("sot.project-json", s), "sot.project-json" \notin s.waived
  PROVE  s.name # "none"
<1>1. s.name = "none" => JsonFinding(s) = "fix"
  BY DEF JsonFinding, Verdict
<1> QED BY <1>1, FindingsAre DEF AtRest, NoWork

\* The step of a rule in an undisturbed run of --all leaves a rule that was at rest at rest.
LEMMA StepKeepsRest ==
  ASSUME ParityInv, Migrate, run'.calm, run.all,
         NEW x \in Rules, AtRest(x, repo), quiet # 0 \/ x \notin NameDependent
  PROVE  AtRest(x, repo')
<1> USE DEF ParityInv
<1> DEFINE r == First(run.queue)
<1>1. /\ r \in Rules /\ r \in run.queue /\ Migrated(repo, repo') /\ Alike(repo, repo', Touched(r))
      /\ run.calm /\ repo' = Done(r, repo).repo
  BY MigrateIs
<1> HIDE DEF r
<1>2. IsRepository(repo) /\ r \notin repo.waived
  BY <1>1 DEF ParityTypeOK, QueueInv
<1>3. CASE x = r
  BY <1>1, <1>2, <1>3, OwnWork
<1>4. CASE x # r
  <2>1. repo'.name = repo.name \/ x \notin NameDependent
    <3>1. CASE r = "sot.project-json" /\ quiet # 0
      <4>1. AtRest(r, repo)
        BY <1>1, <3>1 DEF RestInv, NameDependent
      <4>2. repo.name # "none"
        BY <1>2, <3>1, <4>1, NamedAtRest
      <4> QED BY <1>1, <4>2 DEF Migrated
    <3>2. CASE r # "sot.project-json"
      <4>1. "name" \in Parts \ Touched(r)
        BY <1>1, <3>2, RulesAre, PartsAre DEF Touched
      <4> QED BY <1>1, <4>1 DEF Alike
    <3> QED BY <3>1, <3>2
  <2>2. r = "bmad.scaffold" => Finding(r, repo) # "pass"
    BY <1>1 DEF QueueInv
  <2>3. Keeps(x, repo, repo')
    BY <1>1, <1>2, <1>4, <2>1, <2>2, OthersKeep DEF NameDependent
  <2> QED BY <2>3 DEF Keeps
<1> QED BY <1>3, <1>4

LEMMA QueueNext ==
  ASSUME ParityInv, [ParityNext]_parityVars
  PROVE  QueueInv'
<1> USE DEF ParityInv
<1>1. CASE MigrateAll
  <2>1. /\ run'.queue = {r \in Rules : Audited(r, repo) = "fix"} /\ repo' = repo
    BY <1>1, MigrateAllIs
  <2>2. run'.queue \intersect repo'.waived = {}
    BY <2>1 DEF Audited
  <2>3. "bmad.scaffold" \in run'.queue => Finding("bmad.scaffold", repo') = "fix"
    BY <2>1 DEF Audited
  <2>4. \A x \in Rules : AtRest(x, repo') \/ x \in run'.queue
    BY <2>1 DEF Audited, AtRest
  <2> QED BY <2>2, <2>3, <2>4 DEF QueueInv, Resting
<1>2. ASSUME NEW r \in Rules, MigrateRule(r) PROVE QueueInv'
  <2>1. run'.all = FALSE
    BY <1>2, MigrateRuleIs
  <2> QED BY <2>1 DEF QueueInv
<1>3. CASE Migrate
  <2> DEFINE r == First(run.queue)
  <2>1. /\ r \in Rules /\ r \in run.queue /\ Migrated(repo, repo') /\ Alike(repo, repo', Touched(r))
        /\ run.at = "migrate" /\ run'.all = run.all /\ run'.queue = run.queue \ {r}
        /\ run'.calm => run.calm /\ repo' = Done(r, repo).repo
        /\ quiet' = quiet \/ quiet' = 0
    BY <1>3, MigrateIs
  <2>2. SUFFICES ASSUME run'.calm, run.all PROVE QueueInv'
    BY <2>1 DEF QueueInv
  <2>3. run'.queue \intersect repo'.waived = {}
    BY <2>1, <2>2 DEF QueueInv, Migrated
  <2>4. "bmad.scaffold" \in run'.queue => Finding("bmad.scaffold", repo') = "fix"
    <3> SUFFICES ASSUME "bmad.scaffold" \in run'.queue PROVE Finding("bmad.scaffold", repo') = "fix"
      OBVIOUS
    <3>1. "bmad.scaffold" \in run.queue /\ r # "bmad.scaffold"
      BY <2>1
    <3>2. run.queue \in SUBSET Rules /\ run.queue # {}
      BY <3>1 DEF ParityTypeOK, Commands
    <3>3. r \in {"secrets.env-op", "mise.config-root", "mise.versioning",
                 "skills.project-manifest", "sot.agent-symlinks"}
      BY <3>1, <3>2, NextRule
    <3>4. <<r, "bmad.scaffold">> \notin Sharing
      BY <3>3 DEF Sharing
    <3>5. "bmad.scaffold" \in Rules
      BY RulesAre
    <3>6. \A p \in Looks("bmad.scaffold") : repo'[p] = repo[p]
      BY <2>1, <3>1, <3>4, <3>5, SharingIs, LooksArePart DEF Alike
    <3>7. Finding("bmad.scaffold", repo') = Finding("bmad.scaffold", repo)
      BY <3>5, <3>6, LooksOnly
    <3> QED BY <2>1, <2>2, <3>1, <3>7 DEF QueueInv
  <2>5. ASSUME NEW x \in Resting' PROVE AtRest(x, repo') \/ x \in run'.queue
    <3>1. x \in Resting /\ x \in Rules /\ (quiet # 0 \/ x \notin NameDependent)
      BY <2>1, <2>5 DEF Resting
    <3>2. CASE x = r
      BY <2>1, <2>2, <3>1, <3>2, OwnWork DEF ParityTypeOK
    <3>3. CASE x # r /\ AtRest(x, repo)
      BY <1>3, <2>2, <3>1, <3>3, StepKeepsRest
    <3>4. CASE x # r /\ x \in run.queue
      BY <2>1, <3>4
    <3> QED BY <2>1, <2>2, <3>1, <3>2, <3>3, <3>4 DEF QueueInv
  <2> QED BY <2>3, <2>4, <2>5 DEF QueueInv
<1>4. CASE Verify
  <2>1. /\ run.at = "migrate" /\ run'.queue = run.queue /\ run'.all = run.all /\ run'.calm = run.calm
        /\ repo' = repo /\ quiet' = quiet
    BY <1>4, VerifyIs
  <2> QED BY <2>1 DEF QueueInv, Resting
<1>5. CASE Recheck
  <2>1. /\ run.at = "recheck" /\ run'.queue = {r \in run.manual : Finding(r, repo) = "fix"}
        /\ run'.all = run.all /\ run'.calm = run.calm /\ repo' = repo /\ quiet' = quiet
    BY <1>5, RecheckIs
  <2>2. run.queue = {} /\ (run.calm => run'.queue = {})
    BY <2>1 DEF RunInv
  <2> QED BY <2>1, <2>2 DEF QueueInv, Resting
<1>6. CASE Report \/ Kill
  <2>1. run' = Idle /\ Idle.all = FALSE
    BY <1>6, EndIs DEF Idle
  <2> QED BY <2>1 DEF QueueInv
<1>7. CASE Edit
  <2>1. run'.calm = FALSE
    BY <1>7, EditIs
  <2> QED BY <2>1 DEF QueueInv
<1>8. CASE UNCHANGED parityVars
  BY <1>8 DEF parityVars, QueueInv, Resting
<1> QED BY <1>1, <1>2, <1>3, <1>4, <1>5, <1>6, <1>7, <1>8 DEF ParityNext

LEMMA RestNext ==
  ASSUME ParityInv, [ParityNext]_parityVars
  PROVE  RestInv'
<1> USE DEF ParityInv
<1>1. CASE MigrateAll
  <2>1. /\ run'.queue = {r \in Rules : Audited(r, repo) = "fix"} /\ run'.wrote = FALSE
        /\ repo' = repo /\ quiet' = quiet
    BY <1>1, MigrateAllIs
  <2>2. \A x \in run'.queue : Finding(x, repo') = "fix"
    BY <2>1 DEF Audited
  <2> QED BY <2>1, <2>2 DEF RestInv
<1>2. ASSUME NEW r \in Rules, MigrateRule(r) PROVE RestInv'
  <2>1. quiet' = 0
    BY <1>2, MigrateRuleIs
  <2> QED BY <2>1 DEF RestInv
<1>3. CASE Migrate
  <2> DEFINE r == First(run.queue)
  <2>1. /\ r \in Rules /\ r \in run.queue /\ run.at = "migrate" /\ run'.queue = run.queue \ {r}
        /\ run'.calm => /\ run.calm /\ repo' = Done(r, repo).repo
                        /\ run'.results[r] = Done(r, repo).status
        /\ run'.wrote => run.wrote \/ run'.results[r] = "applied" \/ repo' # repo
        /\ quiet' = quiet \/ quiet' = 0
        /\ run.calm /\ ~run'.calm => quiet' = 0
    BY <1>3, MigrateIs
  <2>2. SUFFICES ASSUME quiet' # 0 PROVE RestInv'
    BY DEF RestInv
  <2>3. quiet # 0 /\ quiet' = quiet /\ run'.calm /\ run.calm /\ run.all
    BY <2>1, <2>2 DEF QuietInv
  <2>4. \A x \in Rules : AtRest(x, repo) => AtRest(x, repo')
    BY <1>3, <2>3, StepKeepsRest
  <2>5. CASE quiet # 2
    BY <2>3, <2>4, <2>5 DEF RestInv
  <2>6. CASE quiet = 2
    <3>1. AtRest(r, repo) /\ Finding(r, repo) = "fix" /\ r \notin repo.waived
      BY <2>1, <2>3, <2>6 DEF RestInv, QueueInv
    <3>2. NoWork(r, repo) /\ IsRepository(repo)
      BY <3>1 DEF AtRest, ParityTypeOK
    <3>3. Done(r, repo).repo = repo /\ Done(r, repo).status # "applied"
      BY <2>1, <3>1, <3>2, NothingToDo
    <3>4. repo' = repo /\ ~run'.wrote
      BY <2>1, <2>3, <2>6, <3>3 DEF RestInv
    <3> QED BY <2>1, <2>3, <2>6, <3>4 DEF RestInv
  <2> QED BY <2>5, <2>6
<1>4. CASE Verify
  <2>1. /\ run'.queue = run.queue /\ run'.wrote = run.wrote /\ repo' = repo /\ quiet' = quiet
    BY <1>4, VerifyIs
  <2> QED BY <2>1 DEF RestInv
<1>5. CASE Recheck
  <2>1. /\ run'.queue = {r \in run.manual : Finding(r, repo) = "fix"} /\ run'.wrote = run.wrote
        /\ repo' = repo /\ quiet' = quiet
    BY <1>5, RecheckIs
  <2> QED BY <2>1 DEF RestInv
<1>6. CASE Report \/ Kill
  <2>1. /\ run' = Idle /\ repo' = repo
        /\ quiet' = 0 \/ quiet' = quiet
           \/ (run.at = "report" /\ run.all /\ run.calm /\ quiet' = quiet + 1)
    BY <1>6, EndIs
  <2>2. run'.queue = {} /\ ~run'.wrote
    BY <2>1, IdleIs
  <2>3. CASE quiet' = 0
    BY <2>3 DEF RestInv
  <2>4. CASE quiet' = quiet
    BY <2>1, <2>2, <2>4 DEF RestInv
  <2>5. CASE run.at = "report" /\ run.all /\ run.calm /\ quiet' = quiet + 1
    <3>1. \A x \in Resting : AtRest(x, repo)
      BY <2>5 DEF RunInv, QueueInv
    <3>2. quiet' = 2 => Resting = Rules
      BY <2>5 DEF Resting, ParityTypeOK
    <3>3. \A x \in Rules \ NameDependent : AtRest(x, repo)
      BY <3>1 DEF Resting
    <3> QED BY <2>1, <2>2, <3>1, <3>2, <3>3 DEF RestInv
  <2> QED BY <2>1, <2>3, <2>4, <2>5
<1>7. CASE Edit
  <2>1. quiet' = 0
    BY <1>7, EditIs
  <2> QED BY <2>1 DEF RestInv
<1>8. CASE UNCHANGED parityVars
  BY <1>8 DEF parityVars, RestInv
<1> QED BY <1>1, <1>2, <1>3, <1>4, <1>5, <1>6, <1>7, <1>8 DEF ParityNext

LEMMA ParityInvNext ==
  ASSUME ParityInv, [ParityNext]_parityVars
  PROVE  ParityInv'
<1>1. ParityTypeOK'
  BY TypeNext DEF ParityInv
<1> QED BY <1>1, SoundNext, QuietNext, RunNext, ResultsNext, QueueNext, RestNext DEF ParityInv

\* ParityInv holds in every state: a run of `pjangler migrate --all` leaves each rule
\* without work, or still has it to come, whatever the rules before it have done.
THEOREM ParityInductive == ParitySpec => []ParityInv
<1>1. ParityInit => ParityInv
  BY ParityInvInit
<1>2. ParityInv /\ [ParityNext]_parityVars => ParityInv'
  BY ParityInvNext
<1> QED BY <1>1, <1>2, PTL DEF ParitySpec

\* After two runs of `migrate --all` (migrateAll(), src/recipes/registry.ts) that nobody and
\* no failure disturbed, the next has nothing left to change, whatever was wrong.
THEOREM SettlesForGood == ParitySpec => []Settles
<1>1. ParityInv => Settles
  BY DEF ParityInv, RestInv, Settles
<1> QED BY <1>1, ParityInductive, PTL

\* A `migrate --all` that says ok, and that nobody disturbed, has left every rule that it
\* reports on passing the rule's own audit, and not only the rules that ran last.
THEOREM ReportsHonestly == ParitySpec => []Honest
<1>1. ParityInv => Honest
  <2> SUFFICES ASSUME ParityInv, run.at = "report", run.calm, Ok, NEW r \in Reported
               PROVE  Fine(r, repo)
    BY DEF Honest
  <2>1. run.results[r] \in Statuses \ {"none", "blocked", "partial"} /\ r \in Rules
    BY DEF Reported, Ok, ParityInv, ParityTypeOK, Commands
  <2>2. CASE run.results[r] = "skipped"
    <3>1. r = "board.schema" /\ repo.board = "unlinked"
      BY <2>1, <2>2 DEF ParityInv, ReportsInv
    <3> QED BY <3>1, FindingsAre DEF Fine, BoardFinding
  <2>3. CASE run.results[r] # "skipped"
    BY <2>1, <2>3 DEF ParityInv, ReportsInv, Statuses
  <2> QED BY <2>2, <2>3
<1> QED BY <1>1, ParityInductive, PTL

\* The step is one of Migrate.
LEMMA MigratesIs ==
  ASSUME ParityInv, [ParityNext]_parityVars, Migrates
  PROVE  Migrate
<1>1. ~Edit
  BY EditIs DEF ParityInv, Migrates
<1>2. repo' # repo
  BY DEF Migrates
<1> QED BY <1>1, <1>2 DEF ParityNext, parityVars, MigrateAll, MigrateRule, Verify, Recheck, Report, Kill

\* No migration of any rule, whatever fails in it, undoes what only the operator can decide,
\* loses an agent file's text, or touches the waivers and opt-outs in .project.json.
THEOREM KeepsWhatIsHis == ParitySpec => HandsKept
<1> DEFINE Kept == Migrates =>
        /\ Texts(repo) \ {"none"} \subseteq Texts(repo')
        /\ \A h \in {<<"retired", "dir">>, <<"envOp", "hands">>, <<"link", "hand">>,
                     <<"unsupported", "own">>, <<"bmad", "bad">>, <<"skills", "foreign">>,
                     <<"roots", "blocked">>, <<"name", "own">>,
                     <<"roles", "unprovisioned">>} :
              repo[h[1]] = h[2] => repo'[h[1]] = h[2]
        /\ repo.plane \in {"there", "both", "kept"} => repo'.plane \in {repo.plane, "kept"}
        /\ repo'.optOut = repo.optOut /\ repo'.waived = repo.waived
<1>1. ParityInv /\ [ParityNext]_parityVars => Kept
  <2> SUFFICES ASSUME ParityInv, [ParityNext]_parityVars, Migrates PROVE Kept
    OBVIOUS
  <2>1. Migrated(repo, repo')
    BY MigratesIs, MigrateIs DEF ParityInv
  <2>2. repo.mise = "none" => repo.link = "ok"
    BY DEF ParityInv, SoundInv
  <2>3. repo.roots = "blocked" => repo'.roots = "blocked"
    BY <2>1 DEF Migrated, Barred
  <2> QED BY <2>1, <2>2, <2>3 DEF Migrated
<1>2. ParityInv /\ [ParityNext]_parityVars => [Kept]_parityVars
  BY <1>1
<1> QED BY <1>2, ParityInductive, PTL DEF ParitySpec, HandsKept

\* A migration whose rule has work takes no other rule out of parity, unless the skills
\* could not be handed over; but for the names in _bmad and in Copier's answers when
\* .project.json gets a name that it did not have.
THEOREM UndoesNothing == ParitySpec => NothingUndone
<1> DEFINE Undone == Migrates /\ failures' = failures /\ ~Fine(First(run.queue), repo) =>
        \A r \in Rules \ {First(run.queue)} :
            Fine(r, repo) => \/ Fine(r, repo')
                             \/ /\ r \in {"bmad.scaffold", "provenance.copier"}
                                /\ repo'.name # repo.name
<1>1. ParityInv /\ [ParityNext]_parityVars => Undone
  <2> SUFFICES ASSUME ParityInv, [ParityNext]_parityVars, Migrates, failures' = failures,
                      NEW f, f = First(run.queue), ~Fine(f, repo),
                      NEW x \in Rules, x # f, Fine(x, repo),
                      ~(x \in {"bmad.scaffold", "provenance.copier"} /\ repo'.name # repo.name)
               PROVE  Fine(x, repo')
    OBVIOUS
  <2>1. f \in Rules /\ repo' = Done(f, repo).repo /\ IsRepository(repo)
    BY MigratesIs, MigrateIs DEF ParityInv, ParityTypeOK
  <2>2. Finding(f, repo) # "pass"
    BY DEF Fine
  <2>3. Keeps(x, repo, repo')
    BY <2>1, <2>2, OthersKeep
  <2> QED BY <2>3 DEF Keeps
<1>2. ParityInv /\ [ParityNext]_parityVars => [Undone]_parityVars
  BY <1>1
<1> QED BY <1>2, ParityInductive, PTL DEF ParitySpec, NothingUndone

-----------------------------------------------------------------------------
(* Captures: the inductive invariant *)

\* A worker that knows its receipt knows in which state it is itself.
Knows(w) ==
    /\ pc[w] \in {"begin", "work", "failed", "retryable"} => IsIn(at[w], {"processing"})
    /\ pc[w] = "requeue" => IsIn(at[w], {"failed"}) /\ receipt[at[w]].origin = "automatic"

Inv ==
    /\ TypeOK
    /\ \A w \in Workers : pc[w] # "idle" => at[w] \in Sessions
    /\ \A w \in current : Knows(w)

-----------------------------------------------------------------------------
(* Captures: data *)

\* What is read from a file is not null.
LEMMA NotNull == \A r \in Receipts \cup Baselines : r # None
BY NoneIsApart

\* What the steps of a worker make of its receipt.
LEMMA Rewritten ==
  ASSUME NEW r \in Receipts, NEW o \in Workers \cup {None}, NEW l \in BOOLEAN, NEW t \in BOOLEAN,
         NEW st \in Unresolved \cup {"succeeded"}
  PROVE  /\ [r EXCEPT !.state = st, !.retryable = t, !.owner = o, !.lapsed = l] \in Receipts
         /\ [r EXCEPT !.state = st, !.owner = o, !.lapsed = l, !.retryable = t] \in Receipts
         /\ [r EXCEPT !.lapsed = l] \in Receipts
         /\ [r EXCEPT !.old = l] \in Receipts
BY DEF Receipts

LEMMA ClaimedIsReceipt ==
  ASSUME NEW r \in Receipts, NEW w \in Workers, ~Spent(r)
  PROVE  [r EXCEPT !.state = "processing", !.owner = w, !.lapsed = FALSE,
                   !.used = IF r.origin = "automatic" THEN @ + 1 ELSE @] \in Receipts
<1>1. (IF r.origin = "automatic" THEN r.used + 1 ELSE r.used) \in 0..Limit
  BY CaptureAssumption DEF Spent, Receipts
<1> QED BY <1>1 DEF Receipts, Unresolved

LEMMA RetriedIsReceipt ==
  ASSUME NEW r \in Receipts, r.manual < MaxRetries
  PROVE  [r EXCEPT !.state = "queued", !.origin = "operator", !.manual = @ + 1,
                   !.retryable = FALSE, !.owner = None, !.lapsed = FALSE,
                   !.ref = IF r.state = "blocked-missing-baseline" THEN "operator" ELSE @]
            \in Receipts
<1>1. r.manual + 1 \in 0..MaxRetries
  BY CaptureAssumption DEF Receipts
<1> QED BY <1>1 DEF Receipts, Unresolved

LEMMA CandidateIsReceipt == \A kept \in BOOLEAN : Candidate(kept) \in Receipts
BY CaptureAssumption DEF Candidate, Receipts, Unresolved

-----------------------------------------------------------------------------
(* Captures: what a step leaves to the other workers *)

\* A change of a receipt takes it from everybody else's knowledge.
LEMMA OthersKnow ==
  ASSUME Inv, NEW s \in Sessions, NEW w, NEW r,
         receipt' = [receipt EXCEPT ![s] = r],
         current' \subseteq (current \ On(s)) \cup {w},
         \A v \in Workers \ {w} : pc'[v] = pc[v] /\ at'[v] = at[v]
  PROVE  \A v \in current' \ {w} : Knows(v)'
<1> SUFFICES ASSUME NEW v \in current' \ {w} PROVE Knows(v)'
  OBVIOUS
<1>1. v \in current /\ v \in Workers /\ at[v] # s
  BY DEF Inv, TypeOK, On
<1>2. pc'[v] = pc[v] /\ at'[v] = at[v]
  BY <1>1
<1>3. pc[v] # "idle" => receipt'[at[v]] = receipt[at[v]]
  BY <1>1 DEF Inv, TypeOK
<1>4. Knows(v)
  BY <1>1 DEF Inv
<1> QED BY <1>1, <1>2, <1>3, <1>4 DEF Knows, IsIn, Has

\* Without one, only what becomes of the worker itself has to be looked at.
LEMMA OthersStand ==
  ASSUME Inv, NEW w, receipt' = receipt, current' \subseteq current \cup {w},
         \A v \in Workers \ {w} : pc'[v] = pc[v] /\ at'[v] = at[v]
  PROVE  \A v \in current' \ {w} : Knows(v)'
<1> SUFFICES ASSUME NEW v \in current' \ {w} PROVE Knows(v)'
  OBVIOUS
<1>1. v \in current /\ v \in Workers /\ pc'[v] = pc[v] /\ at'[v] = at[v] /\ Knows(v)
  BY DEF Inv, TypeOK
<1> QED BY <1>1 DEF Knows, IsIn, Has

-----------------------------------------------------------------------------
(* Captures: each step preserves the invariant *)

LEMMA InitInv == Init => Inv
BY CaptureAssumption DEF Init, Inv, TypeOK, Steps

\* What may happen to the workers in a step that is about one of them.
Moves(w) ==
    /\ pc' \in [Workers -> Steps] /\ at' \in [Workers -> Sessions \cup {None}]
    /\ \A v \in Workers \ {w} : pc'[v] = pc[v] /\ at'[v] = at[v]
    /\ pc'[w] # "idle" => at'[w] \in Sessions

LEMMA GoMoves ==
  ASSUME Inv, NEW w \in Workers, NEW to \in Steps,
         \/ pc[w] # "idle" /\ Go(w, to) /\ UNCHANGED at
         \/ to = "idle" /\ Leave(w)
  PROVE  Moves(w) /\ pc'[w] = to
BY DEF Inv, TypeOK, Moves, Go, Leave

\* A worker writes its receipt, and from then on knows it.
LEMMA WrittenInv ==
  ASSUME Inv, NEW w \in Workers, NEW s \in Sessions, at[w] = s, NEW r \in Receipts,
         WriteReceipt(w, s, r), Moves(w), pc'[w] # "idle" => at'[w] = s,
         pc'[w] \in {"begin", "work", "failed", "retryable"} => r.state = "processing",
         pc'[w] = "requeue" => r.state = "failed" /\ r.origin = "automatic",
         UNCHANGED <<baseline, starting, faults>>, journals' \subseteq Sessions
  PROVE  Inv'
<1>1. receipt' \in [Sessions -> Receipts \cup {None}] /\ current' \subseteq Workers
  BY DEF Inv, TypeOK, WriteReceipt
<1>2. TypeOK'
  BY <1>1 DEF Inv, TypeOK, Moves
<1>3. \A v \in Workers : pc'[v] # "idle" => at'[v] \in Sessions
  BY DEF Inv, Moves
<1>4. \A v \in current' \ {w} : Knows(v)'
  BY OthersKnow DEF WriteReceipt, Moves
<1>5. receipt'[s] = r /\ r # None
  BY NotNull DEF Inv, TypeOK, WriteReceipt
<1>6. Knows(w)'
  BY <1>5 DEF Knows, IsIn, Has
<1> QED BY <1>2, <1>3, <1>4, <1>6 DEF Inv

\* A worker goes on, or ends, without a write.
LEMMA StandingInv ==
  ASSUME Inv, NEW w \in Workers, receipt' = receipt, Moves(w), current' \subseteq current,
         w \in current' => Knows(w)',
         UNCHANGED <<baseline, starting>>, journals' \subseteq Sessions, faults' \in 0..MaxFaults
  PROVE  Inv'
<1>1. TypeOK'
  BY DEF Inv, TypeOK, Moves
<1>2. \A v \in Workers : pc'[v] # "idle" => at'[v] \in Sessions
  BY DEF Inv, Moves
<1>3. \A v \in current' \ {w} : Knows(v)'
  BY OthersStand DEF Moves
<1> QED BY <1>1, <1>2, <1>3 DEF Inv

\* Nothing of the receipts' or the workers' is touched.
LEMMA AsideInv ==
  ASSUME Inv, UNCHANGED <<receipt, journals, workers>>,
         baseline' \in [Sessions -> Baselines \cup {None}], starting' \subseteq Sessions,
         faults' \in 0..MaxFaults
  PROVE  Inv'
<1>1. TypeOK' /\ \A v \in Workers : pc'[v] # "idle" => at'[v] \in Sessions
  BY DEF Inv, TypeOK, workers
<1>2. \A v \in current' : Knows(v)'
  BY DEF Inv, workers, Knows, IsIn, Has
<1> QED BY <1>1, <1>2 DEF Inv

\* Receipts that no worker is at are made, or go, or only age.
LEMMA ResultsInv ==
  ASSUME Inv, receipt' \in [Sessions -> Receipts \cup {None}],
         \A s \in Sessions : IsIn(s, {"processing", "failed"}) =>
            /\ Has(receipt', s) /\ receipt'[s].state = receipt[s].state
            /\ receipt'[s].origin = receipt[s].origin,
         UNCHANGED <<journals, workers, starting>>,
         baseline' \in [Sessions -> Baselines \cup {None}], faults' \in 0..MaxFaults
  PROVE  Inv'
<1>1. TypeOK' /\ \A v \in Workers : pc'[v] # "idle" => at'[v] \in Sessions
  BY DEF Inv, TypeOK, workers
<1>2. \A v \in current' : Knows(v)'
  <2> SUFFICES ASSUME NEW v \in current' PROVE Knows(v)'
    OBVIOUS
  <2>1. v \in current /\ v \in Workers /\ Knows(v) /\ pc'[v] = pc[v] /\ at'[v] = at[v]
    BY DEF Inv, TypeOK, workers
  <2>2. pc[v] # "idle" => at[v] \in Sessions
    BY <2>1 DEF Inv
  <2> QED BY <2>1, <2>2 DEF Knows, IsIn, Has
<1> QED BY <1>1, <1>2 DEF Inv

\* A worker is started on a receipt that is new, the same, or nobody's knowledge.
LEMMA SpawnedInv ==
  ASSUME Inv, NEW s \in Sessions, NEW r \in Receipts, Spawn(s), current' \subseteq current,
         receipt' = [receipt EXCEPT ![s] = r],
         ~Has(receipt, s) \/ r = receipt[s] \/ current' \cap On(s) = {},
         baseline' \in [Sessions -> Baselines \cup {None}],
         UNCHANGED <<starting, journals>>, faults' \in 0..MaxFaults
  PROVE  Inv'
<1> PICK w \in Workers : /\ pc[w] = "idle"
                         /\ pc' = [pc EXCEPT ![w] = "claim"] /\ at' = [at EXCEPT ![w] = s]
  BY DEF Spawn
<1>1. TypeOK'
  BY DEF Inv, TypeOK, Steps
<1>2. \A v \in Workers : pc'[v] # "idle" => at'[v] \in Sessions
  BY DEF Inv, TypeOK
<1>3. ASSUME NEW v \in current' PROVE Knows(v)'
  <2>1. v \in current /\ v \in Workers /\ Knows(v)
    BY <1>3 DEF Inv, TypeOK
  <2>2. CASE v = w
    BY <2>2 DEF Inv, TypeOK, Knows
  <2>3. CASE v # w /\ at[v] # s
    <3>1. pc'[v] = pc[v] /\ at'[v] = at[v]
      BY <2>3 DEF Inv, TypeOK
    <3>2. pc[v] # "idle" => receipt'[at[v]] = receipt[at[v]]
      BY <2>1, <2>3 DEF Inv, TypeOK
    <3> QED BY <2>1, <3>1, <3>2 DEF Knows, IsIn, Has
  <2>4. CASE v # w /\ at[v] = s
    <3>1. pc'[v] = pc[v] /\ at'[v] = at[v]
      BY <2>4 DEF Inv, TypeOK
    <3>2. v \in current' \cap On(s)
      BY <1>3, <2>1, <2>4 DEF On
    <3>3. ~Has(receipt, s) \/ receipt'[s] = receipt[s]
      BY <3>2 DEF Inv, TypeOK
    <3> QED BY <2>1, <2>4, <3>1, <3>3 DEF Knows, IsIn, Has
  <2> QED BY <2>2, <2>3, <2>4
<1> QED BY <1>1, <1>2, <1>3 DEF Inv

\* The baselines after a session's end.
LEMMA ForgetTyped ==
  ASSUME Inv, NEW s \in Sessions, Forget(s)
  PROVE  baseline' \in [Sessions -> Baselines \cup {None}]
BY DEF Inv, TypeOK, Forget

LEMMA SessionsInv ==
  ASSUME Inv, NEW s \in Sessions,
         StartCreate(s) \/ StartWrite(s) \/ Close(s) \/ CrashStart(s)
  PROVE  Inv'
<1>1. CASE StartCreate(s)
  <2>1. baseline' \in [Sessions -> Baselines \cup {None}] /\ starting' \subseteq Sessions
    BY <1>1 DEF StartCreate, Inv, TypeOK, Baselines
  <2> QED BY <1>1, <2>1, AsideInv DEF StartCreate, Inv, TypeOK
<1>2. CASE StartWrite(s)
  <2>1. baseline' \in [Sessions -> Baselines \cup {None}] /\ starting' \subseteq Sessions
    BY <1>2 DEF StartWrite, Inv, TypeOK, Baselines
  <2> QED BY <1>2, <2>1, AsideInv DEF StartWrite, Inv, TypeOK
<1>3. CASE Deduplicated(s) \/ IntegrityRefused(s)
  BY <1>3, AsideInv DEF Deduplicated, IntegrityRefused, vars, workers, Inv, TypeOK
<1>4. CASE PressureRefused(s)
  BY <1>4, AsideInv, ForgetTyped DEF PressureRefused, Inv, TypeOK
<1> DEFINE c == Candidate(Has(baseline, s) /\ ~Expired(s))
<1>5. c \in Receipts
  <2>1. (Has(baseline, s) /\ ~Expired(s)) \in BOOLEAN
    BY DEF Has, Expired
  <2> QED BY <2>1, CandidateIsReceipt
<1>6. CASE Admit(s)
  BY <1>5, <1>6, SpawnedInv, ForgetTyped DEF Admit, Inv, TypeOK
<1>7. CASE AdmitAndDie(s)
  <2>1. receipt' \in [Sessions -> Receipts \cup {None}]
    BY <1>5, <1>7 DEF AdmitAndDie, Inv, TypeOK
  <2>2. \A x \in Sessions : Has(receipt, x) => receipt'[x] = receipt[x]
    BY <1>7 DEF AdmitAndDie, Inv, TypeOK, Has
  <2>3. faults' \in 0..MaxFaults
    BY <1>7, CaptureAssumption DEF AdmitAndDie, Inv, TypeOK
  <2> QED BY <1>7, <2>1, <2>2, <2>3, ResultsInv, ForgetTyped DEF AdmitAndDie, IsIn, Has
<1>8. CASE CrashStart(s)
  <2>1. faults' \in 0..MaxFaults
    BY <1>8, CaptureAssumption DEF CrashStart, Inv, TypeOK
  <2> QED BY <1>8, <2>1, AsideInv DEF CrashStart, Inv, TypeOK
<1> QED BY <1>1, <1>2, <1>3, <1>4, <1>6, <1>7, <1>8 DEF Close

LEMMA RetryInv ==
  ASSUME Inv, NEW s \in Sessions, Retry(s) \/ Restart(s)
  PROVE  Inv'
<1>1. CASE Retry(s)
  <2> DEFINE r == [receipt[s] EXCEPT !.state = "queued", !.origin = "operator", !.manual = @ + 1,
                     !.retryable = FALSE, !.owner = None, !.lapsed = FALSE,
                     !.ref = IF receipt[s].state = "blocked-missing-baseline" THEN "operator" ELSE @]
  <2>1. receipt[s] \in Receipts /\ receipt[s].manual < MaxRetries
    BY <1>1 DEF Retry, IsIn, Has, Inv, TypeOK
  <2>2. r \in Receipts
    BY <2>1, RetriedIsReceipt
  <2>3. receipt' = [receipt EXCEPT ![s] = r] /\ current' = current \ On(s)
    BY <1>1 DEF Retry
  <2> QED BY <1>1, <2>2, <2>3, SpawnedInv DEF Retry, Inv, TypeOK
<1>2. CASE Restart(s)
  <2>1. receipt[s] \in Receipts
    BY <1>2 DEF Restart, Has, Inv, TypeOK
  <2>2. receipt' = [receipt EXCEPT ![s] = receipt[s]]
    BY <1>2 DEF Restart, state, Inv, TypeOK
  <2>3. faults' \in 0..MaxFaults
    BY <1>2, CaptureAssumption DEF Restart, Inv, TypeOK
  <2> QED BY <1>2, <2>1, <2>2, <2>3, SpawnedInv DEF Restart, state, Inv, TypeOK
<1> QED BY <1>1, <1>2

LEMMA TimeInv ==
  ASSUME Inv, NEW s \in Sessions, Age(s) \/ Lapse(s)
  PROVE  Inv'
<1>1. CASE Age(s) /\ UNCHANGED receipt
  <2>1. baseline' \in [Sessions -> Baselines \cup {None}]
    BY <1>1 DEF Age, Has, IsIn, Inv, TypeOK, Baselines
  <2> QED BY <1>1, <2>1, AsideInv DEF Age, Inv, TypeOK
<1>2. CASE Age(s) /\ UNCHANGED baseline /\ IsIn(s, {"succeeded"})
                  /\ receipt' = [receipt EXCEPT ![s].old = TRUE]
  <2>1. receipt[s] \in Receipts /\ receipt[s].state = "succeeded"
    BY <1>2 DEF IsIn, Has, Inv, TypeOK
  <2>2. receipt' \in [Sessions -> Receipts \cup {None}]
    BY <1>2, <2>1 DEF Inv, TypeOK, Receipts
  <2>3. \A x \in Sessions : IsIn(x, {"processing", "failed"}) => receipt'[x] = receipt[x]
    BY <1>2, <2>1 DEF IsIn, Inv, TypeOK
  <2> QED BY <1>2, <2>2, <2>3, ResultsInv DEF Age, IsIn, Has, Inv, TypeOK
<1>3. CASE Lapse(s)
  <2>1. receipt[s] \in Receipts
    BY <1>3 DEF Lapse, IsIn, Has, Inv, TypeOK
  <2>2. receipt' \in [Sessions -> Receipts \cup {None}]
    BY <1>3, <2>1 DEF Lapse, Inv, TypeOK, Receipts
  <2>3. /\ receipt'[s].state = receipt[s].state /\ receipt'[s].origin = receipt[s].origin
        /\ receipt'[s] \in Receipts
        /\ \A x \in Sessions \ {s} : receipt'[x] = receipt[x]
    BY <1>3, <2>1 DEF Lapse, Inv, TypeOK, Receipts
  <2> QED BY <1>3, <2>2, <2>3, NotNull, ResultsInv DEF Lapse, IsIn, Has, Inv, TypeOK
<1> QED BY <1>1, <1>2, <1>3 DEF Age

LEMMA PruneInv ==
  ASSUME Inv, Prune PROVE Inv'
<1>1. receipt' \in [Sessions -> Receipts \cup {None}]
  BY DEF Prune, Inv, TypeOK
<1>2. baseline' \in [Sessions -> Baselines \cup {None}]
  BY DEF Prune, Inv, TypeOK
<1>3. \A x \in Sessions : IsIn(x, {"processing", "failed"}) => receipt'[x] = receipt[x]
  BY DEF Prune, IsIn
<1> QED BY <1>1, <1>2, <1>3, ResultsInv DEF Prune, IsIn, Has, Inv, TypeOK

\* Who leaves knows nothing afterwards.
LEMMA OutInv ==
  ASSUME Inv, NEW w \in Workers, Out(w), UNCHANGED <<receipt, baseline, starting>>,
         journals' \subseteq Sessions, faults' \in 0..MaxFaults
  PROVE  Inv'
<1>1. Moves(w) /\ pc'[w] = "idle"
  BY GoMoves DEF Out, Steps
<1> QED BY <1>1, StandingInv DEF Out

\* A transition to a state that the place it leads to knows.
LEMMA TransitionInv ==
  ASSUME Inv, NEW w \in Workers, pc[w] # "idle",
         NEW to \in Unresolved \cup {"succeeded"}, NEW retryable \in BOOLEAN,
         NEW next \in {"idle", "commit", "requeue", "claim"}, Transition(w, to, retryable, next),
         next = "requeue" => to = "failed" /\ receipt[at[w]].origin = "automatic",
         Has(receipt, at[w]), UNCHANGED <<baseline, starting, journals, faults>>
  PROVE  Inv'
<1> DEFINE s == at[w]
           r == [receipt[s] EXCEPT !.state = to, !.retryable = retryable,
                                   !.owner = None, !.lapsed = FALSE]
<1>1. s \in Sessions /\ receipt[s] \in Receipts
  BY DEF Inv, TypeOK, Has
<1>2. r \in Receipts
  BY <1>1, Rewritten
<1>5. r.state = to /\ r.origin = receipt[s].origin
  BY <1>1 DEF Receipts
<1>3. WriteReceipt(w, s, r)
  BY DEF Transition
<1>4. Moves(w) /\ pc'[w] = next /\ (next # "idle" => at'[w] = s)
  BY GoMoves DEF Transition, Steps
<1> HIDE DEF r
<1> QED BY <1>1, <1>2, <1>3, <1>4, <1>5, WrittenInv DEF Inv, TypeOK

LEMMA ClaimInv ==
  ASSUME Inv, NEW w \in Workers, Claim(w)
  PROVE  Inv'
<1> DEFINE s == at[w]
           r == receipt[s]
<1>0. pc[w] = "claim" /\ s \in Sessions /\ UNCHANGED <<baseline, starting, faults>>
  BY DEF Claim, Inv
<1>1. CASE /\ Has(receipt, s) /\ Claimable(r) /\ ~Spent(r)
           /\ WriteReceipt(w, s, [r EXCEPT !.state = "processing", !.owner = w, !.lapsed = FALSE,
                    !.used = IF r.origin = "automatic" THEN @ + 1 ELSE @])
           /\ Go(w, "begin") /\ UNCHANGED <<journals, at>>
  <2> DEFINE c == [r EXCEPT !.state = "processing", !.owner = w, !.lapsed = FALSE,
                            !.used = IF r.origin = "automatic" THEN @ + 1 ELSE @]
  <2>1. r \in Receipts
    BY <1>0, <1>1 DEF Has, Inv, TypeOK
  <2>2. c \in Receipts /\ c.state = "processing"
    BY <1>1, <2>1, ClaimedIsReceipt DEF Receipts
  <2>3. Moves(w) /\ pc'[w] = "begin" /\ at'[w] = s
    BY <1>0, <1>1, GoMoves DEF Steps
  <2>4. WriteReceipt(w, s, c)
    BY <1>1
  <2> HIDE DEF c
  <2> QED BY <1>0, <1>1, <2>2, <2>3, <2>4, WrittenInv DEF Inv, TypeOK
<1>2. CASE /\ Has(receipt, s) /\ Resumable(r) /\ Spent(r)
           /\ receipt' = [receipt EXCEPT ![s] = [r EXCEPT !.state = "retry-exhausted",
                    !.owner = None, !.lapsed = FALSE, !.retryable = FALSE]]
           /\ Leave(w) /\ current' = current \ On(s) /\ UNCHANGED journals
  <2> DEFINE x == [r EXCEPT !.state = "retry-exhausted",
                            !.owner = None, !.lapsed = FALSE, !.retryable = FALSE]
  <2>1. x \in Receipts
    BY <1>0, <1>2, Rewritten DEF Has, Inv, TypeOK, Unresolved
  <2>2. Moves(w) /\ pc'[w] = "idle"
    BY <1>2, GoMoves DEF Steps
  <2>3. receipt' = [receipt EXCEPT ![s] = x]
    BY <1>2
  <2> HIDE DEF x
  <2>4. \A v \in current' \ {w} : Knows(v)'
    BY <1>0, <1>2, <2>2, <2>3, OthersKnow DEF Moves
  <2>5. w \notin current'
    BY <1>2 DEF On
  <2>6. TypeOK'
    BY <1>0, <1>2, <2>1, <2>2, <2>3 DEF Inv, TypeOK, Moves
  <2>7. \A v \in Workers : pc'[v] # "idle" => at'[v] \in Sessions
    BY <2>2 DEF Inv, Moves
  <2> QED BY <2>4, <2>5, <2>6, <2>7 DEF Inv
<1>3. CASE Out(w) /\ UNCHANGED receipt /\ journals' \subseteq Sessions
  BY <1>0, <1>3, OutInv DEF Inv, TypeOK
<1>4. journals \subseteq Sessions
  BY DEF Inv, TypeOK
<1> QED BY <1>1, <1>2, <1>3, <1>4 DEF Claim

LEMMA WorkInv ==
  ASSUME Inv, NEW w \in Workers, Begin(w) \/ Renew(w) \/ Fail(w) \/ Succeed(w)
  PROVE  Inv'
<1> DEFINE s == at[w]
<1>0. /\ pc[w] \in {"begin", "work"} /\ s \in Sessions /\ UNCHANGED <<baseline, starting, faults>>
      /\ w \in current => Knows(w)
      /\ journals \subseteq Sessions /\ faults \in 0..MaxFaults
  BY DEF Begin, Renew, Fail, Succeed, state, Inv, TypeOK
<1>1. w \in current => receipt[s] \in Receipts /\ receipt[s].state = "processing" /\ Has(receipt, s)
  BY <1>0 DEF Knows, IsIn, Has, Inv, TypeOK
\* The worker goes on in the attempt without a write.
<1>2. ASSUME NEW to \in {"work", "failed", "retryable"}, Go(w, to), UNCHANGED <<receipt, at, current, journals>>
      PROVE  Inv'
  <2>1. Moves(w) /\ pc'[w] = to
    BY <1>0, <1>2, GoMoves DEF Steps
  <2>2. w \in current' => Knows(w)'
    BY <1>0, <1>2, <2>1 DEF Knows, IsIn, Has
  <2> QED BY <1>0, <1>2, <2>1, <2>2, StandingInv
<1>3. CASE Begin(w)
  <2>1. CASE Transition(w, "blocked-missing-baseline", FALSE, "idle")
    BY <1>0, <1>1, <1>3, <2>1, TransitionInv DEF Begin, Transition, Unresolved
  <2> QED BY <1>2, <1>3, <2>1 DEF Begin
<1>4. CASE Renew(w)
  <2>1. CASE w \in current
    <3> DEFINE r == [receipt[s] EXCEPT !.lapsed = FALSE]
    <3>1. r \in Receipts
      BY <1>1, <2>1, Rewritten
    <3>4. r.state = "processing"
      BY <1>1, <2>1 DEF Receipts
    <3>2. WriteReceipt(w, s, r) /\ UNCHANGED <<pc, at>> /\ journals' = journals \cup {s}
      BY <1>4, <2>1 DEF Renew
    <3>3. Moves(w) /\ pc'[w] \in {"begin", "work"} /\ at'[w] = s
      BY <1>0, <3>2 DEF Moves, Inv, TypeOK
    <3> HIDE DEF r
    <3> QED BY <1>0, <3>1, <3>2, <3>3, <3>4, WrittenInv
  <2>2. CASE w \notin current
    BY <1>2, <1>4, <2>2 DEF Renew
  <2> QED BY <2>1, <2>2
<1>5. CASE Fail(w)
  BY <1>2, <1>5 DEF Fail, Go, state
<1>6. CASE Succeed(w)
  <2>1. CASE w \in current
    BY <1>0, <1>1, <1>6, <2>1, TransitionInv DEF Succeed
  <2>2. CASE w \notin current
    BY <1>2, <1>6, <2>2 DEF Succeed
  <2> QED BY <2>1, <2>2
<1> QED BY <1>3, <1>4, <1>5, <1>6

LEMMA EndInv ==
  ASSUME Inv, NEW w \in Workers, Commit(w) \/ Settle(w) \/ Requeue(w) \/ Crash(w)
  PROVE  Inv'
<1> DEFINE s == at[w]
<1>0. /\ pc[w] # "idle" /\ s \in Sessions
      /\ w \in current => Knows(w)
      /\ journals \subseteq Sessions /\ faults \in 0..MaxFaults
  BY DEF Commit, Settle, Requeue, Crash, Inv, TypeOK
<1>1. CASE Commit(w)
  <2>1. journals' \subseteq Sessions
    BY <1>0, <1>1 DEF Commit
  <2> QED BY <1>0, <1>1, <2>1, OutInv DEF Commit
<1>2. CASE Crash(w)
  <2>1. faults' \in 0..MaxFaults
    BY <1>0, <1>2, CaptureAssumption DEF Crash
  <2> QED BY <1>0, <1>2, <2>1, OutInv DEF Crash, state
<1>3. CASE Rejected(w) /\ UNCHANGED <<baseline, starting, journals, faults>>
  BY <1>0, <1>3, OutInv DEF Rejected
<1>4. CASE Settle(w) /\ ~Rejected(w)
  <2>1. Has(receipt, s) /\ UNCHANGED <<baseline, starting, journals, faults>>
    BY <1>0, <1>4 DEF Settle, Transition, Knows, IsIn
  <2>2. CASE Transition(w, "retry-exhausted", pc[w] = "retryable", "idle")
    <3>1. (pc[w] = "retryable") \in BOOLEAN
      OBVIOUS
    <3> QED BY <1>0, <2>1, <2>2, <3>1, TransitionInv DEF Unresolved
  <2>3. CASE receipt[s].origin = "automatic" /\ Transition(w, "failed", TRUE, "requeue")
    BY <1>0, <2>1, <2>3, TransitionInv DEF Unresolved
  <2>4. CASE Transition(w, IF receipt[s].used >= Limit THEN "retry-exhausted" ELSE "failed",
                        pc[w] = "retryable", "idle")
    <3>1. (IF receipt[s].used >= Limit THEN "retry-exhausted" ELSE "failed") \in Unresolved
      BY DEF Unresolved
    <3>2. (pc[w] = "retryable") \in BOOLEAN
      OBVIOUS
    <3> QED BY <1>0, <2>1, <2>4, <3>1, <3>2, TransitionInv
  <2> QED BY <1>4, <2>2, <2>3, <2>4 DEF Settle
<1>5. CASE Requeue(w) /\ ~Rejected(w)
  <2>1. Has(receipt, s)
    BY <1>0, <1>5 DEF Requeue, Transition, Knows, IsIn
  <2> QED BY <1>0, <1>5, <2>1, TransitionInv DEF Requeue, Unresolved
<1> QED BY <1>1, <1>2, <1>3, <1>4, <1>5 DEF Settle, Requeue

LEMMA NextInv == Inv /\ [Next]_vars => Inv'
<1> SUFFICES ASSUME Inv, [Next]_vars PROVE Inv'
  OBVIOUS
<1>1. CASE UNCHANGED vars
  BY <1>1, AsideInv DEF vars, workers, Inv, TypeOK
<1>2. ASSUME NEW s \in Sessions, StartCreate(s) \/ StartWrite(s) \/ Close(s) \/ CrashStart(s)
      PROVE  Inv'
  BY <1>2, SessionsInv
<1>3. ASSUME NEW s \in Sessions, Retry(s) \/ Restart(s) PROVE Inv'
  BY <1>3, RetryInv
<1>4. ASSUME NEW s \in Sessions, Age(s) \/ Lapse(s) PROVE Inv'
  BY <1>4, TimeInv
<1>5. ASSUME NEW w \in Workers, Worker(w) \/ Crash(w) PROVE Inv'
  BY <1>5, ClaimInv, WorkInv, EndInv DEF Worker
<1> QED BY <1>1, <1>2, <1>3, <1>4, <1>5, PruneInv DEF Next

LEMMA Invariance == Spec => []Inv
BY InitInv, NextInv, PTL DEF Spec

-----------------------------------------------------------------------------
(* Captures: how a receipt evolves *)

\* What a step may make of a receipt: a success stays or, old, is pruned, and what is queued
\* again was automatic or is retried.
Evolves(s) ==
    \/ receipt'[s] = receipt[s]
    \/ ~Has(receipt, s)
    \/ /\ Has(receipt', s) /\ receipt[s].state # "succeeded"
       /\ \/ receipt'[s].state # "queued"
          \/ receipt[s].state = "queued"
          \/ receipt[s].origin = "automatic"
          \/ receipt'[s].manual = receipt[s].manual + 1
    \/ Has(receipt', s) /\ receipt[s].state = "succeeded" /\ receipt'[s].state = "succeeded"
    \/ IsIn(s, {"succeeded"}) /\ receipt[s].old /\ ~Has(receipt', s)

\* It is enough to look at the receipt that is written.
LEMMA WrittenEvolves ==
  ASSUME Inv, NEW z \in Sessions, NEW r \in Receipts, Has(receipt, z),
         receipt' = [receipt EXCEPT ![z] = r], receipt[z].state # "succeeded",
         \/ r.state # "queued" \/ receipt[z].state = "queued"
         \/ receipt[z].origin = "automatic" \/ r.manual = receipt[z].manual + 1,
         NEW s \in Sessions
  PROVE  Evolves(s)
<1>1. s = z => receipt'[s] = r /\ r # None
  BY NotNull DEF Inv, TypeOK
<1>2. s # z => receipt'[s] = receipt[s]
  BY DEF Inv, TypeOK
<1> QED BY <1>1, <1>2 DEF Evolves, Has

LEMMA TransitionEvolves ==
  ASSUME Inv, NEW w \in Workers, at[w] \in Sessions, Has(receipt, at[w]),
         NEW to \in Unresolved \cup {"succeeded"}, NEW retryable \in BOOLEAN,
         NEW next, Transition(w, to, retryable, next),
         receipt[at[w]].state # "succeeded",
         to = "queued" => receipt[at[w]].origin = "automatic",
         NEW s \in Sessions
  PROVE  Evolves(s)
<1> DEFINE r == [receipt[at[w]] EXCEPT !.state = to, !.retryable = retryable,
                                       !.owner = None, !.lapsed = FALSE]
<1>1. receipt[at[w]] \in Receipts
  BY DEF Inv, TypeOK, Has
<1>2. r \in Receipts
  BY <1>1, Rewritten
<1>3. r.state = to
  BY <1>1 DEF Receipts
<1>4. receipt' = [receipt EXCEPT ![at[w]] = r]
  BY DEF Transition, WriteReceipt
<1> HIDE DEF r
<1> QED BY <1>2, <1>3, <1>4, WrittenEvolves

LEMMA WorkersEvolve ==
  ASSUME Inv, NEW w \in Workers, Worker(w) \/ Crash(w), NEW s \in Sessions
  PROVE  Evolves(s)
<1>0. /\ at[w] \in Sessions
      /\ w \in current => Knows(w)
  BY DEF Worker, Claim, Begin, Renew, Fail, Succeed, Commit, Settle, Requeue, Crash, Inv, TypeOK
<1> DEFINE z == at[w]
<1>1. ASSUME Has(receipt, z) PROVE receipt[z] \in Receipts
  BY <1>0, <1>1 DEF Has, Inv, TypeOK
<1>2. ASSUME w \in current, pc[w] \in {"begin", "work", "failed", "retryable", "requeue"}
      PROVE  Has(receipt, z) /\ receipt[z].state \in {"processing", "failed"}
  BY <1>0, <1>2 DEF Knows, IsIn
<1>3. CASE UNCHANGED receipt
  BY <1>3 DEF Evolves
<1>4. CASE Claim(w)
  <2>1. CASE /\ Has(receipt, z) /\ Claimable(receipt[z]) /\ ~Spent(receipt[z])
             /\ WriteReceipt(w, z, [receipt[z] EXCEPT !.state = "processing", !.owner = w,
                    !.lapsed = FALSE,
                    !.used = IF receipt[z].origin = "automatic" THEN @ + 1 ELSE @])
    <3> DEFINE c == [receipt[z] EXCEPT !.state = "processing", !.owner = w, !.lapsed = FALSE,
                        !.used = IF receipt[z].origin = "automatic" THEN @ + 1 ELSE @]
    <3>1. c \in Receipts
      BY <1>1, <2>1, ClaimedIsReceipt
    <3>2. c.state = "processing" /\ receipt[z].state # "succeeded"
      BY <1>1, <2>1 DEF Receipts, Claimable, Resumable
    <3>3. receipt' = [receipt EXCEPT ![z] = c]
      BY <2>1 DEF WriteReceipt
    <3> HIDE DEF c
    <3> QED BY <1>0, <2>1, <3>1, <3>2, <3>3, WrittenEvolves
  <2>2. CASE /\ Has(receipt, z) /\ Resumable(receipt[z])
             /\ receipt' = [receipt EXCEPT ![z] = [receipt[z] EXCEPT !.state = "retry-exhausted",
                    !.owner = None, !.lapsed = FALSE, !.retryable = FALSE]]
    <3> DEFINE x == [receipt[z] EXCEPT !.state = "retry-exhausted",
                        !.owner = None, !.lapsed = FALSE, !.retryable = FALSE]
    <3>1. x \in Receipts
      BY <1>1, <2>2, Rewritten DEF Unresolved
    <3>2. x.state = "retry-exhausted" /\ receipt[z].state # "succeeded"
      BY <1>1, <2>2 DEF Receipts, Resumable
    <3>3. receipt' = [receipt EXCEPT ![z] = x]
      BY <2>2
    <3> HIDE DEF x
    <3> QED BY <1>0, <2>2, <3>1, <3>2, <3>3, WrittenEvolves
  <2> QED BY <1>3, <1>4, <2>1, <2>2 DEF Claim
<1>5. ASSUME NEW to \in Unresolved \cup {"succeeded"}, NEW retryable \in BOOLEAN, NEW next,
             Transition(w, to, retryable, next),
             pc[w] \in {"begin", "work", "failed", "retryable", "requeue"},
             to = "queued" => receipt[z].origin = "automatic"
      PROVE  Evolves(s)
  <2>1. w \in current
    BY <1>5 DEF Transition
  <2> QED BY <1>0, <1>2, <1>5, <2>1, TransitionEvolves
<1>6. CASE Begin(w)
  BY <1>3, <1>5, <1>6 DEF Begin, Unresolved
<1>7. CASE Renew(w)
  <2>1. CASE w \in current
    <3> DEFINE r == [receipt[z] EXCEPT !.lapsed = FALSE]
    <3>1. Has(receipt, z) /\ receipt[z].state = "processing"
      BY <1>0, <1>7, <2>1 DEF Renew, Knows, IsIn
    <3>2. r \in Receipts
      BY <1>1, <3>1, Rewritten
    <3>3. r.state = "processing"
      BY <1>1, <3>1 DEF Receipts
    <3>4. receipt' = [receipt EXCEPT ![z] = r]
      BY <1>7, <2>1 DEF Renew, WriteReceipt
    <3> HIDE DEF r
    <3> QED BY <1>0, <3>1, <3>2, <3>3, <3>4, WrittenEvolves
  <2> QED BY <1>3, <1>7, <2>1 DEF Renew
<1>8. CASE Succeed(w)
  BY <1>3, <1>5, <1>8 DEF Succeed
<1>9. CASE Settle(w)
  <2>1. ASSUME NEW to \in {"failed", "retry-exhausted"}, NEW next,
               \/ Transition(w, to, TRUE, next) \/ Transition(w, to, pc[w] = "retryable", next)
        PROVE  Evolves(s)
    <3>1. to \in Unresolved \cup {"succeeded"} /\ to # "queued"
          /\ (pc[w] = "retryable") \in BOOLEAN /\ TRUE \in BOOLEAN
      BY DEF Unresolved
    <3>2. pc[w] \in {"begin", "work", "failed", "retryable", "requeue"}
      BY <1>9 DEF Settle
    <3> QED BY <1>5, <2>1, <3>1, <3>2
  <2> QED BY <1>3, <1>9, <2>1 DEF Settle, Rejected
<1>10. CASE Requeue(w)
  BY <1>0, <1>3, <1>5, <1>10 DEF Requeue, Rejected, Transition, Knows, Unresolved
<1> QED BY <1>3, <1>4, <1>6, <1>7, <1>8, <1>9, <1>10 DEF Worker, Fail, Commit, Crash, state

LEMMA RetryEvolves ==
  ASSUME Inv, NEW z \in Sessions, Retry(z), NEW s \in Sessions
  PROVE  Evolves(s)
<1> DEFINE r == [receipt[z] EXCEPT
           !.state = "queued", !.origin = "operator", !.manual = @ + 1, !.retryable = FALSE,
           !.owner = None, !.lapsed = FALSE,
           !.ref = IF receipt[z].state = "blocked-missing-baseline" THEN "operator" ELSE @]
<1>1. receipt[z] \in Receipts /\ Has(receipt, z) /\ receipt[z].state # "succeeded"
  BY DEF Retry, IsIn, Has, Inv, TypeOK
<1>2. r \in Receipts
  BY <1>1, RetriedIsReceipt DEF Retry
<1>3. r.manual = receipt[z].manual + 1
  BY <1>1 DEF Receipts
<1>4. receipt' = [receipt EXCEPT ![z] = r]
  BY DEF Retry
<1> HIDE DEF r
<1> QED BY <1>1, <1>2, <1>3, <1>4, WrittenEvolves

LEMMA TimeEvolves ==
  ASSUME Inv, NEW z \in Sessions, Age(z) \/ Lapse(z), NEW s \in Sessions
  PROVE  Evolves(s)
<1>1. CASE UNCHANGED receipt
  BY <1>1 DEF Evolves
<1>2. ASSUME IsIn(z, {"succeeded"}), receipt' = [receipt EXCEPT ![z].old = TRUE]
      PROVE  Evolves(s)
  <2>1. receipt[z] \in Receipts /\ receipt[z].state = "succeeded"
    BY <1>2 DEF IsIn, Has, Inv, TypeOK
  <2>2. [receipt[z] EXCEPT !.old = TRUE] \in Receipts
    BY <2>1, Rewritten
  <2>3. s # z => receipt'[s] = receipt[s]
    BY <1>2 DEF Inv, TypeOK
  <2>4. receipt'[z] = [receipt[z] EXCEPT !.old = TRUE]
    BY <1>2 DEF Inv, TypeOK
  <2>5. receipt'[z].state = "succeeded" /\ Has(receipt', z)
    BY <2>1, <2>2, <2>4, NotNull DEF Has, Receipts
  <2> QED BY <2>1, <2>3, <2>5 DEF Evolves
<1>3. CASE Lapse(z)
  <2>1. receipt[z] \in Receipts /\ receipt[z].state = "processing"
    BY <1>3 DEF Lapse, IsIn, Has, Inv, TypeOK
  <2>2. [receipt[z] EXCEPT !.lapsed = TRUE] \in Receipts
    BY <2>1, Rewritten
  <2>3. s # z => receipt'[s] = receipt[s]
    BY <1>3 DEF Lapse, Inv, TypeOK
  <2>4. receipt'[z] = [receipt[z] EXCEPT !.lapsed = TRUE]
    BY <1>3 DEF Lapse, Inv, TypeOK
  <2>5. receipt'[z].state = "processing" /\ Has(receipt', z)
    BY <2>1, <2>2, <2>4, NotNull DEF Has, Receipts
  <2> QED BY <2>1, <2>3, <2>5 DEF Evolves
<1> QED BY <1>1, <1>2, <1>3 DEF Age

LEMMA NextEvolves ==
  ASSUME Inv, [Next]_vars, NEW s \in Sessions
  PROVE  Evolves(s)
<1>1. CASE UNCHANGED receipt
  BY <1>1 DEF Evolves
<1>2. ASSUME NEW z \in Sessions, Close(z) PROVE Evolves(s)
  BY <1>2 DEF Close, Deduplicated, IntegrityRefused, PressureRefused, Admit, AdmitAndDie,
              Evolves, vars, Inv, TypeOK, Has
<1>3. CASE Prune
  BY <1>3 DEF Prune, Evolves, IsIn, Has
<1>4. ASSUME NEW z \in Sessions,
             StartCreate(z) \/ StartWrite(z) \/ Restart(z) \/ CrashStart(z)
      PROVE  Evolves(s)
  BY <1>1, <1>4 DEF StartCreate, StartWrite, Restart, CrashStart, state
<1> QED BY <1>1, <1>2, <1>3, <1>4, WorkersEvolve, RetryEvolves, TimeEvolves DEF Next, vars

-----------------------------------------------------------------------------
(* Captures: results *)

\* Every variable keeps its type: attempts and retries within their limits, receipts and
\* baselines of the shapes that state.ts writes.
THEOREM TypeCorrect == Spec => []TypeOK
BY Invariance, PTL DEF Inv

\* A capture that succeeded stays so until its retention is over, whatever workers that lost
\* their lease, and retries, do meanwhile (transitionCaptureReceipt, authorizeCaptureRetry).
THEOREM SuccessStays == Spec => SuccessIsFinal
<1>1. Inv /\ [Next]_vars =>
        [\A s \in Sessions : IsIn(s, {"succeeded"}) =>
           \/ Has(receipt', s) /\ receipt'[s].state = "succeeded"
           \/ receipt[s].old /\ ~Has(receipt', s)]_vars
  BY NextEvolves DEF Evolves, IsIn, Has
<1> QED BY <1>1, Invariance, PTL DEF Spec, SuccessIsFinal

\* An operator's retry is one attempt: its receipt is queued again by another retry only
\* (the settling of an attempt in runCaptureWorker).
THEOREM OneAttempt == Spec => OneAttemptPerRetry
<1>1. Inv /\ [Next]_vars =>
        [\A s \in Sessions :
           Has(receipt, s) /\ receipt[s].origin = "operator" /\ receipt[s].state # "queued"
               /\ Has(receipt', s) /\ receipt'[s].state = "queued"
           => receipt'[s].manual = receipt[s].manual + 1]_vars
  BY NextEvolves DEF Evolves, IsIn, Has
<1> QED BY <1>1, Invariance, PTL DEF Spec, OneAttemptPerRetry

\* What a session left at its start is forgotten, by a close or a clean-up, only when no
\* receipt that stays and no open journal refers to it.
THEOREM EvidenceStays == Spec => EvidenceKept
<1>1. ASSUME Inv, [Next]_vars, NEW s \in Sessions, Has(baseline, s), ~Has(baseline', s)
      PROVE  s \notin journals /\ (Has(receipt, s) => ~Has(receipt', s))
  <2>1. CASE UNCHANGED baseline
    BY <1>1, <2>1 DEF Has
  <2>2. ASSUME NEW z \in Sessions, Forget(z)
        PROVE  s \notin journals /\ ~Has(receipt, s)
    BY <1>1, <2>2 DEF Forget, Expired, Referenced, Has, Inv, TypeOK
  <2>3. CASE Prune
    BY <1>1, <2>3 DEF Prune, Needed, Has
  <2>4. baseline[s] \in Baselines
    BY <1>1 DEF Has, Inv, TypeOK
  <2>5. ASSUME NEW z \in Sessions, StartCreate(z) PROVE FALSE
    BY <1>1, <2>5 DEF StartCreate, Has, Inv, TypeOK
  <2>6. ASSUME NEW z \in Sessions, StartWrite(z) PROVE FALSE
    <3>1. PICK is \in {"incomplete", "complete"} :
            baseline' = [baseline EXCEPT ![z] = IF @ = None THEN None ELSE [@ EXCEPT !.is = is]]
      BY <2>6 DEF StartWrite
    <3>2. z = s
      BY <1>1, <3>1 DEF Has, Inv, TypeOK
    <3>3. [baseline[s] EXCEPT !.is = is] \in Baselines
      BY <2>4 DEF Baselines
    <3>4. baseline'[s] = [baseline[s] EXCEPT !.is = is]
      BY <1>1, <3>1, <3>2 DEF Has, Inv, TypeOK
    <3> QED BY <1>1, <3>3, <3>4, NotNull DEF Has
  <2>7. ASSUME NEW z \in Sessions, baseline' = [baseline EXCEPT ![z].old = TRUE] PROVE FALSE
    <3>1. z = s
      BY <1>1, <2>7 DEF Has, Inv, TypeOK
    <3>2. [baseline[s] EXCEPT !.old = TRUE] \in Baselines
      BY <2>4 DEF Baselines
    <3>3. baseline'[s] = [baseline[s] EXCEPT !.old = TRUE]
      BY <1>1, <2>7, <3>1 DEF Inv, TypeOK
    <3> QED BY <1>1, <3>2, <3>3, NotNull DEF Has
  <2> QED
    BY <1>1, <2>1, <2>2, <2>3, <2>5, <2>6, <2>7
    DEF Next, Close, Deduplicated, IntegrityRefused, PressureRefused, Admit, AdmitAndDie,
        Retry, Restart, Lapse, CrashStart, Worker, Claim, Begin, Renew, Fail, Succeed, Commit,
        Settle, Requeue, Crash, Age, state, vars
<1>2. Inv /\ [Next]_vars =>
        [\A s \in Sessions : Has(baseline, s) /\ ~Has(baseline', s) =>
           s \notin journals /\ (Has(receipt, s) => ~Has(receipt', s))]_vars
  BY <1>1
<1> QED BY <1>2, Invariance, PTL DEF Spec, EvidenceKept
=============================================================================

---------------------------- MODULE SkillInstall ----------------------------
(* How the Project Notebook skill gets onto the operator's machine
   (notebook/hooks.ts): a verified copy under the XDG data root, a link at
   ~/.agents/skills/project-notebook, and the hooks of the agent's settings that
   run scripts through that link. The root may belong to a Skillex checkout
   instead, whose own projection is verified, never written, and repaired on
   request. Every operation is an operator on the machine it finds: one command
   runs at a time here. Files have a digest and an executable bit; what the code
   refuses in a tree (links, foreign owners, unsafe modes) is one flag. *)
CONSTANTS Versions,     \* releases of pjangler
          Paths, Sums,  \* paths within a skill and digests of files
          Main,         \* SKILL.md, by which a source is known
          Scripts,      \* the paths that are executable by their names
          Unsafe,       \* the paths an export never has: .env, *.bak, *.log ...
          Skipped,      \* what lies in __pycache__, .git or node_modules
          Pinned,       \* the export each release carries, path |-> digest
          Events,       \* of the agent, to which the skill's hooks belong
          None

Listings == UNION {[D -> Sums] : D \in SUBSET (Paths \ (Unsafe \cup Skipped))}
Files == UNION {[D -> [sum : Sums, exec : BOOLEAN]] : D \in SUBSET Paths}
Trees == [owned : BOOLEAN, files : Files, list : Listings \cup {None}]

\* What the theorems suppose of the constants.
ExportsArePinned ==
  /\ Pinned \in [Versions -> Listings]
  /\ Main \in Paths /\ Scripts \subseteq Paths /\ Unsafe \cap Skipped = {}
  /\ None \notin Listings /\ None \notin Trees
  /\ Versions \cap {"absent", "real", "canon", "elsewhere"} = {}

---------------------------------------------------------------------------
(* Trees *)

\* assertOwnedSkillTree is the flag t.owned; enumerateSkillPayload sees the rest.
Counted(t) == DOMAIN t.files \ Skipped
Enumerable(t) == Counted(t) \cap Unsafe = {}
Payload(t) == [p \in Counted(t) |-> t.files[p].sum]

\* An exported tree also lists itself (export-manifest.json and SHA256SUMS).
ListFits(t) == /\ t.list = Payload(t)
               /\ \A p \in Counted(t) : t.files[p].exec = (p \in Scripts)

\* verifyProjectNotebookSkillExport: a tree that does not list itself is taken
\* to have the modes that its names ask for.
Verifies(t, v) == /\ t # None /\ t.owned /\ Enumerable(t)
                  /\ t.list = None \/ ListFits(t)
                  /\ Payload(t) = Pinned[v]

\* The copy that an install leaves: staged, verified, then renamed into place.
Packed(v) ==
  [owned |-> TRUE, list |-> Pinned[v],
   files |-> [p \in DOMAIN Pinned[v] |-> [sum |-> Pinned[v][p], exec |-> p \in Scripts]]]

---------------------------------------------------------------------------
(* The machine *)

\* root: ~/.agents/skills, which may be the link of a Skillex checkout ("fanout")
\* or another link; through: one of its ancestors is a link. link: what lies at
\* project-notebook below it: nothing, something that is no link, a link to the
\* copy of a release, to the checkout's own tree, or to elsewhere. armed: the
\* events at which the agent's settings run the scripts.
Machines ==
  [root : {"absent", "dir", "fanout", "other"}, through : BOOLEAN,
   link : {"absent", "real", "canon", "elsewhere"} \cup Versions,
   copy : [Versions -> Trees \cup {None}], canon : Trees \cup {None},
   armed : SUBSET Events]
Hosts == {h \in Machines : h.root = "absent" => h.link = "absent"}

Leads(h) ==   \* realpath of the link, when it is a link that leads somewhere
  IF h.link = "canon" THEN h.canon
  ELSE IF h.link \in Versions THEN h.copy[h.link] ELSE None
Dangling(h) == h.link \in Versions \cup {"canon"} /\ Leads(h) = None

\* resolveProjectNotebookSkillSource: where an install copies from. With
\* PJ_SKILLS_REGISTRY_ROOT set it is the checkout, which must then be right.
SourceFails(h, v, registry) ==
  /\ registry /\ h.canon # None /\ Main \in DOMAIN h.canon.files
  /\ ~Verifies(h.canon, v)

\* probeCanonicalSkillexRootProjection.
Probe(h, v) ==
  IF h.root \in {"absent", "dir"} THEN h.root
  ELSE IF h.through THEN "drift, not repairable"
  ELSE IF h.root # "fanout" \/ h.link # "canon" \/ h.canon = None THEN "unsupported"
  ELSE IF Verifies(h.canon, v) THEN "adopted" ELSE "drift"
Declined(h, v) == Probe(h, v) \in {"drift, not repairable", "unsupported", "drift"}

\* What may stay at the link: the release's own copy or a verified checkout.
Kept(h, v) == /\ h.link \in {v, "canon"}
              /\ Verifies(Leads(h), v)

---------------------------------------------------------------------------
(* Operations: the machine afterwards, and what the command says *)

Result(h, out) == [host |-> h, out |-> out]

\* The verified copy of release v; false when what is there is not it.
Copied(h, v) == IF h.copy[v] = None THEN [h EXCEPT !.copy[v] = Packed(v)] ELSE h
CopyFails(h, v) == h.copy[v] # None /\ ~Verifies(h.copy[v], v)

\* collectSupersededPayloads: every copy that the link does not lead to goes.
Collected(h, v) == [h EXCEPT !.copy = [w \in Versions |-> IF w = v THEN h.copy[w] ELSE None]]

\* The part of the install that runs once the copy is there.
AtLink(h, v) ==
  IF h.through THEN Result(h, "error")
  ELSE LET g == [h EXCEPT !.root = "dir"] IN
       IF h.link = "absent" THEN Result(Collected([g EXCEPT !.link = v], v), "installed")
       ELSE IF Dangling(h) THEN Result(g, "error")
       ELSE IF Kept(h, v) THEN Result(g, "kept")
       ELSE Result(g, "foreign")

\* installPackagedProjectNotebookSkill.
Install(h, v, registry) ==
  IF SourceFails(h, v, registry) THEN Result(h, "error")
  ELSE IF Probe(h, v) = "adopted" THEN Result(h, "kept")
  ELSE IF Declined(h, v) THEN Result(h, Probe(h, v))
  ELSE IF CopyFails(h, v) THEN Result(h, "error")
  ELSE AtLink(Copied(h, v), v)

\* installProjectNotebookIntegration: no hook is projected while the link is
\* unverified, and a link made for hooks that fail is taken away again. The
\* projector leaves the events that the hub owns to it. One that is killed, times
\* out or cannot sync may have replaced the settings before it failed ("late").
Projections == {"done", "failed", "late"}
Projected(h, hubs) == [h EXCEPT !.armed = Events \ hubs]
Integrate(h, v, registry, hubs, how) ==
  LET r == Install(h, v, registry)
      g == IF how = "failed" THEN r.host ELSE Projected(r.host, hubs)
  IN
  IF r.out \notin {"installed", "kept"} THEN r
  ELSE IF how = "done" THEN Result(g, r.out)
  ELSE IF r.out = "installed" THEN Result([g EXCEPT !.link = "absent"], "error")
  ELSE Result(g, "error")

\* inspectProjectNotebookIntegration, its skill_installed.
Inspect(h, v) == /\ ~Declined(h, v)
                 /\ ~Dangling(h)
                 /\ Kept(h, v)

\* repairProjectNotebookSkillProjection. Its walk counts what Skipped holds.
Stale(t, v) == DOMAIN t.files \ DOMAIN Pinned[v]
Changed(t, v) ==
  {p \in DOMAIN Pinned[v] :
     \/ p \notin DOMAIN t.files
     \/ t.files[p] # [sum |-> Pinned[v][p], exec |-> p \in Scripts]}
Restored(t, v) == [t EXCEPT !.files = Packed(v).files]
Repair(h, v, apply) ==
  IF Probe(h, v) \in {"absent", "dir", "adopted"} THEN Result(h, "clean")
  ELSE IF Probe(h, v) # "drift" THEN Result(h, "blocked")
  ELSE IF ~h.canon.owned THEN Result(h, "error")
  ELSE IF Stale(h.canon, v) \cup Changed(h.canon, v) = {} THEN Result(h, "blocked")
  ELSE IF ~apply THEN Result(h, "planned")
  ELSE LET t == Restored(h.canon, v) IN
       Result([h EXCEPT !.canon = t], IF Verifies(t, v) THEN "repaired" ELSE "error")

---------------------------------------------------------------------------
(* What is promised, for every machine h and release v *)

\* Hooks are only ever armed through a link whose target verifies against the
\* export of the release that armed them. A projector that failed too late may
\* leave hooks without a link, which run nothing.
ArmedIsVerified(h, v, registry, hubs, how) ==
  LET r == Integrate(h, v, registry, hubs, how) IN
  /\ r.out \in {"installed", "kept"} =>
       r.host.armed = Events \ hubs /\ Verifies(Leads(r.host), v)
  /\ r.host.armed # h.armed => Verifies(Leads(r.host), v) \/ r.host.link = "absent"

\* A command that does not install leaves the link and the checkout as they were.
\* It leaves the settings as they were if it stopped before the projector ran:
\* only a projector that failed too late has replaced them, behind a skill that
\* was in order.
DeclinedIsUntouched(h, v, registry, hubs, how) ==
  LET r == Integrate(h, v, registry, hubs, how) IN
  /\ r.host.canon = h.canon
  /\ r.out \notin {"installed", "kept"} =>
       /\ r.host.link = h.link
       /\ r.host.armed # h.armed =>
            how = "late" /\ Verifies(Leads(Install(h, v, registry).host), v)

\* Collecting old copies never takes the one that the link leads to, so that
\* the commands in the agent's settings keep running.
InUseIsKept(h, v, registry, hubs, how) ==
  LET r == Integrate(h, v, registry, hubs, how).host IN
  r.link # "absent" /\ ~Dangling(h) => ~Dangling(r)

\* What an install reports, the audit sees: a second install changes nothing.
InstallSettles(h, v, registry) ==
  LET r == Install(h, v, registry) IN
  r.out \in {"installed", "kept"} =>
    /\ Inspect(r.host, v)
    /\ Install(r.host, v, registry) = Result(r.host, "kept")

\* A repaired checkout is adopted by the next install and needs no other repair.
RepairSticks(h, v) ==
  LET r == Repair(h, v, TRUE) IN
  r.out = "repaired" =>
    \A registry \in BOOLEAN :
      /\ Install(r.host, v, registry) = Result(r.host, "kept")
      /\ Repair(r.host, v, TRUE) = Result(r.host, "clean")

\* Not promised by the code, although the advice that goes with every refusal
\* says so ("`repair` is the exact command that clears it"): after an upgrade the
\* link leads to the copy of the old release, which is foreign to the new one.
RepairClears(h, v) ==
  Install(h, v, FALSE).out = "foreign" =>
    Install(Repair(h, v, TRUE).host, v, FALSE).out # "foreign"
=============================================================================

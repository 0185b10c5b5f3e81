-------------------------- MODULE CopierPreflight --------------------------
(* Which Copier an apply over MCP may run (lifecycle/preflight.ts). The first
   `copier` on PATH is taken, an inactive shim of mise excepted, and accepted
   only as the canonical UV tool of the account, proved file by file; what was
   proved is pinned and looked at again before the first write. Nothing is
   executed. A place stands for the directory that holds a `copier`; contents,
   inodes, modes and owners of a file are one value. *)
EXTENDS Naturals, Sequences

CONSTANTS Places,   \* directories, with "shims", "bin" (~/.local/bin), "tool" (the tool's bin)
          Files,    \* what the tool consists of, with Proper and "main"
          Outside,  \* paths in RECORD that leave the tool's environment
          Contents

\* The files that are pinned beside those of the package.
Proper == {"launcher", "interpreter", "pyvenv.cfg", "receipt", "METADATA", "entry_points", "RECORD"}

\* What lies at an entry of PATH; leads is meant for a link: whose `copier`, or
\* that the file is called mise. A broken link is not executable, so is "none".
Entries == [at : Places, is : {"none", "file", "link"}, leads : [at : Places, mise : BOOLEAN]]

\* The account's tool: what the checks read of launcher, receipt and metadata,
\* how many installations there are, RECORD's entries, and the files.
Tools == [script : BOOLEAN, inside : BOOLEAN, managed : BOOLEAN, receipt : BOOLEAN,
          sites : Nat, dists : Nat, nine : BOOLEAN, entry : BOOLEAN,
          record : UNION {[R -> Contents] : R \in SUBSET Files},
          disk : UNION {[D -> Contents] : D \in SUBSET Files}]

---------------------------------------------------------------------------
(* The walk along PATH *)

Real(e) == IF e.is = "link" THEN e.leads ELSE [at |-> e.at, mise |-> FALSE]
InactiveShim(e) == e.at = "shims" /\ e.is = "link" /\ e.leads.mise

\* resolveCopierOnPath: the loop over the entries from the i-th on.
Walk(path) ==
  LET W[i \in 1 .. Len(path) + 1] ==
        IF i > Len(path) THEN [candidate |-> <<>>, skipped |-> {}]
        ELSE IF path[i].is = "none" THEN W[i + 1]
        ELSE IF InactiveShim(path[i])
             THEN [W[i + 1] EXCEPT !.skipped = @ \cup {path[i]}]
             ELSE [candidate |-> <<path[i]>>, skipped |-> {}]
  IN  W[1]

---------------------------------------------------------------------------
(* The proof of the tool *)

Has(t, fs) == fs \subseteq DOMAIN t.disk

\* attestUvCopier. An unreadable file throws, which is a refusal as well.
Attested(e, t) ==
  /\ Real(e) = [at |-> "tool", mise |-> FALSE]
  /\ e.at \in {"bin", "tool"}
  /\ t.script /\ t.inside /\ t.managed
  /\ Has(t, Proper) /\ t.receipt
  /\ t.sites = 1 /\ t.dists = 1
  /\ t.nine /\ t.entry
  /\ {"launcher", "main"} \subseteq DOMAIN t.record
  /\ DOMAIN t.record \cap Outside = {}
  /\ \A f \in DOMAIN t.record : Has(t, {f}) /\ t.disk[f] = t.record[f]

\* The identity: a fingerprint of every file that was looked at.
Identity(t) == [f \in DOMAIN t.record \cup Proper |-> t.disk[f]]

\* verifyTrustedCopierIdentity.
StillTrusted(id, t) ==
  \A f \in DOMAIN id : Has(t, {f}) /\ t.disk[f] = id[f]

---------------------------------------------------------------------------
(* preflightTrustedCopier and preflightMcpLifecycle *)

Refused(why) == [ok |-> FALSE, why |-> why]
Local(where, e) == e.at \in where \/ Real(e).at \in where

\* inside: the places within the target and the temporary directory.
Preflight(path, inside, t) ==
  LET w == Walk(path) IN
  IF \E e \in w.skipped : Local(inside, e) THEN Refused("local")
  ELSE IF w.candidate = <<>> THEN Refused("not found")
  ELSE IF Local(inside, w.candidate[1]) THEN Refused("local")
  ELSE IF ~Attested(w.candidate[1], t) THEN Refused("unproved")
  ELSE [ok |-> TRUE, from |-> w.candidate[1].at, id |-> Identity(t)]

\* The template of the project must be there as well: each of its files a
\* regular one within it, copier.yml for Copier 9, the manifest with its fields.
Template == [contained : BOOLEAN, nine : BOOLEAN, fields : BOOLEAN]
TemplateOk(m) == m.contained /\ m.nine /\ m.fields
McpPreflight(path, inside, t, common, m) ==
  LET r == Preflight(path, inside, t) IN
  IF r.ok /\ common /\ ~TemplateOk(m) THEN Refused("template") ELSE r

---------------------------------------------------------------------------
(* What is promised *)

\* The reference for the walk: the first entry that is there and is no inactive
\* shim; an earlier `copier` is never passed over for a later one.
FirstCandidate(path, i) ==
  /\ i \in DOMAIN path /\ path[i].is # "none" /\ ~InactiveShim(path[i])
  /\ \A j \in 1 .. i - 1 : path[j].is = "none" \/ InactiveShim(path[j])
WalkIsFirst(path) ==
  LET w == Walk(path) IN
  /\ w.candidate = <<>> <=> \A i \in DOMAIN path : ~FirstCandidate(path, i)
  /\ \A i \in DOMAIN path : FirstCandidate(path, i) =>
       /\ w.candidate = <<path[i]>>
       /\ w.skipped = {path[j] : j \in {k \in 1 .. i - 1 : path[k].is # "none"}}

\* What passes is the account's tool, reached by an entry of the account; no
\* `copier` of the target, the temporary directory or another tool comes before.
PassIsTheTool(path, inside, t) ==
  Preflight(path, inside, t).ok =>
    \E i \in DOMAIN path :
      /\ FirstCandidate(path, i)
      /\ path[i].at \in {"bin", "tool"} /\ Real(path[i]).at = "tool"
      /\ \A j \in 1 .. i : path[j].is = "none" \/ ~Local(inside, path[j])

\* Whatever an installation changes between the preflight and the first write,
\* in a file that was proved, is noticed; what it changes elsewhere is not.
PinNotices(path, inside, t, later) ==
  LET r == Preflight(path, inside, t) IN
  r.ok => (StillTrusted(r.id, later) <=>
             \A f \in DOMAIN t.record \cup Proper :
               f \in DOMAIN later.disk /\ later.disk[f] = t.disk[f])
=============================================================================

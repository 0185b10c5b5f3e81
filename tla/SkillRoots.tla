----------------------------- MODULE SkillRoots -----------------------------
(***************************************************************************)
(* The conversion of the CLIs' skills roots (src/src/parity/skill-roots.ts)*)
(* into links to .agents/skills: one plan made from the disk as it is, a   *)
(* quarantine that doubles as the lock, a journal and a restore script     *)
(* written before the first step, a line of the log after each step, a     *)
(* look at the disk before anything is purged, and the reversal of every   *)
(* step when anything went wrong.                                          *)
(*                                                                         *)
(* Two commands may plan from the same disk; BMAD's installer or an agent  *)
(* may write a skill meanwhile (MaxEdits times); a command or the script   *)
(* may be killed between any two system calls, and git may fail (MaxFaults *)
(* in all).  A command plans once; a plan reads the disk at one moment.    *)
(* What an entry holds is a set of parts, so that "shows all that the      *)
(* other one shows" is \subseteq.                                          *)
(***************************************************************************)
EXTENDS Naturals, FiniteSets, Sequences, SequencesExt

CONSTANTS Runs,       \* commands that convert
          Aliases,    \* the CLIs' skills roots (.claude/skills, ...)
          Names,      \* names of skills
          Fresh,      \* parts that a writer adds meanwhile
          OutBody,    \* the parts of a catalog skill outside the repository
          AliasNodes, \* per alias: what may stand there at the start,
          EntryNodes, \* per alias: and at an entry of it,
          RootNodes,  \* at .agents/skills,
          RootEntries,\* and at an entry of it
          MaxEdits, MaxFaults

Root == "root"                       \* .agents/skills
ASSUME RootIsApart == Root \notin Aliases
ASSUME NamesApart == {"cli", "self"} \cap Names = {}
ASSUME FiniteLayout == IsFiniteSet(Aliases) /\ IsFiniteSet(Names)

None == [is |-> "none"]
Dir == [is |-> "dir"]
\* "alias": the way to .agents/skills; "abs": the catalog skill, read the same
\* from everywhere; "odd": the catalog skill, by a text that is rewritten when
\* it moves; "root": the namesake in .agents/skills; "lost": nothing; "foreign":
\* a directory elsewhere
Link(t) == [is |-> "link", to |-> t]
\* kept: a nested repository, a special file, tracked content nobody attests
Real(b, kept) == [is |-> "real", body |-> b, kept |-> kept]

\* <<a, "cli">> is the CLI's directory, <<p, "self">> the skills root in it,
\* <<p, n>> an entry of that root's own directory, wherever that directory is.
Slots == (Aliases \X {"cli"}) \cup ((Aliases \cup {Root}) \X (Names \cup {"self"}))

VARIABLES
  disk,    \* [Slots -> nodes]
  index,   \* slots that git tracks (and the installer attests)
  q,       \* .agents/.pjangler-quarantine
  run,     \* the commands
  script,  \* restore.sh: the step it is at, the DONE it has read
  edits, faults

vars == <<disk, index, q, run, script, edits, faults>>

-----------------------------------------------------------------------------
(* What a path shows *)

\* A path through a converted root leads into .agents/skills.
Reached(d, s) == IF s[2] \in Names /\ d[<<s[1], "self">>] = Link("alias") THEN <<Root, s[2]>> ELSE s
ParentThere(d, s) ==
  CASE s[2] = "cli" -> TRUE
    [] s[2] = "self" -> s[1] = Root \/ d[<<s[1], "cli">>] = Dir
    [] OTHER -> d[<<Reached(d, s)[1], "self">>] = Dir
At(d, s) == IF ParentThere(d, s) THEN d[Reached(d, s)] ELSE None
Entries(d, p) == {n \in Names : d[<<p, n>>] # None}

\* Where an entry's links end: at itself, at the catalog, or nowhere.
Out == <<"catalog", "outside">>
EndOf(d, s, node) ==
  CASE node.is = "real" -> {Reached(d, s)}
    [] node.is = "link" /\ node.to \in {"abs", "odd"} -> {Out}
    [] OTHER -> {}
Ends(d, s) == IF At(d, s) = Link("root") THEN EndOf(d, <<Root, s[2]>>, At(d, <<Root, s[2]>>)) ELSE EndOf(d, s, At(d, s))
Shown(d, s) == UNION {IF e = Out THEN OutBody ELSE d[e].body : e \in Ends(d, s)}
Visible(d) == {s \in (Aliases \cup {Root}) \X Names : Reached(d, s) = s /\ Ends(d, s) # {}}

-----------------------------------------------------------------------------
(* The plan *)

AliasState(d, a) ==
  LET e == At(d, <<a, "self">>) IN
  CASE e = None -> "absent"
    [] e = Dir -> "real-directory"
    [] e = Link("alias") -> "alias"
    [] e = Link("lost") -> "dangling"
    [] OTHER -> "foreign-link"

\* Reasons that no counterpart can lift.
StaticallyBlocked(d) ==
  {a \in Aliases : \/ AliasState(d, a) = "foreign-link"
                   \/ /\ AliasState(d, a) = "real-directory"
                      /\ \/ d[<<Root, "self">>].is = "link"
                         \/ \E n \in Entries(d, a) : d[<<a, n>>].is = "real" /\ d[<<a, n>>].kept}

\* Everything that c shows, o shows as well (and a link leads to the same place).
Contained(d, c, o) == IF d[c].is = "link" THEN Ends(d, c) = Ends(d, o) ELSE Shown(d, c) \subseteq Shown(d, o)

\* The entries of one name, in the roots to convert, that show something.
Live(d, active, n) == {s \in active \X {n} : Ends(d, s) # {}}
HoldsAll(d, live, o) == \A s \in live \ {o} : Contained(d, s, o)
Reals(d, live) == {s \in live : d[s].is = "real"}

\* The entry that stays or moves in: the one in .agents/skills, or a copy that
\* holds all of it and of the others; else real content that holds the others.
Replacers(d, live, r) ==
  {o \in Reals(d, live) : d[r].is = "real" /\ ~d[r].kept /\ d[r].body \subseteq d[o].body /\ HoldsAll(d, live, o)}
Arrivals(d, live, reals) ==
  LET Whole(S) == {o \in S : HoldsAll(d, live, o)} IN
  IF Whole(reals) # {} THEN Whole(reals) ELSE IF Whole(live) # {} THEN Whole(live) ELSE IF reals # {} THEN reals ELSE live
Occupant(d, live, r) ==
  CASE d[r] = None -> CHOOSE o \in Arrivals(d, live, Reals(d, live)) : TRUE
    [] d[r] # None /\ ~HoldsAll(d, live, r) /\ Replacers(d, live, r) # {} -> CHOOSE o \in Replacers(d, live, r) : TRUE
    [] OTHER -> r

\* What becomes of them: operations, and the roots that cannot be converted.
Op(k, s) == [kind |-> k, slot |-> s]
Drop(d, s) == Op(IF d[s].is = "link" THEN "drop-link" ELSE "drop-entry", s)
Arrival(d, o, r) ==
  CASE o = r -> {}
    [] o # r /\ d[r] # None -> {Op("replace-subset", o)}
    [] OTHER -> {Op(CASE d[o].is = "real" -> "move-entry" [] d[o] = Link("odd") -> "recreate-link" [] OTHER -> "move-link", o)}
Around(d, live, o, r) ==
  [ops |-> Arrival(d, o, r) \cup {Drop(d, s) : s \in {x \in live \ {o} : Contained(d, x, o)}},
   blocks |-> {s[1] : s \in {x \in live \ {o} : ~Contained(d, x, o)}}]
Decided(d, live, r) ==
  CASE live = {} -> [ops |-> {}, blocks |-> {}]
    [] live # {} /\ d[r] # None /\ Ends(d, r) = {} -> [ops |-> {}, blocks |-> {s[1] : s \in live}]
    [] OTHER -> Around(d, live, Occupant(d, live, r), r)

Convertible(d, blocked) == {a \in Aliases \ blocked : AliasState(d, a) = "real-directory"}
\* A root that has any blocked entry gets no operation, which may block others in turn.
Blocked(d) ==
  LET round[k \in 0..Cardinality(Aliases)] ==
        IF k = 0 THEN StaticallyBlocked(d)
        ELSE LET before == round[k - 1] IN
             before \cup UNION {Decided(d, Live(d, Convertible(d, before), n), <<Root, n>>).blocks : n \in Names}
  IN round[Cardinality(Aliases)]

\* The operations, in their phases: content moves in, duplicates are parked,
\* links follow, emptied roots become links, missing links are made.
Contents(d, conv) ==
  {Op("drop-link", s) : s \in {x \in conv \X Names : d[x] # None /\ Ends(d, x) = {}}}
    \cup UNION {Decided(d, Live(d, conv, n), <<Root, n>>).ops : n \in Names}
Of(ops, kinds) == SetToSeq({o \in ops : o.kind \in kinds})
Made(d, a) ==
  CASE AliasState(d, a) = "absent" ->
         (IF d[<<a, "cli">>] = None THEN <<Op("create-cli-root", <<a, "cli">>)>> ELSE <<>>) \o <<Op("create-alias", <<a, "self">>)>>
    [] AliasState(d, a) = "dangling" -> <<Op("replace-dangling", <<a, "self">>)>>
    [] OTHER -> <<>>
\* Mutant: the emptied roots are replaced before the links leave them.
InOrderAliasFirst(d, conv, ops, free) ==
  (IF conv # {} /\ d[<<Root, "self">>] = None THEN <<Op("create-root", <<Root, "self">>)>> ELSE <<>>)
  \o Of(ops, {"replace-subset", "move-entry"}) \o Of(ops, {"drop-entry"})
  \o SetToSeq({Op("convert-alias", <<a, "self">>) : a \in conv}) \o Of(ops, {"move-link", "recreate-link", "drop-link"})
  \o FlattenSeq([i \in 1..Len(free) |-> Made(d, free[i])])
InOrder(d, conv, ops, free) ==
  (IF conv # {} /\ d[<<Root, "self">>] = None THEN <<Op("create-root", <<Root, "self">>)>> ELSE <<>>)
  \o Of(ops, {"replace-subset", "move-entry"}) \o Of(ops, {"drop-entry"}) \o Of(ops, {"move-link", "recreate-link", "drop-link"})
  \o SetToSeq({Op("convert-alias", <<a, "self">>) : a \in conv}) \o FlattenSeq([i \in 1..Len(free) |-> Made(d, free[i])])
Unblocked(d, blocked) ==
  InOrder(d, Convertible(d, blocked), Contents(d, Convertible(d, blocked)), SetToSeq(Aliases \ blocked))
Planned(d) == Unblocked(d, Blocked(d))

\* The steps: make a directory, make a link, rename; park says what is renamed
\* into the quarantine ("" for a move to its final place).
Mkdir(s) == [do |-> "mkdir", at |-> s]
Symlink(s, t) == [do |-> "link", at |-> s, text |-> t]
Move(s, t) == [do |-> "rename", from |-> s, to |-> t, park |-> "", text |-> ""]
Park(d, s, p) == [do |-> "rename", from |-> s, to |-> <<>>, park |-> p, text |-> IF p = "link" /\ At(d, s).is = "link" THEN At(d, s).to ELSE ""]
Compiled(d, o) ==
  LET s == o.slot  r == <<Root, s[2]>> IN
  CASE o.kind \in {"create-root", "create-cli-root"} -> <<Mkdir(s)>>
    [] o.kind = "create-alias" -> <<Symlink(s, "alias")>>
    [] o.kind = "replace-dangling" -> <<Park(d, s, "link"), Symlink(s, "alias")>>
    [] o.kind = "convert-alias" -> <<Park(d, s, "dir"), Symlink(s, "alias")>>
    [] o.kind = "drop-link" -> <<Park(d, s, "link")>>
    [] o.kind = "drop-entry" -> <<Park(d, s, "entry")>>
    [] o.kind \in {"move-link", "move-entry"} -> <<Move(s, r)>>
    [] o.kind = "recreate-link" -> <<Park(d, s, "link"), Symlink(r, "abs")>>
    [] o.kind = "replace-subset" -> <<Park(d, r, "entry"), Move(s, r)>>
Steps(d, ops) == FlattenSeq([i \in 1..Len(ops) |-> Compiled(d, ops[i])])

\* What the plan takes out of the index, and what it remembers to verify by.
Untracked(d, ops) ==
  {s \in index : \E i \in 1..Len(ops) :
      /\ ops[i].kind \notin {"create-root", "convert-alias"}
      /\ ops[i].slot = s}
Converts(ops) == {ops[i].slot[1] : i \in {j \in 1..Len(ops) : ops[j].kind = "convert-alias"}}
Creates(ops) == {ops[i].slot[1] : i \in {j \in 1..Len(ops) : ops[j].kind \in {"create-alias", "replace-dangling"}}}
Before(d, ops) == IF Converts(ops) = {} THEN <<>> ELSE [s \in Visible(d) |-> Shown(d, s)]

-----------------------------------------------------------------------------
(* One step, forward and back *)

Put(d, s, node) == [d EXCEPT ![Reached(d, s)] = node]
Empty(d, p) == \/ d[<<p, "self">>] = Dir /\ Entries(d, p) = {}
               \/ d[<<p, "self">>] = Link("alias") /\ d[<<Root, "self">>] = Dir /\ Entries(d, Root) = {}
\* The checks that come before a rename into the quarantine.
Looks(d, st) == CASE st.park = "dir" -> Empty(d, st.from[1])
                  [] st.park = "link" -> At(d, st.from) = Link(st.text)
                  [] OTHER -> TRUE
Fits(d, st) ==
  CASE st.do = "rename" -> At(d, st.from) # None /\ (st.park = "" => ParentThere(d, st.to) /\ At(d, st.to) = None)
    [] OTHER -> ParentThere(d, st.at) /\ At(d, st.at) = None
Done(d, st) ==
  CASE st.do = "mkdir" -> Put(d, st.at, Dir)
    [] st.do = "link" -> Put(d, st.at, Link(st.text))
    [] st.do = "rename" /\ st.park = "" -> Put(Put(d, st.from, None), st.to, At(d, st.from))
    [] st.do = "rename" /\ st.park # "" -> Put(d, st.from, None)
Parked(d, st) == IF st.do = "rename" /\ st.park # "" THEN At(d, st.from) ELSE None

\* Where a renamed entry is now: in the quarantine or where it was moved.
There(d, st, item) == IF st.park = "" THEN At(d, st.to) ELSE item
Bare(d, s) == At(d, s) = Dir /\ IF s[2] = "cli" THEN d[<<s[1], "self">>] = None ELSE Entries(d, s[1]) = {}
CanUndo(d, st, item) ==
  CASE st.do = "mkdir" -> Bare(d, st.at)
    [] st.do = "link" -> At(d, st.at) = Link(st.text)
    [] OTHER -> At(d, st.from) = None /\ ParentThere(d, st.from) /\ There(d, st, item) # None
Undone(d, st, item) ==
  CASE st.do = "rename" ->
         Put(IF st.park = "" THEN Put(d, st.to, None) ELSE d, st.from, There(d, st, item))
    [] OTHER -> Put(d, st.at, None)

-----------------------------------------------------------------------------
(* Commands *)

NoQ == [at |-> "none"]
Idle == [pc |-> "idle"]
Off == [on |-> FALSE, stuck |-> FALSE]

\* What may stand below one root: the CLI's directory, the skills root, its entries.
Shapes(selves, entries) ==
  {[cli |-> IF e = None THEN c ELSE Dir, self |-> e, of |-> f] :
     c \in {None, Dir}, e \in selves, f \in [Names -> entries]}
Shaped(selves, entries) == {x \in Shapes(selves, entries) : x.self = Dir \/ \A n \in Names : x.of[n] = None}
Init ==
  /\ \E f \in [Aliases -> UNION {Shaped(AliasNodes[a], EntryNodes[a]) : a \in Aliases}], g \in Shaped(RootNodes, RootEntries) :
       /\ \A a \in Aliases : f[a] \in Shaped(AliasNodes[a], EntryNodes[a])
       /\ disk = [s \in Slots |-> LET x == IF s[1] = Root THEN g ELSE f[s[1]] IN
                 IF s[2] \in Names THEN x.of[s[2]] ELSE x[s[2]]]
  /\ index \in {{}, {s \in Aliases \X Names : disk[s].is = "real" /\ ~disk[s].kept}}
  /\ q = NoQ /\ run = [r \in Runs |-> Idle] /\ script = Off
  /\ edits = 0 /\ faults = 0

Go(r, pc) == run' = [run EXCEPT ![r].pc = pc]
\* Another writer makes the plans of the commands stale.
Staled(r) == [x \in Runs |-> IF x # r /\ run[x].pc # "idle" THEN [run[x] EXCEPT !.calm = FALSE] ELSE run[x]]

\* planSkillRoots: a quarantine blocks every root; a plan without operations ends.
Plan(r) ==
  /\ run[r].pc = "idle" /\ q = NoQ
  /\ \E ops \in {Planned(disk)} \ {<<>>} :
     run' = [run EXCEPT ![r] = [pc |-> "planned", ops |-> ops, before |-> Before(disk, ops),
                                tracked |-> Untracked(disk, ops), calm |-> TRUE]]
  /\ UNCHANGED <<disk, index, q, script, edits, faults>>

\* mkdir of the quarantine, which fails if there is one.
Claim(r) ==
  /\ run[r].pc = "planned"
  /\ IF q = NoQ
     THEN q' = [at |-> "bare", owner |-> r] /\ Go(r, "claimed")
     ELSE UNCHANGED q /\ Go(r, "ended")
  /\ UNCHANGED <<disk, index, script, edits, faults>>

\* The journal, the restore script and the empty log; if they cannot be written, nothing is left.
Write(r) ==
  /\ run[r].pc = "claimed"
  /\ \/ \E steps \in {Steps(disk, run[r].ops)} :
        /\ q' = [at |-> "ready", owner |-> r, steps |-> steps, items |-> [i \in 1..Len(steps) |-> None],
                 done |-> 0, undone |-> {}, mark |-> "", calm |-> run[r].calm, spoilt |-> FALSE, was |-> disk]
        /\ Go(r, "step")
        /\ UNCHANGED faults
     \/ faults < MaxFaults /\ faults' = faults + 1 /\ q' = NoQ /\ Go(r, "ended")
  /\ UNCHANGED <<disk, index, script, edits>>

Due == q.steps[q.done + 1]
Working(r, pc) == run[r].pc = pc /\ q.at = "ready" /\ q.owner = r

\* runStep, first what it checks, then what it does.
Look(r) ==
  /\ Working(r, "step") /\ q.done < Len(q.steps)
  /\ Due.do = "rename" /\ Due.park \in {"dir", "link"}
  /\ Go(r, IF Looks(disk, Due) THEN "looked" ELSE "undo")
  /\ UNCHANGED <<disk, index, q, script, edits, faults>>
Step(r) ==
  /\ \/ Working(r, "step") /\ q.done < Len(q.steps) /\ (Due.do = "rename" => Due.park \in {"", "entry"})
     \/ Working(r, "looked")
  /\ LET st == Due IN
     IF Fits(disk, st)
     THEN /\ disk' = Done(disk, st)
          /\ q' = [q EXCEPT !.items[q.done + 1] = Parked(disk, st)]
          /\ run' = [Staled(r) EXCEPT ![r].pc = "ran"]
     ELSE Go(r, "undo") /\ UNCHANGED <<disk, q>>
  /\ UNCHANGED <<index, script, edits, faults>>
\* The line "done k" of the log.
Log(r) ==
  /\ Working(r, "ran")
  /\ q' = [q EXCEPT !.done = @ + 1] /\ Go(r, "step")
  /\ UNCHANGED <<disk, index, script, edits, faults>>

\* Mutant: a parked entry is not compared with what it held at the plan.
GapOfShells(r, i) ==
  LET st == q.steps[i]  item == q.items[i] IN
  /\ st.do = "rename"
  /\ CASE st.park = "dir" -> item # Dir \/ Entries(disk, st.from[1]) # {}
       [] st.park = "link" -> item # Link(st.text)
       [] OTHER -> FALSE
\* parkedGap: what is parked holds nothing but what was seen at the plan.
Gap(r, i) ==
  LET st == q.steps[i]  item == q.items[i] IN
  /\ st.do = "rename"
  /\ CASE st.park = "dir" -> item # Dir \/ Entries(disk, st.from[1]) # {}
       [] st.park = "link" -> item # Link(st.text)
       [] st.park = "entry" -> \/ st.from \notin DOMAIN run[r].before \/ item.is # "real"
                               \/ ~(item.body \subseteq run[r].before[st.from])
       [] OTHER -> FALSE
\* A parked link is no directory to list: the exception ends the command.
Throws == \E i \in 1..Len(q.steps) : q.steps[i].do = "rename" /\ q.steps[i].park = "dir" /\ q.items[i] # Dir
Verified(r) ==
  /\ \A s \in DOMAIN run[r].before : Ends(disk, s) # {} /\ run[r].before[s] \subseteq Shown(disk, s)
  /\ \A a \in Converts(run[r].ops) \cup Creates(run[r].ops) : disk[<<a, "self">>] = Link("alias")
  /\ \A i \in 1..Len(q.steps) : ~Gap(r, i)
Verify(r) ==
  /\ Working(r, "step") /\ q.done = Len(q.steps)
  /\ Go(r, IF Throws THEN "dead" ELSE IF Verified(r) THEN "verified" ELSE "undo")
  /\ UNCHANGED <<disk, index, q, script, edits, faults>>

\* git rm --cached, which may fail.
Untrack(r) ==
  /\ Working(r, "verified")
  /\ \/ index' = index \ run[r].tracked /\ Go(r, "untracked") /\ UNCHANGED faults
     \/ /\ run[r].tracked # {} /\ faults < MaxFaults
        /\ faults' = faults + 1 /\ Go(r, "undo") /\ UNCHANGED index
  /\ UNCHANGED <<disk, q, script, edits>>
Commit(r) ==
  /\ Working(r, "untracked")
  /\ q' = [q EXCEPT !.mark = "committed"] /\ Go(r, "clean")
  /\ UNCHANGED <<disk, index, script, edits, faults>>

\* A purge takes what is parked, and what a parked directory holds.
Purged(d) ==
  LET gone == {q.steps[i].from[1] : i \in {j \in 1..Len(q.steps) : q.items[j] = Dir}} IN
  [s \in Slots |-> IF s[1] \in gone /\ s[2] \in Names THEN None ELSE d[s]]
Clean(r) ==
  /\ Working(r, "clean")
  /\ disk' = Purged(disk) /\ q' = NoQ /\ Go(r, "ended")
  /\ UNCHANGED <<index, script, edits, faults>>

\* rollback: from the last logged step to the first, then the line "undone k".
ToUndo == q.done - Cardinality(q.undone)
Undo(r) ==
  /\ Working(r, "undo") /\ ToUndo > 0
  /\ LET st == q.steps[ToUndo]  item == q.items[ToUndo] IN
     IF CanUndo(disk, st, item)
     THEN /\ disk' = Undone(disk, st, item)
          /\ q' = [q EXCEPT !.items[ToUndo] = None]
          /\ run' = [Staled(r) EXCEPT ![r].pc = "undid"]
     ELSE Go(r, "stopped") /\ UNCHANGED <<disk, q>>
  /\ UNCHANGED <<index, script, edits, faults>>
LogUndo(r) ==
  /\ Working(r, "undid")
  /\ q' = [q EXCEPT !.undone = @ \cup {ToUndo}] /\ Go(r, "undo")
  /\ UNCHANGED <<disk, index, script, edits, faults>>
RolledBack(r) ==
  /\ Working(r, "undo") /\ ToUndo = 0
  /\ q' = [q EXCEPT !.mark = "rolled-back"] /\ Go(r, "clean")
  /\ UNCHANGED <<disk, index, script, edits, faults>>

Kill(r) ==
  /\ faults < MaxFaults /\ faults' = faults + 1
  /\ run[r].pc \notin {"idle", "ended", "stopped", "dead"}
  /\ Go(r, "dead")
  /\ q' = IF run[r].pc = "undid" THEN [q EXCEPT !.spoilt = TRUE] ELSE q
  /\ UNCHANGED <<disk, index, script, edits>>

-----------------------------------------------------------------------------
(* The operator, who does what describeQuarantine says *)

Left == q.at # "none" /\ run[q.owner].pc \in {"dead", "stopped"} /\ ~script.on
Discard ==
  /\ Left /\ ~(q.at = "ready" /\ q.mark = "")
  /\ disk' = IF q.at = "bare" THEN disk ELSE Purged(disk)
  /\ q' = NoQ
  /\ UNCHANGED <<index, run, script, edits, faults>>
Restore ==
  /\ Left /\ q.at = "ready" /\ q.mark = "" /\ ~script.stuck
  /\ script' = [on |-> TRUE, at |-> Len(q.steps), seen |-> q.done, stuck |-> FALSE]
  /\ UNCHANGED <<disk, index, q, run, edits, faults>>

\* Mutant: the script trusts the log, and leaves the step that ran but was not logged.
ReversesLogged(st, i) ==
  /\ i \notin q.undone
  /\ CASE st.do = "rename" -> i <= script.seen
       [] st.do = "link" -> i <= script.seen /\ At(disk, st.at) = Link(st.text)
       [] OTHER -> i <= script.seen /\ At(disk, st.at) = Dir
\* restore.sh on one step: whether there is something to take back, and whether it fails.
Reverses(st, i) ==
  /\ i \notin q.undone
  /\ CASE st.do = "rename" -> \/ i <= script.seen
                              \/ /\ i = script.seen + 1
                                 /\ There(disk, st, q.items[i]) # None /\ At(disk, st.from) = None
       [] st.do = "link" -> i <= script.seen + 1 /\ At(disk, st.at) = Link(st.text)
       [] OTHER -> i <= script.seen + 1 /\ At(disk, st.at) = Dir
\* Mutant: the step after the last logged one has to be there.
StuckOffByOne(st, i) ==
  \/ Reverses(st, i) /\ ~CanUndo(disk, st, q.items[i])
  \/ i \notin q.undone /\ st.do = "link" /\ i <= script.seen + 1 /\ At(disk, st.at) # Link(st.text)
Stuck(st, i) ==
  \/ Reverses(st, i) /\ ~CanUndo(disk, st, q.items[i])
  \/ i \notin q.undone /\ st.do = "link" /\ i <= script.seen /\ At(disk, st.at) # Link(st.text)
RestoreStep ==
  /\ script.on /\ script.at > 0
  /\ LET i == script.at  st == q.steps[i] IN
     CASE Stuck(st, i) -> script' = [on |-> FALSE, stuck |-> TRUE] /\ UNCHANGED <<disk, q, run>>
       [] ~Stuck(st, i) /\ Reverses(st, i) ->
            /\ disk' = Undone(disk, st, q.items[i])
            /\ q' = [q EXCEPT !.items[i] = None]
            /\ run' = Staled(q.owner)
            /\ script' = [script EXCEPT !.at = i - 1]
       [] OTHER -> script' = [script EXCEPT !.at = i - 1] /\ UNCHANGED <<disk, q, run>>
  /\ UNCHANGED <<index, edits, faults>>
RestoreEnd ==
  /\ script.on /\ script.at = 0
  /\ IF \A i \in 1..Len(q.steps) : q.items[i] = None
     THEN q' = NoQ /\ script' = Off
     ELSE UNCHANGED q /\ script' = [on |-> FALSE, stuck |-> TRUE]
  /\ UNCHANGED <<disk, index, run, edits, faults>>
KillScript ==
  /\ faults < MaxFaults /\ faults' = faults + 1
  /\ script.on /\ script' = Off
  /\ q' = [q EXCEPT !.spoilt = TRUE]
  /\ UNCHANGED <<disk, index, run, edits>>

\* The installer, or an agent, writes a skill; it makes the root if there is none.
Extended(node, f) == IF node = None THEN Real({f}, FALSE) ELSE [node EXCEPT !.body = @ \cup {f}]
Edit ==
  /\ edits < MaxEdits /\ edits' = edits + 1
  /\ \E r \in Runs : run[r].pc \notin {"idle", "ended"}  \* before and after, it is another start
  /\ \E p \in Aliases \cup {Root}, n \in Names, f \in Fresh :
       LET s == <<p, n>> IN
       \/ /\ ParentThere(disk, s) /\ At(disk, s).is \in {"none", "real"}
          /\ disk' = Put(disk, s, Extended(At(disk, s), f))
       \/ /\ p # Root /\ ParentThere(disk, <<p, "self">>) /\ disk[<<p, "self">>] = None /\ disk[s] = None
          /\ disk' = [disk EXCEPT ![<<p, "self">>] = Dir, ![s] = Real({f}, FALSE)]
  /\ run' = [r \in Runs |-> IF run[r].pc = "idle" THEN run[r] ELSE [run[r] EXCEPT !.calm = FALSE]]
  /\ q' = IF q.at = "ready" THEN [q EXCEPT !.calm = FALSE] ELSE q
  /\ UNCHANGED <<index, script, faults>>

Work(r) ==
  \/ Claim(r) \/ Write(r) \/ Look(r) \/ Step(r) \/ Log(r) \/ Verify(r)
  \/ Untrack(r) \/ Commit(r) \/ Clean(r) \/ Undo(r) \/ LogUndo(r) \/ RolledBack(r)
Operator == Discard \/ Restore \/ RestoreStep \/ RestoreEnd
Next == \/ \E r \in Runs : Plan(r) \/ Work(r) \/ Kill(r)
        \/ Operator \/ KillScript \/ Edit

\* A command and the script run on unless they are killed; the operator does in
\* the end what the audit of the next command tells him.  Nobody has to plan.
Fairness == (\A r \in Runs : WF_vars(Work(r))) /\ WF_vars(Operator)
Spec == Init /\ [][Next]_vars /\ Fairness

-----------------------------------------------------------------------------
(* Properties *)

\* What the disk and the quarantine hold of a skill, the catalog's parts while a link leads there.
Held(d, quarantine, n) ==
  LET items == IF quarantine.at = "ready" THEN {quarantine.items[i] : i \in {j \in 1..Len(quarantine.steps) :
                 quarantine.steps[j].do = "rename" /\ quarantine.steps[j].from[2] = n}} ELSE {}
      parkedDirs == IF quarantine.at = "ready" THEN {quarantine.steps[i].from[1] : i \in {j \in 1..Len(quarantine.steps) :
                 quarantine.items[j] = Dir}} ELSE {}
      nodes == items \cup {d[<<p, n>>] : p \in {x \in Aliases \cup {Root} : d[<<x, "self">>] = Dir \/ x \in parkedDirs}}
  IN UNION {CASE e.is = "real" -> e.body
              [] e.is = "link" /\ e.to \in {"abs", "odd"} -> OutBody
              [] OTHER -> {} : e \in nodes}

\* No step of a conversion, of its reversal, of the restore script or of the
\* operator's clearing away loses a part of a skill, whoever wrote it and when.
NothingLost == [][\A n \in Names : Held(disk, q, n) \subseteq Held(disk', q', n)]_vars

\* When the quarantine of a conversion that did not commit goes, by rollback or
\* by the script, the disk is as it was before the first step, unless somebody
\* else wrote since the plan.
AsBefore == [][(q.at = "ready" /\ q' = NoQ /\ q.mark # "committed" /\ q.calm) => disk' = q.was]_vars

\* A plan that nothing overtook is carried out: its steps succeed and what they
\* give passes the verification, so a rollback has a cause outside the plan.
PlanIsRight == [][\A r \in Runs : (run'[r].pc \in {"undo", "dead"} /\ run[r].pc # run'[r].pc /\ run'[r].calm /\ run[r].pc # "undid")
                                  => faults' > faults]_vars

\* What an interrupted conversion leaves is cleared by doing what the audit
\* says, unless another writer has been there or the reversal itself was cut short.
Recovers == q.at # "none" ~> (q.at = "none" \/ (q.at = "ready" /\ (~q.calm \/ q.spoilt)))

\* "restore the repository exactly with: sh restore.sh" (skill-roots.ts:587).
ScriptNeverStuck == script.stuck => ~q.calm

=============================================================================

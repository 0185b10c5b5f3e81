------------------------------ MODULE MiseToml ------------------------------
(* How pjangler edits a repository's mise.toml (parity/mise-toml.ts and the part
   of parity/rules.ts that says what each owner claims): the hooks, tasks, watches
   and PATH entries it manages, between those of the operator, in the layouts TOML
   has for them. Module Parity knows only whether that went well.

   A command is the sequence of the simple commands in it: one, or several that
   the operator or a join has put together. Of the simple ones,
     link, op        are the two managed ones,
     linkold         runs the script behind the first in another way,
     writer          is a retired writer of skills,
     inject          materializes .env; stage and move do so together,
     a task's name   runs that task,
   and all others are the operator's. *)
EXTENDS Integers, Sequences, SequencesExt, FiniteSets

CONSTANTS Own        \* simple commands that only the operator knows

Kinds  == {"enter", "leave", "cd"}
Owners == {"link", "op", "out"}     \* out: op in a repository that keeps its .env

Tasks  == {"link-agentfiles", "link:agentfiles", "skills-sync", "skills:sync",
           "hooks-sync", "hooks:sync"}
Simple == {"link", "op", "linkold", "writer", "inject", "stage", "move"} \cup Tasks \cup Own

\* A definition of a hook. "other" is one that holds no command pjangler reads.
Defs == [key : {"run", "script", "scripts", "shell", "task", "other"},
         commands : Seq(Seq(Simple))]

\* A mise.toml. form: how the hooks of a kind are written, as tables, as keys of
\* [hooks], or in a way nobody edits; stray: what an earlier rewrite left of an
\* `op inject` outside the hooks; listed: env._.path is a list that can be added to.
Files == [legible : {"yes", "orphan", "no"}, stray : {"none", "line", "inline"},
          hooks : [Kinds -> Seq(Defs)], form : [Kinds -> {"tables", "keys", "odd"}],
          tasks : [Tasks -> {"none", "managed", "linking", "own", "odd"}],
          watches : Seq({"managed", "linking", "old", "skills", "own"}), watchTables : BOOLEAN,
          listed : BOOLEAN, path : Seq(STRING)]

---------------------------------------------------------------------------
(* What each owner claims *)

Mentions(command, S) == Range(command) \cap S # {}

IsRetired(command) == Len(command) = 1 /\ command[1] \in {"writer", "skills-sync", "skills:sync"}
IsLink(command)    == Len(command) = 1 /\ command[1] \in {"link", "linkold"}

\* opInjectOutputTarget: the first mv behind the injection decides, then its redirect.
WritesEnv(command) ==
  LET start == SelectInSeq(command, LAMBDA c : c \in {"inject", "stage"})
      tail  == SubSeq(command, start, Len(command)) IN
  \/ command = <<"op">>
  \/ start # 0 /\ Mentions(tail, {"move", "inject"})

Owns(owner, command, kind) ==
  IF owner # "link" THEN WritesEnv(command)
  ELSE IsRetired(command) \/ (kind \in {"enter", "leave"} /\ IsLink(command))
OwnsTask(owner, task) == owner = "link" /\ task \in {"skills-sync", "skills:sync"}

\* What an owner sees in a command that it does not split.
Mixed(owner, command, kind) ==
  /\ owner = "link" /\ ~Owns(owner, command, kind)
  /\ Mentions(command, {"writer", "skills-sync", "skills:sync"}
                        \cup (IF kind = "cd" THEN {} ELSE {"link", "linkold"}))
Blocks(owner, command) == owner = "link" /\ Mentions(command, {"link", "linkold"}) /\ ~IsLink(command)

Managed(owner) == [key |-> "run", commands |-> <<<<owner>>>>]

---------------------------------------------------------------------------
(* decideHookDefs *)

Spawned(def) == def.key \in {"run", "script", "scripts"}

\* normalizeHookDef: one `run`; the elements of `scripts` are joined.
Normalized(def) ==
  IF Spawned(def) THEN [key |-> "run", commands |-> <<FlattenSeq(def.commands)>>] ELSE def

Decision(owner, def, kind) ==
  LET owned == {i \in DOMAIN def.commands : Owns(owner, def.commands[i], kind)} IN
  IF def.key = "task" THEN IF OwnsTask(owner, def.commands[1][1]) THEN "drop" ELSE "keep"
  ELSE IF owned = {} THEN "keep"
  ELSE IF owned = DOMAIN def.commands THEN "drop" ELSE "reduce"

Reduced(owner, def, kind) ==
  Normalized([def EXCEPT !.commands = SelectSeq(@, LAMBDA c : ~Owns(owner, c, kind))])

\* Whether the managed hook goes in, and before which definition; where that one is
\* dropped, into its place.
Installs(owner, hooks) ==
  /\ owner # "out"
  /\ \A i \in DOMAIN hooks["enter"] :
       Decision(owner, hooks["enter"][i], "enter") = "keep"
         => \A j \in DOMAIN hooks["enter"][i].commands : ~Blocks(owner, hooks["enter"][i].commands[j])
Place(owner, hooks) ==
  LET first == SelectInSeq(hooks["enter"], LAMBDA d : Decision(owner, d, "enter") # "keep") IN
  IF first = 0 THEN 1 ELSE first

\* The hooks of a kind afterwards; norm says whether a definition that stays is normalized.
Decided(owner, hooks, kind, norm) ==
  LET managed == IF kind = "enter" /\ Installs(owner, hooks) THEN <<Managed(owner)>> ELSE <<>>
      After(i) == LET def == hooks[kind][i] decision == Decision(owner, def, kind) IN
        (IF i = Place(owner, hooks) THEN managed ELSE <<>>)
        \o (IF decision = "drop" THEN <<>>
            ELSE <<IF decision # "keep" THEN Reduced(owner, def, kind)
                   ELSE IF norm THEN Normalized(def) ELSE def>>) IN
  IF hooks[kind] = <<>> THEN managed ELSE FlattenSeq([i \in DOMAIN hooks[kind] |-> After(i)])

---------------------------------------------------------------------------
(* rewriteMiseHooks *)

Refused == [refused |-> TRUE]

Touched(owner, hooks, kind) ==
  \/ \E i \in DOMAIN hooks[kind] : Decision(owner, hooks[kind][i], kind) # "keep"
  \/ /\ kind = "enter" /\ Installs(owner, hooks)
     /\ \A i \in DOMAIN hooks[kind] : Decision(owner, hooks[kind][i], kind) # "drop"
                                      \/ i # Place(owner, hooks)

\* Keys are made tables where a change touches them, and then enter and leave as well.
Converted(owner, file) ==
  LET keys == {k \in Kinds : file.form[k] = "keys" /\ file.hooks[k] # <<>>}
      must == {k \in keys : \/ Touched(owner, file.hooks, k)
                            \/ owner = "link" /\ \E d \in Range(file.hooks[k]) : d.key \in {"script", "scripts"}}
      new  == file.hooks["enter"] = <<>> /\ Installs(owner, file.hooks) IN
  IF must # {} \/ (new /\ keys # {}) THEN must \cup (keys \cap {"enter", "leave"}) ELSE {}

Rewritten(owner, file) ==
  LET odd(k) == file.form[k] = "odd" /\ file.hooks[k] # <<>>
      converted == Converted(owner, file)
      new(k) == IF k \in converted THEN Decided(owner, file.hooks, k, TRUE)
                ELSE IF odd(k) \/ (file.form[k] = "keys" /\ file.hooks[k] # <<>>) THEN file.hooks[k]
                ELSE Decided(owner, file.hooks, k, owner = "link") IN
  IF \E k \in Kinds : odd(k) /\ Touched(owner, file.hooks, k) THEN Refused
  ELSE [file EXCEPT !.hooks = [k \in Kinds |-> new(k)],
                    !.form  = [k \in Kinds |-> IF k \in converted \/ file.hooks[k] = <<>>
                                               THEN "tables" ELSE @[k]]]

---------------------------------------------------------------------------
(* The tables of mise.config-root *)

Renamed(name) ==
  CASE name = "link-agentfiles" -> "link:agentfiles"
    [] name = "skills-sync" -> "skills:sync"
    [] name = "hooks-sync" -> "hooks:sync"
    [] OTHER -> name
RenamedAll(def) == [def EXCEPT !.commands = [i \in DOMAIN @ |->
                                              [j \in DOMAIN @[i] |-> Renamed(@[i][j])]]]

\* renameRetiredMiseTasks: a header, and `task` where it begins a line; an
\* invocation wherever it is. Two tables of one name make no TOML.
RenamedTasks(file, everywhere) ==
  LET old(n) == {o \in Tasks \ {n} : Renamed(o) = n}
      goes(o) == file.tasks[o] # "none" /\ Renamed(o) # o /\ (everywhere \/ file.tasks[o] # "odd")
      OnLine(kind, def) == IF def.key = "task" /\ ~everywhere /\ file.form[kind] # "tables" THEN def
                           ELSE RenamedAll(def) IN
  IF \E n \in Tasks : file.tasks[n] # "none" /\ \E o \in old(n) : goes(o) THEN Refused
  ELSE [file EXCEPT
         !.tasks = [n \in Tasks |-> IF goes(n) THEN "none"
                                    ELSE IF \E o \in old(n) : goes(o)
                                         THEN file.tasks[CHOOSE o \in old(n) : goes(o)] ELSE @[n]],
         !.hooks = [k \in Kinds |-> [i \in DOMAIN @[k] |-> OnLine(k, @[k][i])]],
         !.watches = [i \in DOMAIN @ |-> IF @[i] = "old" THEN "managed" ELSE @[i]]]

RetiredTasks == {"skills-sync", "skills:sync", "link-agentfiles"}
LinkTask == "link:agentfiles"

\* managedWatchPlan: the first that runs the managed task becomes the managed watch;
\* its copies and the watches that write skills go.
Watches(ws) ==
  LET first == SelectInSeq(ws, LAMBDA w : w \in {"managed", "linking"})
      After(i) == IF i = first THEN <<"managed">>
                  ELSE IF ws[i] \in {"managed", "skills"} THEN <<>> ELSE <<ws[i]>> IN
  FlattenSeq([i \in DOMAIN ws |-> After(i)]) \o (IF first = 0 THEN <<"managed">> ELSE <<>>)

Reconciled(file) ==
  IF \/ \E n \in RetiredTasks \cup {LinkTask} : file.tasks[n] = "odd"
     \/ file.tasks[LinkTask] = "own"
     \/ ~file.watchTables /\ file.watches # <<>>
  THEN Refused
  ELSE [file EXCEPT !.tasks = [n \in Tasks |-> IF n = LinkTask THEN "managed"
                                               ELSE IF n \in RetiredTasks THEN "none" ELSE @[n]],
                    !.watches = Watches(@)]

\* upsertMisePathText
Required == <<".mise/scripts", "agents/hermes/pm">>
WithPath(file) ==
  IF ~file.listed THEN Refused
  ELSE [file EXCEPT !.path = @ \o SelectSeq(Required, LAMBDA e : e \notin Range(file.path))]

---------------------------------------------------------------------------
(* One pass, what it is to mean, and the guard *)

Then(file, Do(_)) == IF file = Refused THEN Refused ELSE Do(file)

Pass(owner, file) ==
  LET hooks(f) == Rewritten(owner, f) IN
  IF owner = "link"
  THEN Then(Then(Then(RenamedTasks(file, FALSE), hooks), WithPath), Reconciled)
  ELSE hooks([file EXCEPT !.stray = IF @ = "line" THEN "none" ELSE @])

\* miseModel: the definitions normalized, the watches in any order, layout forgotten.
Meaning(file) ==
  [hooks   |-> [k \in Kinds |-> [i \in DOMAIN file.hooks[k] |-> Normalized(file.hooks[k][i])]],
   tasks   |-> file.tasks, path |-> file.path, stray |-> file.stray,
   watches |-> [w \in Range(file.watches) |-> Cardinality({i \in DOMAIN file.watches : file.watches[i] = w})]]

\* expectedLinkModel and expectedOpModel, of a file that no pass has refused.
Expected(owner, file) ==
  LET base == IF owner = "link" THEN RenamedTasks(file, TRUE) ELSE [file EXCEPT !.stray = "none"]
      decided == [base EXCEPT !.hooks = [k \in Kinds |-> Decided(owner, base.hooks, k, TRUE)]] IN
  IF base = Refused THEN Refused
  ELSE Meaning(IF owner = "link" THEN Reconciled(WithPath(decided)) ELSE decided)

\* settleMiseRewrite: passes until nothing changes, at most two that change something;
\* then the file must mean what was intended.
Settled(owner, original) ==
  LET base == [original EXCEPT !.legible = "yes"]
      Again(before, file) == IF file \in {Refused, before} THEN file ELSE Pass(owner, file)
      one   == Pass(owner, base)
      two   == Again(base, one)
      three == Again(one, two) IN
  IF original.legible = "no" \/ three = Refused \/ three # two THEN Refused
  ELSE IF Meaning(three) = Expected(owner, base) THEN three ELSE Refused

\* What the audit says of hooks and names beyond that a rewrite would change something:
\* managedLinkHookIssues, legacyHookScriptIssues, retiredTaskNameIssues.
Complaints(file) ==
  LET enter == file.hooks["enter"]
      Runs(kind, Test(_)) == \E d \in Range(file.hooks[kind]) : \E c \in Range(d.commands) : Test(c)
      count == Cardinality({i \in DOMAIN enter : Normalized(enter[i]) = Managed("link")})
      manual == Runs("enter", LAMBDA c : Mixed("link", c, "enter") /\ Mentions(c, {"link", "linkold"})) IN
  {x \in {"hook", "spelling", "name"} :
     \/ x = "hook" /\ \/ Runs("enter", LAMBDA c : c = <<"linkold">>)
                       \/ Runs("leave", LAMBDA c : c = <<"linkold">>)
                       \/ count > 1 \/ (count = 0 /\ ~manual)
     \/ x = "spelling" /\ \E k \in Kinds : file.form[k] # "odd" /\
          \E d \in Range(file.hooks[k]) : d.key \in {"script", "scripts"}
     \/ x = "name" /\ \/ {n \in Tasks : Renamed(n) # n /\ file.tasks[n] \notin {"none", "odd"}} # {}
                       \/ \E k \in Kinds : file.form[k] = "tables" /\
                            \E d \in Range(file.hooks[k]) : d.key = "task" /\ RenamedAll(d) # d}

---------------------------------------------------------------------------
(* What is promised of r, what an owner's rewrite makes of a file *)

\* "a compound command is never claimed whole": every command that the owner does not
\* claim is there afterwards, in its order, with all that is in it.
NeverSplit(owner, file, r) ==
  LET rest(f, k) == SelectSeq(FlattenSeq([i \in DOMAIN f.hooks[k] |-> f.hooks[k][i].commands]),
                              LAMBDA c : ~Owns(owner, c, k))
      name(c) == IF owner = "link" THEN Renamed(c) ELSE c
      flat(s) == FlattenSeq(s) IN
  r # Refused => \A k \in Kinds :
    flat(rest(r, k)) = [i \in DOMAIN flat(rest(file, k)) |-> name(flat(rest(file, k))[i])]

\* What only the operator knows stays: in hooks, unless someone has put it into one
\* command with what writes .env, and in tasks, watches and PATH.
HandsKept(owner, file, r) ==
  LET all(f, k) == FlattenSeq([i \in DOMAIN f.hooks[k] |-> f.hooks[k][i].commands])
      hands(f, k) == SelectSeq(FlattenSeq(all(f, k)), LAMBDA c : c \in Own)
      own(ws) == SelectSeq(ws, LAMBDA w : w = "own") IN
  r # Refused =>
    /\ \A k \in Kinds : \/ hands(r, k) = hands(file, k)
                        \/ owner # "link" /\ \E c \in Range(all(file, k)) : WritesEnv(c) /\ Mentions(c, Own)
    /\ \A n \in Tasks \ (RetiredTasks \cup {LinkTask}) :
         file.tasks[n] = "own" => r.tasks[IF owner = "link" THEN Renamed(n) ELSE n] = "own"
    /\ own(r.watches) = own(file.watches)
    /\ SubSeq(r.path, 1, Len(file.path)) = file.path

\* The managed hook runs once on enter, unless a command of the operator's does its job;
\* nothing else of the owner's is left anywhere.
InstalledOnce(owner, file, r) ==
  LET at == {i \in DOMAIN r.hooks["enter"] : r.hooks["enter"][i] = Managed(owner)}
      blocked == \E d \in Range(r.hooks["enter"]) : \E c \in Range(d.commands) : Blocks(owner, c) IN
  r # Refused =>
    /\ Cardinality(at) = (IF owner = "out" \/ blocked THEN 0 ELSE 1)
    /\ \A k \in Kinds : \A i \in DOMAIN r.hooks[k] :
         \/ k = "enter" /\ i \in at
         \/ \A c \in Range(r.hooks[k][i].commands) : ~Owns(owner, c, k)
    /\ owner = "link" => /\ Range(Required) \subseteq Range(r.path)
                         /\ r.tasks[LinkTask] = "managed" /\ "managed" \in Range(r.watches)
                         /\ Complaints(r) = {}
    /\ owner # "link" => r.stray = "none"

\* "a second run finds nothing to do", nor does it refuse what the first has written.
SecondRunRests(owner, r) == r # Refused => Settled(owner, r) = r

\* The two owners of enter do not undo each other, whichever comes first; unless one hook
\* writes .env by what only its join does, or the first leaves it joined with more.
OwnersAgree(file) ==
  \A first \in {"link", "op"} :
    LET f(x) == Settled(first, x)
        s(x) == Settled(IF first = "link" THEN "op" ELSE "link", x)
        both == Then(Then(file, f), s)
        joined(d) ==
          /\ WritesEnv(FlattenSeq(d.commands))
          /\ IF first = "op" THEN \A c \in Range(d.commands) : ~WritesEnv(c)
             ELSE \E c \in Range(d.commands) : ~WritesEnv(c) \/ Blocks("link", c) IN
    both # Refused => \/ Settled(first, both) = both
                      \/ \E k \in Kinds : \E d \in Range(file.hooks[k]) : joined(d)
=============================================================================

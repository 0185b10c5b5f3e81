---------------------------- MODULE CrankSwitch ----------------------------
(* The crank switches of pjangler (crank/index.ts, controller.ts, cli.ts): *)
(* hashes zcrank:tab:<spelling>, pane overrides zcrank:pane:<spelling>:<id> *)
(* and logs zcrank:log:<spelling> in Redis, which `pj crank` and its TUI    *)
(* write one redis-cli call at a time, while the beat engine reads them,    *)
(* logs its beats, and tabs are renamed.                                    *)
EXTENDS Naturals, Sequences, FiniteSets, SequencesExt, CrankSchedule

CONSTANTS
  Keys,      \* spellings: tab names and what stands behind zcrank:tab:
  Canon,     \* Canon[k]: lower case, letters and digits only; "" if none
  Sides,     \* Sides[k]: the canons of the parts of k around a colon
  Akin,      \* pairs of canons of which one is a prefix of the other
  Tabs,      \* the live tabs of the zellij session
  Projects,  \* projects, by identity: their main worktree
  NameOf,    \* NameOf[p]: the display name of a project
  Handles,   \* Handles[p]: the canons its agents' handles lead to
  Callers,   \* running commands: `pj crank enable` and the like, or a TUI
  Tui,       \* the callers that are a TUI, which remembers who owns a tab
  Picks,     \* the intervals an operator may pick
  Global,    \* zcrank:config interval
  NoOne, Closed, NoTab, NoMemo, NoJob,
  Works,     \* Works[c]: the projects a caller may stand in
  LogCap,    \* how many rows a log keeps
  Legacy,    \* bound: what may be in Redis at first: switches without a root, overrides, rows
  Arranged,  \* bound: what the tabs may be called at first, and who is in them
  MaxCalls,  \* bound: commands
  MaxEvents  \* bound: beats, overrides, changes of tabs and killed commands

VARIABLES
  hash,      \* hash[k]: the fields of zcrank:tab:k
  pane,      \* pane[k]: the override of the one pane, under k
  log,       \* log[k]: the rows in zcrank:log:k, numbered as they came
  name,      \* name[t]: what the live tab is called
  top,       \* top[t]: the projects with the most panes in the tab
  memo,      \* what the TUI remembers of the tabs' owners
  job,       \* job[c]: the command c is running
  todo,      \* todo[c]: the calls of redis-cli it has yet to make
  held,      \* held[c]: what it has read for the next of them
  raced,     \* auxiliary: rows, and pane overrides, that came between a read and the write it is for
  trimmed,   \* auxiliary: rows that a log had no room for
  rows,      \* auxiliary: the rows so far, of beats and of commands
  used       \* auxiliary: how much of each bound was used

vars == <<hash, pane, log, name, top, memo, job, todo, held, raced, trimmed, rows, used>>
store == <<hash, pane, log>>
tabs == <<name, top>>
running == <<job, todo, held>>

Switch == {"none", "on", "off"}
NoHash == [on |-> "none", root |-> NoOne, interval |-> None]
Hash == [on : Switch, root : Projects \cup {NoOne}, interval : Picks \cup {None}]
\* A call of redis-cli or, between the first five, of the code around it.
Request == [do : {"rows", "replace", "pane", "move", "drop", "log"}, key : Keys, val : Keys]
             \cup [do : {"on"}, key : Keys, val : {"on", "off"}]
             \cup [do : {"root"}, key : Keys, val : Projects]
             \cup [do : {"interval"}, key : Keys, val : Picks \cup {None}]
Intervals == {300, 3600, 21600, 86400}   \* ZCRANK_INTERVALS
\* Auxiliary in a job: alone, nothing has changed what it read; owner, the project that the
\* tab was found to belong to; took, the key that it writes was another project's.
Job == [op : {"enable", "disable", "interval"}, project : Projects, tab : Tabs \cup {NoTab},
        pick : Picks \cup {None}, key : Keys, alone : BOOLEAN,
        owner : Projects \cup {NoOne}, took : BOOLEAN]

ASSUME CrankAssumption ==
  /\ IsFiniteSet(Keys) /\ IsFiniteSet(Projects) /\ Picks \subseteq Intervals /\ Global \in Nat
  /\ LogCap \in Nat \ {0} /\ MaxEvents \in Nat
  /\ \A p \in Projects : NameOf[p] \in Keys
  /\ NoOne \notin Projects \cup Callers /\ Closed \notin Keys /\ NoTab \notin Tabs /\ NoJob \notin Job
  /\ \A old \in Legacy :
       /\ old.on \in [Keys -> Switch] /\ old.pane \in [Keys -> Switch]
       /\ old.log \in [Keys -> SUBSET Nat] /\ \A k \in Keys : Cardinality(old.log[k]) <= LogCap
       /\ \E n \in 0..(LogCap * Cardinality(Keys)) : UNION {old.log[k] : k \in Keys} = 1..n
  /\ \A a \in Arranged : a[1] \in [Tabs -> Keys \cup {Closed}] /\ a[2] \in [Tabs -> SUBSET Projects]

Stored == {k \in Keys : hash[k] # NoHash}
Live == {t \in Tabs : name[t] # Closed}
Claimed == {hash[k].root : k \in Keys} \ {NoOne}

CandSeq(p) == <<Canon[NameOf[p]]>> \o Handles[p]
Cands(p) == Range(CandSeq(p)) \ {""}

\* withTabOwners(): a strict plurality, or the only one of the tied that a key claims.
OwnerOf(t, claimed) ==
  LET best == IF Cardinality(top[t]) = 1 THEN top[t] ELSE top[t] \cap claimed
  IN  IF Cardinality(best) = 1 THEN CHOOSE p \in best : TRUE ELSE NoOne

\* keysNamingTab(): the key, its other spellings, and what is rooted in the owner.
KeysNaming(k, owner) ==
  {s \in Stored : \/ s = k
                  \/ Canon[k] # "" /\ Canon[s] = Canon[k]
                  \/ owner # NoOne /\ hash[s].root = owner}

\* snapshotCrank(), and the engine: on when every key that names the tab is on.
On(k, owner) == LET ks == KeysNaming(k, owner)
                IN  ks # {} /\ \A s \in ks : hash[s].on = "on"
IntervalOf(k, owner) == Effective({hash[s].interval : s \in KeysNaming(k, owner)}, Global)

----------------------------------------------------------------------------
(* Resolution of a project onto a tab. The order of KEYS and of list-tabs is *)
(* not fixed, so "the first" is any: each operator returns the set of        *)
(* possible answers.                                                         *)

\* keyForLiveTab()
KeyFor(t) ==
  LET alike == {s \in Stored : Canon[s] # "" /\ Canon[s] = Canon[name[t]]}
  IN  IF name[t] \in Stored \/ alike = {} THEN {name[t]} ELSE alike

\* resolveByCwd(): the panes of the tabs decide; a tab with the name goes first.
ByCwd(p, owner) ==
  LET owned == {t \in Live : owner[t] = p}
      named == {t \in owned : Canon[name[t]] \in Cands(p)}
      rooted == {s \in Stored : hash[s].root = p}
      keys(t) == IF KeyFor(t) \cap Stored = {} /\ rooted # {} THEN rooted ELSE KeyFor(t)
  IN  UNION {{[key |-> k, tab |-> t, owner |-> p] : k \in keys(t)} :
               t \in IF named # {} THEN named ELSE owned}

\* The matches of the first candidate that has one.
FirstHit(p, Hits(_)) ==
  LET cs == CandSeq(p)
      hit == {i \in 1..Len(cs) : cs[i] # "" /\ Hits(cs[i]) # {}}
  IN  IF hit = {} THEN {}
      ELSE Hits(cs[CHOOSE i \in hit : \A j \in hit : i <= j])

\* resolveByName(): a whole name, a side of a colon, a stored key, a prefix, itself.
ByName(p, owner) ==
  LET whole == FirstHit(p, LAMBDA c : {t \in Live : Canon[name[t]] = c})
      side == FirstHit(p, LAMBDA c : {t \in Live : c \in Sides[name[t]]})
      kept == FirstHit(p, LAMBDA c : {s \in Stored : Canon[s] = c})
      fuzzy == FirstHit(p, LAMBDA c : {t \in Live : /\ Canon[name[t]] # ""
                                                    /\ <<c, Canon[name[t]]>> \in Akin})
      at(ts) == UNION {{[key |-> k, tab |-> t, owner |-> owner[t]] : k \in KeyFor(t)} : t \in ts}
      off(ks) == {[key |-> k, tab |-> NoTab, owner |-> NoOne] : k \in ks}
  IN  IF whole # {} THEN at(whole)
      ELSE IF side # {} THEN at(side)
      ELSE IF kept # {} THEN off(kept)
      ELSE IF fuzzy # {} THEN at(fuzzy)
      ELSE off({NameOf[p]})

\* resolveTabForProject()
Resolve(p, owner) == IF ByCwd(p, owner) # {} THEN ByCwd(p, owner) ELSE ByName(p, owner)

\* planRenameMigration(): the keys that enabling p on tab t merges into the tab's name.
OldKeys(p, t) ==
  LET wanted == (Cands(p) \cup {Canon[name[t]]}) \ {""}
      others == {Canon[name[u]] : u \in Live} \ {Canon[name[t]]}
  IN  {k \in Stored \ {name[t]} : \/ hash[k].root = p
                                  \/ Canon[k] \in wanted \ others}

----------------------------------------------------------------------------
(* What the commands send to Redis, call by call. *)

Do(what, k, v) == [do |-> what, key |-> k, val |-> v]
Calls(what, ks, v) == [i \in 1..Cardinality(ks) |-> Do(what, SetToSeq(ks)[i], v)]
Chosen(what, k, i) == IF i = None THEN <<>> ELSE <<Do(what, k, i)>>
\* pushLog(), n times.
Notes(k, n) == [m \in 1..n |-> Do("log", k, k)]

\* Faulty: the old key is deleted before its rows have been read.
MergeTooLate(old, target) == <<Do("pane", old, target), Do("move", target, old), Do("drop", old, target),
                               Do("rows", old, target), Do("replace", target, old)>>

\* applyRenameMigration() of one old key.
Merge(old, target) == <<Do("rows", old, target), Do("replace", target, old),
                        Do("pane", old, target), Do("move", target, old), Do("drop", old, target)>>

\* applyRenameMigration(): one old key after the other.
Merges(olds, target) ==
  [n \in 1..(5 * Len(olds)) |-> Merge(olds[((n - 1) \div 5) + 1], target)[((n - 1) % 5) + 1]]

\* enableCrank(): with a live tab everything moves under its name, without one the
\* other spellings are switched on as well. The log tells of the interval, the switch
\* and each key that moved.
EnableCalls(p, r, i) ==
  LET live == r.tab # NoTab
      key == IF live THEN name[r.tab] ELSE r.key
      old == IF live THEN SetToSeq(OldKeys(p, r.tab)) ELSE <<>>
      carry == IF i # None \/ hash[key].interval # None THEN None
               ELSE Longest({hash[old[n]].interval : n \in DOMAIN old})
      siblings == IF live THEN {} ELSE KeysNaming(key, r.owner) \ {key}
  IN  <<Do("on", key, "on"), Do("root", key, p)>>
        \o Chosen("interval", key, i)
        \o Chosen("interval", key, carry)
        \o Merges(old, key)
        \o Calls("on", siblings, "on") \o Calls("root", siblings, p)
        \o (IF i = None THEN <<>> ELSE Calls("interval", siblings, None))
        \o Notes(key, (IF i = None THEN 1 ELSE 2) + Len(old))

\* disableCrank()
DisableCalls(p, r, i) == <<Do("on", r.key, "off"), Do("root", r.key, p)>> \o Notes(r.key, 1)

\* Faulty: only written under the resolved key.
IntervalCallsAlone(p, r, i) == <<Do("interval", r.key, i), Do("root", r.key, p)>> \o Notes(r.key, 1)

\* setCrankInterval(): cleared under every other key first.
IntervalCalls(p, r, i) ==
  Calls("interval", KeysNaming(r.key, r.owner) \ {r.key}, None)
    \o <<Do("interval", r.key, i), Do("root", r.key, p)>> \o Notes(r.key, 1)

CallsOf(op, p, r, i) ==
  CASE op = "enable" -> EnableCalls(p, r, i)
    [] op = "disable" -> DisableCalls(p, r, i)
    [] op = "interval" -> IntervalCalls(p, r, i)

----------------------------------------------------------------------------
NoneHeld == [of |-> {}, rows |-> {}, over |-> {}, val |-> "none"]

\* mergeLogRows() and LTRIM: the newest rows, as many as a log keeps.
Newest(S) == {b \in S : Cardinality({x \in S : x > b}) < LogCap}

\* RPUSH and LTRIM of a row.
Push(k) ==
  LET S == log[k] \cup {rows + 1}
  IN  /\ rows' = rows + 1
      /\ log' = [log EXCEPT ![k] = Newest(S)]
      /\ trimmed' = trimmed \cup (S \ Newest(S))

\* Another caller has read the overrides that a change of the pane under k goes past.
PastReading(k, self) ==
  \E c \in Callers \ {self} :
    /\ todo[c] # <<>>
    /\ LET call == Head(todo[c])
       IN  \/ call.do = "move" /\ k \in {call.key, call.val}
           \/ call.do = "drop" /\ k = call.key /\ held[c].val # "none"

\* Other callers that merge into k, and have yet to delete what they merge. Two
\* commands that disagree on what the tab is called can delete each other's target.
MergingInto(k, self) ==
  {c \in Callers \ {self} : \E n \in DOMAIN todo[c] : todo[c][n].do = "drop" /\ todo[c][n].val = k}

TypeOK ==
  /\ hash \in [Keys -> Hash]
  /\ pane \in [Keys -> Switch]
  /\ log \in [Keys -> SUBSET (1..rows)]
  /\ name \in [Tabs -> Keys \cup {Closed}]
  /\ top \in [Tabs -> SUBSET Projects]
  /\ rows \in Nat
  /\ memo = NoMemo \/ memo \in [claimed : SUBSET Projects, owner : [Tabs -> Projects \cup {NoOne}]]
  /\ job \in [Callers -> Job \cup {NoJob}]
  /\ todo \in [Callers -> Seq(Request)]
  /\ held \in [Callers -> [of : SUBSET Keys, rows : SUBSET (1..rows), over : SUBSET (1..rows),
                           val : Switch]]
  /\ raced \in [rows : SUBSET (1..rows), pane : BOOLEAN]
  /\ trimmed \subseteq 1..rows

\* Keys of before pjangler wrote a root, tabs called and held in any way.
Init ==
  /\ \E old \in Legacy :
       /\ hash = [k \in Keys |-> [NoHash EXCEPT !.on = old.on[k]]]
       /\ pane = old.pane
       /\ log = old.log
       /\ rows = Cardinality(UNION {old.log[k] : k \in Keys})
  /\ \E a \in Arranged : name = a[1] /\ top = a[2]
  /\ memo = NoMemo
  /\ job = [c \in Callers |-> NoJob]
  /\ todo = [c \in Callers |-> <<>>]
  /\ held = [c \in Callers |-> NoneHeld]
  /\ raced = [rows |-> {}, pane |-> FALSE]
  /\ trimmed = {}
  /\ used = [calls |-> 0, events |-> 0]

Use(what, max) == used[what] < max /\ used' = [used EXCEPT ![what] = @ + 1]

\* Something else changed what the commands under way have read.
Disturbed(except) ==
  [c \in Callers |-> IF c = except \/ job[c] = NoJob THEN job[c]
                     ELSE [job[c] EXCEPT !.alone = FALSE]]

----------------------------------------------------------------------------
Fresh(claimed) == [claimed |-> claimed, owner |-> [t \in Tabs |-> OwnerOf(t, claimed)]]

\* liveTabsWithOwners(); the TUI's ownerMemoReader() keeps the owners until they
\* are too old or another root is claimed.
Sighting(c) ==
  {Fresh(Claimed)} \cup (IF c \in Tui /\ memo # NoMemo /\ memo.claimed = Claimed THEN {memo} ELSE {})

\* A command reads tabs, keys and roots, resolves its project and knows what it will write.
Call(c, op, p, i) ==
  /\ job[c] = NoJob
  /\ Use("calls", MaxCalls)
  /\ p \in Works[c]
  /\ IF c \in Tui THEN op # "interval" => i = None
                   ELSE op # "interval" /\ (op = "disable" => i = None)
  /\ \E seen \in Sighting(c) : \E r \in Resolve(p, seen.owner) :
       /\ memo' = IF c \in Tui THEN seen ELSE memo
       /\ job' = [job EXCEPT ![c] =
                    [op |-> op, project |-> p, tab |-> r.tab, pick |-> i,
                     key |-> IF op = "enable" /\ r.tab # NoTab THEN name[r.tab] ELSE r.key,
                     alone |-> seen = Fresh(Claimed),
                     owner |-> r.owner, took |-> hash[r.key].root \notin {p, NoOne}]]
       /\ todo' = [todo EXCEPT ![c] = CallsOf(op, p, r, i)]
  /\ UNCHANGED <<store, tabs, held, raced, trimmed, rows>>

\* HSET and HDEL of enabled, root and interval.
SetField(c, call) ==
  /\ call.do \in {"on", "root", "interval"}
  /\ hash' = [hash EXCEPT ![call.key][call.do] = call.val]
  /\ UNCHANGED <<pane, log, held, raced, trimmed, rows>>

\* logRows() of the old key and of the target, and the newest of them all.
ReadRows(c, call) ==
  /\ call.do = "rows"
  /\ LET S == log[call.key] \cup log[call.val]
     IN  held' = [held EXCEPT ![c] = [of |-> {call.key, call.val}, rows |-> Newest(S),
                                      over |-> S \ Newest(S), val |-> held[c].val]]
  /\ UNCHANGED <<store, raced, trimmed, rows>>

\* What goes with a log that is replaced or deleted by c: what came in since it was
\* read, if it was, and what there was no room for.
Since(c, k) == IF k \in held[c].of THEN log[k] \ (held[c].rows \cup held[c].over) ELSE {}
Surplus(c, k) == log[k] \cap held[c].over

\* replaceLog(): RENAME over the target.
ReplaceLog(c, call) ==
  /\ call.do = "replace"
  /\ raced' = [raced EXCEPT !.rows = @ \cup Since(c, call.key)]
  /\ trimmed' = trimmed \cup Surplus(c, call.key)
  /\ log' = [log EXCEPT ![call.key] = held[c].rows]
  /\ UNCHANGED <<hash, pane, held, rows>>

\* Faulty: the override under the old spelling simply replaces the target's.
ReadPaneOnly(c, call) ==
  /\ call.do = "pane"
  /\ held' = [held EXCEPT ![c].val = pane[call.key]]
  /\ UNCHANGED <<store, raced, trimmed, rows>>

\* paneKeys() and the two GETs: the override to write, OFF if either is.
ReadPane(c, call) ==
  /\ call.do = "pane"
  /\ held' = [held EXCEPT ![c].val =
                IF pane[call.key] = "none" THEN "none"
                ELSE IF "off" \in {pane[call.key], pane[call.val]} THEN "off" ELSE "on"]
  /\ UNCHANGED <<store, raced, trimmed, rows>>

\* SET of the target's override.
MovePane(c, call) ==
  /\ call.do = "move"
  /\ pane' = IF held[c].val = "none" THEN pane ELSE [pane EXCEPT ![call.key] = held[c].val]
  /\ raced' = [raced EXCEPT !.pane = @ \/ (pane' # pane /\ PastReading(call.key, c))]
  /\ UNCHANGED <<hash, log, held, trimmed, rows>>

\* DEL of the old hash, of the overrides that were listed, and of the old log.
DropKey(c, call) ==
  /\ call.do = "drop"
  /\ hash' = [hash EXCEPT ![call.key] = NoHash]
  /\ pane' = IF held[c].val = "none" THEN pane ELSE [pane EXCEPT ![call.key] = "none"]
  /\ raced' = [rows |-> raced.rows \cup Since(c, call.key)
                          \cup UNION {held[d].rows : d \in MergingInto(call.key, c)},
               pane |-> raced.pane \/ MergingInto(call.key, c) # {}
                          \/ (pane' # pane /\ PastReading(call.key, c))]
  /\ trimmed' = trimmed \cup Surplus(c, call.key)
  /\ log' = [log EXCEPT ![call.key] = {}]
  /\ held' = [held EXCEPT ![c] = NoneHeld]
  /\ UNCHANGED rows

\* A command's own row in the log.
Note(c, call) ==
  /\ call.do = "log"
  /\ Push(call.key)
  /\ UNCHANGED <<hash, pane, held, raced>>

\* One call of redis-cli.
Step(c) ==
  /\ todo[c] # <<>>
  /\ LET call == Head(todo[c])
     IN  \/ SetField(c, call)
         \/ ReadRows(c, call)
         \/ ReplaceLog(c, call)
         \/ ReadPane(c, call)
         \/ MovePane(c, call)
         \/ DropKey(c, call)
         \/ Note(c, call)
  /\ todo' = [todo EXCEPT ![c] = Tail(@)]
  /\ job' = IF <<hash, pane>>' = <<hash, pane>> THEN job ELSE Disturbed(c)
  /\ UNCHANGED <<tabs, memo, used>>

\* The command is over: it prints what it did, or the TUI reads again.
Return(c) ==
  /\ job[c] # NoJob /\ todo[c] = <<>>
  /\ job' = [job EXCEPT ![c] = NoJob]
  /\ UNCHANGED <<store, tabs, memo, todo, held, raced, trimmed, rows, used>>

\* A command is killed, or redis-cli fails and the rest is not done.
Stop(c) ==
  /\ todo[c] # <<>>
  /\ Use("events", MaxEvents)
  /\ job' = [job EXCEPT ![c] = NoJob]
  /\ todo' = [todo EXCEPT ![c] = <<>>]
  /\ held' = [held EXCEPT ![c] = NoneHeld]
  /\ UNCHANGED <<store, tabs, memo, raced, trimmed, rows>>

----------------------------------------------------------------------------
(* External: the engine and the people at the tabs. *)

\* The engine cranks a tab that is on and logs it under the tab's name.
Beat(t) ==
  /\ t \in Live /\ On(name[t], OwnerOf(t, Claimed))
  /\ Use("events", MaxEvents)
  /\ Push(name[t])
  /\ UNCHANGED <<hash, pane, tabs, memo, running, raced>>

\* A tab is renamed, opened or closed, or its panes go elsewhere.
Arrange(t) ==
  /\ Use("events", MaxEvents)
  /\ \/ \E n \in (Keys \cup {Closed}) \ {name[t]} : name' = [name EXCEPT ![t] = n] /\ top' = top
     \/ \E s \in (SUBSET Projects) \ {top[t]} : top' = [top EXCEPT ![t] = s] /\ name' = name
  /\ job' = Disturbed(NoOne)
  /\ UNCHANGED <<store, memo, todo, held, raced, trimmed, rows>>

\* Someone switches the pane on or off, under the name of its tab.
Override(t, v) ==
  /\ t \in Live
  /\ Use("events", MaxEvents)
  /\ pane' = [pane EXCEPT ![name[t]] = v]
  /\ raced' = [raced EXCEPT !.pane = @ \/ v = "on" \/ PastReading(name[t], NoOne)]
  /\ UNCHANGED <<hash, log, tabs, memo, running, trimmed, rows>>

Next ==
  \/ \E c \in Callers, op \in {"enable", "disable", "interval"}, p \in Projects, i \in Picks \cup {None} :
       Call(c, op, p, i)
  \/ \E c \in Callers : Step(c) \/ Return(c) \/ Stop(c)
  \/ \E t \in Tabs : Beat(t) \/ Arrange(t) \/ \E v \in {"on", "off"} : Override(t, v)

Spec == Init /\ [][Next]_vars

----------------------------------------------------------------------------
\* How the tab or key of a job reads to the engine.
ReadsOn(j) == IF j.tab = NoTab THEN On(j.key, NoOne) ELSE On(name[j.tab], OwnerOf(j.tab, Claimed))
ReadsInterval(j) == IF j.tab = NoTab THEN IntervalOf(j.key, NoOne)
                    ELSE IntervalOf(name[j.tab], OwnerOf(j.tab, Claimed))

\* The tab of a job is held by another project: its switch is that one's as well.
HeldByAnother(j) == j.tab # NoTab /\ OwnerOf(j.tab, Claimed) \notin {j.project, NoOne}

\* An interval that is picked stamps its project on a key that was another's; that may take
\* from the tab what decided whose it is, and the new owner's keys had not been cleared.
Reowned(j) == j.took /\ j.tab # NoTab /\ OwnerOf(j.tab, Claimed) \notin {j.owner, NoOne}

\* A command that nothing disturbed leaves the tab as asked: on after enable, off
\* after disable, and with an interval that no other spelling outvotes.
AsAsked ==
  \A c \in Callers : job[c] # NoJob /\ todo[c] = <<>> /\ job[c].alone =>
    /\ job[c].op = "disable" => ~ReadsOn(job[c])
    /\ job[c].op = "enable" /\ ~HeldByAnother(job[c]) =>
         /\ ReadsOn(job[c])
         /\ job[c].pick # None => ReadsInterval(job[c]) = job[c].pick
    /\ job[c].op = "interval" /\ ~Reowned(job[c]) =>
         ReadsInterval(job[c]) = IF job[c].pick = None THEN Global ELSE job[c].pick

\* No command loses a row of a log, wherever it is killed, but one that is logged between
\* the reading and the replacing or deleting of a log, and one that had LogCap newer rows
\* beside it when its log was trimmed: so at least LogCap were logged after it.
RowsKept ==
  \A b \in 1..rows :
    \/ \E k \in Keys : b \in log[k]
    \/ b \in raced.rows
    \/ b \in trimmed /\ b + LogCap <= rows

\* A pane that is off stays off through any migration, however it ends.
PaneStaysOff ==
  [][~raced'.pane /\ (\E k \in Keys : pane[k] = "off") => \E k \in Keys : pane'[k] = "off"]_vars
=============================================================================

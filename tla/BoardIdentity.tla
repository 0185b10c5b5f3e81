--------------------------- MODULE BoardIdentity ---------------------------
(* `pj project identity` and `pj project link` (project/identity.ts): which  *)
(* board a project record is bound to, under which key, and what happens to  *)
(* the bindings when Plane, the manifests and the registry disagree.         *)
(*                                                                           *)
(* A reconcile loads the registry, lists the boards of every workspace that  *)
(* some store names, judges one record after the other, and writes the       *)
(* fleet's keys and then the registry.  The commands run as processes of     *)
(* their own; manifests are edited and boards renamed or archived meanwhile. *)
(* The registry is the service of module ManifestIndex, whose index follows  *)
(* the manifests and merges a save field by field, or a YAML file, which a   *)
(* save replaces as a whole.                                                 *)
EXTENDS Naturals, Sequences

CONSTANTS
  Slugs,          \* the projects
  Listed,         \* their order in the registry: slug -> position
  Sorted,         \* their order in a pass: a sequence of all slugs
  Plane, Trello,  \* the boards of each provider
  TypeOf,         \* slug -> "plane" or "trello"
  Workspaces, DefaultWs,
  Home,           \* Plane board -> the workspace it lives in
  Named,          \* pairs of a slug and a Plane board called like the project
  Agent,          \* slug -> the board its fleet agent records, or None
  Keys, None,
  Commands,       \* the processes that run one command after the other
  Linkers,        \* those of them that run links; the others reconcile
  Scopes,         \* what a reconcile is run for: all slugs, or one
  Records,        \* slug -> the bindings its record and manifest may start with
  Edits,          \* slug -> the bindings a hand edit may leave in its manifest
  InitialKey,     \* Plane board -> its key at first
  MaxEdits,       \* bound: edits of manifests and links
  MaxChanges,     \* bound: boards renamed, archived or restored
  MaxFaults       \* bound: requests to a provider that fail

Boards == Plane \cup Trello

States == {"planned", "linked", "skipped"}
Sources == {"provider", "proposed", None}
Stamps == (Commands \X {0, 1}) \cup Boards \cup {None}

\* A ticket_provider block.  One stamp stands for identifier_fetched_at and
\* board_confirmed_at, which are written and deleted together: what wrote it,
\* or the board that was read before the model begins.
Bindings == [board : Boards \cup {None}, ws : Workspaces, key : Keys \cup {None},
             source : Sources, state : States, stamp : Stamps]

Fields == {"board", "ws", "key", "source", "state", "stamp"}

Facts == [key : Keys, archived : BOOLEAN]

\* Every set of slugs that is not empty has a last one in the registry.
ASSUME LastExists ==
  \A S \in SUBSET Slugs :
    S # {} => \E p \in S : \A q \in S : Listed[q] <= Listed[p]

ASSUME Separate == /\ None \notin Slugs \cup Boards \cup Keys
                   /\ None \notin {"provider", "proposed"} \cup (Commands \X {0, 1})
                   /\ Plane \cap Trello = {}
                   /\ Listed \in [Slugs -> Nat]
                   /\ \A p, q \in Slugs : Listed[p] = Listed[q] => p = q
                   /\ Sorted \in Seq(Slugs)
                   /\ \A p \in Slugs : \E i \in DOMAIN Sorted : Sorted[i] = p
                   /\ \A i, j \in DOMAIN Sorted : Sorted[i] = Sorted[j] => i = j
                   /\ Home \in [Plane -> Workspaces]
                   /\ DefaultWs \in Workspaces
                   /\ Agent \in [Slugs -> Plane \cup {None}]
                   /\ TypeOf \in [Slugs -> {"plane", "trello"}]
                   /\ Named \subseteq Slugs \X Plane
                   /\ Scopes \subseteq SUBSET Slugs
                   /\ InitialKey \in [Plane -> Keys]
                   /\ \A b, c \in Plane :
                        Home[b] = Home[c] /\ InitialKey[b] = InitialKey[c] => b = c

ASSUME BindingsOnly ==
  \A p \in Slugs : Records[p] \subseteq Bindings /\ Edits[p] \subseteq Bindings

VARIABLES
  service,   \* the registry is the service, not a file
  reg,       \* the registry's records
  man,       \* the manifests' ticket_provider blocks
  fleet,     \* the keys in the fleet's registry
  plane,     \* Plane board -> its facts
  trello,    \* Trello board -> open
  cmd,       \* command -> where it is and what it has read
  edits, changes, faults

vars == <<service, reg, man, fleet, plane, trello, cmd, edits, changes, faults>>

\* The boards a record may be bound to.
BoardsOf(p) == IF TypeOf[p] = "plane" THEN Plane ELSE Trello

Idle == [op |-> "idle"]

Registries == [Slugs -> Bindings]

\* A pass: its scope, the registry as it was loaded and as it has become, who
\* claims a board, the fleet's keys, and what was seen of Plane.
Passes ==
  [op : {"fetch", "judge"}, scope : SUBSET Slugs, base : Registries, mine : Registries,
   claimed : [Boards -> Slugs \cup {None}], keys : [Slugs -> Keys \cup {None}],
   where : SUBSET Workspaces, seen : UNION {[S -> Facts] : S \in SUBSET Plane},
   degraded : BOOLEAN, next : 1 .. Len(Sorted) + 1, errors : BOOLEAN]

Links ==
  {k \in [op : {"link"}, slug : Slugs, board : Boards, base : Registries,
           expected : Bindings] : k.board \in BoardsOf(k.slug)}

\* ticketProviderScope(): keys and boards are unique within a workspace.
SameScope(p, a, q, b) == TypeOf[p] = TypeOf[q] /\ a.ws = b.ws

\* R3, R3a and R3b of validateProjectRecord().
LegalRecord(p, r) ==
  /\ r.state = "linked" => r.board # None /\ r.stamp # None
  /\ r.source = "provider" => r.key # None /\ r.stamp # None
  /\ r.state = "linked" /\ TypeOf[p] = "plane" => r.source = "provider"
  /\ r.board \in BoardsOf(p) \cup {None}

\* validateProjectRegistry(), which the YAML file passes when it is loaded and
\* when it is saved.
LegalRegistry(rs) ==
  /\ \A p \in Slugs : LegalRecord(p, rs[p])
  /\ \A p, q \in Slugs :
       p # q /\ SameScope(p, rs[p], q, rs[q]) =>
         /\ rs[p].board = rs[q].board => rs[p].board = None
         /\ rs[p].key = rs[q].key => rs[p].key = None

\* Plane gives a key to one board of a workspace.
KeysUnique(facts) ==
  \A b, c \in Plane : Home[b] = Home[c] /\ facts[b].key = facts[c].key => b = c

Beginnings ==
  {r \in [Slugs -> UNION {Records[p] : p \in Slugs}] :
     \A p \in Slugs : r[p] \in Records[p] /\ LegalRecord(p, r[p])}

Init ==
  /\ service \in BOOLEAN
  /\ man \in Beginnings
  /\ reg \in (IF service THEN {man} ELSE {r \in Beginnings : LegalRegistry(r)})
  /\ plane = [b \in Plane |-> [key |-> InitialKey[b], archived |-> FALSE]]
  /\ trello = [b \in Trello |-> TRUE]
  /\ fleet = [p \in Slugs |-> None]
  /\ cmd = [c \in Commands |-> Idle]
  /\ edits = 0 /\ changes = 0 /\ faults = 0

------------------------------------------------------------------------------
\* What a command knows.

At(c, s) == cmd[c].op = s

\* The last record in the registry's order that holds the board owns it.
ClaimsOf(rs) ==
  [b \in Boards |->
     LET holders == {p \in Slugs : rs[p].board = b}
     IN  IF holders = {} THEN None
         ELSE CHOOSE p \in holders : \A q \in holders : Listed[q] <= Listed[p]]

\* The workspaces that a pass lists: those of the agents in its scope, of the
\* records and of their manifests, and the default one.
Searched(scope) ==
  {Home[Agent[p]] : p \in {q \in scope : Agent[q] # None}}
    \cup {reg[p].ws : p \in scope} \cup {man[p].ws : p \in scope} \cup {DefaultWs}

\* loadProjectRegistry(), readHermesAgentBoards() and the workspaces to list.
Load(c, scope) ==
  /\ At(c, "idle")
  /\ cmd' = [cmd EXCEPT ![c] =
       [op |-> "fetch", scope |-> scope, base |-> reg, mine |-> reg,
        claimed |-> ClaimsOf(reg), keys |-> fleet, where |-> Searched(scope),
        seen |-> [b \in {} |-> plane[b]], degraded |-> FALSE, next |-> 1, errors |-> FALSE]]
  /\ UNCHANGED <<service, reg, man, fleet, plane, trello, edits, changes, faults>>

\* fetchPlaneBoards()
BoardsIn(w) == {b \in Plane : Home[b] = w}

\* Every workspace is listed; `lost` are those that could not be.
Fetch(c, lost) ==
  /\ At(c, "fetch")
  /\ lost \in SUBSET cmd[c].where
  /\ lost # {} => faults < MaxFaults
  /\ cmd' = [cmd EXCEPT
       ![c].op = "judge",
       ![c].seen = [b \in UNION {BoardsIn(w) : w \in cmd[c].where \ lost} |-> plane[b]],
       ![c].degraded = lost # {},
       ![c].errors = lost # {}]
  /\ faults' = IF lost = {} THEN faults ELSE faults + 1
  /\ UNCHANGED <<service, reg, man, fleet, plane, trello, edits, changes>>

------------------------------------------------------------------------------
\* One record.

Unclaimed(k, p, b) == b # None /\ k.claimed[b] \in {None, p}

\* Faulty candidates: the manifest goes before the record.
ManifestFirst(k, p) ==
  LET bindings == <<man[p].board, k.mine[p].board,
                    IF TypeOf[p] = "plane" THEN Agent[p] ELSE None>>
      free == {i \in 1..3 : Unclaimed(k, p, bindings[i])}
  IN  IF free = {} THEN None ELSE bindings[CHOOSE i \in free : \A j \in free : i <= j]

\* candidateBoardIds(): the record's board, its manifest's, its agent's; the
\* first one that no other record claims.
RecordedBoard(k, p) ==
  LET bindings == <<k.mine[p].board, man[p].board,
                    IF TypeOf[p] = "plane" THEN Agent[p] ELSE None>>
      free == {i \in 1..3 : Unclaimed(k, p, bindings[i])}
  IN  IF free = {} THEN None ELSE bindings[CHOOSE i \in free : \A j \in free : i <= j]

LiveIn(k, S) == {b \in S : ~k.seen[b].archived}

\* The boards that resolveBoardByHint() settles on, and why it may refuse: the
\* key that the manifest says the provider assigned, else the board's name.
HintedBoards(k, p) ==
  LET byKey == {b \in DOMAIN k.seen : /\ man[p].source = "provider"
                                      /\ man[p].key # None
                                      /\ k.seen[b].key = man[p].key}
  IN  IF byKey # {} THEN byKey ELSE {b \in DOMAIN k.seen : <<p, b>> \in Named}

MayHint(k, p) ==
  RecordedBoard(k, p) = None /\ TypeOf[p] = "plane" /\ k.mine[p].state # "skipped"

\* Only archived boards match, or more than one live board does.
HintRefused(k, p) ==
  LET hinted == HintedBoards(k, p)
  IN  /\ MayHint(k, p)
      /\ hinted # {}
      /\ ~\E b \in hinted : LiveIn(k, hinted) = {b}

\* A faulty hint, which takes a board whatever record claims it.
TargetTaken(k, p) ==
  LET hinted == HintedBoards(k, p)
      found == {b \in hinted : LiveIn(k, hinted) = {b}}
  IN  IF MayHint(k, p) /\ found # {} THEN CHOOSE b \in found : TRUE
      ELSE RecordedBoard(k, p)

TargetBoard(k, p) ==
  LET hinted == HintedBoards(k, p)
      found == {b \in hinted : LiveIn(k, hinted) = {b} /\ Unclaimed(k, p, b)}
  IN  IF MayHint(k, p) /\ found # {} THEN CHOOSE b \in found : TRUE
      ELSE RecordedBoard(k, p)

\* liveKeyIndex(): a live board of the record's workspace has this key.
OwnedKey(k, r) ==
  \E b \in DOMAIN k.seen :
    Home[b] = r.ws /\ ~k.seen[b].archived /\ k.seen[b].key = r.key

\* demoteToPlanned().
Demoted(k, r) ==
  LET kept == IF OwnedKey(k, r) THEN None ELSE r.key
  IN  [r EXCEPT !.board = None, !.key = kept,
                !.state = IF r.state = "skipped" THEN "skipped" ELSE "planned",
                !.source = IF kept = None THEN None ELSE "proposed",
                !.stamp = None]

\* An instant of this command, other than the one that is there.
Fresh(c, stamp) == IF stamp = <<c, 0>> THEN <<c, 1>> ELSE <<c, 0>>

\* A faulty stamp: outside the default workspace it is dropped and set by turns.
StampedAnew(c, old, new) ==
  IF new.ws # DefaultWs THEN [new EXCEPT !.stamp = IF old.stamp = None THEN <<c, 0>> ELSE None]
  ELSE IF [new EXCEPT !.stamp = old.stamp] = old /\ old.stamp # None THEN old
  ELSE [new EXCEPT !.stamp = Fresh(c, old.stamp)]

\* stampFor(), for Plane: an unchanged binding keeps the instant that established it.
Stamped(c, old, new) ==
  IF [new EXCEPT !.stamp = old.stamp] = old /\ old.stamp # None THEN old
  ELSE [new EXCEPT !.stamp = Fresh(c, old.stamp)]

\* The same for Trello, where board and state alone say whether it changed.
TrelloLink(c, old, b) ==
  [old EXCEPT !.board = b, !.source = "proposed", !.state = "linked",
              !.stamp = IF old.board = b /\ old.state = "linked" /\ @ # None THEN @
                        ELSE Fresh(c, @)]

\* A record that Plane has confirmed.
PlaneLink(b, facts) ==
  [board |-> b, ws |-> Home[b], key |-> facts.key, source |-> "provider",
   state |-> "linked", stamp |-> None]

\* A record is judged: what becomes of it, which board it claims, and whether
\* the report turns bad.
Turn(c) == Sorted[cmd[c].next]

Judged(c, r, claim, bad) ==
  cmd' = [cmd EXCEPT
            ![c].mine[Turn(c)] = r,
            ![c].claimed = [b \in Boards |-> IF b = claim THEN Turn(c) ELSE @[b]],
            ![c].next = @ + 1,
            ![c].errors = @ \/ bad]

InTurn(c) ==
  /\ At(c, "judge")
  /\ cmd[c].next <= Len(Sorted)
  /\ Turn(c) \in cmd[c].scope

\* A record of another scope is passed over.
PassOver(c) ==
  /\ At(c, "judge")
  /\ cmd[c].next <= Len(Sorted)
  /\ Turn(c) \notin cmd[c].scope
  /\ cmd' = [cmd EXCEPT ![c].next = @ + 1]
  /\ UNCHANGED faults

\* An incomplete view of Plane parks every Plane record.
Park(c) ==
  LET p == Turn(c)
  IN  /\ InTurn(c) /\ TypeOf[p] = "plane" /\ cmd[c].degraded
      /\ Judged(c, cmd[c].mine[p], None, FALSE)
      /\ UNCHANGED faults

Refuse(c) ==
  LET p == Turn(c)
  IN  /\ InTurn(c) /\ TypeOf[p] = "plane" /\ ~cmd[c].degraded
      /\ HintRefused(cmd[c], p)
      /\ Judged(c, Demoted(cmd[c], cmd[c].mine[p]), None, TRUE)
      /\ UNCHANGED faults

Unbind(c) ==
  LET p == Turn(c)
  IN  /\ InTurn(c) /\ (TypeOf[p] = "plane" => ~cmd[c].degraded)
      /\ ~HintRefused(cmd[c], p)
      /\ TargetBoard(cmd[c], p) = None
      /\ Judged(c, Demoted(cmd[c], cmd[c].mine[p]), None, FALSE)
      /\ UNCHANGED faults

\* The board is where Plane says it is; an archived one is reported and kept.
Confirm(c) ==
  LET p == Turn(c)
      b == TargetBoard(cmd[c], p)
  IN  /\ InTurn(c) /\ TypeOf[p] = "plane" /\ ~cmd[c].degraded
      /\ b \in DOMAIN cmd[c].seen
      /\ Judged(c, Stamped(c, cmd[c].mine[p], PlaneLink(b, cmd[c].seen[b])),
                b, cmd[c].seen[b].archived)
      /\ UNCHANGED faults

\* In none of the workspaces that were searched, which proves nothing.
Preserve(c) ==
  LET p == Turn(c)
      b == TargetBoard(cmd[c], p)
  IN  /\ InTurn(c) /\ TypeOf[p] = "plane" /\ ~cmd[c].degraded
      /\ b # None /\ b \notin DOMAIN cmd[c].seen
      /\ Judged(c, cmd[c].mine[p], None, TRUE)
      /\ UNCHANGED faults

TrelloTurn(c) == InTurn(c) /\ TypeOf[Turn(c)] = "trello" /\ TargetBoard(cmd[c], Turn(c)) # None

TrelloSilent(c) ==
  /\ TrelloTurn(c) /\ faults < MaxFaults
  /\ Judged(c, cmd[c].mine[Turn(c)], None, TRUE)
  /\ faults' = faults + 1

\* Trello confirms the board; a record without a key is demoted all the same.
TrelloConfirm(c) ==
  LET r == cmd[c].mine[Turn(c)]
      b == TargetBoard(cmd[c], Turn(c))
  IN  /\ TrelloTurn(c) /\ trello[b]
      /\ Judged(c, IF r.key = None THEN Demoted(cmd[c], r) ELSE TrelloLink(c, r, b),
                b, FALSE)
      /\ UNCHANGED faults

TrelloClosed(c) ==
  /\ TrelloTurn(c) /\ ~trello[TargetBoard(cmd[c], Turn(c))]
  /\ Judged(c, Demoted(cmd[c], cmd[c].mine[Turn(c)]), None, FALSE)
  /\ UNCHANGED faults

Judge(c) ==
  /\ PassOver(c) \/ Park(c) \/ Refuse(c) \/ Unbind(c) \/ Confirm(c) \/ Preserve(c)
       \/ TrelloSilent(c) \/ TrelloConfirm(c) \/ TrelloClosed(c)
  /\ UNCHANGED <<service, reg, man, fleet, plane, trello, edits, changes>>

------------------------------------------------------------------------------
\* Writing.

\* A faulty save: the last one wins.
ConflictNever(base, mine) == FALSE

\* The service's merge of a save with what the manifests say by then: a field
\* that both sides changed is a conflict, and nothing is saved.
Conflict(base, mine) ==
  \E p \in Slugs, f \in Fields :
    mine[p][f] # base[p][f] /\ man[p][f] # base[p][f] /\ mine[p][f] # man[p][f]

Merged(base, mine) ==
  [p \in Slugs |-> [f \in Fields |-> IF mine[p][f] = base[p][f] THEN man[p][f] ELSE mine[p][f]]]

\* saveProjectRegistry(); a refusal leaves everything as it is.
Save(base, mine) ==
  LET index == IF Conflict(base, mine) THEN reg ELSE Merged(base, mine)
  IN  IF service THEN reg' = index /\ man' = index
      ELSE reg' = (IF LegalRegistry(mine) THEN mine ELSE reg) /\ UNCHANGED man

\* applyHermesIdentifiers(): the keys that had drifted when the fleet was read.
Projected(k) ==
  [p \in Slugs |->
     IF p \in k.scope /\ Agent[p] \in DOMAIN k.seen /\ k.seen[Agent[p]].key # k.keys[p]
     THEN k.seen[Agent[p]].key ELSE fleet[p]]

Done(c) == At(c, "judge") /\ cmd[c].next > Len(Sorted)

Finish(c) ==
  /\ Done(c)
  /\ fleet' = Projected(cmd[c])
  /\ IF cmd[c].mine = cmd[c].base THEN UNCHANGED <<reg, man>>
     ELSE Save(cmd[c].base, cmd[c].mine)
  /\ cmd' = [cmd EXCEPT ![c] = Idle]
  /\ UNCHANGED <<service, plane, trello, edits, changes, faults>>

------------------------------------------------------------------------------
\* `pj project link`: one record is bound to the board an operator names.

LinkLoad(c, p, b) ==
  /\ At(c, "idle")
  /\ edits < MaxEdits /\ edits' = edits + 1
  /\ b \in BoardsOf(p)
  /\ cmd' = [cmd EXCEPT ![c] =
       [op |-> "link", slug |-> p, board |-> b, base |-> reg, expected |-> man[p]]]
  /\ UNCHANGED <<service, reg, man, fleet, plane, trello, changes, faults>>

\* The block of a link: the key is Plane's, or the record's own for Trello.
LinkBlock(c) ==
  LET old == cmd[c].base[cmd[c].slug]
      b == cmd[c].board
      new == IF b \in Plane THEN PlaneLink(b, plane[b])
             ELSE [old EXCEPT !.board = b, !.source = "proposed", !.state = "linked"]
  IN  [new EXCEPT !.stamp = Fresh(c, old.stamp)]

\* The manifest is written before the registry, unless the service does both.
LinkFinish(c) ==
  LET p == cmd[c].slug
      mine == [cmd[c].base EXCEPT ![p] = LinkBlock(c)]
  IN  /\ At(c, "link")
      /\ IF \/ cmd[c].board \in Trello /\ ~trello[cmd[c].board]
            \/ ~service /\ man[p] # cmd[c].expected
         THEN UNCHANGED <<reg, man>>
         ELSE IF service THEN Save(cmd[c].base, mine)
         ELSE /\ man' = [man EXCEPT ![p] = LinkBlock(c)]
              /\ reg' = IF LegalRegistry(mine) THEN mine ELSE reg
      /\ cmd' = [cmd EXCEPT ![c] = Idle]
      /\ UNCHANGED <<service, fleet, plane, trello, edits, changes, faults>>

------------------------------------------------------------------------------
\* The world.

Edit(p, e) ==
  /\ edits < MaxEdits /\ edits' = edits + 1
  /\ e # man[p] /\ LegalRecord(p, e)
  /\ man' = [man EXCEPT ![p] = e]
  /\ reg' = IF service THEN man' ELSE reg
  /\ UNCHANGED <<service, fleet, plane, trello, cmd, changes, faults>>

PlaneChanges(b, f) ==
  /\ changes < MaxChanges /\ changes' = changes + 1
  /\ f # plane[b]
  /\ plane' = [plane EXCEPT ![b] = f]
  /\ KeysUnique(plane')
  /\ UNCHANGED <<service, reg, man, fleet, trello, cmd, edits, faults>>

TrelloChanges(b) ==
  /\ changes < MaxChanges /\ changes' = changes + 1
  /\ trello' = [trello EXCEPT ![b] = ~@]
  /\ UNCHANGED <<service, reg, man, fleet, plane, cmd, edits, faults>>

Command(c) ==
  \/ c \notin Linkers /\ \E scope \in Scopes : Load(c, scope)
  \/ \E lost \in SUBSET Workspaces : Fetch(c, lost)
  \/ Judge(c)
  \/ Finish(c)
  \/ c \in Linkers /\ \E p \in Slugs, b \in Boards : LinkLoad(c, p, b)
  \/ LinkFinish(c)

World ==
  \/ \E p \in Slugs : \E e \in Edits[p] : Edit(p, e)
  \/ \E b \in Plane, f \in Facts : PlaneChanges(b, f)
  \/ \E b \in Trello : TrelloChanges(b)

Next == World \/ \E c \in Commands : Command(c)

Spec == Init /\ [][Next]_vars

------------------------------------------------------------------------------
\* Properties.

\* Types: a pass that is under way has read boards of Plane only, and a link
\* names a board of the record's own provider (reconcileProjectIdentity,
\* linkProjectBoard).
TypeOK ==
  /\ service \in BOOLEAN
  /\ reg \in Registries /\ man \in Registries
  /\ fleet \in [Slugs -> Keys \cup {None}]
  /\ plane \in [Plane -> Facts]
  /\ trello \in [Trello -> BOOLEAN]
  /\ cmd \in [Commands -> {Idle} \cup Passes \cup Links]
  /\ edits \in Nat /\ changes \in Nat /\ faults \in Nat

\* The only pointer to a Plane board is never lost: every board that some
\* record held when a pass began is still held by a record in what the pass is
\* about to save, whether it is archived, unseen or claimed by two records.
PointerKept ==
  \A c \in Commands :
    At(c, "judge") =>
      \A p \in Slugs :
        cmd[c].base[p].board \in Plane =>
          \E q \in Slugs : cmd[c].mine[q].board = cmd[c].base[p].board

\* A pass over all records that reports no error leaves no board to two
\* records and no proposal that is a live board's key, and what it made of a
\* registry file that could be loaded can be saved.
RepairIsSound ==
  \A c \in Commands :
    Done(c) /\ cmd[c].scope = Slugs /\ ~cmd[c].errors =>
      LET mine == cmd[c].mine
      IN  /\ \A p, q \in Slugs :
               p # q /\ mine[p].board = mine[q].board => mine[p].board = None
          /\ \A p \in Slugs :
               TypeOf[p] = "plane" =>
                 IF mine[p].board = None THEN mine[p].key = None \/ ~OwnedKey(cmd[c], mine[p])
                 ELSE mine[p].key = cmd[c].seen[mine[p].board].key
          /\ LegalRegistry(cmd[c].base) => LegalRegistry(mine)

\* Repairs come to an end: however often records are reconciled, while links
\* are made as well, the commands cannot go on changing the registry for ever
\* once boards and manifests are left alone.
Settles == <>[][FALSE]_<<reg, man>>

\* In service mode a reconcile does not touch a record that somebody has bound
\* to another board since it was loaded: the save merges field by field, and
\* no mixture of the two bindings may come out of it.  Only the key and the
\* label of a record that had never been confirmed (or of a Trello record)
\* still go with the pass.
LinkKept ==
  [][\A c \in Commands, p \in Slugs :
       LET base == cmd[c].base[p]
           mine == cmd[c].mine[p]
           relabelled == /\ mine # base /\ mine.stamp = base.stamp
                         /\ TypeOf[p] = "plane" => base.source = None
       IN  /\ service /\ Done(c) /\ cmd'[c] = Idle
           /\ man[p].state = "linked" /\ man[p].board # base.board
           /\ man[p].stamp \notin {base.stamp, mine.stamp}
           /\ LegalRecord(p, base) /\ LegalRecord(p, man[p])
           => /\ \A f \in {"board", "ws", "state", "stamp"} : man'[p][f] = man[p][f]
              /\ man'[p] = man[p] \/ relabelled]_vars

\* A link leaves the manifest and the registry with the same binding.
NoSplit ==
  [][\A c \in Commands :
       /\ At(c, "link") /\ cmd'[c] = Idle /\ man[cmd[c].slug] = reg[cmd[c].slug]
       => man'[cmd[c].slug] = reg'[cmd[c].slug]]_vars

==============================================================================

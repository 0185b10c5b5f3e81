--------------------------- MODULE RegistryStores ---------------------------
(* What the two older registry stores make of a registry: the YAML file, whose
   mappings are merged key by key (project/index.ts), and the relational mirror
   (project/RegistryStore.ts, kept for migration tooling) with the unique
   indices and cascades of its schema. A save of the mirror is one transaction,
   so one value of the database to the next. *)
EXTENDS Naturals, Sequences, TLC

CONSTANTS Slugs,   \* projects of this program
          Legacy,  \* rows of projects without a slug, another component's
          Paths, Boards, Notebooks, Agents, Settings,
          Extensions,  \* keys this program does not know
          None

\* A board is its provider, workspace and identifier or id: what must be unique.
Records == [path : Paths, board : Boards \cup {None}, nb : Notebooks \cup {None},
            agents : SUBSET Agents, more : SUBSET Extensions]
Registries == [settings : Settings, projects : UNION {[S -> Records] : S \in SUBSET Slugs}]

\* validateProjectRegistry
Valid(projects) ==
  \A s, t \in DOMAIN projects : s # t =>
    /\ projects[s].path # projects[t].path
    /\ projects[s].board = projects[t].board => projects[s].board = None
    /\ projects[s].nb = projects[t].nb => projects[s].nb = None

---------------------------------------------------------------------------
(* The YAML file: keys this program owns follow the record, those of a mapping
   it does not own (extensions, the agents by name) are only added to. *)

Merge(old, r) == [r EXCEPT !.agents = @ \cup old.agents, !.more = @ \cup old.more]

FileSave(doc, reg) ==
  IF ~ Valid(reg.projects) THEN doc
  ELSE [settings |-> reg.settings,
        projects |-> [s \in DOMAIN reg.projects |->
                        IF s \in DOMAIN doc.projects
                        THEN Merge(doc.projects[s], reg.projects[s]) ELSE reg.projects[s]]]

\* YamlRegistryStore.upsert; a file that does not load is left alone.
FileUpsert(doc, s, r) ==
  IF Valid(doc.projects) THEN FileSave(doc, [doc EXCEPT !.projects = (s :> r) @@ @]) ELSE doc

---------------------------------------------------------------------------
(* The mirror: rows maps a project to what its row holds, repos a path to the
   project of its row, has a project to its board and agents rows, which hang
   on the row of a path as well. *)

RowIds == Slugs \cup Legacy
Databases == [rows : UNION {[I -> [nb : Notebooks \cup {None}, more : SUBSET Extensions]] :
                              I \in SUBSET RowIds},
              repos : UNION {[P -> RowIds] : P \in SUBSET Paths},
              has : UNION {[I -> [at : Paths, board : Boards \cup {None}, agents : SUBSET Agents]] :
                             I \in SUBSET Slugs},
              settings : Settings]
Keep(f, S) == [x \in DOMAIN f \cap S |-> f[x]]

\* Refused by a unique index: the notebooks of rows with a slug, the boards.
Refused(db, s, r) ==
  \/ r.nb # None /\ \E t \in DOMAIN db.rows \cap Slugs : t # s /\ db.rows[t].nb = r.nb
  \/ r.board # None /\ \E t \in DOMAIN db.has : t # s /\ db.has[t].board = r.board

\* upsertInTx: the row of the path is taken over, whoever has it.
UpsertInTx(db, s, r) ==
  [db EXCEPT !.rows  = (s :> [nb |-> r.nb, more |-> r.more]) @@ @,
             !.repos = (r.path :> s) @@ @,
             !.has   = (s :> [at |-> r.path, board |-> r.board, agents |-> r.agents]) @@ @]

Upsert(db, s, r) ==
  IF Refused(db, s, r) THEN [ok |-> FALSE, db |-> db] ELSE [ok |-> TRUE, db |-> UpsertInTx(db, s, r)]

\* DELETE of the projects that are not in the registry, with what hangs on them.
Pruned(db, S) ==
  LET repos == [p \in {q \in DOMAIN db.repos : db.repos[q] \in S \cup Legacy} |-> db.repos[p]]
  IN [db EXCEPT !.rows = Keep(@, S \cup Legacy), !.repos = repos,
                !.has = Keep(@, {s \in DOMAIN @ \cap S : @[s].at \in DOMAIN repos})]

UpsertSettings(db, settings) == [db EXCEPT !.settings = settings]

\* save; order is that of the registry's entries. What fails is rolled back.
Save(db, reg, order) ==
  LET S == DOMAIN reg.projects
      W[i \in 0 .. Len(order)] ==
        IF i = 0 THEN [ok |-> TRUE, db |-> UpsertSettings(Pruned(db, S), reg.settings)]
        ELSE IF W[i - 1].ok THEN Upsert(W[i - 1].db, order[i], reg.projects[order[i]])
        ELSE W[i - 1]
  IN IF Valid(reg.projects) /\ W[Len(order)].ok THEN W[Len(order)] ELSE [ok |-> FALSE, db |-> db]

\* The board and the agents of a project; without a row, none.
Had(db, s) == IF s \in DOMAIN db.has THEN db.has[s] ELSE [board |-> None, agents |-> {}]

\* load joins a project with its paths, in no order, and keeps one; a project
\* without any makes the registry illegible.
Loads(db) ==
  LET S == DOMAIN db.rows \cap Slugs
      At(s) == {p \in DOMAIN db.repos : db.repos[p] = s}
  IN {[settings |-> db.settings,
       projects |-> [s \in S |-> [path |-> at[s], board |-> Had(db, s).board, nb |-> db.rows[s].nb,
                                  agents |-> Had(db, s).agents, more |-> db.rows[s].more]]] :
        at \in {f \in [S -> Paths] : \A s \in S : f[s] \in At(s)}}

---------------------------------------------------------------------------
(* What the stores promise *)

\* The file gives back every record saved, an extension it did not know kept,
\* and saving what was loaded changes nothing: mergeYamlMapping.
FileGivesBack(doc, reg) ==
  LET now == FileSave(doc, reg).projects IN
  /\ FileSave(FileSave(doc, reg), FileSave(doc, reg)) = FileSave(doc, reg)
  /\ Valid(reg.projects) =>
       \A s \in DOMAIN reg.projects :
         /\ now[s] = [reg.projects[s] EXCEPT !.agents = now[s].agents, !.more = now[s].more]
         /\ reg.projects[s].agents \subseteq now[s].agents /\ reg.projects[s].more \subseteq now[s].more
         /\ s \in DOMAIN doc.projects => doc.projects[s].more \subseteq now[s].more

\* The mirror gives back what was saved, and only that when no project that was
\* there has another path: PgRegistryStore.save and load.
MirrorGivesBack(db, reg, order) ==
  LET saved == Save(db, reg, order) IN
  saved.ok =>
    /\ reg \in Loads(saved.db)
    /\ Save(saved.db, reg, order) = saved
    /\ (\A p \in DOMAIN db.repos : db.repos[p] \in DOMAIN reg.projects =>
           p = reg.projects[db.repos[p]].path)
         => Loads(saved.db) = {reg}

\* A registry that is valid is refused only if a project gets the board or the
\* notebook of another one that stays.
OnlyExchangesAreRefused(db, reg, order) ==
  (Valid(reg.projects) /\ ~ Save(db, reg, order).ok) =>
    \E s, t \in DOMAIN reg.projects :
      /\ s # t /\ t \in DOMAIN db.rows
      /\ \/ t \in DOMAIN db.has /\ reg.projects[s].board # None
            /\ db.has[t].board = reg.projects[s].board
         \/ db.rows[t].nb = reg.projects[s].nb /\ reg.projects[s].nb # None

\* Rows without a slug stay, with every path no project of this program claims.
LegacyIsLeft(db, reg, order) ==
  LET saved == Save(db, reg, order).db IN
  \A l \in DOMAIN db.rows \cap Legacy :
    /\ l \in DOMAIN saved.rows /\ saved.rows[l] = db.rows[l]
    /\ \A p \in DOMAIN db.repos :
         (db.repos[p] = l /\ \A s \in DOMAIN reg.projects : reg.projects[s].path # p)
           => p \in DOMAIN saved.repos /\ saved.repos[p] = l
=============================================================================

-------------------------- MODULE MCRegistryStores --------------------------
(* The promises of RegistryStores evaluated for every pair of small registries. *)
LOCAL INSTANCE Naturals
LOCAL INSTANCE Sequences
LOCAL INSTANCE TLC
LOCAL Stores == INSTANCE RegistryStores WITH
  Slugs <- {"s", "t"}, Legacy <- {"l"}, Paths <- {1, 2, 3}, Boards <- {"b", "c"},
  Notebooks <- {"n"}, Agents <- {"a", "pm"}, Settings <- {0, 1}, Extensions <- {"x"}, None <- "none"

LOCAL Of(R) == {[settings |-> 1, projects |-> f] : f \in UNION {[S -> R] : S \in SUBSET {"s", "t"}}}
LOCAL Plain == [path : {1, 2, 3}, board : {"b", "c", "none"}, nb : {"n", "none"},
                agents : {{}}, more : {{}}]
LOCAL Loose == [path : {1}, board : {"none"}, nb : {"n", "none"}, agents : SUBSET {"a", "pm"},
                more : SUBSET {"x"}]
LOCAL Small == {r \in Of(Plain) : Stores!Valid(r.projects)}
LOCAL Orders(r) == {o \in {<<>>, <<"s">>, <<"t">>, <<"s", "t">>, <<"t", "s">>} :
                      {o[i] : i \in DOMAIN o} = DOMAIN r.projects}

\* A database with another component's project at path 3, and a registry saved.
LOCAL Fresh == [rows |-> "l" :> [nb |-> "none", more |-> {}], repos |-> 3 :> "l",
                has |-> [i \in {} |-> 0], settings |-> 0]
LOCAL Dbs == UNION {{Stores!Save(Fresh, r, o).db : o \in Orders(r)} : r \in Small}

ASSUME FilesGiveBack ==
  \A x, y \in Loose, u \in {"s", "t"} :
    Stores!FileGivesBack([settings |-> 0, projects |-> "s" :> x], [settings |-> 1, projects |-> u :> y])
ASSUME MirrorsGiveBack ==
  \A db \in Dbs, r \in Small : \A o \in Orders(r) :
    /\ Stores!MirrorGivesBack(db, r, o)
    /\ Stores!OnlyExchangesAreRefused(db, r, o)
    /\ Stores!LegacyIsLeft(db, r, o)
    /\ \A s \in DOMAIN r.projects : Stores!LegacyIsLeft(Stores!Upsert(db, s, r.projects[s]).db, r, o)

\* An agent dropped from a record comes back from the file; a project that moved
\* may be loaded at its old path; one whose path another upsert took is lost and
\* the registry with it.
ASSUME StoreCasesHappen ==
  LET r(p) == [path |-> p, board |-> "none", nb |-> "none", agents |-> {}, more |-> {}]
      reg(p) == [settings |-> 1, projects |-> "s" :> r(p)]
      db == Stores!Save(Fresh, reg(1), <<"s">>).db
  IN /\ Stores!FileUpsert([settings |-> 0, projects |-> "s" :> [r(1) EXCEPT !.agents = {"a"}]],
                          "s", r(1)).projects["s"].agents = {"a"}
     /\ Stores!Loads(Stores!Save(db, reg(2), <<"s">>).db) = {reg(1), reg(2)}
     /\ Stores!Loads(Stores!Upsert(db, "t", r(1)).db) = {}
=============================================================================

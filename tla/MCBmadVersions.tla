--------------------------- MODULE MCBmadVersions ---------------------------
(* The promises of BmadVersions evaluated on small versions and manifests. *)
LOCAL INSTANCE Integers
LOCAL INSTANCE Sequences
LOCAL INSTANCE TLC
LOCAL Id == {"2", "10", "10a", "next"}
LOCAL Bmad == INSTANCE BmadVersions WITH
  Names <- {"core", "custom", "g33", "bmm", "mine"}, Ids <- Id,
  Num <- "2" :> 2 @@ "10" :> 10 @@ "10a" :> -1 @@ "next" :> -1,
  Rank <- "10" :> 1 @@ "10a" :> 2 @@ "2" :> 3 @@ "next" :> 4,
  NaN <- -1, None <- [none |-> TRUE]
LOCAL None == [none |-> TRUE]
LOCAL Some == [core : {<<6, 12, 0>>, <<6, 12, 1>>, <<6, 2, 9>>},
               pre : UNION {[1 .. n -> Id] : n \in 0 .. 2}]
LOCAL Released == [core : {<<6, 12, 0>>, <<6, 12, 1>>},
                   pre : {<<>>, <<"next", "2">>, <<"next", "10">>}]
LOCAL OfOne == [core : {<<6, 12, 1>>}, pre : UNION {[1 .. n -> Id] : n \in 0 .. 2}]
LOCAL Manifests ==
  [there : BOOLEAN, legible : BOOLEAN,
   entries : SUBSET ({[is |-> "legacy"], [is |-> "bad"]}
     \cup {[is |-> "module", name |-> n, channel |-> c] :
             n \in {"core", "g33", "mine"}, c \in {"next", "pinned"}})]
LOCAL Tomls == [there : BOOLEAN, modules : SUBSET {"core", "bmm", "g33"}]
LOCAL Tags(n) == [next |-> n, latest |-> n]
LOCAL Caches == {None} \cup [at : {0, 40, 100}, tags : {Tags(1)}]

ASSUME VersionsAreOrdered ==
  /\ \A a, b \in Some : Bmad!OrdersAlike(a, b, a)
  /\ \A a, b, c \in OfOne : Bmad!OrdersAlike(a, b, c)
  /\ \A a, b \in Released : Bmad!TargetIsLatest([next |-> a, latest |-> b])
  /\ Bmad!Target([latest |-> 1]) = {}
\* Mixed identifiers are not ordered: 2 < 10 < 10a < 2.
ASSUME MixedVersionsAreNot ==
  LET v(x) == [core |-> <<6, 12, 1>>, pre |-> <<x>>] IN
  /\ Bmad!Compare(v("2"), v("10")) < 0 /\ Bmad!Compare(v("10"), v("10a")) < 0
  /\ Bmad!Compare(v("10a"), v("2")) < 0
ASSUME TagsAreYoung ==
  \A cache \in Caches, now \in {40, 60, 99, 100}, fetched \in {None, Tags(2)}, saves \in BOOLEAN :
    Bmad!FreshIsYoung(cache, now, fetched, saves)
ASSUME ModulesAreAskedFor ==
  \A manifest \in Manifests : /\ \A toml \in Tomls : Bmad!AskedIsDeclared(manifest, toml)
                              /\ \A v \in Released : Bmad!PinsAreKept(v, manifest)
=============================================================================

--------------------------- MODULE MCSkillInstall ---------------------------
(* The promises of SkillInstall evaluated for two releases of a skill of two
   files, on every machine made of the trees that the code tells apart. *)
LOCAL INSTANCE Naturals
LOCAL INSTANCE TLC
LOCAL Pins == [v \in {"old", "new"} |-> "SKILL.md" :> "s" @@ "hook.sh" :> v]
LOCAL Skill == INSTANCE SkillInstall WITH
  Versions <- {"old", "new"}, Paths <- {"SKILL.md", "hook.sh", ".env", "cache"},
  Sums <- {"s", "old", "new", "mine"}, Main <- "SKILL.md", Scripts <- {"hook.sh"},
  Unsafe <- {".env"}, Skipped <- {"cache"}, Pinned <- Pins,
  Events <- {"start", "end"}, None <- [none |-> TRUE]

LOCAL None == [none |-> TRUE]
LOCAL Loose(v) == [Skill!Packed(v) EXCEPT !.list = None]
LOCAL Extra(t, p) == [t EXCEPT !.files = @ @@ (p :> [sum |-> "s", exec |-> FALSE])]
LOCAL Copies(v) == {None, Skill!Packed(v),
                    [Skill!Packed(v) EXCEPT !.files["hook.sh"].sum = "mine"]}
\* The checkout's own tree: as either release exports it, edited, with a mode
\* changed, short of a file, with one too many, refused, or with a list of its own.
LOCAL Checkouts ==
  {None, Loose("old"), Loose("new"), Skill!Packed("old"),
   [Loose("new") EXCEPT !.files["hook.sh"].sum = "mine"],
   [Loose("new") EXCEPT !.files["hook.sh"].exec = FALSE],
   [Skill!Packed("new") EXCEPT !.files["hook.sh"].exec = FALSE],
   [Skill!Packed("new") EXCEPT !.files["SKILL.md"].sum = "mine"],
   [Loose("new") EXCEPT !.files = "SKILL.md" :> [sum |-> "s", exec |-> FALSE]],
   [Loose("new") EXCEPT !.files = "hook.sh" :> [sum |-> "new", exec |-> TRUE]],
   Extra(Loose("new"), ".env"), Extra(Loose("new"), "cache"),
   Extra([Loose("new") EXCEPT !.files["hook.sh"].sum = "mine"], "cache"),
   [Loose("new") EXCEPT !.owned = FALSE]}
LOCAL SomeHosts ==
  {h \in [root : {"absent", "dir", "fanout", "other"}, through : BOOLEAN,
          link : {"absent", "real", "canon", "elsewhere", "old", "new"},
          copy : {"old" :> a @@ "new" :> b : a \in Copies("old"), b \in Copies("new")},
          canon : Checkouts, armed : {{}, {"start", "end"}}] :
     h.root = "absent" => h.link = "absent"}

ASSUME SkillConstants == Skill!ExportsArePinned

ASSUME SkillPromisesHold ==
  \A h \in SomeHosts, v \in {"old", "new"}, registry \in BOOLEAN :
    /\ Skill!InstallSettles(h, v, registry)
    /\ Skill!RepairSticks(h, v)
    /\ \A hubs \in {{}, {"end"}, {"start", "end"}}, how \in Skill!Projections :
         /\ Skill!ArmedIsVerified(h, v, registry, hubs, how)
         /\ Skill!DeclinedIsUntouched(h, v, registry, hubs, how)
         /\ Skill!InUseIsKept(h, v, registry, hubs, how)

\* A checkout can be repaired, the advice of a refusal is not always right, and a
\* projector that fails too late leaves hooks whose link is gone.
ASSUME SkillCasesHappen ==
  /\ \E h \in SomeHosts : Skill!Repair(h, "new", TRUE).out = "repaired"
  /\ \E h \in SomeHosts : Skill!Repair(h, "new", TRUE).out = "error"
  /\ \E h \in SomeHosts : Skill!Install(h, "new", FALSE).out = "installed"
  /\ \E h \in SomeHosts : h.link = "old" /\ ~Skill!RepairClears(h, "new")
  /\ \E h \in SomeHosts :
       LET g == Skill!Integrate(h, "new", FALSE, {}, "late").host
       IN  h.armed = {} /\ g.armed # {} /\ g.link = "absent"
=============================================================================

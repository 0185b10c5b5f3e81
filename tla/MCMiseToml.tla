----------------------------- MODULE MCMiseToml -----------------------------
(* The promises of MiseToml evaluated on small files. *)
LOCAL INSTANCE Integers
LOCAL INSTANCE Sequences
LOCAL INSTANCE TLC
LOCAL Toml == INSTANCE MiseToml WITH Own <- {"mine", "his"}

LOCAL Def(key, commands) == [key |-> key, commands |-> commands]
LOCAL Commands == {<<"link">>, <<"op">>, <<"linkold">>, <<"writer">>, <<"inject">>, <<"mine">>,
                   <<"hooks-sync">>, <<"linkold", "mine">>, <<"writer", "his">>, <<"inject", "mine">>,
                   <<"stage", "move">>}
LOCAL Parts == {<<"writer">>, <<"linkold">>, <<"inject">>, <<"mine">>, <<"linkold", "his">>}
LOCAL Hooks == {Def("run", <<c>>) : c \in Commands}
               \cup {Def("script", <<c>>) : c \in {<<"mine">>, <<"link">>, <<"inject">>}}
               \cup {Def("scripts", <<c, d>>) : c, d \in Parts}
               \cup {Def("scripts", <<<<"stage">>, <<"move">>>>)}
               \cup {Def("task", <<<<t>>>>) : t \in {"skills-sync", "hooks-sync"}}
               \cup {Def("shell", <<<<"mine">>>>), Def("other", <<>>)}
LOCAL Few == {<<>>, <<Def("run", <<<<"link">>>>)>>, <<Def("scripts", <<<<"mine">>, <<"writer">>>>)>>,
              <<Def("run", <<<<"inject", "his">>>>)>>, <<Def("task", <<<<"hooks-sync">>>>)>>}

LOCAL None == [t \in {"link-agentfiles", "link:agentfiles", "skills-sync", "skills:sync",
                      "hooks-sync", "hooks:sync"} |-> "none"]
LOCAL Plain == [legible |-> "yes", stray |-> "none",
                hooks |-> [k \in {"enter", "leave", "cd"} |-> <<>>],
                form |-> [k \in {"enter", "leave", "cd"} |-> "tables"],
                tasks |-> None, watches |-> <<>>, watchTables |-> TRUE,
                listed |-> TRUE, path |-> <<>>]
LOCAL Hooked == {[Plain EXCEPT !.hooks["enter"] = e, !.hooks[k] = l, !.form["enter"] = f, !.form[k] = g] :
                   e \in {<<>>} \cup {<<d>> : d \in Hooks}, k \in {"leave", "cd"},
                   l \in Few, f \in {"tables", "keys", "odd"},
                   g \in {"keys", "odd"}}
                \cup {[Plain EXCEPT !.hooks["enter"] = <<d, e>>] :
                        d \in Hooks, e \in {h \in Hooks : h.key # "scripts"}}
LOCAL Tabled == {[Plain EXCEPT !.legible = "no"]}
                \cup {[Plain EXCEPT !.legible = "orphan", !.stray = x, !.tasks["link:agentfiles"] = n,
                                    !.tasks["link-agentfiles"] = o, !.tasks["hooks-sync"] = t, !.watches = w] :
                        x \in {"none", "line", "inline"},
                        n \in {"none", "managed", "linking", "own", "odd"},
                        o \in {"none", "linking", "own"}, t \in {"none", "own", "odd"},
                        w \in {<<>>} \cup [1 .. 2 -> {"managed", "linking", "skills", "own"}]}
                \cup {[Plain EXCEPT !.watches = w, !.watchTables = b, !.listed = p, !.path = q,
                                    !.tasks["hooks:sync"] = t, !.tasks["hooks-sync"] = u] :
                        w \in {<<>>, <<"old">>, <<"own", "old", "managed">>}, b, p \in BOOLEAN,
                        q \in {<<>>, <<"bin">>, <<"agents/hermes/pm", "bin">>},
                        t, u \in {"none", "own"}}

LOCAL Holds(owner, file) ==
  LET r == Toml!Settled(owner, file) IN
  /\ Toml!NeverSplit(owner, file, r) /\ Toml!HandsKept(owner, file, r)
  /\ Toml!InstalledOnce(owner, file, r) /\ Toml!SecondRunRests(owner, r)

ASSUME HooksAreEdited == \A file \in Hooked : /\ \A owner \in {"link", "op", "out"} : Holds(owner, file)
                                              /\ Toml!OwnersAgree(file)
ASSUME TablesAreEdited == \A file \in Tabled, owner \in {"link", "op"} : Holds(owner, file)

LOCAL Enter(d) == [Plain EXCEPT !.hooks["enter"] = <<d>>]
LOCAL Refuses(owner, file) == Toml!Settled(owner, file) = Toml!Refused
\* The guard is needed: these are refused by what the rewritten file would mean.
ASSUME GuardRefuses ==
  /\ Refuses("link", Enter(Def("scripts", <<<<"linkold", "mine">>, <<"writer">>>>)))
  /\ Refuses("op", Enter(Def("scripts", <<<<"inject">>, <<"stage">>, <<"move">>>>)))
  /\ Refuses("op", [Plain EXCEPT !.stray = "inline"])
  /\ Refuses("link", [Plain EXCEPT !.tasks["hooks-sync"] = "odd"])
  /\ ~Refuses("link", Enter(Def("scripts", <<<<"mine">>, <<"writer">>>>)))
\* A hook that only the first owner has joined is dropped whole by the second: what was
\* the operator's in it is lost, and would not be if the second came first.
ASSUME JoinedIsLost ==
  LET file == Enter(Def("scripts", <<<<"inject">>, <<"mine">>>>))
      Mine(f) == \E i \in DOMAIN f.hooks["enter"] : \E j \in DOMAIN f.hooks["enter"][i].commands :
                   \E k \in DOMAIN f.hooks["enter"][i].commands[j] :
                     f.hooks["enter"][i].commands[j][k] = "mine" IN
  /\ ~Mine(Toml!Settled("op", Toml!Settled("link", file)))
  /\ Mine(Toml!Settled("link", Toml!Settled("op", file)))
=============================================================================

--------------------------- MODULE MCCrankSwitch ---------------------------
(* Three spellings, two of them of one name; two projects; two tabs. *)
EXTENDS CrankSwitch, TLC
CONSTANTS t, u, c1, c2

MCKeys == {"Navi", "navi", "IPM: Navi"}
MCCanon == [k \in MCKeys |-> IF k = "IPM: Navi" THEN "ipmnavi" ELSE "navi"]
MCSides == [k \in MCKeys |-> IF k = "IPM: Navi" THEN {"ipm", "navi"} ELSE {"navi"}]
MCAkin == {<<c, c>> : c \in {"navi", "ipmnavi", "ipm"}} \cup {<<"ipm", "ipmnavi">>, <<"ipmnavi", "ipm">>}
MCProjects == {"navi", "ipm"}
MCNameOf == [p \in MCProjects |-> IF p = "navi" THEN "navi" ELSE "IPM: Navi"]
MCHandles == [p \in MCProjects |-> IF p = "navi" THEN <<>> ELSE <<"ipm">>]

\* One caller stands in navi, the other in either project.
MCWorks == (c1 :> {"navi"}) @@ (c2 :> MCProjects)

Spelled(a, b, c) == "Navi" :> a @@ "navi" :> b @@ "IPM: Navi" :> c
\* Nothing yet; two spellings in disagreement on switch and pane; all on, with a run.
MCLegacy ==
  {[on |-> Spelled("none", "none", "none"), pane |-> Spelled("none", "none", "none"),
    log |-> Spelled({}, {}, {})],
   [on |-> Spelled("on", "off", "none"), pane |-> Spelled("off", "on", "none"),
    log |-> Spelled({1, 3}, {2}, {})],
   [on |-> Spelled("on", "on", "on"), pane |-> Spelled("none", "off", "on"),
    log |-> Spelled({}, {1}, {2})]}

\* Tab t is called Navi and is navi's own, shared, or nobody's; or it is closed.
\* Tab u has another name of the same words and is ipm's, or nobody's.
MCArranged ==
  {<<t :> "Navi" @@ u :> "IPM: Navi", t :> {"navi"} @@ u :> {"ipm"}>>,
   <<t :> "Navi" @@ u :> "IPM: Navi", t :> {"navi", "ipm"} @@ u :> {}>>,
   <<t :> "IPM: Navi" @@ u :> Closed, t :> {"navi"} @@ u :> {}>>,
   <<t :> Closed @@ u :> Closed, t :> {} @@ u :> {}>>}
=============================================================================

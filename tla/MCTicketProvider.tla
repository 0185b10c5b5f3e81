-------------------------- MODULE MCTicketProvider --------------------------
(* The promises of TicketProvider evaluated for every block and small host. *)
LOCAL INSTANCE Naturals
LOCAL INSTANCE Sequences
LOCAL No == "none"
LOCAL Tickets == INSTANCE TicketProvider WITH
  Boards <- {"x", "y"}, Identifiers <- {"AA", "BB"}, Values <- {"k", "l"},
  Workspaces <- {"PLANE_33GOD_API_KEY"}, None <- No
LOCAL God == "PLANE_33GOD_API_KEY"
LOCAL Plain == "PLANE_API_KEY"

LOCAL Asked == [type : {No, "plane", "trello"}, board : {No, "x", "y"}, identifier : {No, "AA", "BB"}]
LOCAL Nothing == [type |-> No, board |-> No, identifier |-> No]
LOCAL Text(v) == [of |-> v, comment |-> FALSE]
LOCAL Line(name, text) == [name |-> name, text |-> text, spaced |-> FALSE]
LOCAL Environments == [{Plain, God} -> {Tickets!Empty, Text("k"), Text("l")}]
LOCAL Files == {<<>>} \cup {<<l>> : l \in [name : {Plain, God}, text : Tickets!Texts, spaced : BOOLEAN]}
LOCAL Fleets == Files \cup {<<Line(God, Tickets!Empty), Line(God, t)>> : t \in Tickets!Texts}
                      \cup {<<Line(Plain, Text("l")), Line(God, t)>> : t \in Tickets!Texts}
LOCAL Hosts == {[env |-> e, repo |-> r, fleet |-> f, secrets |-> s] :
                  e \in Environments, f \in Fleets, r \in {<<>>, <<Line(Plain, Text("l"))>>},
                  s \in {<<>>, <<Line(Plain, Text("k"))>>, <<Line(God, Text("l"))>>}}

ASSUME ClaimsAreHonest ==
  \A old \in Tickets!Blocks, asked \in Asked : Tickets!PlansAreHonest(old, asked)
ASSUME KeysAgree ==
  \A host \in Hosts : /\ Tickets!QueriesUseTheAgentsKey(host, God)
                      /\ Tickets!CreationIsNoNarrower(host, God)

\* One board of Trello is linked; a plan for another one keeps the instant, so
\* that its own run says the other one is linked. Another provider: at once.
ASSUME ClaimsMove ==
  LET old == Tickets!Linked(Tickets!Build("trello", "AA", "proposed", FALSE, No, {}), "trello", "x", "AA")
      other == Tickets!Planned(old, [Nothing EXCEPT !.board = "y"])
      plane == Tickets!Linked(old, "plane", "x", "AA")
      trello == Tickets!Planned(plane, [Nothing EXCEPT !.type = "trello"])
  IN /\ other.state = "planned" /\ Tickets!Refreshed(other, other).state = "linked"
     /\ Tickets!Planned(other, Nothing).state = "linked"
     /\ ~ Tickets!Honest(Tickets!Refreshed(other, other))
     /\ trello.state = "linked" /\ ~ Tickets!Honest(trello)

\* The key of this workspace in the environment, a plain one in the fleet's
\* file: the board is created with the plain one. Only a plain one there: pj
\* reads boards that the agents cannot.
ASSUME KeysDiffer ==
  LET host(v) == [env |-> [n \in {Plain, God} |-> IF n = God THEN v ELSE Tickets!Empty], repo |-> <<>>,
                  fleet |-> <<Line(Plain, Text("l"))>>, secrets |-> <<>>]
  IN /\ Tickets!CreationKey(host(Text("k")), God) = Text("l")
     /\ Tickets!QueryKey(host(Text("k")), God) = Text("k")
     /\ Tickets!QueryKey(host(Tickets!Empty), God) # Tickets!Empty
     /\ Tickets!AdapterKey(host(Tickets!Empty).env, host(Tickets!Empty).fleet, God) = Tickets!Empty
=============================================================================

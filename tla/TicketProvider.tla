--------------------------- MODULE TicketProvider ---------------------------
(* What pjangler says of a project's board and to whom it speaks: the block of a
   record that claims a board, what a plan makes of the one it finds
   (project/index.ts), and the three places that look for Plane's key: pj's own
   queries (project/boardQuery.ts), the creation of a board, and the adapter
   that both the creation and the agents run (providers/plane.sh). *)
EXTENDS Naturals, Sequences

CONSTANTS Boards, Identifiers,
          Values,       \* keys of the provider's interface
          Workspaces,   \* the variable of a workspace is named after it
          None

---------------------------------------------------------------------------
(* Claims. confirmed holds the board that the provider's answer was about,
   or nothing; the code keeps its instant only. *)

Providers == {"plane", "trello"}
Assigns(type) == type = "plane"
BoardsOf == [type : Providers, board : Boards]
Blocks == [type : Providers, identifier : Identifiers, source : {"provider", "proposed"},
           fetched : BOOLEAN, board : Boards \cup {None}, confirmed : {{}} \cup {{b} : b \in BoardsOf},
           state : {"planned", "linked"}]

\* buildTicketProviderBlock: a key read back for this board confirms it.
Build(type, identifier, source, fetched, board, confirmed) ==
  LET read == source = "provider" /\ fetched
      sure == IF confirmed # {} THEN confirmed
              ELSE IF read /\ board # None THEN {[type |-> type, board |-> board]} ELSE {}
  IN [type |-> type, identifier |-> identifier, source |-> source, fetched |-> read,
      board |-> board, confirmed |-> sure,
      state |-> IF /\ board # None /\ sure # {}
                   /\ Assigns(type) => source = "provider" THEN "linked" ELSE "planned"]

\* validateProjectRecord, R3 to R3b.
LegalBlock(b) ==
  /\ b.state = "linked" => b.board # None /\ b.confirmed # {}
  /\ b.source = "provider" => b.fetched
  /\ (b.state = "linked" /\ Assigns(b.type)) => b.source = "provider"

IsBoardConfirmed(b) == b.board # None /\ b.confirmed # {} /\ b.state = "linked"

\* A block over the one a record has: instants it does not give stay.
Over(old, block) ==
  [block EXCEPT !.fetched = @ \/ old.fetched,
                !.confirmed = IF @ = {} THEN old.confirmed ELSE @]

\* The claims of a plan for a record, asked a type, a board, an identifier or none.
Planned(old, asked) ==
  LET type == IF asked.type # None THEN asked.type ELSE old.type
      board == IF asked.board # None THEN asked.board ELSE old.board
      identifier == IF asked.identifier # None THEN asked.identifier ELSE old.identifier
      read == old.source = "provider" /\ old.identifier = identifier /\ old.board = board
  IN Over(old, Build(type, identifier, IF read THEN "provider" ELSE "proposed", read /\ old.fetched,
                     board, IF board # None /\ old.board = board THEN old.confirmed ELSE {}))

\* pj project link, the board having answered.
Linked(old, type, board, identifier) ==
  Over(old, Build(type, identifier, IF Assigns(type) THEN "provider" ELSE "proposed", Assigns(type),
                  board, {[type |-> type, board |-> board]}))

\* refreshPlanFromCanonicalManifest, later in the run of the plan: the claims of
\* the manifest's block, with what is recorded of the same board.
Refreshed(recorded, manifest) ==
  LET same == recorded.identifier = manifest.identifier /\ recorded.board = manifest.board
      source == IF same THEN recorded.source ELSE "proposed"
      sure == IF manifest.confirmed # {} THEN manifest.confirmed
              ELSE IF recorded.board = manifest.board THEN recorded.confirmed ELSE {}
  IN [manifest EXCEPT
        !.source = source, !.fetched = same /\ source = "provider" /\ recorded.fetched,
        !.confirmed = sure,
        !.state = IF /\ manifest.board # None /\ sure # {}
                     /\ Assigns(manifest.type) => source = "provider" THEN "linked" ELSE "planned"]

---------------------------------------------------------------------------
(* Keys. A text of a file is a value, maybe with a comment behind it, or empty;
   spaced is a line with blanks about its equals sign. *)

Names(ws) == {"PLANE_API_KEY", ws}
Empty == [of |-> None, comment |-> FALSE]
Texts == [of : Values, comment : BOOLEAN] \cup {Empty}
Lines == [name : {"PLANE_API_KEY"} \cup Workspaces, text : Texts, spaced : BOOLEAN]
Environments == [{"PLANE_API_KEY"} \cup Workspaces -> Texts]
Hosts == [env : Environments, repo : Seq(Lines), fleet : Seq(Lines), secrets : Seq(Lines)]

FirstText(file, found) ==
  LET hits == {i \in DOMAIN file : found[i]}
  IN IF hits = {} THEN Empty ELSE file[CHOOSE i \in hits : \A j \in hits : i <= j].text

\* readShellAssignments: the first line that assigns something, without comment.
Assigned(file, name) ==
  LET text == FirstText(file, [i \in DOMAIN file |-> /\ file[i].name = name /\ ~ file[i].spaced
                                                     /\ file[i].text # Empty])
  IN IF text = Empty THEN Empty ELSE [text EXCEPT !.comment = FALSE]

\* dotenvValue and the adapter's dotenv_value: the first line, as it is.
DotenvValue(file, name) == FirstText(file, [i \in DOMAIN file |-> file[i].name = name])

FirstOf(texts) ==
  FirstText([i \in DOMAIN texts |-> [text |-> texts[i]]], [i \in DOMAIN texts |-> texts[i] # Empty])

\* resolveTicketProviderCredentials: every name from the first place that has it.
Credentials(host, ws) ==
  [name \in Names(ws) |->
     FirstOf(<<host.env[name], Assigned(host.repo, name), Assigned(host.fleet, name),
               Assigned(host.secrets, name)>>)]

\* plane.sh: the plain name of the environment, else the workspace's.
AdapterKey(env, fleet, ws) ==
  FirstOf(<<env["PLANE_API_KEY"], env[ws], DotenvValue(fleet, ws)>>)

\* provisionTicketProviderBoard runs the adapter with all that was found; Empty
\* is a board not created, and no failure.
CreationKey(host, ws) ==
  LET found == Credentials(host, ws)
      env == [name \in DOMAIN host.env |->
                IF name \in Names(ws) /\ found[name] # Empty THEN found[name] ELSE host.env[name]]
  IN IF \A name \in Names(ws) : found[name] = Empty THEN Empty
     ELSE AdapterKey(env, host.fleet, ws)

\* resolvePlaneApiKey, and planeApiKeyFor with the workspace it falls back to.
QueryKey(host, ws) ==
  FirstOf(<<host.env["PLANE_API_KEY"], host.env[ws], DotenvValue(host.fleet, ws),
            DotenvValue(host.fleet, "PLANE_API_KEY")>>)
IdentityKey(host, ws, default) == FirstOf(<<QueryKey(host, ws), QueryKey(host, default)>>)

---------------------------------------------------------------------------
(* What holds *)

\* What a block calls confirmed is its own board.
Honest(b) == b.confirmed \subseteq {[type |-> b.type, board |-> b.board]}

\* A plan makes a legal record of a legal one, whatever it is asked, and a claim
\* is still about its board as long as provider and board stay; a link that
\* nothing contradicts is not lost (the inherited provenance of planProjectInit).
PlansAreHonest(old, asked) ==
  LET new == Planned(old, asked) IN
  LegalBlock(old) =>
    /\ LegalBlock(new) /\ LegalBlock(Refreshed(new, new)) /\ LegalBlock(Refreshed(old, new))
    /\ (asked.type \in {None, old.type} /\ asked.board \in {None, old.board}) =>
         /\ (Honest(old) => Honest(new) /\ Honest(Refreshed(old, new)))
         /\ (IsBoardConfirmed(old) /\ asked.identifier \in {None, old.identifier})
              => IsBoardConfirmed(new)
    /\ \A type \in Providers, board \in Boards, identifier \in Identifiers :
         LET b == Linked(new, type, board, identifier)
         IN LegalBlock(b) /\ Honest(b) /\ IsBoardConfirmed(b)

\* pj reads a board with the key that the agents write it with, if they have one
\* ("The chain mirrors ... exactly", boardQuery.ts).
QueriesUseTheAgentsKey(host, ws) ==
  AdapterKey(host.env, host.fleet, ws) # Empty
    => QueryKey(host, ws) = AdapterKey(host.env, host.fleet, ws)

\* Where the adapter finds a key, the creation of a board does, but for lines
\* with blanks about the sign, and it is the same key unless a file has the plain
\* name, which comes first once it is in the environment.
CreationIsNoNarrower(host, ws) ==
  LET alone == AdapterKey(host.env, host.fleet, ws)
      named(file, name) == {i \in DOMAIN file : file[i].name = name}
      plain == \E f \in {host.repo, host.fleet, host.secrets} : named(f, "PLANE_API_KEY") # {}
      odd == \E i \in named(host.fleet, ws) : host.fleet[i].spaced \/ host.fleet[i].text = Empty
               \/ host.fleet[i].text.comment
  IN (alone # Empty /\ ~ odd) =>
       /\ CreationKey(host, ws) # Empty
       /\ (~ plain /\ named(host.repo, ws) = {}) => CreationKey(host, ws) = alone
=============================================================================

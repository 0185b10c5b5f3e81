------------------------- MODULE MCCopierPreflight -------------------------
(* The promises of CopierPreflight evaluated for every PATH of three entries. *)
LOCAL INSTANCE Naturals
LOCAL INSTANCE Sequences
LOCAL INSTANCE TLC
LOCAL Where == {"shims", "bin", "tool", "repo"}
LOCAL Pieces == {"launcher", "interpreter", "pyvenv.cfg", "receipt", "METADATA",
                 "entry_points", "RECORD", "main", "escape", "extra"}
LOCAL Copier == INSTANCE CopierPreflight WITH
  Places <- Where, Files <- Pieces, Outside <- {"escape"}, Contents <- {1, 2}

LOCAL At == {e \in [at : Where, is : {"none", "file", "link"},
                    leads : [at : {"tool", "repo"}, mise : BOOLEAN]] :
               e.is = "link" \/ e.leads = [at |-> "tool", mise |-> FALSE]}
LOCAL Tool == [script |-> TRUE, inside |-> TRUE, managed |-> TRUE, receipt |-> TRUE,
               sites |-> 1, dists |-> 1, nine |-> TRUE, entry |-> TRUE,
               record |-> [f \in {"launcher", "METADATA", "main"} |-> 1],
               disk |-> [f \in Pieces \ {"escape"} |-> 1]]
\* The tool as it should be, and with one thing wrong.
LOCAL Tools ==
  {Tool, [Tool EXCEPT !.script = FALSE], [Tool EXCEPT !.dists = 2],
   [Tool EXCEPT !.record = @ @@ "escape" :> 1],
   [Tool EXCEPT !.record = [f \in {"launcher"} |-> 1]]}
  \cup {[Tool EXCEPT !.disk[f] = 2] : f \in DOMAIN Tool.disk}
  \cup {[Tool EXCEPT !.disk = [g \in DOMAIN @ \ {f} |-> 1]] : f \in DOMAIN Tool.disk}
LOCAL Paths == UNION {[1 .. n -> At] : n \in 0 .. 3}

ASSUME CopierIsTheFirst == \A path \in Paths : Copier!WalkIsFirst(path)
ASSUME CopierIsTheTool ==
  \A path \in Paths, inside \in {{"repo"}, {"repo", "shims"}, {"repo", "tool"}} :
    Copier!PassIsTheTool(path, inside, Tool)
ASSUME CopierIsPinned ==
  \A e \in At, t \in Tools, later \in Tools : Copier!PinNotices(<<e>>, {"repo"}, t, later)

\* A tool behind a shim is found; one with a file exchanged since is refused.
ASSUME CopierCasesHappen ==
  /\ \E path \in Paths : /\ Copier!Preflight(path, {"repo"}, Tool).ok
                         /\ Copier!Walk(path).skipped # {}
  /\ \E t \in Tools \ {Tool} : Copier!Preflight(<<[at |-> "tool", is |-> "file",
                                 leads |-> [at |-> "tool", mise |-> FALSE]]>>, {}, t).ok
=============================================================================

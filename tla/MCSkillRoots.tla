---------------------------- MODULE MCSkillRoots ----------------------------
(* Two aliases, one skill.  The layouts at the start meet every operation of   *)
(* the planner: the first alias holds what can be moved, rewritten or dropped, *)
(* the second what it collides with.                                           *)
EXTENDS SkillRoots

CONSTANTS claude, gemini

AliasesDef == {claude, gemini}
AliasNodesDef == (claude :> {None, Dir, Link("lost")}) @@ (gemini :> {None, Dir})
EntryNodesDef ==
  (claude :> {Link("odd"), Link("root"), Link("lost"), Real({1}, FALSE)})
    @@ (gemini :> {Link("abs"), Real({1, 2}, FALSE), Real({2}, FALSE), Real({1}, TRUE)})
RootNodesDef == {None, Dir}
RootEntriesDef == {None, Real({1}, FALSE)}
=============================================================================

--------------------------- MODULE MCBoardIdentity ---------------------------
(* A small instance of the identity commands for TLC, and the promises of the
   ticket provider's claims and keys (MCTicketProvider), which its run evaluates. *)
EXTENDS BoardIdentity, TLC, MCTicketProvider

CONSTANTS pa, pb, pt, b1, b2, b3, w1, w2, k1, k2

Slug3 == {pa, pb, pt}
MCListed == [s \in Slug3 |-> IF s = pb THEN 1 ELSE IF s = pa THEN 2 ELSE 3]
MCSorted == <<pa, pb, pt>>
MCTypeOf == [s \in Slug3 |-> IF s = pt THEN "trello" ELSE "plane"]
MCHome == (b1 :> w1) @@ (b2 :> w2)
MCNamed == {<<pa, b2>>}
MCAgent == [s \in Slug3 |-> IF s = pb THEN b1 ELSE None]
MCInitialKey == (b1 :> k1) @@ (b2 :> k2)

Binding(board, ws, key, source, state, stamp) ==
  [board |-> board, ws |-> ws, key |-> key, source |-> source, state |-> state,
   stamp |-> stamp]

Stray == Binding(None, w1, k1, "provider", "planned", b1)
OnB == Binding(b1, w1, k1, "provider", "linked", b1)
OnC == Binding(b2, w2, k2, "provider", "linked", b2)
OnD == Binding(b3, w1, k1, "proposed", "linked", b3)
Keyless == Binding(b3, w1, None, None, "planned", None)

MCRecords == [s \in Slug3 |->
  IF s = pa THEN {Stray, OnB}
  ELSE IF s = pb THEN {OnB, OnC}
  ELSE {OnD}]
MCEdits == [s \in Slug3 |-> IF s = pa THEN {OnC} ELSE IF s = pt THEN {Keyless} ELSE {}]
MCScopes == {Slug3, {pa}}
==============================================================================

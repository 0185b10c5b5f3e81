-------------------------- MODULE MCCaptureReceipts --------------------------
(* Instances of CaptureReceipts for TLC. *)
EXTENDS CaptureReceipts, TLC

CONSTANTS s1, s2, w1, w2

CaptureSymmetry == Permutations(Sessions) \cup Permutations(Workers)

\* Nothing reads how a success came about.
Seen(r) ==
    IF r # None /\ r.state = "succeeded"
    THEN [r EXCEPT !.origin = "automatic", !.used = 0, !.manual = 0, !.ref = "none"]
    ELSE r
CaptureView == <<baseline, starting, [s \in Sessions |-> Seen(receipt[s])], journals, workers, faults>>
=============================================================================

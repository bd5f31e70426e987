----------------------------- MODULE MCRedaction ------------------------------
(* A small instance of Redaction.                                          *)
EXTENDS Redaction, TLC

CONSTANTS c1, c2, w1, w2, a1, r1

\* The value of w1 is a part of that of w2.
MCWithin == {<<w1, w2>>}
MCLength == (w1 :> 1) @@ (w2 :> 3) @@ (Silent :> 1)
MCLower == [h \in Host |-> h]
=============================================================================

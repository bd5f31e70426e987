------------------------------ MODULE MCEgress -------------------------------
(* Small instances of Egress.                                              *)
EXTENDS Egress, TLC

CONSTANTS c1, c2, w1, w2, a1, a2, q1

\* One hostname in two spellings, and the two that never leave.
MCLower == [h \in Host |-> IF h = "API" THEN "api" ELSE h]

\* Any credentials to a plain host, securely; all of them insecurely, and to
\* the server itself; nothing to the internal hostname but its path.
MCAsked ==
    {<<names, "api", TRUE>> : names \in SUBSET Credential}
        \cup {<<Credential, "api", FALSE>>, <<Credential, "own", TRUE>>, <<{}, "opti.internal", TRUE>>}

MCSymmetry == Permutations(Credential) \cup Permutations(Save) \cup Permutations(Approval)
=============================================================================

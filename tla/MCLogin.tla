------------------------------ MODULE MCLogin --------------------------------
(* Small instances of Login.                                               *)
EXTENDS Login, TLC

CONSTANTS v1, v2, x1, x2, d1, d2, d3, i1, i2, k1, k2, k3

MCSymmetry ==
    Permutations(Visit) \cup Permutations(Client) \cup Permutations(Code)
        \cup Permutations(Identity) \cup Permutations(Callback)
=============================================================================

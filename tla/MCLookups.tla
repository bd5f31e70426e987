------------------------------ MODULE MCLookups -------------------------------
(* Small instances of Lookups.                                             *)
EXTENDS Lookups, TLC

CONSTANTS k1, k2, k3, s1

\* Keys are "a", "a_" and "ab", of characters in their order; "A" is none.
Underscore == 95
A == 97
B == 98
MCKeyChar == {Underscore, A, B}
MCSpelling == {<<A>>, <<A, Underscore>>, <<A, B>>, <<65>>}

MCAsked ==
    (k1 :> {<<"set", <<A>>>>, <<"set", <<A, B>>>>})
 @@ (k2 :> {<<"set", <<A>>>>, <<"set", <<A, Underscore>>>>, <<"delete", <<A>>>>, <<"delete", <<65>>>>})
 @@ (k3 :> {<<"get", <<A>>>>, <<"delete", <<A>>>>, <<"set", <<A>>>>, <<"list", <<A>>>>,
            <<"list", <<>>>>, <<"list", <<A, Underscore>>>>})
MCSize == (k1 :> 1) @@ (k2 :> 1) @@ (k3 :> 2)

MCScore == [q \in Query |-> [e \in Name |->
    IF q # "exact" THEN 0
    ELSE CASE e = "fetch" -> 100 [] e = "runs" -> 40 [] OTHER -> 10]]
MCOrder == {<<"fetch", "runs">>, <<"fetch", "pack">>, <<"pack", "runs">>}
=============================================================================

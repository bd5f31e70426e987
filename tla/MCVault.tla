------------------------------- MODULE MCVault --------------------------------
(***************************************************************************)
(* Small instances of VaultCalls.                                          *)
(***************************************************************************)
EXTENDS VaultCalls, TLC

CONSTANTS k1, k2, e1

MCName == {"a", "ab", "m", "n", "vault"}
MCLonger == {<<"a", "ab">>}
MCFolder == {<<"a">>}
MCFile == {<<"a", "n">>, <<"ab", "m">>, <<"ab", "n">>}
MCFirst == {<<"ab", "m">>, <<"ab", "n">>}
MCKind == (k1 :> {"write"}) @@ (k2 :> Verb)
MCPath == {<<"a", "n">>, <<"ab", "n">>, <<"a", "..", "ab", "n">>}
=============================================================================

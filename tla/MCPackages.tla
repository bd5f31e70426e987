----------------------------- MODULE MCPackages -----------------------------
(***************************************************************************)
(* Small instances of Packages.  One has a single package that two         *)
(* conversations edit and publish at once (files of every kind, both       *)
(* languages); the other has two packages of which one imports the other.  *)
(***************************************************************************)
EXTENDS Packages, TLC

CONSTANTS good, partial, throwing, uses, wrap, a, b, storage, s1, s2

Conversations == Permutations(Session)

Ts(stem) == [stem |-> stem, ext |-> "ts"]
Js(stem) == [stem |-> stem, ext |-> "js"]
FilesOf(paths, content) == [p \in paths |-> content]

\* What the contents are: `partial` has one export of the two, `uses` imports
\* the export "list" of package b.
MCDefines == [c \in Content |->
    CASE c = partial -> {"run"}
      [] c = wrap    -> {"run"}
      [] OTHER       -> {"run", "list"}]
MCNeeds == [c \in Content |-> IF c = uses THEN {<<b, "list">>} ELSE {}]
MCThrows == {throwing} \cap Content

\* One package, edited and published by two conversations.
RaceSource ==
    {[files |-> FilesOf({Ts("index")}, good),
      manifest |-> [summary |-> "first", exports |-> {"run", "list"}]],
     [files |-> FilesOf({Ts("index")}, good),
      manifest |-> [summary |-> "", exports |-> {"run"}]],
     [files |-> FilesOf({Ts("run")}, good),
      manifest |-> [summary |-> "first", exports |-> {"run"}]]}
RaceFileEdit ==
    {[path |-> Ts("index"), content |-> partial],
     [path |-> Js("index"), content |-> good],
     [path |-> Ts("run"),   content |-> good],
     [path |-> Js("run"),   content |-> throwing]}
RaceManifestEdit ==
    {[summary |-> "second"], [summary |-> ""], [exports |-> {"run"}], [exports |-> {}]}

\* Two packages, of which one may import the other.
ImportSource ==
    {[files |-> FilesOf({Ts("index")}, good),
      manifest |-> [summary |-> "first", exports |-> {"run", "list"}]]}
ImportFileEdit ==
    {[path |-> Ts("index"), content |-> uses],
     [path |-> Js("run"),   content |-> uses]}
ImportManifestEdit == {[exports |-> {"run"}]}
=============================================================================

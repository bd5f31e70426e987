------------------------------ MODULE Manifest ------------------------------
(***************************************************************************)
(* The pure rules of the package store (packages/Manifest.ts): which files *)
(* and which manifest a package may have, which file is its entry, and     *)
(* what a source path is called once publish has emitted it.               *)
(*                                                                         *)
(* A path keeps its stem and its extension apart, because the rules only   *)
(* look at "index", ".ts" and ".js".  A file's content is a model value.   *)
(* A manifest keeps its two halves: the summary and the set of export      *)
(* names; of the ill-formed exports checkManifest refuses, the empty list  *)
(* stands for all.                                                         *)
(***************************************************************************)
CONSTANTS
    Stem,           \* file paths without their extension
    IndexStem,      \* the stem of an index file
    Content,        \* what a file may contain
    Summary,        \* the summary lines a manifest may carry
    Blank,          \* a summary that is empty once trimmed
    ExportName      \* the names a manifest may declare

ASSUME StemAssumption    == IndexStem \in Stem
ASSUME SummaryAssumption == Blank \in Summary

Path     == [stem : Stem, ext : {"ts", "js"}]
FileSet  == UNION {[P -> Content] : P \in SUBSET Path}
ManifestRecord == [summary : Summary, exports : SUBSET ExportName]

IndexTs == [stem |-> IndexStem, ext |-> "ts"]
IndexJs == [stem |-> IndexStem, ext |-> "js"]

\* entryFile: null is ~HasEntry, and EntryFile is meant only where HasEntry.
HasEntry(paths)  == IndexTs \in paths \/ IndexJs \in paths
EntryFile(paths) == IF IndexTs \in paths THEN IndexTs ELSE IndexJs

\* emittedPath: a trailing .ts becomes .js, anything else stays.
EmittedPath(path) == [path EXCEPT !.ext = "js"]

\* checkFiles: at least one file, an index, and not two of them.
CheckFiles(files) ==
    /\ DOMAIN files # {}
    /\ HasEntry(DOMAIN files)
    /\ ~ (IndexTs \in DOMAIN files /\ IndexJs \in DOMAIN files)

\* checkManifest: each half is judged by itself.
CheckManifest(manifest) ==
    /\ manifest.summary # Blank
    /\ manifest.exports # {}
=============================================================================

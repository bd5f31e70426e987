--------------------------- MODULE PublishChecks ---------------------------
(***************************************************************************)
(* What the publish pipeline asks of a package before it may go live:      *)
(* the in-worker compiler (publish/Compile.ts with the declaration files   *)
(* and the conformance check of publish/Signatures.ts), the boot probe in  *)
(* an isolate (packages/Publish.ts, runner/VirtualModule.ts) and the       *)
(* missing-export check.  A file's content is known by the names it        *)
(* exports, the exports of other packages it imports, and whether it       *)
(* throws while it is imported.  The entry is taken to reach every file    *)
(* of its package.                                                         *)
(***************************************************************************)
EXTENDS Manifest

CONSTANTS
    Name,       \* package names
    Defines,    \* Defines[c]: the exports of a module with content c
    Needs,      \* Needs[c]: the <<package, export>> pairs content c imports
    Throws      \* contents that throw at import time

ASSUME ContentAssumption ==
    /\ Defines \in [Content -> SUBSET ExportName]
    /\ Needs \in [Content -> SUBSET (Name \X ExportName)]
    /\ Throws \subseteq Content

Source   == [files : FileSet, manifest : ManifestRecord]
Snapshot == [manifest : ManifestRecord, entry : Path, files : FileSet]

----------------------------------------------------------------------------
\* The emitted files: every source file under its emitted path.
EmitFiles(files) ==
    [q \in {EmittedPath(p) : p \in DOMAIN files} |->
        files[CHOOSE p \in DOMAIN files : EmittedPath(p) = q]]

\* The program the published pointer would serve.
Build(source) ==
    [manifest |-> source.manifest,
     entry    |-> EmittedPath(EntryFile(DOMAIN source.files)),
     files    |-> EmitFiles(source.files)]

\* tsc refuses to write one output from two inputs.
EmitsCleanly(files) ==
    \A p, q \in DOMAIN files : EmittedPath(p) = EmittedPath(q) => p = q

\* The conformance check: the module has what its manifest declares.
Conforms(source) ==
    source.manifest.exports \subseteq Defines[source.files[EntryFile(DOMAIN source.files)]]

\* compile: the TypeScript files are checked against the declarations of the
\* other published packages; allowJs without checkJs lets JavaScript through.
Compiles(source, others) ==
    /\ EmitsCleanly(source.files)
    /\ Conforms(source)
    /\ \A p \in DOMAIN source.files : p.ext = "ts" =>
          \A need \in Needs[source.files[p]] :
             /\ need[1] \in DOMAIN others
             /\ need[2] \in others[need[1]].manifest.exports

----------------------------------------------------------------------------
\* What the packages a module map holds import, by name.
NeedsOf(snapshot) == UNION {Needs[snapshot.files[q]] : q \in DOMAIN snapshot.files}

\* The alias module re-exports the manifest's names from the entry.
AliasLinks(snapshot) ==
    /\ snapshot.entry \in DOMAIN snapshot.files
    /\ snapshot.manifest.exports \subseteq Defines[snapshot.files[snapshot.entry]]

\* Evaluating package n of the module map works: n and all it reaches, in a
\* set closed under imports, link to each other and none throws.
Loads(n, map) ==
    \E closed \in SUBSET DOMAIN map :
        /\ n \in closed
        /\ \A m \in closed :
             /\ AliasLinks(map[m])
             /\ \A q \in DOMAIN map[m].files : map[m].files[q] \notin Throws
             /\ \A need \in NeedsOf(map[m]) :
                   need[1] \in closed /\ need[2] \in map[need[1]].manifest.exports

\* build: the others and the candidate, side by side in one module map.
WithCandidate(n, candidate, others) ==
    [m \in DOMAIN others \cup {n} |-> IF m = n THEN candidate ELSE others[m]]

\* Mutants: the probe is not booted; the candidate is judged on its own.
PassesCompilerOnly(n, source, others) == Compiles(source, others)
PassesOnItsOwn(n, source, others) ==
    /\ EmitsCleanly(source.files)
    /\ Conforms(source)

\* The pipeline's verdict on a source, given the others it was shown.
PassesChecks(n, source, others) ==
    /\ Compiles(source, others)
    /\ Loads(n, WithCandidate(n, Build(source), others))

\* What a passed pipeline leaves standing of the source itself, whatever
\* becomes of the packages it imports.
Vetted(source) ==
    /\ EmitsCleanly(source.files)
    /\ Conforms(source)
    /\ \A p \in DOMAIN source.files : source.files[p] \notin Throws

\* A program that serves: its entry has every declared export, nothing throws.
Sound(program) ==
    /\ AliasLinks(program)
    /\ \A q \in DOMAIN program.files : program.files[q] \notin Throws
=============================================================================

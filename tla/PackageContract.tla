--------------------------- MODULE PackageContract ---------------------------
(***************************************************************************)
(* What the package lifecycle promises, as if every operation happened at  *)
(* once.  `work` is what an owner edits, `live` is what runs import.  An   *)
(* edit changes one file or the manifest and never what is live; publish   *)
(* looks at the working copy, judges it and builds it in one step, so what *)
(* goes live is always the build of a working copy that deserved it, and   *)
(* of the one that is current then.  (The pipeline of packages/Publish.ts  *)
(* reads, judges and commits in separate steps between which edits land.)  *)
(***************************************************************************)
EXTENDS PublishChecks

CONSTANTS
    NoPackage,      \* the working copy of a name nobody created
    NoProgram       \* what a name serves that was never published

VARIABLES work, live

Publishable(source) ==
    /\ CheckFiles(source.files)
    /\ CheckManifest(source.manifest)
    /\ Vetted(source)

Init ==
    /\ work = [n \in Name |-> NoPackage]
    /\ live = [n \in Name |-> NoProgram]

\* A new package starts as a draft that could at least be looked at.
Create(n) ==
    /\ work[n] = NoPackage
    /\ \E source \in {work'[n]} :
        /\ source \in Source
        /\ CheckFiles(source.files)
        /\ CheckManifest(source.manifest)
        /\ work' = [work EXCEPT ![n] = source]
    /\ UNCHANGED live

EditFile(n) ==
    /\ work[n] # NoPackage
    /\ \E path \in Path, content \in Content :
        work' = [work EXCEPT ![n].files =
                   [p \in DOMAIN @ \cup {path} |-> IF p = path THEN content ELSE @[p]]]
    /\ UNCHANGED live

EditManifest(n) ==
    /\ work[n] # NoPackage
    /\ \E m \in ManifestRecord :
        /\ CheckManifest(m)
        /\ work' = [work EXCEPT ![n].manifest = m]
    /\ UNCHANGED live

Publish(n) ==
    /\ work[n] # NoPackage
    /\ Publishable(work[n])
    /\ live' = [live EXCEPT ![n] = Build(work[n])]
    /\ UNCHANGED work

Next == \E n \in Name : Create(n) \/ EditFile(n) \/ EditManifest(n) \/ Publish(n)

Spec == Init /\ [][Next]_<<work, live>>
=============================================================================

------------------------------ MODULE Packages ------------------------------
(***************************************************************************)
(* The `packages` tool (packages/Packages.ts, packages/Publish.ts) over    *)
(* the owner store.  The tool runs in the worker and awaits the store      *)
(* between its steps, so the calls of one owner's conversations interleave *)
(* there.  A session is a conversation with at most one call under way; a  *)
(* call that is a single store method (create, a file edit) remembers      *)
(* nothing between steps and is an action without a session.               *)
(***************************************************************************)
EXTENDS PackageState

CONSTANTS
    Session,        \* the conversations
    BuiltIn,        \* the names capabilities hold (registry/Registry.ts)
    NewSource,      \* the sources clients may create a package from
    FileEdit,       \* the file edits clients may send
    ManifestEdit,   \* the manifest edits clients may send
    RunCode,        \* the code run records hold
    RunStem,        \* the stem of run.js
    Wrapper,        \* the content of the generated index.js
    FrozenSummary,  \* the summary a create from a run defaults to
    RunExport       \* the one export such a package declares

ASSUME ToolAssumption ==
    /\ NewSource \subseteq Source
    /\ FileEdit \subseteq [path : Path, content : Content]
    /\ ManifestEdit \subseteq
          [summary : Summary] \cup [exports : SUBSET ExportName] \cup ManifestRecord
    /\ RunCode \subseteq Content
    /\ RunStem \in Stem
    /\ Wrapper \in Content
    /\ FrozenSummary \in Summary
    /\ RunExport \in ExportName

VARIABLE call       \* what each session has under way, or was last answered

vars == <<revision, manifest, files, published, call>>

\* What a call may answer: the tag of its failure, or its success.
Reply == {"None", "Published", "Edited", "NoSuchPackage", "InvalidPackage",
          "PublishCheckFailed", "PublishRaced", "Unexpected"}

\* A call between two awaits.  "list": publish holds its source and awaits
\* listPublished; "check": it compiles and boots; "commit": it awaits
\* commitPublish; "merge": a manifest edit awaits editPackageManifest.
PinnedSource == [files : FileSet, manifest : ManifestRecord, revision : 1 .. MaxRevision]

CallOK(c) ==
    \/ c \in [step : {"idle"}, reply : Reply]
    \/ c \in [step : {"merge"}, name : Name, changes : ManifestEdit]
    \/ c \in [step : {"list"}, name : Name, source : PinnedSource]
    \/ /\ c.step = "check"
       /\ c \in [step : {"check"}, name : Name, source : PinnedSource, others : {c.others}]
       /\ DOMAIN c.others \subseteq Name
       /\ \A m \in DOMAIN c.others : c.others[m] \in PublishedSnapshot
    \/ /\ c.step = "commit"
       /\ c \in [step : {"commit"}, name : Name, source : PinnedSource, others : {c.others},
                emitted : FileSet]
       /\ DOMAIN c.others \subseteq Name
       /\ \A m \in DOMAIN c.others : c.others[m] \in PublishedSnapshot

Init ==
    /\ StoreInit
    /\ call = [s \in Session |-> [step |-> "idle", reply |-> "None"]]

Answer(s, reply) == call' = [call EXCEPT ![s] = [step |-> "idle", reply |-> reply]]
Await(s, next)   == call' = [call EXCEPT ![s] = next]

----------------------------------------------------------------------------
\* create: a capability's name is refused, then the files and the manifest
\* are checked, then the store decides.
CreatePackage(n, source) ==
    /\ n \notin BuiltIn
    /\ CheckFiles(source.files)
    /\ CheckManifest(source.manifest)
    /\ Create(n, source)
    /\ UNCHANGED call

\* fromRun: the record's code, frozen, and a wrapper that names its default.
FromRun(code) ==
    [files    |-> [p \in {[stem |-> RunStem, ext |-> "js"], IndexJs} |->
                     IF p = IndexJs THEN Wrapper ELSE code],
     manifest |-> [summary |-> FrozenSummary, exports |-> {RunExport}]]

CreateFromSource(n) == \E source \in NewSource : CreatePackage(n, source)
CreateFromRun(n)    == \E code \in RunCode : CreatePackage(n, FromRun(code))

\* edit of one file: checkFilePath, which every Path here passes, then the store.
EditPackageFile(n) ==
    \E edit \in FileEdit :
        /\ EditFile(n, edit.path, edit.content)
        /\ UNCHANGED call

\* Mutant: what is there is checked, not the merge.
CheckStoredManifest(s, n) ==
    /\ call[s].step = "idle"
    /\ \E changes \in ManifestEdit :
        IF ~ Exists(n) THEN Answer(s, "NoSuchPackage")
        ELSE IF ~ CheckManifest(manifest[n]) THEN Answer(s, "InvalidPackage")
        ELSE Await(s, [step |-> "merge", name |-> n, changes |-> changes])
    /\ UNCHANGED store

\* edit of the manifest, first half: the merge with what is read now has to
\* pass; the changes, not the merge, are what the store will be sent.
CheckManifestEdit(s, n) ==
    /\ call[s].step = "idle"
    /\ \E changes \in ManifestEdit :
        IF ~ Exists(n) THEN Answer(s, "NoSuchPackage")
        ELSE IF ~ CheckManifest(Merge(manifest[n], changes)) THEN Answer(s, "InvalidPackage")
        ELSE Await(s, [step |-> "merge", name |-> n, changes |-> changes])
    /\ UNCHANGED store

\* Second half; the package is still there, since none is ever removed.
MergeManifestEdit(s) ==
    /\ call[s].step = "merge"
    /\ EditManifest(call[s].name, call[s].changes)
    /\ Answer(s, "Edited")

----------------------------------------------------------------------------
\* publish, up to its second await: the source, checked again.
BeginPublish(s, n) ==
    /\ call[s].step = "idle"
    /\ IF ~ Exists(n) THEN Answer(s, "NoSuchPackage")
       ELSE IF ~ (CheckFiles(files[n]) /\ CheckManifest(manifest[n]))
       THEN Answer(s, "InvalidPackage")
       ELSE Await(s, [step |-> "list", name |-> n, source |-> PublishSource(n)])
    /\ UNCHANGED store

\* listPublished, less the package itself.
ListOthers(s) ==
    /\ call[s].step = "list"
    /\ Await(s, [step   |-> "check",
                 name   |-> call[s].name,
                 source |-> call[s].source,
                 others |-> [m \in DOMAIN ListPublished \ {call[s].name} |-> published[m]]])
    /\ UNCHANGED store

\* Mutant: a failed check starts over with a new listing.
CheckAgain(s) ==
    /\ call[s].step = "check"
    /\ IF PassesChecks(call[s].name, call[s].source, call[s].others)
       THEN Await(s, [step    |-> "commit",
                      name    |-> call[s].name,
                      source  |-> call[s].source,
                      others  |-> call[s].others,
                      emitted |-> EmitFiles(call[s].source.files)])
       ELSE Await(s, [step |-> "list", name |-> call[s].name, source |-> call[s].source])
    /\ UNCHANGED store

\* compile, boot and the missing-export check, all on what the call holds.
CheckPublish(s) ==
    /\ call[s].step = "check"
    /\ IF PassesChecks(call[s].name, call[s].source, call[s].others)
       THEN Await(s, [step    |-> "commit",
                      name    |-> call[s].name,
                      source  |-> call[s].source,
                      others  |-> call[s].others,
                      emitted |-> EmitFiles(call[s].source.files)])
       ELSE Answer(s, "PublishCheckFailed")
    /\ UNCHANGED store

\* The probe's isolate cannot be reached or outlives the timeout, whatever
\* the source is worth: every failed report becomes the same answer.
ProbeFails(s) ==
    /\ call[s].step = "check"
    /\ Answer(s, "PublishCheckFailed")
    /\ UNCHANGED store

\* The commit and the verdict it answers with.
Commit(s) ==
    /\ call[s].step = "commit"
    /\ CommitPublish(call[s].name, call[s].source.revision, call[s].emitted)
    /\ Answer(s, "Published")

CommitRefused(s) ==
    /\ call[s].step = "commit"
    /\ ~ MayCommit(call[s].name, call[s].source.revision)
    /\ Answer(s, "PublishRaced")
    /\ UNCHANGED store

\* An awaited store call rejects (the object was reset, the reply was lost):
\* Effect.promise makes it a defect.  The method may have run all the same.
StoreCallLost(s) ==
    /\ call[s].step \in {"list", "commit", "merge"}
    /\ \/ UNCHANGED store
       \/ /\ call[s].step = "commit"
          /\ CommitPublish(call[s].name, call[s].source.revision, call[s].emitted)
       \/ /\ call[s].step = "merge"
          /\ EditManifest(call[s].name, call[s].changes)
    /\ Answer(s, "Unexpected")

----------------------------------------------------------------------------
Step(s) ==
    \/ MergeManifestEdit(s)
    \/ ListOthers(s)
    \/ CheckPublish(s)
    \/ ProbeFails(s)
    \/ Commit(s)
    \/ CommitRefused(s)
    \/ StoreCallLost(s)

Next ==
    \/ \E n \in Name :
        \/ CreateFromSource(n)
        \/ CreateFromRun(n)
        \/ EditPackageFile(n)
        \/ \E s \in Session : CheckManifestEdit(s, n) \/ BeginPublish(s, n)
    \/ \E s \in Session : Step(s)

Spec == Init /\ [][Next]_vars

\* Every step of a call is an awaited promise that settles; the clients owe
\* nothing.
FairSpec == Spec /\ \A s \in Session : WF_vars(Step(s))
----------------------------------------------------------------------------
TypeOK ==
    /\ revision \in [Name -> 0 .. MaxRevision]
    /\ manifest \in [Name -> ManifestRecord]
    /\ files \in [Name -> FileSet]
    /\ published \in [Name -> PublishedSnapshot \cup {NoSnapshot}]
    /\ DOMAIN call = Session /\ \A s \in Session : CallOK(call[s])

IsLive(n) == published[n] # NoSnapshot

Working(n) == [files |-> files[n], manifest |-> manifest[n]]
Live(n)    == [manifest |-> published[n].manifest,
               entry    |-> published[n].entry,
               files    |-> published[n].files]

(* A package the overview calls "published" serves exactly the build of its   *)
(* working copy, although stateOf compares nothing but two revision numbers   *)
(* and the snapshot was put together from a manifest and an entry read at the *)
(* commit and files emitted from an earlier read.                             *)
PublishedStateIsTruthful ==
    \A n \in Name : StateOf(n) = "published" => Live(n) = Build(Working(n))

(* Whatever raced, what is live passed the checks as a whole: its entry is    *)
(* one of its files, every declared export exists and no file throws.         *)
LiveIsSound == \A n \in Name : IsLive(n) => Sound(published[n])

(* The store never holds a manifest that could not publish, although an edit  *)
(* is checked against the manifest of one moment and merged into another's    *)
(* (the comment in `edit`, packages/Packages.ts).                             *)
StoredManifestsPublish ==
    \A n \in Name : Exists(n) => CheckManifest(manifest[n])

(* No live package imports a package that is not live: no step takes a        *)
(* published pointer away, and publish only looks at published packages.      *)
ImportsStayLive ==
    \A n \in Name : IsLive(n) => \A need \in NeedsOf(published[n]) : IsLive(need[1])

(* The inductive invariant.  The source a publish has pinned is an earlier    *)
(* working copy, or the present one if its revision is; a commit under way    *)
(* carries the build of a source that passed; a manifest edit under way       *)
(* carries halves that pass; what is live was built from the working copy of  *)
(* its revision; and packages seen live stay live.                            *)
Pinned(s) == call[s].step \in {"list", "check", "commit"}

PinIsCurrentOrOld ==
    \A s \in Session : Pinned(s) =>
        LET n == call[s].name
            source == call[s].source
        IN /\ source.revision <= revision[n]
           /\ source.revision = revision[n] =>
                 source.files = files[n] /\ source.manifest = manifest[n]
           /\ CheckFiles(source.files)
           /\ CheckManifest(source.manifest)

CommitIsVetted ==
    \A s \in Session : call[s].step = "commit" =>
        /\ Vetted(call[s].source)
        /\ PassesChecks(call[s].name, call[s].source, call[s].others)
        /\ call[s].emitted = EmitFiles(call[s].source.files)

MergePasses ==
    \A s \in Session : call[s].step = "merge" =>
        /\ "summary" \in DOMAIN call[s].changes => call[s].changes.summary # Blank
        /\ "exports" \in DOMAIN call[s].changes => call[s].changes.exports # {}

LiveIsOfItsRevision ==
    \A n \in Name : IsLive(n) =>
        /\ published[n].revision \in 1 .. revision[n]
        /\ published[n].revision = revision[n] => Live(n) = Build(Working(n))

SeenLiveStaysLive ==
    \A s \in Session :
        /\ call[s].step = "check" => \A m \in DOMAIN call[s].others : IsLive(m)
        /\ call[s].step = "commit" =>
              \A need \in NeedsOf(Build(call[s].source)) :
                  IsLive(need[1]) \/ need[1] = call[s].name

IInv ==
    /\ TypeOK
    /\ PinIsCurrentOrOld
    /\ CommitIsVetted
    /\ MergePasses
    /\ LiveIsOfItsRevision
    /\ LiveIsSound
    /\ StoredManifestsPublish
    /\ SeenLiveStaysLive
    /\ ImportsStayLive

(* The pointer never moves back: of two publishes under way for a package,    *)
(* the one that read the older working copy cannot overwrite the newer build. *)
LiveNeverRegresses ==
    [][\A n \in Name : IsLive(n) =>
          /\ published'[n] # NoSnapshot
          /\ published'[n].revision >= published[n].revision]_vars

(* A working copy with both index files is refused by publish, and no         *)
(* operation removes a file: from then on the pointer of that package is      *)
(* frozen, even for a publish that had passed its checks before.              *)
TwoIndexesFreezeLive ==
    [][\A n \in Name : Exists(n) /\ {IndexTs, IndexJs} \subseteq DOMAIN files[n] =>
          /\ published'[n] = published[n]
          /\ {IndexTs, IndexJs} \subseteq DOMAIN files'[n]]_vars

(* A manifest edit that carries one half leaves the other half as the store   *)
(* has it when the edit lands, not as the tool read it: two conversations     *)
(* editing different halves both keep their edit.                             *)
HalfEditKeepsOtherHalf ==
    [][\A s \in Session :
          call[s].step = "merge" /\ call'[s].step = "idle" =>
            LET n == call[s].name IN
            /\ "summary" \notin DOMAIN call[s].changes =>
                  manifest'[n].summary = manifest[n].summary
            /\ "exports" \notin DOMAIN call[s].changes =>
                  manifest'[n].exports = manifest[n].exports]_vars

(* A package that goes live loads, with all it imports, beside the packages   *)
(* live at that moment, unless one of the packages its checks were shown was  *)
(* republished between the listing and the commit (packages/Publish.ts:82).   *)
LoadsUnlessDrifted ==
    [][\A s \in Session :
          LET n == call[s].name IN
          /\ call[s].step = "commit" /\ call'[s].step = "idle"
          /\ published'[n] # published[n]
          =>
          \/ Loads(n, ListPublished')
          \/ \E m \in DOMAIN call[s].others : published[m] # call[s].others[m]]_vars

(* Whatever happened meanwhile, a package that goes live loads: a missing     *)
(* export fails in publish, not in a run.                                     *)
GoesLiveLoadable ==
    [][\A n \in Name : published'[n] # published[n] => Loads(n, ListPublished')]_vars

(* Every call a conversation makes is answered.                               *)
CallsAreAnswered ==
    \A s \in Session : call[s].step # "idle" ~> call[s].step = "idle"

----------------------------------------------------------------------------
CONSTANT NoPackage      \* what the contract's working copy of an unused name is

ASSUME ContractAssumption == NoPackage \notin Source

\* The working copies and the live programs an owner sees in the tables.
WorkMap == [n \in Name |-> IF Exists(n) THEN Working(n) ELSE NoPackage]
LiveMap == [n \in Name |-> IF IsLive(n) THEN Live(n) ELSE NoSnapshot]

Contract == INSTANCE PackageContract WITH
    work <- WorkMap, live <- LiveMap, NoProgram <- NoSnapshot

(* The tool and the store together implement the contract: publish, spread    *)
(* over four awaits, acts as if it had read, judged and built the working     *)
(* copy at the moment it commits.                                             *)
ContractSpec == Contract!Spec
=============================================================================

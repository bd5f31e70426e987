--------------------------- MODULE PackagesProofs ---------------------------
(***************************************************************************)
(* Proofs about Packages for every value of its constants: its types, what *)
(* is live, what the store holds, and that it implements PackageContract.  *)
(***************************************************************************)
EXTENDS Packages, TLAPS

LEMMA EmittedPathType ==
    ASSUME NEW p \in Path
    PROVE  /\ EmittedPath(p) \in Path
           /\ EmittedPath(p) = [stem |-> p.stem, ext |-> "js"]
  BY DEF EmittedPath, Path

LEMMA IndexType == IndexTs \in Path /\ IndexJs \in Path
  BY StemAssumption DEF IndexTs, IndexJs, Path

LEMMA FileSetDomain ==
    ASSUME NEW fs \in FileSet
    PROVE  /\ DOMAIN fs \subseteq Path
           /\ fs \in [DOMAIN fs -> Content]
           /\ \A p \in DOMAIN fs : fs[p] \in Content
  BY DEF FileSet

LEMMA FileSetIntro ==
    ASSUME NEW P \in SUBSET Path, NEW fs \in [P -> Content]
    PROVE  fs \in FileSet
  BY DEF FileSet

\* Every emitted file is a source file under its emitted path.
LEMMA EmitFilesIsFileSet ==
    ASSUME NEW fs \in FileSet
    PROVE  EmitFiles(fs) \in FileSet
<1> DEFINE Q == {EmittedPath(p) : p \in DOMAIN fs}
<1>1. Q \subseteq Path
  BY FileSetDomain, EmittedPathType
<1>2. ASSUME NEW q \in Q
      PROVE  fs[CHOOSE p \in DOMAIN fs : EmittedPath(p) = q] \in Content
  <2>1. \E p \in DOMAIN fs : EmittedPath(p) = q
    OBVIOUS
  <2> QED BY <2>1, FileSetDomain
<1>3. EmitFiles(fs) \in [Q -> Content]
  BY <1>2 DEF EmitFiles
<1> QED BY <1>1, <1>3, FileSetIntro

\* When no two files share an output, an emitted file is its source.
LEMMA EmitFilesKeepsContent ==
    ASSUME NEW fs \in FileSet, EmitsCleanly(fs), NEW p \in DOMAIN fs
    PROVE  /\ EmittedPath(p) \in DOMAIN EmitFiles(fs)
           /\ EmitFiles(fs)[EmittedPath(p)] = fs[p]
<1> DEFINE c == CHOOSE r \in DOMAIN fs : EmittedPath(r) = EmittedPath(p)
<1>1. c \in DOMAIN fs /\ EmittedPath(c) = EmittedPath(p)
  OBVIOUS
<1>2. c = p
  BY <1>1 DEF EmitsCleanly
<1> QED BY <1>2 DEF EmitFiles

LEMMA PassingIsVetted ==
    ASSUME NEW n \in Name, NEW source, source.files \in FileSet, NEW others,
           PassesChecks(n, source, others)
    PROVE  Vetted(source)
<1>1. EmitsCleanly(source.files) /\ Conforms(source)
  BY DEF PassesChecks, Compiles
<1>2. ASSUME NEW p \in DOMAIN source.files
      PROVE  source.files[p] \notin Throws
  <2> DEFINE map == WithCandidate(n, Build(source), others)
  <2>1. PICK closed \in SUBSET DOMAIN map :
          /\ n \in closed
          /\ \A m \in closed : \A q \in DOMAIN map[m].files : map[m].files[q] \notin Throws
    BY DEF PassesChecks, Loads
  <2>2. map[n] = Build(source)
    BY DEF WithCandidate
  <2>3. map[n].files = EmitFiles(source.files)
    BY <2>2 DEF Build
  <2> HIDE DEF map
  <2>4. \A q \in DOMAIN EmitFiles(source.files) : EmitFiles(source.files)[q] \notin Throws
    BY <2>1, <2>3
  <2> QED BY <1>1, <2>4, EmitFilesKeepsContent
<1> QED BY <1>1, <1>2 DEF Vetted

LEMMA EntryIsAFile ==
    ASSUME NEW fs \in FileSet, HasEntry(DOMAIN fs)
    PROVE  /\ EntryFile(DOMAIN fs) \in DOMAIN fs
           /\ EmittedPath(EntryFile(DOMAIN fs)) \in Path
<1>1. EntryFile(DOMAIN fs) \in DOMAIN fs
  BY DEF HasEntry, EntryFile
<1> QED BY <1>1, FileSetDomain, EmittedPathType

LEMMA VettedBuildsSound ==
    ASSUME NEW source, source.files \in FileSet, HasEntry(DOMAIN source.files), Vetted(source)
    PROVE  Sound(Build(source))
<1> DEFINE fs == source.files
           e == EntryFile(DOMAIN fs)
<1>1. e \in DOMAIN fs
  BY EntryIsAFile
<1>2. /\ EmittedPath(e) \in DOMAIN EmitFiles(fs)
      /\ EmitFiles(fs)[EmittedPath(e)] = fs[e]
  BY <1>1, EmitFilesKeepsContent DEF Vetted
<1>3. /\ Build(source).manifest = source.manifest
      /\ Build(source).entry = EmittedPath(e)
      /\ Build(source).files = EmitFiles(fs)
  BY DEF Build
<1>4. AliasLinks(Build(source))
  BY <1>2, <1>3 DEF AliasLinks, Vetted, Conforms
<1>5. ASSUME NEW q \in DOMAIN EmitFiles(fs)
      PROVE  EmitFiles(fs)[q] \notin Throws
  <2>1. PICK p \in DOMAIN fs : q = EmittedPath(p)
    BY DEF EmitFiles
  <2> QED BY <2>1, EmitFilesKeepsContent DEF Vetted
<1> QED BY <1>3, <1>4, <1>5 DEF Sound

----------------------------------------------------------------------------
(***************************************************************************)
(* Types.                                                                  *)
(***************************************************************************)

LEMMA WriteFileType ==
    ASSUME NEW fs \in FileSet, NEW p \in Path, NEW c \in Content
    PROVE  WriteFile(fs, p, c) \in FileSet
<1>1. DOMAIN fs \cup {p} \in SUBSET Path
  BY FileSetDomain
<1>2. WriteFile(fs, p, c) \in [DOMAIN fs \cup {p} -> Content]
  BY FileSetDomain DEF WriteFile
<1> QED BY <1>1, <1>2, FileSetIntro

LEMMA ManifestEditType ==
    ASSUME NEW m \in ManifestRecord, NEW changes \in ManifestEdit
    PROVE  Merge(m, changes) \in ManifestRecord
<1>1. CASE changes \in [summary : Summary]
  BY <1>1 DEF Merge, ManifestRecord
<1>2. CASE changes \in [exports : SUBSET ExportName]
  BY <1>2 DEF Merge, ManifestRecord
<1>3. CASE changes \in ManifestRecord
  BY <1>3 DEF Merge, ManifestRecord
<1> QED BY <1>1, <1>2, <1>3, ToolAssumption

LEMMA FromRunType ==
    ASSUME NEW code \in RunCode
    PROVE  FromRun(code) \in Source
<1> DEFINE P == {[stem |-> RunStem, ext |-> "js"], IndexJs}
           fs == [p \in P |-> IF p = IndexJs THEN Wrapper ELSE code]
<1>1. P \in SUBSET Path
  BY IndexType, ToolAssumption DEF Path
<1>2. fs \in [P -> Content]
  BY ToolAssumption
<1>3. fs \in FileSet
  BY <1>1, <1>2, FileSetIntro
<1>4. [summary |-> FrozenSummary, exports |-> {RunExport}] \in ManifestRecord
  BY ToolAssumption DEF ManifestRecord
<1> QED BY <1>3, <1>4 DEF FromRun, Source

StoreTypeOK ==
    /\ revision \in [Name -> 0 .. MaxRevision]
    /\ manifest \in [Name -> ManifestRecord]
    /\ files \in [Name -> FileSet]
    /\ published \in [Name -> PublishedSnapshot \cup {NoSnapshot}]

LEMMA CreateType ==
    ASSUME StoreTypeOK, NEW n \in Name, NEW source \in Source, Create(n, source)
    PROVE  StoreTypeOK'
  BY StateAssumption DEF StoreTypeOK, Create, Source

LEMMA EditFileType ==
    ASSUME StoreTypeOK, NEW n \in Name, NEW p \in Path, NEW c \in Content,
           EditFile(n, p, c)
    PROVE  StoreTypeOK'
<1>1. WriteFile(files[n], p, c) \in FileSet
  BY WriteFileType DEF StoreTypeOK
<1> QED BY <1>1, StateAssumption DEF StoreTypeOK, EditFile, Touch

LEMMA EditManifestType ==
    ASSUME StoreTypeOK, NEW n \in Name, NEW changes \in ManifestEdit,
           EditManifest(n, changes)
    PROVE  StoreTypeOK'
<1>1. Merge(manifest[n], changes) \in ManifestRecord
  BY ManifestEditType DEF StoreTypeOK
<1> QED BY <1>1, StateAssumption DEF StoreTypeOK, EditManifest, Touch

LEMMA CommitType ==
    ASSUME StoreTypeOK, NEW n \in Name, NEW r, NEW emitted \in FileSet,
           CommitPublish(n, r, emitted)
    PROVE  StoreTypeOK'
<1>1. EmittedPath(EntryFile(DOMAIN files[n])) \in Path
  BY EntryIsAFile DEF StoreTypeOK, CommitPublish, MayCommit
<1>2. revision[n] \in Nat
  BY StateAssumption DEF StoreTypeOK
<1> QED BY <1>1, <1>2 DEF StoreTypeOK, CommitPublish, PublishedSnapshot

CallTypeOK == DOMAIN call = Session /\ \A s \in Session : CallOK(call[s])

LEMMA TypeOKParts == TypeOK <=> StoreTypeOK /\ CallTypeOK
  BY DEF TypeOK, StoreTypeOK, CallTypeOK

LEMMA AnswerType ==
    ASSUME CallTypeOK, NEW s \in Session, NEW r \in Reply, Answer(s, r)
    PROVE  CallTypeOK'
<1>1. CallOK([step |-> "idle", reply |-> r])
  BY DEF CallOK
<1> QED BY <1>1 DEF CallTypeOK, Answer

LEMMA AwaitType ==
    ASSUME CallTypeOK, NEW s \in Session, NEW c, CallOK(c), Await(s, c)
    PROVE  CallTypeOK'
  BY DEF CallTypeOK, Await

\* A call knows what its step says it knows.
LEMMA CallFields ==
    ASSUME CallTypeOK, NEW s \in Session
    PROVE  /\ call[s].step \in {"list", "check", "commit"}
                => call[s].name \in Name /\ call[s].source \in PinnedSource
           /\ call[s].step = "check"
                => /\ DOMAIN call[s].others \subseteq Name
                   /\ \A m \in DOMAIN call[s].others : call[s].others[m] \in PublishedSnapshot
           /\ call[s].step = "commit" => call[s].emitted \in FileSet
           /\ call[s].step = "merge"
                => call[s].name \in Name /\ call[s].changes \in ManifestEdit
  BY DEF CallTypeOK, CallOK

LEMMA TypeStep == TypeOK /\ [Next]_vars => TypeOK'
<1> SUFFICES ASSUME StoreTypeOK, CallTypeOK, [Next]_vars
             PROVE  StoreTypeOK' /\ CallTypeOK'
  BY TypeOKParts DEF TypeOK, StoreTypeOK, CallTypeOK
<1>1. CASE UNCHANGED vars
  BY <1>1 DEF vars, StoreTypeOK, CallTypeOK, CallOK
<1>2. ASSUME NEW n \in Name, NEW source \in Source, CreatePackage(n, source)
      PROVE  StoreTypeOK' /\ CallTypeOK'
  BY <1>2, CreateType DEF CreatePackage, CallTypeOK, CallOK
<1>3. ASSUME NEW n \in Name, CreateFromSource(n)
      PROVE  StoreTypeOK' /\ CallTypeOK'
  BY <1>3, <1>2, ToolAssumption DEF CreateFromSource
<1>4. ASSUME NEW n \in Name, CreateFromRun(n)
      PROVE  StoreTypeOK' /\ CallTypeOK'
  BY <1>4, <1>2, FromRunType DEF CreateFromRun
<1>5. ASSUME NEW n \in Name, EditPackageFile(n)
      PROVE  StoreTypeOK' /\ CallTypeOK'
  <2>1. PICK edit \in FileEdit : EditFile(n, edit.path, edit.content) /\ UNCHANGED call
    BY <1>5 DEF EditPackageFile
  <2>2. edit.path \in Path /\ edit.content \in Content
    BY ToolAssumption
  <2> QED BY <2>1, <2>2, EditFileType DEF CallTypeOK, CallOK
<1>6. ASSUME NEW s \in Session, NEW n \in Name, CheckManifestEdit(s, n)
      PROVE  StoreTypeOK' /\ CallTypeOK'
  <2>1. StoreTypeOK'
    BY <1>6 DEF CheckManifestEdit, store, StoreTypeOK
  <2>2. PICK changes \in ManifestEdit :
          \/ Answer(s, "NoSuchPackage")
          \/ Answer(s, "InvalidPackage")
          \/ Await(s, [step |-> "merge", name |-> n, changes |-> changes])
    BY <1>6 DEF CheckManifestEdit
  <2>3. CallOK([step |-> "merge", name |-> n, changes |-> changes])
    BY DEF CallOK
  <2> QED BY <2>1, <2>2, <2>3, AnswerType, AwaitType DEF Reply
<1>7. ASSUME NEW s \in Session, NEW n \in Name, BeginPublish(s, n)
      PROVE  StoreTypeOK' /\ CallTypeOK'
  <2>1. StoreTypeOK'
    BY <1>7 DEF BeginPublish, store, StoreTypeOK
  <2>2. CASE ~ Exists(n) \/ ~ (CheckFiles(files[n]) /\ CheckManifest(manifest[n]))
    BY <1>7, <2>1, <2>2, AnswerType DEF BeginPublish, Reply
  <2>3. CASE Exists(n) /\ Await(s, [step |-> "list", name |-> n, source |-> PublishSource(n)])
    <3>1. PublishSource(n) \in PinnedSource
      BY <2>3, StateAssumption DEF PublishSource, PinnedSource, StoreTypeOK, Exists
    <3>2. CallOK([step |-> "list", name |-> n, source |-> PublishSource(n)])
      BY <3>1 DEF CallOK
    <3> QED BY <2>1, <2>3, <3>2, AwaitType
  <2> QED BY <1>7, <2>2, <2>3 DEF BeginPublish
<1>8. ASSUME NEW s \in Session, Step(s)
      PROVE  StoreTypeOK' /\ CallTypeOK'
  <2>1. CASE MergeManifestEdit(s)
    BY <2>1, CallFields, EditManifestType, AnswerType DEF MergeManifestEdit, Reply
  <2>2. CASE ListOthers(s)
    <3> DEFINE o == [m \in DOMAIN ListPublished \ {call[s].name} |-> published[m]]
               c == [step |-> "check", name |-> call[s].name,
                     source |-> call[s].source, others |-> o]
    <3>1. call[s].name \in Name /\ call[s].source \in PinnedSource
      BY <2>2, CallFields DEF ListOthers
    <3>2. DOMAIN o \subseteq Name /\ \A m \in DOMAIN o : o[m] \in PublishedSnapshot
      BY DEF ListPublished, StoreTypeOK
    <3>3. /\ c.step = "check" /\ c.others = o
          /\ c \in [step : {"check"}, name : Name, source : PinnedSource, others : {o}]
      BY <3>1
    <3>4. CallOK(c)
      BY <3>2, <3>3 DEF CallOK
    <3>5. Await(s, c) /\ UNCHANGED store
      BY <2>2 DEF ListOthers
    <3> HIDE DEF c
    <3> QED BY <3>4, <3>5, AwaitType DEF store, StoreTypeOK
  <2>3. CASE CheckPublish(s)
    <3> DEFINE o == call[s].others
               c == [step |-> "commit", name |-> call[s].name, source |-> call[s].source,
                     others |-> o, emitted |-> EmitFiles(call[s].source.files)]
    <3>1. call[s].name \in Name /\ call[s].source \in PinnedSource
      BY <2>3, CallFields DEF CheckPublish
    <3>2. EmitFiles(call[s].source.files) \in FileSet
      BY <3>1, EmitFilesIsFileSet DEF PinnedSource
    <3>3. CallOK(c)
      <4>1. DOMAIN o \subseteq Name /\ \A m \in DOMAIN o : o[m] \in PublishedSnapshot
        BY <2>3, CallFields DEF CheckPublish
      <4>2. /\ c.step = "commit" /\ c.others = o
            /\ c \in [step : {"commit"}, name : Name, source : PinnedSource, others : {o},
                     emitted : FileSet]
        BY <3>1, <3>2
      <4> QED BY <4>1, <4>2 DEF CallOK
    <3>4. UNCHANGED store /\ (Await(s, c) \/ Answer(s, "PublishCheckFailed"))
      BY <2>3 DEF CheckPublish
    <3> HIDE DEF c
    <3> QED BY <3>3, <3>4, AwaitType, AnswerType DEF store, StoreTypeOK, Reply
  <2>4. CASE ProbeFails(s)
    BY <2>4, AnswerType DEF ProbeFails, store, StoreTypeOK, Reply
  <2>5. CASE Commit(s)
    BY <2>5, CallFields, CommitType, AnswerType DEF Commit, Reply
  <2>6. CASE CommitRefused(s)
    BY <2>6, AnswerType DEF CommitRefused, store, StoreTypeOK, Reply
  <2>7. CASE StoreCallLost(s)
    <3>1. CallTypeOK'
      BY <2>7, AnswerType DEF StoreCallLost, Reply
    <3>2. CASE UNCHANGED store
      BY <3>1, <3>2 DEF store, StoreTypeOK
    <3>3. CASE /\ call[s].step = "commit"
               /\ CommitPublish(call[s].name, call[s].source.revision, call[s].emitted)
      BY <3>1, <3>3, CallFields, CommitType
    <3>4. CASE call[s].step = "merge" /\ EditManifest(call[s].name, call[s].changes)
      BY <3>1, <3>4, CallFields, EditManifestType
    <3> QED BY <2>7, <3>2, <3>3, <3>4 DEF StoreCallLost
  <2> QED BY <1>8, <2>1, <2>2, <2>3, <2>4, <2>5, <2>6, <2>7 DEF Step
<1> QED BY <1>1, <1>3, <1>4, <1>5, <1>6, <1>7, <1>8 DEF Next

LEMMA TypeInit == Init => TypeOK
<1> SUFFICES ASSUME Init PROVE TypeOK
  OBVIOUS
<1>1. [p \in {} |-> p] \in FileSet
  <2>1. [p \in {} |-> p] \in [{} -> Content]
    OBVIOUS
  <2> QED BY <2>1, FileSetIntro
<1>2. [summary |-> Blank, exports |-> {}] \in ManifestRecord
  BY SummaryAssumption DEF ManifestRecord
<1>3. StoreTypeOK
  BY <1>1, <1>2, StateAssumption DEF Init, StoreInit, StoreTypeOK
<1>4. CallTypeOK
  BY DEF Init, CallTypeOK, CallOK, Reply
<1> QED BY <1>3, <1>4, TypeOKParts

(* Every variable keeps its type, and a call only ever holds what its step    *)
(* may hold.                                                                  *)
THEOREM TypeCorrect == Spec => []TypeOK
  BY TypeInit, TypeStep, PTL DEF Spec

----------------------------------------------------------------------------
(***************************************************************************)
(* What a step can do to the store, and to one call.  The invariant and    *)
(* the refinement are proved from these two lemmas, not from Next.         *)
(***************************************************************************)

StoreMove ==
    \/ UNCHANGED store
    \/ \E n \in Name, source \in Source :
          /\ CheckFiles(source.files)
          /\ CheckManifest(source.manifest)
          /\ Create(n, source)
    \/ \E n \in Name, path \in Path, content \in Content : EditFile(n, path, content)
    \/ \E s \in Session :
          /\ call[s].step = "merge"
          /\ EditManifest(call[s].name, call[s].changes)
    \/ \E s \in Session :
          /\ call[s].step = "commit"
          /\ CommitPublish(call[s].name, call[s].source.revision, call[s].emitted)

LEMMA StoreMoves == TypeOK /\ [Next]_vars => StoreMove
<1> SUFFICES ASSUME TypeOK, [Next]_vars PROVE StoreMove
  OBVIOUS
<1>1. CASE UNCHANGED vars
  BY <1>1 DEF vars, store, StoreMove
<1>2. ASSUME NEW n \in Name, CreateFromSource(n) PROVE StoreMove
  BY <1>2, ToolAssumption DEF CreateFromSource, CreatePackage, StoreMove
<1>3. ASSUME NEW n \in Name, CreateFromRun(n) PROVE StoreMove
  BY <1>3, FromRunType DEF CreateFromRun, CreatePackage, StoreMove
<1>4. ASSUME NEW n \in Name, EditPackageFile(n) PROVE StoreMove
  BY <1>4, ToolAssumption DEF EditPackageFile, StoreMove
<1>5. ASSUME NEW s \in Session, NEW n \in Name, CheckManifestEdit(s, n) \/ BeginPublish(s, n)
      PROVE  StoreMove
  BY <1>5 DEF CheckManifestEdit, BeginPublish, StoreMove
<1>6. ASSUME NEW s \in Session, Step(s) PROVE StoreMove
  <2>1. CASE MergeManifestEdit(s)
    BY <2>1 DEF MergeManifestEdit, StoreMove
  <2>2. CASE ListOthers(s) \/ CheckPublish(s) \/ ProbeFails(s) \/ CommitRefused(s)
    BY <2>2 DEF ListOthers, CheckPublish, ProbeFails, CommitRefused, StoreMove
  <2>3. CASE Commit(s)
    BY <2>3 DEF Commit, StoreMove
  <2>4. CASE StoreCallLost(s)
    BY <2>4 DEF StoreCallLost, StoreMove
  <2> QED BY <1>6, <2>1, <2>2, <2>3, <2>4 DEF Step
<1> QED BY <1>1, <1>2, <1>3, <1>4, <1>5, <1>6 DEF Next

BeginsMerge(s) ==
    \E n \in Name, changes \in ManifestEdit :
        /\ Exists(n)
        /\ CheckManifest(Merge(manifest[n], changes))
        /\ call'[s] = [step |-> "merge", name |-> n, changes |-> changes]

Pins(s) ==
    \E n \in Name :
        /\ Exists(n)
        /\ CheckFiles(files[n])
        /\ CheckManifest(manifest[n])
        /\ call'[s] = [step |-> "list", name |-> n, source |-> PublishSource(n)]

Lists(s) ==
    /\ call[s].step = "list"
    /\ call'[s] = [step   |-> "check",
                   name   |-> call[s].name,
                   source |-> call[s].source,
                   others |-> [m \in DOMAIN ListPublished \ {call[s].name} |-> published[m]]]

Passes(s) ==
    /\ call[s].step = "check"
    /\ PassesChecks(call[s].name, call[s].source, call[s].others)
    /\ call'[s] = [step    |-> "commit",
                   name    |-> call[s].name,
                   source  |-> call[s].source,
                   others  |-> call[s].others,
                   emitted |-> EmitFiles(call[s].source.files)]

CallMove(s) ==
    \/ call'[s] = call[s]
    \/ call'[s].step = "idle"
    \/ BeginsMerge(s) /\ UNCHANGED store
    \/ Pins(s) /\ UNCHANGED store
    \/ Lists(s) /\ UNCHANGED store
    \/ Passes(s) /\ UNCHANGED store

LEMMA MoveSteps ==
    ASSUME NEW s \in Session
    PROVE  /\ BeginsMerge(s) => call'[s].step = "merge"
           /\ Pins(s) => call'[s].step = "list"
           /\ Lists(s) => call'[s].step = "check"
           /\ Passes(s) => call'[s].step = "commit"
<1>1. BeginsMerge(s) => call'[s].step = "merge"
  BY DEF BeginsMerge
<1>2. Pins(s) => call'[s].step = "list"
  BY DEF Pins
<1>3. Lists(s) => call'[s].step = "check"
  BY DEF Lists
<1>4. Passes(s) => call'[s].step = "commit"
  BY DEF Passes
<1> QED BY <1>1, <1>2, <1>3, <1>4

LEMMA AnswerMoves ==
    ASSUME CallTypeOK, NEW s \in Session, NEW t \in Session, NEW r, Answer(s, r)
    PROVE  call'[t] = call[t] \/ call'[t].step = "idle"
  BY DEF Answer, CallTypeOK

LEMMA AwaitMoves ==
    ASSUME CallTypeOK, NEW s \in Session, NEW t \in Session, NEW c, Await(s, c)
    PROVE  call'[t] = call[t] \/ (t = s /\ call'[t] = c)
  BY DEF Await, CallTypeOK

LEMMA CallMoves == TypeOK /\ [Next]_vars => \A t \in Session : CallMove(t)
<1> SUFFICES ASSUME TypeOK, [Next]_vars, NEW t \in Session PROVE CallMove(t)
  OBVIOUS
<1> USE TypeOKParts
<1>1. CASE UNCHANGED vars
  BY <1>1 DEF vars, CallMove
<1>2. ASSUME NEW n \in Name, CreateFromSource(n) \/ CreateFromRun(n) \/ EditPackageFile(n)
      PROVE  CallMove(t)
  BY <1>2 DEF CreateFromSource, CreateFromRun, CreatePackage, EditPackageFile, CallMove
<1>3. ASSUME NEW s \in Session, NEW n \in Name, CheckManifestEdit(s, n) PROVE CallMove(t)
  <2>1. PICK changes \in ManifestEdit :
          \/ Answer(s, "NoSuchPackage") \/ Answer(s, "InvalidPackage")
          \/ /\ Exists(n) /\ CheckManifest(Merge(manifest[n], changes))
             /\ Await(s, [step |-> "merge", name |-> n, changes |-> changes])
    BY <1>3 DEF CheckManifestEdit
  <2>2. UNCHANGED store
    BY <1>3 DEF CheckManifestEdit
  <2> QED BY <2>1, <2>2, AnswerMoves, AwaitMoves DEF CallMove, BeginsMerge
<1>4. ASSUME NEW s \in Session, NEW n \in Name, BeginPublish(s, n) PROVE CallMove(t)
  <2>1. \/ Answer(s, "NoSuchPackage") \/ Answer(s, "InvalidPackage")
        \/ /\ Exists(n) /\ CheckFiles(files[n]) /\ CheckManifest(manifest[n])
           /\ Await(s, [step |-> "list", name |-> n, source |-> PublishSource(n)])
    BY <1>4 DEF BeginPublish
  <2>2. UNCHANGED store
    BY <1>4 DEF BeginPublish
  <2> QED BY <2>1, <2>2, AnswerMoves, AwaitMoves DEF CallMove, Pins
<1>5. ASSUME NEW s \in Session, Step(s) PROVE CallMove(t)
  <2>1. CASE MergeManifestEdit(s)
    BY <2>1, AnswerMoves DEF MergeManifestEdit, CallMove
  <2>2. CASE ListOthers(s)
    BY <2>2, AwaitMoves DEF ListOthers, CallMove, Lists
  <2>3. CASE CheckPublish(s)
    BY <2>3, AwaitMoves, AnswerMoves DEF CheckPublish, CallMove, Passes
  <2>4. CASE ProbeFails(s) \/ Commit(s) \/ CommitRefused(s) \/ StoreCallLost(s)
    BY <2>4, AnswerMoves DEF ProbeFails, Commit, CommitRefused, StoreCallLost, CallMove
  <2> QED BY <1>5, <2>1, <2>2, <2>3, <2>4 DEF Step
<1> QED BY <1>1, <1>2, <1>3, <1>4, <1>5 DEF Next

\* Every change of a working copy moves its revision on, and none goes back.
LEMMA RevisionCounts ==
    ASSUME StoreTypeOK, CallTypeOK, StoreMove, NEW n \in Name
    PROVE  /\ revision[n] \in Nat /\ revision'[n] \in Nat
           /\ revision[n] <= revision'[n]
           /\ revision'[n] = revision[n] => files'[n] = files[n] /\ manifest'[n] = manifest[n]
<1>1. revision[n] \in Nat
  BY StateAssumption DEF StoreTypeOK
<1>2. CASE UNCHANGED store
  BY <1>1, <1>2 DEF store
<1>3. ASSUME NEW m \in Name, NEW source, Create(m, source)
      PROVE  /\ revision'[n] \in Nat /\ revision[n] <= revision'[n]
             /\ revision'[n] = revision[n] => files'[n] = files[n] /\ manifest'[n] = manifest[n]
  BY <1>1, <1>3 DEF Create, StoreTypeOK, Exists
<1>4. ASSUME NEW m \in Name, NEW p, NEW c, EditFile(m, p, c)
      PROVE  /\ revision'[n] \in Nat /\ revision[n] <= revision'[n]
             /\ revision'[n] = revision[n] => files'[n] = files[n] /\ manifest'[n] = manifest[n]
  BY <1>1, <1>4 DEF EditFile, StoreTypeOK, Touch
<1>5. ASSUME NEW m \in Name, NEW changes, EditManifest(m, changes)
      PROVE  /\ revision'[n] \in Nat /\ revision[n] <= revision'[n]
             /\ revision'[n] = revision[n] => files'[n] = files[n] /\ manifest'[n] = manifest[n]
  BY <1>1, <1>5 DEF EditManifest, StoreTypeOK, Touch
<1>6. CASE \E s \in Session : CommitPublish(call[s].name, call[s].source.revision, call[s].emitted)
  BY <1>1, <1>6 DEF CommitPublish
<1> QED BY <1>1, <1>2, <1>3, <1>4, <1>5, <1>6, CallFields DEF StoreMove

----------------------------------------------------------------------------
(***************************************************************************)
(* The inductive invariant, one lemma per conjunct.                        *)
(***************************************************************************)

LEMMA PinStep ==
    ASSUME StoreTypeOK, CallTypeOK, PinIsCurrentOrOld, StoreMove,
           \A t \in Session : CallMove(t)
    PROVE  PinIsCurrentOrOld'
<1> SUFFICES ASSUME NEW s \in Session, Pinned(s)'
             PROVE  LET n == call'[s].name
                        source == call'[s].source
                    IN /\ source.revision <= revision'[n]
                       /\ source.revision = revision'[n] =>
                             source.files = files'[n] /\ source.manifest = manifest'[n]
                       /\ CheckFiles(source.files)
                       /\ CheckManifest(source.manifest)
  BY DEF PinIsCurrentOrOld
<1>1. CASE call'[s] = call[s]
  <2>1. Pinned(s) /\ call[s].name \in Name /\ call[s].source \in PinnedSource
    BY <1>1, CallFields DEF Pinned
  <2>2. call[s].source.revision \in Nat
    BY <2>1, StateAssumption DEF PinnedSource
  <2> QED BY <1>1, <2>1, <2>2, RevisionCounts DEF PinIsCurrentOrOld
<1>2. CASE Pins(s) /\ UNCHANGED store
  BY <1>2, StateAssumption DEF Pins, store, PublishSource, StoreTypeOK
<1>3. CASE Lists(s) /\ UNCHANGED store
  BY <1>3 DEF Lists, store, PinIsCurrentOrOld, Pinned
<1>4. CASE Passes(s) /\ UNCHANGED store
  BY <1>4 DEF Passes, store, PinIsCurrentOrOld, Pinned
<1>5. CASE call'[s].step = "idle"
  BY <1>5 DEF Pinned
<1>6. CASE BeginsMerge(s)
  BY <1>6 DEF BeginsMerge, Pinned
<1> QED BY <1>1, <1>2, <1>3, <1>4, <1>5, <1>6 DEF CallMove

LEMMA CommitIsVettedStep ==
    ASSUME CallTypeOK, CommitIsVetted, \A t \in Session : CallMove(t)
    PROVE  CommitIsVetted'
<1> SUFFICES ASSUME NEW s \in Session, call'[s].step = "commit"
             PROVE  /\ Vetted(call'[s].source)
                    /\ PassesChecks(call'[s].name, call'[s].source, call'[s].others)
                    /\ call'[s].emitted = EmitFiles(call'[s].source.files)
  BY DEF CommitIsVetted
<1>1. CASE call'[s] = call[s]
  BY <1>1 DEF CommitIsVetted
<1>2. CASE Passes(s)
  <2>1. /\ call[s].name \in Name /\ call[s].source.files \in FileSet
    BY <1>2, CallFields DEF Passes, PinnedSource
  <2>2. Vetted(call[s].source)
    BY <1>2, <2>1, PassingIsVetted DEF Passes
  <2> QED BY <1>2, <2>2 DEF Passes
<1> QED BY <1>1, <1>2, MoveSteps DEF CallMove

LEMMA MergePassesStep ==
    ASSUME CallTypeOK, MergePasses, \A t \in Session : CallMove(t)
    PROVE  MergePasses'
<1> SUFFICES ASSUME NEW s \in Session, call'[s].step = "merge"
             PROVE  LET changes == call'[s].changes IN
                    /\ "summary" \in DOMAIN changes => changes.summary # Blank
                    /\ "exports" \in DOMAIN changes => changes.exports # {}
  BY DEF MergePasses
<1>1. CASE call'[s] = call[s]
  BY <1>1 DEF MergePasses
<1>2. CASE BeginsMerge(s)
  BY <1>2 DEF BeginsMerge, CheckManifest, Merge
<1> QED BY <1>1, <1>2, MoveSteps DEF CallMove

LEMMA StoredManifestsStep ==
    ASSUME StoreTypeOK, CallTypeOK, MergePasses, StoredManifestsPublish, StoreMove
    PROVE  StoredManifestsPublish'
<1> SUFFICES ASSUME NEW n \in Name, Exists(n)' PROVE CheckManifest(manifest'[n])
  BY DEF StoredManifestsPublish
<1>1. CASE UNCHANGED store
  BY <1>1 DEF store, StoredManifestsPublish, Exists
<1>2. ASSUME NEW m \in Name, NEW source \in Source, CheckManifest(source.manifest),
             Create(m, source)
      PROVE  CheckManifest(manifest'[n])
  BY <1>2 DEF Create, StoredManifestsPublish, Exists, StoreTypeOK
<1>3. ASSUME NEW m \in Name, NEW p, NEW c, EditFile(m, p, c)
      PROVE  CheckManifest(manifest'[n])
  BY <1>3 DEF EditFile, Touch, StoredManifestsPublish, Exists, StoreTypeOK
<1>4. ASSUME NEW s \in Session, call[s].step = "merge",
             EditManifest(call[s].name, call[s].changes)
      PROVE  CheckManifest(manifest'[n])
  <2>1. call[s].name \in Name
    BY <1>4, CallFields
  <2>2. CheckManifest(manifest[call[s].name])
    BY <1>4, <2>1 DEF EditManifest, StoredManifestsPublish
  <2>3. CheckManifest(Merge(manifest[call[s].name], call[s].changes))
    BY <1>4, <2>2 DEF MergePasses, CheckManifest, Merge
  <2> QED BY <1>4, <2>1, <2>3 DEF EditManifest, Touch, StoredManifestsPublish, Exists, StoreTypeOK
<1>5. CASE \E s \in Session : CommitPublish(call[s].name, call[s].source.revision, call[s].emitted)
  BY <1>5 DEF CommitPublish, StoredManifestsPublish, Exists
<1> QED BY <1>1, <1>2, <1>3, <1>4, <1>5 DEF StoreMove

\* A commit that the store accepts publishes the build of the working copy,
\* and that working copy passed the checks.
LEMMA CommitPublishesTheBuild ==
    ASSUME StoreTypeOK, CallTypeOK, PinIsCurrentOrOld, CommitIsVetted,
           NEW s \in Session, call[s].step = "commit",
           CommitPublish(call[s].name, call[s].source.revision, call[s].emitted)
    PROVE  LET n == call[s].name IN
           /\ n \in Name /\ Exists(n)
           /\ CheckFiles(files[n]) /\ CheckManifest(manifest[n])
           /\ Vetted(Working(n))
           /\ call[s].emitted = EmitFiles(files[n])
           /\ published' = [published EXCEPT ![n] =
                 [manifest |-> Build(Working(n)).manifest,
                  entry    |-> Build(Working(n)).entry,
                  files    |-> Build(Working(n)).files,
                  revision |-> revision[n]]]
<1> DEFINE n == call[s].name
           source == call[s].source
<1>1. n \in Name /\ source \in PinnedSource
  BY CallFields
<1>2. source.revision = revision[n] /\ Exists(n)
  BY DEF CommitPublish, MayCommit
<1>3. /\ source.files = files[n] /\ source.manifest = manifest[n]
      /\ CheckFiles(source.files) /\ CheckManifest(source.manifest)
  BY <1>1, <1>2 DEF PinIsCurrentOrOld, Pinned
<1>4. Vetted(source) /\ call[s].emitted = EmitFiles(source.files)
  BY DEF CommitIsVetted
<1>5. Vetted(Working(n))
  BY <1>3, <1>4 DEF Vetted, Working, Conforms
<1>6. /\ Build(Working(n)).manifest = manifest[n]
      /\ Build(Working(n)).entry = EmittedPath(EntryFile(DOMAIN files[n]))
      /\ Build(Working(n)).files = EmitFiles(files[n])
  BY DEF Build, Working
<1>7. published' = [published EXCEPT ![n] =
          [manifest |-> manifest[n],
           entry    |-> EmittedPath(EntryFile(DOMAIN files[n])),
           files    |-> call[s].emitted,
           revision |-> revision[n]]]
  BY DEF CommitPublish
<1> QED BY <1>1, <1>2, <1>3, <1>4, <1>5, <1>6, <1>7

\* The published column is only ever written by such a commit.
LEMMA PublishedMoves ==
    ASSUME StoreTypeOK, CallTypeOK, PinIsCurrentOrOld, CommitIsVetted, LiveIsOfItsRevision,
           StoreMove, NEW n \in Name
    PROVE  \/ published'[n] = published[n]
           \/ /\ Exists(n)
              /\ CheckFiles(files[n]) /\ Vetted(Working(n))
              /\ UNCHANGED <<revision, manifest, files>>
              /\ published'[n] = [manifest |-> Build(Working(n)).manifest,
                                  entry    |-> Build(Working(n)).entry,
                                  files    |-> Build(Working(n)).files,
                                  revision |-> revision[n]]
              /\ published'[n].files = Build(Working(n)).files
              /\ published'[n].revision = revision[n]
              /\ \E s \in Session :
                    /\ call[s].step = "commit" /\ call[s].name = n
                    /\ call[s].emitted = EmitFiles(files[n])
                    /\ MayCommit(n, call[s].source.revision)
<1>1. CASE UNCHANGED store
  BY <1>1 DEF store
<1>2. ASSUME NEW m \in Name, NEW source, Create(m, source)
      PROVE  published'[n] = published[n]
  <2>1. revision[m] = 0
    BY <1>2, StateAssumption DEF Create, Exists, StoreTypeOK
  <2>2. published[m] = NoSnapshot
    BY <2>1 DEF LiveIsOfItsRevision, IsLive
  <2> QED BY <1>2, <2>2 DEF Create, StoreTypeOK
<1>3. ASSUME NEW m \in Name, NEW p, NEW c, EditFile(m, p, c)
      PROVE  published'[n] = published[n]
  BY <1>3 DEF EditFile
<1>4. ASSUME NEW m \in Name, NEW changes, EditManifest(m, changes)
      PROVE  published'[n] = published[n]
  BY <1>4 DEF EditManifest
<1>5. ASSUME NEW s \in Session, call[s].step = "commit",
             CommitPublish(call[s].name, call[s].source.revision, call[s].emitted),
             published'[n] # published[n]
      PROVE  /\ Exists(n)
             /\ CheckFiles(files[n]) /\ Vetted(Working(n))
             /\ UNCHANGED <<revision, manifest, files>>
             /\ published'[n] = [manifest |-> Build(Working(n)).manifest,
                                 entry    |-> Build(Working(n)).entry,
                                 files    |-> Build(Working(n)).files,
                                 revision |-> revision[n]]
             /\ published'[n].files = Build(Working(n)).files
             /\ published'[n].revision = revision[n]
             /\ call[s].name = n
             /\ call[s].emitted = EmitFiles(files[n])
             /\ MayCommit(n, call[s].source.revision)
  <2>1. call[s].name \in Name /\ published' = [published EXCEPT ![call[s].name] =
                 [manifest |-> Build(Working(call[s].name)).manifest,
                  entry    |-> Build(Working(call[s].name)).entry,
                  files    |-> Build(Working(call[s].name)).files,
                  revision |-> revision[call[s].name]]]
    BY <1>5, CommitPublishesTheBuild
  <2>2. call[s].name = n
    BY <1>5, <2>1 DEF StoreTypeOK
  <2>3. published'[n] = [manifest |-> Build(Working(n)).manifest,
                         entry    |-> Build(Working(n)).entry,
                         files    |-> Build(Working(n)).files,
                         revision |-> revision[n]]
    BY <2>1, <2>2 DEF StoreTypeOK
  <2>4. /\ published'[n].files = Build(Working(n)).files
        /\ published'[n].revision = revision[n]
    BY <2>3
  <2> QED BY <1>5, <2>2, <2>3, <2>4, CommitPublishesTheBuild DEF CommitPublish
<1> QED BY <1>1, <1>2, <1>3, <1>4, <1>5, CallFields DEF StoreMove

LEMMA LiveIsOfItsRevisionStep ==
    ASSUME StoreTypeOK, StoreTypeOK', CallTypeOK, PinIsCurrentOrOld, CommitIsVetted,
           LiveIsOfItsRevision, StoreMove
    PROVE  LiveIsOfItsRevision'
<1> SUFFICES ASSUME NEW n \in Name, IsLive(n)'
             PROVE  /\ published'[n].revision \in 1 .. revision'[n]
                    /\ published'[n].revision = revision'[n] => Live(n)' = Build(Working(n))'
  BY DEF LiveIsOfItsRevision
<1>1. CASE published'[n] = published[n]
  <2>1. IsLive(n) /\ published[n].revision \in 1 .. revision[n]
    BY <1>1 DEF IsLive, LiveIsOfItsRevision
  <2>2. published'[n].revision \in 1 .. revision'[n]
    BY <1>1, <2>1, RevisionCounts
  <2>3. ASSUME published'[n].revision = revision'[n]
        PROVE  Live(n)' = Build(Working(n))'
    <3>1. revision'[n] = revision[n]
      BY <1>1, <2>1, <2>3, RevisionCounts
    <3>2. Live(n) = Build(Working(n))
      BY <1>1, <2>1, <2>3, <3>1 DEF LiveIsOfItsRevision
    <3>3. Live(n)' = Live(n) /\ Working(n)' = Working(n)
      BY <1>1, <3>1, RevisionCounts DEF Live, Working
    <3> QED BY <3>2, <3>3 DEF Build
  <2> QED BY <2>2, <2>3
<1>2. CASE /\ Exists(n)
           /\ UNCHANGED <<revision, manifest, files>>
           /\ published'[n] = [manifest |-> Build(Working(n)).manifest,
                               entry    |-> Build(Working(n)).entry,
                               files    |-> Build(Working(n)).files,
                               revision |-> revision[n]]
  <2>1. published'[n].revision \in 1 .. revision'[n]
    BY <1>2, StateAssumption DEF Exists, StoreTypeOK
  <2>2. Live(n)' = Build(Working(n))
    BY <1>2 DEF Live, Build
  <2>3. Build(Working(n))' = Build(Working(n))
    BY <1>2 DEF Working, Build
  <2> QED BY <2>1, <2>2, <2>3
<1> QED BY <1>1, <1>2, PublishedMoves

LEMMA LiveIsSoundStep ==
    ASSUME StoreTypeOK, CallTypeOK, PinIsCurrentOrOld, CommitIsVetted,
           LiveIsOfItsRevision, LiveIsSound, StoreMove
    PROVE  LiveIsSound'
<1> SUFFICES ASSUME NEW n \in Name, IsLive(n)' PROVE Sound(published'[n])
  BY DEF LiveIsSound
<1>1. CASE published'[n] = published[n]
  BY <1>1 DEF IsLive, LiveIsSound
<1>2. CASE /\ CheckFiles(files[n]) /\ Vetted(Working(n))
           /\ published'[n] = [manifest |-> Build(Working(n)).manifest,
                               entry    |-> Build(Working(n)).entry,
                               files    |-> Build(Working(n)).files,
                               revision |-> revision[n]]
  <2>1. Sound(Build(Working(n)))
    BY <1>2, VettedBuildsSound DEF Working, CheckFiles, StoreTypeOK
  <2> QED BY <1>2, <2>1 DEF Sound, AliasLinks
<1> QED BY <1>1, <1>2, PublishedMoves

LEMMA BuildType ==
    ASSUME NEW source \in Source, HasEntry(DOMAIN source.files)
    PROVE  /\ Build(source).manifest \in ManifestRecord
           /\ Build(source).entry \in Path
           /\ Build(source).files \in FileSet
  BY EntryIsAFile, EmitFilesIsFileSet DEF Build, Source

\* No step takes a pointer away.
LEMMA LiveStays ==
    ASSUME StoreTypeOK, CallTypeOK, PinIsCurrentOrOld, CommitIsVetted, LiveIsOfItsRevision,
           StoreMove, NEW n \in Name
    PROVE  /\ published'[n] # published[n] => published'[n] # NoSnapshot
           /\ IsLive(n) => IsLive(n)'
<1>1. ASSUME CheckFiles(files[n]),
             published'[n] = [manifest |-> Build(Working(n)).manifest,
                              entry    |-> Build(Working(n)).entry,
                              files    |-> Build(Working(n)).files,
                              revision |-> revision[n]]
      PROVE  published'[n] # NoSnapshot
  <2>1. Working(n) \in Source /\ HasEntry(DOMAIN Working(n).files)
    BY <1>1 DEF Working, Source, StoreTypeOK, CheckFiles
  <2>2. revision[n] \in Nat
    BY StateAssumption DEF StoreTypeOK
  <2>3. published'[n] \in PublishedSnapshot
    BY <1>1, <2>1, <2>2, BuildType DEF PublishedSnapshot
  <2> QED BY <2>3, StateAssumption
<1>2. published'[n] # published[n] => published'[n] # NoSnapshot
  BY <1>1, PublishedMoves
<1> QED BY <1>2 DEF IsLive

LEMMA SeenLiveStaysLiveStep ==
    ASSUME StoreTypeOK, CallTypeOK, PinIsCurrentOrOld, CommitIsVetted, LiveIsOfItsRevision,
           SeenLiveStaysLive, StoreMove, \A t \in Session : CallMove(t)
    PROVE  SeenLiveStaysLive'
<1> SUFFICES ASSUME NEW s \in Session
             PROVE  /\ call'[s].step = "check" => \A m \in DOMAIN call'[s].others : IsLive(m)'
                    /\ call'[s].step = "commit" =>
                          \A need \in NeedsOf(Build(call'[s].source)) :
                              IsLive(need[1])' \/ need[1] = call'[s].name
  BY DEF SeenLiveStaysLive, NeedsOf, Build
<1>0. /\ \A m \in Name : IsLive(m) => IsLive(m)'
      /\ \A m : published'[m] = published[m] => (IsLive(m)' <=> IsLive(m))
  BY LiveStays DEF IsLive
<1>1. CASE call'[s] = call[s]
  <2>1. ASSUME call[s].step = "check", NEW m \in DOMAIN call[s].others
        PROVE  IsLive(m)'
    BY <1>0, <2>1, CallFields DEF SeenLiveStaysLive
  <2>2. ASSUME call[s].step = "commit", NEW need \in NeedsOf(Build(call[s].source))
        PROVE  IsLive(need[1])' \/ need[1] = call[s].name
    <3>1. IsLive(need[1]) \/ need[1] = call[s].name
      BY <2>2 DEF SeenLiveStaysLive
    <3>2. need[1] \in Name
      <4>1. EmitFiles(call[s].source.files) \in FileSet
        BY <2>2, CallFields, EmitFilesIsFileSet DEF PinnedSource
      <4>2. Build(call[s].source).files = EmitFiles(call[s].source.files)
        BY DEF Build
      <4>3. need \in Name \X ExportName
        BY <2>2, <4>1, <4>2, FileSetDomain, ContentAssumption DEF NeedsOf
      <4> QED BY <4>3
    <3> QED BY <3>1, <3>2, <1>0
  <2> QED BY <1>1, <2>1, <2>2
<1>2. CASE Lists(s) /\ UNCHANGED store
  <2>1. call'[s].step = "check"
    BY <1>2, MoveSteps
  <2>2. \A m \in DOMAIN call'[s].others : published[m] # NoSnapshot
    BY <1>2 DEF Lists, ListPublished
  <2> QED BY <1>2, <2>1, <2>2 DEF store, IsLive
<1>3. CASE Passes(s) /\ UNCHANGED store
  <2> DEFINE n == call[s].name
             source == call[s].source
             others == call[s].others
             map == WithCandidate(n, Build(source), others)
  <2>1. call[s].step = "check" /\ PassesChecks(n, source, others)
        /\ call'[s].step = "commit" /\ call'[s].source = source /\ call'[s].name = n
    BY <1>3 DEF Passes
  <2>2. PICK closed \in SUBSET DOMAIN map :
           /\ n \in closed
           /\ \A m \in closed : \A need \in NeedsOf(map[m]) : need[1] \in closed
    BY <2>1 DEF PassesChecks, Loads
  <2>3. n \in DOMAIN map /\ map[n] = Build(source) /\ DOMAIN map = DOMAIN others \cup {n}
    BY DEF WithCandidate
  <2>4. \A need \in NeedsOf(Build(source)) : need[1] \in DOMAIN others \cup {n}
    BY <2>2, <2>3
  <2>5. \A m \in DOMAIN others : IsLive(m)
    BY <2>1 DEF SeenLiveStaysLive
  <2>6. \A m : IsLive(m)' <=> IsLive(m)
    BY <1>3 DEF store, IsLive
  <2> QED BY <2>1, <2>4, <2>5, <2>6
<1> QED BY <1>1, <1>2, <1>3, MoveSteps DEF CallMove

LEMMA ImportsStayLiveStep ==
    ASSUME StoreTypeOK, CallTypeOK, PinIsCurrentOrOld, CommitIsVetted, LiveIsOfItsRevision,
           SeenLiveStaysLive, ImportsStayLive, StoreMove
    PROVE  ImportsStayLive'
<1> SUFFICES ASSUME NEW n \in Name, IsLive(n)', NEW need \in NeedsOf(published'[n])
             PROVE  IsLive(need[1])'
  BY DEF ImportsStayLive, NeedsOf
<1>1. CASE published'[n] = published[n]
  <2>1. IsLive(n) /\ need \in NeedsOf(published[n])
    BY <1>1 DEF IsLive
  <2>2. IsLive(need[1])
    BY <2>1 DEF ImportsStayLive
  <2>3. need \in Name \X ExportName
    <3>1. published[n].files \in FileSet
      BY <2>1 DEF StoreTypeOK, IsLive, PublishedSnapshot
    <3> QED BY <2>1, <3>1, FileSetDomain, ContentAssumption DEF NeedsOf
  <2> QED BY <2>2, <2>3, LiveStays
<1>2. CASE published'[n] # published[n]
  <2>0. published'[n].files = Build(Working(n)).files
    BY <1>2, PublishedMoves
  <2>1. PICK s \in Session :
           /\ call[s].step = "commit" /\ call[s].name = n
           /\ call[s].emitted = EmitFiles(files[n])
    BY <1>2, PublishedMoves
  <2>2. published'[n].files = Build(call[s].source).files
    BY <2>0, <2>1 DEF CommitIsVetted, Build, Working
  <2>3. need \in NeedsOf(Build(call[s].source))
    BY <2>2 DEF NeedsOf
  <2>4. IsLive(need[1]) \/ need[1] = n
    BY <2>1, <2>3 DEF SeenLiveStaysLive
  <2>5. need \in Name \X ExportName
    <3>1. EmitFiles(call[s].source.files) \in FileSet
      BY <2>1, CallFields, EmitFilesIsFileSet DEF PinnedSource
    <3>2. Build(call[s].source).files = EmitFiles(call[s].source.files)
      BY DEF Build
    <3> QED BY <2>3, <3>1, <3>2, FileSetDomain, ContentAssumption DEF NeedsOf
  <2>6. need[1] \in Name
    BY <2>5
  <2> QED BY <2>4, <2>6, LiveStays
<1> QED BY <1>1, <1>2

LEMMA InvInit == Init => IInv
<1> SUFFICES ASSUME Init PROVE IInv
  OBVIOUS
<1>1. TypeOK
  BY TypeInit
<1>2. \A n \in Name : ~ IsLive(n) /\ ~ Exists(n)
  BY DEF Init, StoreInit, IsLive, Exists
<1>3. \A s \in Session : call[s].step = "idle"
  BY DEF Init
<1>4. PinIsCurrentOrOld /\ CommitIsVetted /\ MergePasses /\ SeenLiveStaysLive
  BY <1>3 DEF PinIsCurrentOrOld, Pinned, CommitIsVetted, MergePasses, SeenLiveStaysLive
<1>5. LiveIsOfItsRevision /\ LiveIsSound /\ StoredManifestsPublish /\ ImportsStayLive
  BY <1>2 DEF LiveIsOfItsRevision, LiveIsSound, StoredManifestsPublish, ImportsStayLive
<1> QED BY <1>1, <1>4, <1>5 DEF IInv

LEMMA InvStep == IInv /\ [Next]_vars => IInv'
<1> SUFFICES ASSUME IInv, [Next]_vars PROVE IInv'
  OBVIOUS
<1>1. TypeOK' /\ StoreTypeOK /\ CallTypeOK /\ StoreTypeOK'
  <2>1. TypeOK'
    BY TypeStep DEF IInv
  <2> QED BY <2>1, TypeOKParts DEF IInv, TypeOK, StoreTypeOK
<1>2. StoreMove /\ \A t \in Session : CallMove(t)
  BY StoreMoves, CallMoves DEF IInv
<1>3. PinIsCurrentOrOld'
  BY <1>1, <1>2, PinStep DEF IInv
<1>4. CommitIsVetted'
  BY <1>1, <1>2, CommitIsVettedStep DEF IInv
<1>5. MergePasses'
  BY <1>1, <1>2, MergePassesStep DEF IInv
<1>6. LiveIsOfItsRevision'
  BY <1>1, <1>2, LiveIsOfItsRevisionStep DEF IInv
<1>7. LiveIsSound'
  BY <1>1, <1>2, LiveIsSoundStep DEF IInv
<1>8. StoredManifestsPublish'
  BY <1>1, <1>2, StoredManifestsStep DEF IInv
<1>9. SeenLiveStaysLive'
  BY <1>1, <1>2, SeenLiveStaysLiveStep DEF IInv
<1>10. ImportsStayLive'
  BY <1>1, <1>2, ImportsStayLiveStep DEF IInv
<1> QED BY <1>1, <1>3, <1>4, <1>5, <1>6, <1>7, <1>8, <1>9, <1>10 DEF IInv

(* The inductive invariant holds of every behaviour.                          *)
THEOREM Invariance == Spec => []IInv
  BY InvInit, InvStep, PTL DEF Spec

(* Whatever edits and publishes of several conversations interleave, what is  *)
(* live passed the checks as a whole.                                         *)
THEOREM LiveAlwaysSound == Spec => []LiveIsSound
<1>1. IInv => LiveIsSound
  BY DEF IInv
<1> QED BY <1>1, Invariance, PTL

(* A package shown as "published" serves the build of its working copy.       *)
THEOREM PublishedIsTruthful == Spec => []PublishedStateIsTruthful
<1>1. IInv => PublishedStateIsTruthful
  BY DEF IInv, LiveIsOfItsRevision, PublishedStateIsTruthful, StateOf, IsLive
<1> QED BY <1>1, Invariance, PTL

(* The store never holds a manifest that could not publish.                   *)
THEOREM ManifestsAlwaysPublish == Spec => []StoredManifestsPublish
<1>1. IInv => StoredManifestsPublish
  BY DEF IInv
<1> QED BY <1>1, Invariance, PTL

(* No live package ever imports a package that is not live.                   *)
THEOREM ImportsAlwaysLive == Spec => []ImportsStayLive
<1>1. IInv => ImportsStayLive
  BY DEF IInv
<1> QED BY <1>1, Invariance, PTL

(* A published pointer neither disappears nor goes back to an older revision. *)
THEOREM NeverRegresses == Spec => LiveNeverRegresses
<1> DEFINE Forward == \A n \in Name : IsLive(n) =>
                /\ published'[n] # NoSnapshot
                /\ published'[n].revision >= published[n].revision
<1>1. ASSUME IInv, [Next]_vars PROVE Forward
  <2> SUFFICES ASSUME NEW n \in Name, IsLive(n)
               PROVE  /\ published'[n] # NoSnapshot
                      /\ published'[n].revision >= published[n].revision
    OBVIOUS
  <2>1. StoreMove /\ StoreTypeOK /\ CallTypeOK
    BY <1>1, StoreMoves, TypeOKParts DEF IInv
  <2>2. published'[n] # NoSnapshot
    BY <1>1, <2>1, LiveStays DEF IInv, IsLive
  <2>3. published[n].revision \in 1 .. revision[n] /\ revision[n] \in Nat
    BY <1>1, <2>1, StateAssumption DEF IInv, LiveIsOfItsRevision, StoreTypeOK
  <2>4. published'[n] = published[n] \/ published'[n].revision = revision[n]
    BY <1>1, <2>1, PublishedMoves DEF IInv
  <2> QED BY <2>2, <2>3, <2>4
<1>2. IInv /\ [Next]_vars => [Forward]_vars
  BY <1>1
<1>3. LiveNeverRegresses <=> [][Forward]_vars
  BY DEF LiveNeverRegresses
<1> QED BY <1>2, <1>3, Invariance, PTL DEF Spec

\* Who goes from a commit to idle while the published column changes is the
\* one who changed it.
LEMMA CommitterMoves ==
    ASSUME TypeOK, [Next]_vars, NEW s \in Session,
           call[s].step = "commit", call'[s].step = "idle", published' # published
    PROVE  CommitPublish(call[s].name, call[s].source.revision, call[s].emitted)
<1>0. DOMAIN call = Session
  BY DEF TypeOK
<1>1. CASE UNCHANGED vars
  BY <1>1 DEF vars
<1>2. ASSUME NEW n \in Name, CreateFromSource(n) \/ CreateFromRun(n) \/ EditPackageFile(n)
      PROVE  FALSE
  <2>1. UNCHANGED call
    BY <1>2 DEF CreateFromSource, CreateFromRun, CreatePackage, EditPackageFile
  <2> QED BY <2>1
<1>3. ASSUME NEW n \in Name, NEW t \in Session, CheckManifestEdit(t, n) \/ BeginPublish(t, n)
      PROVE  FALSE
  BY <1>3 DEF CheckManifestEdit, BeginPublish, store
<1>4. ASSUME NEW t \in Session, Step(t)
      PROVE  CommitPublish(call[s].name, call[s].source.revision, call[s].emitted)
  <2>1. CASE t = s
    BY <1>4, <2>1 DEF Step, MergeManifestEdit, ListOthers, CheckPublish, ProbeFails, Commit,
                      CommitRefused, StoreCallLost, store
  <2>2. CASE t # s
    <3>1. call'[s] = call[s]
      BY <1>0, <1>4, <2>2 DEF Step, MergeManifestEdit, ListOthers, CheckPublish, ProbeFails, Commit,
                              CommitRefused, StoreCallLost, Answer, Await
    <3> QED BY <3>1
  <2> QED BY <2>1, <2>2
<1> QED BY <1>1, <1>2, <1>3, <1>4 DEF Next

\* A module map loads a package in another map that has the same programs.
LEMMA LoadsElsewhere ==
    ASSUME NEW n, NEW map, NEW wider, Loads(n, map), DOMAIN map \subseteq DOMAIN wider,
           \A m \in DOMAIN map :
               /\ wider[m].manifest = map[m].manifest
               /\ wider[m].entry = map[m].entry
               /\ wider[m].files = map[m].files
    PROVE  Loads(n, wider)
<1>1. PICK closed \in SUBSET DOMAIN map :
        /\ n \in closed
        /\ \A m \in closed :
             /\ AliasLinks(map[m])
             /\ \A q \in DOMAIN map[m].files : map[m].files[q] \notin Throws
             /\ \A need \in NeedsOf(map[m]) :
                   need[1] \in closed /\ need[2] \in map[need[1]].manifest.exports
  BY DEF Loads
<1>2. ASSUME NEW m \in closed
      PROVE  /\ AliasLinks(wider[m])
             /\ \A q \in DOMAIN wider[m].files : wider[m].files[q] \notin Throws
             /\ \A need \in NeedsOf(wider[m]) :
                   need[1] \in closed /\ need[2] \in wider[need[1]].manifest.exports
  <2>1. NeedsOf(wider[m]) = NeedsOf(map[m])
    BY <1>1 DEF NeedsOf
  <2>2. AliasLinks(wider[m])
    BY <1>1 DEF AliasLinks
  <2> QED BY <1>1, <2>1, <2>2
<1>3. closed \in SUBSET DOMAIN wider
  BY <1>1
<1> QED BY <1>1, <1>2, <1>3 DEF Loads

(* A package that goes live loads beside what is live then, unless a package  *)
(* its checks were shown was republished since: the checks were right about   *)
(* all that stayed as it was.                                                 *)
THEOREM LoadsUnlessOthersMoved == Spec => LoadsUnlessDrifted
<1> DEFINE Right(s) ==
        LET n == call[s].name IN
        /\ call[s].step = "commit" /\ call'[s].step = "idle"
        /\ published'[n] # published[n]
        =>
        \/ Loads(n, ListPublished')
        \/ \E m \in DOMAIN call[s].others : published[m] # call[s].others[m]
<1>1. ASSUME IInv, [Next]_vars, NEW s \in Session PROVE Right(s)
  <2> DEFINE n == call[s].name
             source == call[s].source
             others == call[s].others
             map == WithCandidate(n, Build(source), others)
  <2> SUFFICES ASSUME call[s].step = "commit", call'[s].step = "idle",
                      published'[n] # published[n],
                      \A m \in DOMAIN others : published[m] = others[m]
               PROVE  Loads(n, ListPublished')
    OBVIOUS
  <2>1. TypeOK /\ StoreTypeOK /\ CallTypeOK
    BY <1>1, TypeOKParts DEF IInv
  <2>2. n \in Name /\ DOMAIN others \subseteq Name
    BY <2>1 DEF CallTypeOK, CallOK
  <2>3. CommitPublish(n, source.revision, call[s].emitted)
    BY <1>1, <2>1, CommitterMoves
  <2>4. /\ Exists(n) /\ source.revision = revision[n]
        /\ source.files = files[n] /\ source.manifest = manifest[n]
        /\ call[s].emitted = EmitFiles(source.files)
        /\ Loads(n, map)
    BY <1>1, <2>2, <2>3 DEF IInv, CommitPublish, MayCommit, PinIsCurrentOrOld, Pinned,
                           CommitIsVetted, PassesChecks
  <2>5. published' = [published EXCEPT ![n] =
            [manifest |-> manifest[n],
             entry    |-> EmittedPath(EntryFile(DOMAIN files[n])),
             files    |-> call[s].emitted,
             revision |-> revision[n]]]
    BY <2>3 DEF CommitPublish
  <2>6. /\ published'[n] = [manifest |-> manifest[n],
                            entry    |-> EmittedPath(EntryFile(DOMAIN files[n])),
                            files    |-> call[s].emitted,
                            revision |-> revision[n]]
        /\ \A m \in Name \ {n} : published'[m] = published[m]
    BY <2>1, <2>2, <2>5 DEF StoreTypeOK
  <2>7. published'[n] # NoSnapshot
    BY <1>1, <2>1, <2>2, LiveStays, StoreMoves DEF IInv, IsLive
  <2>8. \A m \in DOMAIN others : published[m] # NoSnapshot
    <3>1. \A m \in DOMAIN others : others[m] \in PublishedSnapshot
      BY <2>1 DEF CallTypeOK, CallOK
    <3> QED BY <3>1, StateAssumption
  <2>9. /\ DOMAIN ListPublished' = {m \in Name : published'[m] # NoSnapshot}
        /\ \A m \in DOMAIN ListPublished' : ListPublished'[m] = published'[m]
    BY DEF ListPublished
  <2>10. DOMAIN map = DOMAIN others \cup {n}
         /\ \A m \in DOMAIN map : map[m] = IF m = n THEN Build(source) ELSE others[m]
    BY DEF WithCandidate
  <2>11. DOMAIN map \subseteq DOMAIN ListPublished'
    BY <2>2, <2>6, <2>7, <2>8, <2>9, <2>10
  <2>12. ASSUME NEW m \in DOMAIN map
         PROVE  /\ ListPublished'[m].manifest = map[m].manifest
                /\ ListPublished'[m].entry = map[m].entry
                /\ ListPublished'[m].files = map[m].files
    <3>1. ListPublished'[m] = published'[m]
      BY <2>9, <2>11, <2>12
    <3>2. CASE m = n
      BY <2>4, <2>6, <2>10, <3>1, <3>2 DEF Build
    <3>3. CASE m # n
      BY <2>2, <2>6, <2>10, <3>1, <3>3
    <3> QED BY <3>2, <3>3
  <2> HIDE DEF map
  <2> QED BY <2>4, <2>11, <2>12, LoadsElsewhere
<1>2. IInv /\ [Next]_vars => [\A s \in Session : Right(s)]_vars
  BY <1>1
<1>3. LoadsUnlessDrifted <=> [][\A s \in Session : Right(s)]_vars
  BY DEF LoadsUnlessDrifted
<1> QED BY <1>2, <1>3, Invariance, PTL DEF Spec

(* A working copy with two index files freezes what is live, for good.        *)
THEOREM TwoIndexesFreeze == Spec => TwoIndexesFreezeLive
<1> DEFINE Frozen == \A n \in Name : Exists(n) /\ {IndexTs, IndexJs} \subseteq DOMAIN files[n] =>
                /\ published'[n] = published[n]
                /\ {IndexTs, IndexJs} \subseteq DOMAIN files'[n]
<1>1. ASSUME IInv, [Next]_vars PROVE Frozen
  <2> SUFFICES ASSUME NEW n \in Name, Exists(n), {IndexTs, IndexJs} \subseteq DOMAIN files[n]
               PROVE  /\ published'[n] = published[n]
                      /\ {IndexTs, IndexJs} \subseteq DOMAIN files'[n]
    OBVIOUS
  <2>1. StoreMove /\ StoreTypeOK /\ CallTypeOK
    BY <1>1, StoreMoves, TypeOKParts DEF IInv
  <2>2. ~ CheckFiles(files[n])
    BY DEF CheckFiles
  <2>3. published'[n] = published[n]
    BY <1>1, <2>1, <2>2, PublishedMoves DEF IInv
  <2>4. DOMAIN files[n] \subseteq DOMAIN files'[n]
    <3>1. ASSUME NEW m \in Name, NEW source, Create(m, source)
          PROVE  DOMAIN files[n] \subseteq DOMAIN files'[n]
      BY <2>1, <3>1 DEF Create, StoreTypeOK
    <3>2. ASSUME NEW m \in Name, NEW p, NEW c, EditFile(m, p, c)
          PROVE  DOMAIN files[n] \subseteq DOMAIN files'[n]
      BY <2>1, <3>2 DEF EditFile, WriteFile, StoreTypeOK
    <3>3. CASE files' = files
      BY <3>3
    <3> QED BY <2>1, <3>1, <3>2, <3>3 DEF StoreMove, store, EditManifest, CommitPublish
  <2> QED BY <2>3, <2>4
<1>2. IInv /\ [Next]_vars => [Frozen]_vars
  BY <1>1
<1>3. TwoIndexesFreezeLive <=> [][Frozen]_vars
  BY DEF TwoIndexesFreezeLive
<1> QED BY <1>2, <1>3, Invariance, PTL DEF Spec

----------------------------------------------------------------------------
\* Who goes from a merge to idle has had it done, or the store was left alone.
LEMMA MergerMoves ==
    ASSUME TypeOK, [Next]_vars, NEW s \in Session,
           call[s].step = "merge", call'[s].step = "idle"
    PROVE  manifest' = manifest \/ EditManifest(call[s].name, call[s].changes)
<1>0. DOMAIN call = Session
  BY DEF TypeOK
<1>1. CASE UNCHANGED vars
  BY <1>1 DEF vars
<1>2. ASSUME NEW n \in Name, CreateFromSource(n) \/ CreateFromRun(n) \/ EditPackageFile(n)
      PROVE  FALSE
  <2>1. UNCHANGED call
    BY <1>2 DEF CreateFromSource, CreateFromRun, CreatePackage, EditPackageFile
  <2> QED BY <2>1
<1>3. ASSUME NEW t \in Session, NEW n \in Name, CheckManifestEdit(t, n) \/ BeginPublish(t, n)
      PROVE  manifest' = manifest
  BY <1>3 DEF CheckManifestEdit, BeginPublish, store
<1>4. ASSUME NEW t \in Session, Step(t)
      PROVE  manifest' = manifest \/ EditManifest(call[s].name, call[s].changes)
  <2>1. CASE t = s
    BY <1>4, <2>1 DEF Step, MergeManifestEdit, ListOthers, CheckPublish, ProbeFails, Commit,
                      CommitRefused, StoreCallLost, store
  <2>2. CASE t # s
    <3>1. call'[s] = call[s]
      BY <1>0, <1>4, <2>2 DEF Step, MergeManifestEdit, ListOthers, CheckPublish, ProbeFails, Commit,
                              CommitRefused, StoreCallLost, Answer, Await
    <3> QED BY <3>1
  <2> QED BY <2>1, <2>2
<1> QED BY <1>1, <1>2, <1>3, <1>4 DEF Next

\* A manifest edit that carries one half leaves the other as the store has it
\* when the edit lands, whatever others edited since it was checked
\* (editManifest of store/PackageState.ts).
THEOREM HalvesStay == Spec => HalfEditKeepsOtherHalf
<1> DEFINE Halves ==
        \A s \in Session :
          call[s].step = "merge" /\ call'[s].step = "idle" =>
            LET n == call[s].name IN
            /\ "summary" \notin DOMAIN call[s].changes =>
                  manifest'[n].summary = manifest[n].summary
            /\ "exports" \notin DOMAIN call[s].changes =>
                  manifest'[n].exports = manifest[n].exports
<1>1. ASSUME TypeOK, [Next]_vars PROVE Halves
  <2> SUFFICES ASSUME NEW s \in Session, call[s].step = "merge", call'[s].step = "idle"
               PROVE  /\ "summary" \notin DOMAIN call[s].changes =>
                            manifest'[call[s].name].summary = manifest[call[s].name].summary
                      /\ "exports" \notin DOMAIN call[s].changes =>
                            manifest'[call[s].name].exports = manifest[call[s].name].exports
    OBVIOUS
  <2>1. CASE manifest' = manifest
    BY <2>1
  <2>2. CASE EditManifest(call[s].name, call[s].changes)
    <3>1. call[s].name \in Name
      BY <1>1, TypeOKParts, CallFields
    <3>2. manifest'[call[s].name] = Merge(manifest[call[s].name], call[s].changes)
      BY <1>1, <2>2, <3>1 DEF EditManifest, TypeOK
    <3> QED BY <3>2 DEF Merge
  <2> QED BY <1>1, <2>1, <2>2, MergerMoves
<1>2. TypeOK /\ [Next]_vars => [Halves]_vars
  BY <1>1
<1>3. HalfEditKeepsOtherHalf <=> [][Halves]_vars
  BY DEF HalfEditKeepsOtherHalf
<1> QED BY <1>2, <1>3, TypeCorrect, PTL DEF Spec

----------------------------------------------------------------------------
(***************************************************************************)
(* Packages implements PackageContract.                                    *)
(***************************************************************************)

\* The contract reads the rules as the detailed specification does.
LEMMA SameRules ==
    /\ Contract!Path = Path /\ Contract!ManifestRecord = ManifestRecord
    /\ Contract!Source = Source
    /\ \A fs : Contract!CheckFiles(fs) <=> CheckFiles(fs)
    /\ \A m : Contract!CheckManifest(m) <=> CheckManifest(m)
    /\ \A source : Contract!Vetted(source) <=> Vetted(source)
    /\ \A source : Contract!Build(source) = Build(source)
<1>1. Contract!Path = Path /\ Contract!ManifestRecord = ManifestRecord
  BY DEF Contract!Path, Path, Contract!ManifestRecord, ManifestRecord
<1>2. Contract!Source = Source
  BY <1>1 DEF Contract!Source, Source, Contract!FileSet, FileSet
<1>3. Contract!IndexTs = IndexTs /\ Contract!IndexJs = IndexJs
  BY DEF Contract!IndexTs, Contract!IndexJs, IndexTs, IndexJs
<1>4. \A paths : /\ Contract!HasEntry(paths) <=> HasEntry(paths)
                 /\ Contract!EntryFile(paths) = EntryFile(paths)
  BY <1>3 DEF Contract!HasEntry, HasEntry, Contract!EntryFile, EntryFile
<1>5. \A fs : Contract!CheckFiles(fs) <=> CheckFiles(fs)
  BY <1>3, <1>4 DEF Contract!CheckFiles, CheckFiles
<1>6. \A m : Contract!CheckManifest(m) <=> CheckManifest(m)
  BY DEF Contract!CheckManifest, CheckManifest
<1>7. \A p : Contract!EmittedPath(p) = EmittedPath(p)
  BY DEF Contract!EmittedPath, EmittedPath
<1>8. \A fs : Contract!EmitsCleanly(fs) <=> EmitsCleanly(fs)
  BY <1>7 DEF Contract!EmitsCleanly, EmitsCleanly
<1>9. \A source : Contract!Conforms(source) <=> Conforms(source)
  BY <1>4 DEF Contract!Conforms, Conforms
<1>10. \A source : Contract!Vetted(source) <=> Vetted(source)
  BY <1>8, <1>9 DEF Contract!Vetted, Vetted
<1>11. \A fs : Contract!EmitFiles(fs) = EmitFiles(fs)
  BY DEF Contract!EmitFiles, EmitFiles, Contract!EmittedPath, EmittedPath
<1>12. \A source : Contract!Build(source) = Build(source)
  BY <1>4, <1>7, <1>11 DEF Contract!Build, Build
<1> QED BY <1>1, <1>2, <1>5, <1>6, <1>10, <1>12

LEMMA ContractInit == Init => Contract!Init
  BY DEF Init, StoreInit, Contract!Init, WorkMap, LiveMap, Exists, IsLive

\* The two maps move where the tables do.
LEMMA MapsMove ==
    ASSUME NEW n \in Name,
           \A m \in Name \ {n} : /\ revision'[m] = revision[m] /\ files'[m] = files[m]
                                 /\ manifest'[m] = manifest[m] /\ published'[m] = published[m]
    PROVE  /\ WorkMap' = [WorkMap EXCEPT ![n] = IF Exists(n)' THEN Working(n)' ELSE NoPackage]
           /\ LiveMap' = [LiveMap EXCEPT ![n] = IF IsLive(n)' THEN Live(n)' ELSE NoSnapshot]
  BY DEF WorkMap, LiveMap, Exists, IsLive, Working, Live

LEMMA ContractStep == IInv /\ [Next]_vars => [Contract!Next]_<<WorkMap, LiveMap>>
<1> SUFFICES ASSUME IInv, [Next]_vars
             PROVE  Contract!Next \/ UNCHANGED <<WorkMap, LiveMap>>
  OBVIOUS
<1>1. StoreMove /\ StoreTypeOK /\ CallTypeOK
  BY StoreMoves, TypeOKParts DEF IInv
<1>2. CASE UNCHANGED store
  BY <1>2 DEF store, WorkMap, LiveMap, Exists, IsLive, Working, Live
<1>3. ASSUME NEW n \in Name, NEW source \in Source, CheckFiles(source.files),
             CheckManifest(source.manifest), Create(n, source)
      PROVE  Contract!Create(n)
  <2>1. revision[n] = 0 /\ published[n] = NoSnapshot
    BY <1>1, <1>3, StateAssumption DEF Create, Exists, StoreTypeOK, IInv, LiveIsOfItsRevision, IsLive
  <2>2. /\ Exists(n)' /\ ~ IsLive(n)' /\ ~ IsLive(n) /\ ~ Exists(n)
        /\ files'[n] = source.files /\ manifest'[n] = source.manifest
    BY <1>1, <1>3, <2>1 DEF Create, Exists, StoreTypeOK, IsLive
  <2>3. Working(n)' = source
    BY <2>2 DEF Working, Source
  <2>4. WorkMap' = [WorkMap EXCEPT ![n] = source] /\ LiveMap' = [LiveMap EXCEPT ![n] = NoSnapshot]
    BY <1>1, <1>3, <2>2, <2>3, MapsMove DEF Create, StoreTypeOK
  <2>5. WorkMap[n] = NoPackage /\ LiveMap[n] = NoSnapshot /\ WorkMap'[n] = source
    BY <2>2, <2>4 DEF WorkMap, LiveMap
  <2>6. LiveMap' = LiveMap
    BY <2>4, <2>5 DEF LiveMap
  <2>7. /\ source \in Contract!Source
        /\ Contract!CheckFiles(source.files) /\ Contract!CheckManifest(source.manifest)
    BY <1>3, SameRules
  <2>8. source \in {WorkMap'[n]} /\ WorkMap[n] = NoPackage /\ UNCHANGED LiveMap
    BY <2>5, <2>6
  <2>9. WorkMap' = [WorkMap EXCEPT ![n] = source]
    BY <2>4
  <2> QED BY <2>7, <2>8, <2>9 DEF Contract!Create
<1>4. ASSUME NEW n \in Name, NEW path \in Path, NEW content \in Content,
             EditFile(n, path, content)
      PROVE  Contract!EditFile(n)
  <2>1. /\ Exists(n) /\ Exists(n)' /\ (IsLive(n)' <=> IsLive(n)) /\ Live(n)' = Live(n)
        /\ files'[n] = WriteFile(files[n], path, content) /\ manifest'[n] = manifest[n]
    BY <1>1, <1>4, StateAssumption DEF EditFile, Touch, Exists, IsLive, Live, StoreTypeOK
  <2>2. Working(n)' = [Working(n) EXCEPT !.files = WriteFile(files[n], path, content)]
    BY <2>1 DEF Working
  <2>3. /\ WorkMap' = [WorkMap EXCEPT ![n] = Working(n)']
        /\ LiveMap' = [LiveMap EXCEPT ![n] = IF IsLive(n) THEN Live(n) ELSE NoSnapshot]
    BY <1>1, <1>4, <2>1, MapsMove DEF EditFile, Touch, StoreTypeOK
  <2>4. WorkMap[n] = Working(n) /\ Working(n).files = files[n] /\ LiveMap' = LiveMap
    BY <2>1, <2>3 DEF WorkMap, LiveMap, Working
  <2>5. Working(n) # NoPackage
    BY <1>1, ContractAssumption DEF Working, Source, StoreTypeOK
  <2>6. WorkMap' = [WorkMap EXCEPT ![n].files =
                      [p \in DOMAIN @ \cup {path} |-> IF p = path THEN content ELSE @[p]]]
    BY <2>2, <2>3, <2>4 DEF WriteFile
  <2>7. WorkMap[n] # NoPackage /\ UNCHANGED LiveMap
    BY <2>4, <2>5
  <2> QED BY <2>6, <2>7, SameRules DEF Contract!EditFile
<1>5. ASSUME NEW s \in Session, NEW n \in Name, NEW changes \in ManifestEdit,
             call[s].step = "merge", call[s].changes = changes, EditManifest(n, changes)
      PROVE  Contract!EditManifest(n)
  <2>0. PICK merged : merged = Merge(manifest[n], changes)
    OBVIOUS
  <2>1. /\ Exists(n) /\ Exists(n)' /\ (IsLive(n)' <=> IsLive(n)) /\ Live(n)' = Live(n)
        /\ manifest'[n] = merged /\ files'[n] = files[n]
    BY <1>1, <1>5, <2>0, StateAssumption DEF EditManifest, Touch, Exists, IsLive, Live, StoreTypeOK
  <2>2. merged \in ManifestRecord
    BY <1>1, <2>0, ManifestEditType DEF StoreTypeOK
  <2>3. CheckManifest(merged)
    BY <1>5, <2>0, <2>1 DEF IInv, StoredManifestsPublish, MergePasses, CheckManifest, Merge
  <2>4. Working(n)' = [Working(n) EXCEPT !.manifest = merged]
    BY <2>1 DEF Working
  <2>5. /\ WorkMap' = [WorkMap EXCEPT ![n] = Working(n)']
        /\ LiveMap' = [LiveMap EXCEPT ![n] = IF IsLive(n) THEN Live(n) ELSE NoSnapshot]
    BY <1>1, <1>5, <2>0, <2>1, MapsMove DEF EditManifest, Touch, StoreTypeOK
  <2>6. WorkMap[n] = Working(n) /\ LiveMap' = LiveMap
    BY <2>0, <2>1, <2>5 DEF WorkMap, LiveMap
  <2>7. Working(n) # NoPackage
    BY <1>1, <2>0, ContractAssumption DEF Working, Source, StoreTypeOK
  <2>8. WorkMap' = [WorkMap EXCEPT ![n].manifest = merged]
    BY <2>4, <2>5, <2>6
  <2>9. WorkMap[n] # NoPackage /\ UNCHANGED LiveMap
    BY <2>6, <2>7
  <2> QED BY <2>2, <2>3, <2>8, <2>9, SameRules DEF Contract!EditManifest
<1>6. ASSUME NEW s \in Session, NEW n \in Name, call[s].step = "commit", call[s].name = n,
             CommitPublish(call[s].name, call[s].source.revision, call[s].emitted)
      PROVE  Contract!Publish(n)
  <2>0. PICK snapshot : snapshot = [manifest |-> Build(Working(n)).manifest,
                                    entry    |-> Build(Working(n)).entry,
                                    files    |-> Build(Working(n)).files,
                                    revision |-> revision[n]]
    OBVIOUS
  <2>1. /\ Exists(n)
        /\ CheckFiles(files[n]) /\ CheckManifest(manifest[n]) /\ Vetted(Working(n))
        /\ published' = [published EXCEPT ![n] = snapshot]
    BY <1>1, <1>6, <2>0, CommitPublishesTheBuild DEF IInv
  <2>2. UNCHANGED <<revision, manifest, files>>
    BY <1>6 DEF CommitPublish
  <2>3. published'[n] = snapshot
    BY <1>1, <2>1 DEF StoreTypeOK
  <2>4. Live(n)' = Build(Working(n))
    BY <2>0, <2>3 DEF Live, Build
  <2>5. IsLive(n)'
    <3>1. Working(n) \in Source /\ HasEntry(DOMAIN Working(n).files)
      BY <1>1, <2>1 DEF Working, Source, StoreTypeOK, CheckFiles
    <3>2. revision[n] \in Nat
      BY <1>1, <2>1, StateAssumption DEF StoreTypeOK
    <3>3. snapshot \in PublishedSnapshot
      BY <2>0, <3>1, <3>2, BuildType DEF PublishedSnapshot
    <3> QED BY <2>3, <3>3, StateAssumption DEF IsLive
  <2>6. Exists(n)' /\ Working(n)' = Working(n) /\ WorkMap[n] = Working(n)
    BY <2>1, <2>2 DEF Exists, Working, WorkMap
  <2>7. /\ WorkMap' = [WorkMap EXCEPT ![n] = Working(n)]
        /\ LiveMap' = [LiveMap EXCEPT ![n] = Build(Working(n))]
    BY <1>1, <2>1, <2>2, <2>4, <2>5, <2>6, MapsMove DEF StoreTypeOK
  <2>8. WorkMap' = WorkMap
    BY <2>6, <2>7 DEF WorkMap
  <2>9. Working(n) # NoPackage
    BY <1>1, <2>1, ContractAssumption DEF Working, Source, StoreTypeOK
  <2>10. Contract!Publishable(WorkMap[n])
    BY <2>1, <2>6, SameRules DEF Contract!Publishable, Working
  <2>11. /\ WorkMap[n] # NoPackage /\ UNCHANGED WorkMap
         /\ LiveMap' = [LiveMap EXCEPT ![n] = Contract!Build(WorkMap[n])]
    BY <2>6, <2>7, <2>8, <2>9, SameRules
  <2> QED BY <2>10, <2>11 DEF Contract!Publish
<1>7. \A s \in Session :
         /\ call[s].step \in {"merge", "commit"} => call[s].name \in Name
         /\ call[s].step = "merge" => call[s].changes \in ManifestEdit
  BY <1>1, CallFields
<1> QED BY <1>1, <1>2, <1>3, <1>4, <1>5, <1>6, <1>7 DEF StoreMove, Contract!Next

(* Publish, although it awaits the store four times while others edit, acts   *)
(* as if it read, judged and built the working copy when it commits; and an   *)
(* edit never touches what is live.                                           *)
THEOREM Implementation == Spec => ContractSpec
  BY ContractInit, ContractStep, Invariance, PTL DEF Spec, ContractSpec, Contract!Spec
=============================================================================

---------------------------- MODULE PackageState ----------------------------
(***************************************************************************)
(* The owner store's package tables and the methods over them              *)
(* (store/PackageState.ts behind store/OwnerStore.ts).  A durable object   *)
(* runs one event at a time and every method is synchronous SQL inside one *)
(* transaction, so a method is one step.  A method that refuses changes    *)
(* nothing: its guard here is the condition under which it does not.       *)
(***************************************************************************)
EXTENDS PublishChecks, Naturals

CONSTANTS
    NoSnapshot,     \* the NULL of the published column
    MaxRevision     \* bound: edits of one package stop at this revision

PublishedSnapshot ==
    [manifest : ManifestRecord, entry : Path, files : FileSet, revision : Nat]

ASSUME StateAssumption ==
    /\ NoSnapshot \notin PublishedSnapshot
    /\ MaxRevision \in Nat \ {0}

VARIABLES
    revision,   \* packages.revision; 0 where the table has no row
    manifest,   \* packages.manifest
    files,      \* the package_files rows of each package
    published   \* packages.published

store == <<revision, manifest, files, published>>

\* The manifest and files of a package that has no row are never looked at.
StoreInit ==
    /\ revision = [n \in Name |-> 0]
    /\ manifest = [n \in Name |-> [summary |-> Blank, exports |-> {}]]
    /\ files = [n \in Name |-> [p \in {} |-> p]]
    /\ published = [n \in Name |-> NoSnapshot]

Exists(n) == revision[n] > 0

\* stateOf: what the overview calls a package.
StateOf(n) ==
    CASE published[n] = NoSnapshot -> "draft"
      [] published[n] # NoSnapshot /\ published[n].revision = revision[n] -> "published"
      [] OTHER -> "modified"

\* publishSource: what the checks run against, pinned to its revision.
PublishSource(n) ==
    [files |-> files[n], manifest |-> manifest[n], revision |-> revision[n]]

\* listPublished: every published snapshot, by name.
ListPublished == [m \in {m \in Name : published[m] # NoSnapshot} |-> published[m]]

----------------------------------------------------------------------------
\* create: a new row at revision 1 with its files; refused for a taken name.
Create(n, source) ==
    /\ ~ Exists(n)
    /\ revision' = [revision EXCEPT ![n] = 1]
    /\ manifest' = [manifest EXCEPT ![n] = source.manifest]
    /\ files' = [files EXCEPT ![n] = source.files]
    /\ published' = [published EXCEPT ![n] = NoSnapshot]

\* touch: every write to working state moves the revision on.
Touch(n) ==
    /\ revision[n] < MaxRevision
    /\ revision' = [revision EXCEPT ![n] = @ + 1]

\* Mutant: the other files go.
WriteOnly(current, path, content) == [p \in {path} |-> content]

\* The files with one written over, or added.
WriteFile(current, path, content) ==
    [p \in DOMAIN current \cup {path} |-> IF p = path THEN content ELSE current[p]]

\* editFile
EditFile(n, path, content) ==
    /\ Exists(n)
    /\ files' = [files EXCEPT ![n] = WriteFile(@, path, content)]
    /\ Touch(n)
    /\ UNCHANGED <<manifest, published>>

\* The halves that arrive replace theirs, an absent half keeps what is there.
Merge(current, changes) ==
    [summary |-> IF "summary" \in DOMAIN changes THEN changes.summary ELSE current.summary,
     exports |-> IF "exports" \in DOMAIN changes THEN changes.exports ELSE current.exports]

\* Mutant: an absent half is written as empty.
EditManifestWhole(n, changes) ==
    /\ Exists(n)
    /\ manifest' = [manifest EXCEPT ![n] =
          Merge([summary |-> Blank, exports |-> {}], changes)]
    /\ Touch(n)
    /\ UNCHANGED <<files, published>>

\* editManifest: the merge is with the manifest the store holds now.
EditManifest(n, changes) ==
    /\ Exists(n)
    /\ manifest' = [manifest EXCEPT ![n] = Merge(@, changes)]
    /\ Touch(n)
    /\ UNCHANGED <<files, published>>

\* Mutant: the revision that was checked is not compared.
MayCommitUnchecked(n, checkedRevision) ==
    /\ Exists(n)
    /\ HasEntry(DOMAIN files[n])

\* commitPublish: whether the store agrees to move the pointer, ...
MayCommit(n, checkedRevision) ==
    /\ Exists(n)
    /\ revision[n] = checkedRevision
    /\ HasEntry(DOMAIN files[n])

\* Mutant: the commit of what the publish had pinned, whatever came since.
CommitPinned(n, checkedRevision, emitted) ==
    /\ Exists(n)
    /\ HasEntry(DOMAIN files[n])
    /\ published' = [published EXCEPT ![n] =
          [manifest |-> manifest[n],
           entry    |-> EmittedPath(EntryFile(DOMAIN files[n])),
           files    |-> emitted,
           revision |-> checkedRevision]]
    /\ UNCHANGED <<revision, manifest, files>>

\* ... and the commit, whose manifest and entry are read from the row anew.
CommitPublish(n, checkedRevision, emitted) ==
    /\ MayCommit(n, checkedRevision)
    /\ published' = [published EXCEPT ![n] =
          [manifest |-> manifest[n],
           entry    |-> EmittedPath(EntryFile(DOMAIN files[n])),
           files    |-> emitted,
           revision |-> revision[n]]]
    /\ UNCHANGED <<revision, manifest, files>>
=============================================================================

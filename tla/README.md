# A verification of OPTI

OPTI is an MCP server that runs an agent's TypeScript on Cloudflare Workers.
Its own code is about 5 700 lines of TypeScript under `src/packages/server/src`
and `src/packages/vault-container/server.mjs`; everything under `src/repos` and
the generated library text is somebody else's. This directory holds TLA+ models
of that code, the TLC instances that check them and the theorems TLAPS proves
about them. Line numbers are those of the commit in `src/`; paths without a
prefix are under `src/packages/server/src/`. `PROJECT.json` maps each
definition to the lines it models.

## 1. The system

One *owner* connects any number of MCP clients. A tool call is handled by a
stateless worker which awaits, in turn, four kinds of place:

| place | code | kept state | operations |
|---|---|---|---|
| owner store (durable object) | `store/OwnerStore.ts` over `PackageState.ts`, `RunRecords.ts`, `StorageData.ts` | SQL tables `packages`, `package_files`, `trail_buffer`, `trail_dropped`, `run_records`, `storage_data` | create, editFile, editManifest, publishSource, commitPublish, listPublished, overview; appendTrail, putRecord, queryRecords; get, set, remove, list |
| owner vault (durable object) | `vault/OwnerVault.ts` over `CredentialStore.ts`, `HostPolicy.ts`, `Counters.ts` | encrypted credentials, approved hosts, daily counters | putCredential, listCredentials, allValues, approveHost, resolveForHost, countExecution, countFetch |
| sandbox isolate | `runner/Runner.ts`, `runner/VirtualModule.ts` | a run's module map; the gateway that is its only way out | start under the run's name, answer once |
| vault container | `gateway/VaultContainer.ts`, `vault-container/server.mjs` | a directory of notes, lost when it stops, and a sync process | boot, initial sync, read, write, list, search |

Around them: the worker's tools (`packages/Packages.ts`, `packages/Publish.ts`,
`runner/Execute.ts`, `discovery/Search.ts`), the gateway (`gateway/*`) through
which each request of a sandbox passes, the login and consent
(`identity/*`, `http/Authorize.ts`), the approval page (`http/Approve.ts`) and
the admin surface (`admin/Admin.ts`).

How they interact, and what is hard about it:

* A durable object runs one event at a time; its synchronous SQL methods are
  atomic. Everything *between* two awaits of a worker is not: the conversations
  of one owner interleave there, over shared tables.
* `packages`: publish reads the working copy, lists what else is published,
  compiles, boots the result in an isolate, and commits, each behind an await.
  A manifest edit is validated in the worker and merged in the store. Correct
  if what is live was checked as a whole, is the build of the working copy that
  was current when it was committed, and never goes back.
* `execute`: counts the run, lists the packages, boots an isolate, waits for
  its report or a timeout that does not stop it, reads the credential values to
  redact, writes the run's record and answers. Each await may reject; the host
  may die at each. Correct if a record precedes the answer, the answer is one
  the record allows, a refused run leaves nothing, and the daily budget holds.
* The gateway: counts, routes, appends a line to the run's trail, answers.
  Requests of one run are concurrent with each other and may outlive the call.
  Correct if the record accounts for every request the run's code had the
  response of, and no request passes that the policy of its moment denied.
* Credentials and host policy: values are derived and encrypted across awaits;
  approvals are read, changed and written back. Correct if no approval is lost
  and a value leaves only for a host it was approved for.
* Login: a pending login is created, answered by an upstream callback and used
  once. The callback's state says which request is completed, its code who has
  signed in, and nothing compares the two. Correct if one identity gets one
  owner whatever the order, and a code is good for one grant.
* The end of a run: the owner's values are read one by one, with a decryption
  between two reads, while saves go on; then the texts are redacted, longest
  value first, and cut twice. Correct if no current value can be read in what
  is scanned, and the answer's log begins the record's.
* The vault container: requests wait for a boot and its initial sync; a
  separate process then syncs the disk with the owner's vault, is restarted
  with a growing delay, and the disk goes when the container stops. The gateway
  judges how a path is spelled, the container the file it leads to. Correct if
  a write stays in an approved folder, an answered write is seen, a fresh disk
  is never taken for deletions, and who waits is answered.
* The lookups: a listing of `storage` is a range scan over keys while other
  sandboxes set and delete them; `search` ranks and cuts what was published
  when it looked. Correct if a cut is told and what was there is found.

`PROJECT.json` lists every component with its status and every hazard with the
line where it bites.

## 2. The modules

```
Manifest ── PublishChecks ─┬─ PackageState ── Packages ─┬─ MCPackages
                           └─ PackageContract ····refines┘└─ PackagesProofs
Counters ──┐
RunRecords ┴─ Gateway ── Execute ─┬─ MCExecute
              RunContract ·refines┘└─ ExecuteProofs
OwnerVault ─┬─ Egress ─┬─ MCEgress               Login ─┬─ MCLogin
            │ ·refines·├─ EgressProofs             ·refines·├─ LoginProofs
            │          EgressContract                    LoginContract
            └─ Redaction ─┬─ MCRedaction
                          └─ RedactionProofs
VaultPaths ── VaultContainer ── VaultCalls ─┬─ MCVault
                                            └─ VaultCallsProofs
StorageData ─┬─ Lookups ─┬─ MCLookups
Discovery ───┘           └─ LookupsProofs
LeastNumbers ── RedactionProofs, LookupsProofs, VaultCallsProofs
```

| module | code | how its state and actions correspond |
|---|---|---|
| `Manifest` | `packages/Manifest.ts` | `CheckFiles`, `CheckManifest`, `EntryFile`, `EmittedPath` are the functions of those names. A path is a stem and an extension, because that is all the rules look at; the character classes of names are abstracted to "a `Name`". |
| `PublishChecks` | `publish/Compile.ts`, `publish/Signatures.ts`, `runner/VirtualModule.ts`, the probe of `packages/Publish.ts` | A file's content is known by the exports it defines, the `(package, export)` pairs it imports and whether it throws on load. `Compiles`, `Conforms`, `Loads` are the three checks and `PassesChecks` their conjunction. `ContentAssumption` (an entry file reaches each file of its package) is the assumption under which loading the entry loads all. |
| `PackageState` | `store/PackageState.ts` | One action per method, guarded by the condition under which it writes. `MayCommit` is the verdict of `commitPublish`. |
| `Packages` | `packages/Packages.ts`, `packages/Publish.ts` | `call[s]` is what a conversation's call holds across its current await; one action per await. `StoreCallLost` is a rejected call, whose method may or may not have run; `ProbeFails` a probe that times out. |
| `PackageContract` | what the tool's descriptions promise | `work` and `live`, and publish as a single step. |
| `Counters` | `vault/Counters.ts` | One natural per kind and day. The read and the write of `count` are one step because a durable object's input gate holds other events back while storage is awaited. |
| `RunRecords` | `store/RunRecords.ts` | The three tables as sets and functions; `PutRecord` is sweep, take and insert in one transaction. |
| `Gateway` | `gateway/Gateway.ts` | `request[q].stage` is the await a request is at. Which answer the route gives is left open. |
| `Execute` | `runner/Execute.ts`, `runner/Runner.ts` | `call[r].step` is the await a call is at, `isolate` the sandboxes that may still send requests. |
| `RunContract` | the header of `runner/Execute.ts` | What is on record and what was told, nothing else. |
| `OwnerVault` | `vault/CredentialStore.ts`, `vault/HostPolicy.ts`, the calls of `admin/Admin.ts` | `save[w]` and `approval[a]` are the operator's calls at their awaits. A run of storage reads is one step; an approval holds the object's input gate from its read to its write; a save encrypts, which holds no gate, and then writes. A credential's value is known by the save it came with, its ciphertext by whether it still decrypts (`spoiled`). |
| `Egress` | `gateway/Gateway.ts` past the count, `Placeholder.ts`, `Hosts.ts`, `resolveForHost` of `vault/OwnerVault.ts` | `request[q].step` is where the route is; the refusals come in the order of the code. A request is known by the credentials its text names, its hostname and whether it is secure. The policy is one step, each value a step of its own. |
| `EgressContract` | what the header of `gateway/Gateway.ts` promises | A request is judged and answered in one step; a save takes effect between its call and its answer; approvals only grow. |
| `Login` | `http/Authorize.ts`, `identity/Owner.ts`, `identity/Upstream.ts` | A visit, a code and a callback each with their awaits; `pending`, `seen` and `mapping` are keys of the key-value store, which compares nothing; where `Lagging`, a read of it may answer with anything the key held before (`Earlier`). A callback comes with the state of any screen that was shown and any code that was issued: they are two parameters, which nothing compares (`Authorize.ts:149-150`). An owner id is named after the callback that minted it. `raced` is a history variable: the identities of which a login went on to mint while another was about to, or without being shown what another had minted. |
| `LoginContract` | what `http/Authorize.ts` and `identity/Owner.ts` promise of a login | A person is let in, given an owner and granted in a step each; a grant is for the client whose request is held under the state it came back with, and the owner of the person who got the code; a code is good for one grant; an identity has one owner unless it is in `raced`. |
| `Redaction` | the end of `runner/Execute.ts`, `gateway/Redact.ts`, `boundedLogs` of `runner/Runner.ts`, `allValues` of `vault/OwnerVault.ts` | `run[r].step` is the await the end of a run is at, `left` the names whose values are still to be read. A text is known by the value that stands in it; how much of it can be read after redaction is `clear`, how long it is then `width`. The log lines and the `body` (a result or a failure's message) are scanned; the `labels` (a failure's tag and action, the hostnames of the trail) go into the answer and the record as they came. Requests give a run its values in one step (`Give`); `Egress` has that step in full. |
| `VaultPaths` | `gateway/VaultPolicy.ts`, `resolveSafe` of `vault-container/server.mjs` | A path is the sequence of its segments, empty ones and dots included. `IsNormal` and `MayWrite` judge that spelling, `Resolve` is the file it leads to, a recursive function over the path. |
| `VaultContainer` | `gateway/VaultContainer.ts`, the boot and the sync process of `vault-container/server.mjs` | `remote`, `disk` and `known` are a note's version in the owner's vault, on the disk, and as both last agreed; `server`, `toPull`, `sync`, `delay` are the boot barrier and the supervised process. The sync program and the service behind it are external: `Upload`, `Download` and `Merge` are what such a program may do. `older` is a history variable: what each version replaced. |
| `VaultCalls` | `gateway/VaultRoute.ts`, the request handler of `vault-container/server.mjs` | A call is checked, is on the wire (`wire`), is handled in one step and relayed. `GiveUp` is a fetch that throws, whose request may still be handled afterwards or is lost. A search looks at the files of the names in `Markdown` only. |
| `StorageData` | `store/StorageData.ts`, the storage routes of `gateway/Internal.ts` | `row` is the table, a key the sequence of its characters' codes, `InRange` the scan between a prefix and its successor. A call is checked, arrives, is one step of the store, and is answered, or its answer is lost. |
| `Discovery` | `discovery/Search.ts`, the names of `registry/Registry.ts` | Both modes of `search` with their awaits. The score an entry gets is a parameter; ranking, cutting, counting what was cut and naming what exists when nothing matched are not. |
| `Lookups` | both | The two side by side, as they run over one owner store, with the properties of each. |
| `LeastNumbers` | none | A lemma that three proofs share: a set of numbers has a least one. |

`Redaction` and `Execute` are two views of one function in the same way as
`Gateway` and `Egress` below: `Execute` has the awaits, the record's verdict and
the host that may die; `Redaction` has the texts.

`Gateway` leaves open which answer the route gives, and `Egress` says which:
they are two views of one handler, joined at the route's await
(`request[q].stage = "route"` in the one, all of `RouteStep` in the other).

A rejected call is modelled in two halves that TLC combines: the effect's own
step, if it took effect, and then `Rejected` (`RouteThrows` for a request,
`Throws`, `SaveLost`, `ApproveLost` and `CallbackFails` in the other modules).
Reads that answer `Unexpected` and change nothing are left out, as are
argument-shape errors.

## 3. What is checked

Each passing run explores its whole state space.

| run | question | result |
|---|---|---|
| `packages_race` | One package, two conversations which create, edit and publish it at once, with files in both languages, a file that throws, one that lacks an export, blank summaries and empty export lists. | What is live passed as a whole; `published` tells the truth; no stored manifest is unpublishable; the pointer never moves back; a package with two index files is frozen; half edits keep the other half; and `Packages` implements `PackageContract`. |
| `packages_imports` | Two packages of which one imports the other, two conversations, with fairness. | Nothing live imports what is not live; what goes live loads beside what is live then, unless a package its checks were shown was republished since (`LoadsUnlessDrifted`); every call is answered. |
| `execute_trail` | Two runs, two requests, a trail of one line, budgets of one, two instants. | `IInv` and budgets: records account for the lines their code knew of, with late requests, timeouts, dead hosts and lost replies. |
| `execute_days` | Three days, so that sweeps and the counters' rollover fall between the steps of a call, with fairness. | The trail survives other runs' sweeps, refused runs leave nothing, `Execute` implements `RunContract`, and every call that arrived is answered or its host died. |
| `egress_policy` | Two credentials, two saves and two approvals of two hosts under way, a hostname in two spellings, and the two hostnames that never leave, one of which may be approved all the same. `MCAsked` lists what is sent: any credentials to a plain host, all of them without TLS or to the server itself. | Approvals under way at once lose neither; values go out all or none, securely, to hosts approved for each; no replaced value after an answered save; what was granted passes; and `Egress` implements `EgressContract`. |
| `login` | Two visits, two clients, two people, three callbacks of which two share a code, a store that lags. | One owner for each identity unless first logins overlapped or missed each other's write; the first-time notice is left out only after a grant; and `Login` implements `LoginContract`: one grant for a code, to an owner of the person who signed in, let in only when allowed, and to the client whose request is held under the state it came back with, whichever of the two states that is. |
| `run_ends` | Two credentials of which one value is a part of the other, a save of each, an approval, a run with up to two texts - lines, body and labels together - with fairness. | No current value can be read, whole or in part, in a line or a body that was answered or recorded (`ScannedTextsShowOldValuesOnly`), labels aside; the answer's log is a beginning of the record's and each says what it lacks; the run is answered though approvals hold the vault and rows spoil. |
| `vault_notes` | Three notes, a write and a call of any kind, paths that spell a file they do not lead to, an edit elsewhere, a stop and an exit of the sync process, with fairness. | Writes stay in their folders; answered writes are seen unless their disk was lost; both sides of a note change only after an edit elsewhere; no note in the owner's vault goes back; cuts are told; who waits is answered; what is kept is uploaded. |
| `lookups` | Three storage calls over keys of which one begins the others, a search by either mode while a package is published. | Listings have exactly the keys with the prefix, or the first of them when they say so, and leave nothing out that was set before; nothing replaced is read; deletes do not claim more than there was; a cut search has the best and counts the rest; a published package is found. |

Three runs have a counterexample (`packages_drift`, `login_twice`,
`write_lost`), each a place where a comment says something the code does not do
(section 5).

`IInv` of each of these modules is the inductive invariant of its proofs. But for
`execute_trail`, which checks it whole, the configurations list the parts of it
that say something of the code; `INVARIANT IInv` added to `MCPackagesRace.cfg`,
`MCEgressPolicy.cfg`, `MCLogin.cfg`, `MCVault.cfg`, `MCLookups.cfg` or `MCRedaction.cfg` checks all.

**Bounds.** `MaxRevision` (2 or 3) stops edits: a publish can be overtaken once
and again, which is what two sessions can do to each other, and TLAPS removes
the bound. Two conversations suffice for a race, since a call's state relates
only to the store and never to a third call. `TrailBound = 1` makes the second
line of a run a dropped one; budgets of 1 make the second count a refused one.
`MaxTime` stops the clock, `RunSpan` bounds a call: `Tick` waits for calls that
would outlast it, which stands for `EXECUTE_TIMEOUT_MS` and the platform's own
limit on a request being far less than the day after which lines are swept
(`RunSpan <= SweepAge`). The other counts follow
the shortest story that can go wrong: two saves of one credential for a stale
value, two approvals for a lost one, two credentials for a request that is half
allowed; two callbacks of one code and one of another for a login that is
replayed, raced or both. `Redeploy` makes the allowlist any set at any time.
Symmetry is over conversations, runs, requests and the like, and only in runs
without liveness. In `run_ends` a report has at most `MaxTexts = 2` texts, lines or not, and the ceilings are 4
and 8, so that a value of each length, and its marker, fits both, one or none.
In `vault_notes` the three notes lie in two folders whose names begin with one
another; the container stops and its sync process exits once each (`MaxStops`,
`MaxExits`), because each time starts from the same state but for the delay,
and that is capped. The first of the two calls writes, since one that only
reads changes nothing for the other. `ListBound = 1` and `SearchBound = 2` make
a second file and a third match too many. In `lookups`, `Asked` and `Named`
choose what is asked of `storage` and `search`: sets, deletes, reads and
listings that meet on the keys `a`, `a_` and `ab`, and a spelling that is no
key. `CHECK_DEADLOCK FALSE` stands in the instances of all but the packages:
runs, requests, calls, edits and callbacks are finite there and are used up.

**Fairness.** Weak fairness per conversation or run on the steps a call takes
by itself, because each is the settling of an awaited promise; never on what a
client, a sandbox, the clock or a dying host does. In `Execute` a sandbox owes
nothing: `Settle` counts on the timeout at that await (`Runner.ts:216-229`).
The body of the sandbox's answer is read outside that timeout, but the
generated entry answers with a complete body. In `Redaction` what the end of a run
awaits settles, and the steps of an approval do, so a gate once taken is let
go; that a call rejects is not counted on, and the operator and the sandbox owe
nothing. In `VaultCalls` a container that is asked for wakes, a boot and its
fetches go on, a process that was scheduled is spawned and takes up what
changed on the disk, and a request on the wire is handled and relayed. Nothing
is owed by edits, stops, exits, downloads of edits, or by a fetch that gives up:
no caller is answered only because it may.

## 4. What is proved

`PackagesProofs`, `ExecuteProofs`, `EgressProofs`, `LoginProofs`,
`VaultCallsProofs`, `LookupsProofs` and `RedactionProofs` prove, for all values
of the constants that satisfy the named assumptions:

* `TypeCorrect`, `Invariance` (`Spec => []IInv`) and, from it, the safety
  invariants the runs check: `LiveAlwaysSound`, `PublishedIsTruthful`,
  `ManifestsAlwaysPublish`, `ImportsAlwaysLive`; `BudgetsHold`,
  `TrailsAreComplete`, `RefusedLeaveNothing`; `ValuesStayHome`, `AnsweredSaves`,
  `ApprovalsStay`, `GrantedPass`; `OneOwner`, `FamiliarMeansGranted`;
  `StaysInFolders`, `AnsweredWritesSeen`, `ConflictsElsewhere`; `ListsExactly`, `ListsWhatWasSet`,
  `ReadsNothingReplaced`, `DeletesRemoved`, `ShowsTheBest`,
  `FindsThePublished`; `ScannedTextsShowOldValuesAlways`, `AnswersAreInTheRecord`;
  `CutsAreTold`;
* the action properties `NeverRegresses`, `TwoIndexesFreeze`, `HalvesStay`,
  `LoadsUnlessOthersMoved` and `NeverGoesBack`;
* `Implementation` of packages, of execute, of egress and of login: the
  detailed specification refines its contract;
* of paths, `NormalPathsResolve` and `SafePathsStayInside`: what the container
  makes of a path, whatever its length.

Each safety property of a passing run is thereby a theorem.

*Packages.* "What is live is sound" is not inductive: a commit writes files
emitted earlier beside a manifest and an entry read now. `IInv` adds that a
pinned source of the present revision *is* the working copy
(`PinIsCurrentOrOld`), that a commit under way carries the build of a vetted
source (`CommitIsVetted`), that an edit under way carries halves that pass
(`MergePasses`), that what is live is the build of its revision
(`LiveIsOfItsRevision`), and that packages seen live stay live
(`SeenLiveStaysLive`). The revision comparison of `commitPublish` then makes the
three readings one, and that is also the refinement's key step: at the commit
the pinned source is the current one, so publish may be placed there.

*Execute.* A record is complete because, while a run may still be recorded, its
lines are younger than its call and so no sweep takes them (`LinesAreKept`,
which needs `RunSpan <= SweepAge`), and because a request is known to the code
only after its line was offered (`RequestsAgree`). Budgets hold because the
counters are never lower than what they let through (`CountersCover`), a count
that is lost or refused only raising them. Refusals leave nothing because
nothing exists of a run that has not booted (`UnbootedRunsAreNew`). The steps of
a call are characterised once (`StepEffect`, `CallFrame`, `GatewayFrame`) and
each part of `IInv` is then preserved by a lemma of its own.

*Egress.* That values go where they are approved needs, at each await between
the policy and the sending, that what the policy found still holds
(`PolicyHeld`): rows are overwritten but never removed and approvals only grow,
so saves and approvals cannot undo it, and a value that is still missing when
all are read belongs to a row that spoiled. An approval keeps what the others
wrote because while it is between its read and its write the gate is its own and
the list is the one it read (`CallsAgree`). No replaced value is used because a
row never holds a save that had been answered before one that is written was
called (`RowsAgree`): a save writes after it was called, so it is in nobody's
past then. The proof is in two halves, one lemma for what the vault's steps
preserve (`VaultPersists`) and one for each step of a request.

The contract has no awaits: a request is judged, and its credentials read, in
the step that answers it. The answer is the moment to place them at, for the
same reasons: what the policy found saved and approved is so still, and a value
read earlier, though perhaps not the one in the row any more, is one that no
save the request had heard of replaced - which is all the contract says of what
is sent. A denial is placed at its own step, except that a value
that did not decrypt is reported later than it was read, and spoiled rows stay
spoiled. A request past its first step is bound neither for the internal routes
nor for the server itself (`AskersGoOut`). The other steps are hidden.

*Login.* The client of a grant is the client of the state it came back with
because what is pending under a state only ever is its visit's request
(`StatesAgree`), and what a callback took from there does not change. It need
not be the client whose screen led to the code: no such thing is promised. One
owner for each identity because, for an identity not in `raced`, at most one
login is about to mint and none once it maps to an owner (`OwnersAgree`). Each action's effect is a lemma; what
no step takes back is `Persists`.

In the contract a person is let in when the handler has looked at the allowlist
(`Resolve`, which is one step with its reading of the mapping), and granted when
the provider has completed the request, whatever fails after that. A code is
then good for one grant because it is traded once, by one callback
(`CodesAreSpentOnce`), and the owner granted is one of the identity's because
every owner in the mapping, or in a callback's hands, was minted by a login of
that identity (`OwnersWereMinted`). The contract lets an identity into `raced`
only while another of its logins is under way, or when reads may lag and it has
an owner already; `Login` must show one of the two each time it gives up on one
owner.

*Vault notes.* Nothing but the initial sync touches the disk before the server
listens, and it listens when all is fetched (`BarrierHolds`), so until an edit
is made elsewhere both sides of a note differ only by a write
(`FetchedUnlessEdited`). A side that changed is then new to the other
(`ChangesAreNews`), which is what keeps an upload or a merge from setting a note
back; `older` is an order (`OlderIsAnOrder`) to which a version is added only
when it is made (`FreshVersions`). An answered write is seen because what it
replaced stays replaced on the disk and, once uploaded, in the vault that a
fresh disk is filled from, unless the disk was lost before that
(`ReplacedStaysReplaced`). That a write is in its folder is carried from the
policy's check to the disk by `WritesAreChecked`, with `NormalPathsResolve`: a
path which passes the policy resolves to itself. `Resolve` is recursive over the
path, and induction over it is not at hand: that its function exists and is
unique, and what it gives for each path, is shown of the shortest beginning for
which it might fail (`LeastNumber`). A cut is told because the files of a vault
are finitely many (part of `ContainerAssumption`): a subset of them that is no
larger than the bound and is no proper part of what was to be listed is all of
it (`CutsAreTold`).

*Lookups.* That the scanned range is the prefix is a lemma about the
lexicographic order: a key lies between a prefix and the prefix followed by a
character above all that keys have exactly if it begins with it
(`InRange`). The order is total, by the least place where two keys differ, so
the first `n` of a finite set are `n` or all, and nothing left out comes before
one of them; the same is shown of the ranking of `search`. Least elements come
from the well-foundedness of strict inclusion among finite sets, as induction
over an operator is not at hand. The rest follows what each call has heard of
(`ValuesAreFresh`, `StoredStays`): a value is set by one call, and what is
stored stays until another call replaces or removes it.

*Redaction.* A value in the log or the body was given to a sandbox, so it was written before
the report, and the scan reads the rows after the report. A row that is
overwritten meanwhile does not get an old value back (`ValuesLanded`), so a
value of theirs that is current at the end was current when the scan listed
the names and when it read its row, and is known (`ScanMissesNothing`,
`LeftHaveRows`). A known value is left with nothing of it because what is
replaced before it would have to be longer (`KnownIsRedacted`).

Of the two ceilings (`AnswersAreInTheRecord`), what a log takes up is counted as
the size of a finite set, and a log is kept as far as it fits: of two logs that
agree line by line the one with more room keeps at least as much, and what it
does not keep is what it counts as dropped.

Only model-checked: liveness under fairness, which is out of TLAPS's reach -
`CallsAreAnswered` of packages, of execute and of the vault calls,
`KeptWritesAreUploaded`, `RunsAreAnswered`.

## 5. Where code and comments disagree

* **A publish checks against dependencies that may have changed**
  (`packages_drift`, `Publish.ts:85` and `:112-114`). The commit compares the
  revision of the package itself only. A dependency republished between the
  listing and the commit can go unseen, and the package goes live with an
  import its dependency no longer exports; the next run that imports it fails,
  not the publish.
* **A pending login can be completed twice** (`login_twice`,
  `http/Authorize.ts:158` against `:164`): the callback reads the pending
  request and deletes it behind an await, so two callbacks of one state, each
  with a code of its own, are both granted, even if reads never lag.
* **An answered note may be lost** (`write_lost`, `vault-container/server.mjs:221`
  against `:10-12`): a write is answered when it is on the container's disk, and
  uploaded later by another process. If the container stops in between, the
  write is gone, where the header calls the disk's loss "a non-event".
  `AnsweredWritesAreSeen` says what does hold.

More were noticed and have no run:

* A rejection, as opposed to a refusal, of the record write or of reading the
  values (`runner/Execute.ts:116`, `:126`) is a defect, so a successful run is
  answered as an unexpected failure, where the header (`:14-18`) says the run's
  real result returns with a marker. `Execute` has the case as `Throws`.
* A request whose route throws leaves no line (`gateway/Gateway.ts:122`), where
  `:112` says "Every request leaves one trail line". `Gateway` has `RouteThrows`.
* The sweep takes the lines of dead runs and leaves their count of dropped ones
  (`store/RunRecords.ts:159`), where `:156-157` says what belongs to nobody
  "would otherwise accumulate forever".
* A value that was replaced while a run was under way is not redacted from it
  any more: the values are read when the run has ended (`Execute.ts:116`).
  `ScannedTextsShowOldValuesOnly` makes an exception of it.
* A failure's tag and action (`Execute.ts:142`, `:145`), which a sandbox may
  choose, are answered and recorded as they came, and the hostnames of the trail
  (`gateway/Gateway.ts:124-126`) are recorded as they came, where
  `Execute.ts:111-115` says that "every surface that leaves" is scanned,
  "whatever route it took", and that the record "gets the same treatment". Current
  values can be read there. `Redaction` has them as `labels`, and
  `ScannedTextsShowOldValuesOnly` is about the rest.
* The callback's `state` and `code` are not compared (`http/Authorize.ts:149-150`),
  so a code got by way of one request completes another that is pending, for the
  client of that one. `Login` allows every pairing, and `LoginContract` promises
  no more than the code keeps.
* A search of the vault looks only at the files the walk got to
  (`server.mjs:151`), and says nothing of those beyond; listing a folder that is
  not there, or a note that is too large, is told as `VaultUnavailable`, to be
  tried again (`gateway/VaultRoute.ts:46`). `ListingsTellWhatTheyCut` makes an
  exception of the first.
* The delay of the sync process never goes down again (`server.mjs:110`), however
  long the process has run.
* The ceilings of values, logs and results and the answer of a write count
  UTF-16 units and call them bytes (`store/StorageData.ts:46`,
  `runner/Runner.ts:175`, `server.mjs:221`).

A failed run's answer carries its run id
even when the record could not be written (`Execute.ts:151`), where
`kernel/Failure.ts:51` says the id is "The run this failure has a record for".
`gateway/Denial.ts:45` calls `HostNotApproved` "The one denial a human can
lift", but a request to a hostname that `HOST_PATTERN` (`http/Approve.ts:18`)
does not match - one with an underscore, a trailing dot or a bracketed address -
gets that denial (`Gateway.ts:235`) with a link whose page gives no command.
`Egress` has the two patterns as `Host` and `Plain`.

## 6. What is left out, and the plan

Abstracted on purpose: the cipher, the text around placeholders, which redirect a
client registered and the OAuth provider behind `completeAuthorization`; the
order and wording of trail lines, the kinds of run failure and the result
ceiling (the record's outcome is what the properties need); how the words of a
query are scored; the sync program and the service it talks to, known by what
they may do to a note; the snippets of vault searches and `/health`; values that
overlap without one being a part of the other, and texts with more than one
value in them; the TypeScript compiler itself; file contents and names.

Not modelled because there is nothing to check: pages and transport, the
generated library text, constant text of the registry.

Plan, most important first:

1. *(done)* package lifecycle and run lifecycle, with contracts and proofs.
2. *(done)* the owner vault and the gateway's egress policy, with proofs.
3. *(done)* identity and login, with proofs, and `LoginContract`, which `Login`
   refines.
4. *(done)* the vault container with its paths and calls, with proofs.
5. *(done)* the storage listing, `search`, and the end of a run (redaction and
   the log ceilings), with proofs.
6. `Egress` inside `Gateway`: the stored response a run's code sees names a
   denial only if the policy of its moment gave it.
7. *(done)* the last safety properties as theorems, and `EgressContract`, which
   `Egress` refines.
8. The result ceiling beside redaction: it is tested in the sandbox, on the text
   before redaction.

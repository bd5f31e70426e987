------------------------------ MODULE VaultCalls -----------------------------
(***************************************************************************)
(* The `vault` capability end to end: the gateway's route                  *)
(* (gateway/VaultRoute.ts) with its write policy, and the file API of the  *)
(* container (vault-container/server.mjs), over VaultContainer.  A call is *)
(* checked, sent to the container, which is started for it if it is down,  *)
(* handled there in one step, and its answer relayed.  Answers are named   *)
(* for what the sandbox is told; every answer of the container that is     *)
(* neither a success nor a missing note is told as "unavailable".          *)
(***************************************************************************)
EXTENDS VaultContainer, FiniteSetsExt

CONSTANTS
    Path,           \* the paths that calls name
    NoPath,         \* list without a folder, and search
    Markdown,       \* the names that end in .md
    Matching,       \* the versions that the query is found in
    Kind,           \* the verbs a call may be of: bounds an instance
    ListBound, SearchBound

ASSUME CallsAssumption ==
    /\ Path \subseteq Seq(Segment)
    /\ NoPath \notin Path
    /\ Markdown \subseteq Name
    /\ Matching \subseteq Version
    /\ ListBound \in Nat /\ SearchBound \in Nat
    /\ Kind \in [Call -> SUBSET {"read", "write", "list", "search"}]
    /\ \A p \in Path : IsSafe(p) => \E f \in File : f = FileOf(p) \/ Below(f, FileOf(p))

VARIABLE call

vars == <<container, call>>

Verb == {"read", "write", "list", "search"}

Tag == {"none", "note", "missing", "written", "listing", "invalid", "refused", "unavailable"}

\* `found` and `marked`: what a listing or search gives, and whether it says
\* that there is more; history: `whole`, what it should have given, and
\* `beyond`, whether there were more files than are walked.
Reply ==
    [tag : Tag, version : Version \cup {Absent}, found : SUBSET File, marked : BOOLEAN,
     whole : SUBSET File, beyond : BOOLEAN]

\* `wire` is where the request to the container is, whoever still waits for
\* it; `heard` the writes that were answered when the call was made.
CallState ==
    [step  : {"unsent", "called", "answered"},
     verb  : Verb,
     path  : Path \cup {NoPath},
     wire  : {"none", "request", "reply"},
     reply : Reply,
     heard : SUBSET Call]

Plainly(tag) ==
    [tag |-> tag, version |-> Absent, found |-> {}, marked |-> FALSE, whole |-> {}, beyond |-> FALSE]

Init ==
    /\ ContainerInit
    /\ call = [k \in Call |->
          [step |-> "unsent", verb |-> "read", path |-> NoPath, wire |-> "none",
           reply |-> Plainly("none"), heard |-> {}]]

TypeOK == ContainerTypeOK /\ call \in [Call -> CallState]

Become(k, c) == call' = [call EXCEPT ![k] = c]

Written == {k \in Call : call[k].step = "answered" /\ call[k].reply.tag = "written"}

----------------------------------------------------------------------------
\* handleVault: the path, then the policy, then the container.
Verdict(verb, path) ==
    CASE path = NoPath                          -> "none"
      [] path # NoPath /\ ~ IsNormal(path)      -> "invalid"
      [] path # NoPath /\ IsNormal(path)        ->
            IF verb = "write" /\ ~ MayWrite(path) THEN "refused" ELSE "none"

\* Only a list need not name a path, and a search never does.
Send(k, verb, path) ==
    /\ call[k].step = "unsent"
    /\ verb \in Kind[k]
    /\ verb \in {"read", "write"} => path # NoPath
    /\ verb = "search" => path = NoPath
    /\ LET verdict == Verdict(verb, path)
       IN Become(k, [step  |-> IF verdict = "none" THEN "called" ELSE "answered",
                     verb  |-> verb,
                     path  |-> path,
                     wire  |-> IF verdict = "none" THEN "request" ELSE "none",
                     reply |-> Plainly(verdict),
                     heard |-> Written])
    /\ UNCHANGED container

\* Mutant: it is started for the first request only.
WakeOnce ==
    /\ \E k \in Call : call[k].wire = "request"
    /\ stops = 0
    /\ Boot
    /\ UNCHANGED call

\* containerFetch starts the container for a request.
Wake ==
    /\ \E k \in Call : call[k].wire = "request"
    /\ Boot
    /\ UNCHANGED call

Arrives(k, verb) == call[k].wire = "request" /\ call[k].verb = verb /\ server = "open"

\* The container does not know whether anybody still waits.
Answer(k, reply) ==
    Become(k, IF call[k].step = "called"
              THEN [call[k] EXCEPT !.wire = "reply", !.reply = reply]
              ELSE [call[k] EXCEPT !.wire = "none"])

HandleRead(k) ==
    /\ Arrives(k, "read")
    /\ LET f == FileOf(call[k].path)
       IN Answer(k, IF ~ IsSafe(call[k].path) THEN Plainly("unavailable")
                    ELSE IF f \notin File THEN Plainly("missing")
                    ELSE IF disk[f] = Absent THEN Plainly("missing")
                    ELSE [Plainly("note") EXCEPT !.version = disk[f]])
    /\ UNCHANGED container

\* A folder cannot be written to, and a note cannot become a folder.
Writable(f) ==
    /\ f \in File
    /\ \A g \in File : disk[g] # Absent => ~ Below(f, g) /\ ~ Below(g, f)

\* Mutant: the answer does not wait for the file to be written.
HandleWriteUnawaited(k) ==
    /\ Arrives(k, "write")
    /\ IsSafe(call[k].path) /\ Writable(FileOf(call[k].path))
    /\ older' = [older EXCEPT ![k] = Chain(disk[FileOf(call[k].path)])]
    /\ Answer(k, Plainly("written"))
    /\ UNCHANGED <<remote, disk, known, made, edited, lost, process>>

\* writeFileSync is through before the answer.
HandleWrite(k) ==
    /\ Arrives(k, "write")
    /\ IsSafe(call[k].path) /\ Writable(FileOf(call[k].path))
    /\ LET f == FileOf(call[k].path)
       IN /\ disk' = [disk EXCEPT ![f] = k]
          /\ older' = [older EXCEPT ![k] = Chain(disk[f])]
    /\ Answer(k, Plainly("written"))
    /\ UNCHANGED <<remote, known, made, edited, lost, process>>

\* The handler throws: the path, the file system, a body too large.
HandleFails(k) ==
    /\ \E verb \in Verb : Arrives(k, verb)
    /\ Answer(k, Plainly("unavailable"))
    /\ UNCHANGED container

\* What a walk of the folder comes by.
Shown(root) ==
    {f \in File : /\ disk[f] # Absent
                  /\ Below(f, root)
                  /\ \A i \in Len(root) + 1 .. Len(f) : f[i] \notin Hidden}

\* In the order of the directories, which is not that of the names, and not
\* much beyond the bound.
Walks(S) == kSubset(IF Cardinality(S) <= ListBound THEN Cardinality(S) ELSE ListBound + 1, S)

\* Mutant: the marker is tied to a full list having been cut by two.
ListAnswersUnmarked(walked, whole) ==
    {[Plainly("listing") EXCEPT !.found = F, !.marked = Cardinality(walked) > ListBound + 1,
                                !.whole = whole] :
        F \in kSubset(IF Cardinality(walked) > ListBound THEN ListBound ELSE Cardinality(walked),
                      walked)}

\* listPaths.
ListAnswers(walked, whole) ==
    {[Plainly("listing") EXCEPT !.found = F, !.marked = Cardinality(walked) > ListBound,
                                !.whole = whole] :
        F \in kSubset(IF Cardinality(walked) > ListBound THEN ListBound ELSE Cardinality(walked),
                      walked)}

Root(k) == IF call[k].path = NoPath THEN <<>> ELSE FileOf(call[k].path)

\* A folder that is not there cannot be read.
HandleList(k) ==
    /\ Arrives(k, "list")
    /\ IF /\ call[k].path # NoPath
          /\ \/ ~ IsSafe(call[k].path)
             \/ ~ \E f \in File : disk[f] # Absent /\ Below(f, Root(k))
       THEN Answer(k, Plainly("unavailable"))
       ELSE \E walked \in Walks(Shown(Root(k))) :
               \E reply \in ListAnswers(walked, Shown(Root(k))) : Answer(k, reply)
    /\ UNCHANGED container

\* Only notes are searched.
Found(files) == {f \in files : f[Len(f)] \in Markdown /\ disk[f] \in Matching}

\* searchVault: as many hits as the bound, of the files that are walked.
SearchAnswers(walked, shown) ==
    LET hits == Found(walked)
        full == Cardinality(hits) >= SearchBound
    IN {[Plainly("listing") EXCEPT !.found = F, !.marked = full, !.whole = Found(shown),
                                   !.beyond = Cardinality(shown) > ListBound + 1] :
           F \in kSubset(IF full THEN SearchBound ELSE Cardinality(hits), hits)}

HandleSearch(k) ==
    /\ Arrives(k, "search")
    /\ \E walked \in Walks(Shown(<<>>)) :
          \E reply \in SearchAnswers(walked, Shown(<<>>)) : Answer(k, reply)
    /\ UNCHANGED container

\* relay.
Relay(k) ==
    /\ call[k].step = "called" /\ call[k].wire = "reply"
    /\ Become(k, [call[k] EXCEPT !.step = "answered", !.wire = "none"])
    /\ UNCHANGED container

\* The container's fetch throws: it did not wake in time, or the connection
\* broke (while the answer's text is read, the sandbox's fetch rejects instead,
\* which tells it no more).  The request may have been handled; if not it may
\* yet be, or is lost with the container that it was sent to.
GiveUp(k) ==
    /\ call[k].step = "called"
    /\ \E wire \in {"none"} \cup ({call[k].wire} \ {"reply"}) :
          Become(k, [call[k] EXCEPT !.step = "answered", !.wire = wire,
                                    !.reply = Plainly("unavailable")])
    /\ UNCHANGED container

Handle(k) == HandleRead(k) \/ HandleWrite(k) \/ HandleList(k) \/ HandleSearch(k)

CallStep(k) ==
    \/ \E verb \in Verb, path \in Path \cup {NoPath} : Send(k, verb, path)
    \/ Handle(k) \/ HandleFails(k) \/ Relay(k) \/ GiveUp(k)

Next ==
    \/ ContainerStep /\ UNCHANGED call
    \/ Wake
    \/ \E k \in Call : CallStep(k)

Spec == Init /\ [][Next]_vars

\* What goes on by itself, once it has begun.  A running sync process takes
\* up what changed on the disk; nothing is owed by a fetch that gives up.
Fairness ==
    /\ WF_vars(Wake)
    /\ WF_vars((Open \/ \E f \in File : Pull(f)) /\ UNCHANGED call)
    /\ WF_vars(Spawn /\ UNCHANGED call)
    /\ WF_vars((\E f \in File : Upload(f) \/ Merge(f)) /\ UNCHANGED call)
    /\ \A k \in Call : WF_vars(Handle(k) \/ HandleFails(k) \/ Relay(k))

FairSpec == Spec /\ Fairness

----------------------------------------------------------------------------
\* The parts of the inductive invariant.

\* The boot barrier: nothing but the initial sync touches the disk before the
\* server listens, and it listens when all has been fetched.
BarrierHolds ==
    /\ server = "down" => disk = NoNotes /\ known = NoNotes /\ toPull = {} /\ edited = {}
    /\ sync # "none" => server = "open"
    /\ server = "syncing" => disk = known
    /\ server = "open" => toPull = {}

\* What was fetched is what the service has, unless edited there since.
FetchedUnlessEdited ==
    \A f \in File : server # "down" /\ f \notin toPull \cup edited => remote[f] = known[f]

Unhandled(k) == call[k].step = "unsent" \/ call[k].wire = "request"

\* A version that is not made yet is nowhere.
FreshVersions ==
    /\ \A v \in Version :
          v \in Edit \ made \/ (v \in Call /\ Unhandled(v)) =>
              /\ older[v] = {}
              /\ \A f \in File : v \notin {disk[f], known[f], remote[f]}
              /\ \A u \in Version : v \notin older[u]

\* A request in flight has passed the checks, and its write is at its path.
WritesAreChecked ==
    \A k \in Call :
        /\ call[k].wire = "request" =>
              /\ call[k].step # "unsent"
              /\ call[k].verb # "search" /\ call[k].path # NoPath => IsNormal(call[k].path)
              /\ call[k].verb \in {"read", "write"} => call[k].path # NoPath
              /\ call[k].verb = "write" => MayWrite(call[k].path)
        /\ older[k] # {} => call[k].path \in File
        /\ \A f \in File : k \in {disk[f], known[f], remote[f]} =>
              call[k].verb = "write" /\ call[k].path = f /\ MayWrite(f)

\* A side that changed is new to the other.
ChangesAreNews ==
    \A f \in File :
        /\ disk[f] # known[f] => disk[f] \notin Chain(remote[f])
        /\ remote[f] # known[f] => remote[f] \notin Chain(disk[f])

OlderIsAnOrder == \A u, v \in Version : u \in older[v] => v \notin older[u]

\* What a write replaced does not come back, unless the write was lost.
ReplacedStaysReplaced ==
    \A k \in Call, f \in File :
        call[k].path = f /\ k \notin lost =>
            /\ server # "down" /\ f \notin toPull => disk[f] \notin older[k]
            /\ server # "open" \/ remote[f] # known[f] \/ k \notin Chain(disk[f]) =>
                  remote[f] \notin older[k]

HeardWereWritten ==
    \A k \in Call :
        /\ call[k].heard \subseteq Written
        /\ k \in Written => call[k].wire = "none"

----------------------------------------------------------------------------
\* What a call wrote, wherever it is now, is in an approved folder: the file
\* that the container resolved is one the policy allows.
WritesStayInFolders ==
    \A k \in Call, f \in File :
        k \in {disk[f], known[f], remote[f]} =>
            call[k].verb = "write" /\ \E folder \in WritePrefix : Below(f, folder)

\* A read never shows what a write that was answered before it had replaced,
\* unless the disk with that write was lost.
AnsweredWritesAreSeen ==
    \A r \in Call : \A k \in call[r].heard :
        /\ call[r].reply.tag \in {"note", "missing"}
        /\ call[r].path = call[k].path
        /\ k \notin lost
        => call[r].reply.version \notin older[k]

\* The two sides of a note have both changed only if it was edited elsewhere
\* after this container had fetched it: a write never goes to a note the
\* container has yet to fetch.
ConflictsComeFromElsewhere ==
    \A f \in File : disk[f] # known[f] /\ remote[f] # known[f] => f \in edited

\* The owner's vault never goes back to what a note was before, nor does a
\* note go: a fresh disk is not taken for a vault without notes.
VaultNeverGoesBack ==
    [][\A f \in File : remote'[f] # remote[f] => remote'[f] \notin Chain(remote[f])]_vars

\* A listing has all that is there, or says that there is more; so has a
\* search, of a vault with no more files than are walked.
ListingsTellWhatTheyCut ==
    \A k \in Call :
        LET reply == call[k].reply
        IN  reply.tag = "listing" =>
                /\ reply.found \subseteq reply.whole
                /\ \/ reply.found = reply.whole
                   \/ reply.marked
                   \/ call[k].verb = "search" /\ reply.beyond

IInv ==
    /\ TypeOK
    /\ BarrierHolds
    /\ FetchedUnlessEdited
    /\ FreshVersions
    /\ WritesAreChecked
    /\ ChangesAreNews
    /\ OlderIsAnOrder
    /\ ReplacedStaysReplaced
    /\ HeardWereWritten
    /\ AnsweredWritesAreSeen
    /\ ListingsTellWhatTheyCut

\* Whoever waits for the container is answered, although it may stop while
\* it boots and while it serves.
CallsAreAnswered == \A k \in Call : (call[k].step = "called") ~> (call[k].step = "answered")

\* What is written, and kept, gets to the owner's vault, although the sync
\* process exits now and then.
KeptWritesAreUploaded ==
    \A k \in Call :
        (\E f \in File : disk[f] = k) ~> (\A f \in File : disk[f] = k => known[f] = k)

\* That the disk is lost loses no write that was answered
\* (vault-container/server.mjs:10-12: the sync state "is rebuilt from the
\* service on a fresh disk, which is what makes container disk ephemerality a
\* non-event").
DiskLossLosesNothing == lost \cap Written = {}
=============================================================================

---------------------------- MODULE VaultContainer ---------------------------
(***************************************************************************)
(* The vault container (gateway/VaultContainer.ts,                         *)
(* vault-container/server.mjs) between the owner's notes as the sync       *)
(* service has them and the requests of the gateway.  Its disk is fresh    *)
(* whenever it starts.  The sync program and the service are external:     *)
(* they are known by what they may do to a note, given the version of it   *)
(* they last agreed on.  A note's content is known by the call or the edit *)
(* it came with; notes are not deleted.                                    *)
(***************************************************************************)
EXTENDS VaultPaths

CONSTANTS
    File,           \* the notes there may be, as plain paths
    Call,           \* the calls of the `vault` capability
    Edit,           \* the edits made in the owner's other apps
    Old,            \* the content of a note that is there from the beginning
    FirstNotes,     \* which those are
    Absent,         \* no such note
    FirstDelay, MaxDelay,   \* of the restarts of the sync process
    MaxStops, MaxExits      \* bounds: of the container, of the sync process

Version == Call \cup Edit \cup {Old}

ASSUME ContainerAssumption ==
    /\ File \subseteq {f \in Seq(Name) : f # <<>>} /\ IsFiniteSet(File)
    /\ FirstNotes \subseteq File
    /\ Call \cap Edit = {} /\ Old \notin Call \cup Edit /\ Absent \notin Version
    /\ FirstDelay \in Nat /\ MaxDelay \in Nat /\ FirstDelay <= MaxDelay
    /\ MaxStops \in Nat /\ MaxExits \in Nat

VARIABLES
    remote,     \* the notes in the sync service
    disk,       \* VAULT_DIR
    known,      \* the sync program's own record: what both sides last had
    server,     \* "down", "syncing" (the boot barrier) or "open"
    toPull,     \* what the initial sync has still to fetch
    sync,       \* syncProcess: "none", "waiting" (setTimeout) or "running"
    delay,      \* the delay of its last start
    \* History: edits made; for each version those it replaced, where it was
    \* made; notes edited elsewhere since this container fetched them; and
    \* writes that were on a disk when it was lost, and nowhere else.
    made, older, edited, lost,
    stops, exits

notes == <<remote, disk, known, made, older, edited, lost>>
process == <<server, toPull, sync, delay, stops, exits>>
container == <<notes, process>>

NoNotes == [f \in File |-> Absent]

ContainerTypeOK ==
    /\ remote \in [File -> Version \cup {Absent}]
    /\ disk \in [File -> Version \cup {Absent}]
    /\ known \in [File -> Version \cup {Absent}]
    /\ server \in {"down", "syncing", "open"}
    /\ toPull \subseteq File
    /\ sync \in {"none", "waiting", "running"}
    /\ delay \in 0 .. MaxDelay
    /\ made \subseteq Edit
    /\ older \in [Version -> SUBSET (Version \cup {Absent})]
    /\ edited \subseteq File
    /\ lost \subseteq Call
    /\ stops \in 0 .. MaxStops
    /\ exits \in 0 .. MaxExits

ContainerInit ==
    /\ remote = [f \in File |-> IF f \in FirstNotes THEN Old ELSE Absent]
    /\ disk = NoNotes
    /\ known = NoNotes
    /\ server = "down"
    /\ toPull = {}
    /\ sync = "none"
    /\ delay = 0
    /\ made = {}
    /\ older = [v \in Version |-> IF v = Old THEN {Absent} ELSE {}]
    /\ edited = {}
    /\ lost = {}
    /\ stops = 0
    /\ exits = 0

\* A version and all that it came after.
Chain(v) == IF v = Absent THEN {Absent} ELSE {v} \cup older[v]

----------------------------------------------------------------------------
\* The boot, once the secrets are installed: the one-shot sync begins.
Boot ==
    /\ server = "down"
    /\ server' = "syncing"
    /\ toPull' = {f \in File : remote[f] # known[f]}
    /\ UNCHANGED <<notes, sync, delay, stops, exits>>

\* It fetches one note.
Pull(f) ==
    /\ server = "syncing"
    /\ f \in toPull
    /\ disk' = [disk EXCEPT ![f] = remote[f]]
    /\ known' = [known EXCEPT ![f] = remote[f]]
    /\ toPull' = toPull \ {f}
    /\ UNCHANGED <<remote, made, older, edited, lost, server, sync, delay, stops, exits>>

\* Mutant: the server listens while the initial sync is still going on.
OpenEarly ==
    /\ server = "syncing"
    /\ server' = "open"
    /\ sync' = "waiting"
    /\ delay' = 0
    /\ UNCHANGED <<notes, toPull, stops, exits>>

\* The initial sync is through: the continuous one is scheduled at once, and
\* the server listens.
Open ==
    /\ server = "syncing"
    /\ toPull = {}
    /\ server' = "open"
    /\ sync' = "waiting"
    /\ delay' = 0
    /\ UNCHANGED <<notes, toPull, stops, exits>>

\* Mutant: the program's record is kept where it outlives the disk.
StopKeepsRecord ==
    /\ server # "down" /\ stops < MaxStops
    /\ server' = "down"
    /\ disk' = NoNotes
    /\ toPull' = {}
    /\ edited' = {}
    /\ sync' = "none"
    /\ delay' = 0
    /\ lost' = lost \cup UNION {(Chain(disk[f]) \ Chain(remote[f])) \cap Call : f \in File}
    /\ stops' = stops + 1
    /\ UNCHANGED <<remote, known, made, older, exits>>

\* The container sleeps, is moved or dies, or its boot fails (an error in
\* installSecrets or in the initial sync ends the process): the disk is gone.
Stop ==
    /\ server # "down" /\ stops < MaxStops
    /\ server' = "down"
    /\ disk' = NoNotes
    /\ known' = NoNotes
    /\ toPull' = {}
    /\ edited' = {}
    /\ sync' = "none"
    /\ delay' = 0
    /\ lost' = lost \cup UNION {(Chain(disk[f]) \ Chain(remote[f])) \cap Call : f \in File}
    /\ stops' = stops + 1
    /\ UNCHANGED <<remote, made, older, exits>>

\* The timer of startContinuousSync fires.
Spawn ==
    /\ sync = "waiting"
    /\ sync' = "running"
    /\ UNCHANGED <<notes, server, toPull, delay, stops, exits>>

NextDelay(d) ==
    LET doubled == IF 2 * d < FirstDelay THEN FirstDelay ELSE 2 * d
    IN  IF doubled < MaxDelay THEN doubled ELSE MaxDelay

\* Mutant: the process is not started again.
SyncEnds ==
    /\ sync = "running" /\ exits < MaxExits
    /\ sync' = "none"
    /\ delay' = NextDelay(delay)
    /\ exits' = exits + 1
    /\ UNCHANGED <<notes, server, toPull, stops>>

\* Its exit handler starts it again, after a longer delay.
SyncExits ==
    /\ sync = "running" /\ exits < MaxExits
    /\ sync' = "waiting"
    /\ delay' = NextDelay(delay)
    /\ exits' = exits + 1
    /\ UNCHANGED <<notes, server, toPull, stops>>

----------------------------------------------------------------------------
\* What the continuous sync does to a note: take up the side that changed.
Upload(f) ==
    /\ sync = "running"
    /\ disk[f] # known[f] /\ remote[f] = known[f]
    /\ remote' = [remote EXCEPT ![f] = disk[f]]
    /\ known' = [known EXCEPT ![f] = disk[f]]
    /\ UNCHANGED <<disk, made, older, edited, lost, process>>

Download(f) ==
    /\ sync = "running"
    /\ disk[f] = known[f] /\ remote[f] # known[f]
    /\ disk' = [disk EXCEPT ![f] = remote[f]]
    /\ known' = [known EXCEPT ![f] = remote[f]]
    /\ UNCHANGED <<remote, made, older, edited, lost, process>>

\* Both changed: which of the two stays is the program's choice.
Merge(f) ==
    /\ sync = "running"
    /\ disk[f] # known[f] /\ remote[f] # known[f]
    /\ \E v \in {disk[f], remote[f]} :
          /\ disk' = [disk EXCEPT ![f] = v]
          /\ remote' = [remote EXCEPT ![f] = v]
          /\ known' = [known EXCEPT ![f] = v]
    /\ UNCHANGED <<made, older, edited, lost, process>>

\* The owner edits a note in another app.
EditElsewhere(f, e) ==
    /\ e \notin made
    /\ made' = made \cup {e}
    /\ remote' = [remote EXCEPT ![f] = e]
    /\ older' = [older EXCEPT ![e] = Chain(remote[f])]
    /\ edited' = IF server = "down" \/ f \in toPull THEN edited ELSE edited \cup {f}
    /\ UNCHANGED <<disk, known, lost, process>>

ContainerStep ==
    \/ Open \/ Stop \/ Spawn \/ SyncExits
    \/ \E f \in File :
          \/ Pull(f) \/ Upload(f) \/ Download(f) \/ Merge(f)
          \/ \E e \in Edit : EditElsewhere(f, e)
=============================================================================

----------------------------- MODULE OwnerVault ------------------------------
(***************************************************************************)
(* The owner vault's credentials and approvals (vault/CredentialStore.ts,  *)
(* vault/HostPolicy.ts behind vault/OwnerVault.ts) and the operator's      *)
(* calls that write them (admin/Admin.ts).  The object's input gate holds  *)
(* other events back while a handler awaits storage; it does not while a   *)
(* handler encrypts or decrypts.  So a run of storage reads is one step,   *)
(* an approval holds the gate from its read to its write, and a save       *)
(* encrypts in the open and then writes.                                   *)
(***************************************************************************)
CONSTANTS
    Credential,     \* the names a placeholder can spell
    Host,           \* hostnames, in any spelling
    Lower,          \* toLowerCase
    Plain,          \* the hostnames HOST_PATTERN lets through
    Save,           \* the calls of putCredential, each with a value of its own
    Approval,       \* the calls of approveHost
    NoSave, NoCredential, NoHost,
    Open            \* nobody holds the gate

ASSUME VaultAssumption ==
    /\ Lower \in [Host -> Host]
    /\ \A h \in Host : Lower[Lower[h]] = Lower[h]
    /\ Plain \subseteq Host
    /\ NoSave \notin Save
    /\ NoCredential \notin Credential
    /\ NoHost \notin Host
    /\ Open \notin Approval

VARIABLES
    row,        \* the credential:<name> keys: the save whose value they hold
    spoiled,    \* the saves whose ciphertext does not decrypt any more
    hosts,      \* the hosts:<name> keys
    gate,       \* the approval that awaits storage
    save, approval      \* the operator's calls

vault == <<row, spoiled, hosts, gate, save, approval>>

\* `after`: the saves of its name that were answered when it was called.
SaveState ==
    [step  : {"uncalled", "encrypting", "written", "saved", "lost"},
     name  : Credential \cup {NoCredential},
     after : SUBSET Save]

ApprovalState ==
    [step : {"uncalled", "called", "read", "written", "approved", "lost"},
     name : Credential \cup {NoCredential},
     host : Host \cup {NoHost},
     existing : SUBSET Host]

VaultInit ==
    /\ row = [c \in Credential |-> NoSave]
    /\ spoiled = {}
    /\ hosts = [c \in Credential |-> {}]
    /\ gate = Open
    /\ save = [w \in Save |-> [step |-> "uncalled", name |-> NoCredential, after |-> {}]]
    /\ approval = [a \in Approval |->
          [step |-> "uncalled", name |-> NoCredential, host |-> NoHost, existing |-> {}]]

Saved == {w \in Save : save[w].step = "saved"}

SavedOf(names) == {w \in Saved : save[w].name \in names}

SaveBecomes(w, s) == save' = [save EXCEPT ![w] = s]

ApprovalBecomes(a, s) == approval' = [approval EXCEPT ![a] = s]

----------------------------------------------------------------------------
\* save-credential, up to the vault's encryption.
SaveCalled(w, c) ==
    /\ save[w].step = "uncalled"
    /\ SaveBecomes(w, [step |-> "encrypting", name |-> c, after |-> SavedOf({c})])
    /\ UNCHANGED <<row, spoiled, hosts, gate, approval>>

\* put overwrites silently.
SaveWritten(w) ==
    /\ save[w].step = "encrypting"
    /\ gate = Open
    /\ row' = [row EXCEPT ![save[w].name] = w]
    /\ SaveBecomes(w, [save[w] EXCEPT !.step = "written"])
    /\ UNCHANGED <<spoiled, hosts, gate, approval>>

\* Mutant: the answer does not wait for the write.
SaveAnsweredAtOnce(w) ==
    /\ save[w].step \in {"encrypting", "written"}
    /\ SaveBecomes(w, [save[w] EXCEPT !.step = "saved"])
    /\ UNCHANGED <<row, spoiled, hosts, gate, approval>>

SaveAnswered(w) ==
    /\ save[w].step = "written"
    /\ SaveBecomes(w, [save[w] EXCEPT !.step = "saved"])
    /\ UNCHANGED <<row, spoiled, hosts, gate, approval>>

\* The call rejects, before the write or after it.
SaveLost(w) ==
    /\ save[w].step \in {"encrypting", "written"}
    /\ SaveBecomes(w, [save[w] EXCEPT !.step = "lost"])
    /\ UNCHANGED <<row, spoiled, hosts, gate, approval>>

\* A row that will not decrypt again, under another key or damaged.
RowSpoils(c) ==
    /\ row[c] # NoSave
    /\ spoiled' = spoiled \cup {row[c]}
    /\ UNCHANGED <<row, hosts, gate, save, approval>>

----------------------------------------------------------------------------
\* approve-host: the operator may approve any plain hostname, for any name.
ApproveCalled(a, c, h) ==
    /\ approval[a].step = "uncalled"
    /\ h \in Plain
    /\ ApprovalBecomes(a, [step |-> "called", name |-> c, host |-> h, existing |-> {}])
    /\ UNCHANGED <<row, spoiled, hosts, gate, save>>

\* Mutant: an approval under way does not hold the next one back.
ApproveReadUngated(a) ==
    /\ approval[a].step = "called"
    /\ ApprovalBecomes(a, [approval[a] EXCEPT !.step = "read", !.existing = hosts[approval[a].name]])
    /\ UNCHANGED <<row, spoiled, hosts, gate, save>>

\* approve reads the list, and holds the gate ...
ApproveRead(a) ==
    /\ approval[a].step = "called"
    /\ gate = Open
    /\ gate' = a
    /\ ApprovalBecomes(a, [approval[a] EXCEPT !.step = "read", !.existing = hosts[approval[a].name]])
    /\ UNCHANGED <<row, spoiled, hosts, save>>

\* Mutant: the host is kept as it was spelled.
ApproveWriteAsSpelled(a) ==
    /\ approval[a].step = "read"
    /\ hosts' = [hosts EXCEPT ![approval[a].name] = approval[a].existing \cup {approval[a].host}]
    /\ gate' = Open
    /\ ApprovalBecomes(a, [approval[a] EXCEPT !.step = "written"])
    /\ UNCHANGED <<row, spoiled, save>>

\* ... until it has written it with one host more, or found that one there.
ApproveWrite(a) ==
    /\ approval[a].step = "read"
    /\ hosts' = [hosts EXCEPT ![approval[a].name] =
          approval[a].existing \cup {Lower[approval[a].host]}]
    /\ gate' = Open
    /\ ApprovalBecomes(a, [approval[a] EXCEPT !.step = "written"])
    /\ UNCHANGED <<row, spoiled, save>>

ApproveAnswered(a) ==
    /\ approval[a].step = "written"
    /\ ApprovalBecomes(a, [approval[a] EXCEPT !.step = "approved"])
    /\ UNCHANGED <<row, spoiled, hosts, gate, save>>

\* The call rejects, and an object that was reset lets its gate go.
ApproveLost(a) ==
    /\ approval[a].step \in {"called", "read", "written"}
    /\ gate' = IF gate = a THEN Open ELSE gate
    /\ ApprovalBecomes(a, [approval[a] EXCEPT !.step = "lost"])
    /\ UNCHANGED <<row, spoiled, hosts, save>>

----------------------------------------------------------------------------
SaveStep(w) == SaveWritten(w) \/ SaveAnswered(w) \/ SaveLost(w)

ApprovalStep(a) == ApproveRead(a) \/ ApproveWrite(a) \/ ApproveAnswered(a) \/ ApproveLost(a)

VaultStep ==
    \/ \E w \in Save : SaveStep(w) \/ \E c \in Credential : SaveCalled(w, c)
    \/ \E a \in Approval :
          ApprovalStep(a) \/ \E c \in Credential, h \in Host : ApproveCalled(a, c, h)
    \/ \E c \in Credential : RowSpoils(c)

\* resolveForHost's policy: the names never saved, and those without the host.
Unknown(names) == {c \in names : row[c] = NoSave}

\* Mutant: one approved name lets the others through.
UnapprovedOfNone(names, h) ==
    IF \E c \in names : Lower[h] \in hosts[c] THEN {} ELSE names

Unapproved(names, h) == {c \in names : Lower[h] \notin hosts[c]}
=============================================================================

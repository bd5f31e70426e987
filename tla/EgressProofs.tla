---------------------------- MODULE EgressProofs -----------------------------
(***************************************************************************)
(* Proofs about Egress for every value of its constants: which values go   *)
(* where, that no answered save is missed and no answered approval lost.   *)
(***************************************************************************)
EXTENDS Egress, TLAPS

USE VaultAssumption

----------------------------------------------------------------------------
(* The vault: what the operator's calls change                             *)

\* Only save w moves.
SaveMoves(w) ==
    /\ save' \in [Save -> SaveState]
    /\ \A u \in Save \ {w} : save'[u] = save[u]

SaveIs(w, step, name, after) ==
    /\ save'[w].step = step
    /\ save'[w].name = name
    /\ save'[w].after = after

LEMMA SaveBecomesMoves ==
    ASSUME TypeOK, NEW w \in Save, NEW s \in SaveState, SaveBecomes(w, s)
    PROVE  SaveMoves(w) /\ save'[w] = s
  BY DEF TypeOK, SaveBecomes, SaveMoves

LEMMA SaveGoes ==
    ASSUME TypeOK, NEW w \in Save, NEW step \in {"written", "saved", "lost"},
           SaveBecomes(w, [save[w] EXCEPT !.step = step])
    PROVE  SaveMoves(w) /\ SaveIs(w, step, save[w].name, save[w].after)
<1>1. save[w] \in SaveState
  BY DEF TypeOK
<1>2. [save[w] EXCEPT !.step = step] \in SaveState
  BY <1>1 DEF SaveState
<1>3. SaveMoves(w) /\ save'[w] = [save[w] EXCEPT !.step = step]
  BY <1>2, SaveBecomesMoves
<1> QED BY <1>1, <1>3 DEF SaveIs, SaveState

LEMMA SaveEffect ==
    ASSUME TypeOK, NEW w \in Save, SaveStep(w) \/ \E c \in Credential : SaveCalled(w, c)
    PROVE  /\ SaveMoves(w)
           /\ UNCHANGED <<spoiled, hosts, gate, approval>>
           /\ \/ /\ save[w].step = "uncalled" /\ UNCHANGED row
                 /\ \E c \in Credential : SaveIs(w, "encrypting", c, SavedOf({c}))
              \/ /\ save[w].step = "encrypting"
                 /\ row' = [row EXCEPT ![save[w].name] = w]
                 /\ SaveIs(w, "written", save[w].name, save[w].after)
              \/ /\ save[w].step = "written" /\ UNCHANGED row
                 /\ SaveIs(w, "saved", save[w].name, save[w].after)
              \/ /\ save[w].step \in {"encrypting", "written"} /\ UNCHANGED row
                 /\ SaveIs(w, "lost", save[w].name, save[w].after)
<1>1. ASSUME NEW c \in Credential, SaveCalled(w, c)
      PROVE  /\ SaveMoves(w) /\ UNCHANGED <<row, spoiled, hosts, gate, approval>>
             /\ save[w].step = "uncalled" /\ SaveIs(w, "encrypting", c, SavedOf({c}))
  <2> DEFINE s == [step |-> "encrypting", name |-> c, after |-> SavedOf({c})]
  <2>1. s \in SaveState
    BY DEF SaveState, SavedOf, Saved
  <2>2. SaveBecomes(w, s)
    BY <1>1 DEF SaveCalled
  <2> HIDE DEF s
  <2>3. SaveMoves(w) /\ save'[w] = s
    BY <2>1, <2>2, SaveBecomesMoves
  <2> QED BY <1>1, <2>3 DEF SaveCalled, SaveIs, s
<1>2. CASE SaveWritten(w)
  BY <1>2, SaveGoes DEF SaveWritten
<1>3. CASE SaveAnswered(w)
  BY <1>3, SaveGoes DEF SaveAnswered
<1>4. CASE SaveLost(w)
  BY <1>4, SaveGoes DEF SaveLost
<1> QED BY <1>1, <1>2, <1>3, <1>4 DEF SaveStep

\* Only approval a moves.
ApprovalMoves(a) ==
    /\ approval' \in [Approval -> ApprovalState]
    /\ \A b \in Approval \ {a} : approval'[b] = approval[b]

ApprovalIs(a, step, name, host) ==
    /\ approval'[a].step = step
    /\ approval'[a].name = name
    /\ approval'[a].host = host

LEMMA ApprovalBecomesMoves ==
    ASSUME TypeOK, NEW a \in Approval, NEW s \in ApprovalState, ApprovalBecomes(a, s)
    PROVE  ApprovalMoves(a) /\ approval'[a] = s
  BY DEF TypeOK, ApprovalBecomes, ApprovalMoves

LEMMA ApprovalGoes ==
    ASSUME TypeOK, NEW a \in Approval, NEW step \in {"written", "approved", "lost"},
           ApprovalBecomes(a, [approval[a] EXCEPT !.step = step])
    PROVE  ApprovalMoves(a) /\ ApprovalIs(a, step, approval[a].name, approval[a].host)
<1>1. approval[a] \in ApprovalState
  BY DEF TypeOK
<1>2. [approval[a] EXCEPT !.step = step] \in ApprovalState
  BY <1>1 DEF ApprovalState
<1>3. ApprovalMoves(a) /\ approval'[a] = [approval[a] EXCEPT !.step = step]
  BY <1>2, ApprovalBecomesMoves
<1> QED BY <1>1, <1>3 DEF ApprovalIs, ApprovalState

LEMMA ApprovalEffect ==
    ASSUME TypeOK, CallsAgree, NEW a \in Approval,
           ApprovalStep(a) \/ \E c \in Credential, h \in Host : ApproveCalled(a, c, h)
    PROVE  /\ ApprovalMoves(a)
           /\ UNCHANGED <<row, spoiled, save>>
           /\ \/ /\ approval[a].step = "uncalled" /\ UNCHANGED <<hosts, gate>>
                 /\ \E c \in Credential, h \in Host : ApprovalIs(a, "called", c, h)
              \/ /\ approval[a].step = "called" /\ gate = Open /\ gate' = a /\ UNCHANGED hosts
                 /\ approval'[a].existing = hosts[approval[a].name]
                 /\ ApprovalIs(a, "read", approval[a].name, approval[a].host)
              \/ /\ approval[a].step = "read" /\ gate' = Open
                 /\ hosts' = [hosts EXCEPT ![approval[a].name] =
                       approval[a].existing \cup {Lower[approval[a].host]}]
                 /\ ApprovalIs(a, "written", approval[a].name, approval[a].host)
              \/ /\ approval[a].step = "written" /\ UNCHANGED <<hosts, gate>>
                 /\ ApprovalIs(a, "approved", approval[a].name, approval[a].host)
              \/ /\ approval[a].step \in {"called", "read", "written"} /\ UNCHANGED hosts
                 /\ gate' = IF gate = a THEN Open ELSE gate
                 /\ ApprovalIs(a, "lost", approval[a].name, approval[a].host)
<1>0. approval[a] \in ApprovalState
  BY DEF TypeOK
<1>1. ASSUME NEW c \in Credential, NEW h \in Host, ApproveCalled(a, c, h)
      PROVE  /\ ApprovalMoves(a) /\ UNCHANGED <<row, spoiled, save, hosts, gate>>
             /\ approval[a].step = "uncalled" /\ ApprovalIs(a, "called", c, h)
  <2> DEFINE s == [step |-> "called", name |-> c, host |-> h, existing |-> {}]
  <2>1. s \in ApprovalState
    BY DEF ApprovalState
  <2>2. ApprovalBecomes(a, s)
    BY <1>1 DEF ApproveCalled
  <2> HIDE DEF s
  <2>3. ApprovalMoves(a) /\ approval'[a] = s
    BY <2>1, <2>2, ApprovalBecomesMoves
  <2> QED BY <1>1, <2>3 DEF ApproveCalled, ApprovalIs, s
<1>2. CASE ApproveRead(a)
  <2> DEFINE e == hosts[approval[a].name]
  <2>1. ApprovalBecomes(a, [approval[a] EXCEPT !.step = "read", !.existing = e])
    BY <1>2 DEF ApproveRead
  <2>2. e \in SUBSET Host
    BY <1>2 DEF ApproveRead, CallsAgree, TypeOK
  <2> HIDE DEF e
  <2>3. [approval[a] EXCEPT !.step = "read", !.existing = e] \in ApprovalState
    BY <1>0, <2>2 DEF ApprovalState
  <2>4. /\ ApprovalMoves(a)
        /\ approval'[a] = [approval[a] EXCEPT !.step = "read", !.existing = e]
    BY <2>1, <2>3, ApprovalBecomesMoves
  <2>5. /\ approval'[a].existing = e
        /\ ApprovalIs(a, "read", approval[a].name, approval[a].host)
    BY <1>0, <2>4 DEF ApprovalIs, ApprovalState
  <2> QED BY <1>2, <2>4, <2>5 DEF ApproveRead, e
<1>3. CASE ApproveWrite(a)
  BY <1>3, ApprovalGoes DEF ApproveWrite
<1>4. CASE ApproveAnswered(a)
  BY <1>4, ApprovalGoes DEF ApproveAnswered
<1>5. CASE ApproveLost(a)
  BY <1>5, ApprovalGoes DEF ApproveLost
<1> QED BY <1>1, <1>2, <1>3, <1>4, <1>5 DEF ApprovalStep

----------------------------------------------------------------------------
(* The vault: its parts of the invariant                                   *)

VaultTypeOK ==
    /\ row \in [Credential -> Save \cup {NoSave}]
    /\ spoiled \subseteq Save
    /\ hosts \in [Credential -> SUBSET Host]
    /\ gate \in Approval \cup {Open}
    /\ save \in [Save -> SaveState]
    /\ approval \in [Approval -> ApprovalState]

\* What the operator's calls never take back.
VaultPersists ==
    /\ \A w \in Save : save[w].step # "uncalled" =>
          /\ save'[w].step # "uncalled"
          /\ save'[w].name = save[w].name /\ save'[w].after = save[w].after
    /\ \A w \in Save : Landed(w) => Landed(w)'
    /\ Saved \subseteq Saved'
    /\ spoiled \subseteq spoiled'
    /\ \A c \in Credential : row[c] # NoSave => row'[c] # NoSave
    /\ \A c \in Credential : hosts[c] \subseteq hosts'[c]
    /\ \A a \in Approval : approval[a].step \in {"written", "approved"} =>
          /\ approval'[a].step = "approved" \/ approval[a].step = "written"
          /\ approval'[a].name = approval[a].name /\ approval'[a].host = approval[a].host
    /\ \A a \in Approval : approval[a].step # "uncalled" =>
          /\ approval'[a].step # "uncalled"
          /\ approval'[a].name = approval[a].name /\ approval'[a].host = approval[a].host

\* The vault's part of IInv.
VaultAgrees == CallsAgree /\ RowsAgree /\ ApprovalsAreKept

LEMMA SaveStepAgrees ==
    ASSUME TypeOK, VaultAgrees, NEW w \in Save,
           SaveStep(w) \/ \E c \in Credential : SaveCalled(w, c)
    PROVE  VaultTypeOK' /\ VaultPersists /\ VaultAgrees'
<1>1. /\ SaveMoves(w)
      /\ UNCHANGED <<spoiled, hosts, gate, approval>>
  BY SaveEffect
<1>2. save[w].step # "uncalled" <=> save[w].name \in Credential
  BY DEF VaultAgrees, CallsAgree
<1>3. Saved \subseteq Saved' /\ \A u \in Save : u \in Saved' => u \in Saved \/ u = w
  BY SaveEffect DEF SaveMoves, SaveIs, Saved
<1>4. /\ row' \in [Credential -> Save \cup {NoSave}]
      /\ \A c \in Credential : row'[c] = row[c] \/ row'[c] = w
  <2>1. CASE UNCHANGED row
    BY <2>1 DEF TypeOK
  <2>2. CASE row' = [row EXCEPT ![save[w].name] = w]
    BY <2>2 DEF TypeOK
  <2> QED BY <2>1, <2>2, SaveEffect
<1>5. VaultTypeOK'
  BY <1>1, <1>4 DEF VaultTypeOK, TypeOK, SaveMoves
<1>6. VaultPersists
  <2>1. /\ save[w].step # "uncalled" =>
              /\ save'[w].step # "uncalled"
              /\ save'[w].name = save[w].name /\ save'[w].after = save[w].after
        /\ Landed(w) => Landed(w)'
    BY SaveEffect DEF SaveIs, Landed
  <2>2. \A u \in Save \ {w} : save'[u] = save[u]
    BY <1>1 DEF SaveMoves
  <2>3. \A c \in Credential : row[c] # NoSave => row'[c] # NoSave
    BY <1>4
  <2> QED BY <1>1, <1>3, <2>1, <2>2, <2>3 DEF VaultPersists, Landed
<1>7. CallsAgree'
  <2>1. ASSUME NEW u \in Save
        PROVE  /\ save'[u].step # "uncalled" <=> save'[u].name \in Credential
               /\ save'[u].after \subseteq Saved'
    <3>1. CASE u = w
      BY <1>2, <1>3, <3>1, SaveEffect DEF SaveIs, SavedOf, VaultAgrees, CallsAgree
    <3>2. CASE u # w
      BY <1>1, <1>3, <3>2 DEF SaveMoves, VaultAgrees, CallsAgree
    <3> QED BY <3>1, <3>2
  <2> QED BY <1>1, <2>1 DEF VaultAgrees, CallsAgree
<1>8. RowsAgree'
  <2>1. w \in Saved => save[w].step = "saved"
    BY DEF Saved
  <2>2. ASSUME NEW c \in Credential, row'[c] # NoSave
        PROVE  save'[row'[c]].step \in {"written", "saved", "lost"} /\ save'[row'[c]].name = c
    <3>1. CASE row'[c] = row[c]
      BY <1>6, <2>2, <3>1 DEF VaultAgrees, RowsAgree, VaultPersists, TypeOK, Landed
    <3>2. CASE row'[c] # row[c]
      <4>1. /\ save[w].step = "encrypting" /\ row' = [row EXCEPT ![save[w].name] = w]
            /\ SaveIs(w, "written", save[w].name, save[w].after)
        BY <3>2, SaveEffect
      <4>2. row'[c] = w /\ save[w].name = c
        BY <3>2, <4>1 DEF TypeOK
      <4> QED BY <4>1, <4>2 DEF Landed, SaveIs
    <3> QED BY <3>1, <3>2
  <2>3. ASSUME NEW u \in Save, save'[u].step \in {"written", "saved"}
        PROVE  row'[save'[u].name] # NoSave /\ row'[save'[u].name] \notin save'[u].after
    <3>1. CASE /\ save[w].step = "encrypting" /\ row' = [row EXCEPT ![save[w].name] = w]
               /\ SaveIs(w, "written", save[w].name, save[w].after)
      <4>1. save[w].name \in Credential /\ w \notin Saved
        BY <1>2, <2>1, <3>1
      <4>2. w \notin save'[u].after /\ w # NoSave
        BY <1>1, <3>1, <4>1 DEF SaveMoves, SaveIs, VaultAgrees, CallsAgree
      <4>3. CASE save'[u].name = save[w].name
        BY <3>1, <4>1, <4>2, <4>3 DEF TypeOK
      <4>4. CASE save'[u].name # save[w].name
        <5>1. u # w /\ save'[u] = save[u]
          BY <1>1, <3>1, <4>4 DEF SaveMoves, SaveIs
        <5>2. save[u].name \in Credential
          BY <2>3, <5>1 DEF VaultAgrees, CallsAgree
        <5> QED BY <2>3, <3>1, <4>4, <5>1, <5>2 DEF VaultAgrees, RowsAgree, TypeOK
      <4> QED BY <4>3, <4>4
    <3>2. CASE UNCHANGED row /\ save'[w].step # "written"
      <4>1. /\ save[u].step \in {"written", "saved"}
            /\ save'[u].name = save[u].name /\ save'[u].after = save[u].after
        BY <1>1, <2>3, <3>2, SaveEffect DEF SaveMoves, SaveIs
      <4> QED BY <3>2, <4>1 DEF VaultAgrees, RowsAgree
    <3> QED BY <3>1, <3>2, SaveEffect DEF SaveIs
  <2> QED BY <2>2, <2>3 DEF RowsAgree, Landed
<1>9. ApprovalsAreKept'
  BY <1>1 DEF VaultAgrees, ApprovalsAreKept
<1> QED BY <1>5, <1>6, <1>7, <1>8, <1>9 DEF VaultAgrees

LEMMA ApprovalStepAgrees ==
    ASSUME TypeOK, VaultAgrees, NEW a \in Approval,
           ApprovalStep(a) \/ \E c \in Credential, h \in Host : ApproveCalled(a, c, h)
    PROVE  VaultTypeOK' /\ VaultPersists /\ VaultAgrees'
<1>0. CallsAgree
  BY DEF VaultAgrees
<1>1. ApprovalMoves(a) /\ UNCHANGED <<row, spoiled, save>>
  BY <1>0, ApprovalEffect
<1>2. /\ gate' \in Approval \cup {Open}
      /\ approval[a].step # "uncalled" =>
            /\ approval[a].name \in Credential /\ approval[a].host \in Host
            /\ approval'[a].step # "uncalled"
            /\ approval'[a].name = approval[a].name /\ approval'[a].host = approval[a].host
      /\ approval'[a].step # "uncalled"
      /\ approval'[a].name \in Credential /\ approval'[a].host \in Host
      /\ approval[a].step = "read" => gate = a /\ approval[a].existing = hosts[approval[a].name]
      /\ approval[a].step = "written" =>
            approval'[a].step \in {"approved", "lost"} /\ UNCHANGED <<hosts>>
      /\ approval[a].step # "approved"
  BY <1>0, ApprovalEffect DEF ApprovalIs, CallsAgree, TypeOK
\* What the write adds, and to which name.
<1>3. \/ UNCHANGED hosts /\ approval'[a].step # "written"
      \/ /\ approval[a].step = "read" /\ gate = a /\ approval'[a].step = "written"
         /\ hosts' \in [Credential -> SUBSET Host]
         /\ hosts'[approval[a].name] = hosts[approval[a].name] \cup {Lower[approval[a].host]}
         /\ \A c \in Credential \ {approval[a].name} : hosts'[c] = hosts[c]
  <2>1. CASE /\ approval[a].step = "read"
             /\ hosts' = [hosts EXCEPT ![approval[a].name] =
                   approval[a].existing \cup {Lower[approval[a].host]}]
             /\ ApprovalIs(a, "written", approval[a].name, approval[a].host)
    <3>1. /\ approval[a].name \in Credential /\ approval[a].host \in Host
          /\ gate = a /\ approval[a].existing = hosts[approval[a].name]
      BY <1>2, <2>1
    <3>2. hosts[approval[a].name] \cup {Lower[approval[a].host]} \in SUBSET Host
      BY <3>1 DEF TypeOK
    <3> QED BY <2>1, <3>1, <3>2 DEF TypeOK, ApprovalIs
  <2> QED BY <1>0, <2>1, ApprovalEffect DEF ApprovalIs
<1>4. \A c \in Credential : hosts[c] \subseteq hosts'[c]
  BY <1>2, <1>3
<1>5. VaultTypeOK'
  BY <1>1, <1>2, <1>3 DEF VaultTypeOK, TypeOK, ApprovalMoves
<1>6. VaultPersists
  <2>1. \A b \in Approval : approval[b].step # "uncalled" =>
           /\ approval'[b].step # "uncalled"
           /\ approval'[b].name = approval[b].name /\ approval'[b].host = approval[b].host
    BY <1>1, <1>2 DEF ApprovalMoves
  <2>2. \A b \in Approval : approval[b].step = "approved" => approval'[b].step = "approved"
    BY <1>1, <1>2 DEF ApprovalMoves
  <2> QED BY <1>1, <1>4, <2>1, <2>2 DEF VaultPersists, Landed, Saved
<1>7. CallsAgree'
  <2>1. ASSUME NEW b \in Approval
        PROVE  /\ approval'[b].step # "uncalled" <=> approval'[b].name \in Credential
               /\ approval'[b].step # "uncalled" => approval'[b].host \in Host
               /\ approval'[b].step = "read" =>
                     gate' = b /\ approval'[b].existing = hosts'[approval'[b].name]
    <3>1. CASE b = a
      <4>1. approval'[a].step = "read" =>
               gate' = a /\ approval'[a].existing = hosts'[approval'[a].name]
        BY <1>0, ApprovalEffect DEF ApprovalIs
      <4> QED BY <1>2, <3>1, <4>1
    <3>2. CASE b # a /\ approval[b].step = "read"
      <4>1. gate = b /\ gate # Open /\ approval[b].existing = hosts[approval[b].name]
        BY <1>0, <3>2 DEF CallsAgree
      <4>2. gate' = b /\ UNCHANGED hosts
        BY <1>0, <1>2, <1>3, <3>2, <4>1, ApprovalEffect
      <4> QED BY <1>0, <1>1, <3>2, <4>1, <4>2 DEF ApprovalMoves, CallsAgree
    <3>3. CASE b # a /\ approval[b].step # "read"
      BY <1>0, <1>1, <3>3 DEF ApprovalMoves, CallsAgree
    <3> QED BY <3>1, <3>2, <3>3
  <2> QED BY <1>0, <1>1, <2>1 DEF CallsAgree, Saved
<1>8. RowsAgree'
  BY <1>1 DEF VaultAgrees, RowsAgree, Landed
<1>9. ApprovalsAreKept'
  <2>1. ASSUME NEW b \in Approval, approval'[b].step \in {"written", "approved"}
        PROVE  Lower[approval'[b].host] \in hosts'[approval'[b].name]
    <3>1. CASE approval[b].step \in {"written", "approved"}
      <4>1. Lower[approval[b].host] \in hosts[approval[b].name] /\ approval[b].name \in Credential
        BY <1>0, <3>1 DEF VaultAgrees, ApprovalsAreKept, CallsAgree
      <4> QED BY <1>4, <1>6, <3>1, <4>1 DEF VaultPersists
    <3>2. CASE approval[b].step \notin {"written", "approved"}
      <4>1. b = a /\ approval'[a].step # "approved"
        BY <1>0, <1>1, <2>1, <3>2, ApprovalEffect DEF ApprovalMoves, ApprovalIs
      <4> QED BY <1>2, <1>3, <2>1, <4>1
    <3> QED BY <3>1, <3>2
  <2>2. ASSUME NEW c \in Credential, NEW h \in hosts'[c]
        PROVE  \E b \in Approval : approval'[b].name = c /\ Lower[approval'[b].host] = h
    <3>1. CASE h \in hosts[c]
      <4>1. PICK b \in Approval : approval[b].name = c /\ Lower[approval[b].host] = h
        BY <3>1 DEF VaultAgrees, ApprovalsAreKept
      <4>2. approval[b].step # "uncalled"
        BY <4>1 DEF VaultAgrees, CallsAgree, ApprovalsAreKept
      <4> QED BY <1>6, <4>1, <4>2 DEF VaultPersists
    <3>2. CASE h \notin hosts[c]
      <4>1. c = approval[a].name /\ h = Lower[approval[a].host] /\ approval[a].step = "read"
        BY <1>3, <2>2, <3>2
      <4> QED BY <1>2, <4>1
    <3> QED BY <3>1, <3>2
  <2> QED BY <2>1, <2>2 DEF ApprovalsAreKept
<1> QED BY <1>5, <1>6, <1>7, <1>8, <1>9 DEF VaultAgrees

LEMMA VaultStepAgrees ==
    ASSUME TypeOK, VaultAgrees, VaultStep
    PROVE  VaultTypeOK' /\ VaultPersists /\ VaultAgrees'
<1>1. ASSUME NEW w \in Save, SaveStep(w) \/ \E c \in Credential : SaveCalled(w, c)
      PROVE  VaultTypeOK' /\ VaultPersists /\ VaultAgrees'
  BY <1>1, SaveStepAgrees
<1>2. ASSUME NEW a \in Approval,
             ApprovalStep(a) \/ \E c \in Credential, h \in Host : ApproveCalled(a, c, h)
      PROVE  VaultTypeOK' /\ VaultPersists /\ VaultAgrees'
  BY <1>2, ApprovalStepAgrees
<1>3. ASSUME NEW c \in Credential, RowSpoils(c)
      PROVE  VaultTypeOK' /\ VaultPersists /\ VaultAgrees'
  <2>1. UNCHANGED <<row, hosts, gate, save, approval>> /\ spoiled \subseteq spoiled'
    BY <1>3 DEF RowSpoils
  <2>2. spoiled' \subseteq Save
    BY <1>3 DEF RowSpoils, TypeOK
  <2>3. VaultTypeOK'
    BY <2>1, <2>2 DEF VaultTypeOK, TypeOK
  <2>4. VaultPersists
    BY <2>1 DEF VaultPersists, Landed, Saved
  <2>5. VaultAgrees'
    BY <2>1 DEF VaultAgrees, CallsAgree, RowsAgree, ApprovalsAreKept, Landed, Saved
  <2> QED BY <2>3, <2>4, <2>5
<1> QED BY <1>1, <1>2, <1>3 DEF VaultStep

----------------------------------------------------------------------------
(* A request: what each step changes                                       *)

\* Only request q moves.
Moves(q) ==
    /\ request' \in [Request -> RequestState]
    /\ \A p \in Request \ {q} : request'[p] = request[p]

\* What a request was sent with never changes.
Keeps(q) ==
    /\ request'[q].names = request[q].names
    /\ request'[q].host = request[q].host
    /\ request'[q].secure = request[q].secure
    /\ request'[q].heard = request[q].heard
    /\ request'[q].granted = request[q].granted

Is(q, step, left, values, denial) ==
    /\ request'[q].step = step
    /\ request'[q].left = left
    /\ request'[q].values = values
    /\ request'[q].denial = denial

LEMMA BecomeMoves ==
    ASSUME TypeOK, NEW q \in Request, NEW r \in RequestState, Become(q, r)
    PROVE  Moves(q) /\ request'[q] = r
  BY DEF TypeOK, Become, Moves

LEMMA BecomeStep ==
    ASSUME TypeOK, NEW q \in Request, NEW step \in {"resolve", "internal", "sent", "threw"},
           Become(q, [request[q] EXCEPT !.step = step])
    PROVE  /\ Moves(q) /\ Keeps(q)
           /\ Is(q, step, request[q].left, request[q].values, request[q].denial)
<1>1. request[q] \in RequestState
  BY DEF TypeOK
<1>2. [request[q] EXCEPT !.step = step] \in RequestState
  BY <1>1 DEF RequestState
<1>3. Moves(q) /\ request'[q] = [request[q] EXCEPT !.step = step]
  BY <1>2, BecomeMoves
<1> QED BY <1>1, <1>3 DEF Keeps, Is, RequestState

LEMMA DenyEffect ==
    ASSUME TypeOK, NEW q \in Request, NEW tag \in Denial, Deny(q, tag)
    PROVE  /\ Moves(q) /\ Keeps(q)
           /\ Is(q, "denied", request[q].left, request[q].values, tag)
<1>1. request[q] \in RequestState
  BY DEF TypeOK
<1>2. [request[q] EXCEPT !.step = "denied", !.denial = tag] \in RequestState
  BY <1>1 DEF RequestState
<1>3. Moves(q) /\ request'[q] = [request[q] EXCEPT !.step = "denied", !.denial = tag]
  BY <1>2, BecomeMoves DEF Deny
<1> QED BY <1>1, <1>3 DEF Keeps, Is, RequestState

LEMMA PolicyEffect ==
    ASSUME TypeOK, NEW q \in Request, ResolvePolicy(q)
    PROVE  /\ Moves(q) /\ Keeps(q)
           /\ \/ /\ Unknown(request[q].names) # {}
                 /\ Is(q, "denied", request[q].left, request[q].values, "UnknownCredential")
              \/ /\ Unknown(request[q].names) = {}
                 /\ Unapproved(request[q].names, request[q].host) # {}
                 /\ Is(q, "denied", request[q].left, request[q].values, "HostNotApproved")
              \/ /\ Unknown(request[q].names) = {}
                 /\ Unapproved(request[q].names, request[q].host) = {}
                 /\ Is(q, "values", request[q].names, request[q].values, request[q].denial)
<1> DEFINE names == request[q].names
           missing == Unapproved(names, request[q].host) \ Unknown(names)
<1>1. request[q] \in RequestState
  BY DEF TypeOK
<1>2. CASE Unknown(names) # {}
  BY <1>2, DenyEffect DEF ResolvePolicy, Denial
<1>3. CASE Unknown(names) = {} /\ missing # {}
  <2>1. Deny(q, "HostNotApproved")
    BY <1>3 DEF ResolvePolicy
  <2> QED BY <1>3, <2>1, DenyEffect DEF Denial
<1>4. CASE Unknown(names) = {} /\ missing = {}
  <2>1. Become(q, [request[q] EXCEPT !.step = "values", !.left = names])
    BY <1>4 DEF ResolvePolicy
  <2>2. Unapproved(names, request[q].host) = {}
    BY <1>4
  <2>3. names \in SUBSET Credential
    BY <1>1 DEF RequestState
  <2> HIDE DEF names
  <2>4. [request[q] EXCEPT !.step = "values", !.left = names] \in RequestState
    BY <1>1, <2>3 DEF RequestState
  <2>5. Moves(q) /\ request'[q] = [request[q] EXCEPT !.step = "values", !.left = names]
    BY <2>1, <2>4, BecomeMoves
  <2>6. Keeps(q) /\ Is(q, "values", names, request[q].values, request[q].denial)
    BY <1>1, <2>5 DEF Keeps, Is, RequestState
  <2> QED BY <1>4, <2>2, <2>5, <2>6 DEF names
<1> QED BY <1>2, <1>3, <1>4

LEMMA ReadEffect ==
    ASSUME TypeOK, NEW q \in Request, NEW c \in Credential, ReadValue(q, c)
    PROVE  /\ Moves(q) /\ Keeps(q)
           /\ request'[q].step = "values"
           /\ request'[q].left = request[q].left \ {c}
           /\ request'[q].denial = request[q].denial
           /\ request'[q].values[c] = IF row[c] \in spoiled THEN NoSave ELSE row[c]
           /\ \A d \in Credential \ {c} : request'[q].values[d] = request[q].values[d]
<1> DEFINE x == IF row[c] \in spoiled THEN NoSave ELSE row[c]
           left == request[q].left \ {c}
           values == [request[q].values EXCEPT ![c] = x]
<1>1. request[q] \in RequestState /\ x \in Save \cup {NoSave}
  BY DEF TypeOK
<1>2. /\ request[q].values \in [Credential -> Save \cup {NoSave}]
      /\ left \in SUBSET Credential
  BY <1>1 DEF RequestState
<1>3. request[q].step = "values" /\ Become(q, [request[q] EXCEPT !.left = left, !.values = values])
  BY DEF ReadValue
<1>4. x = IF row[c] \in spoiled THEN NoSave ELSE row[c]
  OBVIOUS
<1> HIDE DEF x
<1>5. /\ values \in [Credential -> Save \cup {NoSave}]
      /\ values[c] = x
      /\ \A d \in Credential \ {c} : values[d] = request[q].values[d]
  BY <1>1, <1>2
<1>6. left = request[q].left \ {c}
  OBVIOUS
<1> HIDE DEF values, left
<1>7. [request[q] EXCEPT !.left = left, !.values = values] \in RequestState
  BY <1>1, <1>2, <1>5 DEF RequestState
<1>8. Moves(q) /\ request'[q] = [request[q] EXCEPT !.left = left, !.values = values]
  BY <1>3, <1>7, BecomeMoves
<1>9. Keeps(q) /\ Is(q, "values", left, values, request[q].denial)
  BY <1>1, <1>3, <1>8 DEF Keeps, Is, RequestState
<1> QED BY <1>4, <1>5, <1>6, <1>8, <1>9 DEF Is

LEMMA SendEffect ==
    ASSUME TypeOK, NEW q \in Request, NEW names \in SUBSET Credential, NEW h \in Host,
           NEW secure \in BOOLEAN, Send(q, names, h, secure)
    PROVE  /\ Moves(q)
           /\ Is(q, "route", {}, NoValues, NoDenial)
           /\ request'[q].names = names /\ request'[q].host = h
           /\ request'[q].heard = SavedOf(names)
           /\ request'[q].granted = Granted(names, h)
<1> DEFINE granted == Granted(names, h)
           r == [step |-> "route", names |-> names, host |-> h, secure |-> secure, left |-> {},
                 values |-> NoValues, denial |-> NoDenial, heard |-> SavedOf(names),
                 granted |-> granted]
<1>1. granted \in BOOLEAN
  BY DEF Granted
<1>2. Become(q, r)
  BY DEF Send
<1>3. NoValues \in [Credential -> Save \cup {NoSave}] /\ SavedOf(names) \in SUBSET Save
  BY DEF NoValues, SavedOf, Saved
<1>4. granted = Granted(names, h)
  OBVIOUS
<1> HIDE DEF granted
<1>5. r \in RequestState
  BY <1>1, <1>3 DEF RequestState
<1>6. Moves(q) /\ request'[q] = r
  BY <1>2, <1>5, BecomeMoves
<1>7. /\ Is(q, "route", {}, NoValues, NoDenial)
      /\ request'[q].names = names /\ request'[q].host = h
      /\ request'[q].heard = SavedOf(names) /\ request'[q].granted = granted
  BY <1>6 DEF Is
<1> QED BY <1>4, <1>6, <1>7

----------------------------------------------------------------------------
(* A request: its part of the invariant                                    *)

AnswersSeen(q) ==
    \A c \in request[q].names : \A w \in request[q].heard :
        save[w].name = c => request[q].values[c] \notin save[w].after

GoesRight(q) ==
    request[q].step = "sent" =>
        \A c \in Credential :
            IF c \in request[q].names
            THEN /\ request[q].values[c] # NoSave
                 /\ save[request[q].values[c]].name = c
                 /\ Lower[request[q].host] \in hosts[c]
                 /\ SecureEnough(q)
            ELSE request[q].values[c] = NoSave

Passes(q) ==
    request[q].granted /\ request[q].denial \in {"UnknownCredential", "HostNotApproved"} =>
        \E w \in spoiled : save[w].name \in request[q].names

Right(q) ==
    /\ ReadsAgree(q)
    /\ request[q].step = "resolve" => SecureEnough(q)
    /\ request[q].step = "values" => PolicyHeld(q)
    /\ request[q].step # "unsent" => request[q].host \in Host
    /\ request[q].heard \subseteq Saved
    /\ request[q].granted => Granted(request[q].names, request[q].host)
    /\ AnswersSeen(q) /\ GoesRight(q) /\ Passes(q)

LEMMA IInvParts ==
    IInv <=> TypeOK /\ VaultAgrees /\ AskersGoOut /\ \A q \in Request : Right(q)
  BY DEF IInv, VaultAgrees, Right, RequestsAgree, AnswersSeen, GoesRight, Passes,
         AnsweredSavesAreSeen, ValuesGoWhereApproved, GrantedRequestsPass

LEMMA SavedIsSaved == \A w \in Saved : w \in Save /\ save[w].step = "saved"
  BY DEF Saved

LEMMA GrantedPersists ==
    ASSUME VaultPersists, NEW names \in SUBSET Credential, NEW h, Granted(names, h)
    PROVE  Granted(names, h)'
<1> SUFFICES ASSUME NEW c \in names
             PROVE  /\ \E w \in Saved' : save'[w].name = c
                    /\ \E a \in Approval : /\ approval'[a].step = "approved"
                                           /\ approval'[a].name = c
                                           /\ Lower[approval'[a].host] = Lower[h]
  BY DEF Granted
<1>1. PICK w \in Saved : save[w].name = c
  BY DEF Granted
<1>2. w \in Saved' /\ save'[w].name = c
  BY <1>1, SavedIsSaved DEF VaultPersists
<1>3. PICK a \in Approval : /\ approval[a].step = "approved" /\ approval[a].name = c
                            /\ Lower[approval[a].host] = Lower[h]
  BY DEF Granted
<1>4. /\ approval'[a].step = "approved" /\ approval'[a].name = c
      /\ Lower[approval'[a].host] = Lower[h]
  BY <1>3 DEF VaultPersists
<1> QED BY <1>2, <1>4

\* A granted request finds its rows and its hosts.
LEMMA GrantedIsThere ==
    ASSUME TypeOK, VaultAgrees, NEW names \in SUBSET Credential, NEW h \in Host, Granted(names, h)
    PROVE  Unknown(names) = {} /\ Unapproved(names, h) = {}
<1> SUFFICES ASSUME NEW c \in names PROVE row[c] # NoSave /\ Lower[h] \in hosts[c]
  BY DEF Unknown, Unapproved
<1>1. PICK w \in Saved : save[w].name = c
  BY DEF Granted
<1>2. row[c] # NoSave
  BY <1>1, SavedIsSaved DEF VaultAgrees, RowsAgree
<1>3. PICK a \in Approval : /\ approval[a].step = "approved" /\ approval[a].name = c
                            /\ Lower[approval[a].host] = Lower[h]
  BY DEF Granted
<1>4. Lower[h] \in hosts[c]
  BY <1>3 DEF VaultAgrees, ApprovalsAreKept
<1> QED BY <1>2, <1>4

\* What the vault does meanwhile takes nothing from a request.
LEMMA RestsRight ==
    ASSUME TypeOK, VaultAgrees, VaultPersists, NEW q \in Request, Right(q),
           request'[q] = request[q]
    PROVE  Right(q)'
<1>0. request[q] \in RequestState
  BY DEF TypeOK
<1>1. ReadsAgree(q)'
  <2>1. ASSUME NEW c \in Credential, request[q].values[c] # NoSave
        PROVE  /\ Landed(request[q].values[c])
               /\ save'[request[q].values[c]].name = c
               /\ save'[request[q].values[c]].step \in {"written", "saved", "lost"}
    <3>1. request[q].values[c] \in Save
      BY <1>0, <2>1 DEF RequestState
    <3>2. /\ Landed(request[q].values[c]) /\ save[request[q].values[c]].name = c
          /\ save[request[q].values[c]].step # "uncalled"
      BY <2>1 DEF Right, ReadsAgree, Landed
    <3> QED BY <3>1, <3>2 DEF VaultPersists, Landed
  <2> QED BY <2>1 DEF Right, ReadsAgree, Landed
<1>2. request'[q].heard \subseteq Saved'
  BY DEF Right, VaultPersists
<1>3. (request[q].granted => Granted(request[q].names, request[q].host))'
  <2>1. PICK names \in SUBSET Credential : names = request[q].names
    BY <1>0 DEF RequestState
  <2>2. PICK h \in Host \cup {NoHost} : h = request[q].host
    BY <1>0 DEF RequestState
  <2>3. request[q].granted => Granted(names, h)
    BY <2>1, <2>2 DEF Right
  <2>4. request[q].granted => Granted(names, h)'
    BY <2>3, GrantedPersists
  <2> QED BY <2>1, <2>2, <2>4 DEF Granted
<1>4. PolicyHeld(q) => PolicyHeld(q)'
  <2> SUFFICES ASSUME PolicyHeld(q) PROVE PolicyHeld(q)'
    OBVIOUS
  <2>1. ASSUME NEW c \in request[q].names
        PROVE  /\ row'[c] # NoSave
               /\ Lower[request[q].host] \in hosts'[c]
               /\ c \notin request[q].left /\ request[q].values[c] = NoSave =>
                     \E w \in spoiled' : save'[w].name = c
    <3>1. c \in Credential
      BY <1>0 DEF RequestState
    <3>2. row'[c] # NoSave /\ Lower[request[q].host] \in hosts'[c]
      BY <2>1, <3>1 DEF PolicyHeld, VaultPersists
    <3>3. ASSUME NEW w \in spoiled, save[w].name = c
          PROVE  w \in spoiled' /\ save'[w].name = c
      BY <3>1, <3>3 DEF VaultPersists, VaultAgrees, CallsAgree, TypeOK
    <3> QED BY <2>1, <3>2, <3>3 DEF PolicyHeld
  <2> QED BY <2>1 DEF PolicyHeld, SecureEnough
<1>5. AnswersSeen(q)'
  BY SavedIsSaved DEF Right, AnswersSeen, VaultPersists
<1>6. GoesRight(q)'
  <2>1. ASSUME NEW c \in Credential, request[q].step = "sent", c \in request[q].names
        PROVE  /\ request[q].values[c] # NoSave
               /\ save'[request[q].values[c]].name = c
               /\ Lower[request[q].host] \in hosts'[c]
               /\ SecureEnough(q)
    <3>1. /\ request[q].values[c] # NoSave /\ save[request[q].values[c]].name = c
          /\ Lower[request[q].host] \in hosts[c] /\ SecureEnough(q)
      BY <2>1 DEF Right, GoesRight
    <3>2. request[q].values[c] \in Save
      BY <1>0, <3>1 DEF RequestState
    <3>3. save[request[q].values[c]].step # "uncalled"
      BY <3>1 DEF Right, ReadsAgree, Landed
    <3> QED BY <3>1, <3>2, <3>3 DEF VaultPersists
  <2> QED BY <2>1 DEF Right, GoesRight, SecureEnough
<1>7. Passes(q)'
  <2>1. ASSUME NEW w \in spoiled, save[w].name \in request[q].names
        PROVE  w \in spoiled' /\ save'[w].name \in request[q].names
    BY <1>0, <2>1 DEF VaultPersists, VaultAgrees, CallsAgree, TypeOK, RequestState
  <2> QED BY <2>1 DEF Right, Passes
<1> QED BY <1>1, <1>2, <1>3, <1>4, <1>5, <1>6, <1>7 DEF Right, SecureEnough

LEMMA VaultRests ==
    ASSUME TypeOK, VaultAgrees, UNCHANGED vault
    PROVE  VaultTypeOK' /\ VaultPersists /\ VaultAgrees'
<1>1. UNCHANGED <<row, spoiled, hosts, gate, save, approval>>
  BY DEF vault
<1>2. VaultTypeOK'
  BY <1>1 DEF VaultTypeOK, TypeOK
<1>3. VaultPersists
  BY <1>1 DEF VaultPersists, Landed, Saved
<1>4. VaultAgrees'
  BY <1>1 DEF VaultAgrees, CallsAgree, RowsAgree, ApprovalsAreKept, Landed, Saved
<1> QED BY <1>2, <1>3, <1>4

\* A step of q itself that reads no value.
LEMMA KeepsRight ==
    ASSUME TypeOK, VaultAgrees, UNCHANGED vault, NEW q \in Request, Right(q), Keeps(q),
           request[q].step # "unsent",
           request'[q].values = request[q].values,
           \/ request'[q].step \in {"sent", "denied", "threw"} /\ request'[q].left = request[q].left
           \/ request[q].step \in {"route", "resolve"},
           request'[q].step = "resolve" => SecureEnough(q),
           (request[q].step = "values" => PolicyHeld(q)) =>
               (request'[q].step = "values" => PolicyHeld(q)'),
           GoesRight(q)', Passes(q)'
    PROVE  Right(q)'
<1>1. UNCHANGED <<row, spoiled, hosts, gate, save, approval>>
  BY DEF vault
<1>2. ReadsAgree(q)'
  BY <1>1 DEF Keeps, Right, ReadsAgree, Landed
<1>3. (request[q].granted => Granted(request[q].names, request[q].host))'
  BY <1>1 DEF Keeps, Right, Granted, Saved
<1>4. AnswersSeen(q)'
  BY <1>1 DEF Keeps, Right, AnswersSeen
<1>5. request'[q].heard \subseteq Saved' /\ request'[q].host \in Host
  BY <1>1 DEF Keeps, Right, Saved
<1>6. (request[q].step = "resolve" => SecureEnough(q))'
  BY DEF Keeps, SecureEnough
<1>7. (request[q].step = "values" => PolicyHeld(q))'
  BY DEF Right
<1> QED BY <1>2, <1>3, <1>4, <1>5, <1>6, <1>7 DEF Right

LEMMA ReadRight ==
    ASSUME TypeOK, VaultAgrees, UNCHANGED vault, NEW q \in Request, Right(q),
           NEW c \in Credential, ReadValue(q, c)
    PROVE  Right(q)'
<1> DEFINE r == request[q]
           x == IF row[c] \in spoiled THEN NoSave ELSE row[c]
<1>0. UNCHANGED <<row, spoiled, hosts, gate, save, approval>>
  BY DEF vault
<1>1. /\ Keeps(q) /\ request'[q].step = "values"
      /\ request'[q].left = request[q].left \ {c} /\ request'[q].denial = request[q].denial
      /\ request'[q].values[c] = x
      /\ \A d \in Credential \ {c} : request'[q].values[d] = request[q].values[d]
  BY ReadEffect
<1>2. /\ request[q].step = "values" /\ c \in request[q].left /\ PolicyHeld(q)
      /\ request[q].names \subseteq Credential
      /\ c \in request[q].names
  BY DEF ReadValue, Right, TypeOK, RequestState, PolicyHeld
<1>3. row[c] # NoSave => Landed(row[c]) /\ save[row[c]].name = c
  BY DEF VaultAgrees, RowsAgree
<1>4. c \in request[q].names => row[c] # NoSave
  BY <1>2 DEF PolicyHeld
<1> HIDE DEF r
<1>5. ReadsAgree(q)'
  <2>1. ASSUME NEW d \in Credential, request'[q].values[d] # NoSave
        PROVE  /\ d \in request'[q].names \ request'[q].left
               /\ save[request'[q].values[d]].step \in {"written", "saved", "lost"}
               /\ save[request'[q].values[d]].name = d
    <3>1. CASE d = c
      BY <1>1, <1>2, <1>3, <2>1, <3>1 DEF Keeps, Landed, Right
    <3>2. CASE d # c
      BY <1>1, <2>1, <3>2 DEF Keeps, Right, ReadsAgree, Landed
    <3> QED BY <3>1, <3>2
  <2> QED BY <1>0, <1>1, <2>1 DEF ReadsAgree, Landed
<1>6. PolicyHeld(q)'
  <2>1. ASSUME NEW d \in request[q].names, d \notin request'[q].left,
               request'[q].values[d] = NoSave
        PROVE  \E w \in spoiled : save[w].name = d
    <3>1. CASE d = c
      BY <1>1, <1>3, <1>4, <2>1, <3>1 DEF TypeOK
    <3>2. CASE d # c
      BY <1>1, <1>2, <2>1, <3>2 DEF PolicyHeld
    <3> QED BY <3>1, <3>2
  <2> QED BY <1>0, <1>1, <1>2, <2>1 DEF PolicyHeld, Keeps, SecureEnough
<1>7. AnswersSeen(q)'
  <2>1. ASSUME NEW d \in request[q].names, NEW w \in request[q].heard, save[w].name = d
        PROVE  request'[q].values[d] \notin save[w].after
    <3>1. w \in Save /\ save[w].step = "saved" /\ save[w].after \subseteq Save
      BY SavedIsSaved DEF Right, TypeOK, SaveState
    <3>2. row[d] \notin save[w].after
      BY <2>1, <3>1 DEF VaultAgrees, RowsAgree
    <3>3. CASE d = c
      BY <1>1, <3>1, <3>2, <3>3
    <3>4. CASE d # c
      BY <1>1, <1>2, <2>1, <3>4 DEF Right, AnswersSeen
    <3> QED BY <3>3, <3>4
  <2> QED BY <1>0, <1>1, <2>1 DEF AnswersSeen, Keeps
<1>8. (request[q].granted => Granted(request[q].names, request[q].host))'
  BY <1>0, <1>1 DEF Keeps, Right, Granted, Saved
<1>9. Passes(q)' /\ GoesRight(q)'
  BY <1>0, <1>1 DEF Passes, Right, Keeps, GoesRight
<1>10. request'[q].heard \subseteq Saved' /\ request'[q].host \in Host
  BY <1>0, <1>1, <1>2 DEF Keeps, Right, Saved
<1> QED BY <1>1, <1>5, <1>6, <1>7, <1>8, <1>9, <1>10 DEF Right

LEMMA RouteRight ==
    ASSUME TypeOK, VaultAgrees, NEW q \in Request, Right(q), RouteStep(q)
    PROVE  UNCHANGED vault /\ Moves(q) /\ Right(q)'
<1>0. /\ UNCHANGED vault
      /\ UNCHANGED <<row, spoiled, hosts, gate, save, approval>>
      /\ request[q].step # "unsent"
  BY DEF RouteStep, RouteGoesOn, RouteInternal, RefuseOwnOrigin, SendPlain, RefuseInsecure, CallResolve,
         ResolvePolicy, ReadValue, RefuseUndecrypted, SendSubstituted, Throws, AllRead, vault
<1>1. /\ request[q] \in RequestState
      /\ request[q].names \in SUBSET Credential
      /\ request[q].host \in Host
  BY <1>0 DEF TypeOK, RequestState, Right
<1>2. CASE RouteInternal(q)
  <2>1. Moves(q) /\ Keeps(q) /\ Is(q, "internal", request[q].left, request[q].values, request[q].denial)
    BY <1>2, BecomeStep DEF RouteInternal
  <2>2. GoesRight(q)' /\ Passes(q)' /\ request[q].step = "route"
    BY <1>0, <1>2, <2>1 DEF GoesRight, Passes, Right, Keeps, Is, RouteInternal
  <2> QED BY <1>0, <2>1, <2>2, KeepsRight DEF Is
<1>3. CASE RefuseOwnOrigin(q) \/ RefuseInsecure(q)
  <2>1. PICK tag \in {"OwnOriginRefused", "InsecureTransport"} :
           Deny(q, tag)
    BY <1>3 DEF RefuseOwnOrigin, RefuseInsecure
  <2>2. Moves(q) /\ Keeps(q) /\ Is(q, "denied", request[q].left, request[q].values, tag)
    BY <2>1, DenyEffect DEF Denial
  <2>3. GoesRight(q)' /\ Passes(q)'
    BY <2>1, <2>2 DEF GoesRight, Passes, Is
  <2> QED BY <1>0, <2>2, <2>3, KeepsRight DEF Is
<1>4. CASE SendPlain(q)
  <2>1. Moves(q) /\ Keeps(q) /\ Is(q, "sent", request[q].left, request[q].values, request[q].denial)
    BY <1>4, BecomeStep DEF SendPlain
  <2>2. request[q].names = {} /\ \A c \in Credential : request[q].values[c] = NoSave
    BY <1>4 DEF SendPlain, Right, ReadsAgree
  <2>3. GoesRight(q)' /\ Passes(q)'
    BY <1>0, <2>1, <2>2 DEF GoesRight, Passes, Right, Keeps, Is
  <2> QED BY <1>0, <2>1, <2>3, KeepsRight DEF Is
<1>5. CASE CallResolve(q)
  <2>1. Moves(q) /\ Keeps(q) /\ Is(q, "resolve", request[q].left, request[q].values, request[q].denial)
    BY <1>5, BecomeStep DEF CallResolve
  <2>2. GoesRight(q)' /\ Passes(q)' /\ SecureEnough(q) /\ request[q].step = "route"
    BY <1>0, <1>5, <2>1 DEF GoesRight, Passes, Right, Keeps, Is, CallResolve
  <2> QED BY <1>0, <2>1, <2>2, KeepsRight DEF Is
<1>6. CASE ResolvePolicy(q)
  <2>1. request[q].step = "resolve" /\ SecureEnough(q)
    BY <1>6 DEF ResolvePolicy, Right
  <2>2. Moves(q) /\ Keeps(q)
    BY <1>6, PolicyEffect
  <2>3. request[q].granted =>
           Unknown(request[q].names) = {} /\ Unapproved(request[q].names, request[q].host) = {}
    BY <1>1, GrantedIsThere DEF Right
  <2>4. CASE /\ ~ request[q].granted
             /\ \E tag \in Denial : Is(q, "denied", request[q].left, request[q].values, tag)
    <3>1. GoesRight(q)' /\ Passes(q)'
      BY <2>2, <2>4 DEF GoesRight, Passes, Keeps, Is
    <3> QED BY <1>0, <2>1, <2>2, <2>4, <3>1, KeepsRight DEF Is
  <2>5. CASE /\ Unknown(request[q].names) = {}
             /\ Unapproved(request[q].names, request[q].host) = {}
             /\ Is(q, "values", request[q].names, request[q].values, request[q].denial)
    <3>1. \A c \in request[q].names : row[c] # NoSave /\ Lower[request[q].host] \in hosts[c]
      BY <2>5 DEF Unknown, Unapproved
    <3>2. PolicyHeld(q)'
      BY <1>0, <2>1, <2>2, <2>5, <3>1 DEF PolicyHeld, Keeps, Is, SecureEnough
    <3>3. GoesRight(q)' /\ Passes(q)'
      BY <1>0, <2>2, <2>5 DEF GoesRight, Passes, Right, Keeps, Is
    <3> QED BY <1>0, <2>1, <2>2, <2>5, <3>2, <3>3, KeepsRight DEF Is
  <2> QED BY <1>6, <2>2, <2>3, <2>4, <2>5, PolicyEffect DEF Denial
<1>7. ASSUME NEW c \in Credential, ReadValue(q, c) PROVE Moves(q) /\ Right(q)'
  BY <1>0, <1>7, ReadEffect, ReadRight
<1>8. CASE RefuseUndecrypted(q)
  <2>1. Moves(q) /\ Keeps(q) /\ Is(q, "denied", request[q].left, request[q].values, "UnknownCredential")
    BY <1>8, DenyEffect DEF RefuseUndecrypted, Denial
  <2>2. PICK c \in request[q].names : request[q].values[c] = NoSave
    BY <1>8 DEF RefuseUndecrypted
  <2>3. PICK w \in spoiled : save[w].name = c
    BY <1>8, <2>2 DEF RefuseUndecrypted, AllRead, Right, PolicyHeld
  <2>4. GoesRight(q)' /\ Passes(q)'
    BY <1>0, <2>1, <2>3 DEF GoesRight, Passes, Keeps, Is
  <2> QED BY <1>0, <2>1, <2>4, KeepsRight DEF Is
<1>9. CASE SendSubstituted(q)
  <2>1. Moves(q) /\ Keeps(q) /\ Is(q, "sent", request[q].left, request[q].values, request[q].denial)
    BY <1>9, BecomeStep DEF SendSubstituted
  <2>2. /\ PolicyHeld(q) /\ ReadsAgree(q)
        /\ \A c \in request[q].names : request[q].values[c] # NoSave
    BY <1>9 DEF SendSubstituted, AllRead, Right
  <2>3. GoesRight(q)'
    BY <1>0, <1>1, <2>1, <2>2 DEF GoesRight, PolicyHeld, ReadsAgree, Keeps, Is, SecureEnough
  <2>4. Passes(q)'
    BY <1>0, <2>1 DEF Passes, Right, Keeps, Is
  <2> QED BY <1>0, <2>1, <2>3, <2>4, KeepsRight DEF Is
<1>10. CASE Throws(q)
  <2>1. Moves(q) /\ Keeps(q) /\ Is(q, "threw", request[q].left, request[q].values, request[q].denial)
    BY <1>10, BecomeStep DEF Throws
  <2>2. GoesRight(q)' /\ Passes(q)'
    BY <1>0, <2>1 DEF GoesRight, Passes, Right, Keeps, Is
  <2> QED BY <1>0, <2>1, <2>2, KeepsRight DEF Is
<1> QED BY <1>0, <1>2, <1>3, <1>4, <1>5, <1>6, <1>7, <1>8, <1>9, <1>10 DEF RouteStep, RouteGoesOn

LEMMA SendRight ==
    ASSUME TypeOK, VaultAgrees, NEW q \in Request, NEW names \in SUBSET Credential, NEW h \in Host,
           NEW secure \in BOOLEAN, Send(q, names, h, secure)
    PROVE  UNCHANGED vault /\ Moves(q) /\ Right(q)'
<1>1. UNCHANGED vault /\ UNCHANGED <<row, spoiled, hosts, gate, save, approval>>
  BY DEF Send, vault
<1>2. /\ Moves(q) /\ Is(q, "route", {}, NoValues, NoDenial)
      /\ request'[q].names = names /\ request'[q].host = h
      /\ request'[q].heard = SavedOf(names) /\ request'[q].granted = Granted(names, h)
  BY SendEffect
<1>3. \A c \in Credential : request'[q].values[c] = NoSave
  BY <1>2 DEF Is, NoValues
<1>4. ReadsAgree(q)' /\ GoesRight(q)'
  BY <1>2, <1>3 DEF ReadsAgree, GoesRight, Is
<1>5. AnswersSeen(q)'
  <2>1. ASSUME NEW c \in names, NEW w \in Saved PROVE NoSave \notin save[w].after
    BY SavedIsSaved DEF TypeOK, SaveState
  <2> QED BY <1>1, <1>2, <1>3, <2>1 DEF AnswersSeen, SavedOf
<1>6. Passes(q)'
  BY <1>2, EgressAssumption DEF Passes, Is
<1>7. (request[q].granted => Granted(request[q].names, request[q].host))'
  <2>1. request'[q].granted => Granted(names, h)
    BY <1>2
  <2>2. request'[q].names = names /\ request'[q].host = h
    BY <1>2
  <2> QED BY <1>1, <2>1, <2>2 DEF Granted, Saved
<1>8. request'[q].heard \subseteq Saved' /\ request'[q].host \in Host
  BY <1>1, <1>2 DEF SavedOf, Saved
<1> QED BY <1>1, <1>2, <1>4, <1>5, <1>6, <1>7, <1>8 DEF Right, Is

\* Only what is bound for the network is taken to the vault.
LEMMA OutStaysOut ==
    ASSUME TypeOK, AskersGoOut, NEW q \in Request, RouteStep(q)
    PROVE  AskersGoOut'
<1>1. ASSUME Moves(q), Keeps(q),
             request'[q].step \in {"resolve", "values"} => ~ Internal(q) /\ ~ OwnOrigin(q)
      PROVE  AskersGoOut'
  BY <1>1 DEF AskersGoOut, Moves, Keeps, Internal, OwnOrigin
<1>2. CASE RouteInternal(q) \/ SendPlain(q) \/ Throws(q) \/ SendSubstituted(q)
  <2>1. PICK step \in {"internal", "sent", "threw"} : Become(q, [request[q] EXCEPT !.step = step])
    BY <1>2 DEF RouteInternal, SendPlain, Throws, SendSubstituted
  <2>2. Moves(q) /\ Keeps(q) /\ request'[q].step = step
    BY <2>1, BecomeStep DEF Is
  <2> QED BY <1>1, <2>2
<1>3. CASE RefuseOwnOrigin(q) \/ RefuseInsecure(q) \/ RefuseUndecrypted(q)
  <2>1. PICK tag \in Denial : Deny(q, tag)
    BY <1>3 DEF RefuseOwnOrigin, RefuseInsecure, RefuseUndecrypted, Denial
  <2>2. Moves(q) /\ Keeps(q) /\ request'[q].step = "denied"
    BY <2>1, DenyEffect DEF Is
  <2> QED BY <1>1, <2>2
<1>4. CASE CallResolve(q)
  BY <1>1, <1>4, BecomeStep DEF CallResolve
<1>5. CASE ResolvePolicy(q)
  BY <1>1, <1>5, PolicyEffect DEF ResolvePolicy, AskersGoOut
<1>6. ASSUME NEW c \in Credential, ReadValue(q, c) PROVE AskersGoOut'
  BY <1>1, <1>6, ReadEffect DEF ReadValue, AskersGoOut
<1> QED BY <1>2, <1>3, <1>4, <1>5, <1>6 DEF RouteStep, RouteGoesOn

LEMMA SendGoesOut ==
    ASSUME TypeOK, AskersGoOut, NEW q \in Request, NEW names \in SUBSET Credential, NEW h \in Host,
           NEW secure \in BOOLEAN, Send(q, names, h, secure)
    PROVE  AskersGoOut'
<1>1. /\ Moves(q) /\ Is(q, "route", {}, NoValues, NoDenial)
      /\ request'[q].names = names /\ request'[q].host = h
      /\ request'[q].heard = SavedOf(names) /\ request'[q].granted = Granted(names, h)
  BY SendEffect
<1>2. request'[q].step = "route"
  BY <1>1 DEF Is
<1> QED BY <1>1, <1>2 DEF AskersGoOut, Moves, Internal, OwnOrigin

----------------------------------------------------------------------------
(* The invariant                                                           *)

LEMMA InitIInv == Init => IInv
<1> SUFFICES ASSUME Init PROVE IInv
  OBVIOUS
<1> USE EgressAssumption DEF Init, VaultInit
<1>1. TypeOK
  BY DEF TypeOK, SaveState, ApprovalState, RequestState, NoValues
<1>2. CallsAgree
  BY DEF CallsAgree, Saved
<1>3. RowsAgree
  BY DEF RowsAgree
<1>4. ApprovalsAreKept
  BY DEF ApprovalsAreKept
<1>5. ASSUME NEW q \in Request PROVE Right(q)
  <2>1. /\ request[q].step = "unsent" /\ request[q].denial = NoDenial /\ ~ request[q].granted
        /\ request[q].names = {} /\ request[q].heard = {}
        /\ \A c \in Credential : request[q].values[c] = NoSave
    BY DEF NoValues
  <2> QED BY <2>1 DEF Right, ReadsAgree, AnswersSeen, GoesRight, Passes
<1>6. AskersGoOut
  BY DEF AskersGoOut
<1> QED BY <1>1, <1>2, <1>3, <1>4, <1>5, <1>6, IInvParts DEF VaultAgrees

LEMMA StepIInv == IInv /\ [Next]_vars => IInv'
<1> SUFFICES ASSUME IInv, [Next]_vars PROVE IInv'
  OBVIOUS
<1>0. TypeOK /\ VaultAgrees /\ AskersGoOut /\ \A q \in Request : Right(q)
  BY IInvParts
<1>1. ASSUME VaultTypeOK', VaultAgrees', request' \in [Request -> RequestState],
             AskersGoOut', \A q \in Request : Right(q)'
      PROVE  IInv'
  BY <1>1 DEF VaultTypeOK, TypeOK, IInv, VaultAgrees, Right, RequestsAgree, AnswersSeen,
              GoesRight, Passes, AnsweredSavesAreSeen, ValuesGoWhereApproved, GrantedRequestsPass
<1>2. ASSUME VaultTypeOK', VaultPersists, VaultAgrees', request' = request PROVE IInv'
  <2>1. \A q \in Request : Right(q)'
    BY <1>0, <1>2, RestsRight
  <2>2. AskersGoOut'
    BY <1>0, <1>2 DEF AskersGoOut, Internal, OwnOrigin
  <2> QED BY <1>0, <1>1, <1>2, <2>1, <2>2 DEF TypeOK
<1>3. ASSUME NEW q \in Request, UNCHANGED vault, Moves(q), AskersGoOut', Right(q)' PROVE IInv'
  <2>1. VaultTypeOK' /\ VaultPersists /\ VaultAgrees'
    BY <1>0, <1>3, VaultRests
  <2>2. ASSUME NEW p \in Request PROVE Right(p)'
    <3>1. CASE p = q
      BY <1>3, <3>1
    <3>2. CASE p # q
      BY <1>0, <1>3, <2>1, <3>2, RestsRight DEF Moves
    <3> QED BY <3>1, <3>2
  <2> QED BY <1>1, <1>3, <2>1, <2>2 DEF Moves
<1>4. CASE VaultStep /\ UNCHANGED request
  BY <1>0, <1>2, <1>4, VaultStepAgrees
<1>5. ASSUME NEW q \in Request, RouteStep(q) PROVE IInv'
  BY <1>0, <1>3, <1>5, RouteRight, OutStaysOut
<1>6. ASSUME NEW q \in Request, NEW names \in SUBSET Credential, NEW h \in Host,
             NEW secure \in BOOLEAN, Send(q, names, h, secure)
      PROVE  IInv'
  BY <1>0, <1>3, <1>6, SendRight, SendGoesOut
<1>7. CASE UNCHANGED vars
  <2>1. UNCHANGED vault /\ UNCHANGED request
    BY <1>7 DEF vars, vault
  <2> QED BY <1>0, <1>2, <2>1, VaultRests
<1> QED BY <1>4, <1>5, <1>6, <1>7 DEF Next

----------------------------------------------------------------------------
(* Theorems                                                                *)

\* However saves, approvals, spoiled rows and requests interleave, the
\* invariant of Egress holds.
THEOREM Invariance == Spec => []IInv
  BY InitIInv, StepIInv, PTL DEF Spec

\* What goes out carries the values of all its credentials or of none, over a
\* secure transport, to a host approved for each (OwnerVault.ts:85-135).
THEOREM ValuesStayHome == Spec => []ValuesGoWhereApproved
<1>1. IInv => ValuesGoWhereApproved
  BY DEF IInv
<1> QED BY <1>1, Invariance, PTL

\* No request uses a value that an answered save had replaced before the
\* request was sent (CredentialStore.ts:98-117).
THEOREM AnsweredSaves == Spec => []AnsweredSavesAreSeen
<1>1. IInv => AnsweredSavesAreSeen
  BY DEF IInv
<1> QED BY <1>1, Invariance, PTL

\* Approvals that read and write one list lose none of each other
\* (HostPolicy.ts:25-33).
THEOREM ApprovalsStay == Spec => []ApprovalsAreKept
<1>1. IInv => ApprovalsAreKept
  BY DEF IInv
<1> QED BY <1>1, Invariance, PTL

\* A request that had been granted all it needs is not turned back to the
\* operator, unless a row of it does not decrypt (OwnerVault.ts:92-106).
THEOREM GrantedPass == Spec => []GrantedRequestsPass
<1>1. IInv => GrantedRequestsPass
  BY DEF IInv
<1> QED BY <1>1, Invariance, PTL

----------------------------------------------------------------------------
(* Egress implements EgressContract.                                       *)

\* What the contract sees of the operator's saves.
LEMMA SavesSeen ==
    /\ \A c : Contract!ToldOf(c) = SavedOf({c})
    /\ \A c : Contract!SaveOf(c) = {w \in Save : save[w].step # "uncalled" /\ save[w].name = c}
    /\ Contract!NoValues = NoValues
<1>1. \A w \in Save : /\ SavesMap[w].name = save[w].name
                      /\ SavesMap[w].step = "told" <=> save[w].step = "saved"
                      /\ SavesMap[w].step # "uncalled" <=> save[w].step # "uncalled"
  BY DEF SavesMap, SaveSeen
<1>2. ASSUME NEW c PROVE Contract!ToldOf(c) = SavedOf({c})
  BY <1>1 DEF Contract!ToldOf, SavedOf, Saved
<1>3. ASSUME NEW c
      PROVE  Contract!SaveOf(c) = {w \in Save : save[w].step # "uncalled" /\ save[w].name = c}
  BY <1>1 DEF Contract!SaveOf
<1>4. Contract!NoValues = NoValues
  BY DEF Contract!NoValues, NoValues
<1> QED BY <1>2, <1>3, <1>4

LEMMA ContractInit == Init => Contract!Init
<1> SUFFICES ASSUME Init PROVE Contract!Init
  OBVIOUS
<1>1. SavesMap = [w \in Save |-> [step |-> "uncalled", name |-> NoCredential, after |-> {}]]
  BY DEF Init, VaultInit, SavesMap, SaveSeen
<1>2. AskedMap = [q \in Request |->
         [answer |-> "unsent", names |-> {}, host |-> NoHost, secure |-> FALSE, heard |-> {},
          values |-> NoValues]]
  BY DEF Init, AskedMap, RequestSeen, AnswerSeen
<1>3. hosts = [c \in Credential |-> {}] /\ spoiled = {}
  BY DEF Init, VaultInit
<1> QED BY <1>1, <1>2, <1>3, SavesSeen DEF Contract!Init

\* What stays hidden changes nothing the contract knows.
Hides == UNCHANGED <<SavesMap, spoiled, hosts, AskedMap>>

LEMMA RequestRests == request' = request => AskedMap' = AskedMap
  BY DEF AskedMap, RequestSeen, AnswerSeen, NoValues

LEMMA SavesRest == save' = save => SavesMap' = SavesMap
  BY DEF SavesMap, SaveSeen

LEMMA SaveContract ==
    ASSUME TypeOK, NEW w \in Save, UNCHANGED request,
           SaveStep(w) \/ \E c \in Credential : SaveCalled(w, c)
    PROVE  Contract!Next \/ Hides
<1>1. SaveMoves(w) /\ UNCHANGED <<spoiled, hosts, AskedMap>>
  BY SaveEffect, RequestRests
<1>2. SavesMap' = [SavesMap EXCEPT ![w] = SaveSeen(save'[w])]
  BY <1>1 DEF SaveMoves, SavesMap, SaveSeen
<1>3. SavesMap[w] = SaveSeen(save[w])
  BY DEF SavesMap
<1>4. CASE save[w].step = "uncalled" /\ \E c \in Credential : SaveIs(w, "encrypting", c, SavedOf({c}))
  <2>1. PICK c \in Credential : SaveIs(w, "encrypting", c, SavedOf({c}))
    BY <1>4
  <2>2. SaveSeen(save'[w]) = [step |-> "called", name |-> c, after |-> SavedOf({c})]
    BY <2>1 DEF SaveIs, SaveSeen
  <2>3. SavedOf({c}) = Contract!ToldOf(c)
    BY SavesSeen
  <2>4. SavesMap[w].step = "uncalled"
    BY <1>3, <1>4 DEF SaveSeen
  <2>5. Contract!CallSave(w, c)
    BY <1>1, <1>2, <2>2, <2>3, <2>4 DEF Contract!CallSave
  <2> QED BY <2>5 DEF Contract!Next
<1>5. CASE save[w].step = "written" /\ SaveIs(w, "saved", save[w].name, save[w].after)
  <2>1. SavesMap[w].step = "called"
    BY <1>3, <1>5 DEF SaveSeen
  <2>2. SaveSeen(save'[w]) = [SavesMap[w] EXCEPT !.step = "told"]
    BY <1>3, <1>5 DEF SaveIs, SaveSeen
  <2>3. Contract!TellSave(w)
    BY <1>1, <1>2, <2>1, <2>2 DEF Contract!TellSave
  <2> QED BY <2>3 DEF Contract!Next
<1>6. CASE /\ save[w].step \in {"encrypting", "written"}
           /\ \E step \in {"written", "lost"} : SaveIs(w, step, save[w].name, save[w].after)
  <2>1. SaveSeen(save'[w]) = SaveSeen(save[w])
    BY <1>6 DEF SaveIs, SaveSeen
  <2>2. SavesMap' = SavesMap
    BY <1>2, <1>3, <2>1 DEF SavesMap
  <2> QED BY <1>1, <2>2 DEF Hides
<1> QED BY <1>4, <1>5, <1>6, SaveEffect

LEMMA ApprovalContract ==
    ASSUME TypeOK, CallsAgree, NEW a \in Approval, UNCHANGED request,
           ApprovalStep(a) \/ \E c \in Credential, h \in Host : ApproveCalled(a, c, h)
    PROVE  Contract!Next \/ Hides
<1>1. UNCHANGED <<SavesMap, spoiled, AskedMap>>
  BY ApprovalEffect, SavesRest, RequestRests
<1>2. CASE UNCHANGED hosts
  BY <1>1, <1>2 DEF Hides
<1>3. CASE /\ approval[a].step = "read"
           /\ hosts' = [hosts EXCEPT ![approval[a].name] =
                 approval[a].existing \cup {Lower[approval[a].host]}]
  <2>1. /\ approval[a].name \in Credential /\ approval[a].host \in Host
        /\ approval[a].existing = hosts[approval[a].name]
    BY <1>3 DEF CallsAgree
  <2>2. hosts' = [hosts EXCEPT ![approval[a].name] = @ \cup {Lower[approval[a].host]}]
    BY <1>3, <2>1
  <2>3. Contract!Approve(approval[a].name, approval[a].host)
    BY <1>1, <2>2 DEF Contract!Approve
  <2> QED BY <2>1, <2>3 DEF Contract!Next
<1> QED BY <1>2, <1>3, ApprovalEffect

LEMMA VaultContract ==
    ASSUME TypeOK, VaultAgrees, VaultStep, UNCHANGED request
    PROVE  Contract!Next \/ Hides
<1>1. ASSUME NEW w \in Save, SaveStep(w) \/ \E c \in Credential : SaveCalled(w, c)
      PROVE  Contract!Next \/ Hides
  BY <1>1, SaveContract
<1>2. ASSUME NEW a \in Approval,
             ApprovalStep(a) \/ \E c \in Credential, h \in Host : ApproveCalled(a, c, h)
      PROVE  Contract!Next \/ Hides
  BY <1>2, ApprovalContract DEF VaultAgrees
<1>3. ASSUME NEW c \in Credential, RowSpoils(c) PROVE Contract!Next
  <2>1. /\ row[c] # NoSave /\ spoiled' = spoiled \cup {row[c]}
        /\ UNCHANGED <<SavesMap, hosts, AskedMap>>
    BY <1>3, SavesRest, RequestRests DEF RowSpoils
  <2>2. row[c] \in Save /\ Landed(row[c])
    BY <2>1 DEF TypeOK, VaultAgrees, RowsAgree
  <2>3. SavesMap[row[c]].step # "uncalled"
    BY <2>2 DEF SavesMap, SaveSeen, Landed
  <2>4. Contract!Spoil(row[c])
    BY <2>1, <2>3 DEF Contract!Spoil
  <2> QED BY <2>2, <2>4 DEF Contract!Next
<1> QED BY <1>1, <1>2, <1>3 DEF VaultStep

LEMMA RequestMoves ==
    ASSUME NEW q \in Request, Moves(q), UNCHANGED vault
    PROVE  /\ AskedMap' = [AskedMap EXCEPT ![q] = AskedMap'[q]]
           /\ AskedMap'[q] = RequestSeen(request'[q])
           /\ AskedMap[q] = RequestSeen(request[q])
           /\ UNCHANGED <<SavesMap, spoiled, hosts>>
<1>1. AskedMap' = [p \in Request |-> RequestSeen(request'[p])]
  BY DEF AskedMap, RequestSeen, AnswerSeen, NoValues
<1>2. \A p \in Request \ {q} : request'[p] = request[p]
  BY DEF Moves
<1>3. UNCHANGED <<SavesMap, spoiled, hosts>>
  BY SavesRest DEF vault
<1> QED BY <1>1, <1>2, <1>3 DEF AskedMap

\* An answer that the contract permits is a step of it.
LEMMA AnswerContract ==
    ASSUME NEW q \in Request, Moves(q), Keeps(q), UNCHANGED vault,
           request[q].step \in {"route", "resolve", "values"},
           NEW answer \in Contract!Answers, AnswerSeen(request'[q]) = answer,
           Contract!Permits(q, answer),
           RequestSeen(request'[q]).values \in Contract!Carries(q, answer)
    PROVE  Contract!Next
<1> DEFINE values == RequestSeen(request'[q]).values
<1>1. /\ AskedMap' = [AskedMap EXCEPT ![q] = AskedMap'[q]]
      /\ AskedMap'[q] = RequestSeen(request'[q])
      /\ AskedMap[q] = RequestSeen(request[q])
      /\ UNCHANGED <<SavesMap, spoiled, hosts>>
  BY RequestMoves
<1>2. AskedMap[q].answer = "awaited"
  BY <1>1 DEF RequestSeen, AnswerSeen
<1>3. AskedMap'[q] = [AskedMap[q] EXCEPT !.answer = answer, !.values = values]
  <2> DEFINE Field == {"answer", "names", "host", "secure", "heard", "values"}
             old == RequestSeen(request[q])
             new == RequestSeen(request'[q])
  <2>1. old = [f \in Field |-> old[f]] /\ new = [f \in Field |-> new[f]]
    BY DEF RequestSeen
  <2>2. /\ new.names = old.names /\ new.host = old.host /\ new.secure = old.secure
        /\ new.heard = old.heard /\ new.answer = answer /\ new.values = values
    BY DEF Keeps, RequestSeen
  <2> HIDE DEF values, old, new
  <2>3. [old EXCEPT !.answer = answer, !.values = values] =
           [f \in Field |-> IF f = "answer" THEN answer ELSE IF f = "values" THEN values ELSE old[f]]
    BY <2>1
  <2>4. new = [old EXCEPT !.answer = answer, !.values = values]
    BY <2>1, <2>2, <2>3
  <2> QED BY <1>1, <2>4 DEF old, new
<1>4. AskedMap' = [AskedMap EXCEPT ![q] = [@ EXCEPT !.answer = answer, !.values = values]]
  BY <1>1, <1>3 DEF AskedMap
<1>5. Contract!Answer(q, answer)
  BY <1>1, <1>2, <1>4 DEF Contract!Answer
<1> QED BY <1>5 DEF Contract!Next

\* The policy of the contract, in the words of Egress.
LEMMA PermitsSeen ==
    ASSUME NEW q \in Request
    PROVE  /\ Contract!Permits(q, "threw")
           /\ Internal(q) => Contract!Permits(q, "internal")
           /\ OwnOrigin(q) => Contract!Permits(q, "OwnOriginRefused")
           /\ ~ Internal(q) /\ ~ OwnOrigin(q) =>
                 /\ request[q].names # {} /\ ~ SecureEnough(q) =>
                       Contract!Permits(q, "InsecureTransport")
                 /\ /\ SecureEnough(q)
                    /\ \E c \in request[q].names :
                          Contract!ToldOf(c) = {} \/ Contract!SaveOf(c) \cap spoiled # {}
                    => Contract!Permits(q, "UnknownCredential")
                 /\ /\ SecureEnough(q)
                    /\ \A c \in request[q].names : Contract!SaveOf(c) # {}
                    /\ \E c \in request[q].names : Lower[request[q].host] \notin hosts[c]
                    => Contract!Permits(q, "HostNotApproved")
                 /\ /\ SecureEnough(q) \/ request[q].names = {}
                    /\ \A c \in request[q].names : Lower[request[q].host] \in hosts[c]
                    => Contract!Permits(q, "sent")
<1>1. /\ AskedMap[q].names = request[q].names /\ AskedMap[q].host = request[q].host
      /\ AskedMap[q].secure = request[q].secure
  BY DEF AskedMap, RequestSeen
<1> QED BY <1>1, Zenon DEF Contract!Permits, Internal, OwnOrigin, SecureEnough

\* A row that has been written is a save that the contract knows.
LEMMA RowIsSaved ==
    ASSUME TypeOK, VaultAgrees, NEW c \in Credential
    PROVE  /\ row[c] # NoSave => Contract!SaveOf(c) # {}
           /\ row[c] = NoSave => Contract!ToldOf(c) = {}
<1>1. ASSUME row[c] # NoSave PROVE Contract!SaveOf(c) # {}
  <2>1. row[c] \in Save /\ Landed(row[c]) /\ save[row[c]].name = c
    BY <1>1 DEF TypeOK, VaultAgrees, RowsAgree
  <2>2. row[c] \in Contract!SaveOf(c)
    BY <2>1, SavesSeen DEF Landed
  <2> QED BY <2>2
<1>2. ASSUME row[c] = NoSave PROVE Contract!ToldOf(c) = {}
  <2>1. \A w \in SavedOf({c}) : FALSE
    BY <1>2 DEF SavedOf, Saved, VaultAgrees, RowsAgree
  <2> QED BY <2>1, SavesSeen
<1> QED BY <1>1, <1>2

LEMMA SentCarries ==
    ASSUME TypeOK, VaultAgrees, NEW q \in Request, Right(q),
           \A c \in request[q].names : c \notin request[q].left /\ request[q].values[c] # NoSave
    PROVE  request[q].values \in Contract!Carries(q, "sent")
<1>1. /\ request[q].values \in [Credential -> Save \cup {NoSave}]
      /\ request[q].heard \subseteq Save /\ request[q].names \subseteq Credential
  BY DEF TypeOK, RequestState
<1>2. AskedMap[q].names = request[q].names /\ AskedMap[q].heard = request[q].heard
  BY DEF AskedMap, RequestSeen
<1>3. \A u \in Save : SavesMap[u].name = save[u].name /\ SavesMap[u].after = save[u].after
  BY DEF SavesMap, SaveSeen
<1>4. ASSUME NEW c \in Credential PROVE request[q].values[c] \in Contract!Current(q, c)
  <2>1. CASE c \in request[q].names
    <3>1. request[q].values[c] \in Contract!SaveOf(c)
      <4>1. /\ request[q].values[c] \in Save /\ Landed(request[q].values[c])
            /\ save[request[q].values[c]].name = c
        BY <1>1, <2>1 DEF Right, ReadsAgree
      <4> QED BY <4>1, SavesSeen DEF Landed
    <3>2. \A u \in request[q].heard :
             SavesMap[u].name = c => request[q].values[c] \notin SavesMap[u].after
      BY <1>1, <1>3, <2>1 DEF Right, AnswersSeen
    <3> QED BY <1>2, <2>1, <3>1, <3>2 DEF Contract!Current
  <2>2. CASE c \notin request[q].names
    <3>1. request[q].values[c] = NoSave
      BY <2>2 DEF Right, ReadsAgree
    <3> QED BY <1>2, <2>2, <3>1 DEF Contract!Current
  <2> QED BY <2>1, <2>2
<1> QED BY <1>1, <1>4 DEF Contract!Carries

\* Every way a route ends is an answer that the contract permits then; the steps
\* before are its wait.
LEMMA RouteContract ==
    ASSUME TypeOK, VaultAgrees, AskersGoOut, NEW q \in Request, Right(q), RouteStep(q)
    PROVE  Contract!Next \/ Hides
<1>0. /\ UNCHANGED vault /\ Moves(q)
      /\ request[q].step \in {"route", "resolve", "values"}
      /\ request[q].names \subseteq Credential
  BY RouteRight DEF RouteStep, RouteGoesOn, RouteInternal, RefuseOwnOrigin, SendPlain, RefuseInsecure,
         CallResolve, ResolvePolicy, ReadValue, RefuseUndecrypted, SendSubstituted, Throws, AllRead,
         TypeOK, RequestState
\* An answer other than "sent" carries nothing.
<1>1. ASSUME Keeps(q), NEW answer \in Contract!Answers \ {"sent"}, request'[q].step # "sent",
             AnswerSeen(request'[q]) = answer, Contract!Permits(q, answer)
      PROVE  Contract!Next
  <2>1. RequestSeen(request'[q]).values = NoValues
    BY <1>1 DEF RequestSeen
  <2>2. Contract!Carries(q, answer) = {NoValues}
    BY <1>1, SavesSeen DEF Contract!Carries
  <2> QED BY <1>0, <1>1, <2>1, <2>2, AnswerContract
<1>2. ASSUME NEW tag \in Denial, Deny(q, tag), Contract!Permits(q, tag) PROVE Contract!Next
  <2>1. Keeps(q) /\ request'[q].step = "denied" /\ request'[q].denial = tag
    BY <1>2, DenyEffect DEF Is
  <2>2. AnswerSeen(request'[q]) = tag
    BY <2>1 DEF AnswerSeen
  <2>3. tag \in Contract!Answers \ {"sent"}
    BY DEF Contract!Answers, Denial
  <2> QED BY <1>1, <1>2, <2>1, <2>2, <2>3
<1>3. ASSUME Become(q, [request[q] EXCEPT !.step = "sent"]), Contract!Permits(q, "sent"),
             \A c \in request[q].names : c \notin request[q].left /\ request[q].values[c] # NoSave
      PROVE  Contract!Next
  <2>1. Keeps(q) /\ request'[q].step = "sent" /\ request'[q].values = request[q].values
    BY <1>3, BecomeStep DEF Is
  <2>2. AnswerSeen(request'[q]) = "sent"
    BY <2>1 DEF AnswerSeen
  <2>3. RequestSeen(request'[q]).values = request[q].values
    BY <2>1 DEF RequestSeen
  <2>4. "sent" \in Contract!Answers
    BY DEF Contract!Answers
  <2> QED BY <1>0, <1>3, <2>1, <2>2, <2>3, <2>4, SentCarries, AnswerContract
\* The contract does not see a request go on.
<1>4. ASSUME Keeps(q), request'[q].step \in {"resolve", "values"} PROVE Hides
  <2>1. RequestSeen(request'[q]) = RequestSeen(request[q])
    BY <1>0, <1>4 DEF RequestSeen, AnswerSeen, Keeps
  <2>2. AskedMap' = [AskedMap EXCEPT ![q] = AskedMap[q]] /\ UNCHANGED <<SavesMap, spoiled, hosts>>
    BY <1>0, <2>1, RequestMoves
  <2> QED BY <2>2 DEF AskedMap, Hides
<1>5. CASE RouteInternal(q)
  <2>1. Keeps(q) /\ request'[q].step = "internal" /\ Internal(q)
    BY <1>5, BecomeStep DEF RouteInternal, Is
  <2>2. AnswerSeen(request'[q]) = "internal" /\ "internal" \in Contract!Answers \ {"sent"}
    BY <2>1 DEF AnswerSeen, Contract!Answers
  <2> QED BY <1>1, <2>1, <2>2, PermitsSeen
<1>6. CASE Throws(q)
  <2>1. Keeps(q) /\ request'[q].step = "threw"
    BY <1>6, BecomeStep DEF Throws, Is
  <2>2. AnswerSeen(request'[q]) = "threw" /\ "threw" \in Contract!Answers \ {"sent"}
    BY <2>1 DEF AnswerSeen, Contract!Answers
  <2> QED BY <1>1, <2>1, <2>2, PermitsSeen
<1>7. CASE RefuseOwnOrigin(q)
  BY <1>2, <1>7, PermitsSeen DEF RefuseOwnOrigin, Denial
<1>8. CASE RefuseInsecure(q)
  BY <1>2, <1>8, PermitsSeen DEF RefuseInsecure, Denial
<1>9. CASE SendPlain(q)
  BY <1>3, <1>9, PermitsSeen DEF SendPlain
<1>10. CASE CallResolve(q)
  BY <1>4, <1>10, BecomeStep DEF CallResolve, Is
<1>11. ASSUME NEW c \in Credential, ReadValue(q, c) PROVE Hides
  BY <1>4, <1>11, ReadEffect
<1>12. CASE RefuseUndecrypted(q)
  <2>1. PICK c \in request[q].names : request[q].values[c] = NoSave
    BY <1>12 DEF RefuseUndecrypted
  <2>2. /\ ~ Internal(q) /\ ~ OwnOrigin(q) /\ SecureEnough(q)
        /\ \E w \in spoiled : save[w].name = c
    BY <1>12, <2>1 DEF RefuseUndecrypted, AllRead, Right, PolicyHeld, AskersGoOut
  <2>3. PICK w \in spoiled : save[w].name = c
    BY <2>2
  <2>4. w \in Contract!SaveOf(c)
    <3>1. w \in Save /\ c \in Credential
      BY <1>0, <2>1, <2>3 DEF TypeOK
    <3>2. save[w].step # "uncalled"
      BY <2>3, <3>1 DEF VaultAgrees, CallsAgree
    <3> QED BY <2>3, <3>1, <3>2, SavesSeen
  <2>5. Contract!SaveOf(c) \cap spoiled # {}
    BY <2>3, <2>4
  <2>6. Contract!Permits(q, "UnknownCredential")
    BY <2>1, <2>2, <2>5, PermitsSeen
  <2> QED BY <1>2, <1>12, <2>6 DEF RefuseUndecrypted, Denial
<1>13. CASE SendSubstituted(q)
  <2>1. /\ ~ Internal(q) /\ ~ OwnOrigin(q) /\ PolicyHeld(q)
        /\ Become(q, [request[q] EXCEPT !.step = "sent"])
        /\ \A c \in request[q].names : c \notin request[q].left /\ request[q].values[c] # NoSave
    BY <1>13 DEF SendSubstituted, AllRead, Right, AskersGoOut
  <2>2. Contract!Permits(q, "sent")
    BY <2>1, PermitsSeen DEF PolicyHeld
  <2> QED BY <1>3, <2>1, <2>2
<1>14. CASE ResolvePolicy(q)
  <2>1. ~ Internal(q) /\ ~ OwnOrigin(q) /\ SecureEnough(q)
    BY <1>14 DEF ResolvePolicy, Right, AskersGoOut
  <2>2. CASE Unknown(request[q].names) # {}
    <3>1. PICK c \in request[q].names : row[c] = NoSave
      BY <2>2 DEF Unknown
    <3>2. Contract!ToldOf(c) = {}
      BY <1>0, <3>1, RowIsSaved
    <3>3. Contract!Permits(q, "UnknownCredential")
      BY <2>1, <3>1, <3>2, PermitsSeen
    <3>4. Deny(q, "UnknownCredential")
      BY <1>14, <2>2 DEF ResolvePolicy
    <3> QED BY <1>2, <3>3, <3>4 DEF Denial
  <2>3. CASE Unknown(request[q].names) = {} /\ Unapproved(request[q].names, request[q].host) # {}
    <3>1. \A c \in request[q].names : Contract!SaveOf(c) # {}
      BY <1>0, <2>3, RowIsSaved DEF Unknown
    <3>2. \E c \in request[q].names : Lower[request[q].host] \notin hosts[c]
      BY <2>3 DEF Unapproved
    <3>3. Contract!Permits(q, "HostNotApproved")
      BY <2>1, <3>1, <3>2, PermitsSeen
    <3>4. Deny(q, "HostNotApproved")
      BY <1>14, <2>3 DEF ResolvePolicy
    <3> QED BY <1>2, <3>3, <3>4 DEF Denial
  <2>4. CASE Unknown(request[q].names) = {} /\ Unapproved(request[q].names, request[q].host) = {}
    BY <1>4, <1>14, <2>4, PolicyEffect DEF Is
  <2> QED BY <2>2, <2>3, <2>4
<1> QED BY <1>5, <1>6, <1>7, <1>8, <1>9, <1>10, <1>11, <1>12, <1>13, <1>14 DEF RouteStep, RouteGoesOn

LEMMA SendContract ==
    ASSUME TypeOK, NEW q \in Request, NEW names \in SUBSET Credential, NEW h \in Host,
           NEW secure \in BOOLEAN, Send(q, names, h, secure)
    PROVE  Contract!Next
<1>1. /\ Moves(q) /\ Is(q, "route", {}, NoValues, NoDenial)
      /\ request'[q].names = names /\ request'[q].host = h
      /\ request'[q].heard = SavedOf(names) /\ request'[q].granted = Granted(names, h)
  BY SendEffect
<1>2. UNCHANGED vault /\ request[q].step = "unsent" /\ request'[q].secure = secure
  BY DEF Send, Become, TypeOK
<1>3. UNION {Contract!ToldOf(c) : c \in names} = SavedOf(names)
  BY SavesSeen DEF SavedOf
<1>4. AskedMap[q].answer = "unsent"
  BY <1>2 DEF AskedMap, RequestSeen, AnswerSeen
<1>5. RequestSeen(request'[q]) =
         [answer |-> "awaited", names |-> names, host |-> h, secure |-> secure,
          heard |-> SavedOf(names), values |-> NoValues]
  BY <1>1, <1>2 DEF Is, RequestSeen, AnswerSeen
<1>6. /\ AskedMap' = [AskedMap EXCEPT ![q] = RequestSeen(request'[q])]
      /\ UNCHANGED <<SavesMap, spoiled, hosts>>
  BY <1>1, <1>2, RequestMoves
<1>7. Contract!Ask(q)
  BY <1>3, <1>4, <1>5, <1>6, SavesSeen DEF Contract!Ask
<1> QED BY <1>7 DEF Contract!Next

LEMMA ContractStep == IInv /\ [Next]_vars => [Contract!Next]_<<SavesMap, spoiled, hosts, AskedMap>>
<1> SUFFICES ASSUME IInv, [Next]_vars PROVE Contract!Next \/ Hides
  BY DEF Hides
<1>1. TypeOK /\ VaultAgrees /\ AskersGoOut /\ \A q \in Request : Right(q)
  BY IInvParts
<1>2. CASE VaultStep /\ UNCHANGED request
  BY <1>1, <1>2, VaultContract
<1>3. ASSUME NEW q \in Request, RouteStep(q) PROVE Contract!Next \/ Hides
  BY <1>1, <1>3, RouteContract
<1>4. ASSUME NEW q \in Request, NEW names \in SUBSET Credential, NEW h \in Host,
             NEW secure \in BOOLEAN, Send(q, names, h, secure)
      PROVE  Contract!Next
  BY <1>1, <1>4, SendContract
<1>5. CASE UNCHANGED vars
  BY <1>5, SavesRest, RequestRests DEF vars, Hides
<1> QED BY <1>2, <1>3, <1>4, <1>5 DEF Next

\* The gateway over the owner vault implements the contract in which a request
\* is judged, and its credentials read, at one moment (Gateway.ts:187-254,
\* OwnerVault.ts:93-136).
THEOREM Implementation == Spec => ContractSpec
  BY ContractInit, ContractStep, Invariance, PTL DEF Spec, ContractSpec, Contract!Spec
=============================================================================

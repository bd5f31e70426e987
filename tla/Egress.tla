------------------------------- MODULE Egress --------------------------------
(***************************************************************************)
(* The gateway's route for requests that go to the network, over the owner *)
(* vault (gateway/Gateway.ts from the count on, gateway/Placeholder.ts,    *)
(* gateway/Hosts.ts, resolveForHost of vault/OwnerVault.ts).  Gateway      *)
(* leaves a route's answer open; this says which it is while the operator  *)
(* saves credentials and approves hosts.  A request is known by the        *)
(* credentials its text names, its hostname and whether it is https on the *)
(* default port; a value by the save it came with.                         *)
(***************************************************************************)
EXTENDS OwnerVault

CONSTANTS
    Request,
    InternalHost, OwnHost,  \* opti.internal, and the server's own hostname
    Exempt,                 \* GATEWAY_INSECURE_HOSTS
    NoDenial,
    Asked                   \* what a sandbox may send, <<names, host, secure>>: bounds an instance

ASSUME EgressAssumption ==
    /\ InternalHost \in Host
    /\ OwnHost \in Host
    /\ InternalHost # OwnHost
    /\ Asked \subseteq (SUBSET Credential) \X Host \X BOOLEAN
    /\ Exempt \subseteq Host
    /\ NoDenial \notin {"OwnOriginRefused", "InsecureTransport", "UnknownCredential",
                        "HostNotApproved"}

VARIABLE request

vars == <<row, spoiled, hosts, gate, save, approval, request>>

Denial == {"OwnOriginRefused", "InsecureTransport", "UnknownCredential", "HostNotApproved"}

\* "route": counted; "resolve": resolveForHost is called; "values": past its
\* policy, `left` to be read; "internal": handed to the internal routes.
\* `heard` and `granted`: the saves of its names that were answered, and whether
\* all it needs had been granted, when the request was sent.
RequestState ==
    [step    : {"unsent", "route", "resolve", "values", "internal", "sent", "denied", "threw"},
     names   : SUBSET Credential,
     host    : Host \cup {NoHost},
     secure  : BOOLEAN,
     left    : SUBSET Credential,
     values  : [Credential -> Save \cup {NoSave}],
     denial  : Denial \cup {NoDenial},
     heard   : SUBSET Save,
     granted : BOOLEAN]

NoValues == [c \in Credential |-> NoSave]

Init ==
    /\ VaultInit
    /\ request = [q \in Request |->
          [step |-> "unsent", names |-> {}, host |-> NoHost, secure |-> FALSE, left |-> {},
           values |-> NoValues, denial |-> NoDenial, heard |-> {}, granted |-> FALSE]]

Become(q, r) == request' = [request EXCEPT ![q] = r]

Deny(q, tag) == Become(q, [request[q] EXCEPT !.step = "denied", !.denial = tag])

\* Every name has an answered save, and an answered approval for the host.
Granted(names, h) ==
    \A c \in names :
        /\ \E w \in Saved : save[w].name = c
        /\ \E a \in Approval :
              approval[a].step = "approved" /\ approval[a].name = c
                                           /\ Lower[approval[a].host] = Lower[h]

----------------------------------------------------------------------------
\* The sandbox sends q, and it is counted.  A URL has its hostname in lower case.
Send(q, names, h, secure) ==
    /\ request[q].step = "unsent"
    /\ h = Lower[h]
    /\ <<names, h, secure>> \in Asked
    /\ Become(q, [step |-> "route", names |-> names, host |-> h, secure |-> secure, left |-> {},
                  values |-> NoValues, denial |-> NoDenial, heard |-> SavedOf(names),
                  granted |-> Granted(names, h)])
    /\ UNCHANGED vault

Internal(q) == Lower[request[q].host] = InternalHost

OwnOrigin(q) == Lower[request[q].host] = OwnHost

SecureEnough(q) == request[q].secure \/ Lower[request[q].host] \in Exempt

\* The reserved hostname comes before any placeholder is looked for.
RouteInternal(q) ==
    /\ request[q].step = "route"
    /\ Internal(q)
    /\ Become(q, [request[q] EXCEPT !.step = "internal"])
    /\ UNCHANGED vault

RefuseOwnOrigin(q) ==
    /\ request[q].step = "route"
    /\ ~ Internal(q) /\ OwnOrigin(q)
    /\ Deny(q, "OwnOriginRefused")
    /\ UNCHANGED vault

\* No credential, no policy.
SendPlain(q) ==
    /\ request[q].step = "route"
    /\ ~ Internal(q) /\ ~ OwnOrigin(q)
    /\ request[q].names = {}
    /\ Become(q, [request[q] EXCEPT !.step = "sent"])
    /\ UNCHANGED vault

RefuseInsecure(q) ==
    /\ request[q].step = "route"
    /\ ~ Internal(q) /\ ~ OwnOrigin(q)
    /\ request[q].names # {} /\ ~ SecureEnough(q)
    /\ Deny(q, "InsecureTransport")
    /\ UNCHANGED vault

CallResolve(q) ==
    /\ request[q].step = "route"
    /\ ~ Internal(q) /\ ~ OwnOrigin(q)
    /\ request[q].names # {} /\ SecureEnough(q)
    /\ Become(q, [request[q] EXCEPT !.step = "resolve"])
    /\ UNCHANGED vault

\* Mutant: the hosts are looked at first.
ResolvePolicyHostsFirst(q) ==
    /\ request[q].step = "resolve"
    /\ gate = Open
    /\ LET names == request[q].names
       IN IF Unapproved(names, request[q].host) # {} THEN Deny(q, "HostNotApproved")
          ELSE IF Unknown(names) # {} THEN Deny(q, "UnknownCredential")
          ELSE Become(q, [request[q] EXCEPT !.step = "values", !.left = names])
    /\ UNCHANGED vault

\* The policy, for all names before any value is read; an unsaved credential
\* outranks a host that is not approved.
ResolvePolicy(q) ==
    /\ request[q].step = "resolve"
    /\ gate = Open
    /\ LET names   == request[q].names
           missing == Unapproved(names, request[q].host) \ Unknown(names)
       IN IF Unknown(names) # {} THEN Deny(q, "UnknownCredential")
          ELSE IF missing # {} THEN Deny(q, "HostNotApproved")
          ELSE Become(q, [request[q] EXCEPT !.step = "values", !.left = names])
    /\ UNCHANGED vault

\* One row is read and decrypted in the open; one that does not decrypt
\* counts as if it had never been saved.
ReadValue(q, c) ==
    /\ request[q].step = "values"
    /\ c \in request[q].left
    /\ gate = Open
    /\ Become(q, [request[q] EXCEPT
          !.left = @ \ {c},
          !.values = [@ EXCEPT ![c] = IF row[c] \in spoiled THEN NoSave ELSE row[c]]])
    /\ UNCHANGED vault

AllRead(q) ==
    /\ request[q].step = "values"
    /\ request[q].left = {}

RefuseUndecrypted(q) ==
    /\ AllRead(q)
    /\ \E c \in request[q].names : request[q].values[c] = NoSave
    /\ Deny(q, "UnknownCredential")
    /\ UNCHANGED vault

\* Every placeholder is substituted, and the request goes out.
SendSubstituted(q) ==
    /\ AllRead(q)
    /\ \A c \in request[q].names : request[q].values[c] # NoSave
    /\ Become(q, [request[q] EXCEPT !.step = "sent"])
    /\ UNCHANGED vault

\* Reading the body or the call of resolveForHost rejects.
Throws(q) ==
    /\ request[q].step \in {"route", "resolve", "values"}
    /\ Become(q, [request[q] EXCEPT !.step = "threw"])
    /\ UNCHANGED vault

----------------------------------------------------------------------------
RouteGoesOn(q) ==
    \/ RouteInternal(q) \/ RefuseOwnOrigin(q) \/ SendPlain(q) \/ RefuseInsecure(q)
    \/ CallResolve(q) \/ ResolvePolicy(q) \/ \E c \in Credential : ReadValue(q, c)
    \/ RefuseUndecrypted(q) \/ SendSubstituted(q)

RouteStep(q) == RouteGoesOn(q) \/ Throws(q)

Next ==
    \/ VaultStep /\ UNCHANGED request
    \/ \E q \in Request :
          \/ RouteStep(q)
          \/ \E names \in SUBSET Credential, h \in Host, secure \in BOOLEAN :
                Send(q, names, h, secure)

Spec == Init /\ [][Next]_vars

----------------------------------------------------------------------------
(* Properties                                                              *)

TypeOK ==
    /\ row \in [Credential -> Save \cup {NoSave}]
    /\ spoiled \subseteq Save
    /\ hosts \in [Credential -> SUBSET Host]
    /\ gate \in Approval \cup {Open}
    /\ save \in [Save -> SaveState]
    /\ approval \in [Approval -> ApprovalState]
    /\ request \in [Request -> RequestState]

\* A request goes out with the values of all the credentials it names or of
\* none, each a value saved under that name, and then only over a secure
\* transport to a host approved for every one of them, although values are
\* read one after the other while saves and approvals go on
\* (OwnerVault.ts:103-136, Gateway.ts:219-251).
ValuesGoWhereApproved ==
    \A q \in Request : request[q].step = "sent" =>
        \A c \in Credential :
            IF c \in request[q].names
            THEN /\ request[q].values[c] # NoSave
                 /\ save[request[q].values[c]].name = c
                 /\ Lower[request[q].host] \in hosts[c]
                 /\ SecureEnough(q)
            ELSE request[q].values[c] = NoSave

\* No request uses a value that had been replaced before it was sent: if the
\* operator was answered that a save is done, and that save was called after
\* another of its name had been answered, the older value is gone for every
\* later request - although of two saves under way either may write last
\* (CredentialStore.ts:105-127).
AnsweredSavesAreSeen ==
    \A q \in Request : \A c \in request[q].names :
        \A w \in request[q].heard :
            save[w].name = c => request[q].values[c] \notin save[w].after

\* An approval the operator was told of stays, whatever other approvals read
\* and wrote at the time, and there is no host nobody approved
\* (HostPolicy.ts:27-34).
ApprovalsAreKept ==
    /\ \A a \in Approval : approval[a].step \in {"written", "approved"} =>
          Lower[approval[a].host] \in hosts[approval[a].name]
    /\ \A c \in Credential : \A h \in hosts[c] : \E a \in Approval :
          approval[a].name = c /\ Lower[approval[a].host] = h

\* A request that names only what had been granted to its host before it was
\* sent is not turned back to the operator, unless a row it needs does not
\* decrypt (OwnerVault.ts:106-116).
GrantedRequestsPass ==
    \A q \in Request :
        request[q].granted /\ request[q].denial \in {"UnknownCredential", "HostNotApproved"} =>
            \E w \in spoiled : save[w].name \in request[q].names

----------------------------------------------------------------------------
(* The inductive invariant                                                 *)

\* The operator's calls, and the gate between an approval's two halves.
CallsAgree ==
    /\ \A w \in Save :
          /\ save[w].step # "uncalled" <=> save[w].name \in Credential
          /\ save[w].after \subseteq Saved
    /\ \A a \in Approval :
          /\ approval[a].step # "uncalled" <=> approval[a].name \in Credential
          /\ approval[a].step # "uncalled" => approval[a].host \in Host
          /\ approval[a].step = "read" =>
                gate = a /\ approval[a].existing = hosts[approval[a].name]

Landed(w) == save[w].step \in {"written", "saved", "lost"}

\* A row holds what was written last: a save under its name, and none that
\* had been answered before one that is written was called.
RowsAgree ==
    /\ \A c \in Credential : row[c] # NoSave => Landed(row[c]) /\ save[row[c]].name = c
    /\ \A w \in Save : save[w].step \in {"written", "saved"} =>
          row[save[w].name] # NoSave /\ row[save[w].name] \notin save[w].after

\* What a request has read is a value of a credential it names.
ReadsAgree(q) ==
    \A c \in Credential : request[q].values[c] # NoSave =>
        /\ c \in request[q].names \ request[q].left
        /\ request[q].step \in {"values", "sent", "denied", "threw"}
        /\ Landed(request[q].values[c])
        /\ save[request[q].values[c]].name = c

\* Past the policy all names are saved and approved for good, and a name
\* without a value has yet to be read, or did not decrypt.
PolicyHeld(q) ==
    /\ SecureEnough(q)
    /\ request[q].left \subseteq request[q].names
    /\ \A c \in request[q].names :
          /\ row[c] # NoSave
          /\ Lower[request[q].host] \in hosts[c]
          /\ c \notin request[q].left /\ request[q].values[c] = NoSave =>
                \E w \in spoiled : save[w].name = c

RequestsAgree ==
    \A q \in Request :
        /\ ReadsAgree(q)
        /\ request[q].step = "resolve" => SecureEnough(q)
        /\ request[q].step = "values" => PolicyHeld(q)
        /\ request[q].step # "unsent" => request[q].host \in Host
        /\ request[q].heard \subseteq Saved
        /\ request[q].granted => Granted(request[q].names, request[q].host)

\* Who gets as far as the vault is bound for the network.
AskersGoOut ==
    \A q \in Request : request[q].step \in {"resolve", "values"} => ~ Internal(q) /\ ~ OwnOrigin(q)

IInv ==
    /\ TypeOK
    /\ CallsAgree
    /\ RowsAgree
    /\ RequestsAgree
    /\ AskersGoOut
    /\ ApprovalsAreKept
    /\ AnsweredSavesAreSeen
    /\ ValuesGoWhereApproved
    /\ GrantedRequestsPass

----------------------------------------------------------------------------
(* Refinement                                                              *)

\* What the contract knows of a save and of a request: an unfinished request
\* awaits its answer, and has no values before it is sent.
SaveSeen(s) ==
    [step  |-> IF s.step = "uncalled" THEN "uncalled"
               ELSE IF s.step = "saved" THEN "told" ELSE "called",
     name  |-> s.name,
     after |-> s.after]

AnswerSeen(r) ==
    CASE r.step \in {"route", "resolve", "values"}             -> "awaited"
      [] r.step = "denied"                                     -> r.denial
      [] r.step \in {"unsent", "internal", "sent", "threw"}    -> r.step

RequestSeen(r) ==
    [answer |-> AnswerSeen(r),
     names  |-> r.names, host |-> r.host, secure |-> r.secure, heard |-> r.heard,
     values |-> IF r.step = "sent" THEN r.values ELSE NoValues]

SavesMap == [w \in Save |-> SaveSeen(save[w])]

AskedMap == [q \in Request |-> RequestSeen(request[q])]

Contract == INSTANCE EgressContract WITH
    saves <- SavesMap, approved <- hosts, asked <- AskedMap

\* A request is answered as if the vault were read and judged at one moment,
\* with its values known and its hosts approved, although reads, saves and
\* approvals interleave (Gateway.ts:187-254, OwnerVault.ts:93-136).
ContractSpec == Contract!Spec
=============================================================================

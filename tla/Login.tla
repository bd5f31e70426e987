-------------------------------- MODULE Login --------------------------------
(***************************************************************************)
(* The login (http/Authorize.ts over identity/Owner.ts and                 *)
(* identity/Upstream.ts): a visit shows the consent screen and holds the   *)
(* authorization request under a fresh state; the browser comes back from  *)
(* the upstream with a state and a code; the callback looks the state up,  *)
(* spends it, trades the code for an identity, resolves that to an owner   *)
(* and completes the grant.  The two are parameters of their own, which    *)
(* nothing compares: any code may come with any state.  The callbacks of   *)
(* one state, or of one identity, interleave at each await.  The key-value *)
(* store compares nothing either, and where it lags a read may answer with *)
(* what a key held before.                                                 *)
(***************************************************************************)
CONSTANTS
    Visit,      \* the GET /authorize requests; each names the state it mints
    Client,     \* registered clients
    Code,       \* the authorization codes the upstream issues
    Identity,   \* provider-qualified upstream identities
    Callback,   \* the GET /callback/github requests; each names what it mints
    Lagging,    \* whether reads of the key-value store may miss writes
    NoClient, NoIdentity, NoVisit, NoCode, NoOwner

ASSUME LoginAssumption ==
    /\ Lagging \in BOOLEAN
    /\ NoClient \notin Client
    /\ NoIdentity \notin Identity
    /\ NoVisit \notin Visit
    /\ NoCode \notin Code
    /\ NoOwner \notin Callback

VARIABLES
    pending,    \* the pending:<state> keys: the client of the request held
    seen,       \* the client-seen:<id> keys
    mapping,    \* the identity:<qualified> keys; an owner id is who minted it
    allowlist,  \* OWNER_ALLOWLIST of the deployment
    visit, code, callback,
    raced       \* identities of which a login went on to mint while another
                \* was about to, or did not see what another had minted

keys == <<pending, seen, mapping, allowlist>>

vars == <<keys, visit, code, callback, raced>>

VisitState ==
    [step   : {"unseen", "hold", "look", "shown", "failed"},
     client : Client \cup {NoClient},
     first  : BOOLEAN]

CodeState ==
    [step     : {"unissued", "issued", "spent"},
     identity : Identity \cup {NoIdentity}]

\* A callback awaits: "lookup", "clear": the pending request; "exchange": the
\* upstream; "resolve", "mint": the identity mapping; "complete": the grant;
\* "record": the client's mark.
CallbackState ==
    [step     : {"unsent", "lookup", "clear", "exchange", "resolve", "mint", "complete",
                 "record", "redirected", "failed"},
     state    : Visit \cup {NoVisit},
     code     : Code \cup {NoCode},
     client   : Client \cup {NoClient},
     identity : Identity \cup {NoIdentity},
     owner    : Callback \cup {NoOwner},
     granted  : BOOLEAN]

Init ==
    /\ pending = [v \in Visit |-> NoClient]
    /\ seen = {}
    /\ mapping = [i \in Identity |-> NoOwner]
    /\ allowlist \in SUBSET Identity
    /\ visit = [v \in Visit |-> [step |-> "unseen", client |-> NoClient, first |-> FALSE]]
    /\ code = [d \in Code |-> [step |-> "unissued", identity |-> NoIdentity]]
    /\ callback = [k \in Callback |->
          [step |-> "unsent", state |-> NoVisit, code |-> NoCode, client |-> NoClient,
           identity |-> NoIdentity, owner |-> NoOwner, granted |-> FALSE]]
    /\ raced = {}

VisitBecomes(v, s) == visit' = [visit EXCEPT ![v] = s]

Goes(k, s) == callback' = [callback EXCEPT ![k] = s]

GoesTo(k, step) == Goes(k, [callback[k] EXCEPT !.step = step])

StateOf(k) == callback[k].state

\* What a read may answer of a key that holds `now` and held `before`.
Earlier(now, before) == {now} \cup (IF Lagging THEN before ELSE {})

\* pending:<v> once its screen was shown.
Found(v) == Earlier(pending[v], {NoClient, visit[v].client})

\* identity:<i>.
Known(i) ==
    Earlier(mapping[i],
            {NoOwner} \cup {k \in Callback : callback[k].owner = k /\ callback[k].identity = i})

----------------------------------------------------------------------------
\* GET /authorize of a registered client: the request is held, then the
\* client looked up, then the screen shown.
Arrive(v, c) ==
    /\ visit[v].step = "unseen"
    /\ VisitBecomes(v, [visit[v] EXCEPT !.step = "hold", !.client = c])
    /\ UNCHANGED <<keys, code, callback, raced>>

Hold(v) ==
    /\ visit[v].step = "hold"
    /\ pending' = [pending EXCEPT ![v] = visit[v].client]
    /\ VisitBecomes(v, [visit[v] EXCEPT !.step = "look"])
    /\ UNCHANGED <<seen, mapping, allowlist, code, callback, raced>>

Show(v) ==
    /\ visit[v].step = "look"
    /\ \E first \in Earlier(visit[v].client \notin seen, {TRUE}) :
          VisitBecomes(v, [visit[v] EXCEPT !.step = "shown", !.first = first])
    /\ UNCHANGED <<keys, code, callback, raced>>

VisitFails(v) ==
    /\ visit[v].step \in {"hold", "look"}
    /\ VisitBecomes(v, [visit[v] EXCEPT !.step = "failed"])
    /\ UNCHANGED <<keys, code, callback, raced>>

\* A pending request is forgotten after PENDING_TTL_SECONDS.
Expire(v) ==
    /\ pending[v] # NoClient
    /\ pending' = [pending EXCEPT ![v] = NoClient]
    /\ UNCHANGED <<seen, mapping, allowlist, visit, code, callback, raced>>

\* POST /authorize, which finds the state held, and the person signing in
\* upstream; the screen's button can be pressed again.
SignIn(v, d, i) ==
    /\ visit[v].step = "shown"
    /\ Found(v) # {NoClient}
    /\ code[d].step = "unissued"
    /\ code' = [code EXCEPT ![d] = [step |-> "issued", identity |-> i]]
    /\ UNCHANGED <<keys, visit, callback, raced>>

\* The operator deploys another allowlist.
Redeploy ==
    /\ allowlist' \in SUBSET Identity
    /\ UNCHANGED <<pending, seen, mapping, visit, code, callback, raced>>

----------------------------------------------------------------------------
\* The browser comes back with a state it was shown and a code that was
\* issued, whichever they are and whether or not they came back before.
CallBack(k, v, d) ==
    /\ callback[k].step = "unsent"
    /\ visit[v].step = "shown"
    /\ code[d].step # "unissued"
    /\ Goes(k, [callback[k] EXCEPT !.step = "lookup", !.state = v, !.code = d])
    /\ UNCHANGED <<keys, visit, code, raced>>

LookUp(k) ==
    /\ callback[k].step = "lookup"
    /\ \/ NoClient \in Found(StateOf(k)) /\ GoesTo(k, "failed")
       \/ \E c \in Found(StateOf(k)) \ {NoClient} :
             Goes(k, [callback[k] EXCEPT !.step = "clear", !.client = c])
    /\ UNCHANGED <<keys, visit, code, raced>>

\* Mutant: the client is marked before anybody has signed in.
ClearMarking(k) ==
    /\ callback[k].step = "clear"
    /\ pending' = [pending EXCEPT ![StateOf(k)] = NoClient]
    /\ seen' = seen \cup {callback[k].client}
    /\ GoesTo(k, "exchange")
    /\ UNCHANGED <<mapping, allowlist, visit, code, raced>>

\* Single use.
Clear(k) ==
    /\ callback[k].step = "clear"
    /\ pending' = [pending EXCEPT ![StateOf(k)] = NoClient]
    /\ GoesTo(k, "exchange")
    /\ UNCHANGED <<seen, mapping, allowlist, visit, code, raced>>

\* exchangeCode: the upstream takes a code once.
Exchange(k) ==
    /\ callback[k].step = "exchange"
    /\ IF code[callback[k].code].step = "spent"
       THEN GoesTo(k, "failed")
       ELSE Goes(k, [callback[k] EXCEPT !.step = "resolve",
                                        !.identity = code[callback[k].code].identity])
    /\ code' = [code EXCEPT ![callback[k].code] = [@ EXCEPT !.step = "spent"]]
    /\ UNCHANGED <<keys, visit, raced>>

Minting(i) == {k \in Callback : callback[k].step = "mint" /\ callback[k].identity = i}

\* Mutant: an owner is minted on every login.
ResolveAnew(k) ==
    LET i == callback[k].identity IN
    /\ callback[k].step = "resolve"
    /\ IF i \notin allowlist THEN GoesTo(k, "failed") ELSE GoesTo(k, "mint")
    /\ UNCHANGED <<keys, visit, code, raced>>

\* Mutant: the allowlist is asked only before an owner is minted.
ResolveKnownUnlisted(k) ==
    LET i == callback[k].identity IN
    /\ callback[k].step = "resolve"
    /\ \/ i \notin allowlist /\ GoesTo(k, "failed") /\ UNCHANGED raced
       \/ /\ \E o \in Known(i) \ {NoOwner} :
                Goes(k, [callback[k] EXCEPT !.step = "complete", !.owner = o])
          /\ UNCHANGED raced
       \/ /\ i \in allowlist /\ NoOwner \in Known(i)
          /\ GoesTo(k, "mint")
          /\ raced' = IF mapping[i] # NoOwner \/ Minting(i) # {} THEN raced \cup {i} ELSE raced
    /\ UNCHANGED <<keys, visit, code>>

\* resolveOwner: refused, known, or new.
Resolve(k) ==
    LET i == callback[k].identity IN
    /\ callback[k].step = "resolve"
    /\ \/ i \notin allowlist /\ GoesTo(k, "failed") /\ UNCHANGED raced
       \/ /\ i \in allowlist
          /\ \E o \in Known(i) \ {NoOwner} :
                Goes(k, [callback[k] EXCEPT !.step = "complete", !.owner = o])
          /\ UNCHANGED raced
       \/ /\ i \in allowlist /\ NoOwner \in Known(i)
          /\ GoesTo(k, "mint")
          /\ raced' = IF mapping[i] # NoOwner \/ Minting(i) # {} THEN raced \cup {i} ELSE raced
    /\ UNCHANGED <<keys, visit, code>>

Mint(k) ==
    /\ callback[k].step = "mint"
    /\ mapping' = [mapping EXCEPT ![callback[k].identity] = k]
    /\ Goes(k, [callback[k] EXCEPT !.step = "complete", !.owner = k])
    /\ UNCHANGED <<pending, seen, allowlist, visit, code, raced>>

\* completeAuthorization seals the owner into the grant.
Complete(k) ==
    /\ callback[k].step = "complete"
    /\ Goes(k, [callback[k] EXCEPT !.step = "record", !.granted = TRUE])
    /\ UNCHANGED <<keys, visit, code, raced>>

MarkSeen(k) ==
    /\ callback[k].step = "record"
    /\ seen' = seen \cup {callback[k].client}
    /\ GoesTo(k, "redirected")
    /\ UNCHANGED <<pending, mapping, allowlist, visit, code, raced>>

\* An awaited call rejects, or the upstream says no or cannot be reached; one
\* that took effect all the same is its own step and then this one.
CallbackFails(k) ==
    /\ callback[k].step \in {"lookup", "clear", "exchange", "resolve", "mint", "complete",
                             "record", "redirected"}
    /\ GoesTo(k, "failed")
    /\ UNCHANGED <<keys, visit, code, raced>>

----------------------------------------------------------------------------
VisitStep(v) == Hold(v) \/ Show(v) \/ VisitFails(v)

CallbackStep(k) ==
    \/ LookUp(k) \/ Clear(k) \/ Exchange(k) \/ Resolve(k) \/ Mint(k)
    \/ Complete(k) \/ MarkSeen(k) \/ CallbackFails(k)

Next ==
    \/ \E v \in Visit :
          \/ VisitStep(v)
          \/ Expire(v)
          \/ \E c \in Client : Arrive(v, c)
          \/ \E d \in Code, i \in Identity : SignIn(v, d, i)
    \/ Redeploy
    \/ \E k \in Callback : CallbackStep(k) \/ \E v \in Visit, d \in Code : CallBack(k, v, d)

Spec == Init /\ [][Next]_vars

----------------------------------------------------------------------------
(* Properties                                                              *)

TypeOK ==
    /\ pending \in [Visit -> Client \cup {NoClient}]
    /\ seen \subseteq Client
    /\ mapping \in [Identity -> Callback \cup {NoOwner}]
    /\ allowlist \subseteq Identity
    /\ visit \in [Visit -> VisitState]
    /\ code \in [Code -> CodeState]
    /\ callback \in [Callback -> CallbackState]
    /\ raced \subseteq Identity

\* Every grant of an identity carries the one owner it maps to, unless two of
\* its logins were both about to mint or one was not shown what another had
\* minted - whatever other logins, failures after the mapping was written, or
\* changes of the allowlist came between
\* (Owner.ts:130-161).
OneOwnerUnlessRaced ==
    \A k \in Callback :
        callback[k].granted /\ callback[k].identity \notin raced =>
            callback[k].owner = mapping[callback[k].identity]

\* The consent screen leaves its first-time notice out only for a client that
\* was really granted something, though the mark is read and written apart
\* from the grant (Authorize.ts:104, 172-192).
FamiliarClientsWereGranted ==
    \A v \in Visit : visit[v].step = "shown" /\ ~ visit[v].first =>
        \E k \in Callback : callback[k].granted /\ callback[k].client = visit[v].client

----------------------------------------------------------------------------
(* The inductive invariant                                                 *)

Held(v) == visit[v].step \in {"look", "shown", "failed"}

\* What is pending under a state is the request of its visit, and a code that
\* was issued is a person's.
StatesAgree ==
    /\ \A v \in Visit :
          /\ pending[v] # NoClient => pending[v] = visit[v].client /\ Held(v)
          /\ visit[v].step # "unseen" => visit[v].client \in Client
    /\ \A d \in Code : code[d].step # "unissued" => code[d].identity \in Identity

\* What a callback holds at each await.
CallbackAgrees(k) ==
    /\ callback[k].step # "unsent" =>
          /\ callback[k].code \in Code /\ code[callback[k].code].step # "unissued"
          /\ StateOf(k) \in Visit /\ visit[StateOf(k)].step = "shown"
    /\ callback[k].client # NoClient =>
          callback[k].step # "unsent" /\ callback[k].client = visit[StateOf(k)].client
    /\ callback[k].identity # NoIdentity =>
          callback[k].step # "unsent" /\ callback[k].identity = code[callback[k].code].identity
    /\ callback[k].step \in {"clear", "exchange", "resolve", "mint", "complete", "record"} =>
          callback[k].client # NoClient
    /\ callback[k].step \in {"resolve", "mint", "complete", "record"} =>
          callback[k].identity # NoIdentity
    /\ callback[k].owner # NoOwner =>
          /\ callback[k].step \in {"complete", "record", "redirected", "failed"}
          /\ callback[k].identity # NoIdentity
    /\ callback[k].step = "complete" \/ callback[k].granted => callback[k].owner # NoOwner
    /\ callback[k].granted =>
          /\ callback[k].step \in {"record", "redirected", "failed"}
          /\ callback[k].client # NoClient /\ callback[k].identity # NoIdentity
    /\ callback[k].step \in {"record", "redirected"} => callback[k].granted

\* An identity whose logins did not race has one login about to mint at most,
\* and none once it maps to an owner, which every login past that holds.
OwnersAgree ==
    \A i \in Identity \ raced :
        /\ \A j, k \in Minting(i) : j = k
        /\ mapping[i] # NoOwner => Minting(i) = {}
        /\ \A k \in Callback :
              callback[k].identity = i /\ callback[k].owner # NoOwner =>
                  callback[k].owner = mapping[i]

MarksAgree ==
    /\ \A c \in seen : \E k \in Callback : callback[k].granted /\ callback[k].client = c
    /\ \A v \in Visit : visit[v].step = "shown" => visit[v].first \/ visit[v].client \in seen

\* A code was traded by one callback at most.
CodesAreSpentOnce ==
    \A k \in Callback : callback[k].identity # NoIdentity =>
        /\ code[callback[k].code].step = "spent"
        /\ \A j \in Callback \ {k} :
              callback[j].identity # NoIdentity => callback[j].code # callback[k].code

\* o minted itself for i.
Minted(o, i) == callback[o].owner = o /\ callback[o].identity = i

\* Every owner in use was minted for the identity it is used for.
OwnersWereMinted ==
    /\ \A i \in Identity : mapping[i] # NoOwner => Minted(mapping[i], i)
    /\ \A k \in Callback : callback[k].owner # NoOwner =>
          Minted(callback[k].owner, callback[k].identity)

IInv ==
    /\ TypeOK
    /\ StatesAgree
    /\ \A k \in Callback : CallbackAgrees(k)
    /\ OwnersAgree
    /\ CodesAreSpentOnce
    /\ OwnersWereMinted
    /\ MarksAgree
    /\ OneOwnerUnlessRaced
    /\ FamiliarClientsWereGranted

----------------------------------------------------------------------------
(* Refinement                                                              *)

\* What the contract knows of a callback: it is let in when its identity is
\* resolved, and keeps its grant whatever fails after that.
LoginStep(c) ==
    CASE c.granted                                            -> "granted"
      [] ~ c.granted /\ c.step \in {"mint", "complete"}       -> "admitted"
      [] ~ c.granted /\ c.step = "failed"                     -> "ended"
      [] ~ c.granted /\ c.step \notin {"mint", "complete", "failed"} -> "none"

LoginSeen(c) ==
    [step   |-> LoginStep(c),
     state  |-> IF LoginStep(c) \in {"admitted", "granted"} THEN c.state ELSE NoVisit,
     code   |-> IF LoginStep(c) \in {"admitted", "granted"} THEN c.code ELSE NoCode,
     client |-> IF c.granted THEN c.client ELSE NoClient,
     owner  |-> IF c.granted THEN c.owner ELSE NoOwner]

AskedMap == [v \in Visit |-> IF visit[v].step = "unseen" THEN NoClient ELSE visit[v].client]

SignedMap ==
    [d \in Code |-> IF code[d].step = "unissued" THEN NoIdentity ELSE code[d].identity]

OwnersMap == [i \in Identity |-> {k \in Callback : Minted(k, i)}]

LoginMap == [k \in Callback |-> LoginSeen(callback[k])]

Contract == INSTANCE LoginContract WITH
    asked <- AskedMap, signed <- SignedMap, allowed <- allowlist, owners <- OwnersMap,
    login <- LoginMap

\* A code is good for one grant, to the client whose request was held under the
\* state that it came back with and to an owner minted for the person who signed
\* in for it, and that owner is one unless logins raced, although a login is
\* seven awaits that interleave with those of others and may fail at each
\* (Authorize.ts:148-201, Owner.ts:130-161).
ContractSpec == Contract!Spec

----------------------------------------------------------------------------
(* What the repository says and the code does not keep                     *)

\* One pending authorization is completed once: "Single use"
\* (http/Authorize.ts:164).
StatesAreUsedOnce ==
    \A j, k \in Callback :
        callback[j].granted /\ callback[k].granted /\ j # k => StateOf(j) # StateOf(k)
=============================================================================

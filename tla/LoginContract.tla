---------------------------- MODULE LoginContract ----------------------------
(***************************************************************************)
(* What a login promises, as if the person were let in in one step and     *)
(* granted in another: one grant at most for a code, for the person who    *)
(* signed in, let in only when allowed, and for the client of the request  *)
(* that the code came back with, which may be any; and one owner for an    *)
(* identity, found by all its logins, unless two of them were let in at    *)
(* once or a read lagged behind.  (The handler of http/Authorize.ts awaits *)
(* seven calls, and identity/Owner.ts reads and writes the mapping of an   *)
(* identity apart.)                                                        *)
(***************************************************************************)
CONSTANTS
    Visit, Client, Code, Identity, Callback, Lagging,
    NoClient, NoIdentity, NoVisit, NoCode, NoOwner

VARIABLES
    asked,      \* the client of each request
    signed,     \* code by code, who signed in for it
    allowed,    \* the identities that may be let in
    owners,     \* what was minted for each identity
    raced,      \* the identities that may be given more than one owner
    login       \* who was let in with which state and code, and was granted what

Login(step) ==
    [step |-> step, state |-> NoVisit, code |-> NoCode, client |-> NoClient, owner |-> NoOwner]

Init ==
    /\ asked = [v \in Visit |-> NoClient]
    /\ signed = [d \in Code |-> NoIdentity]
    /\ allowed \in SUBSET Identity
    /\ owners = [i \in Identity |-> {}]
    /\ raced = {}
    /\ login = [k \in Callback |-> Login("none")]

Ask(v, c) ==
    /\ asked[v] = NoClient
    /\ asked' = [asked EXCEPT ![v] = c]
    /\ UNCHANGED <<signed, allowed, owners, raced, login>>

SignIn(v, d, i) ==
    /\ asked[v] # NoClient
    /\ signed[d] = NoIdentity
    /\ signed' = [signed EXCEPT ![d] = i]
    /\ UNCHANGED <<asked, allowed, owners, raced, login>>

Allow ==
    /\ allowed' \in SUBSET Identity
    /\ UNCHANGED <<asked, signed, owners, raced, login>>

IdentityOf(k) == signed[login[k].code]

LetIn(i) == {k \in Callback : login[k].step = "admitted" /\ IdentityOf(k) = i}

\* Another login of i is under way, or one before may not be visible yet.
MayRace(i) == LetIn(i) # {} \/ (Lagging /\ owners[i] # {})

Admit(k, v, d) ==
    /\ login[k].step = "none"
    /\ asked[v] # NoClient
    /\ signed[d] # NoIdentity
    /\ \A j \in Callback : login[j].code # d
    /\ signed[d] \in allowed
    /\ login' = [login EXCEPT ![k] =
          [step |-> "admitted", state |-> v, code |-> d, client |-> NoClient, owner |-> NoOwner]]
    /\ \/ UNCHANGED raced
       \/ MayRace(signed[d]) /\ raced' = raced \cup {signed[d]}
    /\ UNCHANGED <<asked, signed, allowed, owners>>

Mint(k) ==
    /\ login[k].step = "admitted"
    /\ owners[IdentityOf(k)] = {} \/ IdentityOf(k) \in raced
    /\ owners' = [owners EXCEPT ![IdentityOf(k)] = @ \cup {k}]
    /\ UNCHANGED <<asked, signed, allowed, raced, login>>

Grant(k) ==
    /\ login[k].step = "admitted"
    /\ \E o \in owners[IdentityOf(k)] :
          login' = [login EXCEPT ![k] =
             [step |-> "granted", state |-> login[k].state, code |-> login[k].code,
              client |-> asked[login[k].state], owner |-> o]]
    /\ UNCHANGED <<asked, signed, allowed, owners, raced>>

End(k) ==
    /\ login[k].step \in {"none", "admitted"}
    /\ login' = [login EXCEPT ![k] = Login("ended")]
    /\ UNCHANGED <<asked, signed, allowed, owners, raced>>

Next ==
    \/ \E v \in Visit :
          (\E c \in Client : Ask(v, c)) \/ (\E d \in Code, i \in Identity : SignIn(v, d, i))
    \/ Allow
    \/ \E k \in Callback :
          Mint(k) \/ Grant(k) \/ End(k) \/ (\E v \in Visit, d \in Code : Admit(k, v, d))

Spec == Init /\ [][Next]_<<asked, signed, allowed, owners, raced, login>>
=============================================================================

--------------------------- MODULE EgressContract ----------------------------
(***************************************************************************)
(* What the route to the network promises, as if a request were judged and *)
(* answered in one step.  A save takes effect somewhere between its call   *)
(* and its answer, or is lost; an approval at once and for good.  What a   *)
(* request carries is, name by name, a value that was not gone when it was *)
(* asked, and where it goes is settled by what is approved when it goes.   *)
(* (The object of vault/OwnerVault.ts reads its rows one after the other,  *)
(* after its policy, while saves and approvals go on between their reads   *)
(* and writes.)                                                            *)
(***************************************************************************)
CONSTANTS
    Credential, Host, Lower, Save, Request,
    InternalHost, OwnHost, Exempt,
    NoSave, NoCredential, NoHost

VARIABLES
    saves,      \* the calls: their name, and what was told of it before
    spoiled,    \* values that do not decrypt any more
    approved,   \* the hosts of each credential
    asked       \* the requests, and what became of them

SaveOf(c) == {w \in Save : saves[w].step # "uncalled" /\ saves[w].name = c}

ToldOf(c) == {w \in Save : saves[w].step = "told" /\ saves[w].name = c}

NoValues == [c \in Credential |-> NoSave]

Init ==
    /\ saves = [w \in Save |-> [step |-> "uncalled", name |-> NoCredential, after |-> {}]]
    /\ spoiled = {}
    /\ approved = [c \in Credential |-> {}]
    /\ asked = [q \in Request |->
          [answer |-> "unsent", names |-> {}, host |-> NoHost, secure |-> FALSE, heard |-> {},
           values |-> NoValues]]

CallSave(w, c) ==
    /\ saves[w].step = "uncalled"
    /\ UNCHANGED <<spoiled, approved, asked>>
    /\ saves' = [saves EXCEPT ![w] = [step |-> "called", name |-> c, after |-> ToldOf(c)]]

TellSave(w) ==
    /\ saves[w].step = "called"
    /\ UNCHANGED <<spoiled, approved, asked>>
    /\ saves' = [saves EXCEPT ![w] = [@ EXCEPT !.step = "told"]]

Spoil(w) ==
    /\ spoiled' = spoiled \cup {w}
    /\ saves[w].step # "uncalled"
    /\ UNCHANGED <<saves, approved, asked>>

Approve(c, h) ==
    /\ approved' = [approved EXCEPT ![c] = @ \cup {Lower[h]}]
    /\ UNCHANGED <<saves, spoiled, asked>>

Ask(q) ==
    /\ asked[q].answer = "unsent"
    /\ UNCHANGED <<saves, spoiled, approved>>
    /\ \E names \in SUBSET Credential, h \in Host, secure \in BOOLEAN :
          asked' = [asked EXCEPT ![q] =
             [answer |-> "awaited", names |-> names, host |-> h, secure |-> secure,
              heard |-> UNION {ToldOf(c) : c \in names}, values |-> NoValues]]

\* The values of c that q may carry: of two saves, not the one that was told
\* before the other was called, if that was told before q was asked.
Current(q, c) ==
    IF c \in asked[q].names
    THEN {w \in SaveOf(c) : \A u \in asked[q].heard : saves[u].name = c => w \notin saves[u].after}
    ELSE {NoSave}

\* The policy: what may be answered now.
Permits(q, answer) ==
    LET names  == asked[q].names
        h      == Lower[asked[q].host]
        secure == asked[q].secure \/ h \in Exempt
    IN  \/ answer = "threw"
        \/ answer = "internal" /\ h = InternalHost
        \/ answer = "OwnOriginRefused" /\ h = OwnHost
        \/ /\ h \notin {InternalHost, OwnHost}
           /\ \/ answer = "InsecureTransport" /\ names # {} /\ ~ secure
              \/ /\ answer = "UnknownCredential" /\ secure
                 /\ \E c \in names : ToldOf(c) = {} \/ SaveOf(c) \cap spoiled # {}
              \/ /\ answer = "HostNotApproved" /\ secure
                 /\ \A c \in names : SaveOf(c) # {}
                 /\ \E c \in names : h \notin approved[c]
              \/ /\ answer = "sent" /\ (secure \/ names = {})
                 /\ \A c \in names : h \in approved[c]

\* Only what is sent carries values, and all of its own.
Carries(q, answer) ==
    IF answer = "sent"
    THEN {values \in [Credential -> Save \cup {NoSave}] :
             \A c \in Credential : values[c] \in Current(q, c)}
    ELSE {NoValues}

Answer(q, answer) ==
    /\ asked[q].answer = "awaited"
    /\ Permits(q, answer)
    /\ UNCHANGED <<saves, spoiled, approved>>
    /\ \E values \in Carries(q, answer) :
          asked' = [asked EXCEPT ![q] = [@ EXCEPT !.answer = answer, !.values = values]]

Answers ==
    {"threw", "internal", "OwnOriginRefused", "InsecureTransport", "UnknownCredential",
     "HostNotApproved", "sent"}

Next ==
    \/ \E w \in Save : TellSave(w) \/ Spoil(w) \/ \E c \in Credential : CallSave(w, c)
    \/ \E q \in Request : Ask(q) \/ \E answer \in Answers : Answer(q, answer)
    \/ \E c \in Credential, h \in Host : Approve(c, h)

Spec == Init /\ [][Next]_<<saves, spoiled, approved, asked>>
=============================================================================

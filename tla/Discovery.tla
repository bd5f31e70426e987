------------------------------ MODULE Discovery -------------------------------
(***************************************************************************)
(* The `search` tool (discovery/Search.ts) over what is there for an owner *)
(* (registry/Registry.ts): the built-in capabilities and the packages the  *)
(* store lists as published when it is asked.  The score an entry has for  *)
(* a query is a parameter: what the answer shows and says of the rest is   *)
(* modelled, not how words are compared.                                   *)
(***************************************************************************)
EXTENDS Naturals, FiniteSets

CONSTANTS
    Capability, Package,    \* names; a package takes none of a capability's
    Fetch,                  \* the capability whose detail has the credentials
    Unknown,                \* a name nothing has
    Query, All,             \* the queries; All has no tokens
    Named,                  \* the names asked for: bounds an instance
    Score,                  \* the points of an entry for a query
    Alphabetical,           \* <<a, b>>: a sorts before b
    SearchBound,            \* BOUND
    Search                  \* the calls of the tool

Name == Capability \cup Package

ASSUME DiscoveryAssumption ==
    /\ Capability \cap Package = {} /\ Fetch \in Capability /\ Unknown \notin Name
    /\ IsFiniteSet(Name)
    /\ All \in Query /\ Named \subseteq Name \cup {Unknown}
    /\ Score \in [Query -> [Name -> Nat]]
    /\ SearchBound \in Nat \ {0}
    /\ Alphabetical \subseteq Name \X Name
    /\ \A a, b \in Name : a # b => (<<a, b>> \in Alphabetical <=> <<b, a>> \notin Alphabetical)
    /\ \A a, b, c \in Name :
           <<a, b>> \in Alphabetical /\ <<b, c>> \in Alphabetical => <<a, c>> \in Alphabetical
    /\ \A a \in Name : <<a, a>> \notin Alphabetical

VARIABLES
    published,      \* the packages listPublished gives
    search

discovery == <<published, search>>

Points(query, e) == IF query = All THEN 0 ELSE Score[query][e]

Matched(available, query) == {e \in available : query = All \/ Points(query, e) > 0}

\* Mutant: that an entry is a package counts before its score.
RanksByKind(query, e, f) ==
    IF e \in Package /\ f \notin Package THEN TRUE
    ELSE IF f \in Package /\ e \notin Package THEN FALSE
    ELSE \/ Points(query, e) > Points(query, f)
         \/ Points(query, e) = Points(query, f) /\ <<e, f>> \in Alphabetical

\* byRank: the score, then packages, then names.
Ranks(query, e, f) ==
    \/ Points(query, e) > Points(query, f)
    \/ /\ Points(query, e) = Points(query, f)
       /\ \/ e \in Package /\ f \notin Package
          \/ (e \in Package <=> f \in Package) /\ <<e, f>> \in Alphabetical

RanksBefore(query, e, S) == {f \in S : Ranks(query, f, e)}

\* The first n of the sorted matches.
Best(n, query, S) == {e \in S : Cardinality(RanksBefore(query, e, S)) < n}

\* `saw`: what was available; `heard`: what was published when it was asked.
SearchState ==
    [step  : {"unasked", "entries", "credentials", "answered", "failed", "threw"},
     query : Query,
     name  : Name \cup {Unknown},
     mode  : {"query", "name"},
     saw   : SUBSET Name,
     shown : SUBSET Name,
     more  : Nat,
     hint  : SUBSET Name,
     heard : SUBSET Package]

DiscoveryInit ==
    /\ published = {}
    /\ search = [s \in Search |->
          [step |-> "unasked", query |-> All, name |-> Unknown, mode |-> "query", saw |-> {},
           shown |-> {}, more |-> 0, hint |-> {}, heard |-> {}]]

Turn(s, c) == search' = [search EXCEPT ![s] = c]

\* commitPublish: a package that is listed stays listed.
Publish(p) ==
    /\ p \notin published
    /\ published' = published \cup {p}
    /\ UNCHANGED search

AskQuery(s, query) ==
    /\ search[s].step = "unasked"
    /\ Turn(s, [search[s] EXCEPT !.step = "entries", !.query = query, !.heard = published])
    /\ UNCHANGED published

AskName(s, name) ==
    /\ search[s].step = "unasked"
    /\ Turn(s, [search[s] EXCEPT !.step = "entries", !.mode = "name", !.name = name,
                                 !.heard = published])
    /\ UNCHANGED published

\* Mutant: a match more than the bound goes without a word.
SlimSilently(c, available) ==
    LET matched == Matched(available, c.query)
        shown   == Best(SearchBound, c.query, matched)
    IN IF matched = {}
       THEN [c EXCEPT !.step = "credentials", !.saw = available, !.hint = available]
       ELSE [c EXCEPT !.step = "answered", !.saw = available, !.shown = shown,
                      !.more = IF Cardinality(matched) > SearchBound + 1
                               THEN Cardinality(matched) - Cardinality(shown) ELSE 0]

\* slimList; an answer without a result goes on to say what exists.
Slim(c, available) ==
    LET matched == Matched(available, c.query)
        shown   == Best(SearchBound, c.query, matched)
    IN IF matched = {}
       THEN [c EXCEPT !.step = "credentials", !.saw = available, !.hint = available]
       ELSE [c EXCEPT !.step = "answered", !.saw = available, !.shown = shown,
                      !.more = Cardinality(matched) - Cardinality(shown)]

Detail(c, available) ==
    IF c.name \notin available
    THEN [c EXCEPT !.step = "failed", !.saw = available, !.hint = available]
    ELSE [c EXCEPT !.step = IF c.name = Fetch THEN "credentials" ELSE "answered",
                   !.saw = available, !.shown = {c.name}]

\* The entries: listPublished and the built-in ones.
Entries(s) ==
    /\ search[s].step = "entries"
    /\ LET available == Capability \cup published
       IN  Turn(s, IF search[s].mode = "query" THEN Slim(search[s], available)
                   ELSE Detail(search[s], available))
    /\ UNCHANGED published

Credentials(s) ==
    /\ search[s].step = "credentials"
    /\ Turn(s, [search[s] EXCEPT !.step = "answered"])
    /\ UNCHANGED published

\* A call of the store or of the vault rejects.
Throws(s) ==
    /\ search[s].step \in {"entries", "credentials"}
    /\ Turn(s, [search[s] EXCEPT !.step = "threw"])
    /\ UNCHANGED published

SearchStep(s) ==
    \/ \E query \in Query : AskQuery(s, query)
    \/ \E name \in Named : AskName(s, name)
    \/ Entries(s) \/ Credentials(s) \/ Throws(s)
=============================================================================

------------------------------- MODULE Lookups --------------------------------
(***************************************************************************)
(* What an owner's sandboxes and clients look up in the owner's store: the *)
(* rows of `storage` and the entries of `search`.  Calls of both kinds are *)
(* under way at once.                                                      *)
(***************************************************************************)
EXTENDS StorageData, Discovery

vars == <<storage, discovery>>

Init == StorageInit /\ DiscoveryInit

Next ==
    \/ (\E k \in Call : StorageStep(k)) /\ UNCHANGED discovery
    \/ /\ \/ \E p \in Package : Publish(p)
          \/ \E s \in Search : SearchStep(s)
       /\ UNCHANGED storage

Spec == Init /\ [][Next]_vars

TypeOK ==
    /\ row \in [Key -> Call \cup {NoValue}]
    /\ past \in [Key -> SUBSET Call]
    /\ call \in [Call -> CallState]
    /\ published \subseteq Package
    /\ search \in [Search -> SearchState]

\* What no call has yet is not asked, and what is asked is a key.
CallsAreChecked ==
    \A k \in Call :
        /\ call[k].step = "unsent" => call[k].verb = "get"
        /\ call[k].step \in {"unsent", "called"} =>
              call[k].reply = Plainly("none") /\ call[k].over = {}
        /\ call[k].step = "called" /\ call[k].verb # "list" => call[k].key \in Key
        /\ call[k].over # {} => call[k].key \in Key /\ call[k].over \subseteq past[call[k].key]
        /\ \A j \in call[k].heard : call[j].step = "answered"

\* A value that was replaced is of no row again, and no call that has not
\* reached the store has a value there.
ValuesAreFresh ==
    \A key \in Key :
        /\ row[key] \notin past[key]
        /\ \A k \in past[key] \cup {row[key]} :
              k \in Call => call[k].step \in {"done", "answered", "lost"}

\* What was set is there, or a delete that was not over by then took it.
StoredStays ==
    \A j \in Call :
        call[j].reply.tag = "stored" =>
            /\ call[j].key \in Key
            /\ \/ row[call[j].key] # NoValue
               \/ \E d \in Call : /\ call[d].verb = "delete" /\ call[d].key = call[j].key
                                  /\ d \notin call[j].heard

\* What was published when a search was asked still is, and a search that has
\* not the entries yet has nothing to show.
SearchesStartEmpty ==
    \A s \in Search :
        LET c == search[s]
        IN  /\ c.heard \subseteq published
            /\ c.step = "unasked" => c.mode = "query"
            /\ c.step \in {"unasked", "entries"} => c.shown = {} /\ c.hint = {} /\ c.more = 0

----------------------------------------------------------------------------
\* A listing has the keys with its prefix and no others, all of them or, if
\* it says that it was cut, the first ones: the range that is scanned is the
\* prefix, whatever characters the keys are of (StorageData.ts:85-107).
ListingsAreExact ==
    \A k \in Call :
        LET reply == call[k].reply
        IN  reply.tag = "list" =>
                IF reply.cut
                THEN /\ reply.keys \subseteq reply.whole
                     /\ Cardinality(reply.keys) = ListBound
                     /\ Cardinality(reply.whole) > ListBound
                     /\ \A s \in reply.whole \ reply.keys, t \in reply.keys : Less(t, s)
                ELSE reply.keys = reply.whole

\* What a listing leaves out without saying so was not set when it was asked
\* for, or was deleted since.
ListingsHaveWhatWasSet ==
    \A k \in Call : \A j \in call[k].heard :
        /\ call[k].reply.tag = "list" /\ ~ call[k].reply.cut
        /\ call[j].reply.tag = "stored" /\ HasPrefix(call[j].key, call[k].key)
        => \/ call[j].key \in call[k].reply.keys
           \/ \E d \in Call : /\ call[d].verb = "delete" /\ call[d].key = call[j].key
                              /\ d \notin call[j].heard

\* What a call that was answered has replaced or removed is not read again,
\* by whatever sandbox (StorageData.ts:59-77).
ReplacedIsNotRead ==
    \A k \in Call : \A j \in call[k].heard :
        call[k].reply.tag = "value" /\ call[k].key = call[j].key =>
            call[k].reply.value \notin call[j].over

\* Of the deletes of a key no more are told that they removed it than there
\* were values to remove, although they run at once.
EachDeleteRemovedSomething ==
    \A key \in Key :
        Cardinality({d \in Call : call[d].key = key /\ call[d].reply.tag = "deleted"})
            <= Cardinality(past[key])

\* The storage part of the inductive invariant.
StorageInv ==
    /\ CallsAreChecked /\ ValuesAreFresh /\ StoredStays
    /\ ListingsAreExact /\ ListingsHaveWhatWasSet /\ ReplacedIsNotRead
    /\ EachDeleteRemovedSomething

\* Nothing that was left out of an answer ranks before what is in it, and the
\* answer counts what was left out (Search.ts:70-122).
BestAreShown ==
    \A s \in Search :
        LET c    == search[s]
            left == Matched(c.saw, c.query) \ c.shown
        IN  c.mode = "query" /\ c.step \in {"credentials", "answered"} =>
                /\ c.more = Cardinality(left)
                /\ \A e \in c.shown, f \in left :
                      Points(c.query, e) >= Points(c.query, f)
                      /\ (Points(c.query, e) = Points(c.query, f) /\ f \in Package => e \in Package)

\* A package that was published when `search` was called is in the answer if
\* it was asked for, or the answer says that more matched; and if nothing
\* matched, the answer names it all the same.
PublishedIsFound ==
    \A s \in Search : \A p \in search[s].heard :
        search[s].step \in {"credentials", "answered"} =>
            \/ p \in search[s].shown \cup search[s].hint
            \/ search[s].more > 0
            \/ IF search[s].mode = "name" THEN search[s].name # p
               ELSE Matched({p}, search[s].query) = {}

\* The inductive invariant.
IInv ==
    /\ TypeOK /\ StorageInv
    /\ SearchesStartEmpty /\ BestAreShown /\ PublishedIsFound
=============================================================================

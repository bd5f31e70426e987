----------------------------- MODULE StorageData ------------------------------
(***************************************************************************)
(* The rows behind the `storage` capability (store/StorageData.ts) and the *)
(* internal route that reaches them (gateway/Internal.ts).  A call of a    *)
(* sandbox is checked, awaits the owner store, and is answered; each       *)
(* method of the store is one step.  A key is the sequence of its          *)
(* characters' codes, a value is known by the call that set it.            *)
(***************************************************************************)
EXTENDS Naturals, Sequences, FiniteSets

CONSTANTS
    KeyChar, Del,   \* the characters of KEY_PATTERN, and 0x7f
    Spelling,       \* what calls give as a key or a prefix
    Call,           \* the storage calls of the owner's sandboxes
    Asked,          \* what each may ask, <<verb, key>>: bounds an instance
    NoValue,
    Size,           \* how long the value of a call is, serialized
    ValueCeiling,   \* VALUE_CEILING_BYTES
    ListBound       \* LIST_BOUND

Verb == {"get", "set", "delete", "list"}

ASSUME StorageAssumption ==
    /\ KeyChar \subseteq Nat /\ Del \in Nat
    /\ \A c \in KeyChar : c < Del
    /\ Spelling \subseteq Seq(Nat)
    /\ IsFiniteSet(Spelling) /\ IsFiniteSet(Call)
    /\ Asked \in [Call -> SUBSET (Verb \X (Spelling \cup {<<>>}))]
    /\ NoValue \notin Call
    /\ Size \in [Call -> Nat] /\ ValueCeiling \in Nat /\ ListBound \in Nat

\* checkKey.
IsKey(s) == s # <<>> /\ \A i \in DOMAIN s : s[i] \in KeyChar

Key == {s \in Spelling : IsKey(s)}

\* Text is compared by its bytes, which for these characters are the codes.
Less(s, t) ==
    \E i \in 1 .. Len(t) :
        /\ i <= Len(s) + 1
        /\ \A j \in 1 .. i - 1 : s[j] = t[j]
        /\ i <= Len(s) => s[i] < t[i]

HasPrefix(s, prefix) ==
    /\ Len(prefix) <= Len(s)
    /\ \A i \in 1 .. Len(prefix) : s[i] = prefix[i]

\* Mutant: the key that is the prefix itself is left out.
InOpenRange(key, prefix) == Less(prefix, key) /\ Less(key, Append(prefix, Del))

\* The range that is scanned for a prefix.
InRange(key, prefix) == ~ Less(key, prefix) /\ Less(key, Append(prefix, Del))

VARIABLES
    row,        \* storage_data
    past,       \* history: what each key held before
    call

storage == <<row, past, call>>

Reply ==
    [tag   : {"none", "invalid", "too large", "value", "stored", "deleted", "not there", "list"},
     value : Call \cup {NoValue},
     keys  : SUBSET Key,
     cut   : BOOLEAN,
     whole : SUBSET Key]

\* `heard`: the calls that were answered when this one was sent; `over`: what
\* its key had held before it took effect; `whole`, in a reply, is history:
\* the keys with the prefix that there were.
CallState ==
    [step  : {"unsent", "called", "done", "answered", "lost"},
     verb  : Verb,
     key   : Spelling \cup {<<>>},
     reply : Reply,
     heard : SUBSET Call,
     over  : SUBSET Call]

Plainly(tag) == [tag |-> tag, value |-> NoValue, keys |-> {}, cut |-> FALSE, whole |-> {}]

StorageInit ==
    /\ row = [key \in Key |-> NoValue]
    /\ past = [key \in Key |-> {}]
    /\ call = [k \in Call |-> [step |-> "unsent", verb |-> "get", key |-> <<>>,
                               reply |-> Plainly("none"), heard |-> {}, over |-> {}]]

Become(k, c) == call' = [call EXCEPT ![k] = c]

Verdict(k, verb, key) ==
    CASE verb # "list" /\ ~ IsKey(key)                 -> "invalid"
      [] verb = "list" /\ ~ (key = <<>> \/ IsKey(key)) -> "invalid"
      [] verb = "set" /\ IsKey(key) /\ Size[k] > ValueCeiling -> "too large"
      [] OTHER                                         -> "none"

\* handleInternal, up to the call of the store.
Ask(k, verb, key) ==
    /\ call[k].step = "unsent"
    /\ <<verb, key>> \in Asked[k]
    /\ Become(k, [step  |-> IF Verdict(k, verb, key) = "none" THEN "called" ELSE "answered",
                  verb  |-> verb, key |-> key,
                  reply |-> Plainly(Verdict(k, verb, key)),
                  heard |-> {j \in Call : call[j].step = "answered"},
                  over  |-> {}])
    /\ UNCHANGED <<row, past>>

Arrives(k, verb) == call[k].step = "called" /\ call[k].verb = verb

Done(k, reply) == Become(k, [call[k] EXCEPT !.step = "done", !.reply = reply])

Get(k) ==
    /\ Arrives(k, "get")
    /\ Done(k, [Plainly("value") EXCEPT !.value = row[call[k].key]])
    /\ UNCHANGED <<row, past>>

\* What a key will have held when its row is overwritten or removed.
Before(key) == past[key] \cup ({row[key]} \ {NoValue})

\* A replaced value stays replaced: each set has a value of its own.
Replace(k, value, tag) ==
    LET key == call[k].key
    IN  /\ row' = [row EXCEPT ![key] = value]
        /\ past' = [past EXCEPT ![key] = Before(key)]
        /\ Become(k, [call[k] EXCEPT !.step = "done", !.reply = Plainly(tag), !.over = Before(key)])

\* Mutant: the answer does not wait for the store.
SetUnawaited(k) ==
    /\ Arrives(k, "set")
    /\ Become(k, [call[k] EXCEPT !.step = "done", !.reply = Plainly("stored"),
                                 !.over = Before(call[k].key)])
    /\ UNCHANGED <<row, past>>

\* Mutant: a row that is there is left alone.
SetOnce(k) ==
    LET held == row[call[k].key]
    IN  Arrives(k, "set") /\ Replace(k, IF held = NoValue THEN k ELSE held, "stored")

\* An upsert.
Set(k) == Arrives(k, "set") /\ Replace(k, k, "stored")

\* Mutant: whether there is a row is not read where it is removed.
RemoveUnread(k) == Arrives(k, "delete") /\ Replace(k, NoValue, "deleted")

\* remove: whether there was one is read with it.
Remove(k) ==
    /\ Arrives(k, "delete")
    /\ Replace(k, NoValue, IF row[call[k].key] = NoValue THEN "not there" ELSE "deleted")

Present == {key \in Key : row[key] # NoValue}

\* ORDER BY key LIMIT n.
Earlier(s, S) == {t \in S : Less(t, s)}

First(n, S) == {s \in S : Cardinality(Earlier(s, S)) < n}

\* Mutant: no row is asked for beyond the bound.
ListAnswerUncut(prefix) ==
    LET rows == First(ListBound, {key \in Present : InRange(key, prefix)})
    IN  [Plainly("list") EXCEPT !.keys  = First(ListBound, rows),
                                !.cut   = Cardinality(rows) > ListBound,
                                !.whole = {key \in Present : HasPrefix(key, prefix)}]

\* One row more than the bound is asked for, to know whether there is one.
ListAnswer(prefix) ==
    LET rows == First(ListBound + 1, {key \in Present : InRange(key, prefix)})
    IN  [Plainly("list") EXCEPT !.keys  = First(ListBound, rows),
                                !.cut   = Cardinality(rows) > ListBound,
                                !.whole = {key \in Present : HasPrefix(key, prefix)}]

List(k) ==
    /\ Arrives(k, "list")
    /\ Done(k, ListAnswer(call[k].key))
    /\ UNCHANGED <<row, past>>

\* The store's answer comes back.
Answered(k) ==
    /\ call[k].step = "done"
    /\ Become(k, [call[k] EXCEPT !.step = "answered"])
    /\ UNCHANGED <<row, past>>

\* The call of the store rejects, before it took effect or after.
Lost(k) ==
    /\ call[k].step \in {"called", "done"}
    /\ Become(k, [call[k] EXCEPT !.step = "lost"])
    /\ UNCHANGED <<row, past>>

StorageStep(k) ==
    \/ \E verb \in Verb, key \in Spelling \cup {<<>>} : Ask(k, verb, key)
    \/ Get(k) \/ Set(k) \/ Remove(k) \/ List(k) \/ Answered(k) \/ Lost(k)
=============================================================================

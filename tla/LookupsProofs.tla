---------------------------- MODULE LookupsProofs -----------------------------
(***************************************************************************)
(* What Lookups keeps, for any keys, values, bounds, packages and scores.  *)
(***************************************************************************)
EXTENDS Lookups, LeastNumbers, SequenceTheorems

----------------------------------------------------------------------------
(* The order of the keys, and the first n of them                          *)

LEMMA LessIrreflexive == \A s \in Seq(Nat) : ~ Less(s, s)
  BY DEF Less

LEMMA LessTransitive ==
    ASSUME NEW s \in Seq(Nat), NEW t \in Seq(Nat), NEW u \in Seq(Nat), Less(s, t), Less(t, u)
    PROVE  Less(s, u)
<1>1. PICK i \in 1 .. Len(t) : /\ i <= Len(s) + 1
                               /\ \A j \in 1 .. i - 1 : s[j] = t[j]
                               /\ i <= Len(s) => s[i] < t[i]
  BY DEF Less
<1>2. PICK k \in 1 .. Len(u) : /\ k <= Len(t) + 1
                               /\ \A j \in 1 .. k - 1 : t[j] = u[j]
                               /\ k <= Len(t) => t[k] < u[k]
  BY DEF Less
<1>3. CASE i < k
  <2>1. i \in 1 .. Len(u) /\ t[i] = u[i]
    BY <1>1, <1>2, <1>3
  <2>2. \A j \in 1 .. i - 1 : s[j] = u[j]
    BY <1>1, <1>2, <1>3
  <2> QED BY <1>1, <2>1, <2>2 DEF Less
<1>4. CASE k <= i
  <2>1. k \in 1 .. Len(u) /\ k <= Len(s) + 1 /\ k <= Len(t)
    BY <1>1, <1>2, <1>4
  <2>2. \A j \in 1 .. k - 1 : s[j] = u[j]
    BY <1>1, <1>2, <1>4
  <2>3. k <= Len(s) => s[k] < u[k]
    <3> SUFFICES ASSUME k <= Len(s) PROVE s[k] < u[k]
      OBVIOUS
    <3> k \in 1 .. Len(s) /\ k \in 1 .. Len(t) /\ k \in 1 .. Len(u)
      BY <2>1
    <3>1. s[k] \in Nat /\ t[k] \in Nat /\ u[k] \in Nat
      BY ElementOfSeq
    <3>2. s[k] <= t[k]
      <4>1. CASE k = i
        BY <1>1, <3>1, <4>1
      <4>2. CASE k # i
        BY <1>1, <1>4, <3>1, <4>2
      <4> QED BY <4>1, <4>2
    <3>3. t[k] < u[k]
      BY <1>2, <2>1
    <3> QED BY ONLY <3>1, <3>2, <3>3, SMTT(30)
  <2> QED BY <2>1, <2>2, <2>3 DEF Less
<1> QED BY <1>3, <1>4

LEMMA LessTotal ==
    ASSUME NEW s \in Seq(Nat), NEW t \in Seq(Nat), s # t, ~ Less(s, t)
    PROVE  Less(t, s)
<1> DEFINE D == {i \in Nat \ {0} : \/ i \in 1 .. Len(s) /\ i \in 1 .. Len(t) /\ s[i] # t[i]
                                  \/ i > Len(s) \/ i > Len(t)}
<1>1. D # {}
  <2>1. Len(s) + 1 \in D
    OBVIOUS
  <2> QED BY <2>1
<1>2. PICK m \in D : \A n \in D : m <= n
  BY <1>1, LeastNumber
<1>3. \A j \in 1 .. m - 1 : j \in 1 .. Len(s) /\ j \in 1 .. Len(t) /\ s[j] = t[j]
  BY <1>2
<1>4. m <= Len(s) + 1 /\ m <= Len(t) + 1
  BY <1>3, <1>2
<1>5. CASE m \in 1 .. Len(s) /\ m \in 1 .. Len(t)
  <2>1. s[m] # t[m] /\ s[m] \in Nat /\ t[m] \in Nat
    BY <1>2, <1>5
  <2>2. ~ (s[m] < t[m])
    BY <1>3, <1>4, <1>5 DEF Less
  <2> QED BY <1>3, <1>4, <1>5, <2>1, <2>2 DEF Less
<1>6. CASE m > Len(s) /\ m \in 1 .. Len(t)
  BY <1>3, <1>4, <1>6 DEF Less
<1>7. CASE m > Len(t) /\ m \in 1 .. Len(s)
  BY <1>3, <1>4, <1>7 DEF Less
<1>8. CASE m > Len(s) /\ m > Len(t)
  <2>1. Len(s) = Len(t)
    BY <1>4, <1>8
  <2>2. \A j \in 1 .. Len(s) : s[j] = t[j]
    BY <1>3, <1>8
  <2> QED BY <2>1, <2>2, SeqEqual
<1> QED BY <1>2, <1>5, <1>6, <1>7, <1>8

\* The range that is scanned for a prefix is the keys with the prefix.
LEMMA RangeIsPrefix ==
    ASSUME NEW key \in Key, NEW prefix \in Seq(Nat)
    PROVE  InRange(key, prefix) <=> HasPrefix(key, prefix)
<1>1. key \in Seq(Nat) /\ \A i \in 1 .. Len(key) : key[i] < Del
  BY StorageAssumption DEF Key, IsKey
<1>2. /\ Append(prefix, Del) \in Seq(Nat)
      /\ Len(Append(prefix, Del)) = Len(prefix) + 1
      /\ Append(prefix, Del)[Len(prefix) + 1] = Del
      /\ \A i \in 1 .. Len(prefix) : Append(prefix, Del)[i] = prefix[i]
  BY StorageAssumption
<1> DEFINE up == Append(prefix, Del)
<1>3. ASSUME HasPrefix(key, prefix) PROVE InRange(key, prefix)
  <2>1. ~ Less(key, prefix)
    BY <1>1, <1>3 DEF Less, HasPrefix
  <2>2. Less(key, up)
    <3> DEFINE i == Len(prefix) + 1
    <3>1. i \in 1 .. Len(up) /\ i <= Len(key) + 1
      BY <1>1, <1>2, <1>3 DEF HasPrefix
    <3>2. \A j \in 1 .. i - 1 : key[j] = up[j]
      BY <1>2, <1>3 DEF HasPrefix
    <3>3. i <= Len(key) => key[i] < up[i]
      BY <1>1, <1>2
    <3> QED BY <3>1, <3>2, <3>3 DEF Less
  <2> QED BY <2>1, <2>2 DEF InRange
<1>4. ASSUME InRange(key, prefix) PROVE HasPrefix(key, prefix)
  <2>1. PICK i \in 1 .. Len(up) : /\ i <= Len(key) + 1
                                  /\ \A j \in 1 .. i - 1 : key[j] = up[j]
                                  /\ i <= Len(key) => key[i] < up[i]
    BY <1>4 DEF InRange, Less
  <2>2. CASE i = Len(prefix) + 1
    BY <1>1, <1>2, <2>1, <2>2 DEF HasPrefix
  <2>3. CASE i <= Len(prefix)
    <3>1. Less(key, prefix)
      BY <1>2, <2>1, <2>3 DEF Less
    <3> QED BY <1>4, <3>1 DEF InRange
  <2> QED BY <1>2, <2>1, <2>2, <2>3
<1> QED BY <1>3, <1>4

\* A listing's first n: all of them, or n, before the others.
LEMMA EarlierStrict ==
    ASSUME NEW S \in SUBSET Seq(Nat), NEW s \in S, NEW t \in S, Less(t, s)
    PROVE  Earlier(t, S) \subseteq Earlier(s, S) /\ Earlier(t, S) # Earlier(s, S)
<1>1. t \in Earlier(s, S) /\ t \notin Earlier(t, S)
  BY LessIrreflexive DEF Earlier
<1>2. ASSUME NEW u \in Earlier(t, S) PROVE u \in Earlier(s, S)
  BY <1>2, LessTransitive DEF Earlier
<1> QED BY <1>1, <1>2

LEMMA EarlierFinite ==
    ASSUME NEW S, IsFiniteSet(S), NEW s
    PROVE  /\ Earlier(s, S) \in SUBSET S
           /\ IsFiniteSet(Earlier(s, S)) /\ Cardinality(Earlier(s, S)) \in Nat
  BY FS_Subset, FS_CardinalityType DEF Earlier

LEMMA FirstIsFirst ==
    ASSUME NEW S \in SUBSET Seq(Nat), IsFiniteSet(S), NEW n \in Nat,
           NEW s \in S \ First(n, S), NEW t \in First(n, S)
    PROVE  Less(t, s)
<1>1. s \in S /\ t \in S
  BY DEF First
<1>2. SUFFICES ASSUME Less(s, t) PROVE FALSE
  BY <1>1, LessTotal
<1>3. Cardinality(Earlier(s, S)) <= Cardinality(Earlier(t, S))
  BY <1>1, <1>2, EarlierStrict, EarlierFinite, FS_Subset
<1>4. Cardinality(Earlier(t, S)) < n /\ ~ (Cardinality(Earlier(s, S)) < n)
  BY <1>1 DEF First
<1> QED BY <1>1, <1>3, <1>4, EarlierFinite

LEMMA FirstIsFull ==
    ASSUME NEW S \in SUBSET Seq(Nat), IsFiniteSet(S), NEW n \in Nat, First(n, S) # S
    PROVE  Cardinality(First(n, S)) >= n
<1> DEFINE Rest == {Earlier(s, S) : s \in S \ First(n, S)}
<1>1. Rest \subseteq FiniteSubsetsOf(S) /\ Rest # {}
  <2>1. First(n, S) \subseteq S
    BY DEF First
  <2>2. \A s \in S : Earlier(s, S) \in FiniteSubsetsOf(S)
    BY EarlierFinite DEF FiniteSubsetsOf
  <2> QED BY <2>1, <2>2
<1>2. PICK D \in Rest : \A E \in Rest : <<E, D>> \notin StrictSubsetOrdering(S)
  <2> HIDE DEF Rest
  <2> QED BY <1>1, FS_StrictSubsetOrderingWellFounded, WFMin
<1>3. PICK s \in S \ First(n, S) : D = Earlier(s, S)
  BY <1>2
<1>4. Earlier(s, S) \subseteq First(n, S)
  <2> SUFFICES ASSUME NEW t \in Earlier(s, S), t \notin First(n, S) PROVE FALSE
    OBVIOUS
  <2>1. t \in S /\ Less(t, s)
    BY DEF Earlier
  <2>2. <<Earlier(t, S), D>> \in StrictSubsetOrdering(S)
    BY <1>3, <2>1, EarlierStrict, EarlierFinite DEF StrictSubsetOrdering
  <2> QED BY <1>2, <2>1, <2>2
<1>5. Cardinality(Earlier(s, S)) >= n
  BY <1>3, EarlierFinite DEF First
<1>6. IsFiniteSet(First(n, S)) /\ Cardinality(First(n, S)) \in Nat
  BY FS_Subset, FS_CardinalityType DEF First
<1>7. Cardinality(Earlier(s, S)) <= Cardinality(First(n, S))
  BY <1>4, <1>6, FS_Subset
<1> QED BY <1>5, <1>6, <1>7, EarlierFinite

LEMMA FirstIsBounded ==
    ASSUME NEW S \in SUBSET Seq(Nat), IsFiniteSet(S), NEW n \in Nat
    PROVE  Cardinality(First(n, S)) <= n
<1>1. IsFiniteSet(First(n, S)) /\ First(n, S) \subseteq S
  BY FS_Subset DEF First
<1>2. CASE First(n, S) = {}
  BY <1>2, FS_EmptySet
<1>3. CASE First(n, S) # {}
  <2> DEFINE Above(t) == S \ Earlier(t, S)
             Tops == {Above(t) : t \in First(n, S)}
  <2>1. Tops \subseteq FiniteSubsetsOf(S) /\ Tops # {}
    <3>1. \A t \in First(n, S) : Above(t) \in FiniteSubsetsOf(S)
      BY FS_Subset DEF FiniteSubsetsOf
    <3> QED BY <1>3, <3>1
  <2>2. PICK D \in Tops : \A E \in Tops : <<E, D>> \notin StrictSubsetOrdering(S)
    <3> HIDE DEF Tops
    <3> QED BY <2>1, FS_StrictSubsetOrderingWellFounded, WFMin
  <2>3. PICK m \in First(n, S) : D = Above(m)
    BY <2>2
  <2>4. First(n, S) \subseteq Earlier(m, S) \cup {m}
    <3> SUFFICES ASSUME NEW t \in First(n, S), t # m, t \notin Earlier(m, S) PROVE FALSE
      OBVIOUS
    <3>1. Less(m, t)
      BY <1>1, LessTotal DEF Earlier
    <3>2. Earlier(m, S) \subseteq Earlier(t, S) /\ Earlier(m, S) # Earlier(t, S)
      BY <1>1, <3>1, EarlierStrict
    <3>3. Earlier(t, S) \subseteq S
      BY DEF Earlier
    <3>4. <<Above(t), D>> \in StrictSubsetOrdering(S)
      BY <2>3, <3>2, <3>3 DEF StrictSubsetOrdering
    <3> QED BY <2>2, <3>4
  <2>5. IsFiniteSet(Earlier(m, S)) /\ Cardinality(Earlier(m, S)) \in Nat
    BY EarlierFinite
  <2>6. m \notin Earlier(m, S)
    BY <1>1, LessIrreflexive DEF Earlier
  <2>7. /\ IsFiniteSet(Earlier(m, S) \cup {m})
        /\ Cardinality(Earlier(m, S) \cup {m}) = Cardinality(Earlier(m, S)) + 1
    BY <2>5, <2>6, FS_AddElement
  <2>8. Cardinality(First(n, S)) <= Cardinality(Earlier(m, S)) + 1
    BY <2>4, <2>7, FS_Subset
  <2>9. Cardinality(Earlier(m, S)) < n
    BY DEF First
  <2> QED BY <1>1, <2>5, <2>8, <2>9, FS_CardinalityType
<1> QED BY <1>2, <1>3

\* What a list answers, against what there is.
LEMMA ListIsExact ==
    ASSUME TypeOK, NEW prefix \in Seq(Nat)
    PROVE  LET reply == ListAnswer(prefix)
           IN  /\ reply.tag = "list"
               /\ reply.whole = {key \in Present : HasPrefix(key, prefix)}
               /\ IF reply.cut
                  THEN /\ reply.keys \subseteq reply.whole
                       /\ Cardinality(reply.keys) = ListBound
                       /\ Cardinality(reply.whole) > ListBound
                       /\ \A s \in reply.whole \ reply.keys, t \in reply.keys : Less(t, s)
                  ELSE reply.keys = reply.whole
<1> DEFINE S == {key \in Present : InRange(key, prefix)}
           rows == First(ListBound + 1, S)
           keys == First(ListBound, rows)
           whole == {key \in Present : HasPrefix(key, prefix)}
<1>1. /\ ListAnswer(prefix).tag = "list" /\ ListAnswer(prefix).keys = keys
      /\ ListAnswer(prefix).cut = (Cardinality(rows) > ListBound)
      /\ ListAnswer(prefix).whole = whole
  BY DEF ListAnswer, Plainly
<1>2. S = whole
  BY RangeIsPrefix DEF Present
<1>3. S \in SUBSET Seq(Nat) /\ IsFiniteSet(S) /\ S \subseteq Key
  BY FS_Subset, StorageAssumption DEF Present, Key
<1>4. ListBound \in Nat
  BY StorageAssumption
<1>5. rows \subseteq S /\ keys \subseteq rows
  BY DEF First
<1>6. IsFiniteSet(rows) /\ rows \in SUBSET Seq(Nat) /\ Cardinality(rows) \in Nat
  BY <1>3, <1>5, FS_Subset, FS_CardinalityType
<1>7. IsFiniteSet(keys) /\ Cardinality(keys) \in Nat /\ Cardinality(keys) <= ListBound
  BY <1>4, <1>5, <1>6, FS_Subset, FS_CardinalityType, FirstIsBounded
<1> HIDE DEF S, rows, keys, whole
<1>8. CASE Cardinality(rows) > ListBound
  <2>1. keys # rows
    BY <1>4, <1>6, <1>7, <1>8
  <2>2. Cardinality(keys) = ListBound
    BY <1>4, <1>6, <1>7, <2>1, FirstIsFull DEF keys
  <2>3. Cardinality(S) > ListBound
    BY <1>3, <1>4, <1>5, <1>6, <1>8, FS_Subset, FS_CardinalityType
  <2>4. ASSUME NEW s \in S \ keys, NEW t \in keys PROVE Less(t, s)
    <3>1. CASE s \in rows
      BY <1>4, <1>6, <3>1, <2>4, FirstIsFirst DEF keys
    <3>2. CASE s \notin rows
      BY <1>3, <1>4, <1>5, <3>2, <2>4, FirstIsFirst DEF rows
    <3> QED BY <3>1, <3>2
  <2>5. ListAnswer(prefix).cut
    BY <1>1, <1>8
  <2>6. keys \subseteq whole /\ Cardinality(whole) > ListBound
    BY <1>2, <1>5, <2>3
  <2>7. \A s \in whole \ keys, t \in keys : Less(t, s)
    BY <1>2, <2>4
  <2> QED BY <1>1, <2>2, <2>5, <2>6, <2>7, Zenon DEF whole
<1>9. CASE ~ (Cardinality(rows) > ListBound)
  <2>1. rows = S
    <3> SUFFICES ASSUME rows # S PROVE FALSE
      OBVIOUS
    <3>1. Cardinality(rows) >= ListBound + 1
      BY <1>3, <1>4, FirstIsFull DEF rows
    <3> QED BY <1>4, <1>6, <1>9, <3>1
  <2>2. keys = rows
    <3>1. \A s \in rows : Earlier(s, rows) \subseteq rows \ {s}
      BY <1>6, LessIrreflexive DEF Earlier
    <3>2. ASSUME NEW s \in rows PROVE Cardinality(Earlier(s, rows)) < ListBound
      <4>1. /\ IsFiniteSet(rows \ {s})
            /\ Cardinality(rows \ {s}) = Cardinality(rows) - 1
        BY <1>6, FS_RemoveElement
      <4>2. Cardinality(Earlier(s, rows)) <= Cardinality(rows \ {s})
        BY <3>1, <4>1, FS_Subset
      <4> QED BY <1>4, <1>6, <1>9, <4>1, <4>2, EarlierFinite
    <3> QED BY <3>2 DEF keys, First
  <2>3. ~ ListAnswer(prefix).cut
    BY <1>1, <1>9
  <2> QED BY <1>1, <1>2, <2>1, <2>2, <2>3, Zenon DEF whole
<1> QED BY <1>8, <1>9

----------------------------------------------------------------------------
(* What a storage step does                                                *)

\* Only call k moves.
Moves(k) ==
    /\ call' \in [Call -> CallState]
    /\ \A j \in Call \ {k} : call'[j] = call[j]

\* What was asked is kept.
Keeps(k) ==
    /\ call'[k].verb = call[k].verb /\ call'[k].key = call[k].key
    /\ call'[k].heard = call[k].heard

Asks(k) ==
    /\ call[k].step = "unsent" /\ call'[k].step \in {"called", "answered"}
    /\ call'[k].reply.tag \in {"none", "invalid", "too large"}
    /\ call'[k].over = {}
    /\ call'[k].heard = {j \in Call : call[j].step = "answered"}
    /\ call'[k].step = "called" =>
          /\ call'[k].reply = Plainly("none")
          /\ call'[k].verb # "list" => call'[k].key \in Key
    /\ row' = row /\ past' = past

Reads(k) ==
    /\ call[k].step = "called" /\ call'[k].step = "done" /\ Keeps(k)
    /\ call[k].key \in Key /\ call'[k].over = call[k].over
    /\ call'[k].reply.tag = "value" /\ call'[k].reply.value = row[call[k].key]
    /\ row' = row /\ past' = past

Lists(k) ==
    /\ call[k].step = "called" /\ call'[k].step = "done" /\ Keeps(k)
    /\ call'[k].over = call[k].over
    /\ call'[k].reply = ListAnswer(call[k].key)
    /\ row' = row /\ past' = past

Replaces(k) ==
    /\ call[k].step = "called" /\ call'[k].step = "done" /\ Keeps(k)
    /\ call[k].key \in Key /\ call'[k].over = Before(call[k].key)
    /\ past' = [past EXCEPT ![call[k].key] = Before(call[k].key)]
    /\ \/ /\ call[k].verb = "set" /\ call'[k].reply.tag = "stored"
          /\ row' = [row EXCEPT ![call[k].key] = k]
       \/ /\ call[k].verb = "delete" /\ row' = [row EXCEPT ![call[k].key] = NoValue]
          /\ call'[k].reply.tag \in {"deleted", "not there"}
          /\ call'[k].reply.tag = "deleted" => row[call[k].key] # NoValue

Finishes(k) ==
    /\ call[k].step \in {"called", "done"} /\ call'[k].step \in {"answered", "lost"} /\ Keeps(k)
    /\ call'[k].reply = call[k].reply /\ call'[k].over = call[k].over
    /\ row' = row /\ past' = past

LEMMA PlainlyType ==
    ASSUME NEW tag \in {"none", "invalid", "too large", "value", "stored", "deleted",
                        "not there", "list"}
    PROVE  Plainly(tag) \in Reply /\ Plainly(tag).tag = tag
  BY DEF Plainly, Reply

LEMMA BecomeMoves ==
    ASSUME TypeOK, NEW k \in Call, NEW c \in CallState, Become(k, c)
    PROVE  Moves(k) /\ call'[k] = c
  BY DEF TypeOK, Become, Moves

LEMMA DoneMoves ==
    ASSUME TypeOK, NEW k \in Call, NEW r \in Reply, Done(k, r)
    PROVE  /\ Moves(k) /\ Keeps(k) /\ call'[k].step = "done"
           /\ call'[k].reply = r /\ call'[k].over = call[k].over
<1>1. call[k] \in CallState
  BY DEF TypeOK
<1> DEFINE c == [call[k] EXCEPT !.step = "done", !.reply = r]
<1>2. /\ c \in CallState /\ c.step = "done" /\ c.reply = r /\ c.over = call[k].over
      /\ c.verb = call[k].verb /\ c.key = call[k].key /\ c.heard = call[k].heard
  BY <1>1 DEF CallState
<1> HIDE DEF c
<1>3. Become(k, c)
  BY DEF Done, c
<1> QED BY <1>2, <1>3, BecomeMoves DEF Keeps

LEMMA AskAsks ==
    ASSUME TypeOK, NEW k \in Call, NEW verb \in Verb, NEW key \in Spelling \cup {<<>>},
           Ask(k, verb, key)
    PROVE  Moves(k) /\ Asks(k)
<1> DEFINE v == Verdict(k, verb, key)
           c == [step  |-> IF v = "none" THEN "called" ELSE "answered",
                 verb  |-> verb, key |-> key,
                 reply |-> Plainly(v),
                 heard |-> {j \in Call : call[j].step = "answered"},
                 over  |-> {}]
<1>1. v \in {"none", "invalid", "too large"} /\ (v = "none" /\ verb # "list" => IsKey(key))
  BY DEF Verdict
<1>2. v = "none" /\ verb # "list" => key \in Key
  BY <1>1 DEF Key, IsKey
<1>3. Become(k, c) /\ call[k].step = "unsent" /\ row' = row /\ past' = past
  BY DEF Ask
<1> HIDE DEF v
<1>4. Plainly(v) \in Reply /\ Plainly(v).tag = v
  BY <1>1, PlainlyType
<1>5. c \in CallState
  BY <1>4 DEF CallState
<1>6. /\ c.step = (IF v = "none" THEN "called" ELSE "answered")
      /\ c.verb = verb /\ c.key = key /\ c.reply = Plainly(v) /\ c.over = {}
      /\ c.heard = {j \in Call : call[j].step = "answered"}
  OBVIOUS
<1> HIDE DEF c
<1>7. Moves(k) /\ call'[k] = c
  BY <1>3, <1>5, BecomeMoves
<1>8. c.step \in {"called", "answered"} /\ (c.step = "called" => v = "none")
  BY <1>6
<1> QED BY <1>1, <1>2, <1>3, <1>4, <1>6, <1>7, <1>8 DEF Asks

LEMMA GetReads ==
    ASSUME TypeOK, CallsAreChecked, NEW k \in Call, Get(k)
    PROVE  Moves(k) /\ Reads(k)
<1>1. call[k].key \in Key /\ call[k].step = "called"
  BY DEF Get, Arrives, CallsAreChecked
<1> DEFINE r == [Plainly("value") EXCEPT !.value = row[call[k].key]]
<1>2. r \in Reply /\ r.tag = "value" /\ r.value = row[call[k].key]
  BY <1>1 DEF Plainly, Reply, TypeOK
<1>3. Done(k, r) /\ row' = row /\ past' = past
  BY DEF Get
<1> HIDE DEF r
<1> QED BY <1>1, <1>2, <1>3, DoneMoves DEF Reads

LEMMA ListLists ==
    ASSUME TypeOK, NEW k \in Call, List(k)
    PROVE  Moves(k) /\ Lists(k)
<1> DEFINE r == ListAnswer(call[k].key)
<1>1. r \in Reply
  <2>1. ASSUME NEW K \in SUBSET Key, NEW W \in SUBSET Key, NEW c \in BOOLEAN
        PROVE  [Plainly("list") EXCEPT !.keys = K, !.cut = c, !.whole = W] \in Reply
    BY DEF Plainly, Reply
  <2> DEFINE S == {key \in Present : InRange(key, call[k].key)}
             W == {key \in Present : HasPrefix(key, call[k].key)}
             rows == First(ListBound + 1, S)
             K == First(ListBound, rows)
  <2>2. S \subseteq Key /\ W \subseteq Key
    BY DEF Present
  <2>3. K \in SUBSET Key /\ W \in SUBSET Key
    BY <2>2 DEF First
  <2>4. r = [Plainly("list") EXCEPT !.keys = K, !.cut = Cardinality(rows) > ListBound, !.whole = W]
    BY DEF ListAnswer
  <2>5. (Cardinality(rows) > ListBound) \in BOOLEAN
    OBVIOUS
  <2> HIDE DEF S, W, rows, K, r
  <2> QED BY <2>1, <2>3, <2>4, <2>5
<1>2. Done(k, r) /\ row' = row /\ past' = past /\ call[k].step = "called"
  BY DEF List, Arrives
<1> HIDE DEF r
<1>3. Moves(k) /\ Keeps(k) /\ call'[k].step = "done" /\ call'[k].reply = r
      /\ call'[k].over = call[k].over
  BY <1>1, <1>2, DoneMoves
<1> QED BY <1>2, <1>3 DEF Lists, r

LEMMA ReplaceReplaces ==
    ASSUME TypeOK, NEW k \in Call, NEW value, call[k].key \in Key, call[k].step = "called",
           NEW tag \in {"stored", "deleted", "not there"}, Replace(k, value, tag)
    PROVE  /\ Moves(k) /\ Keeps(k) /\ call'[k].step = "done"
           /\ call'[k].reply.tag = tag /\ call'[k].over = Before(call[k].key)
           /\ past' = [past EXCEPT ![call[k].key] = Before(call[k].key)]
           /\ row' = [row EXCEPT ![call[k].key] = value]
<1>1. call[k] \in CallState /\ Before(call[k].key) \in SUBSET Call
  BY DEF TypeOK, Before
<1>2. Plainly(tag) \in Reply /\ Plainly(tag).tag = tag
  BY PlainlyType
<1> DEFINE b == Before(call[k].key)
           r == Plainly(tag)
           c == [call[k] EXCEPT !.step = "done", !.reply = r, !.over = b]
<1>3. /\ Become(k, c)
      /\ past' = [past EXCEPT ![call[k].key] = b]
      /\ row' = [row EXCEPT ![call[k].key] = value]
  BY DEF Replace
<1> HIDE DEF b, r
<1>4. /\ c \in CallState /\ c.step = "done" /\ c.reply = r /\ c.over = b
      /\ c.verb = call[k].verb /\ c.key = call[k].key /\ c.heard = call[k].heard
  BY <1>1, <1>2 DEF CallState, b, r
<1> HIDE DEF c
<1>5. Moves(k) /\ call'[k] = c
  BY <1>3, <1>4, BecomeMoves
<1> QED BY <1>2, <1>3, <1>4, <1>5 DEF Keeps, b, r

LEMMA SetReplaces ==
    ASSUME TypeOK, CallsAreChecked, NEW k \in Call, Set(k) \/ Remove(k)
    PROVE  Moves(k) /\ Replaces(k)
<1>1. call[k].key \in Key /\ call[k].step = "called"
  BY DEF Set, Remove, Arrives, CallsAreChecked
<1>2. CASE Set(k)
  <2>1. Replace(k, k, "stored") /\ call[k].verb = "set"
    BY <1>2 DEF Set, Arrives
  <2> QED BY <1>1, <2>1, ReplaceReplaces DEF Replaces
<1>3. CASE Remove(k)
  <2>1. PICK tag \in {"deleted", "not there"} :
            Replace(k, NoValue, tag) /\ (tag = "deleted" => row[call[k].key] # NoValue)
    BY <1>3 DEF Remove
  <2>2. call[k].verb = "delete"
    BY <1>3 DEF Remove, Arrives
  <2>3. /\ Moves(k) /\ Keeps(k) /\ call'[k].step = "done"
        /\ call'[k].reply.tag = tag /\ call'[k].over = Before(call[k].key)
        /\ past' = [past EXCEPT ![call[k].key] = Before(call[k].key)]
        /\ row' = [row EXCEPT ![call[k].key] = NoValue]
    <3>1. tag \in {"stored", "deleted", "not there"} /\ Replace(k, NoValue, tag)
      BY <2>1
    <3> QED BY <1>1, <3>1, ReplaceReplaces, ZenonT(30)
  <2> QED BY <1>1, <2>1, <2>2, <2>3 DEF Replaces
<1> QED BY <1>2, <1>3

LEMMA FinishFinishes ==
    ASSUME TypeOK, NEW k \in Call, Answered(k) \/ Lost(k)
    PROVE  Moves(k) /\ Finishes(k)
<1>1. call[k] \in CallState
  BY DEF TypeOK
<1>2. PICK step \in {"answered", "lost"} :
          /\ Become(k, [call[k] EXCEPT !.step = step])
          /\ row' = row /\ past' = past /\ call[k].step \in {"called", "done"}
  BY DEF Answered, Lost
<1> DEFINE c == [call[k] EXCEPT !.step = step]
<1>3. /\ c \in CallState /\ c.step = step /\ c.reply = call[k].reply /\ c.over = call[k].over
      /\ c.verb = call[k].verb /\ c.key = call[k].key /\ c.heard = call[k].heard
  BY <1>1 DEF CallState
<1>4. Become(k, c)
  BY <1>2
<1> HIDE DEF c
<1> QED BY <1>2, <1>3, <1>4, BecomeMoves DEF Finishes, Keeps

LEMMA StorageSteps ==
    ASSUME TypeOK, CallsAreChecked, NEW k \in Call, StorageStep(k)
    PROVE  Moves(k) /\ (Asks(k) \/ Reads(k) \/ Lists(k) \/ Replaces(k) \/ Finishes(k))
  BY AskAsks, GetReads, ListLists, SetReplaces, FinishFinishes DEF StorageStep

----------------------------------------------------------------------------
(* The storage part                                                        *)

\* A storage step of k, by what it does.
Moved(k) ==
    /\ Moves(k) /\ (Asks(k) \/ Reads(k) \/ Lists(k) \/ Replaces(k) \/ Finishes(k))
    /\ UNCHANGED discovery

LEMMA TypeKept ==
    ASSUME TypeOK, NEW k \in Call, Moved(k)
    PROVE  TypeOK'
<1>1. call' \in [Call -> CallState] /\ published' = published /\ search' = search
  BY DEF Moved, Moves, discovery
<1>2. CASE row' = row /\ past' = past
  BY <1>1, <1>2 DEF TypeOK
<1>3. CASE Replaces(k)
  <2> call[k].key \in Key
    BY <1>3 DEF Replaces
  <2>1. Before(call[k].key) \in SUBSET Call
    BY DEF Before, TypeOK
  <2>2. past' \in [Key -> SUBSET Call]
    BY <1>3, <2>1 DEF Replaces, TypeOK
  <2>3. row' \in [Key -> Call \cup {NoValue}]
    BY <1>3, <2>1 DEF Replaces, TypeOK
  <2> QED BY <1>1, <2>2, <2>3 DEF TypeOK
<1> QED BY <1>2, <1>3 DEF Moved, Asks, Reads, Lists, Finishes

\* What other calls' records tell is as it was, and what k's tells.
LEMMA PastGrows ==
    ASSUME TypeOK, NEW k \in Call, Moved(k), NEW key \in Key
    PROVE  /\ past[key] \subseteq past'[key]
           /\ ~ Replaces(k) \/ key # call[k].key => row'[key] = row[key] /\ past'[key] = past[key]
           /\ Replaces(k) /\ key = call[k].key =>
                 /\ past'[key] = Before(key)
                 /\ row'[key] \in {k, NoValue}
  BY DEF Moved, Asks, Reads, Lists, Replaces, Finishes, Before, TypeOK

LEMMA ChecksKept ==
    ASSUME TypeOK, CallsAreChecked, NEW k \in Call, Moved(k)
    PROVE  CallsAreChecked'
<1> SUFFICES ASSUME NEW j \in Call
             PROVE  /\ call'[j].step = "unsent" => call'[j].verb = "get"
                    /\ call'[j].step \in {"unsent", "called"} =>
                          call'[j].reply = Plainly("none") /\ call'[j].over = {}
                    /\ call'[j].step = "called" /\ call'[j].verb # "list" => call'[j].key \in Key
                    /\ call'[j].over # {} =>
                          call'[j].key \in Key /\ call'[j].over \subseteq past'[call'[j].key]
                    /\ \A i \in call'[j].heard : call'[i].step = "answered"
  BY DEF CallsAreChecked, Plainly, Key
<1>1. \A i \in Call : call[i].step = "answered" => call'[i].step = "answered"
  BY DEF Moved, Moves, Asks, Reads, Lists, Replaces, Finishes
<1>2. \A i \in call[j].heard : i \in Call /\ call'[i].step = "answered"
  BY <1>1 DEF TypeOK, CallState, CallsAreChecked
<1>3. CASE j # k
  <2>1. call'[j] = call[j]
    BY <1>3 DEF Moved, Moves
  <2>2. call[j].over # {} => call[j].key \in Key /\ call[j].over \subseteq past'[call[j].key]
    BY PastGrows DEF CallsAreChecked
  <2> QED BY <1>2, <2>1, <2>2 DEF CallsAreChecked
<1>4. CASE j = k /\ Asks(k)
  BY <1>1, <1>4 DEF Asks
<1>5. CASE j = k /\ (Reads(k) \/ Lists(k) \/ Finishes(k))
  <2>1. /\ call'[k].step \notin {"unsent", "called"} /\ Keeps(k)
        /\ call'[k].over = call[k].over /\ past' = past
    BY <1>5 DEF Reads, Lists, Finishes
  <2> QED BY <1>2, <1>5, <2>1 DEF Keeps, CallsAreChecked
<1>6. CASE j = k /\ Replaces(k)
  <2>1. /\ call'[k].step = "done" /\ Keeps(k) /\ call[k].key \in Key
        /\ call'[k].over = Before(call[k].key)
    BY <1>6 DEF Replaces
  <2>2. past'[call[k].key] = Before(call[k].key)
    BY <1>6, <2>1, PastGrows
  <2> QED BY <1>2, <1>6, <2>1, <2>2 DEF Keeps
<1> QED BY <1>3, <1>4, <1>5, <1>6 DEF Moved

LEMMA FreshKept ==
    ASSUME TypeOK, ValuesAreFresh, NEW k \in Call, Moved(k)
    PROVE  ValuesAreFresh'
<1> SUFFICES ASSUME NEW key \in Key
             PROVE  /\ row'[key] \notin past'[key]
                    /\ \A j \in past'[key] \cup {row'[key]} :
                          j \in Call => call'[j].step \in {"done", "answered", "lost"}
  BY DEF ValuesAreFresh, Key
<1>1. \A j \in Call : call[j].step \in {"done", "answered", "lost"} =>
                          call'[j].step \in {"done", "answered", "lost"}
  BY DEF Moved, Moves, Asks, Reads, Lists, Replaces, Finishes
<1>2. CASE ~ Replaces(k) \/ key # call[k].key
  BY <1>1, <1>2, PastGrows DEF ValuesAreFresh
<1>3. CASE Replaces(k) /\ key = call[k].key
  <2>1. past'[key] = Before(key) /\ row'[key] \in {k, NoValue}
    BY <1>3, PastGrows
  <2>2. call[k].step = "called" /\ call'[k].step = "done"
    BY <1>3 DEF Replaces
  <2>3. k \notin Before(key)
    BY <2>2 DEF Before, ValuesAreFresh
  <2>4. NoValue \notin Before(key)
    BY StorageAssumption DEF Before, TypeOK
  <2>5. \A j \in Before(key) : j \in Call => call'[j].step \in {"done", "answered", "lost"}
    BY <1>1 DEF Before, ValuesAreFresh
  <2> QED BY <2>1, <2>2, <2>3, <2>4, <2>5, StorageAssumption
<1> QED BY <1>2, <1>3

LEMMA StoredKept ==
    ASSUME TypeOK, CallsAreChecked, StoredStays, NEW k \in Call, Moved(k)
    PROVE  StoredStays'
<1> SUFFICES ASSUME NEW j \in Call, call'[j].reply.tag = "stored"
             PROVE  /\ call'[j].key \in Key
                    /\ \/ row'[call'[j].key] # NoValue
                       \/ \E d \in Call : /\ call'[d].verb = "delete"
                                          /\ call'[d].key = call'[j].key
                                          /\ d \notin call'[j].heard
  BY DEF StoredStays, Key
<1>1. \A d \in Call : call[d].verb = "delete" =>
          call'[d].verb = "delete" /\ call'[d].key = call[d].key
  BY DEF Moved, Moves, Asks, Reads, Lists, Replaces, Finishes, Keeps, CallsAreChecked
<1>2. CASE j = k /\ Replaces(k)
  <2>1. call'[k].key = call[k].key /\ call[k].key \in Key /\ row'[call[k].key] = k
    BY <1>2 DEF Replaces, Keeps, TypeOK
  <2> QED BY <1>2, <2>1, StorageAssumption
<1>3. CASE ~ (j = k /\ Replaces(k))
  <2>1. /\ call[j].reply.tag = "stored"
        /\ call'[j].key = call[j].key /\ call'[j].heard = call[j].heard
    <3>1. CASE j # k
      BY <3>1 DEF Moved, Moves
    <3>2. CASE j = k /\ Lists(k)
      BY <3>2 DEF Lists, ListAnswer, Plainly
    <3>3. CASE j = k /\ ~ Lists(k)
      BY <1>3, <3>3 DEF Moved, Asks, Reads, Finishes, Keeps
    <3> QED BY <3>1, <3>2, <3>3
  <2>2. /\ call[j].key \in Key
        /\ \/ row[call[j].key] # NoValue
           \/ \E d \in Call : /\ call[d].verb = "delete" /\ call[d].key = call[j].key
                              /\ d \notin call[j].heard
    BY <2>1 DEF StoredStays
  <2>3. CASE row'[call[j].key] # NoValue
    BY <2>1, <2>2, <2>3
  <2>4. CASE row[call[j].key] # NoValue /\ row'[call[j].key] = NoValue
    <3>1. Replaces(k) /\ call[j].key = call[k].key
      BY <2>2, <2>4, PastGrows
    <3>2. call[k].verb = "delete"
      BY <2>2, <2>4, <3>1, StorageAssumption DEF Replaces, TypeOK
    <3>3. k \notin call[j].heard
      BY <3>1 DEF CallsAreChecked, Replaces
    <3> QED BY <1>1, <2>1, <2>2, <3>1, <3>2, <3>3
  <2>5. CASE row[call[j].key] = NoValue
    BY <1>1, <2>1, <2>2, <2>5
  <2> QED BY <2>3, <2>4, <2>5
<1> QED BY <1>2, <1>3

LEMMA AskedIsSeq == ASSUME TypeOK, NEW k \in Call PROVE call[k].key \in Seq(Nat)
<1>1. call[k].key \in Spelling \cup {<<>>}
  BY DEF TypeOK, CallState
<1> QED BY <1>1, StorageAssumption, EmptySeq

LEMMA ExactKept ==
    ASSUME TypeOK, ListingsAreExact, NEW k \in Call, Moved(k)
    PROVE  ListingsAreExact'
<1> DEFINE Exact(reply) ==
        reply.tag = "list" =>
            IF reply.cut
            THEN /\ reply.keys \subseteq reply.whole
                 /\ Cardinality(reply.keys) = ListBound
                 /\ Cardinality(reply.whole) > ListBound
                 /\ \A s \in reply.whole \ reply.keys, t \in reply.keys : Less(t, s)
            ELSE reply.keys = reply.whole
<1>1. \A j \in Call : Exact(call[j].reply)
  BY DEF ListingsAreExact
<1>2. SUFFICES ASSUME NEW j \in Call PROVE Exact(call'[j].reply)
  BY DEF ListingsAreExact
<1>3. Exact(ListAnswer(call[k].key))
  <2>1. call[k].key \in Seq(Nat)
    BY AskedIsSeq
  <2> QED BY <2>1, ListIsExact
<1> HIDE DEF Exact
<1>4. CASE call'[j].reply = call[j].reply
  BY <1>1, <1>4
<1>5. CASE call'[j].reply = ListAnswer(call[k].key)
  BY <1>3, <1>5
<1>6. CASE call'[j].reply.tag # "list"
  BY <1>6 DEF Exact
<1> QED BY <1>4, <1>5, <1>6 DEF Moved, Moves, Asks, Reads, Lists, Replaces, Finishes

LEMMA SetListed ==
    ASSUME TypeOK, CallsAreChecked, StoredStays, ListingsHaveWhatWasSet, NEW k \in Call, Moved(k)
    PROVE  ListingsHaveWhatWasSet'
<1> SUFFICES ASSUME NEW i \in Call, NEW j \in call'[i].heard,
                    call'[i].reply.tag = "list", ~ call'[i].reply.cut,
                    call'[j].reply.tag = "stored", HasPrefix(call'[j].key, call'[i].key)
             PROVE  \/ call'[j].key \in call'[i].reply.keys
                    \/ \E d \in Call : /\ call'[d].verb = "delete"
                                       /\ call'[d].key = call'[j].key
                                       /\ d \notin call'[j].heard
  BY DEF ListingsHaveWhatWasSet, HasPrefix
<1>1. \A d \in Call : call[d].verb = "delete" =>
          call'[d].verb = "delete" /\ call'[d].key = call[d].key
  BY DEF Moved, Moves, Asks, Reads, Lists, Replaces, Finishes, Keeps, CallsAreChecked
<1>2. ~ (i = k /\ Asks(k))
  BY DEF Asks
<1>3. j \in call[i].heard /\ call'[i].key = call[i].key
  BY <1>2 DEF Moved, Moves, Reads, Lists, Replaces, Finishes, Keeps
<1>4. j \in Call /\ call[j].step = "answered" /\ call'[j] = call[j]
  <2>1. j \in Call /\ call[j].step = "answered"
    BY <1>3 DEF CallsAreChecked, TypeOK, CallState
  <2>2. j # k
    BY <2>1 DEF Moved, Asks, Reads, Lists, Replaces, Finishes
  <2> QED BY <2>1, <2>2 DEF Moved, Moves
<1>5. CASE i = k /\ Lists(k)
  <2>1. call'[i].reply = ListAnswer(call[k].key) /\ call[k].key \in Seq(Nat)
    BY <1>5, AskedIsSeq DEF Lists
  <2>2. call'[i].reply.keys = {key \in Present : HasPrefix(key, call[k].key)}
    BY <2>1, ListIsExact
  <2>3. /\ call[j].key \in Key
        /\ \/ row[call[j].key] # NoValue
           \/ \E d \in Call : /\ call[d].verb = "delete" /\ call[d].key = call[j].key
                              /\ d \notin call[j].heard
    BY <1>4 DEF StoredStays
  <2>4. CASE row[call[j].key] # NoValue
    BY <1>3, <1>4, <1>5, <2>2, <2>3, <2>4 DEF Present
  <2>5. CASE row[call[j].key] = NoValue
    BY <1>1, <1>4, <2>3, <2>5
  <2> QED BY <2>4, <2>5
<1>6. CASE ~ (i = k /\ Lists(k))
  <2>1. call'[i].reply = call[i].reply
    BY <1>2, <1>6 DEF Moved, Moves, Reads, Replaces, Finishes
  <2>2. \/ call[j].key \in call[i].reply.keys
        \/ \E d \in Call : /\ call[d].verb = "delete" /\ call[d].key = call[j].key
                           /\ d \notin call[j].heard
    BY <1>3, <1>4, <2>1 DEF ListingsHaveWhatWasSet
  <2> QED BY <1>1, <1>4, <2>1, <2>2
<1> QED BY <1>5, <1>6

LEMMA ReplacedKept ==
    ASSUME TypeOK, CallsAreChecked, ValuesAreFresh, ReplacedIsNotRead, NEW k \in Call, Moved(k)
    PROVE  ReplacedIsNotRead'
<1> SUFFICES ASSUME NEW i \in Call, NEW j \in call'[i].heard,
                    call'[i].reply.tag = "value", call'[i].key = call'[j].key
             PROVE  call'[i].reply.value \notin call'[j].over
  BY DEF ReplacedIsNotRead
<1>1. j \in call[i].heard /\ call'[i].key = call[i].key
  BY DEF Moved, Moves, Asks, Reads, Lists, Replaces, Finishes, Keeps
<1>2. j \in Call /\ call[j].step = "answered" /\ call'[j] = call[j]
  <2>1. j \in Call /\ call[j].step = "answered"
    BY <1>1 DEF CallsAreChecked, TypeOK, CallState
  <2>2. j # k
    BY <2>1 DEF Moved, Asks, Reads, Lists, Replaces, Finishes
  <2> QED BY <2>1, <2>2 DEF Moved, Moves
<1>3. CASE i = k /\ Reads(k)
  <2>1. call'[i].reply.value = row[call[k].key] /\ call[k].key \in Key
    BY <1>3 DEF Reads
  <2>2. call[j].key = call[k].key
    BY <1>1, <1>2, <1>3
  <2> QED BY <1>2, <2>1, <2>2 DEF CallsAreChecked, ValuesAreFresh
<1>4. CASE ~ (i = k /\ Reads(k))
  <2>1. call'[i].reply = call[i].reply
    <3>1. ~ (i = k /\ Lists(k))
      BY DEF Lists, ListAnswer, Plainly
    <3> QED BY <1>4, <3>1 DEF Moved, Moves, Asks, Replaces, Finishes
  <2> QED BY <1>1, <1>2, <2>1 DEF ReplacedIsNotRead
<1> QED BY <1>3, <1>4

LEMMA DeletesKept ==
    ASSUME TypeOK, CallsAreChecked, ValuesAreFresh, EachDeleteRemovedSomething,
           NEW k \in Call, Moved(k)
    PROVE  EachDeleteRemovedSomething'
<1> DEFINE Told(key) == {d \in Call : call[d].key = key /\ call[d].reply.tag = "deleted"}
           Next_(key) == {d \in Call : call'[d].key = key /\ call'[d].reply.tag = "deleted"}
<1> SUFFICES ASSUME NEW key \in Key PROVE Cardinality(Next_(key)) <= Cardinality(past'[key])
  BY DEF EachDeleteRemovedSomething, Key
<1>1. /\ IsFiniteSet(Told(key)) /\ Cardinality(Told(key)) \in Nat
      /\ Cardinality(Told(key)) <= Cardinality(past[key])
  BY StorageAssumption, FS_Subset, FS_CardinalityType DEF EachDeleteRemovedSomething
<1>2. /\ IsFiniteSet(past'[key]) /\ Cardinality(past'[key]) \in Nat
      /\ IsFiniteSet(past[key]) /\ Cardinality(past[key]) \in Nat
      /\ Cardinality(past[key]) <= Cardinality(past'[key])
  <2>1. past[key] \subseteq past'[key] /\ past'[key] \subseteq Call
    BY TypeKept, PastGrows DEF TypeOK
  <2> QED BY <2>1, StorageAssumption, FS_Subset, FS_CardinalityType
<1>3. CASE Replaces(k) /\ call[k].key = key /\ call'[k].reply.tag = "deleted"
  <2>1. call[k].reply.tag # "deleted" /\ call'[k].key = key
    BY <1>3 DEF Replaces, Keeps, CallsAreChecked, Plainly
  <2>2. Next_(key) = Told(key) \cup {k}
    BY <1>3, <2>1 DEF Moved, Moves
  <2>3. k \notin Told(key)
    BY <2>1
  <2>4. row[key] # NoValue /\ past'[key] = past[key] \cup {row[key]} /\ row[key] \notin past[key]
    <3>1. row[key] # NoValue
      BY <1>3, StorageAssumption DEF Replaces
    <3>2. past'[key] = Before(key)
      BY <1>3, PastGrows
    <3> QED BY <3>1, <3>2 DEF Before, ValuesAreFresh
  <2>5. Cardinality(Next_(key)) = Cardinality(Told(key)) + 1
    BY <1>1, <2>2, <2>3, FS_AddElement
  <2>6. Cardinality(past'[key]) = Cardinality(past[key]) + 1
    BY <1>2, <2>4, FS_AddElement
  <2> QED BY <1>1, <1>2, <2>5, <2>6
<1>4. CASE ~ (Replaces(k) /\ call[k].key = key /\ call'[k].reply.tag = "deleted")
  <2>1. Next_(key) \subseteq Told(key)
    <3> SUFFICES ASSUME NEW d \in Next_(key) PROVE d \in Told(key)
      OBVIOUS
    <3>1. CASE d # k
      BY <3>1 DEF Moved, Moves
    <3>2. CASE d = k
      <4>1. ~ Lists(k)
        BY <3>2 DEF Lists, ListAnswer, Plainly
      <4> QED BY <1>4, <3>2, <4>1 DEF Moved, Asks, Reads, Replaces, Finishes, Keeps
    <3> QED BY <3>1, <3>2
  <2>2. Cardinality(Next_(key)) <= Cardinality(Told(key)) /\ Cardinality(Next_(key)) \in Nat
    BY <1>1, <2>1, FS_Subset, FS_CardinalityType
  <2> QED BY <1>1, <1>2, <2>2
<1> QED BY <1>3, <1>4

----------------------------------------------------------------------------
(* The discovery part                                                      *)

LEMMA PointsType == ASSUME NEW query \in Query, NEW e \in Name PROVE Points(query, e) \in Nat
  BY DiscoveryAssumption DEF Points

LEMMA RanksTransitive ==
    ASSUME NEW query \in Query, NEW e \in Name, NEW f \in Name, NEW g \in Name,
           Ranks(query, e, f), Ranks(query, f, g)
    PROVE  Ranks(query, e, g)
<1>1. Points(query, e) \in Nat /\ Points(query, f) \in Nat /\ Points(query, g) \in Nat
  BY PointsType
<1>2. <<e, f>> \in Alphabetical /\ <<f, g>> \in Alphabetical => <<e, g>> \in Alphabetical
  BY DiscoveryAssumption
<1>3. CASE Points(query, e) > Points(query, g)
  BY <1>3 DEF Ranks
<1>4. CASE ~ (Points(query, e) > Points(query, g))
  <2>1. Points(query, e) = Points(query, f) /\ Points(query, f) = Points(query, g)
    BY <1>1, <1>4 DEF Ranks
  <2>2. /\ \/ e \in Package /\ f \notin Package
           \/ (e \in Package <=> f \in Package) /\ <<e, f>> \in Alphabetical
        /\ \/ f \in Package /\ g \notin Package
           \/ (f \in Package <=> g \in Package) /\ <<f, g>> \in Alphabetical
    BY <1>1, <2>1 DEF Ranks
  <2>3. \/ e \in Package /\ g \notin Package
        \/ (e \in Package <=> g \in Package) /\ <<e, g>> \in Alphabetical
    BY <1>2, <2>2
  <2> QED BY <2>1, <2>3 DEF Ranks
<1> QED BY <1>3, <1>4

LEMMA BestRank ==
    ASSUME NEW query \in Query, NEW S \in SUBSET Name, NEW n \in Nat,
           NEW e \in Best(n, query, S), NEW f \in S \ Best(n, query, S)
    PROVE  ~ Ranks(query, f, e)
<1>1. IsFiniteSet(S)
  BY DiscoveryAssumption, FS_Subset
<1> SUFFICES ASSUME Ranks(query, f, e) PROVE FALSE
  OBVIOUS
<1>2. e \in S /\ f \in S /\ e \in Name /\ f \in Name
  BY DEF Best
<1>3. RanksBefore(query, f, S) \subseteq RanksBefore(query, e, S)
  BY <1>2, RanksTransitive DEF RanksBefore
<1>4. /\ IsFiniteSet(RanksBefore(query, e, S)) /\ Cardinality(RanksBefore(query, e, S)) \in Nat
      /\ Cardinality(RanksBefore(query, f, S)) \in Nat
  BY <1>1, FS_Subset, FS_CardinalityType DEF RanksBefore
<1>5. Cardinality(RanksBefore(query, f, S)) <= Cardinality(RanksBefore(query, e, S))
  BY <1>3, <1>4, FS_Subset
<1>6. /\ Cardinality(RanksBefore(query, e, S)) < n
      /\ ~ (Cardinality(RanksBefore(query, f, S)) < n)
  BY <1>2 DEF Best
<1> QED BY <1>4, <1>5, <1>6

\* What the best of the matches are, and how many are left.
LEMMA BestIsBest ==
    ASSUME NEW query \in Query, NEW S \in SUBSET Name, NEW n \in Nat
    PROVE  /\ Best(n, query, S) \subseteq S
           /\ Cardinality(S) - Cardinality(Best(n, query, S)) \in Nat
           /\ Cardinality(S) - Cardinality(Best(n, query, S)) = Cardinality(S \ Best(n, query, S))
           /\ (Cardinality(S \ Best(n, query, S)) = 0 => S = Best(n, query, S))
           /\ \A e \in Best(n, query, S), f \in S \ Best(n, query, S) :
                 /\ Points(query, e) >= Points(query, f)
                 /\ Points(query, e) = Points(query, f) /\ f \in Package => e \in Package
<1> DEFINE B == Best(n, query, S)
<1>1. B \subseteq S
  BY DEF Best
<1>2. IsFiniteSet(S) /\ Cardinality(S) \in Nat
  BY DiscoveryAssumption, FS_Subset, FS_CardinalityType
<1>3. IsFiniteSet(B) /\ Cardinality(B) \in Nat /\ Cardinality(B) <= Cardinality(S)
  BY <1>1, <1>2, FS_Subset, FS_CardinalityType
<1>4. /\ Cardinality(S \ B) = Cardinality(S) - Cardinality(S \cap B) /\ S \cap B = B
      /\ IsFiniteSet(S \ B)
  BY <1>1, <1>2, FS_Difference
<1>5. Cardinality(S \ B) = 0 => S \ B = {}
  BY <1>4, FS_EmptySet
<1>6. ASSUME NEW e \in B, NEW f \in S \ B
      PROVE  /\ Points(query, e) >= Points(query, f)
             /\ Points(query, e) = Points(query, f) /\ f \in Package => e \in Package
  <2>1. Points(query, e) \in Nat /\ Points(query, f) \in Nat
    BY <1>1, PointsType
  <2>2. ~ Ranks(query, f, e)
    BY BestRank
  <2> QED BY <2>1, <2>2 DEF Ranks
<1> HIDE DEF B
<1>7. Cardinality(S) - Cardinality(B) \in Nat /\ Cardinality(S) - Cardinality(B) = Cardinality(S \ B)
  BY <1>2, <1>3, <1>4
<1>8. Cardinality(S \ B) = 0 => S = B
  BY <1>1, <1>5
<1> QED BY <1>1, <1>6, <1>7, <1>8 DEF B

\* What a search tells, once it has the entries.
Told(c) ==
    /\ c.mode = "query" =>
          LET left == Matched(c.saw, c.query) \ c.shown
          IN  /\ c.more = Cardinality(left)
              /\ \A e \in c.shown, f \in left :
                    Points(c.query, e) >= Points(c.query, f)
                    /\ (Points(c.query, e) = Points(c.query, f) /\ f \in Package => e \in Package)
    /\ \A p \in c.heard :
          \/ p \in c.shown \cup c.hint
          \/ c.more > 0
          \/ IF c.mode = "name" THEN c.name # p ELSE Matched({p}, c.query) = {}

Tells(c) == c.step \in {"credentials", "answered"} => Told(c)

LEMMA TellsAll ==
    BestAreShown /\ PublishedIsFound <=> \A s \in Search : Tells(search[s])
  BY DEF BestAreShown, PublishedIsFound, Tells, Told

LEMMA SlimTells ==
    ASSUME NEW c \in SearchState, NEW A \in SUBSET Name, c.heard \subseteq A,
           c.mode = "query", c.shown = {}, c.hint = {}, c.more = 0
    PROVE  Slim(c, A) \in SearchState /\ Tells(Slim(c, A)) /\ Slim(c, A).heard = c.heard
           /\ Slim(c, A).step # "unasked"
<1> DEFINE M == Matched(A, c.query)
           B == Best(SearchBound, c.query, M)
           none == [c EXCEPT !.step = "credentials", !.saw = A, !.hint = A]
           some == [c EXCEPT !.step = "answered", !.saw = A, !.shown = B,
                             !.more = Cardinality(M) - Cardinality(B)]
<1>1. c.query \in Query /\ M \in SUBSET Name /\ SearchBound \in Nat
  BY DiscoveryAssumption DEF SearchState, Matched
<1>2. CASE M = {}
  <2>1. Slim(c, A) = none
    BY <1>2 DEF Slim
  <2>2. /\ none \in SearchState /\ none.heard = c.heard /\ none.mode = "query" /\ none.saw = A
        /\ none.query = c.query /\ none.shown = {} /\ none.more = 0 /\ none.hint = A
        /\ none.step = "credentials"
    BY DEF SearchState
  <2>3. Matched(none.saw, none.query) = {}
    BY <1>2, <2>2
  <2> HIDE DEF none
  <2>4. Told(none)
    <3>1. none.more = Cardinality(Matched(none.saw, none.query) \ none.shown)
      BY <2>2, <2>3, FS_EmptySet
    <3> QED BY <2>2, <2>3, <3>1 DEF Told
  <2> QED BY <2>1, <2>2, <2>4 DEF Tells
<1>3. CASE M # {}
  <2>1. Slim(c, A) = some
    BY <1>3 DEF Slim
  <2>2. /\ B \subseteq M /\ Cardinality(M) - Cardinality(B) \in Nat
        /\ Cardinality(M) - Cardinality(B) = Cardinality(M \ B)
        /\ (Cardinality(M \ B) = 0 => M = B)
        /\ \A e \in B, f \in M \ B :
              /\ Points(c.query, e) >= Points(c.query, f)
              /\ Points(c.query, e) = Points(c.query, f) /\ f \in Package => e \in Package
    <3> HIDE DEF M
    <3> QED BY <1>1, BestIsBest
  <2>3. \A p \in c.heard : p \in M \/ Matched({p}, c.query) = {}
    BY DEF Matched
  <2> HIDE DEF B, M
  <2>4. /\ some \in SearchState /\ some.heard = c.heard /\ some.mode = "query" /\ some.saw = A
        /\ some.query = c.query /\ some.shown = B /\ some.more = Cardinality(M) - Cardinality(B)
        /\ some.step = "answered"
    BY <1>1, <2>2 DEF SearchState
  <2> HIDE DEF some
  <2>5. Told(some)
    <3>1. Matched(some.saw, some.query) = M
      BY <2>4 DEF M
    <3>2. ASSUME NEW p \in c.heard, p \notin B, ~ (some.more > 0) PROVE Matched({p}, c.query) = {}
      <4>1. M = B
        BY <2>2, <2>4, <3>2
      <4> QED BY <2>3, <3>2, <4>1
    <3> QED BY <2>2, <2>4, <3>1, <3>2 DEF Told
  <2> QED BY <2>1, <2>4, <2>5 DEF Tells
<1> QED BY <1>2, <1>3

LEMMA DetailTells ==
    ASSUME NEW c \in SearchState, NEW A \in SUBSET Name, c.heard \subseteq A, c.mode = "name"
    PROVE  Detail(c, A) \in SearchState /\ Tells(Detail(c, A)) /\ Detail(c, A).heard = c.heard
           /\ Detail(c, A).step # "unasked"
<1>1. CASE c.name \notin A
  BY <1>1 DEF Detail, SearchState, Tells
<1>2. CASE c.name \in A
  <2> DEFINE d == [c EXCEPT !.step = IF c.name = Fetch THEN "credentials" ELSE "answered",
                            !.saw = A, !.shown = {c.name}]
  <2>1. Detail(c, A) = d
    BY <1>2 DEF Detail
  <2>2. /\ d \in SearchState /\ d.heard = c.heard /\ d.mode = "name" /\ d.name = c.name
        /\ d.shown = {c.name} /\ d.step # "unasked"
    BY <1>2 DEF SearchState
  <2> HIDE DEF d
  <2>3. Told(d)
    BY <2>2 DEF Told
  <2> QED BY <2>1, <2>2, <2>3 DEF Tells
<1> QED BY <1>1, <1>2

\* A record of a search that keeps the invariant.
Fits(c) ==
    /\ c \in SearchState /\ c.heard \subseteq published /\ Tells(c)
    /\ c.step = "unasked" => c.mode = "query"
    /\ c.step \in {"unasked", "entries"} => c.shown = {} /\ c.hint = {} /\ c.more = 0

LEMMA AllFit ==
    TypeOK /\ SearchesStartEmpty /\ BestAreShown /\ PublishedIsFound => \A s \in Search : Fits(search[s])
  BY TellsAll DEF TypeOK, SearchesStartEmpty, Fits

LEMMA SearchFits ==
    ASSUME published \subseteq Package, NEW s \in Search, Fits(search[s]), SearchStep(s)
    PROVE  published' = published /\ \E c : Fits(c) /\ search' = [search EXCEPT ![s] = c]
<1> DEFINE o == search[s]
<1>1. /\ o \in SearchState /\ Tells(o) /\ o.heard \subseteq published
      /\ o.step = "unasked" => o.mode = "query"
      /\ o.step \in {"unasked", "entries"} => o.shown = {} /\ o.hint = {} /\ o.more = 0
  BY DEF Fits
<1>2. ASSUME NEW query \in Query, AskQuery(s, query)
      PROVE  published' = published /\ \E c : Fits(c) /\ search' = [search EXCEPT ![s] = c]
  <2> DEFINE c == [o EXCEPT !.step = "entries", !.query = query, !.heard = published]
  <2>1. /\ published' = published /\ search' = [search EXCEPT ![s] = c] /\ o.step = "unasked"
    BY <1>2 DEF AskQuery, Turn
  <2> HIDE DEF o
  <2>2. /\ c \in SearchState /\ c.step = "entries" /\ c.heard = published
        /\ c.shown = o.shown /\ c.hint = o.hint /\ c.more = o.more
    BY <1>1 DEF SearchState
  <2>3. Fits(c)
    <3> HIDE DEF c
    <3> QED BY <1>1, <2>1, <2>2 DEF Fits, Tells
  <2> QED BY <2>1, <2>3
<1>3. ASSUME NEW name \in Named, AskName(s, name)
      PROVE  published' = published /\ \E c : Fits(c) /\ search' = [search EXCEPT ![s] = c]
  <2> DEFINE c == [o EXCEPT !.step = "entries", !.mode = "name", !.name = name, !.heard = published]
  <2>1. /\ published' = published /\ search' = [search EXCEPT ![s] = c] /\ o.step = "unasked"
    BY <1>3 DEF AskName, Turn
  <2> HIDE DEF o
  <2>2. /\ c \in SearchState /\ c.step = "entries" /\ c.heard = published
        /\ c.shown = o.shown /\ c.hint = o.hint /\ c.more = o.more
    BY <1>1, DiscoveryAssumption DEF SearchState
  <2>3. Fits(c)
    <3> HIDE DEF c
    <3> QED BY <1>1, <2>1, <2>2 DEF Fits, Tells
  <2> QED BY <2>1, <2>3
<1>4. ASSUME Entries(s)
      PROVE  published' = published /\ \E c : Fits(c) /\ search' = [search EXCEPT ![s] = c]
  <2> DEFINE A == Capability \cup published
             c == IF o.mode = "query" THEN Slim(o, A) ELSE Detail(o, A)
  <2>1. published' = published /\ search' = [search EXCEPT ![s] = c] /\ o.step = "entries"
    BY <1>4 DEF Entries, Turn
  <2>2. A \in SUBSET Name /\ o.heard \subseteq A /\ o.mode \in {"query", "name"}
    BY <1>1 DEF Name, SearchState
  <2> HIDE DEF o, A
  <2>3. c \in SearchState /\ Tells(c) /\ c.heard = o.heard /\ c.step # "unasked"
    BY <1>1, <2>1, <2>2, SlimTells, DetailTells
  <2>4. c.step # "entries"
    BY <1>1, <2>2 DEF Slim, Detail, SearchState
  <2>5. Fits(c)
    <3> HIDE DEF c
    <3> QED BY <1>1, <2>3, <2>4 DEF Fits
  <2> QED BY <2>1, <2>5
<1>5. ASSUME Credentials(s) \/ Throws(s)
      PROVE  published' = published /\ \E c : Fits(c) /\ search' = [search EXCEPT ![s] = c]
  <2>1. PICK step \in {"answered", "threw"} :
            /\ published' = published /\ search' = [search EXCEPT ![s] = [o EXCEPT !.step = step]]
            /\ step = "answered" => o.step = "credentials"
    BY <1>5 DEF Credentials, Throws, Turn
  <2> DEFINE c == [o EXCEPT !.step = step]
  <2> HIDE DEF o
  <2>2. /\ c \in SearchState /\ c.step = step /\ c.heard = o.heard /\ c.shown = o.shown
        /\ c.hint = o.hint /\ c.more = o.more /\ c.mode = o.mode /\ c.saw = o.saw
        /\ c.query = o.query /\ c.name = o.name
    BY <1>1 DEF SearchState
  <2>3. Fits(c)
    <3> HIDE DEF c
    <3>1. Told(o) => Told(c)
      BY <2>2 DEF Told
    <3> QED BY <1>1, <2>1, <2>2, <3>1 DEF Fits, Tells
  <2> QED BY <2>1, <2>3
<1> QED BY <1>2, <1>3, <1>4, <1>5 DEF SearchStep

\* A search that tells what is there does so when more is published.
LEMMA DiscoveryKept ==
    ASSUME TypeOK, SearchesStartEmpty, BestAreShown, PublishedIsFound,
           UNCHANGED storage,
           (\E p \in Package : Publish(p)) \/ (\E s \in Search : SearchStep(s))
    PROVE  TypeOK' /\ SearchesStartEmpty' /\ BestAreShown' /\ PublishedIsFound'
<1>1. \A s \in Search : Fits(search[s])
  BY AllFit
<1>2. published \subseteq Package /\ search \in [Search -> SearchState]
  BY DEF TypeOK
<1>3. /\ published' \subseteq Package /\ search' \in [Search -> SearchState]
      /\ \A s \in Search : Fits(search[s])'
  <2>1. CASE \E p \in Package : Publish(p)
    <3>1. published' \subseteq Package /\ published \subseteq published' /\ search' = search
      BY <1>2, <2>1 DEF Publish
    <3> QED BY <1>1, <1>2, <3>1 DEF Fits, Tells, Told
  <2>2. CASE \E s \in Search : SearchStep(s)
    <3>1. PICK s \in Search : SearchStep(s)
      BY <2>2
    <3>2. PICK c : Fits(c) /\ search' = [search EXCEPT ![s] = c] /\ published' = published
      BY <1>1, <1>2, <3>1, SearchFits
    <3>3. c \in SearchState /\ search'[s] = c /\ search' \in [Search -> SearchState]
      BY <1>2, <3>2 DEF Fits
    <3>4. Fits(search[s])'
      BY <3>2, <3>3 DEF Fits, Tells, Told
    <3>5. ASSUME NEW t \in Search, t # s PROVE Fits(search[t])'
      <4>1. search'[t] = search[t]
        BY <1>2, <3>2, <3>5
      <4>2. Fits(search[t])
        BY <1>1
      <4> DEFINE o == search[t]
      <4>3. PICK d : d = o
        OBVIOUS
      <4>4. Fits(d) /\ search'[t] = d
        BY <4>1, <4>2, <4>3
      <4>5. Fits(d)'
        BY <3>2, <4>4 DEF Fits, Tells, Told
      <4> QED BY <4>4, <4>5 DEF Fits, Tells, Told
    <3> QED BY <1>2, <3>2, <3>3, <3>4, <3>5
  <2> QED BY <2>1, <2>2
<1>4. row' = row /\ past' = past /\ call' = call
  BY DEF storage
<1>5. TypeOK'
  BY <1>3, <1>4 DEF TypeOK
<1>6. SearchesStartEmpty'
  BY <1>3 DEF SearchesStartEmpty, Fits
<1>7. \A s \in Search : Tells(search[s])'
  BY <1>3 DEF Fits
<1>8. BestAreShown' /\ PublishedIsFound'
  BY <1>7 DEF BestAreShown, PublishedIsFound, Tells, Told
<1> QED BY <1>5, <1>6, <1>8

----------------------------------------------------------------------------
(* The theorems                                                            *)

LEMMA InitHolds == Init => IInv
<1> SUFFICES ASSUME Init PROVE IInv
  OBVIOUS
<1>1. Plainly("none") \in Reply /\ Plainly("none").tag = "none"
  BY PlainlyType
<1>2. /\ \A k \in Call : /\ call[k] \in CallState /\ call[k].step = "unsent" /\ call[k].verb = "get"
                         /\ call[k].reply = Plainly("none") /\ call[k].over = {}
                         /\ call[k].heard = {}
      /\ call \in [Call -> CallState]
  BY <1>1 DEF Init, StorageInit, CallState, Verb
<1>3. row = [key \in Key |-> NoValue] /\ past = [key \in Key |-> {}] /\ published = {}
  BY DEF Init, StorageInit, DiscoveryInit
<1>4. /\ \A s \in Search : /\ search[s].step = "unasked" /\ search[s].mode = "query"
                           /\ search[s].heard = {} /\ search[s].shown = {}
                           /\ search[s].hint = {} /\ search[s].more = 0
      /\ search \in [Search -> SearchState]
  BY DiscoveryAssumption DEF Init, DiscoveryInit, SearchState, Name
<1>5. TypeOK
  BY <1>2, <1>3, <1>4 DEF TypeOK
<1>6. CallsAreChecked /\ ValuesAreFresh
  BY <1>2, <1>3, StorageAssumption DEF CallsAreChecked, ValuesAreFresh
<1>7. StoredStays /\ ListingsAreExact /\ ListingsHaveWhatWasSet /\ ReplacedIsNotRead
  BY <1>1, <1>2 DEF StoredStays, ListingsAreExact, ListingsHaveWhatWasSet, ReplacedIsNotRead
<1>8. EachDeleteRemovedSomething
  <2>1. \A key \in Key : {d \in Call : call[d].key = key /\ call[d].reply.tag = "deleted"} = {}
    BY <1>1, <1>2
  <2>2. \A key \in Key : past[key] = {}
    BY <1>3
  <2>3. Cardinality({}) <= Cardinality({})
    BY FS_EmptySet
  <2> QED BY <2>1, <2>2, <2>3, Zenon DEF EachDeleteRemovedSomething
<1>9. SearchesStartEmpty /\ BestAreShown /\ PublishedIsFound
  BY <1>4 DEF SearchesStartEmpty, BestAreShown, PublishedIsFound
<1> QED BY <1>5, <1>6, <1>7, <1>8, <1>9 DEF IInv, StorageInv

LEMMA NextKeeps == IInv /\ [Next]_vars => IInv'
<1> SUFFICES ASSUME IInv, [Next]_vars PROVE IInv'
  OBVIOUS
<1>1. /\ TypeOK /\ CallsAreChecked /\ ValuesAreFresh /\ StoredStays /\ ListingsAreExact
      /\ ListingsHaveWhatWasSet /\ ReplacedIsNotRead /\ EachDeleteRemovedSomething
      /\ SearchesStartEmpty /\ BestAreShown /\ PublishedIsFound
  BY DEF IInv, StorageInv
<1>2. ASSUME NEW k \in Call, StorageStep(k), UNCHANGED discovery PROVE IInv'
  <2>1. Moved(k)
    BY <1>1, <1>2, StorageSteps DEF Moved
  <2>2. TypeOK' /\ StorageInv'
    BY <1>1, <2>1, TypeKept, ChecksKept, FreshKept, StoredKept, ExactKept, SetListed,
       ReplacedKept, DeletesKept DEF StorageInv
  <2>3. SearchesStartEmpty' /\ BestAreShown' /\ PublishedIsFound'
    BY <1>1, <1>2 DEF discovery, SearchesStartEmpty, BestAreShown, PublishedIsFound
  <2> QED BY <2>2, <2>3 DEF IInv
<1>3. ASSUME UNCHANGED storage PROVE StorageInv'
  BY <1>1, <1>3 DEF storage, StorageInv, CallsAreChecked, ValuesAreFresh, StoredStays,
     ListingsAreExact, ListingsHaveWhatWasSet, ReplacedIsNotRead, EachDeleteRemovedSomething
<1>4. CASE /\ (\E p \in Package : Publish(p)) \/ (\E s \in Search : SearchStep(s))
           /\ UNCHANGED storage
  BY <1>1, <1>3, <1>4, DiscoveryKept DEF IInv
<1>5. CASE UNCHANGED vars
  <2>1. UNCHANGED storage /\ UNCHANGED discovery
    BY <1>5 DEF vars
  <2>2. TypeOK' /\ SearchesStartEmpty' /\ BestAreShown' /\ PublishedIsFound'
    BY <1>1, <2>1 DEF storage, discovery, TypeOK, SearchesStartEmpty, BestAreShown, PublishedIsFound
  <2> QED BY <1>3, <2>1, <2>2 DEF IInv
<1> QED BY <1>2, <1>4, <1>5 DEF Next

\* What the code keeps over every step (StorageData.ts, Search.ts).
THEOREM Invariance == Spec => []IInv
  BY InitHolds, NextKeeps, PTL DEF Spec

\* What each variable holds is of its type, whatever the calls.
THEOREM TypeCorrect == Spec => []TypeOK
<1>1. IInv => TypeOK
  BY DEF IInv
<1> QED BY <1>1, Invariance, PTL

\* A listing is the keys with its prefix: the range from the prefix to the
\* prefix and DEL holds them and no others, and the cut is told and is of the
\* last ones (StorageData.ts:85-107).
THEOREM ListsExactly == Spec => []ListingsAreExact
<1>1. IInv => ListingsAreExact
  BY DEF IInv, StorageInv
<1> QED BY <1>1, Invariance, PTL

\* A listing that is not cut has every key whose set was answered before it
\* was sent, but for those a delete took since (StorageData.ts:64-107).
THEOREM ListsWhatWasSet == Spec => []ListingsHaveWhatWasSet
<1>1. IInv => ListingsHaveWhatWasSet
  BY DEF IInv, StorageInv
<1> QED BY <1>1, Invariance, PTL

\* No call reads a value that a call answered before it had replaced or
\* removed (StorageData.ts:59-77, Internal.ts:110-139).
THEOREM ReadsNothingReplaced == Spec => []ReplacedIsNotRead
<1>1. IInv => ReplacedIsNotRead
  BY DEF IInv, StorageInv
<1> QED BY <1>1, Invariance, PTL

\* No two deletes are told that they removed the same value
\* (StorageData.ts:73-77).
THEOREM DeletesRemoved == Spec => []EachDeleteRemovedSomething
<1>1. IInv => EachDeleteRemovedSomething
  BY DEF IInv, StorageInv
<1> QED BY <1>1, Invariance, PTL

\* What `search` leaves out ranks behind what it shows and is counted, for any
\* scores and bound (Search.ts:70-122).
THEOREM ShowsTheBest == Spec => []BestAreShown
<1>1. IInv => BestAreShown
  BY DEF IInv
<1> QED BY <1>1, Invariance, PTL

\* A package that was published before the search is shown, is named, is
\* counted among what was cut, or does not match (Search.ts:183-209).
THEOREM FindsThePublished == Spec => []PublishedIsFound
<1>1. IInv => PublishedIsFound
  BY DEF IInv
<1> QED BY <1>1, Invariance, PTL
=============================================================================

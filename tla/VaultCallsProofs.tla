--------------------------- MODULE VaultCallsProofs ---------------------------
(***************************************************************************)
(* What VaultCalls keeps, for any notes, calls, edits and approved         *)
(* folders.                                                                *)
(***************************************************************************)
EXTENDS VaultCalls, LeastNumbers

----------------------------------------------------------------------------
(* Paths: what Resolve computes, without induction over the path           *)

\* The first n steps of the recursion of Resolve.
Resolves(path, n, at) ==
    at = [m \in 0 .. n |-> IF m = 0 THEN Start(path) ELSE Enter(at[m - 1], path[m])]

\* Two functions that go all the way are one: there is no least number that they differ at.
LEMMA ResolvesOnce ==
    ASSUME NEW p \in Seq(Segment), NEW f, NEW g, Resolves(p, Len(p), f), Resolves(p, Len(p), g)
    PROVE  f = g
<1> DEFINE T == {n \in 0 .. Len(p) : f[n] # g[n]}
<1>0. Len(p) \in Nat
  OBVIOUS
<1>1. \A n \in 0 .. Len(p) : f[n] = IF n = 0 THEN Start(p) ELSE Enter(f[n - 1], p[n])
  BY DEF Resolves
<1>2. \A n \in 0 .. Len(p) : g[n] = IF n = 0 THEN Start(p) ELSE Enter(g[n - 1], p[n])
  BY DEF Resolves
<1>3. ASSUME T # {} PROVE FALSE
  <2>1. PICK m \in T : \A n \in T : m <= n
    <3>1. T \subseteq Nat
      BY <1>0
    <3> HIDE DEF T
    <3> QED BY <1>3, <3>1, LeastNumber
  <2>2. m # 0
    BY <1>0, <1>1, <1>2, <2>1
  <2>3. m - 1 \in 0 .. Len(p) /\ m - 1 \notin T
    BY <1>0, <2>1, <2>2
  <2>4. f[m - 1] = g[m - 1]
    BY <2>3
  <2>5. f[m] = Enter(f[m - 1], p[m]) /\ g[m] = Enter(g[m - 1], p[m])
    BY <1>1, <1>2, <2>1, <2>2
  <2> QED BY <2>1, <2>4, <2>5
<1>4. \A n \in 0 .. Len(p) : f[n] = g[n]
  BY <1>3
<1> QED BY <1>4 DEF Resolves

LEMMA ResolveIs ==
    ASSUME NEW p \in Seq(Segment), NEW f, Resolves(p, Len(p), f)
    PROVE  Resolve(p) = f[Len(p)]
<1>1. Resolves(p, Len(p), CHOOSE at : Resolves(p, Len(p), at))
  OBVIOUS
<1>2. (CHOOSE at : Resolves(p, Len(p), at)) = f
  BY <1>1, ResolvesOnce
<1>3. Resolve(p) = (CHOOSE at : Resolves(p, Len(p), at))[Len(p)]
  BY DEF Resolve, Resolves
<1> QED BY <1>2, <1>3

LEMMA Ordinary == \A s \in Name : s # "" /\ s # "." /\ s # ".."
<1>1. Name \cap {"", ".", ".."} = {}
  BY PathsAssumption, Zenon
<1> QED BY ONLY <1>1

LEMMA VaultNamed == VaultDir \in Name /\ <<VaultDir>> \in Seq(Name)
<1>1. VaultDir \in Name
  BY PathsAssumption, Zenon
<1> QED BY ONLY <1>1

LEMMA NormalType ==
    ASSUME NEW p \in Seq(Segment), IsNormal(p)
    PROVE  p \in Seq(Name) /\ p # <<>> /\ Len(p) \in Nat
<1>1. DOMAIN p = 1 .. Len(p)
  OBVIOUS
<1>2. \A i \in 1 .. Len(p) : p[i] \in Name
  BY <1>1 DEF IsNormal
<1> QED BY <1>2 DEF IsNormal

\* A path that passes the policy leads to the file of its own spelling.
THEOREM NormalPathsResolve ==
    \A p \in Seq(Segment) :
        IsNormal(p) => Resolve(p) = <<VaultDir>> \o p /\ IsSafe(p) /\ FileOf(p) = p
<1> SUFFICES ASSUME NEW p \in Seq(Segment), IsNormal(p)
             PROVE  Resolve(p) = <<VaultDir>> \o p /\ IsSafe(p) /\ FileOf(p) = p
  OBVIOUS
<1> DEFINE at == [n \in 0 .. Len(p) |-> <<VaultDir>> \o SubSeq(p, 1, n)]
<1>1. p \in Seq(Name) /\ p # <<>> /\ Len(p) \in Nat
  BY NormalType
<1>2. <<VaultDir>> \in Seq(Name)
  BY VaultNamed
<1>3. \A i \in 1 .. Len(p) : p[i] # "" /\ p[i] # "." /\ p[i] # ".."
  <2>1. \A i \in 1 .. Len(p) : p[i] \in Name
    BY ONLY <1>1
  <2> QED BY ONLY <2>1, Ordinary
<1>4. at[0] = Start(p)
  <2>1. 1 \in 1 .. Len(p)
    BY ONLY <1>1
  <2>2. Start(p) = <<VaultDir>>
    BY <1>3, <2>1 DEF Start
  <2>3. SubSeq(p, 1, 0) = <<>>
    BY ONLY <1>1
  <2>4. <<VaultDir>> \o <<>> = <<VaultDir>>
    BY ONLY <1>2
  <2>5. 0 \in 0 .. Len(p)
    BY ONLY <1>1
  <2> QED BY <2>2, <2>3, <2>4, <2>5
<1>5. ASSUME NEW n \in 1 .. Len(p)
      PROVE  at[n] = Enter(at[n - 1], p[n])
  <2>1. n - 1 \in 0 .. Len(p) /\ n \in 0 .. Len(p)
    BY ONLY <1>1, <1>5
  <2>2. <<VaultDir>> \o SubSeq(p, 1, n) = Append(<<VaultDir>> \o SubSeq(p, 1, n - 1), p[n])
    BY ONLY <1>1, <1>2, <1>5
  <2>3. Enter(<<VaultDir>> \o SubSeq(p, 1, n - 1), p[n])
          = Append(<<VaultDir>> \o SubSeq(p, 1, n - 1), p[n])
    BY <1>3 DEF Enter
  <2> QED BY <2>1, <2>2, <2>3
<1>6. Resolves(p, Len(p), at)
  <2>1. at = [n \in 0 .. Len(p) |-> at[n]]
    OBVIOUS
  <2> HIDE DEF at
  <2>2. \A n \in 0 .. Len(p) : at[n] = IF n = 0 THEN Start(p) ELSE Enter(at[n - 1], p[n])
    <3>1. \A n \in 0 .. Len(p) : n # 0 => n \in 1 .. Len(p)
      BY ONLY <1>1
    <3> QED BY ONLY <1>4, <1>5, <3>1
  <2> QED BY <2>1, <2>2 DEF Resolves
<1>7. Resolve(p) = at[Len(p)]
  <2> HIDE DEF at
  <2> QED BY <1>6, ResolveIs
<1>8. Resolve(p) = <<VaultDir>> \o p
  <2>1. Len(p) \in 0 .. Len(p) /\ SubSeq(p, 1, Len(p)) = p
    BY ONLY <1>1
  <2> QED BY <1>7, <2>1
<1>9. IsSafe(p)
  <2>1. (<<VaultDir>> \o p) # <<>> /\ (<<VaultDir>> \o p)[1] = VaultDir
    BY ONLY <1>1, <1>2
  <2> QED BY <1>1, <1>8, <2>1 DEF IsSafe
<1>10. Tail(<<VaultDir>> \o p) = p
  BY ONLY <1>1, <1>2
<1> QED BY <1>8, <1>9, <1>10 DEF FileOf

LEMMA EnterType ==
    ASSUME NEW at \in Seq(Name), NEW segment \in Segment
    PROVE  Enter(at, segment) \in Seq(Name)
<1>1. CASE segment \in {"", "."}
  BY <1>1 DEF Enter
<1>2. CASE segment = ".."
  BY <1>2 DEF Enter
<1>3. CASE segment \in Name
  <2>1. Enter(at, segment) = Append(at, segment)
    BY <1>3, Ordinary DEF Enter
  <2> QED BY <1>3, <2>1
<1> QED BY <1>1, <1>2, <1>3 DEF Segment

\* There is a function that satisfies the recursion: no least number of steps
\* is without one.
LEMMA ResolvesSome ==
    ASSUME NEW p \in Seq(Segment)
    PROVE  \E at : Resolves(p, Len(p), at) /\ at \in [0 .. Len(p) -> Seq(Name)]
<1> DEFINE Some(n) == \E at : Resolves(p, n, at) /\ at \in [0 .. n -> Seq(Name)]
           T == {n \in 0 .. Len(p) : ~ Some(n)}
<1>0. Len(p) \in Nat
  OBVIOUS
<1>1. Start(p) \in Seq(Name)
  <2>1. Start(p) \in {<<>>, <<VaultDir>>}
    BY DEF Start
  <2>2. <<>> \in Seq(Name)
    OBVIOUS
  <2> QED BY ONLY <2>1, <2>2, VaultNamed
<1>2. Some(0)
  <2> DEFINE at == [m \in 0 .. 0 |-> Start(p)]
  <2>1. at \in [0 .. 0 -> Seq(Name)]
    BY <1>1
  <2>2. at = [m \in 0 .. 0 |-> IF m = 0 THEN Start(p) ELSE Enter(at[m - 1], p[m])]
    OBVIOUS
  <2> HIDE DEF at
  <2> QED BY <2>1, <2>2 DEF Resolves
<1>3. ASSUME NEW n \in 1 .. Len(p), Some(n - 1)
      PROVE  Some(n)
  <2>1. PICK g : Resolves(p, n - 1, g) /\ g \in [0 .. n - 1 -> Seq(Name)]
    BY <1>3
  <2> DEFINE at == [m \in 0 .. n |-> IF m = n THEN Enter(g[n - 1], p[n]) ELSE g[m]]
  <2>2. n \in Nat /\ n # 0 /\ n - 1 \in 0 .. n - 1 /\ p[n] \in Segment
    BY <1>0
  <2>3. Enter(g[n - 1], p[n]) \in Seq(Name)
    BY <2>1, <2>2, EnterType
  <2>4. \A m \in 0 .. n : m # n => m \in 0 .. n - 1
    BY <2>2
  <2>5. at \in [0 .. n -> Seq(Name)]
    BY <2>1, <2>3, <2>4
  <2>6. \A m \in 0 .. n - 1 : g[m] = IF m = 0 THEN Start(p) ELSE Enter(g[m - 1], p[m])
    BY <2>1 DEF Resolves
  <2>7. \A m \in 0 .. n : m # 0 => m - 1 \in 0 .. n /\ m - 1 # n /\ at[m - 1] = g[m - 1]
    BY <2>2
  <2>8. \A m \in 0 .. n : at[m] = IF m = 0 THEN Start(p) ELSE Enter(at[m - 1], p[m])
    BY <2>2, <2>4, <2>6, <2>7
  <2>9. at = [m \in 0 .. n |-> at[m]]
    OBVIOUS
  <2> HIDE DEF at
  <2>10. Resolves(p, n, at)
    BY <2>8, <2>9 DEF Resolves
  <2> QED BY <2>5, <2>10
<1>4. ASSUME T # {} PROVE FALSE
  <2> HIDE DEF Some
  <2>1. PICK m \in T : \A n \in T : m <= n
    <3>1. T \subseteq Nat
      BY <1>0
    <3> HIDE DEF T
    <3> QED BY <1>4, <3>1, LeastNumber
  <2>2. m \in 1 .. Len(p)
    BY <1>0, <1>2, <2>1
  <2>3. m - 1 \in 0 .. Len(p) /\ m - 1 \notin T
    BY <1>0, <2>1, <2>2
  <2> QED BY <1>3, <2>1, <2>2, <2>3
<1>5. Some(Len(p))
  <2> HIDE DEF Some
  <2> QED BY <1>0, <1>4
<1> QED BY <1>5 DEF Resolves

\* What a safe path leads to is named by ordinary segments, from the vault down:
\* nothing is left of the dots in its spelling.
THEOREM SafePathsStayInside ==
    \A p \in Seq(Segment) :
        /\ Resolve(p) \in Seq(Name)
        /\ IsSafe(p) => FileOf(p) \in Seq(Name) /\ Resolve(p) = <<VaultDir>> \o FileOf(p)
<1> SUFFICES ASSUME NEW p \in Seq(Segment)
             PROVE  /\ Resolve(p) \in Seq(Name)
                    /\ IsSafe(p) => FileOf(p) \in Seq(Name) /\ Resolve(p) = <<VaultDir>> \o FileOf(p)
  OBVIOUS
<1>1. PICK at : Resolves(p, Len(p), at) /\ at \in [0 .. Len(p) -> Seq(Name)]
  BY ResolvesSome
<1>2. Resolve(p) = at[Len(p)]
  BY <1>1, ResolveIs
<1>3. Resolve(p) \in Seq(Name)
  <2>1. Len(p) \in 0 .. Len(p)
    OBVIOUS
  <2> QED BY <1>1, <1>2, <2>1
<1>4. ASSUME IsSafe(p) PROVE FileOf(p) \in Seq(Name) /\ Resolve(p) = <<VaultDir>> \o FileOf(p)
  <2>1. Resolve(p) # <<>> /\ Resolve(p)[1] = VaultDir
    BY <1>4 DEF IsSafe
  <2>2. Tail(Resolve(p)) \in Seq(Name)
    BY <1>3, <2>1
  <2>3. Resolve(p) = <<Resolve(p)[1]>> \o Tail(Resolve(p))
    BY <1>3, <2>1
  <2> QED BY <2>1, <2>2, <2>3 DEF FileOf
<1> QED BY <1>3, <1>4

----------------------------------------------------------------------------
(* Types, and what each step does to the call it is of                     *)

LEMMA ChainType ==
    ASSUME older \in [Version -> SUBSET (Version \cup {Absent})], NEW v \in Version \cup {Absent}
    PROVE  Chain(v) \subseteq Version \cup {Absent}
  BY DEF Chain

LEMMA PlainlyType == \A tag \in Tag : Plainly(tag) \in Reply /\ Plainly(tag).tag = tag
                                        /\ Plainly(tag).version = Absent
  BY DEF Plainly, Reply

LEMMA InitTyped == Init => TypeOK
<1> SUFFICES ASSUME Init PROVE TypeOK
  OBVIOUS
<1>1. Plainly("none") \in Reply
  BY PlainlyType DEF Tag
<1>2. call \in [Call -> CallState]
  BY <1>1 DEF Init, CallState, Verb
<1>3. ContainerTypeOK
  BY ContainerAssumption DEF Init, ContainerInit, ContainerTypeOK, NoNotes, Version
<1> QED BY <1>2, <1>3 DEF TypeOK

\* Only call k moves.
Moves(k) ==
    /\ call' \in [Call -> CallState]
    /\ \A j \in Call \ {k} : call'[j] = call[j]

LEMMA BecomeMoves ==
    ASSUME TypeOK, NEW k \in Call, NEW c \in CallState, Become(k, c)
    PROVE  Moves(k) /\ call'[k] = c
  BY DEF TypeOK, Become, Moves

\* What no step but the sending does to a call.
Keeps(k) ==
    /\ Moves(k)
    /\ call[k].step # "unsent" /\ call'[k].step # "unsent"
    /\ call'[k].verb = call[k].verb
    /\ call'[k].path = call[k].path
    /\ call'[k].heard = call[k].heard
    /\ call'[k].wire = "request" => call[k].wire = "request"
    /\ k \notin Written
    /\ k \in Written' => call'[k].wire = "none"

LEMMA AnswerKeeps ==
    ASSUME TypeOK, WritesAreChecked, HeardWereWritten, NEW k \in Call, NEW r \in Reply,
           call[k].wire = "request", Answer(k, r)
    PROVE  /\ Keeps(k)
           /\ call'[k].reply \in {r, call[k].reply}
           /\ call'[k].wire # "request"
<1>1. call[k] \in CallState
  BY DEF TypeOK
<1>2. call[k].step # "unsent"
  BY DEF WritesAreChecked
<1>3. k \notin Written
  BY DEF HeardWereWritten
<1>4. CASE call[k].step = "called"
  <2>1. [call[k] EXCEPT !.wire = "reply", !.reply = r] \in CallState
    BY <1>1 DEF CallState
  <2>2. Moves(k) /\ call'[k] = [call[k] EXCEPT !.wire = "reply", !.reply = r]
    BY <1>4, <2>1, BecomeMoves DEF Answer
  <2> QED BY <1>1, <1>2, <1>3, <1>4, <2>2 DEF Keeps, CallState, Written
<1>5. CASE call[k].step = "answered"
  <2>1. [call[k] EXCEPT !.wire = "none"] \in CallState
    BY <1>1 DEF CallState
  <2>2. Moves(k) /\ call'[k] = [call[k] EXCEPT !.wire = "none"]
    BY <1>5, <2>1, BecomeMoves DEF Answer
  <2> QED BY <1>1, <1>2, <1>3, <1>5, <2>2 DEF Keeps, CallState, Written
<1> QED BY <1>1, <1>2, <1>4, <1>5 DEF CallState

----------------------------------------------------------------------------
(* The steps of a call                                                     *)

LEMMA NormalCalls ==
    ASSUME TypeOK, NEW k \in Call, call[k].path # NoPath, IsNormal(call[k].path)
    PROVE  IsSafe(call[k].path) /\ FileOf(call[k].path) = call[k].path
<1>1. call[k].path \in Seq(Segment)
  BY CallsAssumption DEF TypeOK, CallState
<1> QED BY <1>1, NormalPathsResolve

\* A read gives what is on the disk of the note it names.
Reads(k) ==
    /\ call[k].verb = "read"
    /\ server = "open"
    /\ call'[k].reply.version =
          IF call[k].path \in File THEN disk[call[k].path] ELSE Absent

\* A listing, or what a search gives, is the whole or says that it is not.
Tells(reply, verb) ==
    reply.tag = "listing" =>
        /\ reply.found \subseteq reply.whole
        /\ \/ reply.found = reply.whole
           \/ reply.marked
           \/ verb = "search" /\ reply.beyond

Quiet(k) ==
    /\ Keeps(k)
    /\ UNCHANGED container
    /\ \/ call'[k].reply = call[k].reply
       \/ call'[k].reply.tag \notin {"note", "missing"} /\ Tells(call'[k].reply, call[k].verb)
       \/ Reads(k) /\ call'[k].reply.tag \in {"note", "missing", "unavailable"}

LEMMA ReadQuiet ==
    ASSUME TypeOK, WritesAreChecked, HeardWereWritten, NEW k \in Call, HandleRead(k)
    PROVE  Quiet(k)
<1> DEFINE f == FileOf(call[k].path)
           r == IF ~ IsSafe(call[k].path) THEN Plainly("unavailable")
                ELSE IF f \notin File THEN Plainly("missing")
                ELSE IF disk[f] = Absent THEN Plainly("missing")
                ELSE [Plainly("note") EXCEPT !.version = disk[f]]
<1>1. call[k].wire = "request" /\ call[k].verb = "read" /\ server = "open" /\ Answer(k, r)
      /\ UNCHANGED container
  BY DEF HandleRead, Arrives
<1>2. IsSafe(call[k].path) /\ f = call[k].path
  BY <1>1, NormalCalls DEF WritesAreChecked
<1>3. \A t \in {"unavailable", "missing", "note"} :
          Plainly(t) \in Reply /\ Plainly(t).tag = t /\ Plainly(t).version = Absent
  BY PlainlyType DEF Tag
<1>4. /\ r \in Reply
      /\ r.version = IF call[k].path \in File THEN disk[call[k].path] ELSE Absent
      /\ r.tag \in {"note", "missing", "unavailable"}
  BY <1>2, <1>3 DEF TypeOK, ContainerTypeOK, Reply
<1> HIDE DEF f, r
<1>5. Keeps(k) /\ call'[k].reply \in {r, call[k].reply}
  BY <1>1, <1>4, AnswerKeeps
<1> QED BY <1>1, <1>4, <1>5 DEF Quiet, Reads

LEMMA FailsQuiet ==
    ASSUME TypeOK, WritesAreChecked, HeardWereWritten, NEW k \in Call, HandleFails(k)
    PROVE  Quiet(k)
<1>1. /\ Plainly("unavailable") \in Reply /\ Plainly("unavailable").tag = "unavailable"
  BY PlainlyType DEF Tag
<1>2. Keeps(k) /\ call'[k].reply \in {Plainly("unavailable"), call[k].reply}
  BY <1>1, AnswerKeeps DEF HandleFails, Arrives
<1> QED BY <1>1, <1>2 DEF Quiet, HandleFails, Tells

LEMMA ListingType ==
    ASSUME NEW F \in SUBSET File, NEW m \in BOOLEAN, NEW W \in SUBSET File, NEW b \in BOOLEAN
    PROVE  /\ [Plainly("listing") EXCEPT !.found = F, !.marked = m, !.whole = W] \in Reply
           /\ [Plainly("listing") EXCEPT !.found = F, !.marked = m, !.whole = W, !.beyond = b]
                 \in Reply
  BY PlainlyType DEF Tag, Reply

LEMMA ListingQuiet ==
    ASSUME TypeOK, WritesAreChecked, HeardWereWritten, NEW k \in Call, NEW r \in Reply,
           r.tag = "listing", Tells(r, call[k].verb),
           call[k].wire = "request", UNCHANGED container, Answer(k, r)
    PROVE  Quiet(k)
  BY AnswerKeeps DEF Quiet

\* Of finite sets only the whole has as many elements as the whole.
LEMMA WholeWalk ==
    ASSUME NEW S, IsFiniteSet(S), NEW T \in SUBSET S, Cardinality(T) = Cardinality(S)
    PROVE  T = S
  BY FS_Subset

\* A walk of no more files than the bound, or than one more, comes by all.
LEMMA WalkOfAll ==
    ASSUME NEW S \in SUBSET File, NEW walked \in Walks(S)
    PROVE  /\ IsFiniteSet(S) /\ Cardinality(S) \in Nat
           /\ walked \subseteq S /\ IsFiniteSet(walked) /\ Cardinality(walked) \in Nat
           /\ Cardinality(S) <= ListBound + 1 => walked = S
           /\ Cardinality(S) > ListBound => Cardinality(walked) = ListBound + 1
<1>1. IsFiniteSet(S) /\ Cardinality(S) \in Nat
  BY ContainerAssumption, FS_Subset, FS_CardinalityType
<1>2. /\ walked \in SUBSET S
      /\ Cardinality(walked) = IF Cardinality(S) <= ListBound THEN Cardinality(S) ELSE ListBound + 1
  BY DEF Walks, kSubset
<1>3. IsFiniteSet(walked) /\ Cardinality(walked) \in Nat
  BY <1>1, <1>2, FS_Subset, FS_CardinalityType
<1>4. ListBound \in Nat
  BY CallsAssumption
<1>5. ASSUME Cardinality(S) <= ListBound + 1 PROVE walked = S
  <2>1. Cardinality(walked) = Cardinality(S)
    BY <1>1, <1>2, <1>4, <1>5
  <2> QED BY <1>1, <1>2, <2>1, WholeWalk
<1> QED BY <1>1, <1>2, <1>3, <1>4, <1>5

LEMMA ListQuiet ==
    ASSUME TypeOK, WritesAreChecked, HeardWereWritten, NEW k \in Call, HandleList(k)
    PROVE  Quiet(k)
<1>1. call[k].wire = "request" /\ UNCHANGED container
  BY DEF HandleList, Arrives
<1>2. CASE Answer(k, Plainly("unavailable"))
  <2>1. Plainly("unavailable") \in Reply /\ Plainly("unavailable").tag = "unavailable"
    BY PlainlyType DEF Tag
  <2>2. Keeps(k) /\ call'[k].reply \in {Plainly("unavailable"), call[k].reply}
    BY <1>1, <1>2, <2>1, AnswerKeeps
  <2> QED BY <1>1, <2>1, <2>2 DEF Quiet, Tells
<1>3. CASE \E walked \in Walks(Shown(Root(k))) :
              \E reply \in ListAnswers(walked, Shown(Root(k))) : Answer(k, reply)
  <2>1. PICK walked \in Walks(Shown(Root(k))) :
              \E reply \in ListAnswers(walked, Shown(Root(k))) : Answer(k, reply)
    BY <1>3
  <2>2. Shown(Root(k)) \in SUBSET File
    BY DEF Shown
  <2>3. walked \in SUBSET File
    BY <2>2, walked \in Walks(Shown(Root(k))) DEF Walks, kSubset
  <2> DEFINE m == Cardinality(walked) > ListBound
             R(F) == [Plainly("listing") EXCEPT !.found = F, !.marked = m,
                                                !.whole = Shown(Root(k))]
  <2>4. \E r \in {R(F) : F \in kSubset(IF Cardinality(walked) > ListBound THEN ListBound
                                      ELSE Cardinality(walked), walked)} : Answer(k, r)
    BY <2>1 DEF ListAnswers
  <2>5. PICK F \in SUBSET walked :
            /\ Answer(k, R(F))
            /\ Cardinality(F) = IF m THEN ListBound ELSE Cardinality(walked)
    BY <2>4 DEF kSubset
  <2>6. m \in BOOLEAN
    OBVIOUS
  <2>7. R(F) \in Reply
    BY <2>2, <2>3, <2>6, ListingType
  <2>8. /\ R(F).tag = "listing" /\ R(F).found = F /\ R(F).marked = m
        /\ R(F).whole = Shown(Root(k))
    BY DEF Plainly
  <2>9. F \subseteq Shown(Root(k)) /\ (F = Shown(Root(k)) \/ m)
    <3>1. CASE m
      BY <2>2, <2>3, <2>5, <3>1, WalkOfAll
    <3>2. CASE ~ m
      <4>1. Cardinality(Shown(Root(k))) <= ListBound /\ IsFiniteSet(walked)
            /\ walked = Shown(Root(k))
        BY <2>1, <2>2, <3>2, WalkOfAll, CallsAssumption
      <4>2. F = walked
        BY <2>5, <3>2, <4>1, WholeWalk
      <4> QED BY <4>1, <4>2
    <3> QED BY <3>1, <3>2
  <2>10. Tells(R(F), call[k].verb)
    BY <2>8, <2>9 DEF Tells
  <2> HIDE DEF R, m
  <2> QED BY <1>1, <2>5, <2>7, <2>8, <2>10, ListingQuiet
<1> QED BY <1>2, <1>3 DEF HandleList

LEMMA SearchQuiet ==
    ASSUME TypeOK, WritesAreChecked, HeardWereWritten, NEW k \in Call, HandleSearch(k)
    PROVE  Quiet(k)
<1>1. call[k].wire = "request" /\ call[k].verb = "search" /\ UNCHANGED container
  BY DEF HandleSearch, Arrives
<1>2. PICK walked \in Walks(Shown(<<>>)) :
            \E reply \in SearchAnswers(walked, Shown(<<>>)) : Answer(k, reply)
  BY DEF HandleSearch
<1>3. Shown(<<>>) \in SUBSET File /\ Found(Shown(<<>>)) \in SUBSET File
  BY DEF Shown, Found
<1>4. walked \in SUBSET File /\ Found(walked) \in SUBSET File
  BY <1>3, walked \in Walks(Shown(<<>>)) DEF Walks, kSubset, Found
<1> DEFINE m == Cardinality(Found(walked)) >= SearchBound
           b == Cardinality(Shown(<<>>)) > ListBound + 1
           R(F) == [Plainly("listing") EXCEPT !.found = F, !.marked = m,
                                              !.whole = Found(Shown(<<>>)), !.beyond = b]
<1>5. \E r \in {R(F) : F \in kSubset(IF m THEN SearchBound ELSE Cardinality(Found(walked)),
                                    Found(walked))} : Answer(k, r)
  BY <1>2 DEF SearchAnswers
<1>6. PICK F \in SUBSET Found(walked) :
          /\ Answer(k, R(F))
          /\ Cardinality(F) = IF m THEN SearchBound ELSE Cardinality(Found(walked))
  BY <1>5 DEF kSubset
<1>7. m \in BOOLEAN /\ b \in BOOLEAN
  OBVIOUS
<1>8. R(F) \in Reply
  BY <1>3, <1>4, <1>7, ListingType
<1>9. /\ R(F).tag = "listing" /\ R(F).found = F /\ R(F).marked = m
      /\ R(F).whole = Found(Shown(<<>>)) /\ R(F).beyond = b
  BY DEF Plainly
<1>10. walked \subseteq Shown(<<>>) /\ IsFiniteSet(walked) /\ (walked = Shown(<<>>) \/ b)
  BY <1>2, <1>3, WalkOfAll, CallsAssumption
<1>11. F \subseteq Found(Shown(<<>>)) /\ (F = Found(Shown(<<>>)) \/ m \/ b)
  <2>1. Found(walked) \subseteq Found(Shown(<<>>)) /\ Found(walked) \subseteq walked
    BY <1>10 DEF Found
  <2>2. IsFiniteSet(Found(walked))
    BY <1>10, <2>1, FS_Subset
  <2>3. CASE ~ m
    BY <1>6, <1>10, <2>1, <2>2, <2>3, WholeWalk
  <2> QED BY <1>6, <2>1, <2>3
<1>12. Tells(R(F), call[k].verb)
  BY <1>1, <1>9, <1>11 DEF Tells
<1> HIDE DEF R, m, b
<1> QED BY <1>1, <1>6, <1>8, <1>9, <1>12, ListingQuiet

LEMMA RelayQuiet ==
    ASSUME TypeOK, WritesAreChecked, HeardWereWritten, NEW k \in Call, Relay(k)
    PROVE  Quiet(k)
<1>0. call[k] \in CallState
  BY DEF TypeOK
<1>1. [call[k] EXCEPT !.step = "answered", !.wire = "none"] \in CallState
  BY <1>0 DEF CallState
<1>2. /\ Moves(k)
      /\ call'[k] = [call[k] EXCEPT !.step = "answered", !.wire = "none"]
  BY <1>1, BecomeMoves DEF Relay
<1>3. call[k] \in CallState
  BY DEF TypeOK
<1> QED BY <1>2, <1>3 DEF Relay, Quiet, Keeps, CallState, Written

LEMMA GiveUpQuiet ==
    ASSUME TypeOK, WritesAreChecked, HeardWereWritten, NEW k \in Call, GiveUp(k)
    PROVE  Quiet(k)
<1>1. Plainly("unavailable") \in Reply /\ Plainly("unavailable").tag = "unavailable"
  BY PlainlyType DEF Tag
<1>2. call[k] \in CallState
  BY DEF TypeOK
<1>3. PICK wire \in {"none"} \cup ({call[k].wire} \ {"reply"}) :
         Become(k, [call[k] EXCEPT !.step = "answered", !.wire = wire,
                                   !.reply = Plainly("unavailable")])
  BY DEF GiveUp
<1>4. wire \in {"none", "request"} /\ (wire = "request" => call[k].wire = "request")
  BY <1>2 DEF CallState
<1> DEFINE c == [call[k] EXCEPT !.step = "answered", !.wire = wire,
                                !.reply = Plainly("unavailable")]
<1>5. /\ c \in CallState
      /\ c.step = "answered" /\ c.verb = call[k].verb /\ c.path = call[k].path
      /\ c.heard = call[k].heard /\ c.reply = Plainly("unavailable")
      /\ c.wire = "request" => call[k].wire = "request"
  BY <1>1, <1>2, <1>4 DEF CallState
<1>6. Become(k, c)
  BY <1>3
<1> HIDE DEF c
<1>7. Moves(k) /\ call'[k] = c
  BY <1>5, <1>6, BecomeMoves
<1> QED BY <1>1, <1>2, <1>5, <1>7 DEF GiveUp, Quiet, Keeps, CallState, Written, Tells

LEMMA QuietSteps ==
    ASSUME TypeOK, WritesAreChecked, HeardWereWritten, NEW k \in Call,
           HandleRead(k) \/ HandleList(k) \/ HandleSearch(k) \/ HandleFails(k) \/ Relay(k) \/ GiveUp(k)
    PROVE  Quiet(k)
  BY ReadQuiet, FailsQuiet, ListQuiet, SearchQuiet, RelayQuiet, GiveUpQuiet

\* A write that is handled is at the path it named, which is an approved one.
Writes(k) ==
    /\ Keeps(k)
    /\ server = "open" /\ call[k].wire = "request" /\ call'[k].wire # "request"
    /\ call[k].verb = "write" /\ call[k].path \in File /\ MayWrite(call[k].path)
    /\ disk' = [disk EXCEPT ![call[k].path] = k]
    /\ older' = [older EXCEPT ![k] = Chain(disk[call[k].path])]
    /\ UNCHANGED <<remote, known, made, edited, lost, process>>
    /\ call'[k].reply = call[k].reply \/ call'[k].reply.tag = "written"

LEMMA WriteWrites ==
    ASSUME TypeOK, WritesAreChecked, HeardWereWritten, NEW k \in Call, HandleWrite(k)
    PROVE  Writes(k)
<1>1. /\ call[k].wire = "request" /\ call[k].verb = "write" /\ server = "open"
      /\ Writable(FileOf(call[k].path))
      /\ Answer(k, Plainly("written"))
      /\ disk' = [disk EXCEPT ![FileOf(call[k].path)] = k]
      /\ older' = [older EXCEPT ![k] = Chain(disk[FileOf(call[k].path)])]
      /\ UNCHANGED <<remote, known, made, edited, lost, process>>
  BY DEF HandleWrite, Arrives
<1>2. IsNormal(call[k].path) /\ MayWrite(call[k].path)
  BY <1>1 DEF WritesAreChecked
<1>3. FileOf(call[k].path) = call[k].path
  BY <1>1, <1>2, NormalCalls DEF WritesAreChecked
<1>4. Plainly("written") \in Reply /\ Plainly("written").tag = "written"
  BY PlainlyType DEF Tag
<1>5. /\ Keeps(k) /\ call'[k].wire # "request"
      /\ call'[k].reply \in {Plainly("written"), call[k].reply}
  BY <1>1, <1>4, AnswerKeeps
<1> QED BY <1>1, <1>2, <1>3, <1>4, <1>5 DEF Writes, Writable

\* What is sent on has passed the checks.
Sends(k) ==
    /\ UNCHANGED container
    /\ Moves(k)
    /\ call[k].step = "unsent" /\ call'[k].step # "unsent"
    /\ call'[k].heard = Written
    /\ call'[k].reply.tag \in {"none", "invalid", "refused"}
    /\ call'[k].wire = "request" =>
          /\ call'[k].verb # "search" /\ call'[k].path # NoPath => IsNormal(call'[k].path)
          /\ call'[k].verb \in {"read", "write"} => call'[k].path # NoPath
          /\ call'[k].verb = "write" => MayWrite(call'[k].path)

LEMMA SendSends ==
    ASSUME TypeOK, NEW k \in Call, NEW verb \in Verb, NEW path \in Path \cup {NoPath},
           Send(k, verb, path)
    PROVE  Sends(k)
<1> DEFINE v == Verdict(verb, path)
           c == [step  |-> IF v = "none" THEN "called" ELSE "answered",
                 verb  |-> verb,
                 path  |-> path,
                 wire  |-> IF v = "none" THEN "request" ELSE "none",
                 reply |-> Plainly(v),
                 heard |-> Written]
<1>1. /\ v \in {"none", "invalid", "refused"}
      /\ v = "none" /\ path # NoPath => IsNormal(path) /\ (verb = "write" => MayWrite(path))
  BY DEF Verdict
<1>2. /\ call[k].step = "unsent" /\ Become(k, c) /\ UNCHANGED container
      /\ verb \in {"read", "write"} => path # NoPath
  BY DEF Send
<1>3. Written \in SUBSET Call
  BY DEF Written
<1> HIDE DEF v
<1>4. Plainly(v) \in Reply /\ Plainly(v).tag = v
  BY <1>1, PlainlyType DEF Tag
<1>5. /\ c \in CallState
      /\ c.step # "unsent" /\ c.heard = Written /\ c.reply = Plainly(v)
      /\ c.verb = verb /\ c.path = path
      /\ c.wire = "request" => v = "none"
  BY <1>3, <1>4 DEF CallState
<1> HIDE DEF c
<1>6. Moves(k) /\ call'[k] = c
  BY <1>2, <1>5, BecomeMoves
<1> QED BY <1>1, <1>2, <1>4, <1>5, <1>6 DEF Sends

\* Every step, for what it changes.
LEMMA Steps ==
    ASSUME TypeOK, WritesAreChecked, HeardWereWritten, [Next]_vars
    PROVE  \/ UNCHANGED vars
           \/ UNCHANGED call /\ (ContainerStep \/ Boot)
           \/ \E k \in Call : Sends(k) \/ Quiet(k) \/ Writes(k)
<1>1. CASE Next
  <2>1. ASSUME NEW k \in Call, CallStep(k)
        PROVE  Sends(k) \/ Quiet(k) \/ Writes(k)
    <3>1. CASE \E verb \in Verb, path \in Path \cup {NoPath} : Send(k, verb, path)
      BY <3>1, SendSends
    <3>2. CASE Handle(k) \/ HandleFails(k) \/ Relay(k) \/ GiveUp(k)
      BY <3>2, QuietSteps, WriteWrites DEF Handle
    <3> QED BY <2>1, <3>1, <3>2 DEF CallStep
  <2> QED BY <1>1, <2>1 DEF Next, Wake
<1>2. CASE UNCHANGED vars
  BY <1>2
<1> QED BY <1>1, <1>2

----------------------------------------------------------------------------
(* Each part of the invariant, over every step                             *)

LEMMA DelayType == \A d \in 0 .. MaxDelay : NextDelay(d) \in 0 .. MaxDelay
  BY ContainerAssumption DEF NextDelay

LEMMA TypeKept ==
    ASSUME TypeOK, WritesAreChecked, HeardWereWritten, [Next]_vars
    PROVE  TypeOK'
<1>1. CASE UNCHANGED vars
  BY <1>1 DEF vars, container, notes, process, TypeOK, ContainerTypeOK
<1>2. CASE UNCHANGED call /\ (ContainerStep \/ Boot)
  <2>1. call' \in [Call -> CallState]
    BY <1>2 DEF TypeOK
  <2> SUFFICES ContainerTypeOK'
    BY <2>1 DEF TypeOK
  <2>2. CASE Boot
    BY <2>2 DEF Boot, notes, TypeOK, ContainerTypeOK
  <2>3. CASE Open \/ Spawn
    BY <2>3, ContainerAssumption DEF Open, Spawn, notes, TypeOK, ContainerTypeOK
  <2>4. CASE SyncExits
    BY <2>4, ContainerAssumption, DelayType DEF SyncExits, notes, TypeOK, ContainerTypeOK
  <2>5. CASE Stop
    <3>1. lost' \subseteq Call /\ stops' \in 0 .. MaxStops
      BY <2>5, ContainerAssumption DEF Stop, TypeOK, ContainerTypeOK
    <3> QED BY <2>5, <3>1, ContainerAssumption DEF Stop, NoNotes, TypeOK, ContainerTypeOK
  <2>6. ASSUME NEW f \in File, Pull(f) \/ Upload(f) \/ Download(f) \/ Merge(f)
        PROVE  ContainerTypeOK'
    BY <2>6 DEF Pull, Upload, Download, Merge, process, TypeOK, ContainerTypeOK
  <2>7. ASSUME NEW f \in File, NEW e \in Edit, EditElsewhere(f, e)
        PROVE  ContainerTypeOK'
    <3>1. Chain(remote[f]) \subseteq Version \cup {Absent}
      BY ChainType DEF TypeOK, ContainerTypeOK
    <3> QED BY <2>7, <3>1 DEF EditElsewhere, process, Version, TypeOK, ContainerTypeOK
  <2> QED BY <1>2, <2>1, <2>2, <2>3, <2>4, <2>5, <2>6, <2>7 DEF ContainerStep
<1>3. ASSUME NEW k \in Call, Sends(k) \/ Quiet(k)
      PROVE  TypeOK'
  BY <1>3 DEF Sends, Quiet, Keeps, Moves, container, notes, process, TypeOK, ContainerTypeOK
<1>4. ASSUME NEW k \in Call, Writes(k)
      PROVE  TypeOK'
  <2>1. Chain(disk[call[k].path]) \subseteq Version \cup {Absent}
    BY <1>4, ChainType DEF Writes, TypeOK, ContainerTypeOK
  <2> QED BY <1>4, <2>1 DEF Writes, Keeps, Moves, process, Version, TypeOK, ContainerTypeOK
<1> QED BY <1>1, <1>2, <1>3, <1>4, Steps

LEMMA HeardKept ==
    ASSUME TypeOK, WritesAreChecked, HeardWereWritten, [Next]_vars
    PROVE  HeardWereWritten'
<1>1. CASE UNCHANGED call
  BY <1>1 DEF HeardWereWritten, Written
<1>2. ASSUME NEW k \in Call, Sends(k)
      PROVE  HeardWereWritten'
  <2>1. Written' = Written
    BY <1>2 DEF Sends, Moves, Written
  <2>2. call'[k].heard \subseteq Written'
    BY <1>2, <2>1 DEF Sends
  <2>3. k \notin Written'
    BY <1>2, <2>1 DEF Sends, Written
  <2> QED BY <1>2, <2>1, <2>2, <2>3 DEF Sends, Moves, HeardWereWritten
<1>3. ASSUME NEW k \in Call, Keeps(k)
      PROVE  HeardWereWritten'
  <2>1. Written \subseteq Written'
    BY <1>3 DEF Keeps, Moves, Written
  <2>2. \A j \in Call \ {k} : j \in Written' => j \in Written
    BY <1>3 DEF Keeps, Moves, Written
  <2>3. ASSUME NEW j \in Call
        PROVE  call'[j].heard \subseteq Written'
    BY <1>3, <2>1 DEF Keeps, Moves, HeardWereWritten
  <2>4. ASSUME NEW j \in Call, j \in Written'
        PROVE  call'[j].wire = "none"
    BY <1>3, <2>2, <2>4 DEF Keeps, Moves, HeardWereWritten
  <2> QED BY <2>3, <2>4 DEF HeardWereWritten
<1> QED BY <1>1, <1>2, <1>3, Steps DEF vars, Quiet, Writes

LEMMA BarrierKept ==
    ASSUME TypeOK, WritesAreChecked, HeardWereWritten, BarrierHolds, [Next]_vars
    PROVE  BarrierHolds'
<1>1. CASE UNCHANGED container
  BY <1>1 DEF container, notes, process, BarrierHolds, NoNotes
<1>2. CASE Boot \/ Open \/ Stop \/ Spawn \/ SyncExits
  BY <1>2 DEF Boot, Open, Stop, Spawn, SyncExits, notes, BarrierHolds, NoNotes
<1>3. ASSUME NEW f \in File, Pull(f)
      PROVE  BarrierHolds'
  BY <1>3 DEF Pull, BarrierHolds
<1>4. ASSUME NEW f \in File, Upload(f) \/ Download(f) \/ Merge(f)
      PROVE  BarrierHolds'
  BY <1>4 DEF Upload, Download, Merge, process, BarrierHolds
<1>5. ASSUME NEW f \in File, NEW e \in Edit, EditElsewhere(f, e)
      PROVE  BarrierHolds'
  BY <1>5 DEF EditElsewhere, process, BarrierHolds, NoNotes
<1>6. ASSUME NEW k \in Call, Writes(k)
      PROVE  BarrierHolds'
  BY <1>6 DEF Writes, process, BarrierHolds
<1> QED BY <1>1, <1>2, <1>3, <1>4, <1>5, <1>6, Steps DEF vars, ContainerStep, Sends, Quiet

LEMMA FetchedKept ==
    ASSUME TypeOK, WritesAreChecked, HeardWereWritten, BarrierHolds, FetchedUnlessEdited,
           [Next]_vars
    PROVE  FetchedUnlessEdited'
<1>1. CASE UNCHANGED container
  BY <1>1 DEF container, notes, process, FetchedUnlessEdited
<1>2. CASE Boot \/ Open \/ Stop \/ Spawn \/ SyncExits
  BY <1>2 DEF Boot, Open, Stop, Spawn, SyncExits, notes, FetchedUnlessEdited
<1>3. ASSUME NEW f \in File, Pull(f) \/ Upload(f) \/ Download(f) \/ Merge(f)
      PROVE  FetchedUnlessEdited'
  BY <1>3 DEF Pull, Upload, Download, Merge, process, FetchedUnlessEdited, TypeOK, ContainerTypeOK
<1>4. ASSUME NEW f \in File, NEW e \in Edit, EditElsewhere(f, e)
      PROVE  FetchedUnlessEdited'
  BY <1>4 DEF EditElsewhere, process, FetchedUnlessEdited, TypeOK, ContainerTypeOK
<1>5. ASSUME NEW k \in Call, Writes(k)
      PROVE  FetchedUnlessEdited'
  BY <1>5 DEF Writes, process, FetchedUnlessEdited
<1> QED BY <1>1, <1>2, <1>3, <1>4, <1>5, Steps DEF vars, ContainerStep, Sends, Quiet

\* A version n comes after all that w came after.
Fresh(n) ==
    /\ older[n] = {}
    /\ \A f \in File : n \notin {disk[f], known[f], remote[f]}
    /\ \A u \in Version : n \notin older[u]

Comes(n, w) ==
    /\ n \in Version
    /\ w \in Version \cup {Absent}
    /\ Fresh(n)
    /\ older' = [older EXCEPT ![n] = Chain(w)]

LEMMA WriteComes ==
    ASSUME TypeOK, FreshVersions, NEW k \in Call, Writes(k)
    PROVE  /\ Comes(k, disk[call[k].path])
           /\ k # disk[call[k].path]
           /\ k \notin Written
  BY DEF Writes, Keeps, FreshVersions, Unhandled, Version, Fresh, Comes, TypeOK, ContainerTypeOK

LEMMA EditComes ==
    ASSUME TypeOK, FreshVersions, NEW f \in File, NEW e \in Edit, EditElsewhere(f, e)
    PROVE  /\ Comes(e, remote[f])
           /\ e # remote[f]
           /\ e \notin Call
  BY ContainerAssumption
  DEF EditElsewhere, FreshVersions, Version, Fresh, Comes, TypeOK, ContainerTypeOK

LEMMA ChainsAfter ==
    ASSUME TypeOK, NEW n, NEW w, Comes(n, w), n # w
    PROVE  /\ n \notin Chain(w)
           /\ older'[n] = Chain(w)
           /\ \A v \in Version : v # n => older'[v] = older[v]
           /\ \A v \in Version \cup {Absent} : n # v => n \notin Chain(v)
  BY ContainerAssumption DEF Comes, Fresh, Chain, TypeOK, ContainerTypeOK

LEMMA NowhereBefore ==
    ASSUME TypeOK, NEW n, NEW w, Comes(n, w), n # w
    PROVE  /\ \A v \in Version : v # n => older'[v] = older[v] /\ n \notin older[v]
           /\ \A g \in File : /\ n \notin {disk[g], known[g], remote[g]}
                              /\ n \notin Chain(disk[g]) /\ n \notin Chain(remote[g])
<1>1. \A g \in File : disk[g] \in Version \cup {Absent} /\ remote[g] \in Version \cup {Absent}
  BY DEF TypeOK, ContainerTypeOK
<1>2. /\ \A v \in Version : n \notin older[v]
      /\ \A g \in File : n \notin {disk[g], known[g], remote[g]}
  BY DEF Comes, Fresh
<1>3. /\ \A v \in Version : v # n => older'[v] = older[v]
      /\ \A v \in Version \cup {Absent} : n # v => n \notin Chain(v)
  BY ChainsAfter
<1> QED BY <1>1, <1>2, <1>3

LEMMA CheckedKept ==
    ASSUME TypeOK, WritesAreChecked, HeardWereWritten, FreshVersions, [Next]_vars
    PROVE  WritesAreChecked'
<1>1. CASE UNCHANGED vars
  BY <1>1 DEF vars, container, notes, process, WritesAreChecked
<1>2. CASE UNCHANGED call /\ (ContainerStep \/ Boot)
  <2>1. CASE Boot \/ Open \/ Spawn \/ SyncExits
    BY <1>2, <2>1 DEF Boot, Open, Spawn, SyncExits, notes, WritesAreChecked
  <2>2. CASE Stop
    BY <1>2, <2>2, ContainerAssumption DEF Stop, NoNotes, Version, WritesAreChecked
  <2>3. ASSUME NEW f \in File, Pull(f) \/ Upload(f) \/ Download(f) \/ Merge(f)
        PROVE  WritesAreChecked'
    BY <1>2, <2>3 DEF Pull, Upload, Download, Merge, process, WritesAreChecked, TypeOK, ContainerTypeOK
  <2>4. ASSUME NEW f \in File, NEW e \in Edit, EditElsewhere(f, e)
        PROVE  WritesAreChecked'
    <3>1. e \notin Call /\ \A k \in Call : older'[k] = older[k]
      BY <2>4, EditComes, ChainsAfter DEF Version
    <3>2. \A k \in Call, g \in File : k = remote'[g] => k = remote[g]
      BY <2>4, <3>1 DEF EditElsewhere, TypeOK, ContainerTypeOK
    <3> QED BY <1>2, <2>4, <3>1, <3>2 DEF EditElsewhere, WritesAreChecked
  <2> QED BY <1>2, <2>1, <2>2, <2>3, <2>4 DEF ContainerStep
<1>3. ASSUME NEW k \in Call, Sends(k)
      PROVE  WritesAreChecked'
  <2>1. older[k] = {} /\ \A f \in File : k \notin {disk[f], known[f], remote[f]}
    BY <1>3 DEF Sends, FreshVersions, Unhandled, Version
  <2> QED BY <1>3, <2>1 DEF Sends, Moves, container, notes, WritesAreChecked
<1>4. ASSUME NEW k \in Call, Quiet(k)
      PROVE  WritesAreChecked'
  BY <1>4 DEF Quiet, Keeps, Moves, container, notes, WritesAreChecked
<1>5. ASSUME NEW k \in Call, Writes(k)
      PROVE  WritesAreChecked'
  <2>1. \A j \in Call : j # k => older'[j] = older[j]
    BY <1>5, WriteComes, ChainsAfter DEF Version
  <2>2. \A j \in Call, f \in File : j = disk'[f] =>
            j = disk[f] \/ (j = k /\ f = call[k].path)
    BY <1>5 DEF Writes, TypeOK, ContainerTypeOK
  <2> QED BY <1>5, <2>1, <2>2 DEF Writes, Keeps, Moves, WritesAreChecked
<1> QED BY <1>1, <1>2, <1>3, <1>4, <1>5, Steps

LEMMA OrderKept ==
    ASSUME TypeOK, WritesAreChecked, HeardWereWritten, FreshVersions, OlderIsAnOrder, [Next]_vars
    PROVE  OlderIsAnOrder'
<1>1. CASE older' = older
  BY <1>1 DEF OlderIsAnOrder
<1>2. ASSUME NEW n, NEW w, Comes(n, w), n # w
      PROVE  OlderIsAnOrder'
  <2>1. n \notin older'[n] /\ \A v \in Version : v # n => older'[v] = older[v]
    BY <1>2, ChainsAfter
  <2>2. \A v \in Version : n \notin older[v]
    BY <1>2 DEF Comes, Fresh
  <2> QED BY <2>1, <2>2 DEF OlderIsAnOrder
<1>3. \A k \in Call : Writes(k) => OlderIsAnOrder'
  BY <1>2, WriteComes
<1>4. \A f \in File, e \in Edit : EditElsewhere(f, e) => OlderIsAnOrder'
  BY <1>2, EditComes
<1> QED
  BY <1>1, <1>3, <1>4, Steps DEF vars, container, notes, ContainerStep, Boot, Open, Stop, Spawn,
     SyncExits, Pull, Upload, Download, Merge, Sends, Quiet

LEMMA FreshKept ==
    ASSUME TypeOK, WritesAreChecked, HeardWereWritten, FreshVersions, [Next]_vars
    PROVE  FreshVersions'
<1>0. SUFFICES ASSUME NEW v \in Version,
                      v \in Edit \ made' \/ (v \in Call /\ Unhandled(v)')
               PROVE  Fresh(v)'
  BY DEF FreshVersions, Fresh
<1>1. v # Absent
  BY ContainerAssumption
<1>2. ASSUME UNCHANGED made, \A k \in Call : Unhandled(k)' => Unhandled(k)
      PROVE  Fresh(v)
  BY <1>0, <1>2 DEF FreshVersions, Fresh
<1>3. CASE UNCHANGED vars
  BY <1>2, <1>3 DEF vars, container, notes, Unhandled, Fresh
<1>4. CASE UNCHANGED call /\ (ContainerStep \/ Boot)
  <2>1. \A k \in Call : Unhandled(k)' => Unhandled(k)
    BY <1>4 DEF Unhandled
  <2>2. CASE Boot \/ Open \/ Spawn \/ SyncExits
    BY <1>2, <2>1, <2>2 DEF Boot, Open, Spawn, SyncExits, notes, Fresh
  <2>3. CASE Stop
    BY <1>1, <1>2, <2>1, <2>3 DEF Stop, NoNotes, Fresh
  <2>4. ASSUME NEW f \in File, Pull(f) \/ Upload(f) \/ Download(f) \/ Merge(f)
        PROVE  Fresh(v)'
    BY <1>2, <2>1, <2>4 DEF Pull, Upload, Download, Merge, Fresh, TypeOK, ContainerTypeOK
  <2>5. ASSUME NEW f \in File, NEW e \in Edit, EditElsewhere(f, e)
        PROVE  Fresh(v)'
    <3>1. v # e /\ Fresh(v)
      BY <1>0, <1>4, <2>5, EditComes DEF EditElsewhere, Unhandled, FreshVersions, Fresh
    <3>2. v \notin Chain(remote[f])
      BY <1>1, <3>1 DEF Chain, Fresh, TypeOK, ContainerTypeOK
    <3> QED BY <2>5, <3>1, <3>2 DEF EditElsewhere, Fresh, TypeOK, ContainerTypeOK
  <2> QED BY <1>4, <2>2, <2>3, <2>4, <2>5 DEF ContainerStep
<1>5. ASSUME NEW k \in Call, Sends(k) \/ Quiet(k)
      PROVE  Fresh(v)'
  <2>1. \A j \in Call : Unhandled(j)' => Unhandled(j)
    BY <1>5 DEF Sends, Quiet, Keeps, Moves, Unhandled
  <2>2. UNCHANGED container
    BY <1>5 DEF Sends, Quiet
  <2> QED BY <1>2, <2>1, <2>2 DEF container, notes, Fresh
<1>6. ASSUME NEW k \in Call, Writes(k)
      PROVE  Fresh(v)'
  <2>1. v # k
    BY <1>0, <1>6, ContainerAssumption DEF Writes, Keeps, Unhandled
  <2>2. \A j \in Call : Unhandled(j)' => Unhandled(j)
    BY <1>6 DEF Writes, Keeps, Moves, Unhandled
  <2>3. Fresh(v)
    BY <1>2, <1>6, <2>2 DEF Writes
  <2>4. v \notin Chain(disk[call[k].path])
    BY <1>1, <1>6, <2>3 DEF Writes, Chain, Fresh, TypeOK, ContainerTypeOK
  <2> QED BY <1>6, <2>1, <2>3, <2>4 DEF Writes, Fresh, TypeOK, ContainerTypeOK
<1> QED BY <1>3, <1>4, <1>5, <1>6, Steps

LEMMA ChangesKept ==
    ASSUME TypeOK, WritesAreChecked, HeardWereWritten, FreshVersions, BarrierHolds,
           ChangesAreNews, [Next]_vars
    PROVE  ChangesAreNews'
<1>1. CASE UNCHANGED <<remote, disk, known, older>>
  BY <1>1 DEF ChangesAreNews, Chain
<1>2. CASE Stop
  BY <1>2 DEF Stop, NoNotes, ChangesAreNews, Chain
<1>3. ASSUME NEW f \in File, Pull(f) \/ Upload(f) \/ Download(f) \/ Merge(f)
      PROVE  ChangesAreNews'
  <2>1. /\ older' = older
        /\ disk'[f] = known'[f] /\ remote'[f] = known'[f]
        /\ \A g \in File \ {f} :
              disk'[g] = disk[g] /\ known'[g] = known[g] /\ remote'[g] = remote[g]
    BY <1>3 DEF Pull, Upload, Download, Merge, TypeOK, ContainerTypeOK
  <2> QED BY <2>1 DEF ChangesAreNews, Chain
<1>4. ASSUME NEW f \in File, NEW e \in Edit, EditElsewhere(f, e)
      PROVE  ChangesAreNews'
  <2>1. /\ older'[e] = Chain(remote[f])
        /\ \A v \in Version : v # e => older'[v] = older[v]
        /\ \A g \in File : e \notin {disk[g], known[g], remote[g]} /\ e \notin Chain(disk[g])
    BY <1>4, EditComes, ChainsAfter, NowhereBefore
  <2>2. /\ disk' = disk /\ known' = known /\ remote'[f] = e
        /\ \A g \in File \ {f} : remote'[g] = remote[g]
        /\ \A g \in File : disk[g] \in Version \cup {Absent} /\ remote[g] \in Version \cup {Absent}
        /\ e # Absent
    BY <1>4, ContainerAssumption DEF EditElsewhere, Version, TypeOK, ContainerTypeOK
  <2> QED BY <2>1, <2>2 DEF ChangesAreNews, Chain
<1>5. ASSUME NEW k \in Call, Writes(k)
      PROVE  ChangesAreNews'
  <2>1. /\ older'[k] = Chain(disk[call[k].path])
        /\ \A v \in Version : v # k => older'[v] = older[v]
        /\ \A g \in File : /\ k \notin {disk[g], known[g], remote[g]}
                           /\ k \notin Chain(disk[g]) /\ k \notin Chain(remote[g])
    BY <1>5, WriteComes, ChainsAfter, NowhereBefore
  <2>2. /\ call[k].path \in File
        /\ remote' = remote /\ known' = known /\ disk'[call[k].path] = k
        /\ \A g \in File \ {call[k].path} : disk'[g] = disk[g]
        /\ \A g \in File : disk[g] \in Version \cup {Absent} /\ remote[g] \in Version \cup {Absent}
        /\ k # Absent /\ k \in Version
    BY <1>5, ContainerAssumption DEF Writes, Version, TypeOK, ContainerTypeOK
  <2>3. ASSUME NEW g \in File \ {call[k].path}
        PROVE  /\ disk'[g] # known'[g] => disk'[g] \notin Chain(remote[g])'
               /\ remote'[g] # known'[g] => remote'[g] \notin Chain(disk[g])'
    BY <2>1, <2>2 DEF ChangesAreNews, Chain
  <2>0. PICK f \in File : f = call[k].path
    BY <2>2
  <2>4. k \notin Chain(remote[f])'
    BY <2>1, <2>2 DEF Chain
  <2>5. remote[f] # known[f] => remote[f] \notin {k} \cup older'[k]
    BY <2>0, <2>1, <2>2 DEF ChangesAreNews
  <2>6. Chain(disk[f])' = {k} \cup older'[k]
    BY <2>0, <2>2 DEF Chain
  <2> QED BY <2>0, <2>2, <2>3, <2>4, <2>5, <2>6 DEF ChangesAreNews
<1> QED
  BY <1>1, <1>2, <1>3, <1>4, <1>5, Steps DEF vars, container, notes, ContainerStep, Boot, Open,
     Spawn, SyncExits, Sends, Quiet

LEMMA ReplacedKept ==
    ASSUME TypeOK, WritesAreChecked, HeardWereWritten, FreshVersions, BarrierHolds,
           ChangesAreNews, OlderIsAnOrder, ReplacedStaysReplaced, [Next]_vars
    PROVE  ReplacedStaysReplaced'
<1>0. \A f \in File : disk[f] \in Version \cup {Absent} /\ remote[f] \in Version \cup {Absent}
  BY DEF TypeOK, ContainerTypeOK
<1>1. CASE UNCHANGED vars
  BY <1>1 DEF vars, container, notes, process, ReplacedStaysReplaced, Chain
<1>2. CASE UNCHANGED call /\ (ContainerStep \/ Boot)
  <2>1. CASE Boot
    BY <1>2, <2>1 DEF Boot, notes, BarrierHolds, ReplacedStaysReplaced, Chain
  <2>2. CASE Open \/ Spawn \/ SyncExits
    BY <1>2, <2>2 DEF Open, Spawn, SyncExits, notes, BarrierHolds, ReplacedStaysReplaced, Chain
  <2>3. CASE Stop
    <3>1. /\ server' = "down" /\ remote' = remote /\ older' = older
          /\ lost' = lost \cup UNION {(Chain(disk[f]) \ Chain(remote[f])) \cap Call : f \in File}
      BY <2>3 DEF Stop
    <3>2. ASSUME NEW k \in Call, NEW f \in File, call[k].path = f, k \notin lost'
          PROVE  remote[f] \notin older[k]
      <4>1. CASE server # "open" \/ remote[f] # known[f] \/ k \notin Chain(disk[f])
        BY <3>1, <3>2, <4>1 DEF ReplacedStaysReplaced
      <4>2. CASE k \in Chain(disk[f])
        <5>1. k \in Chain(remote[f])
          BY <3>1, <3>2, <4>2
        <5>2. k \in Version /\ k # Absent
          BY ContainerAssumption DEF Version
        <5> QED BY <1>0, <5>1, <5>2 DEF Chain, OlderIsAnOrder
      <4> QED BY <4>1, <4>2
    <3> QED BY <1>2, <3>1, <3>2 DEF ReplacedStaysReplaced
  <2>4. ASSUME NEW f \in File, Pull(f)
        PROVE  ReplacedStaysReplaced'
    BY <1>2, <2>4 DEF Pull, ReplacedStaysReplaced, TypeOK, ContainerTypeOK
  <2>5. ASSUME NEW f \in File, Upload(f) \/ Download(f) \/ Merge(f)
        PROVE  ReplacedStaysReplaced'
    <3>1. /\ older' = older /\ lost' = lost /\ server' = server /\ toPull' = toPull
          /\ server = "open" /\ toPull = {}
          /\ \A g \in File \ {f} :
                disk'[g] = disk[g] /\ known'[g] = known[g] /\ remote'[g] = remote[g]
          /\ disk'[f] = remote'[f]
          /\ disk'[f] = disk[f] \/ (disk'[f] = remote[f] /\ remote[f] # known[f])
      BY <2>5 DEF Upload, Download, Merge, process, BarrierHolds, TypeOK, ContainerTypeOK
    <3> QED BY <1>2, <3>1 DEF ReplacedStaysReplaced, Chain
  <2>6. ASSUME NEW f \in File, NEW e \in Edit, EditElsewhere(f, e)
        PROVE  ReplacedStaysReplaced'
    <3>1. /\ e \notin Call
          /\ \A v \in Version : v # e => older'[v] = older[v] /\ e \notin older[v]
          /\ \A g \in File : e # disk[g]
      BY <2>6, EditComes, ChainsAfter DEF Comes, Fresh
    <3>2. /\ disk' = disk /\ known' = known /\ lost' = lost /\ server' = server /\ toPull' = toPull
          /\ remote'[f] = e
          /\ \A g \in File \ {f} : remote'[g] = remote[g]
      BY <2>6 DEF EditElsewhere, process, TypeOK, ContainerTypeOK
    <3> QED BY <1>0, <1>2, <3>1, <3>2 DEF ReplacedStaysReplaced, Chain, Version
  <2> QED BY <1>2, <2>1, <2>2, <2>3, <2>4, <2>5, <2>6 DEF ContainerStep
<1>3. ASSUME NEW k \in Call, Sends(k)
      PROVE  ReplacedStaysReplaced'
  <2>1. older[k] = {}
    BY <1>3 DEF Sends, FreshVersions, Unhandled, Version
  <2> QED BY <1>3, <2>1 DEF Sends, Moves, container, notes, process, ReplacedStaysReplaced, Chain
<1>4. ASSUME NEW k \in Call, Quiet(k)
      PROVE  ReplacedStaysReplaced'
  BY <1>4 DEF Quiet, Keeps, Moves, container, notes, process, ReplacedStaysReplaced, Chain
<1>5. ASSUME NEW c \in Call, Writes(c)
      PROVE  ReplacedStaysReplaced'
  <2>1. /\ older'[c] = Chain(disk[call[c].path])
        /\ \A v \in Version : v # c => older'[v] = older[v] /\ c \notin older[v]
        /\ \A g \in File : c # disk[g] /\ c \notin Chain(disk[g])
    BY <1>5, WriteComes, ChainsAfter, NowhereBefore
  <2>2. /\ server = "open" /\ server' = "open" /\ toPull' = toPull /\ toPull = {}
        /\ remote' = remote /\ known' = known /\ lost' = lost
        /\ call[c].path \in File /\ disk'[call[c].path] = c
        /\ \A g \in File \ {call[c].path} : disk'[g] = disk[g]
    BY <1>5 DEF Writes, process, BarrierHolds, TypeOK, ContainerTypeOK
  <2>3. \A k \in Call : call'[k].path = call[k].path
    BY <1>5 DEF Writes, Keeps, Moves
  <2>4. c # Absent /\ \A k \in Call : k \in Version
    BY ContainerAssumption DEF Version
  <2>5. ASSUME NEW k \in Call, NEW f \in File, call[k].path = f, k \notin lost
        PROVE  /\ disk'[f] \notin older'[k]
               /\ remote[f] # known[f] \/ k \notin Chain(disk[f])' => remote[f] \notin older'[k]
    <3>1. CASE k = c
      <4>1. disk'[f] \notin older'[k]
        BY <2>1, <2>2, <2>5, <3>1
      <4>2. k \in Chain(disk[f])'
        BY <2>2, <2>4, <2>5, <3>1 DEF Chain
      <4>3. remote[f] # known[f] => remote[f] \notin older'[k]
        BY <2>1, <2>5, <3>1 DEF ChangesAreNews
      <4> QED BY <4>1, <4>2, <4>3
    <3>2. CASE k # c
      <4>1. older'[k] = older[k] /\ c \notin older[k]
        BY <2>1, <2>4, <3>2
      <4>2. disk[f] \notin older[k]
        BY <2>2, <2>5 DEF ReplacedStaysReplaced
      <4>3. k \in Chain(disk[f]) => k \in Chain(disk[f])'
        <5>1. CASE f = call[c].path
          BY <2>1, <2>2, <2>4, <5>1 DEF Chain
        <5>2. CASE f # call[c].path
          BY <1>0, <2>1, <2>2, <5>2 DEF Chain
        <5> QED BY <5>1, <5>2
      <4> QED BY <2>2, <2>5, <4>1, <4>2, <4>3 DEF ReplacedStaysReplaced
    <3> QED BY <3>1, <3>2
  <2> QED BY <2>2, <2>3, <2>5 DEF ReplacedStaysReplaced
<1> QED BY <1>1, <1>2, <1>3, <1>4, <1>5, Steps

LEMMA SeenKept ==
    ASSUME TypeOK, WritesAreChecked, HeardWereWritten, FreshVersions, BarrierHolds,
           ReplacedStaysReplaced, AnsweredWritesAreSeen, [Next]_vars
    PROVE  AnsweredWritesAreSeen'
<1>1. lost \subseteq lost'
  <2>1. ContainerStep => lost \subseteq lost'
    BY DEF ContainerStep, Open, Stop, Spawn, SyncExits, Pull, Upload, Download, Merge,
       EditElsewhere, notes
  <2> QED BY <2>1, Steps DEF vars, container, notes, Boot, Sends, Quiet, Writes
<1>2. ASSUME NEW k \in Written
      PROVE  k \in Call /\ older'[k] = older[k] /\ call'[k].path = call[k].path
  <2>1. k \in Call /\ k \in Version /\ call[k].wire = "none" /\ call[k].step # "unsent"
    BY <1>2 DEF Written, Version, HeardWereWritten
  <2>2. CASE UNCHANGED vars
    BY <2>1, <2>2 DEF vars, container, notes
  <2>3. CASE UNCHANGED call /\ (ContainerStep \/ Boot)
    <3>1. \A f \in File, e \in Edit : EditElsewhere(f, e) => older'[k] = older[k]
      BY <2>1, EditComes, ChainsAfter
    <3> QED BY <2>1, <2>3, <3>1 DEF ContainerStep, Boot, Open, Stop, Spawn, SyncExits, Pull, Upload,
              Download, Merge, notes
  <2>4. ASSUME NEW c \in Call, Sends(c) \/ Quiet(c)
        PROVE  older'[k] = older[k] /\ call'[k].path = call[k].path
    BY <2>1, <2>4 DEF Sends, Quiet, Keeps, Moves, container, notes
  <2>5. ASSUME NEW c \in Call, Writes(c)
        PROVE  older'[k] = older[k] /\ call'[k].path = call[k].path
    <3>1. k # c
      BY <2>1, <2>5 DEF Writes
    <3> QED BY <2>1, <2>5, <3>1, WriteComes, ChainsAfter DEF Writes, Keeps, Moves
  <2> QED BY <2>1, <2>2, <2>3, <2>4, <2>5, Steps
<1>3. ASSUME NEW r \in Call, call'[r] = call[r]
      PROVE  \A k \in call'[r].heard :
                /\ call'[r].reply.tag \in {"note", "missing"}
                /\ call'[r].path = call'[k].path
                /\ k \notin lost'
                => call'[r].reply.version \notin older'[k]
  BY <1>1, <1>2, <1>3 DEF AnsweredWritesAreSeen, HeardWereWritten
<1>4. ASSUME NEW r \in Call, Sends(r) \/ Quiet(r) \/ Writes(r), NEW k \in call'[r].heard,
             call'[r].reply.tag \in {"note", "missing"}, call'[r].path = call'[k].path, k \notin lost'
      PROVE  call'[r].reply.version \notin older'[k]
  <2>1. ~ Sends(r) /\ (Quiet(r) \/ Writes(r))
    BY <1>4 DEF Sends
  <2>2. /\ k \in call[r].heard /\ call'[r].path = call[r].path
    BY <1>4, <2>1 DEF Quiet, Writes, Keeps
  <2>3. k \in Written
    BY <2>2 DEF HeardWereWritten
  <2>4. /\ k \in Call /\ older'[k] = older[k] /\ call[r].path = call[k].path /\ k \notin lost
    BY <1>1, <1>2, <1>4, <2>2, <2>3
  <2>5. CASE call'[r].reply = call[r].reply
    BY <1>4, <2>2, <2>4, <2>5 DEF AnsweredWritesAreSeen
  <2>6. CASE Reads(r)
    <3>1. CASE call[r].path \in File
      BY <2>4, <2>6, <3>1 DEF Reads, BarrierHolds, ReplacedStaysReplaced
    <3>2. CASE call[r].path \notin File
      BY <2>4, <3>2 DEF WritesAreChecked
    <3> QED BY <3>1, <3>2
  <2> QED BY <1>4, <2>1, <2>5, <2>6 DEF Quiet, Writes
<1>5. ASSUME NEW r \in Call, call'[r] # call[r]
      PROVE  Sends(r) \/ Quiet(r) \/ Writes(r)
  BY <1>5, Steps DEF vars, Sends, Quiet, Writes, Keeps, Moves
<1> QED BY <1>3, <1>4, <1>5 DEF AnsweredWritesAreSeen

LEMMA ListingsKept ==
    ASSUME IInv, [Next]_vars PROVE ListingsTellWhatTheyCut'
<1> SUFFICES ASSUME NEW k \in Call PROVE Tells(call'[k].reply, call'[k].verb)
  BY DEF ListingsTellWhatTheyCut, Tells
<1>1. Tells(call[k].reply, call[k].verb)
  BY DEF IInv, ListingsTellWhatTheyCut, Tells
<1>2. CASE call'[k] = call[k]
  BY <1>1, <1>2
<1>3. CASE call'[k] # call[k]
  <2>1. Sends(k) \/ Quiet(k) \/ Writes(k)
    BY <1>3, Steps DEF IInv, vars, Sends, Quiet, Writes, Keeps, Moves
  <2>2. CASE Sends(k)
    BY <2>2 DEF Sends, Tells
  <2>3. CASE Quiet(k)
    BY <1>1, <2>3 DEF Quiet, Keeps, Tells
  <2>4. CASE Writes(k)
    BY <1>1, <2>4 DEF Writes, Keeps, Tells
  <2> QED BY <2>1, <2>2, <2>3, <2>4
<1> QED BY <1>2, <1>3

----------------------------------------------------------------------------
(* The theorems                                                             *)

LEMMA InitHolds == Init => IInv
<1> SUFFICES ASSUME Init PROVE IInv
  OBVIOUS
<1>1. TypeOK
  BY InitTyped
<1>2. /\ \A k \in Call : /\ call[k].step = "unsent" /\ call[k].wire = "none"
                          /\ call[k].heard = {} /\ k # Old /\ k # Absent /\ older[k] = {}
      /\ Written = {}
  BY ContainerAssumption DEF Init, ContainerInit, Written, Version
<1>3. \A v \in Call \cup Edit : v # Old /\ v # Absent /\ v \in Version
  BY ContainerAssumption DEF Version
<1>4. BarrierHolds /\ FetchedUnlessEdited
  BY DEF Init, ContainerInit, NoNotes, BarrierHolds, FetchedUnlessEdited
<1>5. FreshVersions
  BY <1>3 DEF Init, ContainerInit, NoNotes, FreshVersions
<1>6. WritesAreChecked
  BY <1>2 DEF Init, ContainerInit, NoNotes, WritesAreChecked
<1>7. ChangesAreNews
  BY DEF Init, ContainerInit, NoNotes, ChangesAreNews, Chain
<1>8. OlderIsAnOrder
  BY ContainerAssumption DEF Init, ContainerInit, OlderIsAnOrder, Version
<1>9. ReplacedStaysReplaced
  BY <1>2 DEF ReplacedStaysReplaced
<1>10. HeardWereWritten /\ AnsweredWritesAreSeen
  BY <1>2 DEF HeardWereWritten, AnsweredWritesAreSeen
<1>11. ListingsTellWhatTheyCut
  BY DEF Init, Plainly, ListingsTellWhatTheyCut
<1> QED BY <1>1, <1>4, <1>5, <1>6, <1>7, <1>8, <1>9, <1>10, <1>11 DEF IInv

LEMMA NextKeeps == IInv /\ [Next]_vars => IInv'
  BY TypeKept, BarrierKept, FetchedKept, FreshKept, CheckedKept, ChangesKept, OrderKept,
     ReplacedKept, HeardKept, SeenKept, ListingsKept DEF IInv

\* The inductive invariant: the boot barrier, the checked writes, and an order
\* of the versions of a note that neither side ever runs against.
THEOREM Invariance == Spec => []IInv
  BY InitHolds, NextKeeps, PTL DEF Spec

\* Every state is of its type.
THEOREM TypeCorrect == Spec => []TypeOK
<1>1. IInv => TypeOK
  BY DEF IInv
<1> QED BY <1>1, Invariance, PTL

\* Wherever a write of a call is, it is below an approved folder.
THEOREM StaysInFolders == Spec => []WritesStayInFolders
<1>1. IInv => WritesStayInFolders
  BY DEF IInv, WritesAreChecked, WritesStayInFolders, MayWrite, InFolder
<1> QED BY <1>1, Invariance, PTL

\* A read after an answered write never shows what that write replaced.
THEOREM AnsweredWritesSeen == Spec => []AnsweredWritesAreSeen
<1>1. IInv => AnsweredWritesAreSeen
  BY DEF IInv
<1> QED BY <1>1, Invariance, PTL

\* A listing or a search that was cut says so, unless the search could not know.
THEOREM CutsAreTold == Spec => []ListingsTellWhatTheyCut
<1>1. IInv => ListingsTellWhatTheyCut
  BY DEF IInv
<1> QED BY <1>1, Invariance, PTL

\* The boot barrier leaves no conflict but those of edits made elsewhere since.
THEOREM ConflictsElsewhere == Spec => []ConflictsComeFromElsewhere
<1>1. IInv => ConflictsComeFromElsewhere
  BY DEF IInv, BarrierHolds, FetchedUnlessEdited, ConflictsComeFromElsewhere, TypeOK, ContainerTypeOK
<1> QED BY <1>1, Invariance, PTL

LEMMA RemoteMoves ==
    ASSUME IInv, [Next]_vars, NEW f \in File, remote'[f] # remote[f]
    PROVE  remote'[f] \notin Chain(remote[f])
<1>1. \/ \E g \in File : Upload(g) \/ Merge(g)
      \/ \E g \in File, e \in Edit : EditElsewhere(g, e)
  <2>1. remote' # remote
    OBVIOUS
  <2> QED BY <2>1, Steps DEF IInv, vars, container, notes, ContainerStep, Boot, Open, Stop, Spawn,
            SyncExits, Pull, Download, Sends, Quiet, Writes
<1>2. ASSUME NEW g \in File, Upload(g) \/ Merge(g)
      PROVE  remote'[f] \notin Chain(remote[f])
  BY <1>2 DEF Upload, Merge, IInv, ChangesAreNews, TypeOK, ContainerTypeOK
<1>3. ASSUME NEW g \in File, NEW e \in Edit, EditElsewhere(g, e)
      PROVE  remote'[f] \notin Chain(remote[f])
  <2>1. /\ \A h \in File : e \notin Chain(remote[h])
    BY <1>3, EditComes, NowhereBefore DEF IInv
  <2>2. remote'[f] = e
    BY <1>3 DEF EditElsewhere, IInv, TypeOK, ContainerTypeOK
  <2> QED BY <2>1, <2>2
<1> QED BY <1>1, <1>2, <1>3

\* No step takes a note of the owner's vault back to what it was before.
THEOREM NeverGoesBack == Spec => VaultNeverGoesBack
<1>1. IInv /\ [Next]_vars
        => [\A f \in File : remote'[f] # remote[f] => remote'[f] \notin Chain(remote[f])]_vars
  BY RemoteMoves
<1> QED BY <1>1, Invariance, PTL DEF Spec, VaultNeverGoesBack
=============================================================================

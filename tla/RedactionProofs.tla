---------------------------- MODULE RedactionProofs --------------------------
(***************************************************************************)
(* Proofs about Redaction for every value of its constants: no current     *)
(* value can be read in what was scanned at the end of a run.              *)
(***************************************************************************)
EXTENDS Redaction, LeastNumbers

USE VaultAssumption, RedactionAssumption

VaultTypeOK ==
    /\ row \in [Credential -> Save \cup {NoSave}]
    /\ spoiled \subseteq Save
    /\ hosts \in [Credential -> SUBSET Host]
    /\ gate \in Approval \cup {Open}
    /\ save \in [Save -> SaveState]
    /\ approval \in [Approval -> ApprovalState]

\* What a step of the operator may do to the rows.
VaultMoves ==
    /\ spoiled \subseteq spoiled'
    /\ \A w \in Save : Landed(w) => Landed(w)'
    /\ \A c \in Credential :
          \/ row'[c] = row[c]
          \/ row'[c] \in Save /\ ~ Landed(row'[c]) /\ save'[row'[c]].step = "written"

LEMMA SaveKept ==
    ASSUME VaultTypeOK, NEW w \in Save, SaveStep(w) \/ \E c \in Credential : SaveCalled(w, c)
    PROVE  VaultTypeOK' /\ VaultMoves
<1>1. save[w] \in SaveState
  BY DEF VaultTypeOK
<1>2. \A names : SavedOf(names) \subseteq Save
  BY DEF SavedOf, Saved
<1>3. ASSUME NEW c \in Credential, SaveCalled(w, c)
      PROVE  VaultTypeOK' /\ VaultMoves
  BY <1>2, <1>3 DEF SaveCalled, SaveBecomes, VaultTypeOK, SaveState, VaultMoves, Landed
<1>4. CASE SaveWritten(w)
  <2>1. /\ row' = [row EXCEPT ![save[w].name] = w]
        /\ save[w].step = "encrypting"
        /\ save' = [save EXCEPT ![w] = [save[w] EXCEPT !.step = "written"]]
        /\ UNCHANGED <<spoiled, hosts, gate, approval>>
    BY <1>4 DEF SaveWritten, SaveBecomes
  <2>2. [save[w] EXCEPT !.step = "written"] \in SaveState
    BY <1>1 DEF SaveState
  <2>3. save' \in [Save -> SaveState]
    BY <2>1, <2>2 DEF VaultTypeOK
  <2>4. VaultTypeOK'
    BY <2>1, <2>3 DEF VaultTypeOK
  <2>5. save'[w].step = "written" /\ \A u \in Save \ {w} : save'[u] = save[u]
    BY <1>1, <2>1 DEF VaultTypeOK, SaveState
  <2>6. \A u \in Save : Landed(u) => Landed(u)'
    BY <2>1, <2>5 DEF Landed
  <2>7. \A c \in Credential : row'[c] = row[c] \/ row'[c] = w
    BY <2>1 DEF VaultTypeOK
  <2>8. ~ Landed(w)
    BY <2>1 DEF Landed
  <2> QED BY <2>1, <2>4, <2>5, <2>6, <2>7, <2>8 DEF VaultMoves
<1>5. CASE SaveAnswered(w) \/ SaveLost(w)
  <2>1. PICK step \in {"saved", "lost"} :
            /\ save' = [save EXCEPT ![w] = [save[w] EXCEPT !.step = step]]
            /\ UNCHANGED <<row, spoiled, hosts, gate, approval>>
    BY <1>5 DEF SaveAnswered, SaveLost, SaveBecomes
  <2>2. [save[w] EXCEPT !.step = step] \in SaveState
    BY <1>1 DEF SaveState
  <2>3. save' \in [Save -> SaveState]
    BY <2>1, <2>2 DEF VaultTypeOK
  <2>4. VaultTypeOK'
    BY <2>1, <2>3 DEF VaultTypeOK
  <2>5. save'[w].step = step /\ \A u \in Save \ {w} : save'[u] = save[u]
    BY <1>1, <2>1 DEF VaultTypeOK, SaveState
  <2> QED BY <2>1, <2>4, <2>5 DEF VaultMoves, Landed
<1> QED BY <1>3, <1>4, <1>5 DEF SaveStep

LEMMA ApprovalKept ==
    ASSUME VaultTypeOK, ApprovalsAreNamed, NEW a \in Approval,
           \/ ApprovalStep(a)
           \/ \E c \in Credential, h \in Host : ApproveCalled(a, c, h)
    PROVE  VaultTypeOK' /\ ApprovalsAreNamed' /\ UNCHANGED <<row, spoiled, save>>
<1>1. approval[a] \in ApprovalState
  BY DEF VaultTypeOK
<1> DEFINE Becomes(s) == approval' = [approval EXCEPT ![a] = s]
<1>2. ASSUME NEW s \in ApprovalState, Becomes(s), hosts' \in [Credential -> SUBSET Host],
             gate' \in Approval \cup {Open}, UNCHANGED <<row, spoiled, save>>,
             s.name \in Credential, s.host \in Host
      PROVE  VaultTypeOK' /\ ApprovalsAreNamed'
  <2>1. approval' \in [Approval -> ApprovalState]
    BY <1>2 DEF VaultTypeOK
  <2>2. VaultTypeOK'
    BY <1>2, <2>1 DEF VaultTypeOK
  <2>3. approval'[a] = s /\ \A b \in Approval \ {a} : approval'[b] = approval[b]
    BY <1>2 DEF VaultTypeOK
  <2>4. ApprovalsAreNamed'
    BY <1>2, <2>3 DEF ApprovalsAreNamed
  <2> QED BY <2>2, <2>4
<1>3. ASSUME NEW c \in Credential, NEW h \in Host, ApproveCalled(a, c, h)
      PROVE  VaultTypeOK' /\ ApprovalsAreNamed' /\ UNCHANGED <<row, spoiled, save>>
  <2> DEFINE s == [step |-> "called", name |-> c, host |-> h, existing |-> {}]
  <2>1. s \in ApprovalState /\ s.name \in Credential /\ s.host \in Host
    BY DEF ApprovalState
  <2>2. Becomes(s) /\ UNCHANGED <<row, spoiled, hosts, gate, save>>
    BY <1>3 DEF ApproveCalled, ApprovalBecomes
  <2>3. hosts' \in [Credential -> SUBSET Host] /\ gate' \in Approval \cup {Open}
    BY <2>2 DEF VaultTypeOK
  <2> HIDE DEF s
  <2> QED BY <1>2, <2>1, <2>2, <2>3
<1>4. ASSUME ApprovalStep(a)
      PROVE  /\ approval[a].step # "uncalled"
             /\ hosts' \in [Credential -> SUBSET Host]
             /\ gate' \in Approval \cup {Open}
             /\ UNCHANGED <<row, spoiled, save>>
             /\ \E s \in ApprovalState : Becomes(s) /\ s.name = approval[a].name
                                                   /\ s.host = approval[a].host
  <2>1. approval[a].step # "uncalled" /\ UNCHANGED <<row, spoiled, save>>
    BY <1>4 DEF ApprovalStep, ApproveRead, ApproveWrite, ApproveAnswered, ApproveLost
  <2>2. hosts[approval[a].name] \in SUBSET Host /\ Lower[approval[a].host] \in Host
    BY <2>1 DEF ApprovalsAreNamed, VaultTypeOK
  <2>3. CASE ApproveRead(a)
    <3> DEFINE s == [approval[a] EXCEPT !.step = "read", !.existing = hosts[approval[a].name]]
    <3>1. s \in ApprovalState /\ s.name = approval[a].name /\ s.host = approval[a].host
      BY <1>1, <2>2 DEF ApprovalState
    <3>2. Becomes(s) /\ gate' = a /\ hosts' = hosts
      BY <2>3 DEF ApproveRead, ApprovalBecomes
    <3> HIDE DEF s
    <3> QED BY <2>1, <3>1, <3>2 DEF VaultTypeOK
  <2>4. CASE ApproveWrite(a)
    <3> DEFINE s == [approval[a] EXCEPT !.step = "written"]
    <3>1. s \in ApprovalState /\ s.name = approval[a].name /\ s.host = approval[a].host
      BY <1>1 DEF ApprovalState
    <3>2. approval[a].existing \subseteq Host
      BY <1>1 DEF ApprovalState
    <3>3. /\ Becomes(s) /\ gate' = Open
          /\ hosts' = [hosts EXCEPT ![approval[a].name] =
                          approval[a].existing \cup {Lower[approval[a].host]}]
      BY <2>4 DEF ApproveWrite, ApprovalBecomes
    <3>4. hosts' \in [Credential -> SUBSET Host]
      BY <2>2, <3>2, <3>3 DEF VaultTypeOK
    <3> HIDE DEF s
    <3> QED BY <2>1, <3>1, <3>3, <3>4
  <2>5. CASE ApproveAnswered(a) \/ ApproveLost(a)
    <3>1. PICK step \in {"approved", "lost"} :
              /\ Becomes([approval[a] EXCEPT !.step = step])
              /\ hosts' = hosts /\ gate' \in {gate, Open}
      BY <2>5 DEF ApproveAnswered, ApproveLost, ApprovalBecomes
    <3> DEFINE s == [approval[a] EXCEPT !.step = step]
    <3>2. s \in ApprovalState /\ s.name = approval[a].name /\ s.host = approval[a].host
      BY <1>1 DEF ApprovalState
    <3>3. Becomes(s)
      BY <3>1
    <3> HIDE DEF s
    <3> QED BY <2>1, <3>1, <3>2, <3>3 DEF VaultTypeOK
  <2> QED BY <1>4, <2>3, <2>4, <2>5 DEF ApprovalStep
<1>5. CASE ApprovalStep(a)
  <2>1. PICK s \in ApprovalState : Becomes(s) /\ s.name = approval[a].name
                                              /\ s.host = approval[a].host
    BY <1>4, <1>5
  <2>2. s.name \in Credential /\ s.host \in Host
    BY <1>4, <1>5, <2>1 DEF ApprovalsAreNamed
  <2> QED BY <1>2, <1>4, <1>5, <2>1, <2>2
<1> QED BY <1>3, <1>5

LEMMA VaultKept ==
    ASSUME VaultTypeOK, ApprovalsAreNamed, VaultStep
    PROVE  VaultTypeOK' /\ ApprovalsAreNamed' /\ VaultMoves
<1>1. ASSUME NEW w \in Save, SaveStep(w) \/ \E c \in Credential : SaveCalled(w, c)
      PROVE  VaultTypeOK' /\ ApprovalsAreNamed' /\ VaultMoves
  <2>1. UNCHANGED approval
    BY <1>1 DEF SaveStep, SaveCalled, SaveWritten, SaveAnswered, SaveLost
  <2> QED BY <1>1, <2>1, SaveKept DEF ApprovalsAreNamed
<1>2. ASSUME NEW a \in Approval,
             \/ ApprovalStep(a)
             \/ \E c \in Credential, h \in Host : ApproveCalled(a, c, h)
      PROVE  VaultTypeOK' /\ ApprovalsAreNamed' /\ VaultMoves
  BY <1>2, ApprovalKept DEF VaultMoves, Landed
<1>3. ASSUME NEW c \in Credential, RowSpoils(c)
      PROVE  VaultTypeOK' /\ ApprovalsAreNamed' /\ VaultMoves
  BY <1>3 DEF RowSpoils, VaultTypeOK, ApprovalsAreNamed, VaultMoves, Landed
<1> QED BY <1>1, <1>2, <1>3 DEF VaultStep

----------------------------------------------------------------------------
(* What redaction and the ceilings make of the lines                       *)

\* A text whose own value is known is left with nothing of it: a value that is
\* replaced before it would have to be longer.
LEMMA KnownIsRedacted ==
    ASSUME NEW known, known \subseteq Save, NEW line \in Line
    PROVE  /\ Redact(known, line) \in Text
           /\ Redact(known, line).of = line
           /\ Redact(known, line).clear # "nothing" => line \in Save /\ line \notin known
<1> DEFINE S == Standing(known, line)
<1>1. CASE S = {}
  <2>1. Redact(known, line) = Unread(line)
    BY <1>1 DEF Redact
  <2>2. line # Silent => line \in Save /\ line \notin known
    BY <1>1 DEF Line, Standing
  <2> QED BY <2>1, <2>2 DEF Unread, Text, Line
<1>2. CASE S # {}
  <2>1. \A v \in S : /\ v \in Save /\ Length[v] \in Nat /\ Length[line] \in Nat
                     /\ Length[v] <= Length[line]
                     /\ v # line => line \in Save /\ Length[v] < Length[line]
    BY DEF Standing, Line
  <2> DEFINE T == {Length[line] - Length[v] : v \in S}
  <2>2. T \subseteq Nat /\ T # {}
    BY <1>2, <2>1
  <2>3. PICK v \in S : \A u \in S : Length[line] - Length[v] <= Length[line] - Length[u]
    <3>1. PICK m \in T : \A n \in T : m <= n
      <4> HIDE DEF T
      <4> QED BY <2>2, LeastNumber
    <3> QED BY <3>1
  <2>4. \A u \in S : Length[u] <= Length[v]
    BY <2>1, <2>3
  <2> DEFINE first == FirstOf(S)
  <2>5. first \in S /\ \A u \in S : Length[u] <= Length[first]
    BY <2>4 DEF FirstOf
  <2>6. Redact(known, line) =
            [of    |-> line,
             clear |-> IF first = line THEN "nothing" ELSE "part",
             width |-> Length[line] - Length[first] + MarkerLength]
    BY <1>2 DEF Redact
  <2> HIDE DEF first
  <2>7. Length[line] - Length[first] + MarkerLength \in Nat
    BY <2>1, <2>5
  <2>8. first # line => line \in Save /\ line \notin known
    <3>1. line \in known => line \in S
      BY DEF Standing
    <3> HIDE DEF S
    <3> QED BY <2>1, <2>5, <3>1
  <2> QED BY <2>6, <2>7, <2>8 DEF Text
<1> QED BY <1>1, <1>2

Log == [kept : Seq(Text), dropped : Nat]

\* What the first n lines take is a number.
LEMMA SpentType ==
    ASSUME NEW texts \in Seq(Text), NEW n \in DOMAIN texts
    PROVE  Spent(texts, n) \in Nat
<1>1. n \in Nat /\ \A i \in 1 .. n : i \in DOMAIN texts
  BY DOMAIN texts = 1 .. Len(texts)
<1>2. \A i \in 1 .. n : texts[i].width + 2 \in Nat
  <2>1. \A i \in 1 .. n : texts[i] \in Text
    BY <1>1
  <2>2. \A text \in Text : text.width + 2 \in Nat
    BY DEF Text
  <2> QED BY <2>1, <2>2
<1> DEFINE place == [i \in 1 .. n |-> {i} \X (1 .. texts[i].width + 2)]
           places == {{i} \X (1 .. texts[i].width + 2) : i \in 1 .. n}
<1>3. place \in Surjection(1 .. n, places)
  BY DEF Surjection
<1>4. IsFiniteSet(1 .. n)
  <2>1. 1 \in Int /\ n \in Int
    BY <1>1
  <2> QED BY ONLY <2>1, FS_Interval
<1>5. IsFiniteSet(places)
  <2> HIDE DEF place, places
  <2> QED BY ONLY <1>3, <1>4, FS_Surjection
<1>6. ASSUME NEW i \in 1 .. n PROVE IsFiniteSet({i} \X (1 .. texts[i].width + 2))
  <2> DEFINE w == texts[i].width + 2
  <2>1. 1 \in Int /\ w \in Int
    BY <1>2
  <2> HIDE DEF w
  <2>2. IsFiniteSet(1 .. w)
    BY ONLY <2>1, FS_Interval
  <2>3. IsFiniteSet({i})
    BY FS_Singleton
  <2>4. IsFiniteSet({i} \X (1 .. w))
    BY ONLY <2>2, <2>3, FS_Product
  <2> QED BY <2>4 DEF w
<1>7. \A T \in places : IsFiniteSet(T)
  BY <1>6
<1>8. Cardinality(UNION places) \in Nat
  <2> HIDE DEF places
  <2> QED BY ONLY <1>5, <1>7, FS_UNION, FS_CardinalityType
<1> QED BY <1>8 DEF Spent

\* Whatever fits, it is a beginning of the lines.
LEMMA FitsType ==
    ASSUME NEW texts \in Seq(Text), NEW ceiling
    PROVE  /\ Fits(texts, ceiling) \in Nat /\ Fits(texts, ceiling) <= Len(texts)
           /\ IsFiniteSet({n \in DOMAIN texts : Spent(texts, n) <= ceiling})
<1> DEFINE l == Len(texts)
           fitting == {m \in DOMAIN texts : Spent(texts, m) <= ceiling}
<1>1. l \in Nat /\ fitting \in SUBSET (1 .. l)
  OBVIOUS
<1> HIDE DEF l, fitting
<1>2. IsFiniteSet(1 .. l) /\ Cardinality(1 .. l) = l
  <2>1. 1 \in Int /\ l \in Int
    BY <1>1
  <2>2. IsFiniteSet(1 .. l) /\ Cardinality(1 .. l) = IF 1 > l THEN 0 ELSE l - 1 + 1
    BY ONLY <2>1, FS_Interval
  <2> QED BY <1>1, <2>2
<1>3. IsFiniteSet(fitting) /\ Cardinality(fitting) <= Cardinality(1 .. l)
  BY ONLY <1>1, <1>2, FS_Subset
<1>4. Cardinality(fitting) \in Nat
  BY <1>3, FS_CardinalityType
<1>5. Cardinality(fitting) <= l
  BY <1>2, <1>3
<1> QED BY <1>3, <1>4, <1>5 DEF Fits, fitting, l

\* No fewer lines fit under the higher ceiling.
LEMMA FitsGrows ==
    ASSUME NEW texts \in Seq(Text), NEW low \in Nat, NEW high \in Nat, low <= high
    PROVE  Fits(texts, low) <= Fits(texts, high)
<1> DEFINE fitting(c) == {n \in DOMAIN texts : Spent(texts, n) <= c}
<1>1. fitting(low) \subseteq fitting(high)
  BY SpentType
<1>2. IsFiniteSet(fitting(high))
  BY FitsType
<1>3. Cardinality(fitting(low)) <= Cardinality(fitting(high))
  <2> HIDE DEF fitting
  <2> QED BY <1>1, <1>2, FS_Subset
<1> QED BY <1>3 DEF Fits

LEMMA BoundedKeepsLines ==
    ASSUME NEW texts \in Seq(Text), NEW ceiling
    PROVE  /\ Bounded(texts, ceiling) \in Log
           /\ Len(Bounded(texts, ceiling).kept) + Bounded(texts, ceiling).dropped = Len(texts)
           /\ Bounded(texts, ceiling).kept = [i \in 1 .. Fits(texts, ceiling) |-> texts[i]]
           /\ Len(Bounded(texts, ceiling).kept) = Fits(texts, ceiling)
           /\ \A i \in DOMAIN Bounded(texts, ceiling).kept :
                 i \in DOMAIN texts /\ Bounded(texts, ceiling).kept[i] = texts[i]
<1> DEFINE n == Fits(texts, ceiling)
<1>1. n \in Nat /\ n <= Len(texts)
  BY FitsType
<1>2. Bounded(texts, ceiling) = [kept |-> SubSeq(texts, 1, n), dropped |-> Len(texts) - n]
  BY DEF Bounded
<1> HIDE DEF n
<1>3. SubSeq(texts, 1, n) = [i \in 1 .. n |-> texts[i]]
  BY <1>1
<1>4. SubSeq(texts, 1, n) \in Seq(Text) /\ Len(SubSeq(texts, 1, n)) = n
  BY <1>1
<1>5. Len(texts) - n \in Nat /\ n + (Len(texts) - n) = Len(texts)
  BY <1>1
<1>6. DOMAIN SubSeq(texts, 1, n) = 1 .. n /\ 1 .. n \subseteq DOMAIN texts
  BY <1>1, <1>3
<1> DEFINE b == Bounded(texts, ceiling)
<1>7. b.kept = SubSeq(texts, 1, n) /\ b.dropped = Len(texts) - n
  <2>1. Len(texts) - n \in Nat /\ n \in Nat /\ Len(texts) \in Nat
    BY <1>1, <1>5
  <2> QED BY <1>2, <1>4, <2>1
<1>8. b \in Log
  BY <1>2, <1>4, <1>5 DEF Log
<1>9. \A i \in DOMAIN b.kept : i \in DOMAIN texts /\ b.kept[i] = texts[i]
  BY <1>3, <1>6, <1>7
<1> HIDE DEF b
<1> QED BY <1>3, <1>4, <1>5, <1>7, <1>8, <1>9 DEF n, b

\* The answer of a run has no more of its log than the record.
Agrees(c) ==
    /\ IsPrefix(c.envelope.kept, c.record.kept)
    /\ \A log \in {c.envelope, c.record} :
          /\ Len(log.kept) + log.dropped = Len(c.logs)
          /\ \A i \in DOMAIN log.kept : log.kept[i].of = c.logs[i]

\* Of the two ceilings the lower cuts a beginning of what the higher leaves.
LEMMA BoundedPrefix ==
    ASSUME NEW texts \in Seq(Text)
    PROVE  IsPrefix(Bounded(texts, EnvelopeCeiling).kept, Bounded(texts, RecordCeiling).kept)
<1> DEFINE m == Fits(texts, EnvelopeCeiling)
           n == Fits(texts, RecordCeiling)
           short == Bounded(texts, EnvelopeCeiling).kept
           long == Bounded(texts, RecordCeiling).kept
<1>1. m \in Nat /\ n \in Nat /\ m <= n
  BY FitsType, FitsGrows
<1>2. /\ short \in Seq(Text) /\ short = [i \in 1 .. m |-> texts[i]] /\ Len(short) = m
      /\ long \in Seq(Text) /\ long = [i \in 1 .. n |-> texts[i]] /\ Len(long) = n
  BY BoundedKeepsLines DEF Log
<1> HIDE DEF m, n, short, long
<1>3. SubSeq(short, 1, m) = [i \in 1 .. m |-> texts[i]]
  BY <1>1, <1>2
<1>4. SubSeq(long, 1, m) = [i \in 1 .. m |-> texts[i]]
  <2>1. SubSeq(long, 1, m) = [i \in 1 .. m |-> long[i]]
    BY <1>1, <1>2
  <2>2. \A i \in 1 .. m : i \in 1 .. n
    BY <1>1
  <2>3. \A i \in 1 .. m : long[i] = texts[i]
    BY <1>2, <2>2
  <2> QED BY <2>1, <2>3
<1>6. SubSeq(short, 1, m) = SubSeq(long, 1, m)
  BY <1>3, <1>4
<1> QED BY <1>1, <1>2, <1>6 DEF IsPrefix, short, long

----------------------------------------------------------------------------
(* The inductive invariant                                                 *)

LEMMA InitHolds == ASSUME Init PROVE IInv
<1> USE DEF Init, VaultInit
<1>1. VaultTypeOK
  BY DEF VaultTypeOK, SaveState, ApprovalState
<1>0. Unread(Silent) \in Text /\ Unread(Silent).of = Silent /\ Unread(Silent).clear = "nothing"
  BY DEF Unread, Text, Line
<1>2. /\ Blank \in Paper
      /\ \A text \in Scanned(Blank) : text.of = Silent /\ text.clear = "nothing"
  BY <1>0 DEF Paper, Blank, Scanned
<1>8. \A r \in Run : /\ run[r] \in RunState /\ run[r].step = "running"
                     /\ run[r].envelope = Blank /\ run[r].record = Blank
                     /\ Reported(run[r]) = {Silent} /\ run[r].left = {}
  BY <1>2 DEF RunState, Reported, Line
<1>3. run \in [Run -> RunState]
  BY <1>8
<1>4. TypeOK
  BY <1>1, <1>3 DEF TypeOK, VaultTypeOK
<1>5. ApprovalsAreNamed
  BY DEF ApprovalsAreNamed
<1>6. ValuesLanded /\ LeftHaveRows /\ ScanMissesNothing /\ ScannedTextsShowOldValuesOnly
  BY <1>2, <1>8 DEF ValuesLanded, LeftHaveRows, ScanMissesNothing, ScannedTextsShowOldValuesOnly
<1>7. AnswerHasNoMoreThanTheRecord
  BY <1>8 DEF AnswerHasNoMoreThanTheRecord
<1> QED BY <1>4, <1>5, <1>6, <1>7 DEF IInv

LEMMA VaultStepHolds == ASSUME IInv, VaultStep, UNCHANGED <<given, run>> PROVE IInv'
<1>1. VaultTypeOK
  BY DEF IInv, TypeOK, VaultTypeOK
<1>2. VaultTypeOK' /\ ApprovalsAreNamed' /\ VaultMoves
  BY <1>1, VaultKept DEF IInv
<1>3. TypeOK'
  BY <1>2 DEF IInv, TypeOK, VaultTypeOK
<1>5. given \subseteq Save /\ ValuesLanded /\ ScanMissesNothing /\ ScannedTextsShowOldValuesOnly
  BY DEF IInv, TypeOK
<1>6. \A w \in Save : Landed(w) => Landed(w)'
  BY <1>2 DEF VaultMoves
<1>7. ASSUME NEW c \in Credential, NEW w \in given \cup {Silent}, row'[c] = w
      PROVE  row[c] = w
  <2>1. w \in Save => Landed(w)
    BY <1>5 DEF ValuesLanded
  <2>2. w \notin Save => w = Silent
    BY <1>5
  <2> QED BY <1>2, <1>7, <2>1, <2>2 DEF VaultMoves
<1>8. ValuesLanded'
  <2>1. ASSUME NEW c \in Credential, row'[c] # NoSave PROVE Landed(row[c])'
    <3>1. CASE row'[c] = row[c]
      <4>1. row[c] \in Save /\ Landed(row[c])
        BY <1>1, <1>5, <2>1, <3>1 DEF VaultTypeOK, ValuesLanded
      <4> QED BY <1>6, <3>1, <4>1
    <3>2. CASE row'[c] \in Save /\ save'[row'[c]].step = "written"
      BY <3>2 DEF Landed
    <3> QED BY <1>2, <3>1, <3>2 DEF VaultMoves
  <2>2. \A w \in given' : Landed(w)'
    BY <1>5, <1>6 DEF ValuesLanded
  <2> QED BY <1>5, <2>1, <2>2 DEF ValuesLanded, Reported, Scanned
<1>9. ScanMissesNothing'
  <2> SUFFICES ASSUME NEW r \in Run, run[r].step = "values", NEW c \in Credential,
                      row'[c] \in Reported(run[r]) \ spoiled'
               PROVE  c \in run[r].left \/ row'[c] \in run[r].known
    BY DEF ScanMissesNothing, Reported
  <2>1. row'[c] \in given \cup {Silent}
    BY <1>5 DEF ValuesLanded
  <2>2. row[c] = row'[c] /\ row[c] \notin spoiled
    BY <1>2, <1>7, <2>1 DEF VaultMoves
  <2> QED BY <1>5, <2>2 DEF ScanMissesNothing
<1>10. ScannedTextsShowOldValuesOnly'
  <2> SUFFICES ASSUME NEW r \in Run, NEW paper \in {run[r].envelope, run[r].record},
                      NEW text \in Scanned(paper), text.clear # "nothing",
                      text.of \notin spoiled', NEW c \in Credential, row'[c] = text.of
               PROVE  FALSE
    BY DEF ScannedTextsShowOldValuesOnly, Scanned
  <2>1. text.of \in given \cup {Silent} /\ text.of \notin spoiled
    BY <1>2, <1>5 DEF ValuesLanded, VaultMoves
  <2>2. row[c] = text.of
    BY <1>7, <2>1
  <2> QED BY <1>5, <2>1, <2>2 DEF ScannedTextsShowOldValuesOnly
<1>11. LeftHaveRows'
  <2> SUFFICES ASSUME NEW r \in Run, NEW c \in run[r].left PROVE row'[c] # NoSave
    BY DEF LeftHaveRows
  <2>1. c \in Credential /\ row[c] # NoSave
    BY DEF IInv, TypeOK, RunState, LeftHaveRows
  <2> QED BY <1>2, <2>1 DEF VaultMoves
<1>12. AnswerHasNoMoreThanTheRecord'
  BY DEF IInv, AnswerHasNoMoreThanTheRecord
<1> QED BY <1>2, <1>3, <1>8, <1>9, <1>10, <1>11, <1>12 DEF IInv

LEMMA GiveHolds == ASSUME IInv, NEW c \in Credential, Give(c) PROVE IInv'
<1>1. given' = given \cup {row[c]} /\ row[c] \in Save /\ UNCHANGED <<vault, run>>
  BY DEF Give, IInv, TypeOK
<1>2. UNCHANGED <<row, spoiled, hosts, gate, save, approval>>
  BY <1>1 DEF vault
<1>4. TypeOK' /\ ApprovalsAreNamed'
  BY <1>1, <1>2 DEF IInv, TypeOK, ApprovalsAreNamed
<1>5. Landed(row[c])
  BY <1>1 DEF IInv, ValuesLanded
<1>6. ValuesLanded'
  BY <1>1, <1>2, <1>5 DEF IInv, ValuesLanded, Landed, Reported, Scanned
<1>7. LeftHaveRows' /\ ScanMissesNothing' /\ ScannedTextsShowOldValuesOnly'
  BY <1>1, <1>2
     DEF IInv, LeftHaveRows, ScanMissesNothing, ScannedTextsShowOldValuesOnly, Reported, Scanned
<1>8. AnswerHasNoMoreThanTheRecord'
  BY <1>1 DEF IInv, AnswerHasNoMoreThanTheRecord
<1> QED BY <1>4, <1>6, <1>7, <1>8 DEF IInv

\* A run that moves leaves the rest as it is; what is asked of it afterwards.
LEMMA TurnHolds ==
    ASSUME IInv, NEW r \in Run, NEW c \in RunState, Turn(r, c), UNCHANGED <<vault, given>>,
           Reported(c) \subseteq given \cup {Silent},
           \A d \in c.left : row[d] # NoSave,
           \/ c.envelope = run[r].envelope /\ c.record = run[r].record
           \/ \A paper \in {c.envelope, c.record} : \A text \in Scanned(paper) :
                 /\ text.of \in given \cup {Silent}
                 /\ text.clear # "nothing" =>
                       text.of \in spoiled \/ \A d \in Credential : row[d] # text.of,
           c.step = "values" => \A d \in Credential :
               row[d] \in Reported(c) \ spoiled => d \in c.left \/ row[d] \in c.known,
           c.step = "answered" => Agrees(c)
    PROVE  IInv'
<1>1. UNCHANGED <<row, spoiled, hosts, gate, save, approval, given>>
  BY DEF vault
<1>2. run \in [Run -> RunState]
  BY DEF IInv, TypeOK
<1>3. run'[r] = c /\ \A q \in Run \ {r} : run'[q] = run[q]
  BY <1>2 DEF Turn
<1>4. run' \in [Run -> RunState]
  BY <1>2 DEF Turn
<1>5. TypeOK' /\ ApprovalsAreNamed'
  BY <1>1, <1>4 DEF IInv, TypeOK, ApprovalsAreNamed
<1>6. \A q \in Run : \A paper \in {run'[q].envelope, run'[q].record} : \A text \in Scanned(paper) :
          /\ text.of \in given \cup {Silent}
          /\ text.clear # "nothing" =>
                text.of \in spoiled \/ \A d \in Credential : row[d] # text.of
  <2>1. \A q \in Run : \A paper \in {run[q].envelope, run[q].record} : \A text \in Scanned(paper) :
            /\ text.of \in given \cup {Silent}
            /\ text.clear # "nothing" =>
                  text.of \in spoiled \/ \A d \in Credential : row[d] # text.of
    BY DEF IInv, ValuesLanded, ScannedTextsShowOldValuesOnly
  <2> QED BY <1>3, <2>1
<1>8. ValuesLanded'
  <2>1. \A q \in Run : Reported(run'[q]) \subseteq given' \cup {Silent}
    BY <1>1, <1>3 DEF IInv, ValuesLanded
  <2>2. \A q \in Run : \A paper \in {run'[q].envelope, run'[q].record} :
            \A text \in Scanned(paper) : text.of \in given' \cup {Silent}
    BY <1>1, <1>6
  <2>3. \A w : Landed(w)' <=> Landed(w)
    BY <1>1 DEF Landed
  <2>4. \A d \in Credential : row'[d] # NoSave => Landed(row[d])'
    BY <1>1 DEF IInv, ValuesLanded, Landed
  <2>5. \A w \in given' : Landed(w)'
    BY <1>1, <2>3 DEF IInv, ValuesLanded
  <2> QED BY <2>1, <2>2, <2>4, <2>5 DEF ValuesLanded, Reported, Scanned
<1>9. ScanMissesNothing'
  <2>1. \A q \in Run : run'[q].step = "values" => \A d \in Credential :
            row'[d] \in Reported(run'[q]) \ spoiled' =>
                d \in run'[q].left \/ row'[d] \in run'[q].known
    BY <1>1, <1>3 DEF IInv, ScanMissesNothing
  <2> QED BY <2>1 DEF ScanMissesNothing, Reported
<1>10. ScannedTextsShowOldValuesOnly'
  BY <1>1, <1>6 DEF ScannedTextsShowOldValuesOnly, Scanned
<1>11. LeftHaveRows'
  BY <1>1, <1>3 DEF IInv, LeftHaveRows
<1>12. AnswerHasNoMoreThanTheRecord'
  <2>1. \A q \in Run : run[q].step = "answered" => Agrees(run[q])
    BY DEF IInv, AnswerHasNoMoreThanTheRecord, Agrees
  <2>2. \A q \in Run : run'[q].step = "answered" => Agrees(run'[q])
    BY <1>3, <2>1
  <2> QED BY <2>2 DEF AnswerHasNoMoreThanTheRecord, Agrees
<1> QED BY <1>5, <1>8, <1>9, <1>10, <1>11, <1>12 DEF IInv

LEMMA ReportHolds == ASSUME IInv, NEW r \in Run, Report(r) PROVE IInv'
<1>1. run[r] \in RunState /\ given \subseteq Save
  BY DEF IInv, TypeOK
<1>2. PICK n \in 0 .. MaxTexts, body \in given \cup {Silent}, labels \in SUBSET given :
          \E logs \in [1 .. n -> given \cup {Silent}] :
             Turn(r, [run[r] EXCEPT !.step = "names", !.logs = logs, !.body = body,
                                    !.labels = labels])
  BY DEF Report
<1>3. PICK logs \in [1 .. n -> given \cup {Silent}] :
          Turn(r, [run[r] EXCEPT !.step = "names", !.logs = logs, !.body = body,
                                 !.labels = labels])
  BY <1>2
<1>4. logs \in Seq(Line) /\ body \in Line /\ labels \in SUBSET Save
  <2>1. logs \in [1 .. n -> Line] /\ n \in Nat
    BY <1>1 DEF Line
  <2> QED BY <1>1, <2>1 DEF Line
<1> DEFINE c == [run[r] EXCEPT !.step = "names", !.logs = logs, !.body = body, !.labels = labels]
<1>5. /\ c \in RunState /\ c.step = "names" /\ c.logs = logs /\ c.body = body
      /\ c.left = run[r].left /\ c.envelope = run[r].envelope /\ c.record = run[r].record
  BY <1>1, <1>4 DEF RunState
<1>6. Turn(r, c) /\ UNCHANGED <<vault, given>>
  BY <1>3 DEF Report
<1>7. /\ Reported(c) \subseteq given \cup {Silent}
      /\ \A d \in c.left : row[d] # NoSave
  BY <1>5 DEF IInv, LeftHaveRows, Reported
<1> HIDE DEF c
<1> QED BY <1>5, <1>6, <1>7, TurnHolds

LEMMA ScanHolds ==
    ASSUME IInv, NEW r \in Run,
           ListNames(r) \/ Rejects(r) \/ \E c \in Credential : ReadForRedaction(r, c)
    PROVE  IInv'
<1>1. run[r] \in RunState /\ row \in [Credential -> Save \cup {NoSave}]
  BY DEF IInv, TypeOK
<1>2. Reported(run[r]) \subseteq given \cup {Silent}
  BY DEF IInv, ValuesLanded
<1>3. given \subseteq Save
  BY DEF IInv, TypeOK
<1>4. CASE ListNames(r)
  <2> DEFINE left == {d \in Credential : row[d] # NoSave}
             c == [run[r] EXCEPT !.step = "values", !.left = left]
  <2>1. /\ c \in RunState /\ c.step = "values" /\ c.left = left
        /\ c.logs = run[r].logs /\ c.body = run[r].body
        /\ c.envelope = run[r].envelope /\ c.record = run[r].record
    BY <1>1 DEF RunState
  <2>2. Turn(r, c) /\ UNCHANGED <<vault, given>>
    BY <1>4 DEF ListNames
  <2>3. Reported(c) = Reported(run[r])
    BY <2>1 DEF Reported
  <2>4. /\ Reported(c) \subseteq given \cup {Silent}
        /\ \A d \in Credential : row[d] \in Reported(c) => d \in c.left
        /\ \A d \in c.left : row[d] # NoSave
    BY <1>2, <1>3, <2>1, <2>3
  <2> HIDE DEF c
  <2> QED BY <2>1, <2>2, <2>3, <2>4, TurnHolds
<1>5. CASE Rejects(r)
  <2> DEFINE c == [run[r] EXCEPT !.step = "unexpected"]
  <2>1. /\ c \in RunState /\ c.step = "unexpected" /\ c.left = run[r].left
        /\ c.logs = run[r].logs /\ c.body = run[r].body
        /\ c.envelope = run[r].envelope /\ c.record = run[r].record
    BY <1>1 DEF RunState
  <2>2. Turn(r, c) /\ UNCHANGED <<vault, given>>
    BY <1>5 DEF Rejects
  <2>3. /\ Reported(c) \subseteq given \cup {Silent}
        /\ \A d \in c.left : row[d] # NoSave
    BY <1>2, <2>1 DEF IInv, LeftHaveRows, Reported
  <2> HIDE DEF c
  <2> QED BY <2>1, <2>2, <2>3, TurnHolds
<1>6. ASSUME NEW d \in Credential, ReadForRedaction(r, d) PROVE IInv'
  <2> DEFINE c == [run[r] EXCEPT !.left = @ \ {d}, !.known = @ \cup ({row[d]} \ spoiled)]
  <2>1. run[r].step = "values" /\ Turn(r, c) /\ UNCHANGED <<vault, given>>
    BY <1>6 DEF ReadForRedaction
  <2>2. row[d] \in Save
    BY <1>1, <1>6 DEF ReadForRedaction, IInv, LeftHaveRows
  <2>3. /\ c \in RunState /\ c.step = "values"
        /\ c.logs = run[r].logs /\ c.body = run[r].body
        /\ c.left = run[r].left \ {d} /\ c.known = run[r].known \cup ({row[d]} \ spoiled)
        /\ c.envelope = run[r].envelope /\ c.record = run[r].record
    BY <1>1, <2>1, <2>2 DEF RunState
  <2>4. Reported(c) = Reported(run[r]) /\ \A e \in c.left : row[e] # NoSave
    BY <2>3 DEF IInv, LeftHaveRows, Reported
  <2>5. \A e \in Credential :
            row[e] \in Reported(c) \ spoiled => e \in c.left \/ row[e] \in c.known
    BY <2>1, <2>3, <2>4 DEF IInv, ScanMissesNothing
  <2> HIDE DEF c
  <2> QED BY <1>2, <2>1, <2>3, <2>4, <2>5, TurnHolds
<1> QED BY <1>4, <1>5, <1>6

LEMMA AnswerHolds == ASSUME IInv, NEW r \in Run, Answer(r) PROVE IInv'
<1>1. run[r] \in RunState
  BY DEF IInv, TypeOK
<1>2. Reported(run[r]) \subseteq given \cup {Silent}
  BY DEF IInv, ValuesLanded
<1> DEFINE known == run[r].known
           lines == [i \in DOMAIN run[r].logs |-> Redact(known, run[r].logs[i])]
           e == Bounded(lines, EnvelopeCeiling)
           d == Bounded(lines, RecordCeiling)
           body == Redact(known, run[r].body)
<1>3. known \subseteq Save /\ run[r].logs \in Seq(Line) /\ run[r].body \in Line
  BY <1>1 DEF RunState
<1>4. \A i \in DOMAIN run[r].logs :
          /\ run[r].logs[i] \in Line
          /\ lines[i] \in Text /\ lines[i].of = run[r].logs[i]
          /\ lines[i].clear # "nothing" => run[r].logs[i] \in Save \ known
  <2> TAKE i \in DOMAIN run[r].logs
  <2>1. run[r].logs[i] \in Line
    BY <1>3
  <2>2. lines[i] = Redact(known, run[r].logs[i])
    OBVIOUS
  <2> HIDE DEF known, lines
  <2> QED BY <1>3, <2>1, <2>2, KnownIsRedacted
<1>5. lines \in Seq(Text) /\ DOMAIN lines = DOMAIN run[r].logs
  <2>1. DOMAIN lines = DOMAIN run[r].logs
    OBVIOUS
  <2>2. DOMAIN run[r].logs = 1 .. Len(run[r].logs) /\ Len(run[r].logs) \in Nat
    BY <1>3
  <2>3. lines \in [1 .. Len(run[r].logs) -> Text]
    BY <1>4, <2>2
  <2> HIDE DEF lines
  <2> QED BY <2>1, <2>2, <2>3
<1>6. /\ run[r].step = "values" /\ run[r].left = {} /\ UNCHANGED <<vault, given>>
      /\ \E labels \in {run[r].labels \cup trail : trail \in SUBSET given} :
            Turn(r, [run[r] EXCEPT !.step = "answered",
                                   !.envelope = Filled(e, body, run[r].labels),
                                   !.record = Filled(d, body, labels)])
  BY DEF Answer
<1>13. /\ body \in Text /\ body.of = run[r].body
       /\ body.clear # "nothing" => run[r].body \in Save \ known
  <2> HIDE DEF known
  <2> QED BY <1>3, KnownIsRedacted
<1> HIDE DEF body
<1> HIDE DEF lines
<1>7. /\ \A log \in {e, d} :
            /\ log \in Log
            /\ Len(log.kept) + log.dropped = Len(lines)
            /\ \A i \in DOMAIN log.kept : i \in DOMAIN lines /\ log.kept[i] = lines[i]
      /\ IsPrefix(e.kept, d.kept)
  <2>1. ASSUME NEW ceiling, NEW log, log = Bounded(lines, ceiling)
        PROVE  /\ log \in Log
               /\ Len(log.kept) + log.dropped = Len(lines)
               /\ \A i \in DOMAIN log.kept : i \in DOMAIN lines /\ log.kept[i] = lines[i]
    <3>1. /\ Bounded(lines, ceiling) \in Log
          /\ Len(Bounded(lines, ceiling).kept) + Bounded(lines, ceiling).dropped = Len(lines)
          /\ \A i \in DOMAIN Bounded(lines, ceiling).kept :
                i \in DOMAIN lines /\ Bounded(lines, ceiling).kept[i] = lines[i]
      BY ONLY <1>5, BoundedKeepsLines, Zenon
    <3> QED BY ONLY <2>1, <3>1, Zenon
  <2>2. IsPrefix(e.kept, d.kept)
    BY <1>5, BoundedPrefix
  <2> QED BY <2>1, <2>2
<1> HIDE DEF e, d
<1>14. PICK labels \in {run[r].labels \cup trail : trail \in SUBSET given} :
           Turn(r, [run[r] EXCEPT !.step = "answered",
                                  !.envelope = Filled(e, body, run[r].labels),
                                  !.record = Filled(d, body, labels)])
  BY <1>6
<1>19. run[r].labels \subseteq Save /\ labels \subseteq Save
  <2>1. run[r].labels \subseteq Save /\ given \subseteq Save
    BY <1>1 DEF RunState, IInv, TypeOK
  <2> QED BY <2>1
<1> DEFINE p == Filled(e, body, run[r].labels)
           q == Filled(d, body, labels)
           c == [run[r] EXCEPT !.step = "answered", !.envelope = p, !.record = q]
<1>15. /\ p \in Paper /\ p.kept = e.kept /\ p.dropped = e.dropped /\ p.body = body
       /\ q \in Paper /\ q.kept = d.kept /\ q.dropped = d.dropped /\ q.body = body
  BY <1>7, <1>13, <1>19 DEF Log, Paper, Filled
<1> HIDE DEF p, q
<1>8. /\ c \in RunState /\ c.step = "answered" /\ c.left = run[r].left
      /\ c.logs = run[r].logs /\ c.body = run[r].body
      /\ c.envelope = p /\ c.record = q
  BY <1>1, <1>15 DEF RunState
<1>16. \A n \in Credential : row[n] \in Reported(run[r]) \ spoiled => row[n] \in run[r].known
  BY <1>6 DEF IInv, ScanMissesNothing
<1>17. \A line \in Reported(run[r]) \ run[r].known :
           line \in spoiled \/ \A n \in Credential : row[n] # line
  BY <1>16
<1>9. \A paper \in {p, q} : \A text \in Scanned(paper) :
          /\ text.of \in given \cup {Silent}
          /\ text.clear # "nothing" =>
                text.of \in spoiled \/ \A n \in Credential : row[n] # text.of
  <2> SUFFICES ASSUME NEW text, text = body \/ \E i \in DOMAIN run[r].logs : text = lines[i]
               PROVE  /\ text.of \in given \cup {Silent}
                      /\ text.clear # "nothing" =>
                            text.of \in spoiled \/ \A n \in Credential : row[n] # text.of
    <3>1. \A paper \in {p, q} : \A text \in Scanned(paper) :
              text = body \/ \E i \in DOMAIN run[r].logs : text = lines[i]
      BY <1>5, <1>7, <1>15 DEF Scanned
    <3> QED BY <3>1
  <2>1. /\ text.of \in Reported(run[r])
        /\ text.clear # "nothing" => text.of \notin run[r].known
    BY <1>4, <1>13 DEF Reported
  <2> QED BY <1>2, <1>17, <2>1
<1>10. Reported(c) = Reported(run[r]) /\ \A n \in c.left : row[n] # NoSave
  BY <1>6, <1>8 DEF Reported
<1>18. Turn(r, c)
  BY <1>14 DEF p, q
<1> HIDE DEF c
<1>11. Agrees(c)
  <2>1. Len(lines) = Len(run[r].logs)
    BY <1>3, <1>5
  <2>2. \A log \in {e, d} : \A i \in DOMAIN log.kept : log.kept[i].of = run[r].logs[i]
    BY <1>4, <1>5, <1>7
  <2> QED BY <1>7, <1>8, <1>15, <2>1, <2>2 DEF Agrees
<1> QED BY <1>2, <1>6, <1>8, <1>9, <1>10, <1>11, <1>18, TurnHolds

\* Every reachable state satisfies the inductive invariant.
THEOREM Invariance == Spec => []IInv
<1>1. ASSUME IInv, [Next]_vars PROVE IInv'
  <2>1. CASE UNCHANGED vars
    BY <1>1, <2>1
       DEF vars, vault, IInv, TypeOK, ApprovalsAreNamed, ValuesLanded, Landed,
           LeftHaveRows, ScanMissesNothing, ScannedTextsShowOldValuesOnly, Reported, Scanned,
           AnswerHasNoMoreThanTheRecord
  <2>2. CASE VaultStep /\ UNCHANGED <<given, run>>
    BY <1>1, <2>2, VaultStepHolds
  <2>3. ASSUME NEW c \in Credential, Give(c) PROVE IInv'
    BY <1>1, <2>3, GiveHolds
  <2>4. ASSUME NEW r \in Run, Report(r) \/ RunGoesOn(r) \/ Rejects(r) PROVE IInv'
    BY <1>1, <2>4, ReportHolds, ScanHolds, AnswerHolds DEF RunGoesOn
  <2> QED BY <1>1, <2>1, <2>2, <2>3, <2>4 DEF Next
<1> QED BY <1>1, InitHolds, PTL DEF Spec

\* Every variable has its type, and so has every text that is recorded or
\* answered (the reports of runner/Execute.ts:107-134).
THEOREM TypeCorrect == Spec => []TypeOK
<1>1. IInv => TypeOK
  BY DEF IInv
<1> QED BY <1>1, Invariance, PTL

\* Whatever the lines and the ceilings: what the answer has of a log the
\* record has, and each says how many lines it lacks (Execute.ts:117-134,
\* Runner.ts:171-183).
THEOREM AnswersAreInTheRecord == Spec => []AnswerHasNoMoreThanTheRecord
<1>1. IInv => AnswerHasNoMoreThanTheRecord
  BY DEF IInv
<1> QED BY <1>1, Invariance, PTL

\* A value that can be read in a log line, a result or a failure's message
\* that was answered or recorded is none of the current ones that decrypt,
\* whatever saves, approvals and other runs do meanwhile; a failure's tag and
\* action and the trail's hostnames are not scanned, and not meant
\* (Execute.ts:111-150, Redact.ts:18-30).
THEOREM ScannedTextsShowOldValuesAlways == Spec => []ScannedTextsShowOldValuesOnly
<1>1. IInv => ScannedTextsShowOldValuesOnly
  BY DEF IInv
<1> QED BY <1>1, Invariance, PTL
=============================================================================

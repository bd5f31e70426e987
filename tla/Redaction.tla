------------------------------ MODULE Redaction ------------------------------
(***************************************************************************)
(* How a run ends, over the owner vault: its report is scanned for the     *)
(* owner's values, cut, recorded and answered (the end of                  *)
(* runner/Execute.ts, gateway/Redact.ts, boundedLogs of runner/Runner.ts,  *)
(* allValues of vault/OwnerVault.ts).  A text is known by the value that   *)
(* stands in it, if one does.  The log lines and the body, which is a      *)
(* result or a failure's message, are scanned; what is here called labels, *)
(* a failure's tag and action and the hostnames of the trail, is not.      *)
(* Execute has the awaits and the record's verdict, this has the texts;    *)
(* Egress says how a request gets its values, here it is given one in a    *)
(* step.                                                                   *)
(***************************************************************************)
EXTENDS OwnerVault, Integers, SequencesExt

CONSTANTS
    Run,
    Silent,             \* a text without a value in it
    Length,             \* of each value, and of Silent
    Within,             \* <<v, w>>: the value of v is a part of that of w
    MarkerLength,       \* of "[redacted:name]"
    EnvelopeCeiling,    \* LOGS_CEILING_BYTES
    RecordCeiling,      \* RECORD_LOGS_CEILING_BYTES
    MaxTexts            \* bound: the log lines, the body and the labels of a report

ASSUME RedactionAssumption ==
    /\ Silent \notin Save \cup {NoSave}
    /\ Length \in [Save \cup {Silent} -> Nat \ {0}]
    /\ Within \subseteq Save \X Save
    /\ \A pair \in Within : Length[pair[1]] < Length[pair[2]]
    /\ MarkerLength \in Nat /\ MaxTexts \in Nat
    /\ EnvelopeCeiling \in Nat /\ RecordCeiling \in Nat /\ EnvelopeCeiling <= RecordCeiling

VARIABLES
    given,      \* the values that sandboxes were sent back, and may have stored
    run

vars == <<vault, given, run>>

Line == Save \cup {Silent}

\* How much of the value that a text is known by can be read in it.
Text == [of : Line, clear : {"nothing", "part", "whole"}, width : Nat]

Unread(line) ==
    [of |-> line, clear |-> IF line = Silent THEN "nothing" ELSE "whole", width |-> Length[line]]

\* An answer or a record: of the log what was kept and how many lines were
\* not, the body, and the values that stand in the labels.
Paper == [kept : Seq(Text), dropped : Nat, body : Text, labels : SUBSET Save]

Blank == [kept |-> <<>>, dropped |-> 0, body |-> Unread(Silent), labels |-> {}]

\* "names": listNames is called; "values": those left are to be read.
RunState ==
    [step     : {"running", "names", "values", "answered", "unexpected"},
     logs     : Seq(Line),
     body     : Line,
     labels   : SUBSET Save,
     left     : SUBSET Credential,
     known    : SUBSET Save,
     envelope : Paper,
     record   : Paper]

Init ==
    /\ VaultInit
    /\ given = {}
    /\ run = [r \in Run |->
          [step |-> "running", logs |-> <<>>, body |-> Silent, labels |-> {}, left |-> {},
           known |-> {}, envelope |-> Blank, record |-> Blank]]

Turn(r, c) == run' = [run EXCEPT ![r] = c]

----------------------------------------------------------------------------
\* A request of a sandbox has the value of c substituted (resolveForHost, for
\* a host approved for it), and its response echoes it.  When no run is under
\* way that would make no difference.
Give(c) ==
    /\ gate = Open
    /\ \E r \in Run : run[r].step = "running"
    /\ row[c] # NoSave /\ row[c] \notin spoiled /\ hosts[c] # {}
    /\ given' = given \cup {row[c]}
    /\ UNCHANGED <<vault, run>>

Size(n, body, labels) == n + Cardinality({body} \ {Silent}) + Cardinality(labels)

\* The run is over: its code answered, failed with a tag and perhaps an
\* action of its choice, or was abandoned.
Report(r) ==
    /\ run[r].step = "running"
    /\ \E n \in 0 .. MaxTexts, body \in given \cup {Silent}, labels \in SUBSET given :
          /\ Size(n, body, labels) <= MaxTexts
          /\ \E logs \in [1 .. n -> given \cup {Silent}] :
                Turn(r, [run[r] EXCEPT !.step = "names", !.logs = logs, !.body = body,
                                       !.labels = labels])
    /\ UNCHANGED <<vault, given>>

\* allValues: the names there are ...
ListNames(r) ==
    /\ run[r].step = "names"
    /\ gate = Open
    /\ Turn(r, [run[r] EXCEPT !.step = "values", !.left = {c \in Credential : row[c] # NoSave}])
    /\ UNCHANGED <<vault, given>>

\* Mutant: a row that does not decrypt is not skipped.
ReadUntilDecrypted(r, c) ==
    /\ run[r].step = "values"
    /\ c \in run[r].left
    /\ gate = Open
    /\ row[c] \notin spoiled
    /\ Turn(r, [run[r] EXCEPT !.left = @ \ {c}, !.known = @ \cup {row[c]}])
    /\ UNCHANGED <<vault, given>>

\* ... and the value of each, with its decryption in the open; a row that
\* does not decrypt is skipped.
ReadForRedaction(r, c) ==
    /\ run[r].step = "values"
    /\ c \in run[r].left
    /\ gate = Open
    /\ Turn(r, [run[r] EXCEPT !.left = @ \ {c}, !.known = @ \cup ({row[c]} \ spoiled)])
    /\ UNCHANGED <<vault, given>>

\* The values that stand in the text: its own, and the parts of that.
Standing(values, line) == {v \in values : v = line \/ <<v, line>> \in Within}

\* Mutant: the shortest value is replaced first.
ShortestFirst(values) == CHOOSE v \in values : \A u \in values : Length[v] <= Length[u]

\* byLength: the longest value is replaced first.
FirstOf(values) == CHOOSE v \in values : \A u \in values : Length[u] <= Length[v]

\* redactText: each value is replaced by its marker wherever it stands, and
\* the first leaves nothing of the text's own value, or the rest of it.
Redact(values, line) ==
    LET first == FirstOf(Standing(values, line))
    IN  IF Standing(values, line) = {} THEN Unread(line)
        ELSE [of    |-> line,
              clear |-> IF first = line THEN "nothing" ELSE "part",
              width |-> Length[line] - Length[first] + MarkerLength]

\* Each line takes its length and two.
Spent(texts, n) == Cardinality(UNION {{i} \X (1 .. texts[i].width + 2) : i \in 1 .. n})

Fits(texts, ceiling) ==
    Cardinality({n \in DOMAIN texts : Spent(texts, n) <= ceiling})

\* Mutant: the latest lines are kept, not the earliest.
BoundedFromTheBack(texts, ceiling) ==
    LET n == Fits(Reverse(texts), ceiling)
    IN  [kept |-> SubSeq(texts, Len(texts) - n + 1, Len(texts)), dropped |-> Len(texts) - n]

\* boundedLogs: the lines before the first that does not fit.
Bounded(texts, ceiling) ==
    LET n == Fits(texts, ceiling)
    IN  [kept |-> SubSeq(texts, 1, n), dropped |-> Len(texts) - n]

Filled(log, body, labels) ==
    [kept |-> log.kept, dropped |-> log.dropped, body |-> body, labels |-> labels]

\* All are read: the log and the body are redacted, the log cut, and both
\* recorded and answered.  The labels go as they came, the report's into the
\* answer and the record, the trail's, of requests to hosts of any name, into
\* the record.
Answer(r) ==
    /\ run[r].step = "values" /\ run[r].left = {}
    /\ LET known == run[r].known
           lines == [i \in DOMAIN run[r].logs |-> Redact(known, run[r].logs[i])]
           body  == Redact(known, run[r].body)
       IN \E labels \in {run[r].labels \cup trail : trail \in SUBSET given} :
             /\ Size(Len(lines), run[r].body, labels) <= MaxTexts
             /\ Turn(r, [run[r] EXCEPT
                   !.step     = "answered",
                   !.envelope = Filled(Bounded(lines, EnvelopeCeiling), body, run[r].labels),
                   !.record   = Filled(Bounded(lines, RecordCeiling), body, labels)])
    /\ UNCHANGED <<vault, given>>

\* The call of allValues, or of the store, rejects.
Rejects(r) ==
    /\ run[r].step \in {"names", "values"}
    /\ Turn(r, [run[r] EXCEPT !.step = "unexpected"])
    /\ UNCHANGED <<vault, given>>

RunGoesOn(r) ==
    \/ ListNames(r) \/ Answer(r)
    \/ \E c \in Credential : ReadForRedaction(r, c)

Next ==
    \/ VaultStep /\ UNCHANGED <<given, run>>
    \/ \E c \in Credential : Give(c)
    \/ \E r \in Run : Report(r) \/ RunGoesOn(r) \/ Rejects(r)

Spec == Init /\ [][Next]_vars

\* What a run awaits at its end settles, and an approval lets its gate go; no
\* rejection is counted on, and the operator and the sandbox owe nothing.
FairSpec ==
    /\ Spec
    /\ \A a \in Approval : WF_vars(ApprovalStep(a) /\ UNCHANGED <<given, run>>)
    /\ \A r \in Run : WF_vars(RunGoesOn(r))

----------------------------------------------------------------------------
TypeOK ==
    /\ row \in [Credential -> Save \cup {NoSave}]
    /\ spoiled \subseteq Save
    /\ hosts \in [Credential -> SUBSET Host]
    /\ gate \in Approval \cup {Open}
    /\ save \in [Save -> SaveState]
    /\ approval \in [Approval -> ApprovalState]
    /\ given \subseteq Save
    /\ run \in [Run -> RunState]

\* What was scanned of an answer or a record.
Scanned(paper) == {paper.kept[i] : i \in DOMAIN paper.kept} \cup {paper.body}

\* A value that can be read, whole or in part, in a log line, a result or a
\* failure's message that was answered or recorded is one that another has
\* replaced since the run was given it, or one that does not decrypt any more:
\* of what is scanned no current value leaves, although saves go on while the
\* run and the scan do.  Of the labels nothing is said: a current value can be
\* read there (Execute.ts:111-150, Redact.ts:18-30).
ScannedTextsShowOldValuesOnly ==
    \A r \in Run : \A paper \in {run[r].envelope, run[r].record} : \A text \in Scanned(paper) :
        text.clear # "nothing" => text.of \in spoiled \/ \A c \in Credential : row[c] # text.of

\* What the answer has of the log the record has too, both from its
\* beginning, and each says how many lines it lacks: the two are cut by
\* ceilings of their own (Execute.ts:117-134, Runner.ts:171-183).
AnswerHasNoMoreThanTheRecord ==
    \A r \in Run : run[r].step = "answered" =>
        /\ IsPrefix(run[r].envelope.kept, run[r].record.kept)
        /\ \A log \in {run[r].envelope, run[r].record} :
              /\ Len(log.kept) + log.dropped = Len(run[r].logs)
              /\ \A i \in DOMAIN log.kept : log.kept[i].of = run[r].logs[i]

\* A run that has reported is answered, or its call rejects, although the
\* scan waits for approvals that hold the vault's gate.
RunsAreAnswered ==
    \A r \in Run : run[r].step = "names" ~> run[r].step \in {"answered", "unexpected"}

----------------------------------------------------------------------------
(* The inductive invariant                                                 *)

\* An approval that was called is of a name, for a host.
ApprovalsAreNamed ==
    \A a \in Approval : approval[a].step # "uncalled" =>
        approval[a].name \in Credential /\ approval[a].host \in Host

\* What was written once, or will not be any more.
Landed(w) == save[w].step \in {"written", "saved", "lost"}

\* What is to be scanned of a run.
Reported(c) == {c.logs[i] : i \in DOMAIN c.logs} \cup {c.body}

\* What is in a row, was given to a sandbox or stands in a text was written
\* before; so a row that is overwritten does not get its old value back.
ValuesLanded ==
    /\ \A c \in Credential : row[c] # NoSave => Landed(row[c])
    /\ \A w \in given : Landed(w)
    /\ \A r \in Run :
          /\ Reported(run[r]) \subseteq given \cup {Silent}
          /\ \A paper \in {run[r].envelope, run[r].record} : \A text \in Scanned(paper) :
                text.of \in given \cup {Silent}

\* A current value in the log or the body is known to the scan, or has yet to
\* be read.
ScanMissesNothing ==
    \A r \in Run : run[r].step = "values" =>
        \A c \in Credential :
            row[c] \in Reported(run[r]) \ spoiled =>
                c \in run[r].left \/ row[c] \in run[r].known

\* A name that was listed keeps a row: nothing deletes one.
LeftHaveRows == \A r \in Run : \A c \in run[r].left : row[c] # NoSave

IInv ==
    /\ TypeOK /\ ApprovalsAreNamed /\ ValuesLanded /\ LeftHaveRows
    /\ ScanMissesNothing /\ ScannedTextsShowOldValuesOnly /\ AnswerHasNoMoreThanTheRecord
=============================================================================

----------------------------- MODULE RunRecords -----------------------------
(***************************************************************************)
(* The owner store's run tables (store/RunRecords.ts behind                *)
(* store/OwnerStore.ts): trail_buffer, trail_dropped and run_records.      *)
(* Every method is synchronous SQL, so a method is one step.  A table is   *)
(* the set of its rows: the order of a trail, and what its lines say       *)
(* besides the request they are of, are left out.                          *)
(***************************************************************************)
EXTENDS Naturals, FiniteSets

CONSTANTS
    Run,            \* the run ids
    Request,        \* the outbound requests of all of them
    NoRecord,       \* no row in run_records
    TrailBound,     \* TRAIL_BOUND
    SweepAge        \* TRAIL_SWEEP_MS

ASSUME RecordsAssumption ==
    /\ IsFiniteSet(Run)
    /\ IsFiniteSet(Request)
    /\ TrailBound \in Nat
    /\ SweepAge \in Nat

Outcome == {"success", "failure"}

TrailRow == [run : Run, request : Request, at : Nat]

RunRecord == [outcome : Outcome, trail : SUBSET TrailRow, dropped : Nat]

ASSUME NoRecordAssumption == NoRecord \notin RunRecord

VARIABLES
    trail,      \* trail_buffer
    dropped,    \* trail_dropped; 0 where the table has no row
    record      \* run_records

records == <<trail, dropped, record>>

RecordsInit ==
    /\ trail = {}
    /\ dropped = [r \in Run |-> 0]
    /\ record = [r \in Run |-> NoRecord]

TrailOf(r) == {row \in trail : row.run = r}

\* Mutant: past the bound the line is not counted.
AppendOrForget(r, q, now) ==
    /\ trail' = IF Cardinality(TrailOf(r)) >= TrailBound THEN trail
                ELSE trail \cup {[run |-> r, request |-> q, at |-> now]}
    /\ UNCHANGED <<dropped, record>>

\* appendTrail: past the bound the line is counted, not kept.
AppendTrail(r, q, now) ==
    /\ IF Cardinality(TrailOf(r)) >= TrailBound
       THEN dropped' = [dropped EXCEPT ![r] = @ + 1] /\ UNCHANGED trail
       ELSE /\ trail' = trail \cup {[run |-> r, request |-> q, at |-> now]}
            /\ UNCHANGED dropped
    /\ UNCHANGED record

\* Mutant: the lines of exactly a day are swept as well.
YoungerThanSweep(now) == {row \in trail : row.at + SweepAge > now}

\* The sweep: the lines that are not older than a day.
Fresh(now) == {row \in trail : row.at + SweepAge >= now}

\* putRecord: sweep, take the run's trail, insert; run_id is the primary key,
\* so a second insert of a run throws.
PutRecord(r, outcome, now) ==
    /\ record[r] = NoRecord
    /\ record' = [record EXCEPT ![r] =
          [outcome |-> outcome,
           trail   |-> Fresh(now) \cap TrailOf(r),
           dropped |-> dropped[r]]]
    /\ trail' = Fresh(now) \ TrailOf(r)
    /\ dropped' = [dropped EXCEPT ![r] = 0]
=============================================================================

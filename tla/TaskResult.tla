----------------------------- MODULE TaskResult -----------------------------
(***************************************************************************)
(* The results of a task run: what its attempts ended with, what became of  *)
(* the test data of their fixtures, and the snapshots that are taken of both *)
(* and never change.                                                        *)
(*                                                                         *)
(* An attempt ends with a fact: a seal or a notice of its closure.  A unit   *)
(* has a chain of hygiene revisions, each naming the fixtures of the attempts *)
(* closed by then as they were seen; its last one is kept here.  Who writes   *)
(* one is what this module is about: a seal and its replays, a fixture that   *)
(* is bound and one that is released do, a closure without a seal does not.   *)
(* The run closes with a QUALITY_FINAL snapshot, and a FULLY_RESOLVED one is  *)
(* due as soon as the last hygiene of every unit is terminal.                 *)
(*                                                                         *)
(* Every transaction reads one clock when it begins, and its snapshot must   *)
(* not be older than what the snapshot is of: that is decided here by who    *)
(* overtakes whom, and times are left out.                                   *)
(*                                                                         *)
(* TaskUnit has the attempts and FixtureRun the fixtures in full.            *)
(***************************************************************************)
EXTENDS Naturals, FiniteSets, Sequences

CONSTANTS
  Units,         \* units of the run
  TotalRetries,  \* max_total_infra_retries of the manifest
  Creating,      \* whether the plans of the fixtures create resources
  Verdicts,      \* of the seals
  MaxRevision,   \* bound on what happens to a fixture before it is final
  MaxReplays,    \* bound on the replays of a release or of the finish
  MaxSnapshots   \* bound on the snapshots

ASSUME TaskResultAssumption ==
  /\ Units # {} /\ IsFiniteSet(Units)
  /\ MaxSnapshots \in Nat \ {0}
  /\ {TotalRetries, MaxRevision, MaxReplays} \subseteq Nat
  /\ Creating \subseteq BOOLEAN
  /\ Verdicts \subseteq {"PASSED", "FAILED", "INCONCLUSIVE"}

VARIABLES
  attempt,   \* the attempts of each unit, their facts and their fixtures
  hygiene,   \* inputs of the latest unit_hygiene_resolution_revision of each unit
  run,       \* task_run.lifecycle
  root,      \* AtlasTaskRunWorkflow
  finish,    \* what the transaction that closes the run has been overtaken by
  snapshot,  \* task_result_snapshot, in the order of their revisions
  replays

vars == <<attempt, hygiene, run, root, finish, snapshot, replays>>

\* cleanup_state of a fixture_run: PENDING until it is final; UNNEEDED where its
\* plan creates nothing, which ends UNUSED, or is PENDING after all where an
\* operation of it was left uncertain when it was to be released.
Fixtures == [is : {"NONE", "PENDING", "UNNEEDED", "CLEANED", "LEAKED", "UNUSED"},
             creates : BOOLEAN, revision : 0..MaxRevision]
NoFixture == [is |-> "NONE", creates |-> FALSE, revision |-> 0]
Requested(creates) ==
  [is |-> IF creates THEN "PENDING" ELSE "UNNEEDED", creates |-> creates, revision |-> 0]
Ended == {"CLEANED", "LEAKED", "UNUSED"}

Facts == {"QUEUED", "RUNNING", "SEAL", "CLOSURE"}
Attempts == [fact : Facts, verdict : Verdicts \cup {"INCONCLUSIVE"}, fixture : Fixtures]
NewAttempt == [fact |-> "QUEUED", verdict |-> "INCONCLUSIVE", fixture |-> NoFixture]

Numbers == 1..TotalRetries + 1

\* Inputs of the hygiene of a unit: fixtures of attempts.
Histories == UNION {[S -> Fixtures] : S \in SUBSET Numbers}

Finalities == {"QUALITY_FINAL", "FULLY_RESOLVED", "REEVALUATED"}
Snapshots == [finality : Finalities, hygiene : [Units -> Histories], source : 0..MaxSnapshots]

Init ==
  /\ attempt = [u \in Units |-> <<NewAttempt>>]
  /\ hygiene = [u \in Units |-> <<>>]
  /\ run = "OPEN"
  /\ root = "RUNNING"
  /\ finish = [under |-> FALSE, late |-> {}]
  /\ snapshot = <<>>
  /\ replays = 0

Latest(u) == Len(attempt[u])
Retries == Cardinality({p \in Units \X Numbers : p[2] > 1 /\ p[2] <= Latest(p[1])})
IsClosed(a) == a.fact \in {"SEAL", "CLOSURE"}
Closed(as, fact, verdict) == [as EXCEPT ![Len(as)].fact = fact, ![Len(as)].verdict = verdict]

-----------------------------------------------------------------------------
(* The hygiene of a unit *)

\* Every closed attempt, whatever it was closed by.
Inputs(as) == [n \in {k \in DOMAIN as : IsClosed(as[k])} |-> as[n].fixture]

\* mutant: what has no fixture needs no cleanup
CoveredUnbound(as) == IsClosed(as[1])

\* Only the first attempt is materialized as one that needs a cleanup: it is
\* covered once its fixture is bound, a retry without a fixture always is.
Covered(as) == IsClosed(as[1]) /\ as[1].fixture.is # "NONE"

\* project_unit: the latest revision, or a new one where an input has changed.
Projected(as, latest) == IF Covered(as) THEN Inputs(as) ELSE latest

\* _fixture_data_hygiene
DataHygiene(fixture) ==
  CASE fixture.is \in {"NONE", "UNNEEDED", "UNUSED"} -> "NOT_APPLICABLE"
    [] OTHER                                         -> fixture.is

\* resolve_unit_data_hygiene: a leak of any attempt stays a leak.
UnitHygiene(inputs) ==
  LET states == {DataHygiene(inputs[n]) : n \in DOMAIN inputs}
  IN  IF "LEAKED" \in states THEN "LEAKED"
      ELSE IF "PENDING" \in states THEN "PENDING"
      ELSE IF states = {"NOT_APPLICABLE"} THEN "NOT_APPLICABLE" ELSE "CLEANED"

IsResolved(inputs) == inputs # <<>> /\ UnitHygiene(inputs) # "PENDING"

-----------------------------------------------------------------------------
(* The chain of snapshots *)

Having(finality) == {i \in DOMAIN snapshot : snapshot[i].finality = finality}
Newest(S) == {i \in S : \A j \in S : j <= i}

IsReevaluated == snapshot # <<>> /\ snapshot[Len(snapshot)].finality = "REEVALUATED"

QualitySnapshot == [finality |-> "QUALITY_FINAL", hygiene |-> [u \in Units |-> <<>>], source |-> 0]
FullSnapshot(h) == [finality |-> "FULLY_RESOLVED", hygiene |-> h, source |-> 0]

\* mutant: one full snapshot will do
FullAtMostOnce(h) == Having("FULLY_RESOLVED") = {} /\ \A u \in Units : IsResolved(h[u])

\* snapshot_task_fully_resolved: every unit is resolved, and no such snapshot yet.
FullDue(h) ==
  /\ \A u \in Units : IsResolved(h[u])
  /\ \A i \in Newest(Having("FULLY_RESOLVED")) : snapshot[i].hygiene # h

\* mutant: the database does not look at what the revisions are of
FreshAlways(as, h) == TRUE

\* guard_task_result_snapshot_v2_insert: the hygiene of each unit has an input
\* for each of its attempts, and the fixture still is as the input says.
Fresh(as, h) == \A u \in Units : h[u] = Inputs(as[u])

-----------------------------------------------------------------------------
(* Attempts *)

\* The clock of the transaction that closes the run may be older than this one.
Overtakes(what) ==
  \/ UNCHANGED finish
  \/ finish.under /\ finish' = [finish EXCEPT !.late = @ \cup what]

HygieneOvertakes == IF hygiene' = hygiene THEN UNCHANGED finish ELSE Overtakes({"HYGIENE"})

Start(u) ==
  /\ root = "RUNNING" /\ ~ finish.under
  /\ attempt[u][Latest(u)].fact = "QUEUED"
  /\ attempt' = [attempt EXCEPT ![u][Latest(u)].fact = "RUNNING"]
  /\ UNCHANGED <<hygiene, run, root, finish, snapshot, replays>>

\* A seal closes its attempt and projects quality and hygiene.
AcceptSeal(u, verdict) ==
  /\ attempt[u][Latest(u)].fact = "RUNNING"
  /\ attempt' = [attempt EXCEPT ![u] = Closed(@, "SEAL", verdict)]
  /\ hygiene' = [hygiene EXCEPT ![u] = Projected(attempt'[u], @)]
  /\ Overtakes({"QUALITY"})
  /\ UNCHANGED <<run, root, snapshot, replays>>

\* A child that has no seal, or a root that never heard of one: the quality is
\* projected and the hygiene is not.
CloseWithoutSeal(u) ==
  /\ ~ IsClosed(attempt[u][Latest(u)])
  /\ attempt' = [attempt EXCEPT ![u] = Closed(@, "CLOSURE", "INCONCLUSIVE")]
  /\ Overtakes({"QUALITY"})
  /\ UNCHANGED <<hygiene, run, root, snapshot, replays>>

\* A child that finds a seal projects once more.
FinishSealed(u) ==
  /\ attempt[u][Latest(u)].fact = "SEAL"
  /\ hygiene' = [hygiene EXCEPT ![u] = Projected(attempt[u], @)]
  /\ hygiene' # hygiene
  /\ HygieneOvertakes
  /\ UNCHANGED <<attempt, run, root, snapshot, replays>>

\* Settling schedules a retry of what the infrastructure has failed.
Retry(u) ==
  /\ root = "RUNNING" /\ ~ finish.under
  /\ Retries < TotalRetries
  /\ attempt[u][Latest(u)].fact = "CLOSURE"
  /\ attempt' = [attempt EXCEPT ![u] = Append(@, NewAttempt)]
  /\ UNCHANGED <<hygiene, run, root, finish, snapshot, replays>>

-----------------------------------------------------------------------------
(* Fixtures *)

WithFixture(u, n, fixture) == [attempt EXCEPT ![u][n].fixture = fixture]

\* The binding is as old as the request and the fixture's row is not: where the
\* binding would project the fixture it binds, it is refused.
Bind(u, n, creates) ==
  /\ n \in DOMAIN attempt[u]
  /\ attempt[u][n].fixture = NoFixture
  /\ attempt' = WithFixture(u, n, Requested(creates))
  /\ IsClosed(attempt[u][n]) => ~ Covered(attempt'[u])
  /\ hygiene' = [hygiene EXCEPT ![u] = Projected(attempt'[u], @)]
  /\ HygieneOvertakes
  /\ UNCHANGED <<run, root, snapshot, replays>>

IsBound(u, n) ==
  n \in DOMAIN attempt[u] /\ attempt[u][n].fixture.is \in {"PENDING", "UNNEEDED"}

\* It prepares, or cleans; nobody projects that.
Proceed(u, n) ==
  /\ IsBound(u, n)
  /\ attempt[u][n].fixture.revision < MaxRevision
  /\ attempt' = [attempt EXCEPT ![u][n].fixture.revision = @ + 1]
  /\ UNCHANGED <<hygiene, run, root, finish, snapshot, replays>>

\* An operation whose outcome stays unknown counts as a leak.
Outcomes(is) == {"LEAKED", IF is = "UNNEEDED" THEN "UNUSED" ELSE "CLEANED"}

\* finalize_release dates the hygiene with the row it has just updated, and the
\* snapshot with the beginning of the transaction: no snapshot can be taken of
\* it, and all of the transaction is rolled back.
SnapshotOfRelease(h) == run = "CLOSED" => ~ FullDue(h)

\* finalize_release of a fixture of which all is settled.
Release(u, n, outcome) ==
  /\ IsBound(u, n)
  /\ outcome \in Outcomes(attempt[u][n].fixture.is)
  /\ attempt' = WithFixture(u, n, [attempt[u][n].fixture EXCEPT !.is = outcome])
  /\ hygiene' = [hygiene EXCEPT ![u] = Projected(attempt'[u], @)]
  /\ Covered(attempt'[u]) => SnapshotOfRelease(hygiene')
  /\ HygieneOvertakes
  /\ UNCHANGED <<run, root, snapshot, replays>>

\* The same while a resource or an uncertain operation is still to be settled.
ReleaseUnsettled(u, n) ==
  /\ IsBound(u, n)
  /\ attempt[u][n].fixture.revision < MaxRevision
  /\ attempt' = WithFixture(u, n,
       [attempt[u][n].fixture EXCEPT !.is = "PENDING", !.revision = @ + 1])
  /\ hygiene' = [hygiene EXCEPT ![u] = Projected(attempt'[u], @)]
  /\ Covered(attempt'[u]) => SnapshotOfRelease(hygiene')
  /\ HygieneOvertakes
  /\ UNCHANGED <<run, root, snapshot, replays>>

\* A transaction that changes nothing else of a closed run.
TakesWhatIsDue(h) ==
  IF FullDue(h)
  THEN /\ ~ IsReevaluated /\ Fresh(attempt, h)
       /\ Len(snapshot) < MaxSnapshots
       /\ snapshot' = Append(snapshot, FullSnapshot(h))
  ELSE UNCHANGED snapshot

\* finalize_release again, its answer was lost.  What it projects is dated with
\* the fixture, and refused if another input is younger.
ReplayRelease(u, n) ==
  /\ replays < MaxReplays /\ replays' = replays + 1
  /\ n \in DOMAIN attempt[u] /\ attempt[u][n].fixture.is \in Ended
  /\ Covered(attempt[u])
  /\ hygiene' = [hygiene EXCEPT ![u] = Projected(attempt[u], @)]
  /\ IF run = "CLOSED" THEN TakesWhatIsDue(hygiene') ELSE UNCHANGED snapshot
  /\ HygieneOvertakes
  /\ UNCHANGED <<attempt, run, root>>

-----------------------------------------------------------------------------
(* The end of the run *)

\* The transaction begins, and waits for the lock of the run.
BeginFinish ==
  /\ root = "RUNNING" /\ ~ finish.under
  /\ finish' = [under |-> TRUE, late |-> {}]
  /\ UNCHANGED <<attempt, hygiene, run, root, snapshot, replays>>

\* _reconcile_run_children: what is still open is closed without a seal.
Reconciled ==
  [u \in Units |-> IF IsClosed(attempt[u][Latest(u)]) THEN attempt[u]
                   ELSE Closed(attempt[u], "CLOSURE", "INCONCLUSIVE")]

\* RESULT_SNAPSHOT_WATERMARK_INVALID: an error of the program, that ends the root.
FinishLate ==
  "QUALITY" \in finish.late \/ ("HYGIENE" \in finish.late /\ FullDue(hygiene))

\* The snapshots are taken in the transaction that closes the run.
FinishRun ==
  /\ finish.under /\ run = "OPEN"
  /\ ~ FinishLate
  /\ FullDue(hygiene) => Fresh(Reconciled, hygiene)
  /\ attempt' = Reconciled
  /\ run' = "CLOSED"
  /\ root' = "DONE"
  /\ snapshot' = <<QualitySnapshot>> \o (IF FullDue(hygiene) THEN <<FullSnapshot(hygiene)>> ELSE <<>>)
  /\ finish' = [under |-> FALSE, late |-> {}]
  /\ UNCHANGED <<hygiene, replays>>

FinishFails ==
  /\ finish.under /\ FinishLate
  /\ root' = "FAILED"
  /\ finish' = [under |-> FALSE, late |-> {}]
  /\ UNCHANGED <<attempt, hygiene, run, snapshot, replays>>

\* The database refuses the snapshot; the activity is executed again.
FinishRefused ==
  /\ finish.under /\ ~ FinishLate
  /\ FullDue(hygiene) /\ ~ Fresh(Reconciled, hygiene)
  /\ finish' = [under |-> FALSE, late |-> {}]
  /\ UNCHANGED <<attempt, hygiene, run, root, snapshot, replays>>

\* The answer of the finish was lost.
ReplayFinish ==
  /\ root = "DONE"
  /\ replays < MaxReplays /\ replays' = replays + 1
  /\ TakesWhatIsDue(hygiene)
  /\ UNCHANGED <<attempt, hygiene, run, root, finish>>

\* A user has a full snapshot interpreted by another policy; once for each.
Reevaluate(i) ==
  /\ run = "CLOSED"
  /\ i \in Having("FULLY_RESOLVED")
  /\ \A j \in DOMAIN snapshot : snapshot[j].source # i
  /\ Len(snapshot) < MaxSnapshots
  /\ snapshot' = Append(snapshot, [snapshot[i] EXCEPT !.finality = "REEVALUATED", !.source = i])
  /\ UNCHANGED <<attempt, hygiene, run, root, finish, replays>>

-----------------------------------------------------------------------------
(* The gate *)

\* _resolve_stability: a unit that was retried is never plainly stable here.
StableAndPassed(u) ==
  Len(attempt[u]) = 1 /\ attempt[u][1].fact = "SEAL" /\ attempt[u][1].verdict = "PASSED"

\* evaluate_task_gate, of a snapshot whose failures are all classified: it is not
\* of quality alone, all units have passed and are stable, and no data is left or
\* to be cleaned.
Accepts(s) ==
  /\ s.finality # "QUALITY_FINAL"
  /\ \A u \in Units : StableAndPassed(u) /\ UnitHygiene(s.hygiene[u]) \in {"CLEANED", "NOT_APPLICABLE"}

-----------------------------------------------------------------------------
Next ==
  \/ \E u \in Units : Start(u) \/ CloseWithoutSeal(u) \/ FinishSealed(u) \/ Retry(u)
  \/ \E u \in Units, verdict \in Verdicts : AcceptSeal(u, verdict)
  \/ \E u \in Units, n \in Numbers, creates \in Creating : Bind(u, n, creates)
  \/ \E u \in Units, n \in Numbers : Proceed(u, n) \/ ReleaseUnsettled(u, n) \/ ReplayRelease(u, n)
  \/ \E u \in Units, n \in Numbers : \E outcome \in Ended : Release(u, n, outcome)
  \/ BeginFinish \/ FinishRun \/ FinishFails \/ FinishRefused \/ ReplayFinish
  \/ \E i \in 1..MaxSnapshots : Reevaluate(i)

Spec == Init /\ [][Next]_vars

-----------------------------------------------------------------------------
(* Properties *)

TypeOK ==
  /\ attempt \in [Units -> Seq(Attempts)] /\ \A u \in Units : Latest(u) \in Numbers
  /\ hygiene \in [Units -> Histories]
  /\ run \in {"OPEN", "CLOSED"} /\ root \in {"RUNNING", "DONE", "FAILED"}
  /\ finish \in [under : BOOLEAN, late : SUBSET {"QUALITY", "HYGIENE"}]
  /\ replays \in 0..MaxReplays
  /\ snapshot \in Seq(Snapshots)

\* Quality comes first and once, at the very moment the run closes, and nothing
\* full after a reinterpretation (guard_task_result_snapshot_v3_phase_insert).
PhasesInOrder ==
  /\ (run = "CLOSED") = (snapshot # <<>>)
  /\ Having("QUALITY_FINAL") \subseteq {1}
  /\ \A i \in Having("FULLY_RESOLVED"), j \in Having("REEVALUATED") : i < j
  /\ \A j \in Having("REEVALUATED") : snapshot[j].source \in Having("FULLY_RESOLVED")

\* A full snapshot speaks for every attempt of the run, the failed ones that
\* were retried included: it tells of every leak and of no other, and no fixture
\* of its units was still to be cleaned.  Only some of those who close an attempt
\* project its hygiene, and fixtures go on after their attempts.  Fixtures whose
\* plan creates nothing count as settled while they are at work.
FullSnapshotIsTrue ==
  \A i \in Having("FULLY_RESOLVED") : \A u \in Units :
    LET told == UnitHygiene(snapshot[i].hygiene[u])
        Of(is) == {n \in DOMAIN attempt[u] : attempt[u][n].fixture.is = is}
        created == {n \in DOMAIN attempt[u] : attempt[u][n].fixture.creates}
    IN  /\ Of("LEAKED") \cap created # {} => told = "LEAKED"
        /\ told = "LEAKED" => Of("LEAKED") # {}
        /\ told # "LEAKED" => Of("PENDING") \cap created = {}

\* Once a run is closed and the last hygiene of all its units is terminal, there
\* is a full snapshot that says what they say: whoever settles the last unit takes
\* it in the same transaction, be it the finish or a cleanup.
FullOnceReady ==
  run = "CLOSED" /\ (\A u \in Units : IsResolved(hygiene[u])) =>
    \E i \in Having("FULLY_RESOLVED") :
      \A u \in Units : UnitHygiene(snapshot[i].hygiene[u]) = UnitHygiene(hygiene[u])

\* The chain of snapshots has its form, and is complete once it can be.
ReInv == TypeOK /\ PhasesInOrder /\ FullOnceReady

\* A gate that accepts any snapshot of a run accepts no run that has left data
\* behind, has data still to be cleaned, or whose fixture nobody has bound.
AcceptedMeansClean ==
  \A i \in DOMAIN snapshot : Accepts(snapshot[i]) =>
    \A u \in Units : \A n \in DOMAIN attempt[u] :
      LET fixture == attempt[u][n].fixture
      IN  fixture.is \in {"CLEANED", "UNUSED"} \/ (~ fixture.creates /\ fixture.is # "NONE")
=============================================================================

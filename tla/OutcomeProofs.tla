---------------------------- MODULE OutcomeProofs ----------------------------
(***************************************************************************)
(* Proofs about what a task run leaves behind: its results (TaskResult)    *)
(* and the resources of its fixtures (FixtureRun).                         *)
(*                                                                         *)
(* For any units, retries, fixtures and bounds the chain of snapshots is   *)
(* in order and complete, a full snapshot stays true however its fixtures  *)
(* go on, and what a gate accepts is clean.  For any plan of nodes the     *)
(* ledger of a fixture run forgets nothing that exists at a provider, and  *)
(* certifies and orders the removals truly.                                *)
(***************************************************************************)
EXTENDS TaskResult, FixtureRun, FiniteSetTheorems, SequenceTheorems, TLAPS

-----------------------------------------------------------------------------
(* Results: the inductive invariant *)

\* The finish is under way only for a root that runs, and it closes the run as
\* it ends the root.
RootFits ==
  /\ run = "CLOSED" <=> root = "DONE"
  /\ finish.under => root = "RUNNING"

\* Only a plan that creates nothing has a fixture that needs nothing.
FixtureFits(fixture) ==
  fixture.is \in {"NONE", "UNNEEDED", "UNUSED"} => ~ fixture.creates

\* A retry follows an attempt that was closed without a seal.
AttemptsFit(as) ==
  /\ \A n \in 1..Len(as) - 1 : as[n].fact = "CLOSURE"
  /\ \A n \in DOMAIN as : FixtureFits(as[n].fixture)

SameButRevision(f, g) == f.is = g.is /\ f.creates = g.creates

\* The hygiene of a unit is as old as its last closing or its last settled
\* fixture: nothing but revisions has changed since.
HygieneFits(as, h) ==
  /\ DOMAIN h \subseteq {n \in DOMAIN as : IsClosed(as[n])}
  /\ DOMAIN h # {} => Covered(as)
  /\ \A n \in DOMAIN h : SameButRevision(h[n], as[n].fixture)
  /\ as[Len(as)].fact = "SEAL" /\ Covered(as) => DOMAIN h = DOMAIN as

\* What a full snapshot was told of a unit: the fixture of each attempt, which is
\* settled, or creates nothing, or is still to be cleaned beside one that leaked.
Told(as, h) ==
  /\ DOMAIN h = DOMAIN as
  /\ Covered(as)
  /\ \A n \in DOMAIN as :
       /\ h[n].creates = as[n].fixture.creates
       /\ FixtureFits(h[n])
       /\ h[n].is \notin {"UNNEEDED", "PENDING"} => as[n].fixture.is = h[n].is
       /\ h[n].is = "PENDING" => \E m \in DOMAIN as : h[m].is = "LEAKED"

RowsFit ==
  \A u \in Units : AttemptsFit(attempt[u]) /\ HygieneFits(attempt[u], hygiene[u])

ClosedFits == run = "CLOSED" => \A u \in Units : IsClosed(attempt[u][Latest(u)])

SnapshotsFit ==
  \A i \in DOMAIN snapshot : snapshot[i].finality # "QUALITY_FINAL" =>
    \A u \in Units : Told(attempt[u], snapshot[i].hygiene[u])

ReIInv ==
  /\ TypeOK /\ RootFits /\ RowsFit /\ ClosedFits
  /\ PhasesInOrder /\ SnapshotsFit /\ FullOnceReady

-----------------------------------------------------------------------------
(* Types *)

\* No input yet is a history.
LEMMA EmptyHistory == <<>> \in Histories /\ DOMAIN <<>> = {}
<1>1. <<>> \in [{} -> Fixtures]
  OBVIOUS
<1>2. {} \in SUBSET Numbers
  OBVIOUS
<1> QED
  BY <1>1, <1>2 DEF Histories

\* The attempts of a unit have the first numbers.
LEMMA UpToNumber ==
  ASSUME NEW k \in Numbers
  PROVE  k \in Nat \ {0} /\ 1..k \subseteq Numbers
<1>1. TotalRetries \in Nat
  BY TaskResultAssumption
<1> QED
  BY <1>1 DEF Numbers

\* The inputs of a unit are the fixtures of its closed attempts.
LEMMA InputsAre ==
  ASSUME NEW as \in Seq(Attempts), Len(as) \in Numbers
  PROVE  /\ Inputs(as) \in Histories
         /\ DOMAIN Inputs(as) = {n \in DOMAIN as : IsClosed(as[n])}
         /\ \A n \in DOMAIN as : IsClosed(as[n]) => Inputs(as)[n] = as[n].fixture
<1> DEFINE closed == {n \in DOMAIN as : IsClosed(as[n])}
<1>0. DOMAIN as = 1..Len(as) /\ Len(as) \in Nat /\ TotalRetries \in Nat
  BY LenProperties, TaskResultAssumption
<1>1. closed \in SUBSET Numbers
  <2>1. 1..Len(as) \subseteq Numbers
    BY UpToNumber
  <2> QED
    BY <1>0, <2>1
<1>2. \A n \in DOMAIN as : as[n].fixture \in Fixtures
  <2>1. \A n \in DOMAIN as : as[n] \in Attempts
    BY ElementOfSeq, <1>0
  <2> QED
    BY <2>1 DEF Attempts
<1>3. Inputs(as) = [n \in closed |-> as[n].fixture]
  BY DEF Inputs
<1>4. Inputs(as) \in [closed -> Fixtures]
  BY <1>2, <1>3
<1>5. Inputs(as) \in Histories
  BY <1>1, <1>4 DEF Histories
<1> QED
  BY <1>3, <1>5

\* So what is projected is a history.
LEMMA ProjectedType ==
  ASSUME NEW as \in Seq(Attempts), Len(as) \in Numbers, NEW h \in Histories
  PROVE  Projected(as, h) \in Histories
  BY InputsAre DEF Projected

\* One attempt of a unit is written, and no other.
Rewrites(u, n, row) ==
  /\ n \in DOMAIN attempt[u] /\ row \in Attempts
  /\ attempt' \in [Units -> Seq(Attempts)]
  /\ \A v \in Units \ {u} : attempt'[v] = attempt[v]
  /\ Len(attempt'[u]) = Len(attempt[u]) /\ attempt'[u][n] = row
  /\ \A k \in DOMAIN attempt[u] \ {n} : attempt'[u][k] = attempt[u][k]

\* The write of a whole attempt does that.
LEMMA WriteRewrites ==
  ASSUME TypeOK, NEW u \in Units, NEW n \in DOMAIN attempt[u], NEW row \in Attempts,
         attempt' = [attempt EXCEPT ![u] = [attempt[u] EXCEPT ![n] = row]]
  PROVE  Rewrites(u, n, row)
<1>1. attempt \in [Units -> Seq(Attempts)] /\ attempt[u] \in Seq(Attempts)
  BY DEF TypeOK
<1>2. [attempt[u] EXCEPT ![n] = row] \in Seq(Attempts)
  BY <1>1
<1>3. /\ Len([attempt[u] EXCEPT ![n] = row]) = Len(attempt[u])
      /\ [attempt[u] EXCEPT ![n] = row][n] = row
      /\ \A k \in DOMAIN attempt[u] \ {n} : [attempt[u] EXCEPT ![n] = row][k] = attempt[u][k]
  BY <1>1
<1> QED
  BY <1>1, <1>2, <1>3 DEF Rewrites

\* The write of a fixture writes its attempt.
LEMMA FixtureRewrites ==
  ASSUME TypeOK, NEW u \in Units, NEW n \in DOMAIN attempt[u], NEW fixture \in Fixtures,
         attempt' = WithFixture(u, n, fixture)
  PROVE  Rewrites(u, n, [attempt[u][n] EXCEPT !.fixture = fixture])
<1>1. attempt[u][n] \in Attempts
  BY DEF TypeOK
<1>2. [attempt[u][n] EXCEPT !.fixture = fixture] \in Attempts
  BY <1>1 DEF Attempts
<1>3. attempt' = [attempt EXCEPT ![u] =
        [attempt[u] EXCEPT ![n] = [attempt[u][n] EXCEPT !.fixture = fixture]]]
  BY DEF WithFixture
<1> QED
  BY <1>2, <1>3, WriteRewrites

\* A closing writes the latest attempt.
LEMMA ClosedRewrites ==
  ASSUME TypeOK, NEW u \in Units, NEW fact \in Facts, NEW verdict \in Verdicts \cup {"INCONCLUSIVE"},
         attempt' = [attempt EXCEPT ![u] = Closed(attempt[u], fact, verdict)]
  PROVE  Rewrites(u, Latest(u), [attempt[u][Latest(u)] EXCEPT !.fact = fact, !.verdict = verdict])
<1> DEFINE n == Latest(u)
           row == [attempt[u][n] EXCEPT !.fact = fact, !.verdict = verdict]
<1>1. attempt[u] \in Seq(Attempts) /\ n \in DOMAIN attempt[u] /\ attempt[u][n] \in Attempts
  BY DEF TypeOK, Numbers, Latest
<1>2. row \in Attempts
  BY <1>1 DEF Attempts
<1>3. Closed(attempt[u], fact, verdict) = [attempt[u] EXCEPT ![n] = row]
  BY <1>1 DEF Closed, Latest
<1>4. attempt' = [attempt EXCEPT ![u] = [attempt[u] EXCEPT ![n] = row]]
  BY <1>3
<1> HIDE DEF row, n
<1> QED
  BY <1>1, <1>2, <1>4, WriteRewrites DEF row, n

-----------------------------------------------------------------------------
(* What becomes of a unit *)

\* All attempts before the last are closed.
LEMMA EarlierAreClosed ==
  ASSUME NEW as \in Seq(Attempts), Len(as) \in Numbers, AttemptsFit(as)
  PROVE  /\ \A n \in DOMAIN as : n # Len(as) => as[n].fact = "CLOSURE"
         /\ 1 \in DOMAIN as /\ Len(as) \in DOMAIN as
         /\ IsClosed(as[Len(as)]) => \A n \in DOMAIN as : IsClosed(as[n])
<1> DEFINE k == Len(as)
<1>1. k \in Nat \ {0} /\ DOMAIN as = 1..k
  BY UpToNumber, LenProperties
<1> HIDE DEF k
<1>2. /\ \A n \in DOMAIN as : n # k => n \in 1..k - 1
      /\ 1 \in DOMAIN as /\ k \in DOMAIN as
  BY <1>1
<1> USE DEF k
<1>3. \A n \in DOMAIN as : n # Len(as) => as[n].fact = "CLOSURE"
  BY <1>2 DEF AttemptsFit
<1> QED
  BY <1>2, <1>3 DEF IsClosed

\* A projection is as old as the rows.
LEMMA ProjectionFits ==
  ASSUME NEW as \in Seq(Attempts), Len(as) \in Numbers, AttemptsFit(as),
         NEW h, DOMAIN h # {} => Covered(as)
  PROVE  HygieneFits(as, Projected(as, h))
<1>1. CASE Covered(as)
  <2>1. Projected(as, h) = Inputs(as)
    BY <1>1 DEF Projected
  <2>2. /\ DOMAIN Inputs(as) = {n \in DOMAIN as : IsClosed(as[n])}
        /\ \A n \in DOMAIN as : IsClosed(as[n]) => Inputs(as)[n] = as[n].fixture
    BY InputsAre
  <2>3. ASSUME as[Len(as)].fact = "SEAL"
        PROVE  DOMAIN Inputs(as) = DOMAIN as
    <3>1. \A n \in DOMAIN as : IsClosed(as[n])
      BY <2>3, EarlierAreClosed DEF IsClosed
    <3> QED
      BY <2>2, <3>1
  <2> HIDE DEF Inputs
  <2> QED
    BY <1>1, <2>1, <2>2, <2>3 DEF HygieneFits, SameButRevision
<1>2. CASE ~ Covered(as)
  BY <1>2 DEF Projected, HygieneFits
<1> QED
  BY <1>1, <1>2

\* A hygiene that is as old as the rows stays so while they only go on.
LEMMA HygieneKeeps ==
  ASSUME NEW as \in Seq(Attempts), NEW bs \in Seq(Attempts), NEW h,
         Len(as) \in Numbers, Len(bs) = Len(as), AttemptsFit(as), HygieneFits(as, h),
         \A n \in DOMAIN as : SameButRevision(as[n].fixture, bs[n].fixture),
         \A n \in DOMAIN as : IsClosed(as[n]) => IsClosed(bs[n]),
         bs[Len(bs)].fact = "SEAL" => as[Len(as)].fact = "SEAL"
  PROVE  HygieneFits(bs, h)
<1>1. DOMAIN bs = DOMAIN as /\ 1 \in DOMAIN as
  BY LenProperties, EarlierAreClosed
<1>2. DOMAIN h \subseteq {n \in DOMAIN bs : IsClosed(bs[n])}
  BY <1>1 DEF HygieneFits
<1>3. Covered(as) => Covered(bs)
  BY <1>1 DEF Covered, SameButRevision
<1>4. \A n \in DOMAIN h : SameButRevision(h[n], bs[n].fixture)
  BY <1>1, <1>2 DEF HygieneFits, SameButRevision
<1>5. ASSUME bs[Len(bs)].fact = "SEAL", Covered(bs)
      PROVE  DOMAIN h = DOMAIN bs
  <2>1. as[Len(as)].fact = "SEAL"
    BY <1>5
  <2>2. \A n \in DOMAIN as : IsClosed(as[n])
    BY <2>1, EarlierAreClosed DEF IsClosed
  <2>3. Covered(as)
    BY <1>1, <1>5, <2>2 DEF Covered, SameButRevision
  <2> QED
    BY <1>1, <2>1, <2>3 DEF HygieneFits
<1> QED
  BY <1>2, <1>3, <1>4, <1>5 DEF HygieneFits

\* What a full snapshot was told stays true while settled fixtures stay as they are.
LEMMA ToldKeeps ==
  ASSUME NEW as, NEW bs, NEW h, Told(as, h), DOMAIN bs = DOMAIN as, Covered(bs),
         \A n \in DOMAIN as : bs[n].fixture.creates = as[n].fixture.creates,
         \A n \in DOMAIN as : as[n].fixture.is \in Ended \cup {"NONE"} =>
                                bs[n].fixture.is = as[n].fixture.is,
         \A n \in DOMAIN as : h[n] \in Fixtures
  PROVE  Told(bs, h)
<1>1. ASSUME NEW n \in DOMAIN as, h[n].is \notin {"UNNEEDED", "PENDING"}
      PROVE  bs[n].fixture.is = h[n].is
  <2>1. as[n].fixture.is = h[n].is
    BY <1>1 DEF Told
  <2>2. h[n].is \in Ended \cup {"NONE"}
    BY <1>1 DEF Fixtures, Ended
  <2> QED
    BY <2>1, <2>2
<1> QED
  BY <1>1 DEF Told

\* What is resolved and has an input of every attempt may be told.
LEMMA FreshIsTold ==
  ASSUME NEW as \in Seq(Attempts), Len(as) \in Numbers, AttemptsFit(as), Covered(as),
         \A n \in DOMAIN as : IsClosed(as[n]), UnitHygiene(Inputs(as)) # "PENDING"
  PROVE  Told(as, Inputs(as))
<1>1. /\ DOMAIN Inputs(as) = {n \in DOMAIN as : IsClosed(as[n])}
      /\ \A n \in DOMAIN as : IsClosed(as[n]) => Inputs(as)[n] = as[n].fixture
  BY InputsAre
<1>2. DOMAIN Inputs(as) = DOMAIN as /\ \A n \in DOMAIN as : Inputs(as)[n] = as[n].fixture
  BY <1>1
<1> HIDE DEF Inputs
<1>3. ASSUME NEW n \in DOMAIN as, as[n].fixture.is = "PENDING"
      PROVE  \E m \in DOMAIN as : as[m].fixture.is = "LEAKED"
  <2> DEFINE states == {DataHygiene(Inputs(as)[k]) : k \in DOMAIN Inputs(as)}
  <2>1. DataHygiene(Inputs(as)[n]) = "PENDING"
    BY <1>2, <1>3 DEF DataHygiene
  <2>2. "PENDING" \in states
    BY <1>2, <2>1
  <2>3. "LEAKED" \in states
    BY <2>2 DEF UnitHygiene
  <2>4. PICK m \in DOMAIN Inputs(as) : DataHygiene(Inputs(as)[m]) = "LEAKED"
    BY <2>3
  <2>5. as[m].fixture.is = "LEAKED"
    BY <1>2, <2>4 DEF DataHygiene
  <2> QED
    BY <1>2, <2>5
<1> QED
  BY <1>2, <1>3 DEF Told, AttemptsFit

\* The hygiene is the same whatever the revisions.
LEMMA SameHygiene ==
  ASSUME NEW g, NEW h, DOMAIN g = DOMAIN h, \A n \in DOMAIN h : SameButRevision(g[n], h[n])
  PROVE  UnitHygiene(g) = UnitHygiene(h)
<1>1. \A n \in DOMAIN h : DataHygiene(g[n]) = DataHygiene(h[n])
  BY DEF DataHygiene, SameButRevision
<1>2. {DataHygiene(g[n]) : n \in DOMAIN g} = {DataHygiene(h[n]) : n \in DOMAIN h}
  BY <1>1
<1> QED
  BY <1>2 DEF UnitHygiene

-----------------------------------------------------------------------------
(* What becomes of the rows *)

\* The types of the rows, as the lemmas below need them.
RowTypes ==
  /\ attempt \in [Units -> Seq(Attempts)] /\ \A u \in Units : Len(attempt[u]) \in Numbers
  /\ hygiene \in [Units -> Histories]

\* They are part of the types.
LEMMA RowsTyped == TypeOK => RowTypes
  BY DEF TypeOK, RowTypes, Latest

\* A write of one attempt changes no number of attempts and keeps what is closed.
LEMMA RewriteFits ==
  ASSUME RowTypes, RowsFit, NEW u \in Units, NEW n, NEW row, Rewrites(u, n, row),
         FixtureFits(row.fixture),
         n # Len(attempt[u]) => row.fact = attempt[u][n].fact
  PROVE  /\ \A v \in Units : /\ attempt'[v] \in Seq(Attempts)
                             /\ Len(attempt'[v]) = Len(attempt[v])
                             /\ DOMAIN attempt'[v] = DOMAIN attempt[v]
                             /\ AttemptsFit(attempt'[v])
<1>1. ASSUME NEW v \in Units
      PROVE  /\ attempt'[v] \in Seq(Attempts) /\ attempt[v] \in Seq(Attempts)
             /\ Len(attempt'[v]) = Len(attempt[v])
  BY DEF Rewrites, RowTypes
<1>2. \A v \in Units : DOMAIN attempt'[v] = DOMAIN attempt[v]
  BY <1>1, LenProperties
<1>3. ASSUME NEW v \in Units \ {u}
      PROVE  AttemptsFit(attempt'[v])
  BY <1>3 DEF Rewrites, RowsFit
<1>4. AttemptsFit(attempt'[u])
  <2> DEFINE k == Len(attempt[u])
  <2>1. k \in Nat \ {0} /\ DOMAIN attempt[u] = 1..k
    BY UpToNumber, LenProperties DEF RowTypes
  <2>2. AttemptsFit(attempt[u])
    BY DEF RowsFit
  <2>3. ASSUME NEW m \in 1..Len(attempt'[u]) - 1
        PROVE  attempt'[u][m].fact = "CLOSURE"
    <3>1. m \in 1..k - 1
      BY <1>1, <2>3
    <3>2. m \in DOMAIN attempt[u] /\ m # k
      <4> HIDE DEF k
      <4> QED
        BY <2>1, <3>1
    <3>3. attempt[u][m].fact = "CLOSURE"
      BY <2>2, <3>1 DEF AttemptsFit
    <3> QED
      BY <3>2, <3>3 DEF Rewrites
  <2>4. ASSUME NEW m \in DOMAIN attempt'[u]
        PROVE  FixtureFits(attempt'[u][m].fixture)
    BY <1>2, <2>2 DEF Rewrites, AttemptsFit
  <2> QED
    BY <2>3, <2>4 DEF AttemptsFit
<1> QED
  BY <1>1, <1>2, <1>3, <1>4

\* Rows whose hygiene is projected fit.
LEMMA ProjectingFits ==
  ASSUME RowTypes, RowsFit, NEW u \in Units,
         attempt' \in [Units -> Seq(Attempts)], Len(attempt'[u]) \in Numbers,
         \A v \in Units \ {u} : attempt'[v] = attempt[v],
         AttemptsFit(attempt'[u]), Covered(attempt[u]) => Covered(attempt'[u]),
         hygiene' = [hygiene EXCEPT ![u] = Projected(attempt'[u], hygiene[u])]
  PROVE  RowsFit' /\ hygiene' \in [Units -> Histories]
<1>1. hygiene[u] \in Histories /\ attempt'[u] \in Seq(Attempts)
  BY DEF RowTypes
<1>2. Projected(attempt'[u], hygiene[u]) \in Histories
  BY <1>1, ProjectedType
<1>3. hygiene' \in [Units -> Histories]
  BY <1>2 DEF RowTypes
<1>4. DOMAIN hygiene[u] # {} => Covered(attempt'[u])
  BY DEF RowsFit, HygieneFits
<1>5. HygieneFits(attempt'[u], Projected(attempt'[u], hygiene[u]))
  BY <1>1, <1>4, ProjectionFits
<1>6. hygiene'[u] = Projected(attempt'[u], hygiene[u])
      /\ \A v \in Units \ {u} : hygiene'[v] = hygiene[v]
  BY DEF RowTypes
<1>7. ASSUME NEW v \in Units
      PROVE  AttemptsFit(attempt'[v]) /\ HygieneFits(attempt'[v], hygiene'[v])
  <2>1. CASE v = u
    BY <1>5, <1>6, <2>1
  <2>2. CASE v # u
    BY <1>6, <2>2 DEF RowsFit
  <2> QED
    BY <2>1, <2>2
<1> QED
  BY <1>3, <1>7 DEF RowsFit

\* Rows that are written and whose hygiene is projected fit.
LEMMA RewriteProjectingFits ==
  ASSUME RowTypes, RowsFit, NEW u \in Units, NEW n, NEW row, Rewrites(u, n, row),
         FixtureFits(row.fixture), IsClosed(attempt[u][n]) => IsClosed(row),
         n # Len(attempt[u]) => row.fact = attempt[u][n].fact,
         attempt[u][n].fixture.is # "NONE" => row.fixture.is # "NONE",
         hygiene' = [hygiene EXCEPT ![u] = Projected(attempt'[u], hygiene[u])]
  PROVE  RowTypes' /\ RowsFit' /\ (Covered(attempt[u]) => Covered(attempt'[u]))
<1>1. \A v \in Units : /\ attempt'[v] \in Seq(Attempts) /\ Len(attempt'[v]) = Len(attempt[v])
                       /\ AttemptsFit(attempt'[v])
  BY RewriteFits
<1>2. 1 \in DOMAIN attempt[u]
  BY EarlierAreClosed DEF RowTypes, RowsFit
<1>3. Covered(attempt[u]) => Covered(attempt'[u])
  BY <1>2 DEF Covered, Rewrites
<1>4. attempt' \in [Units -> Seq(Attempts)] /\ \A v \in Units \ {u} : attempt'[v] = attempt[v]
  BY DEF Rewrites
<1>5. \A v \in Units : Len(attempt'[v]) \in Numbers
  BY <1>1 DEF RowTypes
<1>6. RowsFit' /\ hygiene' \in [Units -> Histories]
  BY <1>1, <1>3, <1>4, <1>5, ProjectingFits
<1> QED
  BY <1>3, <1>4, <1>5, <1>6 DEF RowTypes

\* Rows that are written and whose hygiene is left alone fit, if the fixture stays.
LEMMA RewriteKeepingFits ==
  ASSUME RowTypes, RowsFit, NEW u \in Units, NEW n, NEW row, Rewrites(u, n, row),
         IsClosed(attempt[u][n]) => IsClosed(row),
         n # Len(attempt[u]) => row.fact = attempt[u][n].fact,
         SameButRevision(attempt[u][n].fixture, row.fixture),
         row.fact = "SEAL" => attempt[u][n].fact = "SEAL",
         UNCHANGED hygiene
  PROVE  RowTypes' /\ RowsFit'
<1>0. n \in DOMAIN attempt[u] /\ FixtureFits(row.fixture)
  BY DEF Rewrites, RowsFit, AttemptsFit, FixtureFits, SameButRevision
<1>1. \A v \in Units : /\ attempt'[v] \in Seq(Attempts) /\ Len(attempt'[v]) = Len(attempt[v])
                       /\ AttemptsFit(attempt'[v])
  BY <1>0, RewriteFits
<1>2. attempt' \in [Units -> Seq(Attempts)] /\ \A v \in Units \ {u} : attempt'[v] = attempt[v]
  BY DEF Rewrites
<1>3. RowTypes'
  BY <1>1, <1>2 DEF RowTypes
<1>4. HygieneFits(attempt'[u], hygiene[u])
  <2>1. /\ attempt[u] \in Seq(Attempts) /\ attempt'[u] \in Seq(Attempts)
        /\ Len(attempt[u]) \in Numbers /\ Len(attempt'[u]) = Len(attempt[u])
        /\ AttemptsFit(attempt[u]) /\ HygieneFits(attempt[u], hygiene[u])
    BY <1>1 DEF RowTypes, RowsFit
  <2>2. \A m \in DOMAIN attempt[u] : SameButRevision(attempt[u][m].fixture, attempt'[u][m].fixture)
    BY DEF Rewrites, SameButRevision
  <2>3. \A m \in DOMAIN attempt[u] : IsClosed(attempt[u][m]) => IsClosed(attempt'[u][m])
    BY DEF Rewrites
  <2>4. Len(attempt[u]) \in DOMAIN attempt[u]
    BY <2>1, EarlierAreClosed
  <2>5. attempt'[u][Len(attempt'[u])].fact = "SEAL" => attempt[u][Len(attempt[u])].fact = "SEAL"
    BY <2>1, <2>4 DEF Rewrites
  <2> QED
    BY <2>1, <2>2, <2>3, <2>5, HygieneKeeps
<1>5. ASSUME NEW v \in Units
      PROVE  AttemptsFit(attempt'[v]) /\ HygieneFits(attempt'[v], hygiene'[v])
  <2>1. CASE v = u
    BY <1>1, <1>4, <2>1
  <2>2. CASE v # u
    BY <1>2, <2>2 DEF RowsFit
  <2> QED
    BY <2>1, <2>2
<1> QED
  BY <1>3, <1>5 DEF RowsFit

-----------------------------------------------------------------------------
(* What becomes of the run *)

Finishing == [under : BOOLEAN, late : SUBSET {"QUALITY", "HYGIENE"}]

\* Who overtakes the finish neither begins nor ends it.
LEMMA OvertakingKeeps ==
  ASSUME TypeOK, UNCHANGED finish \/ Overtakes({"QUALITY"}) \/ HygieneOvertakes
  PROVE  finish' \in Finishing /\ finish'.under = finish.under
<1>1. finish \in Finishing
  BY DEF TypeOK, Finishing
<1>2. CASE UNCHANGED finish
  BY <1>1, <1>2
<1>3. ASSUME NEW what \in SUBSET {"QUALITY", "HYGIENE"}, finish' = [finish EXCEPT !.late = @ \cup what]
      PROVE  finish' \in Finishing /\ finish'.under = finish.under
  BY <1>1, <1>3 DEF Finishing
<1> QED
  BY <1>2, <1>3 DEF Overtakes, HygieneOvertakes

\* The state of the run, but for its rows.
RunKeeps ==
  /\ UNCHANGED <<run, root, snapshot>>
  /\ finish' \in Finishing /\ finish'.under = finish.under
  /\ replays' \in 0..MaxReplays

\* Types and order follow for steps that leave the run alone.
LEMMA KeptRunFits ==
  ASSUME ReIInv, RunKeeps, RowTypes', RowsFit', ClosedFits', SnapshotsFit', FullOnceReady'
  PROVE  ReIInv'
<1>1. run' = run /\ root' = root /\ snapshot' = snapshot
  BY DEF RunKeeps
<1>2. TypeOK'
  BY <1>1 DEF ReIInv, TypeOK, RowTypes, RunKeeps, Finishing, Latest
<1>3. RootFits'
  BY <1>1 DEF ReIInv, RootFits, RunKeeps
<1>4. PhasesInOrder'
  BY <1>1 DEF ReIInv, PhasesInOrder, Having
<1> QED
  BY <1>2, <1>3, <1>4 DEF ReIInv

\* Nothing has been taken of a run that is open.
LEMMA OpenRunFits ==
  ASSUME ReIInv, RunKeeps, RowTypes', RowsFit', run = "OPEN"
  PROVE  ReIInv'
<1>1. run' = "OPEN" /\ snapshot' = snapshot
  BY DEF RunKeeps
<1>2. snapshot = <<>>
  BY DEF ReIInv, PhasesInOrder
<1>3. ClosedFits' /\ SnapshotsFit' /\ FullOnceReady'
  BY <1>1, <1>2, EmptyHistory DEF ClosedFits, SnapshotsFit, FullOnceReady
<1> QED
  BY <1>3, KeptRunFits

\* A run some attempt of which is open is open.
LEMMA OpenAttemptOpenRun ==
  ASSUME ReIInv, NEW u \in Units, ~ IsClosed(attempt[u][Latest(u)]) \/ root = "RUNNING"
  PROVE  run = "OPEN"
  BY DEF ReIInv, ClosedFits, RootFits, TypeOK

\* All attempts of a closed run are closed.
LEMMA AllClosed ==
  ASSUME ReIInv, run = "CLOSED", NEW u \in Units
  PROVE  \A n \in DOMAIN attempt[u] : IsClosed(attempt[u][n])
<1>1. IsClosed(attempt[u][Len(attempt[u])])
  BY DEF ReIInv, ClosedFits, Latest
<1>2. attempt[u] \in Seq(Attempts) /\ Len(attempt[u]) \in Numbers /\ AttemptsFit(attempt[u])
  BY DEF ReIInv, TypeOK, RowsFit, Latest
<1> QED
  BY <1>1, <1>2, EarlierAreClosed

\* A run stays closed when a fixture of it is written.
LEMMA RewrittenClosedFits ==
  ASSUME ReIInv, NEW u \in Units, NEW n, NEW row, Rewrites(u, n, row), UNCHANGED run,
         row.fact = attempt[u][n].fact
  PROVE  ClosedFits'
<1>1. \A v \in Units : attempt[v] \in Seq(Attempts) /\ Len(attempt[v]) \in Numbers
                       /\ AttemptsFit(attempt[v])
  BY DEF ReIInv, TypeOK, RowsFit, Latest
<1>2. \A v \in Units : Len(attempt'[v]) = Len(attempt[v]) /\ Len(attempt[v]) \in DOMAIN attempt[v]
  BY <1>1, EarlierAreClosed DEF Rewrites
<1>3. \A v \in Units : \A m \in DOMAIN attempt[v] : attempt'[v][m].fact = attempt[v][m].fact
  BY DEF Rewrites
<1> QED
  BY <1>2, <1>3 DEF ReIInv, ClosedFits, Latest, IsClosed

\* What has been told of a closed run stays true when a fixture goes on.
LEMMA RewrittenSnapshotsFit ==
  ASSUME ReIInv, NEW u \in Units, NEW n, NEW row, Rewrites(u, n, row), UNCHANGED <<run, snapshot>>,
         row.fact = attempt[u][n].fact,
         attempt[u][n].fixture.is # "NONE",
         row.fixture.is # "NONE",
         row.fixture.creates = attempt[u][n].fixture.creates,
         attempt[u][n].fixture.is \in Ended => row.fixture.is = attempt[u][n].fixture.is
  PROVE  SnapshotsFit'
<1>1. \A v \in Units : attempt[v] \in Seq(Attempts) /\ Len(attempt[v]) \in Numbers
                       /\ AttemptsFit(attempt[v])
  BY DEF ReIInv, TypeOK, RowsFit, Latest
<1>2. \A v \in Units : attempt'[v] \in Seq(Attempts) /\ Len(attempt'[v]) = Len(attempt[v])
  BY DEF Rewrites
<1>3. \A v \in Units : /\ DOMAIN attempt'[v] = DOMAIN attempt[v] /\ 1 \in DOMAIN attempt[v]
                       /\ Len(attempt[v]) \in DOMAIN attempt[v]
  BY <1>1, <1>2, LenProperties, EarlierAreClosed
<1>4. \A v \in Units : \A m \in DOMAIN attempt[v] :
        /\ attempt'[v][m].fact = attempt[v][m].fact
        /\ attempt[v][m].fixture.is # "NONE" => attempt'[v][m].fixture.is # "NONE"
        /\ attempt'[v][m].fixture.creates = attempt[v][m].fixture.creates
        /\ attempt[v][m].fixture.is \in Ended \cup {"NONE"} =>
             attempt'[v][m].fixture.is = attempt[v][m].fixture.is
  BY <1>3 DEF Rewrites
<1>6. ASSUME NEW i \in DOMAIN snapshot, snapshot[i].finality # "QUALITY_FINAL", NEW v \in Units
      PROVE  Told(attempt'[v], snapshot[i].hygiene[v])
  <2>1. Told(attempt[v], snapshot[i].hygiene[v])
    BY <1>6 DEF ReIInv, SnapshotsFit
  <2>2. Covered(attempt'[v])
    BY <1>3, <1>4, <2>1 DEF Told, Covered, IsClosed
  <2>3. snapshot[i].hygiene[v] \in Histories
    <3>1. snapshot \in Seq(Snapshots) /\ DOMAIN snapshot = 1..Len(snapshot)
      BY LenProperties DEF ReIInv, TypeOK
    <3>2. snapshot[i] \in Snapshots
      BY <1>6, <3>1, ElementOfSeq
    <3> QED
      BY <3>2 DEF Snapshots
  <2>4. \A m \in DOMAIN attempt[v] : snapshot[i].hygiene[v][m] \in Fixtures
    BY <2>1, <2>3 DEF Told, Histories
  <2> QED
    BY <1>3, <1>4, <2>1, <2>2, <2>4, ToldKeeps
<1> QED
  BY <1>6 DEF SnapshotsFit

-----------------------------------------------------------------------------
(* The steps of the attempts *)

\* The rows of the invariant.
LEMMA RowsOf == ReIInv => TypeOK /\ RowTypes /\ RowsFit
  BY RowsTyped DEF ReIInv

\* An attempt starts only in a run that is open.
LEMMA StartKeeps ==
  ASSUME ReIInv, NEW u \in Units, Start(u)
  PROVE  ReIInv'
<1> DEFINE n == Latest(u)
           row == [attempt[u][n] EXCEPT !.fact = "RUNNING"]
<1>0. TypeOK /\ RowTypes /\ RowsFit /\ run = "OPEN"
  BY RowsOf, OpenAttemptOpenRun DEF Start
<1>1. attempt[u] \in Seq(Attempts) /\ n \in DOMAIN attempt[u] /\ attempt[u][n] \in Attempts
  BY <1>0 DEF TypeOK, Numbers, Latest
<1>2. row \in Attempts /\ attempt[u][n].fact = "QUEUED"
  BY <1>1 DEF Attempts, Facts, Start
<1>3. attempt' = [attempt EXCEPT ![u] = [attempt[u] EXCEPT ![n] = row]]
  BY <1>0, <1>1 DEF Start, TypeOK
<1>4. row.fact = "RUNNING" /\ row.fixture = attempt[u][n].fixture
  BY <1>1 DEF Attempts
<1> HIDE DEF row
<1>5. Rewrites(u, n, row)
  BY <1>0, <1>1, <1>2, <1>3, WriteRewrites
<1>6. RowTypes' /\ RowsFit'
  BY <1>0, <1>2, <1>4, <1>5, RewriteKeepingFits DEF IsClosed, SameButRevision, Latest, Start
<1>7. RunKeeps
  BY <1>0 DEF RunKeeps, Start, TypeOK, Finishing
<1> QED
  BY <1>0, <1>6, <1>7, OpenRunFits

\* A closing, with the hygiene that is projected or left alone.
LEMMA ClosingKeeps ==
  ASSUME ReIInv, NEW u \in Units, NEW fact \in {"SEAL", "CLOSURE"},
         NEW verdict \in Verdicts \cup {"INCONCLUSIVE"},
         ~ IsClosed(attempt[u][Latest(u)]),
         attempt' = [attempt EXCEPT ![u] = Closed(attempt[u], fact, verdict)],
         \/ hygiene' = [hygiene EXCEPT ![u] = Projected(attempt'[u], hygiene[u])]
         \/ fact = "CLOSURE" /\ UNCHANGED hygiene,
         Overtakes({"QUALITY"}), UNCHANGED <<run, root, snapshot, replays>>
  PROVE  ReIInv'
<1> DEFINE n == Latest(u)
           row == [attempt[u][n] EXCEPT !.fact = fact, !.verdict = verdict]
<1>0. TypeOK /\ RowTypes /\ RowsFit /\ run = "OPEN"
  BY RowsOf, OpenAttemptOpenRun
<1>1. attempt[u] \in Seq(Attempts) /\ n \in DOMAIN attempt[u] /\ attempt[u][n] \in Attempts
  BY <1>0 DEF TypeOK, Numbers, Latest
<1>2. row.fact = fact /\ row.fixture = attempt[u][n].fixture
  BY <1>1 DEF Attempts
<1>3. Rewrites(u, n, row)
  BY <1>0, ClosedRewrites DEF Facts
<1>4. FixtureFits(row.fixture)
  BY <1>0, <1>1, <1>2 DEF RowsFit, AttemptsFit
<1> HIDE DEF row
<1>5. ASSUME hygiene' = [hygiene EXCEPT ![u] = Projected(attempt'[u], hygiene[u])]
      PROVE  RowTypes' /\ RowsFit'
  BY <1>0, <1>2, <1>3, <1>4, <1>5, RewriteProjectingFits DEF Latest
<1>6. ASSUME fact = "CLOSURE", UNCHANGED hygiene
      PROVE  RowTypes' /\ RowsFit'
  <2>1. SameButRevision(attempt[u][n].fixture, row.fixture)
    BY <1>2 DEF SameButRevision
  <2> QED
    BY <1>0, <1>2, <1>3, <1>6, <2>1, RewriteKeepingFits DEF Latest
<1>7. RowTypes' /\ RowsFit'
  BY <1>5, <1>6
<1>8. RunKeeps
  BY <1>0, OvertakingKeeps DEF RunKeeps, TypeOK
<1> QED
  BY <1>0, <1>7, <1>8, OpenRunFits

\* A seal, or a closure without one, closes an attempt of an open run.
LEMMA AcceptSealKeeps ==
  ASSUME ReIInv, NEW u \in Units, NEW verdict \in Verdicts, AcceptSeal(u, verdict)
  PROVE  ReIInv'
<1>1. ~ IsClosed(attempt[u][Latest(u)])
  BY DEF AcceptSeal, IsClosed
<1>2. /\ attempt' = [attempt EXCEPT ![u] = Closed(attempt[u], "SEAL", verdict)]
      /\ hygiene' = [hygiene EXCEPT ![u] = Projected(attempt'[u], hygiene[u])]
  BY DEF AcceptSeal
<1> QED
  BY <1>1, <1>2, ClosingKeeps DEF AcceptSeal

LEMMA CloseWithoutSealKeeps ==
  ASSUME ReIInv, NEW u \in Units, CloseWithoutSeal(u)
  PROVE  ReIInv'
<1>1. attempt' = [attempt EXCEPT ![u] = Closed(attempt[u], "CLOSURE", "INCONCLUSIVE")]
  BY DEF CloseWithoutSeal
<1> QED
  BY <1>1, ClosingKeeps DEF CloseWithoutSeal

\* Retries are counted: a unit that has used them all leaves none.
LEMMA RetriesCount ==
  ASSUME TypeOK, NEW u \in Units, Retries < TotalRetries
  PROVE  Latest(u) <= TotalRetries
<1> DEFINE k == Latest(u)
           pairs == {p \in Units \X Numbers : p[2] > 1 /\ p[2] <= Latest(p[1])}
           own == {p \in {u} \X Numbers : p[2] > 1}
<1>1. TotalRetries \in Nat /\ IsFiniteSet(Units) /\ k \in 1..TotalRetries + 1
  BY TaskResultAssumption DEF TypeOK, Numbers
<1>0. SUFFICES ASSUME ~ Latest(u) <= TotalRetries PROVE FALSE
  OBVIOUS
<1>2. k = TotalRetries + 1
  <2>1. ~ k <= TotalRetries
    BY <1>0
  <2> HIDE DEF k
  <2> QED
    BY <1>1, <2>1
<1>3. Numbers = 1..TotalRetries + 1
  BY DEF Numbers
<1>4. IsFiniteSet(Numbers) /\ IsFiniteSet(Units \X Numbers)
  <2>1. 1 \in Int /\ TotalRetries + 1 \in Int
    BY <1>1
  <2>2. IsFiniteSet(1..TotalRetries + 1)
    BY <2>1, FS_Interval
  <2> QED
    BY <1>1, <1>3, <2>2, FS_Product
<1>5. IsFiniteSet(pairs)
  BY <1>4, FS_Subset
<1>6. \A p \in own : p \in pairs
  <2> TAKE p \in own
  <2>1. p \in {u} \X Numbers /\ p[2] \in Numbers /\ p[1] = u /\ p[2] > 1
    OBVIOUS
  <2>2. p[2] <= k
    <3> HIDE DEF k
    <3> QED
      BY <1>1, <1>2, <1>3, <2>1
  <2> QED
    BY <2>1, <2>2
<1>7. Cardinality(own) <= Cardinality(pairs) /\ IsFiniteSet(own)
  <2> HIDE DEF pairs, own
  <2> QED
    BY <1>5, <1>6, FS_Subset
<1>8. Cardinality(own) = TotalRetries
  <2> DEFINE f == [m \in 2..TotalRetries + 1 |-> <<u, m>>]
  <2>1. f \in Bijection(2..TotalRetries + 1, own)
    <3>1. \A m \in 2..TotalRetries + 1 : f[m] \in own
      BY <1>1, <1>3
    <3>2. \A p \in own : p[2] \in 2..TotalRetries + 1 /\ f[p[2]] = p
      BY <1>1, <1>3
    <3>3. \A m, l \in 2..TotalRetries + 1 : f[m] = f[l] => m = l
      OBVIOUS
    <3>4. f \in [2..TotalRetries + 1 -> own]
      BY <3>1
    <3> HIDE DEF own, f
    <3>5. f \in Injection(2..TotalRetries + 1, own)
      BY <3>3, <3>4 DEF Injection, IsInjective
    <3>6. f \in Surjection(2..TotalRetries + 1, own)
      BY <3>2, <3>4 DEF Surjection
    <3> QED
      BY <3>5, <3>6 DEF Bijection
  <2>2. Cardinality(2..TotalRetries + 1) = TotalRetries /\ IsFiniteSet(2..TotalRetries + 1)
    <3> DEFINE b == TotalRetries + 1
    <3>1. b \in Int /\ b >= 1
      BY <1>1
    <3> HIDE DEF b
    <3>2. IsFiniteSet(2..b) /\ Cardinality(2..b) = IF 2 > b THEN 0 ELSE b - 2 + 1
      BY <3>1, FS_Interval
    <3>3. IsFiniteSet(2..b) /\ Cardinality(2..b) = b - 1
      BY <3>1, <3>2
    <3> QED
      BY <1>1, <3>3 DEF b
  <2> HIDE DEF f, own
  <2>3. ExistsBijection(2..TotalRetries + 1, own)
    BY <2>1 DEF ExistsBijection
  <2> QED
    BY <2>2, <2>3, FS_Bijection
<1>9. Cardinality(pairs) \in Nat /\ Cardinality(pairs) < TotalRetries
  BY <1>5, FS_CardinalityType DEF Retries
<1> HIDE DEF pairs, own
<1> QED
  BY <1>1, <1>7, <1>8, <1>9

\* A retry keeps what it follows.
LEMMA RetryKeeps ==
  ASSUME ReIInv, NEW u \in Units, Retry(u)
  PROVE  ReIInv'
<1> DEFINE as == attempt[u]
           k == Len(as)
           bs == Append(as, NewAttempt)
<1>0. TypeOK /\ RowTypes /\ RowsFit /\ run = "OPEN" /\ TotalRetries \in Nat
  BY RowsOf, OpenAttemptOpenRun, TaskResultAssumption DEF Retry
<1>1. /\ as \in Seq(Attempts) /\ k \in Numbers /\ k \in Nat \ {0} /\ DOMAIN as = 1..k
      /\ AttemptsFit(as) /\ HygieneFits(as, hygiene[u])
  BY <1>0, UpToNumber, LenProperties DEF RowTypes, RowsFit
<1>2. NewAttempt \in Attempts /\ FixtureFits(NewAttempt.fixture) /\ NewAttempt.fact = "QUEUED"
  <2>1. MaxRevision \in Nat
    BY TaskResultAssumption
  <2> QED
    BY <2>1 DEF NewAttempt, Attempts, Facts, NoFixture, Fixtures, FixtureFits
<1>3. /\ bs \in Seq(Attempts) /\ Len(bs) = k + 1 /\ bs[k + 1] = NewAttempt
      /\ \A n \in 1..k : bs[n] = as[n]
  BY <1>1, <1>2, AppendProperties
<1>4. DOMAIN bs = 1..k + 1
  BY <1>3, LenProperties
<1>5. attempt' = [attempt EXCEPT ![u] = bs]
  BY DEF Retry
<1>6. k <= TotalRetries /\ as[k].fact = "CLOSURE" /\ hygiene' = hygiene
  BY <1>0, RetriesCount DEF Retry, Latest
<1>7. attempt'[u] = bs /\ \A v \in Units \ {u} : attempt'[v] = attempt[v]
  BY <1>0, <1>5 DEF TypeOK
<1> HIDE DEF bs, k
<1>8. /\ k + 1 \in Numbers /\ 1 \in 1..k /\ 1..k \subseteq 1..k + 1
      /\ \A n \in 1..k + 1 : n \in 1..k \/ n = k + 1
      /\ \A n \in 1..k : n \in 1..k - 1 \/ n = k
      /\ (k + 1) - 1 = k
  BY <1>0, <1>1, <1>6 DEF Numbers
<1>9. RowTypes'
  BY <1>0, <1>3, <1>5, <1>6, <1>7, <1>8 DEF RowTypes
<1>10. AttemptsFit(bs)
  <2>1. \A n \in 1..k : bs[n].fact = "CLOSURE" /\ FixtureFits(bs[n].fixture)
    BY <1>1, <1>3, <1>6, <1>8 DEF AttemptsFit, k
  <2> QED
    BY <1>2, <1>3, <1>4, <1>8, <2>1 DEF AttemptsFit
<1>11. HygieneFits(bs, hygiene[u])
  <2>1. DOMAIN hygiene[u] \subseteq {n \in DOMAIN bs : IsClosed(bs[n])}
    BY <1>1, <1>3, <1>4, <1>8 DEF HygieneFits
  <2>2. Covered(as) <=> Covered(bs)
    BY <1>3, <1>8 DEF Covered
  <2>3. \A n \in DOMAIN hygiene[u] : SameButRevision(hygiene[u][n], bs[n].fixture)
    BY <1>1, <1>3 DEF HygieneFits
  <2>4. bs[Len(bs)].fact # "SEAL"
    BY <1>2, <1>3
  <2> QED
    BY <1>1, <2>1, <2>2, <2>3, <2>4 DEF HygieneFits
<1>12. ASSUME NEW v \in Units
       PROVE  AttemptsFit(attempt'[v]) /\ HygieneFits(attempt'[v], hygiene'[v])
  <2>1. CASE v = u
    BY <1>6, <1>7, <1>10, <1>11, <2>1
  <2>2. CASE v # u
    BY <1>0, <1>6, <1>7, <2>2 DEF RowsFit
  <2> QED
    BY <2>1, <2>2
<1>13. RowsFit'
  BY <1>12 DEF RowsFit
<1>14. RunKeeps
  BY <1>0 DEF RunKeeps, Retry, TypeOK, Finishing
<1> QED
  BY <1>0, <1>9, <1>13, <1>14, OpenRunFits

\* A child that projects again brings the revisions up to date, and no more.
LEMMA FinishSealedKeeps ==
  ASSUME ReIInv, NEW u \in Units, FinishSealed(u)
  PROVE  ReIInv'
<1>0. TypeOK /\ RowTypes /\ RowsFit /\ attempt' = attempt /\ run' = run /\ snapshot' = snapshot
  BY RowsOf DEF FinishSealed
<1>1. /\ attempt[u] \in Seq(Attempts) /\ Len(attempt[u]) \in Numbers
      /\ AttemptsFit(attempt[u]) /\ HygieneFits(attempt[u], hygiene[u])
      /\ attempt[u][Len(attempt[u])].fact = "SEAL"
  BY <1>0 DEF RowTypes, RowsFit, FinishSealed, Latest
<1>2. hygiene' = [hygiene EXCEPT ![u] = Projected(attempt'[u], hygiene[u])]
  BY <1>0 DEF FinishSealed
<1>3. RowsFit' /\ hygiene' \in [Units -> Histories]
  <2>1. attempt' \in [Units -> Seq(Attempts)] /\ \A v \in Units : attempt'[v] = attempt[v]
    BY <1>0 DEF RowTypes
  <2> QED
    BY <1>0, <1>1, <1>2, <2>1, ProjectingFits
<1>4. RowTypes'
  BY <1>0, <1>3 DEF RowTypes
<1>5. RunKeeps
  BY <1>0, OvertakingKeeps DEF RunKeeps, FinishSealed, TypeOK
<1>6. ClosedFits' /\ SnapshotsFit'
  BY <1>0 DEF ReIInv, ClosedFits, SnapshotsFit, Latest
<1>7. /\ DOMAIN hygiene'[u] = DOMAIN hygiene[u]
      /\ \A n \in DOMAIN hygiene[u] : SameButRevision(hygiene'[u][n], hygiene[u][n])
  <2>1. hygiene'[u] = Projected(attempt[u], hygiene[u])
    BY <1>0, <1>2 DEF RowTypes
  <2>2. CASE Covered(attempt[u])
    <3>1. DOMAIN hygiene[u] = DOMAIN attempt[u]
      BY <1>1, <2>2 DEF HygieneFits
    <3>2. \A n \in DOMAIN attempt[u] : IsClosed(attempt[u][n])
      BY <1>1, EarlierAreClosed DEF IsClosed
    <3>3. /\ DOMAIN Inputs(attempt[u]) = DOMAIN attempt[u]
          /\ \A n \in DOMAIN attempt[u] : Inputs(attempt[u])[n] = attempt[u][n].fixture
      BY <1>1, <3>2, InputsAre
    <3> HIDE DEF Inputs
    <3> QED
      BY <1>1, <2>1, <2>2, <3>1, <3>3 DEF Projected, HygieneFits, SameButRevision
  <2>3. CASE ~ Covered(attempt[u])
    BY <2>1, <2>3 DEF Projected, SameButRevision
  <2> QED
    BY <2>2, <2>3
<1>8. ASSUME NEW v \in Units
      PROVE  /\ UnitHygiene(hygiene'[v]) = UnitHygiene(hygiene[v])
             /\ IsResolved(hygiene'[v]) => IsResolved(hygiene[v])
  <2>1. CASE v = u
    <3>1. UnitHygiene(hygiene'[u]) = UnitHygiene(hygiene[u])
      BY <1>7, SameHygiene
    <3>2. CASE hygiene[u] = <<>>
      <4>1. Inputs(attempt[u]) = <<>> \/ hygiene'[u] = hygiene[u]
        <5>1. CASE Covered(attempt[u])
          <6>1. DOMAIN hygiene[u] = DOMAIN attempt[u]
            BY <1>1, <5>1 DEF HygieneFits
          <6> QED
            BY <1>1, <3>2, <6>1, EmptyHistory, EarlierAreClosed
        <5>2. CASE ~ Covered(attempt[u])
          BY <1>0, <1>2, <5>2 DEF Projected, RowTypes
        <5> QED
          BY <5>1, <5>2
      <4>2. hygiene'[u] = hygiene[u]
        BY <1>0, <1>2, <3>2, <4>1 DEF Projected, RowTypes
      <4> QED
        BY <2>1, <4>2
    <3>3. CASE hygiene[u] # <<>>
      BY <2>1, <3>1, <3>3 DEF IsResolved
    <3> QED
      BY <3>2, <3>3
  <2>2. CASE v # u
    BY <1>0, <1>2, <2>2 DEF RowTypes
  <2> QED
    BY <2>1, <2>2
<1>9. FullOnceReady'
  <2>1. Having("FULLY_RESOLVED")' = Having("FULLY_RESOLVED")
    BY <1>0 DEF Having
  <2> QED
    BY <1>0, <1>8, <2>1 DEF ReIInv, FullOnceReady
<1> QED
  BY <1>3, <1>4, <1>5, <1>6, <1>9, KeptRunFits

-----------------------------------------------------------------------------
(* The steps of the fixtures *)

\* An attempt that is fetched has its type.
LEMMA AttemptTyped ==
  ASSUME TypeOK, NEW u \in Units, NEW n \in DOMAIN attempt[u]
  PROVE  /\ attempt[u][n] \in Attempts
         /\ attempt[u][n].fixture \in Fixtures /\ attempt[u][n].fact \in Facts
<1>1. attempt[u] \in Seq(Attempts) /\ DOMAIN attempt[u] = 1..Len(attempt[u])
  BY LenProperties DEF TypeOK
<1>2. attempt[u][n] \in Attempts
  BY <1>1, ElementOfSeq
<1> QED
  BY <1>2 DEF Attempts

\* A fixture is bound late only where nothing has been told of its unit.
LEMMA BindKeeps ==
  ASSUME ReIInv, NEW u \in Units, NEW n \in Numbers, NEW creates \in Creating, Bind(u, n, creates)
  PROVE  ReIInv'
<1> DEFINE row == [attempt[u][n] EXCEPT !.fixture = Requested(creates)]
<1>0. TypeOK /\ RowTypes /\ RowsFit /\ n \in DOMAIN attempt[u]
  BY RowsOf DEF Bind
<1>1. Requested(creates) \in Fixtures /\ FixtureFits(Requested(creates))
      /\ Requested(creates).is # "NONE"
  <2>1. creates \in BOOLEAN /\ MaxRevision \in Nat
    BY TaskResultAssumption
  <2> QED
    BY <2>1 DEF Requested, Fixtures, FixtureFits
<1>2. Rewrites(u, n, row)
  BY <1>0, <1>1, FixtureRewrites DEF Bind
<1>3. row.fact = attempt[u][n].fact /\ row.fixture = Requested(creates)
  BY <1>0, AttemptTyped DEF Attempts
<1> HIDE DEF row
<1>4. hygiene' = [hygiene EXCEPT ![u] = Projected(attempt'[u], hygiene[u])]
  BY DEF Bind
<1>5. RowTypes' /\ RowsFit' /\ (Covered(attempt[u]) => Covered(attempt'[u]))
  BY <1>0, <1>1, <1>2, <1>3, <1>4, RewriteProjectingFits DEF IsClosed
<1>6. RunKeeps
  BY <1>0, OvertakingKeeps DEF RunKeeps, Bind, TypeOK
<1>7. CASE run = "OPEN"
  BY <1>5, <1>6, <1>7, OpenRunFits
<1>8. CASE run = "CLOSED"
  <2>1. IsClosed(attempt[u][n])
    BY <1>0, <1>8, AllClosed
  <2>2. ~ Covered(attempt'[u])
    BY <2>1 DEF Bind
  <2>3. hygiene' = hygiene /\ snapshot' = snapshot /\ run' = run
    BY <1>0, <1>4, <2>2 DEF Projected, RowTypes, Bind
  <2>4. ClosedFits'
    BY <1>2, <1>3, <2>3, RewrittenClosedFits
  <2>5. \A i \in DOMAIN snapshot : snapshot[i].finality = "QUALITY_FINAL"
    BY <1>5, <2>2 DEF ReIInv, SnapshotsFit, Told
  <2>6. SnapshotsFit'
    BY <2>3, <2>5 DEF SnapshotsFit
  <2>7. FullOnceReady'
    <3>1. Having("FULLY_RESOLVED")' = Having("FULLY_RESOLVED")
      BY <2>3 DEF Having
    <3> QED
      BY <2>3, <3>1 DEF ReIInv, FullOnceReady
  <2> QED
    BY <1>5, <1>6, <2>4, <2>6, <2>7, KeptRunFits
<1> QED
  BY <1>0, <1>7, <1>8 DEF TypeOK

\* A fixture that proceeds stays what it is.
LEMMA ProceedKeeps ==
  ASSUME ReIInv, NEW u \in Units, NEW n \in Numbers, Proceed(u, n)
  PROVE  ReIInv'
<1> DEFINE old == attempt[u][n].fixture
           new == [old EXCEPT !.revision = old.revision + 1]
           row == [attempt[u][n] EXCEPT !.fixture = new]
<1>0. TypeOK /\ RowTypes /\ RowsFit /\ n \in DOMAIN attempt[u]
  BY RowsOf DEF Proceed, IsBound
<1>1. /\ attempt[u][n] \in Attempts /\ old \in Fixtures /\ old.is \in {"PENDING", "UNNEEDED"}
      /\ old.revision < MaxRevision /\ attempt[u] \in Seq(Attempts)
  BY <1>0, AttemptTyped DEF Proceed, IsBound, TypeOK
<1>2. new \in Fixtures
  <2>1. MaxRevision \in Nat
    BY TaskResultAssumption
  <2> QED
    BY <1>1, <2>1 DEF Fixtures
<1>3. row \in Attempts
  BY <1>1, <1>2 DEF Attempts
<1>4. attempt' = [attempt EXCEPT ![u] = [attempt[u] EXCEPT ![n] = row]]
  BY DEF Proceed
<1>5. /\ row.fact = attempt[u][n].fact /\ row.fixture = new
      /\ SameButRevision(old, new)
  BY <1>1 DEF Attempts, Fixtures, SameButRevision
<1> HIDE DEF row, new
<1>6. Rewrites(u, n, row)
  BY <1>0, <1>3, <1>4, WriteRewrites
<1>7. hygiene' = hygiene /\ snapshot' = snapshot /\ run' = run
  BY DEF Proceed
<1>8. RowTypes' /\ RowsFit'
  BY <1>0, <1>5, <1>6, <1>7, RewriteKeepingFits DEF IsClosed
<1>9. ClosedFits'
  BY <1>5, <1>6, <1>7, RewrittenClosedFits
<1>10. SnapshotsFit'
  BY <1>1, <1>5, <1>6, <1>7, RewrittenSnapshotsFit DEF SameButRevision, Ended
<1>11. FullOnceReady'
  <2>1. Having("FULLY_RESOLVED")' = Having("FULLY_RESOLVED")
    BY <1>7 DEF Having
  <2> QED
    BY <1>7, <2>1 DEF ReIInv, FullOnceReady
<1>12. RunKeeps
  BY <1>0 DEF RunKeeps, Proceed, TypeOK, Finishing
<1> QED
  BY <1>8, <1>9, <1>10, <1>11, <1>12, KeptRunFits

\* A fixture that is released leaves a snapshot that is due to another.
LEMMA ReleasingKeeps ==
  ASSUME ReIInv, NEW u \in Units, NEW n \in Numbers, IsBound(u, n), NEW fixture \in Fixtures,
         fixture.creates = attempt[u][n].fixture.creates,
         fixture.is \in Outcomes(attempt[u][n].fixture.is) \cup {"PENDING"},
         attempt' = WithFixture(u, n, fixture),
         hygiene' = [hygiene EXCEPT ![u] = Projected(attempt'[u], hygiene[u])],
         Covered(attempt'[u]) => SnapshotOfRelease(hygiene'),
         HygieneOvertakes, UNCHANGED <<run, root, snapshot, replays>>
  PROVE  ReIInv'
<1> DEFINE row == [attempt[u][n] EXCEPT !.fixture = fixture]
<1>0. TypeOK /\ RowTypes /\ RowsFit /\ n \in DOMAIN attempt[u]
  BY RowsOf DEF IsBound
<1>1. Rewrites(u, n, row)
  BY <1>0, FixtureRewrites
<1>2. row.fact = attempt[u][n].fact /\ row.fixture = fixture
  BY <1>0, AttemptTyped DEF Attempts
<1>3. /\ attempt[u][n].fixture.is \in {"PENDING", "UNNEEDED"}
      /\ FixtureFits(attempt[u][n].fixture)
  BY <1>0 DEF IsBound, RowsFit, AttemptsFit
<1>4. fixture.is # "NONE" /\ FixtureFits(fixture)
  BY <1>3 DEF Outcomes, FixtureFits
<1> HIDE DEF row
<1>5. RowTypes' /\ RowsFit'
  BY <1>0, <1>1, <1>2, <1>4, RewriteProjectingFits DEF IsClosed
<1>6. RunKeeps
  BY <1>0, OvertakingKeeps DEF RunKeeps, TypeOK
<1>7. ClosedFits'
  BY <1>1, <1>2, RewrittenClosedFits
<1>8. SnapshotsFit'
  BY <1>1, <1>2, <1>3, <1>4, RewrittenSnapshotsFit DEF Ended
<1>9. FullOnceReady'
  <2>1. Having("FULLY_RESOLVED")' = Having("FULLY_RESOLVED") /\ snapshot' = snapshot /\ run' = run
    BY DEF Having
  <2>2. CASE ~ Covered(attempt'[u])
    <3>1. hygiene' = hygiene
      BY <1>0, <2>2 DEF Projected, RowTypes
    <3> QED
      BY <2>1, <3>1 DEF ReIInv, FullOnceReady
  <2>3. CASE Covered(attempt'[u])
    <3>1. SUFFICES ASSUME run = "CLOSED", \A v \in Units : IsResolved(hygiene'[v])
                   PROVE  \E i \in Having("FULLY_RESOLVED") :
                            \A v \in Units : UnitHygiene(snapshot[i].hygiene[v]) = UnitHygiene(hygiene'[v])
      BY <2>1 DEF FullOnceReady
    <3>2. ~ FullDue(hygiene')
      BY <2>3, <3>1 DEF SnapshotOfRelease
    <3>3. PICK i \in Newest(Having("FULLY_RESOLVED")) : snapshot[i].hygiene = hygiene'
      BY <3>1, <3>2 DEF FullDue
    <3> QED
      BY <3>3 DEF Newest
  <2> QED
    BY <2>2, <2>3
<1> QED
  BY <1>5, <1>6, <1>7, <1>8, <1>9, KeptRunFits

\* So does one all of which is settled, and one that still has something to settle.
LEMMA ReleaseKeeps ==
  ASSUME ReIInv, NEW u \in Units, NEW n \in Numbers, NEW outcome \in Ended, Release(u, n, outcome)
  PROVE  ReIInv'
<1> DEFINE fixture == [attempt[u][n].fixture EXCEPT !.is = outcome]
<1>1. attempt[u][n].fixture \in Fixtures
  BY RowsOf, AttemptTyped DEF Release, IsBound
<1>2. /\ fixture \in Fixtures /\ fixture.creates = attempt[u][n].fixture.creates
      /\ fixture.is = outcome
  BY <1>1 DEF Fixtures, Ended
<1>3. outcome \in Outcomes(attempt[u][n].fixture.is) /\ attempt' = WithFixture(u, n, fixture)
  BY DEF Release
<1>4. hygiene' = [hygiene EXCEPT ![u] = Projected(attempt'[u], hygiene[u])]
  BY DEF Release
<1> HIDE DEF fixture
<1> QED
  BY <1>2, <1>3, <1>4, ReleasingKeeps DEF Release

LEMMA ReleaseUnsettledKeeps ==
  ASSUME ReIInv, NEW u \in Units, NEW n \in Numbers, ReleaseUnsettled(u, n)
  PROVE  ReIInv'
<1> DEFINE old == attempt[u][n].fixture
           fixture == [old EXCEPT !.is = "PENDING", !.revision = old.revision + 1]
<1>1. old \in Fixtures /\ old.revision < MaxRevision /\ MaxRevision \in Nat
  BY RowsOf, AttemptTyped, TaskResultAssumption DEF ReleaseUnsettled, IsBound
<1>2. fixture \in Fixtures /\ fixture.creates = old.creates /\ fixture.is = "PENDING"
  <2> HIDE DEF old
  <2>1. old.revision \in 0..MaxRevision
    BY <1>1 DEF Fixtures
  <2>2. old.revision + 1 \in 0..MaxRevision
    BY <1>1, <2>1
  <2> QED
    BY <1>1, <2>2 DEF Fixtures
<1>3. attempt' = WithFixture(u, n, fixture)
  BY DEF ReleaseUnsettled
<1>4. hygiene' = [hygiene EXCEPT ![u] = Projected(attempt'[u], hygiene[u])]
  BY DEF ReleaseUnsettled
<1> HIDE DEF fixture
<1> QED
  BY <1>2, <1>3, <1>4, ReleasingKeeps DEF ReleaseUnsettled

-----------------------------------------------------------------------------
(* The steps that take a snapshot *)

\* The snapshots have the first revisions.
LEMMA SnapshotsTyped ==
  ASSUME ReIInv
  PROVE  /\ snapshot \in Seq(Snapshots) /\ Len(snapshot) \in Nat
         /\ DOMAIN snapshot = 1..Len(snapshot)
         /\ \A i \in DOMAIN snapshot : snapshot[i] \in Snapshots
<1>1. snapshot \in Seq(Snapshots) /\ Len(snapshot) \in Nat /\ DOMAIN snapshot = 1..Len(snapshot)
  BY LenProperties DEF ReIInv, TypeOK
<1> QED
  BY <1>1, ElementOfSeq

\* A closed run may have one more, of what its rows say.
LEMMA AppendedFits ==
  ASSUME ReIInv, NEW s \in Snapshots, snapshot' = Append(snapshot, s),
         run = "CLOSED", run' = run, attempt' = attempt,
         s.finality # "QUALITY_FINAL",
         s.finality = "FULLY_RESOLVED" => Having("REEVALUATED") = {},
         s.finality = "REEVALUATED" => s.source \in Having("FULLY_RESOLVED"),
         \A u \in Units : Told(attempt[u], s.hygiene[u])
  PROVE  /\ snapshot' \in Seq(Snapshots) /\ PhasesInOrder' /\ SnapshotsFit'
         /\ Len(snapshot) + 1 \in DOMAIN snapshot' /\ snapshot'[Len(snapshot) + 1] = s
         /\ \A i \in DOMAIN snapshot : i \in DOMAIN snapshot' /\ snapshot'[i] = snapshot[i]
<1> DEFINE k == Len(snapshot)
<1>1. /\ snapshot \in Seq(Snapshots) /\ k \in Nat /\ DOMAIN snapshot = 1..k
  BY SnapshotsTyped
<1>2. /\ snapshot' \in Seq(Snapshots) /\ Len(snapshot') = k + 1 /\ snapshot'[k + 1] = s
      /\ \A i \in 1..k : snapshot'[i] = snapshot[i]
  BY <1>1, AppendProperties
<1>3. DOMAIN snapshot' = 1..k + 1
  BY <1>2, LenProperties
<1> HIDE DEF k
<1>4. /\ k + 1 \in 1..k + 1 /\ 1..k \subseteq 1..k + 1
      /\ \A i \in 1..k + 1 : i \in 1..k \/ i = k + 1
      /\ \A i \in 1..k : i < k + 1
  BY <1>1
<1>5. \A i \in DOMAIN snapshot' : (i \in DOMAIN snapshot /\ snapshot'[i] = snapshot[i])
                                  \/ (i = k + 1 /\ snapshot'[i] = s)
  BY <1>1, <1>2, <1>3, <1>4
<1>6. \A i \in DOMAIN snapshot : i \in DOMAIN snapshot' /\ snapshot'[i] = snapshot[i] /\ i < k + 1
  BY <1>1, <1>2, <1>3, <1>4
<1>7. SnapshotsFit'
  BY <1>5 DEF ReIInv, SnapshotsFit
<1>8. PhasesInOrder'
  <2>1. \A finality : \A i \in Having(finality)' :
          i \in Having(finality) \/ (i = k + 1 /\ s.finality = finality)
    BY <1>5 DEF Having
  <2>2. \A finality : Having(finality) \subseteq Having(finality)'
    BY <1>6 DEF Having
  <2>3. snapshot' # <<>>
    BY <1>3, <1>4, EmptyHistory
  <2>4. Having("QUALITY_FINAL")' \subseteq {1}
    BY <2>1 DEF ReIInv, PhasesInOrder
  <2>5. ASSUME NEW i \in Having("FULLY_RESOLVED")', NEW j \in Having("REEVALUATED")'
        PROVE  i < j
    <3>1. CASE j \in Having("REEVALUATED")
      BY <2>1, <3>1 DEF ReIInv, PhasesInOrder
    <3>2. CASE j = k + 1 /\ s.finality = "REEVALUATED"
      BY <1>6, <2>1, <3>2 DEF Having
    <3> QED
      BY <2>1, <3>1, <3>2
  <2>6. ASSUME NEW j \in Having("REEVALUATED")'
        PROVE  snapshot'[j].source \in Having("FULLY_RESOLVED")'
    <3>1. CASE j \in Having("REEVALUATED")
      BY <1>6, <2>2, <3>1 DEF ReIInv, PhasesInOrder, Having
    <3>2. CASE j = k + 1 /\ s.finality = "REEVALUATED"
      BY <1>2, <2>2, <3>2
    <3> QED
      BY <2>1, <3>1, <3>2
  <2> QED
    BY <2>3, <2>4, <2>5, <2>6 DEF PhasesInOrder
<1> QED
  BY <1>2, <1>3, <1>4, <1>6, <1>7, <1>8 DEF k

\* What is due is taken, and what is taken is true.
LEMMA DueIsTaken ==
  ASSUME ReIInv, run = "CLOSED", UNCHANGED <<attempt, run>>, RowTypes', RowsFit',
         TakesWhatIsDue(hygiene')
  PROVE  snapshot' \in Seq(Snapshots) /\ PhasesInOrder' /\ SnapshotsFit' /\ FullOnceReady'
<1>1. CASE FullDue(hygiene')
  <2> DEFINE s == FullSnapshot(hygiene')
  <2>1. /\ ~ IsReevaluated /\ Fresh(attempt, hygiene') /\ snapshot' = Append(snapshot, s)
        /\ \A u \in Units : IsResolved(hygiene'[u])
    BY <1>1 DEF TakesWhatIsDue, FullDue
  <2>2. s \in Snapshots /\ s.finality = "FULLY_RESOLVED" /\ s.hygiene = hygiene'
    <3>1. MaxSnapshots \in Nat
      BY TaskResultAssumption
    <3> QED
      BY <3>1 DEF FullSnapshot, Snapshots, Finalities, RowTypes
  <2>3. Having("REEVALUATED") = {}
    <3>1. SUFFICES ASSUME NEW j \in Having("REEVALUATED") PROVE FALSE
      OBVIOUS
    <3> DEFINE k == Len(snapshot)
    <3>2. /\ k \in Nat /\ DOMAIN snapshot = 1..k /\ \A i \in DOMAIN snapshot : snapshot[i] \in Snapshots
          /\ PhasesInOrder /\ j \in DOMAIN snapshot /\ snapshot[j].finality = "REEVALUATED"
      BY SnapshotsTyped DEF ReIInv, Having
    <3>3. snapshot # <<>> /\ snapshot[k].finality # "REEVALUATED"
      BY <2>1, <3>2, EmptyHistory DEF IsReevaluated
    <3> HIDE DEF k
    <3>4. k \in DOMAIN snapshot /\ j <= k /\ 1 <= j
      BY <3>2
    <3>5. snapshot[k].finality \in {"QUALITY_FINAL", "FULLY_RESOLVED"}
      BY <3>2, <3>3, <3>4 DEF Snapshots, Finalities
    <3>6. CASE snapshot[k].finality = "QUALITY_FINAL"
      <4>1. k = 1
        BY <3>2, <3>4, <3>6 DEF PhasesInOrder, Having
      <4> QED
        BY <3>2, <3>3, <3>4, <4>1
    <3>7. CASE snapshot[k].finality = "FULLY_RESOLVED"
      <4>1. k < j
        BY <3>2, <3>4, <3>7 DEF PhasesInOrder, Having
      <4> QED
        BY <3>2, <3>4, <4>1
    <3> QED
      BY <3>5, <3>6, <3>7
  <2>4. ASSUME NEW u \in Units
        PROVE  Told(attempt[u], s.hygiene[u])
    <3>1. /\ attempt[u] \in Seq(Attempts) /\ Len(attempt[u]) \in Numbers /\ AttemptsFit(attempt[u])
          /\ HygieneFits(attempt[u], hygiene'[u])
      BY DEF ReIInv, RowsFit, RowTypes
    <3>2. hygiene'[u] = Inputs(attempt[u]) /\ UnitHygiene(Inputs(attempt[u])) # "PENDING"
      BY <2>1 DEF Fresh, IsResolved
    <3>3. \A n \in DOMAIN attempt[u] : IsClosed(attempt[u][n])
      BY AllClosed
    <3>4. 1 \in DOMAIN Inputs(attempt[u])
      BY <3>1, <3>3, InputsAre, EarlierAreClosed
    <3>5. Covered(attempt[u])
      BY <3>1, <3>2, <3>4 DEF HygieneFits
    <3> QED
      BY <2>2, <3>1, <3>2, <3>3, <3>5, FreshIsTold
  <2> HIDE DEF s
  <2>5. /\ snapshot' \in Seq(Snapshots) /\ PhasesInOrder' /\ SnapshotsFit'
        /\ Len(snapshot) + 1 \in DOMAIN snapshot' /\ snapshot'[Len(snapshot) + 1] = s
    BY <2>1, <2>2, <2>3, <2>4, AppendedFits
  <2>6. FullOnceReady'
    BY <2>2, <2>5 DEF FullOnceReady, Having
  <2> QED
    BY <2>5, <2>6
<1>2. CASE ~ FullDue(hygiene')
  <2>1. snapshot' = snapshot /\ attempt' = attempt /\ run' = run
    BY <1>2 DEF TakesWhatIsDue
  <2>2. snapshot' \in Seq(Snapshots) /\ PhasesInOrder' /\ SnapshotsFit'
    BY <2>1, SnapshotsTyped DEF ReIInv, PhasesInOrder, SnapshotsFit, Having
  <2>3. FullOnceReady'
    <3>1. SUFFICES ASSUME \A v \in Units : IsResolved(hygiene'[v])
                   PROVE  \E i \in Having("FULLY_RESOLVED") :
                            \A v \in Units : UnitHygiene(snapshot[i].hygiene[v]) = UnitHygiene(hygiene'[v])
      BY <2>1 DEF FullOnceReady, Having
    <3>2. PICK i \in Newest(Having("FULLY_RESOLVED")) : snapshot[i].hygiene = hygiene'
      BY <1>2, <3>1 DEF FullDue
    <3> QED
      BY <3>2 DEF Newest
  <2> QED
    BY <2>2, <2>3
<1> QED
  BY <1>1, <1>2

\* A step of a closed run that takes a snapshot, but changes no attempt.
LEMMA TakingFits ==
  ASSUME ReIInv, UNCHANGED <<attempt, run, root>>, RowTypes', RowsFit',
         finish' \in Finishing, finish'.under = finish.under, replays' \in 0..MaxReplays,
         snapshot' \in Seq(Snapshots), PhasesInOrder', SnapshotsFit', FullOnceReady'
  PROVE  ReIInv'
<1>1. attempt' = attempt /\ run' = run /\ root' = root
  OBVIOUS
<1>2. TypeOK'
  BY <1>1 DEF ReIInv, TypeOK, RowTypes, Finishing, Latest
<1>3. RootFits'
  BY <1>1 DEF ReIInv, RootFits
<1>4. ClosedFits'
  BY <1>1 DEF ReIInv, ClosedFits, Latest
<1> QED
  BY <1>2, <1>3, <1>4 DEF ReIInv

\* The answer of a release, or of the finish, was lost.
LEMMA ReplayReleaseKeeps ==
  ASSUME ReIInv, NEW u \in Units, NEW n \in Numbers, ReplayRelease(u, n)
  PROVE  ReIInv'
<1>0. /\ TypeOK /\ RowTypes /\ RowsFit
      /\ attempt' = attempt /\ run' = run /\ root' = root
  BY RowsOf DEF ReplayRelease
<1>1. hygiene' = [hygiene EXCEPT ![u] = Projected(attempt'[u], hygiene[u])]
  BY <1>0 DEF ReplayRelease
<1>2. RowsFit' /\ hygiene' \in [Units -> Histories]
  <2>1. /\ attempt' \in [Units -> Seq(Attempts)] /\ \A v \in Units : attempt'[v] = attempt[v]
        /\ Len(attempt[u]) \in Numbers /\ AttemptsFit(attempt[u])
    BY <1>0 DEF RowTypes, RowsFit
  <2> QED
    BY <1>0, <1>1, <2>1, ProjectingFits
<1>3. RowTypes'
  BY <1>0, <1>2 DEF RowTypes
<1>4. finish' \in Finishing /\ finish'.under = finish.under
  BY <1>0, OvertakingKeeps DEF ReplayRelease
<1>5. replays' \in 0..MaxReplays
  <2>1. replays \in 0..MaxReplays /\ MaxReplays \in Nat
    BY <1>0, TaskResultAssumption DEF TypeOK
  <2> QED
    BY <2>1 DEF ReplayRelease
<1>6. CASE run = "OPEN"
  <2>1. RunKeeps
    BY <1>0, <1>4, <1>5, <1>6 DEF RunKeeps, ReplayRelease
  <2> QED
    BY <1>2, <1>3, <1>6, <2>1, OpenRunFits
<1>7. CASE run = "CLOSED"
  <2>1. TakesWhatIsDue(hygiene')
    BY <1>7 DEF ReplayRelease
  <2>2. snapshot' \in Seq(Snapshots) /\ PhasesInOrder' /\ SnapshotsFit' /\ FullOnceReady'
    BY <1>0, <1>2, <1>3, <1>7, <2>1, DueIsTaken
  <2> QED
    BY <1>0, <1>2, <1>3, <1>4, <1>5, <2>2, TakingFits
<1> QED
  BY <1>0, <1>6, <1>7 DEF TypeOK

LEMMA ReplayFinishKeeps ==
  ASSUME ReIInv, ReplayFinish
  PROVE  ReIInv'
<1>0. /\ TypeOK /\ RowTypes /\ RowsFit /\ attempt' = attempt /\ hygiene' = hygiene
      /\ run' = run /\ root' = root /\ finish' = finish
  BY RowsOf DEF ReplayFinish
<1>1. RowTypes' /\ RowsFit'
  BY <1>0 DEF RowTypes, RowsFit
<1>2. run = "CLOSED" /\ TakesWhatIsDue(hygiene')
  BY <1>0 DEF ReplayFinish, ReIInv, RootFits
<1>3. snapshot' \in Seq(Snapshots) /\ PhasesInOrder' /\ SnapshotsFit' /\ FullOnceReady'
  BY <1>0, <1>1, <1>2, DueIsTaken
<1>4. replays' \in 0..MaxReplays
  <2>1. replays \in 0..MaxReplays /\ MaxReplays \in Nat
    BY <1>0, TaskResultAssumption DEF TypeOK
  <2> QED
    BY <2>1 DEF ReplayFinish
<1>5. finish' \in Finishing
  BY <1>0 DEF TypeOK, Finishing
<1> QED
  BY <1>0, <1>1, <1>3, <1>4, <1>5, TakingFits

\* A reinterpretation says of the rows what its source says.
LEMMA ReevaluateKeeps ==
  ASSUME ReIInv, NEW i \in 1..MaxSnapshots, Reevaluate(i)
  PROVE  ReIInv'
<1> DEFINE s == [snapshot[i] EXCEPT !.finality = "REEVALUATED", !.source = i]
<1>0. /\ TypeOK /\ RowTypes /\ RowsFit /\ attempt' = attempt /\ hygiene' = hygiene
      /\ run' = run /\ root' = root /\ finish' = finish /\ replays' = replays
      /\ run = "CLOSED"
  BY RowsOf DEF Reevaluate
<1>1. /\ i \in Having("FULLY_RESOLVED") /\ i \in DOMAIN snapshot
      /\ snapshot[i] \in Snapshots /\ snapshot[i].finality = "FULLY_RESOLVED"
  BY SnapshotsTyped DEF Reevaluate, Having
<1>2. s \in Snapshots /\ s.finality = "REEVALUATED" /\ s.source = i /\ s.hygiene = snapshot[i].hygiene
  <2>1. i \in 0..MaxSnapshots
    BY TaskResultAssumption
  <2> QED
    BY <1>1, <2>1 DEF Snapshots, Finalities
<1>3. snapshot' = Append(snapshot, s)
  BY DEF Reevaluate
<1> HIDE DEF s
<1>4. \A u \in Units : Told(attempt[u], s.hygiene[u])
  BY <1>1, <1>2 DEF ReIInv, SnapshotsFit
<1>5. /\ snapshot' \in Seq(Snapshots) /\ PhasesInOrder' /\ SnapshotsFit'
      /\ \A j \in DOMAIN snapshot : j \in DOMAIN snapshot' /\ snapshot'[j] = snapshot[j]
  BY <1>0, <1>1, <1>2, <1>3, <1>4, AppendedFits
<1>6. FullOnceReady'
  <2>1. \A j \in Having("FULLY_RESOLVED") : j \in Having("FULLY_RESOLVED")' /\ snapshot'[j] = snapshot[j]
    BY <1>5 DEF Having
  <2> QED
    BY <1>0, <2>1 DEF ReIInv, FullOnceReady
<1>7. RowTypes' /\ RowsFit'
  BY <1>0 DEF RowTypes, RowsFit
<1>8. finish' \in Finishing /\ replays' \in 0..MaxReplays
  BY <1>0 DEF TypeOK, Finishing
<1> QED
  BY <1>0, <1>5, <1>6, <1>7, <1>8, TakingFits

-----------------------------------------------------------------------------
(* The steps of the finish *)

\* A finish that begins, fails or is refused leaves rows and snapshots alone.
LEMMA FinishKeeps ==
  ASSUME ReIInv, UNCHANGED <<attempt, hygiene, run, snapshot, replays>>,
         finish' \in Finishing, root' \in {"RUNNING", "FAILED"}, root = "RUNNING",
         finish'.under => root' = "RUNNING"
  PROVE  ReIInv'
<1>1. /\ attempt' = attempt /\ hygiene' = hygiene /\ run' = run
      /\ snapshot' = snapshot /\ replays' = replays
  OBVIOUS
<1>2. TypeOK'
  BY <1>1 DEF ReIInv, TypeOK, Finishing, Latest
<1>3. RootFits'
  BY <1>1 DEF ReIInv, RootFits
<1>4. RowsFit' /\ ClosedFits' /\ SnapshotsFit'
  BY <1>1 DEF ReIInv, RowsFit, ClosedFits, SnapshotsFit, Latest
<1>5. PhasesInOrder' /\ FullOnceReady'
  BY <1>1 DEF ReIInv, PhasesInOrder, FullOnceReady, Having
<1> QED
  BY <1>2, <1>3, <1>4, <1>5 DEF ReIInv

LEMMA BeginFinishKeeps ==
  ASSUME ReIInv, BeginFinish
  PROVE  ReIInv'
  BY FinishKeeps DEF BeginFinish, Finishing

LEMMA FinishFailsKeeps ==
  ASSUME ReIInv, FinishFails
  PROVE  ReIInv'
  BY FinishKeeps DEF FinishFails, Finishing, ReIInv, RootFits

LEMMA FinishRefusedKeeps ==
  ASSUME ReIInv, FinishRefused
  PROVE  ReIInv'
  BY FinishKeeps DEF FinishRefused, Finishing, ReIInv, RootFits

\* What is reconciled keeps its rows, and is closed.
LEMMA ReconciledFits ==
  ASSUME RowTypes, RowsFit, attempt' = Reconciled, hygiene' = hygiene
  PROVE  RowTypes' /\ RowsFit' /\ \A u \in Units : IsClosed(attempt'[u][Len(attempt'[u])])
<1>1. ASSUME NEW u \in Units
      PROVE  /\ attempt'[u] \in Seq(Attempts) /\ Len(attempt'[u]) = Len(attempt[u])
             /\ AttemptsFit(attempt'[u]) /\ HygieneFits(attempt'[u], hygiene[u])
             /\ IsClosed(attempt'[u][Len(attempt'[u])])
  <2> DEFINE as == attempt[u]
             n == Len(as)
             row == [as[n] EXCEPT !.fact = "CLOSURE", !.verdict = "INCONCLUSIVE"]
             bs == [as EXCEPT ![n] = row]
  <2>1. /\ as \in Seq(Attempts) /\ n \in Numbers /\ AttemptsFit(as) /\ HygieneFits(as, hygiene[u])
        /\ n \in Nat \ {0} /\ DOMAIN as = 1..n
    BY UpToNumber, LenProperties DEF RowTypes, RowsFit
  <2>2. CASE IsClosed(as[n])
    <3>1. attempt'[u] = as
      BY <2>2 DEF Reconciled, Latest
    <3> QED
      BY <2>1, <2>2, <3>1
  <2>3. CASE ~ IsClosed(as[n])
    <3>1. attempt'[u] = bs
      BY <2>1, <2>3 DEF Reconciled, Closed, Latest
    <3>2. n \in DOMAIN as
      BY <2>1, EarlierAreClosed
    <3>3. as[n] \in Attempts
      BY <2>1, <3>2, ElementOfSeq
    <3>4. row \in Attempts /\ row.fact = "CLOSURE" /\ row.fixture = as[n].fixture
      BY <3>3 DEF Attempts, Facts
    <3> HIDE DEF row
    <3>5. /\ bs \in Seq(Attempts) /\ Len(bs) = n /\ DOMAIN bs = DOMAIN as /\ bs[n] = row
          /\ \A m \in DOMAIN as : m # n => bs[m] = as[m]
      BY <2>1, <3>2, <3>4
    <3> HIDE DEF bs
    <3>6. AttemptsFit(bs)
      <4>1. \A m \in DOMAIN bs : bs[m].fact = as[m].fact \/ bs[m].fact = "CLOSURE"
        BY <3>4, <3>5
      <4>2. \A m \in DOMAIN bs : bs[m].fixture = as[m].fixture
        BY <3>4, <3>5
      <4>3. \A m \in 1..Len(bs) - 1 : m \in 1..n - 1 /\ m \in DOMAIN bs
        <5>1. Len(bs) = n /\ n \in Nat \ {0} /\ DOMAIN bs = 1..n
          BY <2>1, <3>5
        <5> HIDE DEF n
        <5> QED
          BY <5>1
      <4> QED
        BY <2>1, <3>5, <4>1, <4>2, <4>3 DEF AttemptsFit
    <3>7. HygieneFits(bs, hygiene[u])
      <4>1. \A m \in DOMAIN as : SameButRevision(as[m].fixture, bs[m].fixture)
        BY <3>4, <3>5 DEF SameButRevision
      <4>2. \A m \in DOMAIN as : IsClosed(as[m]) => IsClosed(bs[m])
        BY <2>3, <3>5
      <4>3. bs[Len(bs)].fact # "SEAL"
        BY <3>4, <3>5
      <4> QED
        BY <2>1, <3>5, <4>1, <4>2, <4>3, HygieneKeeps
    <3>8. IsClosed(bs[Len(bs)])
      BY <3>4, <3>5 DEF IsClosed
    <3> QED
      BY <3>1, <3>5, <3>6, <3>7, <3>8
  <2> QED
    BY <2>2, <2>3
<1>2. attempt' \in [Units -> Seq(Attempts)]
  BY <1>1 DEF Reconciled
<1>3. RowTypes'
  BY <1>1, <1>2 DEF RowTypes
<1>4. RowsFit'
  BY <1>1 DEF RowsFit
<1> QED
  BY <1>1, <1>3, <1>4

\* The run closes with its first snapshot, and with a second where it is due.
LEMMA FinishRunKeeps ==
  ASSUME ReIInv, FinishRun
  PROVE  ReIInv'
<1>0. /\ TypeOK /\ RowTypes /\ RowsFit /\ attempt' = Reconciled /\ hygiene' = hygiene
      /\ run = "OPEN" /\ run' = "CLOSED" /\ root' = "DONE" /\ replays' = replays
      /\ finish' = [under |-> FALSE, late |-> {}]
  BY RowsOf DEF FinishRun
<1>1. RowTypes' /\ RowsFit' /\ \A u \in Units : IsClosed(attempt'[u][Len(attempt'[u])])
  BY <1>0, ReconciledFits
<1>2. ClosedFits' /\ RootFits' /\ finish' \in Finishing
  BY <1>0, <1>1 DEF ClosedFits, RootFits, Latest, Finishing
<1>3. snapshot = <<>>
  BY <1>0 DEF ReIInv, PhasesInOrder
<1>4. QualitySnapshot \in Snapshots /\ QualitySnapshot.finality = "QUALITY_FINAL"
  <2>1. MaxSnapshots \in Nat
    BY TaskResultAssumption
  <2> QED
    BY <2>1, EmptyHistory DEF QualitySnapshot, Snapshots, Finalities
<1>5. CASE FullDue(hygiene)
  <2> DEFINE s == FullSnapshot(hygiene)
  <2>1. snapshot' = <<QualitySnapshot>> \o <<s>>
    BY <1>5 DEF FinishRun
  <2>2. s \in Snapshots /\ s.finality = "FULLY_RESOLVED" /\ s.hygiene = hygiene
    <3>1. MaxSnapshots \in Nat
      BY TaskResultAssumption
    <3> QED
      BY <1>0, <3>1 DEF FullSnapshot, Snapshots, Finalities, RowTypes
  <2>3. ASSUME NEW u \in Units
        PROVE  Told(attempt'[u], s.hygiene[u])
    <3>1. /\ attempt'[u] \in Seq(Attempts) /\ Len(attempt'[u]) \in Numbers
          /\ AttemptsFit(attempt'[u]) /\ HygieneFits(attempt'[u], hygiene[u])
      BY <1>0, <1>1 DEF RowTypes, RowsFit
    <3>2. hygiene[u] = Inputs(attempt'[u]) /\ UnitHygiene(Inputs(attempt'[u])) # "PENDING"
      <4>1. Fresh(attempt', hygiene) /\ IsResolved(hygiene[u])
        BY <1>0, <1>5 DEF FinishRun, FullDue
      <4> QED
        BY <4>1 DEF Fresh, IsResolved
    <3>3. \A n \in DOMAIN attempt'[u] : IsClosed(attempt'[u][n])
      BY <1>1, <3>1, EarlierAreClosed
    <3>4. 1 \in DOMAIN Inputs(attempt'[u])
      BY <3>1, <3>3, InputsAre, EarlierAreClosed
    <3>5. Covered(attempt'[u])
      BY <3>1, <3>2, <3>4 DEF HygieneFits
    <3> QED
      BY <2>2, <3>1, <3>2, <3>3, <3>5, FreshIsTold
  <2> HIDE DEF s
  <2>4. /\ snapshot' \in Seq(Snapshots) /\ DOMAIN snapshot' = {1, 2} /\ snapshot' # <<>>
        /\ snapshot'[1] = QualitySnapshot /\ snapshot'[2] = s
    <3>1. /\ <<QualitySnapshot>> \in Seq(Snapshots) /\ <<s>> \in Seq(Snapshots)
          /\ Len(<<QualitySnapshot>>) = 1 /\ Len(<<s>>) = 1
          /\ <<QualitySnapshot>>[1] = QualitySnapshot /\ <<s>>[1] = s
      BY <1>4, <2>2
    <3>2. /\ snapshot' \in Seq(Snapshots) /\ Len(snapshot') = 2
          /\ snapshot'[1] = QualitySnapshot /\ snapshot'[2] = s
      BY <2>1, <3>1, ConcatProperties
    <3>3. DOMAIN snapshot' = 1..2
      BY <3>2, LenProperties
    <3>4. 1..2 = {1, 2}
      OBVIOUS
    <3> QED
      BY <3>2, <3>3, <3>4, EmptyHistory
  <2>5. PhasesInOrder'
    BY <1>0, <1>4, <2>2, <2>4 DEF PhasesInOrder, Having
  <2>6. SnapshotsFit'
    BY <1>4, <2>3, <2>4 DEF SnapshotsFit
  <2>7. FullOnceReady'
    BY <1>0, <2>2, <2>4 DEF FullOnceReady, Having
  <2>8. TypeOK'
    BY <1>0, <1>1, <1>2, <2>4 DEF TypeOK, RowTypes, Finishing, Latest
  <2> QED
    BY <1>1, <1>2, <2>5, <2>6, <2>7, <2>8 DEF ReIInv
<1>6. CASE ~ FullDue(hygiene)
  <2>1. snapshot' = <<QualitySnapshot>>
    BY <1>6 DEF FinishRun
  <2>2. /\ snapshot' \in Seq(Snapshots) /\ DOMAIN snapshot' = {1} /\ snapshot' # <<>>
        /\ snapshot'[1] = QualitySnapshot
    BY <1>4, <2>1
  <2>3. PhasesInOrder' /\ SnapshotsFit'
    BY <1>0, <1>4, <2>2 DEF PhasesInOrder, SnapshotsFit, Having
  <2>4. FullOnceReady'
    <3>1. Newest(Having("FULLY_RESOLVED")) = {}
      BY <1>3, EmptyHistory DEF Newest, Having
    <3>2. ~ \A u \in Units : IsResolved(hygiene[u])
      BY <1>6, <3>1 DEF FullDue
    <3> QED
      BY <1>0, <3>2 DEF FullOnceReady
  <2>5. TypeOK'
    BY <1>0, <1>1, <1>2, <2>2 DEF TypeOK, RowTypes, Finishing, Latest
  <2> QED
    BY <1>1, <1>2, <2>3, <2>4, <2>5 DEF ReIInv
<1> QED
  BY <1>5, <1>6

-----------------------------------------------------------------------------
(* The theorems *)

\* Nothing has been taken of a run that has only begun.
LEMMA InitFits == Init => ReIInv
<1> SUFFICES ASSUME Init PROVE ReIInv
  OBVIOUS
<1>1. MaxRevision \in Nat /\ TotalRetries \in Nat /\ MaxReplays \in Nat
  BY TaskResultAssumption
<1>2. NewAttempt \in Attempts /\ FixtureFits(NewAttempt.fixture) /\ NewAttempt.fact = "QUEUED"
  BY <1>1 DEF NewAttempt, Attempts, Facts, NoFixture, Fixtures, FixtureFits
<1>3. \A u \in Units : /\ attempt[u] = <<NewAttempt>> /\ attempt[u] \in Seq(Attempts)
                       /\ Len(attempt[u]) = 1 /\ DOMAIN attempt[u] = {1}
                       /\ attempt[u][1] = NewAttempt /\ hygiene[u] = <<>>
  BY <1>2 DEF Init
<1>4. TypeOK
  <2>1. hygiene \in [Units -> Histories]
    BY EmptyHistory DEF Init
  <2>2. attempt \in [Units -> Seq(Attempts)] /\ \A u \in Units : Latest(u) \in Numbers
    BY <1>1, <1>2, <1>3 DEF Init, Latest, Numbers
  <2> QED
    BY <1>1, <2>1, <2>2 DEF Init, TypeOK
<1>5. RowsFit
  <2>1. ASSUME NEW u \in Units
        PROVE  AttemptsFit(attempt[u]) /\ HygieneFits(attempt[u], hygiene[u])
    BY <1>2, <1>3, EmptyHistory DEF AttemptsFit, HygieneFits
  <2> QED
    BY <2>1 DEF RowsFit
<1>6. RootFits /\ ClosedFits /\ SnapshotsFit /\ PhasesInOrder /\ FullOnceReady
  BY EmptyHistory DEF Init, RootFits, ClosedFits, SnapshotsFit, PhasesInOrder, FullOnceReady, Having
<1> QED
  BY <1>4, <1>5, <1>6 DEF ReIInv

\* Every step keeps the inductive invariant.
LEMMA NextKeeps == ReIInv /\ [Next]_vars => ReIInv'
<1> SUFFICES ASSUME ReIInv, [Next]_vars PROVE ReIInv'
  OBVIOUS
<1>1. ASSUME NEW u \in Units, Start(u) \/ CloseWithoutSeal(u) \/ FinishSealed(u) \/ Retry(u)
      PROVE  ReIInv'
  BY <1>1, StartKeeps, CloseWithoutSealKeeps, FinishSealedKeeps, RetryKeeps
<1>2. ASSUME NEW u \in Units, NEW verdict \in Verdicts, AcceptSeal(u, verdict)
      PROVE  ReIInv'
  BY <1>2, AcceptSealKeeps
<1>3. ASSUME NEW u \in Units, NEW n \in Numbers, NEW creates \in Creating, Bind(u, n, creates)
      PROVE  ReIInv'
  BY <1>3, BindKeeps
<1>4. ASSUME NEW u \in Units, NEW n \in Numbers,
             Proceed(u, n) \/ ReleaseUnsettled(u, n) \/ ReplayRelease(u, n)
      PROVE  ReIInv'
  BY <1>4, ProceedKeeps, ReleaseUnsettledKeeps, ReplayReleaseKeeps
<1>5. ASSUME NEW u \in Units, NEW n \in Numbers, NEW outcome \in Ended, Release(u, n, outcome)
      PROVE  ReIInv'
  BY <1>5, ReleaseKeeps
<1>6. ASSUME BeginFinish \/ FinishRun \/ FinishFails \/ FinishRefused \/ ReplayFinish
      PROVE  ReIInv'
  BY <1>6, BeginFinishKeeps, FinishRunKeeps, FinishFailsKeeps, FinishRefusedKeeps, ReplayFinishKeeps
<1>7. ASSUME NEW i \in 1..MaxSnapshots, Reevaluate(i)
      PROVE  ReIInv'
  BY <1>7, ReevaluateKeeps
<1>8. CASE UNCHANGED vars
  <2>1. /\ attempt' = attempt /\ hygiene' = hygiene /\ run' = run /\ root' = root
        /\ snapshot' = snapshot /\ finish' = finish /\ replays' = replays
    BY <1>8 DEF vars
  <2>2. TypeOK' /\ RootFits'
    BY <2>1 DEF ReIInv, TypeOK, RootFits, Latest
  <2>3. RowsFit' /\ ClosedFits' /\ SnapshotsFit'
    BY <2>1 DEF ReIInv, RowsFit, ClosedFits, SnapshotsFit, Latest
  <2>4. PhasesInOrder' /\ FullOnceReady'
    BY <2>1 DEF ReIInv, PhasesInOrder, FullOnceReady, Having
  <2> QED
    BY <2>2, <2>3, <2>4 DEF ReIInv
<1> QED
  BY <1>1, <1>2, <1>3, <1>4, <1>5, <1>6, <1>7, <1>8 DEF Next

\* The inductive invariant holds in every state of a run.
THEOREM InductiveInvariant == Spec => []ReIInv
<1> QED
  BY InitFits, NextKeeps, PTL DEF Spec

\* The chain of snapshots has its form, and a closed run whose last hygiene is
\* terminal has a full snapshot that says so: whoever settles the last unit takes it.
THEOREM SnapshotsAreComplete == Spec => []ReInv
<1>1. ReIInv => ReInv
  BY DEF ReIInv, ReInv
<1> QED
  BY <1>1, InductiveInvariant, PTL

\* What is not leaked or still to be cleaned in what was told is settled, or
\* created nothing.
LEMMA ToldHygiene ==
  ASSUME NEW as, NEW h, Told(as, h), \A n \in DOMAIN as : h[n] \in Fixtures
  PROVE  /\ UnitHygiene(h) = "LEAKED" <=> \E n \in DOMAIN as : h[n].is = "LEAKED"
         /\ UnitHygiene(h) # "LEAKED" =>
              \A n \in DOMAIN as : h[n].is \in {"CLEANED", "NONE", "UNNEEDED", "UNUSED"}
<1> DEFINE states == {DataHygiene(h[n]) : n \in DOMAIN h}
<1>1. DOMAIN h = DOMAIN as
  BY DEF Told
<1>2. \A n \in DOMAIN as :
        /\ h[n].is \in {"NONE", "PENDING", "UNNEEDED", "CLEANED", "LEAKED", "UNUSED"}
        /\ h[n].is \in {"NONE", "UNNEEDED", "UNUSED"} => DataHygiene(h[n]) = "NOT_APPLICABLE"
        /\ h[n].is \in {"PENDING", "CLEANED", "LEAKED"} => DataHygiene(h[n]) = h[n].is
  BY DEF DataHygiene, Fixtures
<1>3. "LEAKED" \in states <=> \E n \in DOMAIN as : h[n].is = "LEAKED"
  BY <1>1, <1>2
<1>4. UnitHygiene(h) = "LEAKED" <=> "LEAKED" \in states
  BY DEF UnitHygiene
<1>5. ASSUME UnitHygiene(h) # "LEAKED", NEW n \in DOMAIN as
      PROVE  h[n].is \in {"CLEANED", "NONE", "UNNEEDED", "UNUSED"}
  <2>1. h[n].is # "LEAKED" /\ h[n].is # "PENDING"
    BY <1>3, <1>4, <1>5 DEF Told
  <2> QED
    BY <1>2, <2>1
<1> QED
  BY <1>3, <1>4, <1>5

\* What is told of a unit has a fixture for each of its attempts.
LEMMA ToldTyped ==
  ASSUME ReIInv, NEW i \in DOMAIN snapshot, snapshot[i].finality # "QUALITY_FINAL", NEW u \in Units
  PROVE  /\ Told(attempt[u], snapshot[i].hygiene[u])
         /\ \A n \in DOMAIN attempt[u] : snapshot[i].hygiene[u][n] \in Fixtures
<1>1. Told(attempt[u], snapshot[i].hygiene[u])
  BY DEF ReIInv, SnapshotsFit
<1>2. snapshot[i].hygiene[u] \in Histories
  <2>1. snapshot[i] \in Snapshots
    BY SnapshotsTyped
  <2> QED
    BY <2>1 DEF Snapshots
<1> QED
  BY <1>1, <1>2 DEF Told, Histories

\* A full snapshot tells of every leak and of no other, however the fixtures of
\* the run go on after it, but for those that create nothing.
THEOREM FullSnapshotStaysTrue == Spec => []FullSnapshotIsTrue
<1>1. ASSUME ReIInv PROVE FullSnapshotIsTrue
  <2> SUFFICES ASSUME NEW i \in Having("FULLY_RESOLVED"), NEW u \in Units
               PROVE  LET told == UnitHygiene(snapshot[i].hygiene[u])
                          Of(is) == {n \in DOMAIN attempt[u] : attempt[u][n].fixture.is = is}
                          created == {n \in DOMAIN attempt[u] : attempt[u][n].fixture.creates}
                      IN  /\ Of("LEAKED") \cap created # {} => told = "LEAKED"
                          /\ told = "LEAKED" => Of("LEAKED") # {}
                          /\ told # "LEAKED" => Of("PENDING") \cap created = {}
    BY DEF FullSnapshotIsTrue
  <2> DEFINE h == snapshot[i].hygiene[u]
  <2>1. Told(attempt[u], h) /\ \A n \in DOMAIN attempt[u] : h[n] \in Fixtures
    BY <1>1, ToldTyped DEF Having
  <2>2. /\ UnitHygiene(h) = "LEAKED" <=> \E n \in DOMAIN attempt[u] : h[n].is = "LEAKED"
        /\ UnitHygiene(h) # "LEAKED" =>
             \A n \in DOMAIN attempt[u] : h[n].is \in {"CLEANED", "NONE", "UNNEEDED", "UNUSED"}
    BY <2>1, ToldHygiene
  <2> HIDE DEF h
  <2>3. ASSUME NEW n \in DOMAIN attempt[u], h[n].is = "LEAKED"
        PROVE  attempt[u][n].fixture.is = "LEAKED"
    BY <2>1, <2>3 DEF Told
  <2>4. ASSUME UnitHygiene(h) # "LEAKED", NEW n \in DOMAIN attempt[u], attempt[u][n].fixture.creates
        PROVE  attempt[u][n].fixture.is = "CLEANED"
    <3>1. h[n].creates /\ FixtureFits(h[n])
      BY <2>1, <2>4 DEF Told
    <3>2. h[n].is = "CLEANED"
      BY <2>2, <2>4, <3>1 DEF FixtureFits
    <3> QED
      BY <2>1, <3>2 DEF Told
  <2> QED
    BY <2>2, <2>3, <2>4 DEF h
<1> QED
  BY <1>1, InductiveInvariant, PTL

\* Where a gate accepts a snapshot of a run, every fixture of the run is cleaned
\* or unused, or its plan creates nothing.
THEOREM AcceptedIsClean == Spec => []AcceptedMeansClean
<1>1. ASSUME ReIInv PROVE AcceptedMeansClean
  <2> SUFFICES ASSUME NEW i \in DOMAIN snapshot, Accepts(snapshot[i]), NEW u \in Units,
                      NEW n \in DOMAIN attempt[u]
               PROVE  LET fixture == attempt[u][n].fixture
                      IN  \/ fixture.is \in {"CLEANED", "UNUSED"}
                          \/ ~ fixture.creates /\ fixture.is # "NONE"
    BY DEF AcceptedMeansClean
  <2> DEFINE h == snapshot[i].hygiene[u]
             fixture == attempt[u][n].fixture
  <2>1. snapshot[i].finality # "QUALITY_FINAL" /\ StableAndPassed(u) /\ UnitHygiene(h) # "LEAKED"
    BY DEF Accepts
  <2>2. Told(attempt[u], h) /\ \A m \in DOMAIN attempt[u] : h[m] \in Fixtures
    BY <1>1, <2>1, ToldTyped
  <2>3. h[n].is \in {"CLEANED", "NONE", "UNNEEDED", "UNUSED"}
    BY <2>1, <2>2, ToldHygiene
  <2>4. n = 1
    <3>1. attempt[u] \in Seq(Attempts) /\ Len(attempt[u]) = 1
      BY <1>1, <2>1 DEF ReIInv, TypeOK, StableAndPassed
    <3> QED
      BY <3>1, LenProperties
  <2>5. fixture.is # "NONE"
    BY <2>2, <2>4 DEF Told, Covered
  <2> HIDE DEF h
  <2>6. /\ h[n].is = "CLEANED" => fixture.is = "CLEANED"
        /\ h[n].is = "UNUSED" => fixture.is = "UNUSED"
        /\ h[n].is = "NONE" => fixture.is = "NONE"
        /\ h[n].is = "UNNEEDED" => ~ fixture.creates
    BY <2>2 DEF Told, FixtureFits
  <2> QED
    BY <2>3, <2>5, <2>6
<1> QED
  BY <1>1, InductiveInvariant, PTL

-----------------------------------------------------------------------------
(* Fixture runs: the inductive invariant *)

\* No worker outlives its claim to reconcile.
CleanupOverrunsOnly == "RECONCILE" \notin Overruns

Prepared(n) == node[n].status \in {"VERIFYING", "SUCCEEDED"}
Unmade(n) == node[n].status \in {"PENDING", "READY", "RUNNING", "OUTCOME_UNCERTAIN"}

\* The row of a node, the worker executing it and what exists at the provider.
AttemptFits(n) ==
  /\ exec[n] \in {"CALL", "OK", "LOST", "REFUSED"} => node[n].status = "RUNNING"
  /\ exec[n] = "VERIFY" => node[n].status = "VERIFYING"
  /\ exec[n] # "IDLE" \/ node[n].status \in {"PENDING", "READY", "RUNNING"}
       => node[n].reconcile \in {"NOT_REQUIRED", "ABSENT"}
  /\ node[n].status = "PENDING" => node[n].attempts = 0
  /\ node[n].status = "READY" => node[n].attempts < MaxAttempts
  /\ CleanupOverrunsOnly =>
       (node[n].status \in {"PENDING", "READY"} \/ exec[n] \in {"CALL", "REFUSED"} => real[n] = "ABSENT")
  /\ exec[n] = "OK" => real[n] = "EXISTS"

\* The row of the resource against the node's and against the provider.
ResourceFits(n) ==
  /\ Unmade(n) => ~Recorded(n)
  /\ Unmade(n) => real[n] # "DELETED"
  /\ Prepared(n) => Recorded(n)
  /\ Recorded(n) => real[n] # "ABSENT"
  /\ CleanupOverrunsOnly => (node[n].status = "FAILED" /\ ~Recorded(n) => real[n] # "EXISTS")
  /\ resource[n].status = "ACTIVE" => real[n] = "EXISTS"
  /\ resource[n].status = "CLEANED" => real[n] # "EXISTS"

\* A retry of the cleanup grants every resource one more claim.
ClaimsFit(n) ==
  /\ resource[n].gen <= MaxCleanups + retries
  /\ Due(n) => resource[n].gen < MaxCleanups + retries
  /\ resource[n].status \in {"NONE", "ACTIVE"} => resource[n].gen = 0

LedgerRowsFit == \A n \in Nodes : AttemptFits(n) /\ ResourceFits(n) /\ ClaimsFit(n)

\* What a worker has found does not vanish before it is recorded, and a worker that
\* verifies holds its node; one that outlives its claim may hold nothing else.
ReconcilersFit ==
  /\ \A w \in recon :
       /\ w.answer = "VERIFY" => node[w.node].status = "VERIFYING" /\ node[w.node].reconcile = "FOUND"
       /\ w.answer = "FOUND" => real[w.node] # "ABSENT"
       /\ CleanupOverrunsOnly => /\ w.answer # "VERIFY" => Claimed(w.node)
                                 /\ w.answer = "ABSENT" => real[w.node] = "ABSENT"
  /\ \A v, w \in recon :
       v.node = w.node /\ (CleanupOverrunsOnly \/ (v.answer = "VERIFY" /\ w.answer = "VERIFY")) => v = w

CleanersFit ==
  \A w \in cleaning :
    /\ resource[w.node].status \notin {"NONE", "ACTIVE"}
    /\ w.answer = "DONE" => real[w.node] = "DELETED"

Released == fixtureRun.status = "READY" \/ fixtureRun.intent = "RELEASED"

RunFits ==
  /\ fixtureRun.status \in Cancelable => fixtureRun.intent = "NONE"
  /\ fixtureRun.status = "CLEANING" => fixtureRun.intent # "NONE"
  /\ fixtureRun.evidence => fixtureRun.status = "RELEASED" /\ fixtureRun.intent = "RELEASED"
  /\ flow.cancel => fixtureRun.cancel
  /\ Released => \A n \in Nodes : node[n].status = "SUCCEEDED"
  /\ CleanupEvidenceIsTrue

\* Unless it is cancelled, nothing is removed before the run is prepared, and
\* after that nothing before what hangs on it.
InOrder ==
  ~fixtureRun.cancel =>
    /\ Preparing => /\ cleaning = {}
                    /\ \A n \in Nodes : resource[n].status \in {"NONE", "ACTIVE"}
    /\ Released => /\ \A c \in Nodes : \A p \in Parents[c] : real[c] = "EXISTS" => real[p] = "EXISTS"
                   /\ \A w \in cleaning : \A c \in Children(w.node) : real[c] # "EXISTS"

LedgerFits == FTypeOK /\ LedgerRowsFit /\ ReconcilersFit /\ CleanersFit /\ RunFits

(* What a step may disturb *)

Same(m) == /\ node'[m] = node[m]
           /\ resource'[m] = resource[m]
           /\ real'[m] = real[m]
           /\ exec'[m] = exec[m]

\* A step on the rows of one node leaves those of the others fitting.
LEMMA FxRows ==
  ASSUME LedgerRowsFit, NEW n \in Nodes, \A m \in Nodes : m # n => Same(m), retries' = retries,
         AttemptFits(n)', ResourceFits(n)', ClaimsFit(n)'
  PROVE  LedgerRowsFit'
<1> SUFFICES ASSUME NEW m \in Nodes, m # n
             PROVE  AttemptFits(m)' /\ ResourceFits(m)' /\ ClaimsFit(m)'
  BY DEF LedgerRowsFit
<1>1. Same(m) /\ AttemptFits(m) /\ ResourceFits(m) /\ ClaimsFit(m)
  BY DEF LedgerRowsFit
<1>2. AttemptFits(m)'
  BY <1>1 DEF Same, AttemptFits
<1>3. ResourceFits(m)'
  BY <1>1 DEF Same, ResourceFits, Unmade, Prepared, Recorded
<1>4. ClaimsFit(m)'
  BY <1>1 DEF Same, ClaimsFit, Due
<1> QED
  BY <1>2, <1>3, <1>4

\* A worker that has outlived its claim, and verifies nothing.
Outlived(w) == ~CleanupOverrunsOnly /\ w.answer # "VERIFY"

\* Reconcilers keep what they hold when the nodes of those that hold any are left alone.
LEMMA FxReconcilers ==
  ASSUME ReconcilersFit, recon' \subseteq recon,
         \A w \in recon' : \/ node'[w.node] = node[w.node] /\ real'[w.node] = real[w.node]
                           \/ Outlived(w) /\ (real[w.node] # "ABSENT" => real'[w.node] # "ABSENT")
  PROVE  ReconcilersFit'
BY DEF ReconcilersFit, Claimed, Outlived

\* Nobody holds a node, to reconcile it, that is being executed or is to be.
LEMMA FxNotReconciled ==
  ASSUME LedgerFits, NEW n \in Nodes, exec[n] # "IDLE" \/ node[n].status \in {"PENDING", "READY"}
  PROVE  \A w \in recon : w.node = n => Outlived(w)
BY DEF LedgerFits, FTypeOK, LedgerRowsFit, AttemptFits, ReconcilersFit, Claimed, Outlived

\* Nobody cleans a node whose resource is not in the ledger.
LEMMA FxNotCleaned ==
  ASSUME LedgerFits, NEW n \in Nodes, Unmade(n)
  PROVE  \A w \in cleaning : w.node # n
BY DEF LedgerFits, LedgerRowsFit, ResourceFits, CleanersFit, Recorded

\* The bounds are numbers, and a retry or a fault stays within its own.
LEMMA FxBounds ==
  /\ MaxAttempts \in Nat /\ MaxAttempts > 0
  /\ MaxReconciles \in Nat /\ MaxReconciles > 0
  /\ MaxCleanups \in Nat /\ MaxCleanups > 0
  /\ MaxRetries \in Nat /\ MaxFaults \in Nat
BY FixtureAssumption

LEMMA FxFault ==
  ASSUME FTypeOK, UNCHANGED budget \/ Fault
  PROVE  faults' \in 0..MaxFaults /\ retries' = retries
BY FxBounds DEF FTypeOK, Fault, budget

LEMMA FxClaimNode ==
  ASSUME LedgerFits, NEW n \in Nodes, ClaimNode(n)
  PROVE  LedgerFits'
<1> USE FixtureAssumption DEF LedgerFits
<1>1. /\ AttemptFits(n) /\ ResourceFits(n) /\ ClaimsFit(n)
      /\ node[n] \in NodeRow /\ fixtureRun \in RunRow
      /\ node[n].status \in {"PENDING", "READY"} /\ exec[n] = "IDLE"
  BY DEF LedgerRowsFit, FTypeOK, ClaimNode
<1>2. /\ \A m \in Nodes : m # n => node'[m] = node[m] /\ exec'[m] = exec[m]
      /\ UNCHANGED <<resource, real, recon, cleaning, flow, lease, faults, retries>>
      /\ \/ /\ node'[n] = [node[n] EXCEPT !.status = "RUNNING", !.attempts = node[n].attempts + 1]
            /\ exec'[n] = "CALL"
         \/ node'[n] = [node[n] EXCEPT !.status = "FAILED"] /\ exec'[n] = "IDLE"
  BY <1>1 DEF FTypeOK, ClaimNode, budget
<1>3. node'[n] \in NodeRow
  <2>1. node[n].attempts < MaxAttempts /\ node[n].attempts \in 0..MaxAttempts
    BY <1>1, FxBounds DEF NodeRow, AttemptFits
  <2>2. node[n].attempts + 1 \in 0..MaxAttempts
    BY <2>1, FxBounds
  <2> QED
    BY <1>1, <1>2, <2>2 DEF NodeRow, NodeStates
<1>4. FTypeOK'
  <2>1. node' \in [Nodes -> NodeRow]
    BY <1>1, <1>2, <1>3 DEF FTypeOK, ClaimNode
  <2>2. exec' \in [Nodes -> Attempt]
    BY <1>1, <1>2 DEF FTypeOK, ClaimNode, Attempt
  <2>3. fixtureRun' \in RunRow
    BY <1>1 DEF ClaimNode, RunRow, RunStates
  <2> QED
    BY <1>2, <2>1, <2>2, <2>3 DEF FTypeOK
<1>5. LedgerRowsFit'
  <2>1. AttemptFits(n)'
    BY <1>1, <1>2 DEF AttemptFits, NodeRow
  <2>2. ResourceFits(n)' /\ ClaimsFit(n)'
    BY <1>1, <1>2 DEF AttemptFits, ResourceFits, ClaimsFit, Unmade, Prepared, Recorded, Due, NodeRow
  <2> QED
    BY <1>2, <2>1, <2>2, FxRows DEF Same
<1>6. ReconcilersFit'
  BY <1>1, <1>2, FxNotReconciled, FxReconcilers DEF FTypeOK, ReconcileAttempt
<1>7. CleanersFit'
  BY <1>2 DEF CleanersFit
<1>8. RunFits'
  BY <1>1, <1>2 DEF RunFits, Released, Cancelable, CleanupEvidenceIsTrue, ClaimNode, RunRow
<1> QED
  BY <1>4, <1>5, <1>6, <1>7, <1>8

LEMMA FxCreate ==
  ASSUME LedgerFits, NEW n \in Nodes, Create(n)
  PROVE  LedgerFits'
<1> USE FixtureAssumption DEF LedgerFits
<1>1. /\ AttemptFits(n) /\ ResourceFits(n) /\ ClaimsFit(n)
      /\ node[n] \in NodeRow /\ exec[n] = "CALL" /\ node[n].status = "RUNNING"
  BY DEF LedgerRowsFit, FTypeOK, Create, AttemptFits
<1>2. /\ \A m \in Nodes : m # n => real'[m] = real[m] /\ exec'[m] = exec[m]
      /\ UNCHANGED <<fixtureRun, node, resource, recon, cleaning, flow, lease>>
      /\ exec'[n] \in {"LOST", "OK", "REFUSED"}
      /\ real'[n] \in {real[n], "EXISTS"}
      /\ exec'[n] = "REFUSED" => real'[n] = real[n]
      /\ exec'[n] = "OK" => real'[n] = "EXISTS"
      /\ real' \in [Nodes -> {"ABSENT", "EXISTS", "DELETED"}]
      /\ exec' \in [Nodes -> Attempt]
  BY <1>1 DEF FTypeOK, Create, ledger, Attempt
<1>3. faults' \in 0..MaxFaults /\ retries' = retries
  BY FxFault DEF Create, Loss
<1>4. FTypeOK'
  BY <1>2, <1>3 DEF FTypeOK
<1>5. LedgerRowsFit'
  <2>1. AttemptFits(n)'
    BY <1>1, <1>2 DEF AttemptFits
  <2>2. ResourceFits(n)' /\ ClaimsFit(n)'
    BY <1>1, <1>2, <1>3 DEF AttemptFits, ResourceFits, ClaimsFit, Unmade, Prepared, Recorded, Due
  <2> QED
    BY <1>2, <1>3, <2>1, <2>2, FxRows DEF Same
<1>6. ReconcilersFit'
  BY <1>1, <1>2, FxNotReconciled, FxReconcilers DEF FTypeOK, ReconcileAttempt
<1>7. CleanersFit'
  BY <1>1, <1>2, FxNotCleaned DEF CleanersFit, FTypeOK, CleanupAttempt, Unmade
<1>8. RunFits'
  BY <1>1, <1>2 DEF RunFits, Released, Cancelable, CleanupEvidenceIsTrue
<1> QED
  BY <1>4, <1>5, <1>6, <1>7, <1>8

LEMMA FxRecordProviderOutcome ==
  ASSUME LedgerFits, NEW n \in Nodes, RecordProviderOutcome(n)
  PROVE  LedgerFits'
<1> USE FixtureAssumption DEF LedgerFits
<1>1. /\ AttemptFits(n) /\ ResourceFits(n) /\ ClaimsFit(n)
      /\ node[n] \in NodeRow /\ resource[n] \in ResourceRow
      /\ exec[n] = "OK" /\ node[n].status = "RUNNING"
  BY DEF LedgerRowsFit, FTypeOK, RecordProviderOutcome
<1>2. /\ \A m \in Nodes : m # n => node'[m] = node[m] /\ exec'[m] = exec[m] /\ resource'[m] = resource[m]
      /\ UNCHANGED <<fixtureRun, real, recon, cleaning, flow, lease, faults, retries>>
      /\ node'[n] = [node[n] EXCEPT !.status = "VERIFYING"]
      /\ resource'[n] = [resource[n] EXCEPT !.status = "ACTIVE"]
      /\ exec'[n] = "VERIFY"
  BY <1>1 DEF FTypeOK, RecordProviderOutcome, budget
<1>3. node'[n] \in NodeRow /\ resource'[n] \in ResourceRow
  BY <1>1, <1>2 DEF NodeRow, NodeStates, ResourceRow, ResourceStates
<1>4. FTypeOK'
  <2>1. node' \in [Nodes -> NodeRow] /\ resource' \in [Nodes -> ResourceRow]
    BY <1>1, <1>2, <1>3 DEF FTypeOK, RecordProviderOutcome
  <2>2. exec' \in [Nodes -> Attempt]
    BY <1>1, <1>2 DEF FTypeOK, RecordProviderOutcome, Attempt
  <2> QED
    BY <1>2, <2>1, <2>2 DEF FTypeOK
<1>5. LedgerRowsFit'
  <2>1. AttemptFits(n)'
    BY <1>1, <1>2 DEF AttemptFits, NodeRow
  <2>2. ResourceFits(n)' /\ ClaimsFit(n)'
    BY <1>1, <1>2, FxBounds DEF AttemptFits, ResourceFits, ClaimsFit, Unmade, Prepared, Recorded, Due,
                        NodeRow, ResourceRow
  <2> QED
    BY <1>2, <2>1, <2>2, FxRows DEF Same
<1>6. ReconcilersFit'
  BY <1>1, <1>2, FxNotReconciled, FxReconcilers DEF FTypeOK, ReconcileAttempt
<1>7. CleanersFit'
  BY <1>1, <1>2, FxNotCleaned DEF CleanersFit, FTypeOK, CleanupAttempt, Unmade
<1>8. RunFits'
  BY <1>1, <1>2 DEF RunFits, Released, Cancelable, CleanupEvidenceIsTrue
<1> QED
  BY <1>4, <1>5, <1>6, <1>7, <1>8

\* The end of an execution: the worker is done with the row.
LEMMA FxExecutionEnds ==
  ASSUME LedgerFits, NEW n \in Nodes, OutcomeIsUncertain(n) \/ NodeFails(n) \/ NodeSucceeds(n)
  PROVE  LedgerFits'
<1> USE FixtureAssumption DEF LedgerFits
<1>1. /\ AttemptFits(n) /\ ResourceFits(n) /\ ClaimsFit(n)
      /\ node[n] \in NodeRow /\ exec[n] # "IDLE" /\ node[n].status \in {"RUNNING", "VERIFYING"}
  BY DEF LedgerRowsFit, FTypeOK, OutcomeIsUncertain, NodeFails, NodeSucceeds, AttemptFits
<1>2. /\ \A m \in Nodes : m # n => node'[m] = node[m] /\ exec'[m] = exec[m]
      /\ UNCHANGED <<fixtureRun, resource, real, recon, cleaning, flow, lease>>
      /\ \/ /\ exec[n] \in {"LOST", "OK"}
            /\ node'[n] = [node[n] EXCEPT !.status = "OUTCOME_UNCERTAIN", !.reconcile = "PENDING",
                                          !.claimExpired = FALSE]
         \/ exec[n] \in {"REFUSED", "VERIFY"} /\ node'[n] = [node[n] EXCEPT !.status = "FAILED"]
         \/ exec[n] = "VERIFY" /\ node'[n] = [node[n] EXCEPT !.status = "SUCCEEDED"]
      /\ exec'[n] = "IDLE"
  BY <1>1 DEF FTypeOK, OutcomeIsUncertain, NodeFails, NodeSucceeds, Uncertain
<1>3. faults' \in 0..MaxFaults /\ retries' = retries
  BY FxFault DEF OutcomeIsUncertain, NodeFails, NodeSucceeds, budget
<1>4. FTypeOK'
  <2>1. node'[n] \in NodeRow
    BY <1>1, <1>2 DEF NodeRow, NodeStates, ReconcileStates
  <2>2. node' \in [Nodes -> NodeRow]
    BY <1>2, <2>1 DEF FTypeOK, OutcomeIsUncertain, NodeFails, NodeSucceeds
  <2>3. exec' \in [Nodes -> Attempt]
    BY <1>2 DEF FTypeOK, OutcomeIsUncertain, NodeFails, NodeSucceeds, Attempt
  <2> QED
    BY <1>2, <1>3, <2>2, <2>3 DEF FTypeOK
<1>5. LedgerRowsFit'
  <2>1. AttemptFits(n)'
    BY <1>1, <1>2 DEF AttemptFits, NodeRow
  <2>2. ResourceFits(n)' /\ ClaimsFit(n)'
    BY <1>1, <1>2, <1>3 DEF AttemptFits, ResourceFits, ClaimsFit, Unmade, Prepared, Recorded, Due, NodeRow
  <2> QED
    BY <1>2, <1>3, <2>1, <2>2, FxRows DEF Same
<1>6. ReconcilersFit'
  BY <1>1, <1>2, FxNotReconciled, FxReconcilers DEF FTypeOK, ReconcileAttempt
<1>7. CleanersFit'
  BY <1>2 DEF CleanersFit
<1>8. RunFits'
  BY <1>1, <1>2 DEF RunFits, Released, Cancelable, CleanupEvidenceIsTrue
<1> QED
  BY <1>4, <1>5, <1>6, <1>7, <1>8

-----------------------------------------------------------------------------
(* Fixture runs: reconciling *)

LEMMA FxClaimReconcile ==
  ASSUME LedgerFits, NEW n \in Nodes, NEW by \in {"FLOW", "SWEEP"}, ClaimReconcile(n, by)
  PROVE  LedgerFits'
<1> USE FixtureAssumption DEF LedgerFits
<1> DEFINE new == [node |-> n, number |-> node[n].reconciles + 1, by |-> by, answer |-> "ASKED"]
<1>1. /\ AttemptFits(n) /\ ResourceFits(n) /\ ClaimsFit(n)
      /\ node[n] \in NodeRow /\ node[n].status = "OUTCOME_UNCERTAIN"
      /\ node[n].reconcile \in {"PENDING", "INCONCLUSIVE"}
      /\ node[n].reconciles + 1 \in 1..MaxReconciles
  BY FxBounds DEF LedgerRowsFit, FTypeOK, ClaimReconcile, NodeRow
<1>2. /\ \A m \in Nodes : m # n => node'[m] = node[m]
      /\ UNCHANGED <<fixtureRun, resource, real, exec, cleaning, flow, lease, faults, retries>>
      /\ node'[n] = [node[n] EXCEPT !.reconcile = "RUNNING", !.reconciles = node[n].reconciles + 1]
      /\ recon' = recon \cup {new}
  BY <1>1 DEF FTypeOK, ClaimReconcile, budget
<1>3. node'[n] \in NodeRow
  <2>1. node[n].reconciles + 1 \in 0..MaxReconciles
    BY <1>1, FxBounds
  <2> QED
    BY <1>1, <1>2, <2>1 DEF NodeRow, ReconcileStates
<1>4. FTypeOK'
  <2>1. node' \in [Nodes -> NodeRow]
    BY <1>2, <1>3 DEF FTypeOK, ClaimReconcile
  <2>2. new \in ReconcileAttempt
    BY <1>1 DEF ReconcileAttempt
  <2> QED
    BY <1>2, <2>1, <2>2 DEF FTypeOK
<1>5. LedgerRowsFit'
  <2>1. AttemptFits(n)'
    BY <1>1, <1>2 DEF AttemptFits, NodeRow
  <2>2. ResourceFits(n)' /\ ClaimsFit(n)'
    BY <1>1, <1>2 DEF ResourceFits, ClaimsFit, Unmade, Prepared, Recorded, Due, NodeRow
  <2> QED
    BY <1>2, <2>1, <2>2, FxRows DEF Same
<1>6. ReconcilersFit'
  <2>1. \A w \in recon : w.node = n => Outlived(w)
    BY <1>1 DEF ReconcilersFit, Claimed, Outlived
  <2>2. new.node = n /\ new.answer = "ASKED" /\ Claimed(n)'
    BY <1>1, <1>2 DEF Claimed, NodeRow
  <2>3. \A w \in recon : Outlived(w) \/ node'[w.node] = node[w.node]
    BY <1>2, <2>1 DEF FTypeOK, ReconcileAttempt
  <2> HIDE DEF new
  <2>4. \A w \in recon :
          /\ w.answer = "VERIFY" => node'[w.node].status = "VERIFYING" /\ node'[w.node].reconcile = "FOUND"
          /\ w.answer = "FOUND" => real'[w.node] # "ABSENT"
          /\ CleanupOverrunsOnly => /\ w.answer # "VERIFY" => Claimed(w.node)'
                                    /\ w.answer = "ABSENT" => real'[w.node] = "ABSENT"
    BY <1>2, <2>3 DEF ReconcilersFit, Claimed, Outlived
  <2> QED
    BY <1>2, <2>1, <2>2, <2>4 DEF ReconcilersFit, Outlived
<1>7. CleanersFit'
  BY <1>2 DEF CleanersFit
<1>8. RunFits'
  BY <1>1, <1>2 DEF RunFits, Released, Cancelable, CleanupEvidenceIsTrue
<1> QED
  BY <1>4, <1>5, <1>6, <1>7, <1>8

LEMMA FxReconcile ==
  ASSUME LedgerFits, NEW w \in recon, Reconcile(w)
  PROVE  LedgerFits'
<1> USE FixtureAssumption DEF LedgerFits
<1>1. w \in ReconcileAttempt /\ w.answer = "ASKED" /\ (CleanupOverrunsOnly => Claimed(w.node))
  BY DEF FTypeOK, Reconcile, ReconcilersFit
<1>2. UNCHANGED <<fixtureRun, node, resource, real, exec, cleaning, flow, lease>>
  BY DEF Reconcile, ledger
<1>3. PICK answer \in {"FOUND", "ABSENT", "UNKNOWN", "FAILED"} :
        /\ recon' = Answered(w, answer)
        /\ answer = "FOUND" => real[w.node] = "EXISTS"
        /\ answer = "ABSENT" => real[w.node] = "ABSENT"
  BY DEF Reconcile
<1>4. faults' \in 0..MaxFaults /\ retries' = retries
  BY FxFault DEF Reconcile
<1> DEFINE new == [w EXCEPT !.answer = answer]
<1>5. new \in ReconcileAttempt /\ new.node = w.node /\ new.answer = answer
  BY <1>1 DEF ReconcileAttempt
<1>6. recon' = (recon \ {w}) \cup {new}
  BY <1>3 DEF Answered
<1> HIDE DEF new
<1>7. FTypeOK'
  BY <1>2, <1>4, <1>5, <1>6 DEF FTypeOK
<1>8. LedgerRowsFit'
  BY <1>2, <1>4 DEF LedgerRowsFit, AttemptFits, ResourceFits, ClaimsFit, Unmade, Prepared, Recorded, Due
<1>9. ReconcilersFit'
  BY <1>1, <1>2, <1>3, <1>5, <1>6 DEF ReconcilersFit, Claimed
<1>10. CleanersFit' /\ RunFits'
  BY <1>2 DEF CleanersFit, RunFits, Released, Cancelable, CleanupEvidenceIsTrue
<1> QED
  BY <1>7, <1>8, <1>9, <1>10

\* A settled reconciliation: the claim ends with its worker.
LEMMA FxReconcileSettles ==
  ASSUME LedgerFits, NEW w \in recon,
         FinishReconcileAbsent(w) \/ FinishReconcileInconclusive(w) \/ FinishReconciled(w)
  PROVE  LedgerFits'
<1> USE FixtureAssumption DEF LedgerFits
<1> DEFINE n == w.node
<1>1. n \in Nodes /\ w.number \in 1..MaxReconciles
  BY DEF FTypeOK, ReconcileAttempt
<1>2. /\ AttemptFits(n) /\ ResourceFits(n) /\ ClaimsFit(n) /\ node[n] \in NodeRow
      /\ w.answer = "VERIFY" => node[n].status = "VERIFYING" /\ node[n].reconcile = "FOUND"
      /\ CleanupOverrunsOnly /\ w.answer = "ABSENT" => real[n] = "ABSENT"
      /\ Claimed(n) \/ w.answer = "VERIFY" => exec[n] = "IDLE"
  BY <1>1 DEF LedgerRowsFit, FTypeOK, ReconcilersFit, AttemptFits, Claimed
<1>3. /\ \A m \in Nodes : m # n => node'[m] = node[m]
      /\ UNCHANGED <<fixtureRun, resource, real, exec, cleaning, flow, lease, faults, retries>>
      /\ \/ node' = node /\ w.answer # "VERIFY"
         \/ /\ w.answer = "ABSENT" /\ Claimed(n) /\ node[n].attempts < MaxAttempts
            /\ node'[n] = [node[n] EXCEPT !.status = "READY", !.reconcile = "ABSENT"]
         \/ /\ w.answer = "ABSENT" /\ Claimed(n)
            /\ node'[n] = [node[n] EXCEPT !.status = "FAILED", !.reconcile = "EXHAUSTED"]
         \/ /\ w.answer \in {"UNKNOWN", "FAILED"} /\ Claimed(n)
            /\ \E r \in {"INCONCLUSIVE", "EXHAUSTED"} :
                 node'[n] = [node[n] EXCEPT !.claimExpired = FALSE, !.reconcile = r]
         \/ /\ w.answer = "VERIFY"
            /\ \E s \in {"SUCCEEDED", "FAILED"} : node'[n] = [node[n] EXCEPT !.status = s]
      /\ recon' = recon \ {w}
  <2>1. CASE FinishReconcileAbsent(w)
    BY <1>1, <1>2, <2>1 DEF FTypeOK, FinishReconcileAbsent, AfterAbsent, MayCreateAgain, budget
  <2>2. CASE FinishReconcileInconclusive(w)
    BY <1>1, <1>2, <2>2 DEF FTypeOK, FinishReconcileInconclusive, AfterInconclusive, budget
  <2>3. CASE FinishReconciled(w)
    BY <1>1, <1>2, <2>3 DEF FTypeOK, FinishReconciled, budget
  <2> QED
    BY <2>1, <2>2, <2>3
<1>4. node'[n] \in NodeRow
  BY <1>2, <1>3 DEF NodeRow, NodeStates, ReconcileStates
<1>5. FTypeOK'
  <2>1. node' \in [Nodes -> NodeRow]
    BY <1>3, <1>4 DEF FTypeOK, FinishReconcileAbsent, FinishReconcileInconclusive, FinishReconciled
  <2> QED
    BY <1>3, <2>1 DEF FTypeOK
<1>6. LedgerRowsFit'
  <2>1. AttemptFits(n)'
    BY <1>2, <1>3 DEF AttemptFits, NodeRow, Claimed
  <2>2. ResourceFits(n)' /\ ClaimsFit(n)'
    BY <1>2, <1>3 DEF ResourceFits, ClaimsFit, Unmade, Prepared, Recorded, Due, NodeRow, Claimed
  <2> HIDE DEF n
  <2> QED
    BY <1>1, <1>3, <2>1, <2>2, FxRows DEF Same
<1>7. ReconcilersFit'
  <2>1. \A v \in recon' : v \in recon /\ v.node \in Nodes
    BY <1>3 DEF FTypeOK, ReconcileAttempt
  <2>2. \A v \in recon' : node' = node \/ (v.node = n => Outlived(v))
    BY <1>3 DEF ReconcilersFit, Claimed, Outlived
  <2> HIDE DEF n
  <2>3. \A v \in recon' : Outlived(v) \/ node'[v.node] = node[v.node]
    BY <1>3, <2>1, <2>2
  <2> QED
    BY <1>3, <2>1, <2>3, FxReconcilers
<1>8. CleanersFit'
  BY <1>3 DEF CleanersFit
<1>9. RunFits'
  <2>1. node' = node \/ node[n].status # "SUCCEEDED"
    BY <1>2, <1>3 DEF Claimed
  <2> HIDE DEF n
  <2> QED
    BY <1>1, <1>3, <2>1 DEF RunFits, Released, Cancelable, CleanupEvidenceIsTrue
<1> QED
  BY <1>5, <1>6, <1>7, <1>8, <1>9

\* A worker that has lost its claim drops what it found.
LEMMA FxDropsFound ==
  ASSUME LedgerFits, NEW w \in recon, RecordReconcileFound(w), ~Claimed(w.node)
  PROVE  LedgerFits'
<1> USE DEF LedgerFits
<1>1. /\ UNCHANGED <<fixtureRun, node, resource, real, exec, cleaning, flow, lease, faults, retries>>
      /\ recon' \subseteq recon
  BY DEF RecordReconcileFound, budget
<1>2. FTypeOK' /\ LedgerRowsFit'
  BY <1>1 DEF FTypeOK, LedgerRowsFit, AttemptFits, ResourceFits, ClaimsFit, Unmade, Prepared, Recorded, Due
<1>3. ReconcilersFit' /\ CleanersFit' /\ RunFits'
  BY <1>1 DEF ReconcilersFit, Claimed, CleanersFit, RunFits, Released, Cancelable, CleanupEvidenceIsTrue
<1> QED
  BY <1>2, <1>3

LEMMA FxRecordReconcileFound ==
  ASSUME LedgerFits, NEW w \in recon, RecordReconcileFound(w), Claimed(w.node)
  PROVE  LedgerFits'
<1> USE FixtureAssumption DEF LedgerFits
<1> DEFINE n == w.node
<1> DEFINE new == [w EXCEPT !.answer = "VERIFY"]
<1>1. w \in ReconcileAttempt /\ n \in Nodes /\ w.answer = "FOUND"
  BY DEF FTypeOK, ReconcileAttempt, RecordReconcileFound
<1>2. /\ AttemptFits(n) /\ ResourceFits(n) /\ ClaimsFit(n)
      /\ node[n] \in NodeRow /\ resource[n] \in ResourceRow
      /\ Claimed(n) /\ real[n] = "EXISTS" /\ exec[n] = "IDLE"
  BY <1>1 DEF LedgerRowsFit, FTypeOK, ReconcilersFit, AttemptFits, ResourceFits, Unmade, Claimed
<1>3. /\ \A m \in Nodes : m # n => node'[m] = node[m] /\ resource'[m] = resource[m]
      /\ UNCHANGED <<fixtureRun, real, exec, cleaning, flow, lease, faults, retries>>
      /\ node'[n] = [node[n] EXCEPT !.status = "VERIFYING", !.reconcile = "FOUND"]
      /\ resource'[n] = [resource[n] EXCEPT !.status = FoundAs]
      /\ recon' = (recon \ {w}) \cup {new}
  BY <1>1, <1>2 DEF FTypeOK, RecordReconcileFound, Answered, budget
<1>4. new \in ReconcileAttempt /\ new.node = n /\ new.answer = "VERIFY"
  BY <1>1 DEF ReconcileAttempt
<1>5. FoundAs \in {"ACTIVE", "ORPHAN_SUSPECTED"}
  BY DEF FoundAs
<1> HIDE DEF new
<1>6. node'[n] \in NodeRow /\ resource'[n] \in ResourceRow
  BY <1>2, <1>3, <1>5 DEF NodeRow, NodeStates, ReconcileStates, ResourceRow, ResourceStates
<1>7. FTypeOK'
  <2>1. node' \in [Nodes -> NodeRow] /\ resource' \in [Nodes -> ResourceRow]
    BY <1>1, <1>2, <1>3, <1>6 DEF FTypeOK, RecordReconcileFound
  <2> QED
    BY <1>3, <1>4, <2>1 DEF FTypeOK
<1>8. LedgerRowsFit'
  <2>1. AttemptFits(n)'
    BY <1>2, <1>3 DEF AttemptFits, NodeRow
  <2>2. ResourceFits(n)'
    BY <1>2, <1>3, <1>5 DEF ResourceFits, Unmade, Prepared, Recorded, NodeRow, ResourceRow
  <2>3. ClaimsFit(n)'
    <3>1. resource[n].gen = 0 /\ retries \in Nat /\ 0 < MaxCleanups + retries
      BY <1>2, FxBounds DEF ResourceFits, ClaimsFit, Unmade, Recorded, Claimed, FTypeOK
    <3> QED
      BY <1>2, <1>3, <1>5, <3>1 DEF ClaimsFit, Due, ResourceRow
  <2> HIDE DEF n
  <2> QED
    BY <1>1, <1>3, <2>1, <2>2, <2>3, FxRows DEF Same
<1>9. ReconcilersFit'
  <2>1. \A v \in recon \ {w} : v.node \in Nodes /\ (v.node = n => Outlived(v))
    BY <1>1, <1>2 DEF ReconcilersFit, FTypeOK, ReconcileAttempt, Outlived, Claimed
  <2>2. node'[n].status = "VERIFYING" /\ node'[n].reconcile = "FOUND"
    BY <1>2, <1>3 DEF NodeRow
  <2> HIDE DEF n
  <2>3. \A v \in recon \ {w} :
          /\ v.answer = "VERIFY" => node'[v.node].status = "VERIFYING" /\ node'[v.node].reconcile = "FOUND"
          /\ v.answer = "FOUND" => real'[v.node] # "ABSENT"
          /\ CleanupOverrunsOnly => /\ v.answer # "VERIFY" => Claimed(v.node)'
                                    /\ v.answer = "ABSENT" => real'[v.node] = "ABSENT"
    BY <1>3, <2>1 DEF ReconcilersFit, Claimed, Outlived
  <2>4. \A u, v \in recon' :
          u.node = v.node /\ (CleanupOverrunsOnly \/ (u.answer = "VERIFY" /\ v.answer = "VERIFY")) => u = v
    BY <1>3, <1>4, <2>1 DEF ReconcilersFit, Outlived
  <2> QED
    BY <1>3, <1>4, <2>2, <2>3, <2>4 DEF ReconcilersFit, Claimed
<1>10. CleanersFit'
  <2>1. \A v \in cleaning : v.node \in Nodes /\ v.node # n
    BY <1>1, <1>2, FxNotCleaned DEF Unmade, Claimed, FTypeOK, CleanupAttempt
  <2> HIDE DEF n
  <2> QED
    BY <1>3, <2>1 DEF CleanersFit
<1>11. RunFits'
  <2>1. node[n].status # "SUCCEEDED"
    BY <1>2 DEF Claimed
  <2> HIDE DEF n
  <2> QED
    BY <1>1, <1>3, <2>1 DEF RunFits, Released, Cancelable, CleanupEvidenceIsTrue
<1> QED
  BY <1>7, <1>8, <1>9, <1>10, <1>11

LEMMA FxRecoverReconcileClaim ==
  ASSUME LedgerFits, NEW n \in Nodes, RecoverReconcileClaim(n)
  PROVE  LedgerFits'
<1> USE FixtureAssumption DEF LedgerFits
<1>1. /\ AttemptFits(n) /\ ResourceFits(n) /\ ClaimsFit(n) /\ node[n] \in NodeRow /\ Claimed(n)
      /\ \A w \in recon : w.node = n => Outlived(w)
      /\ exec[n] = "IDLE"
  BY DEF LedgerRowsFit, FTypeOK, AttemptFits, Claimed, RecoverReconcileClaim, Overrun, CleanupOverrunsOnly,
         ReconcilersFit, Outlived
<1>2. /\ \A m \in Nodes : m # n => node'[m] = node[m]
      /\ UNCHANGED <<fixtureRun, resource, real, exec, recon, cleaning, flow, lease>>
      /\ \E r \in {"INCONCLUSIVE", "EXHAUSTED"} :
           node'[n] = [node[n] EXCEPT !.reconcile = r, !.claimExpired = TRUE]
  BY <1>1 DEF FTypeOK, RecoverReconcileClaim, workers
<1>3. faults' \in 0..MaxFaults /\ retries' = retries
  BY FxFault DEF RecoverReconcileClaim, Overrun
<1>4. node'[n] \in NodeRow
  BY <1>1, <1>2 DEF NodeRow, ReconcileStates
<1>5. FTypeOK'
  <2>1. node' \in [Nodes -> NodeRow]
    BY <1>2, <1>4 DEF FTypeOK, RecoverReconcileClaim
  <2> QED
    BY <1>2, <1>3, <2>1 DEF FTypeOK
<1>6. LedgerRowsFit'
  <2>1. AttemptFits(n)'
    BY <1>1, <1>2 DEF AttemptFits, NodeRow, Claimed
  <2>2. ResourceFits(n)' /\ ClaimsFit(n)'
    BY <1>1, <1>2, <1>3 DEF ResourceFits, ClaimsFit, Unmade, Prepared, Recorded, Due, NodeRow, Claimed
  <2> QED
    BY <1>2, <1>3, <2>1, <2>2, FxRows DEF Same
<1>7. ReconcilersFit'
  BY <1>1, <1>2, FxReconcilers DEF FTypeOK, ReconcileAttempt
<1>8. CleanersFit'
  BY <1>2 DEF CleanersFit
<1>9. RunFits'
  BY <1>1, <1>2 DEF RunFits, Released, Cancelable, CleanupEvidenceIsTrue, Claimed
<1> QED
  BY <1>5, <1>6, <1>7, <1>8, <1>9

-----------------------------------------------------------------------------
(* Fixture runs: removing resources *)

FlowRow == [at : {"PREPARE", "HOLD", "CLEAN", "END"}, cancel : BOOLEAN, cleaned : SUBSET Nodes]

\* What cleaning does to the workflow does not touch its cancellation.
LEMMA FxFlow ==
  ASSUME FTypeOK, NEW n \in Nodes, UNCHANGED flow \/ Passed(n) \/ Failed
  PROVE  flow' \in FlowRow /\ flow'.cancel = flow.cancel
BY DEF FTypeOK, FlowRow, Passed, Failed

\* A recorded resource moves on in its cleanup.
LEMMA FxResourceMoves ==
  ASSUME LedgerFits, NEW n \in Nodes, NEW s \in ResourceStates, NEW g \in Nat,
         Recorded(n), s # "ACTIVE",
         g <= MaxCleanups + retries,
         s \in {"CLEANUP_PENDING", "BLOCKED_BY_CHILD", "ORPHAN_SUSPECTED"} => g < MaxCleanups + retries,
         s = "CLEANED" => real[n] # "EXISTS",
         \A m \in Nodes : m # n => resource'[m] = resource[m],
         resource'[n] = [status |-> s, gen |-> g],
         resource' \in [Nodes -> ResourceRow],
         UNCHANGED <<fixtureRun, node, real, exec, recon, lease>>,
         faults' \in 0..MaxFaults, retries' = retries,
         flow' \in FlowRow, flow'.cancel = flow.cancel,
         cleaning' \subseteq CleanupAttempt,
         \A w \in cleaning' : w \in cleaning \/ (w.node = n /\ w.answer = "CALL")
  PROVE  LedgerFits'
<1> USE DEF LedgerFits
<1>1. AttemptFits(n) /\ ResourceFits(n) /\ ClaimsFit(n)
  BY DEF LedgerRowsFit
<1>2. resource'[n].status = s /\ resource'[n].gen = g
  OBVIOUS
<1>3. FTypeOK'
  BY DEF FTypeOK, FlowRow
<1>4. LedgerRowsFit'
  <2>1. AttemptFits(n)'
    BY <1>1 DEF AttemptFits
  <2>2. ResourceFits(n)'
    BY <1>1, <1>2 DEF ResourceFits, Unmade, Prepared, Recorded, ResourceStates
  <2>3. ClaimsFit(n)'
    BY <1>1, <1>2 DEF ClaimsFit, Due, ResourceStates
  <2> QED
    BY <2>1, <2>2, <2>3, FxRows DEF Same
<1>5. ReconcilersFit'
  BY DEF ReconcilersFit, Claimed
<1>6. CleanersFit'
  BY <1>2 DEF CleanersFit, FTypeOK, CleanupAttempt, ResourceStates
<1>7. RunFits'
  BY DEF RunFits, Released, Cancelable, CleanupEvidenceIsTrue
<1> QED
  BY <1>3, <1>4, <1>5, <1>6, <1>7

\* The rows of the resources keep their type when one of them moves.
LEMMA FxResourceRow ==
  ASSUME FTypeOK, NEW n \in Nodes, NEW s \in ResourceStates, NEW g \in 0..(MaxCleanups + MaxRetries),
         resource' = [resource EXCEPT ![n].status = s], g = resource[n].gen
  PROVE  /\ resource' \in [Nodes -> ResourceRow]
         /\ resource'[n] = [status |-> s, gen |-> g]
         /\ \A m \in Nodes : m # n => resource'[m] = resource[m]
BY DEF FTypeOK, ResourceRow

LEMMA FxGen ==
  ASSUME LedgerFits, NEW n \in Nodes
  PROVE  /\ resource[n] \in ResourceRow
         /\ resource[n].gen \in Nat /\ resource[n].gen <= MaxCleanups + retries
         /\ retries \in Nat /\ retries <= MaxRetries
         /\ resource[n].gen \in 0..(MaxCleanups + MaxRetries)
BY FxBounds DEF LedgerFits, FTypeOK, LedgerRowsFit, ClaimsFit, ResourceRow

LEMMA FxBlockCleanup ==
  ASSUME LedgerFits, NEW n \in Nodes, NEW by \in {"FLOW", "SWEEP"}, BlockCleanup(n, by)
  PROVE  LedgerFits'
<1> DEFINE g == resource[n].gen
<1> DEFINE s == "BLOCKED_BY_CHILD"
<1>1. /\ g \in Nat /\ g \in 0..(MaxCleanups + MaxRetries) /\ g < MaxCleanups + retries
      /\ Recorded(n) /\ s \in ResourceStates
  BY FxGen DEF BlockCleanup, Due, Recorded, ResourceStates, LedgerFits, LedgerRowsFit, ClaimsFit
<1>2. /\ UNCHANGED <<fixtureRun, node, real, exec, recon, cleaning, lease, faults, retries>>
      /\ resource' = [resource EXCEPT ![n].status = s]
      /\ UNCHANGED flow \/ Passed(n)
  BY DEF BlockCleanup, workers, budget
<1>3. FTypeOK
  BY DEF LedgerFits
<1>4. flow' \in FlowRow /\ flow'.cancel = flow.cancel
  BY <1>2, <1>3, FxFlow
<1>5. /\ faults' \in 0..MaxFaults /\ retries' = retries
      /\ cleaning' = cleaning /\ cleaning' \subseteq CleanupAttempt
  BY <1>2, <1>3 DEF FTypeOK
<1>6. /\ resource' \in [Nodes -> ResourceRow]
      /\ resource'[n] = [status |-> s, gen |-> g]
      /\ \A m \in Nodes : m # n => resource'[m] = resource[m]
  BY <1>1, <1>2, <1>3, FxResourceRow
<1>7. g <= MaxCleanups + retries
  BY FxGen
<1>8. s # "ACTIVE" /\ s # "CLEANED"
  OBVIOUS
<1> HIDE DEF g, s
<1> QED
  BY <1>1, <1>2, <1>4, <1>5, <1>6, <1>7, <1>8, FxResourceMoves

LEMMA FxClaimCleanup ==
  ASSUME LedgerFits, NEW n \in Nodes, NEW by \in {"FLOW", "SWEEP"}, ClaimCleanup(n, by)
  PROVE  LedgerFits'
<1> DEFINE g == resource[n].gen + 1
<1> DEFINE new == [node |-> n, gen |-> g, by |-> by, answer |-> "CALL"]
<1>1. PICK s \in {"CLEANING", "LEAKED"} :
        /\ resource' = [resource EXCEPT ![n].status = s, ![n].gen = @ + 1]
        /\ cleaning' = cleaning \/ cleaning' = cleaning \cup {new}
  BY DEF ClaimCleanup
<1>2. /\ UNCHANGED <<fixtureRun, node, real, exec, recon, lease, faults, retries>>
      /\ UNCHANGED flow \/ Passed(n)
      /\ Recorded(n)
  BY DEF ClaimCleanup, budget, Claimable, Recorded
<1>3. resource[n].gen \in Nat /\ resource[n].gen < MaxCleanups + retries
  BY FxGen DEF ClaimCleanup, Claimable, Due, LedgerFits, LedgerRowsFit, ClaimsFit
<1>4. /\ g \in Nat /\ g <= MaxCleanups + retries
      /\ g \in 1..(MaxCleanups + MaxRetries) /\ g \in 0..(MaxCleanups + MaxRetries)
  BY <1>3, FxGen, FxBounds
<1>5. FTypeOK
  BY DEF LedgerFits
<1>6. flow' \in FlowRow /\ flow'.cancel = flow.cancel
  BY <1>2, <1>5, FxFlow
<1>7. new \in CleanupAttempt /\ new.node = n /\ new.answer = "CALL"
  BY <1>4 DEF CleanupAttempt
<1>8. s \in ResourceStates
  BY DEF ResourceStates
<1>9. g = resource[n].gen + 1
  OBVIOUS
<1> HIDE DEF g, new
<1>10. /\ faults' \in 0..MaxFaults /\ retries' = retries
       /\ cleaning' \subseteq CleanupAttempt
       /\ \A w \in cleaning' : w \in cleaning \/ (w.node = n /\ w.answer = "CALL")
  BY <1>1, <1>2, <1>5, <1>7 DEF FTypeOK
<1>11. /\ resource' \in [Nodes -> ResourceRow]
       /\ resource'[n] = [status |-> s, gen |-> g]
       /\ \A m \in Nodes : m # n => resource'[m] = resource[m]
  <2>1. resource' = [resource EXCEPT ![n].status = s, ![n].gen = @ + 1]
    BY <1>1
  <2> QED
    BY <1>4, <1>5, <1>8, <1>9, <2>1 DEF FTypeOK, ResourceRow
<1> QED
  BY <1>2, <1>4, <1>6, <1>8, <1>10, <1>11, FxResourceMoves

LEMMA FxRecoverCleanupClaim ==
  ASSUME LedgerFits, NEW n \in Nodes, RecoverCleanupClaim(n)
  PROVE  LedgerFits'
<1> DEFINE g == resource[n].gen
<1> DEFINE s == Recovered(n)
<1>1. /\ g \in Nat /\ g \in 0..(MaxCleanups + MaxRetries) /\ g <= MaxCleanups + retries
      /\ s \in {"LEAKED", "CLEANUP_PENDING"} /\ s \in ResourceStates
      /\ s = "CLEANUP_PENDING" => g < MaxCleanups + retries
      /\ Recorded(n)
  BY FxGen, FxBounds DEF RecoverCleanupClaim, Recovered, Recorded, ResourceStates
<1>2. /\ UNCHANGED <<fixtureRun, node, real, exec, recon, cleaning, flow, lease>>
      /\ resource' = [resource EXCEPT ![n].status = s]
      /\ UNCHANGED budget \/ Fault
  BY DEF RecoverCleanupClaim, workers, Overrun
<1>3. FTypeOK
  BY DEF LedgerFits
<1>4. /\ faults' \in 0..MaxFaults /\ retries' = retries
      /\ cleaning' = cleaning /\ cleaning' \subseteq CleanupAttempt
      /\ flow' \in FlowRow /\ flow'.cancel = flow.cancel
  BY <1>2, <1>3, FxFault DEF FTypeOK, FlowRow
<1>5. g = resource[n].gen
  OBVIOUS
<1> HIDE DEF g, s
<1>6. /\ resource' \in [Nodes -> ResourceRow]
      /\ resource'[n] = [status |-> s, gen |-> g]
      /\ \A m \in Nodes : m # n => resource'[m] = resource[m]
  BY <1>1, <1>2, <1>3, <1>5, FxResourceRow
<1> QED
  BY <1>1, <1>2, <1>4, <1>6, FxResourceMoves

LEMMA FxQueueExpired ==
  ASSUME LedgerFits, NEW n \in Nodes, QueueExpired(n)
  PROVE  LedgerFits'
<1> DEFINE g == resource[n].gen
<1> DEFINE s == "ORPHAN_SUSPECTED"
<1>1. /\ g = 0 /\ g \in Nat /\ g \in 0..(MaxCleanups + MaxRetries)
      /\ g < MaxCleanups + retries /\ g <= MaxCleanups + retries
      /\ s \in ResourceStates /\ s # "ACTIVE" /\ s # "CLEANED"
      /\ Recorded(n)
  BY FxGen, FxBounds DEF QueueExpired, Recorded, ResourceStates, LedgerFits, LedgerRowsFit, ClaimsFit
<1>2. /\ UNCHANGED <<fixtureRun, node, real, exec, recon, cleaning, flow, lease, faults, retries>>
      /\ resource' = [resource EXCEPT ![n].status = s]
  BY DEF QueueExpired, workers, budget
<1>3. FTypeOK
  BY DEF LedgerFits
<1>4. /\ faults' \in 0..MaxFaults /\ retries' = retries
      /\ cleaning' = cleaning /\ cleaning' \subseteq CleanupAttempt
      /\ flow' \in FlowRow /\ flow'.cancel = flow.cancel
  BY <1>2, <1>3 DEF FTypeOK, FlowRow
<1>5. g = resource[n].gen
  OBVIOUS
<1> HIDE DEF g, s
<1>6. /\ resource' \in [Nodes -> ResourceRow]
      /\ resource'[n] = [status |-> s, gen |-> g]
      /\ \A m \in Nodes : m # n => resource'[m] = resource[m]
  BY <1>1, <1>2, <1>3, <1>5, FxResourceRow
<1> QED
  BY <1>1, <1>2, <1>4, <1>6, FxResourceMoves

\* A worker that lost its claim changes nothing but what waits for it.
LEMMA FxFinishCleanup ==
  ASSUME LedgerFits, NEW w \in cleaning, FinishCleanup(w)
  PROVE  LedgerFits'
<1> DEFINE n == w.node
<1> DEFINE g == resource[n].gen
<1> DEFINE s == IF HoldsClaim(w) THEN AfterDelete(w) ELSE resource[n].status
<1>1. FTypeOK /\ n \in Nodes /\ w \in CleanupAttempt
  BY DEF LedgerFits, FTypeOK, CleanupAttempt
<1>2. /\ Recorded(n) /\ resource[n].status # "ACTIVE"
      /\ w.answer = "DONE" => real[n] = "DELETED"
      /\ resource[n].status = "CLEANED" => real[n] # "EXISTS"
      /\ resource[n] \in ResourceRow
  BY <1>1 DEF LedgerFits, CleanersFit, LedgerRowsFit, ResourceFits, Recorded, FTypeOK
<1>3. /\ g \in Nat /\ g \in 0..(MaxCleanups + MaxRetries) /\ g <= MaxCleanups + retries /\ retries \in Nat
  BY <1>1, FxGen
<1>4. /\ s \in ResourceStates /\ s # "ACTIVE"
      /\ s = "CLEANED" => real[n] # "EXISTS"
  BY <1>2 DEF AfterDelete, ResourceStates, ResourceRow, Recorded
<1>5. s \in {"CLEANUP_PENDING", "BLOCKED_BY_CHILD", "ORPHAN_SUSPECTED"} => g < MaxCleanups + retries
  <2>1. CASE HoldsClaim(w)
    BY <1>3, <2>1, FxBounds DEF AfterDelete, HoldsClaim
  <2>2. CASE ~HoldsClaim(w)
    BY <1>1, <2>2 DEF LedgerFits, LedgerRowsFit, ClaimsFit, Due
  <2> QED
    BY <2>1, <2>2
<1>6. /\ UNCHANGED <<fixtureRun, node, real, exec, recon, lease, faults, retries>>
      /\ cleaning' = cleaning \ {w}
      /\ resource' = [resource EXCEPT ![n].status = s]
      /\ UNCHANGED flow \/ Passed(n) \/ Failed
  <2>1. /\ UNCHANGED <<fixtureRun, node, real, exec, recon, lease, faults, retries>>
        /\ cleaning' = cleaning \ {w}
        /\ UNCHANGED flow \/ Passed(n) \/ Failed
    BY DEF FinishCleanup, budget
  <2>2. resource' = [resource EXCEPT ![n].status = s]
    BY <1>1 DEF FinishCleanup, FTypeOK, ResourceRow
  <2> QED
    BY <2>1, <2>2
<1>7. /\ faults' \in 0..MaxFaults /\ retries' = retries
      /\ cleaning' \subseteq CleanupAttempt
      /\ \A v \in cleaning' : v \in cleaning
      /\ flow' \in FlowRow /\ flow'.cancel = flow.cancel
  BY <1>1, <1>6, FxFlow DEF FTypeOK
<1>8. g = resource[n].gen
  OBVIOUS
<1> HIDE DEF g, s, n
<1>9. /\ resource' \in [Nodes -> ResourceRow]
      /\ resource'[n] = [status |-> s, gen |-> g]
      /\ \A m \in Nodes : m # n => resource'[m] = resource[m]
  BY <1>1, <1>3, <1>4, <1>6, <1>8, FxResourceRow
<1> QED
  BY <1>1, <1>2, <1>3, <1>4, <1>5, <1>6, <1>7, <1>9, FxResourceMoves

LEMMA FxDelete ==
  ASSUME LedgerFits, NEW w \in cleaning, Delete(w)
  PROVE  LedgerFits'
<1> USE DEF LedgerFits
<1> DEFINE n == w.node
<1>1. n \in Nodes /\ w \in CleanupAttempt
  BY DEF FTypeOK, CleanupAttempt
<1>2. /\ AttemptFits(n) /\ ResourceFits(n) /\ ClaimsFit(n) /\ node[n] \in NodeRow
      /\ Recorded(n) /\ resource[n].status # "ACTIVE"
      /\ ~Unmade(n)
  BY <1>1 DEF CleanersFit, LedgerRowsFit, ResourceFits, Recorded, FTypeOK
<1>3. PICK effect \in BOOLEAN, answer \in {"DONE", "RETRY", "FAILED"} :
        /\ answer = "DONE" => effect
        /\ real' = [real EXCEPT ![n] = IF effect THEN "DELETED" ELSE @]
        /\ cleaning' = (cleaning \ {w}) \cup {[w EXCEPT !.answer = answer]}
        /\ Loss(answer # "DONE")
  BY DEF Delete
<1>4. UNCHANGED <<fixtureRun, node, resource, exec, recon, flow, lease>>
  BY DEF Delete, ledger
<1>5. /\ \A m \in Nodes : m # n => real'[m] = real[m]
      /\ real'[n] \in {real[n], "DELETED"} /\ (answer = "DONE" => real'[n] = "DELETED")
      /\ real' \in [Nodes -> {"ABSENT", "EXISTS", "DELETED"}]
  BY <1>1, <1>3 DEF FTypeOK
<1> DEFINE new == [w EXCEPT !.answer = answer]
<1>6. new \in CleanupAttempt /\ new.node = n /\ new.answer = answer
  BY <1>1 DEF CleanupAttempt
<1>7. cleaning' = (cleaning \ {w}) \cup {new}
  BY <1>3
<1>8. faults' \in 0..MaxFaults /\ retries' = retries
  BY <1>3, FxFault DEF Loss
<1> HIDE DEF new, n
<1>9. FTypeOK'
  BY <1>4, <1>5, <1>6, <1>7, <1>8 DEF FTypeOK
<1>10. LedgerRowsFit'
  <2>1. AttemptFits(n)'
    BY <1>2, <1>4, <1>5 DEF AttemptFits, Unmade
  <2>2. ResourceFits(n)' /\ ClaimsFit(n)'
    BY <1>2, <1>4, <1>5, <1>8 DEF ResourceFits, ClaimsFit, Unmade, Prepared, Recorded, Due
  <2> QED
    BY <1>1, <1>4, <1>5, <1>8, <2>1, <2>2, FxRows DEF Same
<1>11. ReconcilersFit'
  <2>1. \A v \in recon : v.node \in Nodes /\ (v.node = n => v.answer = "VERIFY" \/ Outlived(v))
    BY <1>1, <1>2 DEF FTypeOK, ReconcileAttempt, ReconcilersFit, Claimed, Unmade, Outlived
  <2>2. \A v \in recon : /\ v.answer = "VERIFY" \/ Outlived(v) \/ real'[v.node] = real[v.node]
                         /\ real[v.node] # "ABSENT" => real'[v.node] # "ABSENT"
    BY <1>5, <2>1
  <2> QED
    BY <1>4, <2>2 DEF ReconcilersFit, Claimed, Outlived
<1>12. CleanersFit'
  <2>1. \A v \in cleaning : v.node \in Nodes
    BY DEF FTypeOK, CleanupAttempt
  <2>2. resource[n].status \notin {"NONE", "ACTIVE"}
    BY <1>2 DEF Recorded
  <2> QED
    BY <1>4, <1>5, <1>6, <1>7, <2>1, <2>2 DEF CleanersFit
<1>13. RunFits'
  <2>1. \A m \in Nodes : real'[m] = "EXISTS" => real[m] = "EXISTS"
    BY <1>5
  <2> QED
    BY <1>4, <2>1 DEF RunFits, Released, Cancelable, CleanupEvidenceIsTrue
<1> QED
  BY <1>9, <1>10, <1>11, <1>12, <1>13

-----------------------------------------------------------------------------
(* Fixture runs: the run and its workflow *)

\* The ledger fits as long as it is left alone: workers may die, and the
\* workflow go on.
LEMMA FxLedgerKept ==
  ASSUME LedgerFits, UNCHANGED <<node, resource, real>>,
         exec' \in [Nodes -> Attempt], \A n \in Nodes : exec'[n] \in {exec[n], "IDLE"},
         recon' \subseteq recon, cleaning' \subseteq cleaning,
         flow' \in FlowRow, faults' \in 0..MaxFaults, retries' = retries, lease' \in Binding,
         fixtureRun' \in RunRow, RunFits'
  PROVE  LedgerFits'
<1> USE DEF LedgerFits
<1>1. FTypeOK'
  BY DEF FTypeOK, FlowRow
<1>2. LedgerRowsFit'
  <2> SUFFICES ASSUME NEW n \in Nodes
               PROVE  AttemptFits(n)' /\ ResourceFits(n)' /\ ClaimsFit(n)'
    BY DEF LedgerRowsFit
  <2>1. AttemptFits(n)'
    BY DEF LedgerRowsFit, AttemptFits
  <2>2. ResourceFits(n)' /\ ClaimsFit(n)'
    BY DEF LedgerRowsFit, ResourceFits, ClaimsFit, Unmade, Prepared, Recorded, Due
  <2> QED
    BY <2>1, <2>2
<1>3. ReconcilersFit' /\ CleanersFit'
  BY DEF ReconcilersFit, CleanersFit, Claimed
<1> QED
  BY <1>1, <1>2, <1>3

\* The workflow goes on, and nothing else does.
LEMMA FxFlowMoves ==
  ASSUME LedgerFits, UNCHANGED <<fixtureRun, node, resource, real>>,
         exec' \in [Nodes -> Attempt], \A n \in Nodes : exec'[n] \in {exec[n], "IDLE"},
         recon' \subseteq recon, cleaning' \subseteq cleaning,
         flow' \in FlowRow, flow'.cancel = flow.cancel,
         faults' \in 0..MaxFaults, retries' = retries, lease' \in Binding
  PROVE  LedgerFits'
<1>1. fixtureRun' \in RunRow
  BY DEF LedgerFits, FTypeOK
<1>2. RunFits'
  BY DEF LedgerFits, RunFits, Released, Cancelable, CleanupEvidenceIsTrue
<1> QED
  BY <1>1, <1>2, FxLedgerKept

LEMMA FxOrphanCannotBlock ==
  ASSUME LedgerFits, NEW n \in Nodes, OrphanCannotBlock(n) \/ NothingToClean(n)
  PROVE  LedgerFits'
<1>1. /\ UNCHANGED <<fixtureRun, node, resource, real, exec, recon, cleaning, lease, faults, retries>>
      /\ Passed(n) \/ Failed
  BY DEF OrphanCannotBlock, NothingToClean, ledger, workers, budget
<1>2. FTypeOK
  BY DEF LedgerFits
<1>3. flow' \in FlowRow /\ flow'.cancel = flow.cancel
  BY <1>1, <1>2, FxFlow
<1> QED
  BY <1>1, <1>2, <1>3, FxFlowMoves DEF FTypeOK

LEMMA FxLoseLease ==
  ASSUME LedgerFits, LoseLease
  PROVE  LedgerFits'
<1>1. UNCHANGED <<fixtureRun, node, resource, real, exec, recon, cleaning, flow, faults, retries>>
  BY DEF LoseLease, ledger, workers, budget
<1>2. lease' \in Binding
  BY DEF LoseLease, Binding
<1> QED
  BY <1>1, <1>2, FxFlowMoves DEF LedgerFits, FTypeOK, FlowRow

LEMMA FxTroubles ==
  ASSUME LedgerFits, ActivityTimesOut \/ WorkerDies
  PROVE  LedgerFits'
<1>1. FTypeOK
  BY DEF LedgerFits
<1>2. /\ UNCHANGED <<fixtureRun, node, resource, real, lease>>
      /\ recon' \subseteq recon /\ cleaning' \subseteq cleaning
      /\ UNCHANGED flow \/ Failed
      /\ Fault
  BY DEF ActivityTimesOut, WorkerDies, ledger, workers
<1>3. exec' \in [Nodes -> Attempt] /\ \A n \in Nodes : exec'[n] \in {exec[n], "IDLE"}
  BY <1>1 DEF ActivityTimesOut, WorkerDies, ledger, workers, FTypeOK, Attempt
<1>4. flow' \in FlowRow /\ flow'.cancel = flow.cancel
  BY <1>1, <1>2 DEF FTypeOK, FlowRow, Failed
<1>5. faults' \in 0..MaxFaults /\ retries' = retries
  BY <1>1, <1>2, FxFault
<1> QED
  BY <1>1, <1>2, <1>3, <1>4, <1>5, FxFlowMoves DEF FTypeOK

\* The run turns to its cleanup, with the resources it still uses.
LEMMA FxBeginCleanup ==
  ASSUME LedgerFits, NEW intent \in Intents, NEW from \in SUBSET Cancelable,
         BeginCleanup(intent, from), intent = "RELEASED" => from \subseteq {"READY"},
         UNCHANGED <<node, real, exec, recon, cleaning, lease, faults, retries>>,
         flow' \in FlowRow, flow'.cancel = flow.cancel
  PROVE  LedgerFits'
<1> USE DEF LedgerFits
<1>1. CASE fixtureRun.status \notin from
  <2>1. UNCHANGED <<fixtureRun, resource>>
    BY <1>1 DEF BeginCleanup
  <2> QED
    BY <2>1, FxFlowMoves DEF FTypeOK
<1>2. CASE fixtureRun.status \in from
  <2>1. /\ fixtureRun' = [fixtureRun EXCEPT !.status = "CLEANING", !.intent = intent, !.cleanup = "RUNNING"]
        /\ resource' = Queued
    BY <1>2 DEF BeginCleanup
  <2>2. ASSUME NEW n \in Nodes
        PROVE  /\ resource'[n] \in ResourceRow
               /\ resource'[n].gen = resource[n].gen
               /\ resource'[n].status = IF resource[n].status = "ACTIVE" THEN "CLEANUP_PENDING"
                                        ELSE resource[n].status
    BY <2>1 DEF Queued, FTypeOK, ResourceRow, ResourceStates
  <2>3. FTypeOK'
    <3>1. resource' \in [Nodes -> ResourceRow]
      BY <2>1, <2>2 DEF Queued
    <3>2. fixtureRun' \in RunRow
      BY <2>1 DEF FTypeOK, RunRow, RunStates, CleanupStates
    <3> QED
      BY <3>1, <3>2 DEF FTypeOK, FlowRow
  <2>4. LedgerRowsFit'
    <3> SUFFICES ASSUME NEW n \in Nodes
                 PROVE  AttemptFits(n)' /\ ResourceFits(n)' /\ ClaimsFit(n)'
      BY DEF LedgerRowsFit
    <3>1. AttemptFits(n)'
      BY DEF LedgerRowsFit, AttemptFits
    <3>2. ResourceFits(n)'
      BY <2>2 DEF LedgerRowsFit, ResourceFits, Unmade, Prepared, Recorded
    <3>3. ClaimsFit(n)'
      BY <2>2, FxGen, FxBounds DEF LedgerRowsFit, ClaimsFit, Due
    <3> QED
      BY <3>1, <3>2, <3>3
  <2>5. ReconcilersFit'
    BY DEF ReconcilersFit, Claimed
  <2>6. CleanersFit'
    BY <2>2 DEF CleanersFit, FTypeOK, CleanupAttempt
  <2>7. RunFits'
    BY <1>2, <2>1 DEF FTypeOK, RunRow, RunFits, Released, Cancelable, CleanupEvidenceIsTrue, Intents
  <2> QED
    BY <2>3, <2>4, <2>5, <2>6, <2>7
<1> QED
  BY <1>1, <1>2

LEMMA FxTurnsToCleanup ==
  ASSUME LedgerFits, SweepCanceled \/ FlowGivesUp \/ FlowCancels \/ FlowReleases
  PROVE  LedgerFits'
<1>1. /\ UNCHANGED <<node, real, exec, recon, cleaning, lease, faults, retries>>
      /\ flow' \in FlowRow /\ flow'.cancel = flow.cancel
  BY DEF SweepCanceled, FlowGivesUp, FlowCancels, FlowReleases, workers, budget, LedgerFits, FTypeOK, FlowRow
<1>2. /\ Cancelable \in SUBSET Cancelable /\ {"REQUESTED", "RUNNING"} \in SUBSET Cancelable
      /\ {"READY"} \in SUBSET Cancelable
      /\ {"CANCELED", "FAILED", "RELEASED"} \subseteq Intents
  BY DEF Cancelable, Intents
<1>3. CASE BeginCleanup("CANCELED", Cancelable)
  BY <1>1, <1>2, <1>3, FxBeginCleanup
<1>4. CASE BeginCleanup("FAILED", {"REQUESTED", "RUNNING"})
  BY <1>1, <1>2, <1>4, FxBeginCleanup
<1>5. CASE BeginCleanup("RELEASED", {"READY"})
  BY <1>1, <1>2, <1>5, FxBeginCleanup
<1> QED
  BY <1>3, <1>4, <1>5 DEF SweepCanceled, FlowGivesUp, FlowCancels, FlowReleases

LEMMA FxCancel ==
  ASSUME LedgerFits, Cancel
  PROVE  LedgerFits'
<1> USE DEF LedgerFits
<1>1. UNCHANGED <<node, resource, real, exec, recon, cleaning, lease, faults, retries>>
  BY DEF Cancel, workers, budget
<1>2. fixtureRun' = [fixtureRun EXCEPT !.cancel = TRUE] /\ flow' \in FlowRow
  BY DEF Cancel, FTypeOK, FlowRow
<1>3. fixtureRun' \in RunRow
  BY <1>2 DEF FTypeOK, RunRow
<1>4. RunFits'
  BY <1>1, <1>2 DEF FTypeOK, RunRow, RunFits, Released, Cancelable, CleanupEvidenceIsTrue
<1> QED
  BY <1>1, <1>2, <1>3, <1>4, FxLedgerKept DEF FTypeOK

LEMMA FxFlowReady ==
  ASSUME LedgerFits, FlowReady
  PROVE  LedgerFits'
<1> USE DEF LedgerFits
<1>1. UNCHANGED <<node, resource, real, exec, recon, cleaning, lease, faults, retries>>
  BY DEF FlowReady, workers, budget
<1>2. flow' \in FlowRow /\ flow'.cancel = flow.cancel
  BY DEF FlowReady, Failed, FTypeOK, FlowRow
<1>3. \/ UNCHANGED fixtureRun
      \/ fixtureRun.status = "RUNNING" /\ fixtureRun' = [fixtureRun EXCEPT !.status = "READY"]
  BY DEF FlowReady
<1>4. fixtureRun' \in RunRow
  BY <1>3 DEF FTypeOK, RunRow, RunStates
<1>5. \A n \in Nodes : node[n].status = "SUCCEEDED"
  BY DEF FlowReady
<1>6. RunFits'
  BY <1>1, <1>2, <1>3, <1>5 DEF FTypeOK, RunRow, RunFits, Released, Cancelable, CleanupEvidenceIsTrue
<1> QED
  BY <1>1, <1>2, <1>4, <1>6, FxLedgerKept DEF FTypeOK

\* The run ends: what is neither pending nor leaked has been removed.
LEMMA FxFinalize ==
  ASSUME LedgerFits, Finalize,
         UNCHANGED <<node, resource, real, exec, recon, cleaning, faults, retries>>,
         flow' \in FlowRow, flow'.cancel = flow.cancel
  PROVE  LedgerFits'
<1> USE DEF LedgerFits
<1>1. fixtureRun \in RunRow /\ fixtureRun.status = "CLEANING" /\ fixtureRun.intent \in Intents
  BY DEF FTypeOK, Finalize, RunFits, RunRow
<1>2. \/ fixtureRun' = [fixtureRun EXCEPT !.cleanup = "PENDING"]
      \/ \E leaked \in BOOLEAN :
           /\ \A n \in Nodes : ~Pending(n)
           /\ leaked \/ \A n \in Nodes : ~Leaked(n)
           /\ fixtureRun' = [fixtureRun EXCEPT
               !.status = IF leaked /\ fixtureRun.intent = "RELEASED" THEN "CLEANUP_FAILED" ELSE fixtureRun.intent,
               !.cleanup = IF leaked THEN "LEAKED" ELSE "CLEANED",
               !.evidence = ~leaked /\ fixtureRun.intent = "RELEASED"]
  BY DEF Finalize
<1>3. lease' \in Binding
  BY DEF Finalize, FTypeOK, Binding
<1>4. fixtureRun' \in RunRow
  BY <1>1, <1>2 DEF RunRow, RunStates, Intents, CleanupStates
<1>5. RunFits'
  <2>1. CASE fixtureRun' = [fixtureRun EXCEPT !.cleanup = "PENDING"]
    BY <1>1, <2>1 DEF RunRow, RunFits, Released, Cancelable, CleanupEvidenceIsTrue
  <2>2. ASSUME NEW leaked \in BOOLEAN,
               \A n \in Nodes : ~Pending(n),
               leaked \/ \A n \in Nodes : ~Leaked(n),
               fixtureRun' = [fixtureRun EXCEPT
                 !.status = IF leaked /\ fixtureRun.intent = "RELEASED" THEN "CLEANUP_FAILED" ELSE fixtureRun.intent,
                 !.cleanup = IF leaked THEN "LEAKED" ELSE "CLEANED",
                 !.evidence = ~leaked /\ fixtureRun.intent = "RELEASED"]
        PROVE  RunFits'
    <3>1. CleanupEvidenceIsTrue'
      <4> SUFFICES ASSUME ~leaked, fixtureRun.intent = "RELEASED", NEW n \in Nodes
                   PROVE  real[n] # "EXISTS"
        BY <1>1, <2>2 DEF CleanupEvidenceIsTrue, RunRow
      <4>1. ResourceFits(n) /\ node[n].status = "SUCCEEDED" /\ resource[n] \in ResourceRow
        BY DEF LedgerRowsFit, RunFits, Released, FTypeOK
      <4>2. resource[n].status = "CLEANED"
        BY <2>2, <4>1 DEF ResourceFits, Prepared, Recorded, Pending, Leaked, ResourceRow
      <4> QED
        BY <4>1, <4>2 DEF ResourceFits
    <3> QED
      BY <1>1, <2>2, <3>1 DEF RunRow, RunFits, Released, Cancelable, Intents
  <2> QED
    BY <1>2, <2>1, <2>2
<1> QED
  BY <1>3, <1>4, <1>5, FxLedgerKept DEF FTypeOK

LEMMA FxFinalizes ==
  ASSUME LedgerFits, SweepFinalizes \/ FlowFinalizes
  PROVE  LedgerFits'
<1>1. /\ UNCHANGED <<node, resource, real, exec, recon, cleaning, faults, retries>>
      /\ flow' \in FlowRow /\ flow'.cancel = flow.cancel
      /\ Finalize \/ UNCHANGED <<fixtureRun, lease>>
  BY DEF SweepFinalizes, FlowFinalizes, Failed, workers, budget, LedgerFits, FTypeOK, FlowRow
<1>2. CASE Finalize
  BY <1>1, <1>2, FxFinalize
<1>3. CASE UNCHANGED <<fixtureRun, lease>>
  BY <1>1, <1>3, FxFlowMoves DEF LedgerFits, FTypeOK
<1> QED
  BY <1>1, <1>2, <1>3

\* A retry grants every resource that is stuck another claim.
LEMMA FxRetryCleanup ==
  ASSUME LedgerFits, RetryCleanup
  PROVE  LedgerFits'
<1> USE DEF LedgerFits
<1>1. /\ UNCHANGED <<node, real, exec, recon, cleaning, flow, lease, faults>>
      /\ retries' = retries + 1 /\ retries' \in 0..MaxRetries
      /\ fixtureRun' = [fixtureRun EXCEPT !.cleanup = "RUNNING"]
  BY FxBounds DEF RetryCleanup, workers, FTypeOK
<1>2. ASSUME NEW n \in Nodes
      PROVE  /\ resource'[n] \in ResourceRow
             /\ resource'[n].gen = resource[n].gen
             /\ resource'[n].status =
                  IF resource[n].status \in {"LEAKED", "BLOCKED_BY_CHILD", "ORPHAN_SUSPECTED"}
                  THEN "CLEANUP_PENDING" ELSE resource[n].status
  BY DEF RetryCleanup, FTypeOK, ResourceRow, ResourceStates
<1>3. FTypeOK'
  <2>1. resource' \in [Nodes -> ResourceRow]
    BY <1>2 DEF RetryCleanup
  <2>2. fixtureRun' \in RunRow
    BY <1>1 DEF FTypeOK, RunRow, CleanupStates
  <2> QED
    BY <1>1, <2>1, <2>2 DEF FTypeOK
<1>4. LedgerRowsFit'
  <2> SUFFICES ASSUME NEW n \in Nodes
               PROVE  AttemptFits(n)' /\ ResourceFits(n)' /\ ClaimsFit(n)'
    BY DEF LedgerRowsFit
  <2>1. AttemptFits(n)'
    BY <1>1 DEF LedgerRowsFit, AttemptFits
  <2>2. ResourceFits(n)'
    BY <1>1, <1>2 DEF LedgerRowsFit, ResourceFits, Unmade, Prepared, Recorded
  <2>3. ClaimsFit(n)'
    BY <1>1, <1>2, FxGen, FxBounds DEF LedgerRowsFit, ClaimsFit, Due
  <2> QED
    BY <2>1, <2>2, <2>3
<1>5. ReconcilersFit'
  BY <1>1 DEF ReconcilersFit, Claimed
<1>6. CleanersFit'
  BY <1>1, <1>2 DEF CleanersFit, FTypeOK, CleanupAttempt
<1>7. RunFits'
  BY <1>1 DEF FTypeOK, RunRow, RunFits, Released, Cancelable, CleanupEvidenceIsTrue
<1> QED
  BY <1>3, <1>4, <1>5, <1>6, <1>7

LEMMA FxInit ==
  ASSUME FInit
  PROVE  LedgerFits
<1> USE FxBounds DEF FInit
<1>1. FTypeOK
  BY DEF FTypeOK, RunRow, RunStates, Intents, CleanupStates, NodeRow, NodeStates, ReconcileStates,
         ResourceRow, ResourceStates, Attempt, Binding
<1>2. LedgerRowsFit
  BY DEF LedgerRowsFit, AttemptFits, ResourceFits, ClaimsFit, Unmade, Prepared, Recorded, Due
<1>3. ReconcilersFit /\ CleanersFit /\ RunFits
  BY DEF ReconcilersFit, CleanersFit, RunFits, Released, Cancelable, CleanupEvidenceIsTrue
<1> QED
  BY <1>1, <1>2, <1>3 DEF LedgerFits

\* Every step of the nodes, of the workers, of the sweep and of the workflow.
LEMMA FxStep ==
  ASSUME LedgerFits, [FNext]_fixtureVars
  PROVE  LedgerFits'
<1>1. CASE UNCHANGED fixtureVars
  BY <1>1 DEF fixtureVars, LedgerFits, FTypeOK, LedgerRowsFit, AttemptFits, ResourceFits, ClaimsFit, Unmade,
              Prepared, Recorded, Due, ReconcilersFit, CleanersFit, Claimed, RunFits, Released,
              Cancelable, CleanupEvidenceIsTrue
<1>2. ASSUME NEW n \in Nodes, Execution(n)
      PROVE  LedgerFits'
  BY <1>2, FxClaimNode, FxCreate, FxRecordProviderOutcome, FxExecutionEnds DEF Execution
<1>3. ASSUME NEW n \in Nodes, QueueExpired(n) \/ Recovery(n)
      PROVE  LedgerFits'
  BY <1>3, FxQueueExpired, FxRecoverReconcileClaim, FxRecoverCleanupClaim DEF Recovery
<1>4. ASSUME NEW n \in Nodes, NEW by \in {"FLOW", "SWEEP"}, ClaimReconcile(n, by) \/ Cleanup(n, by)
      PROVE  LedgerFits'
  BY <1>4, FxClaimReconcile, FxBlockCleanup, FxClaimCleanup DEF Cleanup
<1>5. ASSUME NEW w \in recon, Reconciliation(w)
      PROVE  LedgerFits'
  BY <1>5, FxReconcile, FxReconcileSettles, FxDropsFound, FxRecordReconcileFound DEF Reconciliation
<1>6. ASSUME NEW w \in cleaning, Deletion(w)
      PROVE  LedgerFits'
  BY <1>6, FxDelete, FxFinishCleanup DEF Deletion
<1>7. CASE Workflow
  BY <1>7, FxTurnsToCleanup, FxFlowReady, FxFinalizes, FxOrphanCannotBlock DEF Workflow
<1>8. CASE Cancel \/ SweepCanceled \/ RetryCleanup \/ SweepFinalizes \/ LoseLease
           \/ ActivityTimesOut \/ WorkerDies
  BY <1>8, FxCancel, FxTurnsToCleanup, FxRetryCleanup, FxFinalizes, FxLoseLease, FxTroubles
<1> QED
  BY <1>1, <1>2, <1>3, <1>4, <1>5, <1>6, <1>7, <1>8 DEF FNext

\* What exists at a provider is recorded, or its node has not come to an end.
LEMMA FxLedgerIsTrue ==
  ASSUME CleanupOverrunsOnly, LedgerFits
  PROVE  FInv
<1>1. NothingForgotten
  <2> SUFFICES ASSUME NEW n \in Nodes, real[n] = "EXISTS"
               PROVE  Uncleaned(n) \/ node[n].status \in {"RUNNING", "OUTCOME_UNCERTAIN"}
    BY DEF NothingForgotten
  <2>1. AttemptFits(n) /\ ResourceFits(n) /\ node[n] \in NodeRow
    BY DEF LedgerFits, LedgerRowsFit, FTypeOK
  <2> QED
    BY <2>1 DEF AttemptFits, ResourceFits, Unmade, Prepared, Recorded, Uncleaned, NodeRow, NodeStates
<1> QED
  BY <1>1 DEF LedgerFits, FInv, RunFits

\* A blueprint is certified to clean up only by a run that left nothing at a provider,
\* whatever its workers outlive: the finalization counts the whole ledger.
THEOREM CertificatesAreTrue == FSpec => []CleanupEvidenceIsTrue
<1>1. FInit => LedgerFits
  BY FxInit
<1>2. LedgerFits /\ [FNext]_fixtureVars => LedgerFits'
  BY FxStep
<1>3. LedgerFits => CleanupEvidenceIsTrue
  BY DEF LedgerFits, RunFits
<1> QED
  BY <1>1, <1>2, <1>3, PTL DEF FSpec

\* However nodes are claimed, answers lost, reconciled or late, workers killed or slow
\* to clean, cleanups retried and runs cancelled: the ledger of a fixture run loses no
\* resource that exists at a provider, and a certified cleanup left none.
THEOREM LedgerIsTrue == CleanupOverrunsOnly => (FSpec => []FInv)
<1> SUFFICES ASSUME CleanupOverrunsOnly
             PROVE  FSpec => []FInv
  OBVIOUS
<1>1. FInit => LedgerFits
  BY FxInit
<1>2. LedgerFits /\ [FNext]_fixtureVars => LedgerFits'
  BY FxStep
<1>3. LedgerFits => FInv
  BY FxLedgerIsTrue
<1> QED
  BY <1>1, <1>2, <1>3, PTL DEF FSpec

-----------------------------------------------------------------------------
(* Fixture runs: the guards of the tables *)

RunAdmits == /\ Moved(fixtureRun.status, fixtureRun'.status, RunMoves)
             /\ fixtureRun.intent # "NONE" => fixtureRun'.intent = fixtureRun.intent

NodeAdmits(n) == /\ Moved(node[n].status, node'[n].status, NodeMoves)
                 /\ Moved(node[n].reconcile, node'[n].reconcile, ReconcileMoves)
                 /\ node'[n].attempts \in {node[n].attempts, node[n].attempts + 1}

ResourceAdmits(n) == /\ Moved(resource[n].status, resource'[n].status, ResourceMoves)
                     /\ resource'[n].gen \in {resource[n].gen, resource[n].gen + 1}

Admits == RunAdmits /\ \A n \in Nodes : NodeAdmits(n) /\ ResourceAdmits(n)

\* The moves a step makes, out of those the tables admit.
LEMMA FxRunMoves ==
  /\ <<"REQUESTED", "RUNNING">> \in RunMoves /\ <<"RUNNING", "READY">> \in RunMoves
  /\ \A s \in Cancelable : <<s, "CLEANING">> \in RunMoves
  /\ \A s \in Intents \cup {"CLEANUP_FAILED"} : <<"CLEANING", s>> \in RunMoves
BY DEF RunMoves, Cancelable, Intents

LEMMA FxNodeMoves ==
  /\ \A s \in {"PENDING", "READY"} : \A t \in {"RUNNING", "FAILED"} : <<s, t>> \in NodeMoves
  /\ \A t \in {"VERIFYING", "FAILED", "OUTCOME_UNCERTAIN"} : <<"RUNNING", t>> \in NodeMoves
  /\ \A t \in {"SUCCEEDED", "FAILED"} : <<"VERIFYING", t>> \in NodeMoves
  /\ \A t \in {"READY", "VERIFYING", "FAILED"} : <<"OUTCOME_UNCERTAIN", t>> \in NodeMoves
BY DEF NodeMoves

LEMMA FxReconcileMoves ==
  /\ \A s \in {"NOT_REQUIRED", "ABSENT"} : <<s, "PENDING">> \in ReconcileMoves
  /\ \A s \in {"PENDING", "INCONCLUSIVE"} : <<s, "RUNNING">> \in ReconcileMoves
  /\ \A t \in {"FOUND", "ABSENT", "INCONCLUSIVE", "EXHAUSTED"} : <<"RUNNING", t>> \in ReconcileMoves
BY DEF ReconcileMoves

LEMMA FxResourceMove ==
  /\ \A t \in {"ACTIVE", "ORPHAN_SUSPECTED"} : <<"NONE", t>> \in ResourceMoves
  /\ \A t \in {"CLEANUP_PENDING", "ORPHAN_SUSPECTED"} : <<"ACTIVE", t>> \in ResourceMoves
  /\ \A t \in {"CLEANING", "BLOCKED_BY_CHILD", "LEAKED"} : <<"CLEANUP_PENDING", t>> \in ResourceMoves
  /\ \A t \in {"CLEANUP_PENDING", "CLEANED", "LEAKED"} : <<"CLEANING", t>> \in ResourceMoves
  /\ \A s \in {"BLOCKED_BY_CHILD", "LEAKED", "ORPHAN_SUSPECTED"} : <<s, "CLEANUP_PENDING">> \in ResourceMoves
  /\ \A t \in {"CLEANING", "LEAKED"} : <<"ORPHAN_SUSPECTED", t>> \in ResourceMoves
BY DEF ResourceMoves

\* Steps that leave a row alone.
LEMMA FxStays ==
  /\ UNCHANGED fixtureRun => RunAdmits
  /\ \A n \in Nodes : UNCHANGED node => NodeAdmits(n)
  /\ \A n \in Nodes : UNCHANGED resource => ResourceAdmits(n)
BY DEF RunAdmits, NodeAdmits, ResourceAdmits, Moved

\* The execution of a node.
LEMMA FxExecutionAdmitted ==
  ASSUME LedgerFits, NEW n \in Nodes, Execution(n)
  PROVE  Admits
<1>1. /\ AttemptFits(n) /\ ResourceFits(n) /\ node[n] \in NodeRow /\ resource[n] \in ResourceRow
      /\ node \in [Nodes -> NodeRow] /\ resource \in [Nodes -> ResourceRow] /\ fixtureRun \in RunRow
  BY DEF LedgerFits, LedgerRowsFit, FTypeOK
<1>2. RunAdmits
  BY <1>1, FxRunMoves DEF Execution, ClaimNode, Create, RecordProviderOutcome, OutcomeIsUncertain,
       NodeFails, NodeSucceeds, ledger, RunAdmits, Moved, RunRow
<1>3. \A m \in Nodes : NodeAdmits(m)
  <2>1. CASE ClaimNode(n)
    <3>1. /\ \A m \in Nodes : m # n => node'[m] = node[m]
          /\ node[n].status \in {"PENDING", "READY"}
          /\ \/ node'[n] = [node[n] EXCEPT !.status = "RUNNING", !.attempts = node[n].attempts + 1]
             \/ node'[n] = [node[n] EXCEPT !.status = "FAILED"]
      BY <1>1, <2>1 DEF ClaimNode
    <3>2. NodeAdmits(n)
      BY <1>1, <3>1, FxNodeMoves DEF NodeAdmits, Moved, NodeRow
    <3> QED
      BY <3>1, <3>2 DEF NodeAdmits, Moved
  <2>2. CASE Create(n)
    BY <2>2, FxStays DEF Create, ledger
  <2>3. CASE RecordProviderOutcome(n)
    BY <1>1, <2>3, FxNodeMoves DEF RecordProviderOutcome, NodeAdmits, Moved, NodeRow
  <2>4. CASE OutcomeIsUncertain(n)
    BY <1>1, <2>4, FxNodeMoves, FxReconcileMoves
       DEF OutcomeIsUncertain, Uncertain, AttemptFits, NodeAdmits, Moved, NodeRow
  <2>5. CASE NodeFails(n) \/ NodeSucceeds(n)
    <3>1. /\ \A m \in Nodes : m # n => node'[m] = node[m]
          /\ \/ node[n].status \in {"RUNNING", "VERIFYING"} /\ node'[n] = [node[n] EXCEPT !.status = "FAILED"]
             \/ node[n].status = "VERIFYING" /\ node'[n] = [node[n] EXCEPT !.status = "SUCCEEDED"]
      BY <1>1, <2>5 DEF NodeFails, NodeSucceeds, AttemptFits
    <3>2. NodeAdmits(n)
      BY <1>1, <3>1, FxNodeMoves DEF NodeAdmits, Moved, NodeRow
    <3> QED
      BY <3>1, <3>2 DEF NodeAdmits, Moved
  <2> QED
    BY <2>1, <2>2, <2>3, <2>4, <2>5 DEF Execution
<1>4. \A m \in Nodes : ResourceAdmits(m)
  <2>1. CASE UNCHANGED resource
    BY <2>1, FxStays
  <2>2. CASE RecordProviderOutcome(n)
    <3>1. resource[n].status = "NONE"
      BY <1>1, <2>2 DEF RecordProviderOutcome, ResourceFits, Unmade, Recorded
    <3> QED
      BY <1>1, <2>2, <3>1, FxResourceMove DEF RecordProviderOutcome, ResourceAdmits, Moved, ResourceRow
  <2> QED
    BY <2>1, <2>2 DEF Execution, ClaimNode, Create, OutcomeIsUncertain, NodeFails, NodeSucceeds, ledger
<1> QED
  BY <1>2, <1>3, <1>4 DEF Admits

\* The reconciliation of a node.
LEMMA FxReconciliationAdmitted ==
  ASSUME LedgerFits, NEW n \in Nodes, 
         \/ RecoverReconcileClaim(n)
         \/ \E by \in {"FLOW", "SWEEP"} : ClaimReconcile(n, by)
         \/ \E w \in recon : w.node = n /\ Reconciliation(w)
  PROVE  Admits
<1>1. /\ AttemptFits(n) /\ ResourceFits(n) /\ node[n] \in NodeRow /\ resource[n] \in ResourceRow
      /\ node \in [Nodes -> NodeRow] /\ resource \in [Nodes -> ResourceRow]
  BY DEF LedgerFits, LedgerRowsFit, FTypeOK
<1>2. RunAdmits
  BY FxStays DEF RecoverReconcileClaim, ClaimReconcile, Reconciliation, Reconcile, FinishReconcileAbsent,
       FinishReconcileInconclusive, RecordReconcileFound, FinishReconciled, ledger
<1>3. \A m \in Nodes : NodeAdmits(m)
  <2>1. CASE RecoverReconcileClaim(n)
    BY <1>1, <2>1, FxReconcileMoves DEF RecoverReconcileClaim, Claimed, NodeAdmits, Moved, NodeRow
  <2>2. CASE \E by \in {"FLOW", "SWEEP"} : ClaimReconcile(n, by)
    BY <1>1, <2>2, FxReconcileMoves DEF ClaimReconcile, NodeAdmits, Moved, NodeRow
  <2>3. ASSUME NEW w \in recon, w.node = n, Reconciliation(w)
        PROVE  \A m \in Nodes : NodeAdmits(m)
    <3>1. CASE Reconcile(w)
      BY <3>1, FxStays DEF Reconcile, ledger
    <3>2. CASE FinishReconcileAbsent(w)
      BY <1>1, <2>3, <3>2, FxNodeMoves, FxReconcileMoves
         DEF FinishReconcileAbsent, AfterAbsent, Claimed, NodeAdmits, Moved, NodeRow
    <3>3. CASE FinishReconcileInconclusive(w)
      BY <1>1, <2>3, <3>3, FxReconcileMoves
         DEF FinishReconcileInconclusive, AfterInconclusive, Claimed, NodeAdmits, Moved, NodeRow
    <3>4. CASE RecordReconcileFound(w)
      BY <1>1, <2>3, <3>4, FxNodeMoves, FxReconcileMoves
         DEF RecordReconcileFound, Claimed, NodeAdmits, Moved, NodeRow
    <3>5. CASE FinishReconciled(w)
      <4>1. node[n].status = "VERIFYING"
        BY <2>3, <3>5 DEF FinishReconciled, LedgerFits, ReconcilersFit
      <4> QED
        BY <1>1, <2>3, <3>5, <4>1, FxNodeMoves DEF FinishReconciled, NodeAdmits, Moved, NodeRow
    <3> QED
      BY <2>3, <3>1, <3>2, <3>3, <3>4, <3>5 DEF Reconciliation
  <2> QED
    BY <2>1, <2>2, <2>3
<1>4. \A m \in Nodes : ResourceAdmits(m)
  <2>1. CASE UNCHANGED resource
    BY <2>1, FxStays
  <2>2. ASSUME NEW w \in recon, w.node = n, RecordReconcileFound(w), Claimed(n)
        PROVE  \A m \in Nodes : ResourceAdmits(m)
    <3>1. resource[n].status = "NONE" /\ FoundAs \in {"ACTIVE", "ORPHAN_SUSPECTED"}
      BY <1>1, <2>2 DEF Claimed, ResourceFits, Unmade, Recorded, FoundAs
    <3>2. resource' = [resource EXCEPT ![n].status = FoundAs]
      BY <2>2 DEF RecordReconcileFound
    <3> QED
      BY <1>1, <3>1, <3>2, FxResourceMove DEF ResourceAdmits, Moved, ResourceRow
  <2> QED
    BY <2>1, <2>2 DEF RecoverReconcileClaim, ClaimReconcile, Reconciliation, Reconcile,
         FinishReconcileAbsent, FinishReconcileInconclusive, RecordReconcileFound, FinishReconciled, ledger
<1> QED
  BY <1>2, <1>3, <1>4 DEF Admits

\* The removal of a resource.
LEMMA FxCleanupAdmitted ==
  ASSUME LedgerFits, NEW n \in Nodes,
         \/ QueueExpired(n) \/ RecoverCleanupClaim(n)
         \/ \E by \in {"FLOW", "SWEEP"} : Cleanup(n, by)
         \/ \E w \in cleaning : w.node = n /\ Deletion(w)
  PROVE  Admits
<1>1. resource[n] \in ResourceRow /\ resource \in [Nodes -> ResourceRow]
  BY DEF LedgerFits, FTypeOK
<1>2. UNCHANGED <<fixtureRun, node>>
  BY DEF QueueExpired, RecoverCleanupClaim, Cleanup, BlockCleanup, ClaimCleanup, Deletion, Delete,
       FinishCleanup, ledger
<1>3. \A m \in Nodes : ResourceAdmits(m)
  <2>1. CASE QueueExpired(n)
    BY <1>1, <2>1, FxResourceMove DEF QueueExpired, ResourceAdmits, Moved, ResourceRow
  <2>2. CASE RecoverCleanupClaim(n)
    BY <1>1, <2>2, FxResourceMove DEF RecoverCleanupClaim, Recovered, ResourceAdmits, Moved, ResourceRow
  <2>3. ASSUME NEW by \in {"FLOW", "SWEEP"}, BlockCleanup(n, by)
        PROVE  \A m \in Nodes : ResourceAdmits(m)
    BY <1>1, <2>3, FxResourceMove DEF BlockCleanup, Due, ResourceAdmits, Moved, ResourceRow
  <2>4. ASSUME NEW by \in {"FLOW", "SWEEP"}, ClaimCleanup(n, by)
        PROVE  \A m \in Nodes : ResourceAdmits(m)
    BY <1>1, <2>4, FxResourceMove DEF ClaimCleanup, Claimable, ResourceAdmits, Moved, ResourceRow
  <2>5. ASSUME NEW w \in cleaning, w.node = n, Deletion(w)
        PROVE  \A m \in Nodes : ResourceAdmits(m)
    <3>1. CASE Delete(w)
      BY <3>1, FxStays DEF Delete, ledger
    <3>2. CASE FinishCleanup(w)
      BY <1>1, <2>5, <3>2, FxResourceMove
         DEF FinishCleanup, HoldsClaim, AfterDelete, ResourceAdmits, Moved, ResourceRow
    <3> QED
      BY <2>5, <3>1, <3>2 DEF Deletion
  <2> QED
    BY <2>1, <2>2, <2>3, <2>4, <2>5 DEF Cleanup
<1> QED
  BY <1>2, <1>3, FxStays DEF Admits

\* The run turns to its cleanup.
LEMMA FxBeginAdmitted ==
  ASSUME LedgerFits, NEW intent \in Intents, NEW from \in SUBSET Cancelable,
         BeginCleanup(intent, from), UNCHANGED node
  PROVE  Admits
<1>1. resource \in [Nodes -> ResourceRow] /\ fixtureRun \in RunRow
  BY DEF LedgerFits, FTypeOK
<1>2. RunAdmits
  BY <1>1, FxRunMoves DEF BeginCleanup, LedgerFits, RunFits, RunAdmits, Moved, RunRow
<1>3. \A m \in Nodes : ResourceAdmits(m)
  <2> SUFFICES ASSUME NEW m \in Nodes
               PROVE  ResourceAdmits(m)
    OBVIOUS
  <2>1. \/ resource'[m] = resource[m]
        \/ resource[m].status = "ACTIVE" /\ resource'[m] = [resource[m] EXCEPT !.status = "CLEANUP_PENDING"]
    BY DEF BeginCleanup, Queued
  <2>2. resource[m] \in ResourceRow
    BY <1>1
  <2> QED
    BY <2>1, <2>2, FxResourceMove DEF ResourceAdmits, Moved, ResourceRow
<1> QED
  BY <1>2, <1>3, FxStays DEF Admits

\* The rest of the workflow, of the sweep and of the users' calls.
LEMMA FxRunAdmitted ==
  ASSUME LedgerFits, FlowReady \/ Cancel \/ RetryCleanup \/ SweepFinalizes \/ FlowFinalizes
  PROVE  Admits
<1>1. fixtureRun \in RunRow /\ resource \in [Nodes -> ResourceRow] /\ UNCHANGED node
  BY DEF LedgerFits, FTypeOK, FlowReady, Cancel, RetryCleanup, SweepFinalizes, FlowFinalizes
<1>2. RunAdmits
  <2>1. CASE FlowReady
    BY <1>1, <2>1, FxRunMoves DEF FlowReady, RunAdmits, Moved, RunRow
  <2>2. CASE Cancel \/ RetryCleanup
    BY <1>1, <2>2 DEF Cancel, RetryCleanup, RunAdmits, Moved, RunRow
  <2>3. CASE Finalize
    <3>1. fixtureRun.status = "CLEANING" /\ fixtureRun.intent \in Intents
      BY <1>1, <2>3 DEF LedgerFits, Finalize, RunFits, RunRow
    <3> QED
      BY <1>1, <2>3, <3>1, FxRunMoves DEF Finalize, RunAdmits, Moved, RunRow
  <2>4. CASE UNCHANGED fixtureRun
    BY <2>4, FxStays
  <2> QED
    BY <2>1, <2>2, <2>3, <2>4 DEF SweepFinalizes, FlowFinalizes
<1>3. \A m \in Nodes : ResourceAdmits(m)
  <2>1. CASE UNCHANGED resource
    BY <2>1, FxStays
  <2>2. CASE RetryCleanup
    BY <1>1, <2>2, FxResourceMove DEF RetryCleanup, ResourceAdmits, Moved, ResourceRow
  <2> QED
    BY <2>1, <2>2 DEF FlowReady, Cancel, SweepFinalizes, FlowFinalizes
<1> QED
  BY <1>1, <1>2, <1>3, FxStays DEF Admits

LEMMA FxAdmitted ==
  ASSUME LedgerFits, [FNext]_fixtureVars
  PROVE  Admits
<1>1. CASE UNCHANGED ledger
  BY <1>1, FxStays DEF Admits, ledger
<1>2. ASSUME NEW n \in Nodes, Execution(n)
      PROVE  Admits
  BY <1>2, FxExecutionAdmitted
<1>3. ASSUME NEW n \in Nodes, QueueExpired(n) \/ Recovery(n)
      PROVE  Admits
  BY <1>3, FxReconciliationAdmitted, FxCleanupAdmitted DEF Recovery
<1>4. ASSUME NEW n \in Nodes, NEW by \in {"FLOW", "SWEEP"}, ClaimReconcile(n, by) \/ Cleanup(n, by)
      PROVE  Admits
  BY <1>4, FxReconciliationAdmitted, FxCleanupAdmitted
<1>5. ASSUME NEW w \in recon, Reconciliation(w)
      PROVE  Admits
  <2>1. w.node \in Nodes
    BY DEF LedgerFits, FTypeOK, ReconcileAttempt
  <2> QED
    BY <1>5, <2>1, FxReconciliationAdmitted
<1>6. ASSUME NEW w \in cleaning, Deletion(w)
      PROVE  Admits
  <2>1. w.node \in Nodes
    BY DEF LedgerFits, FTypeOK, CleanupAttempt
  <2> QED
    BY <1>6, <2>1, FxCleanupAdmitted
<1>7. /\ Cancelable \in SUBSET Cancelable /\ {"REQUESTED", "RUNNING"} \in SUBSET Cancelable
      /\ {"READY"} \in SUBSET Cancelable
      /\ {"CANCELED", "FAILED", "RELEASED"} \subseteq Intents
  BY DEF Cancelable, Intents
<1>8. CASE SweepCanceled \/ FlowGivesUp \/ FlowCancels \/ FlowReleases
  <2>1. UNCHANGED node
    BY <1>8 DEF SweepCanceled, FlowGivesUp, FlowCancels, FlowReleases
  <2>2. \/ BeginCleanup("CANCELED", Cancelable)
        \/ BeginCleanup("FAILED", {"REQUESTED", "RUNNING"})
        \/ BeginCleanup("RELEASED", {"READY"})
    BY <1>8 DEF SweepCanceled, FlowGivesUp, FlowCancels, FlowReleases
  <2> QED
    BY <1>7, <2>1, <2>2, FxBeginAdmitted
<1>9. CASE FlowReady \/ Cancel \/ RetryCleanup \/ SweepFinalizes \/ FlowFinalizes
  BY <1>9, FxRunAdmitted
<1>10. CASE LoseLease \/ ActivityTimesOut \/ WorkerDies
  BY <1>1, <1>10 DEF LoseLease, ActivityTimesOut, WorkerDies
<1>11. ASSUME NEW n \in Nodes, OrphanCannotBlock(n) \/ NothingToClean(n)
       PROVE  Admits
  BY <1>1, <1>11 DEF OrphanCannotBlock, NothingToClean
<1>12. CASE UNCHANGED fixtureVars
  BY <1>1, <1>12 DEF fixtureVars, ledger
<1> QED
  BY <1>2, <1>3, <1>4, <1>5, <1>6, <1>8, <1>9, <1>10, <1>11, <1>12 DEF FNext, Workflow

\* In any interleaving of workers, sweeps, recoveries and late answers no transaction
\* makes a move the triggers of the tables refuse.
THEOREM TransactionsAreAdmitted == FSpec => GuardsAdmit
<1>1. FInit => LedgerFits
  BY FxInit
<1>2. LedgerFits /\ [FNext]_fixtureVars => LedgerFits'
  BY FxStep
<1>3. LedgerFits /\ [FNext]_fixtureVars => Admits
  BY FxAdmitted
<1>4. Admits => 
     [/\ Moved(fixtureRun.status, fixtureRun'.status, RunMoves)
      /\ fixtureRun.intent # "NONE" => fixtureRun'.intent = fixtureRun.intent
      /\ \A n \in Nodes :
          /\ Moved(node[n].status, node'[n].status, NodeMoves)
          /\ Moved(node[n].reconcile, node'[n].reconcile, ReconcileMoves)
          /\ node'[n].attempts \in {node[n].attempts, node[n].attempts + 1}
          /\ Moved(resource[n].status, resource'[n].status, ResourceMoves)
          /\ resource'[n].gen \in {resource[n].gen, resource[n].gen + 1}]_ledger
  BY DEF Admits, RunAdmits, NodeAdmits, ResourceAdmits
<1> QED
  BY <1>1, <1>2, <1>3, <1>4, PTL DEF FSpec, GuardsAdmit

-----------------------------------------------------------------------------
(* Fixture runs: the order of the removals *)

\* A step that removes nothing, and neither prepares the run nor puts a
\* resource up for its cleanup too early, keeps the order.
LEMMA FxOrderKept ==
  ASSUME InOrder, UNCHANGED real, cleaning' \subseteq cleaning,
         ~fixtureRun'.cancel => ~fixtureRun.cancel,
         Preparing' => Preparing, Released' => Released,
         Preparing' /\ ~fixtureRun'.cancel => \A n \in Nodes : resource'[n].status \in {"NONE", "ACTIVE"}
  PROVE  InOrder'
BY DEF InOrder

\* Steps of executions and reconciliations that leave the resources alone.
LEMMA FxOrderOfNodes ==
  ASSUME LedgerFits, InOrder, UNCHANGED <<resource, real, cleaning>>,
         \/ UNCHANGED fixtureRun
         \/ fixtureRun' = [fixtureRun EXCEPT !.status = IF @ = "REQUESTED" THEN "RUNNING" ELSE @]
         \/ fixtureRun' = [fixtureRun EXCEPT !.cancel = TRUE]
  PROVE  InOrder'
<1>1. fixtureRun \in RunRow
  BY DEF LedgerFits, FTypeOK
<1>2. /\ ~fixtureRun'.cancel => ~fixtureRun.cancel
      /\ Preparing' => Preparing
      /\ Released' => Released
  BY <1>1 DEF RunRow, Preparing, Released
<1>3. Preparing' /\ ~fixtureRun'.cancel => \A n \in Nodes : resource'[n].status \in {"NONE", "ACTIVE"}
  BY <1>2 DEF InOrder
<1> QED
  BY <1>2, <1>3, FxOrderKept

\* No node is executed once the run is prepared.
LEMMA FxOrderOfCreation ==
  ASSUME LedgerFits, InOrder, NEW n \in Nodes, Create(n)
  PROVE  InOrder'
<1>1. node[n].status = "RUNNING"
  BY DEF LedgerFits, LedgerRowsFit, AttemptFits, Create
<1>2. ~Released
  BY <1>1 DEF LedgerFits, RunFits
<1>3. UNCHANGED <<fixtureRun, resource, cleaning>>
  BY DEF Create, ledger
<1> QED
  BY <1>2, <1>3 DEF InOrder, Preparing, Released

\* A resource enters the ledger active, or as an orphan of a run given up.
LEMMA FxOrderOfRecords ==
  ASSUME LedgerFits, InOrder, NEW n \in Nodes,
         RecordProviderOutcome(n) \/ \E w \in recon : w.node = n /\ RecordReconcileFound(w)
  PROVE  InOrder'
<1>1. UNCHANGED <<fixtureRun, real, cleaning>>
  BY DEF RecordProviderOutcome, RecordReconcileFound
<1>2. /\ ~fixtureRun'.cancel => ~fixtureRun.cancel
      /\ Preparing' => Preparing
      /\ Released' => Released
  BY <1>1 DEF Preparing, Released
<1>3. ASSUME Preparing, ~fixtureRun.cancel, NEW m \in Nodes
      PROVE  resource'[m].status \in {"NONE", "ACTIVE"}
  <2>1. resource[m].status \in {"NONE", "ACTIVE"} /\ resource \in [Nodes -> ResourceRow]
    BY <1>3 DEF InOrder, LedgerFits, FTypeOK
  <2>2. FoundAs = "ACTIVE"
    BY <1>3 DEF FoundAs
  <2> QED
    BY <2>1, <2>2 DEF RecordProviderOutcome, RecordReconcileFound, ResourceRow
<1> QED
  BY <1>1, <1>2, <1>3, FxOrderKept

\* A claim to remove a resource finds all that hangs on it removed.
LEMMA FxOrderOfClaims ==
  ASSUME LedgerFits, InOrder, NEW n \in Nodes, NEW by \in {"FLOW", "SWEEP"}, ClaimCleanup(n, by)
  PROVE  InOrder'
<1>1. UNCHANGED <<fixtureRun, real>>
  BY DEF ClaimCleanup
<1>2. \A w \in cleaning' : w \in cleaning \/ w.node = n
  BY DEF ClaimCleanup
<1>3. ~(Preparing /\ ~fixtureRun.cancel)
  BY DEF InOrder, ClaimCleanup, Claimable
<1>4. ASSUME Released, NEW c \in Children(n)
      PROVE  real[c] # "EXISTS"
  <2>1. c \in Nodes
    BY DEF Children
  <2>2. ResourceFits(c) /\ node[c].status = "SUCCEEDED" /\ ~Uncleaned(c)
    BY <1>4, <2>1 DEF LedgerFits, LedgerRowsFit, RunFits, ClaimCleanup, Claimable, HasUncleanedChild
  <2> QED
    BY <2>2 DEF ResourceFits, Prepared, Uncleaned
<1> QED
  BY <1>1, <1>2, <1>3, <1>4 DEF InOrder, Preparing, Released

LEMMA FxOrderOfDeletions ==
  ASSUME LedgerFits, InOrder, NEW w \in cleaning, Delete(w)
  PROVE  InOrder'
<1>1. UNCHANGED <<fixtureRun, resource>>
  BY DEF Delete, ledger
<1>2. ~(Preparing /\ ~fixtureRun.cancel)
  BY DEF InOrder
<1>3. w \in CleanupAttempt /\ w.node \in Nodes /\ real \in [Nodes -> {"ABSENT", "EXISTS", "DELETED"}]
  BY DEF LedgerFits, FTypeOK, CleanupAttempt
<1>4. \A v \in cleaning' : \E u \in cleaning : v.node = u.node
  BY <1>3 DEF Delete, CleanupAttempt
<1>5. /\ \A m \in Nodes : real'[m] = "EXISTS" => real[m] = "EXISTS"
      /\ \A m \in Nodes : real[m] = "EXISTS" /\ m # w.node => real'[m] = "EXISTS"
  BY <1>3 DEF Delete
<1>6. ASSUME Released, ~fixtureRun.cancel
      PROVE  /\ \A c \in Nodes : \A p \in Parents[c] : real'[c] = "EXISTS" => real'[p] = "EXISTS"
             /\ \A v \in cleaning' : \A c \in Children(v.node) : real'[c] # "EXISTS"
  <2>1. /\ \A c \in Nodes : \A p \in Parents[c] : real[c] = "EXISTS" => real[p] = "EXISTS"
        /\ \A v \in cleaning : \A c \in Children(v.node) : real[c] # "EXISTS"
    BY <1>6 DEF InOrder
  <2>2. \A c \in Nodes : \A p \in Parents[c] : real'[c] = "EXISTS" => real'[p] = "EXISTS"
    <3> SUFFICES ASSUME NEW c \in Nodes, NEW p \in Parents[c], real'[c] = "EXISTS"
                 PROVE  real'[p] = "EXISTS"
      OBVIOUS
    <3>1. p \in Nodes
      BY FixtureAssumption
    <3>2. real[c] = "EXISTS" /\ real[p] = "EXISTS"
      BY <1>5, <2>1
    <3>3. p # w.node
      BY <2>1, <3>2 DEF Children
    <3> QED
      BY <1>5, <3>1, <3>2, <3>3
  <2>3. \A v \in cleaning' : \A c \in Children(v.node) : real'[c] # "EXISTS"
    BY <1>4, <1>5, <2>1 DEF Children
  <2> QED
    BY <2>2, <2>3
<1> QED
  BY <1>1, <1>2, <1>6 DEF InOrder, Preparing, Released

\* The other steps of a cleanup; before the run is prepared there is none.
LEMMA FxOrderOfCleanup ==
  ASSUME Expiries # "ANY", LedgerFits, InOrder, NEW n \in Nodes,
         \/ QueueExpired(n) \/ RecoverCleanupClaim(n)
         \/ \E by \in {"FLOW", "SWEEP"} : BlockCleanup(n, by)
         \/ \E w \in cleaning : w.node = n /\ FinishCleanup(w)
  PROVE  InOrder'
<1>1. UNCHANGED <<fixtureRun, real>> /\ cleaning' \subseteq cleaning
  BY DEF QueueExpired, RecoverCleanupClaim, BlockCleanup, FinishCleanup, workers
<1>2. ~(Preparing /\ ~fixtureRun.cancel)
  BY DEF InOrder, QueueExpired, RecoverCleanupClaim, BlockCleanup, Due
<1> QED
  BY <1>1, <1>2, FxOrderKept DEF Preparing, Released

LEMMA FxOrderOfBegin ==
  ASSUME LedgerFits, InOrder, NEW intent \in Intents, NEW from \in SUBSET Cancelable,
         BeginCleanup(intent, from), intent = "RELEASED" => from \subseteq {"READY"},
         UNCHANGED <<real, cleaning>>
  PROVE  InOrder'
<1>1. CASE UNCHANGED <<fixtureRun, resource>>
  BY <1>1, FxOrderOfNodes
<1>2. CASE /\ fixtureRun.status \in from
           /\ fixtureRun' = [fixtureRun EXCEPT !.status = "CLEANING", !.intent = intent, !.cleanup = "RUNNING"]
  <2>1. fixtureRun \in RunRow
    BY DEF LedgerFits, FTypeOK
  <2>2. ~Preparing' /\ (Released' => Released) /\ fixtureRun'.cancel = fixtureRun.cancel
    BY <1>2, <2>1 DEF RunRow, Preparing, Released
  <2> QED
    BY <2>2, FxOrderKept
<1> QED
  BY <1>1, <1>2 DEF BeginCleanup

\* A run is ready with all its resources there.
LEMMA FxOrderOfReady ==
  ASSUME LedgerFits, InOrder, FlowReady
  PROVE  InOrder'
<1>1. UNCHANGED <<resource, real, cleaning>>
  BY DEF FlowReady, workers
<1>2. CASE UNCHANGED fixtureRun
  BY <1>1, <1>2, FxOrderOfNodes
<1>3. CASE fixtureRun.status = "RUNNING" /\ fixtureRun' = [fixtureRun EXCEPT !.status = "READY"]
  <2>1. fixtureRun \in RunRow
    BY DEF LedgerFits, FTypeOK
  <2>2. ~Preparing' /\ fixtureRun'.cancel = fixtureRun.cancel
    BY <1>3, <2>1 DEF RunRow, Preparing
  <2>3. ASSUME ~fixtureRun.cancel
        PROVE  cleaning = {} /\ \A n \in Nodes : real[n] = "EXISTS"
    <3> SUFFICES ASSUME NEW n \in Nodes
                 PROVE  cleaning = {} /\ real[n] = "EXISTS"
      BY <1>3, <2>3 DEF InOrder, Preparing
    <3>1. cleaning = {} /\ resource[n].status \in {"NONE", "ACTIVE"}
      BY <1>3, <2>3 DEF InOrder, Preparing
    <3>2. ResourceFits(n) /\ node[n].status = "SUCCEEDED"
      BY DEF LedgerFits, LedgerRowsFit, FlowReady
    <3> QED
      BY <3>1, <3>2 DEF ResourceFits, Prepared, Recorded
  <2> QED
    BY <1>1, <2>2, <2>3, FixtureAssumption DEF InOrder
<1> QED
  BY <1>2, <1>3 DEF FlowReady

LEMMA FxOrderOfRun ==
  ASSUME LedgerFits, InOrder, RetryCleanup \/ SweepFinalizes \/ FlowFinalizes
  PROVE  InOrder'
<1>1. UNCHANGED <<real, cleaning>>
  BY DEF RetryCleanup, SweepFinalizes, FlowFinalizes, workers
<1>2. fixtureRun \in RunRow
  BY DEF LedgerFits, FTypeOK
<1>3. CASE UNCHANGED <<fixtureRun, resource>>
  BY <1>1, <1>3, FxOrderOfNodes
<1>4. CASE RetryCleanup \/ Finalize
  <2>1. fixtureRun.status = "CLEANING" /\ fixtureRun.intent \in Intents
    BY <1>2, <1>4 DEF LedgerFits, RetryCleanup, Finalize, RunFits, RunRow
  <2>2. ~Preparing' /\ (Released' => Released) /\ fixtureRun'.cancel = fixtureRun.cancel
    BY <1>2, <1>4, <2>1 DEF RetryCleanup, Finalize, RunRow, Preparing, Released, Intents
  <2> QED
    BY <1>1, <2>2, FxOrderKept
<1> QED
  BY <1>3, <1>4 DEF SweepFinalizes, FlowFinalizes

LEMMA FxOrder ==
  ASSUME Expiries # "ANY", LedgerFits, InOrder, [FNext]_fixtureVars
  PROVE  InOrder'
<1>1. CASE UNCHANGED <<fixtureRun, resource, real, cleaning>>
  BY <1>1, FxOrderOfNodes
<1>2. ASSUME NEW n \in Nodes, Execution(n)
      PROVE  InOrder'
  <2>1. CASE ClaimNode(n)
    BY <2>1, FxOrderOfNodes DEF ClaimNode
  <2>2. CASE OutcomeIsUncertain(n) \/ NodeFails(n) \/ NodeSucceeds(n)
    BY <1>1, <2>2 DEF OutcomeIsUncertain, NodeFails, NodeSucceeds
  <2> QED
    BY <1>2, <2>1, <2>2, FxOrderOfCreation, FxOrderOfRecords DEF Execution
<1>3. ASSUME NEW n \in Nodes, QueueExpired(n) \/ Recovery(n)
      PROVE  InOrder'
  <2>1. CASE RecoverReconcileClaim(n)
    BY <1>1, <2>1 DEF RecoverReconcileClaim, workers
  <2> QED
    BY <1>3, <2>1, FxOrderOfCleanup DEF Recovery
<1>4. ASSUME NEW n \in Nodes, NEW by \in {"FLOW", "SWEEP"}, ClaimReconcile(n, by) \/ Cleanup(n, by)
      PROVE  InOrder'
  <2>1. CASE ClaimReconcile(n, by)
    BY <1>1, <2>1 DEF ClaimReconcile
  <2> QED
    BY <1>4, <2>1, FxOrderOfCleanup, FxOrderOfClaims DEF Cleanup
<1>5. ASSUME NEW w \in recon, Reconciliation(w)
      PROVE  InOrder'
  <2>1. w.node \in Nodes
    BY DEF LedgerFits, FTypeOK, ReconcileAttempt
  <2>2. CASE RecordReconcileFound(w)
    BY <2>1, <2>2, FxOrderOfRecords
  <2>3. CASE ~RecordReconcileFound(w)
    BY <1>1, <1>5, <2>3 DEF Reconciliation, Reconcile, FinishReconcileAbsent,
         FinishReconcileInconclusive, FinishReconciled, ledger
  <2> QED
    BY <2>2, <2>3
<1>6. ASSUME NEW w \in cleaning, Deletion(w)
      PROVE  InOrder'
  <2>1. w.node \in Nodes
    BY DEF LedgerFits, FTypeOK, CleanupAttempt
  <2> QED
    BY <1>6, <2>1, FxOrderOfDeletions, FxOrderOfCleanup DEF Deletion
<1>7. CASE SweepCanceled \/ FlowGivesUp \/ FlowCancels \/ FlowReleases
  <2>1. /\ Cancelable \in SUBSET Cancelable /\ {"REQUESTED", "RUNNING"} \in SUBSET Cancelable
        /\ {"READY"} \in SUBSET Cancelable
        /\ {"CANCELED", "FAILED", "RELEASED"} \subseteq Intents
    BY DEF Cancelable, Intents
  <2>2. UNCHANGED <<real, cleaning>>
    BY <1>7 DEF SweepCanceled, FlowGivesUp, FlowCancels, FlowReleases, workers
  <2>3. \/ BeginCleanup("CANCELED", Cancelable)
        \/ BeginCleanup("FAILED", {"REQUESTED", "RUNNING"})
        \/ BeginCleanup("RELEASED", {"READY"})
    BY <1>7 DEF SweepCanceled, FlowGivesUp, FlowCancels, FlowReleases
  <2> QED
    BY <2>1, <2>2, <2>3, FxOrderOfBegin
<1>8. CASE FlowReady \/ RetryCleanup \/ SweepFinalizes \/ FlowFinalizes
  BY <1>8, FxOrderOfReady, FxOrderOfRun
<1>9. CASE Cancel
  BY <1>9, FxOrderOfNodes DEF Cancel, workers
<1>10. CASE LoseLease
  BY <1>1, <1>10 DEF LoseLease, ledger, workers
<1>11. CASE ActivityTimesOut \/ WorkerDies
  <2>1. UNCHANGED <<fixtureRun, resource, real>> /\ cleaning' \subseteq cleaning
    BY <1>11 DEF ActivityTimesOut, WorkerDies, ledger, workers
  <2> QED
    BY <2>1 DEF InOrder, Preparing, Released
<1>12. ASSUME NEW n \in Nodes, OrphanCannotBlock(n) \/ NothingToClean(n)
       PROVE  InOrder'
  BY <1>1, <1>12 DEF OrphanCannotBlock, NothingToClean, ledger, workers
<1>13. CASE UNCHANGED fixtureVars
  BY <1>1, <1>13 DEF fixtureVars
<1> QED
  BY <1>2, <1>3, <1>4, <1>5, <1>6, <1>7, <1>8, <1>9, <1>10, <1>11, <1>12, <1>13 DEF FNext, Workflow

\* A run released without a cancellation removes nothing before what hangs on it, when
\* resources expire after the preparation at the earliest: a claim asks the ledger of
\* the children, and what the ledger calls removed is.
THEOREM ReleaseIsOrdered == Expiries # "ANY" => (FSpec => []ReleaseKeepsOrder)
<1> SUFFICES ASSUME Expiries # "ANY"
             PROVE  FSpec => []ReleaseKeepsOrder
  OBVIOUS
<1>1. FInit => LedgerFits /\ InOrder
  BY FxInit DEF FInit, InOrder, Preparing, Released
<1>2. LedgerFits /\ InOrder /\ [FNext]_fixtureVars => LedgerFits' /\ InOrder'
  BY FxStep, FxOrder
<1>3. InOrder => ReleaseKeepsOrder
  BY DEF InOrder, ReleaseKeepsOrder, Released
<1> QED
  BY <1>1, <1>2, <1>3, PTL DEF FSpec

=============================================================================

# TLA+ specifications of Atlas AI TestOps

Specifications, model-checking configurations and proofs for the backend under
`src/backend/src/atlas_testops`. Paths below are relative to that directory
unless they start with `src/`.

## The system

Atlas runs AI-assisted tests against customer environments. A FastAPI service
and several worker processes share one PostgreSQL database; Temporal drives the
long-running work. Almost every operation is one short transaction that locks
the rows it needs and ends in a compare-and-set on a revision; calls to providers,
browsers and Temporal are made with no transaction open and come back in a
transaction of their own. That split is where the difficulty lies: whatever was
read before the call may have changed when its result is applied, a process may die
in between, and the same work may be picked up twice.

### Inventory

| Part | State it keeps | Operations | Talks to | What makes it correct |
|---|---|---|---|---|
| Identity management (`application/identity.py`) | roles, pools, accounts: lifecycle, health, operational state, lease epoch | create, update, quarantine, restore | revokes leases in the same transaction | nobody holds an account that is no longer fit for use |
| Account leases (`application/leases.py`, `infrastructure/repositories/leases.py`) | `account_lease` rows, account epoch | acquire, heartbeat, release, reap | identity, connectors, platform, grants | one holder per account, latest fence, no renewal of what has run out, nothing dirty handed out again |
| Connectors (`application/connectors.py`) | `connector_installation`, capabilities | create, update, validate (with a probe outside the transaction) | revokes leases, invalidates account health | trust in an account never outlives the configuration it was earned under |
| Account health (`application/account_health.py`) | `account_health_check`, failure counters | verify in three stages, finalize, policy on failures | provider adapters, leases | a result counts only for the snapshot it was taken from |
| Secret grants (`application/credentials.py`) | `secret_grant` | issue, redeem once, login outside the transaction, failure report | leases, health, database triggers | a secret is released once, in time, to the current holder |
| Auth sessions (`application/sessions.py`, `session_janitor.py`) | `session_artifact`, manual tickets | ensure, finalize, expire, clean up | leases, grants, browser workers | one live session per lease, backed by what it was made from; each artifact is destroyed |
| Platform (`application/platform.py`) | tenants, projects, environments | create, update, disable | revokes leases | as identity |
| Fixture runs (`application/fixture_runs.py`, `orchestration/fixtures.py`) | runs, nodes, resource ledger, attempts | execute, reconcile, release, clean up, sweep | provider operations, leases | what was created is known and is removed in reverse order, or reported as leaked |
| Task launches, plans, reruns (`application/task_launches.py`, ...) | sealed runs, units, attempts | launch, rerun | idempotency, start intents | one run per request |
| Start intents (`application/task_intents.py`) | `task_workflow_start_intent` | claim, deliver, retry, fail | Temporal | each run's workflow is started, once |
| Task run commands (`application/task_commands.py`) | `task_run_command_intent` | accept, deliver, apply, supersede | Temporal signals, workflow | PAUSE, RESUME and CANCEL take effect in the accepted order |
| Task orchestration (`orchestration/tasks.py`, `application/task_orchestration.py`) | run, unit and attempt states, events | prepare, begin, execute, settle, finish, retry | commands, execution workers, results | every unit closes once, with the outcome of its last attempt |
| Materialization (`application/task_materialization.py`) | partitions of a run | claim, materialize, retry, fail | start intents | a run starts only when all its units exist |
| Schedules (`application/task_schedules.py`, `task_schedule_sync.py`) | schedules, sync intents, fires | define, synchronize, fire | Temporal schedules, launches | Temporal ends with the newest definition; a fire launches once |
| Results and gates (`application/result_*.py`) | sealed attempts, projection, gate decisions | seal, hygiene, project, evaluate, classify | orchestration, callbacks | a gate follows from sealed facts only |
| Gate callbacks (`application/result_callback_delivery.py`) | `task_gate_callback_intent` | claim, deliver, retry, fail | customer endpoint | at-least-once, bounded, never after success |
| Live control (`application/live_control.py`) | control epochs, leases, action grants | pause, take over, return, grant, consume | browser runtime | one actor at a time; an action only under the epoch it was granted in |
| Debug runs and browser runtime (`application/debug_*.py`, `browser_execution.py`) | debug runs, execution tickets | prepare, execute, finish | fixtures, sessions, live control | as the task run, for one case |
| Cases, compiler, validator (`application/cases.py`, `domain/case`, `domain/workflow`) | drafts, versions | edit, publish, compile | - | a published version is valid and immutable |
| Idempotency, outbox, audit (`infrastructure/`) | records | reserve, complete, append | all services | a retry repeats the answer, not the effect |
| API, configuration, evidence store, insights, frontend | - | I/O | - | not state machines; not modelled |

## Modules

| Module | Models | Uses |
|---|---|---|
| `FencedLease` | what the lease service promises: a holder and a fence per account | |
| `AccountLease` | leases, and every management command that takes an account away from its holder | |
| `AccountHealth` | verification in three stages and the failure policy | `AccountLease` |
| `SecretGrant` | grants, redemption, logins and their late failures | `AccountHealth` |
| `AuthSession` | login sessions of a lease, their tickets, their encrypted artifacts and the janitor | |
| `ClaimedDelivery` | what every delivery queue of the database promises: each claim a revision, no outcome by anyone but the latest claimant, no way back from a final state | |
| `StartIntent` | the intent to start a run's workflow, its dispatchers and the workflows that Temporal admits under the run's id | `ClaimedDelivery` |
| `TaskLaunch` | the launch of a run under idempotency keys, its materialization by partitions and its seal, composed with the intent | `StartIntent`, `ClaimedDelivery` |
| `TaskSchedule` | schedules, their synchronization with Temporal, and the fires that launch runs | `ClaimedDelivery` |
| `RunCommand` | the run row, its PAUSE, RESUME and CANCEL commands and their delivery as signals | |
| `RunRoot` | the root workflow of a run and the transactions of its activities, composed with the commands | `RunCommand` |
| `TaskUnit` | the units and attempts of a run, their child workflows and executors, up to the finish | |
| `FixtureRun` | the resources of a fixture run: creation, reconciliation, reverse cleanup, sweeps, and its workflow | |
| `LiveControl` | pause, takeover and return of the browser of an attempt, and the actions on it | |
| `TaskResult` | facts of attempts, bound fixtures, hygiene, result snapshots and what a gate may accept of them | |
| `TaskGate` | the judgments of a snapshot's failures, reviews, the decisions of the gate with their locks, and the callbacks that tell of them | `ClaimedDelivery` |
| `SecretGrantProofs` | theorems about `AccountLease`, and about `SecretGrant`, with verifications and logins beside the leases | `SecretGrant`, TLAPS |
| `TaskLaunchProofs` | theorems about `StartIntent`, and about `TaskLaunch`, which composes it with the launch | `TaskLaunch`, TLAPS |
| `RunRootProofs` | theorems about `RunRoot`, composed with the commands | `RunRoot`, TLAPS |
| `TaskScheduleProofs` | theorems about `TaskSchedule` | `TaskSchedule`, TLAPS |
| `AuthSessionProofs` | theorems about `AuthSession` | `AuthSession`, TLAPS |
| `AttemptProofs` | theorems about `LiveControl` and about `TaskUnit`: what happens under an attempt | `LiveControl`, `TaskUnit`, TLAPS |
| `OutcomeProofs` | theorems about `TaskResult` and about `FixtureRun`: what a run leaves behind | `TaskResult`, `FixtureRun`, TLAPS |
| `TaskGateProofs` | theorems about `TaskGate` | `TaskGate`, TLAPS |
| `MC...` | instances for TLC | |

`AccountLease`, `AccountHealth` and `SecretGrant` are layers over the same rows: each adds
its variables and its actions and repeats the next-state relation below it. `RunRoot` is
the control of a run with its batches abstracted; `TaskUnit` is the same run seen from its
batches, with the control reduced to what a batch sees of it (at most one pause and one
cancellation). `TaskResult` starts where the units end,
and `TaskGate` where the snapshots of `TaskResult` are taken. `TaskLaunch` comes before all of
them: it repeats every step of `StartIntent`, which may not begin before the seal.

### Correspondence with the code

One action is one committed transaction. A command that reads a revision and
finds it changed has no effect, so it is no step. Idempotent replays return what
was stored and are no steps either. Rows keep the columns that some guard or
some property reads; labels, methods, names, audit and event records are left out.
Database triggers that change rows are part of the actions that fire them. Triggers
that only refuse are predicates of their own, named after the trigger, and an action
property says that no modelled step would be refused (`GuardsAdmit`,
`WritersAreInOrder`, `SessionGuardsAdmit`): the services and the schema agree.

*Clock.* The services sample their clock before they open the transaction and
may then wait for locks. Every action of the lease modules therefore picks `now` in
`Now`: any sample at most `MaxLag` older than the modelled real time, so transactions
commit in any order of their samples. The other modules have no clock: a lapse of a
claim, a lease or a deadline is a step that may happen at any time.

*Accounts.* An account row has the three orthogonal states of `test_account`, its
cooldown, the lease epoch, the connector it is bound to, its consecutive
failures and its revision. The leases of an account are indexed by the token they
were granted under, which a token's single use justifies; that a second active
lease cannot appear is not built in, it is `ActiveLeaseHoldsFence`.

*Housekeeping.* An acquire first returns elapsed cooldowns to service and reaps
expired leases of its environment. Both are part of `Acquire` (`Cleaned`,
`Reaped`), also in `ReapExpired`, which stands for the reaper and for the
acquire that then finds no candidate and commits its housekeeping all the same.
`SKIP LOCKED` and the limit make a pass end any subset of the expired leases.

*Probes.* A verification is `StartVerify`, then one of `FinalizeStale`,
`FinalizeSuccess`, `FinalizeFailure`, or nothing at all when the process dies.
The check keeps the snapshot (account and connector revisions) its result is
compared with. `verified` is a history variable: the connector and configuration
used by the last login that succeeded.

*Grants.* Database triggers revoke the grants of a lease or connector that leaves
ACTIVE. `AfterTriggers` is conjoined to every step of `AccountHealth`. A failed
login whose report finds a lease holds that lease's row and the account's to the end
(`LoginFails`); one that finds none locks the account in the next statement only, so
it takes two steps (`LoginFailsUnleased`, `ReportFailure`), during which the
connector row is locked for share (`ConnectorsLocked`).

*Sessions.* A session is reserved, logged in to and uploaded outside of any transaction,
and finalized by a transaction that looks at everything again. The vault is a set
of objects beside the rows, so that an upload without a row, or a row without
its object, can be told. The janitor claims, deletes and confirms in three steps.

*Launches.* A launch is one transaction: the idempotency record, the run with its manifest, and for
up to 64 units also units, seal and start intent. `Input` is everything the request digest
covers. Requests of one trigger are serialized by its unique index, those of one
key by the record, so a record is only ever seen completed. A larger run gets a row
per partition; `Fills` is the transaction that writes the units of one and, with the last one, seals
(`Seal`), `SealRefuses` the same transaction when the seal objects: what it looks up
(versions, environments, roles) is not modelled, so it may object at any time. Its
commit may stay unheard (`CommitUnheard`).

*Start intents.* A dispatcher claims a batch with `SKIP LOCKED`, under a lease and a
revision, and works on each intent with no transaction open. `Claim`, then one step per
call to Temporal (`Submit`, `Described`, `CallRetried`, `CallFails`), then one transaction with
the outcome, which takes effect only under the claim's revision (`OwnsClaim`). A request
without an answer stays in flight (`sent`) and may start a workflow at any later
time; Temporal is `Execution`, `ExecutionStarts` and `ExecutionCloses`. Intents of unit attempts
are written under the same table and claimed by nobody.

*Schedules.* A command bumps the row's revision and leaves one intent per revision;
commands alternate PAUSE and RESUME, so the desired state is the parity of the revision.
A dispatcher's describe, create or update, and pause or unpause are separate calls
between which another dispatcher may be anywhere. A fire is Temporal's start of a
workflow, then an activity that reads the row, possibly much later.

*Commands.* An acceptance is one transaction: the run moves, open commands are
superseded by a CANCEL, the command is stored. The retries of one delivery
inside the signaler differ from a new delivery only in leaving the row alone, so
one call stands for them. A signal that was sent stays on its way (`sent`) until
Temporal accepts it or the workflow ends.

*The root.* An activity is its transaction (`LoadPlan`, `CheckpointControl`, ...),
which leaves its result in `root.reply`, and `ResultArrives`, which is the workflow code up to
the next activity, timer or wait. In between signals are accepted, other
transactions commit, and the result may be lost (`ResultLost`), upon which the same input is
executed again. An attempt that Temporal gave up cannot commit later: the
statement timeout of the workers' database is shorter than the activity's 30 s.
`root.woken` says whether the control generation has moved since the workflow last
observed it. `Pages = 1` is a run of up
to 64 units, which is finished from the workflow's memory; a larger one is finished from
the database and continues as new between its pages. Native cancellation of the
workflow and the signal `request_cancel`, which nothing in the repository sends, are left out.

*Units.* A unit has a row, its attempts, a child workflow and an executor that may outlive
the activity that called it. Preparing, beginning, executing, sealing and settling are
transactions of different actors; an answer, a child or an executor may be lost at
each of them. `Finish` is the reconciliation of what the root remembers with the
rows. Temporal's identities are the reason why a child that exists is not
started again, and why a settlement that is repeated after a CANCEL fails the root.

*Fixtures.* A node's creation is an attempt under a claim; the provider is a set of
resources that exist, apart from the ledger that says so. A lost answer leaves both
outcomes open until a reconciliation asks the provider. A cleanup is claim, deletion
and report; a sweep of the tenant claims the same resources as the run's workflow.

*Live control.* The session row has an epoch, a controller, a lease and a page; a
command is requested, acknowledged at a safe point by the worker, and applied. An
action is granted for one epoch and page, consumed once, and answered with a receipt
that may come late or never.

*Results.* A seal, an unsealed closure, the binding of a fixture, the end of a cleanup
and the finish of a run are the transactions that write facts; each revises hygiene and
appends snapshots in the same transaction. `FinishRefused` and `SnapshotOfRelease` are the
transactions a trigger rolls back.

*Decisions and reviews.* An evaluation is two transactions: one judges by rule what no one has
judged (`Classify`), the other locks the run, then the chains of judgments in the order of their
random identifiers (`BeginGate`, `LockChain`), reads them again and stores the decision with its callback
(`Decide`). A review locks one chain first and the run next (`LockReviewed`, `Review`), so the two may wait for
each other, and the database aborts either (`AbortDeadlock`). `GuardAdmits` is what the trigger of the
decision asks for: where it refuses, the request is RAISED, which `NothingRaised` excludes. A unit has its
axes, a group is the set of units that share them, a confidence is in ten-thousandths.

*Callbacks.* As start intents: `Claim`, `Post` with no transaction open, `Report` under the claim. The
receiver is the set of decisions it was told of.

## Runs

| Run | Question | Bounds |
|---|---|---|
| `grants` | Can any order of commands, verifications and logins leave a holder without the fence, make a held account unfit or a dirty one available again; is every redeemable grant backed, single, and redeemed in time; can the result of a probe be applied to something it did not see? | 1 account, 1 connector, 2 checks, 2 grants, 2 tokens, clock 2, lag 1, leases of one tick, both revisions together at most 5 (`FewChanges`) |
| `sessions` | Is every session in use backed, is every artifact destroyed, and does the table accept every step? | 2 leases, 2 sessions, 1 janitor, 1 fault |
| `launch` | Is a run executed only whole, for those who asked for it, by one workflow, and is it, or a failure, decided in the end? | 2 callers of one key and two inputs, 2 partitions of 2 attempts, 1 lapse, death or lost answer; 1 intent, 2 attempts, 2 calls each, 1 lost claim, an execution of somebody else; late consumers leave before the start (`LateConsumersGo`) |
| `schedule` | Does each command settle, once and under its own claim, and does a settled pause hold? | 3 revisions, 2 dispatchers, 2 attempts, 2 faults, 1 fire |
| `schedule_pause` | Does a pause hold from the moment it is accepted? (No: see findings.) | 2 revisions, 1 dispatcher, no fault |
| `run_control` | Do the commands and the run agree in every order of acceptance, delivery and application? | 3 commands, 1 page of 1 batch, 1 lost claim or 1 failed or refused call (`OneFault`), given up at the first error |
| `run_live` | Does every command take effect in the end, also across continue-as-new, a retried batch and a repeated activity? | 2 commands, 2 pages, 1 retry, 1 lost result, 1 failed call, 2 attempts |
| `unit` | Is every unit closed once, with the outcome of its last attempt, and does the run end? | 2 units in a batch of 2, 1 retry in all, 2 lost answers, children or executors, 1 pause, a cancellation, a deadline |
| `fixture` | Is everything that was created known, removed children first, and reported clean only when it is? | a parent and a child, 2 attempts, 2 reconciliations, 2 cleanups, 1 explicit retry, 2 faults, or 1 and a lost lease (`FewTroubles`) |
| `live` | Does one actor act at a time, is human work counted, and does each handover end? | 2 workers, 2 actions, 5 epochs, 4 pages |
| `results` | Is a full snapshot true, taken as soon as it may be, and is what a gate accepts clean? | 2 units, 1 retry, 1 replayed cleanup, 3 snapshots, one fixture with something happening before its end (`FewRevisions`) |
| `gate` | Do decisions, reviews and their locks ever contradict each other or the triggers, and is every decision told once and for all? | 1 snapshot of 2 units (both pass, or one fails), 2 evaluators, 2 reviewers, 2 attempts, 1 fault |

Two tokens are two successive holders, the least that lets an old holder meet a
new one. A clock of two with lag one lets a lease run out before, while and after a stale
sample is used. Three commands are the longest legal sequence that has every pair: PAUSE,
RESUME, CANCEL; three revisions of a schedule are its creation, a PAUSE and a RESUME, so
that each can be overtaken by the next. Two pages let a
command come before, between and after two workflows, and a retried batch lets it come
between two batches of one page. One lost claim gives a late dispatcher and a
successor, one lost result an activity that is executed twice, one failed call
a command that is delivered twice or given up. Two units make a batch of two children side by side
and, with a retry, a second batch of one; one retry in all for two units makes
the limit of the run bite before that of the units. Two sessions of two leases are a
session of the same lease after a failed one, and one of the next holder. Two
levels of fixtures are the least that has an order; two faults let a worker die and its
successor be answered late. Two partitions are the least that has a last one, and two attempts fail
a partition for good; the bound of one lapse keeps claims far below the 64 the table allows.
Five epochs are a pause, a takeover, a return and a second
pause. Two evaluators and two reviewers are the least that lets a decision be superseded
while a review of it is under way; one fault repeats a request, loses a
claim or fails a post. `FewChanges` limits how many commands change one account: three of the account, or two of the account
and one of its connector, the path from an import through an acquire, a revocation and a
restore. A consumer that comes too late may only write under a claim that it has lost, so
`LateConsumersGo` leaves out no write: it keeps two independent parts of a launch from being
multiplied. A failing snapshot has one group of failures in the run of the gate; decisions that
lock several chains are left to the theorems. The theorems hold without any of these bounds. `TaskSchedule` was also run once with four revisions and two calls
each (235 920 states) and with three faults (about a million), and holds there too.

Deadlock checking is on for the grants, whose `Tick`, empty reaps and repeated commands keep
every state live. It is off where the system really comes to rest: a decided intent, a
closed run, a destroyed session, a session without a controller.

*Fairness.* `TaskLaunch`, `RunRoot`, `TaskUnit`, `TaskSchedule`, `AuthSession`, `LiveControl` and
`TaskGate` assume weak fairness of processes, never of single lucky outcomes. Dispatchers
poll without end (`run_forever`) and are restarted by their container, every call has a
timeout, and a claim that has lapsed may be claimed again. Temporal drives a workflow and its
activities until they return, retries an activity whose answer is lost, and ends
children by their deadline. A request of the gate runs on to its end and the database finds deadlocks
(`GateSettles`). The janitor and the reaper of live control are endpoints that
the code expects a scheduler of the deployment to call
(`src/documents/IMPLEMENTATION_PROGRESS.md:687`, `:1107`); `SessionsEnd` and `HandoverEnds` are
promises under that assumption. A process may die at any point (`Vanish` and the losses
are not fair), nobody has to send a command, and faults are bounded, which is what
"eventually" needs to mean. No fairness is assumed of leases, health checks and
grants: no process of the repository schedules the lease reaper, the verification or the
login, so nothing is promised to happen eventually there. `FixtureRun` and `TaskResult`
are checked for safety only: see the third observation below.

## Properties

Each is stated with its reason in its module. `GInv`, `RInv`, `TUInv`, `FInv`, `SeInv`,
`ReInv`, `LcInv`, `ScInv` and `TgInv` are conjunctions of named parts, one type invariant and the
invariants proper of a module:

* `GInv`: a check's result is applied only to what it saw, one running check and one issued
  grant at a time, a fresh check excludes a holder, HEALTHY is earned under the current configuration.
* `HoldersStayFit`: a held account becomes unfit only by the report of a failed login that found no lease
  (second observation). Of the leases alone (`LSpec`) more is true, `LeasedAccountUsable`: no holder is ever unfit.
* `EndsAreFinal`: a lease that runs out or is revoked takes its account out of the pool in the same step, and none
  is renewed later than a sample of the clock is old.
* `LaunchInv`: a run is sealed, once, when the units of all partitions exist and starts not before;
  nobody is answered with a run of something else.
* `RInv`: the open command fits the run's state, a CANCEL wins over what it superseded,
  and is acknowledged only after the run is closed; a run is PAUSED only between batches.
* `TUInv`: each attempt has one execution, retries stay within both limits and follow only
  failures the executor reported, units agree with their attempts.
* `FInv`: what exists at the provider is known to the ledger, or a node in doubt still stands for it.
* `SeInv`: a session in use is backed by its lease and by what it was made from; objects
  in the vault have rows, but for uploads that came too late.
* `LcInv`: lease, epoch, command and session agree, and no action has its effect under the
  controller of another, nor on a page that nobody has seen; that a human has acted is never forgotten.
* `TgInv`: the triggers never refuse what a service has prepared, every decision has its callback, and a callback
  counts as delivered only if the receiver has it. `AcceptanceIsFixed`: no review turns acceptance on or off.
* `ReInv`, `ScInv`: watermarks and finalities come in order; rows and intents agree and an intent says what was applied.

## Findings

*A pause of a schedule does not hold at once* (run `schedule_pause`).
`src/documents/adr/ADR-0011-database-authoritative-temporal-task-schedules.md:18` says a pause keeps
the workflows that start after it from running. `fire()` compares the start of the
workflow with `updated_at` of the row, which the report of the applied pause moves on. A
fire that starts after the pause and before that report, and reads the row after it,
launches a run. `SettledPauseHolds` is what the code does promise: no run is made from
a fire that starts after the pause was reported.

### Observations

Behaviour met while modelling that a property had to allow for. Each is in the model.

1. *A quarantine can be lifted by a check.* `src/documents/IMPLEMENTATION_NOTES.md`
   says only an explicit restore lifts a quarantine. The preflight of a
   verification (`application/account_health.py:738`) does not look
   at the health state, and a success writes HEALTHY.
2. *A login failure can miss the new holder.* `record_runtime_health_failure` revokes what it finds
   and locks the account afterwards; an acquire that commits in between keeps its
   lease on an account that is then degraded or quarantined: the one exception of `HoldersStayFit`. Likewise a failure
   reported late revokes the lease of whoever holds the account by then.
3. *A resource that was found blocked by its child* is claimable again only by an explicit
   retry (`infrastructure/repositories/fixture_runs.py:1514`): nothing ends the cleanup of its run when
   the child is gone.
4. *A CANCEL that was given up after it arrived blocks the finish.* The finish acknowledges the
   CANCEL it was told of, and on a FAILED row the whole transaction rolls back, at each
   retry: the run stays CANCELING. A PAUSE that was given up stops its run in the same way.
   `CancelEnds` therefore excepts runs with a FAILED command.
5. *The root of a large run refuses its own result.* A CANCEL that is accepted between the
   last checkpoint and the finish of a run of more than 64 units closes the run as canceled,
   no unit is canceled, and the workflow rejects the result and fails.
6. *A checkpoint applies the open RESUME whenever it runs*, also when a late PAUSE signal woke
   the root: harmless for the run. A `finish_run` whose answer was lost may expect another
   result when it is repeated and fail the root; a delivered CANCEL is then never acknowledged.
7. *A child that fails after its attempt was closed or sealed* leaves its root guessing, and
   the run may stay open (`application/task_orchestration.py:569`). So does a settlement whose answer
   is lost after it scheduled retries, followed by a CANCEL (`TASK_RUN_CHILD_IDENTITY_MISMATCH`), and
   a deadline or a rejected admission at the preparation of a batch.
   `RunEnds` says that the run closes or its root has failed.
8. *An upload after its session was claimed for deletion* leaves an object in the vault
   whose row is DESTROYED (`application/sessions.py:612`; ADR-0005 promises removal).
9. *An unsealed retry may leave its run open.* `_close_attempt_result_without_seal`
   (`application/task_orchestration.py:1942`) projects quality and not hygiene; the latest hygiene then
   covers the first attempt alone and is terminal, `finish_run` takes it for the whole, and the trigger of
   migration 0036 refuses the snapshot at each retry (`FinishRefused`).
10. *The last cleanup after a run's closure is rolled back.* Its snapshot is stamped with the time of the
    transaction, the row by a trigger with the time of the clock
    (migrations 0001:35 and 0011:969), and the watermark check refuses it (`SnapshotOfRelease`).
11. *Temporal may differ from a SYNCED row for ever.* An overtaken dispatcher pauses or unpauses after
    the newer revision was applied, and nothing converges it again; the row keeps the fires of a
    settled pause from launching, but an ACTIVE schedule may be silently paused.
    A FAILED synchronization is final until the next command.
12. *A live session without a controller is a trap*: no command applies to it, although the table
    would allow a return. A receipt that is behind the session's page is refused and its grant
    stays CONSUMED, which blocks every safe point until the lease lapses. The page is
    compared when a grant is issued and not when it is consumed (ADR-0010:16).
13. *A large run whose seal is refused stays MATERIALIZING.* The refusal is permanent for the consumer
    (`application/task_materialization.py:180`), so the partition is FAILED and nothing claims it again; the
    run cannot be canceled before it is sealed (`application/task_commands.py:378`), and each later
    request of its trigger is answered with it. `LaunchEnds` excepts it.
14. *A partition claimed 64 times takes its consumers down.* The next claim violates the table's check, the
    whole batch rolls back, and the error ends the task group of the process, schedules and commands
    included (`workers/task_intent.py:153`), at each restart. Only 64 lapsed claims lead there; the bounds
    of `launch` keep below.
15. *An idempotency record lapses after its time to live, the trigger does not.* A repeated request is then
    answered by `create_run`, and one with another input under the old key is a new request.
16. *A decision and a review may deadlock for no gain.* Both end up with the run locked FOR UPDATE, so the locks of the
    chains protect nothing; but they are taken in opposite orders, and nothing retries the request that the
    database aborts.
17. *Callbacks may arrive out of order.* They are claimed one by one, retried at different times, and carry no revision
    by which a receiver could tell the later decision. A decision may also bind an older snapshot than the one it supersedes.
18. *A reconciler that outlives its claim may settle a later one.* An answer is taken when the node is being
    reconciled, by whom is not asked (`application/fixture_runs.py:1810`). An ABSENT from before a second creation
    then fails a node whose resource exists, and nothing removes it: TLC finds it with `Overruns` of "RECONCILE", three
    reconciliations and four faults. Hence the hypothesis of `LedgerIsTrue` and the `Overruns` of the run.

## Proofs

Every theorem holds for all values of the constants under the named assumptions of the module it is
about, which are no more than what a deployment is: times and bounds are natural numbers, attempts at least
one, the environment is a scope of every account (`ScopeAssumption`), the evaluators and
reviewers of one snapshot are finitely many and different (`GateAssumption`), no worker is called like the
constant for "nobody" or for a human (`SessionAssumption`, `LiveControlAssumption`). TLC evaluates all of them
in the runs. Each module has one inductive invariant; where a composition
has many actions, a lemma first classifies them into a few kinds of steps, and what is
to be kept is proved of the kinds.

`SecretGrantProofs`, of the leases alone (`AccountLease`):

* `TypeCorrect`: `LSpec => []LTypeOK`. An action writes its rows by `EXCEPT` and only
  then states the bounds, so the proof first shows that the new rows have a *shape*
  (`AccountShape`, `ConnectorShape`: counters in `Nat`) and then uses
  `WithinBounds'` (`ShapeWithinBounds`).
* `FenceHeld`: `LSpec => []ActiveLeaseHoldsFence`. `LTypeOK /\ ActiveLeaseHoldsFence` is
  inductive. `StepKinds` classifies every action, account by account: leases kept
  and epoch kept, a grant under the next epoch with no other active lease, an end,
  or a revocation that moves the epoch.
* `Refinement`: `LSpec => RefinesFencedLease`. The holder of an account is its latest
  epoch if the lease under it is active, else none.
* `LeasedUsable`: `LSpec => []LeasedAccountUsable`. The fence is needed: a lease that ends marks its
  account only when its token is still the latest epoch.
* `FinalEnds`: `LSpec => EndsAreFinal`.

It then proves the same of the composition (`SecretGrant` with `AccountHealth`), where
verifications and logins write the same accounts (`FenceHeldWithLogins`, `LeasesRefine`,
`EndsStayFinal`), and what is the composition's own. Its invariant is `GrantsInv`: types, the
fence, `HeldReady` (a held account that is healthy is READY), `ChecksInv` (a check's snapshot is not ahead of the rows, one check runs per
account, a fresh one excludes a holder, HEALTHY was earned under the present
configuration), the backing of an issued grant and its uniqueness. That a holder is healthy is no
invariant here: the late report of a failed login makes a held account unhealthy (second
observation), so `HoldersStayFit` is a property of steps.

* `GrantsCorrect`: `GSpec => []GInv`; `GrantsBacked`: `GSpec => []IssuedGrantIsBacked`.
* `RedeemedInTime`, `FitnessKept`, `RecoveryChecked`: `GSpec => TimelyRedemption`,
  `HoldersStayFit`, `RecoveryNeedsCheck`.

`TaskLaunchProofs` (`StartIntent`, then `TaskLaunch`). `StepKinds` reduces the fourteen
actions of a delivery to seven kinds: it only goes on, drops out or records an outcome under
its claim. It needs `Informed`: what a delivery has learned of Temporal stays true.

* `STypeCorrect`: `SSpec => []STypeOK`, inductive together with `Informed`.
* `StartedOwn`: `SSpec => []StartedMeansOwnExecution`. STARTED comes from a VERIFIED
  delivery, and `Informed` carries what it verified to the moment it records.
* `AtMostOnce`: `SSpec => []ExecutedAtMostOnce`, strengthened by `StartsCounted`: where
  Temporal has no execution, none was ever started.
* `AttemptsAreBounded`: `SSpec => []AttemptsBounded`. An intent that may be claimed again has an
  attempt left (`AttemptsLeft`), and the attempts a dispatcher remembers are those of the row
  while its claim is the latest (`Claims`).
* `QueueRefines`: `SSpec => RefinesClaimedDelivery`. `Claims` also says that no two
  deliveries work under one claim, so a delivery that ends takes its claim, and nobody
  else's, along: an outcome is `Decide`, a lost or dead delivery `Abandon`, all else stutters.
* `LaunchDelivers` carries all this over to the launch: each of its steps is one of `StartIntent` or
  leaves the intents to a seal that creates one.
* `LaunchedWhole`: `LSpec => []LaunchInv`. To be inductive it needs that a run that does not exist
  has neither units nor partitions (`Untouched`) and that a record tells of the run (`RecordsOfRun`).
* `PartitionsRefine`: `LSpec => PartitionsRefineClaimedDelivery`, with `ClaimsNumbered`: the claims at work
  have numbers that their partition has given out, each once.

`RunRootProofs` (`RunRoot` with `RunCommand`):

* `ControlFits`: `RSpec => []RInv`. `RootInv` adds what the workflow remembers: it knows of a
  CANCEL only when one was accepted (`KnowsCancel`), has a batch whenever it works on one
  (`HasBatch`), and while a batch is under way the run is not PAUSED; of the rows, that commands are accepted
  in order, those not accepted are blank, and one CANCEL at most is among them.
* `CommandQueueRefines`: `RSpec => RefinesClaimedDelivery`. The decision of a command is that of the latest
  claimant, or the run's: an acknowledgement or a CANCEL that supersedes it.

`TaskScheduleProofs` (`TaskSchedule`):

* `RowAndFiresAgree`: `Spec => []ScInv`. `ScheduleInv` says which statuses the newest intent may have for
  each state of the row and that later intents are blank (`RowTellsOfIntent`, `BlankIntents`), that no two dispatchers share a claim (`WorkInv`), and that a fire under a
  settled pause is newer than the row (`HeldFires`), which nobody touches while its newest intent is decided.
* `IntentQueuesRefine`: `Spec => RefinesClaimedDelivery`.

`AttemptProofs` first has `LiveControl`: `ControlCorrect`: `Spec => []LcInv`, which is inductive as it
stands, and `HumanCounted`: `Spec => HumanWorkIsCounted`. It then has `TaskUnit`, with `RunInv`. `RowsFit` is about
the rows of one unit, `ChildFits` about its child and its executors, `MemoryFits` about what the root
remembers of it: whatever was heard *stands* (`Stands`), that is, it agrees with an attempt that is
closed and so will not change, or the root itself supposes INCONCLUSIVE. `RunFits` and `RootFits` are about the run's
row and the place of the root. Each action keeps the invariant and makes a step that fits (`StepFits`).

* `UnitsAgree`: `TUSpec => []TUInv`. An attempt is added only to a unit whose last one failed for the
  infrastructure, and such an attempt has no executor left (`RowsFit`): its child had finished it, after the executor
  reported. So no one is at work on an attempt that is tried again, whatever was given up, terminated or left behind.
  That the budget of the run is kept is counted: units are ranked by their order within a batch (`RankFacts`), so that those
  retried are at most as many as is left (`RetriedFits`), and each adds one pair of unit and number (`BudgetSettled`).
* `RunsCloseComplete`: `TUSpec => []ClosedRunIsComplete`. The finish agrees with all that is closed and never
  supposes that something passed (`FinishedUnit`), and PASSED is the quality only of an attempt with a seal.
* `WritersKeepOrder`: `TUSpec => WritersAreInOrder`, from `StepFits`.
* `OutcomesAreJustified`: `TUSpec => []OutcomeIsJustified`. That the root fails only for a reason (`RootFailsForAReason`) needs
  to know that no settling, preparation or finish is ever refused while the system is calm (`Calm`: no fault so far, and
  the deadline has not passed). `RunInv` is too weak for it, because after a fault much less is true. `CalmFits` says what holds
  in the calm (`CalmNow`): where each unit is while the root goes round its loop (`UnitCalm`: over as told, next, dispatched,
  heard, or settled), what the root knows of a cancel and of a closed run (`RootCalm`), that untried units come
  up in their order (`InOrder`, because a finish accepts only a tail of units as skipped), and that a finish meets no
  conflict (`FinishCalm`). It is inductive beside `RunInv` (`CalmStep`): a fault ends the calm for good (`CalmWasThere`), and
  each other action has a lemma. Those that carry the weight are `SettlingFinds`, `BatchIsPreparable` and `StandingAgrees`, by which a
  settling, a preparation and a finish find no conflict, `CancelSignaledCalm`, for a cancel that overtakes any of them, and
  `NextPending`, for the order of what waits after retries.

`AuthSessionProofs` (`AuthSession`). `Turn` lists what a step may make of one row; every action turns every row
(`StepsTurnRows`), also the sweep, which may expire and claim a row at once.

* `SessionsFit`: `SeSpec => []SeInv`. One live session per lease is not inductive: a new lease must find no
  live session of an old one. `LiveInv` says so (whatever is live belongs to the lease that is held), and
  `VaultInv` that a sealed object is still there when it is published, that what is being cleaned up has been
  claimed, and that after the deletion only a late upload is in the vault.
* `SessionRowsAreAdmitted`: `SeSpec => SessionGuardsAdmit`; the run checks it, like all properties of
  `sessions`, under `SeFairSpec`, which implies `SeSpec`.

`TaskGateProofs` (`TaskGate`), with `GateInv`:

* `GateInOrder`: `Spec => []TgInv`. `ReviewInv`: who has locked a chain is alone and has seen its last judgment, and a
  chain is as long as its reviewers are many (`ChainsCounted`, by cardinalities); `CallInv`: a DELIVERED
  callback was received.
* `GateAccepts`: `Spec => []AcceptanceIsFixed`. `DecideInv`: at a decision every failing group is
  judged, a request decides once, and each verdict is ACCEPTED exactly if the snapshot allows it, which no
  judgment changes (`VerdictsFixed`).
* `GateCallbacksRefine`: `Spec => RefinesClaimedDelivery`.

`OutcomeProofs` first has `TaskResult`, with `ReIInv`:

* `SnapshotsAreComplete`: `Spec => []ReInv`. Beside the types and the phases, the invariant says of the *rows*
  (`RowsFit`) how old the hygiene of a unit may be: it names closed attempts only, and of each the fixture it has now,
  but for its revision (`HygieneFits`), because a seal, a binding and a release project in their own transaction
  and a fixture that only proceeds changes no more than its revision. With it, a child that projects again does not change what
  is resolved, and a release that would have a snapshot due is rolled back or finds it taken: that is
  `FullOnceReady`. Its step cases are those of the actions that write one attempt (`Rewrites`), of those that take a
  snapshot (`AppendedFits`, `DueIsTaken`) and of the finish (`ReconciledFits`).
* `FullSnapshotStaysTrue`: `Spec => []FullSnapshotIsTrue`. `SnapshotsFit` says what stays true of a snapshot when its fixtures
  go on (`Told`): what it calls settled is still so, what it calls pending stands beside a leak, and what it
  calls unneeded creates nothing. A late binding cannot touch a unit of which something was told, since that unit is `Covered`.
* `AcceptedIsClean`: `Spec => []AcceptedMeansClean`, from the same `Told` and from what `StableAndPassed` says of retries.

`OutcomeProofs` then has `FixtureRun`, with `LedgerFits`:

* `CertificatesAreTrue`: `FSpec => []CleanupEvidenceIsTrue`. A released run had prepared all its nodes (`RunFits`), a
  prepared node has a recorded resource (`ResourceFits`), and a recorded resource is called removed only by the worker
  that removed it, under the claim it still holds (`CleanersFit`).
* `LedgerIsTrue`: `FSpec => []FInv`, if no worker outlives its claim to reconcile, as in the run. Then a node has one
  reconciler at a time and what it was told is still so when it is recorded (the part of `ReconcilersFit` under
  `CleanupOverrunsOnly`): the node is not created again in between, so the answer ABSENT is not a
  stale one. Without the hypothesis TLC finds a resource forgotten (observation 18).
  The rest of the invariant does without it, and so do the other three theorems.
* `TransactionsAreAdmitted`: `FSpec => GuardsAdmit`. It needs of the invariant that a worker that executes or verifies finds its node as it
  left it (`AttemptFits`, `ReconcilersFit`) and that a resource is recorded once (`ResourceFits`).
* `ReleaseIsOrdered`: `FSpec => []ReleaseKeepsOrder`, if resources do not expire during the preparation (`Expiries # "ANY"`), as in the
  run. `InOrder`: nothing is removed before the run is prepared, so that then all resources are there; after
  it whoever is removing a resource claimed it with everything that hangs on it gone.

The type invariants `LTypeOK` and `STypeOK`, `LeasedAccountUsable` of the leases alone, and `AttemptsBounded` are
proved and not listed by a run.

*Only model-checked.* Every safety property of the passing runs is a theorem. All liveness stays with TLC, being beyond the prover: `LaunchEnds`,
`ControlsTakeEffect`, `CancelEnds`, `RunEnds`, `SessionsEnd`, `HandoverEnds`, `CommandsSettle`, `GateSettles`.

## Not modelled

Components whose status is `not_modelled` in `PROJECT.json`: the case compiler and the workflow
validator are pure functions over one large document; evidence, insights, audit, authentication,
the HTTP API, configuration and the frontend are I/O and queries. Debug runs (a run of one
case over fixtures, sessions and live control) have state worth a model and are next in the plan.

Within the modelled parts: batch limits and `SKIP LOCKED` are nondeterministic choices; the
values of manifests, evidence and payloads, the arithmetic of timers and back-off,
calendars, the decryption of a session for a browser, incidents and failure clusters
are left out; so are the compilation of a plan
into units, reruns (which reach `create_run` with a trigger of their own and no idempotency
record), and the outbox, which is written and read by no process of the repository.

## Plan

1. Debug runs, as a run of one case over fixtures, sessions and live control; reruns as launches of their own.
2. Liveness of fixtures under a scheduler of the sweep, and the composition of `TaskUnit` with `TaskResult`.

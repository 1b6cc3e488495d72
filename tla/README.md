# TLA+ models of tsg

tsg generates cyber-threat scenarios. A reviewer opens a *session* for an asset;
a background worker asks an LLM, for every *supporting system* of the asset, for
a profile, a list of threats and a list of scenarios; the reviewer looks at the
result, asks for parts of it to be made again (*regeneration*), accepts it or
cancels it. The rows that describe all this live in SQL Server. Celery workers,
a scheduled reaper and the HTTP API share them without any coordinator, by
compare-and-set UPDATEs, leases and a lock row per supporting system. That
protocol is the program's own core, and it is what these modules are about.

Paths below are relative to the repository; `tasks.py`, `cascade.py`,
`accept.py`, `reaper.py` are in `app/pipeline`, `dal.py`, `models.py` in
`app/db`, `sessions.py` in `app/api`, `bus.py` in `app/sse`.

## 1. Inventory

| component | state it keeps | operations | interacts with |
|---|---|---|---|
| **Stage board** (`dal.py`, `models.py`, `enums.py`) | `Subsystem_Stage_State`: per supporting system and level (PROFILE, THREATS, SCENARIOS, _LOCK) a status, epoch, attempt count, task id, lease | `seed_stage_rows`, `claim_stage`, `acquire_lock`, `release_lock`, `set_stage`, `_record_failure`'s UPDATE, `next_epoch`, `reset_stage_for_regen`, the reaper's sweep, `stage_rows` | written by workers, the reaper, accept and the regenerate request |
| **Session row** (`dal.py`) | `Scenario_Session`: status, workflow stage, stage status, `UpdatedAt` | `create_session`, `touch_session`, `complete_session`, `cancel_session`, the compare-and-set of regenerate, review and failure | same |
| **Pipeline worker** (`tasks.py`) | one Celery delivery (acks late) | `run_pipeline`: per supporting system lock, profile, threats, scenarios, unlock; `decide_session_outcome` | broker, LLM, board, output rows |
| **Regeneration cascade** (`cascade.py`) | one Celery delivery at a reserved epoch | `run_regeneration` for five granularities | same |
| **Reaper** (`reaper.py`) | nothing of its own; one pass per minute | expire rows, free locks, close out abandoned sessions | board, session row |
| **Accept** (`accept.py`) | one request, one transaction | gate, barrier, locks, select rows, promote to the library, complete | board, session row, output rows, library |
| **Session API** (`sessions.py`) | requests | create, read, accept, regenerate, cancel, event stream | everything |
| **Admission** (`dal.py`, `sessions.py`) | committed sessions, by asset and by Idempotency-Key (two unique indexes) | `reserve_idempotency_key_or_get_existing`, `assert_capacity_available`, `create_session` and its `IntegrityError` handler | session row, broker |
| **Output rows** (`dal.py`, `tasks.py`, `cascade.py`) | profiles, threats, scoring records, scenarios, with `Superseded` flags and parent ids | insert, supersede, read active | written by workers, read by accept and the API |
| **Threat library** (`accept.py`, `dal.py`) | types, names, actors and links shared by all sessions, under filtered unique indexes | upserts that survive a lost race, curators' switch | grounding reads it, accept adds to it |
| **Scoping** (`scoping.py`) | none (pure) | score, gate, rank and cut off a list of threats by curators' rules | called by the worker |
| **Grounding** (`grounding.py`) | none | match a proposal to the library by bands, validate its actors | called by the worker, reads the library |
| **Event stream** (`bus.py`, `sessions.py`) | Redis channel, circuit breaker; the client's picture | publish, snapshot on connect, subscribe | workers publish, API streams |
| LLM gateway, embeddings, context, security, errors, schemas, health, config, logging, engine, migrations | caches, connections | stateless work | - |

**What is hard.** The pipeline runs for many minutes under a lock that is a row
with a lease; the broker delivers a task again when a worker dies or is slow;
workers, the reaper and API requests interleave at every commit; a plain SELECT
reads a snapshot (RCSI) and may be stale when its result is used; a process may
die between any two commits, including those that enqueue the work a commit
promised; a poison task must stop being retried. `PROJECT.json` lists each
hazard at the line where it bites.

**What makes each component correct.**

- Board: one holder per lock; a worker that waits for the LLM still owns the row
  it is about to write; a finished stage of a generation is never redone; a late
  task of an older generation cannot write into a newer one; epochs are unique
  and ordered along PROFILE, THREATS, SCENARIOS; attempts are capped.
- Worker and regeneration: a redelivery picks up where the first one stopped and
  never works from an empty input; whatever happens the session is decided.
- Reaper: it takes nothing away from a live worker, and whatever a dead process
  left behind is ended sooner or later.
- Accept: what is accepted is what the reviewer saw at the barrier; whoever still works
  on a completed session leaves alone what was accepted.
- Session row: `completed` and `cancelled` are terminal (the code keeps this only if
  requests do not overlap, see `ended_session`); a session fails only if everything in it
  failed, and is left alone then; a session under review has something to review.
- Output rows: one scoring record per threat and a scenario for exactly the selected
  ones; a scenario goes when its threat goes; a regeneration replaces what it
  targets and nothing else; the first run writes up the N best threats.
- Admission: at most one active session per asset; one session per idempotency
  key; the loser of a race is told of the winner.
- Event stream: a client ends up with the state of the board, and where it does not,
  for a reason that can be named or in a stage that is completed without an event.
- Library: at most one active row per key; a race returns the winner's row; only what
  a reviewer accepted gets in; accepts of different sessions cannot block each other
  for ever.

## 2. Plan and modules

| # | module | what | theorems in |
|---|---|---|---|
| 1 | `StageBoard` | the board and its compare-and-sets, as operators | `StageBoardFacts` |
| 2 | `TsgSession` | every process of one session over the board | `TsgSessionProofs`, `SessionSafetyProofs` |
| 3 | `SessionLifecycle` | abstract: what a session promises whoever watches its status; `TsgSession` implements it | `LifecycleProofs` |
| 4 | `Admission` | several creates: idempotency, one active session per asset, capacity, the errors a loser gets | `AdmissionProofs` |
| 5 | `Scoping` | score, rules, rank and cut-off, as operators | `OutputsProofs` |
| 6 | `Outputs` | the rows behind the levels, over the operators of 1 and 5 | `OutputsProofs` |
| 7 | `Library` | sessions grounded against the shared library and accepted at the same time | `LibraryProofs` |
| 8 | `EventStream` | a client that follows a session live | `EventStreamProofs` |

`MC...` modules give the constants of their module values for TLC.

How they fit: `StageBoard` is shared by `TsgSession` (who may do what to the board, and
when) and `Outputs` (what each stage does to the rows). `Outputs` relies on
`OneWorkerPerSubsystem` of `TsgSession` for taking one delivery at a time, and
`EventStream` on both for walking over the stages. `Library` and `Admission` concern
several sessions; what ends a session or takes it to its accept is `TsgSession`'s.

Modules to be proved about use no RECURSIVE operator; every bound is a CONSTANT
with a named assumption; one action stands for one transaction.

What could be added: the candidate rows that accept reviews later, several supporting
systems in `Outputs`, a negative top-N and weights that are not whole numbers, a proof of
`AcceptedUntouched`, and what still holds of locks when workers may be slow
(`OneWorkerPerSubsystem` fails then; what the epochs guarantee is proved with slow
workers).

## 3. The modules and the code

### StageBoard

Operators from a board to a board, one per guarded UPDATE of `dal.py` (and of
`_record_failure` in `tasks.py` and the sweep in `reaper.py`), so that
`TsgSession` and the proofs share them. A *cell* is a row: `status`, `epoch`,
`task` (`ActiveTaskID`), `lease` (ticks until `LeaseExpiresAt`; 0 is expired,
`NoLease` is NULL), `attempts`. Task ids are deterministic in the code
(`session:kind:target:epoch`), so a task is a record of kind, supporting system and
epoch, and a redelivery is the same record. `Verdict` is what
`decide_session_outcome` computes from the board. `Claimable` keeps the code's
condition: same epoch, below the attempts cap, and IDLE, ERROR, or RUNNING for
the same task. `Unlock` and `SetStage` keep the code's lack of one.

### TsgSession

One session. The variables are the session row, the board, for every supporting
system the levels that have an active row (`rows`), the rows accept marked
(`accepted`), the queue, one record per worker greenlet, the regeneration targets
that are still active (`live`) or were replaced by their own task before a crash
(`replaced`), the reaper's pass and the requests in flight.

A step is one transaction, atomic because the rows it writes stay locked until it
commits. Where the code SELECTs first and writes later, the SELECT is a step of
its own and its result may be stale:

| actions | code |
|---|---|
| `Take`, `CheckTarget`, `Wait`, `MissLock`, `StartSubsystem`, `ClaimStage`, `StartRegen`, `Reground`, `Resume`, `FinishStage`, `FailStage`, `FailLocked`, `Release`, `Decide`, `Outcome` | one delivery: `run_pipeline`, `_process_all_supporting_systems` and the stage functions in `tasks.py`, `run_regeneration` in `cascade.py` |
| `Crash`, `Duplicate` | Celery with acks late: a dead worker's task is delivered again (or lost), a slow one's too (visibility timeout) |
| `Scan`, `SweepExpired`, `Find`, `BlockReaper`, `CloseOut`, `GiveBack`, `ReaperCrash` | `clean_up_abandoned_sessions` |
| `AcceptGate`, `AcceptRead`, `AcceptLock`, `AcceptFinish`, `AcceptAbort` | `accept_session` |
| `RegenGate`, `RegenReserve`, `RegenEnqueue` | the regenerate requests of `sessions.py` |
| `Cancel` | `post_cancel` |
| `Tick` | time: leases and the age of `UpdatedAt` |

Points that are easy to get wrong and are modelled as the code has them:

- The pipeline commits after each stage and claims the next in a transaction of
  its own; a regeneration finishes a stage and claims the next one in *one*
  transaction, and a `threat` regeneration regrounds its threat inside the
  transaction that takes the lock. A crash therefore loses different amounts of
  work.
- A failure before the transaction with the lock commits rolls the lock back, yet
  the `finally` block releases "the" lock: `FailLocked` goes to `releaseLost`.
- Accept's lock rows are uncommitted until it completes: invisible to snapshots,
  but they block other writers of those rows (`LockRowsBusy`).
- An `acquire_lock` that blocks on such a row (`Wait`, `BlockReaper`) re-reads the row when
  accept has committed, but not the session: the `EXISTS` of `dal.py:263-277` is read from
  the statement's start, when the session was active. `WinsLock` says so, with the worker's
  `waits`. What follows from it is below.
- The reaper's close-out decides inside the transaction that takes all locks, and
  gives the locks back in another one.
- `Abandoned` is the reaper's two-sided test: a row of this session expired in
  this pass, or the session has been idle for a whole lease.
- A stage may write nothing (an empty LLM answer), so `rows` changes
  nondeterministically where the code inserts what the LLM returned.

What is abstracted: rows are present or absent per level, LLM calls return, fail
or take long. What is left out: audit rows, the prompt log, the
`CurrentSubsystemIndex` column, reaper passes that overlap. The other transactions that
write a `_LOCK` row (a worker's, the reaper's) are one step each, so nobody is seen waiting
for them: the row they leave is either taken, and the wait is a miss, or was released
without a change of the session, and the wait is as if the statement had begun later.

`RequestsOverlap` is FALSE where a reviewer sends a request only while the session is
active and no other request is in progress (`MayAsk`).

*What the session gate does not close.* `dal.py:260-262` says that the gate of
`acquire_lock` "closes the race where a redelivered task (or the reaper) resumes/mutates a
session that was concurrently cancelled/completed". One way remains, and TLC finds it when
`waits` is struck out of `OnlyWaitersAreLate`: accept holds the uncommitted `_LOCK` rows; a
repeated delivery calls `acquire_lock` and waits; accept completes the session, frees the
locks and commits; the UPDATE of the waiting delivery finds the row IDLE and, in its
snapshot, an active session: it takes the lock and goes through the stages of a session
that is completed. `OnlyWaitersAreLate` says that there is no other way in, and
`AcceptedUntouched` that what such a delivery runs is a stage that had failed elsewhere, never
one of a supporting system whose scenarios were accepted.

*What the epochs do not keep out.* A claim is guarded by the epoch, `set_stage` is not. A
regenerate request checks the lock before its compare-and-set and takes none, so it can
reset a level on which a task is at work: one that was queued for a review that another
process brought about, or that a stale verdict announced too early (`Outcome` of a board
read before the reset). When that task is done, its `set_stage` turns the row, IDLE by then
and of the new epoch, into COMPLETE or AWAITING_DECISION; the new task's claim misses, and
the review shows what was there before the request. `GenerationsMatch` is about RUNNING
rows and does not say otherwise.

### SessionLifecycle

The abstract specification: a session is worked on until it goes to review or is
given up; a review can be accepted, sent back to work, or cancelled; `completed` and
`cancelled` are ends (`enums.py:18-19`). Workers, stages, leases, the reaper and the queue
do not appear. `TsgSession` ends with the refinement
mapping: `Phase` is computed from the session row and an accept in flight is
`deciding`; `ImplementsLifecycle` (safety) and `ImplementsFairLifecycle` (with `WF` of
announcing or giving up) are the abstract specification under that mapping.

The life cycle is the documented one, not what the code makes of it. `complete_session`
and `cancel_session` update the row without a condition and `post_cancel` does not look at
the status, so a request that overlaps with another, or follows the end, breaks it:
accept completes a session that was cancelled while it held the locks, or whose level a
regenerate request has reset, and a cancel takes a completed session. `TsgSession`
implements the life cycle where the requests come one after another (`RequestsOverlap`
FALSE); the runs `ended_session` and `accept_race` show what happens otherwise. That
redeliveries, a reaper with a stale scan and workers with stale verdicts keep to it all
the same is the part of the refinement that needs proof.

### Admission

`POST /v1/sessions` served by several threads. `sessions` are the committed rows
by id, `serving` the request of each thread, `queue` the sessions whose task was
enqueued; `answers` is a history of what clients were told and `issued` counts
the ids drawn. A request passes through `Receive`, `CheckKey` and `CheckCapacity`
(plain SELECTs, so stale when used), `Gather` (the asset's details; may refuse),
`Insert`, `Commit` and `Enqueue`; `Fail` is a crash or a failed statement at any
point, and `End(id)` stands for everything in `TsgSession` that ends a session.

- `Insert` waits while another thread holds an uncommitted row with the same key
  or asset (`Blocked`) and is rejected if either unique index has a committed one.
- The `IntegrityError` handler looks for the winner in two later SELECTs,
  `WhoByKey` and `WhoByAsset`; the session it lost to may have ended by then, and
  a 409 may name nobody.
- The key's index covers ended sessions as well, the asset's index active ones only.
- The row is committed before the task is enqueued, and stays if that fails.

The handler `create_session` reads `body.entity` and `body.sector` (`sessions.py:122-149`) and the
regenerate requests `body.subsystem_id` (`sessions.py:303` and after), while
`app/api/schemas.py` names these fields `entity_id`, `sector_id` and
`supporting_system_id`. As the code stands, these handlers raise `AttributeError`
after validation, and a client that sends the old names is refused before it. That is
a rename half done, not protocol; the models take the two names for one field.

### Scoping

`score_threats` as operators over a list of threats (a function from ThreatIDs):
`Matches` and `Matched` are a rule's comparison, with its coercions (numbers that are
written differently are equal, booleans are not numbers, an empty rule value is a value
and only NULL means the key's default), `PassesGates`, `Score`, `Rank` and `Selection`.
Rules with unknown keys, absent fields or malformed weights have the effect the code
gives them, which is none. `Selection` is the code's loop with its counter; `BestOf` is
what the configuration promises of it (the N best over the threshold), and
`SelectionIsBest` in `MCOutputs` compares the two for every list of up to three threats
and every cut-off, with a rule of every kind. TLC evaluates it before the run `outputs`;
`ScoringSelectsTheBest` proves it for every list. A negative top-N, which `config.py:215`
does not exclude and with which nothing is selected, is not modelled.

### Outputs

The rows of one supporting system. Superseding is removing: the code reads no
superseded row, except through an active scenario, which keeps the ThreatID it was
written for. `threats` and `scoped` are functions from ids; a ScopedThreatID is the
write that made it with the threat it scores; `outputs` are the scoring records that
have an active scenario. `requests` records what was asked of each task, by its epoch.

| actions | code |
|---|---|
| `Deliver` (`StartPipeline`, `StartScenarios`, `StartBroad`, `StartThreats`, `Resume`) | `_process_all_supporting_systems`; `run_regeneration` up to its first claim, by granularity, including the redelivery of a `threat` regeneration whose targets are already replaced |
| `Reground` | `_reground_one_threat` with the claims around it |
| `ClaimNext`, `WriteProfile`, `FindThreats`, `WriteScenarios` | `write_profile`, `find_threats`, `write_scenarios` and what they supersede |
| `Crash`, `Fail`, `CloseOut` | a death with or without redelivery, a stage that raises, the reaper |
| `Regenerate` | the regenerate requests |

What the properties had to be weakened to, because the code does not do better:

- A `threat_type` or `threat_category` regeneration supersedes the old threats and
  hands only the *new* ids to `write_scenarios` (`tasks.py:352-361`, `cascade.py:268-279`), so
  the scenarios of the replaced threats stay active, which `cascade.py:175` describes as the
  failure to avoid ("a stale duplicate scenario would linger forever"). A `profile`
  regeneration that fails after its THREATS stage, or is delivered late, does too.
  `OrphansComeFromBroad` says that nothing else leaves a scenario without its threat.
- A type, category or profile regeneration that crashed between THREATS and SCENARIOS is
  redelivered with an empty list, and its new threats go to review without a score.
  `UnscoredNeedsMishap` says that a pipeline, scenario or threat task never does this by
  crashing alone.
- A task the reaper outran can be delivered under a later request and supersede the
  threats the later one is about (`WorkHasTask` excepts it).
- The top-N cut-off applies to what one call of `write_scenarios` ranks; after
  row-targeted regenerations a supporting system may have more than N scenarios.
  `FirstRunSelectsBest` is therefore about the first run.

### Library

Sessions are grounded against the library (`Ground`: any result that
`find_threat_in_library` can have, whatever the embeddings say), accepted
(`BeginAccept`: the choice of scenarios, and the check that their masters are active),
and their flagged threats promoted: one `Upsert` at a time (type, name, actors, links,
with the accept's own memo `resolved`), `Lookup` when the insert lost its race,
`RowDone`, `Commit`. `NoWinner` is a winner that was switched off in between,
`Deadlocked` the victim of a circle of waits, `Fail` any other failure, `SwitchOff` a
curator. Each accept is one transaction; what the database does (the filtered unique
index, an insert that waits for an uncommitted row of its key, reads of committed rows)
is external, taken from the indexes of the migrations and how `dal.py` relies on them.

- A type is promoted under the *parent* sector, if there is one, and matched in all
  sectors of the session: two sessions of different sub-sectors meet in one row.
- `LoserGetsWinner` is stated of sessions under one parent sector, at whatever time they
  promote; `SwitchedOff` is its only exception.
- The masters are checked once and not locked, so a curator can switch a type off
  between the check and the promotion of a name under it; `ParentWasActive` allows that
  (`stale`) and nothing else.

### EventStream

A client connects in two steps, as `session_events` does: it gets a board (`Connect`),
and only then the stream subscribes (`Subscribe`). The delivery publishes around its
commits in the code's order: the claim is committed *before* `stage_started`,
`stage_completed` goes out *before* the rows it is about are committed, `_record_failure`
publishes before its caller commits, the outcome is committed and then published by
whoever made the update. `Publish` is the breaker: a failed publish opens it, and while
it is open nothing is sent.

- The event of an outcome says what was decided (`tasks.py:489-491`, `519-521`), whatever
  has become of the session since. `news` holds the outcomes that are committed and not yet
  published; several deliveries can have one while the next is at work, because a reviewer
  who reads the session sees the review before the event goes out.
- A `threat` regeneration claims and completes THREATS itself (`cascade.py:249-261`),
  with `dal.claim_stage` and `dal.set_stage` and without the events of the other stages:
  `Reground`. `unheard` has the cells that were written so in this connection.

`gaps` collects why this connection may be wrong, and `ViewIsCurrent` says that the list
is complete: with none of them the client ends up with what the database holds, except in
`unheard` cells. Of those it may show anything from before: a client that connected
before the request goes on showing COMPLETE, which is right by luck, and one that connected
between the reset and `Reground` shows IDLE and is told no better.

| gap | when |
|---|---|
| `paused` | the breaker was open, or a publish failed |
| `unsubscribed` | published between the snapshot and the subscription, although `sessions.py:375` says a client that connects "never has to guess what it missed" |
| `announced early` | the snapshot was read after an event whose commit came later |
| `rolled back` | an event went out and its transaction did not commit, or a stage that an earlier delivery announced fails before it is announced again |
| `untold` | the worker died between the commit and the event, and its redelivery has no reason to repeat it |
| `outrun` | the event of an outcome went out when the session had gone elsewhere: a review is announced after its session was cancelled or completed, or failed in a later round |
| `reset` | a regeneration's failure covers stages whose reset was never published |
| `swept` | the reaper publishes nothing of the stages it fails |
| `ended` | accept and cancel publish nothing |

Each reason is needed, and so is `unheard`: with any one of them struck out TLC refutes
`ViewIsCurrent`. `ReviewIsShown` asks which of them can hide a review: the first two and
`untold` only.

What is left out: a second delivery at work at the same time (`slow_worker`), whose events
would mix with the first's.

## 4. The runs

Passing runs, and what each shows:

| run | instance | shows |
|---|---|---|
| `shared_session` | 2 supporting systems, 2 workers, one repeated delivery, accept, a cancel, requests in turn, reaper; no lease runs out under a live worker | `OneWorkerPerSubsystem`, `LockBacksWork`, `RunOwnsStage`, `OnlyWaitersAreLate`, `AcceptedUntouched`, `ReviewHasResults`, `AcceptedAtBarrier`, `ImplementsLifecycle` |
| `generations` | 1 supporting system, 1 worker, fair, two scenario or threat regenerations that may lose their task, a crash anywhere, failures under the lock | `GenerationsMatch`, `EpochOrder`, `OneTaskPerGeneration`, `FinishedIsFinal`, `ImplementsFairLifecycle` |
| `recovery` | 2 supporting systems, 1 worker, fair, one crash of worker or reaper, a task that may never be enqueued, one attempt per stage | `Settles`, `LocksEnd`, `FailedMeansAllFailed`, `FailedIsQuiet`, `TypeOK` |
| `admission` | 2 server threads, 3 requests over 2 entities, 2 assets and a key, a ceiling of 1, sessions that end | `TypeOK`, `OneActivePerAsset`, `KeyNamesOneSession`, `OvershootBounded` |
| `outputs` | 1 supporting system, 2 types in 2 categories, two regenerations of any granularity but `threat_category`, one mishap, with and without cut-offs | `TypeOK`, `ScenariosMatchScorings`, `OrphansComeFromBroad`, `UnscoredNeedsMishap`, `WorkHasTask`, `FirstRunSelectsBest`, `SiblingsUntouched`; and `SelectionIsBest` |
| `library` | 2 sessions of two sub-sectors of one sector, 2 proposals, a seeded type with a name and an actor, one failure and one curation | `TypeOK`, `PointersHold`, `LoserGetsWinner`, `OnlyAcceptedGrow`, `ActorsNeverInvented`, `ParentWasActive`, `AcceptEnds` |
| `events` | 2 supporting systems, one mishap, one regeneration of either kind, a client that reconnects at will | `ViewIsCurrent`, `ReviewIsShown` |

Runs that refute something a comment of the code says (see `findings` in
`PROJECT.json`; each quotes the line):

| run | refuted | how |
|---|---|---|
| `slow_worker` | `OneWorkerPerSubsystem` | the lock's lease is never renewed; the reaper frees it under a slow worker and a repeated delivery takes it |
| `accept_race` | `AcceptedAtBarrier` | a regenerate request takes no lock and commits between accept's locks and its completion |
| `blank_input` | `NoBlankInput` | a redelivered profile regeneration skips the profile it has and asks for threats from an empty one |
| `stale_decision` | `FailedMeansAllFailed` | the outcome is written from a board read before another delivery brought a stage to review |
| `ended_session` | `EndedIsFinal` | `cancel_session` updates the row whatever its status: a completed session is cancelled |

The properties of locks and of the barrier are checked where they hold, and these runs
show them refuted where they do not. The theorems of section 5 have the same conditions
as hypotheses, and a table there says what TLC finds without them. `shared_session`
therefore has neither slow workers, early failures nor regenerations, and its requests
come in turn (a cancel that overlaps with an accept is `ended_session`'s matter).
`FailedMeansAllFailed` and `FailedIsQuiet` are checked where deliveries do not overlap
(`recovery`): with two workers a verdict may be stale, and then a session fails with
somebody at work in it.

### Bounds, and why they are enough

- *Supporting systems* (`NumSubs` 1 or 2): they share nothing but the session row and
  the outcome; two show a failure next to a success, and a worker in one while
  another process is in the other.
- *Workers* 1 or 2: conflicts are between two parties; the second worker runs
  the repeated delivery or a regeneration. Crash and redelivery need one.
- `MaxAttempts` 2 lets a stage fail, be retried and reach the cap; `recovery` has 1
  to reach the cap early.
- `LeaseTicks` 1: one tick separates live from expired. With it the leases of a work row
  and of its lock expire together, so that no row is taken up again between the reaper's
  scan and its sweep. That the sweep looks at the row again before it writes matters from
  `LeaseTicks` 2 on: tried with `generations`, where `FinishedIsFinal` holds as well, and
  fails if the sweep does not look. The theorems hold for every lease.
- `MaxCrashes`, `MaxDuplicates`, `MaxCancels` 1, `MaxRegens` up to 2: each bound is
  an event the environment may add at any moment; two regenerations give a task
  older than the current generation, the case epochs exist for. In `Outputs` they let a
  regeneration of rows follow or precede a broad one.
- Workers are symmetric in the safety runs (no liveness is checked with symmetry).
- `admission`: two threads race and a third request comes after the race, so that
  what a key was answered before and after can be compared; the four bodies share
  the key across assets, the asset without the key, and both across entities.
- `outputs`: two threats per stage give a sibling to spare and a rank to lose, two types
  a type that is regenerated and one that is not. One mishap meets every step of every
  task. `threat_category` takes the path of `threat_type` through every action and
  differs in `InScope` alone; with all five granularities offered the run has 1.0M
  states, takes more than twice as long, and passes as well.
- `library`: two accepts race for a key; one proposal has no matching type and a
  category nobody knows, the other a known category and no name; an accept may fail (and be
  tried again) and a curator act in one behaviour.
- `events`: two supporting systems separate an error of one from the stages of the
  other. The client's connections have no bound. `MaxInFlight` 2 bounds the events on their
  way; a client is judged when none is, so a longer channel changes only when it catches
  up, and the theorems hold for any length.
- `CHECK_DEADLOCK FALSE` in `admission`, `outputs`, `library` and `events`: an API, a
  session and a stream rest when nothing more is asked of them and the bounds are used up.
- Deadlock is checked in every run of `TsgSession`: the reaper always has a pass to make, so what a
  deadlock would hide is covered by `Settles` and `LocksEnd`.

### Fairness

`FairSpec` is weak fairness of each worker's steps (a Celery worker that is up
keeps running its task and taking new ones), of the reaper's passes (the beat
schedule of `celery_app.py:45-47`), of requests already in flight (a request
ends or its transaction is rolled back), and of time. Nothing is assumed of crashes,
repeated deliveries or new requests, and in particular not that a task reaches the
queue or that a crashed one comes back: `Settles` has to survive that.

`Library` assumes strong fairness of each accept's steps: a request that began is
worked on, and an insert that waits for another accept's key is served once the key
comes free again and again (the database queues lock waits). Weak fairness would allow
the wait to be overtaken for ever; a circle of waits is no exception, since the database
fails one of its transactions (`Deadlocked`), and `AcceptEnds` needs that. `Admission`,
`Outputs` and `EventStream` state safety only and assume no fairness.

## 5. Proofs

`StageBoardFacts` has one lemma per operator of `StageBoard`: what it does to the
type of the board, to *soundness* (a RUNNING work row's task is of the row's epoch and
writes that level), and that it *advances* (no epoch changes, no finished stage
is undone). `TsgSessionProofs` proves, for every number of supporting systems and
workers and every value of the other constants, with slow workers and early
failures allowed:

| theorem | property |
|---|---|
| `TypeCorrect` | `TypeOK` |
| `GenerationsAlwaysMatch` | `GenerationsMatch` |
| `EpochsStayOrdered` | `EpochOrder` |
| `EpochsAreUnique` | `OneTaskPerGeneration` |
| `FinishedStaysFinished` | `FinishedIsFinal` (an action property) |

The inductive invariant `IInv` is the conjunction of `TypeOK`, `WellFormed` (a
busy worker has a task, of the supporting system it works on, and a running stage
that its task writes), `Sound` and `Ordered` of the board, and `IssuedOnce`: every
task ever issued, in the queue, in a worker, on a RUNNING row or still to be
enqueued by a request, carries an epoch no higher than its levels', and two tasks
with one supporting system and epoch are one task. `OneTaskPerGeneration` alone is
not inductive: a request that reserves an epoch must know that no *older* task
has it, and `next_epoch` looks only at the levels the new task touches. Ordered
epochs close that gap: every granularity touches SCENARIOS, the highest level, so the
new epoch exceeds every issued one.

All steps but one share the lemma `Progress` (they keep types, advance a sound
board and issue no task that was not issued), and each action has its own step
there; `RegenReserve`, the one step that changes epochs, has `ReserveKeeps`.

Assumptions on constants: `NumSubsAssumption`, `MaxAttemptsAssumption`,
`LeaseTicksAssumption` (positive naturals), `OfferedAssumption`, `TimingAssumption`,
`BoundsAssumption`.

`AdmissionProofs` proves, for any finite set of threads, any set of request
bodies, any ceiling and any number of requests:

| theorem | property |
|---|---|
| `AdmissionTypeCorrect` | `TypeOK` |
| `ActiveAssetsUnique` | `OneActivePerAsset` |
| `KeysAnsweredAlike` | `KeyNamesOneSession` |
| `OvershootIsBounded` | `OvershootBounded` |

Its `IInv` is `TypeOK` with five more parts. `Fresh`: no two requests in service, and
no request and no committed row, have the same id until the request commits it.
`Stored`: a request past its commit has its row. `Unique`: the two indexes hold
over committed rows (`OneActivePerAsset`, `OneSessionPerKey`), and over them together
with the rows waiting to commit (`Exclusive`): this is what an uncommitted insert that
blocks its rivals buys, and without it `Commit` preserves neither index. `Named`: an
answer that names a session names one with the same key. `Room`: active sessions and
the requests admitted past the capacity check together are within the bound; the
check adds a thread only when there is room, and a thread counts once. Most steps are
*quiet* (they change neither rows nor answers about a key), so the proof treats
`Receive`, `Insert`, `Commit` and `End` one by one and the rest together.

Assumptions: `ServersAssumption` (finite, not empty; the bound counts threads),
`BodiesAssumption`, `MaxActiveAssumption`, `MaxRequestsAssumption`.

`SessionSafetyProofs` proves the session's other invariants. Each holds only under the
conditions of its run, which are stated as hypotheses on the constants; for the rest the
theorems hold for every number of workers and supporting systems and every bound.
`Timely` is `~SlowWorkers`, `~EarlyFailures`, and no row-targeted regeneration.

| theorem | property | hypothesis |
|---|---|---|
| `ReviewsHaveResults` | `ReviewHasResults` | no regenerations (`MaxRegens = 0`) |
| `AcceptedStandsAtBarrier` | `AcceptedAtBarrier` | no regenerations |
| `OneWorkerFailsRightly` | `FailedMeansAllFailed` | one worker |
| `WorkersStayApart` | `OneWorkerPerSubsystem` | `Timely` |
| `LocksBackWork` | `LockBacksWork` | `Timely` |
| `LateDeliveriesWaited` | `OnlyWaitersAreLate` | `Timely` |
| `FailedSessionsAreLeftAlone` | `FailedIsQuiet` | `Timely`, one worker |
| `WorkersOwnTheirStage` | `RunOwnsStage` | `Timely`, no regenerations |

The hypotheses are what the code needs, with one exception:

| without | TLC refutes | because |
|---|---|---|
| `~SlowWorkers` | `OneWorkerPerSubsystem`, `LockBacksWork`, `OnlyWaitersAreLate`, `RunOwnsStage` | the lock's lease is never renewed (`slow_worker`) |
| `~EarlyFailures` | `LockBacksWork`, `RunOwnsStage`, `OnlyWaitersAreLate` with 2 workers, `OneWorkerPerSubsystem` with 3 workers and 2 repeated deliveries | a failure before the lock commits rolls it back, and the `finally` block then releases whoever has it by then |
| no row-targeted regenerations | `LockBacksWork`, `OnlyWaitersAreLate` (two regenerations or two repeated deliveries), `RunOwnsStage` | a target that has gone fails the task in the same way |
| no regenerations | `RunOwnsStage`, `ReviewHasResults`, `AcceptedAtBarrier` | a request resets rows whatever their status (`accept_race`) |
| one worker | `FailedMeansAllFailed`, `FailedIsQuiet` | the decision is written from a stale board (`stale_decision`) |

The exception is `OneWorkerPerSubsystem` with row-targeted regenerations: no counterexample
was found in small instances, and the theorem does not cover them. Of `FailedIsQuiet` only
the hypothesis of one worker was put to the test.

Four inductive invariants, all on top of `IInv`. `BarrierInv`: without regenerations the
barrier only fills up, so a session in review, a worker that means to announce one, and
what accept has read of the barrier all still find it there. `VerdictInv`: a worker about
to fail the session still sees an empty barrier, since only a worker fills it and there is
no other. `LockInv`: a worker that holds a lock has its row, alone, no worker is in
`releaseLost`, the reaper between its close-out and `GiveBack` has all locks and no worker
holds one, an accept in its transaction finds every lock free, and whoever works in a
completed session waited (`OnlyWaitersAreLate` is part of it: nobody holds a lock when accept
completes, and afterwards `WinsLock` admits waiters only). `LockBacksWork` alone is
not inductive: `GiveBack` and the release in `releaseLost` free lock rows unasked. That a
failed session is left alone follows in the same way with one worker: the worker that
fails it works on nothing else, and the reaper has all the locks (`FailsUnderLocks`). `RunInv` adds
that the row a worker has claimed is RUNNING in its task's name, under a lease that
outlives its lock's: this is why the reaper's sweep, which tests the row's lease and not
the lock's, cannot take the row from under a worker that is on time.

`LifecycleProofs` proves that `TsgSession` implements `SessionLifecycle`
(`SessionImplementsLifecycle`, for the property `ImplementsLifecycle`): every step is a
step of the life cycle or none under the refinement mapping. Its hypothesis is `Orderly`
(`~RequestsOverlap`), without which `ended_session` refutes it. Beside `IInv` it needs
`ReviewHeld`: a session in the REVIEW stage is active, no two requests are in flight, and
an accept in flight finds the session in review: no delivery, however late, and no reaper
moves a session out of review, since `Conclude` tests for it. The life cycle's constants
follow from those of `TsgSession`, so the theorem covers sessions with and without
regenerate and cancel requests.

`OutputsProofs` proves, for any types, categories, rules, cut-offs and orders of ids, and
any number of regenerations and mishaps:

| theorem | property |
|---|---|
| `RowsAreTyped` | `TypeOK` |
| `ScenariosAlwaysMatchScorings` | `ScenariosMatchScorings` |
| `RegenerationSparesSiblings` | `SiblingsUntouched` (an action property) |
| `PendingWorkHasTask` | `WorkHasTask` |
| `OrphansAreExplained` | `OrphansComeFromBroad` |
| `ReviewedThreatsAreScored` | `UnscoredNeedsMishap` |
| `FirstRunSelectsTheBest` | `FirstRunSelectsBest` (ids in a total order) |
| `ScoringSelectsTheBest` | `Selection` is `BestOf`, for every finite list with ids in a total order |

The second is inductive as it stands. For the third a delivery that writes scenarios
must be known to hold the targets of its own request (`WorkerOK`), which needs that its
epoch names that request and that later requests have later epochs (`RequestsOK`), which
in turn needs the order of epochs on the board (`BoardOK`, from `StageBoardFacts`). These
three are `IInv`. The others need to know what a delivery has still to do, in layers:

- `RowsOK`: types, and that a delivery ranks active threats only.
- `EpochsOK`, `StagesOK`: a level's epoch is that of the last request about it; a task in
  flight is the one its epoch was reserved for, once; a RUNNING level is its epoch's
  task's; and a delivery that asks for a stage has no earlier level left that it could
  claim.
- `FirstRunOK`: until the first run's scenarios are written nothing but its own full list
  of threats reaches `write_scenarios`; afterwards no task of the first run finds threats
  again. That a redelivery rebuilds the list from the rows is what makes this inductive.
- `CalmOK`, `HeldOK`: until the reaper fails a queued task, one request's task is in
  flight and it finds either the rows it is about or the ones it replaced them with
  (`Undone`); pending work with attempts left has such a task. `WorkHasTask` alone is not
  inductive: that a `threat` redelivery can *tell* what its first delivery did is the
  half of it that the code takes care of in `cascade.py`.
- `OrphansOK`: a scenario without its threat is excused for good, or a profile regeneration
  is about to replace it.
- `ScoredOK`: as long as nothing failed and no type, category or profile regeneration
  crashed (`Gentle`), whatever lacks a scoring record is owed by the pending task (`Owes`)
  and on the list of the delivery that reaches `write_scenarios` (`Takes`).

`ScoringSelectsTheBest` does what looks like an induction over the ranking without one.
`LeastNatural` (every set of naturals has a least element, from the library's
`WFMin`) shows that the loop's counter is, after each rank, the number of eligible threats so
far (`KeptCounts`): the least rank at which it is not has a predecessor at which it is. The
ranks are 1, 2, ... in the order of score and id (`Positions`, `Ranks`), a best set of a given
size is unique (`BestIsUnique`), and scores are numbers because the weights of finitely many
rules add up to one (`WeightsAddUp`), again by a least counterexample.

Assumptions: `OneSubsystem`, `OfferedAssumption`, `GroundingAssumption`,
`LimitsAssumption`; `RulesAssumption`, finitely many rules with a weight that is an
integer, absent or unreadable (`_rule_weight` in `scoping.py` makes a float of it; a NaN
would leave scores without an order); `CutoffsAssumption`, a top-N that is not negative. The
order of ids is a hypothesis of the two theorems about selection and of nothing else
(ThreatIDs are GUIDs, which have one); `MCOutputs` has TLC evaluate it for its own.

`LibraryProofs` proves, for any sessions, proposals, sectors, categories, verdicts and
finite set of seeded rows:

| theorem | property |
|---|---|
| `LibraryTypeCorrect` | `TypeOK`, with one active row per natural key |
| `PointersAlwaysHold` | `PointersHold` |
| `ParentsChecked` | `ParentWasActive` (an action property) |

Its `IInv` says where rows come from: a memoised row has the key it is remembered under
and is committed or the accept's own (`MemoOK`), only a running accept has uncommitted
rows (`WritersOK`), a promoted threat has its ids in the memo (`AcceptedOK`), and every
type an accept may use was active when it checked (`MastersOK`). `PointersHold` alone is
not inductive: `Commit` copies ids out of the memo, and nothing but `MemoOK` and
`WritersOK` says they are committed by then.

A second inductive invariant, `GInv`, relates rows to proposals: an uncommitted type or name
is in the memo of its writer for a proposal it took (`SourcesOK`), what accept takes is
flagged (`FlaggedOK`), the actors of a validated threat have committed rows (`ActorsOK`),
and what was promoted points to the rows of the keys its proposal says (`PromotedOK`). From
it follow

| theorem | property |
|---|---|
| `LibraryGrowsByAccepted` | `OnlyAcceptedGrow` |
| `InventedActorsStayOut` | `ActorsNeverInvented` |
| `LosersGetWinners` | `LoserGetsWinner` |

The last is where the unique index pays: two sessions that promoted one proposal under one
parent sector hold committed rows of one key, so one row, or two of which one was
switched off.

Assumptions: `NamesAssumption` (NULL is no row and no proposal), `SeedsAssumption`,
`BoundsAssumption`; `SectorsAssumption`, a session has no sector, its own, or its own and the
parent (`context.py:165`; `_default_sector_id` in `accept.py` reads the last);
`ActorKeysAssumption`, seeded actors have the key that their name gives.

`EventStreamProofs` proves, for any number of supporting systems (at least one:
`SubsAssumption`), mishaps, regenerations and events in flight (`BoundsAssumption`), and
without a hypothesis:

| theorem | property |
|---|---|
| `SettledViewIsCurrent` | `ViewIsCurrent` |
| `ReviewAlwaysShown` | `ReviewIsShown` |

The argument is about the board that the client will show once it has the events that are
on their way (`Leads`). If no gap occurred, that board differs from the database only in
cells that are *owed*, which the delivery has still to come to and will announce, and in
those that were written `unheard` (`Follows`); its phase is the database's, or an outcome
that brings it there is still `news`. A cell that was announced as finished and rolled back by a crash is
the next one that the redelivery does (`RedoneNext`), so that such a crash is no gap while
the session is worked on. Nothing is owed when the work is done, so a settled view agrees with
the database. `WorkInv` has what this needs of the delivery itself: the cell it is at is
RUNNING, and the ones behind it are not pending.

What stays with TLC: liveness (`Settles`, `LocksEnd`, `AcceptEnds`, the fair part of the
refinement, `ImplementsFairLifecycle`), which the prover cannot express under fairness,
and the five runs that refute something. Every invariant and every action property that
a passing run checks is stated by a theorem, except `AcceptedUntouched`; those of
`SessionSafetyProofs`, `ImplementsLifecycle` and `FirstRunSelectsBest` under the
hypotheses above.

## 6. Not modelled

- LLM gateway (`llm.py`): providers, prompts, parsing. Time-outs and retries are those of
  the client library it calls; in the models a call returns, returns nothing, fails, or
  is slow.
- Embeddings and local models (`embeddings.py`, `local_models.py`): numbers, and
  caches of them whose entries do not depend on who computes them. In `Library` their verdict is any
  band for any candidate.
- Of grounding: the thresholds between bands and the choice of the best candidate.
- Of accept: the candidate rows written for later curation, the flags on profiles, audit.
- Of the API: authentication and authorisation, response shapes of the read endpoints.
- Context gathering, error mapping, schemas, health, configuration, logging, engine:
  stateless or wiring. Settings appear as constants.
- Migrations and start-up checks: the unique indexes they create are modelled where they
  matter (`Admission`, `Library`); the duplicate-row check of `db/invariants.py` is what
  `ScenariosMatchScorings` says of every reachable state.
- Several supporting systems in `Outputs`: they share no output row.

## 7. Running

    tlc -workers 2 -config shared_session.cfg MCTsgSession.tla
    tlc -workers 2 -config admission.cfg MCAdmission.tla
    tlc -workers 2 -config outputs.cfg MCOutputs.tla
    tlc -workers 2 -config library.cfg MCLibrary.tla
    tlc -workers 2 -config events.cfg MCEventStream.tla
    tlapm TsgSessionProofs.tla      # and the other ...Proofs modules; OutputsProofs takes longest

The other runs use `MCTsgSession.tla`. The longest take two to three minutes.

`PROJECT.json` lists the runs, for every checked property a mutated definition
that breaks it, the source lines of every definition, the hazards and the
findings.

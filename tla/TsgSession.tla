----------------------------- MODULE TsgSession -----------------------------
(***************************************************************************)
(* The life of ONE scenario session: the Celery workers that run its       *)
(* pipeline and its regenerations, the reaper, and the API requests that   *)
(* accept, regenerate and cancel it, over the session row and the stage    *)
(* board they share.                                                       *)
(*                                                                         *)
(* A step of a process is one database transaction, which is atomic: the   *)
(* rows it writes are row-locked until it commits.  A plain SELECT reads   *)
(* the last committed rows without locking them (RCSI), so where the code  *)
(* SELECTs first and writes later, the SELECT is a step of its own and     *)
(* its result may be stale when it is used.                                *)
(***************************************************************************)
EXTENDS StageBoard

CONSTANTS
    Workers,         \* worker greenlets that execute deliveries
    Offered,         \* the granularities the reviewer asks to regenerate at
    SlowWorkers,     \* may a lease run out under a worker that is still alive?
    EarlyFailures,   \* may a task fail before its first commit?
    RequestsOverlap, \* may a request arrive while another runs, or after the session's end?
    MaxCrashes,      \* bound: processes that die
    MaxDuplicates,   \* bound: deliveries repeated while the first still runs
    MaxRegens,       \* bound: regeneration requests that get past the gate
    MaxCancels       \* bound: cancel requests

ASSUME OfferedAssumption == Offered \subseteq Granularities
ASSUME TimingAssumption  == {SlowWorkers, EarlyFailures, RequestsOverlap} \subseteq BOOLEAN
ASSUME BoundsAssumption  ==
    MaxCrashes \in Nat /\ MaxDuplicates \in Nat /\ MaxRegens \in Nat /\ MaxCancels \in Nat

VARIABLES
    session,   \* the Scenario_Session row; idle: ticks since UpdatedAt
    board,     \* its Subsystem_Stage_State rows
    rows,      \* per supporting system, the levels with an active (not superseded) row
    accepted,  \* supporting systems whose rows carry Accepted = 1
    queue,     \* tasks waiting at the broker
    worker,    \* the delivery each worker executes
    live,      \* row-targeted regeneration tasks whose target row is still active
    replaced,  \* threat regenerations whose deterministic replacement is active
    reaper,    \* the reaper's pass
    accept,    \* an accept request in flight
    regen,     \* a regenerate request in flight
    spent      \* how much of each bound is used

dbVars     == <<session, board, rows, accepted, live, replaced>>
brokerVars == <<queue, worker>>
apiVars    == <<accept, regen>>
vars       == <<dbVars, brokerVars, reaper, apiVars, spent>>

-----------------------------------------------------------------------------
(* The session row.                                                        *)

SessionStatuses == {"active", "completed", "cancelled"}
WorkflowStages  == {"PROFILE", "THREAT_IDENTIFICATION", "SCENARIO_GENERATION",
                    "REVIEW", "APPROVED", "CANCELLED"}

Created == [status |-> "active", stage |-> "PROFILE", stageStatus |-> "IDLE", idle |-> 0]

Active   == session.status = "active"
Terminal == ~Active
AtReview == session.stage = "REVIEW" /\ session.stageStatus = "AWAITING_DECISION"
Undecided == Active /\ session.stage # "REVIEW"

InReview(s)  == [s EXCEPT !.stage = "REVIEW", !.stageStatus = "AWAITING_DECISION", !.idle = 0]
Cancelled(s) == [s EXCEPT !.status = "cancelled", !.stage = "CANCELLED",
                          !.stageStatus = "CANCELLED", !.idle = 0]
Completed(s) == [s EXCEPT !.status = "completed", !.stage = "APPROVED", !.idle = 0]

RegenStage(kind) ==
    CASE kind = "profile"  -> "PROFILE"
      [] kind = "scenario" -> "SCENARIO_GENERATION"
      [] OTHER             -> "THREAT_IDENTIFICATION"

\* (mutation) the outcome is written only from the stage a session is created in
ConcludeFirstRun(s, verdict) ==
    IF s.status = "active" /\ s.stage = "PROFILE"
    THEN CASE verdict = "review" -> InReview(s)
           [] verdict = "fail"   -> Cancelled(s)
           [] OTHER              -> s
    ELSE s

\* (mutation) the outcome is written without looking at the session row
ConcludeUngated(s, verdict) ==
    CASE verdict = "review" -> InReview(s)
      [] verdict = "fail"   -> Cancelled(s)
      [] OTHER              -> s

\* The compare-and-set both outcomes of decide_session_outcome share.
Conclude(s, verdict) ==
    IF s.status = "active" /\ s.stage # "REVIEW"
    THEN CASE verdict = "review" -> InReview(s)
           [] verdict = "fail"   -> Cancelled(s)
           [] OTHER              -> s
    ELSE s

-----------------------------------------------------------------------------
(* Workers.                                                                *)

\* waits: its acquire_lock has waited for the _LOCK row
Idle == [pc |-> "idle", task |-> NoTask, ss |-> 0, stage |-> "none", blank |-> FALSE,
         waits |-> FALSE]

WorkerPCs == {"idle", "target", "lock", "resume", "claim", "run", "release",
              "releaseLost", "toDecide", "toReview", "toFailed"}

At(w, pc)    == worker[w].pc = pc
Working(w)   == worker[w].pc \in {"claim", "run"}
Holding(w)   == worker[w].pc \in {"claim", "run", "release"}
Go(w, pc)    == worker' = [worker EXCEPT ![w].pc = pc, ![w].stage = "none",
                                         ![w].blank = FALSE]
GoTo(w, pc, stage, blank) ==
    worker' = [worker EXCEPT ![w].pc = pc, ![w].stage = stage, ![w].blank = blank]

\* Accept's uncommitted write of the _LOCK rows blocks every other writer of them.
LockRowsBusy == accept.pc = "locked"
\* acquire_lock, by a statement that finds its row unlocked.
CanLock(ss) == LockFree(board, ss) /\ Active

\* (mutation) acquire_lock without its session gate
WinsLockUngated(w) == LockFree(board, worker[w].ss)

\* Its subquery on the session reads what was committed when the UPDATE began: after a
\* wait for the row, its status is checked as it is now, the session as it was then.
WinsLock(w) == LockFree(board, worker[w].ss) /\ (Active \/ worker[w].waits)

Targeted(t) == t.kind \in {"scenario", "threat"}

Upstream(l) == IF l = "SCENARIOS" THEN "THREATS" ELSE "PROFILE"
Later(l)    == CASE l = "PROFILE" -> {"THREATS", "SCENARIOS"}
                 [] l = "THREATS" -> {"SCENARIOS"}
                 [] OTHER         -> {}

\* A missed claim changes nothing and a regeneration goes on to its next level:
\* the first of these levels it manages to claim, if any.
FirstClaim(b, t, levels) ==
    LET claimable == {l \in levels : Claimable(b, t.ss, l, t)}
    IN  CHOOSE l \in claimable : \A k \in claimable : l \notin Later(k)

\* Does a regeneration's stage call at l get an empty profile or threat list?
\* The profile and threats it did not write in THIS delivery are not read back,
\* except the profile for a threat type or category, and the threat list for a
\* single scenario or threat.
BlankInput(t, l, justWrote) ==
    CASE t.kind \in {"scenario", "threat"} -> FALSE
      [] t.kind \in {"threat_type", "threat_category"} /\ l = "THREATS"
                                           -> "PROFILE" \notin rows[t.ss]
      [] OTHER                             -> l # "PROFILE" /\ justWrote # Upstream(l)

\* Go on with a regeneration, in the transaction that made the board b.
Continue(w, b, levels, justWrote) ==
    LET t == worker[w].task
        l == FirstClaim(b, t, levels)
    IN  IF \E k \in levels : Claimable(b, t.ss, k, t)
        THEN /\ board' = Claim(b, t.ss, l, t)
             /\ GoTo(w, "run", l, BlankInput(t, l, justWrote))
        ELSE /\ board' = b
             /\ Go(w, "release")

\* The next supporting system of a pipeline task; a regeneration has only one.
NextSub(w) ==
    LET ss == worker[w].ss
    IN  IF worker[w].task.kind = "pipeline" /\ ss < NumSubs
        THEN worker' = [worker EXCEPT ![w] = [Idle EXCEPT !.pc = "lock", !.ss = ss + 1,
                                                          !.task = PipelineTask]]
        ELSE Go(w, "toDecide")

-----------------------------------------------------------------------------
(* What a stage's commit does to the rows it supersedes and inserts, and   *)
(* to the rows that pending regenerations and requests target.             *)

TargetLevel(t) == IF t.kind = "scenario" THEN "SCENARIOS" ELSE "THREATS"

\* Active rows of ss after a stage of t wrote level l.  The LLM may have found
\* nothing to write, and a scenario needs a threat to be about.  A row-scoped stage
\* supersedes its targets only, so the siblings' rows stay; a blank input writes
\* nothing over what an unscoped stage superseded.
RowsAfter(ss, t, l, blank) ==
    LET with     == rows[ss] \union {l}
        without  == rows[ss] \ {l}
        unscoped == t.kind \in {"pipeline", "profile"}
    IN  CASE l = "PROFILE" -> {with}
          [] l = "THREATS" \/ t.kind = "scenario" -> {with, without}
          [] OTHER -> (IF unscoped THEN {without} ELSE {rows[ss]}) \union
                      (IF "THREATS" \in rows[ss] /\ ~blank THEN {with} ELSE {})

\* Targets that a stage of t at level l supersedes: all of that level in an
\* unscoped stage, its own and perhaps others' in a scoped one.
Retires(ss, t, l) ==
    LET there == {u \in live \union replaced : u.ss = ss /\ TargetLevel(u) = l}
        own   == {t} \intersect there
    IN  CASE t.kind \in {"pipeline", "profile"}              -> {there}
          [] t.kind = "scenario"                             -> {own \union g : g \in SUBSET there}
          [] t.kind # "threat" /\ l = "THREATS"              -> SUBSET there
          [] OTHER                                           -> {{}}

Supersede(ss, t, l) ==
    LET unscoped == t.kind \in {"pipeline", "profile"}
    IN \E gone \in Retires(ss, t, l) :
        /\ live' = live \ gone
        /\ replaced' = replaced \ gone
        /\ regen' = IF unscoped /\ regen.ss = ss /\ TargetLevel(regen) = l
                    THEN [regen EXCEPT !.fresh = FALSE] ELSE regen

-----------------------------------------------------------------------------
(* One delivery of a task, transaction by transaction.                     *)

Take(w) ==
    /\ At(w, "idle")
    /\ \E t \in queue :
        /\ queue' = queue \ {t}
        /\ worker' = [worker EXCEPT ![w] =
              IF t.kind = "pipeline"
              THEN [Idle EXCEPT !.pc = "lock", !.task = t, !.ss = 1]
              ELSE [Idle EXCEPT !.pc = "target", !.task = t, !.ss = t.ss]]
    /\ UNCHANGED <<dbVars, reaper, apiVars, spent>>

\* The pre-lock check of a regeneration's target: still active, or replaced by
\* this very task before it crashed, or gone.  An error here ends the delivery
\* without touching the rows.
CheckTarget(w) ==
    LET t == worker[w].task
    IN  /\ At(w, "target")
        /\ \/ CASE Targeted(t) => t \in live -> Go(w, "lock")
               [] t \in replaced            -> Go(w, "resume")
               [] OTHER                     -> Go(w, "toDecide")
           \/ EarlyFailures /\ Go(w, "toDecide")
        /\ UNCHANGED <<dbVars, queue, reaper, apiVars, spent>>

\* acquire_lock begins while accept has the row, and waits.  The other transactions
\* that write a _LOCK row are steps: a wait for them ends in a miss, or as if the
\* statement had begun after it.
Wait(w) ==
    /\ worker[w].pc \in {"lock", "resume"} /\ ~worker[w].waits
    /\ LockRowsBusy /\ Active
    /\ worker' = [worker EXCEPT ![w].waits = TRUE]
    /\ UNCHANGED <<dbVars, queue, reaper, apiVars, spent>>

\* acquire_lock loses: the pipeline passes on to the next supporting system, a
\* regeneration to the session's outcome.
MissLock(w) ==
    /\ worker[w].pc \in {"lock", "resume"}
    /\ ~LockRowsBusy
    /\ ~WinsLock(w)
    /\ NextSub(w)
    /\ UNCHANGED <<dbVars, queue, reaper, apiVars, spent>>

\* Lock, session touch and PROFILE claim commit together; a missed claim leaves
\* the worker to try THREATS.
StartSubsystem(w) ==
    LET t == worker[w].task
        ss == worker[w].ss
        b == Lock(board, ss, t)
    IN  /\ At(w, "lock") /\ t.kind = "pipeline"
        /\ ~LockRowsBusy /\ WinsLock(w)
        /\ session' = [session EXCEPT !.idle = 0]
        /\ IF Claimable(b, ss, "PROFILE", t)
           THEN board' = Claim(b, ss, "PROFILE", t) /\ GoTo(w, "run", "PROFILE", FALSE)
           ELSE board' = b /\ GoTo(w, "claim", "THREATS", FALSE)
        /\ UNCHANGED <<rows, accepted, live, replaced, queue, reaper, apiVars, spent>>

\* A pipeline task claims the next stage in a transaction of its own.  It reads
\* back what an earlier delivery wrote, which is nothing if that never finished.
ClaimStage(w) ==
    LET t == worker[w].task
        ss == worker[w].ss
        l == worker[w].stage
    IN  /\ At(w, "claim")
        /\ IF Claimable(board, ss, l, t)
           THEN /\ board' = Claim(board, ss, l, t)
                /\ GoTo(w, "run", l, l = "THREATS" /\ "PROFILE" \notin rows[ss])
           ELSE /\ board' = board
                /\ IF l = "THREATS" THEN GoTo(w, "claim", "SCENARIOS", FALSE)
                                    ELSE Go(w, "release")
        /\ UNCHANGED <<session, rows, accepted, live, replaced, queue, reaper, apiVars, spent>>

\* A regeneration takes its lock, looks at its target again and claims its first
\* stage.  A target gone by now is a failure like any other (FailLocked).
StartRegen(w) ==
    LET t == worker[w].task
    IN  /\ At(w, "lock") /\ t.kind \notin {"pipeline", "threat"}
        /\ ~LockRowsBusy /\ WinsLock(w)
        /\ Targeted(t) => t \in live
        /\ Continue(w, Lock(board, t.ss, t), LevelsOf(t.kind), "none")
        /\ UNCHANGED <<session, rows, accepted, live, replaced, queue, reaper, apiVars, spent>>

\* A threat regeneration re-grounds its threat, which supersedes the threat and
\* its scenario, and claims SCENARIOS, all in the transaction that took the lock.
Reground(w) ==
    LET t == worker[w].task
        b == Lock(board, t.ss, t)
        done == SetStage(Claim(b, t.ss, "THREATS", t), t.ss, "THREATS", "COMPLETE")
        others == {u \in live \union replaced : u.ss = t.ss} \ {t}
    IN  /\ At(w, "lock") /\ t.kind = "threat"
        /\ ~LockRowsBusy /\ WinsLock(w) /\ t \in live
        /\ IF Claimable(b, t.ss, "THREATS", t)
           THEN /\ Continue(w, done, {"SCENARIOS"}, "THREATS")
                /\ \E gone \in SUBSET others :
                    /\ live' = live \ (gone \union {t})
                    /\ replaced' = (replaced \ gone) \union {t}
                /\ \E r \in {rows[t.ss], rows[t.ss] \ {"SCENARIOS"}} :
                    rows' = [rows EXCEPT ![t.ss] = r]
           ELSE /\ board' = b
                /\ Go(w, "release")
                /\ UNCHANGED <<live, replaced, rows>>
        /\ UNCHANGED <<session, accepted, queue, reaper, apiVars, spent>>

\* A threat regeneration that crashed after Reground goes on with its scenario.
Resume(w) ==
    LET t == worker[w].task
        b == Lock(board, t.ss, t)
    IN  /\ At(w, "resume")
        /\ ~LockRowsBusy /\ WinsLock(w)
        /\ IF t \in replaced THEN Continue(w, b, {"SCENARIOS"}, "THREATS")
                             ELSE board' = b /\ Go(w, "release")
        /\ UNCHANGED <<session, rows, accepted, live, replaced, queue, reaper, apiVars, spent>>

\* The LLM answered: supersede, insert and set_stage.  The pipeline commits here;
\* a regeneration commits with its next claim.
FinishStage(w) ==
    LET t == worker[w].task
        ss == worker[w].ss
        l == worker[w].stage
        done == SetStage(board, ss, l, IF l = "SCENARIOS" THEN "AWAITING_DECISION"
                                                          ELSE "COMPLETE")
    IN  /\ At(w, "run")
        /\ IF t.kind # "pipeline"
           THEN Continue(w, done, LevelsOf(t.kind) \intersect Later(l), l)
           ELSE /\ board' = done
                /\ CASE l = "PROFILE" -> GoTo(w, "claim", "THREATS", FALSE)
                     [] l = "THREATS" -> GoTo(w, "claim", "SCENARIOS", FALSE)
                     [] OTHER         -> Go(w, "release")
        /\ \E r \in RowsAfter(ss, t, l, worker[w].blank) : rows' = [rows EXCEPT ![ss] = r]
        /\ Supersede(ss, t, l)
        /\ UNCHANGED <<session, accepted, queue, reaper, accept, spent>>

\* A stage raises: _record_failure rolls back and flags the pending rows.
FailStage(w) ==
    /\ Working(w)
    /\ board' = FailPending(board, {worker[w].ss})
    /\ Go(w, "release")
    /\ UNCHANGED <<session, rows, accepted, live, replaced, queue, reaper, apiVars, spent>>

\* The same, before the transaction that took the lock ever committed: the
\* rollback gives the lock up, and what follows goes on without it.
FailLocked(w) ==
    LET t == worker[w].task
    IN  /\ worker[w].pc \in {"lock", "resume"}
        /\ ~LockRowsBusy /\ WinsLock(w)
        /\ EarlyFailures \/ (At(w, "lock") /\ Targeted(t) /\ t \notin live)
        /\ board' = FailPending(board, {worker[w].ss})
        /\ Go(w, "releaseLost")
        /\ UNCHANGED <<session, rows, accepted, live, replaced, queue, reaper, apiVars, spent>>

\* release_lock asks nobody whose lock it is.
Release(w) ==
    /\ worker[w].pc \in {"release", "releaseLost"}
    /\ ~LockRowsBusy
    /\ board' = Unlock(board, {worker[w].ss})
    /\ NextSub(w)
    /\ UNCHANGED <<session, rows, accepted, live, replaced, queue, reaper, apiVars, spent>>

\* decide_session_outcome reads the board, ...
Decide(w) ==
    /\ At(w, "toDecide")
    /\ CASE Verdict(board) = "review" -> Go(w, "toReview")
         [] Verdict(board) = "fail"   -> Go(w, "toFailed")
         [] OTHER                     -> worker' = [worker EXCEPT ![w] = Idle]
    /\ UNCHANGED <<dbVars, queue, reaper, apiVars, spent>>

\* ... and in a later statement flips the session by what it read.
Outcome(w) ==
    /\ worker[w].pc \in {"toReview", "toFailed"}
    /\ session' = Conclude(session, IF At(w, "toReview") THEN "review" ELSE "fail")
    /\ worker' = [worker EXCEPT ![w] = Idle]
    /\ UNCHANGED <<board, rows, accepted, live, replaced, queue, reaper, apiVars, spent>>

WorkerStep(w) ==
    \/ Take(w) \/ CheckTarget(w) \/ Wait(w) \/ MissLock(w) \/ StartSubsystem(w) \/ ClaimStage(w)
    \/ StartRegen(w) \/ Reground(w) \/ Resume(w) \/ FinishStage(w) \/ FailStage(w)
    \/ FailLocked(w) \/ Release(w) \/ Decide(w) \/ Outcome(w)

\* The process dies and its open transaction is rolled back.  The broker delivers
\* the unacknowledged task again, unless it lost it.
Crash(w) ==
    /\ ~At(w, "idle")
    /\ spent.crashes < MaxCrashes
    /\ spent' = [spent EXCEPT !.crashes = @ + 1]
    /\ queue' \in {queue, queue \union {worker[w].task}}
    /\ worker' = [worker EXCEPT ![w] = Idle]
    /\ UNCHANGED <<dbVars, reaper, apiVars>>

\* The broker takes a slow delivery for lost and delivers the task again.
Duplicate(w) ==
    /\ ~At(w, "idle") /\ worker[w].task \notin queue
    /\ spent.duplicates < MaxDuplicates
    /\ spent' = [spent EXCEPT !.duplicates = @ + 1]
    /\ queue' = queue \union {worker[w].task}
    /\ UNCHANGED <<dbVars, worker, reaper, apiVars>>

-----------------------------------------------------------------------------
(* The reaper, one pass at a time.                                         *)

NoPass == [pc |-> "idle", work |-> {}, locks |-> {}, dead |-> FALSE]

\* A snapshot of the expired rows; finding any proves the session's worker dead.
Scan ==
    /\ reaper.pc = "idle"
    /\ LET work  == ExpiredWork(board)
           locks == ExpiredLocks(board)
       IN  reaper' = [pc |-> "sweep", work |-> work, locks |-> locks,
                      dead |-> work # {} \/ locks # {}]
    /\ UNCHANGED <<dbVars, brokerVars, apiVars, spent>>

SweepExpired ==
    /\ reaper.pc = "sweep"
    /\ board' = Sweep(board, reaper.work, reaper.locks)
    /\ reaper' = [NoPass EXCEPT !.pc = "find", !.dead = reaper.dead]
    /\ UNCHANGED <<session, rows, accepted, live, replaced, brokerVars, apiVars, spent>>

\* (mutation) only a session with an expired row counts as abandoned
AbandonedIfDead == Undecided /\ ~HasLiveLease(board) /\ reaper.dead

Abandoned ==
    /\ Undecided
    /\ ~HasLiveLease(board)
    /\ reaper.dead \/ session.idle = LeaseTicks

Find ==
    /\ reaper.pc = "find"
    /\ reaper' = IF Abandoned THEN [NoPass EXCEPT !.pc = "close"] ELSE NoPass
    /\ UNCHANGED <<dbVars, brokerVars, apiVars, spent>>

\* It waits for accept at its first acquire_lock; the later ones read the session anew.
BlockReaper ==
    /\ reaper.pc = "close" /\ LockRowsBusy /\ Active
    /\ reaper' = [reaper EXCEPT !.pc = "blocked"]
    /\ UNCHANGED <<dbVars, brokerVars, apiVars, spent>>

LocksAll ==
    /\ \A ss \in Subs : LockFree(board, ss)
    /\ Active \/ (reaper.pc = "blocked" /\ NumSubs = 1)

\* Close the session out under all of its locks, or leave it alone.  A decision
\* commits with the locks taken, which a second transaction gives back.
CloseOut ==
    LET b == FailPending(board, Subs)
        concluded == Conclude(session, Verdict(b))
    IN  /\ reaper.pc \in {"close", "blocked"}
        /\ ~LockRowsBusy
        /\ IF LocksAll
           THEN /\ session' = concluded
                /\ IF concluded # session
                   THEN /\ board' = [ss \in Subs |-> Lock(b, ss, SessionHolder)[ss]]
                        /\ reaper' = [NoPass EXCEPT !.pc = "giveBack"]
                   ELSE board' = b /\ reaper' = NoPass
           ELSE reaper' = NoPass /\ UNCHANGED <<session, board>>
        /\ UNCHANGED <<rows, accepted, live, replaced, brokerVars, apiVars, spent>>

GiveBack ==
    /\ reaper.pc = "giveBack"
    /\ ~LockRowsBusy
    /\ board' = Unlock(board, Subs)
    /\ reaper' = NoPass
    /\ UNCHANGED <<session, rows, accepted, live, replaced, brokerVars, apiVars, spent>>

ReaperStep == Scan \/ SweepExpired \/ Find \/ BlockReaper \/ CloseOut \/ GiveBack

ReaperCrash ==
    /\ reaper.pc # "idle"
    /\ spent.crashes < MaxCrashes
    /\ spent' = [spent EXCEPT !.crashes = @ + 1]
    /\ reaper' = NoPass
    /\ UNCHANGED <<dbVars, brokerVars, apiVars>>

-----------------------------------------------------------------------------
(* API requests.                                                           *)

\* An orderly reviewer waits for an answer, and asks nothing of a session that ended.
MayAsk == RequestsOverlap \/ (Active /\ accept.pc = "idle" /\ regen.pc = "idle")

NoAccept == [pc |-> "idle", good |-> {}]

\* accept_session reads the session row, ...
AcceptGate ==
    /\ accept.pc = "idle" /\ AtReview /\ MayAsk
    /\ accept' = [NoAccept EXCEPT !.pc = "gated"]
    /\ UNCHANGED <<dbVars, brokerVars, reaper, regen, spent>>

\* ... then the supporting systems at the barrier, ...
AcceptRead ==
    /\ accept.pc = "gated"
    /\ accept' = [pc |-> "read", good |-> AtBarrier(board)]
    /\ UNCHANGED <<dbVars, brokerVars, reaper, regen, spent>>

\* ... then locks every supporting system, or gives up with a 409, ...
AcceptLock ==
    /\ accept.pc = "read"
    /\ accept' = IF \A ss \in Subs : CanLock(ss) THEN [accept EXCEPT !.pc = "locked"]
                                                 ELSE NoAccept
    /\ UNCHANGED <<dbVars, brokerVars, reaper, regen, spent>>

\* ... and marks what it read as accepted, completes the session and commits.
AcceptFinish ==
    /\ accept.pc = "locked"
    /\ accepted' = accept.good
    /\ session' = Completed(session)
    /\ accept' = NoAccept
    /\ UNCHANGED <<board, rows, live, replaced, brokerVars, reaper, regen, spent>>

\* A grounded master was deactivated, or the request dies: all is rolled back.
AcceptAbort ==
    /\ accept.pc = "locked"
    /\ accept' = NoAccept
    /\ UNCHANGED <<dbVars, brokerVars, reaper, regen, spent>>

NoRegen == [pc |-> "idle", ss |-> 0, kind |-> "profile", epoch |-> 1, fresh |-> FALSE]

\* A regenerate request passes its unlocked checks: the session is at review, the
\* target rows are active, nobody seems to hold the lock.
RegenGate(ss, kind) ==
    /\ regen.pc = "idle" /\ AtReview /\ MayAsk
    /\ spent.regens < MaxRegens
    /\ LET targeted == kind \in {"scenario", "threat"}
           request  == [NoRegen EXCEPT !.pc = "gated", !.ss = ss, !.kind = kind, !.fresh = TRUE]
       IN  /\ targeted => TargetLevel(request) \in rows[ss]
           /\ LockFree(board, ss)
           /\ regen' = request
    /\ spent' = [spent EXCEPT !.regens = @ + 1]
    /\ UNCHANGED <<dbVars, brokerVars, reaper, accept>>

\* It takes the session out of review, reserves an epoch and resets the levels, or
\* loses to another request.
RegenReserve ==
    LET e == NextEpoch(board, regen.ss, regen.kind)
        t == [kind |-> regen.kind, ss |-> regen.ss, epoch |-> e]
    IN  /\ regen.pc = "gated"
        /\ IF Active /\ session.stage = "REVIEW"
           THEN /\ session' = [session EXCEPT !.stage = RegenStage(regen.kind),
                                              !.stageStatus = "RUNNING", !.idle = 0]
                /\ board' = ResetForRegen(board, regen.ss, regen.kind, e)
                /\ live' = IF Targeted(t) /\ regen.fresh THEN live \union {t} ELSE live
                /\ regen' = [regen EXCEPT !.pc = "reserved", !.epoch = e, !.fresh = FALSE]
           ELSE regen' = NoRegen /\ UNCHANGED <<session, board, live>>
        /\ UNCHANGED <<rows, accepted, replaced, brokerVars, reaper, accept, spent>>

\* After the commit the task is put on the queue, or the process dies first.
RegenEnqueue ==
    /\ regen.pc = "reserved"
    /\ queue' \in {queue, queue \union {[kind |-> regen.kind, ss |-> regen.ss,
                                         epoch |-> regen.epoch]}}
    /\ regen' = NoRegen
    /\ UNCHANGED <<dbVars, worker, reaper, accept, spent>>

\* cancel_session does not look at what it cancels.
Cancel ==
    /\ MayAsk
    /\ spent.cancels < MaxCancels
    /\ spent' = [spent EXCEPT !.cancels = @ + 1]
    /\ session' = Cancelled(session)
    /\ UNCHANGED <<board, rows, accepted, live, replaced, brokerVars, reaper, apiVars>>

AcceptStep == AcceptRead \/ AcceptLock \/ AcceptFinish \/ AcceptAbort
RegenStep  == RegenReserve \/ RegenEnqueue

-----------------------------------------------------------------------------
(* Time.                                                                   *)

\* A live worker's lock, the oldest lease it holds, runs out with the next tick.
OnLastTick(w) == Holding(w) /\ board[worker[w].ss]["_LOCK"].lease <= 1

Tick ==
    /\ HasLiveLease(board) \/ session.idle < LeaseTicks
    /\ SlowWorkers \/ \A w \in Workers : ~OnLastTick(w)
    /\ board' = Elapse(board)
    /\ session' = [session EXCEPT !.idle = IF @ < LeaseTicks THEN @ + 1 ELSE @]
    /\ UNCHANGED <<rows, accepted, live, replaced, brokerVars, reaper, apiVars, spent>>

-----------------------------------------------------------------------------
\* The session is created and committed; its task is enqueued, or never.
Init ==
    /\ session = Created
    /\ board = SeededBoard
    /\ rows = [ss \in Subs |-> {}]
    /\ accepted = {}
    /\ queue \in {{}, {PipelineTask}}
    /\ worker = [w \in Workers |-> Idle]
    /\ live = {} /\ replaced = {}
    /\ reaper = NoPass
    /\ accept = NoAccept
    /\ regen = NoRegen
    /\ spent = [crashes |-> 0, duplicates |-> 0, regens |-> 0, cancels |-> 0]

Next ==
    \/ \E w \in Workers : WorkerStep(w) \/ Crash(w) \/ Duplicate(w)
    \/ ReaperStep \/ ReaperCrash
    \/ AcceptGate \/ AcceptStep
    \/ \E ss \in Subs, kind \in Offered : RegenGate(ss, kind)
    \/ RegenStep
    \/ Cancel
    \/ Tick

Spec == Init /\ [][Next]_vars

\* Everything that has begun goes on: a delivery, the reaper's scheduled passes, a
\* request in flight, and time.  Nobody has to crash, duplicate a delivery, or ask.
Fairness ==
    /\ \A w \in Workers : WF_vars(WorkerStep(w))
    /\ WF_vars(ReaperStep)
    /\ WF_vars(AcceptStep)
    /\ WF_vars(RegenStep)
    /\ WF_vars(Tick)

FairSpec == Spec /\ Fairness

-----------------------------------------------------------------------------
(* Properties.                                                             *)

WorkerRecord == [pc : WorkerPCs, task : Task \union {NoTask}, ss : 0..NumSubs,
                 stage : WorkLevels \union {"none"}, blank : BOOLEAN, waits : BOOLEAN]

\* Every variable keeps its type; in particular no row is claimed more often than
\* stage_max_attempts allows in one generation, whatever is redelivered.
TypeOK ==
    /\ session \in [status : SessionStatuses, stage : WorkflowStages,
                    stageStatus : Statuses \union {"CANCELLED"}, idle : 0..LeaseTicks]
    /\ board \in Board
    /\ rows \in [Subs -> SUBSET WorkLevels]
    /\ accepted \subseteq Subs
    /\ queue \subseteq Task
    /\ worker \in [Workers -> WorkerRecord]
    /\ live \subseteq Task /\ replaced \subseteq Task
    /\ reaper \in [pc : {"idle", "sweep", "find", "close", "blocked", "giveBack"},
                   work : SUBSET (Subs \X WorkLevels), locks : SUBSET Subs, dead : BOOLEAN]
    /\ accept \in [pc : {"idle", "gated", "read", "locked"}, good : SUBSET Subs]
    /\ regen \in [pc : {"idle", "gated", "reserved"}, ss : 0..NumSubs,
                  kind : Granularities, epoch : Nat \ {0}, fresh : BOOLEAN]
    /\ spent \in [crashes : 0..MaxCrashes, duplicates : 0..MaxDuplicates,
                  regens : 0..MaxRegens, cancels : 0..MaxCancels]

\* "Only one worker is ever allowed to touch one supporting system at a time"
\* (tasks.py): no two workers are ever between acquire_lock and release_lock of the
\* same supporting system, not even two deliveries of one task.
OneWorkerPerSubsystem ==
    \A v, w \in Workers :
        v # w /\ Working(v) /\ Working(w) => worker[v].ss # worker[w].ss

\* As long as a worker works on a supporting system, the _LOCK row says so, in its
\* task's name and under a live lease: nobody released or reclaimed it meanwhile.
LockBacksWork ==
    \A w \in Workers : Holding(w) =>
        LET lock == board[worker[w].ss]["_LOCK"]
        IN  lock.status = "RUNNING" /\ lock.task = worker[w].task /\ Live(lock)

\* A worker that waits for the LLM still owns the row it claimed before it let go
\* of its transaction: neither the reaper, nor a failure elsewhere, nor another
\* delivery has moved it, so set_stage may write it without a check of its own.
RunOwnsStage ==
    \A w \in Workers : At(w, "run") =>
        LET cell == board[worker[w].ss][worker[w].stage]
        IN  cell.status = "RUNNING" /\ cell.task = worker[w].task

\* acquire_lock's session gate "closes the race where a redelivered task (or the reaper)
\* resumes/mutates a session that was concurrently cancelled/completed" (dal.py) but for
\* one case: whoever works in a completed session has waited, in acquire_lock, for an
\* accept.  No other delivery, however late, gets in.
OnlyWaitersAreLate ==
    session.status = "completed" => \A w \in Workers : Working(w) => worker[w].waits

\* And whoever gets in leaves alone what was accepted: no stage runs, and so no row is
\* superseded, in a supporting system whose scenarios accept has marked, although the
\* session has others where a stage failed that may still be tried again.
AcceptedUntouched ==
    session.status = "completed" =>
        \A w \in Workers : At(w, "run") => worker[w].ss \notin accepted

\* A session that failed is left alone likewise: a task that waited in the queue until
\* the reaper gave its session up, or that is delivered again, begins nothing there.
FailedIsQuiet ==
    session.status = "cancelled" /\ spent.cancels = 0 =>
        \A w \in Workers : Working(w) => worker[w].waits

\* A session waits for its reviewer only if some supporting system has reached the
\* barrier: decide_session_outcome never offers an empty review.
ReviewHasResults == Active /\ session.stage = "REVIEW" => AtBarrier(board) # {}

\* What accept marked as accepted is what stands at the barrier when the session
\* completes, although accept reads the barrier before it takes the locks.
AcceptedAtBarrier == session.status = "completed" => accepted \subseteq AtBarrier(board)

\* A RUNNING row belongs to a task of the row's own generation, and to one whose
\* granularity writes that level: no late task runs under a newer epoch.
GenerationsMatch ==
    \A ss \in Subs, l \in WorkLevels :
        LET cell == board[ss][l]
        IN  cell.status = "RUNNING" =>
                cell.task.epoch = cell.epoch /\ l \in LevelsOf(cell.task.kind)

\* A level's generation is never older than that of a level it is made from, although
\* next_epoch looks at the touched levels only.
EpochOrder == \A ss \in Subs :
    /\ board[ss]["PROFILE"].epoch <= board[ss]["THREATS"].epoch
    /\ board[ss]["THREATS"].epoch <= board[ss]["SCENARIOS"].epoch

InFlight == queue \union {worker[w].task : w \in {v \in Workers : ~At(v, "idle")}}

\* An epoch tells regenerations of a supporting system apart: two different tasks in
\* flight never carry the same one, however old one of them is.
OneTaskPerGeneration ==
    \A t, u \in InFlight : t.ss = u.ss /\ t.epoch = u.epoch => t = u

\* Within one generation a finished stage stays finished: no redelivery, failure or
\* reaper pass undoes a COMPLETE or AWAITING_DECISION row; only a regeneration does,
\* under a new epoch.
FinishedIsFinal ==
    [][\A ss \in Subs, l \in WorkLevels :
          board[ss][l].status \in Finished /\ board'[ss][l].epoch = board[ss][l].epoch
              => board'[ss][l].status = board[ss][l].status]_vars

\* "if even one supporting system got as far as being ready for review, the session
\* goes to review instead, never to failed" (_mark_session_failed): unless somebody
\* asks to cancel it, a session that fails has nothing at the barrier.
FailedMeansAllFailed ==
    [][Active /\ session'.status = "cancelled" /\ UNCHANGED spent => AtBarrier(board) = {}]_vars

\* "completed" and "cancelled" are "terminal" (enums.py): a session that has ended once
\* does not end a second time another way, whatever is asked of it or was on its way.
EndedIsFinal == [][Terminal => session'.status = session.status]_vars

\* No stage asks the LLM to work from an empty profile or threat list for want of
\* what an earlier delivery of its task wrote.
NoBlankInput == \A w \in Workers : At(w, "run") => ~worker[w].blank

\* Every session that is created, and every regeneration, comes to a review or to an
\* end, whichever process dies and wherever, even if its task never reaches the queue.
Settles == Undecided ~> ~Undecided

\* No _LOCK is held for ever: a dead holder's is reclaimed, whoever held it.
LocksEnd == \A ss \in Subs : ~LockFree(board, ss) ~> LockFree(board, ss)

-----------------------------------------------------------------------------
(* The session as its reviewer sees it.                                    *)

Phase == IF Terminal THEN session.status
         ELSE IF session.stage = "REVIEW" THEN "review" ELSE "working"

Lifecycle == INSTANCE SessionLifecycle
                 WITH phase <- Phase, deciding <- accept.pc # "idle",
                      Regens <- MaxRegens > 0, Cancels <- MaxCancels > 0

\* The session implements SessionLifecycle: whatever is redelivered, swept, reset or
\* asked for in its turn, its row moves only along that life cycle.
ImplementsLifecycle == Lifecycle!Spec

\* The same with the life cycle's own promise that work on a session ends.
ImplementsFairLifecycle == Lifecycle!FairSpec
=============================================================================

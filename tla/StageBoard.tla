----------------------------- MODULE StageBoard -----------------------------
(***************************************************************************)
(* The Subsystem_Stage_State table of ONE session and the guarded UPDATEs  *)
(* of app/db/dal.py on it: one row (a "cell") per supporting system and    *)
(* level, claimed and released by compare-and-set.  Every operator here is *)
(* a function from a board to a board, or a predicate of a board; the      *)
(* processes that call them are in TsgSession.                             *)
(*                                                                         *)
(* Time is counted in ticks.  A lease is the number of ticks before it     *)
(* expires: 0 is an expired lease, NoLease is a NULL LeaseExpiresAt.       *)
(***************************************************************************)
EXTENDS Integers, FiniteSets

CONSTANTS
    NumSubs,         \* supporting systems of the session, handled in order
    MaxAttempts,     \* settings.stage_max_attempts
    LeaseTicks,      \* settings.stage_lease_seconds, in ticks
    NoTask,          \* a NULL ActiveTaskID
    SessionHolder    \* the session id, which accept and the reaper hold locks under

ASSUME NumSubsAssumption     == NumSubs \in Nat \ {0}
ASSUME MaxAttemptsAssumption == MaxAttempts \in Nat \ {0}
ASSUME LeaseTicksAssumption  == LeaseTicks \in Nat \ {0}

Subs       == 1..NumSubs
WorkLevels == {"PROFILE", "THREATS", "SCENARIOS"}
Levels     == WorkLevels \union {"_LOCK"}
Statuses   == {"IDLE", "RUNNING", "AWAITING_DECISION", "COMPLETE", "ERROR"}
Pending    == {"IDLE", "RUNNING"}
Finished   == {"COMPLETE", "AWAITING_DECISION"}

Granularities == {"scenario", "threat", "threat_type", "threat_category", "profile"}
TaskKinds     == Granularities \union {"pipeline"}

\* A Celery task.  A redelivery carries the same task; a regeneration is told
\* apart by the epoch its request reserved; the pipeline task runs at epoch 1.
Task         == [kind : TaskKinds, ss : 0..NumSubs, epoch : Nat \ {0}]
PipelineTask == [kind |-> "pipeline", ss |-> 0, epoch |-> 1]

\* (mutation) a regenerated threat leaves its scenarios' level alone
LevelsOfNarrow(kind) ==
    CASE kind = "scenario" -> {"SCENARIOS"}
      [] kind \in {"threat", "threat_type", "threat_category"} -> {"THREATS"}
      [] OTHER -> WorkLevels

\* The work levels a task (re)writes in a supporting system.
LevelsOf(kind) ==
    CASE kind = "scenario" -> {"SCENARIOS"}
      [] kind \in {"threat", "threat_type", "threat_category"} -> {"THREATS", "SCENARIOS"}
      [] OTHER -> WorkLevels

NoLease == -1
Lease   == NoLease..LeaseTicks
Holder  == Task \union {NoTask, SessionHolder}
Cell    == [status : Statuses, epoch : Nat \ {0}, task : Holder, lease : Lease,
            attempts : 0..MaxAttempts]
Board   == [Subs -> [Levels -> Cell]]

Live(cell)    == cell.lease > 0
Expired(cell) == cell.status = "RUNNING" /\ cell.lease = 0

SeededCell  == [status |-> "IDLE", epoch |-> 1, task |-> NoTask, lease |-> NoLease,
                attempts |-> 0]
SeededBoard == [ss \in Subs |-> [l \in Levels |-> SeededCell]]

-----------------------------------------------------------------------------
(* The compare-and-set primitives.                                         *)

\* (mutations) claim_stage without its attempts cap, its status check, its epoch
ClaimableUncapped(b, ss, l, t) ==
    LET cell == b[ss][l]
    IN  /\ cell.epoch = t.epoch
        /\ \/ cell.status \in {"IDLE", "ERROR"}
           \/ cell.status = "RUNNING" /\ cell.task = t

ClaimableFinished(b, ss, l, t) ==
    LET cell == b[ss][l]
    IN  cell.epoch = t.epoch /\ cell.attempts < MaxAttempts

ClaimableAnyEpoch(b, ss, l, t) ==
    LET cell == b[ss][l]
    IN  /\ cell.attempts < MaxAttempts
        /\ \/ cell.status \in {"IDLE", "ERROR"}
           \/ cell.status = "RUNNING" /\ cell.task = t

Claimable(b, ss, l, t) ==
    LET cell == b[ss][l]
    IN  /\ cell.epoch = t.epoch
        /\ cell.attempts < MaxAttempts
        /\ \/ cell.status \in {"IDLE", "ERROR"}
           \/ cell.status = "RUNNING" /\ cell.task = t

Claim(b, ss, l, t) ==
    [b EXCEPT ![ss][l] = [b[ss][l] EXCEPT !.status = "RUNNING", !.task = t,
                                          !.lease = LeaseTicks, !.attempts = @ + 1]]

\* (mutation) acquire_lock takes the lock over whoever holds it
LockFreeAlways(b, ss) == b[ss]["_LOCK"].status \in Statuses

LockFree(b, ss) == b[ss]["_LOCK"].status = "IDLE"

Lock(b, ss, holder) ==
    [b EXCEPT ![ss]["_LOCK"] = [@ EXCEPT !.status = "RUNNING", !.task = holder,
                                         !.lease = LeaseTicks]]

\* (mutation) release_lock without its SubsystemID condition
UnlockAll(b, S) ==
    [ss \in Subs |-> [b[ss] EXCEPT !["_LOCK"] = [@ EXCEPT !.status = "IDLE",
                                                    !.task = NoTask, !.lease = NoLease]]]

Unlock(b, S) ==
    [ss \in Subs |->
        IF ss \in S
        THEN [b[ss] EXCEPT !["_LOCK"] = [@ EXCEPT !.status = "IDLE", !.task = NoTask,
                                                  !.lease = NoLease]]
        ELSE b[ss]]

SetStage(b, ss, l, status) ==
    [b EXCEPT ![ss][l] = [@ EXCEPT !.status = status, !.lease = NoLease]]

\* (mutations) _record_failure without its SubsystemID, or its Status, condition
FailPendingEverywhere(b, S) ==
    [ss \in Subs |-> [l \in Levels |->
        IF l \in WorkLevels /\ b[ss][l].status \in Pending
        THEN [b[ss][l] EXCEPT !.status = "ERROR", !.lease = NoLease]
        ELSE b[ss][l]]]

FailEveryStage(b, S) ==
    [ss \in Subs |-> [l \in Levels |->
        IF ss \in S /\ l \in WorkLevels
        THEN [b[ss][l] EXCEPT !.status = "ERROR", !.lease = NoLease]
        ELSE b[ss][l]]]

\* Every still pending work row of S becomes ERROR.
FailPending(b, S) ==
    [ss \in Subs |-> [l \in Levels |->
        IF ss \in S /\ l \in WorkLevels /\ b[ss][l].status \in Pending
        THEN [b[ss][l] EXCEPT !.status = "ERROR", !.lease = NoLease]
        ELSE b[ss][l]]]

-----------------------------------------------------------------------------
(* Regeneration: the next epoch of the touched levels, and their reset.    *)

\* The highest epoch of the levels a kind of task touches.
TopEpoch(b, ss, kind) ==
    CHOOSE e \in {b[ss][l].epoch : l \in LevelsOf(kind)} :
        \A l \in LevelsOf(kind) : b[ss][l].epoch <= e

\* (mutation) a regeneration reuses the current epoch
SameEpoch(b, ss, kind) == TopEpoch(b, ss, kind)

NextEpoch(b, ss, kind) == TopEpoch(b, ss, kind) + 1

ResetForRegen(b, ss, kind, newEpoch) ==
    [b EXCEPT ![ss] = [l \in Levels |->
        IF l \in LevelsOf(kind)
        THEN [b[ss][l] EXCEPT !.status = "IDLE", !.epoch = newEpoch, !.attempts = 0]
        ELSE b[ss][l]]]

-----------------------------------------------------------------------------
(* The reaper's sweep.                                                     *)

ExpiredWork(b)  == {c \in Subs \X WorkLevels : Expired(b[c[1]][c[2]])}
ExpiredLocks(b) == {ss \in Subs : Expired(b[ss]["_LOCK"])}

\* (mutation) the reaper reclaims no locks
SweepWorkOnly(b, work, locks) ==
    [ss \in Subs |-> [l \in Levels |->
        IF <<ss, l>> \in work /\ Expired(b[ss][l])
        THEN [b[ss][l] EXCEPT !.status = "ERROR", !.lease = NoLease]
        ELSE b[ss][l]]]

\* Re-checked flip of the rows a scan found: work rows to ERROR, locks to IDLE.
Sweep(b, work, locks) ==
    LET swept == [ss \in Subs |-> [l \in Levels |->
                    IF <<ss, l>> \in work /\ Expired(b[ss][l])
                    THEN [b[ss][l] EXCEPT !.status = "ERROR", !.lease = NoLease]
                    ELSE b[ss][l]]]
    IN  Unlock(swept, {ss \in locks : Expired(b[ss]["_LOCK"])})

-----------------------------------------------------------------------------
(* Verdicts read from the board.                                           *)

Has(b, status) == \E ss \in Subs, l \in WorkLevels : b[ss][l].status = status

\* (mutations) any finished stage makes a review; any error makes a failure
VerdictAnyFinished(b) ==
    IF Has(b, "IDLE") \/ Has(b, "RUNNING") THEN "wait"
    ELSE IF \E s \in Finished : Has(b, s) THEN "review"
    ELSE IF Has(b, "ERROR") THEN "fail" ELSE "wait"

VerdictAnyError(b) ==
    IF Has(b, "IDLE") \/ Has(b, "RUNNING") THEN "wait"
    ELSE IF Has(b, "ERROR") THEN "fail"
    ELSE IF Has(b, "AWAITING_DECISION") THEN "review" ELSE "wait"

\* What decide_session_outcome makes of the board.
Verdict(b) ==
    IF Has(b, "IDLE") \/ Has(b, "RUNNING") THEN "wait"
    ELSE IF Has(b, "AWAITING_DECISION") THEN "review"
    ELSE IF Has(b, "ERROR") THEN "fail" ELSE "wait"

\* The supporting systems accept takes for reviewed.
AtBarrier(b) == {ss \in Subs : b[ss]["SCENARIOS"].status = "AWAITING_DECISION"}

HasLiveLease(b) == \E ss \in Subs, l \in Levels : Live(b[ss][l])

Elapse(b) ==
    [ss \in Subs |-> [l \in Levels |->
        IF Live(b[ss][l]) THEN [b[ss][l] EXCEPT !.lease = @ - 1] ELSE b[ss][l]]]
=============================================================================

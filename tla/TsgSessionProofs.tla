------------------------- MODULE TsgSessionProofs -------------------------
(***************************************************************************)
(* Proofs about TsgSession for every number of supporting systems and      *)
(* workers, every lease, attempts cap and bound, with slow workers and     *)
(* early failures allowed: types, generations, and finished stages.        *)
(*                                                                         *)
(* The invariant is IInv.  It says that the board is Sound and Ordered     *)
(* (StageBoardFacts), that every task in flight or about to be enqueued    *)
(* was issued once and carries an epoch its board has reached, and what a  *)
(* process's pc implies of the rest of its record.                         *)
(***************************************************************************)
EXTENDS TsgSession, StageBoardFacts

\* What a worker's pc says of its record.
RecordOK(r) ==
    /\ r \in WorkerRecord
    /\ r.pc # "idle" => r.ss \in Subs
    /\ r.pc \in {"target", "resume"} => r.task.kind # "pipeline"
    /\ r.pc = "claim" => r.task.kind = "pipeline"
    /\ r.pc \in {"claim", "run"} => r.stage \in WorkLevels

WellFormed ==
    /\ \A w \in Workers : RecordOK(worker[w])
    /\ regen.pc # "idle" => regen.ss \in Subs

\* A regeneration whose epoch is reserved and whose task is not enqueued yet.
Reserved == IF regen.pc = "reserved"
            THEN {[kind |-> regen.kind, ss |-> regen.ss, epoch |-> regen.epoch]} ELSE {}
Issued   == InFlight \union Reserved

TaskOK(t) ==
    /\ t \in Task
    /\ t.kind = "pipeline" => t = PipelineTask
    /\ t.kind # "pipeline" =>
          t.ss \in Subs /\ t.epoch <= board[t.ss]["SCENARIOS"].epoch

IssuedOnce ==
    /\ \A t \in Issued : TaskOK(t)
    /\ \A t, u \in Issued : t.ss = u.ss /\ t.epoch = u.epoch => t = u

IInv == TypeOK /\ WellFormed /\ Sound(board) /\ Ordered(board) /\ IssuedOnce

\* What every step but RegenReserve does.
Progress ==
    /\ TypeOK' /\ WellFormed' /\ Sound(board')
    /\ Advances(board, board')
    /\ Issued' \subseteq Issued

\* A worker's record goes from one legal record to another of the same task.
Moves(w) == \E r :
    /\ worker' = [worker EXCEPT ![w] = r]
    /\ RecordOK(r)
    /\ r.pc # "idle" => worker[w].pc # "idle" /\ r.task = worker[w].task

SessionType == [status : SessionStatuses, stage : WorkflowStages,
                stageStatus : Statuses \union {"CANCELLED"}, idle : 0..LeaseTicks]

-----------------------------------------------------------------------------
(* Steps of a worker's record.                                             *)

\* The task a busy worker executes is one of those issued.
LEMMA BusyTask ==
    ASSUME IInv, NEW w \in Workers, worker[w].pc # "idle"
    PROVE  worker[w].task \in Issued /\ TaskOK(worker[w].task) /\ worker[w].ss \in Subs
<1>1. worker[w].task \in Issued
  BY DEF Issued, InFlight, At
<1> QED BY <1>1 DEF IInv, IssuedOnce, WellFormed, RecordOK

\* Go leads to a legal record.
LEMMA GoMoves ==
    ASSUME IInv, NEW w \in Workers, worker[w].pc # "idle",
           NEW pc \in WorkerPCs \ {"claim", "run", "target"}, Go(w, pc),
           pc = "resume" => worker[w].task.kind # "pipeline"
    PROVE  Moves(w)
<1> DEFINE r == [worker[w] EXCEPT !.pc = pc, !.stage = "none", !.blank = FALSE]
<1>1. worker[w] \in WorkerRecord /\ worker \in [Workers -> WorkerRecord]
  BY DEF IInv, TypeOK
<1>2. r \in WorkerRecord /\ r.pc = pc /\ r.task = worker[w].task /\ r.ss = worker[w].ss
  BY <1>1 DEF WorkerRecord
<1>3. worker' = [worker EXCEPT ![w] = r]
  BY <1>1 DEF Go
<1>4. RecordOK(r)
  BY <1>2, BusyTask DEF RecordOK
<1> QED BY <1>2, <1>3, <1>4 DEF Moves

\* GoTo leads to a legal record.
LEMMA GoToMoves ==
    ASSUME IInv, NEW w \in Workers, worker[w].pc # "idle", NEW pc \in {"claim", "run"},
           NEW stage \in WorkLevels, NEW blank \in BOOLEAN, GoTo(w, pc, stage, blank),
           pc = "claim" => worker[w].task.kind = "pipeline"
    PROVE  Moves(w)
<1> DEFINE r == [worker[w] EXCEPT !.pc = pc, !.stage = stage, !.blank = blank]
<1>1. worker[w] \in WorkerRecord /\ worker \in [Workers -> WorkerRecord]
  BY DEF IInv, TypeOK
<1>2. /\ r \in WorkerRecord /\ r.pc = pc /\ r.task = worker[w].task /\ r.ss = worker[w].ss
      /\ r.stage = stage
  BY <1>1 DEF WorkerRecord, WorkerPCs
<1>3. worker' = [worker EXCEPT ![w] = r]
  BY <1>1 DEF GoTo
<1>4. RecordOK(r)
  BY <1>2, BusyTask DEF RecordOK
<1> QED BY <1>2, <1>3, <1>4 DEF Moves

\* An idle worker's record is well typed and legal.
LEMMA IdleTyped == Idle \in WorkerRecord /\ RecordOK(Idle) /\ Idle.pc = "idle"
BY NumSubsAssumption DEF RecordOK, Idle, WorkerRecord, WorkerPCs

\* A worker that ends its delivery has a legal record.
LEMMA IdleMoves ==
    ASSUME NEW w \in Workers, worker' = [worker EXCEPT ![w] = Idle]
    PROVE  Moves(w)
BY IdleTyped DEF Moves

\* The pipeline's task is well typed.
LEMMA PipelineTaskTyped == PipelineTask \in Task
<1>1. 0 \in 0..NumSubs
  BY NumSubsAssumption
<1>2. "pipeline" \in TaskKinds
  BY DEF TaskKinds
<1> QED BY <1>1, <1>2 DEF PipelineTask, Task

\* NextSub leads to the next supporting system, or to the session's outcome.
LEMMA NextSubMoves ==
    ASSUME IInv, NEW w \in Workers, worker[w].pc # "idle", NextSub(w)
    PROVE  Moves(w)
<1> DEFINE t == worker[w].task
           ss == worker[w].ss
<1>1. CASE t.kind = "pipeline" /\ ss < NumSubs
  <2> DEFINE r == [Idle EXCEPT !.pc = "lock", !.ss = ss + 1, !.task = PipelineTask]
  <2>1. ss + 1 \in Subs /\ t = PipelineTask
    BY <1>1, BusyTask, NumSubsAssumption DEF Subs, TaskOK
  <2>2. Idle \in WorkerRecord
    BY IdleTyped
  <2>3. PipelineTask \in Task
    BY PipelineTaskTyped
  <2>4. RecordOK(r)
    <3>1. ss + 1 \in 0..NumSubs
      BY <2>1 DEF Subs
    <3>2. "lock" \in WorkerPCs /\ "none" \in WorkLevels \union {"none"}
      BY DEF WorkerPCs
    <3>3. r \in WorkerRecord /\ r.pc = "lock" /\ r.ss = ss + 1 /\ r.task = PipelineTask
      BY <2>2, <2>3, <3>1, <3>2 DEF WorkerRecord
    <3> QED BY <2>1, <3>3 DEF RecordOK
  <2>5. worker' = [worker EXCEPT ![w] = r]
    BY <1>1 DEF NextSub
  <2>6. r.task = t
    BY <2>1, <2>2 DEF WorkerRecord
  <2> QED BY <2>4, <2>5, <2>6 DEF Moves
<1>2. CASE ~(t.kind = "pipeline" /\ ss < NumSubs)
  <2>1. Go(w, "toDecide")
    BY <1>2 DEF NextSub
  <2> QED BY <2>1, GoMoves DEF WorkerPCs
<1> QED BY <1>1, <1>2

\* A regeneration's first claimable level is one of those it may claim.
LEMMA FirstClaimFacts ==
    ASSUME NEW b, NEW t, NEW levels \in SUBSET WorkLevels,
           \E k \in levels : Claimable(b, t.ss, k, t)
    PROVE  /\ FirstClaim(b, t, levels) \in levels
           /\ Claimable(b, t.ss, FirstClaim(b, t, levels), t)
<1> DEFINE claimable == {l \in levels : Claimable(b, t.ss, l, t)}
<1>1. claimable # {} /\ claimable \subseteq WorkLevels
  OBVIOUS
<1>2. FirstClaim(b, t, levels)
        = CHOOSE l \in claimable : \A k \in claimable : l \notin Later(k)
  BY DEF FirstClaim
<1> HIDE DEF claimable
<1>3. \E l \in claimable : \A k \in claimable : l \notin Later(k)
  <2>1. \A k \in WorkLevels : /\ "PROFILE" \notin Later(k)
                              /\ "THREATS" \in Later(k) => k = "PROFILE"
                              /\ "SCENARIOS" \in Later(k) => k \in {"PROFILE", "THREATS"}
    BY DEF Later, WorkLevels
  <2>2. CASE "PROFILE" \in claimable
    BY <1>1, <2>1, <2>2
  <2>3. CASE "PROFILE" \notin claimable /\ "THREATS" \in claimable
    BY <1>1, <2>1, <2>3
  <2>4. CASE claimable = {"SCENARIOS"}
    BY <2>1, <2>4 DEF WorkLevels
  <2> QED BY <1>1, <2>2, <2>3, <2>4 DEF WorkLevels
<1>4. FirstClaim(b, t, levels) \in claimable
  BY <1>2, <1>3
<1> QED BY <1>4 DEF claimable

\* A regeneration that goes on claims a level of its own kind on a sound board.
LEMMA ContinueFacts ==
    ASSUME IInv, NEW w \in Workers, worker[w].pc # "idle",
           worker[w].task.kind # "pipeline",
           NEW b \in Board, Sound(b), Advances(board, b),
           NEW levels \in SUBSET LevelsOf(worker[w].task.kind), NEW wrote,
           Continue(w, b, levels, wrote)
    PROVE  /\ board' \in Board /\ Sound(board') /\ Advances(board, board')
           /\ Moves(w)
<1> DEFINE t == worker[w].task
           l == FirstClaim(b, t, levels)
<1>1. t \in Task /\ t.ss \in Subs /\ t.kind \in TaskKinds
  BY BusyTask DEF TaskOK, Task
<1>2. CASE \E k \in levels : Claimable(b, t.ss, k, t)
  <2>1. levels \in SUBSET WorkLevels
    BY <1>1, LevelsTyped
  <2>2. l \in levels /\ Claimable(b, t.ss, l, t)
    BY <1>2, <2>1, FirstClaimFacts
  <2>3. board' = Claim(b, t.ss, l, t) /\ GoTo(w, "run", l, BlankInput(t, l, wrote))
    BY <1>2 DEF Continue
  <2>4. BlankInput(t, l, wrote) \in BOOLEAN
    BY DEF BlankInput
  <2>5. Moves(w)
    BY <2>1, <2>2, <2>3, <2>4, GoToMoves
  <2>6. board' \in Board /\ Sound(board') /\ Advances(b, board')
    BY <1>1, <2>2, <2>3, ClaimFacts
  <2> QED BY <2>5, <2>6, AdvancesTransitive
<1>3. CASE ~\E k \in levels : Claimable(b, t.ss, k, t)
  <2>1. board' = b /\ Go(w, "release")
    BY <1>3 DEF Continue
  <2> QED BY <2>1, GoMoves DEF WorkerPCs
<1> QED BY <1>2, <1>3

-----------------------------------------------------------------------------
(* A step of a worker.                                                     *)

\* What the session's transitions write is of the session row's type.
LEMMA SessionTyped ==
    ASSUME NEW s \in SessionType
    PROVE  /\ [s EXCEPT !.idle = 0] \in SessionType
           /\ Cancelled(s) \in SessionType /\ Completed(s) \in SessionType
           /\ \A verdict : Conclude(s, verdict) \in SessionType
<1>1. 0 \in 0..LeaseTicks
  BY LeaseTicksAssumption
<1>2. /\ {"REVIEW", "CANCELLED", "APPROVED"} \subseteq WorkflowStages
      /\ {"cancelled", "completed"} \subseteq SessionStatuses
      /\ {"AWAITING_DECISION", "CANCELLED"} \subseteq Statuses \union {"CANCELLED"}
  BY DEF WorkflowStages, SessionStatuses, Statuses
<1>3. [s EXCEPT !.idle = 0] \in SessionType
  BY <1>1 DEF SessionType
<1>4. Cancelled(s) \in SessionType
  BY <1>1, <1>2 DEF SessionType, Cancelled
<1>5. Completed(s) \in SessionType
  BY <1>1, <1>2 DEF SessionType, Completed
<1>6. InReview(s) \in SessionType
  BY <1>1, <1>2 DEF SessionType, InReview
<1>7. \A verdict : Conclude(s, verdict) \in SessionType
  BY <1>4, <1>6 DEF Conclude
<1> QED BY <1>3, <1>4, <1>5, <1>7

\* A step that moves one worker's record and advances the board makes progress.
LEMMA WorkerKeeps ==
    ASSUME IInv, NEW w \in Workers, Moves(w),
           board' \in Board, Sound(board'), Advances(board, board'),
           session' \in SessionType, rows' \in [Subs -> SUBSET WorkLevels],
           live' \subseteq Task, replaced' \subseteq Task,
           regen' \in {regen, [regen EXCEPT !.fresh = FALSE]},
           UNCHANGED <<accepted, queue, reaper, accept, spent>>
    PROVE  Progress
<1>1. PICK r : /\ worker' = [worker EXCEPT ![w] = r]
               /\ RecordOK(r)
               /\ r.pc # "idle" => worker[w].pc # "idle" /\ r.task = worker[w].task
  BY DEF Moves
<1>2. worker \in [Workers -> WorkerRecord] /\ r \in WorkerRecord
  BY <1>1 DEF IInv, TypeOK, RecordOK
<1>3. \A v \in Workers : worker'[v] = IF v = w THEN r ELSE worker[v]
  BY <1>1, <1>2
<1>4. regen \in [pc : {"idle", "gated", "reserved"}, ss : 0..NumSubs,
                 kind : Granularities, epoch : Nat \ {0}, fresh : BOOLEAN]
  BY DEF IInv, TypeOK
<1>5. /\ regen' \in [pc : {"idle", "gated", "reserved"}, ss : 0..NumSubs,
                      kind : Granularities, epoch : Nat \ {0}, fresh : BOOLEAN]
      /\ regen'.pc = regen.pc /\ regen'.ss = regen.ss
      /\ regen'.kind = regen.kind /\ regen'.epoch = regen.epoch
  BY <1>4
<1>6. TypeOK'
  <2>1. worker' \in [Workers -> WorkerRecord]
    BY <1>1, <1>2
  <2> QED BY <2>1, <1>5 DEF IInv, TypeOK, SessionType
<1>7. WellFormed'
  BY <1>1, <1>3, <1>5 DEF IInv, WellFormed
<1>8. Issued' \subseteq Issued
  <2>1. Reserved' = Reserved
    BY <1>5 DEF Reserved
  <2>2. InFlight' \subseteq InFlight
    <3> SUFFICES ASSUME NEW v \in Workers, worker'[v].pc # "idle"
                 PROVE  worker[v].pc # "idle" /\ worker'[v].task = worker[v].task
      BY DEF InFlight, At
    <3> QED BY <1>1, <1>3
  <2> QED BY <2>1, <2>2 DEF Issued
<1> QED BY <1>6, <1>7, <1>8 DEF Progress

\* The rows a stage leaves are of their type.
LEMMA RowsTyped ==
    ASSUME TypeOK, NEW ss \in Subs, NEW t, NEW l \in WorkLevels, NEW blank,
           NEW r \in RowsAfter(ss, t, l, blank)
    PROVE  [rows EXCEPT ![ss] = r] \in [Subs -> SUBSET WorkLevels]
<1>1. rows \in [Subs -> SUBSET WorkLevels]
  BY DEF TypeOK
<1>2. /\ rows[ss] \union {l} \subseteq WorkLevels /\ rows[ss] \ {l} \subseteq WorkLevels
      /\ rows[ss] \subseteq WorkLevels
  BY <1>1
<1>3. r \in {rows[ss], rows[ss] \union {l}, rows[ss] \ {l}}
  BY DEF RowsAfter
<1> QED BY <1>1, <1>2, <1>3

\* A worker takes a task from the queue.
LEMMA TakeProgress ==
    ASSUME IInv, NEW w \in Workers, Take(w)
    PROVE  Progress
<1>1. PICK t \in queue :
        /\ queue' = queue \ {t}
        /\ worker' = [worker EXCEPT ![w] =
              IF t.kind = "pipeline"
              THEN [Idle EXCEPT !.pc = "lock", !.task = t, !.ss = 1]
              ELSE [Idle EXCEPT !.pc = "target", !.task = t, !.ss = t.ss]]
  BY DEF Take
<1> DEFINE r == IF t.kind = "pipeline"
                THEN [Idle EXCEPT !.pc = "lock", !.task = t, !.ss = 1]
                ELSE [Idle EXCEPT !.pc = "target", !.task = t, !.ss = t.ss]
<1>2. t \in Task /\ (t.kind # "pipeline" => t.ss \in Subs)
  BY DEF IInv, IssuedOnce, Issued, InFlight, TaskOK
<1>3. r \in WorkerRecord /\ RecordOK(r) /\ r.task = t
  <2>1. /\ 1 \in 0..NumSubs /\ 1 \in Subs /\ t.ss \in 0..NumSubs
        /\ {"lock", "target"} \subseteq WorkerPCs
    BY <1>2, NumSubsAssumption DEF Subs, Task, WorkerPCs
  <2>2. CASE t.kind = "pipeline"
    <3>1. r = [Idle EXCEPT !.pc = "lock", !.task = t, !.ss = 1]
      BY <2>2
    <3>2. r \in WorkerRecord /\ r.pc = "lock" /\ r.task = t /\ r.ss = 1
      BY <1>2, <2>1, <3>1, IdleTyped DEF WorkerRecord
    <3> QED BY <2>1, <3>2 DEF RecordOK
  <2>3. CASE t.kind # "pipeline"
    <3>1. r = [Idle EXCEPT !.pc = "target", !.task = t, !.ss = t.ss]
      BY <2>3
    <3>2. r \in WorkerRecord /\ r.pc = "target" /\ r.task = t /\ r.ss = t.ss
      BY <1>2, <2>1, <3>1, IdleTyped DEF WorkerRecord
    <3> QED BY <1>2, <2>3, <3>2 DEF RecordOK
  <2> QED BY <2>2, <2>3
<1>4. worker \in [Workers -> WorkerRecord] /\ worker' = [worker EXCEPT ![w] = r]
  BY <1>1 DEF IInv, TypeOK
<1> HIDE DEF r
<1>5. \A v \in Workers : worker'[v] = IF v = w THEN r ELSE worker[v]
  BY <1>4
<1>6. UNCHANGED <<dbVars, reaper, apiVars, spent>>
  BY DEF Take
<1>7. TypeOK'
  BY <1>1, <1>3, <1>4, <1>6 DEF IInv, TypeOK, dbVars, apiVars
<1>8. WellFormed'
  BY <1>3, <1>5, <1>6 DEF IInv, WellFormed, apiVars
<1>9. Issued' \subseteq Issued
  BY <1>1, <1>3, <1>5, <1>6 DEF Issued, InFlight, Reserved, At, apiVars
<1>10. Sound(board') /\ Advances(board, board')
  BY <1>6 DEF IInv, dbVars, Advances
<1> QED BY <1>7, <1>8, <1>9, <1>10 DEF Progress

\* A step of a worker makes progress: one case for each of its transactions.
LEMMA WorkerProgress ==
    ASSUME IInv, NEW w \in Workers, WorkerStep(w)
    PROVE  Progress
<1> DEFINE t == worker[w].task
           ss == worker[w].ss
           l == worker[w].stage
<1> USE DEF dbVars, apiVars, At
<1>1. /\ board \in Board /\ Sound(board) /\ Advances(board, board)
      /\ session \in SessionType /\ rows \in [Subs -> SUBSET WorkLevels]
      /\ live \subseteq Task /\ replaced \subseteq Task
  BY DEF IInv, TypeOK, Advances, SessionType
<1>2. worker[w].pc # "idle" =>
        /\ TaskOK(t) /\ t \in Task /\ ss \in Subs /\ t \in Holder /\ t.kind \in TaskKinds
        /\ RecordOK(worker[w])
  BY BusyTask DEF TaskOK, Holder, Task, IInv, WellFormed
<1>3. {"lock", "resume", "toDecide", "release", "releaseLost", "toReview", "toFailed"}
        \subseteq WorkerPCs \ {"claim", "run", "target"}
  BY DEF WorkerPCs
<1>4. {"PROFILE", "THREATS", "SCENARIOS"} = WorkLevels
  BY DEF WorkLevels
<1>5. CASE Take(w)
  BY <1>5, TakeProgress
<1>6. CASE CheckTarget(w)
  <2>1. /\ worker[w].pc # "idle" /\ t.kind # "pipeline"
        /\ Go(w, "lock") \/ Go(w, "resume") \/ Go(w, "toDecide")
    BY <1>6, <1>2 DEF CheckTarget, RecordOK
  <2>2. Moves(w)
    BY <2>1, <1>3, GoMoves
  <2> QED BY <1>6, <1>1, <2>2, WorkerKeeps DEF CheckTarget
<1>7. CASE MissLock(w)
  <2>1. Moves(w)
    BY <1>7, NextSubMoves DEF MissLock
  <2> QED BY <1>7, <1>1, <2>1, WorkerKeeps DEF MissLock
<1>8. CASE StartSubsystem(w)
  <2> DEFINE b == Lock(board, ss, t)
  <2>1. worker[w].pc # "idle" /\ t.kind = "pipeline"
    BY <1>8 DEF StartSubsystem
  <2>2. b \in Board /\ Sound(b) /\ Advances(board, b)
    BY <1>1, <1>2, <2>1, LockFacts
  <2>3. board' \in Board /\ Sound(board') /\ Advances(board, board') /\ Moves(w)
    <3>1. CASE Claimable(b, ss, "PROFILE", t)
      <4>1. board' = Claim(b, ss, "PROFILE", t) /\ GoTo(w, "run", "PROFILE", FALSE)
        BY <1>8, <3>1 DEF StartSubsystem
      <4>2. "PROFILE" \in LevelsOf(t.kind)
        BY <2>1, <1>4 DEF LevelsOf
      <4>3. board' \in Board /\ Sound(board') /\ Advances(b, board')
        BY <1>2, <2>1, <2>2, <3>1, <4>1, <4>2, ClaimFacts
      <4>4. Moves(w)
        BY <2>1, <4>1, <1>4, GoToMoves
      <4> QED BY <2>2, <4>3, <4>4, AdvancesTransitive
    <3>2. CASE ~Claimable(b, ss, "PROFILE", t)
      <4>1. board' = b /\ GoTo(w, "claim", "THREATS", FALSE)
        BY <1>8, <3>2 DEF StartSubsystem
      <4>2. Moves(w)
        BY <2>1, <4>1, <1>4, GoToMoves
      <4> QED BY <2>2, <4>1, <4>2
    <3> QED BY <3>1, <3>2
  <2>4. session' \in SessionType
    BY <1>8, <1>1, SessionTyped DEF StartSubsystem
  <2> QED BY <1>8, <1>1, <2>3, <2>4, WorkerKeeps DEF StartSubsystem
<1>9. CASE ClaimStage(w)
  <2>1. worker[w].pc # "idle" /\ t.kind = "pipeline" /\ l \in WorkLevels
    BY <1>9, <1>2 DEF ClaimStage, RecordOK
  <2>2. CASE Claimable(board, ss, l, t)
    <3>1. /\ board' = Claim(board, ss, l, t)
          /\ GoTo(w, "run", l, l = "THREATS" /\ "PROFILE" \notin rows[ss])
      BY <1>9, <2>2 DEF ClaimStage
    <3>2. l \in LevelsOf(t.kind)
      BY <2>1 DEF LevelsOf
    <3>3. board' \in Board /\ Sound(board') /\ Advances(board, board')
      BY <1>1, <1>2, <2>1, <2>2, <3>1, <3>2, ClaimFacts
    <3>4. Moves(w)
      BY <2>1, <3>1, GoToMoves
    <3> QED BY <1>9, <1>1, <3>3, <3>4, WorkerKeeps DEF ClaimStage
  <2>3. CASE ~Claimable(board, ss, l, t)
    <3>1. board' = board /\ (GoTo(w, "claim", "SCENARIOS", FALSE) \/ Go(w, "release"))
      BY <1>9, <2>3 DEF ClaimStage
    <3>2. Moves(w)
      BY <2>1, <3>1, <1>3, <1>4, GoToMoves, GoMoves
    <3> QED BY <1>9, <1>1, <3>1, <3>2, WorkerKeeps DEF ClaimStage
  <2> QED BY <2>2, <2>3
<1>10. CASE StartRegen(w)
  <2> DEFINE b == Lock(board, t.ss, t)
  <2>1. /\ worker[w].pc # "idle" /\ t.kind # "pipeline" /\ t.ss \in Subs
        /\ Continue(w, b, LevelsOf(t.kind), "none")
    BY <1>10, <1>2 DEF StartRegen, TaskOK
  <2>2. b \in Board /\ Sound(b) /\ Advances(board, b)
    BY <1>1, <1>2, <2>1, LockFacts
  <2>3. board' \in Board /\ Sound(board') /\ Advances(board, board') /\ Moves(w)
    BY <2>1, <2>2, ContinueFacts
  <2> QED BY <1>10, <1>1, <2>3, WorkerKeeps DEF StartRegen
<1>11. CASE Reground(w)
  <2> DEFINE b == Lock(board, t.ss, t)
             claimed == Claim(b, t.ss, "THREATS", t)
             done == SetStage(claimed, t.ss, "THREATS", "COMPLETE")
  <2>1. worker[w].pc # "idle" /\ t.kind = "threat" /\ t.ss \in Subs
    BY <1>11, <1>2 DEF Reground, TaskOK
  <2>2. b \in Board /\ Sound(b) /\ Advances(board, b)
    BY <1>1, <1>2, <2>1, LockFacts
  <2>3. "THREATS" \in LevelsOf(t.kind) /\ {"SCENARIOS"} \subseteq LevelsOf(t.kind)
    BY <2>1 DEF LevelsOf
  <2>4. CASE Claimable(b, t.ss, "THREATS", t)
    <3>1. claimed \in Board /\ Sound(claimed) /\ Advances(b, claimed)
      BY <1>2, <2>1, <2>2, <2>3, <2>4, ClaimFacts
    <3>2. "COMPLETE" = FinalOf("THREATS") /\ "THREATS" \in WorkLevels
      BY <1>4 DEF FinalOf
    <3>3. done \in Board /\ Sound(done) /\ Advances(claimed, done)
      BY <2>1, <3>1, <3>2, SetStageFacts
    <3>4. Advances(board, done)
      BY <2>2, <3>1, <3>3, AdvancesTransitive
    <3>5. Continue(w, done, {"SCENARIOS"}, "THREATS")
      BY <1>11, <2>4 DEF Reground
    <3>6. board' \in Board /\ Sound(board') /\ Advances(board, board') /\ Moves(w)
      BY <2>1, <2>3, <3>3, <3>4, <3>5, ContinueFacts
    <3>7. live' \subseteq Task /\ replaced' \subseteq Task
      BY <1>11, <1>1, <1>2, <2>1, <2>4 DEF Reground
    <3>8. rows' \in [Subs -> SUBSET WorkLevels]
      BY <1>11, <1>1, <2>1, <2>4 DEF Reground
    <3> QED BY <1>11, <1>1, <3>6, <3>7, <3>8, WorkerKeeps DEF Reground
  <2>5. CASE ~Claimable(b, t.ss, "THREATS", t)
    <3>1. board' = b /\ Go(w, "release") /\ UNCHANGED <<live, replaced, rows>>
      BY <1>11, <2>5 DEF Reground
    <3>2. Moves(w)
      BY <2>1, <3>1, <1>3, GoMoves
    <3> QED BY <1>11, <1>1, <2>2, <3>1, <3>2, WorkerKeeps DEF Reground
  <2> QED BY <2>4, <2>5
<1>12. CASE Resume(w)
  <2> DEFINE b == Lock(board, t.ss, t)
  <2>1. /\ worker[w].pc # "idle" /\ t.kind # "pipeline" /\ t.ss \in Subs
        /\ Continue(w, b, {"SCENARIOS"}, "THREATS") \/ (board' = b /\ Go(w, "release"))
    BY <1>12, <1>2 DEF Resume, TaskOK, RecordOK
  <2>2. b \in Board /\ Sound(b) /\ Advances(board, b)
    BY <1>1, <1>2, <2>1, LockFacts
  <2>3. {"SCENARIOS"} \subseteq LevelsOf(t.kind)
    BY <1>2, <2>1, LevelsTyped
  <2>4. board' \in Board /\ Sound(board') /\ Advances(board, board') /\ Moves(w)
    BY <2>1, <2>2, <2>3, <1>3, ContinueFacts, GoMoves
  <2> QED BY <1>12, <1>1, <2>4, WorkerKeeps DEF Resume
<1>13. CASE FinishStage(w)
  <2> DEFINE done == SetStage(board, ss, l, IF l = "SCENARIOS" THEN "AWAITING_DECISION"
                                                               ELSE "COMPLETE")
  <2>1. worker[w].pc # "idle" /\ l \in WorkLevels
    BY <1>13, <1>2 DEF FinishStage, RecordOK
  <2>2. done = SetStage(board, ss, l, FinalOf(l))
    BY DEF FinalOf
  <2>3. done \in Board /\ Sound(done) /\ Advances(board, done)
    BY <1>1, <1>2, <2>1, <2>2, SetStageFacts
  <2> HIDE DEF done
  <2>4. board' \in Board /\ Sound(board') /\ Advances(board, board') /\ Moves(w)
    <3>1. CASE t.kind # "pipeline"
      <4>1. Continue(w, done, LevelsOf(t.kind) \intersect Later(l), l)
        BY <1>13, <3>1 DEF FinishStage, done
      <4>2. LevelsOf(t.kind) \intersect Later(l) \in SUBSET LevelsOf(t.kind)
        OBVIOUS
      <4> QED BY <2>1, <2>3, <3>1, <4>1, <4>2, ContinueFacts
    <3>2. CASE t.kind = "pipeline"
      <4>1. /\ board' = done
            /\ \/ GoTo(w, "claim", "THREATS", FALSE) \/ GoTo(w, "claim", "SCENARIOS", FALSE)
               \/ Go(w, "release")
        BY <1>13, <3>2 DEF FinishStage, done
      <4>2. Moves(w)
        BY <2>1, <3>2, <4>1, <1>3, <1>4, GoToMoves, GoMoves
      <4> QED BY <2>3, <4>1, <4>2
    <3> QED BY <3>1, <3>2
  <2>5. rows' \in [Subs -> SUBSET WorkLevels]
    <3>1. PICK r \in RowsAfter(ss, t, l, worker[w].blank) : rows' = [rows EXCEPT ![ss] = r]
      BY <1>13 DEF FinishStage
    <3> QED BY <1>2, <2>1, <3>1, RowsTyped DEF IInv
  <2>6. /\ live' \subseteq Task /\ replaced' \subseteq Task
        /\ regen' \in {regen, [regen EXCEPT !.fresh = FALSE]}
    <3>1. Supersede(ss, t, l)
      BY <1>13 DEF FinishStage
    <3> QED BY <1>1, <3>1 DEF Supersede
  <2> QED BY <1>13, <1>1, <2>4, <2>5, <2>6, WorkerKeeps DEF FinishStage
<1>14. CASE FailStage(w)
  <2>1. worker[w].pc # "idle" /\ board' = FailPending(board, {ss}) /\ Go(w, "release")
    BY <1>14 DEF FailStage, Working
  <2>2. Moves(w)
    BY <2>1, <1>3, GoMoves
  <2>3. board' \in Board /\ Sound(board') /\ Advances(board, board')
    BY <1>1, <2>1, FailPendingFacts
  <2> QED BY <1>14, <1>1, <2>2, <2>3, WorkerKeeps DEF FailStage
<1>15. CASE FailLocked(w)
  <2>1. worker[w].pc # "idle" /\ board' = FailPending(board, {ss}) /\ Go(w, "releaseLost")
    BY <1>15 DEF FailLocked
  <2>2. Moves(w)
    BY <2>1, <1>3, GoMoves
  <2>3. board' \in Board /\ Sound(board') /\ Advances(board, board')
    BY <1>1, <2>1, FailPendingFacts
  <2> QED BY <1>15, <1>1, <2>2, <2>3, WorkerKeeps DEF FailLocked
<1>16. CASE Release(w)
  <2>1. worker[w].pc # "idle" /\ board' = Unlock(board, {ss}) /\ NextSub(w)
    BY <1>16 DEF Release
  <2>2. Moves(w)
    BY <2>1, NextSubMoves
  <2>3. board' \in Board /\ Sound(board') /\ Advances(board, board')
    BY <1>1, <2>1, UnlockFacts
  <2> QED BY <1>16, <1>1, <2>2, <2>3, WorkerKeeps DEF Release
<1>17. CASE Decide(w)
  <2>1. /\ worker[w].pc # "idle"
        /\ \/ Go(w, "toReview") \/ Go(w, "toFailed")
           \/ worker' = [worker EXCEPT ![w] = Idle]
    BY <1>17 DEF Decide
  <2>2. Moves(w)
    BY <2>1, <1>3, GoMoves, IdleMoves
  <2> QED BY <1>17, <1>1, <2>2, WorkerKeeps DEF Decide
<1>18. CASE Outcome(w)
  <2>1. Moves(w)
    BY <1>18, IdleMoves DEF Outcome
  <2>2. session' \in SessionType
    BY <1>18, <1>1, SessionTyped DEF Outcome
  <2> QED BY <1>18, <1>1, <2>1, <2>2, WorkerKeeps DEF Outcome
<1>19. CASE Wait(w)
  <2> DEFINE r == [worker[w] EXCEPT !.waits = TRUE]
  <2>1. worker[w] \in WorkerRecord /\ worker \in [Workers -> WorkerRecord]
    BY DEF IInv, TypeOK
  <2>2. worker' = [worker EXCEPT ![w] = r]
    BY <1>19, <2>1 DEF Wait
  <2>3. /\ r \in WorkerRecord /\ r.pc = worker[w].pc /\ r.task = t /\ r.ss = ss
        /\ r.stage = worker[w].stage
    BY <2>1 DEF WorkerRecord
  <2>4. RecordOK(r) /\ worker[w].pc # "idle"
    BY <1>2, <1>19, <2>3 DEF RecordOK, Wait
  <2>5. Moves(w)
    BY <2>2, <2>3, <2>4 DEF Moves
  <2> QED BY <1>19, <1>1, <2>5, WorkerKeeps DEF Wait
<1> QED BY <1>5, <1>6, <1>7, <1>8, <1>9, <1>10, <1>11, <1>12, <1>13, <1>14, <1>15, <1>16,
           <1>17, <1>18, <1>19 DEF WorkerStep

-----------------------------------------------------------------------------
(* Steps of the broker, the reaper, the API and the clock.                 *)

\* A crash of a worker, or a repeated delivery, issues nothing new.
LEMMA RedeliveryProgress ==
    ASSUME IInv, NEW w \in Workers, Crash(w) \/ Duplicate(w)
    PROVE  Progress
<1> USE DEF dbVars, apiVars
<1>1. /\ worker[w].pc # "idle"
      /\ queue' \in {queue, queue \union {worker[w].task}}
      /\ worker' \in {worker, [worker EXCEPT ![w] = Idle]}
      /\ UNCHANGED <<dbVars, reaper, apiVars>>
  BY DEF Crash, Duplicate, At
<1>2. worker[w].task \in Task /\ worker[w].task \in InFlight
  BY <1>1, BusyTask DEF TaskOK, InFlight, At
<1>3. worker \in [Workers -> WorkerRecord]
  BY DEF IInv, TypeOK
<1>4. \A v \in Workers : worker'[v] \in {worker[v], Idle}
  BY <1>1, <1>3
<1>5. spent' \in [crashes : 0..MaxCrashes, duplicates : 0..MaxDuplicates,
                 regens : 0..MaxRegens, cancels : 0..MaxCancels]
  BY BoundsAssumption DEF IInv, TypeOK, Crash, Duplicate
<1>6. TypeOK'
  BY <1>1, <1>2, <1>3, <1>5, IdleTyped DEF IInv, TypeOK
<1>7. WellFormed'
  BY <1>1, <1>4, IdleTyped DEF IInv, WellFormed
<1>8. Issued' \subseteq Issued
  <2>1. Reserved' = Reserved
    BY <1>1 DEF Reserved
  <2>2. InFlight' \subseteq InFlight
    BY <1>1, <1>2, <1>4, IdleTyped DEF InFlight, At
  <2> QED BY <2>1, <2>2 DEF Issued
<1>9. Sound(board') /\ Advances(board, board')
  BY <1>1 DEF IInv, Advances
<1> QED BY <1>6, <1>7, <1>8, <1>9 DEF Progress

\* A step that leaves the tasks alone and advances the board makes progress.
LEMMA OthersKeep ==
    ASSUME IInv, TypeOK', Sound(board'), Advances(board, board'),
           UNCHANGED <<queue, worker>>,
           regen'.pc # "idle" => regen'.ss \in Subs,
           Reserved' \subseteq Issued
    PROVE  Progress
<1>1. WellFormed'
  BY DEF IInv, WellFormed
<1>2. InFlight' = InFlight
  BY DEF InFlight, At
<1> QED BY <1>1, <1>2 DEF Progress, Issued

\* A step of the reaper advances the board.
LEMMA ReaperProgress ==
    ASSUME IInv, ReaperStep \/ ReaperCrash
    PROVE  Progress
<1> USE DEF dbVars, brokerVars, apiVars
<1> DEFINE ReaperType == [pc : {"idle", "sweep", "find", "close", "blocked", "giveBack"},
                          work : SUBSET (Subs \X WorkLevels), locks : SUBSET Subs,
                          dead : BOOLEAN]
<1>1. /\ board \in Board /\ Sound(board) /\ Advances(board, board)
      /\ session \in SessionType /\ reaper \in ReaperType
  BY DEF IInv, TypeOK, Advances, SessionType
<1>2. /\ NoPass \in ReaperType
      /\ \A dead \in BOOLEAN : [NoPass EXCEPT !.pc = "find", !.dead = dead] \in ReaperType
      /\ [NoPass EXCEPT !.pc = "close"] \in ReaperType
      /\ [NoPass EXCEPT !.pc = "giveBack"] \in ReaperType
  BY DEF NoPass
<1>3. ASSUME NEW bb \in Board, Sound(bb), Advances(board, bb),
             board' = bb, reaper' \in ReaperType, session' \in SessionType,
             UNCHANGED <<rows, accepted, live, replaced, brokerVars, apiVars>>,
             spent' \in [crashes : 0..MaxCrashes, duplicates : 0..MaxDuplicates,
                        regens : 0..MaxRegens, cancels : 0..MaxCancels]
      PROVE  Progress
  <2>1. TypeOK'
    BY <1>3 DEF IInv, TypeOK, SessionType
  <2>2. /\ regen'.pc # "idle" => regen'.ss \in Subs
        /\ Reserved' \subseteq Issued
    BY <1>3 DEF IInv, WellFormed, Issued, Reserved
  <2> QED BY <1>3, <2>1, <2>2, OthersKeep
<1> HIDE DEF ReaperType
<1>4. spent \in [crashes : 0..MaxCrashes, duplicates : 0..MaxDuplicates,
                regens : 0..MaxRegens, cancels : 0..MaxCancels]
  BY DEF IInv, TypeOK
<1>5. CASE Scan
  <2>1. reaper' \in ReaperType
    <3>1. ExpiredWork(board) \subseteq Subs \X WorkLevels /\ ExpiredLocks(board) \subseteq Subs
      BY DEF ExpiredWork, ExpiredLocks
    <3> QED BY <1>5, <3>1 DEF Scan, ReaperType
  <2> QED BY <1>1, <1>3, <1>4, <1>5, <2>1 DEF Scan
<1>6. CASE SweepExpired
  <2>1. reaper.dead \in BOOLEAN
    BY <1>1 DEF ReaperType
  <2>2. board' \in Board /\ Sound(board') /\ Advances(board, board')
    BY <1>1, <1>6, SweepFacts DEF SweepExpired
  <2> QED BY <1>1, <1>2, <1>3, <1>4, <1>6, <2>1, <2>2 DEF SweepExpired
<1>7. CASE Find
  BY <1>1, <1>2, <1>3, <1>4, <1>7 DEF Find
<1>8. CASE CloseOut
  <2> DEFINE b == FailPending(board, Subs)
             locked == [ss \in Subs |-> Lock(b, ss, SessionHolder)[ss]]
  <2>1. b \in Board /\ Sound(b) /\ Advances(board, b)
    BY <1>1, FailPendingFacts
  <2>2. locked \in Board /\ Sound(locked) /\ Advances(b, locked)
    <3>1. SessionHolder \in Holder
      BY DEF Holder
    <3>2. \A ss \in Subs : /\ Lock(b, ss, SessionHolder)[ss] \in [Levels -> Cell]
                           /\ \A l \in WorkLevels :
                                 Lock(b, ss, SessionHolder)[ss][l] = b[ss][l]
      BY <2>1, <3>1, LockFacts DEF Board
    <3> HIDE DEF b
    <3>3. locked \in Board /\ \A ss \in Subs, l \in WorkLevels : locked[ss][l] = b[ss][l]
      BY <3>2 DEF Board
    <3> HIDE DEF locked
    <3> QED BY <2>1, <3>3 DEF Sound, Advances
  <2>3. /\ session' \in {session, Conclude(session, Verdict(b))}
        /\ board' \in {board, b, locked}
        /\ reaper' \in {NoPass, [NoPass EXCEPT !.pc = "giveBack"]}
        /\ UNCHANGED <<rows, accepted, live, replaced, brokerVars, apiVars, spent>>
    BY <1>8 DEF CloseOut
  <2>4. board' \in Board /\ Sound(board') /\ Advances(board, board')
    BY <1>1, <2>1, <2>2, <2>3, AdvancesTransitive
  <2>5. session' \in SessionType
    BY <1>1, <2>3, SessionTyped
  <2> QED BY <1>2, <1>3, <1>4, <2>3, <2>4, <2>5
<1>9. CASE GiveBack
  <2>1. board' \in Board /\ Sound(board') /\ Advances(board, board')
    BY <1>1, <1>9, UnlockFacts DEF GiveBack
  <2> QED BY <1>1, <1>2, <1>3, <1>4, <1>9, <2>1 DEF GiveBack
<1>10. CASE ReaperCrash
  <2>1. spent' \in [crashes : 0..MaxCrashes, duplicates : 0..MaxDuplicates,
                   regens : 0..MaxRegens, cancels : 0..MaxCancels]
    BY <1>4, <1>10, BoundsAssumption DEF ReaperCrash
  <2> QED BY <1>1, <1>2, <1>3, <1>10, <2>1 DEF ReaperCrash
<1>11. CASE BlockReaper
  <2>1. reaper' \in ReaperType
    BY <1>1, <1>11 DEF BlockReaper, ReaperType
  <2> QED BY <1>1, <1>3, <1>4, <1>11, <2>1 DEF BlockReaper
<1> QED BY <1>5, <1>6, <1>7, <1>8, <1>9, <1>10, <1>11 DEF ReaperStep

\* The types of an accept and a regenerate request in flight.
AcceptType == [pc : {"idle", "gated", "read", "locked"}, good : SUBSET Subs]
RegenType  == [pc : {"idle", "gated", "reserved"}, ss : 0..NumSubs,
               kind : Granularities, epoch : Nat \ {0}, fresh : BOOLEAN]

\* An accept request touches no stage row that it commits, and no task.
LEMMA AcceptProgress ==
    ASSUME IInv, AcceptGate \/ AcceptStep
    PROVE  Progress
<1> USE DEF dbVars, brokerVars
<1>1. accept \in AcceptType /\ session \in SessionType /\ AtBarrier(board) \in SUBSET Subs
  BY DEF IInv, TypeOK, AcceptType, SessionType, AtBarrier
<1>2. /\ accept' \in AcceptType /\ session' \in SessionType
      /\ accepted' \subseteq Subs
      /\ UNCHANGED <<board, rows, live, replaced, brokerVars, reaper, regen, spent>>
  <2>1. NoAccept \in AcceptType /\ [NoAccept EXCEPT !.pc = "gated"] \in AcceptType
    BY DEF NoAccept, AcceptType
  <2>2. CASE AcceptGate
    BY <1>1, <2>1, <2>2 DEF AcceptGate, IInv, TypeOK
  <2>3. CASE AcceptRead
    <3>1. accept' \in AcceptType
      BY <1>1, <2>3 DEF AcceptRead, AcceptType
    <3> QED BY <1>1, <2>3, <3>1 DEF AcceptRead, IInv, TypeOK
  <2>4. CASE AcceptLock
    <3>1. [accept EXCEPT !.pc = "locked"] \in AcceptType
      BY <1>1 DEF AcceptType
    <3> QED BY <1>1, <2>1, <2>4, <3>1 DEF AcceptLock, IInv, TypeOK
  <2>5. CASE AcceptFinish
    <3>1. accept.good \subseteq Subs
      BY <1>1 DEF AcceptType
    <3> QED BY <1>1, <2>1, <2>5, <3>1, SessionTyped DEF AcceptFinish
  <2>6. CASE AcceptAbort
    BY <1>1, <2>1, <2>6 DEF AcceptAbort, IInv, TypeOK
  <2> QED BY <2>2, <2>3, <2>4, <2>5, <2>6 DEF AcceptStep
<1>3. TypeOK'
  BY <1>2 DEF IInv, TypeOK, AcceptType, SessionType
<1>4. /\ regen'.pc # "idle" => regen'.ss \in Subs
      /\ Reserved' \subseteq Issued /\ Sound(board') /\ Advances(board, board')
  BY <1>2 DEF IInv, WellFormed, Issued, Reserved, Advances
<1> QED BY <1>2, <1>3, <1>4, OthersKeep

\* A regenerate request that enters, or that enqueues the task it has reserved.
LEMMA RequestProgress ==
    ASSUME IInv, \/ \E ss \in Subs, kind \in Offered : RegenGate(ss, kind)
                 \/ RegenEnqueue
    PROVE  Progress
<1> USE DEF dbVars, brokerVars
<1>1. regen \in RegenType /\ NoRegen \in RegenType /\ NoRegen.pc = "idle"
  BY NumSubsAssumption DEF IInv, TypeOK, RegenType, NoRegen, Granularities
<1>2. Sound(board) /\ Advances(board, board)
  BY DEF IInv, Advances
<1>3. CASE \E ss \in Subs, kind \in Offered : RegenGate(ss, kind)
  <2>1. PICK ss \in Subs, kind \in Offered : RegenGate(ss, kind)
    BY <1>3
  <2>2. regen' = [NoRegen EXCEPT !.pc = "gated", !.ss = ss, !.kind = kind, !.fresh = TRUE]
    BY <2>1 DEF RegenGate
  <2>3. ss \in 0..NumSubs /\ kind \in Granularities
    BY OfferedAssumption DEF Subs
  <2>4. regen' \in RegenType /\ regen'.pc = "gated" /\ regen'.ss = ss
    BY <1>1, <2>2, <2>3 DEF RegenType
  <2>5. spent' \in [crashes : 0..MaxCrashes, duplicates : 0..MaxDuplicates,
                   regens : 0..MaxRegens, cancels : 0..MaxCancels]
    <3>1. spent \in [crashes : 0..MaxCrashes, duplicates : 0..MaxDuplicates,
                     regens : 0..MaxRegens, cancels : 0..MaxCancels]
      BY DEF IInv, TypeOK
    <3>2. spent.regens < MaxRegens /\ spent' = [spent EXCEPT !.regens = @ + 1]
      BY <2>1 DEF RegenGate
    <3> QED BY <3>1, <3>2, BoundsAssumption
  <2>6. TypeOK'
    BY <2>1, <2>4, <2>5 DEF RegenGate, IInv, TypeOK, RegenType
  <2>7. Reserved' \subseteq Issued
    BY <2>4 DEF Reserved
  <2> QED BY <1>2, <2>1, <2>4, <2>6, <2>7, OthersKeep DEF RegenGate
<1>4. CASE RegenEnqueue
  <2> DEFINE t == [kind |-> regen.kind, ss |-> regen.ss, epoch |-> regen.epoch]
  <2>1. /\ regen.pc = "reserved" /\ regen' = NoRegen
        /\ queue' \in {queue, queue \union {t}}
        /\ UNCHANGED <<dbVars, worker, reaper, accept, spent>>
    BY <1>4 DEF RegenEnqueue
  <2>2. t \in Task
    BY <1>1 DEF RegenType, Task, TaskKinds
  <2>3. TypeOK'
    BY <1>1, <2>1, <2>2 DEF IInv, TypeOK, RegenType
  <2>4. WellFormed'
    BY <1>1, <2>1 DEF IInv, WellFormed
  <2>5. t \in Reserved
    BY <2>1 DEF Reserved
  <2> HIDE DEF t
  <2>6. InFlight' \subseteq InFlight \union {t} /\ Reserved' = {}
    BY <1>1, <2>1 DEF InFlight, At, Reserved
  <2>7. Issued' \subseteq Issued
    BY <2>5, <2>6 DEF Issued
  <2> QED BY <1>2, <2>1, <2>3, <2>4, <2>7 DEF Progress
<1> QED BY <1>3, <1>4

\* A cancel request, the clock, and a step in which nothing happens.
LEMMA RestProgress ==
    ASSUME IInv, Cancel \/ Tick \/ UNCHANGED vars
    PROVE  Progress
<1> USE DEF dbVars, brokerVars, apiVars
<1>1. board \in Board /\ Sound(board) /\ Advances(board, board) /\ session \in SessionType
  BY DEF IInv, TypeOK, Advances, SessionType
<1>2. /\ board' \in Board /\ Sound(board') /\ Advances(board, board')
      /\ session' \in SessionType
      /\ spent' \in [crashes : 0..MaxCrashes, duplicates : 0..MaxDuplicates,
                     regens : 0..MaxRegens, cancels : 0..MaxCancels]
      /\ UNCHANGED <<rows, accepted, live, replaced, brokerVars, reaper, apiVars>>
  <2>1. CASE Cancel
    <3>1. spent' \in [crashes : 0..MaxCrashes, duplicates : 0..MaxDuplicates,
                     regens : 0..MaxRegens, cancels : 0..MaxCancels]
      BY <2>1, BoundsAssumption DEF Cancel, IInv, TypeOK
    <3> QED BY <1>1, <2>1, <3>1, SessionTyped DEF Cancel
  <2>2. CASE Tick
    <3>1. session' \in SessionType
      <4>1. session.idle \in 0..LeaseTicks
        BY <1>1 DEF SessionType
      <4>2. (IF session.idle < LeaseTicks THEN session.idle + 1 ELSE session.idle)
              \in 0..LeaseTicks
        BY <4>1, LeaseTicksAssumption
      <4> QED BY <1>1, <2>2, <4>2 DEF Tick, SessionType
    <3>2. board' \in Board /\ Sound(board') /\ Advances(board, board')
      BY <1>1, <2>2, ElapseFacts DEF Tick
    <3> QED BY <2>2, <3>1, <3>2 DEF Tick, IInv, TypeOK
  <2>3. CASE UNCHANGED vars
    BY <1>1, <2>3 DEF vars, IInv, TypeOK
  <2> QED BY <2>1, <2>2, <2>3
<1>3. TypeOK'
  BY <1>2 DEF IInv, TypeOK, SessionType
<1>4. (regen'.pc # "idle" => regen'.ss \in Subs) /\ Reserved' \subseteq Issued
  BY <1>2 DEF IInv, WellFormed, Issued, Reserved
<1> QED BY <1>2, <1>3, <1>4, OthersKeep
-----------------------------------------------------------------------------
(* The invariant.                                                          *)

\* Progress keeps the invariant: it moves no epoch and issues no task.
LEMMA ProgressKeeps ==
    ASSUME IInv, Progress
    PROVE  IInv'
<1>1. "SCENARIOS" \in WorkLevels /\ "PROFILE" \in WorkLevels /\ "THREATS" \in WorkLevels
  BY DEF WorkLevels
<1>2. \A ss \in Subs, l \in WorkLevels : board'[ss][l].epoch = board[ss][l].epoch
  BY DEF Progress, Advances
<1>3. Ordered(board')
  BY <1>1, <1>2 DEF IInv, Ordered
<1>4. IssuedOnce'
  <2>1. \A t \in Issued' : t \in Issued
    BY DEF Progress
  <2>2. \A t : TaskOK(t) => TaskOK(t)'
    BY <1>1, <1>2 DEF TaskOK
  <2> QED BY <2>1, <2>2 DEF IInv, IssuedOnce
<1> QED BY <1>3, <1>4 DEF IInv, Progress

\* Progress undoes no finished stage.
LEMMA ProgressFinishes ==
    ASSUME Progress
    PROVE  \A ss \in Subs, l \in WorkLevels :
              board[ss][l].status \in Finished => board'[ss][l].status = board[ss][l].status
BY DEF Progress, Advances

\* A regeneration reserves an epoch that no issued task of its supporting system has,
\* and what it resets gets that epoch.
LEMMA ReserveKeeps ==
    ASSUME IInv, RegenReserve
    PROVE  /\ IInv'
           /\ \A ss \in Subs, l \in WorkLevels :
                 board'[ss][l] = board[ss][l] \/ board'[ss][l].epoch > board[ss][l].epoch
<1> USE DEF brokerVars
<1> DEFINE e == NextEpoch(board, regen.ss, regen.kind)
           t == [kind |-> regen.kind, ss |-> regen.ss, epoch |-> e]
           c == ResetForRegen(board, regen.ss, regen.kind, e)
<1>1. /\ board \in Board /\ Sound(board) /\ Ordered(board) /\ session \in SessionType
      /\ regen \in RegenType /\ regen.pc = "gated" /\ regen.ss \in Subs
      /\ regen.kind \in Granularities /\ regen.kind \in TaskKinds
  BY DEF IInv, TypeOK, SessionType, RegenType, WellFormed, RegenReserve, TaskKinds
<1>2. /\ UNCHANGED <<rows, accepted, replaced, queue, worker, reaper, accept, spent>>
      /\ InFlight' = InFlight
  BY DEF RegenReserve, InFlight, At
<1>3. CASE ~(Active /\ session.stage = "REVIEW")
  <2>1. regen' = NoRegen /\ UNCHANGED <<session, board, live>>
    BY <1>3 DEF RegenReserve
  <2>2. NoRegen \in RegenType /\ NoRegen.pc = "idle"
    BY NumSubsAssumption DEF RegenType, NoRegen, Granularities
  <2>3. TypeOK'
    BY <1>2, <2>1, <2>2 DEF IInv, TypeOK, RegenType
  <2>4. Reserved' \subseteq Issued
    BY <2>1, <2>2 DEF Reserved
  <2>5. Progress
    BY <1>2, <2>1, <2>2, <2>3, <2>4, OthersKeep DEF IInv, Advances
  <2> QED BY <2>1, <2>5, ProgressKeeps
<1>4. CASE Active /\ session.stage = "REVIEW"
  <2>1. /\ board' = c
        /\ session' = [session EXCEPT !.stage = RegenStage(regen.kind),
                                      !.stageStatus = "RUNNING", !.idle = 0]
        /\ live' \in {live, live \union {t}}
        /\ regen' = [regen EXCEPT !.pc = "reserved", !.epoch = e, !.fresh = FALSE]
    BY <1>4 DEF RegenReserve
  <2>2. /\ c \in Board /\ Sound(c) /\ Ordered(c)
        /\ e = board[regen.ss]["SCENARIOS"].epoch + 1
        /\ c[regen.ss]["SCENARIOS"].epoch = e
        /\ \A s \in Subs, l \in WorkLevels :
              c[s][l] = board[s][l] \/ c[s][l].epoch > board[s][l].epoch
        /\ \A s \in Subs \ {regen.ss} : c[s] = board[s]
    BY <1>1, ResetFacts
  <2> HIDE DEF c
  <2>3. board[regen.ss]["SCENARIOS"].epoch \in Nat \ {0} /\ e \in Nat \ {0}
    <3>1. "SCENARIOS" \in Levels
      BY DEF Levels, WorkLevels
    <3>2. board[regen.ss]["SCENARIOS"] \in Cell
      BY <1>1, <3>1 DEF Board
    <3> QED BY <2>2, <3>2 DEF Cell
  <2> HIDE DEF e
  <2>4. t \in Task
    BY <1>1, <2>3 DEF Task, RegenType
  <2>5. /\ regen' \in RegenType /\ regen'.pc = "reserved" /\ regen'.ss = regen.ss
        /\ regen'.kind = regen.kind /\ regen'.epoch = e
    BY <1>1, <2>1, <2>3 DEF RegenType
  <2>6. session' \in SessionType
    <3>1. RegenStage(regen.kind) \in WorkflowStages /\ "RUNNING" \in Statuses
      BY DEF RegenStage, WorkflowStages, Statuses
    <3>2. 0 \in 0..LeaseTicks
      BY LeaseTicksAssumption
    <3> QED BY <1>1, <2>1, <3>1, <3>2 DEF SessionType
  <2>7. live' \subseteq Task
    BY <2>1, <2>4 DEF IInv, TypeOK
  <2>8. TypeOK'
    BY <1>2, <2>1, <2>2, <2>5, <2>6, <2>7 DEF IInv, TypeOK, RegenType, SessionType
  <2>9. WellFormed'
    BY <1>1, <1>2, <2>5 DEF IInv, WellFormed
  <2>10. Reserved' = {t} /\ Issued' = InFlight \union {t} /\ InFlight \subseteq Issued
    BY <1>2, <2>5 DEF Reserved, Issued
  <2>11. \A u \in InFlight : u.ss = t.ss => u.epoch # t.epoch
    <3> SUFFICES ASSUME NEW u \in InFlight, u.ss = t.ss
                 PROVE  u.epoch # t.epoch
      OBVIOUS
    <3>1. TaskOK(u)
      BY <2>10 DEF IInv, IssuedOnce
    <3>2. t.ss = regen.ss /\ t.epoch = e
      OBVIOUS
    <3>3. u.kind # "pipeline"
      <4>1. 0 \notin Subs
        BY NumSubsAssumption DEF Subs
      <4> QED BY <1>1, <3>1, <3>2, <4>1 DEF TaskOK, PipelineTask
    <3>4. u.epoch <= board[regen.ss]["SCENARIOS"].epoch /\ u.epoch \in Nat
      BY <3>1, <3>2, <3>3 DEF TaskOK, Task
    <3> QED BY <2>2, <2>3, <3>2, <3>4
  <2>12. \A u \in {t} : TaskOK(u)'
    BY <1>1, <2>1, <2>2, <2>3, <2>4 DEF TaskOK, Granularities
  <2>13. \A u \in InFlight : TaskOK(u)'
    <3> SUFFICES ASSUME NEW u \in InFlight, u.kind # "pipeline"
                 PROVE  u.epoch <= board'[u.ss]["SCENARIOS"].epoch
      BY <2>10 DEF IInv, IssuedOnce, TaskOK
    <3>1. u \in Task /\ u.ss \in Subs /\ u.epoch <= board[u.ss]["SCENARIOS"].epoch
      BY <2>10 DEF IInv, IssuedOnce, TaskOK
    <3>2. CASE u.ss = regen.ss
      BY <2>1, <2>2, <2>3, <3>1, <3>2 DEF Task
    <3>3. CASE u.ss # regen.ss
      BY <2>1, <2>2, <3>1, <3>3
    <3> QED BY <3>2, <3>3
  <2>14. IssuedOnce'
    <3> HIDE DEF t
    <3>1. \A u \in Issued' : TaskOK(u)'
      BY <2>10, <2>12, <2>13
    <3>2. \A u, v \in InFlight : u.ss = v.ss /\ u.epoch = v.epoch => u = v
      BY <2>10 DEF IInv, IssuedOnce
    <3>3. \A u, v \in Issued' : u.ss = v.ss /\ u.epoch = v.epoch => u = v
      BY <2>10, <2>11, <3>2
    <3> QED BY <3>1, <3>3 DEF IssuedOnce
  <2> QED BY <2>1, <2>2, <2>8, <2>9, <2>14 DEF IInv
<1> QED BY <1>3, <1>4

\* The invariant holds of a session that has just been created.
LEMMA InitInvariant == Init => IInv
<1> SUFFICES ASSUME Init PROVE IInv
  OBVIOUS
<1>1. board \in Board /\ Sound(board) /\ Ordered(board)
  BY SeededFacts DEF Init
<1>2. \A w \in Workers : worker[w] = Idle /\ worker[w].pc = "idle"
  BY IdleTyped DEF Init
<1>3. NoRegen \in RegenType /\ NoRegen.pc = "idle" /\ NoAccept \in AcceptType
  BY NumSubsAssumption DEF NoRegen, RegenType, Granularities, NoAccept, AcceptType
<1>4. session \in SessionType
  <2>1. 0 \in 0..LeaseTicks
    BY LeaseTicksAssumption
  <2> QED BY <2>1 DEF Init, Created, SessionType, SessionStatuses, WorkflowStages, Statuses
<1>5. NoPass \in [pc : {"idle", "sweep", "find", "close", "giveBack"},
                  work : SUBSET (Subs \X WorkLevels), locks : SUBSET Subs, dead : BOOLEAN]
  BY DEF NoPass
<1>6. spent \in [crashes : 0..MaxCrashes, duplicates : 0..MaxDuplicates,
                 regens : 0..MaxRegens, cancels : 0..MaxCancels]
  <2>1. 0 \in 0..MaxCrashes /\ 0 \in 0..MaxDuplicates /\ 0 \in 0..MaxRegens
        /\ 0 \in 0..MaxCancels
    BY BoundsAssumption
  <2> QED BY <2>1 DEF Init
<1>7. TypeOK
  BY <1>1, <1>3, <1>4, <1>5, <1>6, IdleTyped, PipelineTaskTyped
     DEF Init, TypeOK, RegenType, AcceptType, SessionType
<1>8. WellFormed
  BY <1>2, <1>3, IdleTyped DEF Init, WellFormed
<1>9. Issued \subseteq {PipelineTask}
  BY <1>2, <1>3 DEF Init, Issued, InFlight, Reserved, At
<1>10. TaskOK(PipelineTask)
  BY PipelineTaskTyped DEF TaskOK, PipelineTask
<1>11. IssuedOnce
  BY <1>9, <1>10 DEF IssuedOnce
<1> QED BY <1>1, <1>7, <1>8, <1>11 DEF IInv

\* Every step but a reservation makes progress.
LEMMA StepProgress ==
    ASSUME IInv, [Next]_vars, ~RegenReserve
    PROVE  Progress
<1>1. CASE \E w \in Workers : WorkerStep(w)
  BY <1>1, WorkerProgress
<1>2. CASE \E w \in Workers : Crash(w) \/ Duplicate(w)
  BY <1>2, RedeliveryProgress
<1>3. CASE ReaperStep \/ ReaperCrash
  BY <1>3, ReaperProgress
<1>4. CASE AcceptGate \/ AcceptStep
  BY <1>4, AcceptProgress
<1>5. CASE (\E ss \in Subs, kind \in Offered : RegenGate(ss, kind)) \/ RegenEnqueue
  BY <1>5, RequestProgress
<1>6. CASE Cancel \/ Tick \/ UNCHANGED vars
  BY <1>6, RestProgress
<1> QED BY <1>1, <1>2, <1>3, <1>4, <1>5, <1>6 DEF Next, RegenStep

\* Every step keeps the invariant.
LEMMA StepInvariant == IInv /\ [Next]_vars => IInv'
BY StepProgress, ProgressKeeps, ReserveKeeps

\* The inductive invariant holds throughout.
LEMMA Invariance == Spec => []IInv
BY InitInvariant, StepInvariant, PTL DEF Spec

-----------------------------------------------------------------------------
(* Theorems.                                                               *)

\* Every variable keeps its type, and so claim_stage never runs a stage more than
\* stage_max_attempts times within one generation, however often its task is delivered.
THEOREM TypeCorrect == Spec => []TypeOK
<1>1. IInv => TypeOK
  BY DEF IInv
<1> QED BY <1>1, Invariance, PTL

\* claim_stage's epoch guard works: whatever is redelivered, a RUNNING row belongs to
\* a task of the row's own generation, of a granularity that writes its level.
THEOREM GenerationsAlwaysMatch == Spec => []GenerationsMatch
<1>1. IInv => GenerationsMatch
  BY DEF IInv, Sound, GenerationsMatch
<1> QED BY <1>1, Invariance, PTL

\* next_epoch, which looks at the touched levels only, never leaves a level with an
\* older generation than a level it is made from.
THEOREM EpochsStayOrdered == Spec => []EpochOrder
<1>1. IInv => EpochOrder
  BY DEF IInv, Ordered, EpochOrder
<1> QED BY <1>1, Invariance, PTL

\* The epoch a regenerate request reserves is its task's alone: no other task of the
\* supporting system in flight, however old, has it.
THEOREM EpochsAreUnique == Spec => []OneTaskPerGeneration
<1>1. IInv => OneTaskPerGeneration
  BY DEF IInv, IssuedOnce, Issued, OneTaskPerGeneration
<1> QED BY <1>1, Invariance, PTL

\* No delivery, failure or reaper pass undoes a finished stage: only a regeneration
\* does, under a new epoch.
THEOREM FinishedStaysFinished == Spec => FinishedIsFinal
<1> DEFINE Kept == \A ss \in Subs, l \in WorkLevels :
              board[ss][l].status \in Finished /\ board'[ss][l].epoch = board[ss][l].epoch
                  => board'[ss][l].status = board[ss][l].status
<1>1. IInv /\ [Next]_vars => Kept
  <2> SUFFICES ASSUME IInv, [Next]_vars PROVE Kept
    OBVIOUS
  <2>1. CASE RegenReserve
    <3> SUFFICES ASSUME NEW ss \in Subs, NEW l \in WorkLevels,
                        board'[ss][l].epoch = board[ss][l].epoch
                 PROVE  board'[ss][l].status = board[ss][l].status
      OBVIOUS
    <3>1. board[ss][l].epoch \in Nat
      BY DEF IInv, TypeOK, Board, Cell, Levels
    <3>2. board'[ss][l] = board[ss][l] \/ board'[ss][l].epoch > board[ss][l].epoch
      BY <2>1, ReserveKeeps
    <3> QED BY <3>1, <3>2
  <2>2. CASE ~RegenReserve
    BY <2>2, StepProgress, ProgressFinishes
  <2> QED BY <2>1, <2>2
<1>2. IInv /\ [Next]_vars => [Kept]_vars
  BY <1>1
<1> QED BY <1>2, Invariance, PTL DEF Spec, FinishedIsFinal
=============================================================================

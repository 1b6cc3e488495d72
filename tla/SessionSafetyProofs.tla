------------------------ MODULE SessionSafetyProofs ------------------------
(***************************************************************************)
(* Proofs about the locks, the outcome and the acceptance of a session,    *)
(* each under the hypotheses without which TLC refutes it:                 *)
(*                                                                         *)
(*   - without regenerations (MaxRegens = 0) nothing that stands at the    *)
(*     barrier leaves it (BarrierInv);                                     *)
(*   - with one worker, what decide_session_outcome has read is still so   *)
(*     when it writes the outcome (VerdictInv);                            *)
(*   - as long as no lease runs out under a worker that is alive and no    *)
(*     task fails before its first commit, a lock keeps the others out     *)
(*     (LockInv), and with it the row a worker has claimed (RunInv).       *)
(***************************************************************************)
EXTENDS TsgSessionProofs

\* Reaching an outcome ends the session as the verdict says, or changes nothing.
LEMMA ConcludeFacts ==
    ASSUME NEW s \in SessionType, NEW verdict
    PROVE  LET c == Conclude(s, verdict)
           IN  /\ c.status = "active" => s.status = "active"
               /\ c.status = "completed" => s.status = "completed"
               /\ c.status = "cancelled" => s.status = "cancelled" \/ verdict = "fail"
               /\ c.stage = "REVIEW" => s.stage = "REVIEW" \/ verdict = "review"
<1>1. InReview(s).status = s.status
  BY DEF InReview, SessionType
<1>2. Cancelled(s).status = "cancelled" /\ Cancelled(s).stage = "CANCELLED"
  BY DEF Cancelled, SessionType
<1> QED BY <1>1, <1>2 DEF Conclude

\* What the reaper leaves of the session and the board when it closes a session out.
LEMMA CloseOutFacts ==
    ASSUME IInv, CloseOut
    PROVE  /\ session' \in {session, Conclude(session, Verdict(FailPending(board, Subs)))}
           /\ FailPending(board, Subs) \in Board /\ Sound(FailPending(board, Subs))
           /\ AtBarrier(FailPending(board, Subs)) = AtBarrier(board)
           /\ AtBarrier(board') = AtBarrier(board)
           /\ UNCHANGED <<rows, accepted, live, replaced, brokerVars, apiVars, spent>>
<1> DEFINE b == FailPending(board, Subs)
           locked == [ss \in Subs |-> Lock(b, ss, SessionHolder)[ss]]
<1>1. board \in Board /\ Sound(board)
  BY DEF IInv, TypeOK
<1>2. b \in Board /\ Sound(b) /\ Advances(board, b)
  BY <1>1, FailPendingFacts
<1>3. "SCENARIOS" \in WorkLevels
  BY DEF WorkLevels
<1>4. AtBarrier(b) = AtBarrier(board)
  BY <1>1, <1>2, <1>3, FailPendingCells, BarrierGrows DEF AtBarrier
<1> HIDE DEF b
<1>5. \A ss \in Subs : locked[ss]["SCENARIOS"] = b[ss]["SCENARIOS"]
  BY <1>2, <1>3, LockCells
<1>6. AtBarrier(locked) = AtBarrier(b)
  BY <1>5 DEF AtBarrier
<1>7. board' \in {board, b, locked}
  BY DEF CloseOut, b
<1>8. AtBarrier(board') = AtBarrier(board)
  BY <1>4, <1>6, <1>7
<1>9. /\ session' \in {session, Conclude(session, Verdict(b))}
      /\ UNCHANGED <<rows, accepted, live, replaced, brokerVars, apiVars, spent>>
  BY DEF CloseOut, b
<1> QED BY <1>2, <1>4, <1>8, <1>9 DEF b

\* A regenerate request in flight, whatever a stage supersedes under it.
LEMMA SupersedeFacts ==
    ASSUME NEW ss, NEW t, NEW l, Supersede(ss, t, l)
    PROVE  regen' \in {regen, [regen EXCEPT !.fresh = FALSE]}
BY DEF Supersede

\* The session, the accepted rows and a request under a worker's step that is no outcome.
LEMMA WorkerSession ==
    ASSUME IInv, NEW w \in Workers, WorkerStep(w), ~Outcome(w)
    PROVE  /\ session' \in {session, [session EXCEPT !.idle = 0]}
           /\ regen' \in {regen, [regen EXCEPT !.fresh = FALSE]}
           /\ UNCHANGED <<accepted, reaper, accept, spent>>
<1> USE DEF dbVars, apiVars
<1>1. CASE \/ Take(w) \/ CheckTarget(w) \/ Wait(w) \/ MissLock(w) \/ ClaimStage(w)
           \/ StartRegen(w)
  BY <1>1 DEF Take, CheckTarget, Wait, MissLock, ClaimStage, StartRegen
<1>2. CASE StartSubsystem(w)
  BY <1>2 DEF StartSubsystem
<1>3. CASE Reground(w) \/ Resume(w)
  BY <1>3 DEF Reground, Resume
<1>4. CASE FinishStage(w)
  BY <1>4, SupersedeFacts DEF FinishStage
<1>5. CASE FailStage(w) \/ FailLocked(w) \/ Release(w) \/ Decide(w)
  BY <1>5 DEF FailStage, FailLocked, Release, Decide
<1> QED BY <1>1, <1>2, <1>3, <1>4, <1>5 DEF WorkerStep

-----------------------------------------------------------------------------
(* One transaction of a worker: what it leaves alone, what it does to the  *)
(* lock of its supporting system, and what its record says of the board.   *)

\* A regeneration works on the supporting system it was asked for.
OwnSub(r) == r.pc # "idle" /\ r.task.kind # "pipeline" => r.ss = r.task.ss

\* The worker leaves every lock alone, and holds one only if it held it.
Keeps(w) ==
    /\ \A s \in Subs : board'[s]["_LOCK"] = board[s]["_LOCK"]
    /\ Holding(w)' => Holding(w)
    /\ Working(w)' => Working(w)

\* It takes the lock of its supporting system, which was free.
Acquires(w) ==
    /\ ~LockRowsBusy /\ WinsLock(w)
    /\ LET lock == board'[worker[w].ss]["_LOCK"]
       IN lock.status = "RUNNING" /\ lock.task = worker[w].task /\ lock.lease = LeaseTicks

\* It frees that lock.
Releases(w) ==
    /\ worker[w].pc \in {"release", "releaseLost"} /\ ~LockRowsBusy
    /\ board'[worker[w].ss]["_LOCK"].status = "IDLE"
    /\ ~Holding(w)'

\* The row a running worker waits for the LLM on is one it has just claimed.
FreshlyClaimed(w) ==
    At(w, "run")' =>
        LET cell == board'[worker'[w].ss][worker'[w].stage]
        IN cell.status = "RUNNING" /\ cell.task = worker'[w].task /\ cell.lease = LeaseTicks

\* The worker's record after a step that is not the end of its errand.
Stays(w) ==
    /\ \A v \in Workers \ {w} : worker'[v] = worker[v]
    /\ worker'[w].ss = worker[w].ss /\ worker'[w].task = worker[w].task
    /\ worker'[w].waits = worker[w].waits

Transaction(w) ==
    /\ \A v \in Workers \ {w} : worker'[v] = worker[v]
    /\ \A s \in Subs \ {worker[w].ss} : board'[s] = board[s]
    /\ board' # board => Holding(w) \/ At(w, "releaseLost") \/ WinsLock(w)
    /\ Holding(w)' => Stays(w)
    /\ OwnSub(worker'[w])
    /\ FreshlyClaimed(w)
    /\ At(w, "toReview")' => Verdict(board) = "review"
    /\ At(w, "toFailed")' => Verdict(board) = "fail" /\ UNCHANGED board
    /\ At(w, "releaseLost")' => FailLocked(w)
    /\ Keeps(w) \/ Acquires(w) \/ Releases(w)

\* Go and GoTo change the pc of one record.
LEMMA GoFacts ==
    ASSUME IInv, NEW w \in Workers, NEW pc
    PROVE  /\ Go(w, pc) => Stays(w) /\ worker'[w].pc = pc
           /\ \A stage, blank : GoTo(w, pc, stage, blank) =>
                 Stays(w) /\ worker'[w].pc = pc /\ worker'[w].stage = stage
<1>1. worker \in [Workers -> WorkerRecord]
  BY DEF IInv, TypeOK
<1>2. ASSUME NEW stage, NEW blank,
             worker' = [worker EXCEPT ![w].pc = pc, ![w].stage = stage, ![w].blank = blank]
      PROVE  Stays(w) /\ worker'[w].pc = pc /\ worker'[w].stage = stage
  <2> DEFINE r == [worker[w] EXCEPT !.pc = pc, !.stage = stage, !.blank = blank]
  <2>1. /\ r.pc = pc /\ r.stage = stage /\ r.ss = worker[w].ss /\ r.task = worker[w].task
        /\ r.waits = worker[w].waits
    BY <1>1 DEF WorkerRecord
  <2>2. worker' = [worker EXCEPT ![w] = r]
    BY <1>1, <1>2
  <2> HIDE DEF r
  <2> QED BY <1>1, <2>1, <2>2 DEF Stays
<1> QED BY <1>2 DEF Go, GoTo

\* NextSub leads to the lock of the next supporting system or to the outcome.
LEMMA NextSubFacts ==
    ASSUME IInv, NEW w \in Workers, NextSub(w)
    PROVE  /\ \A v \in Workers \ {w} : worker'[v] = worker[v]
           /\ worker'[w].pc \in {"lock", "toDecide"}
           /\ OwnSub(worker[w]) /\ worker[w].pc # "idle" => OwnSub(worker'[w])
<1> DEFINE r == [Idle EXCEPT !.pc = "lock", !.ss = worker[w].ss + 1, !.task = PipelineTask]
<1>1. worker \in [Workers -> WorkerRecord]
  BY DEF IInv, TypeOK
<1>2. r.pc = "lock" /\ r.task = PipelineTask
  BY DEF Idle
<1> HIDE DEF r
<1>3. CASE worker' = [worker EXCEPT ![w] = r]
  BY <1>1, <1>2, <1>3 DEF OwnSub, PipelineTask
<1>4. CASE Go(w, "toDecide")
  BY <1>4, GoFacts DEF Stays, OwnSub
<1> QED BY <1>3, <1>4 DEF NextSub, r

\* A regeneration that goes on writes its own supporting system, and no lock.
LEMMA ContinueCells ==
    ASSUME IInv, NEW w \in Workers, worker[w].pc # "idle",
           worker[w].task.kind # "pipeline", OwnSub(worker[w]), NEW b \in Board,
           NEW levels \in SUBSET WorkLevels, NEW wrote, Continue(w, b, levels, wrote)
    PROVE  /\ Stays(w) /\ worker'[w].pc \in {"run", "release"} /\ FreshlyClaimed(w)
           /\ \A s \in Subs \ {worker[w].ss} : board'[s] = b[s]
           /\ \A s \in Subs : board'[s]["_LOCK"] = b[s]["_LOCK"]
<1> USE DEF At
<1> DEFINE t == worker[w].task
           l == FirstClaim(b, t, levels)
<1>1. t.ss = worker[w].ss /\ t.ss \in Subs /\ "_LOCK" \notin WorkLevels /\ "_LOCK" \in Levels
  BY BusyTask DEF OwnSub, WorkLevels, Levels
<1>2. CASE \E k \in levels : Claimable(b, t.ss, k, t)
  <2>1. l \in WorkLevels
    BY <1>2, FirstClaimFacts
  <2>2. board' = Claim(b, t.ss, l, t) /\ GoTo(w, "run", l, BlankInput(t, l, wrote))
    BY <1>2 DEF Continue
  <2>3. Stays(w) /\ worker'[w].pc = "run" /\ worker'[w].stage = l
    BY <2>2, GoFacts
  <2> HIDE DEF l
  <2>4. /\ \A s \in Subs \ {t.ss} : board'[s] = b[s]
        /\ \A k \in Levels \ {l} : board'[t.ss][k] = b[t.ss][k]
        /\ board'[t.ss][l].status = "RUNNING" /\ board'[t.ss][l].task = t
        /\ board'[t.ss][l].lease = LeaseTicks
    BY <1>1, <2>1, <2>2, ClaimCells
  <2>5. FreshlyClaimed(w)
    BY <1>1, <2>3, <2>4 DEF FreshlyClaimed, Stays
  <2>6. \A s \in Subs : board'[s]["_LOCK"] = b[s]["_LOCK"]
    BY <1>1, <2>1, <2>4
  <2> QED BY <1>1, <2>3, <2>4, <2>5, <2>6
<1>3. CASE ~\E k \in levels : Claimable(b, t.ss, k, t)
  <2>1. board' = b /\ Go(w, "release")
    BY <1>3 DEF Continue
  <2>2. Stays(w) /\ worker'[w].pc = "release"
    BY <2>1, GoFacts
  <2> QED BY <2>1, <2>2 DEF FreshlyClaimed
<1> QED BY <1>2, <1>3

\* A worker that leaves the board alone and holds no lock when it is done.
LEMMA LeavesLocks ==
    ASSUME NEW w \in Workers, OwnSub(worker'[w]),
           \A v \in Workers \ {w} : worker'[v] = worker[v], UNCHANGED board,
           worker'[w].pc \in {"idle", "lock", "target", "resume", "toDecide"}
    PROVE  Transaction(w)
BY DEF Transaction, Keeps, Holding, Working, FreshlyClaimed, At

\* A worker that goes on with its errand under the lock it has.
LEMMA GoesOn ==
    ASSUME NEW w \in Workers, OwnSub(worker[w]), Stays(w), Working(w),
           \A s \in Subs \ {worker[w].ss} : board'[s] = board[s],
           \A s \in Subs : board'[s]["_LOCK"] = board[s]["_LOCK"],
           worker'[w].pc \in {"claim", "run", "release"}, FreshlyClaimed(w)
    PROVE  Transaction(w)
BY DEF Transaction, Keeps, Holding, Working, FreshlyClaimed, At, Stays, OwnSub

\* A worker that takes the lock of its supporting system, and perhaps claims there.
LEMMA TakesLock ==
    ASSUME IInv, NEW w \in Workers, worker[w].pc # "idle", OwnSub(worker[w]), Stays(w),
           ~LockRowsBusy, WinsLock(w),
           NEW b, b = Lock(board, worker[w].ss, worker[w].task),
           \A s \in Subs \ {worker[w].ss} : board'[s] = b[s],
           \A s \in Subs : board'[s]["_LOCK"] = b[s]["_LOCK"],
           worker'[w].pc \in {"claim", "run", "release"}, FreshlyClaimed(w)
    PROVE  Transaction(w)
<1>1. board \in Board /\ worker[w].ss \in Subs
  BY BusyTask DEF IInv, TypeOK
<1>2. Acquires(w)
  BY <1>1, LockCells DEF Acquires
<1>3. \A s \in Subs \ {worker[w].ss} : board'[s] = board[s]
  BY <1>1, LockCells
<1> QED BY <1>2, <1>3 DEF Transaction, FreshlyClaimed, At, Stays, OwnSub

\* Every step of a worker is such a transaction: one case for each.
LEMMA WorkerTransaction ==
    ASSUME IInv, NEW w \in Workers, WorkerStep(w), OwnSub(worker[w])
    PROVE  Transaction(w)
<1> USE DEF dbVars, apiVars, At
<1> DEFINE t == worker[w].task
           ss == worker[w].ss
           l == worker[w].stage
<1>1. board \in Board /\ Sound(board) /\ worker \in [Workers -> WorkerRecord]
  BY DEF IInv, TypeOK
<1>2. worker[w].pc # "idle" =>
        /\ t \in Task /\ t.kind \in TaskKinds /\ t \in Holder /\ ss \in Subs
        /\ RecordOK(worker[w])
        /\ t.kind # "pipeline" => t.ss = ss
  BY BusyTask DEF TaskOK, Task, Holder, IInv, WellFormed, OwnSub
<1>3. {"PROFILE", "THREATS", "SCENARIOS"} = WorkLevels /\ "_LOCK" \in Levels \ WorkLevels
  BY DEF WorkLevels, Levels
<1>4. OwnSub(Idle) /\ Idle.pc = "idle"
  BY DEF OwnSub, Idle
<1>5. CASE Take(w)
  <2>1. PICK u \in queue : worker' = [worker EXCEPT ![w] =
              IF u.kind = "pipeline"
              THEN [Idle EXCEPT !.pc = "lock", !.task = u, !.ss = 1]
              ELSE [Idle EXCEPT !.pc = "target", !.task = u, !.ss = u.ss]]
    BY <1>5 DEF Take
  <2>2. worker'[w].pc \in {"lock", "target"} /\ OwnSub(worker'[w])
    BY <1>1, <2>1 DEF Idle, OwnSub
  <2>3. \A v \in Workers \ {w} : worker'[v] = worker[v]
    BY <1>1, <2>1
  <2> QED BY <1>5, <2>2, <2>3, LeavesLocks DEF Take
<1>6. CASE CheckTarget(w)
  <2>1. Go(w, "lock") \/ Go(w, "resume") \/ Go(w, "toDecide")
    BY <1>6 DEF CheckTarget
  <2>2. Stays(w) /\ worker'[w].pc \in {"lock", "resume", "toDecide"}
    BY <2>1, GoFacts
  <2> QED BY <1>6, <2>2, LeavesLocks DEF CheckTarget, Stays, OwnSub
<1>7. CASE MissLock(w)
  <2>1. NextSub(w) /\ worker[w].pc # "idle" /\ UNCHANGED board
    BY <1>7 DEF MissLock
  <2> QED BY <2>1, NextSubFacts, LeavesLocks
<1>8. CASE StartSubsystem(w)
  <2> DEFINE b == Lock(board, ss, t)
  <2>1. /\ worker[w].pc # "idle" /\ ~LockRowsBusy /\ WinsLock(w)
        /\ b \in Board
    BY <1>1, <1>2, <1>8, LockFacts DEF StartSubsystem
  <2>2. CASE Claimable(b, ss, "PROFILE", t)
    <3>1. board' = Claim(b, ss, "PROFILE", t) /\ GoTo(w, "run", "PROFILE", FALSE)
      BY <1>8, <2>2 DEF StartSubsystem
    <3>2. Stays(w) /\ worker'[w].pc = "run" /\ worker'[w].stage = "PROFILE"
      BY <3>1, GoFacts
    <3> HIDE DEF b
    <3>3. /\ \A s \in Subs \ {ss} : board'[s] = b[s]
          /\ \A k \in Levels \ {"PROFILE"} : board'[ss][k] = b[ss][k]
          /\ board'[ss]["PROFILE"].status = "RUNNING" /\ board'[ss]["PROFILE"].task = t
          /\ board'[ss]["PROFILE"].lease = LeaseTicks
      BY <1>2, <1>3, <2>1, <3>1, ClaimCells
    <3>4. FreshlyClaimed(w)
      BY <3>2, <3>3 DEF FreshlyClaimed, Stays
    <3>5. \A s \in Subs : board'[s]["_LOCK"] = b[s]["_LOCK"]
      BY <1>3, <3>3
    <3> QED BY <2>1, <3>2, <3>3, <3>4, <3>5, TakesLock DEF b
  <2>3. CASE ~Claimable(b, ss, "PROFILE", t)
    <3>1. board' = b /\ GoTo(w, "claim", "THREATS", FALSE)
      BY <1>8, <2>3 DEF StartSubsystem
    <3>2. Stays(w) /\ worker'[w].pc = "claim"
      BY <3>1, GoFacts
    <3>3. FreshlyClaimed(w)
      BY <3>2 DEF FreshlyClaimed
    <3> QED BY <2>1, <3>1, <3>2, <3>3, TakesLock
  <2> QED BY <2>2, <2>3
<1>9. CASE ClaimStage(w)
  <2>1. worker[w].pc = "claim" /\ l \in WorkLevels /\ Working(w)
    BY <1>2, <1>9 DEF ClaimStage, RecordOK, Working
  <2>2. CASE Claimable(board, ss, l, t)
    <3>1. /\ board' = Claim(board, ss, l, t)
          /\ GoTo(w, "run", l, l = "THREATS" /\ "PROFILE" \notin rows[ss])
      BY <1>9, <2>2 DEF ClaimStage
    <3>2. Stays(w) /\ worker'[w].pc = "run" /\ worker'[w].stage = l
      BY <3>1, GoFacts
    <3>3. /\ \A s \in Subs \ {ss} : board'[s] = board[s]
          /\ \A s \in Subs : board'[s]["_LOCK"] = board[s]["_LOCK"]
          /\ FreshlyClaimed(w)
      BY <1>1, <1>2, <1>3, <2>1, <3>1, <3>2, ClaimCells DEF FreshlyClaimed, Stays
    <3> QED BY <2>1, <3>2, <3>3, GoesOn
  <2>3. CASE ~Claimable(board, ss, l, t)
    <3>1. board' = board /\ (GoTo(w, "claim", "SCENARIOS", FALSE) \/ Go(w, "release"))
      BY <1>9, <2>3 DEF ClaimStage
    <3>2. Stays(w) /\ worker'[w].pc \in {"claim", "release"}
      BY <3>1, GoFacts
    <3>3. FreshlyClaimed(w)
      BY <3>2 DEF FreshlyClaimed
    <3> QED BY <2>1, <3>1, <3>2, <3>3, GoesOn
  <2> QED BY <2>2, <2>3
<1>10. CASE StartRegen(w)
  <2> DEFINE b == Lock(board, t.ss, t)
  <2>1. /\ worker[w].pc # "idle" /\ t.kind # "pipeline" /\ t.ss = ss
        /\ ~LockRowsBusy /\ WinsLock(w)
        /\ Continue(w, b, LevelsOf(t.kind), "none")
    BY <1>2, <1>10 DEF StartRegen
  <2>2. b \in Board /\ LevelsOf(t.kind) \in SUBSET WorkLevels
    BY <1>1, <1>2, <2>1, LockFacts, LevelsTyped
  <2>3. /\ Stays(w) /\ worker'[w].pc \in {"run", "release"} /\ FreshlyClaimed(w)
        /\ \A s \in Subs \ {ss} : board'[s] = b[s]
        /\ \A s \in Subs : board'[s]["_LOCK"] = b[s]["_LOCK"]
    BY <2>1, <2>2, ContinueCells
  <2> QED BY <2>1, <2>3, TakesLock
<1>11. CASE Reground(w)
  <2> DEFINE b == Lock(board, t.ss, t)
             claimed == Claim(b, t.ss, "THREATS", t)
             done == SetStage(claimed, t.ss, "THREATS", "COMPLETE")
  <2>1. /\ worker[w].pc # "idle" /\ t.kind = "threat" /\ t.ss = ss
        /\ ~LockRowsBusy /\ WinsLock(w)
    BY <1>2, <1>11 DEF Reground
  <2>2. b \in Board /\ Sound(b)
    BY <1>1, <1>2, <2>1, LockFacts
  <2>3. CASE Claimable(b, t.ss, "THREATS", t)
    <3>1. claimed \in Board /\ Sound(claimed)
      <4>1. "THREATS" \in LevelsOf(t.kind)
        BY <2>1 DEF LevelsOf
      <4> QED BY <1>2, <2>1, <2>2, <2>3, <4>1, ClaimFacts
    <3>2. done \in Board
      <4>1. "COMPLETE" = FinalOf("THREATS") /\ "THREATS" \in WorkLevels
        BY <1>3 DEF FinalOf
      <4> QED BY <1>2, <2>1, <3>1, <4>1, SetStageFacts
    <3>3. /\ \A s \in Subs \ {ss} : done[s] = b[s]
          /\ \A s \in Subs : done[s]["_LOCK"] = b[s]["_LOCK"]
      <4>1. /\ \A s \in Subs \ {ss} : claimed[s] = b[s]
            /\ \A k \in Levels \ {"THREATS"} : claimed[ss][k] = b[ss][k]
        BY <1>2, <1>3, <2>1, <2>2, ClaimCells
      <4> HIDE DEF claimed
      <4>2. /\ \A s \in Subs \ {ss} : done[s] = claimed[s]
            /\ \A k \in Levels \ {"THREATS"} : done[ss][k] = claimed[ss][k]
        BY <1>2, <1>3, <2>1, <3>1, SetStageCells
      <4> QED BY <1>3, <4>1, <4>2
    <3>4. Continue(w, done, {"SCENARIOS"}, "THREATS")
      BY <1>11, <2>3 DEF Reground
    <3> HIDE DEF done
    <3>5. /\ Stays(w) /\ worker'[w].pc \in {"run", "release"} /\ FreshlyClaimed(w)
          /\ \A s \in Subs \ {ss} : board'[s] = done[s]
          /\ \A s \in Subs : board'[s]["_LOCK"] = done[s]["_LOCK"]
      BY <1>3, <2>1, <3>2, <3>4, ContinueCells
    <3> QED BY <2>1, <3>3, <3>5, TakesLock
  <2>4. CASE ~Claimable(b, t.ss, "THREATS", t)
    <3>1. board' = b /\ Go(w, "release")
      BY <1>11, <2>4 DEF Reground
    <3>2. Stays(w) /\ worker'[w].pc = "release" /\ FreshlyClaimed(w)
      BY <3>1, GoFacts DEF FreshlyClaimed
    <3> QED BY <2>1, <3>1, <3>2, TakesLock
  <2> QED BY <2>3, <2>4
<1>12. CASE Resume(w)
  <2> DEFINE b == Lock(board, t.ss, t)
  <2>1. /\ worker[w].pc # "idle" /\ t.kind # "pipeline" /\ t.ss = ss
        /\ ~LockRowsBusy /\ WinsLock(w)
        /\ Continue(w, b, {"SCENARIOS"}, "THREATS") \/ (board' = b /\ Go(w, "release"))
    BY <1>2, <1>12 DEF Resume, RecordOK
  <2>2. b \in Board /\ {"SCENARIOS"} \in SUBSET WorkLevels
    BY <1>1, <1>2, <1>3, <2>1, LockFacts
  <2>3. /\ Stays(w) /\ worker'[w].pc \in {"run", "release"} /\ FreshlyClaimed(w)
        /\ \A s \in Subs \ {ss} : board'[s] = b[s]
        /\ \A s \in Subs : board'[s]["_LOCK"] = b[s]["_LOCK"]
    <3>1. CASE Continue(w, b, {"SCENARIOS"}, "THREATS")
      BY <2>1, <2>2, <3>1, ContinueCells
    <3>2. CASE board' = b /\ Go(w, "release")
      BY <3>2, GoFacts DEF FreshlyClaimed
    <3> QED BY <2>1, <3>1, <3>2
  <2> QED BY <2>1, <2>3, TakesLock
<1>13. CASE FinishStage(w)
  <2> DEFINE done == SetStage(board, ss, l, FinalOf(l))
  <2>1. worker[w].pc = "run" /\ l \in WorkLevels /\ Working(w)
    BY <1>2, <1>13 DEF FinishStage, RecordOK, Working
  <2>2. done \in Board
    BY <1>1, <1>2, <2>1, SetStageFacts
  <2>3. /\ \A s \in Subs \ {ss} : done[s] = board[s]
        /\ \A s \in Subs : done[s]["_LOCK"] = board[s]["_LOCK"]
    BY <1>1, <1>2, <1>3, <2>1, SetStageCells
  <2>4. \/ /\ t.kind # "pipeline"
           /\ Continue(w, done, LevelsOf(t.kind) \intersect Later(l), l)
        \/ /\ board' = done
           /\ \/ GoTo(w, "claim", "THREATS", FALSE) \/ GoTo(w, "claim", "SCENARIOS", FALSE)
              \/ Go(w, "release")
    BY <1>13 DEF FinishStage, FinalOf
  <2> HIDE DEF done
  <2>5. /\ Stays(w) /\ worker'[w].pc \in {"claim", "run", "release"} /\ FreshlyClaimed(w)
        /\ \A s \in Subs \ {ss} : board'[s] = done[s]
        /\ \A s \in Subs : board'[s]["_LOCK"] = done[s]["_LOCK"]
    <3>1. CASE t.kind # "pipeline" /\ Continue(w, done, LevelsOf(t.kind) \intersect Later(l), l)
      <4>1. LevelsOf(t.kind) \intersect Later(l) \in SUBSET WorkLevels
        BY <1>2, <2>1, LevelsTyped
      <4> QED BY <1>2, <2>1, <2>2, <3>1, <4>1, ContinueCells
    <3>2. CASE /\ board' = done
               /\ \/ GoTo(w, "claim", "THREATS", FALSE) \/ GoTo(w, "claim", "SCENARIOS", FALSE)
                  \/ Go(w, "release")
      <4>1. Stays(w) /\ worker'[w].pc \in {"claim", "release"}
        BY <3>2, GoFacts
      <4>2. FreshlyClaimed(w)
        BY <4>1 DEF FreshlyClaimed
      <4> QED BY <3>2, <4>1, <4>2
    <3> QED BY <2>4, <3>1, <3>2
  <2> QED BY <2>1, <2>3, <2>5, GoesOn
<1>14. CASE FailStage(w)
  <2>1. board' = FailPending(board, {ss}) /\ Go(w, "release") /\ Working(w)
    BY <1>14 DEF FailStage
  <2>2. Stays(w) /\ worker'[w].pc = "release" /\ FreshlyClaimed(w)
    BY <2>1, GoFacts DEF FreshlyClaimed
  <2>3. /\ \A s \in Subs \ {ss} : board'[s] = board[s]
        /\ \A s \in Subs : board'[s]["_LOCK"] = board[s]["_LOCK"]
    BY <1>1, <2>1, FailPendingCells
  <2> QED BY <2>1, <2>2, <2>3, GoesOn
<1>15. CASE FailLocked(w)
  <2>1. board' = FailPending(board, {ss}) /\ Go(w, "releaseLost")
    BY <1>15 DEF FailLocked
  <2>2. Stays(w) /\ worker'[w].pc = "releaseLost"
    BY <2>1, GoFacts
  <2>3. /\ \A s \in Subs \ {ss} : board'[s] = board[s]
        /\ \A s \in Subs : board'[s]["_LOCK"] = board[s]["_LOCK"]
    BY <1>1, <2>1, FailPendingCells
  <2>4. Keeps(w) /\ ~Holding(w)' /\ FreshlyClaimed(w)
    BY <2>2, <2>3 DEF Keeps, Holding, Working, FreshlyClaimed
  <2>5. OwnSub(worker'[w])
    BY <1>15, <2>2 DEF OwnSub, FailLocked, Stays
  <2> QED BY <1>15, <2>2, <2>3, <2>4, <2>5 DEF Transaction, Stays, FailLocked
<1>16. CASE Release(w)
  <2>1. /\ worker[w].pc \in {"release", "releaseLost"} /\ ~LockRowsBusy
        /\ board' = Unlock(board, {ss}) /\ NextSub(w)
    BY <1>16 DEF Release
  <2>2. /\ \A s \in Subs \ {ss} : board'[s] = board[s]
        /\ board'[ss]["_LOCK"].status = "IDLE"
    <3> DEFINE S == {ss}
    <3>1. ss \in S \intersect Subs /\ board' = Unlock(board, S)
      BY <1>2, <2>1
    <3>2. Subs \ S = Subs \ {ss}
      OBVIOUS
    <3> HIDE DEF S
    <3>3. /\ \A s \in Subs \ S : board'[s] = board[s]
          /\ \A s \in S \intersect Subs : board'[s]["_LOCK"].status = "IDLE"
      BY <1>1, <3>1, UnlockCells
    <3> QED BY <3>1, <3>2, <3>3
  <2>3. /\ \A v \in Workers \ {w} : worker'[v] = worker[v]
        /\ worker'[w].pc \in {"lock", "toDecide"} /\ OwnSub(worker'[w])
    BY <2>1, NextSubFacts
  <2> QED BY <2>1, <2>2, <2>3 DEF Transaction, Releases, Holding, FreshlyClaimed
<1>17. CASE Decide(w)
  <2>1. UNCHANGED board /\ worker[w].pc # "idle"
    BY <1>17 DEF Decide
  <2>2. CASE worker' = [worker EXCEPT ![w] = Idle]
    BY <1>1, <1>4, <2>1, <2>2, LeavesLocks
  <2>3. CASE \/ Verdict(board) = "review" /\ Go(w, "toReview")
             \/ Verdict(board) = "fail" /\ Go(w, "toFailed")
    <3>1. /\ Stays(w) /\ worker'[w].pc \in {"toReview", "toFailed"}
          /\ worker'[w].pc = "toReview" => Verdict(board) = "review"
          /\ worker'[w].pc = "toFailed" => Verdict(board) = "fail"
      BY <2>3, GoFacts
    <3> QED BY <2>1, <3>1
            DEF Transaction, Keeps, Holding, Working, FreshlyClaimed, Stays, OwnSub
  <2> QED BY <1>17, <2>2, <2>3 DEF Decide
<1>18. CASE Outcome(w)
  <2>1. worker' = [worker EXCEPT ![w] = Idle] /\ UNCHANGED board
    BY <1>18 DEF Outcome
  <2> QED BY <1>1, <1>4, <2>1, LeavesLocks
<1>19. CASE Wait(w)
  <2>1. /\ worker' = [worker EXCEPT ![w].waits = TRUE] /\ UNCHANGED board
        /\ worker[w].pc \in {"lock", "resume"}
    BY <1>19 DEF Wait
  <2> DEFINE r == [worker[w] EXCEPT !.waits = TRUE]
  <2>2. r.pc = worker[w].pc /\ r.ss = ss /\ r.task = t
    BY <1>1 DEF WorkerRecord
  <2>3. worker' = [worker EXCEPT ![w] = r]
    BY <1>1, <2>1
  <2> HIDE DEF r
  <2>4. worker'[w] = r /\ \A v \in Workers \ {w} : worker'[v] = worker[v]
    BY <1>1, <2>3
  <2> QED BY <2>1, <2>2, <2>4, LeavesLocks DEF OwnSub
<1> QED BY <1>5, <1>6, <1>7, <1>8, <1>9, <1>10, <1>11, <1>12, <1>13, <1>14, <1>15, <1>16,
           <1>17, <1>18, <1>19 DEF WorkerStep

\* Everybody else at most ends a worker's delivery.
LEMMA OthersOnWorkers ==
    ASSUME IInv, [Next]_vars, ~\E w \in Workers : WorkerStep(w), NEW v \in Workers
    PROVE  worker'[v] \in {worker[v], Idle}
<1> USE DEF dbVars, brokerVars, apiVars
<1>1. worker \in [Workers -> WorkerRecord]
  BY DEF IInv, TypeOK
<1>2. CASE \E w \in Workers : Crash(w) \/ Duplicate(w)
  BY <1>1, <1>2 DEF Crash, Duplicate
<1>3. CASE ReaperStep \/ ReaperCrash
  BY <1>3 DEF ReaperStep, Scan, SweepExpired, Find, BlockReaper, CloseOut, GiveBack,
              ReaperCrash
<1>4. CASE AcceptGate \/ AcceptStep
  BY <1>4 DEF AcceptGate, AcceptStep, AcceptRead, AcceptLock, AcceptFinish, AcceptAbort
<1>5. CASE (\E ss \in Subs, kind \in Offered : RegenGate(ss, kind)) \/ RegenStep
  BY <1>5 DEF RegenGate, RegenStep, RegenReserve, RegenEnqueue
<1>6. CASE Cancel \/ Tick \/ UNCHANGED vars
  BY <1>6 DEF Cancel, Tick, vars
<1> QED BY <1>2, <1>3, <1>4, <1>5, <1>6 DEF Next

\* A regeneration's worker never strays from the supporting system it was asked for.
Errands == IInv /\ \A w \in Workers : OwnSub(worker[w])

LEMMA ErrandsInvariant ==
    /\ Init => Errands
    /\ Errands /\ [Next]_vars => Errands'
<1>1. Init => Errands
  BY InitInvariant DEF Init, Errands, Idle, OwnSub
<1>2. ASSUME Errands, [Next]_vars PROVE Errands'
  <2>1. IInv /\ IInv'
    BY <1>2, StepInvariant DEF Errands
  <2>2. CASE \E w \in Workers : WorkerStep(w)
    <3>1. PICK w \in Workers : Transaction(w)
      BY <1>2, <2>1, <2>2, WorkerTransaction DEF Errands
    <3> QED BY <1>2, <2>1, <3>1 DEF Errands, Transaction
  <2>3. CASE ~\E w \in Workers : WorkerStep(w)
    <3>1. \A v \in Workers : worker'[v] \in {worker[v], Idle}
      BY <1>2, <2>1, <2>3, OthersOnWorkers
    <3> QED BY <1>2, <2>1, <3>1 DEF Errands, OwnSub, Idle
  <2> QED BY <2>2, <2>3
<1> QED BY <1>1, <1>2

-----------------------------------------------------------------------------
(* Without regenerations the barrier only fills up.                        *)

\* No request resets a stage, and whoever has seen the barrier occupied, or means to
\* say so, can still see it.
BarrierInv ==
    /\ Errands
    /\ regen.pc = "idle"
    /\ Active /\ session.stage = "REVIEW" => AtBarrier(board) # {}
    /\ \A w \in Workers : At(w, "toReview") => AtBarrier(board) # {}
    /\ accept.good \subseteq AtBarrier(board)
    /\ accepted \subseteq AtBarrier(board)

\* A step that lets the barrier grow and announces no review of its own.
LEMMA BarrierKept ==
    ASSUME BarrierInv, Errands', AtBarrier(board) \subseteq AtBarrier(board'),
           regen'.pc = "idle",
           (Active /\ session.stage = "REVIEW")' =>
               (Active /\ session.stage = "REVIEW") \/ AtBarrier(board') # {},
           \A v \in Workers : At(v, "toReview")' => At(v, "toReview") \/ AtBarrier(board') # {},
           accept'.good \subseteq accept.good \union AtBarrier(board'),
           accepted' \subseteq accepted \union accept.good
    PROVE  BarrierInv'
BY DEF BarrierInv

\* Every step keeps it.
LEMMA BarrierStep ==
    ASSUME MaxRegens = 0, BarrierInv, [Next]_vars
    PROVE  BarrierInv'
<1> USE DEF dbVars, brokerVars, apiVars
<1>1. IInv /\ Errands' /\ session \in SessionType /\ board \in Board /\ Sound(board)
  BY ErrandsInvariant DEF BarrierInv, Errands, IInv, TypeOK, SessionType
<1>2. ~RegenReserve /\ ~RegenEnqueue /\ \A ss, kind : ~RegenGate(ss, kind)
  <2>1. spent.regens \in 0..MaxRegens
    BY <1>1 DEF IInv, TypeOK
  <2>2. ~(spent.regens < MaxRegens)
    BY <2>1
  <2> QED BY <2>2 DEF BarrierInv, RegenReserve, RegenEnqueue, RegenGate
<1>3. AtBarrier(board) \subseteq AtBarrier(board')
  BY <1>1, <1>2, StepProgress, BarrierGrows DEF Progress
<1>4. ASSUME NEW w \in Workers, WorkerStep(w) PROVE BarrierInv'
  <2>1. Transaction(w)
    BY <1>1, <1>4, WorkerTransaction DEF BarrierInv, Errands
  <2>2. \A v \in Workers : At(v, "toReview")' => At(v, "toReview") \/ AtBarrier(board') # {}
    <3>1. At(w, "toReview")' => AtBarrier(board) # {}
      BY <1>1, <2>1, ReviewVerdict DEF Transaction
    <3> QED BY <1>3, <2>1, <3>1 DEF Transaction, At
  <2>3. CASE Outcome(w)
    <3>1. (Active /\ session.stage = "REVIEW")' =>
               (Active /\ session.stage = "REVIEW") \/ AtBarrier(board') # {}
      <4>1. session' = Conclude(session, "review") \/ session' = Conclude(session, "fail")
        BY <2>3 DEF Outcome
      <4>2. At(w, "toReview") \/ session' = Conclude(session, "fail")
        BY <2>3 DEF Outcome
      <4> QED BY <1>1, <1>3, <4>1, <4>2, ConcludeFacts DEF Active, BarrierInv
    <3> QED BY <1>1, <1>3, <2>2, <2>3, <3>1, BarrierKept DEF Outcome, BarrierInv
  <2>4. CASE ~Outcome(w)
    <3>1. /\ session' \in {session, [session EXCEPT !.idle = 0]}
          /\ regen' \in {regen, [regen EXCEPT !.fresh = FALSE]}
          /\ UNCHANGED <<accepted, reaper, accept, spent>>
      BY <1>1, <1>4, <2>4, WorkerSession
    <3>2. session'.status = session.status /\ session'.stage = session.stage
      BY <1>1, <3>1 DEF SessionType
    <3>3. regen'.pc = regen.pc
      BY <1>1, <3>1 DEF IInv, TypeOK
    <3> QED BY <1>1, <1>3, <2>2, <3>1, <3>2, <3>3, BarrierKept DEF Active, BarrierInv
  <2> QED BY <2>3, <2>4
<1>5. ASSUME ~\E w \in Workers : WorkerStep(w)
      PROVE  \A v \in Workers : At(v, "toReview")' => At(v, "toReview") \/ AtBarrier(board') # {}
  BY <1>1, <1>5, OthersOnWorkers DEF At, Idle
<1>6. CASE \E w \in Workers : WorkerStep(w)
  BY <1>4, <1>6
<1>7. CASE CloseOut /\ ~\E w \in Workers : WorkerStep(w)
  <2>1. /\ session' \in {session, Conclude(session, Verdict(FailPending(board, Subs)))}
        /\ Sound(FailPending(board, Subs))
        /\ AtBarrier(FailPending(board, Subs)) = AtBarrier(board)
        /\ UNCHANGED <<accepted, regen, accept>>
    BY <1>1, <1>7, CloseOutFacts
  <2>2. (Active /\ session.stage = "REVIEW")' =>
               (Active /\ session.stage = "REVIEW") \/ AtBarrier(board') # {}
    BY <1>1, <1>3, <2>1, ConcludeFacts, ReviewVerdict DEF Active
  <2> QED BY <1>1, <1>3, <1>5, <1>7, <2>1, <2>2, BarrierKept DEF BarrierInv
<1>8. CASE (AcceptGate \/ AcceptStep) /\ ~\E w \in Workers : WorkerStep(w)
  <2>1. accept \in AcceptType
    BY <1>1 DEF IInv, TypeOK, AcceptType
  <2>2. /\ accept'.good \subseteq accept.good \union AtBarrier(board')
        /\ accepted' \subseteq accepted \union accept.good
        /\ UNCHANGED <<board, regen>>
        /\ session' \in {session, Completed(session)}
    <3>1. NoAccept.good = {} /\ [NoAccept EXCEPT !.pc = "gated"].good = {}
      BY DEF NoAccept
    <3>2. [accept EXCEPT !.pc = "locked"].good = accept.good
      BY <2>1 DEF AcceptType
    <3>3. [pc |-> "read", good |-> AtBarrier(board)].good = AtBarrier(board)
      OBVIOUS
    <3>4. CASE AcceptGate
      BY <3>1, <3>4 DEF AcceptGate
    <3>5. CASE AcceptRead
      BY <3>3, <3>5 DEF AcceptRead
    <3>6. CASE AcceptLock
      BY <3>1, <3>2, <3>6 DEF AcceptLock
    <3>7. CASE AcceptFinish
      BY <3>1, <3>7 DEF AcceptFinish
    <3>8. CASE AcceptAbort
      BY <3>1, <3>8 DEF AcceptAbort
    <3> QED BY <1>8, <3>4, <3>5, <3>6, <3>7, <3>8 DEF AcceptStep
  <2>3. Completed(session).status = "completed"
    BY <1>1 DEF Completed, SessionType
  <2> QED BY <1>1, <1>3, <1>5, <1>8, <2>2, <2>3, BarrierKept DEF Active, BarrierInv
<1>9. CASE Cancel /\ ~\E w \in Workers : WorkerStep(w)
  <2>1. Cancelled(session).status = "cancelled"
    BY <1>1 DEF Cancelled, SessionType
  <2> QED BY <1>1, <1>3, <1>5, <1>9, <2>1, BarrierKept DEF Cancel, Active, BarrierInv
<1>10. CASE Tick /\ ~\E w \in Workers : WorkerStep(w)
  <2>1. session'.status = session.status /\ session'.stage = session.stage
    BY <1>1, <1>10 DEF Tick, SessionType
  <2> QED BY <1>1, <1>3, <1>5, <1>10, <2>1, BarrierKept DEF Tick, Active, BarrierInv
<1>11. CASE /\ \/ \E w \in Workers : Crash(w) \/ Duplicate(w)
               \/ Scan \/ SweepExpired \/ Find \/ BlockReaper \/ GiveBack \/ ReaperCrash
               \/ UNCHANGED vars
            /\ ~\E w \in Workers : WorkerStep(w)
  <2>1. UNCHANGED <<session, accepted, accept, regen>>
    BY <1>11 DEF Crash, Duplicate, Scan, SweepExpired, Find, BlockReaper, GiveBack,
                ReaperCrash, vars
  <2> QED BY <1>1, <1>3, <1>5, <1>11, <2>1, BarrierKept DEF Active, BarrierInv
<1> QED BY <1>2, <1>6, <1>7, <1>8, <1>9, <1>10, <1>11 DEF Next, ReaperStep, RegenStep

\* It holds of a session that has just been created, and so throughout.
LEMMA BarrierInvariance ==
    ASSUME MaxRegens = 0
    PROVE  Spec => []BarrierInv
<1>1. Init => BarrierInv
  BY ErrandsInvariant DEF Init, BarrierInv, NoRegen, NoAccept, Created, Idle, At, Active
<1>2. BarrierInv /\ [Next]_vars => BarrierInv'
  BY BarrierStep
<1> QED BY <1>1, <1>2, PTL DEF Spec

\* As long as nobody asks for a regeneration, a session that waits for its reviewer has
\* something to review: whatever was swept, redelivered or decided on a stale read.
THEOREM ReviewsHaveResults ==
    ASSUME MaxRegens = 0
    PROVE  Spec => []ReviewHasResults
<1>1. BarrierInv => ReviewHasResults
  BY DEF BarrierInv, ReviewHasResults
<1> QED BY <1>1, BarrierInvariance, PTL

\* As long as nobody asks for a regeneration, what accept marks as accepted still stands
\* at the barrier, although accept reads it before it takes the locks.
THEOREM AcceptedStandsAtBarrier ==
    ASSUME MaxRegens = 0
    PROVE  Spec => []AcceptedAtBarrier
<1>1. BarrierInv => AcceptedAtBarrier
  BY DEF BarrierInv, AcceptedAtBarrier
<1> QED BY <1>1, BarrierInvariance, PTL

-----------------------------------------------------------------------------
(* With one worker nobody finishes a stage between a decision and its      *)
(* outcome.                                                                *)

\* The worker that means to declare the session failed is still right.
VerdictInv ==
    /\ Errands
    /\ \A w \in Workers : At(w, "toFailed") => AtBarrier(board) = {}

\* Only a worker brings a supporting system to the barrier.
LEMMA OthersOnBarrier ==
    ASSUME IInv, [Next]_vars, ~\E w \in Workers : WorkerStep(w)
    PROVE  AtBarrier(board') \subseteq AtBarrier(board)
<1> USE DEF dbVars, brokerVars, apiVars
<1>1. board \in Board /\ "SCENARIOS" \in WorkLevels /\ "SCENARIOS" \in Levels
  BY DEF IInv, TypeOK, WorkLevels, Levels
<1>2. CASE UNCHANGED board
  BY <1>2
<1>3. CASE SweepExpired
  <2>1. board' = Sweep(board, reaper.work, reaper.locks)
    BY <1>3 DEF SweepExpired
  <2>2. \A s \in Subs : \/ board'[s]["SCENARIOS"] = board[s]["SCENARIOS"]
                       \/ board'[s]["SCENARIOS"].status \in {"ERROR", "IDLE"}
    BY <1>1, <2>1, SweepCells
  <2> QED BY <2>2 DEF AtBarrier
<1>4. CASE CloseOut
  BY <1>4, CloseOutFacts
<1>5. CASE GiveBack
  BY <1>1, <1>5, UnlockCells DEF GiveBack, AtBarrier
<1>6. CASE RegenReserve
  <2>1. regen.kind \in TaskKinds
    BY DEF IInv, TypeOK, TaskKinds
  <2> DEFINE e == NextEpoch(board, regen.ss, regen.kind)
  <2>2. UNCHANGED board \/ board' = ResetForRegen(board, regen.ss, regen.kind, e)
    BY <1>6 DEF RegenReserve
  <2>3. regen.ss \in Subs
    BY <1>6 DEF RegenReserve, IInv, WellFormed
  <2> HIDE DEF e
  <2>4. \A s \in Subs : board'[s]["SCENARIOS"].status = "AWAITING_DECISION"
                          => board[s]["SCENARIOS"].status = "AWAITING_DECISION"
    BY <1>1, <2>1, <2>2, <2>3, ResetCells
  <2> QED BY <2>4 DEF AtBarrier
<1>7. CASE Tick
  BY <1>1, <1>7, ElapseCells DEF Tick, AtBarrier
<1>8. CASE \E w \in Workers : Crash(w) \/ Duplicate(w)
  BY <1>2, <1>8 DEF Crash, Duplicate
<1>9. CASE Scan \/ Find \/ BlockReaper \/ ReaperCrash
  BY <1>2, <1>9 DEF Scan, Find, BlockReaper, ReaperCrash
<1>10. CASE AcceptGate \/ AcceptStep
  BY <1>2, <1>10 DEF AcceptGate, AcceptStep, AcceptRead, AcceptLock, AcceptFinish, AcceptAbort
<1>11. CASE (\E ss \in Subs, kind \in Offered : RegenGate(ss, kind)) \/ RegenEnqueue
  BY <1>2, <1>11 DEF RegenGate, RegenEnqueue
<1>12. CASE Cancel \/ UNCHANGED vars
  BY <1>2, <1>12 DEF Cancel, vars
<1> QED BY <1>3, <1>4, <1>5, <1>6, <1>7, <1>8, <1>9, <1>10, <1>11, <1>12
        DEF Next, ReaperStep, RegenStep

\* Every step keeps it.
LEMMA VerdictStep ==
    ASSUME \A v, w \in Workers : v = w, VerdictInv, [Next]_vars
    PROVE  VerdictInv'
<1>1. IInv /\ Errands'
  BY ErrandsInvariant DEF VerdictInv, Errands
<1>2. CASE \E w \in Workers : WorkerStep(w)
  <2>1. PICK w \in Workers : Transaction(w)
    BY <1>1, <1>2, WorkerTransaction DEF VerdictInv, Errands
  <2>2. At(w, "toFailed")' => AtBarrier(board') = {}
    BY <2>1, FailVerdict DEF Transaction
  <2> QED BY <1>1, <2>2 DEF VerdictInv
<1>3. CASE ~\E w \in Workers : WorkerStep(w)
  <2>1. \A v \in Workers : At(v, "toFailed")' => At(v, "toFailed")
    BY <1>1, <1>3, OthersOnWorkers DEF At, Idle
  <2>2. AtBarrier(board') \subseteq AtBarrier(board)
    BY <1>1, <1>3, OthersOnBarrier
  <2> QED BY <1>1, <2>1, <2>2 DEF VerdictInv
<1> QED BY <1>2, <1>3

\* It holds of a session that has just been created, and so throughout.
LEMMA VerdictInvariance ==
    ASSUME \A v, w \in Workers : v = w
    PROVE  Spec => []VerdictInv
<1>1. Init => VerdictInv
  BY ErrandsInvariant DEF Init, VerdictInv, Idle, At
<1>2. VerdictInv /\ [Next]_vars => VerdictInv'
  BY VerdictStep
<1> QED BY <1>1, <1>2, PTL DEF Spec

\* Where one worker executes all deliveries, a session that fails has nothing at the
\* barrier, although decide_session_outcome reads the board and writes the session in
\* two statements, and although the reaper and regenerations write between them.
THEOREM OneWorkerFailsRightly ==
    ASSUME \A v, w \in Workers : v = w
    PROVE  Spec => FailedMeansAllFailed
<1> DEFINE Rightly == Active /\ session'.status = "cancelled" /\ UNCHANGED spent
                        => AtBarrier(board) = {}
<1> USE DEF dbVars, brokerVars, apiVars
<1>1. VerdictInv /\ [Next]_vars => Rightly
  <2> SUFFICES ASSUME VerdictInv, [Next]_vars, Active, session'.status = "cancelled",
                      UNCHANGED spent
               PROVE  AtBarrier(board) = {}
    OBVIOUS
  <2>1. IInv /\ session \in SessionType /\ spent.crashes \in Nat /\ spent.cancels \in Nat
    <3>1. IInv /\ spent.crashes \in 0..MaxCrashes /\ spent.cancels \in 0..MaxCancels
      BY DEF VerdictInv, Errands, IInv, TypeOK
    <3> QED BY <3>1, BoundsAssumption DEF IInv, TypeOK, SessionType
  <2>2. session'.status # session.status /\ session.status # "cancelled"
    BY DEF Active
  <2>3. CASE \E w \in Workers : WorkerStep(w)
    <3>1. PICK w \in Workers : WorkerStep(w)
      BY <2>3
    <3>2. Outcome(w)
      <4>1. [session EXCEPT !.idle = 0].status = session.status
        BY <2>1 DEF SessionType
      <4> QED BY <2>1, <2>2, <3>1, <4>1, WorkerSession
    <3>3. At(w, "toFailed") \/ session' = Conclude(session, "review")
      BY <3>2 DEF Outcome, At
    <3> QED BY <2>1, <2>2, <3>3, ConcludeFacts DEF VerdictInv
  <2>4. CASE CloseOut
    <3>1. /\ session' = Conclude(session, Verdict(FailPending(board, Subs)))
          /\ AtBarrier(FailPending(board, Subs)) = AtBarrier(board)
      BY <2>1, <2>2, <2>4, CloseOutFacts
    <3>2. Verdict(FailPending(board, Subs)) = "fail"
      BY <2>1, <2>2, <3>1, ConcludeFacts
    <3> QED BY <3>1, <3>2, FailVerdict
  <2>5. CASE AcceptGate \/ AcceptStep
    <3>1. session' \in {session, Completed(session)}
      BY <2>5 DEF AcceptGate, AcceptStep, AcceptRead, AcceptLock, AcceptFinish, AcceptAbort
    <3>2. Completed(session).status = "completed"
      BY <2>1 DEF Completed, SessionType
    <3> QED BY <2>2, <3>1, <3>2
  <2>6. CASE Cancel
    <3>1. spent' = [spent EXCEPT !.cancels = @ + 1]
      BY <2>6 DEF Cancel
    <3>2. spent'.cancels = spent.cancels + 1
      BY <2>1, <3>1 DEF IInv, TypeOK
    <3> QED BY <2>1, <3>2
  <2>7. CASE RegenReserve
    <3>1. session' \in {session, [session EXCEPT !.stage = RegenStage(regen.kind),
                                                 !.stageStatus = "RUNNING", !.idle = 0]}
      BY <2>7 DEF RegenReserve
    <3> QED BY <2>1, <2>2, <3>1 DEF SessionType
  <2>8. CASE Tick
    <3>1. session'.status = session.status
      BY <2>1, <2>8 DEF Tick, SessionType
    <3> QED BY <2>2, <3>1
  <2>9. CASE \/ \E w \in Workers : Crash(w) \/ Duplicate(w)
             \/ Scan \/ SweepExpired \/ Find \/ BlockReaper \/ GiveBack \/ ReaperCrash
               \/ UNCHANGED vars
             \/ RegenEnqueue \/ \E ss \in Subs, kind \in Offered : RegenGate(ss, kind)
    <3>1. UNCHANGED session
      BY <2>9 DEF Crash, Duplicate, Scan, SweepExpired, Find, BlockReaper, GiveBack, ReaperCrash,
                  RegenEnqueue, RegenGate, vars
    <3> QED BY <2>2, <3>1
  <2> QED BY <2>3, <2>4, <2>5, <2>6, <2>7, <2>8, <2>9 DEF Next, ReaperStep, RegenStep
<1>2. VerdictInv /\ [Next]_vars => [Rightly]_vars
  BY <1>1
<1> QED BY <1>2, VerdictInvariance, PTL DEF Spec, FailedMeansAllFailed

-----------------------------------------------------------------------------
(* Locks.  Two things break them: a lease that runs out under a worker     *)
(* that is still alive, and a failure before the transaction that took the *)
(* lock has committed, after which release_lock frees whoever holds it by  *)
(* then.  The latter is any early failure, and a row-targeted regeneration *)
(* whose target row has gone.                                              *)

Timely ==
    /\ ~SlowWorkers /\ ~EarlyFailures
    /\ MaxRegens = 0 \/ Offered \intersect {"scenario", "threat"} = {}

\* No row-targeted regeneration is under way.
Untargeted ==
    /\ \A t \in Issued : ~Targeted(t)
    /\ regen.pc # "idle" => regen.kind \notin {"scenario", "threat"}

NoneHolding == \A w \in Workers : ~Holding(w)

HoldersApart ==
    \A v, w \in Workers : v # w /\ Holding(v) /\ Holding(w) => worker[v].ss # worker[w].ss

\* A worker that holds a lock has its row, alone; and so do the reaper between its two
\* transactions and an accept request in its own.
LockInv ==
    /\ Errands
    /\ Untargeted
    /\ \A w \in Workers : ~At(w, "releaseLost")
    /\ LockBacksWork
    /\ HoldersApart
    /\ reaper.pc = "giveBack" => NoneHolding /\ \A ss \in Subs : ~LockFree(board, ss)
    /\ accept.pc = "locked" => \A ss \in Subs : LockFree(board, ss)
    /\ OnlyWaitersAreLate

\* A request for a regeneration offered is never for a single row.
LEMMA UntargetedKept ==
    ASSUME Timely, IInv, Untargeted, [Next]_vars
    PROVE  Untargeted'
<1> USE DEF dbVars, brokerVars, apiVars
<1>1. regen \in RegenType /\ spent.regens \in Nat
  <2>1. spent.regens \in 0..MaxRegens /\ regen \in RegenType
    BY DEF IInv, TypeOK, RegenType
  <2> QED BY <2>1, BoundsAssumption
<1>2. CASE RegenReserve
  <2> DEFINE e == NextEpoch(board, regen.ss, regen.kind)
             t == [kind |-> regen.kind, ss |-> regen.ss, epoch |-> e]
  <2>1. /\ regen.pc = "gated" /\ UNCHANGED <<queue, worker>>
        /\ \/ regen' = [regen EXCEPT !.pc = "reserved", !.epoch = e, !.fresh = FALSE]
           \/ regen' = NoRegen
    BY <1>2 DEF RegenReserve
  <2> HIDE DEF e
  <2>2. InFlight' = InFlight /\ regen.kind \notin {"scenario", "threat"}
    BY <2>1 DEF InFlight, At, Untargeted
  <2>3. CASE regen' = NoRegen
    <3>1. regen'.pc = "idle" /\ Reserved' = {}
      BY <2>3 DEF NoRegen, Reserved
    <3> QED BY <2>2, <3>1 DEF Untargeted, Issued
  <2>4. CASE regen' = [regen EXCEPT !.pc = "reserved", !.epoch = e, !.fresh = FALSE]
    <3>1. regen'.kind = regen.kind /\ \A u \in Reserved' : u.kind = regen'.kind
      BY <1>1, <2>4 DEF RegenType, Reserved
    <3> QED BY <2>2, <3>1 DEF Untargeted, Issued, Targeted
  <2> QED BY <2>1, <2>3, <2>4
<1>3. CASE ~RegenReserve
  <2>1. Issued' \subseteq Issued
    BY <1>3, StepProgress DEF Progress
  <2>2. regen'.pc # "idle" => regen'.kind \notin {"scenario", "threat"}
    <3>1. CASE \E w \in Workers : WorkerStep(w)
      <4>1. regen' \in {regen, [regen EXCEPT !.fresh = FALSE]}
        BY <3>1, WorkerSession DEF Outcome
      <4> QED BY <1>1, <4>1 DEF RegenType, Untargeted
    <3>2. CASE \E ss \in Subs, kind \in Offered : RegenGate(ss, kind)
      <4>1. PICK ss \in Subs, kind \in Offered : RegenGate(ss, kind)
        BY <3>2
      <4>2. MaxRegens # 0
        BY <1>1, <4>1 DEF RegenGate
      <4>3. regen' = [NoRegen EXCEPT !.pc = "gated", !.ss = ss, !.kind = kind, !.fresh = TRUE]
        BY <4>1 DEF RegenGate
      <4>4. regen'.kind = kind
        BY <4>3 DEF NoRegen
      <4> QED BY <4>2, <4>4 DEF Timely
    <3>3. CASE RegenEnqueue
      BY <3>3 DEF RegenEnqueue, NoRegen
    <3>4. CASE \E w \in Workers : Crash(w) \/ Duplicate(w)
      BY <3>4 DEF Crash, Duplicate, Untargeted
    <3>5. CASE ReaperStep \/ ReaperCrash
      BY <3>5 DEF ReaperStep, Scan, SweepExpired, Find, BlockReaper, CloseOut, GiveBack,
                  ReaperCrash,
                  Untargeted
    <3>6. CASE AcceptGate \/ AcceptStep
      BY <3>6 DEF AcceptGate, AcceptStep, AcceptRead, AcceptLock, AcceptFinish, AcceptAbort,
                  Untargeted
    <3>7. CASE Cancel \/ Tick \/ UNCHANGED vars
      BY <3>7 DEF Cancel, Tick, vars, Untargeted
    <3> QED BY <1>3, <3>1, <3>2, <3>3, <3>4, <3>5, <3>6, <3>7 DEF Next, RegenStep
  <2> QED BY <2>1, <2>2 DEF Untargeted
<1> QED BY <1>2, <1>3

\* A worker's step touches no other process, and completes no session.
LEMMA WorkerAside ==
    ASSUME IInv, NEW w \in Workers, WorkerStep(w)
    PROVE  /\ UNCHANGED <<reaper, accept, accepted>>
           /\ session'.status = "completed" => session.status = "completed"
<1>1. session \in SessionType
  BY DEF IInv, TypeOK, SessionType
<1>2. CASE Outcome(w)
  <2>1. session' = Conclude(session, IF At(w, "toReview") THEN "review" ELSE "fail")
        /\ UNCHANGED <<reaper, accept, accepted>>
    BY <1>2 DEF Outcome, apiVars
  <2> QED BY <1>1, <2>1, ConcludeFacts
<1>3. CASE ~Outcome(w)
  BY <1>1, <1>3, WorkerSession DEF SessionType
<1> QED BY <1>2, <1>3

\* A worker that leaves the locks alone keeps the invariant, ...
LEMMA KeepsKeeps ==
    ASSUME LockInv, Errands', Untargeted', NEW w \in Workers, WorkerStep(w),
           Transaction(w), ~At(w, "releaseLost")', Keeps(w)
    PROVE  LockInv'
<1>1. /\ UNCHANGED <<reaper, accept>>
      /\ session'.status = "completed" => session.status = "completed"
  BY WorkerAside DEF LockInv, Errands
<1>2. \A v \in Workers : Holding(v)' =>
        Holding(v) /\ worker'[v].ss = worker[v].ss /\ worker'[v].task = worker[v].task
  BY DEF Transaction, Stays, Keeps, Holding
<1>3. \A v \in Workers : Working(v)' => Working(v) /\ worker'[v].waits = worker[v].waits
  BY DEF Transaction, Stays, Keeps, Working, Holding
<1>4. \A v \in Workers : ~At(v, "releaseLost")'
  BY DEF LockInv, Transaction, At
<1>5. \A s \in Subs : board'[s]["_LOCK"] = board[s]["_LOCK"]
  BY DEF Keeps
<1>6. \A v \in Workers : worker[v].pc # "idle" => worker[v].ss \in Subs
  BY BusyTask DEF LockInv, Errands
<1>7. LockBacksWork'
  BY <1>2, <1>5, <1>6 DEF LockInv, LockBacksWork, Live, Holding
<1>8. HoldersApart' /\ (NoneHolding => NoneHolding')
  BY <1>2 DEF LockInv, HoldersApart, NoneHolding
<1>9. OnlyWaitersAreLate'
  BY <1>1, <1>3 DEF LockInv, OnlyWaitersAreLate
<1>10. \A s \in Subs : LockFree(board', s) <=> LockFree(board, s)
  BY <1>5 DEF LockFree
<1> QED BY <1>1, <1>4, <1>7, <1>8, <1>9, <1>10 DEF LockInv

\* ... one that takes a free lock does, ...
LEMMA AcquiresKeeps ==
    ASSUME LockInv, Errands', Untargeted', NEW w \in Workers, WorkerStep(w),
           Transaction(w), ~At(w, "releaseLost")', Acquires(w), worker[w].ss \in Subs
    PROVE  LockInv'
<1> DEFINE ss == worker[w].ss
<1>1. /\ UNCHANGED <<reaper, accept>>
      /\ session'.status = "completed" => session.status = "completed"
  BY WorkerAside DEF LockInv, Errands
<1>2. /\ accept.pc # "locked" /\ LockFree(board, ss) /\ reaper.pc # "giveBack"
      /\ session.status = "completed" => worker[w].waits
  BY DEF Acquires, LockRowsBusy, WinsLock, Active, LockInv
<1>3. \A v \in Workers : Holding(v) => worker[v].ss # ss
  BY <1>2 DEF LockInv, LockBacksWork, LockFree
<1>4. \A v \in Workers \ {w} : worker'[v] = worker[v] /\ (Holding(v)' <=> Holding(v))
  BY DEF Transaction, Holding
<1>5. Holding(w)' => /\ worker'[w].ss = ss /\ worker'[w].task = worker[w].task
                     /\ worker'[w].waits = worker[w].waits
  BY DEF Transaction, Stays
<1>6. \A v \in Workers : Holding(v) => worker[v].ss \in Subs
  BY BusyTask DEF LockInv, Errands, Holding
<1>7. LockBacksWork'
  <2> SUFFICES ASSUME NEW v \in Workers, Holding(v)'
               PROVE  LET lock == board'[worker'[v].ss]["_LOCK"]
                      IN  lock.status = "RUNNING" /\ lock.task = worker'[v].task /\ Live(lock)
    BY DEF LockBacksWork
  <2>1. CASE v = w
    BY <1>5, <2>1, LeaseTicksAssumption DEF Acquires, Live
  <2>2. CASE v # w
    <3>1. Holding(v) /\ worker'[v] = worker[v] /\ board'[worker[v].ss] = board[worker[v].ss]
      BY <1>3, <1>4, <1>6, <2>2 DEF Transaction
    <3> QED BY <3>1 DEF LockInv, LockBacksWork
  <2> QED BY <2>1, <2>2
<1>8. HoldersApart'
  BY <1>3, <1>4, <1>5 DEF LockInv, HoldersApart
<1>9. \A v \in Workers : ~At(v, "releaseLost")'
  BY <1>4 DEF LockInv, At
<1>10. OnlyWaitersAreLate'
  BY <1>1, <1>2, <1>4, <1>5 DEF LockInv, OnlyWaitersAreLate, Working, Holding
<1> QED BY <1>1, <1>2, <1>7, <1>8, <1>9, <1>10 DEF LockInv

\* ... and so does one that frees the lock it holds.
LEMMA ReleasesKeeps ==
    ASSUME LockInv, Errands', Untargeted', NEW w \in Workers, WorkerStep(w),
           Transaction(w), ~At(w, "releaseLost")', Releases(w), worker[w].ss \in Subs
    PROVE  LockInv'
<1> DEFINE ss == worker[w].ss
<1>1. /\ UNCHANGED <<reaper, accept>>
      /\ session'.status = "completed" => session.status = "completed"
  BY WorkerAside DEF LockInv, Errands
<1>2. Holding(w) /\ accept.pc # "locked" /\ reaper.pc # "giveBack"
  BY DEF Releases, LockRowsBusy, Holding, LockInv, At, NoneHolding
<1>3. \A v \in Workers : v # w /\ Holding(v) => worker[v].ss # ss
  BY <1>2 DEF LockInv, HoldersApart
<1>4. \A v \in Workers \ {w} : worker'[v] = worker[v] /\ (Holding(v)' <=> Holding(v))
  BY DEF Transaction, Holding
<1>5. ~Holding(w)' /\ ~Working(w)'
  BY DEF Releases, Holding, Working
<1>6. \A v \in Workers : Holding(v) => worker[v].ss \in Subs
  BY BusyTask DEF LockInv, Errands, Holding
<1>7. LockBacksWork'
  <2> SUFFICES ASSUME NEW v \in Workers, Holding(v)'
               PROVE  LET lock == board'[worker'[v].ss]["_LOCK"]
                      IN  lock.status = "RUNNING" /\ lock.task = worker'[v].task /\ Live(lock)
    BY DEF LockBacksWork
  <2>1. v # w /\ Holding(v) /\ worker'[v] = worker[v]
    BY <1>4, <1>5
  <2>2. board'[worker[v].ss] = board[worker[v].ss]
    BY <1>3, <1>6, <2>1 DEF Transaction
  <2> QED BY <2>1, <2>2 DEF LockInv, LockBacksWork
<1>8. HoldersApart'
  BY <1>4, <1>5 DEF LockInv, HoldersApart
<1>9. \A v \in Workers : ~At(v, "releaseLost")'
  BY <1>4 DEF LockInv, At
<1>10. OnlyWaitersAreLate'
  BY <1>1, <1>4, <1>5 DEF LockInv, OnlyWaitersAreLate, Working
<1> QED BY <1>1, <1>2, <1>7, <1>8, <1>9, <1>10 DEF LockInv

\* A step of anybody else keeps it if every lock that a worker holds stays as it is.
LEMMA AsideKeeps ==
    ASSUME LockInv, Errands', Untargeted',
           \A v \in Workers : worker'[v] \in {worker[v], Idle},
           \A v \in Workers : Holding(v) =>
              LET lock == board'[worker[v].ss]["_LOCK"]
              IN  lock.status = "RUNNING" /\ lock.task = worker[v].task /\ Live(lock),
           reaper'.pc = "giveBack" => NoneHolding /\ \A ss \in Subs : ~LockFree(board', ss),
           accept'.pc = "locked" => \A ss \in Subs : LockFree(board', ss),
           session'.status = "completed" => session.status = "completed" \/ NoneHolding
    PROVE  LockInv'
<1>1. \A v \in Workers : Holding(v)' => Holding(v) /\ worker'[v] = worker[v]
  BY DEF Holding, Idle
<1>2. \A v \in Workers : ~At(v, "releaseLost")'
  BY DEF LockInv, At, Idle
<1>3. \A v \in Workers : Working(v)' => Working(v) /\ Holding(v) /\ worker'[v] = worker[v]
  BY DEF Working, Holding, Idle
<1>4. LockBacksWork'
  BY <1>1 DEF LockBacksWork
<1>5. HoldersApart' /\ (NoneHolding => NoneHolding')
  BY <1>1 DEF LockInv, HoldersApart, NoneHolding
<1>6. OnlyWaitersAreLate'
  BY <1>3 DEF LockInv, OnlyWaitersAreLate, NoneHolding
<1> QED BY <1>2, <1>4, <1>5, <1>6 DEF LockInv

\* In particular if it leaves the locks alone.
LEMMA LocksAside ==
    ASSUME LockInv, Errands', Untargeted',
           \A v \in Workers : worker'[v] \in {worker[v], Idle},
           \A s \in Subs : board'[s]["_LOCK"] = board[s]["_LOCK"],
           reaper'.pc = "giveBack" => reaper.pc = "giveBack",
           accept'.pc = "locked" => \A ss \in Subs : LockFree(board, ss),
           session'.status = "completed" => session.status = "completed" \/ NoneHolding
    PROVE  LockInv'
<1>1. \A v \in Workers : Holding(v) => worker[v].ss \in Subs
  BY BusyTask DEF LockInv, Errands, Holding
<1>2. \A s \in Subs : LockFree(board', s) <=> LockFree(board, s)
  BY DEF LockFree
<1>3. \A v \in Workers : Holding(v) =>
              LET lock == board'[worker[v].ss]["_LOCK"]
              IN  lock.status = "RUNNING" /\ lock.task = worker[v].task /\ Live(lock)
  BY <1>1 DEF LockInv, LockBacksWork
<1> QED BY <1>2, <1>3, AsideKeeps DEF LockInv

\* Every step keeps it.
LEMMA LockStep ==
    ASSUME Timely, LockInv, [Next]_vars
    PROVE  LockInv'
<1> USE DEF dbVars, brokerVars, apiVars
<1>1. /\ IInv /\ Errands' /\ Untargeted' /\ session \in SessionType /\ board \in Board
      /\ reaper.pc = "giveBack" => \A ss \in Subs : ~LockFree(board, ss)
      /\ "_LOCK" \in Levels
  BY ErrandsInvariant, UntargetedKept
     DEF LockInv, Errands, IInv, TypeOK, SessionType, Levels
<1>2. CASE \E w \in Workers : WorkerStep(w)
  <2>1. PICK w \in Workers : WorkerStep(w)
    BY <1>2
  <2>2. Transaction(w)
    BY <1>1, <2>1, WorkerTransaction DEF LockInv, Errands
  <2>3. ~At(w, "releaseLost")'
    <3> SUFFICES ASSUME FailLocked(w) PROVE FALSE
      BY <2>2 DEF Transaction
    <3>1. Targeted(worker[w].task) /\ worker[w].pc # "idle"
      BY DEF FailLocked, Timely
    <3> QED BY <1>1, <3>1, BusyTask DEF LockInv, Untargeted
  <2>4. CASE Keeps(w)
    BY <1>1, <2>1, <2>2, <2>3, <2>4, KeepsKeeps
  <2>5. CASE Acquires(w) \/ Releases(w)
    <3>1. worker[w].ss \in Subs
      <4>1. CASE worker[w].pc # "idle"
        BY <1>1, <4>1, BusyTask
      <4>2. CASE worker[w].pc = "idle"
        <5>1. Take(w)
          BY <2>1, <4>2 DEF WorkerStep, CheckTarget, Wait, MissLock, StartSubsystem, ClaimStage,
               StartRegen, Reground, Resume, FinishStage, FailStage, Working, FailLocked,
               Release, Decide, Outcome, At
        <5>2. ~Releases(w) /\ UNCHANGED board
          BY <4>2, <5>1 DEF Releases, Take
        <5> QED BY <2>5, <5>2 DEF Acquires, WinsLock, LockFree
      <4> QED BY <4>1, <4>2
    <3> QED BY <1>1, <2>1, <2>2, <2>3, <2>5, <3>1, AcquiresKeeps, ReleasesKeeps
  <2> QED BY <2>2, <2>4, <2>5 DEF Transaction
<1>3. CASE ~\E w \in Workers : WorkerStep(w)
  <2>1. \A v \in Workers : worker'[v] \in {worker[v], Idle}
    BY <1>1, <1>3, OthersOnWorkers
  <2>2. \A v \in Workers : Holding(v) =>
          /\ worker[v].ss \in Subs
          /\ LET lock == board[worker[v].ss]["_LOCK"]
             IN /\ lock.status = "RUNNING" /\ lock.task = worker[v].task /\ Live(lock)
                /\ ~Expired(lock)
    <3>1. \A v \in Workers : Holding(v) => worker[v].ss \in Subs
      BY <1>1, BusyTask DEF Holding
    <3>2. \A v \in Workers : Holding(v) => board[worker[v].ss]["_LOCK"].lease \in Int
      BY <1>1, <3>1, CellValues DEF Board
    <3> QED BY <3>1, <3>2 DEF LockInv, LockBacksWork, Live, Expired
  <2>3. (\A ss \in Subs : LockFree(board, ss)) => NoneHolding
    BY <2>2 DEF LockFree, NoneHolding
  <2>4. CASE \/ Scan \/ Find \/ BlockReaper \/ ReaperCrash
             \/ \E w \in Workers : Crash(w) \/ Duplicate(w)
    <3>1. /\ UNCHANGED <<board, session, accept>>
          /\ reaper'.pc = "giveBack" => reaper.pc = "giveBack"
      BY <1>1, <2>4 DEF Scan, Find, BlockReaper, ReaperCrash, NoPass, Crash, Duplicate,
                        IInv, TypeOK
    <3> QED BY <1>1, <2>1, <3>1, LocksAside DEF LockInv
  <2>5. CASE SweepExpired
    <3>1. /\ UNCHANGED <<session, accept>> /\ reaper'.pc = "find"
          /\ board' = Sweep(board, reaper.work, reaper.locks)
      BY <2>5 DEF SweepExpired, NoPass
    <3>2. \A ss \in Subs : board'[ss]["_LOCK"] = board[ss]["_LOCK"] \/ Expired(board[ss]["_LOCK"])
      BY <1>1, <3>1, SweepCells
    <3>3. \A ss \in Subs : LockFree(board, ss) => LockFree(board', ss)
      BY <3>2 DEF LockFree, Expired
    <3>4. \A v \in Workers : Holding(v) =>
              LET lock == board'[worker[v].ss]["_LOCK"]
              IN  lock.status = "RUNNING" /\ lock.task = worker[v].task /\ Live(lock)
      BY <2>2, <3>2
    <3> QED BY <1>1, <2>1, <3>1, <3>3, <3>4, AsideKeeps DEF LockInv
  <2>6. CASE CloseOut
    <3>1. /\ accept.pc # "locked" /\ UNCHANGED accept
          /\ session'.status = "completed" => session.status = "completed"
      BY <1>1, <2>6, CloseOutFacts, ConcludeFacts DEF CloseOut, LockRowsBusy
    <3>2. CASE LocksAll
      <4> DEFINE b == FailPending(board, Subs)
                 locked == [ss \in Subs |-> Lock(b, ss, SessionHolder)[ss]]
      <4>1. NoneHolding
        BY <2>3, <3>2 DEF LocksAll
      <4>2. \/ board' = locked
            \/ reaper' = NoPass
        BY <2>6, <3>2 DEF CloseOut
      <4>3. b \in Board
        BY <1>1, CloseOutFacts, <2>6
      <4> HIDE DEF b
      <4>4. \A ss \in Subs : ~LockFree(locked, ss)
        BY <4>3, LockCells DEF LockFree
      <4> HIDE DEF locked
      <4>5. reaper'.pc = "giveBack" => \A ss \in Subs : ~LockFree(board', ss)
        BY <4>2, <4>4 DEF NoPass
      <4> QED BY <1>1, <2>1, <3>1, <4>1, <4>5, AsideKeeps DEF LockInv, NoneHolding
    <3>3. CASE ~LocksAll
      <4>1. UNCHANGED <<session, board>> /\ reaper'.pc = "idle"
        BY <2>6, <3>3 DEF CloseOut, NoPass
      <4> QED BY <1>1, <2>1, <3>1, <4>1, LocksAside
    <3> QED BY <3>2, <3>3
  <2>7. CASE GiveBack
    <3>1. /\ NoneHolding /\ accept.pc # "locked" /\ UNCHANGED <<session, accept>>
          /\ reaper'.pc = "idle"
      BY <2>7 DEF GiveBack, LockInv, LockRowsBusy, NoPass
    <3> QED BY <1>1, <2>1, <3>1, AsideKeeps DEF LockInv, NoneHolding
  <2>8. CASE AcceptGate \/ AcceptStep
    <3>1. UNCHANGED <<board, reaper>>
      BY <2>8 DEF AcceptGate, AcceptStep, AcceptRead, AcceptLock, AcceptFinish, AcceptAbort
    <3>2. accept'.pc = "locked" => \A ss \in Subs : LockFree(board, ss)
      <4>1. CASE AcceptLock
        BY <4>1 DEF AcceptLock, CanLock, NoAccept
      <4>2. CASE AcceptGate \/ AcceptRead \/ AcceptFinish \/ AcceptAbort
        BY <4>2 DEF AcceptGate, AcceptRead, AcceptFinish, AcceptAbort, NoAccept
      <4> QED BY <2>8, <4>1, <4>2 DEF AcceptStep
    <3>3. session'.status = "completed" => session.status = "completed" \/ NoneHolding
      <4>1. CASE AcceptFinish
        BY <2>3, <4>1 DEF AcceptFinish, LockInv
      <4>2. CASE AcceptGate \/ AcceptRead \/ AcceptLock \/ AcceptAbort
        BY <4>2 DEF AcceptGate, AcceptRead, AcceptLock, AcceptAbort
      <4> QED BY <2>8, <4>1, <4>2 DEF AcceptStep
    <3> QED BY <1>1, <2>1, <3>1, <3>2, <3>3, LocksAside
  <2>9. CASE (\E ss \in Subs, kind \in Offered : RegenGate(ss, kind)) \/ RegenEnqueue
    <3>1. UNCHANGED <<board, session, reaper, accept>>
      BY <2>9 DEF RegenGate, RegenEnqueue
    <3> QED BY <1>1, <2>1, <3>1, LocksAside DEF LockInv
  <2>10. CASE RegenReserve
    <3> DEFINE e == NextEpoch(board, regen.ss, regen.kind)
    <3>1. /\ UNCHANGED <<reaper, accept>>
          /\ session'.status = "completed" => session.status = "completed"
          /\ UNCHANGED board \/ board' = ResetForRegen(board, regen.ss, regen.kind, e)
      BY <1>1, <2>10 DEF RegenReserve, SessionType
    <3>2. regen.kind \in TaskKinds /\ regen.ss \in Subs
      BY <1>1, <2>10 DEF IInv, TypeOK, TaskKinds, WellFormed, RegenReserve
    <3> HIDE DEF e
    <3>3. \A s \in Subs : board'[s]["_LOCK"] = board[s]["_LOCK"]
      BY <1>1, <3>1, <3>2, ResetCells
    <3> QED BY <1>1, <2>1, <3>1, <3>3, LocksAside DEF LockInv
  <2>11. CASE Cancel
    <3>1. UNCHANGED <<board, reaper, accept>> /\ session'.status = "cancelled"
      BY <1>1, <2>11 DEF Cancel, Cancelled, SessionType
    <3> QED BY <1>1, <2>1, <3>1, LocksAside DEF LockInv
  <2>12. CASE Tick
    <3>1. /\ UNCHANGED <<reaper, accept>> /\ session'.status = session.status
          /\ board' = Elapse(board)
          /\ \A w \in Workers : ~OnLastTick(w)
      BY <1>1, <2>12 DEF Tick, SessionType, Timely
    <3>2. \A s \in Subs : LET lock == board[s]["_LOCK"]
                              next == board'[s]["_LOCK"]
                          IN  /\ next.status = lock.status /\ next.task = lock.task
                              /\ next.lease = IF Live(lock) THEN lock.lease - 1 ELSE lock.lease
                              /\ lock.lease \in Int
      BY <1>1, <3>1, ElapseCells, CellValues DEF Board
    <3>3. \A s \in Subs : LockFree(board', s) <=> LockFree(board, s)
      BY <3>2 DEF LockFree
    <3>4. \A v \in Workers : Holding(v) =>
              LET lock == board'[worker[v].ss]["_LOCK"]
              IN  lock.status = "RUNNING" /\ lock.task = worker[v].task /\ Live(lock)
      BY <2>2, <3>1, <3>2 DEF OnLastTick, Live
    <3> QED BY <1>1, <2>1, <3>1, <3>3, <3>4, AsideKeeps DEF LockInv
  <2>13. CASE UNCHANGED vars
    BY <1>1, <2>1, <2>13, LocksAside DEF vars, LockInv
  <2> QED BY <1>3, <2>4, <2>5, <2>6, <2>7, <2>8, <2>9, <2>10, <2>11, <2>12, <2>13
          DEF Next, ReaperStep, RegenStep
<1> QED BY <1>2, <1>3

\* The lock invariant holds of a session that has just been created, and so throughout.
LEMMA LockInvariance ==
    ASSUME Timely
    PROVE  Spec => []LockInv
<1>1. Init => LockInv
  <2> SUFFICES ASSUME Init PROVE LockInv
    OBVIOUS
  <2>1. /\ \A w \in Workers : worker[w].pc = "idle"
        /\ reaper.pc = "idle" /\ accept.pc = "idle" /\ regen.pc = "idle"
        /\ session.status = "active" /\ queue \in {{}, {PipelineTask}}
    BY DEF Init, Idle, NoPass, NoAccept, NoRegen, Created
  <2>2. Untargeted
    BY <2>1 DEF Untargeted, Issued, InFlight, Reserved, At, Targeted, PipelineTask
  <2>3. LockBacksWork /\ HoldersApart /\ OnlyWaitersAreLate
    BY <2>1 DEF LockBacksWork, HoldersApart, OnlyWaitersAreLate, Holding
  <2> QED BY <2>1, <2>2, <2>3, ErrandsInvariant DEF LockInv, At
<1>2. LockInv /\ [Next]_vars => LockInv'
  BY LockStep
<1> QED BY <1>1, <1>2, PTL DEF Spec

\* "Only one worker is ever allowed to touch one supporting system at a time", whatever
\* is redelivered, crashes, is swept, accepted or cancelled meanwhile.
THEOREM WorkersStayApart ==
    ASSUME Timely
    PROVE  Spec => []OneWorkerPerSubsystem
<1>1. LockInv => OneWorkerPerSubsystem
  BY DEF LockInv, HoldersApart, OneWorkerPerSubsystem, Working, Holding
<1> QED BY <1>1, LockInvariance, PTL

\* A lock row is its holder's for as long as the holder works: release_lock, which asks
\* nobody whose lock it is, and the reaper's sweep never take it away.
THEOREM LocksBackWork ==
    ASSUME Timely
    PROVE  Spec => []LockBacksWork
<1>1. LockInv => LockBacksWork
  BY DEF LockInv
<1> QED BY <1>1, LockInvariance, PTL

\* accept completes a session only when nobody works on it.  Whoever works on it
\* afterwards was already waiting for the _LOCK row under accept's own transaction, and
\* was let in by the session its acquire_lock had read before (dal.py:263-277).
THEOREM LateDeliveriesWaited ==
    ASSUME Timely
    PROVE  Spec => []OnlyWaitersAreLate
<1>1. LockInv => OnlyWaitersAreLate
  BY DEF LockInv
<1> QED BY <1>1, LockInvariance, PTL

\* Nobody but a worker or the reaper fails a session unasked, and the reaper only while
\* it has all the locks.
LEMMA FailsUnderLocks ==
    ASSUME IInv, [Next]_vars, ~\E w \in Workers : WorkerStep(w), spent'.cancels = 0,
           session.status # "cancelled", session'.status = "cancelled"
    PROVE  LocksAll
<1> USE DEF dbVars, brokerVars, apiVars
<1>1. session \in SessionType /\ spent.cancels \in Nat
  <2>1. spent.cancels \in 0..MaxCancels
    BY DEF IInv, TypeOK
  <2> QED BY <2>1, BoundsAssumption DEF IInv, TypeOK, SessionType
<1>2. CASE CloseOut
  BY <1>2 DEF CloseOut
<1>3. CASE AcceptGate \/ AcceptStep
  <2>1. session' \in {session, Completed(session)}
    BY <1>3 DEF AcceptGate, AcceptStep, AcceptRead, AcceptLock, AcceptFinish, AcceptAbort
  <2> QED BY <1>1, <2>1 DEF Completed, SessionType
<1>4. CASE Cancel
  <2>1. spent' = [spent EXCEPT !.cancels = @ + 1]
    BY <1>4 DEF Cancel
  <2>2. spent'.cancels = spent.cancels + 1
    BY <2>1 DEF IInv, TypeOK
  <2> QED BY <1>1, <2>2
<1>5. CASE RegenReserve
  <2>1. session' \in {session, [session EXCEPT !.stage = RegenStage(regen.kind),
                                               !.stageStatus = "RUNNING", !.idle = 0]}
    BY <1>5 DEF RegenReserve
  <2> QED BY <1>1, <2>1 DEF SessionType
<1>6. CASE Tick
  BY <1>1, <1>6 DEF Tick, SessionType
<1>7. CASE \/ \E w \in Workers : Crash(w) \/ Duplicate(w)
           \/ Scan \/ SweepExpired \/ Find \/ BlockReaper \/ GiveBack \/ ReaperCrash
             \/ UNCHANGED vars
           \/ RegenEnqueue \/ \E ss \in Subs, kind \in Offered : RegenGate(ss, kind)
  BY <1>7 DEF Crash, Duplicate, Scan, SweepExpired, Find, BlockReaper, GiveBack, ReaperCrash,
              RegenEnqueue, RegenGate, vars
<1> QED BY <1>2, <1>3, <1>4, <1>5, <1>6, <1>7 DEF Next, ReaperStep, RegenStep

\* A cancel request is counted, and nothing is forgotten.
LEMMA CancelsCount ==
    ASSUME IInv, [Next]_vars, spent'.cancels = 0
    PROVE  spent.cancels = 0
<1> USE DEF dbVars, brokerVars, apiVars
<1>1. /\ spent \in [crashes : 0..MaxCrashes, duplicates : 0..MaxDuplicates,
                    regens : 0..MaxRegens, cancels : 0..MaxCancels]
      /\ MaxCancels \in Nat
  BY BoundsAssumption DEF IInv, TypeOK
<1>2. CASE \E w \in Workers : WorkerStep(w)
  BY <1>2, WorkerSession DEF Outcome
<1>3. CASE \E w \in Workers : Crash(w) \/ Duplicate(w)
  BY <1>1, <1>3 DEF Crash, Duplicate
<1>4. CASE ReaperStep \/ ReaperCrash
  BY <1>1, <1>4 DEF ReaperStep, Scan, SweepExpired, Find, BlockReaper, CloseOut, GiveBack,
                    ReaperCrash
<1>5. CASE AcceptGate \/ AcceptStep
  BY <1>5 DEF AcceptGate, AcceptStep, AcceptRead, AcceptLock, AcceptFinish, AcceptAbort
<1>6. CASE (\E ss \in Subs, kind \in Offered : RegenGate(ss, kind)) \/ RegenStep
  BY <1>1, <1>6 DEF RegenGate, RegenStep, RegenReserve, RegenEnqueue
<1>7. CASE Cancel \/ Tick \/ UNCHANGED vars
  BY <1>1, <1>7 DEF Cancel, Tick, vars
<1> QED BY <1>2, <1>3, <1>4, <1>5, <1>6, <1>7 DEF Next

\* Where one worker executes all deliveries, a session that failed is left alone: whatever
\* is still queued, or is delivered again, begins nothing in it, unless it was waiting for
\* the _LOCK row under an accept that gave up.
THEOREM FailedSessionsAreLeftAlone ==
    ASSUME Timely, \A v, w \in Workers : v = w
    PROVE  Spec => []FailedIsQuiet
<1>1. Init => FailedIsQuiet
  BY DEF Init, Created, FailedIsQuiet
<1>2. LockInv /\ FailedIsQuiet /\ [Next]_vars => FailedIsQuiet'
  <2> SUFFICES ASSUME LockInv, FailedIsQuiet, [Next]_vars, session'.status = "cancelled",
                      spent'.cancels = 0, NEW w \in Workers, Working(w)'
               PROVE  worker'[w].waits
    BY DEF FailedIsQuiet
  <2>1. IInv /\ spent.cancels = 0
    BY CancelsCount DEF LockInv, Errands
  <2>2. CASE \E v \in Workers : WorkerStep(v)
    <3>1. WorkerStep(w) /\ Transaction(w)
      BY <2>1, <2>2, WorkerTransaction DEF LockInv, Errands
    <3>2. ~Outcome(w)
      <4> SUFFICES ASSUME Outcome(w) PROVE FALSE
        OBVIOUS
      <4>1. worker' = [worker EXCEPT ![w] = Idle]
        BY DEF Outcome
      <4> QED BY <2>1, <4>1 DEF IInv, TypeOK, Working, Idle
    <3>3. session.status = "cancelled"
      <4>1. session \in SessionType
        BY <2>1 DEF IInv, TypeOK, SessionType
      <4> QED BY <2>1, <3>1, <3>2, <4>1, WorkerSession DEF SessionType
    <3>4. CASE Keeps(w)
      BY <2>1, <3>1, <3>3, <3>4 DEF Transaction, Stays, Keeps, FailedIsQuiet, Working, Holding
    <3>5. CASE Acquires(w)
      BY <3>1, <3>3, <3>5 DEF Transaction, Stays, Acquires, WinsLock, Active, Working, Holding
    <3>6. CASE Releases(w)
      BY <3>6 DEF Releases, Holding, Working
    <3> QED BY <3>1, <3>4, <3>5, <3>6 DEF Transaction
  <2>3. CASE ~\E v \in Workers : WorkerStep(v)
    <3>1. worker'[w] = worker[w] /\ Working(w)
      BY <2>1, <2>3, OthersOnWorkers DEF Working, Idle
    <3>2. session.status = "cancelled"
      <4> SUFFICES ASSUME session.status # "cancelled" PROVE FALSE
        OBVIOUS
      <4>1. LocksAll
        BY <2>1, <2>3, FailsUnderLocks
      <4>2. worker[w].ss \in Subs
        BY <2>1, <3>1, BusyTask DEF Working
      <4> QED BY <3>1, <4>1, <4>2 DEF LockInv, LockBacksWork, LocksAll, LockFree, Working, Holding
    <3> QED BY <2>1, <3>1, <3>2 DEF FailedIsQuiet
  <2> QED BY <2>2, <2>3
<1> QED BY <1>1, <1>2, LockInvariance, PTL DEF Spec

-----------------------------------------------------------------------------
(* The row a worker has claimed.                                           *)

\* It is RUNNING in the task's name, under a lease that outlives the lock's.
Claimed(w) ==
    At(w, "run") =>
        LET cell == board[worker[w].ss][worker[w].stage]
        IN  /\ cell.status = "RUNNING" /\ cell.task = worker[w].task
            /\ cell.lease >= board[worker[w].ss]["_LOCK"].lease

RunInv == LockInv /\ BarrierInv /\ \A w \in Workers : Claimed(w)

\* The rows of a worker that waits for the LLM, and their leases.
LEMMA RunningRows ==
    ASSUME RunInv, NEW v \in Workers, At(v, "run")
    PROVE  LET cell == board[worker[v].ss][worker[v].stage]
               lock == board[worker[v].ss]["_LOCK"]
           IN  /\ Holding(v) /\ worker[v].ss \in Subs /\ worker[v].stage \in WorkLevels
               /\ cell.lease \in Int /\ lock.lease \in Int /\ lock.lease <= LeaseTicks
               /\ lock.lease > 0 /\ cell.lease > 0 /\ ~LockFree(board, worker[v].ss)
<1>1. Holding(v) /\ worker[v].ss \in Subs /\ worker[v].stage \in WorkLevels
  BY DEF RunInv, LockInv, Errands, IInv, WellFormed, RecordOK, At, Holding
<1>2. board \in Board /\ WorkLevels \subseteq Levels /\ "_LOCK" \in Levels
  BY DEF RunInv, LockInv, Errands, IInv, TypeOK, Levels
<1>3. \A s \in Subs, l \in Levels : board[s][l].lease \in Int /\ board[s][l].lease <= LeaseTicks
  BY <1>2, LeaseTicksAssumption DEF Board, Cell, Lease, NoLease
<1>4. LET lock == board[worker[v].ss]["_LOCK"]
      IN  lock.lease > 0 /\ ~LockFree(board, worker[v].ss)
  BY <1>1 DEF RunInv, LockInv, LockBacksWork, Live, LockFree
<1> QED BY <1>1, <1>2, <1>3, <1>4 DEF RunInv, Claimed

\* Every step keeps it.
LEMMA RunStep ==
    ASSUME Timely, MaxRegens = 0, RunInv, [Next]_vars
    PROVE  RunInv'
<1> USE DEF dbVars, brokerVars, apiVars
<1>1. /\ LockInv' /\ BarrierInv' /\ IInv /\ IInv' /\ board \in Board
      /\ "_LOCK" \in Levels /\ WorkLevels \subseteq Levels
  BY LockStep, BarrierStep DEF RunInv, LockInv, Errands, IInv, TypeOK, Levels
<1>2. CASE \E w \in Workers : WorkerStep(w)
  <2>1. PICK w \in Workers : Transaction(w)
    BY <1>1, <1>2, WorkerTransaction DEF RunInv, LockInv, Errands
  <2> SUFFICES ASSUME NEW v \in Workers, At(v, "run")'
               PROVE  Claimed(v)'
    BY <1>1 DEF RunInv, Claimed
  <2>2. CASE v = w
    <3>1. worker'[v].ss \in Subs /\ board' \in Board
      BY <1>1 DEF IInv, TypeOK, WellFormed, RecordOK, At
    <3>2. board'[worker'[v].ss]["_LOCK"].lease <= LeaseTicks
      BY <1>1, <3>1, LeaseTicksAssumption DEF Board, Cell, Lease, NoLease
    <3> QED BY <2>1, <2>2, <3>2 DEF Transaction, FreshlyClaimed, Claimed
  <2>3. CASE v # w
    <3>1. worker'[v] = worker[v] /\ At(v, "run")
      BY <2>1, <2>3 DEF Transaction, At
    <3>2. Holding(v) /\ worker[v].ss \in Subs /\ ~LockFree(board, worker[v].ss)
      BY <3>1, RunningRows
    <3>3. board'[worker[v].ss] = board[worker[v].ss]
      <4>1. CASE worker[w].ss # worker[v].ss
        BY <2>1, <3>2, <4>1 DEF Transaction
      <4>2. CASE worker[w].ss = worker[v].ss
        BY <2>1, <2>3, <3>2, <4>2 DEF Transaction, RunInv, LockInv, HoldersApart, WinsLock
      <4> QED BY <4>1, <4>2
    <3> QED BY <3>1, <3>3 DEF RunInv, Claimed, At
  <2> QED BY <2>2, <2>3
<1>3. CASE ~\E w \in Workers : WorkerStep(w)
  <2> SUFFICES ASSUME NEW v \in Workers, At(v, "run")'
               PROVE  Claimed(v)'
    BY <1>1 DEF RunInv, Claimed
  <2>1. worker'[v] = worker[v] /\ At(v, "run")
    BY <1>1, <1>3, OthersOnWorkers DEF At, Idle
  <2> DEFINE ss == worker[v].ss
             l == worker[v].stage
  <2>2. /\ Holding(v) /\ ss \in Subs /\ l \in WorkLevels
        /\ board[ss][l].lease \in Int /\ board[ss]["_LOCK"].lease \in Int
        /\ board[ss]["_LOCK"].lease > 0 /\ board[ss][l].lease > 0
        /\ ~LockFree(board, ss)
    BY <2>1, RunningRows
  <2>3. /\ board[ss][l].status = "RUNNING" /\ board[ss][l].task = worker[v].task
        /\ board[ss][l].lease >= board[ss]["_LOCK"].lease
    BY <2>1 DEF RunInv, Claimed
  <2>4. ASSUME board'[ss][l] = board[ss][l], board'[ss]["_LOCK"] = board[ss]["_LOCK"]
        PROVE  Claimed(v)'
    BY <2>1, <2>3, <2>4 DEF Claimed
  <2>5. CASE SweepExpired
    <3>1. board' = Sweep(board, reaper.work, reaper.locks)
      BY <2>5 DEF SweepExpired
    <3>2. ~Expired(board[ss][l]) /\ ~Expired(board[ss]["_LOCK"])
      BY <2>2 DEF Expired
    <3> QED BY <1>1, <2>2, <2>4, <3>1, <3>2, SweepCells
  <2>6. CASE CloseOut
    <3>1. UNCHANGED board
      BY <2>2, <2>6 DEF CloseOut, LocksAll
    <3> QED BY <2>4, <3>1
  <2>7. CASE GiveBack
    BY <2>2, <2>7 DEF GiveBack, RunInv, LockInv, NoneHolding
  <2>8. CASE Tick
    <3>1. board' = Elapse(board)
      BY <2>8 DEF Tick
    <3>2. \A k \in Levels : /\ board'[ss][k].status = board[ss][k].status
                            /\ board'[ss][k].task = board[ss][k].task
                            /\ board'[ss][k].lease = IF Live(board[ss][k])
                                                     THEN board[ss][k].lease - 1
                                                     ELSE board[ss][k].lease
      BY <1>1, <2>2, <3>1, ElapseCells
    <3> QED BY <1>1, <2>1, <2>2, <2>3, <3>2 DEF Claimed, Live
  <2>9. CASE \/ \E w \in Workers : Crash(w) \/ Duplicate(w)
             \/ Scan \/ Find \/ BlockReaper \/ ReaperCrash \/ AcceptGate \/ AcceptStep
             \/ (\E s \in Subs, kind \in Offered : RegenGate(s, kind)) \/ RegenEnqueue
             \/ Cancel \/ UNCHANGED vars
    <3>1. UNCHANGED board
      BY <2>9 DEF Crash, Duplicate, Scan, Find, BlockReaper, ReaperCrash, AcceptGate, AcceptStep,
                  AcceptRead, AcceptLock, AcceptFinish, AcceptAbort, RegenGate, RegenEnqueue,
                  Cancel, vars
    <3> QED BY <2>4, <3>1
  <2>10. ~RegenReserve
    BY DEF RunInv, BarrierInv, RegenReserve
  <2> QED BY <1>3, <2>5, <2>6, <2>7, <2>8, <2>9, <2>10 DEF Next, ReaperStep, RegenStep
<1> QED BY <1>2, <1>3

\* As long as no lease runs out under a live worker, no task fails early and nobody asks
\* for a regeneration, the row a worker waits for the LLM on stays its own, so that
\* set_stage may write it without a check.
THEOREM WorkersOwnTheirStage ==
    ASSUME Timely, MaxRegens = 0
    PROVE  Spec => []RunOwnsStage
<1>1. Init => \A w \in Workers : Claimed(w)
  BY DEF Init, Idle, Claimed, At
<1>2. RunInv /\ [Next]_vars => RunInv'
  BY RunStep
<1>3. RunInv => RunOwnsStage
  BY DEF RunInv, Claimed, RunOwnsStage
<1>4. LockInv /\ BarrierInv /\ (\A w \in Workers : Claimed(w)) => RunInv
  BY DEF RunInv
<1> QED BY <1>1, <1>2, <1>3, <1>4, LockInvariance, BarrierInvariance, PTL DEF Spec
=============================================================================

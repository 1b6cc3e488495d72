-------------------------- MODULE StageBoardFacts --------------------------
(***************************************************************************)
(* What the guarded UPDATEs of StageBoard do to any board: each keeps the  *)
(* board's type and its soundness, and each but a regeneration's reset     *)
(* leaves the epochs alone and a finished stage finished.                  *)
(***************************************************************************)
EXTENDS StageBoard, TLAPS

\* The status in which a stage of a level ends when it succeeds.
FinalOf(l) == IF l = "SCENARIOS" THEN "AWAITING_DECISION" ELSE "COMPLETE"

\* Every running work row belongs to a task of its own generation that writes its
\* level, and a finished one has its level's own final status.
Sound(b) == \A ss \in Subs, l \in WorkLevels :
    /\ b[ss][l].status = "RUNNING" =>
          b[ss][l].task.epoch = b[ss][l].epoch /\ l \in LevelsOf(b[ss][l].task.kind)
    /\ b[ss][l].status \in Finished => b[ss][l].status = FinalOf(l)

\* From b to c no epoch changes and no finished stage is undone.
Advances(b, c) == \A ss \in Subs, l \in WorkLevels :
    /\ c[ss][l].epoch = b[ss][l].epoch
    /\ b[ss][l].status \in Finished => c[ss][l].status = b[ss][l].status

Ordered(b) == \A ss \in Subs :
    /\ b[ss]["PROFILE"].epoch <= b[ss]["THREATS"].epoch
    /\ b[ss]["THREATS"].epoch <= b[ss]["SCENARIOS"].epoch

\* Every kind of task writes work levels only, scenarios always among them.
LEMMA LevelsTyped ==
    ASSUME NEW kind \in TaskKinds
    PROVE  LevelsOf(kind) \subseteq WorkLevels /\ "SCENARIOS" \in LevelsOf(kind)
BY DEF LevelsOf, WorkLevels, TaskKinds, Granularities

\* The values the UPDATEs write are of a cell's types.
LEMMA CellValues ==
    /\ Statuses = {"IDLE", "RUNNING", "AWAITING_DECISION", "COMPLETE", "ERROR"}
    /\ NoLease \in Lease /\ LeaseTicks \in Lease /\ 0 \in 0..MaxAttempts
    /\ NoTask \in Holder
    /\ \A cell \in Cell : cell.lease \in Int /\ (cell.lease > 0 => cell.lease - 1 \in Lease)
BY MaxAttemptsAssumption, LeaseTicksAssumption DEF Cell, Statuses, Lease, NoLease, Holder

\* A step that composes advances is one.
LEMMA AdvancesTransitive ==
    ASSUME NEW b, NEW c, NEW d, Advances(b, c), Advances(c, d)
    PROVE  Advances(b, d)
BY DEF Advances

\* A freshly seeded board is well typed, sound and ordered.
LEMMA SeededFacts == SeededBoard \in Board /\ Sound(SeededBoard) /\ Ordered(SeededBoard)
<1>1. SeededCell \in Cell
  BY MaxAttemptsAssumption, LeaseTicksAssumption
     DEF SeededCell, Cell, Statuses, Holder, Lease, NoLease
<1>2. SeededBoard \in Board
  BY <1>1 DEF SeededBoard, Board
<1>3. Sound(SeededBoard) /\ Ordered(SeededBoard)
  BY DEF SeededBoard, SeededCell, Sound, Ordered, Finished, Levels, WorkLevels
<1> QED BY <1>2, <1>3

\* claim_stage, when its compare-and-set matches: the claimed row's task is of the
\* row's own generation, and no finished row is claimed.
LEMMA ClaimFacts ==
    ASSUME NEW b \in Board, Sound(b), NEW ss \in Subs, NEW t \in Task,
           NEW l \in LevelsOf(t.kind), Claimable(b, ss, l, t)
    PROVE  /\ Claim(b, ss, l, t) \in Board
           /\ Sound(Claim(b, ss, l, t))
           /\ Advances(b, Claim(b, ss, l, t))
<1> DEFINE cell == b[ss][l]
           claimed == [cell EXCEPT !.status = "RUNNING", !.task = t,
                                   !.lease = LeaseTicks, !.attempts = @ + 1]
<1>1. l \in WorkLevels /\ l \in Levels
  BY LevelsTyped DEF Task, Levels
<1>2. cell \in Cell /\ cell.epoch = t.epoch /\ cell.status \notin Finished
  BY <1>1 DEF Board, Claimable, Finished
<1>3. claimed \in Cell
  <2>1. cell.attempts \in 0..MaxAttempts /\ cell.attempts < MaxAttempts
    BY <1>2 DEF Cell, Claimable
  <2>2. cell.attempts + 1 \in 0..MaxAttempts
    BY <2>1, MaxAttemptsAssumption
  <2>3. LeaseTicks \in Lease /\ "RUNNING" \in Statuses /\ t \in Holder
    BY LeaseTicksAssumption DEF Lease, NoLease, Statuses, Holder
  <2> QED BY <1>2, <2>2, <2>3 DEF Cell
<1>4. claimed.status = "RUNNING" /\ claimed.task = t /\ claimed.epoch = cell.epoch
  BY <1>2 DEF Cell
<1> HIDE DEF claimed
<1>5. Claim(b, ss, l, t) = [b EXCEPT ![ss][l] = claimed]
  BY DEF Claim, claimed
<1>6. Claim(b, ss, l, t) \in Board
  BY <1>1, <1>3, <1>5 DEF Board
<1>7. Sound(Claim(b, ss, l, t))
  <2> SUFFICES ASSUME NEW s \in Subs, NEW k \in WorkLevels
               PROVE  LET c == Claim(b, ss, l, t)[s][k]
                      IN  /\ c.status = "RUNNING" => c.task.epoch = c.epoch
                                                     /\ k \in LevelsOf(c.task.kind)
                          /\ c.status \in Finished => c.status = FinalOf(k)
    BY DEF Sound
  <2>1. CASE s = ss /\ k = l
    BY <1>1, <1>2, <1>4, <1>5, <2>1 DEF Board, Finished
  <2>2. CASE ~(s = ss /\ k = l)
    <3>1. Claim(b, ss, l, t)[s][k] = b[s][k]
      BY <1>1, <1>5, <2>2 DEF Board, Levels
    <3> QED BY <3>1 DEF Sound
  <2> QED BY <2>1, <2>2
<1>8. Advances(b, Claim(b, ss, l, t))
  <2> SUFFICES ASSUME NEW s \in Subs, NEW k \in WorkLevels
               PROVE  LET c == Claim(b, ss, l, t)[s][k]
                      IN  /\ c.epoch = b[s][k].epoch
                          /\ b[s][k].status \in Finished => c.status = b[s][k].status
    BY DEF Advances
  <2>1. CASE s = ss /\ k = l
    BY <1>1, <1>2, <1>4, <1>5, <2>1 DEF Board
  <2>2. CASE ~(s = ss /\ k = l)
    BY <1>1, <1>5, <2>2 DEF Board, Levels
  <2> QED BY <2>1, <2>2
<1> QED BY <1>6, <1>7, <1>8

\* acquire_lock touches no work row.
LEMMA LockFacts ==
    ASSUME NEW b \in Board, Sound(b), NEW ss \in Subs, NEW holder \in Holder
    PROVE  /\ Lock(b, ss, holder) \in Board
           /\ Sound(Lock(b, ss, holder))
           /\ Advances(b, Lock(b, ss, holder))
           /\ \A s \in Subs, l \in WorkLevels : Lock(b, ss, holder)[s][l] = b[s][l]
<1> DEFINE locked == [b[ss]["_LOCK"] EXCEPT !.status = "RUNNING", !.task = holder,
                                            !.lease = LeaseTicks]
<1>1. "_LOCK" \in Levels /\ WorkLevels \subseteq Levels /\ "_LOCK" \notin WorkLevels
  BY DEF Levels, WorkLevels
<1>2. locked \in Cell
  <2>1. b[ss]["_LOCK"] \in Cell
    BY <1>1 DEF Board
  <2> QED BY <2>1, CellValues DEF Cell
<1> HIDE DEF locked
<1>3. Lock(b, ss, holder) = [b EXCEPT ![ss]["_LOCK"] = locked]
  BY DEF Lock, locked
<1>4. Lock(b, ss, holder) \in Board
  BY <1>1, <1>2, <1>3 DEF Board
<1>5. \A s \in Subs, l \in WorkLevels : Lock(b, ss, holder)[s][l] = b[s][l]
  BY <1>1, <1>3 DEF Board
<1> QED BY <1>4, <1>5 DEF Sound, Advances

\* release_lock touches no work row.
LEMMA UnlockFacts ==
    ASSUME NEW b \in Board, Sound(b), NEW S
    PROVE  Unlock(b, S) \in Board /\ Sound(Unlock(b, S)) /\ Advances(b, Unlock(b, S))
<1> DEFINE freed(ss) == [b[ss]["_LOCK"] EXCEPT !.status = "IDLE", !.task = NoTask,
                                               !.lease = NoLease]
<1>1. "_LOCK" \in Levels /\ WorkLevels \subseteq Levels /\ "_LOCK" \notin WorkLevels
  BY DEF Levels, WorkLevels
<1>2. \A ss \in Subs : freed(ss) \in Cell
  <2>1. \A ss \in Subs : b[ss]["_LOCK"] \in Cell
    BY <1>1 DEF Board
  <2> QED BY <2>1, CellValues DEF Cell
<1> HIDE DEF freed
<1>3. Unlock(b, S) = [ss \in Subs |-> IF ss \in S THEN [b[ss] EXCEPT !["_LOCK"] = freed(ss)]
                                                  ELSE b[ss]]
  BY DEF Unlock, freed
<1>4. Unlock(b, S) \in Board
  BY <1>1, <1>2, <1>3 DEF Board
<1>5. \A s \in Subs, l \in WorkLevels : Unlock(b, S)[s][l] = b[s][l]
  BY <1>1, <1>3 DEF Board
<1> QED BY <1>4, <1>5 DEF Sound, Advances

\* set_stage with the level's own final status cannot undo a finished stage.
LEMMA SetStageFacts ==
    ASSUME NEW b \in Board, Sound(b), NEW ss \in Subs, NEW l \in WorkLevels
    PROVE  /\ SetStage(b, ss, l, FinalOf(l)) \in Board
           /\ Sound(SetStage(b, ss, l, FinalOf(l)))
           /\ Advances(b, SetStage(b, ss, l, FinalOf(l)))
<1> DEFINE ended == [b[ss][l] EXCEPT !.status = FinalOf(l), !.lease = NoLease]
           c == SetStage(b, ss, l, FinalOf(l))
<1>1. l \in Levels /\ WorkLevels \subseteq Levels
  BY DEF Levels
<1>2. /\ ended \in Cell /\ ended.epoch = b[ss][l].epoch /\ ended.status = FinalOf(l)
      /\ FinalOf(l) # "RUNNING"
  <2>1. b[ss][l] \in Cell
    BY <1>1 DEF Board
  <2>2. FinalOf(l) \in Statuses /\ FinalOf(l) # "RUNNING"
    BY CellValues DEF FinalOf
  <2> QED BY <2>1, <2>2, CellValues DEF Cell
<1> HIDE DEF ended
<1>3. c = [b EXCEPT ![ss][l] = ended]
  BY DEF SetStage, ended
<1>4. c \in Board
  BY <1>1, <1>2, <1>3 DEF Board
<1>5. \A s \in Subs, k \in WorkLevels :
         c[s][k] = IF s = ss /\ k = l THEN ended ELSE b[s][k]
  BY <1>1, <1>3 DEF Board
<1> HIDE DEF c
<1>6. Sound(c) /\ Advances(b, c)
  BY <1>2, <1>5 DEF Sound, Advances
<1> QED BY <1>4, <1>6 DEF c

\* _record_failure and the reaper fail pending rows only.
LEMMA FailPendingFacts ==
    ASSUME NEW b \in Board, Sound(b), NEW S
    PROVE  /\ FailPending(b, S) \in Board
           /\ Sound(FailPending(b, S))
           /\ Advances(b, FailPending(b, S))
<1> DEFINE failed(cell) == [cell EXCEPT !.status = "ERROR", !.lease = NoLease]
           c == FailPending(b, S)
<1>1. WorkLevels \subseteq Levels
  BY DEF Levels
<1>2. \A cell \in Cell : /\ failed(cell) \in Cell /\ failed(cell).epoch = cell.epoch
                         /\ failed(cell).status = "ERROR"
  BY CellValues DEF Cell
<1> HIDE DEF failed
<1>3. c = [ss \in Subs |-> [l \in Levels |->
              IF ss \in S /\ l \in WorkLevels /\ b[ss][l].status \in Pending
              THEN failed(b[ss][l]) ELSE b[ss][l]]]
  BY DEF FailPending, failed
<1>4. c \in Board
  BY <1>1, <1>2, <1>3 DEF Board
<1>5. \A s \in Subs, k \in WorkLevels :
         \/ c[s][k] = b[s][k]
         \/ c[s][k] = failed(b[s][k]) /\ b[s][k].status \in Pending
  BY <1>1, <1>3
<1> HIDE DEF c
<1>6. \A s \in Subs, k \in WorkLevels : b[s][k] \in Cell
  BY <1>1 DEF Board
<1>7. Sound(c) /\ Advances(b, c)
  BY <1>2, <1>5, <1>6 DEF Sound, Advances, Pending, Finished
<1> QED BY <1>4, <1>7 DEF c

\* The reaper's sweep moves rows that are RUNNING when it re-checks them.
LEMMA SweepFacts ==
    ASSUME NEW b \in Board, Sound(b), NEW work, NEW locks
    PROVE  /\ Sweep(b, work, locks) \in Board
           /\ Sound(Sweep(b, work, locks))
           /\ Advances(b, Sweep(b, work, locks))
<1> DEFINE failed(cell) == [cell EXCEPT !.status = "ERROR", !.lease = NoLease]
           c == [ss \in Subs |-> [l \in Levels |->
                    IF <<ss, l>> \in work /\ Expired(b[ss][l])
                    THEN failed(b[ss][l]) ELSE b[ss][l]]]
<1>1. WorkLevels \subseteq Levels
  BY DEF Levels
<1>2. \A cell \in Cell : /\ failed(cell) \in Cell /\ failed(cell).epoch = cell.epoch
                         /\ failed(cell).status = "ERROR"
  BY CellValues DEF Cell
<1>3. Sweep(b, work, locks) = Unlock(c, {ss \in locks : Expired(b[ss]["_LOCK"])})
  BY DEF Sweep
<1> HIDE DEF failed
<1>4. c \in Board
  BY <1>1, <1>2 DEF Board
<1>5. \A s \in Subs, k \in WorkLevels :
         \/ c[s][k] = b[s][k]
         \/ c[s][k] = failed(b[s][k]) /\ b[s][k].status = "RUNNING"
  BY <1>1 DEF Expired
<1> HIDE DEF c
<1>6. \A s \in Subs, k \in WorkLevels : b[s][k] \in Cell
  BY <1>1 DEF Board
<1>7. Sound(c) /\ Advances(b, c)
  BY <1>2, <1>5, <1>6 DEF Sound, Advances, Finished
<1> QED BY <1>3, <1>4, <1>7, UnlockFacts, AdvancesTransitive

\* Time changes leases only.
LEMMA ElapseFacts ==
    ASSUME NEW b \in Board, Sound(b)
    PROVE  Elapse(b) \in Board /\ Sound(Elapse(b)) /\ Advances(b, Elapse(b))
<1> DEFINE aged(cell) == [cell EXCEPT !.lease = @ - 1]
<1>1. WorkLevels \subseteq Levels
  BY DEF Levels
<1>2. \A cell \in Cell : /\ Live(cell) => aged(cell) \in Cell
                         /\ aged(cell).epoch = cell.epoch /\ aged(cell).task = cell.task
                         /\ aged(cell).status = cell.status
  BY CellValues DEF Cell, Live
<1> HIDE DEF aged
<1>3. Elapse(b) = [ss \in Subs |-> [l \in Levels |->
                      IF Live(b[ss][l]) THEN aged(b[ss][l]) ELSE b[ss][l]]]
  BY DEF Elapse, aged
<1>4. Elapse(b) \in Board
  BY <1>2, <1>3 DEF Board
<1>5. \A s \in Subs, k \in WorkLevels :
         b[s][k] \in Cell /\ Elapse(b)[s][k] \in {b[s][k], aged(b[s][k])}
  BY <1>1, <1>3 DEF Board
<1>6. Sound(Elapse(b)) /\ Advances(b, Elapse(b))
  BY <1>2, <1>5 DEF Sound, Advances
<1> QED BY <1>4, <1>6

\* The top epoch of the levels a task touches is one of theirs and none exceeds it;
\* on an ordered board it is that of the scenarios.
LEMMA TopEpochFacts ==
    ASSUME NEW b \in Board, Ordered(b), NEW ss \in Subs, NEW kind \in TaskKinds
    PROVE  /\ TopEpoch(b, ss, kind) = b[ss]["SCENARIOS"].epoch
           /\ TopEpoch(b, ss, kind) \in Nat \ {0}
           /\ \A l \in WorkLevels : b[ss][l].epoch <= TopEpoch(b, ss, kind)
<1> DEFINE E == {b[ss][l].epoch : l \in LevelsOf(kind)}
           top == b[ss]["SCENARIOS"].epoch
<1>1. LevelsOf(kind) \subseteq WorkLevels /\ "SCENARIOS" \in LevelsOf(kind)
  BY LevelsTyped
<1>2. \A l \in WorkLevels : b[ss][l].epoch \in Nat \ {0}
  BY DEF Board, Cell, Levels
<1>3. \A l \in WorkLevels : b[ss][l].epoch <= top
  BY <1>2 DEF Ordered, WorkLevels
<1>4. top \in E /\ \A l \in LevelsOf(kind) : b[ss][l].epoch <= top
  BY <1>1, <1>3
<1>5. \A e \in E : (\A l \in LevelsOf(kind) : b[ss][l].epoch <= e) => e = top
  <2> SUFFICES ASSUME NEW e \in E, \A l \in LevelsOf(kind) : b[ss][l].epoch <= e
               PROVE  e = top
    OBVIOUS
  <2>1. top <= e /\ e <= top
    BY <1>1, <1>4
  <2>2. top \in Nat /\ e \in Nat
    BY <1>1, <1>2
  <2> QED BY <2>1, <2>2
<1>6. TopEpoch(b, ss, kind) = top
  BY <1>4, <1>5 DEF TopEpoch
<1> QED BY <1>1, <1>2, <1>3, <1>6

\* A regeneration gives the levels it touches an epoch none of them had, and keeps
\* the board sound and ordered.
LEMMA ResetFacts ==
    ASSUME NEW b \in Board, Sound(b), Ordered(b), NEW ss \in Subs, NEW kind \in TaskKinds
    PROVE  LET c == ResetForRegen(b, ss, kind, NextEpoch(b, ss, kind))
           IN  /\ c \in Board /\ Sound(c) /\ Ordered(c)
               /\ NextEpoch(b, ss, kind) = b[ss]["SCENARIOS"].epoch + 1
               /\ c[ss]["SCENARIOS"].epoch = NextEpoch(b, ss, kind)
               /\ \A s \in Subs, l \in WorkLevels :
                     c[s][l] = b[s][l] \/ c[s][l].epoch > b[s][l].epoch
               /\ \A s \in Subs \ {ss} : c[s] = b[s]
<1> DEFINE e == NextEpoch(b, ss, kind)
           reset(cell) == [cell EXCEPT !.status = "IDLE", !.epoch = e, !.attempts = 0]
           c == ResetForRegen(b, ss, kind, e)
<1>1. /\ e = b[ss]["SCENARIOS"].epoch + 1 /\ e \in Nat \ {0}
      /\ \A l \in WorkLevels : b[ss][l].epoch < e
  <2>1. \A l \in WorkLevels : b[ss][l].epoch \in Nat
    BY DEF Board, Cell, Levels
  <2> QED BY <2>1, TopEpochFacts DEF NextEpoch
<1> HIDE DEF e
<1>2. /\ WorkLevels \subseteq Levels /\ LevelsOf(kind) \subseteq WorkLevels
      /\ "SCENARIOS" \in LevelsOf(kind) /\ "SCENARIOS" \in WorkLevels
      /\ "PROFILE" \in WorkLevels /\ "THREATS" \in WorkLevels
  BY LevelsTyped DEF Levels, WorkLevels
<1>3. \A cell \in Cell : /\ reset(cell) \in Cell /\ reset(cell).epoch = e
                         /\ reset(cell).status = "IDLE"
  BY <1>1, CellValues DEF Cell
<1> HIDE DEF reset
<1>4. c = [b EXCEPT ![ss] = [l \in Levels |->
              IF l \in LevelsOf(kind) THEN reset(b[ss][l]) ELSE b[ss][l]]]
  BY DEF ResetForRegen, reset
<1>5. c \in Board
  BY <1>3, <1>4 DEF Board
<1>6. \A l \in Levels : c[ss][l] = IF l \in LevelsOf(kind) THEN reset(b[ss][l]) ELSE b[ss][l]
  BY <1>4 DEF Board
<1>7. \A s \in Subs \ {ss} : c[s] = b[s]
  BY <1>4 DEF Board
<1>8. \A s \in Subs, l \in WorkLevels : b[s][l] \in Cell /\ b[s][l].epoch \in Nat
  BY <1>2 DEF Board, Cell
<1> HIDE DEF c
<1>9. \A s \in Subs, l \in WorkLevels : c[s][l] = b[s][l] \/ c[s][l].epoch > b[s][l].epoch
  <2> SUFFICES ASSUME NEW s \in Subs, NEW l \in WorkLevels
               PROVE  c[s][l] = b[s][l] \/ c[s][l].epoch > b[s][l].epoch
    OBVIOUS
  <2>1. CASE s # ss
    BY <1>7, <2>1
  <2>2. CASE s = ss /\ l \in LevelsOf(kind)
    <3>1. c[s][l].epoch = e /\ b[s][l].epoch < e
      BY <1>1, <1>2, <1>3, <1>6, <1>8, <2>2
    <3> QED BY <3>1, <1>1, <1>8
  <2>3. CASE s = ss /\ l \notin LevelsOf(kind)
    BY <1>2, <1>6, <2>3
  <2> QED BY <2>1, <2>2, <2>3
<1>10. c[ss]["SCENARIOS"].epoch = e
  BY <1>2, <1>3, <1>6, <1>8
<1>11. Sound(c)
  <2> SUFFICES ASSUME NEW s \in Subs, NEW l \in WorkLevels
               PROVE  c[s][l] = b[s][l] \/ c[s][l].status = "IDLE"
    BY DEF Sound, Finished
  <2> QED BY <1>2, <1>3, <1>6, <1>7, <1>8
<1>12. Ordered(c)
  <2>1. \A l \in WorkLevels : c[ss][l].epoch = IF l \in LevelsOf(kind) THEN e ELSE b[ss][l].epoch
    BY <1>2, <1>3, <1>6, <1>8
  <2>2. "THREATS" \in LevelsOf(kind) \/ "PROFILE" \notin LevelsOf(kind)
    BY DEF LevelsOf, WorkLevels
  <2>3. c[ss]["PROFILE"].epoch <= c[ss]["THREATS"].epoch
    BY <2>1, <2>2, <1>1, <1>2, <1>8 DEF Ordered
  <2>4. c[ss]["THREATS"].epoch <= c[ss]["SCENARIOS"].epoch
    BY <2>1, <1>1, <1>2, <1>8 DEF Ordered
  <2> QED BY <2>3, <2>4, <1>7 DEF Ordered
<1> QED BY <1>1, <1>5, <1>7, <1>9, <1>10, <1>11, <1>12 DEF c, e
-----------------------------------------------------------------------------
(* The footprint of each UPDATE: the rows it leaves alone, and what the    *)
(* rows it writes say afterwards.                                          *)

\* claim_stage writes one work row.
LEMMA ClaimCells ==
    ASSUME NEW b \in Board, NEW ss \in Subs, NEW l \in WorkLevels, NEW t
    PROVE  LET c == Claim(b, ss, l, t)
           IN  /\ \A s \in Subs \ {ss} : c[s] = b[s]
               /\ \A k \in Levels \ {l} : c[ss][k] = b[ss][k]
               /\ c[ss][l].status = "RUNNING" /\ c[ss][l].task = t
               /\ c[ss][l].lease = LeaseTicks /\ c[ss][l].epoch = b[ss][l].epoch
               /\ c[ss][l].attempts = b[ss][l].attempts + 1
<1> DEFINE claimed == [b[ss][l] EXCEPT !.status = "RUNNING", !.task = t,
                                       !.lease = LeaseTicks, !.attempts = @ + 1]
<1>1. l \in Levels /\ b[ss] \in [Levels -> Cell] /\ b[ss][l] \in Cell
  BY DEF Board, Levels
<1>2. /\ claimed.status = "RUNNING" /\ claimed.task = t /\ claimed.lease = LeaseTicks
      /\ claimed.epoch = b[ss][l].epoch /\ claimed.attempts = b[ss][l].attempts + 1
  BY <1>1 DEF Cell
<1>3. Claim(b, ss, l, t) = [b EXCEPT ![ss] = [b[ss] EXCEPT ![l] = claimed]]
  BY <1>1 DEF Claim, Board
<1> HIDE DEF claimed
<1> QED BY <1>1, <1>2, <1>3 DEF Board

\* set_stage writes one work row.
LEMMA SetStageCells ==
    ASSUME NEW b \in Board, NEW ss \in Subs, NEW l \in WorkLevels, NEW status
    PROVE  LET c == SetStage(b, ss, l, status)
           IN  /\ \A s \in Subs \ {ss} : c[s] = b[s]
               /\ \A k \in Levels \ {l} : c[ss][k] = b[ss][k]
               /\ c[ss][l].status = status /\ c[ss][l].epoch = b[ss][l].epoch
               /\ c[ss][l].task = b[ss][l].task /\ c[ss][l].attempts = b[ss][l].attempts
<1> DEFINE ended == [b[ss][l] EXCEPT !.status = status, !.lease = NoLease]
<1>1. l \in Levels /\ b[ss] \in [Levels -> Cell]
  BY DEF Board, Levels
<1>2. /\ ended.status = status /\ ended.epoch = b[ss][l].epoch
      /\ ended.task = b[ss][l].task /\ ended.attempts = b[ss][l].attempts
  BY <1>1 DEF Cell
<1>3. SetStage(b, ss, l, status) = [b EXCEPT ![ss] = [b[ss] EXCEPT ![l] = ended]]
  BY <1>1 DEF SetStage, Board
<1> HIDE DEF ended
<1> QED BY <1>1, <1>2, <1>3 DEF Board

\* acquire_lock writes one lock row, in its holder's name and under a fresh lease.
LEMMA LockCells ==
    ASSUME NEW b \in Board, NEW ss \in Subs, NEW holder
    PROVE  LET c == Lock(b, ss, holder)
           IN  /\ \A s \in Subs \ {ss} : c[s] = b[s]
               /\ \A l \in WorkLevels : c[ss][l] = b[ss][l]
               /\ c[ss]["_LOCK"].status = "RUNNING" /\ c[ss]["_LOCK"].task = holder
               /\ c[ss]["_LOCK"].lease = LeaseTicks
<1> DEFINE locked == [b[ss]["_LOCK"] EXCEPT !.status = "RUNNING", !.task = holder,
                                            !.lease = LeaseTicks]
<1>1. /\ "_LOCK" \in Levels /\ WorkLevels \subseteq Levels \ {"_LOCK"}
      /\ b[ss] \in [Levels -> Cell] /\ b[ss]["_LOCK"] \in Cell
  BY DEF Board, Levels, WorkLevels
<1>2. locked.status = "RUNNING" /\ locked.task = holder /\ locked.lease = LeaseTicks
  BY <1>1 DEF Cell
<1>3. Lock(b, ss, holder) = [b EXCEPT ![ss] = [b[ss] EXCEPT !["_LOCK"] = locked]]
  BY <1>1 DEF Lock, Board
<1> HIDE DEF locked
<1> QED BY <1>1, <1>2, <1>3 DEF Board

\* release_lock frees the lock rows it is asked to free and writes nothing else.
LEMMA UnlockCells ==
    ASSUME NEW b \in Board, NEW S
    PROVE  LET c == Unlock(b, S)
           IN  /\ \A s \in Subs \ S : c[s] = b[s]
               /\ \A s \in Subs, l \in WorkLevels : c[s][l] = b[s][l]
               /\ \A s \in S \intersect Subs : c[s]["_LOCK"].status = "IDLE"
<1> DEFINE freed(ss) == [b[ss]["_LOCK"] EXCEPT !.status = "IDLE", !.task = NoTask,
                                               !.lease = NoLease]
<1>1. /\ "_LOCK" \in Levels /\ WorkLevels \subseteq Levels \ {"_LOCK"}
      /\ \A s \in Subs : b[s] \in [Levels -> Cell] /\ b[s]["_LOCK"] \in Cell
  BY DEF Board, Levels, WorkLevels
<1>2. \A s \in Subs : freed(s).status = "IDLE"
  BY <1>1 DEF Cell
<1> HIDE DEF freed
<1>3. Unlock(b, S) = [ss \in Subs |-> IF ss \in S THEN [b[ss] EXCEPT !["_LOCK"] = freed(ss)]
                                                  ELSE b[ss]]
  BY DEF Unlock, freed
<1> QED BY <1>1, <1>2, <1>3

\* _record_failure writes pending work rows of its supporting systems only.
LEMMA FailPendingCells ==
    ASSUME NEW b \in Board, NEW S
    PROVE  LET c == FailPending(b, S)
           IN  /\ \A s \in Subs \ S : c[s] = b[s]
               /\ \A s \in Subs : c[s]["_LOCK"] = b[s]["_LOCK"]
               /\ \A s \in Subs, l \in WorkLevels :
                     \/ c[s][l] = b[s][l] /\ ~(s \in S /\ b[s][l].status \in Pending)
                     \/ /\ c[s][l].status = "ERROR" /\ b[s][l].status \in Pending
                        /\ c[s][l].epoch = b[s][l].epoch
                        /\ c[s][l].attempts = b[s][l].attempts
<1> DEFINE failed(cell) == [cell EXCEPT !.status = "ERROR", !.lease = NoLease]
           c == FailPending(b, S)
<1>1. /\ "_LOCK" \in Levels /\ WorkLevels \subseteq Levels \ {"_LOCK"}
      /\ \A s \in Subs : b[s] \in [Levels -> Cell]
  BY DEF Board, Levels, WorkLevels
<1>2. \A cell \in Cell : /\ failed(cell).status = "ERROR" /\ failed(cell).epoch = cell.epoch
                         /\ failed(cell).attempts = cell.attempts
  BY DEF Cell
<1> HIDE DEF failed
<1>3. c = [ss \in Subs |-> [l \in Levels |->
              IF ss \in S /\ l \in WorkLevels /\ b[ss][l].status \in Pending
              THEN failed(b[ss][l]) ELSE b[ss][l]]]
  BY DEF FailPending, failed
<1>4. \A s \in Subs \ S : c[s] = b[s]
  <2> TAKE s \in Subs \ S
  <2>1. c[s] = [l \in Levels |-> b[s][l]]
    BY <1>3
  <2>2. b[s] = [l \in Levels |-> b[s][l]]
    BY <1>1
  <2> QED BY <2>1, <2>2
<1> QED BY <1>1, <1>2, <1>3, <1>4

\* The reaper's sweep writes expired rows only, and finishes none.
LEMMA SweepCells ==
    ASSUME NEW b \in Board, NEW work, NEW locks
    PROVE  LET c == Sweep(b, work, locks)
           IN  \A s \in Subs, l \in Levels :
                  \/ c[s][l] = b[s][l]
                  \/ Expired(b[s][l]) /\ c[s][l].status \in {"ERROR", "IDLE"}
<1> DEFINE failed(cell) == [cell EXCEPT !.status = "ERROR", !.lease = NoLease]
           swept == [ss \in Subs |-> [l \in Levels |->
                    IF <<ss, l>> \in work /\ Expired(b[ss][l])
                    THEN failed(b[ss][l]) ELSE b[ss][l]]]
           S == {ss \in locks : Expired(b[ss]["_LOCK"])}
<1>1. \A cell \in Cell : failed(cell) \in Cell /\ failed(cell).status = "ERROR"
  BY CellValues DEF Cell
<1>2. Sweep(b, work, locks) = Unlock(swept, S)
  BY DEF Sweep
<1> HIDE DEF failed
<1>3. swept \in Board
  BY <1>1 DEF Board
<1>4. \A s \in Subs, l \in Levels :
         \/ swept[s][l] = b[s][l]
         \/ Expired(b[s][l]) /\ swept[s][l].status = "ERROR"
  BY <1>1 DEF Board
<1> HIDE DEF swept
<1>5. \A s \in Subs, l \in Levels :
         \/ Unlock(swept, S)[s][l] = swept[s][l]
         \/ l = "_LOCK" /\ s \in S /\ Unlock(swept, S)[s][l].status = "IDLE"
  <2>1. \A l \in Levels : l \in WorkLevels \/ l = "_LOCK"
    BY DEF Levels
  <2> QED BY <1>3, <2>1, UnlockCells
<1> QED BY <1>2, <1>4, <1>5

\* Time takes a tick off every live lease and changes nothing else.
LEMMA ElapseCells ==
    ASSUME NEW b \in Board
    PROVE  LET c == Elapse(b)
           IN  \A s \in Subs, l \in Levels :
                  /\ c[s][l].status = b[s][l].status /\ c[s][l].task = b[s][l].task
                  /\ c[s][l].lease = IF Live(b[s][l]) THEN b[s][l].lease - 1
                                                      ELSE b[s][l].lease
<1> DEFINE aged(cell) == [cell EXCEPT !.lease = @ - 1]
<1>1. \A cell \in Cell : /\ aged(cell).status = cell.status /\ aged(cell).task = cell.task
                         /\ aged(cell).lease = cell.lease - 1
  BY DEF Cell
<1> HIDE DEF aged
<1>2. Elapse(b) = [ss \in Subs |-> [l \in Levels |->
                      IF Live(b[ss][l]) THEN aged(b[ss][l]) ELSE b[ss][l]]]
  BY DEF Elapse, aged
<1> QED BY <1>1, <1>2 DEF Board

\* A regeneration resets work rows of its supporting system only, and finishes none.
LEMMA ResetCells ==
    ASSUME NEW b \in Board, NEW ss \in Subs, NEW kind \in TaskKinds, NEW e
    PROVE  LET c == ResetForRegen(b, ss, kind, e)
           IN  /\ \A s \in Subs : c[s]["_LOCK"] = b[s]["_LOCK"]
               /\ \A s \in Subs, l \in WorkLevels :
                     \/ c[s][l] = b[s][l] /\ ~(s = ss /\ l \in LevelsOf(kind))
                     \/ /\ s = ss /\ l \in LevelsOf(kind) /\ c[s][l].status = "IDLE"
                        /\ c[s][l].epoch = e /\ c[s][l].attempts = 0
<1> DEFINE reset(cell) == [cell EXCEPT !.status = "IDLE", !.epoch = e, !.attempts = 0]
<1>1. /\ "_LOCK" \in Levels /\ WorkLevels \subseteq Levels \ {"_LOCK"}
      /\ LevelsOf(kind) \subseteq WorkLevels
  BY LevelsTyped DEF Levels, WorkLevels
<1>2. \A cell \in Cell : /\ reset(cell).status = "IDLE" /\ reset(cell).epoch = e
                         /\ reset(cell).attempts = 0
  BY DEF Cell
<1> HIDE DEF reset
<1>3. ResetForRegen(b, ss, kind, e) =
        [b EXCEPT ![ss] = [l \in Levels |->
              IF l \in LevelsOf(kind) THEN reset(b[ss][l]) ELSE b[ss][l]]]
  BY DEF ResetForRegen, reset
<1> QED BY <1>1, <1>2, <1>3 DEF Board

-----------------------------------------------------------------------------
(* The barrier and the verdict.                                            *)

\* What stands at the barrier stays there as long as no regeneration resets it.
LEMMA BarrierGrows ==
    ASSUME NEW b, NEW c, Advances(b, c)
    PROVE  AtBarrier(b) \subseteq AtBarrier(c)
BY DEF AtBarrier, Advances, WorkLevels, Finished

\* A verdict of review has a supporting system at the barrier: no other stage awaits
\* a decision on a sound board.
LEMMA ReviewVerdict ==
    ASSUME NEW b, Sound(b), Verdict(b) = "review"
    PROVE  AtBarrier(b) # {}
<1>1. PICK ss \in Subs, l \in WorkLevels : b[ss][l].status = "AWAITING_DECISION"
  BY DEF Verdict, Has
<1>2. l = "SCENARIOS"
  BY <1>1 DEF Sound, Finished, FinalOf
<1> QED BY <1>1, <1>2 DEF AtBarrier

\* A verdict of failure has none.
LEMMA FailVerdict ==
    ASSUME NEW b, Verdict(b) = "fail"
    PROVE  AtBarrier(b) = {}
BY DEF Verdict, Has, AtBarrier, WorkLevels
=============================================================================

---------------------------- MODULE OutputsProofs ----------------------------
(***************************************************************************)
(* Proofs about Outputs, for every value of the constants.                 *)
(*                                                                         *)
(*   - The scenarios are those of the selected scoring records: inductive  *)
(*     as it stands.                                                       *)
(*   - A regeneration of some rows spares their siblings: a task's epoch   *)
(*     names its request (RequestsOK), and a delivery holds that request's *)
(*     targets across its stages (WorkerOK).  This needs the stage board's *)
(*     own invariant (StageBoardFacts).                                    *)
(*   - Types (RowsOK), and which levels a task still has before it         *)
(*     (EpochsOK, StagesOK), on which the rest builds.                     *)
(*   - Pending work has its task: one request's task is in flight at a     *)
(*     time and can tell what is left of it (CalmOK, HeldOK).              *)
(*   - Scenarios without their threat (OrphansOK) and threats without      *)
(*     their scoring record (ScoredOK) have the causes the model names.    *)
(*   - The scenarios of the first run are what Selection makes of its      *)
(*     threats (FirstRunOK), and Selection is BestOf for every list.       *)
(***************************************************************************)
EXTENDS Outputs, StageBoardFacts, FiniteSetTheorems

LEMMA HereIsAll == Here \in Subs
BY OneSubsystem DEF Here, Subs

-----------------------------------------------------------------------------
(* Scenarios and scoring records.                                          *)

\* A first run, before any stage: no rows at all.
LEMMA InitMatches == Init => ScenariosMatchScorings
BY DEF Init, ScenariosMatchScorings

\* Retiring threats' records together with their scenarios.
LEMMA RegroundMatches == ScenariosMatchScorings /\ Reground => ScenariosMatchScorings'
<1> SUFFICES ASSUME ScenariosMatchScorings, Reground
             PROVE  ScenariosMatchScorings'
  OBVIOUS
<1> DEFINE gone == Lineage(requests[worker.task.epoch].targets)
<1>1. scoped' = Without(scoped, gone) /\ outputs' = outputs \ gone
  BY DEF Reground
<1> HIDE DEF gone
<1>2. DOMAIN scoped' = DOMAIN scoped \ gone /\ \A s \in DOMAIN scoped' : scoped'[s] = scoped[s]
  BY <1>1 DEF Without
<1> QED BY <1>1, <1>2 DEF ScenariosMatchScorings

\* New records, and scenarios of the selected ones, in the place of what was there.
LEMMA WriteMatches == ScenariosMatchScorings /\ WriteScenarios => ScenariosMatchScorings'
<1> SUFFICES ASSUME ScenariosMatchScorings, WriteScenarios
             PROVE  ScenariosMatchScorings'
  OBVIOUS
<1> DEFINE unscoped == worker.task.kind \in {"pipeline", "profile"}
           list == [a \in worker.list |-> threats[a]]
           chosen == Selection(list, cutoff.threshold, cutoff.topN)
           written == IF unscoped THEN worker.list ELSE worker.list \intersect worker.targets
           retired == IF unscoped THEN DOMAIN scoped ELSE ScoringsOf(worker.targets)
           stamp == minted + 1
           fresh == [s \in {<<stamp, a>> : a \in written} |-> ThreatOf(s) \in chosen]
<1>1. /\ scoped' = With(Without(scoped, retired), fresh)
      /\ outputs' = (outputs \ RetiredScenarios(worker.task, retired))
                    \union {s \in DOMAIN fresh : fresh[s]}
  BY DEF WriteScenarios
<1>2. \A s \in DOMAIN fresh : \E a \in written : s = <<stamp, a>> /\ ThreatOf(s) = a
  BY DEF ThreatOf
<1>3. \A s \in DOMAIN scoped \ retired : ThreatOf(s) \notin written
  BY DEF ScoringsOf
<1>4. outputs \ RetiredScenarios(worker.task, retired) = outputs \ retired
  BY DEF RetiredScenarios, ScenariosMatchScorings
<1> HIDE DEF fresh, written, retired, stamp
<1>5. /\ DOMAIN scoped' = (DOMAIN scoped \ retired) \union DOMAIN fresh
      /\ \A s \in DOMAIN fresh : scoped'[s] = fresh[s]
      /\ \A s \in DOMAIN scoped \ retired : s \notin DOMAIN fresh => scoped'[s] = scoped[s]
  BY <1>1 DEF With, Without
<1>6. \A s \in DOMAIN scoped \ retired : s \notin DOMAIN fresh
  BY <1>2, <1>3
<1>7. \A r, s \in DOMAIN scoped' : ThreatOf(r) = ThreatOf(s) => r = s
  BY <1>2, <1>3, <1>5 DEF ScenariosMatchScorings
<1>8. outputs' = {s \in DOMAIN scoped' : scoped'[s]}
  BY <1>1, <1>4, <1>5, <1>6 DEF ScenariosMatchScorings
<1> QED BY <1>7, <1>8 DEF ScenariosMatchScorings

\* Nothing else touches a scoring record or a scenario.
LEMMA OthersKeepRows ==
    ASSUME [Next]_vars
    PROVE  Reground \/ WriteScenarios \/ UNCHANGED <<scoped, outputs>>
BY DEF Next, vars, rowVars, Deliver, StartPipeline, StartScenarios, StartBroad,
       StartThreats, Resume, ClaimNext, WriteProfile, FindThreats, Crash, Fail, CloseOut,
       Regenerate

LEMMA NextMatches == ScenariosMatchScorings /\ [Next]_vars => ScenariosMatchScorings'
<1>1. ScenariosMatchScorings /\ UNCHANGED <<scoped, outputs>> => ScenariosMatchScorings'
  BY DEF ScenariosMatchScorings
<1> QED BY <1>1, OthersKeepRows, RegroundMatches, WriteMatches

\* In every reachable state the active scenarios of a supporting system are exactly
\* those of its selected scoring records, of which a threat has at most one, however
\* deliveries crash, fail, come late and supersede each other's rows.
THEOREM ScenariosAlwaysMatchScorings == Spec => []ScenariosMatchScorings
BY InitMatches, NextMatches, PTL DEF Spec

-----------------------------------------------------------------------------
(* What a delivery remembers.                                              *)

BoardOK == board \in Board /\ Sound(board) /\ Ordered(board)

\* A task's epoch names its request, and later requests have later epochs.
RequestsOK ==
    /\ \A e \in DOMAIN requests :
        /\ e \in Nat /\ e <= Level("SCENARIOS").epoch
        /\ requests[e].kind = "threat" => requests[e].about = requests[e].targets
        /\ requests[e].kind = "scenario" =>
              requests[e].about = {ThreatOf(s) : s \in requests[e].targets}
    /\ \A t \in InFlight :
        t \in Task /\ t.epoch \in DOMAIN requests /\ requests[t.epoch].kind = t.kind

\* The threats that a delivery is about to write are its own to take.
WorkerOK ==
    /\ worker.pc = "ground" =>
          worker.task.kind = "threat" /\ Claimable(board, Here, "THREATS", worker.task)
    /\ worker.pc = "next" => worker.task.kind = "pipeline"
    /\ worker.pc = "ask" /\ worker.task.kind \in Targeted =>
          worker.stage = "SCENARIOS" /\ worker.targets \subseteq Victims(worker.task)

IInv == BoardOK /\ RequestsOK /\ WorkerOK

\* Advancing the board keeps it ordered and the scenarios' epoch.
LEMMA AdvancedBoard ==
    ASSUME NEW b \in Board, NEW c \in Board, Ordered(b), Advances(b, c)
    PROVE  Ordered(c) /\ c[Here]["SCENARIOS"].epoch = b[Here]["SCENARIOS"].epoch
<1>1. \A ss \in Subs, l \in WorkLevels : c[ss][l].epoch = b[ss][l].epoch
  BY DEF Advances
<1>2. {"PROFILE", "THREATS", "SCENARIOS"} = WorkLevels
  BY DEF WorkLevels
<1> QED BY <1>1, <1>2, HereIsAll DEF Ordered

\* A step that answers no request: the board advances and no task comes up.
LEMMA RequestsKept ==
    ASSUME BoardOK, RequestsOK, board' \in Board, Sound(board'), Advances(board, board'),
           requests' = requests, InFlight' \subseteq InFlight
    PROVE  BoardOK' /\ RequestsOK'
<1>1. Ordered(board') /\ board'[Here]["SCENARIOS"].epoch = board[Here]["SCENARIOS"].epoch
  BY AdvancedBoard DEF BoardOK
<1> QED BY <1>1 DEF BoardOK, RequestsOK, Level

\* Going on claims one of the levels for the task, or ends the delivery.
LEMMA GoOnFacts ==
    ASSUME NEW b \in Board, Sound(b), NEW t \in Task, NEW levels \in SUBSET LevelsOf(t.kind),
           NEW list, NEW targets, GoOn(b, t, levels, list, targets)
    PROVE  /\ board' \in Board /\ Sound(board') /\ Advances(b, board')
           /\ \/ worker' = Idle
              \/ /\ worker' = [pc |-> "ask", task |-> t, stage |-> FirstClaim(b, t, levels),
                               list |-> list, targets |-> targets]
                 /\ FirstClaim(b, t, levels) \in levels
<1> DEFINE l == FirstClaim(b, t, levels)
<1>1. CASE \E k \in levels : Claimable(b, Here, k, t)
  <2>1. levels \subseteq {"PROFILE", "THREATS", "SCENARIOS"}
    BY LevelsTyped DEF Task, WorkLevels
  <2>2. l \in levels /\ Claimable(b, Here, l, t)
    BY <1>1, <2>1 DEF FirstClaim
  <2>3. /\ board' = Claim(b, Here, l, t)
        /\ worker' = [pc |-> "ask", task |-> t, stage |-> l, list |-> list,
                      targets |-> targets]
    BY <1>1 DEF GoOn
  <2> QED BY <2>2, <2>3, ClaimFacts, HereIsAll
<1>2. CASE ~\E k \in levels : Claimable(b, Here, k, t)
  <2>1. board' = b /\ worker' = Idle
    BY <1>2 DEF GoOn
  <2> QED BY <2>1 DEF Advances
<1> QED BY <1>1, <1>2

\* Finishing a stage: it is set to its final status, and the task goes on or pauses.
LEMMA FinishFacts ==
    ASSUME BoardOK, worker.task \in Task, NEW l \in WorkLevels, NEW list, NEW targets,
           Finish(l, list, targets)
    PROVE  /\ board' \in Board /\ Sound(board') /\ Advances(board, board')
           /\ \/ worker' = Idle
              \/ worker'.pc = "next" /\ worker'.task = worker.task
                 /\ worker.task.kind = "pipeline"
              \/ worker'.pc = "ask" /\ worker'.task = worker.task /\ Later(l) # {}
<1> DEFINE done == SetStage(board, Here, l, FinalOf(l))
           t == worker.task
<1>1. done \in Board /\ Sound(done) /\ Advances(board, done)
  BY SetStageFacts, HereIsAll DEF BoardOK
<1>2. \/ /\ board' = done /\ t.kind = "pipeline"
         /\ worker' = [worker EXCEPT !.pc = "next", !.list = list]
      \/ GoOn(done, t, LevelsOf(t.kind) \intersect Later(l), list, targets)
  BY DEF Finish, FinalOf
<1> HIDE DEF done
<1>3. CASE GoOn(done, t, LevelsOf(t.kind) \intersect Later(l), list, targets)
  <2>1. /\ board' \in Board /\ Sound(board') /\ Advances(done, board')
        /\ \/ worker' = Idle
           \/ worker'.pc = "ask" /\ worker'.task = t /\ Later(l) # {}
    <3>1. LevelsOf(t.kind) \intersect Later(l) \in SUBSET LevelsOf(t.kind)
      OBVIOUS
    <3>2. /\ board' \in Board /\ Sound(board') /\ Advances(done, board')
          /\ \/ worker' = Idle
             \/ \E k \in LevelsOf(t.kind) \intersect Later(l) :
                  worker' = [pc |-> "ask", task |-> t, stage |-> k, list |-> list,
                             targets |-> targets]
      BY <1>1, <1>3, <3>1, GoOnFacts
    <3> QED BY <3>2
  <2> QED BY <1>1, <2>1, AdvancesTransitive
<1>4. CASE /\ board' = done /\ t.kind = "pipeline"
           /\ worker' = [worker EXCEPT !.pc = "next", !.list = list]
  <2>1. worker'.task = t
    BY <1>4
  <2> QED BY <1>1, <1>4, <2>1
<1> QED BY <1>2, <1>3, <1>4

\* A delivery that goes on with a targeted task's scenarios, or with another task.
LEMMA AimedWell ==
    ASSUME NEW t, worker' = Idle \/ (worker'.pc = "ask" /\ worker'.task = t),
           worker' # Idle /\ t.kind \in Targeted =>
              worker'.stage = "SCENARIOS" /\ worker'.targets \subseteq Victims(t)'
    PROVE  WorkerOK'
BY DEF WorkerOK, Idle

\* The tasks in flight: a task that was delivered is in the worker's hands or done.
LEMMA Delivered ==
    ASSUME NEW t \in queue, queue' = queue \ {t}, worker' = Idle \/ worker'.task = t
    PROVE  InFlight' \subseteq InFlight
BY DEF InFlight, Idle

LEMMA Continued ==
    ASSUME worker.pc # "idle", queue' = queue, worker' = Idle \/ worker'.task = worker.task
    PROVE  InFlight' \subseteq InFlight
BY DEF InFlight, Idle

-----------------------------------------------------------------------------
(* IInv is inductive.                                                      *)

LEMMA InitIInv == Init => IInv
<1> SUFFICES ASSUME Init PROVE IInv
  OBVIOUS
<1>1. BoardOK
  BY SeededFacts DEF Init, BoardOK
<1>2. Level("SCENARIOS").epoch = 1
  BY HereIsAll DEF Init, Level, SeededBoard, SeededCell, Levels, WorkLevels
<1>3. InFlight = {PipelineTask} /\ PipelineTask \in Task
  BY OneSubsystem DEF Init, InFlight, Idle, PipelineTask, Task, TaskKinds
<1>4. RequestsOK
  BY <1>2, <1>3 DEF Init, RequestsOK, PipelineTask
<1> QED BY <1>1, <1>4 DEF Init, IInv, WorkerOK, Idle

LEMMA DeliverStep == ASSUME IInv, NEW t \in queue, Deliver(t) PROVE IInv'
<1>1. t \in InFlight /\ t \in Task /\ requests[t.epoch].kind = t.kind /\ t.epoch \in DOMAIN requests
  BY DEF IInv, RequestsOK, InFlight
<1>2. queue' = queue \ {t} /\ requests' = requests /\ worker.pc = "idle"
  BY DEF Deliver, TakenFrom
<1>3. board \in Board /\ Sound(board)
  BY DEF IInv, BoardOK
<1>4. ASSUME board' \in Board, Sound(board'), Advances(board, board'),
             worker' = Idle \/ worker'.task = t, WorkerOK'
      PROVE  IInv'
  BY <1>2, <1>4, Delivered, RequestsKept DEF IInv
<1>5. ASSUME Dropped PROVE IInv'
  <2>1. board' = board /\ worker' = worker /\ Advances(board, board)
    BY <1>5 DEF Dropped, Advances
  <2>2. InFlight' \subseteq InFlight
    BY <1>2, <2>1 DEF InFlight
  <2>3. WorkerOK'
    BY <1>2, <2>1 DEF WorkerOK
  <2> QED BY <1>2, <1>3, <2>1, <2>2, <2>3, RequestsKept DEF IInv
<1>6. ASSUME NEW levels \in SUBSET LevelsOf(t.kind), NEW list, NEW targets,
             GoOn(board, t, levels, list, targets),
             t.kind \in Targeted => levels = {"SCENARIOS"} /\ targets \subseteq Victims(t)'
      PROVE  IInv'
  <2>1. /\ board' \in Board /\ Sound(board') /\ Advances(board, board')
        /\ \/ worker' = Idle
           \/ /\ worker' = [pc |-> "ask", task |-> t, stage |-> FirstClaim(board, t, levels),
                            list |-> list, targets |-> targets]
              /\ FirstClaim(board, t, levels) \in levels
    BY <1>1, <1>3, <1>6, GoOnFacts
  <2>2. WorkerOK'
    BY <1>6, <2>1, AimedWell
  <2> QED BY <1>4, <2>1, <2>2
<1>7. CASE StartPipeline(t)
  <2>1. t.kind \notin Targeted /\ WorkLevels \in SUBSET LevelsOf(t.kind)
    BY <1>7 DEF StartPipeline, Targeted, LevelsOf
  <2> QED BY <1>6, <1>7, <2>1 DEF StartPipeline
<1>8. CASE StartScenarios(t)
  <2> DEFINE wanted == requests[t.epoch].targets
  <2>1. {"SCENARIOS"} \in SUBSET LevelsOf(t.kind)
    BY <1>8 DEF StartScenarios, LevelsOf
  <2>2. requests[t.epoch].about = {ThreatOf(s) : s \in wanted}
    BY <1>1, <1>8 DEF IInv, RequestsOK, StartScenarios
  <2>3. {ThreatOf(s) : s \in wanted} \subseteq Victims(t)'
    BY <1>2, <2>2 DEF Victims
  <2>4. Dropped \/ GoOn(board, t, {"SCENARIOS"}, DOMAIN threats, {ThreatOf(s) : s \in wanted})
    BY <1>8 DEF StartScenarios
  <2> QED BY <1>5, <1>6, <2>1, <2>3, <2>4
<1>9. CASE StartBroad(t)
  <2>1. t.kind \notin Targeted
    BY <1>9 DEF StartBroad, Targeted, ByType
  <2> QED BY <1>6, <1>9, <2>1 DEF StartBroad
<1>10. CASE StartThreats(t)
  <2>1. t.kind = "threat" /\ board' = board /\ Advances(board, board)
    BY <1>10 DEF StartThreats, Advances
  <2>2. \/ worker' = Idle
        \/ /\ worker' = [Idle EXCEPT !.pc = "ground", !.task = t]
           /\ Claimable(board, Here, "THREATS", t)
    BY <1>10 DEF StartThreats
  <2>3. worker' = Idle \/ (worker'.task = t /\ worker'.pc = "ground")
    BY <2>2 DEF Idle
  <2>4. WorkerOK'
    BY <2>1, <2>2, <2>3 DEF WorkerOK, Idle
  <2> QED BY <1>3, <1>4, <2>1, <2>3, <2>4
<1>11. CASE Resume(t)
  <2>1. {"SCENARIOS"} \in SUBSET LevelsOf(t.kind)
    BY <1>11 DEF Resume, LevelsOf
  <2>2. Resumable(t)' = Resumable(t) /\ Resumable(t) \subseteq Victims(t)'
    BY <1>2, <1>11 DEF Resume, rowVars, Resumable, Victims
  <2>3. Dropped \/ GoOn(board, t, {"SCENARIOS"}, DOMAIN threats, Resumable(t))
    BY <1>11 DEF Resume
  <2> QED BY <1>5, <1>6, <2>1, <2>2, <2>3
<1> QED BY <1>7, <1>8, <1>9, <1>10, <1>11 DEF Deliver

\* The replacements can be told from the threats they replace.
LEMMA RegroundOrigins ==
    ASSUME Reground, NEW t, t = worker.task, NEW old, old = requests[t.epoch].targets,
           requests[t.epoch].about = old
    PROVE  /\ NewIds(Cardinality(old)) \subseteq Resumable(t)'
           /\ DOMAIN threats' = (DOMAIN threats \ old) \union NewIds(Cardinality(old))
<1> DEFINE new == NewIds(Cardinality(old))
<1>1. PICK origin \in Bijection(new, old), g \in [new -> Groundings] :
         threats' = With(Without(threats, old),
                         [a \in new |-> Row(g[a], <<origin[a], t.epoch>>)])
  BY DEF Reground
<1>2. \A a \in new : a \in DOMAIN threats' /\ threats'[a] = Row(g[a], <<origin[a], t.epoch>>)
  BY <1>1 DEF With
<1>3. \A a \in new : origin[a] \in old
  BY DEF Bijection, Injection, Surjection, IsInjective
<1>4. \A a \in new : threats'[a].origin = <<origin[a], t.epoch>>
  <2> TAKE a \in new
  <2>1. threats'[a] = Row(g[a], <<origin[a], t.epoch>>)
    BY <1>2
  <2> QED BY <2>1 DEF Row
<1>5. requests' = requests
  BY DEF Reground
<1>6. \A a \in DOMAIN threats' :
        threats'[a].origin \in {<<o, t.epoch>> : o \in old} => a \in Resumable(t)'
  BY <1>5 DEF Resumable
<1>7. DOMAIN threats' = (DOMAIN threats \ old) \union new
  BY <1>1 DEF With, Without
<1> HIDE DEF new
<1>8. new \subseteq Resumable(t)'
  BY <1>2, <1>3, <1>4, <1>6
<1> QED BY <1>7, <1>8 DEF new

LEMMA RegroundStep == ASSUME IInv, Reground PROVE IInv'
<1> PICK t : t = worker.task
  OBVIOUS
<1> PICK old : old = requests[t.epoch].targets
  OBVIOUS
<1> DEFINE new == NewIds(Cardinality(old))
           claimed == Claim(board, Here, "THREATS", t)
           b == SetStage(claimed, Here, "THREATS", "COMPLETE")
<1>1. /\ t \in Task /\ t.epoch \in DOMAIN requests /\ requests[t.epoch].kind = t.kind
      /\ worker.pc = "ground" /\ t.kind = "threat" /\ Claimable(board, Here, "THREATS", t)
      /\ requests' = requests /\ queue' = queue
  BY DEF Reground, IInv, RequestsOK, WorkerOK, InFlight
<1>2. old = requests[t.epoch].about
  BY <1>1 DEF IInv, RequestsOK
<1>3. {"THREATS", "SCENARIOS"} = LevelsOf(t.kind)
  BY <1>1 DEF LevelsOf
<1>4. b \in Board /\ Sound(b) /\ Advances(board, b)
  <2>1. claimed \in Board /\ Sound(claimed) /\ Advances(board, claimed)
    BY <1>1, <1>3, HereIsAll, ClaimFacts DEF IInv, BoardOK
  <2>2. "THREATS" \in WorkLevels /\ FinalOf("THREATS") = "COMPLETE"
    BY DEF WorkLevels, FinalOf
  <2> HIDE DEF claimed
  <2>3. b \in Board /\ Sound(b) /\ Advances(claimed, b)
    BY <2>1, <2>2, HereIsAll, SetStageFacts
  <2> QED BY <2>1, <2>3, AdvancesTransitive
<1>5. new \subseteq Resumable(t)'
  BY <1>2, RegroundOrigins
<1>6. GoOn(b, t, {"SCENARIOS"}, DOMAIN threats', new)
  BY DEF Reground
<1> HIDE DEF b, new
<1>7. /\ board' \in Board /\ Sound(board') /\ Advances(b, board')
      /\ \/ worker' = Idle
         \/ worker' = [pc |-> "ask", task |-> t, stage |-> "SCENARIOS",
                       list |-> DOMAIN threats', targets |-> new]
  <2>1. {"SCENARIOS"} \in SUBSET LevelsOf(t.kind)
    BY <1>3
  <2> QED BY <1>1, <1>4, <1>6, <2>1, GoOnFacts DEF FirstClaim
<1>8. WorkerOK'
  <2>1. new \subseteq Victims(t)'
    BY <1>5 DEF Victims
  <2> QED BY <1>7, <2>1, AimedWell
<1>9. Advances(board, board') /\ InFlight' \subseteq InFlight
  <2>1. worker' = Idle \/ worker'.task = worker.task
    BY <1>7
  <2> QED BY <1>1, <1>4, <1>7, <2>1, AdvancesTransitive, Continued
<1> QED BY <1>1, <1>7, <1>8, <1>9, RequestsKept DEF IInv

\* The other steps of a delivery: a stage ends, or the pipeline claims the next one.
LEMMA StageStep ==
    ASSUME IInv, ClaimNext \/ WriteProfile \/ FindThreats \/ WriteScenarios
    PROVE  IInv'
<1>1. /\ worker.pc \in {"next", "ask"} /\ requests' = requests /\ queue' = queue
      /\ worker.task \in Task
  BY DEF ClaimNext, WriteProfile, FindThreats, WriteScenarios, IInv, RequestsOK, InFlight
<1>2. ASSUME board' \in Board, Sound(board'), Advances(board, board'), WorkerOK',
             worker' = Idle \/ worker'.task = worker.task
      PROVE  IInv'
  BY <1>1, <1>2, Continued, RequestsKept DEF IInv
<1>3. ASSUME NEW l \in WorkLevels, NEW list, NEW targets, Finish(l, list, targets),
             worker.pc = "ask" /\ worker.stage = l
      PROVE  IInv'
  <2>1. /\ board' \in Board /\ Sound(board') /\ Advances(board, board')
        /\ \/ worker' = Idle
           \/ worker'.pc = "next" /\ worker'.task = worker.task
              /\ worker.task.kind = "pipeline"
           \/ worker'.pc = "ask" /\ worker'.task = worker.task /\ Later(l) # {}
    BY <1>1, <1>3, FinishFacts DEF IInv
  <2>2. worker.task.kind \in Targeted => Later(l) = {}
    BY <1>3 DEF IInv, WorkerOK, Later
  <2>3. WorkerOK'
    BY <2>1, <2>2 DEF WorkerOK, Idle, Targeted
  <2> QED BY <1>2, <2>1, <2>3
<1>4. CASE ClaimNext
  <2>1. /\ worker.task.kind = "pipeline"
        /\ Later(worker.stage) \in SUBSET LevelsOf(worker.task.kind)
    BY <1>4 DEF ClaimNext, IInv, WorkerOK, Later, LevelsOf, WorkLevels
  <2>2. PICK list : GoOn(board, worker.task, Later(worker.stage), list, {})
    BY <1>4 DEF ClaimNext
  <2>3. /\ board' \in Board /\ Sound(board') /\ Advances(board, board')
        /\ worker' = Idle \/ (worker'.pc = "ask" /\ worker'.task = worker.task)
    <3>1. board \in Board /\ Sound(board)
      BY DEF IInv, BoardOK
    <3>2. /\ board' \in Board /\ Sound(board') /\ Advances(board, board')
          /\ \/ worker' = Idle
             \/ worker' = [pc |-> "ask", task |-> worker.task,
                           stage |-> FirstClaim(board, worker.task, Later(worker.stage)),
                           list |-> list, targets |-> {}]
      BY <1>1, <2>1, <2>2, <3>1, GoOnFacts
    <3> QED BY <3>2
  <2>4. WorkerOK'
    BY <2>1, <2>3, AimedWell DEF Targeted
  <2> QED BY <1>2, <2>3, <2>4
<1>5. CASE WriteProfile
  BY <1>3, <1>5 DEF WriteProfile, WorkLevels
<1>6. CASE FindThreats
  <2>1. PICK list, targets : Finish("THREATS", list, targets)
    BY <1>6 DEF FindThreats
  <2> QED BY <1>3, <1>6, <2>1 DEF FindThreats, WorkLevels
<1>7. CASE WriteScenarios
  BY <1>3, <1>7 DEF WriteScenarios, WorkLevels
<1> QED BY <1>4, <1>5, <1>6, <1>7

LEMMA MishapStep == ASSUME IInv, Crash \/ Fail \/ CloseOut PROVE IInv'
<1>1. requests' = requests /\ threats' = threats
  BY DEF Crash, Fail, CloseOut, rowVars
<1>2. board' = board \/ board' = FailPending(board, {Here})
  BY DEF Crash, Fail, CloseOut
<1>3. board' \in Board /\ Sound(board') /\ Advances(board, board')
  BY <1>2, FailPendingFacts DEF IInv, BoardOK, Advances
<1>4. /\ worker.pc = "idle" \/ worker' = Idle
      /\ worker' = Idle \/ worker' = worker
      /\ queue' = queue \/ (worker.pc # "idle" /\ queue' = queue \union {worker.task})
  BY DEF Crash, Fail, CloseOut
<1>5. InFlight' \subseteq InFlight
  BY <1>4 DEF InFlight, Idle
<1>6. WorkerOK'
  BY <1>4 DEF WorkerOK, Idle
<1> QED BY <1>1, <1>3, <1>5, <1>6, RequestsKept DEF IInv

LEMMA RegenerateStep == ASSUME IInv, NEW kind \in Granularities, Regenerate(kind) PROVE IInv'
<1> PICK e : e = NextEpoch(board, Here, kind)
  OBVIOUS
<1> DEFINE t == [kind |-> kind, ss |-> Here, epoch |-> e]
<1>1. PICK T : requests' = With(requests, [x \in {e} |->
                  [kind |-> kind, targets |-> T,
                   about |-> CASE kind = "scenario" -> {ThreatOf(s) : s \in T}
                               [] kind = "threat"   -> T
                               [] OTHER             -> {}]])
  BY DEF Regenerate
<1>2. /\ worker.pc = "idle" /\ worker' = worker /\ queue' = queue \union {t}
      /\ board' = ResetForRegen(board, Here, kind, e)
  BY DEF Regenerate
<1>3. kind \in TaskKinds
  BY DEF TaskKinds
<1>4. /\ BoardOK' /\ e = Level("SCENARIOS").epoch + 1 /\ Level("SCENARIOS")'.epoch = e
      /\ Level("SCENARIOS").epoch \in Nat
  <2>1. Level("SCENARIOS").epoch \in Nat \ {0}
    BY HereIsAll DEF Level, IInv, BoardOK, Board, Cell, Levels, WorkLevels
  <2> QED BY <1>2, <1>3, <2>1, HereIsAll, ResetFacts DEF IInv, BoardOK, Level
<1>5. \A x \in DOMAIN requests : x \in Nat /\ x < e
  BY <1>4 DEF IInv, RequestsOK
<1>6. DOMAIN requests' = DOMAIN requests \union {e}
  BY <1>1 DEF With
<1>7. \A x \in DOMAIN requests : requests'[x] = requests[x]
  BY <1>1, <1>5 DEF With
<1>8. /\ requests'[e].kind = kind
      /\ kind = "threat" => requests'[e].about = requests'[e].targets
      /\ kind = "scenario" => requests'[e].about = {ThreatOf(s) : s \in requests'[e].targets}
  BY <1>1 DEF With
<1>9. t \in Task
  BY <1>3, <1>4, OneSubsystem DEF Task, Here
<1>10. InFlight' = InFlight \union {t}
  BY <1>2 DEF InFlight
<1>11. \A x \in DOMAIN requests' :
        /\ x \in Nat /\ x <= Level("SCENARIOS")'.epoch
        /\ requests'[x].kind = "threat" => requests'[x].about = requests'[x].targets
        /\ requests'[x].kind = "scenario" =>
              requests'[x].about = {ThreatOf(s) : s \in requests'[x].targets}
  <2> TAKE x \in DOMAIN requests'
  <2>1. CASE x = e
    BY <1>4, <1>8, <2>1
  <2>2. CASE x \in DOMAIN requests
    <3>1. x \in Nat /\ x <= Level("SCENARIOS")'.epoch
      BY <1>4, <1>5, <2>2
    <3> QED BY <1>7, <2>2, <3>1 DEF IInv, RequestsOK
  <2> QED BY <1>6, <2>1, <2>2
<1>12. \A u \in InFlight' :
         u \in Task /\ u.epoch \in DOMAIN requests' /\ requests'[u.epoch].kind = u.kind
  <2> TAKE u \in InFlight'
  <2>1. CASE u = t
    BY <1>6, <1>8, <1>9, <2>1
  <2>2. CASE u \in InFlight
    BY <1>6, <1>7, <2>2 DEF IInv, RequestsOK
  <2> QED BY <1>10, <2>1, <2>2
<1>13. RequestsOK'
  BY <1>11, <1>12 DEF RequestsOK
<1>14. WorkerOK'
  BY <1>2 DEF WorkerOK
<1> QED BY <1>4, <1>13, <1>14 DEF IInv

LEMMA NextIInv == IInv /\ [Next]_vars => IInv'
<1> SUFFICES ASSUME IInv, [Next]_vars PROVE IInv'
  OBVIOUS
<1>1. CASE UNCHANGED vars
  BY <1>1 DEF vars, rowVars, IInv, BoardOK, RequestsOK, WorkerOK, InFlight, Level,
              Victims, Resumable
<1>2. ASSUME NEW t \in queue, Deliver(t) PROVE IInv'
  BY <1>2, DeliverStep
<1>3. ASSUME NEW kind \in Offered, Regenerate(kind) PROVE IInv'
  BY <1>3, RegenerateStep, OfferedAssumption
<1> QED BY <1>1, <1>2, <1>3, RegroundStep, StageStep, MishapStep DEF Next

-----------------------------------------------------------------------------
(* A regeneration of some rows spares their siblings.                      *)

LEMMA StepSpares ==
    ASSUME IInv, [Next]_vars, NEW s \in outputs \ outputs'
    PROVE  \E t \in InFlight : t.kind \notin Targeted \/ ThreatOf(s) \in Victims(t)
<1> DEFINE t == worker.task
<1>1. CASE Reground
  <2>1. t \in InFlight /\ t.kind = "threat" /\ requests[t.epoch].kind = t.kind
        /\ t.epoch \in DOMAIN requests
    BY <1>1 DEF Reground, InFlight, IInv, WorkerOK, RequestsOK
  <2>2. requests[t.epoch].about = requests[t.epoch].targets
    BY <2>1 DEF IInv, RequestsOK
  <2>3. ThreatOf(s) \in requests[t.epoch].targets
    BY <1>1 DEF Reground, Lineage, ScoringsOf
  <2> QED BY <2>1, <2>2, <2>3 DEF Victims
<1>2. CASE WriteScenarios
  <2>1. t \in InFlight /\ worker.pc = "ask"
    BY <1>2 DEF WriteScenarios, InFlight
  <2>2. CASE t.kind \in Targeted
    <3>1. s \in ScoringsOf(worker.targets)
      BY <1>2, <2>2 DEF WriteScenarios, RetiredScenarios, Targeted
    <3>2. ThreatOf(s) \in worker.targets /\ worker.targets \subseteq Victims(t)
      BY <2>1, <2>2, <3>1 DEF ScoringsOf, IInv, WorkerOK
    <3> QED BY <2>1, <3>2
  <2> QED BY <2>1, <2>2
<1>3. CASE UNCHANGED <<scoped, outputs>>
  BY <1>3
<1> QED BY <1>1, <1>2, <1>3, OthersKeepRows

\* While only scenario and threat regenerations are in flight, no step takes a scenario
\* from a threat that none of them names or made, whatever crashes and comes late.
THEOREM RegenerationSparesSiblings == Spec => SiblingsUntouched
<1>1. IInv /\ [Next]_vars =>
        [\A s \in outputs \ outputs' : \E t \in InFlight :
            t.kind \notin Targeted \/ ThreatOf(s) \in Victims(t)]_vars
  BY StepSpares
<1> QED BY InitIInv, NextIInv, <1>1, PTL DEF Spec, SiblingsUntouched

-----------------------------------------------------------------------------
(* The rows are well typed.                                                *)

Kinds == {"crash", "loss", "failure", "sweep"}

Memory(w) == w = [pc |-> w.pc, task |-> w.task, stage |-> w.stage, list |-> w.list,
                  targets |-> w.targets]

\* What TypeOK says of the rows and of the delivery, and the two things it rests on:
\* an idle worker remembers nothing, and the threats a request names are finitely many.
RowsOK ==
    /\ cutoff \in Cutoffs /\ profile \in BOOLEAN /\ minted \in Nat
    /\ threats \in [DOMAIN threats -> ThreatRow] /\ DOMAIN threats \subseteq 1..minted
    /\ scoped \in [DOMAIN scoped -> BOOLEAN]
    /\ DOMAIN scoped \subseteq (1..minted) \X (1..minted)
    /\ Memory(worker) /\ worker.list \subseteq DOMAIN threats
    /\ worker.pc = "idle" => worker = Idle
    /\ mishaps \in [Kinds -> Nat]
    /\ \A e \in DOMAIN requests : requests[e].kind = "threat" =>
          requests[e].targets \in SUBSET Nat /\ IsFiniteSet(requests[e].targets)

\* Superseding and inserting rows.
LEMMA WithoutRows ==
    ASSUME NEW rows, NEW gone, NEW T, rows \in [DOMAIN rows -> T]
    PROVE  /\ DOMAIN Without(rows, gone) = DOMAIN rows \ gone
           /\ \A r \in DOMAIN rows \ gone : Without(rows, gone)[r] = rows[r]
           /\ Without(rows, gone) \in [DOMAIN rows \ gone -> T]
BY DEF Without

LEMMA WithRows ==
    ASSUME NEW rows, NEW more, NEW T,
           rows \in [DOMAIN rows -> T], more \in [DOMAIN more -> T]
    PROVE  /\ DOMAIN With(rows, more) = DOMAIN rows \union DOMAIN more
           /\ \A r \in DOMAIN more : With(rows, more)[r] = more[r]
           /\ \A r \in DOMAIN rows \ DOMAIN more : With(rows, more)[r] = rows[r]
           /\ With(rows, more) \in [DOMAIN rows \union DOMAIN more -> T]
BY DEF With

\* A new id is none that was given out.
LEMMA FreshIds ==
    ASSUME minted \in Nat, NEW n \in Nat
    PROVE  /\ NewIds(n) \subseteq 1 .. minted + n
           /\ NewIds(n) \intersect (1..minted) = {} /\ 1..minted \subseteq 1 .. minted + n
BY DEF NewIds

\* A delivery that goes on takes its list and its targets along.
LEMMA GoesOn ==
    ASSUME NEW b, NEW t, NEW levels, NEW list, NEW targets, GoOn(b, t, levels, list, targets)
    PROVE  \/ worker' = Idle
           \/ worker' = [pc |-> "ask", task |-> t, stage |-> FirstClaim(b, t, levels),
                         list |-> list, targets |-> targets]
BY DEF GoOn

LEMMA FinishGoesOn ==
    ASSUME Memory(worker), NEW l, NEW list, NEW targets, Finish(l, list, targets)
    PROVE  /\ Memory(worker')
           /\ \/ worker' = Idle
              \/ worker'.pc \in {"ask", "next"} /\ worker'.list = list
<1>1. CASE worker' = [worker EXCEPT !.pc = "next", !.list = list]
  <2>1. worker' = [pc |-> "next", task |-> worker.task, stage |-> worker.stage,
                   list |-> list, targets |-> worker.targets]
    BY <1>1 DEF Memory
  <2> QED BY <2>1 DEF Memory
<1>2. CASE \E b, levels : GoOn(b, worker.task, levels, list, targets)
  <2>1. \/ worker' = Idle
        \/ \E k : worker' = [pc |-> "ask", task |-> worker.task, stage |-> k,
                             list |-> list, targets |-> targets]
    BY <1>2 DEF GoOn
  <2> QED BY <2>1 DEF Memory, Idle
<1> QED BY <1>1, <1>2 DEF Finish

\* Idle remembers nothing.
LEMMA IdleRemembers ==
    Memory(Idle) /\ Idle.list = {} /\ Idle.pc = "idle" /\ Idle.task = NoTask
BY DEF Idle, Memory

LEMMA InitRows == Init => RowsOK
<1> SUFFICES ASSUME Init PROVE RowsOK
  OBVIOUS
<1>1. DOMAIN threats = {} /\ threats \in [{} -> ThreatRow]
  BY DEF Init
<1>2. DOMAIN scoped = {} /\ scoped \in [{} -> BOOLEAN]
  BY DEF Init
<1>3. worker = Idle /\ worker.list = {} /\ Memory(worker)
  BY IdleRemembers DEF Init
<1>4. \A e \in DOMAIN requests : requests[e].kind = "pipeline"
  BY DEF Init
<1>5. mishaps \in [Kinds -> Nat]
  BY DEF Init, Kinds
<1> QED BY <1>1, <1>2, <1>3, <1>4, <1>5 DEF Init, RowsOK

\* A step that writes no row: the delivery's list is of active threats.
LEMMA RowsKept ==
    ASSUME RowsOK, UNCHANGED <<rowVars, cutoff, requests>>, mishaps' \in [Kinds -> Nat],
           Memory(worker'), worker'.list \subseteq DOMAIN threats,
           worker'.pc = "idle" => worker' = Idle
    PROVE  RowsOK'
BY DEF RowsOK, rowVars

LEMMA DeliverRows == ASSUME RowsOK, NEW t \in queue, Deliver(t) PROVE RowsOK'
<1>1. /\ UNCHANGED <<rowVars, cutoff, requests, mishaps>> /\ worker.pc = "idle" /\ worker = Idle
      /\ mishaps' \in [Kinds -> Nat]
  BY DEF Deliver, StartPipeline, StartScenarios, StartBroad, StartThreats, Resume, RowsOK
<1>2. ASSUME NEW levels, NEW list \in SUBSET DOMAIN threats, NEW targets,
             GoOn(board, t, levels, list, targets)
      PROVE  RowsOK'
  <2>1. worker' = Idle \/ (Memory(worker') /\ worker'.list = list /\ worker'.pc = "ask")
    BY <1>2, GoesOn DEF Memory
  <2> QED BY <1>1, <2>1, IdleRemembers, RowsKept
<1>3. CASE worker' = worker \/ worker' = Idle
  BY <1>1, <1>3, IdleRemembers, RowsKept
<1>4. CASE StartPipeline(t)
  BY <1>2, <1>4 DEF StartPipeline, ReadBack
<1>5. CASE StartScenarios(t)
  BY <1>2, <1>3, <1>5 DEF StartScenarios, Dropped
<1>6. CASE StartBroad(t)
  BY <1>2, <1>6 DEF StartBroad
<1>7. CASE StartThreats(t)
  <2>1. \/ worker' = Idle
        \/ Memory(worker') /\ worker'.list = {} /\ worker'.pc = "ground"
    BY <1>7 DEF StartThreats, Idle, Memory
  <2> QED BY <1>1, <1>3, <2>1, RowsKept
<1>8. CASE Resume(t)
  BY <1>2, <1>3, <1>8 DEF Resume, Dropped
<1> QED BY <1>4, <1>5, <1>6, <1>7, <1>8 DEF Deliver

LEMMA RegroundRows == ASSUME IInv, RowsOK, Reground PROVE RowsOK'
<1> DEFINE t == worker.task
           old == requests[t.epoch].targets
           n == Cardinality(old)
           new == NewIds(n)
<1>1. t.kind = "threat" /\ t.epoch \in DOMAIN requests /\ requests[t.epoch].kind = t.kind
  BY DEF Reground, IInv, WorkerOK, RequestsOK, InFlight
<1>2. n \in Nat /\ old \subseteq Nat /\ t.epoch \in Nat
  <2>1. old \in SUBSET Nat /\ IsFiniteSet(old)
    BY <1>1 DEF RowsOK
  <2> QED BY <1>1, <2>1, FS_CardinalityType DEF IInv, RequestsOK
<1>3. /\ minted' = minted + n /\ scoped' = Without(scoped, Lineage(old))
      /\ outputs' = outputs \ Lineage(old)
      /\ UNCHANGED <<cutoff, profile, requests, mishaps>>
  BY DEF Reground
<1>4. PICK origin \in Bijection(new, old), g \in [new -> Groundings] :
         threats' = With(Without(threats, old),
                         [a \in new |-> Row(g[a], <<origin[a], t.epoch>>)])
  BY DEF Reground
<1>5. /\ new \subseteq 1..minted' /\ 1..minted \subseteq 1..minted' /\ minted' \in Nat
  BY <1>2, <1>3, FreshIds DEF RowsOK
<1>6. worker' = Idle \/ (/\ Memory(worker') /\ worker'.list = DOMAIN threats'
                         /\ worker'.pc = "ask")
  <2>1. PICK b : GoOn(b, t, {"SCENARIOS"}, DOMAIN threats', new)
    BY DEF Reground
  <2> QED BY <2>1, GoesOn DEF Memory
<1> HIDE DEF new
<1> DEFINE more == [a \in new |-> Row(g[a], <<origin[a], t.epoch>>)]
<1>7. more \in [new -> ThreatRow]
  <2> SUFFICES ASSUME NEW a \in new PROVE Row(g[a], <<origin[a], t.epoch>>) \in ThreatRow
    OBVIOUS
  <2>1. g[a] \in [type : Types \union {NoType}, band : Bands]
    BY <1>4, GroundingAssumption
  <2>2. origin[a] \in old
    BY <1>4 DEF Bijection, Injection
  <2> QED BY <1>2, <2>1, <2>2 DEF Row, ThreatRow
<1>8. /\ DOMAIN threats' = (DOMAIN threats \ old) \union new
      /\ threats' \in [DOMAIN threats' -> ThreatRow]
  <2>1. /\ DOMAIN Without(threats, old) = DOMAIN threats \ old
        /\ Without(threats, old) \in [DOMAIN threats \ old -> ThreatRow]
    BY WithoutRows DEF RowsOK
  <2>2. DOMAIN more = new
    OBVIOUS
  <2> HIDE DEF more
  <2>3. threats' = With(Without(threats, old), more)
    BY <1>4 DEF more
  <2> QED BY <1>7, <2>1, <2>2, <2>3, WithRows
<1>9. /\ DOMAIN scoped' = DOMAIN scoped \ Lineage(old)
      /\ scoped' \in [DOMAIN scoped' -> BOOLEAN]
  BY <1>3, WithoutRows DEF RowsOK
<1>10. worker'.list \subseteq DOMAIN threats' /\ Memory(worker')
       /\ (worker'.pc = "idle" => worker' = Idle)
  BY <1>6, IdleRemembers
<1>11. DOMAIN threats' \subseteq 1..minted'
  BY <1>5, <1>8 DEF RowsOK
<1>12. DOMAIN scoped' \subseteq (1..minted') \X (1..minted')
  BY <1>5, <1>9 DEF RowsOK
<1> QED BY <1>3, <1>5, <1>8, <1>9, <1>10, <1>11, <1>12 DEF RowsOK

LEMMA FindRows == ASSUME IInv, RowsOK, FindThreats PROVE RowsOK'
<1> PICK n \in 0..MaxProposals : \E g \in [NewIds(n) -> Groundings] :
        /\ threats' = With(Without(threats, InScope(requests[worker.task.epoch])),
                           [a \in NewIds(n) |-> Row(g[a], NoOrigin)])
        /\ minted' = minted + n
        /\ Finish("THREATS", NewIds(n), NewIds(n))
  BY DEF FindThreats
<1>1. PICK g \in [NewIds(n) -> Groundings] :
        /\ threats' = With(Without(threats, InScope(requests[worker.task.epoch])),
                           [a \in NewIds(n) |-> Row(g[a], NoOrigin)])
        /\ minted' = minted + n
        /\ Finish("THREATS", NewIds(n), NewIds(n))
  OBVIOUS
<1> DEFINE gone == InScope(requests[worker.task.epoch])
           new == NewIds(n)
           more == [a \in new |-> Row(g[a], NoOrigin)]
<1>2. UNCHANGED <<cutoff, profile, scoped, outputs, requests, mishaps>>
  BY DEF FindThreats
<1>3. n \in Nat
  BY LimitsAssumption
<1>4. new \subseteq 1..minted' /\ 1..minted \subseteq 1..minted' /\ minted' \in Nat
  BY <1>1, <1>3, FreshIds DEF RowsOK
<1>5. /\ Memory(worker') /\ (worker'.pc = "idle" => worker' = Idle)
      /\ worker'.list \subseteq new
  BY <1>1, FinishGoesOn, IdleRemembers DEF RowsOK
<1> HIDE DEF new
<1>6. more \in [new -> ThreatRow]
  <2> SUFFICES ASSUME NEW a \in new PROVE Row(g[a], NoOrigin) \in ThreatRow
    OBVIOUS
  <2>1. g[a] \in [type : Types \union {NoType}, band : Bands]
    BY GroundingAssumption DEF new
  <2> QED BY <2>1 DEF Row, ThreatRow, NoOrigin
<1> HIDE DEF gone
<1>7. /\ DOMAIN threats' = (DOMAIN threats \ gone) \union new
      /\ threats' \in [DOMAIN threats' -> ThreatRow]
  <2>1. /\ DOMAIN Without(threats, gone) = DOMAIN threats \ gone
        /\ Without(threats, gone) \in [DOMAIN threats \ gone -> ThreatRow]
    BY WithoutRows DEF RowsOK
  <2>2. DOMAIN more = new
    OBVIOUS
  <2>3. threats' = With(Without(threats, gone), more)
    BY <1>1 DEF new, gone
  <2> HIDE DEF more
  <2> QED BY <1>6, <2>1, <2>2, <2>3, WithRows
<1>8. DOMAIN threats' \subseteq 1..minted' /\ worker'.list \subseteq DOMAIN threats'
  BY <1>4, <1>5, <1>7 DEF RowsOK
<1>9. scoped' \in [DOMAIN scoped' -> BOOLEAN] /\ DOMAIN scoped' \subseteq (1..minted') \X (1..minted')
  BY <1>2, <1>4 DEF RowsOK
<1> QED BY <1>2, <1>4, <1>5, <1>7, <1>8, <1>9 DEF RowsOK

LEMMA WriteRows == ASSUME RowsOK, WriteScenarios PROVE RowsOK'
<1> DEFINE unscoped == worker.task.kind \in {"pipeline", "profile"}
           list == [a \in worker.list |-> threats[a]]
           chosen == Selection(list, cutoff.threshold, cutoff.topN)
           written == IF unscoped THEN worker.list ELSE worker.list \intersect worker.targets
           retired == IF unscoped THEN DOMAIN scoped ELSE ScoringsOf(worker.targets)
           stamp == minted + 1
           fresh == [s \in {<<stamp, a>> : a \in written} |-> ThreatOf(s) \in chosen]
<1>1. /\ scoped' = With(Without(scoped, retired), fresh) /\ minted' = stamp
      /\ UNCHANGED <<cutoff, profile, threats, requests, mishaps>>
      /\ Finish("SCENARIOS", {}, {})
  BY DEF WriteScenarios
<1>2. /\ Memory(worker') /\ (worker'.pc = "idle" => worker' = Idle)
      /\ worker'.list = {}
  BY <1>1, FinishGoesOn, IdleRemembers DEF RowsOK
<1>3. minted' \in Nat /\ stamp \in 1..minted' /\ 1..minted \subseteq 1..minted'
  BY <1>1 DEF RowsOK
<1>4. fresh \in [DOMAIN fresh -> BOOLEAN]
  OBVIOUS
<1>5. DOMAIN fresh \subseteq (1..minted') \X (1..minted')
  <2>1. written \subseteq 1..minted'
    BY <1>3 DEF RowsOK
  <2> QED BY <1>3, <2>1
<1> HIDE DEF fresh, retired
<1>6. /\ DOMAIN scoped' = (DOMAIN scoped \ retired) \union DOMAIN fresh
      /\ scoped' \in [DOMAIN scoped' -> BOOLEAN]
  <2>1. /\ DOMAIN Without(scoped, retired) = DOMAIN scoped \ retired
        /\ Without(scoped, retired) \in [DOMAIN scoped \ retired -> BOOLEAN]
    BY WithoutRows DEF RowsOK
  <2> QED BY <1>1, <1>4, <2>1, WithRows
<1>7. DOMAIN scoped' \subseteq (1..minted') \X (1..minted')
  BY <1>3, <1>5, <1>6 DEF RowsOK
<1>8. DOMAIN threats' \subseteq 1..minted' /\ threats' \in [DOMAIN threats' -> ThreatRow]
  BY <1>1, <1>3 DEF RowsOK
<1> QED BY <1>1, <1>2, <1>3, <1>6, <1>7, <1>8 DEF RowsOK

\* What went wrong is counted; the rows stay.
LEMMA MishapRows == ASSUME RowsOK, Crash \/ Fail \/ CloseOut PROVE RowsOK'
<1>1. UNCHANGED <<rowVars, cutoff, requests>> /\ (worker' = Idle \/ worker' = worker)
  BY DEF Crash, Fail, CloseOut
<1>2. \E kind \in Kinds : Happen(kind)
  BY DEF Crash, Fail, CloseOut, Kinds
<1>3. mishaps' \in [Kinds -> Nat]
  BY <1>2 DEF Happen, RowsOK, Kinds
<1> QED BY <1>1, <1>3, IdleRemembers, RowsKept DEF RowsOK

\* The threats a request names are among the active ones, which are finitely many.
LEMMA RegenerateRows ==
    ASSUME IInv, RowsOK, NEW kind \in Granularities, Regenerate(kind) PROVE RowsOK'
<1> PICK e : e = NextEpoch(board, Here, kind)
  OBVIOUS
<1>1. PICK T \in Targets(kind) : requests' = With(requests, [x \in {e} |->
                  [kind |-> kind, targets |-> T,
                   about |-> CASE kind = "scenario" -> {ThreatOf(s) : s \in T}
                               [] kind = "threat"   -> T
                               [] OTHER             -> {}]])
  BY DEF Regenerate
<1>2. UNCHANGED <<rowVars, cutoff, worker, mishaps>>
  BY DEF Regenerate
<1>3. kind = "threat" => T \in SUBSET Nat /\ IsFiniteSet(T)
  <2> SUFFICES ASSUME kind = "threat" PROVE T \in SUBSET Nat /\ IsFiniteSet(T)
    OBVIOUS
  <2>1. T \subseteq DOMAIN threats
    BY DEF Targets, kSubset
  <2>2. T \in SUBSET (1..minted) /\ minted \in Nat
    BY <2>1 DEF RowsOK
  <2>3. IsFiniteSet(1..minted)
    BY <2>2, FS_Interval
  <2>4. IsFiniteSet(T)
    BY <2>2, <2>3, FS_Subset
  <2> QED BY <2>2, <2>4
<1>4. \A x \in DOMAIN requests' :
         \/ x \in DOMAIN requests /\ requests'[x] = requests[x]
         \/ requests'[x].kind = kind /\ requests'[x].targets = T
  BY <1>1 DEF With
<1>5. \A x \in DOMAIN requests' : requests'[x].kind = "threat" =>
         requests'[x].targets \in SUBSET Nat /\ IsFiniteSet(requests'[x].targets)
  BY <1>3, <1>4 DEF RowsOK
<1> QED BY <1>2, <1>5 DEF RowsOK, rowVars

LEMMA NextRows == ASSUME IInv, RowsOK, [Next]_vars PROVE RowsOK'
<1>1. CASE UNCHANGED vars
  BY <1>1 DEF vars, rowVars, RowsOK
<1>2. CASE ClaimNext
  <2>1. PICK list : list \subseteq DOMAIN threats
                    /\ GoOn(board, worker.task, Later(worker.stage), list, {})
    BY <1>2 DEF ClaimNext, ReadBack, RowsOK
  <2>2. \/ worker' = Idle
        \/ Memory(worker') /\ worker'.list = list /\ worker'.pc = "ask"
    BY <2>1, GoesOn DEF Memory
  <2>3. UNCHANGED <<rowVars, cutoff, requests>> /\ mishaps' \in [Kinds -> Nat]
    BY <1>2 DEF ClaimNext, RowsOK
  <2> QED BY <2>1, <2>2, <2>3, IdleRemembers, RowsKept
<1>3. CASE WriteProfile
  <2>1. Finish("PROFILE", {}, {}) /\ profile' = TRUE
        /\ UNCHANGED <<cutoff, threats, scoped, minted, requests, mishaps>>
    BY <1>3 DEF WriteProfile
  <2>2. /\ Memory(worker') /\ (worker'.pc = "idle" => worker' = Idle)
        /\ worker'.list = {}
    BY <2>1, FinishGoesOn, IdleRemembers DEF RowsOK
  <2> QED BY <2>1, <2>2 DEF RowsOK
<1>4. ASSUME NEW t \in queue, Deliver(t) PROVE RowsOK'
  BY <1>4, DeliverRows
<1>5. ASSUME NEW kind \in Offered, Regenerate(kind) PROVE RowsOK'
  BY <1>5, RegenerateRows, OfferedAssumption
<1> QED BY <1>1, <1>2, <1>3, <1>4, <1>5, RegroundRows, FindRows, WriteRows, MishapRows DEF Next

\* The rows and the tasks in flight are well typed: a delivery ranks active threats only,
\* a scenario has its scoring record, and no id is given out twice.
THEOREM RowsAreTyped == Spec => []TypeOK
<1>1. IInv /\ RowsOK /\ ScenariosMatchScorings => TypeOK
  <2> SUFFICES ASSUME IInv, RowsOK, ScenariosMatchScorings PROVE TypeOK
    OBVIOUS
  <2>1. \A t \in queue : t \in Task /\ t.epoch \in DOMAIN requests
    BY DEF IInv, RequestsOK, InFlight
  <2>2. worker.task \in Task \union {NoTask}
    BY IdleRemembers DEF IInv, RequestsOK, InFlight, RowsOK
  <2>3. outputs \subseteq DOMAIN scoped
    BY DEF ScenariosMatchScorings
  <2> QED BY <2>1, <2>2, <2>3 DEF TypeOK, RowsOK
<1>2. IInv /\ RowsOK /\ [Next]_vars => RowsOK'
  BY NextRows
<1> QED BY InitIInv, NextIInv, InitRows, <1>1, <1>2, ScenariosAlwaysMatchScorings, PTL DEF Spec

-----------------------------------------------------------------------------
(* Tasks, epochs and the levels that are still to be claimed.              *)

\* The task that an epoch was reserved for.
TaskAt(e) == [kind |-> requests[e].kind,
              ss |-> IF requests[e].kind = "pipeline" THEN 0 ELSE Here, epoch |-> e]

\* A level that its task could claim, and the levels that task t cannot claim.
Open(b, l) == b[Here][l].status \notin Finished /\ b[Here][l].attempts < MaxAttempts
Spent(b, t, S) == \A l \in S : b[Here][l].epoch = t.epoch => ~Open(b, l)

\* A running level is its epoch's task's.
Owned(b) == \A l \in WorkLevels :
    b[Here][l].status = "RUNNING" => b[Here][l].task = TaskAt(b[Here][l].epoch)

\* From b to c no epoch changes and no level opens.
Tends(b, c) ==
    /\ \A l \in WorkLevels : c[Here][l].epoch = b[Here][l].epoch /\ (Open(c, l) => Open(b, l))
    /\ Owned(b) => Owned(c)

\* A level's epoch is that of the last request that was about it, and the tasks in
\* flight are those of the requests, each of them once.
EpochsOK ==
    /\ \A e \in DOMAIN requests :
        requests[e].kind \in TaskKinds /\ (requests[e].kind = "pipeline" <=> e = 1)
    /\ \A l \in WorkLevels :
        /\ Level(l).epoch \in DOMAIN requests
        /\ l \in LevelsOf(requests[Level(l).epoch].kind)
        /\ \A e \in DOMAIN requests : l \in LevelsOf(requests[e].kind) => e <= Level(l).epoch
    /\ Owned(board)
    /\ \A t \in InFlight : t = TaskAt(t.epoch)
    /\ worker.pc # "idle" => worker.task \notin queue

\* A delivery has claimed the stage it asks for and is past the earlier ones.
StagesOK ==
    /\ worker.pc = "ask" =>
        /\ worker.stage \in LevelsOf(worker.task.kind)
        /\ Level(worker.stage).status = "RUNNING"
        /\ Level(worker.stage).epoch = worker.task.epoch
        /\ worker.task.kind # "threat" =>
              Spent(board, worker.task,
                    LevelsOf(worker.task.kind) \ ({worker.stage} \union Later(worker.stage)))
    /\ worker.pc = "next" =>
        worker.stage \in WorkLevels /\ Spent(board, worker.task, WorkLevels \ Later(worker.stage))

\* Claiming level l of b for task t makes c.
Claims(b, t, l, c) ==
    /\ b[Here][l].epoch = t.epoch /\ Open(b, l)
    /\ \A k \in WorkLevels \ {l} : c[Here][k] = b[Here][k]
    /\ c[Here][l].status = "RUNNING" /\ c[Here][l].task = t
    /\ c[Here][l].epoch = t.epoch /\ c[Here][l].attempts = b[Here][l].attempts + 1

\* Ending level l of b makes c.
Ends(b, l, c) ==
    /\ \A k \in WorkLevels \ {l} : c[Here][k] = b[Here][k]
    /\ c[Here][l].status = FinalOf(l) /\ c[Here][l].epoch = b[Here][l].epoch
    /\ c[Here][l].attempts >= b[Here][l].attempts

\* Task t goes on from b with the first of these levels that is open, if one is.
Onward(b, t, levels, list, targets) ==
    \/ board' = b /\ worker' = Idle /\ Spent(b, t, levels)
    \/ \E l \in levels :
        /\ Claims(b, t, l, board')
        /\ worker' = [pc |-> "ask", task |-> t, stage |-> l, list |-> list,
                      targets |-> targets]
        /\ Spent(b, t, levels \ ({l} \union Later(l)))

LEMMA CellTypes ==
    ASSUME NEW b \in Board
    PROVE  \A l \in WorkLevels : /\ b[Here][l].epoch \in Nat \ {0}
                                 /\ b[Here][l].attempts \in 0..MaxAttempts
                                 /\ b[Here][l].status \in Statuses
BY HereIsAll DEF Board, Cell, Levels

\* A task can claim the open levels of its epoch.
LEMMA ClaimableIsOpen ==
    ASSUME NEW b \in Board, Owned(b), NEW t, t = TaskAt(t.epoch), NEW l \in WorkLevels
    PROVE  Claimable(b, Here, l, t) <=> b[Here][l].epoch = t.epoch /\ Open(b, l)
<1>1. b[Here][l].status \in Statuses
  BY CellTypes
<1>2. b[Here][l].status \notin Finished <=>
         \/ b[Here][l].status \in {"IDLE", "ERROR"}
         \/ b[Here][l].status = "RUNNING"
  BY <1>1 DEF Finished, Statuses
<1>3. b[Here][l].status = "RUNNING" /\ b[Here][l].epoch = t.epoch => b[Here][l].task = t
  BY DEF Owned
<1> QED BY <1>2, <1>3 DEF Claimable, Open

LEMMA GoOnward ==
    ASSUME NEW b \in Board, Owned(b), NEW t \in Task, t = TaskAt(t.epoch),
           NEW levels \in SUBSET LevelsOf(t.kind), NEW list, NEW targets,
           GoOn(b, t, levels, list, targets)
    PROVE  Onward(b, t, levels, list, targets)
<1> DEFINE l == FirstClaim(b, t, levels)
<1>1. levels \subseteq WorkLevels
  BY LevelsTyped DEF Task
<1>2. \A k \in levels : Claimable(b, Here, k, t) <=> b[Here][k].epoch = t.epoch /\ Open(b, k)
  BY <1>1, ClaimableIsOpen
<1>3. CASE \E k \in levels : Claimable(b, Here, k, t)
  <2>1. /\ board' = Claim(b, Here, l, t)
        /\ worker' = [pc |-> "ask", task |-> t, stage |-> l, list |-> list,
                      targets |-> targets]
    BY <1>3 DEF GoOn
  <2>2. /\ l \in levels /\ Claimable(b, Here, l, t)
        /\ \A k \in levels \ ({l} \union Later(l)) : ~Claimable(b, Here, k, t)
    BY <1>1, <1>3 DEF FirstClaim, Later, WorkLevels
  <2>3. Spent(b, t, levels \ ({l} \union Later(l)))
    BY <1>2, <2>2 DEF Spent
  <2> HIDE DEF l
  <2>4. l \in WorkLevels /\ WorkLevels \ {l} \subseteq Levels \ {l}
    BY <1>1, <2>2 DEF Levels
  <2>5. /\ \A k \in Levels \ {l} : board'[Here][k] = b[Here][k]
        /\ board'[Here][l].status = "RUNNING" /\ board'[Here][l].task = t
        /\ board'[Here][l].epoch = b[Here][l].epoch
        /\ board'[Here][l].attempts = b[Here][l].attempts + 1
    BY <2>1, <2>4, HereIsAll, ClaimCells
  <2>6. Claims(b, t, l, board')
    BY <1>2, <2>2, <2>4, <2>5 DEF Claims
  <2> QED BY <2>1, <2>2, <2>3, <2>6 DEF Onward
<1>4. CASE ~\E k \in levels : Claimable(b, Here, k, t)
  <2>1. board' = b /\ worker' = Idle
    BY <1>4 DEF GoOn
  <2> QED BY <1>2, <1>4, <2>1 DEF Onward, Spent
<1> QED BY <1>3, <1>4

\* Finishing a stage: it ends, and the task pauses or goes on.
LEMMA FinishOnward ==
    ASSUME BoardOK, Owned(board), Memory(worker), worker.task \in Task,
           worker.task = TaskAt(worker.task.epoch),
           NEW l \in WorkLevels, NEW list, NEW targets, Finish(l, list, targets)
    PROVE  \E done \in Board :
              /\ Ends(board, l, done) /\ Owned(done)
              /\ \/ /\ worker.task.kind = "pipeline" /\ l # "SCENARIOS" /\ board' = done
                    /\ worker' = [pc |-> "next", task |-> worker.task, stage |-> worker.stage,
                                  list |-> list, targets |-> worker.targets]
                 \/ /\ worker.task.kind = "pipeline" => l = "SCENARIOS"
                    /\ Onward(done, worker.task, LevelsOf(worker.task.kind) \intersect Later(l),
                              list, targets)
<1> DEFINE t == worker.task
           done == SetStage(board, Here, l, FinalOf(l))
<1>1. done \in Board
  BY SetStageFacts, HereIsAll DEF BoardOK
<1>2. Ends(board, l, done)
  <2>1. l \in Levels /\ WorkLevels \ {l} \subseteq Levels \ {l}
    BY DEF Levels
  <2>2. /\ \A k \in Levels \ {l} : done[Here][k] = board[Here][k]
        /\ done[Here][l].status = FinalOf(l) /\ done[Here][l].epoch = board[Here][l].epoch
        /\ done[Here][l].attempts = board[Here][l].attempts
    BY HereIsAll, SetStageCells DEF BoardOK
  <2>3. board[Here][l].attempts \in Nat
    BY CellTypes DEF BoardOK
  <2> QED BY <2>1, <2>2, <2>3 DEF Ends
<1>3. Owned(done)
  <2>1. FinalOf(l) # "RUNNING"
    BY DEF FinalOf
  <2> QED BY <1>2, <2>1 DEF Ends, Owned
<1>4. \/ /\ board' = done /\ t.kind = "pipeline" /\ l # "SCENARIOS"
         /\ worker' = [worker EXCEPT !.pc = "next", !.list = list]
      \/ /\ ~(t.kind = "pipeline" /\ l # "SCENARIOS")
         /\ GoOn(done, t, LevelsOf(t.kind) \intersect Later(l), list, targets)
  BY DEF Finish, FinalOf
<1> HIDE DEF done
<1>5. CASE GoOn(done, t, LevelsOf(t.kind) \intersect Later(l), list, targets)
           /\ ~(t.kind = "pipeline" /\ l # "SCENARIOS")
  <2>1. LevelsOf(t.kind) \intersect Later(l) \in SUBSET LevelsOf(t.kind)
    OBVIOUS
  <2>2. Onward(done, t, LevelsOf(t.kind) \intersect Later(l), list, targets)
    BY <1>1, <1>3, <1>5, <2>1, GoOnward
  <2> QED BY <1>1, <1>2, <1>3, <1>5, <2>2
<1>6. CASE board' = done /\ t.kind = "pipeline" /\ l # "SCENARIOS"
           /\ worker' = [worker EXCEPT !.pc = "next", !.list = list]
  <2>1. worker' = [pc |-> "next", task |-> worker.task, stage |-> worker.stage,
                   list |-> list, targets |-> worker.targets]
    BY <1>6 DEF Memory
  <2> QED BY <1>1, <1>2, <1>3, <1>6, <2>1
<1> QED BY <1>4, <1>5, <1>6

\* What these do to a board.
LEMMA EndsTends ==
    ASSUME NEW b \in Board, NEW c, NEW l \in WorkLevels, Ends(b, l, c)
    PROVE  Tends(b, c)
<1>1. FinalOf(l) \in Finished /\ FinalOf(l) # "RUNNING"
  BY DEF FinalOf, Finished
<1> QED BY <1>1 DEF Ends, Tends, Open, Owned

LEMMA OnwardTends ==
    ASSUME NEW b \in Board, NEW t, t = TaskAt(t.epoch), NEW levels \in SUBSET WorkLevels,
           NEW list, NEW targets, Onward(b, t, levels, list, targets)
    PROVE  Tends(b, board') /\ (worker' = Idle \/ (worker'.pc = "ask" /\ worker'.task = t))
<1>1. CASE board' = b /\ worker' = Idle
  BY <1>1 DEF Tends
<1>2. ASSUME NEW l \in levels, Claims(b, t, l, board'),
             worker' = [pc |-> "ask", task |-> t, stage |-> l, list |-> list,
                        targets |-> targets]
      PROVE  Tends(b, board') /\ worker'.pc = "ask" /\ worker'.task = t
  BY <1>2 DEF Claims, Tends, Open, Owned
<1> QED BY <1>1, <1>2 DEF Onward

LEMMA TendsTransitive ==
    ASSUME NEW b, NEW c, NEW d, Tends(b, c), Tends(c, d) PROVE Tends(b, d)
BY DEF Tends

LEMMA FailTends == Tends(board, FailPending(board, {Here})) \/ ~BoardOK
<1> SUFFICES ASSUME BoardOK PROVE Tends(board, FailPending(board, {Here}))
  OBVIOUS
<1> DEFINE c == FailPending(board, {Here})
<1>1. \A l \in WorkLevels :
         \/ c[Here][l] = board[Here][l]
         \/ /\ c[Here][l].status = "ERROR" /\ board[Here][l].status \in Pending
            /\ c[Here][l].epoch = board[Here][l].epoch
            /\ c[Here][l].attempts = board[Here][l].attempts
  BY HereIsAll, FailPendingCells DEF BoardOK
<1> HIDE DEF c
<1>2. \A status \in Pending : status \notin Finished
  BY DEF Pending, Finished
<1>3. Tends(board, c)
  BY <1>1, <1>2 DEF Tends, Open, Owned
<1> QED BY <1>3 DEF c

\* A delivery that goes on is past the levels it did not claim.
LEMMA OnwardStages ==
    ASSUME NEW b \in Board, NEW t \in Task, NEW levels \in SUBSET LevelsOf(t.kind),
           NEW list, NEW targets, Onward(b, t, levels, list, targets),
           t.kind # "threat" => Spent(b, t, LevelsOf(t.kind) \ levels)
    PROVE  /\ StagesOK'
           /\ worker' = Idle /\ t.kind # "threat" => Spent(board', t, LevelsOf(t.kind))
<1>1. levels \subseteq WorkLevels /\ LevelsOf(t.kind) \subseteq WorkLevels
  BY LevelsTyped DEF Task
<1>2. CASE board' = b /\ worker' = Idle /\ Spent(b, t, levels)
  <2>1. worker'.pc = "idle"
    BY <1>2, IdleRemembers
  <2> QED BY <1>2, <2>1 DEF StagesOK, Spent
<1>3. ASSUME NEW l \in levels, Claims(b, t, l, board'),
             worker' = [pc |-> "ask", task |-> t, stage |-> l, list |-> list,
                        targets |-> targets],
             Spent(b, t, levels \ ({l} \union Later(l)))
      PROVE  StagesOK' /\ worker' # Idle
  <2>1. \A k \in WorkLevels \ {l} : board'[Here][k] = b[Here][k]
    BY <1>3 DEF Claims
  <2>2. t.kind # "threat" => Spent(board', t, LevelsOf(t.kind) \ ({l} \union Later(l)))
    <3> SUFFICES ASSUME t.kind # "threat", NEW k \in LevelsOf(t.kind) \ ({l} \union Later(l)),
                        board'[Here][k].epoch = t.epoch
                 PROVE  ~Open(board', k)
      BY DEF Spent
    <3>1. board'[Here][k] = b[Here][k]
      BY <1>1, <2>1
    <3>2. ~Open(b, k)
      BY <1>3, <3>1 DEF Spent
    <3> QED BY <3>1, <3>2 DEF Open
  <2>3. Level(l)'.status = "RUNNING" /\ Level(l)'.epoch = t.epoch
    BY <1>3 DEF Claims, Level
  <2>4. /\ worker'.pc = "ask" /\ worker'.task = t /\ worker'.stage = l
        /\ worker' # Idle
    BY <1>3 DEF Idle
  <2> QED BY <2>2, <2>3, <2>4 DEF StagesOK
<1> QED BY <1>2, <1>3 DEF Onward

\* What a delivery goes on with when it starts.
StartsWith(t, levels, list, targets) ==
    /\ t.kind # "threat" => levels = LevelsOf(t.kind)
    /\ t.kind \in Targeted \union {"pipeline"} => list = DOMAIN threats
    /\ t.kind = "scenario" =>
        /\ requests[t.epoch].targets \subseteq outputs
        /\ targets = {ThreatOf(s) : s \in requests[t.epoch].targets}
    /\ t.kind = "threat" =>
        /\ levels = {"SCENARIOS"} /\ targets = Resumable(t)
        /\ ~(requests[t.epoch].targets \subseteq DOMAIN threats)

\* A target that is gone ends a delivery at once.
Hopeless(t) ==
    \/ t.kind = "scenario" /\ ~(requests[t.epoch].targets \subseteq outputs)
    \/ /\ t.kind = "threat" /\ ~(requests[t.epoch].targets \subseteq DOMAIN threats)
       /\ Resumable(t) = {}

LEMMA InFlightTasks ==
    ASSUME IInv, EpochsOK, NEW t \in InFlight
    PROVE  /\ t \in Task /\ t = TaskAt(t.epoch) /\ t.epoch \in DOMAIN requests
           /\ requests[t.epoch].kind = t.kind /\ LevelsOf(t.kind) \subseteq WorkLevels
           /\ "SCENARIOS" \in LevelsOf(t.kind)
BY LevelsTyped DEF IInv, RequestsOK, EpochsOK, Task

LEMMA DeliverOnward ==
    ASSUME IInv, EpochsOK, NEW t \in queue, Deliver(t)
    PROVE  \/ Dropped /\ Hopeless(t)
           \/ StartThreats(t)
           \/ \E levels \in SUBSET LevelsOf(t.kind) : \E list, targets :
                Onward(board, t, levels, list, targets) /\ StartsWith(t, levels, list, targets)
<1>1. t \in Task /\ t = TaskAt(t.epoch) /\ board \in Board /\ Owned(board)
  BY InFlightTasks DEF IInv, BoardOK, EpochsOK, InFlight
<1>2. ASSUME NEW levels \in SUBSET LevelsOf(t.kind), NEW list, NEW targets,
             GoOn(board, t, levels, list, targets), StartsWith(t, levels, list, targets)
      PROVE  \E lvls \in SUBSET LevelsOf(t.kind) : \E lst, tgts :
                Onward(board, t, lvls, lst, tgts) /\ StartsWith(t, lvls, lst, tgts)
  BY <1>1, <1>2, GoOnward
<1>3. CASE StartPipeline(t)
  <2>1. GoOn(board, t, WorkLevels, DOMAIN threats, {}) /\ LevelsOf(t.kind) = WorkLevels
    BY <1>3 DEF StartPipeline, ReadBack, LevelsOf
  <2>2. StartsWith(t, WorkLevels, DOMAIN threats, {})
    BY <1>3, <2>1 DEF StartPipeline, StartsWith
  <2> QED BY <1>2, <2>1, <2>2
<1>4. CASE StartScenarios(t)
  <2>1. t.kind = "scenario" /\ LevelsOf(t.kind) = {"SCENARIOS"}
    BY <1>4 DEF StartScenarios, LevelsOf
  <2>2. CASE requests[t.epoch].targets \subseteq outputs
    <3> DEFINE targets == {ThreatOf(s) : s \in requests[t.epoch].targets}
    <3>1. GoOn(board, t, {"SCENARIOS"}, DOMAIN threats, targets)
      BY <1>4, <2>2 DEF StartScenarios
    <3>2. StartsWith(t, {"SCENARIOS"}, DOMAIN threats, targets)
      BY <2>1, <2>2 DEF StartsWith
    <3> HIDE DEF targets
    <3> QED BY <1>2, <2>1, <3>1, <3>2
  <2>3. CASE ~(requests[t.epoch].targets \subseteq outputs)
    BY <1>4, <2>1, <2>3 DEF StartScenarios, Hopeless
  <2> QED BY <2>2, <2>3
<1>5. CASE StartBroad(t)
  <2>1. GoOn(board, t, LevelsOf(t.kind), {}, {}) /\ t.kind \in ByType \union {"profile"}
    BY <1>5 DEF StartBroad
  <2>2. StartsWith(t, LevelsOf(t.kind), {}, {})
    BY <2>1 DEF StartsWith, ByType, Targeted
  <2> QED BY <1>2, <2>1, <2>2
<1>6. CASE Resume(t)
  <2>1. t.kind = "threat" /\ LevelsOf(t.kind) = {"THREATS", "SCENARIOS"}
    BY <1>6 DEF Resume, LevelsOf
  <2>2. CASE Resumable(t) # {}
    <3>1. GoOn(board, t, {"SCENARIOS"}, DOMAIN threats, Resumable(t))
      BY <1>6, <2>2 DEF Resume
    <3>2. StartsWith(t, {"SCENARIOS"}, DOMAIN threats, Resumable(t))
      BY <1>6, <2>1, <2>2 DEF StartsWith, Resume
    <3> QED BY <1>2, <2>1, <3>1, <3>2
  <2>3. CASE Resumable(t) = {}
    BY <1>6, <2>1, <2>3 DEF Resume, Hopeless
  <2> QED BY <2>2, <2>3
<1> QED BY <1>3, <1>4, <1>5, <1>6 DEF Deliver

\* Regrounding takes THREATS and ends it before it goes on with SCENARIOS.
LEMMA RegroundOnward ==
    ASSUME IInv, EpochsOK, Reground
    PROVE  \E done \in Board :
              /\ Open(board, "THREATS") /\ Level("THREATS").epoch = worker.task.epoch
              /\ Ends(board, "THREATS", done) /\ Owned(done)
              /\ Onward(done, worker.task, {"SCENARIOS"}, DOMAIN threats',
                        NewIds(Cardinality(requests[worker.task.epoch].targets)))
<1> DEFINE t == worker.task
           claimed == Claim(board, Here, "THREATS", t)
           done == SetStage(claimed, Here, "THREATS", "COMPLETE")
<1>1. /\ t.kind = "threat" /\ Claimable(board, Here, "THREATS", t)
      /\ t \in Task /\ t = TaskAt(t.epoch)
  BY InFlightTasks DEF Reground, IInv, WorkerOK, InFlight
<1>2. board \in Board /\ Sound(board) /\ Owned(board)
  BY DEF IInv, BoardOK, EpochsOK
<1>3. /\ "THREATS" \in WorkLevels /\ "THREATS" \in LevelsOf(t.kind)
      /\ {"SCENARIOS"} \in SUBSET LevelsOf(t.kind) /\ FinalOf("THREATS") = "COMPLETE"
      /\ WorkLevels \ {"THREATS"} \subseteq Levels \ {"THREATS"}
  BY <1>1 DEF LevelsOf, WorkLevels, FinalOf, Levels
<1>4. Open(board, "THREATS") /\ Level("THREATS").epoch = t.epoch
  BY <1>1, <1>2, <1>3, ClaimableIsOpen DEF Level
<1>5. claimed \in Board /\ Sound(claimed)
  BY <1>1, <1>2, <1>3, HereIsAll, ClaimFacts
<1>6. /\ \A k \in Levels \ {"THREATS"} : claimed[Here][k] = board[Here][k]
      /\ claimed[Here]["THREATS"].epoch = board[Here]["THREATS"].epoch
      /\ claimed[Here]["THREATS"].attempts = board[Here]["THREATS"].attempts + 1
  BY <1>2, <1>3, HereIsAll, ClaimCells
<1> HIDE DEF claimed
<1>7. done \in Board
  BY <1>3, <1>5, HereIsAll, SetStageFacts
<1>8. /\ \A k \in Levels \ {"THREATS"} : done[Here][k] = claimed[Here][k]
      /\ done[Here]["THREATS"].status = "COMPLETE"
      /\ done[Here]["THREATS"].epoch = claimed[Here]["THREATS"].epoch
      /\ done[Here]["THREATS"].attempts = claimed[Here]["THREATS"].attempts
  BY <1>3, <1>5, HereIsAll, SetStageCells
<1>9. GoOn(done, t, {"SCENARIOS"}, DOMAIN threats',
           NewIds(Cardinality(requests[t.epoch].targets)))
  BY DEF Reground, claimed
<1> HIDE DEF done
<1>10. Ends(board, "THREATS", done)
  <2>1. board[Here]["THREATS"].attempts \in Nat
    BY <1>2, <1>3, CellTypes
  <2> QED BY <1>3, <1>6, <1>8, <2>1 DEF Ends
<1>11. Owned(done)
  BY <1>2, <1>3, <1>8, <1>10 DEF Owned, Ends
<1> QED BY <1>1, <1>3, <1>4, <1>7, <1>9, <1>10, <1>11, GoOnward

\* A stage that is written ends.
Writes == WriteProfile \/ FindThreats \/ WriteScenarios

LEMMA WriteOnward ==
    ASSUME IInv, RowsOK, EpochsOK, NEW list, NEW targets,
           worker.pc = "ask", worker.stage \in WorkLevels, Finish(worker.stage, list, targets)
    PROVE  \E done \in Board :
              /\ Ends(board, worker.stage, done) /\ Owned(done)
              /\ \/ /\ worker.task.kind = "pipeline" /\ worker.stage # "SCENARIOS"
                    /\ board' = done
                    /\ worker' = [pc |-> "next", task |-> worker.task, stage |-> worker.stage,
                                  list |-> list, targets |-> worker.targets]
                 \/ /\ worker.task.kind = "pipeline" => worker.stage = "SCENARIOS"
                    /\ Onward(done, worker.task,
                              LevelsOf(worker.task.kind) \intersect Later(worker.stage),
                              list, targets)
<1>1. worker.task \in Task /\ worker.task = TaskAt(worker.task.epoch)
  BY InFlightTasks DEF InFlight
<1> QED BY <1>1, FinishOnward DEF IInv, EpochsOK, RowsOK

LEMMA WritesFinish ==
    ASSUME Writes
    PROVE  /\ worker.pc = "ask" /\ worker.stage \in WorkLevels
           /\ \E list, targets : Finish(worker.stage, list, targets)
           /\ UNCHANGED <<cutoff, requests, queue, mishaps>>
<1>1. CASE WriteProfile
  BY <1>1 DEF WriteProfile, WorkLevels
<1>2. CASE FindThreats
  BY <1>2 DEF FindThreats, WorkLevels
<1>3. CASE WriteScenarios
  BY <1>3 DEF WriteScenarios, WorkLevels
<1> QED BY <1>1, <1>2, <1>3 DEF Writes

\* Every step but a request's: no epoch changes, no level opens, no task comes up.
Ordinary ==
    \/ \E t \in queue : Deliver(t)
    \/ Reground \/ ClaimNext \/ Writes \/ Crash \/ Fail \/ CloseOut

LEMMA OrdinaryStep ==
    ASSUME IInv, RowsOK, EpochsOK, StagesOK, Ordinary
    PROVE  /\ Tends(board, board') /\ StagesOK'
           /\ requests' = requests /\ InFlight' \subseteq InFlight
           /\ worker'.pc # "idle" => worker'.task \notin queue'
<1> DEFINE Goal == /\ Tends(board, board') /\ StagesOK'
                   /\ requests' = requests /\ InFlight' \subseteq InFlight
                   /\ worker'.pc # "idle" => worker'.task \notin queue'
<1>1. Tends(board, board) /\ board \in Board /\ Owned(board)
  BY DEF Tends, IInv, BoardOK, EpochsOK
<1>2. ASSUME NEW t \in queue, Deliver(t) PROVE Goal
  <2>1. t \in InFlight /\ t \in Task /\ t = TaskAt(t.epoch) /\ LevelsOf(t.kind) \subseteq WorkLevels
    BY InFlightTasks DEF InFlight
  <2>2. queue' = queue \ {t} /\ requests' = requests /\ worker.pc = "idle"
    BY <1>2 DEF Deliver, TakenFrom
  <2>3. ASSUME Tends(board, board'), StagesOK', worker' = Idle \/ worker'.task = t
        PROVE  Goal
    BY <2>2, <2>3, IdleRemembers, Delivered
  <2>4. CASE Dropped
    <3>1. board' = board /\ worker' = worker
      BY <2>4 DEF Dropped
    <3>2. worker' = Idle /\ StagesOK'
      BY <2>2, <3>1 DEF RowsOK, StagesOK
    <3> QED BY <1>1, <2>3, <3>1, <3>2
  <2>5. CASE StartThreats(t)
    <3>1. board' = board /\ (worker' = Idle \/ (worker'.task = t /\ worker'.pc = "ground"))
      BY <2>5 DEF StartThreats, Idle
    <3>2. StagesOK'
      BY <3>1, IdleRemembers DEF StagesOK
    <3> QED BY <1>1, <2>3, <3>1, <3>2
  <2>6. ASSUME NEW levels \in SUBSET LevelsOf(t.kind), NEW list, NEW targets,
               Onward(board, t, levels, list, targets), StartsWith(t, levels, list, targets)
        PROVE  Goal
    <3>1. Tends(board, board') /\ (worker' = Idle \/ (worker'.pc = "ask" /\ worker'.task = t))
      <4>1. levels \in SUBSET WorkLevels
        BY <2>1
      <4> QED BY <1>1, <2>1, <2>6, <4>1, OnwardTends
    <3>2. t.kind # "threat" => Spent(board, t, LevelsOf(t.kind) \ levels)
      BY <2>6 DEF StartsWith, Spent
    <3>3. StagesOK'
      BY <1>1, <2>1, <2>6, <3>2, OnwardStages
    <3> QED BY <2>3, <3>1, <3>3
  <2> QED BY <1>2, <2>4, <2>5, <2>6, DeliverOnward
<1>3. ASSUME Reground \/ ClaimNext \/ Writes, Tends(board, board'), StagesOK',
             worker' = Idle \/ worker'.task = worker.task
      PROVE  Goal
  <2>1. worker.pc # "idle" /\ queue' = queue /\ requests' = requests
    BY <1>3, WritesFinish DEF Reground, ClaimNext
  <2>2. worker.task \notin queue
    BY <2>1 DEF EpochsOK
  <2> QED BY <1>3, <2>1, <2>2, IdleRemembers, Continued
<1>4. CASE Reground
  <2> DEFINE t == worker.task
  <2>1. t \in Task /\ t = TaskAt(t.epoch) /\ t.kind = "threat"
    BY <1>4, InFlightTasks DEF Reground, IInv, WorkerOK, InFlight
  <2>2. PICK done \in Board :
          /\ Ends(board, "THREATS", done)
          /\ Onward(done, t, {"SCENARIOS"}, DOMAIN threats',
                    NewIds(Cardinality(requests[t.epoch].targets)))
    BY <1>4, RegroundOnward
  <2>3. {"SCENARIOS"} \in SUBSET WorkLevels /\ {"SCENARIOS"} \in SUBSET LevelsOf(t.kind)
        /\ "THREATS" \in WorkLevels
    BY <2>1 DEF WorkLevels, LevelsOf
  <2>4. Tends(done, board') /\ (worker' = Idle \/ worker'.task = t)
    BY <2>1, <2>2, <2>3, OnwardTends
  <2>5. Tends(board, board')
    BY <1>1, <2>2, <2>3, <2>4, EndsTends, TendsTransitive
  <2>6. StagesOK'
    BY <2>1, <2>2, <2>3, OnwardStages
  <2> QED BY <1>3, <1>4, <2>4, <2>5, <2>6
<1>5. CASE ClaimNext
  <2> DEFINE t == worker.task
  <2>1. t \in Task /\ t = TaskAt(t.epoch) /\ t.kind = "pipeline" /\ LevelsOf(t.kind) = WorkLevels
    BY <1>5, InFlightTasks DEF ClaimNext, IInv, WorkerOK, InFlight, LevelsOf
  <2>2. PICK list : GoOn(board, t, Later(worker.stage), list, {})
    BY <1>5 DEF ClaimNext
  <2>3. Later(worker.stage) \in SUBSET LevelsOf(t.kind)
    BY <2>1 DEF Later, WorkLevels
  <2>4. Onward(board, t, Later(worker.stage), list, {})
    BY <1>1, <2>1, <2>2, <2>3, GoOnward
  <2>5. Tends(board, board') /\ (worker' = Idle \/ worker'.task = t)
    <3>1. Later(worker.stage) \in SUBSET WorkLevels
      BY <2>1, <2>3
    <3> QED BY <1>1, <2>1, <2>4, <3>1, OnwardTends
  <2>6. Spent(board, t, LevelsOf(t.kind) \ Later(worker.stage))
    BY <1>5, <2>1 DEF ClaimNext, StagesOK
  <2>7. StagesOK'
    BY <1>1, <2>1, <2>3, <2>4, <2>6, OnwardStages
  <2> QED BY <1>3, <1>5, <2>5, <2>7
<1>6. CASE Writes
  <2> DEFINE t == worker.task
             l == worker.stage
             rest == LevelsOf(t.kind) \intersect Later(l)
  <2>1. t \in Task /\ t = TaskAt(t.epoch) /\ worker.pc = "ask" /\ l \in WorkLevels
        /\ LevelsOf(t.kind) \subseteq WorkLevels
    BY <1>6, WritesFinish, InFlightTasks DEF InFlight
  <2>2. PICK list, targets : Finish(l, list, targets)
    BY <1>6, WritesFinish
  <2>3. PICK done \in Board :
          /\ Ends(board, l, done)
          /\ \/ /\ t.kind = "pipeline" /\ l # "SCENARIOS" /\ board' = done
                /\ worker' = [pc |-> "next", task |-> t, stage |-> l,
                              list |-> list, targets |-> worker.targets]
             \/ Onward(done, t, rest, list, targets)
    BY <2>1, <2>2, WriteOnward
  <2>4. Tends(board, done)
    BY <1>1, <2>1, <2>3, EndsTends
  <2>5. t.kind # "threat" => Spent(done, t, LevelsOf(t.kind) \ Later(l))
    <3> SUFFICES ASSUME t.kind # "threat", NEW k \in LevelsOf(t.kind) \ Later(l),
                        done[Here][k].epoch = t.epoch
                 PROVE  ~Open(done, k)
      BY DEF Spent
    <3>1. CASE k = l
      <4>1. FinalOf(l) \in Finished
        BY DEF FinalOf, Finished
      <4> QED BY <2>1, <2>3, <3>1, <4>1 DEF Ends, Open
    <3>2. CASE k # l
      <4>1. board[Here][k].epoch = t.epoch /\ (Open(done, k) => Open(board, k))
        BY <2>1, <2>4 DEF Tends
      <4>2. ~Open(board, k)
        BY <2>1, <3>2, <4>1 DEF StagesOK, Spent
      <4> QED BY <4>1, <4>2
    <3> QED BY <3>1, <3>2
  <2>6. CASE /\ t.kind = "pipeline" /\ board' = done
             /\ worker' = [pc |-> "next", task |-> t, stage |-> l,
                           list |-> list, targets |-> worker.targets]
    <3>1. worker'.pc = "next" /\ worker'.task = t /\ worker'.stage = l
      BY <2>6
    <3>2. LevelsOf(t.kind) = WorkLevels
      BY <2>6 DEF LevelsOf
    <3>3. StagesOK'
      BY <2>1, <2>5, <2>6, <3>1, <3>2 DEF StagesOK
    <3> QED BY <1>3, <1>6, <2>4, <2>6, <3>1, <3>3
  <2>7. CASE Onward(done, t, rest, list, targets)
    <3>1. rest \in SUBSET WorkLevels /\ rest \in SUBSET LevelsOf(t.kind)
          /\ LevelsOf(t.kind) \ rest = LevelsOf(t.kind) \ Later(l)
      BY <2>1
    <3> HIDE DEF rest
    <3>2. Tends(done, board') /\ (worker' = Idle \/ worker'.task = t)
      BY <2>1, <2>7, <3>1, OnwardTends
    <3>3. StagesOK'
      BY <2>1, <2>5, <2>7, <3>1, OnwardStages
    <3> QED BY <1>3, <1>6, <2>4, <3>2, <3>3, TendsTransitive
  <2> QED BY <2>3, <2>6, <2>7
<1>7. CASE Crash \/ Fail \/ CloseOut
  <2>1. board' = board \/ board' = FailPending(board, {Here})
    BY <1>7 DEF Crash, Fail, CloseOut
  <2>2. Tends(board, board')
    BY <1>1, <2>1, FailTends DEF IInv
  <2>3. worker' = Idle /\ requests' = requests
    BY <1>7 DEF Crash, Fail, CloseOut, RowsOK
  <2>4. queue' = queue \/ (worker.pc # "idle" /\ queue' = queue \union {worker.task})
    BY <1>7 DEF Crash, Fail, CloseOut
  <2>5. InFlight' \subseteq InFlight /\ worker'.pc = "idle"
    BY <2>3, <2>4, IdleRemembers DEF InFlight
  <2>6. StagesOK'
    BY <2>5 DEF StagesOK
  <2> QED BY <2>2, <2>3, <2>5, <2>6
<1> QED BY <1>2, <1>4, <1>5, <1>6, <1>7 DEF Ordinary

LEMMA NextIsOrdinary ==
    ASSUME [Next]_vars
    PROVE  Ordinary \/ (\E kind \in Granularities : Regenerate(kind)) \/ UNCHANGED vars
BY OfferedAssumption DEF Next, Ordinary, Writes

\* What a request does: its levels are reset to a new epoch, and its task is sent.
LEMMA Requested ==
    ASSUME IInv, EpochsOK, NEW kind \in Granularities, Regenerate(kind),
           NEW e, e = Level("SCENARIOS").epoch + 1
    PROVE  /\ e \in Nat /\ e \notin DOMAIN requests /\ e # 1
           /\ \A x \in DOMAIN requests : x < e
           /\ DOMAIN requests' = DOMAIN requests \union {e}
           /\ \A x \in DOMAIN requests : requests'[x] = requests[x] /\ TaskAt(x)' = TaskAt(x)
           /\ requests'[e].kind = kind /\ requests'[e].targets \in Targets(kind)
           /\ queue' = queue \union {TaskAt(e)'} /\ worker' = worker /\ worker.pc = "idle"
           /\ TaskAt(e)'.kind = kind /\ TaskAt(e)'.epoch = e
           /\ \A l \in WorkLevels :
                IF l \in LevelsOf(kind)
                THEN Level(l)'.status = "IDLE" /\ Level(l)'.epoch = e /\ Level(l)'.attempts = 0
                ELSE Level(l)' = Level(l)
           /\ Resting /\ UNCHANGED <<cutoff, rowVars, mishaps>>
<1> DEFINE t == [kind |-> kind, ss |-> Here, epoch |-> e]
<1>1. kind \in TaskKinds /\ kind # "pipeline"
  BY DEF TaskKinds, Granularities
<1>2. e = NextEpoch(board, Here, kind)
  BY <1>1, HereIsAll, ResetFacts DEF IInv, BoardOK, Level
<1>3. Level("SCENARIOS").epoch \in Nat \ {0}
  BY CellTypes DEF Level, IInv, BoardOK, WorkLevels
<1>4. e \notin DOMAIN requests /\ e # 1 /\ e \in Nat /\ \A x \in DOMAIN requests : x < e
  <2>1. \A x \in DOMAIN requests : x \in Nat /\ x <= Level("SCENARIOS").epoch
    BY DEF IInv, RequestsOK
  <2> QED BY <1>3, <2>1
<1>5. PICK T \in Targets(kind) : requests' = With(requests, [x \in {e} |->
                  [kind |-> kind, targets |-> T,
                   about |-> CASE kind = "scenario" -> {ThreatOf(s) : s \in T}
                               [] kind = "threat"   -> T
                               [] OTHER             -> {}]])
  BY <1>2 DEF Regenerate
<1>6. /\ board' = ResetForRegen(board, Here, kind, e) /\ queue' = queue \union {t}
      /\ worker' = worker /\ worker.pc = "idle" /\ Resting
      /\ UNCHANGED <<cutoff, rowVars, mishaps>>
  BY <1>2 DEF Regenerate
<1>7. DOMAIN requests' = DOMAIN requests \union {e}
  BY <1>5 DEF With
<1>8. \A x \in DOMAIN requests : requests'[x] = requests[x]
  BY <1>4, <1>5 DEF With
<1>9. requests'[e].kind = kind /\ requests'[e].targets = T
  BY <1>5 DEF With
<1>10. TaskAt(e)' = t /\ \A x \in DOMAIN requests : TaskAt(x)' = TaskAt(x)
  BY <1>1, <1>8, <1>9 DEF TaskAt
<1>11. \A l \in WorkLevels :
          IF l \in LevelsOf(kind)
          THEN Level(l)'.status = "IDLE" /\ Level(l)'.epoch = e /\ Level(l)'.attempts = 0
          ELSE Level(l)' = Level(l)
  BY <1>1, <1>6, HereIsAll, ResetCells DEF Level, IInv, BoardOK
<1>12. TaskAt(e)'.kind = kind /\ TaskAt(e)'.epoch = e
  BY <1>10
<1>13. queue' = queue \union {TaskAt(e)'}
  BY <1>6, <1>10
<1> HIDE DEF t
<1> QED BY <1>4, <1>5, <1>6, <1>7, <1>8, <1>9, <1>10, <1>11, <1>12, <1>13

LEMMA InitEpochs == Init => EpochsOK /\ StagesOK
<1> SUFFICES ASSUME Init PROVE EpochsOK /\ StagesOK
  OBVIOUS
<1>1. DOMAIN requests = {1} /\ requests[1].kind = "pipeline" /\ worker = Idle
  BY DEF Init
<1>2. \A l \in WorkLevels : Level(l) = SeededCell
  BY HereIsAll DEF Init, Level, SeededBoard, Levels
<1>3. \A l \in WorkLevels : Level(l).epoch = 1 /\ Level(l).status = "IDLE"
  BY <1>2 DEF SeededCell
<1>4. LevelsOf("pipeline") = WorkLevels /\ "pipeline" \in TaskKinds
  BY DEF LevelsOf, TaskKinds
<1>5. InFlight = {PipelineTask} /\ PipelineTask = TaskAt(1) /\ PipelineTask.epoch = 1
  BY <1>1 DEF Init, InFlight, Idle, PipelineTask, TaskAt
<1>6. Owned(board)
  BY <1>3 DEF Owned, Level
<1> QED BY <1>1, <1>3, <1>4, <1>5, <1>6, IdleRemembers DEF EpochsOK, StagesOK

LEMMA NextEpochs ==
    ASSUME IInv, RowsOK, EpochsOK, StagesOK, [Next]_vars
    PROVE  EpochsOK' /\ StagesOK'
<1>1. CASE UNCHANGED vars
  BY <1>1 DEF vars, EpochsOK, StagesOK, InFlight, Level, Owned, TaskAt, Spent, Open
<1>2. CASE Ordinary
  <2>1. /\ Tends(board, board') /\ StagesOK'
        /\ requests' = requests /\ InFlight' \subseteq InFlight
        /\ worker'.pc # "idle" => worker'.task \notin queue'
    BY <1>2, OrdinaryStep
  <2>2. \A e : TaskAt(e)' = TaskAt(e)
    BY <2>1 DEF TaskAt
  <2>3. Owned(board)'
    <3>1. Owned(board')
      BY <2>1 DEF Tends, EpochsOK
    <3> QED BY <2>2, <3>1 DEF Owned
  <2>4. \A l \in WorkLevels : Level(l)'.epoch = Level(l).epoch
    BY <2>1 DEF Tends, Level
  <2> QED BY <2>1, <2>2, <2>3, <2>4 DEF EpochsOK
<1>3. ASSUME NEW kind \in Granularities, Regenerate(kind) PROVE EpochsOK' /\ StagesOK'
  <2> DEFINE E == Level("SCENARIOS").epoch + 1
  <2> PICK e : e = E
    OBVIOUS
  <2>1. /\ e \in Nat /\ e \notin DOMAIN requests /\ e # 1
        /\ \A x \in DOMAIN requests : x < e
        /\ DOMAIN requests' = DOMAIN requests \union {e}
        /\ \A x \in DOMAIN requests : requests'[x] = requests[x] /\ TaskAt(x)' = TaskAt(x)
        /\ requests'[e].kind = kind
        /\ queue' = queue \union {TaskAt(e)'} /\ worker' = worker /\ worker.pc = "idle"
        /\ TaskAt(e)'.epoch = e
        /\ \A l \in WorkLevels :
             IF l \in LevelsOf(kind)
             THEN Level(l)'.status = "IDLE" /\ Level(l)'.epoch = e
             ELSE Level(l)' = Level(l)
    BY <1>3, Requested
  <2>2. \A x \in DOMAIN requests : x \in Nat
    BY DEF IInv, RequestsOK
  <2>3. \A x \in DOMAIN requests' :
           requests'[x].kind \in TaskKinds /\ (requests'[x].kind = "pipeline" <=> x = 1)
    <3>1. kind \in TaskKinds /\ kind # "pipeline"
      BY DEF TaskKinds, Granularities
    <3> QED BY <2>1, <3>1 DEF EpochsOK
  <2>4. ASSUME NEW l \in WorkLevels
        PROVE  /\ Level(l)'.epoch \in DOMAIN requests'
               /\ l \in LevelsOf(requests'[Level(l)'.epoch].kind)
               /\ \A x \in DOMAIN requests' :
                    l \in LevelsOf(requests'[x].kind) => x <= Level(l)'.epoch
               /\ Level(l)'.status = "RUNNING" => Level(l)'.task = TaskAt(Level(l).epoch)'
    <3>1. CASE l \in LevelsOf(kind)
      <4>1. Level(l)'.status = "IDLE" /\ Level(l)'.epoch = e
        BY <2>1, <3>1
      <4>2. \A x \in DOMAIN requests' : x <= e
        BY <2>1, <2>2
      <4> QED BY <2>1, <3>1, <4>1, <4>2
    <3>2. CASE l \notin LevelsOf(kind)
      <4>1. Level(l)' = Level(l) /\ Level(l).epoch \in DOMAIN requests
            /\ l \in LevelsOf(requests[Level(l).epoch].kind)
            /\ \A x \in DOMAIN requests : l \in LevelsOf(requests[x].kind) => x <= Level(l).epoch
        BY <2>1, <3>2 DEF EpochsOK
      <4>2. Level(l).status = "RUNNING" => Level(l).task = TaskAt(Level(l).epoch)
        BY DEF EpochsOK, Owned, Level
      <4>3. TaskAt(Level(l).epoch)' = TaskAt(Level(l).epoch)
        <5> PICK x \in DOMAIN requests : x = Level(l).epoch
          BY <4>1
        <5>1. x' = Level(l)'.epoch
          BY <4>1
        <5> QED BY <2>1, <4>1, <5>1 DEF TaskAt
      <4> QED BY <2>1, <3>2, <4>1, <4>2, <4>3
    <3> QED BY <3>1, <3>2
  <2>5. Owned(board)'
    BY <2>4 DEF Owned, Level
  <2>6. \A t \in InFlight' : t = TaskAt(t.epoch)'
    <3>1. InFlight' = InFlight \union {TaskAt(e)'}
      BY <2>1 DEF InFlight
    <3>2. \A t \in InFlight : t.epoch \in DOMAIN requests /\ t = TaskAt(t.epoch)
      BY DEF IInv, RequestsOK, EpochsOK
    <3> QED BY <2>1, <3>1, <3>2
  <2>7. EpochsOK'
    BY <2>1, <2>3, <2>4, <2>5, <2>6 DEF EpochsOK
  <2>8. StagesOK'
    BY <2>1 DEF StagesOK
  <2> QED BY <2>7, <2>8
<1> QED BY <1>1, <1>2, <1>3, NextIsOrdinary

-----------------------------------------------------------------------------
(* The first run.                                                          *)

\* Once the scenarios of the first run are written no task of the first run finds threats
\* again, and until then nothing but its own list of threats can reach write_scenarios.
FirstRunOK ==
    /\ Level("THREATS").epoch = 1 /\ Open(board, "THREATS") =>
        Level("SCENARIOS").status \notin Finished /\ outputs = {}
    /\ worker.pc = "ask" /\ worker.stage = "THREATS" /\ worker.task.kind = "pipeline" =>
        Level("SCENARIOS").status \notin Finished /\ outputs = {}
    /\ worker.pc = "next" => worker.list \in {{}, DOMAIN threats}
    /\ worker.pc = "ask" /\ worker.stage = "SCENARIOS" =>
        /\ worker.task.kind = "pipeline" => worker.list = DOMAIN threats
        /\ worker.task.kind = "scenario" => outputs # {}
    /\ \A e \in DOMAIN requests : requests[e].kind \in Targeted => requests[e].targets # {}
    /\ Level("SCENARIOS").epoch = 1 /\ Level("SCENARIOS").status \in Finished =>
        /\ Unscored = {}
        /\ {ThreatOf(s) : s \in outputs} = Selection(threats, cutoff.threshold, cutoff.topN)

\* Task t asks the LLM for the stage it claimed.
Asks(b, t, levels, list, targets) ==
    /\ worker'.pc = "ask" /\ worker'.task = t /\ worker'.stage \in levels
    /\ worker'.list = list /\ worker'.targets = targets
    /\ Open(b, worker'.stage) /\ b[Here][worker'.stage].epoch = t.epoch

\* Going on finishes nothing.
LEMMA OnwardCells ==
    ASSUME NEW b, NEW t, NEW levels \in SUBSET WorkLevels, NEW list, NEW targets,
           Onward(b, t, levels, list, targets)
    PROVE  /\ \A l \in WorkLevels \ levels : board'[Here][l] = b[Here][l]
           /\ \A l \in levels :
                \/ board'[Here][l] = b[Here][l]
                \/ board'[Here][l].status = "RUNNING"
           /\ worker' = Idle \/ Asks(b, t, levels, list, targets)
<1>1. CASE board' = b /\ worker' = Idle
  BY <1>1
<1>2. ASSUME NEW l \in levels, Claims(b, t, l, board'),
             worker' = [pc |-> "ask", task |-> t, stage |-> l, list |-> list,
                        targets |-> targets]
      PROVE  /\ \A k \in WorkLevels \ levels : board'[Here][k] = b[Here][k]
             /\ \A k \in levels :
                  \/ board'[Here][k] = b[Here][k]
                  \/ board'[Here][k].status = "RUNNING"
             /\ Asks(b, t, levels, list, targets)
  <2>1. worker'.stage = l
    BY <1>2
  <2> QED BY <1>2, <2>1 DEF Claims, Asks
<1> QED BY <1>1, <1>2 DEF Onward

\* From b to c the scenarios are not finished.
LEMMA NoneFinished ==
    ASSUME NEW b, NEW t, NEW levels \in SUBSET WorkLevels, NEW list, NEW targets,
           Onward(b, t, levels, list, targets), board'[Here]["SCENARIOS"].status \in Finished
    PROVE  board'[Here]["SCENARIOS"] = b[Here]["SCENARIOS"]
<1>1. \A l \in WorkLevels : board'[Here][l] = b[Here][l] \/ board'[Here][l].status = "RUNNING"
  BY OnwardCells
<1> QED BY <1>1 DEF Finished, WorkLevels

\* What is selected depends on the threats and the cutoff alone.
LEMMA SelectionKept ==
    ASSUME UNCHANGED <<threats, cutoff>>
    PROVE  Selection(threats, cutoff.threshold, cutoff.topN)'
             = Selection(threats, cutoff.threshold, cutoff.topN)
OBVIOUS

\* A task that has an epoch other than the first is not the pipeline's, and the THREATS
\* of its epoch are not those of the first run.
LEMMA LaterEpochs ==
    ASSUME IInv, EpochsOK, NEW t \in InFlight
    PROVE  /\ t.kind = "pipeline" <=> t.epoch = 1
           /\ "THREATS" \in LevelsOf(t.kind) => t.epoch <= Level("THREATS").epoch
           /\ t.epoch <= Level("SCENARIOS").epoch /\ t.epoch \in Nat \ {0}
           /\ Level("THREATS").epoch <= Level("SCENARIOS").epoch
           /\ Level("THREATS").epoch \in Nat \ {0} /\ Level("SCENARIOS").epoch \in Nat \ {0}
<1>1. t \in Task /\ t.epoch \in DOMAIN requests /\ requests[t.epoch].kind = t.kind
  BY InFlightTasks
<1>2. {"THREATS", "SCENARIOS"} \subseteq WorkLevels
  BY DEF WorkLevels
<1>3. /\ Level("THREATS").epoch <= Level("SCENARIOS").epoch
      /\ Level("THREATS").epoch \in Nat \ {0} /\ Level("SCENARIOS").epoch \in Nat \ {0}
  BY <1>2, HereIsAll, CellTypes DEF IInv, BoardOK, Ordered, Level
<1>4. "SCENARIOS" \in LevelsOf(t.kind)
  BY InFlightTasks
<1> QED BY <1>1, <1>2, <1>3, <1>4 DEF EpochsOK, Task

LEMMA InitFirst == Init => FirstRunOK
<1> SUFFICES ASSUME Init PROVE FirstRunOK
  OBVIOUS
<1>1. worker.pc = "idle"
  BY IdleRemembers DEF Init
<1>2. Level("SCENARIOS").status = "IDLE"
  BY HereIsAll DEF Init, Level, SeededBoard, SeededCell, Levels, WorkLevels
<1>3. \A e \in DOMAIN requests : requests[e].kind = "pipeline"
  BY DEF Init
<1> QED BY <1>1, <1>2, <1>3 DEF Init, FirstRunOK, Finished, Targeted

\* A step that changes no row and finishes no scenarios.
LEMMA FirstKept ==
    ASSUME FirstRunOK, Tends(board, board'), UNCHANGED <<threats, scoped, outputs, cutoff, requests>>,
           Level("SCENARIOS")'.status \in Finished => Level("SCENARIOS").status \in Finished,
           worker'.pc # "idle" =>
             /\ worker'.pc = "ask" /\ worker'.stage = "THREATS" /\ worker'.task.kind = "pipeline" =>
                  Level("SCENARIOS").status \notin Finished /\ outputs = {}
             /\ worker'.pc = "next" => worker'.list \in {{}, DOMAIN threats}
             /\ worker'.pc = "ask" /\ worker'.stage = "SCENARIOS" =>
                  /\ worker'.task.kind = "pipeline" => worker'.list = DOMAIN threats
                  /\ worker'.task.kind = "scenario" => outputs # {}
    PROVE  FirstRunOK'
<1>1. /\ Level("THREATS")'.epoch = Level("THREATS").epoch
      /\ Level("SCENARIOS")'.epoch = Level("SCENARIOS").epoch
      /\ Open(board', "THREATS") => Open(board, "THREATS")
  BY DEF Tends, Level, WorkLevels
<1>2. Unscored' = Unscored
  BY DEF Unscored, ScoringsOf
<1>3. Level("THREATS")'.epoch = 1 /\ Open(board, "THREATS")' =>
        Level("SCENARIOS")'.status \notin Finished /\ outputs' = {}
  BY <1>1 DEF FirstRunOK, Open
<1>4. Level("SCENARIOS")'.epoch = 1 /\ Level("SCENARIOS")'.status \in Finished =>
        /\ Unscored' = {}
        /\ {ThreatOf(s) : s \in outputs'} = Selection(threats, cutoff.threshold, cutoff.topN)'
  BY <1>1, <1>2, SelectionKept DEF FirstRunOK
<1>5. worker'.pc = "idle" \/ worker'.pc # "idle"
  OBVIOUS
<1> QED BY <1>1, <1>3, <1>4 DEF FirstRunOK

LEMMA DeliverFirst ==
    ASSUME IInv, RowsOK, EpochsOK, StagesOK, FirstRunOK, NEW t \in queue, Deliver(t)
    PROVE  FirstRunOK'
<1>1. /\ t \in InFlight /\ t \in Task /\ LevelsOf(t.kind) \subseteq WorkLevels
      /\ t.epoch \in DOMAIN requests /\ requests[t.epoch].kind = t.kind
  BY InFlightTasks DEF InFlight
<1>2. UNCHANGED <<rowVars, cutoff, requests, mishaps>> /\ worker.pc = "idle" /\ worker = Idle
  BY DEF Deliver, StartPipeline, StartScenarios, StartBroad, StartThreats, Resume, RowsOK
<1>3. Tends(board, board')
  BY OrdinaryStep DEF Ordinary
<1>4. CASE board' = board /\ (worker' = Idle \/ worker'.pc = "ground")
  BY <1>2, <1>3, <1>4, IdleRemembers, FirstKept DEF Level, rowVars
<1>5. ASSUME NEW levels \in SUBSET LevelsOf(t.kind), NEW list, NEW targets,
             Onward(board, t, levels, list, targets), StartsWith(t, levels, list, targets)
      PROVE  FirstRunOK'
  <2>1. levels \in SUBSET WorkLevels
    BY <1>1
  <2>2. Level("SCENARIOS")'.status \in Finished => Level("SCENARIOS").status \in Finished
    BY <1>5, <2>1, NoneFinished DEF Level
  <2>3. worker' = Idle \/ Asks(board, t, levels, list, targets)
    BY <1>5, <2>1, OnwardCells
  <2>5. t.kind = "pipeline" => t.epoch = 1 /\ list = DOMAIN threats
    BY <1>1, <1>5, LaterEpochs DEF StartsWith
  <2>6. t.kind = "scenario" => outputs # {}
    BY <1>1, <1>5 DEF StartsWith, FirstRunOK, Targeted
  <2>7. t.epoch = 1 /\ Open(board, "THREATS") /\ Level("THREATS").epoch = t.epoch =>
           Level("SCENARIOS").status \notin Finished /\ outputs = {}
    BY DEF FirstRunOK
  <2>8. CASE worker' = Idle
    BY <1>2, <1>3, <2>2, <2>8, IdleRemembers, FirstKept DEF rowVars
  <2>9. CASE Asks(board, t, levels, list, targets)
    <3>1. worker'.stage = "THREATS" /\ t.kind = "pipeline" =>
             Level("SCENARIOS").status \notin Finished /\ outputs = {}
      BY <2>5, <2>7, <2>9 DEF Asks, Level
    <3> QED BY <1>2, <1>3, <2>2, <2>5, <2>6, <2>9, <3>1, FirstKept DEF rowVars, Asks
  <2> QED BY <2>3, <2>8, <2>9
<1>6. CASE Dropped
  BY <1>2, <1>4, <1>6 DEF Dropped
<1>7. CASE StartThreats(t)
  <2>1. board' = board /\ (worker' = Idle \/ worker'.pc = "ground")
    BY <1>7 DEF StartThreats, Idle
  <2> QED BY <1>4, <2>1
<1> QED BY <1>5, <1>6, <1>7, DeliverOnward

\* The regrounded threats are not those of the first run.
LEMMA RegroundFirst ==
    ASSUME IInv, RowsOK, EpochsOK, StagesOK, FirstRunOK, Reground
    PROVE  FirstRunOK'
<1> DEFINE t == worker.task
<1>1. t \in InFlight /\ t.kind = "threat"
  BY DEF Reground, IInv, WorkerOK, InFlight
<1>2. Level("THREATS").epoch = t.epoch /\ t.epoch # 1
  BY <1>1, RegroundOnward, LaterEpochs
<1>3. Tends(board, board') /\ requests' = requests
  BY OrdinaryStep DEF Ordinary
<1>4. Level("THREATS")'.epoch # 1 /\ Level("SCENARIOS")'.epoch # 1
  <2>1. Level("SCENARIOS").epoch # 1
    BY <1>1, <1>2, LaterEpochs
  <2> QED BY <1>2, <1>3, <2>1 DEF Tends, Level, WorkLevels
<1>5. worker' = Idle \/ (worker'.pc = "ask" /\ worker'.task = t)
  <2>1. PICK b : GoOn(b, t, {"SCENARIOS"}, DOMAIN threats',
                      NewIds(Cardinality(requests[t.epoch].targets)))
    BY DEF Reground
  <2> QED BY <2>1, GoesOn
<1> QED BY <1>1, <1>3, <1>4, <1>5, IdleRemembers DEF FirstRunOK

LEMMA ClaimFirst ==
    ASSUME IInv, RowsOK, EpochsOK, StagesOK, FirstRunOK, ClaimNext
    PROVE  FirstRunOK'
<1> DEFINE t == worker.task
           list == ReadBack(t, worker.list)
<1>1. /\ t \in InFlight /\ t.kind = "pipeline" /\ t \in Task /\ t = TaskAt(t.epoch)
      /\ worker.pc = "next" /\ LevelsOf(t.kind) = WorkLevels
  BY InFlightTasks DEF ClaimNext, IInv, WorkerOK, InFlight, LevelsOf
<1>2. list = DOMAIN threats
  BY <1>1 DEF FirstRunOK, ReadBack
<1>3. GoOn(board, t, Later(worker.stage), list, {}) /\ UNCHANGED <<cutoff, rowVars, requests>>
  BY DEF ClaimNext
<1>4. Tends(board, board') /\ t.epoch = 1
  BY <1>1, OrdinaryStep, LaterEpochs DEF Ordinary
<1>5. Onward(board, t, Later(worker.stage), list, {})
  <2>1. Later(worker.stage) \in SUBSET LevelsOf(t.kind)
    BY <1>1 DEF Later, WorkLevels
  <2> QED BY <1>1, <1>3, <2>1, GoOnward DEF IInv, BoardOK, EpochsOK
<1> HIDE DEF list
<1>6. Later(worker.stage) \in SUBSET WorkLevels
  BY DEF Later, WorkLevels
<1>7. Level("SCENARIOS")'.status \in Finished => Level("SCENARIOS").status \in Finished
  BY <1>5, <1>6, NoneFinished DEF Level
<1>8. worker' = Idle \/ Asks(board, t, Later(worker.stage), list, {})
  BY <1>5, <1>6, OnwardCells
<1>9. CASE worker' = Idle
  BY <1>3, <1>4, <1>7, <1>9, IdleRemembers, FirstKept DEF rowVars
<1>10. CASE Asks(board, t, Later(worker.stage), list, {})
  <2>1. /\ worker'.pc = "ask" /\ worker'.task = t /\ worker'.list = DOMAIN threats
        /\ Open(board, worker'.stage) /\ Level(worker'.stage).epoch = 1
    BY <1>2, <1>4, <1>10 DEF Asks, Level
  <2>2. worker'.stage = "THREATS" => Level("SCENARIOS").status \notin Finished /\ outputs = {}
    BY <2>1 DEF FirstRunOK
  <2> QED BY <1>1, <1>3, <1>4, <1>7, <2>1, <2>2, FirstKept DEF rowVars
<1> QED BY <1>8, <1>9, <1>10

LEMMA MishapFirst ==
    ASSUME IInv, RowsOK, EpochsOK, StagesOK, FirstRunOK, Crash \/ Fail \/ CloseOut
    PROVE  FirstRunOK'
<1>1. UNCHANGED <<rowVars, cutoff, requests>> /\ worker' = Idle
  BY DEF Crash, Fail, CloseOut, RowsOK
<1>2. board' = board \/ board' = FailPending(board, {Here})
  BY DEF Crash, Fail, CloseOut
<1>3. Tends(board, board')
  BY OrdinaryStep DEF Ordinary
<1>4. Level("SCENARIOS")'.status \in Finished => Level("SCENARIOS").status \in Finished
  <2>1. \/ FailPending(board, {Here})[Here]["SCENARIOS"] = board[Here]["SCENARIOS"]
        \/ FailPending(board, {Here})[Here]["SCENARIOS"].status = "ERROR"
    BY HereIsAll, FailPendingCells DEF IInv, BoardOK, WorkLevels
  <2> QED BY <1>2, <2>1 DEF Level, Finished
<1> QED BY <1>1, <1>3, <1>4, IdleRemembers, FirstKept DEF rowVars

\* A row-targeted request names some rows.
LEMMA TargetsNamed ==
    ASSUME NEW kind \in Targeted, NEW T \in Targets(kind)
    PROVE  T # {} /\ T \subseteq (IF kind = "scenario" THEN outputs ELSE DOMAIN threats)
<1>1. PICK n \in 1..MaxTargets : T \in kSubset(n, IF kind = "scenario" THEN outputs
                                                                       ELSE DOMAIN threats)
  BY DEF Targets, Targeted
<1>2. Cardinality(T) = n /\ n # 0
  BY <1>1, LimitsAssumption DEF kSubset
<1> QED BY <1>1, <1>2, FS_EmptySet DEF kSubset

LEMMA RegenerateFirst ==
    ASSUME IInv, RowsOK, EpochsOK, FirstRunOK, NEW kind \in Granularities, Regenerate(kind)
    PROVE  FirstRunOK'
<1> DEFINE E == Level("SCENARIOS").epoch + 1
<1> PICK e : e = E
  OBVIOUS
<1>1. /\ e # 1 /\ DOMAIN requests' = DOMAIN requests \union {e}
      /\ \A x \in DOMAIN requests : requests'[x] = requests[x]
      /\ requests'[e].kind = kind /\ requests'[e].targets \in Targets(kind)
      /\ worker' = worker /\ worker.pc = "idle"
      /\ \A l \in WorkLevels :
           IF l \in LevelsOf(kind)
           THEN Level(l)'.status = "IDLE" /\ Level(l)'.epoch = e
           ELSE Level(l)' = Level(l)
      /\ UNCHANGED <<cutoff, rowVars>>
  BY Requested
<1>2. \A x \in DOMAIN requests' :
         requests'[x].kind \in Targeted => requests'[x].targets # {}
  BY <1>1, TargetsNamed DEF FirstRunOK
<1>3. Level("THREATS")'.epoch = 1 /\ Open(board, "THREATS")' =>
         Level("SCENARIOS")'.status \notin Finished /\ outputs' = {}
  <2>1. CASE "THREATS" \in LevelsOf(kind)
    BY <1>1, <2>1 DEF WorkLevels
  <2>2. CASE "THREATS" \notin LevelsOf(kind)
    <3>1. kind = "scenario"
      BY <2>2 DEF LevelsOf, Granularities, WorkLevels
    <3>2. outputs # {}
      BY <1>1, <3>1, TargetsNamed DEF Targeted
    <3>3. Level("THREATS")' = Level("THREATS")
      BY <1>1, <2>2 DEF WorkLevels
    <3>4. ~(Level("THREATS").epoch = 1 /\ Open(board, "THREATS"))
      BY <3>2 DEF FirstRunOK
    <3> QED BY <3>3, <3>4 DEF Open, Level
  <2> QED BY <2>1, <2>2
<1>4. Level("SCENARIOS")'.epoch = e
  BY <1>1, LevelsTyped DEF TaskKinds, WorkLevels
<1> QED BY <1>1, <1>2, <1>3, <1>4 DEF FirstRunOK

\* What writing a stage leaves: the stage has ended, a later one may have been claimed.
LEMMA WriteCells ==
    ASSUME IInv, RowsOK, EpochsOK, NEW l \in WorkLevels, NEW list, NEW targets,
           worker.pc = "ask", worker.stage = l, Finish(l, list, targets)
    PROVE  /\ Level(l)'.status = FinalOf(l) /\ ~Open(board', l)
           /\ \A k \in WorkLevels \ {l} :
                \/ Level(k)' = Level(k)
                \/ k \in Later(l) /\ Level(k)'.status = "RUNNING"
           /\ \/ /\ worker.task.kind = "pipeline" /\ l # "SCENARIOS"
                 /\ worker'.pc = "next" /\ worker'.task = worker.task
                 /\ worker'.stage = l /\ worker'.list = list
                 /\ \A k \in WorkLevels \ {l} : Level(k)' = Level(k)
              \/ /\ worker' = Idle
                 /\ Spent(board', worker.task, LevelsOf(worker.task.kind) \intersect Later(l))
                 /\ \A k \in WorkLevels \ {l} : Level(k)' = Level(k)
              \/ /\ worker.task.kind # "pipeline"
                 /\ Asks(board, worker.task, LevelsOf(worker.task.kind) \intersect Later(l),
                         list, targets)
<1> DEFINE t == worker.task
           rest == LevelsOf(t.kind) \intersect Later(l)
<1>1. PICK done \in Board :
        /\ Ends(board, l, done)
        /\ \/ /\ t.kind = "pipeline" /\ l # "SCENARIOS" /\ board' = done
              /\ worker' = [pc |-> "next", task |-> t, stage |-> l,
                            list |-> list, targets |-> worker.targets]
           \/ /\ t.kind = "pipeline" => l = "SCENARIOS"
              /\ Onward(done, t, rest, list, targets)
  BY WriteOnward
<1>2. l \notin Later(l) /\ Later(l) \subseteq WorkLevels /\ FinalOf(l) \in Finished
      /\ Later("SCENARIOS") = {}
  BY DEF Later, WorkLevels, FinalOf, Finished
<1>3. /\ done[Here][l].status = FinalOf(l)
      /\ \A k \in WorkLevels \ {l} : done[Here][k] = board[Here][k]
  BY <1>1 DEF Ends
<1>4. CASE /\ t.kind = "pipeline" /\ l # "SCENARIOS" /\ board' = done
           /\ worker' = [pc |-> "next", task |-> t, stage |-> l,
                         list |-> list, targets |-> worker.targets]
  <2>1. worker'.pc = "next" /\ worker'.task = t /\ worker'.stage = l /\ worker'.list = list
    BY <1>4
  <2> QED BY <1>2, <1>3, <1>4, <2>1 DEF Level, Open
<1>5. CASE /\ t.kind = "pipeline" => l = "SCENARIOS"
           /\ Onward(done, t, rest, list, targets)
  <2>1. rest \in SUBSET WorkLevels /\ l \notin rest /\ rest \subseteq Later(l)
    BY <1>2
  <2>2. t.kind = "pipeline" => rest = {}
    BY <1>2, <1>5
  <2> HIDE DEF rest
  <2>3. /\ \A k \in WorkLevels \ rest : board'[Here][k] = done[Here][k]
        /\ \A k \in rest :
             \/ board'[Here][k] = done[Here][k]
             \/ board'[Here][k].status = "RUNNING"
        /\ worker' = Idle \/ Asks(done, t, rest, list, targets)
    BY <1>5, <2>1, OnwardCells
  <2>4. Level(l)'.status = FinalOf(l) /\ ~Open(board', l)
    BY <1>2, <1>3, <2>1, <2>3 DEF Level, Open
  <2>5. \A k \in WorkLevels \ {l} :
           \/ Level(k)' = Level(k)
           \/ k \in Later(l) /\ Level(k)'.status = "RUNNING"
    BY <1>3, <2>1, <2>3 DEF Level
  <2>6. CASE Asks(done, t, rest, list, targets)
    <3>1. Asks(board, t, rest, list, targets) /\ t.kind # "pipeline"
      BY <1>3, <2>1, <2>2, <2>6 DEF Asks, Open
    <3> QED BY <2>4, <2>5, <3>1 DEF rest
  <2>7. CASE worker' = Idle
    <3>1. board' = done /\ Spent(board', t, rest)
      <4>1. ASSUME NEW k, worker' = [pc |-> "ask", task |-> t, stage |-> k, list |-> list,
                                     targets |-> targets]
            PROVE  FALSE
        BY <2>7, <4>1 DEF Idle
      <4> QED BY <1>5, <4>1 DEF Onward
    <3>2. \A k \in WorkLevels \ {l} : Level(k)' = Level(k)
      BY <1>3, <3>1 DEF Level
    <3> QED BY <2>4, <2>5, <2>7, <3>1, <3>2 DEF rest
  <2> QED BY <2>3, <2>6, <2>7
<1> QED BY <1>1, <1>4, <1>5

LEMMA ProfileFirst ==
    ASSUME IInv, RowsOK, EpochsOK, StagesOK, FirstRunOK, WriteProfile
    PROVE  FirstRunOK'
<1>1. /\ worker.pc = "ask" /\ worker.stage = "PROFILE" /\ Finish("PROFILE", {}, {})
      /\ UNCHANGED <<cutoff, threats, scoped, outputs, requests>>
  BY DEF WriteProfile
<1>2. Tends(board, board')
  BY OrdinaryStep DEF Ordinary, Writes
<1>3. /\ \/ Level("SCENARIOS")' = Level("SCENARIOS")
         \/ Level("SCENARIOS")'.status = "RUNNING"
      /\ \/ worker' = Idle
         \/ worker'.pc = "next" /\ worker'.list = {}
         \/ /\ worker.task.kind # "pipeline"
            /\ Asks(board, worker.task, LevelsOf(worker.task.kind) \intersect Later("PROFILE"),
                    {}, {})
  <2>1. "PROFILE" \in WorkLevels /\ "SCENARIOS" \in WorkLevels \ {"PROFILE"}
    BY DEF WorkLevels
  <2> QED BY <1>1, <2>1, WriteCells
<1>4. worker.task.kind # "scenario"
  BY <1>1 DEF IInv, WorkerOK, Targeted
<1>5. Level("SCENARIOS")'.status \in Finished => Level("SCENARIOS").status \in Finished
  BY <1>3 DEF Finished
<1>6. CASE worker' = Idle
  BY <1>1, <1>2, <1>5, <1>6, IdleRemembers, FirstKept
<1>7. CASE worker'.pc = "next" /\ worker'.list = {}
  BY <1>1, <1>2, <1>5, <1>7, FirstKept
<1>8. CASE /\ worker.task.kind # "pipeline"
           /\ Asks(board, worker.task, LevelsOf(worker.task.kind) \intersect Later("PROFILE"),
                   {}, {})
  <2>1. worker'.pc = "ask" /\ worker'.task.kind \notin {"pipeline", "scenario"}
    BY <1>4, <1>8 DEF Asks
  <2> QED BY <1>1, <1>2, <1>5, <2>1, FirstKept
<1> QED BY <1>3, <1>6, <1>7, <1>8

\* The pipeline replaces all threats, and hands all new ones on.
LEMMA FindFirst ==
    ASSUME IInv, RowsOK, EpochsOK, StagesOK, FirstRunOK, FindThreats
    PROVE  FirstRunOK'
<1> DEFINE t == worker.task
<1> PICK n \in 0..MaxProposals : \E g \in [NewIds(n) -> Groundings] :
        /\ threats' = With(Without(threats, InScope(requests[t.epoch])),
                           [a \in NewIds(n) |-> Row(g[a], NoOrigin)])
        /\ minted' = minted + n
        /\ Finish("THREATS", NewIds(n), NewIds(n))
  BY DEF FindThreats
<1>1. PICK g \in [NewIds(n) -> Groundings] :
        /\ threats' = With(Without(threats, InScope(requests[t.epoch])),
                           [a \in NewIds(n) |-> Row(g[a], NoOrigin)])
        /\ Finish("THREATS", NewIds(n), NewIds(n))
  OBVIOUS
<1>2. /\ worker.pc = "ask" /\ worker.stage = "THREATS"
      /\ UNCHANGED <<cutoff, scoped, outputs, requests>>
  BY DEF FindThreats
<1>3. Tends(board, board') /\ t \in InFlight /\ requests[t.epoch].kind = t.kind
      /\ Level("THREATS").epoch = t.epoch
  BY <1>2, OrdinaryStep, InFlightTasks DEF Ordinary, Writes, InFlight, StagesOK
<1>4. /\ ~Open(board', "THREATS")
      /\ \/ Level("SCENARIOS")' = Level("SCENARIOS")
         \/ Level("SCENARIOS")'.status = "RUNNING"
      /\ \/ worker' = Idle
         \/ t.kind = "pipeline" /\ worker'.pc = "next" /\ worker'.list = NewIds(n)
         \/ /\ t.kind # "pipeline"
            /\ Asks(board, t, LevelsOf(t.kind) \intersect Later("THREATS"), NewIds(n), NewIds(n))
  <2>1. "THREATS" \in WorkLevels /\ "SCENARIOS" \in WorkLevels \ {"THREATS"}
    BY DEF WorkLevels
  <2> QED BY <1>1, <1>2, <2>1, WriteCells
<1>5. t.kind = "pipeline" => NewIds(n) = DOMAIN threats'
  <2> SUFFICES ASSUME t.kind = "pipeline" PROVE NewIds(n) = DOMAIN threats'
    OBVIOUS
  <2>1. InScope(requests[t.epoch]) = DOMAIN threats
    BY <1>3 DEF InScope
  <2> QED BY <1>1, <2>1 DEF With, Without
<1>6. t.kind # "scenario"
  BY <1>2 DEF IInv, WorkerOK, Targeted
<1>7. worker'.pc = "next" => worker'.list \in {{}, DOMAIN threats'}
  BY <1>4, <1>5, IdleRemembers DEF Asks
<1>8. worker'.pc = "ask" => worker'.task.kind \notin {"pipeline", "scenario"}
  BY <1>4, <1>6, IdleRemembers DEF Asks
<1>9. ~(Level("SCENARIOS")'.epoch = 1 /\ Level("SCENARIOS")'.status \in Finished)
  <2> SUFFICES ASSUME Level("SCENARIOS")'.epoch = 1, Level("SCENARIOS")'.status \in Finished
               PROVE  FALSE
    OBVIOUS
  <2>1. Level("SCENARIOS").epoch = 1 /\ Level("SCENARIOS").status \in Finished
    BY <1>3, <1>4 DEF Tends, Level, WorkLevels, Finished
  <2>2. t.kind = "pipeline"
    BY <1>3, <2>1, LaterEpochs
  <2> QED BY <1>2, <2>1, <2>2 DEF FirstRunOK
<1> QED BY <1>2, <1>4, <1>7, <1>8, <1>9 DEF FirstRunOK, Open

\* What the pipeline writes is what is selected of all threats.
LEMMA WriteFirst ==
    ASSUME IInv, RowsOK, EpochsOK, StagesOK, FirstRunOK, WriteScenarios
    PROVE  FirstRunOK'
<1> DEFINE t == worker.task
           unscoped == t.kind \in {"pipeline", "profile"}
           list == [a \in worker.list |-> threats[a]]
           chosen == Selection(list, cutoff.threshold, cutoff.topN)
           written == IF unscoped THEN worker.list ELSE worker.list \intersect worker.targets
           retired == IF unscoped THEN DOMAIN scoped ELSE ScoringsOf(worker.targets)
           stamp == minted + 1
           fresh == [s \in {<<stamp, a>> : a \in written} |-> ThreatOf(s) \in chosen]
<1>1. /\ scoped' = With(Without(scoped, retired), fresh)
      /\ outputs' = (outputs \ RetiredScenarios(t, retired)) \union {s \in DOMAIN fresh : fresh[s]}
      /\ UNCHANGED <<cutoff, threats, requests>>
      /\ worker.pc = "ask" /\ worker.stage = "SCENARIOS" /\ Finish("SCENARIOS", {}, {})
  BY DEF WriteScenarios
<1>2. Tends(board, board') /\ t \in InFlight /\ Level("SCENARIOS").epoch = t.epoch
  BY <1>1, OrdinaryStep DEF Ordinary, Writes, InFlight, StagesOK
<1>3. worker' = Idle
  <2>1. Later("SCENARIOS") = {} /\ "SCENARIOS" \in WorkLevels
    BY DEF Later, WorkLevels
  <2> QED BY <1>1, <2>1, WriteCells DEF Asks
<1>4. ~(Level("THREATS").epoch = 1 /\ Open(board, "THREATS"))
  <2> SUFFICES ASSUME Level("THREATS").epoch = 1 PROVE ~Open(board, "THREATS")
    OBVIOUS
  <2>1. CASE t.kind = "pipeline"
    <3>1. t.epoch = 1 /\ "THREATS" \in LevelsOf(t.kind) \ ({"SCENARIOS"} \union Later("SCENARIOS"))
      BY <1>2, <2>1, LaterEpochs DEF LevelsOf, WorkLevels, Later
    <3> QED BY <1>1, <2>1, <3>1 DEF StagesOK, Spent, Level
  <2>2. CASE t.kind = "scenario"
    BY <1>1, <2>2 DEF FirstRunOK
  <2>3. CASE t.kind \notin {"pipeline", "scenario"}
    <3>1. "THREATS" \in LevelsOf(t.kind)
      BY <2>3 DEF LevelsOf, WorkLevels
    <3> QED BY <1>2, <2>3, <3>1, LaterEpochs
  <2> QED BY <2>1, <2>2, <2>3
<1>5. ~(Level("THREATS")'.epoch = 1 /\ Open(board', "THREATS"))
  BY <1>2, <1>4 DEF Tends, Level, WorkLevels
<1>6. ASSUME Level("SCENARIOS")'.epoch = 1
      PROVE  /\ Unscored' = {}
             /\ {ThreatOf(s) : s \in outputs'}
                  = Selection(threats', cutoff'.threshold, cutoff'.topN)
  <2>1. t.kind = "pipeline" /\ worker.list = DOMAIN threats
    BY <1>1, <1>2, <1>6, LaterEpochs DEF Tends, Level, WorkLevels, FirstRunOK
  <2>2. list = threats /\ written = DOMAIN threats /\ retired = DOMAIN scoped
    BY <2>1 DEF RowsOK
  <2>3. chosen = Selection(threats', cutoff'.threshold, cutoff'.topN)
    BY <1>1, <2>2
  <2>4. chosen \subseteq DOMAIN threats
    BY <2>2 DEF Selection
  <2>5. \A a \in DOMAIN threats : /\ <<stamp, a>> \in DOMAIN fresh /\ ThreatOf(<<stamp, a>>) = a
                                  /\ fresh[<<stamp, a>>] = (a \in chosen)
    BY <2>2 DEF ThreatOf
  <2>6. \A s \in DOMAIN fresh : \E a \in DOMAIN threats : s = <<stamp, a>>
    BY <2>2
  <2>7. outputs' = {s \in DOMAIN fresh : fresh[s]} /\ DOMAIN fresh \subseteq DOMAIN scoped'
    BY <1>1, <2>1 DEF RetiredScenarios, With
  <2> HIDE DEF fresh, chosen, stamp
  <2>8. {ThreatOf(s) : s \in outputs'} = chosen
    <3>1. ASSUME NEW s \in outputs' PROVE ThreatOf(s) \in chosen
      BY <2>5, <2>6, <2>7
    <3>2. ASSUME NEW a \in chosen PROVE \E s \in outputs' : ThreatOf(s) = a
      <4>1. <<stamp, a>> \in outputs' /\ ThreatOf(<<stamp, a>>) = a
        BY <2>4, <2>5, <2>7
      <4> QED BY <4>1
    <3> QED BY <3>1, <3>2
  <2>9. Unscored' = {}
    BY <1>1, <2>5, <2>7 DEF Unscored, ScoringsOf
  <2> QED BY <2>3, <2>8, <2>9
<1>7. Selection(threats, cutoff.threshold, cutoff.topN)'
        = Selection(threats', cutoff'.threshold, cutoff'.topN)
  OBVIOUS
<1> QED BY <1>1, <1>3, <1>5, <1>6, <1>7, IdleRemembers DEF FirstRunOK, Open

LEMMA NextFirst ==
    ASSUME IInv, RowsOK, EpochsOK, StagesOK, FirstRunOK, [Next]_vars
    PROVE  FirstRunOK'
<1>1. CASE UNCHANGED vars
  <2>1. Unscored' = Unscored
    BY <1>1 DEF vars, rowVars, Unscored, ScoringsOf
  <2> QED BY <1>1, <2>1, SelectionKept DEF vars, rowVars, FirstRunOK, Level, Open
<1>2. ASSUME NEW t \in queue, Deliver(t) PROVE FirstRunOK'
  BY <1>2, DeliverFirst
<1>3. ASSUME NEW kind \in Granularities, Regenerate(kind) PROVE FirstRunOK'
  BY <1>3, RegenerateFirst
<1> QED BY <1>1, <1>2, <1>3, RegroundFirst, ClaimFirst, ProfileFirst, FindFirst, WriteFirst,
           MishapFirst, NextIsOrdinary DEF Ordinary, Writes

-----------------------------------------------------------------------------
(* Who still has work to do.                                               *)

\* Task t cannot take THREATS although the threats it is about are still there.
Blocked(t) ==
    /\ t.kind = "threat" /\ requests[t.epoch].targets \subseteq DOMAIN threats
    /\ ~(Level("THREATS").epoch = t.epoch /\ Open(board, "THREATS"))

\* The levels a delivery goes through; a threat regeneration takes THREATS on the side.
Course(t) == IF t.kind = "threat" THEN {"SCENARIOS"} ELSE LevelsOf(t.kind)

\* Where a step of task t's delivery leads: it goes on, or it is over.
Moves(t) ==
    /\ \/ worker'.pc # "idle" /\ worker'.task = t
       \/ worker' = Idle /\ (Hopeless(t) \/ Blocked(t) \/ Spent(board', t, Course(t)))
    /\ \/ WriteScenarios /\ worker' = Idle
       \/ Level("SCENARIOS")' = Level("SCENARIOS")
       \/ Level("SCENARIOS")'.status = "RUNNING"

\* No level gets work that is not task t's.
Busies(t) == \A l \in WorkLevels :
    Level(l)'.status \in Pending => Level(l).status \in Pending \/ Level(l).epoch = t.epoch

LEMMA OnwardMoves ==
    ASSUME NEW b, NEW t, NEW levels \in SUBSET WorkLevels, NEW list, NEW targets,
           Onward(b, t, levels, list, targets)
    PROVE  /\ \A l \in WorkLevels : board'[Here][l].status \in Pending =>
                 b[Here][l].status \in Pending \/ b[Here][l].epoch = t.epoch
           /\ \/ /\ worker'.pc = "ask" /\ worker'.task = t /\ worker' # Idle
                 /\ \/ board'[Here]["SCENARIOS"] = b[Here]["SCENARIOS"]
                    \/ board'[Here]["SCENARIOS"].status = "RUNNING"
              \/ worker' = Idle /\ board' = b /\ Spent(b, t, levels)
<1>1. CASE board' = b /\ worker' = Idle /\ Spent(b, t, levels)
  BY <1>1
<1>2. ASSUME NEW l \in levels, Claims(b, t, l, board'),
             worker' = [pc |-> "ask", task |-> t, stage |-> l, list |-> list,
                        targets |-> targets]
      PROVE  /\ \A k \in WorkLevels : board'[Here][k].status \in Pending =>
                   b[Here][k].status \in Pending \/ b[Here][k].epoch = t.epoch
             /\ worker'.pc = "ask" /\ worker'.task = t /\ worker' # Idle
             /\ \/ board'[Here]["SCENARIOS"] = b[Here]["SCENARIOS"]
                \/ board'[Here]["SCENARIOS"].status = "RUNNING"
  <2>1. worker'.pc = "ask" /\ worker'.task = t
    BY <1>2
  <2>2. "SCENARIOS" \in WorkLevels
    BY DEF WorkLevels
  <2> QED BY <1>2, <2>1, <2>2, IdleRemembers DEF Claims
<1> QED BY <1>1, <1>2 DEF Onward

LEMMA DeliverMoves ==
    ASSUME IInv, RowsOK, EpochsOK, StagesOK, NEW t \in queue, Deliver(t)
    PROVE  Moves(t) /\ Busies(t)
<1>1. /\ t \in InFlight /\ t \in Task /\ t = TaskAt(t.epoch) /\ LevelsOf(t.kind) \subseteq WorkLevels
      /\ worker = Idle
  BY InFlightTasks DEF InFlight, Deliver, RowsOK
<1>2. CASE Dropped /\ Hopeless(t)
  BY <1>1, <1>2 DEF Dropped, Moves, Busies, Level
<1>3. CASE StartThreats(t)
  <2>1. /\ t.kind = "threat" /\ requests[t.epoch].targets \subseteq DOMAIN threats
        /\ board' = board
        /\ worker' = IF Claimable(board, Here, "THREATS", t)
                     THEN [Idle EXCEPT !.pc = "ground", !.task = t] ELSE Idle
    BY <1>3 DEF StartThreats
  <2>2. Claimable(board, Here, "THREATS", t)
           <=> Level("THREATS").epoch = t.epoch /\ Open(board, "THREATS")
    BY <1>1, ClaimableIsOpen DEF WorkLevels, Level, IInv, BoardOK, EpochsOK
  <2>3. CASE Claimable(board, Here, "THREATS", t)
    <3>1. worker'.pc = "ground" /\ worker'.task = t
      BY <2>1, <2>3 DEF Idle
    <3> QED BY <2>1, <3>1 DEF Moves, Busies, Level
  <2>4. CASE ~Claimable(board, Here, "THREATS", t)
    BY <2>1, <2>2, <2>4 DEF Moves, Busies, Level, Blocked
  <2> QED BY <2>3, <2>4
<1>4. ASSUME NEW levels \in SUBSET LevelsOf(t.kind), NEW list, NEW targets,
             Onward(board, t, levels, list, targets), StartsWith(t, levels, list, targets)
      PROVE  Moves(t) /\ Busies(t)
  <2>1. levels \in SUBSET WorkLevels /\ levels = Course(t)
    BY <1>1, <1>4 DEF StartsWith, Course
  <2>2. Busies(t)
    BY <1>4, <2>1, OnwardMoves DEF Busies, Level
  <2>3. \/ /\ worker'.pc = "ask" /\ worker'.task = t
           /\ \/ Level("SCENARIOS")' = Level("SCENARIOS")
              \/ Level("SCENARIOS")'.status = "RUNNING"
        \/ worker' = Idle /\ board' = board /\ Spent(board, t, levels)
    BY <1>4, <2>1, OnwardMoves DEF Level
  <2> QED BY <2>1, <2>2, <2>3 DEF Moves, Spent, Open, Level
<1> QED BY <1>2, <1>3, <1>4, DeliverOnward

LEMMA RegroundMoves ==
    ASSUME IInv, RowsOK, EpochsOK, StagesOK, NEW t, t = worker.task, Reground
    PROVE  Moves(t) /\ Busies(t)
<1>1. t.kind = "threat"
  BY DEF Reground, IInv, WorkerOK
<1>2. PICK done \in Board :
        /\ Level("THREATS").epoch = t.epoch
        /\ Ends(board, "THREATS", done)
        /\ Onward(done, t, {"SCENARIOS"}, DOMAIN threats',
                  NewIds(Cardinality(requests[t.epoch].targets)))
  BY RegroundOnward
<1>3. {"SCENARIOS"} \in SUBSET WorkLevels /\ "SCENARIOS" \in WorkLevels \ {"THREATS"}
  BY DEF WorkLevels
<1>4. \A l \in WorkLevels \ {"THREATS"} : done[Here][l] = board[Here][l]
  BY <1>2 DEF Ends
<1>5. /\ \A l \in WorkLevels : board'[Here][l].status \in Pending =>
            done[Here][l].status \in Pending \/ done[Here][l].epoch = t.epoch
      /\ \/ /\ worker'.pc = "ask" /\ worker'.task = t
            /\ \/ board'[Here]["SCENARIOS"] = done[Here]["SCENARIOS"]
               \/ board'[Here]["SCENARIOS"].status = "RUNNING"
         \/ worker' = Idle /\ board' = done /\ Spent(done, t, {"SCENARIOS"})
  BY <1>2, <1>3, OnwardMoves
<1>6. Busies(t)
  BY <1>2, <1>4, <1>5 DEF Busies, Level
<1>7. Moves(t)
  BY <1>1, <1>3, <1>4, <1>5 DEF Moves, Level, Course
<1> QED BY <1>6, <1>7

LEMMA ClaimMoves ==
    ASSUME IInv, RowsOK, EpochsOK, StagesOK, NEW t, t = worker.task, ClaimNext
    PROVE  Moves(t) /\ Busies(t)
<1>1. /\ t \in InFlight /\ t.kind = "pipeline" /\ t \in Task /\ t = TaskAt(t.epoch)
      /\ worker.pc = "next" /\ LevelsOf(t.kind) = WorkLevels
  BY InFlightTasks DEF ClaimNext, IInv, WorkerOK, InFlight, LevelsOf
<1>2. PICK list : GoOn(board, t, Later(worker.stage), list, {})
  BY DEF ClaimNext
<1>3. Later(worker.stage) \in SUBSET WorkLevels
  BY DEF Later, WorkLevels
<1>4. Onward(board, t, Later(worker.stage), list, {})
  BY <1>1, <1>2, <1>3, GoOnward DEF IInv, BoardOK, EpochsOK
<1>5. /\ \A l \in WorkLevels : board'[Here][l].status \in Pending =>
            board[Here][l].status \in Pending \/ board[Here][l].epoch = t.epoch
      /\ \/ /\ worker'.pc = "ask" /\ worker'.task = t
            /\ \/ board'[Here]["SCENARIOS"] = board[Here]["SCENARIOS"]
               \/ board'[Here]["SCENARIOS"].status = "RUNNING"
         \/ worker' = Idle /\ board' = board /\ Spent(board, t, Later(worker.stage))
  BY <1>3, <1>4, OnwardMoves
<1>6. Spent(board, t, WorkLevels \ Later(worker.stage))
  BY <1>1 DEF StagesOK
<1>7. Course(t) = WorkLevels
  BY <1>1 DEF Course
<1> QED BY <1>5, <1>6, <1>7 DEF Moves, Busies, Level, Spent

LEMMA WriteMoves ==
    ASSUME IInv, RowsOK, EpochsOK, StagesOK, NEW t, t = worker.task, Writes
    PROVE  Moves(t) /\ Busies(t)
<1> PICK l : l = worker.stage
  OBVIOUS
<1> DEFINE rest == LevelsOf(t.kind) \intersect Later(l)
<1>1. worker.pc = "ask" /\ l \in WorkLevels
  BY WritesFinish
<1>2. PICK list, targets : Finish(worker.stage, list, targets)
  BY WritesFinish
<1>3. /\ ~Open(board', l) /\ Level(l)'.status = FinalOf(l)
      /\ \A k \in WorkLevels \ {l} :
           \/ Level(k)' = Level(k)
           \/ k \in Later(l) /\ Level(k)'.status = "RUNNING"
      /\ \/ /\ worker'.pc = "next" /\ worker'.task = t /\ l # "SCENARIOS"
         \/ worker' = Idle /\ Spent(board', t, rest)
         \/ Asks(board, t, rest, list, targets)
  <2>1. Finish(l, list, targets) /\ worker.stage = l
    BY <1>2
  <2> QED BY <1>1, <2>1, WriteCells
<1>4. PICK done \in Board :
        /\ Ends(board, l, done)
        /\ \/ board' = done
           \/ Onward(done, t, rest, list, targets)
  BY <1>1, <1>2, WriteOnward
<1>5. t \in InFlight /\ LevelsOf(t.kind) \subseteq WorkLevels /\ rest \in SUBSET WorkLevels
  BY <1>1, InFlightTasks DEF InFlight
<1>6. FinalOf(l) \notin Pending /\ Later("SCENARIOS") = {} /\ "SCENARIOS" \in WorkLevels
  BY DEF FinalOf, Pending, Later, WorkLevels
<1> HIDE DEF rest
<1>7. Busies(t)
  <2>1. \A k \in WorkLevels : board'[Here][k].status \in Pending =>
           done[Here][k].status \in Pending \/ done[Here][k].epoch = t.epoch
    BY <1>4, <1>5, OnwardMoves
  <2>2. \A k \in WorkLevels \ {l} : done[Here][k] = board[Here][k]
    BY <1>4 DEF Ends
  <2>3. board'[Here][l].status \notin Pending
    BY <1>3, <1>6 DEF Level
  <2>4. \A k \in WorkLevels : board'[Here][k].status \in Pending =>
           board[Here][k].status \in Pending \/ board[Here][k].epoch = t.epoch
    BY <2>1, <2>2, <2>3
  <2> QED BY <2>4 DEF Busies, Level
<1>8. CASE worker' = Idle /\ Spent(board', t, rest)
  <2>1. Tends(board, board')
    BY OrdinaryStep DEF Ordinary
  <2>2. ASSUME NEW k \in Course(t), board'[Here][k].epoch = t.epoch PROVE ~Open(board', k)
    <3>1. CASE k = l
      BY <1>3, <3>1
    <3>2. CASE k \in rest
      BY <1>8, <2>2, <3>2 DEF Spent
    <3>3. CASE k # l /\ k \notin rest /\ t.kind # "threat"
      <4>1. k \in LevelsOf(t.kind) \ ({l} \union Later(l)) /\ k \in WorkLevels
        BY <1>5, <3>3 DEF Course, rest
      <4>2. Spent(board, t, LevelsOf(t.kind) \ ({l} \union Later(l)))
        BY <1>1, <3>3 DEF StagesOK
      <4>3. board[Here][k].epoch = t.epoch /\ (Open(board', k) => Open(board, k))
        BY <2>1, <2>2, <4>1 DEF Tends
      <4> QED BY <4>1, <4>2, <4>3 DEF Spent
    <3>4. CASE t.kind = "threat"
      <4>1. l = "SCENARIOS"
        BY <1>1, <3>4 DEF IInv, WorkerOK, Targeted
      <4> QED BY <3>1, <3>4, <4>1 DEF Course
    <3> QED BY <3>1, <3>2, <3>3, <3>4
  <2>3. Spent(board', t, Course(t))
    BY <2>2 DEF Spent
  <2>4. l = "SCENARIOS" => WriteScenarios
    BY DEF Writes, WriteProfile, FindThreats
  <2>5. l # "SCENARIOS" => \/ Level("SCENARIOS")' = Level("SCENARIOS")
                           \/ Level("SCENARIOS")'.status = "RUNNING"
    BY <1>3, <1>6
  <2> QED BY <1>7, <1>8, <2>3, <2>4, <2>5 DEF Moves
<1>9. CASE worker'.pc # "idle" /\ worker'.task = t /\ l # "SCENARIOS"
  BY <1>3, <1>6, <1>7, <1>9 DEF Moves
<1>10. CASE Asks(board, t, rest, list, targets)
  <2>1. worker'.pc # "idle" /\ worker'.task = t /\ l # "SCENARIOS"
    BY <1>6, <1>10 DEF Asks, rest
  <2> QED BY <1>9, <2>1
<1> QED BY <1>3, <1>8, <1>9, <1>10

\* The steps of a delivery.
Step(t) ==
    \/ t \in queue /\ Deliver(t)
    \/ t = worker.task /\ (Reground \/ ClaimNext \/ Writes)

LEMMA StepFacts ==
    ASSUME IInv, RowsOK, EpochsOK, StagesOK, NEW t, Step(t)
    PROVE  /\ t \in InFlight /\ Moves(t) /\ Busies(t)
           /\ InFlight' = IF worker' = Idle THEN InFlight \ {t} ELSE InFlight
           /\ UNCHANGED <<cutoff, requests, mishaps>>
<1>1. Moves(t) /\ Busies(t)
  BY DeliverMoves, RegroundMoves, ClaimMoves, WriteMoves DEF Step
<1>2. worker' = Idle \/ (worker'.pc # "idle" /\ worker'.task = t)
  BY <1>1 DEF Moves
<1>3. CASE t \in queue /\ Deliver(t)
  <2>1. worker.pc = "idle" /\ queue' = queue \ {t} /\ UNCHANGED <<cutoff, requests, mishaps>>
    BY <1>3 DEF Deliver, TakenFrom
  <2> QED BY <1>1, <1>2, <1>3, <2>1, IdleRemembers DEF InFlight
<1>4. CASE t = worker.task /\ (Reground \/ ClaimNext \/ Writes)
  <2>1. worker.pc # "idle" /\ queue' = queue /\ UNCHANGED <<cutoff, requests, mishaps>>
    BY <1>4, WritesFinish DEF Reground, ClaimNext
  <2>2. t \notin queue
    BY <1>4, <2>1 DEF EpochsOK
  <2> QED BY <1>1, <1>2, <1>4, <2>1, <2>2, IdleRemembers DEF InFlight
<1> QED BY <1>3, <1>4 DEF Step

\* What is counted only grows, and the reaper's pass counts as a sweep.
LEMMA CountsGrow ==
    ASSUME RowsOK, [Next]_vars
    PROVE  /\ \A k \in Kinds : mishaps[k] \in Nat /\ mishaps'[k] \in Nat
                               /\ mishaps[k] <= mishaps'[k]
           /\ Crash => mishaps'["crash"] > 0 \/ mishaps'["loss"] > 0
           /\ Crash /\ mishaps'["loss"] = 0 => queue' = queue \union {worker.task}
           /\ Fail => mishaps'["failure"] > 0
           /\ CloseOut => mishaps'["sweep"] > 0
<1>1. \A k \in Kinds : mishaps[k] \in Nat
  BY DEF RowsOK
<1>2. \A kind \in Kinds : Happen(kind) => /\ mishaps'[kind] = mishaps[kind] + 1
                                          /\ \A k \in Kinds \ {kind} : mishaps'[k] = mishaps[k]
  BY DEF Happen, RowsOK
<1>3. {"crash", "loss", "failure", "sweep"} = Kinds
  BY DEF Kinds
<1>4. (\E kind \in Kinds : Happen(kind)) \/ mishaps' = mishaps
  BY <1>3 DEF Next, vars, Deliver, Reground, ClaimNext, WriteProfile, FindThreats, WriteScenarios,
         Crash, Fail, CloseOut, Regenerate
<1>5. \A k \in Kinds : mishaps'[k] \in Nat /\ mishaps[k] <= mishaps'[k]
  BY <1>1, <1>2, <1>4
<1>6. /\ Crash => (Happen("crash") /\ queue' = queue \union {worker.task}) \/ Happen("loss")
      /\ Fail => Happen("failure")
      /\ CloseOut => Happen("sweep")
  BY DEF Crash, Fail, CloseOut
<1>7. \A kind \in Kinds : Happen(kind) => mishaps'[kind] > 0
  BY <1>1, <1>2
<1> QED BY <1>1, <1>3, <1>5, <1>6, <1>7

\* What the task of a request finds when it is delivered: the scenarios it is about, or
\* the threats it is about, or, where these are gone, the ones it replaced them with.
Undone(t) ==
    /\ t.kind = "scenario" => requests[t.epoch].targets \subseteq outputs
    /\ t.kind = "threat" =>
        \/ /\ Level("THREATS").status = "IDLE" /\ Level("THREATS").attempts = 0
           /\ requests[t.epoch].targets \subseteq DOMAIN threats
        \/ /\ Level("THREATS").status \in Finished
           /\ ~(requests[t.epoch].targets \subseteq DOMAIN threats) /\ Resumable(t) # {}

\* Until the reaper fails a task that is still queued, one request's task is in flight,
\* while its scenarios are pending, and it can tell what is left of it.
CalmOK == mishaps.sweep = 0 =>
    /\ \A t \in InFlight : t.epoch = Level("SCENARIOS").epoch
    /\ InFlight # {} => Level("SCENARIOS").status \in Pending
    /\ Level("SCENARIOS").status \in Pending => Undone(TaskAt(Level("SCENARIOS").epoch))
    /\ worker.pc = "ask" /\ worker.task.kind = "threat" => Level("THREATS").status \in Finished

\* Until then, and if no task was lost, pending work that has attempts left has its task.
HeldOK == mishaps.loss + mishaps.sweep = 0 =>
    \A l \in WorkLevels : Level(l).status \in Pending /\ Open(board, l) =>
        \E t \in InFlight : t.epoch = Level(l).epoch

\* While it is calm the tasks in flight are one.
LEMMA CalmTask ==
    ASSUME IInv, EpochsOK, CalmOK, mishaps.sweep = 0, NEW t \in InFlight
    PROVE  /\ t = TaskAt(Level("SCENARIOS").epoch) /\ t.epoch = Level("SCENARIOS").epoch
           /\ \A x \in InFlight : x = t
           /\ Level("SCENARIOS").status \in Pending /\ Undone(t)
           /\ \A l \in LevelsOf(t.kind) : Level(l).epoch = t.epoch
<1>1. \A x \in InFlight : x = TaskAt(x.epoch) /\ x.epoch = Level("SCENARIOS").epoch
  BY DEF CalmOK, EpochsOK
<1>2. t = TaskAt(Level("SCENARIOS").epoch) /\ \A x \in InFlight : x = t
  BY <1>1
<1>3. \A l \in LevelsOf(t.kind) : t.epoch <= Level(l).epoch /\ l \in WorkLevels
  BY InFlightTasks DEF EpochsOK
<1>4. \A l \in WorkLevels : Level(l).epoch <= Level("SCENARIOS").epoch
                            /\ Level(l).epoch \in Nat /\ Level("SCENARIOS").epoch \in Nat
  BY HereIsAll, CellTypes DEF IInv, BoardOK, Ordered, Level, WorkLevels
<1>5. \A l \in LevelsOf(t.kind) : Level(l).epoch = t.epoch
  <2> TAKE l \in LevelsOf(t.kind)
  <2>1. t.epoch = Level("SCENARIOS").epoch
    BY <1>1
  <2> QED BY <1>3, <1>4, <2>1
<1> QED BY <1>1, <1>2, <1>5 DEF CalmOK

\* What regrounding makes of the threats it is about.
LEMMA RegroundRenews ==
    ASSUME IInv, RowsOK, FirstRunOK, Reground, NEW t, t = worker.task,
           NEW old, old = requests[t.epoch].targets
    PROVE  /\ t.kind = "threat" /\ old # {} /\ NewIds(Cardinality(old)) # {}
           /\ NewIds(Cardinality(old)) \intersect DOMAIN threats = {}
           /\ NewIds(Cardinality(old)) \subseteq Resumable(t)'
           /\ DOMAIN threats' = (DOMAIN threats \ old) \union NewIds(Cardinality(old))
<1>1. t.kind = "threat" /\ t.epoch \in DOMAIN requests /\ requests[t.epoch].kind = t.kind
  BY DEF Reground, IInv, WorkerOK, RequestsOK, InFlight
<1>2. requests[t.epoch].about = old
  BY <1>1 DEF IInv, RequestsOK
<1>3. IsFiniteSet(old) /\ old # {}
  BY <1>1 DEF RowsOK, FirstRunOK, Targeted
<1>4. Cardinality(old) \in Nat \ {0}
  BY <1>3, FS_CardinalityType, FS_EmptySet
<1>5. NewIds(Cardinality(old)) # {}
  <2>1. minted + 1 \in NewIds(Cardinality(old))
    BY <1>4 DEF NewIds, RowsOK
  <2> QED BY <2>1
<1>6. NewIds(Cardinality(old)) \intersect DOMAIN threats = {}
  BY <1>4, FreshIds DEF RowsOK
<1> QED BY <1>1, <1>2, <1>3, <1>5, <1>6, RegroundOrigins

\* A threat regeneration takes THREATS before it goes on with its scenarios.
LEMMA ThreatCourse ==
    ASSUME IInv, RowsOK, EpochsOK, StagesOK, FirstRunOK, NEW t, t.kind = "threat", Step(t),
           Undone(t), worker.pc = "ask" => Level("THREATS").status \in Finished
    PROVE  /\ Undone(t)'
           /\ \/ Level("THREATS")'.status \in Finished
              \/ worker'.pc = "ground"
              \/ worker' = Idle /\ (Hopeless(t) \/ Blocked(t))
<1> DEFINE Goal == /\ Undone(t)'
                   /\ \/ Level("THREATS")'.status \in Finished
                      \/ worker'.pc = "ground"
                      \/ worker' = Idle /\ (Hopeless(t) \/ Blocked(t))
<1>1. requests' = requests
  BY StepFacts
<1>2. ASSUME threats' = threats, Level("THREATS")' = Level("THREATS"),
             \/ Level("THREATS").status \in Finished
             \/ worker'.pc = "ground"
             \/ worker' = Idle /\ (Hopeless(t) \/ Blocked(t))
      PROVE  Goal
  BY <1>1, <1>2 DEF Undone, Resumable
<1>3. CASE t \in queue /\ Deliver(t)
  <2>1. threats' = threats /\ worker = Idle
    BY <1>3 DEF Deliver, StartPipeline, StartScenarios, StartBroad, StartThreats, Resume, rowVars,
           RowsOK
  <2>2. CASE Dropped /\ Hopeless(t)
    BY <1>2, <2>1, <2>2 DEF Dropped, Level
  <2>3. CASE StartThreats(t)
    <3>1. board' = board
      BY <2>3 DEF StartThreats
    <3>2. worker'.pc = "ground" \/ worker' = Idle
      BY <2>3 DEF StartThreats, Idle
    <3>3. worker' = Idle => Hopeless(t) \/ Blocked(t)
      <4>1. /\ requests[t.epoch].targets \subseteq DOMAIN threats
            /\ worker' = Idle => ~Claimable(board, Here, "THREATS", t)
        BY <2>3 DEF StartThreats, Idle
      <4>2. t \in InFlight /\ t = TaskAt(t.epoch)
        BY StepFacts, InFlightTasks
      <4>3. Claimable(board, Here, "THREATS", t)
              <=> Level("THREATS").epoch = t.epoch /\ Open(board, "THREATS")
        BY <4>2, ClaimableIsOpen DEF WorkLevels, Level, IInv, BoardOK, EpochsOK
      <4> QED BY <4>1, <4>3 DEF Blocked
    <3> QED BY <1>2, <2>1, <3>1, <3>2, <3>3 DEF Level
  <2>4. ASSUME NEW levels \in SUBSET LevelsOf(t.kind), NEW list, NEW targets,
               Onward(board, t, levels, list, targets), StartsWith(t, levels, list, targets)
        PROVE  Goal
    <3>1. levels = {"SCENARIOS"} /\ ~(requests[t.epoch].targets \subseteq DOMAIN threats)
      BY <2>4 DEF StartsWith
    <3>2. Level("THREATS").status \in Finished
      BY <3>1 DEF Undone
    <3>3. {"SCENARIOS"} \in SUBSET WorkLevels /\ "THREATS" \in WorkLevels \ {"SCENARIOS"}
      BY DEF WorkLevels
    <3>4. Level("THREATS")' = Level("THREATS")
      BY <2>4, <3>1, <3>3, OnwardCells DEF Level
    <3> QED BY <1>2, <2>1, <3>2, <3>4
  <2> QED BY <1>3, <2>2, <2>3, <2>4, DeliverOnward
<1>4. CASE t = worker.task /\ Reground
  <2> PICK old : old = requests[t.epoch].targets
    OBVIOUS
  <2>1. /\ old # {} /\ NewIds(Cardinality(old)) # {}
        /\ NewIds(Cardinality(old)) \intersect DOMAIN threats = {}
        /\ NewIds(Cardinality(old)) \subseteq Resumable(t)'
        /\ DOMAIN threats' = (DOMAIN threats \ old) \union NewIds(Cardinality(old))
    BY <1>4, RegroundRenews
  <2>2. PICK done \in Board :
          /\ Open(board, "THREATS") /\ Ends(board, "THREATS", done)
          /\ Onward(done, t, {"SCENARIOS"}, DOMAIN threats', NewIds(Cardinality(old)))
    BY <1>4, RegroundOnward
  <2>3. {"SCENARIOS"} \in SUBSET WorkLevels /\ "THREATS" \in WorkLevels \ {"SCENARIOS"}
    BY DEF WorkLevels
  <2>4. Level("THREATS")' = done[Here]["THREATS"]
    BY <2>2, <2>3, OnwardCells DEF Level
  <2>5. Level("THREATS")'.status \in Finished
    BY <2>2, <2>4 DEF Ends, FinalOf, Finished
  <2>6. old \subseteq DOMAIN threats
    BY <2>2 DEF Undone, Open, Level
  <2>7. ~(old \subseteq DOMAIN threats') /\ Resumable(t)' # {}
    BY <2>1, <2>6
  <2> QED BY <1>1, <2>5, <2>7 DEF Undone
<1>5. CASE t = worker.task /\ ClaimNext
  BY <1>5 DEF ClaimNext, IInv, WorkerOK
<1>6. CASE t = worker.task /\ Writes
  <2>1. worker.pc = "ask" /\ worker.stage = "SCENARIOS" /\ "SCENARIOS" \in WorkLevels
    BY <1>6, WritesFinish DEF IInv, WorkerOK, Targeted
  <2>2. threats' = threats
    BY <1>6, <2>1 DEF Writes, WriteProfile, FindThreats, WriteScenarios
  <2>3. Level("THREATS")' = Level("THREATS")
    <3>1. PICK list, targets : Finish("SCENARIOS", list, targets)
      BY <1>6, <2>1, WritesFinish
    <3>2. "THREATS" \in WorkLevels \ {"SCENARIOS"} /\ Later("SCENARIOS") = {}
      BY DEF WorkLevels, Later
    <3> QED BY <2>1, <3>1, <3>2, WriteCells
  <2> QED BY <1>2, <2>1, <2>2, <2>3
<1> QED BY <1>3, <1>4, <1>5, <1>6 DEF Step

\* A step of a scenario regeneration leaves the scenarios it is about, until it has
\* written them.
LEMMA ScenarioCourse ==
    ASSUME IInv, RowsOK, EpochsOK, StagesOK, NEW t, t.kind = "scenario", Step(t), Undone(t),
           Level("SCENARIOS")'.status \in Pending
    PROVE  Undone(t)'
<1>1. requests' = requests
  BY StepFacts
<1>2. outputs' = outputs
  <2>1. CASE t \in queue /\ Deliver(t)
    BY <2>1 DEF Deliver, StartPipeline, StartScenarios, StartBroad, StartThreats, Resume, rowVars
  <2>2. CASE t = worker.task /\ Reground
    BY <2>2 DEF Reground, IInv, WorkerOK
  <2>3. CASE ClaimNext \/ WriteProfile \/ FindThreats
    BY <2>3 DEF ClaimNext, WriteProfile, FindThreats, rowVars
  <2>4. CASE WriteScenarios
    <3>1. /\ worker.pc = "ask" /\ worker.stage = "SCENARIOS" /\ Finish("SCENARIOS", {}, {})
          /\ "SCENARIOS" \in WorkLevels
      BY <2>4 DEF WriteScenarios, WorkLevels
    <3>2. Level("SCENARIOS")'.status = FinalOf("SCENARIOS")
      BY <3>1, WriteCells
    <3> QED BY <3>2 DEF FinalOf, Pending
  <2> QED BY <2>1, <2>2, <2>3, <2>4 DEF Step, Writes
<1> QED BY <1>1, <1>2 DEF Undone

LEMMA StepCalm ==
    ASSUME IInv, RowsOK, EpochsOK, StagesOK, FirstRunOK, CalmOK, NEW t, Step(t)
    PROVE  CalmOK'
<1> SUFFICES ASSUME mishaps.sweep = 0 PROVE CalmOK'
  BY StepFacts DEF CalmOK
<1>1. /\ t \in InFlight /\ Moves(t) /\ requests' = requests /\ mishaps' = mishaps
      /\ InFlight' = IF worker' = Idle THEN InFlight \ {t} ELSE InFlight
  BY StepFacts
<1>2. /\ t = TaskAt(Level("SCENARIOS").epoch) /\ t.epoch = Level("SCENARIOS").epoch
      /\ \A x \in InFlight : x = t
      /\ Level("SCENARIOS").status \in Pending /\ Undone(t)
  BY <1>1, CalmTask
<1>3. Level("SCENARIOS")'.epoch = t.epoch /\ TaskAt(Level("SCENARIOS").epoch)' = t
  <2>1. \A e : TaskAt(e)' = TaskAt(e)
    BY <1>1 DEF TaskAt
  <2>2. Level("SCENARIOS")'.epoch = Level("SCENARIOS").epoch
    <3>1. Tends(board, board')
      BY OrdinaryStep DEF Step, Ordinary
    <3> QED BY <3>1 DEF Tends, Level, WorkLevels
  <2>3. PICK e : e = Level("SCENARIOS").epoch
    OBVIOUS
  <2>4. TaskAt(e)' = t /\ e = Level("SCENARIOS")'.epoch
    BY <1>2, <2>1, <2>2, <2>3
  <2> QED BY <1>2, <2>2, <2>4 DEF TaskAt
<1>4. \A x \in InFlight' : x.epoch = Level("SCENARIOS")'.epoch
  BY <1>1, <1>2, <1>3
<1>5. InFlight' # {} => Level("SCENARIOS")'.status \in Pending
  BY <1>1, <1>2 DEF Moves, Pending
<1>6. t.kind = "threat" =>
        /\ Undone(t)'
        /\ worker'.pc = "ask" => Level("THREATS")'.status \in Finished
  <2> SUFFICES ASSUME t.kind = "threat"
               PROVE  /\ Undone(t)'
                      /\ worker'.pc = "ask" => Level("THREATS")'.status \in Finished
    OBVIOUS
  <2>1. worker.pc = "ask" => Level("THREATS").status \in Finished
    BY <1>2 DEF CalmOK, InFlight
  <2> QED BY <1>2, <2>1, ThreatCourse, IdleRemembers
<1>7. Level("SCENARIOS")'.status \in Pending => Undone(t)'
  <2>1. t.kind \notin {"scenario", "threat"} => Undone(t)'
    BY DEF Undone
  <2> QED BY <1>2, <1>6, <2>1, ScenarioCourse
<1>8. worker'.pc = "ask" /\ worker'.task.kind = "threat" => Level("THREATS")'.status \in Finished
  BY <1>1, <1>6, IdleRemembers DEF Moves
<1>9. Level("SCENARIOS")'.status \in Pending => Undone(TaskAt(Level("SCENARIOS").epoch))'
  <2>1. PICK x : x = TaskAt(Level("SCENARIOS").epoch)'
    OBVIOUS
  <2>2. x = t
    BY <1>3, <2>1
  <2>3. Level("SCENARIOS")'.status \in Pending => Undone(x)'
    BY <1>7, <2>2
  <2> QED BY <2>1, <2>3 DEF Undone, Resumable
<1> QED BY <1>4, <1>5, <1>8, <1>9 DEF CalmOK

\* A failed delivery leaves nothing pending and no task.
LEMMA FailedCalm ==
    ASSUME IInv, RowsOK, EpochsOK, StagesOK, CalmOK, Fail, mishaps.sweep = 0
    PROVE  InFlight' = {} /\ \A l \in WorkLevels : Level(l)'.status \notin Pending
<1>1. worker.pc # "idle" /\ worker' = Idle /\ queue' = queue
      /\ board' = FailPending(board, {Here})
  BY DEF Fail
<1>2. InFlight' = {}
  <2>1. worker.task \in InFlight /\ \A x \in queue : x \in InFlight
    BY <1>1 DEF InFlight
  <2>2. \A x \in queue : x = worker.task
    BY <2>1, CalmTask
  <2>3. queue = {}
    BY <1>1, <2>2 DEF EpochsOK
  <2> QED BY <1>1, <2>3, IdleRemembers DEF InFlight
<1>3. \A l \in WorkLevels : \/ board'[Here][l] = board[Here][l] /\ board[Here][l].status \notin Pending
                            \/ board'[Here][l].status = "ERROR"
  BY <1>1, HereIsAll, FailPendingCells DEF IInv, BoardOK
<1> QED BY <1>2, <1>3 DEF Level, Pending

LEMMA RegenerateCalm ==
    ASSUME IInv, RowsOK, EpochsOK, CalmOK, HeldOK, NEW kind \in Granularities, Regenerate(kind)
    PROVE  CalmOK' /\ HeldOK'
<1> PICK e : e = Level("SCENARIOS").epoch + 1
  OBVIOUS
<1> PICK t : t = TaskAt(e)'
  OBVIOUS
<1>1. /\ requests'[e].kind = kind /\ requests'[e].targets \in Targets(kind)
      /\ queue' = queue \union {t} /\ worker' = worker /\ worker.pc = "idle"
      /\ t.kind = kind /\ t.epoch = e
      /\ \A l \in WorkLevels :
           IF l \in LevelsOf(kind)
           THEN Level(l)'.status = "IDLE" /\ Level(l)'.epoch = e /\ Level(l)'.attempts = 0
           ELSE Level(l)' = Level(l)
      /\ Resting /\ UNCHANGED <<rowVars, mishaps>>
  BY Requested
<1>2. InFlight' = InFlight \union {t}
  BY <1>1 DEF InFlight
<1>3. /\ "SCENARIOS" \in LevelsOf(kind) /\ "SCENARIOS" \in WorkLevels
      /\ kind = "threat" => "THREATS" \in LevelsOf(kind) /\ "THREATS" \in WorkLevels
  BY LevelsTyped DEF TaskKinds, LevelsOf, WorkLevels
<1>4. mishaps.sweep = 0 => InFlight = {}
  BY <1>1, <1>3 DEF CalmOK, Resting
<1>5. Level("SCENARIOS")'.epoch = e /\ TaskAt(Level("SCENARIOS").epoch)' = t
      /\ Level("SCENARIOS")'.status \in Pending
  <2>1. Level("SCENARIOS")'.epoch = e /\ Level("SCENARIOS")'.status = "IDLE"
    BY <1>1, <1>3
  <2>2. TaskAt(Level("SCENARIOS").epoch)' = t
    BY <2>1 DEF TaskAt
  <2> QED BY <2>1, <2>2 DEF Pending
<1>6. Undone(t)'
  <2>1. kind \in Targeted =>
          requests'[e].targets \subseteq IF kind = "scenario" THEN outputs ELSE DOMAIN threats
    BY <1>1, TargetsNamed
  <2>2. UNCHANGED <<outputs, threats>>
    BY <1>1 DEF rowVars
  <2> QED BY <1>1, <1>3, <2>1, <2>2 DEF Undone, Targeted
<1>7. CalmOK'
  <2>1. PICK x : x = TaskAt(Level("SCENARIOS").epoch)'
    OBVIOUS
  <2>2. Undone(x)'
    BY <1>5, <1>6, <2>1
  <2>3. Undone(TaskAt(Level("SCENARIOS").epoch))'
    BY <2>1, <2>2 DEF Undone, Resumable
  <2> QED BY <1>1, <1>2, <1>4, <1>5, <2>3 DEF CalmOK
<1>8. HeldOK'
  <2> SUFFICES ASSUME NEW l \in WorkLevels, Level(l)'.status \in Pending
               PROVE  \E x \in InFlight' : x.epoch = Level(l)'.epoch
    BY DEF HeldOK
  <2>1. l \in LevelsOf(kind) /\ Level(l)'.epoch = e
    BY <1>1 DEF Resting
  <2> QED BY <1>1, <1>2, <2>1
<1> QED BY <1>7, <1>8

LEMMA NextCalm ==
    ASSUME IInv, RowsOK, EpochsOK, StagesOK, FirstRunOK, CalmOK, HeldOK, [Next]_vars
    PROVE  CalmOK'
<1>1. CASE UNCHANGED vars
  BY <1>1 DEF vars, rowVars, CalmOK, InFlight, Level, Undone, Resumable, TaskAt
<1>2. ASSUME NEW t, Step(t) PROVE CalmOK'
  BY <1>2, StepCalm
<1>3. CASE Crash
  <2>1. UNCHANGED <<board, rowVars, requests>> /\ worker' = Idle
    BY <1>3 DEF Crash
  <2>2. InFlight' \subseteq InFlight
    BY <1>3, OrdinaryStep DEF Ordinary
  <2>3. mishaps.sweep \in Nat /\ mishaps'.sweep \in Nat /\ mishaps.sweep <= mishaps'.sweep
    BY CountsGrow DEF Kinds
  <2>4. mishaps'.sweep = 0 => mishaps.sweep = 0
    BY <2>3
  <2> QED BY <2>1, <2>2, <2>4, IdleRemembers DEF CalmOK, rowVars, Level, Undone, Resumable, TaskAt
<1>4. CASE Fail
  <2>1. mishaps.sweep \in Nat /\ mishaps'.sweep \in Nat /\ mishaps.sweep <= mishaps'.sweep
    BY CountsGrow DEF Kinds
  <2>2. mishaps'.sweep = 0 => mishaps.sweep = 0
    BY <2>1
  <2>3. "SCENARIOS" \in WorkLevels /\ worker' = Idle
    BY <1>4 DEF WorkLevels, Fail
  <2> QED BY <1>4, <2>2, <2>3, FailedCalm, IdleRemembers DEF CalmOK
<1>5. CASE CloseOut
  BY <1>5, CountsGrow DEF CalmOK
<1>6. ASSUME NEW kind \in Granularities, Regenerate(kind) PROVE CalmOK'
  BY <1>6, RegenerateCalm
<1> QED BY <1>1, <1>2, <1>3, <1>4, <1>5, <1>6, NextIsOrdinary DEF Ordinary, Step

\* A delivery that ends leaves no level that its task could still take.
LEMMA StepHeld ==
    ASSUME IInv, RowsOK, EpochsOK, StagesOK, FirstRunOK, CalmOK, HeldOK, NEW t, Step(t)
    PROVE  HeldOK'
<1>1. /\ t \in InFlight /\ Moves(t) /\ Busies(t) /\ requests' = requests /\ mishaps' = mishaps
      /\ InFlight' = IF worker' = Idle THEN InFlight \ {t} ELSE InFlight
  BY StepFacts
<1>2. mishaps.loss \in Nat /\ mishaps.sweep \in Nat
  BY DEF RowsOK, Kinds
<1> SUFFICES ASSUME mishaps.loss = 0, mishaps.sweep = 0,
                    NEW l \in WorkLevels, Level(l)'.status \in Pending, Open(board', l)
             PROVE  \E x \in InFlight' : x.epoch = Level(l)'.epoch
  BY <1>1, <1>2 DEF HeldOK, Open
<1>3. /\ t.epoch = Level("SCENARIOS").epoch /\ \A x \in InFlight : x = t
      /\ Level("SCENARIOS").status \in Pending /\ Undone(t)
      /\ \A k \in LevelsOf(t.kind) : Level(k).epoch = t.epoch
  BY <1>1, CalmTask
<1>4. Level(l)'.epoch = Level(l).epoch /\ Open(board, l)
  <2>1. Tends(board, board')
    BY OrdinaryStep DEF Step, Ordinary
  <2> QED BY <2>1 DEF Tends, Level
<1>5. Level(l).epoch = t.epoch
  <2>1. CASE Level(l).status \in Pending
    <3>1. PICK x \in InFlight : x.epoch = Level(l).epoch
      BY <1>4, <2>1 DEF HeldOK
    <3> QED BY <1>3, <3>1
  <2> QED BY <1>1, <2>1 DEF Busies
<1>6. CASE worker' # Idle
  BY <1>1, <1>4, <1>5, <1>6
<1>7. CASE worker' = Idle
  <2>1. l \in LevelsOf(t.kind)
    BY <1>1, <1>5, InFlightTasks DEF EpochsOK
  <2>2. ~Hopeless(t)
    BY <1>3 DEF Hopeless, Undone
  <2>3. ~Blocked(t)
    <3> SUFFICES ASSUME Blocked(t) PROVE FALSE
      OBVIOUS
    <3>1. Level("THREATS").status = "IDLE" /\ Level("THREATS").attempts = 0
          /\ "THREATS" \in LevelsOf(t.kind)
      BY <1>3 DEF Blocked, Undone, LevelsOf
    <3>2. Open(board, "THREATS")
      BY <3>1, MaxAttemptsAssumption DEF Open, Level, Finished
    <3> QED BY <1>3, <3>1, <3>2 DEF Blocked
  <2>4. Spent(board', t, Course(t))
    BY <1>1, <1>7, <2>2, <2>3, IdleRemembers DEF Moves
  <2>5. l \notin Course(t)
    BY <1>4, <1>5, <2>4 DEF Spent, Level
  <2>6. t.kind = "threat" /\ l = "THREATS"
    BY <2>1, <2>5 DEF Course, LevelsOf
  <2>7. worker.pc = "ask" => Level("THREATS").status \in Finished
    BY <1>3, <2>6 DEF CalmOK, InFlight
  <2>8. Level("THREATS")'.status \in Finished
    BY <1>3, <1>7, <2>2, <2>3, <2>6, <2>7, ThreatCourse, IdleRemembers
  <2> QED BY <2>6, <2>8 DEF Finished, Pending
<1> QED BY <1>6, <1>7

LEMMA NextHeld ==
    ASSUME IInv, RowsOK, EpochsOK, StagesOK, FirstRunOK, CalmOK, HeldOK, [Next]_vars
    PROVE  HeldOK'
<1>1. CASE UNCHANGED vars
  BY <1>1 DEF vars, HeldOK, InFlight, Level, Open
<1>2. ASSUME NEW t, Step(t) PROVE HeldOK'
  BY <1>2, StepHeld
<1>3. /\ mishaps.loss \in Nat /\ mishaps'.loss \in Nat /\ mishaps.loss <= mishaps'.loss
      /\ mishaps.sweep \in Nat /\ mishaps'.sweep \in Nat /\ mishaps.sweep <= mishaps'.sweep
  BY CountsGrow DEF Kinds
<1>4. mishaps'.loss + mishaps'.sweep = 0 =>
        mishaps'.loss = 0 /\ mishaps'.sweep = 0 /\ mishaps.loss + mishaps.sweep = 0
        /\ mishaps.sweep = 0
  BY <1>3
<1>5. CASE Crash
  <2> SUFFICES ASSUME mishaps'.loss + mishaps'.sweep = 0 PROVE HeldOK'
    BY DEF HeldOK
  <2>1. queue' = queue \union {worker.task}
    BY <1>4, <1>5, CountsGrow
  <2>2. worker.pc # "idle" /\ board' = board /\ worker' = Idle
    BY <1>5 DEF Crash
  <2>3. InFlight' = InFlight
    BY <2>1, <2>2, IdleRemembers DEF InFlight
  <2> QED BY <1>4, <2>2, <2>3 DEF HeldOK, Level, Open
<1>6. CASE Fail
  BY <1>4, <1>6, FailedCalm DEF HeldOK
<1>7. CASE CloseOut
  <2>1. mishaps'.sweep > 0
    BY <1>7, CountsGrow
  <2> QED BY <1>3, <2>1 DEF HeldOK
<1>8. ASSUME NEW kind \in Granularities, Regenerate(kind) PROVE HeldOK'
  BY <1>8, RegenerateCalm
<1> QED BY <1>1, <1>2, <1>5, <1>6, <1>7, <1>8, NextIsOrdinary DEF Ordinary, Step

LEMMA InitCalm == Init => CalmOK /\ HeldOK
<1> SUFFICES ASSUME Init PROVE CalmOK /\ HeldOK
  OBVIOUS
<1>1. \A l \in WorkLevels : Level(l) = SeededCell
  BY HereIsAll DEF Init, Level, SeededBoard, Levels
<1>2. \A l \in WorkLevels : Level(l).epoch = 1 /\ Level(l).status \in Pending
  BY <1>1 DEF SeededCell, Pending
<1>3. InFlight = {PipelineTask} /\ PipelineTask.epoch = 1 /\ worker.pc = "idle"
  BY DEF Init, InFlight, Idle, PipelineTask
<1>4. "SCENARIOS" \in WorkLevels
  BY DEF WorkLevels
<1>5. TaskAt(Level("SCENARIOS").epoch).kind = "pipeline"
  BY <1>2, <1>4 DEF TaskAt, Init
<1> QED BY <1>2, <1>3, <1>4, <1>5 DEF CalmOK, HeldOK, Undone

\* The inductive invariant so far.
WorkInv ==
    /\ IInv /\ RowsOK /\ ScenariosMatchScorings /\ EpochsOK /\ StagesOK
    /\ FirstRunOK /\ CalmOK /\ HeldOK

LEMMA InitWork == Init => WorkInv
BY InitIInv, InitRows, InitMatches, InitEpochs, InitFirst, InitCalm DEF WorkInv

LEMMA NextWork == WorkInv /\ [Next]_vars => WorkInv'
BY NextIInv, NextRows, NextMatches, NextEpochs, NextFirst, NextCalm, NextHeld DEF WorkInv

\* Pending work of a supporting system has its task, at the broker or in a worker's
\* hands, unless its attempts are used up, a task was lost or the reaper failed a task
\* that was still queued: however a delivery crashes, between whichever commits, its
\* redelivery can tell from the rows and the board what is left to do.
THEOREM PendingWorkHasTask == Spec => []WorkHasTask
<1>1. IInv /\ RowsOK /\ HeldOK => WorkHasTask
  <2> SUFFICES ASSUME IInv, RowsOK, HeldOK, NEW l \in WorkLevels, Level(l).status \in Pending,
                      Level(l).attempts # MaxAttempts, ~(mishaps.loss + mishaps.sweep > 0)
               PROVE  \E t \in InFlight : t.epoch = Level(l).epoch
    BY DEF WorkHasTask
  <2>1. mishaps.loss + mishaps.sweep = 0
    BY DEF RowsOK, Kinds
  <2>2. Level(l).attempts < MaxAttempts
    <3>1. Level(l).attempts \in 0..MaxAttempts
      BY CellTypes DEF Level, IInv, BoardOK
    <3> QED BY <3>1, MaxAttemptsAssumption
  <2>3. Open(board, l)
    BY <2>2 DEF Open, Level, Pending, Finished
  <2> QED BY <2>1, <2>3 DEF HeldOK
<1> QED BY <1>1, InitWork, NextWork, PTL DEF WorkInv, Spec

-----------------------------------------------------------------------------
(* Scenarios of threats that are gone.                                     *)

\* What excuses an orphan, for good or until a profile regeneration is done.
Excused == Asked(ByType) \/ (Asked({"profile"}) /\ mishaps.failure + mishaps.sweep > 0)

OrphansOK ==
    \/ Orphans = {} \/ Excused
    \/ /\ Level("SCENARIOS").status \in Pending
       /\ TaskAt(Level("SCENARIOS").epoch).kind = "profile"

\* Nothing that was asked is forgotten.
LEMMA ExcusedForGood ==
    ASSUME IInv, RowsOK, EpochsOK, [Next]_vars
    PROVE  /\ \A kinds : Asked(kinds) => Asked(kinds)'
           /\ Excused => Excused'
<1>1. \A k \in Kinds : mishaps[k] \in Nat /\ mishaps'[k] \in Nat /\ mishaps[k] <= mishaps'[k]
  BY CountsGrow
<1>2. mishaps.failure + mishaps.sweep > 0 => mishaps'.failure + mishaps'.sweep > 0
  BY <1>1 DEF Kinds
<1>3. \A e \in DOMAIN requests : e \in DOMAIN requests' /\ requests'[e] = requests[e]
  <2>1. CASE requests' = requests
    BY <2>1
  <2>2. ASSUME NEW kind \in Granularities, Regenerate(kind)
        PROVE  \A e \in DOMAIN requests : e \in DOMAIN requests' /\ requests'[e] = requests[e]
    <3> PICK e : e = Level("SCENARIOS").epoch + 1
      OBVIOUS
    <3> QED BY <2>2, Requested
  <2>3. Ordinary => requests' = requests
    BY WritesFinish DEF Ordinary, Deliver, Reground, ClaimNext, Crash, Fail, CloseOut
  <2> QED BY <2>1, <2>2, <2>3, NextIsOrdinary DEF vars
<1>4. \A kinds : Asked(kinds) => Asked(kinds)'
  BY <1>3 DEF Asked
<1> QED BY <1>2, <1>4 DEF Excused

\* The task that asks is among those that were asked, and while the reaper kept off it
\* is the latest one.
LEMMA AskedKinds ==
    ASSUME IInv, EpochsOK, CalmOK, NEW t \in InFlight
    PROVE  /\ \A kinds : t.kind \in kinds => Asked(kinds)
           /\ mishaps.sweep = 0 => t = TaskAt(Level("SCENARIOS").epoch)
<1>1. t.epoch \in DOMAIN requests /\ requests[t.epoch].kind = t.kind
  BY InFlightTasks
<1> QED BY <1>1, CalmTask DEF Asked

LEMMA LatestAsked ==
    ASSUME EpochsOK
    PROVE  \A kinds : TaskAt(Level("SCENARIOS").epoch).kind \in kinds => Asked(kinds)
<1>1. Level("SCENARIOS").epoch \in DOMAIN requests
  BY DEF EpochsOK, WorkLevels
<1> QED BY <1>1 DEF Asked, TaskAt

\* Another task than the latest one's, or one that is not a profile regeneration, finds
\* no orphan excused by a profile regeneration that is not done.
LEMMA NotProfile ==
    ASSUME IInv, RowsOK, EpochsOK, CalmOK, OrphansOK, ~Excused, NEW t \in InFlight,
           t.kind # "profile"
    PROVE  Orphans = {}
<1> SUFFICES ASSUME TaskAt(Level("SCENARIOS").epoch).kind = "profile" PROVE FALSE
  BY DEF OrphansOK
<1>1. mishaps.failure \in Nat /\ mishaps.sweep \in Nat
  BY DEF RowsOK, Kinds
<1>2. Asked({"profile"})
  BY LatestAsked
<1>3. mishaps.sweep = 0
  BY <1>1, <1>2 DEF Excused
<1> QED BY <1>3, AskedKinds

\* Regrounding takes the scenarios of the threats it replaces.
LEMMA RegroundOrphans ==
    ASSUME IInv, RowsOK, FirstRunOK, ScenariosMatchScorings, Reground
    PROVE  Orphans' \subseteq Orphans
<1> PICK t : t = worker.task
  OBVIOUS
<1> PICK old : old = requests[t.epoch].targets
  OBVIOUS
<1>1. DOMAIN threats' = (DOMAIN threats \ old) \union NewIds(Cardinality(old))
  BY RegroundRenews
<1>2. outputs' = outputs \ ScoringsOf(old)
  BY DEF Reground, Lineage
<1>3. \A s \in outputs : ThreatOf(s) \in old => s \in ScoringsOf(old)
  BY DEF ScoringsOf, ScenariosMatchScorings
<1> QED BY <1>1, <1>2, <1>3 DEF Orphans

\* A scenario is written for an active threat.
LEMMA WriteOrphans ==
    ASSUME RowsOK, WriteScenarios
    PROVE  /\ Orphans' \subseteq Orphans
           /\ worker.task.kind \in {"pipeline", "profile"} => Orphans' = {}
<1> DEFINE t == worker.task
           unscoped == t.kind \in {"pipeline", "profile"}
           list == [a \in worker.list |-> threats[a]]
           chosen == Selection(list, cutoff.threshold, cutoff.topN)
           written == IF unscoped THEN worker.list ELSE worker.list \intersect worker.targets
           retired == IF unscoped THEN DOMAIN scoped ELSE ScoringsOf(worker.targets)
           stamp == minted + 1
           fresh == [s \in {<<stamp, a>> : a \in written} |-> ThreatOf(s) \in chosen]
<1>1. /\ outputs' = (outputs \ RetiredScenarios(t, retired)) \union {s \in DOMAIN fresh : fresh[s]}
      /\ threats' = threats
  BY DEF WriteScenarios
<1>2. \A s \in DOMAIN fresh : ThreatOf(s) \in DOMAIN threats
  <2>1. written \subseteq DOMAIN threats
    BY DEF RowsOK
  <2> QED BY <2>1 DEF ThreatOf
<1>3. t.kind \in {"pipeline", "profile"} => RetiredScenarios(t, retired) = outputs
  BY DEF RetiredScenarios
<1> HIDE DEF fresh, retired, t
<1>4. Orphans' \subseteq Orphans
  BY <1>1, <1>2 DEF Orphans
<1>5. t.kind \in {"pipeline", "profile"} => Orphans' = {}
  BY <1>1, <1>2, <1>3 DEF Orphans
<1> QED BY <1>4, <1>5 DEF t

LEMMA StepOrphans ==
    ASSUME IInv, RowsOK, EpochsOK, StagesOK, FirstRunOK, CalmOK, CalmOK',
           ScenariosMatchScorings, OrphansOK, NEW t, Step(t)
    PROVE  OrphansOK'
<1>1. t \in InFlight /\ Moves(t) /\ requests' = requests /\ mishaps' = mishaps
  BY StepFacts
<1>2. Excused' = Excused
  BY <1>1 DEF Excused, Asked
<1> SUFFICES ASSUME ~Excused PROVE OrphansOK'
  BY <1>2 DEF OrphansOK
<1>3. mishaps.failure \in Nat /\ mishaps.sweep \in Nat
  BY DEF RowsOK, Kinds
<1>4. /\ \A kinds : t.kind \in kinds => Asked(kinds)
      /\ mishaps.sweep = 0 => t = TaskAt(Level("SCENARIOS").epoch)
  BY <1>1, AskedKinds
<1>5. CASE t.kind # "profile"
  <2>1. Orphans = {} /\ t.kind \notin ByType
    BY <1>1, <1>4, <1>5, NotProfile DEF Excused
  <2>2. CASE UNCHANGED <<threats, outputs>>
    BY <2>1, <2>2 DEF Orphans, OrphansOK
  <2>3. CASE Reground \/ WriteScenarios
    BY <2>1, <2>3, RegroundOrphans, WriteOrphans DEF OrphansOK
  <2>4. CASE FindThreats /\ t = worker.task
    <3>1. t.kind = "pipeline" /\ outputs' = outputs
      <4>1. worker.pc = "ask" /\ worker.stage = "THREATS" /\ t.kind \in TaskKinds
            /\ outputs' = outputs
        BY <1>1, <2>4, InFlightTasks DEF FindThreats, Task
      <4>2. t.kind \notin Targeted
        BY <2>4, <4>1 DEF IInv, WorkerOK
      <4> QED BY <1>5, <2>1, <4>1, <4>2 DEF TaskKinds, Granularities, Targeted, ByType
    <3>2. outputs = {}
      BY <2>4, <3>1 DEF FindThreats, FirstRunOK
    <3> QED BY <3>1, <3>2 DEF Orphans, OrphansOK
  <2> QED BY <2>2, <2>3, <2>4
          DEF Step, Writes, Deliver, StartPipeline, StartScenarios, StartBroad, StartThreats,
              Resume, ClaimNext, WriteProfile, rowVars
<1>6. CASE t.kind = "profile"
  <2>1. mishaps.sweep = 0
    BY <1>3, <1>4, <1>6 DEF Excused
  <2>2. Level("SCENARIOS").status \in Pending /\ t = TaskAt(Level("SCENARIOS").epoch)
    BY <1>1, <2>1, CalmTask
  <2>3. CASE WriteScenarios /\ t = worker.task
    BY <1>6, <2>3, WriteOrphans DEF OrphansOK
  <2>4. CASE ~(WriteScenarios /\ t = worker.task)
    <3>1. Level("SCENARIOS")'.status \in Pending
      <4>1. ~WriteScenarios
        <5>1. WriteScenarios => worker.pc # "idle"
          BY DEF WriteScenarios
        <5>2. worker.pc # "idle" => worker.task \in InFlight
          BY DEF InFlight
        <5> QED BY <1>1, <2>1, <2>4, <5>1, <5>2, CalmTask
      <4> QED BY <1>1, <2>2, <4>1 DEF Moves, Pending
    <3>2. TaskAt(Level("SCENARIOS").epoch)'.kind = "profile"
      <4>1. Tends(board, board')
        BY OrdinaryStep DEF Step, Ordinary
      <4>2. Level("SCENARIOS")'.epoch = Level("SCENARIOS").epoch
        BY <4>1 DEF Tends, Level, WorkLevels
      <4> QED BY <1>1, <1>6, <2>2, <4>2 DEF TaskAt
    <3> QED BY <3>1, <3>2 DEF OrphansOK
  <2> QED BY <2>3, <2>4
<1> QED BY <1>5, <1>6

LEMMA NextOrphans ==
    ASSUME IInv, RowsOK, EpochsOK, StagesOK, FirstRunOK, CalmOK, CalmOK',
           ScenariosMatchScorings, OrphansOK, [Next]_vars
    PROVE  OrphansOK'
<1>1. ASSUME NEW t, Step(t) PROVE OrphansOK'
  BY <1>1, StepOrphans
<1>2. CASE UNCHANGED vars
  BY <1>2 DEF vars, rowVars, OrphansOK, Orphans, Excused, Asked, Level, TaskAt
<1>3. CASE Crash
  <2>1. UNCHANGED <<board, threats, outputs, requests>> /\ (Excused => Excused')
    BY <1>3, ExcusedForGood DEF Crash, rowVars
  <2> QED BY <2>1 DEF OrphansOK, Orphans, Level, TaskAt
<1>4. CASE Fail \/ CloseOut
  <2>1. UNCHANGED <<threats, outputs, requests>> /\ (Excused => Excused')
    BY <1>4, ExcusedForGood DEF Fail, CloseOut, rowVars
  <2>2. mishaps'.failure + mishaps'.sweep > 0
    <3>1. mishaps'.failure \in Nat /\ mishaps'.sweep \in Nat
      BY CountsGrow DEF Kinds
    <3> QED BY <1>4, <3>1, CountsGrow
  <2>3. TaskAt(Level("SCENARIOS").epoch).kind = "profile" => Excused'
    BY <2>1, <2>2, LatestAsked, ExcusedForGood DEF Excused
  <2> QED BY <2>1, <2>3 DEF OrphansOK, Orphans
<1>5. ASSUME NEW kind \in Granularities, Regenerate(kind) PROVE OrphansOK'
  <2>1. Resting /\ UNCHANGED rowVars /\ (Excused => Excused')
    BY <1>5, ExcusedForGood DEF Regenerate
  <2>2. Orphans = {} \/ Excused
    BY <2>1 DEF OrphansOK, Resting, WorkLevels
  <2> QED BY <2>1, <2>2 DEF OrphansOK, Orphans, rowVars
<1> QED BY <1>1, <1>2, <1>3, <1>4, <1>5, NextIsOrdinary DEF Ordinary, Step

\* An active scenario whose threat was superseded is left over by a type or category
\* regeneration, or by a profile regeneration that failed half-way or came late.
THEOREM OrphansAreExplained == Spec => []OrphansComeFromBroad
<1>1. OrphansOK => OrphansComeFromBroad
  BY DEF OrphansOK, OrphansComeFromBroad, Excused, Pending, Finished
<1>2. Init => OrphansOK
  BY DEF Init, OrphansOK, Orphans
<1>3. WorkInv /\ OrphansOK /\ [Next]_vars => OrphansOK'
  BY NextWork, NextOrphans DEF WorkInv
<1> QED BY <1>1, <1>2, <1>3, InitWork, NextWork, PTL DEF Spec

-----------------------------------------------------------------------------
(* Threats without a scoring record.                                       *)

Broad  == ByType \union {"profile"}
Gentle == mishaps.failure + mishaps.sweep = 0 /\ (mishaps.crash = 0 \/ ~Asked(Broad))

Fresh(b, l) == b[Here][l].status = "IDLE" /\ b[Here][l].attempts = 0

\* What task t would leave to score if its delivery began now.
Owes(t) ==
    /\ t.kind = "scenario" => Unscored = {}
    /\ t.kind = "threat" =>
        Unscored \subseteq IF Level("THREATS").status = "IDLE" THEN {} ELSE Resumable(t)
    /\ t.kind \in Broad /\ t \in queue =>
        /\ \A l \in LevelsOf(t.kind) : Fresh(board, l)
        /\ t.kind # "profile" => Unscored = {}

\* A delivery that reaches write_scenarios has all that lacks a record on its list.
Takes == worker.pc = "ask" =>
    /\ worker.task.kind \in Broad => \A l \in Later(worker.stage) : Fresh(board, l)
    /\ worker.stage = "THREATS" /\ worker.task.kind \in ByType => Unscored = {}
    /\ worker.stage = "SCENARIOS" =>
        IF worker.task.kind \in {"pipeline", "profile"} THEN worker.list = DOMAIN threats
        ELSE /\ worker.targets \intersect DOMAIN threats \subseteq worker.list
             /\ Unscored \subseteq worker.list \intersect worker.targets

\* While nothing failed, and no type, category or profile regeneration crashed, nothing
\* under review lacks its record.
ScoredOK == Gentle =>
    /\ \A l \in WorkLevels : Level(l).status # "ERROR"
    /\ Level("SCENARIOS").status \in Finished => Unscored = {}
    /\ Level("SCENARIOS").status \in Pending => Owes(TaskAt(Level("SCENARIOS").epoch))
    /\ Takes

\* Going on with fresh levels takes the first of them and leaves the others fresh.
LEMMA OnwardFresh ==
    ASSUME NEW b, NEW t, NEW levels, NEW list, NEW targets,
           levels \in {WorkLevels, {"THREATS", "SCENARIOS"}, {"SCENARIOS"}},
           Onward(b, t, levels, list, targets),
           \A l \in levels : b[Here][l].epoch = t.epoch /\ Fresh(b, l)
    PROVE  /\ worker'.pc = "ask" /\ worker'.task = t /\ worker'.stage \in levels
           /\ worker'.list = list /\ worker'.targets = targets
           /\ worker'.stage = "THREATS" => levels = {"THREATS", "SCENARIOS"}
           /\ worker'.stage = "SCENARIOS" => levels = {"SCENARIOS"}
           /\ \A l \in Later(worker'.stage) : Fresh(board', l)
<1>1. \A l \in levels : Open(b, l)
  BY MaxAttemptsAssumption DEF Fresh, Open, Finished
<1>2. "SCENARIOS" \in levels /\ levels \subseteq WorkLevels
  BY DEF WorkLevels
<1>3. ~Spent(b, t, levels)
  BY <1>1, <1>2 DEF Spent
<1>4. PICK l \in levels :
        /\ Claims(b, t, l, board')
        /\ worker' = [pc |-> "ask", task |-> t, stage |-> l, list |-> list,
                      targets |-> targets]
        /\ Spent(b, t, levels \ ({l} \union Later(l)))
  BY <1>3 DEF Onward
<1>5. /\ worker'.pc = "ask" /\ worker'.task = t /\ worker'.stage = l
      /\ worker'.list = list /\ worker'.targets = targets
  BY <1>4
<1>6. levels \subseteq {l} \union Later(l)
  BY <1>1, <1>4 DEF Spent
<1>7. /\ l = "THREATS" => levels = {"THREATS", "SCENARIOS"}
      /\ l = "SCENARIOS" => levels = {"SCENARIOS"}
      /\ Later(l) \subseteq levels \ {l}
  BY <1>4, <1>6 DEF Later, WorkLevels
<1>8. \A k \in Later(l) : board'[Here][k] = b[Here][k]
  BY <1>2, <1>4, <1>7 DEF Claims
<1>9. \A k \in Later(l) : Fresh(board', k)
  BY <1>7, <1>8 DEF Fresh
<1> QED BY <1>5, <1>7, <1>9

\* No step of a delivery that goes well fails a level or makes one idle.
LEMMA StepSettles ==
    ASSUME IInv, RowsOK, EpochsOK, StagesOK, NEW t, Step(t)
    PROVE  \A l \in WorkLevels : \/ Level(l)' = Level(l)
                                 \/ Level(l)'.status = "RUNNING" \/ Level(l)'.status \in Finished
<1> DEFINE Goal == \A l \in WorkLevels :
                      \/ Level(l)' = Level(l)
                      \/ Level(l)'.status = "RUNNING" \/ Level(l)'.status \in Finished
<1>1. t \in InFlight /\ LevelsOf(t.kind) \subseteq WorkLevels
  BY StepFacts, InFlightTasks
<1>2. ASSUME NEW levels \in SUBSET WorkLevels, NEW list, NEW targets,
             Onward(board, t, levels, list, targets)
      PROVE  Goal
  BY <1>2, OnwardCells DEF Level
<1>3. CASE t \in queue /\ Deliver(t)
  <2>1. CASE board' = board
    BY <2>1 DEF Level
  <2>2. ASSUME NEW levels \in SUBSET LevelsOf(t.kind), NEW list, NEW targets,
               Onward(board, t, levels, list, targets)
        PROVE  Goal
    BY <1>1, <1>2, <2>2
  <2> QED BY <1>3, <2>1, <2>2, DeliverOnward DEF Dropped, StartThreats
<1>4. CASE t = worker.task /\ Reground
  <2>1. PICK done \in Board :
          /\ Ends(board, "THREATS", done)
          /\ Onward(done, t, {"SCENARIOS"}, DOMAIN threats',
                    NewIds(Cardinality(requests[t.epoch].targets)))
    BY <1>4, RegroundOnward
  <2>2. {"SCENARIOS"} \in SUBSET WorkLevels /\ FinalOf("THREATS") \in Finished
    BY DEF WorkLevels, FinalOf, Finished
  <2>3. \A l \in WorkLevels : board'[Here][l] = done[Here][l] \/ board'[Here][l].status = "RUNNING"
    BY <2>1, <2>2, OnwardCells
  <2>4. \A l \in WorkLevels : done[Here][l] = board[Here][l] \/ done[Here][l].status \in Finished
    BY <2>1, <2>2 DEF Ends
  <2> QED BY <2>3, <2>4 DEF Level
<1>5. CASE t = worker.task /\ ClaimNext
  <2>1. /\ t.kind = "pipeline" /\ t \in Task /\ t = TaskAt(t.epoch) /\ LevelsOf(t.kind) = WorkLevels
    BY <1>1, <1>5, InFlightTasks DEF ClaimNext, IInv, WorkerOK, LevelsOf
  <2>2. PICK list : GoOn(board, t, Later(worker.stage), list, {})
    BY <1>5 DEF ClaimNext
  <2>3. Later(worker.stage) \in SUBSET WorkLevels
    BY DEF Later, WorkLevels
  <2>4. Onward(board, t, Later(worker.stage), list, {})
    BY <2>1, <2>2, <2>3, GoOnward DEF IInv, BoardOK, EpochsOK
  <2> QED BY <1>2, <2>3, <2>4
<1>6. CASE t = worker.task /\ Writes
  <2> PICK l : l = worker.stage
    OBVIOUS
  <2>1. worker.pc = "ask" /\ worker.stage \in WorkLevels
    BY <1>6, WritesFinish
  <2>2. PICK list, targets : Finish(worker.stage, list, targets)
    BY <1>6, WritesFinish
  <2>3. /\ Level(l)'.status = FinalOf(l)
        /\ \A k \in WorkLevels \ {l} : Level(k)' = Level(k) \/ Level(k)'.status = "RUNNING"
    <3>1. Finish(l, list, targets) /\ worker.stage = l /\ l \in WorkLevels
      BY <2>1, <2>2
    <3> QED BY <2>1, <3>1, WriteCells
  <2>4. FinalOf(l) \in Finished
    BY DEF FinalOf, Finished
  <2> QED BY <2>3, <2>4
<1> QED BY <1>3, <1>4, <1>5, <1>6 DEF Step

\* write_scenarios leaves no threat without a record.
LEMMA WriteScores == ASSUME RowsOK, WriteScenarios, Takes PROVE Unscored' = {}
<1> DEFINE t == worker.task
           unscoped == t.kind \in {"pipeline", "profile"}
           list == [a \in worker.list |-> threats[a]]
           chosen == Selection(list, cutoff.threshold, cutoff.topN)
           written == IF unscoped THEN worker.list ELSE worker.list \intersect worker.targets
           retired == IF unscoped THEN DOMAIN scoped ELSE ScoringsOf(worker.targets)
           stamp == minted + 1
           fresh == [s \in {<<stamp, a>> : a \in written} |-> ThreatOf(s) \in chosen]
<1>1. scoped' = With(Without(scoped, retired), fresh) /\ threats' = threats
  BY DEF WriteScenarios
<1>2. \A a \in written : <<stamp, a>> \in DOMAIN fresh /\ ThreatOf(<<stamp, a>>) = a
  BY DEF ThreatOf
<1>3. ASSUME NEW a \in DOMAIN threats, a \notin written
      PROVE  \E s \in DOMAIN scoped \ retired : ThreatOf(s) = a
  <2>1. ~unscoped /\ a \notin Unscored /\ a \notin worker.targets
    BY <1>3 DEF Takes, WriteScenarios
  <2>2. PICK s \in DOMAIN scoped : ThreatOf(s) = a
    BY <2>1 DEF Unscored, ScoringsOf
  <2>3. s \notin retired
    BY <2>1, <2>2 DEF ScoringsOf
  <2> QED BY <2>2, <2>3
<1> HIDE DEF written, retired, fresh, stamp
<1>4. DOMAIN scoped' = (DOMAIN scoped \ retired) \union DOMAIN fresh
  BY <1>1 DEF With, Without
<1>5. \A a \in DOMAIN threats : \E s \in DOMAIN scoped' : ThreatOf(s) = a
  BY <1>2, <1>3, <1>4
<1> QED BY <1>1, <1>5 DEF Unscored, ScoringsOf

\* Only new threats lack a record when there was none without before.
LEMMA RegroundScores ==
    ASSUME IInv, RowsOK, FirstRunOK, Reground, Unscored = {},
           NEW t, t = worker.task, NEW old, old = requests[t.epoch].targets
    PROVE  Unscored' \subseteq NewIds(Cardinality(old))
<1> PICK new : new = NewIds(Cardinality(old))
  OBVIOUS
<1>1. DOMAIN threats' = (DOMAIN threats \ old) \union new
  BY RegroundRenews
<1>2. DOMAIN scoped' = DOMAIN scoped \ ScoringsOf(old)
  BY DEF Reground, Lineage, Without
<1>3. ASSUME NEW a \in DOMAIN threats' \ new PROVE \E s \in DOMAIN scoped' : ThreatOf(s) = a
  <2>1. PICK s \in DOMAIN scoped : ThreatOf(s) = a
    BY <1>1 DEF Unscored, ScoringsOf
  <2> QED BY <1>1, <1>2, <2>1 DEF ScoringsOf
<1> QED BY <1>3 DEF Unscored, ScoringsOf

LEMMA FindScores ==
    ASSUME FindThreats, NEW t, t = worker.task, requests[t.epoch].kind = t.kind
    PROVE  \E n \in 0..MaxProposals :
              /\ Finish("THREATS", NewIds(n), NewIds(n))
              /\ NewIds(n) \subseteq DOMAIN threats'
              /\ t.kind = "profile" => DOMAIN threats' = NewIds(n)
              /\ Unscored = {} => Unscored' \subseteq NewIds(n)
<1> PICK n \in 0..MaxProposals : \E g \in [NewIds(n) -> Groundings] :
        /\ threats' = With(Without(threats, InScope(requests[t.epoch])),
                           [a \in NewIds(n) |-> Row(g[a], NoOrigin)])
        /\ Finish("THREATS", NewIds(n), NewIds(n))
  BY DEF FindThreats
<1>1. DOMAIN threats' = (DOMAIN threats \ InScope(requests[t.epoch])) \union NewIds(n)
  BY DEF With, Without
<1>2. scoped' = scoped
  BY DEF FindThreats
<1>3. t.kind = "profile" => InScope(requests[t.epoch]) = DOMAIN threats
  BY DEF InScope
<1>4. Unscored = {} => Unscored' \subseteq NewIds(n)
  BY <1>1, <1>2 DEF Unscored, ScoringsOf
<1>5. Finish("THREATS", NewIds(n), NewIds(n))
  OBVIOUS
<1> QED BY <1>1, <1>3, <1>4, <1>5

\* What a delivery starts with.
LEMMA DeliverTakes ==
    ASSUME IInv, RowsOK, EpochsOK, StagesOK, NEW t \in queue, Deliver(t), Undone(t), Owes(t),
           \A l \in LevelsOf(t.kind) : Level(l).epoch = t.epoch
    PROVE  Takes'
<1>1. t \in InFlight /\ t \in Task /\ LevelsOf(t.kind) \subseteq WorkLevels
  BY InFlightTasks DEF InFlight
<1>2. UNCHANGED <<threats, scoped>> /\ worker.pc = "idle" /\ worker = Idle
  BY DEF Deliver, StartPipeline, StartScenarios, StartBroad, StartThreats, Resume, rowVars, RowsOK
<1>3. CASE worker'.pc # "ask"
  BY <1>3 DEF Takes
<1>4. ASSUME NEW levels \in SUBSET LevelsOf(t.kind), NEW list, NEW targets,
             Onward(board, t, levels, list, targets), StartsWith(t, levels, list, targets)
      PROVE  Takes'
  <2>1. worker' = Idle \/ Asks(board, t, levels, list, targets)
    BY <1>1, <1>4, OnwardCells
  <2>2. Unscored' = Unscored
    BY <1>2 DEF Unscored, ScoringsOf
  <2>3. CASE t.kind \in Broad
    <3>1. levels = LevelsOf(t.kind) /\ \A l \in levels : Fresh(board, l)
      BY <1>4, <2>3 DEF StartsWith, Owes, Broad, ByType
    <3>2. /\ levels \in {WorkLevels, {"THREATS", "SCENARIOS"}, {"SCENARIOS"}}
          /\ levels # {"SCENARIOS"}
          /\ t.kind \in ByType => levels # WorkLevels
          /\ t.kind # "profile" => t.kind \in ByType
      BY <2>3, <3>1 DEF Broad, ByType, LevelsOf, WorkLevels
    <3>3. \A l \in levels : board[Here][l].epoch = t.epoch
      BY <3>1 DEF Level
    <3>4. /\ worker'.task = t
          /\ worker'.stage = "SCENARIOS" => levels = {"SCENARIOS"}
          /\ \A l \in Later(worker'.stage) : Fresh(board', l)
      BY <1>4, <3>1, <3>2, <3>3, OnwardFresh
    <3>5. t.kind \in ByType => Unscored' = {}
      BY <2>2, <2>3 DEF Owes, ByType
    <3> QED BY <3>2, <3>4, <3>5 DEF Takes
  <2>4. CASE t.kind \notin Broad /\ Asks(board, t, levels, list, targets)
    <3>1. worker'.task = t /\ worker'.list = list /\ worker'.targets = targets
      BY <2>4 DEF Asks
    <3>2. t.kind \in {"pipeline", "scenario", "threat"}
      BY <1>1, <2>4 DEF Task, TaskKinds, Granularities, Broad, ByType
    <3>3. list = DOMAIN threats
      BY <1>4, <3>2 DEF StartsWith, Targeted
    <3>4. t.kind = "scenario" => Unscored = {}
      BY DEF Owes
    <3>5. t.kind = "threat" => Unscored \subseteq targets
      <4> SUFFICES ASSUME t.kind = "threat" PROVE Unscored \subseteq targets
        OBVIOUS
      <4>1. targets = Resumable(t) /\ Level("THREATS").status \in Finished
        BY <1>4 DEF StartsWith, Undone
      <4> QED BY <4>1 DEF Owes, Finished
    <3>6. Unscored \subseteq DOMAIN threats /\ DOMAIN threats' = DOMAIN threats
      BY <1>2 DEF Unscored
    <3> QED BY <2>2, <2>4, <3>1, <3>2, <3>3, <3>4, <3>5, <3>6 DEF Takes, Broad, ByType
  <2> QED BY <1>3, <2>1, <2>3, <2>4, IdleRemembers
<1>5. Dropped \/ StartThreats(t) => worker'.pc # "ask"
  BY <1>2 DEF Dropped, StartThreats, Idle
<1> QED BY <1>3, <1>4, <1>5, DeliverOnward

\* What a stage hands on.
LEMMA WriteTakes ==
    ASSUME IInv, RowsOK, EpochsOK, StagesOK, Takes, NEW t, t = worker.task,
           WriteProfile \/ FindThreats,
           \A l \in LevelsOf(t.kind) : Level(l).epoch = t.epoch
    PROVE  Takes'
<1> PICK l : l = worker.stage
  OBVIOUS
<1>1. worker.pc = "ask" /\ l \in WorkLevels
  BY WritesFinish DEF Writes
<1>2. t \in InFlight /\ t \in Task /\ LevelsOf(t.kind) \subseteq WorkLevels
      /\ requests[t.epoch].kind = t.kind
  BY <1>1, InFlightTasks DEF InFlight
<1>3. l # "SCENARIOS" /\ t.kind \notin Targeted
  <2>1. l # "SCENARIOS"
    BY DEF WriteProfile, FindThreats
  <2> QED BY <1>1, <2>1 DEF IInv, WorkerOK
<1>4. CASE worker'.pc # "ask"
  BY <1>4 DEF Takes
<1>5. ASSUME NEW list, NEW targets, Finish(worker.stage, list, targets),
             worker'.pc = "ask"
      PROVE  /\ t.kind \in Broad /\ worker'.task = t
             /\ worker'.list = list /\ worker'.targets = targets
             /\ l = "PROFILE" => worker'.stage = "THREATS" /\ t.kind \notin ByType
             /\ l = "THREATS" => worker'.stage = "SCENARIOS"
             /\ \A k \in Later(worker'.stage) : Fresh(board', k)
  <2> DEFINE rest == LevelsOf(t.kind) \intersect Later(l)
  <2>1. PICK done \in Board :
          /\ Ends(board, l, done)
          /\ \/ /\ t.kind = "pipeline" /\ board' = done
                /\ worker' = [pc |-> "next", task |-> t, stage |-> l,
                              list |-> list, targets |-> worker.targets]
             \/ /\ t.kind = "pipeline" => l = "SCENARIOS"
                /\ Onward(done, t, rest, list, targets)
    BY <1>1, <1>5, WriteOnward
  <2>2. t.kind # "pipeline" /\ Onward(done, t, rest, list, targets)
    BY <1>3, <1>5, <2>1
  <2>3. t.kind \in Broad
    BY <1>2, <1>3, <2>2 DEF Task, TaskKinds, Granularities, Broad, ByType, Targeted
  <2>4. l \in LevelsOf(t.kind)
    BY <1>1 DEF StagesOK
  <2>5. /\ l = "PROFILE" => rest = {"THREATS", "SCENARIOS"} /\ t.kind \notin ByType
        /\ l = "THREATS" => rest = {"SCENARIOS"}
        /\ rest \subseteq WorkLevels \ {l}
        /\ l \in {"PROFILE", "THREATS"}
    BY <1>1, <1>2, <1>3, <2>3, <2>4 DEF LevelsOf, Later, WorkLevels, Broad, ByType
  <2>6. \A k \in rest : done[Here][k].epoch = t.epoch /\ Fresh(done, k)
    <3>1. \A k \in rest : done[Here][k] = board[Here][k]
      BY <2>1, <2>5 DEF Ends
    <3>2. \A k \in Later(l) : Fresh(board, k)
      BY <1>1, <2>3 DEF Takes
    <3> QED BY <3>1, <3>2 DEF Fresh, Level
  <2> HIDE DEF rest
  <2>7. /\ worker'.task = t /\ worker'.stage \in rest
        /\ worker'.list = list /\ worker'.targets = targets
        /\ worker'.stage = "SCENARIOS" => rest = {"SCENARIOS"}
        /\ \A k \in Later(worker'.stage) : Fresh(board', k)
    BY <2>2, <2>5, <2>6, OnwardFresh
  <2> QED BY <2>3, <2>5, <2>7
<1>6. CASE WriteProfile /\ worker'.pc = "ask"
  <2>1. l = "PROFILE" /\ Finish(worker.stage, {}, {})
    BY <1>6 DEF WriteProfile
  <2>2. /\ worker'.task = t /\ worker'.stage = "THREATS" /\ t.kind \notin ByType
        /\ \A k \in Later(worker'.stage) : Fresh(board', k)
    BY <1>5, <1>6, <2>1
  <2> QED BY <2>2 DEF Takes
<1>7. CASE FindThreats /\ worker'.pc = "ask"
  <2>1. PICK n \in 0..MaxProposals :
          /\ Finish("THREATS", NewIds(n), NewIds(n))
          /\ NewIds(n) \subseteq DOMAIN threats'
          /\ t.kind = "profile" => DOMAIN threats' = NewIds(n)
          /\ Unscored = {} => Unscored' \subseteq NewIds(n)
    BY <1>2, <1>7, FindScores
  <2>2. worker.stage = "THREATS"
    BY <1>7 DEF FindThreats
  <2>3. /\ t.kind \in Broad /\ worker'.task = t
        /\ worker'.list = NewIds(n) /\ worker'.targets = NewIds(n)
        /\ worker'.stage = "SCENARIOS"
        /\ \A k \in Later(worker'.stage) : Fresh(board', k)
    BY <1>5, <1>7, <2>1, <2>2
  <2>4. t.kind \in ByType => Unscored = {}
    BY <1>1, <2>2 DEF Takes
  <2>5. t.kind = "profile" \/ (t.kind \in ByType /\ t.kind \notin {"pipeline", "profile"})
    BY <2>3 DEF Broad, ByType
  <2> QED BY <2>1, <2>3, <2>4, <2>5 DEF Takes
<1> QED BY <1>4, <1>6, <1>7

\* A scenario or threat regeneration touches rows only when it grounds or writes.
LEMMA TargetedRows ==
    ASSUME IInv, NEW t, t.kind \in Targeted, Step(t)
    PROVE  Reground \/ WriteScenarios \/ UNCHANGED <<threats, scoped>>
<1>1. CASE t \in queue /\ Deliver(t)
  BY <1>1 DEF Deliver, StartPipeline, StartScenarios, StartBroad, StartThreats, Resume, rowVars
<1>2. CASE t = worker.task /\ (WriteProfile \/ FindThreats)
  BY <1>2 DEF WriteProfile, FindThreats, IInv, WorkerOK
<1>3. CASE ClaimNext
  BY <1>3 DEF ClaimNext, rowVars
<1> QED BY <1>1, <1>2, <1>3 DEF Step, Writes

LEMMA StepOwes ==
    ASSUME IInv, RowsOK, EpochsOK, StagesOK, FirstRunOK, NEW t, Step(t), Undone(t), Owes(t),
           Level("SCENARIOS")'.status \in Pending
    PROVE  Owes(t)'
<1>1. ~WriteScenarios
  <2> SUFFICES ASSUME WriteScenarios PROVE FALSE
    OBVIOUS
  <2>1. /\ worker.pc = "ask" /\ worker.stage = "SCENARIOS" /\ Finish("SCENARIOS", {}, {})
        /\ "SCENARIOS" \in WorkLevels
    BY DEF WriteScenarios, WorkLevels
  <2>2. Level("SCENARIOS")'.status = FinalOf("SCENARIOS")
    BY <2>1, WriteCells
  <2> QED BY <2>2 DEF FinalOf, Pending
<1>2. t \notin queue'
  <2>1. CASE t \in queue /\ Deliver(t)
    BY <2>1 DEF Deliver, TakenFrom
  <2>2. CASE t = worker.task /\ (Reground \/ ClaimNext \/ Writes)
    <3>1. queue' = queue /\ worker.pc # "idle"
      BY <2>2, WritesFinish DEF Reground, ClaimNext
    <3> QED BY <2>2, <3>1 DEF EpochsOK
  <2> QED BY <2>1, <2>2 DEF Step
<1>3. requests' = requests
  BY StepFacts
<1>4. CASE t.kind \notin Targeted
  BY <1>2, <1>4 DEF Owes, Targeted
<1>5. CASE t.kind \in Targeted /\ UNCHANGED <<threats, scoped>>
  <2>1. Unscored' = Unscored /\ Resumable(t)' = Resumable(t)
    BY <1>3, <1>5 DEF Unscored, ScoringsOf, Resumable
  <2>2. Level("THREATS")'.status = "IDLE" => Level("THREATS").status = "IDLE"
    <3>1. "THREATS" \in WorkLevels
      BY DEF WorkLevels
    <3> QED BY <3>1, StepSettles DEF Finished
  <2>3. t.kind \notin Broad
    BY <1>5 DEF Targeted, Broad, ByType
  <2> QED BY <2>1, <2>2, <2>3 DEF Owes
<1>6. CASE t.kind \in Targeted /\ Reground
  <2> PICK old : old = requests[t.epoch].targets
    OBVIOUS
  <2>1. t = worker.task
    <3>1. Reground => worker.pc # "idle" /\ queue' = queue
      BY DEF Reground
    <3> QED BY <1>6, <3>1 DEF Step, Deliver
  <2>2. /\ t.kind = "threat" /\ NewIds(Cardinality(old)) \subseteq Resumable(t)'
    BY <1>6, <2>1, RegroundRenews
  <2>3. PICK done \in Board :
          /\ Open(board, "THREATS") /\ Ends(board, "THREATS", done)
          /\ Onward(done, t, {"SCENARIOS"}, DOMAIN threats', NewIds(Cardinality(old)))
    BY <1>6, <2>1, RegroundOnward
  <2>4. Unscored = {}
    <3>1. Level("THREATS").status = "IDLE"
      BY <2>2, <2>3 DEF Undone, Open, Level
    <3> QED BY <2>2, <3>1 DEF Owes
  <2>5. Unscored' \subseteq NewIds(Cardinality(old))
    BY <1>6, <2>1, <2>4, RegroundScores
  <2>6. Level("THREATS")'.status # "IDLE"
    <3>1. {"SCENARIOS"} \in SUBSET WorkLevels /\ "THREATS" \in WorkLevels \ {"SCENARIOS"}
      BY DEF WorkLevels
    <3>2. Level("THREATS")' = done[Here]["THREATS"]
      BY <2>3, <3>1, OnwardCells DEF Level
    <3> QED BY <2>3, <3>2 DEF Ends, FinalOf
  <2> QED BY <2>2, <2>5, <2>6 DEF Owes, Broad, ByType
<1> QED BY <1>1, <1>4, <1>5, <1>6, TargetedRows

LEMMA StepTakes ==
    ASSUME IInv, RowsOK, EpochsOK, StagesOK, FirstRunOK, FirstRunOK', NEW t, Step(t),
           Undone(t), Owes(t), Takes, \A l \in LevelsOf(t.kind) : Level(l).epoch = t.epoch
    PROVE  Takes'
<1>1. CASE t \in queue /\ Deliver(t)
  BY <1>1, DeliverTakes
<1>2. CASE t = worker.task /\ Reground
  <2> PICK old : old = requests[t.epoch].targets
    OBVIOUS
  <2> PICK new : new = NewIds(Cardinality(old))
    OBVIOUS
  <2>1. t.kind = "threat" /\ DOMAIN threats' = (DOMAIN threats \ old) \union new
    BY <1>2, RegroundRenews
  <2>2. PICK done \in Board :
          /\ Open(board, "THREATS") /\ Onward(done, t, {"SCENARIOS"}, DOMAIN threats', new)
    BY <1>2, RegroundOnward
  <2>3. worker' = Idle \/ Asks(done, t, {"SCENARIOS"}, DOMAIN threats', new)
    <3>1. {"SCENARIOS"} \in SUBSET WorkLevels
      BY DEF WorkLevels
    <3> QED BY <2>2, <3>1, OnwardCells
  <2>4. Unscored = {}
    <3>1. Level("THREATS").status = "IDLE"
      BY <2>1, <2>2 DEF Undone, Open, Level
    <3> QED BY <2>1, <3>1 DEF Owes
  <2>5. Unscored' \subseteq new
    BY <1>2, <2>4, RegroundScores
  <2>6. CASE worker' = Idle
    BY <2>6, IdleRemembers DEF Takes
  <2>7. CASE Asks(done, t, {"SCENARIOS"}, DOMAIN threats', new)
    <3>1. /\ worker'.task = t /\ worker'.stage = "SCENARIOS"
          /\ worker'.list = DOMAIN threats' /\ worker'.targets = new
      BY <2>7 DEF Asks
    <3>2. Unscored' \subseteq DOMAIN threats'
      BY DEF Unscored
    <3> QED BY <2>1, <2>5, <3>1, <3>2 DEF Takes, Broad, ByType
  <2> QED BY <2>3, <2>6, <2>7
<1>3. CASE t = worker.task /\ ClaimNext
  <2>1. t.kind = "pipeline"
    BY <1>3 DEF ClaimNext, IInv, WorkerOK
  <2>2. worker' = Idle \/ (worker'.pc # "idle" /\ worker'.task = t)
    BY StepFacts DEF Moves
  <2> QED BY <2>1, <2>2, IdleRemembers DEF Takes, FirstRunOK, Broad, ByType
<1>4. CASE t = worker.task /\ (WriteProfile \/ FindThreats)
  BY <1>4, WriteTakes
<1>5. CASE t = worker.task /\ WriteScenarios
  <2>1. /\ worker.pc = "ask" /\ worker.stage = "SCENARIOS" /\ Finish("SCENARIOS", {}, {})
        /\ "SCENARIOS" \in WorkLevels /\ Later("SCENARIOS") = {}
    BY <1>5 DEF WriteScenarios, WorkLevels, Later
  <2>2. worker'.pc # "ask"
    BY <2>1, WriteCells, IdleRemembers DEF Asks
  <2> QED BY <2>2 DEF Takes
<1> QED BY <1>1, <1>2, <1>3, <1>4, <1>5 DEF Step, Writes

LEMMA StepScored ==
    ASSUME IInv, RowsOK, EpochsOK, StagesOK, FirstRunOK, FirstRunOK', CalmOK, ScoredOK,
           NEW t, Step(t)
    PROVE  ScoredOK'
<1>1. t \in InFlight /\ Moves(t) /\ requests' = requests /\ mishaps' = mishaps
  BY StepFacts
<1>2. Gentle' = Gentle
  BY <1>1 DEF Gentle, Asked
<1> SUFFICES ASSUME Gentle
             PROVE  /\ \A l \in WorkLevels : Level(l)'.status # "ERROR"
                    /\ Level("SCENARIOS")'.status \in Finished => Unscored' = {}
                    /\ Level("SCENARIOS")'.status \in Pending =>
                         Owes(TaskAt(Level("SCENARIOS").epoch))'
                    /\ Takes'
  BY <1>2 DEF ScoredOK
<1>3. mishaps.sweep = 0
  <2>1. mishaps.failure \in Nat /\ mishaps.sweep \in Nat
    BY DEF RowsOK, Kinds
  <2> QED BY <2>1 DEF Gentle
<1>4. /\ t = TaskAt(Level("SCENARIOS").epoch) /\ t.epoch = Level("SCENARIOS").epoch
      /\ Level("SCENARIOS").status \in Pending /\ Undone(t)
      /\ \A l \in LevelsOf(t.kind) : Level(l).epoch = t.epoch
  BY <1>1, <1>3, CalmTask
<1>5. Owes(t) /\ Takes /\ \A l \in WorkLevels : Level(l).status # "ERROR"
  <2>1. PICK x : x = TaskAt(Level("SCENARIOS").epoch)
    OBVIOUS
  <2> QED BY <1>4 DEF ScoredOK
<1>6. \A l \in WorkLevels : Level(l)'.status # "ERROR"
  BY <1>5, StepSettles DEF Finished
<1>7. Level("SCENARIOS")'.status \in Finished => Unscored' = {}
  <2>1. Level("SCENARIOS")'.status \in Finished => WriteScenarios
    BY <1>1, <1>4 DEF Moves, Finished, Pending
  <2> QED BY <1>5, <2>1, WriteScores
<1>8. Level("SCENARIOS")'.status \in Pending => Owes(TaskAt(Level("SCENARIOS").epoch))'
  <2>1. Level("SCENARIOS")'.epoch = t.epoch
    <3>1. Tends(board, board')
      BY OrdinaryStep DEF Step, Ordinary
    <3> QED BY <1>4, <3>1 DEF Tends, Level, WorkLevels
  <2>2. PICK x : x = TaskAt(Level("SCENARIOS").epoch)'
    OBVIOUS
  <2>3. x = t
    <3>1. PICK e : e = t.epoch
      OBVIOUS
    <3>2. t = TaskAt(e)
      BY <1>4, <3>1
    <3>3. e = Level("SCENARIOS")'.epoch
      BY <2>1, <3>1
    <3> QED BY <1>1, <2>2, <3>2, <3>3 DEF TaskAt
  <2>4. Level("SCENARIOS")'.status \in Pending => Owes(x)'
    BY <1>4, <1>5, <2>3, StepOwes
  <2> QED BY <2>2, <2>4 DEF Owes, Resumable
<1>9. Takes'
  BY <1>4, <1>5, StepTakes
<1> QED BY <1>6, <1>7, <1>8, <1>9

\* What was asked is not forgotten and what went wrong stays counted.
LEMMA GentleBefore == ASSUME IInv, RowsOK, EpochsOK, [Next]_vars, Gentle' PROVE Gentle
<1>1. \A k \in Kinds : mishaps[k] \in Nat /\ mishaps'[k] \in Nat /\ mishaps[k] <= mishaps'[k]
  BY CountsGrow
<1>2. Asked(Broad) => Asked(Broad)'
  BY ExcusedForGood DEF Broad, ByType
<1> QED BY <1>1, <1>2 DEF Gentle, Kinds

LEMMA CrashScored ==
    ASSUME IInv, RowsOK, EpochsOK, ScoredOK, Crash, Gentle, Gentle'
    PROVE  ScoredOK'
<1> PICK t : t = TaskAt(Level("SCENARIOS").epoch)
  OBVIOUS
<1>1. UNCHANGED <<board, rowVars, requests>> /\ worker' = Idle
  BY DEF Crash
<1>2. t = TaskAt(Level("SCENARIOS").epoch)'
  BY <1>1 DEF TaskAt, Level
<1>3. Unscored' = Unscored /\ Resumable(t)' = Resumable(t)
  BY <1>1 DEF Unscored, ScoringsOf, Resumable, rowVars
<1>4. t.kind \in Broad => queue' = queue
  <2> SUFFICES ASSUME t.kind \in Broad, Happen("crash") PROVE FALSE
    BY DEF Crash
  <2>1. Asked(Broad)'
    BY <1>1, LatestAsked DEF Asked
  <2>2. mishaps'["crash"] = mishaps["crash"] + 1 /\ mishaps["crash"] \in Nat
    BY DEF Happen, RowsOK, Kinds
  <2> QED BY <2>1, <2>2 DEF Gentle
<1>5. Level("SCENARIOS").status \in Pending => Owes(t)'
  <2> SUFFICES ASSUME Owes(t) PROVE Owes(t)'
    BY DEF ScoredOK
  <2> QED BY <1>1, <1>3, <1>4 DEF Owes, Level, Fresh
<1>6. Level("SCENARIOS")'.status \in Pending => Owes(TaskAt(Level("SCENARIOS").epoch))'
  BY <1>1, <1>2, <1>5 DEF Owes, Resumable, Level
<1>7. Takes'
  BY <1>1, IdleRemembers DEF Takes
<1> QED BY <1>1, <1>3, <1>6, <1>7 DEF ScoredOK, Level

LEMMA RegenerateScored ==
    ASSUME IInv, RowsOK, EpochsOK, ScoredOK, NEW kind \in Granularities, Regenerate(kind), Gentle
    PROVE  ScoredOK'
<1> PICK e : e = Level("SCENARIOS").epoch + 1
  OBVIOUS
<1> PICK t : t = TaskAt(e)'
  OBVIOUS
<1>1. /\ worker' = worker /\ worker.pc = "idle" /\ t.kind = kind /\ t.epoch = e
      /\ \A l \in WorkLevels :
           IF l \in LevelsOf(kind)
           THEN Level(l)'.status = "IDLE" /\ Level(l)'.epoch = e /\ Level(l)'.attempts = 0
           ELSE Level(l)' = Level(l)
      /\ Resting /\ UNCHANGED rowVars
  BY Requested
<1>2. "SCENARIOS" \in LevelsOf(kind) /\ "SCENARIOS" \in WorkLevels /\ LevelsOf(kind) \subseteq WorkLevels
  BY LevelsTyped DEF TaskKinds, LevelsOf, WorkLevels
<1>3. Unscored = {} /\ Unscored' = {}
  <2>1. Level("SCENARIOS").status \in Statuses
    BY <1>2, CellTypes DEF Level, IInv, BoardOK
  <2>2. Level("SCENARIOS").status \in Finished
    BY <1>1, <1>2, <2>1 DEF ScoredOK, Resting, Statuses, Pending, Finished
  <2>3. Unscored = {}
    BY <2>2 DEF ScoredOK
  <2> QED BY <1>1, <2>3 DEF Unscored, ScoringsOf, rowVars
<1>4. TaskAt(Level("SCENARIOS").epoch)' = t /\ Level("SCENARIOS")'.status = "IDLE"
  <2>1. Level("SCENARIOS")'.epoch = e /\ Level("SCENARIOS")'.status = "IDLE"
    BY <1>1, <1>2
  <2> QED BY <2>1 DEF TaskAt
<1>5. Owes(t)'
  <2>1. \A l \in LevelsOf(t.kind) : Fresh(board', l)
    BY <1>1, <1>2 DEF Fresh, Level
  <2> QED BY <1>3, <2>1 DEF Owes
<1>6. Owes(TaskAt(Level("SCENARIOS").epoch))'
  <2>1. PICK x : x = TaskAt(Level("SCENARIOS").epoch)'
    OBVIOUS
  <2>2. Owes(x)'
    BY <1>4, <1>5, <2>1
  <2> QED BY <2>1, <2>2 DEF Owes, Resumable
<1>7. \A l \in WorkLevels : Level(l)'.status # "ERROR"
  BY <1>1 DEF ScoredOK
<1>8. Takes'
  BY <1>1 DEF Takes
<1> QED BY <1>3, <1>6, <1>7, <1>8 DEF ScoredOK

LEMMA NextScored ==
    ASSUME IInv, RowsOK, EpochsOK, StagesOK, FirstRunOK, FirstRunOK', CalmOK, ScoredOK,
           [Next]_vars
    PROVE  ScoredOK'
<1> SUFFICES ASSUME Gentle, Gentle' PROVE ScoredOK'
  BY GentleBefore DEF ScoredOK
<1>1. ASSUME NEW t, Step(t) PROVE ScoredOK'
  BY <1>1, StepScored
<1>2. CASE UNCHANGED vars
  <2> PICK t : t = TaskAt(Level("SCENARIOS").epoch)
    OBVIOUS
  <2>1. t = TaskAt(Level("SCENARIOS").epoch)'
    BY <1>2 DEF vars, TaskAt, Level
  <2>2. Unscored' = Unscored /\ Takes' = Takes
    BY <1>2 DEF vars, rowVars, Unscored, ScoringsOf, Takes, Fresh
  <2>3. Owes(t)' = Owes(t)
    BY <1>2, <2>2 DEF vars, rowVars, Owes, Resumable, Fresh, Level
  <2>4. Owes(TaskAt(Level("SCENARIOS").epoch))' <=> Owes(t)
    <3>1. PICK x : x = TaskAt(Level("SCENARIOS").epoch)'
      OBVIOUS
    <3>2. Owes(x)' <=> Owes(t)
      BY <2>1, <2>3, <3>1
    <3> QED BY <3>1, <3>2 DEF Owes, Resumable
  <2> QED BY <1>2, <2>2, <2>4 DEF ScoredOK, vars, Level
<1>3. CASE Fail \/ CloseOut
  <2>1. \A k \in Kinds : mishaps'[k] \in Nat
    BY CountsGrow
  <2> QED BY <1>3, <2>1, CountsGrow DEF Gentle, Kinds
<1>4. ASSUME NEW kind \in Granularities, Regenerate(kind) PROVE ScoredOK'
  BY <1>4, RegenerateScored
<1> QED BY <1>1, <1>2, <1>3, <1>4, CrashScored, NextIsOrdinary DEF Ordinary, Step

LEMMA InitScored == Init => ScoredOK
<1> SUFFICES ASSUME Init PROVE ScoredOK
  OBVIOUS
<1>1. \A l \in WorkLevels : Level(l).epoch = 1 /\ Level(l).status = "IDLE"
  BY HereIsAll DEF Init, Level, SeededBoard, SeededCell, Levels
<1>2. "SCENARIOS" \in WorkLevels
  BY DEF WorkLevels
<1>3. TaskAt(Level("SCENARIOS").epoch).kind = "pipeline"
  BY <1>1, <1>2 DEF TaskAt, Init
<1>4. worker.pc = "idle"
  BY IdleRemembers DEF Init
<1> QED BY <1>1, <1>2, <1>3, <1>4 DEF ScoredOK, Owes, Takes, Finished, Broad, ByType

\* A threat under review has its scoring record, unless a stage failed, the reaper failed
\* it, or a type, category or profile regeneration crashed: whatever a crash of the
\* pipeline, of a scenario or of a threat regeneration left unscored, the redelivery
\* finds and scores before it lets the reviewer see it.
THEOREM ReviewedThreatsAreScored == Spec => []UnscoredNeedsMishap
<1>1. RowsOK /\ ScoredOK => UnscoredNeedsMishap
  <2> SUFFICES ASSUME RowsOK, ScoredOK, Level("SCENARIOS").status = "AWAITING_DECISION",
                      Unscored # {}
               PROVE  \/ mishaps.failure > 0 \/ mishaps.sweep > 0
                      \/ mishaps.crash > 0 /\ Asked(Broad)
    BY DEF UnscoredNeedsMishap, Broad
  <2>1. ~Gentle
    BY DEF ScoredOK, Finished
  <2> QED BY <2>1 DEF Gentle, RowsOK, Kinds
<1>2. WorkInv /\ WorkInv' /\ ScoredOK /\ [Next]_vars => ScoredOK'
  BY NextScored DEF WorkInv
<1> QED BY <1>1, <1>2, InitScored, InitWork, NextWork, PTL DEF WorkInv, Spec

-----------------------------------------------------------------------------
(* Ranking and selecting.                                                  *)

\* Every set of natural numbers has a least one; it takes the place of induction.
LEMMA LeastNatural ==
    ASSUME NEW T \in SUBSET Nat, T # {}
    PROVE  \E n \in T : \A m \in T : n <= m
<1>1. PICK n \in T : \A m \in T : <<m, n>> \notin OpToRel(<, Nat)
  BY NatLessThanWellFounded, WFMin
<1>2. \A m \in T : ~(m < n)
  BY <1>1 DEF OpToRel
<1> QED BY <1>2

\* The elements of E up to position k.
UpTo(E, pos, k) == {t \in E : pos[t] <= k}

\* A finite set in which above[t] are the elements before t, in a total order.
LEMMA Positions ==
    ASSUME NEW E, IsFiniteSet(E), NEW above \in [E -> SUBSET E],
           \A t \in E : t \notin above[t],
           \A t \in E : \A s \in above[t] : above[s] \subseteq above[t],
           \A s, t \in E : s = t \/ s \in above[t] \/ t \in above[s],
           NEW pos \in [E -> Nat], \A t \in E : pos[t] = 1 + Cardinality(above[t])
    PROVE  /\ \A t \in E : pos[t] \in 1..Cardinality(E)
           /\ \A s, t \in E : s \in above[t] <=> pos[s] < pos[t]
           /\ \A s, t \in E : pos[s] = pos[t] => s = t
           /\ \A r \in 1..Cardinality(E) : \E t \in E : pos[t] = r
           /\ \A k \in 0..Cardinality(E) : Cardinality(UpTo(E, pos, k)) = k
<1> PICK N : N = Cardinality(E)
  OBVIOUS
<1>1. N \in Nat
  BY FS_CardinalityType
<1>2. \A t \in E : IsFiniteSet(above[t]) /\ Cardinality(above[t]) \in 0..N - 1
  <2> TAKE t \in E
  <2>1. IsFiniteSet(E \ {t}) /\ Cardinality(E \ {t}) = N - 1
    BY FS_RemoveElement
  <2>2. above[t] \in SUBSET (E \ {t})
    OBVIOUS
  <2>3. IsFiniteSet(above[t]) /\ Cardinality(above[t]) <= N - 1
    BY <2>1, <2>2, FS_Subset
  <2> QED BY <1>1, <2>3, FS_CardinalityType
<1>3. \A t \in E : pos[t] \in 1..N
  BY <1>1, <1>2
<1>4. ASSUME NEW t \in E, NEW s \in above[t] PROVE pos[s] < pos[t]
  <2>1. s \in E /\ above[s] \in SUBSET (above[t] \ {s})
    OBVIOUS
  <2>2. IsFiniteSet(above[t] \ {s}) /\ Cardinality(above[t] \ {s}) = Cardinality(above[t]) - 1
    BY <1>2, FS_RemoveElement
  <2>3. Cardinality(above[s]) <= Cardinality(above[t]) - 1
    BY <2>1, <2>2, FS_Subset
  <2> QED BY <1>2, <2>1, <2>3
<1>5. \A s, t \in E : s \in above[t] <=> pos[s] < pos[t]
  <2> TAKE s, t \in E
  <2>1. pos[s] \in Nat /\ pos[t] \in Nat
    BY <1>1, <1>3
  <2> QED BY <1>4, <2>1
<1>6. \A s, t \in E : pos[s] = pos[t] => s = t
  <2> TAKE s, t \in E
  <2>1. pos[s] \in Nat /\ pos[t] \in Nat
    BY <1>1, <1>3
  <2> QED BY <1>4, <2>1
<1>7. \A r \in 1..N : \E t \in E : pos[t] = r
  <2>1. pos \in Injection(E, 1..N)
    BY <1>3, <1>6 DEF Injection, IsInjective
  <2>2. IsFiniteSet(1..N) /\ Cardinality(1..N) = N
    BY <1>1, FS_Interval
  <2>3. pos \in Surjection(E, 1..N)
    BY <2>1, <2>2, FS_Injection
  <2> QED BY <2>3 DEF Surjection
<1>8. ASSUME NEW k \in 0..N PROVE Cardinality(UpTo(E, pos, k)) = k
  <2> DEFINE F == {t \in E : pos[t] <= k}
             f == [t \in F |-> pos[t]]
  <2>1. f \in Injection(F, 1..k)
    BY <1>3, <1>6 DEF Injection, IsInjective
  <2>2. f \in Surjection(F, 1..k)
    <3>1. f \in [F -> 1..k]
      BY <1>3
    <3>2. \A r \in 1..k : \E t \in F : f[t] = r
      <4> TAKE r \in 1..k
      <4>1. r \in 1..N
        BY <1>1
      <4>2. PICK t \in E : pos[t] = r
        BY <1>7, <4>1
      <4> QED BY <4>2
    <3> QED BY <3>1, <3>2 DEF Surjection
  <2>3. IsFiniteSet(1..k) /\ Cardinality(1..k) = k
    BY FS_Interval
  <2> HIDE DEF F, f
  <2>4. Cardinality(F) = k
    BY <2>1, <2>2, <2>3, FS_Injection
  <2> QED BY <2>4 DEF F, UpTo
<1> QED BY <1>3, <1>5, <1>6, <1>7, <1>8

\* A list whose threats have scores, and whose ids are in order.
Ranked(list) ==
    /\ IsFiniteSet(DOMAIN list) /\ IdsOrdered(DOMAIN list)
    /\ \A t \in DOMAIN list : Score(list[t]) \in Int

LEMMA OutranksOrder ==
    ASSUME NEW list, Ranked(list)
    PROVE  /\ \A t \in DOMAIN list : ~Outranks(list, t, t)
           /\ \A s, t, u \in DOMAIN list :
                Outranks(list, s, t) /\ Outranks(list, t, u) => Outranks(list, s, u)
           /\ \A s, t \in DOMAIN list : s = t \/ Outranks(list, s, t) \/ Outranks(list, t, s)
<1>1. \A s, t, u \in DOMAIN list :
        /\ ~IdBefore(s, s)
        /\ IdBefore(s, t) /\ IdBefore(t, u) => IdBefore(s, u)
        /\ s = t \/ IdBefore(s, t) \/ IdBefore(t, s)
  BY DEF Ranked, IdsOrdered
<1>2. \A t \in DOMAIN list : Score(list[t]) \in Int
  BY DEF Ranked
<1>3. \A t \in DOMAIN list : ~Outranks(list, t, t)
  BY <1>1, <1>2 DEF Outranks
<1>4. ASSUME NEW s \in DOMAIN list, NEW t \in DOMAIN list, NEW u \in DOMAIN list,
             Outranks(list, s, t), Outranks(list, t, u)
      PROVE  Outranks(list, s, u)
  BY <1>1, <1>2, <1>4 DEF Outranks
<1>5. ASSUME NEW s \in DOMAIN list, NEW t \in DOMAIN list
      PROVE  s = t \/ Outranks(list, s, t) \/ Outranks(list, t, s)
  BY <1>1, <1>2 DEF Outranks
<1> QED BY <1>3, <1>4, <1>5

\* The ranks are 1, 2, ... in the order of score and id.
LEMMA Ranks ==
    ASSUME NEW list, Ranked(list)
    PROVE  /\ \A t \in DOMAIN list : Rank(list, t) \in 1..Cardinality(DOMAIN list)
           /\ \A s, t \in DOMAIN list : Outranks(list, s, t) <=> Rank(list, s) < Rank(list, t)
           /\ \A s, t \in DOMAIN list : Rank(list, s) = Rank(list, t) => s = t
           /\ \A r \in 1..Cardinality(DOMAIN list) : \E t \in DOMAIN list : Rank(list, t) = r
<1> DEFINE D == DOMAIN list
           above == [t \in D |-> {s \in D : s # t /\ Outranks(list, s, t)}]
           pos == [t \in D |-> 1 + Cardinality(above[t])]
<1>1. \A t \in D : pos[t] = Rank(list, t)
  BY DEF Rank
<1>2. \A s, t \in D : s \in above[t] <=> Outranks(list, s, t)
  BY OutranksOrder
<1>3. IsFiniteSet(D) /\ above \in [D -> SUBSET D]
  BY DEF Ranked
<1> HIDE DEF above
<1>4. \A t \in D : t \notin above[t]
  BY <1>2, OutranksOrder
<1>5. \A t \in D : \A s \in above[t] : above[s] \subseteq above[t]
  BY <1>2, <1>3, OutranksOrder
<1>6. \A s, t \in D : s = t \/ s \in above[t] \/ t \in above[s]
  BY <1>2, OutranksOrder
<1>7. /\ \A t \in D : pos[t] \in 1..Cardinality(D)
      /\ \A s, t \in D : s \in above[t] <=> pos[s] < pos[t]
      /\ \A s, t \in D : pos[s] = pos[t] => s = t
      /\ \A r \in 1..Cardinality(D) : \E t \in D : pos[t] = r
  <2>1. pos \in [D -> Nat] /\ \A t \in D : pos[t] = 1 + Cardinality(above[t])
    <3>1. \A t \in D : Cardinality(above[t]) \in Nat
      BY <1>3, FS_Subset, FS_CardinalityType
    <3> QED BY <3>1
  <2> HIDE DEF pos
  <2> QED BY <1>3, <1>4, <1>5, <1>6, <2>1, Positions
<1> HIDE DEF pos
<1> QED BY <1>1, <1>2, <1>7

EligibleIn(list, threshold) == {t \in DOMAIN list : Eligible(list[t], threshold)}
RankIn(list) == [t \in DOMAIN list |-> Rank(list, t)]

\* After rank r the counter has seen the eligible threats of the first r ranks.
LEMMA KeptCounts ==
    ASSUME NEW list, Ranked(list), NEW threshold,
           NEW E, E = EligibleIn(list, threshold)
    PROVE  \A r \in 0..Cardinality(DOMAIN list) :
              Kept(list, threshold)[r] = Cardinality(UpTo(E, RankIn(list), r))
<1> PICK N : N = Cardinality(DOMAIN list)
  OBVIOUS
<1>1. N \in Nat
  BY FS_CardinalityType DEF Ranked
<1> DEFINE at == [r \in 1..N |-> CHOOSE t \in DOMAIN list : Rank(list, t) = r]
           first(r) == UpTo(E, RankIn(list), r)
           tally == [r \in 0..N |-> Cardinality(first(r))]
           one(r) == IF Eligible(list[at[r]], threshold) THEN 1 ELSE 0
<1>2. Kept(list, threshold) =
        CHOOSE g : g = [r \in 0..N |-> IF r = 0 THEN 0 ELSE g[r - 1] + one(r)]
  BY DEF Kept
<1>3. \A r \in 1..N : at[r] \in DOMAIN list /\ Rank(list, at[r]) = r
  BY Ranks
<1>4. \A t \in DOMAIN list : Rank(list, t) \in 1..N
  BY Ranks
<1>5. \A r : first(r) = {t \in E : Rank(list, t) <= r} /\ E \subseteq DOMAIN list
  BY DEF UpTo, RankIn, EligibleIn
<1>6. \A t : t \in E <=> t \in DOMAIN list /\ Eligible(list[t], threshold)
  BY DEF EligibleIn
<1> HIDE DEF first
<1>7. first(0) = {}
  BY <1>1, <1>4, <1>5
<1>8. ASSUME NEW r \in 1..N
      PROVE  Cardinality(first(r)) = Cardinality(first(r - 1)) + one(r)
  <2>1. IsFiniteSet(first(r - 1))
    <3>1. first(r - 1) \in SUBSET DOMAIN list
      BY <1>5
    <3> QED BY <3>1, FS_Subset DEF Ranked
  <2>2. \A t \in DOMAIN list : Rank(list, t) <= r <=> Rank(list, t) <= r - 1 \/ t = at[r]
    <3> TAKE t \in DOMAIN list
    <3>1. Rank(list, t) = r => t = at[r]
      BY <1>3, Ranks
    <3>2. Rank(list, t) \in Int /\ r \in Int
      BY <1>1, <1>4
    <3> QED BY <1>3, <3>1, <3>2
  <2>3. CASE Eligible(list[at[r]], threshold)
    <3>1. first(r) = first(r - 1) \union {at[r]}
      <4> PICK a : a = at[r]
        OBVIOUS
      <4>1. a \in E /\ \A t \in E : Rank(list, t) <= r <=> Rank(list, t) <= r - 1 \/ t = a
        BY <1>3, <1>6, <1>5, <2>2, <2>3
      <4>2. first(r) = first(r - 1) \union {a}
        BY <1>5, <4>1
      <4> QED BY <4>2
    <3>2. at[r] \notin first(r - 1)
      BY <1>1, <1>3, <1>5
    <3>3. one(r) = 1
      BY <2>3
    <3> HIDE DEF first, at, one
    <3> QED BY <2>1, <3>1, <3>2, <3>3, FS_AddElement
  <2>4. CASE ~Eligible(list[at[r]], threshold)
    <3>1. first(r) = first(r - 1)
      BY <1>3, <1>6, <1>5, <2>2, <2>4
    <3>2. one(r) = 0 /\ Cardinality(first(r - 1)) \in Nat
      BY <2>1, <2>4, FS_CardinalityType
    <3> HIDE DEF first, at, one
    <3> QED BY <3>1, <3>2
  <2> QED BY <2>3, <2>4
<1> HIDE DEF one, first, at
<1>9. tally = [r \in 0..N |-> IF r = 0 THEN 0 ELSE tally[r - 1] + one(r)]
  <2>1. \A r \in 0..N : tally[r] = IF r = 0 THEN 0 ELSE tally[r - 1] + one(r)
    <3> TAKE r \in 0..N
    <3>1. CASE r = 0
      BY <1>7, <3>1, FS_EmptySet
    <3>2. CASE r # 0
      <4>1. r \in 1..N /\ r - 1 \in 0..N
        BY <1>1, <3>2
      <4> QED BY <1>8, <3>2, <4>1
    <3> QED BY <3>1, <3>2
  <2> HIDE DEF tally
  <2>2. tally = [r \in 0..N |-> tally[r]]
    BY DEF tally
  <2> QED BY <2>1, <2>2
<1> PICK g : g = Kept(list, threshold)
  OBVIOUS
<1> HIDE DEF tally
<1>10. g = [r \in 0..N |-> IF r = 0 THEN 0 ELSE g[r - 1] + one(r)]
  <2>1. \E h : h = [r \in 0..N |-> IF r = 0 THEN 0 ELSE h[r - 1] + one(r)]
    BY <1>9
  <2> QED BY <1>2, <2>1
<1>11. \A r \in 0..N : g[r] = tally[r]
  <2> DEFINE T == {r \in 0..N : g[r] # tally[r]}
  <2> SUFFICES ASSUME T # {} PROVE FALSE
    OBVIOUS
  <2>1. T \in SUBSET Nat
    BY <1>1
  <2>2. PICK n \in T : \A m \in T : n <= m
    BY <2>1, LeastNatural
  <2>3. n # 0
    BY <1>1, <1>9, <1>10, <2>2
  <2>4. n - 1 \in 0..N /\ n - 1 \notin T /\ n \in 0..N
    BY <1>1, <2>2, <2>3
  <2>5. g[n - 1] = tally[n - 1]
    BY <2>4
  <2>6. g[n] = g[n - 1] + one(n) /\ tally[n] = tally[n - 1] + one(n)
    BY <1>9, <1>10, <2>3, <2>4
  <2> QED BY <2>2, <2>5, <2>6
<1> QED BY <1>11 DEF tally, first

\* Two sets of the same size, each of which outranks the rest, are one.
LEMMA BestIsUnique ==
    ASSUME NEW list, Ranked(list), NEW E \in SUBSET DOMAIN list,
           NEW A \in SUBSET E, NEW B \in SUBSET E, Cardinality(A) = Cardinality(B),
           \A s \in A, t \in E \ A : Outranks(list, s, t),
           \A s \in B, t \in E \ B : Outranks(list, s, t)
    PROVE  A = B
<1>1. A \in SUBSET DOMAIN list /\ B \in SUBSET DOMAIN list
  OBVIOUS
<1>2. IsFiniteSet(A) /\ IsFiniteSet(B)
  BY <1>1, FS_Subset DEF Ranked
<1>3. A \subseteq B \/ B \subseteq A
  <2> SUFFICES ASSUME NEW a \in A \ B, NEW b \in B \ A PROVE FALSE
    OBVIOUS
  <2>1. Outranks(list, a, b) /\ Outranks(list, b, a)
    OBVIOUS
  <2> QED BY <1>1, <2>1, OutranksOrder
<1> QED BY <1>2, <1>3, FS_Subset

\* The loop of score_threats selects what the configuration promises.
LEMMA SelectionIsBestOf ==
    ASSUME NEW list, Ranked(list), NEW threshold, NEW topN \in Nat \union {Unset}
    PROVE  Selection(list, threshold, topN) = BestOf(list, threshold, topN)
<1> DEFINE E == EligibleIn(list, threshold)
           upTo(t) == UpTo(E, RankIn(list), Rank(list, t))
           best == {t \in E : topN = Unset \/ Cardinality(upTo(t)) <= topN}
           size == IF topN = Unset \/ topN > Cardinality(E) THEN Cardinality(E) ELSE topN
<1>1. /\ \A t \in DOMAIN list : Rank(list, t) \in 0..Cardinality(DOMAIN list)
      /\ \A t \in DOMAIN list : Rank(list, t) \in Nat
  BY Ranks
<1>2. \A t : t \in E <=> t \in DOMAIN list /\ Eligible(list[t], threshold)
  BY DEF EligibleIn
<1>3. \A t \in DOMAIN list : upTo(t) = {u \in E : Rank(list, u) <= Rank(list, t)}
  BY <1>2 DEF UpTo, RankIn
<1>4. Selection(list, threshold, topN) = best
  <2>1. \A t \in DOMAIN list :
           Kept(list, threshold)[Rank(list, t)] = Cardinality(upTo(t))
    BY <1>1, KeptCounts
  <2> HIDE DEF upTo
  <2> QED BY <1>2, <2>1 DEF Selection
<1> HIDE DEF E, upTo
<1>5. E \in SUBSET DOMAIN list /\ IsFiniteSet(E) /\ Cardinality(E) \in Nat
  <2>1. E \in SUBSET DOMAIN list
    BY <1>2
  <2>2. IsFiniteSet(E)
    BY <2>1, FS_Subset DEF Ranked
  <2> QED BY <2>1, <2>2, FS_CardinalityType
<1>6. \A t \in E : upTo(t) \in SUBSET E /\ IsFiniteSet(upTo(t))
                   /\ Cardinality(upTo(t)) \in Nat /\ Cardinality(upTo(t)) <= Cardinality(E)
  <2> TAKE t \in E
  <2>1. upTo(t) \in SUBSET E
    BY <1>5, <1>3
  <2>2. IsFiniteSet(upTo(t)) /\ Cardinality(upTo(t)) <= Cardinality(E)
    BY <1>5, <2>1, FS_Subset
  <2> QED BY <2>1, <2>2, FS_CardinalityType
<1>7. \A s \in best, t \in E \ best : Outranks(list, s, t)
  <2> SUFFICES ASSUME NEW s \in best, NEW t \in E \ best, ~Outranks(list, s, t) PROVE FALSE
    OBVIOUS
  <2>1. Rank(list, t) <= Rank(list, s)
    BY <1>1, <1>5, Ranks
  <2>2. upTo(t) \in SUBSET upTo(s)
    <3>1. s \in DOMAIN list /\ t \in DOMAIN list
      BY <1>5
    <3> QED BY <1>1, <1>5, <1>3, <2>1, <3>1
  <2>3. Cardinality(upTo(t)) <= Cardinality(upTo(s))
    BY <1>6, <2>2, FS_Subset
  <2>4. topN # Unset /\ topN \in Nat /\ Cardinality(upTo(s)) <= topN
        /\ ~(Cardinality(upTo(t)) <= topN) /\ s \in E /\ t \in E
    OBVIOUS
  <2> HIDE DEF upTo, best
  <2> QED BY <1>6, <2>3, <2>4
<1>8. Cardinality(best) = size
  <2> DEFINE above == [t \in E |-> {s \in E : s # t /\ Outranks(list, s, t)}]
             pos == [t \in E |-> 1 + Cardinality(above[t])]
  <2>1. \A s, t \in E : s \in above[t] <=> Outranks(list, s, t)
    BY <1>5, OutranksOrder
  <2>2. \A t \in E : Cardinality(upTo(t)) = pos[t]
    <3> TAKE t \in E
    <3>1. upTo(t) = above[t] \union {t}
      BY <1>1, <1>5, <1>3, Ranks
    <3>2. t \notin above[t] /\ IsFiniteSet(above[t])
      <4>1. above[t] \in SUBSET E /\ t \notin above[t]
        OBVIOUS
      <4> QED BY <1>5, <4>1, FS_Subset
    <3>3. Cardinality(above[t]) \in Nat
      BY <3>2, FS_CardinalityType
    <3>4. pos[t] = 1 + Cardinality(above[t])
      OBVIOUS
    <3> HIDE DEF above, pos
    <3>5. Cardinality(upTo(t)) = Cardinality(above[t]) + 1
      BY <3>1, <3>2, FS_AddElement
    <3> QED BY <3>3, <3>4, <3>5
  <2>3. above \in [E -> SUBSET E]
    OBVIOUS
  <2> HIDE DEF above
  <2>4. /\ \A t \in E : pos[t] \in 1..Cardinality(E)
        /\ \A k \in 0..Cardinality(E) : Cardinality(UpTo(E, pos, k)) = k
    <3>1. \A t \in E : t \notin above[t]
      BY <1>5, <2>1, OutranksOrder
    <3>2. \A t \in E : \A s \in above[t] : above[s] \subseteq above[t]
      BY <1>5, <2>1, <2>3, OutranksOrder
    <3>3. \A s, t \in E : s = t \/ s \in above[t] \/ t \in above[s]
      BY <1>5, <2>1, OutranksOrder
    <3>4. pos \in [E -> Nat] /\ \A t \in E : pos[t] = 1 + Cardinality(above[t])
      <4>1. \A t \in E : Cardinality(above[t]) \in Nat
        BY <1>5, <2>3, FS_Subset, FS_CardinalityType
      <4> QED BY <4>1
    <3> HIDE DEF pos
    <3> QED BY <1>5, <2>3, <3>1, <3>2, <3>3, <3>4, Positions
  <2>5. best = {t \in E : topN = Unset \/ pos[t] <= topN}
    BY <2>2
  <2> HIDE DEF pos, best
  <2>6. CASE topN = Unset
    <3>1. best = E
      BY <2>5, <2>6
    <3> QED BY <2>6, <3>1
  <2>7. CASE topN # Unset /\ topN > Cardinality(E)
    <3>1. best = E
      BY <1>5, <2>4, <2>5, <2>7
    <3> QED BY <2>7, <3>1
  <2>8. CASE topN # Unset /\ ~(topN > Cardinality(E))
    <3>1. topN \in 0..Cardinality(E)
      BY <1>5, <2>8
    <3>2. best = UpTo(E, pos, topN)
      BY <2>5, <2>8 DEF UpTo
    <3> QED BY <2>4, <2>8, <3>1, <3>2
  <2> QED BY <2>6, <2>7, <2>8
<1>9. best \in SUBSET E
  OBVIOUS
<1>10. BestOf(list, threshold, topN) =
        CHOOSE b \in SUBSET E : /\ Cardinality(b) = size
                                /\ \A s \in b, t \in E \ b : Outranks(list, s, t)
  <2>1. E = {t \in DOMAIN list : Eligible(list[t], threshold)}
    BY DEF E, EligibleIn
  <2> HIDE DEF best
  <2> QED BY <2>1 DEF BestOf
<1> HIDE DEF best, size
<1>11. PICK b : b = BestOf(list, threshold, topN)
  OBVIOUS
<1>12. /\ b \in SUBSET E /\ Cardinality(b) = size
       /\ \A s \in b, t \in E \ b : Outranks(list, s, t)
  BY <1>7, <1>8, <1>9, <1>10, <1>11
<1>13. best = b
  BY <1>5, <1>7, <1>8, <1>9, <1>12, BestIsUnique
<1> QED BY <1>4, <1>11, <1>13

\* The weights of a finite set of rules have a sum.
LEMMA WeightsAddUp ==
    ASSUME NEW S, IsFiniteSet(S), \A rule \in S : Weight(rule) \in Int
    PROVE  MapThenSumSet(Weight, S) \in Int
<1> DEFINE pick(s) == CHOOSE x \in s : TRUE
           Sum(g, s) == IF s = {} THEN 0 ELSE Weight(pick(s)) + g[s \ {pick(s)}]
           Good(n) == \E g \in [SUBSET S -> Int] :
                         \A s \in SUBSET S : Cardinality(s) <= n => g[s] = Sum(g, s)
<1>1. MapThenSumSet(Weight, S) = (CHOOSE g : g = [s \in SUBSET S |-> Sum(g, s)])[S]
  BY DEF MapThenSumSet, MapThenFoldSet
<1>2. \A s \in SUBSET S : IsFiniteSet(s) /\ Cardinality(s) \in Nat
                          /\ Cardinality(s) <= Cardinality(S)
  BY FS_Subset, FS_CardinalityType
<1>3. \A s \in SUBSET S : s # {} =>
        /\ pick(s) \in s /\ pick(s) \in S /\ s \ {pick(s)} \in SUBSET S
        /\ Cardinality(s \ {pick(s)}) = Cardinality(s) - 1
  BY <1>2, FS_RemoveElement
<1> HIDE DEF pick
<1>4. Good(0)
  <2> PICK g : g = [s \in SUBSET S |-> 0]
    OBVIOUS
  <2>1. g \in [SUBSET S -> Int]
    OBVIOUS
  <2>2. \A s \in SUBSET S : Cardinality(s) <= 0 => s = {}
    BY <1>2, FS_EmptySet
  <2> QED BY <2>1, <2>2
<1>5. ASSUME NEW n \in Nat, Good(n) PROVE Good(n + 1)
  <2> PICK g \in [SUBSET S -> Int] :
            \A s \in SUBSET S : Cardinality(s) <= n => g[s] = Sum(g, s)
    BY <1>5
  <2> DEFINE h == [s \in SUBSET S |-> IF Cardinality(s) = n + 1 THEN Sum(g, s) ELSE g[s]]
  <2>1. h \in [SUBSET S -> Int]
    BY <1>3
  <2>2. ASSUME NEW s \in SUBSET S, Cardinality(s) <= n + 1 PROVE h[s] = Sum(h, s)
    <3>1. s # {} => h[s \ {pick(s)}] = g[s \ {pick(s)}]
      BY <1>2, <1>3, <2>2
    <3>2. Sum(h, s) = Sum(g, s)
      BY <3>1
    <3>3. h[s] = Sum(g, s)
      BY <1>2, <2>2
    <3> QED BY <3>2, <3>3
  <2> HIDE DEF h
  <2> QED BY <2>1, <2>2
<1> HIDE DEF Good
<1>6. \A n \in Nat : Good(n)
  <2> DEFINE T == {n \in Nat : ~Good(n)}
  <2> SUFFICES ASSUME T # {} PROVE FALSE
    OBVIOUS
  <2>1. PICK n \in T : \A m \in T : n <= m
    <3>1. T \in SUBSET Nat
      OBVIOUS
    <3> QED BY <3>1, LeastNatural
  <2>2. n \in Nat /\ ~Good(n) /\ n # 0
    BY <1>4
  <2>3. n - 1 \in Nat /\ Good(n - 1)
    BY <2>1, <2>2
  <2>4. Good((n - 1) + 1)
    BY <1>5, <2>3
  <2> QED BY <2>2, <2>4
<1>7. PICK g : g = [s \in SUBSET S |-> Sum(g, s)] /\ MapThenSumSet(Weight, S) = g[S]
  <2>1. PICK f \in [SUBSET S -> Int] :
           \A s \in SUBSET S : Cardinality(s) <= Cardinality(S) => f[s] = Sum(f, s)
    BY <1>2, <1>6 DEF Good
  <2>2. f = [s \in SUBSET S |-> Sum(f, s)]
    BY <1>2, <2>1
  <2> HIDE DEF Sum
  <2> QED BY <1>1, <2>2
<1>8. \A s \in SUBSET S : g[s] = Sum(g, s)
  BY <1>7
<1>9. \A s \in SUBSET S : g[s] \in Int
  <2> DEFINE T == {n \in Nat : \E s \in SUBSET S : Cardinality(s) = n /\ g[s] \notin Int}
  <2> SUFFICES ASSUME T # {} PROVE FALSE
    BY <1>2
  <2>1. PICK n \in T : \A m \in T : n <= m
    <3>1. T \in SUBSET Nat
      OBVIOUS
    <3> QED BY <3>1, LeastNatural
  <2>2. PICK s \in SUBSET S : Cardinality(s) = n /\ g[s] \notin Int
    BY <2>1
  <2>3. s # {}
    <3>1. g[s] = IF s = {} THEN 0 ELSE Weight(pick(s)) + g[s \ {pick(s)}]
      BY <1>8
    <3> QED BY <2>2, <3>1
  <2>4. g[s \ {pick(s)}] \in Int
    <3> PICK r \in SUBSET S : r = s \ {pick(s)}
      BY <1>3, <2>3
    <3>1. n \in Nat /\ Cardinality(r) = n - 1 /\ Cardinality(r) \in Nat
      BY <1>2, <1>3, <2>1, <2>2, <2>3
    <3>2. n - 1 \notin T
      BY <2>1, <3>1
    <3>3. g[r] \in Int
      BY <3>1, <3>2
    <3> QED BY <3>3
  <2> QED BY <1>3, <1>8, <2>2, <2>3, <2>4
<1> QED BY <1>7, <1>9

LEMMA ScoresAreNumbers ==
    ASSUME NEW threat, threat.band \in Bands PROVE Score(threat) \in Int
<1>1. ConfidenceWeight[threat.band] \in Int
  BY DEF Bands, ConfidenceWeight
<1>2. Relevant(threat) \in SUBSET Rules
  BY DEF Relevant, RulesFor
<1>3. \A rule \in Rules : Weight(rule) \in Int
  BY RulesAssumption DEF Weight, DefaultRuleWeight
<1>4. MapThenSumSet(Weight, Relevant(threat)) \in Int
  <2>1. IsFiniteSet(Relevant(threat))
    BY <1>2, RulesAssumption, FS_Subset
  <2> QED BY <1>2, <1>3, <2>1, WeightsAddUp
<1> QED BY <1>1, <1>4 DEF Score, BaseScore

\* What score_threats selects, counting as it goes down the ranking, are the N best of
\* the threats that pass their gates and reach the threshold, all of them if N is not
\* set or larger: "only the highest-scoring N threats get written up".
THEOREM ScoringSelectsTheBest ==
    ASSUME NEW list, IsFiniteSet(DOMAIN list), IdsOrdered(DOMAIN list),
           \A t \in DOMAIN list : list[t].band \in Bands,
           NEW threshold, NEW topN \in Nat \union {Unset}
    PROVE  Selection(list, threshold, topN) = BestOf(list, threshold, topN)
<1>1. Ranked(list)
  BY ScoresAreNumbers DEF Ranked
<1> QED BY <1>1, SelectionIsBestOf

\* When the first run reaches the barrier every threat has been scored and the scenarios
\* are those of the N best threats over the threshold, as the configuration says, however
\* often the pipeline crashed, failed and was delivered again.
THEOREM FirstRunSelectsTheBest ==
    ASSUME IdsOrdered(Nat) PROVE Spec => []FirstRunSelectsBest
<1>1. RowsOK /\ FirstRunOK => FirstRunSelectsBest
  <2> SUFFICES ASSUME RowsOK, FirstRunOK, Level("SCENARIOS").status = "AWAITING_DECISION",
                      Level("SCENARIOS").epoch = 1
               PROVE  /\ Unscored = {}
                      /\ {ThreatOf(s) : s \in outputs}
                           = BestOf(threats, cutoff.threshold, cutoff.topN)
    BY DEF FirstRunSelectsBest
  <2>1. /\ Unscored = {}
        /\ {ThreatOf(s) : s \in outputs} = Selection(threats, cutoff.threshold, cutoff.topN)
    BY DEF FirstRunOK, Finished
  <2>2. DOMAIN threats \in SUBSET (1..minted) /\ minted \in Nat
    BY DEF RowsOK
  <2>3. IsFiniteSet(DOMAIN threats)
    BY <2>2, FS_Interval, FS_Subset
  <2>4. IdsOrdered(DOMAIN threats)
    BY <2>2 DEF IdsOrdered
  <2>5. \A t \in DOMAIN threats : threats[t].band \in Bands
    BY DEF RowsOK, ThreatRow
  <2>6. cutoff.topN \in Nat \union {Unset}
    BY CutoffsAssumption DEF RowsOK
  <2> QED BY <2>1, <2>3, <2>4, <2>5, <2>6, ScoringSelectsTheBest
<1> QED BY <1>1, InitWork, NextWork, PTL DEF WorkInv, Spec
=============================================================================

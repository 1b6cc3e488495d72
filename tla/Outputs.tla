------------------------------- MODULE Outputs -------------------------------
(***************************************************************************)
(* The output rows of ONE supporting system: its profile, its threats,     *)
(* their scoring records and their scenarios, as the pipeline task and the *)
(* regenerations write and supersede them (tasks.py, cascade.py, dal.py).  *)
(*                                                                         *)
(* Its _LOCK and the session's gates are TsgSession's: here one delivery   *)
(* at a time works on the supporting system (OneWorkerPerSubsystem), a     *)
(* request arrives when no level is pending and no delivery runs, and the  *)
(* session's other supporting systems keep it in review when this one      *)
(* fails.  A delivery may die anywhere and be repeated, and a task may     *)
(* still be queued when the reaper has failed its levels and a later       *)
(* regeneration was asked for.                                             *)
(*                                                                         *)
(* Superseding a row is removing it: the code reads no superseded row,     *)
(* except through an active scenario, which therefore keeps the ThreatID   *)
(* it was written for.                                                     *)
(***************************************************************************)
EXTENDS StageBoard, Scoping

CONSTANTS
    Types,         \* the ThreatTypeIDs of the library's active types
    CategoryOf,    \* PrimaryThreatCategoryID of a type
    Groundings,    \* what grounding may make of a proposal: its type and band
    Cutoffs,       \* the configured score thresholds and top-N limits
    Offered,       \* the granularities the reviewer asks to regenerate at
    MaxProposals,  \* bound: threats the LLM proposes in one stage
    MaxTargets,    \* bound: scenarios or threats that one request names
    MaxRegens,     \* bound: regeneration requests
    MaxMishaps     \* bound: crashes, failures and reaper passes

ASSUME OneSubsystem        == NumSubs = 1
ASSUME OfferedAssumption   == Offered \subseteq Granularities
ASSUME CutoffsAssumption    == \A c \in Cutoffs : c.topN \in Nat \union {Unset}
ASSUME GroundingAssumption ==
    Groundings \subseteq [type : Types \union {NoType}, band : Bands]
ASSUME LimitsAssumption    ==
    MaxProposals \in Nat /\ MaxTargets \in Nat /\ MaxRegens \in Nat /\ MaxMishaps \in Nat

VARIABLES
    board,     \* the stage board; it has one supporting system
    cutoff,    \* the configured cutoff: threshold and topN
    profile,   \* is there an active profile?
    threats,   \* active Identified_Threat rows: ThreatID -> type, band, origin
    scoped,    \* active Scoped_Threat rows: ScopedThreatID -> Selected
    outputs,   \* ScopedThreatIDs with an active Threat_Scenario_Output row
    minted,    \* how many ids were given out
    requests,  \* what was asked of each task, by its epoch
    queue,     \* tasks at the broker
    worker,    \* the delivery that is executed
    mishaps    \* how often what went wrong

rowVars == <<profile, threats, scoped, outputs, minted>>
vars    == <<board, cutoff, rowVars, requests, queue, worker, mishaps>>

Here    == 1
Level(l) == board[Here][l]
Resting == \A l \in WorkLevels : Level(l).status \notin Pending

\* Rows are functions from their ids.
Without(rows, gone) == [r \in DOMAIN rows \ gone |-> rows[r]]
With(rows, more)    == [r \in DOMAIN rows \union DOMAIN more |->
                           IF r \in DOMAIN more THEN more[r] ELSE rows[r]]

\* A ThreatID is a number; the replacement that a regeneration makes of a threat can
\* be told from the threat and the epoch (_new_threat_id).  A ScopedThreatID is told
\* apart by the write that made it and names the threat it scores.
NewIds(n)   == minted + 1 .. minted + n
NoOrigin    == <<0, 0>>
ThreatOf(s) == s[2]
ThreatRow   == [type : Types \union {NoType}, band : Bands, origin : Nat \X Nat]

Row(grounding, origin) ==
    [type |-> grounding.type, band |-> grounding.band, origin |-> origin]

Targeted == {"scenario", "threat"}
ByType   == {"threat_type", "threat_category"}

Idle == [pc |-> "idle", task |-> NoTask, stage |-> "none", list |-> {}, targets |-> {}]

-----------------------------------------------------------------------------
(* Which rows a stage touches.                                             *)

\* The active threats that find_threats supersedes.
InScope(request) ==
    CASE request.kind = "threat_type" ->
            {t \in DOMAIN threats : threats[t].type \in request.targets}
      [] request.kind = "threat_category" ->
            {t \in DOMAIN threats : /\ threats[t].type # NoType
                                    /\ CategoryOf[threats[t].type] \in request.targets}
      [] OTHER -> DOMAIN threats

\* The active scoring records of some threats; the scenarios hang on them.
ScoringsOf(T) == {s \in DOMAIN scoped : ThreatOf(s) \in T}

\* (mutation) what hangs on a replaced threat is left to write_scenarios
LineageLater(T) == {}

\* What goes with the threats that a threat regeneration replaces.
Lineage(T) == ScoringsOf(T)

\* (mutation) a crashed threat regeneration is not recognised
ResumableNever(t) == {}

\* The replacements that task t made of its threats before it crashed.
Resumable(t) ==
    {a \in DOMAIN threats :
        threats[a].origin \in {<<old, t.epoch>> : old \in requests[t.epoch].about}}

-----------------------------------------------------------------------------
(* Going from one stage to the next.                                       *)

\* The first of these levels that task t can claim on board b: a missed claim
\* changes nothing and the task tries its next level.
FirstClaim(b, t, levels) ==
    LET claimable == {l \in levels : Claimable(b, Here, l, t)}
    IN  IF "PROFILE" \in claimable THEN "PROFILE"
        ELSE IF "THREATS" \in claimable THEN "THREATS" ELSE "SCENARIOS"

\* Task t goes on with these levels on board b.  list and targets are what it will
\* hand to write_scenarios: the threats to rank and the ones to write.
GoOn(b, t, levels, list, targets) ==
    LET l == FirstClaim(b, t, levels)
    IN  IF \E k \in levels : Claimable(b, Here, k, t)
        THEN /\ board' = Claim(b, Here, l, t)
             /\ worker' = [pc |-> "ask", task |-> t, stage |-> l, list |-> list,
                           targets |-> targets]
        ELSE board' = b /\ worker' = Idle

Later(l) == CASE l = "PROFILE" -> {"THREATS", "SCENARIOS"}
              [] l = "THREATS" -> {"SCENARIOS"}
              [] OTHER         -> {}

\* (mutation) a redelivered pipeline task does not read its threats back
ReadBackNothing(t, found) == found

\* The threats a task hands on: those its THREATS stage found, and if it found none
\* or did not run again, a pipeline task reads the active ones; a regeneration that
\* is not about threats it kept does not.
ReadBack(t, found) == IF t.kind = "pipeline" /\ found = {} THEN DOMAIN threats ELSE found

-----------------------------------------------------------------------------
(* One delivery.                                                           *)

TakenFrom(t) == queue' = queue \ {t}

\* A task whose target is gone, or with nothing to claim, ends without a change.
Dropped == UNCHANGED <<board, worker>>

StartPipeline(t) ==
    /\ t.kind = "pipeline"
    /\ GoOn(board, t, WorkLevels, ReadBack(t, {}), {})
    /\ UNCHANGED rowVars

\* Scenarios are rewritten for the threats they were written for, active or not.
StartScenarios(t) ==
    LET wanted == requests[t.epoch].targets
    IN  /\ t.kind = "scenario"
        /\ IF wanted \subseteq outputs
           THEN GoOn(board, t, {"SCENARIOS"}, DOMAIN threats, {ThreatOf(s) : s \in wanted})
           ELSE Dropped
        /\ UNCHANGED rowVars

\* Types and categories: no list unless THREATS runs now.  A profile regeneration
\* likewise, with a list that write_scenarios takes for all there is.
StartBroad(t) ==
    /\ t.kind \in ByType \union {"profile"}
    /\ GoOn(board, t, LevelsOf(t.kind), {}, {})
    /\ UNCHANGED rowVars

\* A threat regeneration takes THREATS, in a transaction that it goes on with.
StartThreats(t) ==
    /\ t.kind = "threat" /\ requests[t.epoch].targets \subseteq DOMAIN threats
    /\ board' = board
    /\ worker' = IF Claimable(board, Here, "THREATS", t)
                 THEN [Idle EXCEPT !.pc = "ground", !.task = t] ELSE Idle
    /\ UNCHANGED rowVars

\* Its targets are gone: either because it replaced them before it crashed, and then
\* it goes on with their scenarios, or for good.
Resume(t) ==
    /\ t.kind = "threat" /\ ~(requests[t.epoch].targets \subseteq DOMAIN threats)
    /\ IF Resumable(t) # {}
       THEN GoOn(board, t, {"SCENARIOS"}, DOMAIN threats, Resumable(t))
       ELSE Dropped
    /\ UNCHANGED rowVars

Deliver(t) ==
    /\ worker.pc = "idle" /\ t \in queue
    /\ TakenFrom(t)
    /\ \/ StartPipeline(t) \/ StartScenarios(t) \/ StartBroad(t)
       \/ StartThreats(t) \/ Resume(t)
    /\ UNCHANGED <<cutoff, requests, mishaps>>

\* The pipeline commits a finished stage before it claims the next one; a
\* regeneration commits both at once.
Finish(l, list, targets) ==
    LET t == worker.task
        done == SetStage(board, Here, l, IF l = "SCENARIOS" THEN "AWAITING_DECISION"
                                                            ELSE "COMPLETE")
    IN  IF t.kind = "pipeline" /\ l # "SCENARIOS"
        THEN /\ board' = done
             /\ worker' = [worker EXCEPT !.pc = "next", !.list = list]
        ELSE GoOn(done, t, LevelsOf(t.kind) \intersect Later(l), list, targets)

\* It grounds its threats again: new rows take the place of the old ones, whose
\* scoring records and scenarios go with them, and SCENARIOS is claimed at once.
Reground ==
    LET t == worker.task
        old == requests[t.epoch].targets
        new == NewIds(Cardinality(old))
        b == SetStage(Claim(board, Here, "THREATS", t), Here, "THREATS", "COMPLETE")
    IN  /\ worker.pc = "ground"
        /\ \E origin \in Bijection(new, old), g \in [new -> Groundings] :
            threats' = With(Without(threats, old),
                            [a \in new |-> Row(g[a], <<origin[a], t.epoch>>)])
        /\ scoped' = Without(scoped, Lineage(old))
        /\ outputs' = outputs \ Lineage(old)
        /\ minted' = minted + Cardinality(old)
        /\ GoOn(b, t, {"SCENARIOS"}, DOMAIN threats', new)
        /\ UNCHANGED <<cutoff, profile, requests, queue, mishaps>>

ClaimNext ==
    LET t == worker.task
    IN  /\ worker.pc = "next"
        /\ GoOn(board, t, Later(worker.stage), ReadBack(t, worker.list), {})
        /\ UNCHANGED <<cutoff, rowVars, requests, queue, mishaps>>

WriteProfile ==
    /\ worker.pc = "ask" /\ worker.stage = "PROFILE"
    /\ profile' = TRUE
    /\ Finish("PROFILE", {}, {})
    /\ UNCHANGED <<cutoff, threats, scoped, outputs, minted, requests, queue, mishaps>>

\* find_threats supersedes what is in scope and inserts what the LLM proposed; only
\* a type or category regeneration limits write_scenarios to the new threats.
FindThreats ==
    LET t == worker.task
    IN  /\ worker.pc = "ask" /\ worker.stage = "THREATS"
        /\ \E n \in 0..MaxProposals : \E g \in [NewIds(n) -> Groundings] :
            /\ threats' = With(Without(threats, InScope(requests[t.epoch])),
                               [a \in NewIds(n) |-> Row(g[a], NoOrigin)])
            /\ minted' = minted + n
            /\ Finish("THREATS", NewIds(n), NewIds(n))
        /\ UNCHANGED <<cutoff, profile, scoped, outputs, requests, queue, mishaps>>

\* (mutations) a rewritten threat keeps its old scenario; a targeted stage retires all
RetiredScenariosNone(t, S) == IF t.kind \in {"pipeline", "profile"} THEN outputs ELSE {}
RetiredScenariosAll(t, S)  == outputs

\* The scenarios to supersede, given the scoring records that are superseded.
RetiredScenarios(t, S) == IF t.kind \in {"pipeline", "profile"} THEN outputs ELSE S

\* write_scenarios ranks its list, supersedes the scoring records of what it is about
\* to write, all of them in an unscoped stage, and writes a new record per threat and
\* a scenario per selected one.
WriteScenarios ==
    LET t == worker.task
        unscoped == t.kind \in {"pipeline", "profile"}
        list == [a \in worker.list |-> threats[a]]
        chosen == Selection(list, cutoff.threshold, cutoff.topN)
        written == IF unscoped THEN worker.list ELSE worker.list \intersect worker.targets
        retired == IF unscoped THEN DOMAIN scoped ELSE ScoringsOf(worker.targets)
        stamp == minted + 1
        fresh == [s \in {<<stamp, a>> : a \in written} |-> ThreatOf(s) \in chosen]
    IN  /\ worker.pc = "ask" /\ worker.stage = "SCENARIOS"
        /\ scoped' = With(Without(scoped, retired), fresh)
        /\ outputs' = (outputs \ RetiredScenarios(t, retired))
                      \union {s \in DOMAIN fresh : fresh[s]}
        /\ minted' = stamp
        /\ Finish("SCENARIOS", {}, {})
        /\ UNCHANGED <<cutoff, profile, threats, requests, queue, mishaps>>

-----------------------------------------------------------------------------
(* What goes wrong.                                                        *)

Happen(kind) ==
    /\ mishaps.crash + mishaps.loss + mishaps.failure + mishaps.sweep < MaxMishaps
    /\ mishaps' = [mishaps EXCEPT ![kind] = @ + 1]

\* The worker dies; its open transaction is lost, and perhaps the task with it.
Crash ==
    /\ worker.pc # "idle"
    /\ \/ Happen("crash") /\ queue' = queue \union {worker.task}
       \/ Happen("loss")  /\ queue' = queue
    /\ worker' = Idle
    /\ UNCHANGED <<board, cutoff, rowVars, requests>>

\* A stage raises: what it wrote is rolled back and the pending levels fail.
Fail ==
    /\ worker.pc # "idle"
    /\ Happen("failure")
    /\ board' = FailPending(board, {Here})
    /\ worker' = Idle
    /\ UNCHANGED <<cutoff, rowVars, requests, queue>>

\* The reaper closes out a session on which nobody seems to work.
CloseOut ==
    /\ worker.pc = "idle" /\ ~Resting
    /\ Happen("sweep")
    /\ board' = FailPending(board, {Here})
    /\ UNCHANGED <<cutoff, rowVars, requests, queue, worker>>

-----------------------------------------------------------------------------
(* Regeneration requests.                                                  *)

\* What a reviewer can name at each granularity, and the threats it is about.
Targets(kind) ==
    CASE kind = "scenario"        -> UNION {kSubset(n, outputs) : n \in 1..MaxTargets}
      [] kind = "threat"          -> UNION {kSubset(n, DOMAIN threats) : n \in 1..MaxTargets}
      [] kind = "threat_type"     -> SUBSET Types \ {{}}
      [] kind = "threat_category" -> SUBSET {CategoryOf[t] : t \in Types} \ {{}}
      [] OTHER                    -> {{}}

Regenerate(kind) ==
    LET e == NextEpoch(board, Here, kind)
        t == [kind |-> kind, ss |-> Here, epoch |-> e]
    IN  /\ worker.pc = "idle" /\ Resting
        /\ Cardinality(DOMAIN requests) <= MaxRegens
        /\ \E T \in Targets(kind) :
            requests' = With(requests, [x \in {e} |->
                [kind |-> kind, targets |-> T,
                 about |-> CASE kind = "scenario" -> {ThreatOf(s) : s \in T}
                             [] kind = "threat"   -> T
                             [] OTHER             -> {}]])
        /\ board' = ResetForRegen(board, Here, kind, e)
        /\ queue' = queue \union {t}
        /\ UNCHANGED <<cutoff, rowVars, worker, mishaps>>

-----------------------------------------------------------------------------
Init ==
    /\ board = SeededBoard
    /\ cutoff \in Cutoffs
    /\ profile = FALSE
    /\ threats = [t \in {} |-> {}]
    /\ scoped = [s \in {} |-> {}]
    /\ outputs = {}
    /\ minted = 0
    /\ requests = [e \in {1} |-> [kind |-> "pipeline", targets |-> {}, about |-> {}]]
    /\ queue = {PipelineTask}
    /\ worker = Idle
    /\ mishaps = [crash |-> 0, loss |-> 0, failure |-> 0, sweep |-> 0]

Next ==
    \/ \E t \in queue : Deliver(t)
    \/ Reground \/ ClaimNext \/ WriteProfile \/ FindThreats \/ WriteScenarios
    \/ Crash \/ Fail \/ CloseOut
    \/ \E kind \in Offered : Regenerate(kind)

Spec == Init /\ [][Next]_vars

-----------------------------------------------------------------------------
(* Properties.                                                             *)

\* The type invariant.  What a task will rank are active threats; a scenario has an
\* active scoring record.
TypeOK ==
    /\ cutoff \in Cutoffs /\ profile \in BOOLEAN /\ minted \in Nat
    /\ threats \in [DOMAIN threats -> ThreatRow] /\ DOMAIN threats \subseteq 1..minted
    /\ scoped \in [DOMAIN scoped -> BOOLEAN]
    /\ DOMAIN scoped \subseteq (1..minted) \X (1..minted)
    /\ outputs \subseteq DOMAIN scoped
    /\ queue \subseteq Task /\ {t.epoch : t \in queue} \subseteq DOMAIN requests
    /\ worker.task \in Task \union {NoTask} /\ worker.list \subseteq DOMAIN threats

\* A threat has at most one active scoring record, whatever was superseded by id, by
\* type or altogether, and the active scenarios are exactly those of the selected
\* records: no duplicate scenario, none without its record, none missing.
ScenariosMatchScorings ==
    /\ \A r, s \in DOMAIN scoped : ThreatOf(r) = ThreatOf(s) => r = s
    /\ outputs = {s \in DOMAIN scoped : scoped[s]}

Unscored == {t \in DOMAIN threats : ScoringsOf({t}) = {}}
Orphans  == {s \in outputs : ThreatOf(s) \notin DOMAIN threats}

Asked(kinds) == \E e \in DOMAIN requests : requests[e].kind \in kinds

\* A scenario whose threat was superseded is left over by a type or category
\* regeneration, or by a profile regeneration that failed half-way or came late; every
\* other task, however often it crashed, retires a threat's scenario with the threat.
OrphansComeFromBroad ==
    Level("SCENARIOS").status \in Finished /\ Orphans # {} =>
        \/ Asked(ByType)
        \/ Asked({"profile"}) /\ mishaps.failure + mishaps.sweep > 0

\* A threat under review has been scored.  A crash alone does not change that for the
\* pipeline, a scenario or a threat regeneration: their redeliveries find what the
\* crashed one left.  It takes a stage that failed, a reaper that failed it, or a
\* broader regeneration that crashed.
UnscoredNeedsMishap ==
    Level("SCENARIOS").status = "AWAITING_DECISION" /\ Unscored # {} =>
        \/ mishaps.failure > 0 \/ mishaps.sweep > 0
        \/ mishaps.crash > 0 /\ Asked(ByType \union {"profile"})

InFlight == queue \union (IF worker.pc = "idle" THEN {} ELSE {worker.task})

\* Work that is pending has its task: however a delivery crashed, the redelivery can
\* tell what is left of it, unless it used up its attempts.  A reaper's failure can break
\* that: a task it outran may supersede the threats that a later request is about.
WorkHasTask ==
    \A l \in WorkLevels : Level(l).status \in Pending =>
        \/ \E t \in InFlight : t.epoch = Level(l).epoch
        \/ Level(l).attempts = MaxAttempts
        \/ mishaps.loss + mishaps.sweep > 0

\* When the first run reaches the barrier the scenarios are those of the N best threats
\* over the threshold, as the configuration says, however often it was redelivered.
FirstRunSelectsBest ==
    Level("SCENARIOS").status = "AWAITING_DECISION" /\ Level("SCENARIOS").epoch = 1 =>
        /\ Unscored = {}
        /\ {ThreatOf(s) : s \in outputs} = BestOf(threats, cutoff.threshold, cutoff.topN)

\* The threats a row-targeted task may take scenarios from.
Victims(t) == requests[t.epoch].about \union Resumable(t)

\* "siblings are left untouched" (write_scenarios): while only scenario and threat
\* regenerations are in flight, no scenario is superseded but those they name.
SiblingsUntouched ==
    [][\A s \in outputs \ outputs' : \E t \in InFlight :
          t.kind \notin Targeted \/ ThreatOf(s) \in Victims(t)]_vars
=============================================================================

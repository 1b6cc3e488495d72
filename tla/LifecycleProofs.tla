--------------------------- MODULE LifecycleProofs ---------------------------
(***************************************************************************)
(* Proof that TsgSession implements SessionLifecycle if its requests come  *)
(* one after another, and none after the session's end: otherwise TLC      *)
(* refutes it (EndedIsFinal, AcceptedAtBarrier).  The refinement needs,    *)
(* beside the types, what the session row's stage says of its status, and  *)
(* that nothing takes a session out of review while an accept is in        *)
(* flight (ReviewHeld).                                                    *)
(***************************************************************************)
EXTENDS TsgSessionProofs

ReviewHeld ==
    /\ session.stage = "REVIEW" => Active
    /\ regen.pc # "idle" => MaxRegens > 0 /\ accept.pc = "idle"
    /\ accept.pc # "idle" => Phase = "review"

Orderly == ~RequestsOverlap

\* The part of the session row that the life cycle does not see.
SameSession == session'.status = session.status /\ session'.stage = session.stage

Abstract == [Lifecycle!Next]_(Lifecycle!lifeVars)

-----------------------------------------------------------------------------
(* Steps, by what they do to the session row and the accept request.       *)

\* A step that changes neither is a stutter.
LEMMA QuietStep ==
    ASSUME ReviewHeld, SameSession, accept' = accept,
           regen'.pc # "idle" => regen.pc # "idle"
    PROVE  ReviewHeld' /\ Abstract
<1>1. Phase' = Phase
  BY DEF Phase, Terminal, SameSession, Active
<1> QED BY <1>1 DEF ReviewHeld, Abstract, Lifecycle!lifeVars, SameSession, Active

\* The outcome of a worker or of the reaper announces a review or gives up.
LEMMA ConcludeStep ==
    ASSUME IInv, ReviewHeld, NEW verdict, session' = Conclude(session, verdict),
           UNCHANGED <<accept, regen>>
    PROVE  ReviewHeld' /\ Abstract
<1>1. session \in SessionType
  BY DEF IInv, TypeOK, SessionType
<1>2. CASE session' = session
  BY <1>2, QuietStep DEF SameSession
<1>3. CASE session' # session
  <2>1. Active /\ session.stage # "REVIEW" /\ Phase = "working"
    BY <1>3 DEF Conclude, Active, Terminal, Phase
  <2>0. accept.pc = "idle"
    BY <2>1 DEF ReviewHeld
  <2>2. CASE session' = InReview(session)
    <3>1. session'.stage = "REVIEW" /\ session'.status = "active"
      BY <1>1, <2>1, <2>2 DEF InReview, SessionType, Active
    <3>2. Phase' = "review"
      BY <3>1 DEF Phase, Terminal, Active
    <3> QED BY <2>0, <2>1, <3>1, <3>2
        DEF ReviewHeld, Abstract, Active, Lifecycle!Next, Lifecycle!Announce
  <2>3. CASE session' = Cancelled(session)
    <3>1. session'.stage = "CANCELLED" /\ session'.status = "cancelled"
      BY <1>1, <2>3 DEF Cancelled, SessionType
    <3>2. Phase' = "cancelled"
      BY <3>1 DEF Phase, Terminal, Active
    <3> QED BY <2>0, <2>1, <3>1, <3>2
        DEF ReviewHeld, Abstract, Lifecycle!Next, Lifecycle!GiveUp
  <2> QED BY <1>3, <2>1, <2>2, <2>3 DEF Conclude, Active
<1> QED BY <1>2, <1>3

\* A worker's step changes the session row only in Outcome, and accept never.
LEMMA WorkerStepLife ==
    ASSUME IInv, ReviewHeld, NEW w \in Workers, WorkerStep(w)
    PROVE  ReviewHeld' /\ Abstract
<1>1. session \in SessionType
  BY DEF IInv, TypeOK, SessionType
<1>2. CASE Outcome(w)
  BY <1>2, ConcludeStep DEF Outcome, apiVars
<1>3. CASE FinishStage(w)
  <2>1. UNCHANGED <<session, accept>>
    BY <1>3 DEF FinishStage
  <2>2. regen'.pc # "idle" => regen.pc # "idle"
    <3>1. regen' = regen \/ regen' = [regen EXCEPT !.fresh = FALSE]
      BY <1>3 DEF FinishStage, Supersede
    <3>2. regen \in [pc : {"idle", "gated", "reserved"}, ss : 0..NumSubs,
                     kind : Granularities, epoch : Nat \ {0}, fresh : BOOLEAN]
      BY DEF IInv, TypeOK
    <3> QED BY <3>1, <3>2
  <2> QED BY <2>1, <2>2, QuietStep DEF SameSession
<1>4. CASE StartSubsystem(w)
  <2>1. UNCHANGED <<accept, regen>> /\ SameSession
    BY <1>1, <1>4 DEF StartSubsystem, apiVars, SameSession, SessionType
  <2> QED BY <2>1, QuietStep
<1>5. CASE \/ Take(w) \/ CheckTarget(w) \/ Wait(w) \/ MissLock(w) \/ ClaimStage(w) \/ StartRegen(w)
           \/ Reground(w) \/ Resume(w) \/ FailStage(w) \/ FailLocked(w) \/ Release(w)
           \/ Decide(w)
  <2>1. UNCHANGED <<session, accept, regen>>
    BY <1>5 DEF Take, CheckTarget, Wait, MissLock, ClaimStage, StartRegen, Reground, Resume,
        FailStage, FailLocked, Release, Decide, dbVars, apiVars
  <2> QED BY <2>1, QuietStep DEF SameSession
<1> QED BY <1>2, <1>3, <1>4, <1>5 DEF WorkerStep

\* The reaper's steps, the broker's, the crashes and time.
LEMMA EnvironmentStepLife ==
    ASSUME IInv, ReviewHeld,
           \/ ReaperStep \/ ReaperCrash \/ Tick
           \/ \E w \in Workers : Crash(w) \/ Duplicate(w)
    PROVE  ReviewHeld' /\ Abstract
<1>1. session \in SessionType
  BY DEF IInv, TypeOK, SessionType
<1>2. CASE CloseOut
  <2>1. UNCHANGED <<accept, regen>>
    BY <1>2 DEF CloseOut, apiVars
  <2>2. CASE session' = session
    BY <2>1, <2>2, QuietStep DEF SameSession
  <2>3. CASE session' = Conclude(session, Verdict(FailPending(board, Subs)))
    BY <2>1, <2>3, ConcludeStep
  <2> QED BY <1>2, <2>2, <2>3 DEF CloseOut
<1>3. CASE Tick
  <2>1. UNCHANGED <<accept, regen>> /\ SameSession
    BY <1>1, <1>3 DEF Tick, apiVars, SameSession, SessionType
  <2> QED BY <2>1, QuietStep
<1>4. CASE \/ Scan \/ SweepExpired \/ Find \/ BlockReaper \/ GiveBack \/ ReaperCrash
           \/ \E w \in Workers : Crash(w) \/ Duplicate(w)
  <2>1. UNCHANGED <<session, accept, regen>>
    BY <1>4 DEF Scan, SweepExpired, Find, BlockReaper, GiveBack, ReaperCrash, Crash, Duplicate,
        dbVars, apiVars
  <2> QED BY <2>1, QuietStep DEF SameSession
<1> QED BY <1>2, <1>3, <1>4 DEF ReaperStep

\* An accept request begins in a review and completes the session or gives up.
LEMMA AcceptStepLife ==
    ASSUME Orderly, IInv, ReviewHeld, AcceptGate \/ AcceptStep
    PROVE  ReviewHeld' /\ Abstract
<1>1. /\ session \in SessionType
      /\ accept \in [pc : {"idle", "gated", "read", "locked"}, good : SUBSET Subs]
      /\ MaxRegens \in Nat /\ MaxCancels \in Nat
  BY BoundsAssumption DEF IInv, TypeOK, SessionType
<1>2. CASE AcceptGate
  <2>1. Phase = "review" /\ accept.pc = "idle" /\ accept'.pc # "idle"
    BY <1>2 DEF AcceptGate, AtReview, ReviewHeld, Phase, Terminal, NoAccept
  <2>0. regen.pc = "idle"
    BY <1>2 DEF AcceptGate, MayAsk, Orderly
  <2>2. Phase' = Phase /\ UNCHANGED <<session, regen>>
    BY <1>2 DEF AcceptGate, Phase, Terminal, Active, dbVars
  <2> QED BY <2>0, <2>1, <2>2
      DEF ReviewHeld, Abstract, Lifecycle!Next, Lifecycle!BeginAccept, Active
<1>3. CASE AcceptFinish
  <2>1. session'.status = "completed" /\ session'.stage = "APPROVED"
    BY <1>1, <1>3 DEF AcceptFinish, Completed, SessionType
  <2>2. Phase' = "completed" /\ accept'.pc = "idle" /\ accept.pc # "idle"
    BY <1>3, <2>1 DEF AcceptFinish, Phase, Terminal, Active, NoAccept
  <2>3. UNCHANGED regen
    BY <1>3 DEF AcceptFinish
  <2>4. regen.pc = "idle" /\ Phase = "review"
    BY <2>2 DEF ReviewHeld
  <2> QED BY <2>1, <2>2, <2>3, <2>4
      DEF ReviewHeld, Abstract, Lifecycle!Next, Lifecycle!Complete
<1>4. CASE AcceptRead \/ AcceptLock \/ AcceptAbort
  <2>1. UNCHANGED <<session, regen>> /\ accept.pc # "idle" /\ Phase' = Phase
    BY <1>4 DEF AcceptRead, AcceptLock, AcceptAbort, dbVars, Phase, Terminal, Active
  <2>2. CASE accept'.pc = "idle"
    BY <2>1, <2>2 DEF ReviewHeld, Abstract, Active, Lifecycle!Next, Lifecycle!Withdraw
  <2>3. CASE accept'.pc # "idle"
    BY <2>1, <2>3 DEF ReviewHeld, Abstract, Active, Lifecycle!lifeVars
  <2> QED BY <2>2, <2>3
<1> QED BY <1>2, <1>3, <1>4 DEF AcceptStep

\* Regenerate and cancel requests.
LEMMA RequestStepLife ==
    ASSUME Orderly, IInv, ReviewHeld,
           \/ \E ss \in Subs, kind \in Offered : RegenGate(ss, kind)
           \/ RegenStep \/ Cancel
    PROVE  ReviewHeld' /\ Abstract
<1>1. /\ session \in SessionType
      /\ spent \in [crashes : 0..MaxCrashes, duplicates : 0..MaxDuplicates,
                    regens : 0..MaxRegens, cancels : 0..MaxCancels]
      /\ MaxRegens \in Nat /\ MaxCancels \in Nat
  BY BoundsAssumption DEF IInv, TypeOK, SessionType
<1>2. ASSUME NEW ss \in Subs, NEW kind \in Offered, RegenGate(ss, kind)
      PROVE  ReviewHeld' /\ Abstract
  <2>1. UNCHANGED <<session, accept>> /\ spent.regens < MaxRegens /\ accept.pc = "idle"
    BY <1>2 DEF RegenGate, MayAsk, Orderly, dbVars
  <2>2. MaxRegens > 0
    BY <1>1, <2>1
  <2>3. Phase' = Phase
    BY <2>1 DEF Phase, Terminal, Active
  <2> QED BY <2>1, <2>2, <2>3 DEF ReviewHeld, Abstract, Active, Lifecycle!lifeVars
<1>3. CASE RegenReserve
  <2>1. UNCHANGED accept /\ MaxRegens > 0 /\ accept.pc = "idle"
    BY <1>3 DEF RegenReserve, ReviewHeld
  <2>2. CASE Active /\ session.stage = "REVIEW"
    <3>1. /\ session'.status = "active"
          /\ session'.stage = RegenStage(regen.kind)
      BY <1>1, <1>3, <2>2 DEF RegenReserve, SessionType, Active
    <3>2. session'.stage # "REVIEW"
      BY <3>1 DEF RegenStage
    <3>3. Phase = "review" /\ Phase' = "working"
      BY <2>2, <3>1, <3>2 DEF Phase, Terminal, Active
    <3> QED BY <2>1, <3>2, <3>3
        DEF ReviewHeld, Abstract, Lifecycle!Next, Lifecycle!Redo
  <2>3. CASE ~(Active /\ session.stage = "REVIEW")
    <3>1. UNCHANGED session /\ regen'.pc = "idle"
      BY <1>3, <2>3 DEF RegenReserve, NoRegen
    <3> QED BY <2>1, <3>1, QuietStep DEF SameSession
  <2> QED BY <2>2, <2>3
<1>4. CASE RegenEnqueue
  <2>1. UNCHANGED <<session, accept>> /\ regen'.pc = "idle"
    BY <1>4 DEF RegenEnqueue, dbVars, NoRegen
  <2> QED BY <2>1, QuietStep DEF SameSession
<1>5. CASE Cancel
  <2>1. UNCHANGED <<accept, regen>> /\ MaxCancels > 0
    BY <1>1, <1>5 DEF Cancel, apiVars
  <2>4. /\ accept.pc = "idle" /\ regen.pc = "idle"
        /\ Phase \in {"working", "review"}
    BY <1>5 DEF Cancel, MayAsk, Orderly, Phase, Terminal
  <2>2. session'.stage = "CANCELLED" /\ session'.status = "cancelled"
    BY <1>1, <1>5 DEF Cancel, Cancelled, SessionType
  <2>3. Phase' = "cancelled"
    BY <2>2 DEF Phase, Terminal, Active
  <2> QED BY <2>1, <2>2, <2>3, <2>4
      DEF ReviewHeld, Abstract, Lifecycle!Next, Lifecycle!Cancel
<1> QED BY <1>2, <1>3, <1>4, <1>5 DEF RegenStep

-----------------------------------------------------------------------------
\* Every step of the detailed specification is a step of the life cycle, or none.
LEMMA StepLife ==
    ASSUME Orderly, IInv, ReviewHeld, [Next]_vars
    PROVE  ReviewHeld' /\ Abstract
<1>1. CASE UNCHANGED vars
  BY <1>1, QuietStep DEF vars, dbVars, apiVars, SameSession
<1>2. CASE Next
  BY <1>2, WorkerStepLife, EnvironmentStepLife, AcceptStepLife, RequestStepLife DEF Next
<1> QED BY <1>1, <1>2

\* A new session is where the life cycle begins.
LEMMA InitLife == Init => ReviewHeld /\ Lifecycle!Init
BY DEF Init, ReviewHeld, Created, NoRegen, NoAccept, Phase, Terminal, Active, Lifecycle!Init

\* A session whose requests come one after another implements SessionLifecycle:
\* whatever is redelivered, fails, crashes or is swept meanwhile, its row goes back to
\* work only from a review, is completed only from a review, and stays as it ended.
THEOREM SessionImplementsLifecycle ==
    ASSUME Orderly
    PROVE  Spec => ImplementsLifecycle
<1>1. Init => ReviewHeld /\ Lifecycle!Init
  BY InitLife
<1>2. IInv /\ ReviewHeld /\ [Next]_vars => ReviewHeld' /\ Abstract
  BY StepLife
<1> QED BY <1>1, <1>2, Invariance, PTL DEF Spec, ImplementsLifecycle, Lifecycle!Spec, Abstract
=============================================================================

--------------------------- MODULE EventStreamProofs ---------------------------
(***************************************************************************)
(* Proofs about EventStream, for any number of supporting systems and any  *)
(* number of mishaps and regenerations: a client that missed nothing shows *)
(* what is in the database once it has all events.                         *)
(*                                                                         *)
(* The argument is about the board that the client will show when it has   *)
(* received the events that are on their way.  That board differs from the *)
(* database only in cells that the delivery has still to write and will    *)
(* announce (Owed), and in those that were written unheard; when it is     *)
(* done, the latter are all that is left to differ in.                     *)
(***************************************************************************)
EXTENDS EventStream, SequenceTheorems, TLAPS

Phases == {"working", "review", "completed", "cancelled"}
Boards == [cells : [Cells -> Statuses], phase : Phases]
Tasks  ==
    {t \in [regen : BOOLEAN, silent : BOOLEAN, ss : Subs, stage : Stages] :
        /\ t.silent => t.regen /\ t.stage = 2
        /\ t.regen \/ t = Pipeline}

\* What a delivery does while it is in the middle of a stage, and all it does.
Midway == {"announce", "ask", "commit", "failing", "failed"}
Doing  == Midway \union {"next"}
Steps  == Doing \union {"decide", "idle", "lost"}

Events ==
    [about : {"stage"}, cell : Cells, status : Statuses]
        \union [about : {"error"}, ss : Subs]
        \union [about : {"phase"}, phase : Phases]

StreamOK ==
    /\ cells \in [Cells -> Statuses] /\ phase \in Phases
    /\ worker \in [pc : Steps, ss : Subs, stage : Stages, task : Tasks]
    /\ channel \in Seq(Events)
    /\ client \in {"away", "read", "listening"}
    /\ client # "listening" => channel = <<>>
    /\ view \in Boards
    /\ \A item \in news : item.phase \in {"review", "cancelled"} /\ item.task \in Tasks

\* A regeneration is one of its supporting system, from its stage on; the pipeline takes
\* all supporting systems from their first stage.
TaskOK ==
    IF worker.task.regen THEN worker.ss = worker.task.ss /\ worker.task.stage <= worker.stage
                         ELSE worker.task = Pipeline

-----------------------------------------------------------------------------
(* The board that the events on their way lead to.                         *)

\* Board b is what board v becomes by the events of ch.
Leads(v, ch, b) ==
    \E h \in [1 .. Len(ch) + 1 -> Boards] :
        /\ h[1] = v /\ h[Len(ch) + 1] = b
        /\ \A i \in 1 .. Len(ch) : h[i + 1] = Shown(h[i], ch[i])

LEMMA ShownBoard ==
    ASSUME NEW b \in Boards, NEW e \in Events
    PROVE  Shown(b, e) \in Boards
<1>1. CASE e \in [about : {"stage"}, cell : Cells, status : Statuses]
  BY <1>1 DEF Shown, Boards
<1>2. CASE e \in [about : {"error"}, ss : Subs]
  BY <1>2 DEF Shown, Boards, Failed, Statuses
<1>3. CASE e \in [about : {"phase"}, phase : Phases]
  BY <1>3 DEF Shown, Boards
<1> QED BY <1>1, <1>2, <1>3 DEF Events

LEMMA LeadsNowhere ==
    ASSUME NEW v \in Boards
    PROVE  Leads(v, <<>>, v) /\ \A b : Leads(v, <<>>, b) => b = v
<1>1. Leads(v, <<>>, v)
  <2> DEFINE h == [i \in 1 .. Len(<<>>) + 1 |-> v]
  <2>1. Len(<<>>) = 0
    OBVIOUS
  <2>2. h \in [1 .. Len(<<>>) + 1 -> Boards] /\ h[1] = v /\ h[Len(<<>>) + 1] = v
    BY <2>1
  <2>3. \A i \in 1 .. Len(<<>>) : h[i + 1] = Shown(h[i], <<>>[i])
    BY <2>1
  <2> HIDE DEF h
  <2> QED BY <2>2, <2>3 DEF Leads
<1>2. ASSUME NEW b, Leads(v, <<>>, b) PROVE b = v
  BY <1>2 DEF Leads
<1> QED BY <1>1, <1>2

\* Another event is shown after those that are on their way.
LEMMA LeadsOn ==
    ASSUME NEW v, NEW ch \in Seq(Events), NEW b \in Boards, NEW e \in Events, Leads(v, ch, b)
    PROVE  Leads(v, Append(ch, e), Shown(b, e))
<1>1. PICK h \in [1 .. Len(ch) + 1 -> Boards] :
          /\ h[1] = v /\ h[Len(ch) + 1] = b
          /\ \A i \in 1 .. Len(ch) : h[i + 1] = Shown(h[i], ch[i])
  BY DEF Leads
<1> DEFINE n == Len(ch)
           s == Shown(b, e)
           g == [i \in 1 .. n + 2 |-> IF i = n + 2 THEN s ELSE h[i]]
<1>2. n \in Nat /\ Len(Append(ch, e)) = n + 1 /\ s \in Boards
      /\ \A i \in 1 .. n : Append(ch, e)[i] = ch[i]
      /\ Append(ch, e)[n + 1] = e
  BY ShownBoard
<1> HIDE DEF s
<1>3. g \in [1 .. Len(Append(ch, e)) + 1 -> Boards]
  BY <1>1, <1>2
<1>4. g[1] = v /\ g[Len(Append(ch, e)) + 1] = s
  BY <1>1, <1>2
<1>5. ASSUME NEW i \in 1 .. n + 1
      PROVE  g[i + 1] = Shown(g[i], Append(ch, e)[i])
  <2>1. CASE i = n + 1
    <3>1. g[i] = b /\ g[i + 1] = s
      BY <1>1, <1>2, <2>1
    <3> QED BY <1>2, <2>1, <3>1 DEF s
  <2>2. CASE i # n + 1
    <3>1. i \in 1 .. n
      BY <1>2, <2>2
    <3>2. g[i] = h[i] /\ g[i + 1] = h[i + 1]
      BY <1>2, <3>1
    <3> QED BY <1>1, <1>2, <3>1, <3>2
  <2> QED BY <2>1, <2>2
<1> HIDE DEF g
<1> QED BY <1>2, <1>3, <1>4, <1>5 DEF Leads, s

\* The client receives the first of them.
LEMMA LeadsFrom ==
    ASSUME NEW v \in Boards, NEW ch \in Seq(Events), ch # <<>>, NEW b, Leads(v, ch, b)
    PROVE  Leads(Shown(v, Head(ch)), Tail(ch), b)
<1>1. PICK h \in [1 .. Len(ch) + 1 -> Boards] :
          /\ h[1] = v /\ h[Len(ch) + 1] = b
          /\ \A i \in 1 .. Len(ch) : h[i + 1] = Shown(h[i], ch[i])
  BY DEF Leads
<1> DEFINE n == Len(ch)
           g == [i \in 1 .. n |-> h[i + 1]]
<1>2. n \in Nat \ {0} /\ Len(Tail(ch)) = n - 1 /\ Head(ch) = ch[1]
      /\ \A i \in 1 .. n - 1 : Tail(ch)[i] = ch[i + 1]
  BY EmptySeq, HeadTailProperties
<1>3. g \in [1 .. Len(Tail(ch)) + 1 -> Boards]
  BY <1>1, <1>2
<1>4. g[1] = Shown(v, Head(ch)) /\ g[Len(Tail(ch)) + 1] = b
  BY <1>1, <1>2
<1>5. \A i \in 1 .. Len(Tail(ch)) : g[i + 1] = Shown(g[i], Tail(ch)[i])
  BY <1>1, <1>2
<1> HIDE DEF g
<1> QED BY <1>3, <1>4, <1>5 DEF Leads
-----------------------------------------------------------------------------
(* The delivery and what it has still to write.                            *)

\* The cells of a task, and those that the delivery will come to.
CellsOf(task) == {c \in Cells : task.regen => c[1] = task.ss /\ c[2] >= task.stage}

Ahead ==
    {c \in Cells :
        \/ worker.pc \in Doing /\ c[1] = worker.ss /\ c[2] >= worker.stage
        \/ worker.pc \in Doing /\ ~worker.task.regen /\ c[1] > worker.ss
        \/ worker.pc = "lost" /\ c \in CellsOf(worker.task)}

\* The stages that the delivery has behind it are finished, and what it announces and
\* asks for is claimed.
BehindOK ==
    worker.pc \in Doing =>
        \A k \in Stages : worker.task.stage <= k /\ k < worker.stage =>
            cells[<<worker.ss, k>>] \in Finished
ClaimOK == worker.pc \in {"announce", "ask", "commit"} => cells[Here] = "RUNNING"

\* What is pending in a session that has not ended is ahead of the delivery.
PendingOK == ~Ended => \A c \in Cells : cells[c] \in Pending => c \in Ahead

\* Somebody works on a session that is not in review; one that is in review has nothing
\* that never began; one that failed stays so.
PhaseOK ==
    /\ phase = "working" => worker.pc # "idle"
    /\ phase = "review" => \A c \in Cells : cells[c] # "IDLE"
    /\ \A item \in news : item.phase = "cancelled" => phase = "cancelled"

WorkInv == StreamOK /\ TaskOK /\ BehindOK /\ ClaimOK /\ PendingOK /\ PhaseOK

LEMMA HereIsCell ==
    ASSUME StreamOK
    PROVE  Here \in Cells /\ Here[1] = worker.ss /\ Here[2] = worker.stage
           /\ \A c \in Cells : c[1] = worker.ss /\ c[2] = worker.stage => c = Here
BY DEF StreamOK, Here, Cells

\* Where GoOn leads to, and which cells are not ahead any more.
LEMMA GoingOn ==
    ASSUME StreamOK, TaskOK, worker.pc \in Doing, NEW skip \in BOOLEAN, GoOn(skip)
    PROVE  /\ worker' \in [pc : Steps, ss : Subs, stage : Stages, task : Tasks]
           /\ worker'.task = worker.task /\ TaskOK'
           /\ \/ worker'.pc = "decide"
              \/ /\ worker'.pc = "next" /\ ~skip
                 /\ worker'.ss = worker.ss /\ worker'.stage = worker.stage + 1
              \/ /\ worker'.pc = "next" /\ ~worker.task.regen
                 /\ worker'.ss = worker.ss + 1 /\ worker'.stage = 1
           /\ \A c \in Ahead \ Ahead' : IF skip THEN c[1] = worker.ss ELSE c = Here
<1> DEFINE w == worker
<1>1. /\ w \in [pc : Steps, ss : Subs, stage : Stages, task : Tasks]
      /\ w.ss \in Nat /\ w.stage \in {1, 2, 3} /\ w.ss >= 1 /\ w.ss <= NumSubs
      /\ w.task \in Tasks /\ w.task.regen \in BOOLEAN
  BY SubsAssumption DEF StreamOK, Subs, Stages, Tasks
<1>2. \A c \in Cells : c[1] \in Nat /\ c[2] \in {1, 2, 3} /\ c[1] <= NumSubs /\ c = <<c[1], c[2]>>
  BY SubsAssumption DEF Cells, Subs, Stages
<1> DEFINE Before(c) == \/ c[1] = w.ss /\ c[2] >= w.stage
                        \/ ~w.task.regen /\ c[1] > w.ss
<1>0. \A c : c \in Ahead <=> c \in Cells /\ Before(c)
  BY DEF Ahead, Doing, Midway
<1> HIDE DEF Before
<1>3. CASE w.stage < 3 /\ ~skip
  <2>1. worker' = [w EXCEPT !.pc = "next", !.stage = w.stage + 1]
    BY <1>3 DEF GoOn
  <2>2. /\ worker'.pc = "next" /\ worker'.stage = w.stage + 1
        /\ worker'.ss = w.ss /\ worker'.task = w.task
    BY <1>1, <2>1
  <2>3. worker' \in [pc : Steps, ss : Subs, stage : Stages, task : Tasks]
    <3>1. w.stage + 1 \in Stages /\ "next" \in Steps
      BY <1>1, <1>3 DEF Stages, Steps, Doing
    <3> QED BY <1>1, <2>1, <3>1
  <2>4. TaskOK'
    BY <1>1, <2>2 DEF TaskOK, Tasks, Stages
  <2>5. ASSUME NEW c \in Ahead \ Ahead'
        PROVE  c = Here
    <3>1. c \in Cells /\ Before(c)
      BY <1>0
    <3>2. ~(c[1] = w.ss /\ c[2] >= w.stage + 1) /\ ~(~w.task.regen /\ c[1] > w.ss)
      BY <2>2, <3>1 DEF Ahead, Doing
    <3>3. c[1] = w.ss /\ c[2] = w.stage
      BY <1>1, <1>2, <3>1, <3>2 DEF Before
    <3> QED BY <1>2, <3>1, <3>3 DEF Here
  <2> QED BY <1>3, <2>2, <2>3, <2>4, <2>5
<1>4. CASE ~(w.stage < 3 /\ ~skip) /\ ~w.task.regen /\ w.ss < NumSubs
  <2>1. worker' = [w EXCEPT !.pc = "next", !.ss = w.ss + 1, !.stage = 1]
    BY <1>4 DEF GoOn
  <2>2. /\ worker'.pc = "next" /\ worker'.stage = 1
        /\ worker'.ss = w.ss + 1 /\ worker'.task = w.task
    BY <1>1, <2>1
  <2>3. worker' \in [pc : Steps, ss : Subs, stage : Stages, task : Tasks]
    <3>1. w.ss + 1 \in Subs /\ 1 \in Stages /\ "next" \in Steps
      BY <1>1, <1>4, SubsAssumption DEF Stages, Steps, Doing, Subs
    <3> QED BY <1>1, <2>1, <3>1
  <2>4. TaskOK'
    BY <1>4, <2>2 DEF TaskOK
  <2>5. ASSUME NEW c \in Ahead \ Ahead'
        PROVE  c[1] = w.ss /\ (~skip => c[2] = 3 /\ w.stage = 3)
    <3>1. c \in Cells /\ Before(c)
      BY <1>0
    <3>2. ~(c[1] = w.ss + 1 /\ c[2] >= 1) /\ ~(c[1] > w.ss + 1)
      BY <1>4, <2>2, <3>1 DEF Ahead, Doing
    <3>3. c[1] = w.ss /\ c[2] >= w.stage
      BY <1>1, <1>2, <3>1, <3>2 DEF Before
    <3> QED BY <1>1, <1>2, <1>4, <3>1, <3>3
  <2>6. \A c \in Ahead \ Ahead' : IF skip THEN c[1] = worker.ss ELSE c = Here
    BY <1>2, <2>5 DEF Here, Ahead
  <2> QED BY <1>4, <2>2, <2>3, <2>4, <2>6
<1>5. CASE ~(w.stage < 3 /\ ~skip) /\ ~(~w.task.regen /\ w.ss < NumSubs)
  <2>1. worker' = [w EXCEPT !.pc = "decide"]
    BY <1>5 DEF GoOn
  <2>2. /\ worker'.pc = "decide" /\ worker'.stage = w.stage
        /\ worker'.ss = w.ss /\ worker'.task = w.task
    BY <1>1, <2>1
  <2>3. worker' \in [pc : Steps, ss : Subs, stage : Stages, task : Tasks]
    BY <1>1, <2>1 DEF Steps
  <2>4. TaskOK'
    BY <2>2 DEF TaskOK
  <2>5. ASSUME NEW c \in Ahead
        PROVE  c[1] = w.ss /\ (~skip => c[2] = 3 /\ w.stage = 3)
    <3>1. c \in Cells /\ Before(c)
      BY <1>0
    <3>2. c[1] = w.ss /\ c[2] >= w.stage
      BY <1>1, <1>2, <1>5, <3>1, SubsAssumption DEF Before
    <3> QED BY <1>1, <1>2, <1>5, <3>1, <3>2
  <2>6. \A c \in Ahead \ Ahead' : IF skip THEN c[1] = worker.ss ELSE c = Here
    BY <1>2, <2>5 DEF Here, Ahead
  <2> QED BY <2>2, <2>3, <2>4, <2>6
<1> QED BY <1>3, <1>4, <1>5

\* GoTo changes what the delivery does next and nothing else about it.
LEMMA GoingTo ==
    ASSUME StreamOK, TaskOK, NEW pc \in Steps, GoTo(pc)
    PROVE  /\ worker' \in [pc : Steps, ss : Subs, stage : Stages, task : Tasks]
           /\ worker'.pc = pc /\ worker'.ss = worker.ss /\ worker'.stage = worker.stage
           /\ worker'.task = worker.task /\ TaskOK' /\ Here' = Here
           /\ worker.pc \in Doing /\ pc \in Doing => Ahead' = Ahead
<1>1. /\ worker' \in [pc : Steps, ss : Subs, stage : Stages, task : Tasks]
      /\ worker'.pc = pc /\ worker'.ss = worker.ss /\ worker'.stage = worker.stage
      /\ worker'.task = worker.task
  BY DEF GoTo, StreamOK
<1>2. TaskOK' /\ Here' = Here
  BY <1>1 DEF TaskOK, Here
<1>3. worker.pc \in Doing /\ pc \in Doing => Ahead' = Ahead
  BY <1>1 DEF Ahead, Doing, Midway
<1> QED BY <1>1, <1>2, <1>3

\* A task that begins has all its cells ahead.
LEMMA Beginning ==
    ASSUME NEW task \in Tasks, worker' = Begin(task)
    PROVE  /\ worker' \in [pc : Steps, ss : Subs, stage : Stages, task : Tasks]
           /\ worker'.pc = "next" /\ worker'.ss = task.ss /\ worker'.stage = task.stage
           /\ worker'.task = task /\ TaskOK' /\ Starts'
           /\ Ahead' = CellsOf(task)
<1>1. /\ worker' \in [pc : Steps, ss : Subs, stage : Stages, task : Tasks]
      /\ worker'.pc = "next" /\ worker'.ss = task.ss /\ worker'.stage = task.stage
      /\ worker'.task = task
  BY DEF Begin, Tasks, Steps, Doing
<1>2. TaskOK' /\ Starts'
  BY <1>1 DEF TaskOK, Starts, Tasks, Stages
<1>3. Ahead' = CellsOf(task)
  <2>1. \A c \in Cells : c[1] \in Nat /\ c[2] \in Nat /\ c[1] >= 1 /\ c[2] >= 1
    BY SubsAssumption DEF Cells, Subs, Stages
  <2>2. CASE task.regen
    BY <1>1, <2>1, <2>2 DEF Ahead, CellsOf, Doing, Tasks
  <2>3. CASE ~task.regen
    <3>1. task = Pipeline
      BY <2>3 DEF Tasks
    <3>2. worker'.ss = 1 /\ worker'.stage = 1 /\ worker'.pc = "next" /\ worker'.task.regen = FALSE
      BY <1>1, <3>1 DEF Pipeline
    <3> QED BY <2>1, <2>3, <3>2 DEF Ahead, CellsOf, Doing
  <2> QED BY <2>2, <2>3
<1> QED BY <1>1, <1>2, <1>3
LEMMA AheadInTask ==
    ASSUME StreamOK, TaskOK
    PROVE  Ahead \subseteq CellsOf(worker.task)
<1> SUFFICES ASSUME NEW c \in Ahead
             PROVE  c \in CellsOf(worker.task)
  OBVIOUS
<1>1. CASE worker.task.regen
  <2>1. c[2] \in Nat /\ worker.stage \in Nat /\ worker.task.stage \in Nat
    BY DEF Ahead, Cells, Stages, StreamOK, Tasks
  <2> QED BY <1>1, <2>1 DEF Ahead, CellsOf, TaskOK
<1>2. CASE ~worker.task.regen
  BY <1>2 DEF Ahead, CellsOf
<1> QED BY <1>1, <1>2

\* What is published are events, and only a client that listens has any on their way.
LEMMA PublishTypes ==
    ASSUME StreamOK, NEW e \in Events, NEW late, PublishLate(e, late), UNCHANGED client
    PROVE  channel' \in Seq(Events) /\ (client' # "listening" => channel' = <<>>)
<1>1. channel' = channel \/ (client = "listening" /\ channel' = Append(channel, e))
  BY DEF PublishLate, StreamOK
<1> QED BY <1>1 DEF StreamOK

LEMMA EventsAre ==
    ASSUME StreamOK
    PROVE  /\ \A status \in Statuses : StageEvent(status) \in Events
           /\ ErrorEvent \in Events /\ \A item \in news : OutcomeEvent(item) \in Events
           /\ Outcome \in Finished /\ Finished \subseteq Statuses /\ Pending \subseteq Statuses
           /\ Finished \intersect Pending = {} /\ "ERROR" \notin Pending
<1>1. Here \in Cells
  BY HereIsCell
<1> QED BY <1>1 DEF StreamOK, StageEvent, ErrorEvent, OutcomeEvent, Events, Outcome, Finished,
                    Pending, Statuses, Phases

\* Within a stage the delivery moves without touching the database.
LEMMA MidwayWork ==
    ASSUME WorkInv, worker.pc \in Doing, NEW pc \in Midway, GoTo(pc),
           pc \in {"ask", "commit"} => worker.pc \in {"announce", "ask"},
           pc # "announce", UNCHANGED <<dbVars, news, clientVars>>,
           channel' \in Seq(Events), client' # "listening" => channel' = <<>>
    PROVE  WorkInv'
<1> USE DEF WorkInv
<1>1. pc \in Steps /\ pc \in Doing /\ pc # "idle"
  BY DEF Steps, Doing, Midway
<1>2. /\ worker' \in [pc : Steps, ss : Subs, stage : Stages, task : Tasks]
      /\ worker'.pc = pc /\ worker'.ss = worker.ss /\ worker'.stage = worker.stage
      /\ worker'.task = worker.task /\ TaskOK' /\ Here' = Here /\ Ahead' = Ahead
  BY <1>1, GoingTo
<1>3. UNCHANGED <<cells, phase, client, view>>
  BY DEF dbVars, clientVars
<1>4. StreamOK'
  BY <1>2, <1>3 DEF StreamOK
<1>5. BehindOK' /\ ClaimOK'
  BY <1>1, <1>2, <1>3 DEF BehindOK, ClaimOK
<1>6. PendingOK' /\ PhaseOK'
  BY <1>1, <1>2, <1>3 DEF PendingOK, PhaseOK, Ended
<1> QED BY <1>2, <1>4, <1>5, <1>6

LEMMA PublishWork ==
    ASSUME WorkInv, Announce \/ Complete \/ Raise \/ ReportFailure
    PROVE  WorkInv'
<1> USE DEF WorkInv
<1>1. CASE Announce
  <2>1. channel' \in Seq(Events) /\ (client' # "listening" => channel' = <<>>)
    BY <1>1, EventsAre, PublishTypes DEF Announce, Publish, Pending, clientVars
  <2> QED BY <1>1, <2>1, MidwayWork DEF Announce, Midway, Doing
<1>2. CASE Complete
  <2>1. channel' \in Seq(Events) /\ (client' # "listening" => channel' = <<>>)
    BY <1>2, EventsAre, PublishTypes DEF Complete, Publish, clientVars
  <2> QED BY <1>2, <2>1, MidwayWork DEF Complete, Midway, Doing
<1>3. CASE Raise
  BY <1>3, MidwayWork DEF Raise, Enters, Midway, Doing, StreamOK, clientVars
<1>4. CASE ReportFailure
  <2>1. channel' \in Seq(Events) /\ (client' # "listening" => channel' = <<>>)
    BY <1>4, EventsAre, PublishTypes DEF ReportFailure, Publish, clientVars
  <2> QED BY <1>4, <2>1, MidwayWork DEF ReportFailure, Midway, Doing
<1> QED BY <1>1, <1>2, <1>3, <1>4

LEMMA ClaimWork ==
    ASSUME WorkInv, Claim
    PROVE  WorkInv'
<1> USE DEF WorkInv
<1>1. /\ worker.pc = "next" /\ worker.pc \in Doing
      /\ UNCHANGED <<phase, news, channel, client, view>> /\ Ended' = Ended
  BY DEF Claim, Quiet, clientVars, Doing, Ended
<1>2. Here \in Cells /\ \A c \in Cells : c = Here \/ c # Here
  BY HereIsCell
<1>3. CASE Starts /\ Ended /\ GoOn(TRUE) /\ UNCHANGED cells
  <2>1. /\ worker' \in [pc : Steps, ss : Subs, stage : Stages, task : Tasks]
        /\ worker'.task = worker.task /\ TaskOK'
        /\ \/ worker'.pc = "decide"
           \/ /\ worker'.pc = "next" /\ ~worker.task.regen
              /\ worker'.ss = worker.ss + 1 /\ worker'.stage = 1
    BY <1>1, <1>3, GoingOn
  <2>2. worker'.pc = "next" => worker'.task.stage = 1
    BY <2>1 DEF TaskOK, Pipeline
  <2>3. StreamOK'
    BY <1>1, <1>3, <2>1 DEF StreamOK
  <2>4. BehindOK' /\ ClaimOK'
    BY <2>1, <2>2 DEF BehindOK, ClaimOK, Doing, Midway, Stages
  <2>5. PendingOK' /\ PhaseOK'
    BY <1>1, <1>3, <2>1 DEF PendingOK, PhaseOK
  <2> QED BY <2>1, <2>3, <2>4, <2>5
<1>4. CASE cells[Here] \in Finished /\ GoOn(FALSE) /\ UNCHANGED cells
  <2>1. /\ worker' \in [pc : Steps, ss : Subs, stage : Stages, task : Tasks]
        /\ worker'.task = worker.task /\ TaskOK'
        /\ \/ worker'.pc = "decide"
           \/ /\ worker'.pc = "next"
              /\ worker'.ss = worker.ss /\ worker'.stage = worker.stage + 1
           \/ /\ worker'.pc = "next" /\ ~worker.task.regen
              /\ worker'.ss = worker.ss + 1 /\ worker'.stage = 1
        /\ \A c \in Ahead \ Ahead' : c = Here
    BY <1>1, <1>4, GoingOn
  <2>2. StreamOK'
    BY <1>1, <1>4, <2>1 DEF StreamOK
  <2>3. BehindOK'
    <3> SUFFICES ASSUME worker'.pc \in Doing, NEW k \in Stages,
                        worker'.task.stage <= k, k < worker'.stage
                 PROVE  cells[<<worker'.ss, k>>] \in Finished
      BY <1>4 DEF BehindOK
    <3>1. worker'.ss = worker.ss /\ worker'.stage = worker.stage + 1
      BY <2>1 DEF Doing, Midway, TaskOK, Pipeline, Stages
    <3>2. k < worker.stage \/ k = worker.stage
      BY <3>1 DEF StreamOK, Stages
    <3> QED BY <1>1, <1>4, <2>1, <3>1, <3>2 DEF BehindOK, Here
  <2>4. ClaimOK'
    BY <2>1 DEF ClaimOK, Midway
  <2>5. PendingOK'
    <3>1. cells[Here] \notin Pending
      BY <1>4, EventsAre
    <3> QED BY <1>1, <1>4, <2>1, <3>1 DEF PendingOK
  <2>6. PhaseOK'
    BY <1>1, <1>4, <2>1 DEF PhaseOK
  <2> QED BY <2>1, <2>2, <2>3, <2>4, <2>5, <2>6
<1>5. CASE /\ cells[Here] \notin Finished
           /\ cells' = [cells EXCEPT ![Here] = "RUNNING"] /\ GoTo("announce")
  <2>1. /\ worker' \in [pc : Steps, ss : Subs, stage : Stages, task : Tasks]
        /\ worker'.pc = "announce" /\ worker'.ss = worker.ss /\ worker'.stage = worker.stage
        /\ worker'.task = worker.task /\ TaskOK' /\ Here' = Here /\ Ahead' = Ahead
    BY <1>1, <1>5, GoingTo DEF Steps, Doing, Midway
  <2>2. cells' \in [Cells -> Statuses] /\ cells'[Here] = "RUNNING"
        /\ \A c \in Cells : c # Here => cells'[c] = cells[c]
    BY <1>2, <1>5 DEF StreamOK, Statuses
  <2>3. StreamOK'
    BY <1>1, <2>1, <2>2 DEF StreamOK
  <2>4. ClaimOK'
    BY <2>1, <2>2 DEF ClaimOK
  <2>5. BehindOK'
    <3> SUFFICES ASSUME NEW k \in Stages, worker.task.stage <= k, k < worker.stage
                 PROVE  cells'[<<worker.ss, k>>] \in Finished
      BY <2>1 DEF BehindOK
    <3>1. cells[<<worker.ss, k>>] \in Finished /\ <<worker.ss, k>> \in Cells
      BY <1>1 DEF BehindOK, StreamOK, Cells
    <3> QED BY <1>5, <2>2, <3>1
  <2>6. PendingOK'
    <3>1. Here \in Ahead
      BY <1>1, <1>2 DEF Ahead, Here, StreamOK, Stages
    <3> QED BY <1>1, <2>1, <2>2, <3>1 DEF PendingOK
  <2>7. PhaseOK'
    BY <1>1, <2>1, <2>2 DEF PhaseOK
  <2> QED BY <2>1, <2>3, <2>4, <2>5, <2>6, <2>7
<1> QED BY <1>3, <1>4, <1>5 DEF Claim

\* The silent step of a threat regeneration leads into its next stage.
LEMMA Regrounding ==
    ASSUME WorkInv, Reground
    PROVE  /\ worker' \in [pc : Steps, ss : Subs, stage : Stages, task : Tasks]
           /\ worker'.pc = "announce" /\ worker'.ss = worker.ss /\ worker'.stage = 3
           /\ worker'.task = worker.task /\ worker.task.regen /\ worker.task.stage = 2
           /\ Here = <<worker.ss, 2>> /\ Here' = <<worker.ss, 3>>
           /\ Here \in Cells /\ Here' \in Cells
           /\ \A c \in Ahead : c # Here => c \in Ahead'
           /\ Here' \in Ahead'
<1> USE DEF WorkInv
<1>1. /\ worker.pc = "next" /\ worker.task.silent /\ worker.stage = 2
      /\ worker' = [worker EXCEPT !.pc = "announce", !.stage = 3]
  BY DEF Reground, Enters, Regrounds
<1>2. worker.task \in Tasks /\ worker.task.regen /\ worker.task.stage = 2 /\ worker.ss \in Subs
  BY <1>1 DEF StreamOK, Tasks
<1>3. /\ worker' \in [pc : Steps, ss : Subs, stage : Stages, task : Tasks]
      /\ worker'.pc = "announce" /\ worker'.ss = worker.ss /\ worker'.stage = 3
      /\ worker'.task = worker.task
  <2>1. "announce" \in Steps /\ 3 \in Stages
    BY DEF Steps, Doing, Midway, Stages
  <2> QED BY <1>1, <2>1 DEF StreamOK
<1>4. /\ Here = <<worker.ss, 2>> /\ Here' = <<worker.ss, 3>>
      /\ Here \in Cells /\ Here' \in Cells
  BY <1>1, <1>2, <1>3 DEF Here, Cells, Stages
<1>5. \A c \in Cells : c[2] \in {1, 2, 3} /\ c = <<c[1], c[2]>>
  BY DEF Cells, Stages
<1>6. \A c \in Ahead : c # Here => c \in Ahead'
  BY <1>1, <1>2, <1>3, <1>4, <1>5 DEF Ahead, Doing, Midway
<1>7. Here' \in Ahead'
  BY <1>3, <1>4 DEF Ahead, Doing, Midway
<1> QED BY <1>2, <1>3, <1>4, <1>6, <1>7

LEMMA RegroundWork ==
    ASSUME WorkInv, Reground
    PROVE  WorkInv'
<1> USE DEF WorkInv
<1>1. /\ cells' = [cells EXCEPT ![Here] = "COMPLETE", ![<<worker.ss, 3>>] = "RUNNING"]
      /\ UNCHANGED <<phase, news, channel, client, view>> /\ Ended' = Ended
  BY DEF Reground, Quiet, clientVars, Ended
<1>2. /\ worker' \in [pc : Steps, ss : Subs, stage : Stages, task : Tasks]
      /\ worker'.pc = "announce" /\ worker'.ss = worker.ss /\ worker'.stage = 3
      /\ worker'.task = worker.task /\ worker.task.regen /\ worker.task.stage = 2
      /\ Here = <<worker.ss, 2>> /\ Here' = <<worker.ss, 3>>
      /\ Here \in Cells /\ Here' \in Cells
      /\ \A c \in Ahead : c # Here => c \in Ahead'
      /\ Here' \in Ahead'
  BY Regrounding
<1>3. /\ cells' \in [Cells -> Statuses] /\ cells'[Here] = "COMPLETE" /\ cells'[Here'] = "RUNNING"
      /\ \A c \in Cells : c # Here /\ c # Here' => cells'[c] = cells[c]
  BY <1>1, <1>2 DEF StreamOK, Statuses
<1>4. StreamOK'
  BY <1>1, <1>2, <1>3 DEF StreamOK
<1>5. TaskOK' /\ ClaimOK'
  BY <1>2, <1>3 DEF TaskOK, ClaimOK
<1>6. BehindOK'
  <2>1. \A k \in Stages : 2 <= k /\ k < 3 => k = 2
    BY DEF Stages
  <2> QED BY <1>2, <1>3, <2>1 DEF BehindOK, Finished
<1>7. PendingOK'
  BY <1>1, <1>2, <1>3 DEF PendingOK, Pending
<1>8. PhaseOK'
  BY <1>1, <1>2, <1>3 DEF PhaseOK
<1> QED BY <1>4, <1>5, <1>6, <1>7, <1>8

LEMMA CommitWork ==
    ASSUME WorkInv, Commit
    PROVE  WorkInv'
<1> USE DEF WorkInv
<1>1. /\ worker.pc = "commit" /\ worker.pc \in Doing /\ worker.pc \in Midway
      /\ cells' = [cells EXCEPT ![Here] = Outcome] /\ GoOn(FALSE)
      /\ UNCHANGED <<phase, news, channel, client, view>> /\ Ended' = Ended
  BY DEF Commit, Quiet, clientVars, Doing, Midway, Ended
<1>2. Here \in Cells /\ Outcome \in Finished /\ Outcome \in Statuses /\ Outcome \notin Pending
  BY HereIsCell, EventsAre
<1>3. /\ worker' \in [pc : Steps, ss : Subs, stage : Stages, task : Tasks]
      /\ worker'.task = worker.task /\ TaskOK'
      /\ \/ worker'.pc = "decide"
         \/ /\ worker'.pc = "next"
            /\ worker'.ss = worker.ss /\ worker'.stage = worker.stage + 1
         \/ /\ worker'.pc = "next" /\ ~worker.task.regen
            /\ worker'.ss = worker.ss + 1 /\ worker'.stage = 1
      /\ \A c \in Ahead \ Ahead' : c = Here
  BY <1>1, GoingOn
<1>4. cells' \in [Cells -> Statuses] /\ cells'[Here] = Outcome
      /\ \A c \in Cells : c # Here => cells'[c] = cells[c]
  BY <1>1, <1>2 DEF StreamOK
<1>5. StreamOK'
  BY <1>1, <1>3, <1>4 DEF StreamOK
<1>6. BehindOK'
  <2> SUFFICES ASSUME worker'.pc \in Doing, NEW k \in Stages,
                      worker'.task.stage <= k, k < worker'.stage
               PROVE  cells'[<<worker'.ss, k>>] \in Finished
    BY DEF BehindOK
  <2>1. worker'.ss = worker.ss /\ worker'.stage = worker.stage + 1
    BY <1>3 DEF Doing, Midway, TaskOK, Pipeline, Stages
  <2>2. k < worker.stage \/ k = worker.stage
    BY <2>1 DEF StreamOK, Stages
  <2>3. CASE k = worker.stage
    BY <1>2, <1>4, <2>1, <2>3 DEF Here
  <2>4. CASE k < worker.stage
    <3>1. <<worker.ss, k>> \in Cells /\ cells[<<worker.ss, k>>] \in Finished
      BY <1>1, <1>3, <2>4 DEF BehindOK, StreamOK, Cells
    <3> QED BY <1>2, <1>4, <2>1, <3>1
  <2> QED BY <2>2, <2>3, <2>4
<1>7. ClaimOK'
  BY <1>3 DEF ClaimOK, Midway
<1>8. PendingOK'
  BY <1>1, <1>2, <1>3, <1>4 DEF PendingOK
<1>9. PhaseOK'
  BY <1>1, <1>2, <1>3, <1>4 DEF PhaseOK, Pending
<1> QED BY <1>3, <1>5, <1>6, <1>7, <1>8, <1>9

\* A supporting system that fails has nothing pending any more.
LEMMA FailedCells ==
    ASSUME NEW b \in [Cells -> Statuses], NEW ss
    PROVE  /\ Failed(b, ss) \in [Cells -> Statuses]
           /\ \A c \in Cells : Failed(b, ss)[c] =
                IF c[1] = ss /\ b[c] \in Pending THEN "ERROR" ELSE b[c]
BY DEF Failed, Statuses

LEMMA CommitFailureWork ==
    ASSUME WorkInv, CommitFailure
    PROVE  WorkInv'
<1> USE DEF WorkInv
<1>1. /\ worker.pc = "failed" /\ worker.pc \in Doing
      /\ cells' = Failed(cells, worker.ss) /\ GoOn(TRUE)
      /\ UNCHANGED <<phase, news, channel, client, view>> /\ Ended' = Ended
  BY DEF CommitFailure, clientVars, Doing, Midway, Ended
<1>2. /\ worker' \in [pc : Steps, ss : Subs, stage : Stages, task : Tasks]
      /\ worker'.task = worker.task /\ TaskOK'
      /\ \/ worker'.pc = "decide"
         \/ /\ worker'.pc = "next" /\ ~worker.task.regen
            /\ worker'.ss = worker.ss + 1 /\ worker'.stage = 1
      /\ \A c \in Ahead \ Ahead' : c[1] = worker.ss
  BY <1>1, GoingOn
<1>3. cells' \in [Cells -> Statuses]
      /\ \A c \in Cells : cells'[c] = IF c[1] = worker.ss /\ cells[c] \in Pending THEN "ERROR"
                                      ELSE cells[c]
  BY <1>1, FailedCells DEF StreamOK
<1>4. StreamOK'
  BY <1>1, <1>2, <1>3 DEF StreamOK
<1>5. BehindOK' /\ ClaimOK'
  <2>1. worker'.pc = "next" => worker'.task.stage = 1 /\ worker'.stage = 1
    BY <1>2 DEF TaskOK, Pipeline
  <2> QED BY <1>2, <2>1 DEF BehindOK, ClaimOK, Doing, Midway, Stages
<1>6. PendingOK'
  <2>1. \A c \in Cells : cells'[c] \in Pending => cells[c] \in Pending /\ c[1] # worker.ss
    BY <1>3, EventsAre
  <2> QED BY <1>1, <1>2, <2>1 DEF PendingOK
<1>7. PhaseOK'
  BY <1>1, <1>2, <1>3 DEF PhaseOK
<1> QED BY <1>2, <1>4, <1>5, <1>6, <1>7

\* The outcome is decided when nothing is ahead, and told or not when it is decided.
LEMMA DecideWork ==
    ASSUME WorkInv, Decide \/ \E item \in news : Tell(item) \/ DieUntold(item)
    PROVE  WorkInv'
<1> USE DEF WorkInv
<1>1. CASE Decide
  <2>1. /\ worker.pc = "decide" /\ GoTo("idle")
        /\ phase' # "working" /\ UNCHANGED <<cells, channel, client, view>>
        /\ phase' # phase => phase = "working" /\ phase' \in {"review", "cancelled"}
        /\ \A item \in news' : item \in news \/ (item.phase = phase' /\ item.task = worker.task)
    BY <1>1 DEF Decide, Quiet, clientVars
  <2>2. /\ worker' \in [pc : Steps, ss : Subs, stage : Stages, task : Tasks]
        /\ worker'.pc = "idle" /\ TaskOK'
    BY <2>1, GoingTo DEF Steps
  <2>3. phase' \in Phases /\ (news' = news \/ phase' \in {"review", "cancelled"})
    BY <1>1 DEF Decide, StreamOK, Phases
  <2>4. StreamOK'
    <3>1. \A item \in news' : item.phase \in {"review", "cancelled"} /\ item.task \in Tasks
      BY <2>1, <2>3 DEF StreamOK
    <3> QED BY <2>1, <2>2, <2>3, <3>1 DEF StreamOK
  <2>5. Ahead = {} /\ (Ended => Ended')
    BY <2>1 DEF Ahead, Doing, Midway, Ended
  <2>6. BehindOK' /\ ClaimOK' /\ PendingOK'
    BY <2>1, <2>2, <2>5 DEF BehindOK, ClaimOK, PendingOK, Doing, Midway
  <2>7. PhaseOK'
    <3>1. phase' = "review" => \A c \in Cells : cells'[c] # "IDLE"
      BY <2>1, <2>5 DEF PhaseOK, PendingOK, Pending, Ended
    <3>2. \A item \in news' : item.phase = "cancelled" => phase' = "cancelled"
      BY <2>1 DEF PhaseOK
    <3> QED BY <2>1, <3>1, <3>2 DEF PhaseOK
  <2> QED BY <2>2, <2>4, <2>6, <2>7
<1>2. ASSUME NEW item \in news, Tell(item) PROVE WorkInv'
  <2>1. UNCHANGED <<cells, phase, worker, client, view>> /\ news' = news \ {item}
    BY <1>2 DEF Tell, dbVars, clientVars
  <2>2. channel' \in Seq(Events) /\ (client' # "listening" => channel' = <<>>)
    BY <1>2, <2>1, EventsAre, PublishTypes DEF Tell
  <2>3. StreamOK'
    BY <2>1, <2>2 DEF StreamOK
  <2>4. Ahead' = Ahead /\ Here' = Here /\ Ended' = Ended
    BY <2>1 DEF Ahead, Here, Ended
  <2> QED BY <2>1, <2>3, <2>4 DEF TaskOK, BehindOK, ClaimOK, PendingOK, PhaseOK
<1>3. ASSUME NEW item \in news, DieUntold(item) PROVE WorkInv'
  <2>1. UNCHANGED <<cells, phase, channel, client, view>> /\ news' = news \ {item}
    BY <1>3 DEF DieUntold, dbVars, clientVars
  <2>2. Ended' = Ended
    BY <2>1 DEF Ended
  <2>3. CASE worker' = worker
    <3>1. Ahead' = Ahead /\ Here' = Here
      BY <2>3 DEF Ahead, Here
    <3> QED BY <2>1, <2>2, <2>3, <3>1 DEF StreamOK, TaskOK, BehindOK, ClaimOK, PendingOK, PhaseOK
  <2>4. CASE worker.pc = "idle" /\ worker' = Begin(item.task)
    <3>1. /\ worker' \in [pc : Steps, ss : Subs, stage : Stages, task : Tasks]
          /\ worker'.pc = "next" /\ TaskOK' /\ Starts'
      BY <2>4, Beginning DEF StreamOK
    <3>2. Ahead = {}
      BY <2>4 DEF Ahead, Doing, Midway
    <3>3. StreamOK'
      BY <2>1, <3>1 DEF StreamOK
    <3> QED BY <2>1, <2>2, <3>1, <3>2, <3>3 DEF BehindOK, ClaimOK, PendingOK, PhaseOK, Starts, Stages,
                                               Tasks
  <2> QED BY <1>3, <2>3, <2>4 DEF DieUntold
<1> QED BY <1>1, <1>2, <1>3

\* A delivery that is repeated has its whole task ahead again, one that is lost as well.
LEMMA CrashWork ==
    ASSUME WorkInv, Crash \/ Lose
    PROVE  WorkInv'
<1> USE DEF WorkInv
<1>1. /\ worker.pc \notin {"idle", "lost"}
      /\ UNCHANGED <<cells, phase, news, channel, client, view>> /\ Ended' = Ended
  BY DEF Crash, Lose, dbVars, clientVars, Ended
<1>2. Ahead \subseteq CellsOf(worker.task)
  BY AheadInTask
<1>3. /\ worker' \in [pc : Steps, ss : Subs, stage : Stages, task : Tasks]
      /\ worker'.pc \in {"next", "lost"} /\ TaskOK' /\ Ahead' = CellsOf(worker.task)
      /\ worker'.pc = "next" => Starts'
  <2>1. CASE Crash
    <3>1. worker.task \in Tasks /\ (worker.task.regen \/ worker.task = Pipeline)
      BY DEF StreamOK, Tasks
    <3> QED BY <2>1, <3>1, Beginning DEF Crash
  <2>2. CASE Lose
    <3>1. /\ worker' \in [pc : Steps, ss : Subs, stage : Stages, task : Tasks]
          /\ worker'.pc = "lost" /\ worker'.task = worker.task /\ TaskOK'
      BY <2>2, GoingTo DEF Lose, Steps
    <3> QED BY <3>1 DEF Ahead, Doing, Midway, CellsOf
  <2> QED BY <2>1, <2>2
<1>4. StreamOK'
  BY <1>1, <1>3 DEF StreamOK
<1>5. BehindOK' /\ ClaimOK'
  BY <1>3 DEF BehindOK, ClaimOK, Doing, Midway, Starts, Stages
<1>6. PendingOK' /\ PhaseOK'
  BY <1>1, <1>2, <1>3 DEF PendingOK, PhaseOK
<1> QED BY <1>3, <1>4, <1>5, <1>6

LEMMA ReaperWork ==
    ASSUME WorkInv, ReapExpired \/ CloseOut
    PROVE  WorkInv'
<1> USE DEF WorkInv
<1>1. CASE ReapExpired
  <2>1. /\ worker.pc \in {"idle", "lost"}
        /\ UNCHANGED <<phase, worker, news, channel, client, view>> /\ Ended' = Ended
    BY <1>1 DEF ReapExpired, clientVars, Ended
  <2>2. /\ cells' \in [Cells -> Statuses]
        /\ \A c \in Cells : cells'[c] \in Pending => cells[c] \in Pending
        /\ \A c \in Cells : cells'[c] = "IDLE" => cells[c] = "IDLE"
    BY <1>1, EventsAre DEF ReapExpired, StreamOK, Statuses
  <2>3. TaskOK' /\ Ahead' = Ahead
    BY <2>1 DEF TaskOK, Ahead
  <2>4. StreamOK'
    BY <2>1, <2>2 DEF StreamOK
  <2>5. BehindOK' /\ ClaimOK' /\ PendingOK'
    BY <2>1, <2>2, <2>3 DEF BehindOK, ClaimOK, PendingOK, Doing, Midway
  <2>6. PhaseOK'
    BY <2>1, <2>2 DEF PhaseOK
  <2> QED BY <2>3, <2>4, <2>5, <2>6
<1>2. CASE CloseOut
  <2>1. /\ worker.pc = "lost" /\ GoTo("decide")
        /\ \A c \in Cells : cells[c] # "RUNNING"
        /\ UNCHANGED <<phase, news, channel, client, view>> /\ Ended' = Ended
    BY <1>2 DEF CloseOut, clientVars, Ended
  <2>2. /\ worker' \in [pc : Steps, ss : Subs, stage : Stages, task : Tasks]
        /\ worker'.pc = "decide" /\ TaskOK'
    BY <2>1, GoingTo DEF Steps
  <2>3. /\ cells' \in [Cells -> Statuses]
        /\ phase = "working" => \A c \in Cells : cells'[c] \notin Pending
        /\ phase # "working" => cells' = cells
    <3>1. CASE phase = "working"
      <4>1. cells' = [c \in Cells |-> Failed(cells, c[1])[c]]
        BY <1>2, <3>1 DEF CloseOut
      <4>2. \A c \in Cells : Failed(cells, c[1])[c] =
                IF cells[c] \in Pending THEN "ERROR" ELSE cells[c]
        BY FailedCells DEF StreamOK
      <4> QED BY <3>1, <4>1, <4>2, EventsAre DEF StreamOK, Statuses
    <3>2. CASE phase # "working"
      BY <1>2, <3>2 DEF CloseOut, StreamOK
    <3> QED BY <3>1, <3>2
  <2>4. StreamOK'
    BY <2>1, <2>2, <2>3 DEF StreamOK
  <2>5. ~Ended => \A c \in Cells : cells'[c] \notin Pending
    <3>1. ~Ended => phase \in {"working", "review"}
      BY DEF Ended, StreamOK, Phases
    <3> QED BY <2>1, <2>3, <3>1 DEF PhaseOK, Pending
  <2>6. BehindOK' /\ ClaimOK' /\ PendingOK'
    BY <2>1, <2>2, <2>5 DEF BehindOK, ClaimOK, PendingOK, Doing, Midway
  <2>7. PhaseOK'
    <3>1. phase = "review" => cells' = cells
      BY <2>3
    <3> QED BY <2>1, <2>2, <3>1 DEF PhaseOK
  <2> QED BY <2>2, <2>4, <2>6, <2>7
<1> QED BY <1>1, <1>2

LEMMA RequestWork ==
    ASSUME WorkInv, Regenerate \/ End
    PROVE  WorkInv'
<1> USE DEF WorkInv
<1>1. CASE Regenerate
  <2>1. PICK c \in Cells, silent \in BOOLEAN :
            /\ silent => c[2] = 2
            /\ cells' = [d \in Cells |-> IF d[1] = c[1] /\ d[2] >= c[2] THEN "IDLE" ELSE cells[d]]
            /\ worker' = Begin([regen |-> TRUE, silent |-> silent, ss |-> c[1], stage |-> c[2]])
    BY <1>1 DEF Regenerate
  <2>2. /\ worker.pc = "idle" /\ phase = "review" /\ phase' = "working"
        /\ UNCHANGED <<news, channel, client, view>> /\ ~Ended
    BY <1>1 DEF Regenerate, clientVars, Ended
  <2> DEFINE task == [regen |-> TRUE, silent |-> silent, ss |-> c[1], stage |-> c[2]]
  <2>3. task \in Tasks /\ task.regen
    BY <2>1 DEF Tasks, Cells
  <2>4. /\ worker' \in [pc : Steps, ss : Subs, stage : Stages, task : Tasks]
        /\ worker'.pc = "next" /\ worker'.stage = task.stage
        /\ worker'.task = task /\ TaskOK' /\ Ahead' = CellsOf(task)
    BY <2>1, <2>3, Beginning
  <2>5. cells' \in [Cells -> Statuses]
    BY <2>1 DEF StreamOK, Statuses
  <2>6. StreamOK'
    BY <2>2, <2>4, <2>5 DEF StreamOK, Phases
  <2>7. BehindOK' /\ ClaimOK'
    BY <2>4 DEF BehindOK, ClaimOK, Stages, Cells
  <2>8. \A d \in Cells : cells[d] \notin Pending
    BY <2>2 DEF PendingOK, Ahead, Doing, Midway
  <2>9. PendingOK' /\ PhaseOK'
    BY <2>1, <2>2, <2>4, <2>8 DEF PendingOK, PhaseOK, CellsOf
  <2> QED BY <2>4, <2>6, <2>7, <2>9
<1>2. CASE End
  <2>1. /\ phase' \in {"completed", "cancelled"} /\ (phase = "cancelled" => FALSE)
        /\ UNCHANGED <<cells, worker, news, channel, client, view>>
    BY <1>2 DEF End, clientVars
  <2> QED BY <2>1 DEF StreamOK, TaskOK, BehindOK, ClaimOK, PendingOK, PhaseOK, Phases, Here, Ended
<1> QED BY <1>1, <1>2

\* The client and the breaker leave the work alone.
LEMMA ClientWork ==
    ASSUME WorkInv, Connect \/ Subscribe \/ Receive \/ Disconnect \/ CloseBreaker \/ UNCHANGED vars
    PROVE  WorkInv'
<1> USE DEF WorkInv
<1>1. UNCHANGED <<cells, phase, worker, news>>
  BY DEF Connect, Subscribe, Receive, Disconnect, CloseBreaker, vars, dbVars
<1>2. /\ channel' \in Seq(Events) /\ view' \in Boards
      /\ client' \in {"away", "read", "listening"}
      /\ client' # "listening" => channel' = <<>>
  <2>1. CASE Connect
    BY <2>1 DEF Connect, StreamOK, Db, Boards
  <2>2. CASE Receive
    <3>1. Head(channel) \in Events /\ Tail(channel) \in Seq(Events) /\ client = "listening"
      BY <2>2, HeadTailProperties, EmptySeq DEF Receive, StreamOK
    <3> QED BY <2>2, <3>1, ShownBoard DEF Receive, StreamOK
  <2>3. CASE Disconnect
    <3>1. NewBoard \in Boards /\ <<>> \in Seq(Events)
      BY EmptySeq DEF NewBoard, Boards, Statuses, Phases
    <3> QED BY <2>3, <3>1 DEF Disconnect
  <2>4. CASE Subscribe \/ CloseBreaker \/ UNCHANGED vars
    BY <2>4 DEF Subscribe, CloseBreaker, vars, clientVars, StreamOK
  <2> QED BY <2>1, <2>2, <2>3, <2>4
<1>3. StreamOK'
  BY <1>1, <1>2 DEF StreamOK
<1>4. TaskOK' /\ BehindOK' /\ ClaimOK' /\ PendingOK' /\ PhaseOK'
  <2>1. Here' = Here /\ Ahead' = Ahead /\ Ended' = Ended
    BY <1>1 DEF Here, Ahead, Ended
  <2> QED BY <1>1, <2>1 DEF TaskOK, BehindOK, ClaimOK, PendingOK, PhaseOK
<1> QED BY <1>3, <1>4

LEMMA WorkStep == WorkInv /\ [Next]_vars => WorkInv'
BY ClaimWork, RegroundWork, PublishWork, CommitWork, CommitFailureWork, DecideWork, CrashWork, ReaperWork,
   RequestWork, ClientWork DEF Next

LEMMA WorkInit == Init => WorkInv
<1> SUFFICES ASSUME Init PROVE WorkInv
  OBVIOUS
<1>1. Pipeline \in Tasks /\ worker = Begin(Pipeline) /\ Pipeline.stage = 1 /\ ~Pipeline.regen
  BY SubsAssumption DEF Init, Pipeline, Tasks, Subs, Stages
<1>2. /\ worker \in [pc : Steps, ss : Subs, stage : Stages, task : Tasks]
      /\ worker.pc = "next" /\ worker.ss = 1 /\ worker.stage = 1 /\ worker.task = Pipeline
  BY <1>1 DEF Begin, Pipeline, Tasks, Steps, Doing
<1>3. StreamOK
  BY <1>2, EmptySeq DEF Init, StreamOK, NewBoard, Boards, Statuses, Phases
<1>4. TaskOK /\ BehindOK /\ ClaimOK /\ PhaseOK
  BY <1>1, <1>2 DEF Init, TaskOK, BehindOK, ClaimOK, PhaseOK, NewBoard, Stages
<1>5. PendingOK
  <2>1. \A c \in Cells : c[1] \in Nat /\ c[2] \in Nat /\ c[1] >= 1 /\ c[2] >= 1
    BY SubsAssumption DEF Cells, Subs, Stages
  <2>2. Cells \subseteq Ahead
    BY <1>2, <2>1 DEF Ahead, Doing, Pipeline
  <2> QED BY <1>2, <2>2 DEF PendingOK
<1> QED BY <1>3, <1>4, <1>5 DEF WorkInv
-----------------------------------------------------------------------------
(* What the client is about to show.                                       *)

\* Nothing has kept an event from this connection.
Current == client # "away" /\ gaps = {}

\* A pending cell that the client may show otherwise: the delivery will come to it and
\* announce it.  In a session that has ended only what it is at may differ, and what a
\* delivery left that is lost, for the reaper to find.
Owed(c) ==
    /\ cells[c] \in Pending
    /\ \/ ~Ended /\ c \in Ahead
       \/ worker.pc \in {"announce", "commit"} /\ c = Here
       \/ worker.pc = "failed" /\ c[1] = worker.ss
       \/ worker.pc = "lost" /\ \E d \in Cells : cells[d] = "RUNNING"

PhaseShown(b) == b.phase = phase \/ phase = "working" \/ \E item \in news : item.phase = phase
CellsShown(b) == \A c \in Cells \ unheard : b.cells[c] = cells[c] \/ Owed(c)

\* The events of the stage that the delivery is at have been published, and a stage that
\* the pipeline fails is shown as one that can.
StageShown(b) ==
    /\ worker.pc = "ask" => b.cells[Here] = "RUNNING"
    /\ worker.pc = "commit" => b.cells[Here] = Outcome
    /\ ~worker.task.regen =>
        \A c \in Cells \ unheard : c[1] = worker.ss /\ cells[c] \in Pending =>
            /\ worker.pc = "failing" => b.cells[c] \notin Finished
            /\ worker.pc = "failed" => b.cells[c] = "ERROR"

\* A stage that the pipeline announced as finished, and died before the commit, is left
\* running and is the next that it does in its supporting system.
RedoneNext(b) ==
    ~Ended /\ ~worker.task.regen =>
        \A c \in Cells \ unheard : b.cells[c] \in Finished /\ cells[c] \in Pending =>
            /\ cells[c] = "RUNNING"
            /\ \A k \in Stages : k < c[2] => cells[<<c[1], k>>] \in Finished

\* The losses that keep the outcome of a session from the client.
Losses == {"paused", "unsubscribed", "untold"}
ReviewFollows(b) ==
    /\ client # "away" /\ gaps \intersect Losses = {}
    /\ phase = "review" /\ \A item \in news : item.phase # "review"
    => b.phase = "review"

Follows(b) ==
    /\ Current => PhaseShown(b) /\ CellsShown(b) /\ StageShown(b) /\ RedoneNext(b)
    /\ ReviewFollows(b)

\* An event that the client is going to get is shown; if it is not going to, a gap says so.
LEMMA Publishing ==
    ASSUME StreamOK, NEW e \in Events, NEW late, PublishLate(e, late), UNCHANGED clientVars,
           NEW b \in Boards, Leads(view, channel, b)
    PROVE  \E d \in Boards :
              /\ Leads(view, channel, d)'
              /\ client # "away" /\ gaps' \intersect Losses = {} =>
                    d = Shown(b, e) /\ gaps' = gaps \union late
<1>1. UNCHANGED <<client, view>>
  BY DEF clientVars
<1>2. CASE channel' = Append(channel, e) /\ Gap(late)
  <2>1. Leads(view, channel, Shown(b, e))' /\ Shown(b, e) \in Boards
    BY <1>1, <1>2, LeadsOn, ShownBoard DEF StreamOK
  <2>2. client # "away" => gaps' = gaps \union late
    BY <1>2 DEF Gap
  <2> QED BY <2>1, <2>2
<1>3. CASE channel' = channel /\ (client # "away" => gaps' \intersect Losses # {})
  BY <1>1, <1>3
<1>4. \/ channel' = Append(channel, e) /\ Gap(late)
      \/ channel' = channel /\ (client # "away" => gaps' \intersect Losses # {})
  <2>1. CASE /\ paused \/ Happen("mishaps")
             /\ Gap({"paused"} \union late)
             /\ UNCHANGED channel
    <3>1. channel' = channel /\ Gap({"paused"} \union late)
      BY <2>1 DEF PublishLate
    <3> QED BY <3>1 DEF Gap, Losses
  <2>2. CASE /\ channel' = IF client = "listening" THEN Append(channel, e) ELSE channel
             /\ Gap((IF client = "read" THEN {"unsubscribed"} ELSE {}) \union late)
    <3>1. CASE client = "listening"
      BY <2>2, <3>1 DEF Gap
    <3>2. CASE client # "listening"
      BY <2>2, <3>2 DEF Gap, StreamOK, Losses
    <3> QED BY <3>1, <3>2
  <2> QED BY <2>1, <2>2 DEF PublishLate
<1> QED BY <1>2, <1>3, <1>4

\* What the events of the delivery change in a board.
LEMMA ShownStage ==
    ASSUME StreamOK, NEW b \in Boards, NEW status \in Statuses
    PROVE  LET d == Shown(b, StageEvent(status))
           IN  /\ d.phase = b.phase /\ d.cells[Here] = status
               /\ \A c \in Cells : c # Here => d.cells[c] = b.cells[c]
<1>1. Here \in Cells
  BY HereIsCell
<1>2. Shown(b, StageEvent(status)) = [b EXCEPT !.cells[Here] = status]
  BY DEF Shown, StageEvent
<1> QED BY <1>1, <1>2 DEF Boards

LEMMA ShownError ==
    ASSUME NEW b \in Boards
    PROVE  LET d == Shown(b, ErrorEvent)
           IN  /\ d.phase = b.phase
               /\ \A c \in Cells : d.cells[c] =
                     IF c[1] = worker.ss /\ b.cells[c] \in Pending THEN "ERROR" ELSE b.cells[c]
<1>1. Shown(b, ErrorEvent) = [b EXCEPT !.cells = Failed(b.cells, worker.ss)]
  BY DEF Shown, ErrorEvent
<1> QED BY <1>1 DEF Boards, Failed

LEMMA ShownPhase ==
    ASSUME NEW b \in Boards
    PROVE  \A item : /\ Shown(b, OutcomeEvent(item)).phase = item.phase
                     /\ Shown(b, OutcomeEvent(item)).cells = b.cells
<1>1. \A item : Shown(b, OutcomeEvent(item)) = [b EXCEPT !.phase = item.phase]
  BY DEF Shown, OutcomeEvent
<1> QED BY <1>1 DEF Boards

\* Boards with the same cells are as good as one another while the work stands still.
LEMMA SameCells ==
    ASSUME UNCHANGED <<cells, phase, worker, unheard>>, NEW b, NEW d, d.cells = b.cells
    PROVE  /\ CellsShown(b) => CellsShown(d)'
           /\ StageShown(b) => StageShown(d)'
           /\ RedoneNext(b) => RedoneNext(d)'
<1>1. Here' = Here /\ Ahead' = Ahead /\ Outcome' = Outcome /\ Ended' = Ended
  BY DEF Here, Ahead, Outcome, Ended
<1> QED BY <1>1 DEF CellsShown, Owed, StageShown, RedoneNext

LEMMA AnnounceFollows ==
    ASSUME WorkInv, WorkInv', Announce, NEW b \in Boards, Follows(b), NEW d \in Boards,
           client # "away" /\ gaps' \intersect Losses = {} =>
               d = Shown(b, StageEvent("RUNNING")) /\ gaps' = gaps
    PROVE  Follows(d)'
<1> USE DEF WorkInv
<1>1. /\ worker.pc = "announce" /\ worker.pc \in Doing /\ worker.pc \in Midway /\ GoTo("ask")
      /\ UNCHANGED <<cells, phase, news, client, unheard>> /\ Ended' = Ended
  BY DEF Announce, dbVars, clientVars, Doing, Midway, Ended
<1>2. /\ worker'.pc = "ask" /\ worker'.ss = worker.ss /\ worker'.task = worker.task
      /\ Here' = Here /\ Ahead' = Ahead
  BY <1>1, GoingTo DEF Steps, Doing, Midway
<1>3. client # "away" /\ gaps' \intersect Losses = {} =>
          /\ gaps' = gaps /\ d.phase = b.phase /\ d.cells[Here] = "RUNNING"
          /\ \A c \in Cells : c # Here => d.cells[c] = b.cells[c]
  BY ShownStage DEF Statuses
<1>4. cells[Here] = "RUNNING"
  BY <1>1 DEF ClaimOK
<1>5. ASSUME Current'
      PROVE  PhaseShown(d)' /\ CellsShown(d)' /\ StageShown(d)' /\ RedoneNext(d)'
  <2>1. Current /\ d.phase = b.phase /\ d.cells[Here] = "RUNNING"
        /\ \A c \in Cells : c # Here => d.cells[c] = b.cells[c]
    BY <1>1, <1>3, <1>5 DEF Current
  <2>2. PhaseShown(d)' /\ StageShown(d)'
    BY <1>1, <1>2, <2>1 DEF Follows, PhaseShown, StageShown
  <2>3. CellsShown(d)'
    BY <1>1, <1>2, <1>4, <2>1 DEF Follows, CellsShown, Owed
  <2>4. RedoneNext(d)'
    BY <1>1, <1>2, <2>1 DEF Follows, RedoneNext, Finished
  <2> QED BY <2>2, <2>3, <2>4
<1>6. ReviewFollows(d)'
  BY <1>1, <1>2, <1>3 DEF Follows, ReviewFollows
<1> QED BY <1>5, <1>6 DEF Follows

LEMMA CompleteFollows ==
    ASSUME WorkInv, WorkInv', Complete, NEW b \in Boards, Follows(b), NEW d \in Boards,
           client # "away" /\ gaps' \intersect Losses = {} =>
               d = Shown(b, StageEvent(Outcome)) /\ gaps' = gaps
    PROVE  Follows(d)'
<1> USE DEF WorkInv
<1>1. /\ worker.pc = "ask" /\ worker.pc \in Doing /\ worker.pc \in Midway /\ GoTo("commit")
      /\ UNCHANGED <<cells, phase, news, client, unheard>> /\ Ended' = Ended
  BY DEF Complete, dbVars, clientVars, Doing, Midway, Ended
<1>2. /\ worker'.pc = "commit" /\ worker'.ss = worker.ss /\ worker'.task = worker.task
      /\ worker'.stage = worker.stage /\ Here' = Here /\ Ahead' = Ahead /\ Outcome' = Outcome
  BY <1>1, GoingTo DEF Steps, Doing, Midway, Outcome
<1>3. client # "away" /\ gaps' \intersect Losses = {} =>
          /\ gaps' = gaps /\ d.phase = b.phase /\ d.cells[Here] = Outcome
          /\ \A c \in Cells : c # Here => d.cells[c] = b.cells[c]
  BY ShownStage, EventsAre
<1>4. cells[Here] = "RUNNING"
  BY <1>1 DEF ClaimOK
<1>5. ASSUME Current'
      PROVE  PhaseShown(d)' /\ CellsShown(d)' /\ StageShown(d)' /\ RedoneNext(d)'
  <2>1. Current /\ d.phase = b.phase /\ d.cells[Here] = Outcome
        /\ \A c \in Cells : c # Here => d.cells[c] = b.cells[c]
    BY <1>1, <1>3, <1>5 DEF Current
  <2>2. PhaseShown(d)' /\ StageShown(d)'
    BY <1>1, <1>2, <2>1 DEF Follows, PhaseShown, StageShown
  <2>3. CellsShown(d)'
    BY <1>1, <1>2, <1>4, <2>1 DEF Follows, CellsShown, Owed, Pending
  <2>4. RedoneNext(d)'
    <3>1. ~worker.task.regen => \A k \in Stages : k < Here[2] => cells[<<Here[1], k>>] \in Finished
      BY <1>1, HereIsCell DEF BehindOK, TaskOK, Pipeline, Stages
    <3> QED BY <1>1, <1>2, <1>4, <2>1, <3>1 DEF Follows, RedoneNext
  <2> QED BY <2>2, <2>3, <2>4
<1>6. ReviewFollows(d)'
  BY <1>1, <1>2, <1>3 DEF Follows, ReviewFollows
<1> QED BY <1>5, <1>6 DEF Follows

LEMMA ReportFollows ==
    ASSUME WorkInv, WorkInv', ReportFailure, NEW b \in Boards, Follows(b), NEW d \in Boards,
           client # "away" /\ gaps' \intersect Losses = {} =>
               d = Shown(b, ErrorEvent) /\ gaps' = gaps
    PROVE  Follows(d)'
<1> USE DEF WorkInv
<1>1. /\ worker.pc = "failing" /\ worker.pc \in Doing /\ worker.pc \in Midway /\ GoTo("failed")
      /\ UNCHANGED <<cells, phase, news, client, unheard>> /\ Ended' = Ended
  BY DEF ReportFailure, dbVars, clientVars, Doing, Midway, Ended
<1>2. /\ worker'.pc = "failed" /\ worker'.ss = worker.ss /\ worker'.task = worker.task
      /\ worker'.stage = worker.stage /\ Here' = Here /\ Ahead' = Ahead
  BY <1>1, GoingTo DEF Steps, Doing, Midway
<1>3. client # "away" /\ gaps' \intersect Losses = {} =>
          /\ gaps' = gaps /\ d.phase = b.phase
          /\ \A c \in Cells : d.cells[c] =
                IF c[1] = worker.ss /\ b.cells[c] \in Pending THEN "ERROR" ELSE b.cells[c]
  BY ShownError
<1>5. ASSUME Current'
      PROVE  PhaseShown(d)' /\ CellsShown(d)' /\ StageShown(d)' /\ RedoneNext(d)'
  <2>1. Current /\ d.phase = b.phase
        /\ \A c \in Cells : d.cells[c] =
              IF c[1] = worker.ss /\ b.cells[c] \in Pending THEN "ERROR" ELSE b.cells[c]
    BY <1>1, <1>3, <1>5 DEF Current
  <2>2. CellsShown(b) /\ StageShown(b) /\ RedoneNext(b) /\ PhaseShown(b)
    BY <2>1 DEF Follows
  <2>3. PhaseShown(d)'
    BY <1>1, <1>2, <2>1, <2>2 DEF PhaseShown
  <2>4. CellsShown(d)'
    <3> SUFFICES ASSUME NEW c \in Cells \ unheard
                 PROVE  d.cells[c] = cells[c] \/ Owed(c)'
      BY <1>1 DEF CellsShown
    <3>1. CASE c[1] # worker.ss
      BY <1>1, <1>2, <2>1, <2>2, <3>1 DEF CellsShown, Owed
    <3>2. CASE c[1] = worker.ss /\ cells[c] \in Pending
      BY <1>1, <1>2, <3>2 DEF Owed
    <3>3. CASE cells[c] \notin Pending
      <4>1. b.cells[c] = cells[c]
        BY <2>2, <3>3 DEF CellsShown, Owed
      <4> QED BY <2>1, <3>3, <4>1
    <3> QED BY <3>1, <3>2, <3>3
  <2>5. StageShown(d)'
    <3> SUFFICES ASSUME ~worker.task.regen, NEW c \in Cells \ unheard, c[1] = worker.ss,
                        cells[c] \in Pending
                 PROVE  d.cells[c] = "ERROR"
      BY <1>1, <1>2 DEF StageShown
    <3>1. b.cells[c] \notin Finished
      BY <1>1, <2>2 DEF StageShown
    <3>2. b.cells[c] \in Pending \/ b.cells[c] = "ERROR"
      BY <3>1 DEF Boards, Statuses, Finished, Pending
    <3> QED BY <2>1, <3>2
  <2>6. RedoneNext(d)'
    <3>1. \A c \in Cells : d.cells[c] \in Finished => b.cells[c] \in Finished
      BY <2>1 DEF Finished
    <3> QED BY <1>1, <1>2, <2>2, <3>1 DEF RedoneNext
  <2> QED BY <2>3, <2>4, <2>5, <2>6
<1>6. ReviewFollows(d)'
  BY <1>1, <1>2, <1>3 DEF Follows, ReviewFollows
<1> QED BY <1>5, <1>6 DEF Follows
\* Steps that publish nothing: the board that is about to be shown stays, and the work
\* moves up to it or away from what it has to redo.
LEMMA ClaimFollows ==
    ASSUME WorkInv, WorkInv', Claim, NEW b \in Boards, Follows(b)
    PROVE  Follows(b)'
<1> USE DEF WorkInv
<1>1. /\ worker.pc = "next" /\ worker.pc \in Doing
      /\ UNCHANGED <<phase, news, client, gaps, unheard>>
      /\ Current' = Current /\ Ended' = Ended
  BY DEF Claim, Quiet, clientVars, Doing, Current, Ended
<1>2. Here \in Cells
  BY HereIsCell
<1>3. Ended => \A c \in Cells : ~Owed(c)
  BY <1>1 DEF Owed
<1>4. CASE Ended /\ GoOn(TRUE) /\ UNCHANGED cells
  <2>1. worker'.pc \in {"next", "decide"}
    BY <1>1, <1>4, GoingOn
  <2> QED BY <1>1, <1>3, <1>4, <2>1 DEF Follows, PhaseShown, CellsShown, StageShown, RedoneNext,
                                        ReviewFollows
<1>5. CASE cells[Here] \in Finished /\ GoOn(FALSE) /\ UNCHANGED cells
  <2>1. worker'.pc \in {"next", "decide"} /\ worker'.task = worker.task
        /\ \A c \in Ahead \ Ahead' : c = Here
    BY <1>1, <1>5, GoingOn
  <2>2. \A c \in Cells : Owed(c) => Owed(c)'
    BY <1>1, <1>3, <1>5, <2>1, EventsAre DEF Owed
  <2> QED BY <1>1, <1>5, <2>1, <2>2 DEF Follows, PhaseShown, CellsShown, StageShown, RedoneNext,
                                        ReviewFollows
<1>6. CASE /\ cells[Here] \notin Finished
           /\ cells' = [cells EXCEPT ![Here] = "RUNNING"] /\ GoTo("announce")
  <2>1. /\ worker'.pc = "announce" /\ worker'.task = worker.task
        /\ Here' = Here /\ Ahead' = Ahead
    BY <1>1, <1>6, GoingTo DEF Steps, Doing, Midway
  <2>2. cells'[Here] = "RUNNING" /\ \A c \in Cells : c # Here => cells'[c] = cells[c]
    BY <1>2, <1>6 DEF StreamOK
  <2>3. Current => CellsShown(b)'
    <3>1. \A c \in Cells : c = Here => Owed(c)'
      BY <2>1, <2>2 DEF Owed, Pending
    <3>2. \A c \in Cells : c # Here /\ Owed(c) => Owed(c)'
      BY <1>1, <1>3, <2>1, <2>2 DEF Owed
    <3> QED BY <1>1, <2>2, <3>1, <3>2 DEF Follows, CellsShown
  <2>4. Current => RedoneNext(b)'
    <3> SUFFICES ASSUME Current, ~Ended, ~worker.task.regen, NEW c \in Cells \ unheard,
                        b.cells[c] \in Finished, cells'[c] \in Pending
                 PROVE  /\ cells'[c] = "RUNNING"
                        /\ \A k \in Stages : k < c[2] => cells'[<<c[1], k>>] \in Finished
      BY <1>1, <2>1 DEF RedoneNext
    <3>1. cells'[c] = "RUNNING" /\ \A k \in Stages : k < c[2] => cells[<<c[1], k>>] \in Finished
      <4>1. CASE c = Here
        <5>1. \A k \in Stages : k < Here[2] => cells[<<Here[1], k>>] \in Finished
          BY <1>1, HereIsCell DEF BehindOK, TaskOK, Pipeline, Stages
        <5> QED BY <2>2, <4>1, <5>1
      <4>2. CASE c # Here
        BY <2>2, <4>2 DEF Follows, RedoneNext
      <4> QED BY <4>1, <4>2
    <3>2. \A k \in Stages : <<c[1], k>> \in Cells
      BY DEF Cells
    <3> QED BY <1>6, <2>2, <3>1, <3>2
  <2> QED BY <1>1, <2>1, <2>3, <2>4 DEF Follows, PhaseShown, StageShown, ReviewFollows
<1> QED BY <1>4, <1>5, <1>6 DEF Claim

\* The client is not told of the stage that is completed; the one that is claimed is owed.
LEMMA RegroundFollows ==
    ASSUME WorkInv, WorkInv', Reground, NEW b \in Boards, Follows(b)
    PROVE  Follows(b)'
<1> USE DEF WorkInv
<1>1. /\ worker.pc = "next" /\ worker.task.regen
      /\ cells' = [cells EXCEPT ![Here] = "COMPLETE", ![<<worker.ss, 3>>] = "RUNNING"]
      /\ UNCHANGED <<phase, news, client, gaps>> /\ Current' = Current /\ Ended' = Ended
      /\ Current => unheard' = unheard \union {Here}
  BY DEF Reground, Regrounds, Enters, Quiet, clientVars, Current, Ended, StreamOK, Tasks
<1>2. /\ worker'.pc = "announce" /\ worker'.task = worker.task /\ Here' = <<worker.ss, 3>>
      /\ Here \in Cells /\ Here' \in Cells
      /\ \A c \in Ahead : c # Here => c \in Ahead'
  BY Regrounding
<1>3. \A c \in Cells : c # Here /\ c # Here' => cells'[c] = cells[c]
  BY <1>1, <1>2 DEF StreamOK
<1>4. cells'[Here'] = "RUNNING"
  BY <1>1, <1>2 DEF StreamOK
<1>5. Current => CellsShown(b)'
  <2> SUFFICES ASSUME Current, NEW c \in Cells, c \notin unheard, c # Here
               PROVE  b.cells[c] = cells'[c] \/ Owed(c)'
    BY <1>1 DEF CellsShown
  <2>1. CASE c = Here'
    BY <1>2, <1>4, <2>1 DEF Owed, Pending
  <2>2. CASE c # Here'
    <3>1. Owed(c) => Owed(c)'
      BY <1>1, <1>2, <1>3, <2>2 DEF Owed
    <3> QED BY <1>3, <2>2, <3>1 DEF Follows, CellsShown
  <2> QED BY <2>1, <2>2
<1> QED BY <1>1, <1>2, <1>5 DEF Follows, PhaseShown, StageShown, RedoneNext, ReviewFollows

LEMMA RaiseFollows ==
    ASSUME WorkInv, WorkInv', Raise, NEW b \in Boards, Follows(b)
    PROVE  Follows(b)'
<1> USE DEF WorkInv
<1>1. /\ worker.pc \in {"next", "ask", "commit"} /\ worker.pc \in Doing /\ GoTo("failing")
      /\ UNCHANGED <<cells, phase, news, client, unheard>> /\ Ended' = Ended
  BY DEF Raise, Enters, dbVars, clientVars, Doing, Midway, Ended
<1>2. /\ worker'.pc = "failing" /\ worker'.ss = worker.ss /\ worker'.task = worker.task
      /\ Here' = Here /\ Ahead' = Ahead
  BY <1>1, GoingTo DEF Steps, Doing, Midway
<1>3. client # "away" =>
        /\ gaps \subseteq gaps'
        /\ \/ worker.pc = "commit"
           \/ worker.pc = "next" /\ \E k \in Stages : cells[<<worker.ss, k>>] = "RUNNING"
           => gaps' # {}
  BY DEF Raise, Gap
<1>4. Current' =>
        /\ Current /\ worker.pc \in {"next", "ask"}
        /\ worker.pc = "next" => \A k \in Stages : cells[<<worker.ss, k>>] # "RUNNING"
  BY <1>1, <1>3 DEF Current
<1>5. worker.pc \in {"next", "ask"} => \A c \in Cells : Owed(c) => Owed(c)'
  BY <1>1, <1>2 DEF Owed
<1>6. Current' => StageShown(b)'
  <2> SUFFICES ASSUME Current', ~worker.task.regen, NEW c \in Cells \ unheard, c[1] = worker.ss,
                      cells[c] \in Pending, b.cells[c] \in Finished
               PROVE  FALSE
    BY <1>1, <1>2 DEF StageShown
  <2>1. CellsShown(b) /\ StageShown(b) /\ RedoneNext(b)
    BY <1>4 DEF Follows
  <2>2. ~Ended
    BY <1>4, <2>1, EventsAre DEF CellsShown, Owed
  <2>3. cells[c] = "RUNNING" /\ \A k \in Stages : k < c[2] => cells[<<c[1], k>>] \in Finished
    BY <2>1, <2>2 DEF RedoneNext
  <2>4. c[2] \in Stages /\ c = <<worker.ss, c[2]>> /\ worker.stage \in Stages
    BY DEF Cells, StreamOK
  <2>5. worker.pc = "ask" /\ c # Here
    BY <1>4, <2>1, <2>3, <2>4 DEF StageShown, Finished
  <2>6. CASE worker.stage < c[2]
    <3>1. cells[Here] \in Finished
      BY <2>3, <2>4, <2>6 DEF Here
    <3> QED BY <2>5, <3>1 DEF ClaimOK, Finished
  <2>7. CASE c[2] < worker.stage
    <3>1. cells[c] \in Finished
      BY <1>1, <2>4, <2>7 DEF BehindOK, TaskOK, Pipeline, Stages
    <3> QED BY <3>1, EventsAre
  <2> QED BY <2>4, <2>5, <2>6, <2>7 DEF Here, Stages
<1>7. ReviewFollows(b)'
  BY <1>1, <1>3 DEF Follows, ReviewFollows
<1> QED BY <1>1, <1>2, <1>4, <1>5, <1>6, <1>7 DEF Follows, PhaseShown, CellsShown, RedoneNext

LEMMA CommitFollows ==
    ASSUME WorkInv, WorkInv', Commit, NEW b \in Boards, Follows(b)
    PROVE  Follows(b)'
<1> USE DEF WorkInv
<1>1. /\ worker.pc = "commit" /\ worker.pc \in Doing
      /\ cells' = [cells EXCEPT ![Here] = Outcome] /\ GoOn(FALSE)
      /\ UNCHANGED <<phase, news, client, gaps, unheard>> /\ Current' = Current /\ Ended' = Ended
  BY DEF Commit, Quiet, clientVars, Doing, Midway, Current, Ended
<1>2. worker'.pc \in {"next", "decide"} /\ worker'.task = worker.task
      /\ \A c \in Ahead \ Ahead' : c = Here
  BY <1>1, GoingOn
<1>3. cells'[Here] = Outcome /\ \A c \in Cells : c # Here => cells'[c] = cells[c]
  BY <1>1, HereIsCell DEF StreamOK
<1>4. Outcome \in Finished /\ Outcome \notin Pending
  BY EventsAre
<1>5. Current => CellsShown(b)'
  <2> SUFFICES ASSUME Current, NEW c \in Cells \ unheard
               PROVE  b.cells[c] = cells'[c] \/ Owed(c)'
    BY <1>1 DEF CellsShown
  <2>1. CASE c = Here
    BY <1>1, <1>3, <2>1 DEF Follows, StageShown
  <2>2. CASE c # Here
    <3>1. Owed(c) => Owed(c)'
      BY <1>1, <1>2, <1>3, <2>2 DEF Owed
    <3> QED BY <1>3, <2>2, <3>1 DEF Follows, CellsShown
  <2> QED BY <2>1, <2>2
<1>6. Current => RedoneNext(b)'
  <2>1. \A c \in Cells : cells'[c] \in Pending => cells[c] = cells'[c]
    BY <1>3, <1>4
  <2>2. \A c \in Cells, k \in Stages : <<c[1], k>> \in Cells
    BY DEF Cells
  <2>3. \A c \in Cells : cells[c] \in Finished => cells'[c] \in Finished
    BY <1>3, <1>4
  <2> QED BY <1>1, <1>2, <2>1, <2>2, <2>3 DEF Follows, RedoneNext
<1> QED BY <1>1, <1>2, <1>5, <1>6 DEF Follows, PhaseShown, StageShown, ReviewFollows

LEMMA CommitFailureFollows ==
    ASSUME WorkInv, WorkInv', CommitFailure, NEW b \in Boards, Follows(b)
    PROVE  Follows(b)'
<1> USE DEF WorkInv
<1>1. /\ worker.pc = "failed" /\ worker.pc \in Doing
      /\ cells' = Failed(cells, worker.ss) /\ GoOn(TRUE)
      /\ UNCHANGED <<phase, news, client, unheard>> /\ Ended' = Ended
      /\ client # "away" => gaps' = gaps \union (IF worker.task.regen THEN {"reset"} ELSE {})
  BY DEF CommitFailure, Gap, clientVars, Doing, Midway, Ended
<1>2. worker'.pc \in {"next", "decide"} /\ worker'.task = worker.task
      /\ \A c \in Ahead \ Ahead' : c[1] = worker.ss
  BY <1>1, GoingOn
<1>3. \A c \in Cells : cells'[c] = IF c[1] = worker.ss /\ cells[c] \in Pending THEN "ERROR"
                                   ELSE cells[c]
  BY <1>1, FailedCells DEF StreamOK
<1>4. Current' => Current /\ ~worker.task.regen
  BY <1>1 DEF Current
<1>5. Current' => CellsShown(b)'
  <2> SUFFICES ASSUME Current', NEW c \in Cells \ unheard
               PROVE  b.cells[c] = cells'[c] \/ Owed(c)'
    BY <1>1 DEF CellsShown
  <2>1. CASE c[1] = worker.ss /\ cells[c] \in Pending
    BY <1>1, <1>3, <1>4, <2>1 DEF Follows, StageShown
  <2>2. CASE cells[c] \notin Pending
    BY <1>3, <1>4, <2>2 DEF Follows, CellsShown, Owed
  <2>3. CASE c[1] # worker.ss
    BY <1>1, <1>2, <1>3, <1>4, <2>3 DEF Follows, CellsShown, Owed
  <2> QED BY <2>1, <2>2, <2>3
<1>6. Current' => RedoneNext(b)'
  <2>1. \A c \in Cells : cells'[c] \in Pending => cells[c] = cells'[c]
    BY <1>3, EventsAre
  <2>2. \A c \in Cells, k \in Stages : <<c[1], k>> \in Cells
    BY DEF Cells
  <2>3. \A c \in Cells : cells[c] \in Finished => cells'[c] \in Finished
    BY <1>3, EventsAre
  <2> QED BY <1>1, <1>2, <1>4, <2>1, <2>2, <2>3 DEF Follows, RedoneNext
<1> QED BY <1>1, <1>2, <1>4, <1>5, <1>6 DEF Follows, PhaseShown, StageShown, ReviewFollows

\* With nothing ahead, what the client is about to show are the cells of the database.
LEMMA DecideFollows ==
    ASSUME WorkInv, WorkInv', Decide, NEW b \in Boards, Follows(b)
    PROVE  Follows(b)'
<1> USE DEF WorkInv
<1>1. /\ worker.pc = "decide" /\ GoTo("idle") /\ UNCHANGED <<cells, client, gaps, unheard>>
      /\ Current' = Current /\ phase' # "working"
      /\ \/ phase' = phase /\ news' = news
         \/ \E item \in news' : item.phase = phase'
  <2>1. CASE phase = "working"
    <3> DEFINE item == [phase |-> phase', task |-> worker.task, round |-> bounds.regens]
    <3>1. item \in news' /\ item.phase = phase' /\ phase' \in {"review", "cancelled"}
      BY <2>1 DEF Decide
    <3> QED BY <3>1 DEF Decide, Quiet, clientVars, Current
  <2>2. CASE phase # "working"
    BY <2>2 DEF Decide, Quiet, clientVars, Current
  <2> QED BY <2>1, <2>2
<1>2. worker'.pc = "idle"
  BY <1>1, GoingTo DEF Steps
<1>3. \A c \in Cells : ~Owed(c)
  <2>1. Ahead = {}
    BY <1>1 DEF Ahead, Doing, Midway
  <2> QED BY <1>1, <2>1 DEF Owed
<1>4. Current => PhaseShown(b)' /\ StageShown(b)'
  BY <1>1, <1>2 DEF Follows, PhaseShown, StageShown
<1>5. Current => CellsShown(b)' /\ RedoneNext(b)'
  <2>1. Current => \A c \in Cells \ unheard' : b.cells[c] = cells'[c]
    BY <1>1, <1>3 DEF Follows, CellsShown
  <2> QED BY <2>1, EventsAre DEF CellsShown, RedoneNext
<1>6. ReviewFollows(b)'
  BY <1>1 DEF Follows, ReviewFollows
<1> QED BY <1>1, <1>4, <1>5, <1>6 DEF Follows

\* An event that tells what the session is not any more has been outrun.
LEMMA TellFollows ==
    ASSUME WorkInv, WorkInv', NEW item \in news, Tell(item), NEW b \in Boards, Follows(b),
           NEW d \in Boards,
           client # "away" /\ gaps' \intersect Losses = {} =>
               /\ d = Shown(b, OutcomeEvent(item))
               /\ gaps' = gaps \union (IF phase \in {item.phase, "working"} THEN {} ELSE {"outrun"})
    PROVE  Follows(d)'
<1> USE DEF WorkInv
<1>1. UNCHANGED <<cells, phase, worker, client, unheard>> /\ news' = news \ {item}
  BY DEF Tell, dbVars, clientVars
<1>2. client # "away" /\ gaps' \intersect Losses = {} =>
          /\ gaps \subseteq gaps' /\ d.phase = item.phase /\ d.cells = b.cells
          /\ phase \in {item.phase, "working"} \/ gaps' # {}
  BY ShownPhase
<1>3. Current' => /\ Current /\ d.phase = item.phase /\ d.cells = b.cells
                  /\ phase \in {item.phase, "working"}
  BY <1>1, <1>2 DEF Current
<1>4. Current' => CellsShown(d)' /\ StageShown(d)' /\ RedoneNext(d)'
  BY <1>1, <1>3, SameCells DEF Follows
<1>5. Current' => PhaseShown(d)'
  BY <1>1, <1>3 DEF PhaseShown
<1>6. ReviewFollows(d)'
  BY <1>1, <1>2 DEF Follows, ReviewFollows, StreamOK, PhaseOK
<1> QED BY <1>4, <1>5, <1>6 DEF Follows

LEMMA DieUntoldFollows ==
    ASSUME NEW item \in news, DieUntold(item), NEW b
    PROVE  Follows(b)'
<1>1. client' # "away" => "untold" \in gaps'
  BY DEF DieUntold, Gap, clientVars
<1> QED BY <1>1 DEF Follows, Current, ReviewFollows, Losses

LEMMA CrashFollows ==
    ASSUME WorkInv, WorkInv', Crash, NEW b \in Boards, Follows(b)
    PROVE  Follows(b)'
<1> USE DEF WorkInv
<1>1. /\ worker' = Begin(worker.task) /\ worker.pc \notin {"idle", "lost"}
      /\ UNCHANGED <<cells, phase, news, client, unheard>> /\ Ended' = Ended
  BY DEF Crash, dbVars, clientVars, Ended
<1>2. /\ worker'.pc = "next" /\ worker'.task = worker.task /\ Ahead' = CellsOf(worker.task)
  <2>1. worker.task \in Tasks
    BY DEF StreamOK
  <2> QED BY <1>1, <2>1, Beginning
<1>3. client # "away" =>
        /\ gaps \subseteq gaps'
        /\ worker.pc \in {"announce", "commit", "failed"} /\ Ended => gaps' # {}
  BY DEF Crash, Gap
<1>4. Current' => Current /\ (~Ended \/ worker.pc \notin {"announce", "commit", "failed"})
  BY <1>1, <1>3 DEF Current
<1>5. Current' => \A c \in Cells : Owed(c) => Owed(c)'
  BY <1>1, <1>2, <1>4, AheadInTask DEF Owed, PendingOK
<1> QED BY <1>1, <1>2, <1>3, <1>4, <1>5 DEF Follows, PhaseShown, CellsShown, StageShown,
                                            RedoneNext, ReviewFollows, Losses

LEMMA LoseFollows ==
    ASSUME WorkInv, WorkInv', Lose, NEW b \in Boards, Follows(b)
    PROVE  Follows(b)'
<1> USE DEF WorkInv
<1>1. /\ GoTo("lost") /\ worker.pc \notin {"idle", "lost"}
      /\ UNCHANGED <<cells, phase, news, client, unheard>> /\ Ended' = Ended
      /\ client # "away" => gaps \subseteq gaps' /\ (worker.pc = "failed" /\ Ended => gaps' # {})
  BY DEF Lose, Gap, dbVars, clientVars, Ended
<1>2. /\ worker'.pc = "lost" /\ worker'.task = worker.task
      /\ CellsOf(worker.task) \subseteq Ahead'
  <2>1. worker'.pc = "lost" /\ worker'.task = worker.task
    BY <1>1, GoingTo DEF Steps
  <2> QED BY <2>1 DEF Ahead, CellsOf
<1>3. Current' => Current /\ ~(worker.pc = "failed" /\ Ended)
  BY <1>1 DEF Current
<1>4. Current' => \A c \in Cells : Owed(c) => Owed(c)'
  <2> SUFFICES ASSUME Current', NEW c \in Cells, Owed(c)
               PROVE  Owed(c)'
    OBVIOUS
  <2>1. CASE ~Ended
    BY <1>1, <1>2, <2>1, AheadInTask DEF Owed, PendingOK
  <2>2. CASE worker.pc \in {"announce", "commit"}
    <3>1. Here \in Cells /\ cells[Here] = "RUNNING"
      BY <2>2, HereIsCell DEF ClaimOK
    <3> QED BY <1>1, <1>2, <3>1 DEF Owed
  <2> QED BY <1>1, <1>3, <2>1, <2>2 DEF Owed
<1> QED BY <1>1, <1>2, <1>3, <1>4 DEF Follows, PhaseShown, CellsShown, StageShown, RedoneNext,
                                      ReviewFollows, Losses

\* The reaper tells nobody what it sweeps.
LEMMA ReaperFollows ==
    ASSUME WorkInv, WorkInv', ReapExpired \/ CloseOut, NEW b \in Boards, Follows(b)
    PROVE  Follows(b)'
<1> USE DEF WorkInv
<1>1. CASE ReapExpired
  <2>1. /\ UNCHANGED <<phase, worker, news, client>>
        /\ client # "away" => gaps' = gaps \union {"swept"}
    BY <1>1 DEF ReapExpired, Gap, clientVars
  <2> QED BY <2>1 DEF Follows, Current, ReviewFollows
<1>2. CASE CloseOut
  <2>1. /\ worker.pc = "lost" /\ GoTo("decide") /\ UNCHANGED <<phase, news, client, unheard>>
        /\ \A c \in Cells : cells[c] # "RUNNING"
        /\ client # "away" => gaps' = gaps \union (IF cells' # cells THEN {"swept"} ELSE {})
        /\ Ended' = Ended
    BY <1>2 DEF CloseOut, Gap, clientVars, Ended
  <2>2. worker'.pc = "decide"
    BY <2>1, GoingTo DEF Steps
  <2>3. Current' => Current /\ cells' = cells
    BY <2>1 DEF Current
  <2>4. Current' => \A c \in Cells : ~Owed(c)
    <3>1. CASE ~Ended
      <4>1. \A c \in Cells : cells'[c] \notin Pending
        <5>1. Ahead' = {}
          BY <2>2 DEF Ahead, Doing, Midway
        <5> QED BY <2>1, <3>1, <5>1 DEF PendingOK
      <4> QED BY <2>3, <4>1 DEF Owed
    <3>2. CASE Ended
      BY <2>1, <3>2 DEF Owed
    <3> QED BY <3>1, <3>2
  <2>5. ASSUME Current'
        PROVE  PhaseShown(b)' /\ CellsShown(b)' /\ StageShown(b)' /\ RedoneNext(b)'
    <3>1. \A c \in Cells \ unheard' : b.cells[c] = cells'[c]
      BY <2>1, <2>3, <2>4, <2>5 DEF Follows, CellsShown
    <3>2. CellsShown(b)'
      BY <3>1 DEF CellsShown
    <3>3. RedoneNext(b)'
      BY <3>1, EventsAre DEF RedoneNext
    <3> QED BY <2>1, <2>2, <2>3, <2>5, <3>2, <3>3 DEF Follows, PhaseShown, StageShown
  <2>6. ReviewFollows(b)'
    BY <2>1 DEF Follows, ReviewFollows
  <2> QED BY <2>5, <2>6 DEF Follows
<1> QED BY <1>1, <1>2

LEMMA RequestFollows ==
    ASSUME WorkInv, WorkInv', Regenerate \/ End, NEW b \in Boards, Follows(b)
    PROVE  Follows(b)'
<1> USE DEF WorkInv
<1>1. CASE Regenerate
  <2>1. PICK c \in Cells, silent \in BOOLEAN :
            /\ silent => c[2] = 2
            /\ cells' = [d \in Cells |-> IF d[1] = c[1] /\ d[2] >= c[2] THEN "IDLE" ELSE cells[d]]
            /\ worker' = Begin([regen |-> TRUE, silent |-> silent, ss |-> c[1], stage |-> c[2]])
    BY <1>1 DEF Regenerate
  <2>2. /\ worker.pc = "idle" /\ phase = "review" /\ phase' = "working" /\ ~Ended'
        /\ UNCHANGED <<client, gaps, unheard>> /\ Current' = Current
    BY <1>1 DEF Regenerate, clientVars, missed, Current, Ended
  <2> DEFINE task == [regen |-> TRUE, silent |-> silent, ss |-> c[1], stage |-> c[2]]
  <2>3. task \in Tasks /\ task.regen
    BY <2>1 DEF Tasks, Cells
  <2>4. worker'.pc = "next" /\ worker'.task = task /\ Ahead' = CellsOf(task)
    BY <2>1, <2>3, Beginning
  <2>5. \A d \in Cells : ~Owed(d)
    BY <2>2 DEF Owed, Ahead, Doing, Midway
  <2>6. ASSUME NEW d \in Cells, d[1] = c[1], d[2] >= c[2]
        PROVE  Owed(d)'
    BY <2>1, <2>2, <2>4, <2>6 DEF Owed, CellsOf, Pending
  <2>7. Current => CellsShown(b)'
    BY <2>1, <2>2, <2>5, <2>6 DEF Follows, CellsShown
  <2>8. PhaseShown(b)' /\ StageShown(b)' /\ RedoneNext(b)' /\ ReviewFollows(b)'
    BY <2>2, <2>3, <2>4 DEF PhaseShown, StageShown, RedoneNext, ReviewFollows
  <2> QED BY <2>2, <2>7, <2>8 DEF Follows
<1>2. CASE End
  <2>1. /\ phase' \in {"completed", "cancelled"} /\ UNCHANGED client
        /\ client # "away" => gaps' = gaps \union {"ended"}
    BY <1>2 DEF End, Gap, clientVars
  <2> QED BY <2>1 DEF Follows, Current, ReviewFollows
<1> QED BY <1>1, <1>2

\* A client that connects gets the board of the database, which is ahead of it only where
\* an event has gone out before the commit it is about.
LEMMA ConnectFollows ==
    ASSUME WorkInv, Connect
    PROVE  Follows(Db)' /\ Db' \in Boards /\ Leads(view, channel, Db)'
<1> USE DEF WorkInv
<1>1. /\ client = "away" /\ channel' = <<>> /\ view' = Db
      /\ UNCHANGED <<cells, phase, worker, news>>
      /\ gaps' = {} => worker.pc \notin {"commit", "failed"}
  BY DEF Connect, dbVars, StreamOK
<1>2. Db' = Db /\ Db \in Boards /\ Db.cells = cells /\ Db.phase = phase
  BY <1>1 DEF Db, Boards, StreamOK
<1>3. Leads(view, channel, Db)'
  BY <1>1, <1>2, LeadsNowhere
<1>4. Current' => StageShown(Db)'
  BY <1>1, <1>2, EventsAre DEF Current, StageShown, ClaimOK, Here
<1>5. PhaseShown(Db)' /\ CellsShown(Db)' /\ RedoneNext(Db)' /\ ReviewFollows(Db)'
  BY <1>1, <1>2, EventsAre DEF PhaseShown, CellsShown, RedoneNext, ReviewFollows
<1> QED BY <1>2, <1>3, <1>4, <1>5 DEF Follows

-----------------------------------------------------------------------------
(* The invariant and the theorems.                                         *)

StreamInv ==
    WorkInv /\ \E b \in Boards : Leads(view, channel, b) /\ Follows(b)

LEMMA StreamInit == Init => StreamInv
<1> SUFFICES ASSUME Init PROVE StreamInv
  OBVIOUS
<1>1. WorkInv
  BY WorkInit
<1>2. view \in Boards /\ channel = <<>> /\ client = "away"
  BY <1>1 DEF Init, WorkInv, StreamOK
<1>3. Leads(view, channel, view) /\ Follows(view)
  BY <1>2, LeadsNowhere DEF Follows, Current, ReviewFollows
<1> QED BY <1>1, <1>2, <1>3 DEF StreamInv

LEMMA PublishStep ==
    ASSUME WorkInv, WorkInv', NEW b \in Boards, Leads(view, channel, b), Follows(b),
           Announce \/ Complete \/ ReportFailure \/ \E item \in news : Tell(item)
    PROVE  \E d \in Boards : Leads(view, channel, d)' /\ Follows(d)'
<1> USE DEF WorkInv
<1>1. CASE Announce
  <2>1. PICK d \in Boards :
          /\ Leads(view, channel, d)'
          /\ client # "away" /\ gaps' \intersect Losses = {} =>
                d = Shown(b, StageEvent("RUNNING")) /\ gaps' = gaps
    BY <1>1, Publishing, EventsAre DEF Announce, Publish, Statuses
  <2> QED BY <1>1, <2>1, AnnounceFollows
<1>2. CASE Complete
  <2>1. PICK d \in Boards :
          /\ Leads(view, channel, d)'
          /\ client # "away" /\ gaps' \intersect Losses = {} =>
                d = Shown(b, StageEvent(Outcome)) /\ gaps' = gaps
    BY <1>2, Publishing, EventsAre DEF Complete, Publish
  <2> QED BY <1>2, <2>1, CompleteFollows
<1>3. CASE ReportFailure
  <2>1. PICK d \in Boards :
          /\ Leads(view, channel, d)'
          /\ client # "away" /\ gaps' \intersect Losses = {} => d = Shown(b, ErrorEvent) /\ gaps' = gaps
    BY <1>3, Publishing, EventsAre DEF ReportFailure, Publish
  <2> QED BY <1>3, <2>1, ReportFollows
<1>4. ASSUME NEW item \in news, Tell(item)
      PROVE  \E d \in Boards : Leads(view, channel, d)' /\ Follows(d)'
  <2> DEFINE late == IF phase \in {item.phase, "working"} THEN {} ELSE {"outrun"}
  <2>1. PublishLate(OutcomeEvent(item), late) /\ UNCHANGED clientVars
    BY <1>4 DEF Tell
  <2> HIDE DEF late
  <2>2. PICK d \in Boards :
          /\ Leads(view, channel, d)'
          /\ client # "away" /\ gaps' \intersect Losses = {} =>
                d = Shown(b, OutcomeEvent(item)) /\ gaps' = gaps \union late
    BY <2>1, Publishing, EventsAre
  <2> QED BY <1>4, <2>2, TellFollows DEF late
<1> QED BY <1>1, <1>2, <1>3, <1>4

LEMMA QuietStep ==
    ASSUME WorkInv, WorkInv', NEW b \in Boards, Leads(view, channel, b), Follows(b),
           \/ Claim \/ Reground \/ Raise \/ Commit \/ CommitFailure \/ Decide \/ Crash \/ Lose
           \/ ReapExpired \/ CloseOut \/ Regenerate \/ End \/ \E item \in news : DieUntold(item)
    PROVE  Leads(view, channel, b)' /\ Follows(b)'
<1>1. UNCHANGED <<view, channel>>
  BY DEF Claim, Reground, Raise, Commit, CommitFailure, Decide, Crash, Lose, ReapExpired, CloseOut,
         Regenerate, End, DieUntold, Quiet, clientVars
<1>2. Follows(b)'
  BY ClaimFollows, RegroundFollows, RaiseFollows, CommitFollows, CommitFailureFollows, DecideFollows,
     DieUntoldFollows, CrashFollows, LoseFollows, ReaperFollows, RequestFollows
<1> QED BY <1>1, <1>2

LEMMA ClientStep ==
    ASSUME WorkInv, NEW b \in Boards, Leads(view, channel, b), Follows(b),
           Connect \/ Subscribe \/ Receive \/ Disconnect \/ CloseBreaker \/ UNCHANGED vars
    PROVE  \E d \in Boards : Leads(view, channel, d)' /\ Follows(d)'
<1> USE DEF WorkInv
<1>1. CASE Connect
  BY <1>1, ConnectFollows
<1>2. CASE Disconnect
  <2>1. /\ view' = NewBoard /\ channel' = <<>> /\ client' = "away"
        /\ NewBoard \in Boards
    BY <1>2 DEF Disconnect, NewBoard, Boards, Statuses, Phases
  <2>2. Leads(view, channel, NewBoard)' /\ Follows(NewBoard)'
    BY <2>1, LeadsNowhere DEF Follows, Current, ReviewFollows
  <2> QED BY <2>1, <2>2
<1>3. CASE Subscribe \/ Receive \/ CloseBreaker \/ UNCHANGED vars
  <2>1. /\ UNCHANGED <<cells, phase, worker, news, gaps, unheard>>
        /\ (client' = "away" <=> client = "away")
    BY <1>3 DEF Subscribe, Receive, CloseBreaker, vars, dbVars, clientVars, missed
  <2>2. Follows(b)'
    BY <2>1, SameCells DEF Follows, Current, PhaseShown, ReviewFollows
  <2>3. Leads(view, channel, b)'
    <3>1. CASE Receive
      BY <3>1, LeadsFrom DEF Receive, StreamOK
    <3>2. CASE Subscribe \/ CloseBreaker \/ UNCHANGED vars
      BY <3>2 DEF Subscribe, CloseBreaker, vars, clientVars
    <3> QED BY <1>3, <3>1, <3>2
  <2> QED BY <2>2, <2>3
<1> QED BY <1>1, <1>2, <1>3

LEMMA StreamStep == StreamInv /\ [Next]_vars => StreamInv'
<1> SUFFICES ASSUME StreamInv, [Next]_vars
             PROVE  StreamInv'
  OBVIOUS
<1>1. WorkInv /\ WorkInv'
  BY WorkStep DEF StreamInv
<1>2. PICK b \in Boards : Leads(view, channel, b) /\ Follows(b)
  BY DEF StreamInv
<1>3. \E d \in Boards : Leads(view, channel, d)' /\ Follows(d)'
  BY <1>1, <1>2, PublishStep, QuietStep, ClientStep DEF Next
<1> QED BY <1>1, <1>3 DEF StreamInv

LEMMA StreamInvariance == Spec => []StreamInv
<1> QED BY StreamInit, StreamStep, PTL DEF Spec

\* When all events have arrived the client shows the board that they lead to.
LEMMA SettledShows ==
    ASSUME StreamInv, Settled
    PROVE  /\ view \in Boards /\ Follows(view)
           /\ worker.pc = "idle" /\ phase # "working" /\ news = {}
<1>1. PICK b \in Boards : Leads(view, channel, b) /\ Follows(b)
  BY DEF StreamInv
<1>2. /\ view \in Boards /\ channel = <<>>
      /\ worker.pc = "idle" /\ phase # "working" /\ news = {}
  BY DEF StreamInv, WorkInv, StreamOK, PhaseOK, Settled
<1>3. b = view
  BY <1>1, <1>2, LeadsNowhere
<1> QED BY <1>1, <1>2, <1>3

\* A client that (re)connects mid-session need not guess what it missed: when the work is
\* done and all events have come, it shows the cells and the phase of the database, for
\* any number of supporting systems, failures, crashes and regenerations, unless one of
\* the named gaps occurred in its connection; only a THREATS stage that a threat
\* regeneration completed during the connection may be shown otherwise.
THEOREM SettledViewIsCurrent == Spec => []ViewIsCurrent
<1>1. StreamInv => ViewIsCurrent
  <2> SUFFICES ASSUME StreamInv, Settled, gaps = {}
               PROVE  view.phase = phase /\ \A c \in Cells \ unheard : view.cells[c] = cells[c]
    BY DEF ViewIsCurrent
  <2>1. Follows(view) /\ worker.pc = "idle" /\ phase # "working" /\ news = {}
    BY SettledShows
  <2>2. PhaseShown(view) /\ CellsShown(view)
    BY <2>1 DEF Settled, Follows, Current
  <2>3. view.phase = phase
    BY <2>1, <2>2 DEF PhaseShown
  <2>4. \A c \in Cells \ unheard : view.cells[c] = cells[c]
    BY <2>1, <2>2 DEF CellsShown, Owed, Ahead, Doing, Midway
  <2> QED BY <2>3, <2>4
<1> QED BY <1>1, StreamInvariance, PTL

\* A session that went to review is shown as such unless its event was not sent, came
\* before the subscription, or died with its sender.
THEOREM ReviewAlwaysShown == Spec => []ReviewIsShown
<1>1. StreamInv => ReviewIsShown
  <2> SUFFICES ASSUME StreamInv, Settled, phase = "review", gaps \intersect Losses = {}
               PROVE  view.phase = "review"
    BY DEF ReviewIsShown, Losses
  <2> QED BY SettledShows DEF Settled, Follows, ReviewFollows
<1> QED BY <1>1, StreamInvariance, PTL
=============================================================================

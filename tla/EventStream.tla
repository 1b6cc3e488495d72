----------------------------- MODULE EventStream -----------------------------
(***************************************************************************)
(* Live updates of one session (app/sse/bus.py, session_events): the task  *)
(* that works on the session publishes what it does, and a client shows a  *)
(* board that it got when it connected and has updated from events since.  *)
(* Publishing is best effort and keeps nothing for those who do not listen *)
(* yet.  Some events precede the commit they announce, others follow it.   *)
(*                                                                         *)
(* Locks, epochs, attempts and the rows are TsgSession's and Outputs':     *)
(* here one delivery at a time walks over the stages, and a redelivery     *)
(* starts over.  Those that have decided an outcome may still have it to   *)
(* publish while the next one works.                                       *)
(* External: Redis delivers to whoever is subscribed, in order; the client *)
(* takes an error of a supporting system as that of its unfinished stages. *)
(***************************************************************************)
EXTENDS Naturals, Sequences

CONSTANTS
    NumSubs,     \* supporting systems
    MaxMishaps,  \* bound: failures, crashes, lost tasks, publishes that fail
    MaxRegens,   \* bound: regeneration requests
    MaxInFlight  \* bound: events on the way to the client

ASSUME SubsAssumption   == NumSubs \in Nat \ {0}
ASSUME BoundsAssumption == {MaxMishaps, MaxRegens, MaxInFlight} \subseteq Nat

VARIABLES
    cells,    \* committed: supporting system and stage -> status
    phase,    \* committed: where the session is
    worker,   \* the delivery: what it does next and where, and its task
    news,     \* outcomes that are committed and not published yet, and their tasks
    paused,   \* the circuit breaker is open
    channel,  \* events on the way to the client
    client,   \* "away", "read" (has the board, listens not yet) or "listening"
    view,     \* what the client shows: cells and phase
    gaps,     \* what has kept an event from this connection of the client
    unheard,  \* the cells that were written without an event in this connection
    bounds    \* mishaps and regenerations so far

dbVars     == <<cells, phase>>
clientVars == <<client, view>>
missed     == <<gaps, unheard>>
vars       == <<dbVars, worker, news, paused, channel, clientVars, missed, bounds>>

Subs   == 1..NumSubs
Stages == 1..3  \* PROFILE, THREATS, SCENARIOS
Cells  == Subs \X Stages

Statuses == {"IDLE", "RUNNING", "COMPLETE", "AWAITING_DECISION", "ERROR"}
Finished == {"COMPLETE", "AWAITING_DECISION"}
Pending  == {"IDLE", "RUNNING"}

Ended == phase \in {"completed", "cancelled"}

Db == [cells |-> cells, phase |-> phase]

\* What the client shows before it has a board.
NewBoard == [cells |-> [c \in Cells |-> "IDLE"], phase |-> "working"]

\* The pending stages of a supporting system fail.
Failed(board, ss) ==
    [c \in Cells |-> IF c[1] = ss /\ board[c] \in Pending THEN "ERROR" ELSE board[c]]

Here == <<worker.ss, worker.stage>>

Happen(what) ==
    /\ bounds[what] < IF what = "mishaps" THEN MaxMishaps ELSE MaxRegens
    /\ bounds' = [bounds EXCEPT ![what] = @ + 1]

\* Why this connection may miss something from now on.
Gap(reasons) == gaps' = IF client = "away" THEN gaps ELSE gaps \union reasons

-----------------------------------------------------------------------------
(* Publishing.                                                             *)

\* While the breaker is open nothing is sent; a publish that fails opens it; Redis hands
\* the event to a subscriber if there is one.  An event may be late: what it says has
\* been outrun.
PublishLate(event, late) ==
    \/ paused /\ Gap({"paused"} \union late) /\ UNCHANGED <<paused, channel, bounds>>
    \/ /\ ~paused /\ Happen("mishaps") /\ paused' = TRUE
       /\ Gap({"paused"} \union late)
       /\ UNCHANGED channel
    \/ /\ ~paused /\ Len(channel) < MaxInFlight
       /\ channel' = IF client = "listening" THEN Append(channel, event) ELSE channel
       /\ Gap((IF client = "read" THEN {"unsubscribed"} ELSE {}) \union late)
       /\ UNCHANGED <<paused, bounds>>

Publish(event) == PublishLate(event, {})

Quiet == UNCHANGED <<paused, channel, gaps, bounds>>

StageEvent(status)  == [about |-> "stage", cell |-> Here, status |-> status]
ErrorEvent          == [about |-> "error", ss |-> worker.ss]
OutcomeEvent(item)  == [about |-> "phase", phase |-> item.phase]

\* The breaker's cooldown is over.
CloseBreaker ==
    /\ paused /\ paused' = FALSE
    /\ UNCHANGED <<dbVars, worker, news, channel, clientVars, missed, bounds>>

-----------------------------------------------------------------------------
(* The delivery.                                                           *)

GoTo(pc) == worker' = [worker EXCEPT !.pc = pc]

\* A task is a regeneration of one supporting system from some stage on, or the pipeline.
\* That of single threats (silent) grounds them anew instead of asking for others.
Pipeline == [regen |-> FALSE, silent |-> FALSE, ss |-> 1, stage |-> 1]
Begin(task) == [pc |-> "next", ss |-> task.ss, stage |-> task.stage, task |-> task]

\* On to another stage, another supporting system, or the session's outcome.
GoOn(skip) ==
    worker' = IF worker.stage < 3 /\ ~skip THEN [worker EXCEPT !.pc = "next", !.stage = @ + 1]
              ELSE IF ~worker.task.regen /\ worker.ss < NumSubs
                   THEN [worker EXCEPT !.pc = "next", !.ss = @ + 1, !.stage = 1]
                   ELSE [worker EXCEPT !.pc = "decide"]

\* No supporting system is begun in a session that has ended; in one that is in review a
\* redelivery tries again what failed.
Starts == worker.stage = worker.task.stage
Enters == worker.pc = "next" /\ (Starts => ~Ended)

\* The THREATS step of a threat regeneration.
Regrounds == worker.task.silent /\ worker.stage = 2

\* The claim is committed before the stage is announced.
Claim ==
    /\ worker.pc = "next"
    /\ \/ /\ Starts /\ Ended
          /\ GoOn(TRUE) /\ UNCHANGED cells
       \/ /\ Enters /\ cells[Here] \in Finished
          /\ GoOn(FALSE) /\ UNCHANGED cells
       \/ /\ Enters /\ cells[Here] \notin Finished /\ ~Regrounds
          /\ cells' = [cells EXCEPT ![Here] = "RUNNING"] /\ GoTo("announce")
    /\ Quiet /\ UNCHANGED <<phase, news, clientVars, unheard>>

\* A threat regeneration claims THREATS, grounds its threats, completes the stage and
\* claims SCENARIOS in one transaction; it publishes nothing of THREATS.
Reground ==
    /\ Enters /\ cells[Here] \notin Finished /\ Regrounds
    /\ cells' = [cells EXCEPT ![Here] = "COMPLETE", ![<<worker.ss, 3>>] = "RUNNING"]
    /\ worker' = [worker EXCEPT !.pc = "announce", !.stage = 3]
    /\ unheard' = IF client = "away" THEN unheard ELSE unheard \union {Here}
    /\ Quiet /\ UNCHANGED <<phase, news, clientVars>>

Announce ==
    /\ worker.pc = "announce"
    /\ Publish(StageEvent("RUNNING")) /\ GoTo("ask")
    /\ UNCHANGED <<dbVars, news, clientVars, unheard>>

Outcome == IF worker.stage = 3 THEN "AWAITING_DECISION" ELSE "COMPLETE"

\* stage_completed goes out while the rows it is about are not committed.
Complete ==
    /\ worker.pc = "ask"
    /\ Publish(StageEvent(Outcome)) /\ GoTo("commit")
    /\ UNCHANGED <<dbVars, news, clientVars, unheard>>

Commit ==
    /\ worker.pc = "commit"
    /\ cells' = [cells EXCEPT ![Here] = Outcome]
    /\ GoOn(FALSE)
    /\ Quiet /\ UNCHANGED <<phase, news, clientVars, unheard>>

\* The stage raises, before it is announced, at work, or in its commit after the event
\* about it.  Before it is announced, an earlier delivery's event may still stand.
Raise ==
    /\ Enters \/ worker.pc \in {"ask", "commit"}
    /\ Happen("mishaps") /\ GoTo("failing")
    /\ Gap(IF \/ worker.pc = "commit"
              \/ worker.pc = "next" /\ \E k \in Stages : cells[<<worker.ss, k>>] = "RUNNING"
           THEN {"rolled back"} ELSE {})
    /\ UNCHANGED <<dbVars, news, paused, channel, clientVars, unheard>>

\* (mutation) the failure is recorded and not published
ReportFailureSilently ==
    /\ worker.pc = "failing" /\ GoTo("failed")
    /\ Quiet /\ UNCHANGED <<dbVars, news, clientVars, unheard>>

\* _record_failure publishes its error before its caller commits it.
ReportFailure ==
    /\ worker.pc = "failing"
    /\ Publish(ErrorEvent) /\ GoTo("failed")
    /\ UNCHANGED <<dbVars, news, clientVars, unheard>>

\* Stages that a request reset without an event are not what the client shows.
CommitFailure ==
    /\ worker.pc = "failed"
    /\ cells' = Failed(cells, worker.ss)
    /\ GoOn(TRUE)
    /\ Gap(IF worker.task.regen THEN {"reset"} ELSE {})
    /\ UNCHANGED <<phase, news, paused, channel, clientVars, unheard, bounds>>

\* The session's outcome is committed, and is news for whoever made the update to publish.
Decide ==
    /\ worker.pc = "decide" /\ GoTo("idle")
    /\ IF phase = "working"
       THEN /\ phase' = IF \E ss \in Subs : cells[<<ss, 3>>] = "AWAITING_DECISION"
                        THEN "review" ELSE "cancelled"
            /\ news' = news \union {[phase |-> phase', task |-> worker.task,
                                     round |-> bounds.regens]}
       ELSE UNCHANGED <<phase, news>>
    /\ Quiet /\ UNCHANGED <<cells, clientVars, unheard>>

\* (mutation) the outcome is not published
TellNobody(item) ==
    /\ news' = news \ {item}
    /\ Quiet /\ UNCHANGED <<dbVars, worker, clientVars, unheard>>

\* The event says what was decided.  The session may have ended since, or gone elsewhere.
Tell(item) ==
    /\ news' = news \ {item}
    /\ PublishLate(OutcomeEvent(item),
                   IF phase \in {item.phase, "working"} THEN {} ELSE {"outrun"})
    /\ UNCHANGED <<dbVars, worker, clientVars, unheard>>

\* The worker dies and its task is redelivered.  It will not come back to the stage if
\* the session has ended.
Crash ==
    /\ worker.pc \notin {"idle", "lost"}
    /\ Happen("mishaps")
    /\ worker' = Begin(worker.task)
    /\ Gap(CASE worker.pc = "announce" /\ Ended -> {"untold"}
             [] worker.pc \in {"commit", "failed"} /\ Ended -> {"rolled back"}
             [] OTHER -> {})
    /\ UNCHANGED <<dbVars, news, paused, channel, clientVars, unheard>>

\* It dies and its task with it, until the reaper sweeps the session.
Lose ==
    /\ worker.pc \notin {"idle", "lost"}
    /\ Happen("mishaps")
    /\ GoTo("lost")
    /\ Gap(IF worker.pc = "failed" /\ Ended THEN {"rolled back"} ELSE {})
    /\ UNCHANGED <<dbVars, news, paused, channel, clientVars, unheard>>

\* One dies with an outcome to publish; its task is redelivered, or lost.
DieUntold(item) ==
    /\ Happen("mishaps")
    /\ news' = news \ {item}
    /\ worker' = worker \/ (worker.pc = "idle" /\ worker' = Begin(item.task))
    /\ Gap({"untold"})
    /\ UNCHANGED <<dbVars, paused, channel, clientVars, unheard>>

\* The reaper fails running stages that nobody works on, with no event of it...
ReapExpired ==
    /\ worker.pc \in {"idle", "lost"}
    /\ \E c \in Cells : cells[c] = "RUNNING"
    /\ cells' = [c \in Cells |-> IF cells[c] = "RUNNING" THEN "ERROR" ELSE cells[c]]
    /\ Gap({"swept"})
    /\ UNCHANGED <<phase, worker, news, paused, channel, clientVars, unheard, bounds>>

\* ...and then what never began in a session it closes out, whose outcome it decides.
CloseOut ==
    /\ worker.pc = "lost" /\ GoTo("decide")
    /\ \A c \in Cells : cells[c] # "RUNNING"
    /\ cells' = IF phase = "working" THEN [c \in Cells |-> Failed(cells, c[1])[c]] ELSE cells
    /\ Gap(IF cells' # cells THEN {"swept"} ELSE {})
    /\ UNCHANGED <<phase, news, paused, channel, clientVars, unheard, bounds>>

-----------------------------------------------------------------------------
(* Requests.                                                               *)

\* A regeneration from some stage on: the reset is not published.
Regenerate ==
    /\ worker.pc = "idle" /\ phase = "review"
    /\ Happen("regens")
    /\ \E c \in Cells, silent \in BOOLEAN :
        /\ silent => c[2] = 2
        /\ cells' = [d \in Cells |-> IF d[1] = c[1] /\ d[2] >= c[2] THEN "IDLE" ELSE cells[d]]
        /\ worker' = Begin([regen |-> TRUE, silent |-> silent, ss |-> c[1], stage |-> c[2]])
    /\ phase' = "working"
    /\ UNCHANGED <<news, paused, channel, clientVars, missed>>

\* Accept completes a session in review, cancel ends any: nothing is published.
End ==
    /\ \/ phase = "review" /\ phase' = "completed"
       \/ phase # "cancelled" /\ phase' = "cancelled"
    /\ Gap({"ended"})
    /\ UNCHANGED <<cells, worker, news, paused, channel, clientVars, unheard, bounds>>

-----------------------------------------------------------------------------
(* The client.                                                             *)

\* session_events reads the board.  An event already published may announce what is not
\* committed yet.
Connect ==
    /\ client = "away" /\ client' = "read" /\ view' = Db
    /\ gaps' = IF worker.pc \in {"commit", "failed"} THEN {"announced early"} ELSE {}
    /\ unheard' = {}
    /\ UNCHANGED <<dbVars, worker, news, paused, channel, bounds>>

\* Only then the stream subscribes.
Subscribe ==
    /\ client = "read" /\ client' = "listening"
    /\ UNCHANGED <<dbVars, worker, news, paused, channel, view, missed, bounds>>

\* What a board becomes by an event.
Shown(board, event) ==
    CASE event.about = "stage" -> [board EXCEPT !.cells[event.cell] = event.status]
      [] event.about = "error" -> [board EXCEPT !.cells = Failed(board.cells, event.ss)]
      [] event.about = "phase" -> [board EXCEPT !.phase = event.phase]

Receive ==
    /\ channel # <<>>
    /\ view' = Shown(view, Head(channel)) /\ channel' = Tail(channel)
    /\ UNCHANGED <<dbVars, worker, news, paused, client, missed, bounds>>

Disconnect ==
    /\ client # "away" /\ client' = "away"
    /\ channel' = <<>> /\ view' = NewBoard /\ gaps' = {} /\ unheard' = {}
    /\ UNCHANGED <<dbVars, worker, news, paused, bounds>>

-----------------------------------------------------------------------------
Init ==
    /\ cells = NewBoard.cells
    /\ phase = NewBoard.phase
    /\ worker = Begin(Pipeline)
    /\ news = {}
    /\ paused = FALSE
    /\ channel = <<>>
    /\ client = "away"
    /\ view = NewBoard
    /\ gaps = {} /\ unheard = {}
    /\ bounds = [mishaps |-> 0, regens |-> 0]

Next ==
    \/ Claim \/ Reground \/ Announce \/ Complete \/ Commit
    \/ Raise \/ ReportFailure \/ CommitFailure
    \/ Decide \/ \E item \in news : Tell(item) \/ DieUntold(item)
    \/ Crash \/ Lose \/ ReapExpired \/ CloseOut
    \/ CloseBreaker \/ Regenerate \/ End
    \/ Connect \/ Subscribe \/ Receive \/ Disconnect

Spec == Init /\ [][Next]_vars

-----------------------------------------------------------------------------
(* Properties.                                                             *)

Settled == worker.pc = "idle" /\ news = {} /\ client = "listening" /\ channel = <<>>

\* "a client that (re)connects mid-session never has to guess what it missed"
\* (sessions.py): once the work is done and every event has arrived, the client shows
\* what is in the database, unless one of the named gaps occurred in this connection,
\* and except for the THREATS stages that a threat regeneration completed in it.
ViewIsCurrent ==
    Settled /\ gaps = {} =>
        /\ view.phase = phase
        /\ \A c \in Cells \ unheard : view.cells[c] = cells[c]

\* What a gap can hide: a session that went to review is shown as one that is worked on
\* only if the event was lost, or published when nobody listened or could.
ReviewIsShown ==
    Settled /\ phase = "review" /\ view.phase # "review" =>
        gaps \intersect {"paused", "unsubscribed", "untold"} # {}
=============================================================================

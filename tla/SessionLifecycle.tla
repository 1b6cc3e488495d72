-------------------------- MODULE SessionLifecycle --------------------------
(***************************************************************************)
(* What a scenario session promises whoever watches its status: it is      *)
(* worked on until it can be reviewed or is given up, it is accepted from  *)
(* a review, a reviewer may send it back to work or cancel it, and once it *)
(* is completed or cancelled it stays so.  Workers, stages, leases, the    *)
(* reaper and the queue do not appear.  TsgSession implements it           *)
(* (Lifecycle there) if the reviewer's requests come one after another.    *)
(***************************************************************************)

CONSTANTS
    Regens,   \* TRUE if regenerate requests can arrive
    Cancels   \* TRUE if cancel requests can arrive

VARIABLES
    phase,    \* where the session is
    deciding  \* is an accept request in flight?

lifeVars == <<phase, deciding>>

Phases == {"working", "review", "completed", "cancelled"}

Init == phase = "working" /\ deciding = FALSE

\* decide_session_outcome: something was finished, or nothing.
Announce == phase = "working" /\ phase' = "review" /\ UNCHANGED deciding
GiveUp   == phase = "working" /\ phase' = "cancelled" /\ UNCHANGED deciding

Redo   == Regens /\ phase = "review" /\ phase' = "working" /\ UNCHANGED deciding
Cancel == /\ Cancels /\ phase \in {"working", "review"}
          /\ phase' = "cancelled" /\ UNCHANGED deciding

BeginAccept == phase = "review" /\ ~deciding /\ deciding' = TRUE /\ UNCHANGED phase
Withdraw    == deciding /\ deciding' = FALSE /\ UNCHANGED phase
Complete    == /\ deciding /\ deciding' = FALSE
               /\ phase = "review" /\ phase' = "completed"

Next == \/ Announce \/ GiveUp \/ Redo \/ Cancel
        \/ BeginAccept \/ Withdraw \/ Complete

Spec == Init /\ [][Next]_lifeVars

\* Work on a session ends, one way or the other.
FairSpec == Spec /\ WF_lifeVars(Announce \/ GiveUp)
=============================================================================

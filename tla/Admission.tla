------------------------------ MODULE Admission ------------------------------
(***************************************************************************)
(* POST /v1/sessions, served by several threads at once: the pre-checks    *)
(* for an Idempotency-Key and for capacity, the insert that two unique     *)
(* indexes guard, and what the loser of a race is told.  What happens to a *)
(* session later is in TsgSession; here it is active until it ends.        *)
(*                                                                         *)
(* Each pre-check is a plain SELECT, which sees committed rows only, and   *)
(* may be stale when its answer is used.  The insert is not: a unique      *)
(* index makes it wait for an uncommitted row with the same key, and then  *)
(* fail if that row was committed.                                         *)
(*                                                                         *)
(* The handler reads body.entity and body.sector, which the request's      *)
(* schema calls entity_id and sector_id: taken here for the same field.    *)
(***************************************************************************)
EXTENDS Integers, FiniteSets

CONSTANTS
    Servers,       \* the threads that serve requests
    Bodies,        \* the requests clients send: entity, asset and Idempotency-Key
    NoKey,         \* a request without an Idempotency-Key
    MaxActive,     \* settings.max_active_sessions
    MaxRequests    \* bound: requests sent

ASSUME ServersAssumption     == IsFiniteSet(Servers) /\ Servers # {}
ASSUME BodiesAssumption      ==
    Bodies # {} /\ \A b \in Bodies : DOMAIN b = {"entity", "asset", "key"}
ASSUME MaxActiveAssumption   == MaxActive \in Nat \ {0}
ASSUME MaxRequestsAssumption == MaxRequests \in Nat

VARIABLES
    sessions,   \* the committed Scenario_Session rows, by session id
    serving,    \* the request each thread serves
    queue,      \* sessions whose pipeline task was put on the broker's queue
    answers,    \* history: what clients were told
    issued      \* session ids drawn so far; ids are never drawn twice

vars == <<sessions, serving, queue, answers, issued>>

Session    == [body : Bodies, active : BOOLEAN]
Created(b) == [body |-> b, active |-> TRUE]

Actives == {id \in DOMAIN sessions : sessions[id].active}

SameKey(b, c) == b.entity = c.entity /\ b.key # NoKey /\ b.key = c.key
SameAsset(b, c) == b.entity = c.entity /\ b.asset = c.asset

\* (mutations) the index on the asset covers the key, too; the index on the key covers
\* active sessions only, as the one on the asset
AssetKeyHolders(b)  == {id \in Actives : /\ SameAsset(b, sessions[id].body)
                                        /\ b.key = sessions[id].body.key}
ActiveKeyHolders(b) == {id \in Actives : SameKey(b, sessions[id].body)}

\* The committed sessions that hold the body's Idempotency-Key, and the ones
\* that are active for its asset.  Both indexes are per entity.
KeyHolders(b)   == {id \in DOMAIN sessions : SameKey(b, sessions[id].body)}
AssetHolders(b) == {id \in Actives : SameAsset(b, sessions[id].body)}

-----------------------------------------------------------------------------
PCs == {"idle", "key", "capacity", "gather", "insert", "commit", "whoByKey",
        "whoByAsset", "enqueue"}

NoId == 0
Kinds == {"created", "replayed", "keyConflict", "assetConflict", "full", "refused", "error"}

At(s, pc) == serving[s].pc = pc
Go(s, pc) == serving' = [serving EXCEPT ![s].pc = pc]

\* The response, which ends the request.
Answer(s, kind, id) ==
    /\ answers' = answers \union {[body |-> serving[s].body, kind |-> kind, names |-> id]}
    /\ Go(s, "idle")

\* A request for an entity the caller may act for.
Receive(s, b) ==
    /\ At(s, "idle")
    /\ issued < MaxRequests
    /\ issued' = issued + 1
    /\ serving' = [serving EXCEPT ![s] =
          [pc |-> IF b.key = NoKey THEN "capacity" ELSE "key", body |-> b, id |-> issued']]
    /\ UNCHANGED <<sessions, queue, answers>>

\* reserve_idempotency_key_or_get_existing
CheckKey(s) ==
    LET b == serving[s].body
    IN  /\ At(s, "key")
        /\ \/ KeyHolders(b) = {} /\ Go(s, "capacity") /\ UNCHANGED answers
           \/ \E id \in KeyHolders(b) :
                Answer(s, IF sessions[id].body.asset = b.asset THEN "replayed"
                                                               ELSE "keyConflict", id)
        /\ UNCHANGED <<sessions, queue, issued>>

\* (mutation) the ceiling is exceeded before the check refuses
HasRoomForOneMore == Cardinality(Actives) <= MaxActive

HasRoom == Cardinality(Actives) < MaxActive

\* assert_capacity_available
CheckCapacity(s) ==
    /\ At(s, "capacity")
    /\ IF HasRoom THEN Go(s, "gather") /\ UNCHANGED answers ELSE Answer(s, "full", NoId)
    /\ UNCHANGED <<sessions, queue, issued>>

\* gather_asset_details reads the asset; it is refused if it is not the entity's, or
\* has no supporting systems.
Gather(s) ==
    /\ At(s, "gather")
    /\ \/ Go(s, "insert") /\ UNCHANGED answers
       \/ Answer(s, "refused", NoId)
    /\ UNCHANGED <<sessions, queue, issued>>

\* An uncommitted insert of another thread holds one of the keys this insert needs.
Blocked(s) ==
    \E r \in Servers \ {s} :
        /\ At(r, "commit")
        /\ \/ SameKey(serving[s].body, serving[r].body)
           \/ SameAsset(serving[s].body, serving[r].body)

\* (mutation) the task is enqueued before the row is committed
InsertAndEnqueue(s) ==
    /\ At(s, "insert")
    /\ Go(s, "enqueue")
    /\ UNCHANGED <<sessions, queue, answers, issued>>

\* dal.create_session's INSERT in its savepoint: it goes in, or a unique index rejects it.
Insert(s) ==
    LET b == serving[s].body
    IN  /\ At(s, "insert") /\ ~Blocked(s)
        /\ Go(s, IF KeyHolders(b) = {} /\ AssetHolders(b) = {} THEN "commit" ELSE "whoByKey")
        /\ UNCHANGED <<sessions, queue, answers, issued>>

\* Its IntegrityError handler looks for the winner by key, ...
WhoByKey(s) ==
    LET b == serving[s].body
    IN  /\ At(s, "whoByKey")
        /\ \/ KeyHolders(b) = {} /\ Go(s, "whoByAsset") /\ UNCHANGED answers
           \/ \E id \in KeyHolders(b) : Answer(s, "keyConflict", id)
        /\ UNCHANGED <<sessions, queue, issued>>

\* ... then for the active session of the asset, which may have ended meanwhile.
WhoByAsset(s) ==
    LET b == serving[s].body
    IN  /\ At(s, "whoByAsset")
        /\ \/ AssetHolders(b) = {} /\ Answer(s, "assetConflict", NoId)
           \/ \E id \in AssetHolders(b) : Answer(s, "assetConflict", id)
        /\ UNCHANGED <<sessions, queue, issued>>

\* The stage board is seeded, the audit row appended, and the transaction commits.
Commit(s) ==
    /\ At(s, "commit")
    /\ sessions' = [id \in DOMAIN sessions \union {serving[s].id} |->
                      IF id = serving[s].id THEN Created(serving[s].body) ELSE sessions[id]]
    /\ Go(s, "enqueue")
    /\ UNCHANGED <<queue, answers, issued>>

\* The broker takes the task, or enqueueing it raises; the session stays either way.
Enqueue(s) ==
    /\ At(s, "enqueue")
    /\ \/ queue' = queue \union {serving[s].id} /\ Answer(s, "created", serving[s].id)
       \/ UNCHANGED queue /\ Answer(s, "error", NoId)
    /\ UNCHANGED <<sessions, issued>>

\* The process dies, or a statement fails, and the open transaction is rolled back.
Fail(s) ==
    /\ ~At(s, "idle")
    /\ Go(s, "idle")
    /\ UNCHANGED <<sessions, queue, answers, issued>>

\* Accept completes a session, or a cancel request or a failed run cancels it.
End(id) ==
    /\ id \in Actives
    /\ sessions' = [sessions EXCEPT ![id].active = FALSE]
    /\ UNCHANGED <<serving, queue, answers, issued>>

-----------------------------------------------------------------------------
Idle == [pc |-> "idle", body |-> CHOOSE b \in Bodies : TRUE, id |-> NoId]

Init ==
    /\ sessions = [id \in {} |-> Created(Idle.body)]
    /\ serving = [s \in Servers |-> Idle]
    /\ queue = {} /\ answers = {} /\ issued = 0

Serve(s) ==
    \/ CheckKey(s) \/ CheckCapacity(s) \/ Gather(s) \/ Insert(s) \/ WhoByKey(s)
    \/ WhoByAsset(s) \/ Commit(s) \/ Enqueue(s) \/ Fail(s)

Next ==
    \/ \E s \in Servers, b \in Bodies : Receive(s, b)
    \/ \E s \in Servers : Serve(s)
    \/ \E id \in DOMAIN sessions : End(id)

Spec == Init /\ [][Next]_vars

-----------------------------------------------------------------------------
(* Properties.                                                             *)

\* Every variable keeps its type; in particular a task is on the queue only for a
\* session that was committed, so the worker that takes it finds the row.
TypeOK ==
    /\ issued \in 0..MaxRequests
    /\ DOMAIN sessions \subseteq 1..issued /\ sessions \in [DOMAIN sessions -> Session]
    /\ serving \in [Servers -> [pc : PCs, body : Bodies, id : 0..issued]]
    /\ queue \subseteq DOMAIN sessions
    /\ answers \subseteq [body : Bodies, kind : Kinds, names : DOMAIN sessions \union {NoId}]

\* One active session per (entity, asset), "the coarse per-asset lock" (M4), however
\* many requests race past the pre-checks.
OneActivePerAsset ==
    \A i, j \in Actives : SameAsset(sessions[i].body, sessions[j].body) => i = j

\* Whatever clients are told about one Idempotency-Key, whether they created its
\* session, repeated the request, or lost with a 409, names one and the same session.
KeyNamesOneSession ==
    \A x, y \in answers :
        /\ SameKey(x.body, y.body)
        /\ x.kind \in {"created", "replayed", "keyConflict"}
        /\ y.kind \in {"created", "replayed", "keyConflict"}
        => x.names = y.names

\* The ceiling on active sessions is soft, but not without limit: it is exceeded by at
\* most the requests that are served at the same time, less one.
OvershootBounded == Cardinality(Actives) <= MaxActive + Cardinality(Servers) - 1
=============================================================================

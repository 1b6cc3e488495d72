--------------------------- MODULE AdmissionProofs ---------------------------
(***************************************************************************)
(* Theorems about Admission, for every set of servers, request bodies and  *)
(* bounds: what the unique indexes promise, what the clients of one        *)
(* Idempotency-Key are told, and how far the soft ceiling is exceeded.     *)
(***************************************************************************)
EXTENDS Admission, FiniteSetTheorems, TLAPS

\* A request that has drawn its session id and not committed it.
Draws(s) == serving[s].pc \notin {"idle", "enqueue"}

\* Ids drawn by requests in flight are new, and nobody else's.
Fresh ==
    \A s \in Servers : Draws(s) =>
        /\ serving[s].id \in 1..issued
        /\ serving[s].id \notin DOMAIN sessions
        /\ \A r \in Servers : Draws(r) /\ r # s => serving[r].id # serving[s].id

\* Between commit and enqueue a request's session is there.
Stored ==
    \A s \in Servers : At(s, "enqueue") =>
        /\ serving[s].id \in DOMAIN sessions
        /\ sessions[serving[s].id].body = serving[s].body

OneSessionPerKey ==
    \A i, j \in DOMAIN sessions : SameKey(sessions[i].body, sessions[j].body) => i = j

\* An uncommitted insert clashes with nothing, committed or not.
Exclusive ==
    \A s \in Servers : At(s, "commit") =>
        /\ KeyHolders(serving[s].body) = {}
        /\ AssetHolders(serving[s].body) = {}
        /\ \A r \in Servers \ {s} : At(r, "commit") =>
               /\ ~SameKey(serving[s].body, serving[r].body)
               /\ ~SameAsset(serving[s].body, serving[r].body)

KeyKinds == {"created", "replayed", "keyConflict"}

\* Every answer about a key names a session that has it.
Named ==
    \A x \in answers : x.kind \in KeyKinds =>
        /\ x.names \in DOMAIN sessions
        /\ sessions[x.names].body.entity = x.body.entity
        /\ sessions[x.names].body.key = x.body.key

\* Requests that have passed the capacity check and may still commit.
Admitted == {s \in Servers : serving[s].pc \in {"gather", "insert", "commit"}}

Room ==
    Cardinality(Actives) + Cardinality(Admitted) <= MaxActive + Cardinality(Servers) - 1

Unique == OneActivePerAsset /\ OneSessionPerKey /\ Exclusive

IInv == TypeOK /\ Fresh /\ Stored /\ Unique /\ Named /\ Room

-----------------------------------------------------------------------------
(* What the steps do, in the terms of the invariant.                       *)

\* The steps that neither touch the sessions nor reserve a row: they move one
\* server on, to a program counter other than these two, or end its request.
Quiet(s) ==
    /\ UNCHANGED <<sessions, issued>>
    /\ \A r \in Servers \ {s} : serving'[r] = serving[r]
    /\ serving'[s].id = serving[s].id /\ serving'[s].body = serving[s].body
    /\ serving'[s].pc \notin {"commit", "enqueue"}
    /\ Draws(s)' => Draws(s)

LEMMA Symmetric ==
    \A b, c : /\ SameKey(b, c) <=> SameKey(c, b)
              /\ SameAsset(b, c) <=> SameAsset(c, b)
BY DEF SameKey, SameAsset

\* Go changes one program counter.
LEMMA GoMoves ==
    ASSUME TypeOK, NEW s \in Servers, NEW pc \in PCs, Go(s, pc)
    PROVE  /\ serving' \in [Servers -> [pc : PCs, body : Bodies, id : 0..issued]]
           /\ \A r \in Servers \ {s} : serving'[r] = serving[r]
           /\ serving'[s].pc = pc
           /\ serving'[s].id = serving[s].id /\ serving'[s].body = serving[s].body
BY DEF TypeOK, Go

\* An answer that names a committed session, or none, keeps its type.
LEMMA AnswerMoves ==
    ASSUME TypeOK, NEW s \in Servers, NEW kind \in Kinds,
           NEW id \in DOMAIN sessions \union {NoId}, Answer(s, kind, id)
    PROVE  /\ answers' \subseteq [body : Bodies, kind : Kinds,
                                  names : DOMAIN sessions \union {NoId}]
           /\ Go(s, "idle")
BY DEF TypeOK, Answer

LEMMA KeyHoldersIn == \A b : KeyHolders(b) \subseteq DOMAIN sessions /\ AssetHolders(b) \subseteq DOMAIN sessions
BY DEF KeyHolders, AssetHolders, Actives

-----------------------------------------------------------------------------
(* Types.                                                                  *)

LEMMA InitTyped == Init => TypeOK
<1>1. Idle \in [pc : PCs, body : Bodies, id : 0..0]
  <2>1. (CHOOSE b \in Bodies : TRUE) \in Bodies
    BY BodiesAssumption
  <2> QED  BY <2>1 DEF Idle, PCs, NoId
<1> QED  BY <1>1, MaxRequestsAssumption DEF Init, TypeOK

\* Every step of a server but its commit keeps types and what is committed.
LEMMA ServeTyped ==
    ASSUME TypeOK, Stored, NEW s \in Servers, Serve(s)
    PROVE  \/ TypeOK' /\ Quiet(s)
           \/ TypeOK' /\ Insert(s)
           \/ Commit(s)
<1> USE DEF PCs, Kinds, NoId
<1> DEFINE Kept == UNCHANGED <<sessions, issued>> /\ queue' \subseteq DOMAIN sessions
                   /\ answers' \subseteq [body : Bodies, kind : Kinds,
                                          names : DOMAIN sessions \union {NoId}]
<1>1. ASSUME NEW pc \in PCs \ {"commit", "enqueue"}, Go(s, pc), Kept, ~At(s, "idle"),
             pc # "idle" => ~At(s, "enqueue")
      PROVE  TypeOK' /\ Quiet(s)
  <2>1. TypeOK'
    BY <1>1, GoMoves DEF TypeOK
  <2>2. Quiet(s)
    BY <1>1, GoMoves DEF Quiet, Draws, At
  <2> QED  BY <2>1, <2>2
<1>2. ASSUME NEW kind \in Kinds, NEW id \in DOMAIN sessions \union {NoId},
             Answer(s, kind, id), UNCHANGED <<sessions, issued>>,
             queue' \subseteq DOMAIN sessions, ~At(s, "idle")
      PROVE  TypeOK' /\ Quiet(s)
  BY <1>1, <1>2, AnswerMoves
<1>3. ASSUME NEW pc \in PCs \ {"commit", "enqueue"}, Go(s, pc), ~At(s, "idle"),
             pc # "idle" => ~At(s, "enqueue"), UNCHANGED <<sessions, queue, answers, issued>>
      PROVE  TypeOK' /\ Quiet(s)
  BY <1>1, <1>3 DEF TypeOK
<1>4. queue \subseteq DOMAIN sessions
  BY DEF TypeOK
<1>5. CASE CheckKey(s)
  BY <1>5, <1>2, <1>3, <1>4, KeyHoldersIn DEF CheckKey, At
<1>6. CASE CheckCapacity(s)
  BY <1>6, <1>2, <1>3, <1>4 DEF CheckCapacity, At
<1>7. CASE Gather(s)
  BY <1>7, <1>2, <1>3, <1>4 DEF Gather, At
<1>8. CASE Insert(s)
  BY <1>8, GoMoves DEF Insert, TypeOK
<1>9. CASE WhoByKey(s)
  BY <1>9, <1>2, <1>3, <1>4, KeyHoldersIn DEF WhoByKey, At
<1>10. CASE WhoByAsset(s)
  BY <1>10, <1>2, <1>3, <1>4, KeyHoldersIn DEF WhoByAsset, At
<1>11. CASE Enqueue(s)
  BY <1>11, <1>2, <1>3, <1>4 DEF Enqueue, At, Stored
<1>12. CASE Fail(s)
  BY <1>12, <1>3 DEF Fail, At
<1> QED  BY <1>5, <1>6, <1>7, <1>8, <1>9, <1>10, <1>11, <1>12 DEF Serve

\* A commit adds one session, which is active and the server's own.
LEMMA CommitMoves ==
    ASSUME TypeOK, Fresh, NEW s \in Servers, Commit(s)
    PROVE  /\ TypeOK'
           /\ DOMAIN sessions' = DOMAIN sessions \union {serving[s].id}
           /\ serving[s].id \notin DOMAIN sessions
           /\ \A id \in DOMAIN sessions : sessions'[id] = sessions[id]
           /\ sessions'[serving[s].id] = Created(serving[s].body)
           /\ Actives' = Actives \union {serving[s].id}
<1> DEFINE n == serving[s].id
<1>1. n \in 1..issued /\ n \notin DOMAIN sessions
  BY DEF Commit, Fresh, Draws, At
<1>2. /\ DOMAIN sessions' = DOMAIN sessions \union {n}
      /\ \A id \in DOMAIN sessions' :
            sessions'[id] = IF id = n THEN Created(serving[s].body) ELSE sessions[id]
      /\ sessions' = [id \in DOMAIN sessions' |-> sessions'[id]]
  BY DEF Commit
<1>3. Created(serving[s].body) \in Session /\ Created(serving[s].body).active
  BY DEF TypeOK, Created, Session
<1>4. sessions' \in [DOMAIN sessions' -> Session]
  BY <1>2, <1>3 DEF TypeOK
<1>5. serving' \in [Servers -> [pc : PCs, body : Bodies, id : 0..issued']]
  BY GoMoves DEF Commit, PCs
<1>6. TypeOK'
  BY <1>1, <1>2, <1>4, <1>5 DEF TypeOK, Commit
<1>7. Actives' = Actives \union {n}
  BY <1>1, <1>2, <1>3 DEF Actives
<1> QED  BY <1>1, <1>2, <1>6, <1>7

\* A request that is received has a new id and has not passed any check.
LEMMA ReceiveMoves ==
    ASSUME TypeOK, NEW s \in Servers, NEW b \in Bodies, Receive(s, b)
    PROVE  /\ TypeOK'
           /\ UNCHANGED <<sessions, answers>>
           /\ issued' = issued + 1 /\ serving'[s].id = issued + 1
           /\ serving'[s].pc \in {"key", "capacity"}
           /\ \A r \in Servers \ {s} : serving'[r] = serving[r]
<1>1. /\ UNCHANGED <<sessions, queue, answers>>
      /\ issued' = issued + 1 /\ issued' \in 0..MaxRequests
  BY MaxRequestsAssumption DEF Receive, TypeOK
<1>2. PICK pc \in {"key", "capacity"} :
        serving' = [serving EXCEPT ![s] = [pc |-> pc, body |-> b, id |-> issued']]
  BY DEF Receive
<1>3. /\ serving'[s] = [pc |-> pc, body |-> b, id |-> issued']
      /\ \A r \in Servers \ {s} : serving'[r] = serving[r]
      /\ DOMAIN serving' = Servers /\ serving' = [r \in Servers |-> serving'[r]]
  BY <1>2 DEF TypeOK
<1>4. 0..issued \subseteq 0..issued' /\ issued' \in 0..issued' /\ 1..issued \subseteq 1..issued'
  BY <1>1 DEF TypeOK
<1>5. \A r \in Servers : serving'[r] \in [pc : PCs, body : Bodies, id : 0..issued']
  BY <1>3, <1>4 DEF TypeOK, PCs
<1>6. TypeOK'
  BY <1>1, <1>3, <1>4, <1>5 DEF TypeOK
<1> QED  BY <1>1, <1>3, <1>6

\* The end of a session changes nothing but that it is active.
LEMMA EndMoves ==
    ASSUME TypeOK, NEW id \in DOMAIN sessions, End(id)
    PROVE  /\ TypeOK'
           /\ DOMAIN sessions' = DOMAIN sessions
           /\ \A i \in DOMAIN sessions : sessions'[i].body = sessions[i].body
           /\ Actives' \subseteq Actives
<1>1. /\ DOMAIN sessions' = DOMAIN sessions
      /\ \A i \in DOMAIN sessions :
            sessions'[i] = IF i = id THEN [sessions[id] EXCEPT !.active = FALSE]
                                     ELSE sessions[i]
      /\ sessions' = [i \in DOMAIN sessions |-> sessions'[i]]
  BY DEF End, TypeOK
<1>2. [sessions[id] EXCEPT !.active = FALSE] \in Session
  BY DEF TypeOK, Session
<1>3. /\ [sessions[id] EXCEPT !.active = FALSE].body = sessions[id].body
      /\ ~[sessions[id] EXCEPT !.active = FALSE].active
  BY DEF TypeOK, Session
<1>4. TypeOK'
  BY <1>1, <1>2 DEF TypeOK, End
<1>5. Actives' \subseteq Actives
  BY <1>1, <1>3 DEF Actives
<1> QED  BY <1>1, <1>3, <1>4, <1>5

-----------------------------------------------------------------------------
(* Ids, keys and assets.                                                   *)

Indexed == Fresh /\ Stored /\ Unique

LEMMA QuietIndexed ==
    ASSUME TypeOK, Indexed, NEW s \in Servers, Quiet(s)
    PROVE  Indexed'
<1>1. Fresh'
  BY DEF Indexed, Fresh, Quiet, Draws
<1>2. Stored'
  BY DEF Indexed, Stored, Quiet, At
<1>3. OneActivePerAsset' /\ OneSessionPerKey'
  BY DEF Indexed, Unique, OneActivePerAsset, OneSessionPerKey, Quiet, Actives
<1>4. Exclusive'
  BY DEF Indexed, Unique, Exclusive, Quiet, At, KeyHolders, AssetHolders, Actives
<1> QED  BY <1>1, <1>2, <1>3, <1>4 DEF Indexed, Unique

\* The insert waits for a clashing one, so that two that are uncommitted never clash.
LEMMA InsertIndexed ==
    ASSUME TypeOK, Indexed, NEW s \in Servers, Insert(s)
    PROVE  Indexed'
<1> DEFINE b == serving[s].body
<1>1. /\ UNCHANGED <<sessions, issued>>
      /\ \A r \in Servers \ {s} : serving'[r] = serving[r]
      /\ serving'[s].id = serving[s].id /\ serving'[s].body = b
      /\ serving'[s].pc \in {"commit", "whoByKey"} /\ At(s, "insert")
      /\ serving'[s].pc = "commit" => KeyHolders(b) = {} /\ AssetHolders(b) = {}
  BY GoMoves DEF Insert, PCs
<1>2. Fresh' /\ Stored'
  BY <1>1 DEF Indexed, Fresh, Stored, Draws, At
<1>3. OneActivePerAsset' /\ OneSessionPerKey'
  BY <1>1 DEF Indexed, Unique, OneActivePerAsset, OneSessionPerKey, Actives
<1>4. \A r \in Servers \ {s} : At(r, "commit") =>
          /\ ~SameKey(b, serving[r].body) /\ ~SameAsset(b, serving[r].body)
          /\ ~SameKey(serving[r].body, b) /\ ~SameAsset(serving[r].body, b)
  BY Symmetric DEF Insert, Blocked
<1>5. \A c : KeyHolders(c)' = KeyHolders(c) /\ AssetHolders(c)' = AssetHolders(c)
  BY <1>1 DEF KeyHolders, AssetHolders, Actives
<1>6. Exclusive'
  BY <1>1, <1>4, <1>5 DEF Indexed, Unique, Exclusive, At
<1> QED  BY <1>2, <1>3, <1>6 DEF Indexed, Unique

LEMMA CommitIndexed ==
    ASSUME TypeOK, Indexed, NEW s \in Servers, Commit(s)
    PROVE  Indexed'
<1> DEFINE n == serving[s].id
           b == serving[s].body
<1>1. Fresh
  BY DEF Indexed
<1>2. /\ \A r \in Servers \ {s} : serving'[r] = serving[r]
      /\ serving'[s].pc = "enqueue" /\ serving'[s].id = n /\ serving'[s].body = b
      /\ At(s, "commit") /\ UNCHANGED issued
  BY GoMoves DEF Commit, PCs
<1>3. /\ DOMAIN sessions' = DOMAIN sessions \union {n}
      /\ n \notin DOMAIN sessions
      /\ \A id \in DOMAIN sessions : sessions'[id] = sessions[id]
      /\ sessions'[n].body = b
      /\ Actives' = Actives \union {n}
  <2>1. sessions'[n] = Created(b)
    BY <1>1, CommitMoves
  <2>2. sessions'[n].body = b
    BY <2>1 DEF Created
  <2> QED  BY <1>1, <2>2, CommitMoves
<1>4. KeyHolders(b) = {} /\ AssetHolders(b) = {}
  BY <1>2 DEF Indexed, Unique, Exclusive
<1>5. Fresh'
  BY <1>1, <1>2, <1>3 DEF Fresh, Draws, At
<1>6. Stored'
  BY <1>2, <1>3 DEF Indexed, Stored, At
<1>7. \A i \in DOMAIN sessions : ~SameKey(b, sessions[i].body) /\ ~SameKey(sessions[i].body, b)
  BY <1>4, Symmetric DEF KeyHolders
<1>8. \A i \in Actives : ~SameAsset(b, sessions[i].body) /\ ~SameAsset(sessions[i].body, b)
  BY <1>4, Symmetric DEF AssetHolders
<1>9. OneSessionPerKey'
  BY <1>3, <1>7 DEF Indexed, Unique, OneSessionPerKey
<1>13. Actives \subseteq DOMAIN sessions
  BY DEF Actives
<1>10. OneActivePerAsset'
  BY <1>3, <1>8, <1>13 DEF Indexed, Unique, OneActivePerAsset
<1>11. ASSUME NEW r \in Servers \ {s}, At(r, "commit")
       PROVE  KeyHolders(serving[r].body)' = {} /\ AssetHolders(serving[r].body)' = {}
  <2>1. ~SameKey(serving[r].body, b) /\ ~SameAsset(serving[r].body, b)
    BY <1>2, <1>11 DEF Indexed, Unique, Exclusive
  <2>2. KeyHolders(serving[r].body) = {} /\ AssetHolders(serving[r].body) = {}
    BY <1>11 DEF Indexed, Unique, Exclusive
  <2>3. serving'[r] = serving[r]
    BY <1>2
  <2>4. KeyHolders(serving[r].body)' = {}
    BY <1>3, <2>1, <2>2, <2>3 DEF KeyHolders
  <2>5. AssetHolders(serving[r].body)' = {}
    BY <1>3, <1>13, <2>1, <2>2, <2>3 DEF AssetHolders
  <2> QED  BY <2>4, <2>5
<1>12. Exclusive'
  BY <1>2, <1>11 DEF Indexed, Unique, Exclusive, At
<1> QED  BY <1>5, <1>6, <1>9, <1>10, <1>12 DEF Indexed, Unique

LEMMA ReceiveIndexed ==
    ASSUME TypeOK, Indexed, NEW s \in Servers, NEW b \in Bodies, Receive(s, b)
    PROVE  Indexed'
<1>1. issued \in Nat /\ DOMAIN sessions \subseteq 1..issued
  BY DEF TypeOK
<1>2. Fresh'
  BY <1>1, ReceiveMoves DEF Indexed, Fresh, Draws
<1>3. Stored'
  BY ReceiveMoves DEF Indexed, Stored, At
<1>4. OneActivePerAsset' /\ OneSessionPerKey'
  BY ReceiveMoves DEF Indexed, Unique, OneActivePerAsset, OneSessionPerKey, Actives
<1>5. Exclusive'
  BY ReceiveMoves DEF Indexed, Unique, Exclusive, At, KeyHolders, AssetHolders, Actives
<1> QED  BY <1>2, <1>3, <1>4, <1>5 DEF Indexed, Unique

LEMMA EndIndexed ==
    ASSUME TypeOK, Indexed, NEW id \in DOMAIN sessions, End(id)
    PROVE  Indexed'
<1>1. UNCHANGED <<serving, issued>>
  BY DEF End
<1>2. Fresh' /\ Stored'
  BY <1>1, EndMoves DEF Indexed, Fresh, Stored, Draws, At
<1>3. OneSessionPerKey'
  BY EndMoves DEF Indexed, Unique, OneSessionPerKey
<1>4. OneActivePerAsset'
  BY EndMoves DEF Indexed, Unique, OneActivePerAsset, Actives
<1>5. \A b : KeyHolders(b)' \subseteq KeyHolders(b) /\ AssetHolders(b)' \subseteq AssetHolders(b)
  BY EndMoves DEF KeyHolders, AssetHolders, Actives
<1>6. Exclusive'
  BY <1>1, <1>5 DEF Indexed, Unique, Exclusive, At
<1> QED  BY <1>2, <1>3, <1>4, <1>6 DEF Indexed, Unique

-----------------------------------------------------------------------------
(* Answers.                                                                *)

\* An answer about a key that names a holder of the key is as Named wants it.
LEMMA AnswerNamed ==
    ASSUME TypeOK, Named, NEW s \in Servers, NEW kind, NEW id,
           Answer(s, kind, id), UNCHANGED sessions,
           kind \in KeyKinds => /\ id \in DOMAIN sessions
                                /\ sessions[id].body.entity = serving[s].body.entity
                                /\ sessions[id].body.key = serving[s].body.key
    PROVE  Named'
<1> DEFINE new == [body |-> serving[s].body, kind |-> kind, names |-> id]
<1>1. answers' = answers \union {new}
  BY DEF Answer
<1>2. ASSUME NEW x \in answers', x.kind \in KeyKinds
      PROVE  /\ x.names \in DOMAIN sessions
             /\ sessions[x.names].body.entity = x.body.entity
             /\ sessions[x.names].body.key = x.body.key
  <2>1. CASE x \in answers
    BY <1>2, <2>1 DEF Named
  <2>2. CASE x = new
    BY <1>2, <2>2
  <2> QED  BY <1>1, <2>1, <2>2
<1> QED  BY <1>2 DEF Named

LEMMA ServeNamed ==
    ASSUME TypeOK, Indexed, Named, NEW s \in Servers, Serve(s)
    PROVE  Named'
<1> DEFINE b == serving[s].body
<1>1. \A id \in KeyHolders(b) : /\ id \in DOMAIN sessions
                                /\ sessions[id].body.entity = b.entity
                                /\ sessions[id].body.key = b.key
  BY DEF KeyHolders, SameKey
<1>2. ASSUME UNCHANGED <<sessions, answers>>
      PROVE  Named'
  BY <1>2 DEF Named
<1>3. CASE CheckKey(s)
  <2>1. CASE UNCHANGED answers
    BY <1>2, <1>3, <2>1 DEF CheckKey
  <2>2. CASE \E id \in KeyHolders(b), kind \in KeyKinds : Answer(s, kind, id)
    BY <1>1, <1>3, <2>2, AnswerNamed DEF CheckKey
  <2> QED  BY <1>3, <2>1, <2>2 DEF CheckKey, KeyKinds
<1>4. CASE CheckCapacity(s)
  BY <1>2, <1>4, AnswerNamed DEF CheckCapacity, KeyKinds
<1>5. CASE Gather(s)
  BY <1>2, <1>5, AnswerNamed DEF Gather, KeyKinds
<1>6. CASE Insert(s)
  BY <1>2, <1>6 DEF Insert
<1>7. CASE WhoByKey(s)
  <2>1. CASE UNCHANGED answers
    BY <1>2, <1>7, <2>1 DEF WhoByKey
  <2>2. CASE \E id \in KeyHolders(b) : Answer(s, "keyConflict", id)
    BY <1>1, <1>7, <2>2, AnswerNamed DEF WhoByKey
  <2> QED  BY <1>7, <2>1, <2>2 DEF WhoByKey
<1>8. CASE WhoByAsset(s)
  <2>1. PICK id : Answer(s, "assetConflict", id)
    BY <1>8 DEF WhoByAsset
  <2> QED  BY <1>8, <2>1, AnswerNamed DEF WhoByAsset, KeyKinds
<1>9. CASE Commit(s)
  <2>1. answers' = answers
    BY <1>9 DEF Commit
  <2>2. /\ DOMAIN sessions \subseteq DOMAIN sessions'
        /\ \A id \in DOMAIN sessions : sessions'[id] = sessions[id]
    BY <1>9, CommitMoves DEF Indexed
  <2> QED  BY <2>1, <2>2 DEF Named
<1>10. CASE Enqueue(s)
  <2>1. /\ serving[s].id \in DOMAIN sessions
        /\ sessions[serving[s].id].body = b
    BY <1>10 DEF Enqueue, Indexed, Stored
  <2>2. CASE Answer(s, "created", serving[s].id)
    BY <1>10, <2>1, <2>2, AnswerNamed DEF Enqueue
  <2>3. CASE Answer(s, "error", NoId)
    BY <1>10, <2>3, AnswerNamed DEF Enqueue, KeyKinds
  <2> QED  BY <1>10, <2>2, <2>3 DEF Enqueue
<1>11. CASE Fail(s)
  BY <1>2, <1>11 DEF Fail
<1> QED  BY <1>3, <1>4, <1>5, <1>6, <1>7, <1>8, <1>9, <1>10, <1>11 DEF Serve

LEMMA EndNamed ==
    ASSUME TypeOK, Named, NEW id \in DOMAIN sessions, End(id)
    PROVE  Named'
<1>1. answers' = answers
  BY DEF End
<1> QED  BY <1>1, EndMoves DEF Named

-----------------------------------------------------------------------------
(* The soft ceiling.                                                       *)

LEMMA FiniteCounts ==
    ASSUME TypeOK
    PROVE  /\ IsFiniteSet(Actives) /\ Cardinality(Actives) \in Nat
           /\ IsFiniteSet(Admitted) /\ Cardinality(Admitted) \in Nat
           /\ Cardinality(Admitted) <= Cardinality(Servers)
           /\ Cardinality(Servers) \in Nat
<1>1. IsFiniteSet(1..issued)
  BY FS_Interval DEF TypeOK
<1>2. Actives \in SUBSET (1..issued)
  BY DEF Actives, TypeOK
<1>3. Admitted \in SUBSET Servers
  BY DEF Admitted
<1>4. IsFiniteSet(Actives) /\ IsFiniteSet(Admitted)
  BY <1>1, <1>2, <1>3, FS_Subset, ServersAssumption
<1> QED  BY <1>3, <1>4, FS_Subset, FS_CardinalityType, ServersAssumption

\* Fewer active sessions and fewer admitted requests leave the room there is.
LEMMA FewerRoom ==
    ASSUME TypeOK, TypeOK', Room, Actives' \subseteq Actives, Admitted' \subseteq Admitted
    PROVE  Room'
<1>1. /\ Cardinality(Actives') <= Cardinality(Actives)
      /\ Cardinality(Admitted') <= Cardinality(Admitted)
  BY FiniteCounts, FS_Subset
<1>2. Cardinality(Actives') \in Nat /\ Cardinality(Admitted') \in Nat
  BY FiniteCounts, FS_Subset, FS_CardinalityType
<1> QED  BY <1>1, <1>2, FiniteCounts, MaxActiveAssumption DEF Room

LEMMA ServeRoom ==
    ASSUME TypeOK, Indexed, Room, NEW s \in Servers, Serve(s), TypeOK'
    PROVE  Room'
<1>1. ASSUME UNCHANGED sessions, \A r \in Servers \ {s} : serving'[r] = serving[r],
             serving'[s].pc \notin {"gather", "insert", "commit"} \/ s \in Admitted
      PROVE  Room'
  <2>1. Actives' \subseteq Actives
    BY <1>1 DEF Actives
  <2>2. Admitted' \subseteq Admitted
    BY <1>1 DEF Admitted
  <2> QED  BY <2>1, <2>2, FewerRoom
<1>2. CASE Quiet(s) /\ (CheckCapacity(s) => ~HasRoom)
  <2>1. serving'[s].pc \notin {"gather", "insert", "commit"} \/ s \in Admitted
    <3>1. CASE CheckKey(s)
      BY <3>1, GoMoves DEF CheckKey, Answer, PCs
    <3>2. CASE CheckCapacity(s)
      BY <1>2, <3>2, GoMoves DEF CheckCapacity, Answer, PCs
    <3>3. CASE Gather(s) \/ Insert(s)
      BY <3>3 DEF Gather, Insert, Admitted, At
    <3>4. CASE WhoByKey(s) \/ WhoByAsset(s)
      BY <3>4, GoMoves DEF WhoByKey, WhoByAsset, Answer, PCs
    <3>5. CASE Commit(s) \/ Enqueue(s) \/ Fail(s)
      BY <3>5, GoMoves DEF Commit, Enqueue, Fail, Answer, PCs
    <3> QED  BY <3>1, <3>2, <3>3, <3>4, <3>5 DEF Serve
  <2> QED  BY <1>1, <1>2, <2>1 DEF Quiet
<1>3. CASE CheckCapacity(s) /\ HasRoom
  <2>1. Actives' = Actives
    BY <1>3 DEF CheckCapacity, Actives
  <2>2. Cardinality(Actives) <= MaxActive - 1
    BY <1>3, FiniteCounts, MaxActiveAssumption DEF HasRoom
  <2>3. /\ Cardinality(Admitted') <= Cardinality(Servers)
        /\ Cardinality(Admitted') \in Nat
    <3>1. Admitted' \in SUBSET Servers
      BY DEF Admitted
    <3> QED  BY <3>1, FS_Subset, FS_CardinalityType, ServersAssumption
  <2> QED  BY <2>1, <2>2, <2>3, FiniteCounts, MaxActiveAssumption DEF Room
<1>4. CASE Insert(s)
  <2>1. s \in Admitted
    BY <1>4 DEF Insert, Admitted, At
  <2>2. \A r \in Servers \ {s} : serving'[r] = serving[r]
    BY <1>4, GoMoves DEF Insert, PCs
  <2> QED  BY <1>1, <1>4, <2>1, <2>2 DEF Insert
<1>5. CASE Commit(s)
  <2> DEFINE n == serving[s].id
  <2>1. Actives' = Actives \union {n} /\ n \notin DOMAIN sessions
    BY <1>5, CommitMoves DEF Indexed
  <2>2. Cardinality(Actives') <= Cardinality(Actives) + 1 /\ Cardinality(Actives') \in Nat
    <3>1. /\ IsFiniteSet(Actives \union {n})
          /\ Cardinality(Actives \union {n}) = IF n \in Actives THEN Cardinality(Actives)
                                               ELSE Cardinality(Actives) + 1
      BY FiniteCounts, FS_AddElement
    <3> QED  BY <2>1, <3>1, FiniteCounts
  <2>3. s \in Admitted
    BY <1>5 DEF Commit, Admitted, At
  <2>4. Admitted' = Admitted \ {s}
    BY <1>5, GoMoves DEF Commit, Admitted, PCs
  <2>5. Cardinality(Admitted') = Cardinality(Admitted) - 1
    BY <2>3, <2>4, FiniteCounts, FS_RemoveElement
  <2> QED  BY <2>2, <2>5, FiniteCounts, MaxActiveAssumption DEF Room
<1>6. Quiet(s) \/ Insert(s) \/ Commit(s)
  BY ServeTyped DEF Indexed
<1> QED  BY <1>2, <1>3, <1>4, <1>5, <1>6

-----------------------------------------------------------------------------
(* The invariant, and the theorems.                                        *)

LEMMA InitInvariant == Init => IInv
<1> SUFFICES ASSUME Init
             PROVE  IInv
  OBVIOUS
<1>1. TypeOK
  BY InitTyped
<1>2. DOMAIN sessions = {} /\ answers = {} /\ \A s \in Servers : serving[s].pc = "idle"
  BY DEF Init, Idle
<1>3. Fresh /\ Stored /\ Named
  BY <1>2 DEF Fresh, Stored, Named, Draws, At
<1>4. Unique
  BY <1>2 DEF Unique, OneActivePerAsset, OneSessionPerKey, Exclusive, Actives, At
<1>5. Actives = {} /\ Admitted = {}
  BY <1>2 DEF Actives, Admitted
<1>6. Cardinality(Servers) \in Nat \ {0}
  BY FS_CardinalityType, FS_EmptySet, ServersAssumption
<1>7. Room
  BY <1>5, <1>6, FS_EmptySet, MaxActiveAssumption DEF Room
<1> QED  BY <1>1, <1>3, <1>4, <1>7 DEF IInv

LEMMA StepInvariant == IInv /\ [Next]_vars => IInv'
<1> SUFFICES ASSUME IInv, [Next]_vars
             PROVE  IInv'
  OBVIOUS
<1> USE DEF IInv
<1>0. Indexed
  BY DEF Indexed
<1>1. CASE UNCHANGED vars
  BY <1>1 DEF vars, TypeOK, Fresh, Stored, Unique, OneActivePerAsset, OneSessionPerKey,
              Exclusive, Named, Room, Actives, Admitted, Draws, At, KeyHolders, AssetHolders
<1>2. ASSUME NEW s \in Servers, NEW b \in Bodies, Receive(s, b)
      PROVE  IInv'
  <2>1. TypeOK' /\ Indexed'
    BY <1>0, <1>2, ReceiveMoves, ReceiveIndexed
  <2>2. Named'
    BY <1>2, ReceiveMoves DEF Named
  <2>3. Actives' \subseteq Actives /\ Admitted' \subseteq Admitted
    BY <1>2, ReceiveMoves DEF Actives, Admitted
  <2> QED  BY <2>1, <2>2, <2>3, FewerRoom DEF Indexed
<1>3. ASSUME NEW s \in Servers, Serve(s)
      PROVE  IInv'
  <2>1. TypeOK' /\ Indexed'
    BY <1>0, <1>3, ServeTyped, QuietIndexed, InsertIndexed, CommitIndexed, CommitMoves DEF Indexed
  <2>2. Named' /\ Room'
    BY <1>0, <1>3, <2>1, ServeNamed, ServeRoom
  <2> QED  BY <2>1, <2>2 DEF Indexed
<1>4. ASSUME NEW id \in DOMAIN sessions, End(id)
      PROVE  IInv'
  <2>1. TypeOK' /\ Indexed' /\ Named'
    BY <1>0, <1>4, EndMoves, EndIndexed, EndNamed
  <2>2. Actives' \subseteq Actives /\ Admitted' \subseteq Admitted
    BY <1>4, EndMoves DEF End, Admitted
  <2> QED  BY <2>1, <2>2, FewerRoom DEF Indexed
<1> QED  BY <1>1, <1>2, <1>3, <1>4 DEF Next

LEMMA Invariance == Spec => []IInv
<1> QED  BY InitInvariant, StepInvariant, PTL DEF Spec

\* Rows, requests and answers keep their types, and tasks are enqueued for committed
\* sessions only, for every number of servers and requests.
THEOREM AdmissionTypeCorrect == Spec => []TypeOK
<1>1. IInv => TypeOK
  BY DEF IInv
<1> QED  BY <1>1, Invariance, PTL

\* The filtered unique index admits one active session per asset, although every check
\* before the insert reads stale rows.
THEOREM ActiveAssetsUnique == Spec => []OneActivePerAsset
<1>1. IInv => OneActivePerAsset
  BY DEF IInv, Unique
<1> QED  BY <1>1, Invariance, PTL

\* All that clients are ever told about one key names the same session.
THEOREM KeysAnsweredAlike == Spec => []KeyNamesOneSession
<1>1. ASSUME IInv, NEW x \in answers, NEW y \in answers, SameKey(x.body, y.body),
             x.kind \in KeyKinds, y.kind \in KeyKinds
      PROVE  x.names = y.names
  <2>1. /\ x.names \in DOMAIN sessions /\ y.names \in DOMAIN sessions
        /\ sessions[x.names].body.entity = x.body.entity
        /\ sessions[x.names].body.key = x.body.key
        /\ sessions[y.names].body.entity = y.body.entity
        /\ sessions[y.names].body.key = y.body.key
    BY <1>1 DEF IInv, Named
  <2>2. SameKey(sessions[x.names].body, sessions[y.names].body)
    BY <1>1, <2>1 DEF SameKey
  <2> QED  BY <1>1, <2>1, <2>2 DEF IInv, Unique, OneSessionPerKey
<1>2. IInv => KeyNamesOneSession
  BY <1>1 DEF KeyNamesOneSession, KeyKinds
<1> QED  BY <1>2, Invariance, PTL

\* The ceiling is exceeded by fewer sessions than there are servers.
THEOREM OvershootIsBounded == Spec => []OvershootBounded
<1>1. IInv => OvershootBounded
  BY FiniteCounts, MaxActiveAssumption DEF IInv, Room, OvershootBounded
<1> QED  BY <1>1, Invariance, PTL
=============================================================================

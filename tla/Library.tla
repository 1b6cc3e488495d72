------------------------------- MODULE Library -------------------------------
(***************************************************************************)
(* The shared threat library: sessions match their threats against it      *)
(* (grounding.py), accepts of several sessions add what reviewers approved *)
(* to it at the same time (accept.py, the upserts of dal.py), and curators *)
(* switch entries off.  Each accept is one database transaction.           *)
(*                                                                         *)
(* What the database does is external: a filtered unique index over the    *)
(* active rows of a natural key, NULLs equal; an insert waits for another  *)
(* transaction's uncommitted row of that key; reads see committed rows and *)
(* keep no lock (READ_COMMITTED_SNAPSHOT is on); of transactions that wait *)
(* for each other in a circle one fails.                                   *)
(***************************************************************************)
EXTENDS Integers, FiniteSets

CONSTANTS
    Sessions,      \* sessions of different assets, none of them mid-regeneration
    Proposals,     \* what the LLM proposes in every session: category, type, name, actors
    SectorIds,     \* SectorIDsJSON of a session: <<own, parent>>, <<own>> or <<>>
    CategoryIdOf,  \* the active categories' ids by name; others are unknown
    SeedRows,      \* the library rows there are at first: ids
    Verdicts,      \* the bands that a match may be put in
    None,          \* a NULL id, name, sector or category
    Committed,     \* the writer of a row that is committed
    MaxFailures,   \* bound: accepts that fail on the way
    MaxCurations   \* bound: entries that curators switch off

ASSUME NamesAssumption  == None \notin SeedRows \union Proposals /\ Committed \notin Sessions
ASSUME SeedsAssumption ==
    /\ IsFiniteSet(SeedRows)
    /\ \A a, b \in SeedRows : a[1] = b[1] => a = b
ASSUME SectorsAssumption == \A s \in Sessions : DOMAIN SectorIds[s] \in {{}, {1}, {1, 2}}
ASSUME BoundsAssumption == MaxFailures \in Nat /\ MaxCurations \in Nat

VARIABLES
    rows,      \* the library: row id -> is it active, and who wrote it
    threats,   \* Identified_Threat: session -> proposal -> what it is grounded to
    pc,        \* where a session is
    accepted,  \* the flagged threats whose scenarios the accept took
    todo,      \* the threats the accept still has to promote
    row,       \* the threat it is promoting
    lost,      \* the natural key whose insert just failed
    memo,      \* "resolved": natural key -> row id, in this accept
    stale,     \* rows switched off since the accept checked its masters
    mishaps    \* failures and curations so far

acceptVars == <<accepted, todo, row, lost, memo>>
vars       == <<rows, threats, pc, acceptVars, stale, mishaps>>

-----------------------------------------------------------------------------
(* Rows and their natural keys.                                            *)

\* The id of a row: its natural key, and which incarnation of the key it is.
KeyOf(id) == id[1]

TypeKeyOf(name, category, sector) ==
    [kind |-> "type", name |-> name, category |-> category, sector |-> sector]
NameKeyOf(type, name, sector) ==
    [kind |-> "name", type |-> type, name |-> name, sector |-> sector]
ActorKeyOf(name)       == [kind |-> "actor", name |-> name]
LinkKeyOf(type, actor) == [kind |-> "link", type |-> type, actor |-> actor]

ASSUME ActorKeysAssumption ==
    \A id \in SeedRows : KeyOf(id).kind = "actor" => KeyOf(id) = ActorKeyOf(KeyOf(id).name)

RowsOf(key) == {id \in DOMAIN rows : KeyOf(id) = key}

\* The id that a new row gets: nobody's, and not NULL.
Incarnate(key) ==
    <<key, CHOOSE n \in 1 .. Cardinality(RowsOf(key)) + 2 :
               <<key, n>> \notin DOMAIN rows \union {None}>>

\* What session s reads: committed rows and its own.
Sees(s, id)   == rows[id].writer \in {s, Committed}
Active(s, kind) == {id \in DOMAIN rows : Sees(s, id) /\ rows[id].active /\ KeyOf(id).kind = kind}

-----------------------------------------------------------------------------
(* Grounding.                                                              *)

CategoryOf(p) ==
    IF p.category \in DOMAIN CategoryIdOf THEN CategoryIdOf[p.category] ELSE None

Visible(s, sector) == sector = None \/ \E i \in DOMAIN SectorIds[s] : SectorIds[s][i] = sector

\* get_possible_types: an unknown category searches every category.
PossibleTypes(s, p) ==
    {t \in Active(s, "type") : /\ Visible(s, KeyOf(t).sector)
                               /\ CategoryOf(p) \in {None, KeyOf(t).category}}

\* get_possible_names: of the matched type only.
PossibleNames(s, type) ==
    {c \in Active(s, "name") : KeyOf(c).type = type /\ Visible(s, KeyOf(c).sector)}

AllowedActors(s, type) ==
    {KeyOf(KeyOf(l).actor).name : l \in {k \in Active(s, "link") :
        KeyOf(k).type = type /\ KeyOf(k).actor \in Active(s, "actor")}}

Order == [flagged |-> 0, confirm |-> 1, grounded |-> 2]
Worse(a, b) == IF Order[a] <= Order[b] THEN a ELSE b

\* The type was not matched well enough: nothing to look a name or actors up by.
Unmatched(p) == [band |-> "flagged", type |-> None, name |-> None, actors |-> p.actors,
                 validated |-> FALSE]

\* A name that is not matched well enough is stored nevertheless.
Matched(s, p, type, typeBand) ==
    LET names == PossibleNames(s, type)
        found == IF names = {} THEN {<<None, "flagged">>} ELSE names \X Verdicts
    IN  {[band |-> Worse(typeBand, m[2]), type |-> type, name |-> m[1],
          actors |-> p.actors \intersect AllowedActors(s, type), validated |-> TRUE] :
            m \in found}

\* find_threat_in_library, whatever the embeddings and the reranker say.
Groundings(s, p) ==
    {Unmatched(p)} \union
    UNION {Matched(s, p, m[1], m[2]) : m \in PossibleTypes(s, p) \X (Verdicts \ {"flagged"})}

Ground(s) ==
    /\ pc[s] = "new"
    /\ \E found \in [Proposals -> UNION {Groundings(s, p) : p \in Proposals}] :
        /\ \A p \in Proposals : found[p] \in Groundings(s, p)
        /\ threats' = [threats EXCEPT ![s] = found]
    /\ pc' = [pc EXCEPT ![s] = "review"]
    /\ UNCHANGED <<rows, acceptVars, stale, mishaps>>

-----------------------------------------------------------------------------
(* Accept: the checks before promotion.                                    *)

\* (mutation) a flagged threat's type is not checked
MastersOfMatched(s) ==
    UNION {{threats[s][p].type, threats[s][p].name} :
              p \in {q \in Proposals : threats[s][q].band # "flagged"}} \ {None}

\* What must still be active: the types of every band, the names of matched threats.
Masters(s) ==
    ({threats[s][p].type : p \in Proposals} \union
     {threats[s][p].name : p \in {q \in Proposals : threats[s][q].band # "flagged"}}) \ {None}

\* (mutation) the excluded scenarios' threats promote as well
PromotableAll(s, A) == {p \in Proposals : threats[s][p].band = "flagged"}

\* The flagged threats whose active scenario the accept took.
Promotable(s, A) == {p \in A : threats[s][p].band = "flagged"}

NextRow(s, rest) == IF rest = {} THEN row' = [row EXCEPT ![s] = None]
                                 ELSE \E p \in rest : row' = [row EXCEPT ![s] = p]

\* A reviewer accepts the scenarios of A; excluded and unselected threats are not in it,
\* and matched ones, which promotion skips, are left out here.
\* With an inactive master the request is refused and nothing changes.
BeginAccept(s) ==
    /\ pc[s] = "review"
    /\ \A id \in Masters(s) : rows[id].active
    /\ \E A \in SUBSET {p \in Proposals : threats[s][p].band = "flagged"} :
        /\ accepted' = [accepted EXCEPT ![s] = A]
        /\ todo' = [todo EXCEPT ![s] = Promotable(s, A)]
        /\ NextRow(s, Promotable(s, A))
    /\ pc' = [pc EXCEPT ![s] = "promote"]
    /\ UNCHANGED <<rows, threats, lost, memo, stale, mishaps>>

-----------------------------------------------------------------------------
(* Accept: promotion, one upsert at a time.                                *)

\* (mutation) new entries go to the session's own sector
OwnSector(s) == IF SectorIds[s] = <<>> THEN None ELSE SectorIds[s][1]

\* _default_sector_id: the parent's, else its own, else global.
DefaultSector(s) ==
    CASE DOMAIN SectorIds[s] = {}  -> None
      [] DOMAIN SectorIds[s] = {1} -> SectorIds[s][1]
      [] OTHER                     -> SectorIds[s][2]

TypeKey(s, p) == TypeKeyOf(p.type, CategoryOf(p), DefaultSector(s))

\* (mutation) the proposed type replaces the stored one
TypeForProposed(s, p) == IF TypeKey(s, p) \in DOMAIN memo[s] THEN memo[s][TypeKey(s, p)] ELSE None

\* The threat's type: the stored one, else what the upsert gave, None before it.
TypeFor(s, p) ==
    IF threats[s][p].type # None THEN threats[s][p].type
    ELSE IF TypeKey(s, p) \in DOMAIN memo[s] THEN memo[s][TypeKey(s, p)] ELSE None

NameKey(s, p) == NameKeyOf(TypeFor(s, p), p.name, DefaultSector(s))

\* The proposed name wins over a stored one.
NameFor(s, p) == IF p.name = None THEN threats[s][p].name ELSE memo[s][NameKey(s, p)]

\* (mutation) actors are trusted without validation
ActorsTrusted(s, p) == threats[s][p].actors

ActorsOf(s, p) == IF threats[s][p].validated THEN threats[s][p].actors ELSE {}

\* The upsert of an actor, or once it is known that of its link to the type.
ActorOrLink(s, p, a) ==
    IF ActorKeyOf(a) \in DOMAIN memo[s] THEN LinkKeyOf(TypeFor(s, p), memo[s][ActorKeyOf(a)])
                                        ELSE ActorKeyOf(a)

\* The upserts that come next for threat p: its type, its name, its actors.
Wants(s, p) ==
    IF TypeFor(s, p) = None THEN {TypeKey(s, p)}
    ELSE IF p.name # None /\ NameKey(s, p) \notin DOMAIN memo[s] THEN {NameKey(s, p)}
    ELSE {ActorOrLink(s, p, a) : a \in ActorsOf(s, p)} \ DOMAIN memo[s]

Working(s) == pc[s] = "promote" /\ row[s] # None /\ lost[s] = None

\* (mutation) the library has no natural-key indexes
UniqueNothing(key) == {}

\* What the unique index compares a new row with.
ActiveRows(key) == {id \in RowsOf(key) : rows[id].active}

\* Another transaction has an uncommitted row of this key.
Holders(s, key) == {rows[id].writer : id \in ActiveRows(key)} \ {s, Committed}

Remember(s, key, id) ==
    memo' = [memo EXCEPT ![s] = [k \in DOMAIN memo[s] \union {key} |->
                                    IF k = key THEN id ELSE memo[s][k]]]

Insert(s, key) ==
    /\ ActiveRows(key) = {}
    /\ rows' = [id \in DOMAIN rows \union {Incarnate(key)} |->
                   IF id = Incarnate(key) THEN [active |-> TRUE, writer |-> s] ELSE rows[id]]
    /\ Remember(s, key, Incarnate(key))
    /\ UNCHANGED lost

\* IntegrityError: the savepoint is rolled back and the winner is looked up next.
Lose(s, key) ==
    /\ key.kind # "link"
    /\ ActiveRows(key) # {} /\ Holders(s, key) = {}
    /\ lost' = [lost EXCEPT ![s] = key]
    /\ UNCHANGED <<rows, memo>>

\* A link that is there already needs no look-up.
LinkIsThere(s, key) ==
    /\ key.kind = "link" /\ Holders(s, key) = {}
    /\ \E id \in ActiveRows(key) : Remember(s, key, id)
    /\ UNCHANGED <<rows, lost>>

Upsert(s) ==
    /\ Working(s)
    /\ \E key \in Wants(s, row[s]) : Insert(s, key) \/ Lose(s, key) \/ LinkIsThere(s, key)
    /\ UNCHANGED <<threats, pc, accepted, todo, row, stale, mishaps>>

Winners(s) == {id \in ActiveRows(lost[s]) : Sees(s, id)}

Lookup(s) ==
    /\ lost[s] # None
    /\ \E winner \in Winners(s) : Remember(s, lost[s], winner)
    /\ lost' = [lost EXCEPT ![s] = None]
    /\ UNCHANGED <<rows, threats, pc, accepted, todo, row, stale, mishaps>>

RowDone(s) ==
    /\ Working(s) /\ Wants(s, row[s]) = {}
    /\ todo' = [todo EXCEPT ![s] = @ \ {row[s]}]
    /\ NextRow(s, todo[s] \ {row[s]})
    /\ UNCHANGED <<rows, threats, pc, accepted, lost, memo, stale, mishaps>>

\* The accept's own variables end with it.
Forget(s) ==
    /\ memo' = [memo EXCEPT ![s] = [k \in {} |-> None]]
    /\ stale' = [stale EXCEPT ![s] = {}]

\* The threats are re-pointed and the session completed in the same transaction.
Commit(s) ==
    /\ pc[s] = "promote" /\ todo[s] = {}
    /\ rows' = [id \in DOMAIN rows |->
                   IF rows[id].writer = s THEN [rows[id] EXCEPT !.writer = Committed] ELSE rows[id]]
    /\ threats' = [threats EXCEPT ![s] = [p \in Proposals |->
                     IF p \in Promotable(s, accepted[s])
                     THEN [threats[s][p] EXCEPT !.type = TypeFor(s, p), !.name = NameFor(s, p)]
                     ELSE threats[s][p]]]
    /\ pc' = [pc EXCEPT ![s] = "done"]
    /\ Forget(s)
    /\ UNCHANGED <<accepted, todo, row, lost, mishaps>>

\* What the accept wrote is undone; the session is in review as before.
Rollback(s) ==
    /\ rows' = [id \in {i \in DOMAIN rows : rows[i].writer # s} |-> rows[id]]
    /\ pc' = [pc EXCEPT ![s] = "review"]
    /\ todo' = [todo EXCEPT ![s] = {}]
    /\ row' = [row EXCEPT ![s] = None]
    /\ lost' = [lost EXCEPT ![s] = None]
    /\ accepted' = [accepted EXCEPT ![s] = {}]
    /\ Forget(s)
    /\ UNCHANGED threats

\* The winner of the lost insert is gone: the error goes to the caller.
NoWinner(s) == lost[s] # None /\ Winners(s) = {} /\ Rollback(s) /\ UNCHANGED mishaps

WaitsFor(s, u) == Working(s) /\ \E key \in Wants(s, row[s]) : u \in Holders(s, key)

\* (mutation) nobody resolves a deadlock
VictimNever(s) == FALSE

\* The database picks a victim of a circle of waits; its accept fails.
Victim(s) ==
    \E circle \in SUBSET Sessions : \E next \in [circle -> circle] :
        /\ s \in circle /\ {next[u] : u \in circle} = circle
        /\ \A u \in circle : WaitsFor(u, next[u])

Deadlocked(s) == Victim(s) /\ Rollback(s) /\ UNCHANGED mishaps

\* The request dies or its connection does.
Fail(s) ==
    /\ pc[s] = "promote"
    /\ mishaps.failures < MaxFailures
    /\ mishaps' = [mishaps EXCEPT !.failures = @ + 1]
    /\ Rollback(s)

\* A curator switches an entry off.
SwitchOff ==
    /\ mishaps.curations < MaxCurations
    /\ mishaps' = [mishaps EXCEPT !.curations = @ + 1]
    /\ \E id \in DOMAIN rows :
        /\ rows[id].active /\ rows[id].writer = Committed /\ KeyOf(id).kind # "link"
        /\ rows' = [rows EXCEPT ![id].active = FALSE]
        /\ stale' = [s \in Sessions |-> IF pc[s] = "promote" THEN stale[s] \union {id} ELSE {}]
    /\ UNCHANGED <<threats, pc, acceptVars>>

-----------------------------------------------------------------------------
Init ==
    /\ rows = [id \in SeedRows |-> [active |-> TRUE, writer |-> Committed]]
    /\ threats = [s \in Sessions |-> [p \in Proposals |-> Unmatched(p)]]
    /\ pc = [s \in Sessions |-> "new"]
    /\ accepted = [s \in Sessions |-> {}]
    /\ todo = [s \in Sessions |-> {}]
    /\ row = [s \in Sessions |-> None]
    /\ lost = [s \in Sessions |-> None]
    /\ memo = [s \in Sessions |-> [k \in {} |-> None]]
    /\ stale = [s \in Sessions |-> {}]
    /\ mishaps = [failures |-> 0, curations |-> 0]

Promote(s) == Upsert(s) \/ Lookup(s) \/ RowDone(s) \/ Commit(s) \/ NoWinner(s) \/ Deadlocked(s)

Next ==
    \/ \E s \in Sessions : Ground(s) \/ BeginAccept(s) \/ Promote(s) \/ Fail(s)
    \/ SwitchOff

\* A request that was begun is worked on; the database resolves deadlocks and lets nobody
\* overtake a transaction that waits for a key again and again.
Spec == Init /\ [][Next]_vars /\ \A s \in Sessions : SF_vars(Promote(s))

-----------------------------------------------------------------------------
(* Properties.                                                             *)

\* The type invariant, with the unique index: one active row per natural key.
TypeOK ==
    /\ \A id \in DOMAIN rows :
        rows[id].active \in BOOLEAN /\ rows[id].writer \in Sessions \union {Committed}
    /\ \A a, b \in DOMAIN rows :
        KeyOf(a) = KeyOf(b) /\ rows[a].active /\ rows[b].active => a = b
    /\ pc \in [Sessions -> {"new", "review", "promote", "done"}]
    /\ \A s \in Sessions : todo[s] \subseteq accepted[s] /\ accepted[s] \subseteq Proposals
    /\ \A s \in Sessions : row[s] = None \/ row[s] \in todo[s]

\* A threat's ids are those of committed rows, also when the accept that stored them
\* took them from another accept, and its name is one of its type's.
PointersHold ==
    \A s \in Sessions, p \in Proposals :
        LET t == threats[s][p]
        IN  /\ \A id \in {t.type, t.name} \ {None} :
                id \in DOMAIN rows /\ rows[id].writer = Committed
            /\ t.name # None => KeyOf(t.name).type = t.type

Promoted(s) == {p \in accepted[s] : pc[s] = "done" /\ threats[s][p].band = "flagged"}
SwitchedOff(key) == \E id \in RowsOf(key) : ~rows[id].active
ParentSector(s) ==
    IF DOMAIN SectorIds[s] = {} THEN None ELSE SectorIds[s][Cardinality(DOMAIN SectorIds[s])]

\* "the loser gets back the winner's id instead of a crash" (dal.py): sessions under one
\* parent sector that promoted the same proposal, at whatever time, point to the same new
\* type, and those of one type to the same name, unless a curator switched one off.
LoserGetsWinner ==
    \A s, u \in Sessions : ParentSector(s) = ParentSector(u) =>
        \A p \in Promoted(s) \intersect Promoted(u) :
            LET a == threats[s][p]
                b == threats[u][p]
            IN  /\ ~a.validated /\ ~b.validated =>
                     a.type = b.type \/ SwitchedOff(KeyOf(a.type))
                /\ a.type = b.type /\ p.name # None =>
                     a.name = b.name \/ SwitchedOff(KeyOf(a.name))

\* The library grows by what reviewers accepted: each new committed type or name was
\* proposed by a flagged threat whose scenario a completed accept took; excluded and
\* unselected threats, and accepts that failed, leave nothing.
OnlyAcceptedGrow ==
    \A id \in DOMAIN rows \ SeedRows :
        rows[id].writer = Committed /\ KeyOf(id).kind \in {"type", "name"} =>
            \E s \in Sessions : \E p \in Promoted(s) :
                \/ KeyOf(id).kind = "type" /\ threats[s][p].type = id
                \/ KeyOf(id).kind = "name" /\ threats[s][p].name = id

\* Actors that the LLM invents never reach the library; one that a curator switched off
\* after the threat was grounded comes back as a new row.
ActorsNeverInvented ==
    \A id \in DOMAIN rows \ SeedRows :
        KeyOf(id).kind = "actor" => SwitchedOff(KeyOf(id))

\* "a deactivated parent must block accept before a new active catalogue gets created
\* under it" (accept.py): a name is only added under an inactive type when the type was
\* switched off after the accept had checked its masters.
ParentWasActive ==
    [][\A id \in DOMAIN rows' \ DOMAIN rows :
        KeyOf(id).kind = "name" =>
            rows[KeyOf(id).type].active \/ KeyOf(id).type \in stale[rows'[id].writer]]_vars

\* Accepts do not wait for each other for ever, in whatever order they promote.
AcceptEnds ==
    \A s \in Sessions : pc[s] = "promote" ~> pc[s] \in {"review", "done"}
=============================================================================

---------------------------- MODULE LibraryProofs ----------------------------
(***************************************************************************)
(* Proofs about Library, for every value of the constants: the natural     *)
(* keys stay unique, the ids that threats hold are those of committed      *)
(* rows, and no name is added under a type that was inactive when the      *)
(* accept checked.  The strengthening says where rows come from: what an   *)
(* accept remembers is committed or its own (MemoOK), only an accept that  *)
(* runs has rows of its own (WritersOK), a row that is done has its ids    *)
(* (AcceptedOK), and the types it uses were active once (MastersOK).       *)
(* A second one, GInv, adds what rows and threats have to do with what was *)
(* proposed: from it follow what the library grows by and that sessions    *)
(* which promote the same proposal share its entries.                      *)
(***************************************************************************)
EXTENDS Library, FiniteSetTheorems, TLAPS

RowsOK ==
    /\ rows \in [DOMAIN rows -> [active : BOOLEAN, writer : Sessions \union {Committed}]]
    /\ IsFiniteSet(DOMAIN rows)
    /\ None \notin DOMAIN rows

UniqueOK ==
    \A a, b \in DOMAIN rows :
        KeyOf(a) = KeyOf(b) /\ rows[a].active /\ rows[b].active => a = b

ControlOK ==
    /\ pc \in [Sessions -> {"new", "review", "promote", "done"}]
    /\ accepted \in [Sessions -> SUBSET Proposals]
    /\ todo \in [Sessions -> SUBSET Proposals]
    /\ \A s \in Sessions : todo[s] \subseteq accepted[s] /\ (row[s] = None \/ row[s] \in todo[s])
    /\ DOMAIN row = Sessions /\ DOMAIN lost = Sessions
    /\ DOMAIN memo = Sessions /\ DOMAIN stale = Sessions

MemoOK ==
    \A s \in Sessions : \A k \in DOMAIN memo[s] :
        /\ pc[s] = "promote"
        /\ memo[s][k] \in DOMAIN rows /\ KeyOf(memo[s][k]) = k
        /\ rows[memo[s][k]].writer \in {s, Committed}

LostOK ==
    \A s \in Sessions : lost[s] # None =>
        lost[s] \notin DOMAIN memo[s] /\ pc[s] = "promote" /\ row[s] # None

WritersOK ==
    \A id \in DOMAIN rows : rows[id].writer # Committed => pc[rows[id].writer] = "promote"

Fields == {"band", "type", "name", "actors", "validated"}

ThreatsOK ==
    /\ DOMAIN threats = Sessions
    /\ \A s \in Sessions : DOMAIN threats[s] = Proposals
    /\ \A s \in Sessions, p \in Proposals :
        /\ DOMAIN threats[s][p] = Fields
        /\ threats[s][p].name # None => threats[s][p].type # None

AcceptedOK ==
    \A s \in Sessions : pc[s] = "promote" =>
        \A p \in accepted[s] \ todo[s] :
            TypeFor(s, p) # None /\ (p.name # None => NameKey(s, p) \in DOMAIN memo[s])

Checked(s, id) == id \in DOMAIN rows /\ (rows[id].active \/ id \in stale[s])

MastersOK ==
    \A s \in Sessions : pc[s] = "promote" =>
        /\ \A k \in DOMAIN memo[s] : Checked(s, memo[s][k])
        /\ \A p \in Proposals : threats[s][p].type # None => Checked(s, threats[s][p].type)

IInv ==
    /\ RowsOK /\ UniqueOK /\ ControlOK /\ MemoOK /\ LostOK /\ WritersOK
    /\ ThreatsOK /\ PointersHold /\ AcceptedOK /\ MastersOK

-----------------------------------------------------------------------------
(* Lemmas about the operators.                                             *)

\* A new row's id is that of no row, not NULL, and of the row's natural key.
LEMMA FreshId ==
    ASSUME RowsOK, NEW key
    PROVE  Incarnate(key) \notin DOMAIN rows \union {None} /\ KeyOf(Incarnate(key)) = key
<1> DEFINE C == Cardinality(RowsOf(key))
           taken == RowsOf(key) \union {None}
           f == [n \in 1 .. C + 2 |-> <<key, n>>]
<1>1. IsFiniteSet(RowsOf(key)) /\ C \in Nat
  BY FS_Subset, FS_CardinalityType DEF RowsOK, RowsOf
<1>2. IsFiniteSet(taken) /\ Cardinality(taken) < C + 2
  <2>1. IsFiniteSet(taken) /\ Cardinality(taken) \in {C, C + 1}
    BY <1>1, FS_AddElement
  <2> QED BY <2>1, <1>1
<1>3. IsFiniteSet(1 .. C + 2) /\ Cardinality(1 .. C + 2) = C + 2
  <2>1. 1 \in Int /\ C + 2 \in Int /\ ~(1 > C + 2) /\ (C + 2) - 1 + 1 = C + 2
    BY <1>1
  <2> HIDE DEF C
  <2> QED BY <2>1, FS_Interval
<1>4. \E n \in 1 .. C + 2 : <<key, n>> \notin DOMAIN rows \union {None}
  <2> SUFFICES ASSUME \A n \in 1 .. C + 2 : <<key, n>> \in DOMAIN rows \union {None}
               PROVE  FALSE
    OBVIOUS
  <2>1. f \in [1 .. C + 2 -> taken]
    BY DEF RowsOf, KeyOf
  <2>2. \E x, y \in 1 .. C + 2 : x # y /\ f[x] = f[y]
    <3> HIDE DEF f, taken, C
    <3> QED BY <2>1, <1>2, <1>3, FS_PigeonHole
  <2> QED BY <2>2
<1> QED BY <1>4 DEF Incarnate, KeyOf

\* Replacing two fields of a record.
LEMMA Repointed ==
    ASSUME NEW r, DOMAIN r = Fields, NEW a, NEW b
    PROVE  LET new == [r EXCEPT !.type = a, !.name = b]
           IN  /\ new.type = a /\ new.name = b /\ DOMAIN new = Fields
               /\ new.band = r.band /\ new.actors = r.actors /\ new.validated = r.validated
BY DEF Fields

\* The commit re-points the promotable threats of its session and changes no other.
LEMMA Committing ==
    ASSUME ThreatsOK, ControlOK, NEW s \in Sessions, Commit(s)
    PROVE  /\ DOMAIN threats' = Sessions /\ DOMAIN threats'[s] = Proposals
           /\ \A u \in Sessions \ {s} : threats'[u] = threats[u]
           /\ \A p \in Proposals \ Promotable(s, accepted[s]) : threats'[s][p] = threats[s][p]
           /\ \A p \in Promotable(s, accepted[s]) :
                /\ p \in Proposals /\ DOMAIN threats'[s][p] = Fields
                /\ threats'[s][p].type = TypeFor(s, p) /\ threats'[s][p].name = NameFor(s, p)
                /\ threats'[s][p].band = threats[s][p].band
                /\ threats'[s][p].actors = threats[s][p].actors
                /\ threats'[s][p].validated = threats[s][p].validated
<1>1. /\ DOMAIN threats' = Sessions /\ DOMAIN threats'[s] = Proposals
      /\ \A u \in Sessions \ {s} : threats'[u] = threats[u]
      /\ \A p \in Proposals \ Promotable(s, accepted[s]) : threats'[s][p] = threats[s][p]
      /\ \A p \in Promotable(s, accepted[s]) :
            threats'[s][p] = [threats[s][p] EXCEPT !.type = TypeFor(s, p), !.name = NameFor(s, p)]
  BY DEF Commit, ThreatsOK, ControlOK, Promotable
<1>2. ASSUME NEW p \in Promotable(s, accepted[s])
      PROVE  /\ p \in Proposals /\ DOMAIN threats'[s][p] = Fields
             /\ threats'[s][p].type = TypeFor(s, p) /\ threats'[s][p].name = NameFor(s, p)
             /\ threats'[s][p].band = threats[s][p].band
             /\ threats'[s][p].actors = threats[s][p].actors
             /\ threats'[s][p].validated = threats[s][p].validated
  <2>1. p \in Proposals /\ DOMAIN threats[s][p] = Fields
    BY DEF ThreatsOK, ControlOK, Promotable
  <2> DEFINE r == threats[s][p]
             a == TypeFor(s, p)
             b == NameFor(s, p)
  <2>2. threats'[s][p] = [r EXCEPT !.type = a, !.name = b] /\ DOMAIN r = Fields
    BY <1>1, <2>1
  <2> HIDE DEF r, a, b
  <2>3. /\ DOMAIN threats'[s][p] = Fields /\ threats'[s][p].type = a /\ threats'[s][p].name = b
        /\ threats'[s][p].band = r.band /\ threats'[s][p].actors = r.actors
        /\ threats'[s][p].validated = r.validated
    BY <2>2, Repointed
  <2> QED BY <2>1, <2>3 DEF r, a, b
<1> QED BY <1>1, <1>2

\* The upserts that a threat still wants are of keys the accept has no id for.
LEMMA WantsNew ==
    ASSUME RowsOK, MemoOK, NEW s \in Sessions, NEW p, NEW key \in Wants(s, p)
    PROVE  key \notin DOMAIN memo[s]
<1>1. CASE TypeFor(s, p) = None
  BY <1>1 DEF Wants, TypeFor, MemoOK, RowsOK
<1>2. CASE TypeFor(s, p) # None
  BY <1>2 DEF Wants
<1> QED BY <1>1, <1>2

\* Nothing wanted: the threat has its ids.
LEMMA WantsNothing ==
    ASSUME NEW s, NEW p, Wants(s, p) = {}
    PROVE  TypeFor(s, p) # None /\ (p.name # None => NameKey(s, p) \in DOMAIN memo[s])
BY DEF Wants

\* What Remember does to memo.
LEMMA Remembered ==
    ASSUME ControlOK, NEW s \in Sessions, NEW key, NEW id, Remember(s, key, id)
    PROVE  /\ DOMAIN memo' = Sessions
           /\ \A u \in Sessions \ {s} : memo'[u] = memo[u]
           /\ DOMAIN memo'[s] = DOMAIN memo[s] \union {key}
           /\ memo'[s][key] = id
           /\ \A k \in DOMAIN memo[s] \ {key} : memo'[s][k] = memo[s][k]
BY DEF Remember, ControlOK

\* An id that is known stays so when more are remembered.
LEMMA IdsStay ==
    ASSUME ControlOK, NEW s \in Sessions, NEW key, NEW id, key \notin DOMAIN memo[s],
           Remember(s, key, id), UNCHANGED threats, NEW p, TypeFor(s, p) # None
    PROVE  TypeFor(s, p)' = TypeFor(s, p) /\ NameKey(s, p)' = NameKey(s, p)
<1>1. TypeFor(s, p)' = TypeFor(s, p)
  BY Remembered DEF TypeFor, TypeKey
<1> QED BY <1>1 DEF NameKey

\* What an insert does to the library.
LEMMA Inserted ==
    ASSUME RowsOK, NEW s \in Sessions, NEW key, Insert(s, key)
    PROVE  \E new : /\ new \notin DOMAIN rows /\ new # None /\ KeyOf(new) = key
                    /\ DOMAIN rows' = DOMAIN rows \union {new}
                    /\ rows'[new] = [active |-> TRUE, writer |-> s]
                    /\ \A id \in DOMAIN rows : rows'[id] = rows[id]
                    /\ Remember(s, key, new)
                    /\ RowsOK'
<1>1. PICK new : new = Incarnate(key)
  OBVIOUS
<1>2. new \notin DOMAIN rows /\ new # None /\ KeyOf(new) = key
  BY <1>1, FreshId
<1>3. rows' = [id \in DOMAIN rows \union {new} |->
                  IF id = new THEN [active |-> TRUE, writer |-> s] ELSE rows[id]]
  BY <1>1 DEF Insert
<1>4. IsFiniteSet(DOMAIN rows \union {new})
  BY FS_AddElement DEF RowsOK
<1>5. RowsOK'
  BY <1>2, <1>3, <1>4 DEF RowsOK
<1> QED BY <1>1, <1>2, <1>3, <1>5 DEF Insert

-----------------------------------------------------------------------------
(* The invariant holds at first and each action preserves it.              *)

LEMMA InitInv == Init => IInv
<1> SUFFICES ASSUME Init PROVE IInv
  OBVIOUS
<1>1. RowsOK /\ UniqueOK
  BY NamesAssumption, SeedsAssumption DEF Init, RowsOK, UniqueOK, KeyOf
<1>2. ControlOK /\ MemoOK /\ LostOK /\ WritersOK
  BY DEF Init, ControlOK, MemoOK, LostOK, WritersOK
<1>3. ThreatsOK /\ PointersHold
  BY DEF Init, ThreatsOK, PointersHold, Unmatched, Fields
<1>4. AcceptedOK /\ MastersOK
  BY DEF Init, AcceptedOK, MastersOK
<1> QED BY <1>1, <1>2, <1>3, <1>4 DEF IInv

LEMMA InsertStep ==
    ASSUME IInv, NEW s \in Sessions, Working(s), NEW key \in Wants(s, row[s]), Insert(s, key),
           UNCHANGED <<threats, pc, accepted, todo, row, stale, mishaps>>
    PROVE  IInv'
<1> USE DEF IInv
<1>1. PICK new : /\ new \notin DOMAIN rows /\ new # None /\ KeyOf(new) = key
                 /\ DOMAIN rows' = DOMAIN rows \union {new}
                 /\ rows'[new] = [active |-> TRUE, writer |-> s]
                 /\ \A id \in DOMAIN rows : rows'[id] = rows[id]
                 /\ Remember(s, key, new)
                 /\ RowsOK'
  BY Inserted
<1>2. /\ DOMAIN memo' = Sessions
      /\ \A u \in Sessions \ {s} : memo'[u] = memo[u]
      /\ DOMAIN memo'[s] = DOMAIN memo[s] \union {key}
      /\ memo'[s][key] = new
      /\ \A k \in DOMAIN memo[s] \ {key} : memo'[s][k] = memo[s][k]
  BY <1>1, Remembered
<1>3. key \notin DOMAIN memo[s]
  BY WantsNew
<1>4. pc[s] = "promote" /\ UNCHANGED lost /\ ActiveRows(key) = {}
  BY DEF Working, Insert
<1>5. UniqueOK'
  BY <1>1, <1>4 DEF UniqueOK, ActiveRows, RowsOf
<1>6. ControlOK'
  BY <1>2, <1>4 DEF ControlOK
<1>7. MemoOK'
  BY <1>1, <1>2, <1>4 DEF MemoOK
<1>8. LostOK'
  BY <1>2, <1>4 DEF LostOK, Working
<1>9. WritersOK' /\ ThreatsOK' /\ PointersHold'
  BY <1>1, <1>4, NamesAssumption DEF WritersOK, ThreatsOK, PointersHold
<1>10. AcceptedOK'
  <2> SUFFICES ASSUME NEW u \in Sessions, pc[u] = "promote", NEW p \in accepted[u] \ todo[u]
               PROVE  TypeFor(u, p)' # None /\ (p.name # None => NameKey(u, p)' \in DOMAIN memo'[u])
    BY DEF AcceptedOK
  <2>1. TypeFor(u, p) # None /\ (p.name # None => NameKey(u, p) \in DOMAIN memo[u])
    BY DEF AcceptedOK
  <2>2. CASE u = s
    BY <2>1, <2>2, <1>1, <1>2, <1>3, IdsStay
  <2>3. CASE u # s
    BY <2>1, <2>3, <1>2 DEF TypeFor, TypeKey, NameKey
  <2> QED BY <2>2, <2>3
<1>11. MastersOK'
  BY <1>1, <1>2, <1>3 DEF MastersOK, Checked
<1> QED BY <1>1, <1>5, <1>6, <1>7, <1>8, <1>9, <1>10, <1>11

\* A link that is there, and the winner of a lost insert: a row is remembered.
LEMMA RememberStep ==
    ASSUME IInv, NEW s \in Sessions, pc[s] = "promote", NEW key, key \notin DOMAIN memo[s],
           NEW id \in ActiveRows(key), Sees(s, id), Remember(s, key, id),
           DOMAIN lost' = Sessions, lost'[s] = None, \A u \in Sessions \ {s} : lost'[u] = lost[u],
           UNCHANGED <<rows, threats, pc, accepted, todo, row, stale, mishaps>>
    PROVE  IInv'
<1> USE DEF IInv
<1>1. /\ DOMAIN memo' = Sessions
      /\ \A u \in Sessions \ {s} : memo'[u] = memo[u]
      /\ DOMAIN memo'[s] = DOMAIN memo[s] \union {key}
      /\ memo'[s][key] = id
      /\ \A k \in DOMAIN memo[s] \ {key} : memo'[s][k] = memo[s][k]
  BY Remembered
<1>2. id \in DOMAIN rows /\ KeyOf(id) = key /\ rows[id].active
  BY DEF ActiveRows, RowsOf
<1>3. RowsOK' /\ UniqueOK' /\ WritersOK' /\ ThreatsOK' /\ PointersHold'
  BY DEF RowsOK, UniqueOK, WritersOK, ThreatsOK, PointersHold
<1>4. ControlOK' /\ LostOK'
  BY <1>1 DEF ControlOK, LostOK
<1>5. MemoOK'
  BY <1>1, <1>2 DEF MemoOK, Sees
<1>6. AcceptedOK'
  <2> SUFFICES ASSUME NEW u \in Sessions, pc[u] = "promote", NEW p \in accepted[u] \ todo[u]
               PROVE  TypeFor(u, p)' # None /\ (p.name # None => NameKey(u, p)' \in DOMAIN memo'[u])
    BY DEF AcceptedOK
  <2>1. TypeFor(u, p) # None /\ (p.name # None => NameKey(u, p) \in DOMAIN memo[u])
    BY DEF AcceptedOK
  <2>2. CASE u = s
    BY <2>1, <2>2, <1>1, IdsStay
  <2>3. CASE u # s
    BY <2>1, <2>3, <1>1 DEF TypeFor, TypeKey, NameKey
  <2> QED BY <2>2, <2>3
<1>7. MastersOK'
  BY <1>1, <1>2 DEF MastersOK, Checked
<1> QED BY <1>3, <1>4, <1>5, <1>6, <1>7

LEMMA UpsertStep ==
    ASSUME IInv, NEW s \in Sessions, Upsert(s)
    PROVE  IInv'
<1>1. PICK key \in Wants(s, row[s]) : Insert(s, key) \/ Lose(s, key) \/ LinkIsThere(s, key)
  BY DEF Upsert
<1>2. key \notin DOMAIN memo[s]
  BY WantsNew DEF IInv
<1>3. Working(s) /\ UNCHANGED <<threats, pc, accepted, todo, row, stale, mishaps>>
  BY DEF Upsert
<1>4. CASE Insert(s, key)
  BY <1>3, <1>4, InsertStep
<1>5. CASE Lose(s, key)
  <2> USE DEF IInv
  <2>1. /\ lost' = [lost EXCEPT ![s] = key] /\ UNCHANGED <<rows, memo>>
        /\ pc[s] = "promote" /\ row[s] # None
    BY <1>3, <1>5 DEF Lose, Working
  <2>2. RowsOK' /\ UniqueOK' /\ MemoOK' /\ WritersOK' /\ ThreatsOK' /\ PointersHold' /\ MastersOK'
    BY <1>3, <2>1 DEF RowsOK, UniqueOK, MemoOK, WritersOK, ThreatsOK, PointersHold, MastersOK, Checked
  <2>3. ControlOK' /\ LostOK'
    BY <1>2, <1>3, <2>1 DEF ControlOK, LostOK
  <2>4. AcceptedOK'
    BY <1>3, <2>1 DEF AcceptedOK, TypeFor, TypeKey, NameKey
  <2> QED BY <2>2, <2>3, <2>4
<1>6. CASE LinkIsThere(s, key)
  <2>1. PICK id \in ActiveRows(key) : Remember(s, key, id)
    BY <1>6 DEF LinkIsThere
  <2>2. Holders(s, key) = {} /\ UNCHANGED <<rows, lost>> /\ lost[s] = None /\ pc[s] = "promote"
    BY <1>3, <1>6 DEF LinkIsThere, Working
  <2>3. Sees(s, id)
    BY <2>2 DEF Sees, Holders
  <2>4. DOMAIN lost' = Sessions /\ lost'[s] = None /\ \A u \in Sessions \ {s} : lost'[u] = lost[u]
    BY <2>2 DEF IInv, ControlOK
  <2> QED BY <1>2, <1>3, <2>1, <2>2, <2>3, <2>4, RememberStep
<1> QED BY <1>1, <1>4, <1>5, <1>6

LEMMA LookupStep ==
    ASSUME IInv, NEW s \in Sessions, Lookup(s)
    PROVE  IInv'
<1>1. PICK winner \in Winners(s) : Remember(s, lost[s], winner)
  BY DEF Lookup
<1>2. winner \in ActiveRows(lost[s]) /\ Sees(s, winner)
  BY DEF Winners
<1>3. /\ lost[s] \notin DOMAIN memo[s] /\ pc[s] = "promote"
      /\ DOMAIN lost' = Sessions /\ lost'[s] = None
      /\ \A u \in Sessions \ {s} : lost'[u] = lost[u]
      /\ UNCHANGED <<rows, threats, pc, accepted, todo, row, stale, mishaps>>
  BY DEF Lookup, IInv, LostOK, ControlOK
<1> QED BY <1>1, <1>2, <1>3, RememberStep

LEMMA RowDoneStep ==
    ASSUME IInv, NEW s \in Sessions, RowDone(s)
    PROVE  IInv'
<1> USE DEF IInv
<1>1. /\ pc[s] = "promote" /\ lost[s] = None
      /\ Wants(s, row[s]) = {} /\ row[s] \in todo[s]
      /\ todo' = [todo EXCEPT ![s] = @ \ {row[s]}]
      /\ UNCHANGED <<rows, threats, pc, accepted, lost, memo, stale, mishaps>>
  BY DEF RowDone, Working, ControlOK
<1>2. /\ DOMAIN row' = Sessions /\ \A u \in Sessions \ {s} : row'[u] = row[u]
      /\ row'[s] = None \/ row'[s] \in todo[s] \ {row[s]}
  BY DEF RowDone, NextRow, ControlOK
<1>3. RowsOK' /\ UniqueOK' /\ MemoOK' /\ LostOK' /\ WritersOK'
  BY <1>1, <1>2 DEF RowsOK, UniqueOK, MemoOK, LostOK, WritersOK
<1>4. ThreatsOK' /\ PointersHold' /\ MastersOK'
  BY <1>1 DEF ThreatsOK, PointersHold, MastersOK, Checked
<1>5. ControlOK'
  BY <1>1, <1>2 DEF ControlOK
<1>6. AcceptedOK'
  <2> SUFFICES ASSUME NEW u \in Sessions, pc[u] = "promote", NEW p \in accepted[u] \ todo'[u]
               PROVE  TypeFor(u, p) # None /\ (p.name # None => NameKey(u, p) \in DOMAIN memo[u])
    BY <1>1 DEF AcceptedOK, TypeFor, TypeKey, NameKey
  <2>1. CASE u = s /\ p = row[s]
    BY <1>1, <2>1, WantsNothing
  <2>2. CASE ~(u = s /\ p = row[s])
    BY <1>1, <2>2 DEF AcceptedOK, ControlOK
  <2> QED BY <2>1, <2>2
<1> QED BY <1>3, <1>4, <1>5, <1>6

\* Grounding reads committed rows only: the session has none of its own.
LEMMA GroundedOK ==
    ASSUME RowsOK, WritersOK, NEW s \in Sessions, pc[s] # "promote",
           NEW p, NEW t \in Groundings(s, p)
    PROVE  /\ DOMAIN t = Fields
           /\ \A id \in {t.type, t.name} \ {None} : id \in DOMAIN rows /\ rows[id].writer = Committed
           /\ t.name # None => KeyOf(t.name).type = t.type /\ t.type # None
<1>1. \A kind : \A id \in Active(s, kind) : id \in DOMAIN rows /\ rows[id].writer = Committed
  BY DEF Active, Sees, WritersOK
<1>2. CASE t = Unmatched(p)
  BY <1>2 DEF Unmatched, Fields
<1>3. CASE t # Unmatched(p)
  <2>1. PICK m \in PossibleTypes(s, p) \X (Verdicts \ {"flagged"}) : t \in Matched(s, p, m[1], m[2])
    BY <1>3 DEF Groundings
  <2>2. m[1] \in Active(s, "type")
    BY <2>1 DEF PossibleTypes
  <2>3. /\ DOMAIN t = Fields /\ t.type = m[1]
        /\ t.name = None \/ t.name \in PossibleNames(s, m[1])
    BY <2>1 DEF Matched, Fields
  <2>4. \A c \in PossibleNames(s, m[1]) : c \in Active(s, "name") /\ KeyOf(c).type = m[1]
    BY DEF PossibleNames
  <2>5. m[1] # None
    BY <1>1, <2>2 DEF RowsOK
  <2> QED BY <1>1, <2>2, <2>3, <2>4, <2>5
<1> QED BY <1>2, <1>3

LEMMA GroundStep ==
    ASSUME IInv, NEW s \in Sessions, Ground(s)
    PROVE  IInv'
<1> USE DEF IInv
<1>1. pc[s] = "new" /\ pc' = [pc EXCEPT ![s] = "review"]
      /\ UNCHANGED <<rows, accepted, todo, row, lost, memo, stale, mishaps>>
  BY DEF Ground, acceptVars
<1>2. PICK found : /\ DOMAIN found = Proposals
                   /\ \A p \in Proposals : found[p] \in Groundings(s, p)
                   /\ threats' = [threats EXCEPT ![s] = found]
  BY DEF Ground
<1>3. /\ DOMAIN threats' = Sessions /\ threats'[s] = found
      /\ \A u \in Sessions \ {s} : threats'[u] = threats[u]
  BY <1>2 DEF ThreatsOK
<1>4. \A u \in Sessions : pc'[u] = "promote" => u # s /\ pc[u] = "promote"
  BY <1>1 DEF ControlOK
<1>5. RowsOK' /\ UniqueOK' /\ ControlOK'
  BY <1>1 DEF RowsOK, UniqueOK, ControlOK
<1>6. MemoOK' /\ LostOK' /\ WritersOK'
  <2>1. \A u \in Sessions : pc[u] = "promote" => pc'[u] = "promote"
    BY <1>1 DEF ControlOK
  <2>2. \A id \in DOMAIN rows : rows[id].writer # Committed => rows[id].writer \in Sessions
    BY DEF RowsOK
  <2> QED BY <1>1, <2>1, <2>2 DEF MemoOK, LostOK, WritersOK
<1>7. ThreatsOK' /\ PointersHold'
  <2>1. \A p \in Proposals :
          /\ DOMAIN found[p] = Fields
          /\ \A id \in {found[p].type, found[p].name} \ {None} :
                id \in DOMAIN rows /\ rows[id].writer = Committed
          /\ found[p].name # None =>
                KeyOf(found[p].name).type = found[p].type /\ found[p].type # None
    BY <1>1, <1>2, GroundedOK
  <2> QED BY <1>1, <1>2, <1>3, <2>1 DEF ThreatsOK, PointersHold
<1>8. AcceptedOK' /\ MastersOK'
  BY <1>1, <1>3, <1>4 DEF AcceptedOK, MastersOK, Checked, TypeFor, TypeKey, NameKey
<1> QED BY <1>5, <1>6, <1>7, <1>8

LEMMA BeginAcceptStep ==
    ASSUME IInv, NEW s \in Sessions, BeginAccept(s)
    PROVE  IInv'
<1> USE DEF IInv
<1>1. /\ pc[s] = "review" /\ \A id \in Masters(s) : rows[id].active
      /\ pc' = [pc EXCEPT ![s] = "promote"]
      /\ UNCHANGED <<rows, threats, lost, memo, stale, mishaps>>
  BY DEF BeginAccept
<1>2. PICK A \in SUBSET {p \in Proposals : threats[s][p].band = "flagged"} :
          /\ accepted' = [accepted EXCEPT ![s] = A]
          /\ todo' = [todo EXCEPT ![s] = Promotable(s, A)]
          /\ NextRow(s, Promotable(s, A))
  BY DEF BeginAccept
<1>3. Promotable(s, A) = A
  BY DEF Promotable
<1>4. /\ DOMAIN row' = Sessions /\ \A u \in Sessions \ {s} : row'[u] = row[u]
      /\ row'[s] = None \/ row'[s] \in A
  BY <1>2, <1>3 DEF NextRow, ControlOK
<1>5. RowsOK' /\ UniqueOK' /\ ThreatsOK' /\ PointersHold'
  BY <1>1 DEF RowsOK, UniqueOK, ThreatsOK, PointersHold
<1>6. ControlOK'
  BY <1>1, <1>2, <1>3, <1>4 DEF ControlOK
<1>7. MemoOK' /\ LostOK' /\ WritersOK'
  <2>1. \A u \in Sessions : pc[u] = "promote" => pc'[u] = "promote"
    BY <1>1 DEF ControlOK
  <2>2. \A id \in DOMAIN rows : rows[id].writer # Committed => rows[id].writer \in Sessions
    BY DEF RowsOK
  <2> QED BY <1>1, <1>4, <2>1, <2>2 DEF MemoOK, LostOK, WritersOK
<1>8. AcceptedOK'
  BY <1>1, <1>2, <1>3 DEF AcceptedOK, ControlOK, TypeFor, TypeKey, NameKey
<1>9. MastersOK'
  <2>1. \A p \in Proposals : threats[s][p].type # None => Checked(s, threats[s][p].type)
    BY <1>1 DEF Masters, Checked, PointersHold
  <2>2. DOMAIN memo[s] = {}
    BY <1>1 DEF MemoOK
  <2> QED BY <1>1, <2>1, <2>2 DEF MastersOK, Checked, ControlOK
<1> QED BY <1>5, <1>6, <1>7, <1>8, <1>9

LEMMA CommitStep ==
    ASSUME IInv, NEW s \in Sessions, Commit(s)
    PROVE  IInv'
<1> USE DEF IInv
<1>1. /\ pc[s] = "promote" /\ todo[s] = {} /\ row[s] = None /\ lost[s] = None
      /\ pc' = [pc EXCEPT ![s] = "done"]
      /\ UNCHANGED <<accepted, todo, row, lost, mishaps>>
  BY DEF Commit, ControlOK, LostOK
<1>2. /\ DOMAIN rows' = DOMAIN rows
      /\ \A id \in DOMAIN rows : rows[id].writer = s =>
            rows'[id] = [active |-> rows[id].active, writer |-> Committed]
      /\ \A id \in DOMAIN rows : rows[id].writer # s => rows'[id] = rows[id]
  BY DEF Commit, RowsOK
<1>3. /\ DOMAIN memo' = Sessions /\ DOMAIN memo'[s] = {} /\ DOMAIN stale' = Sessions
      /\ \A u \in Sessions \ {s} : memo'[u] = memo[u] /\ stale'[u] = stale[u]
  BY DEF Commit, Forget, ControlOK
<1>4. RowsOK'
  <2>1. rows' = [id \in DOMAIN rows |-> rows'[id]]
    BY DEF Commit
  <2> QED BY <1>2, <2>1 DEF RowsOK
<1>5. UniqueOK'
  BY <1>2 DEF UniqueOK, RowsOK
<1>6. ControlOK' /\ LostOK'
  BY <1>1, <1>3 DEF ControlOK, LostOK
<1>7. MemoOK'
  BY <1>1, <1>2, <1>3 DEF MemoOK, ControlOK
<1>8. WritersOK'
  BY <1>1, <1>2, NamesAssumption DEF WritersOK, ControlOK, RowsOK
<1>9. /\ DOMAIN threats' = Sessions /\ DOMAIN threats'[s] = Proposals
      /\ \A u \in Sessions \ {s} : threats'[u] = threats[u]
      /\ \A p \in Proposals \ Promotable(s, accepted[s]) : threats'[s][p] = threats[s][p]
  BY Committing
<1>10. \A p \in Promotable(s, accepted[s]) :
          p \in Proposals /\ DOMAIN threats'[s][p] = Fields
          /\ threats'[s][p].type = TypeFor(s, p) /\ threats'[s][p].name = NameFor(s, p)
  BY Committing
<1>11. ThreatsOK'
  <2>1. \A p \in Promotable(s, accepted[s]) : TypeFor(s, p) # None
    BY <1>1 DEF AcceptedOK, Promotable, ControlOK
  <2>2. ASSUME NEW u \in Sessions, NEW p \in Proposals
        PROVE  /\ DOMAIN threats'[u][p] = Fields
               /\ threats'[u][p].name # None => threats'[u][p].type # None
    <3>1. CASE u = s /\ p \in Promotable(s, accepted[s])
      BY <3>1, <2>1, <1>10
    <3>2. CASE u # s \/ p \notin Promotable(s, accepted[s])
      <4>1. threats'[u][p] = threats[u][p]
        BY <3>2, <1>9
      <4> QED BY <4>1 DEF ThreatsOK
    <3> QED BY <3>1, <3>2
  <2>3. \A u \in Sessions : DOMAIN threats'[u] = Proposals
    BY <1>9 DEF ThreatsOK
  <2> QED BY <1>9, <2>2, <2>3 DEF ThreatsOK
<1>12. PointersHold'
  <2>1. \A id \in DOMAIN rows : rows[id].writer \in {s, Committed} =>
           id \in DOMAIN rows' /\ rows'[id].writer = Committed
    BY <1>2
  <2>2. ASSUME NEW p \in Promotable(s, accepted[s])
        PROVE  /\ \A id \in {TypeFor(s, p), NameFor(s, p)} \ {None} :
                     id \in DOMAIN rows /\ rows[id].writer \in {s, Committed}
               /\ NameFor(s, p) # None => KeyOf(NameFor(s, p)).type = TypeFor(s, p)
    <3>1. p \in Proposals /\ TypeFor(s, p) # None
          /\ (p.name # None => NameKey(s, p) \in DOMAIN memo[s])
      BY <1>1 DEF AcceptedOK, Promotable, ControlOK
    <3>2. TypeFor(s, p) \in DOMAIN rows /\ rows[TypeFor(s, p)].writer \in {s, Committed}
      BY <3>1 DEF TypeFor, PointersHold, MemoOK
    <3>3. CASE p.name # None
      <4>1. /\ NameFor(s, p) \in DOMAIN rows /\ rows[NameFor(s, p)].writer \in {s, Committed}
            /\ KeyOf(NameFor(s, p)) = NameKey(s, p)
        BY <3>1, <3>3 DEF NameFor, MemoOK
      <4> QED BY <3>2, <4>1 DEF NameKey, NameKeyOf
    <3>4. CASE p.name = None
      <4>1. NameFor(s, p) = threats[s][p].name
        BY <3>4 DEF NameFor
      <4>2. NameFor(s, p) # None => threats[s][p].type # None
        BY <4>1, <3>1 DEF ThreatsOK
      <4>3. threats[s][p].type # None => TypeFor(s, p) = threats[s][p].type
        BY DEF TypeFor
      <4> QED BY <3>1, <3>2, <4>1, <4>2, <4>3 DEF PointersHold
    <3> QED BY <3>3, <3>4
  <2>3. ASSUME NEW p \in Proposals
        PROVE  /\ \A id \in {threats'[s][p].type, threats'[s][p].name} \ {None} :
                     id \in DOMAIN rows' /\ rows'[id].writer = Committed
               /\ threats'[s][p].name # None => KeyOf(threats'[s][p].name).type = threats'[s][p].type
    <3>1. CASE p \in Promotable(s, accepted[s])
      BY <3>1, <2>1, <2>2, <1>10
    <3>2. CASE p \notin Promotable(s, accepted[s])
      <4>1. threats'[s][p] = threats[s][p]
        BY <3>2, <1>9
      <4>2. /\ \A id \in {threats[s][p].type, threats[s][p].name} \ {None} :
                  id \in DOMAIN rows /\ rows[id].writer = Committed
            /\ threats[s][p].name # None => KeyOf(threats[s][p].name).type = threats[s][p].type
        BY DEF PointersHold
      <4> QED BY <4>1, <4>2, <2>1
    <3> QED BY <3>1, <3>2
  <2>4. ASSUME NEW u \in Sessions \ {s}, NEW p \in Proposals
        PROVE  /\ \A id \in {threats'[u][p].type, threats'[u][p].name} \ {None} :
                     id \in DOMAIN rows' /\ rows'[id].writer = Committed
               /\ threats'[u][p].name # None => KeyOf(threats'[u][p].name).type = threats'[u][p].type
    <3>1. threats'[u][p] = threats[u][p]
      BY <1>9
    <3>2. /\ \A id \in {threats[u][p].type, threats[u][p].name} \ {None} :
                id \in DOMAIN rows /\ rows[id].writer = Committed
          /\ threats[u][p].name # None => KeyOf(threats[u][p].name).type = threats[u][p].type
      BY DEF PointersHold
    <3> QED BY <3>1, <3>2, <2>1
  <2> QED BY <2>3, <2>4 DEF PointersHold
<1>13. \A u \in Sessions : pc'[u] = "promote" => u # s /\ pc[u] = "promote"
  BY <1>1 DEF ControlOK
<1>14. AcceptedOK'
  <2> SUFFICES ASSUME NEW u \in Sessions, u # s, pc[u] = "promote", NEW p \in accepted[u] \ todo[u]
               PROVE  TypeFor(u, p)' # None /\ (p.name # None => NameKey(u, p)' \in DOMAIN memo'[u])
    BY <1>1, <1>13 DEF AcceptedOK
  <2>1. TypeFor(u, p)' = TypeFor(u, p) /\ NameKey(u, p)' = NameKey(u, p)
    BY <1>3, <1>9 DEF TypeFor, TypeKey, NameKey
  <2> QED BY <2>1, <1>3 DEF AcceptedOK
<1>15. MastersOK'
  <2>1. \A id \in DOMAIN rows : rows'[id].active = rows[id].active
    BY <1>2
  <2> QED BY <1>2, <1>3, <1>9, <1>13, <2>1 DEF MastersOK, Checked
<1> QED BY <1>4, <1>5, <1>6, <1>7, <1>8, <1>11, <1>12, <1>14, <1>15

LEMMA RollbackStep ==
    ASSUME IInv, NEW s \in Sessions, Rollback(s)
    PROVE  IInv'
<1> USE DEF IInv
<1>1. /\ pc' = [pc EXCEPT ![s] = "review"] /\ UNCHANGED threats
      /\ todo' = [todo EXCEPT ![s] = {}] /\ accepted' = [accepted EXCEPT ![s] = {}]
      /\ row' = [row EXCEPT ![s] = None] /\ lost' = [lost EXCEPT ![s] = None]
  BY DEF Rollback
<1>2. /\ DOMAIN rows' = {id \in DOMAIN rows : rows[id].writer # s}
      /\ \A id \in DOMAIN rows' : rows'[id] = rows[id]
  BY DEF Rollback
<1>3. /\ DOMAIN memo' = Sessions /\ DOMAIN memo'[s] = {} /\ DOMAIN stale' = Sessions
      /\ \A u \in Sessions \ {s} : memo'[u] = memo[u] /\ stale'[u] = stale[u]
  BY DEF Rollback, Forget, ControlOK
<1>4. RowsOK'
  <2>1. IsFiniteSet(DOMAIN rows')
    BY <1>2, FS_Subset DEF RowsOK
  <2>2. rows' = [id \in DOMAIN rows' |-> rows'[id]]
    BY DEF Rollback
  <2> QED BY <1>2, <2>1, <2>2 DEF RowsOK
<1>5. UniqueOK'
  BY <1>2 DEF UniqueOK
<1>6. ControlOK' /\ LostOK'
  BY <1>1, <1>3 DEF ControlOK, LostOK
<1>7. MemoOK'
  BY <1>1, <1>2, <1>3, NamesAssumption DEF MemoOK, ControlOK
<1>8. WritersOK'
  BY <1>1, <1>2 DEF WritersOK, ControlOK, RowsOK
<1>9. ThreatsOK' /\ PointersHold'
  BY <1>1, <1>2, NamesAssumption DEF ThreatsOK, PointersHold
<1>10. \A u \in Sessions : pc'[u] = "promote" => u # s /\ pc[u] = "promote"
  BY <1>1 DEF ControlOK
<1>11. AcceptedOK'
  BY <1>1, <1>3, <1>10 DEF AcceptedOK, ControlOK, TypeFor, TypeKey, NameKey
<1>12. MastersOK'
  <2> SUFFICES ASSUME NEW u \in Sessions \ {s}, pc[u] = "promote"
               PROVE  /\ \A k \in DOMAIN memo[u] : Checked(u, memo[u][k])'
                      /\ \A p \in Proposals : threats[u][p].type # None => Checked(u, threats[u][p].type)'
    BY <1>1, <1>3, <1>10 DEF MastersOK, Checked
  <2>1. \A k \in DOMAIN memo[u] : Checked(u, memo[u][k]) /\ rows[memo[u][k]].writer # s
    BY NamesAssumption DEF MastersOK, MemoOK
  <2>2. \A p \in Proposals : threats[u][p].type # None =>
            Checked(u, threats[u][p].type) /\ rows[threats[u][p].type].writer # s
    BY NamesAssumption DEF MastersOK, PointersHold
  <2> QED BY <1>1, <1>2, <1>3, <2>1, <2>2 DEF Checked
<1> QED BY <1>4, <1>5, <1>6, <1>7, <1>8, <1>9, <1>11, <1>12

LEMMA SwitchOffStep == IInv /\ SwitchOff => IInv'
<1> SUFFICES ASSUME IInv, SwitchOff
             PROVE  IInv'
  OBVIOUS
<1> USE DEF IInv
<1>1. PICK id \in DOMAIN rows :
          /\ rows[id].active /\ rows[id].writer = Committed
          /\ rows' = [rows EXCEPT ![id].active = FALSE]
          /\ stale' = [s \in Sessions |-> IF pc[s] = "promote" THEN stale[s] \union {id} ELSE {}]
  BY DEF SwitchOff
<1>2. UNCHANGED <<threats, pc, accepted, todo, row, lost, memo>>
  BY DEF SwitchOff, acceptVars
<1>3. /\ DOMAIN rows' = DOMAIN rows
      /\ rows'[id] = [active |-> FALSE, writer |-> Committed]
      /\ \A i \in DOMAIN rows \ {id} : rows'[i] = rows[i]
  BY <1>1 DEF RowsOK
<1>4. RowsOK'
  <2>1. rows' = [i \in DOMAIN rows |-> rows'[i]]
    BY <1>1 DEF RowsOK
  <2>2. \A i \in DOMAIN rows : rows'[i] \in [active : BOOLEAN, writer : Sessions \union {Committed}]
    <3> TAKE i \in DOMAIN rows
    <3>1. CASE i = id
      BY <3>1, <1>3
    <3>2. CASE i # id
      <4>1. rows'[i] = rows[i]
        BY <3>2, <1>3
      <4> QED BY <4>1 DEF RowsOK
    <3> QED BY <3>1, <3>2
  <2> QED BY <1>3, <2>1, <2>2 DEF RowsOK
<1>5. UniqueOK'
  BY <1>3 DEF UniqueOK
<1>6. ControlOK' /\ LostOK'
  BY <1>1, <1>2 DEF ControlOK, LostOK
<1>7. MemoOK' /\ WritersOK' /\ ThreatsOK' /\ PointersHold'
  BY <1>1, <1>2, <1>3 DEF MemoOK, WritersOK, ThreatsOK, PointersHold
<1>8. AcceptedOK'
  BY <1>2 DEF AcceptedOK, TypeFor, TypeKey, NameKey
<1>9. MastersOK'
  BY <1>1, <1>2, <1>3 DEF MastersOK, Checked
<1> QED BY <1>4, <1>5, <1>6, <1>7, <1>8, <1>9

LEMMA StepInv == IInv /\ [Next]_vars => IInv'
<1> SUFFICES ASSUME IInv, [Next]_vars
             PROVE  IInv'
  OBVIOUS
<1>1. ASSUME NEW s \in Sessions, Promote(s)
      PROVE  IInv'
  BY <1>1, UpsertStep, LookupStep, RowDoneStep, CommitStep, RollbackStep
     DEF Promote, NoWinner, Deadlocked
<1>2. ASSUME NEW s \in Sessions, Ground(s) \/ BeginAccept(s) \/ Fail(s)
      PROVE  IInv'
  BY <1>2, GroundStep, BeginAcceptStep, RollbackStep DEF Fail
<1>3. CASE SwitchOff
  BY <1>3, SwitchOffStep
<1>4. CASE UNCHANGED vars
  BY <1>4 DEF vars, acceptVars, IInv, RowsOK, UniqueOK, ControlOK, MemoOK, LostOK, WritersOK,
              ThreatsOK, PointersHold, AcceptedOK, MastersOK, Checked, TypeFor, TypeKey, NameKey
<1> QED BY <1>1, <1>2, <1>3, <1>4 DEF Next

LEMMA Inv == Spec => []IInv
<1> QED BY InitInv, StepInv, PTL DEF Spec

-----------------------------------------------------------------------------
(* The theorems.                                                           *)

\* The natural keys of the active rows are unique, whatever accepts and curators do
\* (the indexes of migration 0010 with the upserts of dal.py).
THEOREM LibraryTypeCorrect == Spec => []TypeOK
<1>1. IInv => TypeOK
  BY DEF IInv, TypeOK, RowsOK, UniqueOK, ControlOK
<1> QED BY <1>1, Inv, PTL

\* The ids a threat is left with by grounding and promotion are those of committed rows,
\* its name one of its type's: no accept that fails takes a row away from another.
THEOREM PointersAlwaysHold == Spec => []PointersHold
<1>1. IInv => PointersHold
  BY DEF IInv
<1> QED BY <1>1, Inv, PTL

\* The type under which an upsert adds a name, by where the type comes from.
LEMMA NamesUnderChecked ==
    ASSUME IInv, NEW s \in Sessions, Upsert(s), NEW id \in DOMAIN rows' \ DOMAIN rows,
           KeyOf(id).kind = "name"
    PROVE  rows'[id].writer = s /\ Checked(s, KeyOf(id).type)
<1> USE DEF IInv
<1>1. pc[s] = "promote" /\ row[s] \in Proposals
  BY DEF Upsert, Working, ControlOK
<1>2. PICK key \in Wants(s, row[s]) : Insert(s, key)
  BY DEF Upsert, Lose, LinkIsThere
<1>3. KeyOf(id) = key /\ rows'[id].writer = s
  <2>1. PICK new : /\ KeyOf(new) = key /\ DOMAIN rows' = DOMAIN rows \union {new}
                   /\ rows'[new] = [active |-> TRUE, writer |-> s]
    BY <1>2, Inserted
  <2> QED BY <2>1
<1>4. TypeFor(s, row[s]) # None /\ key = NameKey(s, row[s])
  <2>1. \A p : TypeKey(s, p).kind = "type"
    BY DEF TypeKey, TypeKeyOf
  <2>2. \A p, a : ActorOrLink(s, p, a).kind \in {"actor", "link"}
    BY DEF ActorOrLink, ActorKeyOf, LinkKeyOf
  <2>3. key.kind = "name"
    BY <1>3
  <2> QED BY <1>2, <2>1, <2>2, <2>3 DEF Wants
<1>5. KeyOf(id).type = TypeFor(s, row[s])
  BY <1>3, <1>4 DEF NameKey, NameKeyOf
<1>6. Checked(s, TypeFor(s, row[s]))
  BY <1>1, <1>4 DEF TypeFor, MastersOK
<1> QED BY <1>3, <1>5, <1>6

\* accept.py's promise about deactivated parents, up to curators who act after the check.
THEOREM ParentsChecked == Spec => ParentWasActive
<1>1. IInv /\ [Next]_vars =>
        [\A id \in DOMAIN rows' \ DOMAIN rows :
            KeyOf(id).kind = "name" =>
                rows[KeyOf(id).type].active \/ KeyOf(id).type \in stale[rows'[id].writer]]_vars
  <2> SUFFICES ASSUME IInv, [Next]_vars, NEW id \in DOMAIN rows' \ DOMAIN rows,
                      KeyOf(id).kind = "name"
               PROVE  rows[KeyOf(id).type].active \/ KeyOf(id).type \in stale[rows'[id].writer]
    OBVIOUS
  <2>1. CASE \E s \in Sessions : Upsert(s)
    BY <2>1, NamesUnderChecked DEF Checked
  <2>2. CASE ~\E s \in Sessions : Upsert(s)
    <3>1. DOMAIN rows' \subseteq DOMAIN rows
      BY <2>2 DEF Next, Promote, Ground, BeginAccept, Lookup, RowDone, Commit, NoWinner, Deadlocked,
                  Fail, Rollback, SwitchOff, vars
    <3> QED BY <3>1
  <2> QED BY <2>1, <2>2
<1> QED BY <1>1, Inv, PTL DEF Spec, ParentWasActive
-----------------------------------------------------------------------------
(* What the library grows by.  An accept knows its new types and names as  *)
(* those of the flagged threats it promotes (SourcesOK); actors are those  *)
(* that the library had when the threat was grounded (ActorsOK); and what  *)
(* was promoted points to rows of the keys that its proposal says          *)
(* (PromotedOK).                                                           *)

\* Row id is the type, or the name, that the running accept of s added for proposal p.
AddedType(s, p, id) ==
    /\ p \in accepted[s] /\ threats[s][p].type = None
    /\ KeyOf(id) = TypeKey(s, p) /\ KeyOf(id) \in DOMAIN memo[s] /\ memo[s][KeyOf(id)] = id
AddedName(s, p, id) ==
    /\ p \in accepted[s] /\ p.name # None /\ TypeFor(s, p) # None
    /\ KeyOf(id) = NameKey(s, p) /\ KeyOf(id) \in DOMAIN memo[s] /\ memo[s][KeyOf(id)] = id

\* What accept takes is flagged.
FlaggedOK ==
    \A s \in Sessions : pc[s] = "promote" => \A p \in accepted[s] : threats[s][p].band = "flagged"

SourcesOK ==
    \A id \in DOMAIN rows \ SeedRows : rows[id].writer # Committed =>
        /\ KeyOf(id).kind = "type" => \E p \in Proposals : AddedType(rows[id].writer, p, id)
        /\ KeyOf(id).kind = "name" => \E p \in Proposals : AddedName(rows[id].writer, p, id)

ActorsOK ==
    /\ \A id \in DOMAIN rows : KeyOf(id).kind = "actor" => KeyOf(id) = ActorKeyOf(KeyOf(id).name)
    /\ \A id \in DOMAIN rows : ~rows[id].active => rows[id].writer = Committed
    /\ \A s \in Sessions, p \in Proposals : threats[s][p].validated =>
          \A a \in threats[s][p].actors :
             \E id \in DOMAIN rows : KeyOf(id) = ActorKeyOf(a) /\ rows[id].writer = Committed

PromotedOK ==
    \A s \in Sessions, p \in Proposals :
        LET t == threats[s][p]
        IN  /\ pc[s] # "done" /\ ~t.validated => t.type = None
            /\ p \in Promoted(s) =>
                 /\ t.type # None
                 /\ ~t.validated => KeyOf(t.type) = TypeKey(s, p)
                 /\ p.name # None =>
                      t.name # None /\ KeyOf(t.name) = NameKeyOf(t.type, p.name, DefaultSector(s))

GInv ==
    /\ IInv /\ FlaggedOK /\ SourcesOK /\ OnlyAcceptedGrow
    /\ ActorsOK /\ ActorsNeverInvented /\ PromotedOK

\* The steps that leave the library, the threats and what the accepts took as they are:
\* an accept that knows more ids still knows those of the rows it added.
LEMMA AcceptSteps ==
    ASSUME GInv, IInv', NEW s \in Sessions,
           \/ Lookup(s) \/ RowDone(s)
           \/ \E key \in Wants(s, row[s]) : /\ Lose(s, key) \/ LinkIsThere(s, key)
                                            /\ UNCHANGED <<threats, pc, accepted>>
    PROVE  GInv'
<1> USE DEF GInv, IInv
<1>1. UNCHANGED <<rows, threats, pc, accepted>>
  BY DEF Lookup, RowDone, Lose, LinkIsThere
<1>2. /\ DOMAIN memo' = Sessions
      /\ \A u \in Sessions \ {s} : memo'[u] = memo[u]
      /\ \A k \in DOMAIN memo[s] : k \in DOMAIN memo'[s] /\ memo'[s][k] = memo[s][k]
  <2>1. CASE UNCHANGED memo
    BY <2>1 DEF ControlOK
  <2>2. CASE \E key, id : key \notin DOMAIN memo[s] /\ Remember(s, key, id)
    BY <2>2, Remembered
  <2>3. UNCHANGED memo \/ \E key, id : key \notin DOMAIN memo[s] /\ Remember(s, key, id)
    BY WantsNew DEF Lookup, RowDone, Lose, LinkIsThere, LostOK
  <2> QED BY <2>1, <2>2, <2>3
<1>3. FlaggedOK' /\ ActorsOK' /\ ActorsNeverInvented' /\ OnlyAcceptedGrow'
  BY <1>1 DEF FlaggedOK, ActorsOK, ActorsNeverInvented, OnlyAcceptedGrow, SwitchedOff, RowsOf, Promoted
<1>4. PromotedOK'
  BY <1>1 DEF PromotedOK, Promoted, TypeKey
<1>5. ASSUME NEW u \in Sessions, NEW p \in Proposals, NEW id
      PROVE  /\ AddedType(u, p, id) => AddedType(u, p, id)'
             /\ AddedName(u, p, id) => AddedName(u, p, id)'
  <2>1. TypeKey(u, p)' = TypeKey(u, p)
    BY DEF TypeKey
  <2>2. TypeFor(u, p) # None => TypeFor(u, p)' = TypeFor(u, p) /\ NameKey(u, p)' = NameKey(u, p)
    BY <1>1, <1>2, <2>1 DEF TypeFor, NameKey
  <2> QED BY <1>1, <1>2, <2>1, <2>2 DEF AddedType, AddedName
<1>6. SourcesOK'
  BY <1>1, <1>5 DEF SourcesOK, RowsOK
<1> QED BY <1>3, <1>4, <1>6

\* An added type or name is one that the promoted proposal wants, an added actor one that
\* the library had when the threat was grounded.
LEMMA InsertGrowth ==
    ASSUME GInv, IInv', NEW s \in Sessions, Working(s), NEW key \in Wants(s, row[s]),
           Insert(s, key), UNCHANGED <<threats, pc, accepted, todo, row, stale, mishaps>>
    PROVE  GInv'
<1> USE DEF GInv, IInv
<1> DEFINE q == row[s]
<1>1. PICK new : /\ new \notin DOMAIN rows /\ KeyOf(new) = key
                 /\ DOMAIN rows' = DOMAIN rows \union {new}
                 /\ rows'[new] = [active |-> TRUE, writer |-> s]
                 /\ \A id \in DOMAIN rows : rows'[id] = rows[id]
                 /\ Remember(s, key, new)
  BY Inserted
<1>2. /\ \A u \in Sessions \ {s} : memo'[u] = memo[u]
      /\ key \in DOMAIN memo'[s] /\ memo'[s][key] = new
      /\ \A k \in DOMAIN memo[s] : k \in DOMAIN memo'[s] /\ memo'[s][k] = memo[s][k]
  BY <1>1, WantsNew, Remembered
<1>3. pc[s] = "promote" /\ q \in accepted[s] /\ q \in Proposals /\ ActiveRows(key) = {}
  BY DEF Working, ControlOK, Insert
<1>4. \A u \in Sessions, p \in Proposals : TypeKey(u, p)' = TypeKey(u, p)
  BY DEF TypeKey
<1>5. \A u \in Sessions, p \in Proposals : TypeFor(u, p) # None =>
          TypeFor(u, p)' = TypeFor(u, p) /\ NameKey(u, p)' = NameKey(u, p)
  BY <1>2, <1>4 DEF TypeFor, NameKey
<1>6. ASSUME NEW u \in Sessions, NEW p \in Proposals, NEW id
      PROVE  /\ AddedType(u, p, id) => AddedType(u, p, id)'
             /\ AddedName(u, p, id) => AddedName(u, p, id)'
  BY <1>2, <1>4, <1>5 DEF AddedType, AddedName
<1>7. /\ key.kind = "type" => TypeFor(s, q) = None /\ key = TypeKey(s, q)
      /\ key.kind = "name" => TypeFor(s, q) # None /\ q.name # None /\ key = NameKey(s, q)
      /\ key.kind = "actor" => \E a \in ActorsOf(s, q) : key = ActorKeyOf(a)
  <2>1. TypeKey(s, q).kind = "type" /\ NameKey(s, q).kind = "name"
    BY DEF TypeKey, TypeKeyOf, NameKey, NameKeyOf
  <2>2. \A a : \/ ActorOrLink(s, q, a) = ActorKeyOf(a) /\ ActorOrLink(s, q, a).kind = "actor"
               \/ ActorOrLink(s, q, a).kind = "link"
    BY DEF ActorOrLink, ActorKeyOf, LinkKeyOf
  <2> QED BY <2>1, <2>2 DEF Wants
<1>8. FlaggedOK' /\ PromotedOK'
  BY <1>4 DEF FlaggedOK, PromotedOK, Promoted
<1>9. SourcesOK'
  <2> SUFFICES ASSUME NEW id \in DOMAIN rows' \ SeedRows, rows'[id].writer # Committed
               PROVE  /\ KeyOf(id).kind = "type" =>
                           \E p \in Proposals : AddedType(rows[id].writer, p, id)'
                      /\ KeyOf(id).kind = "name" =>
                           \E p \in Proposals : AddedName(rows[id].writer, p, id)'
    BY DEF SourcesOK
  <2>1. CASE id = new
    <3>1. KeyOf(id).kind = "type" => AddedType(s, q, id)'
      BY <2>1, <1>1, <1>2, <1>3, <1>4, <1>7 DEF AddedType, TypeFor
    <3>2. KeyOf(id).kind = "name" => AddedName(s, q, id)'
      BY <2>1, <1>1, <1>2, <1>3, <1>5, <1>7 DEF AddedName
    <3> QED BY <2>1, <1>1, <1>3, <3>1, <3>2
  <2>2. CASE id # new
    <3>1. id \in DOMAIN rows /\ rows'[id] = rows[id] /\ rows[id].writer \in Sessions
      BY <2>2, <1>1 DEF RowsOK
    <3> QED BY <3>1, <1>6 DEF SourcesOK
  <2> QED BY <2>1, <2>2
<1>10. OnlyAcceptedGrow'
  BY <1>1, NamesAssumption DEF OnlyAcceptedGrow, Promoted
<1>11. ActorsOK'
  <2>1. key.kind = "actor" => key = ActorKeyOf(key.name)
    BY <1>7 DEF ActorKeyOf
  <2> QED BY <2>1, <1>1 DEF ActorsOK
<1>12. ActorsNeverInvented'
  <2>1. \A k : SwitchedOff(k) => SwitchedOff(k)'
    BY <1>1 DEF SwitchedOff, RowsOf
  <2>2. key.kind = "actor" => SwitchedOff(key)
    <3> SUFFICES ASSUME NEW a \in ActorsOf(s, q), key = ActorKeyOf(a)
                 PROVE  SwitchedOff(key)
      BY <1>7
    <3>1. threats[s][q].validated /\ a \in threats[s][q].actors
      BY DEF ActorsOf
    <3>2. PICK id \in DOMAIN rows : KeyOf(id) = ActorKeyOf(a)
      BY <3>1, <1>3 DEF ActorsOK
    <3> QED BY <3>2, <1>3 DEF ActiveRows, RowsOf, SwitchedOff
  <2> QED BY <1>1, <2>1, <2>2 DEF ActorsNeverInvented
<1> QED BY <1>8, <1>9, <1>10, <1>11, <1>12

\* Grounding validates actors against what the library has, and finds no type for a
\* threat it does not validate.
LEMMA GroundedActors ==
    ASSUME RowsOK, WritersOK, ActorsOK, NEW s \in Sessions, pc[s] # "promote",
           NEW p, NEW t \in Groundings(s, p)
    PROVE  /\ ~t.validated => t.type = None
           /\ t.validated => \A a \in t.actors : \E id \in DOMAIN rows :
                 KeyOf(id) = ActorKeyOf(a) /\ rows[id].writer = Committed
<1>1. CASE t = Unmatched(p)
  BY <1>1 DEF Unmatched
<1>2. CASE t # Unmatched(p)
  <2>1. PICK m \in PossibleTypes(s, p) \X (Verdicts \ {"flagged"}) : t \in Matched(s, p, m[1], m[2])
    BY <1>2 DEF Groundings
  <2>2. t.validated = TRUE /\ t.actors = p.actors \intersect AllowedActors(s, m[1])
    BY <2>1 DEF Matched
  <2>3. ASSUME NEW a \in AllowedActors(s, m[1])
        PROVE  \E id \in DOMAIN rows : KeyOf(id) = ActorKeyOf(a) /\ rows[id].writer = Committed
    <3>1. PICK id \in Active(s, "actor") : a = KeyOf(id).name
      BY DEF AllowedActors
    <3>2. id \in DOMAIN rows /\ rows[id].writer = Committed /\ KeyOf(id) = ActorKeyOf(a)
      BY <3>1 DEF Active, Sees, WritersOK, ActorsOK
    <3> QED BY <3>2
  <2> QED BY <2>2, <2>3
<1> QED BY <1>1, <1>2

LEMMA GroundGrowth ==
    ASSUME GInv, IInv', NEW s \in Sessions, Ground(s)
    PROVE  GInv'
<1> USE DEF GInv, IInv
<1>1. /\ pc[s] = "new" /\ pc' = [pc EXCEPT ![s] = "review"]
      /\ UNCHANGED <<rows, accepted, memo>>
  BY DEF Ground, acceptVars
<1>2. PICK found : /\ \A p \in Proposals : found[p] \in Groundings(s, p)
                   /\ threats' = [threats EXCEPT ![s] = found]
  BY DEF Ground
<1>3. threats'[s] = found /\ \A u \in Sessions \ {s} : threats'[u] = threats[u]
  BY <1>2 DEF ThreatsOK
<1>4. \A u \in Sessions : u # s => pc'[u] = pc[u]
  BY <1>1 DEF ControlOK
<1>5. pc'[s] = "review"
  BY <1>1 DEF ControlOK
<1>6. FlaggedOK'
  BY <1>1, <1>3, <1>4, <1>5 DEF FlaggedOK
<1>7. SourcesOK'
  <2>1. \A id \in DOMAIN rows : rows[id].writer # Committed => rows[id].writer \in Sessions \ {s}
    BY <1>1 DEF WritersOK, RowsOK
  <2>2. ASSUME NEW u \in Sessions \ {s}, NEW p \in Proposals, NEW id
        PROVE  AddedType(u, p, id)' = AddedType(u, p, id) /\ AddedName(u, p, id)' = AddedName(u, p, id)
    BY <1>1, <1>3 DEF AddedType, AddedName, TypeFor, TypeKey, NameKey
  <2> QED BY <1>1, <2>1, <2>2 DEF SourcesOK
<1>8. \A u \in Sessions : Promoted(u)' = Promoted(u) /\ (Promoted(u) # {} => u # s)
  BY <1>1, <1>3, <1>4, <1>5 DEF Promoted
<1>9. OnlyAcceptedGrow'
  BY <1>1, <1>3, <1>8 DEF OnlyAcceptedGrow
<1>10. ActorsOK' /\ PromotedOK'
  <2>1. \A p \in Proposals :
          /\ ~found[p].validated => found[p].type = None
          /\ found[p].validated => \A a \in found[p].actors : \E id \in DOMAIN rows :
                KeyOf(id) = ActorKeyOf(a) /\ rows[id].writer = Committed
    BY <1>1, <1>2, GroundedActors
  <2>2. ActorsOK'
    BY <1>1, <1>3, <2>1 DEF ActorsOK
  <2>3. PromotedOK'
    BY <1>3, <1>4, <1>8, <2>1 DEF PromotedOK, TypeKey
  <2> QED BY <2>2, <2>3
<1>11. ActorsNeverInvented'
  BY <1>1 DEF ActorsNeverInvented, SwitchedOff, RowsOf
<1> QED BY <1>6, <1>7, <1>9, <1>10, <1>11
LEMMA BeginAcceptGrowth ==
    ASSUME GInv, IInv', NEW s \in Sessions, BeginAccept(s)
    PROVE  GInv'
<1> USE DEF GInv, IInv
<1>1. /\ pc[s] = "review" /\ pc' = [pc EXCEPT ![s] = "promote"]
      /\ UNCHANGED <<rows, threats, memo>>
  BY DEF BeginAccept
<1>2. /\ \A p \in accepted'[s] : threats[s][p].band = "flagged"
      /\ \A u \in Sessions \ {s} : accepted'[u] = accepted[u]
  BY DEF BeginAccept, ControlOK
<1>3. pc'[s] = "promote" /\ \A u \in Sessions \ {s} : pc'[u] = pc[u]
  BY <1>1 DEF ControlOK
<1>4. FlaggedOK'
  BY <1>1, <1>2, <1>3 DEF FlaggedOK
<1>5. SourcesOK'
  <2>1. \A id \in DOMAIN rows : rows[id].writer # Committed => rows[id].writer \in Sessions \ {s}
    BY <1>1 DEF WritersOK, RowsOK
  <2>2. ASSUME NEW u \in Sessions \ {s}, NEW p \in Proposals, NEW id
        PROVE  AddedType(u, p, id)' = AddedType(u, p, id) /\ AddedName(u, p, id)' = AddedName(u, p, id)
    BY <1>1, <1>2 DEF AddedType, AddedName, TypeFor, TypeKey, NameKey
  <2> QED BY <1>1, <2>1, <2>2 DEF SourcesOK
<1>6. \A u \in Sessions : Promoted(u)' = Promoted(u)
  BY <1>1, <1>2, <1>3 DEF Promoted
<1>7. OnlyAcceptedGrow' /\ ActorsOK' /\ ActorsNeverInvented'
  BY <1>1, <1>6 DEF OnlyAcceptedGrow, ActorsOK, ActorsNeverInvented, SwitchedOff, RowsOf
<1>8. PromotedOK'
  <2>1. \A u \in Sessions : pc'[u] # "done" => pc[u] # "done"
    BY <1>1, <1>3
  <2> QED BY <1>1, <1>6, <2>1 DEF PromotedOK, TypeKey
<1> QED BY <1>4, <1>5, <1>7, <1>8

\* What the accept added is, when it commits, what its threats are re-pointed to.
LEMMA CommitGrowth ==
    ASSUME GInv, IInv', NEW s \in Sessions, Commit(s)
    PROVE  GInv'
<1> USE DEF GInv, IInv
<1>1. /\ pc[s] = "promote" /\ todo[s] = {} /\ UNCHANGED accepted
      /\ pc'[s] = "done" /\ \A u \in Sessions \ {s} : pc'[u] = pc[u]
      /\ \A u \in Sessions \ {s} : memo'[u] = memo[u]
  BY DEF Commit, Forget, ControlOK
<1>2. /\ DOMAIN rows' = DOMAIN rows
      /\ \A id \in DOMAIN rows : /\ rows'[id].active = rows[id].active
                                 /\ rows[id].writer = s => rows'[id].writer = Committed
                                 /\ rows[id].writer # s => rows'[id].writer = rows[id].writer
  BY DEF Commit, RowsOK
<1>3. \A p \in accepted[s] : p \in Proposals /\ p \in Promotable(s, accepted[s])
  BY <1>1 DEF FlaggedOK, Promotable, ControlOK
<1>4. \A u \in Sessions \ {s} : threats'[u] = threats[u]
  BY Committing
<1>5. \A p \in accepted[s] :
        /\ threats'[s][p].type = TypeFor(s, p) /\ threats'[s][p].name = NameFor(s, p)
        /\ threats'[s][p].band = "flagged"
        /\ threats'[s][p].validated = threats[s][p].validated
  BY <1>1, <1>3, Committing DEF FlaggedOK
<1>6. \A p \in Proposals : /\ threats'[s][p].validated = threats[s][p].validated
                           /\ threats'[s][p].actors = threats[s][p].actors
  BY Committing
<1>7. Promoted(s)' = accepted[s] /\ \A u \in Sessions \ {s} : Promoted(u)' = Promoted(u)
  BY <1>1, <1>4, <1>5 DEF Promoted
<1>8. FlaggedOK'
  BY <1>1, <1>4 DEF FlaggedOK
<1>9. SourcesOK'
  <2>1. \A id \in DOMAIN rows : rows'[id].writer # Committed =>
            rows'[id].writer = rows[id].writer /\ rows[id].writer \in Sessions \ {s}
    BY <1>2 DEF RowsOK
  <2>2. ASSUME NEW u \in Sessions \ {s}, NEW p \in Proposals, NEW id
        PROVE  AddedType(u, p, id)' = AddedType(u, p, id) /\ AddedName(u, p, id)' = AddedName(u, p, id)
    BY <1>1, <1>4 DEF AddedType, AddedName, TypeFor, TypeKey, NameKey
  <2> QED BY <1>2, <2>1, <2>2 DEF SourcesOK
<1>10. OnlyAcceptedGrow'
  <2> SUFFICES ASSUME NEW id \in DOMAIN rows \ SeedRows, rows'[id].writer = Committed,
                      KeyOf(id).kind \in {"type", "name"}
               PROVE  \E u \in Sessions : \E p \in Promoted(u)' :
                         \/ KeyOf(id).kind = "type" /\ threats'[u][p].type = id
                         \/ KeyOf(id).kind = "name" /\ threats'[u][p].name = id
    BY <1>2 DEF OnlyAcceptedGrow
  <2>1. CASE rows[id].writer = Committed
    <3>1. PICK u \in Sessions : \E p \in Promoted(u) :
                  \/ KeyOf(id).kind = "type" /\ threats[u][p].type = id
                  \/ KeyOf(id).kind = "name" /\ threats[u][p].name = id
      BY <2>1 DEF OnlyAcceptedGrow
    <3>2. u # s
      BY <1>1, <3>1 DEF Promoted
    <3> QED BY <1>4, <1>7, <3>1, <3>2
  <2>2. CASE rows[id].writer # Committed
    <3>1. rows[id].writer = s
      BY <1>2, <2>2
    <3>2. CASE KeyOf(id).kind = "type"
      <4>1. PICK p \in Proposals : AddedType(s, p, id)
        BY <2>2, <3>1, <3>2 DEF SourcesOK
      <4>2. p \in accepted[s] /\ TypeFor(s, p) = id
        BY <4>1 DEF AddedType, TypeFor
      <4> QED BY <1>5, <1>7, <3>2, <4>2
    <3>3. CASE KeyOf(id).kind = "name"
      <4>1. PICK p \in Proposals : AddedName(s, p, id)
        BY <2>2, <3>1, <3>3 DEF SourcesOK
      <4>2. p \in accepted[s] /\ NameFor(s, p) = id
        BY <4>1 DEF AddedName, NameFor
      <4> QED BY <1>5, <1>7, <3>3, <4>2
    <3> QED BY <3>2, <3>3
  <2> QED BY <2>1, <2>2
<1>11. ActorsOK'
  <2>1. \A id \in DOMAIN rows : rows[id].writer = Committed => rows'[id].writer = Committed
    BY <1>2
  <2> QED BY <1>2, <1>4, <1>6, <2>1 DEF ActorsOK
<1>12. ActorsNeverInvented'
  BY <1>2 DEF ActorsNeverInvented, SwitchedOff, RowsOf
<1>13. PromotedOK'
  <2>1. ASSUME NEW p \in accepted[s]
        PROVE  /\ threats'[s][p].type # None
               /\ ~threats'[s][p].validated => KeyOf(threats'[s][p].type) = TypeKey(s, p)
               /\ p.name # None =>
                    /\ threats'[s][p].name # None
                    /\ KeyOf(threats'[s][p].name) =
                         NameKeyOf(threats'[s][p].type, p.name, DefaultSector(s))
    <3>1. TypeFor(s, p) # None /\ (p.name # None => NameKey(s, p) \in DOMAIN memo[s])
      BY <1>1 DEF AcceptedOK
    <3>2. ~threats[s][p].validated => KeyOf(TypeFor(s, p)) = TypeKey(s, p)
      <4>1. ~threats[s][p].validated => threats[s][p].type = None
        BY <1>1, <1>3 DEF PromotedOK
      <4> QED BY <3>1, <4>1 DEF TypeFor, MemoOK
    <3>3. p.name # None =>
             NameFor(s, p) # None /\ KeyOf(NameFor(s, p)) = NameKeyOf(TypeFor(s, p), p.name, DefaultSector(s))
      BY <3>1 DEF NameFor, NameKey, MemoOK, RowsOK
    <3> QED BY <1>5, <3>1, <3>2, <3>3
  <2>2. \A u \in Sessions : pc'[u] # "done" => u # s /\ pc[u] # "done"
    BY <1>1
  <2>3. ASSUME NEW u \in Sessions, NEW p \in Proposals
        PROVE  LET t == threats'[u][p]
               IN  /\ pc'[u] # "done" /\ ~t.validated => t.type = None
                   /\ p \in Promoted(u)' =>
                        /\ t.type # None
                        /\ ~t.validated => KeyOf(t.type) = TypeKey(u, p)
                        /\ p.name # None =>
                             t.name # None /\ KeyOf(t.name) = NameKeyOf(t.type, p.name, DefaultSector(u))
    <3>1. CASE u = s
      BY <1>7, <2>1, <2>2, <3>1
    <3>2. CASE u # s
      BY <1>4, <1>7, <2>2, <3>2 DEF PromotedOK
    <3> QED BY <3>1, <3>2
  <2> QED BY <2>3 DEF PromotedOK, TypeKey
<1> QED BY <1>8, <1>9, <1>10, <1>11, <1>12, <1>13
\* An accept that fails takes away what it added, and nothing that is committed.
LEMMA RollbackGrowth ==
    ASSUME GInv, IInv', NEW s \in Sessions, pc[s] = "promote", Rollback(s)
    PROVE  GInv'
<1> USE DEF GInv, IInv
<1>1. /\ UNCHANGED threats /\ pc'[s] = "review" /\ accepted'[s] = {}
      /\ \A u \in Sessions \ {s} : pc'[u] = pc[u] /\ accepted'[u] = accepted[u]
      /\ \A u \in Sessions \ {s} : memo'[u] = memo[u]
  BY DEF Rollback, Forget, ControlOK
<1>2. /\ DOMAIN rows' = {id \in DOMAIN rows : rows[id].writer # s}
      /\ \A id \in DOMAIN rows' : rows'[id] = rows[id]
      /\ \A id \in DOMAIN rows : rows[id].writer = Committed => id \in DOMAIN rows'
  BY NamesAssumption DEF Rollback
<1>3. \A u \in Sessions : Promoted(u)' = Promoted(u)
  BY <1>1 DEF Promoted
<1>4. FlaggedOK'
  BY <1>1 DEF FlaggedOK
<1>5. SourcesOK'
  <2>1. \A id \in DOMAIN rows' : rows[id].writer # Committed => rows[id].writer \in Sessions \ {s}
    BY <1>2 DEF RowsOK
  <2>2. ASSUME NEW u \in Sessions \ {s}, NEW p \in Proposals, NEW id
        PROVE  AddedType(u, p, id)' = AddedType(u, p, id) /\ AddedName(u, p, id)' = AddedName(u, p, id)
    BY <1>1 DEF AddedType, AddedName, TypeFor, TypeKey, NameKey
  <2> QED BY <1>2, <2>1, <2>2 DEF SourcesOK
<1>6. OnlyAcceptedGrow' /\ ActorsOK'
  BY <1>1, <1>2, <1>3 DEF OnlyAcceptedGrow, ActorsOK
<1>7. ActorsNeverInvented'
  <2>1. \A key : SwitchedOff(key) => SwitchedOff(key)'
    BY <1>2 DEF SwitchedOff, RowsOf, ActorsOK
  <2> QED BY <1>2, <2>1 DEF ActorsNeverInvented
<1>8. PromotedOK'
  <2>1. \A u \in Sessions : pc'[u] # "done" => pc[u] # "done"
    BY <1>1
  <2> QED BY <1>1, <1>3, <2>1 DEF PromotedOK, TypeKey
<1> QED BY <1>4, <1>5, <1>6, <1>7, <1>8

LEMMA SwitchOffGrowth ==
    ASSUME GInv, IInv', SwitchOff
    PROVE  GInv'
<1> USE DEF GInv, IInv
<1>1. UNCHANGED <<threats, pc, accepted, memo>>
  BY DEF SwitchOff, acceptVars
<1>2. /\ DOMAIN rows' = DOMAIN rows
      /\ \A id \in DOMAIN rows :
            /\ rows'[id].writer = rows[id].writer
            /\ rows'[id].active \/ rows[id].writer = Committed \/ ~rows[id].active
            /\ ~rows[id].active => ~rows'[id].active
  BY DEF SwitchOff, RowsOK
<1>3. FlaggedOK' /\ PromotedOK' /\ OnlyAcceptedGrow'
  BY <1>1, <1>2 DEF FlaggedOK, PromotedOK, OnlyAcceptedGrow, Promoted, TypeKey
<1>4. SourcesOK'
  BY <1>1, <1>2 DEF SourcesOK, AddedType, AddedName, TypeFor, TypeKey, NameKey
<1>5. ActorsOK' /\ ActorsNeverInvented'
  BY <1>1, <1>2 DEF ActorsOK, ActorsNeverInvented, SwitchedOff, RowsOf
<1> QED BY <1>3, <1>4, <1>5

LEMMA InitGrowth == Init => GInv
<1> SUFFICES ASSUME Init PROVE GInv
  OBVIOUS
<1>1. IInv
  BY InitInv
<1>2. FlaggedOK /\ SourcesOK /\ OnlyAcceptedGrow /\ ActorsNeverInvented
  BY DEF Init, FlaggedOK, SourcesOK, OnlyAcceptedGrow, ActorsNeverInvented
<1>3. ActorsOK /\ PromotedOK
  BY ActorKeysAssumption DEF Init, ActorsOK, PromotedOK, Promoted, Unmatched
<1> QED BY <1>1, <1>2, <1>3 DEF GInv

LEMMA StepGrowth == GInv /\ [Next]_vars => GInv'
<1> SUFFICES ASSUME GInv, [Next]_vars
             PROVE  GInv'
  OBVIOUS
<1>1. IInv'
  BY StepInv DEF GInv
<1>2. ASSUME NEW s \in Sessions, Upsert(s)
      PROVE  GInv'
  BY <1>1, <1>2, InsertGrowth, AcceptSteps DEF Upsert
<1>3. ASSUME NEW s \in Sessions, NoWinner(s) \/ Deadlocked(s) \/ Fail(s)
      PROVE  GInv'
  <2>1. Rollback(s)
    BY <1>3 DEF NoWinner, Deadlocked, Fail
  <2>2. pc[s] = "promote"
    <3>1. Victim(s) => Working(s)
      BY DEF Victim, WaitsFor
    <3> QED BY <1>3, <3>1 DEF NoWinner, Deadlocked, Fail, Working, GInv, IInv, LostOK
  <2> QED BY <1>1, <2>1, <2>2, RollbackGrowth
<1>4. ASSUME NEW s \in Sessions, Lookup(s) \/ RowDone(s) \/ Commit(s) \/ Ground(s) \/ BeginAccept(s)
      PROVE  GInv'
  BY <1>1, <1>4, AcceptSteps, CommitGrowth, GroundGrowth, BeginAcceptGrowth
<1>5. CASE SwitchOff
  BY <1>1, <1>5, SwitchOffGrowth
<1>6. CASE UNCHANGED vars
  BY <1>1, <1>6 DEF vars, acceptVars, GInv, FlaggedOK, SourcesOK, OnlyAcceptedGrow, ActorsOK,
                    ActorsNeverInvented, PromotedOK, Promoted, SwitchedOff, RowsOf, AddedType,
                    AddedName, TypeFor, TypeKey, NameKey
<1> QED BY <1>2, <1>3, <1>4, <1>5, <1>6 DEF Next, Promote

LEMMA Growth == Spec => []GInv
<1> QED BY InitGrowth, StepGrowth, PTL DEF Spec

\* The library grows by what reviewers accepted in accepts that completed, whichever
\* sessions add the same entries at the same time, fail, or are chosen as victims.
THEOREM LibraryGrowsByAccepted == Spec => []OnlyAcceptedGrow
<1>1. GInv => OnlyAcceptedGrow
  BY DEF GInv
<1> QED BY <1>1, Growth, PTL

\* A new actor row only ever replaces one that a curator switched off: grounding keeps
\* the actors that the library had, and their rows do not go away.
THEOREM InventedActorsStayOut == Spec => []ActorsNeverInvented
<1>1. GInv => ActorsNeverInvented
  BY DEF GInv
<1> QED BY <1>1, Growth, PTL

\* _default_sector_id picks the last of the session's sectors.
LEMMA DefaultIsParent ==
    ASSUME NEW s \in Sessions
    PROVE  DefaultSector(s) = ParentSector(s)
<1>1. Cardinality({1}) = 1 /\ Cardinality({1, 2}) = 2
  <2>1. IsFiniteSet({1}) /\ Cardinality({1}) = 1
    BY FS_Singleton
  <2>2. 2 \notin {1} /\ {1, 2} = {1} \union {2}
    OBVIOUS
  <2>3. Cardinality({1} \union {2}) = Cardinality({1}) + 1
    BY <2>1, <2>2, FS_AddElement
  <2> QED BY <2>1, <2>2, <2>3
<1>2. 1 \notin {} /\ {1} # {} /\ {1, 2} # {} /\ {1, 2} # {1}
  OBVIOUS
<1> QED BY <1>1, <1>2, SectorsAssumption DEF DefaultSector, ParentSector

\* "the loser gets back the winner's id instead of a crash" (dal.py): what two sessions
\* under one parent sector promoted from one proposal is one row, whenever they did it
\* and whoever inserted it, unless one of two rows of that key was switched off.
THEOREM LosersGetWinners == Spec => []LoserGetsWinner
<1>1. GInv => LoserGetsWinner
  <2> SUFFICES ASSUME GInv, NEW s \in Sessions, NEW u \in Sessions,
                      ParentSector(s) = ParentSector(u),
                      NEW p \in Promoted(s) \intersect Promoted(u)
               PROVE  LET a == threats[s][p]
                          b == threats[u][p]
                      IN  /\ ~a.validated /\ ~b.validated =>
                               a.type = b.type \/ SwitchedOff(KeyOf(a.type))
                          /\ a.type = b.type /\ p.name # None =>
                               a.name = b.name \/ SwitchedOff(KeyOf(a.name))
    BY DEF LoserGetsWinner
  <2> DEFINE a == threats[s][p]
             b == threats[u][p]
  <2>1. p \in Proposals /\ DefaultSector(s) = DefaultSector(u)
    BY DefaultIsParent DEF Promoted, GInv, IInv, ControlOK
  <2>2. \A x, y \in DOMAIN rows : KeyOf(x) = KeyOf(y) => x = y \/ SwitchedOff(KeyOf(x))
    BY DEF GInv, IInv, UniqueOK, SwitchedOff, RowsOf
  <2>3. \A v \in {s, u} : \A id \in {threats[v][p].type, threats[v][p].name} \ {None} :
           id \in DOMAIN rows
    BY <2>1 DEF GInv, IInv, PointersHold
  <2>4. a.type # None /\ b.type # None
    BY <2>1 DEF GInv, PromotedOK
  <2>5. ~a.validated /\ ~b.validated => KeyOf(a.type) = KeyOf(b.type)
    BY <2>1 DEF GInv, PromotedOK, TypeKey
  <2>6. a.type = b.type /\ p.name # None =>
           a.name # None /\ b.name # None /\ KeyOf(a.name) = KeyOf(b.name)
    BY <2>1 DEF GInv, PromotedOK
  <2> QED BY <2>2, <2>3, <2>4, <2>5, <2>6
<1> QED BY <1>1, Growth, PTL
=============================================================================

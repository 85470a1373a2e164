----------------------------- MODULE AuditProofs -----------------------------
(***************************************************************************)
(* Audit's safety properties hold for any finite set of transactions, any  *)
(* number of records in each and any length of time.                       *)
(***************************************************************************)
EXTENDS Audit, FiniteSetTheorems, WellFoundedInduction, TLAPS

LEMMA Bounds ==
  /\ None \notin Tx
  /\ MaxAppends \in Nat /\ MaxAppends >= 1 /\ MaxClock \in Nat
  BY TxAssumption, BoundsAssumption

(* A set of naturals with an upper bound has a largest member.             *)
LEMMA Largest ==
  ASSUME NEW N \in Nat, NEW S, S # {}, S \subseteq 0 .. N
  PROVE  \E m \in S : \A k \in S : k <= m
<1> DEFINE R == {p \in Nat \X Nat : p[1] < p[2]}
           T == {N - k : k \in S}
<1>1. IsWellFoundedOn(R, Nat)
  BY NatLessThanWellFounded DEF OpToRel
<1>2. T \subseteq Nat /\ T # {}
  <2>1. \A k \in S : N - k \in Nat
    OBVIOUS
  <2>2. PICK k \in S : TRUE
    OBVIOUS
  <2>3. N - k \in T
    BY <2>2
  <2> QED BY <2>1, <2>3
<1> HIDE DEF R, T
<1>3. PICK x \in T : \A y \in T : ~ (<<y, x>> \in R)
  BY <1>1, <1>2, WFMin
<1>4. PICK m \in S : x = N - m
  BY DEF T
<1>5. ASSUME NEW k \in S PROVE k <= m
  <2>1. N - k \in T /\ N - k \in Nat
    BY DEF T
  <2>2. ~ (N - k < N - m)
    BY <1>3, <1>4, <2>1, <1>2 DEF R
  <2> QED BY <2>2
<1> QED BY <1>5

-----------------------------------------------------------------------------
(* Where the records are: the only uncommitted ones are the lock holder's. *)

InFlight == IF holder = None THEN {} ELSE tx[holder].own
All == Written \union InFlight
Present == rows \union InFlight

Held ==
  \A t \in Tx :
    tx[t].pc \in {"tip", "insert", "commit"} \/ tx[t].own # {} => holder = t

Sizes ==
  \A t \in Tx :
    /\ IsFiniteSet(tx[t].own)
    /\ Cardinality(tx[t].own) <= MaxAppends
    /\ tx[t].pc \in {"idle", "write", "lock", "tip", "insert"}
         => Cardinality(tx[t].own) < MaxAppends

Ids ==
  /\ \A r \in All : r.id <= sequence
  /\ \A r, s \in All : r.id = s.id => r = s
  /\ \A r \in Written, s \in InFlight : r.id < s.id
  /\ rows \cap purged = {}

Owned ==
  /\ \A t \in Tx : \A s \in tx[t].own : s.event.tx = t
  /\ \A r \in Written : tx[r.event.tx].pc = "committed"
  /\ \A t \in Tx : tx[t].snapshot \subseteq Written

Base == TypeOK /\ Held /\ Sizes /\ Ids /\ Owned

LEMMA RecordShape ==
  ASSUME NEW r \in Record
  PROVE  /\ r.id \in Nat /\ r.event \in Event /\ r.previous \in EventHash
         /\ r.hash \in EventHash /\ r.event.tx \in Tx /\ r.event.at \in Time
  BY DEF Record, Event

LEMMA AllAreRecords ==
  ASSUME TypeOK
  PROVE  /\ InFlight \subseteq Record /\ All \subseteq Record
         /\ Written \subseteq Record /\ Present \subseteq Record
  BY DEF TypeOK, InFlight, All, Written, Present, Transaction

LEMMA NewestIsThere ==
  ASSUME NEW S \in SUBSET Record, S # {}, NEW N \in Nat,
         \A r \in S : r.id <= N
  PROVE  Newest(S) \in S /\ \A q \in S : q.id <= Newest(S).id
<1> DEFINE I == {r.id : r \in S}
<1>1. I # {} /\ I \subseteq 0 .. N
  BY RecordShape
<1> HIDE DEF I
<1>2. PICK m \in I : \A k \in I : k <= m
  BY <1>1, Largest
<1>3. PICK r \in S : r.id = m
  BY DEF I
<1>4. \A q \in S : q.id <= r.id
  BY <1>2, <1>3 DEF I
<1> QED BY <1>4 DEF Newest

LEMMA VisibleIsWritten ==
  ASSUME Base, NEW t \in Tx, holder = t
  PROVE  /\ Visible(t) \subseteq All
         /\ \A r \in Visible(t) : r.id <= sequence
  BY Bounds DEF Base, Ids, Owned, All, InFlight, Visible, Written

-----------------------------------------------------------------------------
(* Types, the lock and the identifiers.                                    *)

LEMMA BaseInit == Init => Base
<1> SUFFICES ASSUME Init PROVE Base
  OBVIOUS
<1>0. \A t \in Tx : tx[t].own = {}
  BY DEF Init
<1>1. tx \in [Tx -> Transaction]
  <2> DEFINE fresh == [pc |-> "idle", mode |-> "read committed",
                       snapshot |-> {}, at |-> 0, own |-> {}, tip |-> Genesis]
  <2>1. Genesis \in EventHash
    BY DEF Genesis, EventHash
  <2>2. "idle" \in Phases /\ "read committed" \in Modes /\ 0 \in Time
    BY Bounds DEF Phases, Modes, Time
  <2>3. {} \in SUBSET Record
    OBVIOUS
  <2> HIDE DEF Genesis
  <2>4. fresh \in Transaction
    BY <2>1, <2>2, <2>3 DEF Transaction
  <2> HIDE DEF fresh
  <2>5. tx = [t \in Tx |-> fresh]
    BY DEF Init, fresh
  <2> QED BY <2>4, <2>5
<1>2. TypeOK
  <2>0. clock = 0
    BY DEF Init
  <2>1. clock \in Time
    BY <2>0, Bounds DEF Time
  <2>2. sequence \in Nat /\ rows = {} /\ purged = {} /\ holder = None
    BY DEF Init
  <2> QED BY <1>1, <2>1, <2>2 DEF TypeOK
<1>3. Sizes
  BY <1>0, FS_EmptySet, Bounds DEF Sizes
<1>4. Held /\ Ids /\ Owned
  BY DEF Init, Held, Ids, Owned, All, InFlight, Written
<1> QED BY <1>2, <1>3, <1>4 DEF Base

(* What a step without an effect on the records leaves true.               *)
LEMMA BaseQuiet ==
  ASSUME Base, NEW t \in Tx,
         \/ \E mode \in Modes : Begin(t, mode)
         \/ Write(t) \/ Lock(t) \/ ReadTip(t) \/ Again(t)
  PROVE  Base' /\ InFlight' = InFlight
<1> USE DEF At
<1>0. tx \in [Tx -> Transaction] /\ Genesis \in EventHash
  BY DEF Base, TypeOK, Genesis, EventHash
<1>1. ASSUME NEW mode \in Modes, Begin(t, mode) PROVE Base' /\ InFlight' = InFlight
  <2> DEFINE view == IF mode = "repeatable read" THEN rows ELSE {}
  <2>0. view \in SUBSET Record /\ view \subseteq Written
    BY DEF Base, TypeOK, Written
  <2>1. tx' \in [Tx -> Transaction]
    <3> HIDE DEF view
    <3>1. tx' = [tx EXCEPT ![t].pc = "write", ![t].mode = mode,
                           ![t].snapshot = view]
      BY <1>1 DEF Begin, view
    <3> QED BY ZenonT(60), <1>0, <2>0, <3>1 DEF Transaction, Phases
  <2>2. TypeOK'
    BY <1>1, <2>1, <1>0 DEF Begin, Base, TypeOK, Transaction
  <2>3. InFlight' = InFlight
    BY <1>1, <1>0, Bounds DEF Begin, InFlight, Base, TypeOK, Transaction
  <2>4. Held' /\ Sizes'
    BY ZenonT(60), <1>1, <1>0 DEF Begin, Held, Sizes, Base, Transaction
  <2>5. Ids'
    BY <1>1, <2>3 DEF Begin, Ids, Base, All, Written
  <2>6. Owned'
    <3>1. \A r \in Written : r.event.tx \in Tx
      BY AllAreRecords, RecordShape DEF Base
    <3> HIDE DEF view
    <3>2. tx' = [tx EXCEPT ![t].pc = "write", ![t].mode = mode,
                           ![t].snapshot = view]
      BY <1>1 DEF Begin, view
    <3>3. \A u \in Tx : tx'[u].own = tx[u].own
      BY <3>2, <1>0 DEF Transaction
    <3>4. \A u \in Tx : tx'[u].snapshot \subseteq Written
      BY <3>2, <1>0, <2>0 DEF Transaction, Base, Owned
    <3>5. \A u \in Tx : tx[u].pc = "committed" => tx'[u].pc = "committed"
      BY <3>2, <1>0, <1>1 DEF Transaction, Begin
    <3> QED BY <1>1, <3>1, <3>3, <3>4, <3>5 DEF Begin, Owned, Base, Written
  <2> QED BY <2>2, <2>3, <2>4, <2>5, <2>6 DEF Base
<1>2. CASE Write(t)
  <2>1. tx' \in [Tx -> Transaction]
    BY ZenonT(60), <1>0, <1>2 DEF Write, Transaction, Phases, Base, TypeOK
  <2>2. TypeOK'
    BY <1>2, <2>1, <1>0 DEF Write, Base, TypeOK, Transaction
  <2>3. InFlight' = InFlight
    BY <1>2, <1>0, Bounds DEF Write, InFlight, Base, TypeOK, Transaction
  <2>4. Held' /\ Sizes'
    BY <1>2, <1>0 DEF Write, Held, Sizes, Base, Transaction
  <2>5. Ids'
    BY <1>2, <2>3 DEF Write, Ids, Base, All, Written
  <2>6. Owned'
    <3>1. \A r \in Written : r.event.tx \in Tx
      BY AllAreRecords, RecordShape DEF Base
    <3> QED BY <1>2, <1>0, <3>1 DEF Write, Owned, Base, Written, Transaction
  <2> QED BY <2>2, <2>3, <2>4, <2>5, <2>6 DEF Base
<1>3. CASE Lock(t)
  <2>1. tx' \in [Tx -> Transaction]
    BY ZenonT(60), <1>0, <1>3 DEF Lock, Transaction, Phases, Base, TypeOK
  <2>2. TypeOK'
    BY <1>3, <2>1, <1>0, Bounds DEF Lock, Base, TypeOK, Transaction
  <2>3. InFlight' = InFlight
    BY <1>3, <1>0, Bounds DEF Lock, InFlight, Base, TypeOK, Held, Transaction
  <2>4. Held' /\ Sizes'
    BY <1>3, <1>0, Bounds DEF Lock, Held, Sizes, Base, Transaction
  <2>5. Ids'
    BY <1>3, <2>3 DEF Lock, Ids, Base, All, Written
  <2>6. Owned'
    <3>1. \A r \in Written : r.event.tx \in Tx
      BY AllAreRecords, RecordShape DEF Base
    <3> QED BY <1>3, <1>0, <3>1 DEF Lock, Owned, Base, Written, Transaction
  <2> QED BY <2>2, <2>3, <2>4, <2>5, <2>6 DEF Base
<1>4. CASE ReadTip(t)
  <2>0. holder = t
    BY <1>4 DEF ReadTip, Base, Held
  <2>1. TipOf(Visible(t)) \in EventHash
    <3>1. Visible(t) \subseteq Record /\ sequence \in Nat
      BY <2>0, VisibleIsWritten, AllAreRecords DEF Base, TypeOK
    <3>2. CASE Visible(t) # {}
      <4>1. Newest(Visible(t)) \in Record
        BY <2>0, <3>1, <3>2, VisibleIsWritten, NewestIsThere
      <4> QED BY <3>2, <4>1, RecordShape DEF TipOf
    <3> QED BY <3>2, <1>0 DEF TipOf
  <2>2. tx' \in [Tx -> Transaction]
    BY ZenonT(60), <1>0, <1>4, <2>1 DEF ReadTip, Transaction, Phases
  <2>3. TypeOK'
    BY <1>4, <2>2, <1>0 DEF ReadTip, Base, TypeOK, Transaction
  <2>4. InFlight' = InFlight
    BY <1>4, <1>0, Bounds DEF ReadTip, InFlight, Base, TypeOK, Transaction
  <2>5. Held' /\ Sizes'
    BY <1>4, <1>0, <2>0 DEF ReadTip, Held, Sizes, Base, Transaction
  <2>6. Ids'
    BY <1>4, <2>4 DEF ReadTip, Ids, Base, All, Written
  <2>7. Owned'
    <3>1. \A r \in Written : r.event.tx \in Tx
      BY AllAreRecords, RecordShape DEF Base
    <3> QED BY <1>4, <1>0, <3>1 DEF ReadTip, Owned, Base, Written, Transaction
  <2> QED BY <2>3, <2>4, <2>5, <2>6, <2>7 DEF Base
<1>5. CASE Again(t)
  <2>0. holder = t
    BY <1>5 DEF Again, Base, Held
  <2>1. tx' \in [Tx -> Transaction]
    BY <1>0, <1>5 DEF Again, Transaction, Phases
  <2>2. TypeOK'
    BY <1>5, <2>1, <1>0 DEF Again, Base, TypeOK, Transaction
  <2>3. InFlight' = InFlight
    BY <1>5, <1>0, Bounds DEF Again, InFlight, Base, TypeOK, Transaction
  <2>4. Held' /\ Sizes'
    BY <1>5, <1>0, <2>0 DEF Again, Held, Sizes, Base, Transaction
  <2>5. Ids'
    BY <1>5, <2>3 DEF Again, Ids, Base, All, Written
  <2>6. Owned'
    <3>1. \A r \in Written : r.event.tx \in Tx
      BY AllAreRecords, RecordShape DEF Base
    <3> QED BY <1>5, <1>0, <3>1 DEF Again, Owned, Base, Written, Transaction
  <2> QED BY <2>2, <2>3, <2>4, <2>5, <2>6 DEF Base
<1> QED BY <1>1, <1>2, <1>3, <1>4, <1>5

LEMMA BaseTick ==
  ASSUME Base, Tick \/ UNCHANGED vars
  PROVE  Base' /\ InFlight' = InFlight
<1>1. tx' = tx /\ holder' = holder /\ rows' = rows /\ purged' = purged
      /\ sequence' = sequence
  BY DEF Tick, vars
<1>2. clock' \in Time
  BY Bounds DEF Tick, vars, Time, Base, TypeOK
<1> QED BY <1>1, <1>2 DEF Base, TypeOK, Held, Sizes, Ids, Owned, All, InFlight,
                         Written

LEMMA InsertEffect ==
  ASSUME Base, NEW t \in Tx, Insert(t)
  PROVE  /\ holder = t /\ InFlight = tx[t].own
         /\ NewRecord(t) \in Record
         /\ InFlight' = InFlight \union {NewRecord(t)}
         /\ Base'
<1> DEFINE new == NewRecord(t)
<1>0. tx \in [Tx -> Transaction] /\ sequence \in Nat
  BY DEF Base, TypeOK
<1>1. holder = t /\ InFlight = tx[t].own
  BY Bounds DEF Insert, At, Base, Held, InFlight
<1>2. /\ IsFiniteSet(tx[t].own) /\ Cardinality(tx[t].own) \in Nat
      /\ Cardinality(tx[t].own) + 1 \in 1 .. MaxAppends
  <2>1. IsFiniteSet(tx[t].own) /\ Cardinality(tx[t].own) < MaxAppends
    BY DEF Insert, At, Base, Sizes
  <2> QED BY <2>1, FS_CardinalityType, Bounds
<1>3. new \in Record /\ new.id = sequence + 1 /\ new.event.tx = t
  <2>1. tx[t].at \in Time /\ tx[t].tip \in EventHash
    BY <1>0 DEF Transaction
  <2>2. NextEvent(t) \in Event /\ NextEvent(t).tx = t
    BY <1>2, <2>1 DEF NextEvent, Event
  <2>3. Hash(tx[t].tip, NextEvent(t)) \in EventHash
    BY <2>1, <2>2 DEF Hash, EventHash
  <2> QED BY <1>0, <2>1, <2>2, <2>3 DEF NewRecord, Record
<1> HIDE DEF new
<1>4. /\ tx' = [tx EXCEPT ![t].pc = "commit", ![t].own = @ \union {new},
                          ![t].tip = Genesis]
      /\ sequence' = sequence + 1
      /\ UNCHANGED <<clock, rows, purged, holder>>
  BY DEF Insert, new
<1>5. /\ tx' \in [Tx -> Transaction]
      /\ tx'[t].pc = "commit" /\ tx'[t].own = tx[t].own \union {new}
      /\ \A u \in Tx \ {t} : tx'[u] = tx[u]
      /\ \A u \in Tx : tx'[u].snapshot = tx[u].snapshot
  <2>1. Genesis \in EventHash
    BY DEF Genesis, EventHash
  <2> HIDE DEF Genesis
  <2>2. tx[t] \in Transaction /\ "commit" \in Phases
    BY <1>0 DEF Phases
  <2>3. tx[t].own \union {new} \in SUBSET Record
    BY <2>2, <1>3 DEF Transaction
  <2> DEFINE own2 == tx[t].own \union {new}
             after == [tx[t] EXCEPT !.pc = "commit", !.own = own2,
                                    !.tip = Genesis]
  <2>4. tx' = [tx EXCEPT ![t] = after]
    BY <1>4
  <2>5. /\ after \in Transaction /\ after.pc = "commit" /\ after.own = own2
        /\ after.snapshot = tx[t].snapshot
    <3> HIDE DEF own2, Phases
    <3> QED BY <2>1, <2>2, <2>3 DEF Transaction, own2
  <2> HIDE DEF after
  <2> QED BY <1>0, <2>4, <2>5
<1>6. InFlight' = InFlight \union {new}
  BY <1>1, <1>4, <1>5, Bounds DEF InFlight
<1>7. new \notin tx[t].own
  BY <1>0, <1>1, <1>3, AllAreRecords, RecordShape DEF Base, Ids, All
<1>8. TypeOK'
  BY <1>1, <1>4, <1>5, <1>0 DEF Base, TypeOK
<1>9. Held'
  BY <1>1, <1>4, <1>5 DEF Base, Held
<1>10. Sizes'
  <2>1. /\ IsFiniteSet(tx'[t].own)
        /\ Cardinality(tx'[t].own) = Cardinality(tx[t].own) + 1
    BY <1>2, <1>5, <1>7, FS_AddElement
  <2>2. /\ \A u \in Tx \ {t} : tx'[u] = tx[u]
        /\ tx'[t].pc = "commit"
    BY <1>5
  <2>3. Cardinality(tx[t].own) + 1 <= MaxAppends
    BY <1>2, Bounds
  <2> QED BY <2>1, <2>2, <2>3 DEF Base, Sizes
<1>11. Ids'
  <2>1. All' = All \union {new} /\ Written' = Written
    BY <1>4, <1>6 DEF All, Written
  <2>2. \A r \in All : r.id \in Nat /\ r.id <= sequence
    BY AllAreRecords, RecordShape DEF Base, Ids
  <2>3. \A r \in Written : r \in All
    BY DEF All
  <2>4. \A r \in All' : r.id <= sequence'
    BY <1>0, <1>3, <1>4, <2>1, <2>2
  <2>5. \A r, s \in All' : r.id = s.id => r = s
    BY <1>0, <1>3, <2>1, <2>2 DEF Base, Ids
  <2>6. \A r \in Written', s \in InFlight' : r.id < s.id
    BY <1>0, <1>3, <1>6, <2>1, <2>2, <2>3 DEF Base, Ids
  <2> QED BY <1>4, <2>4, <2>5, <2>6 DEF Base, Ids
<1>12. Owned'
  <2>1. Written' = Written
    BY <1>4 DEF Written
  <2>2. \A u \in Tx : tx[u].pc = "committed" => tx'[u].pc = "committed"
    BY <1>5 DEF Insert, At
  <2>3. \A r \in Written : r.event.tx \in Tx
    BY AllAreRecords, RecordShape DEF Base
  <2>4. \A u \in Tx : \A s \in tx'[u].own : s.event.tx = u
    BY <1>3, <1>5 DEF Base, Owned
  <2> QED BY <1>5, <2>1, <2>2, <2>3, <2>4 DEF Base, Owned
<1> QED BY <1>1, <1>3, <1>6, <1>8, <1>9, <1>10, <1>11, <1>12 DEF Base, new

LEMMA CommitEffect ==
  ASSUME Base, NEW t \in Tx, Commit(t)
  PROVE  /\ holder = t /\ InFlight = tx[t].own /\ InFlight' = {}
         /\ rows' = rows \union InFlight /\ All' = All
         /\ Base'
<1>0. tx \in [Tx -> Transaction]
  BY DEF Base, TypeOK
<1>1. holder = t /\ InFlight = tx[t].own
  BY Bounds DEF Commit, At, Base, Held, InFlight
<1>2. holder' = None /\ InFlight' = {}
  BY <1>1 DEF Commit, Released, InFlight
<1>3. rows' = rows \union InFlight /\ purged' = purged
      /\ sequence' = sequence /\ clock' = clock
  BY <1>1 DEF Commit
<1>4. All' = All /\ Written' = All
  BY <1>2, <1>3 DEF All, Written
<1>5. /\ tx' \in [Tx -> Transaction]
      /\ tx'[t].pc = "committed" /\ tx'[t].own = {}
      /\ \A u \in Tx \ {t} : tx'[u] = tx[u]
      /\ \A u \in Tx : tx'[u].snapshot = tx[u].snapshot
  BY <1>0 DEF Commit, Transaction, Phases
<1>6. TypeOK'
  <2>1. rows' \subseteq Record
    BY <1>3, AllAreRecords DEF Base, TypeOK
  <2> QED BY <1>2, <1>3, <1>5, <2>1 DEF Base, TypeOK
<1>7. Held'
  BY <1>1, <1>5 DEF Base, Held
<1>8. Sizes'
  <2>1. IsFiniteSet(tx'[t].own) /\ Cardinality(tx'[t].own) = 0
    BY <1>5, FS_EmptySet
  <2>2. \A u \in Tx \ {t} : tx'[u] = tx[u]
    BY <1>5
  <2> QED BY <2>1, <2>2, Bounds DEF Base, Sizes
<1>9. Ids'
  <2>1. rows' \cap purged' = {}
    <3>1. \A s \in InFlight : s \notin purged
      BY AllAreRecords, RecordShape DEF Base, Ids, Written
    <3> QED BY <1>3, <3>1 DEF Base, Ids
  <2> QED BY <1>2, <1>3, <1>4, <2>1 DEF Base, Ids
<1>10. Owned'
  <2>1. \A r \in Written' : tx'[r.event.tx].pc = "committed"
    <3>1. \A r \in Written : r.event.tx \in Tx /\ tx[r.event.tx].pc = "committed"
      BY AllAreRecords, RecordShape DEF Base, Owned
    <3>2. \A r \in InFlight : r.event.tx = t
      BY <1>1 DEF Base, Owned
    <3> QED BY <1>4, <1>5, <3>1, <3>2 DEF All
  <2> QED BY <1>4, <1>5, <2>1 DEF Base, Owned, All
<1> QED BY <1>1, <1>2, <1>3, <1>4, <1>6, <1>7, <1>8, <1>9, <1>10 DEF Base

LEMMA RollbackEffect ==
  ASSUME Base, NEW t \in Tx, Rollback(t)
  PROVE  /\ holder = t => InFlight' = {}
         /\ holder # t => InFlight' = InFlight
         /\ rows' = rows /\ purged' = purged /\ Written' = Written
         /\ Base'
<1>0. tx \in [Tx -> Transaction] /\ holder \in Tx \union {None}
  BY DEF Base, TypeOK
<1>1. rows' = rows /\ purged' = purged /\ Written' = Written
      /\ sequence' = sequence /\ clock' = clock
  BY DEF Rollback, Written
<1>2. /\ tx' \in [Tx -> Transaction]
      /\ tx'[t].pc = "rolled back" /\ tx'[t].own = {}
      /\ \A u \in Tx \ {t} : tx'[u] = tx[u]
      /\ \A u \in Tx : tx'[u].snapshot = tx[u].snapshot
  BY <1>0 DEF Rollback, Transaction, Phases
<1>3. /\ holder = t => holder' = None
      /\ holder # t => holder' = holder
  BY DEF Rollback, Released
<1>4. /\ holder = t => InFlight' = {}
      /\ holder # t => InFlight' = InFlight
  BY <1>0, <1>2, <1>3, Bounds DEF InFlight
<1>5. TypeOK'
  BY <1>0, <1>1, <1>2, <1>3 DEF Base, TypeOK
<1>6. Held'
  BY <1>2, <1>3 DEF Base, Held
<1>7. Sizes'
  <2>1. IsFiniteSet(tx'[t].own) /\ Cardinality(tx'[t].own) = 0
    BY <1>2, FS_EmptySet
  <2>2. \A u \in Tx \ {t} : tx'[u] = tx[u]
    BY <1>2
  <2> QED BY <2>1, <2>2, Bounds DEF Base, Sizes
<1>8. Ids'
  <2>1. InFlight' \subseteq InFlight /\ All' \subseteq All
    BY <1>1, <1>4 DEF All
  <2> QED BY <1>1, <2>1 DEF Base, Ids
<1>9. Owned'
  <2>1. \A r \in Written : r.event.tx \in Tx
    BY AllAreRecords, RecordShape DEF Base
  <2>2. \A u \in Tx : tx[u].pc = "committed" => tx'[u].pc = "committed"
    BY <1>2 DEF Rollback
  <2> QED BY <1>1, <1>2, <2>1, <2>2 DEF Base, Owned
<1> QED BY <1>1, <1>4, <1>5, <1>6, <1>7, <1>8, <1>9 DEF Base

LEMMA PurgeEffect ==
  ASSUME Base, NEW cutoff \in 0 .. clock, Purge(cutoff)
  PROVE  /\ InFlight' = InFlight /\ Written' = Written
         /\ rows' = rows \ Outdated(cutoff)
         /\ purged' = purged \union Outdated(cutoff)
         /\ Base'
<1>1. /\ rows' = rows \ Outdated(cutoff)
      /\ purged' = purged \union Outdated(cutoff)
      /\ UNCHANGED <<clock, sequence, holder, tx>>
  BY DEF Purge
<1>2. InFlight' = InFlight /\ Written' = Written
  BY <1>1 DEF InFlight, Written, Outdated
<1>3. TypeOK'
  BY <1>1 DEF Base, TypeOK, Outdated
<1>4. Held' /\ Sizes'
  BY <1>1 DEF Base, Held, Sizes
<1>5. Ids' /\ Owned'
  BY <1>1, <1>2 DEF Base, Ids, Owned, All
<1> QED BY <1>1, <1>2, <1>3, <1>4, <1>5 DEF Base
LEMMA BaseNext == Base /\ [Next]_vars => Base'
<1> SUFFICES ASSUME Base, [Next]_vars PROVE Base'
  OBVIOUS
<1>1. CASE Tick \/ UNCHANGED vars
  BY <1>1, BaseTick
<1>2. ASSUME NEW t \in Tx, NEW mode \in Modes, Begin(t, mode) PROVE Base'
  BY <1>2, BaseQuiet
<1>3. ASSUME NEW t \in Tx, Step(t) \/ Again(t) \/ Rollback(t) PROVE Base'
  BY <1>3, BaseQuiet, InsertEffect, CommitEffect, RollbackEffect DEF Step
<1>4. ASSUME NEW cutoff \in 0 .. clock, Purge(cutoff) PROVE Base'
  BY <1>4, PurgeEffect
<1> QED BY <1>1, <1>2, <1>3, <1>4 DEF Next

(* TypeOK: the lock is held by a transaction between                       *)
(* `pg_advisory_xact_lock` and its end, or by nobody, and no transaction   *)
(* writes more records than its bound.                                     *)
THEOREM TypeCorrect == Spec => []TypeOK
<1>1. Base => TypeOK
  BY DEF Base
<1> QED BY BaseInit, BaseNext, <1>1, PTL DEF Spec

(* CommittedInOrder: whatever the order in which transactions began, a     *)
(* record that becomes visible has an `event_id` above every record that   *)
(* ever was.                                                               *)
THEOREM VisibleInOrder == Spec => CommittedInOrder
<1> DEFINE Step1 == \A s \in rows' \ rows : \A r \in Written : r.id < s.id
<1>1. ASSUME Base, [Next]_vars PROVE Step1
  <2>1. CASE \E t \in Tx : Commit(t)
    <3>1. PICK t \in Tx : Commit(t)
      BY <2>1
    <3>2. rows' = rows \union InFlight
      BY <1>1, <3>1, CommitEffect
    <3> QED BY <1>1, <3>2 DEF Base, Ids
  <2>2. CASE ~ \E t \in Tx : Commit(t)
    <3>1. rows' \subseteq rows
      BY <1>1, <2>2 DEF Next, Step, Tick, Begin, Write, Lock, ReadTip, Insert,
                        Again, Rollback, Purge, vars
    <3> QED BY <3>1
  <2> QED BY <2>1, <2>2
<1>2. Base /\ [Next]_vars => [Step1]_vars
  BY <1>1
<1> HIDE DEF Step1
<1>3. Spec => [][Step1]_vars
  BY BaseInit, BaseNext, <1>2, PTL DEF Spec
<1> QED BY <1>3 DEF CommittedInOrder, Step1

-----------------------------------------------------------------------------
(* The chain.                                                              *)

(* Overtaken, counting the records of the holder too                       *)
Passed(s) ==
  /\ tx[s.event.tx].mode = "repeatable read"
  /\ \E q \in All \ tx[s.event.tx].snapshot :
       q.id < s.id /\ q.event.tx # s.event.tx

(* What the transaction would see if nothing were ever purged              *)
Seen(t) ==
  tx[t].own \union IF tx[t].mode = "read committed" THEN Written
                                                     ELSE tx[t].snapshot

Hashed == \A r \in All : r.hash = Hash(r.previous, r.event)

TipIsLast ==
  \A t \in Tx : tx[t].pc = "insert" =>
    \A r \in Seen(t) :
      (\A q \in Seen(t) : q.id <= r.id) => r \in purged \/ tx[t].tip = r.hash

Chained ==
  \A s \in All, r \in Present :
    Before(r, s, All) /\ ~ Passed(s) => s.previous = r.hash

FrontFirst ==
  \A q \in purged, r \in rows : r.id < q.id => q.event.at < r.event.at

Chain == Base /\ Hashed /\ TipIsLast /\ Chained /\ FrontFirst

LEMMA ChainInit == Init => Chain
<1> SUFFICES ASSUME Init PROVE Chain
  OBVIOUS
<1>1. All = {} /\ purged = {}
  BY DEF Init, All, Written, InFlight
<1>2. \A t \in Tx : tx[t].pc = "idle"
  BY DEF Init
<1> QED BY <1>1, <1>2, BaseInit DEF Chain, Hashed, TipIsLast, Chained, FrontFirst

(* The transaction of a record has begun, and its mode and snapshot stay.  *)
LEMMA WritersStay ==
  ASSUME Base, NEW t \in Tx,
         \/ \E mode \in Modes : Begin(t, mode)
         \/ Write(t) \/ Lock(t) \/ ReadTip(t) \/ Again(t) \/ Insert(t)
         \/ Commit(t) \/ Rollback(t)
  PROVE  \A s \in All : /\ s.event.tx \in Tx
                        /\ tx'[s.event.tx].mode = tx[s.event.tx].mode
                        /\ tx'[s.event.tx].snapshot = tx[s.event.tx].snapshot
<1> SUFFICES ASSUME NEW s \in All
             PROVE  /\ s.event.tx \in Tx
                    /\ tx'[s.event.tx].mode = tx[s.event.tx].mode
                    /\ tx'[s.event.tx].snapshot = tx[s.event.tx].snapshot
  OBVIOUS
<1>0. tx \in [Tx -> Transaction] /\ holder \in Tx \union {None}
  BY DEF Base, TypeOK
<1>1. s.event.tx \in Tx
  BY AllAreRecords, RecordShape DEF Base
<1>2. tx[s.event.tx].pc # "idle"
  <2>1. CASE s \in Written
    BY <2>1 DEF Base, Owned
  <2>2. CASE s \in InFlight
    <3>1. holder \in Tx /\ s \in tx[holder].own
      BY <1>0, <2>2 DEF InFlight
    <3>2. s.event.tx = holder
      BY <3>1 DEF Base, Owned
    <3> QED BY <3>1, <3>2, Bounds DEF Base, TypeOK
  <2> QED BY <2>1, <2>2 DEF All
<1>3. ASSUME NEW mode \in Modes, Begin(t, mode)
      PROVE  tx'[s.event.tx] = tx[s.event.tx]
  BY <1>0, <1>1, <1>2, <1>3 DEF Begin, At
<1>4. CASE Write(t) \/ Lock(t) \/ ReadTip(t) \/ Again(t)
  BY <1>0, <1>1, <1>4 DEF Write, Lock, ReadTip, Again, Transaction
<1>5. CASE Commit(t) \/ Rollback(t)
  <2>1. PICK pc : tx' = [tx EXCEPT ![t].pc = pc, ![t].own = {}]
    BY <1>5 DEF Commit, Rollback
  <2> QED BY <1>0, <1>1, <2>1 DEF Transaction
<1>6. CASE Insert(t)
  <2>1. PICK new : tx' = [tx EXCEPT ![t].pc = "commit",
                                    ![t].own = @ \union {new},
                                    ![t].tip = Genesis]
    BY <1>6 DEF Insert
  <2> QED BY <1>0, <1>1, <2>1 DEF Transaction
<1> QED BY <1>1, <1>3, <1>4, <1>5, <1>6
(* Steps that write, commit, remove and purge nothing                      *)
LEMMA ChainQuiet ==
  ASSUME Chain, NEW t \in Tx,
         \/ \E mode \in Modes : Begin(t, mode)
         \/ Write(t) \/ Lock(t) \/ ReadTip(t) \/ Again(t)
  PROVE  Chain'
<1> USE DEF At
<1>0. Base /\ Base' /\ tx \in [Tx -> Transaction]
  BY BaseQuiet DEF Chain, Base, TypeOK
<1>1. /\ InFlight' = InFlight /\ rows' = rows /\ purged' = purged
      /\ sequence' = sequence
  BY <1>0, BaseQuiet DEF Begin, Write, Lock, ReadTip, Again
<1>2. All' = All /\ Present' = Present /\ Written' = Written
  BY <1>1 DEF All, Present, Written
<1>3. \A s \in All : Passed(s)' = Passed(s)
  BY <1>0, <1>2, WritersStay DEF Passed
<1>4. Chained'
  BY <1>2, <1>3 DEF Chain, Chained
<1>5. Hashed' /\ FrontFirst'
  BY <1>1, <1>2 DEF Chain, Hashed, FrontFirst
<1>6. TipIsLast'
  <2>1. ASSUME NEW u \in Tx, tx'[u].pc = "insert", tx'[u] = tx[u]
        PROVE  \A r \in Seen(u)' :
                 (\A q \in Seen(u)' : q.id <= r.id)
                   => r \in purged' \/ tx'[u].tip = r.hash
    BY <1>1, <1>2, <2>1 DEF Chain, TipIsLast, Seen
  <2>2. CASE ReadTip(t)
    <3>1. holder = t
      BY <1>0, <2>2 DEF ReadTip, Base, Held
    <3>2. \A u \in Tx \ {t} : tx'[u] = tx[u]
      BY <1>0, <2>2 DEF ReadTip
    <3>3. tx'[t].tip = TipOf(Visible(t)) /\ Seen(t)' = Seen(t)
      BY <1>0, <1>2, <2>2 DEF ReadTip, Seen, Transaction
    <3>4. ASSUME NEW r \in Seen(t), \A q \in Seen(t) : q.id <= r.id
          PROVE  r \in purged \/ tx'[t].tip = r.hash
      <4>1. Visible(t) \subseteq Seen(t)
        BY DEF Visible, Seen, Written
      <4>2. Seen(t) \subseteq All
        BY <1>0, <3>1, Bounds DEF Seen, All, Base, Owned, InFlight
      <4>3. CASE r \in Visible(t)
        <5>1. /\ Newest(Visible(t)) \in Visible(t)
              /\ r.id <= Newest(Visible(t)).id
          <6>1. /\ Visible(t) \subseteq Record /\ sequence \in Nat
                /\ \A q \in Visible(t) : q.id <= sequence
            BY <1>0, <3>1, <4>1, <4>2, VisibleIsWritten, AllAreRecords
               DEF Base, TypeOK
          <6> QED BY <4>3, <6>1, NewestIsThere
        <5>2. Newest(Visible(t)).id <= r.id
          BY <3>4, <4>1, <5>1
        <5>3. r.id \in Nat /\ Newest(Visible(t)).id \in Nat
          BY <1>0, <4>1, <4>2, <5>1, AllAreRecords, RecordShape DEF Base
        <5>4. r = Newest(Visible(t))
          BY <1>0, <4>1, <4>2, <5>1, <5>2, <5>3 DEF Base, Ids
        <5> QED BY <3>3, <4>3, <5>4 DEF TipOf
      <4>4. CASE r \notin Visible(t)
        BY <4>4 DEF Visible, Seen, Written
      <4> QED BY <4>3, <4>4
    <3> QED BY <1>1, <2>1, <3>2, <3>3, <3>4 DEF TipIsLast
  <2>3. CASE ~ ReadTip(t)
    <3>1. tx'[t].pc # "insert" /\ \A u \in Tx \ {t} : tx'[u] = tx[u]
      BY ZenonT(60), <1>0, <2>3 DEF Begin, Write, Lock, Again, Transaction
    <3> QED BY <2>1, <3>1 DEF TipIsLast
  <2> QED BY <2>2, <2>3
<1> QED BY <1>0, <1>4, <1>5, <1>6 DEF Chain

LEMMA ChainTick ==
  ASSUME Chain, Tick \/ UNCHANGED vars
  PROVE  Chain'
<1>1. Base' /\ InFlight' = InFlight
  BY BaseTick DEF Chain
<1>2. UNCHANGED <<rows, purged, tx>>
  BY DEF Tick, vars
<1>3. All' = All /\ Present' = Present /\ Written' = Written
  BY <1>1, <1>2 DEF All, Present, Written
<1> QED BY <1>1, <1>2, <1>3 DEF Chain, Hashed, TipIsLast, Chained, FrontFirst,
                                Passed, Seen

LEMMA ChainPurge ==
  ASSUME Chain, NEW cutoff \in 0 .. clock, Purge(cutoff)
  PROVE  Chain'
<1>1. /\ InFlight' = InFlight /\ Written' = Written /\ Base /\ Base'
      /\ rows' = rows \ Outdated(cutoff)
      /\ purged' = purged \union Outdated(cutoff)
  BY PurgeEffect DEF Chain
<1>2. tx' = tx
  BY DEF Purge
<1>3. All' = All /\ Present' \subseteq Present
  BY <1>1 DEF All, Present
<1>4. Hashed' /\ Chained'
  BY <1>2, <1>3 DEF Chain, Hashed, Chained, Passed
<1>5. TipIsLast'
  BY <1>1, <1>2 DEF Chain, TipIsLast, Seen
<1>6. FrontFirst'
  <2>1. ASSUME NEW q \in purged', NEW r \in rows', r.id < q.id
        PROVE  q.event.at < r.event.at
    <3>1. CASE q \in purged
      BY <1>1, <2>1, <3>1 DEF Chain, FrontFirst
    <3>2. CASE q \in Outdated(cutoff)
      <4>1. q.event.at < cutoff /\ ~ (r.event.at < cutoff) /\ q \in rows /\ r \in rows
        BY <1>1, <3>2 DEF Outdated
      <4>2. q.event.at \in Nat /\ r.event.at \in Nat /\ cutoff \in Nat
        BY <1>1, <4>1, RecordShape, Bounds DEF Base, TypeOK, Time
      <4> QED BY <4>1, <4>2
    <3> QED BY <1>1, <3>1, <3>2
  <2> QED BY <2>1 DEF FrontFirst
<1> QED BY <1>1, <1>4, <1>5, <1>6 DEF Chain

LEMMA ChainCommit ==
  ASSUME Chain, NEW t \in Tx, Commit(t)
  PROVE  Chain'
<1>1. /\ Base /\ Base' /\ holder = t /\ InFlight' = {}
      /\ rows' = rows \union InFlight /\ All' = All
  BY CommitEffect DEF Chain
<1>2. Present' = Present /\ purged' = purged
  BY <1>1 DEF Present, Commit
<1>3. \A s \in All : Passed(s)' = Passed(s)
  BY <1>1, WritersStay DEF Passed
<1>4. Hashed' /\ Chained'
  BY <1>1, <1>2, <1>3 DEF Chain, Hashed, Chained
<1>5. TipIsLast'
  <2>1. \A u \in Tx : tx'[u].pc # "insert"
    BY <1>1, Bounds DEF Base, Held, Commit, Released
  <2> QED BY <2>1 DEF TipIsLast
<1>6. FrontFirst'
  <2>1. ASSUME NEW q \in purged, NEW r \in InFlight PROVE ~ (r.id < q.id)
    <3>1. r.id \in Nat /\ q.id \in Nat
      BY <1>1, AllAreRecords, RecordShape DEF Base, Written
    <3>2. q.id < r.id
      BY <1>1 DEF Base, Ids, Written
    <3> QED BY <3>1, <3>2
  <2> QED BY <1>1, <1>2, <2>1 DEF Chain, FrontFirst
<1> QED BY <1>1, <1>4, <1>5, <1>6 DEF Chain

(* A rollback takes its own records and leaves whatever is below the rest. *)
LEMMA RollbackBelow ==
  ASSUME Base, NEW t \in Tx, Rollback(t)
  PROVE  \A s \in All' : \A q \in All : q.id < s.id => q \in All'
<1>1. CASE holder = t
  <2>1. All' = Written
    BY <1>1, RollbackEffect DEF All
  <2>2. \A s \in Written, q \in InFlight : ~ (q.id < s.id)
    BY AllAreRecords, RecordShape DEF Base, Ids
  <2> QED BY <2>1, <2>2 DEF All
<1>2. CASE holder # t
  BY <1>2, RollbackEffect DEF All
<1> QED BY <1>1, <1>2

LEMMA ChainRollback ==
  ASSUME Chain, NEW t \in Tx, Rollback(t)
  PROVE  Chain'
<1>1. /\ Base /\ Base' /\ rows' = rows /\ purged' = purged
      /\ Written' = Written
      /\ holder = t => InFlight' = {}
      /\ holder # t => InFlight' = InFlight
  BY RollbackEffect DEF Chain
<1>2. All' \subseteq All /\ Present' \subseteq Present
  BY <1>1 DEF All, Present
<1>3. \A s \in All' : \A q \in All : q.id < s.id => q \in All'
  BY RollbackBelow DEF Chain
<1>4. \A s \in All' : Passed(s)' <=> Passed(s)
  BY <1>1, <1>2, <1>3, WritersStay DEF Passed
<1>5. ASSUME NEW s \in All', NEW r \in Present', Before(r, s, All'), ~ Passed(s)'
      PROVE  s.previous = r.hash
  <2>1. Before(r, s, All)
    BY <1>3, <1>5 DEF Before
  <2> QED BY <1>2, <1>4, <1>5, <2>1 DEF Chain, Chained
<1>6. Chained'
  BY <1>5 DEF Chained
<1>7. Hashed' /\ FrontFirst'
  BY <1>1, <1>2 DEF Chain, Hashed, FrontFirst
<1>8. TipIsLast'
  <2>1. tx \in [Tx -> Transaction]
    BY <1>1 DEF Base, TypeOK
  <2>2. tx'[t].pc # "insert" /\ \A u \in Tx \ {t} : tx'[u] = tx[u]
    BY <2>1 DEF Rollback, Transaction
  <2>3. ASSUME NEW u \in Tx, tx'[u].pc = "insert"
        PROVE  \A r \in Seen(u)' :
                 (\A q \in Seen(u)' : q.id <= r.id)
                   => r \in purged' \/ tx'[u].tip = r.hash
    BY <1>1, <2>2, <2>3 DEF Chain, TipIsLast, Seen
  <2> QED BY <2>3 DEF TipIsLast
<1> QED BY <1>1, <1>6, <1>7, <1>8 DEF Chain
LEMMA ChainInsert ==
  ASSUME Chain, NEW t \in Tx, Insert(t)
  PROVE  Chain'
<1>0. PICK new : new = NewRecord(t)
  OBVIOUS
<1>1. /\ Base /\ Base' /\ holder = t /\ InFlight = tx[t].own
      /\ new \in Record /\ InFlight' = InFlight \union {new}
  BY <1>0, InsertEffect DEF Chain
<1>2. /\ new.id = sequence + 1 /\ new.event.tx = t
      /\ new.previous = tx[t].tip /\ new.hash = Hash(new.previous, new.event)
  BY <1>0 DEF NewRecord, NextEvent
<1>3. rows' = rows /\ purged' = purged /\ Written' = Written
  BY DEF Insert, Written
<1>4. All' = All \union {new} /\ Present' = Present \union {new}
  BY <1>1, <1>3 DEF All, Present
<1>5. \A r \in All : r.id \in Nat /\ r.id < new.id /\ ~ (new.id < r.id)
  <2>1. sequence \in Nat
    BY <1>1 DEF Base, TypeOK
  <2> QED BY <1>1, <1>2, <2>1, AllAreRecords, RecordShape DEF Base, Ids
<1>6. Present \subseteq All /\ new.id \in Nat
  BY <1>1, RecordShape DEF Present, All, Written
<1>7. Hashed'
  BY <1>2, <1>4 DEF Chain, Hashed
<1>8. \A s \in All : Passed(s)' <=> Passed(s)
  BY <1>1, <1>4, <1>5, WritersStay DEF Passed
<1>9. ASSUME NEW s \in All, NEW r \in Present', Before(r, s, All'), ~ Passed(s)'
      PROVE  s.previous = r.hash
  <2>1. r \in Present
    BY <1>4, <1>5, <1>9 DEF Before
  <2>2. Before(r, s, All)
    BY <1>4, <1>9 DEF Before
  <2> QED BY <1>8, <1>9, <2>1, <2>2 DEF Chain, Chained
<1>10. ASSUME NEW r \in Present', Before(r, new, All'), ~ Passed(new)'
       PROVE  new.previous = r.hash
  <2>1. r \in Present /\ r \in All
    BY <1>4, <1>6, <1>10 DEF Before
  <2>2. \A q \in All : q.id <= r.id
    BY <1>4, <1>5, <1>10, <2>1 DEF Before
  <2>3. tx'[t].mode = tx[t].mode /\ tx'[t].snapshot = tx[t].snapshot
    <3>1. PICK x : tx' = [tx EXCEPT ![t].pc = "commit",
                                    ![t].own = @ \union {x},
                                    ![t].tip = Genesis]
      BY DEF Insert
    <3>2. tx \in [Tx -> Transaction]
      BY <1>1 DEF Base, TypeOK
    <3> QED BY <3>1, <3>2 DEF Transaction
  <2>4. Seen(t) \subseteq All
    BY <1>1 DEF Seen, All, Base, Owned
  <2>5. r \in Seen(t)
    <3>1. CASE tx[t].mode = "read committed"
      BY <1>1, <2>1, <3>1 DEF Seen, All
    <3>2. CASE tx[t].mode = "repeatable read"
      <4>1. r \in tx[t].snapshot \/ r.event.tx = t
        <5>1. r \in All' /\ r.id < new.id
          BY <1>4, <1>5, <2>1
        <5> QED BY <1>2, <1>10, <2>3, <3>2, <5>1 DEF Passed
      <4>2. r.event.tx = t /\ r \in Written => FALSE
        BY <1>1 DEF Base, Owned, Insert, At
      <4> QED BY <1>1, <2>1, <3>2, <4>1, <4>2 DEF Seen, All
    <3>3. tx[t].mode \in Modes
      BY <1>1 DEF Base, TypeOK, Transaction
    <3> QED BY <3>1, <3>2, <3>3 DEF Modes
  <2>6. r \in purged \/ tx[t].tip = r.hash
    <3>1. tx[t].pc = "insert"
      BY DEF Insert, At
    <3> QED BY <2>2, <2>4, <2>5, <3>1 DEF Chain, TipIsLast
  <2>7. r \notin purged
    <3>1. CASE r \in rows
      BY <1>1, <3>1 DEF Base, Ids
    <3>2. CASE r \in InFlight
      BY <1>1, <1>5, <2>1, <3>2 DEF Base, Ids, Written
    <3> QED BY <2>1, <3>1, <3>2 DEF Present
  <2> QED BY <1>2, <2>6, <2>7
<1>11. Chained'
  BY <1>4, <1>9, <1>10 DEF Chained
<1>12. TipIsLast'
  <2>1. ASSUME NEW u \in Tx PROVE tx'[u].pc # "insert"
    <3>1. PICK x : tx' = [tx EXCEPT ![t].pc = "commit",
                                    ![t].own = @ \union {x},
                                    ![t].tip = Genesis]
      BY DEF Insert
    <3>2. tx \in [Tx -> Transaction]
      BY <1>1 DEF Base, TypeOK
    <3>3. CASE u = t
      BY <3>1, <3>2, <3>3 DEF Transaction
    <3>4. CASE u # t
      <4>1. tx'[u] = tx[u]
        BY <3>1, <3>2, <3>4
      <4> QED BY <1>1, <3>4, <4>1 DEF Base, Held
    <3> QED BY <3>3, <3>4
  <2> QED BY <2>1 DEF TipIsLast
<1>13. FrontFirst'
  BY <1>3 DEF Chain, FrontFirst
<1> QED BY <1>1, <1>7, <1>11, <1>12, <1>13 DEF Chain

LEMMA ChainNext == Chain /\ [Next]_vars => Chain'
<1> SUFFICES ASSUME Chain, [Next]_vars PROVE Chain'
  OBVIOUS
<1>1. CASE Tick \/ UNCHANGED vars
  BY <1>1, ChainTick
<1>2. ASSUME NEW t \in Tx, NEW mode \in Modes, Begin(t, mode) PROVE Chain'
  BY <1>2, ChainQuiet
<1>3. ASSUME NEW t \in Tx, Step(t) \/ Again(t) \/ Rollback(t) PROVE Chain'
  BY <1>3, ChainQuiet, ChainInsert, ChainCommit, ChainRollback DEF Step
<1>4. ASSUME NEW cutoff \in 0 .. clock, Purge(cutoff) PROVE Chain'
  BY <1>4, ChainPurge
<1> QED BY <1>1, <1>2, <1>3, <1>4 DEF Next

LEMMA ChainIsSound == Chain => ChainVerifies
<1> SUFFICES ASSUME Chain, Ordered, \A s \in Written : ~ Overtaken(s)
             PROVE  Verifies(rows, {})
  BY DEF ChainVerifies
<1>1. Base /\ rows \subseteq Written /\ Written \subseteq All
  BY DEF Chain, Written, All
<1>2. \A r \in All : r.id \in Nat /\ r.event.at \in Nat
  BY <1>1, AllAreRecords, RecordShape, Bounds DEF Base, Time
<1>3. ASSUME NEW s \in rows, NEW r \in rows, Before(r, s, rows)
      PROVE  s.previous = r.hash
  <2>1. \A q \in InFlight : ~ (q.id < s.id)
    <3>1. \A q \in InFlight : s.id < q.id /\ q.id \in Nat
      BY <1>1, <1>2 DEF Base, Ids, All
    <3> QED BY <1>1, <1>2, <3>1
  <2>2. \A q \in purged : ~ (r.id < q.id /\ q.id < s.id)
    <3> SUFFICES ASSUME NEW q \in purged, r.id < q.id, q.id < s.id PROVE FALSE
      OBVIOUS
    <3>1. q.event.at < r.event.at
      BY DEF Chain, FrontFirst
    <3>2. r.event.at <= q.event.at
      BY <1>1 DEF Ordered, Written
    <3>3. q \in All /\ r \in All
      BY DEF All, Written
    <3> QED BY <1>2, <3>1, <3>2, <3>3
  <2>3. Before(r, s, All)
    BY <1>3, <2>1, <2>2 DEF Before, All, Written
  <2>4. ~ Passed(s)
    <3>1. ~ Overtaken(s)
      BY <1>1
    <3> QED BY <2>1, <3>1 DEF Passed, Overtaken, All
  <2>5. s \in All /\ r \in Present
    BY DEF All, Written, Present
  <2> QED BY <2>3, <2>4, <2>5 DEF Chain, Chained
<1>4. \A s \in rows : s.hash = Hash(s.previous, s.event)
  BY <1>1 DEF Chain, Hashed
<1> QED BY <1>3, <1>4 DEF Verifies

(* ChainVerifies: for any interleaving of appends, rollbacks and purges,   *)
(* `verify_chain` accepts the trail unless the times of the records cross  *)
(* their order or an append at REPEATABLE READ was overtaken.              *)
THEOREM TrailVerifies == Spec => []ChainVerifies
  BY ChainInit, ChainNext, ChainIsSound, PTL DEF Spec
-----------------------------------------------------------------------------
(* Verification.                                                           *)

LEMMA HashIsInjective ==
  ASSUME NEW p \in EventHash, NEW d \in Event, NEW e \in Event
  PROVE  /\ Hash(p, d) # p
         /\ Hash(p, d) = Hash(p, e) => d = e
<1>1. /\ Len(Append(p, d)) = Len(p) + 1 /\ Len(p) \in Nat
      /\ Append(p, d)[Len(p) + 1] = d /\ Append(p, e)[Len(p) + 1] = e
  BY DEF EventHash
<1> QED BY <1>1 DEF Hash

(* A set of naturals has a smallest member.                                *)
LEMMA Smallest ==
  ASSUME NEW S, S # {}, S \subseteq Nat
  PROVE  \E m \in S : \A k \in S : m <= k
<1> DEFINE R == {p \in Nat \X Nat : p[1] < p[2]}
<1>1. IsWellFoundedOn(R, Nat)
  BY NatLessThanWellFounded DEF OpToRel
<1> HIDE DEF R
<1>2. PICK m \in S : \A k \in S : ~ (<<k, m>> \in R)
  BY <1>1, WFMin
<1>3. ASSUME NEW k \in S PROVE m <= k
  <2>1. ~ (k < m)
    BY <1>2 DEF R
  <2> QED BY <2>1
<1> QED BY <1>3

LEMMA Successor ==
  ASSUME NEW trail \in SUBSET Record, NEW s \in trail,
         \E u \in trail : s.id < u.id
  PROVE  \E u \in trail : Before(s, u, trail)
<1> DEFINE I == {u.id : u \in {v \in trail : s.id < v.id}}
<1>1. I # {} /\ I \subseteq Nat
  BY RecordShape
<1> HIDE DEF I
<1>2. PICK m \in I : \A k \in I : m <= k
  BY <1>1, Smallest
<1>3. PICK u \in trail : s.id < u.id /\ u.id = m
  BY DEF I
<1>4. ASSUME NEW q \in trail, s.id < q.id, q.id < u.id PROVE FALSE
  <2>1. u.id <= q.id
    BY <1>2, <1>3, <1>4 DEF I
  <2>2. u.id \in Nat /\ q.id \in Nat
    BY RecordShape
  <2> QED BY <1>4, <2>1, <2>2
<1> QED BY <1>3, <1>4 DEF Before

LEMMA Predecessor ==
  ASSUME NEW trail \in SUBSET Record, NEW s \in trail,
         \E r \in trail : r.id < s.id
  PROVE  \E r \in trail : Before(r, s, trail)
<1> DEFINE S == {v \in trail : v.id < s.id}
<1>1. /\ S # {} /\ S \in SUBSET Record /\ s.id \in Nat
      /\ \A v \in S : v.id <= s.id
  BY RecordShape
<1> HIDE DEF S
<1>2. Newest(S) \in S /\ \A q \in S : q.id <= Newest(S).id
  BY <1>1, NewestIsThere
<1>3. PICK r \in trail : r.id < s.id /\ \A q \in S : q.id <= r.id
  BY <1>2 DEF S
<1>4. ASSUME NEW q \in trail, r.id < q.id, q.id < s.id PROVE FALSE
  <2>1. q.id <= r.id
    BY <1>3, <1>4 DEF S
  <2>2. r.id \in Nat /\ q.id \in Nat
    BY RecordShape
  <2> QED BY <1>4, <2>1, <2>2
<1> QED BY <1>3, <1>4 DEF Before

LEMMA TamperingShows == Base => TamperEvident
<1> SUFFICES ASSUME Base, Verifies(rows, {}), NEW s \in rows
             PROVE  LET opaque == rows \ {s} IN
                    /\ (\E r, u \in rows : r.id < s.id /\ s.id < u.id)
                         => ~ Verifies(rows \ {s}, opaque)
                    /\ \A e \in Event \ {s.event} :
                         LET edited == [s EXCEPT !.event = e]
                             rehashed == [edited EXCEPT !.hash = Hash(s.previous, e)]
                         IN  /\ ~ Verifies((rows \ {s}) \union {edited}, opaque)
                             /\ (\E u \in rows : s.id < u.id)
                                  => ~ Verifies((rows \ {s}) \union {rehashed}, opaque)
  BY DEF TamperEvident
<1>1. /\ rows \in SUBSET Record /\ s \in Record
      /\ \A r \in rows : r.id = s.id => r = s
  BY DEF Base, TypeOK, Ids, All, Written
<1>2. \A r \in rows : /\ r.id \in Nat /\ r.event \in Event
                      /\ r.previous \in EventHash /\ r.hash \in EventHash
  BY <1>1, RecordShape
<1>3. s.hash = Hash(s.previous, s.event)
  BY DEF Verifies
<1>4. ASSUME \E r, u \in rows : r.id < s.id /\ s.id < u.id
      PROVE  ~ Verifies(rows \ {s}, rows \ {s})
  <2>1. PICK r \in rows : Before(r, s, rows)
    BY <1>1, <1>4, Predecessor
  <2>2. PICK u \in rows : Before(s, u, rows)
    BY <1>1, <1>4, Successor
  <2>3. s.previous = r.hash /\ u.previous = s.hash
    BY <2>1, <2>2 DEF Verifies
  <2>4. u.previous # r.hash
    BY <1>2, <1>3, <2>3, HashIsInjective
  <2>5. r \in rows \ {s} /\ u \in rows \ {s}
    BY <1>2, <2>1, <2>2 DEF Before
  <2>6. Before(r, u, rows \ {s})
    <3>1. r.id < s.id /\ s.id < u.id
      BY <2>1, <2>2 DEF Before
    <3>2. ASSUME NEW q \in rows \ {s}, r.id < q.id, q.id < u.id PROVE FALSE
      <4>1. ~ (q.id < s.id) /\ ~ (s.id < q.id)
        BY <2>1, <2>2, <3>2 DEF Before
      <4> QED BY <1>1, <1>2, <4>1
    <3> QED BY <1>2, <3>1, <3>2 DEF Before
  <2> QED BY <2>4, <2>5, <2>6 DEF Verifies
<1>5. ASSUME NEW e \in Event \ {s.event}
      PROVE  LET edited == [s EXCEPT !.event = e]
                 rehashed == [edited EXCEPT !.hash = Hash(s.previous, e)]
             IN  /\ ~ Verifies((rows \ {s}) \union {edited}, rows \ {s})
                 /\ (\E u \in rows : s.id < u.id)
                      => ~ Verifies((rows \ {s}) \union {rehashed}, rows \ {s})
  <2> DEFINE edited == [s EXCEPT !.event = e]
             rehashed == [edited EXCEPT !.hash = Hash(s.previous, e)]
  <2>2. /\ edited.id = s.id /\ edited.event = e
        /\ edited.previous = s.previous /\ edited.hash = s.hash
    BY <1>1 DEF Record
  <2>3. rehashed.id = s.id /\ rehashed.hash = Hash(s.previous, e)
    BY <1>1 DEF Record
  <2> HIDE DEF edited, rehashed
  <2>4. s.hash # Hash(s.previous, e)
    BY <1>2, <1>3, <1>5, HashIsInjective
  <2>5. edited \notin rows
    BY <1>1, <2>2, <1>5
  <2>6. ~ Verifies((rows \ {s}) \union {edited}, rows \ {s})
    BY <2>2, <2>4, <2>5 DEF Verifies
  <2>7. ASSUME \E u \in rows : s.id < u.id
        PROVE  ~ Verifies((rows \ {s}) \union {rehashed}, rows \ {s})
    <3>1. PICK u \in rows : Before(s, u, rows)
      BY <1>1, <2>7, Successor
    <3>2. u.previous = s.hash
      BY <3>1 DEF Verifies
    <3>3. u \in rows \ {s}
      BY <1>2, <3>1 DEF Before
    <3>4. Before(rehashed, u, (rows \ {s}) \union {rehashed})
      BY <1>2, <2>3, <3>1 DEF Before
    <3>5. u.previous # rehashed.hash
      BY <2>3, <2>4, <3>2
    <3> QED BY <3>3, <3>4, <3>5 DEF Verifies
  <2> QED BY <2>6, <2>7 DEF edited, rehashed
<1> QED BY <1>4, <1>5

(* TamperEvident: `chain::verify` refuses a trail it accepted once a       *)
(* record is taken out of its middle or edited, whichever of the others it *)
(* can read.                                                               *)
THEOREM TamperingIsSeen == Spec => []TamperEvident
  BY BaseInit, BaseNext, TamperingShows, PTL DEF Spec

-----------------------------------------------------------------------------
(* Forks.                                                                  *)

(* The chain forks through an overtaken append at REPEATABLE READ, and in  *)
(* no other way: neither concurrency at READ COMMITTED nor a rollback nor  *)
(* a purge, of the front or of the middle, makes two records of the table  *)
(* follow the same one.                                                    *)
ForksExplained ==
  \A r, s \in rows : r.id < s.id /\ r.previous = s.previous => Overtaken(s)

(* The events of one transaction are numbered, and no two are the same.    *)
Numbered ==
  /\ \A t \in Tx : \A s \in tx[t].own : s.event.n <= Cardinality(tx[t].own)
  /\ \A r, s \in All : r.event.tx = s.event.tx /\ r.event.n = s.event.n => r = s

(* A tip that was read is the hash of a record, no older than any record   *)
(* of the table that its reader sees.                                      *)
Tips ==
  \A t \in Tx : tx[t].pc = "insert" =>
    /\ tx[t].tip = Genesis \/ \E q \in All : tx[t].tip = q.hash
    /\ \A r \in Seen(t) \cap Present : \E q \in All : r.id <= q.id /\ tx[t].tip = q.hash

(* So is what a record says it follows.                                    *)
Links ==
  \A s \in All :
    /\ s.previous = Genesis \/ \E q \in All : q.id < s.id /\ s.previous = q.hash
    /\ \A r \in Present : r.id < s.id /\ ~ Passed(s) =>
         \E q \in All : r.id <= q.id /\ q.id < s.id /\ s.previous = q.hash

ForkInv == Chain /\ Numbered /\ Tips /\ Links

LEMMA ForkInit == Init => ForkInv
<1> SUFFICES ASSUME Init PROVE ForkInv
  OBVIOUS
<1>1. All = {} /\ \A t \in Tx : tx[t].pc = "idle" /\ tx[t].own = {}
  BY DEF Init, All, Written, InFlight
<1> QED BY <1>1, ChainInit DEF ForkInv, Numbered, Tips, Links

(* Steps that write, commit, remove and purge nothing                      *)
LEMMA ForkQuiet ==
  ASSUME ForkInv, NEW t \in Tx,
         \/ \E mode \in Modes : Begin(t, mode)
         \/ Write(t) \/ Lock(t) \/ ReadTip(t) \/ Again(t)
  PROVE  ForkInv'
<1> USE DEF At
<1>0. Chain /\ Chain' /\ Base /\ tx \in [Tx -> Transaction]
  BY ChainQuiet DEF ForkInv, Chain, Base, TypeOK
<1>1. /\ InFlight' = InFlight /\ rows' = rows /\ purged' = purged
  BY <1>0, BaseQuiet DEF Begin, Write, Lock, ReadTip, Again
<1>2. All' = All /\ Present' = Present /\ Written' = Written
  BY <1>1 DEF All, Present, Written
<1>3. \A s \in All : Passed(s)' = Passed(s)
  BY <1>0, <1>2, WritersStay DEF Passed
<1>4. Links'
  BY <1>2, <1>3 DEF ForkInv, Links
<1>5. \A u \in Tx : tx'[u].own = tx[u].own
  <2>1. CASE \E mode \in Modes : Begin(t, mode)
    <3>1. PICK mode, view : tx' = [tx EXCEPT ![t].pc = "write", ![t].mode = mode,
                                             ![t].snapshot = view]
      BY <2>1 DEF Begin
    <3> QED BY <1>0, <3>1 DEF Transaction
  <2>2. CASE Write(t) \/ Lock(t) \/ ReadTip(t) \/ Again(t)
    BY <1>0, <2>2 DEF Write, Lock, ReadTip, Again, Transaction
  <2> QED BY <2>1, <2>2
<1>6. Numbered'
  BY <1>2, <1>5 DEF ForkInv, Numbered
<1>7. \A u \in Tx \ {t} : tx'[u] = tx[u]
  BY ZenonT(60), <1>0 DEF Begin, Write, Lock, ReadTip, Again
<1>8. ASSUME NEW u \in Tx, tx'[u].pc = "insert", tx'[u] = tx[u]
      PROVE  /\ tx'[u].tip = Genesis \/ \E q \in All : tx'[u].tip = q.hash
             /\ \A r \in Seen(u)' \cap Present :
                  \E q \in All : r.id <= q.id /\ tx'[u].tip = q.hash
  <2>1. Seen(u)' = Seen(u)
    BY <1>2, <1>8 DEF Seen
  <2>2. tx[u].pc = "insert" /\ tx'[u].tip = tx[u].tip
    BY <1>8
  <2> QED BY <2>1, <2>2 DEF ForkInv, Tips
<1>9. CASE ReadTip(t)
  <2>1. holder = t
    BY <1>0, <1>9 DEF ReadTip, Base, Held
  <2>2. tx'[t].tip = TipOf(Visible(t)) /\ Seen(t)' = Seen(t)
    BY <1>0, <1>2, <1>9 DEF ReadTip, Seen, Transaction
  <2>3. /\ Visible(t) \subseteq All /\ Visible(t) \subseteq Record /\ sequence \in Nat
        /\ \A q \in Visible(t) : q.id <= sequence
    BY <1>0, <2>1, VisibleIsWritten, AllAreRecords DEF Base, TypeOK
  <2>4. Visible(t) # {} => /\ Newest(Visible(t)) \in Visible(t)
                           /\ \A q \in Visible(t) : q.id <= Newest(Visible(t)).id
    BY <2>3, NewestIsThere
  <2>5. tx'[t].tip = Genesis \/ \E q \in All : tx'[t].tip = q.hash
    BY <2>2, <2>3, <2>4 DEF TipOf
  <2>6. ASSUME NEW r \in Seen(t), r \in Present
        PROVE  \E q \in All : r.id <= q.id /\ tx'[t].tip = q.hash
    <3>1. r \in Visible(t)
      <4>1. InFlight = tx[t].own  BY <2>1, Bounds DEF InFlight
      <4> QED BY <2>6, <4>1 DEF Seen, Visible, Present
    <3> QED BY <2>2, <2>3, <2>4, <3>1 DEF TipOf
  <2> HIDE DEF ReadTip
  <2>7. Tips'
    BY <1>2, <1>7, <1>8, <2>2, <2>5, <2>6 DEF Tips
  <2> QED BY <1>0, <1>4, <1>6, <2>7 DEF ForkInv
<1>10. CASE ~ ReadTip(t)
  <2>1. tx'[t].pc # "insert"
    BY ZenonT(60), <1>0, <1>10 DEF Begin, Write, Lock, Again, Transaction
  <2>2. Tips'
    BY <1>2, <1>7, <1>8, <2>1 DEF Tips
  <2> QED BY <1>0, <1>4, <1>6, <2>2 DEF ForkInv
<1> QED BY <1>9, <1>10

LEMMA ForkTick ==
  ASSUME ForkInv, Tick \/ UNCHANGED vars
  PROVE  ForkInv'
<1>1. Chain' /\ InFlight' = InFlight
  BY ChainTick, BaseTick DEF ForkInv, Chain
<1>2. UNCHANGED <<rows, purged, tx>>
  BY DEF Tick, vars
<1>3. All' = All /\ Present' = Present /\ Written' = Written
  BY <1>1, <1>2 DEF All, Present, Written
<1> QED BY <1>1, <1>2, <1>3 DEF ForkInv, Numbered, Tips, Links, Passed, Seen

LEMMA ForkPurge ==
  ASSUME ForkInv, NEW cutoff \in 0 .. clock, Purge(cutoff)
  PROVE  ForkInv'
<1>1. /\ InFlight' = InFlight /\ Written' = Written /\ Chain'
      /\ rows' = rows \ Outdated(cutoff)
  BY PurgeEffect, ChainPurge DEF ForkInv, Chain
<1>2. tx' = tx
  BY DEF Purge
<1>3. All' = All /\ Present' \subseteq Present
  BY <1>1 DEF All, Present
<1>4. Numbered' /\ Links'
  BY <1>2, <1>3 DEF ForkInv, Numbered, Links, Passed
<1>5. Tips'
  BY <1>1, <1>2, <1>3 DEF ForkInv, Tips, Seen
<1> QED BY <1>1, <1>4, <1>5 DEF ForkInv

LEMMA ForkCommit ==
  ASSUME ForkInv, NEW t \in Tx, Commit(t)
  PROVE  ForkInv'
<1>1. /\ Base /\ Base' /\ Chain' /\ holder = t /\ InFlight' = {}
      /\ rows' = rows \union InFlight /\ All' = All
  BY CommitEffect, ChainCommit DEF ForkInv, Chain
<1>2. Present' = Present
  BY <1>1 DEF Present
<1>3. \A s \in All : Passed(s)' = Passed(s)
  BY <1>1, WritersStay DEF Passed
<1>4. Links'
  BY <1>1, <1>2, <1>3 DEF ForkInv, Links
<1>5. tx' = [tx EXCEPT ![t].pc = "committed", ![t].own = {}] /\ tx \in [Tx -> Transaction]
  BY <1>1 DEF Commit, Base, TypeOK
<1>6. \A u \in Tx : tx'[u].own = {} \/ tx'[u] = tx[u]
  BY <1>5 DEF Transaction
<1>7. Numbered'
  BY <1>1, <1>6 DEF ForkInv, Numbered
<1>8. Tips'
  <2>1. \A u \in Tx : tx'[u].pc # "insert"
    BY <1>1, Bounds DEF Base, Held, Commit, Released
  <2> QED BY <2>1 DEF Tips
<1> QED BY <1>1, <1>4, <1>7, <1>8 DEF ForkInv

LEMMA ForkRollback ==
  ASSUME ForkInv, NEW t \in Tx, Rollback(t)
  PROVE  ForkInv'
<1>1. /\ Base /\ Chain' /\ rows' = rows /\ purged' = purged /\ Written' = Written
      /\ holder = t => InFlight' = {}
      /\ holder # t => InFlight' = InFlight
  BY RollbackEffect, ChainRollback DEF ForkInv, Chain
<1>2. All' \subseteq All /\ Present' \subseteq Present
  BY <1>1 DEF All, Present
<1>3. \A s \in All' : \A q \in All : q.id < s.id => q \in All'
  BY <1>1, RollbackBelow
<1>4. \A s \in All' : Passed(s)' <=> Passed(s)
  BY <1>1, <1>2, <1>3, WritersStay DEF Passed
<1>5. Links'
  BY <1>2, <1>3, <1>4 DEF ForkInv, Links
<1>6. /\ tx \in [Tx -> Transaction]
      /\ tx' = [tx EXCEPT ![t].pc = "rolled back", ![t].own = {}]
  BY <1>1 DEF Rollback, Base, TypeOK
<1>7. /\ tx'[t].pc # "insert" /\ tx'[t].own = {}
      /\ \A u \in Tx \ {t} : tx'[u] = tx[u]
  BY <1>6 DEF Transaction
<1>8. Numbered'
  BY <1>2, <1>7 DEF ForkInv, Numbered
<1>9. Tips'
  <2> SUFFICES ASSUME NEW u \in Tx, tx'[u].pc = "insert"
               PROVE  /\ tx'[u].tip = Genesis \/ \E q \in All' : tx'[u].tip = q.hash
                      /\ \A r \in Seen(u)' \cap Present' :
                           \E q \in All' : r.id <= q.id /\ tx'[u].tip = q.hash
    BY DEF Tips
  <2>1. u # t /\ tx'[u] = tx[u]
    BY <1>7
  <2>2. holder = u
    BY <1>1, <2>1 DEF Base, Held
  <2>3. All' = All /\ Present' = Present
    BY <1>1, <2>1, <2>2 DEF All, Present
  <2>4. Seen(u)' = Seen(u)
    BY <1>1, <2>1 DEF Seen
  <2>5. tx[u].pc = "insert" /\ tx'[u].tip = tx[u].tip
    BY <2>1
  <2> QED BY <2>3, <2>4, <2>5 DEF ForkInv, Tips
<1> QED BY <1>1, <1>5, <1>8, <1>9 DEF ForkInv

LEMMA ForkInsert ==
  ASSUME ForkInv, NEW t \in Tx, Insert(t)
  PROVE  ForkInv'
<1>0. PICK new : new = NewRecord(t)
  OBVIOUS
<1>1. /\ Base /\ Base' /\ Chain' /\ holder = t /\ InFlight = tx[t].own
      /\ new \in Record /\ InFlight' = InFlight \union {new}
  BY <1>0, InsertEffect, ChainInsert DEF ForkInv, Chain
<1>2. /\ new.id = sequence + 1 /\ new.event.tx = t /\ new.previous = tx[t].tip
      /\ new.event.n = Cardinality(tx[t].own) + 1
  BY <1>0 DEF NewRecord, NextEvent
<1>3. rows' = rows /\ purged' = purged /\ Written' = Written
  BY DEF Insert, Written
<1>4. All' = All \union {new} /\ Present' = Present \union {new}
  BY <1>1, <1>3 DEF All, Present
<1>5. \A r \in All : r.id \in Nat /\ r.id < new.id /\ ~ (new.id < r.id)
  <2>1. sequence \in Nat
    BY <1>1 DEF Base, TypeOK
  <2> QED BY <1>1, <1>2, <2>1, AllAreRecords, RecordShape DEF Base, Ids
<1>6. Present \subseteq All /\ new.id \in Nat /\ ~ (new.id < new.id)
  BY <1>1, RecordShape DEF Present, All, Written
<1>7. \A s \in All : Passed(s)' <=> Passed(s)
  BY <1>1, <1>4, <1>5, WritersStay DEF Passed
<1>8. /\ tx \in [Tx -> Transaction] /\ tx[t].pc = "insert"
      /\ tx' = [tx EXCEPT ![t].pc = "commit", ![t].own = @ \union {new}, ![t].tip = Genesis]
  BY <1>0, <1>1 DEF Insert, At, Base, TypeOK
<1>9. /\ tx'[t].mode = tx[t].mode /\ tx'[t].snapshot = tx[t].snapshot
      /\ tx'[t].own = tx[t].own \union {new} /\ tx'[t].pc = "commit"
      /\ \A u \in Tx \ {t} : tx'[u] = tx[u]
  BY <1>8 DEF Transaction
<1>10. ASSUME NEW r \in Present, ~ Passed(new)'
       PROVE  r \in Seen(t)
  <2>1. CASE tx[t].mode = "read committed"
    BY <1>1, <2>1 DEF Seen, Present, Written
  <2>2. CASE tx[t].mode = "repeatable read"
    <3>1. r \in tx[t].snapshot \/ r.event.tx = t
      <4>1. r \in All' /\ r.id < new.id
        BY <1>4, <1>5, <1>6
      <4> QED BY <1>2, <1>9, <1>10, <2>2, <4>1 DEF Passed
    <3>2. ~ (r.event.tx = t /\ r \in rows)
      BY <1>1, <1>8 DEF Base, Owned, Written
    <3> QED BY <1>1, <2>2, <3>1, <3>2 DEF Seen, Present
  <2>3. tx[t].mode \in Modes
    BY <1>8 DEF Transaction
  <2> QED BY <2>1, <2>2, <2>3 DEF Modes
<1>11. /\ new.previous = Genesis \/ \E q \in All : q.id < new.id /\ new.previous = q.hash
       /\ \A r \in Present : ~ Passed(new)' =>
            \E q \in All : r.id <= q.id /\ q.id < new.id /\ new.previous = q.hash
  BY <1>2, <1>5, <1>8, <1>10 DEF ForkInv, Tips
<1>12. Links'
  <2>1. ASSUME NEW s \in All
        PROVE  /\ s.previous = Genesis \/ \E q \in All' : q.id < s.id /\ s.previous = q.hash
               /\ \A r \in Present' : r.id < s.id /\ ~ Passed(s)' =>
                    \E q \in All' : r.id <= q.id /\ q.id < s.id /\ s.previous = q.hash
    BY <1>4, <1>5, <1>7 DEF ForkInv, Links
  <2>2. /\ new.previous = Genesis \/ \E q \in All' : q.id < new.id /\ new.previous = q.hash
        /\ \A r \in Present' : r.id < new.id /\ ~ Passed(new)' =>
             \E q \in All' : r.id <= q.id /\ q.id < new.id /\ new.previous = q.hash
    BY <1>4, <1>6, <1>11
  <2> QED BY <1>4, <2>1, <2>2 DEF Links
<1>13. /\ IsFiniteSet(tx[t].own) /\ Cardinality(tx[t].own) \in Nat
       /\ Cardinality(tx[t].own \union {new}) = Cardinality(tx[t].own) + 1
  <2>1. IsFiniteSet(tx[t].own)
    BY <1>1 DEF Base, Sizes
  <2>2. new \notin tx[t].own
    BY <1>1, <1>5, <1>6 DEF All
  <2> QED BY <2>1, <2>2, FS_CardinalityType, FS_AddElement
<1>14. \A s \in tx[t].own : s.event.n \in Nat /\ s.event.n <= Cardinality(tx[t].own)
  <2>1. \A s \in tx[t].own : s \in Record
    BY <1>8 DEF Transaction
  <2> QED BY <2>1, Bounds DEF ForkInv, Numbered, Record, Event
<1>15. Numbered'
  <2>1. ASSUME NEW u \in Tx, NEW s \in tx'[u].own
        PROVE  s.event.n <= Cardinality(tx'[u].own)
    <3>1. CASE u = t
      <4>1. Cardinality(tx'[t].own) = Cardinality(tx[t].own) + 1
        BY <1>9, <1>13
      <4>2. CASE s = new
        BY <1>2, <1>13, <3>1, <4>1, <4>2
      <4>3. CASE s \in tx[t].own
        BY <1>13, <1>14, <3>1, <4>1, <4>3
      <4> QED BY <1>9, <2>1, <3>1, <4>2, <4>3
    <3>2. CASE u # t
      BY <1>9, <2>1, <3>2 DEF ForkInv, Numbered
    <3> QED BY <3>1, <3>2
  <2>2. ASSUME NEW r \in All, r.event.tx = t PROVE r.event.n # new.event.n
    <3>1. r \in tx[t].own
      BY <1>1, <1>8, <2>2 DEF All, Base, Owned
    <3> QED BY <1>2, <1>13, <1>14, <3>1
  <2>3. \A r, s \in All' : r.event.tx = s.event.tx /\ r.event.n = s.event.n => r = s
    BY <1>2, <1>4, <2>2 DEF ForkInv, Numbered
  <2> QED BY <2>1, <2>3 DEF Numbered
<1>16. Tips'
  <2>1. \A u \in Tx : tx'[u].pc # "insert"
    BY <1>1, <1>9, Bounds DEF Base, Held
  <2> QED BY <2>1 DEF Tips
<1> QED BY <1>1, <1>12, <1>15, <1>16 DEF ForkInv

LEMMA ForkNext == ForkInv /\ [Next]_vars => ForkInv'
<1> SUFFICES ASSUME ForkInv, [Next]_vars PROVE ForkInv'
  OBVIOUS
<1>1. CASE Tick \/ UNCHANGED vars
  BY <1>1, ForkTick
<1>2. ASSUME NEW t \in Tx, NEW mode \in Modes, Begin(t, mode) PROVE ForkInv'
  BY <1>2, ForkQuiet
<1>3. ASSUME NEW t \in Tx, Step(t) \/ Again(t) \/ Rollback(t) PROVE ForkInv'
  BY <1>3, ForkQuiet, ForkInsert, ForkCommit, ForkRollback DEF Step
<1>4. ASSUME NEW cutoff \in 0 .. clock, Purge(cutoff) PROVE ForkInv'
  BY <1>4, ForkPurge
<1> QED BY <1>1, <1>2, <1>3, <1>4 DEF Next

(* What passed a record of the table is in the table, or was.              *)
LEMMA PassedInTable ==
  ASSUME Base, NEW s \in rows, Passed(s)
  PROVE  Overtaken(s)
<1>1. \A q \in All : q.id \in Nat
  BY AllAreRecords, RecordShape DEF Base
<1>2. \A q \in InFlight : ~ (q.id < s.id)
  <2>1. \A q \in InFlight : s.id < q.id
    BY DEF Base, Ids, Written
  <2> QED BY <1>1, <2>1 DEF All, Written
<1>3. PICK q \in All \ tx[s.event.tx].snapshot : q.id < s.id /\ q.event.tx # s.event.tx
  BY DEF Passed
<1>4. q \in Written
  BY <1>2, <1>3 DEF All
<1> QED BY <1>3, <1>4 DEF Passed, Overtaken

(* Two records that follow the same one would be hashed over two records   *)
(* with one event, and no event is written twice.                          *)
LEMMA ForkIsOvertaken == ForkInv => ForksExplained
<1> SUFFICES ASSUME ForkInv, NEW r \in rows, NEW s \in rows, r.id < s.id,
                    r.previous = s.previous, ~ Overtaken(s)
             PROVE  FALSE
  BY DEF ForksExplained
<1>1. Base /\ r \in All /\ s \in All /\ r \in Present
  BY DEF ForkInv, Chain, All, Written, Present
<1>2. \A q \in All : q \in Record /\ q.id \in Nat /\ q.hash = Append(q.previous, q.event)
  BY <1>1, AllAreRecords, RecordShape DEF ForkInv, Chain, Hashed, Hash, Base
<1>3. ~ Passed(s)
  BY <1>1, PassedInTable
<1>4. PICK q \in All : r.id <= q.id /\ q.id < s.id /\ s.previous = q.hash
  BY <1>1, <1>3 DEF ForkInv, Links
<1>5. q.hash # Genesis
  BY <1>2, RecordShape DEF Genesis, EventHash
<1>6. PICK p \in All : p.id < r.id /\ r.previous = p.hash
  BY <1>1, <1>4, <1>5 DEF ForkInv, Links
<1>7. p.event = q.event
  <2>1. Append(p.previous, p.event) = Append(q.previous, q.event)
    BY <1>2, <1>4, <1>6
  <2>2. p.previous \in Seq(Event) /\ q.previous \in Seq(Event) /\ p.event \in Event /\ q.event \in Event
    BY <1>2, RecordShape DEF EventHash
  <2> QED BY <2>1, <2>2, HashIsInjective DEF Hash, EventHash
<1>8. p = q
  BY <1>7 DEF ForkInv, Numbered
<1> QED BY <1>1, <1>2, <1>4, <1>6, <1>8

(* ForksExplained: for any number of transactions, rollbacks and purges,   *)
(* also where the times of the records cross their order, a fork is the    *)
(* work of an append at REPEATABLE READ that another one overtook.         *)
THEOREM ForksHaveOneCause == Spec => []ForksExplained
  BY ForkInit, ForkNext, ForkIsOvertaken, PTL DEF Spec
=============================================================================

------------------------------- MODULE Audit -------------------------------
(***************************************************************************)
(* The audit trail of one tenant: the hash chain of `audit_events` and the *)
(* transactions that append to it.                                         *)
(*                                                                         *)
(* `append` runs on its caller's connection, beside the change it records, *)
(* in four statements: the tenant's advisory lock, the tip, the hash, the  *)
(* insert.  The lock is the transaction's and ends with it.  Every caller  *)
(* runs at READ COMMITTED, where the tip is read as of its own statement,  *)
(* but one: an access review is started at REPEATABLE READ, and reads the  *)
(* tip in the snapshot of its first query.  Each statement is a step.      *)
(*                                                                         *)
(* SHA-256 has no collisions here: the hash of a record is the sequence of *)
(* events up to it, and the genesis hash is the empty one.  Tenants share  *)
(* no record, so there is one.                                             *)
(***************************************************************************)
EXTENDS Integers, Sequences, FiniteSets

CONSTANTS
  Tx,          \* transactions that append, each run once
  None,
  MaxAppends,  \* bound: records of one transaction
  MaxClock     \* bound: the clock

ASSUME TxAssumption == IsFiniteSet(Tx) /\ None \notin Tx
ASSUME BoundsAssumption == MaxAppends \in Nat \ {0} /\ MaxClock \in Nat

VARIABLES
  clock,
  sequence,  \* the identity column's counter
  rows,      \* the committed records
  purged,    \* history: the committed records retention deleted
  holder,    \* who holds the tenant's advisory lock
  tx

vars == <<clock, sequence, rows, purged, holder, tx>>

-----------------------------------------------------------------------------

Time == 0 .. MaxClock
Modes == {"read committed", "repeatable read"}

Event == [tx : Tx, n : 1 .. MaxAppends, at : Time]

EventHash == Seq(Event)

Genesis == << >>

(* chain::hash *)
Hash(previous, event) == Append(previous, event)

Record == [id : Nat, event : Event, previous : EventHash, hash : EventHash]

Phases == {"idle", "write", "lock", "tip", "insert", "commit",
           "committed", "rolled back"}

Transaction ==
  [pc : Phases, mode : Modes, snapshot : SUBSET Record, at : Time,
   own : SUBSET Record, tip : EventHash]

Written == rows \union purged

(* ---- chain::verify over the trail in the order of event_id --------------- *)

(* r is the record read just before s *)
Before(r, s, trail) ==
  /\ r.id < s.id
  /\ \A q \in trail : ~ (r.id < q.id /\ q.id < s.id)

(* MUTANT: only the links are followed                                       *)
VerifiesLinks(trail, opaque) ==
  \A r, s \in trail : Before(r, s, trail) => s.previous = r.hash

(* The first record follows what it says it follows, and every other the     *)
(* hash stored before it; a record this build cannot read is Opaque, and is  *)
(* checked for its link only.                                                *)
Verifies(trail, opaque) ==
  \A s \in trail :
    /\ \A r \in trail : Before(r, s, trail) => s.previous = r.hash
    /\ s \notin opaque => s.hash = Hash(s.previous, s.event)

-----------------------------------------------------------------------------

Init ==
  /\ clock = 0 /\ sequence = 0
  /\ rows = {} /\ purged = {}
  /\ holder = None
  /\ tx = [t \in Tx |-> [pc |-> "idle", mode |-> "read committed",
                         snapshot |-> {}, at |-> 0, own |-> {},
                         tip |-> Genesis]]

Tick ==
  /\ clock < MaxClock
  /\ clock' = clock + 1
  /\ UNCHANGED <<sequence, rows, purged, holder, tx>>

At(t, pc) == tx[t].pc = pc

(* A transaction opens.  At REPEATABLE READ its first query fixes what it    *)
(* will see of the others.                                                   *)
Begin(t, mode) ==
  /\ At(t, "idle")
  /\ tx' = [tx EXCEPT ![t].pc = "write", ![t].mode = mode,
                      ![t].snapshot = IF mode = "repeatable read" THEN rows
                                                                  ELSE {}]
  /\ UNCHANGED <<clock, sequence, rows, purged, holder>>

(* The caller's own writes, and the time that its events will carry          *)
Write(t) ==
  /\ At(t, "write")
  /\ tx' = [tx EXCEPT ![t].pc = "lock", ![t].at = clock]
  /\ UNCHANGED <<clock, sequence, rows, purged, holder>>

(* pg_advisory_xact_lock: waits for any other holder, and is its own         *)
(* holder's to take again                                                    *)
Lock(t) ==
  /\ At(t, "lock")
  /\ holder \in {None, t}
  /\ holder' = t
  /\ tx' = [tx EXCEPT ![t].pc = "tip"]
  /\ UNCHANGED <<clock, sequence, rows, purged>>

(* What a statement of the transaction sees                                  *)
Visible(t) ==
  tx[t].own \union IF tx[t].mode = "read committed" THEN rows
                                                     ELSE tx[t].snapshot

(* MUTANT: the tip is the record with the latest time                        *)
NewestByTime(trail) ==
  CHOOSE r \in trail : \A q \in trail : q.event.at <= r.event.at

Newest(trail) == CHOOSE r \in trail : \A q \in trail : q.id <= r.id

TipOf(trail) == IF trail = {} THEN Genesis ELSE Newest(trail).hash

ReadTip(t) ==
  /\ At(t, "tip")
  /\ tx' = [tx EXCEPT ![t].pc = "insert", ![t].tip = TipOf(Visible(t))]
  /\ UNCHANGED <<clock, sequence, rows, purged, holder>>

NextEvent(t) == [tx |-> t, n |-> Cardinality(tx[t].own) + 1, at |-> tx[t].at]

NewRecord(t) ==
  [id |-> sequence + 1, event |-> NextEvent(t), previous |-> tx[t].tip,
   hash |-> Hash(tx[t].tip, NextEvent(t))]

(* MUTANT: the append gives the lock back itself                             *)
InsertReleasing(t) ==
  /\ At(t, "insert")
  /\ sequence' = sequence + 1
  /\ tx' = [tx EXCEPT ![t].pc = "commit", ![t].own = @ \union {NewRecord(t)},
                      ![t].tip = Genesis]
  /\ holder' = None
  /\ UNCHANGED <<clock, rows, purged>>

(* audit_events_hash_unique refuses a hash the tenant already has            *)
Insert(t) ==
  /\ At(t, "insert")
  /\ \A r \in rows \union tx[t].own : r.hash # NewRecord(t).hash
  /\ sequence' = sequence + 1
  /\ tx' = [tx EXCEPT ![t].pc = "commit", ![t].own = @ \union {NewRecord(t)},
                      ![t].tip = Genesis]
  /\ UNCHANGED <<clock, rows, purged, holder>>

(* A synchronisation appends once for each account it changes                *)
Again(t) ==
  /\ At(t, "commit")
  /\ Cardinality(tx[t].own) < MaxAppends
  /\ tx' = [tx EXCEPT ![t].pc = "lock"]
  /\ UNCHANGED <<clock, sequence, rows, purged, holder>>

Released(t) == IF holder = t THEN None ELSE holder

Commit(t) ==
  /\ At(t, "commit")
  /\ rows' = rows \union tx[t].own
  /\ holder' = Released(t)
  /\ tx' = [tx EXCEPT ![t].pc = "committed", ![t].own = {}]
  /\ UNCHANGED <<clock, sequence, purged>>

(* MUTANT: the lock is given back by the handler when it has committed       *)
RollbackHolding(t) ==
  /\ tx[t].pc \in {"write", "lock", "tip", "insert", "commit"}
  /\ tx' = [tx EXCEPT ![t].pc = "rolled back", ![t].own = {}]
  /\ UNCHANGED <<clock, sequence, rows, purged, holder>>

(* An error of any statement, or the connection is lost.  The counter of an  *)
(* identity column is not rolled back.                                       *)
Rollback(t) ==
  /\ tx[t].pc \in {"write", "lock", "tip", "insert", "commit"}
  /\ holder' = Released(t)
  /\ tx' = [tx EXCEPT ![t].pc = "rolled back", ![t].own = {}]
  /\ UNCHANGED <<clock, sequence, rows, purged>>

Outdated(cutoff) == {r \in rows : r.event.at < cutoff}

(* purge_older_than: one delete, which takes no advisory lock                *)
Purge(cutoff) ==
  /\ Outdated(cutoff) # {}
  /\ rows' = rows \ Outdated(cutoff)
  /\ purged' = purged \union Outdated(cutoff)
  /\ UNCHANGED <<clock, sequence, holder, tx>>

Step(t) ==
  \/ Write(t)
  \/ Lock(t)
  \/ ReadTip(t)
  \/ Insert(t)
  \/ Commit(t)

Next ==
  \/ Tick
  \/ \E t \in Tx, mode \in Modes : Begin(t, mode)
  \/ \E t \in Tx : Step(t) \/ Again(t) \/ Rollback(t)
  \/ \E cutoff \in 0 .. clock : Purge(cutoff)

Spec == Init /\ [][Next]_vars

(* A handler that reaches a statement executes it, unless it dies and its    *)
(* transaction is rolled back.  PostgreSQL grants a lock that is free to     *)
(* whoever waits for it.                                                     *)
FairSpec == Spec /\ \A t \in Tx : WF_vars(Step(t))

-----------------------------------------------------------------------------

(* The sequence counts every insert; the lock is held by a transaction that  *)
(* is past `pg_advisory_xact_lock` and has not ended, or by nobody.          *)
TypeOK ==
  /\ clock \in Time /\ sequence \in Nat
  /\ rows \subseteq Record /\ purged \subseteq Record
  /\ tx \in [Tx -> Transaction]
  /\ holder \in Tx \union {None}
  /\ holder # None => tx[holder].pc \in {"lock", "tip", "insert", "commit"}

(* The time of a record is never before that of a record written earlier:    *)
(* appenders take the lock in the order in which they read the clock.        *)
Ordered == \A r, s \in Written : r.id < s.id => r.event.at <= s.event.at

(* A record was committed between the snapshot of a REPEATABLE READ          *)
(* transaction and its own append.                                           *)
Overtaken(s) ==
  /\ tx[s.event.tx].mode = "repeatable read"
  /\ \E r \in Written \ tx[s.event.tx].snapshot :
       r.id < s.id /\ r.event.tx # s.event.tx

(* `verify_chain` accepts the trail after any interleaving of appends,       *)
(* rollbacks and purges, as long as the times of the records follow their    *)
(* order and no append at REPEATABLE READ was overtaken.  Either exception   *)
(* makes it report a tampering that never happened.                          *)
ChainVerifies ==
  Ordered /\ (\A s \in Written : ~ Overtaken(s)) => Verifies(rows, {})

(* What `verify_chain` accepts it accepts no longer once somebody who can    *)
(* write the table takes a record out of the middle, edits one it can read,  *)
(* or edits one and computes its hash anew, unless that is the newest.       *)
(* It finds out even if this is the only record it can read.                 *)
TamperEvident ==
  Verifies(rows, {}) =>
    \A s \in rows : LET opaque == rows \ {s} IN
      /\ (\E r, u \in rows : r.id < s.id /\ s.id < u.id)
           => ~ Verifies(rows \ {s}, opaque)
      /\ \A e \in Event \ {s.event} :
           LET edited == [s EXCEPT !.event = e]
               rehashed == [edited EXCEPT !.hash = Hash(s.previous, e)]
           IN  /\ ~ Verifies((rows \ {s}) \union {edited}, opaque)
               /\ (\E u \in rows : s.id < u.id)
                    => ~ Verifies((rows \ {s}) \union {rehashed}, opaque)

(* Records become visible in the order of `event_id`, whatever the order in  *)
(* which their transactions began: a reader that has paged past an id will   *)
(* never find a record it missed below it, and `verify` reads the trail in   *)
(* the order in which it was chained.                                        *)
CommittedInOrder ==
  [][\A s \in rows' \ rows : \A r \in Written : r.id < s.id]_vars

(* Every transaction that reached its append ends: the lock is given back by *)
(* whoever held it, committed or not.                                        *)
AppendsEnd == \A t \in Tx : At(t, "lock") ~> tx[t].pc \in {"committed",
                                                            "rolled back"}

(* "A record written beside a client row and one written by the sink cannot  *)
(* read the same tip and fork the chain" (`append`).                         *)
NeverForks == \A r, s \in rows : r # s => r.previous # s.previous

=============================================================================

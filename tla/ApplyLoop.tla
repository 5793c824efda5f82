----------------------------- MODULE ApplyLoop -----------------------------
(***************************************************************************)
(* Db::apply_remote as it is written: one batch, sorted, stored record by   *)
(* record inside one transaction, then each touched row rebuilt, then the   *)
(* vector raised.  The transaction may fail at any point and is then rolled *)
(* back; the clock, which is in memory, is not.  After a failure records    *)
(* are asked for again and the next batch finds what the failed one left.   *)
(* The operators of module Merge, which module Replica applies in one step, *)
(* are checked against it.                                                 *)
(***************************************************************************)
EXTENDS Merge

CONSTANTS Held,       \* sets of records a replica may hold before the batch
          Batches,    \* sets of records that may arrive
          Clocks,     \* what the replica's clock may be
          Readings,   \* what its wall clock may show
          MaxClock    \* bound: a batch follows a failed one while clk is at most this

ASSUME ApplyLoopAssumption ==
  /\ \A S \in Held \cup Batches : /\ S \subseteq Change /\ IsFiniteSet(S)
                                 /\ \A r \in S : r.col # None => r.val \in Val
  /\ Clocks \subseteq Nat /\ Readings \subseteq Nat /\ MaxClock \in Nat

VARIABLES
  disk,    \* the committed tables: log, cell, tomb, vv, row
  tx,      \* the tables as the transaction sees them
  clk,     \* HybridClock.last
  todo,    \* the records of `sorted` still to be stored
  dirty,   \* the rows to rebuild
  raised,  \* vv_max, per origin
  start,   \* history: disk and clk when the batch arrived, and the batch
  phys,    \* the reading of the wall clock throughout the batch
  phase    \* "store", "rebuild", "committed" or "failed"

vars == <<disk, tx, clk, todo, dirty, raised, start, phys, phase>>

Tables == [log : SUBSET Change, cell : SUBSET Change, tomb : SUBSET Change,
           vv : [Device -> 0..MaxStamp], row : [Pk -> Row \cup {None}]]

(* Bug: the last record of the batch is kept, older than what is held or not. *)
UpsertOneMutant(table, rec) == {x \in table : ~SameKey(x, rec)} \cup {rec}

(* upsert_cell and upsert_tombstone.                                       *)
UpsertOne(table, rec) ==
  IF \E x \in table : SameKey(x, rec) /\ ~IncomingWins(rec, x)
    THEN table
    ELSE {x \in table : ~SameKey(x, rec)} \cup {rec}

(* The record that order_key puts first.                                   *)
First == CHOOSE r \in todo : \A s \in todo \ {r} : IncomingWins(s, r)

(* store_change hits the unique index on (origin, hlc).                    *)
Duplicate(r) == \E s \in tx.log : s.origin = r.origin /\ s.hlc = r.hlc
-----------------------------------------------------------------------------
Skip ==
  /\ phase = "store" /\ todo # {}
  /\ Duplicate(First)
  /\ todo' = todo \ {First}
  /\ UNCHANGED <<disk, tx, clk, dirty, raised, start, phys, phase>>

StoreOne ==
  /\ phase = "store" /\ todo # {}
  /\ ~Duplicate(First)
  /\ clk' = ObserveOne(clk, phys, First.hlc)
  /\ tx' = [tx EXCEPT !.log = @ \cup {First},
                      !.cell = IF First.col # None THEN UpsertOne(@, First) ELSE @,
                      !.tomb = IF First.col = None THEN UpsertOne(@, First) ELSE @]
  /\ raised' = [raised EXCEPT ![First.origin] = Max({@, First.hlc})]
  /\ dirty' = dirty \cup {First.pk}
  /\ todo' = todo \ {First}
  /\ UNCHANGED <<disk, start, phys, phase>>

EndStore ==
  /\ phase = "store" /\ todo = {}
  /\ phase' = "rebuild"
  /\ UNCHANGED <<disk, tx, clk, todo, dirty, raised, start, phys>>

Rebuild ==
  /\ phase = "rebuild"
  /\ \E pk \in dirty :
       /\ tx' = [tx EXCEPT !.row[pk] = Materialize(tx.cell, tx.tomb, pk, @, Col)]
       /\ dirty' = dirty \ {pk}
  /\ UNCHANGED <<disk, clk, todo, raised, start, phys, phase>>

Commit ==
  /\ phase = "rebuild" /\ dirty = {}
  /\ disk' = [tx EXCEPT !.vv = [o \in Device |-> Max({@[o], raised[o]})]]
  /\ phase' = "committed"
  /\ UNCHANGED <<tx, clk, todo, dirty, raised, start, phys>>

(* Bug: no transaction: every statement before the rebuild stands. *)
RolledBackMutant == [tx EXCEPT !.row = disk.row]

(* What is on disk when the transaction is dropped before its commit.      *)
RolledBack == disk

(* An error: the statements are undone, what the clock absorbed is not.    *)
Fail ==
  /\ phase \in {"store", "rebuild"}
  /\ disk' = RolledBack
  /\ phase' = "failed"
  /\ UNCHANGED <<tx, clk, todo, dirty, raised, start, phys>>
-----------------------------------------------------------------------------
(* What a replica holds that received `held` in one batch.                 *)
Replicated(held) ==
  LET cells == Upsert({}, Cells(held))
      tombs == Upsert({}, Deletes(held))
  IN  [log |-> held, cell |-> cells, tomb |-> tombs,
       vv  |-> BumpVV([o \in Device |-> 0], held),
       row |-> [pk \in Pk |-> Materialize(cells, tombs, pk, None, Col)]]

OfOneHistory(S) == \A r, s \in S : r.origin = s.origin /\ r.hlc = s.hlc => r = s

(* The batch that comes after a failed one: the same records asked for      *)
(* again, or others.                                                       *)
Retry ==
  /\ phase = "failed" /\ clk <= MaxClock
  /\ todo' \in Batches /\ OfOneHistory(disk.log \cup todo')
  /\ phys' \in Readings
  /\ tx' = disk
  /\ dirty' = {} /\ raised' = [o \in Device |-> 0]
  /\ start' = [disk |-> disk, clk |-> clk, batch |-> todo']
  /\ phase' = "store"
  /\ UNCHANGED <<disk, clk>>

Init ==
  /\ clk \in Clocks /\ phys \in Readings
  /\ todo \in Batches
  /\ \E held \in Held : OfOneHistory(held \cup todo) /\ disk = Replicated(held)
  /\ tx = disk
  /\ dirty = {} /\ raised = [o \in Device |-> 0]
  /\ start = [disk |-> disk, clk |-> clk, batch |-> todo]
  /\ phase = "store"

Next == Skip \/ StoreOne \/ EndStore \/ Rebuild \/ Commit \/ Fail \/ Retry

Spec == Init /\ [][Next]_vars
-----------------------------------------------------------------------------
TypeOK == /\ disk \in Tables /\ tx \in Tables
          /\ clk \in Nat /\ raised \in [Device -> 0..MaxStamp]

(* What Replica takes as the outcome of a batch is what the loop leaves on  *)
(* disk and in the clock.                                                  *)
Outcome ==
  LET fresh == Fresh(start.disk.log, start.batch)
      cells == Upsert(start.disk.cell, Cells(fresh))
      tombs == Upsert(start.disk.tomb, Deletes(fresh))
  IN  [log  |-> start.disk.log \cup fresh, cell |-> cells, tomb |-> tombs,
       vv   |-> BumpVV(start.disk.vv, fresh),
       row  |-> [pk \in Pk |-> IF \E r \in fresh : r.pk = pk
                                 THEN Materialize(cells, tombs, pk, start.disk.row[pk], Col)
                                 ELSE start.disk.row[pk]]]

LoopIsOneStep ==
  phase = "committed" => /\ disk = Outcome
                         /\ clk = Observe(start.clk, phys, Fresh(start.disk.log, start.batch))

(* What a batch leaves behind is what a replica holds which received        *)
(* everything at once: how records are divided into batches leaves no       *)
(* trace, and neither do the batches that failed before this one, at any    *)
(* record or row.                                                          *)
BatchingLeavesNoTrace ==
  phase = "committed" => disk = Replicated(start.disk.log \cup start.batch)
=============================================================================

------------------------------- MODULE Merge -------------------------------
(***************************************************************************)
(* What a replica computes when records are stamped and merged: the hybrid *)
(* clock of p2p-core/src/hlc.rs, the last-writer-wins tables and the rows  *)
(* materialised from them, of p2p-core/src/db/mod.rs.  Each operator gives *)
(* the outcome of a whole batch; module ApplyLoop checks them against the  *)
(* record-by-record loop of the code.                                      *)
(***************************************************************************)
EXTENDS Records, FlatClock

CONSTANTS NCols,      \* non-key columns, in the table's declared order
          Pk,         \* primary keys
          Val,        \* column values
          Default,    \* the value a NOT NULL DEFAULT column is created with
          None,       \* no row; also the column and the value of a deletion
          Required    \* the columns that are NOT NULL and have no default

Col    == 1..NCols
Row    == [Col -> Val]

ASSUME MergeAssumption ==
  /\ NCols \in Nat /\ Drift \in Nat
  /\ Required \subseteq Col
  /\ Default \in Val /\ None \notin Val /\ None \notin Col /\ None \notin Row

Change == [pk : Pk, col : Col \cup {None}, val : Val \cup {None},
           hlc : Stamp, origin : Device]

Deletes(S) == {r \in S : r.col = None}
Cells(S)   == {r \in S : r.col # None}
-----------------------------------------------------------------------------
(* The clock.                                                              *)

(* Bug: stamps received from peers are not folded into the clock. *)
ObserveMutant(last, phys, batch) == last

(* The clock after `observe` ran for each record of a batch in order, the  *)
(* wall clock showing phys throughout.  Every record advances it by one; a *)
(* record within the drift window also lifts it past its own stamp, and    *)
(* the later records of the batch advance it from there.                   *)
Observe(last, phys, batch) ==
  LET n        == Cardinality(batch)
      absorbed == {r \in batch : r.hlc <= phys + Drift}
      onward(r) == Cardinality({s \in batch : ~IncomingWins(r, s)})
  IN  IF batch = {} THEN last
      ELSE Max({last + n, phys + n - 1} \cup {r.hlc + onward(r) : r \in absorbed})
-----------------------------------------------------------------------------
(* The merge.                                                              *)

SameKey(r, s) == r.pk = s.pk /\ r.col = s.col

(* Bug: an arriving record replaces what is held without the comparison. *)
UpsertMutant(table, recs) ==
  {r \in table : \A s \in recs : ~SameKey(r, s)} \cup
  {r \in recs : \A s \in recs : SameKey(r, s) => ~IncomingWins(s, r)}

(* A cell or tombstone table after an upsert of each record: per key, what *)
(* no other record beats.                                                  *)
Upsert(table, recs) ==
  {r \in table \cup recs :
     \A s \in table \cup recs : SameKey(r, s) => ~IncomingWins(s, r)}

-----------------------------------------------------------------------------
(* Rows from merged state.                                                 *)

CellAt(cells, pk, c) == {x \in cells : x.pk = pk /\ x.col = c}

(* Bug: a deletion hides the row whatever was written after it. *)
DeadMutant(cells, tombs, pk) == \E t \in tombs : t.pk = pk

(* A row is hidden while its tombstone outranks every cell.                *)
Dead(cells, tombs, pk) ==
  \E t \in tombs : t.pk = pk /\
    \A x \in cells : x.pk = pk => IncomingWins(t, x)

(* Bug: a column without a cell is written as NULL. *)
ValueAtMutant(cells, old, pk, c) ==
  IF CellAt(cells, pk, c) # {}
    THEN (CHOOSE x \in CellAt(cells, pk, c) : TRUE).val ELSE None

(* A column without a cell keeps what an existing row has, and is created  *)
(* with its default otherwise.                                             *)
ValueAt(cells, old, pk, c) ==
  IF CellAt(cells, pk, c) # {}
    THEN (CHOOSE x \in CellAt(cells, pk, c) : TRUE).val
  ELSE IF old = None THEN Default ELSE old[c]

(* Bug: INSERT OR IGNORE, so a row that exists is never updated. *)
MaterializeMutant(cells, tombs, pk, old, cols) ==
  LET known == {x \in cells : x.col \in cols}
  IN  IF \A x \in cells \cup tombs : x.pk # pk THEN old
      ELSE IF Dead(cells, tombs, pk) THEN None
      ELSE IF old # None \/ \E c \in Required : CellAt(known, pk, c) = {} THEN old
      ELSE [c \in Col |-> ValueAt(known, old, pk, c)]

(* The row after materialize, by a device that knows the columns cols of   *)
(* the table.  Without a cell for a required column the statement fails    *)
(* and the row stays as it is.                                             *)
Materialize(cells, tombs, pk, old, cols) ==
  LET known == {x \in cells : x.col \in cols}
  IN  IF \A x \in cells \cup tombs : x.pk # pk THEN old
      ELSE IF Dead(cells, tombs, pk) THEN None
      ELSE IF \E c \in Required : CellAt(known, pk, c) = {} THEN old
      ELSE [c \in Col |-> ValueAt(known, old, pk, c)]

CellMatches(cells, pk, c, value) == \E x \in CellAt(cells, pk, c) : x.val = value
=============================================================================

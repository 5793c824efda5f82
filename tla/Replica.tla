------------------------------ MODULE Replica ------------------------------
(***************************************************************************)
(* The replicas of an organisation: p2p-core/src/db and the clock of       *)
(* p2p-core/src/hlc.rs.  One table is modelled, with rows Pk and columns   *)
(* Col.  The application writes rows, the capture triggers stage which     *)
(* rows were touched, a flush turns staged rows into stamped records, and  *)
(* records that arrive are stored, merged and materialised into rows.  The *)
(* table is registered with all its columns from the start and no device   *)
(* stops; module TableRegistry goes on from there.                         *)
(*                                                                         *)
(* How records travel is left open here: a delivery may carry any part of  *)
(* what another device holds, at any time, again and in any order.  The    *)
(* modules that model the protocol restrict it.                            *)
(***************************************************************************)
EXTENDS Merge

CONSTANTS Readings,   \* Readings[d]: what d's wall clock can show
          Writers,    \* devices whose application writes
          Input,      \* the values applications write
          ReuseKeys   \* may an application insert under a key once deleted?

ASSUME ReplicaAssumption ==
  /\ IsFiniteSet(Pk)
  /\ Readings \in [Device -> SUBSET Nat]
  /\ Writers \subseteq Device /\ Input \subseteq Val
  /\ ReuseKeys \in BOOLEAN
  /\ None \notin {"upsert", "delete"} /\ \A cols \in SUBSET Col : None # cols

VARIABLES
  clk,    \* clk[d]: HybridClock.last
  log,    \* log[d]: the records of _p2p_change
  cell,   \* cell[d]: _p2p_cell, the winning record of each cell
  tomb,   \* tomb[d]: _p2p_tombstone, the winning deletion of each row
  vv,     \* vv[d][o]: _p2p_vv, 0 when there is no entry
  row,    \* row[d][pk]: the application's row, or None
  ops     \* ops[d][pk]: the last operation staged for the row, or None

vars == <<clk, log, cell, tomb, vv, row, ops>>
-----------------------------------------------------------------------------
(* The application's writes.  Each is one SQL statement; the triggers, if   *)
(* they are installed (live), stage the rows it touched in the same        *)
(* transaction.                                                            *)

Stage(d, touched, live) ==
  ops' = IF live THEN [ops EXCEPT ![d] = [pk \in Pk |->
                         IF pk \in DOMAIN touched THEN touched[pk] ELSE @[pk]]]
         ELSE ops

Written(d) == UNCHANGED <<clk, log, cell, tomb, vv>>

AppInsert(d, pk, new, live) ==
  /\ row[d][pk] = None
  /\ ReuseKeys \/ \A r \in log[d] : r.pk # pk
  /\ row' = [row EXCEPT ![d][pk] = new]
  /\ Stage(d, [k \in {pk} |-> "upsert"], live)
  /\ Written(d)

(* An UPDATE sets a column, or leaves it as it is, and may change the key:  *)
(* the row is staged under its new key and the old key as deleted.         *)
AppUpdate(d, pk, to, c, value, live) ==
  /\ row[d][pk] # None
  /\ value \in Input \/ value = row[d][pk][c]
  /\ to # pk => /\ row[d][to] = None
                /\ ReuseKeys \/ \A r \in log[d] : r.pk # to
  /\ row' = [row EXCEPT ![d][pk] = None, ![d][to] = [row[d][pk] EXCEPT ![c] = value]]
  /\ Stage(d, [k \in {pk, to} |-> IF k = to THEN "upsert" ELSE "delete"], live)
  /\ Written(d)

AppDelete(d, pk, live) ==
  /\ row[d][pk] # None
  /\ row' = [row EXCEPT ![d][pk] = None]
  /\ Stage(d, [k \in {pk} |-> "delete"], live)
  /\ Written(d)
-----------------------------------------------------------------------------
(* Turning staged rows into records.                                       *)

(* What a flush will author: <<pk, None>> deletes the row, <<pk, c>> sets  *)
(* one column whose value differs from its cell.  A staged deletion of a   *)
(* row that is back is an upsert; a staged upsert of a row that is gone is *)
(* nothing, and so is anything staged for a table that is not known.  Here *)
(* and below, spec is the table's entry in Db.tables: the set of its       *)
(* columns, or None.                                                       *)
Edits(d, spec) ==
  IF spec = None THEN {}
  ELSE {<<pk, None>> : pk \in {p \in Pk : ops[d][p] = "delete" /\ row[d][p] = None}}
       \cup
       {e \in Pk \X spec : /\ ops[d][e[1]] # None
                           /\ row[d][e[1]] # None
                           /\ ~CellMatches(cell[d], e[1], e[2], row[d][e[1]][e[2]])}

(* The ways the clock can stamp those edits: consecutive ticks from phys,  *)
(* the columns of a row in declared order, the rows in any order.          *)
Stampings(last, phys, edits) ==
  LET first == Tick(last, phys)
  IN  {st \in [edits -> first..(first + Cardinality(edits) - 1)] :
         \A a, b \in edits :
           /\ a # b => st[a] # st[b]
           /\ a[1] = b[1] /\ a[2] \in Col /\ b[2] \in Col /\ a[2] < b[2]
                => st[a] < st[b]}

Record(d, e, stamp) ==
  [pk |-> e[1], col |-> e[2], hlc |-> stamp, origin |-> d,
   val |-> IF e[2] = None THEN None ELSE row[d][e[1]][e[2]]]

FlushWith(d, spec) ==
  /\ \E pk \in Pk : ops[d][pk] # None
  /\ \E phys \in Readings[d] : \E st \in Stampings(clk[d], phys, Edits(d, spec)) :
       LET recs == {Record(d, e, st[e]) : e \in Edits(d, spec)}
       IN  /\ \A r \in recs : r.hlc <= MaxStamp
           /\ log'  = [log  EXCEPT ![d] = @ \cup recs]
           /\ cell' = [cell EXCEPT ![d] = Upsert(@, Cells(recs))]
           /\ tomb' = [tomb EXCEPT ![d] = Upsert(@, Deletes(recs))]
           /\ vv'   = [vv   EXCEPT ![d] = BumpVV(@, recs)]
           /\ clk'  = [clk  EXCEPT ![d] = Highest({@} \cup {r.hlc : r \in recs})]
  /\ ops' = [ops EXCEPT ![d] = [pk \in Pk |-> None]]
  /\ UNCHANGED row

FlushLocal(d) == FlushWith(d, Col)
-----------------------------------------------------------------------------
(* Storing what arrives.                                                   *)

(* Records of a table that is not known are stored and rebuild no row.     *)
ApplyRemote(d, batch, spec) ==
  \E phys \in Readings[d] :
    LET fresh == Fresh(log[d], batch)
        cells == Upsert(cell[d], Cells(fresh))
        tombs == Upsert(tomb[d], Deletes(fresh))
        dirty == IF spec = None THEN {} ELSE {r.pk : r \in fresh}
    IN  /\ log'  = [log  EXCEPT ![d] = @ \cup fresh]
        /\ cell' = [cell EXCEPT ![d] = cells]
        /\ tomb' = [tomb EXCEPT ![d] = tombs]
        /\ vv'   = [vv   EXCEPT ![d] = BumpVV(@, fresh)]
        /\ clk'  = [clk  EXCEPT ![d] = Observe(@, phys, fresh)]
        /\ row'  = [row  EXCEPT ![d] =
                      [pk \in Pk |-> IF pk \in dirty
                                       THEN Materialize(cells, tombs, pk, @[pk], spec)
                                       ELSE @[pk]]]
        /\ UNCHANGED ops

(* Records of e reach d: some that d lacks, perhaps with all that d has.   *)
DeliverWith(d, e, spec) ==
  \E new \in SUBSET (log[e] \ log[d]), again \in {{}, log[e] \cap log[d]} :
    /\ new \cup again # {}
    /\ ApplyRemote(d, new \cup again, spec)

Deliver(d, e) == DeliverWith(d, e, Col)
-----------------------------------------------------------------------------
Init ==
  /\ clk  = [d \in Device |-> 0]
  /\ log  = [d \in Device |-> {}]
  /\ cell = [d \in Device |-> {}]
  /\ tomb = [d \in Device |-> {}]
  /\ vv   = [d \in Device |-> [o \in Device |-> 0]]
  /\ row  = [d \in Device |-> [pk \in Pk |-> None]]
  /\ ops  = [d \in Device |-> [pk \in Pk |-> None]]

(* The application of d writes to a table that has the columns cols.  The   *)
(* columns a table does not have are kept at Default, which is what they   *)
(* hold when they are added.                                               *)
App(d, cols, live) ==
  \/ \E pk \in Pk : \E new \in [cols -> Input] :
       AppInsert(d, pk, [c \in Col |-> IF c \in cols THEN new[c] ELSE Default], live)
  \/ \E pk, to \in Pk, c \in cols, value \in Val : AppUpdate(d, pk, to, c, value, live)
  \/ \E pk \in Pk : AppDelete(d, pk, live)

Local ==
  \/ \E d \in Writers : App(d, Col, TRUE)
  \/ \E d \in Device : FlushLocal(d)

Next ==
  \/ Local
  \/ \E d \in Device : \E e \in Device \ {d} : Deliver(d, e)

Spec == Init /\ [][Next]_vars
-----------------------------------------------------------------------------
(* The replicas keep the types of their variables; in particular a column  *)
(* of a row never holds None, which is what NOT NULL DEFAULT columns ask   *)
(* of materialize.                                                         *)
TypeOK ==
  /\ clk  \in [Device -> Nat]
  /\ log  \in [Device -> SUBSET Change]
  /\ cell \in [Device -> SUBSET Change]
  /\ tomb \in [Device -> SUBSET Change]
  /\ vv   \in [Device -> [Device -> 0..MaxStamp]]
  /\ row  \in [Device -> [Pk -> Row \cup {None}]]
  /\ ops  \in [Device -> [Pk -> {None, "upsert", "delete"}]]

(* The order of the organisation's records, as change.rs states it: by     *)
(* stamp, the origin breaking ties.                                        *)
SortsAfter(r, s) == r.hlc > s.hlc \/ (r.hlc = s.hlc /\ r.origin > s.origin)

Newest(S) == {r \in S : \A s \in S : SameKey(r, s) => ~SortsAfter(s, r)}

(* db/mod.rs: merging is commutative, associative and idempotent.  However *)
(* records arrived, the merged tables are a function of the set of records *)
(* held: the newest record of each cell and of each tombstone.             *)
LastWriterWins == \A d \in Device : /\ cell[d] = Newest(Cells(log[d]))
                                    /\ tomb[d] = Newest(Deletes(log[d]))

(* change.rs: "Highest stamp held from each device".                       *)
VVIsHighest == \A d, o \in Device :
  vv[d][o] = Highest({r.hlc : r \in {x \in log[d] : x.origin = o}})

(* change.rs: "`(origin, hlc)` is globally unique", across devices,        *)
(* deliveries and clocks set back.  Promises is the abstract specification *)
(* every replica history must implement.                                   *)
Promises == INSTANCE ChangeLog

StampsUnique == Promises!StampsUnique

Implements == Promises!Spec

(* A row shows the newest records about it, in the columns cols: it exists  *)
(* when some column was set after the row was last deleted, provided every *)
(* required column was ever set, and each column has the value it was last *)
(* set to.                                                                 *)
RowShowsNewest(d, pk, cols) ==
  LET about == {r \in log[d] : r.pk = pk}
      alive == \E r \in Cells(about) : \A t \in Deletes(about) : SortsAfter(r, t)
      whole == \A c \in Required : \E r \in about : r.col = c
  IN  /\ ~alive => row[d][pk] = None
      /\ alive /\ whole =>
           /\ row[d][pk] # None
           /\ \A r \in Newest(Cells(about)) : r.col \in cols => row[d][pk][r.col] = r.val

(* mod.rs, materialize: a row is what its cells and its tombstone say.  A   *)
(* row with nothing staged shows the newest records about it.              *)
RowsShowNewest == \A d \in Device, pk \in Pk : ops[d][pk] = None => RowShowsNewest(d, pk, Col)

(* db/mod.rs: two replicas that have exchanged the same changes "end up    *)
(* byte-identical".                                                        *)
TablesConverge == \A d, e \in Device :
  /\ log[d] = log[e]
  /\ \A pk \in Pk : ops[d][pk] = None /\ ops[e][pk] = None
  => row[d] = row[e]

(* hlc.rs: received stamps are folded into the clock "so that any write we *)
(* make afterwards sorts after everything we have already seen".           *)
WritesSortLast ==
  [][\A d \in Device : \A r \in log'[d] \ log[d], s \in log[d] :
       r.origin = d => SortsAfter(r, s)]_vars

(* README: "Two people editing different fields of the same row while      *)
(* apart both keep their edit".  A delivery that is not about a column     *)
(* leaves the value the application has just written there.                *)
EditsSurvive ==
  [][\A d \in Device, pk \in Pk, c \in Col :
       LET arrived == {r \in log'[d] \ log[d] : r.pk = pk}
       IN  (/\ ops[d][pk] = "upsert" /\ row[d][pk] # None
            /\ arrived # {} /\ \A r \in arrived : r.origin # d /\ r.col \notin {c, None})
           => row'[d][pk] # None /\ row'[d][pk][c] = row[d][pk][c]]_vars
=============================================================================

--------------------------- MODULE RegistryProofs ---------------------------
(***************************************************************************)
(* What replicas guarantee while tables are registered, changed and        *)
(* registered again, with calls that use an old copy of the map and with   *)
(* crashes anywhere, for any number of devices, rows and columns.          *)
(*                                                                         *)
(* The invariant of ReplicaProofs does not depend on what a device knows   *)
(* of the table, and reopening a database puts its clock on the highest    *)
(* stamp it gave out.  Beside it stand the facts about shapes: columns are *)
(* only added to the table, so whatever shape was read of it stays within  *)
(* it, in the map, in _p2p_synced_table and in every registration in       *)
(* progress, however these overlap.                                        *)
(***************************************************************************)
EXTENDS TableRegistry, ReplicaProofs

Known == Shapes \cup {None}

(* A shape that some call read of d's table.                               *)
Read(d, cols) == First \subseteq cols /\ cols \subseteq table[d]

ShapesGrow(d) ==
  /\ Read(d, table[d])
  /\ held[d] \subseteq (SUBSET table[d]) \cup {None}
  /\ synced[d] # None => Read(d, synced[d])
  /\ spec[d] # None => synced[d] # None /\ Read(d, spec[d])
  /\ \A k \in Callers : reg[d][k] # None =>
       /\ Read(d, reg[d][k].cols)
       /\ reg[d][k].step = "stored" => synced[d] # None

Call == [step : {"read", "stored"}, cols : Shapes]

ShapesTyped ==
  /\ table \in [Device -> Shapes] /\ live \in [Device -> BOOLEAN]
  /\ synced \in [Device -> Known] /\ spec \in [Device -> Known]
  /\ reg \in [Device -> [Callers -> {None} \cup Call]]
  /\ held \in [Device -> SUBSET Known]

ShapeInv == ShapesTyped /\ \A d \in Device : ShapesGrow(d)

RegistryInv == ReplicaInv /\ ShapeInv
-----------------------------------------------------------------------------
(* Shapes.                                                                 *)

LEMMA ShapeInit == ASSUME NEW cols \in {None, First}, Installed(cols) PROVE ShapeInv
<1> USE RegistryAssumption
<1>1. ShapesTyped
  BY DEF Installed, Idle, ShapesTyped, Known, Shapes
<1>2. ASSUME NEW d \in Device PROVE ShapesGrow(d)
  BY DEF Installed, Idle, ShapesGrow, Read, Shapes
<1> QED BY <1>1, <1>2 DEF ShapeInv

LEMMA ShapeAddColumn ==
  ASSUME ShapeInv, NEW d \in Device, NEW c \in Col, AddColumn(d, c)
  PROVE  ShapeInv'
<1>1. ShapesTyped'
  BY DEF ShapeInv, ShapesTyped, AddColumn, Shapes
<1>2. ASSUME NEW e \in Device PROVE ShapesGrow(e)'
  BY DEF ShapeInv, ShapesTyped, ShapesGrow, Read, AddColumn, Shapes
<1> QED BY <1>1, <1>2 DEF ShapeInv

LEMMA ShapeReads ==
  ASSUME ShapeInv, NEW d \in Device, NEW k \in Callers, ReadShape(d, k)
  PROVE  ShapeInv'
<1> USE DEF ShapeInv, ShapesTyped
<1>1. /\ reg' = [reg EXCEPT ![d][k] = [step |-> "read", cols |-> table[d]]]
      /\ UNCHANGED <<table, synced, live, spec, held>>
  BY DEF ReadShape
<1>2. [step |-> "read", cols |-> table[d]] \in Call
  BY DEF Call
<1>3. ShapesTyped'
  BY <1>1, <1>2
<1>4. ASSUME NEW e \in Device PROVE ShapesGrow(e)'
  <2>1. ASSUME NEW j \in Callers
        PROVE  \/ reg'[e][j] = reg[e][j]
               \/ e = d /\ reg'[e][j] = [step |-> "read", cols |-> table[d]]
    BY <1>1
  <2> QED BY <1>1, <2>1 DEF ShapesGrow, Read
<1> QED BY <1>3, <1>4

LEMMA ShapeStores ==
  ASSUME ShapeInv, NEW d \in Device, NEW k \in Callers, StoreShape(d, k)
  PROVE  ShapeInv'
<1> USE DEF ShapeInv, ShapesTyped
<1> DEFINE cols == reg[d][k].cols
<1>1. /\ reg[d][k] # None /\ reg[d][k] \in Call
      /\ synced' = [synced EXCEPT ![d] = cols] /\ live' = [live EXCEPT ![d] = TRUE]
      /\ reg' = [reg EXCEPT ![d][k].step = "stored"]
      /\ UNCHANGED <<table, spec, held>>
  BY DEF StoreShape
<1>2. cols \in Shapes /\ cols # None /\ Read(d, cols)
  BY <1>1, RegistryAssumption DEF Call, Shapes, ShapesGrow
<1>3. /\ reg'[d][k] = [step |-> "stored", cols |-> cols] /\ reg'[d][k] \in Call
      /\ reg' = [reg EXCEPT ![d][k] = [step |-> "stored", cols |-> cols]]
  <2>1. [reg[d][k] EXCEPT !.step = "stored"] = [step |-> "stored", cols |-> cols]
    BY <1>1 DEF Call
  <2>2. reg' = [reg EXCEPT ![d][k] = [reg[d][k] EXCEPT !.step = "stored"]]
    BY <1>1
  <2>3. [step |-> "stored", cols |-> cols] \in Call
    BY <1>2 DEF Call
  <2> HIDE DEF cols
  <2> QED BY <2>1, <2>2, <2>3
<1> HIDE DEF cols
<1>4. ShapesTyped'
  BY <1>1, <1>2, <1>3 DEF Known
<1>5. ASSUME NEW e \in Device PROVE ShapesGrow(e)'
  <2>1. CASE e = d
    <3>1. \A j \in Callers \ {k} : reg'[d][j] = reg[d][j]
      BY <1>3
    <3>2. synced'[d] = cols
      BY <1>1
    <3> QED BY <1>1, <1>2, <1>3, <2>1, <3>1, <3>2 DEF ShapesGrow, Read
  <2>2. CASE e # d
    <3>1. reg'[e] = reg[e] /\ synced'[e] = synced[e]
      BY <1>1, <1>3, <2>2
    <3> QED BY <1>1, <3>1 DEF ShapesGrow, Read
  <2> QED BY <2>1, <2>2
<1> QED BY <1>4, <1>5

LEMMA ShapePublishes ==
  ASSUME ShapeInv, NEW d \in Device, NEW k \in Callers, Publish(d, k)
  PROVE  ShapeInv'
<1> USE DEF ShapeInv, ShapesTyped
<1> DEFINE cols == reg[d][k].cols
<1>1. /\ reg[d][k] # None /\ reg[d][k] \in Call /\ reg[d][k].step = "stored"
      /\ spec' = [spec EXCEPT ![d] = cols] /\ reg' = [reg EXCEPT ![d][k] = None]
      /\ UNCHANGED <<table, synced, live>>
  BY DEF Publish
<1>2. cols \in Shapes /\ synced[d] # None /\ Read(d, cols)
  BY <1>1 DEF Call, ShapesGrow
<1>3. PICK late \in {{}, {spec[d]} \ {cols}} : held' = [held EXCEPT ![d] = late]
  BY DEF Publish
<1> HIDE DEF cols
<1>4. late \subseteq {spec[d]}
  OBVIOUS
<1>5. ShapesTyped'
  BY <1>1, <1>2, <1>3, <1>4 DEF Known
<1>6. spec[d] \in (SUBSET table[d]) \cup {None}
  <2>1. spec[d] # None => spec[d] \subseteq table[d]
    BY DEF ShapesGrow, Read
  <2> QED BY <2>1
<1>7. ASSUME NEW e \in Device PROVE ShapesGrow(e)'
  <2>0. \A j \in Callers : reg'[e][j] = None \/ reg'[e][j] = reg[e][j]
    BY <1>1
  <2>1. CASE e = d
    BY <1>1, <1>2, <1>3, <1>4, <1>6, <2>0, <2>1 DEF ShapesGrow, Read
  <2>2. CASE e # d
    BY <1>1, <1>3, <2>0, <2>2 DEF ShapesGrow, Read
  <2> QED BY <2>1, <2>2
<1> QED BY <1>5, <1>7

LEMMA ShapeReopen ==
  ASSUME ShapeInv, NEW d \in Device, Reopen(d)
  PROVE  ShapeInv'
<1> USE DEF ShapeInv, ShapesTyped
<1>1. /\ spec' = [spec EXCEPT ![d] = synced'[d]] /\ reg' = [reg EXCEPT ![d] = Idle]
      /\ held' = [held EXCEPT ![d] = {}] /\ table' = table
  BY DEF Reopen
<1>2. \/ UNCHANGED <<synced, live>>
      \/ \E k \in Callers :
           /\ reg[d][k] # None /\ synced' = [synced EXCEPT ![d] = reg[d][k].cols]
           /\ \E l \in BOOLEAN : live' = [live EXCEPT ![d] = l]
  BY DEF Reopen
<1>3. \A k \in Callers : reg[d][k] # None => reg[d][k].cols \in Shapes
  BY DEF Call
<1>4. synced' \in [Device -> Known] /\ live' \in [Device -> BOOLEAN]
  BY <1>2, <1>3 DEF Known
<1>5. ShapesTyped'
  BY <1>1, <1>4 DEF Idle
<1>6. ASSUME NEW e \in Device PROVE ShapesGrow(e)'
  <2>1. CASE e = d
    <3>1. synced'[d] # None => Read(d, synced'[d])
      BY <1>2 DEF ShapesGrow
    <3>2. /\ spec'[d] = synced'[d] /\ held'[d] = {}
          /\ \A k \in Callers : reg'[d][k] = None
      BY <1>1 DEF Idle
    <3> QED BY <1>1, <2>1, <3>1, <3>2 DEF ShapesGrow, Read
  <2>2. CASE e # d
    <3>1. /\ spec'[e] = spec[e] /\ held'[e] = held[e] /\ reg'[e] = reg[e]
          /\ synced'[e] = synced[e]
      BY <1>1, <1>2, <2>2
    <3> QED BY <1>1, <3>1 DEF ShapesGrow, Read
  <2> QED BY <2>1, <2>2
<1> QED BY <1>5, <1>6

(* A call that copies the map works with a shape, or with none.             *)
LEMMA ShapeWithMap ==
  ASSUME ShapeInv, NEW d \in Device, NEW s, WithMap(d, s)
  PROVE  s \in Known /\ ShapeInv'
<1> USE DEF ShapeInv, ShapesTyped
<1>1. s \in Known
  BY DEF WithMap
<1>2. UNCHANGED <<table, synced, live, spec, reg>>
      /\ (held' = held \/ held' = [held EXCEPT ![d] = {}])
  BY DEF WithMap, shape
<1>3. ShapesTyped'
  BY <1>2
<1>4. ASSUME NEW e \in Device PROVE ShapesGrow(e)'
  BY <1>2 DEF ShapesGrow, Read
<1> QED BY <1>1, <1>3, <1>4
-----------------------------------------------------------------------------
(* Replicas.                                                               *)

LEMMA InvReopen ==
  ASSUME ReplicaInv, NEW d \in Device, Reopen(d)
  PROVE  ReplicaInv'
<1> USE DEF ReplicaInv
<1> DEFINE own == Stamps(log[d], d)
<1>1. /\ clk' = [clk EXCEPT ![d] = ResumeFrom(d)] /\ ResumeFrom(d) = Highest(own)
      /\ UNCHANGED <<log, cell, tomb, vv, row, ops>>
  BY DEF Reopen, ResumeFrom, Stamps
<1>2. /\ own \in SUBSET Nat /\ \A x \in own : x <= MaxStamp
      /\ MaxStamp \in Nat
  BY ChangeProperties, RecordsAssumption DEF TypeOK, Stamps, Stamp
<1>3. Highest(own) \in Nat /\ \A x \in own : x <= Highest(own)
  <2> HIDE DEF own
  <2> QED BY <1>2, HighestProperties
<1>4. clk' \in [Device -> Nat]
  BY <1>1, <1>3 DEF TypeOK
<1>5. RowsTyped'
  BY <1>1 DEF TypeOK, RowsTyped
<1>6. ClockAhead'
  <2> SUFFICES ASSUME NEW e \in Device, NEW r \in log[e], r.origin = e
               PROVE  r.hlc <= clk'[e]
    BY <1>1 DEF ClockAhead
  <2>1. CASE e = d
    BY <1>1, <1>3, <2>1 DEF Stamps, TypeOK
  <2>2. CASE e # d
    BY <1>1, <2>2 DEF ClockAhead, TypeOK
  <2> QED BY <2>1, <2>2
<1> QED BY <1>1, <1>4, <1>5, <1>6, InvWrites

LEMMA InvStore ==
  ASSUME ReplicaInv, NEW d \in Device, NEW k \in Callers, StoreShape(d, k)
  PROVE  ReplicaInv'
<1> USE DEF ReplicaInv
<1>1. UNCHANGED <<clk, log, cell, tomb, vv, row>> /\ ops' = [ops EXCEPT ![d] = Adopted(d)]
  BY DEF StoreShape
<1>2. RowsTyped' /\ ClockAhead' /\ clk' \in [Device -> Nat]
  BY <1>1 DEF TypeOK, RowsTyped, ClockAhead, Adopted
<1> QED BY <1>1, <1>2, InvWrites

LEMMA InvStutter ==
  ASSUME ReplicaInv, UNCHANGED vars
  PROVE  ReplicaInv'
<1>1. RowsTyped' /\ clk' \in [Device -> Nat] /\ ClockAhead'
  BY DEF ReplicaInv, TypeOK, RowsTyped, ClockAhead, vars
<1> QED BY <1>1, InvWrites DEF vars

LEMMA RegistryInvNext == RegistryInv /\ [RegistryNext]_allVars => RegistryInv'
<1> SUFFICES ASSUME RegistryInv, [RegistryNext]_allVars PROVE RegistryInv'
  OBVIOUS
<1> USE DEF RegistryInv
<1>1. CASE UNCHANGED allVars
  <2>1. ShapeInv'
    BY <1>1 DEF ShapeInv, ShapesTyped, ShapesGrow, Read, allVars, shape
  <2> QED BY <1>1, <2>1, InvStutter DEF allVars
<1>2. ASSUME NEW d \in Device, Register(d) PROVE RegistryInv'
  <2>1. ReplicaInv'
    BY <1>2, InvStore, InvStutter DEF Register, ReadShape, Publish
  <2>2. ShapeInv'
    BY <1>2, ShapeReads, ShapeStores, ShapePublishes DEF Register
  <2> QED BY <2>1, <2>2
<1>3. ASSUME NEW d \in Device, Reopen(d) PROVE RegistryInv'
  BY <1>3, InvReopen, ShapeReopen
<1>4. ASSUME NEW d \in Device, NEW c \in Col, AddColumn(d, c) PROVE RegistryInv'
  BY <1>4, ShapeAddColumn, InvStutter DEF AddColumn
<1>5. ASSUME NEW d \in Writers, Write(d) PROVE RegistryInv'
  <2>1. d \in Device /\ table[d] \in SUBSET Col
    BY ReplicaAssumption DEF ShapeInv, ShapesTyped, Shapes
  <2>2. ReplicaInv'
    BY <1>5, <2>1, InvApp DEF Write
  <2>3. ShapeInv'
    BY <1>5 DEF Write, shape, ShapeInv, ShapesTyped, ShapesGrow, Read
  <2> QED BY <2>2, <2>3
<1>6. ASSUME NEW d \in Device, NEW s \in Shapes \cup {None}, Flush(d, s) PROVE RegistryInv'
  <2>1. s \in (SUBSET Col) \cup {None} /\ FlushWith(d, s) /\ WithMap(d, s)
    BY <1>6 DEF Flush, Shapes
  <2>2. ReplicaInv'
    BY <2>1, InvFlush
  <2> QED BY <2>1, <2>2, ShapeWithMap
<1>7. ASSUME NEW d \in Device, NEW s \in Shapes \cup {None}, NEW e \in Device \ {d},
             Receive(d, e, s)
      PROVE  RegistryInv'
  <2>1. s \in (SUBSET Col) \cup {None} /\ DeliverWith(d, e, s) /\ WithMap(d, s)
    BY <1>7 DEF Receive, Shapes
  <2>2. ReplicaInv'
    BY <2>1, InvDeliver
  <2> QED BY <2>1, <2>2, ShapeWithMap
<1> QED BY <1>1, <1>2, <1>3, <1>4, <1>5, <1>6, <1>7 DEF RegistryNext
-----------------------------------------------------------------------------
(* What was missed.                                                        *)

LEMMA DeliveryCatchesUp ==
  ASSUME RegistryInv, RegistryInv', NEW d \in Device, NEW e \in Device \ {d},
         spec[d] # None, UNCHANGED spec, DeliverWith(d, e, spec[d]),
         NEW r \in log'[d] \ log[d]
  PROVE  RowShowsNewest(d, r.pk, spec[d])'
<1> USE DEF RegistryInv, ReplicaInv
<1> DEFINE L == log'[d]
           now == row'[d][r.pk]
<1>0. /\ row \in [Device -> [Pk -> Row \cup {None}]]
      /\ log \in [Device -> SUBSET Change] /\ L \in SUBSET Change
      /\ r \in L /\ r \in Change /\ r.pk \in Pk
  BY ChangeProperties DEF TypeOK
<1>1. PICK batch \in SUBSET log[e] : ApplyRemote(d, batch, spec[d])
  BY DEF DeliverWith
<1> DEFINE fresh == Fresh(log[d], batch)
           cells == Upsert(cell[d], Cells(fresh))
           tombs == Upsert(tomb[d], Deletes(fresh))
<1>2. /\ log' = [log EXCEPT ![d] = @ \cup fresh]
      /\ cell' = [cell EXCEPT ![d] = cells] /\ tomb' = [tomb EXCEPT ![d] = tombs]
      /\ row' = [row EXCEPT ![d] =
                   [pk \in Pk |-> IF pk \in {x.pk : x \in fresh}
                                    THEN Materialize(cells, tombs, pk, @[pk], spec[d])
                                    ELSE @[pk]]]
  BY <1>1 DEF ApplyRemote
<1> HIDE DEF fresh, cells, tombs
<1>3. now = Materialize(cells, tombs, r.pk, row[d][r.pk], spec[d])
  <2>1. r \in fresh
    BY <1>0, <1>2
  <2> QED BY <1>0, <1>2, <2>1
<1>4. cells = Newest(Cells(L)) /\ tombs = Newest(Deletes(L))
  <2>1. cells = cell'[d] /\ tombs = tomb'[d]
    BY <1>2 DEF TypeOK
  <2> QED BY <2>1 DEF LastWriterWins
<1>5. spec[d] \in SUBSET Col /\ Required \subseteq spec[d]
  BY RegistryAssumption DEF ShapeInv, ShapesTyped, ShapesGrow, Read, Known, Shapes
<1>6. /\ \A x, y \in L : x.origin = y.origin /\ x.hlc = y.hlc => x = y
      /\ \A x \in L : x.col # None => x.val \in Val
  BY DEF StampsUnique, Promises!StampsUnique, LogsSound
<1>7. Shows(L, r.pk, spec[d],
            Materialize(Newest(Cells(L)), Newest(Deletes(L)), r.pk, row[d][r.pk], spec[d]))
  <2>1. row[d][r.pk] \in Row \cup {None} /\ \E x \in L : x.pk = r.pk
    BY <1>0
  <2> HIDE DEF L
  <2> QED BY <1>0, <1>5, <1>6, <2>1, RebuiltRowShows
<1>8. Shows(L, r.pk, spec[d], now)
  BY <1>3, <1>4, <1>7
<1> QED BY <1>8 DEF Shows, About, Alive, Whole, RowShowsNewest

LEMMA CatchUpNext ==
  RegistryInv /\ RegistryInv' /\ [RegistryNext]_allVars => [CatchesUp]_allVars
<1> SUFFICES ASSUME RegistryInv, RegistryInv', RegistryNext,
                    NEW d \in Device, NEW r \in log'[d] \ log[d],
                    r.origin # d, spec[d] # None, UNCHANGED held
             PROVE  RowShowsNewest(d, r.pk, spec[d])'
  BY DEF CatchesUp
<1>0. log \in [Device -> SUBSET Change] /\ held \in [Device -> SUBSET Known]
  BY DEF RegistryInv, ReplicaInv, TypeOK, ShapeInv, ShapesTyped
<1>1. log'[d] # log[d]
  OBVIOUS
<1>2. ASSUME NEW f \in Device, NEW s, WithMap(f, s), f = d PROVE s = spec[d] /\ UNCHANGED spec
  BY <1>0, <1>2 DEF WithMap, shape
<1>3. ASSUME NEW f \in Device, NEW s \in Known, Flush(f, s) PROVE FALSE
  <2>1. s \in (SUBSET Col) \cup {None} /\ FlushWith(f, s)
    BY <1>3 DEF Flush, Known, Shapes
  <2>2. ReplicaInv
    BY DEF RegistryInv
  <2>3. PICK recs \in SUBSET Change, c \in Nat : Authored(f, s, recs, c)
    BY <2>1, <2>2, FlushRecords
  <2> QED BY <1>0, <2>3 DEF Authored
<1>4. ASSUME NEW f \in Device, NEW s \in Known, NEW e \in Device \ {f}, Receive(f, e, s)
      PROVE  RowShowsNewest(d, r.pk, spec[d])'
  <2>1. DeliverWith(f, e, s) /\ WithMap(f, s)
    BY <1>4 DEF Receive
  <2>2. f = d
    BY <1>0, <1>1, <2>1 DEF DeliverWith, ApplyRemote
  <2>3. s = spec[d] /\ UNCHANGED spec
    BY <1>2, <2>1, <2>2
  <2> QED BY <2>1, <2>2, <2>3, DeliveryCatchesUp
<1>5. ASSUME NEW f \in Device, Register(f) \/ Reopen(f) PROVE FALSE
  BY <1>1, <1>5 DEF Register, ReadShape, StoreShape, Publish, Reopen, vars
<1>6. ASSUME NEW f \in Device, NEW c \in Col, AddColumn(f, c) PROVE FALSE
  BY <1>1, <1>6 DEF AddColumn, vars
<1>7. ASSUME NEW f \in Writers, Write(f) PROVE FALSE
  BY <1>1, <1>7 DEF Write, App, AppInsert, AppUpdate, AppDelete, Written
<1> QED BY <1>3, <1>4, <1>5, <1>6, <1>7 DEF RegistryNext, Known
-----------------------------------------------------------------------------
(* The results.                                                            *)

LEMMA RegistryInvariant == RegistrySpec => []RegistryInv
<1>1. RegistryInit => RegistryInv
  <2>1. RegistryInit => Init /\ Installed(None)
    BY DEF RegistryInit, Installed
  <2> QED BY <2>1, InvInit, ShapeInit DEF RegistryInv
<1> QED BY <1>1, RegistryInvNext, PTL DEF RegistrySpec

(* The variables keep their types; neither the map nor the recorded shape   *)
(* names a column the table lacks or lacks one it was created with,         *)
(* whichever registrations overlap and crash.                              *)
THEOREM RegistryKeepsTypes == RegistrySpec => []RegistryTypeOK
<1>1. RegistryInv => RegistryTypeOK
  BY DEF RegistryInv, ReplicaInv, ShapeInv, ShapesTyped, ShapesGrow, Read, Call, RegistryTypeOK
<1> QED BY <1>1, RegistryInvariant, PTL

(* Whatever a device could not show when it arrived is in the row once any  *)
(* record about the row arrives under the current map.                     *)
THEOREM RegistryCatchesUp == RegistrySpec => TouchedRowsCatchUp
  BY CatchUpNext, RegistryInvariant, PTL DEF RegistrySpec, TouchedRowsCatchUp

(* Merging stays a function of the records held, whatever the device knew  *)
(* of their table when they arrived.                                       *)
THEOREM RegistryLastWriterWins == RegistrySpec => []LastWriterWins
  BY RegistryInvariant, PTL DEF RegistryInv, ReplicaInv

(* The vector counts records of tables that are not known.                 *)
THEOREM RegistryVVIsHighest == RegistrySpec => []VVIsHighest
  BY RegistryInvariant, PTL DEF RegistryInv, ReplicaInv

(* Origin and stamp stay unique when devices stop and crash, and when      *)
(* rows that predate replication are adopted.                              *)
THEOREM RegistryStampsUnique == RegistrySpec => []StampsUnique
  BY RegistryInvariant, PTL DEF RegistryInv, ReplicaInv
-----------------------------------------------------------------------------
LEMMA RegistryNextRefines ==
  RegistryInv /\ RegistryInv' /\ [RegistryNext]_allVars => [Promises!Next]_log
<1> SUFFICES ASSUME RegistryInv, RegistryInv', [RegistryNext]_allVars
             PROVE  [Promises!Next]_log
  OBVIOUS
<1> USE DEF RegistryInv
<1>0. Promises!TypeOK'
  BY DEF ReplicaInv, TypeOK, Promises!TypeOK
<1>1. CASE UNCHANGED allVars
  BY <1>1 DEF allVars, vars
<1>2. ASSUME NEW d \in Device, Register(d) \/ Reopen(d) PROVE UNCHANGED log
  BY <1>2 DEF Register, ReadShape, StoreShape, Publish, Reopen, vars
<1>3. ASSUME NEW d \in Device, NEW c \in Col, AddColumn(d, c) PROVE UNCHANGED log
  BY <1>3 DEF AddColumn, vars
<1>4. ASSUME NEW d \in Writers, Write(d) PROVE UNCHANGED log
  BY <1>4 DEF Write, App, AppInsert, AppUpdate, AppDelete, Written
<1>5. ASSUME NEW d \in Device, NEW s \in Shapes \cup {None}, Flush(d, s) PROVE Promises!Next
  <2>1. s \in (SUBSET Col) \cup {None} /\ FlushWith(d, s)
    BY <1>5 DEF Flush, Shapes
  <2> QED BY <1>0, <2>1, FlushAuthors DEF Promises!Next
<1>6. ASSUME NEW d \in Device, NEW s \in Shapes \cup {None}, NEW e \in Device \ {d},
             Receive(d, e, s)
      PROVE  Promises!Next
  BY <1>0, <1>6, DeliverLearns DEF Promises!Next, Receive
<1> QED BY <1>1, <1>2, <1>3, <1>4, <1>5, <1>6 DEF RegistryNext

(* With registrations, schema changes and crashes, replicas still implement *)
(* the abstract change log.                                                *)
THEOREM RegistryImplements == RegistrySpec => Implements
<1>1. RegistryInit => Promises!Init
  BY ReplicaInitRefines DEF RegistryInit, Installed
<1> QED BY <1>1, RegistryNextRefines, RegistryInvariant, PTL
        DEF RegistrySpec, Implements, Promises!Spec
=============================================================================

---------------------------- MODULE ReplicaProofs ----------------------------
(***************************************************************************)
(* What replicas guarantee for any number of devices, rows, columns and     *)
(* values, wall clocks that show anything and any delivery.  The lemmas     *)
(* about steps hold for whatever part of the table a device knows, so that  *)
(* module RegistryProofs can use them.                                     *)
(*                                                                         *)
(* The argument: a device's clock is never below a stamp it gave out        *)
(* (ClockAhead) and an author holds whatever anybody holds of its records   *)
(* (AuthorHolds), so a new stamp is new everywhere (StampsUnique) and what  *)
(* is fresh to a replica is exactly what it does not hold; the merged       *)
(* tables and the vector can then be followed batch by batch.              *)
(***************************************************************************)
EXTENDS Replica, RecordsProofs

AuthorHolds == \A d \in Device : \A r \in log[d] : r \in log[r.origin]

ClockAhead == \A d \in Device : \A r \in log[d] : r.origin = d => r.hlc <= clk[d]

(* Logs are finite, and only deletions lack a value.                        *)
LogsSound == \A d \in Device :
  IsFiniteSet(log[d]) /\ \A r \in log[d] : r.col # None => r.val \in Val

ReplicaInv == /\ TypeOK /\ LogsSound /\ AuthorHolds /\ ClockAhead
              /\ StampsUnique /\ LastWriterWins /\ VVIsHighest
-----------------------------------------------------------------------------
(* The order and the merge.                                                *)

LEMMA ChangeProperties ==
  ASSUME NEW r \in Change
  PROVE  /\ r.pk \in Pk /\ r.col \in Col \cup {None} /\ r.val \in Val \cup {None}
         /\ r.hlc \in Stamp /\ r.hlc \in Nat /\ r.hlc >= 1
         /\ r.origin \in Device /\ r.origin \in Nat
  BY RecordsAssumption DEF Change, Stamp, Device

(* Some record about a key is the newest one.                               *)
LEMMA NewestExists ==
  ASSUME NEW held \in SUBSET Change, NEW s \in held
  PROVE  \E t \in Newest(held) : SameKey(s, t) /\ ~SortsAfter(s, t)
<1> DEFINE A == {r \in held : SameKey(s, r)}
<1>1. /\ A # {} /\ A \subseteq held
      /\ \A r \in A : r.hlc \in Stamp /\ r.origin \in Device
  BY ChangeProperties DEF SameKey
<1>2. PICK t \in A : \A r \in A : ~IncomingWins(r, t)
  <2> HIDE DEF A
  <2> QED BY <1>1, LastExists
<1>3. \A r \in held : SameKey(t, r) => r \in A
  BY <1>2 DEF SameKey
<1> QED BY <1>2, <1>3 DEF Newest, SortsAfter, IncomingWins, SameKey

(* Upserting into a table of newest records gives the newest of everything. *)
LEMMA UpsertNewest ==
  ASSUME NEW held \in SUBSET Change, NEW recs \in SUBSET Change
  PROVE  Upsert(Newest(held), recs) = Newest(held \cup recs)
<1>0. \A r, s \in Change : IncomingWins(r, s) <=> SortsAfter(r, s)
  BY DEF IncomingWins, SortsAfter
<1>1. Newest(held) \subseteq held
  BY DEF Newest
<1>2. ASSUME NEW r \in Upsert(Newest(held), recs), NEW s \in held \cup recs, SameKey(r, s)
      PROVE  ~SortsAfter(s, r)
  <2>1. r \in Change /\ s \in Change
    BY <1>1 DEF Upsert
  <2>2. CASE s \in recs
    BY <1>0, <1>2, <2>1, <2>2 DEF Upsert
  <2>3. CASE s \in held
    <3>1. PICK t \in Newest(held) : SameKey(s, t) /\ ~SortsAfter(s, t)
      BY <2>3, NewestExists
    <3>2. t \in Change /\ SameKey(r, t)
      BY <1>1, <1>2, <3>1 DEF SameKey
    <3>3. ~SortsAfter(t, r)
      BY <1>0, <2>1, <3>1, <3>2 DEF Upsert
    <3> QED BY <2>1, <3>1, <3>2, <3>3, ChangeProperties DEF SortsAfter
  <2> QED BY <2>2, <2>3
<1>3. Upsert(Newest(held), recs) \subseteq Newest(held \cup recs)
  BY <1>1, <1>2 DEF Upsert, Newest
<1>4. Newest(held \cup recs) \subseteq Upsert(Newest(held), recs)
  <2> SUFFICES ASSUME NEW r \in Newest(held \cup recs)
               PROVE  r \in Upsert(Newest(held), recs)
    OBVIOUS
  <2>1. r \in held \cup recs /\ \A s \in held \cup recs : SameKey(r, s) => ~SortsAfter(s, r)
    BY DEF Newest
  <2>2. r \in Newest(held) \cup recs
    BY <2>1 DEF Newest
  <2> QED BY <1>0, <1>1, <2>1, <2>2 DEF Upsert
<1> QED BY <1>3, <1>4
-----------------------------------------------------------------------------
(* What a batch of new records does to log, tables and vector.              *)

Stamps(S, o) == {r.hlc : r \in {x \in S : x.origin = o}}

LEMMA BatchMerges ==
  ASSUME ReplicaInv, NEW d \in Device, NEW recs \in SUBSET Change,
         log' = [log EXCEPT ![d] = @ \cup recs],
         cell' = [cell EXCEPT ![d] = Upsert(@, Cells(recs))],
         tomb' = [tomb EXCEPT ![d] = Upsert(@, Deletes(recs))],
         vv' = [vv EXCEPT ![d] = BumpVV(@, recs)]
  PROVE  /\ log' \in [Device -> SUBSET Change]
         /\ cell' \in [Device -> SUBSET Change] /\ tomb' \in [Device -> SUBSET Change]
         /\ vv' \in [Device -> [Device -> 0..MaxStamp]]
         /\ LastWriterWins' /\ VVIsHighest'
         /\ log'[d] = log[d] \cup recs
         /\ \A e \in Device \ {d} : log'[e] = log[e]
<1> USE DEF ReplicaInv
<1>1. /\ log \in [Device -> SUBSET Change] /\ cell \in [Device -> SUBSET Change]
      /\ tomb \in [Device -> SUBSET Change] /\ vv \in [Device -> [Device -> 0..MaxStamp]]
  BY DEF TypeOK
<1>2. /\ log'[d] = log[d] \cup recs /\ cell'[d] = Upsert(cell[d], Cells(recs))
      /\ tomb'[d] = Upsert(tomb[d], Deletes(recs)) /\ vv'[d] = BumpVV(vv[d], recs)
      /\ \A e \in Device \ {d} : /\ log'[e] = log[e] /\ cell'[e] = cell[e]
                                  /\ tomb'[e] = tomb[e] /\ vv'[e] = vv[e]
  BY <1>1
<1>3. /\ log[d] \in SUBSET Change
      /\ Cells(log[d]) \in SUBSET Change /\ Cells(recs) \in SUBSET Change
      /\ Deletes(log[d]) \in SUBSET Change /\ Deletes(recs) \in SUBSET Change
      /\ Cells(log'[d]) = Cells(log[d]) \cup Cells(recs)
      /\ Deletes(log'[d]) = Deletes(log[d]) \cup Deletes(recs)
  BY <1>1, <1>2 DEF Cells, Deletes
<1>4. cell'[d] = Newest(Cells(log'[d])) /\ tomb'[d] = Newest(Deletes(log'[d]))
  <2>1. cell[d] = Newest(Cells(log[d])) /\ tomb[d] = Newest(Deletes(log[d]))
    BY DEF LastWriterWins
  <2>2. Upsert(Newest(Cells(log[d])), Cells(recs)) = Newest(Cells(log[d]) \cup Cells(recs))
    BY <1>3, UpsertNewest
  <2>3. Upsert(Newest(Deletes(log[d])), Deletes(recs))
          = Newest(Deletes(log[d]) \cup Deletes(recs))
    BY <1>3, UpsertNewest
  <2> QED BY <1>2, <1>3, <2>1, <2>2, <2>3
<1>5. LastWriterWins'
  BY <1>2, <1>4 DEF LastWriterWins
<1>6. cell' \in [Device -> SUBSET Change] /\ tomb' \in [Device -> SUBSET Change]
      /\ log' \in [Device -> SUBSET Change]
  <2>1. \A S : Newest(S) \subseteq S
    BY DEF Newest
  <2>2. cell'[d] \subseteq Change /\ tomb'[d] \subseteq Change
    BY <1>3, <1>4, <2>1
  <2>3. Upsert(cell[d], Cells(recs)) \subseteq Change /\ Upsert(tomb[d], Deletes(recs)) \subseteq Change
    BY <1>2, <2>2
  <2> QED BY <1>1, <2>3
<1>7. \A r \in recs : r.hlc \in Stamp
  BY ChangeProperties
<1>8. BumpVV(vv[d], recs) \in [Device -> 0..MaxStamp]
  BY <1>1, <1>7, BumpVVProperties
<1>9. vv' \in [Device -> [Device -> 0..MaxStamp]]
  BY <1>1, <1>8
<1>10. VVIsHighest'
  <2> SUFFICES ASSUME NEW e \in Device, NEW o \in Device
               PROVE  vv'[e][o] = Highest(Stamps(log'[e], o))
    BY DEF VVIsHighest, Stamps
  <2>1. vv[e][o] = Highest(Stamps(log[e], o))
    BY DEF VVIsHighest, Stamps
  <2>2. CASE e # d
    BY <1>2, <2>1, <2>2
  <2>3. CASE e = d
    <3>1. vv'[d][o] = Highest({vv[d][o]} \cup Stamps(recs, o))
      BY <1>2 DEF BumpVV, Stamps
    <3>2. Stamps(log[d], o) \in SUBSET Stamp /\ Stamps(recs, o) \in SUBSET Stamp
      BY <1>3, ChangeProperties DEF Stamps
    <3>3. Stamps(log'[d], o) = Stamps(log[d], o) \cup Stamps(recs, o)
      BY <1>2 DEF Stamps
    <3> QED BY <2>1, <2>3, <3>1, <3>2, <3>3, HighestUnion
  <2> QED BY <2>2, <2>3
<1> QED BY <1>2, <1>5, <1>6, <1>9, <1>10

(* The clock.                                                              *)

LEMMA TickProperties ==
  ASSUME NEW last \in Nat, NEW phys \in Nat
  PROVE  Tick(last, phys) \in Nat /\ Tick(last, phys) > last
<1>1. /\ {phys, last + 1} \in SUBSET Int /\ {phys, last + 1} # {}
      /\ \A x \in {phys, last + 1} : x <= phys + last + 1
      /\ phys + last + 1 \in Int
  OBVIOUS
<1>2. Max({phys, last + 1}) \in {phys, last + 1}
      /\ \A x \in {phys, last + 1} : x <= Max({phys, last + 1})
  BY <1>1, MaxProperties
<1> QED BY <1>2 DEF Tick

LEMMA ObserveProperties ==
  ASSUME NEW last \in Nat, NEW phys \in Nat, NEW batch \in SUBSET Change, IsFiniteSet(batch)
  PROVE  /\ Observe(last, phys, batch) \in Nat /\ Observe(last, phys, batch) >= last
         /\ \A r \in batch : r.hlc <= phys + Drift => r.hlc <= Observe(last, phys, batch)
<1> DEFINE n == Cardinality(batch)
           absorbed == {r \in batch : r.hlc <= phys + Drift}
           onward(r) == Cardinality({s \in batch : ~IncomingWins(r, s)})
           reached == {last + n, phys + n - 1} \cup {r.hlc + onward(r) : r \in absorbed}
<1>1. CASE batch = {}
  BY <1>1 DEF Observe
<1>2. CASE batch # {}
  <2>1. Observe(last, phys, batch) = Max(reached)
    BY <1>2 DEF Observe
  <2>2. n \in Nat
    BY FS_CardinalityType
  <2>3. \A r \in batch : onward(r) \in Nat /\ onward(r) <= n
    <3> SUFFICES ASSUME NEW r \in batch PROVE onward(r) \in Nat /\ onward(r) <= n
      OBVIOUS
    <3>1. {s \in batch : ~IncomingWins(r, s)} \subseteq batch
      OBVIOUS
    <3> QED BY <3>1, FS_Subset, FS_CardinalityType
  <2>4. \A r \in batch : r.hlc \in Nat /\ r.hlc <= MaxStamp
    BY ChangeProperties, RecordsAssumption DEF Stamp
  <2>5. MaxStamp \in Nat
    BY RecordsAssumption
  <2> HIDE DEF n, onward
  <2>6. /\ reached \in SUBSET Int /\ last + n \in reached
        /\ \A r \in absorbed : r.hlc + onward(r) \in reached
    BY <2>2, <2>3, <2>4
  <2>7. \A x \in reached : x <= last + phys + n + n + MaxStamp
    BY <2>2, <2>3, <2>4, <2>5
  <2>8. last + phys + n + n + MaxStamp \in Int
    BY <2>2, <2>5
  <2> HIDE DEF reached
  <2>9. Max(reached) \in Int /\ \A x \in reached : x <= Max(reached)
    BY <2>6, <2>7, <2>8, MaxProperties
  <2>10. ASSUME NEW r \in absorbed PROVE r.hlc <= Max(reached)
    <3>1. r.hlc + onward(r) <= Max(reached)
      BY <2>6, <2>9
    <3> QED BY <2>3, <2>4, <2>9, <3>1
  <2> QED BY <2>1, <2>2, <2>6, <2>9, <2>10
<1> QED BY <1>1, <1>2
-----------------------------------------------------------------------------
(* The steps.                                                              *)

RowsTyped == /\ row \in [Device -> [Pk -> Row \cup {None}]]
             /\ ops \in [Device -> [Pk -> {None, "upsert", "delete"}]]

LEMMA InvInit == Init => ReplicaInv
<1> SUFFICES ASSUME Init PROVE ReplicaInv
  OBVIOUS
<1>1. TypeOK
  BY RecordsAssumption DEF Init, TypeOK
<1>2. LogsSound /\ AuthorHolds /\ ClockAhead /\ StampsUnique
  BY FS_EmptySet DEF Init, LogsSound, AuthorHolds, ClockAhead, StampsUnique, Promises!StampsUnique
<1>3. LastWriterWins
  BY DEF Init, LastWriterWins, Newest, Cells, Deletes
<1>4. VVIsHighest
  BY DEF Init, VVIsHighest, Highest
<1> QED BY <1>1, <1>2, <1>3, <1>4 DEF ReplicaInv

(* A step that only touches rows and what is staged.                        *)
LEMMA InvWrites ==
  ASSUME ReplicaInv, UNCHANGED <<log, cell, tomb, vv>>, RowsTyped',
         clk' \in [Device -> Nat], ClockAhead'
  PROVE  ReplicaInv'
<1> USE DEF ReplicaInv
<1>1. TypeOK'
  BY DEF TypeOK, RowsTyped
<1>2. LogsSound' /\ AuthorHolds' /\ StampsUnique' /\ LastWriterWins' /\ VVIsHighest'
  BY DEF LogsSound, AuthorHolds, StampsUnique, Promises!StampsUnique, LastWriterWins, VVIsHighest
<1> QED BY <1>1, <1>2

(* A step that takes new records in.                                        *)
LEMMA InvBatch ==
  ASSUME ReplicaInv, NEW d \in Device, NEW recs \in SUBSET Change, NEW c \in Nat,
         IsFiniteSet(recs), \A r \in recs : r.col # None => r.val \in Val,
         log' = [log EXCEPT ![d] = @ \cup recs],
         cell' = [cell EXCEPT ![d] = Upsert(@, Cells(recs))],
         tomb' = [tomb EXCEPT ![d] = Upsert(@, Deletes(recs))],
         vv' = [vv EXCEPT ![d] = BumpVV(@, recs)],
         clk' = [clk EXCEPT ![d] = c], c >= clk[d],
         \A r \in recs : r.origin = d => r.hlc <= c,
         \A r \in recs : r.origin # d => r \in log[r.origin],
         StampsUnique', RowsTyped'
  PROVE  ReplicaInv'
<1> USE DEF ReplicaInv
<1>1. /\ log' \in [Device -> SUBSET Change]
      /\ cell' \in [Device -> SUBSET Change] /\ tomb' \in [Device -> SUBSET Change]
      /\ vv' \in [Device -> [Device -> 0..MaxStamp]]
      /\ LastWriterWins' /\ VVIsHighest'
      /\ log'[d] = log[d] \cup recs
      /\ \A e \in Device \ {d} : log'[e] = log[e]
  BY BatchMerges
<1>2. TypeOK'
  BY <1>1 DEF TypeOK, RowsTyped
<1>3. LogsSound'
  <2> SUFFICES ASSUME NEW e \in Device
               PROVE  IsFiniteSet(log'[e]) /\ \A r \in log'[e] : r.col # None => r.val \in Val
    BY DEF LogsSound
  <2>1. CASE e = d
    BY <1>1, <2>1, FS_Union DEF LogsSound
  <2>2. CASE e # d
    BY <1>1, <2>2 DEF LogsSound
  <2> QED BY <2>1, <2>2
<1>4. AuthorHolds'
  BY <1>1 DEF AuthorHolds
<1>5. ClockAhead'
  <2> SUFFICES ASSUME NEW e \in Device, NEW r \in log'[e], r.origin = e
               PROVE  r.hlc <= clk'[e]
    BY DEF ClockAhead
  <2>1. clk \in [Device -> Nat] /\ r \in Change /\ r.hlc \in Nat
    BY <1>1, ChangeProperties DEF TypeOK
  <2>2. CASE e = d
    <3>1. clk'[d] = c
      BY <2>1
    <3>2. CASE r \in recs
      BY <2>2, <3>1, <3>2
    <3>3. CASE r \in log[d]
      <4>1. r.hlc <= clk[d] /\ clk[d] \in Nat
        BY <2>1, <2>2, <3>3 DEF ClockAhead
      <4> QED BY <2>1, <2>2, <3>1, <4>1
    <3> QED BY <1>1, <2>2, <3>2, <3>3
  <2>3. CASE e # d
    BY <1>1, <2>1, <2>3 DEF ClockAhead
  <2> QED BY <2>2, <2>3
<1> QED BY <1>1, <1>2, <1>3, <1>4, <1>5

LEMMA InvApp ==
  ASSUME ReplicaInv, NEW d \in Device, NEW cols \in SUBSET Col, NEW live, App(d, cols, live)
  PROVE  ReplicaInv'
<1> USE DEF ReplicaInv
<1>0. /\ row \in [Device -> [Pk -> Row \cup {None}]]
      /\ ops \in [Device -> [Pk -> {None, "upsert", "delete"}]]
      /\ clk \in [Device -> Nat]
  BY DEF TypeOK
<1>1. ASSUME NEW pk \in Pk, NEW new \in Row, AppInsert(d, pk, new, live)
      PROVE  RowsTyped' /\ UNCHANGED <<clk, log, cell, tomb, vv>>
  BY <1>0, <1>1 DEF AppInsert, Stage, Written, RowsTyped
<1>2. ASSUME NEW pk \in Pk, NEW to \in Pk, NEW c \in Col, NEW value \in Val,
             AppUpdate(d, pk, to, c, value, live)
      PROVE  RowsTyped' /\ UNCHANGED <<clk, log, cell, tomb, vv>>
  <2>1. row[d][pk] \in Row
    BY <1>0, <1>2 DEF AppUpdate
  <2>2. PICK new \in Row : new = [row[d][pk] EXCEPT ![c] = value]
    BY <2>1 DEF Row
  <2>3. row' = [row EXCEPT ![d][pk] = None, ![d][to] = new]
    BY <1>2, <2>2 DEF AppUpdate
  <2>4. row' = [row EXCEPT ![d] = [[row[d] EXCEPT ![pk] = None] EXCEPT ![to] = new]]
    BY <1>0, <2>3
  <2>5. [[row[d] EXCEPT ![pk] = None] EXCEPT ![to] = new] \in [Pk -> Row \cup {None}]
    BY <1>0
  <2>6. row' \in [Device -> [Pk -> Row \cup {None}]]
    BY <1>0, <2>4, <2>5
  <2>7. ops' \in [Device -> [Pk -> {None, "upsert", "delete"}]]
    BY <1>0, <1>2 DEF AppUpdate, Stage
  <2> QED BY <1>2, <2>6, <2>7 DEF AppUpdate, Written, RowsTyped
<1>3. ASSUME NEW pk \in Pk, AppDelete(d, pk, live)
      PROVE  RowsTyped' /\ UNCHANGED <<clk, log, cell, tomb, vv>>
  BY <1>0, <1>3 DEF AppDelete, Stage, Written, RowsTyped
<1>5. RowsTyped' /\ UNCHANGED <<clk, log, cell, tomb, vv>>
  <2>1. ASSUME NEW new \in [cols -> Input]
        PROVE  [c \in Col |-> IF c \in cols THEN new[c] ELSE Default] \in Row
    BY ReplicaAssumption, MergeAssumption DEF Row
  <2>2. ASSUME NEW pk \in Pk, NEW new \in [cols -> Input],
               AppInsert(d, pk, [c \in Col |-> IF c \in cols THEN new[c] ELSE Default], live)
        PROVE  RowsTyped' /\ UNCHANGED <<clk, log, cell, tomb, vv>>
    BY <1>1, <2>1, <2>2
  <2>3. Input \subseteq Val
    BY ReplicaAssumption
  <2> QED BY <1>2, <1>3, <2>2 DEF App
<1>6. ClockAhead'
  BY <1>5 DEF ClockAhead
<1> QED BY <1>0, <1>5, <1>6, InvWrites

LEMMA EditsFinite ==
  ASSUME NEW d \in Device, NEW spec \in (SUBSET Col) \cup {None}
  PROVE  /\ Edits(d, spec) \subseteq Pk \X (Col \cup {None})
         /\ IsFiniteSet(Edits(d, spec))
<1>1. Edits(d, spec) \subseteq Pk \X (Col \cup {None})
  BY DEF Edits
<1>2. IsFiniteSet(Col)
  <2>1. 1 \in Int /\ NCols \in Int
    BY MergeAssumption
  <2> QED BY <2>1, FS_Interval DEF Col
<1>3. IsFiniteSet(Col \cup {None})
  <2>1. IsFiniteSet({None})
    BY FS_Singleton
  <2> QED BY <1>2, <2>1, FS_Union
<1>4. IsFiniteSet(Pk \X (Col \cup {None}))
  BY <1>3, FS_Product, ReplicaAssumption
<1> QED BY <1>1, <1>4, FS_Subset

(* What a flush authors: records of the device, stamped apart and above     *)
(* everything its clock had given out, one for each edit.                   *)
Authored(d, spec, recs, c) ==
  /\ IsFiniteSet(recs) /\ c >= clk[d]
  /\ \A r \in recs : /\ r.origin = d /\ r.hlc > clk[d] /\ r.hlc <= c
                     /\ r.col # None => r.val \in Val
  /\ \A r, s \in recs : r.hlc = s.hlc => r = s
  /\ \A r \in recs : /\ <<r.pk, r.col>> \in Edits(d, spec)
                     /\ r.col # None => r.val = row[d][r.pk][r.col]
  /\ \A e \in Edits(d, spec) : \E r \in recs : r.pk = e[1] /\ r.col = e[2]
  /\ log'  = [log  EXCEPT ![d] = @ \cup recs]
  /\ cell' = [cell EXCEPT ![d] = Upsert(@, Cells(recs))]
  /\ tomb' = [tomb EXCEPT ![d] = Upsert(@, Deletes(recs))]
  /\ vv'   = [vv   EXCEPT ![d] = BumpVV(@, recs)]
  /\ clk'  = [clk  EXCEPT ![d] = c]

LEMMA FlushRecords ==
  ASSUME ReplicaInv, NEW d \in Device, NEW spec \in (SUBSET Col) \cup {None},
         FlushWith(d, spec)
  PROVE  \E recs \in SUBSET Change, c \in Nat : Authored(d, spec, recs, c)
<1> USE DEF ReplicaInv
<1>0. /\ row \in [Device -> [Pk -> Row \cup {None}]] /\ clk \in [Device -> Nat]
      /\ log \in [Device -> SUBSET Change]
  BY DEF TypeOK
<1> DEFINE Flushed(st) ==
        LET recs == {Record(d, e, st[e]) : e \in Edits(d, spec)}
        IN  /\ \A r \in recs : r.hlc <= MaxStamp
            /\ log'  = [log  EXCEPT ![d] = @ \cup recs]
            /\ cell' = [cell EXCEPT ![d] = Upsert(@, Cells(recs))]
            /\ tomb' = [tomb EXCEPT ![d] = Upsert(@, Deletes(recs))]
            /\ vv'   = [vv   EXCEPT ![d] = BumpVV(@, recs)]
            /\ clk'  = [clk  EXCEPT ![d] = Highest({@} \cup {r.hlc : r \in recs})]
<1>a. PICK phys \in Readings[d] : \E st \in Stampings(clk[d], phys, Edits(d, spec)) : Flushed(st)
  BY DEF FlushWith
<1>1. PICK st \in Stampings(clk[d], phys, Edits(d, spec)) : Flushed(st)
  BY <1>a
<1> DEFINE recs == {Record(d, e, st[e]) : e \in Edits(d, spec)}
           hlcs == {clk[d]} \cup {r.hlc : r \in recs}
           c == Highest(hlcs)
<1>2. /\ \A r \in recs : r.hlc <= MaxStamp
      /\ log'  = [log  EXCEPT ![d] = @ \cup recs]
      /\ cell' = [cell EXCEPT ![d] = Upsert(@, Cells(recs))]
      /\ tomb' = [tomb EXCEPT ![d] = Upsert(@, Deletes(recs))]
      /\ vv'   = [vv   EXCEPT ![d] = BumpVV(@, recs)]
      /\ clk'  = [clk  EXCEPT ![d] = c]
  BY <1>0, <1>1
<1>3. phys \in Nat
  BY ReplicaAssumption
<1>4. /\ IsFiniteSet(Edits(d, spec)) /\ Cardinality(Edits(d, spec)) \in Nat
      /\ Edits(d, spec) \subseteq Pk \X (Col \cup {None})
  BY EditsFinite, FS_CardinalityType
<1>5. /\ Tick(clk[d], phys) \in Nat /\ Tick(clk[d], phys) > clk[d]
      /\ clk[d] \in Nat
  BY <1>0, <1>3, TickProperties
<1>6. /\ \A e \in Edits(d, spec) : st[e] \in Nat /\ st[e] > clk[d]
      /\ \A a, b \in Edits(d, spec) : a # b => st[a] # st[b]
  <2>1. st \in [Edits(d, spec) -> Tick(clk[d], phys)..(Tick(clk[d], phys) + Cardinality(Edits(d, spec)) - 1)]
        /\ \A a, b \in Edits(d, spec) : a # b => st[a] # st[b]
    BY DEF Stampings
  <2>2. ASSUME NEW e \in Edits(d, spec) PROVE st[e] \in Nat /\ st[e] > clk[d]
    <3>1. st[e] \in Tick(clk[d], phys)..(Tick(clk[d], phys) + Cardinality(Edits(d, spec)) - 1)
      BY <2>1
    <3> QED BY <1>4, <1>5, <3>1
  <2> QED BY <2>1, <2>2
<1>7. ASSUME NEW e \in Edits(d, spec)
      PROVE  /\ Record(d, e, st[e]) \in Change /\ Record(d, e, st[e]).origin = d
             /\ Record(d, e, st[e]).hlc = st[e]
             /\ Record(d, e, st[e]).col # None => Record(d, e, st[e]).val \in Val
  <2>1. e \in Pk \X (Col \cup {None}) /\ e[1] \in Pk /\ e[2] \in Col \cup {None}
    BY <1>4
  <2>2. e[2] # None => row[d][e[1]] \in Row /\ row[d][e[1]][e[2]] \in Val
    BY <1>0, <2>1 DEF Edits, Row
  <2>3. st[e] \in Stamp
    <3>1. Record(d, e, st[e]) \in recs /\ Record(d, e, st[e]).hlc = st[e]
      BY DEF Record
    <3>2. st[e] <= MaxStamp /\ st[e] \in Nat /\ st[e] > clk[d]
      BY <1>2, <1>6, <3>1
    <3> QED BY <1>5, <3>2, RecordsAssumption DEF Stamp
  <2> QED BY <2>1, <2>2, <2>3 DEF Record, Change
<1>8. /\ \A r \in recs : /\ r \in Change /\ r.origin = d /\ r.hlc > clk[d]
                         /\ r.col # None => r.val \in Val
      /\ \A r, s \in recs : r.hlc = s.hlc => r = s
      /\ recs \in SUBSET Change
  BY <1>6, <1>7
<1>9. ASSUME NEW e \in Edits(d, spec), NEW r, r = Record(d, e, st[e])
      PROVE  /\ r.pk = e[1] /\ r.col = e[2] /\ e = <<r.pk, r.col>>
             /\ r.col # None => r.val = row[d][r.pk][r.col]
  <2>1. e = <<e[1], e[2]>>
    BY <1>4
  <2>2. r.pk = e[1] /\ r.col = e[2]
    BY <1>9 DEF Record
  <2>3. r.col # None => r.val = row[d][e[1]][e[2]]
    BY <1>9 DEF Record
  <2> QED BY <2>1, <2>2, <2>3
<1>10. /\ \A r \in recs : /\ <<r.pk, r.col>> \in Edits(d, spec)
                          /\ r.col # None => r.val = row[d][r.pk][r.col]
       /\ \A e \in Edits(d, spec) : \E r \in recs : r.pk = e[1] /\ r.col = e[2]
  BY <1>9
<1>11. IsFiniteSet(recs)
  <2> DEFINE f == [e \in Edits(d, spec) |-> Record(d, e, st[e])]
  <2>1. f \in Surjection(Edits(d, spec), recs)
    BY DEF Surjection
  <2> HIDE DEF f, recs
  <2> QED BY <1>4, <2>1, FS_Surjection
<1> HIDE DEF recs
<1>12. c \in Nat /\ c >= clk[d] /\ \A r \in recs : r.hlc <= c
  <2>1. hlcs \in SUBSET Nat /\ clk[d] \in hlcs /\ \A r \in recs : r.hlc \in hlcs
    BY <1>5, <1>8, ChangeProperties
  <2>2. \A x \in hlcs : x <= clk[d] + MaxStamp
    BY <1>2, <1>5, <1>8, ChangeProperties, RecordsAssumption
  <2>3. clk[d] + MaxStamp \in Nat
    BY <1>5, RecordsAssumption
  <2> HIDE DEF hlcs
  <2>4. Highest(hlcs) \in Nat /\ \A x \in hlcs : x <= Highest(hlcs)
    BY <2>1, <2>2, <2>3, HighestProperties
  <2> QED BY <1>5, <2>1, <2>4
<1> HIDE DEF c
<1> QED BY <1>2, <1>8, <1>10, <1>11, <1>12 DEF Authored

LEMMA InvFlush ==
  ASSUME ReplicaInv, NEW d \in Device, NEW spec \in (SUBSET Col) \cup {None},
         FlushWith(d, spec)
  PROVE  ReplicaInv'
<1> USE DEF ReplicaInv
<1>0. /\ row \in [Device -> [Pk -> Row \cup {None}]] /\ clk \in [Device -> Nat]
      /\ log \in [Device -> SUBSET Change]
  BY DEF TypeOK
<1>a. PICK recs \in SUBSET Change, c \in Nat : Authored(d, spec, recs, c)
  BY FlushRecords
<1>1. /\ IsFiniteSet(recs) /\ c >= clk[d]
      /\ \A r \in recs : /\ r.origin = d /\ r.hlc > clk[d] /\ r.hlc <= c
                         /\ r.col # None => r.val \in Val
      /\ \A r, s \in recs : r.hlc = s.hlc => r = s
      /\ log'  = [log  EXCEPT ![d] = @ \cup recs]
      /\ cell' = [cell EXCEPT ![d] = Upsert(@, Cells(recs))]
      /\ tomb' = [tomb EXCEPT ![d] = Upsert(@, Deletes(recs))]
      /\ vv'   = [vv   EXCEPT ![d] = BumpVV(@, recs)]
      /\ clk'  = [clk  EXCEPT ![d] = c]
  BY <1>a DEF Authored
<1>2. \A r \in recs : r.hlc \in Nat
  BY ChangeProperties
<1>3. clk[d] \in Nat
  BY <1>0
<1>4. StampsUnique'
  <2> SUFFICES ASSUME NEW e \in Device, NEW f \in Device, NEW r \in log'[e], NEW s \in log'[f],
                      r.origin = s.origin, r.hlc = s.hlc
               PROVE  r = s
    BY DEF StampsUnique, Promises!StampsUnique
  <2>1. \A g \in Device : log'[g] \subseteq log[g] \cup recs
    BY <1>0, <1>1
  <2>2. \A g \in Device : \A q \in log[g], x \in recs : q.origin = d => q.hlc < x.hlc
    <3> SUFFICES ASSUME NEW g \in Device, NEW q \in log[g], NEW x \in recs, q.origin = d
                 PROVE  q.hlc < x.hlc
      OBVIOUS
    <3>1. q \in log[d] /\ q \in Change
      BY <1>0 DEF AuthorHolds
    <3>2. q.hlc <= clk[d] /\ q.hlc \in Nat /\ x.hlc \in Nat
      BY <1>1, <1>2, <3>1, ChangeProperties DEF ClockAhead
    <3> QED BY <1>3, <1>1, <1>2, <3>2
  <2>3. \A g \in Device : \A q \in log[g] : q.hlc \in Nat
    BY <1>0, ChangeProperties
  <2>4. CASE r \in recs /\ s \in recs
    BY <1>1, <1>2, <2>4
  <2>5. CASE r \in recs /\ s \in log[f]
    BY <1>1, <1>2, <2>2, <2>3, <2>5
  <2>6. CASE r \in log[e] /\ s \in recs
    BY <1>1, <1>2, <2>2, <2>3, <2>6
  <2>7. CASE r \in log[e] /\ s \in log[f]
    BY <2>7 DEF StampsUnique, Promises!StampsUnique
  <2> QED BY <2>1, <2>4, <2>5, <2>6, <2>7
<1>5. RowsTyped'
  BY DEF FlushWith, RowsTyped, TypeOK
<1> QED BY <1>1, <1>4, <1>5, InvBatch

(* A column of a row rebuilt from sound cells has a value; so it is a row.  *)
LEMMA ValueAtTyped ==
  ASSUME NEW cells, NEW pk, NEW old \in Row \cup {None}, NEW c \in Col,
         \A x \in cells : x.col # None => x.val \in Val
  PROVE  ValueAt(cells, old, pk, c) \in Val
<1>1. CASE CellAt(cells, pk, c) # {}
  <2> DEFINE x == CHOOSE y \in CellAt(cells, pk, c) : TRUE
  <2>1. x \in CellAt(cells, pk, c)
    BY <1>1
  <2>2. x \in cells /\ x.col # None
    BY <2>1, MergeAssumption DEF CellAt
  <2> QED BY <1>1, <2>2 DEF ValueAt
<1>2. CASE CellAt(cells, pk, c) = {}
  BY <1>2, MergeAssumption DEF ValueAt, Row
<1> QED BY <1>1, <1>2

LEMMA MaterializeTyped ==
  ASSUME NEW cells, NEW tombs, NEW pk, NEW old \in Row \cup {None}, NEW cols,
         \A x \in cells : x.col # None => x.val \in Val
  PROVE  Materialize(cells, tombs, pk, old, cols) \in Row \cup {None}
<1> DEFINE known == {x \in cells : x.col \in cols}
<1>1. \A c \in Col : ValueAt(known, old, pk, c) \in Val
  BY ValueAtTyped
<1> QED BY <1>1 DEF Materialize, Row

LEMMA InvDeliver ==
  ASSUME ReplicaInv, NEW d \in Device, NEW e \in Device \ {d},
         NEW spec \in (SUBSET Col) \cup {None}, DeliverWith(d, e, spec)
  PROVE  ReplicaInv'
<1> USE DEF ReplicaInv
<1>0. /\ row \in [Device -> [Pk -> Row \cup {None}]] /\ clk \in [Device -> Nat]
      /\ log \in [Device -> SUBSET Change] /\ cell \in [Device -> SUBSET Change]
      /\ ops \in [Device -> [Pk -> {None, "upsert", "delete"}]]
  BY DEF TypeOK
<1>1. PICK batch \in SUBSET log[e] : ApplyRemote(d, batch, spec)
  BY DEF DeliverWith
<1> DEFINE fresh == Fresh(log[d], batch)
           cells == Upsert(cell[d], Cells(fresh))
           tombs == Upsert(tomb[d], Deletes(fresh))
           dirty == IF spec = None THEN {} ELSE {r.pk : r \in fresh}
<1>2. PICK phys \in Readings[d] :
        /\ log'  = [log  EXCEPT ![d] = @ \cup fresh]
        /\ cell' = [cell EXCEPT ![d] = cells]
        /\ tomb' = [tomb EXCEPT ![d] = tombs]
        /\ vv'   = [vv   EXCEPT ![d] = BumpVV(@, fresh)]
        /\ clk'  = [clk  EXCEPT ![d] = Observe(@, phys, fresh)]
        /\ row'  = [row  EXCEPT ![d] =
                      [pk \in Pk |-> IF pk \in dirty
                                       THEN Materialize(cells, tombs, pk, @[pk], spec)
                                       ELSE @[pk]]]
        /\ UNCHANGED ops
  BY <1>1 DEF ApplyRemote
<1>3. fresh \subseteq log[e] /\ fresh = batch \ log[d]
  <2>1. \A r \in batch, s \in log[d] : r.origin = s.origin /\ r.hlc = s.hlc => r = s
    BY DEF StampsUnique, Promises!StampsUnique
  <2> QED BY <2>1, FreshProperties
<1>4. /\ fresh \in SUBSET Change /\ IsFiniteSet(fresh)
      /\ \A r \in fresh : r.col # None => r.val \in Val
      /\ \A r \in fresh : r.origin # d /\ r \in log[r.origin]
  <2>1. IsFiniteSet(log[e]) /\ \A r \in log[e] : r.col # None => r.val \in Val
    BY DEF LogsSound
  <2>2. \A r \in fresh : r \in log[r.origin]
    BY <1>3 DEF AuthorHolds
  <2>3. IsFiniteSet(fresh)
    BY <1>3, <2>1, FS_Subset
  <2>4. fresh \in SUBSET Change
    BY <1>0, <1>3
  <2> QED BY <1>3, <2>1, <2>2, <2>3, <2>4
<1>5. phys \in Nat
  BY ReplicaAssumption
<1> DEFINE c == Observe(clk[d], phys, fresh)
<1>6. c \in Nat /\ c >= clk[d]
  BY <1>0, <1>4, <1>5, ObserveProperties
<1>7. StampsUnique'
  <2>1. \A g \in Device : \A r \in log'[g] : \E h \in Device : r \in log[h]
    BY <1>0, <1>2, <1>3
  <2> QED BY <2>1 DEF StampsUnique, Promises!StampsUnique
<1>8. \A x \in cells : x.col # None => x.val \in Val
  <2>1. cell[d] \subseteq log[d]
    BY DEF LastWriterWins, Newest, Cells
  <2> QED BY <1>4, <2>1 DEF LogsSound, Upsert, Cells
<1>9. RowsTyped'
  <2> HIDE DEF cells, tombs, dirty, fresh
  <2>1. \A pk \in Pk : Materialize(cells, tombs, pk, row[d][pk], spec) \in Row \cup {None}
    BY <1>0, <1>8, MaterializeTyped
  <2>2. row' \in [Device -> [Pk -> Row \cup {None}]]
    BY <1>0, <1>2, <2>1
  <2> QED BY <1>0, <1>2, <2>2 DEF RowsTyped
<1>10. clk' = [clk EXCEPT ![d] = c]
       /\ cell' = [cell EXCEPT ![d] = Upsert(@, Cells(fresh))]
       /\ tomb' = [tomb EXCEPT ![d] = Upsert(@, Deletes(fresh))]
  BY <1>2
<1> HIDE DEF fresh, c
<1> QED BY <1>2, <1>4, <1>6, <1>7, <1>9, <1>10, InvBatch

LEMMA InvNext == ReplicaInv /\ [Next]_vars => ReplicaInv'
<1> SUFFICES ASSUME ReplicaInv, [Next]_vars PROVE ReplicaInv'
  OBVIOUS
<1>1. CASE UNCHANGED vars
  <2>1. RowsTyped' /\ clk' \in [Device -> Nat] /\ ClockAhead'
    BY <1>1 DEF ReplicaInv, TypeOK, RowsTyped, ClockAhead, vars
  <2> QED BY <1>1, <2>1, InvWrites DEF vars
<1>2. ASSUME NEW d \in Writers, App(d, Col, TRUE) PROVE ReplicaInv'
  BY <1>2, ReplicaAssumption, InvApp
<1>3. ASSUME NEW d \in Device, FlushLocal(d) PROVE ReplicaInv'
  BY <1>3, InvFlush DEF FlushLocal
<1>4. ASSUME NEW d \in Device, NEW e \in Device \ {d}, Deliver(d, e) PROVE ReplicaInv'
  BY <1>4, InvDeliver DEF Deliver
<1> QED BY <1>1, <1>2, <1>3, <1>4 DEF Next, Local
-----------------------------------------------------------------------------
(* The results.                                                            *)

LEMMA ReplicaInvariant == Spec => []ReplicaInv
  BY InvInit, InvNext, PTL DEF Spec

(* Every variable of every replica keeps its type; in particular no row     *)
(* rebuilt from records ever has a column without a value.                  *)
THEOREM ReplicaTypeOK == Spec => []TypeOK
  BY ReplicaInvariant, PTL DEF ReplicaInv

(* However records reach a replica, its merged tables are the newest of the *)
(* records it holds: merging commutes, associates and is idempotent.        *)
THEOREM ReplicaLastWriterWins == Spec => []LastWriterWins
  BY ReplicaInvariant, PTL DEF ReplicaInv

(* The vector a replica would send names the highest stamp it holds from    *)
(* each device, whatever was delivered twice or out of order.               *)
THEOREM ReplicaVVIsHighest == Spec => []VVIsHighest
  BY ReplicaInvariant, PTL DEF ReplicaInv

(* No two records of the organisation share origin and stamp, whatever the  *)
(* wall clocks show.                                                        *)
THEOREM ReplicaStampsUnique == Spec => []StampsUnique
  BY ReplicaInvariant, PTL DEF ReplicaInv
-----------------------------------------------------------------------------
(* Replicas implement the abstract change log.                              *)

LEMMA ReplicaInitRefines == Init => Promises!Init
  BY DEF Init, Promises!Init

LEMMA FlushAuthors ==
  ASSUME ReplicaInv, ReplicaInv', NEW d \in Device,
         NEW spec \in (SUBSET Col) \cup {None}, FlushWith(d, spec)
  PROVE  Promises!Author(d)
<1> USE DEF ReplicaInv
<1>0. /\ clk \in [Device -> Nat] /\ log \in [Device -> SUBSET Change]
      /\ log' \in [Device -> SUBSET Change]
  BY DEF TypeOK
<1>a. PICK recs \in SUBSET Change, c \in Nat : Authored(d, spec, recs, c)
  BY FlushRecords
<1>1. /\ log' = [log EXCEPT ![d] = @ \cup recs]
      /\ \A r \in recs : r.origin = d
      /\ \A r \in recs : r.hlc > clk[d]
  BY <1>a DEF Authored
<1>2. Promises!New(d) \subseteq recs
  BY <1>0, <1>1 DEF Promises!New
<1>3. Promises!OnlyGrows(d)
  BY <1>0, <1>1 DEF Promises!OnlyGrows
<1>4. \A r, s \in Promises!New(d) : r.hlc = s.hlc => r = s
  <2>1. StampsUnique'
    OBVIOUS
  <2> QED BY <1>1, <1>2, <2>1 DEF StampsUnique, Promises!StampsUnique, Promises!New
<1>5. \A r \in Promises!New(d), s \in log[d] : s.origin = d => s.hlc < r.hlc
  <2> SUFFICES ASSUME NEW r \in Promises!New(d), NEW s \in log[d], s.origin = d
               PROVE  s.hlc < r.hlc
    OBVIOUS
  <2>1. r.hlc > clk[d] /\ s.hlc <= clk[d] /\ clk[d] \in Nat
    BY <1>0, <1>1, <1>2 DEF ClockAhead
  <2>2. r.hlc \in Nat /\ s.hlc \in Nat
    BY <1>0, ChangeProperties DEF Promises!New
  <2> QED BY <2>1, <2>2
<1> QED BY <1>1, <1>2, <1>3, <1>4, <1>5 DEF Promises!Author

LEMMA DeliverLearns ==
  ASSUME ReplicaInv, NEW d \in Device, NEW e \in Device \ {d},
         NEW spec, DeliverWith(d, e, spec)
  PROVE  Promises!Learn(d, e)
<1>1. log \in [Device -> SUBSET Change]
  BY DEF ReplicaInv, TypeOK
<1>2. PICK batch \in SUBSET log[e] : ApplyRemote(d, batch, spec)
  BY DEF DeliverWith
<1>3. log' = [log EXCEPT ![d] = @ \cup Fresh(log[d], batch)]
  BY <1>2 DEF ApplyRemote
<1>4. Fresh(log[d], batch) \subseteq log[e]
  BY DEF Fresh
<1> QED BY <1>1, <1>3, <1>4 DEF Promises!Learn, Promises!OnlyGrows, Promises!New

LEMMA ReplicaNextRefines ==
  ReplicaInv /\ ReplicaInv' /\ [Next]_vars => [Promises!Next]_log
<1> SUFFICES ASSUME ReplicaInv, ReplicaInv', [Next]_vars PROVE [Promises!Next]_log
  OBVIOUS
<1>0. Promises!TypeOK'
  BY DEF ReplicaInv, TypeOK, Promises!TypeOK
<1>1. CASE UNCHANGED vars
  BY <1>1 DEF vars
<1>2. ASSUME NEW d \in Writers, App(d, Col, TRUE) PROVE UNCHANGED log
  BY <1>2 DEF App, AppInsert, AppUpdate, AppDelete, Written
<1>3. ASSUME NEW d \in Device, FlushLocal(d) PROVE Promises!Next
  BY <1>0, <1>3, FlushAuthors DEF Promises!Next, FlushLocal
<1>4. ASSUME NEW d \in Device, NEW e \in Device \ {d}, Deliver(d, e) PROVE Promises!Next
  BY <1>0, <1>4, DeliverLearns DEF Promises!Next, Deliver
<1> QED BY <1>1, <1>2, <1>3, <1>4 DEF Next, Local

(* Replicas implement the abstract change log: every step authors fresh     *)
(* records of one device, learns records another holds, or changes no log.  *)
THEOREM ReplicaImplements == Spec => Implements
  BY ReplicaInitRefines, ReplicaNextRefines, ReplicaInvariant, PTL
  DEF Spec, Implements, Promises!Spec
-----------------------------------------------------------------------------
(* Rows.                                                                   *)

(* What RowShowsNewest says, of a row and the log it is rebuilt from.       *)
About(L, pk) == {r \in L : r.pk = pk}

Alive(L, pk) ==
  \E r \in Cells(About(L, pk)) : \A t \in Deletes(About(L, pk)) : SortsAfter(r, t)

Whole(L, pk) == \A c \in Required : \E r \in About(L, pk) : r.col = c

Shows(L, pk, cols, now) ==
  /\ ~Alive(L, pk) => now = None
  /\ Alive(L, pk) /\ Whole(L, pk) =>
       /\ now # None
       /\ \A r \in Newest(Cells(About(L, pk))) : r.col \in cols => now[r.col] = r.val

(* One row, rebuilt from the newest records of a log in which origin and    *)
(* stamp identify a record, shows the newest of them.                      *)
LEMMA RebuiltRowShows ==
  ASSUME NEW L \in SUBSET Change, NEW pk \in Pk, NEW old \in Row \cup {None},
         NEW cols \in SUBSET Col, Required \subseteq cols,
         \A r, s \in L : r.origin = s.origin /\ r.hlc = s.hlc => r = s,
         \A r \in L : r.col # None => r.val \in Val,
         \E r \in L : r.pk = pk
  PROVE  Shows(L, pk, cols, Materialize(Newest(Cells(L)), Newest(Deletes(L)), pk, old, cols))
<1> DEFINE now == Materialize(Newest(Cells(L)), Newest(Deletes(L)), pk, old, cols)
           about == {r \in L : r.pk = pk}
           alive == \E r \in Cells(about) : \A t \in Deletes(about) : SortsAfter(r, t)
           cells == Newest(Cells(L))
           tombs == Newest(Deletes(L))
           known == {x \in cells : x.col \in cols}
<1>0. /\ Cells(L) \in SUBSET Change /\ Deletes(L) \in SUBSET Change
      /\ cells \subseteq L /\ tombs \subseteq L /\ L \subseteq Change
      /\ \A x \in cells : x.col # None
      /\ \A t \in tombs : t.col = None
  BY DEF Cells, Deletes, Newest
<1>1. \A r, s \in L : IncomingWins(r, s) <=> SortsAfter(r, s)
  BY DEF IncomingWins, SortsAfter
<1>2. \A r, s \in L : r # s => SortsAfter(r, s) \/ SortsAfter(s, r)
  BY <1>0, ChangeProperties DEF SortsAfter
<1>3. \A r, s, t \in L : ~SortsAfter(r, s) /\ ~SortsAfter(s, t) => ~SortsAfter(r, t)
  BY <1>0, ChangeProperties DEF SortsAfter
<1>4. \A r, s \in L : SortsAfter(r, s) => ~SortsAfter(s, r)
  BY <1>0, ChangeProperties DEF SortsAfter
<1>5. ASSUME NEW r \in Cells(about)
      PROVE  \E x \in cells : x.pk = pk /\ x.col = r.col /\ ~SortsAfter(r, x)
  <2>1. r \in Cells(L) /\ r.pk = pk
    BY DEF Cells
  <2>2. PICK x \in cells : SameKey(r, x) /\ ~SortsAfter(r, x)
    BY <1>0, <2>1, NewestExists
  <2> QED BY <2>1, <2>2 DEF SameKey
<1>6. ASSUME NEW r \in Deletes(about)
      PROVE  \E t \in tombs : t.pk = pk /\ ~SortsAfter(r, t)
  <2>1. r \in Deletes(L) /\ r.pk = pk
    BY DEF Deletes
  <2>2. PICK t \in tombs : SameKey(r, t) /\ ~SortsAfter(r, t)
    BY <1>0, <2>1, NewestExists
  <2> QED BY <2>1, <2>2 DEF SameKey
<1>7. ASSUME NEW r \in Deletes(about), NEW t \in tombs, t.pk = pk
      PROVE  ~SortsAfter(r, t)
  BY <1>0, <1>7 DEF Newest, SameKey, Deletes
<1>8. about = Cells(about) \cup Deletes(about)
  BY DEF Cells, Deletes
<1>9. ~(\A x \in cells \cup tombs : x.pk # pk)
  BY <1>5, <1>6, <1>8
<1> HIDE DEF cells, tombs
<1>10. ASSUME ~alive PROVE Dead(cells, tombs, pk)
  <2>1. Deletes(about) # {}
    BY <1>8, <1>10
  <2>2. PICK t \in tombs : t.pk = pk
    BY <1>6, <2>1
  <2>3. ASSUME NEW x \in cells, x.pk = pk PROVE IncomingWins(t, x)
    <3>1. x \in Cells(about) /\ x \in L /\ t \in L /\ x # t
      BY <1>0, <2>3 DEF Cells
    <3>2. PICK u \in Deletes(about) : ~SortsAfter(x, u)
      BY <1>10, <3>1
    <3>3. ~SortsAfter(u, t) /\ u \in L
      BY <1>7, <2>2, <3>2 DEF Deletes
    <3>4. ~SortsAfter(x, t)
      BY <1>3, <3>1, <3>2, <3>3
    <3> QED BY <1>1, <1>2, <3>1, <3>4
  <2> QED BY <2>2, <2>3 DEF Dead
<1>11. ASSUME alive PROVE ~Dead(cells, tombs, pk) /\ Cells(about) # {}
  <2>1. PICK r \in Cells(about) : \A t \in Deletes(about) : SortsAfter(r, t)
    BY <1>11
  <2>2. PICK x \in cells : x.pk = pk /\ ~SortsAfter(r, x)
    BY <1>5
  <2>3. ASSUME NEW t \in tombs, t.pk = pk PROVE ~IncomingWins(t, x)
    <3>1. t \in Deletes(about) /\ t \in L /\ x \in L /\ r \in L
      BY <1>0, <2>3 DEF Deletes, Cells
    <3>2. ~SortsAfter(t, r)
      BY <1>4, <2>1, <3>1
    <3> QED BY <1>1, <1>3, <2>2, <3>1, <3>2
  <2> QED BY <2>1, <2>2, <2>3 DEF Dead
<1>12. ASSUME alive, \A c \in Required : \E r \in about : r.col = c
       PROVE  /\ now = [c \in Col |-> ValueAt(known, old, pk, c)]
              /\ now # None
  <2>1. ASSUME NEW c \in Required PROVE CellAt(known, pk, c) # {}
    <3>1. PICK r \in about : r.col = c
      BY <1>12
    <3>2. c # None /\ c \in cols
      BY MergeAssumption
    <3>3. PICK x \in cells : x.pk = pk /\ x.col = r.col
      BY <1>5, <3>1, <3>2 DEF Cells
    <3> QED BY <3>1, <3>2, <3>3 DEF CellAt
  <2>2. now = [c \in Col |-> ValueAt(known, old, pk, c)]
    BY <1>9, <1>11, <1>12, <2>1 DEF Materialize, cells, tombs
  <2>3. \A x \in cells : x.col # None => x.val \in Val
    BY <1>0
  <2>4. now \in Row
    <3>1. \A c \in Col : ValueAt(known, old, pk, c) \in Val
      BY <2>3, ValueAtTyped
    <3> QED BY <2>2, <3>1 DEF Row
  <2> QED BY <2>2, <2>4, MergeAssumption
<1>13. ASSUME NEW r \in Newest(Cells(about)), r.col \in cols
       PROVE  ValueAt(known, old, pk, r.col) = r.val
  <2>1. r \in L /\ r.pk = pk /\ r.col # None
    BY DEF Newest, Cells
  <2>2. r \in cells
    BY <1>13, <2>1 DEF cells, Newest, Cells, SameKey
  <2>3. r \in CellAt(known, pk, r.col)
    BY <1>13, <2>1, <2>2 DEF CellAt
  <2>4. ASSUME NEW x \in CellAt(known, pk, r.col) PROVE x = r
    <3>1. x \in cells /\ x \in L /\ SameKey(x, r) /\ SameKey(r, x)
      BY <1>0, <2>1, <2>4 DEF CellAt, SameKey
    <3>2. ~SortsAfter(x, r) /\ ~SortsAfter(r, x)
      BY <2>2, <3>1 DEF cells, Newest
    <3> QED BY <1>2, <2>1, <3>1, <3>2
  <2>5. (CHOOSE x \in CellAt(known, pk, r.col) : TRUE) = r
    BY <2>3, <2>4
  <2> QED BY <2>3, <2>5 DEF ValueAt
<1>14. ~alive => now = None
  BY <1>9, <1>10 DEF Materialize, cells, tombs
<1>15. Shows(L, pk, cols, now)
  <2> HIDE DEF now, known
  <2>1. ASSUME alive, \A c \in Required : \E r \in about : r.col = c,
               NEW r \in Newest(Cells(about)), r.col \in cols
        PROVE  now[r.col] = r.val
    BY <1>12, <1>13, <2>1
  <2> QED BY <1>12, <1>14, <2>1 DEF Shows, About, Alive, Whole
<1> QED BY <1>15
-----------------------------------------------------------------------------
(* Clocks that follow what is held.                                        *)

(* No record a device holds is above its clock: none was stored that lay    *)
(* too far ahead of the wall clock to be absorbed.                         *)
ClockFollows == \A d \in Device : \A r \in log[d] : r.hlc <= clk[d]

(* The wall clocks are so close together that no stamp is outside the drift *)
(* window of a device.                                                     *)
ClocksClose == \A d \in Device : \A phys \in Readings[d] : MaxStamp <= phys + Drift

(* What a delivery does with the records of it that are new.                *)
Arrived(d, recs, spec) ==
  /\ IsFiniteSet(recs)
  /\ \A r \in recs : r.origin # d
  /\ \E phys \in Readings[d] : clk' = [clk EXCEPT ![d] = Observe(@, phys, recs)]
  /\ log' = [log EXCEPT ![d] = @ \cup recs]
  /\ \A pk \in Pk :
       row'[d][pk] = IF spec # None /\ \E r \in recs : r.pk = pk
                       THEN Materialize(cell'[d], tomb'[d], pk, row[d][pk], spec)
                       ELSE row[d][pk]
  /\ \A e \in Device \ {d} : row'[e] = row[e]
  /\ UNCHANGED ops

LEMMA DeliverRecords ==
  ASSUME ReplicaInv, NEW d \in Device, NEW e \in Device \ {d}, NEW spec,
         DeliverWith(d, e, spec)
  PROVE  \E recs \in SUBSET Change : Arrived(d, recs, spec)
<1> USE DEF ReplicaInv
<1>0. /\ row \in [Device -> [Pk -> Row \cup {None}]] /\ clk \in [Device -> Nat]
      /\ log \in [Device -> SUBSET Change] /\ cell \in [Device -> SUBSET Change]
      /\ tomb \in [Device -> SUBSET Change]
  BY DEF TypeOK
<1>1. PICK batch \in SUBSET log[e] : ApplyRemote(d, batch, spec)
  BY DEF DeliverWith
<1> DEFINE recs  == Fresh(log[d], batch)
           cells == Upsert(cell[d], Cells(recs))
           tombs == Upsert(tomb[d], Deletes(recs))
           dirty == IF spec = None THEN {} ELSE {r.pk : r \in recs}
<1>2. PICK phys \in Readings[d] :
        /\ log'  = [log  EXCEPT ![d] = @ \cup recs]
        /\ cell' = [cell EXCEPT ![d] = cells]
        /\ tomb' = [tomb EXCEPT ![d] = tombs]
        /\ clk'  = [clk  EXCEPT ![d] = Observe(@, phys, recs)]
        /\ row'  = [row  EXCEPT ![d] =
                      [pk \in Pk |-> IF pk \in dirty
                                       THEN Materialize(cells, tombs, pk, @[pk], spec)
                                       ELSE @[pk]]]
        /\ UNCHANGED ops
  BY <1>1 DEF ApplyRemote
<1>3. recs = batch \ log[d]
  <2>1. \A r \in batch, s \in log[d] : r.origin = s.origin /\ r.hlc = s.hlc => r = s
    BY DEF StampsUnique, Promises!StampsUnique
  <2> QED BY <2>1, FreshProperties
<1>4. recs \in SUBSET Change /\ IsFiniteSet(recs) /\ \A r \in recs : r.origin # d
  <2>1. IsFiniteSet(log[e])
    BY DEF LogsSound
  <2>2. \A r \in recs : r \in log[r.origin]
    BY <1>3 DEF AuthorHolds
  <2>3. IsFiniteSet(recs)
    BY <1>3, <2>1, FS_Subset
  <2> QED BY <1>0, <1>3, <2>2, <2>3
<1> HIDE DEF recs, cells, tombs
<1>5. cell'[d] = cells /\ tomb'[d] = tombs
  BY <1>0, <1>2
<1>6. ASSUME NEW pk \in Pk
      PROVE  row'[d][pk] = IF spec # None /\ \E r \in recs : r.pk = pk
                             THEN Materialize(cell'[d], tomb'[d], pk, row[d][pk], spec)
                             ELSE row[d][pk]
  <2>1. row'[d][pk] = IF pk \in dirty THEN Materialize(cells, tombs, pk, row[d][pk], spec)
                                      ELSE row[d][pk]
    BY <1>0, <1>2
  <2>2. pk \in dirty <=> spec # None /\ \E r \in recs : r.pk = pk
    OBVIOUS
  <2> QED BY <1>5, <2>1, <2>2
<1>7. \A f \in Device \ {d} : row'[f] = row[f]
  BY <1>0, <1>2
<1> QED BY <1>2, <1>4, <1>6, <1>7 DEF Arrived

LEMMA ClockFollowsBatch ==
  ASSUME ReplicaInv, ClockFollows, NEW d \in Device, NEW recs \in SUBSET Change, NEW c \in Nat,
         log' = [log EXCEPT ![d] = @ \cup recs], clk' = [clk EXCEPT ![d] = c],
         c >= clk[d], \A r \in recs : r.hlc <= c
  PROVE  ClockFollows'
<1>1. clk \in [Device -> Nat] /\ log \in [Device -> SUBSET Change]
  BY DEF ReplicaInv, TypeOK
<1>2. ASSUME NEW e \in Device, NEW r \in log'[e] PROVE r.hlc <= clk'[e]
  <2>1. CASE e = d /\ r \in log[d]
    <3>1. r.hlc <= clk[d] /\ clk[d] \in Nat /\ r.hlc \in Nat
      BY <1>1, <2>1, ChangeProperties DEF ClockFollows
    <3> QED BY <1>1, <2>1, <3>1
  <2>2. CASE e = d /\ r \in recs
    BY <1>1, <2>2
  <2>3. CASE e # d
    BY <1>1, <1>2, <2>3 DEF ClockFollows
  <2> QED BY <1>1, <1>2, <2>1, <2>2, <2>3
<1> QED BY <1>2 DEF ClockFollows

LEMMA ClockFollowsNext ==
  ASSUME ClocksClose, ReplicaInv, ClockFollows, [Next]_vars
  PROVE  ClockFollows'
<1>0. clk \in [Device -> Nat] /\ log \in [Device -> SUBSET Change]
  BY DEF ReplicaInv, TypeOK
<1>1. CASE UNCHANGED <<clk, log>>
  BY <1>1 DEF ClockFollows
<1>2. ASSUME NEW d \in Writers, App(d, Col, TRUE) PROVE UNCHANGED <<clk, log>>
  BY <1>2 DEF App, AppInsert, AppUpdate, AppDelete, Written
<1>3. ASSUME NEW d \in Device, FlushLocal(d) PROVE ClockFollows'
  <2>0. Col \in (SUBSET Col) \cup {None} /\ FlushWith(d, Col)
    BY <1>3 DEF FlushLocal
  <2>1. PICK recs \in SUBSET Change, c \in Nat : Authored(d, Col, recs, c)
    BY <2>0, FlushRecords
  <2>2. /\ log' = [log EXCEPT ![d] = @ \cup recs] /\ clk' = [clk EXCEPT ![d] = c]
        /\ c >= clk[d] /\ \A r \in recs : r.hlc <= c
    BY <2>1 DEF Authored
  <2> QED BY <2>2, ClockFollowsBatch
<1>4. ASSUME NEW d \in Device, NEW e \in Device \ {d}, Deliver(d, e) PROVE ClockFollows'
  <2>1. PICK recs \in SUBSET Change : Arrived(d, recs, Col)
    BY <1>4, DeliverRecords DEF Deliver
  <2>2. PICK phys \in Readings[d] : clk' = [clk EXCEPT ![d] = Observe(@, phys, recs)]
    BY <2>1 DEF Arrived
  <2>3. log' = [log EXCEPT ![d] = @ \cup recs] /\ IsFiniteSet(recs)
    BY <2>1 DEF Arrived
  <2>4. phys \in Nat /\ clk[d] \in Nat /\ MaxStamp <= phys + Drift
    BY <1>0, ReplicaAssumption DEF ClocksClose
  <2> DEFINE c == Observe(clk[d], phys, recs)
  <2>5. /\ c \in Nat /\ c >= clk[d]
        /\ \A r \in recs : r.hlc <= phys + Drift => r.hlc <= c
    BY <2>3, <2>4, ObserveProperties
  <2>6. clk' = [clk EXCEPT ![d] = c]
    BY <2>2
  <2> HIDE DEF c
  <2>7. \A r \in recs : r.hlc <= c
    <3> SUFFICES ASSUME NEW r \in recs PROVE r.hlc <= c
      OBVIOUS
    <3>1. r.hlc \in Nat /\ r.hlc <= MaxStamp
      BY ChangeProperties, RecordsAssumption DEF Stamp
    <3>2. r.hlc <= phys + Drift
      BY <2>4, <3>1, MergeAssumption, RecordsAssumption
    <3> QED BY <2>5, <3>2
  <2> QED BY <2>3, <2>5, <2>6, <2>7, ClockFollowsBatch
<1> QED BY <1>1, <1>2, <1>3, <1>4 DEF Next, Local, vars

(* As long as the wall clocks are so close that every stamp falls into the  *)
(* drift window, the clock of a device follows all it holds.               *)
THEOREM ReplicaClocksFollow ==
  ASSUME ClocksClose
  PROVE  Spec => []ClockFollows
<1>1. Init => ClockFollows
  BY DEF Init, ClockFollows
<1>2. ReplicaInv /\ ClockFollows /\ [Next]_vars => ClockFollows'
  BY ClockFollowsNext
<1> QED BY <1>1, <1>2, ReplicaInvariant, PTL DEF Spec

LastOfAll ==
  \A d \in Device : \A r \in log'[d] \ log[d], s \in log[d] : r.origin = d => SortsAfter(r, s)

LEMMA NewWritesSortLast ==
  ASSUME ReplicaInv, ClockFollows, [Next]_vars
  PROVE  [LastOfAll]_vars
<1>0. clk \in [Device -> Nat] /\ log \in [Device -> SUBSET Change]
  BY DEF ReplicaInv, TypeOK
<1>1. CASE UNCHANGED log
  BY <1>1 DEF LastOfAll
<1>2. ASSUME NEW d \in Writers, App(d, Col, TRUE) PROVE UNCHANGED log
  BY <1>2 DEF App, AppInsert, AppUpdate, AppDelete, Written
<1>3. ASSUME NEW d \in Device, FlushLocal(d) PROVE LastOfAll
  <2>0. Col \in (SUBSET Col) \cup {None} /\ FlushWith(d, Col)
    BY <1>3 DEF FlushLocal
  <2>1. PICK recs \in SUBSET Change, c \in Nat : Authored(d, Col, recs, c)
    BY <2>0, FlushRecords
  <2>2. log' = [log EXCEPT ![d] = @ \cup recs] /\ \A r \in recs : r.hlc > clk[d]
    BY <2>1 DEF Authored
  <2>3. ASSUME NEW r \in recs, NEW s \in log[d] PROVE SortsAfter(r, s)
    <3>1. r.hlc \in Nat /\ s.hlc \in Nat /\ s.hlc <= clk[d] /\ r.hlc > clk[d] /\ clk[d] \in Nat
      BY <1>0, <2>2, ChangeProperties DEF ClockFollows
    <3> QED BY <3>1 DEF SortsAfter
  <2> QED BY <1>0, <2>2, <2>3 DEF LastOfAll
<1>4. ASSUME NEW d \in Device, NEW e \in Device \ {d}, Deliver(d, e) PROVE LastOfAll
  <2>1. PICK recs \in SUBSET Change : Arrived(d, recs, Col)
    BY <1>4, DeliverRecords DEF Deliver
  <2>2. log' = [log EXCEPT ![d] = @ \cup recs] /\ \A r \in recs : r.origin # d
    BY <2>1 DEF Arrived
  <2> QED BY <1>0, <2>2 DEF LastOfAll
<1> QED BY <1>1, <1>2, <1>3, <1>4 DEF Next, Local, vars

(* What a device writes sorts after everything it holds, as long as its     *)
(* clock was able to follow all it holds.                                  *)
THEOREM ReplicaWritesSortLast == Spec /\ []ClockFollows => WritesSortLast
<1>1. ReplicaInv /\ ClockFollows /\ [Next]_vars => [LastOfAll]_vars
  BY NewWritesSortLast
<1>2. Spec /\ []ClockFollows => [][LastOfAll]_vars
  BY <1>1, ReplicaInvariant, PTL DEF Spec
<1> QED BY <1>2 DEF WritesSortLast, LastOfAll
-----------------------------------------------------------------------------
(* Rows, followed through every step.                                      *)

(* A column nothing is known about holds its default.                       *)
Blank(L, pk, now) == \A c \in Col : (\A r \in About(L, pk) : r.col # c) => now[c] = Default

(* A row, given the log it goes with and what is staged for it.  With       *)
(* nothing staged it shows the log and nothing else; and whatever is       *)
(* staged, a row that is there was alive in the log or is not yet in it,   *)
(* and a row that is gone although it was to be written is gone from the   *)
(* log as well, so that a flush may drop what was staged for it.           *)
RowSound(L, pk, now, op) ==
  /\ op = None => Shows(L, pk, Col, now)
  /\ op = None /\ now # None => Whole(L, pk) /\ Blank(L, pk, now)
  /\ now = None /\ op = "upsert" => ~(Alive(L, pk) /\ Whole(L, pk))
  /\ now # None => Alive(L, pk) \/ (op # None /\ About(L, pk) = {})

RowsInv == \A d \in Device, pk \in Pk : RowSound(log[d], pk, row[d][pk], ops[d][pk])

LEMMA RowSoundAbout ==
  ASSUME NEW L, NEW M, NEW pk, NEW now, NEW op,
         About(L, pk) = About(M, pk), RowSound(L, pk, now, op)
  PROVE  RowSound(M, pk, now, op)
  BY DEF RowSound, Shows, Alive, Whole, Blank

LEMMA RowsInit == Init => RowsInv
<1> SUFFICES ASSUME Init, NEW d \in Device, NEW pk \in Pk
             PROVE  RowSound({}, pk, None, None)
  BY DEF Init, RowsInv
<1>1. About({}, pk) = {} /\ ~Alive({}, pk)
  BY DEF About, Alive, Cells
<1> QED BY <1>1, ReplicaAssumption DEF RowSound, Shows

(* An application writes: under a key nothing is known about, or a row that *)
(* is there.                                                               *)
LEMMA RowsApp ==
  ASSUME ReplicaInv, RowsInv, ~ReuseKeys, NEW d \in Device, App(d, Col, TRUE)
  PROVE  RowsInv'
<1>0. /\ row \in [Device -> [Pk -> Row \cup {None}]]
      /\ ops \in [Device -> [Pk -> {None, "upsert", "delete"}]]
  BY DEF ReplicaInv, TypeOK
<1> DEFINE Sound(k) == RowSound(log[d], k, row'[d][k], ops'[d][k])
           Kept(k) == row'[d][k] = row[d][k] /\ ops'[d][k] = ops[d][k]
           Others == \A e \in Device \ {d} : row'[e] = row[e] /\ ops'[e] = ops[e]
<1>1. ASSUME NEW k \in Pk, ops'[d][k] = "delete", row'[d][k] = None PROVE Sound(k)
  BY <1>1, ReplicaAssumption DEF RowSound
<1>2. ASSUME NEW k \in Pk, ops'[d][k] = "upsert", row'[d][k] # None,
             row[d][k] # None \/ About(log[d], k) = {}
      PROVE  Sound(k)
  <2>1. RowSound(log[d], k, row[d][k], ops[d][k])
    BY DEF RowsInv
  <2> QED BY <1>2, <2>1, ReplicaAssumption DEF RowSound
<1>3. ASSUME NEW k \in Pk, Kept(k) PROVE Sound(k)
  BY <1>3 DEF RowsInv
<1>4. ASSUME NEW pk \in Pk, NEW new \in Row, AppInsert(d, pk, new, TRUE)
      PROVE  Others /\ \A k \in Pk : Sound(k)
  <2>1. row' = [row EXCEPT ![d][pk] = new] /\ About(log[d], pk) = {}
    BY <1>4 DEF AppInsert, About
  <2>2. ops' = [ops EXCEPT ![d] = [k \in Pk |-> IF k = pk THEN "upsert" ELSE @[k]]]
    BY <1>4 DEF AppInsert, Stage
  <2>3. Others /\ \A k \in Pk \ {pk} : Kept(k)
    BY <1>0, <2>1, <2>2
  <2>4. row'[d][pk] = new /\ ops'[d][pk] = "upsert" /\ new # None
    BY <1>0, <2>1, <2>2, MergeAssumption
  <2> HIDE DEF Sound, Kept, Others
  <2>5. Sound(pk)
    BY <1>2, <2>1, <2>4
  <2> QED BY <1>3, <2>3, <2>5
<1>5. ASSUME NEW pk \in Pk, NEW to \in Pk, NEW c \in Col, NEW value \in Val,
             AppUpdate(d, pk, to, c, value, TRUE)
      PROVE  Others /\ \A k \in Pk : Sound(k)
  <2>1. row[d][pk] \in Row
    BY <1>0, <1>5 DEF AppUpdate
  <2>2. PICK new \in Row : new = [row[d][pk] EXCEPT ![c] = value]
    BY <2>1 DEF Row
  <2>3. row' = [row EXCEPT ![d][pk] = None, ![d][to] = new]
    BY <1>5, <2>2 DEF AppUpdate
  <2>4. row' = [row EXCEPT ![d] = [[row[d] EXCEPT ![pk] = None] EXCEPT ![to] = new]]
    BY <1>0, <2>3
  <2>5. ops' = [ops EXCEPT ![d] = [k \in Pk |-> IF k = to THEN "upsert"
                                                  ELSE IF k = pk THEN "delete" ELSE @[k]]]
    BY <1>5 DEF AppUpdate, Stage
  <2>6. Others /\ \A k \in Pk \ {pk, to} : Kept(k)
    BY <1>0, <2>4, <2>5
  <2>7. row'[d][to] = new /\ ops'[d][to] = "upsert" /\ new # None
    BY <1>0, <2>4, <2>5, MergeAssumption
  <2>8. pk # to => row'[d][pk] = None /\ ops'[d][pk] = "delete"
    BY <1>0, <2>4, <2>5
  <2>9. row[d][to] # None \/ About(log[d], to) = {}
    BY <1>5 DEF AppUpdate, About
  <2> HIDE DEF Sound, Kept, Others
  <2>10. Sound(to)
    BY <1>2, <2>7, <2>9
  <2>11. pk # to => Sound(pk)
    BY <1>1, <2>8
  <2> QED BY <1>3, <2>6, <2>10, <2>11
<1>6. ASSUME NEW pk \in Pk, AppDelete(d, pk, TRUE)
      PROVE  Others /\ \A k \in Pk : Sound(k)
  <2>1. row' = [row EXCEPT ![d][pk] = None]
    BY <1>6 DEF AppDelete
  <2>2. ops' = [ops EXCEPT ![d] = [k \in Pk |-> IF k = pk THEN "delete" ELSE @[k]]]
    BY <1>6 DEF AppDelete, Stage
  <2>3. Others /\ \A k \in Pk \ {pk} : Kept(k)
    BY <1>0, <2>1, <2>2
  <2>4. row'[d][pk] = None /\ ops'[d][pk] = "delete"
    BY <1>0, <2>1, <2>2
  <2> HIDE DEF Sound, Kept, Others
  <2>5. Sound(pk)
    BY <1>1, <2>4
  <2> QED BY <1>3, <2>3, <2>5
<1>7. log' = log
  BY DEF App, AppInsert, AppUpdate, AppDelete, Written
<1>8. Others /\ \A k \in Pk : Sound(k)
  <2> HIDE DEF Sound, Others
  <2>1. ASSUME NEW new \in [Col -> Input]
        PROVE  [c \in Col |-> IF c \in Col THEN new[c] ELSE Default] \in Row
    BY ReplicaAssumption, MergeAssumption DEF Row
  <2>2. ASSUME NEW pk \in Pk, NEW new \in [Col -> Input],
               AppInsert(d, pk, [c \in Col |-> IF c \in Col THEN new[c] ELSE Default], TRUE)
        PROVE  Others /\ \A k \in Pk : Sound(k)
    BY <1>4, <2>1, <2>2
  <2> QED BY <1>5, <1>6, <2>2 DEF App
<1> QED BY <1>7, <1>8 DEF RowsInv

(* A flushed row shows the log with the new records in it: they are newer   *)
(* than all before, and every column has a new record or agrees with the   *)
(* newest one held.  A table needs a column: without any, an inserted row  *)
(* has nothing to record.                                                  *)
LEMMA FlushedRow ==
  ASSUME ReplicaInv, ClockFollows, NCols > 0, NEW d \in Device, NEW pk \in Pk,
         NEW recs \in SUBSET Change, NEW c \in Nat, Authored(d, Col, recs, c),
         RowSound(log[d], pk, row[d][pk], ops[d][pk])
  PROVE  RowSound(log[d] \cup recs, pk, row[d][pk], None)
<1> DEFINE L == log[d]
           M == L \cup recs
           now == row[d][pk]
           op == ops[d][pk]
<1>0. /\ L \in SUBSET Change /\ clk[d] \in Nat /\ now \in Row \cup {None}
      /\ op \in {None, "upsert", "delete"} /\ M \in SUBSET Change
      /\ cell[d] = Newest(Cells(L))
  BY DEF ReplicaInv, TypeOK, LastWriterWins
<1>1. /\ \A r \in recs : r.hlc > clk[d] /\ r.origin = d
      /\ \A r, s \in recs : r.hlc = s.hlc => r = s
      /\ \A r \in recs : /\ <<r.pk, r.col>> \in Edits(d, Col)
                         /\ r.col # None => r.val = row[d][r.pk][r.col]
      /\ \A e \in Edits(d, Col) : \E r \in recs : r.pk = e[1] /\ r.col = e[2]
  BY DEF Authored
<1>2. ASSUME NEW r \in recs, NEW s \in L PROVE SortsAfter(r, s) /\ ~SortsAfter(s, r)
  <2>1. r.hlc \in Nat /\ s.hlc \in Nat /\ s.hlc <= clk[d] /\ r.hlc > clk[d]
    BY <1>0, <1>1, ChangeProperties DEF ClockFollows
  <2> QED BY <1>0, <2>1 DEF SortsAfter
<1>3. Col # None
  BY ReplicaAssumption
<1>4. /\ \A k \in Col : <<pk, k>> \in Edits(d, Col) <=>
           op # None /\ now # None /\ ~CellMatches(cell[d], pk, k, now[k])
      /\ <<pk, None>> \in Edits(d, Col) <=> op = "delete" /\ now = None
  BY <1>3, MergeAssumption DEF Edits
<1>5. \A r \in recs : r.col = None \/ r.col \in Col
  BY ChangeProperties
<1>6. ASSUME NEW r \in recs, r.pk = pk
      PROVE  \/ op = "delete" /\ now = None /\ r.col = None
             \/ op # None /\ now # None /\ r.col \in Col /\ r.val = now[r.col]
  BY <1>1, <1>4, <1>5, <1>6, MergeAssumption
<1>7. /\ op = "delete" /\ now = None => \E r \in recs : r.pk = pk /\ r.col = None
      /\ op # None /\ now # None =>
           \A k \in Col : CellMatches(cell[d], pk, k, now[k]) \/ \E r \in recs : r.pk = pk /\ r.col = k
  <2>1. \A k \in Col \cup {None} : <<pk, k>>[1] = pk /\ <<pk, k>>[2] = k
    OBVIOUS
  <2> QED BY <1>1, <1>4, <2>1
<1>8. /\ About(L, pk) \subseteq About(M, pk)
      /\ About(M, pk) \subseteq About(L, pk) \cup {r \in recs : r.pk = pk}
      /\ {r \in recs : r.pk = pk} \subseteq About(M, pk)
  BY DEF About
<1>9. RowSound(L, pk, now, op)
  OBVIOUS
<1> HIDE DEF L, M, now, op
<1>10. CASE op = None \/ (op = "upsert" /\ now = None)
  <2>1. \A r \in recs : r.pk # pk
    BY <1>6, <1>10, ReplicaAssumption
  <2>2. About(L, pk) = About(M, pk)
    BY <1>8, <2>1
  <2>3. RowSound(M, pk, now, op)
    BY <1>9, <2>2, RowSoundAbout
  <2> QED BY <1>10, <2>3, ReplicaAssumption DEF RowSound, Shows, now, M, L
<1>11. CASE op = "delete" /\ now = None
  <2>1. PICK t \in recs : t.pk = pk /\ t.col = None
    BY <1>7, <1>11
  <2>2. t \in Deletes(About(M, pk))
    BY <1>8, <2>1 DEF Deletes
  <2>3. ~Alive(M, pk)
    <3> SUFFICES ASSUME NEW r \in Cells(About(M, pk)) PROVE ~SortsAfter(r, t)
      BY <2>2 DEF Alive
    <3>1. r \in L
      BY <1>6, <1>8, <1>11 DEF Cells, About
    <3> QED BY <1>2, <3>1
  <2> QED BY <1>11, <2>3, ReplicaAssumption DEF RowSound, Shows, now, M, L
<1>12. CASE op # None /\ now # None
  <2> DEFINE Added(k) == \E r \in recs : r.pk = pk /\ r.col = k
  <2>1. ASSUME NEW k \in Col
        PROVE  \/ Added(k)
               \/ \E x \in Newest(Cells(L)) : x.pk = pk /\ x.col = k /\ x.val = now[k]
    BY <1>0, <1>7, <1>12 DEF CellMatches, CellAt
  <2>2. ASSUME NEW k \in Col PROVE \E r \in About(M, pk) : r.col = k
    BY <1>8, <2>1 DEF Newest, Cells, About
  <2>3. \A r \in Deletes(About(M, pk)) : r \in L
    BY <1>6, <1>8, <1>12, MergeAssumption DEF Deletes, About
  <2>4. Alive(M, pk)
    <3>1. CASE \E k \in Col : Added(k)
      <4>1. PICK k \in Col, r \in recs : r.pk = pk /\ r.col = k
        BY <3>1
      <4>2. r \in Cells(About(M, pk))
        BY <1>8, <4>1, MergeAssumption DEF Cells
      <4> QED BY <1>2, <2>3, <4>2 DEF Alive
    <3>2. CASE ~(\E k \in Col : Added(k))
      <4>1. \A r \in recs : r.pk # pk
        BY <1>6, <1>12, <3>2
      <4>2. About(M, pk) = About(L, pk)
        BY <1>8, <4>1
      <4>3. 1 \in Col
        BY MergeAssumption DEF Col
      <4>4. About(L, pk) # {}
        BY <2>2, <4>2, <4>3
      <4>5. Alive(L, pk)
        BY <1>9, <1>12, <4>4 DEF RowSound
      <4> QED BY <4>2, <4>5 DEF Alive
    <3> QED BY <3>1, <3>2
  <2>5. ASSUME NEW r \in Newest(Cells(About(M, pk))) PROVE now[r.col] = r.val
    <3>1. r \in M /\ r.pk = pk /\ r.col \in Col
      BY <1>0, ChangeProperties DEF Newest, Cells, About
    <3>2. CASE r \in recs
      BY <1>6, <3>1, <3>2, MergeAssumption
    <3>3. CASE r \in L
      <4>1. \A s \in recs : s.pk = pk => s.col # r.col
        <5> SUFFICES ASSUME NEW s \in recs, s.pk = pk, s.col = r.col PROVE FALSE
          OBVIOUS
        <5>1. s \in Cells(About(M, pk)) /\ SameKey(r, s)
          BY <1>8, <3>1, MergeAssumption DEF Cells, SameKey
        <5> QED BY <1>2, <3>3, <5>1 DEF Newest
      <4>2. PICK x \in Newest(Cells(L)) : x.pk = pk /\ x.col = r.col /\ x.val = now[r.col]
        BY <2>1, <3>1, <4>1
      <4>3. x \in L /\ x \in Change /\ r \in Change
        BY <1>0, <3>3, <4>2 DEF Newest, Cells
      <4>4. x \in Cells(About(M, pk)) /\ SameKey(r, x) /\ SameKey(x, r) /\ r \in Cells(L)
        BY <1>8, <3>1, <3>3, <4>2, <4>3, MergeAssumption DEF Cells, SameKey, About
      <4>5. ~SortsAfter(x, r) /\ ~SortsAfter(r, x)
        BY <4>2, <4>4 DEF Newest
      <4>6. x.origin = r.origin /\ x.hlc = r.hlc
        BY <4>3, <4>5, ChangeProperties DEF SortsAfter
      <4>7. x = r
        BY <3>3, <4>3, <4>6 DEF ReplicaInv, StampsUnique, Promises!StampsUnique, L
      <4> QED BY <4>2, <4>7
    <3> QED BY <3>1, <3>2, <3>3 DEF M
  <2>6. Shows(M, pk, Col, now) /\ Whole(M, pk) /\ Blank(M, pk, now)
    BY <1>12, <2>2, <2>4, <2>5, MergeAssumption DEF Shows, Whole, Blank
  <2> QED BY <1>12, <2>4, <2>6, ReplicaAssumption DEF RowSound, now, M, L
<1> QED BY <1>0, <1>10, <1>11, <1>12 DEF now, M, L

(* A row rebuilt after more records arrived is sound for the log with them. *)
LEMMA RebuiltRowSound ==
  ASSUME NEW L \in SUBSET Change, NEW M \in SUBSET Change, L \subseteq M, NEW pk \in Pk,
         NEW old \in Row \cup {None}, NEW op,
         \A r, s \in M : r.origin = s.origin /\ r.hlc = s.hlc => r = s,
         \A r \in M : r.col # None => r.val \in Val,
         \E r \in M : r.pk = pk, RowSound(L, pk, old, op)
  PROVE  RowSound(M, pk, Materialize(Newest(Cells(M)), Newest(Deletes(M)), pk, old, Col), op)
<1> DEFINE cells == Newest(Cells(M))
           tombs == Newest(Deletes(M))
           known == {x \in cells : x.col \in Col}
           now == Materialize(cells, tombs, pk, old, Col)
<1>0. Cells(M) \in SUBSET Change /\ cells \subseteq Cells(M)
  BY DEF Cells, Newest
<1>1. Shows(M, pk, Col, now)
  BY RebuiltRowShows, MergeAssumption
<1>2. ASSUME NEW k \in Col, NEW r \in About(M, pk), r.col = k
      PROVE  CellAt(known, pk, k) # {}
  <2>1. r \in Cells(M) /\ r.pk = pk
    BY <1>2, MergeAssumption DEF About, Cells
  <2>2. PICK x \in cells : SameKey(r, x)
    BY <1>0, <2>1, NewestExists
  <2> QED BY <1>2, <2>1, <2>2 DEF CellAt, SameKey
<1>3. ASSUME NEW k \in Col, CellAt(known, pk, k) # {}
      PROVE  \E r \in About(M, pk) : r.col = k
  BY <1>0, <1>3 DEF CellAt, About, Cells
<1>4. About(L, pk) \subseteq About(M, pk)
  BY DEF About
<1>5. ~(\A x \in cells \cup tombs : x.pk # pk)
  <2>1. PICK r \in M : r.pk = pk
    OBVIOUS
  <2>2. CASE r.col # None
    <3>1. r \in Cells(M)
      BY <2>2 DEF Cells
    <3>2. PICK x \in cells : SameKey(r, x)
      BY <1>0, <3>1, NewestExists
    <3> QED BY <2>1, <3>2 DEF SameKey
  <2>3. CASE r.col = None
    <3>1. r \in Deletes(M) /\ Deletes(M) \in SUBSET Change
      BY <2>3 DEF Deletes
    <3>2. PICK x \in tombs : SameKey(r, x)
      BY <3>1, NewestExists
    <3> QED BY <2>1, <3>2 DEF SameKey
  <2> QED BY <2>2, <2>3
<1> DEFINE lacking == \E c \in Required : CellAt(known, pk, c) = {}
<1>6. \/ now = None
      \/ lacking /\ now = old
      \/ ~lacking /\ now = [c \in Col |-> ValueAt(known, old, pk, c)]
  <2> HIDE DEF cells, tombs
  <2> QED BY <1>5 DEF Materialize
<1> HIDE DEF now, cells, tombs, known
<1>7. ~lacking => Whole(M, pk)
  BY <1>3, MergeAssumption DEF Whole
<1>8. Whole(L, pk) => Whole(M, pk) /\ ~lacking
  BY <1>2, <1>4, MergeAssumption DEF Whole
<1>9. ASSUME op = None, now # None PROVE Whole(M, pk) /\ Blank(M, pk, now)
  <2>1. old # None => Whole(L, pk) /\ Blank(L, pk, old)
    BY <1>9 DEF RowSound
  <2>2. ~lacking /\ now = [c \in Col |-> ValueAt(known, old, pk, c)]
    BY <1>6, <1>8, <1>9, <2>1
  <2>3. ASSUME NEW k \in Col, \A r \in About(M, pk) : r.col # k PROVE now[k] = Default
    <3>1. CellAt(known, pk, k) = {}
      BY <1>3, <2>3
    <3>2. old # None => old[k] = Default
      BY <1>4, <2>1, <2>3 DEF Blank
    <3> QED BY <2>2, <3>1, <3>2 DEF ValueAt
  <2> QED BY <1>7, <2>2, <2>3 DEF Blank
<1>10. RowSound(M, pk, now, op)
  BY <1>1, <1>9 DEF RowSound, Shows
<1> QED BY <1>10 DEF now, cells, tombs

(* With nothing staged, the log determines the row.                         *)
LEMMA RowDetermined ==
  ASSUME NEW L \in SUBSET Change, NEW pk \in Pk,
         NEW now \in Row \cup {None}, NEW then \in Row \cup {None},
         RowSound(L, pk, now, None), RowSound(L, pk, then, None)
  PROVE  now = then
<1>1. now = None <=> ~(Alive(L, pk) /\ Whole(L, pk))
  BY DEF RowSound, Shows
<1>2. then = None <=> ~(Alive(L, pk) /\ Whole(L, pk))
  BY DEF RowSound, Shows
<1>3. CASE now # None /\ then # None
  <2>1. now \in [Col -> Val] /\ then \in [Col -> Val]
    BY <1>3 DEF Row
  <2>2. ASSUME NEW c \in Col PROVE now[c] = then[c]
    <3>1. CASE \A r \in About(L, pk) : r.col # c
      BY <1>3, <3>1 DEF RowSound, Blank
    <3>2. CASE \E r \in About(L, pk) : r.col = c
      <4>1. PICK r \in Cells(About(L, pk)) : r.col = c
        BY <3>2, MergeAssumption DEF Cells
      <4>2. Cells(About(L, pk)) \in SUBSET Change
        BY DEF Cells, About
      <4>3. PICK t \in Newest(Cells(About(L, pk))) : SameKey(r, t)
        BY <4>1, <4>2, NewestExists
      <4>4. t.col = c
        BY <4>1, <4>3 DEF SameKey
      <4>5. now[t.col] = t.val /\ then[t.col] = t.val
        BY <1>1, <1>2, <1>3, <4>3, <4>4 DEF RowSound, Shows
      <4> QED BY <4>4, <4>5
    <3> QED BY <3>1, <3>2
  <2> QED BY <2>1, <2>2
<1> QED BY <1>1, <1>2, <1>3

LEMMA RowsNext ==
  ASSUME ReplicaInv, ReplicaInv', ClockFollows, RowsInv, ~ReuseKeys, NCols > 0, [Next]_vars
  PROVE  RowsInv'
<1>0. /\ log \in [Device -> SUBSET Change] /\ log' \in [Device -> SUBSET Change]
      /\ row \in [Device -> [Pk -> Row \cup {None}]]
  BY DEF ReplicaInv, TypeOK
<1>1. CASE UNCHANGED vars
  BY <1>1 DEF RowsInv, vars
<1>2. ASSUME NEW d \in Writers, App(d, Col, TRUE) PROVE RowsInv'
  BY <1>2, ReplicaAssumption, RowsApp
<1>3. ASSUME NEW d \in Device, FlushLocal(d) PROVE RowsInv'
  <2>1. Col \in (SUBSET Col) \cup {None} /\ FlushWith(d, Col)
    BY <1>3 DEF FlushLocal
  <2>2. PICK recs \in SUBSET Change, c \in Nat : Authored(d, Col, recs, c)
    BY <2>1, FlushRecords
  <2>3. log' = [log EXCEPT ![d] = @ \cup recs]
    BY <2>2 DEF Authored
  <2>4. UNCHANGED row /\ ops' = [ops EXCEPT ![d] = [pk \in Pk |-> None]]
    BY <2>1 DEF FlushWith
  <2>5. \A pk \in Pk : ops'[d][pk] = None
    BY <2>4 DEF ReplicaInv, TypeOK
  <2>6. log'[d] = log[d] \cup recs
    BY <1>0, <2>3
  <2>7. ASSUME NEW e \in Device \ {d} PROVE log'[e] = log[e] /\ ops'[e] = ops[e]
    BY <1>0, <2>3, <2>4
  <2>8. \A pk \in Pk : RowSound(log[d] \cup recs, pk, row[d][pk], None)
    BY <2>2, FlushedRow DEF RowsInv
  <2> QED BY <2>4, <2>5, <2>6, <2>7, <2>8 DEF RowsInv
<1>4. ASSUME NEW d \in Device, NEW e \in Device \ {d}, Deliver(d, e) PROVE RowsInv'
  <2>1. PICK recs \in SUBSET Change : Arrived(d, recs, Col)
    BY <1>4, DeliverRecords DEF Deliver
  <2>2. /\ log' = [log EXCEPT ![d] = @ \cup recs]
        /\ \A pk \in Pk :
             row'[d][pk] = IF Col # None /\ \E r \in recs : r.pk = pk
                             THEN Materialize(cell'[d], tomb'[d], pk, row[d][pk], Col)
                             ELSE row[d][pk]
        /\ \A f \in Device \ {d} : row'[f] = row[f]
        /\ UNCHANGED ops
    BY <2>1 DEF Arrived
  <2>3. log'[d] = log[d] \cup recs /\ \A f \in Device \ {d} : log'[f] = log[f]
    BY <1>0, <2>2
  <2>4. cell'[d] = Newest(Cells(log'[d])) /\ tomb'[d] = Newest(Deletes(log'[d]))
    BY DEF ReplicaInv, LastWriterWins
  <2>5. /\ \A r, s \in log'[d] : r.origin = s.origin /\ r.hlc = s.hlc => r = s
        /\ \A r \in log'[d] : r.col # None => r.val \in Val
    BY DEF ReplicaInv, StampsUnique, Promises!StampsUnique, LogsSound
  <2>6. ASSUME NEW pk \in Pk PROVE RowSound(log'[d], pk, row'[d][pk], ops[d][pk])
    <3>0. RowSound(log[d], pk, row[d][pk], ops[d][pk]) /\ row[d][pk] \in Row \cup {None}
      BY <1>0 DEF RowsInv
    <3>1. CASE \E r \in recs : r.pk = pk
      <4>1. row'[d][pk] = Materialize(cell'[d], tomb'[d], pk, row[d][pk], Col)
        BY <2>2, <3>1, ReplicaAssumption
      <4>2. \E r \in log'[d] : r.pk = pk
        BY <2>3, <3>1
      <4>3. log[d] \in SUBSET Change /\ log'[d] \in SUBSET Change /\ log[d] \subseteq log'[d]
        BY <1>0, <2>3
      <4> QED BY <2>4, <2>5, <3>0, <4>1, <4>2, <4>3, RebuiltRowSound
    <3>2. CASE ~(\E r \in recs : r.pk = pk)
      <4>1. row'[d][pk] = row[d][pk]
        BY <2>2, <3>2
      <4>2. About(log[d], pk) = About(log'[d], pk)
        BY <2>3, <3>2 DEF About
      <4> QED BY <3>0, <4>1, <4>2, RowSoundAbout
    <3> QED BY <3>1, <3>2
  <2> QED BY <2>2, <2>3, <2>6 DEF RowsInv
<1> QED BY <1>1, <1>2, <1>3, <1>4 DEF Next, Local

LEMMA RowsInvariant ==
  ASSUME ~ReuseKeys, NCols > 0
  PROVE  Spec /\ []ClockFollows => []RowsInv
<1>1. ReplicaInv /\ ReplicaInv' /\ ClockFollows /\ RowsInv /\ [Next]_vars => RowsInv'
  BY RowsNext
<1> QED BY <1>1, RowsInit, ReplicaInvariant, PTL DEF Spec

(* A row with nothing staged shows the newest records about it, whatever    *)
(* was written, flushed and delivered in whatever order: as long as clocks *)
(* follow what is held, no application inserts under a key that was used   *)
(* before, and the table has a column besides its key.                     *)
THEOREM ReplicaRowsShowNewest ==
  ASSUME ~ReuseKeys, NCols > 0
  PROVE  Spec /\ []ClockFollows => []RowsShowNewest
<1>1. ReplicaInv /\ RowsInv => RowsShowNewest
  BY DEF RowsInv, RowsShowNewest, RowShowsNewest, RowSound, Shows, Alive, Whole, About
<1> QED BY <1>1, RowsInvariant, ReplicaInvariant, PTL

(* Two replicas that hold the same records and have flushed what was        *)
(* written show the same rows, defaults included, under the same conditions. *)
THEOREM ReplicaTablesConverge ==
  ASSUME ~ReuseKeys, NCols > 0
  PROVE  Spec /\ []ClockFollows => []TablesConverge
<1>1. ReplicaInv /\ RowsInv => TablesConverge
  <2> SUFFICES ASSUME ReplicaInv, RowsInv, NEW d \in Device, NEW e \in Device,
                      log[d] = log[e],
                      \A pk \in Pk : ops[d][pk] = None /\ ops[e][pk] = None
               PROVE  row[d] = row[e]
    BY DEF TablesConverge
  <2>1. /\ log[d] \in SUBSET Change
        /\ row[d] \in [Pk -> Row \cup {None}] /\ row[e] \in [Pk -> Row \cup {None}]
    BY DEF ReplicaInv, TypeOK
  <2>2. ASSUME NEW pk \in Pk PROVE row[d][pk] = row[e][pk]
    <3>1. RowSound(log[d], pk, row[d][pk], None) /\ RowSound(log[d], pk, row[e][pk], None)
      BY DEF RowsInv
    <3> QED BY <2>1, <3>1, RowDetermined
  <2> QED BY <2>1, <2>2
<1> QED BY <1>1, RowsInvariant, ReplicaInvariant, PTL

(* The three results for wall clocks that are close together, which is what *)
(* makes clocks follow what is held.                                       *)
COROLLARY ReplicaAgreesWhenClocksClose ==
  ASSUME ClocksClose, ~ReuseKeys, NCols > 0
  PROVE  Spec => WritesSortLast /\ []RowsShowNewest /\ []TablesConverge
  BY ReplicaClocksFollow, ReplicaWritesSortLast, ReplicaRowsShowNewest, ReplicaTablesConverge, PTL
=============================================================================

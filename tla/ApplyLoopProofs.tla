--------------------------- MODULE ApplyLoopProofs ---------------------------
(***************************************************************************)
(* Storing a batch record by record is the one step that Replica takes, for *)
(* any records held and arriving, any clock, and failures at any point      *)
(* before it, each followed by another batch.                              *)
(*                                                                         *)
(* The loop takes records in the order of their stamps, so that each is     *)
(* newer than all before it (Progressing); that is what makes the clock and *)
(* the tables functions of the records stored so far (Stored), and the rows *)
(* functions of the tables at the end (Rebuilt).                           *)
(***************************************************************************)
EXTENDS ApplyLoop, RecordsProofs

LEMMA ChangeProperties ==
  ASSUME NEW r \in Change
  PROVE  /\ r.pk \in Pk /\ r.col \in Col \cup {None} /\ r.val \in Val \cup {None}
         /\ r.hlc \in Stamp /\ r.hlc \in Nat /\ r.hlc <= MaxStamp
         /\ r.origin \in Device /\ r.origin \in Nat
  BY RecordsAssumption DEF Change, Stamp, Device

(* Of two records of one history, one wins.                                 *)
LEMMA OneWins ==
  ASSUME NEW S \in SUBSET Change, OfOneHistory(S), NEW r \in S, NEW s \in S, r # s
  PROVE  /\ IncomingWins(r, s) \/ IncomingWins(s, r)
         /\ ~(IncomingWins(r, s) /\ IncomingWins(s, r))
<1>1. /\ r.hlc \in Nat /\ s.hlc \in Nat /\ r.origin \in Nat /\ s.origin \in Nat
      /\ r.origin # s.origin \/ r.hlc # s.hlc
  BY ChangeProperties DEF OfOneHistory
<1> QED BY <1>1 DEF IncomingWins

LEMMA WinsTransitive ==
  ASSUME NEW r \in Change, NEW s \in Change, NEW t \in Change,
         ~IncomingWins(r, s), ~IncomingWins(s, t)
  PROVE  ~IncomingWins(r, t)
  BY ChangeProperties DEF IncomingWins
-----------------------------------------------------------------------------
(* The clock.                                                              *)

LEMMA GreaterOfTwo ==
  ASSUME NEW a \in Int, NEW b \in Int
  PROVE  Max({a, b}) = IF a >= b THEN a ELSE b
<1> DEFINE m == IF a >= b THEN a ELSE b
<1>1. m \in {a, b} /\ \A x \in {a, b} : x <= m
  OBVIOUS
<1>2. {a, b} \in SUBSET Int
  OBVIOUS
<1> HIDE DEF m
<1>3. Max({a, b}) = m
  BY <1>1, <1>2, GreatestIs
<1> QED BY <1>3 DEF m

LEMMA ObserveOneIs ==
  ASSUME NEW last \in Nat, NEW reading \in Nat, NEW stamp \in Nat
  PROVE  LET v == ObserveOne(last, reading, stamp)
         IN  /\ v \in Nat /\ v > last /\ v >= reading
             /\ stamp <= reading + Drift => v > stamp
             /\ \/ v = reading \/ v = last + 1
                \/ stamp <= reading + Drift /\ v = stamp + 1
<1>1. \A n \in Nat : Tick(n, reading) = IF reading >= n + 1 THEN reading ELSE n + 1
  BY GreaterOfTwo DEF Tick
<1>2. Max({last, stamp}) = IF last >= stamp THEN last ELSE stamp
  BY GreaterOfTwo
<1>3. CASE stamp <= reading + Drift
  BY <1>1, <1>2, <1>3 DEF ObserveOne
<1>4. CASE ~(stamp <= reading + Drift)
  BY <1>1, <1>4 DEF ObserveOne
<1> QED BY <1>3, <1>4

(* Observing one more record, newer than all before, moves the clock as the *)
(* operator for a whole batch says.                                        *)
LEMMA ObserveStep ==
  ASSUME NEW last \in Nat, NEW reading \in Nat, NEW F \in SUBSET Change, IsFiniteSet(F),
         NEW f \in Change, f \notin F, \A s \in F : IncomingWins(f, s),
         Observe(last, reading, F) \in Nat
  PROVE  Observe(last, reading, F \cup {f})
           = ObserveOne(Observe(last, reading, F), reading, f.hlc)
<1> DEFINE G == F \cup {f}
           near(r) == r.hlc <= reading + Drift
           onward(S, r) == Cardinality({s \in S : ~IncomingWins(r, s)})
           reached(S) == {last + Cardinality(S), reading + Cardinality(S) - 1}
                           \cup {r.hlc + onward(S, r) : r \in {x \in S : near(x)}}
           m == Observe(last, reading, F)
           v == ObserveOne(m, reading, f.hlc)
<1>1. /\ IsFiniteSet(F) /\ Cardinality(F) \in Nat /\ Cardinality(G) = Cardinality(F) + 1
      /\ \A r \in G : r.hlc \in Nat
  BY FS_AddElement, FS_CardinalityType, ChangeProperties
<1>2. \A s \in F : ~IncomingWins(s, f)
  BY ChangeProperties DEF IncomingWins
<1>3. ASSUME NEW r \in F PROVE onward(F, r) \in Nat /\ onward(G, r) = onward(F, r) + 1
  <2> DEFINE A == {s \in F : ~IncomingWins(r, s)}
  <2>1. {s \in G : ~IncomingWins(r, s)} = A \cup {f} /\ f \notin A
    BY <1>2
  <2>2. IsFiniteSet(A)
    BY <1>1, FS_Subset
  <2> HIDE DEF A
  <2>3. Cardinality(A) \in Nat /\ Cardinality(A \cup {f}) = Cardinality(A) + 1
    BY <2>1, <2>2, FS_AddElement, FS_CardinalityType
  <2> QED BY <2>1, <2>3 DEF A
<1>4. onward(G, f) = 1
  <2>1. ~IncomingWins(f, f)
    BY ChangeProperties DEF IncomingWins
  <2>2. {s \in G : ~IncomingWins(f, s)} = {f}
    BY <2>1
  <2> QED BY <2>2, FS_Singleton
<1>5. Observe(last, reading, G) = Max(reached(G))
  BY DEF Observe
<1>6. F # {} => m = Max(reached(F))
  BY DEF Observe
<1>7. F = {} => m = last /\ Cardinality(F) = 0
  BY FS_EmptySet DEF Observe
<1>8. /\ v \in Nat /\ v > m /\ v >= reading
      /\ near(f) => v > f.hlc
      /\ v = reading \/ v = m + 1 \/ (near(f) /\ v = f.hlc + 1)
  BY <1>1, ObserveOneIs
<1> DEFINE n == Cardinality(F)
<1> HIDE DEF G, onward, near, m, v, n
<1>9. ASSUME F # {} PROVE m \in reached(F) /\ \A y \in reached(F) : y <= m
  <2>1. \A r \in F : r.hlc \in Nat /\ r.hlc <= MaxStamp /\ onward(F, r) <= n
    <3> SUFFICES ASSUME NEW r \in F
                 PROVE  r.hlc \in Nat /\ r.hlc <= MaxStamp /\ onward(F, r) <= n
      OBVIOUS
    <3>1. onward(F, r) <= n
      BY <1>1, FS_Subset DEF onward, n
    <3> QED BY <3>1, ChangeProperties
  <2>2. reached(F) \in SUBSET Int /\ reached(F) # {}
    BY <1>1, <1>3 DEF n, G
  <2>3. n \in Nat /\ MaxStamp \in Nat
    BY <1>1, RecordsAssumption DEF n
  <2>4. \A y \in reached(F) : y <= last + reading + n + n + MaxStamp
    BY <1>3, <2>1, <2>3 DEF n
  <2>5. last + reading + n + n + MaxStamp \in Int
    BY <2>3
  <2> HIDE DEF reached
  <2> QED BY <1>6, <1>9, <2>2, <2>4, <2>5, MaxProperties
<1>10. /\ n \in Nat /\ Cardinality(G) = n + 1
       /\ m \in Nat
  BY <1>1 DEF n, m
<1>11. v \in reached(G) /\ reached(G) \in SUBSET Int /\ \A y \in reached(G) : y <= v
  <2>0. \A r \in F : r.hlc + onward(G, r) = r.hlc + onward(F, r) + 1
    <3> HIDE DEF reached
    <3> SUFFICES ASSUME NEW r \in F PROVE r.hlc + onward(G, r) = r.hlc + onward(F, r) + 1
      OBVIOUS
    <3>1. r.hlc \in Nat
      BY <1>1 DEF G
    <3> QED BY <1>3, <3>1
  <2>1. /\ last + n + 1 \in reached(G) /\ reading + n \in reached(G)
        /\ \A r \in F : near(r) => r.hlc + onward(F, r) + 1 \in reached(G)
        /\ near(f) => f.hlc + 1 \in reached(G)
    <3>1. last + Cardinality(G) \in reached(G) /\ reading + Cardinality(G) - 1 \in reached(G)
      OBVIOUS
    <3>2. \A r \in G : near(r) => r.hlc + onward(G, r) \in reached(G)
      OBVIOUS
    <3>3. f \in G /\ F \subseteq G
      BY DEF G
    <3> HIDE DEF reached
    <3> QED BY <1>4, <1>10, <2>0, <3>1, <3>2, <3>3
  <2>2. ASSUME NEW y \in reached(G)
        PROVE  \/ y = last + n + 1 \/ y = reading + n
               \/ \E r \in F : near(r) /\ y = r.hlc + onward(F, r) + 1
               \/ near(f) /\ y = f.hlc + 1
    <3>1. \/ y = last + Cardinality(G) \/ y = reading + Cardinality(G) - 1
          \/ \E r \in G : near(r) /\ y = r.hlc + onward(G, r)
      OBVIOUS
    <3>2. (\E r \in G : near(r) /\ y = r.hlc + onward(G, r)) =>
            \/ \E r \in F : near(r) /\ y = r.hlc + onward(F, r) + 1
            \/ near(f) /\ y = f.hlc + 1
      BY <1>4, <2>0 DEF G
    <3> HIDE DEF reached
    <3>3. last + Cardinality(G) = last + n + 1 /\ reading + Cardinality(G) - 1 = reading + n
      BY <1>10
    <3> QED BY <3>1, <3>2, <3>3
  <2>3. /\ last + n \in reached(F) /\ reading + n - 1 \in reached(F)
        /\ \A r \in F : near(r) => r.hlc + onward(F, r) \in reached(F)
    BY DEF n
  <2>4. f.hlc \in Nat /\ \A r \in F : r.hlc \in Nat /\ onward(F, r) \in Nat
    BY <1>1, <1>3 DEF G
  <2>5. CASE F # {}
    <3>1. ASSUME NEW y \in reached(F)
          PROVE  y + 1 \in reached(G)
      <4>1. \/ y = last + n \/ y = reading + n - 1
            \/ \E r \in F : near(r) /\ y = r.hlc + onward(F, r)
        BY DEF n
      <4> HIDE DEF reached
      <4> QED BY <1>10, <2>1, <2>4, <4>1
    <3> HIDE DEF reached
    <3>2. v = m + 1 \/ (near(f) /\ v = f.hlc + 1)
      <4>1. reading + n - 1 <= m /\ n >= 1
        <5>1. n # 0
          BY <1>1, <2>5, FS_EmptySet DEF n
        <5> QED BY <1>9, <1>10, <2>3, <2>5, <5>1
      <4>2. reading <= m
        BY <1>10, <4>1
      <4>3. v # reading
        BY <1>8, <1>10, <4>2
      <4> QED BY <1>8, <4>3
    <3>3. v \in reached(G)
      BY <1>9, <2>1, <2>5, <3>1, <3>2
    <3>4. last + n <= m /\ reading + n - 1 <= m
          /\ \A r \in F : near(r) => r.hlc + onward(F, r) <= m
      BY <1>9, <2>3, <2>5
    <3>5. ASSUME NEW y \in reached(G) PROVE y \in Int /\ y <= v
      BY <1>8, <1>10, <2>2, <2>4, <3>4
    <3> QED BY <3>3, <3>5
  <2>6. CASE F = {}
    <3>1. m = last /\ n = 0
      BY <1>7, <2>6 DEF n
    <3> HIDE DEF reached
    <3>2. v \in reached(G)
      BY <1>8, <1>10, <2>1, <3>1
    <3>3. ASSUME NEW y \in reached(G) PROVE y \in Int /\ y <= v
      BY <1>8, <1>10, <2>2, <2>4, <2>6, <3>1
    <3> QED BY <3>2, <3>3
  <2> QED BY <2>5, <2>6
<1> HIDE DEF reached
<1>12. Max(reached(G)) = v
  BY <1>11, GreatestIs
<1> QED BY <1>5, <1>12 DEF G, v, m
-----------------------------------------------------------------------------
(* The tables.                                                             *)

(* Per key, what no other record beats.                                     *)
Tops(S) == Upsert({}, S)

LEMMA TopsExist ==
  ASSUME NEW S \in SUBSET Change, NEW s \in S
  PROVE  \E t \in Tops(S) : SameKey(s, t) /\ ~IncomingWins(s, t)
<1> DEFINE A == {r \in S : SameKey(s, r)}
<1>1. /\ A # {} /\ A \subseteq S
      /\ \A r \in A : r.hlc \in Stamp /\ r.origin \in Device
  BY ChangeProperties DEF SameKey
<1>2. PICK t \in A : \A r \in A : ~IncomingWins(r, t)
  <2> HIDE DEF A
  <2> QED BY <1>1, LastExists
<1>3. \A r \in S : SameKey(t, r) => r \in A
  BY <1>2 DEF SameKey
<1> QED BY <1>2, <1>3 DEF Tops, Upsert, SameKey

LEMMA TopsUnique ==
  ASSUME NEW S \in SUBSET Change, OfOneHistory(S), NEW r \in Tops(S), NEW s \in Tops(S),
         SameKey(r, s)
  PROVE  r = s
  BY OneWins DEF Tops, Upsert, SameKey

(* Upserting into what is left of some records gives what is left of all.   *)
LEMMA UpsertTops ==
  ASSUME NEW S \in SUBSET Change, NEW R \in SUBSET Change
  PROVE  Upsert(Tops(S), R) = Tops(S \cup R)
<1>1. Tops(S) \subseteq S
  BY DEF Tops, Upsert
<1>2. ASSUME NEW r \in Upsert(Tops(S), R), NEW s \in S \cup R, SameKey(r, s)
      PROVE  ~IncomingWins(s, r)
  <2>1. r \in Change /\ s \in Change
    BY <1>1 DEF Upsert
  <2>2. CASE s \in R
    BY <1>2, <2>2 DEF Upsert
  <2>3. CASE s \in S
    <3>1. PICK t \in Tops(S) : SameKey(s, t) /\ ~IncomingWins(s, t)
      BY <2>3, TopsExist
    <3>2. t \in Change /\ ~IncomingWins(t, r)
      BY <1>1, <1>2, <3>1 DEF Upsert, SameKey
    <3> QED BY <2>1, <3>1, <3>2, WinsTransitive
  <2> QED BY <2>2, <2>3
<1>3. Upsert(Tops(S), R) \subseteq Tops(S \cup R)
  BY <1>1, <1>2 DEF Tops, Upsert
<1>4. Tops(S \cup R) \subseteq Upsert(Tops(S), R)
  BY DEF Tops, Upsert
<1> QED BY <1>3, <1>4

(* upsert_cell and upsert_tombstone store one record as the operator for a  *)
(* whole batch does.                                                       *)
LEMMA UpsertOneTops ==
  ASSUME NEW S \in SUBSET Change, NEW r \in Change, OfOneHistory(S \cup {r}), r \notin S
  PROVE  UpsertOne(Tops(S), r) = Tops(S \cup {r})
<1>1. Tops(S) \subseteq S /\ OfOneHistory(S) /\ S \cup {r} \in SUBSET Change
  BY DEF Tops, Upsert, OfOneHistory
<1>2. \A x \in S : /\ IncomingWins(r, x) \/ IncomingWins(x, r)
                   /\ ~(IncomingWins(r, x) /\ IncomingWins(x, r))
  <2> SUFFICES ASSUME NEW x \in S
               PROVE  /\ IncomingWins(r, x) \/ IncomingWins(x, r)
                      /\ ~(IncomingWins(r, x) /\ IncomingWins(x, r))
    OBVIOUS
  <2> QED BY <1>1, OneWins
<1>3. ~IncomingWins(r, r)
  BY ChangeProperties DEF IncomingWins
<1>4. \A x, y \in Tops(S) : SameKey(x, y) => x = y /\ ~IncomingWins(y, x)
  BY <1>1, TopsUnique DEF Tops, Upsert
<1>5. Upsert(Tops(S), {r}) = Tops(S \cup {r})
  BY UpsertTops
<1>6. CASE \E x \in Tops(S) : SameKey(x, r) /\ ~IncomingWins(r, x)
  <2>1. PICK x \in Tops(S) : SameKey(x, r) /\ ~IncomingWins(r, x)
    BY <1>6
  <2>2. \A y \in Tops(S) : SameKey(y, r) => y = x
    BY <1>4, <2>1 DEF SameKey
  <2>3. Upsert(Tops(S), {r}) = Tops(S)
    BY <1>1, <1>2, <1>4, <2>1, <2>2 DEF Upsert, SameKey
  <2> QED BY <1>5, <1>6, <2>3 DEF UpsertOne
<1>7. CASE ~\E x \in Tops(S) : SameKey(x, r) /\ ~IncomingWins(r, x)
  <2>1. Upsert(Tops(S), {r}) = {x \in Tops(S) : ~SameKey(x, r)} \cup {r}
    BY <1>1, <1>2, <1>3, <1>4, <1>7 DEF Upsert, SameKey
  <2> QED BY <1>5, <1>7, <2>1 DEF UpsertOne
<1> QED BY <1>6, <1>7
-----------------------------------------------------------------------------
(* Rows.                                                                   *)

Known(S) == {x \in Tops(Cells(S)) : x.col \in Col}

Rebuild1(S, pk, old) == Materialize(Tops(Cells(S)), Tops(Deletes(S)), pk, old, Col)

(* The merged tables know about a row and a column what the records do.     *)
LEMMA TablesKnow ==
  ASSUME NEW S \in SUBSET Change, NEW pk
  PROVE  /\ (\A x \in Tops(Cells(S)) \cup Tops(Deletes(S)) : x.pk # pk) <=> \A r \in S : r.pk # pk
         /\ \A c \in Col : CellAt(Known(S), pk, c) = {} <=> \A r \in S : r.pk # pk \/ r.col # c
<1>1. /\ Cells(S) \in SUBSET Change /\ Deletes(S) \in SUBSET Change
      /\ S = Cells(S) \cup Deletes(S) /\ Cells(S) \subseteq S /\ Deletes(S) \subseteq S
      /\ \A R : Tops(R) \subseteq R
  BY DEF Cells, Deletes, Tops, Upsert
<1>2. ASSUME NEW r \in S, r.pk = pk
      PROVE  \E x \in Tops(Cells(S)) \cup Tops(Deletes(S)) : x.pk = pk
  BY <1>1, <1>2, TopsExist DEF SameKey
<1>3. ASSUME NEW c \in Col, NEW r \in S, r.pk = pk, r.col = c
      PROVE  CellAt(Known(S), pk, c) # {}
  <2>1. r \in Cells(S)
    BY <1>3, MergeAssumption DEF Cells
  <2>2. PICK x \in Tops(Cells(S)) : SameKey(r, x)
    BY <1>1, <2>1, TopsExist
  <2>3. x \in CellAt(Known(S), pk, c)
    BY <1>3, <2>2 DEF CellAt, Known, SameKey
  <2> QED BY <2>3
<1>4. \A c \in Col : \A x \in CellAt(Known(S), pk, c) : x \in S /\ x.pk = pk /\ x.col = c
  BY <1>1 DEF CellAt, Known
<1>5. (\A x \in Tops(Cells(S)) \cup Tops(Deletes(S)) : x.pk # pk) <=> \A r \in S : r.pk # pk
  BY <1>1, <1>2
<1>6. \A c \in Col : CellAt(Known(S), pk, c) = {} <=> \A r \in S : r.pk # pk \/ r.col # c
  BY <1>3, <1>4
<1> QED BY <1>5, <1>6

LEMMA RebuildIs ==
  ASSUME NEW S \in SUBSET Change, NEW pk, NEW old
  PROVE  Rebuild1(S, pk, old) =
           IF \A r \in S : r.pk # pk THEN old
           ELSE IF Dead(Tops(Cells(S)), Tops(Deletes(S)), pk) THEN None
           ELSE IF \E c \in Required : \A r \in S : r.pk # pk \/ r.col # c THEN old
           ELSE [c \in Col |-> ValueAt(Known(S), old, pk, c)]
<1>1. (\E c \in Required : CellAt(Known(S), pk, c) = {})
        <=> \E c \in Required : \A r \in S : r.pk # pk \/ r.col # c
  BY TablesKnow, MergeAssumption
<1> QED BY <1>1, TablesKnow DEF Rebuild1, Materialize, Known

LEMMA RebuildTyped ==
  ASSUME NEW S \in SUBSET Change, \A r \in S : r.col # None => r.val \in Val,
         NEW pk, NEW old \in Row \cup {None}
  PROVE  Rebuild1(S, pk, old) \in Row \cup {None}
<1>1. ASSUME NEW c \in Col PROVE ValueAt(Known(S), old, pk, c) \in Val
  <2>1. CASE CellAt(Known(S), pk, c) # {}
    <3> DEFINE x == CHOOSE y \in CellAt(Known(S), pk, c) : TRUE
    <3>1. x \in CellAt(Known(S), pk, c)
      BY <2>1
    <3>2. x \in S /\ x.col # None
      BY <3>1 DEF CellAt, Known, Tops, Upsert, Cells
    <3> QED BY <2>1, <3>2 DEF ValueAt
  <2>2. CASE CellAt(Known(S), pk, c) = {}
    BY <2>2, MergeAssumption DEF ValueAt, Row
  <2> QED BY <2>1, <2>2
<1>2. [c \in Col |-> ValueAt(Known(S), old, pk, c)] \in Row
  BY <1>1 DEF Row
<1> QED BY <1>2, RebuildIs

(* A row rebuilt before and again with more records is the row rebuilt once *)
(* from all of them.                                                       *)
LEMMA RebuildAgain ==
  ASSUME NEW M \in SUBSET Change, NEW H \in SUBSET M, NEW pk, \E r \in M : r.pk = pk
  PROVE  Rebuild1(M, pk, Rebuild1(H, pk, None)) = Rebuild1(M, pk, None)
<1> DEFINE old == Rebuild1(H, pk, None)
           lacks(S) == \E c \in Required : \A r \in S : r.pk # pk \/ r.col # c
           dead(S) == Dead(Tops(Cells(S)), Tops(Deletes(S)), pk)
<1>1. H \in SUBSET Change
  OBVIOUS
<1>2. \/ old = None
      \/ ~lacks(H) /\ old = [c \in Col |-> ValueAt(Known(H), None, pk, c)]
  BY <1>1, RebuildIs
<1>3. \A o : Rebuild1(M, pk, o) =
         IF dead(M) THEN None ELSE IF lacks(M) THEN o
         ELSE [c \in Col |-> ValueAt(Known(M), o, pk, c)]
  BY RebuildIs
<1>4. lacks(M) => lacks(H)
  OBVIOUS
<1> HIDE DEF old
<1>5. ASSUME old = [c \in Col |-> ValueAt(Known(H), None, pk, c)], NEW c \in Col
      PROVE  ValueAt(Known(M), old, pk, c) = ValueAt(Known(M), None, pk, c)
  <2>1. CASE CellAt(Known(M), pk, c) # {}
    BY <2>1 DEF ValueAt
  <2>2. CASE CellAt(Known(M), pk, c) = {}
    <3>1. CellAt(Known(H), pk, c) = {}
      BY <1>1, <2>2, TablesKnow
    <3>2. old[c] = Default
      BY <1>5, <3>1 DEF ValueAt
    <3> QED BY <2>2, <3>2 DEF ValueAt
  <2> QED BY <2>1, <2>2
<1> HIDE DEF lacks, dead
<1> QED BY <1>2, <1>3, <1>4, <1>5 DEF old

(* A row depends on the records about it only.                              *)
LEMMA RebuildSame ==
  ASSUME NEW M \in SUBSET Change, NEW H \in SUBSET M, NEW pk, \A r \in M \ H : r.pk # pk
  PROVE  Rebuild1(H, pk, None) = Rebuild1(M, pk, None)
<1>1. H \in SUBSET Change
  OBVIOUS
<1>2. ASSUME NEW A, NEW B, A \subseteq B, \A r \in B \ A : r.pk # pk
      PROVE  {x \in Tops(A) : x.pk = pk} = {x \in Tops(B) : x.pk = pk}
  BY <1>2 DEF Tops, Upsert, SameKey
<1>3. /\ {x \in Tops(Cells(H)) : x.pk = pk} = {x \in Tops(Cells(M)) : x.pk = pk}
      /\ {x \in Tops(Deletes(H)) : x.pk = pk} = {x \in Tops(Deletes(M)) : x.pk = pk}
  BY <1>2 DEF Cells, Deletes
<1>4. Dead(Tops(Cells(H)), Tops(Deletes(H)), pk) <=> Dead(Tops(Cells(M)), Tops(Deletes(M)), pk)
  BY <1>3 DEF Dead
<1>5. \A c : CellAt(Known(H), pk, c) = CellAt(Known(M), pk, c)
  BY <1>3 DEF CellAt, Known
<1>6. [c \in Col |-> ValueAt(Known(H), None, pk, c)] = [c \in Col |-> ValueAt(Known(M), None, pk, c)]
  <2>1. ASSUME NEW c \in Col PROVE ValueAt(Known(H), None, pk, c) = ValueAt(Known(M), None, pk, c)
    <3>1. CellAt(Known(H), pk, c) = CellAt(Known(M), pk, c)
      BY <1>5
    <3> DEFINE first(S) == IF S # {} THEN (CHOOSE x \in S : TRUE).val ELSE Default
    <3>2. \A S : ValueAt(Known(S), None, pk, c) = first(CellAt(Known(S), pk, c))
      BY DEF ValueAt
    <3> HIDE DEF first
    <3> QED BY <3>1, <3>2
  <2> QED BY <2>1
<1>7. /\ (\A r \in H : r.pk # pk) <=> \A r \in M : r.pk # pk
      /\ (\E c \in Required : \A r \in H : r.pk # pk \/ r.col # c)
           <=> \E c \in Required : \A r \in M : r.pk # pk \/ r.col # c
  OBVIOUS
<1> QED BY <1>1, <1>4, <1>6, <1>7, RebuildIs
-----------------------------------------------------------------------------
(* The loop.                                                               *)

Zero == [o \in Device |-> 0]

(* The records of the batch that were dealt with, and those of them that    *)
(* were not held.                                                          *)
Done == start.batch \ todo

New == Done \ start.disk.log

SoundRecords(S) == /\ S \in SUBSET Change /\ IsFiniteSet(S)
                   /\ \A r \in S : r.col # None => r.val \in Val

Setting ==
  /\ SoundRecords(start.disk.log) /\ SoundRecords(start.batch)
  /\ OfOneHistory(start.disk.log \cup start.batch)
  /\ start.disk = Replicated(start.disk.log)
  /\ start.clk \in Nat /\ phys \in Nat

Progressing ==
  /\ phase \in {"store", "rebuild", "committed", "failed"}
  /\ todo \subseteq start.batch /\ \A r \in todo, s \in Done : IncomingWins(r, s)
  /\ phase \in {"rebuild", "committed"} => todo = {}
  /\ phase = "committed" => dirty = {}

Stored ==
  /\ tx.log = start.disk.log \cup Done
  /\ tx.cell = Tops(Cells(start.disk.log \cup Done))
  /\ tx.tomb = Tops(Deletes(start.disk.log \cup Done))
  /\ tx.vv = start.disk.vv
  /\ raised = BumpVV(Zero, New)
  /\ clk = Observe(start.clk, phys, New) /\ clk >= start.clk

Rebuilt ==
  /\ dirty \subseteq {r.pk : r \in New}
  /\ phase = "store" => dirty = {r.pk : r \in New}
  /\ \A pk \in Pk :
       tx.row[pk] = IF pk \notin dirty /\ \E r \in New : r.pk = pk
                      THEN Materialize(tx.cell, tx.tomb, pk, start.disk.row[pk], Col)
                      ELSE start.disk.row[pk]

OnDisk ==
  /\ phase # "committed" => disk = start.disk
  /\ phase = "committed" =>
       /\ disk.log = tx.log /\ disk.cell = tx.cell /\ disk.tomb = tx.tomb /\ disk.row = tx.row
       /\ disk.vv = BumpVV(start.disk.vv, New)

LoopInv == /\ TypeOK /\ start.disk \in Tables
           /\ Setting /\ Progressing /\ Stored /\ Rebuilt /\ OnDisk

LEMMA ReplicatedTyped ==
  ASSUME NEW held, SoundRecords(held)
  PROVE  /\ Replicated(held) \in Tables
         /\ Replicated(held) = [log |-> held, cell |-> Tops(Cells(held)),
                                tomb |-> Tops(Deletes(held)), vv |-> BumpVV(Zero, held),
                                row |-> [pk \in Pk |-> Rebuild1(held, pk, None)]]
<1>1. Replicated(held) = [log |-> held, cell |-> Tops(Cells(held)),
                          tomb |-> Tops(Deletes(held)), vv |-> BumpVV(Zero, held),
                          row |-> [pk \in Pk |-> Rebuild1(held, pk, None)]]
  BY DEF Replicated, Tops, Zero, Rebuild1
<1>2. /\ held \in SUBSET Change /\ Tops(Cells(held)) \in SUBSET Change
      /\ Tops(Deletes(held)) \in SUBSET Change
  BY DEF SoundRecords, Tops, Upsert, Cells, Deletes
<1>3. BumpVV(Zero, held) \in [Device -> 0..MaxStamp]
  <2>1. Zero \in [Device -> 0..MaxStamp] /\ \A r \in held : r.hlc \in Stamp
    BY ChangeProperties, RecordsAssumption DEF Zero, SoundRecords
  <2> QED BY <2>1, BumpVVProperties
<1>4. \A pk \in Pk : Rebuild1(held, pk, None) \in Row \cup {None}
  BY RebuildTyped DEF SoundRecords
<1> QED BY <1>1, <1>2, <1>3, <1>4 DEF Tables

(* A batch that has just arrived at sound tables.                           *)
Begun ==
  /\ SoundRecords(disk.log) /\ SoundRecords(todo) /\ OfOneHistory(disk.log \cup todo)
  /\ disk = Replicated(disk.log) /\ clk \in Nat /\ phys \in Nat
  /\ tx = disk /\ dirty = {} /\ raised = Zero
  /\ start = [disk |-> disk, clk |-> clk, batch |-> todo] /\ phase = "store"

LEMMA LoopBegun == Begun => LoopInv
<1> SUFFICES ASSUME Begun PROVE LoopInv
  OBVIOUS
<1>1. /\ tx = disk /\ dirty = {} /\ raised = Zero
      /\ start = [disk |-> disk, clk |-> clk, batch |-> todo] /\ phase = "store"
  BY DEF Begun
<1> DEFINE held == disk.log
<1>2. OfOneHistory(held \cup todo) /\ disk = Replicated(held)
  BY DEF Begun
<1>3. SoundRecords(held) /\ SoundRecords(todo) /\ clk \in Nat /\ phys \in Nat
  BY DEF Begun
<1>4. /\ disk \in Tables /\ disk.log = held /\ disk.cell = Tops(Cells(held))
      /\ disk.tomb = Tops(Deletes(held)) /\ disk.vv \in [Device -> 0..MaxStamp]
  <2>1. disk \in Tables
    BY <1>2, <1>3, ReplicatedTyped
  <2> QED BY <1>2, <1>3, <2>1, ReplicatedTyped DEF Tables
<1>5. start.disk = disk /\ start.batch = todo /\ start.clk = clk /\ Done = {} /\ New = {}
  BY <1>1 DEF Done, New
<1>6. Setting
  BY <1>2, <1>3, <1>4, <1>5 DEF Setting
<1>7. Progressing /\ Rebuilt /\ OnDisk
  BY <1>1, <1>5 DEF Progressing, Rebuilt, OnDisk
<1>8. Zero \in [Device -> 0..MaxStamp] /\ BumpVV(Zero, {}) = Zero
  <2>1. Zero \in [Device -> 0..MaxStamp]
    BY RecordsAssumption DEF Zero
  <2>2. \A o \in Device : BumpVV(Zero, {})[o] = 0
    BY <2>1, BumpVVIs, RecordsAssumption DEF Zero
  <2>3. BumpVV(Zero, {}) \in [Device -> 0..MaxStamp]
    BY <2>1, BumpVVProperties
  <2> QED BY <2>1, <2>2, <2>3 DEF Zero
<1>9. Stored
  <2>1. Observe(clk, phys, {}) = clk
    BY DEF Observe
  <2> QED BY <1>1, <1>3, <1>4, <1>5, <1>8, <2>1 DEF Stored
<1>10. TypeOK /\ start.disk \in Tables
  BY <1>1, <1>3, <1>4, <1>5, <1>8 DEF TypeOK
<1> QED BY <1>6, <1>7, <1>9, <1>10 DEF LoopInv

LEMMA LoopInit == Init => LoopInv
<1> SUFFICES ASSUME Init PROVE Begun
  BY LoopBegun
<1>1. /\ clk \in Clocks /\ phys \in Readings /\ todo \in Batches
      /\ tx = disk /\ dirty = {} /\ raised = Zero
      /\ start = [disk |-> disk, clk |-> clk, batch |-> todo] /\ phase = "store"
  BY DEF Init, Zero
<1>2. PICK held \in Held : OfOneHistory(held \cup todo) /\ disk = Replicated(held)
  BY DEF Init
<1>3. SoundRecords(held) /\ SoundRecords(todo) /\ clk \in Nat /\ phys \in Nat
  BY <1>1, ApplyLoopAssumption DEF SoundRecords
<1>4. disk.log = held
  BY <1>2, <1>3, ReplicatedTyped
<1> QED BY <1>1, <1>2, <1>3, <1>4 DEF Begun

(* The next record is older than all that are still to come, and held       *)
(* already exactly when the unique index says so.                          *)
LEMMA FirstProperties ==
  ASSUME LoopInv, todo # {}
  PROVE  /\ First \in todo /\ First \in start.batch /\ First \in Change /\ First \notin Done
         /\ \A s \in todo \ {First} : IncomingWins(s, First)
         /\ Duplicate(First) <=> First \in start.disk.log
<1>1. /\ todo \subseteq start.batch /\ start.batch \in SUBSET Change
      /\ start.disk.log \in SUBSET Change /\ OfOneHistory(start.disk.log \cup start.batch)
      /\ tx.log = start.disk.log \cup Done
  BY DEF LoopInv, Progressing, Setting, SoundRecords, Stored
<1>2. \A r \in todo : r.hlc \in Stamp /\ r.origin \in Device
  BY <1>1, ChangeProperties
<1>3. PICK t \in todo : \A r \in todo : ~IncomingWins(t, r)
  BY <1>2, FirstExists
<1>4. OfOneHistory(todo) /\ todo \in SUBSET Change
  BY <1>1 DEF OfOneHistory
<1>5. \A s \in todo \ {t} : IncomingWins(s, t)
  BY <1>3, <1>4, OneWins
<1>6. First \in todo /\ \A s \in todo \ {First} : IncomingWins(s, First)
  BY <1>5 DEF First
<1>7. First \notin Done
  BY <1>6 DEF Done
<1>8. Duplicate(First) <=> First \in start.disk.log
  BY <1>1, <1>6, <1>7 DEF Duplicate, OfOneHistory, Done
<1> QED BY <1>1, <1>6, <1>7, <1>8

(* Both ways of dealing with the next record.                               *)
LEMMA DoneGrows ==
  ASSUME LoopInv, todo # {}, todo' = todo \ {First}, UNCHANGED start
  PROVE  /\ Done' = Done \cup {First}
         /\ todo' \subseteq start.batch /\ \A r \in todo', s \in Done' : IncomingWins(r, s)
<1>1. First \in todo /\ First \in start.batch /\ \A s \in todo \ {First} : IncomingWins(s, First)
  BY FirstProperties
<1>2. Done' = Done \cup {First}
  BY <1>1 DEF Done
<1>3. todo \subseteq start.batch /\ \A r \in todo, s \in Done : IncomingWins(r, s)
  BY DEF LoopInv, Progressing
<1> QED BY <1>1, <1>2, <1>3

LEMMA LoopSkip ==
  ASSUME LoopInv, Skip
  PROVE  LoopInv'
<1>1. /\ phase = "store" /\ todo # {} /\ Duplicate(First) /\ todo' = todo \ {First}
      /\ UNCHANGED <<disk, tx, clk, dirty, raised, start, phys, phase>>
  BY DEF Skip
<1>2. First \in start.disk.log
  BY <1>1, FirstProperties
<1>3. /\ Done' = Done \cup {First}
      /\ todo' \subseteq start.batch /\ \A r \in todo', s \in Done' : IncomingWins(r, s)
  BY <1>1, DoneGrows
<1>4. New' = New /\ start.disk.log \cup Done' = start.disk.log \cup Done
  BY <1>1, <1>2, <1>3 DEF New
<1>5. (TypeOK /\ start.disk \in Tables /\ Setting)'
  BY <1>1 DEF LoopInv, TypeOK, Setting
<1>6. Progressing'
  BY <1>1, <1>3 DEF LoopInv, Progressing
<1>7. Stored'
  <2> HIDE DEF Done, New
  <2> QED BY <1>1, <1>4 DEF LoopInv, Stored
<1>8. Rebuilt' /\ OnDisk'
  BY <1>1, <1>4 DEF LoopInv, Rebuilt, OnDisk
<1> QED BY <1>5, <1>6, <1>7, <1>8 DEF LoopInv

LEMMA LoopStoreOne ==
  ASSUME LoopInv, StoreOne
  PROVE  LoopInv'
<1> DEFINE f == First
           held == start.disk.log \cup Done
<1>1. /\ phase = "store" /\ todo # {} /\ ~Duplicate(f)
      /\ clk' = ObserveOne(clk, phys, f.hlc)
      /\ tx' = [tx EXCEPT !.log = @ \cup {f},
                          !.cell = IF f.col # None THEN UpsertOne(@, f) ELSE @,
                          !.tomb = IF f.col = None THEN UpsertOne(@, f) ELSE @]
      /\ raised' = [raised EXCEPT ![f.origin] = Max({@, f.hlc})]
      /\ dirty' = dirty \cup {f.pk}
      /\ todo' = todo \ {f}
      /\ UNCHANGED <<disk, start, phys, phase>>
  BY DEF StoreOne
<1>2. /\ f \in todo /\ f \in start.batch /\ f \in Change /\ f \notin Done
      /\ f \notin start.disk.log
  BY <1>1, FirstProperties
<1>3. /\ Done' = Done \cup {f}
      /\ todo' \subseteq start.batch /\ \A r \in todo', s \in Done' : IncomingWins(r, s)
  BY <1>1, DoneGrows
<1>4. /\ New' = New \cup {f} /\ f \notin New
      /\ start'.disk.log \cup Done' = held \cup {f}
  BY <1>1, <1>2, <1>3 DEF New
<1>5. /\ tx \in Tables /\ disk \in Tables /\ start.disk \in Tables
      /\ clk \in Nat /\ raised \in [Device -> 0..MaxStamp] /\ phys \in Nat /\ start.clk \in Nat
      /\ tx.log = held /\ tx.cell = Tops(Cells(held)) /\ tx.tomb = Tops(Deletes(held))
      /\ tx.vv = start.disk.vv /\ raised = BumpVV(Zero, New)
      /\ clk = Observe(start.clk, phys, New) /\ clk >= start.clk
  BY DEF LoopInv, TypeOK, Setting, Stored
<1>6. /\ held \in SUBSET Change /\ held \cup {f} \in SUBSET Change /\ f \notin held
      /\ OfOneHistory(held \cup {f})
      /\ New \in SUBSET Change /\ IsFiniteSet(New)
  <2>1. /\ start.disk.log \in SUBSET Change /\ start.batch \in SUBSET Change
        /\ IsFiniteSet(start.batch) /\ OfOneHistory(start.disk.log \cup start.batch)
    BY DEF LoopInv, Setting, SoundRecords
  <2>2. Done \subseteq start.batch /\ New \subseteq start.batch
    BY DEF Done, New
  <2>3. IsFiniteSet(New)
    BY <2>1, <2>2, FS_Subset
  <2> QED BY <1>2, <2>1, <2>2, <2>3 DEF OfOneHistory
<1>7. \A s \in New : IncomingWins(f, s)
  BY <1>2 DEF LoopInv, Progressing, New
<1> HIDE DEF f, held
<1>8. /\ Cells(held \cup {f}) = IF f.col # None THEN Cells(held) \cup {f} ELSE Cells(held)
      /\ Deletes(held \cup {f}) = IF f.col = None THEN Deletes(held) \cup {f} ELSE Deletes(held)
      /\ Cells(held) \subseteq held /\ Deletes(held) \subseteq held
  BY DEF Cells, Deletes
<1>9. /\ f.col # None => UpsertOne(tx.cell, f) = Tops(Cells(held \cup {f}))
      /\ f.col = None => UpsertOne(tx.tomb, f) = Tops(Deletes(held \cup {f}))
  <2>1. /\ Cells(held) \in SUBSET Change /\ Deletes(held) \in SUBSET Change
        /\ f \notin Cells(held) /\ f \notin Deletes(held)
        /\ OfOneHistory(Cells(held) \cup {f}) /\ OfOneHistory(Deletes(held) \cup {f})
    BY <1>6, <1>8 DEF OfOneHistory
  <2>2. UpsertOne(Tops(Cells(held)), f) = Tops(Cells(held) \cup {f})
    BY <1>2, <2>1, UpsertOneTops
  <2>3. UpsertOne(Tops(Deletes(held)), f) = Tops(Deletes(held) \cup {f})
    BY <1>2, <2>1, UpsertOneTops
  <2> QED BY <1>5, <1>8, <2>2, <2>3
<1>10. /\ tx'.log = held \cup {f} /\ tx'.cell = Tops(Cells(held \cup {f}))
       /\ tx'.tomb = Tops(Deletes(held \cup {f})) /\ tx'.vv = tx.vv /\ tx'.row = tx.row
       /\ tx' = [log |-> tx'.log, cell |-> tx'.cell, tomb |-> tx'.tomb,
                 vv |-> tx'.vv, row |-> tx'.row]
  <2>1. tx = [log |-> tx.log, cell |-> tx.cell, tomb |-> tx.tomb, vv |-> tx.vv, row |-> tx.row]
    BY <1>5 DEF Tables
  <2>2. tx' = [log |-> tx.log \cup {f},
               cell |-> IF f.col # None THEN UpsertOne(tx.cell, f) ELSE tx.cell,
               tomb |-> IF f.col = None THEN UpsertOne(tx.tomb, f) ELSE tx.tomb,
               vv |-> tx.vv, row |-> tx.row]
    BY <1>1, <2>1
  <2> QED BY <1>5, <1>8, <1>9, <2>2
<1>11. tx' \in Tables
  <2>1. /\ Tops(Cells(held \cup {f})) \in SUBSET Change
        /\ Tops(Deletes(held \cup {f})) \in SUBSET Change
    BY <1>6 DEF Tops, Upsert, Cells, Deletes
  <2>2. tx.vv \in [Device -> 0..MaxStamp] /\ tx.row \in [Pk -> Row \cup {None}]
    BY <1>5 DEF Tables
  <2> QED BY <1>6, <1>10, <2>1, <2>2 DEF Tables
<1>12. clk' \in Nat /\ clk' >= start.clk /\ clk' = Observe(start.clk, phys, New \cup {f})
  <2>1. f.hlc \in Nat
    BY <1>2, ChangeProperties
  <2>2. clk' \in Nat /\ clk' > clk
    BY <1>1, <1>5, <2>1, ObserveOneIs
  <2>3. Observe(start.clk, phys, New \cup {f}) = ObserveOne(clk, phys, f.hlc)
    BY <1>2, <1>4, <1>5, <1>6, <1>7, ObserveStep
  <2> QED BY <1>1, <1>5, <2>2, <2>3
<1>13. raised' \in [Device -> 0..MaxStamp] /\ raised' = BumpVV(Zero, New \cup {f})
  <2>1. f.hlc \in Stamp /\ f.origin \in Device /\ \A r \in New \cup {f} : r.hlc \in Stamp
    BY <1>2, <1>6, ChangeProperties
  <2>2. Zero \in [Device -> 0..MaxStamp]
    BY RecordsAssumption DEF Zero
  <2>3. BumpVV(raised, {f}) = BumpVV(Zero, New \cup {f})
    BY <1>5, <2>1, <2>2, BumpVVTwice
  <2>4. BumpVV(raised, {f}) \in [Device -> 0..MaxStamp]
    BY <1>5, <2>1, BumpVVProperties
  <2>5. ASSUME NEW o \in Device PROVE BumpVV(raised, {f})[o] = raised'[o]
    <3>1. raised[o] \in 0..MaxStamp /\ raised[f.origin] \in 0..MaxStamp /\ f.hlc \in 1..MaxStamp
      BY <1>5, <2>1 DEF Stamp
    <3>2. CASE o = f.origin
      <4>1. raised'[o] = Max({raised[o], f.hlc})
        BY <1>1, <1>5, <3>2
      <4>2. Max({raised[o], f.hlc}) = IF raised[o] >= f.hlc THEN raised[o] ELSE f.hlc
        BY <3>1, RecordsAssumption, GreaterOfTwo
      <4>3. raised[o] <= raised'[o] /\ f.hlc <= raised'[o]
            /\ (raised'[o] = raised[o] \/ raised'[o] = f.hlc)
        BY <3>1, <4>1, <4>2, RecordsAssumption
      <4>4. f \in {f} /\ \A r \in {f} : r = f
        OBVIOUS
      <4> QED BY <1>5, <2>1, <3>2, <4>3, <4>4, BumpVVIs
    <3>3. CASE o # f.origin
      <4>1. raised'[o] = raised[o] /\ raised[o] <= raised[o]
        BY <1>1, <1>5, <3>1, <3>3, RecordsAssumption
      <4> QED BY <1>5, <2>1, <3>3, <4>1, BumpVVIs
    <3> QED BY <3>2, <3>3
  <2>6. raised' = BumpVV(raised, {f})
    <3> DEFINE v == BumpVV(raised, {f})
    <3>1. v \in [Device -> 0..MaxStamp] /\ \A o \in Device : v[o] = raised'[o]
      BY <2>4, <2>5
    <3>2. \E n : raised' = [raised EXCEPT ![f.origin] = n]
      BY <1>1
    <3> HIDE DEF v
    <3>3. raised' = v
      BY <1>5, <3>1, <3>2
    <3> QED BY <3>3 DEF v
  <2> QED BY <2>3, <2>4, <2>6
<1>14. TypeOK' /\ (start.disk \in Tables)' /\ Setting'
  <2>1. TypeOK'
    BY <1>1, <1>5, <1>11, <1>12, <1>13 DEF TypeOK
  <2> QED BY <1>1, <2>1 DEF LoopInv, Setting
<1>15. Progressing'
  BY <1>1, <1>3 DEF LoopInv, Progressing
<1>16. Stored'
  BY <1>1, <1>4, <1>5, <1>10, <1>12, <1>13 DEF Stored
<1>17. Rebuilt'
  <2>1. dirty = {r.pk : r \in New} /\ \A pk \in Pk : tx.row[pk] = start.disk.row[pk]
    BY <1>1 DEF LoopInv, Rebuilt
  <2>2. dirty' = {r.pk : r \in New'}
    BY <1>1, <1>4, <2>1
  <2>3. \A pk \in Pk : tx'.row[pk] = start'.disk.row[pk]
    BY <1>1, <1>10, <2>1
  <2> QED BY <2>2, <2>3 DEF Rebuilt
<1>18. OnDisk'
  BY <1>1 DEF LoopInv, OnDisk
<1> QED BY <1>14, <1>15, <1>16, <1>17, <1>18 DEF LoopInv

LEMMA LoopEndStore ==
  ASSUME LoopInv, EndStore
  PROVE  LoopInv'
<1>1. /\ phase = "store" /\ todo = {} /\ phase' = "rebuild"
      /\ UNCHANGED <<disk, tx, clk, todo, dirty, raised, start, phys>>
  BY DEF EndStore
<1>2. Done' = Done /\ New' = New
  BY <1>1 DEF Done, New
<1>3. (TypeOK /\ start.disk \in Tables /\ Setting)' /\ Progressing' /\ OnDisk'
  BY <1>1, <1>2 DEF LoopInv, TypeOK, Setting, Progressing, OnDisk
<1>4. Stored' /\ Rebuilt'
  BY <1>1, <1>2 DEF LoopInv, Stored, Rebuilt
<1> QED BY <1>3, <1>4 DEF LoopInv

LEMMA LoopRebuild ==
  ASSUME LoopInv, Rebuild
  PROVE  LoopInv'
<1> DEFINE held == start.disk.log \cup Done
<1>1. PICK pk \in dirty :
        /\ tx' = [tx EXCEPT !.row[pk] = Materialize(tx.cell, tx.tomb, pk, @, Col)]
        /\ dirty' = dirty \ {pk}
  BY DEF Rebuild
<1>2. phase = "rebuild" /\ UNCHANGED <<disk, clk, todo, raised, start, phys, phase>>
  BY DEF Rebuild
<1>3. Done' = Done /\ New' = New
  BY <1>2 DEF Done, New
<1>4. /\ tx \in Tables /\ start.disk \in Tables
      /\ tx.cell = Tops(Cells(held)) /\ tx.tomb = Tops(Deletes(held))
  BY DEF LoopInv, TypeOK, Stored
<1>5. /\ SoundRecords(held) /\ New \in SUBSET Change /\ New \subseteq held
  <2>1. SoundRecords(start.disk.log) /\ SoundRecords(start.batch) /\ Done \subseteq start.batch
    BY DEF LoopInv, Setting, Done
  <2>2. IsFiniteSet(Done)
    BY <2>1, FS_Subset DEF SoundRecords
  <2>3. IsFiniteSet(held)
    BY <2>1, <2>2, FS_Union DEF SoundRecords
  <2> QED BY <2>1, <2>3 DEF SoundRecords, New
<1>6. /\ dirty \subseteq {r.pk : r \in New} /\ pk \in Pk
      /\ \E r \in New : r.pk = pk
      /\ tx.row[pk] = start.disk.row[pk]
  <2>1. dirty \subseteq {r.pk : r \in New}
    BY DEF LoopInv, Rebuilt
  <2>2. PICK r \in New : r.pk = pk
    BY <2>1
  <2>3. pk \in Pk
    BY <1>5, <2>2, ChangeProperties
  <2> QED BY <2>1, <2>2, <2>3 DEF LoopInv, Rebuilt
<1> DEFINE new == Materialize(tx.cell, tx.tomb, pk, start.disk.row[pk], Col)
<1>7. new \in Row \cup {None}
  <2>1. new = Rebuild1(held, pk, start.disk.row[pk])
    BY <1>4 DEF Rebuild1
  <2>2. start.disk.row[pk] \in Row \cup {None}
    BY <1>4, <1>6 DEF Tables
  <2> HIDE DEF new, held
  <2> QED BY <1>5, <2>1, <2>2, RebuildTyped DEF SoundRecords
<1>8. /\ tx'.log = tx.log /\ tx'.cell = tx.cell /\ tx'.tomb = tx.tomb /\ tx'.vv = tx.vv
      /\ tx'.row = [tx.row EXCEPT ![pk] = new]
      /\ tx' \in Tables
  <2>1. /\ tx = [log |-> tx.log, cell |-> tx.cell, tomb |-> tx.tomb, vv |-> tx.vv, row |-> tx.row]
        /\ tx.row \in [Pk -> Row \cup {None}]
    BY <1>4 DEF Tables
  <2>2. tx' = [tx EXCEPT !.row = [tx.row EXCEPT ![pk] = new]]
    BY <1>1, <1>6
  <2>3. [tx.row EXCEPT ![pk] = new] \in [Pk -> Row \cup {None}]
    BY <1>7, <2>1
  <2> HIDE DEF new
  <2> QED BY <1>4, <2>1, <2>2, <2>3 DEF Tables
<1>9. (TypeOK /\ start.disk \in Tables /\ Setting)' /\ Progressing' /\ OnDisk'
  <2>1. TypeOK'
    BY <1>2, <1>8 DEF LoopInv, TypeOK
  <2>2. Setting' /\ Progressing'
    BY <1>1, <1>2, <1>3 DEF LoopInv, Setting, Progressing
  <2> QED BY <1>2, <1>4, <2>1, <2>2 DEF LoopInv, OnDisk
<1>10. Stored'
  BY <1>2, <1>3, <1>8 DEF LoopInv, Stored
<1>11. Rebuilt'
  <2>1. dirty' \subseteq {r.pk : r \in New'} /\ phase' # "store"
    BY <1>1, <1>2, <1>3, <1>6
  <2>2. ASSUME NEW k \in Pk
        PROVE  tx'.row[k] = IF k \notin dirty' /\ \E r \in New' : r.pk = k
                              THEN Materialize(tx'.cell, tx'.tomb, k, start'.disk.row[k], Col)
                              ELSE start'.disk.row[k]
    <3>1. tx.row \in [Pk -> Row \cup {None}]
      BY <1>4 DEF Tables
    <3>2. CASE k = pk
      <4>1. tx'.row[k] = new /\ k \notin dirty' /\ \E r \in New' : r.pk = k
        BY <1>1, <1>3, <1>6, <1>8, <3>1, <3>2
      <4> QED BY <1>2, <1>8, <3>2, <4>1
    <3>3. CASE k # pk
      <4>1. tx'.row[k] = tx.row[k] /\ (k \in dirty' <=> k \in dirty)
        BY <1>1, <1>8, <3>1, <3>3
      <4>2. tx.row[k] = IF k \notin dirty /\ \E r \in New : r.pk = k
                          THEN Materialize(tx.cell, tx.tomb, k, start.disk.row[k], Col)
                          ELSE start.disk.row[k]
        BY DEF LoopInv, Rebuilt
      <4> QED BY <1>2, <1>3, <1>8, <4>1, <4>2
    <3> QED BY <3>2, <3>3
  <2> QED BY <2>1, <2>2 DEF Rebuilt
<1> QED BY <1>9, <1>10, <1>11 DEF LoopInv

LEMMA LoopCommit ==
  ASSUME LoopInv, Commit
  PROVE  LoopInv'
<1>1. /\ phase = "rebuild" /\ dirty = {} /\ phase' = "committed"
      /\ disk' = [tx EXCEPT !.vv = [o \in Device |-> Max({@[o], raised[o]})]]
      /\ UNCHANGED <<tx, clk, todo, dirty, raised, start, phys>>
  BY DEF Commit
<1>2. Done' = Done /\ New' = New
  BY <1>1 DEF Done, New
<1>3. /\ tx \in Tables /\ start.disk \in Tables /\ tx.vv = start.disk.vv
      /\ raised = BumpVV(Zero, New)
  BY DEF LoopInv, TypeOK, Stored
<1>4. \A r \in New : r.hlc \in Stamp
  BY ChangeProperties DEF LoopInv, Setting, SoundRecords, New, Done
<1>5. /\ Zero \in [Device -> 0..MaxStamp] /\ \A o \in Device : Zero[o] = 0
      /\ start.disk.vv \in [Device -> 0..MaxStamp] /\ raised \in [Device -> 0..MaxStamp]
  BY <1>3, RecordsAssumption DEF Zero, Tables, LoopInv, TypeOK
<1> DEFINE v == [o \in Device |-> Max({start.disk.vv[o], raised[o]})]
<1>6. ASSUME NEW o \in Device PROVE BumpVV(start.disk.vv, New)[o] = v[o]
  <2>1. /\ \A r \in New : r.origin = o => r.hlc <= raised[o]
        /\ raised[o] = 0 \/ \E r \in New : r.origin = o /\ r.hlc = raised[o]
    BY <1>3, <1>4, <1>5, BumpVVProperties
  <2>2. start.disk.vv[o] \in Nat /\ raised[o] \in Nat
    BY <1>5, RecordsAssumption
  <2>3. Max({start.disk.vv[o], raised[o]})
          = IF start.disk.vv[o] >= raised[o] THEN start.disk.vv[o] ELSE raised[o]
    BY <2>2, GreaterOfTwo
  <2>4. v[o] = IF start.disk.vv[o] >= raised[o] THEN start.disk.vv[o] ELSE raised[o]
    BY <2>3
  <2> HIDE DEF v
  <2>5. /\ start.disk.vv[o] <= v[o] /\ raised[o] <= v[o] /\ v[o] \in Nat
        /\ v[o] = start.disk.vv[o] \/ \E r \in New : r.origin = o /\ r.hlc = v[o]
    BY <2>1, <2>2, <2>4
  <2>6. \A r \in New : r.origin = o => r.hlc <= v[o]
    <3>1. \A r \in New : r.hlc \in Nat
      BY <1>4, RecordsAssumption DEF Stamp
    <3> QED BY <2>1, <2>2, <2>5, <3>1
  <2> QED BY <1>4, <1>5, <2>5, <2>6, BumpVVIs
<1>7. BumpVV(start.disk.vv, New) \in [Device -> 0..MaxStamp]
  BY <1>4, <1>5, BumpVVProperties
<1>8. v = BumpVV(start.disk.vv, New)
  <2> DEFINE w == BumpVV(start.disk.vv, New)
  <2>1. w \in [Device -> 0..MaxStamp] /\ \A o \in Device : w[o] = v[o]
    BY <1>6, <1>7
  <2>2. v = [o \in Device |-> v[o]]
    OBVIOUS
  <2> HIDE DEF v, w
  <2>3. v = w
    BY <2>1, <2>2
  <2> QED BY <2>3 DEF w
<1>9. /\ disk'.log = tx.log /\ disk'.cell = tx.cell /\ disk'.tomb = tx.tomb
      /\ disk'.row = tx.row /\ disk'.vv = v
      /\ disk' = [log |-> tx.log, cell |-> tx.cell, tomb |-> tx.tomb, vv |-> v, row |-> tx.row]
  <2>1. tx = [log |-> tx.log, cell |-> tx.cell, tomb |-> tx.tomb, vv |-> tx.vv, row |-> tx.row]
    BY <1>3 DEF Tables
  <2>2. disk' = [tx EXCEPT !.vv = v]
    BY <1>1, <1>3
  <2> HIDE DEF v
  <2> QED BY <2>1, <2>2
<1>10. disk' \in Tables
  BY <1>3, <1>7, <1>8, <1>9 DEF Tables
<1> HIDE DEF v
<1>11. TypeOK' /\ (start.disk \in Tables)' /\ Setting' /\ Progressing'
  <2>1. TypeOK'
    BY <1>1, <1>10 DEF LoopInv, TypeOK
  <2> QED BY <1>1, <1>2, <2>1 DEF LoopInv, Setting, Progressing
<1>12. OnDisk'
  BY <1>1, <1>2, <1>8, <1>9 DEF OnDisk
<1>13. Stored' /\ Rebuilt'
  BY <1>1, <1>2 DEF LoopInv, Stored, Rebuilt
<1> QED BY <1>11, <1>12, <1>13 DEF LoopInv

LEMMA LoopFail ==
  ASSUME LoopInv, Fail \/ UNCHANGED vars
  PROVE  LoopInv'
<1>1. /\ phase' = phase \/ (phase # "committed" /\ phase' = "failed")
      /\ UNCHANGED <<disk, tx, clk, todo, dirty, raised, start, phys>>
  BY DEF Fail, RolledBack, vars
<1>2. Done' = Done /\ New' = New
  BY <1>1 DEF Done, New
<1>3. TypeOK' /\ (start.disk \in Tables)' /\ Setting'
  BY <1>1 DEF LoopInv, TypeOK, Setting
<1>4. Progressing' /\ OnDisk'
  BY <1>1, <1>2 DEF LoopInv, Progressing, OnDisk
<1>5. Stored' /\ Rebuilt'
  BY <1>1, <1>2 DEF LoopInv, Stored, Rebuilt
<1> QED BY <1>3, <1>4, <1>5 DEF LoopInv

(* The tables that a failed batch found are the tables that the next finds. *)
LEMMA LoopRetry ==
  ASSUME LoopInv, Retry
  PROVE  Begun'
<1>1. /\ todo' \in Batches /\ OfOneHistory(disk.log \cup todo') /\ phys' \in Readings
      /\ tx' = disk /\ dirty' = {} /\ raised' = Zero
      /\ start' = [disk |-> disk, clk |-> clk, batch |-> todo']
      /\ phase = "failed" /\ phase' = "store" /\ disk' = disk /\ clk' = clk
  BY DEF Retry, Zero
<1>2. SoundRecords(disk.log) /\ disk = Replicated(disk.log) /\ clk \in Nat
  <2>1. disk = start.disk /\ clk \in Nat
    BY <1>1 DEF LoopInv, OnDisk, TypeOK
  <2> QED BY <2>1 DEF LoopInv, Setting
<1>3. SoundRecords(todo') /\ phys' \in Nat
  BY <1>1, ApplyLoopAssumption DEF SoundRecords
<1>4. Zero' = Zero
  BY DEF Zero
<1> QED BY <1>1, <1>2, <1>3, <1>4 DEF Begun

LEMMA LoopInvariant == Spec => []LoopInv
<1>1. LoopInv /\ [Next]_vars => LoopInv' \/ Begun'
  BY LoopSkip, LoopStoreOne, LoopEndStore, LoopRebuild, LoopCommit, LoopFail, LoopRetry DEF Next
<1> QED BY <1>1, LoopInit, LoopBegun, PTL DEF Spec
-----------------------------------------------------------------------------
(* The results.                                                            *)

(* The tables keep their types at every point of the transaction.           *)
THEOREM LoopTypeOK == Spec => []TypeOK
  BY LoopInvariant, PTL DEF LoopInv

(* What is on disk after a commit.                                          *)
LEMMA Committed ==
  ASSUME LoopInv, phase = "committed"
  PROVE  LET held == start.disk.log \cup start.batch
             new  == Fresh(start.disk.log, start.batch)
         IN  /\ SoundRecords(start.disk.log) /\ SoundRecords(held)
             /\ start.disk = Replicated(start.disk.log)
             /\ New = new /\ held = start.disk.log \cup new
             /\ disk \in Tables /\ disk.log = held
             /\ disk.cell = Tops(Cells(held)) /\ disk.tomb = Tops(Deletes(held))
             /\ disk.vv = BumpVV(start.disk.vv, new)
             /\ \A pk \in Pk : disk.row[pk] = IF \E r \in new : r.pk = pk
                                                THEN Rebuild1(held, pk, start.disk.row[pk])
                                                ELSE start.disk.row[pk]
             /\ clk = Observe(start.clk, phys, new)
<1> DEFINE held == start.disk.log \cup start.batch
           new  == Fresh(start.disk.log, start.batch)
<1>1. todo = {} /\ dirty = {} /\ Done = start.batch /\ New = start.batch \ start.disk.log
  BY DEF LoopInv, Progressing, Done, New
<1>2. /\ SoundRecords(start.disk.log) /\ SoundRecords(start.batch) /\ OfOneHistory(held)
      /\ start.disk = Replicated(start.disk.log)
  BY DEF LoopInv, Setting
<1>3. New = new /\ held = start.disk.log \cup new
  <2>1. \A r \in start.batch, s \in start.disk.log : r.origin = s.origin /\ r.hlc = s.hlc => r = s
    BY <1>2 DEF OfOneHistory
  <2>2. new = start.batch \ start.disk.log
    BY <2>1, FreshProperties
  <2> QED BY <1>1, <2>2
<1>4. SoundRecords(held)
  BY <1>2, FS_Union DEF SoundRecords
<1>5. /\ disk \in Tables /\ disk.log = held
      /\ disk.cell = Tops(Cells(held)) /\ disk.tomb = Tops(Deletes(held))
      /\ disk.vv = BumpVV(start.disk.vv, New) /\ disk.row = tx.row
      /\ tx.cell = disk.cell /\ tx.tomb = disk.tomb
      /\ clk = Observe(start.clk, phys, New)
  BY <1>1 DEF LoopInv, TypeOK, OnDisk, Stored
<1>6. ASSUME NEW pk \in Pk
      PROVE  disk.row[pk] = IF \E r \in New : r.pk = pk
                              THEN Rebuild1(held, pk, start.disk.row[pk])
                              ELSE start.disk.row[pk]
  <2>1. tx.row[pk] = IF pk \notin dirty /\ \E r \in New : r.pk = pk
                       THEN Materialize(tx.cell, tx.tomb, pk, start.disk.row[pk], Col)
                       ELSE start.disk.row[pk]
    BY DEF LoopInv, Rebuilt
  <2> HIDE DEF held, new
  <2>2. pk \notin dirty
    BY <1>1
  <2>3. CASE \E r \in New : r.pk = pk
    <3>1. tx.row[pk] = Materialize(tx.cell, tx.tomb, pk, start.disk.row[pk], Col)
      BY <2>1, <2>2, <2>3
    <3>2. tx.cell = Tops(Cells(held)) /\ tx.tomb = Tops(Deletes(held)) /\ disk.row = tx.row
      BY <1>5
    <3>3. disk.row[pk] = Rebuild1(held, pk, start.disk.row[pk])
      BY <3>1, <3>2 DEF Rebuild1
    <3> QED BY <2>3, <3>3
  <2>4. CASE ~ \E r \in New : r.pk = pk
    <3>1. tx.row[pk] = start.disk.row[pk]
      BY <2>1, <2>4
    <3> QED BY <2>4, <3>1, <1>5
  <2> QED BY <2>3, <2>4
<1> HIDE DEF held, new
<1>7. \A pk \in Pk : disk.row[pk] = IF \E r \in new : r.pk = pk
                                      THEN Rebuild1(held, pk, start.disk.row[pk])
                                      ELSE start.disk.row[pk]
  BY <1>3, <1>6
<1> QED BY <1>2, <1>3, <1>4, <1>5, <1>7 DEF held, new

(* The record-by-record loop leaves on disk and in the clock what Replica's *)
(* one step says.                                                          *)
THEOREM LoopRefinesOneStep == Spec => []LoopIsOneStep
<1>1. LoopInv => LoopIsOneStep
  <2> SUFFICES ASSUME LoopInv, phase = "committed"
               PROVE  /\ disk = Outcome
                      /\ clk = Observe(start.clk, phys, Fresh(start.disk.log, start.batch))
    BY DEF LoopIsOneStep
  <2> DEFINE old   == start.disk.log
             new   == Fresh(old, start.batch)
             held  == old \cup start.batch
             cells == Upsert(start.disk.cell, Cells(new))
             tombs == Upsert(start.disk.tomb, Deletes(new))
             rows  == [pk \in Pk |-> IF \E r \in new : r.pk = pk
                                       THEN Materialize(cells, tombs, pk, start.disk.row[pk], Col)
                                       ELSE start.disk.row[pk]]
  <2>1. /\ SoundRecords(old) /\ SoundRecords(held) /\ start.disk = Replicated(old)
        /\ held = old \cup new
        /\ disk \in Tables /\ disk.log = held
        /\ disk.cell = Tops(Cells(held)) /\ disk.tomb = Tops(Deletes(held))
        /\ disk.vv = BumpVV(start.disk.vv, new)
        /\ \A pk \in Pk : disk.row[pk] = IF \E r \in new : r.pk = pk
                                           THEN Rebuild1(held, pk, start.disk.row[pk])
                                           ELSE start.disk.row[pk]
        /\ clk = Observe(start.clk, phys, new)
    BY Committed
  <2>2. start.disk.cell = Tops(Cells(old)) /\ start.disk.tomb = Tops(Deletes(old))
    <3>1. Replicated(old).cell = Tops(Cells(old)) /\ Replicated(old).tomb = Tops(Deletes(old))
      BY DEF Replicated, Tops
    <3> QED BY <2>1, <3>1
  <2>3. cells = disk.cell /\ tombs = disk.tomb
    <3>1. /\ old \in SUBSET Change /\ held \in SUBSET Change
      BY <2>1 DEF SoundRecords
    <3> HIDE DEF old, new, held
    <3>2. /\ Cells(held) = Cells(old) \cup Cells(new)
          /\ Deletes(held) = Deletes(old) \cup Deletes(new)
          /\ Cells(old) \in SUBSET Change /\ Cells(new) \in SUBSET Change
          /\ Deletes(old) \in SUBSET Change /\ Deletes(new) \in SUBSET Change
      BY <2>1, <3>1 DEF Cells, Deletes
    <3>3. /\ Upsert(Tops(Cells(old)), Cells(new)) = Tops(Cells(held))
          /\ Upsert(Tops(Deletes(old)), Deletes(new)) = Tops(Deletes(held))
      BY <3>2, UpsertTops
    <3> QED BY <2>1, <2>2, <3>3
  <2>4. disk.row = rows
    <3> HIDE DEF old, new, held, cells, tombs
    <3>1. \A pk \in Pk : disk.row[pk] = rows[pk]
      BY <2>1, <2>3 DEF Rebuild1
    <3>2. disk.row \in [Pk -> Row \cup {None}]
      BY <2>1 DEF Tables
    <3> QED BY <3>1, <3>2
  <2>5. Outcome = [log |-> old \cup new, cell |-> cells, tomb |-> tombs,
                   vv |-> BumpVV(start.disk.vv, new), row |-> rows]
    BY DEF Outcome
  <2>6. disk = [log |-> disk.log, cell |-> disk.cell, tomb |-> disk.tomb,
                vv |-> disk.vv, row |-> disk.row]
    BY <2>1 DEF Tables
  <2> HIDE DEF cells, tombs, rows, held
  <2> QED BY <2>1, <2>3, <2>4, <2>5, <2>6
<1> QED BY <1>1, LoopInvariant, PTL

(* However the records were divided into batches, and whichever batches     *)
(* failed on the way, what is on disk after a commit is what a replica      *)
(* holds that received all at once: tables, vector and rows.               *)
THEOREM LoopBatchingLeavesNoTrace == Spec => []BatchingLeavesNoTrace
<1>1. LoopInv => BatchingLeavesNoTrace
  <2> SUFFICES ASSUME LoopInv, phase = "committed"
               PROVE  disk = Replicated(start.disk.log \cup start.batch)
    BY DEF BatchingLeavesNoTrace
  <2> DEFINE old  == start.disk.log
             new  == Fresh(old, start.batch)
             held == old \cup start.batch
  <2>1. /\ SoundRecords(old) /\ SoundRecords(held) /\ start.disk = Replicated(old)
        /\ held = old \cup new
        /\ disk \in Tables /\ disk.log = held
        /\ disk.cell = Tops(Cells(held)) /\ disk.tomb = Tops(Deletes(held))
        /\ disk.vv = BumpVV(start.disk.vv, new)
        /\ \A pk \in Pk : disk.row[pk] = IF \E r \in new : r.pk = pk
                                           THEN Rebuild1(held, pk, start.disk.row[pk])
                                           ELSE start.disk.row[pk]
    BY Committed
  <2>2. Replicated(held) = [log |-> held, cell |-> Tops(Cells(held)),
                            tomb |-> Tops(Deletes(held)), vv |-> BumpVV(Zero, held),
                            row |-> [pk \in Pk |-> Rebuild1(held, pk, None)]]
    BY <2>1, ReplicatedTyped
  <2>3. /\ start.disk.vv = BumpVV(Zero, old)
        /\ \A pk \in Pk : start.disk.row[pk] = Rebuild1(old, pk, None)
    <3>1. Replicated(old) = [log |-> old, cell |-> Tops(Cells(old)),
                             tomb |-> Tops(Deletes(old)), vv |-> BumpVV(Zero, old),
                             row |-> [pk \in Pk |-> Rebuild1(old, pk, None)]]
      BY <2>1, ReplicatedTyped
    <3>2. /\ Replicated(old).vv = BumpVV(Zero, old)
          /\ Replicated(old).row = [pk \in Pk |-> Rebuild1(old, pk, None)]
      BY <3>1
    <3> HIDE DEF old
    <3> QED BY <2>1, <3>2
  <2>4. disk.vv = BumpVV(Zero, held)
    <3>1. Zero \in [Device -> 0..MaxStamp] /\ \A r \in held : r.hlc \in Stamp
      BY <2>1, ChangeProperties, RecordsAssumption DEF Zero, SoundRecords
    <3> HIDE DEF old, new, held
    <3> QED BY <2>1, <2>3, <3>1, BumpVVTwice
  <2>5. held \in SUBSET Change /\ old \in SUBSET held
    BY <2>1 DEF SoundRecords
  <2> HIDE DEF old, new, held
  <2>6. ASSUME NEW pk \in Pk PROVE disk.row[pk] = Rebuild1(held, pk, None)
    <3>1. CASE \E r \in new : r.pk = pk
      <4>1. disk.row[pk] = Rebuild1(held, pk, Rebuild1(old, pk, None))
        BY <2>1, <2>3, <3>1
      <4>2. \E r \in held : r.pk = pk
        BY <2>1, <3>1
      <4> QED BY <2>5, <4>1, <4>2, RebuildAgain
    <3>2. CASE ~(\E r \in new : r.pk = pk)
      <4>1. disk.row[pk] = Rebuild1(old, pk, None)
        BY <2>1, <2>3, <3>2
      <4>2. \A r \in held \ old : r.pk # pk
        BY <2>1, <3>2
      <4> QED BY <2>5, <4>1, <4>2, RebuildSame
    <3> QED BY <3>1, <3>2
  <2>7. disk.row = [pk \in Pk |-> Rebuild1(held, pk, None)]
    <3>1. disk.row \in [Pk -> Row \cup {None}]
      BY <2>1 DEF Tables
    <3> QED BY <2>6, <3>1
  <2>8. disk = [log |-> disk.log, cell |-> disk.cell, tomb |-> disk.tomb,
                vv |-> disk.vv, row |-> disk.row]
    BY <2>1 DEF Tables
  <2>9. disk = Replicated(held)
    BY <2>1, <2>2, <2>4, <2>7, <2>8
  <2> QED BY <2>9 DEF held, old
<1> QED BY <1>1, LoopInvariant, PTL
=============================================================================

-------------------------- MODULE HybridClockProofs --------------------------
(***************************************************************************)
(* The hybrid clock is right for every width of its counter, every drift    *)
(* window and every sequence of readings of the wall clock.                *)
(***************************************************************************)
EXTENDS HybridClock, TLAPS

(* A stamp made from a stamp is never below it, and its wall time is the    *)
(* reading or the one it was made from.                                    *)
LEMMA NextStampProperties ==
  ASSUME NEW from \in Hlc, NEW phys \in 0..MaxWall
  PROVE  /\ NextStamp(from, phys) \in Hlc
         /\ ~Earlier(NextStamp(from, phys), from)
         /\ NextStamp(from, phys).wall \in {phys, from.wall}
  BY HybridClockAssumption DEF Hlc, NextStamp, At, Saturating, Earlier

(* The later of two stamps is one of them, and neither is above it.         *)
LEMMA LaterProperties ==
  ASSUME NEW a \in Hlc, NEW b \in Hlc
  PROVE  /\ Later(a, b) \in {a, b}
         /\ ~Earlier(Later(a, b), a)
         /\ ~Earlier(Later(a, b), b)
  BY DEF Hlc, Later, Earlier

LEMMA NotEarlierTransitive ==
  ASSUME NEW a \in Hlc, NEW b \in Hlc, NEW c \in Hlc,
         ~Earlier(a, b), ~Earlier(b, c)
  PROVE  ~Earlier(a, c)
  BY DEF Hlc, Earlier

ClockInv == TypeOK /\ NothingAhead /\ NotPoisoned

LEMMA ClockInvInit == Init => ClockInv
  BY HybridClockAssumption
     DEF Init, ClockInv, TypeOK, NothingAhead, NotPoisoned, Earlier, Hlc, At

LEMMA ClockInvNext == ClockInv /\ [Next]_vars => ClockInv'
<1> SUFFICES ASSUME ClockInv, [Next]_vars PROVE ClockInv'
  OBVIOUS
<1> USE HybridClockAssumption DEF ClockInv
<1>1. CASE UNCHANGED vars
  BY <1>1 DEF vars, TypeOK, NothingAhead, NotPoisoned
<1>2. ASSUME NEW phys \in 0..MaxWall, Tick(phys)
      PROVE  ClockInv'
  <2>1. last \in Hlc /\ seen \in Hlc /\ peak \in 0..MaxWall
    BY DEF TypeOK
  <2>2. last' = NextStamp(last, phys) /\ seen' = Later(seen, last')
    BY <1>2 DEF Tick
  <2>3. last' \in Hlc /\ last'.wall \in {phys, last.wall} /\ ~Earlier(last', last)
    BY <2>1, <2>2, NextStampProperties
  <2>4. ~Earlier(last', seen)
    BY <2>1, <2>3, NotEarlierTransitive DEF NothingAhead
  <2>5. seen' \in {seen, last'}
    BY <2>1, <2>2, <2>3, LaterProperties
  <2>6. peak' \in 0..MaxWall /\ peak' >= phys /\ peak' >= peak
    BY <1>2, <2>1 DEF Tick
  <2>7. ~Earlier(last', last')
    BY <2>3 DEF Earlier, Hlc
  <2> QED
    BY <2>1, <2>3, <2>4, <2>5, <2>6, <2>7 DEF TypeOK, NothingAhead, NotPoisoned, Hlc
<1>3. ASSUME NEW phys \in 0..MaxWall, NEW remote \in Hlc, Observe(phys, remote)
      PROVE  ClockInv'
  <2>1. last \in Hlc /\ seen \in Hlc /\ peak \in 0..MaxWall
    BY DEF TypeOK
  <2>2. peak' \in 0..MaxWall /\ peak' >= phys /\ peak' >= peak
    BY <1>3, <2>1 DEF Observe
  <2>3. CASE Absorbs(phys, remote)
    <3> DEFINE from == Later(last, remote)
    <3>1. last' = NextStamp(from, phys) /\ seen' = Later(seen, remote)
      BY <1>3, <2>3 DEF Observe, ObserveFrom
    <3>2. from \in {last, remote} /\ ~Earlier(from, last) /\ ~Earlier(from, remote)
      BY <2>1, LaterProperties
    <3>3. last' \in Hlc /\ last'.wall \in {phys, from.wall} /\ ~Earlier(last', from)
      BY <2>1, <3>1, <3>2, NextStampProperties
    <3>4. ~Earlier(last', last) /\ ~Earlier(last', remote)
      <4> HIDE DEF from
      <4> QED BY <2>1, <3>2, <3>3, NotEarlierTransitive
    <3>5. ~Earlier(last', seen)
      BY <2>1, <3>3, <3>4, NotEarlierTransitive DEF NothingAhead
    <3>6. seen' \in {seen, remote}
      BY <2>1, <3>1, LaterProperties
    <3>7. last'.wall <= peak' + MaxDrift
      BY <2>1, <2>2, <2>3, <3>2, <3>3 DEF Absorbs, Hlc, NotPoisoned
    <3> QED
      BY <2>1, <2>2, <3>3, <3>4, <3>5, <3>6, <3>7 DEF TypeOK, NothingAhead, NotPoisoned
  <2>4. CASE ~Absorbs(phys, remote)
    <3>1. last' = NextStamp(last, phys) /\ seen' = seen
      BY <1>3, <2>4 DEF Observe, ObserveFrom
    <3>2. last' \in Hlc /\ last'.wall \in {phys, last.wall} /\ ~Earlier(last', last)
      BY <2>1, <3>1, NextStampProperties
    <3>3. ~Earlier(last', seen)
      BY <2>1, <3>2, NotEarlierTransitive DEF NothingAhead
    <3> QED
      BY <2>1, <2>2, <3>1, <3>2, <3>3 DEF TypeOK, NothingAhead, NotPoisoned, Hlc
  <2> QED BY <2>3, <2>4
<1> QED BY <1>1, <1>2, <1>3 DEF Next

(* The clock keeps its type, and its counter its width.                     *)
THEOREM ClockTypeOK == Spec => []TypeOK
  BY ClockInvInit, ClockInvNext, PTL DEF Spec, ClockInv

(* hlc.rs: no stamp that was given out or absorbed is above the clock, from *)
(* which the next one is made, however the wall clock is set.              *)
THEOREM ClockNothingAhead == Spec => []NothingAhead
  BY ClockInvInit, ClockInvNext, PTL DEF Spec, ClockInv

(* hlc.rs: no peer's stamps can drag the clock further than the drift       *)
(* window beyond what this device's own wall clock has shown.              *)
THEOREM ClockNotPoisoned == Spec => []NotPoisoned
  BY ClockInvInit, ClockInvNext, PTL DEF Spec, ClockInv

(* hlc.rs: every event moves the clock forward until a counter reaches the  *)
(* limit of its width.                                                     *)
THEOREM ClockProgress == Spec => Progress
<1>1. ASSUME TypeOK, [Next]_vars
      PROVE  [last'.counter < MaxCounter => Earlier(last, last')]_vars
  <2> SUFFICES ASSUME Next, last'.counter < MaxCounter PROVE Earlier(last, last')
    BY <1>1
  <2>1. ASSUME NEW from \in Hlc, NEW phys \in 0..MaxWall, last' = NextStamp(from, phys),
               ~Earlier(from, last)
        PROVE  Earlier(last, last')
    BY <1>1, <2>1, HybridClockAssumption DEF TypeOK, NextStamp, At, Saturating, Earlier, Hlc
  <2>2. ~Earlier(last, last)
    BY <1>1 DEF TypeOK, Earlier, Hlc
  <2>3. ASSUME NEW remote \in Hlc
        PROVE  Later(last, remote) \in Hlc /\ ~Earlier(Later(last, remote), last)
    BY <1>1, LaterProperties DEF TypeOK
  <2> QED
    BY <1>1, <2>1, <2>2, <2>3 DEF Next, Tick, Observe, ObserveFrom, TypeOK
<1> QED BY <1>1, ClockTypeOK, PTL DEF Spec, Progress
-----------------------------------------------------------------------------
(* Stamps flattened to numbers: the wall time outweighs any counter.         *)
LEMMA WallDominates ==
  ASSUME NEW a \in Int, NEW b \in Int, NEW k \in Nat, a < b
  PROVE  a * k + k <= b * k
<1>1. (b - (a + 1)) * k >= 0
  OBVIOUS
<1>2. (b - (a + 1)) * k = b * k - (a + 1) * k
  OBVIOUS
<1>3. (a + 1) * k = a * k + k
  OBVIOUS
<1>4. a * k \in Int /\ b * k \in Int
  OBVIOUS
<1> QED BY <1>1, <1>2, <1>3, <1>4

LEMMA GreaterOfTwo ==
  ASSUME NEW a \in Int, NEW b \in Int
  PROVE  FlatClock!Max({a, b}) = IF a >= b THEN a ELSE b
<1> DEFINE m == IF a >= b THEN a ELSE b
<1>1. m \in {a, b} /\ \A y \in {a, b} : m >= y
  OBVIOUS
<1>2. \A x \in {a, b} : (\A y \in {a, b} : x >= y) => x = m
  OBVIOUS
<1> QED BY <1>1, <1>2 DEF FlatClock!Max

LEMMA FlatOrder ==
  ASSUME NEW a \in Hlc, NEW b \in Hlc
  PROVE  /\ Flat(a) \in Nat
         /\ Earlier(a, b) => Flat(a) < Flat(b)
         /\ ~Earlier(a, b) => Flat(a) >= Flat(b)
<1> DEFINE k == MaxCounter + 1
<1>1. /\ k \in Nat /\ a.wall \in Nat /\ b.wall \in Nat
      /\ a.counter \in Nat /\ a.counter < k /\ b.counter \in Nat /\ b.counter < k
  BY HybridClockAssumption DEF Hlc
<1>2. Flat(a) = a.wall * k + a.counter /\ Flat(b) = b.wall * k + b.counter
  BY DEF Flat
<1> HIDE DEF k
<1>3. a.wall * k \in Nat /\ b.wall * k \in Nat
  BY <1>1
<1>4. /\ a.wall < b.wall => a.wall * k + k <= b.wall * k
      /\ b.wall < a.wall => b.wall * k + k <= a.wall * k
  BY <1>1, WallDominates
<1>5. CASE a.wall < b.wall
  BY <1>1, <1>2, <1>3, <1>4, <1>5 DEF Earlier
<1>6. CASE b.wall < a.wall
  BY <1>1, <1>2, <1>3, <1>4, <1>6 DEF Earlier
<1>7. CASE a.wall = b.wall
  BY <1>1, <1>2, <1>3, <1>7 DEF Earlier
<1> QED BY <1>1, <1>5, <1>6, <1>7

LEMMA FlatLater ==
  ASSUME NEW a \in Hlc, NEW b \in Hlc
  PROVE  Flat(Later(a, b)) = FlatClock!Max({Flat(a), Flat(b)})
<1>1. Flat(a) \in Int /\ Flat(b) \in Int
  BY FlatOrder
<1>2. FlatClock!Max({Flat(a), Flat(b)}) = IF Flat(a) >= Flat(b) THEN Flat(a) ELSE Flat(b)
  BY <1>1, GreaterOfTwo
<1>3. CASE Earlier(a, b)
  <2>1. Flat(a) < Flat(b)
    BY <1>3, FlatOrder
  <2> QED BY <1>1, <1>2, <1>3, <2>1 DEF Later
<1>4. CASE ~Earlier(a, b)
  <2>1. Flat(a) >= Flat(b)
    BY <1>4, FlatOrder
  <2> QED BY <1>1, <1>2, <1>4, <2>1 DEF Later
<1> QED BY <1>3, <1>4

LEMMA FlatNext ==
  ASSUME NEW from \in Hlc, NEW phys \in 0..MaxWall, from.counter < MaxCounter
  PROVE  Flat(NextStamp(from, phys)) = FlatClock!Tick(Flat(from), Flat(At(phys, 0)))
<1> DEFINE k == MaxCounter + 1
<1>1. /\ k \in Nat /\ from.wall \in Nat /\ from.counter \in Nat /\ phys \in Nat
      /\ from.counter + 1 <= k
  BY HybridClockAssumption DEF Hlc
<1>2. Flat(from) = from.wall * k + from.counter /\ Flat(At(phys, 0)) = phys * k + 0
  BY DEF Flat, At
<1>3. phys > from.wall => Flat(NextStamp(from, phys)) = phys * k + 0
  BY DEF Flat, At, NextStamp
<1>4. phys <= from.wall => Flat(NextStamp(from, phys)) = from.wall * k + (from.counter + 1)
  BY <1>1 DEF Flat, At, NextStamp, Saturating
<1> HIDE DEF k
<1>5. from.wall * k \in Nat /\ phys * k \in Nat
  BY <1>1
<1>6. /\ from.wall < phys => from.wall * k + k <= phys * k
      /\ phys < from.wall => phys * k + k <= from.wall * k
  BY <1>1, WallDominates
<1> DEFINE now == Flat(At(phys, 0))
           was == Flat(from) + 1
<1>7. now = phys * k /\ was = from.wall * k + from.counter + 1
  BY <1>1, <1>2, <1>5
<1>8. FlatClock!Tick(Flat(from), now) = IF now >= was THEN now ELSE was
  <2>1. now \in Int /\ was \in Int
    BY <1>1, <1>5, <1>7
  <2> QED BY <2>1, GreaterOfTwo DEF FlatClock!Tick
<1> HIDE DEF now, was
<1>9. CASE phys > from.wall
  BY <1>1, <1>3, <1>5, <1>6, <1>7, <1>8, <1>9 DEF now
<1>10. CASE phys < from.wall
  BY <1>1, <1>4, <1>5, <1>6, <1>7, <1>8, <1>10 DEF now
<1>11. CASE phys = from.wall
  BY <1>1, <1>4, <1>5, <1>7, <1>8, <1>11 DEF now
<1> QED BY <1>1, <1>9, <1>10, <1>11

LEMMA FlatAbsorbs ==
  ASSUME NEW phys \in 0..MaxWall, NEW r \in Hlc
  PROVE  Absorbs(phys, r) <=>
           Flat(r) <= Flat(At(phys, 0)) + Flat(At(MaxDrift, MaxCounter))
<1> DEFINE k == MaxCounter + 1
           far == phys + MaxDrift
<1>1. /\ k \in Nat /\ r.wall \in Nat /\ r.counter \in Nat /\ phys \in Nat
      /\ r.counter < k /\ MaxDrift \in Nat /\ MaxCounter \in Nat /\ MaxCounter + 1 = k
      /\ far \in Nat
  BY HybridClockAssumption DEF Hlc
<1>2. /\ Flat(r) = r.wall * k + r.counter /\ Flat(At(phys, 0)) = phys * k + 0
      /\ Flat(At(MaxDrift, MaxCounter)) = MaxDrift * k + MaxCounter
  BY DEF Flat, At
<1>3. Absorbs(phys, r) <=> r.wall <= far
  BY DEF Absorbs
<1> HIDE DEF k
<1>4. phys * k + MaxDrift * k = far * k
  BY <1>1
<1> HIDE DEF far
<1>5. r.wall * k \in Nat /\ phys * k \in Nat /\ MaxDrift * k \in Nat /\ far * k \in Nat
  BY <1>1
<1>6. /\ r.wall < far => r.wall * k + k <= far * k
      /\ far < r.wall => far * k + k <= r.wall * k
  BY <1>1, WallDominates
<1>7. Flat(At(phys, 0)) + Flat(At(MaxDrift, MaxCounter)) = far * k + MaxCounter
  <2> DEFINE x == phys * k
             y == MaxDrift * k
             z == far * k
  <2>1. x \in Nat /\ y \in Nat /\ z \in Nat /\ x + y = z /\ MaxCounter \in Nat
    BY <1>1, <1>4, <1>5
  <2>2. Flat(At(phys, 0)) = x + 0 /\ Flat(At(MaxDrift, MaxCounter)) = y + MaxCounter
    BY <1>2
  <2> HIDE DEF x, y, z
  <2>3. Flat(At(phys, 0)) + Flat(At(MaxDrift, MaxCounter)) = z + MaxCounter
    BY <2>1, <2>2
  <2> QED BY <2>3 DEF z
<1>8. CASE r.wall < far
  BY <1>1, <1>2, <1>3, <1>5, <1>6, <1>7, <1>8
<1>9. CASE r.wall > far
  BY <1>1, <1>2, <1>3, <1>5, <1>6, <1>7, <1>9
<1>10. CASE r.wall = far
  BY <1>1, <1>2, <1>3, <1>5, <1>7, <1>10
<1> QED BY <1>1, <1>8, <1>9, <1>10

(* The clock the models of the database use is the clock of hlc.rs, for     *)
(* every width of the counter: flattening commutes with both events as     *)
(* long as no counter has reached its limit.                               *)
THEOREM ClockFlatAgrees == Spec => []FlatAgrees
<1>1. TypeOK => FlatAgrees
  <2> SUFFICES ASSUME TypeOK, NEW phys \in 0..MaxWall, last.counter < MaxCounter
               PROVE  /\ Flat(NextStamp(last, phys)) =
                           FlatClock!Tick(Flat(last), Flat(At(phys, 0)))
                      /\ \A r \in Hlc : r.counter < MaxCounter =>
                           Flat(ObserveFrom(last, phys, r)) =
                             FlatClock!ObserveOne(Flat(last), Flat(At(phys, 0)), Flat(r))
    BY DEF FlatAgrees
  <2>0. last \in Hlc
    BY DEF TypeOK
  <2>1. ASSUME NEW r \in Hlc, r.counter < MaxCounter
        PROVE  Flat(ObserveFrom(last, phys, r)) =
                 FlatClock!ObserveOne(Flat(last), Flat(At(phys, 0)), Flat(r))
    <3>1. CASE Absorbs(phys, r)
      <4> DEFINE from == Later(last, r)
      <4>1. from \in Hlc /\ from.counter < MaxCounter
        BY <2>0, <2>1 DEF Later
      <4>2. Flat(from) = FlatClock!Max({Flat(last), Flat(r)})
        BY <2>0, FlatLater
      <4>3. ObserveFrom(last, phys, r) = NextStamp(from, phys)
        BY <3>1 DEF ObserveFrom
      <4> HIDE DEF from
      <4>4. Flat(NextStamp(from, phys)) = FlatClock!Tick(Flat(from), Flat(At(phys, 0)))
        BY <4>1, FlatNext
      <4>5. Flat(r) <= Flat(At(phys, 0)) + Flat(At(MaxDrift, MaxCounter))
        BY <3>1, FlatAbsorbs
      <4> QED BY <4>2, <4>3, <4>4, <4>5 DEF FlatClock!ObserveOne
    <3>2. CASE ~Absorbs(phys, r)
      <4>1. ObserveFrom(last, phys, r) = NextStamp(last, phys)
        BY <3>2 DEF ObserveFrom
      <4>2. Flat(NextStamp(last, phys)) = FlatClock!Tick(Flat(last), Flat(At(phys, 0)))
        BY <2>0, FlatNext
      <4>3. ~(Flat(r) <= Flat(At(phys, 0)) + Flat(At(MaxDrift, MaxCounter)))
        BY <3>2, FlatAbsorbs
      <4> QED BY <4>1, <4>2, <4>3 DEF FlatClock!ObserveOne
    <3> QED BY <3>1, <3>2
  <2> QED BY <2>0, <2>1, FlatNext
<1> QED BY <1>1, ClockTypeOK, PTL
=============================================================================

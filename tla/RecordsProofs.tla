---------------------------- MODULE RecordsProofs ----------------------------
(***************************************************************************)
(* Facts about stamps, the order of records and the version vector that the *)
(* proofs about the replica and the protocol rest on.                      *)
(***************************************************************************)
EXTENDS Records, FiniteSetTheorems, WellFoundedInduction, TLAPS

(* A set of numbers with a bound has a greatest member, and Max finds it.   *)
LEMMA MaxProperties ==
  ASSUME NEW S \in SUBSET Int, S # {}, NEW b \in Int, \A x \in S : x <= b
  PROVE  Max(S) \in S /\ \A x \in S : x <= Max(S)
<1> DEFINE T == {b - x : x \in S}
           R == OpToRel(<, Nat)
<1>1. T \subseteq Nat
  <2> SUFFICES ASSUME NEW x \in S PROVE b - x \in Nat
    OBVIOUS
  <2>1. x \in Int /\ x <= b
    OBVIOUS
  <2> QED BY <2>1
<1>2. T # {}
  OBVIOUS
<1>3. PICK t \in T : \A u \in T : ~(<<u, t>> \in R)
  <2> HIDE DEF T, R
  <2>1. IsWellFoundedOn(R, Nat)
    BY NatLessThanWellFounded DEF R
  <2> QED BY <1>1, <1>2, <2>1, WFMin
<1>4. \A u \in T : ~(u < t)
  BY <1>1, <1>3 DEF OpToRel
<1>5. PICK m \in S : t = b - m
  OBVIOUS
<1>6. \A x \in S : x <= m
  <2> SUFFICES ASSUME NEW x \in S PROVE x <= m
    OBVIOUS
  <2>1. ~(b - x < b - m)
    BY <1>4, <1>5
  <2>2. x \in Int /\ m \in Int
    OBVIOUS
  <2> QED BY <2>1, <2>2
<1>7. \E y \in S : \A x \in S : y >= x
  <2>1. \A x \in S : m >= x
    BY <1>6
  <2> QED BY <2>1
<1>8. Max(S) \in S /\ \A x \in S : Max(S) >= x
  BY <1>7 DEF Max
<1> QED
  <2>1. Max(S) \in Int
    BY <1>8
  <2> QED BY <1>8, <2>1

(* The highest of some stamps, 0 when there are none.                       *)
LEMMA HighestProperties ==
  ASSUME NEW S \in SUBSET Nat, NEW b \in Nat, \A x \in S : x <= b
  PROVE  /\ Highest(S) \in Nat
         /\ Highest(S) <= b
         /\ Highest(S) \in S \/ (S = {} /\ Highest(S) = 0)
         /\ \A x \in S : x <= Highest(S)
<1>1. CASE S = {}
  BY <1>1 DEF Highest
<1>2. CASE S # {}
  <2>1. S \in SUBSET Int
    OBVIOUS
  <2>2. Max(S) \in S /\ \A x \in S : x <= Max(S)
    BY <1>2, <2>1, MaxProperties
  <2> QED BY <1>2, <2>2 DEF Highest
<1> QED BY <1>1, <1>2

(* The highest stamp is the only number that is one of the stamps, or 0     *)
(* without any, and not below any of them.                                 *)
LEMMA HighestIs ==
  ASSUME NEW S \in SUBSET Stamp, NEW n \in Nat,
         n \in S \/ (S = {} /\ n = 0), \A x \in S : x <= n
  PROVE  Highest(S) = n
<1>1. S \in SUBSET Nat /\ (\A x \in S : x <= MaxStamp) /\ MaxStamp \in Nat
  BY RecordsAssumption DEF Stamp
<1>2. /\ Highest(S) \in Nat
      /\ Highest(S) \in S \/ (S = {} /\ Highest(S) = 0)
      /\ \A x \in S : x <= Highest(S)
  BY <1>1, HighestProperties
<1> QED BY <1>2

(* Stamps may be taken in as they come: only the highest so far is needed.  *)
LEMMA HighestUnion ==
  ASSUME NEW A \in SUBSET Stamp, NEW B \in SUBSET Stamp
  PROVE  Highest({Highest(A)} \cup B) = Highest(A \cup B)
<1>1. /\ A \in SUBSET Nat /\ \A x \in A : x <= MaxStamp
      /\ B \in SUBSET Nat /\ \A x \in B : x <= MaxStamp
      /\ MaxStamp \in Nat
  BY RecordsAssumption DEF Stamp
<1>2. /\ Highest(A) \in Nat /\ Highest(A) <= MaxStamp
      /\ Highest(A) \in A \/ (A = {} /\ Highest(A) = 0)
      /\ \A x \in A : x <= Highest(A)
  BY <1>1, HighestProperties
<1> DEFINE both == {Highest(A)} \cup B
<1>3. both \in SUBSET Nat /\ both # {} /\ \A x \in both : x <= MaxStamp
  BY <1>1, <1>2
<1>4. /\ Highest(both) \in Nat /\ Highest(both) \in both
      /\ \A x \in both : x <= Highest(both)
  <2> HIDE DEF both
  <2> QED BY <1>1, <1>3, HighestProperties
<1>5. \A x \in A \cup B : x <= Highest(both)
  <2> SUFFICES ASSUME NEW x \in A \cup B PROVE x <= Highest(both)
    OBVIOUS
  <2>1. CASE x \in A
    BY <1>1, <1>2, <1>4, <2>1
  <2>2. CASE x \in B
    BY <1>4, <2>2
  <2> QED BY <2>1, <2>2
<1>6. Highest(both) \in A \cup B \/ (A \cup B = {} /\ Highest(both) = 0)
  <2>1. CASE A \cup B = {}
    BY <1>2, <1>4, <2>1
  <2>2. CASE A \cup B # {} /\ A = {}
    <3>1. PICK x \in B : x > 0
      <4>1. PICK y \in B : TRUE
        BY <2>2
      <4>2. y \in 1..MaxStamp /\ MaxStamp \in Int
        BY <4>1, RecordsAssumption DEF Stamp
      <4> QED BY <4>1, <4>2
    <3>2. Highest(both) # 0
      BY <1>1, <1>4, <1>5, <3>1
    <3> QED BY <1>2, <1>4, <2>2, <3>2
  <2>3. CASE A # {}
    BY <1>2, <1>4, <2>3
  <2> QED BY <2>1, <2>2, <2>3
<1>7. A \cup B \in SUBSET Stamp
  OBVIOUS
<1> HIDE DEF both
<1>8. Highest(A \cup B) = Highest(both)
  BY <1>4, <1>5, <1>6, <1>7, HighestIs
<1> QED BY <1>8 DEF both

(* Raising a vector for some records: no entry falls, every record is       *)
(* covered, and an entry that rose shows the stamp of one of the records.   *)
LEMMA BumpVVProperties ==
  ASSUME NEW vector \in [Device -> 0..MaxStamp], NEW recs,
         \A r \in recs : r.hlc \in Stamp
  PROVE  /\ BumpVV(vector, recs) \in [Device -> 0..MaxStamp]
         /\ \A o \in Device :
              /\ vector[o] <= BumpVV(vector, recs)[o]
              /\ \A r \in recs : r.origin = o => r.hlc <= BumpVV(vector, recs)[o]
              /\ \/ BumpVV(vector, recs)[o] = vector[o]
                 \/ \E r \in recs : r.origin = o /\ r.hlc = BumpVV(vector, recs)[o]
<1> DEFINE Stamps(o) == {vector[o]} \cup {r.hlc : r \in {x \in recs : x.origin = o}}
<1>1. ASSUME NEW o \in Device
      PROVE  /\ Highest(Stamps(o)) \in 0..MaxStamp
             /\ Highest(Stamps(o)) \in Stamps(o)
             /\ \A x \in Stamps(o) : x <= Highest(Stamps(o))
  <2>1. Stamps(o) \in SUBSET Nat /\ \A x \in Stamps(o) : x <= MaxStamp
    BY RecordsAssumption DEF Stamp
  <2>2. Stamps(o) # {}
    OBVIOUS
  <2>3. MaxStamp \in Nat
    BY RecordsAssumption
  <2> HIDE DEF Stamps
  <2> QED BY <2>1, <2>2, <2>3, HighestProperties
<1>2. \A o \in Device : BumpVV(vector, recs)[o] = Highest(Stamps(o))
  BY DEF BumpVV
<1>3. BumpVV(vector, recs) \in [Device -> 0..MaxStamp]
  BY <1>1 DEF BumpVV
<1>4. ASSUME NEW o \in Device
      PROVE  /\ vector[o] \in Stamps(o)
             /\ \A r \in recs : r.origin = o => r.hlc \in Stamps(o)
             /\ \A x \in Stamps(o) :
                  x = vector[o] \/ \E r \in recs : r.origin = o /\ r.hlc = x
  OBVIOUS
<1> HIDE DEF Stamps
<1> QED BY <1>1, <1>2, <1>3, <1>4

(* Records that are told apart by origin and stamp are fresh exactly when   *)
(* they are not held.                                                      *)
LEMMA FreshProperties ==
  ASSUME NEW held, NEW batch,
         \A r \in batch, s \in held : r.origin = s.origin /\ r.hlc = s.hlc => r = s
  PROVE  Fresh(held, batch) = batch \ held
  BY DEF Fresh
-----------------------------------------------------------------------------
(* The order of records: any records have a last one and a first one.       *)

(* The number that is in a set and not below any other is its greatest.     *)
LEMMA GreatestIs ==
  ASSUME NEW S \in SUBSET Int, NEW n \in S, \A x \in S : x <= n
  PROVE  Max(S) = n /\ Highest(S) = n
<1>1. \A x \in S : n >= x
  OBVIOUS
<1>2. \A m \in S : (\A x \in S : m >= x) => m = n
  <2> SUFFICES ASSUME NEW m \in S, \A x \in S : m >= x PROVE m = n
    OBVIOUS
  <2>1. m >= n /\ n >= m
    BY <1>1
  <2> QED BY <2>1
<1> QED BY <1>1, <1>2 DEF Max, Highest

LEMMA LastExists ==
  ASSUME NEW S, S # {}, \A r \in S : r.hlc \in Stamp /\ r.origin \in Device
  PROVE  \E t \in S : \A r \in S : ~IncomingWins(r, t)
<1>0. \A r \in S : /\ r.hlc \in Int /\ r.hlc <= MaxStamp
                    /\ r.origin \in Int /\ r.origin <= NDevices
  <2> SUFFICES ASSUME NEW r \in S
               PROVE  r.hlc \in Int /\ r.hlc <= MaxStamp /\ r.origin \in Int /\ r.origin <= NDevices
    OBVIOUS
  <2>1. r.hlc \in 1..MaxStamp /\ r.origin \in 1..NDevices
    BY DEF Stamp, Device
  <2> QED BY <2>1, RecordsAssumption
<1> DEFINE H == {r.hlc : r \in S}
<1>1. H \in SUBSET Int /\ H # {} /\ \A x \in H : x <= MaxStamp
  BY <1>0
<1>2. Max(H) \in H /\ \A x \in H : x <= Max(H)
  <2> HIDE DEF H
  <2> QED BY <1>1, RecordsAssumption, MaxProperties
<1> DEFINE B == {r \in S : r.hlc = Max(H)}
           O == {r.origin : r \in B}
<1>3. O \in SUBSET Int /\ O # {} /\ \A x \in O : x <= NDevices
  <2>1. B # {} /\ B \subseteq S
    BY <1>2
  <2> HIDE DEF H, B
  <2> QED BY <1>0, <2>1
<1>4. Max(O) \in O /\ \A x \in O : x <= Max(O)
  <2>1. NDevices \in Int
    BY RecordsAssumption
  <2> HIDE DEF H, O
  <2> QED BY <1>3, <2>1, MaxProperties
<1>5. PICK t \in S : t.hlc = Max(H) /\ t.origin = Max(O)
  BY <1>4
<1>6. ASSUME NEW r \in S PROVE ~IncomingWins(r, t)
  <2>1. r.hlc <= t.hlc
    BY <1>2, <1>5
  <2>2. r.hlc = t.hlc => r.origin <= t.origin
    BY <1>4, <1>5
  <2> QED BY <1>0, <2>1, <2>2 DEF IncomingWins
<1> QED BY <1>6

LEMMA FirstExists ==
  ASSUME NEW S, S # {}, \A r \in S : r.hlc \in Stamp /\ r.origin \in Device
  PROVE  \E t \in S : \A r \in S : ~IncomingWins(t, r)
<1>0. \A r \in S : /\ r.hlc \in Int /\ 0 - r.hlc <= 0
                    /\ r.origin \in Int /\ 0 - r.origin <= 0
  <2> SUFFICES ASSUME NEW r \in S
               PROVE  r.hlc \in Int /\ 0 - r.hlc <= 0 /\ r.origin \in Int /\ 0 - r.origin <= 0
    OBVIOUS
  <2>1. r.hlc \in 1..MaxStamp /\ r.origin \in 1..NDevices
    BY DEF Stamp, Device
  <2> QED BY <2>1, RecordsAssumption
<1> DEFINE H == {0 - r.hlc : r \in S}
<1>1. H \in SUBSET Int /\ H # {} /\ \A x \in H : x <= 0
  BY <1>0
<1>2. Max(H) \in H /\ \A x \in H : x <= Max(H)
  <2>1. 0 \in Int
    OBVIOUS
  <2> HIDE DEF H
  <2> QED BY <1>1, <2>1, MaxProperties
<1> DEFINE B == {r \in S : 0 - r.hlc = Max(H)}
           O == {0 - r.origin : r \in B}
<1>3. O \in SUBSET Int /\ O # {} /\ \A x \in O : x <= 0
  <2>1. B # {} /\ B \subseteq S
    BY <1>2
  <2> HIDE DEF H, B
  <2> QED BY <1>0, <2>1
<1>4. Max(O) \in O /\ \A x \in O : x <= Max(O)
  <2>1. 0 \in Int
    OBVIOUS
  <2> HIDE DEF H, O
  <2> QED BY <1>3, <2>1, MaxProperties
<1>5. PICK t \in S : 0 - t.hlc = Max(H) /\ 0 - t.origin = Max(O)
  BY <1>4
<1>6. ASSUME NEW r \in S PROVE ~IncomingWins(t, r)
  <2>1. 0 - r.hlc <= 0 - t.hlc
    BY <1>2, <1>5
  <2>2. r.hlc = t.hlc => 0 - r.origin <= 0 - t.origin
    BY <1>4, <1>5
  <2> QED BY <1>0, <2>1, <2>2 DEF IncomingWins
<1> QED BY <1>6
-----------------------------------------------------------------------------
(* Vectors.                                                                *)

(* The entry of a raised vector is the only number that is the old entry or *)
(* one of the stamps and not below any of them.                            *)
LEMMA BumpVVIs ==
  ASSUME NEW vector \in [Device -> 0..MaxStamp], NEW recs, \A r \in recs : r.hlc \in Stamp,
         NEW o \in Device, NEW n,
         n = vector[o] \/ \E r \in recs : r.origin = o /\ r.hlc = n,
         vector[o] <= n, \A r \in recs : r.origin = o => r.hlc <= n
  PROVE  BumpVV(vector, recs)[o] = n
<1> DEFINE S == {vector[o]} \cup {r.hlc : r \in {x \in recs : x.origin = o}}
<1>1. S \in SUBSET Int
  BY RecordsAssumption DEF Stamp
<1>2. n \in S /\ \A x \in S : x <= n
  OBVIOUS
<1>3. BumpVV(vector, recs)[o] = Highest(S)
  BY DEF BumpVV
<1> HIDE DEF S
<1> QED BY <1>1, <1>2, <1>3, GreatestIs

(* Raising a vector in two goes is raising it in one.                       *)
LEMMA BumpVVTwice ==
  ASSUME NEW vector \in [Device -> 0..MaxStamp], NEW A, NEW B,
         \A r \in A \cup B : r.hlc \in Stamp
  PROVE  BumpVV(BumpVV(vector, A), B) = BumpVV(vector, A \cup B)
<1> DEFINE v == BumpVV(vector, A)
           w == BumpVV(v, B)
<1>1. /\ v \in [Device -> 0..MaxStamp]
      /\ \A o \in Device :
           /\ vector[o] <= v[o]
           /\ \A r \in A : r.origin = o => r.hlc <= v[o]
           /\ v[o] = vector[o] \/ \E r \in A : r.origin = o /\ r.hlc = v[o]
  BY BumpVVProperties
<1> HIDE DEF v
<1>2. /\ w \in [Device -> 0..MaxStamp]
      /\ \A o \in Device :
           /\ v[o] <= w[o]
           /\ \A r \in B : r.origin = o => r.hlc <= w[o]
           /\ w[o] = v[o] \/ \E r \in B : r.origin = o /\ r.hlc = w[o]
  BY <1>1, BumpVVProperties
<1> HIDE DEF w
<1>3. ASSUME NEW o \in Device PROVE BumpVV(vector, A \cup B)[o] = w[o]
  <2>1. /\ vector[o] \in Int /\ v[o] \in Int /\ w[o] \in Int
        /\ \A r \in A \cup B : r.hlc \in Int
    BY <1>1, <1>2, RecordsAssumption DEF Stamp
  <2>2. vector[o] <= w[o]
    BY <1>1, <1>2, <2>1
  <2>3. \A r \in A \cup B : r.origin = o => r.hlc <= w[o]
    BY <1>1, <1>2, <2>1
  <2>4. w[o] = vector[o] \/ \E r \in A \cup B : r.origin = o /\ r.hlc = w[o]
    BY <1>1, <1>2
  <2> QED BY <2>2, <2>3, <2>4, BumpVVIs
<1>4. BumpVV(vector, A \cup B) \in [Device -> 0..MaxStamp]
  BY BumpVVProperties
<1>5. BumpVV(vector, A \cup B) = w
  <2> DEFINE u == BumpVV(vector, A \cup B)
  <2>1. /\ u \in [Device -> 0..MaxStamp] /\ w \in [Device -> 0..MaxStamp]
        /\ \A o \in Device : u[o] = w[o]
    BY <1>2, <1>3, <1>4
  <2> HIDE DEF u
  <2>2. u = w
    BY <2>1
  <2> QED BY <2>2 DEF u
<1> QED BY <1>5 DEF w, v
=============================================================================

-------------------------- MODULE AntiEntropyProofs --------------------------
(***************************************************************************)
(* Catching up by version vector leaves no gaps, for any number of devices, *)
(* any page size, any links and any losses.                                *)
(*                                                                         *)
(* NothingSkipped alone is not inductive.  A page that is stored must join   *)
(* up with what the asker holds by then (AnswersFit), which holds when the  *)
(* page is cut because the server skips nothing and the request's vector is *)
(* not above the asker's (RequestsBehind), and goes on holding because      *)
(* vectors only grow and new records are stamped above everything held      *)
(* anywhere (VectorHeld).  The second half is about live pushes.           *)
(***************************************************************************)
EXTENDS LivePush, RecordsProofs

AuthorHolds == \A d \in Device : \A r \in log[d] : r \in log[r.origin]

VectorHeld == \A d, o \in Device :
  vv[d][o] = 0 \/ \E r \in OwnRecords(o) : r.hlc = vv[d][o]

RequestsBehind == \A m \in net : m.type = "Sync" =>
  \A o \in Device : m.vv[o] <= vv[m.from][o]

AnswersHeld == \A m \in net : m.type = "Changes" => m.changes \subseteq log[m.from]

PullInv == /\ TypeOK /\ AuthorHolds /\ VectorHeld /\ NothingSkipped
           /\ RequestsBehind /\ AnswersHeld /\ AnswersFit
-----------------------------------------------------------------------------
(* Records and messages.                                                   *)

LEMMA ChangeProperties ==
  /\ IsFiniteSet(Change)
  /\ \A r \in Change : r.origin \in Device /\ r.hlc \in Stamp /\ r.hlc \in Nat /\ r.hlc > 0
  /\ \A r, s \in Change : r.origin = s.origin /\ r.hlc = s.hlc => r = s
<1>1. IsFiniteSet(Device) /\ IsFiniteSet(Stamp)
  BY FS_Interval, RecordsAssumption DEF Device, Stamp
<1>2. IsFiniteSet(Device \X Stamp)
  BY <1>1, FS_Product
<1>3. IsFiniteSet({[origin |-> p[1], hlc |-> p[2]] : p \in Device \X Stamp})
  <2> DEFINE f == [p \in Device \X Stamp |-> [origin |-> p[1], hlc |-> p[2]]]
             T == {[origin |-> p[1], hlc |-> p[2]] : p \in Device \X Stamp}
  <2>1. f \in Surjection(Device \X Stamp, T)
    BY DEF Surjection
  <2> HIDE DEF f, T
  <2>2. IsFiniteSet(T)
    BY <1>2, <2>1, FS_Surjection
  <2> QED BY <2>2 DEF T
<1>4. Change \subseteq {[origin |-> p[1], hlc |-> p[2]] : p \in Device \X Stamp}
  <2> SUFFICES ASSUME NEW r \in Change
               PROVE  \E p \in Device \X Stamp : r = [origin |-> p[1], hlc |-> p[2]]
    OBVIOUS
  <2>1. r = [origin |-> <<r.origin, r.hlc>>[1], hlc |-> <<r.origin, r.hlc>>[2]]
    BY DEF Change
  <2>2. <<r.origin, r.hlc>> \in Device \X Stamp
    BY DEF Change
  <2> QED BY <2>1, <2>2
<1>5. IsFiniteSet(Change)
  BY <1>3, <1>4, FS_Subset
<1> QED BY <1>5, RecordsAssumption DEF Change, Stamp

(* What a message's type says of its fields.                               *)
LEMMA MessageTypes ==
  ASSUME NEW m \in Request \cup Answer
  PROVE  /\ m.from \in Device /\ m.to \in Device
         /\ m.type = "Sync" => m \in Request /\ m.vv \in Vector
         /\ m.type = "Changes" => m \in Answer /\ m.changes \subseteq Change
         /\ m.type \in {"Sync", "Changes"}
  BY DEF Request, Answer

(* A page that holds a record holds the earlier ones of the same author.    *)
LEMMA PageIsPrefix ==
  ASSUME NEW recs \in SUBSET Change, NEW limit \in Nat,
         NEW r \in Page(recs, limit), NEW s \in recs,
         s.origin = r.origin, s.hlc < r.hlc
  PROVE  s \in Page(recs, limit)
<1> DEFINE Before(x) == {y \in recs : IncomingWins(x, y)}
<1>1. r \in recs /\ Cardinality(Before(r)) < limit
  BY DEF Page
<1>2. Before(s) \subseteq Before(r)
  BY <1>1, ChangeProperties DEF IncomingWins
<1>3. IsFiniteSet(Before(r))
  BY ChangeProperties, FS_Subset
<1>4. /\ IsFiniteSet(Before(s))
      /\ Cardinality(Before(s)) <= Cardinality(Before(r))
  <2> HIDE DEF Before
  <2> QED BY <1>2, <1>3, FS_Subset
<1>5. Cardinality(Before(s)) \in Nat /\ Cardinality(Before(r)) \in Nat
  <2> HIDE DEF Before
  <2> QED BY <1>3, <1>4, FS_CardinalityType
<1>6. Cardinality(Before(s)) < limit
  <2> HIDE DEF Before
  <2> QED BY <1>1, <1>4, <1>5
<1> QED BY <1>6 DEF Page
-----------------------------------------------------------------------------
LEMMA PullInvInit == Init => PullInv
  BY RecordsAssumption, AntiEntropyAssumption
     DEF Init, PullInv, TypeOK, AuthorHolds, VectorHeld, NothingSkipped, RequestsBehind,
         AnswersHeld, AnswersFit, OwnRecords, Vector

(* Steps that store nothing: what they send is a request with the sender's  *)
(* vector, and everything else in the network was there before.            *)
LEMMA PullInvSends ==
  ASSUME PullInv, UNCHANGED <<log, vv>>,
         authed' \in [Device -> SUBSET Device], losses' \in 0..MaxLosses,
         readonly' \in SUBSET Device, barred' \in [Device -> SUBSET Device],
         \A m \in net' : m \in net \/ \E d, p \in Device : m = Ask(d, p)
  PROVE  PullInv'
<1> USE DEF PullInv
<1>1. ASSUME NEW d \in Device, NEW p \in Device
      PROVE  /\ Ask(d, p) \in Request /\ Ask(d, p).type = "Sync"
             /\ Ask(d, p).from = d /\ Ask(d, p).vv = vv[d]
  BY DEF Ask, Request, TypeOK, Vector
<1>2. TypeOK'
  BY <1>1 DEF TypeOK
<1>3. AuthorHolds' /\ VectorHeld' /\ NothingSkipped'
  BY DEF AuthorHolds, VectorHeld, NothingSkipped, OwnRecords
<1>4. RequestsBehind'
  <2>1. \A d, o \in Device : vv[d][o] <= vv[d][o]
    BY DEF TypeOK, Vector
  <2> QED BY <1>1, <2>1 DEF RequestsBehind
<1>5. AnswersHeld' /\ AnswersFit'
  BY <1>1 DEF AnswersHeld, AnswersFit, OwnRecords
<1> QED BY <1>2, <1>3, <1>4, <1>5

LEMMA PullInvAuthor ==
  ASSUME PullInv, NEW d \in Authors, Author(d)
  PROVE  PullInv'
<1> USE DEF PullInv
<1>1. d \in Device
  BY AntiEntropyAssumption
<1>2. PICK stamps \in SUBSET Stamp \ {{}} :
        LET recs == [origin : {d}, hlc : stamps]
        IN  /\ \A r \in recs, s \in OwnRecords(d) : s.hlc < r.hlc
            /\ log' = [log EXCEPT ![d] = @ \cup recs]
            /\ vv'  = [vv  EXCEPT ![d] = BumpVV(@, recs)]
            /\ UNCHANGED <<authed, net, losses, readonly, barred>>
  BY DEF Author, roles
<1> DEFINE recs == [origin : {d}, hlc : stamps]
<1>3. recs \subseteq Change /\ \A r \in recs : r.origin = d /\ r.hlc \in Stamp
  BY <1>1 DEF Change
<1>4. \A r \in recs, s \in OwnRecords(d) : s.hlc < r.hlc
  BY <1>2
<1>5. log' = [log EXCEPT ![d] = @ \cup recs] /\ vv' = [vv EXCEPT ![d] = BumpVV(@, recs)]
      /\ UNCHANGED <<authed, net, losses, readonly, barred>>
  BY <1>2
<1> HIDE DEF recs
<1>6. vv[d] \in [Device -> 0..MaxStamp]
  BY <1>1 DEF TypeOK, Vector
<1>7. /\ vv'[d] \in [Device -> 0..MaxStamp]
      /\ \A o \in Device :
           /\ vv[d][o] <= vv'[d][o]
           /\ \A r \in recs : r.origin = o => r.hlc <= vv'[d][o]
           /\ vv'[d][o] = vv[d][o] \/ \E r \in recs : r.origin = o /\ r.hlc = vv'[d][o]
  <2>1. vv'[d] = BumpVV(vv[d], recs)
    BY <1>1, <1>5 DEF TypeOK
  <2> QED BY <1>3, <1>6, <2>1, BumpVVProperties
<1>8. /\ \A e \in Device \ {d} : log'[e] = log[e] /\ vv'[e] = vv[e]
      /\ log'[d] = log[d] \cup recs
  BY <1>1, <1>5 DEF TypeOK
<1>9. /\ \A o \in Device \ {d} : OwnRecords(o)' = OwnRecords(o)
      /\ OwnRecords(d)' = OwnRecords(d) \cup recs
  BY <1>1, <1>3, <1>8 DEF OwnRecords
<1>10. \A e \in Device, r \in recs : vv[e][d] < r.hlc
  <2> SUFFICES ASSUME NEW e \in Device, NEW r \in recs PROVE vv[e][d] < r.hlc
    OBVIOUS
  <2>1. vv[e][d] = 0 \/ \E s \in OwnRecords(d) : s.hlc = vv[e][d]
    BY <1>1 DEF VectorHeld
  <2>2. r.hlc > 0
    BY <1>3, ChangeProperties
  <2> QED BY <1>4, <2>1, <2>2
<1>11. TypeOK'
  BY <1>1, <1>3, <1>5, <1>7 DEF TypeOK, Vector
<1>12. AuthorHolds'
  BY <1>1, <1>3, <1>8, ChangeProperties DEF AuthorHolds, TypeOK
<1>13. VectorHeld'
  BY <1>1, <1>3, <1>7, <1>8, <1>9 DEF VectorHeld
<1>14. NothingSkipped'
  <2> SUFFICES ASSUME NEW e \in Device, NEW o \in Device
               PROVE  {r \in log'[e] : r.origin = o} = {r \in OwnRecords(o)' : r.hlc <= vv'[e][o]}
    BY DEF NothingSkipped
  <2>1. {r \in log[e] : r.origin = o} = {r \in OwnRecords(o) : r.hlc <= vv[e][o]}
    BY DEF NothingSkipped
  <2>2. CASE o # d /\ e # d
    BY <1>8, <1>9, <2>1, <2>2
  <2>3. CASE o # d /\ e = d
    <3>1. vv'[e][o] = vv[e][o]
      BY <1>3, <1>7, <2>3
    <3>2. {r \in log'[e] : r.origin = o} = {r \in log[e] : r.origin = o}
      BY <1>3, <1>8, <2>3
    <3> QED BY <1>9, <2>1, <2>3, <3>1, <3>2
  <2>4. CASE o = d /\ e # d
    <3>1. \A r \in recs : ~(r.hlc <= vv[e][o])
      <4> SUFFICES ASSUME NEW r \in recs PROVE ~(r.hlc <= vv[e][o])
        OBVIOUS
      <4>1. vv[e][o] \in Nat /\ r.hlc \in Nat /\ vv[e][o] < r.hlc
        BY <1>3, <1>10, <2>4, ChangeProperties, RecordsAssumption DEF TypeOK, Vector
      <4> QED BY <4>1
    <3> QED BY <1>8, <1>9, <2>1, <2>4, <3>1
  <2>5. CASE o = d /\ e = d
    <3>1. \A r \in OwnRecords(d)' : r.hlc <= vv'[d][d]
      <4> SUFFICES ASSUME NEW r \in OwnRecords(d)' PROVE r.hlc <= vv'[d][d]
        OBVIOUS
      <4>1. CASE r \in recs
        BY <1>1, <1>3, <1>7, <4>1
      <4>2. CASE r \in OwnRecords(d)
        <5>1. r \in Change /\ r.hlc <= vv[d][d]
          BY <1>1, <2>1, <2>5, <4>2 DEF OwnRecords, TypeOK
        <5>2. r.hlc \in Nat /\ vv[d][d] \in Nat /\ vv'[d][d] \in Nat /\ vv[d][d] <= vv'[d][d]
          BY <1>1, <1>6, <1>7, <5>1, ChangeProperties, RecordsAssumption
        <5> QED BY <5>1, <5>2
      <4> QED BY <1>9, <4>1, <4>2
    <3> QED BY <2>5, <3>1 DEF OwnRecords
  <2> QED BY <2>2, <2>3, <2>4, <2>5
<1>15. RequestsBehind'
  <2> SUFFICES ASSUME NEW m \in net, m.type = "Sync", NEW o \in Device
               PROVE  m.vv[o] <= vv'[m.from][o]
    BY <1>5 DEF RequestsBehind
  <2>1. m.from \in Device /\ m.vv \in Vector
    BY MessageTypes DEF TypeOK
  <2>2. m.vv[o] <= vv[m.from][o]
    BY DEF RequestsBehind
  <2>3. m.vv[o] \in Nat /\ vv[m.from][o] \in Nat
    BY <2>1, RecordsAssumption DEF TypeOK, Vector
  <2>4. vv'[m.from][o] \in Nat /\ vv[m.from][o] <= vv'[m.from][o]
    BY <1>7, <1>8, <2>1, <2>3, RecordsAssumption
  <2> QED BY <2>2, <2>3, <2>4
<1>16. AnswersHeld'
  BY <1>5, <1>8, MessageTypes DEF AnswersHeld, TypeOK
<1>17. AnswersFit'
  <2> SUFFICES ASSUME NEW m \in net, m.type = "Changes", NEW r \in m.changes,
                      NEW s \in OwnRecords(r.origin)', s.hlc < r.hlc
               PROVE  s \in m.changes \/ s.hlc <= vv'[m.to][r.origin]
    BY <1>5 DEF AnswersFit
  <2>1. m.from \in Device /\ m.to \in Device /\ m.changes \subseteq Change
        /\ r \in Change /\ r.origin \in Device /\ r.hlc \in Nat
    BY MessageTypes, ChangeProperties DEF TypeOK
  <2>2. r \in OwnRecords(r.origin)
    BY <2>1 DEF AnswersHeld, AuthorHolds, OwnRecords
  <2>3. s \in OwnRecords(r.origin)
    <3>1. ASSUME s \in recs, r.origin = d PROVE FALSE
      <4>1. r.hlc < s.hlc /\ s.hlc \in Nat
        BY <1>3, <1>4, <2>2, <3>1, ChangeProperties
      <4> QED BY <2>1, <4>1
    <3> QED BY <1>9, <2>1, <3>1
  <2>4. s \in m.changes \/ s.hlc <= vv[m.to][r.origin]
    BY <2>3 DEF AnswersFit
  <2>5. s.hlc \in Nat /\ vv[m.to][r.origin] \in Nat
    BY <2>1, <2>3, ChangeProperties, RecordsAssumption DEF OwnRecords, TypeOK, Vector
  <2>6. vv'[m.to][r.origin] \in Nat /\ vv[m.to][r.origin] <= vv'[m.to][r.origin]
    BY <1>7, <1>8, <2>1, <2>5, RecordsAssumption
  <2> QED BY <2>4, <2>5, <2>6
<1> QED BY <1>11, <1>12, <1>13, <1>14, <1>15, <1>16, <1>17

LEMMA PullInvServe ==
  ASSUME PullInv, NEW m \in net, Serve(m)
  PROVE  PullInv'
<1> USE DEF PullInv
<1> DEFINE page == ChangesSince(log[m.to], m.vv, Limit)
           answer == [type |-> "Changes", from |-> m.to, to |-> m.from,
                      changes |-> page, more |-> Cardinality(page) = Limit]
<1>1. /\ m.type = "Sync" /\ net' = (net \ {m}) \cup {answer}
      /\ UNCHANGED <<log, vv, authed, losses, readonly, barred>>
  BY DEF Serve, roles
<1>2. m.from \in Device /\ m.to \in Device /\ m.vv \in Vector
  BY <1>1, MessageTypes DEF TypeOK
<1>3. log[m.to] \subseteq Change
  BY <1>2 DEF TypeOK
<1>4. page \subseteq log[m.to]
  BY DEF ChangesSince, Page
<1>5. ASSUME NEW r \in page, NEW s \in OwnRecords(r.origin), s.hlc < r.hlc
      PROVE  s \in page \/ s.hlc <= vv[m.from][r.origin]
  <2> DEFINE o == r.origin
  <2>1. /\ r \in Change /\ o \in Device /\ r.hlc \in Nat
        /\ s \in Change /\ s.origin = o /\ s.hlc \in Nat
    BY <1>3, <1>4, ChangeProperties DEF OwnRecords, TypeOK
  <2>2. s \in log[m.to]
    <3>1. {x \in log[m.to] : x.origin = o} = {x \in OwnRecords(o) : x.hlc <= vv[m.to][o]}
      BY <1>2, <2>1 DEF NothingSkipped
    <3>2. r.hlc <= vv[m.to][o]
      BY <1>4, <3>1
    <3>3. vv[m.to][o] \in Nat
      BY <1>2, <2>1, RecordsAssumption DEF TypeOK, Vector
    <3>4. s.hlc <= vv[m.to][o]
      BY <1>5, <2>1, <3>2, <3>3
    <3> QED BY <1>5, <3>1, <3>4
  <2>3. CASE s.hlc > m.vv[o]
    <3> DEFINE missing == {x \in log[m.to] : x.hlc > m.vv[x.origin]}
    <3>1. r \in Page(missing, Limit) /\ s \in missing
      BY <2>1, <2>2, <2>3 DEF ChangesSince
    <3>2. missing \in SUBSET Change /\ Limit \in Nat
      BY <1>3, AntiEntropyAssumption
    <3> HIDE DEF missing
    <3>3. s \in Page(missing, Limit)
      BY <1>5, <2>1, <3>1, <3>2, PageIsPrefix
    <3> QED BY <3>3 DEF ChangesSince, missing
  <2>4. CASE ~(s.hlc > m.vv[o])
    <3>1. m.vv[o] <= vv[m.from][o]
      BY <1>1, <2>1 DEF RequestsBehind
    <3>2. m.vv[o] \in Nat /\ vv[m.from][o] \in Nat
      BY <1>2, <2>1, RecordsAssumption DEF TypeOK, Vector
    <3> QED BY <2>1, <2>4, <3>1, <3>2
  <2> QED BY <2>3, <2>4
<1> HIDE DEF page
<1>6. answer \in Answer /\ answer.type = "Changes"
  BY <1>2, <1>3, <1>4 DEF Answer
<1>7. TypeOK'
  BY <1>1, <1>6 DEF TypeOK
<1>8. AuthorHolds' /\ VectorHeld' /\ NothingSkipped'
  BY <1>1 DEF AuthorHolds, VectorHeld, NothingSkipped, OwnRecords
<1>9. RequestsBehind'
  BY <1>1, <1>6 DEF RequestsBehind
<1>10. AnswersHeld'
  BY <1>1, <1>4 DEF AnswersHeld
<1>11. AnswersFit'
  <2>1. \A r \in answer.changes : \A s \in OwnRecords(r.origin) :
          s.hlc < r.hlc => s \in answer.changes \/ s.hlc <= vv[answer.to][r.origin]
    BY <1>5
  <2> HIDE DEF answer
  <2> QED BY <1>1, <2>1 DEF AnswersFit, OwnRecords
<1> QED BY <1>7, <1>8, <1>9, <1>10, <1>11

(* Storing a page that fits leaves no gap.                                  *)
LEMMA PullInvReceive ==
  ASSUME PullInv, NEW m \in net, Receive(m)
  PROVE  PullInv'
<1> USE DEF PullInv
<1> DEFINE d == m.to
           fresh == Fresh(log[d], Kept(d, m.changes))
<1>1. /\ m.type = "Changes"
      /\ log' = [log EXCEPT ![d] = @ \cup fresh]
      /\ vv' = [vv EXCEPT ![d] = BumpVV(@, fresh)]
      /\ UNCHANGED <<authed, losses, readonly, barred>>
      /\ net' = (net \ {m}) \cup
                (IF m.more /\ m.from \in authed[m.to]
                   THEN {[type |-> "Sync", from |-> m.to, to |-> m.from, vv |-> vv'[m.to]]}
                   ELSE {})
  BY DEF Receive, Store, roles
<1>2. d \in Device /\ m.from \in Device /\ m.changes \subseteq Change
  BY <1>1, MessageTypes DEF TypeOK
<1>3. log[d] \subseteq Change /\ vv[d] \in [Device -> 0..MaxStamp]
  BY <1>2 DEF TypeOK, Vector
<1>4. /\ fresh \subseteq m.changes
      /\ fresh = {r \in m.changes : r.origin \notin barred[d]} \ log[d]
  BY <1>2, <1>3, ChangeProperties, FreshProperties DEF Kept
<1> HIDE DEF fresh
<1>5. \A r \in fresh : r \in Change /\ r.hlc \in Stamp /\ r.origin \in Device
  BY <1>2, <1>4, ChangeProperties
<1>6. /\ vv'[d] \in [Device -> 0..MaxStamp]
      /\ \A o \in Device :
           /\ vv[d][o] <= vv'[d][o]
           /\ \A r \in fresh : r.origin = o => r.hlc <= vv'[d][o]
           /\ vv'[d][o] = vv[d][o] \/ \E r \in fresh : r.origin = o /\ r.hlc = vv'[d][o]
  <2>1. vv'[d] = BumpVV(vv[d], fresh)
    BY <1>1, <1>2 DEF TypeOK
  <2> QED BY <1>3, <1>5, <2>1, BumpVVProperties
<1>7. /\ \A e \in Device \ {d} : log'[e] = log[e] /\ vv'[e] = vv[e]
      /\ log'[d] = log[d] \cup fresh
  BY <1>1, <1>2 DEF TypeOK
<1>8. \A r \in fresh : r \in log[r.origin]
  BY <1>1, <1>2, <1>4 DEF AnswersHeld, AuthorHolds
<1>9. \A o \in Device : OwnRecords(o)' = OwnRecords(o)
  BY <1>2, <1>7, <1>8 DEF OwnRecords
<1>10. TypeOK'
  <2>1. net' \in SUBSET (Request \cup Answer)
    BY <1>1, <1>2, <1>6 DEF TypeOK, Request, Vector
  <2>2. log' \in [Device -> SUBSET Change] /\ vv' \in [Device -> Vector]
    BY <1>1, <1>2, <1>3, <1>5, <1>6 DEF TypeOK, Vector
  <2> QED BY <1>1, <2>1, <2>2 DEF TypeOK
<1>11. \A e, o \in Device :
         vv[e][o] \in Nat /\ vv'[e][o] \in Nat /\ vv[e][o] <= vv'[e][o]
  <2>1. \A e, o \in Device : vv[e][o] \in Nat /\ vv'[e][o] \in Nat
    BY <1>10, RecordsAssumption DEF TypeOK, Vector
  <2> QED BY <1>2, <1>6, <1>7, <2>1
<1>12. AuthorHolds'
  BY <1>2, <1>5, <1>7, <1>8, ChangeProperties DEF AuthorHolds, TypeOK
<1>13. VectorHeld'
  <2> SUFFICES ASSUME NEW e \in Device, NEW o \in Device
               PROVE  vv'[e][o] = 0 \/ \E r \in OwnRecords(o) : r.hlc = vv'[e][o]
    BY <1>9 DEF VectorHeld
  <2>1. CASE vv'[e][o] = vv[e][o]
    BY <2>1 DEF VectorHeld
  <2>2. CASE vv'[e][o] # vv[e][o]
    BY <1>6, <1>7, <1>8, <2>2 DEF OwnRecords
  <2> QED BY <2>1, <2>2
<1>14. NothingSkipped'
  <2> SUFFICES ASSUME NEW e \in Device, NEW o \in Device
               PROVE  {r \in log'[e] : r.origin = o} = {r \in OwnRecords(o) : r.hlc <= vv'[e][o]}
    BY <1>9 DEF NothingSkipped
  <2>1. {r \in log[e] : r.origin = o} = {r \in OwnRecords(o) : r.hlc <= vv[e][o]}
    BY DEF NothingSkipped
  <2>2. CASE e # d
    BY <1>7, <2>1, <2>2
  <2>3. CASE e = d
    <3>1. ASSUME NEW r \in log'[d], r.origin = o
          PROVE  r \in OwnRecords(o) /\ r.hlc <= vv'[d][o]
      <4>1. CASE r \in fresh
        BY <1>6, <1>8, <3>1, <4>1 DEF OwnRecords
      <4>2. CASE r \in log[d]
        <5>1. r \in OwnRecords(o) /\ r.hlc <= vv[d][o] /\ r.hlc \in Nat
          BY <1>3, <2>1, <2>3, <3>1, <4>2, ChangeProperties
        <5> QED BY <1>2, <1>11, <5>1
      <4> QED BY <1>7, <4>1, <4>2
    <3>2. ASSUME NEW r \in OwnRecords(o), r.hlc <= vv'[d][o]
          PROVE  r \in log'[d] /\ r.origin = o
      <4>0. r \in Change /\ r.origin = o /\ r.hlc \in Nat
        BY ChangeProperties DEF OwnRecords, TypeOK
      <4>1. CASE r.hlc <= vv[d][o]
        BY <1>7, <2>1, <2>3, <4>0, <4>1
      <4>2. CASE ~(r.hlc <= vv[d][o])
        <5>1. PICK q \in fresh : q.origin = o /\ q.hlc = vv'[d][o]
          BY <1>6, <3>2, <4>2
        <5>2. CASE r.hlc = q.hlc
          BY <1>5, <1>7, <4>0, <5>1, <5>2, ChangeProperties
        <5>3. CASE r.hlc # q.hlc
          <6>1. r.hlc < q.hlc
            BY <1>2, <1>11, <3>2, <4>0, <5>1, <5>3
          <6>2. q \in m.changes
            BY <1>4
          <6>3. r \in m.changes \/ r.hlc <= vv[d][o]
            BY <1>1, <5>1, <6>1, <6>2 DEF AnswersFit
          <6>4. q.origin \notin barred[d]
            BY <1>4
          <6> QED BY <1>4, <1>7, <4>0, <4>2, <5>1, <6>3, <6>4
        <5> QED BY <5>2, <5>3
      <4> QED BY <4>1, <4>2
    <3> QED BY <2>3, <3>1, <3>2
  <2> QED BY <2>2, <2>3
<1>15. RequestsBehind'
  <2> SUFFICES ASSUME NEW n \in net', n.type = "Sync", NEW o \in Device
               PROVE  n.vv[o] <= vv'[n.from][o]
    BY DEF RequestsBehind
  <2>1. CASE n \in net
    <3>1. n.from \in Device /\ n.vv \in Vector
      BY <2>1, MessageTypes DEF TypeOK
    <3>2. n.vv[o] \in Nat /\ n.vv[o] <= vv[n.from][o]
      BY <2>1, <3>1, RecordsAssumption DEF RequestsBehind, Vector
    <3> QED BY <1>11, <3>1, <3>2
  <2>2. CASE n \notin net
    <3>1. n.from = d /\ n.vv = vv'[d]
      BY <1>1, <2>2
    <3> QED BY <1>2, <1>11, <3>1
  <2> QED BY <2>1, <2>2
<1>16. \A n \in net' : n.type = "Changes" => n \in net
  BY <1>1
<1>17. \A e \in Device : log[e] \subseteq log'[e]
  BY <1>2, <1>7
<1>18. AnswersHeld'
  BY <1>16, <1>17, MessageTypes DEF AnswersHeld, TypeOK
<1>19. AnswersFit'
  <2> SUFFICES ASSUME NEW n \in net, n.type = "Changes", NEW r \in n.changes,
                      NEW s \in OwnRecords(r.origin)', s.hlc < r.hlc
               PROVE  s \in n.changes \/ s.hlc <= vv'[n.to][r.origin]
    BY <1>16 DEF AnswersFit
  <2>1. n.to \in Device /\ r \in Change /\ r.origin \in Device
    BY MessageTypes, ChangeProperties DEF TypeOK
  <2>2. s \in OwnRecords(r.origin)
    BY <1>9, <2>1
  <2>3. s.hlc \in Nat
    BY <2>1, <2>2, ChangeProperties DEF OwnRecords, TypeOK
  <2>4. s \in n.changes \/ s.hlc <= vv[n.to][r.origin]
    BY <2>2 DEF AnswersFit
  <2> QED BY <1>11, <2>1, <2>3, <2>4
<1> QED BY <1>10, <1>12, <1>13, <1>14, <1>15, <1>18, <1>19
-----------------------------------------------------------------------------
LEMMA PullInvNext == PullInv /\ [Next]_vars => PullInv'
<1> SUFFICES ASSUME PullInv, [Next]_vars PROVE PullInv'
  OBVIOUS
<1>0. /\ authed \in [Device -> SUBSET Device] /\ losses \in 0..MaxLosses
      /\ readonly \in SUBSET Device /\ barred \in [Device -> SUBSET Device]
  BY DEF PullInv, TypeOK
<1>1. CASE UNCHANGED vars
  <2>1. UNCHANGED <<log, vv, authed, net, losses, readonly, barred>>
    BY <1>1 DEF vars
  <2> QED BY <1>0, <2>1, PullInvSends
<1>2. ASSUME NEW d \in Authors, Author(d) PROVE PullInv'
  BY <1>2, PullInvAuthor
<1>3. ASSUME NEW d \in Device, RequestSyncFromAll(d) PROVE PullInv'
  <2>1. \A p \in authed[d] : p \in Device
    BY <1>0
  <2>2. \A m \in net' : m \in net \/ \E e, p \in Device : m = Ask(e, p)
    BY <1>3, <2>1 DEF RequestSyncFromAll, Asks
  <2> QED BY <1>0, <1>3, <2>2, PullInvSends DEF RequestSyncFromAll, roles
<1>4. ASSUME NEW d \in Device, NEW p \in Device, Meet(d, p) PROVE PullInv'
  <2>1. \A m \in net' : m \in net \/ \E e, q \in Device : m = Ask(e, q)
    BY <1>4 DEF Meet, Asks
  <2>2. authed' \in [Device -> SUBSET Device] /\ barred' \in [Device -> SUBSET Device]
    BY <1>0, <1>4 DEF Meet, LearnRole
  <2> QED BY <1>0, <1>4, <2>1, <2>2, PullInvSends DEF Meet
<1>5. ASSUME NEW d \in Device, NEW p \in Device, Part(d, p) PROVE PullInv'
  <2>1. net' \subseteq net
    BY <1>5 DEF Part
  <2>2. authed' \in [Device -> SUBSET Device]
    BY <1>0, <1>5 DEF Part
  <2>3. losses' \in 0..MaxLosses
    BY <1>0, <1>5, AntiEntropyAssumption DEF Part
  <2> QED BY <1>0, <1>5, <2>1, <2>2, <2>3, PullInvSends DEF Part, roles
<1>6. ASSUME NEW m \in net, Lose(m) PROVE PullInv'
  <2>1. net' \subseteq net
    BY <1>6 DEF Lose
  <2>2. losses' \in 0..MaxLosses
    BY <1>0, <1>6, AntiEntropyAssumption DEF Lose
  <2> QED BY <1>0, <1>6, <2>1, <2>2, PullInvSends DEF Lose, roles
<1>7. ASSUME NEW m \in net, Serve(m) PROVE PullInv'
  BY <1>7, PullInvServe
<1>8. ASSUME NEW m \in net, Receive(m) PROVE PullInv'
  BY <1>8, PullInvReceive
<1>9. ASSUME NEW d \in Authors, Reenroll(d) PROVE PullInv'
  <2>1. d \in Device
    BY AntiEntropyAssumption
  <2>2. net' \subseteq net
    BY <1>9 DEF Reenroll
  <2>3. authed' \in [Device -> SUBSET Device] /\ readonly' \in SUBSET Device
    BY <1>0, <1>9, <2>1 DEF Reenroll
  <2>4. losses' \in 0..MaxLosses
    BY <1>0, <1>9, AntiEntropyAssumption DEF Reenroll
  <2> QED BY <1>0, <1>9, <2>2, <2>3, <2>4, PullInvSends DEF Reenroll
<1> QED BY <1>1, <1>2, <1>3, <1>4, <1>5, <1>6, <1>7, <1>8, <1>9 DEF Next

LEMMA PullInvariant == Spec => []PullInv
  BY PullInvInit, PullInvNext, PTL DEF Spec

(* Every variable keeps its type, and losses their bound.                   *)
THEOREM PullTypeOK == Spec => []TypeOK
  BY PullInvariant, PTL DEF PullInv

(* No device ever holds a record without every earlier record of the same   *)
(* author: what a vector claims is held, and so nothing that is missing     *)
(* goes unasked.                                                           *)
THEOREM PullNothingSkipped == Spec => []NothingSkipped
  BY PullInvariant, PTL DEF PullInv

(* However late an answer is, storing it opens no gap.                      *)
THEOREM PullAnswersFit == Spec => []AnswersFit
  BY PullInvariant, PTL DEF PullInv

(* As long as records come by pages alone, equal vectors mean equal logs:   *)
(* the vectors that requests carry are all that devices need to compare.    *)
(* Pushes break this (run LivePush_stuck).                                 *)
THEOREM PullVectorsSuffice == Spec => [](\A d, e \in Device : vv[d] = vv[e] => log[d] = log[e])
<1>1. ASSUME PullInv, NEW d \in Device, NEW e \in Device, vv[d] = vv[e] PROVE log[d] \subseteq log[e]
  <2> SUFFICES ASSUME NEW r \in log[d] PROVE r \in log[e]
    OBVIOUS
  <2>1. r.origin \in Device
    BY <1>1, ChangeProperties DEF PullInv, TypeOK
  <2>2. r \in OwnRecords(r.origin) /\ r.hlc <= vv[e][r.origin]
    BY <1>1, <2>1 DEF PullInv, NothingSkipped
  <2> QED BY <1>1, <2>1, <2>2 DEF PullInv, NothingSkipped
<1>2. PullInv => \A d, e \in Device : vv[d] = vv[e] => log[d] = log[e]
  BY <1>1
<1> QED BY <1>2, PullInvariant, PTL
-----------------------------------------------------------------------------
(* Whoever talks to a read-only device knows that it is one: its role is    *)
(* learnt before anything is asked, and a new role ends the talk.          *)
RolesKnown ==
  /\ \A d \in Device : \A o \in authed[d] \cap readonly : o \in barred[d]
  /\ \A m \in net : m.type = "Sync" /\ m.to \in readonly => m.to \in barred[m.from]
  /\ \A m \in net : m.type # "Sync" /\ m.from \in readonly => m.from \in barred[m.to]

RolesTyped ==
  /\ authed \in [Device -> SUBSET Device] /\ barred \in [Device -> SUBSET Device]
  /\ \A m \in net : m.from \in Device /\ m.to \in Device

LEMMA RolesKnownNext == ASSUME RolesTyped, RolesKnown, [Next]_vars PROVE RolesKnown'
<1> USE DEF RolesKnown
<1>0. RolesTyped
  OBVIOUS
<1> USE DEF RolesTyped
<1>1. CASE UNCHANGED vars
  BY <1>1 DEF vars
<1>2. ASSUME NEW d \in Authors, Author(d) PROVE RolesKnown'
  BY <1>2 DEF Author, roles
<1>3. ASSUME NEW d \in Device, RequestSyncFromAll(d) PROVE RolesKnown'
  <2>1. \A m \in net' : m \in net \/ \E p \in authed[d] : m = Ask(d, p)
    BY <1>3 DEF RequestSyncFromAll, Asks
  <2>2. UNCHANGED <<authed, readonly, barred>>
    BY <1>3 DEF RequestSyncFromAll, roles
  <2>3. \A p \in authed[d] : /\ Ask(d, p).type = "Sync" /\ Ask(d, p).to = p
                             /\ Ask(d, p).from = d
    BY DEF Ask
  <2> QED BY <1>3, <2>1, <2>2, <2>3
<1>4. ASSUME NEW d \in Device, NEW p \in Device, Meet(d, p) PROVE RolesKnown'
  <2>1. /\ authed' = [authed EXCEPT ![d] = @ \cup {p}, ![p] = @ \cup {d}]
        /\ barred' = [barred EXCEPT ![d] = LearnRole(@, p), ![p] = LearnRole(@, d)]
        /\ UNCHANGED readonly
    BY <1>4 DEF Meet
  <2>2. \A e \in Device : \A o \in readonly :
          o \in barred[e] \/ (e = d /\ o = p) \/ (e = p /\ o = d) => o \in barred'[e]
    BY <1>0, <2>1 DEF LearnRole
  <2>3. \A m \in net' : \/ m \in net
                        \/ m.type = "Sync" /\ m.from = d /\ m.to = p
                        \/ m.type = "Sync" /\ m.from = p /\ m.to = d
    BY <1>4 DEF Meet, Asks, Ask
  <2>4. \A e \in Device : \A o \in authed'[e] :
          o \in authed[e] \/ (e = d /\ o = p) \/ (e = p /\ o = d)
    BY <1>0, <2>1
  <2>5. \A e \in Device : \A o \in authed'[e] \cap readonly' : o \in barred'[e]
    BY <2>1, <2>2, <2>4
  <2>6. \A m \in net' : m.type = "Sync" /\ m.to \in readonly' => m.to \in barred'[m.from]
    BY <1>0, <2>1, <2>2, <2>3
  <2>7. \A m \in net' : m.type # "Sync" /\ m.from \in readonly' => m.from \in barred'[m.to]
    BY <1>0, <2>1, <2>2, <2>3
  <2> QED BY <2>5, <2>6, <2>7
<1>5. ASSUME NEW d \in Device, NEW p \in Device, Part(d, p) PROVE RolesKnown'
  <2>1. \A e \in Device : authed'[e] \subseteq authed[e]
    BY <1>0, <1>5 DEF Part
  <2> QED BY <1>5, <2>1 DEF Part, roles
<1>6. ASSUME NEW m \in net, Lose(m) PROVE RolesKnown'
  BY <1>6 DEF Lose, roles
<1>7. ASSUME NEW m \in net, Serve(m) PROVE RolesKnown'
  <2>1. \A n \in net' : n \in net \/ (n.type = "Changes" /\ n.from = m.to /\ n.to = m.from)
    BY <1>7 DEF Serve
  <2> QED BY <1>7, <2>1 DEF Serve, roles
<1>8. ASSUME NEW m \in net, Receive(m) PROVE RolesKnown'
  <2>1. \A n \in net' : \/ n \in net
                        \/ n.type = "Sync" /\ n.from = m.to /\ n.to = m.from
    BY <1>8 DEF Receive
  <2> QED BY <1>8, <2>1 DEF Receive, roles
<1>9. ASSUME NEW d \in Authors, Reenroll(d) PROVE RolesKnown'
  <2>1. /\ authed' = [p \in Device |-> IF p = d THEN {} ELSE authed[p] \ {d}]
        /\ net' = {m \in net : m.from # d /\ m.to # d}
        /\ \A o \in readonly' : o # d => o \in readonly
        /\ UNCHANGED barred
    BY <1>9 DEF Reenroll
  <2> QED BY <1>0, <2>1
<1> QED BY <1>1, <1>2, <1>3, <1>4, <1>5, <1>6, <1>7, <1>8, <1>9 DEF Next

LEMMA RolesKnownInvariant == Spec => []RolesKnown
<1>1. Init => RolesKnown
  BY DEF Init, RolesKnown
<1>2. PullInv => RolesTyped
  BY MessageTypes DEF PullInv, TypeOK, RolesTyped
<1> QED BY <1>1, <1>2, RolesKnownNext, PullInvariant, PTL DEF Spec

(* The records of o that are out grow neither when somebody authors nor,    *)
(* while o is read-only, when what another sends is stored.                *)
LEMMA ContainedAuthor ==
  ASSUME log \in [Device -> SUBSET Change], AuthorHolds,
         NEW o \in Device, NEW d \in Device, Author(d)
  PROVE  Out(o)' = Out(o)
<1>1. PICK recs \in SUBSET Change :
        /\ \A r \in recs : r.origin = d
        /\ log' = [log EXCEPT ![d] = @ \cup recs]
  <2>1. PICK stamps \in SUBSET Stamp \ {{}} :
          log' = [log EXCEPT ![d] = @ \cup [origin : {d}, hlc : stamps]]
    BY DEF Author
  <2>2. [origin : {d}, hlc : stamps] \in SUBSET Change
    BY DEF Change
  <2> QED BY <2>1, <2>2
<1>2. /\ \A e \in Device \ {d} : log'[e] = log[e]
      /\ log'[d] = log[d] \cup recs
  BY <1>1
<1>3. \A e \in Device \ {o} : \A r \in log'[e] : r.origin = o => r \in log[e]
  BY <1>1, <1>2
<1>4. \A r \in log'[o] : r \in log[o] \/ r \in recs
  BY <1>2
<1>5. \A e \in Device \ {o} : \A r \in log[e] : r.origin = o => r \in log[o]
  BY DEF AuthorHolds
<1>6. \A e \in Device : log[e] \subseteq log'[e]
  BY <1>2
<1> QED BY <1>3, <1>4, <1>5, <1>6 DEF Out, OwnRecords

LEMMA ContainedStore ==
  ASSUME log \in [Device -> SUBSET Change], AuthorHolds,
         NEW o \in Device, NEW m, m.to \in Device, m.from \in Device,
         m.from = o => o \in barred[m.to],
         m.changes \subseteq log[m.from], Store(m.to, m.changes)
  PROVE  Out(o)' = Out(o)
<1> DEFINE fresh == Fresh(log[m.to], Kept(m.to, m.changes))
<1>1. log' = [log EXCEPT ![m.to] = @ \cup fresh]
  BY DEF Store
<1>2. \A r \in fresh : r \in log[m.from] /\ r.origin \notin barred[m.to]
  BY DEF Fresh, Kept
<1> HIDE DEF fresh
<1>3. /\ \A e \in Device \ {m.to} : log'[e] = log[e]
      /\ log'[m.to] = log[m.to] \cup fresh
  BY <1>1
<1>4. \A r \in fresh : r.origin = o => m.from # o
  BY <1>2
<1>5. \A e \in Device : \A r \in log[e] : r.origin = o => r \in log[o]
  BY DEF AuthorHolds
<1>6. \A r \in fresh : r.origin = o => r \in Out(o) /\ r \in log[o]
  BY <1>2, <1>4, <1>5 DEF Out, OwnRecords
<1>7. OwnRecords(o)' = OwnRecords(o)
  BY <1>3, <1>6 DEF OwnRecords
<1>8. \A e \in Device : log[e] \subseteq log'[e]
  BY <1>3
<1>9. \A e \in Device \ {o} : \A r \in log'[e] : r \in OwnRecords(o) => r \in Out(o)
  <2> SUFFICES ASSUME NEW e \in Device \ {o}, NEW r \in log'[e], r \in OwnRecords(o)
               PROVE  r \in Out(o)
    OBVIOUS
  <2>1. CASE r \in log[e]
    BY <2>1 DEF Out
  <2>2. CASE r \notin log[e]
    BY <1>3, <1>6, <2>2 DEF OwnRecords
  <2> QED BY <2>1, <2>2
<1> QED BY <1>7, <1>8, <1>9 DEF Out

LEMMA ContainedNext ==
  ASSUME PullInv, RolesKnown, [Next]_vars, NEW o \in readonly \cap readonly'
  PROVE  Out(o)' = Out(o)
<1> USE DEF PullInv
<1>0. o \in Device /\ log \in [Device -> SUBSET Change]
  BY DEF TypeOK
<1>1. CASE UNCHANGED log
  BY <1>1 DEF Out, OwnRecords
<1>2. ASSUME NEW d \in Authors, Author(d) PROVE Out(o)' = Out(o)
  BY <1>0, <1>2, ContainedAuthor, AntiEntropyAssumption
<1>3. ASSUME NEW m \in net, Receive(m) PROVE Out(o)' = Out(o)
  <2>1. m.type = "Changes" /\ Store(m.to, m.changes)
    BY <1>3 DEF Receive
  <2>2. m.to \in Device /\ m.from \in Device /\ m.changes \subseteq log[m.from]
    BY <2>1, MessageTypes DEF TypeOK, AnswersHeld
  <2>3. m.from = o => o \in barred[m.to]
    BY <2>1 DEF RolesKnown
  <2> QED BY <1>0, <2>1, <2>2, <2>3, ContainedStore
<1>4. ASSUME NEW m \in net, Serve(m) \/ Lose(m) PROVE UNCHANGED log
  BY <1>4 DEF Serve, Lose
<1>5. ASSUME NEW d \in Device, NEW p \in Device,
             RequestSyncFromAll(d) \/ Meet(d, p) \/ Part(d, p)
      PROVE  UNCHANGED log
  BY <1>5 DEF RequestSyncFromAll, Meet, Part
<1>6. ASSUME NEW d \in Authors, Reenroll(d) PROVE UNCHANGED log
  BY <1>6 DEF Reenroll
<1> QED BY <1>1, <1>2, <1>3, <1>4, <1>5, <1>6 DEF Next, vars

(* What a read-only device writes does not get out by catching up, whatever *)
(* the devices between it and the others, and however often roles change.  *)
THEOREM PullReadOnlyContained == Spec => ReadOnlyContained
<1>1. PullInv /\ RolesKnown /\ [Next]_vars
        => [\A o \in readonly \cap readonly' : Out(o)' = Out(o)]_vars
  BY ContainedNext
<1> QED BY <1>1, PullInvariant, RolesKnownInvariant, PTL DEF Spec, ReadOnlyContained
-----------------------------------------------------------------------------
LEMMA InitRefines == Init => Promises!Init
  BY DEF Init, Promises!Init

LEMMA AuthorRefines ==
  ASSUME NEW d \in Device, Author(d),
         log \in [Device -> SUBSET Change], log' \in [Device -> SUBSET Change]
  PROVE  Promises!Author(d)
<1>1. PICK stamps \in SUBSET Stamp \ {{}} :
        /\ \A r \in [origin : {d}, hlc : stamps], s \in OwnRecords(d) : s.hlc < r.hlc
        /\ log' = [log EXCEPT ![d] = @ \cup [origin : {d}, hlc : stamps]]
  BY DEF Author
<1>2. \A r \in log'[d] \ log[d] : r \in [origin : {d}, hlc : stamps] /\ r.origin = d
  BY <1>1
<1>3. \A r, s \in log'[d] \ log[d] : r.hlc = s.hlc => r = s
  BY <1>2, ChangeProperties
<1>4. Promises!OnlyGrows(d)
  BY <1>1 DEF Promises!OnlyGrows
<1> QED BY <1>1, <1>2, <1>3, <1>4 DEF Promises!Author, Promises!New, OwnRecords

LEMMA NextRefines == PullInv /\ PullInv' /\ [Next]_vars => [Promises!Next]_log
<1> SUFFICES ASSUME PullInv, PullInv', [Next]_vars PROVE [Promises!Next]_log
  OBVIOUS
<1> USE DEF PullInv
<1>0. Promises!TypeOK'
  BY DEF TypeOK, Promises!TypeOK
<1>1. CASE UNCHANGED log
  BY <1>1
<1>2. ASSUME NEW d \in Authors, Author(d) PROVE Promises!Next
  <2>1. d \in Device
    BY AntiEntropyAssumption
  <2>2. Promises!Author(d)
    BY <1>2, <2>1, AuthorRefines DEF TypeOK
  <2> QED BY <1>0, <2>1, <2>2 DEF Promises!Next
<1>3. ASSUME NEW m \in net, Receive(m) PROVE Promises!Next
  <2>1. m.type = "Changes" /\ log' = [log EXCEPT ![m.to] = @ \cup Fresh(log[m.to], Kept(m.to, m.changes))]
    BY <1>3 DEF Receive, Store
  <2>2. m.to \in Device /\ m.from \in Device
    BY <2>1, MessageTypes DEF TypeOK
  <2>3. log'[m.to] \ log[m.to] \subseteq log[m.from]
    BY <2>1, <2>2 DEF AnswersHeld, Fresh, Kept, TypeOK
  <2>4. Promises!OnlyGrows(m.to)
    BY <2>1, <2>2 DEF TypeOK, Promises!OnlyGrows
  <2> QED BY <1>0, <2>2, <2>3, <2>4 DEF Promises!Next, Promises!Learn, Promises!New
<1>4. ASSUME NEW m \in net, Serve(m) \/ Lose(m) PROVE UNCHANGED log
  BY <1>4 DEF Serve, Lose
<1>5. ASSUME NEW d \in Device, NEW p \in Device,
             RequestSyncFromAll(d) \/ Meet(d, p) \/ Part(d, p)
      PROVE  UNCHANGED log
  BY <1>5 DEF RequestSyncFromAll, Meet, Part
<1>6. ASSUME NEW d \in Authors, Reenroll(d) PROVE UNCHANGED log
  BY <1>6 DEF Reenroll
<1>7. [Next]_vars => UNCHANGED log \/ Promises!Next
  BY <1>2, <1>3, <1>4, <1>5, <1>6 DEF Next, vars
<1> QED BY <1>1, <1>7

(* Catching up implements the abstract change log: whatever travels, every  *)
(* step authors fresh records of one device or learns records of another.   *)
THEOREM PullImplements == Spec => Implements
  BY InitRefines, NextRefines, PullInvariant, PTL DEF Spec, Implements, Promises!Spec
-----------------------------------------------------------------------------
(***************************************************************************)
(* The outbox never marks what it has not sent, and no vector shows more   *)
(* or less than its device holds, for any number of devices, any sizes of  *)
(* outbox and chunk, and any crashes.                                      *)
(*                                                                         *)
(* The mark is a stamp, so moving it to the newest record sent is safe     *)
(* only if nothing older is unsent (SendingPrefix).  That holds when the   *)
(* outbox is read, since a page is a prefix, and goes on holding while the *)
(* application writes, since new records are stamped above the ones being  *)
(* sent (SendingOwn), and while records come in, since whatever others     *)
(* send of a device's records that device holds already (AuthorHolds,      *)
(* SentHeld).                                                              *)
(***************************************************************************)

SentHeld == \A m \in net : m.type # "Sync" =>
  m.changes \subseteq Change /\ \A r \in m.changes : r \in log[r.origin]

SendingOwn == \A d \in Device : sending[d] \subseteq OwnRecords(d)

SendingPrefix == \A d \in Device : \A s \in sending[d], r \in OwnRecords(d) :
  mark[d] < r.hlc /\ r.hlc < s.hlc => r \in sending[d]

PushInv == /\ PushTypeOK /\ VVIsHighest /\ AuthorHolds /\ SentHeld
           /\ SendingOwn /\ SendingPrefix
-----------------------------------------------------------------------------
Stamps(recs, o) == {r.hlc : r \in {x \in recs : x.origin = o}}

(* Storing records keeps logs and vectors in step.                         *)
LEMMA StoringKeepsVectors ==
  ASSUME PushTypeOK, VVIsHighest, NEW d \in Device, NEW recs \in SUBSET Change,
         log' = [log EXCEPT ![d] = @ \cup recs],
         vv' = [vv EXCEPT ![d] = BumpVV(@, recs)]
  PROVE  /\ log' \in [Device -> SUBSET Change] /\ vv' \in [Device -> Vector]
         /\ VVIsHighest'
         /\ log'[d] = log[d] \cup recs
         /\ \A e \in Device \ {d} : log'[e] = log[e]
<1>1. /\ log' \in [Device -> SUBSET Change]
      /\ log'[d] = log[d] \cup recs /\ vv'[d] = BumpVV(vv[d], recs)
      /\ \A e \in Device \ {d} : log'[e] = log[e] /\ vv'[e] = vv[e]
  BY DEF PushTypeOK
<1>2. vv' \in [Device -> Vector]
  <2>1. BumpVV(vv[d], recs) \in Vector
    BY BumpVVProperties, ChangeProperties DEF PushTypeOK, Vector
  <2> QED BY <2>1 DEF PushTypeOK
<1>3. VVIsHighest'
  <2> SUFFICES ASSUME NEW e \in Device, NEW o \in Device
               PROVE  vv'[e][o] = Highest(Stamps(log'[e], o))
    BY DEF VVIsHighest, Stamps
  <2>1. vv[e][o] = Highest(Stamps(log[e], o))
    BY DEF VVIsHighest, Stamps
  <2>2. CASE e # d
    BY <1>1, <2>1, <2>2
  <2>3. CASE e = d
    <3>1. vv'[d][o] = Highest({vv[d][o]} \cup Stamps(recs, o))
      BY <1>1 DEF BumpVV, Stamps
    <3>2. Stamps(log[d], o) \in SUBSET Stamp /\ Stamps(recs, o) \in SUBSET Stamp
      BY ChangeProperties DEF Stamps, PushTypeOK
    <3>3. Stamps(log'[d], o) = Stamps(log[d], o) \cup Stamps(recs, o)
      BY <1>1 DEF Stamps
    <3> QED BY <2>1, <2>3, <3>1, <3>2, <3>3, HighestUnion
  <2> QED BY <2>2, <2>3
<1> QED BY <1>1, <1>2, <1>3

LEMMA PushMessageTypes ==
  ASSUME PushTypeOK, NEW m \in net
  PROVE  /\ m.from \in Device /\ m.to \in Device
         /\ m.type \in {"Sync", "Changes", "Push"}
         /\ m.type = "Sync" => m.vv \in Vector
         /\ m.type # "Sync" => m.changes \subseteq Change
  BY DEF PushTypeOK, Request, Answer, Push

LEMMA PushInvInit == PushInit => PushInv
<1> SUFFICES ASSUME PushInit PROVE PushInv
  OBVIOUS
<1>1. PushTypeOK
  BY RecordsAssumption, AntiEntropyAssumption
     DEF PushInit, Init, PushTypeOK, Vector
<1>2. VVIsHighest
  BY DEF PushInit, Init, VVIsHighest, Highest
<1>3. AuthorHolds /\ SentHeld /\ SendingOwn /\ SendingPrefix
  BY DEF PushInit, Init, AuthorHolds, SentHeld, SendingOwn, SendingPrefix
<1> QED BY <1>1, <1>2, <1>3 DEF PushInv

(* Messages that carry no records leave the rest as it is.                 *)
LEMMA PushInvSends ==
  ASSUME PushInv, UNCHANGED <<log, vv, mark, sending>>,
         authed' \in [Device -> SUBSET Device], losses' \in 0..MaxLosses,
         readonly' \in SUBSET Device, barred' \in [Device -> SUBSET Device],
         \A m \in net' : m \in net \/ (m \in Request /\ m.type = "Sync")
  PROVE  PushInv'
<1> USE DEF PushInv
<1>1. PushTypeOK'
  BY DEF PushTypeOK
<1>2. VVIsHighest' /\ AuthorHolds' /\ SendingOwn' /\ SendingPrefix'
  BY DEF VVIsHighest, AuthorHolds, SendingOwn, SendingPrefix, OwnRecords
<1>3. SentHeld'
  BY DEF SentHeld
<1> QED BY <1>1, <1>2, <1>3

(* The steps of AntiEntropy that send a request, lose something, or change *)
(* who is connected to whom.                                               *)
LEMMA PushInvConnects ==
  ASSUME PushInv, UNCHANGED <<mark, sending>>, NEW d \in Device, NEW p \in Device,
         RequestSyncFromAll(d) \/ Meet(d, p) \/ Part(d, p) \/ Reenroll(d)
  PROVE  PushInv'
<1> USE DEF PushInv
<1>1. \A e \in Device, peers \in SUBSET Device : \A m \in Asks(e, peers) :
        m \in Request /\ m.type = "Sync"
  BY DEF Asks, Ask, Request, PushTypeOK
<1>2. losses \in 0..MaxLosses /\ losses + 1 \in Int
      /\ (losses < MaxLosses => losses + 1 \in 0..MaxLosses)
  BY AntiEntropyAssumption DEF PushTypeOK
<1>3. CASE RequestSyncFromAll(d)
  <2>1. UNCHANGED <<log, vv, authed, losses, readonly, barred>>
        /\ \A m \in net' : m \in net \/ (m \in Request /\ m.type = "Sync")
    BY <1>1, <1>3 DEF RequestSyncFromAll, roles, PushTypeOK
  <2> QED BY <2>1, PushInvSends DEF PushTypeOK
<1>4. CASE Meet(d, p)
  <2>1. /\ UNCHANGED <<log, vv, losses, readonly>>
        /\ \A m \in net' : m \in net \/ (m \in Request /\ m.type = "Sync")
    BY <1>1, <1>4 DEF Meet
  <2>2. authed' \in [Device -> SUBSET Device]
    BY <1>4 DEF Meet, PushTypeOK
  <2>3. barred' \in [Device -> SUBSET Device]
    BY <1>4 DEF Meet, LearnRole, PushTypeOK
  <2> QED BY <2>1, <2>2, <2>3, PushInvSends DEF PushTypeOK
<1>5. CASE Part(d, p)
  <2>1. /\ UNCHANGED <<log, vv, readonly, barred>>
        /\ net' \subseteq net /\ losses' \in 0..MaxLosses
    BY <1>2, <1>5 DEF Part, roles
  <2>2. authed' \in [Device -> SUBSET Device]
    BY <1>5 DEF Part, PushTypeOK
  <2> QED BY <2>1, <2>2, PushInvSends DEF PushTypeOK
<1>6. CASE Reenroll(d)
  <2>1. /\ UNCHANGED <<log, vv, barred>>
        /\ net' \subseteq net /\ losses' \in 0..MaxLosses /\ readonly' \in SUBSET Device
    BY <1>2, <1>6 DEF Reenroll, PushTypeOK
  <2>2. authed' \in [Device -> SUBSET Device]
    BY <1>6 DEF Reenroll, PushTypeOK
  <2> QED BY <2>1, <2>2, PushInvSends DEF PushTypeOK
<1> QED BY <1>3, <1>4, <1>5, <1>6

LEMMA PushInvAuthor ==
  ASSUME PushInv, UNCHANGED <<mark, sending>>, NEW d \in Authors, Author(d)
  PROVE  PushInv'
<1> USE DEF PushInv
<1>1. d \in Device
  BY AntiEntropyAssumption
<1>2. PICK stamps \in SUBSET Stamp \ {{}} :
        LET recs == [origin : {d}, hlc : stamps]
        IN  /\ \A r \in recs, s \in OwnRecords(d) : s.hlc < r.hlc
            /\ log' = [log EXCEPT ![d] = @ \cup recs]
            /\ vv'  = [vv  EXCEPT ![d] = BumpVV(@, recs)]
            /\ UNCHANGED <<authed, net, losses, readonly, barred>>
  BY DEF Author, roles
<1> DEFINE recs == [origin : {d}, hlc : stamps]
<1>3. recs \in SUBSET Change /\ \A r \in recs : r.origin = d
  BY <1>1 DEF Change
<1>4. \A r \in recs, s \in OwnRecords(d) : s.hlc < r.hlc
  BY <1>2
<1>5. log' = [log EXCEPT ![d] = @ \cup recs] /\ vv' = [vv EXCEPT ![d] = BumpVV(@, recs)]
      /\ UNCHANGED <<authed, net, losses, readonly, barred>>
  BY <1>2
<1> HIDE DEF recs
<1>6. /\ log' \in [Device -> SUBSET Change] /\ vv' \in [Device -> Vector] /\ VVIsHighest'
      /\ log'[d] = log[d] \cup recs /\ \A e \in Device \ {d} : log'[e] = log[e]
  BY <1>1, <1>3, <1>5, StoringKeepsVectors
<1>7. /\ OwnRecords(d)' = OwnRecords(d) \cup recs
      /\ \A e \in Device \ {d} : OwnRecords(e)' = OwnRecords(e)
  BY <1>1, <1>3, <1>6 DEF OwnRecords
<1>8. PushTypeOK'
  BY <1>5, <1>6 DEF PushTypeOK
<1>9. AuthorHolds'
  BY <1>1, <1>3, <1>6, ChangeProperties DEF AuthorHolds, PushTypeOK
<1>10. SentHeld'
  BY <1>5, <1>6, ChangeProperties DEF SentHeld
<1>11. SendingOwn'
  BY <1>7 DEF SendingOwn
<1>12. SendingPrefix'
  <2> SUFFICES ASSUME NEW e \in Device, NEW s \in sending[e], NEW r \in OwnRecords(e)',
                      mark[e] < r.hlc, r.hlc < s.hlc
               PROVE  r \in sending[e]
    BY DEF SendingPrefix
  <2>1. s \in OwnRecords(e)
    BY DEF SendingOwn
  <2>2. CASE r \in OwnRecords(e)
    BY <2>2 DEF SendingPrefix
  <2>3. CASE r \notin OwnRecords(e)
    <3>1. r \in recs /\ s.hlc < r.hlc
      BY <1>1, <1>4, <1>7, <2>1, <2>3
    <3>2. r.hlc \in Nat /\ s.hlc \in Nat
      BY <1>1, <1>3, <2>1, <3>1, ChangeProperties DEF OwnRecords, PushTypeOK
    <3> QED BY <3>1, <3>2
  <2> QED BY <2>2, <2>3
<1> QED BY <1>6, <1>8, <1>9, <1>10, <1>11, <1>12

LEMMA PushInvServe ==
  ASSUME PushInv, UNCHANGED <<mark, sending>>, NEW m \in net, Serve(m)
  PROVE  PushInv'
<1> USE DEF PushInv
<1> DEFINE page == ChangesSince(log[m.to], m.vv, Limit)
           answer == [type |-> "Changes", from |-> m.to, to |-> m.from,
                      changes |-> page, more |-> Cardinality(page) = Limit]
<1>1. /\ m.type = "Sync" /\ net' = (net \ {m}) \cup {answer}
      /\ UNCHANGED <<log, vv, authed, losses, readonly, barred>>
  BY DEF Serve, roles
<1>2. m.from \in Device /\ m.to \in Device
  BY PushMessageTypes
<1>3. page \subseteq log[m.to]
  BY DEF ChangesSince, Page
<1>4. page \subseteq Change /\ \A r \in page : r \in log[r.origin]
  <2> HIDE DEF page
  <2> QED BY <1>2, <1>3 DEF AuthorHolds, PushTypeOK
<1>5. answer \in Answer /\ answer.type = "Changes" /\ answer.changes = page
  <2> HIDE DEF page
  <2> QED BY <1>2, <1>4 DEF Answer
<1> HIDE DEF answer, page
<1>6. PushTypeOK'
  BY <1>1, <1>5 DEF PushTypeOK
<1>7. SentHeld'
  BY <1>1, <1>4, <1>5 DEF SentHeld
<1>8. VVIsHighest' /\ AuthorHolds' /\ SendingOwn' /\ SendingPrefix'
  BY <1>1 DEF VVIsHighest, AuthorHolds, SendingOwn, SendingPrefix, OwnRecords
<1> QED BY <1>6, <1>7, <1>8

(* A page, a push or a gossip message is stored, and a request may follow. *)
LEMMA PushInvStore ==
  ASSUME PushInv, NEW m \in net, m.type # "Sync", Store(m.to, m.changes),
         UNCHANGED <<authed, losses, readonly, barred, mark, sending>>,
         \A x \in net' : x \in net \/ (x \in Request /\ x.type = "Sync")
  PROVE  PushInv'
<1> USE DEF PushInv
<1> DEFINE fresh == Fresh(log[m.to], Kept(m.to, m.changes))
<1>1. m.to \in Device /\ m.changes \subseteq Change
      /\ \A r \in m.changes : r \in log[r.origin]
  BY PushMessageTypes DEF SentHeld
<1>2. fresh \in SUBSET Change /\ \A r \in fresh : r \in log[r.origin]
  BY <1>1 DEF Fresh, Kept
<1>3. log' = [log EXCEPT ![m.to] = @ \cup fresh] /\ vv' = [vv EXCEPT ![m.to] = BumpVV(@, fresh)]
  BY DEF Store
<1> HIDE DEF fresh
<1>4. /\ log' \in [Device -> SUBSET Change] /\ vv' \in [Device -> Vector] /\ VVIsHighest'
      /\ log'[m.to] = log[m.to] \cup fresh
      /\ \A e \in Device \ {m.to} : log'[e] = log[e]
  BY <1>1, <1>2, <1>3, StoringKeepsVectors
<1>5. \A e \in Device : log[e] \subseteq log'[e]
  BY <1>4
<1>6. \A e \in Device : OwnRecords(e)' = OwnRecords(e)
  BY <1>1, <1>2, <1>4 DEF OwnRecords
<1>7. PushTypeOK'
  BY <1>4 DEF PushTypeOK
<1>8. AuthorHolds'
  <2> SUFFICES ASSUME NEW e \in Device, NEW r \in log'[e] PROVE r \in log'[r.origin]
    BY DEF AuthorHolds
  <2>1. r \in log[r.origin]
    BY <1>1, <1>2, <1>4 DEF AuthorHolds
  <2>2. r.origin \in Device
    BY <1>4, ChangeProperties
  <2> QED BY <1>5, <2>1, <2>2
<1>9. SentHeld'
  <2> SUFFICES ASSUME NEW x \in net', x.type # "Sync"
               PROVE  x.changes \subseteq Change /\ \A r \in x.changes : r \in log'[r.origin]
    BY DEF SentHeld
  <2>1. x.changes \subseteq Change /\ \A r \in x.changes : r \in log[r.origin]
    BY DEF SentHeld
  <2> QED BY <1>5, <2>1, ChangeProperties
<1>10. SendingOwn' /\ SendingPrefix'
  BY <1>6 DEF SendingOwn, SendingPrefix
<1> QED BY <1>4, <1>7, <1>8, <1>9, <1>10

LEMMA PushInvReceive ==
  ASSUME PushInv, NEW m \in net,
         (Receive(m) /\ UNCHANGED <<mark, sending>>) \/ Accept(m)
  PROVE  PushInv'
<1>1. m.from \in Device /\ m.to \in Device
  BY PushMessageTypes DEF PushInv
<1>2. CASE Receive(m) /\ UNCHANGED <<mark, sending>>
  <2>1. /\ m.type # "Sync" /\ Store(m.to, m.changes)
        /\ UNCHANGED <<authed, losses, readonly, barred, mark, sending>>
    BY <1>2 DEF Receive, roles
  <2>2. vv' \in [Device -> Vector]
    <3>1. Fresh(log[m.to], Kept(m.to, m.changes)) \in SUBSET Change
      BY <2>1, PushMessageTypes DEF PushInv, Fresh, Kept
    <3> QED BY <1>1, <2>1, <3>1, StoringKeepsVectors DEF Store, PushInv
  <2>3. \A x \in net' : x \in net \/ (x \in Request /\ x.type = "Sync")
    BY <1>1, <1>2, <2>2 DEF Receive, Request
  <2> QED BY <2>1, <2>3, PushInvStore
<1>3. CASE Accept(m)
  <2>1. /\ m.type # "Sync" /\ Store(m.to, m.changes) /\ net' \subseteq net
        /\ UNCHANGED <<authed, losses, readonly, barred, mark, sending>>
    BY <1>3 DEF Accept, roles
  <2> QED BY <2>1, PushInvStore
<1> QED BY <1>2, <1>3

LEMMA PushInvLose ==
  ASSUME PushInv, UNCHANGED <<mark, sending>>, NEW m \in net, Lose(m)
  PROVE  PushInv'
<1>1. /\ UNCHANGED <<log, vv, authed, readonly, barred>> /\ net' \subseteq net
      /\ losses' \in 0..MaxLosses
  BY AntiEntropyAssumption DEF Lose, roles, PushInv, PushTypeOK
<1> QED BY <1>1, PushInvSends DEF PushInv, PushTypeOK

(* What the outbox holds is a prefix of what is not yet marked.            *)
LEMMA UnbroadcastIsPrefix ==
  ASSUME PushInv, NEW d \in Device
  PROVE  /\ Unbroadcast(d) \subseteq OwnRecords(d)
         /\ \A s \in Unbroadcast(d), r \in OwnRecords(d) :
              mark[d] < r.hlc /\ r.hlc < s.hlc => r \in Unbroadcast(d)
<1> DEFINE recs == {r \in OwnRecords(d) : r.hlc > mark[d]}
<1>1. recs \in SUBSET Change /\ Outbox \in Nat
  BY LivePushAssumption DEF OwnRecords, PushInv, PushTypeOK
<1>2. Unbroadcast(d) = Page(recs, Outbox)
  BY DEF Unbroadcast
<1>3. Unbroadcast(d) \subseteq recs
  BY <1>2 DEF Page
<1>4. \A r \in OwnRecords(d) : r.origin = d /\ r.hlc \in Nat /\ mark[d] \in Nat
  BY ChangeProperties, RecordsAssumption DEF OwnRecords, PushInv, PushTypeOK
<1>5. ASSUME NEW s \in Unbroadcast(d), NEW r \in OwnRecords(d),
             mark[d] < r.hlc, r.hlc < s.hlc
      PROVE  r \in Unbroadcast(d)
  <2>1. r \in recs /\ s \in OwnRecords(d)
    BY <1>3, <1>4, <1>5
  <2>2. r.origin = s.origin
    BY <1>4, <2>1
  <2> HIDE DEF recs
  <2> QED BY <1>1, <1>2, <1>5, <2>1, <2>2, PageIsPrefix
<1> QED BY <1>3, <1>5

LEMMA PushInvBroadcast ==
  ASSUME PushInv, NEW d \in Device, Broadcast(d)
  PROVE  PushInv'
<1> USE DEF PushInv
<1> DEFINE recs == Unbroadcast(d)
<1>1. /\ sending' = [sending EXCEPT ![d] = recs]
      /\ UNCHANGED <<log, vv, authed, losses, readonly, barred, mark>>
  BY DEF Broadcast, roles
<1>2. recs \subseteq OwnRecords(d) /\ recs \subseteq Change
  BY UnbroadcastIsPrefix DEF OwnRecords, PushTypeOK
<1>3. \A m \in net' : m \in net \/ (m \in Push /\ m.type = "Push" /\ m.changes \subseteq recs)
  <2>1. \A c \in Chunks(recs) : c \subseteq recs
    BY DEF Chunks
  <2> HIDE DEF recs
  <2>2. PICK heard \in SUBSET Device :
          net' = net \cup [type : {"Push"}, from : {d}, to : (authed[d] \cup heard) \cap Replicas,
                           changes : Chunks(recs)]
    BY DEF Broadcast, recs
  <2>3. (authed[d] \cup heard) \cap Replicas \subseteq Device
    BY AntiEntropyAssumption
  <2> QED BY <1>2, <2>1, <2>2, <2>3 DEF Push
<1> HIDE DEF recs
<1>4. PushTypeOK'
  BY <1>1, <1>2, <1>3 DEF PushTypeOK
<1>5. VVIsHighest' /\ AuthorHolds'
  BY <1>1 DEF VVIsHighest, AuthorHolds
<1>6. SentHeld'
  BY <1>1, <1>2, <1>3 DEF SentHeld, OwnRecords
<1>7. \A e \in Device : sending'[e] = IF e = d THEN recs ELSE sending[e]
  BY <1>1 DEF PushTypeOK
<1>8. \A e \in Device : OwnRecords(e)' = OwnRecords(e) /\ mark'[e] = mark[e]
  BY <1>1 DEF OwnRecords
<1>9. SendingOwn'
  BY <1>2, <1>7, <1>8 DEF SendingOwn
<1>10. SendingPrefix'
  BY <1>7, <1>8, UnbroadcastIsPrefix DEF SendingPrefix, recs
<1> QED BY <1>4, <1>5, <1>6, <1>9, <1>10

(* The mark moves to a record that was sent.                               *)
LEMMA HighIsSent ==
  ASSUME PushInv, NEW d \in Device, sending[d] # {}
  PROVE  /\ High(d) \in 0..MaxStamp
         /\ \E s \in sending[d] : s.hlc = High(d)
<1>1. {r.hlc : r \in sending[d]} \in SUBSET Stamp
  BY ChangeProperties DEF PushInv, PushTypeOK
<1>2. {r.hlc : r \in sending[d]} # {}
  OBVIOUS
<1> DEFINE S == {r.hlc : r \in sending[d]}
<1>3. High(d) = Highest(S)
  BY DEF High
<1>4. S \in SUBSET Nat /\ (\A x \in S : x <= MaxStamp) /\ MaxStamp \in Nat
  <2> HIDE DEF S
  <2>1. S \in SUBSET Stamp
    BY <1>1 DEF S
  <2> QED BY <2>1, RecordsAssumption DEF Stamp
<1>5. Highest(S) \in Nat /\ Highest(S) <= MaxStamp /\ Highest(S) \in S
  <2> HIDE DEF S
  <2>1. S # {}
    BY <1>2 DEF S
  <2> QED BY <1>4, <2>1, HighestProperties
<1> QED BY <1>3, <1>4, <1>5

LEMMA PushInvMark ==
  ASSUME PushInv, NEW d \in Device, MarkBroadcast(d) \/ Crash(d)
  PROVE  PushInv'
<1> USE DEF PushInv
<1>1. /\ UNCHANGED <<log, vv, readonly, barred>> /\ net' \subseteq net
      /\ sending' = [sending EXCEPT ![d] = {}]
  BY DEF MarkBroadcast, Crash, roles
<1>2. \A e \in Device : /\ sending'[e] = IF e = d THEN {} ELSE sending[e]
                        /\ e # d => mark'[e] = mark[e]
  BY <1>1 DEF MarkBroadcast, Crash, PushTypeOK
<1>3. mark' \in [Device -> 0..MaxStamp]
  BY HighIsSent DEF MarkBroadcast, Crash, PushTypeOK
<1>4. authed' \in [Device -> SUBSET Device] /\ losses' \in 0..MaxLosses
  BY AntiEntropyAssumption DEF MarkBroadcast, Crash, PushTypeOK
<1>5. PushTypeOK'
  BY <1>1, <1>3, <1>4 DEF PushTypeOK
<1>6. VVIsHighest' /\ AuthorHolds' /\ SentHeld'
  BY <1>1 DEF VVIsHighest, AuthorHolds, SentHeld
<1>7. SendingOwn' /\ SendingPrefix'
  BY <1>1, <1>2 DEF SendingOwn, SendingPrefix, OwnRecords
<1> QED BY <1>5, <1>6, <1>7

LEMMA PushInvNext == PushInv /\ [PushNext]_pushVars => PushInv'
<1> SUFFICES ASSUME PushInv, [PushNext]_pushVars PROVE PushInv'
  OBVIOUS
<1>1. CASE Next /\ UNCHANGED <<mark, sending>>
  <2>1. ASSUME NEW d \in Authors, Author(d) PROVE PushInv'
    BY <1>1, <2>1, PushInvAuthor
  <2>2. ASSUME NEW d \in Authors, Reenroll(d) PROVE PushInv'
    BY <1>1, <2>2, PushInvConnects, AntiEntropyAssumption
  <2>3. ASSUME NEW d \in Device, RequestSyncFromAll(d) PROVE PushInv'
    BY <1>1, <2>3, PushInvConnects
  <2>4. ASSUME NEW d \in Device, NEW p \in Device, Meet(d, p) \/ Part(d, p) PROVE PushInv'
    BY <1>1, <2>4, PushInvConnects
  <2>5. ASSUME NEW m \in net, Serve(m) PROVE PushInv'
    BY <1>1, <2>5, PushInvServe
  <2>6. ASSUME NEW m \in net, Receive(m) PROVE PushInv'
    BY <1>1, <2>6, PushInvReceive
  <2>7. ASSUME NEW m \in net, Lose(m) PROVE PushInv'
    BY <1>1, <2>7, PushInvLose
  <2> QED BY <1>1, <2>1, <2>2, <2>3, <2>4, <2>5, <2>6, <2>7 DEF Next
<1>2. ASSUME NEW d \in Device, Broadcast(d) PROVE PushInv'
  BY <1>2, PushInvBroadcast
<1>3. ASSUME NEW d \in Device, MarkBroadcast(d) \/ Crash(d) PROVE PushInv'
  BY <1>3, PushInvMark
<1>4. ASSUME NEW m \in net, Accept(m) PROVE PushInv'
  BY <1>4, PushInvReceive
<1>5. CASE UNCHANGED pushVars
  BY <1>5 DEF pushVars, PushInv, PushTypeOK, VVIsHighest, AuthorHolds, SentHeld, SendingOwn,
              SendingPrefix, OwnRecords
<1> QED BY <1>1, <1>2, <1>3, <1>4, <1>5 DEF PushNext

LEMMA PushInvariant == PushSpec => []PushInv
  BY PushInvInit, PushInvNext, PTL DEF PushSpec
-----------------------------------------------------------------------------
(* Every variable of the live push keeps its type.                         *)
THEOREM PushKeepsTypes == PushSpec => []PushTypeOK
<1>1. PushInv => PushTypeOK
  BY DEF PushInv
<1> QED BY <1>1, PushInvariant, PTL

(* However pushes, gossip and pages mix, the vector names the highest stamp *)
(* held of each author.                                                    *)
THEOREM PushVVIsHighest == PushSpec => []VVIsHighest
<1>1. PushInv => VVIsHighest
  BY DEF PushInv
<1> QED BY <1>1, PushInvariant, PTL

(* What one step may mark.                                                 *)
MarksOnlySent == \A d \in Device :
  {r \in OwnRecords(d) : mark[d] < r.hlc /\ r.hlc <= mark'[d]} \subseteq sending[d]

LEMMA MarkNext == PushInv /\ [PushNext]_pushVars => [MarksOnlySent]_pushVars
<1> SUFFICES ASSUME PushInv, PushNext PROVE MarksOnlySent
  OBVIOUS
<1>1. \A d \in Device : \A r \in OwnRecords(d) : r.hlc \in Nat /\ mark[d] \in Nat
  BY ChangeProperties, RecordsAssumption DEF OwnRecords, PushInv, PushTypeOK
<1>2. ASSUME NEW d \in Device, MarkBroadcast(d) PROVE MarksOnlySent
  <2>1. /\ sending[d] # {} /\ mark'[d] = High(d)
        /\ \A e \in Device \ {d} : mark'[e] = mark[e]
    BY <1>2 DEF MarkBroadcast, PushInv, PushTypeOK
  <2>2. PICK s \in sending[d] : s.hlc = mark'[d]
    BY <2>1, HighIsSent
  <2>3. s \in OwnRecords(d)
    BY DEF PushInv, SendingOwn
  <2>4. ASSUME NEW r \in OwnRecords(d), mark[d] < r.hlc, r.hlc <= mark'[d]
        PROVE  r \in sending[d]
    <3>1. CASE r.hlc < s.hlc
      BY <2>4, <3>1 DEF PushInv, SendingPrefix
    <3>2. CASE r.hlc = s.hlc
      <4>1. r \in Change /\ s \in Change /\ r.origin = s.origin
        BY <2>3 DEF OwnRecords, PushInv, PushTypeOK
      <4> QED BY <3>2, <4>1, ChangeProperties
    <3> QED BY <1>1, <2>2, <2>3, <2>4, <3>1, <3>2
  <2>5. ASSUME NEW e \in Device \ {d}, NEW r \in OwnRecords(e) PROVE ~(mark[e] < r.hlc /\ r.hlc <= mark'[e])
    BY <1>1, <2>1
  <2> QED BY <2>4, <2>5 DEF MarksOnlySent
<1>3. ASSUME UNCHANGED mark PROVE MarksOnlySent
  BY <1>1, <1>3 DEF MarksOnlySent
<1>4. ASSUME NEW d \in Device, Broadcast(d) \/ Crash(d) PROVE UNCHANGED mark
  BY <1>4 DEF Broadcast, Crash
<1>5. ASSUME NEW m \in net, Accept(m) PROVE UNCHANGED mark
  BY <1>5 DEF Accept
<1> QED BY <1>2, <1>3, <1>4, <1>5 DEF PushNext

(* The mark is advanced "only after the changes have actually gone out":   *)
(* it never passes a record that was not in the broadcast just made.       *)
THEOREM PushMarkFollowsBroadcast == PushSpec => MarkFollowsBroadcast
<1>1. PushInv /\ [PushNext]_pushVars
        => [\A d \in Device :
              {r \in OwnRecords(d) : mark[d] < r.hlc /\ r.hlc <= mark'[d]} \subseteq sending[d]]_pushVars
  BY MarkNext DEF MarksOnlySent
<1> QED BY <1>1, PushInvariant, PTL DEF PushSpec, MarkFollowsBroadcast
-----------------------------------------------------------------------------
(* Live pushes, too, only author and learn.                                *)

(* Whoever sends records holds them, also when they arrive.                *)
SenderHolds == \A m \in net : m.type # "Sync" => m.changes \subseteq log[m.from]

LEMMA LogsGrow == ASSUME PushInv, [PushNext]_pushVars
  PROVE \A d \in Device : log[d] \subseteq log'[d]
<1> USE DEF PushInv, PushTypeOK
<1>1. CASE UNCHANGED log
  BY <1>1
<1>2. ASSUME NEW d \in Device, NEW recs, log' = [log EXCEPT ![d] = @ \cup recs]
      PROVE  \A e \in Device : log[e] \subseteq log'[e]
  BY <1>2
<1>3. ASSUME NEW d \in Authors, Author(d) PROVE \A e \in Device : log[e] \subseteq log'[e]
  <2>1. d \in Device
    BY AntiEntropyAssumption
  <2>2. \E recs : log' = [log EXCEPT ![d] = @ \cup recs]
    BY <1>3 DEF Author
  <2> QED BY <1>2, <2>1, <2>2
<1>4. ASSUME NEW m \in net, Receive(m) \/ Accept(m)
      PROVE  \A e \in Device : log[e] \subseteq log'[e]
  <2>1. log' = [log EXCEPT ![m.to] = @ \cup Fresh(log[m.to], Kept(m.to, m.changes))]
    BY <1>4 DEF Receive, Accept, Store
  <2>2. m.to \in Device
    BY PushMessageTypes
  <2> QED BY <1>2, <2>1, <2>2
<1>5. ASSUME NEW m \in net, Serve(m) \/ Lose(m) PROVE UNCHANGED log
  BY <1>5 DEF Serve, Lose
<1>6. ASSUME NEW d \in Device, NEW p \in Device,
             RequestSyncFromAll(d) \/ Meet(d, p) \/ Part(d, p)
      PROVE  UNCHANGED log
  BY <1>6 DEF RequestSyncFromAll, Meet, Part
<1>7. ASSUME NEW d \in Authors, Reenroll(d) PROVE UNCHANGED log
  BY <1>7 DEF Reenroll
<1>8. ASSUME NEW d \in Device, Broadcast(d) \/ MarkBroadcast(d) \/ Crash(d) PROVE UNCHANGED log
  BY <1>8 DEF Broadcast, MarkBroadcast, Crash
<1>9. CASE Next
  BY <1>1, <1>3, <1>4, <1>5, <1>6, <1>7, <1>9 DEF Next
<1> QED BY <1>1, <1>4, <1>8, <1>9 DEF PushNext, pushVars

(* What a step puts on its way.                                            *)
LEMMA SentFromLog == ASSUME PushInv, [PushNext]_pushVars, NEW x \in net'
  PROVE \/ x \in net
        \/ x.type = "Sync"
        \/ x.from \in Device /\ x.changes \subseteq log[x.from]
<1> SUFFICES ASSUME x \notin net, x.type # "Sync"
             PROVE  x.from \in Device /\ x.changes \subseteq log[x.from]
  OBVIOUS
<1>1. \A d \in Device : \A peers : \A m \in Asks(d, peers) : m.type = "Sync"
  BY DEF Asks, Ask
<1>2. ASSUME NEW d \in Device, NEW p \in Device,
             RequestSyncFromAll(d) \/ Meet(d, p) \/ Part(d, p)
      PROVE  FALSE
  BY <1>1, <1>2 DEF RequestSyncFromAll, Meet, Part
<1>3. ASSUME NEW m \in net, Serve(m)
      PROVE  x.from \in Device /\ x.changes \subseteq log[x.from]
  <2> DEFINE page == ChangesSince(log[m.to], m.vv, Limit)
             answer == [type |-> "Changes", from |-> m.to, to |-> m.from,
                        changes |-> page, more |-> Cardinality(page) = Limit]
  <2>1. m.to \in Device /\ page \subseteq log[m.to]
    BY PushMessageTypes DEF ChangesSince, Page, PushInv
  <2>2. answer.type = "Changes" /\ answer.from = m.to /\ answer.changes = page
    OBVIOUS
  <2>3. net' = (net \ {m}) \cup {answer}
    BY <1>3 DEF Serve
  <2> HIDE DEF answer, page
  <2> QED BY <2>1, <2>2, <2>3
<1>4. ASSUME NEW m \in net, Receive(m) PROVE FALSE
  BY <1>4 DEF Receive
<1>5. ASSUME NEW m \in net, Lose(m) \/ Accept(m) PROVE FALSE
  BY <1>5 DEF Lose, Accept
<1>6. ASSUME NEW d \in Authors, Author(d) \/ Reenroll(d) PROVE FALSE
  BY <1>6 DEF Author, Reenroll
<1>7. ASSUME NEW d \in Device, Broadcast(d)
      PROVE  x.from \in Device /\ x.changes \subseteq log[x.from]
  <2> DEFINE recs == Unbroadcast(d)
  <2>1. recs \subseteq log[d]
    BY UnbroadcastIsPrefix DEF OwnRecords
  <2>2. \A c \in Chunks(recs) : c \subseteq recs
    BY DEF Chunks
  <2> HIDE DEF recs
  <2>3. PICK heard \in SUBSET Device :
          net' = net \cup [type : {"Push"}, from : {d}, to : (authed[d] \cup heard) \cap Replicas,
                           changes : Chunks(recs)]
    BY <1>7 DEF Broadcast, recs
  <2> QED BY <2>1, <2>2, <2>3
<1>8. ASSUME NEW d \in Device, MarkBroadcast(d) \/ Crash(d) PROVE FALSE
  BY <1>8 DEF MarkBroadcast, Crash
<1>9. CASE Next
  BY <1>2, <1>3, <1>4, <1>5, <1>6, <1>9 DEF Next
<1> QED BY <1>5, <1>7, <1>8, <1>9 DEF PushNext, pushVars

LEMMA SenderHoldsNext == PushInv /\ SenderHolds /\ [PushNext]_pushVars => SenderHolds'
<1> SUFFICES ASSUME PushInv, SenderHolds, [PushNext]_pushVars, NEW x \in net', x.type # "Sync"
             PROVE  x.changes \subseteq log'[x.from]
  BY DEF SenderHolds
<1>1. x.from \in Device /\ x.changes \subseteq log[x.from]
  <2>1. CASE x \in net
    BY <2>1, PushMessageTypes DEF SenderHolds, PushInv
  <2> QED BY <2>1, SentFromLog
<1> QED BY <1>1, LogsGrow

LEMMA PushNextRefines ==
  PushInv /\ PushInv' /\ SenderHolds /\ [PushNext]_pushVars => [Promises!Next]_log
<1> SUFFICES ASSUME PushInv, PushInv', SenderHolds, [PushNext]_pushVars
             PROVE  UNCHANGED log \/ Promises!Next
  OBVIOUS
<1>0. Promises!TypeOK' /\ log \in [Device -> SUBSET Change]
  BY DEF PushInv, PushTypeOK, Promises!TypeOK
<1>1. ASSUME NEW d \in Authors, Author(d) PROVE Promises!Next
  <2>1. d \in Device
    BY AntiEntropyAssumption
  <2>2. Promises!Author(d)
    BY <1>0, <1>1, <2>1, AuthorRefines DEF PushInv, PushTypeOK
  <2> QED BY <1>0, <2>1, <2>2 DEF Promises!Next
<1>2. ASSUME NEW m \in net, Receive(m) \/ Accept(m) PROVE Promises!Next
  <2>1. /\ m.type # "Sync"
        /\ log' = [log EXCEPT ![m.to] = @ \cup Fresh(log[m.to], Kept(m.to, m.changes))]
    BY <1>2 DEF Receive, Accept, Store
  <2>2. m.to \in Device /\ m.from \in Device
    BY PushMessageTypes DEF PushInv
  <2>3. log'[m.to] \ log[m.to] \subseteq log[m.from]
    BY <1>0, <2>1, <2>2 DEF SenderHolds, Fresh, Kept
  <2>4. Promises!OnlyGrows(m.to)
    BY <1>0, <2>1, <2>2 DEF Promises!OnlyGrows
  <2> QED BY <1>0, <2>2, <2>3, <2>4 DEF Promises!Next, Promises!Learn, Promises!New
<1>3. ASSUME NEW m \in net, Serve(m) \/ Lose(m) PROVE UNCHANGED log
  BY <1>3 DEF Serve, Lose
<1>4. ASSUME NEW d \in Device, NEW p \in Device,
             RequestSyncFromAll(d) \/ Meet(d, p) \/ Part(d, p)
      PROVE  UNCHANGED log
  BY <1>4 DEF RequestSyncFromAll, Meet, Part
<1>5. ASSUME NEW d \in Authors, Reenroll(d) PROVE UNCHANGED log
  BY <1>5 DEF Reenroll
<1>6. ASSUME NEW d \in Device, Broadcast(d) \/ MarkBroadcast(d) \/ Crash(d) PROVE UNCHANGED log
  BY <1>6 DEF Broadcast, MarkBroadcast, Crash
<1>7. CASE Next
  BY <1>1, <1>2, <1>3, <1>4, <1>5, <1>7 DEF Next
<1>8. CASE UNCHANGED pushVars
  BY <1>8 DEF pushVars
<1> QED BY <1>2, <1>6, <1>7, <1>8 DEF PushNext

(* With pushes, gossip and crashes the logs still only author and learn:    *)
(* live replication implements the abstract change log.  (It does skip      *)
(* records, which catching up alone does not.)                             *)
THEOREM PushImplements == PushSpec => Implements
<1>1. PushInit => Promises!Init /\ SenderHolds
  BY InitRefines DEF PushInit, Init, SenderHolds
<1> QED BY <1>1, PushInvariant, SenderHoldsNext, PushNextRefines, PTL
        DEF PushSpec, Implements, Promises!Spec
-----------------------------------------------------------------------------
(* Pushes to peers hold back what a read-only device writes; gossip, which  *)
(* reaches devices that have not met it, does not.                         *)

MetBothWays == \A d, e \in Device : e \in authed[d] => d \in authed[e]

LEMMA MetBothWaysNext == ASSUME PushInv, MetBothWays, [PushNext]_pushVars PROVE MetBothWays'
<1> USE DEF MetBothWays
<1>0. authed \in [Device -> SUBSET Device]
  BY DEF PushInv, PushTypeOK
<1>1. CASE UNCHANGED authed
  BY <1>1
<1>2. ASSUME NEW d \in Device, NEW p \in Device,
             \/ authed' = [authed EXCEPT ![d] = @ \cup {p}, ![p] = @ \cup {d}]
             \/ authed' = [authed EXCEPT ![d] = @ \ {p}, ![p] = @ \ {d}]
      PROVE  MetBothWays'
  BY <1>0, <1>2
<1>3. ASSUME NEW d \in Device, authed' = [p \in Device |-> IF p = d THEN {} ELSE authed[p] \ {d}]
      PROVE  MetBothWays'
  BY <1>0, <1>3
<1>4. ASSUME NEW d \in Device, NEW p \in Device, Meet(d, p) \/ Part(d, p) PROVE MetBothWays'
  BY <1>2, <1>4 DEF Meet, Part
<1>5. ASSUME NEW d \in Device, Reenroll(d) \/ Crash(d) PROVE MetBothWays'
  BY <1>3, <1>5 DEF Reenroll, Crash
<1>6. CASE Next
  <2>1. ASSUME NEW m \in net, Serve(m) \/ Receive(m) \/ Lose(m) PROVE UNCHANGED authed
    BY <2>1 DEF Serve, Receive, Lose
  <2>2. ASSUME NEW d \in Authors, Author(d) PROVE UNCHANGED authed
    BY <2>2 DEF Author
  <2>3. ASSUME NEW d \in Device, RequestSyncFromAll(d) PROVE UNCHANGED authed
    BY <2>3 DEF RequestSyncFromAll
  <2> QED BY <1>1, <1>4, <1>5, <1>6, <2>1, <2>2, <2>3, AntiEntropyAssumption DEF Next
<1>7. ASSUME NEW d \in Device, Broadcast(d) \/ MarkBroadcast(d) PROVE UNCHANGED authed
  BY <1>7 DEF Broadcast, MarkBroadcast
<1>8. ASSUME NEW m \in net, Accept(m) PROVE UNCHANGED authed
  BY <1>8 DEF Accept
<1> QED BY <1>1, <1>5, <1>6, <1>7, <1>8 DEF PushNext, pushVars

LEMMA PushRolesKnown ==
  ASSUME ~Gossips, PushInv, MetBothWays, RolesKnown, [PushNext]_pushVars
  PROVE  RolesKnown'
<1>0. RolesTyped
  BY PushMessageTypes DEF PushInv, PushTypeOK, RolesTyped
<1>1. CASE [Next]_vars
  BY <1>0, <1>1, RolesKnownNext
<1>2. ASSUME NEW d \in Device, Broadcast(d) PROVE RolesKnown'
  <2>1. UNCHANGED <<authed, readonly, barred>>
    BY <1>2 DEF Broadcast, roles
  <2>2. \A m \in net' : m \in net \/ (m.type = "Push" /\ m.from = d /\ m.to \in authed[d])
    BY <1>2 DEF Broadcast
  <2>3. \A e \in authed[d] : e \in Device /\ (d \in readonly => d \in barred[e])
    BY <1>0 DEF RolesTyped, RolesKnown, MetBothWays
  <2> QED BY <2>1, <2>2, <2>3 DEF RolesKnown
<1>3. ASSUME NEW d \in Device, MarkBroadcast(d) \/ Crash(d) PROVE RolesKnown'
  <2>1. /\ \A e \in Device : authed'[e] \subseteq authed[e]
        /\ net' \subseteq net /\ UNCHANGED <<readonly, barred>>
    BY <1>0, <1>3 DEF MarkBroadcast, Crash, roles, RolesTyped
  <2> QED BY <2>1 DEF RolesKnown
<1>4. ASSUME NEW m \in net, Accept(m) PROVE RolesKnown'
  BY <1>4 DEF Accept, roles, RolesKnown
<1> QED BY <1>1, <1>2, <1>3, <1>4 DEF PushNext, pushVars, vars

LEMMA PushContainedNext ==
  ASSUME PushInv, SenderHolds, RolesKnown, [PushNext]_pushVars,
         NEW o \in readonly \cap readonly'
  PROVE  Out(o)' = Out(o)
<1> USE DEF PushInv
<1>0. o \in Device /\ log \in [Device -> SUBSET Change]
  BY DEF PushTypeOK
<1>1. CASE UNCHANGED log
  BY <1>1 DEF Out, OwnRecords
<1>2. ASSUME NEW d \in Authors, Author(d) PROVE Out(o)' = Out(o)
  BY <1>0, <1>2, ContainedAuthor, AntiEntropyAssumption
<1>3. ASSUME NEW m \in net, Receive(m) \/ Accept(m) PROVE Out(o)' = Out(o)
  <2>1. m.type # "Sync" /\ Store(m.to, m.changes)
    BY <1>3 DEF Receive, Accept
  <2>2. m.to \in Device /\ m.from \in Device /\ m.changes \subseteq log[m.from]
    BY <2>1, PushMessageTypes DEF SenderHolds
  <2>3. m.from = o => o \in barred[m.to]
    BY <2>1 DEF RolesKnown
  <2> QED BY <1>0, <2>1, <2>2, <2>3, ContainedStore
<1>4. ASSUME NEW m \in net, Serve(m) \/ Lose(m) PROVE UNCHANGED log
  BY <1>4 DEF Serve, Lose
<1>5. ASSUME NEW d \in Device, NEW p \in Device,
             RequestSyncFromAll(d) \/ Meet(d, p) \/ Part(d, p)
      PROVE  UNCHANGED log
  BY <1>5 DEF RequestSyncFromAll, Meet, Part
<1>6. ASSUME NEW d \in Authors, Reenroll(d) PROVE UNCHANGED log
  BY <1>6 DEF Reenroll
<1>7. ASSUME NEW d \in Device, Broadcast(d) \/ MarkBroadcast(d) \/ Crash(d) PROVE UNCHANGED log
  BY <1>7 DEF Broadcast, MarkBroadcast, Crash
<1>8. CASE Next
  BY <1>1, <1>2, <1>3, <1>4, <1>5, <1>6, <1>8 DEF Next
<1>9. CASE UNCHANGED pushVars
  BY <1>1, <1>9 DEF pushVars
<1> QED BY <1>1, <1>3, <1>7, <1>8, <1>9 DEF PushNext

(* Without gossip, what a read-only device writes does not get out by       *)
(* pushes either, whatever crashes and however often roles change.  With   *)
(* gossip it may: security.md names the peer that has never met it.        *)
THEOREM PushReadOnlyContained ==
  ASSUME ~Gossips
  PROVE  PushSpec => [][\A o \in readonly \cap readonly' : Out(o)' = Out(o)]_pushVars
<1>1. PushInit => SenderHolds /\ MetBothWays /\ RolesKnown
  BY DEF PushInit, Init, SenderHolds, MetBothWays, RolesKnown
<1>2. PushInv /\ MetBothWays /\ [PushNext]_pushVars => MetBothWays'
  BY MetBothWaysNext
<1>3. PushInv /\ MetBothWays /\ RolesKnown /\ [PushNext]_pushVars => RolesKnown'
  BY PushRolesKnown
<1>4. PushInv /\ SenderHolds /\ RolesKnown /\ [PushNext]_pushVars
        => [\A o \in readonly \cap readonly' : Out(o)' = Out(o)]_pushVars
  BY PushContainedNext
<1> QED BY <1>1, <1>2, <1>3, <1>4, SenderHoldsNext, PushInvariant, PTL DEF PushSpec
=============================================================================

-------------------------- MODULE MembershipProofs --------------------------
(***************************************************************************)
(* Revocation lists only gain names, and nobody is admitted whose           *)
(* certificate the list at hand names, for any number of phones, invites    *)
(* and connections.                                                         *)
(*                                                                          *)
(* Lists are made by the server alone and copied by everybody else          *)
(* (HeldCopied), so it suffices that the server's next list goes with all   *)
(* that exist: it names what they name, whatever happens between the two    *)
(* statements that read it (ReadingKnows, NamesKnown), and as long as the   *)
(* clock is not set back none has a later stamp (StampsPast).  That a phone *)
(* never overwrites a newer list on its disk needs, besides, that joining   *)
(* and running exclude each other (OneWriter).  That a serial or a stamp    *)
(* never outgrows its type is counted (Counted): every serial costs an      *)
(* invite, and every revocation on its way a row that was active.           *)
(***************************************************************************)
EXTENDS Membership, FiniteSetTheorems, SequenceTheorems, TLAPS

RevocationList == [stamp : Nat, revoked : SUBSET Nat]
Saved == [cert : Cert, list : RevocationList]

Greeting == [type : {"Hello", "Reply"}, conn : Conn, from : Node, to : Node,
             flushed : BOOLEAN, cert : Cert, list : RevocationList]
Answered == [step : {"answered"}, cert : Cert, list : RevocationList]
Redeemed == [step : {"redeemed"}, cert : Cert]

(* The devices that are members.                                            *)
Active == {d \in Device : device[d].serial # 0 /\ ~device[d].revoked}

(* Every serial was given out for an invite, and every member and every     *)
(* revocation on its way has a serial of its own.                           *)
Counted ==
  /\ 0 < now /\ now <= MaxNow /\ updated <= MaxNow
  /\ expires \in Seq(1 .. MaxNow + InviteTtl) /\ Len(expires) <= MaxInvites
  /\ spent \subseteq DOMAIN expires
  /\ nextSerial = Cardinality(spent) + 1
  /\ publishing \in Nat /\ publishing + Cardinality(Active) <= Cardinality(spent)

RegisterTyped ==
  /\ now \in Nat /\ updated \in Nat
  /\ nextSerial \in Nat \ {0}
  /\ device \in [Device -> [serial : Nat, revoked : BOOLEAN]]
  /\ reading \in {NotReading} \cup SUBSET Nat
  /\ enrolling \in [Phones -> {NoEnrolment} \cup Redeemed \cup Answered]

NodesTyped ==
  /\ disk \in [Phones -> Saved]
  /\ mem \in [Node -> Saved]
  /\ open \in [Node -> SUBSET (Conn \X Node)]
  /\ greeted \in [Node -> SUBSET Node]
  /\ authed \in [Node -> SUBSET Node]
  /\ known \in [Node -> [Node -> Serial \cup {Nobody}]]
  /\ net \subseteq Greeting \cup Others

(* A serial belongs to at most one row, and was given out before.          *)
SerialsUnique ==
  /\ \A d \in Device : /\ device[d].serial < nextSerial
                       /\ device[d].revoked => device[d].serial # 0
  /\ \A d, e \in Device : d # e /\ device[d].serial = device[e].serial => device[d].serial = 0

(* The lists that have been made, and the one whose names are read.        *)
Held ==
  {disk[d].list : d \in Phones} \cup {mem[n].list : n \in Node}
  \cup {m.list : m \in {x \in net : Greets(x)}}
  \cup {enrolling[d].list : d \in {e \in Phones : enrolling[e].step = "answered"}}
Pending == {ListOf(names) : names \in {reading} \ {NotReading}}

StampsBounded == \A l \in Lists : l.stamp <= MaxNow

StampsPast == updated <= now /\ \A l \in Lists : l.stamp <= updated

NamesKnown == \A l \in Lists : l.revoked \subseteq Revoked \cup Superseded

(* Whoever reads the names reads all that any list names by then, and no   *)
(* other list is made before this one.                                     *)
ReadingKnows == reading # NotReading =>
  \A l \in Held : l.revoked \subseteq reading \cup Superseded

(* A phone's saved enrolment is written either by joining or by its node,  *)
(* never by both, and the node knows what it has written.                  *)
OneWriter ==
  /\ \A d \in Phones \cap running : enrolling[d] = NoEnrolment /\ mem[d].list = disk[d].list
  /\ \A n \in Node : open[n] # {} => n \in running

(* The list that answers an enrolment knows what the phone knew before.    *)
AnswersNewest == \A d \in Phones : enrolling[d].step = "answered" =>
  disk[d].list.revoked \subseteq enrolling[d].list.revoked \cup Superseded

AllGreeted == \A n \in Node : \A l \in open[n] : l[2] \in greeted[n]

Typed == Counted /\ RegisterTyped /\ NodesTyped
MembershipInv ==
  /\ Typed /\ SerialsUnique /\ StampsBounded /\ NamesKnown /\ ReadingKnows
  /\ OneWriter /\ AnswersNewest

(* What holds besides while the clock is not set back.                     *)
StampsOrdered == StampsPast /\ NewerNamesMore
-----------------------------------------------------------------------------
(* Types.                                                                  *)

LEMMA MessageTypes == ASSUME NEW m \in Greeting \cup Others
  PROVE /\ m.from \in Node /\ m.to \in Node /\ m.conn \in Conn
        /\ Greets(m) =>
             m \in Greeting /\ m.cert \in Cert /\ m.list \in RevocationList
        /\ [m EXCEPT !.flushed = TRUE] \in Greeting \cup Others
        /\ [m EXCEPT !.flushed = TRUE].type = m.type
        /\ Greets(m) => [m EXCEPT !.flushed = TRUE].list = m.list
<1>1. CASE m \in Greeting
  BY <1>1 DEF Greeting, Greets
<1>2. CASE m \in Others
  BY <1>2 DEF Others, Greets
<1> QED BY <1>1, <1>2

LEMMA ListOfTyped == ASSUME RegisterTyped, NEW names \in SUBSET Nat
  PROVE /\ ListOf(names) \in RevocationList /\ ListOf(names).revoked = names
        /\ ListOf(names).stamp = updated \/ ListOf(names) = Empty
<1>1. Empty \in RevocationList
  BY DEF Empty, RevocationList
<1> QED BY <1>1 DEF ListOf, RevocationList, RegisterTyped, Empty

LEMMA RegisterLists == RegisterTyped =>
  /\ Revoked \subseteq Nat
  /\ Crl \in RevocationList /\ Crl.revoked = Revoked
  /\ Crl.stamp = updated \/ Crl = Empty
  /\ Empty \in RevocationList /\ NotEnrolled \in Saved
  /\ reading # NotReading => /\ reading \in SUBSET Nat
                             /\ ListOf(reading) \in RevocationList
                             /\ ListOf(reading).revoked = reading
                             /\ ListOf(reading).stamp = updated \/ ListOf(reading) = Empty
<1> SUFFICES ASSUME RegisterTyped
    PROVE  /\ Revoked \subseteq Nat
           /\ Crl \in RevocationList /\ Crl.revoked = Revoked
           /\ Crl.stamp = updated \/ Crl = Empty
           /\ Empty \in RevocationList /\ NotEnrolled \in Saved
           /\ reading # NotReading => /\ reading \in SUBSET Nat
                                      /\ ListOf(reading) \in RevocationList
                                      /\ ListOf(reading).revoked = reading
                                      /\ \/ ListOf(reading).stamp = updated
                                         \/ ListOf(reading) = Empty
  OBVIOUS
<1>1. Revoked \in SUBSET Nat
  BY DEF RegisterTyped, Revoked
<1>2. Empty \in RevocationList /\ NotEnrolled \in Saved
  BY SeedStoreAssumption
  DEF Empty, NotEnrolled, RevocationList, Saved, Cert, Serial, ServerSerial
<1>3. Crl \in RevocationList /\ Crl.revoked = Revoked /\ (Crl.stamp = updated \/ Crl = Empty)
  BY <1>1, ListOfTyped DEF Crl
<1>4. ASSUME reading # NotReading
      PROVE  /\ reading \in SUBSET Nat
             /\ ListOf(reading) \in RevocationList /\ ListOf(reading).revoked = reading
             /\ ListOf(reading).stamp = updated \/ ListOf(reading) = Empty
  <2>1. reading \in SUBSET Nat
    BY <1>4 DEF RegisterTyped
  <2> QED BY <2>1, ListOfTyped
<1> QED BY <1>1, <1>2, <1>3, <1>4

LEMMA NewListTyped == ASSUME NodesTyped, NEW m \in net, Greets(m)
  PROVE /\ NewList(m) \in RevocationList
        /\ NewList(m) \in {mem[m.to].list, m.list}
        /\ NewList(m) # mem[m.to].list => mem[m.to].list.stamp < m.list.stamp
<1>1. m.to \in Node /\ m.list \in RevocationList /\ mem[m.to].list \in RevocationList
  BY MessageTypes DEF NodesTyped, Saved
<1> QED BY <1>1 DEF NewList, MergeCrl, RevocationList

(* Counting members, serials and invites.                                   *)
LEMMA UpTo == ASSUME NEW L \in Nat
  PROVE IsFiniteSet(1 .. L) /\ Cardinality(1 .. L) = L
BY FS_Interval

LEMMA CountsFinite ==
  ASSUME NEW L \in Nat, spent \subseteq 1 .. L
  PROVE  /\ IsFiniteSet(spent) /\ Cardinality(spent) \in Nat /\ Cardinality(spent) <= L
         /\ IsFiniteSet(Active) /\ Cardinality(Active) \in Nat
<1>1. IsFiniteSet(1 .. L) /\ Cardinality(1 .. L) = L
  BY UpTo
<1>2. IsFiniteSet(spent) /\ Cardinality(spent) <= L
  BY <1>1, FS_Subset
<1>3. IsFiniteSet(Active)
  BY FS_Subset, SeedStoreAssumption DEF Active
<1> QED BY <1>2, <1>3, FS_CardinalityType

LEMMA CountedInit == Init => Counted
<1> SUFFICES ASSUME Init PROVE Counted
  OBVIOUS
<1>1. PICK joined \in SUBSET Absent :
        /\ Cardinality(joined) <= MaxInvites
        /\ expires = [i \in 1 .. Cardinality(joined) |-> now + InviteTtl]
        /\ spent = 1 .. Cardinality(joined)
        /\ nextSerial = Cardinality(joined) + 1
        /\ \E serial \in Bijection(joined, 1 .. Cardinality(joined)) :
             device = [d \in Device |->
               [serial |-> IF d \in joined THEN serial[d] ELSE 0, revoked |-> FALSE]]
  BY DEF Init, StoreInit
<1> DEFINE count == Cardinality(joined)
<1>2. IsFiniteSet(joined) /\ count \in Nat
  BY FS_Subset, FS_CardinalityType, SeedStoreAssumption DEF Device
<1>3. Active \subseteq joined
  BY <1>1 DEF Active
<1>4. Cardinality(Active) \in Nat /\ Cardinality(Active) <= count
  BY <1>2, <1>3, FS_Subset, FS_CardinalityType
<1>5. now = 1 /\ publishing = 0 /\ updated = 0
  BY DEF Init, StoreInit
<1>6. now + InviteTtl \in 1 .. MaxNow + InviteTtl
  BY <1>5, SeedStoreAssumption
<1> HIDE DEF count
<1>7. count = Cardinality(joined)
  BY DEF count
<1>8. spent = 1 .. count /\ nextSerial = count + 1 /\ count <= MaxInvites
      /\ expires = [i \in 1 .. count |-> now + InviteTtl]
  BY <1>1, <1>7
<1>9. expires \in Seq(1 .. MaxNow + InviteTtl) /\ Len(expires) = count /\ DOMAIN expires = 1 .. count
  BY <1>2, <1>6, <1>8
<1>10. Cardinality(spent) = count
  BY <1>2, <1>8, UpTo
<1> QED BY <1>2, <1>4, <1>5, <1>8, <1>9, <1>10, SeedStoreAssumption DEF Counted

LEMMA TypedInit == Init => Typed
<1> SUFFICES ASSUME Init PROVE Typed
  OBVIOUS
<1>1. PICK joined \in SUBSET Absent :
        /\ nextSerial = Cardinality(joined) + 1
        /\ \E serial \in Bijection(joined, 1 .. Cardinality(joined)) :
             device = [d \in Device |->
               [serial |-> IF d \in joined THEN serial[d] ELSE 0, revoked |-> FALSE]]
  BY DEF Init, StoreInit
<1>2. Cardinality(joined) \in Nat
  BY FS_Subset, FS_CardinalityType, SeedStoreAssumption DEF Device
<1>3. device \in [Device -> [serial : Nat, revoked : BOOLEAN]]
  BY <1>1, <1>2 DEF Bijection, Injection, Surjection
<1>4. RegisterTyped
  BY <1>1, <1>2, <1>3 DEF Init, StoreInit, RegisterTyped
<1>6. Counted
  BY CountedInit
<1>5. NodesTyped
  BY <1>4, RegisterLists DEF Init, NodesTyped
<1> QED BY <1>4, <1>5, <1>6 DEF Typed

(* What the nodes do leaves the register alone, but for the end of reading *)
(* a list.                                                                 *)
Kept == <<now, expires, spent, nextSerial, device, updated, publishing, enrolling>>

LEMMA NodeSteps == ASSUME [Next]_vars, ~StoreStep, ~\E d \in Phones : CompleteEnrolment(d)
  PROVE UNCHANGED Kept /\ reading' \in {reading, NotReading}
<1>1. CASE \E d \in Phones : StartPhone(d)
  BY <1>1 DEF StartPhone, storeVars, Kept
<1>2. CASE StartSeed
  BY <1>2 DEF StartSeed, Kept
<1>3. CASE \E n \in Node : Stop(n)
  BY <1>3 DEF Stop, storeVars, Kept
<1>4. CASE \E m \in net : Handle(m)
  <2>1. PICK m \in net : OnHello(m) \/ ResponseSent(m) \/ OnReply(m) \/ OnDenied(m) \/ OnAsk(m)
    BY <1>4 DEF Handle
  <2>2. CASE OnHello(m)
    BY <2>2 DEF OnHello, storeVars, Kept
  <2>3. CASE ResponseSent(m)
    BY <2>3 DEF ResponseSent, storeVars, Kept
  <2>4. CASE OnReply(m)
    BY <2>4 DEF OnReply, storeVars, Kept
  <2>5. CASE OnDenied(m) \/ OnAsk(m)
    BY <2>5 DEF OnDenied, OnAsk, storeVars, Kept
  <2> QED BY <2>1, <2>2, <2>3, <2>4, <2>5
<1>5. CASE \E n, p \in Node : Connect(n, p)
  BY <1>5 DEF Connect, storeVars, Kept
<1>6. CASE \E n, p \in Node, c \in Conn : Close(n, c, p) \/ Fail(n, c, p)
  BY <1>6 DEF Close, Fail, CloseAt, storeVars, Kept
<1>7. CASE UNCHANGED vars
  BY <1>7 DEF vars, Kept
<1>8. CASE \E n, p \in Node : Ask(n, p)
  BY <1>8 DEF Ask, storeVars, Kept
<1>9. CASE \E m \in net : TimeOut(m)
  BY <1>9 DEF TimeOut, storeVars, Kept
<1> QED BY <1>1, <1>2, <1>3, <1>4, <1>5, <1>6, <1>7, <1>8, <1>9 DEF Next

LEMMA CountedNext == Typed /\ [Next]_vars => Counted'
<1> SUFFICES ASSUME Typed, [Next]_vars PROVE Counted'
  OBVIOUS
<1>0. /\ 0 < now /\ now <= MaxNow /\ now \in Nat /\ updated <= MaxNow
      /\ expires \in Seq(1 .. MaxNow + InviteTtl) /\ Len(expires) \in Nat
      /\ Len(expires) <= MaxInvites
      /\ DOMAIN expires = 1 .. Len(expires) /\ spent \subseteq 1 .. Len(expires)
      /\ nextSerial = Cardinality(spent) + 1
      /\ publishing \in Nat /\ publishing + Cardinality(Active) <= Cardinality(spent)
      /\ device \in [Device -> [serial : Nat, revoked : BOOLEAN]]
  BY DEF Typed, Counted, RegisterTyped
<1>01. /\ IsFiniteSet(spent) /\ Cardinality(spent) \in Nat
       /\ IsFiniteSet(Active) /\ Cardinality(Active) \in Nat
  BY <1>0, CountsFinite
<1>1. CASE CreateInvite
  <2>1. expires' = Append(expires, now + InviteTtl) /\ Len(expires) < MaxInvites
    BY <1>1 DEF CreateInvite
  <2>2. now + InviteTtl \in 1 .. MaxNow + InviteTtl
    BY <1>0, SeedStoreAssumption
  <2>3. expires' \in Seq(1 .. MaxNow + InviteTtl) /\ Len(expires') = Len(expires) + 1
        /\ DOMAIN expires' = 1 .. Len(expires')
    BY <1>0, <2>1, <2>2
  <2>4. Len(expires') <= MaxInvites /\ spent \subseteq DOMAIN expires'
    BY <1>0, <2>1, <2>3, SeedStoreAssumption
  <2>5. UNCHANGED <<now, updated, spent, nextSerial, device, publishing>> /\ Active' = Active
    BY <1>1 DEF CreateInvite, Active
  <2> QED BY <1>0, <2>3, <2>4, <2>5 DEF Counted
<1>2. CASE \E d \in Phones \ running, i \in DOMAIN expires : Redeem(d, i)
  <2>1. PICK d \in Phones, i \in DOMAIN expires : Redeem(d, i)
    BY <1>2
  <2>2. /\ i \in DOMAIN expires \ spent /\ spent' = spent \cup {i}
        /\ nextSerial' = nextSerial + 1
        /\ device' = [device EXCEPT ![d] = [serial |-> nextSerial, revoked |-> FALSE]]
        /\ UNCHANGED <<now, expires, updated, publishing>>
    BY <2>1 DEF Redeem, Allocate
  <2>3. Cardinality(spent') = Cardinality(spent) + 1
    BY <1>01, <2>2, FS_AddElement
  <2>4. Active' \subseteq Active \cup {d}
    BY <1>0, <2>2 DEF Active
  <2>5. Cardinality(Active') \in Nat /\ Cardinality(Active') <= Cardinality(Active) + 1
    <3> DEFINE more == Active \cup {d}
    <3>1. /\ IsFiniteSet(more)
          /\ Cardinality(more) = IF d \in Active THEN Cardinality(Active)
                                                 ELSE Cardinality(Active) + 1
      BY <1>01, FS_AddElement
    <3> HIDE DEF more
    <3>2. Cardinality(more) <= Cardinality(Active) + 1 /\ Cardinality(more) \in Nat
      BY <1>01, <3>1
    <3>3. IsFiniteSet(Active') /\ Cardinality(Active') <= Cardinality(more)
      BY <2>4, <3>1, FS_Subset DEF more
    <3>4. Cardinality(Active') \in Nat
      BY <3>3, FS_CardinalityType
    <3> QED BY <1>01, <3>2, <3>3, <3>4
  <2>6. spent' \subseteq DOMAIN expires'
    BY <1>0, <2>2
  <2>7. nextSerial' = Cardinality(spent') + 1
    BY <1>0, <2>2, <2>3
  <2>8. publishing' + Cardinality(Active') <= Cardinality(spent')
    BY <1>0, <1>01, <2>2, <2>3, <2>5
  <2> QED BY <1>0, <2>2, <2>6, <2>7, <2>8 DEF Counted
<1>3. CASE \E d \in Device : Revoke(d)
  <2>1. PICK d \in Device : Revoke(d)
    BY <1>3
  <2>2. /\ d \in Active /\ device' = [device EXCEPT ![d].revoked = TRUE]
        /\ publishing' = publishing + 1
        /\ UNCHANGED <<now, expires, spent, nextSerial, updated>>
    BY <2>1 DEF Revoke, Active
  <2>3. Active' = Active \ {d}
    BY <1>0, <2>2 DEF Active
  <2>4. Cardinality(Active') = Cardinality(Active) - 1
    BY <1>01, <2>2, <2>3, FS_RemoveElement
  <2>5. publishing' + Cardinality(Active') <= Cardinality(spent')
    BY <1>0, <1>01, <2>2, <2>4
  <2> QED BY <1>0, <2>2, <2>5 DEF Counted
<1>4. CASE Publish
  <2>1. /\ publishing > 0 /\ publishing' = publishing - 1 /\ updated' = now
        /\ UNCHANGED <<now, expires, spent, nextSerial, device>> /\ Active' = Active
    BY <1>4 DEF Publish, Active
  <2>2. publishing' \in Nat /\ publishing' + Cardinality(Active') <= Cardinality(spent')
    BY <1>0, <1>01, <2>1
  <2> QED BY <1>0, <2>1, <2>2 DEF Counted
<1>5. CASE PassTime
  <2>1. /\ now' \in 1 .. MaxNow \/ now' = now + 1
        /\ now' <= MaxNow
        /\ UNCHANGED <<expires, spent, nextSerial, device, updated, publishing>>
        /\ Active' = Active
    BY <1>5 DEF PassTime, Active
  <2>2. 0 < now' /\ now' <= MaxNow
    BY <1>0, <2>1, SeedStoreAssumption
  <2> QED BY <1>0, <2>1, <2>2 DEF Counted
<1>6. CASE UNCHANGED <<now, expires, spent, nextSerial, device, updated, publishing>>
  <2>1. Active' = Active
    BY <1>6 DEF Active
  <2> QED BY <1>0, <1>6, <2>1 DEF Counted
<1> QED
  <2>1. CASE StoreStep
    <3>1. CASE ReadNames \/ ServeCrl \/ \E d \in Phones : Answer(d) \/ LoseAnswer(d)
      BY <1>6, <3>1 DEF ReadNames, ServeCrl, Answer, LoseAnswer
    <3> QED BY <2>1, <1>1, <1>2, <1>3, <1>4, <1>5, <3>1 DEF StoreStep
  <2>2. CASE \E d \in Phones : CompleteEnrolment(d)
    BY <1>6, <2>2 DEF CompleteEnrolment
  <2>3. CASE ~StoreStep /\ ~\E d \in Phones : CompleteEnrolment(d)
    BY <2>3, <1>6, NodeSteps DEF Kept
  <2> QED BY <2>1, <2>2, <2>3

(* Certificates made now are within their bounds.                           *)
LEMMA Certified == ASSUME Typed
  PROVE /\ [serial |-> ServerSerial, expires |-> now + CertTtl] \in Cert
        /\ \A i \in DOMAIN expires \ spent :
             [serial |-> nextSerial, expires |-> now + CertTtl] \in Cert
<1>0. /\ 0 < now /\ now <= MaxNow /\ now \in Nat /\ Len(expires) \in Nat
      /\ Len(expires) <= MaxInvites
      /\ DOMAIN expires = 1 .. Len(expires) /\ spent \subseteq 1 .. Len(expires)
      /\ nextSerial = Cardinality(spent) + 1
  BY DEF Typed, Counted, RegisterTyped
<1>1. now + CertTtl \in 0 .. MaxNow + CertTtl
  BY <1>0, SeedStoreAssumption
<1>2. ServerSerial \in Serial
  BY SeedStoreAssumption DEF Serial, ServerSerial
<1>3. ASSUME NEW i \in DOMAIN expires \ spent PROVE nextSerial \in Serial
  <2>1. Cardinality(spent) \in Nat /\ IsFiniteSet(spent)
    BY <1>0, CountsFinite
  <2>2. Cardinality(spent \cup {i}) = Cardinality(spent) + 1
    BY <2>1, FS_AddElement
  <2> DEFINE more == spent \cup {i}
             all  == 1 .. Len(expires)
  <2>3. more \subseteq all
    BY <1>0
  <2>4. Cardinality(more) <= Len(expires)
    <3>1. IsFiniteSet(all) /\ Cardinality(all) = Len(expires)
      BY <1>0, UpTo
    <3> HIDE DEF more, all
    <3>2. Cardinality(more) <= Cardinality(all)
      BY <2>3, <3>1, FS_Subset
    <3> QED BY <3>1, <3>2
  <2>5. nextSerial \in Nat /\ nextSerial <= MaxInvites
    BY <1>0, <2>1, <2>2, <2>4, SeedStoreAssumption
  <2> QED BY <2>5 DEF Serial, ServerSerial
<1> QED BY <1>1, <1>2, <1>3 DEF Cert

LEMMA RegisterTypedNext == Typed /\ [Next]_vars => RegisterTyped'
<1> SUFFICES ASSUME Typed, [Next]_vars PROVE RegisterTyped'
  OBVIOUS
<1> USE DEF RegisterTyped
<1>1. CASE CreateInvite
  BY <1>1 DEF CreateInvite, Typed
<1>2. CASE \E d \in Phones \ running, i \in DOMAIN expires : Redeem(d, i)
  <2>1. PICK d \in Phones, i \in DOMAIN expires : Redeem(d, i)
    BY <1>2
  <2>2. [serial |-> nextSerial, expires |-> now + CertTtl] \in Cert
    BY <2>1, Certified DEF Redeem
  <2>3. enrolling' \in [Phones -> {NoEnrolment} \cup Redeemed \cup Answered]
    BY <2>1, <2>2 DEF Redeem, Typed, Redeemed
  <2>4. device' \in [Device -> [serial : Nat, revoked : BOOLEAN]]
    BY <2>1 DEF Redeem, Typed, Device
  <2>5. nextSerial' = nextSerial + 1 /\ UNCHANGED <<now, updated, reading>>
    BY <2>1 DEF Redeem, Allocate
  <2> QED BY <2>3, <2>4, <2>5 DEF Typed
<1>3. CASE \E d \in Phones : Answer(d) \/ LoseAnswer(d)
  <2>1. PICK d \in Phones : Answer(d) \/ LoseAnswer(d)
    BY <1>3
  <2>2. CASE Answer(d)
    <3>1. enrolling[d] \in Redeemed \cup Answered
      BY <2>2 DEF Answer, Typed, NoEnrolment
    <3>2. enrolling[d].cert \in Cert /\ ListOf(reading) \in RevocationList
      BY <2>2, <3>1, RegisterLists DEF Answer, Redeemed, Answered, Typed
    <3>3. [step |-> "answered", cert |-> enrolling[d].cert, list |-> ListOf(reading)] \in Answered
      BY <3>2 DEF Answered
    <3> QED BY <2>2, <3>3 DEF Answer, Typed
  <2>3. CASE LoseAnswer(d)
    BY <2>3 DEF LoseAnswer, Typed
  <2> QED BY <2>1, <2>2, <2>3
<1>4. CASE \E d \in Device : Revoke(d)
  BY <1>4 DEF Revoke, Typed
<1>5. CASE Publish
  BY <1>5 DEF Publish, Typed
<1>6. CASE PassTime
  BY <1>6 DEF PassTime, Typed
<1>9. CASE ReadNames
  BY <1>9, RegisterLists DEF ReadNames, Typed
<1>10. CASE ServeCrl
  BY <1>10 DEF ServeCrl, Typed
<1>7. CASE \E d \in Phones : CompleteEnrolment(d)
  BY <1>7 DEF CompleteEnrolment, Typed
<1>8. CASE UNCHANGED Kept /\ reading' \in {reading, NotReading}
  BY <1>8 DEF Kept, Typed
<1> QED
  <2>1. CASE StoreStep
    BY <2>1, <1>1, <1>2, <1>3, <1>4, <1>5, <1>6, <1>9, <1>10 DEF StoreStep
  <2>2. CASE ~StoreStep /\ ~\E d \in Phones : CompleteEnrolment(d)
    BY <2>2, <1>8, NodeSteps
  <2> QED BY <2>1, <2>2, <1>7

LEMMA AcceptTyped == ASSUME NodesTyped, NEW m \in net, Greets(m), AcceptPeer(m)
  PROVE /\ disk' \in [Phones -> Saved]
        /\ mem' \in [Node -> Saved]
        /\ authed' \in [Node -> SUBSET Node]
        /\ known' \in [Node -> [Node -> Serial \cup {Nobody}]]
<1>1. m.to \in Node /\ m.from \in Node /\ m.cert \in Cert
  BY MessageTypes DEF NodesTyped
<1>2. NewList(m) \in RevocationList
  BY NewListTyped
<1>3. mem' \in [Node -> Saved]
  <2>1. mem \in [Node -> Saved]
    BY DEF NodesTyped
  <2>2. [mem[m.to] EXCEPT !.list = NewList(m)] \in Saved
    BY <1>1, <1>2, <2>1 DEF Saved
  <2>3. mem' = [mem EXCEPT ![m.to] = [mem[m.to] EXCEPT !.list = NewList(m)]]
    BY DEF AcceptPeer
  <2> DEFINE s == [mem[m.to] EXCEPT !.list = NewList(m)]
  <2> HIDE DEF s
  <2> QED BY <1>1, <2>1, <2>2, <2>3 DEF s
<1>4. disk' \in [Phones -> Saved]
  BY <1>1, <1>3 DEF AcceptPeer, NodesTyped, Node
<1>5. authed' \in [Node -> SUBSET Node]
  <2>1. authed \in [Node -> SUBSET Node]
    BY DEF NodesTyped
  <2>2. authed' = authed \/ authed' = [authed EXCEPT ![m.to] = @ \cup {m.from}]
    BY DEF AcceptPeer
  <2> QED BY <1>1, <2>1, <2>2
<1>6. known' \in [Node -> [Node -> Serial \cup {Nobody}]]
  <2>1. m.cert.serial \in Serial \cup {Nobody}
    BY <1>1 DEF Cert
  <2>2. known \in [Node -> [Node -> Serial \cup {Nobody}]]
    BY DEF NodesTyped
  <2> DEFINE s == m.cert.serial
  <2>3. known' = known \/ known' = [known EXCEPT ![m.to][m.from] = s]
    BY DEF AcceptPeer
  <2> HIDE DEF s
  <2>4. s \in Serial \cup {Nobody}
    BY <2>1 DEF s
  <2> QED BY <1>1, <2>2, <2>3, <2>4
<1> QED BY <1>3, <1>4, <1>5, <1>6

LEMMA HandshakeTyped == ASSUME Typed, NEW m \in net,
                              OnHello(m) \/ ResponseSent(m) \/ OnReply(m) \/ OnDenied(m) \/ OnAsk(m)
  PROVE NodesTyped'
<1> USE DEF Typed
<1>1. CASE OnHello(m)
  <2>1. m.to \in Node /\ m.from \in Node /\ m.conn \in Conn /\ NewList(m) \in RevocationList
    BY <1>1, MessageTypes, NewListTyped DEF OnHello, Greets, NodesTyped
  <2>2. mem[m.to].cert \in Cert
    BY <2>1 DEF NodesTyped, Saved
  <2>3. [type |-> "Reply", conn |-> m.conn, from |-> m.to, to |-> m.from, flushed |-> FALSE,
         cert |-> mem[m.to].cert, list |-> NewList(m)] \in Greeting
    BY <2>1, <2>2 DEF Greeting
  <2>4. [type |-> "Denied", conn |-> m.conn, from |-> m.to, to |-> m.from, flushed |-> FALSE]
          \in Others
    BY <2>1 DEF Others
  <2>5. net' \subseteq Greeting \cup Others
    BY <1>1, <2>3, <2>4 DEF OnHello, NodesTyped
  <2>6. Greets(m) /\ AcceptPeer(m)
    BY <1>1 DEF OnHello, Greets
  <2> QED BY <1>1, <2>5, <2>6, AcceptTyped DEF OnHello, NodesTyped
<1>2. CASE ResponseSent(m)
  <2>1. net' \subseteq Greeting \cup Others
    BY <1>2, MessageTypes DEF ResponseSent, NodesTyped
  <2> QED BY <1>2, <2>1 DEF ResponseSent, NodesTyped
<1>3. CASE OnReply(m)
  <2>1. Greets(m) /\ AcceptPeer(m) /\ net' \subseteq net
    BY <1>3 DEF OnReply, Greets
  <2> QED BY <1>3, <2>1, AcceptTyped DEF OnReply, NodesTyped
<1>4. CASE OnDenied(m)
  BY <1>4 DEF OnDenied, NodesTyped
<1>5. CASE OnAsk(m)
  <2>1. m.to \in Node /\ m.from \in Node /\ m.conn \in Conn
    BY MessageTypes DEF NodesTyped
  <2>2. [type |-> IF Served(m) THEN "Answer" ELSE "Denied", conn |-> m.conn, from |-> m.to,
         to |-> m.from, flushed |-> FALSE] \in Others
    BY <2>1 DEF Others
  <2> QED BY <1>5, <2>2 DEF OnAsk, NodesTyped
<1> QED BY <1>1, <1>2, <1>3, <1>4, <1>5

LEMMA AskTyped == ASSUME NodesTyped, NEW n \in Node, NEW p \in Node, Ask(n, p)
  PROVE /\ NodesTyped' /\ \A x \in net' : Greets(x) => x \in net
        /\ UNCHANGED <<storeVars, disk, running, mem, open, greeted, authed, known>>
<1>1. PICK l \in To(n, p) :
        net' = net \cup {[type |-> "Ask", conn |-> l[1], from |-> n, to |-> p, flushed |-> TRUE]}
  BY DEF Ask
<1>2. l[1] \in Conn
  BY DEF To, NodesTyped
<1>3. [type |-> "Ask", conn |-> l[1], from |-> n, to |-> p, flushed |-> TRUE] \in Others
  BY <1>2 DEF Others
<1>4. UNCHANGED <<storeVars, disk, running, mem, open, greeted, authed, known>>
  BY DEF Ask
<1>5. \A x \in net' : Greets(x) => x \in net
  BY <1>1 DEF Greets
<1>6. net' \subseteq Greeting \cup Others
  BY <1>1, <1>3 DEF NodesTyped
<1> QED BY <1>4, <1>5, <1>6 DEF NodesTyped

LEMMA HelloTyped == ASSUME NodesTyped, NEW n \in Node, NEW p \in Node, NEW c \in Conn,
                          NEW a \in Introductions(n, p, c)
  PROVE a \subseteq {m \in Greeting : m.type = "Hello" /\ m.list = mem[n].list}
<1>1. mem[n].cert \in Cert /\ mem[n].list \in RevocationList
  BY DEF NodesTyped, Saved
<1>2. SUFFICES ASSUME NEW l \in Conn \X Node,
                     a = {[type |-> "Hello", conn |-> l[1], from |-> n, to |-> p,
                           flushed |-> TRUE, cert |-> mem[n].cert, list |-> mem[n].list]}
              PROVE  a \subseteq {m \in Greeting : m.type = "Hello" /\ m.list = mem[n].list}
  <2>1. To(n, p) \subseteq Conn \X Node /\ <<c, p>> \in Conn \X Node
    BY DEF To, NodesTyped
  <2> QED BY <2>1 DEF Introductions
<1>3. l[1] \in Conn
  OBVIOUS
<1> QED BY <1>1, <1>2, <1>3 DEF Greeting

LEMMA ConnectTyped == ASSUME NodesTyped, NEW n \in Node, NEW p \in Node, Connect(n, p)
  PROVE /\ NodesTyped'
        /\ \A m \in net' \ net : /\ m.type = "Hello"
                                 /\ m.list = mem[n].list \/ m.list = mem[p].list
<1>1. PICK c \in Unused :
        /\ open' = [open EXCEPT ![n] = @ \cup {<<c, p>>}, ![p] = @ \cup {<<c, n>>}]
        /\ \E a \in Introductions(n, p, c) : \E b \in Introductions(p, n, c) :
              net' = net \cup a \cup b
  BY DEF Connect
<1>2. c \in Conn
  BY DEF Unused
<1>3. PICK a \in Introductions(n, p, c) :
        \E b \in Introductions(p, n, c) : net' = net \cup a \cup b
  BY <1>1
<1>4. PICK b \in Introductions(p, n, c) : net' = net \cup a \cup b
  BY <1>3
<1>5. /\ a \subseteq {m \in Greeting : m.type = "Hello" /\ m.list = mem[n].list}
      /\ b \subseteq {m \in Greeting : m.type = "Hello" /\ m.list = mem[p].list}
  BY <1>2, HelloTyped
<1>6. net' \subseteq Greeting \cup Others
  BY <1>4, <1>5 DEF NodesTyped
<1>7. open' \in [Node -> SUBSET (Conn \X Node)]
  BY <1>1, <1>2 DEF NodesTyped
<1>8. greeted' \in [Node -> SUBSET Node]
  BY DEF Connect, NodesTyped
<1> QED BY <1>4, <1>5, <1>6, <1>7, <1>8 DEF Connect, NodesTyped

LEMMA CloseTyped == ASSUME NodesTyped, NEW n \in Node, NEW p \in Node, NEW c \in Conn,
                          CloseAt(n, c, p)
  PROVE /\ NodesTyped'
        /\ net' \subseteq net
<1>1. greeted' \in [Node -> SUBSET Node] /\ authed' \in [Node -> SUBSET Node]
  <2>1. CASE Last(n, c, p)
    <3>1. greeted' = [greeted EXCEPT ![n] = @ \ {p}] /\ authed' = [authed EXCEPT ![n] = @ \ {p}]
      BY <2>1 DEF CloseAt
    <3>2. greeted[n] \ {p} \subseteq Node /\ authed[n] \ {p} \subseteq Node
      BY DEF NodesTyped
    <3> QED BY <3>1, <3>2 DEF NodesTyped
  <2>2. CASE ~Last(n, c, p)
    BY <2>2 DEF CloseAt, NodesTyped
  <2> QED BY <2>1, <2>2
<1>2. open' \in [Node -> SUBSET (Conn \X Node)]
  BY DEF CloseAt, NodesTyped
<1> QED BY <1>1, <1>2 DEF CloseAt, NodesTyped

LEMMA NodesTypedNext == Typed /\ [Next]_vars => NodesTyped'
<1> SUFFICES ASSUME Typed, [Next]_vars PROVE NodesTyped'
  OBVIOUS
<1> USE DEF Typed
<1>1. CASE StoreStep
  BY <1>1 DEF StoreStep, NodesTyped
<1>2. CASE \E d \in Phones : CompleteEnrolment(d)
  <2>1. PICK d \in Phones : CompleteEnrolment(d)
    BY <1>2
  <2>2. enrolling[d] \in Answered
    BY <2>1 DEF CompleteEnrolment, RegisterTyped, NoEnrolment, Redeemed
  <2>3. [cert |-> enrolling[d].cert, list |-> enrolling[d].list] \in Saved
    BY <2>2 DEF Answered, Saved
  <2> QED BY <2>1, <2>3 DEF CompleteEnrolment, NodesTyped
<1>3. CASE \E d \in Phones : StartPhone(d)
  BY <1>3 DEF StartPhone, NodesTyped
<1>4. CASE StartSeed
  <2>1. [cert |-> [serial |-> ServerSerial, expires |-> now + CertTtl],
         list |-> ListOf(reading)] \in Saved
    BY <1>4, RegisterLists, Certified DEF StartSeed, Saved
  <2> QED BY <1>4, <2>1 DEF StartSeed, NodesTyped
<1>5. CASE \E n \in Node : Stop(n)
  <2>1. PICK n \in Node : Stop(n)
    BY <1>5
  <2>2. net' \subseteq net /\ NotEnrolled \in Saved
    BY <2>1, RegisterLists DEF Stop
  <2> QED BY <2>1, <2>2 DEF Stop, NodesTyped
<1>6. CASE \E m \in net : Handle(m)
  BY <1>6, HandshakeTyped DEF Handle
<1>7. CASE \E n, p \in Node : Connect(n, p)
  BY <1>7, ConnectTyped
<1>8. CASE \E n, p \in Node, c \in Conn : Close(n, c, p) \/ Fail(n, c, p)
  BY <1>8, CloseTyped DEF Close, Fail
<1>9. CASE UNCHANGED vars
  BY <1>9 DEF vars, NodesTyped
<1>10. CASE \E n, p \in Node : Ask(n, p)
  BY <1>10, AskTyped
<1>11. CASE \E m \in net : TimeOut(m)
  BY <1>11 DEF TimeOut, NodesTyped
<1> QED BY <1>1, <1>2, <1>3, <1>4, <1>5, <1>6, <1>7, <1>8, <1>9, <1>10, <1>11 DEF Next
-----------------------------------------------------------------------------
(* Where lists come from.                                                  *)

LEMMA ListsAre ==
  /\ Lists = {Crl} \cup Pending \cup Held
  /\ \A l \in Pending : reading # NotReading /\ l = ListOf(reading)
  /\ reading # NotReading => ListOf(reading) \in Pending
BY DEF Lists, Pending, Held

LEMMA HeldAre ==
  /\ \A d \in Phones : /\ disk[d].list \in Held
                       /\ enrolling[d].step = "answered" => enrolling[d].list \in Held
  /\ \A n \in Node : mem[n].list \in Held
  /\ \A m \in net : Greets(m) => m.list \in Held
BY DEF Held

(* The lists there may be after a step.                                    *)
Copied == Held \cup Pending \cup {Empty}

LEMMA HeldFrom == ASSUME
    \A d \in Phones : disk'[d].list \in Copied,
    \A d \in Phones : enrolling'[d].step = "answered" => enrolling'[d].list \in Copied,
    \A n \in Node : mem'[n].list \in Copied,
    \A m \in net' : Greets(m) => m.list \in Copied
  PROVE Held' \subseteq Copied
BY DEF Held

LEMMA ListsTyped == Typed => \A l \in Lists : l \in RevocationList
<1> SUFFICES ASSUME Typed, NEW l \in Lists PROVE l \in RevocationList
  OBVIOUS
<1> USE DEF Typed
<1>1. CASE l = Crl \/ l \in Pending
  BY <1>1, RegisterLists, ListsAre
<1>2. CASE \E d \in Phones : l = disk[d].list
  BY <1>2 DEF NodesTyped, Saved
<1>3. CASE \E n \in Node : l = mem[n].list
  BY <1>3 DEF NodesTyped, Saved
<1>4. CASE \E m \in net : Greets(m) /\ l = m.list
  <2>1. PICK m \in net : Greets(m) /\ l = m.list
    BY <1>4
  <2>2. m \in Greeting \cup Others
    BY DEF NodesTyped
  <2> QED BY <2>1, <2>2, MessageTypes
<1>5. CASE \E d \in Phones : enrolling[d].step = "answered" /\ l = enrolling[d].list
  <2>1. PICK d \in Phones : enrolling[d].step = "answered" /\ l = enrolling[d].list
    BY <1>5
  <2>2. enrolling[d] \in Answered
    BY <2>1 DEF RegisterTyped, NoEnrolment, Redeemed
  <2> QED BY <2>1, <2>2 DEF Answered
<1> QED BY <1>1, <1>2, <1>3, <1>4, <1>5, ListsAre DEF Held

LEMMA AcceptLists == ASSUME NodesTyped, NEW m \in net, Greets(m), AcceptPeer(m)
  PROVE /\ mem'[m.to].list = NewList(m)
        /\ \A n \in Node : mem'[n].list = mem[n].list \/ mem'[n].list = m.list
        /\ \A d \in Phones : \/ disk'[d] = disk[d]
                             \/ /\ d = m.to /\ disk'[d].list = m.list
                                /\ mem[m.to].list.stamp < m.list.stamp
        /\ \A d \in Phones : mem[d].list = disk[d].list => mem'[d].list = disk'[d].list
<1>1. m.to \in Node /\ mem[m.to] \in Saved /\ NewList(m) \in RevocationList
  BY MessageTypes, NewListTyped DEF NodesTyped
<1> DEFINE l == NewList(m)
<1>2. mem' = [mem EXCEPT ![m.to].list = l]
  BY DEF AcceptPeer
<1>3. disk' = IF l # mem[m.to].list /\ m.to # Seed THEN [disk EXCEPT ![m.to] = mem'[m.to]] ELSE disk
  BY DEF AcceptPeer
<1>4. l \in {mem[m.to].list, m.list} /\ (l # mem[m.to].list => mem[m.to].list.stamp < m.list.stamp)
  BY NewListTyped
<1> HIDE DEF l
<1>5. mem'[m.to].list = l /\ \A n \in Node : n # m.to => mem'[n] = mem[n]
  BY <1>1, <1>2 DEF NodesTyped, Saved
<1>6. \A n \in Node : mem'[n].list = mem[n].list \/ mem'[n].list = m.list
  BY <1>4, <1>5
<1>7. ASSUME NEW d \in Phones, disk'[d] # disk[d]
      PROVE  d = m.to /\ disk'[d].list = m.list /\ mem[m.to].list.stamp < m.list.stamp
  <2>1. l # mem[m.to].list /\ disk' = [disk EXCEPT ![m.to] = mem'[m.to]]
    BY <1>3, <1>7
  <2>2. d = m.to /\ disk'[d] = mem'[m.to]
    BY <2>1, <1>7 DEF NodesTyped
  <2> QED BY <2>1, <2>2, <1>4, <1>5
<1>8. ASSUME NEW d \in Phones, mem[d].list = disk[d].list
      PROVE  mem'[d].list = disk'[d].list
  <2>1. d \in Node /\ d # Seed
    BY MembershipAssumption DEF Node, Device
  <2>2. CASE d # m.to
    BY <2>1, <2>2, <1>3, <1>5, <1>8 DEF NodesTyped
  <2>3. CASE d = m.to /\ l # mem[m.to].list
    BY <2>1, <2>3, <1>3 DEF NodesTyped
  <2>4. CASE d = m.to /\ l = mem[m.to].list
    BY <2>4, <1>3, <1>5, <1>8
  <2> QED BY <2>2, <2>3, <2>4
<1> QED BY <1>5, <1>6, <1>7, <1>8 DEF l

(* Only the server makes lists.                                            *)
LEMMA HeldCopied == Typed /\ [Next]_vars => Held' \subseteq Copied
<1> SUFFICES ASSUME Typed, [Next]_vars PROVE Held' \subseteq Copied
  OBVIOUS
<1>0. /\ Empty \in Copied /\ (reading # NotReading => ListOf(reading) \in Copied)
      /\ \A d \in Phones : /\ disk[d].list \in Copied
                           /\ enrolling[d].step = "answered" => enrolling[d].list \in Copied
      /\ \A n \in Node : mem[n].list \in Copied
      /\ \A m \in net : Greets(m) => m.list \in Copied
  BY ListsAre, HeldAre DEF Copied
<1> USE <1>0 DEF Typed
<1>1. CASE StoreStep
  <2>1. UNCHANGED <<disk, mem, net>>
    BY <1>1 DEF StoreStep
  <2>2. ASSUME NEW d \in Phones, enrolling'[d].step = "answered"
        PROVE  enrolling'[d].list \in Copied
    <3>1. CASE enrolling'[d] = enrolling[d]
      BY <3>1, <2>2
    <3>2. CASE \E e \in Phones, i \in DOMAIN expires : Redeem(e, i)
      BY <3>2, <2>2 DEF Redeem, RegisterTyped
    <3>3. CASE \E e \in Phones : Answer(e)
      BY <3>3, <2>2 DEF Answer, RegisterTyped
    <3>4. CASE \E e \in Phones : LoseAnswer(e)
      BY <3>4, <2>2 DEF LoseAnswer, RegisterTyped, NoEnrolment
    <3>5. CASE \/ CreateInvite \/ Publish \/ PassTime \/ ReadNames \/ ServeCrl
               \/ \E e \in Device : Revoke(e)
      BY <3>5, <3>1 DEF CreateInvite, Publish, PassTime, ReadNames, ServeCrl, Revoke
    <3> QED BY <1>1, <3>2, <3>3, <3>4, <3>5 DEF StoreStep
  <2> QED BY <2>1, <2>2, HeldFrom
<1>2. CASE \E d \in Phones : CompleteEnrolment(d)
  <2>1. PICK d \in Phones : CompleteEnrolment(d)
    BY <1>2
  <2>2. \A e \in Phones : disk'[e].list \in Copied
    BY <2>1 DEF CompleteEnrolment, NodesTyped
  <2>3. \A e \in Phones : enrolling'[e].step = "answered" => enrolling'[e].list \in Copied
    BY <2>1 DEF CompleteEnrolment, RegisterTyped, NoEnrolment
  <2> QED BY <2>1, <2>2, <2>3, HeldFrom DEF CompleteEnrolment
<1>3. CASE \E d \in Phones : StartPhone(d)
  <2>1. \A n \in Node : mem'[n].list \in Copied
    BY <1>3 DEF StartPhone, NodesTyped
  <2> QED BY <1>3, <2>1, HeldFrom DEF StartPhone, storeVars
<1>4. CASE StartSeed
  <2>1. \A n \in Node : mem'[n].list \in Copied
    BY <1>4 DEF StartSeed, NodesTyped
  <2> QED BY <1>4, <2>1, HeldFrom DEF StartSeed
<1>5. CASE \E n \in Node : Stop(n)
  <2>1. \A n \in Node : mem'[n].list \in Copied
    BY <1>5 DEF Stop, NodesTyped, NotEnrolled
  <2> QED BY <1>5, <2>1, HeldFrom DEF Stop, storeVars
<1>6. CASE \E m \in net : Handle(m)
  <2>1. PICK m \in net : OnHello(m) \/ ResponseSent(m) \/ OnReply(m) \/ OnDenied(m) \/ OnAsk(m)
    BY <1>6 DEF Handle
  <2>2. CASE OnHello(m) \/ OnReply(m)
    <3>1. Greets(m) /\ AcceptPeer(m) /\ m.to \in Node
      BY <2>2, MessageTypes DEF OnHello, OnReply, Greets, NodesTyped
    <3>2. NewList(m) \in Copied
      BY <3>1, NewListTyped
    <3>3. /\ \A n \in Node : mem'[n].list \in Copied
          /\ \A d \in Phones : disk'[d].list \in Copied
      BY <3>1, AcceptLists
    <3>4. \A x \in net' : Greets(x) => x.list \in Copied
      BY <2>2, <3>2 DEF OnHello, OnReply, Greets
    <3>5. enrolling' = enrolling
      BY <2>2 DEF OnHello, OnReply, storeVars
    <3> QED BY <3>3, <3>4, <3>5, HeldFrom
  <2>3. CASE ResponseSent(m)
    <3>1. \A x \in net' : Greets(x) => x.list \in Copied
      <4> DEFINE sent == [m EXCEPT !.flushed = TRUE]
      <4>1. net' \subseteq net \cup {sent}
        BY <2>3 DEF ResponseSent
      <4>2. sent.type = m.type /\ (Greets(m) => sent.list = m.list)
        BY MessageTypes DEF NodesTyped, Greets
      <4> HIDE DEF sent
      <4> QED BY <4>1, <4>2 DEF Greets
    <3> QED BY <2>3, <3>1, HeldFrom DEF ResponseSent, storeVars
  <2>4. CASE OnDenied(m)
    BY <2>4, HeldFrom DEF OnDenied, storeVars
  <2>5. CASE OnAsk(m)
    BY <2>5, HeldFrom DEF OnAsk, Greets, storeVars
  <2> QED BY <2>1, <2>2, <2>3, <2>4, <2>5
<1>7. CASE \E n, p \in Node : Connect(n, p)
  <2>1. PICK n \in Node, p \in Node : Connect(n, p)
    BY <1>7
  <2>2. \A x \in net' : Greets(x) => x.list \in Copied
    BY <2>1, ConnectTyped
  <2> QED BY <2>1, <2>2, HeldFrom DEF Connect, storeVars
<1>8. CASE \E n, p \in Node, c \in Conn : Close(n, c, p) \/ Fail(n, c, p)
  <2>1. PICK n \in Node, p \in Node, c \in Conn : CloseAt(n, c, p)
    BY <1>8 DEF Close, Fail
  <2> QED BY <2>1, CloseTyped, HeldFrom DEF CloseAt, storeVars
<1>9. CASE UNCHANGED vars
  BY <1>9, HeldFrom DEF vars
<1>10. CASE \E n, p \in Node : Ask(n, p)
  BY <1>10, AskTyped, HeldFrom DEF storeVars
<1>11. CASE \E m \in net : TimeOut(m)
  BY <1>11, HeldFrom DEF TimeOut, storeVars
<1> QED BY <1>1, <1>2, <1>3, <1>4, <1>5, <1>6, <1>7, <1>8, <1>9, <1>10, <1>11 DEF Next
-----------------------------------------------------------------------------
(* The register only moves on.                                             *)

LEMMA RegisterGrows == ASSUME Typed, SerialsUnique, [Next]_vars
  PROVE /\ SerialsUnique'
        /\ Superseded \subseteq Superseded'
        /\ Revoked \cup Superseded \subseteq Revoked' \cup Superseded'
<1> USE DEF Typed
<1>1. CASE device' = device /\ nextSerial' = nextSerial
  <2>1. SerialsUnique'
    BY <1>1 DEF SerialsUnique
  <2>2. Superseded' = Superseded /\ Revoked' = Revoked
    BY <1>1 DEF Superseded, Revoked
  <2> QED BY <2>1, <2>2
<1>2. CASE \E d \in Phones, i \in DOMAIN expires : Redeem(d, i)
  <2>1. PICK d \in Phones, i \in DOMAIN expires : Redeem(d, i)
    BY <1>2
  <2>2. d \in Device /\ nextSerial \in Nat \ {0} /\ nextSerial' = nextSerial + 1
    BY <2>1 DEF Device, Redeem, Allocate, RegisterTyped
  <2>3. /\ device'[d].serial = nextSerial /\ ~device'[d].revoked
        /\ \A e \in Device : e # d => device'[e] = device[e]
        /\ \A e \in Device : device[e].serial \in Nat
    BY <2>1, <2>2 DEF Redeem, RegisterTyped
  <2>4. SerialsUnique'
    BY <2>2, <2>3 DEF SerialsUnique
  <2>5. Superseded \subseteq Superseded'
    BY <2>2, <2>3 DEF Superseded
  <2>6. ASSUME NEW e \in Device, device[e].revoked
        PROVE  device[e].serial \in Revoked' \cup Superseded'
    <3>1. CASE e = d
      <4>1. device[d].serial \in 1 .. nextSerial' - 1
        BY <2>2, <2>3, <2>6, <3>1 DEF SerialsUnique
      <4>2. \A f \in Device : device'[f].serial # device[d].serial
        BY <2>2, <2>3, <2>6, <3>1 DEF SerialsUnique
      <4> QED BY <3>1, <4>1, <4>2 DEF Superseded
    <3>2. CASE e # d
      BY <2>3, <2>6, <3>2 DEF Revoked
    <3> QED BY <3>1, <3>2
  <2>7. Revoked \subseteq Revoked' \cup Superseded'
    BY <2>6 DEF Revoked
  <2> QED BY <2>1, <2>4, <2>5, <2>7 DEF Redeem, RegisterTyped
<1>3. CASE \E d \in Device : Revoke(d)
  <2>1. PICK d \in Device : Revoke(d)
    BY <1>3
  <2>2. /\ \A e \in Device : /\ device'[e].serial = device[e].serial
                             /\ device[e].revoked => device'[e].revoked
        /\ \A e \in Device : e # d => device'[e] = device[e]
        /\ device[d].serial # 0
        /\ UNCHANGED nextSerial
    BY <2>1 DEF Revoke, RegisterTyped
  <2>3. SerialsUnique'
    BY <2>2 DEF SerialsUnique
  <2>4. Superseded' = Superseded
    BY <2>2 DEF Superseded
  <2>5. Revoked \subseteq Revoked'
    BY <2>2 DEF Revoked
  <2> QED BY <2>2, <2>3, <2>4, <2>5 DEF RegisterTyped
<1> QED
  <2>1. CASE StoreStep
    BY <2>1, <1>1, <1>2, <1>3
    DEF StoreStep, CreateInvite, Answer, LoseAnswer, Publish, PassTime, ReadNames, ServeCrl
  <2>2. CASE ~StoreStep
    BY <2>2, <1>1, NodeSteps DEF CompleteEnrolment, Kept
  <2> QED BY <2>1, <2>2

LEMMA StampsForward == ASSUME Typed, ~ClockSetBack, updated <= now, [Next]_vars
  PROVE updated <= updated' /\ updated' <= now'
<1>1. now \in Nat /\ updated \in Nat
  BY DEF Typed, RegisterTyped
<1>2. CASE StoreStep
  BY <1>1, <1>2
  DEF StoreStep, CreateInvite, Redeem, Answer, LoseAnswer, Revoke, Publish, PassTime, ReadNames,
      ServeCrl
<1>3. CASE ~StoreStep
  BY <1>1, <1>3, NodeSteps DEF CompleteEnrolment, Kept
<1> QED BY <1>2, <1>3

(* Reading starts with what is revoked at that moment.                     *)
LEMMA ReadingStep == ASSUME [Next]_vars
  PROVE \/ reading' = reading \/ reading' = NotReading
        \/ /\ reading' = Revoked /\ Revoked' = Revoked /\ Superseded' = Superseded
           /\ Held' = Held
<1>1. CASE ReadNames /\ StoreStep
  <2>1. /\ UNCHANGED <<device, nextSerial, disk, mem, net, enrolling>>
        /\ reading' = Revoked
    BY <1>1 DEF ReadNames, StoreStep
  <2> QED BY <2>1 DEF Revoked, Superseded, Held
<1>2. CASE StoreStep /\ ~ReadNames
  BY <1>2 DEF StoreStep, CreateInvite, Redeem, Answer, LoseAnswer, Revoke, Publish, PassTime,
              ServeCrl
<1>3. CASE ~StoreStep
  BY <1>3, NodeSteps DEF CompleteEnrolment
<1> QED BY <1>1, <1>2, <1>3

(* The lists of the server, and their stamps, before and after a step.     *)
LEMMA MadeNow == RegisterTyped =>
  /\ Crl \in RevocationList /\ Crl.revoked = Revoked
  /\ Crl.stamp = updated \/ Crl = Empty
  /\ \A l \in Pending :
       /\ reading # NotReading /\ l \in RevocationList /\ l.revoked = reading
       /\ l.stamp = updated \/ l = Empty
BY RegisterLists, ListsAre

LEMMA MadeLists == ASSUME Typed'
  PROVE /\ updated' \in Nat /\ updated' <= MaxNow
        /\ Crl' \in RevocationList /\ Crl.revoked' = Revoked'
        /\ Crl.stamp' = updated' \/ Crl' = Empty
        /\ \A l \in Pending' :
             /\ reading' # NotReading /\ l \in RevocationList /\ l.revoked = reading'
             /\ l.stamp = updated' \/ l = Empty
<1>1. (RegisterTyped =>
        /\ Crl \in RevocationList /\ Crl.revoked = Revoked
        /\ Crl.stamp = updated \/ Crl = Empty
        /\ \A l \in Pending :
             /\ reading # NotReading /\ l \in RevocationList /\ l.revoked = reading
             /\ l.stamp = updated \/ l = Empty)'
  BY MadeNow, PTL
<1>2. RegisterTyped' /\ updated' \in Nat /\ updated' <= MaxNow
  BY DEF Typed, RegisterTyped, Counted
<1> QED BY <1>1, <1>2

LEMMA ListsNow == Lists' = {Crl'} \cup Pending' \cup Held'
BY DEF Lists, Pending, Held

LEMMA CopiedTyped == ASSUME Typed
  PROVE \A l \in Copied : l \in RevocationList /\ (l \in Lists \/ l = Empty)
BY ListsTyped, ListsAre, RegisterLists DEF Copied, Typed

(* What lists name, whatever the clock does.                               *)
LEMMA NamesNext == ASSUME MembershipInv, [Next]_vars
  PROVE StampsBounded' /\ NamesKnown' /\ ReadingKnows'
<1> USE DEF MembershipInv
<1>1. Typed'
  BY CountedNext, RegisterTypedNext, NodesTypedNext DEF Typed
<1>2. /\ Superseded \subseteq Superseded'
      /\ Revoked \cup Superseded \subseteq Revoked' \cup Superseded'
  BY RegisterGrows
<1>3. \A l \in Copied : /\ l.stamp <= MaxNow
                        /\ l.revoked \subseteq Revoked \cup Superseded
  BY CopiedTyped, SeedStoreAssumption DEF StampsBounded, NamesKnown, Empty
<1>4. StampsBounded'
  <2>1. \A l \in Held' : l.stamp <= MaxNow
    BY <1>3, HeldCopied
  <2>2. Crl'.stamp <= MaxNow /\ \A l \in Pending' : l.stamp <= MaxNow
    BY <1>1, MadeLists, SeedStoreAssumption DEF Empty
  <2> QED BY <2>1, <2>2, ListsNow DEF StampsBounded
<1>5. \A l \in Held' : l.revoked \subseteq Revoked' \cup Superseded'
  BY <1>2, <1>3, HeldCopied
<1>6. reading' # NotReading => reading' \subseteq Revoked' \cup Superseded'
  <2>1. CASE reading' = reading /\ reading # NotReading
    <3>1. ListOf(reading) \in Copied /\ ListOf(reading).revoked = reading
      BY <2>1, ListsAre, RegisterLists DEF Copied, Typed
    <3> QED BY <1>2, <1>3, <2>1, <3>1
  <2> QED BY <2>1, ReadingStep
<1>7. NamesKnown'
  BY <1>1, <1>5, <1>6, MadeLists, ListsNow DEF NamesKnown
<1>8. ReadingKnows'
  <2>1. CASE reading' = reading /\ reading # NotReading
    <3>1. \A l \in Copied : l.revoked \subseteq reading \cup Superseded
      BY <2>1, ListsAre, RegisterLists DEF Copied, Typed, ReadingKnows, Empty
    <3> QED BY <1>2, <2>1, <3>1, HeldCopied DEF ReadingKnows
  <2>2. CASE reading' = Revoked /\ Superseded' = Superseded /\ Held' = Held
    <3>1. \A l \in Held : l.revoked \subseteq Revoked \cup Superseded
      BY <1>3 DEF Copied
    <3> QED BY <2>2, <3>1 DEF ReadingKnows
  <2>3. CASE reading' = NotReading
    BY <2>3 DEF ReadingKnows
  <2> QED BY <2>1, <2>2, <2>3, ReadingStep
<1> QED BY <1>4, <1>7, <1>8

(* Which lists come later, while the clock is not set back.                *)
LEMMA StampsOrderedNext == ASSUME MembershipInv, ~ClockSetBack, StampsOrdered, [Next]_vars
  PROVE StampsOrdered'
<1> USE DEF MembershipInv, StampsOrdered
<1>1. Typed' /\ NamesKnown' /\ ReadingKnows'
  BY CountedNext, RegisterTypedNext, NodesTypedNext, NamesNext DEF Typed
<1>2. updated <= updated' /\ updated' <= now' /\ updated \in Nat /\ updated' \in Nat
  BY <1>1, StampsForward DEF StampsPast, Typed, RegisterTyped
<1>3. Superseded \subseteq Superseded'
  BY RegisterGrows
<1>4. \A l \in Held' : /\ l \in RevocationList /\ (l \in Lists \/ l = Empty)
                       /\ l.stamp \in Nat /\ l.stamp <= updated'
  <2>1. \A l \in Held' : l \in RevocationList /\ (l \in Lists \/ l = Empty)
    BY HeldCopied, CopiedTyped
  <2>2. \A l \in Held' : l.stamp \in Nat /\ l.stamp <= updated
    BY <2>1, <1>2 DEF StampsPast, Empty, RevocationList
  <2> QED BY <1>2, <2>1, <2>2
<1>5. \A l \in {Crl'} \cup Pending' : l.stamp = updated' \/ l = Empty
  BY <1>1, MadeLists
<1>6. StampsPast'
  BY <1>2, <1>4, <1>5, ListsNow DEF StampsPast, Empty
<1>7. ASSUME NEW k \in Lists', NEW l \in Lists', k.stamp < l.stamp
      PROVE  k.revoked \subseteq l.revoked \cup Superseded'
  <2>1. Empty.stamp = 0 /\ Empty.revoked = {}
    BY DEF Empty
  <2>2. k.stamp \in Nat /\ l.stamp \in Nat
    BY <1>2, <1>4, <1>5, <2>1, ListsNow
  <2>3. CASE k = Empty \/ l = Empty
    BY <1>7, <2>1, <2>2, <2>3
  <2>4. CASE l = Crl'
    BY <2>4, <1>1, MadeLists DEF NamesKnown
  <2>5. CASE k \in {Crl'} \cup Pending' /\ k # Empty
    <3>1. k.stamp = updated' /\ l.stamp <= updated'
      BY <1>5, <1>6, <2>5 DEF StampsPast
    <3> QED BY <1>2, <1>7, <2>2, <3>1
  <2>6. CASE k \in Held' /\ l \in Pending'
    <3>1. reading' # NotReading /\ l.revoked = reading'
      BY <1>1, <2>6, MadeLists
    <3> QED BY <1>1, <2>6, <3>1 DEF ReadingKnows
  <2>7. CASE k \in Held' /\ l \in Held' /\ k # Empty /\ l # Empty
    <3>1. k \in Lists /\ l \in Lists
      BY <1>4, <2>7
    <3> QED BY <1>3, <1>7, <3>1 DEF NewerNamesMore
  <2> QED BY <2>3, <2>4, <2>5, <2>6, <2>7, ListsNow
<1> QED BY <1>6, <1>7 DEF NewerNamesMore
-----------------------------------------------------------------------------
(* The saved enrolment has one writer at a time.                           *)

LEMMA EnrollingStep == ASSUME Typed, [Next]_vars, NEW d \in Phones, enrolling'[d] # enrolling[d]
  PROVE \/ d \notin running /\ enrolling[d] = NoEnrolment /\ enrolling'[d].step = "redeemed"
        \/ /\ enrolling[d].step = "redeemed" /\ reading # NotReading
           /\ enrolling'[d].list = ListOf(reading)
        \/ enrolling[d] # NoEnrolment /\ enrolling'[d] = NoEnrolment
<1> USE DEF Typed, RegisterTyped
<1>1. CASE \E e \in Phones \ running, i \in DOMAIN expires : Redeem(e, i)
  BY <1>1 DEF Redeem
<1>2. CASE \E e \in Phones : Answer(e)
  <2>1. PICK e \in Phones : Answer(e)
    BY <1>2
  <2>2. e = d /\ reading # NotReading /\ enrolling'[d].list = ListOf(reading)
    BY <2>1 DEF Answer
  <2>3. enrolling[d].step = "redeemed"
    BY <2>1, <2>2 DEF Answer
  <2> QED BY <2>2, <2>3
<1>3. CASE \E e \in Phones : LoseAnswer(e)
  BY <1>3 DEF LoseAnswer
<1>4. CASE \/ CreateInvite \/ Publish \/ PassTime \/ ReadNames \/ ServeCrl
           \/ \E e \in Device : Revoke(e)
  BY <1>4 DEF CreateInvite, Publish, PassTime, ReadNames, ServeCrl, Revoke
<1>5. CASE \E e \in Phones : CompleteEnrolment(e)
  BY <1>5 DEF CompleteEnrolment, NoEnrolment
<1>6. CASE enrolling' = enrolling
  BY <1>6
<1> QED BY <1>1, <1>2, <1>3, <1>4, <1>5, <1>6, NodeSteps DEF StoreStep, Kept

LEMMA OneWriterNext == ASSUME Typed, OneWriter, [Next]_vars PROVE OneWriter'
<1> USE DEF Typed
<1>0. Typed'
  BY CountedNext, RegisterTypedNext, NodesTypedNext
<1>1. CASE StoreStep
  <2>1. UNCHANGED <<disk, running, mem, open>>
    BY <1>1 DEF StoreStep
  <2>2. ASSUME NEW d \in Phones \cap running PROVE enrolling'[d] = NoEnrolment
    BY <2>2, EnrollingStep DEF OneWriter, NoEnrolment
  <2> QED BY <2>1, <2>2 DEF OneWriter
<1>2. CASE \E d \in Phones : CompleteEnrolment(d)
  <2>1. PICK d \in Phones : CompleteEnrolment(d)
    BY <1>2
  <2>2. d \notin running
    BY <2>1 DEF CompleteEnrolment, OneWriter, NoEnrolment
  <2>3. \A e \in Phones : e # d => disk'[e] = disk[e] /\ enrolling'[e] = enrolling[e]
    BY <2>1 DEF CompleteEnrolment, NodesTyped, RegisterTyped
  <2> QED BY <2>1, <2>2, <2>3 DEF CompleteEnrolment, OneWriter
<1>3. CASE \E d \in Phones : StartPhone(d)
  BY <1>3 DEF StartPhone, OneWriter, NodesTyped, Node, storeVars
<1>4. CASE StartSeed
  BY <1>4, MembershipAssumption DEF StartSeed, OneWriter, NodesTyped, Node, Device
<1>5. CASE \E n \in Node : Stop(n)
  BY <1>5 DEF Stop, OneWriter, NodesTyped, Node, storeVars
<1>6. CASE \E m \in net : Handle(m)
  <2>1. PICK m \in net : OnHello(m) \/ ResponseSent(m) \/ OnReply(m) \/ OnDenied(m) \/ OnAsk(m)
    BY <1>6 DEF Handle
  <2>2. UNCHANGED <<enrolling, running, open>>
    BY <2>1 DEF OnHello, ResponseSent, OnReply, OnDenied, OnAsk, storeVars
  <2>3. CASE OnHello(m) \/ OnReply(m)
    <3>1. Greets(m) /\ AcceptPeer(m)
      BY <2>3 DEF OnHello, OnReply, Greets
    <3> QED BY <2>2, <3>1, AcceptLists DEF OneWriter
  <2>4. CASE ResponseSent(m) \/ OnDenied(m) \/ OnAsk(m)
    BY <2>2, <2>4 DEF ResponseSent, OnDenied, OnAsk, OneWriter
  <2> QED BY <2>1, <2>3, <2>4
<1>7. CASE \E n, p \in Node : Connect(n, p)
  <2>1. PICK n \in Node, p \in Node : Connect(n, p)
    BY <1>7
  <2>2. \A q \in Node : q = n \/ q = p \/ open'[q] = open[q]
    BY <2>1 DEF Connect, NodesTyped
  <2> QED BY <2>1, <2>2 DEF Connect, OneWriter, storeVars
<1>8. CASE \E n, p \in Node, c \in Conn : Close(n, c, p) \/ Fail(n, c, p)
  <2>1. PICK n \in Node, p \in Node, c \in Conn : CloseAt(n, c, p)
    BY <1>8 DEF Close, Fail
  <2>2. \A q \in Node : open'[q] \subseteq open[q]
    BY <2>1 DEF CloseAt, NodesTyped
  <2>3. UNCHANGED <<disk, mem, running, enrolling>>
    BY <2>1 DEF CloseAt, storeVars
  <2> QED BY <2>2, <2>3 DEF OneWriter
<1>9. CASE UNCHANGED vars
  BY <1>9 DEF vars, OneWriter
<1>10. CASE \E n, p \in Node : Ask(n, p)
  BY <1>10, AskTyped DEF OneWriter, storeVars
<1>11. CASE \E m \in net : TimeOut(m)
  BY <1>11 DEF TimeOut, OneWriter, storeVars
<1> QED BY <1>1, <1>2, <1>3, <1>4, <1>5, <1>6, <1>7, <1>8, <1>9, <1>10, <1>11 DEF Next

(* How the saved enrolment of a phone changes.                             *)
LEMMA DiskStep == ASSUME Typed, OneWriter, [Next]_vars, NEW d \in Phones, disk'[d] # disk[d]
  PROVE \/ /\ enrolling[d].step = "answered" /\ enrolling'[d] = NoEnrolment
           /\ disk'[d].list = enrolling[d].list
        \/ /\ enrolling[d] = NoEnrolment /\ enrolling'[d] = NoEnrolment
           /\ disk'[d].list \in Held /\ disk[d].list.stamp < disk'[d].list.stamp
<1> USE DEF Typed
<1>1. CASE \E e \in Phones : CompleteEnrolment(e)
  BY <1>1 DEF CompleteEnrolment, NodesTyped, RegisterTyped
<1>2. CASE \E m \in net : OnHello(m) \/ OnReply(m)
  <2>1. PICK m \in net : OnHello(m) \/ OnReply(m)
    BY <1>2
  <2>2. Greets(m) /\ AcceptPeer(m) /\ Arrived(m) /\ enrolling' = enrolling
    BY <2>1 DEF OnHello, OnReply, Greets, storeVars
  <2>3. d = m.to /\ disk'[d].list = m.list /\ mem[d].list.stamp < m.list.stamp
    BY <2>2, AcceptLists
  <2>4. d \in running
    BY <2>2, <2>3 DEF Arrived, OneWriter, Node
  <2> QED BY <2>2, <2>3, <2>4, HeldAre DEF OneWriter
<1>3. CASE disk' = disk
  BY <1>3
<1>4. CASE \E m \in net : Handle(m) \/ TimeOut(m)
  BY <1>2, <1>3, <1>4 DEF Handle, ResponseSent, OnDenied, OnAsk, TimeOut
<1>5. CASE StoreStep \/ UNCHANGED vars
  BY <1>3, <1>5 DEF StoreStep, vars
<1>6. CASE \/ \E e \in Phones : StartPhone(e)
           \/ StartSeed
           \/ \E n \in Node : Stop(n)
           \/ \E n, p \in Node : Ask(n, p) \/ Connect(n, p)
  BY <1>3, <1>6 DEF StartPhone, StartSeed, Stop, Ask, Connect
<1>7. CASE \E n, p \in Node, c \in Conn : Close(n, c, p) \/ Fail(n, c, p)
  BY <1>3, <1>7 DEF Close, Fail, CloseAt
<1> QED BY <1>1, <1>4, <1>5, <1>6, <1>7 DEF Next
-----------------------------------------------------------------------------
(* The results.                                                            *)

LEMMA AnswersNewestNext == ASSUME MembershipInv, [Next]_vars PROVE AnswersNewest'
<1> USE DEF MembershipInv
<1>1. SUFFICES ASSUME NEW d \in Phones, enrolling'[d].step = "answered"
               PROVE  disk'[d].list.revoked \subseteq enrolling'[d].list.revoked \cup Superseded'
  BY DEF AnswersNewest
<1>2. enrolling'[d] # NoEnrolment
  BY <1>1 DEF NoEnrolment
<1>3. Superseded \subseteq Superseded'
  BY RegisterGrows
<1>4. disk'[d] = disk[d]
  BY <1>2, DiskStep
<1>5. CASE enrolling'[d] = enrolling[d]
  BY <1>1, <1>3, <1>4, <1>5 DEF AnswersNewest
<1>6. CASE reading # NotReading /\ enrolling'[d].list = ListOf(reading)
  <2>1. disk[d].list.revoked \subseteq reading \cup Superseded
    BY <1>6, HeldAre DEF ReadingKnows
  <2> QED BY <1>3, <1>4, <1>6, <2>1, RegisterLists DEF Typed
<1> QED BY <1>1, <1>2, <1>5, <1>6, EnrollingStep

LEMMA MembershipInvInit == Init => MembershipInv
<1> SUFFICES ASSUME Init PROVE MembershipInv
  OBVIOUS
<1>1. Typed
  BY TypedInit
<1>2. Revoked = {} /\ Crl = Empty
  BY DEF Init, StoreInit, Revoked, Crl, ListOf
<1>3. \A l \in Lists : l = Empty
  BY <1>2 DEF Lists, Init, StoreInit, NotEnrolled, NoEnrolment
<1>4. StampsBounded /\ NamesKnown /\ ReadingKnows
  BY <1>3, SeedStoreAssumption
  DEF StampsBounded, NamesKnown, ReadingKnows, Empty, Init, StoreInit
<1>5. SerialsUnique
  <2>1. PICK joined \in SUBSET Absent :
          /\ nextSerial = Cardinality(joined) + 1
          /\ \E serial \in Bijection(joined, 1 .. Cardinality(joined)) :
               device = [d \in Device |->
                 [serial |-> IF d \in joined THEN serial[d] ELSE 0, revoked |-> FALSE]]
    BY DEF Init, StoreInit
  <2>2. PICK serial \in Bijection(joined, 1 .. Cardinality(joined)) :
          device = [d \in Device |->
            [serial |-> IF d \in joined THEN serial[d] ELSE 0, revoked |-> FALSE]]
    BY <2>1
  <2>3. Cardinality(joined) \in Nat
    BY FS_Subset, FS_CardinalityType, SeedStoreAssumption DEF Device
  <2>4. /\ \A d \in joined : serial[d] \in 1 .. Cardinality(joined)
        /\ \A d, e \in joined : serial[d] = serial[e] => d = e
    BY DEF Bijection, Injection, IsInjective, Surjection
  <2>5. \A d \in Device : /\ device[d].serial = IF d \in joined THEN serial[d] ELSE 0
                          /\ ~device[d].revoked
    BY <2>2
  <2> QED BY <2>1, <2>3, <2>4, <2>5 DEF SerialsUnique
<1>6. OneWriter /\ AnswersNewest
  BY DEF Init, StoreInit, OneWriter, AnswersNewest, NoEnrolment
<1> QED BY <1>1, <1>4, <1>5, <1>6 DEF MembershipInv

LEMMA MembershipInvNext == MembershipInv /\ [Next]_vars => MembershipInv'
<1> SUFFICES ASSUME MembershipInv, [Next]_vars PROVE MembershipInv'
  OBVIOUS
<1>1. Typed'
  BY CountedNext, RegisterTypedNext, NodesTypedNext DEF MembershipInv, Typed
<1> QED BY <1>1, RegisterGrows, NamesNext, OneWriterNext, AnswersNewestNext DEF MembershipInv

LEMMA MembershipInvariant == Spec => []MembershipInv
BY MembershipInvInit, MembershipInvNext, PTL DEF Spec

LEMMA StampsOrderedInit == ASSUME Init PROVE StampsOrdered
<1>1. Revoked = {} /\ Crl = Empty
  BY DEF Init, StoreInit, Revoked, Crl, ListOf
<1>2. \A l \in Lists : l = Empty
  BY <1>1 DEF Lists, Init, StoreInit, NotEnrolled, NoEnrolment
<1> QED BY <1>2 DEF StampsOrdered, StampsPast, NewerNamesMore, Empty, Init, StoreInit

LEMMA StampsInvariant == ASSUME ~ClockSetBack
  PROVE Spec => [](MembershipInv /\ StampsOrdered)
<1>1. Init => MembershipInv /\ StampsOrdered
  BY MembershipInvInit, StampsOrderedInit
<1>2. MembershipInv /\ StampsOrdered /\ [Next]_vars => (MembershipInv /\ StampsOrdered)'
  BY MembershipInvNext, StampsOrderedNext
<1> QED BY <1>1, <1>2, PTL DEF Spec

(* The rest of the types.                                                  *)
Plain ==
  /\ running \subseteq Node
  /\ deny \in [Node -> SUBSET Node]
  /\ closing \in [Node -> SUBSET (Conn \X Node)]
  /\ unheard \in [Node -> SUBSET Node]
  /\ faults \in 0 .. MaxFaults

LEMMA PlainNext == ASSUME Typed, Plain, [Next]_vars PROVE Plain'
<1> USE DEF Plain
<1>0. \A n, p \in Node : To(n, p) \subseteq Conn \X Node
  BY DEF To, Typed, NodesTyped
<1>1. CASE UNCHANGED <<running, deny, closing, unheard, faults>>
  BY <1>1
<1>2. CASE StartSeed \/ \E d \in Phones : StartPhone(d)
  <2>1. running' \subseteq Node /\ UNCHANGED <<deny, closing, unheard, faults>>
    BY <1>2 DEF StartSeed, StartPhone, Node
  <2> QED BY <2>1
<1>3. CASE \E n \in Node : Stop(n)
  <2>1. PICK n \in Node : Stop(n)
    BY <1>3
  <2>2. faults' \in 0 .. MaxFaults /\ running' \subseteq Node
    BY <2>1, MembershipAssumption DEF Stop
  <2>3. /\ deny' \in [Node -> SUBSET Node] /\ unheard' \in [Node -> SUBSET Node]
        /\ closing' \in [Node -> SUBSET (Conn \X Node)]
    BY <2>1 DEF Stop
  <2> QED BY <2>2, <2>3
<1>4. CASE \E m \in net : Handle(m)
  <2>1. PICK m \in net : OnHello(m) \/ ResponseSent(m) \/ OnReply(m) \/ OnDenied(m) \/ OnAsk(m)
    BY <1>4 DEF Handle
  <2>2. m.to \in Node /\ m.from \in Node
    BY MessageTypes DEF Typed, NodesTyped
  <2>3. UNCHANGED <<running, unheard, faults>>
    BY <2>1 DEF OnHello, ResponseSent, OnReply, OnDenied, OnAsk
  <2>4. ASSUME NEW n \in Node, NEW p \in Node, Disconnect(n, p)
        PROVE  closing' \in [Node -> SUBSET (Conn \X Node)]
    BY <1>0, <2>4 DEF Disconnect
  <2>5. closing' \in [Node -> SUBSET (Conn \X Node)]
    <3>1. \/ UNCHANGED closing \/ Disconnect(m.from, m.to) \/ Disconnect(m.to, m.from)
      BY <2>1 DEF OnHello, ResponseSent, OnReply, OnDenied, OnAsk
    <3> QED BY <2>2, <2>4, <3>1
  <2>6. deny' \in [Node -> SUBSET Node]
    <3>1. \/ UNCHANGED deny
          \/ deny' = [deny EXCEPT ![m.to] = @ \cup {m.from}]
          \/ deny' = [deny EXCEPT ![m.from] = @ \ {m.to}]
      BY <2>1 DEF OnHello, ResponseSent, OnReply, OnDenied, OnAsk, Undeny
    <3> QED BY <2>2, <3>1
  <2> QED BY <2>3, <2>5, <2>6
<1>5. CASE \E n, p \in Node : Ask(n, p)
  <2>1. UNCHANGED <<running, deny, closing, unheard>> /\ faults' \in 0 .. MaxFaults
    BY <1>5, MembershipAssumption DEF Ask
  <2> QED BY <2>1
<1>6. CASE \E n, p \in Node, c \in Conn : Close(n, c, p) \/ Fail(n, c, p)
  <2>1. PICK n \in Node, p \in Node, c \in Conn : Close(n, c, p) \/ Fail(n, c, p)
    BY <1>6
  <2>2. closing' = [closing EXCEPT ![n] = @ \ {<<c, p>>}] /\ UNCHANGED <<running, deny>>
    BY <2>1 DEF Close, Fail, CloseAt
  <2>3. faults' \in 0 .. MaxFaults
    BY <2>1, MembershipAssumption DEF Close, Fail
  <2>4. unheard' = unheard \/ unheard' = [unheard EXCEPT ![n] = @ \ {p}]
    BY <2>1 DEF Close, Fail, CloseAt
  <2>5. unheard' \in [Node -> SUBSET Node]
    BY <2>4
  <2> QED BY <2>2, <2>3, <2>5
<1>7. CASE \E m \in net : TimeOut(m)
  <2>1. PICK m \in net : TimeOut(m)
    BY <1>7
  <2>2. Opener(m) \in Node /\ Answerer(m) \in Node
    BY MessageTypes DEF Typed, NodesTyped, Opener, Answerer
  <2> DEFINE n == Opener(m)
             p == Answerer(m)
  <2>3. unheard' = unheard \/ unheard' = [unheard EXCEPT ![n] = @ \cup {p}]
    BY <2>1 DEF TimeOut
  <2>4. n \in Node /\ p \in Node
    BY <2>2
  <2> HIDE DEF n, p
  <2>5. unheard' \in [Node -> SUBSET Node]
    BY <2>3, <2>4
  <2>6. UNCHANGED <<running, deny, closing>> /\ faults' \in 0 .. MaxFaults
    BY <2>1, MembershipAssumption DEF TimeOut
  <2> QED BY <2>5, <2>6
<1> QED BY <1>1, <1>2, <1>3, <1>4, <1>5, <1>6, <1>7
        DEF Next, StoreStep, CompleteEnrolment, Connect, vars

(* What the lists name and how late they are stamped.                       *)
LEMMA ListsBounded == ASSUME MembershipInv
  PROVE /\ nextSerial \in 1 .. MaxInvites + 1 /\ publishing \in 0 .. MaxInvites
        /\ reading \in {NotReading} \cup SUBSET Serial
        /\ \A l \in Lists : l \in List
<1>0. /\ 0 < now /\ now <= MaxNow /\ now \in Nat /\ updated \in Nat /\ updated <= MaxNow
      /\ Len(expires) \in Nat /\ Len(expires) <= MaxInvites
      /\ spent \subseteq 1 .. Len(expires)
      /\ nextSerial = Cardinality(spent) + 1
      /\ publishing \in Nat /\ publishing + Cardinality(Active) <= Cardinality(spent)
  BY DEF MembershipInv, Typed, Counted, RegisterTyped
<1>1. /\ Cardinality(spent) \in Nat /\ Cardinality(spent) <= Len(expires)
      /\ Cardinality(Active) \in Nat
  BY <1>0, CountsFinite
<1>2. nextSerial \in 1 .. MaxInvites + 1 /\ publishing \in 0 .. MaxInvites
  BY <1>0, <1>1, SeedStoreAssumption
<1>3. Revoked \cup Superseded \subseteq Serial
  <2>1. \A d \in Device : device[d].serial \in Nat /\ device[d].serial < nextSerial
    BY DEF MembershipInv, Typed, RegisterTyped, SerialsUnique
  <2>2. \A s \in Nat : s < nextSerial => s \in Serial
    BY <1>2, SeedStoreAssumption DEF Serial, ServerSerial
  <2>3. Revoked \subseteq Serial
    BY <2>1, <2>2 DEF Revoked
  <2>4. Superseded \subseteq Serial
    BY <1>2, <2>2 DEF Superseded
  <2> QED BY <2>3, <2>4
<1>4. ASSUME NEW l \in Lists PROVE l \in List
  <2>1. l \in RevocationList
    BY ListsTyped DEF MembershipInv
  <2>2. l.stamp <= MaxNow /\ l.revoked \subseteq Serial
    BY <1>3 DEF MembershipInv, StampsBounded, NamesKnown
  <2>3. l.stamp \in 0 .. MaxNow
    BY <2>1, <2>2, SeedStoreAssumption DEF RevocationList
  <2> QED BY <2>1, <2>2, <2>3 DEF RevocationList, List
<1>5. ASSUME reading # NotReading PROVE reading \in SUBSET Serial
  <2>1. ListOf(reading) \in Lists /\ ListOf(reading).revoked = reading
    BY <1>5, ListsAre, RegisterLists DEF MembershipInv, Typed
  <2> QED BY <1>3, <2>1 DEF MembershipInv, NamesKnown
<1> QED BY <1>2, <1>4, <1>5

(* The register, the nodes and what travels between them keep their types.  *)
(* Serials stay within the invites and stamps within the clock, although    *)
(* devices join again and revocations are published late or never.         *)
THEOREM MembershipTypeOK == Spec => []TypeOK
<1>1. ASSUME MembershipInv, Plain PROVE TypeOK
  <2> USE <1>1
  <2>1. StoreTypeOK
    <3>1. now \in 1 .. MaxNow /\ updated \in 0 .. MaxNow
      BY SeedStoreAssumption DEF MembershipInv, Typed, Counted, RegisterTyped
    <3>2. /\ expires \in Seq(1 .. MaxNow + InviteTtl) /\ Len(expires) <= MaxInvites
          /\ spent \subseteq DOMAIN expires
      BY DEF MembershipInv, Typed, Counted
    <3>3. /\ nextSerial \in 1 .. MaxInvites + 1 /\ publishing \in 0 .. MaxInvites
          /\ reading \in {NotReading} \cup SUBSET Serial
      BY ListsBounded
    <3>4. device \in [Device -> [serial : Serial, revoked : BOOLEAN]]
      <4>1. device \in [Device -> [serial : Nat, revoked : BOOLEAN]]
        BY DEF MembershipInv, Typed, RegisterTyped
      <4>2. \A d \in Device : device[d].serial < nextSerial
        BY DEF MembershipInv, SerialsUnique
      <4>3. \A d \in Device : device[d].serial \in Serial
        BY <3>3, <4>1, <4>2, SeedStoreAssumption DEF Serial, ServerSerial
      <4> QED BY <4>1, <4>3
    <3>5. ASSUME NEW d \in Phones
          PROVE  enrolling[d] \in {NoEnrolment} \cup [step : {"redeemed"}, cert : Cert]
                                   \cup [step : {"answered"}, cert : Cert, list : List]
      <4>1. enrolling[d] \in {NoEnrolment} \cup Redeemed \cup Answered
        BY DEF MembershipInv, Typed, RegisterTyped
      <4>2. CASE enrolling[d] \in Answered
        <5>1. enrolling[d].list \in List
          BY <4>2, ListsAre, HeldAre, ListsBounded DEF Answered
        <5> QED BY <4>2, <5>1 DEF Answered
      <4> QED BY <4>1, <4>2 DEF Redeemed
    <3>6. enrolling \in [Phones ->
            {NoEnrolment} \cup [step : {"redeemed"}, cert : Cert]
                          \cup [step : {"answered"}, cert : Cert, list : List]]
      <4>1. enrolling \in [Phones -> {NoEnrolment} \cup Redeemed \cup Answered]
        BY DEF MembershipInv, Typed, RegisterTyped
      <4> QED BY <3>5, <4>1
    <3> QED BY <3>1, <3>2, <3>3, <3>4, <3>6 DEF StoreTypeOK
  <2>2. disk \in [Phones -> Enrolment]
    <3>1. disk \in [Phones -> Saved]
      BY DEF MembershipInv, Typed, NodesTyped
    <3>2. \A d \in Phones : disk[d].list \in List
      BY ListsAre, HeldAre, ListsBounded
    <3> QED BY <3>1, <3>2 DEF Saved, Enrolment
  <2>3. mem \in [Node -> Enrolment]
    <3>1. mem \in [Node -> Saved]
      BY DEF MembershipInv, Typed, NodesTyped
    <3>2. \A n \in Node : mem[n].list \in List
      BY ListsAre, HeldAre, ListsBounded
    <3> QED BY <3>1, <3>2 DEF Saved, Enrolment
  <2>4. net \subseteq Greetings \cup Others
    <3>1. net \subseteq Greeting \cup Others
      BY DEF MembershipInv, Typed, NodesTyped
    <3>2. ASSUME NEW m \in net, m \in Greeting PROVE m \in Greetings
      <4>1. m.list \in List
        BY <3>2, ListsAre, HeldAre, ListsBounded DEF Greeting, Greets
      <4> QED BY <3>2, <4>1 DEF Greeting, Greetings
    <3> QED BY <3>1, <3>2
  <2>5. /\ open \in [Node -> SUBSET (Conn \X Node)]
        /\ greeted \in [Node -> SUBSET Node] /\ authed \in [Node -> SUBSET Node]
        /\ known \in [Node -> [Node -> Serial \cup {Nobody}]]
    BY DEF MembershipInv, Typed, NodesTyped
  <2> QED BY <2>1, <2>2, <2>3, <2>4, <2>5 DEF TypeOK, Plain
<1>2. Init => Plain
  BY MembershipAssumption DEF Init, Plain
<1>3. MembershipInv /\ Plain /\ [Next]_vars => Plain'
  BY PlainNext DEF MembershipInv
<1> QED BY <1>1, <1>2, <1>3, MembershipInvariant, PTL DEF Spec

(* As long as the server's clock is not set back, of any two lists that     *)
(* exist anywhere the one with the later stamp names everything the other   *)
(* does: what crl() makes while revoke is between its two statements or     *)
(* passes between those of crl(), what enrolment answers, what greetings    *)
(* carry.                                                                   *)
THEOREM ListsNewerNamesMore == ASSUME ~ClockSetBack PROVE Spec => []NewerNamesMore
<1>1. MembershipInv /\ StampsOrdered => NewerNamesMore
  BY DEF StampsOrdered
<1> QED BY <1>1, StampsInvariant, PTL

(* As long as the server's clock is not set back, no step of a phone makes  *)
(* it forget a revocation it has on disk: neither merge_crl and save nor    *)
(* complete_enrollment.                                                     *)
THEOREM PhonesRevocationsStick == ASSUME ~ClockSetBack PROVE Spec => RevocationsStick
<1>1. ASSUME MembershipInv, StampsOrdered, [Next]_vars, NEW d \in Phones
      PROVE  disk[d].list.revoked \subseteq disk'[d].list.revoked \cup Superseded'
  <2>1. Superseded \subseteq Superseded'
    BY <1>1, RegisterGrows DEF MembershipInv
  <2>2. CASE disk'[d] = disk[d]
    BY <2>2
  <2>3. CASE enrolling[d].step = "answered" /\ disk'[d].list = enrolling[d].list
    BY <1>1, <2>1, <2>3 DEF MembershipInv, AnswersNewest
  <2>4. CASE disk'[d].list \in Held /\ disk[d].list.stamp < disk'[d].list.stamp
    BY <1>1, <2>1, <2>4, ListsAre, HeldAre DEF StampsOrdered, NewerNamesMore
  <2> QED BY <1>1, <2>2, <2>3, <2>4, DiskStep DEF MembershipInv
<1>2. MembershipInv /\ StampsOrdered /\ [Next]_vars
        => [\A d \in Phones :
             disk[d].list.revoked \subseteq disk'[d].list.revoked \cup Superseded']_vars
  BY <1>1
<1> QED BY <1>2, StampsInvariant, PTL DEF Spec, RevocationsStick

(* Whoever a step admits, or records, at either end of the handshake shows a *)
(* certificate that the list held after the step does not name.             *)
THEOREM HandshakeNoneAdmittedListed == Spec => NoneAdmittedListed
<1>1. ASSUME Typed, [Next]_vars, NEW n \in Node, NEW p \in Node,
             p \in authed'[n] \ authed[n] \/ known'[n][p] # known[n][p]
      PROVE  known'[n][p] \notin mem'[n].list.revoked
  <2> USE <1>1 DEF Typed
  <2>1. PICK m \in net : OnHello(m) \/ OnReply(m)
    <3>1. CASE \E m \in net : Handle(m)
      BY <3>1 DEF Handle, ResponseSent, OnDenied, OnAsk
    <3>2. CASE \E q, r \in Node, c \in Conn : Close(q, c, r) \/ Fail(q, c, r)
      <4>1. PICK q \in Node, r \in Node, c \in Conn : CloseAt(q, c, r)
        BY <3>2 DEF Close, Fail
      <4>2. authed'[n] \subseteq authed[n] /\ known' = known
        BY <4>1 DEF CloseAt, NodesTyped
      <4> QED BY <4>2
    <3>3. CASE \E q \in Node : Stop(q)
      <4>1. authed'[n] \subseteq authed[n] /\ known' = known
        BY <3>3 DEF Stop, NodesTyped
      <4> QED BY <4>1
    <3> QED BY <3>1, <3>2, <3>3 DEF Next, StoreStep, CompleteEnrolment, StartPhone, StartSeed,
                                   Connect, Ask, TimeOut, vars
  <2>2. Greets(m) /\ AcceptPeer(m) /\ m.to \in Node
    BY <2>1, MessageTypes DEF OnHello, OnReply, Greets, NodesTyped
  <2>3. Accepts(m)
    BY <2>2 DEF AcceptPeer
  <2>4. n = m.to /\ p = m.from /\ known'[n][p] = m.cert.serial
    <3> DEFINE s == m.cert.serial
    <3>1. /\ authed' = [authed EXCEPT ![m.to] = @ \cup {m.from}]
          /\ known' = [known EXCEPT ![m.to][m.from] = s]
      BY <2>2, <2>3 DEF AcceptPeer
    <3> HIDE DEF s
    <3>2. n = m.to /\ p = m.from
      BY <3>1 DEF NodesTyped
    <3> QED BY <3>1, <3>2 DEF NodesTyped, s
  <2>5. mem'[n].list = NewList(m)
    BY <2>2, <2>4, AcceptLists
  <2> QED BY <2>3, <2>4, <2>5 DEF Accepts, Verifies
<1>2. Typed /\ [Next]_vars => [\A n, p \in Node :
        (p \in authed'[n] \ authed[n] \/ known'[n][p] # known[n][p])
          => known'[n][p] \notin mem'[n].list.revoked]_vars
  BY <1>1
<1>3. MembershipInv => Typed
  BY DEF MembershipInv
<1> QED BY <1>2, <1>3, MembershipInvariant, PTL DEF Spec, NoneAdmittedListed

PeersInv == Typed /\ AllGreeted /\ NoPeerWithoutConnection

LEMMA PeersInvNext == PeersInv /\ [Next]_vars => PeersInv'
<1> SUFFICES ASSUME PeersInv, [Next]_vars PROVE PeersInv'
  OBVIOUS
<1> USE DEF PeersInv, Typed
<1>0. Typed'
  BY CountedNext, RegisterTypedNext, NodesTypedNext
<1>1. CASE UNCHANGED <<open, greeted, authed>>
  BY <1>0, <1>1 DEF AllGreeted, NoPeerWithoutConnection
<1>2. CASE \E n \in Node : Stop(n)
  BY <1>0, <1>2 DEF Stop, AllGreeted, NoPeerWithoutConnection, NodesTyped
<1>3. CASE \E m \in net : OnHello(m) \/ OnReply(m)
  <2>1. PICK m \in net : OnHello(m) \/ OnReply(m)
    BY <1>3
  <2>2. /\ AcceptPeer(m) /\ <<m.conn, m.from>> \in open[m.to] /\ m.to \in Node
        /\ UNCHANGED <<open, greeted>>
    BY <2>1, MessageTypes DEF OnHello, OnReply, Arrived, NodesTyped
  <2>3. m.from \in greeted[m.to]
    BY <2>2 DEF AllGreeted
  <2>4. \A n \in Node : authed'[n] \subseteq greeted[n]
    <3>1. authed' = authed \/ authed' = [authed EXCEPT ![m.to] = @ \cup {m.from}]
      BY <2>2 DEF AcceptPeer
    <3>2. \A n \in Node : authed[n] \subseteq greeted[n]
      BY DEF NoPeerWithoutConnection
    <3> QED BY <2>3, <3>1, <3>2 DEF NodesTyped
  <2> QED BY <1>0, <2>2, <2>4 DEF AllGreeted, NoPeerWithoutConnection
<1>4. CASE \E n, p \in Node : Connect(n, p)
  <2>1. PICK n \in Node, p \in Node : Connect(n, p)
    BY <1>4
  <2>2. PICK c \in Unused :
          open' = [open EXCEPT ![n] = @ \cup {<<c, p>>}, ![p] = @ \cup {<<c, n>>}]
    BY <2>1 DEF Connect
  <2>3. /\ greeted' = [greeted EXCEPT ![n] = @ \cup {p}, ![p] = @ \cup {n}]
        /\ n # p /\ authed' = authed
    BY <2>1 DEF Connect
  <2>4. /\ open'[n] = open[n] \cup {<<c, p>>} /\ greeted'[n] = greeted[n] \cup {p}
        /\ open'[p] = open[p] \cup {<<c, n>>} /\ greeted'[p] = greeted[p] \cup {n}
        /\ \A q \in Node \ {n, p} : open'[q] = open[q] /\ greeted'[q] = greeted[q]
    BY <2>2, <2>3 DEF NodesTyped
  <2>5. AllGreeted'
    BY <2>4 DEF AllGreeted
  <2>6. NoPeerWithoutConnection'
    <3>1. ASSUME NEW q \in Node, NEW r \in greeted'[q] PROVE \E l \in open'[q] : l[2] = r
      <4>1. CASE r \in greeted[q]
        BY <2>4, <4>1 DEF NoPeerWithoutConnection
      <4>2. CASE q = n /\ r = p
        <5>1. <<c, p>> \in open'[q] /\ <<c, p>>[2] = r
          BY <2>4, <4>2
        <5> QED BY <5>1
      <4>3. CASE q = p /\ r = n
        <5>1. <<c, n>> \in open'[q] /\ <<c, n>>[2] = r
          BY <2>4, <4>3
        <5> QED BY <5>1
      <4> QED BY <2>4, <4>1, <4>2, <4>3
    <3>2. \A q \in Node : authed'[q] \subseteq greeted'[q]
      BY <2>3, <2>4 DEF NoPeerWithoutConnection
    <3> QED BY <3>1, <3>2 DEF NoPeerWithoutConnection
  <2> QED BY <1>0, <2>5, <2>6
<1>5. CASE \E n, p \in Node, c \in Conn : Close(n, c, p) \/ Fail(n, c, p)
  <2>1. PICK n \in Node, p \in Node, c \in Conn : CloseAt(n, c, p) /\ <<c, p>> \in open[n]
    BY <1>5 DEF Close, Fail
  <2>2. /\ open'[n] = open[n] \ {<<c, p>>}
        /\ \A q \in Node : q # n => /\ open'[q] = open[q] /\ greeted'[q] = greeted[q]
                                   /\ authed'[q] = authed[q]
    BY <2>1 DEF CloseAt, NodesTyped
  <2>3. CASE Last(n, c, p)
    <3>1. greeted'[n] = greeted[n] \ {p} /\ authed'[n] = authed[n] \ {p}
      BY <2>1, <2>3 DEF CloseAt, NodesTyped
    <3>2. \A l \in open'[n] : l[2] # p
      BY <2>2, <2>3 DEF Last, To
    <3> QED BY <1>0, <2>1, <2>2, <3>1, <3>2 DEF AllGreeted, NoPeerWithoutConnection
  <2>4. CASE ~Last(n, c, p)
    <3>1. greeted' = greeted /\ authed' = authed
      BY <2>1, <2>4 DEF CloseAt
    <3>2. \E l \in open'[n] : l[2] = p
      BY <2>1, <2>2, <2>4 DEF Last, To
    <3> QED BY <1>0, <2>2, <3>1, <3>2 DEF AllGreeted, NoPeerWithoutConnection
  <2> QED BY <2>3, <2>4
<1> QED BY <1>1, <1>2, <1>3, <1>4, <1>5 DEF Next, StoreStep, CompleteEnrolment, StartPhone, StartSeed, Ask,
                                          Handle, ResponseSent, OnDenied, OnAsk, TimeOut, vars

(* ConnectionClosed forgets a peer exactly with its last connection, so     *)
(* greeted and authed never outlive it.                                     *)
THEOREM ConnectionsNoPeerWithout == Spec => []NoPeerWithoutConnection
<1>1. Init => PeersInv
  BY TypedInit DEF Init, PeersInv, AllGreeted, NoPeerWithoutConnection
<1>2. PeersInv => NoPeerWithoutConnection
  BY DEF PeersInv
<1> QED BY <1>1, <1>2, PeersInvNext, PTL DEF Spec
=============================================================================

----------------------------- MODULE SeedStore -----------------------------
(***************************************************************************)
(* The seed server's register: invites, devices and the signed revocation  *)
(* list, seed-server/src/store.rs behind the handlers of http.rs.  Two     *)
(* processes use it: the server, which takes one lock for each statement,  *)
(* transaction or list it makes, and the command line, which that lock     *)
(* does not hold up.  So revoking a device is two steps, answering an      *)
(* enrolment is two steps, and a list is read in two steps between which   *)
(* only the command line can act.                                          *)
(***************************************************************************)
EXTENDS Integers, FiniteSets, Sequences, Functions

CONSTANTS Phones,      \* the devices that join here, each with a key pair of its own
          Absent,      \* devices that may have joined before and are not seen again
          MaxInvites,  \* bound: how many invites are created
          MaxNow,      \* bound: the last time of the server's clock
          InviteTtl,   \* how long an invite may be redeemed
          CertTtl,     \* how long a certificate is valid (--cert-days)
          ClockSetBack \* may the clock be set back?  (Or, what comes to the same, may a
                       \* process write the stamp it took after a later one was written?)

Device == Phones \cup Absent

ASSUME SeedStoreAssumption ==
  /\ IsFiniteSet(Device) /\ Phones \cap Absent = {}
  /\ MaxInvites \in Nat /\ MaxNow \in Nat \ {0}
  /\ InviteTtl \in Nat /\ CertTtl \in Nat
  /\ ClockSetBack \in BOOLEAN

VARIABLES
  now,         \* the clock; server and devices read the same one here
  expires,     \* expires[i]: when the i-th invite created ends
  spent,       \* the invites redeemed
  nextSerial,  \* org.next_serial
  device,      \* device[d]: the row of device d, serial 0 if there is none
  updated,     \* org.crl_updated_at_ms
  publishing,  \* revocations whose second statement is still to run
  reading,     \* the names crl() has read, while it is still to read their stamp
  enrolling    \* enrolling[d]: the enrolment of phone d that is on its way

storeVars ==
  <<now, expires, spent, nextSerial, device, updated, publishing, reading, enrolling>>

ServerSerial == 0
Serial == ServerSerial .. MaxInvites
Cert == [serial : Serial, expires : 0 .. MaxNow + CertTtl]
List == [stamp : 0 .. MaxNow, revoked : SUBSET Serial]

Empty == [stamp |-> 0, revoked |-> {}]

NoEnrolment == [step |-> "idle"]
NotReading == {-1}  \* what no list names

-----------------------------------------------------------------------------
(* Bug: the list names only the certificate revoked last. *)
RevokedMutant ==
  LET serials == {device[d].serial : d \in {e \in Device : device[e].revoked}}
  IN  {s \in serials : \A t \in serials : t <= s}

Revoked == {device[d].serial : d \in {e \in Device : device[e].revoked}}

(* What crl() makes of the names it read: with nobody revoked it is the    *)
(* empty list with stamp 0, whatever crl_updated_at_ms says.               *)
ListOf(names) == IF names = {} THEN Empty ELSE [stamp |-> updated, revoked |-> names]

(* The list a reader gets between whose two statements nothing happens.    *)
Crl == ListOf(Revoked)

(* crl(), first statement.  No transaction joins the two.                  *)
ReadNames ==
  /\ reading = NotReading
  /\ reading' = Revoked
  /\ UNCHANGED <<now, expires, spent, nextSerial, device, updated, publishing, enrolling>>

(* crl(), second statement, for a list that goes nowhere: the answer to a  *)
(* device that has given up, or GET /v1/crl, which nothing in the          *)
(* repository asks for.                                                    *)
ServeCrl ==
  /\ reading # NotReading
  /\ reading' = NotReading
  /\ UNCHANGED <<now, expires, spent, nextSerial, device, updated, publishing, enrolling>>

CreateInvite ==
  /\ Len(expires) < MaxInvites
  /\ expires' = Append(expires, now + InviteTtl)
  /\ UNCHANGED <<now, spent, nextSerial, device, updated, publishing, reading, enrolling>>

(* Bug: the counter is moved on by two statements instead of one. *)
AllocateMutant == nextSerial' = nextSerial + 2

Allocate == nextSerial' = nextSerial + 1

(* redeem_invite, one transaction: the invite must exist, be unused and    *)
(* unexpired.  A device that has a row keeps it, with the new serial and   *)
(* no longer revoked.                                                      *)
Redeem(d, i) ==
  /\ reading = NotReading
  /\ enrolling[d] = NoEnrolment
  /\ i \in DOMAIN expires \ spent /\ now <= expires[i]
  /\ Allocate
  /\ spent' = spent \cup {i}
  /\ device' = [device EXCEPT ![d] = [serial |-> nextSerial, revoked |-> FALSE]]
  /\ enrolling' = [enrolling EXCEPT ![d] =
       [step |-> "redeemed", cert |-> [serial |-> nextSerial, expires |-> now + CertTtl]]]
  /\ UNCHANGED <<now, expires, updated, publishing, reading>>

(* The rest of the enroll handler: the list is read after the transaction, *)
(* and this is its second statement.                                       *)
Answer(d) ==
  /\ reading # NotReading
  /\ enrolling[d].step = "redeemed"
  /\ enrolling' = [enrolling EXCEPT ![d] =
       [step |-> "answered", cert |-> enrolling[d].cert, list |-> ListOf(reading)]]
  /\ reading' = NotReading
  /\ UNCHANGED <<now, expires, spent, nextSerial, device, updated, publishing>>

(* The request fails for the device; the server has done what it has done. *)
LoseAnswer(d) ==
  /\ enrolling[d] # NoEnrolment
  /\ enrolling' = [enrolling EXCEPT ![d] = NoEnrolment]
  /\ UNCHANGED <<now, expires, spent, nextSerial, device, updated, publishing, reading>>

(* revoke, first statement: only an active device has a row to update.     *)
Revoke(d) ==
  /\ device[d].serial # 0 /\ ~device[d].revoked
  /\ device' = [device EXCEPT ![d].revoked = TRUE]
  /\ publishing' = publishing + 1
  /\ UNCHANGED <<now, expires, spent, nextSerial, updated, reading, enrolling>>

(* revoke, second statement: the wall clock of that moment, whatever stamp *)
(* it replaces.  It is never obliged to run: the process may die before.   *)
Publish ==
  /\ publishing > 0
  /\ updated' = now
  /\ publishing' = publishing - 1
  /\ UNCHANGED <<now, expires, spent, nextSerial, device, reading, enrolling>>

PassTime ==
  /\ now' \in IF ClockSetBack THEN 1 .. MaxNow ELSE {now + 1}
  /\ now' <= MaxNow
  /\ UNCHANGED <<expires, spent, nextSerial, device, updated, publishing, reading, enrolling>>

(* Some of the absent devices have joined, one after the other.            *)
StoreInit ==
  /\ now = 1
  /\ updated = 0
  /\ publishing = 0
  /\ reading = NotReading
  /\ enrolling = [d \in Phones |-> NoEnrolment]
  /\ \E joined \in SUBSET Absent :
       LET count == Cardinality(joined)
       IN  /\ count <= MaxInvites
           /\ expires = [i \in 1 .. count |-> now + InviteTtl]
           /\ spent = 1 .. count
           /\ nextSerial = count + 1
           /\ \E serial \in Bijection(joined, 1 .. count) :
                device = [d \in Device |->
                  [serial |-> IF d \in joined THEN serial[d] ELSE 0, revoked |-> FALSE]]

StoreTypeOK ==
  /\ now \in 1 .. MaxNow
  /\ expires \in Seq(1 .. MaxNow + InviteTtl) /\ Len(expires) <= MaxInvites
  /\ spent \subseteq DOMAIN expires
  /\ nextSerial \in 1 .. MaxInvites + 1
  /\ device \in [Device -> [serial : Serial, revoked : BOOLEAN]]
  /\ updated \in 0 .. MaxNow
  /\ publishing \in 0 .. MaxInvites
  /\ reading \in {NotReading} \cup SUBSET Serial
  /\ enrolling \in [Phones ->
       {NoEnrolment} \cup [step : {"redeemed"}, cert : Cert]
                     \cup [step : {"answered"}, cert : Cert, list : List]]
=============================================================================

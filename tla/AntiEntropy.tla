---------------------------- MODULE AntiEntropy ----------------------------
(***************************************************************************)
(* Catching up by version vector: the pull half of p2p-core/src/net/node.rs *)
(* over the log and the version vector of p2p-core/src/db.  A device that   *)
(* has met a peer sends it what it knows; the peer answers with one page of *)
(* what is missing, oldest first; a full page is followed by another        *)
(* request.  Requests and answers travel independently, are overtaken by    *)
(* others, and may be lost.                                                 *)
(*                                                                          *)
(* Two kinds of device differ from the rest.  What a device with a         *)
(* read-only certificate writes is dropped by everybody who has met it,    *)
(* whoever hands it over; a discovery-only node introduces others and      *)
(* neither asks, nor is asked, nor stores.                                 *)
(*                                                                         *)
(* The database is seen through what the protocol uses of it: which records *)
(* are held and what the vector says.  What a record means for a row is the *)
(* business of module Replica.                                              *)
(***************************************************************************)
EXTENDS Records

CONSTANTS Limit,      \* MAX_SYNC_CHANGES, the size of a page
          Link,       \* the pairs of devices that can reach each other
          Authors,    \* the devices whose applications write
          Replicas,   \* the devices that replicate; the others are discovery-only
          Readers,    \* the devices enrolled read-only at first
          MaxAsked,   \* bound: exchanges a device has open with one peer
          MaxLosses   \* bound: messages lost, connections closed, roles changed

ASSUME AntiEntropyAssumption ==
  /\ Limit \in Nat \ {0}
  /\ Link \subseteq Device \X Device
  /\ Replicas \subseteq Device /\ Authors \subseteq Replicas
  /\ Readers \subseteq Device
  /\ MaxAsked \in Nat /\ MaxLosses \in Nat

Change == [origin : Device, hlc : Stamp]

VARIABLES
  log,      \* log[d]: the records d holds
  vv,       \* vv[d][o]: _p2p_vv of d
  authed,   \* authed[d]: the peers that d has authenticated and is connected to
  net,      \* requests and answers that have been sent and not yet handled
  losses,   \* what has been lost so far
  readonly, \* the devices whose certificate says read-only
  barred    \* barred[d]: readonly_origins of d, the read-only devices it has met

roles == <<readonly, barred>>

vars == <<log, vv, authed, net, losses, readonly, barred>>

Vector == [Device -> 0..MaxStamp]

Request == [type : {"Sync"}, from : Device, to : Device, vv : Vector]
Answer  == [type : {"Changes"}, from : Device, to : Device,
            changes : SUBSET Change, more : BOOLEAN]

OwnRecords(d) == {r \in log[d] : r.origin = d}
-----------------------------------------------------------------------------
(* The database.                                                           *)

(* Bug: a stamp may be below the ones already given out. *)
AuthorMutant(d) ==
  \E stamps \in SUBSET Stamp \ {{}} :
    LET recs == [origin : {d}, hlc : stamps]
    IN  /\ log' = [log EXCEPT ![d] = @ \cup recs]
        /\ vv'  = [vv  EXCEPT ![d] = BumpVV(@, recs)]
        /\ UNCHANGED <<authed, net, losses, roles>>

(* flush_local: records of d's own, stamped above its earlier ones.        *)
Author(d) ==
  \E stamps \in SUBSET Stamp \ {{}} :
    LET recs == [origin : {d}, hlc : stamps]
    IN  /\ \A r \in recs, s \in OwnRecords(d) : s.hlc < r.hlc
        /\ log' = [log EXCEPT ![d] = @ \cup recs]
        /\ vv'  = [vv  EXCEPT ![d] = BumpVV(@, recs)]
        /\ UNCHANGED <<authed, net, losses, roles>>

(* apply: the records of authors known to be read-only are dropped.        *)
Kept(d, changes) == {r \in changes : r.origin \notin barred[d]}

Store(d, changes) ==
  LET fresh == Fresh(log[d], Kept(d, changes))
  IN  /\ log' = [log EXCEPT ![d] = @ \cup fresh]
      /\ vv'  = [vv  EXCEPT ![d] = BumpVV(@, fresh)]

(* Bug: the page is taken from the newest end. *)
PageMutant(recs, limit) ==
  {r \in recs : Cardinality({s \in recs : IncomingWins(s, r)}) < limit}

Page(recs, limit) ==
  {r \in recs : Cardinality({s \in recs : IncomingWins(r, s)}) < limit}

(* Bug: the asker's stamp itself is sent again, the one above it is not. *)
ChangesSinceMutant(held, asked, limit) ==
  Page({r \in held : r.hlc > asked[r.origin] + 1}, limit)

ChangesSince(held, asked, limit) ==
  Page({r \in held : r.hlc > asked[r.origin]}, limit)
-----------------------------------------------------------------------------
(* Exchanges.                                                              *)

Ask(d, p) == [type |-> "Sync", from |-> d, to |-> p, vv |-> vv[d]]

Open(d, p) == Cardinality({m \in net : \/ m.type = "Sync" /\ m.from = d /\ m.to = p
                                       \/ m.type = "Changes" /\ m.from = p /\ m.to = d})

(* request_sync: only nodes that replicate ask, and only such are asked.   *)
Asks(d, peers) == {Ask(d, p) : p \in IF d \in Replicas THEN peers \cap Replicas ELSE {}}

(* Bug: a role once learnt is not looked at again. *)
LearnRoleMutant(known, p) == IF known = {} /\ p \in readonly THEN {p} ELSE known

(* accept_peer: the certificate shown decides, each time.                  *)
LearnRole(known, p) == IF p \in readonly THEN known \cup {p} ELSE known \ {p}

(* The handshake between d and p is done at both ends: each has learnt the *)
(* other's role, and asks the other at once (on_response to Hello).        *)
Meet(d, p) ==
  /\ <<d, p>> \in Link
  /\ p \notin authed[d]
  /\ authed' = [authed EXCEPT ![d] = @ \cup {p}, ![p] = @ \cup {d}]
  /\ net' = net \cup Asks(d, {p}) \cup Asks(p, {d})
  /\ barred' = [barred EXCEPT ![d] = LearnRole(@, p), ![p] = LearnRole(@, d)]
  /\ UNCHANGED <<log, vv, losses, readonly>>

(* The sync timer, or SyncNow: every authenticated peer is asked.          *)
RequestSyncFromAll(d) ==
  /\ \E p \in authed[d] : Open(d, p) < MaxAsked /\ Asks(d, {p}) # {}
  /\ net' = net \cup Asks(d, {p \in authed[d] : Open(d, p) < MaxAsked})
  /\ UNCHANGED <<log, vv, authed, losses, roles>>

(* on_request, Sync: the page is cut from the log as it is now.            *)
Serve(m) ==
  /\ m.type = "Sync"
  /\ LET page == ChangesSince(log[m.to], m.vv, Limit)
     IN  net' = (net \ {m}) \cup
                {[type |-> "Changes", from |-> m.to, to |-> m.from,
                  changes |-> page, more |-> Cardinality(page) = Limit]}
  /\ UNCHANGED <<log, vv, authed, losses, roles>>

(* on_response, Sync: store the page; after a full one ask for the next,   *)
(* with the vector as it is after storing.                                 *)
Receive(m) ==
  /\ m.type = "Changes"
  /\ Store(m.to, m.changes)
  /\ net' = (net \ {m}) \cup
            (IF m.more /\ m.from \in authed[m.to]
               THEN {[type |-> "Sync", from |-> m.to, to |-> m.from, vv |-> vv'[m.to]]}
               ELSE {})
  /\ UNCHANGED <<authed, losses, roles>>

(* A request that times out or whose connection breaks; nothing is retried. *)
Lose(m) ==
  /\ losses < MaxLosses
  /\ net' = net \ {m}
  /\ losses' = losses + 1
  /\ UNCHANGED <<log, vv, authed, roles>>

(* The connection closes and takes what is travelling on it along.         *)
Part(d, p) ==
  /\ p \in authed[d]
  /\ losses < MaxLosses
  /\ authed' = [authed EXCEPT ![d] = @ \ {p}, ![p] = @ \ {d}]
  /\ net' = {m \in net : {m.from, m.to} # {d, p}}
  /\ losses' = losses + 1
  /\ UNCHANGED <<log, vv, roles>>

(* d is enrolled again with the other role (complete_enrollment, which the *)
(* application only calls while no node runs): its connections are gone,   *)
(* and nobody knows of the new role before it has met d again.  (The role  *)
(* of a device that never writes makes no difference.)                     *)
Reenroll(d) ==
  /\ losses < MaxLosses
  /\ readonly' = IF d \in readonly THEN readonly \ {d} ELSE readonly \cup {d}
  /\ authed' = [p \in Device |-> IF p = d THEN {} ELSE authed[p] \ {d}]
  /\ net' = {m \in net : m.from # d /\ m.to # d}
  /\ losses' = losses + 1
  /\ UNCHANGED <<log, vv, barred>>
-----------------------------------------------------------------------------
Init ==
  /\ log    = [d \in Device |-> {}]
  /\ vv     = [d \in Device |-> [o \in Device |-> 0]]
  /\ authed = [d \in Device |-> {}]
  /\ net    = {}
  /\ losses = 0
  /\ readonly = Readers
  /\ barred = [d \in Device |-> {}]

Next ==
  \/ \E d \in Authors : Author(d) \/ Reenroll(d)
  \/ \E d \in Device : RequestSyncFromAll(d)
  \/ \E d, p \in Device : Meet(d, p) \/ Part(d, p)
  \/ \E m \in net : Serve(m) \/ Receive(m) \/ Lose(m)

Spec == Init /\ [][Next]_vars

(* The timer fires again and again, links that can come up do, and a node  *)
(* handles what has reached it.                                            *)
Fairness ==
  /\ \A d \in Device : WF_vars(RequestSyncFromAll(d))
  /\ \A d, p \in Device :
       /\ WF_vars(Meet(d, p))
       /\ WF_vars(\E m \in net : m.from = d /\ m.to = p /\ Serve(m))
       /\ WF_vars(\E m \in net : m.from = d /\ m.to = p /\ Receive(m))

FairSpec == Spec /\ Fairness
-----------------------------------------------------------------------------
TypeOK ==
  /\ log    \in [Device -> SUBSET Change]
  /\ vv     \in [Device -> Vector]
  /\ authed \in [Device -> SUBSET Device]
  /\ net    \in SUBSET (Request \cup Answer)
  /\ losses \in 0..MaxLosses
  /\ readonly \in SUBSET Device
  /\ barred \in [Device -> SUBSET Device]

Promises == INSTANCE ChangeLog

Implements == Promises!Spec

(* "Everything from device X above stamp S" is all a device ever asks for, *)
(* so what it holds of X must be all X authored up to the stamp its vector *)
(* shows: nothing below it is missing, or it would never be asked for.     *)
NothingSkipped == \A d, o \in Device :
  {r \in log[d] : r.origin = o} = {r \in OwnRecords(o) : r.hlc <= vv[d][o]}

(* An answer on its way can be stored without opening a gap, however long  *)
(* it was travelling: all that is older and missing travels with it.       *)
AnswersFit == \A m \in net : m.type = "Changes" =>
  \A r \in m.changes : \A s \in OwnRecords(r.origin) :
    s.hlc < r.hlc => s \in m.changes \/ s.hlc <= vv[m.to][r.origin]

(* security.md: what a read-only device writes is dropped by all who have   *)
(* met it, however it arrives, and it serves its own only to those.  So by  *)
(* catching up, nothing it holds back ever gets out while it is read-only,  *)
(* also when it could write before and some of its records are out there.   *)
Out(o) == {r \in OwnRecords(o) : \E d \in Device \ {o} : r \in log[d]}

ReadOnlyContained == [][\A o \in readonly \cap readonly' : Out(o)' = Out(o)]_vars

(* architecture.md: an organisation converges as long as its devices       *)
(* overlap in pairs over time.  What counts is what the devices that may   *)
(* write have written.                                                     *)
Written(d) == {r \in log[d] : r.origin \notin readonly}

Converges == <>[](\A d, e \in Replicas : Written(d) = Written(e))
=============================================================================

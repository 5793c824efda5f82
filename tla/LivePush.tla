------------------------------ MODULE LivePush ------------------------------
(***************************************************************************)
(* Live replication on top of anti-entropy: flush_and_push and broadcast   *)
(* of p2p-core/src/net/node.rs with the outbox of p2p-core/src/db.  What   *)
(* the device authored and has not yet broadcast is pushed to every        *)
(* authenticated peer and gossiped, and only then the broadcast mark is    *)
(* advanced.  The application goes on writing from its own threads between *)
(* the two, and the process may die between them.                          *)
(***************************************************************************)
EXTENDS AntiEntropy

CONSTANTS Outbox,     \* the most records one round takes from the outbox
          Chunk,      \* MAX_PUSH_CHANGES, the records in one push
          Gossips     \* does gossip reach devices that are not connected?

ASSUME LivePushAssumption ==
  Outbox \in Nat \ {0} /\ Chunk \in Nat \ {0} /\ Gossips \in BOOLEAN

VARIABLES
  mark,     \* mark[d]: broadcast_seq, as the stamp of the last record marked
  sending   \* sending[d]: what flush_and_push has broadcast and not yet marked

pushVars == <<log, vv, authed, net, losses, readonly, barred, mark, sending>>

Push == [type : {"Push"}, from : Device, to : Device, changes : SUBSET Change]

(* Bug: the record right after the mark is taken for marked. *)
UnbroadcastMutant(d) == Page({r \in OwnRecords(d) : r.hlc > mark[d] + 1}, Outbox)

(* Own records lie in the log in the order of their stamps, so the mark    *)
(* over row numbers is a mark over stamps.                                 *)
Unbroadcast(d) == Page({r \in OwnRecords(d) : r.hlc > mark[d]}, Outbox)

Chunks(recs) ==
  LET place(r) == Cardinality({s \in recs : s.hlc < r.hlc}) \div Chunk
  IN  {{s \in recs : place(s) = place(r)} : r \in recs}

(* flush_and_push up to mark_broadcast.  A publish with no peer to carry   *)
(* it "fails harmlessly".                                                  *)
Broadcast(d) ==
  /\ d \in Replicas
  /\ sending[d] = {}
  /\ Unbroadcast(d) # {}
  /\ sending' = [sending EXCEPT ![d] = Unbroadcast(d)]
  /\ \E heard \in IF Gossips /\ authed[d] # {}
                    THEN SUBSET (Device \ ({d} \cup authed[d])) ELSE {{}} :
       net' = net \cup [type : {"Push"}, from : {d}, to : (authed[d] \cup heard) \cap Replicas,
                        changes : Chunks(Unbroadcast(d))]
  /\ UNCHANGED <<log, vv, authed, losses, roles, mark>>

(* Bug: the mark is set to the newest record authored by now. *)
HighMutant(d) == Highest({r.hlc : r \in OwnRecords(d)})

High(d) == Highest({r.hlc : r \in sending[d]})

MarkBroadcast(d) ==
  /\ sending[d] # {}
  /\ mark' = [mark EXCEPT ![d] = High(d)]
  /\ sending' = [sending EXCEPT ![d] = {}]
  /\ UNCHANGED <<log, vv, authed, net, losses, roles>>

(* on_request, Push, and on_gossip: store what came.                       *)
Accept(m) ==
  /\ m.type = "Push"
  /\ Store(m.to, m.changes)
  /\ net' = net \ {m}
  /\ UNCHANGED <<authed, losses, roles, mark, sending>>

(* The process dies: connections and what travels on them are gone, and    *)
(* what was being sent is forgotten; the log and the mark are on disk.     *)
Crash(d) ==
  /\ losses < MaxLosses
  /\ losses' = losses + 1
  /\ authed' = [p \in Device |-> IF p = d THEN {} ELSE authed[p] \ {d}]
  /\ net' = {m \in net : m.from # d /\ m.to # d}
  /\ sending' = [sending EXCEPT ![d] = {}]
  /\ UNCHANGED <<log, vv, roles, mark>>
-----------------------------------------------------------------------------
PushInit == Init /\ mark = [d \in Device |-> 0] /\ sending = [d \in Device |-> {}]

PushNext ==
  \/ Next /\ UNCHANGED <<mark, sending>>
  \/ \E d \in Device : Broadcast(d) \/ MarkBroadcast(d) \/ Crash(d)
  \/ \E m \in net : Accept(m)

PushSpec == PushInit /\ [][PushNext]_pushVars

(* As for anti-entropy; and the flush timer fires again and again.         *)
PushFairness ==
  /\ \A d \in Device :
       /\ WF_pushVars(RequestSyncFromAll(d) /\ UNCHANGED <<mark, sending>>)
       /\ WF_pushVars(Broadcast(d))
       /\ WF_pushVars(MarkBroadcast(d))
  /\ \A d, p \in Device :
       LET on(m) == m.from = d /\ m.to = p
       IN  /\ WF_pushVars(Meet(d, p) /\ UNCHANGED <<mark, sending>>)
           /\ WF_pushVars(\E m \in net : on(m) /\ Serve(m) /\ UNCHANGED <<mark, sending>>)
           /\ WF_pushVars(\E m \in net : on(m) /\ Receive(m) /\ UNCHANGED <<mark, sending>>)
           /\ WF_pushVars(\E m \in net : on(m) /\ Accept(m))

FairPushSpec == PushSpec /\ PushFairness
-----------------------------------------------------------------------------
PushTypeOK ==
  /\ log     \in [Device -> SUBSET Change]
  /\ vv      \in [Device -> Vector]
  /\ authed  \in [Device -> SUBSET Device]
  /\ net     \in SUBSET (Request \cup Answer \cup Push)
  /\ losses  \in 0..MaxLosses
  /\ readonly \in SUBSET Device
  /\ barred  \in [Device -> SUBSET Device]
  /\ mark    \in [Device -> 0..MaxStamp]
  /\ sending \in [Device -> SUBSET Change]

(* The outbox is read again at every flush while the application goes on    *)
(* writing (node.rs: "whatever we have authored but not yet sent,           *)
(* regardless of which code path stamped it").  What the mark passes is in  *)
(* the page that broadcast has just gone through: a record authored between *)
(* the broadcast and the mark waits for the next one.  It says nothing of   *)
(* whether anybody was there to be sent it.                                *)
MarkFollowsBroadcast ==
  [][\A d \in Device :
       {r \in OwnRecords(d) : mark[d] < r.hlc /\ r.hlc <= mark'[d]} \subseteq sending[d]]_pushVars

(* db/mod.rs: mark_broadcast is to be called "only after the changes have   *)
(* actually gone out, so a failure means they are retried".  Where nothing  *)
(* is lost, a record at or below the mark is then on its way to another     *)
(* device or held there.                                                   *)
MarkedWasSent ==
  \A d \in Device : \A r \in OwnRecords(d) :
    r.hlc <= mark[d] =>
      \/ \E p \in Device \ {d} : r \in log[p]
      \/ \E m \in net : m.type = "Push" /\ r \in m.changes

(* What was authored is broadcast in the end, unless the device stops.     *)
EverythingBroadcast ==
  \A d \in Authors : []<>(\A r \in OwnRecords(d) : r.hlc <= mark[d])

(* A vector never shows a stamp its device does not hold, and a record is  *)
(* never held that the vector does not cover.                              *)
VVIsHighest == \A d, o \in Device :
  vv[d][o] = Highest({r.hlc : r \in {x \in log[d] : x.origin = o}})
=============================================================================

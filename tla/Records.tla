------------------------------ MODULE Records ------------------------------
(***************************************************************************)
(* What every part of the system shares about change records: the order of *)
(* the organisation's records, recognising a record already held, and the  *)
(* version vector (p2p-core/src/db/change.rs and the helpers of db/mod.rs). *)
(* A record here is anything with an origin and a stamp hlc.               *)
(*                                                                         *)
(* A stamp is the pair (wall_ms, counter) flattened to one number, wall_ms *)
(* scaled by the counter's range; comparing numbers is comparing pairs.    *)
(***************************************************************************)
EXTENDS Integers, FiniteSets, FiniteSetsExt

CONSTANTS NDevices,   \* devices are 1..NDevices, in the order of their PeerIds
          MaxStamp    \* bound: no record is stamped above it

ASSUME RecordsAssumption == NDevices \in Nat /\ MaxStamp \in Nat

Device == 1..NDevices
Stamp  == 1..MaxStamp

Highest(S) == IF S = {} THEN 0 ELSE Max(S)

(* Bug: the origin is not consulted, so a tie has no winner. *)
IncomingWinsMutant(new, old) == new.hlc > old.hlc

IncomingWins(new, old) ==
  \/ new.hlc > old.hlc
  \/ new.hlc = old.hlc /\ new.origin > old.origin

Fresh(held, batch) ==
  {r \in batch : \A s \in held : s.origin # r.origin \/ s.hlc # r.hlc}

(* Bug: the entry is overwritten instead of raised. *)
BumpVVMutant(vector, recs) ==
  [o \in Device |->
     LET stamps == {r.hlc : r \in {x \in recs : x.origin = o}}
     IN  IF stamps = {} THEN vector[o] ELSE Min(stamps)]

(* Bug: the entry is the next stamp wanted, not the highest one held. *)
BumpVVNextMutant(vector, recs) ==
  [o \in Device |->
     Highest({vector[o]} \cup {r.hlc + 1 : r \in {x \in recs : x.origin = o}})]

BumpVV(vector, recs) ==
  [o \in Device |->
     Highest({vector[o]} \cup {r.hlc : r \in {x \in recs : x.origin = o}})]
=============================================================================

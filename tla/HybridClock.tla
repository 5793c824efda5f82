---------------------------- MODULE HybridClock ----------------------------
(***************************************************************************)
(* The hybrid logical clock of p2p-core/src/hlc.rs as it is written: a wall *)
(* time and a counter of bounded width, ticked for a local write and moved  *)
(* by the stamps of records that arrive.  The wall clock shows anything,    *)
(* and anything after that.                                                *)
(***************************************************************************)
EXTENDS Integers

CONSTANTS MaxWall,      \* bound: wall times are 0..MaxWall
          MaxCounter,   \* u32::MAX
          MaxDrift      \* MAX_CLOCK_DRIFT_MS

ASSUME HybridClockAssumption ==
  MaxWall \in Nat /\ MaxCounter \in Nat \ {0} /\ MaxDrift \in Nat

VARIABLES
  last,   \* the clock
  peak,   \* the latest wall time ever read
  seen    \* the highest stamp handed out, or received and absorbed

vars == <<last, peak, seen>>

Hlc == [wall : 0..MaxWall, counter : 0..MaxCounter]

Earlier(a, b) == a.wall < b.wall \/ (a.wall = b.wall /\ a.counter < b.counter)

Later(a, b) == IF Earlier(a, b) THEN b ELSE a

(* Bug: the addition does not saturate. *)
SaturatingMutant(n) == n + 1

(* u32::saturating_add(1) *)
Saturating(n) == IF n < MaxCounter THEN n + 1 ELSE MaxCounter

At(wall, counter) == [wall |-> wall, counter |-> counter]

(* Bug: the wall time is used as it is, and may have been set back. *)
NextStampMutant(from, phys) ==
  IF phys = from.wall THEN At(phys, Saturating(from.counter)) ELSE At(phys, 0)

(* The stamp after `from` when the wall clock shows phys. *)
NextStamp(from, phys) ==
  IF phys > from.wall THEN At(phys, 0) ELSE At(from.wall, Saturating(from.counter))

(* Bug: every stamp is absorbed. *)
AbsorbsMutant(phys, remote) == TRUE

(* Inside the drift window. *)
Absorbs(phys, remote) == remote.wall <= phys + MaxDrift
-----------------------------------------------------------------------------
Tick(phys) ==
  /\ last' = NextStamp(last, phys)
  /\ seen' = Later(seen, last')
  /\ peak' = IF phys > peak THEN phys ELSE peak

(* A stamp outside the window counts as an event of our own; otherwise the *)
(* clock moves past both itself and the stamp, unless the wall clock is    *)
(* already past both.                                                      *)
ObserveFrom(from, phys, remote) ==
  IF Absorbs(phys, remote) THEN NextStamp(Later(from, remote), phys)
                           ELSE NextStamp(from, phys)

Observe(phys, remote) ==
  /\ last' = ObserveFrom(last, phys, remote)
  /\ seen' = IF Absorbs(phys, remote) THEN Later(seen, remote) ELSE seen
  /\ peak' = IF phys > peak THEN phys ELSE peak

Init == last = At(0, 0) /\ peak = 0 /\ seen = At(0, 0)

Next == \E phys \in 0..MaxWall : Tick(phys) \/ \E remote \in Hlc : Observe(phys, remote)

Spec == Init /\ [][Next]_vars
-----------------------------------------------------------------------------
TypeOK == last \in Hlc /\ peak \in 0..MaxWall /\ seen \in Hlc

(* hlc.rs: any write made afterwards "sorts after everything we have        *)
(* already seen": no stamp handed out or absorbed is above the clock, from  *)
(* which the next stamp is made, however the wall clock jumped meanwhile.   *)
NothingAhead == ~Earlier(last, seen)

(* hlc.rs: "one device with a broken clock would poison every clock in the  *)
(* organisation".  The clock is never further ahead than the drift window   *)
(* allows of the latest time this device's own wall clock has shown.        *)
NotPoisoned == last.wall <= peak + MaxDrift

(* hlc.rs: "the counter guarantees progress", up to its limit.              *)
Progress == [][last'.counter < MaxCounter => Earlier(last, last')]_vars

(* Flattened, the clock is the one the models of the database use, as long  *)
(* as no counter has reached its limit.                                     *)
Flat(h) == h.wall * (MaxCounter + 1) + h.counter

FlatClock == INSTANCE FlatClock WITH Drift <- Flat(At(MaxDrift, MaxCounter))

FlatAgrees ==
  \A phys \in 0..MaxWall :
    LET reading == Flat(At(phys, 0))
    IN  last.counter < MaxCounter =>
          /\ Flat(NextStamp(last, phys)) = FlatClock!Tick(Flat(last), reading)
          /\ \A r \in Hlc : r.counter < MaxCounter =>
               Flat(ObserveFrom(last, phys, r)) =
                 FlatClock!ObserveOne(Flat(last), reading, Flat(r))
=============================================================================

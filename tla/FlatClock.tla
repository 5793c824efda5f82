----------------------------- MODULE FlatClock -----------------------------
(***************************************************************************)
(* The hybrid clock over flattened stamps: wall_ms scaled by a counter's    *)
(* range plus the counter.  The models of the database use it; module       *)
(* HybridClock checks it against the clock of p2p-core/src/hlc.rs as it is  *)
(* written.                                                                *)
(***************************************************************************)
EXTENDS Integers, FiniteSetsExt

CONSTANT Drift        \* MAX_CLOCK_DRIFT_MS and a counter's range

(* Bug: the wall clock is trusted, so one set back issues old stamps. *)
TickMutant(last, phys) == phys

Tick(last, phys) == Max({phys, last + 1})

(* A stamp beyond the drift window only counts as an event.                 *)
ObserveOne(last, phys, stamp) ==
  IF stamp <= phys + Drift THEN Tick(Max({last, stamp}), phys) ELSE Tick(last, phys)
=============================================================================

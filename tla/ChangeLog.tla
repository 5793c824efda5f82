----------------------------- MODULE ChangeLog -----------------------------
(***************************************************************************)
(* What replication promises, with every mechanism left out.  Each device  *)
(* holds a set of change records.  A device may author records of its own, *)
(* stamped above everything it authored before, and may learn records that *)
(* some other device holds.  Nothing is ever forgotten or altered.         *)
(*                                                                         *)
(* The specification is written over steps (log, log'), so that a detailed *)
(* specification can be checked and proved against it.                     *)
(***************************************************************************)
EXTENDS Integers

CONSTANTS Device,   \* the enrolled devices, each the origin of its own records
          Change    \* the records that can exist, with fields origin and hlc

VARIABLE log        \* log[d]: what device d holds (`_p2p_change` at d)

TypeOK == log \in [Device -> SUBSET Change]

Init == log = [d \in Device |-> {}]

OnlyGrows(d) == /\ \A e \in Device \ {d} : log'[e] = log[e]
                /\ log[d] \subseteq log'[d]

New(d) == log'[d] \ log[d]

(* d authors records: its own name, fresh stamps, never below an old one.  *)
Author(d) ==
  /\ OnlyGrows(d)
  /\ \A r \in New(d) : r.origin = d
  /\ \A r, s \in New(d) : r.hlc = s.hlc => r = s
  /\ \A r \in New(d), s \in log[d] : s.origin = d => s.hlc < r.hlc

(* d learns records that e holds.                                          *)
Learn(d, e) ==
  /\ OnlyGrows(d)
  /\ New(d) \subseteq log[e]

Next == /\ TypeOK'
        /\ \E d \in Device : Author(d) \/ \E e \in Device : Learn(d, e)

Spec == Init /\ [][Next]_log
-----------------------------------------------------------------------------
(* A record is held by its author whenever anybody holds it.               *)
AuthorHolds == \A d \in Device : \A r \in log[d] :
                 r.origin \in Device /\ r \in log[r.origin]

(* change.rs: "`(origin, hlc)` is globally unique".  Two records anywhere  *)
(* in the organisation with one origin and one stamp are the same record.  *)
StampsUnique == \A d, e \in Device : \A r \in log[d], s \in log[e] :
                  r.origin = s.origin /\ r.hlc = s.hlc => r = s
=============================================================================

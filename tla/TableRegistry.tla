--------------------------- MODULE TableRegistry ---------------------------
(***************************************************************************)
(* How a table comes into replication and changes its shape while devices  *)
(* already exchange records of it: register_table, reload_table_specs and  *)
(* the map Db.tables of p2p-core/src/db/mod.rs, with the capture triggers  *)
(* of schema.rs.  The table of module Replica is one an application brings *)
(* itself: it exists before it is registered, columns are added to it, and *)
(* each device does so in its own time.                                    *)
(*                                                                         *)
(* register_table takes the connection twice and the map once, so a flush, *)
(* a delivery, a crash or another registration fits between its three      *)
(* parts; and a flush or a delivery copies the map before it takes the     *)
(* connection, so it can go on with a copy that a registration has made    *)
(* old in the meantime.                                                    *)
(***************************************************************************)
EXTENDS Replica

CONSTANTS First,     \* the columns the table is created with
          Callers,   \* threads of a device that may register the table
          Settled,   \* devices that have registered every column, for good
          Restarts   \* devices that may stop and open their database again

ASSUME RegistryAssumption ==
  /\ First \subseteq Col /\ Required \subseteq First
  /\ \A cols \in SUBSET Col : None # cols
  /\ Settled \subseteq Device /\ Restarts \subseteq Device

VARIABLES
  table,   \* table[d]: the columns the table has
  synced,  \* synced[d]: the columns in _p2p_synced_table, or None
  live,    \* live[d]: are the capture triggers installed?
  spec,    \* spec[d]: the columns in Db.tables, or None
  reg,     \* reg[d][k]: the register_table that thread k is in, or None
  held     \* held[d]: an older copy of the map some call still holds

shape   == <<table, synced, live, spec, reg, held>>
allVars == <<vars, shape>>

Shapes == SUBSET Col
-----------------------------------------------------------------------------
(* register_table.                                                         *)

AddColumn(d, c) ==
  /\ c \notin table[d]
  /\ table' = [table EXCEPT ![d] = @ \cup {c}]
  /\ UNCHANGED <<vars, synced, live, spec, reg, held>>

(* PRAGMA table_info, under the connection's lock. *)
ReadShape(d, k) ==
  /\ d \notin Settled /\ reg[d][k] = None
  /\ reg' = [reg EXCEPT ![d][k] = [step |-> "read", cols |-> table[d]]]
  /\ UNCHANGED <<vars, table, synced, live, spec, held>>

Adopted(d) ==
  [pk \in Pk |-> IF row[d][pk] # None /\ \A x \in cell[d] : x.pk # pk
                   THEN "upsert" ELSE ops[d][pk]]

(* The lock again: the shape is recorded, the triggers are installed and   *)
(* rows without a cell are staged.  What is recorded is what was read,      *)
(* whatever another registration has recorded in between.                  *)
StoreShape(d, k) ==
  /\ reg[d][k] # None /\ reg[d][k].step = "read"
  /\ synced' = [synced EXCEPT ![d] = reg[d][k].cols]
  /\ live'   = [live EXCEPT ![d] = TRUE]
  /\ ops'    = [ops EXCEPT ![d] = Adopted(d)]
  /\ reg'    = [reg EXCEPT ![d][k].step = "stored"]
  /\ UNCHANGED <<clk, log, cell, tomb, vv, row, table, spec, held>>

(* The map.  A call that copied it just before may still be waiting for    *)
(* the connection; at most one such call is followed.                      *)
Publish(d, k) ==
  /\ reg[d][k] # None /\ reg[d][k].step = "stored"
  /\ spec' = [spec EXCEPT ![d] = reg[d][k].cols]
  /\ \E late \in {{}, {spec[d]} \ {reg[d][k].cols}} : held' = [held EXCEPT ![d] = late]
  /\ reg' = [reg EXCEPT ![d][k] = None]
  /\ UNCHANGED <<vars, table, synced, live>>

(* Bug: the clock starts from zero again. *)
ResumeMutant(d) == 0

ResumeFrom(d) == Highest({r.hlc : r \in {x \in log[d] : x.origin = d}})

Idle == [k \in Callers |-> None]

(* A stop or a crash, then from_connection: the clock resumes from the      *)
(* device's own records, everything else is on disk, and the map is filled *)
(* from _p2p_synced_table.  The statements under the second lock are        *)
(* committed one by one: a crash among those of one registration leaves    *)
(* the shape recorded with the triggers as they were, dropped, or          *)
(* installed with nothing staged.                                          *)
Reopen(d) ==
  /\ d \in Restarts
  /\ clk' = [clk EXCEPT ![d] = ResumeFrom(d)]
  /\ \/ UNCHANGED <<synced, live>>
     \/ \E k \in Callers :
          /\ reg[d][k] # None /\ reg[d][k].step = "read"
          /\ synced' = [synced EXCEPT ![d] = reg[d][k].cols]
          /\ \E l \in BOOLEAN : live' = [live EXCEPT ![d] = l]
  /\ spec' = [spec EXCEPT ![d] = synced'[d]]
  /\ reg'  = [reg EXCEPT ![d] = Idle]
  /\ held' = [held EXCEPT ![d] = {}]
  /\ UNCHANGED <<log, cell, tomb, vv, row, ops, table>>
-----------------------------------------------------------------------------
(* The calls that copy the map.  One that holds the older copy is done     *)
(* with it.                                                                *)
WithMap(d, s) ==
  \/ s = spec[d] /\ UNCHANGED shape
  \/ /\ s \in held[d]
     /\ held' = [held EXCEPT ![d] = {}]
     /\ UNCHANGED <<table, synced, live, spec, reg>>

Flush(d, s) == WithMap(d, s) /\ FlushWith(d, s)

Receive(d, e, s) == WithMap(d, s) /\ DeliverWith(d, e, s)

Write(d) == App(d, table[d], live[d]) /\ UNCHANGED shape
-----------------------------------------------------------------------------
Installed(cols) ==
  LET start == [d \in Device |-> IF d \in Settled THEN Col ELSE cols]
  IN  /\ Init
      /\ table  = [d \in Device |-> IF d \in Settled THEN Col ELSE First]
      /\ synced = start /\ spec = start
      /\ live   = [d \in Device |-> start[d] # None]
      /\ reg    = [d \in Device |-> Idle]
      /\ held   = [d \in Device |-> {}]

(* The table has just been created everywhere else.                        *)
RegistryInit == Installed(None)

Register(d) == \E k \in Callers : ReadShape(d, k) \/ StoreShape(d, k) \/ Publish(d, k)

RegistryNext ==
  \/ \E d \in Device : Register(d) \/ Reopen(d)
  \/ \E d \in Device, c \in Col : AddColumn(d, c)
  \/ \E d \in Writers : Write(d)
  \/ \E d \in Device, s \in Shapes \cup {None} : Flush(d, s)
  \/ \E d \in Device, s \in Shapes \cup {None} : \E e \in Device \ {d} : Receive(d, e, s)

RegistrySpec == RegistryInit /\ [][RegistryNext]_allVars

(* The same from where every device replicates some shape, and with        *)
(* no call that goes on with an older copy of the map.                     *)
UpgradeSpec == Installed(First) /\ [][RegistryNext /\ UNCHANGED held]_allVars
-----------------------------------------------------------------------------
(* The types; and what the code never checks again: neither the map nor     *)
(* _p2p_synced_table names a column the table does not have or lacks one    *)
(* it was created with, so that materialize writes no unknown column.  The *)
(* two need not agree: of two overlapping registrations around an ALTER    *)
(* TABLE the older may be the last to record its shape, or to publish it.  *)
RegistryTypeOK ==
  /\ TypeOK
  /\ table \in [Device -> Shapes] /\ live \in [Device -> BOOLEAN]
  /\ reg \in [Device -> [Callers -> {None} \cup [step : {"read", "stored"}, cols : Shapes]]]
  /\ \A d \in Device :
       /\ held[d] \subseteq (SUBSET table[d]) \cup {None}
       /\ spec[d] # None => /\ synced[d] # None
                            /\ First \subseteq spec[d] /\ spec[d] \subseteq table[d]
       /\ synced[d] # None => First \subseteq synced[d] /\ synced[d] \subseteq table[d]

(* mod.rs, apply_remote and materialize: what a device could not show when *)
(* it arrived, because the table was not known, a column was not known or  *)
(* a required column was missing, "stays authoritative".  The next record  *)
(* about the row brings all of it into the row.                            *)
CatchesUp == \A d \in Device : \A r \in log'[d] \ log[d] :
  (r.origin # d /\ spec[d] # None /\ UNCHANGED held) => RowShowsNewest(d, r.pk, spec[d])'

TouchedRowsCatchUp == [][CatchesUp]_allVars

(* mod.rs, materialize: a column this build does not have "stays in the    *)
(* CRDT state so a future schema version can pick it up"; it is not        *)
(* overwritten with the default the column was added with.  Meaningful     *)
(* where no application writes Default.                                    *)
DefaultsStayHome ==
  [][\A d \in Device : \A r \in log'[d] \ log[d] :
       (r.origin = d /\ r.val = Default)
         => \A x \in cell[d] : SameKey(x, r) => x.val = Default]_allVars
=============================================================================

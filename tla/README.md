# A verification project for orgsync

orgsync replicates SQLite tables between the devices of an organisation, peer to peer. A device
writes to its own database at any time, connected or not; records of what changed travel over
libp2p, directly or by way of third devices; every device merges them into the same tables. This
directory holds TLA+ models of that machinery, TLC configurations that check them on small
instances, and TLAPS proofs of the results that matter most.

Paths are relative to the repository. `PROJECT.json` maps each definition to its lines.

## 1. The system

| Component | State | Operations | Talks to |
|---|---|---|---|
| Hybrid clock, `p2p-core/src/hlc.rs` | the last stamp, behind a mutex | `tick`, `observe` | the database |
| Database, `p2p-core/src/db/` | the application's tables; `_p2p_local_ops` (staged), `_p2p_change` (log), `_p2p_cell`, `_p2p_tombstone` (merge state), `_p2p_vv` (vector), `broadcast_seq` | triggers, `execute`, `flush_local`, `apply_remote`, `version_vector`, `changes_since`, `unbroadcast_local`, `mark_broadcast`, `register_table`, `from_connection` | clock; called by the node and, from other threads, by the application |
| Node, `p2p-core/src/net/node.rs`, `proto.rs` | authenticated peers, deny table, read-only origins, the swarm; a bounded channel of commands, a bounded ring of events | one `select!` loop: commands, flush timer, sync timer, swarm events; `flush_and_push`, `broadcast`, `request_sync`, `on_request`, `on_response`, `on_gossip`, `accept_peer` | database, peers, the application's event channel |
| Transport, `net/behaviour.rs`, `net/config.rs` | libp2p's | discovery, relay, hole punching, gossip | node |
| Identity, `identity.rs` | keys, certificates, signed revocation lists | sign, verify | node, seed server |
| Enrolment, `enroll.rs` | the device's certificate and revocation list on disk | load, save, `accept`, `merge_crl` | node, seed server |
| Seed server, `seed-server/src/` | organisation, invites, devices | create and redeem invites, revoke, publish the list, run a node | devices, over HTTP and libp2p |
| Mobile bindings and app, `p2p-mobile/src/lib.rs`, `mobile/src/` | the node's handle | start, stop, execute, query, events | core |
| Command line, `p2p-cli/src/main.rs` | none | drives the core | core |

### What is hard

* **Concurrency.** Every device writes while it receives. Inside a device the application's threads
  and the node's loop share the database; its mutex is released between a write and its flush, and
  between reading the outbox and advancing the broadcast mark.
* **Ordering.** Records of one cell come by push, gossip and pages, twice and out of order; a page
  may be answered before and stored after other deliveries.
* **Failure.** Requests are lost without retry, also while their connection stays; connections
  close; a process stops between two transactions and starts again with a clock rebuilt from disk; a
  transaction rolls back while the in-memory clock does not.
* **Time.** Wall clocks are set back, stand still, or are wrong by days on some device, or on the
  server, whose clock orders the revocation lists.
* **Lifecycle.** The application starts and stops nodes from several threads; stopping is a message
  in a channel that may be full; events go through a ring that overruns; tables are registered, by several
  threads at once, and change their shape while records of them travel.
* **Membership.** A handshake is two independent requests; certificates, roles and revocation lists
  spread by it; devices enrol again; the server and its command line are two processes on one register.

### What makes each part correct

* Clock: stamps never repeat and sort after whatever was absorbed; a wrong remote clock cannot drag
  ours beyond the drift window.
* Database: merged tables depend only on the set of records held; `(origin, hlc)` is unique; rows
  show the newest records; nothing written is lost; the vector is exact.
* Table registry: neither the map in memory nor the shape recorded on disk names a column that the
  table does not have (the two may differ, see `Callers` below); what could
  not be shown when it arrived is shown once the row is touched again.
* Node: the vector never claims a record that is not held; everything authored is broadcast; devices that
  meet again and again end up with the same records; what a read-only device writes is held back by
  all who know it.
* Lifecycle: at most one node goes on; every call returns; events are heard in order, to the last.
* Membership and seed server: a device that was told of a revocation never forgets it; nobody is
  admitted whose certificate the node's own list names; two nodes with valid certificates end up
  admitting each other. The first holds only while the server's clock is not set back, the last only
  while no introduction times out: section 3 shows both.

`PROJECT.json` lists the hazards behind these, each at its line.

## 2. The modules

```
 FlatClock --+                                ChangeLog (abstract specification)
             +-- Merge --+-- Replica ---------> implements ChangeLog
 Records ----+           |      +-- TableRegistry -> implements ChangeLog
     |                   +-- ApplyLoop
     +-- AntiEntropy -------------------------> implements ChangeLog
             +-- LivePush --------------------> implements ChangeLog
 HybridClock ---- agrees with FlatClock       SeedStore --- Membership        NodeLifecycle
 Proofs: HybridClockProofs RecordsProofs ReplicaProofs RegistryProofs ApplyLoopProofs
         AntiEntropyProofs (with LivePush) MembershipProofs NodeLifecycleProofs
```

**Records** has what every module shares: devices and stamps are `1..NDevices` and `1..MaxStamp`,
`IncomingWins` is the order of `incoming_wins` (stamp, then origin), `Fresh` is the unique index
that `store_change` runs into, `BumpVV` raises a vector.

**HybridClock** is `hlc.rs` as written: wall time and counter, saturating addition, the drift
window, a wall clock that may read anything each time. `seen` and `peak` are history variables: the
highest stamp given out or absorbed, and the latest reading. **FlatClock** is the same clock over
plain numbers, used where stamps must be few; `FlatAgrees` checks that the two agree below the
counter's limit.

**Merge** holds the functions of one transaction: `Upsert` (`upsert_cell`, `upsert_tombstone`),
`Dead`, `ValueAt` and `Materialize` (`materialize`), `CellMatches` (`cell_matches`), `Observe` (the
clock after a batch, observed record by record).

**Replica** is the replicas of an organisation with one table, registered from the start on devices that
do not stop. Its variables are the tables above plus `clk`; `ops[d][pk]` is the last operation staged
for a row, all that `flush_local` uses of `_p2p_local_ops`. Actions: the three SQL writes with their
triggers (`AppInsert`, `AppUpdate`, which may change the key, `AppDelete`), `FlushLocal`, `Deliver` (any
records of another device, again, in any order and any portions, stored by `ApplyRemote`). A write and
its flush are separate actions because `execute` releases the database between them and because a row
may be written by other connections. The wall clock is read once per flush and once per batch here; a
flush's stamps are then consecutive ticks, and since rows are staged in an order the model does not
keep, the rows of one flush are stamped in any order. The operators take the set of columns the table
map names (`spec`), so that TableRegistry can use them with another.

**TableRegistry** is Replica with a table the application brings itself. `table` are its columns,
`synced` its row of `_p2p_synced_table`, `live` whether its triggers are installed, `spec` its entry in
`Db.tables`, `reg` a `register_table` in progress. `register_table` locks three times, so it is three
actions (`ReadShape`, `StoreShape`, `Publish`) with anything between them, another registration too:
`Callers` are the threads of a device that may call it, and `reg[d]` says where each of them is. Around
an `ALTER TABLE`, two of them may leave the map naming a column the recorded shape lacks, or the other
way round: whoever read the table first may write last. `AddColumn` may happen at any time. A flush or
delivery copies the map before it waits for the connection: `held` is an older copy that such a call
still has. `Reopen` is a stop or crash and `from_connection`: the clock resumes from the device's own
records, the map is filled from disk, and of the statements in `StoreShape`, which commit one by one,
any number may have been done. A row for which a required column is missing cannot be built and is left
as it was (`Required`, in `Materialize`).

**ApplyLoop** is `apply_remote` in its own steps: sort, skip or store each record, rebuild each
dirty row, raise the vector, commit, or fail anywhere (`Fail`); what is on disk then is `RolledBack`, while
the clock keeps what it absorbed. A failed batch is followed by the same or another (`Retry`), as peers are
asked again. It justifies the one-step `ApplyRemote`.

**ChangeLog** is what replication promises with all mechanism left out: a log only grows; a device
authors records of its own name above its older ones, or learns records another device holds.
Replica, TableRegistry, AntiEntropy and LivePush implement it.

**AntiEntropy** is catching up: `Meet` stands for a finished handshake (both ends ask at once),
`RequestSyncFromAll` for the sync timer, `Serve` for `on_request`, `Receive` for `on_response` with
its follow-up request after a full page, `Lose` and `Part` for lost requests and closed connections.
`readonly` are the devices whose certificate says so, `barred[d]` is `readonly_origins`: it is learnt at
each meeting (`LearnRole`) and `Kept` drops the records of those authors wherever they come from.
`Reenroll` changes a role. Devices outside `Replicas` are discovery-only: they meet, and neither ask
nor are asked.
Messages are a set: any may overtake any. A device sees its database through `log` and `vv` only.

**LivePush** adds the outbox: `Broadcast` is `flush_and_push` up to `mark_broadcast`,
`MarkBroadcast` the rest, and the application may author between them (`Author`); `Accept` is
`on_request` for a push and `on_gossip`; `Crash` loses the connections and what was being sent. With
nobody connected a broadcast puts nothing on the network, and the mark moves on as in the code.

**SeedStore** is the seed server's register, which two processes use: the server, whose lock holds for
one statement, transaction or list at a time, and the command line, which that lock does not keep out.
`expires` and `spent` are the invites, `device` the rows,
`updated` is `crl_updated_at_ms`. `Redeem` is the transaction of `redeem_invite`, `Answer` the rest of
the `enroll` handler, `LoseAnswer` a request that fails for the device. `Revoke` and `Publish` are the
two statements of `revoke`, with anything in between, and `Publish` may never come; it writes the time it is,
whatever stamp was there. `ClockSetBack` says whether `PassTime` may go back; a process that writes the
stamp it took after a later one was written has the same effect. `crl` is read by two statements as well:
`ReadNames` is the first, `reading` what it found, and the second is a conjunct of what uses the list
(`Answer`, `StartSeed`, or `ServeCrl` for `GET /v1/crl`, which nobody asks for); `ListOf` is what it makes of
them: empty with stamp 0 while nobody is revoked. Between the two only the command line can act. It is
read only while somebody waits for it (`ListWanted`): otherwise what is found changes nothing. `Crl` is
the list of a reader that nothing disturbs. A device that joins again keeps its row with a
new serial, so its old serial leaves the list; `Superseded` names such serials.

**Membership** extends it with the nodes. `mem` is `Runtime.enrollment`, `disk` the saved copy,
`authed`, `greeted` and `deny` are the runtime's tables, `known` the serials of `_p2p_peer`. `open[n]`
holds n's ends of connections: the two ends close separately (`Close`, `Fail`, `Stop`), as an endpoint
learns of a dead connection later than the other. `Connect` is `ConnectionEstablished` at both ends with
the `Hello` it sends once per peer; `OnHello`, `OnReply`, `OnDenied` and `ResponseSent` are the
handlers, `AcceptPeer` is `accept_peer` with `merge_crl` and the save. `TimeOut` is the two failure arms
of `on_rr_event`: a request or response is given up while its connection, and `greeted`, stay; the
history variable `unheard` remembers whose introduction went that way. `Ask` stands for `Sync` and
`Push`, sent to a peer the sender has admitted; `OnAsk` answers, or says `Denied` ("say hello first")
when the sender is not admitted there yet, and then the sender hangs up. A response is `flushed` when it
has been written; until then it dies with the sender's end, after that with the receiver's. One clock
serves server and devices here. With `Overlaps` there may be several connections between one pair.
Phones enrol only while no node of theirs runs, as the application does.

**NodeLifecycle** is a node as the application sees it: `slot` is `P2pClient.node`; `call[a]` is what
a thread of the application is in the middle of, and with which node's handle; `phase`, `queue` and
`emitted` are `Runtime::run`, the channel of commands and the events sent; `pump` and `heard` are the task
that reads the ring of events and calls the listener. `start` is two actions (`Start`, `Subscribe`),
because the node runs before the pump subscribes, under one lock of the slot (`SlotFree`); `stop` takes
the handle and then sends, which may wait for room. `Clone` and `Send` are `dial`, `sync_now`, `status` and
the end of `execute`. The events themselves are numbered; what they say is left out. The bindings set
one listener before they let any other call through, so the model has one.

## 3. The runs

| Run | What it shows | Instance |
|---|---|---|
| `HybridClock_clock` | `NothingAhead`: no stamp given out or absorbed is above the clock. `NotPoisoned`: the clock stays within the drift window of its own wall clock's highest reading. `Progress`: every step moves it forward below the counter's limit. `FlatAgrees`. | wall times 0..4, counters 0..3, drift 1 |
| `ApplyLoop_batches` | `LoopIsOneStep`: the loop has the outcome Replica gives a batch. `BatchingLeavesNoTrace`: tables and rows are those of a replica that received everything at once, also after batches that failed half way. | all histories of up to 2 records held and 3 arriving, 2 origins, 2 columns and deletions; batches follow failed ones while the clock is at most 3 |
| `Replica_conflicts` | `LastWriterWins`, `RowsShowNewest`, `TablesConverge`, `WritesSortLast` under concurrent writes | 2 devices, 1 row, 1 column, 2 values, 4 stamps; no key reused, no restart, clocks at one reading |
| `TableRegistry_shapes` | `TouchedRowsCatchUp`: whatever could not be shown when it came is in the row after the next record about it. `RegistryTypeOK`: map and recorded shape name only columns the table has, rows are whole. `VVIsHighest`, `StampsUnique`, `Implements` across restarts and overlapping registrations | 2 devices that register, with 2 threads each, and extend in their own time, one of them writing and stopping anywhere; 1 row, 2 columns, one of them there from the start and required; 2 stamps |
| `AntiEntropy_pull` | `NothingSkipped`: what a device holds of an author is all of it up to its vector. `AnswersFit`: a page on its way still fits. `ReadOnlyContained`: what a read-only device holds back stays with it. `Implements`. `Converges`: logs become and stay equal. | 4 devices in a line, the last discovery-only; first and third writing, the first read-only at first; pages of 1, one loss or change of role |
| `LivePush_outbox` | `MarkFollowsBroadcast`: the mark passes only records that were in the broadcast just made (whether it reached anybody is another matter, see below). `EverythingBroadcast`. `VVIsHighest` | 3 devices, one of them reached by gossip only; outbox 2, chunks of 1, one crash or loss |
| `Membership_handshake` | `NewerNamesMore`: of any two lists anywhere the later names all the earlier does, but for replaced certificates, so replacing one list by another is safe. `RevocationsStick`, `NoneAdmittedListed`. `Admission`: nodes that stay up with valid certificates admit each other, unless an introduction on their present connection timed out. `NoPeerWithoutConnection`, `TypeOK` | the seed server's node, one phone that may join twice, one device that may have joined before; 2 connections, one at a time per pair; one failure, stop, time-out or request that comes too early; 2 times, never back |
| `NodeLifecycle_calls` | `OneNode`: of two nodes alive at once, one has been told to end. `StopsForGood`: and it ends. `CallsReturn`: no call waits for ever on a full channel or an unanswered question. `HeardInOrder`, `LastWordHeard`: a node's events are heard one by one, and its last word unless the ring overran. | 2 threads, 2 nodes one after the other or at once, 3 events each, room for 1 command and 1 event |
| `LivePush_stuck` | **violated** `Converges` | 2 devices, nothing lost |
| `AntiEntropy_blocked` | **violated** `Converges` | 3 devices in a line, the middle one read-only with records from before |
| `TableRegistry_defaults` | **violated** `DefaultsStayHome` | 2 devices, one upgraded, 1 row |
| `Replica_clobber` | **violated** `EditsSurvive` | 2 devices, 1 row of 2 columns |

### What the violated runs show

* **A push between pages hides records.** `apply_remote` raises the vector to the highest stamp
  stored. A push that arrives while older records of its author are still to be paged lifts it over
  them; the next request asks only above it. docs/architecture.md:63-65 says overlapping in pairs is
  enough to converge. `AntiEntropy_pull` shows that paging alone does converge: the gap needs the push.
* **A read-only author blocks its relay.** Its records are dropped before they are stored, so the
  vector does not move; a page full of them is asked for for ever, and nothing behind it arrives.
  node.rs:477-478 and docs/security.md:103-105 say a read-only device goes on relaying the others' writes.
* **A default overwrites an edit.** A device that adds a column later than the others holds the cells
  already, but registering rebuilds no row: it shows the default, and the next flush of that row finds
  the default different from the cell and replicates it. mod.rs:877-878 says the cells stay "so a future
  schema version can pick it up".
* **A received record can undo a write that waits for its flush.** The row is rebuilt from cells
  that do not have the write yet, and the flush then sees no difference. README.md:86-87 says
  edits of different fields both survive.

The passing runs hold the conditions fixed under which each property is claimed: `ReuseKeys`,
`Restarts`, `Drift`, `Readings`, `Overlaps` and `ClockSetBack` are constants. Seven more
disagreements show when one of them is changed, or when the property named is put in place of those of
the run. In each case TLC finds the property violated, within seconds:

* `ReuseKeys = TRUE` in `Replica_conflicts.cfg`: `RowsShowNewest` and `TablesConverge` fail. `flush_local` compares columns with
  cells and ignores the row's tombstone: insert, flush, delete, flush, insert the same values, and
  nothing is sent. tests/replication.rs:3-5 says equal changes make equal tables.
* `Restarts = {1}`, `Settled = {1, 2}` and the property `WritesSortLast` in `TableRegistry_defaults.cfg`:
  `from_connection` resumes the clock from the device's own stamps, so a write after a restart may sort
  below what is held. hlc.rs:109-110 promises more. Uniqueness is kept (`StampsUnique`). A remote stamp
  outside the drift window has the same effect without a restart, by design.
* The invariant `MarkedWasSent` in `LivePush_stuck.cfg`: the mark passes what nobody was sent.
  `flush_and_push` marks after `broadcast`, which sends to the peers admitted just then and shrugs off a
  gossip publish that fails: with nobody connected the mark moves all the same. mod.rs:628-629 asks for the
  call only after the changes "have actually gone out, so a failure means they are retried". Such records
  are not lost: they travel when somebody asks.
* `ClockSetBack = TRUE`, `Absent <- BobAndCyd`, `MaxInvites = 3`, `MaxFaults = 0`, `Conn <- OneConn` in
  `Membership_handshake.cfg`: `RevocationsStick` fails, and so does `NewerNamesMore`. `revoke` stamps the
  list with the wall clock, and `merge_crl` compares stamps alone: a phone with the second list, which has
  the earlier stamp, meets the first, takes it for newer and forgets a revocation. enroll.rs:134 says stale
  lists are ignored.
* `StrangersLeave` there with `Absent <- NobodyElse`, `MaxInvites = 1`, `MaxNow = 1`, `MaxFaults = 2`,
  `Conn <- OneConn`: two time-outs leave strangers connected. When both introductions are given up after 30
  seconds (behaviour.rs:95), `on_rr_event` only logs it. The connection stays and so does `greeted`: nobody
  greets again, nobody disconnects. node.rs:13 says unauthenticated peers are disconnected. Where one end
  still has a connection the other has lost, one lost introduction on the new one does it, so `Admission`
  excepts pairs of which either introduction timed out.
* `StrangersLeave` there with `Overlaps = TRUE`, `Absent <- NobodyElse`, `MaxInvites = 1`, `MaxNow = 1`:
  losing one of two connections does the same. `greeted` is kept per peer although its comment
  (node.rs:239) says per connection; when two connections overlap and the one that carries the greetings
  fails, the peers stay connected by the other and never admit each other.
* `RevocationsSpread` there with `MaxNow = 1`, `MaxFaults = 0`, `Conn <- OneConn`: the server's node does
  not hear of revocations. It is given the list when it starts (main.rs:196), and no client asks
  `GET /v1/crl`. main.rs:161-162 says devices pick the list up from the server; a phone that stays connected
  to it never does, until somebody enrols or the server restarts.

Two instances are too large to be put together with those above, and pass: `TableRegistry_shapes` with
`Pk <- TwoRows`, `Callers <- OneCaller` and `RowSymmetry`, where a write may move a row to another key
(651238 states); `Membership_handshake` with `Absent <- NobodyElse`, `MaxInvites = 1`, `MaxNow = 1` and
`MaxFaults = 2`, where both introductions may time out, or one on a connection that came back (33590 states).

### Bounds, and why they are enough

`MaxStamp` bounds how many records exist; a flush that would need more is not taken. Four stamps are
insert, delete and a concurrent pair; ties between two origins are reached because both clocks start
equal. Two devices conflict, a third is needed only where records travel by way of another device or
by gossip. Pages and chunks of one record make every boundary between pages happen. `MaxLosses`
bounds losses, disconnections and crashes together, `MaxAsked` the exchanges of a sync timer that
overlap; neither limits the answers to them. The application is never required to write.
`TableRegistry_shapes` uses the symmetry of the two threads; it has no liveness property. Two stamps are two
records about one row, the second of which must bring the first into it; one late call at a time
(`held`) is what an old map takes. Two threads that register overlap in every order of their three parts;
a third would add no column to be late with, as there are two, one of them there from the start. In
`ApplyLoop_batches` `MaxClock` bounds how far failed batches may push the clock before no other follows.
In `NodeLifecycle_calls` `MaxNodes` is one node and its successor; a
channel and a ring of 1 are full after one step, and 3 events (the first, one more, the last) overrun it.
Starts beyond `MaxNodes` and events beyond `MaxEvents` are not taken; the last event is always left room for.
In `Membership_handshake` `MaxInvites` bounds invites, `MaxFaults` the stops, failures, time-outs and too
early requests together (without a bound on the last two nodes could go on hanging up on each other),
`MaxNow` the clock. Two times are what an older and a newer list need; three serials (the server's and two
enrolments) are a revoked, a replaced and a valid one. One fault is a connection that one end has lost and
the other not yet, a lost introduction, or a node that starts again. Which unused connection a new one takes
is fixed, as its name means nothing. Certificates do not expire within the run. `Overlaps` is FALSE: two
connections between the same pair at once are outside what `Admission` claims.
Deadlock checking is off where a bounded system comes to rest: all stamps used, nothing in flight.

### Fairness

`AntiEntropy` and `LivePush` assume weak fairness of the sync timer and the flush timer (both are
`tokio` intervals of one loop that runs as long as the node does), of handling what has arrived
(the same loop, which never waits for a peer), and of coming up for links that can come up
(discovery dials again). Losses are finite by `MaxLosses`; nothing is retried except by the timers.
Nothing is assumed of the application. That `Meet` comes again and again presumes that admission
succeeds: `Membership_handshake` shows when it does, the two counterexamples to `StrangersLeave` when not.

`Membership` assumes weak fairness of handling greetings and the replies to them, between each two nodes
(the other messages are not needed for admission, so nothing is assumed of them), of closing
(libp2p closes what `disconnect_peer_id` was told to close, and keep-alives notice a dead
connection), and of dialling a peer there is no connection to (discovery). Nothing is assumed of
people, of processes starting, of the second statement of `revoke`, or of the clock. Time-outs are
faults that may happen or not; no action is obliged by one.

`NodeLifecycle` assumes weak fairness of what a call does next, of the node's loop taking a command
(`select!` picks at random among what is ready), and of the pump; the listener returns. It assumes
strong fairness of sending, since `tokio`'s bounded channel serves those who wait for room in turn.
Nothing makes the application call or anything happen.

## 4. What is proved

For every number of devices, rows, columns and values, every drift bound, every behaviour of the
devices' wall clocks, every page size and topology, from the named assumptions on the constants and the
conditions named below. Two theorems depend on the server's clock: `ListsNewerNamesMore` and
`PhonesRevocationsStick` assume `~ClockSetBack`, and section 3 shows that they must.

* **HybridClockProofs**: `TypeOK`, `NothingAhead`, `NotPoisoned`, `Progress`.
  The three invariants are inductive together. `FlatAgrees` follows from the types: wall time and
  counter, read as the digits of one number, order as stamps do, and ticking and absorbing commute with
  that reading as long as the counter has room. It is what lets the other modules use numbers.
* **ReplicaProofs**: `TypeOK`, `LastWriterWins`, `VVIsHighest`, `StampsUnique`, and that Replica
  implements ChangeLog. None but the type is inductive alone. `ReplicaInv` adds three facts: an
  author holds whatever anybody holds of its records (`AuthorHolds`); a clock is never below a stamp
  of its device (`ClockAhead`); logs are finite and only deletions lack a value (`LogsSound`). With the
  first two a new stamp is new everywhere, so what the unique index lets through is exactly what is not
  held; then `UpsertNewest` (upserting a batch into newest records gives the newest of both) and
  `HighestUnion` follow tables and vector batch by batch. The step lemmas are stated for any columns
  the map may name, which is what the next module needs.
  `WritesSortLast`, `RowsShowNewest` and `TablesConverge` hold under conditions, and are stated with them:
  + clocks follow what is held (`ClockFollows`: a clock is not below any stamp held). A stamp outside the
    drift window, or a restart, breaks it, and section 3 shows what follows. `ReplicaClocksFollow` proves it
    where the wall clocks are close (`ClocksClose`: no stamp is outside any window, the instance of
    `Replica_conflicts`), and `ReplicaAgreesWhenClocksClose` puts it together with the three;
  + no application inserts under a key used before (`~ReuseKeys`), the counterexample of section 3;
  + the table has a column besides its key (`NCols > 0`): of a row that is only a key nothing is recorded
    when it is inserted, so replicas differ at once.
  The inductive invariant of the rows is `RowSound`, of each row with what is staged for it: with nothing
  staged it shows the newest records, and the default in every column that has none; a row that exists is
  alive in the records held, or has been written and never flushed; a staged row that does not exist cannot
  be built. The flush is the hard step: comparing columns with cells must record all that a rebuild
  would need, which is where re-used keys fail.
* **ApplyLoopProofs**: all three properties of ApplyLoop, for any batch of any size in any order the sort
  leaves open. `LoopInv` says how far the transaction is: cells and tombstones are the newest of the old
  records and those stored so far (`Stored`), the rows marked dirty are those touched, and those rebuilt
  already are what `Materialize` makes of the final tables (`Rebuilt`), disk is as before until the commit
  and after a failure (`OnDisk`). `UpsertOneTops` is the step: one upsert into the newest records gives the
  newest with one more.
  `LoopBatchingLeavesNoTrace` needs that a row that is not touched would be rebuilt as it is (`RebuildSame`) and
  that rebuilding forgets what the row was (`RebuildAgain`), for rows that came from records alone.
* **RegistryProofs**: the same five for TableRegistry, with restarts anywhere, clocks set back and any
  drift: `ClockAhead` is kept across `Reopen` because the clock resumes from the device's own records.
  Then `RegistryTypeOK`, for any number of registrations that overlap: a table only gains columns, so whatever
  shape was read of it stays within it, in every registration in progress, in the map and on disk
  (`ShapesGrow`). Then `TouchedRowsCatchUp`: `materialize` builds a row from
  cells and tombstone, which `LastWriterWins` says are the newest of all that is held.
* **AntiEntropyProofs**: `TypeOK`, `NothingSkipped`, `AnswersFit`, `ReadOnlyContained` and that AntiEntropy
  implements ChangeLog. `PullInv` adds that a vector in a request is at most the asker's current one, that what
  travels is held by its sender, and that a vector names a record held or nothing. A page is a
  prefix of what the asker lacks in the order of stamps, and the asker's vector only grows, so the
  page still fits when it arrives. `PullVectorsSuffice` draws the conclusion: as long as records come by
  pages alone, two devices whose vectors agree hold the same records (with pushes they may not, see
  `LivePush_stuck`).
  The same module has `PushTypeOK`, `VVIsHighest` and `MarkFollowsBroadcast` of LivePush, for any sizes of
  outbox and chunk and any crashes. The mark is a stamp, so it may move to the newest record sent only if
  nothing older is unsent (`SendingPrefix`). That holds when the outbox is read, since a page is a prefix;
  while the application writes, since its records are stamped above those being sent (`SendingOwn`); and
  while records come in, since a device holds already whatever others send of its own (`AuthorHolds`).
  That LivePush, too, implements ChangeLog (`PushImplements`) needs only that whoever sends records still
  holds them when they arrive (`SenderHolds`), as logs only grow. `PushReadOnlyContained` extends `ReadOnlyContained`
  to pushes, without gossip: whoever is pushed to has met the sender, and has learnt its role then. Gossip
  reaches devices that have not, so the hypothesis `~Gossips` is needed; docs/security.md:108-111 says so.
* **MembershipProofs**: `TypeOK`, `NoneAdmittedListed` and `NoPeerWithoutConnection`, and while the
  server's clock is not set back (`~ClockSetBack`) `NewerNamesMore` and `RevocationsStick`; for any number of
  phones, invites and connections, `Overlaps` or not, and any time-outs.
  The argument: only the server makes lists, everybody else copies them (`HeldCopied`). So it
  suffices that its next list goes with all that exist: no list has a later stamp (`StampsPast`, the one
  fact that needs the clock), and none names a certificate that is neither revoked nor replaced (`NamesKnown`,
  which needs that a serial belongs to one row, `SerialsUnique`). A list read in two statements knows what
  all others know although its names are old by then, since no other list is made in between
  (`ReadingKnows`). That a phone's disk never goes back needs that its enrolment and its node do not write
  it at the same time (`OneWriter`) and that the list in an answer knows what the phone knew before
  (`AnswersNewest`). The bounds in `TypeOK` hold for any clock and are counted (`StampsBounded`, `Counted`):
  every serial costs an invite, and every member and every revocation waiting to be published has a serial
  of its own.
* **NodeLifecycleProofs**: `LifecycleTypeOK`, `OneNode` and `HeardInOrder`, for any number of calls and
  nodes and any sizes of channel and ring. `OneNode` needs that a `start` in progress is alone under the
  slot's lock with the slot empty, and that every living node is in the slot, or is the one being
  started, or has been told to end; a `Shutdown` in the channel stays there as long as the node lives.
* **RecordsProofs**: the lemmas on maxima, `BumpVV` and `Fresh` the others rest on.

Only model-checked: liveness (`Converges`, `EverythingBroadcast`, `Admission`, `CallsReturn`,
`StopsForGood`, `LastWordHeard`), which is outside TLAPS. Every invariant and action property of a passing
run is proved, three of Replica's and two of Membership's under the conditions named. The properties of the
violated runs, and `MarkedWasSent`, `StrangersLeave` and `RevocationsSpread`, are false of the code and
nothing is proved of them. No operator here is recursive.

## 5. What is not modelled, and the plan

Left out for good: keys and signatures as cryptography, the encoding of values and messages
(a value is compared, never computed with), libp2p's own protocols, HTTP routing, the screens of
the mobile app, the command line, which only drives the core. The stamps' hexadecimal form orders
as they do. Signature checks reject a record before it is stored; replicas here only meet records
that some replica authored.

Several tables at once are not modelled: their rows, cells and triggers do not meet, but for trigger
names (`schema.rs:143` replaces every character that is not alphanumeric, so tables `a-b` and `a_b` would
drop each other's triggers). A listener that is replaced while events arrive, or that calls
`set_listener` itself, is not modelled, although the comment at lib.rs:284-285 speaks of it. Enrolling
while a node runs is not modelled: the application does not do it.

Planned, in this order:

1. Membership, continued. *Roles*: what an older greeting handled late does to `readonly_origins`.
2. **Partial rows**: defaults that a page boundary turns into writes.
3. **Mesh**: Replica's rows over AntiEntropy's messages.
4. Proofs: the rows of TableRegistry before they are touched again.

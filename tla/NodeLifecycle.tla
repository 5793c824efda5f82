---------------------------- MODULE NodeLifecycle ----------------------------
(***************************************************************************)
(* Starting, using and stopping a node from an application: P2pClient of   *)
(* p2p-mobile's lib.rs over NodeHandle and Runtime::run of p2p-core's      *)
(* net/node.rs.  The bindings run every call of the application on some    *)
(* thread of their own; a node is a task fed by a bounded channel of       *)
(* commands; its events go through a bounded broadcast ring to a pump, one *)
(* task per node, that calls the listener.  stop only asks the node to     *)
(* end, so that the next node may run beside it for a while.               *)
(***************************************************************************)
EXTENDS Integers, Sequences

CONSTANTS App,        \* the application's calls in progress at once
          MaxNodes,   \* bound: how often a node is started
          MaxEvents,  \* bound: events of one node
          Commands,   \* room in the channel of commands, 64 in the code
          Ring        \* room in the broadcast ring, 256 in the code

ASSUME LifecycleAssumption ==
  /\ MaxNodes \in Nat /\ MaxEvents \in Nat \ {0, 1} /\ Commands \in Nat \ {0} /\ Ring \in Nat \ {0}

Nodes == 1 .. MaxNodes

VARIABLES
  started,    \* nodes started so far
  slot,       \* P2pClient.node: the node whose handle is kept, 0 for none
  call,       \* call[a]: what call a is doing, and with which node's handle
  phase,      \* phase[n]: how far Runtime::run has come
  queue,      \* queue[n]: the commands in the channel, <<kind, call>>
  emitted,    \* emitted[n]: events the node has sent
  pump,       \* pump[n]: what n's pump is doing, and the event it reads next
  heard       \* heard[n]: the event of n the listener was last called with, 0 at first

vars == <<started, slot, call, phase, queue, emitted, pump, heard>>

Idle == <<"idle", 0>>
Sending == {"send", "ask", "stop"}
Call == {Idle} \cup ((Sending \cup {"start", "wait"}) \X Nodes)

Alive(n) == phase[n] \in {"spawned", "running"}

(* Does anybody still hold a NodeHandle of n, a clone included?            *)
Handles(n) == slot = n \/ \E a \in App : call[a] # Idle /\ call[a][2] = n

-----------------------------------------------------------------------------
(* Calls of the application                                                *)

(* Bug: the slot is looked at and filled under two separate locks. *)
SlotFreeMutant == TRUE

(* start holds the slot's lock until the handle is in it.                  *)
SlotFree == \A a \in App : call[a][1] # "start"

(* start, up to Node::spawn: nothing to do when there is a node already.   *)
Start(a) ==
  /\ call[a] = Idle /\ SlotFree /\ slot = 0 /\ started < MaxNodes
  /\ started' = started + 1
  /\ call' = [call EXCEPT ![a] = <<"start", started'>>]
  /\ phase' = [phase EXCEPT ![started'] = "spawned"]
  /\ UNCHANGED <<slot, queue, emitted, pump, heard>>

(* The rest of start.  The pump hears what is sent from now on: the task   *)
(* already runs, on another thread.                                        *)
Subscribe(a) ==
  /\ call[a][1] = "start"
  /\ LET n == call[a][2]
     IN  /\ pump' = [pump EXCEPT ![n] = <<"reading", emitted[n] + 1>>]
         /\ slot' = n
  /\ call' = [call EXCEPT ![a] = Idle]
  /\ UNCHANGED <<started, phase, queue, emitted, heard>>

(* stop takes the handle out of the slot.                                  *)
Stop(a) ==
  /\ call[a] = Idle /\ SlotFree /\ slot # 0
  /\ call' = [call EXCEPT ![a] = <<"stop", slot>>]
  /\ slot' = 0
  /\ UNCHANGED <<started, phase, queue, emitted, pump, heard>>

(* dial, sync_now and the end of execute send a command; status asks.      *)
(* Each works on a clone of the handle, which a stop leaves alone.         *)
Clone(a, kind) ==
  /\ call[a] = Idle /\ SlotFree /\ slot # 0
  /\ call' = [call EXCEPT ![a] = <<kind, slot>>]
  /\ UNCHANGED <<started, slot, phase, queue, emitted, pump, heard>>

(* Bug: the channel of commands is unbounded. *)
RoomMutant(n) == TRUE

(* mpsc::channel(64) has room for another command.                         *)
Room(n) == Len(queue[n]) < Commands

(* NodeHandle::send waits for room in the channel, and fails when the node *)
(* has ended.                                                              *)
Send(a) ==
  /\ call[a][1] \in Sending
  /\ LET n == call[a][2]
     IN  IF phase[n] = "ended"
           THEN call' = [call EXCEPT ![a] = Idle] /\ UNCHANGED queue
           ELSE /\ Room(n)
                /\ queue' = [queue EXCEPT ![n] = Append(@, <<call[a][1], a>>)]
                /\ call' = [call EXCEPT ![a] = IF @[1] = "ask" THEN <<"wait", n>> ELSE Idle]
  /\ UNCHANGED <<started, slot, phase, emitted, pump, heard>>

(* status returns when its oneshot is answered, or dropped with the        *)
(* command that holds it.                                                  *)
Answered(a) ==
  /\ call[a][1] = "wait"
  /\ <<"ask", a>> \notin {queue[call[a][2]][i] : i \in DOMAIN queue[call[a][2]]}
  /\ call' = [call EXCEPT ![a] = Idle]
  /\ UNCHANGED <<started, slot, phase, queue, emitted, pump, heard>>

-----------------------------------------------------------------------------
(* The node's task                                                         *)

Emit(n) == emitted' = [emitted EXCEPT ![n] = @ + 1]

(* Bug: the channel outlives the loop that read it. *)
LeaveMutant(n) ==
  /\ phase' = [phase EXCEPT ![n] = "ended"]
  /\ Emit(n)
  /\ UNCHANGED queue

(* run is over, with a last event: Error or Stopped.  With the receiver go *)
(* the commands nobody read.                                               *)
Leave(n) ==
  /\ phase' = [phase EXCEPT ![n] = "ended"]
  /\ Emit(n)
  /\ queue' = [queue EXCEPT ![n] = <<>>]

(* start_listening fails or succeeds, and the node says so.                *)
Listen(n) ==
  /\ phase[n] = "spawned"
  /\ \/ Leave(n)
     \/ Emit(n) /\ phase' = [phase EXCEPT ![n] = "running"] /\ UNCHANGED queue
  /\ UNCHANGED <<started, slot, call, pump, heard>>

(* on_command; it may have an event to tell.                               *)
OnCommand(n) ==
  /\ phase[n] = "running" /\ queue[n] # <<>> /\ Head(queue[n])[1] # "stop"
  /\ queue' = [queue EXCEPT ![n] = Tail(@)]
  /\ \/ UNCHANGED emitted
     \/ emitted[n] < MaxEvents - 1 /\ Emit(n)
  /\ UNCHANGED <<started, slot, call, phase, pump, heard>>

(* A peer or a timer gives the node something to tell.                     *)
Happening(n) ==
  /\ phase[n] = "running" /\ emitted[n] < MaxEvents - 1
  /\ Emit(n)
  /\ UNCHANGED <<started, slot, call, phase, queue, pump, heard>>

(* Bug: the loop goes on whatever it receives. *)
EndsMutant(n) == FALSE

(* "Some(Command::Shutdown) | None => break": the channel gives None when  *)
(* it is empty and no handle is left.                                      *)
Ends(n) ==
  \/ queue[n] # <<>> /\ Head(queue[n])[1] = "stop"
  \/ queue[n] = <<>> /\ ~Handles(n)

End(n) ==
  /\ phase[n] = "running" /\ Ends(n)
  /\ Leave(n)
  /\ UNCHANGED <<started, slot, call, pump, heard>>

-----------------------------------------------------------------------------
(* The pump                                                                *)

Behind(n) == emitted[n] - pump[n][2] + 1

(* Bug: a pump that has fallen behind goes on with the oldest event kept. *)
LagMutant(n) == pump' = [pump EXCEPT ![n] = <<"reading", emitted[n] - Ring + 1>>]

(* What the ring no longer holds makes recv fail, and the pump's loop is   *)
(* "while let Ok".                                                         *)
Lag(n) == pump' = [pump EXCEPT ![n] = <<"lagged", @[2]>>]

(* Bug: the pump goes when its node does. *)
RecvMutant(n) ==
  /\ pump[n][1] = "reading"
  /\ IF phase[n] = "ended"
       THEN pump' = [pump EXCEPT ![n] = <<"closed", @[2]>>]
       ELSE \/ Behind(n) > Ring /\ Lag(n)
            \/ /\ Behind(n) \in 1 .. Ring
               /\ pump' = [pump EXCEPT ![n] = <<"taken", @[2] + 1>>]

(* events.recv: the next event, or an error that ends the loop.            *)
Recv(n) ==
  /\ pump[n][1] = "reading"
  /\ \/ Behind(n) > Ring /\ Lag(n)
     \/ /\ Behind(n) \in 1 .. Ring
        /\ pump' = [pump EXCEPT ![n] = <<"taken", @[2] + 1>>]
     \/ /\ Behind(n) = 0 /\ phase[n] = "ended" /\ ~Handles(n)
        /\ pump' = [pump EXCEPT ![n] = <<"closed", @[2]>>]

(* The listener is called with its lock held.  There is one: the bindings  *)
(* set it before they let any call through.                                *)
Deliver(n) ==
  /\ pump[n][1] = "taken" /\ \A m \in Nodes : pump[m][1] # "calling"
  /\ pump' = [pump EXCEPT ![n] = <<"calling", @[2]>>]
  /\ heard' = [heard EXCEPT ![n] = pump[n][2] - 1]

(* on_event returns.                                                       *)
Return(n) ==
  /\ pump[n][1] = "calling"
  /\ pump' = [pump EXCEPT ![n] = <<"reading", @[2]>>]

Pump(n) ==
  /\ \/ Recv(n) /\ UNCHANGED heard
     \/ Deliver(n)
     \/ Return(n) /\ UNCHANGED heard
  /\ UNCHANGED <<started, slot, call, phase, queue, emitted>>

-----------------------------------------------------------------------------
Init ==
  /\ started = 0
  /\ slot = 0
  /\ call = [a \in App |-> Idle]
  /\ phase = [n \in Nodes |-> "none"]
  /\ queue = [n \in Nodes |-> <<>>]
  /\ emitted = [n \in Nodes |-> 0]
  /\ pump = [n \in Nodes |-> <<"none", 1>>]
  /\ heard = [n \in Nodes |-> 0]

Next ==
  \/ \E a \in App :
       \/ Start(a) \/ Subscribe(a) \/ Stop(a) \/ Send(a) \/ Answered(a)
       \/ \E kind \in {"send", "ask"} : Clone(a, kind)
  \/ \E n \in Nodes : Listen(n) \/ OnCommand(n) \/ Happening(n) \/ End(n) \/ Pump(n)

Spec == Init /\ [][Next]_vars

(* Calls that have begun go on, and those that wait for room in the        *)
(* channel get it in turn (its semaphore is a queue); the node's loop      *)
(* takes a command that waits, since select! picks among what is ready at  *)
(* random; the pump goes on and the listener returns.  Nothing makes the   *)
(* application call, or anything happen.                                   *)
Fairness ==
  /\ \A a \in App :
       WF_vars(Subscribe(a)) /\ SF_vars(Send(a)) /\ WF_vars(Answered(a))
  /\ \A n \in Nodes :
       WF_vars(Listen(n)) /\ WF_vars(OnCommand(n)) /\ WF_vars(End(n)) /\ WF_vars(Pump(n))

FairSpec == Spec /\ Fairness

-----------------------------------------------------------------------------
QueueTypeOK ==
  /\ queue \in [Nodes -> Seq(Sending \X App)]
  /\ \A n \in Nodes : Len(queue[n]) <= Commands

LifecycleTypeOK ==
  /\ started \in 0 .. MaxNodes
  /\ slot \in 0 .. MaxNodes
  /\ call \in [App -> Call]
  /\ phase \in [Nodes -> {"none", "spawned", "running", "ended"}]
  /\ QueueTypeOK
  /\ emitted \in [Nodes -> 0 .. MaxEvents]
  /\ pump \in [Nodes -> {"none", "reading", "taken", "calling", "lagged", "closed"} \X (Nat \ {0})]
  /\ heard \in [Nodes -> Nat]

(* Shutdown is on its way to n, or n will find its channel closed.         *)
Told(n) ==
  \/ ~Handles(n)
  \/ \E a \in App : call[a] = <<"stop", n>>
  \/ \E i \in DOMAIN queue[n] : queue[n][i][1] = "stop"

(* Two calls of start at once, or one that overtakes a stop, never leave   *)
(* two nodes on one database that nobody tells to end, however long the    *)
(* channel of commands makes the stop wait.                                *)
OneNode == \A m, n \in Nodes : Alive(m) /\ Alive(n) /\ m # n => Told(m) \/ Told(n)

(* From the first event of a node the listener is called with, it hears    *)
(* every event, each once and in order, as long as it hears of the node.   *)
HeardInOrder ==
  [][\A n \in Nodes : heard'[n] # heard[n] /\ heard[n] # 0 => heard'[n] = heard[n] + 1]_vars

(* Every call comes back, whatever waits in the channel when a node ends   *)
(* and whoever else stops it meanwhile.                                    *)
CallsReturn == \A a \in App : call[a] # Idle ~> call[a] = Idle

(* A node whose handle was taken by stop ends, even if Shutdown has to     *)
(* wait for room or the handle's clones are in use.                        *)
StopsForGood == \A n \in Nodes :
  (Alive(n) /\ slot # n /\ n \notin {call[a][2] : a \in {b \in App : call[b][1] = "start"}})
    ~> phase[n] = "ended"

(* What a node said last, that it stopped or could not listen, reaches the *)
(* listener, if it was said after the pump subscribed and the pump did not *)
(* fall behind: the pump reads what is left when the node is gone.         *)
LastWordHeard == \A n \in Nodes :
  (phase[n] = "ended" /\ pump[n][1] = "reading" /\ Behind(n) > 0)
    ~> (pump[n][1] = "lagged" \/ heard[n] = emitted[n])
=============================================================================

------------------------- MODULE NodeLifecycleProofs -------------------------
(***************************************************************************)
(* Proofs about NodeLifecycle, for any number of calls, nodes and events   *)
(* and any room in the channel and the ring.                               *)
(***************************************************************************)
EXTENDS NodeLifecycle, TLAPS

-----------------------------------------------------------------------------
(* The inductive invariant                                                 *)

(* Nodes are numbered in the order of their starts.                        *)
Numbered == \A n \in Nodes :
  n > started => phase[n] = "none" /\ pump[n][1] = "none"

(* The lock of the slot: one start at a time, and only into an empty slot. *)
SlotLocked ==
  /\ \A a, b \in App : call[a][1] = "start" /\ call[b][1] = "start" => a = b
  /\ \A a \in App : call[a][1] = "start" =>
       slot = 0 /\ call[a][2] <= started /\ pump[call[a][2]][1] = "none"

(* A node has room for its last event until it has sent it.                *)
LastWordLeft == \A n \in Nodes :
  /\ phase[n] \in {"none", "spawned"} => emitted[n] = 0
  /\ phase[n] = "running" => emitted[n] < MaxEvents

(* A node that runs is the one in the slot, or about to be put there, or   *)
(* told to end.                                                            *)
Kept(n) == slot = n \/ (\E a \in App : call[a] = <<"start", n>>) \/ Told(n)

NoneForgotten == \A n \in Nodes : Alive(n) => Kept(n)

(* Where the pump is, seen from what it delivered last.                    *)
PumpFollows == \A n \in Nodes :
  /\ pump[n][1] = "none" => heard[n] = 0
  /\ heard[n] # 0 => heard[n] = pump[n][2] - (IF pump[n][1] = "taken" THEN 2 ELSE 1)

LifecycleInv ==
  LifecycleTypeOK /\ Numbered /\ SlotLocked /\ LastWordLeft /\ NoneForgotten /\ PumpFollows

-----------------------------------------------------------------------------
LEMMA LifecycleInvInit == Init => LifecycleInv
<1> SUFFICES ASSUME Init PROVE LifecycleInv
  OBVIOUS
<1> USE LifecycleAssumption DEF Init, Nodes
<1>1. LifecycleTypeOK
  BY DEF LifecycleTypeOK, QueueTypeOK, Call, Idle, Sending
<1>2. Numbered /\ SlotLocked /\ LastWordLeft /\ NoneForgotten /\ PumpFollows
  BY DEF Numbered, SlotLocked, LastWordLeft, NoneForgotten, PumpFollows, Alive, Idle
<1> QED BY <1>1, <1>2 DEF LifecycleInv

(* A step that takes no handle, forgets no stop and revives no node keeps  *)
(* NoneForgotten for node n.                                               *)
LEMMA KeptOn ==
  ASSUME NEW n \in Nodes, LifecycleInv, Alive(n)', Alive(n),
         slot = n => slot' = n,
         \A a \in App : call[a] = <<"start", n>> => call'[a] = <<"start", n>>,
         Told(n) => Told(n)'
  PROVE  Kept(n)'
  BY DEF LifecycleInv, NoneForgotten, Kept

-----------------------------------------------------------------------------
(* The application's calls                                                 *)

LEMMA StartKeepsInv == ASSUME LifecycleInv, NEW a \in App, Start(a) PROVE LifecycleInv'
<1> USE LifecycleAssumption DEF LifecycleInv, Nodes
<1> DEFINE s == started + 1
<1>1. s \in Nodes /\ started' = s /\ phase[s] = "none" /\ pump[s][1] = "none"
  BY DEF Start, LifecycleTypeOK, Numbered
<1>2. LifecycleTypeOK'
  <2>1. <<"start", s>> \in Call
    BY <1>1 DEF Call
  <2>2. call' \in [App -> Call]
    BY <2>1, <1>1 DEF Start, LifecycleTypeOK
  <2>3. QueueTypeOK'
    BY DEF Start, LifecycleTypeOK, QueueTypeOK
  <2>4. phase' \in [Nodes -> {"none", "spawned", "running", "ended"}]
    <3>1. phase' = [phase EXCEPT ![s] = "spawned"]
      BY <1>1 DEF Start
    <3> QED BY <3>1 DEF LifecycleTypeOK
  <2>5. started' \in 0 .. MaxNodes
    BY <1>1
  <2>6. UNCHANGED <<slot, emitted, pump, heard>>
    BY DEF Start
  <2> HIDE DEF s, Nodes
  <2> QED BY <2>2, <2>3, <2>4, <2>5, <2>6 DEF LifecycleTypeOK
<1>3. Numbered' /\ LastWordLeft' /\ PumpFollows'
  BY <1>1 DEF Start, Numbered, LastWordLeft, PumpFollows, LifecycleTypeOK
<1>4. SlotLocked'
  BY <1>1 DEF Start, SlotLocked, SlotFree, LifecycleTypeOK
<1>5. NoneForgotten'
  <2> SUFFICES ASSUME NEW n \in Nodes, Alive(n)' PROVE Kept(n)'
    BY DEF NoneForgotten
  <2>1. CASE n = s
    BY <2>1, <1>1 DEF Start, Kept, LifecycleTypeOK
  <2>2. CASE n # s
    <3>1. Alive(n)
      BY <2>2, <1>1 DEF Start, Alive, LifecycleTypeOK
    <3>2. \A b \in App : b # a => call'[b] = call[b]
      BY DEF Start, LifecycleTypeOK
    <3>3. call[a] = Idle /\ call'[a] = <<"start", s>>
      BY <1>1 DEF Start, LifecycleTypeOK
    <3>4. Told(n) => Told(n)'
      BY <2>2, <3>2, <3>3 DEF Start, Told, Handles, Idle
    <3>5. \A b \in App : call[b] = <<"start", n>> => call'[b] = <<"start", n>>
      BY <3>2, <3>3 DEF Idle
    <3> QED BY <3>1, <3>4, <3>5, KeptOn DEF Start
  <2> QED BY <2>1, <2>2
<1> QED BY <1>2, <1>3, <1>4, <1>5

LEMMA SubscribeKeepsInv == ASSUME LifecycleInv, NEW a \in App, Subscribe(a) PROVE LifecycleInv'
<1> USE LifecycleAssumption DEF LifecycleInv, Nodes
<1>0. PICK s \in Nodes : call[a] = <<"start", s>>
  <2>1. call[a] \in Call /\ call[a][1] = "start"
    BY DEF Subscribe, LifecycleTypeOK
  <2> QED BY <2>1 DEF Call, Idle, Sending
<1>1. /\ slot = 0 /\ slot' = s /\ pump[s][1] = "none" /\ s <= started
      /\ call[a] = <<"start", s>>
      /\ UNCHANGED <<started, phase, queue, emitted, heard>>
  BY <1>0 DEF Subscribe, SlotLocked
<1>2. /\ \A b \in App : b # a => call'[b] = call[b] /\ call[b][1] # "start"
      /\ call'[a] = Idle
  BY DEF Subscribe, LifecycleTypeOK, SlotLocked
<1>3. /\ pump'[s] = <<"reading", emitted[s] + 1>>
      /\ \A n \in Nodes : n # s => pump'[n] = pump[n]
  BY <1>1 DEF Subscribe, LifecycleTypeOK
<1>4. LifecycleTypeOK'
  <2>1. emitted[s] + 1 \in Nat \ {0}
    <3>1. emitted[s] \in 0 .. MaxEvents
      BY DEF LifecycleTypeOK
    <3> HIDE DEF LifecycleInv
    <3> QED BY <3>1
  <2>2. pump' \in [Nodes -> {"none", "reading", "taken", "calling", "lagged", "closed"} \X (Nat \ {0})]
    BY <1>1, <2>1 DEF Subscribe, LifecycleTypeOK
  <2>3. call' \in [App -> Call]
    BY DEF Subscribe, LifecycleTypeOK, Call
  <2>4. QueueTypeOK'
    BY DEF Subscribe, LifecycleTypeOK, QueueTypeOK
  <2>5. slot' \in 0 .. MaxNodes
    BY <1>1
  <2> QED BY <1>1, <2>2, <2>3, <2>4, <2>5 DEF LifecycleTypeOK
<1>5. Numbered' /\ LastWordLeft' /\ PumpFollows'
  <2>1. Numbered'
    <3>1. \A n \in Nodes : n > started => n # s
      BY <1>1 DEF LifecycleTypeOK
    <3> HIDE DEF Nodes
    <3> QED BY <1>1, <1>3, <3>1 DEF Numbered
  <2>2. LastWordLeft'
    BY <1>1 DEF LastWordLeft
  <2>3. heard'[s] = 0
    BY <1>1 DEF PumpFollows
  <2>4. PumpFollows'
    <3> SUFFICES ASSUME NEW n \in Nodes
                 PROVE  /\ pump'[n][1] = "none" => heard'[n] = 0
                        /\ heard'[n] # 0 => heard'[n] = pump'[n][2] - (IF pump'[n][1] = "taken" THEN 2 ELSE 1)
      BY DEF PumpFollows
    <3>1. CASE n = s
      BY <2>3, <3>1
    <3>2. CASE n # s
      BY <1>1, <1>3, <3>2 DEF PumpFollows
    <3> QED BY <3>1, <3>2
  <2> QED BY <2>1, <2>2, <2>4
<1>6. SlotLocked'
  BY <1>2 DEF SlotLocked, Idle
<1>7. NoneForgotten'
  <2> SUFFICES ASSUME NEW n \in Nodes, Alive(n)' PROVE Kept(n)'
    BY DEF NoneForgotten
  <2>1. CASE n = s
    BY <2>1, <1>1 DEF Kept
  <2>2. CASE n # s
    <3>1. Alive(n)
      BY DEF Subscribe, Alive
    <3>2. Told(n) => Told(n)'
      BY <2>2, <1>1, <1>2 DEF Subscribe, Told, Handles, Idle
    <3>3. \A b \in App : call[b] # <<"start", n>>
      BY <2>2, <1>1, <1>2
    <3> QED BY <1>1, <3>1, <3>2, <3>3, KeptOn
  <2> QED BY <2>1, <2>2
<1> QED BY <1>4, <1>5, <1>6, <1>7

LEMMA StopKeepsInv == ASSUME LifecycleInv, NEW a \in App, Stop(a) PROVE LifecycleInv'
<1> USE LifecycleAssumption DEF LifecycleInv, Nodes
<1>1. /\ slot \in Nodes /\ slot' = 0 /\ call[a] = Idle /\ call'[a] = <<"stop", slot>>
      /\ \A b \in App : b # a => call'[b] = call[b]
      /\ \A b \in App : call[b][1] # "start"
      /\ UNCHANGED <<started, phase, queue, emitted, pump, heard>>
  BY DEF Stop, LifecycleTypeOK, SlotFree
<1>2. LifecycleTypeOK'
  <2>1. <<"stop", slot>> \in Call
    BY <1>1 DEF Call, Sending
  <2>2. call' \in [App -> Call]
    BY <2>1 DEF Stop, LifecycleTypeOK
  <2>3. QueueTypeOK'
    BY <1>1 DEF LifecycleTypeOK, QueueTypeOK
  <2> QED BY <1>1, <2>2, <2>3 DEF LifecycleTypeOK
<1>3. Numbered' /\ LastWordLeft' /\ PumpFollows'
  BY <1>1 DEF Numbered, LastWordLeft, PumpFollows
<1>4. SlotLocked'
  BY <1>1 DEF SlotLocked
<1>5. NoneForgotten'
  <2> SUFFICES ASSUME NEW n \in Nodes, Alive(n)' PROVE Kept(n)'
    BY DEF NoneForgotten
  <2>1. CASE n = slot
    BY <2>1, <1>1 DEF Kept, Told
  <2>2. CASE n # slot
    <3>1. Alive(n)
      BY <1>1 DEF Alive
    <3>2. Told(n) => Told(n)'
      BY <2>2, <1>1 DEF Told, Handles, Idle
    <3> QED BY <2>2, <1>1, <3>1, <3>2, KeptOn
  <2> QED BY <2>1, <2>2
<1> QED BY <1>2, <1>3, <1>4, <1>5

LEMMA CloneKeepsInv ==
  ASSUME LifecycleInv, NEW a \in App, NEW kind \in {"send", "ask"}, Clone(a, kind)
  PROVE  LifecycleInv'
<1> USE LifecycleAssumption DEF LifecycleInv, Nodes
<1>1. /\ slot \in Nodes /\ call[a] = Idle /\ call'[a] = <<kind, slot>>
      /\ \A b \in App : b # a => call'[b] = call[b]
      /\ \A b \in App : call[b][1] # "start"
      /\ UNCHANGED <<started, slot, phase, queue, emitted, pump, heard>>
  BY DEF Clone, LifecycleTypeOK, SlotFree
<1>2. LifecycleTypeOK'
  <2>1. <<kind, slot>> \in Call
    BY <1>1 DEF Call, Sending
  <2>2. call' \in [App -> Call]
    BY <2>1 DEF Clone, LifecycleTypeOK
  <2>3. QueueTypeOK'
    BY <1>1 DEF LifecycleTypeOK, QueueTypeOK
  <2> QED BY <1>1, <2>2, <2>3 DEF LifecycleTypeOK
<1>3. Numbered' /\ LastWordLeft' /\ PumpFollows'
  BY <1>1 DEF Numbered, LastWordLeft, PumpFollows
<1>4. SlotLocked'
  BY <1>1 DEF SlotLocked
<1>5. NoneForgotten'
  <2> SUFFICES ASSUME NEW n \in Nodes, Alive(n)' PROVE Kept(n)'
    BY DEF NoneForgotten
  <2>1. Alive(n)
    BY <1>1 DEF Alive
  <2>2. CASE slot = n
    BY <2>2, <1>1 DEF Kept
  <2>3. CASE slot # n
    <3>1. Told(n) => Told(n)'
      BY <2>3, <1>1 DEF Told, Handles, Idle
    <3> QED BY <2>1, <2>3, <1>1, <3>1, KeptOn
  <2> QED BY <2>2, <2>3
<1> QED BY <1>2, <1>3, <1>4, <1>5

(* A call that does not wait for the slot has the form its kind says.      *)
LEMMA SendingForm ==
  ASSUME LifecycleTypeOK, NEW a \in App, call[a][1] \in Sending \cup {"wait"}
  PROVE  \E kind \in Sending \cup {"wait"}, n \in Nodes : call[a] = <<kind, n>>
<1>1. call[a] \in Call
  BY DEF LifecycleTypeOK
<1> QED BY <1>1 DEF Call, Idle, Sending

LEMMA SendKeepsInv == ASSUME LifecycleInv, NEW a \in App, Send(a) PROVE LifecycleInv'
<1> USE LifecycleAssumption DEF LifecycleInv, Nodes
<1>1. PICK kind \in Sending \cup {"wait"}, n \in Nodes : call[a] = <<kind, n>>
  BY SendingForm DEF Send
<1>2. /\ kind \in Sending
      /\ UNCHANGED <<started, slot, phase, emitted, pump, heard>>
  BY <1>1 DEF Send
<1>3. Numbered' /\ LastWordLeft' /\ PumpFollows'
  BY <1>2 DEF Numbered, LastWordLeft, PumpFollows
<1>4. CASE phase[n] = "ended"
  <2>1. UNCHANGED queue /\ call' = [call EXCEPT ![a] = Idle]
    BY <1>1, <1>4 DEF Send
  <2>2. call'[a] = Idle /\ \A b \in App : b # a => call'[b] = call[b]
    BY <2>1 DEF LifecycleTypeOK
  <2>3. LifecycleTypeOK'
    <3>1. call' \in [App -> Call]
      BY <2>1 DEF LifecycleTypeOK, Call
    <3>2. QueueTypeOK'
      BY <2>1 DEF LifecycleTypeOK, QueueTypeOK
    <3> QED BY <1>2, <3>1, <3>2 DEF LifecycleTypeOK
  <2>4. SlotLocked'
    BY <1>2, <2>2 DEF SlotLocked, Idle
  <2>5. NoneForgotten'
    <3> SUFFICES ASSUME NEW m \in Nodes, Alive(m)' PROVE Kept(m)'
      BY DEF NoneForgotten
    <3>1. Alive(m) /\ m # n
      BY <1>2, <1>4 DEF Alive
    <3>2. Told(m) => Told(m)'
      BY <1>1, <1>2, <2>1, <2>2, <3>1 DEF Told, Handles, Idle
    <3>3. \A b \in App : call[b] = <<"start", m>> => call'[b] = <<"start", m>>
      BY <1>1, <2>2, <3>1
    <3> QED BY <1>2, <3>1, <3>2, <3>3, KeptOn
  <2> QED BY <1>3, <2>3, <2>4, <2>5
<1>5. CASE phase[n] # "ended"
  <2>1. /\ Room(n)
        /\ queue' = [queue EXCEPT ![n] = Append(@, <<kind, a>>)]
        /\ call' = [call EXCEPT ![a] = IF kind = "ask" THEN <<"wait", n>> ELSE Idle]
    BY <1>1, <1>5 DEF Send
  <2>2. /\ call'[a] = IF kind = "ask" THEN <<"wait", n>> ELSE Idle
        /\ \A b \in App : b # a => call'[b] = call[b]
    BY <2>1 DEF LifecycleTypeOK
  <2>3. LifecycleTypeOK'
    <3>1. call' \in [App -> Call]
      <4>1. (IF kind = "ask" THEN <<"wait", n>> ELSE Idle) \in Call
        BY DEF Call
      <4> QED BY <2>1, <4>1 DEF LifecycleTypeOK
    <3>2. QueueTypeOK'
      <4>1. queue[n] \in Seq(Sending \X App) /\ Len(queue[n]) < Commands
        BY <2>1 DEF LifecycleTypeOK, QueueTypeOK, Room
      <4>2. <<kind, a>> \in Sending \X App
        BY <1>2
      <4>3. /\ Append(queue[n], <<kind, a>>) \in Seq(Sending \X App)
            /\ Len(Append(queue[n], <<kind, a>>)) <= Commands
        BY <4>1, <4>2
      <4> HIDE DEF Nodes
      <4> QED BY <2>1, <4>3 DEF LifecycleTypeOK, QueueTypeOK
    <3> QED BY <1>2, <3>1, <3>2 DEF LifecycleTypeOK
  <2>4. SlotLocked'
    BY <1>2, <2>2 DEF SlotLocked, Idle
  <2>5. NoneForgotten'
    <3> SUFFICES ASSUME NEW m \in Nodes, Alive(m)' PROVE Kept(m)'
      BY DEF NoneForgotten
    <3>1. Alive(m)
      BY <1>2 DEF Alive
    <3>2. \A b \in App : call[b] = <<"start", m>> => call'[b] = <<"start", m>>
      BY <1>1, <1>2, <2>2 DEF Sending
    <3>3. /\ queue[n] \in Seq(Sending \X App) /\ queue'[n] = Append(queue[n], <<kind, a>>)
          /\ \A k \in Nodes : k # n => queue'[k] = queue[k]
      BY <2>1 DEF LifecycleTypeOK, QueueTypeOK
    <3>4. Told(m) => Told(m)'
      <4>1. ~Handles(m) => ~Handles(m)'
        BY <1>1, <1>2, <2>2 DEF Handles, Idle, Sending
      <4>2. ASSUME NEW b \in App, call[b] = <<"stop", m>>
            PROVE  call'[b] = <<"stop", m>> \/ \E i \in DOMAIN queue'[m] : queue'[m][i][1] = "stop"
        <5>1. CASE b = a
          <6>1. kind = "stop" /\ m = n
            BY <5>1, <4>2, <1>1
          <6>2. Len(queue[n]) + 1 \in DOMAIN queue'[m] /\ queue'[m][Len(queue[n]) + 1] = <<kind, a>>
            BY <6>1, <3>3
          <6> QED BY <6>1, <6>2
        <5>2. CASE b # a
          BY <5>2, <4>2, <2>2
        <5> QED BY <5>1, <5>2
      <4>3. ASSUME NEW i \in DOMAIN queue[m], queue[m][i][1] = "stop"
            PROVE  i \in DOMAIN queue'[m] /\ queue'[m][i][1] = "stop"
        <5>1. CASE m = n
          BY <5>1, <4>3, <3>3
        <5>2. CASE m # n
          BY <5>2, <4>3, <3>3
        <5> QED BY <5>1, <5>2
      <4> QED BY <4>1, <4>2, <4>3 DEF Told
    <3> QED BY <1>2, <3>1, <3>2, <3>4, KeptOn
  <2> QED BY <1>3, <2>3, <2>4, <2>5
<1> QED BY <1>4, <1>5

LEMMA AnsweredKeepsInv == ASSUME LifecycleInv, NEW a \in App, Answered(a) PROVE LifecycleInv'
<1> USE LifecycleAssumption DEF LifecycleInv, Nodes
<1>1. /\ call[a][1] = "wait" /\ call'[a] = Idle
      /\ \A b \in App : b # a => call'[b] = call[b]
      /\ UNCHANGED <<started, slot, phase, queue, emitted, pump, heard>>
  BY DEF Answered, LifecycleTypeOK
<1>2. LifecycleTypeOK'
  <2>1. call' \in [App -> Call]
    BY DEF Answered, LifecycleTypeOK, Call
  <2>2. QueueTypeOK'
    BY <1>1 DEF LifecycleTypeOK, QueueTypeOK
  <2> QED BY <1>1, <2>1, <2>2 DEF LifecycleTypeOK
<1>3. Numbered' /\ LastWordLeft' /\ PumpFollows'
  BY <1>1 DEF Numbered, LastWordLeft, PumpFollows
<1>4. SlotLocked'
  BY <1>1 DEF SlotLocked, Idle
<1>5. NoneForgotten'
  <2> SUFFICES ASSUME NEW n \in Nodes, Alive(n)' PROVE Kept(n)'
    BY DEF NoneForgotten
  <2>1. Alive(n)
    BY <1>1 DEF Alive
  <2>2. Told(n) => Told(n)'
    BY <1>1 DEF Told, Handles, Idle
  <2>3. \A b \in App : call[b] = <<"start", n>> => call'[b] = <<"start", n>>
    BY <1>1
  <2> QED BY <1>1, <2>1, <2>2, <2>3, KeptOn
<1> QED BY <1>2, <1>3, <1>4, <1>5

-----------------------------------------------------------------------------
(* The task and the pump                                                   *)

(* A step of the node n that sends at most one event, while n is alive,    *)
(* and neither reads a stop nor takes or drops a handle.                   *)
LEMMA TaskKeepsInv ==
  ASSUME LifecycleInv, NEW n \in Nodes, Alive(n),
         UNCHANGED <<started, slot, call, pump, heard>>,
         QueueTypeOK', \A m \in Nodes : m # n => queue'[m] = queue[m],
         phase' = [phase EXCEPT ![n] = phase'[n]],
         phase'[n] \in {"running", "ended"},
         emitted' = [emitted EXCEPT ![n] = emitted'[n]],
         emitted'[n] \in 0 .. MaxEvents,
         phase'[n] = "running" => emitted'[n] < MaxEvents /\ (Told(n) => Told(n)')
  PROVE  LifecycleInv'
<1> USE LifecycleAssumption DEF LifecycleInv, Nodes
<1>1. \A m \in Nodes : m # n => phase'[m] = phase[m] /\ emitted'[m] = emitted[m]
  BY DEF LifecycleTypeOK
<1>2. LifecycleTypeOK'
  <2>1. emitted' \in [Nodes -> 0 .. MaxEvents]
    BY DEF LifecycleTypeOK
  <2>2. phase' \in [Nodes -> {"none", "spawned", "running", "ended"}]
    BY DEF LifecycleTypeOK
  <2> QED BY <2>1, <2>2 DEF LifecycleTypeOK
<1>3. Numbered'
  BY <1>1 DEF Numbered, Alive
<1>4. LastWordLeft'
  BY <1>1 DEF LastWordLeft
<1>5. PumpFollows' /\ SlotLocked'
  BY DEF PumpFollows, SlotLocked
<1>6. NoneForgotten'
  <2> SUFFICES ASSUME NEW m \in Nodes, Alive(m)' PROVE Kept(m)'
    BY DEF NoneForgotten
  <2>1. Alive(m)
    BY <1>1 DEF Alive
  <2>2. Told(m) => Told(m)'
    <3>1. CASE m = n
      BY <3>1 DEF Alive
    <3>2. CASE m # n
      BY <3>2 DEF Told, Handles
    <3> QED BY <3>1, <3>2
  <2> QED BY <2>1, <2>2, KeptOn
<1> QED BY <1>2, <1>3, <1>4, <1>5, <1>6

LEMMA LeaveEmpties ==
  ASSUME LifecycleInv, NEW n \in Nodes, Alive(n), Leave(n)
  PROVE  /\ QueueTypeOK' /\ \A m \in Nodes : m # n => queue'[m] = queue[m]
         /\ phase' = [phase EXCEPT ![n] = phase'[n]] /\ phase'[n] = "ended"
         /\ emitted' = [emitted EXCEPT ![n] = emitted'[n]] /\ emitted'[n] \in 0 .. MaxEvents
<1> USE LifecycleAssumption DEF LifecycleInv
<1>1. /\ queue' = [queue EXCEPT ![n] = <<>>] /\ phase' = [phase EXCEPT ![n] = "ended"]
      /\ emitted' = [emitted EXCEPT ![n] = @ + 1]
  BY DEF Leave, Emit
<1>2. QueueTypeOK' /\ \A m \in Nodes : m # n => queue'[m] = queue[m]
  BY <1>1 DEF LifecycleTypeOK, QueueTypeOK
<1>3. phase' = [phase EXCEPT ![n] = phase'[n]] /\ phase'[n] = "ended"
  BY <1>1 DEF LifecycleTypeOK
<1>4. emitted[n] < MaxEvents /\ emitted[n] \in Nat
  BY DEF LastWordLeft, LifecycleTypeOK, Alive
<1>5. emitted' = [emitted EXCEPT ![n] = emitted'[n]] /\ emitted'[n] \in 0 .. MaxEvents
  BY <1>1, <1>4 DEF LifecycleTypeOK
<1> QED BY <1>2, <1>3, <1>5

LEMMA ListenKeepsInv == ASSUME LifecycleInv, NEW n \in Nodes, Listen(n) PROVE LifecycleInv'
<1> USE LifecycleAssumption
<1>1. Alive(n) /\ UNCHANGED <<started, slot, call, pump, heard>>
  BY DEF Listen, Alive
<1>2. CASE Leave(n)
  BY <1>1, <1>2, LeaveEmpties, TaskKeepsInv
<1>3. CASE Emit(n) /\ phase' = [phase EXCEPT ![n] = "running"] /\ UNCHANGED queue
  <2>1. emitted[n] = 0
    BY DEF Listen, LifecycleInv, LastWordLeft
  <2>2. /\ phase' = [phase EXCEPT ![n] = phase'[n]] /\ phase'[n] = "running"
        /\ emitted' = [emitted EXCEPT ![n] = emitted'[n]] /\ emitted'[n] = 1
    BY <1>3, <2>1 DEF LifecycleInv, LifecycleTypeOK, Emit
  <2>3. QueueTypeOK'
    BY <1>3 DEF LifecycleInv, LifecycleTypeOK, QueueTypeOK
  <2>4. Told(n) => Told(n)'
    BY <1>1, <1>3 DEF Told, Handles
  <2>5. emitted'[n] \in 0 .. MaxEvents /\ emitted'[n] < MaxEvents
    BY <2>2
  <2> QED BY <1>1, <1>3, <2>2, <2>3, <2>4, <2>5, TaskKeepsInv
<1> QED BY <1>2, <1>3 DEF Listen

LEMMA HappeningKeepsInv == ASSUME LifecycleInv, NEW n \in Nodes, Happening(n) PROVE LifecycleInv'
<1> USE LifecycleAssumption
<1>1. Alive(n) /\ UNCHANGED <<started, slot, call, phase, queue, pump, heard>>
  BY DEF Happening, Alive
<1>2. phase' = [phase EXCEPT ![n] = phase'[n]] /\ phase'[n] = "running"
  BY DEF Happening, LifecycleInv, LifecycleTypeOK
<1>3. emitted' = [emitted EXCEPT ![n] = emitted'[n]] /\ emitted'[n] \in 0 .. MaxEvents - 1
  BY DEF Happening, Emit, LifecycleInv, LifecycleTypeOK
<1>4. QueueTypeOK'
  BY <1>1 DEF LifecycleInv, LifecycleTypeOK, QueueTypeOK
<1>5. Told(n) => Told(n)'
  BY <1>1 DEF Told, Handles
<1> QED BY <1>1, <1>2, <1>3, <1>4, <1>5, TaskKeepsInv

LEMMA OnCommandKeepsInv == ASSUME LifecycleInv, NEW n \in Nodes, OnCommand(n) PROVE LifecycleInv'
<1> USE LifecycleAssumption
<1>1. /\ Alive(n) /\ UNCHANGED <<started, slot, call, phase, pump, heard>>
      /\ queue[n] # <<>> /\ Head(queue[n])[1] # "stop"
      /\ queue' = [queue EXCEPT ![n] = Tail(@)]
  BY DEF OnCommand, Alive
<1>2. phase' = [phase EXCEPT ![n] = phase'[n]] /\ phase'[n] = "running"
  BY DEF OnCommand, LifecycleInv, LifecycleTypeOK
<1>3. emitted' = [emitted EXCEPT ![n] = emitted'[n]] /\ emitted'[n] \in 0 .. MaxEvents - 1
  <2>1. CASE UNCHANGED emitted
    BY <2>1 DEF OnCommand, LifecycleInv, LifecycleTypeOK, LastWordLeft
  <2>2. CASE emitted[n] < MaxEvents - 1 /\ Emit(n)
    BY <2>2 DEF Emit, LifecycleInv, LifecycleTypeOK
  <2> QED BY <2>1, <2>2 DEF OnCommand
<1>4. queue[n] \in Seq(Sending \X App) /\ Len(queue[n]) <= Commands
  BY DEF LifecycleInv, LifecycleTypeOK, QueueTypeOK
<1>5. Tail(queue[n]) \in Seq(Sending \X App) /\ Len(Tail(queue[n])) <= Commands
  BY <1>1, <1>4
<1>6. QueueTypeOK' /\ \A m \in Nodes : m # n => queue'[m] = queue[m]
  BY <1>1, <1>5 DEF LifecycleInv, LifecycleTypeOK, QueueTypeOK
<1>7. Told(n) => Told(n)'
  <2>1. ASSUME NEW i \in DOMAIN queue[n], queue[n][i][1] = "stop"
        PROVE  \E j \in DOMAIN queue'[n] : queue'[n][j][1] = "stop"
    <3>1. queue'[n] = Tail(queue[n])
      BY <1>1 DEF LifecycleInv, LifecycleTypeOK, QueueTypeOK
    <3>2. i # 1
      BY <1>1, <1>4, <2>1
    <3>3. i - 1 \in DOMAIN Tail(queue[n]) /\ Tail(queue[n])[i - 1] = queue[n][i]
      BY <1>1, <1>4, <3>2
    <3> QED BY <2>1, <3>1, <3>3
  <2> QED BY <1>1, <2>1 DEF Told, Handles
<1> QED BY <1>1, <1>2, <1>3, <1>6, <1>7, TaskKeepsInv

LEMMA EndKeepsInv == ASSUME LifecycleInv, NEW n \in Nodes, End(n) PROVE LifecycleInv'
<1>1. Alive(n) /\ Leave(n) /\ UNCHANGED <<started, slot, call, pump, heard>>
  BY DEF End, Alive
<1> QED BY <1>1, LeaveEmpties, TaskKeepsInv

LEMMA PumpKeepsInv == ASSUME LifecycleInv, NEW n \in Nodes, Pump(n) PROVE LifecycleInv'
<1> USE LifecycleAssumption DEF LifecycleInv
<1>1. UNCHANGED <<started, slot, call, phase, queue, emitted>>
  BY DEF Pump
<1>2. /\ \A m \in Nodes : m # n => pump'[m] = pump[m] /\ heard'[m] = heard[m]
      /\ pump[n][1] # "none"
  BY DEF Pump, Recv, Lag, Deliver, Return, LifecycleTypeOK
<1>3. /\ pump' \in [Nodes -> {"none", "reading", "taken", "calling", "lagged", "closed"} \X (Nat \ {0})]
      /\ heard' \in [Nodes -> Nat]
  BY DEF Pump, Recv, Lag, Deliver, Return, LifecycleTypeOK
<1>4. LifecycleTypeOK'
  <2>1. QueueTypeOK'
    BY <1>1 DEF LifecycleTypeOK, QueueTypeOK
  <2> QED BY <1>1, <1>3, <2>1 DEF LifecycleTypeOK
<1>5. LastWordLeft' /\ NoneForgotten'
  BY <1>1 DEF LastWordLeft, NoneForgotten, Alive, Kept, Told, Handles
<1>6. Numbered' /\ SlotLocked'
  <2>1. \A m \in Nodes : pump[m][1] = "none" => pump'[m][1] = "none"
    BY <1>2
  <2>2. \A a \in App : call[a][1] = "start" => call[a][2] \in Nodes
    BY DEF LifecycleTypeOK, Call, Idle, Sending
  <2> QED BY <1>1, <2>1, <2>2 DEF Numbered, SlotLocked
<1>7. PumpFollows'
  BY <1>2 DEF PumpFollows, Pump, Recv, Lag, Deliver, Return, LifecycleTypeOK
<1> QED BY <1>4, <1>5, <1>6, <1>7

-----------------------------------------------------------------------------
LEMMA LifecycleInvNext == ASSUME LifecycleInv, [Next]_vars PROVE LifecycleInv'
<1>1. CASE UNCHANGED vars
  <2>1. UNCHANGED <<started, slot, call, phase, queue, emitted, pump, heard>>
    BY <1>1 DEF vars
  <2>2. LifecycleTypeOK'
    BY <2>1 DEF LifecycleInv, LifecycleTypeOK, QueueTypeOK
  <2>3. Numbered' /\ SlotLocked' /\ LastWordLeft' /\ PumpFollows'
    BY <2>1 DEF LifecycleInv, Numbered, SlotLocked, LastWordLeft, PumpFollows
  <2>4. NoneForgotten'
    BY <2>1 DEF LifecycleInv, NoneForgotten, Alive, Kept, Told, Handles
  <2> QED BY <2>2, <2>3, <2>4 DEF LifecycleInv
<1>2. CASE Next
  <2>1. ASSUME NEW a \in App,
               \/ Start(a) \/ Subscribe(a) \/ Stop(a) \/ Send(a) \/ Answered(a)
               \/ \E kind \in {"send", "ask"} : Clone(a, kind)
        PROVE  LifecycleInv'
    BY <2>1, StartKeepsInv, SubscribeKeepsInv, StopKeepsInv, SendKeepsInv,
       AnsweredKeepsInv, CloneKeepsInv
  <2>2. ASSUME NEW n \in Nodes,
               Listen(n) \/ OnCommand(n) \/ Happening(n) \/ End(n) \/ Pump(n)
        PROVE  LifecycleInv'
    BY <2>2, ListenKeepsInv, OnCommandKeepsInv, HappeningKeepsInv, EndKeepsInv, PumpKeepsInv
  <2> QED BY <1>2, <2>1, <2>2 DEF Next
<1> QED BY <1>1, <1>2

LEMMA LifecycleInvariant == Spec => []LifecycleInv
<1>1. Init => LifecycleInv
  BY LifecycleInvInit
<1>2. LifecycleInv /\ [Next]_vars => LifecycleInv'
  BY LifecycleInvNext
<1> QED BY <1>1, <1>2, PTL DEF Spec

(* The variables keep their types; in particular the channel of commands   *)
(* never holds more than it has room for, and a node's last event fits.    *)
THEOREM LifecycleKeepsTypes == Spec => []LifecycleTypeOK
<1>1. LifecycleInv => LifecycleTypeOK
  BY DEF LifecycleInv
<1> QED BY <1>1, LifecycleInvariant, PTL

(* However many calls of start and stop overlap, of any two nodes that run *)
(* at once one has been told to end.                                       *)
THEOREM LifecycleOneNode == Spec => []OneNode
<1>1. LifecycleInv => OneNode
  <2> SUFFICES ASSUME LifecycleInv, NEW m \in Nodes, NEW n \in Nodes,
                      Alive(m), Alive(n), m # n, ~Told(m), ~Told(n)
               PROVE  FALSE
    BY DEF OneNode
  <2>1. /\ slot = m \/ \E a \in App : call[a] = <<"start", m>>
        /\ slot = n \/ \E a \in App : call[a] = <<"start", n>>
    BY DEF LifecycleInv, NoneForgotten, Kept
  <2>2. \A a \in App : call[a][1] = "start" => slot = 0
    BY DEF LifecycleInv, SlotLocked
  <2>3. slot \notin {m, n}
    BY <2>1, <2>2 DEF Nodes
  <2>4. PICK a \in App : call[a] = <<"start", m>>
    BY <2>1, <2>3
  <2>5. PICK b \in App : call[b] = <<"start", n>>
    BY <2>1, <2>3
  <2>6. a = b
    BY <2>4, <2>5 DEF LifecycleInv, SlotLocked
  <2> QED BY <2>4, <2>5, <2>6
<1> QED BY <1>1, LifecycleInvariant, PTL

(* The listener hears the events of a node without a gap and without a     *)
(* repetition, whatever the room in the ring.                              *)
THEOREM LifecycleHeardInOrder == Spec => HeardInOrder
<1>1. LifecycleInv /\ [Next]_vars
        => [\A n \in Nodes : heard'[n] # heard[n] /\ heard[n] # 0 => heard'[n] = heard[n] + 1]_vars
  <2> SUFFICES ASSUME LifecycleInv, Next, NEW n \in Nodes, heard'[n] # heard[n], heard[n] # 0
               PROVE  heard'[n] = heard[n] + 1
    BY DEF vars
  <2>1. PICK m \in Nodes : Deliver(m)
    BY DEF Next, Start, Subscribe, Stop, Send, Answered, Clone, Listen, OnCommand, Happening,
       End, Pump
  <2>2. m = n /\ pump[n][1] = "taken" /\ heard'[n] = pump[n][2] - 1
    BY <2>1 DEF Deliver, LifecycleInv, LifecycleTypeOK
  <2>3. heard[n] = pump[n][2] - 2 /\ pump[n][2] \in Nat
    BY <2>2 DEF LifecycleInv, LifecycleTypeOK, PumpFollows
  <2> QED BY <2>2, <2>3
<1> QED BY <1>1, LifecycleInvariant, PTL DEF Spec, HeardInOrder
=============================================================================

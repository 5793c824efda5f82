----------------------------- MODULE Membership -----------------------------
(***************************************************************************)
(* How nodes admit each other and how revocations travel: p2p-core's       *)
(* enroll.rs and identity.rs and the handshake of net/node.rs, over the    *)
(* seed server's register.  A node greets every peer it gets a connection  *)
(* to with its certificate and its revocation list; the two greetings are  *)
(* separate requests that cross, and either may be given up after 30       *)
(* seconds while its connection stays.  A process may stop at any time,    *)
(* and the other end of its connections learns of that later.              *)
(***************************************************************************)
EXTENDS SeedStore

CONSTANTS Seed,           \* the seed server's own node
          Conn,           \* connections there may be at once
          Overlaps,       \* may one of two connections of a pair close on its own?
          MaxFaults       \* bound: how many times processes stop, connections fail,
                          \* requests time out and requests come too early

Node == Phones \cup {Seed}

ASSUME MembershipAssumption ==
  /\ Seed \notin Device /\ IsFiniteSet(Conn) /\ Overlaps \in BOOLEAN /\ MaxFaults \in Nat

VARIABLES
  disk,     \* disk[d]: the enrolment saved on phone d
  running,  \* the nodes whose process runs
  mem,      \* mem[n]: Runtime.enrollment
  open,     \* open[n]: the connections n has, <<connection, peer>>
  greeted,  \* greeted[n]: peers a Hello was sent to
  authed,   \* authed[n]: peers admitted
  known,    \* known[n][p]: serial of the certificate recorded for p, Nobody at first
  deny,     \* deny[n]: peers to disconnect once their refusal is sent
  closing,  \* closing[n]: the connections disconnect_peer_id is closing
  net,      \* requests and responses on their way
  unheard,  \* unheard[n]: peers to whom n's introduction timed out since its last
            \* connection to them closed (history: no code reads it)
  faults    \* of what MaxFaults bounds, so far

vars == <<now, expires, spent, nextSerial, device, updated, publishing, reading, enrolling,
          disk, running, mem, open, greeted, authed, known, deny, closing, net, unheard, faults>>

Nobody == -1
NotEnrolled == [cert |-> [serial |-> 0, expires |-> 0], list |-> Empty]
Enrolment == [cert : Cert, list : List]

Greetings == [type : {"Hello", "Reply"}, conn : Conn, from : Node, to : Node,
              flushed : BOOLEAN, cert : Cert, list : List]
(* Requests for changes or with changes, their answers, and refusals.      *)
Others == [type : {"Ask", "Answer", "Denied"}, conn : Conn, from : Node, to : Node,
           flushed : BOOLEAN]

Greets(m) == m.type \in {"Hello", "Reply"}

To(n, p) == {l \in open[n] : l[2] = p}

-----------------------------------------------------------------------------
(* Joining                                                                 *)

(* DeviceCert::verify, for a certificate of this organisation and of the   *)
(* peer that shows it.                                                     *)
Verifies(cert, list) == now < cert.expires /\ cert.serial \notin list.revoked

(* Bug: any list but the empty one is taken, newer or not. *)
MergeCrlMutant(list, incoming) == IF incoming = Empty THEN list ELSE incoming

(* merge_crl: only a strictly newer list is adopted.                       *)
MergeCrl(list, incoming) == IF incoming.stamp <= list.stamp THEN list ELSE incoming

(* Enrollment::accept and save: the new enrolment replaces the old one,    *)
(* list and all.                                                           *)
CompleteEnrolment(d) ==
  /\ enrolling[d].step = "answered"
  /\ now < enrolling[d].cert.expires
  /\ disk' = [disk EXCEPT ![d] = [cert |-> enrolling[d].cert, list |-> enrolling[d].list]]
  /\ enrolling' = [enrolling EXCEPT ![d] = NoEnrolment]
  /\ UNCHANGED <<now, expires, spent, nextSerial, device, updated, publishing, reading,
                 running, mem, open, greeted, authed, known, deny, closing, net, unheard,
                 faults>>

(* Node::spawn on a phone: the saved enrolment is checked against its own  *)
(* list before anything runs.  Joining and running exclude each other, as  *)
(* in the application.                                                     *)
StartPhone(d) ==
  /\ d \in Phones \ running
  /\ enrolling[d] = NoEnrolment
  /\ disk[d] # NotEnrolled
  /\ Verifies(disk[d].cert, disk[d].list)
  /\ mem' = [mem EXCEPT ![d] = disk[d]]
  /\ running' = running \cup {d}
  /\ UNCHANGED <<storeVars, disk, open, greeted, authed, known, deny, closing, net, unheard,
                 faults>>

(* The seed server certifies its own node and gives it the list of that    *)
(* moment, once; this is the second statement of reading it.               *)
StartSeed ==
  /\ Seed \notin running
  /\ reading # NotReading
  /\ mem' = [mem EXCEPT ![Seed] =
       [cert |-> [serial |-> ServerSerial, expires |-> now + CertTtl],
        list |-> ListOf(reading)]]
  /\ reading' = NotReading
  /\ running' = running \cup {Seed}
  /\ UNCHANGED <<now, expires, spent, nextSerial, device, updated, publishing, enrolling,
                 disk, open, greeted, authed, known, deny, closing, net, unheard, faults>>

-----------------------------------------------------------------------------
(* Connections                                                             *)

(* Bug: one introduction per pair is thought to be enough. *)
IntroductionsMutant(n, p, c) ==
  IF p \in greeted[n] \/ n \in greeted[p] THEN {{}}
  ELSE {{[type |-> "Hello", conn |-> c, from |-> n, to |-> p, flushed |-> TRUE,
          cert |-> mem[n].cert, list |-> mem[n].list]}}

(* ConnectionEstablished at n: introduce ourselves, once per peer.  The    *)
(* request goes out on any connection to the peer; on one whose other end  *)
(* is gone it leads nowhere.                                               *)
Introductions(n, p, c) ==
  IF p \in greeted[n] THEN {{}}
  ELSE {{[type |-> "Hello", conn |-> l[1], from |-> n, to |-> p, flushed |-> TRUE,
          cert |-> mem[n].cert, list |-> mem[n].list]} :
            l \in {k \in To(n, p) : <<k[1], n>> \in open[p]} \cup {<<c, p>>}}
       \cup {{} : l \in {k \in To(n, p) : <<k[1], n>> \notin open[p]}}

(* A connection in use nowhere; which one it is makes no difference.       *)
Unused == {c \in Conn :
  /\ \A q \in Node : \A l \in open[q] : l[1] # c
  /\ \A m \in net : m.conn # c}

(* n dials p, to which it has no connection as far as it knows.  With      *)
(* Overlaps also when there is one: both dial at once, or a relayed        *)
(* connection is joined by a direct one.                                   *)
Connect(n, p) ==
  /\ n # p /\ {n, p} \subseteq running
  /\ Unused # {}
  /\ Overlaps \/ (To(n, p) = {} /\ To(p, n) \cap closing[p] = {})
  /\ LET c == CHOOSE x \in Unused : TRUE
     IN  /\ open' = [open EXCEPT ![n] = @ \cup {<<c, p>>}, ![p] = @ \cup {<<c, n>>}]
         /\ \E a \in Introductions(n, p, c), b \in Introductions(p, n, c) :
              net' = net \cup a \cup b
  /\ greeted' = [greeted EXCEPT ![n] = @ \cup {p}, ![p] = @ \cup {n}]
  /\ UNCHANGED <<storeVars, disk, running, mem, authed, known, deny, closing, unheard, faults>>

(* What is lost when n's ends of connections close: what was to arrive     *)
(* there, and what n had not written yet.                                  *)
Lost(n, conns) ==
  {m \in net : m.conn \in conns /\ (IF m.flushed THEN m.to = n ELSE m.from = n)}

(* Bug: the closing connection is counted among those that remain. *)
LastMutant(n, c, p) == To(n, p) = {}

(* num_established == 0 at the end of connection c.                        *)
Last(n, c, p) == To(n, p) = {<<c, p>>}

(* ConnectionClosed at n.  With the last connection to the peer goes what  *)
(* n knows of it, except the deny table.                                   *)
CloseAt(n, c, p) ==
  /\ open' = [open EXCEPT ![n] = @ \ {<<c, p>>}]
  /\ net' = net \ Lost(n, {c})
  /\ closing' = [closing EXCEPT ![n] = @ \ {<<c, p>>}]
  /\ IF Last(n, c, p)
       THEN /\ greeted' = [greeted EXCEPT ![n] = @ \ {p}]
            /\ authed'  = [authed EXCEPT ![n] = @ \ {p}]
            /\ unheard' = [unheard EXCEPT ![n] = @ \ {p}]
       ELSE UNCHANGED <<greeted, authed, unheard>>
  /\ UNCHANGED <<storeVars, disk, running, mem, known, deny>>

(* n disconnects, or learns that the other end is gone.                    *)
Close(n, c, p) ==
  /\ <<c, p>> \in open[n]
  /\ <<c, p>> \in closing[n] \/ <<c, n>> \notin open[p]
  /\ CloseAt(n, c, p)
  /\ UNCHANGED faults

(* The connection fails; this end notices first.                           *)
Fail(n, c, p) ==
  /\ faults < MaxFaults
  /\ <<c, p>> \in open[n]
  /\ Overlaps \/ Last(n, c, p)
  /\ CloseAt(n, c, p)
  /\ faults' = faults + 1

(* stop, or the process dies: only what is on disk stays.                  *)
Stop(n) ==
  /\ faults < MaxFaults
  /\ n \in running
  /\ faults' = faults + 1
  /\ running' = running \ {n}
  /\ mem' = [mem EXCEPT ![n] = NotEnrolled]
  /\ net' = net \ Lost(n, Conn)
  /\ open' = [open EXCEPT ![n] = {}]
  /\ greeted' = [greeted EXCEPT ![n] = {}]
  /\ authed' = [authed EXCEPT ![n] = {}]
  /\ deny' = [deny EXCEPT ![n] = {}]
  /\ closing' = [closing EXCEPT ![n] = {}]
  /\ unheard' = [unheard EXCEPT ![n] = {}]
  /\ UNCHANGED <<storeVars, disk, known>>

-----------------------------------------------------------------------------
(* The handshake                                                           *)

NewList(m) == MergeCrl(mem[m.to].list, m.list)

(* Bug: the certificate is judged by the list held before. *)
AcceptsMutant(m) == Verifies(m.cert, mem[m.to].list)

(* accept_peer adopts a newer list before it judges the certificate.       *)
Accepts(m) == Verifies(m.cert, NewList(m))

(* accept_peer at m.to.  A list that was adopted is saved.  record_peer    *)
(* keeps the certificate; readonly_origins follows its role, now and when  *)
(* the process starts again.                                               *)
AcceptPeer(m) ==
  /\ mem' = [mem EXCEPT ![m.to].list = NewList(m)]
  /\ disk' = IF NewList(m) # mem[m.to].list /\ m.to # Seed
               THEN [disk EXCEPT ![m.to] = mem'[m.to]]
               ELSE disk
  /\ IF Accepts(m)
       THEN /\ authed' = [authed EXCEPT ![m.to] = @ \cup {m.from}]
            /\ known' = [known EXCEPT ![m.to][m.from] = m.cert.serial]
       ELSE UNCHANGED <<authed, known>>

Arrived(m) == m.flushed /\ <<m.conn, m.from>> \in open[m.to]

Disconnect(n, p) == closing' = [closing EXCEPT ![n] = @ \cup To(n, p)]

(* on_request, Hello: admit the peer and introduce ourselves, or refuse.   *)
OnHello(m) ==
  /\ m.type = "Hello" /\ Arrived(m)
  /\ AcceptPeer(m)
  /\ IF Accepts(m)
       THEN /\ net' = (net \ {m}) \cup
                 {[type |-> "Reply", conn |-> m.conn, from |-> m.to, to |-> m.from,
                   flushed |-> FALSE, cert |-> mem[m.to].cert, list |-> NewList(m)]}
            /\ UNCHANGED deny
       ELSE /\ net' = (net \ {m}) \cup
                 {[type |-> "Denied", conn |-> m.conn, from |-> m.to, to |-> m.from,
                   flushed |-> FALSE]}
            /\ deny' = [deny EXCEPT ![m.to] = @ \cup {m.from}]
  /\ UNCHANGED <<storeVars, running, open, greeted, closing, unheard, faults>>

Undeny(n, p) == deny' = [deny EXCEPT ![n] = @ \ {p}]

(* ResponseSent: "a refusal has now reached the wire".  The deny table is  *)
(* keyed by peer, so any response to a denied peer has this effect.  What  *)
(* an answer does on arrival is not the business of this module.           *)
ResponseSent(m) ==
  /\ ~m.flushed
  /\ net' = (net \ {m}) \cup
       IF <<m.conn, m.from>> \in open[m.to] /\ m.type # "Answer"
         THEN {[m EXCEPT !.flushed = TRUE]} ELSE {}
  /\ IF m.to \in deny[m.from] THEN Disconnect(m.from, m.to) ELSE UNCHANGED closing
  /\ Undeny(m.from, m.to)
  /\ UNCHANGED <<storeVars, disk, running, mem, open, greeted, authed, known, unheard, faults>>

(* on_response, Hello.                                                     *)
OnReply(m) ==
  /\ m.type = "Reply" /\ Arrived(m)
  /\ AcceptPeer(m)
  /\ IF Accepts(m) THEN UNCHANGED closing ELSE Disconnect(m.to, m.from)
  /\ net' = net \ {m}
  /\ UNCHANGED <<storeVars, running, open, greeted, deny, unheard, faults>>

(* on_response, Denied.                                                    *)
OnDenied(m) ==
  /\ m.type = "Denied" /\ Arrived(m)
  /\ Disconnect(m.to, m.from)
  /\ net' = net \ {m}
  /\ UNCHANGED <<storeVars, disk, running, mem, open, greeted, authed, known, deny, unheard,
                 faults>>

(* request_sync and Req::Push, to a peer n has admitted: after the peer's  *)
(* reply, when a timer strikes, when there are changes to share.  What is  *)
(* asked and answered is the business of AntiEntropy and LivePush.  The    *)
(* seed server's node takes part when it keeps a replica.  A node admits a *)
(* peer before the peer has heard from it, so that this may come too       *)
(* early.  Bound: one such exchange at a time between two nodes.           *)
Ask(n, p) ==
  /\ p \in authed[n]
  /\ IF n \in authed[p] THEN UNCHANGED faults
                        ELSE faults < MaxFaults /\ faults' = faults + 1
  /\ \A m \in net : Greets(m) \/ {m.from, m.to} # {n, p}
  /\ \E l \in To(n, p) :
       /\ <<l[1], n>> \in open[p]
       /\ net' = net \cup {[type |-> "Ask", conn |-> l[1], from |-> n, to |-> p,
                            flushed |-> TRUE]}
  /\ UNCHANGED <<storeVars, disk, running, mem, open, greeted, authed, known, deny,
                 closing, unheard>>

Served(m) == m.from \in authed[m.to]

(* on_request, Sync or Push: "say hello first" goes back to a peer that is *)
(* not admitted, without an entry in the deny table.                       *)
OnAsk(m) ==
  /\ m.type = "Ask" /\ Arrived(m)
  /\ net' = (net \ {m}) \cup
       {[type |-> IF Served(m) THEN "Answer" ELSE "Denied", conn |-> m.conn,
         from |-> m.to, to |-> m.from, flushed |-> FALSE]}
  /\ UNCHANGED <<storeVars, disk, running, mem, open, greeted, authed, known, deny,
                 closing, unheard, faults>>

(* The end of an exchange that opened it: the greeting's, or the reply's    *)
(* receiver.                                                               *)
Opener(m) == IF m.type = "Reply" THEN m.to ELSE m.from
Answerer(m) == IF m.type = "Reply" THEN m.from ELSE m.to

(* OutboundFailure and InboundFailure, after the request timeout of        *)
(* behaviour.rs: a request, or the response to it, is given up.  Both ends *)
(* log it and change nothing, the connection stays, and so does the peer's *)
(* entry in greeted: nobody introduces itself again.                       *)
TimeOut(m) ==
  /\ faults < MaxFaults
  /\ faults' = faults + 1
  /\ net' = net \ {m}
  /\ unheard' = IF Greets(m) THEN [unheard EXCEPT ![Opener(m)] = @ \cup {Answerer(m)}]
                             ELSE unheard
  /\ UNCHANGED <<storeVars, disk, running, mem, open, greeted, authed, known, deny, closing>>

-----------------------------------------------------------------------------
(* Who waits for the list.  Reading it for nobody would change nothing.    *)
ListWanted == Seed \notin running \/ \E d \in Phones : enrolling[d].step = "redeemed"

StoreStep ==
  /\ \/ CreateInvite
     \/ \E d \in Phones \ running, i \in DOMAIN expires : Redeem(d, i)
     \/ \E d \in Phones : Answer(d) \/ LoseAnswer(d)
     \/ \E d \in Device : Revoke(d)
     \/ Publish
     \/ PassTime
     \/ ListWanted /\ ReadNames
     \/ ServeCrl
  /\ UNCHANGED <<disk, running, mem, open, greeted, authed, known, deny, closing, net, unheard,
                 faults>>

Handle(m) ==
  \/ OnHello(m) \/ ResponseSent(m) \/ OnReply(m) \/ OnDenied(m)
  \/ OnAsk(m)

Message(type, n, p) == \E m \in net :
  m.type = type /\ m.from = n /\ m.to = p /\ Handle(m)

Init ==
  /\ StoreInit
  /\ disk = [d \in Phones |-> NotEnrolled]
  /\ running = {}
  /\ mem = [n \in Node |-> NotEnrolled]
  /\ open = [n \in Node |-> {}]
  /\ greeted = [n \in Node |-> {}]
  /\ authed = [n \in Node |-> {}]
  /\ known = [n \in Node |-> [p \in Node |-> Nobody]]
  /\ deny = [n \in Node |-> {}]
  /\ closing = [n \in Node |-> {}]
  /\ net = {}
  /\ unheard = [n \in Node |-> {}]
  /\ faults = 0

Next ==
  \/ StoreStep
  \/ \E d \in Phones : CompleteEnrolment(d) \/ StartPhone(d)
  \/ StartSeed
  \/ \E n \in Node : Stop(n)
  \/ \E m \in net : Handle(m) \/ TimeOut(m)
  \/ \E n, p \in Node : Ask(n, p)
  \/ \E n, p \in Node : Connect(n, p)
  \/ \E n, p \in Node, c \in Conn : Close(n, c, p) \/ Fail(n, c, p)

Spec == Init /\ [][Next]_vars

(* The node's loop handles what arrives and is never held up by a peer (no *)
(* more is needed than that greetings are handled); the transport closes   *)
(* what it was told to close and notices a dead connection; discovery      *)
(* dials peers there is no connection to.  Nothing is assumed of people,   *)
(* processes or the clock.                                                 *)
Fairness ==
  \A n \in Node : \A p \in Node \ {n} :
    /\ \A type \in {"Hello", "Reply"} : WF_vars(Message(type, n, p))
    /\ WF_vars(\E c \in Conn : Close(n, c, p))
    /\ WF_vars(To(n, p) = {} /\ Connect(n, p))

FairSpec == Spec /\ Fairness

-----------------------------------------------------------------------------
TypeOK ==
  /\ StoreTypeOK
  /\ disk \in [Phones -> Enrolment]
  /\ running \subseteq Node
  /\ mem \in [Node -> Enrolment]
  /\ open \in [Node -> SUBSET (Conn \X Node)]
  /\ greeted \in [Node -> SUBSET Node]
  /\ authed \in [Node -> SUBSET Node]
  /\ known \in [Node -> [Node -> Serial \cup {Nobody}]]
  /\ deny \in [Node -> SUBSET Node]
  /\ closing \in [Node -> SUBSET (Conn \X Node)]
  /\ net \subseteq (Greetings \cup Others)
  /\ unheard \in [Node -> SUBSET Node]
  /\ faults \in 0 .. MaxFaults

(* Serials that no row names any more, because their device joined again.  *)
Superseded == (1 .. nextSerial - 1) \ {device[d].serial : d \in Device}

Lists == {Crl} \cup {ListOf(names) : names \in {reading} \ {NotReading}}
  \cup {disk[d].list : d \in Phones} \cup {mem[n].list : n \in Node}
  \cup {m.list : m \in {x \in net : Greets(x)}}
  \cup {enrolling[d].list : d \in {e \in Phones : enrolling[e].step = "answered"}}

(* "Newest updated_at_ms wins": of any two lists that exist anywhere, the  *)
(* one with the later stamp names everything the other does, except        *)
(* certificates since replaced.  It is what makes it safe to replace one   *)
(* list by another instead of merging them, although revoking a device and *)
(* stamping the list are two steps, and so are reading the names and the   *)
(* stamp of a list.  Stamps are times of the server's wall clock: it holds *)
(* as long as that is not set back.                                        *)
NewerNamesMore == \A k, l \in Lists :
  k.stamp < l.stamp => k.revoked \subseteq l.revoked \cup Superseded

(* A device that was told of a revocation does not forget it: not by       *)
(* adopting lists, not by stopping, not by joining again.  merge_crl:      *)
(* "Adopts a newer revocation list, ignoring stale or unsigned ones."      *)
RevocationsStick ==
  [][\A d \in Phones : disk[d].list.revoked \subseteq disk'[d].list.revoked \cup Superseded']_vars

(* accept_peer: "a peer that hands us fresh revocation news cannot use it  *)
(* to smuggle itself in".  Nobody is admitted, by either greeting, whose   *)
(* certificate is named by the list the node holds after that step.        *)
NoneAdmittedListed ==
  [][\A n, p \in Node :
       (p \in authed'[n] \ authed[n] \/ known'[n][p] # known[n][p])
         => known'[n][p] \notin mem'[n].list.revoked]_vars

(* What a node knows of a peer does not outlive the connection: the peer   *)
(* would be taken for greeted and never be greeted again.                  *)
NoPeerWithoutConnection == \A n \in Node :
  /\ greeted[n] \subseteq {l[2] : l \in open[n]}
  /\ authed[n] \subseteq greeted[n]

Fit(n, p) ==
  /\ {n, p} \subseteq running
  /\ Verifies(mem[n].cert, mem[n].list) /\ Verifies(mem[n].cert, mem[p].list)

(* Two nodes that stay up with valid certificates end up admitting each    *)
(* other, whatever refusals, half-open connections, crossing greetings,    *)
(* requests that come too early and time-outs went before, unless an       *)
(* introduction on the connections they have now has timed out.            *)
Admission == \A n \in Phones : \A p \in Node \ {n} :
  <>[](Fit(n, p) /\ Fit(p, n) /\ p \notin unheard[n] /\ n \notin unheard[p])
    => <>[](p \in authed[n] /\ n \in authed[p])

(* node.rs: "Unauthenticated peers are disconnected."  A node does not     *)
(* stay connected for ever to a peer it has not admitted.                  *)
StrangersLeave == \A n \in Node : \A p \in Node \ {n} :
  []<>(To(n, p) = {} \/ p \in authed[n])

(* main.rs of the seed server: "devices pick it up from the server or from *)
(* each other."  A phone that stays connected to the server's node ends up *)
(* holding what revoke has published.                                      *)
RevocationsSpread == \A d \in Phones :
  <>[](publishing = 0 /\ Seed \in authed[d] /\ d \in authed[Seed])
    => []<>(Revoked \subseteq mem[d].list.revoked \cup Superseded)
=============================================================================

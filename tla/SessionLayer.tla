---------------------------- MODULE SessionLayer ----------------------------
(***************************************************************************)
(* The HSH1 session layer (transport.go, crypto.go): Iran starts the       *)
(* handshakes, Kharej answers them, and both seal and open packets under   *)
(* the session they hold at the moment.  The goroutines of the two         *)
(* processes run concurrently; a handler is cut into steps where the code  *)
(* gives up a lock or reads shared state that it uses later:               *)
(*                                                                         *)
(*   handleHello      look up or record the hello | store the session, ack *)
(*   handleHelloAck   take the pending nonce | derive and store            *)
(*   handleEncrypted  load the session and open | pass the window, deliver *)
(*   senders          load the session | take a counter, seal, write       *)
(*   clientSupervisor check | hello | poll ... | tick | keepalive          *)
(*   serverSupervisor tick | expire or keepalive                           *)
(*                                                                         *)
(* Time is abstracted to what the code asks of it: a session is idle       *)
(* beyond the session timeout or not, old enough for a rekey or not.  The  *)
(* network never forgets a packet and delivers it any number of times, in  *)
(* any order, or never, which covers UDP as well as the stream carriers.   *)
(***************************************************************************)
EXTENDS ReplayOps, Sequences, FiniteSets

CONSTANTS
  Workers,        \* receive goroutines of each process (recvLoop)
  TunQueues,      \* TUN queues of each process (tunSendLoop)
  Responders,     \* the goroutine of runDirectProbeResponder on Iran, if any
  Addrs,          \* addresses from which Kharej may see the client's packets
  ServerAddr,     \* the address of Kharej
  MaxHandshakes,  \* bound: client nonces ever drawn
  MaxSessions,    \* bound: session objects ever derived by a process
  MaxPackets,     \* bound: packets ever sealed
  MaxKeepalives,  \* bound: keepalives among them when a tick comes
  MaxCrashes      \* bound: process restarts

ASSUME SessionAssumption ==
  /\ MaxHandshakes \in Nat
  /\ MaxSessions \in Nat
  /\ MaxPackets \in Nat
  /\ MaxKeepalives \in Nat
  /\ MaxCrashes \in Nat
  /\ MaxHandshakes <= MaxSessions
  /\ Addrs # {}
  /\ ServerAddr \notin Addrs

Iran   == "iran"
Kharej == "kharej"
Nodes  == {Iran, Kharej}
Peer(n) == IF n = Iran THEN Kharej ELSE Iran

Nil == 0
Ids == 1 .. MaxSessions
Senders == TunQueues \cup Responders

VARIABLES
  session,    \* tunnelState.session: the object a process uses now, or Nil
  obj,        \* the session objects a process has derived, by identity
  made,       \* how many of them there are
  idle,       \* processes whose session was not touched for the session timeout
  aged,       \* processes whose session is older than the rekey period (Iran)
  handshakes, \* client nonces drawn so far
  pending,    \* Iran's tunnelState.pending while pendingSet, else 0
  hellos,     \* tunnelState.hellos of Kharej, oldest first
  sup,        \* the supervisor goroutine of each process
  rx,         \* the receive goroutines of each process
  tx,         \* the sending goroutines: the session each has loaded, or Nil
  helloNet, ackNet, packetNet,  \* everything ever written to the carrier
  addr,       \* the client address as Kharej sees it
  packets,    \* packets sealed so far
  delivered,  \* history: times each packet reached the TUN or the prober
  crashes

heldVars  == <<session, idle, aged>>
heapVars  == <<obj, made>>
shakeVars == <<handshakes, pending, hellos>>
netVars   == <<helloNet, ackNet, packetNet>>
countVars == <<packets, delivered>>
pathVars  == <<addr, crashes>>
vars == <<heldVars, heapVars, shakeVars, netVars, countVars, pathVars, sup, rx, tx>>

----------------------------------------------------------------------------
PacketTypes == {"data", "keepalive", "probeAck"}
Nonces      == 1 .. MaxHandshakes   \* cn; sn is the identity of Kharej's object
Endpoints   == Addrs \cup {ServerAddr}
Keys        == [label : {"c2s", "s2c"}, cn : Nonces, sn : Ids]

Hello  == [cn : Nonces, src : Addrs]
Ack    == [cn : Nonces, sn : Ids, dst : Addrs]
Packet == [type : PacketTypes, key : Keys, ctr : Nat \ {0}, pkt : 1 .. MaxPackets,
           src : Endpoints, dst : Endpoints]
None   == [type |-> "none"]

Session == [cn : Nonces \cup {0}, sn : Ids \cup {0}, peer : Endpoints, tx : Nat,
            replay : ReplayWindowType]
Blank   == [cn |-> 0, sn |-> 0, peer |-> ServerAddr, tx |-> 0,
            replay |-> NewWindow]

SupState == [pc : {"check", "hello", "poll", "tick", "keepalive", "expire"},
             ref : Ids \cup {Nil}, cn : Nonces \cup {0}, base : 0 .. MaxSessions]
RxState  == [pc : {"read", "store", "derive", "accept"}, ref : Ids \cup {Nil},
             arg : Ack \cup Packet \cup {None}]

SupAt(pc, ref) == [pc |-> pc, ref |-> ref, cn |-> 0, base |-> 0]
FirstSup(n) == SupAt(IF n = Iran THEN "check" ELSE "tick", Nil)
Reading == [pc |-> "read", ref |-> Nil, arg |-> None]

MyAddr(n) == IF n = Iran THEN addr ELSE ServerAddr

\* deriveSession: the initiator sends with c2s, the other end with s2c.
TxKey(n, s) == [label |-> IF n = Iran THEN "c2s" ELSE "s2c", cn |-> s.cn, sn |-> s.sn]
RxKey(n, s) == TxKey(Peer(n), s)

\* deriveSession: zero counters, an empty window, just seen.
NewSession(cn, sn, peer) ==
  [cn |-> cn, sn |-> sn, peer |-> peer, tx |-> 0, replay |-> NewWindow]

TypeOK ==
  /\ session \in [Nodes -> Ids \cup {Nil}]
  /\ obj \in [Nodes -> [Ids -> Session]]
  /\ made \in [Nodes -> 0 .. MaxSessions]
  /\ idle \subseteq Nodes
  /\ aged \subseteq {Iran}
  /\ handshakes \in 0 .. MaxHandshakes
  /\ pending \in Nonces \cup {0}
  /\ hellos \in Seq([cn : Nonces, sn : Ids])
  /\ sup \in [Nodes -> SupState]
  /\ rx \in [Nodes -> [Workers -> RxState]]
  /\ tx \in [Nodes -> [Senders -> Ids \cup {Nil}]]
  /\ helloNet \subseteq Hello
  /\ ackNet \subseteq Ack
  /\ packetNet \subseteq Packet
  /\ addr \in Addrs
  /\ packets \in 0 .. MaxPackets
  /\ delivered \in [Nodes -> [1 .. MaxPackets -> Nat]]
  /\ crashes \in 0 .. MaxCrashes

Init ==
  /\ session = [n \in Nodes |-> Nil]
  /\ obj = [n \in Nodes |-> [i \in Ids |-> Blank]]
  /\ made = [n \in Nodes |-> 0]
  /\ idle = {}
  /\ aged = {}
  /\ handshakes = 0
  /\ pending = 0
  /\ hellos = <<>>
  /\ sup = [n \in Nodes |-> FirstSup(n)]
  /\ rx = [n \in Nodes |-> [w \in Workers |-> Reading]]
  /\ tx = [n \in Nodes |-> [g \in Senders |-> Nil]]
  /\ helloNet = {}
  /\ ackNet = {}
  /\ packetNet = {}
  /\ addr \in Addrs
  /\ packets = 0
  /\ delivered = [n \in Nodes |-> [k \in 1 .. MaxPackets |-> 0]]
  /\ crashes = 0

----------------------------------------------------------------------------
(* Steps shared by several goroutines.                                     *)

\* storeSession, and what becomes of the ages: a new session was just touched.
Publish(n, i) ==
  /\ session' = [session EXCEPT ![n] = i]
  /\ idle' = idle \ {n}
  /\ aged' = aged \ {n}

\* deriveSession allocates the next object of process n.
Derive(n, cn, sn, peer) ==
  /\ made[n] < MaxSessions
  /\ made' = [made EXCEPT ![n] = @ + 1]
  /\ obj' = [obj EXCEPT ![n][made[n] + 1] = NewSession(cn, sn, peer)]

\* Mutant: the packet counter is read and not advanced.
SealKeepsCounter(n, i, type) ==
  /\ packets < MaxPackets
  /\ packets' = packets + 1
  /\ packetNet' = packetNet \cup
       {[type |-> type, key |-> TxKey(n, obj[n][i]), ctr |-> obj[n][i].tx + 1,
         pkt |-> packets + 1, src |-> MyAddr(n), dst |-> obj[n][i].peer]}
  /\ UNCHANGED obj

\* sendEncrypted: take the next counter of the session, seal, write to its
\* peer.  A write that fails is a packet the network never delivers.
Seal(n, i, type) ==
  /\ packets < MaxPackets
  /\ packets' = packets + 1
  /\ obj' = [obj EXCEPT ![n][i].tx = @ + 1]
  /\ packetNet' = packetNet \cup
       {[type |-> type, key |-> TxKey(n, obj[n][i]), ctr |-> obj[n][i].tx + 1,
         pkt |-> packets + 1, src |-> MyAddr(n), dst |-> obj[n][i].peer]}

----------------------------------------------------------------------------
(* clientSupervisor and handshakeClient.                                   *)

\* No session, or one that is idle or due for a rekey.
NeedHandshake == session[Iran] # Nil => Iran \in idle \cup aged

\* The session is in order: on to the keepalive tick.
ClientCheckSession ==
  /\ sup[Iran].pc = "check"
  /\ ~NeedHandshake
  /\ sup' = [sup EXCEPT ![Iran] = SupAt("tick", Nil)]
  /\ UNCHANGED <<heldVars, heapVars, shakeVars, netVars, countVars, pathVars, rx,
                 tx>>

\* base remembers which sessions are older than this handshake.
ClientNeedsHandshake ==
  /\ sup[Iran].pc = "check"
  /\ NeedHandshake
  /\ sup' = [sup EXCEPT ![Iran] = [pc |-> "hello", ref |-> Nil, cn |-> 0, base |-> made[Iran]]]
  /\ UNCHANGED <<heldVars, heapVars, shakeVars, netVars, countVars, pathVars, rx,
                 tx>>

\* No client nonce: rand.Read failed, or the bound on handshakes is reached.
HandshakeNoNonce ==
  /\ sup[Iran].pc = "hello"
  /\ sup' = [sup EXCEPT ![Iran] = SupAt("tick", Nil)]
  /\ UNCHANGED <<heldVars, heapVars, shakeVars, netVars, countVars, pathVars, rx,
                 tx>>

\* Draw cn, make it the pending one, write the hello, note the start time.  A
\* session stored since the check is less than a second old at that time, or
\* the write took longer than that: it counts as new, or it does not.
HandshakeHello ==
  /\ sup[Iran].pc = "hello"
  /\ handshakes < MaxHandshakes
  /\ handshakes' = handshakes + 1
  /\ pending' = handshakes + 1
  /\ helloNet' = helloNet \cup {[cn |-> handshakes + 1, src |-> addr]}
  /\ \E b \in {sup[Iran].base, made[Iran]} :
       sup' = [sup EXCEPT ![Iran] = [pc |-> "poll", ref |-> Nil, cn |-> handshakes + 1, base |-> b]]
  /\ UNCHANGED <<heldVars, heapVars, hellos, ackNet, packetNet, countVars, pathVars,
                 rx, tx>>

\* The retry ticker: the same hello again, from the address of the moment.
HandshakeRetry ==
  /\ sup[Iran].pc = "poll"
  /\ helloNet' = helloNet \cup {[cn |-> sup[Iran].cn, src |-> addr]}
  /\ UNCHANGED <<heldVars, heapVars, shakeVars, ackNet, packetNet, countVars,
                 pathVars, sup, rx, tx>>

\* The deferred function of handshakeClient.
WithdrawPending ==
  pending' = IF pending = sup[Iran].cn THEN 0 ELSE pending

\* The poll finds a session that is new since the start: success.
HandshakeDone ==
  /\ sup[Iran].pc = "poll"
  /\ session[Iran] # Nil
  /\ session[Iran] > sup[Iran].base
  /\ WithdrawPending
  /\ sup' = [sup EXCEPT ![Iran] = SupAt("tick", Nil)]
  /\ UNCHANGED <<heldVars, heapVars, handshakes, hellos, netVars, countVars,
                 pathVars, rx, tx>>

\* The six seconds are over, or a write failed.
HandshakeFails ==
  /\ sup[Iran].pc = "poll"
  /\ WithdrawPending
  /\ sup' = [sup EXCEPT ![Iran] = SupAt("tick", Nil)]
  /\ UNCHANGED <<heldVars, heapVars, handshakes, hellos, netVars, countVars,
                 pathVars, rx, tx>>

\* The bounds leave room for another keepalive.
KeepalivesLeft ==
  /\ packets < MaxPackets
  /\ Cardinality({m \in packetNet : m.type = "keepalive"}) < MaxKeepalives

\* The keepalive ticker fires with no session to keep alive, or beyond the
\* bound on keepalives.
ClientTickQuiet ==
  /\ sup[Iran].pc = "tick"
  /\ session[Iran] = Nil \/ ~KeepalivesLeft
  /\ sup' = [sup EXCEPT ![Iran] = SupAt("check", Nil)]
  /\ UNCHANGED <<heldVars, heapVars, shakeVars, netVars, countVars, pathVars, rx,
                 tx>>

\* It fires with a session: the supervisor holds that session from here on.
ClientTick ==
  /\ sup[Iran].pc = "tick"
  /\ session[Iran] # Nil
  /\ KeepalivesLeft
  /\ sup' = [sup EXCEPT ![Iran] = SupAt("keepalive", session[Iran])]
  /\ UNCHANGED <<heldVars, heapVars, shakeVars, netVars, countVars, pathVars, rx,
                 tx>>

----------------------------------------------------------------------------
(* serverSupervisor.                                                       *)

\* The tick finds a session that was seen recently.
ServerTickAlive ==
  /\ sup[Kharej].pc = "tick"
  /\ session[Kharej] # Nil
  /\ Kharej \notin idle
  /\ KeepalivesLeft
  /\ sup' = [sup EXCEPT ![Kharej] = SupAt("keepalive", session[Kharej])]
  /\ UNCHANGED <<heldVars, heapVars, shakeVars, netVars, countVars, pathVars, rx,
                 tx>>

\* The tick finds a session that is idle beyond the timeout.
ServerTickIdle ==
  /\ sup[Kharej].pc = "tick"
  /\ session[Kharej] # Nil
  /\ Kharej \in idle
  /\ sup' = [sup EXCEPT ![Kharej] = SupAt("expire", session[Kharej])]
  /\ UNCHANGED <<heldVars, heapVars, shakeVars, netVars, countVars, pathVars, rx,
                 tx>>

\* Mutant: the session is cleared whichever it is by now.
ClearAnyway(i) == Publish(Kharej, Nil)

\* clearIf: only if it is still the session that was found idle.
ClearIf(i) ==
  IF session[Kharej] = i THEN Publish(Kharej, Nil) ELSE UNCHANGED heldVars

ServerExpire ==
  /\ sup[Kharej].pc = "expire"
  /\ ClearIf(sup[Kharej].ref)
  /\ sup' = [sup EXCEPT ![Kharej] = SupAt("tick", Nil)]
  /\ UNCHANGED <<heapVars, shakeVars, netVars, countVars, pathVars, rx, tx>>

\* Both supervisors: the keepalive on the session loaded at the tick.
SendKeepalive(n) ==
  /\ sup[n].pc = "keepalive"
  /\ Seal(n, sup[n].ref, "keepalive")
  /\ sup' = [sup EXCEPT ![n] = FirstSup(n)]
  /\ UNCHANGED <<heldVars, made, shakeVars, helloNet, ackNet, delivered, pathVars,
                 rx, tx>>

\* The bound on packets was reached since the tick: the loop goes on.
KeepaliveBeyondBound(n) ==
  /\ sup[n].pc = "keepalive"
  /\ packets = MaxPackets
  /\ sup' = [sup EXCEPT ![n] = FirstSup(n)]
  /\ UNCHANGED <<heldVars, heapVars, shakeVars, netVars, countVars, pathVars, rx,
                 tx>>

----------------------------------------------------------------------------
(* recvLoop: handleHello on Kharej.  A hello that fails the MAC or the     *)
(* clock check changes nothing and is not a step.                          *)

\* The records whose two minutes are over are purged first; they are the k
\* oldest ones.
Live(k) == SubSeq(hellos, k + 1, Len(hellos))
Known(s, cn) == \E j \in 1 .. Len(s) : s[j].cn = cn

\* Mutant: a repeated hello is answered with a nonce of its own.
HelloKnownNewNonce(w, m, k) ==
  /\ rx[Kharej][w].pc = "read"
  /\ \E j \in 1 .. Len(Live(k)) :
       /\ Live(k)[j].cn = m.cn
       /\ \E sn \in Ids : ackNet' = ackNet \cup {[cn |-> m.cn, sn |-> sn, dst |-> m.src]}
  /\ hellos' = Live(k)
  /\ UNCHANGED <<heldVars, heapVars, handshakes, pending, helloNet, packetNet,
                 countVars, pathVars, sup, rx, tx>>

\* Mutant: a repeated hello publishes its session again.
HelloKnownStoresAgain(w, m, k) ==
  /\ rx[Kharej][w].pc = "read"
  /\ \E j \in 1 .. Len(Live(k)) :
       /\ Live(k)[j].cn = m.cn
       /\ rx' = [rx EXCEPT ![Kharej][w] = [pc |-> "store", ref |-> Live(k)[j].sn, arg |-> None]]
  /\ hellos' = Live(k)
  /\ UNCHANGED <<heldVars, heapVars, handshakes, pending, netVars, countVars,
                 pathVars, sup, tx>>

\* The hello is on record: the recorded ack again, to whoever asked.
HelloKnown(w, m, k) ==
  /\ rx[Kharej][w].pc = "read"
  /\ \E j \in 1 .. Len(Live(k)) :
       /\ Live(k)[j].cn = m.cn
       /\ ackNet' = ackNet \cup {[cn |-> m.cn, sn |-> Live(k)[j].sn, dst |-> m.src]}
  /\ hellos' = Live(k)
  /\ UNCHANGED <<heldVars, heapVars, handshakes, pending, helloNet, packetNet,
                 countVars, pathVars, sup, rx, tx>>

\* Mutant: the server nonce is a constant.
HelloFreshSameNonce(w, m, k) ==
  /\ rx[Kharej][w].pc = "read"
  /\ ~Known(Live(k), m.cn)
  /\ Derive(Kharej, m.cn, 1, m.src)
  /\ hellos' = Append(Live(k), [cn |-> m.cn, sn |-> 1])
  /\ rx' = [rx EXCEPT ![Kharej][w] = [pc |-> "store", ref |-> made[Kharej] + 1, arg |-> None]]
  /\ UNCHANGED <<heldVars, handshakes, pending, netVars, countVars, pathVars, sup,
                 tx>>

\* A new hello: derive the session and record the ack, all under helloMu.
HelloFresh(w, m, k) ==
  /\ rx[Kharej][w].pc = "read"
  /\ ~Known(Live(k), m.cn)
  /\ Derive(Kharej, m.cn, made[Kharej] + 1, m.src)
  /\ hellos' = Append(Live(k), [cn |-> m.cn, sn |-> made[Kharej] + 1])
  /\ rx' = [rx EXCEPT ![Kharej][w] = [pc |-> "store", ref |-> made[Kharej] + 1, arg |-> None]]
  /\ UNCHANGED <<heldVars, handshakes, pending, netVars, countVars, pathVars, sup,
                 tx>>

\* helloMu is free again: publish the session, write the ack.
StoreSession(w) ==
  /\ rx[Kharej][w].pc = "store"
  /\ LET i == rx[Kharej][w].ref
     IN  /\ Publish(Kharej, i)
         /\ ackNet' = ackNet \cup {[cn |-> obj[Kharej][i].cn, sn |-> obj[Kharej][i].sn,
                                    dst |-> obj[Kharej][i].peer]}
  /\ rx' = [rx EXCEPT ![Kharej][w] = Reading]
  /\ UNCHANGED <<heapVars, shakeVars, helloNet, packetNet, countVars, pathVars, sup,
                 tx>>

----------------------------------------------------------------------------
(* recvLoop: handleHelloAck on Iran.                                       *)

\* Mutant: the nonce stays pending after its ack was taken.
TakeAckKeepsPending(w, m) ==
  /\ rx[Iran][w].pc = "read"
  /\ m.dst = addr
  /\ pending = m.cn
  /\ rx' = [rx EXCEPT ![Iran][w] = [pc |-> "derive", ref |-> Nil, arg |-> m]]
  /\ UNCHANGED <<heldVars, heapVars, shakeVars, netVars, countVars, pathVars, sup,
                 tx>>

\* The ack is for the pending nonce, which is taken under pendingMu; any
\* other ack is ignored.
TakeAck(w, m) ==
  /\ rx[Iran][w].pc = "read"
  /\ m.dst = addr
  /\ pending = m.cn
  /\ pending' = 0
  /\ rx' = [rx EXCEPT ![Iran][w] = [pc |-> "derive", ref |-> Nil, arg |-> m]]
  /\ UNCHANGED <<heldVars, heapVars, handshakes, hellos, netVars, countVars,
                 pathVars, sup, tx>>

\* pendingMu is free again: derive the session and publish it.
DeriveAndStore(w) ==
  /\ rx[Iran][w].pc = "derive"
  /\ Derive(Iran, rx[Iran][w].arg.cn, rx[Iran][w].arg.sn, ServerAddr)
  /\ Publish(Iran, made[Iran] + 1)
  /\ rx' = [rx EXCEPT ![Iran][w] = Reading]
  /\ UNCHANGED <<shakeVars, netVars, countVars, pathVars, sup, tx>>

----------------------------------------------------------------------------
(* recvLoop: handleEncrypted on both sides.                                *)

\* The session held now is the sender's counterpart and its key opens the
\* packet.  A packet that does not open changes nothing.
Open(n, w, m) ==
  /\ rx[n][w].pc = "read"
  /\ m.dst = MyAddr(n)
  /\ session[n] # Nil
  /\ m.src = obj[n][session[n]].peer
  /\ m.key = RxKey(n, obj[n][session[n]])
  /\ rx' = [rx EXCEPT ![n][w] = [pc |-> "accept", ref |-> session[n], arg |-> m]]
  /\ UNCHANGED <<heldVars, heapVars, shakeVars, netVars, countVars, pathVars, sup,
                 tx>>

\* The payload goes to the TUN, or to notifyProbeAck; a keepalive has none.
HandOver(n, m) ==
  delivered' = IF m.type = "keepalive" THEN delivered
               ELSE [delivered EXCEPT ![n][m.pkt] = @ + 1]

\* touch: it counts for the age of the current session only.
Touch(n, i) == idle' = IF session[n] = i THEN idle \ {n} ELSE idle

\* The window of the session that was loaded accepts the counter.
Deliver(n, w) ==
  /\ rx[n][w].pc = "accept"
  /\ LET i == rx[n][w].ref
         m == rx[n][w].arg
     IN  /\ Admits(obj[n][i].replay, m.ctr)
         /\ obj' = [obj EXCEPT ![n][i].replay = Admit(@, m.ctr)]
         /\ Touch(n, i)
         /\ HandOver(n, m)
  /\ rx' = [rx EXCEPT ![n][w] = Reading]
  /\ UNCHANGED <<session, aged, made, shakeVars, netVars, packets, pathVars, sup,
                 tx>>

ReplayDrop(n, w) ==
  /\ rx[n][w].pc = "accept"
  /\ ~Admits(obj[n][rx[n][w].ref].replay, rx[n][w].arg.ctr)
  /\ rx' = [rx EXCEPT ![n][w] = Reading]
  /\ UNCHANGED <<heldVars, heapVars, shakeVars, netVars, countVars, pathVars, sup,
                 tx>>

----------------------------------------------------------------------------
(* tunSendLoop and runDirectProbeResponder.  With no session the packet is *)
(* dropped, which changes nothing here.                                    *)

LoadSession(n, g) ==
  /\ g \in Responders => n = Iran
  /\ packets < MaxPackets
  /\ tx[n][g] = Nil
  /\ session[n] # Nil
  /\ tx' = [tx EXCEPT ![n][g] = session[n]]
  /\ UNCHANGED <<heldVars, heapVars, shakeVars, netVars, countVars, pathVars, sup,
                 rx>>

SendEncrypted(n, g) ==
  /\ tx[n][g] # Nil
  /\ Seal(n, tx[n][g], IF g \in Responders THEN "probeAck" ELSE "data")
  /\ tx' = [tx EXCEPT ![n][g] = Nil]
  /\ UNCHANGED <<heldVars, made, shakeVars, helloNet, ackNet, delivered, pathVars,
                 sup, rx>>

----------------------------------------------------------------------------
(* Time, the network path and the process manager.                         *)

\* Nothing was received for the session timeout.
GoIdle(n) ==
  /\ session[n] # Nil
  /\ idle' = idle \cup {n}
  /\ UNCHANGED <<session, aged, heapVars, shakeVars, netVars, countVars, pathVars,
                 sup, rx, tx>>

\* The session is older than the rekey period, which only Iran looks at.
GoAged ==
  /\ session[Iran] # Nil
  /\ aged' = aged \cup {Iran}
  /\ UNCHANGED <<session, idle, heapVars, shakeVars, netVars, countVars, pathVars,
                 sup, rx, tx>>

\* The path gives the client another address.
Rebind(a) ==
  /\ a # addr
  /\ addr' = a
  /\ UNCHANGED <<heldVars, heapVars, shakeVars, netVars, countVars, crashes, sup,
                 rx, tx>>

\* systemd restarts the process: everything in memory is gone.
Crash(n) ==
  /\ crashes < MaxCrashes
  /\ crashes' = crashes + 1
  /\ Publish(n, Nil)
  /\ pending' = IF n = Iran THEN 0 ELSE pending
  /\ hellos' = IF n = Kharej THEN <<>> ELSE hellos
  /\ sup' = [sup EXCEPT ![n] = FirstSup(n)]
  /\ rx' = [rx EXCEPT ![n] = [w \in Workers |-> Reading]]
  /\ tx' = [tx EXCEPT ![n] = [g \in Senders |-> Nil]]
  /\ UNCHANGED <<heapVars, handshakes, netVars, countVars, addr>>

----------------------------------------------------------------------------
Supervise ==
  \/ ClientCheckSession \/ ClientNeedsHandshake
  \/ HandshakeNoNonce \/ HandshakeHello \/ HandshakeRetry
  \/ HandshakeDone \/ HandshakeFails
  \/ ClientTickQuiet \/ ClientTick
  \/ ServerTickAlive \/ ServerTickIdle \/ ServerExpire
  \/ \E n \in Nodes : SendKeepalive(n) \/ KeepaliveBeyondBound(n)

Receive ==
  \E w \in Workers :
    \/ \E m \in helloNet, k \in 0 .. Len(hellos) : HelloKnown(w, m, k) \/ HelloFresh(w, m, k)
    \/ StoreSession(w)
    \/ \E m \in ackNet : TakeAck(w, m)
    \/ DeriveAndStore(w)
    \/ \E n \in Nodes :
         \/ \E m \in packetNet : Open(n, w, m)
         \/ Deliver(n, w)
         \/ ReplayDrop(n, w)

Send == \E n \in Nodes, g \in Senders : LoadSession(n, g) \/ SendEncrypted(n, g)

Environment ==
  \/ \E n \in Nodes : GoIdle(n) \/ Crash(n)
  \/ GoAged
  \/ \E a \in Addrs : Rebind(a)

Next == Supervise \/ Receive \/ Send \/ Environment

Spec == Init /\ [][Next]_vars

----------------------------------------------------------------------------
(* Properties.                                                             *)

\* No key ever seals two packets with the same counter, that is with the same
\* GCM nonce: not across goroutines that share a session, not across rekeys,
\* repeated hellos and acks, or restarts of either process (sendEncrypted and
\* deriveSession; SECURITY.md, "atomic per-direction packet counters").
NonceNeverReused ==
  \A p, q \in packetNet : p.key = q.key /\ p.ctr = q.ctr => p = q

\* A packet that was sealed once reaches the TUN of the other side, or its
\* prober, at most once, however often the network repeats it and whichever
\* session is current when the copies arrive (handleEncrypted).
DeliveredAtMostOnce ==
  \A n \in Nodes, k \in 1 .. MaxPackets : delivered[n][k] <= 1

\* A handshake yields at most one session on Iran, even if its ack arrives
\* twice or after the handshake was given up: a second one would start again
\* at counter zero under the same keys (handleHelloAck, handshakeClient).
OneSessionPerHandshake ==
  \A i, j \in 1 .. made[Iran] : obj[Iran][i].cn = obj[Iran][j].cn => i = j

\* The keys of every session of Iran are the keys of a session that Kharej
\* derived for the same hello, also when the ack is a repeated one
\* (handleHello answers a known hello with the recorded ack).
KeysAgreed ==
  \A i \in 1 .. made[Iran] : \E j \in 1 .. made[Kharej] :
    /\ obj[Kharej][j].cn = obj[Iran][i].cn
    /\ obj[Kharej][j].sn = obj[Iran][i].sn

\* Expiry on Kharej takes away only a session that the supervisor found idle,
\* never one that a hello established between its look and clearIf.
ExpiryIsJudged ==
  [][session[Kharej] # Nil /\ session'[Kharej] = Nil /\ crashes' = crashes
     => sup[Kharej].ref = session[Kharej]]_vars

\* With one receive worker a process never goes back to a session that was
\* derived before the one it holds (handleHello derives under helloMu and
\* publishes after it).
NoSessionRegression ==
  [][\A n \in Nodes : session[n] # Nil /\ session'[n] # Nil
       => session'[n] >= session[n]]_vars
============================================================================

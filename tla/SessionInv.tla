----------------------------- MODULE SessionInv -----------------------------
(***************************************************************************)
(* The inductive invariant behind the safety properties of SessionLayer.   *)
(* Each part says how one kind of state is tied to the session objects.    *)
(***************************************************************************)
EXTENDS SessionLayer

Made(n) == 1 .. made[n]
Deriving == {w \in Workers : rx[Iran][w].pc = "derive"}

\* A goroutine only holds sessions that were derived.
RefsOK ==
  \A n \in Nodes :
    /\ session[n] \in Made(n) \cup {Nil}
    /\ sup[n].ref \in Made(n) \cup {Nil}
    /\ sup[n].pc \in {"keepalive", "expire"} => sup[n].ref # Nil
    /\ sup[n].pc = "poll" => sup[n].cn # 0
    /\ \A g \in Senders : tx[n][g] \in Made(n) \cup {Nil}

\* What a receive goroutine carries between its two steps.
WorkersOK ==
  /\ \A w \in Workers :
       /\ rx[Kharej][w].pc = "store" => rx[Kharej][w].ref \in Made(Kharej)
       /\ rx[Iran][w].pc # "store"
       /\ rx[Kharej][w].pc # "derive"
  /\ \A w \in Deriving : rx[Iran][w].arg \in ackNet
  /\ \A n \in Nodes, w \in Workers : rx[n][w].pc = "accept" =>
       /\ rx[n][w].ref \in Made(n)
       /\ rx[n][w].arg \in packetNet
       /\ rx[n][w].arg.key = RxKey(n, obj[n][rx[n][w].ref])

\* Derived sessions have nonces; Kharej never draws a nonce twice.
ObjectsOK ==
  /\ \A n \in Nodes : \A i \in Made(n) : obj[n][i].cn \in Nonces /\ obj[n][i].sn \in Ids
  /\ \A i \in Made(Kharej) : obj[Kharej][i].sn = i /\ obj[Kharej][i].peer \in Addrs

\* A client nonce is pending, or taken by one worker, or used by one session:
\* never two of these.
NonceUsedOnce ==
  /\ pending <= handshakes
  /\ \A i \in Made(Iran) : obj[Iran][i].cn <= handshakes
  /\ \A w \in Deriving : rx[Iran][w].arg.cn <= handshakes
  /\ \A i, j \in Made(Iran) : obj[Iran][i].cn = obj[Iran][j].cn => i = j
  /\ \A w \in Deriving, i \in Made(Iran) : rx[Iran][w].arg.cn # obj[Iran][i].cn
  /\ \A v, w \in Deriving : rx[Iran][v].arg.cn = rx[Iran][w].arg.cn => v = w
  /\ \A i \in Made(Iran) : obj[Iran][i].cn # pending
  /\ \A w \in Deriving : rx[Iran][w].arg.cn # pending

\* (cn, sn) are the nonces of a session that Kharej derived.
ServerHas(cn, sn) == sn \in Made(Kharej) /\ obj[Kharej][sn].cn = cn

\* Whatever carries a pair of nonces got it from Kharej.
PairsAgreed ==
  /\ \A m \in ackNet : ServerHas(m.cn, m.sn)
  /\ \A j \in 1 .. Len(hellos) : ServerHas(hellos[j].cn, hellos[j].sn)
  /\ \A i \in Made(Iran) : ServerHas(obj[Iran][i].cn, obj[Iran][i].sn)

\* Every packet was sealed by one session object under a counter that the
\* object has passed.
PacketsSealed ==
  /\ \A p \in packetNet :
       /\ p.pkt <= packets
       /\ \E n \in Nodes : \E i \in Made(n) :
            p.key = TxKey(n, obj[n][i]) /\ p.ctr <= obj[n][i].tx
  /\ \A p, q \in packetNet : p.pkt = q.pkt => p = q

\* A packet that was handed over is refused by the only session that can open
\* it.
DeliveriesRefused ==
  /\ \A n \in Nodes, k \in 1 .. MaxPackets : k > packets => delivered[n][k] = 0
  /\ \A n \in Nodes, p \in packetNet : delivered[n][p.pkt] # 0 =>
       \E i \in Made(n) : /\ RxKey(n, obj[n][i]) = p.key
                          /\ ~Admits(obj[n][i].replay, p.ctr)

\* A process with a single receive goroutine derives nothing between the two
\* steps of handleHello.
OneReceiver == \A v, w \in Workers : v = w
StoresNewest ==
  \A w \in Workers : rx[Kharej][w].pc = "store" => rx[Kharej][w].ref = made[Kharej]

\* The inductive invariant: the nonce discipline of handshakeClient and
\* handleHelloAck, the agreement through recorded acks, the counters of
\* sendEncrypted and the windows of handleEncrypted, taken together.
SessionInvariant ==
  /\ TypeOK
  /\ RefsOK
  /\ WorkersOK
  /\ ObjectsOK
  /\ NonceUsedOnce
  /\ PairsAgreed
  /\ PacketsSealed
  /\ DeliveriesRefused
  /\ NonceNeverReused
  /\ DeliveredAtMostOnce
============================================================================

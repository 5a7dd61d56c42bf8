--------------------------- MODULE SessionProofs ----------------------------
(***************************************************************************)
(* SessionInvariant is inductive, for any number of receive workers, TUN   *)
(* queues, client addresses, handshakes, packets and restarts, and for any *)
(* width of the replay window.                                             *)
(***************************************************************************)
EXTENDS SessionSteps

USE SessionAssumption DEF Nodes, Iran, Kharej, Nil, Ids

----------------------------------------------------------------------------
(* The receive goroutines.                                                 *)

\* handleHello answers from a record: an ack more, and no session.
LEMMA HelloKnownStep ==
  ASSUME TypeOK, TypeOK', Links, Sealing,
         NEW w \in Workers, NEW m \in helloNet, NEW k \in 0 .. Len(hellos), HelloKnown(w, m, k)
  PROVE  Links' /\ Sealing'
<1>1. /\ UNCHANGED <<session, sup, tx, rx, obj, made, handshakes, pending>>
      /\ UNCHANGED <<packetNet, packets, delivered>>
      /\ hellos' = Live(k)
  BY Zenon DEF HelloKnown, heldVars, heapVars, countVars
<1>2. PICK j \in 1 .. Len(Live(k)) :
        /\ Live(k)[j].cn = m.cn
        /\ ackNet' = ackNet \cup {[cn |-> m.cn, sn |-> Live(k)[j].sn, dst |-> m.src]}
  BY Zenon DEF HelloKnown
<1>3. \A i \in 1 .. Len(Live(k)) : ServerHas(Live(k)[i].cn, Live(k)[i].sn)
  BY ZenonT(30), LiveType DEF Links, PairsAgreed
<1>4. \A i \in Nodes : Made(i)' = Made(i)
  BY Zenon, <1>1 DEF Made
<1>5. Grows /\ RefsStep /\ RxStep
  BY Zenon, <1>1, GrowsQuiet DEF RefsStep, RxStep
<1>6. \A a \in ackNet' : a \in ackNet \/ ServerHas(a.cn, a.sn)'
  BY <1>1, <1>2, <1>3, <1>4 DEF ServerHas
<1>7. \A i \in 1 .. Len(hellos') : ServerHas(hellos[i].cn, hellos[i].sn)'
  BY Zenon, <1>1, <1>3, <1>4 DEF ServerHas
<1>8. PairsAgreed'
  BY Zenon, <1>1, <1>5, <1>6, <1>7, PairsKept DEF Links
<1>9. ackNet \subseteq ackNet' /\ packetNet \subseteq packetNet'
  BY Zenon, <1>1, <1>2
<1>10. RefsOK' /\ WorkersOK'
  BY Zenon, <1>5, <1>9, RefsKept, WorkersKept DEF Links
<1>11. NonceUsedOnce'
  BY Zenon, <1>1, <1>5, NoncesKept DEF Links, Sealing
<1>12. Sealing'
  BY Zenon, <1>1, SealingQuiet
<1>. QED
  BY Zenon, <1>8, <1>10, <1>11, <1>12 DEF Links

\* handleHello derives a session under a server nonce that nobody has used.
LEMMA HelloFreshStep ==
  ASSUME TypeOK, TypeOK', Links, Sealing,
         NEW w \in Workers, NEW m \in helloNet, NEW k \in 0 .. Len(hellos), HelloFresh(w, m, k)
  PROVE  Links' /\ Sealing'
<1>. DEFINE id == made[Kharej] + 1
<1>1. /\ UNCHANGED <<session, sup, tx, handshakes, pending, ackNet>>
      /\ UNCHANGED <<packetNet, packets, delivered>>
      /\ hellos' = Append(Live(k), [cn |-> m.cn, sn |-> id])
      /\ rx' = [rx EXCEPT ![Kharej][w] = [pc |-> "store", ref |-> id, arg |-> None]]
      /\ Derive(Kharej, m.cn, id, m.src)
  BY Zenon DEF HelloFresh, heldVars, netVars, countVars
<1>2. m.cn \in Nonces /\ m.src \in Addrs /\ m.src \in Endpoints
  BY Zenon DEF TypeOK, Hello, Endpoints
<1>3. id \in Ids
  BY SMTT(60), <1>1 DEF Derive, TypeOK
<1>4. /\ made'[Iran] = made[Iran]
      /\ obj'[Kharej][id].cn = m.cn
      /\ Made(Kharej)' = Made(Kharej) \cup {id}
      /\ Grows
  BY SMTT(60), <1>1, <1>2, <1>3, DeriveEffect
<1>5. Sealing'
  BY Zenon, <1>1, <1>2, <1>3, SealingDerive
<1>6. /\ \A v \in Workers : rx'[Iran][v] = rx[Iran][v]
      /\ rx'[Kharej][w] = [pc |-> "store", ref |-> id, arg |-> None]
      /\ \A v \in Workers \ {w} : rx'[Kharej][v] = rx[Kharej][v]
  BY Zenon, <1>1 DEF TypeOK
<1>. HIDE DEF id
<1>7. /\ rx'[Kharej][w].pc = "store"
      /\ rx'[Kharej][w].ref = id
  BY <1>6
<1>8. RefsOK'
  BY Zenon, <1>1, <1>4, RefsKept DEF Links, RefsStep
<1>9. WorkersOK'
  <2>1. \A n \in Nodes : Made(n) \subseteq Made(n)'
    BY Zenon, <1>4, KeysKept
  <2>2. \A v \in Workers :
          /\ rx'[Kharej][v].pc = "store" => rx'[Kharej][v].ref \in Made(Kharej)'
          /\ rx'[Iran][v].pc # "store"
          /\ rx'[Kharej][v].pc # "derive"
    BY ZenonT(30), <1>4, <1>6, <1>7, <2>1 DEF Links, WorkersOK
  <2>3. \A v \in Deriving' : rx'[Iran][v].arg \in ackNet'
    BY SMTT(60), <1>1, <1>6 DEF Links, WorkersOK, Deriving
  <2>4. ASSUME NEW n \in Nodes, NEW v \in Workers, rx'[n][v].pc = "accept"
        PROVE  /\ rx'[n][v].ref \in Made(n)'
               /\ rx'[n][v].arg \in packetNet'
               /\ rx'[n][v].arg.key = RxKey(n, obj'[n][rx'[n][v].ref])
    <3>1. rx'[n][v] = rx[n][v]
      BY Zenon, <1>6, <1>7, <2>4
    <3>2. /\ rx[n][v].ref \in Made(n)
          /\ rx[n][v].arg \in packetNet
          /\ rx[n][v].arg.key = RxKey(n, obj[n][rx[n][v].ref])
      BY ZenonT(30), <2>4, <3>1 DEF Links, WorkersOK
    <3>. QED
      BY SMTT(60), <1>1, <1>4, <3>1, <3>2, KeysKept
  <2>. QED
    BY Zenon, <2>2, <2>3, <2>4 DEF WorkersOK
<1>10. NonceUsedOnce'
  <2>1. Made(Iran)' = Made(Iran) /\ \A i \in Made(Iran) : obj'[Iran][i].cn = obj[Iran][i].cn
    BY Zenon, <1>4 DEF Made, Grows
  <2>2. Deriving' = Deriving /\ \A v \in Deriving : rx'[Iran][v] = rx[Iran][v]
    BY Zenon, <1>6 DEF Deriving
  <2>. QED
    BY SMTT(60), <1>1, <2>1, <2>2 DEF Links, NonceUsedOnce
<1>11. PairsAgreed'
  <2>. DEFINE rec == [cn |-> m.cn, sn |-> id]
  <2>1. rec \in [cn : Nonces, sn : Ids] /\ rec.cn = m.cn /\ rec.sn = id
    BY Zenon, <1>2, <1>3
  <2>2. hellos' = Append(Live(k), rec)
    BY Zenon, <1>1
  <2>. HIDE DEF rec
  <2>3. \A j \in 1 .. Len(hellos') :
          hellos'[j] = rec \/ \E i \in 1 .. Len(hellos) : hellos'[j] = hellos[i]
    <3>1. Live(k) \in Seq([cn : Nonces, sn : Ids]) /\ Len(Live(k)) \in Nat
      BY Zenon, LiveType
    <3>2. /\ Len(hellos') = Len(Live(k)) + 1
          /\ hellos'[Len(Live(k)) + 1] = rec
          /\ \A i \in 1 .. Len(Live(k)) : hellos'[i] = Live(k)[i]
      BY <2>1, <2>2, <3>1
    <3>3. \A j \in 1 .. Len(hellos') : j = Len(Live(k)) + 1 \/ j \in 1 .. Len(Live(k))
      BY <3>1, <3>2
    <3>4. \A j \in 1 .. Len(Live(k)) : \E i \in 1 .. Len(hellos) : Live(k)[j] = hellos[i]
      BY ZenonT(30), LiveType
    <3>. QED
      BY ZenonT(30), <3>2, <3>3, <3>4, Zenon
  <2>4. ASSUME NEW j \in 1 .. Len(hellos')
        PROVE  hellos'[j].sn \in Made(Kharej)' /\ obj'[Kharej][hellos'[j].sn].cn = hellos'[j].cn
    <3>1. CASE hellos'[j] = rec
      BY ZenonT(30), <1>4, <2>1, <3>1
    <3>2. ASSUME NEW i \in 1 .. Len(hellos), hellos'[j] = hellos[i]
          PROVE  hellos'[j].sn \in Made(Kharej)' /\ obj'[Kharej][hellos'[j].sn].cn = hellos'[j].cn
      <4>1. hellos[i].sn \in Made(Kharej) /\ obj[Kharej][hellos[i].sn].cn = hellos[i].cn
        BY Zenon DEF Links, PairsAgreed, ServerHas
      <4>. QED
        BY <1>4, <3>2, <4>1, KeysKept DEF Grows
    <3>. QED
      BY Zenon, <2>3, <3>1, <3>2
  <2>5. \A j \in 1 .. Len(hellos') : ServerHas(hellos[j].cn, hellos[j].sn)'
    BY Zenon, <2>4 DEF ServerHas
  <2>. QED
    BY Zenon, <1>1, <1>4, <2>5, PairsKept DEF Links
<1>. QED
  BY Zenon, <1>5, <1>8, <1>9, <1>10, <1>11 DEF Links

\* handleHello stores the session that it derived.
LEMMA StoreSessionStep ==
  ASSUME TypeOK, TypeOK', Links, Sealing, NEW w \in Workers, StoreSession(w)
  PROVE  Links' /\ Sealing'
<1>. DEFINE i == rx[Kharej][w].ref
            a == [cn |-> obj[Kharej][i].cn, sn |-> obj[Kharej][i].sn, dst |-> obj[Kharej][i].peer]
<1>1. /\ UNCHANGED <<sup, tx, obj, made, handshakes, pending, hellos>>
      /\ UNCHANGED <<packetNet, packets, delivered>>
      /\ ackNet' = ackNet \cup {a}
      /\ rx' = [rx EXCEPT ![Kharej][w] = Reading]
      /\ session' = [session EXCEPT ![Kharej] = i]
  BY Zenon DEF StoreSession, Publish, heapVars, shakeVars, countVars
<1>2. i \in Made(Kharej)
  BY Zenon DEF StoreSession, Links, WorkersOK
<1>3. a.cn = obj[Kharej][i].cn /\ a.sn = obj[Kharej][i].sn
  BY Zenon
<1>. HIDE DEF i, a
<1>4. \A n \in Nodes : Made(n)' = Made(n)
  BY Zenon, <1>1 DEF Made
<1>5. Grows /\ RxStep
  BY ZenonT(30), <1>1, GrowsQuiet DEF RxStep, TypeOK
<1>6. RefsStep
  BY ZenonT(30), <1>1, <1>2, <1>4 DEF RefsStep, TypeOK
<1>7. obj[Kharej][i].sn = i
  BY ZenonT(30), <1>2 DEF Sealing, ObjectsOK
<1>8. \A b \in ackNet' : b \in ackNet \/ ServerHas(b.cn, b.sn)'
  BY Zenon, <1>1, <1>2, <1>3, <1>4, <1>7 DEF ServerHas
<1>9. \A j \in 1 .. Len(hellos') : ServerHas(hellos[j].cn, hellos[j].sn)'
  BY ZenonT(30), <1>1, <1>4 DEF Links, PairsAgreed, ServerHas
<1>10. PairsAgreed'
  BY Zenon, <1>1, <1>5, <1>8, <1>9, PairsKept DEF Links
<1>11. RefsOK' /\ WorkersOK'
  BY ZenonT(30), <1>1, <1>5, <1>6, RefsKept, WorkersKept DEF Links
<1>12. NonceUsedOnce'
  BY Zenon, <1>1, <1>5, NoncesKept DEF Links, Sealing
<1>13. Sealing'
  BY ZenonT(30), <1>1, SealingQuiet
<1>. QED
  BY Zenon, <1>10, <1>11, <1>12, <1>13 DEF Links

\* The nonce moves from pending to the worker that took it.
LEMMA TakeAckStep ==
  ASSUME TypeOK, TypeOK', Links, Sealing, NEW w \in Workers, NEW m \in ackNet, TakeAck(w, m)
  PROVE  Links' /\ Sealing'
<1>1. /\ UNCHANGED <<session, sup, tx, obj, made, handshakes, hellos, ackNet>>
      /\ UNCHANGED <<packetNet, packets, delivered>>
      /\ rx' = [rx EXCEPT ![Iran][w] = [pc |-> "derive", ref |-> Nil, arg |-> m]]
      /\ rx[Iran][w].pc = "read"
      /\ pending = m.cn
      /\ pending' = 0
  BY ZenonT(30) DEF TakeAck, heldVars, heapVars, netVars, countVars
<1>2. /\ \A v \in Workers : rx'[Kharej][v] = rx[Kharej][v]
      /\ rx'[Iran][w] = [pc |-> "derive", ref |-> Nil, arg |-> m]
      /\ \A v \in Workers \ {w} : rx'[Iran][v] = rx[Iran][v]
  BY ZenonT(30), <1>1 DEF TypeOK
<1>3. rx'[Iran][w].pc = "derive" /\ rx'[Iran][w].arg = m
  BY <1>2
<1>4. \A n \in Nodes : Made(n)' = Made(n)
  BY Zenon, <1>1 DEF Made
<1>5. Grows /\ RefsStep
  BY Zenon, <1>1, GrowsQuiet DEF RefsStep
<1>6. Deriving' = Deriving \cup {w} /\ w \notin Deriving
  BY <1>1, <1>2, <1>3 DEF Deriving
<1>7. WorkersOK'
  <2>1. \A v \in Workers :
          /\ rx'[Kharej][v].pc = "store" => rx'[Kharej][v].ref \in Made(Kharej)'
          /\ rx'[Iran][v].pc # "store"
          /\ rx'[Kharej][v].pc # "derive"
    BY ZenonT(30), <1>2, <1>3, <1>4 DEF Links, WorkersOK
  <2>2. \A v \in Deriving' : rx'[Iran][v].arg \in ackNet'
    BY SMTT(60), <1>1, <1>2, <1>3, <1>6 DEF Links, WorkersOK, Deriving
  <2>3. ASSUME NEW n \in Nodes, NEW v \in Workers, rx'[n][v].pc = "accept"
        PROVE  /\ rx'[n][v].ref \in Made(n)'
               /\ rx'[n][v].arg \in packetNet'
               /\ rx'[n][v].arg.key = RxKey(n, obj'[n][rx'[n][v].ref])
    <3>1. rx'[n][v] = rx[n][v]
      BY ZenonT(30), <1>2, <1>3, <2>3
    <3>. QED
      BY <1>1, <1>4, <2>3, <3>1 DEF Links, WorkersOK
  <2>. QED
    BY ZenonT(30), <2>1, <2>2, <2>3 DEF WorkersOK
<1>8. NonceUsedOnce'
  <2>1. \A i \in Made(Iran) : obj[Iran][i].cn # 0
    BY DEF Sealing, ObjectsOK, Nonces
  <2>2. m.cn # 0 /\ \A v \in Deriving : rx[Iran][v].arg.cn # 0
    <3>1. \A b \in Ack : b.cn # 0
      BY DEF Ack, Nonces
    <3>. QED
      BY ZenonT(30), <3>1 DEF Links, WorkersOK, TypeOK
  <2>3. \A v \in Deriving : rx'[Iran][v] = rx[Iran][v]
    BY ZenonT(30), <1>2, <1>6 DEF Deriving
  <2>4. \A v \in Deriving' : rx'[Iran][v].arg.cn <= handshakes' /\ rx'[Iran][v].arg.cn # pending'
    BY SMTT(60), <1>1, <1>3, <1>6, <2>2, <2>3 DEF Links, NonceUsedOnce
  <2>5. \A u, v \in Deriving' : rx'[Iran][u].arg.cn = rx'[Iran][v].arg.cn => u = v
    BY SMTT(60), <1>1, <1>3, <1>6, <2>3 DEF Links, NonceUsedOnce
  <2>6. \A v \in Deriving', i \in Made(Iran)' : rx'[Iran][v].arg.cn # obj'[Iran][i].cn
    BY <1>1, <1>3, <1>4, <1>6, <2>3 DEF Links, NonceUsedOnce
  <2>7. /\ \A i \in Made(Iran)' : obj'[Iran][i].cn <= handshakes' /\ obj'[Iran][i].cn # pending'
        /\ \A i, j \in Made(Iran)' : obj'[Iran][i].cn = obj'[Iran][j].cn => i = j
    BY ZenonT(30), <1>1, <1>4, <2>1 DEF Links, NonceUsedOnce
  <2>8. pending' <= handshakes'
    BY <1>1 DEF TypeOK
  <2>. QED
    BY Zenon, <2>4, <2>5, <2>6, <2>7, <2>8 DEF NonceUsedOnce
<1>9. PairsAgreed'
  BY ZenonT(30), <1>1, <1>4 DEF Links, PairsAgreed, ServerHas
<1>10. RefsOK'
  BY Zenon, <1>5, RefsKept DEF Links
<1>11. Sealing'
  BY ZenonT(30), <1>1, SealingQuiet
<1>. QED
  BY Zenon, <1>7, <1>8, <1>9, <1>10, <1>11 DEF Links

\* And from the worker to the session it derives.
LEMMA DeriveAndStoreStep ==
  ASSUME TypeOK, TypeOK', Links, Sealing, NEW w \in Workers, DeriveAndStore(w)
  PROVE  Links' /\ Sealing'
<1>. DEFINE m == rx[Iran][w].arg
            id == made[Iran] + 1
<1>1. /\ UNCHANGED <<sup, tx, handshakes, pending, hellos, ackNet>>
      /\ UNCHANGED <<packetNet, packets, delivered>>
      /\ rx' = [rx EXCEPT ![Iran][w] = Reading]
      /\ session' = [session EXCEPT ![Iran] = id]
      /\ Derive(Iran, m.cn, m.sn, ServerAddr)
  BY ZenonT(30) DEF DeriveAndStore, Publish, shakeVars, netVars, countVars
<1>2. w \in Deriving /\ m \in ackNet
  BY ZenonT(30) DEF DeriveAndStore, Deriving, Links, WorkersOK
<1>3. m.cn \in Nonces /\ m.sn \in Ids /\ ServerAddr \in Endpoints
  BY ZenonT(30), <1>2 DEF TypeOK, Ack, Endpoints
<1>4. /\ made'[Kharej] = made[Kharej]
      /\ \A i \in Made(Iran) : obj'[Iran][i] = obj[Iran][i]
      /\ \A i \in Made(Kharej) : obj'[Kharej][i] = obj[Kharej][i]
      /\ obj'[Iran][id].cn = m.cn
      /\ obj'[Iran][id].sn = m.sn
      /\ Made(Iran)' = Made(Iran) \cup {id}
      /\ Made(Kharej)' = Made(Kharej)
      /\ Grows
  BY <1>1, <1>3, DeriveEffect
<1>5. Sealing'
  BY ZenonT(30), <1>1, <1>3, SealingDerive
<1>6. /\ \A v \in Workers : rx'[Kharej][v] = rx[Kharej][v]
      /\ rx'[Iran][w] = Reading
      /\ \A v \in Workers \ {w} : rx'[Iran][v] = rx[Iran][v]
  BY ZenonT(30), <1>1 DEF TypeOK
<1>. HIDE DEF id
<1>7. RxStep /\ Reading.pc = "read"
  BY ZenonT(30), <1>6 DEF RxStep, Reading
<1>8. RefsStep
  BY ZenonT(30), <1>1, <1>4 DEF RefsStep, TypeOK
<1>9. RefsOK' /\ WorkersOK'
  BY ZenonT(30), <1>1, <1>4, <1>7, <1>8, RefsKept, WorkersKept DEF Links
<1>10. NonceUsedOnce'
  <2>1. Deriving' = Deriving \ {w} /\ \A v \in Deriving' : rx'[Iran][v] = rx[Iran][v]
    BY ZenonT(30), <1>6, <1>7 DEF Deriving
  <2>2. \A i \in Made(Iran) : m.cn # obj[Iran][i].cn
    BY ZenonT(30), <1>2 DEF Links, NonceUsedOnce
  <2>3. /\ \A i \in Made(Iran)' : obj'[Iran][i].cn <= handshakes' /\ obj'[Iran][i].cn # pending'
        /\ \A i, j \in Made(Iran)' : obj'[Iran][i].cn = obj'[Iran][j].cn => i = j
    BY SMTT(60), <1>1, <1>2, <1>4, <2>2 DEF Links, NonceUsedOnce
  <2>4. \A v \in Deriving', i \in Made(Iran)' : rx'[Iran][v].arg.cn # obj'[Iran][i].cn
    BY SMTT(60), <1>2, <1>4, <2>1 DEF Links, NonceUsedOnce
  <2>5. /\ \A v \in Deriving' : rx'[Iran][v].arg.cn <= handshakes' /\ rx'[Iran][v].arg.cn # pending'
        /\ \A u, v \in Deriving' : rx'[Iran][u].arg.cn = rx'[Iran][v].arg.cn => u = v
        /\ pending' <= handshakes'
    BY <1>1, <2>1 DEF Links, NonceUsedOnce
  <2>. QED
    BY Zenon, <2>3, <2>4, <2>5 DEF NonceUsedOnce
<1>11. PairsAgreed'
  <2>1. \A c, t : ServerHas(c, t) => t \in Made(Kharej)' /\ obj'[Kharej][t].cn = c
    BY ZenonT(30), <1>4 DEF ServerHas
  <2>2. ASSUME NEW i \in Made(Iran)'
        PROVE  /\ obj'[Iran][i].sn \in Made(Kharej)'
               /\ obj'[Kharej][obj'[Iran][i].sn].cn = obj'[Iran][i].cn
    <3>1. CASE i \in Made(Iran)
      <4>1. ServerHas(obj[Iran][i].cn, obj[Iran][i].sn)
        BY ZenonT(30), <3>1 DEF Links, PairsAgreed
      <4>. QED
        BY <1>4, <2>1, <3>1, <4>1
    <3>2. CASE i = id
      <4>1. ServerHas(m.cn, m.sn)
        BY ZenonT(30), <1>2 DEF Links, PairsAgreed
      <4>. QED
        BY <1>4, <2>1, <3>2, <4>1
    <3>. QED
      BY ZenonT(30), <1>4, <3>1, <3>2
  <2>3. \A a \in ackNet' : a.sn \in Made(Kharej)' /\ obj'[Kharej][a.sn].cn = a.cn
    BY ZenonT(30), <1>1, <2>1 DEF Links, PairsAgreed
  <2>4. \A j \in 1 .. Len(hellos') :
          hellos'[j].sn \in Made(Kharej)' /\ obj'[Kharej][hellos'[j].sn].cn = hellos'[j].cn
    BY <1>1, <2>1 DEF Links, PairsAgreed
  <2>. QED
    BY Zenon, <2>2, <2>3, <2>4 DEF PairsAgreed, ServerHas
<1>. QED
  BY ZenonT(30), <1>5, <1>9, <1>10, <1>11 DEF Links

\* handleEncrypted opens a packet under the session it has loaded.
LEMMA OpenStep ==
  ASSUME TypeOK, TypeOK', Links, Sealing,
         NEW n \in Nodes, NEW w \in Workers, NEW m \in packetNet, Open(n, w, m)
  PROVE  Links' /\ Sealing'
<1>. DEFINE r == [pc |-> "accept", ref |-> session[n], arg |-> m]
<1>1. /\ UNCHANGED <<session, sup, tx, obj, made, handshakes, pending, hellos, ackNet>>
      /\ UNCHANGED <<packetNet, packets, delivered>>
      /\ rx' = [rx EXCEPT ![n] = [rx[n] EXCEPT ![w] = r]]
      /\ rx[n][w].pc = "read"
      /\ session[n] # Nil
      /\ m.key = RxKey(n, obj[n][session[n]])
  BY ZenonT(30) DEF Open, heldVars, heapVars, shakeVars, netVars, countVars
<1>2. r.pc = "accept" /\ r.ref = session[n] /\ r.arg = m
  BY ZenonT(30)
<1>. HIDE DEF r
<1>3. \A o \in Nodes, v \in Workers :
        IF o = n /\ v = w THEN rx'[o][v] = r ELSE rx'[o][v] = rx[o][v]
  BY ZenonT(30), <1>1 DEF TypeOK
<1>4. \A o \in Nodes : Made(o)' = Made(o)
  BY ZenonT(30), <1>1 DEF Made
<1>5. session[n] \in Made(n)
  BY ZenonT(30), <1>1 DEF Links, RefsOK
<1>6. Grows /\ RefsStep
  BY ZenonT(30), <1>1, GrowsQuiet DEF RefsStep
<1>7. Deriving' = Deriving /\ \A v \in Deriving : rx'[Iran][v] = rx[Iran][v]
  BY <1>1, <1>2, <1>3 DEF Deriving
<1>8. WorkersOK'
  <2>1. \A v \in Workers :
          /\ rx'[Kharej][v].pc = "store" => rx'[Kharej][v].ref \in Made(Kharej)'
          /\ rx'[Iran][v].pc # "store"
          /\ rx'[Kharej][v].pc # "derive"
    BY SMTT(60), <1>2, <1>3, <1>4 DEF Links, WorkersOK
  <2>2. \A v \in Deriving' : rx'[Iran][v].arg \in ackNet'
    BY <1>1, <1>7 DEF Links, WorkersOK
  <2>3. ASSUME NEW o \in Nodes, NEW v \in Workers, rx'[o][v].pc = "accept"
        PROVE  /\ rx'[o][v].ref \in Made(o)'
               /\ rx'[o][v].arg \in packetNet'
               /\ rx'[o][v].arg.key = RxKey(o, obj'[o][rx'[o][v].ref])
    <3>1. CASE o = n /\ v = w
      BY SMTT(60), <1>1, <1>2, <1>3, <1>4, <1>5, <3>1
    <3>2. CASE ~(o = n /\ v = w)
      <4>1. rx'[o][v] = rx[o][v]
        BY ZenonT(30), <1>3, <3>2
      <4>. QED
        BY SMTT(60), <1>1, <1>4, <2>3, <4>1 DEF Links, WorkersOK
    <3>. QED
      BY ZenonT(30), <3>1, <3>2
  <2>. QED
    BY ZenonT(30), <2>1, <2>2, <2>3 DEF WorkersOK
<1>9. NonceUsedOnce'
  BY SMTT(60), <1>1, <1>4, <1>7 DEF Links, NonceUsedOnce
<1>10. PairsAgreed'
  BY <1>1, <1>4 DEF Links, PairsAgreed, ServerHas
<1>11. RefsOK'
  BY Zenon, <1>6, RefsKept DEF Links
<1>12. Sealing'
  BY ZenonT(30), <1>1, SealingQuiet
<1>. QED
  BY Zenon, <1>8, <1>9, <1>10, <1>11, <1>12 DEF Links

\* The receive goroutines keep the invariant.
LEMMA ReceiveStep ==
  ASSUME TypeOK, TypeOK', Links, Sealing, Receive
  PROVE  Links' /\ Sealing'
<1>1. ASSUME NEW n \in Nodes, NEW w \in Workers, Deliver(n, w)
      PROVE  Links' /\ Sealing'
  <2>1. /\ UNCHANGED <<session, sup, tx, made, handshakes, pending, hellos, ackNet, packetNet>>
        /\ rx' = [rx EXCEPT ![n][w] = Reading]
    BY ZenonT(30), <1>1 DEF Deliver, shakeVars, netVars
  <2>2. RefsStep /\ RxStep
    BY ZenonT(30), <2>1 DEF RefsStep, RxStep, TypeOK
  <2>3. Grows
    BY ZenonT(30), <1>1, DeliverEffect DEF Links
  <2>4. Sealing'
    BY ZenonT(30), <1>1, SealingDeliver DEF Links
  <2>. QED
    BY ZenonT(30), <2>1, <2>2, <2>3, <2>4, LinksQuiet DEF Sealing
<1>2. ASSUME NEW n \in Nodes, NEW w \in Workers, ReplayDrop(n, w)
      PROVE  Links' /\ Sealing'
  <2>1. /\ UNCHANGED <<session, sup, tx, made, handshakes, pending, hellos, ackNet, packetNet>>
        /\ UNCHANGED <<obj, packets, delivered>>
        /\ rx' = [rx EXCEPT ![n][w] = Reading]
    BY Zenon, <1>2 DEF ReplayDrop, heldVars, heapVars, shakeVars, netVars, countVars
  <2>2. RefsStep /\ RxStep
    BY ZenonT(30), <2>1 DEF RefsStep, RxStep, TypeOK
  <2>3. Grows /\ Sealing'
    BY ZenonT(30), <2>1, GrowsQuiet, SealingQuiet
  <2>. QED
    BY ZenonT(30), <2>1, <2>2, <2>3, LinksQuiet DEF Sealing
<1>. QED
  BY ZenonT(30), <1>1, <1>2, HelloKnownStep, HelloFreshStep, StoreSessionStep, TakeAckStep,
     DeriveAndStoreStep, OpenStep DEF Receive

----------------------------------------------------------------------------
(* The senders and the environment.                                        *)

\* A packet is sealed with the next counter of a session.
LEMMA SendStep ==
  ASSUME TypeOK, TypeOK', Links, Sealing, Send
  PROVE  Links' /\ Sealing'
<1>1. ASSUME NEW n \in Nodes, NEW g \in Senders, LoadSession(n, g)
      PROVE  Links' /\ Sealing'
  <2>1. /\ UNCHANGED <<session, sup, rx, made, handshakes, pending, hellos, ackNet, packetNet>>
        /\ UNCHANGED <<obj, packets, delivered>>
        /\ tx' = [tx EXCEPT ![n][g] = session[n]]
    BY Zenon, <1>1 DEF LoadSession, heldVars, heapVars, shakeVars, netVars, countVars
  <2>2. RefsStep /\ RxStep
    BY <2>1 DEF RefsStep, RxStep, TypeOK
  <2>3. Grows /\ Sealing'
    BY ZenonT(30), <2>1, GrowsQuiet, SealingQuiet
  <2>. QED
    BY ZenonT(30), <2>1, <2>2, <2>3, LinksQuiet DEF Sealing
<1>2. ASSUME NEW n \in Nodes, NEW g \in Senders, SendEncrypted(n, g)
      PROVE  Links' /\ Sealing'
  <2>1. /\ UNCHANGED <<session, sup, rx, made, handshakes, pending, hellos, ackNet, delivered>>
        /\ tx' = [tx EXCEPT ![n][g] = Nil]
    BY ZenonT(30), <1>2 DEF SendEncrypted, heldVars, shakeVars
  <2>2. PICK type \in PacketTypes : Seal(n, tx[n][g], type)
    BY ZenonT(30), <1>2 DEF SendEncrypted, PacketTypes
  <2>3. tx[n][g] \in Made(n)
    BY ZenonT(30), <1>2 DEF SendEncrypted, Links, RefsOK
  <2>4. RefsStep /\ RxStep
    BY <2>1 DEF RefsStep, RxStep, TypeOK
  <2>5. Grows
    BY ZenonT(30), <2>1, <2>2, <2>3, SealEffect
  <2>6. Sealing'
    BY Zenon, <2>1, <2>2, <2>3, SealingSeal DEF Links
  <2>7. packetNet \subseteq packetNet'
    BY ZenonT(30), <2>2 DEF Seal
  <2>. QED
    BY Zenon, <2>1, <2>4, <2>5, <2>6, <2>7, LinksQuiet DEF Sealing
<1>. QED
  BY Zenon, <1>1, <1>2 DEF Send

\* Time passes, an address changes, or a process restarts.
LEMMA EnvironmentStep ==
  ASSUME TypeOK, TypeOK', Links, Sealing, Environment
  PROVE  Links' /\ Sealing'
<1>1. /\ UNCHANGED <<made, handshakes, ackNet, packetNet, obj, packets, delivered>>
      /\ pending' \in {pending, 0}
      /\ hellos' \in {hellos, <<>>}
  BY ZenonT(30) DEF Environment, GoIdle, GoAged, Rebind, Crash, heapVars, shakeVars, netVars, countVars
<1>2. RefsStep /\ RxStep
  <2>1. CASE UNCHANGED <<session, sup, rx, tx>>
    BY ZenonT(30), <2>1 DEF RefsStep, RxStep
  <2>2. ASSUME NEW n \in Nodes, Crash(n)
        PROVE  RefsStep /\ RxStep
    <3>1. /\ session' = [session EXCEPT ![n] = Nil]
          /\ sup' = [sup EXCEPT ![n] = FirstSup(n)]
          /\ rx' = [rx EXCEPT ![n] = [w \in Workers |-> Reading]]
          /\ tx' = [tx EXCEPT ![n] = [g \in Senders |-> Nil]]
      BY ZenonT(30), <2>2 DEF Crash, Publish
    <3>2. FirstSup(n).ref = Nil /\ FirstSup(n).pc \in {"check", "tick"}
      BY ZenonT(30) DEF FirstSup, SupAt
    <3>3. RefsStep
      BY ZenonT(30), <3>1, <3>2 DEF RefsStep, TypeOK
    <3>4. RxStep
      BY ZenonT(30), <3>1 DEF RxStep, TypeOK
    <3>. QED
      BY ZenonT(30), <3>3, <3>4
  <2>. QED
    BY ZenonT(30), <2>1, <2>2 DEF Environment, GoIdle, GoAged, Rebind, heldVars
<1>3. Grows /\ Sealing'
  BY ZenonT(30), <1>1, GrowsQuiet, SealingQuiet
<1>4. CASE hellos' = hellos
  BY ZenonT(30), <1>1, <1>2, <1>3, <1>4, LinksQuiet DEF Sealing
<1>5. CASE hellos' = <<>>
  <2>1. RefsOK' /\ WorkersOK' /\ NonceUsedOnce'
    BY Zenon, <1>1, <1>2, <1>3, RefsKept, WorkersKept, NoncesKept DEF Links, Sealing
  <2>2. PairsAgreed'
    BY <1>1, <1>3, <1>5, PairsKept DEF Links
  <2>. QED
    BY ZenonT(30), <1>3, <2>1, <2>2 DEF Links
<1>. QED
  BY ZenonT(30), <1>1, <1>4, <1>5
----------------------------------------------------------------------------
(* The theorems.                                                           *)

\* Both processes start with nothing.
LEMMA InitInvariant == Init => SessionInvariant
<1>. SUFFICES ASSUME Init PROVE SessionInvariant
  BY ZenonT(30)
<1>1. TypeOK
  BY ZenonT(30), InitType
<1>2. \A n \in Nodes : Made(n) = {}
  BY DEF Init, Made
<1>3. RefsOK
  BY ZenonT(30) DEF Init, RefsOK, FirstSup, SupAt
<1>4. \A n \in Nodes, w \in Workers : rx[n][w].pc = "read"
  BY ZenonT(30) DEF Init, Reading
<1>5. WorkersOK
  BY ZenonT(30), <1>4 DEF WorkersOK, Deriving
<1>6. NonceUsedOnce
  BY SMTT(60), <1>2, <1>4 DEF Init, NonceUsedOnce, Deriving
<1>7. ObjectsOK /\ PairsAgreed
  BY SMTT(60), <1>2 DEF Init, ObjectsOK, PairsAgreed
<1>8. PacketsSealed /\ DeliveriesRefused /\ NonceNeverReused /\ DeliveredAtMostOnce
  BY DEF Init, PacketsSealed, DeliveriesRefused, NonceNeverReused, DeliveredAtMostOnce
<1>. QED
  BY Zenon, <1>1, <1>3, <1>5, <1>6, <1>7, <1>8 DEF SessionInvariant

\* Every step keeps the invariant.
LEMMA NextInvariant ==
  ASSUME SessionInvariant, [Next]_vars
  PROVE  SessionInvariant'
<1>1. TypeOK /\ Links /\ Sealing
  BY ZenonT(30) DEF SessionInvariant, Links, Sealing
<1>2. TypeOK'
  BY ZenonT(30), NextType DEF SessionInvariant
<1>3. CASE UNCHANGED vars
  <2>1. /\ UNCHANGED <<session, sup, rx, tx, obj, made>>
        /\ UNCHANGED <<handshakes, pending, hellos, ackNet, packetNet, packets, delivered>>
    BY ZenonT(30), <1>3 DEF vars, heldVars, heapVars, shakeVars, netVars, countVars
  <2>2. Grows /\ RefsStep /\ RxStep
    BY ZenonT(30), <1>1, <2>1, GrowsQuiet DEF RefsStep, RxStep
  <2>3. Links' /\ Sealing'
    BY Zenon, <1>1, <1>2, <2>1, <2>2, LinksQuiet, SealingQuiet DEF Sealing
  <2>. QED
    BY ZenonT(30), <1>2, <2>3 DEF SessionInvariant, Links, Sealing
<1>4. CASE Next
  <2>1. Links' /\ Sealing'
    BY ZenonT(30), <1>1, <1>2, <1>4, SuperviseStep, ReceiveStep, SendStep, EnvironmentStep DEF Next
  <2>. QED
    BY Zenon, <1>2, <2>1 DEF SessionInvariant, Links, Sealing
<1>. QED
  BY ZenonT(30), <1>3, <1>4

\* The invariant holds in every state of the session layer: the nonce
\* discipline of handshakeClient and handleHelloAck, the recorded acks of
\* handleHello, the counters of sendEncrypted and the windows of
\* handleEncrypted keep each other intact.
THEOREM SessionInvariantHolds == Spec => []SessionInvariant
<1>1. Init => SessionInvariant
  BY ZenonT(30), InitInvariant
<1>2. SessionInvariant /\ [Next]_vars => SessionInvariant'
  BY ZenonT(30), NextInvariant
<1>. QED
  BY <1>1, <1>2, PTL DEF Spec

\* No AES-GCM key is ever used twice with one counter, whatever the goroutines
\* of sendEncrypted, the rekeys, the repeated hellos and the restarts.
THEOREM NoncesAreUnique == Spec => []NonceNeverReused
<1>1. SessionInvariant => NonceNeverReused
  BY ZenonT(30) DEF SessionInvariant
<1>. QED
  BY <1>1, SessionInvariantHolds, PTL

\* handleEncrypted hands every sealed packet over at most once, for any width
\* of the replay window.
THEOREM DeliveryIsAtMostOnce == Spec => []DeliveredAtMostOnce
<1>1. SessionInvariant => DeliveredAtMostOnce
  BY ZenonT(30) DEF SessionInvariant
<1>. QED
  BY <1>1, SessionInvariantHolds, PTL

\* handleHelloAck derives at most one session from each handshake.
THEOREM HandshakeYieldsOneSession == Spec => []OneSessionPerHandshake
<1>1. SessionInvariant => OneSessionPerHandshake
  BY ZenonT(30) DEF SessionInvariant, NonceUsedOnce, OneSessionPerHandshake, Made
<1>. QED
  BY <1>1, SessionInvariantHolds, PTL

\* Every session of Iran has the keys of one that handleHello derived.
THEOREM SessionKeysAgree == Spec => []KeysAgreed
<1>1. SessionInvariant => KeysAgreed
  BY ZenonT(30) DEF SessionInvariant, ObjectsOK, PairsAgreed, ServerHas, KeysAgreed, Made
<1>. QED
  BY <1>1, SessionInvariantHolds, PTL

\* clearIf takes away only the session that serverSupervisor found idle.
THEOREM ExpiryTakesTheJudgedSession == Spec => ExpiryIsJudged
<1>1. SessionInvariant /\ [Next]_vars =>
        [session[Kharej] # Nil /\ session'[Kharej] = Nil /\ crashes' = crashes
           => sup[Kharej].ref = session[Kharej]]_vars
  <2>. SUFFICES ASSUME SessionInvariant, Next,
                       session[Kharej] # Nil, session'[Kharej] = Nil, crashes' = crashes
                PROVE  sup[Kharej].ref = session[Kharej]
    BY ZenonT(30)
  <2>. USE DEF heldVars, pathVars
  <2>1. CASE ServerExpire
    BY ZenonT(30), <2>1 DEF ServerExpire, ClearIf, Publish
  <2>2. CASE Supervise /\ ~ServerExpire
    BY ZenonT(30), <2>2 DEF Supervise, ClientCheckSession, ClientNeedsHandshake, HandshakeNoNonce, HandshakeHello,
       HandshakeRetry, HandshakeDone, HandshakeFails, ClientTickQuiet, ClientTick, ServerTickAlive,
       ServerTickIdle, SendKeepalive, KeepaliveBeyondBound
  <2>3. ASSUME NEW w \in Workers, StoreSession(w)
        PROVE  FALSE
    <3>1. rx[Kharej][w].ref \in Made(Kharej)
      BY ZenonT(30), <2>3 DEF StoreSession, SessionInvariant, WorkersOK
    <3>2. session' = [session EXCEPT ![Kharej] = rx[Kharej][w].ref]
      BY ZenonT(30), <2>3 DEF StoreSession, Publish
    <3>. QED
      BY <3>1, <3>2 DEF Made, SessionInvariant, TypeOK
  <2>4. ASSUME NEW w \in Workers, DeriveAndStore(w)
        PROVE  FALSE
    <3>1. session' = [session EXCEPT ![Iran] = made[Iran] + 1]
      BY ZenonT(30), <2>4 DEF DeriveAndStore, Publish
    <3>. QED
      BY ZenonT(30), <3>1 DEF SessionInvariant, TypeOK
  <2>5. CASE Receive
    <3>1. \A w, m, k : HelloKnown(w, m, k) \/ HelloFresh(w, m, k) => session' = session
      BY DEF HelloKnown, HelloFresh
    <3>2. \A w, m : TakeAck(w, m) => session' = session
      BY Zenon DEF TakeAck
    <3>3. ASSUME NEW n, NEW w, Deliver(n, w)
          PROVE  session' = session
      BY ZenonT(30), <3>3 DEF Deliver
    <3>4. \A n, w, m : Open(n, w, m) \/ ReplayDrop(n, w) => session' = session
      BY DEF Open, ReplayDrop
    <3>5. session' = session \/ \E w \in Workers : StoreSession(w) \/ DeriveAndStore(w)
      BY ZenonT(30), <2>5, <3>1, <3>2, <3>3, <3>4, ZenonT(60) DEF Receive
    <3>. QED
      BY ZenonT(30), <2>3, <2>4, <3>5
  <2>6. CASE Send
    BY ZenonT(30), <2>6 DEF Send, LoadSession, SendEncrypted
  <2>7. CASE Environment
    BY <2>7 DEF Environment, GoIdle, GoAged, Rebind, Crash, SessionInvariant, TypeOK
  <2>. QED
    BY ZenonT(30), <2>1, <2>2, <2>5, <2>6, <2>7 DEF Next
<1>. QED
  BY <1>1, SessionInvariantHolds, PTL DEF Spec, ExpiryIsJudged

\* Every step of a receive goroutine of Kharej other than HelloFresh leaves its
\* part of StoresNewest alone.
LEMMA NewestKept ==
  ASSUME TypeOK, StoresNewest, made'[Kharej] = made[Kharej],
         \A w \in Workers : rx'[Kharej][w] = rx[Kharej][w] \/ rx'[Kharej][w].pc # "store"
  PROVE  StoresNewest'
BY ZenonT(30) DEF StoresNewest

\* What the handlers of packets change besides the session objects.
LEMMA DeliverFrame ==
  ASSUME NEW n, NEW w, Deliver(n, w)
  PROVE  /\ session' = session /\ made' = made
         /\ rx' = [rx EXCEPT ![n][w] = Reading]
BY Zenon DEF Deliver

\* With one receiver, what is about to be stored is the newest object.
LEMMA NewestStep ==
  ASSUME OneReceiver, TypeOK, StoresNewest, [Next]_vars
  PROVE  StoresNewest'
<1>1. CASE UNCHANGED <<rx, made>>
  BY ZenonT(30), <1>1 DEF StoresNewest
<1>2. ASSUME NEW w \in Workers, NEW m, NEW k, HelloFresh(w, m, k)
      PROVE  StoresNewest'
  <2>1. /\ rx' = [rx EXCEPT ![Kharej][w] = [pc |-> "store", ref |-> made[Kharej] + 1, arg |-> None]]
        /\ made' = [made EXCEPT ![Kharej] = @ + 1]
    BY ZenonT(30), <1>2 DEF HelloFresh, Derive
  <2>2. rx'[Kharej][w].ref = made'[Kharej]
    BY ZenonT(30), <2>1 DEF TypeOK
  <2>. QED
    BY ZenonT(30), <2>2 DEF StoresNewest, OneReceiver
<1>3. ASSUME NEW w \in Workers, StoreSession(w)
      PROVE  StoresNewest'
  <2>1. rx' = [rx EXCEPT ![Kharej][w] = Reading] /\ made' = made
    BY ZenonT(30), <1>3 DEF StoreSession, heapVars
  <2>. QED
    BY ZenonT(30), <2>1, NewestKept DEF Reading, TypeOK
<1>4. ASSUME NEW w \in Workers, DeriveAndStore(w)
      PROVE  StoresNewest'
  <2>1. rx' = [rx EXCEPT ![Iran][w] = Reading] /\ made' = [made EXCEPT ![Iran] = made[Iran] + 1]
    BY ZenonT(30), <1>4 DEF DeriveAndStore, Derive
  <2>2. rx'[Kharej] = rx[Kharej] /\ made'[Kharej] = made[Kharej]
    BY ZenonT(30), <2>1 DEF TypeOK
  <2>. QED
    BY ZenonT(30), <2>2, NewestKept
<1>5. ASSUME NEW w \in Workers, NEW m, TakeAck(w, m)
      PROVE  StoresNewest'
  <2>1. rx' = [rx EXCEPT ![Iran][w] = [pc |-> "derive", ref |-> Nil, arg |-> m]] /\ made' = made
    BY ZenonT(30), <1>5 DEF TakeAck, heapVars
  <2>. QED
    BY ZenonT(30), <2>1, NewestKept DEF TypeOK
<1>6. ASSUME NEW n \in Nodes, NEW w \in Workers,
             (\E m \in packetNet : Open(n, w, m)) \/ Deliver(n, w) \/ ReplayDrop(n, w)
      PROVE  StoresNewest'
  <2>1. ASSUME NEW m, Open(n, w, m)
        PROVE  StoresNewest'
    <3>1. /\ made' = made
          /\ rx' = [rx EXCEPT ![n][w] = [pc |-> "accept", ref |-> session[n], arg |-> m]]
      BY ZenonT(30), <2>1 DEF Open, heapVars
    <3>. QED
      BY SMTT(60), <3>1, NewestKept DEF TypeOK
  <2>2. CASE Deliver(n, w) \/ ReplayDrop(n, w)
    <3>1. ReplayDrop(n, w) => made' = made /\ rx' = [rx EXCEPT ![n][w] = Reading]
      BY ZenonT(30) DEF ReplayDrop, heapVars
    <3>2. made' = made /\ rx' = [rx EXCEPT ![n][w] = Reading]
      BY ZenonT(30), <2>2, <3>1, DeliverFrame
    <3>. QED
      BY SMTT(60), <3>2, NewestKept DEF Reading, TypeOK
  <2>. QED
    BY ZenonT(30), <1>6, <2>1, <2>2
<1>7. ASSUME NEW n \in Nodes, Crash(n)
      PROVE  StoresNewest'
  <2>1. rx' = [rx EXCEPT ![n] = [w \in Workers |-> Reading]] /\ made' = made
    BY ZenonT(30), <1>7 DEF Crash, heapVars
  <2>. QED
    BY ZenonT(30), <2>1, NewestKept DEF Reading, TypeOK
<1>8. CASE Supervise \/ Send
  BY ZenonT(30), <1>1, <1>8 DEF Supervise, ClientCheckSession, ClientNeedsHandshake, HandshakeNoNonce, HandshakeHello,
     HandshakeRetry, HandshakeDone, HandshakeFails, ClientTickQuiet, ClientTick, ServerTickAlive,
     ServerTickIdle, ServerExpire, SendKeepalive, KeepaliveBeyondBound, Send, LoadSession, SendEncrypted,
     heapVars
<1>9. CASE Receive
  <2>1. ASSUME NEW w, NEW m, NEW k, HelloKnown(w, m, k)
        PROVE  UNCHANGED <<rx, made>>
    BY ZenonT(30), <2>1 DEF HelloKnown, heapVars
  <2>. QED
    BY ZenonT(30), <1>1, <1>2, <1>3, <1>4, <1>5, <1>6, <1>9, <2>1, ZenonT(60) DEF Receive
<1>10. CASE Environment
  BY ZenonT(30), <1>1, <1>7, <1>10 DEF Environment, GoIdle, GoAged, Rebind, heapVars
<1>11. CASE UNCHANGED vars
  BY ZenonT(30), <1>1, <1>11 DEF vars, heapVars
<1>. QED
  BY ZenonT(30), <1>8, <1>9, <1>10, <1>11 DEF Next

\* With one receive goroutine, as with every stream carrier, neither process
\* goes back to a session older than the one it holds: handleHello publishes
\* what it derived before it derives again.
THEOREM SessionNeverRegresses ==
  ASSUME OneReceiver
  PROVE  Spec => NoSessionRegression
<1>1. Init => StoresNewest
  BY DEF Init, StoresNewest, Reading
<1>2. SessionInvariant /\ StoresNewest /\ [Next]_vars => StoresNewest'
  BY ZenonT(30), NewestStep DEF SessionInvariant
<1>3. SessionInvariant /\ StoresNewest /\ [Next]_vars =>
        [\A n \in Nodes : session[n] # Nil /\ session'[n] # Nil => session'[n] >= session[n]]_vars
  <2>. SUFFICES ASSUME SessionInvariant, StoresNewest, Next
                PROVE  \A n \in Nodes : session[n] # Nil /\ session'[n] # Nil
                                          => session'[n] >= session[n]
    BY ZenonT(30)
  <2>. USE DEF heldVars, pathVars
  <2>1. \A n \in Nodes : session[n] \in 0 .. made[n] /\ made[n] \in Nat
    BY SMTT(60) DEF SessionInvariant, TypeOK, RefsOK, Made
  <2>2. CASE session' = session
    BY <2>1, <2>2
  <2>3. ASSUME NEW n \in Nodes, session' = [session EXCEPT ![n] = Nil]
        PROVE  \A o \in Nodes : session'[o] = Nil \/ session'[o] = session[o]
    BY ZenonT(30), <2>3 DEF SessionInvariant, TypeOK
  <2>4. ASSUME NEW w \in Workers, StoreSession(w)
        PROVE  session' = [session EXCEPT ![Kharej] = made[Kharej]]
    <3>1. rx[Kharej][w].ref = made[Kharej]
      BY ZenonT(30), <2>4 DEF StoreSession, StoresNewest
    <3>2. session' = [session EXCEPT ![Kharej] = rx[Kharej][w].ref]
      BY ZenonT(30), <2>4 DEF StoreSession, Publish
    <3>. QED
      BY ZenonT(30), <3>1, <3>2
  <2>5. ASSUME NEW w \in Workers, DeriveAndStore(w)
        PROVE  session' = [session EXCEPT ![Iran] = made[Iran] + 1]
    BY ZenonT(30), <2>5 DEF DeriveAndStore, Publish
  <2>6. CASE \E w \in Workers : StoreSession(w) \/ DeriveAndStore(w)
    BY SMTT(60), <2>1, <2>4, <2>5, <2>6 DEF SessionInvariant, TypeOK
  <2>7. CASE Supervise
    <3>1. session' = session \/ session' = [session EXCEPT ![Kharej] = Nil]
      BY Zenon, <2>7 DEF Supervise, ClientCheckSession, ClientNeedsHandshake, HandshakeNoNonce, HandshakeHello,
         HandshakeRetry, HandshakeDone, HandshakeFails, ClientTickQuiet, ClientTick, ServerTickAlive,
         ServerTickIdle, ServerExpire, ClearIf, Publish, SendKeepalive, KeepaliveBeyondBound
    <3>. QED
      BY <2>1, <2>2, <2>3, <3>1
  <2>8. CASE Receive
    <3>1. \A w, m, k : HelloKnown(w, m, k) \/ HelloFresh(w, m, k) => session' = session
      BY DEF HelloKnown, HelloFresh
    <3>2. \A w, m : TakeAck(w, m) => session' = session
      BY ZenonT(30) DEF TakeAck
    <3>3. ASSUME NEW n, NEW w, Deliver(n, w)
          PROVE  session' = session
      BY ZenonT(30), <3>3, DeliverFrame
    <3>4. \A n, w, m : Open(n, w, m) \/ ReplayDrop(n, w) => session' = session
      BY DEF Open, ReplayDrop
    <3>5. session' = session \/ \E w \in Workers : StoreSession(w) \/ DeriveAndStore(w)
      BY ZenonT(30), <2>8, <3>1, <3>2, <3>3, <3>4, ZenonT(60) DEF Receive
    <3>. QED
      BY ZenonT(30), <2>2, <2>6, <3>5
  <2>9. CASE Send
    BY ZenonT(30), <2>2, <2>9 DEF Send, LoadSession, SendEncrypted
  <2>10. CASE Environment
    <3>1. session' = session \/ \E n \in Nodes : session' = [session EXCEPT ![n] = Nil]
      BY Zenon, <2>10 DEF Environment, GoIdle, GoAged, Rebind, Crash, Publish
    <3>. QED
      BY <2>1, <2>2, <2>3, <3>1
  <2>. QED
    BY ZenonT(30), <2>7, <2>8, <2>9, <2>10 DEF Next
<1>. QED
  BY <1>1, <1>2, <1>3, SessionInvariantHolds, PTL DEF Spec, NoSessionRegression
=============================================================================

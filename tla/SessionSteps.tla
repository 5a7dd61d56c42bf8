---------------------------- MODULE SessionSteps ----------------------------
(***************************************************************************)
(* What each kind of step of SessionLayer does: to the types and to the     *)
(* session objects; then to keys, counters and windows, to packets and      *)
(* deliveries, to pointers, nonces and pairs.  SessionProofs puts the parts *)
(* of SessionInvariant together.                                            *)
(***************************************************************************)
EXTENDS SessionInv, Integers, TLAPS

----------------------------------------------------------------------------
(* What accept does to a window, whatever the window holds.                *)

\* The window stays a window: highest is a natural number and no bit outside
\* the word is ever set (replayWindow.accept, crypto.go).
LEMMA AdmitType ==
  ASSUME NEW r \in ReplayWindowType, NEW c \in Nat, Admits(r, c)
  PROVE  Admit(r, c) \in ReplayWindowType
  BY WindowAssumption DEF ReplayWindowType, Bits, Admits, Admit

\* A counter that was just accepted is refused from then on: the duplicate
\* that arrives next does not pass accept.
LEMMA AdmittedIsRefused ==
  ASSUME NEW r \in ReplayWindowType, NEW c \in Nat, Admits(r, c)
  PROVE  ~Admits(Admit(r, c), c)
  BY WindowAssumption DEF ReplayWindowType, Bits, Admits, Admit

\* Refusal is permanent: no later call makes the window accept a counter that
\* it refuses now, because a bit that is shifted out belongs to a counter that
\* is too old by then.
LEMMA RefusalIsPermanent ==
  ASSUME NEW r \in ReplayWindowType, NEW c \in Nat, NEW x \in Nat,
         Admits(r, c), ~Admits(r, x)
  PROVE  ~Admits(Admit(r, c), x)
<1>1. CASE c > r.highest
  <2>. DEFINE r1 == Admit(r, c)
  <2>1. r1.highest = c /\ c # 0
    BY <1>1 DEF Admit, ReplayWindowType
  <2>2. CASE x = 0
    BY Zenon, <2>2 DEF Admits
  <2>3. CASE x # 0 /\ c - x >= Window
    BY <2>1, <2>3, <1>1, WindowAssumption DEF Admits, ReplayWindowType
  <2>4. CASE x # 0 /\ c - x < Window
    <3>1. /\ x <= r.highest
          /\ r.highest - x \in r.bitmap
      BY <2>4, <1>1, WindowAssumption DEF Admits, ReplayWindowType
    <3>2. c - x \in r1.bitmap
      BY <3>1, <2>4, <1>1, WindowAssumption DEF Admit, ReplayWindowType, Bits
    <3>. QED
      BY <3>1, <3>2, <2>1, <1>1 DEF Admits, ReplayWindowType
  <2>. QED
    BY <2>2, <2>3, <2>4, <2>1, WindowAssumption DEF ReplayWindowType
<1>2. CASE ~(c > r.highest)
  BY Zenon, <1>2, WindowAssumption DEF ReplayWindowType, Bits, Admits, Admit
<1>. QED
  BY Zenon, <1>1, <1>2

USE SessionAssumption DEF Nodes, Iran, Kharej, Nil, Ids

----------------------------------------------------------------------------
(* What the steps build.                                                   *)

\* The window of a new session is a window.
LEMMA NewWindowType == NewWindow \in ReplayWindowType
  BY Zenon, WindowAssumption DEF NewWindow, ReplayWindowType, Bits

\* deriveSession builds a session from a client nonce, a server nonce and an
\* address.
LEMMA NewSessionType ==
  ASSUME NEW cn \in Nonces, NEW sn \in Ids, NEW a \in Endpoints
  PROVE  /\ NewSession(cn, sn, a) \in Session
         /\ NewSession(cn, sn, a).cn = cn
         /\ NewSession(cn, sn, a).sn = sn
         /\ NewSession(cn, sn, a).peer = a
         /\ NewSession(cn, sn, a).tx = 0
         /\ NewSession(cn, sn, a).replay = NewWindow
  BY Zenon, NewWindowType DEF NewSession, Blank, Session, Endpoints, Nonces

\* The supervisors start in a proper state.
LEMMA SupType ==
  /\ \A n \in Nodes : FirstSup(n) \in SupState
  /\ \A pc \in {"check", "tick", "keepalive", "expire"}, i \in Ids \cup {Nil} :
       SupAt(pc, i) \in SupState
  BY DEF FirstSup, SupAt, SupState

\* An idle receive goroutine has its type.
LEMMA ReadingType == Reading \in RxState
  BY Zenon DEF Reading, RxState

\* A key has its type.
LEMMA KeyType ==
  ASSUME NEW n \in Nodes, NEW s \in Session, s.cn \in Nonces, s.sn \in Ids
  PROVE  TxKey(n, s) \in Keys
  BY Zenon DEF TxKey, Keys

\* A session object that exists has an index.
LEMMA MadeHasId ==
  ASSUME TypeOK, NEW n \in Nodes, NEW i \in Made(n)
  PROVE  i \in Ids
  BY DEF TypeOK, Made

\* Advancing one counter of many.
LEMMA CountUp ==
  ASSUME NEW S, NEW f \in [S -> Nat], NEW k \in S
  PROVE  [f EXCEPT ![k] = @ + 1] \in [S -> Nat]
<1>1. f[k] + 1 \in Nat
  OBVIOUS
<1>. QED
  BY Zenon, <1>1

----------------------------------------------------------------------------
(* Types.                                                                  *)

\* sendEncrypted keeps the types of what it writes.
LEMMA SealType ==
  ASSUME TypeOK, ObjectsOK, NEW n \in Nodes, NEW i \in Made(n), NEW type \in PacketTypes,
         Seal(n, i, type)
  PROVE  /\ obj' \in [Nodes -> [Ids -> Session]]
         /\ packets' \in 0 .. MaxPackets
         /\ packetNet' \subseteq Packet
<1>1. i \in Ids /\ obj[n][i] \in Session
  BY DEF TypeOK, Made
<1>2. TxKey(n, obj[n][i]) \in Keys
  BY Zenon, <1>1, KeyType DEF ObjectsOK
<1>3. obj[n][i].tx + 1 \in Nat \ {0}
  BY <1>1 DEF Session
<1>4. obj[n][i].peer \in Endpoints /\ MyAddr(n) \in Endpoints
  BY Zenon, <1>1 DEF Session, MyAddr, Endpoints, TypeOK
<1>5. packets + 1 \in 1 .. MaxPackets
  BY SMTT(60) DEF Seal, TypeOK
<1>6. [type |-> type, key |-> TxKey(n, obj[n][i]), ctr |-> obj[n][i].tx + 1,
       pkt |-> packets + 1, src |-> MyAddr(n), dst |-> obj[n][i].peer] \in Packet
  BY Zenon, <1>2, <1>3, <1>4, <1>5 DEF Packet
<1>7. packetNet' \subseteq Packet
  BY Zenon, <1>6 DEF Seal, TypeOK
<1>8. obj' \in [Nodes -> [Ids -> Session]]
  <2>1. [obj[n][i] EXCEPT !.tx = @ + 1] \in Session
    BY <1>1 DEF Session
  <2>. QED
    BY Zenon, <1>1, <2>1 DEF Seal, TypeOK
<1>. QED
  BY <1>5, <1>7, <1>8 DEF Seal

\* The supervisors keep the types.
LEMMA SuperviseType ==
  ASSUME TypeOK, RefsOK, ObjectsOK, Supervise
  PROVE  TypeOK'
<1>. USE DEF TypeOK, heldVars, heapVars, shakeVars, netVars, countVars, pathVars
<1>1. CASE ClientCheckSession
  BY Zenon, <1>1, SupType DEF ClientCheckSession
<1>2. CASE ClientNeedsHandshake
  BY Zenon, <1>2 DEF ClientNeedsHandshake, SupState
<1>3. CASE HandshakeNoNonce
  BY Zenon, <1>3, SupType DEF HandshakeNoNonce
<1>4. CASE HandshakeHello
  <2>1. handshakes + 1 \in Nonces
    BY SMTT(60), <1>4 DEF HandshakeHello, Nonces
  <2>2. [cn |-> handshakes + 1, src |-> addr] \in Hello
    BY Zenon, <2>1 DEF Hello
  <2>3. sup' \in [Nodes -> SupState]
    BY SMTT(60), <1>4, <2>1 DEF HandshakeHello, SupState
  <2>4. /\ handshakes' \in 0 .. MaxHandshakes
        /\ pending' \in Nonces \cup {0}
        /\ helloNet' \subseteq Hello
    BY SMTT(60), <1>4, <2>1, <2>2 DEF HandshakeHello
  <2>5. UNCHANGED <<heldVars, heapVars, hellos, ackNet, packetNet, countVars, pathVars, rx, tx>>
    BY Zenon, <1>4 DEF HandshakeHello
  <2>. QED
    BY Zenon, <2>3, <2>4, <2>5
<1>5. CASE HandshakeRetry
  <2>1. [cn |-> sup[Iran].cn, src |-> addr] \in Hello
    BY Zenon, <1>5 DEF HandshakeRetry, Hello, RefsOK, SupState
  <2>. QED
    BY Zenon, <1>5, <2>1 DEF HandshakeRetry
<1>6. CASE HandshakeDone
  BY Zenon, <1>6, SupType DEF HandshakeDone, WithdrawPending
<1>7. CASE HandshakeFails
  BY Zenon, <1>7, SupType DEF HandshakeFails, WithdrawPending
<1>8. CASE ClientTickQuiet
  BY Zenon, <1>8, SupType DEF ClientTickQuiet
<1>9. CASE ClientTick
  BY Zenon, <1>9, SupType DEF ClientTick
<1>10. CASE ServerTickAlive
  BY Zenon, <1>10, SupType DEF ServerTickAlive
<1>11. CASE ServerTickIdle
  BY Zenon, <1>11, SupType DEF ServerTickIdle
<1>12. CASE ServerExpire
  BY ZenonT(30), <1>12, SupType DEF ServerExpire, ClearIf, Publish
<1>13. ASSUME NEW n \in Nodes, SendKeepalive(n)
       PROVE  TypeOK'
  <2>1. sup[n].ref \in Made(n)
    BY Zenon, <1>13 DEF SendKeepalive, RefsOK
  <2>. QED
    BY Zenon, <1>13, <2>1, SealType, SupType DEF SendKeepalive, PacketTypes
<1>14. ASSUME NEW n \in Nodes, KeepaliveBeyondBound(n)
       PROVE  TypeOK'
  BY Zenon, <1>14, SupType DEF KeepaliveBeyondBound
<1>. QED
  BY Zenon, <1>1, <1>2, <1>3, <1>4, <1>5, <1>6, <1>7, <1>8, <1>9, <1>10, <1>11, <1>12, <1>13, <1>14
     DEF Supervise

\* What is left of the hello records after the purge are hello records.
LEMMA LiveType ==
  ASSUME TypeOK, NEW k \in 0 .. Len(hellos)
  PROVE  /\ Live(k) \in Seq([cn : Nonces, sn : Ids])
         /\ Len(Live(k)) \in Nat
         /\ \A j \in 1 .. Len(Live(k)) :
              /\ Live(k)[j] \in [cn : Nonces, sn : Ids]
              /\ \E i \in 1 .. Len(hellos) : Live(k)[j] = hellos[i]
<1>. DEFINE R == [cn : Nonces, sn : Ids]
            L == Len(hellos)
            S == SubSeq(hellos, k + 1, L)
<1>1. hellos \in Seq(R)
  BY Zenon DEF TypeOK
<1>. HIDE DEF R
<1>2. L \in Nat /\ \A i \in 1 .. L : hellos[i] \in R
  BY <1>1
<1>. HIDE DEF L
<1>3. k \in 0 .. L
  BY Zenon DEF L
<1>4. k + 1 \in Int /\ L \in Int /\ \A i \in k + 1 .. L : hellos[i] \in R
  BY <1>2, <1>3
<1>5. /\ S \in Seq(R)
      /\ Len(S) = IF k + 1 <= L THEN L - (k + 1) + 1 ELSE 0
      /\ \A i \in 1 .. L - (k + 1) + 1 : S[i] = hellos[k + 1 + i - 1]
  BY <1>4
<1>. HIDE DEF S
<1>6. Len(S) = L - k
  BY <1>2, <1>3, <1>5
<1>7. \A j \in 1 .. Len(S) : k + j \in 1 .. L /\ S[j] = hellos[k + j]
  <2>. SUFFICES ASSUME NEW j \in 1 .. L - k
                PROVE  k + j \in 1 .. L /\ S[j] = hellos[k + j]
    BY Zenon, <1>6
  <2>1. j \in 1 .. L - (k + 1) + 1 /\ k + 1 + j - 1 = k + j /\ k + j \in 1 .. L
    BY <1>2, <1>3
  <2>. QED
    BY Zenon, <1>5, <2>1
<1>8. Len(S) \in Nat
  BY <1>2, <1>3, <1>6
<1>9. Live(k) = S
  BY Zenon DEF Live, S, L
<1>10. \A j \in 1 .. Len(S) : S[j] \in R /\ \E i \in 1 .. L : S[j] = hellos[i]
  BY Zenon, <1>2, <1>7
<1>. QED
  BY Zenon, <1>5, <1>8, <1>9, <1>10 DEF R, L

\* deriveSession keeps the types of the objects.
LEMMA DeriveType ==
  ASSUME TypeOK, NEW n \in Nodes, NEW cn \in Nonces, NEW sn \in Ids, NEW a \in Endpoints,
         Derive(n, cn, sn, a)
  PROVE  /\ obj' \in [Nodes -> [Ids -> Session]]
         /\ made' \in [Nodes -> 0 .. MaxSessions]
         /\ made[n] + 1 \in Ids
<1>1. made[n] + 1 \in Ids
  BY SMTT(60) DEF TypeOK, Derive
<1>2. NewSession(cn, sn, a) \in Session
  BY Zenon, NewSessionType
<1>3. made' \in [Nodes -> 0 .. MaxSessions]
  BY SMTT(60) DEF TypeOK, Derive
<1>. QED
  BY Zenon, <1>1, <1>2, <1>3 DEF TypeOK, Derive

\* The receive goroutines keep the types.
LEMMA ReceiveType ==
  ASSUME TypeOK, WorkersOK, ObjectsOK, PairsAgreed, Receive
  PROVE  TypeOK'
<1>. USE DEF TypeOK, heldVars, heapVars, shakeVars, netVars, countVars, pathVars
<1>1. ASSUME NEW w \in Workers, NEW m \in helloNet, NEW k \in 0 .. Len(hellos), HelloKnown(w, m, k)
      PROVE  TypeOK'
  <2>1. PICK j \in 1 .. Len(Live(k)) :
          ackNet' = ackNet \cup {[cn |-> m.cn, sn |-> Live(k)[j].sn, dst |-> m.src]}
    BY Zenon, <1>1 DEF HelloKnown
  <2>2. Live(k)[j] \in [cn : Nonces, sn : Ids] /\ m \in Hello
    BY Zenon, LiveType
  <2>3. [cn |-> m.cn, sn |-> Live(k)[j].sn, dst |-> m.src] \in Ack
    BY Zenon, <2>2 DEF Hello, Ack
  <2>4. ackNet' \subseteq Ack
    BY Zenon, <2>1, <2>3
  <2>5. hellos' \in Seq([cn : Nonces, sn : Ids])
    BY Zenon, <1>1, LiveType DEF HelloKnown
  <2>. QED
    BY Zenon, <1>1, <2>4, <2>5 DEF HelloKnown
<1>2. ASSUME NEW w \in Workers, NEW m \in helloNet, NEW k \in 0 .. Len(hellos), HelloFresh(w, m, k)
      PROVE  TypeOK'
  <2>1. m \in Hello /\ m.cn \in Nonces /\ m.src \in Endpoints
    BY Zenon DEF Hello, Endpoints
  <2>2. made[Kharej] + 1 \in Ids
    BY SMTT(60), <1>2 DEF HelloFresh, Derive
  <2>3. /\ obj' \in [Nodes -> [Ids -> Session]]
        /\ made' \in [Nodes -> 0 .. MaxSessions]
    BY Zenon, <1>2, <2>1, <2>2, DeriveType DEF HelloFresh
  <2>4. hellos' \in Seq([cn : Nonces, sn : Ids])
    <3>1. hellos' = Append(Live(k), [cn |-> m.cn, sn |-> made[Kharej] + 1])
      BY Zenon, <1>2 DEF HelloFresh
    <3>2. [cn |-> m.cn, sn |-> made[Kharej] + 1] \in [cn : Nonces, sn : Ids]
      BY Zenon, <2>1, <2>2
    <3>3. Live(k) \in Seq([cn : Nonces, sn : Ids])
      BY Zenon, LiveType
    <3>. QED
      BY <3>1, <3>2, <3>3
  <2>5. rx' \in [Nodes -> [Workers -> RxState]]
    BY Zenon, <1>2, <2>2 DEF HelloFresh, RxState
  <2>6. UNCHANGED <<heldVars, handshakes, pending, netVars, countVars, pathVars, sup, tx>>
    BY Zenon, <1>2 DEF HelloFresh
  <2>. QED
    BY Zenon, <2>3, <2>4, <2>5, <2>6
<1>3. ASSUME NEW w \in Workers, StoreSession(w)
      PROVE  TypeOK'
  <2>. DEFINE i == rx[Kharej][w].ref
  <2>1. i \in Made(Kharej) /\ i \in Ids
    <3>1. i \in Made(Kharej)
      BY Zenon, <1>3 DEF StoreSession, WorkersOK
    <3>. QED
      BY Zenon, <3>1, MadeHasId
  <2>2. [cn |-> obj[Kharej][i].cn, sn |-> obj[Kharej][i].sn, dst |-> obj[Kharej][i].peer] \in Ack
    BY Zenon, <2>1 DEF ObjectsOK, Ack
  <2>3. ackNet' \subseteq Ack
    BY Zenon, <1>3, <2>2 DEF StoreSession
  <2>4. session' \in [Nodes -> Ids \cup {Nil}] /\ idle' \subseteq Nodes /\ aged' \subseteq {Iran}
    BY Zenon, <1>3, <2>1 DEF StoreSession, Publish
  <2>5. rx' \in [Nodes -> [Workers -> RxState]]
    BY Zenon, <1>3, ReadingType DEF StoreSession
  <2>. QED
    BY Zenon, <1>3, <2>3, <2>4, <2>5 DEF StoreSession
<1>4. ASSUME NEW w \in Workers, NEW m \in ackNet, TakeAck(w, m)
      PROVE  TypeOK'
  <2>1. rx' \in [Nodes -> [Workers -> RxState]]
    BY Zenon, <1>4 DEF TakeAck, RxState
  <2>. QED
    BY Zenon, <1>4, <2>1 DEF TakeAck
<1>5. ASSUME NEW w \in Workers, DeriveAndStore(w)
      PROVE  TypeOK'
  <2>1. rx[Iran][w].arg \in Ack
    BY Zenon, <1>5 DEF DeriveAndStore, WorkersOK, Deriving
  <2>2. /\ rx[Iran][w].arg.cn \in Nonces
        /\ rx[Iran][w].arg.sn \in Ids
        /\ ServerAddr \in Endpoints
    BY Zenon, <2>1 DEF Ack, Endpoints
  <2>3. /\ obj' \in [Nodes -> [Ids -> Session]]
        /\ made' \in [Nodes -> 0 .. MaxSessions]
        /\ made[Iran] + 1 \in Ids
    BY Zenon, <1>5, <2>2, DeriveType DEF DeriveAndStore
  <2>4. session' \in [Nodes -> Ids \cup {Nil}] /\ idle' \subseteq Nodes /\ aged' \subseteq {Iran}
    BY Zenon, <1>5, <2>3 DEF DeriveAndStore, Publish
  <2>5. rx' \in [Nodes -> [Workers -> RxState]]
    BY Zenon, <1>5, ReadingType DEF DeriveAndStore
  <2>. QED
    BY Zenon, <1>5, <2>3, <2>4, <2>5 DEF DeriveAndStore
<1>6. ASSUME NEW n \in Nodes, NEW w \in Workers, NEW m \in packetNet, Open(n, w, m)
      PROVE  TypeOK'
  <2>1. rx' \in [Nodes -> [Workers -> RxState]]
    BY ZenonT(30), <1>6 DEF Open, RxState
  <2>. QED
    BY Zenon, <1>6, <2>1 DEF Open
<1>7. ASSUME NEW n \in Nodes, NEW w \in Workers, Deliver(n, w)
      PROVE  TypeOK'
  <2>. DEFINE i == rx[n][w].ref
              m == rx[n][w].arg
  <2>1. i \in Made(n) /\ i \in Ids /\ m \in Packet
    <3>1. i \in Made(n) /\ m \in packetNet
      BY Zenon, <1>7 DEF Deliver, WorkersOK
    <3>. QED
      BY Zenon, <3>1, MadeHasId
  <2>2. m.ctr \in Nat /\ m.pkt \in 1 .. MaxPackets /\ obj[n][i] \in Session
    BY ZenonT(30), <2>1 DEF Packet
  <2>3. Admit(obj[n][i].replay, m.ctr) \in ReplayWindowType
    BY Zenon, <1>7, <2>2, AdmitType DEF Deliver, Session
  <2>4. [obj[n][i] EXCEPT !.replay = Admit(@, m.ctr)] \in Session
    BY Zenon, <2>2, <2>3 DEF Session
  <2>5. obj' \in [Nodes -> [Ids -> Session]]
    <3>1. obj' = [obj EXCEPT ![n] = [obj[n] EXCEPT ![i] = [obj[n][i] EXCEPT !.replay = Admit(@, m.ctr)]]]
      BY Zenon, <1>7 DEF Deliver
    <3>2. [obj[n] EXCEPT ![i] = [obj[n][i] EXCEPT !.replay = Admit(@, m.ctr)]] \in [Ids -> Session]
      BY Zenon, <2>1, <2>4
    <3>. QED
      BY Zenon, <3>1, <3>2
  <2>6. delivered' \in [Nodes -> [1 .. MaxPackets -> Nat]]
    <3>1. [delivered[n] EXCEPT ![m.pkt] = @ + 1] \in [1 .. MaxPackets -> Nat]
      BY ZenonT(30), <2>2, CountUp
    <3>2. delivered' = delivered \/ delivered' = [delivered EXCEPT ![n] = [delivered[n] EXCEPT ![m.pkt] = @ + 1]]
      BY Zenon, <1>7 DEF Deliver, HandOver
    <3>. QED
      BY ZenonT(30), <3>1, <3>2
  <2>7. idle' \subseteq Nodes
    BY Zenon, <1>7 DEF Deliver, Touch
  <2>8. rx' \in [Nodes -> [Workers -> RxState]]
    BY Zenon, <1>7, ReadingType DEF Deliver
  <2>. QED
    BY Zenon, <1>7, <2>5, <2>6, <2>7, <2>8 DEF Deliver
<1>8. ASSUME NEW n \in Nodes, NEW w \in Workers, ReplayDrop(n, w)
      PROVE  TypeOK'
  BY Zenon, <1>8, ReadingType DEF ReplayDrop
<1>. QED
  BY Zenon, <1>1, <1>2, <1>3, <1>4, <1>5, <1>6, <1>7, <1>8 DEF Receive

\* The sending goroutines keep the types.
LEMMA SendType ==
  ASSUME TypeOK, RefsOK, ObjectsOK, Send
  PROVE  TypeOK'
<1>. USE DEF TypeOK, heldVars, heapVars, shakeVars, netVars, countVars, pathVars
<1>1. ASSUME NEW n \in Nodes, NEW g \in Senders, LoadSession(n, g)
      PROVE  TypeOK'
  BY Zenon, <1>1 DEF LoadSession
<1>2. ASSUME NEW n \in Nodes, NEW g \in Senders, SendEncrypted(n, g)
      PROVE  TypeOK'
  <2>1. tx[n][g] \in Made(n)
    BY Zenon, <1>2 DEF SendEncrypted, RefsOK
  <2>2. /\ obj' \in [Nodes -> [Ids -> Session]]
        /\ packets' \in 0 .. MaxPackets
        /\ packetNet' \subseteq Packet
    BY Zenon, <1>2, <2>1, SealType DEF SendEncrypted, PacketTypes
  <2>. QED
    BY Zenon, <1>2, <2>2 DEF SendEncrypted
<1>. QED
  BY Zenon, <1>1, <1>2 DEF Send

\* Time, the path and restarts keep the types.
LEMMA EnvironmentType ==
  ASSUME TypeOK, Environment
  PROVE  TypeOK'
<1>. USE DEF TypeOK, heldVars, heapVars, shakeVars, netVars, countVars, pathVars
<1>1. ASSUME NEW n \in Nodes, GoIdle(n)
      PROVE  TypeOK'
  BY Zenon, <1>1 DEF GoIdle
<1>2. CASE GoAged
  BY Zenon, <1>2 DEF GoAged
<1>3. ASSUME NEW a \in Addrs, Rebind(a)
      PROVE  TypeOK'
  BY ZenonT(30), <1>3 DEF Rebind
<1>4. ASSUME NEW n \in Nodes, Crash(n)
      PROVE  TypeOK'
  <2>1. rx' \in [Nodes -> [Workers -> RxState]]
    BY Zenon, <1>4, ReadingType DEF Crash
  <2>2. hellos' \in Seq([cn : Nonces, sn : Ids])
    BY <1>4 DEF Crash
  <2>3. session' \in [Nodes -> Ids \cup {Nil}] /\ idle' \subseteq Nodes /\ aged' \subseteq {Iran}
    BY Zenon, <1>4 DEF Crash, Publish
  <2>4. sup' \in [Nodes -> SupState] /\ tx' \in [Nodes -> [Senders -> Ids \cup {Nil}]]
    BY Zenon, <1>4, SupType DEF Crash
  <2>5. crashes' \in 0 .. MaxCrashes /\ pending' \in Nonces \cup {0}
    BY <1>4 DEF Crash
  <2>6. UNCHANGED <<heapVars, handshakes, netVars, countVars, addr>>
    BY Zenon, <1>4 DEF Crash
  <2>. QED
    BY Zenon, <2>1, <2>2, <2>3, <2>4, <2>5, <2>6
<1>. QED
  BY Zenon, <1>1, <1>2, <1>3, <1>4 DEF Environment

\* The initial state has the types.
LEMMA InitType == Init => TypeOK
<1>. SUFFICES ASSUME Init PROVE TypeOK
  BY Zenon
<1>1. Blank \in Session
  BY Zenon, NewWindowType DEF Blank, Session, Endpoints
<1>2. sup \in [Nodes -> SupState]
  BY Zenon, SupType DEF Init
<1>3. rx \in [Nodes -> [Workers -> RxState]]
  BY Zenon, ReadingType DEF Init
<1>4. obj \in [Nodes -> [Ids -> Session]]
  BY Zenon, <1>1 DEF Init
<1>5. hellos \in Seq([cn : Nonces, sn : Ids])
  BY DEF Init
<1>6. /\ session \in [Nodes -> Ids \cup {Nil}]
      /\ made \in [Nodes -> 0 .. MaxSessions]
      /\ tx \in [Nodes -> [Senders -> Ids \cup {Nil}]]
      /\ delivered \in [Nodes -> [1 .. MaxPackets -> Nat]]
  BY DEF Init
<1>7. /\ idle \subseteq Nodes
      /\ aged \subseteq {Iran}
      /\ handshakes \in 0 .. MaxHandshakes
      /\ pending \in Nonces \cup {0}
      /\ helloNet \subseteq Hello
      /\ ackNet \subseteq Ack
      /\ packetNet \subseteq Packet
      /\ addr \in Addrs
      /\ packets \in 0 .. MaxPackets
      /\ crashes \in 0 .. MaxCrashes
  BY DEF Init
<1>. QED
  BY Zenon, <1>2, <1>3, <1>4, <1>5, <1>6, <1>7 DEF TypeOK

\* Every step keeps the types, given the parts of the invariant that say what
\* the goroutines hold.
LEMMA NextType ==
  ASSUME TypeOK, RefsOK, WorkersOK, ObjectsOK, PairsAgreed, [Next]_vars
  PROVE  TypeOK'
<1>1. CASE UNCHANGED vars
  BY Zenon, <1>1 DEF vars, TypeOK, heldVars, heapVars, shakeVars, netVars, countVars, pathVars
<1>. QED
  BY Zenon, <1>1, SuperviseType, ReceiveType, SendType, EnvironmentType DEF Next

----------------------------------------------------------------------------
(* Keys, counters and windows.                                             *)

\* The types in the form in which the proofs below use them.
LEMMA HeapTypes ==
  ASSUME TypeOK
  PROVE  /\ \A n \in Nodes : made[n] \in 0 .. MaxSessions /\ made[n] \in Int
         /\ \A n \in Nodes : \A i \in Made(n) :
              /\ i \in Ids
              /\ obj[n][i] \in Session
              /\ obj[n][i].tx \in Nat
              /\ obj[n][i].replay \in ReplayWindowType
         /\ \A p \in packetNet : p \in Packet /\ p.ctr \in Nat /\ p.pkt \in 1 .. MaxPackets
<1>1. \A n \in Nodes : made[n] \in 0 .. MaxSessions /\ made[n] \in Int
  BY DEF TypeOK
<1>2. \A n \in Nodes : \A i \in Made(n) : i \in Ids /\ obj[n][i] \in Session
  <2>. SUFFICES ASSUME NEW n \in Nodes, NEW i \in 1 .. made[n]
                PROVE  i \in Ids /\ obj[n][i] \in Session
    BY Zenon DEF Made
  <2>1. i \in Ids
    BY <1>1
  <2>2. obj[n] \in [Ids -> Session]
    BY Zenon DEF TypeOK
  <2>. QED
    BY Zenon, <2>1, <2>2
<1>3. \A s \in Session : s.tx \in Nat /\ s.replay \in ReplayWindowType
  BY Zenon DEF Session
<1>4. \A p \in Packet : p.ctr \in Nat /\ p.pkt \in 1 .. MaxPackets
  BY Zenon DEF Packet
<1>. QED
  BY Zenon, <1>1, <1>2, <1>3, <1>4 DEF TypeOK

\* A key belongs to one session object of one process: the label tells the
\* processes apart, a client nonce the sessions of Iran, a server nonce those
\* of Kharej.
LEMMA KeyOwner ==
  ASSUME TypeOK, ObjectsOK, NonceUsedOnce,
         NEW n \in Nodes, NEW i \in Made(n), NEW m \in Nodes, NEW j \in Made(m),
         TxKey(n, obj[n][i]) = TxKey(m, obj[m][j])
  PROVE  n = m /\ i = j
<1>1. /\ obj[n][i].cn = obj[m][j].cn
      /\ obj[n][i].sn = obj[m][j].sn
      /\ n = m
  <2>1. /\ TxKey(n, obj[n][i]).cn = obj[n][i].cn
        /\ TxKey(n, obj[n][i]).sn = obj[n][i].sn
        /\ TxKey(n, obj[n][i]).label = IF n = Iran THEN "c2s" ELSE "s2c"
    BY Zenon DEF TxKey
  <2>2. /\ TxKey(m, obj[m][j]).cn = obj[m][j].cn
        /\ TxKey(m, obj[m][j]).sn = obj[m][j].sn
        /\ TxKey(m, obj[m][j]).label = IF m = Iran THEN "c2s" ELSE "s2c"
    BY Zenon DEF TxKey
  <2>. QED
    BY Zenon, <2>1, <2>2
<1>2. CASE n = Iran
  BY Zenon, <1>1, <1>2 DEF NonceUsedOnce
<1>3. CASE n = Kharej
  BY <1>1, <1>3 DEF ObjectsOK, Made
<1>. QED
  BY Zenon, <1>1, <1>2, <1>3

\* So does the key that a process opens packets with.
LEMMA OpenerOwner ==
  ASSUME TypeOK, ObjectsOK, NonceUsedOnce,
         NEW n \in Nodes, NEW i \in Made(n), NEW j \in Made(n),
         RxKey(n, obj[n][i]) = RxKey(n, obj[n][j])
  PROVE  i = j
<1>1. /\ obj[n][i].cn = obj[n][j].cn
      /\ obj[n][i].sn = obj[n][j].sn
  BY Zenon DEF RxKey, TxKey
<1>2. CASE n = Iran
  BY Zenon, <1>1, <1>2 DEF NonceUsedOnce
<1>3. CASE n = Kharej
  BY Zenon, <1>1, <1>3 DEF ObjectsOK, Made
<1>. QED
  BY Zenon, <1>2, <1>3

----------------------------------------------------------------------------
(* What a step does to the session objects: nothing, or it derives one, or *)
(* seals with one, or opens with one.                                      *)

\* Nonces, and so keys, of the sessions a process has are never changed.
Grows ==
  \A n \in Nodes :
    /\ made[n] <= made'[n]
    /\ \A i \in Made(n) : /\ obj'[n][i].cn = obj[n][i].cn
                          /\ obj'[n][i].sn = obj[n][i].sn
                          /\ obj'[n][i].peer = obj[n][i].peer

\* A step without a new object.
LEMMA GrowsQuiet ==
  ASSUME TypeOK, UNCHANGED <<obj, made>>
  PROVE  Grows
  BY HeapTypes DEF Grows

\* deriveSession adds an object and leaves the others alone.
LEMMA DeriveEffect ==
  ASSUME TypeOK, NEW n \in Nodes, NEW cn \in Nonces, NEW sn \in Ids, NEW a \in Endpoints,
         Derive(n, cn, sn, a)
  PROVE  /\ made'[n] = made[n] + 1
         /\ \A m \in Nodes \ {n} : made'[m] = made[m]
         /\ \A m \in Nodes : \A i \in Made(m) : obj'[m][i] = obj[m][i]
         /\ obj'[n][made[n] + 1] = NewSession(cn, sn, a)
         /\ obj'[n][made[n] + 1].cn = cn
         /\ obj'[n][made[n] + 1].sn = sn
         /\ obj'[n][made[n] + 1].peer = a
         /\ Made(n)' = Made(n) \cup {made[n] + 1}
         /\ \A m \in Nodes \ {n} : Made(m)' = Made(m)
         /\ Grows
<1>1. made[n] \in Nat /\ made[n] + 1 \in Ids
  BY HeapTypes, DeriveType
<1>2. made'[n] = made[n] + 1 /\ \A m \in Nodes \ {n} : made'[m] = made[m]
  BY Zenon DEF Derive, TypeOK
<1>3. \A m \in Nodes : \A i \in Made(m) : obj'[m][i] = obj[m][i]
  <2>. SUFFICES ASSUME NEW m \in Nodes, NEW i \in Made(m)
                PROVE  obj'[m][i] = obj[m][i]
    BY Zenon
  <2>1. i \in Ids /\ (m = n => i # made[n] + 1)
    BY HeapTypes, <1>1 DEF Made
  <2>. QED
    BY Zenon, <1>1, <2>1 DEF Derive, TypeOK
<1>4. obj'[n][made[n] + 1] = NewSession(cn, sn, a)
  BY Zenon, <1>1 DEF Derive, TypeOK
<1>5. Made(n)' = Made(n) \cup {made[n] + 1} /\ \A m \in Nodes \ {n} : Made(m)' = Made(m)
  BY <1>1, <1>2 DEF Made
<1>6. Grows
  BY <1>2, <1>3, HeapTypes DEF Grows
<1>. QED
  BY <1>2, <1>3, <1>4, <1>5, <1>6, NewSessionType

\* sendEncrypted advances one counter and writes one packet.
LEMMA SealEffect ==
  ASSUME TypeOK, NEW n \in Nodes, NEW i \in Made(n), NEW type, Seal(n, i, type),
         UNCHANGED made
  PROVE  /\ obj'[n][i].tx = obj[n][i].tx + 1
         /\ \A m \in Nodes : \A j \in Made(m) :
              /\ obj'[m][j].cn = obj[m][j].cn
              /\ obj'[m][j].sn = obj[m][j].sn
              /\ obj'[m][j].peer = obj[m][j].peer
              /\ obj'[m][j].replay = obj[m][j].replay
              /\ obj[m][j].tx <= obj'[m][j].tx
         /\ \A m \in Nodes : Made(m)' = Made(m)
         /\ Grows
<1>. DEFINE s == [obj[n][i] EXCEPT !.tx = @ + 1]
<1>1. i \in Ids /\ obj[n][i] \in Session /\ obj[n][i].tx \in Nat
  BY Zenon, HeapTypes
<1>2. /\ s.tx = obj[n][i].tx + 1
      /\ s.cn = obj[n][i].cn
      /\ s.sn = obj[n][i].sn
      /\ s.peer = obj[n][i].peer
      /\ s.replay = obj[n][i].replay
  BY Zenon, <1>1 DEF Session
<1>3. obj'[n][i] = s
  BY Zenon, <1>1 DEF Seal, TypeOK
<1>4. \A m \in Nodes : \A j \in Made(m) : (m = n /\ j = i) \/ obj'[m][j] = obj[m][j]
  <2>. SUFFICES ASSUME NEW m \in Nodes, NEW j \in Made(m), ~(m = n /\ j = i)
                PROVE  obj'[m][j] = obj[m][j]
    BY Zenon
  <2>1. j \in Ids
    BY Zenon, HeapTypes
  <2>. QED
    BY Zenon, <1>1, <2>1 DEF Seal, TypeOK
<1>. HIDE DEF s
<1>5. \A m \in Nodes : \A j \in Made(m) :
              /\ obj'[m][j].cn = obj[m][j].cn
              /\ obj'[m][j].sn = obj[m][j].sn
              /\ obj'[m][j].peer = obj[m][j].peer
              /\ obj'[m][j].replay = obj[m][j].replay
              /\ obj[m][j].tx <= obj'[m][j].tx
  BY <1>1, <1>2, <1>3, <1>4, HeapTypes
<1>6. Grows
  BY <1>5, HeapTypes DEF Grows
<1>. QED
  BY Zenon, <1>2, <1>3, <1>5, <1>6 DEF Made

\* handleEncrypted advances one window.
LEMMA DeliverEffect ==
  ASSUME TypeOK, WorkersOK, NEW n \in Nodes, NEW w \in Workers, Deliver(n, w)
  PROVE  /\ rx[n][w].ref \in Made(n)
         /\ rx[n][w].arg \in packetNet
         /\ rx[n][w].arg.key = RxKey(n, obj[n][rx[n][w].ref])
         /\ Admits(obj[n][rx[n][w].ref].replay, rx[n][w].arg.ctr)
         /\ obj'[n][rx[n][w].ref].replay
              = Admit(obj[n][rx[n][w].ref].replay, rx[n][w].arg.ctr)
         /\ \A m \in Nodes : \A j \in Made(m) :
              /\ obj'[m][j].cn = obj[m][j].cn
              /\ obj'[m][j].sn = obj[m][j].sn
              /\ obj'[m][j].peer = obj[m][j].peer
              /\ obj'[m][j].tx = obj[m][j].tx
              /\ (m = n /\ j = rx[n][w].ref) \/ obj'[m][j].replay = obj[m][j].replay
         /\ \A m \in Nodes : Made(m)' = Made(m)
         /\ Grows
<1>. DEFINE i == rx[n][w].ref
            p == rx[n][w].arg
            s == [obj[n][i] EXCEPT !.replay = Admit(@, p.ctr)]
<1>1. /\ i \in Made(n)
      /\ p \in packetNet
      /\ p.key = RxKey(n, obj[n][i])
      /\ Admits(obj[n][i].replay, p.ctr)
      /\ made' = made
  BY Zenon DEF Deliver, WorkersOK
<1>2. obj' = [obj EXCEPT ![n] = [obj[n] EXCEPT ![i] = s]]
  BY Zenon DEF Deliver
<1>3. i \in Ids /\ obj[n][i] \in Session
  BY Zenon, <1>1, HeapTypes
<1>4. /\ s.tx = obj[n][i].tx
      /\ s.cn = obj[n][i].cn
      /\ s.sn = obj[n][i].sn
      /\ s.peer = obj[n][i].peer
      /\ s.replay = Admit(obj[n][i].replay, p.ctr)
  BY Zenon, <1>3 DEF Session
<1>. HIDE DEF s, i, p
<1>5. obj'[n][i] = s
  BY Zenon, <1>2, <1>3 DEF TypeOK
<1>6. \A m \in Nodes : \A j \in Made(m) : (m = n /\ j = i) \/ obj'[m][j] = obj[m][j]
  <2>. SUFFICES ASSUME NEW m \in Nodes, NEW j \in Made(m), ~(m = n /\ j = i)
                PROVE  obj'[m][j] = obj[m][j]
    BY Zenon
  <2>1. j \in Ids
    BY Zenon, HeapTypes
  <2>. QED
    BY Zenon, <1>2, <1>3, <2>1 DEF TypeOK
<1>7. \A m \in Nodes : \A j \in Made(m) :
              /\ obj'[m][j].cn = obj[m][j].cn
              /\ obj'[m][j].sn = obj[m][j].sn
              /\ obj'[m][j].peer = obj[m][j].peer
              /\ obj'[m][j].tx = obj[m][j].tx
              /\ (m = n /\ j = i) \/ obj'[m][j].replay = obj[m][j].replay
  BY ZenonT(30), <1>4, <1>5, <1>6
<1>8. Grows
  BY <1>1, <1>7, HeapTypes DEF Grows
<1>9. \A m \in Nodes : Made(m)' = Made(m)
  BY Zenon, <1>1 DEF Made
<1>. QED
  BY Zenon, <1>1, <1>4, <1>5, <1>7, <1>8, <1>9 DEF i, p

\* The keys of the sessions there are stay what they are.
LEMMA KeysKept ==
  ASSUME TypeOK, Grows, TypeOK', NEW n \in Nodes, NEW i \in Made(n)
  PROVE  /\ i \in Made(n)'
         /\ TxKey(n, obj'[n][i]) = TxKey(n, obj[n][i])
         /\ RxKey(n, obj'[n][i]) = RxKey(n, obj[n][i])
<1>1. obj'[n][i].cn = obj[n][i].cn /\ obj'[n][i].sn = obj[n][i].sn
  BY Zenon DEF Grows
<1>2. made[n] \in Int /\ made'[n] \in Int /\ made[n] <= made'[n]
  BY SMTT(60) DEF Grows, TypeOK
<1>. QED
  BY <1>1, <1>2 DEF Made, TxKey, RxKey

USE SessionAssumption DEF Nodes, Iran, Kharej, Nil, Ids

----------------------------------------------------------------------------
(* Objects, packets and deliveries.                                        *)

\* The part of the invariant that speaks of objects, packets and deliveries.
Sealing ==
  /\ ObjectsOK
  /\ PacketsSealed
  /\ DeliveriesRefused
  /\ NonceNeverReused
  /\ DeliveredAtMostOnce

\* A step that leaves them alone.
LEMMA SealingQuiet ==
  ASSUME Sealing, UNCHANGED <<obj, made, packetNet, packets, delivered>>
  PROVE  Sealing'
<1>1. \A n \in Nodes : Made(n)' = Made(n)
  BY Zenon DEF Made
<1>2. ObjectsOK' /\ NonceNeverReused' /\ DeliveredAtMostOnce'
  BY Zenon, <1>1 DEF Sealing, ObjectsOK, NonceNeverReused, DeliveredAtMostOnce
<1>3. PacketsSealed'
  BY <1>1 DEF Sealing, PacketsSealed
<1>4. DeliveriesRefused'
  BY ZenonT(30), <1>1 DEF Sealing, DeliveriesRefused
<1>. QED
  BY Zenon, <1>2, <1>3, <1>4 DEF Sealing

\* A step that derives a session.
LEMMA SealingDerive ==
  ASSUME TypeOK, TypeOK', Sealing,
         NEW n \in Nodes, NEW cn \in Nonces, NEW sn \in Ids, NEW a \in Endpoints,
         Derive(n, cn, sn, a), n = Kharej => sn = made[Kharej] + 1 /\ a \in Addrs,
         UNCHANGED <<packetNet, packets, delivered>>
  PROVE  Sealing'
<1>1. ObjectsOK'
  BY SMTT(60), DeriveEffect, HeapTypes DEF Sealing, ObjectsOK
<1>2. PacketsSealed'
  <2>1. ASSUME NEW p \in packetNet
        PROVE  \E m \in Nodes : \E i \in Made(m)' :
                 p.key = TxKey(m, obj'[m][i]) /\ p.ctr <= obj'[m][i].tx
    <3>0. PICK m \in Nodes : \E i \in Made(m) : p.key = TxKey(m, obj[m][i]) /\ p.ctr <= obj[m][i].tx
      BY Zenon DEF Sealing, PacketsSealed
    <3>1. PICK i \in Made(m) : p.key = TxKey(m, obj[m][i]) /\ p.ctr <= obj[m][i].tx
      BY Zenon, <3>0
    <3>2. obj'[m][i] = obj[m][i] /\ i \in Made(m)'
      BY ZenonT(30), DeriveEffect, KeysKept
    <3>. QED
      BY Zenon, <3>1, <3>2
  <2>. QED
    BY Zenon, <2>1 DEF Sealing, PacketsSealed
<1>3. DeliveriesRefused'
  <2>1. ASSUME NEW m \in Nodes, NEW p \in packetNet, delivered[m][p.pkt] # 0
        PROVE  \E i \in Made(m)' : /\ RxKey(m, obj'[m][i]) = p.key
                                   /\ ~Admits(obj'[m][i].replay, p.ctr)
    <3>1. PICK i \in Made(m) : RxKey(m, obj[m][i]) = p.key /\ ~Admits(obj[m][i].replay, p.ctr)
      BY Zenon, <2>1 DEF Sealing, DeliveriesRefused
    <3>2. obj'[m][i] = obj[m][i] /\ i \in Made(m)'
      BY ZenonT(30), DeriveEffect, KeysKept
    <3>. QED
      BY Zenon, <3>1, <3>2
  <2>. QED
    BY Zenon, <2>1 DEF Sealing, DeliveriesRefused
<1>4. NonceNeverReused' /\ DeliveredAtMostOnce'
  BY Zenon DEF Sealing, NonceNeverReused, DeliveredAtMostOnce
<1>. QED
  BY Zenon, <1>1, <1>2, <1>3, <1>4 DEF Sealing

\* A step that seals a packet: its counter is beyond those of all packets
\* under the same key, since only this object has the key.
LEMMA SealingSeal ==
  ASSUME TypeOK, TypeOK', Sealing, NonceUsedOnce,
         NEW n \in Nodes, NEW i \in Made(n), NEW type \in PacketTypes, Seal(n, i, type),
         UNCHANGED <<made, delivered>>
  PROVE  Sealing'
<1>. DEFINE p == [type |-> type, key |-> TxKey(n, obj[n][i]), ctr |-> obj[n][i].tx + 1,
                  pkt |-> packets + 1, src |-> MyAddr(n), dst |-> obj[n][i].peer]
<1>1. packetNet' = packetNet \cup {p} /\ packets' = packets + 1
  BY Zenon DEF Seal
<1>2. /\ p.key = TxKey(n, obj[n][i])
      /\ p.ctr = obj[n][i].tx + 1
      /\ p.pkt = packets + 1
  BY Zenon
<1>. HIDE DEF p
<1>3. /\ obj[n][i].tx \in Nat
      /\ packets \in Nat
      /\ \A q \in packetNet : q.ctr \in Nat /\ q.pkt \in Nat
      /\ \A m \in Nodes : \A j \in Made(m) : obj[m][j].tx \in Nat
  <2>1. packets \in Nat
    BY DEF TypeOK
  <2>2. \A q \in packetNet : q.ctr \in Nat /\ q.pkt \in Nat
    BY HeapTypes
  <2>3. \A m \in Nodes : \A j \in Made(m) : obj[m][j].tx \in Nat
    BY Zenon, HeapTypes
  <2>. QED
    BY Zenon, <2>1, <2>2, <2>3
<1>4. \A m \in Nodes : Made(m)' = Made(m)
  BY Zenon, SealEffect
<1>5. /\ obj'[n][i].tx = obj[n][i].tx + 1
      /\ \A m \in Nodes : \A j \in Made(m) :
           /\ obj'[m][j].cn = obj[m][j].cn
           /\ obj'[m][j].sn = obj[m][j].sn
           /\ obj'[m][j].peer = obj[m][j].peer
           /\ obj'[m][j].replay = obj[m][j].replay
           /\ obj[m][j].tx <= obj'[m][j].tx
      /\ Grows
  BY Zenon, SealEffect
<1>6. \A m \in Nodes : \A j \in Made(m) : /\ TxKey(m, obj'[m][j]) = TxKey(m, obj[m][j])
                                          /\ RxKey(m, obj'[m][j]) = RxKey(m, obj[m][j])
                                          /\ obj'[m][j].tx \in Nat
  <2>. SUFFICES ASSUME NEW m \in Nodes, NEW j \in Made(m)
                PROVE  /\ TxKey(m, obj'[m][j]) = TxKey(m, obj[m][j])
                       /\ RxKey(m, obj'[m][j]) = RxKey(m, obj[m][j])
                       /\ obj'[m][j].tx \in Nat
    BY Zenon
  <2>1. j \in Ids
    BY Zenon, HeapTypes
  <2>2. obj'[m][j] \in Session
    BY SMTT(60), <2>1 DEF TypeOK
  <2>. QED
    BY Zenon, <1>5, <2>2, KeysKept DEF Session
<1>7. ObjectsOK'
  BY SMTT(60), <1>4, <1>5 DEF Sealing, ObjectsOK
<1>8. NonceNeverReused'
  <2>. SUFFICES ASSUME NEW q \in packetNet, q.key = p.key, q.ctr = p.ctr
                PROVE  FALSE
    BY Zenon, <1>1 DEF Sealing, NonceNeverReused
  <2>1. PICK m \in Nodes : \E j \in Made(m) : q.key = TxKey(m, obj[m][j]) /\ q.ctr <= obj[m][j].tx
    BY Zenon DEF Sealing, PacketsSealed
  <2>2. PICK j \in Made(m) : q.key = TxKey(m, obj[m][j]) /\ q.ctr <= obj[m][j].tx
    BY Zenon, <2>1
  <2>3. m = n /\ j = i
    BY <1>2, <2>2, KeyOwner DEF Sealing
  <2>. QED
    BY <1>2, <1>3, <2>2, <2>3
<1>9. PacketsSealed'
  <2>1. ASSUME NEW q \in packetNet'
        PROVE  \E m \in Nodes : \E j \in Made(m)' :
                 q.key = TxKey(m, obj'[m][j]) /\ q.ctr <= obj'[m][j].tx
    <3>1. CASE q = p
      BY <1>2, <1>3, <1>4, <1>5, <1>6, <3>1
    <3>2. CASE q \in packetNet
      <4>1. PICK m \in Nodes : \E j \in Made(m) : q.key = TxKey(m, obj[m][j]) /\ q.ctr <= obj[m][j].tx
        BY Zenon, <3>2 DEF Sealing, PacketsSealed
      <4>2. PICK j \in Made(m) : q.key = TxKey(m, obj[m][j]) /\ q.ctr <= obj[m][j].tx
        BY ZenonT(30), <4>1
      <4>3. q.ctr <= obj'[m][j].tx
        BY <1>3, <1>5, <1>6, <3>2, <4>2
      <4>. QED
        BY Zenon, <1>4, <1>6, <4>2, <4>3
    <3>. QED
      BY ZenonT(30), <1>1, <3>1, <3>2
  <2>2. \A q \in packetNet : q.pkt <= packets
    BY Zenon DEF Sealing, PacketsSealed
  <2>3. \A q \in packetNet' : q.pkt <= packets'
    BY SMTT(60), <1>1, <1>2, <1>3, <2>2
  <2>4. \A q, r \in packetNet' : q.pkt = r.pkt => q = r
    BY <1>1, <1>2, <1>3, <2>2 DEF Sealing, PacketsSealed
  <2>. QED
    BY Zenon, <2>1, <2>3, <2>4 DEF PacketsSealed
<1>10. DeliveriesRefused'
  <2>1. \A m \in Nodes, k \in 1 .. MaxPackets : k > packets => delivered[m][k] = 0
    BY Zenon DEF Sealing, DeliveriesRefused
  <2>2. \A m \in Nodes, k \in 1 .. MaxPackets : k > packets' => delivered'[m][k] = 0
    BY <1>1, <1>3, <2>1
  <2>3. ASSUME NEW m \in Nodes, NEW q \in packetNet', delivered[m][q.pkt] # 0
        PROVE  \E j \in Made(m)' : /\ RxKey(m, obj'[m][j]) = q.key
                                   /\ ~Admits(obj'[m][j].replay, q.ctr)
    <3>1. q # p
      <4>1. packets + 1 \in 1 .. MaxPackets
        BY SMTT(60) DEF Seal, TypeOK
      <4>2. delivered[m][packets + 1] = 0
        BY <1>3, <2>1, <4>1
      <4>. QED
        BY Zenon, <1>2, <2>3, <4>2
    <3>2. PICK j \in Made(m) : RxKey(m, obj[m][j]) = q.key /\ ~Admits(obj[m][j].replay, q.ctr)
      BY Zenon, <1>1, <2>3, <3>1 DEF Sealing, DeliveriesRefused
    <3>. QED
      BY ZenonT(30), <1>4, <1>5, <1>6, <3>2
  <2>. QED
    BY Zenon, <2>2, <2>3 DEF DeliveriesRefused
<1>11. DeliveredAtMostOnce'
  BY Zenon DEF Sealing, DeliveredAtMostOnce
<1>. QED
  BY Zenon, <1>7, <1>8, <1>9, <1>10, <1>11 DEF Sealing

\* A step that accepts a packet: had the packet been handed over before, its
\* counter would be refused, since only this object opens it.
LEMMA SealingDeliver ==
  ASSUME TypeOK, TypeOK', Sealing, NonceUsedOnce, WorkersOK,
         NEW n \in Nodes, NEW w \in Workers, Deliver(n, w)
  PROVE  Sealing'
<1>. DEFINE i == rx[n][w].ref
            p == rx[n][w].arg
<1>1. /\ i \in Made(n)
      /\ p \in packetNet
      /\ p.key = RxKey(n, obj[n][i])
      /\ Admits(obj[n][i].replay, p.ctr)
      /\ obj'[n][i].replay = Admit(obj[n][i].replay, p.ctr)
      /\ \A m \in Nodes : \A j \in Made(m) :
           /\ obj'[m][j].cn = obj[m][j].cn
           /\ obj'[m][j].sn = obj[m][j].sn
           /\ obj'[m][j].peer = obj[m][j].peer
           /\ obj'[m][j].tx = obj[m][j].tx
           /\ (m = n /\ j = i) \/ obj'[m][j].replay = obj[m][j].replay
      /\ \A m \in Nodes : Made(m)' = Made(m)
      /\ Grows
  BY Zenon, DeliverEffect
<1>2. \/ delivered' = delivered
      \/ delivered' = [delivered EXCEPT ![n] = [delivered[n] EXCEPT ![p.pkt] = @ + 1]]
  BY Zenon DEF Deliver, HandOver
<1>3. packetNet' = packetNet /\ packets' = packets
  BY Zenon DEF Deliver, netVars
<1>. HIDE DEF i, p
<1>4. /\ p.pkt \in 1 .. MaxPackets /\ p.ctr \in Nat
      /\ \A q \in packetNet : q.pkt \in 1 .. MaxPackets /\ q.ctr \in Nat
      /\ \A m \in Nodes : \A j \in Made(m) : obj[m][j].replay \in ReplayWindowType
  BY Zenon, <1>1, HeapTypes
<1>5. \A m \in Nodes, k \in 1 .. MaxPackets :
        (m = n /\ k = p.pkt) \/ delivered'[m][k] = delivered[m][k]
  <2>. DEFINE d == [delivered[n] EXCEPT ![p.pkt] = @ + 1]
  <2>1. /\ delivered \in [Nodes -> [1 .. MaxPackets -> Nat]]
        /\ delivered[n] \in [1 .. MaxPackets -> Nat]
    BY Zenon DEF TypeOK
  <2>2. \A k \in 1 .. MaxPackets : k = p.pkt \/ d[k] = delivered[n][k]
    BY Zenon, <1>4, <2>1
  <2>3. delivered' = delivered \/ delivered' = [delivered EXCEPT ![n] = d]
    BY ZenonT(30), <1>2
  <2>. HIDE DEF d
  <2>4. \A m \in Nodes : delivered'[m] = delivered[m] \/ (m = n /\ delivered'[m] = d)
    BY Zenon, <2>1, <2>3
  <2>. QED
    BY ZenonT(30), <2>2, <2>4
<1>6. delivered'[n][p.pkt] \in {delivered[n][p.pkt], delivered[n][p.pkt] + 1}
  <2>1. delivered \in [Nodes -> [1 .. MaxPackets -> Nat]]
    BY Zenon DEF TypeOK
  <2>. QED
    BY ZenonT(30), <1>2, <1>4, <2>1
<1>7. \A m \in Nodes : \A j \in Made(m) : /\ TxKey(m, obj'[m][j]) = TxKey(m, obj[m][j])
                                          /\ RxKey(m, obj'[m][j]) = RxKey(m, obj[m][j])
  BY Zenon, <1>1, KeysKept
<1>8. delivered[n][p.pkt] = 0
  <2>. SUFFICES ASSUME delivered[n][p.pkt] # 0
                PROVE  FALSE
    BY Zenon
  <2>1. PICK j \in Made(n) : RxKey(n, obj[n][j]) = p.key /\ ~Admits(obj[n][j].replay, p.ctr)
    BY Zenon, <1>1 DEF Sealing, DeliveriesRefused
  <2>2. j = i
    BY SMTT(60), <1>1, <2>1, OpenerOwner DEF Sealing
  <2>. QED
    BY Zenon, <1>1, <2>1, <2>2
<1>9. ObjectsOK'
  BY SMTT(60), <1>1 DEF Sealing, ObjectsOK
<1>10. PacketsSealed'
  <2>1. ASSUME NEW q \in packetNet
        PROVE  \E m \in Nodes : \E j \in Made(m)' :
                 q.key = TxKey(m, obj'[m][j]) /\ q.ctr <= obj'[m][j].tx
    <3>1. PICK m \in Nodes : \E j \in Made(m) : q.key = TxKey(m, obj[m][j]) /\ q.ctr <= obj[m][j].tx
      BY Zenon DEF Sealing, PacketsSealed
    <3>. QED
      BY <1>1, <1>7, <3>1
  <2>. QED
    BY Zenon, <1>3, <2>1 DEF Sealing, PacketsSealed
<1>11. DeliveriesRefused'
  <2>1. p.pkt <= packets
    BY Zenon, <1>1 DEF Sealing, PacketsSealed
  <2>2. \A m \in Nodes, k \in 1 .. MaxPackets : k > packets' => delivered'[m][k] = 0
    <3>1. packets \in Int
      BY DEF TypeOK
    <3>2. \A m \in Nodes, k \in 1 .. MaxPackets : k > packets => delivered[m][k] = 0
      BY Zenon DEF Sealing, DeliveriesRefused
    <3>. QED
      BY SMTT(60), <1>3, <1>4, <1>5, <2>1, <3>1, <3>2
  <2>3. ASSUME NEW m \in Nodes, NEW q \in packetNet, delivered'[m][q.pkt] # 0
        PROVE  \E j \in Made(m)' : /\ RxKey(m, obj'[m][j]) = q.key
                                   /\ ~Admits(obj'[m][j].replay, q.ctr)
    <3>1. CASE m = n /\ q.pkt = p.pkt
      <4>1. q = p
        BY Zenon, <1>1, <3>1 DEF Sealing, PacketsSealed
      <4>2. ~Admits(obj'[n][i].replay, p.ctr)
        BY ZenonT(30), <1>1, <1>4, AdmittedIsRefused
      <4>. QED
        BY <1>1, <1>7, <3>1, <4>1, <4>2
    <3>2. CASE ~(m = n /\ q.pkt = p.pkt)
      <4>1. delivered[m][q.pkt] # 0
        BY Zenon, <1>4, <1>5, <2>3, <3>2
      <4>2. PICK j \in Made(m) : RxKey(m, obj[m][j]) = q.key /\ ~Admits(obj[m][j].replay, q.ctr)
        BY Zenon, <4>1 DEF Sealing, DeliveriesRefused
      <4>3. ~Admits(obj'[m][j].replay, q.ctr)
        <5>1. CASE m = n /\ j = i
          BY <1>1, <1>4, <4>2, <5>1, RefusalIsPermanent
        <5>2. CASE ~(m = n /\ j = i)
          BY Zenon, <1>1, <4>2, <5>2
        <5>. QED
          BY ZenonT(30), <5>1, <5>2
      <4>. QED
        BY ZenonT(30), <1>1, <1>7, <4>2, <4>3
    <3>. QED
      BY ZenonT(30), <3>1, <3>2
  <2>. QED
    BY Zenon, <1>3, <2>2, <2>3 DEF DeliveriesRefused
<1>12. NonceNeverReused'
  BY Zenon, <1>3 DEF Sealing, NonceNeverReused
<1>13. DeliveredAtMostOnce'
  BY <1>5, <1>6, <1>8 DEF Sealing, DeliveredAtMostOnce
<1>. QED
  BY Zenon, <1>9, <1>10, <1>11, <1>12, <1>13 DEF Sealing

----------------------------------------------------------------------------
(* What the goroutines hold, the nonces and the pairs of nonces.           *)

\* The part of the invariant that ties goroutines and messages to sessions.
Links ==
  /\ RefsOK
  /\ WorkersOK
  /\ NonceUsedOnce
  /\ PairsAgreed

\* References only move to the session of the moment, to a new one, or away.
RefsStep ==
  \A n \in Nodes :
    /\ session'[n] \in {session[n], Nil} \cup Made(n)'
    /\ \/ sup'[n] = sup[n]
       \/ /\ sup'[n].ref \in {session[n], Nil}
          /\ sup'[n].pc \in {"keepalive", "expire"} => sup'[n].ref # Nil
          /\ sup'[n].pc = "poll" => sup'[n].cn # 0
    /\ \A g \in Senders : tx'[n][g] \in {tx[n][g], session[n], Nil}

\* No receive goroutine begins a second half of its handler.
RxStep == \A n \in Nodes, w \in Workers : rx'[n][w] \in {rx[n][w], Reading}

\* Pointers to objects stay pointers to objects.
LEMMA RefsKept ==
  ASSUME TypeOK, TypeOK', RefsOK, Grows, RefsStep
  PROVE  RefsOK'
<1>1. \A n \in Nodes : Made(n) \subseteq Made(n)'
  BY Zenon, KeysKept
<1>2. ASSUME NEW n \in Nodes
      PROVE  /\ session'[n] \in Made(n)' \cup {Nil}
             /\ sup'[n].ref \in Made(n)' \cup {Nil}
             /\ sup'[n].pc \in {"keepalive", "expire"} => sup'[n].ref # Nil
             /\ sup'[n].pc = "poll" => sup'[n].cn # 0
  BY ZenonT(30), <1>1 DEF RefsOK, RefsStep
<1>3. ASSUME NEW n \in Nodes, NEW g \in Senders
      PROVE  tx'[n][g] \in Made(n)' \cup {Nil}
  BY Zenon, <1>1 DEF RefsOK, RefsStep
<1>. QED
  BY Zenon, <1>2, <1>3 DEF RefsOK

\* What the goroutines have read stays in agreement with what they will do.
LEMMA WorkersKept ==
  ASSUME TypeOK, TypeOK', WorkersOK, Grows, RxStep,
         ackNet \subseteq ackNet', packetNet \subseteq packetNet'
  PROVE  WorkersOK'
<1>1. Reading.pc = "read"
  BY Zenon DEF Reading
<1>2. \A n \in Nodes : Made(n) \subseteq Made(n)'
  BY Zenon, KeysKept
<1>3. \A w \in Workers :
        /\ rx'[Kharej][w].pc = "store" => rx'[Kharej][w].ref \in Made(Kharej)'
        /\ rx'[Iran][w].pc # "store"
        /\ rx'[Kharej][w].pc # "derive"
  BY Zenon, <1>1, <1>2 DEF WorkersOK, RxStep
<1>4. \A w \in Deriving' : rx'[Iran][w].arg \in ackNet'
  BY Zenon, <1>1 DEF WorkersOK, RxStep, Deriving
<1>5. ASSUME NEW n \in Nodes, NEW w \in Workers, rx'[n][w].pc = "accept"
      PROVE  /\ rx'[n][w].ref \in Made(n)'
             /\ rx'[n][w].arg \in packetNet'
             /\ rx'[n][w].arg.key = RxKey(n, obj'[n][rx'[n][w].ref])
  <2>1. rx'[n][w] = rx[n][w]
    BY Zenon, <1>1, <1>5 DEF RxStep
  <2>2. /\ rx[n][w].ref \in Made(n)
        /\ rx[n][w].arg \in packetNet
        /\ rx[n][w].arg.key = RxKey(n, obj[n][rx[n][w].ref])
    BY ZenonT(30), <1>5, <2>1 DEF WorkersOK
  <2>. QED
    BY Zenon, <2>1, <2>2, KeysKept
<1>. QED
  BY Zenon, <1>3, <1>4, <1>5 DEF WorkersOK

\* A client nonce stays in one place only.
LEMMA NoncesKept ==
  ASSUME TypeOK, TypeOK', WorkersOK, ObjectsOK, NonceUsedOnce, Grows, RxStep,
         made'[Iran] = made[Iran], handshakes' = handshakes, pending' \in {pending, 0}
  PROVE  NonceUsedOnce'
<1>1. Reading.pc = "read"
  BY Zenon DEF Reading
<1>2. \A w \in Deriving' : w \in Deriving /\ rx'[Iran][w] = rx[Iran][w]
  BY Zenon, <1>1 DEF Deriving, RxStep
<1>3. Made(Iran)' = Made(Iran) /\ \A i \in Made(Iran) : obj'[Iran][i].cn = obj[Iran][i].cn
  BY Zenon DEF Made, Grows
<1>4. \A i \in Made(Iran) : obj[Iran][i].cn # 0
  BY DEF ObjectsOK, Nonces
<1>5. \A w \in Deriving : rx[Iran][w].arg.cn # 0
  <2>1. \A m \in Ack : m.cn # 0
    BY DEF Ack, Nonces
  <2>2. \A w \in Deriving : rx[Iran][w].arg \in Ack
    BY ZenonT(30) DEF WorkersOK, TypeOK
  <2>. QED
    BY ZenonT(30), <2>1, <2>2
<1>6. handshakes \in Nat /\ pending' <= handshakes'
  BY SMTT(60) DEF TypeOK, NonceUsedOnce
<1>7. /\ \A i \in Made(Iran)' : obj'[Iran][i].cn <= handshakes' /\ obj'[Iran][i].cn # pending'
      /\ \A i, j \in Made(Iran)' : obj'[Iran][i].cn = obj'[Iran][j].cn => i = j
  BY SMTT(60), <1>3, <1>4 DEF NonceUsedOnce
<1>8. /\ \A w \in Deriving' : rx'[Iran][w].arg.cn <= handshakes' /\ rx'[Iran][w].arg.cn # pending'
      /\ \A v, w \in Deriving' : rx'[Iran][v].arg.cn = rx'[Iran][w].arg.cn => v = w
  BY SMTT(60), <1>2, <1>5 DEF NonceUsedOnce
<1>9. \A w \in Deriving', i \in Made(Iran)' : rx'[Iran][w].arg.cn # obj'[Iran][i].cn
  BY <1>2, <1>3 DEF NonceUsedOnce
<1>. QED
  BY Zenon, <1>6, <1>7, <1>8, <1>9 DEF NonceUsedOnce

\* What Kharej has derived it has derived for good.
LEMMA ServerKeeps ==
  ASSUME TypeOK, TypeOK', Grows, NEW cn, NEW sn, ServerHas(cn, sn)
  PROVE  ServerHas(cn, sn)'
  BY Zenon, KeysKept DEF ServerHas, Grows

\* Pairs of nonces stay those of objects of Kharej.
LEMMA PairsKept ==
  ASSUME TypeOK, TypeOK', PairsAgreed, Grows,
         made'[Iran] = made[Iran],
         \A m \in ackNet' : m \in ackNet \/ ServerHas(m.cn, m.sn)',
         \A j \in 1 .. Len(hellos') : ServerHas(hellos[j].cn, hellos[j].sn)'
  PROVE  PairsAgreed'
<1>1. Made(Iran)' = Made(Iran) /\ \A i \in Made(Iran) : /\ obj'[Iran][i].cn = obj[Iran][i].cn
                                                        /\ obj'[Iran][i].sn = obj[Iran][i].sn
  BY Zenon DEF Made, Grows
<1>2. \A i \in Made(Iran)' : ServerHas(obj[Iran][i].cn, obj[Iran][i].sn)'
  <2>. SUFFICES ASSUME NEW i \in Made(Iran)
                PROVE  ServerHas(obj[Iran][i].cn, obj[Iran][i].sn)'
    BY Zenon, <1>1
  <2>. DEFINE c == obj[Iran][i].cn
              t == obj[Iran][i].sn
  <2>1. t \in Made(Kharej) /\ obj[Kharej][t].cn = c
    BY Zenon DEF PairsAgreed, ServerHas
  <2>2. obj'[Iran][i].cn = c /\ obj'[Iran][i].sn = t
    BY Zenon, <1>1
  <2>. HIDE DEF c, t
  <2>3. t \in Made(Kharej)' /\ obj'[Kharej][t].cn = c
    BY ZenonT(30), <2>1, KeysKept DEF Grows
  <2>. QED
    BY Zenon, <2>2, <2>3 DEF ServerHas
<1>3. \A m \in ackNet' : ServerHas(m.cn, m.sn)'
  BY ZenonT(30), ServerKeeps DEF PairsAgreed
<1>. QED
  BY Zenon, <1>2, <1>3 DEF PairsAgreed

\* A step that draws no nonce, derives nothing and starts no second half.
LEMMA LinksQuiet ==
  ASSUME TypeOK, TypeOK', Links, ObjectsOK, Grows, RefsStep, RxStep,
         UNCHANGED <<made, handshakes, hellos, ackNet>>,
         pending' \in {pending, 0}, packetNet \subseteq packetNet'
  PROVE  Links'
<1>1. RefsOK'
  BY ZenonT(30), RefsKept DEF Links
<1>2. WorkersOK'
  BY Zenon, WorkersKept DEF Links
<1>3. NonceUsedOnce'
  BY Zenon, NoncesKept DEF Links
<1>4. \A j \in 1 .. Len(hellos') : ServerHas(hellos[j].cn, hellos[j].sn)'
  <2>. SUFFICES ASSUME NEW j \in 1 .. Len(hellos)
                PROVE  ServerHas(hellos[j].cn, hellos[j].sn)'
    BY Zenon
  <2>. DEFINE c == hellos[j].cn
              t == hellos[j].sn
  <2>1. t \in Made(Kharej) /\ obj[Kharej][t].cn = c
    BY Zenon DEF Links, PairsAgreed, ServerHas
  <2>2. hellos'[j].cn = c /\ hellos'[j].sn = t
    BY ZenonT(30)
  <2>. HIDE DEF c, t
  <2>3. t \in Made(Kharej)' /\ obj'[Kharej][t].cn = c
    BY ZenonT(30), <2>1, KeysKept DEF Grows
  <2>. QED
    BY ZenonT(30), <2>2, <2>3 DEF ServerHas
<1>5. PairsAgreed'
  BY Zenon, <1>4, PairsKept DEF Links
<1>. QED
  BY Zenon, <1>1, <1>2, <1>3, <1>5 DEF Links

\* The steps of the supervisors leave the receive side alone.
LEMMA SuperviseRefs ==
  ASSUME TypeOK, TypeOK', Links, Supervise
  PROVE  /\ RefsStep
         /\ UNCHANGED <<rx, ackNet, hellos, made>>
         /\ \/ UNCHANGED <<obj, packetNet, packets, delivered>>
            \/ \E n \in Nodes : SendKeepalive(n)
         /\ \/ handshakes' = handshakes /\ pending' \in {pending, 0}
            \/ HandshakeHello
<1>. USE DEF heldVars, heapVars, shakeVars, netVars, countVars, pathVars, RefsStep, SupAt, TypeOK
<1>1. CASE ClientCheckSession
  BY Zenon, <1>1 DEF ClientCheckSession
<1>2. CASE ClientNeedsHandshake
  BY ZenonT(30), <1>2 DEF ClientNeedsHandshake
<1>3. CASE HandshakeNoNonce
  BY ZenonT(30), <1>3 DEF HandshakeNoNonce
<1>4. CASE HandshakeHello
  <2>1. UNCHANGED <<session, tx, rx, ackNet, hellos, made, obj, packetNet, packets, delivered>>
    BY ZenonT(30), <1>4 DEF HandshakeHello
  <2>2. PICK b : sup' = [sup EXCEPT ![Iran] = [pc |-> "poll", ref |-> Nil, cn |-> handshakes + 1, base |-> b]]
    BY ZenonT(30), <1>4 DEF HandshakeHello
  <2>3. handshakes + 1 # 0
    OBVIOUS
  <2>4. RefsStep
    BY ZenonT(30), <2>1, <2>2, <2>3
  <2>. QED
    BY ZenonT(30), <1>4, <2>1, <2>4
<1>5. CASE HandshakeRetry
  BY Zenon, <1>5 DEF HandshakeRetry
<1>6. CASE HandshakeDone
  BY ZenonT(30), <1>6 DEF HandshakeDone, WithdrawPending
<1>7. CASE HandshakeFails
  BY ZenonT(30), <1>7 DEF HandshakeFails, WithdrawPending
<1>8. CASE ClientTickQuiet
  BY Zenon, <1>8 DEF ClientTickQuiet
<1>9. CASE ClientTick
  BY ZenonT(30), <1>9 DEF ClientTick
<1>10. CASE ServerTickAlive
  BY ZenonT(30), <1>10 DEF ServerTickAlive
<1>11. CASE ServerTickIdle
  BY ZenonT(30), <1>11 DEF ServerTickIdle
<1>12. CASE ServerExpire
  BY <1>12 DEF ServerExpire, ClearIf, Publish
<1>13. ASSUME NEW n \in Nodes, SendKeepalive(n)
       PROVE  /\ RefsStep
              /\ UNCHANGED <<rx, ackNet, hellos, made>>
              /\ handshakes' = handshakes /\ pending' \in {pending, 0}
  BY Zenon, <1>13 DEF SendKeepalive, FirstSup
<1>14. ASSUME NEW n \in Nodes, KeepaliveBeyondBound(n)
       PROVE  /\ RefsStep
              /\ UNCHANGED <<rx, ackNet, hellos, made>>
              /\ UNCHANGED <<obj, packetNet, packets, delivered>>
              /\ handshakes' = handshakes /\ pending' \in {pending, 0}
  BY ZenonT(30), <1>14 DEF KeepaliveBeyondBound, FirstSup
<1>. HIDE DEF RefsStep, TypeOK
<1>. QED
  BY ZenonT(30), <1>1, <1>2, <1>3, <1>4, <1>5, <1>6, <1>7, <1>8, <1>9, <1>10, <1>11, <1>12, <1>13, <1>14
     DEF Supervise

\* The supervisors keep the invariant.  A new nonce is beyond all that are in
\* use.
LEMMA SuperviseStep ==
  ASSUME TypeOK, TypeOK', Links, Sealing, Supervise
  PROVE  Links' /\ Sealing'
<1>1. RxStep
  BY Zenon, SuperviseRefs DEF RxStep
<1>2. Grows /\ Sealing' /\ packetNet \subseteq packetNet'
  <2>1. CASE UNCHANGED <<obj, packetNet, packets, delivered>>
    BY Zenon, <2>1, SuperviseRefs, GrowsQuiet, SealingQuiet
  <2>2. ASSUME NEW n \in Nodes, SendKeepalive(n)
        PROVE  Grows /\ Sealing' /\ packetNet \subseteq packetNet'
    <3>1. sup[n].ref \in Made(n)
      BY Zenon, <2>2 DEF SendKeepalive, Links, RefsOK
    <3>2. Seal(n, sup[n].ref, "keepalive") /\ UNCHANGED <<made, delivered>>
      BY Zenon, <2>2 DEF SendKeepalive
    <3>3. Grows
      BY Zenon, <3>1, <3>2, SealEffect
    <3>4. Sealing'
      BY ZenonT(30), <3>1, <3>2, SealingSeal DEF PacketTypes, Links
    <3>. QED
      BY Zenon, <3>2, <3>3, <3>4 DEF Seal
  <2>. QED
    BY ZenonT(30), <2>1, <2>2, SuperviseRefs
<1>3. CASE handshakes' = handshakes /\ pending' \in {pending, 0}
  BY ZenonT(30), <1>1, <1>2, <1>3, SuperviseRefs, LinksQuiet DEF Sealing
<1>4. CASE HandshakeHello
  <2>1. handshakes' = handshakes + 1 /\ pending' = handshakes + 1
    BY ZenonT(30), <1>4 DEF HandshakeHello
  <2>2. UNCHANGED <<obj, made, rx, ackNet, hellos, packetNet>>
    BY Zenon, <1>4 DEF HandshakeHello, heapVars
  <2>3. RefsOK' /\ WorkersOK'
    BY Zenon, <1>1, <1>2, <2>2, SuperviseRefs, RefsKept, WorkersKept DEF Links
  <2>4. PairsAgreed'
    BY ZenonT(30), <2>2 DEF Links, PairsAgreed, ServerHas, Made
  <2>5. NonceUsedOnce'
    <3>1. handshakes \in Nat
      BY SMTT(60) DEF TypeOK
    <3>2. \A i \in Made(Iran) : obj[Iran][i].cn \in Int /\ obj[Iran][i].cn <= handshakes
      BY DEF Sealing, ObjectsOK, Links, NonceUsedOnce, Nonces
    <3>3. \A w \in Deriving : rx[Iran][w].arg.cn \in Int /\ rx[Iran][w].arg.cn <= handshakes
      <4>1. \A m \in Ack : m.cn \in Int
        BY DEF Ack, Nonces
      <4>2. \A w \in Deriving : rx[Iran][w].arg \in Ack
        BY Zenon DEF Links, WorkersOK, TypeOK
      <4>. QED
        BY Zenon, <4>1, <4>2 DEF Links, NonceUsedOnce
    <3>4. Made(Iran)' = Made(Iran) /\ Deriving' = Deriving
      BY Zenon, <2>2 DEF Made, Deriving
    <3>5. \A i \in Made(Iran)' : obj'[Iran][i].cn <= handshakes' /\ obj'[Iran][i].cn # pending'
      BY <2>1, <2>2, <3>1, <3>2, <3>4
    <3>6. \A w \in Deriving' : rx'[Iran][w].arg.cn <= handshakes' /\ rx'[Iran][w].arg.cn # pending'
      BY <2>1, <2>2, <3>1, <3>3, <3>4
    <3>7. pending' <= handshakes'
      BY <2>1, <3>1
    <3>. QED
      BY SMTT(60), <2>2, <3>4, <3>5, <3>6, <3>7 DEF Links, NonceUsedOnce
  <2>. QED
    BY Zenon, <1>2, <2>3, <2>4, <2>5 DEF Links
<1>. QED
  BY Zenon, <1>2, <1>3, <1>4, SuperviseRefs
============================================================================

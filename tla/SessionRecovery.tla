-------------------------- MODULE SessionRecovery --------------------------
(***************************************************************************)
(* The session layer as far as its two sides find each other again: the     *)
(* handshake with its retries and its time-out, expiry, rekeying, restarts, *)
(* a change of Iran's address, and copies of old hellos and acks that come   *)
(* late.  Each process has one receive goroutine.  Packets are reduced to   *)
(* keepalives, and one arrives at once or not at all.  A nonce is drawn from *)
(* those that nobody holds any more, so that the system runs for ever.       *)
(*                                                                          *)
(* The network may do anything while it is down.  While it is up it loses   *)
(* nothing, and an answer comes before the six seconds of a handshake.      *)
(***************************************************************************)
EXTENDS Integers, FiniteSets

CONSTANTS
  ClientNonces,                \* bound: client nonces, recycled
  Addrs,                       \* addresses that Iran may have
  MaxHellos, MaxAcks,          \* bound: copies under way; what is more is lost
  MaxFaults                    \* bound: restarts and changes of address

ASSUME RecoveryAssumption ==
  /\ 0 \notin ClientNonces /\ "none" \notin Addrs
  /\ MaxHellos \in Nat \ {0} /\ MaxAcks \in Nat \ {0} /\ MaxFaults \in Nat

Iran == "iran"
Kharej == "kharej"
Nodes == {Iran, Kharej}
NoSession == <<0, 0>>
NoAddr == "none"
NoAck == [cn |-> 0, sn |-> 0]

VARIABLES
  sup,      \* clientSupervisor: "check", "start", "poll" or "wait"
  cn,       \* the nonce of its handshake
  pending,  \* the nonce an ack is waited for, 0 when pendingSet is false
  taken,    \* the ack that handleHelloAck derives a session from
  sess,     \* the session of each side, by its two nonces
  idle,     \* it has received nothing for longer than the session timeout
  aged,     \* Iran's is older than the rekeying period
  recent,   \* Iran's was created at most a second before the handshake started
  peer,     \* the address that Kharej's session belongs to
  life,     \* which run of Kharej this is: its nonce for a client nonce
  record,   \* the server nonce that Kharej has answered each client nonce with
  hellos, acks,  \* under way, with Iran's address
  addr,     \* Iran's address
  up,       \* the network works
  faults    \* bound

iranVars == <<sup, cn, pending, taken, aged, recent>>
sessVars == <<sess, idle>>
netVars  == <<hellos, acks>>
envVars  == <<addr, up, life, faults>>
vars == <<iranVars, sessVars, peer, record, netVars, envVars>>

Init ==
  /\ sup = "check" /\ cn = 0 /\ pending = 0
  /\ taken = NoAck
  /\ sess = [n \in Nodes |-> NoSession]
  /\ idle = [n \in Nodes |-> FALSE]
  /\ aged = FALSE /\ recent = FALSE
  /\ addr = CHOOSE a \in Addrs : TRUE
  /\ peer = NoAddr
  /\ record = [c \in ClientNonces |-> 0]
  /\ hellos = {} /\ acks = {}
  /\ up \in BOOLEAN
  /\ life = 1
  /\ faults = 0

\* Both sides can open what the other seals and sends.
Agreed ==
  /\ sess[Iran] # NoSession /\ sess[Iran] = sess[Kharej]
  /\ peer = addr

\* Nobody holds the nonce any more.
Unused(c) ==
  /\ c \notin {cn, pending, taken.cn, sess[Iran][1], sess[Kharej][1]}
  /\ record[c] = 0
  /\ \A m \in hellos \cup acks : m.cn # c

\* carrier.WritePacket.
Sent(msgs, m, max) == IF Cardinality(msgs) < max THEN msgs \cup {m} ELSE msgs

\* A new session has just received something.
Store(n, s) ==
  /\ sess' = [sess EXCEPT ![n] = s]
  /\ idle' = [idle EXCEPT ![n] = FALSE]

----------------------------------------------------------------------------
(* Iran.                                                                   *)

\* Mutant: an idle session is kept.
NeedHandshakeUnlessIdle == sess[Iran] = NoSession \/ aged

NeedHandshake == sess[Iran] = NoSession \/ idle[Iran] \/ aged

ClientCheck ==
  /\ sup = "check"
  /\ sup' = IF NeedHandshake THEN "start" ELSE "wait"
  /\ UNCHANGED <<cn, pending, taken, aged, recent, sessVars, peer, record, netVars, envVars>>

\* handshakeClient up to its loop.
HandshakeHello ==
  /\ sup = "start"
  /\ \E c \in ClientNonces :
       /\ Unused(c)
       /\ cn' = c /\ pending' = c
       /\ hellos' = Sent(hellos, [cn |-> c, from |-> addr], MaxHellos)
  /\ recent' \in {recent, FALSE}
  /\ sup' = "poll"
  /\ UNCHANGED <<taken, aged, sessVars, peer, record, acks, envVars>>

HandshakeRetry ==
  /\ sup = "poll" /\ ~(sess[Iran] # NoSession /\ recent)
  /\ hellos' = Sent(hellos, [cn |-> cn, from |-> addr], MaxHellos)
  /\ UNCHANGED <<iranVars, sessVars, peer, record, acks, envVars>>

\* The deferred function withdraws the nonce.
EndHandshake ==
  /\ pending' = IF pending = cn THEN 0 ELSE pending
  /\ cn' = 0
  /\ sup' = "wait"
  /\ UNCHANGED <<taken, aged, recent, sessVars, peer, record, netVars, envVars>>

HandshakeDone ==
  /\ sup = "poll" /\ sess[Iran] # NoSession /\ recent
  /\ EndHandshake

\* Nothing of the handshake is under way.
Quiet(c) == taken.cn # c /\ \A m \in hellos \cup acks : m.cn # c

\* The six seconds are over.
HandshakeFails ==
  /\ sup = "poll" /\ ~(sess[Iran] # NoSession /\ recent)
  /\ up => Quiet(cn)
  /\ EndHandshake

\* The ticker: a keepalive, then the next round.
Touched(n) == idle' = [idle EXCEPT ![n] = FALSE]

ClientTick ==
  /\ sup = "wait"
  /\ sup' = "check"
  /\ \/ Agreed /\ Touched(Kharej)
     \/ (up => ~Agreed) /\ UNCHANGED idle
  /\ UNCHANGED <<cn, pending, taken, aged, recent, sess, peer, record, netVars, envVars>>

\* handleHelloAck: the nonce is taken off first ...
TakeAck ==
  /\ taken = NoAck
  /\ \E a \in acks :
       /\ acks' \in {acks \ {a}} \cup (IF up THEN {} ELSE {acks})
       /\ IF a.to = addr /\ a.cn = pending
          THEN taken' = [cn |-> a.cn, sn |-> a.sn] /\ pending' = 0
          ELSE UNCHANGED <<taken, pending>>
  /\ UNCHANGED <<sup, cn, aged, recent, sessVars, peer, record, hellos, envVars>>

\* ... and the session stored later.
StoreSession ==
  /\ taken # NoAck
  /\ Store(Iran, <<taken.cn, taken.sn>>)
  /\ aged' = FALSE /\ recent' = TRUE
  /\ taken' = NoAck
  /\ UNCHANGED <<sup, cn, pending, peer, record, netVars, envVars>>

----------------------------------------------------------------------------
(* Kharej.                                                                 *)

\* A nonce with a record is answered with it, whatever address it comes from
\* now; any other makes a session.
HandleHello ==
  /\ \E h \in hellos :
       /\ hellos' \in {hellos \ {h}} \cup (IF up THEN {} ELSE {hellos})
       /\ \/ /\ record[h.cn] # 0
             /\ acks' = Sent(acks, [cn |-> h.cn, sn |-> record[h.cn], to |-> h.from], MaxAcks)
             /\ UNCHANGED <<sessVars, peer, record>>
          \/ /\ record[h.cn] = 0
             /\ record' = [record EXCEPT ![h.cn] = life]
             /\ Store(Kharej, <<h.cn, life>>)
             /\ acks' = Sent(acks, [cn |-> h.cn, sn |-> life, to |-> h.from], MaxAcks)
             /\ peer' = h.from
  /\ UNCHANGED <<iranVars, envVars>>

\* Two minutes later; the hello itself is not accepted any more by then.
RecordExpires ==
  /\ \E c \in ClientNonces :
       /\ record[c] # 0
       /\ c # cn /\ (up => Quiet(c))
       /\ \A h \in hellos : h.cn # c
       /\ record' = [record EXCEPT ![c] = 0]
  /\ UNCHANGED <<iranVars, sessVars, peer, netVars, envVars>>

\* serverSupervisor: an idle session is dropped, else a keepalive is sent.
ServerExpire ==
  /\ sess[Kharej] # NoSession /\ idle[Kharej]
  /\ Store(Kharej, NoSession) /\ peer' = NoAddr
  /\ UNCHANGED <<iranVars, record, netVars, envVars>>

ServerTick ==
  /\ sess[Kharej] # NoSession /\ ~idle[Kharej]
  /\ Agreed
  /\ Touched(Iran)
  /\ UNCHANGED <<iranVars, sess, peer, record, netVars, envVars>>

----------------------------------------------------------------------------
(* Time, the network and faults.                                           *)

\* Nothing of side n's session is under way and no ack is being handled: while
\* the network is up these take less time than the timeouts.
Settled(n) == up => sess[n][1] # cn /\ Quiet(sess[n][1]) /\ taken = NoAck

\* The session timeout passes without a packet that the session could open.
GoIdle(n) ==
  /\ sess[n] # NoSession /\ ~idle[n]
  /\ Settled(n) /\ (up => ~Agreed)
  /\ idle' = [idle EXCEPT ![n] = TRUE]
  /\ n = Iran => ~(sup = "poll" /\ recent)
  /\ recent' = (n # Iran /\ recent)
  /\ UNCHANGED <<sup, cn, pending, taken, aged, sess, peer, record, netVars, envVars>>

\* The rekeying period passes.
GoAged ==
  /\ sess[Iran] # NoSession /\ ~aged
  /\ Settled(Iran) /\ ~(sup = "poll" /\ recent)
  /\ aged' = TRUE
  /\ recent' = FALSE
  /\ UNCHANGED <<sup, cn, pending, taken, sessVars, peer, record, netVars, envVars>>

Lose ==
  /\ ~up
  /\ \/ \E h \in hellos : hellos' = hellos \ {h} /\ UNCHANGED acks
     \/ \E a \in acks : acks' = acks \ {a} /\ UNCHANGED hellos
  /\ UNCHANGED <<iranVars, sessVars, peer, record, envVars>>

NetworkChanges ==
  /\ up' = ~up
  /\ UNCHANGED <<iranVars, sessVars, peer, record, netVars, addr, life, faults>>

Fault == faults < MaxFaults /\ faults' = faults + 1

Rebind ==
  /\ Fault
  /\ addr' \in Addrs \ {addr}
  /\ UNCHANGED <<iranVars, sessVars, peer, record, netVars, up, life>>

RestartIran ==
  /\ Fault
  /\ sup' = "check" /\ cn' = 0 /\ pending' = 0 /\ taken' = NoAck
  /\ aged' = FALSE /\ recent' = FALSE
  /\ Store(Iran, NoSession)
  /\ UNCHANGED <<peer, record, netVars, addr, up, life>>

RestartKharej ==
  /\ Fault
  /\ record' = [c \in ClientNonces |-> 0]
  /\ life' = life + 1
  /\ Store(Kharej, NoSession) /\ peer' = NoAddr
  /\ UNCHANGED <<iranVars, netVars, addr, up>>

----------------------------------------------------------------------------
Client ==
  \/ ClientCheck \/ HandshakeHello \/ HandshakeDone \/ ClientTick

Next ==
  \/ Client \/ HandshakeRetry \/ HandshakeFails \/ TakeAck \/ StoreSession
  \/ HandleHello \/ RecordExpires \/ ServerExpire \/ ServerTick
  \/ \E n \in Nodes : GoIdle(n)
  \/ GoAged \/ Lose \/ NetworkChanges \/ Rebind \/ RestartIran \/ RestartKharej

\* The goroutines and tickers go on; what is under way arrives when the
\* network is up; a session that gets nothing is idle in the end.
Fairness ==
  /\ WF_vars(Client) /\ WF_vars(HandshakeRetry)
  /\ WF_vars(up /\ TakeAck) /\ WF_vars(StoreSession) /\ WF_vars(up /\ HandleHello)
  /\ WF_vars(RecordExpires) /\ WF_vars(ServerExpire)
  /\ \A n \in Nodes : WF_vars(GoIdle(n))

Spec == Init /\ [][Next]_vars /\ Fairness

----------------------------------------------------------------------------
\* Whatever was lost, came late or was restarted before, once the network works
\* the two sides agree on a session again and again, each rekeying included:
\* a side that is left with another session finds it idle, and Iran's
\* supervisor repeats the handshake.
SidesFindEachOther == <>[]up => []<>Agreed
============================================================================

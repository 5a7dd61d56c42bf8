----------------------------- MODULE HelloCache -----------------------------
(***************************************************************************)
(* The hello records of Kharej under real time (handleHello, transport.go). *)
(* A hello carries the time of Iran's clock and is valid while that differs *)
(* from Kharej's clock by at most Tolerance (90 s).  Its record answers the *)
(* copies of the hello for Life (120 s).  The validity is judged before     *)
(* helloMu is taken, the expiry of records after it.  A hello that is       *)
(* answered afresh while it was answered before makes Kharej leave the      *)
(* session that Iran uses.                                                  *)
(*                                                                          *)
(* What the code does not fix is a constant: how far a hello's time stamp   *)
(* may be ahead of Kharej's clock when it is made, and how long a goroutine *)
(* may be held up between the two judgements.  Each hello of SessionLayer   *)
(* is here one with a time stamp; the network repeats it for ever.          *)
(***************************************************************************)
EXTENDS Integers

CONSTANTS
  Nonces,     \* client nonces, each drawn once
  Goroutines, \* receive goroutines
  Tolerance,  \* how far the time stamp of a valid hello may be off
  Life,       \* how long a record lives
  Ahead,      \* how far Iran's clock may be ahead of Kharej's
  Wait,       \* how long a goroutine may wait for helloMu
  MaxTime     \* bound: the last moment of the model

ASSUME HelloCacheAssumption ==
  /\ Tolerance \in Nat /\ Life \in Nat /\ Ahead \in Nat /\ Wait \in Nat
  /\ MaxTime \in Nat

VARIABLES
  now,      \* Kharej's clock
  hellos,   \* the hellos that Iran has ever sent
  records,  \* tunnelState.hellos
  rx,       \* the receive goroutines: idle, or past the validity check
  answered  \* history: how often this process has answered a nonce afresh

helloVars == <<now, hellos, records, rx, answered>>

Hello  == [cn : Nonces, ts : Int]
Record == [cn : Nonces, expires : Nat]
Idle   == [pc |-> "read"]
Held(h) == [pc |-> "lock", hello |-> h, since |-> now]

HelloTypeOK ==
  /\ now \in Nat
  /\ hellos \subseteq Hello
  /\ records \subseteq Record
  /\ rx \in [Goroutines -> {Idle} \cup [pc : {"lock"}, hello : Hello, since : Nat]]
  /\ answered \in [Nonces -> Nat]

HelloInit ==
  /\ now = 0
  /\ hellos = {}
  /\ records = {}
  /\ rx = [w \in Goroutines |-> Idle]
  /\ answered = [cn \in Nonces |-> 0]

\* makeHello on Iran: a nonce of its own and the time of Iran's clock, which
\* may be behind by any amount and ahead by at most Ahead.
MakeHello(cn, ts) ==
  /\ \A h \in hellos : h.cn # cn
  /\ ts <= now + Ahead
  /\ hellos' = hellos \cup {[cn |-> cn, ts |-> ts]}
  /\ UNCHANGED <<now, records, rx, answered>>

\* The difference of clock and time stamp, in either direction.
Skew(h) == IF now >= h.ts THEN now - h.ts ELSE h.ts - now

\* A copy arrives and is within the tolerance; otherwise it is dropped.
CheckHello(w, h) ==
  /\ rx[w].pc = "read"
  /\ Skew(h) <= Tolerance
  /\ rx' = [rx EXCEPT ![w] = Held(h)]
  /\ UNCHANGED <<now, hellos, records, answered>>

\* Mutant: a record is gone at the moment of its expiry.
LiveStrict == {r \in records : now < r.expires}

\* helloMu is held: the records that have expired go first.
Live == {r \in records : now <= r.expires}

\* The hello is on record: the recorded ack again.
AnswerKnown(w) ==
  /\ rx[w].pc = "lock"
  /\ \E r \in Live : r.cn = rx[w].hello.cn
  /\ records' = Live
  /\ rx' = [rx EXCEPT ![w] = Idle]
  /\ UNCHANGED <<now, hellos, answered>>

\* Mutant: a record lives as long as a hello is valid.
AnswerFreshShort(w) ==
  /\ rx[w].pc = "lock"
  /\ \A r \in Live : r.cn # rx[w].hello.cn
  /\ records' = Live \cup {[cn |-> rx[w].hello.cn, expires |-> now + Tolerance]}
  /\ answered' = [answered EXCEPT ![rx[w].hello.cn] = @ + 1]
  /\ rx' = [rx EXCEPT ![w] = Idle]
  /\ UNCHANGED <<now, hellos>>

\* It is not: a session and a record of its own.
AnswerFresh(w) ==
  /\ rx[w].pc = "lock"
  /\ \A r \in Live : r.cn # rx[w].hello.cn
  /\ records' = Live \cup {[cn |-> rx[w].hello.cn, expires |-> now + Life]}
  /\ answered' = [answered EXCEPT ![rx[w].hello.cn] = @ + 1]
  /\ rx' = [rx EXCEPT ![w] = Idle]
  /\ UNCHANGED <<now, hellos>>

\* rand.Read or deriveSession failed: the records are purged, nothing else.
AnswerFails(w) ==
  /\ rx[w].pc = "lock"
  /\ \A r \in Live : r.cn # rx[w].hello.cn
  /\ records' = Live
  /\ rx' = [rx EXCEPT ![w] = Idle]
  /\ UNCHANGED <<now, hellos, answered>>

\* Time passes, but no goroutine waits for the mutex for longer than Wait.
ClockTick ==
  /\ now < MaxTime
  /\ \A w \in Goroutines : rx[w].pc = "lock" => now < rx[w].since + Wait
  /\ now' = now + 1
  /\ UNCHANGED <<hellos, records, rx, answered>>

\* Kharej restarts and has neither records nor sessions.
Restart ==
  /\ records' = {}
  /\ rx' = [w \in Goroutines |-> Idle]
  /\ answered' = [cn \in Nonces |-> 0]
  /\ UNCHANGED <<now, hellos>>

HelloNext ==
  \/ \E cn \in Nonces, ts \in 0 .. now + Ahead : MakeHello(cn, ts)
  \/ \E w \in Goroutines :
       \/ \E h \in hellos : CheckHello(w, h)
       \/ AnswerKnown(w) \/ AnswerFresh(w) \/ AnswerFails(w)
  \/ ClockTick
  \/ Restart

HelloSpec == HelloInit /\ [][HelloNext]_helloVars

----------------------------------------------------------------------------
\* A hello that passed its validity check is not answered afresh a second time
\* by the same process, however late its copies come and however long they
\* wait for the lock: its record is there as long as it is valid.  It takes
\* records that outlive the validity: Life >= Tolerance + Ahead + Wait, which
\* for the 120 s and 90 s of the code leaves 30 s for clocks and lock.
AnsweredOnce == \A cn \in Nonces : answered[cn] <= 1

\* The same with what makes it inductive: a nonce has one time stamp; a
\* goroutine holds a hello that was valid when it looked, not longer ago than
\* Wait; and a nonce that was answered has a record that expires no earlier
\* than any goroutine can still look for it.
HelloInv ==
  /\ \A h, g \in hellos : h.cn = g.cn => h = g
  /\ \A w \in Goroutines : rx[w].pc = "lock" =>
       /\ rx[w].hello \in hellos
       /\ rx[w].since <= now
       /\ now <= rx[w].since + Wait
       /\ rx[w].since <= rx[w].hello.ts + Tolerance
       /\ rx[w].hello.ts <= rx[w].since + Ahead
  /\ \A h \in hellos : h.ts <= now + Ahead
  /\ \A h \in hellos : answered[h.cn] > 0 =>
       (now <= h.ts + Tolerance + Wait =>
          \E r \in records : r.cn = h.cn /\ h.ts + Tolerance + Wait <= r.expires)
  /\ \A cn \in Nonces : answered[cn] > 0 => \E h \in hellos : h.cn = cn
  /\ AnsweredOnce
============================================================================

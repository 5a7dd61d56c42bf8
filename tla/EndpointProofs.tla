--------------------------- MODULE EndpointProofs ---------------------------
(***************************************************************************)
(* Proofs about three parts of an endpoint that stand alone, for every      *)
(* value of their constants: the replay window of a session, the records of *)
(* answered hellos, and run from openTun to its return.                     *)
(***************************************************************************)
EXTENDS ReplayWindow, HelloCache, Process, TLAPS

----------------------------------------------------------------------------
(* The window of crypto.go describes the accepted counters exactly and      *)
(* keeps the promise of AntiReplay.  TypeOK /\ WindowExact is inductive as   *)
(* it stands.                                                               *)

\* The types hold initially and are kept by every call of accept.
LEMMA TypeStep ==
  ASSUME TypeOK, [Next]_vars
  PROVE  TypeOK'
<1>1. ASSUME NEW c \in Counters, AcceptTrue(c)
      PROVE  TypeOK'
  <2>1. Admit(win, c) \in ReplayWindowType
    BY <1>1, WindowAssumption, CountersAssumption
       DEF TypeOK, AcceptTrue, ReplayWindowType, Bits, Admits, Admit
  <2>. QED
    BY <1>1, <2>1, CountersAssumption DEF TypeOK, AcceptTrue
<1>2. ASSUME NEW c \in Counters, AcceptFalse(c)
      PROVE  TypeOK'
  BY <1>2, CountersAssumption DEF TypeOK, AcceptFalse
<1>3. CASE UNCHANGED vars
  BY <1>3 DEF TypeOK, vars
<1>. QED
  BY <1>1, <1>2, <1>3 DEF Next

\* A call that returns true keeps the correspondence between bits and
\* accepted counters: a jump ahead shifts the bits with highest, and a late
\* packet sets just its own bit.
LEMMA ExactAfterAccept ==
  ASSUME TypeOK, WindowExact, NEW c \in Counters, AcceptTrue(c)
  PROVE  WindowExact'
<1>. DEFINE h == win.highest
            b == win.bitmap
<1>0. /\ c \in Nat
      /\ h \in Nat
      /\ b \subseteq Bits
      /\ c # 0
      /\ accepted' = accepted \cup {c}
      /\ accepted \subseteq Nat
  BY CountersAssumption DEF TypeOK, ReplayWindowType, AcceptTrue, Admits
<1>1. CASE c > h
  <2>1. /\ win'.highest = c
        /\ win'.bitmap = {d \in Bits : d = 0 \/ (d >= c - h /\ d - (c - h) \in b)}
    BY <1>1, <1>0 DEF AcceptTrue, Admit
  <2>2. \A a \in accepted' : 0 < a /\ a <= win'.highest
    BY <2>1, <1>0, <1>1 DEF WindowExact
  <2>3. ASSUME NEW d \in Bits
        PROVE  d \in win'.bitmap <=> (d <= win'.highest /\ win'.highest - d \in accepted')
    <3>0. d \in Nat /\ d < Window
      BY <2>3, WindowAssumption DEF Bits
    <3>1. CASE d = 0
      BY <3>1, <2>1, <1>0, <2>3
    <3>2. CASE d # 0 /\ d < c - h
      \* a counter between the old highest and the new one was never accepted
      BY <3>2, <3>0, <2>1, <1>0, <1>1, <2>3 DEF WindowExact
    <3>3. CASE d # 0 /\ d >= c - h
      <4>. DEFINE e == d - (c - h)
      <4>1. e \in Bits /\ (e <= h <=> d <= c) /\ h - e = c - d
        BY <3>3, <3>0, <1>0, <1>1, WindowAssumption DEF Bits
      <4>2. e \in b <=> (e <= h /\ h - e \in accepted)
        BY <4>1 DEF WindowExact
      <4>3. d \in win'.bitmap <=> e \in b
        BY <2>1, <3>3, <2>3
      <4>4. (d <= c /\ c - d \in accepted') <=> (d <= c /\ c - d \in accepted)
        BY <1>0, <3>3, <3>0
      <4>. QED
        BY <4>1, <4>2, <4>3, <4>4, <2>1
    <3>. QED
      BY <3>1, <3>2, <3>3, <3>0, <1>0
  <2>4. win'.highest \in accepted'
    BY <2>1, <1>0
  <2>. QED
    BY <2>2, <2>3, <2>4 DEF WindowExact
<1>2. CASE ~(c > h)
  <2>1. /\ win'.highest = h
        /\ win'.bitmap = b \cup {h - c}
        /\ h # 0
        /\ h - c \in Bits
    BY <1>2, <1>0, WindowAssumption DEF AcceptTrue, Admit, Admits, TypeOK, ReplayWindowType, Bits
  <2>2. \A a \in accepted' : 0 < a /\ a <= win'.highest
    <3>1. \A a \in accepted : 0 < a /\ a <= h
      BY DEF WindowExact
    <3>2. 0 < c /\ c <= h
      BY <1>0, <1>2
    <3>. QED
      BY <1>0, <2>1, <3>1, <3>2
  <2>3. ASSUME NEW d \in Bits
        PROVE  d \in win'.bitmap <=> (d <= win'.highest /\ win'.highest - d \in accepted')
    <3>0. d \in Nat
      BY <2>3, WindowAssumption DEF Bits
    <3>1. d \in b <=> (d <= h /\ h - d \in accepted)
      BY DEF WindowExact
    <3>. QED
      BY <3>0, <3>1, <2>1, <1>0, <1>2
  <2>4. win'.highest \in accepted'
    BY <2>1, <1>0 DEF WindowExact
  <2>. QED
    BY <2>2, <2>3, <2>4 DEF WindowExact
<1>. QED
  BY <1>1, <1>2

\* Types and exactness hold in every reachable state.
THEOREM WindowInvariant == Spec => [](TypeOK /\ WindowExact)
<1>1. Init => TypeOK /\ WindowExact
  BY WindowAssumption DEF Init, TypeOK, WindowExact, NewWindow, ReplayWindowType, Bits
<1>2. TypeOK /\ WindowExact /\ [Next]_vars => (TypeOK /\ WindowExact)'
  <2>. SUFFICES ASSUME TypeOK, WindowExact, [Next]_vars
                PROVE  TypeOK' /\ WindowExact'
    OBVIOUS
  <2>1. TypeOK'
    BY TypeStep
  <2>2. WindowExact'
    <3>1. ASSUME NEW c \in Counters, AcceptTrue(c)
          PROVE  WindowExact'
      BY <3>1, ExactAfterAccept
    <3>2. ASSUME NEW c \in Counters, AcceptFalse(c)
          PROVE  WindowExact'
      BY <3>2 DEF AcceptFalse, WindowExact
    <3>3. CASE UNCHANGED vars
      BY <3>3 DEF vars, WindowExact
    <3>. QED
      BY <3>1, <3>2, <3>3 DEF Next
  <2>. QED
    BY <2>1, <2>2
<1>. QED
  BY <1>1, <1>2, PTL DEF Spec

\* highest is a natural number and no bit outside the word is ever set, for
\* every width and every set of counters (replayWindow.accept, crypto.go).
THEOREM WindowTypes == Spec => []TypeOK
  BY WindowInvariant, PTL

\* In a state described exactly by its window, accept returns true for just
\* the counters AntiReplay accepts.
LEMMA SameVerdict ==
  ASSUME TypeOK, WindowExact, NEW c \in Counters
  PROVE  Admits(win, c) <=> Promise!Acceptable(c)
<1>. DEFINE h == win.highest
<1>0. c \in Nat /\ h \in Nat /\ accepted \subseteq Nat
  BY CountersAssumption DEF TypeOK, ReplayWindowType
<1>1. CASE c = 0
  BY <1>1 DEF Admits, Promise!Acceptable
<1>2. CASE c # 0 /\ h = 0
  <2>1. accepted = {}
    BY <1>2, <1>0 DEF WindowExact
  <2>. QED
    BY <2>1, <1>2 DEF Admits, Promise!Acceptable
<1>3. CASE c # 0 /\ h # 0 /\ c > h
  BY <1>3, <1>0, WindowAssumption DEF Admits, Promise!Acceptable, WindowExact
<1>4. CASE c # 0 /\ h # 0 /\ c <= h
  <2>1. h \in accepted
    BY <1>4 DEF WindowExact
  <2>2. (\A a \in accepted : a < c + Window) <=> h - c < Window
    BY <2>1, <1>0, <1>4, WindowAssumption DEF WindowExact
  <2>3. h - c < Window => (h - c \in win.bitmap <=> c \in accepted)
    <3>1. ASSUME h - c < Window
          PROVE  h - c \in Bits /\ h - (h - c) = c /\ h - c <= h
      BY <3>1, <1>0, <1>4, WindowAssumption DEF Bits
    <3>. QED
      BY <3>1 DEF WindowExact
  <2>. QED
    BY <2>2, <2>3, <1>4, <1>0 DEF Admits, Promise!Acceptable
<1>. QED
  BY <1>1, <1>2, <1>3, <1>4, <1>0

\* The sliding window implements AntiReplay for every width: each counter is
\* accepted at most once, and a fresh counter inside the window always is.
THEOREM WindowKeepsPromise == Spec => KeepsPromise
<1>1. Init => Promise!Init
  BY DEF Init, Promise!Init, Promise!NoVerdict
<1>2. TypeOK /\ WindowExact /\ [Next]_vars => [Promise!Next]_(Promise!vars)
  <2>. SUFFICES ASSUME TypeOK, WindowExact, [Next]_vars
                PROVE  [Promise!Next]_(Promise!vars)
    OBVIOUS
  <2>1. ASSUME NEW c \in Counters, AcceptTrue(c)
        PROVE  Promise!Accept(c)
    BY <2>1, SameVerdict DEF AcceptTrue, Promise!Accept
  <2>2. ASSUME NEW c \in Counters, AcceptFalse(c)
        PROVE  Promise!Refuse(c)
    BY <2>2, SameVerdict DEF AcceptFalse, Promise!Refuse
  <2>3. CASE UNCHANGED vars
    BY <2>3 DEF vars, Promise!vars
  <2>. QED
    BY <2>1, <2>2, <2>3 DEF Next, Promise!Next
<1>. QED
  BY <1>1, <1>2, WindowInvariant, PTL DEF Spec, KeepsPromise, Promise!Spec

----------------------------------------------------------------------------
(* A record that outlives the validity of its hello, by as much as clocks   *)
(* and lock may cost, keeps the hello from being answered afresh twice.     *)

\* What a goroutine past the validity check holds has the types it should.
LEMMA HeldTypes ==
  ASSUME HelloTypeOK, NEW w \in Goroutines, rx[w].pc = "lock"
  PROVE  rx[w].hello \in Hello /\ rx[w].since \in Nat
  BY DEF HelloTypeOK, Idle

\* The types are kept by every step.
LEMMA TypesKept == HelloTypeOK /\ [HelloNext]_helloVars => HelloTypeOK'
<1> SUFFICES ASSUME HelloTypeOK, [HelloNext]_helloVars PROVE HelloTypeOK'
  OBVIOUS
<1> USE HelloCacheAssumption
<1>1. CASE \E cn \in Nonces, ts \in 0 .. now + Ahead : MakeHello(cn, ts)
  BY <1>1 DEF HelloTypeOK, MakeHello, Hello
<1>2. ASSUME NEW w \in Goroutines, NEW h \in hellos, CheckHello(w, h) PROVE HelloTypeOK'
  <2>1. Held(h) \in [pc : {"lock"}, hello : Hello, since : Nat]
    BY DEF HelloTypeOK, Held
  <2> QED BY <1>2, <2>1 DEF HelloTypeOK, CheckHello
<1>3. ASSUME NEW w \in Goroutines, AnswerKnown(w) \/ AnswerFails(w) PROVE HelloTypeOK'
  BY <1>3 DEF HelloTypeOK, AnswerKnown, AnswerFails, Live
<1>4. ASSUME NEW w \in Goroutines, AnswerFresh(w) PROVE HelloTypeOK'
  <2>1. rx[w].hello.cn \in Nonces
    BY <1>4, HeldTypes DEF AnswerFresh, Hello
  <2>2. [cn |-> rx[w].hello.cn, expires |-> now + Life] \in Record
    BY <2>1 DEF HelloTypeOK, Record
  <2>3. records' \subseteq Record
    BY <1>4, <2>2 DEF AnswerFresh, Live, HelloTypeOK
  <2>4. answered' \in [Nonces -> Nat]
    BY <1>4, <2>1 DEF AnswerFresh, HelloTypeOK
  <2> QED BY <1>4, <2>3, <2>4 DEF AnswerFresh, HelloTypeOK
<1>5. CASE ClockTick
  BY <1>5 DEF HelloTypeOK, ClockTick
<1>6. CASE Restart
  BY <1>6 DEF HelloTypeOK, Restart
<1>7. CASE UNCHANGED helloVars
  BY <1>7 DEF HelloTypeOK, helloVars
<1> QED BY <1>1, <1>2, <1>3, <1>4, <1>5, <1>6, <1>7 DEF HelloNext

\* While a goroutine looks for a nonce that was answered, its record is live:
\* the look comes at most Wait after the check, the check at most Tolerance
\* after the time stamp.
LEMMA RecordThere ==
  ASSUME HelloTypeOK, HelloInv, NEW w \in Goroutines, rx[w].pc = "lock",
         answered[rx[w].hello.cn] > 0
  PROVE  \E r \in Live : r.cn = rx[w].hello.cn
<1> DEFINE h == rx[w].hello
<1>1. h \in hellos /\ h.ts \in Int /\ rx[w].since \in Nat /\ now \in Nat
  BY HeldTypes DEF HelloInv, HelloTypeOK, Hello
<1>2. now <= h.ts + Tolerance + Wait
  BY <1>1, HelloCacheAssumption DEF HelloInv
<1>3. PICK r \in records : r.cn = h.cn /\ h.ts + Tolerance + Wait <= r.expires
  BY <1>1, <1>2 DEF HelloInv
<1>4. r.expires \in Nat
  BY DEF HelloTypeOK, Record
<1> QED BY <1>1, <1>2, <1>3, <1>4, HelloCacheAssumption DEF Live

\* A purge spares every record that a valid hello still needs.
LEMMA PurgeSpares ==
  ASSUME HelloTypeOK, NEW h \in hellos, now <= h.ts + Tolerance + Wait,
         NEW r \in records, h.ts + Tolerance + Wait <= r.expires
  PROVE  r \in Live
<1>1. h.ts \in Int /\ now \in Nat /\ r.expires \in Nat
  BY DEF HelloTypeOK, Hello, Record
<1> QED BY <1>1, HelloCacheAssumption DEF Live

\* The invariant is inductive if records live long enough.
LEMMA HelloInvKept ==
  ASSUME Life >= Tolerance + Ahead + Wait, HelloTypeOK, HelloInv, [HelloNext]_helloVars
  PROVE  HelloInv'
<1> USE HelloCacheAssumption
<1>0. HelloTypeOK' BY TypesKept
<1>1. ASSUME NEW cn \in Nonces, NEW ts \in 0 .. now + Ahead, MakeHello(cn, ts)
      PROVE  HelloInv'
  <2> DEFINE m == [cn |-> cn, ts |-> ts]
  <2>1. /\ hellos' = hellos \cup {m} /\ m.cn = cn /\ m.ts = ts
        /\ \A h \in hellos : h.cn # cn
        /\ ts \in Int /\ ts <= now + Ahead
        /\ UNCHANGED <<now, records, rx, answered>>
    BY <1>1 DEF MakeHello, HelloTypeOK
  <2>2. answered[cn] = 0
    BY <2>1 DEF HelloInv, HelloTypeOK
  <2>3. \A h, g \in hellos' : h.cn = g.cn => h = g
    BY <2>1 DEF HelloInv
  <2>4. \A h \in hellos' : h.ts <= now' + Ahead
    BY <2>1 DEF HelloInv
  <2>5. \A h \in hellos' : answered'[h.cn] > 0 => h \in hellos
    BY <2>1, <2>2
  <2> QED BY <2>1, <2>3, <2>4, <2>5 DEF HelloInv, AnsweredOnce
<1>2. ASSUME NEW w \in Goroutines, NEW h \in hellos, CheckHello(w, h) PROVE HelloInv'
  <2>1. h.ts \in Int /\ now \in Nat
    BY DEF HelloTypeOK, Hello
  <2>2. now <= h.ts + Tolerance /\ h.ts <= now + Ahead
    BY <1>2, <2>1 DEF CheckHello, Skew, HelloInv
  <2>3. /\ rx' = [rx EXCEPT ![w] = Held(h)]
        /\ UNCHANGED <<now, hellos, records, answered>>
        /\ rx \in [Goroutines -> {Idle} \cup [pc : {"lock"}, hello : Hello, since : Nat]]
    BY <1>2 DEF CheckHello, HelloTypeOK
  <2>4. \A u \in Goroutines : rx'[u] = IF u = w THEN Held(h) ELSE rx[u]
    BY <2>3
  <2>5. Held(h).hello = h /\ Held(h).since = now
    BY DEF Held
  <2>6. \A u \in Goroutines : rx'[u].pc = "lock" =>
          /\ rx'[u].hello \in hellos
          /\ rx'[u].since <= now
          /\ now <= rx'[u].since + Wait
          /\ rx'[u].since <= rx'[u].hello.ts + Tolerance
          /\ rx'[u].hello.ts <= rx'[u].since + Ahead
    BY <2>1, <2>2, <2>4, <2>5 DEF HelloInv
  <2> QED BY <2>3, <2>6 DEF HelloInv, AnsweredOnce
<1>3. ASSUME NEW w \in Goroutines, AnswerKnown(w) \/ AnswerFails(w) PROVE HelloInv'
  <2>1. /\ records' = Live /\ rx' = [rx EXCEPT ![w] = Idle]
        /\ UNCHANGED <<now, hellos, answered>>
    BY <1>3 DEF AnswerKnown, AnswerFails
  <2>2. \A u \in Goroutines : rx'[u].pc = "lock" => rx'[u] = rx[u] /\ rx[u].pc = "lock"
    BY <2>1 DEF HelloTypeOK, Idle
  <2>3. \A h \in hellos : answered[h.cn] > 0 =>
          (now <= h.ts + Tolerance + Wait =>
             \E r \in Live : r.cn = h.cn /\ h.ts + Tolerance + Wait <= r.expires)
    BY PurgeSpares DEF HelloInv
  <2> QED BY <2>1, <2>2, <2>3 DEF HelloInv, AnsweredOnce
<1>4. ASSUME NEW w \in Goroutines, AnswerFresh(w) PROVE HelloInv'
  <2> DEFINE h == rx[w].hello
             n == [cn |-> h.cn, expires |-> now + Life]
  <2>1. /\ rx[w].pc = "lock" /\ \A r \in Live : r.cn # h.cn
        /\ records' = Live \cup {n} /\ rx' = [rx EXCEPT ![w] = Idle]
        /\ answered' = [answered EXCEPT ![h.cn] = @ + 1]
        /\ UNCHANGED <<now, hellos>>
    BY <1>4 DEF AnswerFresh
  <2>2. /\ h \in hellos /\ h.ts \in Int /\ h.cn \in Nonces /\ now \in Nat
        /\ rx[w].since \in Nat
    BY <2>1, HeldTypes DEF HelloInv, HelloTypeOK, Hello
  <2>3. answered[h.cn] = 0
    BY <2>1, <2>2, RecordThere DEF HelloTypeOK
  <2>4. \A cn \in Nonces : answered'[cn] = IF cn = h.cn THEN 1 ELSE answered[cn]
    BY <2>1, <2>2, <2>3 DEF HelloTypeOK
  <2>5. h.ts + Tolerance + Wait <= n.expires
    BY <2>1, <2>2 DEF HelloInv
  <2>6. \A u \in Goroutines : rx'[u].pc = "lock" => rx'[u] = rx[u] /\ rx[u].pc = "lock"
    BY <2>1 DEF HelloTypeOK, Idle
  <2>7. \A g \in hellos : answered'[g.cn] > 0 =>
          (now <= g.ts + Tolerance + Wait =>
             \E r \in records' : r.cn = g.cn /\ g.ts + Tolerance + Wait <= r.expires)
    <3> SUFFICES ASSUME NEW g \in hellos, answered'[g.cn] > 0,
                        now <= g.ts + Tolerance + Wait
                 PROVE  \E r \in records' : r.cn = g.cn /\ g.ts + Tolerance + Wait <= r.expires
      OBVIOUS
    <3>1. CASE g.cn = h.cn
      <4>1. g = h BY <3>1, <2>2 DEF HelloInv
      <4> QED BY Zenon, <4>1, <2>1, <2>5
    <3>2. CASE g.cn # h.cn
      <4>1. g.cn \in Nonces BY DEF HelloTypeOK, Hello
      <4>2. answered[g.cn] > 0 BY <3>2, <4>1, <2>4
      <4>3. PICK r \in records : r.cn = g.cn /\ g.ts + Tolerance + Wait <= r.expires
        BY <4>2 DEF HelloInv
      <4> QED BY <4>3, <2>1, PurgeSpares
    <3> QED BY <3>1, <3>2
  <2>8. AnsweredOnce'
    BY <2>4 DEF HelloInv, AnsweredOnce
  <2>9. \A cn \in Nonces : answered'[cn] > 0 => \E g \in hellos : g.cn = cn
    BY <2>2, <2>4 DEF HelloInv
  <2> QED BY <2>1, <2>6, <2>7, <2>8, <2>9 DEF HelloInv
<1>5. CASE ClockTick
  <2>1. now' = now + 1 /\ UNCHANGED <<hellos, records, rx, answered>> /\ now \in Nat
    BY <1>5 DEF ClockTick, HelloTypeOK
  <2>2. \A w \in Goroutines : rx[w].pc = "lock" =>
          /\ rx[w].since \in Nat
          /\ now + 1 <= rx[w].since + Wait
    BY <1>5, HeldTypes, <2>1 DEF ClockTick
  <2>3. \A h \in hellos : h.ts \in Int
    BY DEF HelloTypeOK, Hello
  <2> QED BY <2>1, <2>2, <2>3 DEF HelloInv, AnsweredOnce
<1>6. CASE Restart
  <2>1. /\ \A w \in Goroutines : rx'[w].pc # "lock"
        /\ \A cn \in Nonces : answered'[cn] = 0
        /\ UNCHANGED <<now, hellos>>
    BY <1>6 DEF Restart, Idle
  <2>2. \A h \in hellos : h.cn \in Nonces
    BY DEF HelloTypeOK, Hello
  <2> QED BY <2>1, <2>2 DEF HelloInv, AnsweredOnce
<1>7. CASE UNCHANGED helloVars
  BY <1>7 DEF HelloInv, AnsweredOnce, helloVars
<1> QED BY <1>1, <1>2, <1>3, <1>4, <1>5, <1>6, <1>7 DEF HelloNext

\* For all periods with Life >= Tolerance + Ahead + Wait, for any number of
\* goroutines and hellos and however often Kharej restarts, the record of a
\* hello that was answered stays in st.hellos for as long as a goroutine may
\* still look for it (handleHello).
THEOREM RepliesOutliveHellos ==
  ASSUME Life >= Tolerance + Ahead + Wait
  PROVE  HelloSpec => []HelloInv
<1>1. HelloInit => HelloTypeOK /\ HelloInv
  BY HelloCacheAssumption DEF HelloInit, HelloTypeOK, HelloInv, AnsweredOnce, Idle
<1>2. HelloTypeOK /\ HelloInv /\ [HelloNext]_helloVars => HelloTypeOK' /\ HelloInv'
  BY TypesKept, HelloInvKept
<1> QED BY <1>1, <1>2, PTL DEF HelloSpec

\* Hence handleHello never answers a valid hello afresh twice.
THEOREM HelloAnsweredOnce ==
  ASSUME Life >= Tolerance + Ahead + Wait
  PROVE  HelloSpec => []AnsweredOnce
<1>1. HelloInv => AnsweredOnce
  BY DEF HelloInv
<1> QED BY <1>1, RepliesOutliveHellos, PTL

----------------------------------------------------------------------------
(* run leaves nothing behind on any of the ways on which it returns, and    *)
(* the queues that it uses are the ones that openTun opened for it.         *)
(*                                                                          *)
(* The two are not inductive: what a return leaves behind depends on how    *)
(* far run has got.  Stage says, for each place in run, which of the TUN,   *)
(* the socket and the carrier are there.                                    *)

\* While openTun opens queues there is nothing else; from then on the open
\* files are the queues until the device is closed; the carrier is open from
\* the start of the workers until run closes it, and its socket with it.
Stage ==
  /\ main \in {"open", "single"} => fds \subseteq Asked /\ queues = {}
  /\ main \in {"setup", "carrier", "peer", "select"} =>
       fds = queues /\ queues \in {TunQueues, {FirstQueue}}
  /\ main \in {"open", "single", "setup", "carrier"} => ~socket
  /\ main \in {"open", "single", "setup", "carrier", "peer"} => carrier = "none"
  /\ main \in {"closeTun", "wait"} => ~socket /\ carrier = "closed"

RunInv == Stage /\ ExitIsClean

----------------------------------------------------------------------------
(* One lemma for each part of run, and one for all workers.                *)

\* openTun: the files of one attempt, all of them in the end.
LEMMA OpenKeeps ==
  ASSUME RunInv, OpenFails \/ \E q \in TunQueues : OpenQueue(q)
  PROVE  RunInv'
<1>1. CASE OpenFails
  BY <1>1 DEF RunInv, Stage, ExitIsClean, OpenFails, Asked
<1>2. ASSUME NEW q \in TunQueues, OpenQueue(q)
      PROVE  RunInv'
  <2>1. Asked \in {TunQueues, {FirstQueue}} /\ main \in {"open", "single"}
    BY <1>2 DEF Asked, OpenQueue
  <2>2. fds' \subseteq Asked
    BY <1>2 DEF OpenQueue, RunInv, Stage
  <2>3. CASE Asked \subseteq fds'
    <3>1. fds' = Asked /\ queues' = Asked /\ main' = "setup"
      BY <1>2, <2>2, <2>3 DEF OpenQueue
    <3>. QED
      BY <1>2, <2>1, <3>1 DEF RunInv, Stage, ExitIsClean, OpenQueue
  <2>4. CASE ~(Asked \subseteq fds')
    <3>1. main' = main /\ queues' = queues /\ Asked' = Asked
      BY <1>2, <2>4 DEF OpenQueue, Asked
    <3>. QED
      BY <1>2, <2>1, <2>2, <3>1 DEF RunInv, Stage, ExitIsClean, OpenQueue
  <2>. QED
    BY <2>3, <2>4
<1>. QED
  BY <1>1, <1>2

\* The set-up and the carrier, with the error paths of both.
LEMMA SetupKeeps ==
  ASSUME RunInv, Setup \/ SetupFails \/ Listen \/ ListenFails \/ PeerFails \/ ServeFails \/ StartWorkers
  PROVE  RunInv'
<1>1. CASE Setup \/ Listen
  BY <1>1 DEF RunInv, Stage, ExitIsClean, Setup, Listen
<1>2. CASE SetupFails \/ ListenFails
  BY Zenon, <1>2 DEF RunInv, Stage, ExitIsClean, SetupFails, ListenFails, Return
<1>3. CASE PeerFails \/ ServeFails
  BY <1>3 DEF RunInv, Stage, ExitIsClean, PeerFails, ServeFails, GiveUp
<1>4. CASE StartWorkers
  BY <1>4 DEF RunInv, Stage, ExitIsClean, StartWorkers
<1>. QED
  BY <1>1, <1>2, <1>3, <1>4

\* The shutdown, in its order: the carrier, the files, t.queues, the workers.
LEMMA ShutdownKeeps ==
  ASSUME RunInv,
         \/ SelectDone \/ SelectError \/ CloseCarrier \/ DropQueues \/ Join \/ WaitTimeout
         \/ \E q \in TunQueues : CloseQueue(q)
  PROVE  RunInv'
<1>1. CASE SelectDone \/ SelectError \/ CloseCarrier
  BY <1>1 DEF RunInv, Stage, ExitIsClean, SelectDone, SelectError, CloseCarrier
<1>2. CASE DropQueues \/ \E q \in TunQueues : CloseQueue(q)
  BY <1>2 DEF RunInv, Stage, ExitIsClean, DropQueues, CloseQueue
<1>3. CASE Join \/ WaitTimeout
  BY Zenon, <1>3 DEF RunInv, Stage, ExitIsClean, Join, WaitTimeout, Return
<1>. QED
  BY <1>1, <1>2, <1>3

\* A signal kills the process or cancels the context.
LEMMA SignalKeeps ==
  ASSUME RunInv, Signal
  PROVE  RunInv'
  BY DEF RunInv, Stage, ExitIsClean, Signal, Running, Asked

\* A step of a worker leaves run and what it holds alone, or it panics.
LEMMA WorkerKeeps ==
  ASSUME RunInv,
         \/ UNCHANGED <<main, fds, queues, installed, socket, carrier>>
         \/ \E r \in Receivers : WritePanics(r)
  PROVE  RunInv'
  BY DEF RunInv, Stage, ExitIsClean, WritePanics, Asked

\* Every step keeps the stages.
LEMMA RunInvStep ==
  ASSUME RunInv, [RunNext]_runVars
  PROVE  RunInv'
<1>1. CASE MainStep
  BY <1>1, OpenKeeps, SetupKeeps, ShutdownKeeps DEF MainStep
<1>2. ASSUME NEW r \in Receivers, ReceiverStep(r)
      PROVE  RunInv'
  BY <1>2, WorkerKeeps
     DEF ReceiverStep, ReceiverAwake, RecvPacket, WriteCheck, RecvEnd, WritePick, WriteFd, Goto
<1>3. ASSUME NEW q \in TunQueues, QueueStep(q)
      PROVE  RunInv'
  BY <1>3, WorkerKeeps DEF QueueStep, ReadQueue, TunPacket, TunSent, TunFails, Goto
<1>4. ASSUME NEW t \in Tickers, TickerStep(t)
      PROVE  RunInv'
  BY <1>4, WorkerKeeps DEF TickerStep, Tick, TickDone, TickerEnds, Goto
<1>5. ASSUME NEW p \in Probers, ResponderFails(p)
      PROVE  RunInv'
  BY <1>5, WorkerKeeps DEF ResponderFails, Goto
<1>6. CASE UNCHANGED runVars
  BY <1>6, WorkerKeeps DEF runVars
<1>. QED
  BY <1>1, <1>2, <1>3, <1>4, <1>5, <1>6, SignalKeeps DEF RunNext

----------------------------------------------------------------------------
\* The stages hold in every reachable state.
THEOREM ProcessInvariant == RunSpec => []RunInv
<1>1. RunInit => RunInv
  BY DEF RunInit, RunInv, Stage, ExitIsClean
<1>. QED
  BY <1>1, RunInvStep, PTL DEF RunSpec

\* Whichever way run returns, for every role and transport and any number of
\* workers: no rule, no TUN file, no socket and no open carrier is left.
THEOREM RunLeavesNothing == RunSpec => []ExitIsClean
<1>1. RunInv => ExitIsClean
  BY DEF RunInv
<1>. QED
  BY <1>1, ProcessInvariant, PTL

\* What run works with is all of the queues asked for or the single one of the
\* fallback, and no file of the failed attempt is open beside them.
THEOREM QueuesAreTheOpenedOnes == RunSpec => []OpenedQueuesInUse
<1>1. RunInv => OpenedQueuesInUse
  BY DEF RunInv, Stage, OpenedQueuesInUse
<1>. QED
  BY <1>1, ProcessInvariant, PTL
============================================================================

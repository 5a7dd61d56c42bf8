------------------------ MODULE StreamCarrierProofs ------------------------
(***************************************************************************)
(* For every set of writers and all bounds: no connection of a stream      *)
(* carrier is leaked, every connection carries whole frames, and a reset   *)
(* closes only a connection that failed.                                   *)
(*                                                                         *)
(* None of these is inductive alone.  IInv adds who holds the two mutexes, *)
(* what ensureConn knows of s.conn while it has connectMu, and how far a   *)
(* frame has got on the connection that its writer holds.                  *)
(***************************************************************************)
EXTENDS StreamCarrier, SequenceTheorems, TLAPS

USE WritersAssumption DEF Reader, Nobody, Threads, Nil

\* A connection is clean when the last frame on it is complete.
Clean(s) == s # <<>> => s[Len(s)].part = "body"

\* writeMu is held by the writer that is inside WritePacket, connectMu by the
\* goroutine that dials or installs, and s.conn stays empty meanwhile.
Locks ==
  /\ \A t \in Writers : /\ pc[t] \notin {"resetBody", "done"}
                        /\ pc[t] # "idle" <=> writeMu = t
  /\ \A t \in Threads : pc[t] \in {"dial", "install"} <=> connectMu = t
  /\ connectMu # Nobody => conn = Nil

\* s.conn is an open connection, and there is none after Close.
Current ==
  /\ conn # Nil => state[conn] = "open"
  /\ closed => conn = Nil

\* A goroutine that uses, drops or installs a connection has one; the one to be
\* installed is open, unused and in nobody else's hands.
Held ==
  \A t \in Threads :
    /\ pc[t] \in {"head", "body", "reset", "resetBody", "install"} => hold[t] \in Conns
    /\ pc[t] = "install" => /\ state[hold[t]] = "open"
                            /\ out[hold[t]] = <<>>
                            /\ \A u \in Threads \ {t} : hold[u] # hold[t]

\* Whoever is about to drop a connection that is still open has seen it fail.
DropsFailed ==
  \A t \in Threads :
    pc[t] \in {"reset", "resetBody"} /\ state[hold[t]] = "open"
      => link[hold[t]] = "down" \/ hold[t] \in spoiled

\* A writer starts its frame on a clean connection and finds its own head when
\* it goes on; s.conn is clean unless the writer that has writeMu is in the
\* middle of a frame on it or about to drop it.
Progress ==
  /\ \A t \in Writers :
       /\ pc[t] = "head" => Clean(out[hold[t]])
       /\ pc[t] = "body" => /\ out[hold[t]] # <<>>
                            /\ out[hold[t]][Len(out[hold[t]])] = [by |-> t, part |-> "head"]
  /\ conn # Nil /\ ~Clean(out[conn]) =>
       writeMu # Nobody /\ hold[writeMu] = conn /\ pc[writeMu] \in {"body", "reset"}

IInv == TypeOK /\ Locks /\ Current /\ Held /\ NoConnLeaked /\ DropsFailed /\ Progress /\ FramesWhole

\* No connection is Nil.
LEMMA NilIsNoConn == Nil \notin Conns
  BY DEF Conns

\* A new connection is clean, and nothing on it is broken.
LEMMA NothingCarried == <<>> \in Seq(Chunk) /\ Clean(<<>>) /\ WholeFrames(<<>>)
  BY DEF Clean, WholeFrames

\* What a write may add to whole frames: a head or a piece of one to a clean
\* connection, the rest of the frame or a piece of it after its own head.
LEMMA CarryWhole ==
  ASSUME NEW s \in Seq(Chunk), NEW e \in Chunk, WholeFrames(s),
         \/ Clean(s) /\ e.part # "body"
         \/ s # <<>> /\ s[Len(s)] = [by |-> e.by, part |-> "head"] /\ e.part # "head"
  PROVE  WholeFrames(Append(s, e))
<1>. DEFINE r == Append(s, e)
<1>1. /\ Len(s) \in Nat /\ Len(r) = Len(s) + 1
      /\ r[Len(s) + 1] = e
      /\ \A i \in 1 .. Len(s) : r[i] = s[i] /\ s[i] \in Chunk
      /\ s # <<>> => Len(s) > 0
  OBVIOUS
<1>. HIDE DEF r
<1>2. ASSUME NEW i \in 1 .. Len(r)
      PROVE  /\ i = 1 => r[i].part # "body"
             /\ i < Len(r) =>
                  /\ r[i].part # "part"
                  /\ IF r[i].part = "head"
                     THEN r[i + 1].part \in {"body", "part"} /\ r[i + 1].by = r[i].by
                     ELSE r[i + 1].part # "body"
  <2>1. CASE i = Len(s) + 1
    BY <1>1, <2>1 DEF Clean
  <2>2. CASE i = Len(s)
    BY <1>1, <2>2 DEF Clean, Chunk, Parts, WholeFrames
  <2>3. CASE i < Len(s)
    BY SMTT(60), <1>1, <2>3 DEF WholeFrames
  <2>. QED
    BY <1>1, <2>1, <2>2, <2>3
<1>. QED
  BY <1>2 DEF WholeFrames, r

\* ensureConn finds s.conn, at its first or at its second look.
LEMMA GotKeeps ==
  ASSUME IInv, NEW t \in Threads, pc[t] \in {"ensure", "connect"}, conn # Nil,
         Got(t, conn),
         UNCHANGED <<accepts, attempts, conn, closed, connectMu, state, out, netVars>>
  PROVE  IInv'
<1>. USE DEF IInv, Got, Goto, netVars
<1>1. TypeOK'
  BY DEF TypeOK
<1>2. Locks' /\ Current' /\ Held'
  BY DEF TypeOK, Locks, Current, Held
<1>3. NoConnLeaked' /\ DropsFailed'
  BY DEF TypeOK, Locks, Current, Held, NoConnLeaked, DropsFailed
<1>4. Progress' /\ FramesWhole'
  BY DEF TypeOK, Locks, Current, Held, Progress, FramesWhole
<1>. HIDE DEF Got, Goto, netVars
<1>. QED
  BY Zenon, <1>1, <1>2, <1>3, <1>4

\* ensureConn fails before there is a connection to close.
LEMMA FailedKeeps ==
  ASSUME IInv, NEW t \in Threads, pc[t] \in {"ensure", "connect", "dial"},
         Failed(t),
         connectMu' = IF pc[t] = "dial" THEN Nobody ELSE connectMu,
         UNCHANGED <<accepts, attempts, conn, closed, state, out, netVars>>
  PROVE  IInv'
<1>. USE DEF IInv, Failed, Returned, Goto, netVars
<1>1. TypeOK'
  BY DEF TypeOK
<1>2. Locks' /\ Current'
  BY DEF TypeOK, Locks, Current, Held
<1>3. Held'
  BY NilIsNoConn DEF TypeOK, Locks, Held
<1>4. NoConnLeaked' /\ DropsFailed'
  BY SMTT(60) DEF TypeOK, Locks, Current, Held, NoConnLeaked, DropsFailed
<1>5. Progress' /\ FramesWhole'
  BY DEF TypeOK, Locks, Current, Held, Progress, FramesWhole
<1>. HIDE DEF Failed, Returned, Goto, netVars
<1>. QED
  BY ZenonT(60), <1>1, <1>2, <1>3, <1>4, <1>5

\* ensureConn finds s.conn, or finds that the carrier is closed.
LEMMA EnsureFastKeeps ==
  ASSUME IInv, NEW t \in Threads, EnsureFast(t)
  PROVE  IInv'
<1>1. CASE closed
  <2>1. connectMu' = IF pc[t] = "dial" THEN Nobody ELSE connectMu
    BY DEF EnsureFast
  <2>. QED
    BY <1>1, <2>1, FailedKeeps DEF EnsureFast, netVars
<1>2. CASE ~closed /\ conn # Nil
  BY <1>2, GotKeeps DEF EnsureFast, netVars
<1>3. CASE ~closed /\ conn = Nil
  <2>. USE <1>3
  <2>. USE DEF IInv, EnsureFast, Goto, netVars
  <2>1. TypeOK'
    BY SMTT(60) DEF TypeOK
  <2>2. Locks' /\ Current' /\ Held'
    BY DEF TypeOK, Locks, Current, Held
  <2>3. NoConnLeaked' /\ DropsFailed'
    BY SMTT(60) DEF TypeOK, Locks, Current, Held, NoConnLeaked, DropsFailed
  <2>4. Progress' /\ FramesWhole'
    BY DEF TypeOK, Locks, Current, Held, Progress, FramesWhole
  <2>. HIDE DEF EnsureFast, Goto, netVars
  <2>. QED
    BY ZenonT(60), <2>1, <2>2, <2>3, <2>4
<1>. QED
  BY <1>1, <1>2, <1>3

\* ensureConn has waited for connectMu and looks again.
LEMMA ConnectKeeps ==
  ASSUME IInv, NEW t \in Threads, Connect(t)
  PROVE  IInv'
<1>1. CASE closed
  <2>1. connectMu' = IF pc[t] = "dial" THEN Nobody ELSE connectMu
    BY <1>1 DEF Connect
  <2>. QED
    BY <1>1, <2>1, FailedKeeps DEF Connect, netVars
<1>2. CASE ~closed /\ conn # Nil
  BY <1>2, GotKeeps DEF Connect, netVars
<1>3. CASE ~closed /\ conn = Nil
  <2>. USE <1>3
  <2>. USE DEF IInv, Connect, Goto, netVars
  <2>1. TypeOK'
    BY DEF TypeOK
  <2>2. Locks' /\ Current' /\ Held'
    BY DEF TypeOK, Locks, Current, Held
  <2>3. NoConnLeaked' /\ DropsFailed'
    BY SMTT(60) DEF TypeOK, Locks, Current, Held, NoConnLeaked, DropsFailed
  <2>4. Progress' /\ FramesWhole'
    BY DEF TypeOK, Locks, Current, Held, Progress, FramesWhole
  <2>. HIDE DEF Connect, Goto, netVars
  <2>. QED
    BY Zenon, <2>1, <2>2, <2>3, <2>4
<1>. QED
  BY <1>1, <1>2, <1>3

\* The dial or Accept fails: connectMu is given up.
LEMMA DialFailsKeeps ==
  ASSUME IInv, NEW t \in Threads, DialFails(t)
  PROVE  IInv'
<1>1. connectMu' = IF pc[t] = "dial" THEN Nobody ELSE connectMu
  BY DEF DialFails
<1>. QED
  BY <1>1, FailedKeeps DEF DialFails, netVars

\* A new socket: nobody held it, so nothing is known of it elsewhere.
LEMMA DialKeeps ==
  ASSUME IInv, NEW t \in Threads, Dial(t)
  PROVE  IInv'
<1>. PICK c \in Free :
       /\ state' = [state EXCEPT ![c] = "open"]
       /\ link' = [link EXCEPT ![c] = "up"]
       /\ out' = [out EXCEPT ![c] = <<>>]
       /\ spoiled' = spoiled \ {c}
       /\ hold' = [hold EXCEPT ![t] = c]
  BY ZenonT(60) DEF Dial
<1>0. /\ c \in Conns /\ state[c] = "closed" /\ c # Nil
      /\ \A u \in Threads : hold[u] # c
      /\ conn = Nil /\ connectMu = t
      /\ pc[t] = "dial" /\ Goto(t, "install")
      /\ UNCHANGED <<accepts, attempts, conn, closed, cancelled, connectMu, writeMu, peer, breaks,
                     writes>>
  BY NilIsNoConn DEF Free, Dial, IInv, Locks
<1>. USE DEF IInv, Goto
<1>1. TypeOK'
  BY <1>0, NothingCarried DEF TypeOK
<1>2. Locks'
  BY SMTT(60), <1>0, NothingCarried DEF TypeOK, Locks
<1>3. Current'
  BY SMTT(60), <1>0, NothingCarried DEF TypeOK, Locks, Current, Held
<1>4. Held'
  BY SMTT(60), <1>0, NothingCarried DEF TypeOK, Locks, Current, Held
<1>5. NoConnLeaked'
  BY SMTT(60), <1>0, NothingCarried DEF TypeOK, Locks, Current, Held, NoConnLeaked
<1>6. DropsFailed'
  BY SMTT(60), <1>0, NothingCarried DEF TypeOK, Locks, Held, DropsFailed, NoConnLeaked
<1>7. Progress'
  BY SMTT(60), <1>0, NothingCarried DEF TypeOK, Locks, Current, Held, Progress
<1>8. FramesWhole'
  BY <1>0, NothingCarried DEF TypeOK, Held, Progress, FramesWhole
<1>. HIDE DEF Goto
<1>. QED
  BY ZenonT(60), <1>1, <1>2, <1>3, <1>4, <1>5, <1>6, <1>7, <1>8

\* The new connection becomes s.conn, or is closed when Close came first.
LEMMA InstallKeeps ==
  ASSUME IInv, NEW t \in Threads, Install(t)
  PROVE  IInv'
<1>0. hold[t] \in Conns /\ connectMu = t /\ conn = Nil
  BY DEF IInv, Install, Held, Locks
<1>1. CASE closed
  <2>. USE <1>0, <1>1
  <2>. USE DEF IInv, Install, Failed, Returned, Goto, netVars
  <2>1. TypeOK'
    BY DEF TypeOK
  <2>2. Locks' /\ Current' /\ Held'
    BY DEF TypeOK, Locks, Current, Held
  <2>3. NoConnLeaked'
    BY SMTT(60) DEF TypeOK, Locks, Current, Held, NoConnLeaked
  <2>4. DropsFailed'
    <3>. SUFFICES ASSUME NEW u \in Threads, pc'[u] \in {"reset", "resetBody"},
                          state'[hold'[u]] = "open"
                 PROVE  link'[hold'[u]] = "down" \/ hold'[u] \in spoiled'
      BY SMTT(60) DEF DropsFailed
    <3>1. u # t /\ hold[u] \in Conns
      BY DEF TypeOK, Held
    <3>2. pc'[u] = pc[u] /\ hold'[u] = hold[u]
      BY SMTT(60), <3>1 DEF TypeOK
    <3>3. state[hold[u]] = "open"
      <4>1. state' = [state EXCEPT ![hold[t]] = "closed"]
        BY Zenon
      <4>2. state \in [Conns -> {"open", "closed"}]
        BY ZenonT(60) DEF TypeOK
      <4>. HIDE DEF IInv, Install
      <4>. QED
        BY <3>1, <3>2, <4>1, <4>2
    <3>. QED
      BY <3>2, <3>3 DEF DropsFailed
  <2>5. Progress' /\ FramesWhole'
    BY SMTT(60) DEF TypeOK, Locks, Current, Held, Progress, FramesWhole
  <2>. HIDE DEF Install, Failed, Returned, Goto, netVars
  <2>. QED
    BY ZenonT(60), <2>1, <2>2, <2>3, <2>4, <2>5
<1>2. CASE ~closed
  <2>. USE <1>0, <1>2
  <2>. USE DEF IInv, Install, Got, Goto, netVars
  <2>1. TypeOK'
    BY SMTT(60) DEF TypeOK
  <2>2. Locks' /\ Current' /\ Held'
    BY DEF TypeOK, Locks, Current, Held
  <2>3. NoConnLeaked'
    BY SMTT(60), NilIsNoConn DEF TypeOK, NoConnLeaked
  <2>4. DropsFailed'
    BY SMTT(60) DEF TypeOK, Locks, Held, DropsFailed, NoConnLeaked
  <2>5. Progress'
    BY SMTT(60), NothingCarried DEF TypeOK, Locks, Held, Progress
  <2>6. FramesWhole'
    BY SMTT(60) DEF TypeOK, Held, Progress, FramesWhole
  <2>. HIDE DEF Install, Got, Goto, netVars
  <2>. QED
    BY Zenon, <2>1, <2>2, <2>3, <2>4, <2>5, <2>6
<1>. QED
  BY SMTT(60), <1>1, <1>2

\* The reader takes a frame from the connection that it holds.
LEMMA ReadFrameKeeps ==
  ASSUME IInv, ReadFrame
  PROVE  IInv'
<1>. USE DEF IInv, ReadFrame, Goto, Works, netVars
<1>1. TypeOK'
  BY DEF TypeOK
<1>2. Locks' /\ Current' /\ Held'
  BY DEF TypeOK, Locks, Current, Held
<1>3. NoConnLeaked' /\ DropsFailed'
  BY SMTT(60) DEF TypeOK, Locks, Current, Held, NoConnLeaked, DropsFailed
<1>4. Progress' /\ FramesWhole'
  BY SMTT(60) DEF TypeOK, Locks, Current, Held, Progress, FramesWhole
<1>. HIDE DEF ReadFrame, Goto, Works, netVars
<1>. QED
  BY ZenonT(60), <1>1, <1>2, <1>3, <1>4

\* The reader meets an invalid length and is about to reset the connection.
LEMMA ReadBadHeadKeeps ==
  ASSUME IInv, ReadBadHead
  PROVE  IInv'
<1>. USE DEF IInv, ReadBadHead, Goto, Works, Break, netVars
<1>1. TypeOK'
  BY SMTT(60), StreamAssumption DEF TypeOK, Held
<1>2. Locks' /\ Current' /\ Held'
  BY SMTT(60) DEF TypeOK, Locks, Current, Held
<1>3. NoConnLeaked' /\ DropsFailed'
  BY SMTT(60) DEF TypeOK, Locks, Current, Held, NoConnLeaked, DropsFailed
<1>4. Progress' /\ FramesWhole'
  BY SMTT(60) DEF TypeOK, Locks, Current, Held, Progress, FramesWhole
<1>. HIDE DEF ReadBadHead, Goto, Works, Break, netVars
<1>. QED
  BY Zenon, <1>1, <1>2, <1>3, <1>4

\* The reader meets an error and is about to reset the connection.
LEMMA ReadFailsKeeps ==
  ASSUME IInv, ReadFails
  PROVE  IInv'
<1>. USE DEF IInv, ReadFails, Goto, Broken, netVars
<1>1. TypeOK'
  BY SMTT(60) DEF TypeOK
<1>2. Locks' /\ Current' /\ Held'
  BY SMTT(60) DEF TypeOK, Locks, Current, Held
<1>3. NoConnLeaked' /\ DropsFailed'
  BY SMTT(60) DEF TypeOK, Locks, Current, Held, NoConnLeaked, DropsFailed
<1>4. Progress' /\ FramesWhole'
  BY DEF TypeOK, Locks, Current, Held, Progress, FramesWhole
<1>. HIDE DEF ReadFails, Goto, Broken, netVars
<1>. QED
  BY Zenon, <1>1, <1>2, <1>3, <1>4

\* resetConn of the reader.
LEMMA ReaderResetKeeps ==
  ASSUME IInv, ReaderReset
  PROVE  IInv'
<1>. USE DEF IInv, ReaderReset, DropFailed, Goto, netVars
<1>1. TypeOK'
  BY ZenonT(60) DEF TypeOK
<1>2. Locks' /\ Current'
  BY SMTT(60) DEF TypeOK, Locks, Current, Held
<1>3. Held'
  BY SMTT(60), NilIsNoConn DEF TypeOK, Held
<1>4. NoConnLeaked' /\ DropsFailed'
  BY SMTT(60) DEF TypeOK, Locks, Current, Held, NoConnLeaked, DropsFailed
<1>5. Progress' /\ FramesWhole'
  BY SMTT(60) DEF TypeOK, Locks, Current, Held, Progress, FramesWhole
<1>. HIDE DEF ReaderReset, DropFailed, Goto, netVars
<1>. QED
  BY Zenon, <1>1, <1>2, <1>3, <1>4, <1>5

\* A call of WritePacket takes writeMu.
LEMMA WriteCallKeeps ==
  ASSUME IInv, NEW t \in Writers, WriteCall(t)
  PROVE  IInv'
<1>. USE DEF IInv, WriteCall, Goto, netVars
<1>1. TypeOK'
  BY SMTT(60), StreamAssumption DEF TypeOK
<1>2. Locks' /\ Current' /\ Held'
  BY SMTT(60) DEF TypeOK, Locks, Current, Held
<1>3. NoConnLeaked' /\ DropsFailed'
  BY SMTT(60) DEF TypeOK, Locks, Current, Held, NoConnLeaked, DropsFailed
<1>4. Progress' /\ FramesWhole'
  BY DEF TypeOK, Locks, Current, Held, Progress, FramesWhole
<1>. HIDE DEF WriteCall, Goto, netVars
<1>. QED
  BY Zenon, <1>1, <1>2, <1>3, <1>4

\* resetConn of the writer, which still holds writeMu.
LEMMA WriterResetKeeps ==
  ASSUME IInv, NEW t \in Writers, WriterReset(t)
  PROVE  IInv'
<1>0. t \in Threads /\ t # Reader /\ hold[t] \in Conns /\ writeMu = t
  BY SMTT(60) DEF IInv, Held, Locks, WriterReset
<1>. USE <1>0
<1>. USE DEF IInv, WriterReset, DropFailed, Goto, netVars
<1>1. TypeOK'
  <2>1. attempts' \in [Threads -> 0 .. 1]
    BY DEF TypeOK
  <2>2. /\ state' \in [Conns -> {"open", "closed"}]
        /\ conn' \in Conns \cup {Nil}
    BY SMTT(60) DEF TypeOK
  <2>. QED
    BY SMTT(60), <2>1, <2>2 DEF TypeOK
<1>2. Locks' /\ Current'
  <2>1. \A u \in Writers : /\ pc'[u] \notin {"resetBody", "done"}
                           /\ pc'[u] # "idle" <=> writeMu' = u
    BY SMTT(60) DEF TypeOK, Locks
  <2>2. \A u \in Threads : pc'[u] \in {"dial", "install"} <=> connectMu' = u
    BY SMTT(60) DEF TypeOK, Locks
  <2>3. connectMu' # Nobody => conn' = Nil
    BY SMTT(60) DEF Locks
  <2>4. Current'
    BY SMTT(60) DEF TypeOK, Current
  <2>. HIDE DEF IInv, WriterReset, DropFailed, Goto, netVars
  <2>. QED
    BY ZenonT(60), <2>1, <2>2, <2>3, <2>4 DEF Locks
<1>3. Held'
  BY SMTT(60), NilIsNoConn DEF TypeOK, Held
<1>4. NoConnLeaked' /\ DropsFailed'
  BY SMTT(60) DEF TypeOK, Locks, Current, Held, NoConnLeaked, DropsFailed
<1>5. Progress' /\ FramesWhole'
  BY DEF TypeOK, Locks, Current, Held, Progress, FramesWhole
<1>. HIDE DEF WriterReset, DropFailed, Goto, netVars
<1>. QED
  BY ZenonT(60), <1>1, <1>2, <1>3, <1>4, <1>5

\* Close takes s.conn away and closes it.
LEMMA CloseKeeps ==
  ASSUME IInv, Close
  PROVE  IInv'
<1>. USE DEF IInv, Close, netVars
<1>1. TypeOK'
  BY SMTT(60) DEF TypeOK
<1>2. Locks' /\ Current' /\ Held'
  BY SMTT(60) DEF TypeOK, Locks, Current, Held
<1>3. NoConnLeaked' /\ DropsFailed'
  BY SMTT(60) DEF TypeOK, Locks, Current, Held, NoConnLeaked, DropsFailed
<1>4. Progress' /\ FramesWhole'
  BY DEF TypeOK, Locks, Current, Held, Progress, FramesWhole
<1>. HIDE DEF Close, netVars
<1>. QED
  BY Zenon, <1>1, <1>2, <1>3, <1>4

\* A step that leaves everything alone that IInv speaks of: the context is
\* cancelled, or the peer comes or goes.
LEMMA OtherKeeps ==
  ASSUME IInv, Cancel \/ PeerMoves \/ UNCHANGED vars
  PROVE  IInv'
<1>1. UNCHANGED <<accepts, pc, hold, attempts, conn, closed, connectMu, writeMu, state, link, out,
                  spoiled, breaks, writes>>
  BY DEF Cancel, PeerMoves, vars
<1>2. cancelled' \in BOOLEAN /\ peer' \in {"there", "away"}
  BY ZenonT(60) DEF Cancel, PeerMoves, vars, IInv, TypeOK
<1>3. TypeOK'
  BY SMTT(60), <1>1, <1>2 DEF IInv, TypeOK
<1>4. Locks' /\ Current' /\ Held'
  BY SMTT(60), <1>1 DEF IInv, Locks, Current, Held
<1>5. NoConnLeaked' /\ DropsFailed'
  BY SMTT(60), <1>1 DEF IInv, NoConnLeaked, DropsFailed
<1>6. Progress' /\ FramesWhole'
  BY <1>1 DEF IInv, Progress, FramesWhole
<1>. QED
  BY <1>3, <1>4, <1>5, <1>6 DEF IInv

\* The network breaks a link, or keepalive finds it broken.
LEMMA LinkKeeps ==
  ASSUME IInv, NEW c \in Conns, HalfOpen(c) \/ LinkBreaks(c) \/ KeepAliveFails(c)
  PROVE  IInv'
<1>. USE DEF IInv, HalfOpen, LinkBreaks, KeepAliveFails, LinkChanges, Works, Break, netVars
<1>1. TypeOK'
  <2>1. breaks' \in 0 .. MaxBreaks
    BY SMTT(60), StreamAssumption DEF TypeOK
  <2>2. link' \in [Conns -> {"up", "half", "down"}]
    BY ZenonT(60) DEF TypeOK
  <2>. QED
    BY SMTT(60), <2>1, <2>2 DEF TypeOK
<1>2. Locks' /\ Current' /\ Held'
  BY DEF TypeOK, Locks, Current, Held
<1>3. NoConnLeaked' /\ DropsFailed'
  BY SMTT(60) DEF TypeOK, Locks, Current, Held, NoConnLeaked, DropsFailed
<1>4. Progress' /\ FramesWhole'
  BY SMTT(60) DEF TypeOK, Locks, Current, Held, Progress, FramesWhole
<1>. HIDE DEF HalfOpen, LinkBreaks, KeepAliveFails, LinkChanges, Works, Break, netVars
<1>. QED
  BY ZenonT(60), <1>1, <1>2, <1>3, <1>4

\* What writeAll puts on the connection that its writer holds leaves the other
\* connections alone and keeps the frames whole.
LEMMA CarryKeeps ==
  ASSUME IInv, NEW t \in Writers, NEW part \in Parts, Carry(t, part),
         \/ pc[t] = "head" /\ part # "body"
         \/ pc[t] = "body" /\ part # "head"
  PROVE  /\ hold[t] \in Conns
         /\ out' \in [Conns -> Seq(Chunk)]
         /\ \A c \in Conns : c # hold[t] => out'[c] = out[c]
         /\ out'[hold[t]] # <<>>
         /\ out'[hold[t]][Len(out'[hold[t]])] = [by |-> t, part |-> part]
         /\ FramesWhole'
<1>. DEFINE e == [by |-> t, part |-> part]
            old == out[hold[t]]
<1>1. hold[t] \in Conns
  BY DEF IInv, Held
<1>2. old \in Seq(Chunk) /\ e \in Chunk /\ out \in [Conns -> Seq(Chunk)]
  <2>1. out \in [Conns -> Seq(Chunk)]
    BY Zenon DEF IInv, TypeOK
  <2>. QED
    BY ZenonT(60), <1>1, <2>1 DEF Chunk
<1>3. WholeFrames(old) /\ \A c \in Conns : WholeFrames(out[c])
  BY SMTT(60), <1>1 DEF IInv, FramesWhole
<1>4. \/ Clean(old) /\ e.part # "body"
      \/ old # <<>> /\ old[Len(old)] = [by |-> e.by, part |-> "head"] /\ e.part # "head"
  BY DEF IInv, Progress
<1>5. WholeFrames(Append(old, e))
  BY SMTT(60), <1>2, <1>3, <1>4, CarryWhole
<1>6. /\ Append(old, e) \in Seq(Chunk)
      /\ Append(old, e) # <<>>
      /\ Append(old, e)[Len(Append(old, e))] = e
  BY <1>2
<1>7. out' = [out EXCEPT ![hold[t]] = Append(old, e)]
  BY DEF Carry
<1>. HIDE DEF e, old
<1>. QED
  BY SMTT(60), <1>1, <1>2, <1>3, <1>5, <1>6, <1>7 DEF FramesWhole, e

\* The head of a frame is written to a clean connection.
LEMMA WriteHeadKeeps ==
  ASSUME IInv, NEW t \in Writers, WriteHead(t)
  PROVE  IInv'
<1>0. /\ hold[t] \in Conns
      /\ out' \in [Conns -> Seq(Chunk)]
      /\ \A c \in Conns : c # hold[t] => out'[c] = out[c]
      /\ out'[hold[t]] # <<>>
      /\ out'[hold[t]][Len(out'[hold[t]])] = [by |-> t, part |-> "head"]
      /\ FramesWhole'
  BY ZenonT(60), CarryKeeps DEF WriteHead, Parts
<1>. USE <1>0
<1>. USE DEF IInv, WriteHead, Goto, netVars
<1>1. TypeOK'
  BY SMTT(60) DEF TypeOK
<1>2. Locks' /\ Current'
  BY SMTT(60) DEF TypeOK, Locks, Current, Held
<1>3. Held'
  BY SMTT(60), NilIsNoConn DEF TypeOK, Locks, Held
<1>4. NoConnLeaked' /\ DropsFailed'
  BY SMTT(60) DEF TypeOK, Locks, Current, Held, NoConnLeaked, DropsFailed
<1>5. Progress'
  BY SMTT(60) DEF TypeOK, Locks, Current, Held, Progress, Clean
<1>6. FramesWhole'
  BY Zenon, <1>0
<1>. HIDE DEF WriteHead, Goto, netVars
<1>. QED
  BY Zenon, <1>1, <1>2, <1>3, <1>4, <1>5, <1>6

\* The body follows the head of the same call.
LEMMA WriteBodyKeeps ==
  ASSUME IInv, NEW t \in Writers, WriteBody(t)
  PROVE  IInv'
<1>0. /\ hold[t] \in Conns
      /\ out' \in [Conns -> Seq(Chunk)]
      /\ \A c \in Conns : c # hold[t] => out'[c] = out[c]
      /\ out'[hold[t]] # <<>>
      /\ out'[hold[t]][Len(out'[hold[t]])] = [by |-> t, part |-> "body"]
      /\ FramesWhole'
  BY ZenonT(60), CarryKeeps DEF WriteBody, Parts
<1>. USE <1>0
<1>. USE DEF IInv, WriteBody, Goto, netVars
<1>1. TypeOK'
  BY SMTT(60) DEF TypeOK
<1>2. Locks' /\ Current'
  BY SMTT(60) DEF TypeOK, Locks, Current, Held
<1>3. Held'
  BY SMTT(60), NilIsNoConn DEF TypeOK, Locks, Held
<1>4. NoConnLeaked' /\ DropsFailed'
  BY SMTT(60) DEF TypeOK, Locks, Current, Held, NoConnLeaked, DropsFailed
<1>5. Progress'
  BY SMTT(60) DEF TypeOK, Locks, Current, Held, Progress, Clean
<1>6. FramesWhole'
  BY Zenon, <1>0
<1>. HIDE DEF WriteBody, Goto, netVars
<1>. QED
  BY Zenon, <1>1, <1>2, <1>3, <1>4, <1>5, <1>6

\* A write fails, possibly after a piece of the head or of the body.
LEMMA WriteFailsKeeps ==
  ASSUME IInv, NEW t \in Writers, WriteFails(t)
  PROVE  IInv'
<1>0. /\ hold[t] \in Conns
      /\ out' \in [Conns -> Seq(Chunk)]
      /\ \A c \in Conns : c # hold[t] => out'[c] = out[c]
      /\ FramesWhole'
  <2>1. CASE Carry(t, "part")
    BY ZenonT(60), <2>1, CarryKeeps DEF WriteFails, Parts
  <2>2. CASE UNCHANGED out
    BY SMTT(60), <2>2 DEF WriteFails, IInv, Held, TypeOK, FramesWhole
  <2>. QED
    BY SMTT(60), <2>1, <2>2 DEF WriteFails
<1>. USE <1>0
<1>. USE DEF IInv, WriteFails, Goto, Broken, netVars
<1>1. TypeOK'
  BY SMTT(60) DEF TypeOK
<1>2. Locks' /\ Current' /\ Held'
  BY SMTT(60) DEF TypeOK, Locks, Current, Held
<1>3. NoConnLeaked' /\ DropsFailed'
  BY SMTT(60) DEF TypeOK, Locks, Current, Held, NoConnLeaked, DropsFailed
<1>4. Progress'
  BY SMTT(60) DEF TypeOK, Locks, Current, Held, Progress
<1>5. FramesWhole'
  BY Zenon, <1>0
<1>. HIDE DEF WriteFails, Goto, Broken, netVars
<1>. QED
  BY Zenon, <1>1, <1>2, <1>3, <1>4, <1>5

----------------------------------------------------------------------------
(* The theorems.                                                           *)

\* Every step is one of the actions above.
LEMMA IInvStep ==
  ASSUME IInv, [Next]_vars
  PROVE  IInv'
<1>1. ASSUME NEW t \in Threads, EnsureConn(t)
      PROVE  IInv'
  BY SMTT(60), <1>1, EnsureFastKeeps, ConnectKeeps, DialKeeps, DialFailsKeeps, InstallKeeps DEF EnsureConn
<1>2. CASE ReadPacket
  BY SMTT(60), <1>1, <1>2, ReadFrameKeeps, ReadBadHeadKeeps, ReadFailsKeeps, ReaderResetKeeps DEF ReadPacket
<1>3. ASSUME NEW t \in Writers, WriteCall(t) \/ WritePacket(t)
      PROVE  IInv'
  BY SMTT(60), <1>1, <1>3, WriteCallKeeps, WriteHeadKeeps, WriteBodyKeeps, WriteFailsKeeps, WriterResetKeeps
     DEF WritePacket
<1>. QED
  BY SMTT(60), <1>2, <1>3, CloseKeeps, OtherKeeps, LinkKeeps DEF Next

\* The carrier starts without a connection.
LEMMA IInvInit == Init => IInv
<1>. SUFFICES ASSUME Init PROVE IInv
  OBVIOUS
<1>. USE DEF Init
<1>1. TypeOK
  <2>1. out \in [Conns -> Seq(Chunk)]
    BY SMTT(60), NothingCarried
  <2>2. pc \in [Threads -> {"idle", "ensure"}] /\ attempts \in [Threads -> 0 .. 1]
    OBVIOUS
  <2>3. breaks \in 0 .. MaxBreaks /\ writes \in 0 .. MaxWrites
    BY SMTT(60), StreamAssumption
  <2>. QED
    BY ZenonT(60), <2>1, <2>2, <2>3 DEF TypeOK
<1>2. Locks /\ Current /\ Held /\ DropsFailed
  BY SMTT(60) DEF Locks, Current, Held, DropsFailed
<1>3. NoConnLeaked /\ Progress /\ FramesWhole
  BY NothingCarried DEF NoConnLeaked, Progress, FramesWhole
<1>. QED
  BY <1>1, <1>2, <1>3 DEF IInv

\* The inductive invariant holds in every reachable state, for every set of
\* writers and any number of calls and breaks.
THEOREM StreamInvariant == Spec => []IInv
  BY IInvInit, IInvStep, PTL DEF Spec

\* The variables of the stream carrier keep their types.
THEOREM StreamTypes == Spec => []TypeOK
<1>1. IInv => TypeOK
  BY DEF IInv
<1>. QED
  BY <1>1, StreamInvariant, PTL

\* ensureConn never loses a socket, whichever of Close, resetConn and the other
\* callers of ensureConn come between its steps: an open connection is s.conn or
\* is in the hands of the goroutine that holds connectMu.
THEOREM NoSocketLost == Spec => []NoConnLeaked
<1>1. IInv => NoConnLeaked
  BY DEF IInv
<1>. QED
  BY <1>1, StreamInvariant, PTL

\* What a connection carries is whole frames, for any number of concurrent
\* callers of WritePacket (writeMu, and resetConn before the lock is given up).
THEOREM PeerReadsWholeFrames == Spec => []FramesWhole
<1>1. IInv => FramesWhole
  BY DEF IInv
<1>. QED
  BY <1>1, StreamInvariant, PTL

\* resetConn closes only a connection on which its caller saw an error, however
\* late the caller is: a healthy s.conn is closed by Close alone.
THEOREM ResetSparesHealthy == Spec => HealthyConnKept
<1>. DEFINE Kept == \A c \in Conns : state[c] = "open" /\ state'[c] = "closed" /\ ~closed'
                      => link[c] = "down" \/ c \in spoiled
<1>1. IInv /\ [Next]_vars => [Kept]_vars
  <2>. SUFFICES ASSUME IInv, Next, NEW c \in Conns,
                       state[c] = "open", state'[c] = "closed", ~closed'
                PROVE  link[c] = "down" \/ c \in spoiled
    BY SMTT(60)
  <2>1. ASSUME NEW t \in Threads, pc[t] \in {"reset", "resetBody"}, DropFailed(hold[t])
        PROVE  link[c] = "down" \/ c \in spoiled
    <3>1. hold[t] = c
      BY SMTT(60), <2>1 DEF DropFailed, IInv, TypeOK
    <3>. QED
      BY SMTT(60), <2>1, <3>1 DEF IInv, DropsFailed
  <2>2. ASSUME NEW t \in Threads, EnsureConn(t)
        PROVE  FALSE
    BY SMTT(60), <2>2 DEF EnsureConn, EnsureFast, Connect, Dial, DialFails, Install, IInv, TypeOK
  <2>3. CASE ReadPacket
    BY SMTT(60), <2>1, <2>2, <2>3 DEF ReadPacket, ReadFrame, ReadBadHead, ReadFails, ReaderReset
  <2>4. ASSUME NEW t \in Writers, WriteCall(t) \/ WritePacket(t)
        PROVE  link[c] = "down" \/ c \in spoiled
    BY SMTT(60), <2>1, <2>2, <2>4 DEF WritePacket, WriteCall, WriteHead, WriteBody, WriteFails, WriterReset
  <2>5. ~Close /\ ~Cancel /\ ~PeerMoves
    BY SMTT(60) DEF Close, Cancel, PeerMoves
  <2>6. ASSUME NEW d \in Conns
        PROVE  ~(HalfOpen(d) \/ LinkBreaks(d) \/ KeepAliveFails(d))
    BY DEF HalfOpen, LinkBreaks, KeepAliveFails, LinkChanges
  <2>. QED
    BY SMTT(60), <2>3, <2>4, <2>5, <2>6 DEF Next
<1>. QED
  BY <1>1, StreamInvariant, PTL DEF Spec, HealthyConnKept
============================================================================

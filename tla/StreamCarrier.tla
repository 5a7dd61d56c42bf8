--------------------------- MODULE StreamCarrier ---------------------------
(***************************************************************************)
(* streamCarrier (carrier.go): length-prefixed packets over one connection *)
(* at a time, for TCP and KCP, with the goroutines that share it: one      *)
(* recvLoop in ReadPacket, the callers of WritePacket, and run, which      *)
(* cancels the context and calls Close.                                    *)
(*                                                                         *)
(* A goroutine holds connMu for one step; connectMu and writeMu are held   *)
(* across steps.  readMu has a single user (run starts one recvLoop for a  *)
(* stream carrier) and is left out, as are the bytes: a frame is a head    *)
(* and a body.  A connection fails towards its user when it is closed here *)
(* or its link is down; a half-open link (the peer is gone unnoticed)      *)
(* swallows what is written and delivers nothing.  A connection is reused  *)
(* for a new one when nobody holds it any more.                            *)
(***************************************************************************)
EXTENDS Naturals, Sequences, FiniteSets

CONSTANTS
  Writers,    \* goroutines that call WritePacket
  MaxBreaks,  \* bound: connections that break, go half-open or are spoiled
  MaxWrites   \* bound: calls of WritePacket

ASSUME StreamAssumption ==
  /\ MaxBreaks \in Nat
  /\ MaxWrites \in Nat

\* The writers are goroutines other than the reader, and none of them is the
\* mark of a free mutex.
ASSUME WritersAssumption == "reader" \notin Writers /\ "nobody" \notin Writers

Reader  == "reader"
Threads == Writers \cup {Reader}
Conns   == 1 .. Cardinality(Threads) + 1
Nil     == 0
Nobody  == "nobody"

VARIABLES
  pc,         \* where each goroutine is
  hold,       \* the connection that it got from ensureConn, or is installing
  attempts,   \* failed attempts of the WritePacket call
  accepts,    \* TRUE: Kharej, with a listener; FALSE: Iran, which dials
  conn,       \* s.conn
  closed,     \* s.closed, and the listener is closed
  cancelled,  \* ctx is done
  connectMu, writeMu,  \* their holders
  state,      \* of each connection, as far as this side goes
  link,       \* of each connection: "up", "half" or "down"
  out,        \* history: what each connection was given to carry
  spoiled,    \* history: connections on which a frame of invalid length came
  peer,       \* "there" or "away"
  breaks,     \* breaks so far
  writes      \* calls of WritePacket so far

vars == <<accepts, pc, hold, attempts, conn, closed, cancelled, connectMu, writeMu, state, link,
          out,
          spoiled, peer, breaks, writes>>
netVars == <<link, spoiled, peer, breaks, cancelled, writes>>

Parts == {"head", "body", "part"}
Chunk == [by : Writers, part : Parts]

TypeOK ==
  /\ pc \in [Threads -> {"idle", "ensure", "connect", "dial", "install", "head", "body",
                         "reset", "resetBody", "done"}]
  /\ accepts \in BOOLEAN
  /\ hold \in [Threads -> Conns \cup {Nil}]
  /\ attempts \in [Threads -> 0 .. 1]
  /\ conn \in Conns \cup {Nil}
  /\ closed \in BOOLEAN /\ cancelled \in BOOLEAN
  /\ connectMu \in Threads \cup {Nobody} /\ writeMu \in Writers \cup {Nobody}
  /\ state \in [Conns -> {"open", "closed"}]
  /\ link \in [Conns -> {"up", "half", "down"}]
  /\ out \in [Conns -> Seq(Chunk)]
  /\ spoiled \subseteq Conns
  /\ peer \in {"there", "away"}
  /\ breaks \in 0 .. MaxBreaks /\ writes \in 0 .. MaxWrites

Init ==
  /\ pc = [t \in Threads |-> IF t = Reader THEN "ensure" ELSE "idle"]
  /\ accepts \in BOOLEAN
  /\ hold = [t \in Threads |-> Nil]
  /\ attempts = [t \in Threads |-> 0]
  /\ conn = Nil
  /\ closed = FALSE /\ cancelled = FALSE
  /\ connectMu = Nobody /\ writeMu = Nobody
  /\ state = [c \in Conns |-> "closed"]
  /\ link = [c \in Conns |-> "up"]
  /\ out = [c \in Conns |-> <<>>]
  /\ spoiled = {}
  /\ peer \in {"there", "away"}
  /\ breaks = 0 /\ writes = 0

Goto(t, p) == pc' = [pc EXCEPT ![t] = p]

\* WritePacket returns and its deferred unlock runs.
Returned(t) == IF t = Reader THEN writeMu ELSE Nobody

----------------------------------------------------------------------------
(* ensureConn.  It ends with a connection or with an error; ReadPacket asks *)
(* the context about an error and tries again, WritePacket returns it.      *)

Got(t, c) ==
  /\ Goto(t, "head")
  /\ hold' = [hold EXCEPT ![t] = c]
  /\ UNCHANGED writeMu

Failed(t) ==
  /\ Goto(t, IF t # Reader THEN "idle" ELSE IF cancelled THEN "done" ELSE "ensure")
  /\ hold' = [hold EXCEPT ![t] = Nil]
  /\ writeMu' = Returned(t)

EnsureFast(t) ==
  /\ pc[t] = "ensure"
  /\ IF closed THEN Failed(t)
     ELSE IF conn # Nil THEN Got(t, conn)
     ELSE Goto(t, "connect") /\ UNCHANGED <<hold, writeMu>>
  /\ UNCHANGED <<accepts, attempts, conn, closed, connectMu, state, out, netVars>>

\* Mutant: connectMu is taken and nobody looks again.
ConnectUnchecked(t) ==
  /\ pc[t] = "connect" /\ connectMu = Nobody
  /\ connectMu' = t
  /\ Goto(t, "dial")
  /\ UNCHANGED <<accepts, hold, attempts, conn, closed, writeMu, state, out, netVars>>

\* connectMu, then the second look.
Connect(t) ==
  /\ pc[t] = "connect" /\ connectMu = Nobody
  /\ IF closed THEN Failed(t) /\ UNCHANGED connectMu
     ELSE IF conn # Nil THEN Got(t, conn) /\ UNCHANGED connectMu
     ELSE Goto(t, "dial") /\ connectMu' = t /\ UNCHANGED <<hold, writeMu>>
  /\ UNCHANGED <<accepts, attempts, conn, closed, state, out, netVars>>

Free == {c \in Conns : state[c] = "closed" /\ \A t \in Threads : hold[t] # c}

\* Accept or dial succeeds: a socket that only this goroutine knows of.
\* The dial is TCP's; that of KCP needs neither the peer nor its context.
Dial(t) ==
  /\ pc[t] = "dial"
  /\ peer = "there"
  /\ ~(IF accepts THEN closed ELSE cancelled)
  /\ \E c \in Free :
       /\ \A d \in Free : c <= d
       /\ state' = [state EXCEPT ![c] = "open"]
       /\ link' = [link EXCEPT ![c] = "up"]
       /\ out' = [out EXCEPT ![c] = <<>>]
       /\ spoiled' = spoiled \ {c}
       /\ hold' = [hold EXCEPT ![t] = c]
  /\ Goto(t, "install")
  /\ UNCHANGED <<accepts, attempts, conn, closed, cancelled, connectMu, writeMu, peer, breaks,
                 writes>>

\* Accept fails once the listener is closed, dial when the peer does not
\* answer or the context is done.
DialFails(t) ==
  /\ pc[t] = "dial"
  /\ IF accepts THEN closed ELSE cancelled \/ peer = "away"
  /\ Failed(t)
  /\ connectMu' = Nobody
  /\ UNCHANGED <<accepts, attempts, conn, closed, state, out, netVars>>

\* Mutant: the new connection is stored whatever happened meanwhile.
InstallUnchecked(t) ==
  /\ pc[t] = "install"
  /\ conn' = hold[t] /\ Got(t, hold[t])
  /\ connectMu' = Nobody
  /\ UNCHANGED <<accepts, attempts, closed, state, out, netVars>>

\* The connection becomes s.conn, or is closed when Close came first.
Install(t) ==
  /\ pc[t] = "install"
  /\ IF closed
     THEN Failed(t) /\ state' = [state EXCEPT ![hold[t]] = "closed"] /\ UNCHANGED conn
     ELSE Got(t, hold[t]) /\ conn' = hold[t] /\ UNCHANGED state
  /\ connectMu' = Nobody
  /\ UNCHANGED <<accepts, attempts, closed, out, netVars>>

----------------------------------------------------------------------------
(* resetConn and Close.                                                    *)

\* Mutant: whatever is s.conn by now is closed.
DropCurrent(c) ==
  /\ state' = IF conn = Nil THEN state ELSE [state EXCEPT ![conn] = "closed"]
  /\ conn' = Nil

\* Mutant: the failed connection is closed and stays s.conn.
DropKeepsConn(c) ==
  /\ state' = IF conn = c THEN [state EXCEPT ![c] = "closed"] ELSE state
  /\ conn' = conn

\* resetConn: only the connection that failed.
DropFailed(c) ==
  /\ state' = IF conn = c THEN [state EXCEPT ![c] = "closed"] ELSE state
  /\ conn' = IF conn = c THEN Nil ELSE conn

\* ReadPacket asks the context after a failed head and recvLoop after an
\* invalid one; after a failed body the loop just goes on.
ReaderReset ==
  /\ pc[Reader] \in {"reset", "resetBody"}
  /\ DropFailed(hold[Reader])
  /\ Goto(Reader, IF pc[Reader] = "reset" /\ cancelled THEN "done" ELSE "ensure")
  /\ hold' = [hold EXCEPT ![Reader] = Nil]
  /\ UNCHANGED <<accepts, attempts, closed, connectMu, writeMu, out, netVars>>

\* Mutant: one attempt more.
WriterResetTwice(t) ==
  /\ pc[t] = "reset"
  /\ DropFailed(hold[t])
  /\ hold' = [hold EXCEPT ![t] = Nil]
  /\ IF attempts[t] <= 1
     THEN Goto(t, "ensure") /\ attempts' = [attempts EXCEPT ![t] = @ + 1] /\ UNCHANGED writeMu
     ELSE Goto(t, "idle") /\ writeMu' = Nobody /\ UNCHANGED attempts
  /\ UNCHANGED <<accepts, closed, connectMu, out, netVars>>

\* WritePacket tries once more, then gives up.
WriterReset(t) ==
  /\ pc[t] = "reset"
  /\ DropFailed(hold[t])
  /\ hold' = [hold EXCEPT ![t] = Nil]
  /\ IF attempts[t] = 0
     THEN Goto(t, "ensure") /\ attempts' = [attempts EXCEPT ![t] = 1] /\ UNCHANGED writeMu
     ELSE Goto(t, "idle") /\ writeMu' = Nobody /\ UNCHANGED attempts
  /\ UNCHANGED <<accepts, closed, connectMu, out, netVars>>

Cancel ==
  /\ ~cancelled
  /\ cancelled' = TRUE
  /\ UNCHANGED <<accepts, pc, hold, attempts, conn, closed, connectMu, writeMu, state, link, out,
                 spoiled,
                 peer, breaks, writes>>

Close ==
  /\ cancelled /\ ~closed
  /\ closed' = TRUE
  /\ conn' = Nil
  /\ state' = IF conn = Nil THEN state ELSE [state EXCEPT ![conn] = "closed"]
  /\ UNCHANGED <<accepts, pc, hold, attempts, connectMu, writeMu, out, netVars>>

----------------------------------------------------------------------------
(* ReadPacket and WritePacket on the connection that they hold.            *)

Break == breaks < MaxBreaks /\ breaks' = breaks + 1

Works(c)  == state[c] = "open" /\ link[c] = "up"
Broken(c) == state[c] = "closed" \/ link[c] = "down"

\* A head, and then a body, has come in.
ReadFrame ==
  /\ pc[Reader] \in {"head", "body"}
  /\ Works(hold[Reader])
  /\ Goto(Reader, IF pc[Reader] = "head" THEN "body" ELSE "ensure")
  /\ UNCHANGED <<accepts, hold, attempts, conn, closed, connectMu, writeMu, state, out, netVars>>

\* The head holds an invalid length.
ReadBadHead ==
  /\ pc[Reader] = "head"
  /\ Works(hold[Reader])
  /\ Break
  /\ Goto(Reader, "reset")
  /\ spoiled' = spoiled \cup {hold[Reader]}
  /\ UNCHANGED <<accepts, hold, attempts, conn, closed, cancelled, connectMu, writeMu, state, link,
                 out,
                 peer, writes>>

ReadFails ==
  /\ pc[Reader] \in {"head", "body"}
  /\ Broken(hold[Reader])
  /\ Goto(Reader, IF pc[Reader] = "head" THEN "reset" ELSE "resetBody")
  /\ UNCHANGED <<accepts, hold, attempts, conn, closed, connectMu, writeMu, state, out, netVars>>

\* Mutant: WritePacket without writeMu.
WriteCallUnlocked(t) ==
  /\ pc[t] = "idle"
  /\ writes < MaxWrites
  /\ writes' = writes + 1
  /\ Goto(t, "ensure")
  /\ attempts' = [attempts EXCEPT ![t] = 0]
  /\ UNCHANGED <<accepts, hold, conn, closed, cancelled, connectMu, writeMu, state, link, out,
                 spoiled,
                 peer, breaks>>

\* WritePacket of a frame of valid length, once writeMu is free.
WriteCall(t) ==
  /\ pc[t] = "idle" /\ writeMu = Nobody
  /\ writes < MaxWrites
  /\ writes' = writes + 1
  /\ writeMu' = t
  /\ Goto(t, "ensure")
  /\ attempts' = [attempts EXCEPT ![t] = 0]
  /\ UNCHANGED <<accepts, hold, conn, closed, cancelled, connectMu, state, link, out, spoiled,
                 peer, breaks>>

Carry(t, part) == out' = [out EXCEPT ![hold[t]] = Append(@, [by |-> t, part |-> part])]

WriteHead(t) ==
  /\ pc[t] = "head"
  /\ ~Broken(hold[t])
  /\ Carry(t, "head")
  /\ Goto(t, "body")
  /\ UNCHANGED <<accepts, hold, attempts, conn, closed, connectMu, writeMu, state, netVars>>

WriteBody(t) ==
  /\ pc[t] = "body"
  /\ ~Broken(hold[t])
  /\ Carry(t, "body")
  /\ Goto(t, "idle")
  /\ hold' = [hold EXCEPT ![t] = Nil]
  /\ writeMu' = Nobody
  /\ UNCHANGED <<accepts, attempts, conn, closed, connectMu, state, netVars>>

\* writeAll fails, with some of its bytes gone or none.
WriteFails(t) ==
  /\ pc[t] \in {"head", "body"}
  /\ Broken(hold[t])
  /\ Carry(t, "part") \/ UNCHANGED out
  /\ Goto(t, "reset")
  /\ UNCHANGED <<accepts, hold, attempts, conn, closed, connectMu, writeMu, state, netVars>>

----------------------------------------------------------------------------
(* The network.                                                            *)

LinkChanges(c, l) ==
  /\ link' = [link EXCEPT ![c] = l]
  /\ UNCHANGED <<accepts, pc, hold, attempts, conn, closed, cancelled, connectMu, writeMu, state,
                 out,
                 spoiled, peer, writes>>

HalfOpen(c)   == Works(c) /\ Break /\ LinkChanges(c, "half")
LinkBreaks(c) == Works(c) /\ Break /\ LinkChanges(c, "down")

\* TCP keepalive (tuneTCPConn) finds that the peer is gone.
KeepAliveFails(c) == state[c] = "open" /\ link[c] = "half" /\ UNCHANGED breaks /\ LinkChanges(c, "down")

PeerMoves ==
  /\ peer' = IF peer = "there" THEN "away" ELSE "there"
  /\ UNCHANGED <<accepts, pc, hold, attempts, conn, closed, cancelled, connectMu, writeMu, state,
                 link,
                 out, spoiled, breaks, writes>>

----------------------------------------------------------------------------
EnsureConn(t) == EnsureFast(t) \/ Connect(t) \/ Dial(t) \/ DialFails(t) \/ Install(t)
ReadPacket == EnsureConn(Reader) \/ ReadFrame \/ ReadBadHead \/ ReadFails \/ ReaderReset
WritePacket(t) == EnsureConn(t) \/ WriteHead(t) \/ WriteBody(t) \/ WriteFails(t) \/ WriterReset(t)

Next ==
  \/ ReadPacket
  \/ \E t \in Writers : WriteCall(t) \/ WritePacket(t)
  \/ Cancel \/ Close
  \/ \E c \in Conns : HalfOpen(c) \/ LinkBreaks(c) \/ KeepAliveFails(c)
  \/ PeerMoves

\* Goroutines run, a mutex is handed to each waiting goroutine in the end
\* (sync.Mutex does not starve), keepalive is on, and run closes the carrier
\* after it has cancelled the context.  Nothing is assumed of the peer: that a
\* frame comes in or that a write gets through.
Fairness ==
  /\ WF_vars(EnsureConn(Reader) \/ ReadFails \/ ReaderReset)
  /\ SF_vars(Connect(Reader))
  /\ \A t \in Writers :
       WF_vars(EnsureConn(t) \/ WriteFails(t) \/ WriterReset(t)) /\ SF_vars(Connect(t))
  /\ \A c \in Conns : WF_vars(KeepAliveFails(c))
  /\ WF_vars(Close)

Spec == Init /\ [][Next]_vars
FairSpec == Spec /\ Fairness

----------------------------------------------------------------------------
\* A connection that is open is s.conn, or in the hands of the goroutine that
\* is about to make it s.conn or close it: no socket is lost when ensureConn
\* races Close or another ensureConn.
NoConnLeaked ==
  \A c \in Conns : state[c] = "open" =>
    \/ conn = c
    \/ connectMu # Nobody /\ pc[connectMu] = "install" /\ hold[connectMu] = c

\* On one connection: a head is followed by the body, or a piece of the body,
\* of the same call or by nothing more, and a broken piece by nothing.
WholeFrames(s) ==
  \A i \in 1 .. Len(s) :
    /\ i = 1 => s[i].part # "body"
    /\ i < Len(s) =>
         /\ s[i].part # "part"
         /\ IF s[i].part = "head"
            THEN s[i + 1].part \in {"body", "part"} /\ s[i + 1].by = s[i].by
            ELSE s[i + 1].part # "body"

\* The peer reads whole frames on every connection, however the callers, the
\* reader's resets and Close interleave.
FramesWhole == \A c \in Conns : WholeFrames(out[c])

\* A goroutine that is late to report a failure does not close the connection
\* that has replaced the failed one (resetConn compares).
HealthyConnKept ==
  [][\A c \in Conns : state[c] = "open" /\ state'[c] = "closed" /\ ~closed'
       => link[c] = "down" \/ c \in spoiled]_vars

\* After Close the reader ends and every call of WritePacket returns, whatever
\* they were waiting for ("it wakes goroutines blocked in ... carrier reads",
\* main.go).
CloseWakesAll ==
  closed ~> (pc[Reader] = "done" /\ \A t \in Writers : pc[t] = "idle")

\* While the peer is there and the carrier is not being closed, a lost or
\* half-open connection is replaced by a working one.
Reconnects ==
  <>[](peer = "there" /\ ~cancelled)
    => <>[](conn # Nil /\ Works(conn))
============================================================================

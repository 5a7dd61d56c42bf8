------------------------------ MODULE Process ------------------------------
(***************************************************************************)
(* run (main.go) from the TUN device to the exit of the process, with its  *)
(* workers and the TUN device that they share (tun_linux.go).  A worker is *)
(* reduced to what it may wait for, who wakes it, and its use of the       *)
(* device.  Of the carriers (carrier_udp.go, carrier_tcp.go,               *)
(* carrier_kcp.go) there are the constructors with their socket, and Close. *)
(* Routing and firewall are installed or not.                              *)
(*                                                                         *)
(* t.queues is shared without a lock.  Write looks at it, adds to an       *)
(* atomic counter and looks again, so the build loads it twice; in         *)
(* ReadQueue nothing separates the two uses and one load serves both.      *)
(*                                                                         *)
(* openTunQueue calls f.Fd(), which puts the file into blocking mode: Close *)
(* then refuses further reads but does not end one that is waiting in the  *)
(* kernel (os.File, external).  That read returns with the next packet.    *)
(***************************************************************************)
CONSTANTS
  Roles,       \* "iran", "kharej" or both
  Transports,  \* the types of carrier, of "udp", "tcp" and "kcp"
  SmartRoles,  \* the roles with Smart Return
  Receivers,   \* recvLoop goroutines of a UDP carrier
  FirstReceiver,  \* the only one of the others
  TunQueues,   \* the TUN queues asked for
  FirstQueue   \* the one that is left after the fallback

ASSUME ProcessAssumption ==
  /\ Roles \subseteq {"iran", "kharej"} /\ SmartRoles \subseteq Roles
  /\ Transports \subseteq {"udp", "tcp", "kcp"}
  /\ FirstQueue \in TunQueues /\ FirstReceiver \in Receivers
  /\ Receivers \cap TunQueues = {}

Tickers == {"supervisor", "stats"} \cup {"monitor" : r \in SmartRoles \cap {"kharej"}}
Probers == {"responder" : r \in SmartRoles \cap {"iran"}}
Workers == Receivers \cup TunQueues \cup Tickers \cup Probers

NoConfig == [role |-> "", transport |-> ""]

VARIABLES
  config,     \* role and transport; dropped when run has read them
  main,       \* where run is; it ends in "exit", "noTun", "killed" or "panic"
  fds,        \* TUN files that are not closed
  queues,     \* t.queues; empty when nil
  installed,  \* routing and firewall are set up
  socket,     \* a carrier's packet conn or listener is open
  carrier,    \* "none", "open" or "closed"
  cancelled,  \* the context is done
  errCh,      \* the error channel: holds an error or not
  worker,     \* where each worker is; "none" before it starts
  failed,     \* history: TUN queues whose read failed while running
  late        \* history: run stopped waiting for its workers

runVars == <<config, main, fds, queues, installed, socket, carrier, cancelled, errCh, worker, failed, late>>

RunInit ==
  /\ main = "open"
  /\ fds = {} /\ queues = {}
  /\ installed \in BOOLEAN   \* a killed process leaves its rules behind
  /\ config \in [role : Roles, transport : Transports]
  /\ socket = FALSE /\ carrier = "none"
  /\ cancelled = FALSE
  /\ errCh = FALSE
  /\ worker = [w \in Workers |-> "none"]
  /\ failed = {}
  /\ late = FALSE

Running == main \notin {"exit", "noTun", "killed", "panic"}

\* The deferred functions of run, as far as they have been reached: carrier,
\* context, rules, TUN.
Return ==
  /\ main' = "exit"
  /\ carrier' = IF carrier = "open" THEN "closed" ELSE carrier
  /\ socket' = (socket /\ carrier # "open")
  /\ cancelled' = TRUE
  /\ fds' = {} /\ queues' = {}

----------------------------------------------------------------------------
(* openTun and the set-up.                                                 *)

\* openTunWithQueues with all queues, or with one after the fallback.
Asked == IF main = "single" THEN {FirstQueue} ELSE TunQueues

OpenQueue(q) ==
  /\ main \in {"open", "single"}
  /\ q \in Asked \ fds
  /\ fds' = fds \cup {q}
  /\ queues' = IF Asked \subseteq fds' THEN Asked ELSE queues
  /\ main' = IF Asked \subseteq fds' THEN "setup" ELSE main
  /\ UNCHANGED <<config, installed, socket, carrier, cancelled, errCh, worker, failed, late>>

\* Mutant: the fallback does not close what the first attempt opened.
OpenFailsKeepsFiles ==
  /\ main \in {"open", "single"}
  /\ main' = IF Asked = {FirstQueue} THEN "noTun" ELSE "single"
  /\ UNCHANGED <<config, fds, queues, installed, socket, carrier, cancelled, errCh, worker, failed, late>>

\* A queue cannot be opened: those opened are closed; several are retried as
\* one, one is an error.
OpenFails ==
  /\ main \in {"open", "single"}
  /\ fds' = {}
  /\ main' = IF Asked = {FirstQueue} THEN "noTun" ELSE "single"
  /\ UNCHANGED <<config, queues, installed, socket, carrier, cancelled, errCh, worker, failed, late>>

\* cleanupRouting, then the set-up functions.
Setup ==
  /\ main = "setup"
  /\ main' = "carrier"
  /\ installed' = TRUE
  /\ UNCHANGED <<config, fds, queues, socket, carrier, cancelled, errCh, worker, failed, late>>

\* One of them fails: rolled back.
SetupFails ==
  /\ main = "setup"
  /\ installed' = FALSE
  /\ Return
  /\ UNCHANGED <<config, errCh, worker, failed, late>>

FirstStep(w) == IF w \in TunQueues THEN "fetch" ELSE IF w \in Tickers THEN "select" ELSE "read"

\* newCarrier.  Only a TCP carrier that dials has no socket of its own.
Listens == config # [role |-> "iran", transport |-> "tcp"]

Listen ==
  /\ main = "carrier" /\ Listens
  /\ socket' = TRUE
  /\ main' = "peer"
  /\ UNCHANGED <<config, fds, queues, installed, carrier, cancelled, errCh, worker, failed, late>>

\* Mutant: the cleanup is only deferred once the carrier is there.
ListenFailsUnclean ==
  /\ main = "carrier" /\ Listens
  /\ UNCHANGED installed
  /\ Return
  /\ UNCHANGED <<config, errCh, worker, failed, late>>

ListenFails ==
  /\ main = "carrier" /\ Listens
  /\ installed' = FALSE
  /\ Return
  /\ UNCHANGED <<config, errCh, worker, failed, late>>

\* A constructor fails after it has opened its socket: it closes it, for run
\* has no carrier to close.
GiveUp ==
  /\ main = "peer"
  /\ installed' = FALSE
  /\ main' = "exit" /\ cancelled' = TRUE /\ fds' = {} /\ queues' = {}
  /\ socket' = FALSE
  /\ UNCHANGED <<config, carrier, errCh, worker, failed, late>>

\* The peer cannot be resolved.
PeerFails == config.role = "iran" /\ config.transport \in {"udp", "kcp"} /\ GiveUp

\* kcp.ServeConn fails.
ServeFails == config = [role |-> "kharej", transport |-> "kcp"] /\ GiveUp

Started(w) ==
  \/ w \in queues
  \/ w \in Receivers /\ (config.transport = "udp" \/ w = FirstReceiver)
  \/ w \in {"supervisor", "stats"}
  \/ w = "monitor" /\ config.role = "kharej"
  \/ w = "responder" /\ config.role = "iran"

\* The carrier is there, and the workers: a sender for each queue that was
\* opened.
StartWorkers ==
  /\ main = IF Listens THEN "peer" ELSE "carrier"
  /\ carrier' = "open"
  /\ worker' = [w \in Workers |-> IF Started(w) THEN FirstStep(w) ELSE "done"]
  /\ config' = NoConfig
  /\ main' = "select"
  /\ UNCHANGED <<fds, queues, installed, socket, cancelled, errCh, failed, late>>

----------------------------------------------------------------------------
(* Shutdown.                                                               *)

\* SIGINT or SIGTERM: fatal until NotifyContext has been called.
Signal ==
  /\ Running /\ ~cancelled
  /\ IF main \in {"open", "single", "setup"}
     THEN main' = "killed" /\ fds' = {} /\ UNCHANGED cancelled
     ELSE cancelled' = TRUE /\ UNCHANGED <<main, fds>>
  /\ UNCHANGED <<config, queues, installed, socket, carrier, errCh, worker, failed, late>>

\* The select of run: the context is done, or a queue has reported.
SelectDone ==
  /\ main = "select"
  /\ cancelled
  /\ main' = "closeCarrier"
  /\ UNCHANGED <<config, fds, queues, installed, socket, carrier, cancelled, errCh, worker, failed, late>>

SelectError ==
  /\ main = "select"
  /\ errCh
  /\ errCh' = FALSE
  /\ cancelled' = TRUE
  /\ main' = "closeCarrier"
  /\ UNCHANGED <<config, fds, queues, installed, socket, carrier, worker, failed, late>>

\* Mutant: only the TUN is closed.
CloseCarrierMissed ==
  /\ main = "closeCarrier"
  /\ main' = "closeTun"
  /\ UNCHANGED <<config, fds, queues, installed, socket, carrier, cancelled, errCh, worker, failed, late>>

CloseCarrier ==
  /\ main = "closeCarrier"
  /\ carrier' = "closed" /\ socket' = FALSE
  /\ main' = "closeTun"
  /\ UNCHANGED <<config, fds, queues, installed, cancelled, errCh, worker, failed, late>>

\* tunDevice.Close: one file after the other ...
CloseQueue(q) ==
  /\ main = "closeTun"
  /\ q \in fds
  /\ fds' = fds \ {q}
  /\ UNCHANGED <<config, main, queues, installed, socket, carrier, cancelled, errCh, worker, failed, late>>

\* ... then t.queues = nil.
DropQueues ==
  /\ main = "closeTun"
  /\ fds = {}
  /\ queues' = {}
  /\ main' = "wait"
  /\ UNCHANGED <<config, fds, installed, socket, carrier, cancelled, errCh, worker, failed, late>>

Ended == \A w \in Workers : worker[w] = "done"

\* wg.Wait returns.
Join ==
  /\ main = "wait"
  /\ Ended
  /\ installed' = FALSE
  /\ Return
  /\ UNCHANGED <<config, errCh, worker, failed, late>>

\* The worker waits, and nothing that run has closed or cancelled wakes it.
Stuck(w) ==
  \/ w \in Receivers /\ worker[w] = "read" /\ carrier # "closed"
  \/ w \in TunQueues /\ worker[w] = "read"
  \/ w \in Probers /\ worker[w] = "read"

\* Five seconds: longer than any step of a worker that is awake.
WaitTimeout ==
  /\ main = "wait"
  /\ ~Ended
  /\ \A w \in Workers : worker[w] = "done" \/ Stuck(w)
  /\ late' = TRUE
  /\ installed' = FALSE
  /\ Return
  /\ UNCHANGED <<config, errCh, worker, failed>>

----------------------------------------------------------------------------
(* The workers.                                                            *)

Goto(w, p) ==
  /\ worker' = [worker EXCEPT ![w] = p]
  /\ UNCHANGED <<config, main, fds, queues, installed, socket, carrier, cancelled, errCh, failed, late>>

\* recvLoop: ReadPacket returns a data packet that handleEncrypted accepts.
RecvPacket(r) ==
  /\ Running
  /\ worker[r] = "read" /\ carrier = "open"
  /\ Goto(r, "check")

\* Write finds the device open and goes on, or closed, which is ignored.
WriteCheck(r) ==
  /\ Running
  /\ worker[r] = "check"
  /\ Goto(r, IF queues # {} THEN "modulo" ELSE "read")

\* ReadPacket fails; recvLoop ends when the context is done.
RecvEnd(r) ==
  /\ Running
  /\ worker[r] = "read" /\ carrier = "closed" /\ cancelled
  /\ Goto(r, "done")

\* The counter modulo the number of queues picks one.
WritePick(r) ==
  /\ Running
  /\ worker[r] = "modulo"
  /\ queues # {}
  /\ Goto(r, "write")

\* There is none by now: a division by zero, and the process is gone.
WritePanics(r) ==
  /\ Running
  /\ worker[r] = "modulo"
  /\ queues = {}
  /\ main' = "panic"
  /\ fds' = {}
  /\ UNCHANGED <<config, queues, installed, socket, carrier, cancelled, errCh, worker, failed, late>>

\* Written, or an error that recvLoop ignores.
WriteFd(r) ==
  /\ Running
  /\ worker[r] = "write"
  /\ Goto(r, "read")

\* tunSendLoop: ReadQueue finds its file and waits in Read; or the queue is
\* gone or closed, which is the end when the context is done.
ReadQueue(q) ==
  /\ Running
  /\ worker[q] = "fetch"
  /\ Goto(q, IF q \in queues \cap fds THEN "read" ELSE "done")

\* The kernel has a packet, for a file closed meanwhile too.
TunPacket(q) ==
  /\ Running
  /\ worker[q] = "read"
  /\ Goto(q, "send")

\* sendEncrypted returns: sent, no session, or the carrier failed.
TunSent(q) ==
  /\ Running
  /\ worker[q] = "send"
  /\ Goto(q, "fetch")

\* Mutant: the failed queue just ends.
TunFailsSilently(q) ==
  /\ Running
  /\ worker[q] = "read"
  /\ worker' = [worker EXCEPT ![q] = "done"]
  /\ failed' = IF cancelled THEN failed ELSE failed \cup {q}
  /\ UNCHANGED <<config, main, fds, queues, installed, socket, carrier, cancelled, errCh, late>>

\* The read fails: reported unless the context is done or an error is waiting.
TunFails(q) ==
  /\ Running
  /\ worker[q] = "read"
  /\ worker' = [worker EXCEPT ![q] = "done"]
  /\ failed' = IF cancelled THEN failed ELSE failed \cup {q}
  /\ errCh' = (errCh \/ ~cancelled)
  /\ UNCHANGED <<config, main, fds, queues, installed, socket, carrier, cancelled, late>>

\* Supervisor, statistics and monitor: a select on the context and a ticker,
\* and work that the context or the closed carrier cuts short.
Tick(t) ==
  /\ Running
  /\ worker[t] = "select"
  /\ Goto(t, "busy")

TickDone(t) ==
  /\ Running
  /\ worker[t] = "busy"
  /\ Goto(t, "select")

TickerEnds(t) ==
  /\ Running
  /\ worker[t] = "select" /\ cancelled
  /\ Goto(t, "done")

\* The responder leaves its loop on a failed read only.
ResponderFails(p) ==
  /\ Running
  /\ worker[p] = "read"
  /\ Goto(p, "done")

----------------------------------------------------------------------------
MainStep ==
  \/ \E q \in TunQueues : OpenQueue(q) \/ CloseQueue(q)
  \/ OpenFails \/ Setup \/ SetupFails \/ Listen \/ ListenFails \/ PeerFails \/ ServeFails
  \/ StartWorkers
  \/ SelectDone \/ SelectError \/ CloseCarrier \/ DropQueues \/ Join \/ WaitTimeout

ReceiverAwake(r) == WriteCheck(r) \/ RecvEnd(r) \/ WritePick(r) \/ WritePanics(r) \/ WriteFd(r)
ReceiverStep(r) == RecvPacket(r) \/ ReceiverAwake(r)
QueueStep(q) == ReadQueue(q) \/ TunPacket(q) \/ TunSent(q) \/ TunFails(q)
TickerStep(t) == Tick(t) \/ TickDone(t) \/ TickerEnds(t)

RunNext ==
  \/ MainStep
  \/ Signal
  \/ \E r \in Receivers : ReceiverStep(r)
  \/ \E q \in TunQueues : QueueStep(q)
  \/ \E t \in Tickers : TickerStep(t)
  \/ \E p \in Probers : ResponderFails(p)

\* run goes on whenever it can, and so does a worker that is awake.  A send may
\* wait for a stalled stream until the carrier is closed, the work of a ticker
\* until the context is done.  A select does not prefer its ticker for ever.
Fairness ==
  /\ WF_runVars(MainStep)
  /\ \A r \in Receivers : WF_runVars(ReceiverAwake(r))
  /\ \A q \in TunQueues : WF_runVars(ReadQueue(q) \/ (carrier = "closed" /\ TunSent(q)))
  /\ \A t \in Tickers : WF_runVars(carrier = "closed" /\ TickDone(t)) /\ SF_runVars(TickerEnds(t))

RunSpec == RunInit /\ [][RunNext]_runVars
FairSpec == RunSpec /\ Fairness

----------------------------------------------------------------------------
\* run leaves nothing behind, whichever way it returns: no rule, no open file,
\* no open carrier and no socket of a carrier that failed half-way (its error
\* paths and deferred functions).  Only a failed openTun comes before the
\* cleanup of what a killed predecessor left.
ExitIsClean ==
  /\ main = "exit" => ~installed /\ fds = {} /\ ~socket /\ carrier # "open"
  /\ main = "noTun" => fds = {}

\* openTun yields all queues or, after the fallback, the single one, and no
\* file of a failed attempt stays open beside them.
OpenedQueuesInUse ==
  main \in {"setup", "carrier", "peer", "select"} => fds = queues /\ queues \in {TunQueues, {FirstQueue}}

\* Once run waits, everything that waits for the carrier or the context ends:
\* carrier.Close and the cancelled context wake it.
CarrierWorkersEnd ==
  main = "wait" ~> (main = "panic" \/ \A w \in Receivers \cup Tickers : worker[w] = "done")

\* A TUN queue whose read fails while the process runs ends the process, so
\* that systemd restarts it: tunSendLoop reports, run returns.
TunFailureStops == failed # {} ~> ~Running

\* run never gives up waiting: closing the TUN files and the carrier wakes
\* every worker (main.go: "it wakes goroutines blocked in TUN or carrier reads").
WorkersCollected == ~late
============================================================================

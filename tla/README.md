# A TLA+ verification of Hashshashin

Hashshashin joins two hosts, **Iran** (the client side, which starts every
handshake) and **Kharej** (the server side), by an encrypted TUN tunnel over UDP,
TCP or KCP. These modules model the parts of it in which several goroutines, two
processes and an unreliable network meet; TLC checks them on small instances and
TLAPS proves the central results for every instance.

## 1. The system

| Component | Code | State | Operations |
|---|---|---|---|
| Anti-replay window | `crypto.go` `replayWindow` | `highest`, 64-bit `bitmap` | `accept` |
| Session | `crypto.go` `session`, `deriveSession` | two keys, `tx`, window, `lastSeen`, `created`, `peer` | derive, touch, age, idle |
| Session layer | `transport.go` | `session`, `pending`, `hellos` behind three locks | supervisors, `handshakeClient`, `handleHello`, `handleHelloAck`, `handleEncrypted`, `sendEncrypted` |
| Return controller | `smart_return.go` | path, two counters | `observe` |
| Smart Return | `direct_probe.go`, `smart_return.go`, `smart_policy.go` | ack channel, route in table 168 | monitor, responder, `notifyProbeAck`, `waitProbeAck`, `setKharejReturnPath` |
| Stream carrier | `carrier.go`, `carrier_tcp.go`, `carrier_kcp.go` | `conn`, `closed`, four locks | `ensureConn`, `resetConn`, `ReadPacket`, `WritePacket`, `Close` |
| UDP carrier | `carrier_udp.go` | socket, peers map | read, write |
| Process | `main.go`, systemd unit | workers, context | `run`, `tunSendLoop`, `-cleanup` |
| TUN device | `tun_linux.go` | queue descriptors | open, read, write, close |
| Routing, firewall | `routing.go`, `carrier_firewall.go` | rules, routes, chains | set up, clean up |
| Configuration | `config.go`, `performance.go` | — | load, default, validate |
| Scripts | `install.sh`, manager, bench | — | interactive |

How they interact. The TUN goroutines and the supervisors seal packets with the
current session and give them to the carrier. The receive goroutines take packets
from the carrier, run the handshake, pass packets through the window and hand them
to the TUN or, for probe acks, to the monitor's channel. The monitor on Kharej sends
probes outside the tunnel, the responder on Iran answers inside it, and the
controller turns the results into a route. `run` starts all of this, closes carrier
and TUN at the end, waits up to five seconds and cleans up; systemd runs
`hashshashin -cleanup` after every stop.

What makes it hard. A handler takes a session pointer and uses it after the session
has been replaced; a hello is answered under one lock and its session stored under
another; hellos, acks and packets are lost, repeated and late; either process
restarts with empty memory; a probe times out and its ack comes later; a command
fails half-way; a connection breaks under a reader and a writer at once. The list
with lines is `hazards` in `PROJECT.json`.

What must hold. A GCM nonce is never used twice; a packet is handed over at most
once; both ends agree on keys and, after whatever disturbance, on a session; an expiring session never takes a fresh one with it;
the window accepts what is new and in range and nothing else; the return path
changes on consecutive evidence only, follows the direct path in both directions,
and leaves nothing behind after a stop; stream frames stay whole and no socket leaks;
the rules and routes carry the services as documented, never the carrier through its
own tunnel, and are gone after every end of the process.

## 2. The modules

**Anti-replay window.** `AntiReplay` is the promise: the set of accepted counters,
with a verdict for each arriving one. `ReplayOps` has `accept` as two operators,
`Admits` (it returns true) and `Admit` (the window afterwards), with the bitmap as
the set of its one bits. `ReplayWindow` is the machine over them and refines
`AntiReplay`. `ReplayWord` adds the code's arithmetic on a word of `Window` bits,
modulo `2^Window`, run in step on the same counters.

**Session layer.** `SessionLayer` models both processes. A handler is cut where the
code gives up a lock or reads shared state for later use:

| Code | Actions |
|---|---|
| `clientSupervisor`, `handshakeClient` | `ClientCheckSession`, `ClientNeedsHandshake`, `HandshakeNoNonce`, `HandshakeHello`, `HandshakeRetry`, `HandshakeDone`, `HandshakeFails`, `ClientTick`, `ClientTickQuiet`, `SendKeepalive` |
| `serverSupervisor` | `ServerTickAlive`, `ServerTickIdle`, `ServerExpire`, `SendKeepalive` |
| `handleHello` | `HelloKnown`; `HelloFresh`, then `StoreSession` |
| `handleHelloAck` | `TakeAck`, then `DeriveAndStore` |
| `handleEncrypted` | `Open`, then `Deliver` or `ReplayDrop` |
| `tunSendLoop`, responder | `LoadSession`, then `SendEncrypted` |
| time, NAT, restart | `GoIdle`, `GoAged`, `Rebind`, `Crash` |

A session object is a number per process, so a stale pointer stays a pointer to the
old object. Keys are the triples (label, client nonce, server nonce), which is what
an ideal key derivation gives. The network is the set of everything ever written: a
packet arrives any number of times, in any order, or never. Hello records are a
sequence of which a prefix may have expired whenever `handleHello` looks
(`Live`). A hello that fails its MAC or clock check does nothing and is no step.
`SessionInv` is the inductive invariant, `MCSession` the model values, and `SessionSteps`
and `SessionProofs` are the proofs.

**Hello records and clocks.** `HelloCache` looks at `handleHello` with real time: Iran's
time stamp against Kharej's clock (90 s), the life of a record (120 s), and the time
that a goroutine may wait between the validity check and `helloMu`. The periods and the
difference of the clocks are constants. A hello answered afresh twice would make Kharej
leave the session that Iran uses. `EndpointProofs` proves that this cannot happen
while `Life >= Tolerance + Ahead + Wait`; with the code's periods 30 s remain for the
clocks and the lock. Beyond that margin it can: a hello stamped 31 s ahead is still
valid when its record has gone.

**Recovery.** `SessionRecovery` keeps of the session layer what decides whether the
two sides find each other again: retries and time-out of the handshake, records,
expiry on both sides, rekeying, a changed address, a restart of either process, and
late copies. Nonces that nobody holds are drawn again, so it runs for ever; the run
of Kharej serves as its server nonce. Packets are keepalives that arrive at once or
not at all.

**Return controller.** `ReturnControllerOps` has the controller and `observe` as an
operator; `ReturnController` adds the history of results and refines `Hysteresis`, which
says when the path may and must change.

**Smart Return.** `SmartReturn` composes the controller with the monitor (one action
per way out of `waitProbeAck`), the responder, the ack channel with its bound, the
two halves of a probe's way, the kernel objects of the return policy on Kharej, and
the process around it: set-up, cancellation, the wait for the workers and its
time-out, a crash, and systemd's `ExecStopPost`. Nonces are only ever compared with
that of the latest probe, so a packet is `"own"` or `"stale"`. The ip command that
switches the route is a step of its own and may outlive the process. `SmartReturnProofs`
has the proofs about it and about the controller.

**Stream carrier.** `StreamCarrier` has one reader, a set of writers and `Close`, with
`connectMu` and `writeMu` held across steps, and a step for each visit to `connMu`.
A frame is a head and a body. Connections break, become half-open (noticed by TCP
keepalive only) or deliver an invalid length; numbers of connections that nobody
holds are reused, so there is no bound on how many are opened. `readMu` is left out:
`run` starts one receive goroutine for a stream carrier. The proofs are in
`StreamCarrierProofs`.

**Configuration.** `Config` is `loadConfig` with the defaults of `config.go` and
`performance.go`, in two operators: `Accepts` and `LoadConfig`. Texts that are only
parsed are reduced to whether they parse.

**Routing and firewall.** `RoutingScripts` gives the commands of `setupRouting`,
`setupSmartReturnPolicy`, `setupCarrierFirewall` and the cleanups for a configuration,
in their order and each with what the code makes of its failure. `NetfilterOps`
(external) is the kernel as a value: chains, jumps, policy rules, routes, what each
command does to them, and how a packet is matched, marked, translated and routed.
`DataPath` (external) leads a packet through the hooks of one host and of both.
`Routing` puts a host together: systemd starts the process, `run` cleans up and sets
up command by command, rolls back on an error, runs, stops, and `ExecStopPost` cleans
up with the file that is on disk then. Commands fail for no reason, the process is
killed between any two of them, and the file is edited. `MCRouting` has the files.
`setupTun` is one step: what it sets goes with the device, or is a sysctl. `RoutingInv`
is the inductive invariant; `RoutingLemmas` (the scripts), `RoutingKernel` (what the
commands do) and `RoutingProofs` (the actions and the packets) are the proofs.

**Process and TUN device.** `Process` is `run` from `openTun` to its return: the
multi-queue open and its fallback, set-up and its failures, the constructors of the
three carriers with the socket that each has to close when it fails, the signal, the select on
the context and `errCh`, `Close` of carrier and TUN file by file, the five-second wait.
A worker is reduced to what it waits for and who wakes it; what it does besides is in
the other modules. `t.queues` has no lock: `Write` looks at it before and after an
atomic add, so these are two steps, and `WritePanics` is the division by zero when
`Close` comes between. `openTunQueue` calls `f.Fd()`, which puts the file into blocking
mode; by the documentation of `os.File` a waiting read is then not ended by `Close`.
`EndpointProofs` has the proofs about it, about the window and about the hello records.

In every module a definition marked *Mutant* is a faulty variant of the one that
follows it, kept to show that the properties notice the fault.

## 3. The runs

| Run | What it checks | Bounds |
|---|---|---|
| `replay_window` | `TypeOK`, `WindowExact`, `WordAgrees`, refinement of `AntiReplay` | window and word of 4 bits, counters 0–10: jumps beyond twice the width, both edges |
| `session` | `NonceNeverReused`, `DeliveredAtMostOnce`, `OneSessionPerHandshake`, `KeysAgreed`, `ExpiryIsJudged`, `NoSessionRegression` | 2 handshakes, 2 sessions a side, 2 packets, window 2, 1 restart, one receiver |
| `session_workers` | `SessionInvariant` | 2 receivers a side, responder, 1 keepalive, 2 packets, 2 client addresses; symmetric |
| `session_recovery` | `SidesFindEachOther` | 3 client nonces, 2 addresses, 1 hello and 1 ack under way, 1 restart or change of address; the network goes down and up at will |
| `hello_cache` | `AnsweredOnce`, `HelloInv` | tolerance 6, life 8, clocks 1 apart, wait 1: the margin exactly; 2 receivers, 2 hellos, 12 ticks |
| `stream` | `TypeOK`, `NoConnLeaked`, `FramesWhole`, `HealthyConnKept`, `CloseWakesAll`, `Reconnects` | 2 writers, 2 writes, 1 break, either role |
| `process` | `ExitIsClean`, `OpenedQueuesInUse`, `CarrierWorkersEnd`, `TunFailureStops` | both roles, the three carriers, 2 receivers, 2 queues, the responder on Iran |
| `process_shutdown` | `WorkersCollected` is **violated** | Kharej over UDP |
| `routing` | `CleanupLeavesNothing`, `CarrierAvoidsTunnel`, `ServiceWorks`, `OwnTrafficAdmitted`, `UnrelatedStaysDirect`, `LockedPortsClosed`, `StartsAgain` | 292 files undisturbed; three histories of two or three files with 2 failing commands and 1 kill anywhere |
| `return_controller` | `CountsTheRun`, refinement of `Hysteresis` | thresholds 3 and 2, 9 results between changes |
| `smart_return` | `RecoveryJustified`, `RouteFollowsController`, `GracefulStopIsClean`, `StoppedIsClean`, `OutageFallsBackUnlessFault`, `RecoveryReturns` | thresholds 2 and 2, channel of 2, 1 failing command |
| `smart_return_failed_switch` | `OutageFallsBack` is **violated** | the same, channel of 1 |

Why the bounds are enough. The faults that the properties guard against need two of
something: two packets under one counter, two acks of one hello, two sessions of
which the older is used late, two connections of which the first is reported late.
Each run has at least two of what it is about, and each property is broken by a small
change of the code's logic under the run's own bounds. The thresholds, the window
size and the channel bound are above one, so that "not yet" and "now" differ. In
`routing` two failing commands are what it takes to leave a duplicated jump (a failed
`-C` counts as "not there") and to disturb a cleanup as well; the undisturbed files are
every combination of role, mode, carrier, lock and eight lists of ports, the carrier's
and the probe's port among them. In `session_recovery` three nonces are an old
session's, an abandoned handshake's and the current one's.

Three runs are kept small so that they end within minutes, and have also been checked
larger by changing their constants: `stream` with `MaxBreaks = 2` (1,126,986 states, ten
minutes), `session` with three handshakes and sessions and no packets (209,356
states), and `session_recovery` with `MaxHellos = 2`, so that hellos overtake each other
(2,769,414 states, sixteen minutes). All three hold there as well.

`session` has one receiver and one sender a side. What needs several of them (two senders
on one counter, two receivers with copies of one packet or with one hello) is the subject of
`session_workers`, which checks the invariant; section 5 derives the properties of `session`
from it for any number of goroutines.

What the routing properties say. A cleanup of which no command failed leaves nothing
(`CONTRIBUTING.md:38`), whatever the set-up, a kill or another configuration left
before it. While the carrier is open its marked packets leave by the public interface
(`smart_policy.go:30`). While the service is up a client's packet goes through the
tunnel and the answer comes back as the mode says, and TCP segments fit into the tunnel in
each direction that it carries: by a clamp of the SYN, or, for the answers in fallback,
by the `mtu` of the route in table 168 (`smart_policy.go:82`), where the request's SYN is
not clamped. Carrier and probe packets are let in; other traffic between the hosts keeps
its way (`smart_policy.go:13`); and a locked port is closed. With `Restart=always` a
configuration that is accepted comes up again after any of this.

Two things the routing modules show that no property asserts. `setupCarrierFirewall`
on Iran over TCP matches the source port of Kharej's packets with the port of Iran's
*own* listen address; `OwnTrafficAdmitted` holds since the installer writes one port
for both (`install.sh:246`). And `-check` accepts a file without services whose listen
port is 0 or a service name, which `setupCarrierFirewall` then refuses at every start;
`StartsAgain` excludes it by `HasListenPort`.

`NoSessionRegression` is checked with one receive goroutine only. With two, as the
UDP carrier may have, `handleHello` can store an older session after a newer one,
because it derives under `helloMu` and stores after releasing it; the next handshake
repairs this. Which profiles have two is told differently by code and docs:
`docs/PERFORMANCE_FA.md:36` gives Turbo `min(CPU, 4)` UDP receive workers, while
`applyPerformanceDefaults` (`performance.go:66-75`) and its test force one for every profile
but `custom`. The models follow the code.

What a stop leaves is asked twice. `GracefulStopIsClean` is about a `run` that waited for
the monitor: its own cleanup is enough. `StoppedIsClean` is about every end, the one by the
five seconds and a crash included, in which an `ip` command of the monitor may still run
after that cleanup: once `ExecStopPost` has run, nothing is left.

Runs that switch deadlock checking off do so because a history bound
(`return_controller`) or the end of the process (`stream`, `process`) stops the
model. The `routing` model stops when the file on disk is one that is refused.

### The violated properties

`smart_return_failed_switch` shows that one failing `ip route replace` leaves the
downloads on the dead direct path for the whole outage. The controller has already
moved to the tunnel path, `observe` reports a change only once, and the monitor logs
the error and goes on (`direct_probe.go:138`). `docs/SMART_RETURN_FA.md:70` promises
that three consecutive failures put the download into the tunnel.

`process_shutdown` shows that the shutdown may wait its five seconds in vain: a
`tunSendLoop` in `Read` on an idle TUN is not woken by `Close`, though `main.go:247` and
`docs/PERFORMANCE_FA.md:147` say that closing wakes blocked reads. On Iran the probe
responder is another such worker: nothing closes its socket (`direct_probe.go:73`).
Cleanup still follows, so the cost is the delay. This rests on the documented behaviour
of `os.File`, which is outside the repository.

`Process` also reaches the panic in `Write` during shutdown (`tun_linux.go:104`), after
which only `ExecStopPost` cleans up. The properties of `process` allow for it.

## 4. Fairness

`SmartReturn`: weak fairness of the monitor (its ticker and timer fire, its goroutine
runs) and of the arrival of a probe and of an ack while everything they need is up.
Receiving from the channel is strongly fair: the timer is set anew for each probe
and is seconds long, so a monitor that finds acks waiting again and again receives
some of them. Probes are not answered in time by fairness but by `Prompt`: a path
that is up answers before the time-out, a slow one may not.

`StreamCarrier`: weak fairness of each goroutine's own steps, strong fairness of
taking `connectMu` (`sync.Mutex` hands itself over to a starving waiter), TCP
keepalive, and `Close` after the cancellation. Nothing is assumed of the peer, neither
that a frame comes nor that a write is accepted. `Reconnects` is thus a result about TCP,
whose dial reaches the peer or fails and whose keepalive finds a vanished one. A KCP dial
(`carrier_kcp.go:37-47`) succeeds without contacting the peer, and nothing like the
keepalive is switched on for it.

`Process`: weak fairness of `run` and of each worker that is awake; a send may wait for a
stalled stream until the carrier is closed. The ticker loops end under strong fairness,
since Go's select picks among ready cases at random. Neither packets nor signals are
assumed to come. The five seconds are longer than any step of a worker that is awake.

`Routing`: commands end, the process goes on, and systemd restarts it (`Restart=always`);
failures, kills, edits and stops are not assumed to happen, and are bounded in number
except for stops.

`SessionRecovery`: the supervisors' tickers fire, a handler ends, and while the network
is up what is under way arrives. Time is not a number there, so three guards say what
the periods of the code imply: while the network is up a handshake is not given up with
its messages still under way (6 s), no session becomes idle or due for rekeying while
its own handshake is (25 s, 30 min), and a record outlives the handshake that it
belongs to (120 s). While the network is down anything may happen in any order.

## 5. What is proved

All proofs are for arbitrary constants under the named assumptions of the modules
(positive window, thresholds and channel, natural bounds, `MaxHandshakes <= MaxSessions`,
an address for the server that no client has, writers that are not called like the reader,
a first queue and a first receiver). Nothing is assumed of the files that `Routing` loads.

*Window* (`EndpointProofs`): `WindowInvariant`, that bitmap and `highest` describe the
accepted counters exactly, is inductive together with the types (`WindowTypes`);
`WindowKeepsPromise` follows, because under it `Admits` and the promise's `Acceptable`
agree.

*Controller* (`SmartReturnProofs`): `ControllerCounts`, that the counter in use is
the length of the run of adverse results ending the history, and
`ControllerKeepsHysteresis` from it.

*Smart Return* (`SmartReturnProofs`), for all thresholds, every capacity of the channel
and any number of failures: `ReturnInvariant` is the conjunction of

- the types (among them the bound of the channel);
- `Route`: between two lives of the process there is a new controller, no monitor and
  nothing in the kernel, and the monitor begins on the direct path; without this
  `RouteFollowsController`, the third part of it, would not survive `Start` and `MonitorInit`;
- `GracefulStopIsClean`;
- `Counting`: while a probe is waited for, an ack with its nonce, under way or in the
  channel, means that the probe has crossed; and on the tunnel path the controller counts
  no more successes than probes that crossed in a row, and fewer than the threshold.

`RouteAgrees` and `GracefulStopCleans` are parts of it, and so is `StopLeavesNothing`: by
`Route` a stopped service has nothing in the kernel. `RecoveryNeedsCrossings` takes the
step as well: only a verdict changes the path of a living process, and by `Counting` the
one that leads back completes `RecoverThreshold` crossings.

*Stream carrier* (`StreamCarrierProofs`), for every set of writers and any number of calls
and breaks. `NoSocketLost`, `PeerReadsWholeFrames` and `ResetSparesHealthy` rest on one
invariant, `StreamInvariant`:

- `Locks`: which steps of a goroutine are under `writeMu` and under `connectMu`, and that
  `s.conn` is empty while someone has `connectMu` and dials;
- `Current`: `s.conn` is open, and there is none after `Close`;
- `Held`: a goroutine that uses a connection has one, and the one to be installed is
  open, unused and in nobody else's hands;
- `DropsFailed`: whoever is about to drop a connection that is still open has seen it fail;
- `Progress`: a writer begins its frame behind a complete one and finds its own head when
  it goes on, and `s.conn` ends in an incomplete frame only while the writer that has
  `writeMu` is in the middle of it or about to drop the connection. This is why the reset
  has to come before `writeMu` is given up.

*Process* (`EndpointProofs`), for all roles, carriers, receivers and queues:
`RunLeavesNothing` and `QueuesAreTheOpenedOnes`, from `Stage`, which says for each place in
`run` which of the TUN files, the socket and the carrier are there; an error path is
clean because it undoes what the stage it leaves from has.

*Session layer*: `SessionSteps` shows what `accept` keeps of a window, that every step
keeps the types, and what each kind of step does to session objects, to keys, counters and
windows, and to pointers, nonces and pairs of nonces; `SessionProofs` puts this together, action by action, into `SessionInvariantHolds`. None of the properties is inductive by itself. The strengthening says:

- `RefsOK`, `WorkersOK`: every pointer that a goroutine holds is to an object that
  exists, and what a goroutine is about to do agrees with what it has read;
- `ObjectsOK`: server nonces are the identities of Kharej's objects;
- `NonceUsedOnce`: a client nonce that is pending, held by a goroutine that derives,
  or in an object of Iran is in one such place only;
- `PairsAgreed`: every pair of nonces in a record, an ack or an object of Iran belongs
  to an object of Kharej;
- `PacketsSealed`: every packet carries the key of one object of its sender and a
  counter not above that object's, and packets are numbered apart;
- `DeliveriesRefused`: a packet that was handed over is one that the window of its
  opener refuses, so that a copy is dropped.

From it follow `NoncesAreUnique`, `DeliveryIsAtMostOnce`,
`HandshakeYieldsOneSession`, `SessionKeysAgree` and, with the steps,
`ExpiryTakesTheJudgedSession`. The proof has a lemma per action; the key step is that
a key has one owner (`KeyOwner`), since Iran never derives twice from one client
nonce and Kharej never uses a server nonce twice.

`SessionNeverRegresses` (`SessionProofs`) is `NoSessionRegression` under `OneReceiver`,
which is what every preset of `performance.go` and every stream carrier gives. It needs
`StoresNewest` besides the invariant: an object that is about to be stored is the newest
of its process, which is what a single goroutine guarantees between deriving and storing.

*Hello records* (`EndpointProofs`): `RepliesOutliveHellos`, that under
`Life >= Tolerance + Ahead + Wait` `HelloInv` holds: a goroutine past the check holds a hello
that was valid at most `Wait` ago, and the record of an answered one does not expire before
the last moment at which any goroutine can look for it. `HelloAnsweredOnce`, that no hello is
answered afresh twice, follows. `MaxTime` plays no part in it.

*Routing* (`RoutingLemmas`, `RoutingKernel`, `RoutingProofs`), for every set of files, with
any lists of services, and any number of failing commands, kills, switches and edits:
`RoutingInvariance`, that `RoutingInvariant` (`RoutingInv`) holds between any two commands.
Its parts:

- `KernelOK`, `MarksOK`: a chain that is not there is empty and not jumped to; the policy
  rules are among the three that the code knows; whoever wrote a rule that marks replies,
  it leaves marked packets alone;
- `RoutesOK`: a route into the tunnel belongs to the configuration at work. Since the device
  goes with the process, its routes never survive into another configuration, whose cleanup
  would not know them;
- `CleanupOK`: unless one of its commands failed, whatever the kernel holds during a cleanup
  is removed by a step that is still to come;
- `RollBackOK`: while a step is to come whose failure is rolled back partly, the part that
  would be left is not there yet;
- `SetUpOK`: a step of the set-up is still to come, or has had its effect and none of the
  steps to come undoes it;
- `ControlOK`: the remaining script is in an order in which no step comes too late
  (`TooLate`).

A script is a concatenation of pieces whose number depends on the configuration.
`RoutingLemmas` therefore shows, by induction over the pieces, that the set-up of every
configuration falls into groups (reset of the chains; rules, routes and policy rules;
return policy; carrier) such that no step of a later group comes too late after one of an
earlier group, and that each cleanup removes all eight chains in the right order. The
induction is over the least counterexample (`LeastNat`, `InductionTo`), which the provers
can do: the library's own induction theorems take an operator, which they cannot.
`RoutingKernel` shows what each kind of command does to the kernel: a step of a cleanup
makes it smaller and leaves it covered, a step of a set-up has its effect and keeps the
earlier ones. `RoutingProofs` goes through the actions.

From the invariant:

- `CleanupLeavesNothingTheorem`: nothing is left when no command of the cleanup failed;
- `CarrierAvoidsTunnelTheorem`: the rules of `HSH_MOUT` leave the carrier's mark alone
  (an induction over the rules, `MangleKeeps`), so rule 77 takes its packets to the
  bypass route, or, where there is no such rule, no route into the tunnel meets them;
- `UnrelatedStaysDirectTheorem`: a packet of a port that is no service's passes
  `HSH_MOUT` unmarked, and no policy rule or route of the mode takes it;
- `LockedPortsClosedTheorem`: every rule of `HSH_INPUT` that such a packet matches drops
  it, since `loadConfig` keeps the carrier's port apart from the services', and there is
  one that it matches.

Each inductive invariant was first checked by TLC on small instances, two of them beyond the
bounds of the runs: `IInv` of `StreamCarrierProofs` with 2 breaks and 3 writes (4.7 million
states) and that of `SmartReturnProofs` with a recovery threshold of 3 (987,168 states).
`RoutingInvariant` was checked on the instance of `routing` (496,197 states, twelve minutes).

*Only model-checked*:

- liveness under fairness (`SidesFindEachOther`, `StartsAgain`, `CloseWakesAll`,
  `Reconnects`, `CarrierWorkersEnd`, `TunFailureStops`, `OutageFallsBackUnlessFault`,
  `RecoveryReturns`), which is beyond the prover;
- `WordAgrees`: shifts of a word of any width, about which the provers know nothing
  (they have no facts on powers of two);
- `ServiceWorks` and `OwnTrafficAdmitted`: they hold where the two hosts' files name each
  other's addresses and ports, as the installer writes them, and not for arbitrary files,
  which the theorems are about.

## 6. What is not modelled

- The bytes of messages, the MACs and the cipher, which are ideal; the metrics and
  `statsLoop`, on which nothing depends. Counter wrap-around at 2^64 is out of reach of
  any session.
- The KCP library: `StreamCarrier` takes it for a `net.Conn`, and its `Dial` is that of TCP,
  which waits for the peer and ends with its context; a KCP dial only
  makes a session object, without waiting and without the peer. `tuneKCPSession` and `randomConversationID` only set its parameters.
- The peers map of the UDP carrier (`carrier_udp.go:53`), a cache of parsed addresses that
  grows with every source address; no result depends on it.
- Parsers of JSON, keys and addresses, beyond accepting or refusing.
- Host firewall policies and other rules around Hashshashin's chains; IPv6.
- The installer, the manager and the bench script: interactive shell around package
  managers, systemd and iperf, without a protocol. The systemd unit's sandboxing.
- Command-line flags that print and exit.

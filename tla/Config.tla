------------------------------- MODULE Config -------------------------------
(***************************************************************************)
(* loadConfig (config.go, performance.go) as operators: a file is refused,  *)
(* or it gives the configuration that the process runs with.  Texts that    *)
(* the code only parses are reduced to whether they parse; a port of 0 in   *)
(* an address is one that resolves and that listenPort refuses (":0", or a  *)
(* service name).  Zero and "" mean that a field is not in the file.        *)
(***************************************************************************)
EXTENDS Integers, Sequences

CONSTANT NumCPU   \* runtime.NumCPU

ASSUME ConfigAssumption == NumCPU \in Nat

KiB == 1024
MiB == 1024 * KiB

PortNumbers == 1 .. 65535

Or(v, default) == IF v = 0 THEN default ELSE v
OrText(s, default) == IF s = "" THEN default ELSE s

clampInt(v, lo, hi) == IF v < lo THEN lo ELSE IF v > hi THEN hi ELSE v

----------------------------------------------------------------------------
(* Defaults.                                                               *)

\* strings.ToLower and TrimSpace, for the one spelling among the inputs that
\* they change.
Normal(profile) == IF profile = " Turbo" THEN "turbo" ELSE profile

\* What the profile gives: at most so many queues, a queue length, a buffer.
Preset(profile) ==
  CASE profile = "balance"    -> [queues |-> 2, txq |-> 2048, sock |-> 4 * MiB]
    [] profile = "throughput" -> [queues |-> 8, txq |-> 8192, sock |-> 16 * MiB]
    [] OTHER                  -> [queues |-> 4, txq |-> 4096, sock |-> 8 * MiB]

\* One receive worker unless the profile is custom.
applyPerformanceDefaults(p) ==
  LET profile == Normal(OrText(p.profile, "turbo"))
      preset  == Preset(profile)
  IN  [profile  |-> profile,
       queues   |-> Or(p.queues, clampInt(NumCPU, 1, preset.queues)),
       receive  |-> IF profile = "custom" THEN Or(p.receive, 1) ELSE 1,
       txq      |-> Or(p.txq, preset.txq),
       qdisc    |-> OrText(p.qdisc, "fq_codel"),
       sock     |-> Or(p.sock, preset.sock),
       stats    |-> Or(p.stats, 10)]

applyKCPDefaults(k) ==
  [k EXCEPT !.nodelay = Or(@, 1), !.interval = Or(@, 20), !.resend = Or(@, 2),
            !.nc = Or(@, 1), !.sndwnd = Or(@, 512), !.rcvwnd = Or(@, 512),
            !.mtu = Or(@, 1200), !.sock = Or(@, 4 * MiB)]

applySmartReturnDefaults(s) ==
  [s EXCEPT !.port = Or(@, 9001), !.interval = Or(@, 5), !.timeout = Or(@, 2),
            !.fail = Or(@, 3), !.recover = Or(@, 3)]

----------------------------------------------------------------------------
(* Validation.                                                             *)

validatePerformance(p) ==
  /\ p.profile \in {"balance", "turbo", "throughput", "custom"}
  /\ p.queues \in 1 .. 32
  /\ p.receive \in 1 .. 32
  /\ p.txq \in 256 .. 65536
  /\ p.qdisc \in {"fq_codel", "fq", "none"}
  /\ p.sock \in 256 * KiB .. 64 * MiB
  /\ p.stats \in 5 .. 60

validateKCP(k) ==
  /\ k.data \in 0 .. 255 /\ k.parity \in 0 .. 255
  /\ k.data = 0 <=> k.parity = 0
  /\ k.nodelay \in {0, 1} /\ k.nc \in {0, 1}
  /\ k.interval \in 10 .. 100 /\ k.resend \in 0 .. 2
  /\ k.sndwnd \in 32 .. 8192 /\ k.rcvwnd \in 32 .. 8192
  /\ k.mtu \in 576 .. 1400
  /\ k.sock \in 256 * KiB .. 64 * MiB

validateSmartReturn(s) ==
  /\ s.port \in PortNumbers
  /\ s.interval \in 2 .. 300
  /\ 1 <= s.timeout /\ s.timeout < s.interval
  /\ s.fail \in 1 .. 20 /\ s.recover \in 1 .. 20

\* net.ResolveTCPAddr or ResolveUDPAddr.
validateTransportAddress(addr) == addr.resolves

\* listenPort: a number, which 0 and a service name are not.
HasListenPort(addr) == addr.resolves /\ addr.port \in PortNumbers

protocolIncludes(serviceProto, carrierProto) ==
  serviceProto = "both" \/ serviceProto = carrierProto

transportNetwork(type) == IF type = "tcp" THEN "tcp" ELSE "udp"

ServicePortsOK(ports) ==
  /\ \A i \in 1 .. Len(ports) :
       /\ ports[i].port \in PortNumbers
       /\ ports[i].proto \in {"tcp", "udp", "both"}
  /\ \A i, j \in 1 .. Len(ports) : ports[i] = ports[j] => i = j

\* Mutant: the probe's port is not looked at.
PortsApartFromCarrier(c) ==
  \A i \in 1 .. Len(c.ports) :
    ~(c.ports[i].port = c.listen.port
       /\ protocolIncludes(c.ports[i].proto, transportNetwork(c.type)))

\* Mutant: the carrier's port is compared for the transport's name, which is
\* not a protocol for KCP.
PortsApartByType(c) ==
  \A i \in 1 .. Len(c.ports) :
    ~(c.ports[i].port = c.listen.port /\ c.ports[i].proto = c.type)

\* No service on the carrier's port, none on the probe's, and these two apart.
PortsApart(c) ==
  LET net == transportNetwork(c.type)
  IN  /\ \A i \in 1 .. Len(c.ports) :
           /\ ~(c.ports[i].port = c.listen.port /\ protocolIncludes(c.ports[i].proto, net))
           /\ ~(c.smart.enabled /\ c.ports[i].port = c.smart.port
                 /\ c.ports[i].proto \in {"udp", "both"})
      /\ ~(c.smart.enabled /\ net = "udp" /\ c.listen.port = c.smart.port)

\* What is asked of a file with service ports: addresses, and ports apart.
ServicesOK(c) ==
  /\ c.net.iface # "" /\ {c.net.ip, c.net.foreign, c.net.iran} \cap {"", "invalid"} = {}
  /\ ServicePortsOK(c.ports)
  /\ HasListenPort(c.listen)
  /\ PortsApart(c)

----------------------------------------------------------------------------
\* The file with the defaults filled in.
WithDefaults(c) ==
  [c EXCEPT
     !.type = OrText(@, "udp"), !.tun = OrText(@, "hsh0"), !.mtu = Or(@, 1320),
     !.keepalive = Or(@, 5), !.timeout = Or(@, 25), !.rekey = Or(@, 30),
     !.perf = applyPerformanceDefaults(@),
     !.kcp = IF c.type = "kcp" THEN applyKCPDefaults(@) ELSE @,
     !.smart = IF @.enabled THEN applySmartReturnDefaults(@) ELSE @]

\* The packet size and the times.
LimitsOK(c) ==
  /\ c.mtu \in 900 .. 1400
  /\ c.keepalive \in 2 .. 60
  /\ c.timeout >= 2 * c.keepalive
  /\ c.rekey \in 5 .. 1440

Valid(c) ==
  /\ c.parses
  /\ c.role \in {"iran", "kharej"}
  /\ c.mode \in {"full", "direct-return"}
  /\ c.type \in {"udp", "tcp", "kcp"}
  /\ c.tun # "longerThanFifteen"
  /\ LimitsOK(c)
  /\ validatePerformance(c.perf)
  /\ c.type = "kcp" => validateKCP(c.kcp)
  /\ c.keyOK
  /\ validateTransportAddress(c.listen)
  /\ c.role = "iran" => validateTransportAddress(c.peer)
  /\ c.cidrOK /\ c.peerIPOK
  /\ c.smart.enabled => c.mode = "direct-return" /\ c.ports # <<>> /\ validateSmartReturn(c.smart)
  /\ c.ports # <<>> => ServicesOK(c)

\* loadConfig accepts the file.
Accepts(file) == Valid(WithDefaults(file))

\* The configuration it returns then.
LoadConfig(file) == WithDefaults(file)
============================================================================

------------------------------ MODULE MCRouting ------------------------------
(***************************************************************************)
(* Routing on the files of a small shop: every role, mode, carrier and kind *)
(* of port list undisturbed, and a few of them with faults, kills and edits.*)
(***************************************************************************)
EXTENDS Routing

Address(port) == [resolves |-> TRUE, port |-> port]
P(port, proto) == [port |-> port, proto |-> proto]

\* A file with nothing in it that has a default.
Plain ==
  [parses |-> TRUE, role |-> "iran", mode |-> "full", type |-> "", listen |-> Address(9000),
   peer |-> Address(9000), tun |-> "", mtu |-> 0, keepalive |-> 0, timeout |-> 0, rekey |-> 0,
   perf |-> [profile |-> "", queues |-> 0, receive |-> 0, txq |-> 0, qdisc |-> "", sock |-> 0,
             stats |-> 0],
   kcp |-> [data |-> 0, parity |-> 0, nodelay |-> 0, interval |-> 0, resend |-> 0, nc |-> 0,
            sndwnd |-> 0, rcvwnd |-> 0, mtu |-> 0, sock |-> 0],
   keyOK |-> TRUE, cidrOK |-> TRUE, peerIPOK |-> TRUE,
   smart |-> [enabled |-> FALSE, port |-> 0, interval |-> 0, timeout |-> 0, fail |-> 0,
              recover |-> 0],
   net |-> [iface |-> "eth0", ip |-> "iran", foreign |-> "kharej", iran |-> "iran", lock |-> FALSE],
   ports |-> <<>>]

\* "full", "direct-return", or the latter with smart return.
Ways == {"full", "direct-return", "smart"}
File(role, way, type, ports, lock) ==
  [Plain EXCEPT !.role = role, !.mode = IF way = "full" THEN way ELSE "direct-return",
                !.type = type, !.ports = ports, !.smart.enabled = (way = "smart"),
                !.net.ip = role, !.net.lock = lock]

\* Among them the carrier's port, the probe's, and a list that is refused.
PortLists ==
  { <<>>, <<P(443, "tcp")>>, <<P(443, "udp"), P(80, "tcp")>>, <<P(443, "tcp"), P(443, "both")>>,
    <<P(9000, "tcp")>>, <<P(9000, "udp")>>, <<P(9001, "both")>>, <<P(443, "tcp"), P(443, "tcp")>> }

WideNames == {"iran", "kharej"} \X Ways \X {"udp", "tcp", "kcp"} \X PortLists \X BOOLEAN

\* The files of the disturbed hosts, by names of the same shape.
Deep(role, way) == <<role, way, "udp", <<P(443, "tcp")>>, FALSE>>
Broken == <<"broken">>     \* does not parse
NoPort == <<"no port">>    \* no services, and a listen address without a number
Bare   == <<"bare">>       \* no services and no network
Spelt  == <<"spelt">>      \* a profile that needs normalising

MCFiles ==
  [n \in WideNames \cup {Broken, NoPort, Bare, Spelt} |->
     CASE n = Broken -> [Plain EXCEPT !.parses = FALSE]
       [] n = NoPort -> [Plain EXCEPT !.listen = Address(0)]
       [] n = Bare   -> [Plain EXCEPT !.net = [iface |-> "", ip |-> "", foreign |-> "", iran |-> "",
                                                 lock |-> FALSE]]
       [] n = Spelt  -> [Plain EXCEPT !.perf.profile = " Turbo", !.perf.receive = 4]
       [] OTHER -> File(n[1], n[2], n[3], n[4], n[5])]

MCScenarios ==
  {[files |-> <<n>>, faults |-> 0, kills |-> 0] : n \in DOMAIN MCFiles}
  \cup {[files |-> fs, faults |-> 2, kills |-> 1] :
          fs \in { <<Deep("kharej", "full"), Deep("iran", "full")>>,
                   <<Deep("kharej", "smart"), Broken, Deep("kharej", "full")>>,
                   <<Deep("iran", "direct-return"), NoPort, Bare>> }}
=============================================================================

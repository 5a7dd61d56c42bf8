------------------------------ MODULE DataPath ------------------------------
(***************************************************************************)
(* The ways that packets take through the two hosts, hook by hook, given    *)
(* what the scripts have built there.  External: the order of the hooks is  *)
(* the kernel's.  "pub" stands for the public interface, "iran" and "kharej"*)
(* for the public addresses, "client" for somebody on the Internet.         *)
(***************************************************************************)
EXTENDS RoutingScripts

ClientPort == 50000   \* the port of a client's, or of a dialling, socket

Packet(src, dst, proto, sport, dport, ct) ==
  [in |-> "none", out |-> "none", src |-> src, dst |-> dst, proto |-> proto, sport |-> sport,
   dport |-> dport, ct |-> ct, syn |-> proto = "tcp", mark |-> 0, clamped |-> FALSE]

\* From an interface through PREROUTING: mangle, then nat.
Arriving(k, p, dev) ==
  LET m == Mangled(k, "HSH_MPRE", [p EXCEPT !.in = dev, !.mark = 0])
  IN  [m EXCEPT !.dst = IF m.ct = "new" THEN Translated(k, "HSH_NPRE", m, @) ELSE @]

\* On through FORWARD to the next interface.
Forwarded(k, p) == Mangled(k, "HSH_MFWD", [p EXCEPT !.out = Device(k, p.dst, p.mark)])
MayForward(k, p) == Verdict(k, "HSH_FWD", p) = "ACCEPT"

\* POSTROUTING for a new connection.
Leaving(k, p) == [p EXCEPT !.src = Translated(k, "HSH_NPOST", p, @)]

\* From a local socket: routed, mangled, and routed again by the new mark.
Emitted(k, p) ==
  LET m == Mangled(k, "HSH_MOUT", [p EXCEPT !.out = Device(k, p.dst, p.mark)])
  IN  [m EXCEPT !.out = Device(k, p.dst, m.mark)]

\* To a local socket: not translated, not marked, and let in.
Admitted(k, p, dev) ==
  LET q == Arriving(k, p, dev)
  IN  q.dst = p.dst /\ q.mark = 0 /\ Verdict(k, "HSH_INPUT", q) = "ACCEPT"

----------------------------------------------------------------------------
(* A connection of a client to a service: k is what Iran's kernel holds, x  *)
(* what Kharej's does, and net the addresses and the mode they agree on.    *)

Request(k, net, proto, port) ==
  Forwarded(k, Arriving(k, Packet("client", net.iran, proto, ClientPort, port, "new"), "pub"))

RequestServed(k, x, net, proto, port) ==
  LET p == Request(k, net, proto, port)
      q == Leaving(k, p)
  IN  /\ p.dst = net.foreign /\ p.out = "tun" /\ MayForward(k, p)
      /\ q.src = net.iran
      /\ Admitted(x, q, "tun")

\* The service's answer, and the same at Iran, translated back to the client.
Answer(x, net, proto, port) ==
  Emitted(x, Packet(net.foreign, net.iran, proto, port, ClientPort, "est"))
AnswerAtIran(k, x, net, proto, port) ==
  LET r == Answer(x, net, proto, port)
      s == Arriving(k, r, r.out)
  IN  Forwarded(k, [s EXCEPT !.dst = "client"])

\* The route that the answer takes limits its size: the server's own stack
\* makes segments that fit into it.
AnswerSized(x, net, proto, port, mtu) ==
  LET r == Answer(x, net, proto, port)
  IN  \A q \in Lookup(x, r.dst, r.mark) : q.mtu \in 1 .. mtu

AnswerReturned(k, x, net, proto, port) ==
  LET s == AnswerAtIran(k, x, net, proto, port)
  IN  /\ Verdict(x, "HSH_OUTPUT", Answer(x, net, proto, port)) = "ACCEPT"
      /\ s.out = "pub" /\ MayForward(k, s)
============================================================================

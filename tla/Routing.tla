------------------------------ MODULE Routing ------------------------------
(***************************************************************************)
(* A host under the systemd unit: hashshashin is started, run cleans up     *)
(* what a predecessor left, sets up TUN, routing, return policy and carrier *)
(* firewall command by command, runs, and cleans up; ExecStopPost cleans up *)
(* once more with the configuration on disk.  A command may fail though     *)
(* nothing is wrong (iptables finds its lock taken), the process may be     *)
(* killed between any two commands, and the configuration is edited.        *)
(***************************************************************************)
EXTENDS DataPath

CONSTANTS
  Files,      \* the configuration files, by name
  Scenarios   \* bound: the files that are on disk one after the other, and how
              \* many faults and kills come

ASSUME RoutingAssumption ==
  /\ \A s \in Scenarios : s.files \in Seq(DOMAIN Files) /\ s.files # <<>>
  /\ \A n \in DOMAIN Files : LoadConfig(Files[n]).ports \in Seq([port : Int, proto : STRING])

VARIABLES
  kernel,   \* what the commands have built
  file,     \* the configuration file, by name
  edits,    \* the files that will replace it
  cfg,      \* the file that the process which is running has loaded
  phase,    \* "off", "clean", "setup", "rollback", "up", "undo", "post"
  todo,     \* the steps of its script that are still to come
  tun,      \* the TUN device exists
  carrier,  \* the carrier is open
  flawed,   \* history: a command of the cleanup failed for no reason
  swept,    \* history: a cleanup has ended, and it was not flawed
  faults,   \* bound: commands that may still fail for no reason
  kills     \* bound: kills to come

boundVars == <<faults, kills>>
diskVars  == <<file, edits>>
vars == <<kernel, diskVars, cfg, phase, todo, tun, carrier, flawed, swept, boundVars>>

Init ==
  /\ kernel = Empty
  /\ \E s \in Scenarios :
       /\ file = Head(s.files) /\ edits = Tail(s.files)
       /\ faults = s.faults /\ kills = s.kills
  /\ cfg = file
  /\ phase = "off"
  /\ todo = <<>>
  /\ tun = FALSE
  /\ carrier = FALSE
  /\ flawed = FALSE
  /\ swept = FALSE

----------------------------------------------------------------------------
(* The script of a phase, step by step.                                    *)

\* What loadConfig makes of a file, and whether it does.
Config(n) == LoadConfig(Files[n])
Loadable(n) == Accepts(Files[n])

\* The set-up and the roll-back belong to the cleanup before them.
Begin(p, script) ==
  /\ phase' = p
  /\ todo' = script
  /\ flawed' = (p \in {"setup", "rollback"} /\ flawed)

\* The step is done.
Advance == todo' = Tail(todo) /\ UNCHANGED <<phase, flawed>>

\* A checked command failed: on to the roll-back.
Fail(s) == Begin("rollback", RollBack(Config(cfg), s.undo))

Jump(s) == [op |-> "jump", chain |-> s.chain]
Insert(s) == [op |-> "-I", chain |-> s.chain, rule |-> s.rule]

\* The outcome of a step when every command does what it should.  -D is in
\* the same step as the -C before it, -I as the -C that has failed.
Perform(s) ==
  \/ /\ s.how = "quiet"
     /\ kernel' = Exec(kernel, s.cmd)
     /\ Advance
  \/ /\ s.how = "must"
     /\ IF s.cmd.op # "error" /\ Works(kernel, s.cmd)
        THEN kernel' = Effect(kernel, s.cmd) /\ Advance
        ELSE UNCHANGED kernel /\ Fail(s)
  \/ /\ s.how = "hook"
     /\ IF kernel.jumps[s.chain] > 0
        THEN UNCHANGED kernel /\ Advance
        ELSE IF Works(kernel, Jump(s))
             THEN kernel' = Effect(kernel, Jump(s)) /\ Advance
             ELSE UNCHANGED kernel /\ Fail(s)
  \/ /\ s.how = "unhook"
     /\ IF kernel.jumps[s.chain] > 0
        THEN /\ kernel' = Effect(kernel, [op |-> "unjump", chain |-> s.chain])
             /\ UNCHANGED <<todo, phase, flawed>>
        ELSE UNCHANGED kernel /\ Advance
  \/ /\ s.how = "once"
     /\ IF s.rule \in Range(kernel.chain[s.chain])
        THEN UNCHANGED kernel
        ELSE kernel' = Effect(kernel, Insert(s))
     /\ Advance

\* The outcome when a command fails for no reason: a quiet one is skipped, a
\* checked one ends the set-up, a failed -C is taken for "not there".
Mishap(s) ==
  \/ /\ s.how = "quiet"
     /\ todo' = Tail(todo) /\ flawed' = TRUE
     /\ UNCHANGED <<kernel, phase>>
  \/ /\ s.how \in {"must", "hook", "once"}
     /\ UNCHANGED kernel
     /\ Fail(s)
  \/ /\ s.how = "hook" /\ kernel.jumps[s.chain] > 0
     /\ kernel' = Effect(kernel, Jump(s))
     /\ Advance
  \/ /\ s.how = "once" /\ s.rule \in Range(kernel.chain[s.chain])
     /\ kernel' = Effect(kernel, Insert(s))
     /\ Advance
  \/ /\ s.how = "unhook" /\ kernel.jumps[s.chain] > 0
     /\ todo' = Tail(todo) /\ flawed' = TRUE
     /\ UNCHANGED <<kernel, phase>>

Step ==
  /\ todo # <<>>
  /\ Perform(Head(todo))
  /\ swept' = FALSE
  /\ UNCHANGED <<diskVars, cfg, tun, carrier, boundVars>>

StepFails ==
  /\ todo # <<>>
  /\ faults > 0
  /\ Mishap(Head(todo))
  /\ faults' = faults - 1
  /\ swept' = FALSE
  /\ UNCHANGED <<diskVars, cfg, tun, carrier, kills>>

----------------------------------------------------------------------------
(* From one script to the next.                                            *)

\* ExecStartPre -check, ExecStart: loadConfig, then openTun.  A file that is
\* refused, or a TUN that cannot be opened, leaves everything as it was.
Start ==
  /\ phase = "off"
  /\ Loadable(file)
  /\ cfg' = file
  /\ tun' = TRUE
  /\ Begin("clean", CleanUp(Config(file)))
  /\ UNCHANGED <<kernel, diskVars, carrier, swept, boundVars>>

\* The first cleanup of run is through.
Cleaned ==
  /\ phase = "clean" /\ todo = <<>>
  /\ Begin("setup", SetUp(Config(cfg)))
  /\ swept' = ~flawed
  /\ UNCHANGED <<kernel, diskVars, cfg, tun, carrier, boundVars>>

\* Everything is set up: newCarrier.
Up ==
  /\ phase = "setup" /\ todo = <<>>
  /\ Begin("up", <<>>)
  /\ carrier' = TRUE
  /\ UNCHANGED <<kernel, diskVars, cfg, tun, swept, boundVars>>

\* It fails: the deferred cleanup, with the TUN still open.
NewCarrierFails ==
  /\ phase = "setup" /\ todo = <<>>
  /\ faults > 0
  /\ faults' = faults - 1
  /\ Begin("undo", CleanUp(Config(cfg)))
  /\ UNCHANGED <<kernel, diskVars, cfg, tun, carrier, swept, kills>>

\* The monitor on Kharej moves the replies into the tunnel, or back.
Switch ==
  /\ phase = "up"
  /\ Config(cfg).smart.enabled /\ Config(cfg).role = "kharej"
  /\ \E c \in {Flush(returnTable), [op |-> "route_replace", route |-> ReturnRoute(Config(cfg))]} :
       kernel' = Effect(kernel, c)
  /\ UNCHANGED <<diskVars, cfg, phase, todo, tun, carrier, flawed, swept, boundVars>>

\* A signal or a failed TUN queue: run closes carrier and TUN, waits for its
\* workers, and cleans up.
Stop ==
  /\ phase = "up"
  /\ carrier' = FALSE
  /\ tun' = FALSE
  /\ kernel' = WithoutTun(kernel)
  /\ Begin("undo", CleanUp(Config(cfg)))
  /\ UNCHANGED <<diskVars, cfg, swept, boundVars>>

\* The process is gone.  ExecStopPost reads the file of the moment; one that
\* is refused means no cleanup.
Gone ==
  /\ tun' = FALSE
  /\ carrier' = FALSE
  /\ kernel' = WithoutTun(kernel)
  /\ IF Loadable(file)
     THEN cfg' = file /\ Begin("post", CleanUp(Config(file)))
     ELSE cfg' = cfg /\ Begin("off", <<>>)

\* run returns after its cleanup.
Exit ==
  /\ phase \in {"rollback", "undo"} /\ todo = <<>>
  /\ Gone
  /\ swept' = ~flawed
  /\ UNCHANGED <<diskVars, boundVars>>

\* It is killed: a signal before NotifyContext, a panic, or SIGKILL.
Kill ==
  /\ phase \in {"clean", "setup", "rollback", "up", "undo"}
  /\ kills > 0
  /\ kills' = kills - 1
  /\ Gone
  /\ swept' = FALSE
  /\ UNCHANGED <<diskVars, faults>>

\* -cleanup is through.
PostDone ==
  /\ phase = "post" /\ todo = <<>>
  /\ Begin("off", <<>>)
  /\ swept' = ~flawed
  /\ UNCHANGED <<kernel, diskVars, cfg, tun, carrier, boundVars>>

\* It is killed as well (TimeoutStopSec), and systemd leaves it at that.
KillPost ==
  /\ phase = "post"
  /\ kills > 0
  /\ kills' = kills - 1
  /\ Begin("off", <<>>)
  /\ swept' = FALSE
  /\ UNCHANGED <<kernel, diskVars, cfg, tun, carrier, faults>>

\* The file is replaced while the service is in whatever state it is.
Edit ==
  /\ edits # <<>>
  /\ file' = Head(edits) /\ edits' = Tail(edits)
  /\ UNCHANGED <<kernel, cfg, phase, todo, tun, carrier, flawed, swept, boundVars>>

Proceed == Step \/ Start \/ Cleaned \/ Up \/ Exit \/ PostDone

Next == Proceed \/ StepFails \/ NewCarrierFails \/ Switch \/ Stop \/ Kill \/ KillPost \/ Edit

Spec == Init /\ [][Next]_vars

\* Commands end, the process goes on, and systemd restarts it.
FairSpec == Spec /\ WF_vars(Proceed)

----------------------------------------------------------------------------
(* Properties.                                                             *)

\* CONTRIBUTING.md:38 asks that cleanup remove every rule: once one is through
\* that was not disturbed itself, nothing is left, whatever a failed set-up,
\* a kill, another configuration or an earlier disturbed cleanup left before.
CleanupLeavesNothing == swept => kernel = Empty

\* smart_policy.go:30: "carrier/probe sockets use 0x77 and must remain on the
\* normal Internet route even in fallback".  While the carrier is open its
\* packets, and whatever else has that mark, leave by the public interface.
CarrierAvoidsTunnel ==
  carrier =>
    LET c == Config(cfg)
        peer == SourceIP(c)
        own == IF c.role = "iran" THEN c.net.iran ELSE c.net.foreign
    IN  \A proto \in {"tcp", "udp"}, port \in {c.listen.port} \cup {q.port : q \in Range(c.ports)} :
          Emitted(kernel, [Packet(own, peer, proto, port, port, "est") EXCEPT !.mark = transportMark]
                 ).out = "pub"

\* The services of a configuration, by protocol and port.
Services(c) ==
  {s \in {"tcp", "udp"} \X {q.port : q \in Range(c.ports)} :
     \E q \in Range(c.ports) : q.port = s[2] /\ protocolIncludes(q.proto, s[1])}

\* The other host, with the same settings, undisturbed.
PeerOf(c) ==
  IF c.role = "iran" THEN [c EXCEPT !.role = "kharej", !.net.ip = c.net.foreign]
                     ELSE [c EXCEPT !.role = "iran", !.net.ip = c.net.iran]
Rules(steps, chain) ==
  LET In(s, op) == s.how = "must" /\ s.cmd.op = op
      added == SelectSeq(steps, LAMBDA s : In(s, "-A") /\ s.cmd.chain = chain)
      once  == SelectSeq(steps, LAMBDA s : s.how = "once" /\ s.chain = chain)
  IN  [i \in 1 .. Len(once) |-> once[i].rule] \o [i \in 1 .. Len(added) |-> added[i].cmd.rule]
Built(c) ==
  LET steps   == SetUp(c)
      cmds    == {s.cmd : s \in {t \in Range(steps) : t.how = "must"}}
      hooked  == {s.chain : s \in {t \in Range(steps) : t.how = "hook"}}
  IN  [there  |-> hooked,
       chain  |-> [ch \in Chains |-> Rules(steps, ch)],
       jumps  |-> [ch \in Chains |-> IF ch \in hooked THEN 1 ELSE 0],
       rules  |-> {m.prio : m \in {n \in cmds : n.op = "rule_add"}},
       routes |-> {m.route : m \in {n \in cmds : n.op \in {"route_add", "route_replace"}}}]

\* docs/ARCHITECTURE.md, the three data paths: while the service is up and
\* the other host too, a client's packet for a service port goes through the
\* tunnel to Kharej, and the answer comes back through it (full), past it
\* (direct-return) or as the return table says (smart).  TCP segments fit into
\* the tunnel in each direction that it carries: the client's always, since
\* the answer's SYN is clamped on its way; the server's when the answers go
\* through the tunnel, by a clamp of the request's SYN (full) or by the packet
\* size of the route that they take (fallback).
ServiceWorks ==
  phase = "up" =>
    LET c == Config(cfg)
        k == IF c.role = "iran" THEN kernel ELSE Built(PeerOf(c))
        x == IF c.role = "iran" THEN Built(PeerOf(c)) ELSE kernel
        fallback == \E r \in x.routes : r.table = returnTable
    IN  \A s \in Services(c) :
          /\ RequestServed(k, x, c.net, s[1], s[2])
          /\ AnswerReturned(k, x, c.net, s[1], s[2])
          /\ Answer(x, c.net, s[1], s[2]).out = (IF c.mode = "full" \/ fallback THEN "tun" ELSE "pub")
          /\ s[1] = "tcp" =>
               /\ AnswerAtIran(k, x, c.net, s[1], s[2]).clamped
               /\ Answer(x, c.net, s[1], s[2]).out = "tun" =>
                    \/ Request(k, c.net, s[1], s[2]).clamped
                    \/ AnswerSized(x, c.net, s[1], s[2], c.mtu)

\* What the carrier receives, and on Iran the probes of Kharej, is not taken
\* for service traffic and is let in, on the ports that the installer writes:
\* the same for both hosts (install.sh:246).
OwnTrafficAdmitted ==
  phase = "up" /\ Config(cfg).net.iface # "" =>
    LET c   == Config(cfg)
        net == transportNetwork(c.type)
        in  == Packet(SourceIP(c), c.net.ip, net, c.listen.port, c.listen.port, "new")
    IN  /\ Admitted(kernel, IF c.type = "tcp" /\ c.role = "iran"
                            THEN [in EXCEPT !.dport = ClientPort, !.ct = "est"] ELSE in, "pub")
        /\ c.role = "iran" /\ c.smart.enabled =>
             Admitted(kernel, Packet(c.net.foreign, c.net.ip, "udp", ClientPort, c.smart.port, "new"),
                      "pub")

\* smart_policy.go:13: "switching the download path must never redirect
\* unrelated Kharej -> Iran traffic such as SSH".  Without a host route of
\* full mode, what is no service traffic keeps its way between the hosts.
UnrelatedStaysDirect ==
  carrier /\ Config(cfg).net.iface # "" =>
    LET c == Config(cfg)
    IN  \A port \in {22, ClientPort} \ {q.port : q \in Range(c.ports)} :
          c.role = "iran" \/ c.mode = "direct-return" =>
            Emitted(kernel, Packet(c.net.ip, SourceIP(c), "tcp", port, port, "est")).out = "pub"

\* install.sh:253, "Block direct public access to service ports": on Kharej a
\* locked service is not reached on the public interface, by anyone.
LockedPortsClosed ==
  phase = "up" /\ Config(cfg).role = "kharej" /\ Config(cfg).net.lock =>
    \A s \in Services(Config(cfg)), src \in {"client", "iran"}, ct \in {"new", "est"} :
      Verdict(kernel, "HSH_INPUT", [Packet(src, Config(cfg).net.foreign, s[1], ClientPort, s[2], ct)
                                      EXCEPT !.in = "pub"]) = "DROP"

\* Restart=always: whatever was left behind, a configuration that is accepted
\* and whose listen address has a port brings the service up again and again.
StartsAgain ==
  <>[](Loadable(file) /\ HasListenPort(Files[file].listen)) => []<>(phase = "up")
============================================================================

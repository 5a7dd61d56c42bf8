--------------------------- MODULE RoutingScripts ---------------------------
(***************************************************************************)
(* The commands of routing.go, smart_policy.go and carrier_firewall.go for  *)
(* a configuration, in their order.  A step is a command with what the code *)
(* makes of its failure:                                                    *)
(*                                                                          *)
(*   quiet   ignored (runQuiet)                                             *)
(*   must    returned; "undo" names what is cleaned up on the way out       *)
(*   hook    -C, and unless that succeeds a checked -I (resetChain)         *)
(*   unhook  one round of -C and -D, again while -C succeeds (deleteChain)  *)
(*   once    -C of a rule, and unless that succeeds a checked -I            *)
(***************************************************************************)
EXTENDS Config, NetfilterOps

dataMark      == 102   \* 0x66
returnMark    == 104   \* 0x68
transportMark == 119   \* 0x77
dataTable      == 166
transportTable == 167
returnTable    == 168

Quiet(cmd)      == [how |-> "quiet", cmd |-> cmd]
Must(cmd, undo) == [how |-> "must", cmd |-> cmd, undo |-> undo]

RuleAdd(prio) == [op |-> "rule_add", prio |-> prio]
RuleDel(prio) == [op |-> "rule_del", prio |-> prio]
Flush(table)  == [op |-> "route_flush", table |-> table]

\* ipt -A: a rule at the end of a chain.
Ipt(chain, match, target, arg, undo) ==
  Must([op |-> "-A", chain |-> chain,
        rule |-> [match |-> match, target |-> target, arg |-> arg]], undo)

\* A match that looks at more.
Also(match, more) ==
  [f \in DOMAIN match \cup DOMAIN more |-> IF f \in DOMAIN match THEN match[f] ELSE more[f]]

\* The sequences of ss, one after the other.
Joined(ss) ==
  LET upTo[n \in 0 .. Len(ss)] == IF n = 0 THEN <<>> ELSE upTo[n - 1] \o ss[n]
  IN  upTo[Len(ss)]

\* protocols, and a step per service port and protocol in the order of the file.
protocols(p) == IF p = "both" THEN <<"tcp", "udp">> ELSE <<p>>
PerService(c, Steps(_, _)) ==
  Joined([i \in 1 .. Len(c.ports) |->
     Joined([j \in 1 .. Len(protocols(c.ports[i].proto)) |->
        Steps(protocols(c.ports[i].proto)[j], c.ports[i].port)])])
When(b, steps) == IF b THEN steps ELSE <<>>

resetChain(chain) ==
  << Quiet([op |-> "-N", chain |-> chain]), Must([op |-> "-F", chain |-> chain], "routing"),
     [how |-> "hook", chain |-> chain, undo |-> "routing"] >>
resetChains(s) == Joined([i \in 1 .. Len(s) |-> resetChain(s[i])])

\* Mutant: the jump is deleted once, not while there is one.
deleteChainOnce(chain) ==
  << Quiet([op |-> "unjump", chain |-> chain]), Quiet([op |-> "-F", chain |-> chain]),
     Quiet([op |-> "-X", chain |-> chain]) >>

deleteChain(chain) ==
  << [how |-> "unhook", chain |-> chain], Quiet([op |-> "-F", chain |-> chain]),
     Quiet([op |-> "-X", chain |-> chain]) >>

----------------------------------------------------------------------------
(* Iran.                                                                   *)

\* A client's packet for a service: marked, sent on to Kharej, let through.
IranService(c, proto, port) ==
  LET client == [in |-> {"pub"}, dst |-> {c.net.ip}, proto |-> {proto}, dport |-> {port}]
  IN  << Ipt("HSH_MPRE", client, "MARK", dataMark, "routing"),
         Ipt("HSH_NPRE", client, "DNAT", c.net.foreign, "routing"),
         Ipt("HSH_FWD", [in |-> {"pub"}, out |-> {"tun"}, dst |-> {c.net.foreign},
                         proto |-> {proto}, dport |-> {port}, ct |-> {"new", "est"}],
             "ACCEPT", 0, "routing") >>

setupIranRouting(c) ==
  << Must(RuleAdd(66), "routing"),
     Must([op |-> "route_add", route |-> Route(dataTable, c.net.foreign, "tun")], "routing") >>
  \o resetChains(<<"HSH_MPRE", "HSH_NPRE", "HSH_NPOST", "HSH_FWD", "HSH_MFWD", "HSH_INPUT">>)
  \o When(c.smart.enabled,
       << Ipt("HSH_INPUT", [in |-> {"pub"}, dst |-> {c.net.iran}, src |-> {c.net.foreign},
                            proto |-> {"udp"}, dport |-> {c.smart.port}], "ACCEPT", 0, "routing") >>)
  \o PerService(c, LAMBDA proto, port : IranService(c, proto, port))
  \o << Ipt("HSH_NPOST", [out |-> {"tun"}, dst |-> {c.net.foreign}], "SNAT", c.net.iran, "routing"),
        Ipt("HSH_FWD", [in |-> {"tun"}, out |-> {"pub"}, ct |-> {"est"}], "ACCEPT", 0, "routing"),
        Ipt("HSH_FWD", [in |-> {"pub"}, out |-> {"pub"}, ct |-> {"est"}], "ACCEPT", 0, "routing"),
        IF c.mode = "full"
        THEN Ipt("HSH_MFWD", [out |-> {"tun"}, mark |-> {dataMark}, proto |-> {"tcp"}, syn |-> {TRUE}],
                 "TCPMSS", c.mtu - 40, "routing")
        ELSE Ipt("HSH_MFWD", [in |-> {"pub"}, out |-> {"pub"}, src |-> {c.net.foreign},
                              proto |-> {"tcp"}, syn |-> {TRUE}, ct |-> {"est"}],
                 "TCPMSS", c.mtu - 40, "routing") >>

----------------------------------------------------------------------------
(* Kharej.                                                                 *)

KharejService(c, proto, port) ==
  << Ipt("HSH_INPUT", [in |-> {"tun"}, dst |-> {c.net.foreign}, proto |-> {proto}, dport |-> {port},
                       ct |-> {"new", "est"}], "ACCEPT", 0, "routing") >>
  \o When(c.net.lock,
       << Ipt("HSH_INPUT", [in |-> {"pub"}, dst |-> {c.net.foreign}, proto |-> {proto},
                            dport |-> {port}], "DROP", 0, "routing") >>)

\* Mutant: the rule looks up a table that stays empty.
setupTransportBypassNoRoute(c) == <<Must(RuleAdd(77), "routing")>>

\* The carrier's marked packets take the public route whatever else is set.
setupTransportBypass(c) ==
  << Must(RuleAdd(77), "routing"),
     Must([op |-> "route_add", route |-> Route(transportTable, "default", "pub")], "routing") >>

ReplyAccepted(c, dev) ==
  Ipt("HSH_OUTPUT", [out |-> {dev}, src |-> {c.net.foreign}, dst |-> {c.net.iran}, ct |-> {"est"}],
      "ACCEPT", 0, "routing")

setupKharejRouting(c) ==
  resetChains(<<"HSH_INPUT", "HSH_OUTPUT", "HSH_MOUT">>)
  \o PerService(c, LAMBDA proto, port : KharejService(c, proto, port))
  \o IF c.mode = "direct-return"
     THEN <<ReplyAccepted(c, "pub")>>
          \o When(c.smart.enabled, setupTransportBypass(c) \o <<ReplyAccepted(c, "tun")>>)
     ELSE setupTransportBypass(c)
          \o << Must([op |-> "route_replace", route |-> Route(Main, c.net.iran, "tun")], "routing"),
                ReplyAccepted(c, "tun") >>
          \o Joined([i \in 1 .. Len(c.ports) |->
               When(c.ports[i].proto # "udp",
                 << Ipt("HSH_MOUT", [out |-> {"tun"}, src |-> {c.net.foreign}, dst |-> {c.net.iran},
                                     proto |-> {"tcp"}, sport |-> {c.ports[i].port}, syn |-> {TRUE}],
                        "TCPMSS", c.mtu - 40, "routing") >>)])

setupRouting(c) ==
  When(c.ports # <<>>, IF c.role = "iran" THEN setupIranRouting(c) ELSE setupKharejRouting(c))

----------------------------------------------------------------------------
(* The return policy and the carrier's firewall rule.                      *)

cleanupSmartReturnPolicy == <<Quiet(RuleDel(68)), Quiet(Flush(returnTable))>>

\* Mutant: the packets are not limited to what the tunnel takes.
ReturnRouteUnsized(c) == Route(returnTable, c.net.iran, "tun")

\* The route of the fallback, with the tunnel's packet size.
ReturnRoute(c) == [table |-> returnTable, dst |-> c.net.iran, dev |-> "tun", mtu |-> c.mtu]

\* Mutant: every flow to Iran is marked, not those of the services.
MarkRepliesAllFlows(c, proto, port) ==
  << Ipt("HSH_MOUT", [src |-> {c.net.foreign}, dst |-> {c.net.iran}, proto |-> {proto}, mark |-> {0}],
         "MARK", returnMark, "policy") >>

\* Replies of a service that carry no mark yet; their SYNs are clamped by mark.
MarkReplies(c, proto, port) ==
  LET reply == [src |-> {c.net.foreign}, dst |-> {c.net.iran}, proto |-> {proto}, sport |-> {port}]
  IN  << Ipt("HSH_MOUT", Also(reply, [mark |-> {0}]), "MARK", returnMark, "policy") >>
      \o When(proto = "tcp",
           << Ipt("HSH_MOUT", Also(reply, [mark |-> {returnMark}, syn |-> {TRUE}]), "TCPMSS", c.mtu - 40,
                  "policy") >>)

setupSmartReturnPolicy(c) ==
  When(c.smart.enabled /\ c.role = "kharej" /\ c.mode = "direct-return" /\ c.ports # <<>>,
    cleanupSmartReturnPolicy
    \o <<Must(RuleAdd(68), "both")>>
    \o PerService(c, LAMBDA proto, port : MarkReplies(c, proto, port))
    \o <<Quiet(Flush(returnTable))>>)

SourceIP(c) == IF c.role = "iran" THEN c.net.foreign ELSE c.net.iran

\* What the carrier receives.  On Iran with TCP these are replies, which are
\* told by a source port: the port of the own listen address.
CarrierMatch(c) ==
  Also([in |-> {"pub"}, dst |-> {c.net.ip}, src |-> {SourceIP(c)},
        proto |-> {transportNetwork(c.type)}],
       IF c.type = "tcp" /\ c.role = "iran"
       THEN [sport |-> {c.listen.port}, ct |-> {"est"}]
       ELSE [dport |-> {c.listen.port}])

setupCarrierFirewall(c) ==
  When(c.net.iface # "" /\ c.net.ip # "" /\ SourceIP(c) # "",
    IF ~HasListenPort(c.listen)
    THEN <<Must([op |-> "error"], "both")>>
    ELSE << Quiet([op |-> "-N", chain |-> "HSH_INPUT"]),
            [how |-> "hook", chain |-> "HSH_INPUT", undo |-> "both"],
            [how |-> "once", chain |-> "HSH_INPUT", undo |-> "both",
             rule |-> [match |-> CarrierMatch(c), target |-> "ACCEPT", arg |-> 0]] >>)

----------------------------------------------------------------------------
\* setupTun: a failing command ends run with nothing to roll back.
setupTun == <<Must([op |-> "link"], "none")>>

\* What run installs before it opens the carrier.
SetUp(c) ==
  setupTun \o setupRouting(c) \o setupSmartReturnPolicy(c) \o setupCarrierFirewall(c)

\* Every chain of either role.
deleteChains ==
  deleteChain("HSH_MPRE") \o deleteChain("HSH_NPRE") \o deleteChain("HSH_NPOST")
  \o deleteChain("HSH_FWD") \o deleteChain("HSH_MFWD") \o deleteChain("HSH_INPUT")
  \o deleteChain("HSH_OUTPUT") \o deleteChain("HSH_MOUT")

\* Mutant: the rule for the data mark is forgotten.
cleanupRoutingKeepsRule(c) ==
  deleteChains
  \o << Quiet(Flush(dataTable)), Quiet(RuleDel(77)), Quiet(Flush(transportTable)) >>
  \o When(c.role = "kharej" /\ c.net.iran # "",
       <<Quiet([op |-> "route_del", route |-> Route(Main, c.net.iran, "tun")])>>)

cleanupRouting(c) ==
  deleteChains
  \o << Quiet(RuleDel(66)), Quiet(Flush(dataTable)), Quiet(RuleDel(77)), Quiet(Flush(transportTable)) >>
  \o When(c.role = "kharej" /\ c.net.iran # "",
       <<Quiet([op |-> "route_del", route |-> Route(Main, c.net.iran, "tun")])>>)

CleanUp(c) == cleanupSmartReturnPolicy \o cleanupRouting(c)

\* The way out after a failed step.
RollBack(c, undo) ==
  CASE undo = "none"    -> <<>>
    [] undo = "routing" -> cleanupRouting(c)
    [] undo = "both"    -> CleanUp(c)
    [] undo = "policy"  -> cleanupSmartReturnPolicy \o CleanUp(c)
============================================================================

----------------------------- MODULE RoutingInv -----------------------------
(***************************************************************************)
(* What holds between any two commands of Routing, as an inductive          *)
(* invariant: what a kernel may hold, what the script that is under way has *)
(* done and what it has still to do.                                        *)
(***************************************************************************)
EXTENDS Routing

Prios  == {66, 68, 77}
Tables == {dataTable, transportTable, returnTable}

\* A sequence of whatever it holds.
IsSeq(s) == s \in Seq(Range(s))

----------------------------------------------------------------------------
(* The kernel.                                                             *)

\* A chain that is not there has no rules and no jumps.
KernelOK(k) ==
  /\ k = [there |-> k.there, chain |-> k.chain, jumps |-> k.jumps, rules |-> k.rules,
          routes |-> k.routes]
  /\ k.there \subseteq Chains
  /\ k.chain = [ch \in Chains |-> k.chain[ch]]
  /\ k.jumps \in [Chains -> Nat]
  /\ k.rules \subseteq Prios
  /\ \A ch \in Chains : IsSeq(k.chain[ch])
  /\ \A ch \in Chains \ k.there : k.chain[ch] = <<>> /\ k.jumps[ch] = 0

\* Replies are marked only where no mark is set, whoever wrote the rule.
MarksOK(k) ==
  \A r \in Range(k.chain["HSH_MOUT"]) :
    r.target = "MARK" => r.arg = returnMark /\ "mark" \in DOMAIN r.match /\ r.match["mark"] = {0}

MainRoute(c)   == Route(Main, c.net.iran, "tun")
BypassRoute    == Route(transportTable, "default", "pub")

\* The routes that point into the tunnel belong to the configuration at work.
TunRoute(c, r, p) ==
  \/ r = Route(dataTable, c.net.foreign, "tun") /\ c.role = "iran"
  \/ r = MainRoute(c) /\ c.role = "kharej" /\ c.mode = "full" /\ c.ports # <<>>
  \/ r = ReturnRoute(c) /\ c.role = "kharej" /\ c.smart.enabled /\ p = "up"

RoutesOK ==
  \A r \in kernel.routes :
    \/ r = BypassRoute
    \/ phase \in {"setup", "rollback", "up", "undo"} /\ TunRoute(Config(cfg), r, phase)

----------------------------------------------------------------------------
(* The scripts.                                                            *)

Unhook(ch)      == [how |-> "unhook", chain |-> ch]
EmptyChain(ch)  == Quiet([op |-> "-F", chain |-> ch])
DeleteChain(ch) == Quiet([op |-> "-X", chain |-> ch])
ResetFlush(ch)  == Must([op |-> "-F", chain |-> ch], "routing")
AddReturn       == Must(RuleAdd(68), "both")
DelReturn       == Quiet(RuleDel(68))

Undo(s) == IF s.how \in {"must", "hook", "once"} THEN s.undo ELSE "nothing"

\* The step puts rule r into a chain.
Adds(s, ch, r) ==
  \/ s.how = "must" /\ s.cmd.op = "-A" /\ s.cmd.chain = ch /\ s.cmd.rule = r
  \/ s.how = "once" /\ s.chain = ch /\ s.rule = r

\* Step t must not come after step s: a chain is deleted last, what is flushed
\* or deleted again was not added before, a chain is there before a rule is
\* inserted, and the roll-back of a step covers what has been set up before it.
TooLate(s, t) ==
  \/ \E ch \in Chains : s = DeleteChain(ch) /\ t \in {Unhook(ch), EmptyChain(ch)}
  \/ \E ch \in Chains : /\ s.how \in {"must", "once"} /\ t = ResetFlush(ch)
                        /\ s.how = "must" => s.cmd.op = "-A" /\ s.cmd.chain = ch
                        /\ s.how = "once" => s.chain = ch
  \/ s.how = "once" /\ t.how = "hook" /\ s.chain = t.chain
  \/ s = AddReturn /\ (t = DelReturn \/ Undo(t) = "routing")
  \/ Undo(t) = "none"

Ordered(s) == \A i, j \in 1 .. Len(s) : i < j => ~TooLate(s[i], s[j])

\* What a cleanup consists of.
CleanStep(c, s) ==
  \/ \E ch \in Chains : s \in {Unhook(ch), EmptyChain(ch), DeleteChain(ch)}
  \/ \E p \in Prios : s = Quiet(RuleDel(p))
  \/ \E t \in Tables : s = Quiet(Flush(t))
  \/ s = Quiet([op |-> "route_del", route |-> MainRoute(c)])

\* Whatever the kernel holds, one of the steps removes.
Covered(k, steps) ==
  /\ \A ch \in Chains : /\ ch \in k.there => DeleteChain(ch) \in steps
                        /\ k.chain[ch] # <<>> => EmptyChain(ch) \in steps
                        /\ k.jumps[ch] > 0 => Unhook(ch) \in steps
  /\ \A p \in k.rules : Quiet(RuleDel(p)) \in steps
  /\ \A r \in k.routes : \/ Quiet(Flush(r.table)) \in steps
                         \/ Quiet([op |-> "route_del", route |-> r]) \in steps

Cleaning == phase \in {"clean", "rollback", "undo", "post"}

\* A cleanup that was not disturbed has removed, or is going to remove,
\* everything.
CleanupOK ==
  Cleaning =>
    /\ \A s \in Range(todo) : CleanStep(Config(cfg), s)
    /\ ~flawed => Covered(kernel, Range(todo))

\* The roll-back that the next failure calls for removes what is there: before
\* the first step nothing is, and nothing of the return policy is there before
\* its own steps.
RollBackOK ==
  phase = "setup" /\ ~flawed =>
    /\ (\E s \in Range(todo) : Undo(s) = "none") => kernel = Empty
    /\ (\E s \in Range(todo) : Undo(s) = "routing") => 68 \notin kernel.rules

\* Rules of chain ch that the set-up writes.
Mine(c, ch, r) == \E s \in Range(SetUp(c)) : Adds(s, ch, r)

\* The step has had its effect.
Done(c, k, s) ==
  /\ s.how = "must" =>
       /\ s.cmd.op = "rule_add" => s.cmd.prio \in k.rules
       /\ s.cmd.op \in {"route_add", "route_replace"} => s.cmd.route \in k.routes
       /\ s.cmd.op = "-A" => s.cmd.rule \in Range(k.chain[s.cmd.chain])
       /\ s.cmd.op = "-F" => \A r \in Range(k.chain[s.cmd.chain]) : Mine(c, s.cmd.chain, r)
  /\ s.how = "hook" => k.jumps[s.chain] > 0

\* Every step of the set-up is still to come, or has had its effect and keeps it.
SetUpOK ==
  phase \in {"setup", "up"} =>
    /\ Range(todo) \subseteq Range(SetUp(Config(cfg)))
    /\ \A s \in Range(SetUp(Config(cfg))) :
         \/ s \in Range(todo)
         \/ Done(Config(cfg), kernel, s) /\ \A t \in Range(todo) : ~TooLate(s, t)

\* The bookkeeping.
ControlOK ==
  /\ phase \in {"off", "clean", "setup", "rollback", "up", "undo", "post"}
  /\ file \in DOMAIN Files /\ edits \in Seq(DOMAIN Files) /\ cfg \in DOMAIN Files
  /\ phase # "off" => Loadable(cfg)
  /\ phase \in {"off", "up"} => todo = <<>>
  /\ carrier <=> phase = "up"
  /\ IsSeq(todo) /\ Ordered(todo)
  /\ swept => phase \in {"off", "clean", "setup", "post"} /\ (phase = "setup" => todo # <<>>)

RoutingInvariant ==
  /\ ControlOK /\ KernelOK(kernel) /\ MarksOK(kernel) /\ RoutesOK
  /\ CleanupOK /\ RollBackOK /\ SetUpOK /\ CleanupLeavesNothing
============================================================================

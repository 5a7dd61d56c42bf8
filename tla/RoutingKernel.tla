---------------------------- MODULE RoutingKernel ----------------------------
(***************************************************************************)
(* What the commands of the scripts do to a kernel: a step of the cleanup  *)
(* removes its part and leaves the rest covered by the steps that follow,  *)
(* a step of the set-up has its effect and disturbs none of the effects    *)
(* before it.                                                              *)
(***************************************************************************)
EXTENDS RoutingLemmas

----------------------------------------------------------------------------
(* The effects of the commands on the parts of a kernel.                   *)

\* One part of a kernel is replaced.
ThereIs(k, k2, th) ==
  /\ Shaped(k2) /\ k2.there = th
  /\ k2.chain = k.chain /\ k2.jumps = k.jumps /\ k2.rules = k.rules /\ k2.routes = k.routes
RulesAre(k, k2, ru) ==
  /\ Shaped(k2) /\ k2.rules = ru
  /\ k2.there = k.there /\ k2.chain = k.chain /\ k2.jumps = k.jumps /\ k2.routes = k.routes
RoutesAre(k, k2, ro) ==
  /\ Shaped(k2) /\ k2.routes = ro
  /\ k2.there = k.there /\ k2.chain = k.chain /\ k2.jumps = k.jumps /\ k2.rules = k.rules
ChainIs(k, k2, x, v) ==
  /\ Shaped(k2)
  /\ k2.chain = [y \in Chains |-> k2.chain[y]] /\ k2.chain[x] = v
  /\ \A y \in Chains \ {x} : k2.chain[y] = k.chain[y]
  /\ k2.there = k.there /\ k2.jumps = k.jumps /\ k2.rules = k.rules /\ k2.routes = k.routes
JumpsAre(k, k2, x, n) ==
  /\ Shaped(k2)
  /\ k2.jumps = [y \in Chains |-> k2.jumps[y]] /\ k2.jumps[x] = n
  /\ \A y \in Chains \ {x} : k2.jumps[y] = k.jumps[y]
  /\ k2.there = k.there /\ k2.chain = k.chain /\ k2.rules = k.rules /\ k2.routes = k.routes

Unjump(x) == [op |-> "unjump", chain |-> x]
JumpTo(x) == [op |-> "jump", chain |-> x]
InsertIn(x, r) == [op |-> "-I", chain |-> x, rule |-> r]

\* What each command does.
LEMMA ChainEffects ==
  ASSUME NEW k, KernelOK(k), NEW x \in Chains, NEW r, NEW u
  PROVE  /\ ThereIs(k, Effect(k, NewChain(x).cmd), k.there \cup {x})
         /\ ThereIs(k, Effect(k, DeleteChain(x).cmd), k.there \ {x})
         /\ ChainIs(k, Effect(k, EmptyChain(x).cmd), x, <<>>)
         /\ ChainIs(k, Effect(k, ResetFlush(x).cmd), x, <<>>)
         /\ ChainIs(k, Effect(k, AddRule(x, r, u).cmd), x, Append(k.chain[x], r))
         /\ ChainIs(k, Effect(k, InsertIn(x, r)), x, <<r>> \o k.chain[x])
<1>0. /\ k = [there |-> k.there, chain |-> k.chain, jumps |-> k.jumps, rules |-> k.rules,
              routes |-> k.routes]
      /\ k.chain = [ch \in Chains |-> k.chain[ch]]
  BY Zenon DEF KernelOK
<1>1. ThereIs(k, Effect(k, NewChain(x).cmd), k.there \cup {x})
  BY ZenonT(30), <1>0 DEF Effect, Shaped, NewChain, Quiet, ThereIs
<1>2. ThereIs(k, Effect(k, DeleteChain(x).cmd), k.there \ {x})
  BY ZenonT(30), <1>0 DEF Effect, Shaped, DeleteChain, Quiet, ThereIs
<1>3. ASSUME NEW v, NEW k2, k2 = [k EXCEPT !.chain[x] = v] PROVE ChainIs(k, k2, x, v)
  BY ZenonT(30), <1>0, <1>3 DEF Shaped, ChainIs
<1>4. Effect(k, EmptyChain(x).cmd) = [k EXCEPT !.chain[x] = <<>>]
  BY Zenon DEF Effect, EmptyChain, Quiet
<1>5. Effect(k, ResetFlush(x).cmd) = [k EXCEPT !.chain[x] = <<>>]
  BY ZenonT(30) DEF Effect, ResetFlush, Must
<1>6. Effect(k, AddRule(x, r, u).cmd) = [k EXCEPT !.chain[x] = Append(k.chain[x], r)]
  BY ZenonT(30), <1>0 DEF Effect, AddRule, Must
<1>7. Effect(k, InsertIn(x, r)) = [k EXCEPT !.chain[x] = <<r>> \o k.chain[x]]
  BY ZenonT(30), <1>0 DEF Effect, InsertIn
<1>. QED
  BY ZenonT(30), <1>1, <1>2, <1>3, <1>4, <1>5, <1>6, <1>7

\* Inserting and removing a jump counts it up and down.
LEMMA JumpEffects ==
  ASSUME NEW k, KernelOK(k), NEW x \in Chains
  PROVE  /\ JumpsAre(k, Effect(k, JumpTo(x)), x, k.jumps[x] + 1)
         /\ JumpsAre(k, Effect(k, Unjump(x)), x, k.jumps[x] - 1)
<1>0. /\ k = [there |-> k.there, chain |-> k.chain, jumps |-> k.jumps, rules |-> k.rules,
              routes |-> k.routes]
      /\ k.jumps = [ch \in Chains |-> k.jumps[ch]]
  BY ZenonT(30) DEF KernelOK
<1>1. ASSUME NEW v, NEW k2, k2 = [k EXCEPT !.jumps[x] = v] PROVE JumpsAre(k, k2, x, v)
  BY ZenonT(30), <1>0, <1>1 DEF Shaped, JumpsAre
<1>2. Effect(k, JumpTo(x)) = [k EXCEPT !.jumps[x] = k.jumps[x] + 1]
  BY ZenonT(30), <1>0 DEF Effect, JumpTo
<1>3. Effect(k, Unjump(x)) = [k EXCEPT !.jumps[x] = k.jumps[x] - 1]
  BY ZenonT(30), <1>0 DEF Effect, Unjump
<1>. QED
  BY ZenonT(30), <1>1, <1>2, <1>3

\* Adding and deleting a policy rule changes the rules only; setting the link
\* up changes nothing here.
LEMMA RuleEffects ==
  ASSUME NEW k, KernelOK(k), NEW p, NEW u
  PROVE  /\ RulesAre(k, Effect(k, Must(RuleAdd(p), u).cmd), k.rules \cup {p})
         /\ RulesAre(k, Effect(k, Quiet(RuleDel(p)).cmd), k.rules \ {p})
         /\ Effect(k, Link.cmd) = k
<1>0. k = [there |-> k.there, chain |-> k.chain, jumps |-> k.jumps, rules |-> k.rules,
           routes |-> k.routes]
  BY Zenon DEF KernelOK
<1>1. RulesAre(k, Effect(k, Must(RuleAdd(p), u).cmd), k.rules \cup {p})
  BY ZenonT(30), <1>0 DEF Effect, Shaped, RuleAdd, Must, RulesAre
<1>2. RulesAre(k, Effect(k, Quiet(RuleDel(p)).cmd), k.rules \ {p})
  BY ZenonT(30), <1>0 DEF Effect, Shaped, RuleDel, Quiet, RulesAre
<1>3. Effect(k, Link.cmd) = k
  BY ZenonT(30) DEF Effect, Link, Must
<1>. QED
  BY ZenonT(30), <1>1, <1>2, <1>3

OtherTables(k, t) == {q \in k.routes : q.table # t}
OtherRoutes(k, r) == {q \in k.routes : q.table # r.table \/ q.dst # r.dst}
PublicRoutes(k)   == {q \in k.routes : q.dev # "tun"}

\* Adding, replacing, deleting and flushing change the routes only.
LEMMA RouteEffects ==
  ASSUME NEW k, KernelOK(k), NEW r, NEW t
  PROVE  /\ RoutesAre(k, Effect(k, AddRoute(r).cmd), k.routes \cup {r})
         /\ RoutesAre(k, Effect(k, PutRoute(r).cmd),
                      OtherRoutes(k, r) \cup {r})
         /\ RoutesAre(k, Effect(k, DelRoute(r).cmd), k.routes \ {r})
         /\ RoutesAre(k, Effect(k, Quiet(Flush(t)).cmd), OtherTables(k, t))
         /\ RoutesAre(k, WithoutTun(k), PublicRoutes(k))
<1>0. k = [there |-> k.there, chain |-> k.chain, jumps |-> k.jumps, rules |-> k.rules,
           routes |-> k.routes]
  BY Zenon DEF KernelOK
<1>1. RoutesAre(k, Effect(k, AddRoute(r).cmd), k.routes \cup {r})
  BY ZenonT(30), <1>0 DEF Effect, Shaped, AddRoute, Must, RoutesAre
<1>2. RoutesAre(k, Effect(k, PutRoute(r).cmd),
                OtherRoutes(k, r) \cup {r})
  BY ZenonT(30), <1>0 DEF Effect, Shaped, PutRoute, Must, RoutesAre, OtherRoutes
<1>3. RoutesAre(k, Effect(k, DelRoute(r).cmd), k.routes \ {r})
  BY ZenonT(30), <1>0 DEF Effect, Shaped, DelRoute, Quiet, RoutesAre
<1>4. RoutesAre(k, Effect(k, Quiet(Flush(t)).cmd), OtherTables(k, t))
  BY ZenonT(30), <1>0 DEF Effect, Shaped, Flush, Quiet, RoutesAre, OtherTables
<1>5. RoutesAre(k, WithoutTun(k), PublicRoutes(k))
  BY SMTT(60), <1>0 DEF WithoutTun, Shaped, RoutesAre, PublicRoutes
<1>. QED
  BY ZenonT(30), <1>1, <1>2, <1>3, <1>4, <1>5

\* When they succeed.
LEMMA WorksFacts ==
  ASSUME NEW k, NEW x, NEW r, NEW u
  PROVE  /\ Works(k, NewChain(x).cmd) <=> x \notin k.there
         /\ Works(k, EmptyChain(x).cmd) <=> x \in k.there
         /\ Works(k, ResetFlush(x).cmd) <=> x \in k.there
         /\ Works(k, AddRule(x, r, u).cmd) <=> x \in k.there
         /\ Works(k, DeleteChain(x).cmd) <=> x \in k.there /\ k.chain[x] = <<>> /\ k.jumps[x] = 0
         /\ Works(k, JumpTo(x)) <=> x \in k.there
         /\ Works(k, Quiet(RuleDel(x)).cmd) <=> x \in k.rules
         /\ Works(k, DelRoute(r).cmd) <=> r \in k.routes
         /\ Works(k, Quiet(Flush(x)).cmd)
<1>1. Works(k, NewChain(x).cmd) <=> x \notin k.there
  BY ZenonT(30) DEF Works, NewChain, Quiet
<1>2. Works(k, EmptyChain(x).cmd) <=> x \in k.there
  BY Zenon DEF Works, EmptyChain, Quiet
<1>3. Works(k, AddRule(x, r, u).cmd) <=> x \in k.there
  BY ZenonT(30) DEF Works, AddRule, Must
<1>4. Works(k, DeleteChain(x).cmd) <=> x \in k.there /\ k.chain[x] = <<>> /\ k.jumps[x] = 0
  BY ZenonT(30) DEF Works, DeleteChain, Quiet
<1>5. Works(k, JumpTo(x)) <=> x \in k.there
  BY ZenonT(30) DEF Works, JumpTo
<1>6. Works(k, Quiet(RuleDel(x)).cmd) <=> x \in k.rules
  BY ZenonT(30) DEF Works, RuleDel, Quiet
<1>7. Works(k, DelRoute(r).cmd) <=> r \in k.routes
  BY ZenonT(30) DEF Works, DelRoute, Quiet
<1>8. Works(k, Quiet(Flush(x)).cmd)
  BY Zenon DEF Works, Flush, Quiet
<1>9. Works(k, ResetFlush(x).cmd) <=> x \in k.there
  BY ZenonT(30) DEF Works, ResetFlush, Must
<1>. QED
  BY ZenonT(30), <1>1, <1>2, <1>3, <1>4, <1>5, <1>6, <1>7, <1>8, <1>9

\* The same kernel with less in it.
Smaller(k2, k) ==
  /\ Shaped(k2)
  /\ k2.there \subseteq k.there /\ k2.rules \subseteq k.rules /\ k2.routes \subseteq k.routes
  /\ k2.chain = [ch \in Chains |-> k2.chain[ch]] /\ k2.jumps \in [Chains -> Nat]
  /\ \A ch \in Chains : k2.chain[ch] \in {k.chain[ch], <<>>} /\ k2.jumps[ch] <= k.jumps[ch]
  /\ \A ch \in Chains \ k2.there : k2.chain[ch] = <<>> /\ k2.jumps[ch] = 0

\* Whatever holds less is still well formed.
LEMMA SmallerKernel ==
  ASSUME NEW k, NEW k2, KernelOK(k), Smaller(k2, k)
  PROVE  KernelOK(k2) /\ (MarksOK(k) => MarksOK(k2))
<1>1. \A ch \in Chains : IsSeq(k2.chain[ch])
  BY ZenonT(30), KernelParts, NoSteps DEF Smaller
<1>2. KernelOK(k2)
  BY ZenonT(30), <1>1, KernelParts DEF Smaller
<1>3. Range(k2.chain["HSH_MOUT"]) \subseteq Range(k.chain["HSH_MOUT"])
  BY ZenonT(30), NoSteps DEF Smaller, Chains
<1>4. MarksOK(k) => MarksOK(k2)
  BY Zenon, <1>3 DEF MarksOK
<1>. QED
  BY ZenonT(30), <1>2, <1>4

\* A kernel holds no more than itself.
LEMMA SmallerItself ==
  ASSUME NEW k, KernelOK(k)
  PROVE  Smaller(k, k)
  BY KernelParts DEF Smaller

\* The step has removed what it removes.
Removed(k, k2, s) ==
  /\ \A ch \in Chains :
       /\ s = EmptyChain(ch) => k2.chain[ch] = <<>>
       /\ s = DeleteChain(ch) /\ k.chain[ch] = <<>> /\ k.jumps[ch] = 0 => ch \notin k2.there
       /\ s = Unhook(ch) => k2.jumps[ch] = 0
  /\ \A p \in Prios : s = Quiet(RuleDel(p)) => p \notin k2.rules
  /\ \A r \in k2.routes : s # Quiet(Flush(r.table))
  /\ \A r \in k.routes : s = DelRoute(r) => r \notin k2.routes

\* Less of one part.
LEMMA SmallerThere ==
  ASSUME NEW k, KernelOK(k), NEW k2, NEW x, ThereIs(k, k2, k.there \ {x}),
         k.chain[x] = <<>>, k.jumps[x] = 0
  PROVE  Smaller(k2, k) /\ k2.there = k.there \ {x}
  BY KernelParts DEF Smaller, ThereIs

\* A kernel with a chain emptied is smaller.
LEMMA SmallerChain ==
  ASSUME NEW k, KernelOK(k), NEW k2, NEW x \in Chains, ChainIs(k, k2, x, <<>>)
  PROVE  Smaller(k2, k) /\ k2.chain[x] = <<>>
<1>1. /\ k.jumps \in [Chains -> Nat]
      /\ \A ch \in Chains \ k.there : k.chain[ch] = <<>> /\ k.jumps[ch] = 0
  BY Zenon, KernelParts
<1>2. \A ch \in Chains : k2.chain[ch] \in {k.chain[ch], <<>>} /\ k2.jumps[ch] <= k.jumps[ch]
  BY <1>1 DEF ChainIs
<1>3. \A ch \in Chains \ k2.there : k2.chain[ch] = <<>> /\ k2.jumps[ch] = 0
  BY ZenonT(30), <1>1, <1>2 DEF ChainIs
<1>. QED
  BY ZenonT(30), <1>1, <1>2, <1>3 DEF Smaller, ChainIs

\* A kernel with a jump removed is smaller.
LEMMA SmallerJumps ==
  ASSUME NEW k, KernelOK(k), NEW k2, NEW x \in Chains, k.jumps[x] > 0, JumpsAre(k, k2, x, k.jumps[x] - 1)
  PROVE  Smaller(k2, k)
<1>1. k.jumps \in [Chains -> Nat] /\ \A ch \in Chains \ k.there : k.jumps[ch] = 0
  BY ZenonT(30), KernelParts
<1>2. \A ch \in Chains : k2.jumps[ch] \in Nat /\ k2.jumps[ch] <= k.jumps[ch]
  BY <1>1 DEF JumpsAre
<1>3. k2.jumps \in [Chains -> Nat]
  BY ZenonT(30), <1>2 DEF JumpsAre
<1>4. \A ch \in Chains \ k.there : k2.jumps[ch] = 0
  BY <1>1 DEF JumpsAre
<1>. QED
  BY ZenonT(30), <1>2, <1>3, <1>4, KernelParts DEF Smaller, JumpsAre

\* A kernel with policy rules deleted is smaller.
LEMMA SmallerRules ==
  ASSUME NEW k, KernelOK(k), NEW k2, NEW ru, ru \subseteq k.rules, RulesAre(k, k2, ru)
  PROVE  Smaller(k2, k) /\ k2.rules = ru
  BY KernelParts DEF Smaller, RulesAre

\* A kernel with routes deleted is smaller.
LEMMA SmallerRoutes ==
  ASSUME NEW k, KernelOK(k), NEW k2, NEW ro, ro \subseteq k.routes, RoutesAre(k, k2, ro)
  PROVE  Smaller(k2, k) /\ k2.routes = ro
  BY KernelParts DEF Smaller, RoutesAre

\* A quiet command of a cleanup takes away, and nothing else.
LEMMA QuietCleanEffect ==
  ASSUME NEW k, KernelOK(k), NEW c, NEW s, CleanStep(c, s), s.how = "quiet"
  PROVE  Smaller(Exec(k, s.cmd), k) /\ Removed(k, Exec(k, s.cmd), s)
<1>. DEFINE k2 == Exec(k, s.cmd)
<1>1. ASSUME NEW ch \in Chains, s = EmptyChain(ch) PROVE Smaller(k2, k) /\ Removed(k, k2, s)
  <2>1. Smaller(k2, k) /\ k2.chain[ch] = <<>>
    <3>1. CASE ch \in k.there
      <4>1. k2 = Effect(k, EmptyChain(ch).cmd)
        BY ZenonT(30), <1>1, <3>1, WorksFacts DEF Exec
      <4>2. ChainIs(k, k2, ch, <<>>)
        BY ZenonT(30), <4>1, ChainEffects
      <4>. HIDE DEF k2
      <4>. QED
        BY ZenonT(30), <4>2, SmallerChain
    <3>2. CASE ch \notin k.there
      <4>1. k2 = k
        BY ZenonT(30), <1>1, <3>2, WorksFacts DEF Exec
      <4>2. k.chain[ch] = <<>>
        BY ZenonT(30), <3>2, KernelParts
      <4>. QED
        BY ZenonT(30), <4>1, <4>2, SmallerItself
    <3>. QED
      BY ZenonT(30), <3>1, <3>2
  <2>. HIDE DEF k2
  <2>2. Removed(k, k2, s)
    BY SMTT(60), <1>1, <2>1, QuietFields, HookFields, RouteFields DEF Removed
  <2>. QED
    BY ZenonT(30), <2>1, <2>2
<1>2. ASSUME NEW ch \in Chains, s = DeleteChain(ch) PROVE Smaller(k2, k) /\ Removed(k, k2, s)
  <2>1. Smaller(k2, k) /\ (k.chain[ch] = <<>> /\ k.jumps[ch] = 0 => ch \notin k2.there)
    <3>1. CASE ch \in k.there /\ k.chain[ch] = <<>> /\ k.jumps[ch] = 0
      <4>1. k2 = Effect(k, DeleteChain(ch).cmd)
        BY ZenonT(30), <1>2, <3>1, WorksFacts DEF Exec
      <4>2. ThereIs(k, k2, k.there \ {ch})
        BY ZenonT(30), <4>1, ChainEffects
      <4>. HIDE DEF k2
      <4>3. Smaller(k2, k)
        BY ZenonT(30), <3>1, <4>2, SmallerThere
      <4>4. ch \notin k2.there
        BY ZenonT(30), <4>2 DEF ThereIs
      <4>. QED
        BY ZenonT(30), <4>3, <4>4
    <3>2. CASE ~(ch \in k.there /\ k.chain[ch] = <<>> /\ k.jumps[ch] = 0)
      <4>1. k2 = k
        BY ZenonT(30), <1>2, <3>2, WorksFacts DEF Exec
      <4>. QED
        BY ZenonT(30), <3>2, <4>1, SmallerItself
    <3>. QED
      BY ZenonT(30), <3>1, <3>2
  <2>. HIDE DEF k2
  <2>2. Removed(k, k2, s)
    BY SMTT(60), <1>2, <2>1, QuietFields, HookFields, RouteFields DEF Removed
  <2>. QED
    BY ZenonT(30), <2>1, <2>2
<1>3. ASSUME NEW p \in Prios, s = Quiet(RuleDel(p)) PROVE Smaller(k2, k) /\ Removed(k, k2, s)
  <2>1. Smaller(k2, k) /\ p \notin k2.rules
    <3>1. CASE p \in k.rules
      <4>1. k2 = Effect(k, Quiet(RuleDel(p)).cmd)
        BY ZenonT(30), <1>3, <3>1, WorksFacts DEF Exec
      <4>2. RulesAre(k, k2, k.rules \ {p})
        BY ZenonT(30), <4>1, RuleEffects
      <4>. HIDE DEF k2
      <4>. QED
        BY SMTT(60), <4>2, SmallerRules
    <3>2. CASE p \notin k.rules
      BY ZenonT(30), <1>3, <3>2, WorksFacts, SmallerItself DEF Exec
    <3>. QED
      BY ZenonT(30), <3>1, <3>2
  <2>. HIDE DEF k2
  <2>2. Removed(k, k2, s)
    BY SMTT(60), <1>3, <2>1, QuietFields, HookFields, RouteFields DEF Removed
  <2>. QED
    BY ZenonT(30), <2>1, <2>2
<1>4. ASSUME NEW t \in Tables, s = Quiet(Flush(t)) PROVE Smaller(k2, k) /\ Removed(k, k2, s)
  <2>1. k2 = Effect(k, Quiet(Flush(t)).cmd)
    BY ZenonT(30), <1>4, WorksFacts DEF Exec
  <2>2. RoutesAre(k, k2, OtherTables(k, t))
    BY ZenonT(30), <2>1, RouteEffects
  <2>. HIDE DEF k2
  <2>3. Smaller(k2, k) /\ \A r \in k2.routes : r.table # t
    <3>1. OtherTables(k, t) \subseteq k.routes /\ \A r \in OtherTables(k, t) : r.table # t
      BY ZenonT(30) DEF OtherTables
    <3>. QED
      BY ZenonT(30), <2>2, <3>1, SmallerRoutes
  <2>4. Removed(k, k2, s)
    BY SMTT(60), <1>4, <2>3, QuietFields, HookFields, RouteFields DEF Removed
  <2>. QED
    BY ZenonT(30), <2>3, <2>4
<1>5. ASSUME NEW r, s = DelRoute(r) PROVE Smaller(k2, k) /\ Removed(k, k2, s)
  <2>1. Smaller(k2, k) /\ r \notin k2.routes
    <3>1. CASE r \in k.routes
      <4>1. RoutesAre(k, k2, k.routes \ {r})
        BY ZenonT(30), <1>5, <3>1, WorksFacts, RouteEffects DEF Exec
      <4>. HIDE DEF k2
      <4>. QED
        BY <4>1, SmallerRoutes
    <3>2. CASE r \notin k.routes
      <4>1. k2 = k
        BY ZenonT(30), <1>5, <3>2, WorksFacts DEF Exec
      <4>. QED
        BY ZenonT(30), <3>2, <4>1, SmallerItself
    <3>. QED
      BY ZenonT(30), <3>1, <3>2
  <2>. HIDE DEF k2
  <2>2. Removed(k, k2, s)
    BY SMTT(60), <1>5, <2>1, QuietFields, HookFields, RouteFields DEF Removed
  <2>. QED
    BY ZenonT(30), <2>1, <2>2
<1>. HIDE DEF k2
<1>6. s = Quiet([op |-> "route_del", route |-> MainRoute(c)]) => s = DelRoute(MainRoute(c))
  BY ZenonT(30) DEF DelRoute
<1>7. \A ch \in Chains : s # Unhook(ch)
  BY Zenon, HookFields
<1>8. Smaller(k2, k) /\ Removed(k, k2, s)
  BY ZenonT(30), <1>1, <1>2, <1>3, <1>4, <1>5, <1>6, <1>7 DEF CleanStep
<1>. QED
  BY ZenonT(30), <1>8 DEF k2

\* After a step of a cleanup the rest still covers what is left; a smaller
\* kernel needs no more.
LEMMA CoveredSmaller ==
  ASSUME NEW k, KernelOK(k), NEW k2, Smaller(k2, k), NEW S, Covered(k, S)
  PROVE  Covered(k2, S)
<1>1. k.jumps \in [Chains -> Nat]
  BY ZenonT(30), KernelParts
<1>. QED
  BY <1>1 DEF Covered, Smaller

\* When a step has removed its part, the remaining steps cover what is left.
LEMMA CoveredNext ==
  ASSUME NEW k, KernelOK(k), NEW k2, Smaller(k2, k), NEW s, Removed(k, k2, s),
         NEW S, Covered(k, {s} \cup S), \A t \in S : ~TooLate(s, t)
  PROVE  Covered(k2, S)
<1>0. k.jumps \in [Chains -> Nat] /\ k.rules \subseteq Prios /\ k2.jumps \in [Chains -> Nat]
  BY ZenonT(30), KernelParts DEF Smaller
<1>1. ASSUME NEW ch \in Chains, ch \in k2.there PROVE DeleteChain(ch) \in S
  <2>1. ch \in k.there /\ DeleteChain(ch) \in {s} \cup S
    BY ZenonT(30), <1>1 DEF Smaller, Covered
  <2>2. CASE s = DeleteChain(ch)
    <3>1. EmptyChain(ch) \notin S /\ Unhook(ch) \notin S
      BY ZenonT(30), <2>2 DEF TooLate
    <3>2. s # EmptyChain(ch) /\ s # Unhook(ch)
      BY SMTT(60), <2>2, QuietFields, HookFields
    <3>3. k.chain[ch] = <<>> /\ k.jumps[ch] = 0
      BY SMTT(60), <1>0, <3>1, <3>2 DEF Covered
    <3>. QED
      BY ZenonT(30), <1>1, <2>2, <3>3 DEF Removed
  <2>. QED
    BY Zenon, <2>1, <2>2
<1>2. ASSUME NEW ch \in Chains, k2.chain[ch] # <<>> PROVE EmptyChain(ch) \in S
  BY ZenonT(30), <1>2 DEF Smaller, Covered, Removed
<1>3. ASSUME NEW ch \in Chains, k2.jumps[ch] > 0 PROVE Unhook(ch) \in S
  <2>1. k.jumps[ch] > 0
    BY SMTT(60), <1>0, <1>3 DEF Smaller
  <2>. QED
    BY SMTT(60), <1>0, <1>3, <2>1 DEF Covered, Removed
<1>4. ASSUME NEW p \in k2.rules PROVE Quiet(RuleDel(p)) \in S
  BY ZenonT(30), <1>0 DEF Smaller, Covered, Removed
<1>5. ASSUME NEW r \in k2.routes PROVE Quiet(Flush(r.table)) \in S \/ DelRoute(r) \in S
  <2>1. r \in k.routes /\ (Quiet(Flush(r.table)) \in {s} \cup S \/ DelRoute(r) \in {s} \cup S)
    BY ZenonT(30) DEF Smaller, Covered, DelRoute
  <2>2. CASE Quiet(Flush(r.table)) = s
    BY ZenonT(30), <2>2 DEF Removed
  <2>3. CASE DelRoute(r) = s
    BY ZenonT(30), <2>1, <2>3 DEF Removed
  <2>. QED
    BY ZenonT(30), <2>1, <2>2, <2>3
<1>. QED
  BY ZenonT(30), <1>1, <1>2, <1>3, <1>4, <1>5 DEF Covered, DelRoute

\* Nothing is left when no step is.
LEMMA NothingLeft ==
  ASSUME NEW k, KernelOK(k)
  PROVE  Covered(k, {}) <=> k = Empty
<1>1. ASSUME Covered(k, {}) PROVE k = Empty
  <2>1. k.there = {} /\ k.rules = {} /\ k.routes = {}
    BY ZenonT(30), <1>1, KernelParts DEF Covered
  <2>2. k.chain = [ch \in Chains |-> <<>>]
    BY ZenonT(30), <1>1, KernelParts DEF Covered
  <2>3. k.jumps = [ch \in Chains |-> 0]
    BY ZenonT(30), <1>1, KernelParts DEF Covered
  <2>. QED
    BY ZenonT(30), <2>1, <2>2, <2>3, KernelParts DEF Shaped, Empty
<1>2. ASSUME k = Empty PROVE Covered(k, {})
  BY <1>2 DEF Covered, Empty
<1>. QED
  BY ZenonT(30), <1>1, <1>2

\* The empty kernel is well formed and loses nothing with the device.
LEMMA EmptyKernel == KernelOK(Empty) /\ MarksOK(Empty) /\ WithoutTun(Empty) = Empty
<1>1. KernelOK(Empty)
  BY ZenonT(30), NoSteps DEF KernelOK, Empty
<1>2. MarksOK(Empty)
  BY ZenonT(30), NoSteps DEF MarksOK, Empty, Chains
<1>3. WithoutTun(Empty) = Empty
  <2>1. {r \in {} : r.dev # "tun"} = {} /\ Empty.routes = {}
    BY ZenonT(30) DEF Empty
  <2>. QED
    BY ZenonT(30), <2>1 DEF WithoutTun, Empty
<1>. QED
  BY ZenonT(30), <1>1, <1>2, <1>3

----------------------------------------------------------------------------
(* What a cleanup covers, and what a step of the set-up builds.            *)

\* A cleanup covers a kernel whose policy rules and routes it knows.
LEMMA CleansCover ==
  ASSUME NEW k, KernelOK(k), NEW c, NEW s, NEW P, NEW T, Cleans(c, s, P, T), k.rules \subseteq P,
         \A r \in k.routes : \/ r.table \in T
                             \/ r = MainRoute(c) /\ c.role = "kharej" /\ c.net.iran # ""
  PROVE  /\ Covered(k, Range(s)) /\ IsSeq(s) /\ Ordered(s)
         /\ \A t \in Range(s) : CleanStep(c, t)
<1>1. \A ch \in Chains : {DeleteChain(ch), EmptyChain(ch), Unhook(ch)} \subseteq Range(s)
  BY ZenonT(30) DEF Cleans, StepsFor
<1>2. \A r \in k.routes : \/ Quiet(Flush(r.table)) \in Range(s)
                          \/ Quiet([op |-> "route_del", route |-> r]) \in Range(s)
  BY ZenonT(30) DEF Cleans
<1>. QED
  BY ZenonT(30), <1>1, <1>2 DEF Cleans, Covered

\* The routes of the invariant are of the kinds that a cleanup knows.
LEMMA KnownRoutes ==
  ASSUME NEW c, ConfigOK(c), NEW r, NEW p
  PROVE  /\ BypassRoute.table = transportTable /\ BypassRoute.dev = "pub"
         /\ BypassRoute.dst = "default"
         /\ TunRoute(c, r, p) => /\ r.dev = "tun"
                                 /\ \/ r.table \in Tables
                                    \/ r = MainRoute(c) /\ c.role = "kharej" /\ c.net.iran # ""
                                 /\ p # "up" => \/ r.table = dataTable
                                                \/ r = MainRoute(c) /\ c.role = "kharej" /\ c.net.iran # ""
<1>1. BypassRoute.table = transportTable /\ BypassRoute.dev = "pub" /\ BypassRoute.dst = "default"
  BY ZenonT(30) DEF BypassRoute, Route
<1>2. CASE r = Route(dataTable, c.net.foreign, "tun")
  <2>1. r.dev = "tun" /\ r.table = dataTable
    BY ZenonT(30), <1>2 DEF Route
  <2>. QED
    BY ZenonT(30), <1>1, <2>1 DEF Tables
<1>3. CASE r = MainRoute(c) /\ c.role = "kharej" /\ c.ports # <<>>
  <2>1. r.dev = "tun"
    BY ZenonT(30), <1>3 DEF Route, MainRoute
  <2>. QED
    BY ZenonT(30), <1>1, <1>3, <2>1, ConfigFacts
<1>4. CASE r = ReturnRoute(c) /\ p = "up"
  <2>1. r.dev = "tun" /\ r.table = returnTable
    BY ZenonT(30), <1>4 DEF Route, ReturnRoute
  <2>. QED
    BY ZenonT(30), <1>1, <1>4, <2>1 DEF Tables
<1>. QED
  BY ZenonT(30), <1>1, <1>2, <1>3, <1>4 DEF TunRoute

\* What the set-up may do to a kernel, and what it keeps of it.
Builds(c, k, s, k2) ==
  /\ KernelOK(k2)
  /\ \A ch \in Chains :
       /\ k.jumps[ch] <= k2.jumps[ch]
       /\ \A r \in Range(k2.chain[ch]) : r \in Range(k.chain[ch]) \/ Adds(s, ch, r)
       /\ s # ResetFlush(ch) => Range(k.chain[ch]) \subseteq Range(k2.chain[ch])
  /\ \A p \in k.rules : p \in k2.rules \/ (p = 68 /\ s = DelReturn)
  /\ 68 \in k2.rules => 68 \in k.rules \/ s = AddReturn
  /\ \A r \in {DataRoute(c), BypassRoute, MainRoute(c)} : r \in k.routes => r \in k2.routes
  /\ \A r \in k2.routes : r \in k.routes \/ r = BypassRoute \/ TunRoute(c, r, "setup")
  /\ Done(c, k2, s)

\* A kernel with the same chains and jumps.
LEMMA BuildsFrom ==
  ASSUME NEW c, NEW k, KernelOK(k), NEW s, NEW k2, Done(c, k2, s), Shaped(k2),
         k2.chain = k.chain, k2.jumps = k.jumps,
         k.there \subseteq k2.there, k2.there \subseteq Chains, k2.rules \subseteq Prios,
         \A p \in k.rules : p \in k2.rules \/ (p = 68 /\ s = DelReturn),
         68 \in k2.rules => 68 \in k.rules \/ s = AddReturn,
         \A r \in {DataRoute(c), BypassRoute, MainRoute(c)} : r \in k.routes => r \in k2.routes,
         \A r \in k2.routes : r \in k.routes \/ r = BypassRoute \/ TunRoute(c, r, "setup")
  PROVE  Builds(c, k, s, k2)
<1>0. /\ k.jumps \in [Chains -> Nat] /\ \A ch \in Chains : IsSeq(k.chain[ch])
      /\ k.chain = [ch \in Chains |-> k.chain[ch]]
      /\ \A ch \in Chains \ k.there : k.chain[ch] = <<>> /\ k.jumps[ch] = 0
  BY ZenonT(30), KernelParts
<1>1. KernelOK(k2)
  BY SMTT(60), <1>0, KernelParts
<1>2. \A ch \in Chains : k.jumps[ch] <= k2.jumps[ch]
  BY SMTT(60), <1>0
<1>. QED
  BY ZenonT(30), <1>1, <1>2 DEF Builds

\* A step that rewrites a chain builds, when every rule it leaves was there or
\* is its own.
LEMMA BuildsChain ==
  ASSUME NEW c, NEW k, KernelOK(k), NEW s, NEW k2, Done(c, k2, s), NEW x \in Chains, x \in k.there,
         NEW v, ChainIs(k, k2, x, v), IsSeq(v),
         \A r \in Range(v) : r \in Range(k.chain[x]) \/ Adds(s, x, r),
         s = ResetFlush(x) \/ Range(k.chain[x]) \subseteq Range(v)
  PROVE  Builds(c, k, s, k2)
<1>1. KernelOK(k2)
  <2>1. \A ch \in Chains : IsSeq(k2.chain[ch])
    BY ZenonT(30), KernelParts DEF ChainIs
  <2>2. \A ch \in Chains \ k.there : k2.chain[ch] = <<>>
    BY ZenonT(30), KernelParts DEF ChainIs
  <2>. QED
    BY ZenonT(30), <2>1, <2>2, KernelParts DEF ChainIs
<1>2. \A ch \in Chains :
       /\ \A r \in Range(k2.chain[ch]) : r \in Range(k.chain[ch]) \/ Adds(s, ch, r)
       /\ s # ResetFlush(ch) => Range(k.chain[ch]) \subseteq Range(k2.chain[ch])
  BY ZenonT(30) DEF ChainIs
<1>. QED
  BY SMTT(60), <1>1, <1>2, KernelParts DEF Builds, ChainIs

\* A step that inserts a jump builds.
LEMMA BuildsJump ==
  ASSUME NEW c, NEW k, KernelOK(k), NEW s, NEW k2, Done(c, k2, s), NEW x \in Chains, x \in k.there,
         JumpsAre(k, k2, x, k.jumps[x] + 1)
  PROVE  Builds(c, k, s, k2)
<1>0. k.jumps \in [Chains -> Nat] /\ \A ch \in Chains \ k.there : k.jumps[ch] = 0
  BY ZenonT(30), KernelParts
<1>1. \A ch \in Chains : k2.jumps[ch] \in Nat /\ k.jumps[ch] <= k2.jumps[ch]
  BY <1>0 DEF JumpsAre
<1>2. k2.jumps \in [Chains -> Nat] /\ \A ch \in Chains \ k.there : k2.jumps[ch] = 0
  BY Zenon, <1>0, <1>1 DEF JumpsAre
<1>3. KernelOK(k2)
  BY ZenonT(30), <1>2, KernelParts DEF JumpsAre
<1>. QED
  BY ZenonT(30), <1>1, <1>3 DEF Builds, JumpsAre

\* A step of the set-up is through: it worked, or it was not needed, or its
\* failure was ignored, or it was done once more after a -C that failed for no
\* reason.
Outcome(k, s, k2) ==
  \/ s.how = "quiet" /\ k2 \in {k, Exec(k, s.cmd)}
  \/ s.how = "must" /\ s.cmd.op # "error" /\ Works(k, s.cmd) /\ k2 = Effect(k, s.cmd)
  \/ s.how = "hook" /\ k.jumps[s.chain] > 0 /\ k2 = k
  \/ s.how = "hook" /\ (k.jumps[s.chain] > 0 \/ Works(k, Jump(s))) /\ k2 = Effect(k, Jump(s))
  \/ s.how = "once" /\ k2 = k
  \/ s.how = "once" /\ k2 = Effect(k, Insert(s))

\* A quiet step promises nothing.
LEMMA QuietDone ==
  ASSUME NEW c, NEW k, NEW s, s.how \in {"quiet", "once"}
  PROVE  Done(c, k, s)
  BY Zenon DEF Done

\* The quiet steps of the set-up.
LEMMA QuietBuilds ==
  ASSUME NEW c, NEW k, KernelOK(k), NEW s, NEW k2, k2 \in {k, Exec(k, s.cmd)},
         \/ \E ch \in Chains : s = NewChain(ch)
         \/ s = DelReturn
         \/ s = Quiet(Flush(returnTable))
  PROVE  Builds(c, k, s, k2)
<1>0. s.how = "quiet"
  BY SMTT(60), QuietFields, OtherFields
<1>1. Done(c, k2, s)
  BY <1>0, QuietDone
<1>2. k.there \subseteq Chains /\ k.rules \subseteq Prios /\ Shaped(k)
  BY ZenonT(30), KernelParts
<1>3. CASE k2 = k
  BY ZenonT(30), <1>1, <1>2, <1>3, BuildsFrom
<1>4. ASSUME NEW ch \in Chains, s = NewChain(ch), k2 # k PROVE Builds(c, k, s, k2)
  <2>1. ThereIs(k, k2, k.there \cup {ch})
    BY ZenonT(30), <1>4, ChainEffects DEF Exec
  <2>2. /\ Shaped(k2) /\ k2.chain = k.chain /\ k2.jumps = k.jumps /\ k2.rules = k.rules
        /\ k2.routes = k.routes /\ k.there \subseteq k2.there /\ k2.there \subseteq Chains
    BY Zenon, <1>2, <2>1 DEF ThereIs
  <2>. QED
    BY ZenonT(30), <1>1, <1>2, <2>2, BuildsFrom
<1>5. ASSUME s = DelReturn, k2 # k PROVE Builds(c, k, s, k2)
  <2>1. RulesAre(k, k2, k.rules \ {68})
    BY ZenonT(30), <1>5, RuleEffects DEF Exec, DelReturn
  <2>2. /\ Shaped(k2) /\ k2.chain = k.chain /\ k2.jumps = k.jumps /\ k2.there = k.there
        /\ k2.routes = k.routes /\ k2.rules = k.rules \ {68}
    BY ZenonT(30), <2>1 DEF RulesAre
  <2>. QED
    BY ZenonT(30), <1>1, <1>2, <1>5, <2>2, BuildsFrom
<1>6. ASSUME s = Quiet(Flush(returnTable)), k2 # k PROVE Builds(c, k, s, k2)
  <2>1. RoutesAre(k, k2, OtherTables(k, returnTable))
    BY ZenonT(30), <1>6, RouteEffects DEF Exec
  <2>2. /\ Shaped(k2) /\ k2.chain = k.chain /\ k2.jumps = k.jumps /\ k2.there = k.there
        /\ k2.rules = k.rules /\ k2.routes = OtherTables(k, returnTable)
    BY ZenonT(30), <2>1 DEF RoutesAre
  <2>3. \A r \in {DataRoute(c), BypassRoute, MainRoute(c)} : r.table # returnTable
    BY DEF DataRoute, BypassRoute, MainRoute, Route, dataTable, transportTable, returnTable, Main
  <2>4. /\ \A r \in {DataRoute(c), BypassRoute, MainRoute(c)} : r \in k.routes => r \in k2.routes
        /\ k2.routes \subseteq k.routes
    BY ZenonT(30), <2>2, <2>3 DEF OtherTables
  <2>. QED
    BY ZenonT(30), <1>1, <1>2, <2>2, <2>4, BuildsFrom
<1>. QED
  BY ZenonT(30), <1>3, <1>4, <1>5, <1>6

\* The rules and routes that are checked.
LEMMA RuleAddBuilds ==
  ASSUME NEW c, NEW k, KernelOK(k), NEW u, NEW p \in Prios, NEW s, s = Must(RuleAdd(p), u),
         p = 68 => s = AddReturn, NEW k2, k2 = Effect(k, s.cmd)
  PROVE  Builds(c, k, s, k2)
<1>1. RulesAre(k, k2, k.rules \cup {p})
  BY ZenonT(30), RuleEffects
<1>2. /\ Shaped(k2) /\ k2.chain = k.chain /\ k2.jumps = k.jumps /\ k2.there = k.there
      /\ k2.routes = k.routes /\ k2.rules = k.rules \cup {p}
  BY ZenonT(30), <1>1 DEF RulesAre
<1>3. k.there \subseteq Chains /\ k.rules \subseteq Prios
  BY ZenonT(30), KernelParts
<1>4. Done(c, k2, s)
  <2>1. s.how = "must" /\ s.cmd.op = "rule_add" /\ s.cmd.prio = p
    BY PrioFields
  <2>. QED
    BY ZenonT(30), <1>2, <2>1 DEF Done
<1>5. 68 \in k2.rules => 68 \in k.rules \/ s = AddReturn
  BY ZenonT(30), <1>2
<1>. QED
  BY ZenonT(30), <1>2, <1>3, <1>4, <1>5, BuildsFrom

\* A step that adds a route of the configuration builds.
LEMMA RouteAddBuilds ==
  ASSUME NEW c, NEW k, KernelOK(k), NEW r, NEW s, NEW k2, k2 = Effect(k, s.cmd),
         \/ s = AddRoute(r) /\ (r = BypassRoute \/ TunRoute(c, r, "setup"))
         \/ s = PutRoute(r) /\ r = MainRoute(c) /\ TunRoute(c, r, "setup")
  PROVE  Builds(c, k, s, k2)
<1>1. k.there \subseteq Chains /\ k.rules \subseteq Prios
  BY ZenonT(30), KernelParts
<1>2. /\ Shaped(k2) /\ k2.chain = k.chain /\ k2.jumps = k.jumps /\ k2.there = k.there
      /\ k2.rules = k.rules
      /\ k2.routes = k.routes \cup {r} \/ (r = MainRoute(c) /\ k2.routes = OtherRoutes(k, r) \cup {r})
  <2>1. \/ RoutesAre(k, k2, k.routes \cup {r})
        \/ r = MainRoute(c) /\ RoutesAre(k, k2, OtherRoutes(k, r) \cup {r})
    BY ZenonT(30), RouteEffects
  <2>. QED
    BY ZenonT(30), <2>1 DEF RoutesAre
<1>3. /\ r \in k2.routes
      /\ \A q \in k2.routes : q \in k.routes \/ q = BypassRoute \/ TunRoute(c, q, "setup")
  BY ZenonT(30), <1>2 DEF OtherRoutes
<1>4. \A q \in {DataRoute(c), BypassRoute, MainRoute(c)} : q \in k.routes => q \in k2.routes
  <2>1. DataRoute(c).table # MainRoute(c).table /\ BypassRoute.table # MainRoute(c).table
    BY DEF DataRoute, BypassRoute, MainRoute, Route, dataTable, transportTable, Main
  <2>. QED
    BY ZenonT(30), <1>2, <2>1 DEF OtherRoutes
<1>5. Done(c, k2, s)
  <2>1. s.how = "must" /\ s.cmd.op \in {"route_add", "route_replace"} /\ s.cmd.route = r
    BY SMTT(60), RouteFields
  <2>. QED
    BY ZenonT(30), <1>3, <2>1 DEF Done
<1>. QED
  BY ZenonT(30), <1>1, <1>2, <1>3, <1>4, <1>5, BuildsFrom

\* The steps on chains.
LEMMA ResetBuilds ==
  ASSUME NEW c, NEW k, KernelOK(k), NEW x \in Chains, x \in k.there, NEW k2,
         k2 = Effect(k, ResetFlush(x).cmd)
  PROVE  Builds(c, k, ResetFlush(x), k2)
<1>1. ChainIs(k, k2, x, <<>>)
  BY ZenonT(30), ChainEffects
<1>2. IsSeq(<<>>) /\ Range(<<>>) = {}
  BY ZenonT(30), NoSteps
<1>3. Done(c, k2, ResetFlush(x))
  <2>1. Range(k2.chain[x]) = {}
    BY ZenonT(30), <1>1, <1>2 DEF ChainIs
  <2>. QED
    BY SMTT(60), <2>1, MustFields DEF Done
<1>. QED
  BY ZenonT(30), <1>1, <1>2, <1>3, BuildsChain

\* A step that appends a rule builds.
LEMMA RuleStepBuilds ==
  ASSUME NEW c, NEW k, KernelOK(k), NEW x \in Chains, x \in k.there, NEW r, NEW u, NEW s,
         s = AddRule(x, r, u), NEW k2, k2 = Effect(k, s.cmd)
  PROVE  Builds(c, k, s, k2)
<1>. DEFINE v == Append(k.chain[x], r)
<1>1. ChainIs(k, k2, x, v)
  BY ZenonT(30), ChainEffects
<1>2. IsSeq(v) /\ Range(v) = Range(k.chain[x]) \cup {r}
  BY ZenonT(30), OneMore, KernelParts
<1>. HIDE DEF v
<1>3. s.how = "must" /\ s.cmd.op = "-A" /\ s.cmd.chain = x /\ s.cmd.rule = r
  BY MustFields
<1>4. Done(c, k2, s)
  BY ZenonT(30), <1>1, <1>2, <1>3 DEF Done, ChainIs
<1>5. \A q \in Range(v) : q \in Range(k.chain[x]) \/ Adds(s, x, q)
  BY ZenonT(30), <1>2, <1>3 DEF Adds
<1>. QED
  BY ZenonT(30), <1>1, <1>2, <1>4, <1>5, BuildsChain

\* A step that hooks a chain builds, whether the jump was there or not.
LEMMA HookBuilds ==
  ASSUME NEW c, NEW k, KernelOK(k), NEW x \in Chains, NEW u, NEW s, s = HookStep(x, u), NEW k2,
         Outcome(k, s, k2)
  PROVE  Builds(c, k, s, k2)
<1>1. s.how = "hook" /\ s.chain = x
  BY HookFields
<1>2. Jump(s) = JumpTo(x)
  BY Zenon, <1>1 DEF Jump, JumpTo
<1>3. /\ k.jumps \in [Chains -> Nat] /\ k.there \subseteq Chains /\ k.rules \subseteq Prios /\ Shaped(k)
      /\ k.jumps[x] > 0 => x \in k.there
  <2>1. /\ k.jumps \in [Chains -> Nat] /\ k.there \subseteq Chains /\ k.rules \subseteq Prios
        /\ Shaped(k) /\ (x \notin k.there => k.jumps[x] = 0)
    BY Zenon, KernelParts
  <2>. QED
    BY <2>1
<1>4. CASE k.jumps[x] > 0 /\ k2 = k
  <2>1. Done(c, k2, s)
    BY ZenonT(30), <1>1, <1>4 DEF Done
  <2>. QED
    BY ZenonT(30), <1>3, <1>4, <2>1, BuildsFrom
<1>5. CASE (k.jumps[x] > 0 \/ Works(k, JumpTo(x))) /\ k2 = Effect(k, JumpTo(x))
  <2>1. x \in k.there
    BY ZenonT(30), <1>3, <1>5, WorksFacts
  <2>2. JumpsAre(k, k2, x, k.jumps[x] + 1)
    BY ZenonT(30), <1>5, JumpEffects
  <2>3. Done(c, k2, s)
    <3>1. k2.jumps[x] > 0
      BY SMTT(60), <1>3, <2>2 DEF JumpsAre
    <3>. QED
      BY ZenonT(30), <1>1, <3>1 DEF Done
  <2>. QED
    BY ZenonT(30), <2>1, <2>2, <2>3, BuildsJump
<1>. QED
  BY ZenonT(30), <1>1, <1>2, <1>4, <1>5 DEF Outcome

\* A step that inserts a rule once builds, whether the rule was there or not.
LEMMA OnceBuilds ==
  ASSUME NEW c, NEW k, KernelOK(k), NEW s, s = OnceStep(c), "HSH_INPUT" \in k.there, NEW k2,
         Outcome(k, s, k2)
  PROVE  Builds(c, k, s, k2)
<1>. DEFINE x == "HSH_INPUT"
            v == <<s.rule>> \o k.chain[x]
<1>0. x \in Chains
  BY ZenonT(30) DEF Chains
<1>1. s.how = "once" /\ s.chain = x
  BY ZenonT(30), OtherFields
<1>2. Done(c, k2, s)
  BY SMTT(60), <1>1, QuietDone
<1>3. CASE k2 = k
  <2>1. k.there \subseteq Chains /\ k.rules \subseteq Prios /\ Shaped(k)
    BY ZenonT(30), KernelParts
  <2>. QED
    BY ZenonT(30), <1>2, <1>3, <2>1, BuildsFrom
<1>4. CASE k2 = Effect(k, InsertIn(x, s.rule))
  <2>1. ChainIs(k, k2, x, v)
    BY ZenonT(30), <1>0, <1>4, ChainEffects
  <2>2. IsSeq(v) /\ Range(v) = {s.rule} \cup Range(k.chain[x])
    BY ZenonT(30), <1>0, OneMore, KernelParts
  <2>. HIDE DEF v
  <2>3. \A q \in Range(v) : q \in Range(k.chain[x]) \/ Adds(s, x, q)
    BY ZenonT(30), <1>1, <2>2 DEF Adds
  <2>. QED
    BY ZenonT(30), <1>0, <1>2, <2>1, <2>2, <2>3, BuildsChain
<1>5. Insert(s) = InsertIn(x, s.rule)
  BY ZenonT(30), <1>1 DEF Insert, InsertIn
<1>. QED
  BY ZenonT(30), <1>1, <1>3, <1>4, <1>5 DEF Outcome

\* The quiet steps of the set-up.
LEMMA QuietStep ==
  ASSUME NEW s, (\E ch \in Chains : s = NewChain(ch)) \/ s = DelReturn \/ s = Quiet(Flush(returnTable))
  PROVE  s.how = "quiet"
<1>1. ASSUME NEW ch, s = NewChain(ch) PROVE s.how = "quiet"
  BY ZenonT(30), <1>1, QuietFields
<1>2. CASE s = DelReturn
  BY ZenonT(30), <1>2, OtherFields
<1>3. CASE s = Quiet(Flush(returnTable))
  BY ZenonT(30), <1>3, QuietFields
<1>. QED
  BY ZenonT(30), <1>1, <1>2, <1>3

\* Every step of the set-up builds.
LEMMA StepBuilds ==
  ASSUME NEW c, NEW k, KernelOK(k), NEW n \in 0 .. 4, NEW s, Group(n, c, s),
         s = OnceStep(c) => "HSH_INPUT" \in k.there, NEW k2, Outcome(k, s, k2)
  PROVE  Builds(c, k, s, k2)
<1>1. CASE s = Link
  <2>1. s.how = "must" /\ s.cmd.op = "link"
    BY ZenonT(30), <1>1, OtherFields
  <2>2. k2 = k
    BY ZenonT(30), <1>1, <2>1, RuleEffects DEF Outcome
  <2>3. Done(c, k2, s)
    BY ZenonT(30), <2>1 DEF Done
  <2>4. k.there \subseteq Chains /\ k.rules \subseteq Prios /\ Shaped(k)
    BY Zenon, KernelParts
  <2>. QED
    BY ZenonT(30), <2>2, <2>3, <2>4, BuildsFrom
<1>2. CASE (\E ch \in Chains : s = NewChain(ch)) \/ s = DelReturn \/ s = Quiet(Flush(returnTable))
  <2>1. s.how = "quiet"
    BY ZenonT(30), <1>2, QuietStep
  <2>. QED
    BY ZenonT(30), <1>2, <2>1, QuietBuilds DEF Outcome
<1>3. ASSUME NEW ch \in Chains, s = ResetFlush(ch) PROVE Builds(c, k, s, k2)
  <2>1. s.how = "must"
    BY ZenonT(30), <1>3, MustFields
  <2>2. k2 = Effect(k, ResetFlush(ch).cmd) /\ Works(k, ResetFlush(ch).cmd)
    BY ZenonT(30), <1>3, <2>1 DEF Outcome
  <2>. QED
    BY ZenonT(30), <1>3, <2>2, WorksFacts, ResetBuilds
<1>4. ASSUME NEW ch \in Chains, NEW u, s = HookStep(ch, u) PROVE Builds(c, k, s, k2)
  BY ZenonT(30), <1>4, HookBuilds
<1>5. ASSUME NEW p \in Prios, NEW u, s = Must(RuleAdd(p), u), p = 68 => s = AddReturn
      PROVE  Builds(c, k, s, k2)
  <2>1. s.how = "must"
    BY SMTT(60), <1>5, MustFields
  <2>2. k2 = Effect(k, s.cmd)
    BY ZenonT(30), <2>1 DEF Outcome
  <2>. QED
    BY ZenonT(30), <1>5, <2>2, RuleAddBuilds
<1>6. ASSUME NEW r, \/ s = AddRoute(r) /\ (r = BypassRoute \/ TunRoute(c, r, "setup"))
                    \/ s = PutRoute(r) /\ r = MainRoute(c) /\ TunRoute(c, r, "setup")
      PROVE  Builds(c, k, s, k2)
  <2>1. s.how = "must"
    BY SMTT(60), <1>6, RouteFields
  <2>2. k2 = Effect(k, s.cmd)
    BY Zenon, <2>1 DEF Outcome
  <2>. QED
    BY ZenonT(30), <1>6, <2>2, RouteAddBuilds
<1>7. ASSUME NEW u, RuleStep(c, s, u) PROVE Builds(c, k, s, k2)
  <2>. DEFINE x == s.cmd.chain
              r == s.cmd.rule
  <2>1. s = AddRule(x, r, u) /\ x \in Chains
    BY ZenonT(30), <1>7 DEF RuleStep
  <2>. HIDE DEF x, r
  <2>2. s.how = "must"
    BY SMTT(60), <2>1, MustFields
  <2>3. k2 = Effect(k, s.cmd) /\ x \in k.there
    BY ZenonT(30), <2>1, <2>2, WorksFacts DEF Outcome
  <2>. QED
    BY ZenonT(30), <2>1, <2>3, RuleStepBuilds
<1>8. CASE s = Error
  BY ZenonT(30), <1>8, OtherFields DEF Outcome
<1>9. CASE s = OnceStep(c)
  BY ZenonT(30), <1>9, OnceBuilds
<1>10. CASE First(c, s)
  <2>1. CASE \E ch \in Chains : s \in {NewChain(ch), ResetFlush(ch), HookStep(ch, "routing")}
    BY ZenonT(30), <1>2, <1>3, <1>4, <2>1
  <2>2. CASE s = Must(RuleAdd(66), "routing")
    <3>1. 66 \in Prios /\ 66 # 68
      BY DEF Prios
    <3>. QED
      BY ZenonT(30), <1>5, <2>2, <3>1
  <2>3. CASE s = AddRoute(DataRoute(c)) /\ c.role = "iran"
    <3>1. TunRoute(c, DataRoute(c), "setup")
      BY ZenonT(30), <2>3 DEF TunRoute, DataRoute
    <3>. QED
      BY ZenonT(30), <1>6, <2>3, <3>1
  <2>. QED
    BY ZenonT(30), <1>10, <2>1, <2>2, <2>3 DEF First
<1>11. CASE Middle(c, s)
  <2>1. CASE s = Must(RuleAdd(77), "routing")
    <3>1. 77 \in Prios /\ 77 # 68
      BY DEF Prios
    <3>. QED
      BY ZenonT(30), <1>5, <2>1, <3>1
  <2>2. CASE s = PutRoute(MainRoute(c)) /\ c.role = "kharej" /\ c.mode = "full" /\ c.ports # <<>>
    <3>1. TunRoute(c, MainRoute(c), "setup")
      BY ZenonT(30), <2>2 DEF TunRoute
    <3>. QED
      BY ZenonT(30), <1>6, <2>2, <3>1
  <2>3. CASE s = AddRoute(BypassRoute)
    BY ZenonT(30), <1>6, <2>3
  <2>4. CASE s \in {DelReturn, Quiet(Flush(returnTable))}
    BY ZenonT(30), <1>2, <2>4
  <2>. QED
    BY ZenonT(30), <1>7, <1>11, <2>1, <2>2, <2>3, <2>4 DEF Middle
<1>12. CASE Last(c, s)
  <2>1. s = AddReturn => s = Must(RuleAdd(68), "both")
    BY ZenonT(30) DEF AddReturn
  <2>. QED
    BY ZenonT(30), <1>2, <1>4, <1>5, <1>7, <1>8, <1>12, <2>1 DEF Last, Prios
<1>. QED
  BY ZenonT(30), <1>1, <1>9, <1>10, <1>11, <1>12 DEF Group

\* What the steps of the set-up look like, whatever their group.
LEMMA SetUpKind ==
  ASSUME NEW c, NEW n \in 0 .. 4, NEW s, Group(n, c, s)
  PROVE  /\ s.how \in {"quiet", "must", "hook", "once"}
         /\ s.how # "quiet" => s.undo \in {"none", "routing", "both", "policy"}
         /\ s.how = "must" =>
              /\ s.cmd.op = "rule_add" /\ s.cmd.prio = 68 => s = AddReturn
              /\ s.cmd.op \in {"route_add", "route_replace"} =>
                   s.cmd.route \in {DataRoute(c), BypassRoute, MainRoute(c)}
              /\ s.cmd.op = "-F" => s.cmd.chain \in Chains
              /\ s.cmd.op = "-A" => s.cmd.chain \in Chains /\ RuleOK(c, s.cmd.chain, s.cmd.rule)
         /\ s.how = "hook" => s.chain \in Chains
         /\ s.how = "once" => s = OnceStep(c)
<1>1. CASE s = Link \/ s = OnceStep(c) \/ s = Error \/ s = AddReturn
  BY ZenonT(30), <1>1, OtherFields
<1>2. CASE (\E ch \in Chains : s = NewChain(ch)) \/ s = DelReturn \/ s = Quiet(Flush(returnTable))
  <2>1. s.how = "quiet"
    BY Zenon, <1>2, QuietStep
  <2>. QED
    BY ZenonT(30), <2>1
<1>3. ASSUME NEW ch \in Chains, s = ResetFlush(ch) \/ s = HookStep(ch, "routing") \/ s = HookStep(ch, "both")
      PROVE  /\ s.how \in {"must", "hook"} /\ s.undo \in {"none", "routing", "both", "policy"}
             /\ s.how = "must" => s.cmd.op = "-F" /\ s.cmd.chain \in Chains
             /\ s.how = "hook" => s.chain \in Chains
  <2>1. CASE s = ResetFlush(ch)
    BY SMTT(60), <2>1, MustFields
  <2>2. CASE s = HookStep(ch, "routing")
    BY SMTT(60), <2>2, HookFields
  <2>3. CASE s = HookStep(ch, "both")
    BY SMTT(60), <2>3, HookFields
  <2>. QED
    BY ZenonT(30), <1>3, <2>1, <2>2, <2>3
<1>4. CASE s = Must(RuleAdd(66), "routing") \/ s = Must(RuleAdd(77), "routing")
  BY SMTT(60), <1>4, MustFields
<1>5. CASE \/ s = AddRoute(DataRoute(c)) \/ s = AddRoute(BypassRoute) \/ s = PutRoute(MainRoute(c))
  BY SMTT(60), <1>5, RouteFields
<1>6. CASE RuleStep(c, s, "routing") \/ RuleStep(c, s, "policy")
  <2>. DEFINE x == s.cmd.chain
              r == s.cmd.rule
  <2>1. PICK u \in {"routing", "policy"} : s = AddRule(x, r, u)
    BY ZenonT(30), <1>6 DEF RuleStep
  <2>2. x \in Chains /\ RuleOK(c, x, r)
    BY ZenonT(30), <1>6 DEF RuleStep
  <2>. HIDE DEF x, r
  <2>3. s.how = "must" /\ s.cmd.op = "-A" /\ s.undo = u
    BY SMTT(60), <2>1, MustFields
  <2>. QED
    BY ZenonT(30), <2>2, <2>3 DEF x, r
<1>. QED
  BY ZenonT(30), <1>1, <1>2, <1>3, <1>4, <1>5, <1>6 DEF Group, First, Middle, Last

\* What has been done stays done, unless the next step is too late.
LEMMA DoneKept ==
  ASSUME NEW c, NEW k, NEW k2, NEW n \in 0 .. 4, NEW s, Group(n, c, s), Done(c, k, s),
         NEW h \in Range(SetUp(c)), KernelOK(k), Builds(c, k, h, k2), ~TooLate(s, h)
  PROVE  Done(c, k2, s)
<1>0. k.jumps \in [Chains -> Nat] /\ k2.jumps \in [Chains -> Nat]
  BY ZenonT(30), KernelParts DEF Builds
<1>1. ASSUME s.how = "must", s.cmd.op = "rule_add" PROVE s.cmd.prio \in k2.rules
  <2>1. s.cmd.prio = 68 => h # DelReturn
    BY ZenonT(30), <1>1, SetUpKind DEF TooLate
  <2>. QED
    BY ZenonT(30), <1>1, <2>1 DEF Builds, Done
<1>2. ASSUME s.how = "must", s.cmd.op \in {"route_add", "route_replace"} PROVE s.cmd.route \in k2.routes
  BY SMTT(60), <1>2, SetUpKind DEF Builds, Done
<1>3. ASSUME s.how = "must", s.cmd.op = "-A" PROVE s.cmd.rule \in Range(k2.chain[s.cmd.chain])
  <2>1. s.cmd.chain \in Chains
    BY ZenonT(30), <1>3, SetUpKind
  <2>2. h # ResetFlush(s.cmd.chain)
    <3>1. s.how # "once"
      BY ZenonT(30), <1>3
    <3>. QED
      BY ZenonT(30), <1>3, <2>1, <3>1 DEF TooLate
  <2>. QED
    BY ZenonT(30), <1>3, <2>1, <2>2 DEF Builds, Done
<1>4. ASSUME s.how = "must", s.cmd.op = "-F", NEW r \in Range(k2.chain[s.cmd.chain])
      PROVE  Mine(c, s.cmd.chain, r)
  <2>1. s.cmd.chain \in Chains
    BY ZenonT(30), <1>4, SetUpKind
  <2>2. r \in Range(k.chain[s.cmd.chain]) \/ Adds(h, s.cmd.chain, r)
    BY ZenonT(30), <1>4, <2>1 DEF Builds
  <2>3. r \in Range(k.chain[s.cmd.chain]) => Mine(c, s.cmd.chain, r)
    BY ZenonT(30), <1>4 DEF Done
  <2>. QED
    BY ZenonT(30), <2>2, <2>3 DEF Mine
<1>5. ASSUME s.how = "hook" PROVE k2.jumps[s.chain] > 0
  <2>1. s.chain \in Chains
    BY ZenonT(30), <1>5, SetUpKind
  <2>2. k.jumps[s.chain] > 0 /\ k.jumps[s.chain] <= k2.jumps[s.chain]
    BY ZenonT(30), <1>5, <2>1 DEF Builds, Done
  <2>3. k.jumps[s.chain] \in Nat /\ k2.jumps[s.chain] \in Nat
    BY ZenonT(30), <1>0, <2>1
  <2>. QED
    BY SMTT(60), <2>2, <2>3
<1>. QED
  BY ZenonT(30), <1>1, <1>2, <1>3, <1>4, <1>5 DEF Done

\* The marks of the chain that every emitted packet meets.
LEMMA MarksKept ==
  ASSUME NEW c, NEW k, NEW k2, NEW n \in 0 .. 4, NEW h, Group(n, c, h), Builds(c, k, h, k2), MarksOK(k)
  PROVE  MarksOK(k2)
<1>. SUFFICES ASSUME NEW r \in Range(k2.chain["HSH_MOUT"]), r.target = "MARK"
              PROVE  r.arg = returnMark /\ "mark" \in DOMAIN r.match /\ r.match["mark"] = {0}
  BY Zenon DEF MarksOK
<1>1. r \in Range(k.chain["HSH_MOUT"]) \/ Adds(h, "HSH_MOUT", r)
  BY ZenonT(30) DEF Builds, Chains
<1>2. CASE r \in Range(k.chain["HSH_MOUT"])
  BY ZenonT(30), <1>2 DEF MarksOK
<1>3. CASE Adds(h, "HSH_MOUT", r)
  <2>1. h.how # "once" \/ h.chain = "HSH_INPUT"
    BY SMTT(60), SetUpKind, OtherFields
  <2>2. h.how = "must" /\ h.cmd.op = "-A" /\ h.cmd.chain = "HSH_MOUT" /\ h.cmd.rule = r
    BY ZenonT(30), <1>3, <2>1 DEF Adds
  <2>3. RuleOK(c, "HSH_MOUT", r)
    BY ZenonT(30), <2>2, SetUpKind
  <2>. QED
    BY ZenonT(30), <2>3 DEF RuleOK
<1>. QED
  BY ZenonT(30), <1>1, <1>2, <1>3

----------------------------------------------------------------------------
(* A command of a script, in the invariant.                                *)

\* The file that the process has loaded is a good one.
LEMMA Loaded ==
  ASSUME NEW n \in DOMAIN Files, Loadable(n)
  PROVE  ConfigOK(Config(n))
  BY ZenonT(30), RoutingAssumption DEF Loadable, Accepts, Config, ConfigOK, LoadConfig

\* A step of the set-up is through.
LEMMA SetUpStep ==
  ASSUME RoutingInvariant, phase = "setup", todo # <<>>, Outcome(kernel, Head(todo), kernel'),
         todo' = Tail(todo), flawed => flawed', swept' = FALSE, UNCHANGED <<phase, diskVars, cfg, carrier>>
  PROVE  RoutingInvariant'
<1>. DEFINE c == Config(cfg)
            h == Head(todo)
            S == Range(SetUp(c))
<1>0. /\ ControlOK /\ KernelOK(kernel) /\ MarksOK(kernel) /\ RoutesOK /\ SetUpOK /\ RollBackOK
      /\ phase' = "setup" /\ todo' = Tail(todo) /\ (flawed => flawed') /\ cfg' = cfg /\ Config(cfg)' = c
      /\ file' = file /\ edits' = edits /\ carrier' = carrier
  BY ZenonT(30) DEF RoutingInvariant, diskVars, Config
<1>1. ConfigOK(c)
  BY ZenonT(30), <1>0, Loaded DEF ControlOK
<1>2. /\ IsSeq(Tail(todo)) /\ Range(todo) = {h} \cup Range(Tail(todo)) /\ Ordered(Tail(todo))
      /\ \A t \in Range(Tail(todo)) : ~TooLate(h, t)
  BY ZenonT(30), <1>0, TailFacts DEF ControlOK
<1>3. h \in S /\ Range(Tail(todo)) \subseteq S
  BY ZenonT(30), <1>0, <1>2 DEF SetUpOK
<1>4. SetUpShape(c, SetUp(c))
  BY ZenonT(30), <1>1, SetUpHasShape
<1>5. \A s \in S : \E n \in 0 .. 4 : Group(n, c, s)
  BY ZenonT(30), <1>4 DEF SetUpShape, Span
<1>6. \A s \in S : s \in {h} \cup Range(Tail(todo)) \/ (Done(c, kernel, s) /\ ~TooLate(s, h) /\ \A t \in Range(Tail(todo)) : ~TooLate(s, t))
  BY ZenonT(30), <1>0, <1>2 DEF SetUpOK
<1>. HIDE DEF S, c
<1>7. h = OnceStep(c) => "HSH_INPUT" \in kernel.there
  <2>. DEFINE t == HookStep("HSH_INPUT", "both")
  <2>1. SUFFICES ASSUME h = OnceStep(c) PROVE "HSH_INPUT" \in kernel.there
    BY Zenon
  <2>2. t \in S
    BY ZenonT(30), <1>3, <1>4, <2>1 DEF SetUpShape, S
  <2>3. t.how = "hook" /\ t.chain = "HSH_INPUT" /\ h.how = "once" /\ h.chain = "HSH_INPUT"
    <3>1. t.how = "hook" /\ t.chain = "HSH_INPUT"
      BY HookFields
    <3>2. h.how = "once" /\ h.chain = "HSH_INPUT"
      BY ZenonT(30), <2>1, OtherFields
    <3>. QED
      BY ZenonT(30), <3>1, <3>2
  <2>. HIDE DEF t, h
  <2>4. t # h /\ TooLate(h, t)
    BY ZenonT(30), <2>3 DEF TooLate
  <2>5. Done(c, kernel, t)
    BY ZenonT(30), <1>2, <1>6, <2>2, <2>4
  <2>6. kernel.jumps["HSH_INPUT"] > 0
    BY ZenonT(30), <2>3, <2>5 DEF Done
  <2>7. "HSH_INPUT" \in Chains /\ ("HSH_INPUT" \notin kernel.there => kernel.jumps["HSH_INPUT"] = 0)
    BY ZenonT(30), <1>0, KernelParts DEF Chains
  <2>. QED
    BY SMTT(60), <2>6, <2>7
<1>8. PICK n \in 0 .. 4 : Group(n, c, h)
  BY ZenonT(30), <1>3, <1>5
<1>9. Builds(c, kernel, h, kernel')
  BY ZenonT(30), <1>0, <1>7, <1>8, StepBuilds
<1>. HIDE DEF h
<1>10. KernelOK(kernel') /\ MarksOK(kernel')
  <2>1. MarksOK(kernel')
    BY ZenonT(30), <1>0, <1>8, <1>9, MarksKept
  <2>. QED
    BY ZenonT(30), <1>9, <2>1 DEF Builds
<1>11. ControlOK'
  BY SMTT(60), <1>0, <1>2 DEF ControlOK, Loadable
<1>12. RoutesOK'
  <2>1. ASSUME NEW r \in kernel'.routes PROVE r = BypassRoute \/ TunRoute(c, r, "setup")
    BY ZenonT(30), <1>0, <1>9 DEF Builds, RoutesOK, c
  <2>. QED
    BY ZenonT(30), <1>0, <2>1 DEF RoutesOK
<1>13. SetUpOK'
  <2>1. ASSUME NEW s \in S
        PROVE  \/ s \in Range(Tail(todo))
               \/ Done(c, kernel', s) /\ \A t \in Range(Tail(todo)) : ~TooLate(s, t)
    <3>1. CASE s = h
      BY ZenonT(30), <1>2, <1>9, <3>1 DEF Builds
    <3>2. CASE Done(c, kernel, s) /\ ~TooLate(s, h) /\ \A t \in Range(Tail(todo)) : ~TooLate(s, t)
      <4>1. PICK m \in 0 .. 4 : Group(m, c, s)
        BY Zenon, <1>5
      <4>2. Done(c, kernel', s)
        BY ZenonT(30), <1>0, <1>3, <1>9, <3>2, <4>1, DoneKept DEF S
      <4>. QED
        BY ZenonT(30), <3>2, <4>2
    <3>. QED
      BY ZenonT(30), <1>6, <3>1, <3>2
  <2>. QED
    BY ZenonT(30), <1>0, <1>3, <2>1 DEF SetUpOK, S, c
<1>14. RollBackOK'
  <2>1. ~\E s \in Range(Tail(todo)) : Undo(s) = "none"
    BY ZenonT(30), <1>2 DEF TooLate
  <2>2. ASSUME ~flawed, NEW s \in Range(Tail(todo)), Undo(s) = "routing" PROVE 68 \notin kernel'.rules
    <3>1. 68 \notin kernel.rules
      BY ZenonT(30), <1>0, <1>2, <2>2 DEF RollBackOK
    <3>2. h # AddReturn
      BY ZenonT(30), <1>2, <2>2 DEF TooLate
    <3>. QED
      BY ZenonT(30), <1>9, <3>1, <3>2 DEF Builds
  <2>. QED
    BY ZenonT(30), <1>0, <2>1, <2>2 DEF RollBackOK
<1>15. CleanupOK' /\ CleanupLeavesNothing'
  BY ZenonT(30), <1>0 DEF CleanupOK, Cleaning, CleanupLeavesNothing
<1>. QED
  BY ZenonT(30), <1>10, <1>11, <1>12, <1>13, <1>14, <1>15 DEF RoutingInvariant

\* A checked step of the set-up has failed: the roll-back covers what is there.
LEMMA SetUpFails ==
  ASSUME RoutingInvariant, phase = "setup", todo # <<>>, Head(todo).how # "quiet", Fail(Head(todo)),
         swept' = FALSE, UNCHANGED <<kernel, diskVars, cfg, carrier>>
  PROVE  RoutingInvariant'
<1>. DEFINE c == Config(cfg)
            h == Head(todo)
            b == RollBack(c, h.undo)
<1>0. /\ ControlOK /\ KernelOK(kernel) /\ MarksOK(kernel) /\ RoutesOK /\ SetUpOK /\ RollBackOK
      /\ phase' = "rollback" /\ todo' = b /\ (flawed' <=> flawed) /\ cfg' = cfg /\ Config(cfg)' = c
      /\ file' = file /\ edits' = edits /\ carrier' = carrier /\ kernel' = kernel
  BY ZenonT(30) DEF RoutingInvariant, Fail, Begin, diskVars, Config
<1>1. ConfigOK(c)
  BY ZenonT(30), <1>0, Loaded DEF ControlOK
<1>2. h \in Range(todo) /\ h \in Range(SetUp(c))
  BY ZenonT(30), <1>0, TailFacts DEF ControlOK, SetUpOK
<1>3. PICK n \in 0 .. 4 : Group(n, c, h)
  BY ZenonT(30), <1>1, <1>2, SetUpHasShape DEF SetUpShape, Span
<1>4. h.how \in {"must", "hook", "once"} /\ h.undo \in {"none", "routing", "both", "policy"}
  BY ZenonT(30), <1>3, SetUpKind
<1>5. Undo(h) = h.undo
  BY ZenonT(30), <1>4 DEF Undo
<1>6. \A r \in kernel.routes : \/ r.table \in {dataTable, transportTable}
                               \/ r = MainRoute(c) /\ c.role = "kharej" /\ c.net.iran # ""
  BY ZenonT(30), <1>0, <1>1, KnownRoutes DEF RoutesOK
<1>. HIDE DEF c, h
<1>7. /\ IsSeq(b) /\ Ordered(b) /\ \A t \in Range(b) : CleanStep(c, t)
      /\ ~flawed => Covered(kernel, Range(b))
  <2>1. CASE h.undo = "none"
    <3>1. b = <<>> /\ IsSeq(b) /\ Range(b) = {} /\ Len(b) = 0
      BY ZenonT(30), <2>1, CleanUpCleans, NoSteps
    <3>2. ~flawed => Covered(kernel, {})
      BY ZenonT(30), <1>0, <1>2, <1>5, <2>1, NothingLeft DEF RollBackOK
    <3>. QED
      BY SMTT(60), <3>1, <3>2 DEF Ordered
  <2>2. CASE h.undo = "routing"
    <3>. DEFINE P == {66, 77}
                T == {dataTable, transportTable}
    <3>1. Cleans(c, b, P, T)
      BY ZenonT(30), <2>2, CleanUpCleans
    <3>2. ~flawed => kernel.rules \subseteq P
      <4>1. kernel.rules \subseteq Prios
        BY ZenonT(30), <1>0, KernelParts
      <4>2. ~flawed => 68 \notin kernel.rules
        BY ZenonT(30), <1>0, <1>2, <1>5, <2>2 DEF RollBackOK
      <4>. QED
        BY SMTT(60), <4>1, <4>2 DEF Prios
    <3>. HIDE DEF b, P
    <3>4. \A r \in kernel.routes : \/ r.table \in T
                                   \/ r = MainRoute(c) /\ c.role = "kharej" /\ c.net.iran # ""
      BY Zenon, <1>6
    <3>. HIDE DEF T
    <3>3. ~flawed => Covered(kernel, Range(b))
      BY ZenonT(30), <1>0, <3>1, <3>2, <3>4, CleansCover
    <3>. QED
      BY Zenon, <3>1, <3>3 DEF Cleans
  <2>3. CASE h.undo \in {"both", "policy"}
    <3>1. Cleans(c, b, Prios, Tables)
      BY ZenonT(30), <2>3, CleanUpCleans
    <3>. HIDE DEF b
    <3>2. kernel.rules \subseteq Prios
      BY ZenonT(30), <1>0, KernelParts
    <3>3. \A r \in kernel.routes : \/ r.table \in Tables
                                   \/ r = MainRoute(c) /\ c.role = "kharej" /\ c.net.iran # ""
      BY ZenonT(30), <1>6 DEF Tables
    <3>. QED
      BY ZenonT(30), <1>0, <3>1, <3>2, <3>3, CleansCover
  <2>. QED
    BY ZenonT(30), <1>4, <2>1, <2>2, <2>3
<1>. HIDE DEF b
<1>8. ControlOK'
  BY SMTT(60), <1>0, <1>7 DEF ControlOK, Loadable
<1>9. RoutesOK'
  BY Zenon, <1>0 DEF RoutesOK, TunRoute
<1>10. CleanupOK'
  BY ZenonT(30), <1>0, <1>7 DEF CleanupOK, Cleaning, c
<1>. QED
  BY ZenonT(30), <1>0, <1>8, <1>9, <1>10 DEF RoutingInvariant, RollBackOK, SetUpOK, CleanupLeavesNothing

\* A step of a cleanup: it is done, or skipped after a failure, or the jump is
\* deleted once more.
CleanOutcome(s) ==
  \/ Smaller(kernel', kernel) /\ Removed(kernel, kernel', s) /\ Advance
  \/ kernel' = kernel /\ todo' = Tail(todo) /\ phase' = phase /\ flawed' = TRUE
  \/ Smaller(kernel', kernel) /\ UNCHANGED <<todo, phase, flawed>>

\* A command of a cleanup keeps the invariant, whether it works or not.
LEMMA CleanupStep ==
  ASSUME RoutingInvariant, Cleaning, todo # <<>>, CleanOutcome(Head(todo)),
         swept' = FALSE, UNCHANGED <<diskVars, cfg, carrier>>
  PROVE  RoutingInvariant'
<1>. DEFINE c == Config(cfg)
            h == Head(todo)
<1>0. /\ ControlOK /\ KernelOK(kernel) /\ MarksOK(kernel) /\ RoutesOK /\ CleanupOK
      /\ phase' = phase /\ cfg' = cfg /\ Config(cfg)' = c
      /\ file' = file /\ edits' = edits /\ carrier' = carrier /\ phase \notin {"off", "setup", "up"}
  BY ZenonT(30) DEF RoutingInvariant, CleanOutcome, Advance, diskVars, Config, Cleaning
<1>1. /\ IsSeq(Tail(todo)) /\ Range(todo) = {h} \cup Range(Tail(todo)) /\ Ordered(Tail(todo))
      /\ \A t \in Range(Tail(todo)) : ~TooLate(h, t)
  BY ZenonT(30), <1>0, TailFacts DEF ControlOK
<1>2. Smaller(kernel', kernel)
  BY ZenonT(30), <1>0, SmallerItself DEF CleanOutcome
<1>3. KernelOK(kernel') /\ MarksOK(kernel')
  BY ZenonT(30), <1>0, <1>2, SmallerKernel
<1>4. RoutesOK'
  <2>1. kernel'.routes \subseteq kernel.routes
    BY ZenonT(30), <1>2 DEF Smaller
  <2>. QED
    BY ZenonT(30), <1>0, <2>1 DEF RoutesOK
<1>5. \/ todo' = Tail(todo) /\ (flawed' = TRUE \/ (flawed' = flawed /\ Removed(kernel, kernel', h)))
      \/ todo' = todo /\ flawed' = flawed
  BY ZenonT(30) DEF CleanOutcome, Advance
<1>6. IsSeq(todo') /\ Ordered(todo') /\ Range(todo') \subseteq Range(todo)
  BY ZenonT(30), <1>0, <1>1, <1>5 DEF ControlOK
<1>7. ControlOK'
  BY SMTT(60), <1>0, <1>6 DEF ControlOK, Loadable
<1>8. ~flawed' => Covered(kernel', Range(todo'))
  <2>1. CASE todo' = todo /\ flawed' = flawed
    BY ZenonT(30), <1>0, <1>2, <2>1, CoveredSmaller DEF CleanupOK
  <2>2. CASE todo' = Tail(todo) /\ flawed' = flawed /\ Removed(kernel, kernel', h)
    BY SMTT(60), <1>0, <1>1, <1>2, <2>2, CoveredNext DEF CleanupOK
  <2>. QED
    BY ZenonT(30), <1>5, <2>1, <2>2
<1>9. CleanupOK'
  BY Zenon, <1>0, <1>6, <1>8 DEF CleanupOK, Cleaning
<1>. QED
  BY ZenonT(30), <1>0, <1>3, <1>4, <1>7, <1>9 DEF RoutingInvariant, RollBackOK, SetUpOK, CleanupLeavesNothing
============================================================================

---------------------------- MODULE RoutingProofs ----------------------------
(***************************************************************************)
(* RoutingInvariant holds in every state of Routing, whatever the files    *)
(* are. From it: a cleanup leaves nothing, and, packet by packet, the      *)
(* carrier avoids the tunnel, unrelated traffic stays direct and locked    *)
(* ports are closed.                                                       *)
(***************************************************************************)
EXTENDS RoutingKernel

----------------------------------------------------------------------------
(* The actions of Routing.                                                 *)

\* The head of a script.
LEMMA HeadStep ==
  ASSUME RoutingInvariant, todo # <<>>
  PROVE  /\ phase = "setup" \/ Cleaning
         /\ phase = "setup" => /\ Head(todo).how \in {"quiet", "must", "hook", "once"}
         /\ Cleaning => CleanStep(Config(cfg), Head(todo))
         /\ KernelOK(kernel)
<1>0. ControlOK /\ CleanupOK /\ SetUpOK /\ KernelOK(kernel)
  BY Zenon DEF RoutingInvariant
<1>1. phase = "setup" \/ Cleaning
  BY ZenonT(30), <1>0 DEF ControlOK, Cleaning
<1>2. Head(todo) \in Range(todo)
  BY ZenonT(30), <1>0, TailFacts DEF ControlOK
<1>3. ASSUME phase = "setup" PROVE Head(todo).how \in {"quiet", "must", "hook", "once"}
  <2>1. ConfigOK(Config(cfg)) /\ Head(todo) \in Range(SetUp(Config(cfg)))
    BY ZenonT(30), <1>0, <1>2, <1>3, Loaded DEF ControlOK, SetUpOK
  <2>2. PICK n \in 0 .. 4 : Group(n, Config(cfg), Head(todo))
    BY ZenonT(30), <2>1, SetUpHasShape DEF SetUpShape, Span
  <2>. QED
    BY ZenonT(30), <2>2, SetUpKind
<1>4. Cleaning => CleanStep(Config(cfg), Head(todo))
  BY ZenonT(30), <1>0, <1>2 DEF CleanupOK
<1>. QED
  BY ZenonT(30), <1>0, <1>1, <1>3, <1>4

\* The two kinds of steps of a cleanup.
LEMMA CleanKind ==
  ASSUME NEW c, NEW s, CleanStep(c, s)
  PROVE  s.how = "quiet" \/ \E ch \in Chains : s = Unhook(ch) /\ s.how = "unhook" /\ s.chain = ch
<1>1. s = Quiet([op |-> "route_del", route |-> MainRoute(c)]) => s.how = "quiet"
  BY DEF Quiet
<1>. QED
  BY SMTT(60), <1>1, QuietFields, HookFields DEF CleanStep

\* The loop of deleteChain: each turn removes a jump, and it ends when none is
\* left.
LEMMA UnhookEffect ==
  ASSUME NEW k, KernelOK(k), NEW ch \in Chains
  PROVE  /\ k.jumps[ch] > 0 => Smaller(Effect(k, Unjump(ch)), k)
         /\ ~(k.jumps[ch] > 0) => Smaller(k, k) /\ Removed(k, k, Unhook(ch))
<1>1. k.jumps[ch] > 0 => Smaller(Effect(k, Unjump(ch)), k)
  BY Zenon, JumpEffects, SmallerJumps
<1>2. ASSUME ~(k.jumps[ch] > 0) PROVE Removed(k, k, Unhook(ch))
  <2>1. k.jumps \in [Chains -> Nat]
    BY ZenonT(30), KernelParts
  <2>2. k.jumps[ch] = 0
    BY SMTT(60), <1>2, <2>1
  <2>. QED
    <3>. DEFINE u == Unhook(ch)
    <3>1. u.how = "unhook" /\ \A x \in Chains : u = Unhook(x) => x = ch
      BY SMTT(60), HookFields
    <3>. HIDE DEF u
    <3>2. Removed(k, k, u)
      BY SMTT(60), <2>2, <3>1, QuietFields, RouteFields DEF Removed
    <3>. QED
      BY ZenonT(30), <3>2 DEF u
<1>. QED
  BY ZenonT(30), <1>1, <1>2, SmallerItself

\* The next command of any script, done, keeps the invariant.
LEMMA StepKeeps ==
  ASSUME RoutingInvariant, Step
  PROVE  RoutingInvariant'
<1>. DEFINE h == Head(todo)
<1>0. /\ todo # <<>> /\ Perform(h) /\ swept' = FALSE /\ UNCHANGED <<diskVars, cfg, carrier>>
  BY ZenonT(30) DEF Step
<1>1. CASE phase = "setup"
  <2>1. h.how \in {"quiet", "must", "hook", "once"}
    BY ZenonT(30), <1>0, <1>1, HeadStep
  <2>. HIDE DEF h
  <2>2. \/ Outcome(kernel, h, kernel') /\ todo' = Tail(todo) /\ UNCHANGED <<phase, flawed>>
        \/ h.how # "quiet" /\ UNCHANGED kernel /\ Fail(h)
    <3>1. CASE h.how = "quiet"
      BY ZenonT(30), <1>0, <3>1 DEF Perform, Outcome, Advance
    <3>2. CASE h.how = "must"
      BY Zenon, <1>0, <3>2 DEF Perform, Outcome, Advance
    <3>3. CASE h.how = "hook"
      BY ZenonT(30), <1>0, <3>3 DEF Perform, Outcome, Advance
    <3>4. CASE h.how = "once"
      BY ZenonT(30), <1>0, <3>4 DEF Perform, Outcome, Advance
    <3>. QED
      BY ZenonT(30), <2>1, <3>1, <3>2, <3>3, <3>4
  <2>3. ASSUME Outcome(kernel, h, kernel'), todo' = Tail(todo), UNCHANGED <<phase, flawed>>
        PROVE  RoutingInvariant'
    BY ZenonT(30), <1>0, <1>1, <2>3, SetUpStep DEF h
  <2>4. ASSUME h.how # "quiet", UNCHANGED kernel, Fail(h) PROVE RoutingInvariant'
    BY ZenonT(30), <1>0, <1>1, <2>4, SetUpFails DEF h
  <2>. QED
    BY ZenonT(30), <2>2, <2>3, <2>4
<1>2. CASE Cleaning
  <2>1. CleanStep(Config(cfg), h) /\ KernelOK(kernel)
    BY Zenon, <1>0, <1>2, HeadStep
  <2>. HIDE DEF h
  <2>2. CleanOutcome(h)
    <3>1. CASE h.how = "quiet"
      <4>1. kernel' = Exec(kernel, h.cmd) /\ Advance
        BY ZenonT(30), <1>0, <3>1 DEF Perform
      <4>. QED
        BY Zenon, <2>1, <3>1, <4>1, QuietCleanEffect DEF CleanOutcome
    <3>2. ASSUME NEW ch \in Chains, h = Unhook(ch), h.how = "unhook", h.chain = ch
          PROVE  CleanOutcome(h)
      <4>1. \/ /\ kernel.jumps[ch] > 0 /\ kernel' = Effect(kernel, Unjump(ch))
               /\ UNCHANGED <<todo, phase, flawed>>
            \/ ~(kernel.jumps[ch] > 0) /\ kernel' = kernel /\ Advance
        BY ZenonT(30), <1>0, <3>2 DEF Perform, Unjump
      <4>. QED
        BY ZenonT(30), <2>1, <3>2, <4>1, UnhookEffect DEF CleanOutcome
    <3>. QED
      BY ZenonT(30), <2>1, <3>1, <3>2, CleanKind
  <2>. QED
    BY ZenonT(30), <1>0, <1>2, <2>2, CleanupStep DEF h
<1>. QED
  BY ZenonT(30), <1>0, <1>1, <1>2, HeadStep

\* So does the next command, failed, with the roll-back it calls for.
LEMMA StepFailsKeeps ==
  ASSUME RoutingInvariant, StepFails
  PROVE  RoutingInvariant'
<1>. DEFINE h == Head(todo)
<1>0. /\ todo # <<>> /\ Mishap(h) /\ swept' = FALSE /\ UNCHANGED <<diskVars, cfg, carrier>>
  BY ZenonT(30) DEF StepFails
<1>1. CASE phase = "setup"
  <2>1. h.how \in {"quiet", "must", "hook", "once"}
    BY Zenon, <1>0, <1>1, HeadStep
  <2>. HIDE DEF h
  <2>2. \/ /\ Outcome(kernel, h, kernel') /\ todo' = Tail(todo) /\ phase' = phase
           /\ flawed' = flawed \/ flawed' = TRUE
        \/ h.how # "quiet" /\ UNCHANGED kernel /\ Fail(h)
    <3>1. CASE h.how = "quiet"
      BY ZenonT(30), <1>0, <3>1 DEF Mishap, Outcome, Advance
    <3>2. CASE h.how = "must"
      BY ZenonT(30), <1>0, <3>2 DEF Mishap, Outcome, Advance
    <3>3. CASE h.how = "hook"
      BY ZenonT(30), <1>0, <3>3 DEF Mishap, Outcome, Advance
    <3>4. CASE h.how = "once"
      BY ZenonT(30), <1>0, <3>4 DEF Mishap, Outcome, Advance
    <3>. QED
      BY ZenonT(30), <2>1, <3>1, <3>2, <3>3, <3>4
  <2>3. ASSUME Outcome(kernel, h, kernel'), todo' = Tail(todo), phase' = phase,
               flawed' = flawed \/ flawed' = TRUE
        PROVE  RoutingInvariant'
    <3>1. flawed => flawed'
      BY ZenonT(30), <2>3
    <3>2. UNCHANGED <<phase, diskVars, cfg, carrier>>
      BY ZenonT(30), <1>0, <2>3
    <3>. QED
      BY ZenonT(30), <1>0, <1>1, <2>3, <3>1, <3>2, SetUpStep DEF h
  <2>4. ASSUME h.how # "quiet", UNCHANGED kernel, Fail(h) PROVE RoutingInvariant'
    BY Zenon, <1>0, <1>1, <2>4, SetUpFails DEF h
  <2>. QED
    BY ZenonT(30), <2>2, <2>3, <2>4
<1>2. CASE Cleaning
  <2>1. CleanStep(Config(cfg), h)
    BY ZenonT(30), <1>0, <1>2, HeadStep
  <2>. HIDE DEF h
  <2>2. h.how \in {"quiet", "unhook"}
    BY ZenonT(30), <2>1, CleanKind
  <2>3. CleanOutcome(h)
    BY ZenonT(30), <1>0, <2>2 DEF Mishap, CleanOutcome
  <2>. QED
    BY Zenon, <1>0, <1>2, <2>3, CleanupStep DEF h
<1>. QED
  BY Zenon, <1>0, <1>1, <1>2, HeadStep

\* A whole cleanup covers whatever the invariant allows.
LEMMA CleanUpCovers ==
  ASSUME NEW k, KernelOK(k), NEW c,
         \A r \in k.routes : \/ r.table \in Tables
                             \/ r = MainRoute(c) /\ c.role = "kharej" /\ c.net.iran # ""
  PROVE  /\ Covered(k, Range(CleanUp(c))) /\ IsSeq(CleanUp(c)) /\ Ordered(CleanUp(c))
         /\ \A t \in Range(CleanUp(c)) : CleanStep(c, t)
<1>1. Cleans(c, CleanUp(c), Prios, Tables)
  BY ZenonT(30), CleanUpCleans
<1>2. k.rules \subseteq Prios
  BY ZenonT(30), KernelParts
<1>. QED
  BY ZenonT(30), <1>1, <1>2, CleansCover

\* A cleanup begins.
LEMMA CleanupBegins ==
  ASSUME RoutingInvariant, NEW p \in {"clean", "undo", "post"}, Begin(p, CleanUp(Config(cfg'))),
         KernelOK(kernel'), MarksOK(kernel'), RoutesOK',
         file' \in DOMAIN Files, edits' \in Seq(DOMAIN Files), cfg' \in DOMAIN Files, Loadable(cfg'),
         carrier' = FALSE,
         swept' => p \in {"clean", "post"} /\ kernel' = Empty
  PROVE  RoutingInvariant'
<1>. DEFINE c == Config(cfg')
<1>0. phase' = p /\ todo' = CleanUp(c) /\ Config(cfg)' = c
  BY Zenon DEF Begin, Config
<1>1. ConfigOK(c)
  BY ZenonT(30), Loaded
<1>2. \A r \in kernel'.routes : \/ r.table \in Tables
                                \/ r = MainRoute(c) /\ c.role = "kharej" /\ c.net.iran # ""
  BY ZenonT(30), <1>0, <1>1, KnownRoutes DEF RoutesOK, Tables
<1>3. /\ Covered(kernel', Range(todo')) /\ IsSeq(todo') /\ Ordered(todo')
      /\ \A t \in Range(todo') : CleanStep(c, t)
  BY ZenonT(30), <1>0, <1>2, CleanUpCovers
<1>. HIDE DEF c
<1>4. ControlOK'
  BY Zenon, <1>0, <1>3 DEF ControlOK, Loadable
<1>5. CleanupOK'
  BY ZenonT(30), <1>0, <1>3 DEF CleanupOK
<1>. QED
  BY ZenonT(30), <1>0, <1>4, <1>5 DEF RoutingInvariant, RollBackOK, SetUpOK, CleanupLeavesNothing

\* A cleanup is through.
LEMMA CleanupEnds ==
  ASSUME RoutingInvariant, Cleaning, todo = <<>>, ~flawed
  PROVE  kernel = Empty
<1>1. Range(todo) = {}
  BY ZenonT(30), NoSteps
<1>. QED
  BY ZenonT(30), <1>1, NothingLeft DEF RoutingInvariant, CleanupOK

\* The kernel after the tunnel device, and the routes through it, are gone.
LEMMA TunGone ==
  ASSUME RoutingInvariant, phase # "off"
  PROVE  /\ KernelOK(WithoutTun(kernel)) /\ MarksOK(WithoutTun(kernel))
         /\ \A r \in WithoutTun(kernel).routes : r = BypassRoute
<1>0. ControlOK /\ KernelOK(kernel) /\ MarksOK(kernel) /\ RoutesOK
  BY ZenonT(30) DEF RoutingInvariant
<1>1. RoutesAre(kernel, WithoutTun(kernel), PublicRoutes(kernel))
  BY ZenonT(30), <1>0, RouteEffects
<1>2. /\ PublicRoutes(kernel) \subseteq kernel.routes
      /\ \A r \in PublicRoutes(kernel) : r.dev # "tun"
  BY ZenonT(30) DEF PublicRoutes
<1>3. Smaller(WithoutTun(kernel), kernel) /\ WithoutTun(kernel).routes = PublicRoutes(kernel)
  BY ZenonT(30), <1>0, <1>1, <1>2, SmallerRoutes
<1>4. ConfigOK(Config(cfg))
  BY ZenonT(30), <1>0, Loaded DEF ControlOK
<1>5. \A r \in PublicRoutes(kernel) : r = BypassRoute
  BY ZenonT(30), <1>0, <1>2, <1>4, KnownRoutes DEF RoutesOK
<1>. QED
  BY ZenonT(30), <1>0, <1>3, <1>5, SmallerKernel

\* Nothing is running any more.
LEMMA OffKeeps ==
  ASSUME RoutingInvariant, Begin("off", <<>>), KernelOK(kernel'), MarksOK(kernel'), RoutesOK',
         UNCHANGED <<diskVars, cfg>>, carrier' = FALSE, swept' => kernel' = Empty
  PROVE  RoutingInvariant'
<1>0. phase' = "off" /\ todo' = <<>> /\ ControlOK /\ cfg' = cfg /\ file' = file /\ edits' = edits
  BY Zenon DEF Begin, RoutingInvariant, diskVars
<1>1. IsSeq(<<>>) /\ Len(<<>>) = 0
  BY ZenonT(30), NoSteps
<1>2. ControlOK'
  BY SMTT(60), <1>0, <1>1 DEF ControlOK, Ordered
<1>. QED
  BY ZenonT(30), <1>0, <1>2 DEF RoutingInvariant, RollBackOK, SetUpOK, CleanupLeavesNothing, CleanupOK, Cleaning

\* The process may end in any phase, with its device.
LEMMA GoneKeeps ==
  ASSUME RoutingInvariant, phase # "off", Gone, UNCHANGED diskVars, swept' => kernel = Empty
  PROVE  RoutingInvariant'
<1>0. /\ ControlOK /\ kernel' = WithoutTun(kernel) /\ carrier' = FALSE /\ file' = file /\ edits' = edits
  BY ZenonT(30) DEF RoutingInvariant, Gone, diskVars
<1>1. KernelOK(kernel') /\ MarksOK(kernel') /\ \A r \in kernel'.routes : r = BypassRoute
  BY ZenonT(30), <1>0, TunGone
<1>2. RoutesOK' /\ (swept' => kernel' = Empty)
  BY ZenonT(30), <1>0, <1>1, EmptyKernel DEF RoutesOK
<1>3. CASE Loadable(file)
  <2>1. cfg' = file /\ Begin("post", CleanUp(Config(cfg')))
    BY ZenonT(30), <1>3 DEF Gone
  <2>. QED
    BY ZenonT(30), <1>0, <1>1, <1>2, <1>3, <2>1, CleanupBegins DEF ControlOK
<1>4. CASE ~Loadable(file)
  <2>1. cfg' = cfg /\ Begin("off", <<>>)
    BY ZenonT(30), <1>4 DEF Gone
  <2>. QED
    BY ZenonT(30), <1>0, <1>1, <1>2, <2>1, OffKeeps
<1>. QED
  BY ZenonT(30), <1>3, <1>4

\* A start begins with the cleanup of whatever an earlier process left.
LEMMA StartKeeps ==
  ASSUME RoutingInvariant, Start
  PROVE  RoutingInvariant'
<1>0. /\ ControlOK /\ KernelOK(kernel) /\ MarksOK(kernel) /\ RoutesOK /\ CleanupLeavesNothing
      /\ phase = "off" /\ Loadable(file) /\ cfg' = file /\ Begin("clean", CleanUp(Config(cfg')))
      /\ kernel' = kernel /\ file' = file /\ edits' = edits /\ carrier' = carrier /\ swept' = swept
  BY ZenonT(30) DEF RoutingInvariant, Start, diskVars
<1>1. RoutesOK'
  BY ZenonT(30), <1>0 DEF RoutesOK
<1>2. carrier' = FALSE
  BY SMTT(60), <1>0 DEF ControlOK
<1>. QED
  BY ZenonT(30), <1>0, <1>1, <1>2, CleanupBegins DEF ControlOK, CleanupLeavesNothing

\* After the cleanup comes the set-up.
LEMMA CleanedKeeps ==
  ASSUME RoutingInvariant, Cleaned
  PROVE  RoutingInvariant'
<1>. DEFINE c == Config(cfg)
<1>0. /\ ControlOK /\ KernelOK(kernel) /\ MarksOK(kernel) /\ RoutesOK
      /\ phase = "clean" /\ todo = <<>> /\ phase' = "setup" /\ todo' = SetUp(c)
      /\ (flawed' <=> flawed) /\ (swept' <=> ~flawed) /\ kernel' = kernel /\ cfg' = cfg /\ Config(cfg)' = c
      /\ file' = file /\ edits' = edits /\ carrier' = carrier
  BY ZenonT(30) DEF RoutingInvariant, Cleaned, Begin, diskVars, Config
<1>1. ConfigOK(c)
  BY ZenonT(30), <1>0, Loaded DEF ControlOK
<1>2. IsSeq(todo') /\ Ordered(todo') /\ Range(todo') = Range(SetUp(c)) /\ todo' # <<>>
  <2>1. IsSeq(SetUp(c)) /\ Ordered(SetUp(c)) /\ Link \in Range(SetUp(c))
    BY ZenonT(30), <1>1, SetUpHasShape DEF SetUpShape, Span
  <2>. QED
    BY ZenonT(30), <1>0, <2>1, NoSteps
<1>3. ~flawed => kernel = Empty
  BY ZenonT(30), <1>0, CleanupEnds DEF Cleaning
<1>4. ~flawed => 68 \notin kernel.rules
  BY <1>3 DEF Empty
<1>. HIDE DEF c
<1>5. ControlOK'
  BY ZenonT(30), <1>0, <1>2 DEF ControlOK, Loadable
<1>6. RoutesOK'
  BY ZenonT(30), <1>0 DEF RoutesOK
<1>7. SetUpOK'
  BY ZenonT(30), <1>0, <1>2 DEF SetUpOK
<1>8. RollBackOK' /\ CleanupLeavesNothing'
  BY ZenonT(30), <1>0, <1>3, <1>4 DEF RollBackOK, CleanupLeavesNothing
<1>. QED
  BY ZenonT(30), <1>0, <1>5, <1>6, <1>7, <1>8 DEF RoutingInvariant, CleanupOK, Cleaning

\* After the set-up the carrier runs.
LEMMA UpKeeps ==
  ASSUME RoutingInvariant, Up
  PROVE  RoutingInvariant'
<1>0. /\ ControlOK /\ KernelOK(kernel) /\ MarksOK(kernel) /\ RoutesOK /\ SetUpOK
      /\ phase = "setup" /\ todo = <<>> /\ phase' = "up" /\ todo' = <<>> /\ todo' = todo /\ carrier' = TRUE
      /\ swept' = swept /\ kernel' = kernel /\ cfg' = cfg /\ Config(cfg)' = Config(cfg)
      /\ file' = file /\ edits' = edits
  BY ZenonT(30) DEF RoutingInvariant, Up, Begin, diskVars, Config
<1>1. ~swept
  BY ZenonT(30), <1>0 DEF ControlOK
<1>2. ControlOK'
  BY ZenonT(30), <1>0, <1>1 DEF ControlOK, Loadable
<1>3. RoutesOK'
  BY ZenonT(30), <1>0 DEF RoutesOK, TunRoute
<1>4. SetUpOK'
  BY ZenonT(30), <1>0 DEF SetUpOK
<1>. QED
  BY ZenonT(30), <1>0, <1>1, <1>2, <1>3, <1>4
     DEF RoutingInvariant, RollBackOK, CleanupOK, Cleaning, CleanupLeavesNothing

\* A carrier that cannot be created is followed by a cleanup.
LEMMA NewCarrierFailsKeeps ==
  ASSUME RoutingInvariant, NewCarrierFails
  PROVE  RoutingInvariant'
<1>0. /\ ControlOK /\ KernelOK(kernel) /\ MarksOK(kernel) /\ RoutesOK
      /\ phase = "setup" /\ todo = <<>> /\ cfg' = cfg /\ Begin("undo", CleanUp(Config(cfg')))
      /\ kernel' = kernel /\ file' = file /\ edits' = edits /\ carrier' = carrier /\ swept' = swept
      /\ phase' = "undo" /\ Config(cfg)' = Config(cfg)
  BY ZenonT(30) DEF RoutingInvariant, NewCarrierFails, diskVars, Begin, Config
<1>1. RoutesOK'
  BY ZenonT(30), <1>0 DEF RoutesOK, TunRoute
<1>2. carrier' = FALSE /\ ~swept /\ Loadable(cfg)
  BY <1>0 DEF ControlOK
<1>. QED
  BY ZenonT(30), <1>0, <1>1, <1>2, CleanupBegins DEF ControlOK

\* A signal is followed by a cleanup.
LEMMA StopKeeps ==
  ASSUME RoutingInvariant, Stop
  PROVE  RoutingInvariant'
<1>0. /\ ControlOK /\ phase = "up" /\ cfg' = cfg /\ Begin("undo", CleanUp(Config(cfg')))
      /\ kernel' = WithoutTun(kernel) /\ file' = file /\ edits' = edits /\ carrier' = FALSE /\ swept' = swept
  BY ZenonT(30) DEF RoutingInvariant, Stop, diskVars
<1>1. KernelOK(kernel') /\ MarksOK(kernel') /\ \A r \in kernel'.routes : r = BypassRoute
  BY ZenonT(30), <1>0, TunGone
<1>2. RoutesOK'
  BY ZenonT(30), <1>1 DEF RoutesOK
<1>3. ~swept /\ Loadable(cfg)
  BY ZenonT(30), <1>0 DEF ControlOK
<1>. QED
  BY ZenonT(30), <1>0, <1>1, <1>2, <1>3, CleanupBegins DEF ControlOK

\* A switch of the return policy, which fails or works, keeps the invariant.
LEMMA SwitchKeeps ==
  ASSUME RoutingInvariant, Switch
  PROVE  RoutingInvariant'
<1>. DEFINE c == Config(cfg)
<1>0. /\ ControlOK /\ KernelOK(kernel) /\ MarksOK(kernel) /\ RoutesOK /\ SetUpOK
      /\ phase = "up" /\ phase' = "up" /\ todo' = todo /\ cfg' = cfg /\ Config(cfg)' = c
      /\ file' = file /\ edits' = edits /\ carrier' = carrier /\ swept' = swept
      /\ c.smart.enabled /\ c.role = "kharej"
  BY ZenonT(30) DEF RoutingInvariant, Switch, diskVars, Config
<1>1. todo = <<>> /\ ~swept /\ Loadable(cfg)
  BY ZenonT(30), <1>0 DEF ControlOK
<1>2. ConfigOK(c)
  BY ZenonT(30), <1>0, <1>1, Loaded DEF ControlOK
<1>. HIDE DEF c
<1>3. \/ kernel' = Effect(kernel, Quiet(Flush(returnTable)).cmd)
      \/ kernel' = Effect(kernel, PutRoute(ReturnRoute(c)).cmd)
  BY Zenon DEF Switch, Quiet, PutRoute, Must, ReturnRoute, c
<1>4. PICK ro : RoutesAre(kernel, kernel', ro)
                /\ ro \in {OtherTables(kernel, returnTable),
                           OtherRoutes(kernel, ReturnRoute(c)) \cup {ReturnRoute(c)}}
  <2>1. CASE kernel' = Effect(kernel, Quiet(Flush(returnTable)).cmd)
    <3>1. RoutesAre(kernel, kernel', OtherTables(kernel, returnTable))
      BY ZenonT(30), <1>0, <2>1, RouteEffects
    <3>. QED
      BY Zenon, <3>1
  <2>2. CASE kernel' = Effect(kernel, PutRoute(ReturnRoute(c)).cmd)
    <3>1. RoutesAre(kernel, kernel', OtherRoutes(kernel, ReturnRoute(c)) \cup {ReturnRoute(c)})
      BY ZenonT(30), <1>0, <2>2, RouteEffects
    <3>. QED
      BY Zenon, <3>1
  <2>. QED
    BY ZenonT(30), <1>3, <2>1, <2>2
<1>5. \A r \in {DataRoute(c), BypassRoute, MainRoute(c)} : r.table # returnTable
  BY DEF DataRoute, BypassRoute, MainRoute, Route, dataTable, transportTable, returnTable, Main
<1>6. ReturnRoute(c).table = returnTable
  BY ZenonT(30) DEF ReturnRoute, Route
<1>7. /\ \A r \in {DataRoute(c), BypassRoute, MainRoute(c)} : r \in kernel.routes => r \in ro
      /\ \A r \in ro : r \in kernel.routes \/ r = ReturnRoute(c)
  BY ZenonT(30), <1>4, <1>5, <1>6 DEF OtherTables, OtherRoutes
<1>8. KernelOK(kernel')
  BY ZenonT(30), <1>0, <1>4, KernelParts DEF RoutesAre
<1>9. MarksOK(kernel')
  BY ZenonT(30), <1>0, <1>4 DEF MarksOK, RoutesAre
<1>10. ControlOK'
  BY ZenonT(30), <1>0, <1>1 DEF ControlOK, Loadable
<1>11. RoutesOK'
  <2>1. \A r \in kernel.routes : r = BypassRoute \/ TunRoute(c, r, "up")
    BY ZenonT(30), <1>0 DEF RoutesOK, c
  <2>2. TunRoute(c, ReturnRoute(c), "up")
    BY ZenonT(30), <1>0 DEF TunRoute
  <2>. QED
    BY ZenonT(30), <1>0, <1>4, <1>7, <2>1, <2>2 DEF RoutesOK, RoutesAre
<1>12. SetUpOK'
  <2>1. Range(todo) = {}
    BY ZenonT(30), <1>1, NoSteps
  <2>2. ASSUME NEW s \in Range(SetUp(c)) PROVE Done(c, kernel', s)
    <3>1. Done(c, kernel, s)
      BY ZenonT(30), <1>0, <2>1 DEF SetUpOK, c
    <3>2. PICK n \in 0 .. 4 : Group(n, c, s)
      BY ZenonT(30), <1>2, SetUpHasShape DEF SetUpShape, Span
    <3>3. s.how = "must" /\ s.cmd.op \in {"route_add", "route_replace"} =>
            s.cmd.route \in {DataRoute(c), BypassRoute, MainRoute(c)}
      BY ZenonT(30), <3>2, SetUpKind
    <3>. QED
      BY ZenonT(30), <1>4, <1>7, <3>1, <3>3 DEF Done, RoutesAre
  <2>. QED
    BY ZenonT(30), <1>0, <2>1, <2>2 DEF SetUpOK
<1>. QED
  BY ZenonT(30), <1>0, <1>1, <1>8, <1>9, <1>10, <1>11, <1>12
     DEF RoutingInvariant, RollBackOK, CleanupOK, Cleaning, CleanupLeavesNothing

\* The process ends after its cleanup.
LEMMA ExitKeeps ==
  ASSUME RoutingInvariant, Exit
  PROVE  RoutingInvariant'
<1>1. phase \in {"rollback", "undo"} /\ todo = <<>> /\ (swept' <=> ~flawed)
  BY ZenonT(30) DEF Exit
<1>2. ~flawed => kernel = Empty
  BY ZenonT(30), <1>1, CleanupEnds DEF Cleaning
<1>. QED
  BY ZenonT(30), <1>1, <1>2, GoneKeeps DEF Exit

\* The process is killed between two commands.
LEMMA KillKeeps ==
  ASSUME RoutingInvariant, Kill
  PROVE  RoutingInvariant'
  BY ZenonT(30), GoneKeeps DEF Kill

\* The post-stop command of the service unit ends after its cleanup.
LEMMA PostDoneKeeps ==
  ASSUME RoutingInvariant, PostDone
  PROVE  RoutingInvariant'
<1>0. /\ ControlOK /\ KernelOK(kernel) /\ MarksOK(kernel) /\ RoutesOK
      /\ phase = "post" /\ todo = <<>> /\ Begin("off", <<>>) /\ (swept' <=> ~flawed)
      /\ kernel' = kernel /\ UNCHANGED <<diskVars, cfg>> /\ carrier' = carrier
  BY ZenonT(30) DEF RoutingInvariant, PostDone, diskVars
<1>1. ~flawed => kernel = Empty
  BY ZenonT(30), <1>0, CleanupEnds DEF Cleaning
<1>2. RoutesOK' /\ carrier' = FALSE
  BY <1>0 DEF RoutesOK, ControlOK
<1>. QED
  BY ZenonT(30), <1>0, <1>1, <1>2, OffKeeps

\* The post-stop command is killed between two commands.
LEMMA KillPostKeeps ==
  ASSUME RoutingInvariant, KillPost
  PROVE  RoutingInvariant'
<1>0. /\ ControlOK /\ KernelOK(kernel) /\ MarksOK(kernel) /\ RoutesOK
      /\ phase = "post" /\ Begin("off", <<>>) /\ swept' = FALSE
      /\ kernel' = kernel /\ UNCHANGED <<diskVars, cfg>> /\ carrier' = carrier
  BY ZenonT(30) DEF RoutingInvariant, KillPost, diskVars
<1>2. RoutesOK' /\ carrier' = FALSE
  BY SMTT(60), <1>0 DEF RoutesOK, ControlOK
<1>. QED
  BY ZenonT(30), <1>0, <1>2, OffKeeps

\* A change of nothing but the file that is on disk.
LEMMA DiskKeeps ==
  ASSUME RoutingInvariant, UNCHANGED <<kernel, cfg, phase, todo, carrier, flawed, swept>>,
         file' \in DOMAIN Files, edits' \in Seq(DOMAIN Files)
  PROVE  RoutingInvariant'
<1>1. Config(cfg)' = Config(cfg)
  BY ZenonT(30) DEF Config
<1>2. ControlOK'
  BY ZenonT(30) DEF RoutingInvariant, ControlOK, Loadable
<1>3. RoutesOK'
  BY ZenonT(30), <1>1 DEF RoutingInvariant, RoutesOK
<1>4. CleanupOK'
  BY ZenonT(30), <1>1 DEF RoutingInvariant, CleanupOK, Cleaning
<1>5. RollBackOK' /\ CleanupLeavesNothing'
  BY ZenonT(30) DEF RoutingInvariant, RollBackOK, CleanupLeavesNothing
<1>6. SetUpOK'
  BY ZenonT(30), <1>1 DEF RoutingInvariant, SetUpOK
<1>. QED
  BY ZenonT(30), <1>2, <1>3, <1>4, <1>5, <1>6 DEF RoutingInvariant

\* The configuration file is edited.
LEMMA EditKeeps ==
  ASSUME RoutingInvariant, Edit
  PROVE  RoutingInvariant'
<1>1. edits \in Seq(DOMAIN Files) /\ edits # <<>>
  BY Zenon DEF RoutingInvariant, ControlOK, Edit
<1>2. Head(edits) \in DOMAIN Files /\ Tail(edits) \in Seq(DOMAIN Files)
  BY SMTT(60), <1>1
<1>. QED
  BY ZenonT(30), <1>2, DiskKeeps DEF Edit

\* Before the first start nothing is there.
LEMMA InitHolds ==
  ASSUME Init
  PROVE  RoutingInvariant
<1>1. file \in DOMAIN Files /\ edits \in Seq(DOMAIN Files)
  <2>1. PICK s \in Scenarios : file = Head(s.files) /\ edits = Tail(s.files)
    BY Zenon DEF Init
  <2>. DEFINE q == s.files
  <2>2. q \in Seq(DOMAIN Files) /\ q # <<>> /\ file = Head(q) /\ edits = Tail(q)
    BY ZenonT(30), <2>1, RoutingAssumption
  <2>. HIDE DEF q
  <2>. QED
    BY <2>2
<1>2. /\ kernel = Empty /\ cfg = file /\ phase = "off" /\ todo = <<>> /\ carrier = FALSE
      /\ flawed = FALSE /\ swept = FALSE
  BY ZenonT(30) DEF Init
<1>3. IsSeq(<<>>) /\ Len(<<>>) = 0
  BY ZenonT(30), NoSteps
<1>4. ControlOK
  BY SMTT(60), <1>1, <1>2, <1>3 DEF ControlOK, Ordered
<1>5. KernelOK(kernel) /\ MarksOK(kernel)
  BY ZenonT(30), <1>2, EmptyKernel
<1>6. RoutesOK
  BY ZenonT(30), <1>2 DEF RoutesOK, Empty
<1>. QED
  BY ZenonT(30), <1>2, <1>4, <1>5, <1>6
     DEF RoutingInvariant, RollBackOK, SetUpOK, CleanupLeavesNothing, CleanupOK, Cleaning

\* Between any two commands of the scripts - with commands that fail, kills of
\* the process and of the post-stop command, switches of the return policy and
\* edits of the configuration file - the kernel holds what the script at work
\* accounts for (setupRouting and cleanupRouting, routing.go).
THEOREM RoutingInvariance == Spec => []RoutingInvariant
<1>1. Init => RoutingInvariant
  BY ZenonT(30), InitHolds
<1>2. RoutingInvariant /\ [Next]_vars => RoutingInvariant'
  <2>. SUFFICES ASSUME RoutingInvariant, [Next]_vars PROVE RoutingInvariant'
    BY ZenonT(30)
  <2>1. CASE Step
    BY ZenonT(30), <2>1, StepKeeps
  <2>2. CASE StepFails
    BY ZenonT(30), <2>2, StepFailsKeeps
  <2>3. CASE Start
    BY Zenon, <2>3, StartKeeps
  <2>4. CASE Cleaned
    BY Zenon, <2>4, CleanedKeeps
  <2>5. CASE Up
    BY Zenon, <2>5, UpKeeps
  <2>6. CASE NewCarrierFails
    BY Zenon, <2>6, NewCarrierFailsKeeps
  <2>7. CASE Switch
    BY Zenon, <2>7, SwitchKeeps
  <2>8. CASE Stop
    BY Zenon, <2>8, StopKeeps
  <2>9. CASE Exit
    BY Zenon, <2>9, ExitKeeps
  <2>10. CASE Kill
    BY Zenon, <2>10, KillKeeps
  <2>11. CASE PostDone
    BY Zenon, <2>11, PostDoneKeeps
  <2>12. CASE KillPost
    BY Zenon, <2>12, KillPostKeeps
  <2>13. CASE Edit
    BY Zenon, <2>13, EditKeeps
  <2>14. CASE UNCHANGED vars
    BY ZenonT(30), <2>14, DiskKeeps DEF vars, diskVars, RoutingInvariant, ControlOK
  <2>. QED
    BY ZenonT(30), <2>1, <2>2, <2>3, <2>4, <2>5, <2>6, <2>7, <2>8, <2>9, <2>10, <2>11, <2>12, <2>13, <2>14
       DEF Next, Proceed
<1>. QED
  BY <1>1, <1>2, PTL DEF Spec

\* A cleanup that no command failure disturbed leaves no chain, jump, policy rule
\* or route behind, whatever configuration set up what it found (cleanupRouting
\* and cleanupSmartReturnPolicy).
THEOREM CleanupLeavesNothingTheorem == Spec => []CleanupLeavesNothing
<1>1. RoutingInvariant => CleanupLeavesNothing
  BY ZenonT(30) DEF RoutingInvariant
<1>. QED
  BY <1>1, RoutingInvariance, PTL

----------------------------------------------------------------------------
(* The carrier's packets.                                                  *)

\* The routes while the carrier is open, by their table.
LEMMA UpRoutes ==
  ASSUME NEW c, NEW r, r = BypassRoute \/ TunRoute(c, r, "up")
  PROVE  /\ r.table = transportTable => r.dev = "pub"
         /\ r.table = Main => r = MainRoute(c) /\ c.role = "kharej" /\ c.mode = "full" /\ c.ports # <<>>
         /\ r.table = returnTable => c.role = "kharej" /\ c.smart.enabled
<1>1. CASE r = BypassRoute
  BY SMTT(60), <1>1 DEF BypassRoute, Route, transportTable, returnTable, Main
<1>2. CASE r = Route(dataTable, c.net.foreign, "tun")
  BY SMTT(60), <1>2 DEF Route, dataTable, transportTable, returnTable, Main
<1>3. CASE r = MainRoute(c) /\ c.role = "kharej" /\ c.mode = "full" /\ c.ports # <<>>
  BY SMTT(60), <1>3 DEF MainRoute, Route, transportTable, returnTable, Main
<1>4. CASE r = ReturnRoute(c) /\ c.role = "kharej" /\ c.smart.enabled
  BY SMTT(60), <1>4 DEF ReturnRoute, Route, transportTable, returnTable, Main
<1>. QED
  BY ZenonT(30), <1>1, <1>2, <1>3, <1>4 DEF TunRoute

\* What holds while the service is up.
LEMMA UpFacts ==
  ASSUME RoutingInvariant, phase = "up"
  PROVE  /\ ConfigOK(Config(cfg)) /\ KernelOK(kernel) /\ MarksOK(kernel)
         /\ \A r \in kernel.routes : r = BypassRoute \/ TunRoute(Config(cfg), r, "up")
         /\ \A s \in Range(SetUp(Config(cfg))) : Done(Config(cfg), kernel, s)
         /\ SetUpShape(Config(cfg), SetUp(Config(cfg)))
<1>1. ControlOK /\ KernelOK(kernel) /\ MarksOK(kernel) /\ RoutesOK /\ SetUpOK
  BY ZenonT(30) DEF RoutingInvariant
<1>2. ConfigOK(Config(cfg))
  BY ZenonT(30), <1>1, Loaded DEF ControlOK
<1>3. todo = <<>>
  BY ZenonT(30), <1>1 DEF ControlOK
<1>4. Range(todo) = {}
  BY ZenonT(30), <1>3, NoSteps
<1>5. \A s \in Range(SetUp(Config(cfg))) : Done(Config(cfg), kernel, s)
  BY ZenonT(30), <1>1, <1>4 DEF SetUpOK
<1>6. \A r \in kernel.routes : r = BypassRoute \/ TunRoute(Config(cfg), r, "up")
  BY ZenonT(30), <1>1 DEF RoutesOK
<1>. QED
  BY ZenonT(30), <1>1, <1>2, <1>5, <1>6, SetUpHasShape

\* A packet with the carrier's mark, to whatever address.
LEMMA MarkedAvoidsTunnel ==
  ASSUME RoutingInvariant, phase = "up", NEW p, IsPacket(p), p.mark = transportMark
  PROVE  Emitted(kernel, p).out = "pub"
<1>. DEFINE c == Config(cfg)
<1>0. /\ ConfigOK(c) /\ KernelOK(kernel) /\ MarksOK(kernel)
      /\ \A r \in kernel.routes : r = BypassRoute \/ TunRoute(c, r, "up")
      /\ \A s \in Range(SetUp(c)) : Done(c, kernel, s)
      /\ SetUpShape(c, SetUp(c))
  BY ZenonT(30), UpFacts
<1>. HIDE DEF c
<1>1. ASSUME NEW r \in kernel.routes, NEW t \in PolicyRules, r.table = t.table, t.mark = 119
      PROVE  r.dev = "pub"
  <2>1. r.table = transportTable
    BY ZenonT(30), <1>1, Policy
  <2>. QED
    BY ZenonT(30), <1>0, <2>1, UpRoutes
<1>2. ASSUME NEW r \in kernel.routes, r.table = Main
      PROVE  \E q \in kernel.routes : \E t \in PolicyRules :
               q.table = t.table /\ t.prio \in kernel.rules /\ t.mark = 119 /\ q.dst = "default"
  <2>1. c.role = "kharej" /\ c.mode = "full" /\ c.ports # <<>>
    BY ZenonT(30), <1>0, <1>2, UpRoutes
  <2>2. Must(RuleAdd(77), "routing") \in Range(SetUp(c)) /\ AddRoute(BypassRoute) \in Range(SetUp(c))
    BY ZenonT(30), <1>0, <2>1 DEF SetUpShape, KharejHas
  <2>3. Done(c, kernel, Must(RuleAdd(77), "routing")) /\ Done(c, kernel, AddRoute(BypassRoute))
    BY ZenonT(30), <1>0, <2>2
  <2>. DEFINE add == Must(RuleAdd(77), "routing")
  <2>4a. add.how = "must" /\ add.cmd.op = "rule_add" /\ add.cmd.prio = 77
    BY PrioFields DEF Prios
  <2>. HIDE DEF add
  <2>4b. Done(c, kernel, add)
    BY ZenonT(30), <2>3 DEF add
  <2>4. 77 \in kernel.rules
    BY ZenonT(30), <2>4a, <2>4b DEF Done
  <2>. DEFINE put == AddRoute(BypassRoute)
  <2>5a. put.how = "must" /\ put.cmd.op = "route_add" /\ put.cmd.route = BypassRoute
    BY ZenonT(30), RouteFields
  <2>. HIDE DEF put
  <2>5b. Done(c, kernel, put)
    BY Zenon, <2>3 DEF put
  <2>5. BypassRoute \in kernel.routes
    BY ZenonT(30), <2>5a, <2>5b DEF Done
  <2>6. \E t \in PolicyRules : t.prio = 77 /\ t.mark = 119 /\ t.table = transportTable
    BY DEF PolicyRules, transportTable
  <2>7. BypassRoute.table = transportTable /\ BypassRoute.dst = "default"
    BY ZenonT(30), <1>0, KnownRoutes
  <2>. QED
    BY ZenonT(30), <2>4, <2>5, <2>6, <2>7
<1>3. Device(kernel, p.dst, 119) = "pub"
  BY SMTT(60), <1>1, <1>2, DevicePub
<1>. DEFINE M == {119}
<1>4. p.mark \in M /\ \A m \in M : Device(kernel, p.dst, m) = "pub"
  BY ZenonT(30), <1>3 DEF transportMark
<1>5. \A r \in Range(kernel.chain["HSH_MOUT"]) : r.target = "MARK" => r.arg \in M \/ Blind(r, p, M)
  BY SMTT(60), <1>0 DEF MarksOK, Blind
<1>. HIDE DEF M
<1>. QED
  BY ZenonT(30), <1>0, <1>4, <1>5, EmittedPub

\* While the tunnel is up, the carrier's own packets never enter the tunnel that
\* they carry: the bypass rule comes before the routes through it, and nothing
\* changes their mark (setupTransportBypass).
THEOREM CarrierAvoidsTunnelTheorem == Spec => []CarrierAvoidsTunnel
<1>1. RoutingInvariant => CarrierAvoidsTunnel
  <2>. SUFFICES ASSUME RoutingInvariant, carrier, NEW src, NEW dst, NEW proto, NEW port
                PROVE  Emitted(kernel, [Packet(src, dst, proto, port, port, "est")
                                          EXCEPT !.mark = transportMark]).out = "pub"
    BY ZenonT(30) DEF CarrierAvoidsTunnel
  <2>1. phase = "up"
    BY ZenonT(30) DEF RoutingInvariant, ControlOK
  <2>. DEFINE p == Packet(src, dst, proto, port, port, "est")
  <2>2. IsPacket(p)
    BY PacketShape
  <2>. HIDE DEF p
  <2>3. IsPacket([p EXCEPT !.mark = transportMark])
        /\ [p EXCEPT !.mark = transportMark].mark = transportMark
    BY ZenonT(30), <2>2, PacketExcept
  <2>. QED
    BY ZenonT(30), <2>1, <2>3, MarkedAvoidsTunnel DEF p
<1>. QED
  BY <1>1, RoutingInvariance, PTL

----------------------------------------------------------------------------
(* Traffic that is no service traffic.                                     *)

\* A rule of the chain that the set-up writes is of the form that it writes.
LEMMA MineForm ==
  ASSUME NEW c, ConfigOK(c), NEW ch \in Chains, NEW r, Mine(c, ch, r)
  PROVE  RuleOK(c, ch, r) \/ (ch = "HSH_INPUT" /\ OnceStep(c) \in Range(SetUp(c)) /\ r = OnceStep(c).rule)
<1>1. PICK s \in Range(SetUp(c)) : Adds(s, ch, r)
  BY ZenonT(30) DEF Mine
<1>2. PICK n \in 0 .. 4 : Group(n, c, s)
  BY ZenonT(30), SetUpHasShape DEF SetUpShape, Span
<1>3. s.how = "once" => s = OnceStep(c) /\ OnceStep(c).chain = "HSH_INPUT"
  <2>1. s.how = "once" => s = OnceStep(c)
    BY ZenonT(30), <1>2, SetUpKind
  <2>2. OnceStep(c).chain = "HSH_INPUT"
    BY ZenonT(30), OtherFields
  <2>. QED
    BY ZenonT(30), <2>1, <2>2
<1>4. s.how = "must" /\ s.cmd.op = "-A" => RuleOK(c, s.cmd.chain, s.cmd.rule)
  BY ZenonT(30), <1>2, SetUpKind
<1>. QED
  BY ZenonT(30), <1>1, <1>3, <1>4 DEF Adds

\* On Kharej with services the chains hold what the set-up has written.
LEMMA KharejChains ==
  ASSUME RoutingInvariant, phase = "up", Config(cfg).role = "kharej", Config(cfg).ports # <<>>,
         NEW ch \in {"HSH_INPUT", "HSH_MOUT"}
  PROVE  /\ \A r \in Range(kernel.chain[ch]) : Mine(Config(cfg), ch, r)
         /\ kernel.jumps[ch] > 0
<1>. DEFINE c == Config(cfg)
<1>0. /\ \A s \in Range(SetUp(c)) : Done(c, kernel, s)
      /\ SetUpShape(c, SetUp(c))
  BY ZenonT(30), UpFacts
<1>1. c.role = "kharej" /\ c.ports # <<>>
  BY ZenonT(30)
<1>. HIDE DEF c
<1>2. Done(c, kernel, ResetFlush(ch)) /\ Done(c, kernel, HookStep(ch, "routing"))
  BY ZenonT(30), <1>0, <1>1 DEF SetUpShape, KharejHas
<1>3. /\ ResetFlush(ch).how = "must" /\ ResetFlush(ch).cmd.op = "-F" /\ ResetFlush(ch).cmd.chain = ch
      /\ HookStep(ch, "routing").how = "hook" /\ HookStep(ch, "routing").chain = ch
  BY SMTT(60), MustFields, HookFields
<1>4. \A r \in Range(kernel.chain[ch]) : Mine(c, ch, r)
  BY ZenonT(30), <1>2, <1>3 DEF Done
<1>5. kernel.jumps[ch] > 0
  BY ZenonT(30), <1>2, <1>3 DEF Done
<1>. QED
  BY ZenonT(30), <1>4, <1>5 DEF c

\* A packet without a mark that is from no service port.
LEMMA UnmarkedDirect ==
  ASSUME RoutingInvariant, phase = "up", NEW p, IsPacket(p), p.mark = 0,
         Config(cfg).role = "iran" \/ Config(cfg).mode = "direct-return",
         \A q \in Range(Config(cfg).ports) : p.sport # q.port
  PROVE  Emitted(kernel, p).out = "pub"
<1>. DEFINE c == Config(cfg)
<1>0. /\ ConfigOK(c) /\ KernelOK(kernel) /\ MarksOK(kernel)
      /\ \A r \in kernel.routes : r = BypassRoute \/ TunRoute(c, r, "up")
      /\ c.role = "iran" \/ c.mode = "direct-return"
      /\ \A q \in Range(c.ports) : p.sport # q.port
  BY ZenonT(30), UpFacts
<1>0a. c.role = "kharej" /\ c.ports # <<>> =>
         \A r \in Range(kernel.chain["HSH_MOUT"]) : Mine(c, "HSH_MOUT", r)
  BY ZenonT(30), KharejChains
<1>. HIDE DEF c
<1>1. \A r \in kernel.routes : r.table # Main
  BY ZenonT(30), <1>0, UpRoutes
<1>2. Device(kernel, p.dst, 0) = "pub"
  <2>1. \A t \in PolicyRules : t.mark # 0
    BY SMTT(60), Policy
  <2>. QED
    BY ZenonT(30), <1>1, <2>1, DevicePub
<1>3. CASE c.role = "kharej" /\ c.ports # <<>>
  <2>. DEFINE M == {0}
  <2>1. p.mark \in M /\ \A m \in M : Device(kernel, p.dst, m) = "pub"
    BY ZenonT(30), <1>2
  <2>2. ASSUME NEW r \in Range(kernel.chain["HSH_MOUT"]), r.target = "MARK"
        PROVE  Blind(r, p, M)
    <3>1. "HSH_MOUT" \in Chains /\ "HSH_MOUT" # "HSH_INPUT"
      BY ZenonT(30) DEF Chains
    <3>2. RuleOK(c, "HSH_MOUT", r)
      BY ZenonT(30), <1>0, <1>0a, <1>3, <3>1, MineForm
    <3>3. "sport" \in DOMAIN r.match /\ \E q \in Range(c.ports) : r.match["sport"] = {q.port}
      BY ZenonT(30), <2>2, <3>2 DEF RuleOK
    <3>4. p.sport \notin r.match["sport"]
      BY ZenonT(30), <1>0, <3>3
    <3>. QED
      BY ZenonT(30), <3>3, <3>4 DEF Blind
  <2>. HIDE DEF M
  <2>. QED
    BY ZenonT(30), <1>0, <2>1, <2>2, EmittedPub
<1>4. CASE ~(c.role = "kharej" /\ c.ports # <<>>)
  <2>. DEFINE M == {0, 104}
  <2>1. Device(kernel, p.dst, 104) = "pub"
    <3>1. ~(c.role = "kharej" /\ c.smart.enabled)
      BY ZenonT(30), <1>0, <1>4 DEF ConfigOK, Valid
    <3>2. \A r \in kernel.routes : r.table # returnTable
      BY ZenonT(30), <1>0, <3>1, UpRoutes
    <3>3. \A t \in PolicyRules : t.mark = 104 => t.table = returnTable
      BY ZenonT(30), Policy
    <3>. QED
      BY SMTT(60), <1>1, <3>2, <3>3, DevicePub
  <2>2. p.mark \in M /\ \A m \in M : Device(kernel, p.dst, m) = "pub"
    BY ZenonT(30), <1>2, <2>1
  <2>3. \A r \in Range(kernel.chain["HSH_MOUT"]) : r.target = "MARK" => r.arg \in M
    BY ZenonT(30), <1>0 DEF MarksOK, returnMark
  <2>. HIDE DEF M
  <2>. QED
    BY ZenonT(30), <1>0, <2>2, <2>3, EmittedPub
<1>. QED
  BY ZenonT(30), <1>3, <1>4

\* While the tunnel is up, traffic between the two hosts that belongs to no
\* service keeps its way, for any port that is no service port (setupSmartReturnPolicy and
\* the policy rules of routing.go).
THEOREM UnrelatedStaysDirectTheorem == Spec => []UnrelatedStaysDirect
<1>1. RoutingInvariant => UnrelatedStaysDirect
  <2>. SUFFICES ASSUME RoutingInvariant, carrier,
                       Config(cfg).role = "iran" \/ Config(cfg).mode = "direct-return",
                       NEW port, port \notin {q.port : q \in Range(Config(cfg).ports)},
                       NEW src, NEW dst
                PROVE  Emitted(kernel, Packet(src, dst, "tcp", port, port, "est")).out = "pub"
    BY ZenonT(30) DEF UnrelatedStaysDirect
  <2>1. phase = "up"
    BY ZenonT(30) DEF RoutingInvariant, ControlOK
  <2>. DEFINE p == Packet(src, dst, "tcp", port, port, "est")
  <2>2. IsPacket(p) /\ p.mark = 0 /\ p.sport = port
    BY SMTT(60), PacketShape
  <2>. HIDE DEF p
  <2>3. \A q \in Range(Config(cfg).ports) : p.sport # q.port
    BY ZenonT(30), <2>2
  <2>4. Emitted(kernel, p).out = "pub"
    BY ZenonT(30), <2>1, <2>2, <2>3, UnmarkedDirect
  <2>. QED
    BY ZenonT(30), <2>4 DEF p
<1>. QED
  BY <1>1, RoutingInvariance, PTL

----------------------------------------------------------------------------
(* Locked ports.                                                           *)

\* On Kharej the carrier is told by its port, which no service has.
LEMMA CarrierPort ==
  ASSUME NEW c, c.role = "kharej"
  PROVE  /\ {"proto", "dport"} \subseteq DOMAIN OnceStep(c).rule.match
         /\ OnceStep(c).rule.match["proto"] = {transportNetwork(c.type)}
         /\ OnceStep(c).rule.match["dport"] = {c.listen.port}
<1>. DEFINE a == [in |-> {"pub"}, dst |-> {c.net.ip}, src |-> {SourceIP(c)},
                  proto |-> {transportNetwork(c.type)}]
            b == [dport |-> {c.listen.port}]
<1>1. OnceStep(c).rule.match = Also(a, b)
  BY ZenonT(30) DEF OnceStep, CarrierMatch
<1>2. DOMAIN a = {"in", "dst", "src", "proto"} /\ DOMAIN b = {"dport"}
  BY ZenonT(30)
<1>3. a["proto"] = {transportNetwork(c.type)} /\ b["dport"] = {c.listen.port}
  BY ZenonT(30)
<1>. HIDE DEF a, b
<1>4. /\ "proto" \in DOMAIN Also(a, b) /\ Also(a, b)["proto"] = a["proto"]
      /\ "dport" \in DOMAIN Also(a, b) /\ Also(a, b)["dport"] = b["dport"]
  BY ZenonT(30), <1>2 DEF Also
<1>. QED
  BY ZenonT(30), <1>1, <1>3, <1>4

\* The service is not on the carrier's port.
LEMMA ServiceApart ==
  ASSUME NEW c, ConfigOK(c), NEW s \in Services(c)
  PROVE  c.ports # <<>> /\ ~(s[2] = c.listen.port /\ s[1] = transportNetwork(c.type))
<1>1. PICK q \in Range(c.ports) : q.port = s[2] /\ protocolIncludes(q.proto, s[1])
  BY ZenonT(30) DEF Services
<1>2. IsSeq(c.ports)
  BY ZenonT(30), ConfigFacts
<1>3. PICK i \in 1 .. Len(c.ports) : c.ports[i] = q
  BY ZenonT(30), <1>1, <1>2, SeqFacts
<1>4. c.ports # <<>>
  BY ZenonT(30), <1>1, NoSteps
<1>5. PortsApart(c)
  BY ZenonT(30), <1>4 DEF ConfigOK, Valid, ServicesOK
<1>6. ~(q.port = c.listen.port /\ protocolIncludes(q.proto, transportNetwork(c.type)))
  BY ZenonT(30), <1>3, <1>5 DEF PortsApart
<1>. QED
  BY ZenonT(30), <1>1, <1>4, <1>6

\* Whoever sends it, from whatever port, in whatever state.
LEMMA LockedClosed ==
  ASSUME RoutingInvariant, phase = "up", Config(cfg).role = "kharej", Config(cfg).net.lock,
         NEW s \in Services(Config(cfg)), NEW p, p.in = "pub", p.dst = Config(cfg).net.foreign,
         p.proto = s[1], p.dport = s[2]
  PROVE  Verdict(kernel, "HSH_INPUT", p) = "DROP"
<1>. DEFINE c == Config(cfg)
<1>0. /\ ConfigOK(c) /\ KernelOK(kernel) /\ c.role = "kharej" /\ c.net.lock /\ s \in Services(c)
      /\ p.dst = c.net.foreign
      /\ \A t \in Range(SetUp(c)) : Done(c, kernel, t)
      /\ SetUpShape(c, SetUp(c))
  BY ZenonT(30), UpFacts
<1>1. c.ports # <<>> /\ ~(s[2] = c.listen.port /\ s[1] = transportNetwork(c.type))
  BY ZenonT(30), <1>0, ServiceApart
<1>2. /\ \A r \in Range(kernel.chain["HSH_INPUT"]) : Mine(c, "HSH_INPUT", r)
      /\ kernel.jumps["HSH_INPUT"] > 0
  BY ZenonT(30), <1>1, KharejChains
<1>. HIDE DEF c
<1>. DEFINE drop == DropRule(c, s[1], s[2])
            add == AddRule("HSH_INPUT", drop, "routing")
<1>3. Matches(drop, p)
  <2>1. /\ DOMAIN drop.match = {"in", "dst", "proto", "dport"}
        /\ drop.match["in"] = {"pub"} /\ drop.match["dst"] = {c.net.foreign}
        /\ drop.match["proto"] = {s[1]} /\ drop.match["dport"] = {s[2]}
    BY ZenonT(30) DEF DropRule
  <2>. HIDE DEF drop
  <2>. QED
    BY SMTT(60), <1>0, <2>1 DEF Matches
<1>4. add \in Range(SetUp(c))
  BY ZenonT(30), <1>0, <1>1 DEF SetUpShape, KharejHas
<1>. HIDE DEF drop
<1>5. add.how = "must" /\ add.cmd.op = "-A" /\ add.cmd.chain = "HSH_INPUT" /\ add.cmd.rule = drop
  BY SMTT(60), MustFields
<1>. HIDE DEF add
<1>6. drop \in Range(kernel.chain["HSH_INPUT"])
  BY ZenonT(30), <1>0, <1>4, <1>5 DEF Done
<1>7. "HSH_INPUT" \in Chains
  BY ZenonT(30) DEF Chains
<1>8. ASSUME NEW r \in Range(kernel.chain["HSH_INPUT"]), Matches(r, p) PROVE r.target = "DROP"
  <2>1. RuleOK(c, "HSH_INPUT", r) \/ r = OnceStep(c).rule
    BY ZenonT(30), <1>0, <1>2, <1>7, MineForm
  <2>2. CASE RuleOK(c, "HSH_INPUT", r)
    <3>1. r.target = "DROP" \/ ("in" \in DOMAIN r.match /\ r.match["in"] = {"tun"})
      BY ZenonT(30), <1>0, <2>2 DEF RuleOK
    <3>. QED
      BY ZenonT(30), <1>8, <3>1 DEF Matches
  <2>3. CASE r = OnceStep(c).rule
    <3>1. /\ {"proto", "dport"} \subseteq DOMAIN r.match
          /\ r.match["proto"] = {transportNetwork(c.type)} /\ r.match["dport"] = {c.listen.port}
      BY ZenonT(30), <1>0, <2>3, CarrierPort
    <3>2. p.proto = transportNetwork(c.type) /\ p.dport = c.listen.port
      BY ZenonT(30), <1>8, <3>1 DEF Matches
    <3>. QED
      BY ZenonT(30), <1>1, <3>2
  <2>. QED
    BY ZenonT(30), <2>1, <2>2, <2>3
<1>. QED
  BY ZenonT(30), <1>0, <1>2, <1>3, <1>6, <1>7, <1>8, Dropped

\* While the tunnel is up and the ports are locked, no service is reached on the
\* public interface of the Kharej host (the DROP rules of setupKharejRouting).
THEOREM LockedPortsClosedTheorem == Spec => []LockedPortsClosed
<1>1. RoutingInvariant => LockedPortsClosed
  <2>. SUFFICES ASSUME RoutingInvariant, phase = "up", Config(cfg).role = "kharej",
                       Config(cfg).net.lock, NEW s \in Services(Config(cfg)), NEW src, NEW ct
                PROVE  Verdict(kernel, "HSH_INPUT",
                               [Packet(src, Config(cfg).net.foreign, s[1], ClientPort, s[2], ct)
                                  EXCEPT !.in = "pub"]) = "DROP"
    BY DEF LockedPortsClosed
  <2>. DEFINE p == [Packet(src, Config(cfg).net.foreign, s[1], ClientPort, s[2], ct) EXCEPT !.in = "pub"]
  <2>1. p.in = "pub" /\ p.dst = Config(cfg).net.foreign /\ p.proto = s[1] /\ p.dport = s[2]
    BY ZenonT(30) DEF Packet
  <2>. HIDE DEF p
  <2>2. Verdict(kernel, "HSH_INPUT", p) = "DROP"
    BY ZenonT(30), <2>1, LockedClosed
  <2>. QED
    BY ZenonT(30), <2>2 DEF p
<1>. QED
  BY <1>1, RoutingInvariance, PTL
============================================================================

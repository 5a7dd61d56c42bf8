------------------------- MODULE SmartReturnProofs -------------------------
(***************************************************************************)
(* Proofs about Smart Return.  The controller keeps the promise of         *)
(* Hysteresis for all thresholds and for all sequences of results; and     *)
(* around it, for any capacity of the ack channel and any number of        *)
(* faults, the route follows the controller, neither a graceful stop nor   *)
(* any other leaves something behind, and the downloads go back to the     *)
(* direct path only after enough probes that really crossed it.            *)
(***************************************************************************)
EXTENDS SmartReturn, ReturnController, SequenceTheorems, TLAPS

USE ThresholdAssumption, MaxResultsAssumption, SmartReturnAssumption

----------------------------------------------------------------------------
(* The controller.                                                         *)

\* What observe returns, field by field.
LEMMA ObserveResult ==
  ASSUME NEW r \in ReturnPathController, NEW res \in Results
  PROVE  LET q == Observe(r, res) IN
         /\ q \in ReturnPathController
         /\ r.path = "direct" /\ res = "ok" => q.path = "direct" /\ q.failures = 0
         /\ r.path = "direct" /\ res = "fail" =>
              IF r.failures + 1 >= FailThreshold
              THEN q.path = "tunnel" /\ q.successes = 0
              ELSE q.path = "direct" /\ q.failures = r.failures + 1
         /\ r.path = "tunnel" /\ res = "fail" => q.path = "tunnel" /\ q.successes = 0
         /\ r.path = "tunnel" /\ res = "ok" =>
              IF r.successes + 1 >= RecoverThreshold
              THEN q.path = "direct" /\ q.failures = 0
              ELSE q.path = "tunnel" /\ q.successes = r.successes + 1
<1>1. CASE r.path = "direct" /\ res = "ok"
  BY <1>1 DEF Observe, ReturnPathController, Paths, Results
<1>2. CASE r.path = "direct" /\ res = "fail"
  BY <1>2 DEF Observe, Fresh, ReturnPathController, Paths, Results
<1>3. CASE r.path = "tunnel" /\ res = "fail"
  BY <1>3 DEF Observe, ReturnPathController, Paths, Results
<1>4. CASE r.path = "tunnel" /\ res = "ok"
  BY <1>4 DEF Observe, Fresh, ReturnPathController, Paths, Results
<1>. QED
  BY <1>1, <1>2, <1>3, <1>4 DEF ReturnPathController, Paths, Results

\* In terms of the counter in use: a result in favour of the path resets it, an
\* adverse one advances it or, at the limit, changes the path.
LEMMA ObserveCounts ==
  ASSUME ControllerTypeOK, CountsTheRun, NEW res \in Results, ObserveStep(res)
  PROVE  /\ ctl' \in ReturnPathController
         /\ Counted \in Nat /\ Limit \in Nat \ {0}
         /\ res # Bad => ctl'.path = ctl.path /\ Counted' = 0
         /\ res = Bad /\ Counted + 1 < Limit => ctl'.path = ctl.path /\ Counted' = Counted + 1
         /\ res = Bad /\ Counted + 1 >= Limit =>
              /\ ctl'.path = IF ctl.path = "direct" THEN "tunnel" ELSE "direct"
              /\ Counted' = 0
         /\ ctl'.path = ctl.path => Bad' = Bad /\ Limit' = Limit
         /\ Limit' \in Nat \ {0}
<1>1. /\ ctl \in ReturnPathController /\ ctl.path \in {"direct", "tunnel"}
      /\ ctl.failures \in Nat /\ ctl.successes \in Nat
      /\ res \in {"ok", "fail"}
  BY DEF ControllerTypeOK, ReturnPathController, Paths, Results
<1>2. ctl' = Observe(ctl, res)
  BY DEF ObserveStep
<1>3. CASE ctl.path = "direct"
  BY <1>1, <1>2, <1>3, ObserveResult DEF Counted, Limit, Bad
<1>4. CASE ctl.path = "tunnel"
  BY <1>1, <1>2, <1>4, ObserveResult DEF Counted, Limit, Bad
<1>. QED
  BY <1>1, <1>3, <1>4

\* The history after a result that leaves the path as it is.
LEMMA History ==
  ASSUME ControllerTypeOK, NEW res \in Results
  PROVE  /\ Append(since, res) \in Seq(Results)
         /\ Len(since) \in Nat
         /\ Len(Append(since, res)) = Len(since) + 1
         /\ Append(since, res)[Len(since) + 1] = res
         /\ \A i \in 1 .. Len(since) : Append(since, res)[i] = since[i]
  BY AppendProperties, LenProperties DEF ControllerTypeOK

\* A result keeps the counter equal to the adverse run that ends the history.
LEMMA CountsStep ==
  ASSUME ControllerTypeOK, CountsTheRun, NEW res \in Results, ObserveStep(res)
  PROVE  ControllerTypeOK' /\ CountsTheRun'
<1>. DEFINE L == Len(since)
<1>1. L \in Nat /\ Counted \in Nat /\ Limit \in Nat \ {0} /\ Limit' \in Nat \ {0}
  BY History, ObserveCounts
<1>2. CASE res # Bad
  <2>1. ctl'.path = ctl.path /\ Counted' = 0 /\ Bad' = Bad /\ since' = Append(since, res)
    BY <1>2, ObserveCounts DEF ObserveStep
  <2>2. since' \in Seq(Results) /\ Len(since') = L + 1 /\ since'[L + 1] = res
    BY <2>1, History
  <2>3. ControllerTypeOK'
    BY <2>2, ObserveCounts DEF ControllerTypeOK
  <2>4. CountsTheRun'
    BY <1>1, <1>2, <2>1, <2>2 DEF CountsTheRun
  <2>. QED
    BY <2>3, <2>4
<1>3. CASE res = Bad /\ Counted + 1 < Limit
  <2>1. /\ ctl'.path = ctl.path /\ Counted' = Counted + 1 /\ Bad' = Bad /\ Limit' = Limit
        /\ since' = Append(since, res)
    BY <1>3, ObserveCounts DEF ObserveStep
  <2>2. /\ since' \in Seq(Results) /\ Len(since') = L + 1 /\ since'[L + 1] = res
        /\ \A i \in 1 .. L : since'[i] = since[i]
    BY <2>1, History
  <2>3. ControllerTypeOK'
    BY <2>2, ObserveCounts DEF ControllerTypeOK
  <2>4. CountsTheRun'
    <3>1. Counted' < Limit' /\ Counted' <= Len(since')
      BY <1>1, <1>3, <2>1, <2>2 DEF CountsTheRun
    <3>2. \A i \in Len(since') - Counted' + 1 .. Len(since') : since'[i] = Bad'
      <4>0. Len(since') - Counted' + 1 = L - Counted + 1
        BY <1>1, <2>1, <2>2
      <4>. SUFFICES ASSUME NEW i \in L - Counted + 1 .. L + 1
                    PROVE  since'[i] = Bad
        BY Zenon, <2>1, <2>2, <4>0
      <4>1. CASE i = L + 1
        BY <1>3, <2>2, <4>1
      <4>2. CASE i # L + 1
        <5>1. i \in L - Counted + 1 .. L /\ i \in 1 .. L
          BY <1>1, <4>2 DEF CountsTheRun
        <5>. QED
          BY <2>2, <5>1 DEF CountsTheRun
      <4>. QED
        BY <4>1, <4>2
    <3>3. Counted' < Len(since') => since'[Len(since') - Counted'] # Bad'
      <4>. SUFFICES ASSUME Counted < L
                    PROVE  since'[L - Counted] # Bad
        BY SMTT(60), <1>1, <2>1, <2>2
      <4>1. L - Counted \in 1 .. L /\ since[L - Counted] # Bad
        BY <1>1 DEF CountsTheRun
      <4>. QED
        BY <2>2, <4>1
    <3>. QED
      BY <3>1, <3>2, <3>3 DEF CountsTheRun
  <2>. QED
    BY <2>3, <2>4
<1>4. CASE res = Bad /\ Counted + 1 >= Limit
  <2>1. Counted' = 0 /\ since' = <<>> /\ ctl'.path # ctl.path
    BY SMTT(60), <1>4, ObserveCounts DEF ObserveStep, ControllerTypeOK, ReturnPathController, Paths
  <2>2. ControllerTypeOK'
    BY <2>1, ObserveCounts DEF ControllerTypeOK
  <2>3. CountsTheRun'
    BY <1>1, <2>1 DEF CountsTheRun
  <2>. QED
    BY <2>2, <2>3
<1>. QED
  BY <1>1, <1>2, <1>3, <1>4

\* The counter in use is the length of the adverse run that ends the history,
\* in every state of the controller (observe).
THEOREM ControllerCounts == ControllerSpec => [](ControllerTypeOK /\ CountsTheRun)
<1>1. ControllerInit => ControllerTypeOK /\ CountsTheRun
  BY DEF ControllerInit, ControllerTypeOK, CountsTheRun, Counted, Limit, Bad, NewController,
         Fresh, ReturnPathController, Paths
<1>2. ControllerTypeOK /\ CountsTheRun /\ [ControllerNext]_controllerVars => (ControllerTypeOK /\ CountsTheRun)'
  <2>. SUFFICES ASSUME ControllerTypeOK, CountsTheRun, [ControllerNext]_controllerVars
                PROVE  (ControllerTypeOK /\ CountsTheRun)'
    OBVIOUS
  <2>1. CASE UNCHANGED controllerVars
    BY <2>1 DEF controllerVars, ControllerTypeOK, CountsTheRun, Counted, Limit, Bad
  <2>2. CASE ControllerNext
    BY <2>2, CountsStep DEF ControllerNext
  <2>. QED
    BY <2>1, <2>2
<1>. QED
  BY <1>1, <1>2, PTL DEF ControllerSpec

----------------------------------------------------------------------------
\* The run is long enough exactly when the counter is about to reach the limit.
LEMMA ConvincedMeansLimit ==
  ASSUME ControllerTypeOK, CountsTheRun, NEW res \in Results, ObserveStep(res)
  PROVE  Promise!Convinced(Append(since, res)) <=> res = Bad /\ Counted + 1 >= Limit
<1>. DEFINE L == Len(since)
            s == Append(since, res)
<1>1. L \in Nat /\ Counted \in Nat /\ Limit \in Nat \ {0}
  BY History, ObserveCounts
<1>2. Len(s) = L + 1 /\ s[L + 1] = res /\ \A i \in 1 .. L : s[i] = since[i]
  BY History
<1>. HIDE DEF s
<1>3. Promise!Convinced(s) <=>
        /\ L + 1 >= Limit
        /\ \A i \in L + 1 - Limit + 1 .. L + 1 : s[i] = Bad
  BY <1>2 DEF Promise!Convinced, Promise!Threshold, Promise!Against, Limit, Bad
<1>4. ASSUME res = Bad, Counted + 1 >= Limit
      PROVE  Promise!Convinced(s)
  <2>1. Counted + 1 = Limit /\ L + 1 >= Limit
    BY <1>1, <1>4 DEF CountsTheRun
  <2>2. ASSUME NEW i \in L + 1 - Limit + 1 .. L + 1
        PROVE  s[i] = Bad
    <3>1. CASE i = L + 1
      BY <1>2, <1>4, <3>1
    <3>2. CASE i # L + 1
      <4>1. i \in L - Counted + 1 .. L /\ i \in 1 .. L
        BY <1>1, <2>1, <3>2
      <4>. QED
        BY <1>2, <4>1 DEF CountsTheRun
    <3>. QED
      BY <3>1, <3>2
  <2>. QED
    BY <1>3, <2>1, <2>2
<1>5. ASSUME Promise!Convinced(s)
      PROVE  res = Bad
  <2>1. L + 1 \in L + 1 - Limit + 1 .. L + 1
    BY <1>1
  <2>. QED
    BY <1>2, <1>3, <1>5, <2>1
<1>6. ASSUME Promise!Convinced(s), Counted + 1 < Limit
      PROVE  FALSE
  <2>1. Counted < L /\ L - Counted \in L + 1 - Limit + 1 .. L + 1 /\ L - Counted \in 1 .. L
    BY <1>1, <1>3, <1>6
  <2>2. since[L - Counted] # Bad
    BY <2>1 DEF CountsTheRun
  <2>. QED
    BY <1>2, <1>3, <1>6, <2>1, <2>2
<1>. QED
  BY <1>1, <1>4, <1>5, <1>6 DEF s

\* The controller implements the promise: its path changes when the last N
\* results since the last change are against it, then and only then (observe
\* and the comment on it).
THEOREM ControllerKeepsHysteresis == ControllerSpec => KeepsHysteresis
<1>1. ControllerInit => Promise!Init
  BY DEF ControllerInit, Promise!Init, NewController, Fresh
<1>2. ControllerTypeOK /\ CountsTheRun /\ [ControllerNext]_controllerVars => [Promise!Next]_<<ctl.path, since>>
  <2>. SUFFICES ASSUME ControllerTypeOK, CountsTheRun, NEW res \in Results, ObserveStep(res)
                PROVE  Promise!Next
    BY DEF ControllerNext, controllerVars
  <2>1. CASE res = Bad /\ Counted + 1 >= Limit
    <3>1. /\ ctl'.path = IF ctl.path = "direct" THEN "tunnel" ELSE "direct"
          /\ since' = <<>>
      BY SMTT(60), <2>1, ObserveCounts DEF ObserveStep, ControllerTypeOK, ReturnPathController, Paths
    <3>2. Promise!Change(res)
      BY <2>1, <3>1, ConvincedMeansLimit DEF Promise!Change, Promise!Other
    <3>. QED
      BY <3>2 DEF Promise!Next, Results
  <2>2. CASE ~(res = Bad /\ Counted + 1 >= Limit)
    <3>1. Counted \in Nat /\ Limit \in Nat
      BY ObserveCounts
    <3>2. ctl'.path = ctl.path
      BY <2>2, <3>1, ObserveCounts
    <3>3. since' = Append(since, res)
      BY <3>2 DEF ObserveStep
    <3>4. Promise!Stay(res)
      BY <2>2, <3>2, <3>3, ConvincedMeansLimit DEF Promise!Stay
    <3>. QED
      BY <3>4 DEF Promise!Next, Results
  <2>. QED
    BY <2>1, <2>2
<1>. QED
  BY <1>1, <1>2, ControllerCounts, PTL DEF ControllerSpec, KeepsHysteresis, Promise!Spec

----------------------------------------------------------------------------
(* The monitor, the route and the process around it.                       *)

\* Between two lives of the process there is a new controller and nothing of
\* the policy; the monitor starts on the direct path; and while nothing has
\* failed the route agrees with the controller whenever the monitor is not
\* about to switch.
Route ==
  /\ main = "stopped" => ctl = NewController /\ kernel = {} /\ mon = "dead"
  /\ main = "run" /\ mon = "init" => ctl.path = "direct"
  /\ RouteFollowsController

\* An ack that carries the nonce of the probe the monitor waits for was made
\* by the responder, so that probe has crossed; and the controller never
\* counts more successes than there were such probes in a row.
Counting ==
  /\ mon = "wait" /\ ("own" \in acks \/ \E i \in 1 .. Len(chan) : chan[i] = "own") => crossed
  /\ ctl.path = "tunnel" => ctl.successes <= okRun /\ ctl.successes < RecoverThreshold

\* The inductive invariant.
IInv == TypeOK /\ Route /\ GracefulStopIsClean /\ Counting

\* Drawing a nonce makes every packet under way stale (Draw).
LEMMA DrawMakesStale ==
  ASSUME TypeOK, NEW sent \in SUBSET Nonces, Draw(sent)
  PROVE  /\ probes' \subseteq Nonces
         /\ acks' \subseteq Nonces /\ "own" \notin acks'
         /\ chan' \in Seq(Nonces) /\ Len(chan') = Len(chan)
         /\ \A i \in 1 .. Len(chan') : chan'[i] # "own"
<1>1. probes' \subseteq Nonces
  BY Zenon DEF TypeOK, Draw, Nonces
<1>2. acks' \subseteq Nonces /\ "own" \notin acks'
  BY DEF TypeOK, Draw, Nonces
<1>3. Len(chan) \in Nat /\ DOMAIN chan = 1 .. Len(chan)
  BY LenProperties DEF TypeOK
<1>4. chan' = [i \in 1 .. Len(chan) |-> "stale"]
  BY <1>3 DEF Draw
<1>5. chan' \in Seq(Nonces) /\ Len(chan') = Len(chan)
  BY <1>3, <1>4, IsASeq, LenProperties DEF Nonces
<1>. QED
  BY <1>1, <1>2, <1>4, <1>5

\* Receiving from the channel (WaitAck, WaitStale).
LEMMA TailOfChan ==
  ASSUME TypeOK, chan # <<>>
  PROVE  /\ Tail(chan) \in Seq(Nonces) /\ Len(Tail(chan)) <= AckQueue
         /\ Head(chan) = chan[1] /\ 1 \in 1 .. Len(chan)
         /\ \A i \in 1 .. Len(Tail(chan)) : i + 1 \in 1 .. Len(chan) /\ Tail(chan)[i] = chan[i + 1]
  BY HeadTailProperties, LenProperties, EmptySeq DEF TypeOK

\* Sending on the channel (AckArrives).
LEMMA AppendToChan ==
  ASSUME TypeOK, NEW n \in Nonces, Len(chan) < AckQueue
  PROVE  /\ Append(chan, n) \in Seq(Nonces) /\ Len(Append(chan, n)) <= AckQueue
         /\ \A i \in 1 .. Len(Append(chan, n)) :
              Append(chan, n)[i] = n \/ (i \in 1 .. Len(chan) /\ Append(chan, n)[i] = chan[i])
<1>1. Len(chan) \in Nat
  BY LenProperties DEF TypeOK
<1>. QED
  BY <1>1, AppendProperties DEF TypeOK

\* The verdict on a probe keeps the count of successes within the probes that
\* crossed, if only a probe that crossed is a success.
LEMMA ConcludeCounts ==
  ASSUME TypeOK, Counting, NEW res \in Results, Conclude(res), res = "ok" => crossed
  PROVE  /\ ctl' \in ReturnPathController
         /\ mon' \in {"idle", "switch"}
         /\ mon' = "idle" => ctl'.path = ctl.path
         /\ okRun' \in 0 .. RecoverThreshold
         /\ crossed' = FALSE
         /\ ctl'.path = "tunnel" => ctl'.successes <= okRun' /\ ctl'.successes < RecoverThreshold
         /\ ctl.path = "tunnel" /\ ctl'.path = "direct" => okRun' = RecoverThreshold
<1>1. /\ ctl \in ReturnPathController /\ ctl.path \in {"direct", "tunnel"}
      /\ ctl.failures \in Nat /\ ctl.successes \in Nat
      /\ okRun \in 0 .. RecoverThreshold /\ crossed \in BOOLEAN
      /\ res \in {"ok", "fail"}
  BY DEF TypeOK, ReturnPathController, Paths, Results
<1>2. ctl' = Observe(ctl, res)
  BY DEF Conclude
<1>3. ctl' \in ReturnPathController
  BY <1>1, <1>2, ObserveResult
<1>4. /\ mon' \in {"idle", "switch"}
      /\ mon' = "idle" => ctl'.path = ctl.path
      /\ crossed' = FALSE
  BY DEF Conclude
<1>5. /\ okRun' \in 0 .. RecoverThreshold
      /\ crossed => okRun' = IF okRun < RecoverThreshold THEN okRun + 1 ELSE okRun
  BY <1>1 DEF Conclude
<1>6. CASE ctl.path = "direct"
  <2>1. ctl'.path = "tunnel" => ctl'.successes = 0
    BY <1>1, <1>2, <1>6, ObserveResult
  <2>. QED
    BY <1>3, <1>4, <1>5, <1>6, <2>1
<1>7. CASE ctl.path = "tunnel" /\ res = "fail"
  <2>1. ctl'.path = "tunnel" /\ ctl'.successes = 0
    BY <1>1, <1>2, <1>7, ObserveResult
  <2>. QED
    BY <1>3, <1>4, <1>5, <2>1
<1>8. CASE ctl.path = "tunnel" /\ res = "ok"
  <2>1. /\ ctl.successes <= okRun /\ ctl.successes < RecoverThreshold
        /\ okRun' = IF okRun < RecoverThreshold THEN okRun + 1 ELSE okRun
    BY <1>5, <1>8 DEF Counting
  <2>2. IF ctl.successes + 1 >= RecoverThreshold
        THEN ctl'.path = "direct"
        ELSE ctl'.path = "tunnel" /\ ctl'.successes = ctl.successes + 1
    BY SMTT(60), <1>1, <1>2, <1>8, ObserveResult
  <2>. QED
    BY <1>1, <1>3, <1>4, <1>5, <2>1, <2>2
<1>. QED
  BY ZenonT(60), <1>1, <1>6, <1>7, <1>8

\* A step of run or of systemd.
LEMMA ProcessKeeps ==
  ASSUME IInv, Process
  PROVE  IInv'
<1>. USE DEF IInv, Route, RouteFollowsController, GracefulStopIsClean, Counting
<1>1. CASE Start
  <2>1. TypeOK'
    BY <1>1 DEF Start, TypeOK, Items, NewController, Fresh
  <2>. QED
    BY <1>1, <2>1 DEF Start, TypeOK, Items, NewController, Fresh
<1>2. CASE StartFails
  <2>1. TypeOK'
    BY <1>2 DEF StartFails, Fault, Cleaned, TypeOK, Items
  <2>. QED
    BY <1>2, <2>1 DEF StartFails, Fault, Cleaned, TypeOK, Items
<1>3. CASE Shutdown
  <2>1. TypeOK'
    BY <1>3 DEF Shutdown, TypeOK
  <2>. QED
    BY <1>3, <2>1 DEF Shutdown, TypeOK
<1>4. CASE Join
  <2>1. TypeOK'
    BY <1>4 DEF Join, Cleaned, TypeOK, Items
  <2>. QED
    BY <1>4, <2>1 DEF Join, Cleaned, TypeOK, Items
<1>5. CASE JoinTimeout
  <2>1. TypeOK'
    BY SMTT(60), <1>5 DEF JoinTimeout, Cleaned, TypeOK, Items
  <2>. QED
    BY <1>5, <2>1 DEF JoinTimeout, Cleaned, TypeOK, Items
<1>6. CASE Crash
  <2>1. TypeOK'
    BY SMTT(60), <1>6 DEF Crash, Alive, TypeOK
  <2>. QED
    BY <1>6, <2>1 DEF Crash, Alive, TypeOK
<1>7. CASE StopPost
  <2>1. chan' \in Seq(Nonces) /\ Len(chan') = 0
    BY <1>7 DEF StopPost
  <2>2. ctl' \in ReturnPathController
    BY <1>7 DEF StopPost, NewController, Fresh, ReturnPathController, Paths
  <2>3. kernel' \subseteq Items /\ sessions' \subseteq Hosts /\ okRun' \in 0 .. RecoverThreshold
    BY <1>7 DEF StopPost, Cleaned, TypeOK
  <2>4. crossed' \in BOOLEAN
    BY ZenonT(60), <1>7 DEF StopPost
  <2>5. TypeOK'
    BY <1>7, <2>1, <2>2, <2>3, <2>4 DEF StopPost, TypeOK
  <2>. QED
    BY <1>7, <2>1, <2>5 DEF StopPost, Cleaned, TypeOK, NewController, Fresh, Items
<1>. QED
  BY SMTT(60), <1>1, <1>2, <1>3, <1>4, <1>5, <1>6, <1>7 DEF Process

\* A step of the monitor.
LEMMA MonitorKeeps ==
  ASSUME IInv, Monitor
  PROVE  IInv'
<1>. USE DEF IInv, Route, RouteFollowsController, GracefulStopIsClean, Counting
<1>1. CASE MonitorInit
  <2>1. TypeOK'
    BY <1>1 DEF MonitorInit, Alive, TypeOK
  <2>. QED
    BY <1>1, <2>1 DEF MonitorInit, Alive, TypeOK
<1>2. CASE MonitorNoSocket
  <2>1. TypeOK'
    BY <1>2 DEF MonitorNoSocket, Fault, Alive, TypeOK
  <2>. QED
    BY <1>2, <2>1 DEF MonitorNoSocket, Fault, Alive, TypeOK
<1>3. CASE ProbeSend
  <2>1. Draw({"own"}) /\ {"own"} \in SUBSET Nonces
    BY <1>3 DEF ProbeSend, Nonces
  <2>2. TypeOK'
    BY <1>3, <2>1, DrawMakesStale DEF ProbeSend, TypeOK
  <2>3. Counting'
    BY <1>3, <2>1, DrawMakesStale DEF ProbeSend
  <2>. QED
    BY <1>3, <2>2, <2>3 DEF ProbeSend, Alive
<1>4. CASE ProbeWriteFails
  <2>1. Draw({}) /\ {} \in SUBSET Nonces /\ Conclude("fail") /\ "fail" \in Results
    BY <1>4 DEF ProbeWriteFails, Results
  <2>2. faults' \in 0 .. MaxFaults /\ faults' # 0
    BY <1>4 DEF ProbeWriteFails, Fault, TypeOK
  <2>3. probes' \subseteq Nonces /\ acks' \subseteq Nonces /\ chan' \in Seq(Nonces) /\ Len(chan') <= AckQueue
    BY <2>1, DrawMakesStale DEF TypeOK
  <2>4. /\ ctl' \in ReturnPathController /\ okRun' \in 0 .. RecoverThreshold
        /\ mon' \in {"idle", "switch"} /\ crossed' \in BOOLEAN
    BY ZenonT(60), <2>1, ConcludeCounts
  <2>5. TypeOK'
    BY <1>4, <2>2, <2>3, <2>4 DEF ProbeWriteFails, TypeOK
  <2>6. Counting'
    BY Zenon, <2>1, <2>4, ConcludeCounts
  <2>. QED
    BY <1>4, <2>2, <2>4, <2>5, <2>6 DEF ProbeWriteFails, Alive
<1>5. CASE WaitAck
  <2>1. Conclude("ok") /\ "ok" \in Results /\ crossed
    BY <1>5, TailOfChan DEF WaitAck, Results
  <2>2. TypeOK'
    BY Zenon, <1>5, <2>1, TailOfChan, ConcludeCounts DEF WaitAck, TypeOK
  <2>3. Counting'
    BY ZenonT(60), <2>1, ConcludeCounts
  <2>. QED
    BY ZenonT(60), <1>5, <2>1, <2>2, <2>3, ConcludeCounts DEF WaitAck, Alive
<1>6. CASE WaitStale
  <2>1. TypeOK'
    BY <1>6, TailOfChan DEF WaitStale, TypeOK
  <2>2. Counting'
    BY <1>6, TailOfChan DEF WaitStale
  <2>. QED
    BY SMTT(60), <1>6, <2>1, <2>2 DEF WaitStale, Alive
<1>7. CASE WaitTimeout
  <2>1. Conclude("fail") /\ "fail" \in Results
    BY <1>7 DEF WaitTimeout, Results
  <2>2. TypeOK'
    BY Zenon, <1>7, <2>1, ConcludeCounts DEF WaitTimeout, TypeOK
  <2>3. Counting'
    BY ZenonT(60), <2>1, ConcludeCounts
  <2>. QED
    BY ZenonT(60), <1>7, <2>1, <2>2, <2>3, ConcludeCounts DEF WaitTimeout
<1>8. CASE WaitCancelled
  <2>1. Conclude("fail") /\ "fail" \in Results
    BY <1>8 DEF WaitCancelled, Results
  <2>2. TypeOK'
    BY ZenonT(60), <1>8, <2>1, ConcludeCounts DEF WaitCancelled, TypeOK
  <2>3. Counting'
    BY Zenon, <2>1, ConcludeCounts
  <2>. QED
    BY <1>8, <2>1, <2>2, <2>3, ConcludeCounts DEF WaitCancelled
<1>9. CASE Switch
  <2>1. TypeOK'
    BY <1>9 DEF Switch, Alive, Items, TypeOK
  <2>2. "route" \in kernel' <=> ctl'.path = "tunnel"
    BY <1>9 DEF Switch
  <2>3. Counting'
    BY SMTT(60), <1>9 DEF Switch
  <2>. QED
    BY SMTT(60), <1>9, <2>1, <2>2, <2>3 DEF Switch, Alive
<1>10. CASE SwitchFails
  <2>1. TypeOK'
    BY SMTT(60), <1>10 DEF SwitchFails, Fault, Alive, TypeOK
  <2>. QED
    BY SMTT(60), <1>10, <2>1 DEF SwitchFails, Fault, Alive, TypeOK
<1>11. CASE MonitorExit
  <2>1. TypeOK'
    BY SMTT(60), <1>11 DEF MonitorExit, TypeOK
  <2>. QED
    BY <1>11, <2>1 DEF MonitorExit, TypeOK
<1>. QED
  BY ZenonT(60), <1>1, <1>2, <1>3, <1>4, <1>5, <1>6, <1>7, <1>8, <1>9, <1>10, <1>11 DEF Monitor

\* A step of the network, of the responder or of a session.
LEMMA NetworkKeeps ==
  ASSUME IInv, Network
  PROVE  IInv'
<1>. USE DEF IInv, Route, RouteFollowsController, GracefulStopIsClean, Counting
<1>1. ASSUME NEW n \in Nonces, ProbeArrives(n)
      PROVE  IInv'
  <2>1. TypeOK'
    BY SMTT(60), <1>1 DEF ProbeArrives, TypeOK, Nonces
  <2>. QED
    BY ZenonT(60), <1>1, <2>1 DEF ProbeArrives, TypeOK, Nonces
<1>2. ASSUME NEW n \in Nonces, AckArrives(n)
      PROVE  IInv'
  <2>1. TypeOK'
    BY SMTT(60), <1>2 DEF AckArrives, TypeOK, Nonces
  <2>. QED
    BY SMTT(60), <1>2, <2>1 DEF AckArrives, TypeOK, Nonces
<1>3. ASSUME NEW n \in Nonces, ProbeLost(n)
      PROVE  IInv'
  <2>1. TypeOK'
    BY SMTT(60), <1>3 DEF ProbeLost, TypeOK
  <2>. QED
    BY SMTT(60), <1>3, <2>1 DEF ProbeLost, TypeOK
<1>4. ASSUME NEW n \in Nonces, AckLost(n)
      PROVE  IInv'
  <2>1. TypeOK'
    BY SMTT(60), <1>4 DEF AckLost, TypeOK
  <2>. QED
    BY SMTT(60), <1>4, <2>1 DEF AckLost, TypeOK
<1>5. CASE ResponderExit
  <2>1. TypeOK'
    BY SMTT(60), <1>5 DEF ResponderExit, Fault, TypeOK
  <2>. QED
    BY SMTT(60), <1>5, <2>1 DEF ResponderExit, Fault, TypeOK
<1>6. ASSUME NEW d \in {"up", "slow", "down"}, SetDirect(d)
      PROVE  IInv'
  <2>1. TypeOK'
    BY SMTT(60), <1>6 DEF SetDirect, TypeOK
  <2>. QED
    BY SMTT(60), <1>6, <2>1 DEF SetDirect, TypeOK
<1>7. ASSUME NEW h \in Hosts, SessionUp(h)
      PROVE  IInv'
  <2>1. TypeOK'
    BY SMTT(60), <1>7 DEF SessionUp, TypeOK
  <2>. QED
    BY SMTT(60), <1>7, <2>1 DEF SessionUp, TypeOK
<1>8. ASSUME NEW h \in Hosts, SessionDown(h)
      PROVE  IInv'
  <2>1. TypeOK'
    BY <1>8 DEF SessionDown, TypeOK
  <2>. QED
    BY <1>8, <2>1 DEF SessionDown, TypeOK
<1>. QED
  BY <1>1, <1>2, <1>3, <1>4, <1>5, <1>6, <1>7, <1>8 DEF Network

\* The invariant holds in every reachable state.
THEOREM ReturnInvariant == Spec => []IInv
<1>1. Init => IInv
  <2>. SUFFICES ASSUME Init
                PROVE  IInv
    OBVIOUS
  <2>1. chan \in Seq(Nonces) /\ Len(chan) = 0
    BY DEF Init
  <2>2. ctl \in ReturnPathController /\ ctl.path = "direct"
    BY DEF Init, NewController, Fresh, ReturnPathController, Paths
  <2>3. faults \in 0 .. MaxFaults /\ okRun \in 0 .. RecoverThreshold
    BY DEF Init
  <2>4. crossed \in BOOLEAN
    BY Zenon DEF Init
  <2>5. TypeOK
    BY <2>1, <2>2, <2>3, <2>4 DEF Init, TypeOK
  <2>. QED
    BY <2>2, <2>5 DEF Init, IInv, Route, RouteFollowsController, GracefulStopIsClean, Counting
<1>2. IInv /\ [Next]_vars => IInv'
  <2>. SUFFICES ASSUME IInv, [Next]_vars
                PROVE  IInv'
    BY SMTT(60)
  <2>1. CASE UNCHANGED vars
    BY <2>1 DEF vars, IInv, TypeOK, Route, RouteFollowsController, GracefulStopIsClean, Counting
  <2>2. CASE Next
    BY <2>2, ProcessKeeps, MonitorKeeps, NetworkKeeps DEF Next
  <2>. QED
    BY <2>1, <2>2
<1>. QED
  BY <1>1, <1>2, PTL DEF Spec

\* Between two lives of the process nothing of the policy is there, however the
\* first one ended (KillMode=control-group, ExecStopPost, -cleanup).
THEOREM StopLeavesNothing == Spec => []StoppedIsClean
<1>1. IInv => StoppedIsClean
  BY DEF IInv, Route, StoppedIsClean
<1>. QED
  BY <1>1, ReturnInvariant, PTL

\* As long as no command fails, between two probes the kernel has the tunnel
\* route exactly when the controller is on the tunnel path
\* (runDirectProbeMonitor, setKharejReturnPath).
THEOREM RouteAgrees == Spec => []RouteFollowsController
  BY ReturnInvariant, PTL DEF IInv, Route

\* A process that ends after its workers leaves nothing of the policy behind
\* (the deferred cleanup of run).
THEOREM GracefulStopCleans == Spec => []GracefulStopIsClean
  BY ReturnInvariant, PTL DEF IInv

\* Only the verdict on a probe moves a living process from the tunnel to the
\* direct path, and that verdict completes RecoverThreshold probes in a row
\* that crossed (waitProbeAck, observe).
THEOREM RecoveryNeedsCrossings == Spec => RecoveryJustified
<1>1. ASSUME IInv, [Next]_vars
      PROVE  [ctl.path = "tunnel" /\ ctl'.path = "direct" /\ main # "exit"
                => okRun' = RecoverThreshold]_vars
  <2>. SUFFICES ASSUME Next, ctl.path = "tunnel", ctl'.path = "direct", main # "exit"
                PROVE  okRun' = RecoverThreshold
    BY <1>1
  <2>0. TypeOK /\ Counting
    BY <1>1 DEF IInv
  <2>1. ctl' # ctl
    BY SMTT(60)
  <2>2. ~Process
    BY SMTT(60), <2>1 DEF Process, Start, StartFails, Shutdown, Join, JoinTimeout, Crash, StopPost
  <2>3. ~Network
    BY SMTT(60), <2>1 DEF Network, ProbeArrives, AckArrives, ProbeLost, AckLost, ResponderExit, SetDirect,
                SessionUp, SessionDown
  <2>4. WaitAck \/ ProbeWriteFails \/ WaitTimeout \/ WaitCancelled
    BY <2>1, <2>2, <2>3 DEF Next, Monitor, MonitorInit, MonitorNoSocket, ProbeSend, WaitStale,
                            Switch, SwitchFails, MonitorExit
  <2>5. CASE WaitAck
    <3>1. Conclude("ok") /\ "ok" \in Results /\ crossed
      BY <2>0, <2>5, TailOfChan DEF WaitAck, Results, Counting
    <3>. QED
      BY ZenonT(60), <2>0, <3>1, ConcludeCounts
  <2>6. CASE ProbeWriteFails \/ WaitTimeout \/ WaitCancelled
    <3>1. Conclude("fail") /\ "fail" \in Results
      BY <2>6 DEF ProbeWriteFails, WaitTimeout, WaitCancelled, Results
    <3>. QED
      BY ZenonT(60), <2>0, <3>1, ConcludeCounts
  <2>. QED
    BY <2>4, <2>5, <2>6
<1>. QED
  BY <1>1, ReturnInvariant, PTL DEF Spec, RecoveryJustified
============================================================================

---------------------------- MODULE SmartReturn ----------------------------
(***************************************************************************)
(* Smart Return (direct_probe.go, smart_return.go, smart_policy.go): the   *)
(* monitor on Kharej probes the direct path to Iran, the responder on Iran *)
(* answers inside the tunnel, and the controller moves the downloads by    *)
(* installing or flushing a route in table 168.  Around it, the part of    *)
(* run and of the systemd unit that set the policy up and take it down.    *)
(*                                                                         *)
(* The nonces of probes and acks are only ever compared with that of the   *)
(* latest probe: a packet is "own" (it carries that nonce) or "stale".  A  *)
(* tick without a session on Kharej changes nothing.                       *)
(***************************************************************************)
EXTENDS ReturnControllerOps, Sequences, Functions

CONSTANTS
  AckQueue,    \* capacity of tunnelState.probeAck (32 in the code)
  MaxFaults    \* bound: commands, sockets and reads that fail

ASSUME SmartReturnAssumption == AckQueue \in Nat \ {0} /\ MaxFaults \in Nat

Nonces == {"own", "stale"}
Hosts  == {"iran", "kharej"}
Items  == {"rule", "mark", "route"}   \* ip rule 68, HSH_MOUT marks, route in table 168

VARIABLES
  mon,        \* where runDirectProbeMonitor is
  responder,  \* runDirectProbeResponder: "up" or "gone"
  chan,       \* tunnelState.probeAck
  probes,     \* probes on the direct path
  acks,       \* acks inside the tunnel; handleEncrypted delivers each once
  sessions,   \* the hosts that hold a session
  direct,     \* the direct path: "up", "slow" (may miss the timeout) or "down"
  kernel,     \* what is installed on Kharej
  main,       \* run on Kharej: "run", "wait" (for the workers), "exit", "stopped"
  faults,     \* failures so far
  crossed,    \* history: the latest probe has been answered
  okRun       \* history: latest probes in a row that crossed before the verdict

vars == <<ctl, mon, responder, chan, probes, acks, sessions, direct, kernel, main,
          faults, crossed, okRun>>

\* The types, on which the proofs rest.
TypeOK ==
  /\ ctl \in ReturnPathController
  /\ mon \in {"init", "idle", "wait", "switch", "done", "dead"}
  /\ responder \in {"up", "gone"}
  /\ chan \in Seq(Nonces) /\ Len(chan) <= AckQueue
  /\ probes \subseteq Nonces /\ acks \subseteq Nonces
  /\ crossed \in BOOLEAN
  /\ sessions \subseteq Hosts
  /\ direct \in {"up", "slow", "down"}
  /\ kernel \subseteq Items
  /\ main \in {"run", "wait", "exit", "stopped"}
  /\ faults \in 0 .. MaxFaults
  /\ okRun \in 0 .. RecoverThreshold

Init ==
  /\ ctl = NewController
  /\ mon = "dead"
  /\ responder = "up"
  /\ chan = <<>>
  /\ probes = {} /\ acks = {} /\ crossed = FALSE
  /\ sessions = {}
  /\ direct \in {"up", "down"}
  /\ kernel = {}
  /\ main = "stopped"
  /\ faults = 0
  /\ okRun = 0

Fault == faults < MaxFaults /\ faults' = faults + 1
Alive == main \in {"run", "wait"}   \* the goroutines of Kharej run

----------------------------------------------------------------------------
(* run: set up and take down.                                              *)

\* Mutant: the cleanup deletes the rule and leaves the table.
CleanedButForTheRoute == kernel \ {"rule", "mark"}

\* cleanupSmartReturnPolicy and, for the marks, cleanupRouting.
Cleaned == kernel \ {"rule", "mark", "route"}

\* cleanup, setupRouting, setupSmartReturnPolicy, then the goroutines start
\* with a new tunnelState (Init, StopPost).
Start ==
  /\ main = "stopped"
  /\ main' = "run"
  /\ kernel' = {"rule", "mark"}
  /\ mon' = "init"
  /\ UNCHANGED <<ctl, responder, chan, probes, acks, sessions, direct, faults, crossed, okRun>>

\* A command of the setup fails: run rolls back and returns the error.
StartFails ==
  /\ main = "stopped"
  /\ Fault
  /\ main' = "exit"
  /\ kernel' = Cleaned
  /\ UNCHANGED <<ctl, mon, responder, chan, probes, acks, sessions, direct, crossed, okRun>>

\* SIGTERM, or a TUN queue failed: the context is cancelled, the carrier is
\* closed.
Shutdown ==
  /\ main = "run"
  /\ main' = "wait"
  /\ UNCHANGED <<ctl, mon, responder, chan, probes, acks, sessions, direct, kernel, faults,
                 crossed, okRun>>

\* The workers are done: the deferred cleanup, and the process ends.
Join ==
  /\ main = "wait"
  /\ mon = "done"
  /\ main' = "exit"
  /\ kernel' = Cleaned
  /\ UNCHANGED <<ctl, mon, responder, chan, probes, acks, sessions, direct, faults, crossed,
                 okRun>>

\* Five seconds are over first: the same, but an ip command that the monitor
\* started may still be running.
JoinTimeout ==
  /\ main = "wait"
  /\ mon # "done"
  /\ main' = "exit"
  /\ kernel' = Cleaned
  /\ mon' = IF mon = "switch" THEN "switch" ELSE "dead"
  /\ UNCHANGED <<ctl, responder, chan, probes, acks, sessions, direct, faults, crossed, okRun>>

\* The process dies without cleaning up.
Crash ==
  /\ Alive
  /\ main' = "exit"
  /\ mon' = IF mon = "switch" THEN "switch" ELSE "dead"
  /\ UNCHANGED <<ctl, responder, chan, probes, acks, sessions, direct, kernel, faults, crossed,
                 okRun>>

\* Mutant: the ip command that is still running is left alone (KillMode=process).
StopPostSparesCommand ==
  /\ main = "exit"
  /\ main' = "stopped"
  /\ kernel' = Cleaned
  /\ ctl' = IF mon = "switch" THEN ctl ELSE NewController   \* what it was called with
  /\ chan' = <<>>
  /\ okRun' = 0
  /\ crossed' = FALSE
  /\ sessions' = sessions \ {"kharej"}
  /\ UNCHANGED <<mon, responder, probes, acks, direct, faults>>

\* systemd: what is left of the control group is killed, then ExecStopPost
\* runs hashshashin -cleanup.  The state of the process is that of the next.
StopPost ==
  /\ main = "exit"
  /\ main' = "stopped"
  /\ mon' = "dead"
  /\ kernel' = Cleaned
  /\ ctl' = NewController
  /\ chan' = <<>>
  /\ okRun' = 0
  /\ crossed' = FALSE
  /\ sessions' = sessions \ {"kharej"}
  /\ UNCHANGED <<responder, probes, acks, direct, faults>>

----------------------------------------------------------------------------
(* runDirectProbeMonitor.                                                  *)

\* The socket is open: the direct path is set once more.
MonitorInit ==
  /\ Alive /\ mon = "init"
  /\ kernel' = kernel \ {"route"}
  /\ mon' = "idle"
  /\ UNCHANGED <<ctl, responder, chan, probes, acks, sessions, direct, main, faults, crossed,
                 okRun>>

\* No socket: the monitor gives up for good.
MonitorNoSocket ==
  /\ Alive /\ mon = "init"
  /\ Fault
  /\ mon' = "done"
  /\ UNCHANGED <<ctl, responder, chan, probes, acks, sessions, direct, kernel, main, crossed,
                 okRun>>

\* A new nonce is drawn: whatever carries an earlier one is stale.
Draw(sent) ==
  /\ probes' = sent \cup {"stale" : n \in probes}
  /\ acks' = {"stale" : n \in acks}
  /\ chan' = [i \in DOMAIN chan |-> "stale"]

\* A tick with a session (the select may prefer it to the cancelled context):
\* draw a nonce and write the probe.
ProbeSend ==
  /\ Alive /\ mon = "idle"
  /\ "kharej" \in sessions
  /\ Draw({"own"})
  /\ mon' = "wait"
  /\ UNCHANGED <<ctl, responder, sessions, direct, kernel, main, faults, crossed, okRun>>

\* observe, after which the path is switched if it has changed.
Conclude(res) ==
  /\ ctl' = Observe(ctl, res)
  /\ mon' = IF ctl'.path # ctl.path THEN "switch" ELSE "idle"
  /\ okRun' = IF ~crossed THEN 0
              ELSE IF okRun < RecoverThreshold THEN okRun + 1 ELSE okRun
  /\ crossed' = FALSE

\* The probe could not be written: a failed probe.
ProbeWriteFails ==
  /\ Alive /\ mon = "idle"
  /\ "kharej" \in sessions
  /\ Fault
  /\ Draw({})
  /\ Conclude("fail")
  /\ UNCHANGED <<responder, sessions, direct, kernel, main>>

\* Mutant: any ack will do.
WaitAckAny ==
  /\ Alive /\ mon = "wait"
  /\ chan # <<>>
  /\ chan' = Tail(chan)
  /\ Conclude("ok")
  /\ UNCHANGED <<responder, probes, acks, sessions, direct, kernel, main, faults>>

\* waitProbeAck receives the ack of its own probe.
WaitAck ==
  /\ Alive /\ mon = "wait"
  /\ chan # <<>>
  /\ Head(chan) = "own"
  /\ chan' = Tail(chan)
  /\ Conclude("ok")
  /\ UNCHANGED <<responder, probes, acks, sessions, direct, kernel, main, faults>>

\* It receives a late one and goes on waiting.
WaitStale ==
  /\ Alive /\ mon = "wait"
  /\ chan # <<>>
  /\ Head(chan) # "own"
  /\ chan' = Tail(chan)
  /\ UNCHANGED <<ctl, mon, responder, probes, acks, sessions, direct, kernel, main, faults,
                 crossed, okRun>>

\* The probe or its ack is on the way and everybody it needs is up.
Prompt ==
  /\ direct = "up" /\ sessions = Hosts /\ responder = "up"
  /\ "own" \in probes \cup acks \cup Range(chan)

\* Mutant: a probe that times out is not counted.
WaitTimeoutIgnored ==
  /\ main = "run" /\ mon = "wait"
  /\ ~Prompt
  /\ mon' = "idle"
  /\ UNCHANGED <<ctl, responder, chan, probes, acks, sessions, direct, kernel, main, faults,
                 crossed, okRun>>

\* The timer fires first.
WaitTimeout ==
  /\ main = "run" /\ mon = "wait"
  /\ ~Prompt
  /\ Conclude("fail")
  /\ UNCHANGED <<responder, chan, probes, acks, sessions, direct, kernel, main, faults>>

\* The context is cancelled, which counts as a failed probe as well.
WaitCancelled ==
  /\ main = "wait" /\ mon = "wait"
  /\ Conclude("fail")
  /\ UNCHANGED <<responder, chan, probes, acks, sessions, direct, kernel, main, faults>>

\* Mutant: the way back to the direct path leaves the route in place.
SwitchKeepsRoute ==
  /\ mon = "switch"
  /\ kernel' = IF ctl.path = "tunnel" THEN kernel \cup {"route"} ELSE kernel
  /\ mon' = IF Alive THEN "idle" ELSE "dead"
  /\ UNCHANGED <<ctl, responder, chan, probes, acks, sessions, direct, main, faults, crossed,
                 okRun>>

\* setKharejReturnPath: replace or flush the route.  The ip command outlives
\* the process if that ends meanwhile.
Switch ==
  /\ mon = "switch"
  /\ kernel' = IF ctl.path = "tunnel" THEN kernel \cup {"route"} ELSE kernel \ {"route"}
  /\ mon' = IF Alive THEN "idle" ELSE "dead"
  /\ UNCHANGED <<ctl, responder, chan, probes, acks, sessions, direct, main, faults, crossed,
                 okRun>>

\* The command fails: logged when it was the replace, ignored when the flush.
SwitchFails ==
  /\ mon = "switch"
  /\ Fault
  /\ mon' = IF Alive THEN "idle" ELSE "dead"
  /\ UNCHANGED <<ctl, responder, chan, probes, acks, sessions, direct, kernel, main, crossed,
                 okRun>>

MonitorExit ==
  /\ main = "wait" /\ mon = "idle"
  /\ mon' = "done"
  /\ UNCHANGED <<ctl, responder, chan, probes, acks, sessions, direct, kernel, main, faults,
                 crossed, okRun>>

----------------------------------------------------------------------------
(* The way of a probe and of its ack.                                      *)

\* runDirectProbeResponder answers; a slow path may deliver the probe again.
ProbeArrives(n) ==
  /\ direct # "down" /\ responder = "up" /\ "iran" \in sessions
  /\ n \in probes
  /\ probes' \in {probes \ {n}} \cup (IF direct = "slow" THEN {probes} ELSE {})
  /\ acks' = acks \cup {n}
  /\ crossed' = (crossed \/ (mon = "wait" /\ n = "own"))
  /\ UNCHANGED <<ctl, mon, responder, chan, sessions, direct, kernel, main, faults, okRun>>

\* notifyProbeAck: into the channel, or dropped when it is full.
AckArrives(n) ==
  /\ main = "run" /\ "kharej" \in sessions
  /\ n \in acks
  /\ acks' = acks \ {n}
  /\ chan' = IF Len(chan) < AckQueue THEN Append(chan, n) ELSE chan
  /\ UNCHANGED <<ctl, mon, responder, probes, sessions, direct, kernel, main, faults, crossed,
                 okRun>>

\* A probe is lost on its way, or it reaches Iran when nobody can answer it.
ProbeLost(n) ==
  /\ ~(direct = "up" /\ responder = "up" /\ "iran" \in sessions)
  /\ n \in probes
  /\ probes' = probes \ {n}
  /\ UNCHANGED <<ctl, mon, responder, chan, acks, sessions, direct, kernel, main, faults,
                 crossed, okRun>>

\* An ack finds no session, or not the one it was sealed with.
AckLost(n) ==
  /\ ~(sessions = Hosts /\ main = "run")
  /\ n \in acks
  /\ acks' = acks \ {n}
  /\ UNCHANGED <<ctl, mon, responder, chan, probes, sessions, direct, kernel, main, faults,
                 crossed, okRun>>

\* The responder's socket fails: it returns and nobody starts it again.
ResponderExit ==
  /\ responder = "up"
  /\ Fault
  /\ responder' = "gone"
  /\ UNCHANGED <<ctl, mon, chan, probes, acks, sessions, direct, kernel, main, crossed, okRun>>

SetDirect(d) ==
  /\ direct # d
  /\ direct' = d
  /\ UNCHANGED <<ctl, mon, responder, chan, probes, acks, sessions, kernel, main, faults,
                 crossed, okRun>>

SessionUp(h) ==
  /\ h \notin sessions
  /\ h = "kharej" => main = "run"
  /\ sessions' = sessions \cup {h}
  /\ UNCHANGED <<ctl, mon, responder, chan, probes, acks, direct, kernel, main, faults, crossed,
                 okRun>>

SessionDown(h) ==
  /\ h \in sessions
  /\ sessions' = sessions \ {h}
  /\ UNCHANGED <<ctl, mon, responder, chan, probes, acks, direct, kernel, main, faults, crossed,
                 okRun>>

----------------------------------------------------------------------------
Process == Start \/ StartFails \/ Shutdown \/ Join \/ JoinTimeout \/ Crash \/ StopPost

Monitor ==
  \/ MonitorInit \/ MonitorNoSocket \/ ProbeSend \/ ProbeWriteFails
  \/ WaitAck \/ WaitStale \/ WaitTimeout \/ WaitCancelled
  \/ Switch \/ SwitchFails \/ MonitorExit

Network ==
  \/ \E n \in Nonces : ProbeArrives(n) \/ AckArrives(n) \/ ProbeLost(n) \/ AckLost(n)
  \/ ResponderExit
  \/ \E d \in {"up", "slow", "down"} : SetDirect(d)
  \/ \E h \in Hosts : SessionUp(h) \/ SessionDown(h)

Next == Process \/ Monitor \/ Network

\* The ticker and the timer fire, goroutines run, a path that is up delivers.
\* The timer is set anew for every probe, so a monitor that finds acks in the
\* channel again and again receives some of them.
Fairness ==
  /\ WF_vars(Monitor)
  /\ SF_vars(WaitAck \/ WaitStale)
  /\ \A n \in Nonces : WF_vars(ProbeArrives(n)) /\ WF_vars(AckArrives(n))

Spec == Init /\ [][Next]_vars
FairSpec == Spec /\ Fairness

----------------------------------------------------------------------------
\* The downloads go back to the direct path only after RecoverThreshold probes
\* in a row each crossed the direct path before their own verdict: no late or
\* repeated ack stands in for another probe (waitProbeAck compares nonces).
RecoveryJustified ==
  [][ctl.path = "tunnel" /\ ctl'.path = "direct" /\ main # "exit"
       => okRun' = RecoverThreshold]_vars

\* Between two probes the kernel has the tunnel route exactly when the
\* controller is on the tunnel path, as long as no command fails
\* (setKharejReturnPath is called for every change that observe reports).
RouteFollowsController ==
  faults = 0 /\ main = "run" /\ mon \in {"idle", "wait"}
    => ("route" \in kernel <=> ctl.path = "tunnel")

\* When run ends after its workers have, nothing of the policy is left, though
\* the cancelled probe may still have switched the path (run waits for the
\* monitor before its deferred cleanup).
GracefulStopIsClean ==
  main = "exit" /\ mon = "done" => kernel = {}

\* Between two lives of the process nothing of the policy is there, however the
\* first one ended: killed between two commands, or out of patience while an
\* ip command of the monitor was still running, whose route then came after the
\* deferred cleanup (KillMode=control-group, ExecStopPost, -cleanup).
StoppedIsClean == main = "stopped" => kernel = {}

\* A direct path that stays down moves the downloads into the tunnel for good,
\* while Kharej runs, has its monitor and holds a session ("3 consecutive
\* failures -> Download = TUNNEL", docs/SMART_RETURN_FA.md).
OutageFallsBack ==
  <>[](direct = "down" /\ "kharej" \in sessions /\ main = "run" /\ mon # "done")
    => <>[]({"rule", "mark", "route"} \subseteq kernel)

\* The same as long as no command fails.
OutageFallsBackUnlessFault == [](faults = 0) => OutageFallsBack

\* A direct path that stays up, with both sessions and the responder, gets the
\* downloads back, as long as no command fails: the flush of the route is one,
\* and setKharejReturnPath ignores its result.
RecoveryReturns ==
  [](faults = 0) /\ <>[](direct = "up" /\ sessions = Hosts /\ responder = "up" /\ main = "run" /\ mon # "done")
    => <>[]("route" \notin kernel)
============================================================================

-------------------------- MODULE ReturnController --------------------------
(***************************************************************************)
(* returnPathController under arbitrary probe results, with the history of *)
(* the results since the last change of the path.                          *)
(***************************************************************************)
EXTENDS ReturnControllerOps, Integers, Sequences

CONSTANT MaxResults   \* bound: results between two changes of the path

ASSUME MaxResultsAssumption == MaxResults \in Nat

VARIABLE since   \* history: the results since the path last changed

controllerVars == <<ctl, since>>

ControllerTypeOK ==
  /\ ctl \in ReturnPathController
  /\ since \in Seq(Results)

ControllerInit ==
  /\ ctl = NewController
  /\ since = <<>>

\* observe, and the history that goes with it.
ObserveStep(res) ==
  /\ Len(since) < MaxResults
  /\ ctl' = Observe(ctl, res)
  /\ since' = IF ctl'.path = ctl.path THEN Append(since, res) ELSE <<>>

ControllerNext == \E res \in Results : ObserveStep(res)

ControllerSpec == ControllerInit /\ [][ControllerNext]_controllerVars

----------------------------------------------------------------------------
\* The counter that the path uses, its limit, and the result it counts.
Counted == IF ctl.path = "direct" THEN ctl.failures ELSE ctl.successes
Limit   == IF ctl.path = "direct" THEN FailThreshold ELSE RecoverThreshold
Bad     == IF ctl.path = "direct" THEN "fail" ELSE "ok"

\* The counter in use is the length of the run of adverse results that ends
\* the history: observe resets it at every result in favour of the path and
\* whenever the path changes, and it never reaches its threshold.
CountsTheRun ==
  /\ Counted < Limit
  /\ Counted <= Len(since)
  /\ \A i \in Len(since) - Counted + 1 .. Len(since) : since[i] = Bad
  /\ Counted < Len(since) => since[Len(since) - Counted] # Bad

Promise == INSTANCE Hysteresis WITH path <- ctl.path

\* The two counters do what the comment on observe says, for any sequence of
\* probe results: the path changes on N consecutive failures or M consecutive
\* successes since the last change, then and only then.
KeepsHysteresis == Promise!Spec
============================================================================

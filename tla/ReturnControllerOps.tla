------------------------ MODULE ReturnControllerOps ------------------------
(***************************************************************************)
(* returnPathController (smart_return.go): two counters and the path that  *)
(* the downloads of Kharej take.                                           *)
(***************************************************************************)
EXTENDS Naturals

CONSTANTS FailThreshold, RecoverThreshold

\* config.go refuses thresholds outside 1 .. 20.
ASSUME ThresholdAssumption ==
  FailThreshold \in Nat \ {0} /\ RecoverThreshold \in Nat \ {0}

VARIABLE ctl   \* the controller

Paths   == {"direct", "tunnel"}
Results == {"ok", "fail"}

ReturnPathController == [path : Paths, failures : Nat, successes : Nat]
Fresh(path)   == [path |-> path, failures |-> 0, successes |-> 0]
NewController == Fresh("direct")

\* Mutant: a success on the direct path does not wipe the failures.
ObserveForgives(r, res) ==
  CASE r.path = "direct" /\ res = "ok" -> r
    [] r.path = "direct" /\ res = "fail" ->
         IF r.failures + 1 >= FailThreshold
         THEN Fresh("tunnel")
         ELSE [r EXCEPT !.failures = r.failures + 1]
    [] r.path = "tunnel" /\ res = "fail" -> [r EXCEPT !.successes = 0]
    [] r.path = "tunnel" /\ res = "ok" ->
         IF r.successes + 1 >= RecoverThreshold
         THEN Fresh("direct")
         ELSE [r EXCEPT !.successes = r.successes + 1]

\* Mutant: no success counts on the tunnel path.
ObserveNeverRecovers(r, res) ==
  CASE r.path = "direct" /\ res = "ok" -> [r EXCEPT !.failures = 0]
    [] r.path = "direct" /\ res = "fail" ->
         IF r.failures + 1 >= FailThreshold
         THEN Fresh("tunnel")
         ELSE [r EXCEPT !.failures = r.failures + 1]
    [] r.path = "tunnel" -> [r EXCEPT !.successes = 0]

\* observe: the controller after the result of one probe.
Observe(r, res) ==
  CASE r.path = "direct" /\ res = "ok" -> [r EXCEPT !.failures = 0]
    [] r.path = "direct" /\ res = "fail" ->
         IF r.failures + 1 >= FailThreshold
         THEN Fresh("tunnel")
         ELSE [r EXCEPT !.failures = r.failures + 1]
    [] r.path = "tunnel" /\ res = "fail" -> [r EXCEPT !.successes = 0]
    [] r.path = "tunnel" /\ res = "ok" ->
         IF r.successes + 1 >= RecoverThreshold
         THEN Fresh("direct")
         ELSE [r EXCEPT !.successes = r.successes + 1]
============================================================================

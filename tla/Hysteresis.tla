----------------------------- MODULE Hysteresis -----------------------------
(***************************************************************************)
(* What the comment on observe promises (smart_return.go): the path        *)
(* changes exactly when, since the last change, the last N results in a    *)
(* row speak against it, where N depends on the path.                      *)
(***************************************************************************)
EXTENDS Naturals, Sequences

CONSTANTS FailThreshold, RecoverThreshold

VARIABLES
  path,   \* the path in use
  since   \* the results of the probes since the path last changed

Against(p)   == IF p = "direct" THEN "fail" ELSE "ok"
Threshold(p) == IF p = "direct" THEN FailThreshold ELSE RecoverThreshold
Other(p)     == IF p = "direct" THEN "tunnel" ELSE "direct"

\* The last Threshold(path) results of s are all against the path.
Convinced(s) ==
  /\ Len(s) >= Threshold(path)
  /\ \A i \in Len(s) - Threshold(path) + 1 .. Len(s) : s[i] = Against(path)

Init ==
  /\ path = "direct"
  /\ since = <<>>

Stay(res) ==
  /\ ~Convinced(Append(since, res))
  /\ since' = Append(since, res)
  /\ UNCHANGED path

Change(res) ==
  /\ Convinced(Append(since, res))
  /\ path' = Other(path)
  /\ since' = <<>>

Next == \E res \in {"ok", "fail"} : Stay(res) \/ Change(res)

Spec == Init /\ [][Next]_<<path, since>>
============================================================================

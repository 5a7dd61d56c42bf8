----------------------------- MODULE AntiReplay -----------------------------
(***************************************************************************)
(* What an anti-replay filter promises, with no window and no bitmap: a    *)
(* counter is accepted at most once, a counter that is Window or more      *)
(* behind an accepted one is refused, and nothing else is refused.         *)
(***************************************************************************)
EXTENDS Naturals

CONSTANTS Window,    \* how far behind the newest counter a packet may be
          Counters   \* the counters that packets carry

VARIABLES accepted,  \* every counter accepted so far
          verdict    \* the argument and the result of the last call

vars == <<accepted, verdict>>

NoVerdict == [counter |-> 0, ok |-> FALSE]

Acceptable(c) ==
  /\ c # 0
  /\ c \notin accepted
  /\ \A a \in accepted : a < c + Window

Init == accepted = {} /\ verdict = NoVerdict

Accept(c) ==
  /\ Acceptable(c)
  /\ accepted' = accepted \cup {c}
  /\ verdict' = [counter |-> c, ok |-> TRUE]

Refuse(c) ==
  /\ ~Acceptable(c)
  /\ verdict' = [counter |-> c, ok |-> FALSE]
  /\ UNCHANGED accepted

Next == \E c \in Counters : Accept(c) \/ Refuse(c)

Spec == Init /\ [][Next]_vars
============================================================================

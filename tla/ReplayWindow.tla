---------------------------- MODULE ReplayWindow ----------------------------
(***************************************************************************)
(* The window of one session, called once per packet that decrypts.  Every *)
(* call runs under r.mu from the read of highest to the return, so a call  *)
(* is one step whatever the number of receive workers.                     *)
(***************************************************************************)
EXTENDS ReplayOps

CONSTANT Counters  \* the counters packets carry; 0 is a legal wire value

ASSUME CountersAssumption == Counters \subseteq Nat

VARIABLES win,       \* the replayWindow struct
          accepted,  \* history: the counters accepted so far
          verdict    \* history: the last call and what it returned

vars == <<win, accepted, verdict>>

TypeOK ==
  /\ win \in ReplayWindowType
  /\ accepted \subseteq Counters
  /\ verdict \in [counter : Nat, ok : BOOLEAN]

Init ==
  /\ win = NewWindow
  /\ accepted = {}
  /\ verdict = [counter |-> 0, ok |-> FALSE]

AcceptTrue(c) ==
  /\ Admits(win, c)
  /\ win' = Admit(win, c)
  /\ accepted' = accepted \cup {c}
  /\ verdict' = [counter |-> c, ok |-> TRUE]

AcceptFalse(c) ==
  /\ ~Admits(win, c)
  /\ verdict' = [counter |-> c, ok |-> FALSE]
  /\ UNCHANGED <<win, accepted>>

Next == \E c \in Counters : AcceptTrue(c) \/ AcceptFalse(c)

Spec == Init /\ [][Next]_vars

----------------------------------------------------------------------------
\* The bitmap and highest describe the accepted counters exactly: highest is
\* the largest of them and bit d is set just when highest - d was accepted.
\* Nothing in the window is forgotten or invented, whatever the jumps and
\* the order of arrival (replayWindow.accept, crypto.go).
WindowExact ==
  /\ \A a \in accepted : 0 < a /\ a <= win.highest
  /\ win.highest # 0 => win.highest \in accepted
  /\ \A d \in Bits : d \in win.bitmap <=> (d <= win.highest /\ win.highest - d \in accepted)

\* The window keeps the promise of AntiReplay: duplicates and packets that
\* fell out of the window are refused, every other packet is accepted
\* (docs/ARCHITECTURE.md, "64-packet replay window").
Promise == INSTANCE AntiReplay
KeepsPromise == Promise!Spec
============================================================================

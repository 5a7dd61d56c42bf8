----------------------------- MODULE ReplayOps -----------------------------
(***************************************************************************)
(* The anti-replay window of one session (replayWindow in crypto.go) as    *)
(* pure operators, so that the stand-alone window and the session layer    *)
(* use the same definitions.                                               *)
(*                                                                         *)
(* The 64-bit word r.bitmap is abstracted to the set of its one bits: bit  *)
(* d stands for the counter r.highest - d.  Module ReplayWord keeps the    *)
(* word itself, with its width, and is shown to implement this view.       *)
(***************************************************************************)
EXTENDS Naturals

CONSTANT Window  \* the width of the bitmap: 64 in the code

ASSUME WindowAssumption == Window \in Nat \ {0}

Bits == 0 .. Window - 1

ReplayWindowType == [highest : Nat, bitmap : SUBSET Bits]

\* The zero value of the struct.
NewWindow == [highest |-> 0, bitmap |-> {}]

----------------------------------------------------------------------------
\* Mutant: the age test of the code with > in place of >=.
AdmitsOnePastTheEdge(r, c) ==
  /\ c # 0
  /\ \/ r.highest = 0
     \/ c > r.highest
     \/ r.highest - c <= Window /\ (r.highest - c) \notin r.bitmap

\* Mutant: packets behind the newest one are never accepted.
AdmitsInOrderOnly(r, c) == c # 0 /\ c > r.highest

\* accept(counter) returns true.
Admits(r, c) ==
  /\ c # 0
  /\ \/ r.highest = 0
     \/ c > r.highest
     \/ /\ r.highest - c < Window
        /\ (r.highest - c) \notin r.bitmap

----------------------------------------------------------------------------
\* Mutant: the newest packet moves the window but its own bit is not set.
AdmitForgetsNewest(r, c) ==
  IF c > r.highest
  THEN [highest |-> c,
        bitmap  |-> {d \in Bits : d >= c - r.highest /\ d - (c - r.highest) \in r.bitmap}]
  ELSE [r EXCEPT !.bitmap = @ \cup {r.highest - c}]

\* Mutant: a jump ahead drops the remembered bits instead of shifting them.
AdmitDropsHistory(r, c) ==
  IF c > r.highest
  THEN [highest |-> c, bitmap |-> {0}]
  ELSE [r EXCEPT !.bitmap = @ \cup {r.highest - c}]

\* The window after accept(counter) returned true.  The first packet, a
\* shift by less than the width and a shift past the width are one case: the
\* bits that leave the word are gone and bit 0 is set.
Admit(r, c) ==
  IF c > r.highest
  THEN [highest |-> c,
        bitmap  |-> {d \in Bits : \/ d = 0
                                  \/ /\ d >= c - r.highest
                                     /\ d - (c - r.highest) \in r.bitmap}]
  ELSE [r EXCEPT !.bitmap = @ \cup {r.highest - c}]
============================================================================

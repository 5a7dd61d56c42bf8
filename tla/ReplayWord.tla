----------------------------- MODULE ReplayWord -----------------------------
(***************************************************************************)
(* replayWindow.accept (crypto.go) with the bitmap as the unsigned machine *)
(* word it is: Window bits, shifts that lose the high bits, masks.  It     *)
(* runs in step with ReplayWindow, where the word is the set of its one    *)
(* bits, on the same counters.                                             *)
(***************************************************************************)
EXTENDS ReplayWindow

VARIABLE word  \* highest and bitmap as numbers, and what accept returned

wordVars == <<vars, word>>

\* x << s, truncated to the width of the word.
ShiftLeft(x, s) == (x * 2^s) % 2^Window

\* x & (1 << d) # 0
BitSet(x, d) == (x \div 2^d) % 2 = 1

\* x | (1 << d)
SetBit(x, d) == IF BitSet(x, d) THEN x ELSE x + 2^d

\* Mutant: the word is shifted one place less than the counter jumped.
ShiftedOneShort(x, shift) ==
  IF shift >= Window THEN 1 ELSE SetBit(ShiftLeft(x, shift - 1), 0)

\* The word after a jump ahead by shift.
Shifted(x, shift) ==
  IF shift >= Window THEN 1 ELSE SetBit(ShiftLeft(x, shift), 0)

\* accept, one case for each of its returns.
Accept(r, c) ==
  CASE c = 0 -> [r EXCEPT !.ok = FALSE]
    [] c # 0 /\ r.highest = 0 -> [highest |-> c, bitmap |-> 1, ok |-> TRUE]
    [] r.highest # 0 /\ c > r.highest ->
         [highest |-> c, bitmap |-> Shifted(r.bitmap, c - r.highest), ok |-> TRUE]
    [] c # 0 /\ c <= r.highest ->
         LET diff == r.highest - c
             new  == diff < Window /\ ~BitSet(r.bitmap, diff)
         IN  [r EXCEPT !.bitmap = IF new THEN SetBit(@, diff) ELSE @, !.ok = new]

WordInit == Init /\ word = [highest |-> 0, bitmap |-> 0, ok |-> FALSE]

WordNext ==
  \E c \in Counters : /\ AcceptTrue(c) \/ AcceptFalse(c)
                      /\ word' = Accept(word, c)

WordSpec == WordInit /\ [][WordNext]_wordVars

----------------------------------------------------------------------------
\* The word arithmetic of accept, shifts to and past the width included,
\* computes the set of bits of ReplayWindow and returns the same results.
WordAgrees ==
  /\ word.highest = win.highest
  /\ win.bitmap = {d \in Bits : BitSet(word.bitmap, d)}
  /\ word.bitmap < 2^Window
  /\ word.ok = verdict.ok
============================================================================

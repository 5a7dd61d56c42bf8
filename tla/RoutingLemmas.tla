---------------------------- MODULE RoutingLemmas ----------------------------
(***************************************************************************)
(* What the scripts of Routing look like for every configuration that      *)
(* passes loadConfig: which steps a cleanup consists of and in which       *)
(* order, into which groups the steps of the set-up fall and which of them *)
(* it has.  Scripts are joined from parts of any length, so the module     *)
(* begins with induction over the naturals and with sequences; then come   *)
(* the chains that a packet passes, of any length too.                     *)
(***************************************************************************)
EXTENDS RoutingInv, WellFoundedInduction, TLAPS

----------------------------------------------------------------------------
(* Induction over the naturals, from the least element of a set.           *)

NatOrder == {ss \in Nat \X Nat : ss[1] < ss[2]}

\* A set of naturals that is not empty has a least element.
LEMMA LeastNat ==
  ASSUME NEW T, T \subseteq Nat, T # {}
  PROVE  \E x \in T : \A y \in T : x <= y
<1>1. IsWellFoundedOn(NatOrder, Nat)
  BY Zenon, NatLessThanWellFounded, Zenon DEF OpToRel, NatOrder
<1>2. \A i, j \in Nat : i < j => <<i, j>> \in NatOrder
  BY Zenon DEF NatOrder
<1>3. PICK x \in T : \A y \in T : ~(<<y, x>> \in NatOrder)
  BY Zenon, <1>1, WFMin
<1>4. \A y \in T : ~(y < x)
  BY Zenon, <1>2, <1>3
<1>. QED
  BY <1>4

\* A set that holds 0, and with every number up to L the next, holds them all.
LEMMA InductionTo ==
  ASSUME NEW S, NEW L \in Nat, 0 \in S, \A n \in 0 .. L - 1 : n \in S => n + 1 \in S
  PROVE  0 .. L \subseteq S
<1>1. SUFFICES ASSUME (0 .. L) \ S # {} PROVE FALSE
  BY Zenon
<1>. DEFINE T == (0 .. L) \ S
<1>2. T \subseteq Nat /\ T # {}
  BY <1>1
<1>. HIDE DEF T
<1>2a. PICK m \in T : \A y \in T : m <= y
  BY Zenon, <1>2, LeastNat
<1>. USE DEF T
<1>3. m # 0 /\ m - 1 \in 0 .. L - 1 /\ m - 1 \in S
  BY <1>2a
<1>. QED
  BY <1>2a, <1>3

----------------------------------------------------------------------------
(* Sequences.                                                              *)

\* The empty sequence is one, and holds nothing.
LEMMA NoSteps == IsSeq(<<>>) /\ Range(<<>>) = {} /\ Len(<<>>) = 0
<1>1. \A S : <<>> \in Seq(S) /\ Len(<<>>) = 0
  OBVIOUS
<1>2. Range(<<>>) = {}
  BY DEF Range
<1>. QED
  BY Zenon, <1>1, <1>2 DEF IsSeq

\* The indices of a sequence, and its elements.
LEMMA SeqFacts ==
  ASSUME NEW s, IsSeq(s)
  PROVE  /\ Len(s) \in Nat /\ DOMAIN s = 1 .. Len(s)
         /\ \A i \in 1 .. Len(s) : s[i] \in Range(s)
         /\ \A x \in Range(s) : \E i \in 1 .. Len(s) : s[i] = x
         /\ Len(s) = 0 <=> s = <<>>
  BY DEF IsSeq, Range

\* A sequence over S holds elements of S only.
LEMMA SeqOf ==
  ASSUME NEW S, NEW s \in Seq(S)
  PROVE  IsSeq(s) /\ Range(s) \subseteq S
<1>1. Len(s) \in Nat /\ DOMAIN s = 1 .. Len(s) /\ \A i \in 1 .. Len(s) : s[i] \in S
  OBVIOUS
<1>2. \A i \in 1 .. Len(s) : s[i] \in Range(s)
  BY Zenon, <1>1 DEF Range
<1>3. s \in Seq(Range(s))
  BY <1>1, <1>2
<1>. QED
  BY Zenon, <1>1, <1>3 DEF IsSeq, Range

\* What a concatenation holds, at which place.
LEMMA ConcatFacts ==
  ASSUME NEW a, NEW b, IsSeq(a), IsSeq(b)
  PROVE  /\ IsSeq(a \o b)
         /\ Range(a \o b) = Range(a) \cup Range(b)
         /\ Len(a \o b) = Len(a) + Len(b)
         /\ \A i \in 1 .. Len(a) + Len(b) :
              (a \o b)[i] = IF i <= Len(a) THEN a[i] ELSE b[i - Len(a)]
<1>. DEFINE U == Range(a) \cup Range(b)
<1>1. a \in Seq(U) /\ b \in Seq(U)
  BY DEF IsSeq
<1>. HIDE DEF U
<1>2. /\ a \o b \in Seq(U)
      /\ Len(a \o b) = Len(a) + Len(b)
      /\ \A i \in 1 .. Len(a) + Len(b) :
              (a \o b)[i] = IF i <= Len(a) THEN a[i] ELSE b[i - Len(a)]
  BY <1>1
<1>3. IsSeq(a \o b)
  BY Zenon, <1>2, SeqOf
<1>4. ASSUME NEW x \in Range(a) PROVE x \in Range(a \o b)
  <2>1. PICK i \in 1 .. Len(a) : a[i] = x
    BY Zenon, SeqFacts
  <2>2. i \in 1 .. Len(a \o b) /\ (a \o b)[i] = x
    BY <1>2, <2>1, SeqFacts
  <2>. QED
    BY Zenon, <1>3, <2>2, SeqFacts
<1>5. ASSUME NEW x \in Range(b) PROVE x \in Range(a \o b)
  <2>1. PICK i \in 1 .. Len(b) : b[i] = x
    BY Zenon, SeqFacts
  <2>2. i + Len(a) \in 1 .. Len(a \o b) /\ (a \o b)[i + Len(a)] = b[i]
    BY <1>2, <2>1, SeqFacts
  <2>. QED
    BY Zenon, <1>3, <2>1, <2>2, SeqFacts
<1>6. Range(a \o b) \subseteq Range(a) \cup Range(b)
  BY Zenon, <1>2, SeqOf DEF U
<1>. QED
  BY Zenon, <1>2, <1>3, <1>4, <1>5, <1>6


\* What is put after a script must not come too late for it.
LEMMA OrderedConcat ==
  ASSUME NEW a, NEW b, IsSeq(a), IsSeq(b), Ordered(a), Ordered(b),
         \A s \in Range(a), t \in Range(b) : ~TooLate(s, t)
  PROVE  Ordered(a \o b)
<1>. SUFFICES ASSUME NEW i \in 1 .. Len(a \o b), NEW j \in 1 .. Len(a \o b), i < j
              PROVE  ~TooLate((a \o b)[i], (a \o b)[j])
  BY Zenon DEF Ordered
<1>1. Len(a) \in Nat /\ Len(b) \in Nat /\ Len(a \o b) = Len(a) + Len(b)
  BY Zenon, ConcatFacts, SeqFacts
<1>2. CASE j <= Len(a)
  <2>1. i \in 1 .. Len(a) /\ j \in 1 .. Len(a) /\ (a \o b)[i] = a[i] /\ (a \o b)[j] = a[j]
    BY <1>1, <1>2, ConcatFacts
  <2>. QED
    BY Zenon, <2>1 DEF Ordered
<1>3. CASE i > Len(a)
  <2>1. /\ i - Len(a) \in 1 .. Len(b) /\ j - Len(a) \in 1 .. Len(b) /\ i - Len(a) < j - Len(a)
        /\ (a \o b)[i] = b[i - Len(a)] /\ (a \o b)[j] = b[j - Len(a)]
    BY <1>1, <1>3, ConcatFacts
  <2>. QED
    BY Zenon, <2>1 DEF Ordered
<1>4. CASE i <= Len(a) /\ j > Len(a)
  <2>1. /\ i \in 1 .. Len(a) /\ j - Len(a) \in 1 .. Len(b)
        /\ (a \o b)[i] = a[i] /\ (a \o b)[j] = b[j - Len(a)]
    BY <1>1, <1>4, ConcatFacts
  <2>2. a[i] \in Range(a) /\ b[j - Len(a)] \in Range(b)
    BY Zenon, <2>1, SeqFacts
  <2>. QED
    BY Zenon, <2>1, <2>2
<1>. QED
  BY <1>1, <1>2, <1>3, <1>4

\* The first step and the rest.
LEMMA TailFacts ==
  ASSUME NEW s, IsSeq(s), s # <<>>
  PROVE  /\ IsSeq(Tail(s)) /\ Head(s) \in Range(s)
         /\ Range(s) = {Head(s)} \cup Range(Tail(s))
         /\ Ordered(s) => Ordered(Tail(s)) /\ \A t \in Range(Tail(s)) : ~TooLate(Head(s), t)
<1>1. s \in Seq(Range(s))
  BY Zenon DEF IsSeq
<1>2. /\ Tail(s) \in Seq(Range(s)) /\ Head(s) = s[1]
      /\ Len(s) \in Nat /\ Len(s) > 0 /\ Len(Tail(s)) = Len(s) - 1
      /\ \A i \in 1 .. Len(Tail(s)) : Tail(s)[i] = s[i + 1]
  BY <1>1
<1>3. IsSeq(Tail(s)) /\ Range(Tail(s)) \subseteq Range(s)
  BY Zenon, <1>2, SeqOf
<1>4. Head(s) \in Range(s)
  BY <1>2, SeqFacts
<1>5. ASSUME NEW x \in Range(s), x # Head(s) PROVE x \in Range(Tail(s))
  <2>1. PICK i \in 1 .. Len(s) : s[i] = x
    BY Zenon, SeqFacts
  <2>2. i - 1 \in 1 .. Len(Tail(s)) /\ Tail(s)[i - 1] = x
    BY <1>2, <1>5, <2>1
  <2>. QED
    BY Zenon, <1>3, <2>2, SeqFacts
<1>6. ASSUME Ordered(s) PROVE Ordered(Tail(s))
  BY <1>2, <1>6 DEF Ordered
<1>7. ASSUME Ordered(s), NEW t \in Range(Tail(s)) PROVE ~TooLate(Head(s), t)
  <2>1. PICK i \in 1 .. Len(Tail(s)) : Tail(s)[i] = t
    BY ZenonT(30), <1>3, SeqFacts
  <2>2. i + 1 \in 1 .. Len(s) /\ 1 \in 1 .. Len(s) /\ 1 < i + 1 /\ s[i + 1] = t
    BY <1>2, <2>1
  <2>. QED
    BY Zenon, <1>2, <1>7, <2>2 DEF Ordered
<1>. QED
  BY Zenon, <1>3, <1>4, <1>5, <1>6, <1>7

\* A rule more in a chain.
LEMMA OneMore ==
  ASSUME NEW s, IsSeq(s), NEW e
  PROVE  /\ IsSeq(Append(s, e)) /\ Range(Append(s, e)) = Range(s) \cup {e}
         /\ IsSeq(<<e>>) /\ Range(<<e>>) = {e}
         /\ IsSeq(<<e>> \o s) /\ Range(<<e>> \o s) = {e} \cup Range(s)
<1>1. <<e>> \in Seq({e}) /\ Len(<<e>>) = 1 /\ <<e>>[1] = e
  OBVIOUS
<1>2. IsSeq(<<e>>) /\ Range(<<e>>) \subseteq {e}
  BY Zenon, <1>1, SeqOf
<1>3. Range(<<e>>) = {e}
  <2>1. <<e>>[1] \in Range(<<e>>)
    BY SMTT(60), <1>1, <1>2, SeqFacts
  <2>. QED
    BY ZenonT(30), <1>1, <1>2, <2>1
<1>4. Append(s, e) = s \o <<e>>
  <2>1. s \in Seq(Range(s) \cup {e})
    BY DEF IsSeq
  <2>. QED
    BY <2>1
<1>. QED
  BY ZenonT(30), <1>2, <1>3, <1>4, ConcatFacts


\* A script of a single step.
LEMMA OneStep ==
  ASSUME NEW e
  PROVE  IsSeq(<<e>>) /\ Range(<<e>>) = {e}
  BY Zenon, NoSteps, OneMore

\* The recursion that defines Joined has a solution.
LEMMA JoinedDefined ==
  ASSUME NEW ss, NEW L \in Nat
  PROVE  \E f : f = [n \in 0 .. L |-> IF n = 0 THEN <<>> ELSE f[n - 1] \o ss[n]]
<1>. DEFINE Good(m, f) == f = [n \in 0 .. m |-> IF n = 0 THEN <<>> ELSE f[n - 1] \o ss[n]]
            S == {m \in 0 .. L : \E f : Good(m, f)}
<1>1. 0 \in S
  <2>. DEFINE g == [n \in 0 .. 0 |-> <<>>]
  <2>1. Good(0, g)
    OBVIOUS
  <2>. HIDE DEF Good
  <2>. QED
    BY <2>1
<1>2. ASSUME NEW m \in 0 .. L - 1, m \in S
      PROVE  m + 1 \in S
  <2>1. PICK f : Good(m, f)
    BY Zenon, <1>2
  <2>. DEFINE g == [n \in 0 .. m + 1 |-> IF n = m + 1 THEN f[n - 1] \o ss[n] ELSE f[n]]
  <2>2. ASSUME NEW n \in 0 .. m + 1
        PROVE  g[n] = IF n = 0 THEN <<>> ELSE g[n - 1] \o ss[n]
    <3>1. CASE n = m + 1
      <4>1. n # 0 /\ g[n - 1] = f[n - 1]
        BY <3>1
      <4>2. g[n] = f[n - 1] \o ss[n]
        BY Zenon, <3>1
      <4>. HIDE DEF g
      <4>. QED
        BY ZenonT(30), <3>1, <4>1, <4>2
    <3>2. CASE n # m + 1
      <4>1. n \in 0 .. m /\ g[n] = f[n]
        BY <3>2
      <4>2. n # 0 => n - 1 \in 0 .. m /\ g[n - 1] = f[n - 1]
        BY <4>1
      <4>3. f[n] = IF n = 0 THEN <<>> ELSE f[n - 1] \o ss[n]
        BY ZenonT(30), <2>1, <4>1
      <4>. HIDE DEF g, Good
      <4>. QED
        BY ZenonT(30), <4>1, <4>2, <4>3
    <3>. QED
      BY ZenonT(30), <3>1, <3>2
  <2>3. g = [n \in 0 .. m + 1 |-> g[n]]
    BY Zenon
  <2>. HIDE DEF g
  <2>4. Good(m + 1, g)
    BY ZenonT(30), <2>2, <2>3
  <2>. HIDE DEF Good
  <2>. QED
    BY <2>4
<1>. HIDE DEF S
<1>3. 0 .. L \subseteq S
  BY ZenonT(30), <1>1, <1>2, InductionTo
<1>. HIDE DEF Good
<1>4. \E f : Good(L, f)
  BY <1>3 DEF S
<1>. QED
  BY ZenonT(30), <1>4 DEF Good

\* What is in one of the sequences is in the joined one, and nothing else.
LEMMA JoinedFacts ==
  ASSUME NEW ss, Len(ss) \in Nat, \A i \in 1 .. Len(ss) : IsSeq(ss[i])
  PROVE  /\ IsSeq(Joined(ss))
         /\ \A i \in 1 .. Len(ss) : \A x \in Range(ss[i]) : x \in Range(Joined(ss))
         /\ \A x \in Range(Joined(ss)) : \E i \in 1 .. Len(ss) : x \in Range(ss[i])
<1>. DEFINE L == Len(ss)
            f == CHOOSE f : f = [n \in 0 .. L |-> IF n = 0 THEN <<>> ELSE f[n - 1] \o ss[n]]
            S == {n \in 0 .. L : /\ IsSeq(f[n])
                                 /\ \A i \in 1 .. n : \A x \in Range(ss[i]) : x \in Range(f[n])
                                 /\ \A x \in Range(f[n]) : \E i \in 1 .. n : x \in Range(ss[i])}
<1>1. Joined(ss) = f[L]
  BY Zenon DEF Joined
<1>2. f = [n \in 0 .. L |-> IF n = 0 THEN <<>> ELSE f[n - 1] \o ss[n]]
  <2>1. \E g : g = [n \in 0 .. L |-> IF n = 0 THEN <<>> ELSE g[n - 1] \o ss[n]]
    BY Zenon, JoinedDefined
  <2>. QED
    BY ZenonT(30), <2>1
<1>. HIDE DEF f
<1>3. 0 \in S
  <2>1. f[0] = <<>>
    BY <1>2
  <2>. QED
    BY <2>1, NoSteps
<1>4. ASSUME NEW n \in 0 .. L - 1, n \in S
      PROVE  n + 1 \in S
  <2>1. f[n + 1] = f[n] \o ss[n + 1]
    BY <1>2, <1>4
  <2>2. IsSeq(f[n]) /\ IsSeq(ss[n + 1])
    BY <1>4
  <2>3. IsSeq(f[n + 1]) /\ Range(f[n + 1]) = Range(f[n]) \cup Range(ss[n + 1])
    BY <2>1, <2>2, ConcatFacts
  <2>4. ASSUME NEW i \in 1 .. n + 1, NEW x \in Range(ss[i]) PROVE x \in Range(f[n + 1])
    <3>1. CASE i = n + 1
      BY ZenonT(30), <2>3, <3>1
    <3>2. CASE i \in 1 .. n
      BY ZenonT(30), <1>4, <2>3, <3>2
    <3>. QED
      BY <3>1, <3>2
  <2>5. ASSUME NEW x \in Range(f[n + 1]) PROVE \E i \in 1 .. n + 1 : x \in Range(ss[i])
    <3>1. CASE x \in Range(f[n])
      BY <1>4, <3>1
    <3>2. CASE x \in Range(ss[n + 1])
      BY <3>2
    <3>. QED
      BY ZenonT(30), <2>3, <3>1, <3>2
  <2>. QED
    BY SMTT(60), <2>3, <2>4, <2>5
<1>. HIDE DEF S
<1>5. 0 .. L \subseteq S
  BY Zenon, <1>3, <1>4, InductionTo
<1>6. L \in S
  BY <1>5
<1>. QED
  BY Zenon, <1>1, <1>6 DEF S


\* Short scripts.
LEMMA Steps2 ==
  ASSUME NEW a, NEW b
  PROVE  IsSeq(<<a, b>>) /\ Range(<<a, b>>) = {a, b} /\ Len(<<a, b>>) = 2
<1>1. <<a, b>> \in Seq({a, b}) /\ Len(<<a, b>>) = 2 /\ <<a, b>>[1] = a /\ <<a, b>>[2] = b
  OBVIOUS
<1>2. IsSeq(<<a, b>>) /\ Range(<<a, b>>) \subseteq {a, b}
  BY ZenonT(30), <1>1, SeqOf
<1>3. <<a, b>>[1] \in Range(<<a, b>>) /\ <<a, b>>[2] \in Range(<<a, b>>)
  BY <1>1, <1>2, SeqFacts
<1>. QED
  BY ZenonT(30), <1>1, <1>2, <1>3

\* A script of three steps.
LEMMA Steps3 ==
  ASSUME NEW a, NEW b, NEW c
  PROVE  IsSeq(<<a, b, c>>) /\ Range(<<a, b, c>>) = {a, b, c} /\ Len(<<a, b, c>>) = 3
<1>. DEFINE s == <<a, b, c>>
<1>1. s \in Seq({a, b, c}) /\ Len(s) = 3 /\ s[1] = a /\ s[2] = b /\ s[3] = c
  OBVIOUS
<1>. HIDE DEF s
<1>2. IsSeq(s) /\ Range(s) \subseteq {a, b, c}
  BY ZenonT(30), <1>1, SeqOf
<1>3. s[1] \in Range(s) /\ s[2] \in Range(s) /\ s[3] \in Range(s)
  BY SMTT(60), <1>1, <1>2, SeqFacts
<1>4. IsSeq(s) /\ Range(s) = {a, b, c} /\ Len(s) = 3
  BY ZenonT(30), <1>1, <1>2, <1>3
<1>. QED
  BY ZenonT(30), <1>4 DEF s

\* A script of four steps.
LEMMA Steps4 ==
  ASSUME NEW a, NEW b, NEW c, NEW d
  PROVE  IsSeq(<<a, b, c, d>>) /\ Range(<<a, b, c, d>>) = {a, b, c, d}
<1>. DEFINE s == <<a, b, c, d>>
<1>1. s \in Seq({a, b, c, d}) /\ Len(s) = 4 /\ s[1] = a /\ s[2] = b /\ s[3] = c /\ s[4] = d
  OBVIOUS
<1>. HIDE DEF s
<1>2. IsSeq(s) /\ Range(s) \subseteq {a, b, c, d}
  BY ZenonT(30), <1>1, SeqOf
<1>3. s[1] \in Range(s) /\ s[2] \in Range(s) /\ s[3] \in Range(s) /\ s[4] \in Range(s)
  BY <1>1, <1>2, SeqFacts
<1>4. IsSeq(s) /\ Range(s) = {a, b, c, d}
  BY ZenonT(30), <1>1, <1>2, <1>3
<1>. QED
  BY ZenonT(30), <1>4 DEF s

----------------------------------------------------------------------------
(* The way of a packet.                                                    *)

\* A kernel has five parts.
Shaped(k) ==
  k = [there |-> k.there, chain |-> k.chain, jumps |-> k.jumps, rules |-> k.rules, routes |-> k.routes]

\* A kernel is well formed when its parts are.
LEMMA KernelParts ==
  ASSUME NEW k
  PROVE  KernelOK(k) <=>
           /\ Shaped(k)
           /\ k.there \subseteq Chains
           /\ k.chain = [ch \in Chains |-> k.chain[ch]]
           /\ k.jumps \in [Chains -> Nat]
           /\ k.rules \subseteq Prios
           /\ \A ch \in Chains : IsSeq(k.chain[ch])
           /\ \A ch \in Chains \ k.there : k.chain[ch] = <<>> /\ k.jumps[ch] = 0
  BY Zenon DEF KernelOK, Shaped

\* The packet after each of the first L rules.
Run(f, rules, p, L) == f = [n \in 0 .. L |-> IF n = 0 THEN p ELSE Mangle(f[n - 1], rules[n])]

\* The recursion that defines Mangled has a solution.
LEMMA MangledDefined ==
  ASSUME NEW rules, NEW p, NEW L \in Nat
  PROVE  \E f : Run(f, rules, p, L)
<1>. DEFINE Good(m, f) == f = [n \in 0 .. m |-> IF n = 0 THEN p ELSE Mangle(f[n - 1], rules[n])]
            S == {m \in 0 .. L : \E f : Good(m, f)}
<1>1. 0 \in S
  <2>. DEFINE g == [n \in 0 .. 0 |-> p]
  <2>1. Good(0, g)
    OBVIOUS
  <2>. HIDE DEF Good
  <2>. QED
    BY <2>1
<1>2. ASSUME NEW m \in 0 .. L - 1, m \in S
      PROVE  m + 1 \in S
  <2>1. PICK f : Good(m, f)
    BY Zenon, <1>2
  <2>. DEFINE g == [n \in 0 .. m + 1 |-> IF n = m + 1 THEN Mangle(f[n - 1], rules[n]) ELSE f[n]]
  <2>2. ASSUME NEW n \in 0 .. m + 1
        PROVE  g[n] = IF n = 0 THEN p ELSE Mangle(g[n - 1], rules[n])
    <3>1. CASE n = m + 1
      <4>1. n # 0 /\ g[n - 1] = f[n - 1]
        BY <3>1
      <4>2. g[n] = Mangle(f[n - 1], rules[n])
        BY ZenonT(30), <3>1
      <4>. HIDE DEF g
      <4>. QED
        BY ZenonT(30), <3>1, <4>1, <4>2
    <3>2. CASE n # m + 1
      <4>1. n \in 0 .. m /\ g[n] = f[n]
        BY <3>2
      <4>2. n # 0 => n - 1 \in 0 .. m /\ g[n - 1] = f[n - 1]
        BY <4>1
      <4>3. f[n] = IF n = 0 THEN p ELSE Mangle(f[n - 1], rules[n])
        BY ZenonT(30), <2>1, <4>1
      <4>. HIDE DEF g, Good
      <4>. QED
        BY Zenon, <4>1, <4>2, <4>3
    <3>. QED
      BY ZenonT(30), <3>1, <3>2
  <2>3. g = [n \in 0 .. m + 1 |-> g[n]]
    BY Zenon
  <2>. HIDE DEF g
  <2>4. Good(m + 1, g)
    BY ZenonT(30), <2>2, <2>3
  <2>. HIDE DEF Good
  <2>. QED
    BY <2>4
<1>. HIDE DEF S
<1>3. 0 .. L \subseteq S
  BY Zenon, <1>1, <1>2, InductionTo
<1>. HIDE DEF Good
<1>4. \E f : Good(L, f)
  BY <1>3 DEF S
<1>. QED
  BY ZenonT(30), <1>4 DEF Good, Run

\* What every rule of a chain keeps, the chain keeps.
LEMMA MangledKeeps ==
  ASSUME NEW k, KernelOK(k), NEW ch \in Chains, NEW p, NEW Q, p \in Q,
         \A q \in Q : \A r \in Range(k.chain[ch]) : Mangle(q, r) \in Q
  PROVE  Mangled(k, ch, p) \in Q
<1>. DEFINE rules == RulesOf(k, ch)
            L == Len(rules)
            f == CHOOSE f : f = [n \in 0 .. L |-> IF n = 0 THEN p ELSE Mangle(f[n - 1], rules[n])]
            S == {n \in 0 .. L : f[n] \in Q}
<1>1. Mangled(k, ch, p) = f[L]
  BY Zenon DEF Mangled
<1>2. IsSeq(rules) /\ Range(rules) \subseteq Range(k.chain[ch])
  <2>1. IsSeq(k.chain[ch])
    BY ZenonT(30), KernelParts
  <2>. QED
    BY ZenonT(30), <2>1, NoSteps DEF RulesOf
<1>. HIDE DEF rules
<1>3. L \in Nat /\ \A n \in 1 .. L : rules[n] \in Range(k.chain[ch])
  BY ZenonT(30), <1>2, SeqFacts
<1>4. f = [n \in 0 .. L |-> IF n = 0 THEN p ELSE Mangle(f[n - 1], rules[n])]
  <2>1. \E g : Run(g, rules, p, L)
    BY ZenonT(30), <1>3, MangledDefined
  <2>2. \E g : g = [n \in 0 .. L |-> IF n = 0 THEN p ELSE Mangle(g[n - 1], rules[n])]
    BY ZenonT(30), <2>1 DEF Run
  <2>. QED
    BY ZenonT(30), <2>2
<1>. HIDE DEF f, L
<1>5. 0 \in S
  BY <1>3, <1>4
<1>6. ASSUME NEW n \in 0 .. L - 1, n \in S
      PROVE  n + 1 \in S
  <2>1. n + 1 \in 1 .. L /\ n + 1 \in 0 .. L /\ f[n] \in Q
    BY <1>3, <1>6
  <2>2. f[n + 1] = Mangle(f[n], rules[n + 1])
    BY <1>3, <1>4, <2>1
  <2>. QED
    BY ZenonT(30), <1>3, <2>1, <2>2
<1>. HIDE DEF S
<1>7. 0 .. L \subseteq S
  BY Zenon, <1>3, <1>5, <1>6, InductionTo
<1>8. L \in S
  BY <1>3, <1>7
<1>. QED
  BY ZenonT(30), <1>1, <1>8 DEF S

\* A packet as it may be after some rules: another mark, clamped or not.
Variant(p, m, b) == [p EXCEPT !.mark = m, !.clamped = b]
Variants(p, M) == {Variant(p, m, b) : m \in M, b \in BOOLEAN}

\* The fields of a packet.
Fields == {"in", "out", "src", "dst", "proto", "sport", "dport", "ct", "syn", "mark", "clamped"}
IsPacket(p) == p = [f \in Fields |-> p[f]] /\ p.clamped \in BOOLEAN

\* A variant differs from its packet in the mark and the clamp only.
LEMMA VariantFacts ==
  ASSUME NEW p, IsPacket(p), NEW M, NEW q \in Variants(p, M)
  PROVE  /\ IsPacket(q) /\ q.mark \in M
         /\ \A f \in Fields \ {"mark", "clamped"} : q[f] = p[f]
<1>1. PICK m \in M, b \in BOOLEAN : q = Variant(p, m, b)
  BY DEF Variants
<1>2. p = [f \in Fields |-> p[f]] /\ "mark" \in Fields /\ "clamped" \in Fields
  BY ZenonT(30) DEF IsPacket, Fields
<1>3. /\ q.mark = m /\ q.clamped = b /\ q = [f \in Fields |-> q[f]]
      /\ \A f \in Fields \ {"mark", "clamped"} : q[f] = p[f]
  BY ZenonT(30), <1>1, <1>2 DEF Variant
<1>4. IsPacket(q)
  BY ZenonT(30), <1>3 DEF IsPacket
<1>. QED
  BY ZenonT(30), <1>3, <1>4

\* What a rule of a mangle chain may do to a variant makes another variant.
LEMMA VariantNext ==
  ASSUME NEW p, IsPacket(p), NEW M, NEW q \in Variants(p, M)
  PROVE  /\ \A m \in M : [q EXCEPT !.mark = m] \in Variants(p, M)
         /\ [q EXCEPT !.clamped = TRUE] \in Variants(p, M)
<1>1. PICK m \in M, b \in BOOLEAN : q = Variant(p, m, b)
  BY DEF Variants
<1>2. p = [f \in Fields |-> p[f]] /\ "mark" \in Fields /\ "clamped" \in Fields
  BY Zenon DEF IsPacket, Fields
<1>3. ASSUME NEW m2 \in M PROVE [q EXCEPT !.mark = m2] = Variant(p, m2, b)
  BY ZenonT(30), <1>1, <1>2 DEF Variant
<1>4. [q EXCEPT !.clamped = TRUE] = Variant(p, m, TRUE)
  BY ZenonT(30), <1>1, <1>2 DEF Variant
<1>5. \A m2 \in M : \A b2 \in BOOLEAN : Variant(p, m2, b2) \in Variants(p, M)
  BY DEF Variants
<1>6. ASSUME NEW m2 \in M PROVE [q EXCEPT !.mark = m2] \in Variants(p, M)
  BY ZenonT(30), <1>3, <1>5
<1>7. [q EXCEPT !.clamped = TRUE] \in Variants(p, M)
  BY ZenonT(30), <1>4, <1>5
<1>. QED
  BY ZenonT(30), <1>6, <1>7

\* A packet is a variant of itself.
LEMMA ItsVariant ==
  ASSUME NEW p, IsPacket(p)
  PROVE  p \in Variants(p, {p.mark})
<1>1. p = Variant(p, p.mark, p.clamped)
  BY ZenonT(30) DEF IsPacket, Variant
<1>. QED
  BY <1>1 DEF Variants, IsPacket

\* A rule that sets no mark outside M, or does not match, stays within.
LEMMA MangleKeeps ==
  ASSUME NEW p, IsPacket(p), NEW M, NEW q \in Variants(p, M), NEW r,
         r.target = "MARK" => r.arg \in M \/ ~Matches(r, q)
  PROVE  Mangle(q, r) \in Variants(p, M)
  BY ZenonT(30), VariantNext DEF Mangle

\* The lookup gives the public interface.
LEMMA DevicePub ==
  ASSUME NEW k, NEW dst, NEW mark,
         \A r \in k.routes : \A t \in PolicyRules :
           r.table = t.table /\ t.prio \in k.rules /\ t.mark = mark => r.dev = "pub",
         \/ \A r \in k.routes : r.table # Main
         \/ \E r \in k.routes : \E t \in PolicyRules :
              r.table = t.table /\ t.prio \in k.rules /\ t.mark = mark /\ r.dst = "default"
  PROVE  Device(k, dst, mark) = "pub"
<1>. DEFINE tables == {r \in PolicyRules : r.prio \in k.rules /\ r.mark = mark}
            found  == {r \in k.routes : /\ r.dst \in {dst, "default"}
                                        /\ \E t \in tables : t.table = r.table}
            main   == {r \in k.routes : r.table = Main /\ r.dst = dst}
            Dev(s) == IF s = {} THEN "pub" ELSE (CHOOSE r \in s : TRUE).dev
<1>1. Device(k, dst, mark) = Dev(IF found # {} THEN found ELSE main)
  BY Zenon DEF Device, Lookup
<1>. HIDE DEF PolicyRules
<1>2. \A r \in found : r.dev = "pub"
  BY ZenonT(30)
<1>3. found # {} \/ main = {}
  BY ZenonT(30)
<1>. HIDE DEF found, main, Dev
<1>4. CASE found # {}
  <2>1. (CHOOSE r \in found : TRUE) \in found
    BY ZenonT(30), <1>4
  <2>. QED
    BY ZenonT(30), <1>1, <1>2, <1>4, <2>1 DEF Dev
<1>5. CASE found = {}
  <2>1. (IF found # {} THEN found ELSE main) = {}
    BY ZenonT(30), <1>3, <1>5
  <2>. QED
    BY ZenonT(30), <1>1, <2>1 DEF Dev
<1>. QED
  BY ZenonT(30), <1>4, <1>5

\* The packets that the properties send.
LEMMA PacketShape ==
  ASSUME NEW src, NEW dst, NEW proto, NEW sport, NEW dport, NEW ct,
         NEW p, p = Packet(src, dst, proto, sport, dport, ct)
  PROVE  /\ IsPacket(p) /\ p.src = src /\ p.dst = dst /\ p.proto = proto /\ p.sport = sport
         /\ p.dport = dport /\ p.mark = 0 /\ p.in = "none"
<1>1. p = [f \in Fields |-> p[f]]
  BY ZenonT(30) DEF Packet, Fields
<1>. QED
  BY ZenonT(30), <1>1 DEF Packet, IsPacket

\* The same packets, with a mark or an interface set.
LEMMA PacketExcept ==
  ASSUME NEW p, IsPacket(p), NEW v
  PROVE  /\ IsPacket([p EXCEPT !.mark = v]) /\ [p EXCEPT !.mark = v].mark = v
         /\ [p EXCEPT !.mark = v].dst = p.dst
         /\ IsPacket([p EXCEPT !.out = v]) /\ [p EXCEPT !.out = v].out = v
         /\ [p EXCEPT !.out = v].mark = p.mark /\ [p EXCEPT !.out = v].sport = p.sport
<1>1. p = [f \in Fields |-> p[f]] /\ {"mark", "dst", "out", "sport", "clamped"} \subseteq Fields
  BY ZenonT(30) DEF IsPacket, Fields
<1>2. p.clamped \in BOOLEAN
  BY Zenon DEF IsPacket
<1>. QED
  BY ZenonT(30), <1>1, <1>2 DEF IsPacket

\* The rule does not look at marks of M, or at this source port.
Blind(r, p, M) ==
  \/ "mark" \in DOMAIN r.match /\ \A m \in M : m \notin r.match["mark"]
  \/ "sport" \in DOMAIN r.match /\ p.sport \notin r.match["sport"]

\* A packet of the host itself that is left with a mark of M.
LEMMA EmittedPub ==
  ASSUME NEW k, KernelOK(k), NEW p, IsPacket(p), NEW M, p.mark \in M,
         \A r \in Range(k.chain["HSH_MOUT"]) : r.target = "MARK" => r.arg \in M \/ Blind(r, p, M),
         \A m \in M : Device(k, p.dst, m) = "pub"
  PROVE  Emitted(k, p).out = "pub"
<1>. DEFINE dev == Device(k, p.dst, p.mark)
            s == [p EXCEPT !.out = dev]
            m == Mangled(k, "HSH_MOUT", s)
<1>1. Emitted(k, p) = [m EXCEPT !.out = Device(k, p.dst, m.mark)]
  BY Zenon DEF Emitted
<1>. HIDE DEF dev
<1>2. IsPacket(s) /\ s.mark = p.mark /\ s.sport = p.sport
  BY ZenonT(30), PacketExcept
<1>. HIDE DEF s
<1>3. s \in Variants(s, M)
  <2>1. s \in Variants(s, {s.mark})
    BY Zenon, <1>2, ItsVariant
  <2>. QED
    BY <1>2, <2>1 DEF Variants
<1>4. ASSUME NEW q \in Variants(s, M), NEW r \in Range(k.chain["HSH_MOUT"])
      PROVE  Mangle(q, r) \in Variants(s, M)
  <2>1. q.mark \in M /\ q.sport = p.sport
    <3>1. "sport" \in Fields \ {"mark", "clamped"}
      BY ZenonT(30) DEF Fields
    <3>. QED
      BY <1>2, <3>1, VariantFacts
  <2>2. Blind(r, p, M) => ~Matches(r, q)
    BY ZenonT(30), <2>1 DEF Blind, Matches
  <2>. QED
    BY ZenonT(30), <1>2, <2>2, MangleKeeps
<1>5. "HSH_MOUT" \in Chains
  BY ZenonT(30) DEF Chains
<1>6. m \in Variants(s, M)
  BY ZenonT(30), <1>3, <1>4, <1>5, MangledKeeps
<1>. HIDE DEF m
<1>7. IsPacket(m) /\ m.mark \in M
  BY Zenon, <1>2, <1>6, VariantFacts
<1>8. [m EXCEPT !.out = "pub"].out = "pub"
  BY <1>7, PacketExcept
<1>. QED
  BY ZenonT(30), <1>1, <1>7, <1>8

\* The policy rules, by the mark.
LEMMA Policy ==
  ASSUME NEW t \in PolicyRules
  PROVE  /\ t.mark \in {102, 104, 119}
         /\ t.mark = 119 => t.table = transportTable
         /\ t.mark = 104 => t.table = returnTable
  BY DEF PolicyRules, transportTable, returnTable

\* A filter chain in which every rule that matches drops, and one does.
LEMMA Dropped ==
  ASSUME NEW k, KernelOK(k), NEW ch \in Chains, k.jumps[ch] > 0, NEW p,
         \E r \in Range(k.chain[ch]) : Matches(r, p),
         \A r \in Range(k.chain[ch]) : Matches(r, p) => r.target = "DROP"
  PROVE  Verdict(k, ch, p) = "DROP"
<1>. DEFINE rules == RulesOf(k, ch)
            H == Hits(rules, p)
<1>0. Verdict(k, ch, p) = IF H = {} THEN "none" ELSE FirstHit(rules, p).target
  BY ZenonT(30) DEF Verdict
<1>1. rules = k.chain[ch] /\ IsSeq(rules)
  BY ZenonT(30), KernelParts DEF RulesOf
<1>. HIDE DEF rules
<1>2. /\ Len(rules) \in Nat /\ \A i \in 1 .. Len(rules) : rules[i] \in Range(rules)
      /\ \A r \in Range(rules) : \E i \in 1 .. Len(rules) : rules[i] = r
  BY <1>1, SeqFacts
<1>3. H \subseteq Nat /\ H # {} /\ \A i \in H : rules[i].target = "DROP"
  BY SMTT(60), <1>1, <1>2 DEF Hits
<1>. HIDE DEF H
<1>4. \E i \in H : \A j \in H : i <= j
  BY ZenonT(30), <1>3, LeastNat
<1>5. FirstHit(rules, p) = rules[CHOOSE i \in H : \A j \in H : i <= j]
  BY ZenonT(30) DEF FirstHit, H
<1>6. (CHOOSE i \in H : \A j \in H : i <= j) \in H
  BY ZenonT(30), <1>4
<1>. QED
  BY ZenonT(30), <1>0, <1>3, <1>5, <1>6

----------------------------------------------------------------------------
(* The cleanup scripts.                                                    *)

\* No step of a cleanup can fail the process: iptables and ip are run quietly
\* or until they fail (deleteChain).
LEMMA CleanHow ==
  ASSUME NEW c, NEW s, CleanStep(c, s)
  PROVE  s.how \in {"quiet", "unhook"}
<1>1. ASSUME NEW cmd, s = Quiet(cmd) PROVE s.how = "quiet"
  BY ZenonT(30), <1>1 DEF Quiet
<1>2. ASSUME NEW ch, s = Unhook(ch) PROVE s.how = "unhook"
  BY ZenonT(30), <1>2 DEF Unhook
<1>. QED
  BY ZenonT(30), <1>1, <1>2 DEF CleanStep, EmptyChain, DeleteChain

\* Steps of a cleanup come too late for each other only within a chain.
LEMMA CleanTooLate ==
  ASSUME NEW c, NEW s, NEW t, CleanStep(c, s), CleanStep(c, t), TooLate(s, t)
  PROVE  \E ch \in Chains : s = DeleteChain(ch) /\ t \in {Unhook(ch), EmptyChain(ch)}
<1>1. s.how \in {"quiet", "unhook"} /\ t.how \in {"quiet", "unhook"}
  BY ZenonT(30), CleanHow
<1>2. Undo(t) = "nothing"
  BY Zenon, <1>1 DEF Undo
<1>3. s # AddReturn
  BY <1>1 DEF Must, AddReturn
<1>. QED
  BY ZenonT(30), <1>1, <1>2, <1>3 DEF TooLate

\* The steps that remove the chains of D, each in its order.
StepsFor(D) == {Unhook(ch) : ch \in D} \cup {EmptyChain(ch) : ch \in D} \cup {DeleteChain(ch) : ch \in D}
Deletes(s, D) == IsSeq(s) /\ Ordered(s) /\ Range(s) = StepsFor(D)

\* The steps that remove a chain are steps of a cleanup.
LEMMA ChainSteps ==
  ASSUME NEW D \in SUBSET Chains, NEW s \in StepsFor(D), NEW c
  PROVE  CleanStep(c, s)
  BY ZenonT(30) DEF StepsFor, CleanStep

\* A step that removes something of a chain is about that chain only.
LEMMA StepOfOneChain ==
  ASSUME NEW ch \in Chains, NEW d \in Chains,
         {Unhook(ch), EmptyChain(ch), DeleteChain(ch)}
           \cap {Unhook(d), EmptyChain(d), DeleteChain(d)} # {}
  PROVE  ch = d
  BY DEF Unhook, EmptyChain, DeleteChain, Quiet

\* deleteChain unhooks, flushes and deletes its chain, in that order.
LEMMA DeletesOne ==
  ASSUME NEW ch \in Chains
  PROVE  Deletes(deleteChain(ch), {ch})
<1>. DEFINE s == deleteChain(ch)
<1>1. s = <<Unhook(ch), EmptyChain(ch), DeleteChain(ch)>>
  BY ZenonT(30) DEF deleteChain, Unhook, EmptyChain, DeleteChain
<1>. HIDE DEF s
<1>2. IsSeq(s) /\ Range(s) = {Unhook(ch), EmptyChain(ch), DeleteChain(ch)} /\ Len(s) = 3
  BY ZenonT(30), <1>1, Steps3
<1>3. Unhook(ch) # DeleteChain(ch) /\ EmptyChain(ch) # DeleteChain(ch)
  BY ZenonT(30) DEF Unhook, EmptyChain, DeleteChain, Quiet
<1>4. \A d \in Chains : DeleteChain(d) = DeleteChain(ch) => d = ch
  BY ZenonT(30) DEF DeleteChain, Quiet
<1>5. \A d \in Chains : DeleteChain(d) # Unhook(ch) /\ DeleteChain(d) # EmptyChain(ch)
  BY ZenonT(30) DEF Unhook, EmptyChain, DeleteChain, Quiet
<1>6. /\ ~TooLate(Unhook(ch), EmptyChain(ch))
      /\ ~TooLate(Unhook(ch), DeleteChain(ch))
      /\ ~TooLate(EmptyChain(ch), DeleteChain(ch))
  <2>1. \A c : CleanStep(c, Unhook(ch)) /\ CleanStep(c, EmptyChain(ch)) /\ CleanStep(c, DeleteChain(ch))
    BY ZenonT(30) DEF CleanStep
  <2>. QED
    BY ZenonT(30), <1>5, <2>1, CleanTooLate
<1>7. s[1] = Unhook(ch) /\ s[2] = EmptyChain(ch) /\ s[3] = DeleteChain(ch)
  BY ZenonT(30), <1>1
<1>8. Ordered(s)
  BY <1>2, <1>6, <1>7 DEF Ordered
<1>. QED
  BY ZenonT(30), <1>2, <1>8 DEF Deletes, StepsFor, s

\* A script that removes the chains of D, followed by deleteChain of another.
LEMMA DeletesMore ==
  ASSUME NEW D \in SUBSET Chains, NEW ch \in Chains \ D, NEW s, Deletes(s, D)
  PROVE  Deletes(s \o deleteChain(ch), D \cup {ch})
<1>. DEFINE b == deleteChain(ch)
<1>1. Deletes(b, {ch})
  BY Zenon, DeletesOne
<1>. HIDE DEF b
<1>2. ASSUME NEW x \in Range(s), NEW y \in Range(b) PROVE ~TooLate(x, y)
  <2>1. PICK d \in D : x \in {Unhook(d), EmptyChain(d), DeleteChain(d)}
    BY ZenonT(30) DEF Deletes, StepsFor
  <2>2. y \in {Unhook(ch), EmptyChain(ch), DeleteChain(ch)}
    BY ZenonT(30), <1>1 DEF Deletes, StepsFor
  <2>3. \A c : CleanStep(c, x) /\ CleanStep(c, y)
    BY ZenonT(30), <2>1, <2>2 DEF CleanStep
  <2>. SUFFICES ASSUME TooLate(x, y) PROVE FALSE
    BY ZenonT(30)
  <2>4. PICK e \in Chains : x = DeleteChain(e) /\ y \in {Unhook(e), EmptyChain(e)}
    BY ZenonT(30), <2>3, CleanTooLate
  <2>5. e = d /\ e = ch
    BY ZenonT(30), <2>1, <2>2, <2>4, StepOfOneChain
  <2>. QED
    BY ZenonT(30), <2>5
<1>3. Ordered(s \o b)
  BY ZenonT(30), <1>1, <1>2, OrderedConcat DEF Deletes
<1>4. IsSeq(s \o b) /\ Range(s \o b) = StepsFor(D) \cup StepsFor({ch})
  BY ZenonT(30), <1>1, ConcatFacts DEF Deletes
<1>5. StepsFor(D) \cup StepsFor({ch}) = StepsFor(D \cup {ch})
  BY Zenon DEF StepsFor
<1>. QED
  BY ZenonT(30), <1>3, <1>4, <1>5 DEF Deletes, b


\* Together they remove all chains.
LEMMA DeletesAll == Deletes(deleteChains, Chains)
<1>. DEFINE s1 == deleteChain("HSH_MPRE")
            s2 == s1 \o deleteChain("HSH_NPRE")
            s3 == s2 \o deleteChain("HSH_NPOST")
            s4 == s3 \o deleteChain("HSH_FWD")
            s5 == s4 \o deleteChain("HSH_MFWD")
            s6 == s5 \o deleteChain("HSH_INPUT")
            s7 == s6 \o deleteChain("HSH_OUTPUT")
            s8 == s7 \o deleteChain("HSH_MOUT")
            D1 == {"HSH_MPRE"}
            D2 == D1 \cup {"HSH_NPRE"}
            D3 == D2 \cup {"HSH_NPOST"}
            D4 == D3 \cup {"HSH_FWD"}
            D5 == D4 \cup {"HSH_MFWD"}
            D6 == D5 \cup {"HSH_INPUT"}
            D7 == D6 \cup {"HSH_OUTPUT"}
            D8 == D7 \cup {"HSH_MOUT"}
<1>1. /\ D1 \subseteq Chains
      /\ D2 \subseteq Chains /\ "HSH_NPRE" \in Chains \ D1
      /\ D3 \subseteq Chains /\ "HSH_NPOST" \in Chains \ D2
      /\ D4 \subseteq Chains /\ "HSH_FWD" \in Chains \ D3
      /\ D5 \subseteq Chains /\ "HSH_MFWD" \in Chains \ D4
      /\ D6 \subseteq Chains /\ "HSH_INPUT" \in Chains \ D5
      /\ D7 \subseteq Chains /\ "HSH_OUTPUT" \in Chains \ D6
      /\ D8 \subseteq Chains /\ "HSH_MOUT" \in Chains \ D7
      /\ D8 = Chains
  BY ZenonT(30) DEF Chains
<1>2. deleteChains = s8
  BY ZenonT(30) DEF deleteChains
<1>3. Deletes(s1, D1)
  BY ZenonT(30), <1>1, DeletesOne
<1>. HIDE DEF D1, D2, D3, D4, D5, D6, D7, D8
<1>. HIDE DEF s1, s2, s3, s4, s5, s6, s7, s8
<1>4. Deletes(s2, D2)
  BY ZenonT(30), <1>1, <1>3, DeletesMore DEF s2, D2
<1>5. Deletes(s3, D3)
  BY ZenonT(30), <1>1, <1>4, DeletesMore DEF s3, D3
<1>6. Deletes(s4, D4)
  BY Zenon, <1>1, <1>5, DeletesMore DEF s4, D4
<1>7. Deletes(s5, D5)
  BY ZenonT(30), <1>1, <1>6, DeletesMore DEF s5, D5
<1>8. Deletes(s6, D6)
  BY ZenonT(30), <1>1, <1>7, DeletesMore DEF s6, D6
<1>9. Deletes(s7, D7)
  BY ZenonT(30), <1>1, <1>8, DeletesMore DEF s7, D7
<1>10. Deletes(s8, D8)
  BY ZenonT(30), <1>1, <1>9, DeletesMore DEF s8, D8
<1>. QED
  BY Zenon, <1>1, <1>2, <1>10


\* A step of a cleanup that is about no chain is never too late, nor are others
\* too late for it.
Plain(c, s) == CleanStep(c, s) /\ s \notin StepsFor(Chains)

\* A plain step stands in no order to the others.
LEMMA PlainInOrder ==
  ASSUME NEW c, NEW s, NEW t, CleanStep(c, s), CleanStep(c, t), Plain(c, s) \/ Plain(c, t)
  PROVE  ~TooLate(s, t)
  BY CleanTooLate DEF Plain, StepsFor

\* Plain steps may come in any order.
LEMMA PlainOrdered ==
  ASSUME NEW c, NEW a, IsSeq(a), \A s \in Range(a) : Plain(c, s)
  PROVE  Ordered(a)
  BY ZenonT(30), SeqFacts, PlainInOrder DEF Ordered, Plain

\* A cleanup stays a cleanup when plain steps follow it.
LEMMA PlainAfter ==
  ASSUME NEW c, NEW a, NEW b, IsSeq(a), IsSeq(b), Ordered(a),
         \A s \in Range(a) : CleanStep(c, s), \A s \in Range(b) : Plain(c, s)
  PROVE  /\ IsSeq(a \o b) /\ Ordered(a \o b)
         /\ Range(a \o b) = Range(a) \cup Range(b)
         /\ \A s \in Range(a \o b) : CleanStep(c, s)
<1>1. \A s \in Range(a), t \in Range(b) : ~TooLate(s, t)
  BY ZenonT(30), PlainInOrder DEF Plain
<1>2. Ordered(b)
  BY ZenonT(30), PlainOrdered
<1>3. IsSeq(a \o b) /\ Range(a \o b) = Range(a) \cup Range(b)
  BY ZenonT(30), ConcatFacts
<1>4. Ordered(a \o b)
  BY ZenonT(30), <1>1, <1>2, OrderedConcat
<1>. QED
  BY Zenon, <1>3, <1>4 DEF Plain

\* A cleanup stays a cleanup when plain steps come before it.
LEMMA PlainBefore ==
  ASSUME NEW c, NEW a, NEW b, IsSeq(a), IsSeq(b), Ordered(b),
         \A s \in Range(a) : Plain(c, s), \A s \in Range(b) : CleanStep(c, s)
  PROVE  /\ IsSeq(a \o b) /\ Ordered(a \o b)
         /\ Range(a \o b) = Range(a) \cup Range(b)
         /\ \A s \in Range(a \o b) : CleanStep(c, s)
<1>1. \A s \in Range(a), t \in Range(b) : ~TooLate(s, t)
  BY ZenonT(30), PlainInOrder DEF Plain
<1>2. Ordered(a)
  BY ZenonT(30), PlainOrdered
<1>3. IsSeq(a \o b) /\ Range(a \o b) = Range(a) \cup Range(b)
  BY ZenonT(30), ConcatFacts
<1>4. Ordered(a \o b)
  BY ZenonT(30), <1>1, <1>2, OrderedConcat
<1>. QED
  BY ZenonT(30), <1>3, <1>4 DEF Plain

\* Deleting a policy rule, flushing a table and deleting the route are plain.
LEMMA PlainSteps ==
  ASSUME NEW c
  PROVE  /\ \A p \in Prios : Plain(c, Quiet(RuleDel(p)))
         /\ \A t \in Tables : Plain(c, Quiet(Flush(t)))
         /\ Plain(c, Quiet([op |-> "route_del", route |-> MainRoute(c)]))
  BY ZenonT(30) DEF Plain, CleanStep, StepsFor, Quiet, RuleDel, Flush, Unhook, EmptyChain, DeleteChain

\* A script that removes the rules of P, the routes of the tables of T and all
\* chains, in order.
Cleans(c, s, P, T) ==
  /\ IsSeq(s) /\ Ordered(s)
  /\ \A x \in Range(s) : CleanStep(c, x)
  /\ StepsFor(Chains) \subseteq Range(s)
  /\ \A p \in P : Quiet(RuleDel(p)) \in Range(s)
  /\ \A t \in T : Quiet(Flush(t)) \in Range(s)
  /\ c.role = "kharej" /\ c.net.iran # "" =>
       Quiet([op |-> "route_del", route |-> MainRoute(c)]) \in Range(s)

\* cleanupRouting removes every chain, the rules 66 and 77 and the routes of
\* their tables.
LEMMA CleanupRoutingCleans ==
  ASSUME NEW c
  PROVE  Cleans(c, cleanupRouting(c), {66, 77}, {dataTable, transportTable})
<1>. DEFINE a == deleteChains
            b == << Quiet(RuleDel(66)), Quiet(Flush(dataTable)), Quiet(RuleDel(77)),
                    Quiet(Flush(transportTable)) >>
            d == When(c.role = "kharej" /\ c.net.iran # "",
                      <<Quiet([op |-> "route_del", route |-> Route(Main, c.net.iran, "tun")])>>)
<1>1. IsSeq(a) /\ Ordered(a) /\ Range(a) = StepsFor(Chains)
  BY ZenonT(30), DeletesAll DEF Deletes
<1>2. \A s \in Range(a) : CleanStep(c, s)
  BY ZenonT(30), <1>1, ChainSteps
<1>3. /\ IsSeq(b)
      /\ Range(b) = {Quiet(RuleDel(66)), Quiet(Flush(dataTable)), Quiet(RuleDel(77)),
                     Quiet(Flush(transportTable))}
  BY Steps4
<1>4. \A s \in Range(b) : Plain(c, s)
  <2>1. Plain(c, Quiet(RuleDel(66))) /\ Plain(c, Quiet(RuleDel(77)))
    BY ZenonT(30), PlainSteps DEF Prios
  <2>2. Plain(c, Quiet(Flush(dataTable))) /\ Plain(c, Quiet(Flush(transportTable)))
    BY ZenonT(30), PlainSteps DEF Tables
  <2>. QED
    BY ZenonT(30), <1>3, <2>1, <2>2
<1>5. /\ IsSeq(d) /\ \A s \in Range(d) : Plain(c, s)
      /\ c.role = "kharej" /\ c.net.iran # "" =>
           Quiet([op |-> "route_del", route |-> MainRoute(c)]) \in Range(d)
  <2>. DEFINE x == Quiet([op |-> "route_del", route |-> MainRoute(c)])
  <2>1. CASE c.role = "kharej" /\ c.net.iran # ""
    <3>1. d = <<x>>
      BY ZenonT(30), <2>1 DEF When, MainRoute
    <3>. HIDE DEF d, x
    <3>2. IsSeq(d) /\ Range(d) = {x}
      BY ZenonT(30), <3>1, OneStep
    <3>. USE DEF x
    <3>. QED
      BY Zenon, <3>2, PlainSteps
  <2>2. CASE ~(c.role = "kharej" /\ c.net.iran # "")
    BY ZenonT(30), <2>2, NoSteps DEF When
  <2>. QED
    BY ZenonT(30), <2>1, <2>2
<1>6. cleanupRouting(c) = (a \o b) \o d
  BY Zenon DEF cleanupRouting
<1>. HIDE DEF a, b, d
<1>7. /\ IsSeq(a \o b) /\ Ordered(a \o b) /\ Range(a \o b) = Range(a) \cup Range(b)
      /\ \A s \in Range(a \o b) : CleanStep(c, s)
  BY SMTT(60), <1>1, <1>2, <1>3, <1>4, PlainAfter
<1>8. /\ IsSeq(a \o b \o d) /\ Ordered(a \o b \o d)
      /\ Range(a \o b \o d) = Range(a \o b) \cup Range(d)
      /\ \A s \in Range(a \o b \o d) : CleanStep(c, s)
  <2>. DEFINE e == a \o b
  <2>1. IsSeq(e) /\ Ordered(e) /\ \A s \in Range(e) : CleanStep(c, s)
    BY ZenonT(30), <1>7
  <2>2. IsSeq(d) /\ \A s \in Range(d) : Plain(c, s)
    BY ZenonT(30), <1>5
  <2>. HIDE DEF e
  <2>3. /\ IsSeq(e \o d) /\ Ordered(e \o d) /\ Range(e \o d) = Range(e) \cup Range(d)
        /\ \A s \in Range(e \o d) : CleanStep(c, s)
    BY ZenonT(30), <2>1, <2>2, PlainAfter
  <2>. QED
    BY ZenonT(30), <2>3 DEF e
<1>. DEFINE w == cleanupRouting(c)
<1>9. IsSeq(w) /\ Ordered(w) /\ \A s \in Range(w) : CleanStep(c, s)
  BY ZenonT(30), <1>6, <1>8
<1>10. Range(w) = (Range(a) \cup Range(b)) \cup Range(d)
  BY ZenonT(30), <1>6, <1>7, <1>8
<1>. HIDE DEF w
<1>11. /\ StepsFor(Chains) \subseteq Range(w)
       /\ c.role = "kharej" /\ c.net.iran # "" =>
            Quiet([op |-> "route_del", route |-> MainRoute(c)]) \in Range(w)
  BY ZenonT(30), <1>1, <1>5, <1>10
<1>12. /\ \A p \in {66, 77} : Quiet(RuleDel(p)) \in Range(w)
       /\ \A t \in {dataTable, transportTable} : Quiet(Flush(t)) \in Range(w)
  BY ZenonT(30), <1>3, <1>10
<1>13. Cleans(c, w, {66, 77}, {dataTable, transportTable})
  BY ZenonT(30), <1>9, <1>11, <1>12 DEF Cleans
<1>. QED
  BY ZenonT(30), <1>13 DEF w

\* cleanupSmartReturnPolicy before another cleanup adds rule 68 and its table.
LEMMA PolicyFirst ==
  ASSUME NEW c, NEW s, NEW P, NEW T, Cleans(c, s, P, T)
  PROVE  Cleans(c, cleanupSmartReturnPolicy \o s, P \cup {68}, T \cup {returnTable})
<1>. DEFINE a == cleanupSmartReturnPolicy
<1>1. IsSeq(a) /\ Range(a) = {Quiet(RuleDel(68)), Quiet(Flush(returnTable))}
  BY ZenonT(30), Steps2 DEF cleanupSmartReturnPolicy
<1>2. \A x \in Range(a) : Plain(c, x)
  BY ZenonT(30), <1>1, PlainSteps DEF Prios, Tables
<1>. HIDE DEF a
<1>3. IsSeq(s) /\ Ordered(s) /\ \A x \in Range(s) : CleanStep(c, x)
  BY Zenon DEF Cleans
<1>4. /\ IsSeq(a \o s) /\ Ordered(a \o s) /\ Range(a \o s) = Range(a) \cup Range(s)
      /\ \A x \in Range(a \o s) : CleanStep(c, x)
  BY ZenonT(30), <1>1, <1>2, <1>3, PlainBefore
<1>5. Cleans(c, a \o s, P \cup {68}, T \cup {returnTable})
  BY ZenonT(30), <1>1, <1>4 DEF Cleans
<1>. QED
  BY ZenonT(30), <1>5 DEF a

\* The whole cleanup, and the roll-backs that contain it.
LEMMA CleanUpCleans ==
  ASSUME NEW c
  PROVE  /\ Cleans(c, CleanUp(c), Prios, Tables)
         /\ Cleans(c, RollBack(c, "routing"), {66, 77}, {dataTable, transportTable})
         /\ Cleans(c, RollBack(c, "both"), Prios, Tables)
         /\ Cleans(c, RollBack(c, "policy"), Prios, Tables)
         /\ RollBack(c, "none") = <<>>
<1>1. Cleans(c, CleanUp(c), {66, 77} \cup {68}, {dataTable, transportTable} \cup {returnTable})
  BY CleanupRoutingCleans, PolicyFirst DEF CleanUp
<1>2. {66, 77} \cup {68} = Prios /\ {dataTable, transportTable} \cup {returnTable} = Tables
  BY DEF Prios, Tables
<1>3. Prios \cup {68} = Prios /\ Tables \cup {returnTable} = Tables
  BY ZenonT(30) DEF Prios, Tables
<1>4. Cleans(c, CleanUp(c), Prios, Tables)
  BY ZenonT(30), <1>1, <1>2
<1>5. Cleans(c, cleanupSmartReturnPolicy \o CleanUp(c), Prios, Tables)
  BY <1>3, <1>4, PolicyFirst
<1>. QED
  BY ZenonT(30), <1>4, <1>5, CleanupRoutingCleans DEF RollBack

----------------------------------------------------------------------------
(* The set-up script: what its steps look like.                            *)

NewChain(ch)      == Quiet([op |-> "-N", chain |-> ch])
HookStep(ch, u)   == [how |-> "hook", chain |-> ch, undo |-> u]
AddRule(ch, r, u) == Must([op |-> "-A", chain |-> ch, rule |-> r], u)
AddRoute(r)       == Must([op |-> "route_add", route |-> r], "routing")
DelRoute(r)       == Quiet([op |-> "route_del", route |-> r])
PutRoute(r)       == Must([op |-> "route_replace", route |-> r], "routing")
Link              == Must([op |-> "link"], "none")
Error             == Must([op |-> "error"], "both")
OnceStep(c) ==
  [how |-> "once", chain |-> "HSH_INPUT", undo |-> "both",
   rule |-> [match |-> CarrierMatch(c), target |-> "ACCEPT", arg |-> 0]]

\* What the rules of two chains look like: marks are set where there is none
\* and for service ports, and Kharej accepts service traffic from the tunnel.
RuleOK(c, ch, r) ==
  /\ ch = "HSH_MOUT" /\ r.target = "MARK" =>
       /\ r.arg = returnMark
       /\ "mark" \in DOMAIN r.match /\ r.match["mark"] = {0}
       /\ "sport" \in DOMAIN r.match /\ \E q \in Range(c.ports) : r.match["sport"] = {q.port}
  /\ ch = "HSH_INPUT" /\ c.role = "kharej" =>
       \/ r.target = "DROP"
       \/ "in" \in DOMAIN r.match /\ r.match["in"] = {"tun"}

DataRoute(c) == Route(dataTable, c.net.foreign, "tun")

\* The step adds a rule of this form, with this roll-back.
RuleStep(c, s, u) ==
  /\ s = AddRule(s.cmd.chain, s.cmd.rule, u)
  /\ s.cmd.chain \in Chains /\ RuleOK(c, s.cmd.chain, s.cmd.rule)

\* The steps by the order they come in; within a group it does not matter.
First(c, s) ==
  \/ \E ch \in Chains : s \in {NewChain(ch), ResetFlush(ch), HookStep(ch, "routing")}
  \/ s = Must(RuleAdd(66), "routing")
  \/ s = AddRoute(DataRoute(c)) /\ c.role = "iran"
Middle(c, s) ==
  \/ RuleStep(c, s, "routing")
  \/ s = Must(RuleAdd(77), "routing") \/ s = AddRoute(BypassRoute)
  \/ s = PutRoute(MainRoute(c)) /\ c.role = "kharej" /\ c.mode = "full" /\ c.ports # <<>>
  \/ s \in {DelReturn, Quiet(Flush(returnTable))}
Last(c, s) ==
  \/ RuleStep(c, s, "policy")
  \/ s \in {AddReturn, Quiet(Flush(returnTable)), Error}
  \/ \E ch \in Chains : s \in {NewChain(ch), HookStep(ch, "both")}

\* The fields of the steps; from here on a step is not taken apart.
LEMMA QuietFields ==
  ASSUME NEW x
  PROVE  /\ NewChain(x).how = "quiet" /\ NewChain(x).cmd.op = "-N" /\ NewChain(x).cmd.chain = x
         /\ EmptyChain(x).how = "quiet" /\ EmptyChain(x).cmd.op = "-F" /\ EmptyChain(x).cmd.chain = x
         /\ DeleteChain(x).how = "quiet" /\ DeleteChain(x).cmd.op = "-X" /\ DeleteChain(x).cmd.chain = x
         /\ Quiet(RuleDel(x)).how = "quiet" /\ Quiet(RuleDel(x)).cmd.op = "rule_del"
         /\ Quiet(RuleDel(x)).cmd.prio = x
         /\ Quiet(Flush(x)).how = "quiet" /\ Quiet(Flush(x)).cmd.op = "route_flush"
         /\ Quiet(Flush(x)).cmd.table = x
<1>1. NewChain(x).how = "quiet" /\ NewChain(x).cmd.op = "-N" /\ NewChain(x).cmd.chain = x
  BY ZenonT(30) DEF NewChain, Quiet
<1>2. EmptyChain(x).how = "quiet" /\ EmptyChain(x).cmd.op = "-F" /\ EmptyChain(x).cmd.chain = x
  BY Zenon DEF EmptyChain, Quiet
<1>3. DeleteChain(x).how = "quiet" /\ DeleteChain(x).cmd.op = "-X" /\ DeleteChain(x).cmd.chain = x
  BY ZenonT(30) DEF DeleteChain, Quiet
<1>4. /\ Quiet(RuleDel(x)).how = "quiet" /\ Quiet(RuleDel(x)).cmd.op = "rule_del"
      /\ Quiet(RuleDel(x)).cmd.prio = x
  BY Zenon DEF RuleDel, Quiet
<1>5. /\ Quiet(Flush(x)).how = "quiet" /\ Quiet(Flush(x)).cmd.op = "route_flush"
      /\ Quiet(Flush(x)).cmd.table = x
  BY ZenonT(30) DEF Flush, Quiet
<1>. QED
  BY ZenonT(30), <1>1, <1>2, <1>3, <1>4, <1>5

\* What the steps that insert and remove a jump say.
LEMMA HookFields ==
  ASSUME NEW x, NEW u
  PROVE  /\ HookStep(x, u).how = "hook" /\ HookStep(x, u).chain = x /\ HookStep(x, u).undo = u
         /\ Unhook(x).how = "unhook" /\ Unhook(x).chain = x
<1>1. HookStep(x, u).how = "hook" /\ HookStep(x, u).chain = x /\ HookStep(x, u).undo = u
  BY ZenonT(30) DEF HookStep
<1>2. Unhook(x).how = "unhook" /\ Unhook(x).chain = x
  BY Zenon DEF Unhook
<1>. QED
  BY ZenonT(30), <1>1, <1>2

\* What the steps that flush a chain and append a rule say.
LEMMA MustFields ==
  ASSUME NEW x, NEW r, NEW u
  PROVE  /\ ResetFlush(x).how = "must" /\ ResetFlush(x).undo = "routing"
         /\ ResetFlush(x).cmd.op = "-F" /\ ResetFlush(x).cmd.chain = x
         /\ AddRule(x, r, u).how = "must" /\ AddRule(x, r, u).undo = u
         /\ AddRule(x, r, u).cmd.op = "-A" /\ AddRule(x, r, u).cmd.chain = x
         /\ AddRule(x, r, u).cmd.rule = r
         /\ Must(RuleAdd(x), u).how = "must" /\ Must(RuleAdd(x), u).undo = u
         /\ Must(RuleAdd(x), u).cmd.op = "rule_add" /\ Must(RuleAdd(x), u).cmd.prio = x
<1>1. /\ ResetFlush(x).how = "must" /\ ResetFlush(x).undo = "routing"
      /\ ResetFlush(x).cmd.op = "-F" /\ ResetFlush(x).cmd.chain = x
  BY Zenon DEF ResetFlush, Must
<1>2. /\ AddRule(x, r, u).how = "must" /\ AddRule(x, r, u).undo = u
      /\ AddRule(x, r, u).cmd.op = "-A" /\ AddRule(x, r, u).cmd.chain = x
      /\ AddRule(x, r, u).cmd.rule = r
  BY ZenonT(30) DEF AddRule, Must
<1>3. /\ Must(RuleAdd(x), u).how = "must" /\ Must(RuleAdd(x), u).undo = u
      /\ Must(RuleAdd(x), u).cmd.op = "rule_add" /\ Must(RuleAdd(x), u).cmd.prio = x
  BY Zenon DEF RuleAdd, Must
<1>. QED
  BY ZenonT(30), <1>1, <1>2, <1>3

\* What the steps that add, replace and delete a route say.
LEMMA RouteFields ==
  ASSUME NEW r
  PROVE  /\ AddRoute(r).how = "must" /\ AddRoute(r).undo = "routing"
         /\ AddRoute(r).cmd.op = "route_add" /\ AddRoute(r).cmd.route = r
         /\ PutRoute(r).how = "must" /\ PutRoute(r).undo = "routing"
         /\ PutRoute(r).cmd.op = "route_replace" /\ PutRoute(r).cmd.route = r
         /\ DelRoute(r).how = "quiet" /\ DelRoute(r).cmd.op = "route_del" /\ DelRoute(r).cmd.route = r
<1>1. /\ AddRoute(r).how = "must" /\ AddRoute(r).undo = "routing"
      /\ AddRoute(r).cmd.op = "route_add" /\ AddRoute(r).cmd.route = r
  BY ZenonT(30) DEF AddRoute, Must
<1>2. /\ PutRoute(r).how = "must" /\ PutRoute(r).undo = "routing"
      /\ PutRoute(r).cmd.op = "route_replace" /\ PutRoute(r).cmd.route = r
  BY ZenonT(30) DEF PutRoute, Must
<1>3. DelRoute(r).how = "quiet" /\ DelRoute(r).cmd.op = "route_del" /\ DelRoute(r).cmd.route = r
  BY Zenon DEF DelRoute, Quiet
<1>. QED
  BY ZenonT(30), <1>1, <1>2, <1>3

\* What the remaining steps of the set-up say.
LEMMA OtherFields ==
  ASSUME NEW c
  PROVE  /\ Link.how = "must" /\ Link.undo = "none" /\ Link.cmd.op = "link"
         /\ Error.how = "must" /\ Error.undo = "both" /\ Error.cmd.op = "error"
         /\ AddReturn.how = "must" /\ AddReturn.undo = "both" /\ AddReturn.cmd.op = "rule_add"
         /\ AddReturn.cmd.prio = 68
         /\ DelReturn.how = "quiet" /\ DelReturn.cmd.op = "rule_del" /\ DelReturn.cmd.prio = 68
         /\ OnceStep(c).how = "once" /\ OnceStep(c).chain = "HSH_INPUT" /\ OnceStep(c).undo = "both"
<1>1. Link.how = "must" /\ Link.undo = "none" /\ Link.cmd.op = "link"
  BY ZenonT(30) DEF Link, Must
<1>2. Error.how = "must" /\ Error.undo = "both" /\ Error.cmd.op = "error"
  BY Zenon DEF Error, Must
<1>3. OnceStep(c).how = "once" /\ OnceStep(c).chain = "HSH_INPUT" /\ OnceStep(c).undo = "both"
  BY ZenonT(30) DEF OnceStep
<1>4. /\ AddReturn.how = "must" /\ AddReturn.undo = "both" /\ AddReturn.cmd.op = "rule_add"
      /\ AddReturn.cmd.prio = 68
  BY MustFields DEF AddReturn
<1>5. DelReturn.how = "quiet" /\ DelReturn.cmd.op = "rule_del" /\ DelReturn.cmd.prio = 68
  BY SMTT(60), QuietFields DEF DelReturn
<1>. QED
  BY ZenonT(30), <1>1, <1>2, <1>3, <1>4, <1>5

\* What the steps that add and delete a policy rule say.
LEMMA PrioFields ==
  ASSUME NEW p \in Prios, NEW u
  PROVE  /\ Must(RuleAdd(p), u).how = "must" /\ Must(RuleAdd(p), u).undo = u
         /\ Must(RuleAdd(p), u).cmd.op = "rule_add" /\ Must(RuleAdd(p), u).cmd.prio = p
         /\ Quiet(RuleDel(p)).how = "quiet" /\ Quiet(RuleDel(p)).cmd.op = "rule_del"
         /\ Quiet(RuleDel(p)).cmd.prio = p
  BY MustFields, QuietFields

\* What the steps of a group have in common.
LEMMA FirstKind ==
  ASSUME NEW c, NEW s, First(c, s)
  PROVE  /\ s.how \in {"quiet", "hook", "must"}
         /\ s.how = "quiet" => s.cmd.op = "-N"
         /\ s.how \in {"hook", "must"} => s.undo = "routing"
         /\ s.how = "must" => s.cmd.op \in {"-F", "rule_add", "route_add"}
<1>1. CASE \E ch \in Chains : s \in {NewChain(ch), ResetFlush(ch), HookStep(ch, "routing")}
  <2>1. PICK ch \in Chains : s \in {NewChain(ch), ResetFlush(ch), HookStep(ch, "routing")}
    BY ZenonT(30), <1>1
  <2>2. CASE s = NewChain(ch)
    BY SMTT(60), <2>2, QuietFields
  <2>3. CASE s = ResetFlush(ch)
    BY <2>3, MustFields
  <2>4. CASE s = HookStep(ch, "routing")
    BY SMTT(60), <2>4, HookFields
  <2>. QED
    BY ZenonT(30), <2>1, <2>2, <2>3, <2>4
<1>2. CASE s = Must(RuleAdd(66), "routing")
  BY SMTT(60), <1>2, PrioFields DEF Prios
<1>3. CASE s = AddRoute(DataRoute(c))
  BY <1>3, RouteFields
<1>. QED
  BY Zenon, <1>1, <1>2, <1>3 DEF First

\* The kinds of steps in the middle group.
LEMMA MiddleKind ==
  ASSUME NEW c, NEW s, Middle(c, s)
  PROVE  /\ s.how \in {"quiet", "must"}
         /\ s.how = "quiet" => s.cmd.op \in {"rule_del", "route_flush"}
         /\ s.how = "must" => /\ s.undo = "routing"
                              /\ s.cmd.op \in {"-A", "rule_add", "route_add", "route_replace"}
<1>1. CASE RuleStep(c, s, "routing")
  BY SMTT(60), <1>1, MustFields DEF RuleStep
<1>2. CASE s \in {DelReturn, Quiet(Flush(returnTable))}
  BY SMTT(60), <1>2, QuietFields, OtherFields
<1>3. CASE s = Must(RuleAdd(77), "routing") \/ s = AddRoute(BypassRoute) \/ s = PutRoute(MainRoute(c))
  BY <1>3, MustFields, RouteFields
<1>. QED
  BY Zenon, <1>1, <1>2, <1>3 DEF Middle

\* The kinds of steps in the last group.
LEMMA LastKind ==
  ASSUME NEW c, NEW s, Last(c, s)
  PROVE  /\ s.how \in {"quiet", "hook", "must"}
         /\ s.how = "quiet" => s.cmd.op \in {"-N", "route_flush"}
         /\ s.how \in {"hook", "must"} => s.undo \in {"both", "policy"}
         /\ s.how = "must" => s.cmd.op \in {"-A", "rule_add", "error"}
<1>1. CASE RuleStep(c, s, "policy")
  BY SMTT(60), <1>1, MustFields DEF RuleStep
<1>2. CASE s \in {AddReturn, Quiet(Flush(returnTable)), Error}
  BY SMTT(60), <1>2, QuietFields, OtherFields
<1>3. CASE \E ch \in Chains : s \in {NewChain(ch), HookStep(ch, "both")}
  BY <1>3, QuietFields, HookFields
<1>. QED
  BY ZenonT(30), <1>1, <1>2, <1>3 DEF Last

\* What makes a step too late, group by group.
LEMMA AfterFirst ==
  ASSUME NEW c, NEW s, First(c, s), NEW t, TooLate(s, t)
  PROVE  Undo(t) = "none"
<1>1. s.how # "once" /\ (s.how = "must" => s.cmd.op # "-A")
  BY ZenonT(30), FirstKind
<1>2. s # AddReturn
  BY ZenonT(30), FirstKind, OtherFields
<1>3. \A ch \in Chains : s # DeleteChain(ch)
  BY FirstKind, QuietFields
<1>. QED
  BY ZenonT(30), <1>1, <1>2, <1>3 DEF TooLate

\* Only the first groups must not follow a step of the middle group.
LEMMA AfterMiddle ==
  ASSUME NEW c, NEW s, Middle(c, s), NEW t, TooLate(s, t)
  PROVE  Undo(t) = "none" \/ \E ch \in Chains : t = ResetFlush(ch)
<1>1. s.how # "once"
  BY ZenonT(30), MiddleKind
<1>2. s # AddReturn
  BY SMTT(60), MiddleKind, OtherFields
<1>3. \A ch \in Chains : s # DeleteChain(ch)
  BY MiddleKind, QuietFields
<1>. QED
  BY ZenonT(30), <1>1, <1>2, <1>3 DEF TooLate

\* Only the groups before it must not follow a step of the last group.
LEMMA AfterLast ==
  ASSUME NEW c, NEW s, Last(c, s), NEW t, TooLate(s, t)
  PROVE  \/ Undo(t) \in {"none", "routing"} \/ t = DelReturn
         \/ \E ch \in Chains : t = ResetFlush(ch)
<1>1. s.how # "once"
  BY ZenonT(30), LastKind
<1>2. \A ch \in Chains : s # DeleteChain(ch)
  BY LastKind, QuietFields
<1>. QED
  BY ZenonT(30), <1>1, <1>2 DEF TooLate

\* A failing step of the first group rolls back the routing at most.
LEMMA FirstUndo ==
  ASSUME NEW c, NEW s, First(c, s)
  PROVE  Undo(s) \in {"nothing", "routing"}
  BY ZenonT(30), FirstKind DEF Undo

\* A failing step of the middle group rolls back the routing at most.
LEMMA MiddleUndo ==
  ASSUME NEW c, NEW s, Middle(c, s)
  PROVE  Undo(s) \in {"nothing", "routing"} /\ \A ch \in Chains : s # ResetFlush(ch)
<1>1. Undo(s) \in {"nothing", "routing"}
  BY ZenonT(30), MiddleKind DEF Undo
<1>2. \A ch \in Chains : s # ResetFlush(ch)
  BY MiddleKind, MustFields
<1>. QED
  BY ZenonT(30), <1>1, <1>2

\* A failing step of the last group rolls back the policy too.
LEMMA LastUndo ==
  ASSUME NEW c, NEW s, Last(c, s)
  PROVE  /\ Undo(s) \in {"nothing", "policy", "both"} /\ s # DelReturn
         /\ \A ch \in Chains : s # ResetFlush(ch)
<1>1. Undo(s) \in {"nothing", "policy", "both"}
  BY ZenonT(30), LastKind DEF Undo
<1>2. \A ch \in Chains : s # ResetFlush(ch)
  BY LastKind, MustFields
<1>3. s # DelReturn
  BY ZenonT(30), LastKind, OtherFields
<1>. QED
  BY ZenonT(30), <1>1, <1>2, <1>3

\* Steps of one group, or of a later one, are not too late.
Group(n, c, s) ==
  \/ n = 0 /\ s = Link
  \/ n = 1 /\ First(c, s)
  \/ n = 2 /\ Middle(c, s)
  \/ n = 3 /\ Last(c, s)
  \/ n = 4 /\ s = OnceStep(c)

\* What the steps of a later group are not.
LEMMA LaterUndo ==
  ASSUME NEW c, NEW m \in 1 .. 4, NEW t, Group(m, c, t)
  PROVE  /\ Undo(t) # "none"
         /\ m > 1 => \A ch \in Chains : t # ResetFlush(ch)
         /\ m > 2 => t # DelReturn /\ Undo(t) # "routing"
<1>1. CASE m = 1
  BY <1>1, FirstUndo DEF Group
<1>2. CASE m = 2
  BY <1>2, MiddleUndo DEF Group
<1>3. CASE m = 3
  BY SMTT(60), <1>3, LastUndo DEF Group
<1>4. CASE m = 4
  BY <1>4, OtherFields, MustFields DEF Group, Undo
<1>. QED
  BY SMTT(60), <1>1, <1>2, <1>3, <1>4

\* A step of a later group never comes too late after one of an earlier group.
LEMMA GroupOrder ==
  ASSUME NEW c, NEW n \in 0 .. 3, NEW m \in 1 .. 4, n <= m, NEW s, NEW t, Group(n, c, s), Group(m, c, t)
  PROVE  ~TooLate(s, t)
<1>0. CASE n = 0
  <2>1. s.how = "must" /\ s.cmd.op = "link"
    BY SMTT(60), <1>0, OtherFields DEF Group
  <2>2. s # AddReturn /\ \A ch \in Chains : s # DeleteChain(ch)
    BY SMTT(60), <2>1, OtherFields, QuietFields
  <2>. QED
    BY ZenonT(30), <2>1, <2>2, LaterUndo DEF TooLate
<1>1. CASE n = 1
  BY SMTT(60), <1>1, AfterFirst, LaterUndo DEF Group
<1>2. CASE n = 2
  BY SMTT(60), <1>2, AfterMiddle, LaterUndo DEF Group
<1>3. CASE n = 3
  BY SMTT(60), <1>3, AfterLast, LaterUndo DEF Group
<1>. QED
  BY SMTT(60), <1>0, <1>1, <1>2, <1>3

\* Scripts of one group, and of several in their order.
Piece(c, b, n) == IsSeq(b) /\ \A x \in Range(b) : Group(n, c, x)
Span(c, b, lo, hi) ==
  IsSeq(b) /\ Ordered(b) /\ \A x \in Range(b) : \E n \in lo .. hi : Group(n, c, x)

\* Two pieces of a group make a piece of it.
LEMMA PieceConcat ==
  ASSUME NEW c, NEW n, NEW a, NEW b, Piece(c, a, n), Piece(c, b, n)
  PROVE  Piece(c, a \o b, n) /\ Range(a \o b) = Range(a) \cup Range(b)
  BY ZenonT(30), ConcatFacts DEF Piece

\* The empty script is a piece of every group.
LEMMA NoPiece ==
  ASSUME NEW c, NEW n
  PROVE  Piece(c, <<>>, n)
  BY ZenonT(30), NoSteps DEF Piece

\* So is what is joined from pieces.
LEMMA PieceJoined ==
  ASSUME NEW c, NEW n, NEW L \in Nat, NEW ss, ss = [i \in 1 .. L |-> ss[i]],
         \A i \in 1 .. L : Piece(c, ss[i], n)
  PROVE  /\ Piece(c, Joined(ss), n)
         /\ \A i \in 1 .. L : \A x \in Range(ss[i]) : x \in Range(Joined(ss))
<1>1. Len(ss) = L
  OBVIOUS
<1>2. \A i \in 1 .. Len(ss) : IsSeq(ss[i])
  BY ZenonT(30), <1>1 DEF Piece
<1>. QED
  BY ZenonT(30), <1>1, <1>2, JoinedFacts DEF Piece

\* A piece of a group spans that group alone.
LEMMA PieceSpan ==
  ASSUME NEW c, NEW n \in 1 .. 3, NEW b, Piece(c, b, n)
  PROVE  Span(c, b, n, n)
<1>1. \A s, t \in Range(b) : ~TooLate(s, t)
  <2>. SUFFICES ASSUME NEW s \in Range(b), NEW t \in Range(b) PROVE ~TooLate(s, t)
    BY ZenonT(30)
  <2>1. Group(n, c, s) /\ Group(n, c, t)
    BY ZenonT(30) DEF Piece
  <2>2. n \in 0 .. 3 /\ n \in 1 .. 4 /\ n <= n
    OBVIOUS
  <2>. QED
    BY ZenonT(30), <2>1, <2>2, GroupOrder
<1>2. Ordered(b)
  BY ZenonT(30), <1>1, SeqFacts DEF Piece, Ordered
<1>3. n \in n .. n
  OBVIOUS
<1>. QED
  BY ZenonT(30), <1>2, <1>3 DEF Piece, Span

\* Scripts of successive groups make a script of them all.
LEMMA SpanConcat ==
  ASSUME NEW c, NEW l \in 0 .. 4, NEW h \in l .. 4, NEW m \in h .. 4, NEW k \in m .. 4,
         h < 4, 0 < m, NEW a, NEW b, Span(c, a, l, h), Span(c, b, m, k)
  PROVE  Span(c, a \o b, l, k) /\ Range(a \o b) = Range(a) \cup Range(b)
<1>1. IsSeq(a) /\ Ordered(a) /\ IsSeq(b) /\ Ordered(b)
  BY ZenonT(30) DEF Span
<1>2. IsSeq(a \o b) /\ Range(a \o b) = Range(a) \cup Range(b)
  BY ZenonT(30), <1>1, ConcatFacts
<1>3. ASSUME NEW s \in Range(a), NEW t \in Range(b) PROVE ~TooLate(s, t)
  <2>1. PICK i \in l .. h : Group(i, c, s)
    BY ZenonT(30) DEF Span
  <2>2. PICK j \in m .. k : Group(j, c, t)
    BY ZenonT(30) DEF Span
  <2>. QED
    BY <2>1, <2>2, GroupOrder
<1>4. Ordered(a \o b)
  BY ZenonT(30), <1>1, <1>3, OrderedConcat
<1>5. ASSUME NEW x \in Range(a \o b) PROVE \E n \in l .. k : Group(n, c, x)
  <2>1. CASE x \in Range(a)
    <3>1. PICK i \in l .. h : Group(i, c, x)
      BY ZenonT(30), <2>1 DEF Span
    <3>. QED
      BY <3>1
  <2>2. CASE x \in Range(b)
    <3>1. PICK i \in m .. k : Group(i, c, x)
      BY ZenonT(30), <2>2 DEF Span
    <3>. QED
      BY <3>1
  <2>. QED
    BY ZenonT(30), <1>2, <2>1, <2>2
<1>. QED
  BY ZenonT(30), <1>2, <1>4, <1>5 DEF Span

\* Scripts of no or one step.
LEMMA ShortSpan ==
  ASSUME NEW c, NEW l \in 0 .. 4, NEW h \in l .. 4
  PROVE  /\ Span(c, <<>>, l, h) /\ Range(<<>>) = {}
         /\ \A e : Group(l, c, e) => Span(c, <<e>>, l, h) /\ Range(<<e>>) = {e}
<1>1. IsSeq(<<>>) /\ Range(<<>>) = {} /\ Len(<<>>) = 0
  BY ZenonT(30), NoSteps
<1>2. Span(c, <<>>, l, h)
  BY <1>1 DEF Span, Ordered
<1>3. ASSUME NEW e, Group(l, c, e) PROVE Span(c, <<e>>, l, h) /\ Range(<<e>>) = {e}
  <2>1. IsSeq(<<e>>) /\ Range(<<e>>) = {e}
    BY ZenonT(30), OneStep
  <2>2. Len(<<e>>) = 1
    BY ZenonT(30)
  <2>3. Ordered(<<e>>)
    BY SMTT(60), <2>2 DEF Ordered
  <2>4. l \in l .. h
    OBVIOUS
  <2>. QED
    BY ZenonT(30), <1>3, <2>1, <2>3, <2>4 DEF Span
<1>. QED
  BY ZenonT(30), <1>1, <1>2, <1>3

----------------------------------------------------------------------------
(* The parts of the set-up script.                                         *)

\* What loadConfig has made sure of.
ConfigOK(c) == Valid(c) /\ c.ports \in Seq([port : Int, proto : STRING])

\* loadConfig admits three protocols.
LEMMA PortsProto ==
  ASSUME NEW ps, ServicePortsOK(ps)
  PROVE  \A i \in 1 .. Len(ps) : ps[i].proto \in {"tcp", "udp", "both"}
  BY ZenonT(30) DEF ServicePortsOK

\* What a configuration that passes loadConfig looks like, as far as routing goes.
LEMMA ConfigFacts ==
  ASSUME NEW c, ConfigOK(c)
  PROVE  /\ c.role \in {"iran", "kharej"} /\ c.mode \in {"full", "direct-return"}
         /\ IsSeq(c.ports) /\ Len(c.ports) \in Nat
         /\ \A i \in 1 .. Len(c.ports) : /\ c.ports[i] \in Range(c.ports)
                                         /\ c.ports[i].proto \in {"tcp", "udp", "both"}
         /\ c.ports # <<>> => c.net.iran # ""
<1>1. IsSeq(c.ports)
  BY ZenonT(30), SeqOf DEF ConfigOK
<1>2. /\ Len(c.ports) \in Nat
      /\ \A i \in 1 .. Len(c.ports) : c.ports[i] \in Range(c.ports)
      /\ Len(c.ports) = 0 <=> c.ports = <<>>
  BY ZenonT(30), <1>1, SeqFacts
<1>3. c.ports # <<>> => ServicesOK(c)
  BY ZenonT(30) DEF ConfigOK, Valid
<1>4. c.ports # <<>> => c.net.iran # "" /\ ServicePortsOK(c.ports)
  BY Zenon, <1>3 DEF ServicesOK
<1>4a. \A i \in 1 .. Len(c.ports) : c.ports[i].proto \in {"tcp", "udp", "both"}
  <2>1. CASE c.ports = <<>>
    BY <1>2, <2>1
  <2>2. CASE c.ports # <<>>
    BY ZenonT(30), <1>4, <2>2, PortsProto
  <2>. QED
    BY ZenonT(30), <2>1, <2>2
<1>5. c.role \in {"iran", "kharej"} /\ c.mode \in {"full", "direct-return"}
  BY ZenonT(30) DEF ConfigOK, Valid
<1>. QED
  BY ZenonT(30), <1>1, <1>2, <1>4, <1>4a, <1>5

\* protocols lists what protocolIncludes says.
LEMMA Protocols ==
  ASSUME NEW p \in {"tcp", "udp", "both"}
  PROVE  /\ Len(protocols(p)) \in Nat
         /\ \A x \in {"tcp", "udp"} : protocolIncludes(p, x) =>
              \E j \in 1 .. Len(protocols(p)) : protocols(p)[j] = x
<1>1. CASE p = "both"
  <2>1. protocols(p) = <<"tcp", "udp">>
    BY ZenonT(30), <1>1 DEF protocols
  <2>2. Len(protocols(p)) = 2 /\ protocols(p)[1] = "tcp" /\ protocols(p)[2] = "udp"
    BY SMTT(60), <2>1
  <2>. QED
    BY <2>2
<1>2. CASE p # "both"
  <2>1. protocols(p) = <<p>>
    BY ZenonT(30), <1>2 DEF protocols
  <2>2. Len(protocols(p)) = 1 /\ protocols(p)[1] = p
    BY <2>1
  <2>. QED
    BY <1>2, <2>2 DEF protocolIncludes
<1>. QED
  BY ZenonT(30), <1>1, <1>2

\* resetChains flushes and hooks each of its chains.
LEMMA ResetPiece ==
  ASSUME NEW c, NEW t \in Seq(Chains)
  PROVE  /\ Piece(c, resetChains(t), 1)
         /\ \A ch \in Range(t) : /\ ResetFlush(ch) \in Range(resetChains(t))
                                 /\ HookStep(ch, "routing") \in Range(resetChains(t))
<1>. DEFINE ss == [i \in 1 .. Len(t) |-> resetChain(t[i])]
<1>1. IsSeq(t) /\ Range(t) \subseteq Chains /\ Len(t) \in Nat
  BY ZenonT(30), SeqOf, SeqFacts
<1>2. ASSUME NEW i \in 1 .. Len(t)
      PROVE  /\ Piece(c, ss[i], 1)
             /\ ResetFlush(t[i]) \in Range(ss[i]) /\ HookStep(t[i], "routing") \in Range(ss[i])
  <2>1. t[i] \in Chains
    BY ZenonT(30), <1>1, SeqFacts
  <2>2. ss[i] = <<NewChain(t[i]), ResetFlush(t[i]), HookStep(t[i], "routing")>>
    BY ZenonT(30) DEF resetChain, NewChain, ResetFlush, HookStep
  <2>. HIDE DEF ss
  <2>3. IsSeq(ss[i]) /\ Range(ss[i]) = {NewChain(t[i]), ResetFlush(t[i]), HookStep(t[i], "routing")}
    BY <2>2, Steps3
  <2>. QED
    BY ZenonT(30), <2>1, <2>3 DEF Piece, Group, First
<1>3. resetChains(t) = Joined(ss) /\ ss = [i \in 1 .. Len(t) |-> ss[i]]
  BY ZenonT(30) DEF resetChains
<1>. HIDE DEF ss
<1>4. /\ Piece(c, Joined(ss), 1)
      /\ \A i \in 1 .. Len(t) : \A x \in Range(ss[i]) : x \in Range(Joined(ss))
  BY ZenonT(30), <1>1, <1>2, <1>3, PieceJoined
<1>5. \A ch \in Range(t) : \E i \in 1 .. Len(t) : t[i] = ch
  BY ZenonT(30), <1>1, SeqFacts
<1>. QED
  BY ZenonT(30), <1>2, <1>3, <1>4, <1>5

\* A rule that is added.
LEMMA IptStep ==
  ASSUME NEW c, NEW ch \in Chains, NEW m, NEW t, NEW a, NEW u,
         RuleOK(c, ch, [match |-> m, target |-> t, arg |-> a])
  PROVE  /\ Ipt(ch, m, t, a, u) = AddRule(ch, [match |-> m, target |-> t, arg |-> a], u)
         /\ RuleStep(c, Ipt(ch, m, t, a, u), u)
<1>. DEFINE r == [match |-> m, target |-> t, arg |-> a]
<1>1. Ipt(ch, m, t, a, u) = AddRule(ch, r, u)
  BY ZenonT(30) DEF Ipt, AddRule
<1>. HIDE DEF r
<1>2. RuleStep(c, AddRule(ch, r, u), u)
  BY MustFields DEF RuleStep, r
<1>. QED
  BY ZenonT(30), <1>1, <1>2 DEF r

\* Most chains take any rule.
LEMMA PlainRule ==
  ASSUME NEW c, NEW ch, NEW r, ch # "HSH_MOUT" \/ r.target # "MARK",
         ch # "HSH_INPUT" \/ c.role # "kharej"
  PROVE  RuleOK(c, ch, r)
  BY ZenonT(30) DEF RuleOK

\* A rule that drops may stand in the input chain.
LEMMA DroppingRule ==
  ASSUME NEW c, NEW r, r.target = "DROP"
  PROVE  RuleOK(c, "HSH_INPUT", r)
  BY Zenon DEF RuleOK

\* A rule that setupRouting appends belongs to the middle group.
LEMMA IptMiddle ==
  ASSUME NEW c, NEW ch \in Chains, NEW m, NEW t, NEW a, ch # "HSH_MOUT" \/ t # "MARK",
         ch # "HSH_INPUT" \/ c.role # "kharej"
  PROVE  Group(2, c, Ipt(ch, m, t, a, "routing"))
<1>. DEFINE r == [match |-> m, target |-> t, arg |-> a]
<1>1. r.target = t
  BY ZenonT(30)
<1>2. RuleOK(c, ch, r)
  BY ZenonT(30), <1>1, PlainRule
<1>3. RuleStep(c, Ipt(ch, m, t, a, "routing"), "routing")
  BY ZenonT(30), <1>2, IptStep
<1>. QED
  BY ZenonT(30), <1>3 DEF Group, Middle

\* The rules for one protocol and port on the Iran host.
LEMMA IranServicePiece ==
  ASSUME NEW c, c.role = "iran", NEW proto, NEW port
  PROVE  Piece(c, IranService(c, proto, port), 2)
<1>. DEFINE client == [in |-> {"pub"}, dst |-> {c.net.ip}, proto |-> {proto}, dport |-> {port}]
            on == [in |-> {"pub"}, out |-> {"tun"}, dst |-> {c.net.foreign}, proto |-> {proto},
                   dport |-> {port}, ct |-> {"new", "est"}]
            x1 == Ipt("HSH_MPRE", client, "MARK", dataMark, "routing")
            x2 == Ipt("HSH_NPRE", client, "DNAT", c.net.foreign, "routing")
            x3 == Ipt("HSH_FWD", on, "ACCEPT", 0, "routing")
<1>1. IranService(c, proto, port) = <<x1, x2, x3>>
  BY ZenonT(30) DEF IranService
<1>. HIDE DEF client, on
<1>2. Group(2, c, x1) /\ Group(2, c, x2) /\ Group(2, c, x3)
  BY ZenonT(30), IptMiddle DEF Chains
<1>. HIDE DEF x1, x2, x3
<1>. QED
  BY <1>1, <1>2, Steps3 DEF Piece

IranServices(c) == PerService(c, LAMBDA proto, port : IranService(c, proto, port))

\* The rules for all its ports.
LEMMA IranServicesPiece ==
  ASSUME NEW c, ConfigOK(c), c.role = "iran"
  PROVE  Piece(c, IranServices(c), 2)
<1>. DEFINE inner(i) == [j \in 1 .. Len(protocols(c.ports[i].proto)) |->
                           IranService(c, protocols(c.ports[i].proto)[j], c.ports[i].port)]
            outer == [i \in 1 .. Len(c.ports) |-> Joined(inner(i))]
<1>1. IranServices(c) = Joined(outer)
  BY ZenonT(30) DEF IranServices, PerService
<1>2. ASSUME NEW i \in 1 .. Len(c.ports) PROVE Piece(c, Joined(inner(i)), 2)
  <2>. DEFINE ss == inner(i)
              L == Len(protocols(c.ports[i].proto))
  <2>1. L \in Nat
    BY ZenonT(30), ConfigFacts, Protocols
  <2>2. ss = [j \in 1 .. L |-> ss[j]] /\ \A j \in 1 .. L : Piece(c, ss[j], 2)
    BY ZenonT(30), IranServicePiece
  <2>. HIDE DEF ss, L
  <2>3. Piece(c, Joined(ss), 2)
    BY ZenonT(30), <2>1, <2>2, PieceJoined
  <2>. QED
    BY Zenon, <2>3 DEF ss
<1>3. outer = [i \in 1 .. Len(c.ports) |-> outer[i]] /\ \A i \in 1 .. Len(c.ports) : Piece(c, outer[i], 2)
  BY ZenonT(30), <1>2
<1>. HIDE DEF outer
<1>4. Piece(c, Joined(outer), 2)
  BY ZenonT(30), <1>3, ConfigFacts, PieceJoined
<1>. QED
  BY ZenonT(30), <1>1, <1>4

\* setupIranRouting resets its chains and then fills them.
LEMMA IranSpan ==
  ASSUME NEW c, ConfigOK(c), c.role = "iran"
  PROVE  Span(c, setupIranRouting(c), 1, 2)
<1>. DEFINE a == << Must(RuleAdd(66), "routing"), AddRoute(DataRoute(c)) >>
            names == <<"HSH_MPRE", "HSH_NPRE", "HSH_NPOST", "HSH_FWD", "HSH_MFWD", "HSH_INPUT">>
            b == resetChains(names)
            probe == [in |-> {"pub"}, dst |-> {c.net.iran}, src |-> {c.net.foreign},
                      proto |-> {"udp"}, dport |-> {c.smart.port}]
            d == When(c.smart.enabled, << Ipt("HSH_INPUT", probe, "ACCEPT", 0, "routing") >>)
            e == IranServices(c)
            x1 == Ipt("HSH_NPOST", [out |-> {"tun"}, dst |-> {c.net.foreign}], "SNAT", c.net.iran, "routing")
            x2 == Ipt("HSH_FWD", [in |-> {"tun"}, out |-> {"pub"}, ct |-> {"est"}], "ACCEPT", 0, "routing")
            x3 == Ipt("HSH_FWD", [in |-> {"pub"}, out |-> {"pub"}, ct |-> {"est"}], "ACCEPT", 0, "routing")
            m1 == [out |-> {"tun"}, mark |-> {dataMark}, proto |-> {"tcp"}, syn |-> {TRUE}]
            m2 == [in |-> {"pub"}, out |-> {"pub"}, src |-> {c.net.foreign}, proto |-> {"tcp"},
                   syn |-> {TRUE}, ct |-> {"est"}]
            x4 == IF c.mode = "full" THEN Ipt("HSH_MFWD", m1, "TCPMSS", c.mtu - 40, "routing")
                                     ELSE Ipt("HSH_MFWD", m2, "TCPMSS", c.mtu - 40, "routing")
            f == <<x1, x2, x3, x4>>
<1>1. setupIranRouting(c) = (((a \o b) \o d) \o e) \o f
  BY ZenonT(30) DEF setupIranRouting, AddRoute, DataRoute, IranServices
<1>2. Piece(c, a, 1)
  <2>1. Group(1, c, Must(RuleAdd(66), "routing")) /\ Group(1, c, AddRoute(DataRoute(c)))
    BY ZenonT(30) DEF Group, First
  <2>. QED
    BY <2>1, Steps2 DEF Piece
<1>3. Piece(c, b, 1)
  <2>1. names \in Seq(Chains)
    BY DEF Chains
  <2>. HIDE DEF names
  <2>. QED
    BY ZenonT(30), <2>1, ResetPiece
<1>4. Piece(c, d, 2)
  <2>. DEFINE x == Ipt("HSH_INPUT", probe, "ACCEPT", 0, "routing")
  <2>1. Group(2, c, x)
    <3>. HIDE DEF probe
    <3>. QED
      BY ZenonT(30), IptMiddle DEF Chains
  <2>2. d = <<x>> \/ d = <<>>
    BY ZenonT(30) DEF When
  <2>. HIDE DEF d, x, probe
  <2>. QED
    BY SMTT(60), <2>1, <2>2, OneStep, NoPiece DEF Piece
<1>5. Piece(c, e, 2)
  BY ZenonT(30), IranServicesPiece
<1>6. Piece(c, f, 2)
  <2>1. Group(2, c, x1)
    BY ZenonT(30), IptMiddle DEF Chains
  <2>2. Group(2, c, x2) /\ Group(2, c, x3)
    BY ZenonT(30), IptMiddle DEF Chains
  <2>3. Group(2, c, x4)
    <3>. HIDE DEF m1, m2
    <3>1. Group(2, c, Ipt("HSH_MFWD", m1, "TCPMSS", c.mtu - 40, "routing"))
      BY ZenonT(30), IptMiddle DEF Chains
    <3>2. Group(2, c, Ipt("HSH_MFWD", m2, "TCPMSS", c.mtu - 40, "routing"))
      BY ZenonT(30), IptMiddle DEF Chains
    <3>. QED
      BY ZenonT(30), <3>1, <3>2
  <2>. HIDE DEF x1, x2, x3, x4
  <2>. QED
    BY SMTT(60), <2>1, <2>2, <2>3, Steps4 DEF Piece
<1>. HIDE DEF a, b, d, e, f
<1>7. Span(c, a \o b, 1, 1)
  BY SMTT(60), <1>2, <1>3, PieceConcat, PieceSpan
<1>8. Span(c, (a \o b) \o d, 1, 2)
  BY SMTT(60), <1>4, <1>7, PieceSpan, SpanConcat
<1>9. Span(c, ((a \o b) \o d) \o e, 1, 2)
  BY SMTT(60), <1>5, <1>8, PieceSpan, SpanConcat
<1>10. Span(c, (((a \o b) \o d) \o e) \o f, 1, 2)
  BY SMTT(60), <1>6, <1>9, PieceSpan, SpanConcat
<1>. QED
  BY ZenonT(30), <1>1, <1>10

\* Kharej.  A locked service is closed on the public interface.
DropRule(c, proto, port) ==
  [match |-> [in |-> {"pub"}, dst |-> {c.net.foreign}, proto |-> {proto}, dport |-> {port}],
   target |-> "DROP", arg |-> 0]

\* The rules for one protocol and port on the Kharej host: a locked port gets
\* its rule that drops.
LEMMA KharejServicePiece ==
  ASSUME NEW c, NEW proto, NEW port
  PROVE  /\ Piece(c, KharejService(c, proto, port), 2)
         /\ c.net.lock => AddRule("HSH_INPUT", DropRule(c, proto, port), "routing")
                            \in Range(KharejService(c, proto, port))
<1>. DEFINE m1 == [in |-> {"tun"}, dst |-> {c.net.foreign}, proto |-> {proto}, dport |-> {port},
                   ct |-> {"new", "est"}]
            m2 == [in |-> {"pub"}, dst |-> {c.net.foreign}, proto |-> {proto}, dport |-> {port}]
            x1 == Ipt("HSH_INPUT", m1, "ACCEPT", 0, "routing")
            x2 == Ipt("HSH_INPUT", m2, "DROP", 0, "routing")
            b == When(c.net.lock, <<x2>>)
            a == <<x1>>
<1>1. KharejService(c, proto, port) = a \o b
  BY ZenonT(30) DEF KharejService
<1>2. Group(2, c, x1)
  <2>1. "in" \in DOMAIN m1 /\ m1["in"] = {"tun"}
    BY ZenonT(30)
  <2>. HIDE DEF m1
  <2>2. RuleOK(c, "HSH_INPUT", [match |-> m1, target |-> "ACCEPT", arg |-> 0])
    BY ZenonT(30), <2>1 DEF RuleOK
  <2>. QED
    BY ZenonT(30), <2>2, IptStep DEF Chains, Group, Middle
<1>3. Group(2, c, x2) /\ x2 = AddRule("HSH_INPUT", DropRule(c, proto, port), "routing")
  <2>1. DropRule(c, proto, port) = [match |-> m2, target |-> "DROP", arg |-> 0]
    BY ZenonT(30) DEF DropRule
  <2>. HIDE DEF m2
  <2>. DEFINE r == [match |-> m2, target |-> "DROP", arg |-> 0]
  <2>2. r.target = "DROP"
    BY ZenonT(30)
  <2>. HIDE DEF r
  <2>3. RuleOK(c, "HSH_INPUT", r)
    BY Zenon, <2>2, DroppingRule
  <2>4. RuleOK(c, "HSH_INPUT", [match |-> m2, target |-> "DROP", arg |-> 0])
    BY ZenonT(30), <2>3 DEF r
  <2>5. "HSH_INPUT" \in Chains
    BY ZenonT(30) DEF Chains
  <2>6. /\ x2 = AddRule("HSH_INPUT", [match |-> m2, target |-> "DROP", arg |-> 0], "routing")
        /\ RuleStep(c, x2, "routing")
    BY ZenonT(30), <2>4, <2>5, IptStep
  <2>. HIDE DEF x2
  <2>7. Group(2, c, x2)
    BY ZenonT(30), <2>6 DEF Group, Middle
  <2>. QED
    BY ZenonT(30), <2>1, <2>6, <2>7
<1>4. IF c.net.lock THEN b = <<x2>> ELSE b = <<>>
  BY ZenonT(30) DEF When
<1>. HIDE DEF x1, x2, b
<1>5. Piece(c, b, 2) /\ (c.net.lock => x2 \in Range(b))
  BY SMTT(60), <1>3, <1>4, OneStep, NoPiece DEF Piece
<1>6. Piece(c, a, 2)
  BY <1>2, OneStep DEF Piece
<1>. HIDE DEF a
<1>7. Piece(c, a \o b, 2)
  BY ZenonT(30), <1>5, <1>6, PieceConcat
<1>8. Range(a \o b) = Range(a) \cup Range(b)
  <2>1. IsSeq(a) /\ IsSeq(b)
    BY ZenonT(30), <1>5, <1>6 DEF Piece
  <2>. QED
    BY ZenonT(30), <2>1, ConcatFacts
<1>. QED
  BY ZenonT(30), <1>1, <1>3, <1>5, <1>7, <1>8

KharejServices(c) == PerService(c, LAMBDA proto, port : KharejService(c, proto, port))

\* The rules for all its ports.
LEMMA KharejServicesPiece ==
  ASSUME NEW c, ConfigOK(c)
  PROVE  /\ Piece(c, KharejServices(c), 2)
         /\ c.net.lock => \A s \in Services(c) :
              AddRule("HSH_INPUT", DropRule(c, s[1], s[2]), "routing") \in Range(KharejServices(c))
<1>. DEFINE inner(i) == [j \in 1 .. Len(protocols(c.ports[i].proto)) |->
                           KharejService(c, protocols(c.ports[i].proto)[j], c.ports[i].port)]
            outer == [i \in 1 .. Len(c.ports) |-> Joined(inner(i))]
            Drop(proto, port) == AddRule("HSH_INPUT", DropRule(c, proto, port), "routing")
<1>1. KharejServices(c) = Joined(outer)
  BY ZenonT(30) DEF KharejServices, PerService
<1>2. ASSUME NEW i \in 1 .. Len(c.ports)
      PROVE  /\ Piece(c, Joined(inner(i)), 2)
             /\ c.net.lock => \A j \in 1 .. Len(protocols(c.ports[i].proto)) :
                  Drop(protocols(c.ports[i].proto)[j], c.ports[i].port) \in Range(Joined(inner(i)))
  <2>. DEFINE ss == inner(i)
              L == Len(protocols(c.ports[i].proto))
              D(j) == Drop(protocols(c.ports[i].proto)[j], c.ports[i].port)
  <2>1. L \in Nat
    BY ZenonT(30), ConfigFacts, Protocols
  <2>2. /\ ss = [j \in 1 .. L |-> ss[j]]
        /\ \A j \in 1 .. L : Piece(c, ss[j], 2) /\ (c.net.lock => D(j) \in Range(ss[j]))
    BY ZenonT(30), KharejServicePiece
  <2>. HIDE DEF ss, L, D
  <2>3. Piece(c, Joined(ss), 2) /\ (c.net.lock => \A j \in 1 .. L : D(j) \in Range(Joined(ss)))
    BY ZenonT(30), <2>1, <2>2, PieceJoined
  <2>. QED
    BY ZenonT(30), <2>3 DEF ss, L, D
<1>3. /\ outer = [i \in 1 .. Len(c.ports) |-> outer[i]]
      /\ \A i \in 1 .. Len(c.ports) : Piece(c, outer[i], 2) /\ outer[i] = Joined(inner(i))
  BY ZenonT(30), <1>2
<1>. HIDE DEF outer
<1>4. /\ Piece(c, Joined(outer), 2)
      /\ \A i \in 1 .. Len(c.ports) : \A x \in Range(outer[i]) : x \in Range(Joined(outer))
  BY ZenonT(30), <1>3, ConfigFacts, PieceJoined
<1>. HIDE DEF inner, Drop
<1>5. ASSUME c.net.lock, NEW s \in Services(c)
      PROVE  Drop(s[1], s[2]) \in Range(Joined(outer))
  <2>1. PICK q \in Range(c.ports) : q.port = s[2] /\ protocolIncludes(q.proto, s[1])
    BY ZenonT(30), <1>5 DEF Services
  <2>2. s[1] \in {"tcp", "udp"}
    BY ZenonT(30), <1>5 DEF Services
  <2>3. PICK i \in 1 .. Len(c.ports) : c.ports[i] = q
    <3>1. IsSeq(c.ports)
      BY ZenonT(30), ConfigFacts
    <3>. QED
      BY Zenon, <3>1, SeqFacts
  <2>4. c.ports[i].proto \in {"tcp", "udp", "both"}
    BY Zenon, ConfigFacts
  <2>5. PICK j \in 1 .. Len(protocols(c.ports[i].proto)) : protocols(c.ports[i].proto)[j] = s[1]
    BY ZenonT(30), <2>1, <2>2, <2>3, <2>4, Protocols
  <2>6. Drop(s[1], s[2]) \in Range(Joined(inner(i)))
    BY ZenonT(30), <1>2, <1>5, <2>1, <2>3, <2>5
  <2>. QED
    BY ZenonT(30), <1>3, <1>4, <2>6
<1>. QED
  BY ZenonT(30), <1>1, <1>4, <1>5 DEF Drop

\* The rule that lets replies out, and the route for the carrier.
LEMMA ReplyPiece ==
  ASSUME NEW c, NEW dev
  PROVE  Group(2, c, ReplyAccepted(c, dev))
<1>. DEFINE m == [out |-> {dev}, src |-> {c.net.foreign}, dst |-> {c.net.iran}, ct |-> {"est"}]
<1>1. ReplyAccepted(c, dev) = Ipt("HSH_OUTPUT", m, "ACCEPT", 0, "routing")
  BY ZenonT(30) DEF ReplyAccepted
<1>. HIDE DEF m
<1>. QED
  BY ZenonT(30), <1>1, IptMiddle DEF Chains

\* setupTransportBypass adds rule 77 and the default route of its table.
LEMMA BypassPiece ==
  ASSUME NEW c
  PROVE  /\ Piece(c, setupTransportBypass(c), 2)
         /\ Range(setupTransportBypass(c)) = {Must(RuleAdd(77), "routing"), AddRoute(BypassRoute)}
<1>1. setupTransportBypass(c) = <<Must(RuleAdd(77), "routing"), AddRoute(BypassRoute)>>
  BY ZenonT(30) DEF setupTransportBypass, AddRoute, BypassRoute
<1>2. Group(2, c, Must(RuleAdd(77), "routing")) /\ Group(2, c, AddRoute(BypassRoute))
  BY ZenonT(30) DEF Group, Middle
<1>. QED
  BY <1>1, <1>2, Steps2 DEF Piece

\* The SYNs of replies are clamped.
ClampPort(c, i) ==
  When(c.ports[i].proto # "udp",
    << Ipt("HSH_MOUT", [out |-> {"tun"}, src |-> {c.net.foreign}, dst |-> {c.net.iran},
                        proto |-> {"tcp"}, sport |-> {c.ports[i].port}, syn |-> {TRUE}],
           "TCPMSS", c.mtu - 40, "routing") >>)

\* The rules that clamp the segment size.
LEMMA ClampPiece ==
  ASSUME NEW c, ConfigOK(c)
  PROVE  Piece(c, Joined([i \in 1 .. Len(c.ports) |-> ClampPort(c, i)]), 2)
<1>1. ASSUME NEW i \in 1 .. Len(c.ports) PROVE Piece(c, ClampPort(c, i), 2)
  <2>. DEFINE m == [out |-> {"tun"}, src |-> {c.net.foreign}, dst |-> {c.net.iran},
                    proto |-> {"tcp"}, sport |-> {c.ports[i].port}, syn |-> {TRUE}]
              x == Ipt("HSH_MOUT", m, "TCPMSS", c.mtu - 40, "routing")
  <2>1. ClampPort(c, i) = <<x>> \/ ClampPort(c, i) = <<>>
    BY ZenonT(30) DEF ClampPort, When
  <2>. HIDE DEF m
  <2>2. Group(2, c, x)
    BY ZenonT(30), IptMiddle DEF Chains
  <2>. HIDE DEF x
  <2>. QED
    BY SMTT(60), <2>1, <2>2, OneStep, NoPiece DEF Piece
<1>. DEFINE ss == [i \in 1 .. Len(c.ports) |-> ClampPort(c, i)]
<1>2. ss = [i \in 1 .. Len(c.ports) |-> ss[i]] /\ \A i \in 1 .. Len(c.ports) : Piece(c, ss[i], 2)
  BY ZenonT(30), <1>1
<1>. HIDE DEF ss
<1>3. Piece(c, Joined(ss), 2)
  BY ZenonT(30), <1>2, ConfigFacts, PieceJoined
<1>. QED
  BY ZenonT(30), <1>3 DEF ss

\* The part that depends on the mode.
KharejRest(c) ==
  IF c.mode = "direct-return"
  THEN <<ReplyAccepted(c, "pub")>>
       \o When(c.smart.enabled, setupTransportBypass(c) \o <<ReplyAccepted(c, "tun")>>)
  ELSE setupTransportBypass(c) \o <<PutRoute(MainRoute(c)), ReplyAccepted(c, "tun")>>
       \o Joined([i \in 1 .. Len(c.ports) |-> ClampPort(c, i)])

\* What follows the services on the Kharej host; in full mode, the bypass.
LEMMA KharejRestPiece ==
  ASSUME NEW c, ConfigOK(c), c.role = "kharej", c.ports # <<>>
  PROVE  /\ Piece(c, KharejRest(c), 2)
         /\ c.mode = "full" =>
              {Must(RuleAdd(77), "routing"), AddRoute(BypassRoute)} \subseteq Range(KharejRest(c))
<1>. DEFINE x1 == ReplyAccepted(c, "pub")
            x2 == ReplyAccepted(c, "tun")
            y == setupTransportBypass(c)
            put == PutRoute(MainRoute(c))
            z == Joined([i \in 1 .. Len(c.ports) |-> ClampPort(c, i)])
            p == <<put, x2>>
            u == <<x1>>
            w == <<x2>>
            v == When(c.smart.enabled, y \o w)
<1>1. KharejRest(c) = IF c.mode = "direct-return" THEN u \o v ELSE (y \o p) \o z
  BY ZenonT(30) DEF KharejRest
<1>2. Piece(c, y, 2) /\ Range(y) = {Must(RuleAdd(77), "routing"), AddRoute(BypassRoute)}
  BY ZenonT(30), BypassPiece
<1>3. Piece(c, z, 2)
  BY ZenonT(30), ClampPiece
<1>4. Group(2, c, x1) /\ Group(2, c, x2)
  BY ZenonT(30), ReplyPiece
<1>5. v = y \o w \/ v = <<>>
  BY ZenonT(30) DEF When
<1>. HIDE DEF x1, x2, y, z, v
<1>6. Piece(c, u, 2) /\ Piece(c, w, 2)
  BY SMTT(60), <1>4, OneStep DEF Piece
<1>7. ASSUME c.mode = "full" PROVE Piece(c, p, 2)
  <2>1. Group(2, c, put)
    BY ZenonT(30), <1>7 DEF Group, Middle
  <2>. HIDE DEF put
  <2>. QED
    BY SMTT(60), <1>4, <2>1, Steps2 DEF Piece
<1>. HIDE DEF u, w, p
<1>8. CASE c.mode = "direct-return"
  <2>1. Piece(c, y \o w, 2)
    BY ZenonT(30), <1>2, <1>6, PieceConcat
  <2>2. Piece(c, v, 2)
    BY ZenonT(30), <1>5, <2>1, NoPiece
  <2>3. Piece(c, u \o v, 2)
    BY ZenonT(30), <1>6, <2>2, PieceConcat
  <2>. QED
    BY ZenonT(30), <1>1, <1>8, <2>3
<1>9. CASE c.mode = "full"
  <2>. DEFINE t == y \o p
  <2>0. Piece(c, y, 2) /\ Piece(c, p, 2) /\ IsSeq(y) /\ IsSeq(p) /\ IsSeq(z)
    BY ZenonT(30), <1>2, <1>3, <1>7, <1>9 DEF Piece
  <2>1. Piece(c, t, 2) /\ IsSeq(t)
    BY ZenonT(30), <2>0, PieceConcat, ConcatFacts
  <2>1a. Range(t) = Range(y) \cup Range(p)
    BY ZenonT(30), <2>0, ConcatFacts
  <2>. HIDE DEF t
  <2>2. Piece(c, t \o z, 2)
    BY ZenonT(30), <1>3, <2>1, PieceConcat
  <2>2a. Range(t \o z) = Range(t) \cup Range(z)
    BY ZenonT(30), <2>0, <2>1, ConcatFacts
  <2>3. KharejRest(c) = t \o z
    BY ZenonT(30), <1>1, <1>9 DEF t
  <2>. QED
    BY ZenonT(30), <1>2, <2>1a, <2>2, <2>2a, <2>3
<1>. QED
  BY ZenonT(30), <1>8, <1>9, ConfigFacts

\* What Kharej's script holds.
KharejHas(c, s) ==
  /\ \A ch \in {"HSH_INPUT", "HSH_MOUT"} :
       ResetFlush(ch) \in Range(s) /\ HookStep(ch, "routing") \in Range(s)
  /\ c.net.lock => \A t \in Services(c) :
       AddRule("HSH_INPUT", DropRule(c, t[1], t[2]), "routing") \in Range(s)
  /\ c.mode = "full" => Must(RuleAdd(77), "routing") \in Range(s) /\ AddRoute(BypassRoute) \in Range(s)

\* setupKharejRouting resets its chains and then fills them.
LEMMA KharejSpan ==
  ASSUME NEW c, ConfigOK(c), c.role = "kharej", c.ports # <<>>
  PROVE  Span(c, setupKharejRouting(c), 1, 2) /\ KharejHas(c, setupKharejRouting(c))
<1>. DEFINE names == <<"HSH_INPUT", "HSH_OUTPUT", "HSH_MOUT">>
            a == resetChains(names)
            b == KharejServices(c)
            d == KharejRest(c)
<1>1. setupKharejRouting(c) = (a \o b) \o d
  BY ZenonT(30) DEF setupKharejRouting, KharejServices, KharejRest, PutRoute, MainRoute, ClampPort
<1>2. /\ Piece(c, a, 1)
      /\ \A ch \in {"HSH_INPUT", "HSH_MOUT"} :
           ResetFlush(ch) \in Range(a) /\ HookStep(ch, "routing") \in Range(a)
  <2>1. names \in Seq(Chains)
    BY DEF Chains
  <2>2. Range(names) = {"HSH_INPUT", "HSH_OUTPUT", "HSH_MOUT"}
    BY Steps3
  <2>. HIDE DEF names
  <2>. QED
    BY ZenonT(30), <2>1, <2>2, ResetPiece
<1>3. /\ Piece(c, b, 2)
      /\ c.net.lock => \A t \in Services(c) :
           AddRule("HSH_INPUT", DropRule(c, t[1], t[2]), "routing") \in Range(b)
  BY ZenonT(30), KharejServicesPiece
<1>4. /\ Piece(c, d, 2)
      /\ c.mode = "full" =>
           {Must(RuleAdd(77), "routing"), AddRoute(BypassRoute)} \subseteq Range(d)
  BY ZenonT(30), KharejRestPiece
<1>. HIDE DEF a, b, d
<1>. DEFINE e == a \o b
<1>5. Span(c, e, 1, 2) /\ Range(e) = Range(a) \cup Range(b)
  <2>1. Span(c, a, 1, 1) /\ Span(c, b, 2, 2)
    BY SMTT(60), <1>2, <1>3, PieceSpan
  <2>2. Span(c, e, 1, 2)
    BY <2>1, SpanConcat
  <2>3. IsSeq(a) /\ IsSeq(b)
    BY ZenonT(30), <2>1 DEF Span
  <2>4. Range(e) = Range(a) \cup Range(b)
    BY ZenonT(30), <2>3, ConcatFacts
  <2>. QED
    BY ZenonT(30), <2>2, <2>4
<1>. HIDE DEF e
<1>6. Span(c, e \o d, 1, 2) /\ Range(e \o d) = Range(e) \cup Range(d)
  <2>1. Span(c, d, 2, 2)
    BY SMTT(60), <1>4, PieceSpan
  <2>2. Span(c, e \o d, 1, 2)
    BY <1>5, <2>1, SpanConcat
  <2>3. IsSeq(e) /\ IsSeq(d)
    BY ZenonT(30), <1>5, <2>1 DEF Span
  <2>4. Range(e \o d) = Range(e) \cup Range(d)
    BY ZenonT(30), <2>3, ConcatFacts
  <2>. QED
    BY ZenonT(30), <2>2, <2>4
<1>7. setupKharejRouting(c) = e \o d
  BY ZenonT(30), <1>1 DEF e
<1>8. KharejHas(c, e \o d)
  BY ZenonT(30), <1>2, <1>3, <1>4, <1>5, <1>6 DEF KharejHas
<1>. QED
  BY ZenonT(30), <1>6, <1>7, <1>8

----------------------------------------------------------------------------
(* The return policy, the carrier and the whole set-up script.             *)

\* The return policy marks the replies of the services.
LEMMA AlsoFields ==
  ASSUME NEW a, NEW b, NEW d, NEW e, NEW more, NEW f \in DOMAIN more,
         f \notin {"src", "dst", "proto", "sport"}
  PROVE  LET m == Also([src |-> a, dst |-> b, proto |-> d, sport |-> e], more)
         IN  f \in DOMAIN m /\ m[f] = more[f] /\ "sport" \in DOMAIN m /\ m["sport"] = e
<1>. DEFINE r == [src |-> a, dst |-> b, proto |-> d, sport |-> e]
<1>1. DOMAIN r = {"src", "dst", "proto", "sport"} /\ r["sport"] = e
  BY ZenonT(30)
<1>. HIDE DEF r
<1>2. /\ f \in DOMAIN Also(r, more) /\ Also(r, more)[f] = more[f]
      /\ "sport" \in DOMAIN Also(r, more) /\ Also(r, more)["sport"] = e
  BY ZenonT(30), <1>1 DEF Also
<1>. QED
  BY ZenonT(30), <1>2 DEF r

\* A rule that marks unmarked replies of a service may stand in HSH_MOUT.
LEMMA MarkingRule ==
  ASSUME NEW c, NEW r, "mark" \in DOMAIN r.match, r.match["mark"] = {0}, r.arg = returnMark,
         "sport" \in DOMAIN r.match, NEW q \in Range(c.ports), r.match["sport"] = {q.port}
  PROVE  RuleOK(c, "HSH_MOUT", r)
  BY ZenonT(30) DEF RuleOK

\* The rules that mark the replies of one service.
LEMMA MarkRepliesPiece ==
  ASSUME NEW c, NEW proto, NEW q \in Range(c.ports)
  PROVE  Piece(c, MarkReplies(c, proto, q.port), 3)
<1>. DEFINE reply == [src |-> {c.net.foreign}, dst |-> {c.net.iran}, proto |-> {proto},
                      sport |-> {q.port}]
            m1 == Also(reply, [mark |-> {0}])
            m2 == Also(reply, [mark |-> {returnMark}, syn |-> {TRUE}])
            x1 == Ipt("HSH_MOUT", m1, "MARK", returnMark, "policy")
            x2 == Ipt("HSH_MOUT", m2, "TCPMSS", c.mtu - 40, "policy")
            a == <<x1>>
            b == When(proto = "tcp", <<x2>>)
<1>1. MarkReplies(c, proto, q.port) = a \o b
  BY ZenonT(30) DEF MarkReplies
<1>2. "mark" \in DOMAIN m1 /\ m1["mark"] = {0} /\ "sport" \in DOMAIN m1 /\ m1["sport"] = {q.port}
  <2>. DEFINE more == [mark |-> {0}]
  <2>1. "mark" \in DOMAIN more /\ more["mark"] = {0}
    BY ZenonT(30)
  <2>2. m1 = Also(reply, more)
    BY ZenonT(30)
  <2>. HIDE DEF more, m1
  <2>. QED
    BY <2>1, <2>2, AlsoFields
<1>. HIDE DEF m1, m2
<1>3. Group(3, c, x1)
  <2>. DEFINE r == [match |-> m1, target |-> "MARK", arg |-> returnMark]
  <2>1. r.match = m1 /\ r.arg = returnMark
    BY ZenonT(30)
  <2>. HIDE DEF r
  <2>2. RuleOK(c, "HSH_MOUT", r)
    BY ZenonT(30), <1>2, <2>1, MarkingRule
  <2>3. RuleOK(c, "HSH_MOUT", [match |-> m1, target |-> "MARK", arg |-> returnMark])
    BY ZenonT(30), <2>2 DEF r
  <2>4. "HSH_MOUT" \in Chains
    BY ZenonT(30) DEF Chains
  <2>5. RuleStep(c, x1, "policy")
    BY ZenonT(30), <2>3, <2>4, IptStep
  <2>. HIDE DEF x1
  <2>. QED
    BY ZenonT(30), <2>5 DEF Group, Last
<1>4. Group(3, c, x2)
  <2>. DEFINE r == [match |-> m2, target |-> "TCPMSS", arg |-> c.mtu - 40]
  <2>1. r.target = "TCPMSS"
    BY ZenonT(30)
  <2>. HIDE DEF r
  <2>2. RuleOK(c, "HSH_MOUT", r)
    BY ZenonT(30), <2>1, PlainRule
  <2>3. RuleOK(c, "HSH_MOUT", [match |-> m2, target |-> "TCPMSS", arg |-> c.mtu - 40])
    BY ZenonT(30), <2>2 DEF r
  <2>4. "HSH_MOUT" \in Chains
    BY Zenon DEF Chains
  <2>5. RuleStep(c, x2, "policy")
    BY ZenonT(30), <2>3, <2>4, IptStep
  <2>. HIDE DEF x2
  <2>. QED
    BY Zenon, <2>5 DEF Group, Last
<1>5. b = <<x2>> \/ b = <<>>
  BY ZenonT(30) DEF When
<1>. HIDE DEF x1, x2, b
<1>6. Piece(c, a, 3)
  BY SMTT(60), <1>3, OneStep DEF Piece
<1>7. Piece(c, b, 3)
  BY SMTT(60), <1>4, <1>5, OneStep, NoPiece DEF Piece
<1>. HIDE DEF a
<1>8. Piece(c, a \o b, 3)
  BY ZenonT(30), <1>6, <1>7, PieceConcat
<1>. QED
  BY ZenonT(30), <1>1, <1>8

MarkedServices(c) == PerService(c, LAMBDA proto, port : MarkReplies(c, proto, port))

\* The rules that mark the replies of all services.
LEMMA MarkedServicesPiece ==
  ASSUME NEW c, ConfigOK(c)
  PROVE  Piece(c, MarkedServices(c), 3)
<1>. DEFINE inner(i) == [j \in 1 .. Len(protocols(c.ports[i].proto)) |->
                           MarkReplies(c, protocols(c.ports[i].proto)[j], c.ports[i].port)]
            outer == [i \in 1 .. Len(c.ports) |-> Joined(inner(i))]
<1>1. MarkedServices(c) = Joined(outer)
  BY Zenon DEF MarkedServices, PerService
<1>2. ASSUME NEW i \in 1 .. Len(c.ports) PROVE Piece(c, Joined(inner(i)), 3)
  <2>. DEFINE ss == inner(i)
              L == Len(protocols(c.ports[i].proto))
  <2>1. L \in Nat /\ c.ports[i] \in Range(c.ports)
    BY ZenonT(30), ConfigFacts, Protocols
  <2>2. ss = [j \in 1 .. L |-> ss[j]] /\ \A j \in 1 .. L : Piece(c, ss[j], 3)
    BY ZenonT(30), <2>1, MarkRepliesPiece
  <2>. HIDE DEF ss, L
  <2>3. Piece(c, Joined(ss), 3)
    BY ZenonT(30), <2>1, <2>2, PieceJoined
  <2>. QED
    BY ZenonT(30), <2>3 DEF ss
<1>3. outer = [i \in 1 .. Len(c.ports) |-> outer[i]] /\ \A i \in 1 .. Len(c.ports) : Piece(c, outer[i], 3)
  BY ZenonT(30), <1>2
<1>. HIDE DEF outer
<1>4. Piece(c, Joined(outer), 3)
  BY ZenonT(30), <1>3, ConfigFacts, PieceJoined
<1>. QED
  BY ZenonT(30), <1>1, <1>4

\* setupSmartReturnPolicy removes its rule and adds it again at the end.
LEMMA PolicySpan ==
  ASSUME NEW c, ConfigOK(c)
  PROVE  Span(c, setupSmartReturnPolicy(c), 2, 3)
<1>. DEFINE a == <<DelReturn, Quiet(Flush(returnTable))>>
            b == <<AddReturn>>
            d == MarkedServices(c)
            e == <<Quiet(Flush(returnTable))>>
<1>1. setupSmartReturnPolicy(c) = <<>> \/ setupSmartReturnPolicy(c) = ((a \o b) \o d) \o e
  BY ZenonT(30) DEF setupSmartReturnPolicy, When, MarkedServices, cleanupSmartReturnPolicy, DelReturn, AddReturn
<1>2. Piece(c, a, 2)
  <2>1. Group(2, c, DelReturn) /\ Group(2, c, Quiet(Flush(returnTable)))
    BY ZenonT(30) DEF Group, Middle
  <2>. QED
    BY <2>1, Steps2 DEF Piece
<1>3. Piece(c, b, 3) /\ Piece(c, e, 3)
  <2>1. Group(3, c, AddReturn) /\ Group(3, c, Quiet(Flush(returnTable)))
    BY ZenonT(30) DEF Group, Last
  <2>. QED
    BY <2>1, OneStep DEF Piece
<1>4. Piece(c, d, 3)
  BY ZenonT(30), MarkedServicesPiece
<1>. HIDE DEF a, b, d, e
<1>5. Span(c, a, 2, 2) /\ Span(c, b, 3, 3) /\ Span(c, d, 3, 3) /\ Span(c, e, 3, 3)
  BY SMTT(60), <1>2, <1>3, <1>4, PieceSpan
<1>6. Span(c, a \o b, 2, 3)
  <2>1. 2 \in 0 .. 4 /\ 2 \in 2 .. 4 /\ 3 \in 2 .. 4 /\ 3 \in 3 .. 4 /\ 2 < 4 /\ 0 < 3
    OBVIOUS
  <2>. QED
    BY ZenonT(30), <1>5, <2>1, SpanConcat
<1>7. Span(c, (a \o b) \o d, 2, 3)
  BY SMTT(60), <1>5, <1>6, SpanConcat
<1>8. Span(c, ((a \o b) \o d) \o e, 2, 3)
  BY SMTT(60), <1>5, <1>7, SpanConcat
<1>9. Span(c, <<>>, 2, 3)
  BY ShortSpan
<1>. QED
  BY ZenonT(30), <1>1, <1>8, <1>9

\* Three steps, the last of them the one that inserts a rule once.
LEMMA FirewallSteps ==
  ASSUME NEW c, NEW x, NEW y, NEW z, Group(3, c, x), Group(3, c, y), Group(4, c, z)
  PROVE  Span(c, <<x, y, z>>, 3, 4) /\ Range(<<x, y, z>>) = {x, y, z}
<1>. DEFINE q == <<x, y, z>>
<1>1. IsSeq(q) /\ Range(q) = {x, y, z}
  BY ZenonT(30), Steps3
<1>2. Len(q) = 3 /\ q[1] = x /\ q[2] = y /\ q[3] = z
  BY ZenonT(30)
<1>. HIDE DEF q
<1>3. 3 \in 0 .. 3 /\ 3 \in 1 .. 4 /\ 4 \in 1 .. 4 /\ 3 <= 3 /\ 3 <= 4
  OBVIOUS
<1>4. ~TooLate(x, y) /\ ~TooLate(x, z) /\ ~TooLate(y, z)
  BY ZenonT(30), <1>3, GroupOrder
<1>5. ASSUME NEW i \in 1 .. Len(q), NEW j \in 1 .. Len(q), i < j PROVE ~TooLate(q[i], q[j])
  <2>1. (i = 1 /\ j = 2) \/ (i = 1 /\ j = 3) \/ (i = 2 /\ j = 3)
    BY <1>2, <1>5
  <2>. QED
    BY ZenonT(30), <1>2, <1>4, <2>1
<1>6. Span(c, q, 3, 4)
  <2>1. Ordered(q)
    BY ZenonT(30), <1>5 DEF Ordered
  <2>2. 3 \in 3 .. 4 /\ 4 \in 3 .. 4
    OBVIOUS
  <2>. QED
    BY ZenonT(30), <1>1, <2>1, <2>2 DEF Span
<1>. QED
  BY ZenonT(30), <1>1, <1>6 DEF q

\* setupCarrierFirewall hooks the input chain before it inserts a rule into it.
LEMMA FirewallSpan ==
  ASSUME NEW c
  PROVE  /\ Span(c, setupCarrierFirewall(c), 3, 4)
         /\ OnceStep(c) \in Range(setupCarrierFirewall(c)) =>
              HookStep("HSH_INPUT", "both") \in Range(setupCarrierFirewall(c))
<1>. DEFINE x == NewChain("HSH_INPUT")
            y == HookStep("HSH_INPUT", "both")
            z == OnceStep(c)
            f == setupCarrierFirewall(c)
<1>1. f = <<>> \/ f = <<Error>> \/ f = <<x, y, z>>
  BY ZenonT(30) DEF setupCarrierFirewall, When, NewChain, HookStep, OnceStep, Error
<1>2. Group(3, c, x) /\ Group(3, c, y) /\ Group(4, c, z) /\ Group(3, c, Error)
  BY ZenonT(30) DEF Group, Last, Chains
<1>3. Error # z
  BY OtherFields
<1>. HIDE DEF x, y, z, f
<1>4. Span(c, <<x, y, z>>, 3, 4) /\ Range(<<x, y, z>>) = {x, y, z}
  BY SMTT(60), <1>2, FirewallSteps
<1>5. 3 \in 0 .. 4 /\ 4 \in 3 .. 4
  OBVIOUS
<1>6. Span(c, <<>>, 3, 4) /\ Range(<<>>) = {}
  BY ZenonT(30), <1>5, ShortSpan
<1>7. Span(c, <<Error>>, 3, 4) /\ Range(<<Error>>) = {Error}
  BY ZenonT(30), <1>2, <1>5, ShortSpan
<1>8. Span(c, f, 3, 4) /\ (z \in Range(f) => y \in Range(f))
  <2>1. CASE f = <<>>
    BY ZenonT(30), <1>6, <2>1
  <2>2. CASE f = <<Error>>
    BY ZenonT(30), <1>3, <1>7, <2>2
  <2>3. CASE f = <<x, y, z>>
    BY ZenonT(30), <1>4, <2>3
  <2>. QED
    BY ZenonT(30), <1>1, <2>1, <2>2, <2>3
<1>. QED
  BY ZenonT(30), <1>8 DEF f, y, z

\* The whole set-up.
LEMMA RoutingSpan ==
  ASSUME NEW c, ConfigOK(c)
  PROVE  /\ Span(c, setupRouting(c), 1, 2)
         /\ c.role = "kharej" /\ c.ports # <<>> => KharejHas(c, setupRouting(c))
<1>1. Span(c, <<>>, 1, 2)
  <2>1. 1 \in 0 .. 4 /\ 2 \in 1 .. 4
    OBVIOUS
  <2>. QED
    BY ZenonT(30), <2>1, ShortSpan
<1>2. CASE c.ports = <<>>
  BY ZenonT(30), <1>1, <1>2 DEF setupRouting, When
<1>3. CASE c.ports # <<>> /\ c.role = "iran"
  <2>1. setupRouting(c) = setupIranRouting(c)
    BY ZenonT(30), <1>3 DEF setupRouting, When
  <2>. QED
    BY ZenonT(30), <1>3, <2>1, IranSpan
<1>4. CASE c.ports # <<>> /\ c.role # "iran"
  <2>1. setupRouting(c) = setupKharejRouting(c)
    BY ZenonT(30), <1>4 DEF setupRouting, When
  <2>2. c.role = "kharej"
    BY ZenonT(30), <1>4, ConfigFacts
  <2>. QED
    BY ZenonT(30), <1>4, <2>1, <2>2, KharejSpan
<1>. QED
  BY ZenonT(30), <1>2, <1>3, <1>4

\* The steps are of the five groups, in their order; the firewall's rule comes
\* with the jump to its chain.
SetUpShape(c, s) ==
  /\ Span(c, s, 0, 4) /\ Link \in Range(s)
  /\ c.role = "kharej" /\ c.ports # <<>> => KharejHas(c, s)
  /\ OnceStep(c) \in Range(s) => HookStep("HSH_INPUT", "both") \in Range(s)

\* The whole set-up script has the shape that the invariant rests on.
LEMMA SetUpHasShape ==
  ASSUME NEW c, ConfigOK(c)
  PROVE  SetUpShape(c, SetUp(c))
<1>. DEFINE a == setupTun
            b == setupRouting(c)
            d == setupSmartReturnPolicy(c)
            e == setupCarrierFirewall(c)
            s == ((a \o b) \o d) \o e
<1>1. SetUp(c) = s
  BY ZenonT(30) DEF SetUp
<1>2. Span(c, a, 0, 0) /\ Range(a) = {Link}
  <2>1. setupTun = <<Link>> /\ Group(0, c, Link)
    BY ZenonT(30) DEF setupTun, Link, Group
  <2>2. 0 \in 0 .. 4 /\ 0 \in 0 .. 0 /\ 0 \in 0 .. 4
    OBVIOUS
  <2>. QED
    BY ZenonT(30), <2>1, <2>2, ShortSpan
<1>3. Span(c, b, 1, 2) /\ (c.role = "kharej" /\ c.ports # <<>> => KharejHas(c, b))
  BY ZenonT(30), RoutingSpan
<1>4. Span(c, d, 2, 3)
  BY ZenonT(30), PolicySpan
<1>5. /\ Span(c, e, 3, 4)
      /\ OnceStep(c) \in Range(e) => HookStep("HSH_INPUT", "both") \in Range(e)
  BY ZenonT(30), FirewallSpan
<1>. HIDE DEF a, b, d, e
<1>6. Span(c, a \o b, 0, 2) /\ Range(a \o b) = Range(a) \cup Range(b)
  <2>1. Span(c, a \o b, 0, 2)
    BY SMTT(60), <1>2, <1>3, SpanConcat
  <2>2. IsSeq(a) /\ IsSeq(b)
    BY ZenonT(30), <1>2, <1>3 DEF Span
  <2>. QED
    BY ZenonT(30), <2>1, <2>2, ConcatFacts
<1>7. /\ Span(c, (a \o b) \o d, 0, 3)
      /\ Range((a \o b) \o d) = Range(a \o b) \cup Range(d)
  <2>1. /\ 0 \in 0 .. 4 /\ 2 \in 0 .. 4 /\ 2 \in 2 .. 4 /\ 3 \in 2 .. 4 /\ 2 < 4 /\ 0 < 2
    OBVIOUS
  <2>. QED
    BY SMTT(60), <1>4, <1>6, <2>1, SpanConcat
<1>8. Span(c, s, 0, 4) /\ Range(s) = Range((a \o b) \o d) \cup Range(e)
  <2>. DEFINE f == (a \o b) \o d
  <2>0. Span(c, f, 0, 3)
    BY ZenonT(30), <1>7
  <2>. HIDE DEF f
  <2>1. Span(c, f \o e, 0, 4)
    BY SMTT(60), <1>5, <2>0, SpanConcat
  <2>2. IsSeq(f) /\ IsSeq(e)
    BY ZenonT(30), <1>5, <2>0 DEF Span
  <2>3. Range(f \o e) = Range(f) \cup Range(e)
    BY ZenonT(30), <2>2, ConcatFacts
  <2>. QED
    BY ZenonT(30), <2>1, <2>3 DEF f
<1>. HIDE DEF s
<1>9. OnceStep(c) \notin Range(a) \cup Range(b) \cup Range(d)
  <2>1. ASSUME NEW n \in 0 .. 3, Group(n, c, OnceStep(c)) PROVE FALSE
    BY SMTT(60), <2>1, FirstKind, MiddleKind, LastKind, OtherFields DEF Group
  <2>2. ASSUME NEW x \in Range(a) \cup Range(b) \cup Range(d) PROVE \E n \in 0 .. 3 : Group(n, c, x)
    BY ZenonT(30), <1>6, <1>7 DEF Span
  <2>. QED
    BY ZenonT(30), <2>1, <2>2
<1>10. OnceStep(c) \in Range(s) => HookStep("HSH_INPUT", "both") \in Range(s)
  BY ZenonT(30), <1>5, <1>6, <1>7, <1>8, <1>9
<1>11. Link \in Range(s) /\ Range(b) \subseteq Range(s)
  BY ZenonT(30), <1>2, <1>6, <1>7, <1>8
<1>12. c.role = "kharej" /\ c.ports # <<>> => KharejHas(c, s)
  BY ZenonT(30), <1>3, <1>11 DEF KharejHas
<1>. QED
  BY ZenonT(30), <1>1, <1>8, <1>10, <1>11, <1>12 DEF SetUpShape
============================================================================

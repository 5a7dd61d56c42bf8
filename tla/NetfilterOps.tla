---------------------------- MODULE NetfilterOps ----------------------------
(***************************************************************************)
(* The part of the Linux kernel that Hashshashin programs, as a value, and  *)
(* what the ip and iptables commands do to it; then the way of a packet     *)
(* through it.  External: taken from how routing.go, smart_policy.go and    *)
(* carrier_firewall.go use the commands, not from their code.               *)
(*                                                                          *)
(* A rule of a chain has a match, a record of the fields that it looks at   *)
(* with the values that it admits, and a target.  Hashshashin's chains are  *)
(* reached by a jump from the hook of the same table.                       *)
(***************************************************************************)
EXTENDS Integers, Sequences, Functions

Chains == {"HSH_MPRE", "HSH_NPRE", "HSH_NPOST", "HSH_FWD", "HSH_MFWD", "HSH_INPUT", "HSH_OUTPUT",
           "HSH_MOUT"}

\* Policy rules by priority: the mark they match and the table they look up.
PolicyRules ==
  { [prio |-> 66, mark |-> 102, table |-> 166],
    [prio |-> 68, mark |-> 104, table |-> 168],
    [prio |-> 77, mark |-> 119, table |-> 167] }
Main == 254

\* Nothing of Hashshashin is there.
Empty ==
  [there |-> {}, chain |-> [c \in Chains |-> <<>>], jumps |-> [c \in Chains |-> 0],
   rules |-> {}, routes |-> {}]

\* A route without a packet size of its own.
Route(table, dst, dev) == [table |-> table, dst |-> dst, dev |-> dev, mtu |-> 0]

\* The command can succeed: what is added is not there yet, what is removed
\* or written to is, and a chain that is deleted is empty and not referenced.
Works(k, c) ==
  CASE c.op = "-N" -> c.chain \notin k.there
    [] c.op \in {"-F", "-A", "-I", "jump"} -> c.chain \in k.there
    [] c.op = "-X" ->
         c.chain \in k.there /\ k.chain[c.chain] = <<>> /\ k.jumps[c.chain] = 0
    [] c.op = "unjump" -> k.jumps[c.chain] > 0
    [] c.op = "rule_add" -> c.prio \notin k.rules
    [] c.op = "rule_del" -> c.prio \in k.rules
    [] c.op = "route_add" ->
         \A r \in k.routes : r.table = c.route.table => r.dst # c.route.dst
    [] c.op = "route_del" -> c.route \in k.routes
    [] OTHER -> TRUE

\* What it does then.
Effect(k, c) ==
  CASE c.op = "-N" -> [k EXCEPT !.there = @ \cup {c.chain}]
    [] c.op = "-F" -> [k EXCEPT !.chain[c.chain] = <<>>]
    [] c.op = "-X" -> [k EXCEPT !.there = @ \ {c.chain}]
    [] c.op = "-A" -> [k EXCEPT !.chain[c.chain] = Append(@, c.rule)]
    [] c.op = "-I" -> [k EXCEPT !.chain[c.chain] = <<c.rule>> \o @]
    [] c.op = "jump" -> [k EXCEPT !.jumps[c.chain] = @ + 1]
    [] c.op = "unjump" -> [k EXCEPT !.jumps[c.chain] = @ - 1]
    [] c.op = "rule_add" -> [k EXCEPT !.rules = @ \cup {c.prio}]
    [] c.op = "rule_del" -> [k EXCEPT !.rules = @ \ {c.prio}]
    [] c.op = "route_add" -> [k EXCEPT !.routes = @ \cup {c.route}]
    [] c.op = "route_replace" ->
         [k EXCEPT !.routes = {r \in @ : r.table # c.route.table \/ r.dst # c.route.dst}
                                \cup {c.route}]
    [] c.op = "route_del" -> [k EXCEPT !.routes = @ \ {c.route}]
    [] c.op = "route_flush" -> [k EXCEPT !.routes = {r \in @ : r.table # c.table}]
    [] OTHER -> k

Exec(k, c) == IF Works(k, c) THEN Effect(k, c) ELSE k

\* The TUN device goes away with its last file, and its routes with it.
WithoutTun(k) == [k EXCEPT !.routes = {r \in @ : r.dev # "tun"}]

----------------------------------------------------------------------------
(* The way of a packet.                                                    *)

Matches(rule, p) == \A f \in DOMAIN rule.match : p[f] \in rule.match[f]

\* One rule that does not end the traversal: it sets the mark, or clamps the
\* segment size that a SYN announces.
Mangle(p, rule) ==
  IF ~Matches(rule, p) THEN p
  ELSE CASE rule.target = "MARK" -> [p EXCEPT !.mark = rule.arg]
         [] rule.target = "TCPMSS" -> [p EXCEPT !.clamped = TRUE]
         [] OTHER -> p

\* The rules that packets of a hook meet: none without the jump.
RulesOf(k, c) ==
  IF k.jumps[c] > 0 THEN k.chain[c] ELSE <<>>

\* The packet after all of them; a rule sees the mark that an earlier one set.
Mangled(k, c, p) ==
  LET rules == RulesOf(k, c)
      after[n \in 0 .. Len(rules)] == IF n = 0 THEN p ELSE Mangle(after[n - 1], rules[n])
  IN  after[Len(rules)]

\* The rules that a packet matches, by position, and the first of them, which
\* decides.
Hits(rules, p) == {i \in 1 .. Len(rules) : Matches(rules[i], p)}
FirstHit(rules, p) == rules[CHOOSE i \in Hits(rules, p) : \A j \in Hits(rules, p) : i <= j]

\* The verdict of a filter chain; "none" leaves it to the host's policy.
Verdict(k, c, p) ==
  LET rules == RulesOf(k, c)
  IN  IF Hits(rules, p) = {} THEN "none" ELSE FirstHit(rules, p).target

\* The destination or source that a nat chain gives to a new connection.
Translated(k, c, p, old) ==
  LET rules == RulesOf(k, c)
  IN  IF Hits(rules, p) = {} THEN old ELSE FirstHit(rules, p).arg

\* The lookup: the policy rules in order, then the main table.
Lookup(k, dst, mark) ==
  LET tables == {r \in PolicyRules : r.prio \in k.rules /\ r.mark = mark}
      found  == {r \in k.routes : /\ r.dst \in {dst, "default"}
                                  /\ \E t \in tables : t.table = r.table}
      main   == {r \in k.routes : r.table = Main /\ r.dst = dst}
  IN  IF found # {} THEN found ELSE main

\* The default route of the main table is the public interface.
Device(k, dst, mark) ==
  LET found == Lookup(k, dst, mark)
  IN  IF found = {} THEN "pub" ELSE (CHOOSE r \in found : TRUE).dev
============================================================================

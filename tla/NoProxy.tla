------------------------------ MODULE NoProxy ------------------------------
(***************************************************************************)
(* Which hosts are reached without the upstream proxy: no_proxy_match of   *)
(* src/proxy.rs, which compares texts, and what its rules are said to mean. *)
(*                                                                         *)
(* A host is the sequence of its labels, an address that of its octets; a  *)
(* label is a number, whose text is the decimal one.  A rule is "*", a     *)
(* suffix or a host, the last with the bits of a network if it has a "/".  *)
(***************************************************************************)
EXTENDS Integers, Sequences, SequencesExt, FiniteSetsExt

NoBits == -1

\* The text of one label begins with that of another.
BeginsWith(label, start) ==
  label = start \/ \E power \in {10, 100} : label >= power /\ label \div power = start

\* host.starts_with(prefix), where prefix is a text without a dot at its end
StartsWith(host, prefix) ==
  LET n == Len(prefix) IN
  /\ n <= Len(host)
  /\ n > 0 => /\ SubSeq(host, 1, n - 1) = SubSeq(prefix, 1, n - 1)
             /\ BeginsWith(host[n], prefix[n])

\* Mutant: an octet too many is compared.
OctetsAndOne(bits) == IF bits = NoBits THEN 4 ELSE bits \div 8 + 1

\* div_ceil; an address without bits counts as a network of 32.
Octets(bits) == IF bits = NoBits THEN 4 ELSE (bits + 7) \div 8

RuleMatches(host, rule) ==
  CASE rule.kind = "all" -> TRUE
    [] rule.kind = "suffix" -> IsSuffix(rule.labels, host)
    [] rule.kind = "host" ->
         \/ rule.bits = NoBits /\ host = rule.labels
         \/ /\ Len(rule.labels) > 1
            /\ StartsWith(host, SubSeq(rule.labels, 1,
                                       Min({Octets(rule.bits), Len(rule.labels)})))

\* no_proxy_match
Bypasses(host, rules) == \E rule \in rules : RuleMatches(host, rule)

(* What the rule says: a network is written as one of its addresses, and   *)
(* is those with the same first bits.                                      *)
Names(host, rule) ==
  CASE rule.kind = "all" -> TRUE
    [] rule.kind = "suffix" -> IsSuffix(rule.labels, host)
    [] rule.kind = "host" /\ rule.bits = NoBits -> host = rule.labels
    [] OTHER ->
         LET whole == rule.bits \div 8
             rest == 2 ^ (8 - (rule.bits % 8))
         IN  /\ Len(host) = 4 /\ Len(rule.labels) = 4
             /\ SubSeq(host, 1, whole) = SubSeq(rule.labels, 1, whole)
             /\ whole < 4 => host[whole + 1] \div rest = rule.labels[whole + 1] \div rest

=============================================================================

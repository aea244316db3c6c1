------------------------------- MODULE Policy -------------------------------
(* The outbound policy (uk-policy lib.rs): address classification, CIDR      *)
(* containment, rule matching and the two evaluations.  An IPv4 address is   *)
(* its four octets, an IPv6 address its eight segments; a rule is a record   *)
(* whose absent predicates are NONE; a domain is the sequence of its labels, *)
(* most significant first, so that a suffix is a prefix of the sequence.     *)
EXTENDS Integers, Sequences, SequencesExt

CONSTANT NONE

V4(s) == [v |-> 4, s |-> s]
V6(s) == [v |-> 6, s |-> s]

(* Bit masks on whole octets and segments: keep the high n of w bits. *)
HighBits(x, w, n) == x \div 2^(w - n)

----------------------------------------------------------------------------
(* Classification. *)
ipv4_from_segments(high, low) == <<high \div 256, high % 256, low \div 256, low % 256>>

ipv4_mapped(s) == SubSeq(s, 1, 6) = <<0, 0, 0, 0, 0, 65535>>

(* The IPv4 address carried by a mapped, NAT64 (64:ff9b::/96), IPv4-         *)
(* compatible or 6to4 (2002::/16) address, or NONE.                          *)
embedded_ipv4(s) ==
    IF \/ ipv4_mapped(s)
       \/ SubSeq(s, 1, 6) = <<100, 65435, 0, 0, 0, 0>>
       \/ SubSeq(s, 1, 6) = <<0, 0, 0, 0, 0, 0>> /\ ~(s[7] = 0 /\ s[8] <= 1)
    THEN ipv4_from_segments(s[7], s[8])
    ELSE IF s[1] = 8194 THEN ipv4_from_segments(s[2], s[3]) ELSE NONE

(* std's private, loopback, link-local, broadcast and multicast ranges and   *)
(* the module's documentation, shared, benchmarking, protocol assignment,    *)
(* 6to4 anycast, reserved and this-network ranges.                           *)
is_restricted_ipv4(o) ==
    \/ o[1] \in {0, 10, 127} \/ o[1] \in 224..255
    \/ o[1] = 172 /\ o[2] \in 16..31
    \/ o[1] = 192 /\ o[2] = 168
    \/ o[1] = 169 /\ o[2] = 254
    \/ SubSeq(o, 1, 3) \in {<<192, 0, 2>>, <<198, 51, 100>>, <<203, 0, 113>>,
                            <<192, 0, 0>>, <<192, 88, 99>>}
    \/ o[1] = 100 /\ o[2] \in 64..127
    \/ o[1] = 198 /\ o[2] \in {18, 19}

(* Loopback, unspecified, unique local, multicast, link-local, site-local,   *)
(* documentation and ORCHID ranges.                                          *)
is_restricted_ipv6(s) ==
    \/ SubSeq(s, 1, 7) = <<0, 0, 0, 0, 0, 0, 0>> /\ s[8] \in {0, 1}
    \/ HighBits(s[1], 16, 7) = 126
    \/ HighBits(s[1], 16, 8) = 255
    \/ HighBits(s[1], 16, 10) \in {1018, 1019}
    \/ s[1] = 8193 /\ s[2] = 3512
    \/ s[1] = 16383 /\ HighBits(s[2], 16, 4) = 0
    \/ s[1] = 8193 /\ HighBits(s[2], 16, 12) = 1

is_private(ip) ==
    IF ip.v = 4 THEN is_restricted_ipv4(ip.s)
    ELSE \/ embedded_ipv4(ip.s) # NONE /\ is_restricted_ipv4(embedded_ipv4(ip.s))
         \/ is_restricted_ipv6(ip.s)

metadata_ipv4 ==
    {<<169, 254, 169, 254>>, <<169, 254, 170, 2>>, <<100, 100, 100, 200>>, <<168, 63, 129, 16>>}

is_metadata_service_ip(ip) ==
    IF ip.v = 4 THEN ip.s \in metadata_ipv4
    ELSE \/ embedded_ipv4(ip.s) \in metadata_ipv4
         \/ ip.s = <<64768, 3778, 0, 0, 0, 0, 0, 596>>

(* Cidr::contains, element by element under the prefix mask; a prefix past   *)
(* the width masks every bit.  Only the mapped form crosses families.        *)
SamePrefix(a, b, w, prefix) ==
    \A i \in 1..Len(a) :
        LET n == LET m == prefix - w * (i - 1) IN IF m < 0 THEN 0 ELSE IF m > w THEN w ELSE m
        IN  HighBits(a[i], w, n) = HighBits(b[i], w, n)

contains(cidr, ip) ==
    IF cidr.net.v = ip.v
    THEN SamePrefix(cidr.net.s, ip.s, IF ip.v = 4 THEN 8 ELSE 16, cidr.prefix)
    ELSE /\ cidr.net.v = 4 /\ ipv4_mapped(ip.s)
         /\ SamePrefix(cidr.net.s, ipv4_from_segments(ip.s[7], ip.s[8]), 8, cidr.prefix)

----------------------------------------------------------------------------
(* Matching.  A context is [key, group, target, ips]; a target is a domain   *)
(* [domain, port] or a literal [ip, port], the other field being NONE.       *)
IsDomain(t) == t.domain # NONE

target_ips(c) == IF IsDomain(c.target) THEN c.ips ELSE {c.target.ip}

domain_matches_suffix(domain, suffix) ==
    IF suffix.dot THEN IsStrictPrefix(suffix.labels, domain) ELSE IsPrefix(suffix.labels, domain)

matches_fixed_predicates(r, c) ==
    /\ r.key # NONE => r.key = c.key
    /\ r.group # NONE => r.group = c.group
    /\ r.domain # NONE => r.domain = c.target.domain
    /\ r.suffix # NONE => IsDomain(c.target) /\ domain_matches_suffix(c.target.domain, r.suffix)
    /\ r.ports # NONE => c.target.port \in r.ports

(* An allow rule needs every address inside, a deny rule any of them. *)
cidr_matches(action, cidr, c) ==
    /\ target_ips(c) # {}
    /\ IF action = "Allow" THEN \A ip \in target_ips(c) : contains(cidr, ip)
                           ELSE \E ip \in target_ips(c) : contains(cidr, ip)

private_matches(c, want) ==
    /\ target_ips(c) # {}
    /\ IF want THEN \E ip \in target_ips(c) : is_private(ip)
               ELSE \A ip \in target_ips(c) : ~is_private(ip)

(* `private` is a set: {} for None, {b} for Some(b). *)
matches(r, c) ==
    /\ matches_fixed_predicates(r, c)
    /\ r.cidr # NONE => cidr_matches(r.action, r.cidr, c)
    /\ \A want \in r.private : private_matches(c, want)

target_or_resolution_is_private(c) ==
    IF IsDomain(c.target) /\ c.ips = {} THEN TRUE ELSE \E ip \in target_ips(c) : is_private(ip)

(* First match wins; metadata addresses are denied before any rule, and an   *)
(* allow rule without private = true never reaches a private address.        *)
evaluate(rules, c) ==
    LET m == SelectSeq(rules, LAMBDA r : matches(r, c))
    IN  IF \E ip \in target_ips(c) : is_metadata_service_ip(ip) THEN "Deny"
        ELSE IF m = <<>> THEN "Deny"
        ELSE IF /\ Head(m).action = "Allow" /\ Head(m).private # {TRUE}
                /\ target_or_resolution_is_private(c)
             THEN "Deny" ELSE Head(m).action

resolution_dependentMutant(r, target) == IsDomain(target) /\ r.action = "Allow"

resolution_dependent(r, target) ==
    IsDomain(target) /\ (r.cidr # NONE \/ ~(r.action = "Deny" /\ r.private = {}))

(* Denied whatever DNS answers: no allow rule can match, or the first rule   *)
(* that can is a deny that does not look at addresses.                       *)
denied_without_resolution(rules, c) ==
    LET could == SelectSeq(rules, LAMBDA r : matches_fixed_predicates(r, c))
    IN  IF ~IsDomain(c.target) THEN evaluate(rules, c) = "Deny"
        ELSE \/ \A i \in DOMAIN could : could[i].action # "Allow"
             \/ ~resolution_dependent(Head(could), c.target) /\ Head(could).action = "Deny"

is_blanket_private_deny(r) ==
    /\ r.action = "Deny" /\ r.private = {TRUE} /\ r.cidr = NONE
    /\ r.key = NONE /\ r.group = NONE /\ r.domain = NONE /\ r.suffix = NONE /\ r.ports = NONE

has_unrestricted_private_allow(rules) ==
    \E i \in DOMAIN rules :
        /\ rules[i].action = "Allow" /\ rules[i].private = {TRUE}
        /\ \A j \in 1..(i - 1) : ~is_blanket_private_deny(rules[j])

----------------------------------------------------------------------------
(* TryFrom<RawPolicyRule>: a rule is accepted only with both port bounds or  *)
(* neither, in order and not zero, and an allow rule that says nothing about *)
(* private destinations excludes them.                                       *)
rule_is_valid(raw) ==
    /\ raw.action \in {"Allow", "Deny"}
    /\ \/ raw.port_start = {} /\ raw.port_end = {}
       \/ \E a \in raw.port_start, b \in raw.port_end : a <= b /\ a # 0
    /\ raw.cidr # NONE => raw.cidr.prefix <= (IF raw.cidr.net.v = 4 THEN 32 ELSE 128)

rule_from_raw(raw) ==
    [action |-> raw.action, key |-> raw.key, group |-> raw.group, domain |-> raw.domain,
     suffix |-> raw.suffix, cidr |-> raw.cidr,
     ports |-> IF raw.port_start = {} THEN NONE
               ELSE UNION {a..b : a \in raw.port_start, b \in raw.port_end},
     private |-> IF raw.action = "Allow" /\ raw.private = {} THEN {FALSE} ELSE raw.private]
=============================================================================

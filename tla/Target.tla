------------------------------- MODULE Target -------------------------------
(***************************************************************************)
(* Targets as both ends spell and check them (uk-proto/src/target.rs), and *)
(* the open payloads that carry them (tcp.rs, udp.rs).  A host is an       *)
(* address or a domain; a domain is its labels, a label its length in      *)
(* bytes and what its bytes are.  A payload is the record of its fields,   *)
(* with the width of the length prefix, so that its size in bytes is the   *)
(* code's.                                                                 *)
(***************************************************************************)
EXTENDS Naturals, Sequences

MAX_DOMAIN_LEN == 255
MAX_LABEL_LEN == 63
ADDR_DOMAIN == 1
ADDR_IPV4 == 2
ADDR_IPV6 == 3
TCP_OPEN_FLAGS_NONE == 0
(* Minimum max_frame_size that can carry every valid TCP control payload. *)
MIN_TCP_RELAY_FRAME_SIZE == 262

Address(type, ip) == [type |-> type, ip |-> ip, labels |-> <<>>]
DomainHost(labels) == [type |-> ADDR_DOMAIN, ip |-> 0, labels |-> labels]

(* Bytes of a host: the labels and the dots between them. *)
HostLen(host) ==
    LET sum[i \in 0..Len(host.labels)] ==
            IF i = 0 THEN 0 ELSE sum[i - 1] + host.labels[i].len + (IF i = 1 THEN 0 ELSE 1)
    IN  CASE host.type = ADDR_IPV4 -> 4
          [] host.type = ADDR_IPV6 -> 16
          [] OTHER -> sum[Len(host.labels)]

Shapes(host) == {host.labels[i].shape : i \in DOMAIN host.labels}

(* A name a resolver would read as an IPv4 address. *)
is_resolver_ip_shaped(host) == Shapes(host) \subseteq {"digits", "hex"}

(* An IPv6 literal holds a colon, so it is "symbol"; an IPv4 literal is     *)
(* four labels of digits.                                                  *)
validate_domain(host) ==
    /\ HostLen(host) \in 1..MAX_DOMAIN_LEN
    /\ Shapes(host) \cap {"control", "symbol", "not_utf8"} = {}
    /\ ~is_resolver_ip_shaped(host)
    /\ \A i \in DOMAIN host.labels :
          host.labels[i].len \in 1..MAX_LABEL_LEN /\ host.labels[i].shape # "hyphen_edge"

validate_port(port) == port # 0

Encodable(target) ==
    /\ validate_port(target.port)
    /\ target.host.type = ADDR_DOMAIN => validate_domain(target.host)

(* Bytes of the varint that carries a host length (at most 255). *)
length_width(n) == IF n < 64 THEN 1 ELSE 2

(* Target::encode *)
encode_target(target) ==
    [addr_type |-> target.host.type,
     host_len |-> HostLen(target.host), width |-> length_width(HostLen(target.host)),
     host |-> target.host, port |-> target.port]

(* TcpOpen::encode and UdpOpen::encode *)
encode_open(protocol, target) ==
    [target |-> encode_target(target),
     flags |-> IF protocol = "tcp" THEN <<TCP_OPEN_FLAGS_NONE>> ELSE <<>>]

PayloadLen(payload) ==
    1 + payload.target.width + payload.target.host_len + 2 + 2 * Len(payload.flags)

(* Target::decode: the address type, then the length it allows, then the   *)
(* bytes, then the port and the name.                                      *)
decode_target(wire) ==
    IF \/ wire.addr_type \notin {ADDR_DOMAIN, ADDR_IPV4, ADDR_IPV6}
       \/ wire.addr_type = ADDR_DOMAIN /\ wire.host_len \notin 1..MAX_DOMAIN_LEN
       \/ wire.addr_type = ADDR_IPV4 /\ wire.host_len # 4
       \/ wire.addr_type = ADDR_IPV6 /\ wire.host_len # 16
    THEN [ok |-> FALSE, error |-> "InvalidTarget"]
    ELSE IF HostLen(wire.host) < wire.host_len
    THEN [ok |-> FALSE, error |-> "TruncatedFrame"]
    ELSE IF ~Encodable([host |-> wire.host, port |-> wire.port])
    THEN [ok |-> FALSE, error |-> "InvalidTarget"]
    ELSE [ok |-> TRUE, target |-> [host |-> wire.host, port |-> wire.port]]

(* TcpOpen::decode and UdpOpen::decode: flags in a TCP open only, nothing after. *)
decode_open(protocol, payload) ==
    LET decoded == decode_target(payload.target)
    IN  IF ~decoded.ok THEN decoded
        ELSE IF protocol = "tcp" /\ payload.flags = <<>>
        THEN [ok |-> FALSE, error |-> "TruncatedFrame"]
        ELSE IF payload.flags # (IF protocol = "tcp" THEN <<TCP_OPEN_FLAGS_NONE>> ELSE <<>>)
        THEN [ok |-> FALSE, error |-> "Protocol"]
        ELSE decoded
=============================================================================

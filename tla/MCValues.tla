------------------------------ MODULE MCValues ------------------------------
(* The values the model-checking modules give to the constants of the      *)
(* component modules.                                                      *)
EXTENDS Naturals, SequencesExt, TLC

CONSTANTS NONE, k1    \* model values: an absent value, an access key

-----------------------------------------------------------------------------
(* Rate limiter: an IPv4 address and hosts of two /64 networks; the two     *)
(* forms of one IPv4 address and an allowlisted host.                       *)
Addr(family, prefix, host) == [family |-> family, prefix |-> prefix, host |-> host]

RateAddrs == {Addr("v4", 0, 1), Addr("v6", 1, 1), Addr("v6", 2, 1)}
SharedAddrs == {Addr("v4", 0, 1), Addr("mapped", 0, 1), Addr("v6", 1, 2)}
ListedAddrs == {Addr("v6", 1, 2)}

-----------------------------------------------------------------------------
(* Authentication: of two clients the first may have the wrong secret; one  *)
(* client alone may also have an unknown key.                               *)
Right == <<"known", "right">>
AuthClients == {"a1" :> c @@ "a2" :> Right : c \in {Right, <<"known", "wrong">>}}
OneClient == {"a1" :> c : c \in {Right, <<"known", "wrong">>, <<"unknown", "right">>}}
Cred(status, from, to) == [status |-> status, not_before |-> from, not_after |-> to]
ActiveOnly == {Cred("Active", 0, 0)}
Credentials == ActiveOnly \cup {Cred("Disabled", 0, 1)}

-----------------------------------------------------------------------------
(* Dialer: every valid rule with at most one of a domain suffix, a network *)
(* and the private flag, alone or a Deny before an Allow; a metadata       *)
(* address hidden in a 6to4 prefix, a private one in an IPv4-mapped form.  *)
Rule == INSTANCE Policy

public == Rule!V4(<<93, 184, 216, 34>>)
private == Rule!V4(<<10, 0, 0, 1>>)
metadata == Rule!V6(<<8194, 43518, 43518, 0, 0, 0, 0, 0>>)
mapped == Rule!V6(<<0, 0, 0, 0, 0, 65535, 2560, 2>>)
RawRule(action, suffix, cidr, priv) ==
    [action |-> action, key |-> NONE, group |-> NONE, domain |-> NONE, suffix |-> suffix,
     cidr |-> cidr, port_start |-> {}, port_end |-> {}, private |-> priv]
RawRules ==
    {RawRule(a, s, c, p) : a \in {"Allow", "Deny"},
        s \in {NONE, [dot |-> FALSE, labels |-> <<"com", "example">>]},
        c \in {NONE, [net |-> Rule!V4(<<10, 0, 0, 0>>), prefix |-> 8]}, p \in {{}, {TRUE}}}
Rules == {Rule!rule_from_raw(r) : r \in {x \in RawRules : Rule!rule_is_valid(x)}}
PolicySets ==
    {<<r>> : r \in Rules}
    \cup {<<r, s>> : r \in {x \in Rules : x.action = "Deny"},
                     s \in {x \in Rules : x.action = "Allow"}}
AllowAll == {<<r>> : r \in {x \in Rules : x.action = "Allow" /\ x.suffix = NONE}}
Identity == [key |-> "key", group |-> "group"]
Domain(labels) == [domain |-> labels, ip |-> NONE, port |-> 443]
Literal(ip) == [domain |-> NONE, ip |-> ip, port |-> 443]
Targets == {Domain(<<"com", "example">>), Domain(<<"com">>), Literal(metadata)}
Answers == {<<>>, <<public>>, <<private, mapped>>, <<public, metadata>>,
            <<public, public, public, public>>}

-----------------------------------------------------------------------------
(* Negotiation: every limit at, below and above its bounds, in the pairs    *)
(* that the code compares with each other.                                  *)
Both(a, b, x, y) == {f \in [{a, b} -> x \cup y] : f[a] \in x /\ f[b] \in y}
One(a, x) == [{a} -> x]
ServerConfigs ==
    {<<>>}
    \cup Both("max_streams", "max_udp_flows", {0, 1, 1000000, 1000001}, {0, 1, 1000000, 1000001})
    \cup One("max_streams", {0, 1, 100, 1000001})
    \cup Both("max_frame_size", "relay_buffer_size", {261, 262, 16777216, 16777217},
              {1023, 1024, 1048576})
    \cup Both("auth_skew_seconds", "replay_cache_window_seconds", {0, 30, 150, 300, 301},
              {1, 300, 600})
    \cup One("auth_skew_seconds", {30, 150, 151})
    \cup One("idle_timeout_seconds", {0, 1, 2592000, 2592001})
    \cup Both("quic_stream_receive_window", "quic_connection_receive_window",
              {65535, 65536, 2097152}, {65536, 16777217})
    \cup Both("auth_rate_limit_failures", "auth_rate_limit_window_seconds", {0, 1, 100001}, {0, 1})
    \cup Both("max_sessions", "max_total_streams", {0, 1}, {0, 1})

-----------------------------------------------------------------------------
(* Masked datagrams: batches that split evenly and unevenly, short, long    *)
(* and unsupported headers, one datagram of noise.                          *)
Transmits ==
    {[contents |-> <<"s", "a", "l", "a", "s">>, segment_size |-> 2],
     [contents |-> <<"v", "a", "s", "b">>, segment_size |-> 2],
     [contents |-> <<"l">>, segment_size |-> 0],
     [contents |-> <<"l", "b", "c">>, segment_size |-> 0]}
Noise == {<<[nonce |-> <<0, 0, 0>>, place |-> 0, byte |-> "x"]>>}

-----------------------------------------------------------------------------
(* Preludes over four-bit bytes, most significant bit first; hmac is some   *)
(* function that depends on all it is given.                                *)
Nibble(n) == [j \in 1..4 |-> (n \div 2^(4 - j)) % 2]
Covers == {<<Nibble(p)>> \o t : p \in {5, 14}, t \in [1..4 -> {Nibble(0), Nibble(15), Nibble(10)}]}
Identities == {<<Nibble(n)>> : n \in {0, 6, 9}}
Counters == {<<Nibble(n)>> : n \in {0, 1, 8, 15}}
Weight(bytes) == FoldLeft(LAMBDA a, b : a + b[1] + 2 * b[4], 0, bytes)
Hmac(x) ==
    LET number == 8 * x[4][1] + 4 * x[4][2] + 2 * x[4][3] + x[4][4]
        w == x[2] + Weight(x[3]) + number
                + IF x[1] = "tag" THEN 3 * Weight(x[5]) + 5 * Weight(x[6]) + 1 ELSE 0
    IN  [i \in 1..3 |-> Nibble((w * i) % 16)]

-----------------------------------------------------------------------------
(* Frames, with their bytes: three canonical ones, long spellings of the    *)
(* two integers, a wrong version, an unknown type, a required flag, and a   *)
(* payload above the limit.                                                 *)
Frame(type, id, payload) == [type |-> type, flags |-> 0, id |-> id, payload |-> payload]
Item(frame, bytes) == [frame |-> frame, bytes |-> bytes]
Empty == Item(Frame(1, 0, <<>>), <<1, 1, 0, 0, 0>>)
Canonical ==
    {Empty, Item(Frame(1, 3, <<7, 0>>), <<1, 1, 0, 3, 2, 7, 0>>),
     Item(Frame(2, 20, <<1>>), <<1, 2, 0, 5, 4, 1, 1>>)}
Odd ==
    {Item(Frame(1, 1, <<5>>), <<1, 1, 0>> \o id \o len \o <<5>>)
        : id \in {<<1>>, <<4, 1>>}, len \in {<<4, 1>>, <<8, 0, 0, 1>>}}
    \cup {Item(Frame(1, 1, <<>>), <<2, 1, 0, 1, 0>>), Item(Frame(3, 1, <<>>), <<1, 3, 0, 1, 0>>),
          Item(Frame(1, 1, <<>>), <<1, 1, 4, 1, 0>>),
          Item(Frame(1, 1, [i \in 1..10 |-> 0]), <<1, 1, 0, 1, 4, 10>> \o [i \in 1..10 |-> 0])}
Streams ==
    {<<a, b>> : a, b \in Canonical} \cup {<<Empty, b>> : b \in Odd} \cup {<<b>> : b \in Odd}
FewStreams == {<<a>> : a \in Canonical \cup Odd}

-----------------------------------------------------------------------------
(* Establishment: a TLS and a QUIC endpoint, in the other order after the   *)
(* reload.                                                                  *)
TheEndpoints == [a |-> "tls", b |-> "quic"]
TheConfig(g) == IF g = 0 THEN <<"b", "a">> ELSE <<"a", "b">>

-----------------------------------------------------------------------------
(* UDP association: two peers fit the requested address, one does not.      *)
FitsRequest(p) == p # "stranger"

-----------------------------------------------------------------------------
(* SOCKS: addresses of every type, domain names of every kind the target    *)
(* codec tells apart, and each way a greeting or a request can be wrong.    *)
Host == INSTANCE Target

Label(len, shape) == [len |-> len, shape |-> shape]
Hosts == {Host!Address(Host!ADDR_IPV4, 1), Host!Address(Host!ADDR_IPV6, 2)}
Domains == {Host!DomainHost(d) : d \in {<<>>, <<Label(3, "name"), Label(3, "name")>>,
    <<Label(63, "name"), Label(63, "name"), Label(63, "name"), Label(63, "name")>>,
    <<Label(63, "digits"), Label(63, "name")>>, <<Label(3, "digits"), Label(1, "hex")>>,
    <<Label(3, "name"), Label(0, "name")>>, <<Label(64, "name")>>, <<Label(2, "hyphen_edge")>>,
    <<Label(2, "control")>>, <<Label(2, "symbol")>>, <<Label(2, "not_utf8")>>}}
GoodScript ==
    [version |-> 5, methods |-> {0, 2}, head_version |-> 5, command |-> 1, reserved |-> 0,
     atyp |-> 1, host |-> Host!Address(Host!ADDR_IPV4, 1), port |-> 1]
AtypOf(h) == CASE h.type = Host!ADDR_IPV4 -> 1 [] h.type = Host!ADDR_IPV6 -> 4 [] OTHER -> 3
Scripts ==
    {[GoodScript EXCEPT !.atyp = AtypOf(h), !.host = h] : h \in Hosts \cup Domains}
    \cup {[GoodScript EXCEPT !.command = 3, !.atyp = AtypOf(h), !.host = h]
        : h \in Hosts \cup {d \in Domains : Host!HostLen(d) = 7}}
    \cup {[GoodScript EXCEPT !.port = 0], [GoodScript EXCEPT !.command = 3, !.port = 0],
          [GoodScript EXCEPT !.version = 4], [GoodScript EXCEPT !.methods = {2}],
          [GoodScript EXCEPT !.methods = {}], [GoodScript EXCEPT !.head_version = 4],
          [GoodScript EXCEPT !.reserved = 1], [GoodScript EXCEPT !.command = 2],
          [GoodScript EXCEPT !.atyp = 2]}
Packets ==
    {[header |-> <<0, 0, f>>, atyp |-> AtypOf(h), host |-> h, port |-> 1]
        : f \in {0, 1},
          h \in {Host!Address(Host!ADDR_IPV6, 2)} \cup {d \in Domains : Host!HostLen(d) \in {7, 255}}}
=============================================================================

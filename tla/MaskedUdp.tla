----------------------------- MODULE MaskedUdp -----------------------------
(* Masked QUIC datagrams (uk-mask udp.rs): try_send masks every GSO segment  *)
(* under a fresh nonce, the network loses, reorders and coalesces datagrams, *)
(* and poll_recv unmasks, filters and repacks what arrives for quinn, which  *)
(* splits each batch again by the stride it is told.                         *)
EXTENDS Integers, Sequences, SequencesExt

CONSTANTS
    Transmits,          \* [contents, segment_size], segment_size 0 without GSO
    Noise,              \* datagrams of strangers, too short to carry a nonce
    NONCE_LEN, NONCE_BUFFER_LEN, NONCE_RESEED_BYTES,
    LONG_HEADER_LEN,    \* bytes up to the end of the version field
    BufferLen,          \* length of quinn's receive buffer
    server_filter,      \* whether the receiver is a server
    MaxSends, MaxBatch

VARIABLES
    generator,          \* NonceGenerator: seed, refills, position, generated
    used, reused,       \* nonces handed out, and whether one came twice
    sent,               \* packets given to try_send
    network,            \* datagrams in flight, sequences of wire bytes
    received, expected, \* packets quinn got, and those it should have got
    sends

maskUdpVars == <<generator, used, reused, sent, network, received, expected, sends>>

MaskUdpInit ==
    /\ generator = [seed |-> 1, block |-> 0, position |-> NONCE_BUFFER_LEN, generated |-> 0]
    /\ used = {} /\ reused = FALSE
    /\ sent = {} /\ network = Noise /\ received = {} /\ expected = {} /\ sends = 0

(* Rust's chunks(n). *)
chunks(s, n) ==
    [i \in 1..((Len(s) + n - 1) \div n) |->
        SubSeq(s, (i - 1) * n + 1, IF i * n < Len(s) THEN i * n ELSE Len(s))]

(* NonceGenerator::next; a nonce is named by the seed, the buffer refill and *)
(* the place it is taken from.                                               *)
next(g) ==
    LET refill == g.position + NONCE_LEN > NONCE_BUFFER_LEN
        reseed == refill /\ g.generated >= NONCE_RESEED_BYTES
        at     == IF refill THEN 0 ELSE g.position
        block1 == IF reseed THEN 1 ELSE IF refill THEN g.block + 1 ELSE g.block
        seed1  == IF reseed THEN g.seed + 1 ELSE g.seed
    IN  [g |-> [seed |-> seed1, block |-> block1, position |-> at + NONCE_LEN,
                generated |-> (IF reseed THEN 0 ELSE g.generated)
                                 + IF refill THEN NONCE_BUFFER_LEN ELSE 0],
         nonce |-> <<seed1, block1, at>>]

(* A wire byte carries the nonce and place of the keystream it is masked     *)
(* with; the bytes of the nonce itself are at places below 1.                *)
mask_segment(segment, n) ==
    [i \in 1..(NONCE_LEN + Len(segment)) |->
        [nonce |-> n, place |-> i - NONCE_LEN,
         byte |-> IF i > NONCE_LEN THEN segment[i - NONCE_LEN] ELSE "n"]]

try_send(t) ==
    /\ sends < MaxSends /\ sends' = sends + 1
    /\ LET segments == IF t.segment_size = 0 THEN <<t.contents>>
                       ELSE chunks(t.contents, t.segment_size)
           end == FoldLeft(LAMBDA acc, s :
                              LET n == next(acc.g)
                              IN  [g |-> n.g, wire |-> acc.wire \cup {mask_segment(s, n.nonce)},
                                   used |-> acc.used \cup {n.nonce},
                                   reused |-> acc.reused \/ n.nonce \in acc.used],
                           [g |-> generator, wire |-> {}, used |-> used, reused |-> reused],
                           segments)
       IN  /\ sent' = sent \cup ToSet(segments)
           /\ generator' = end.g /\ used' = end.used /\ reused' = end.reused
           /\ network' = network \cup end.wire
    /\ UNCHANGED <<received, expected>>

(* unmask_segment: <<>> for a segment too short to carry a nonce; a byte     *)
(* decodes only under the keystream it was masked with.                      *)
unmask_segment(w) ==
    [i \in 1..(Len(w) - NONCE_LEN) |->
        IF w[NONCE_LEN + i].nonce = w[1].nonce /\ w[NONCE_LEN + i].place = i
        THEN w[NONCE_LEN + i].byte ELSE "garbled"]

(* "s" starts a short header, "l" a long header of a supported version. *)
supported_quic_packet(p) == p # <<>> /\ (p[1] = "s" \/ (p[1] = "l" /\ Len(p) >= LONG_HEADER_LEN))

Passes(p) == p # <<>> /\ (server_filter => supported_quic_packet(p))

(* What quinn makes of a slot: the decoded bytes split by the stride. *)
poll_recv(wire, stride) ==
    LET decoded == FlattenSeq(SelectSeq([i \in DOMAIN chunks(wire, stride) |->
                                            unmask_segment(chunks(wire, stride)[i])], Passes))
        stride1 == IF stride - NONCE_LEN < Len(decoded) THEN stride - NONCE_LEN ELSE Len(decoded)
    IN  IF stride <= NONCE_LEN \/ decoded = <<>> \/ Len(decoded) > BufferLen THEN {}
        ELSE ToSet(chunks(decoded, stride1))

(* The kernel coalesces datagrams of one length, the last one maybe shorter. *)
Coalesced(ds) ==
    /\ \A i, j \in DOMAIN ds : i < j => ds[i] # ds[j]
    /\ \A i \in DOMAIN ds : IF i < Len(ds) THEN Len(ds[i]) = Len(ds[1]) ELSE Len(ds[i]) <= Len(ds[1])

Deliver(ds) ==
    /\ Coalesced(ds)
    /\ network' = network \ ToSet(ds)
    /\ received' = received \cup poll_recv(FlattenSeq(ds), Len(ds[1]))
    /\ expected' = expected \cup {p \in {unmask_segment(d) : d \in ToSet(ds)} : Passes(p)}
    /\ UNCHANGED <<generator, used, reused, sent, sends>>

Lose(d) ==
    /\ network' = network \ {d}
    /\ UNCHANGED <<generator, used, reused, sent, received, expected, sends>>

MaskUdpNext ==
    \/ \E t \in Transmits : try_send(t)
    \/ \E n \in 1..MaxBatch : \E ds \in [1..n -> network] : Deliver(ds)
    \/ \E d \in network : Lose(d)

----------------------------------------------------------------------------
(* No two segments are masked under the same nonce, across buffer refills    *)
(* and reseeds.                                                              *)
NonceNeverReused == ~reused

(* Repacking keeps packet boundaries: after unmasking, dropping and joining, *)
(* the stride reported to quinn splits a coalesced batch into exactly the    *)
(* packets that survive the filter.                                          *)
BatchSplitsExactly == received = expected

(* A server socket hands quinn only packets a client sent, and none of an    *)
(* unsupported version.                                                      *)
OnlySentAndSupported ==
    received \subseteq {p \in sent : server_filter => supported_quic_packet(p)}
=============================================================================

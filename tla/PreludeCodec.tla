---------------------------- MODULE PreludeCodec ----------------------------
(* The masking prelude's encoding (uk-mask lib.rs): random cover bytes whose *)
(* tail carries identity, counter and tag in the low bits of every byte,     *)
(* masked by keyed hashes of the nonce, the prefix and the tail's high bits. *)
(* A byte is its W bits, most significant first; the hashes are symbolic.    *)
EXTENDS Integers, Sequences, SequencesExt

CONSTANTS
    W,                      \* bits in a byte
    PREFIX_LEN, TAIL_LEN, TAIL_PAYLOAD_LEN,     \* TAIL_LEN * (W - 1) = TAIL_PAYLOAD_LEN * W
    IDENTITY_LEN, COUNTER_LEN,
    Nonces, Identities, Counters,
    Covers,                 \* random bytes, PREFIX_LEN + TAIL_LEN of them
    hmac(_)                 \* the keyed hashes: TAIL_PAYLOAD_LEN bytes

VARIABLES stage, policy, cover, nonce, identity, counter, prelude, decoded

preludeVars == <<stage, policy, cover, nonce, identity, counter, prelude, decoded>>

Rejected == [identity |-> <<>>, counter |-> <<>>]

PreludeInit ==
    /\ stage = "generate"
    /\ policy \in {"fade", "full8", "low7"} /\ cover \in Covers /\ nonce \in Nonces
    /\ identity \in Identities /\ counter \in Counters
    /\ prelude = <<>> /\ decoded = Rejected

Bits(n) == 0..(n * W - 1)
Bit(bytes, i) == bytes[(i \div W) + 1][(i % W) + 1]

xor(a, b) == [i \in DOMAIN a |-> [j \in 1..W |-> (a[i][j] + b[i][j]) % 2]]

(* full8 keeps the random bytes; low7 clears every high bit; fade only those *)
(* of a prefix that ends before the tail.                                    *)
generate_prelude ==
    [i \in DOMAIN cover |->
        IF policy = "low7" \/ (policy = "fade" /\ i <= PREFIX_LEN)
        THEN [cover[i] EXCEPT ![1] = 0] ELSE cover[i]]

Prefix(bytes) == SubSeq(bytes, 1, PREFIX_LEN)
TailOf(bytes) == SubSeq(bytes, PREFIX_LEN + 1, PREFIX_LEN + TAIL_LEN)

pack_high_bits(tail) == [i \in DOMAIN tail |-> tail[i][1]]

(* Payload bit i goes to tail byte i / 7 (here W - 1), bit 6 - i % 7; the    *)
(* high bits stay.                                                           *)
write_tail_payload(tail, payload) ==
    [g \in 1..TAIL_LEN |-> [p \in 1..W |->
        IF p = 1 THEN tail[g][1] ELSE Bit(payload, (g - 1) * (W - 1) + p - 2)]]

read_tail_payload(tail) ==
    [b \in 1..TAIL_PAYLOAD_LEN |-> [j \in 1..W |->
        LET i == (b - 1) * W + j - 1 IN tail[(i \div (W - 1)) + 1][(i % (W - 1)) + 2]]]

authentication_tag(n, prefix, high, id, c) ==
    SubSeq(hmac(<<"tag", n, prefix, high, id, c>>), 1, TAIL_PAYLOAD_LEN - IDENTITY_LEN - COUNTER_LEN)
prelude_mask(n, prefix, high) == hmac(<<"mask", n, prefix, high>>)

encode_prelude ==
    LET bytes == generate_prelude
        high  == pack_high_bits(TailOf(bytes))
        tag   == authentication_tag(nonce, Prefix(bytes), high, identity, counter)
    IN  Prefix(bytes) \o write_tail_payload(TailOf(bytes),
            xor(identity \o counter \o tag, prelude_mask(nonce, Prefix(bytes), high)))

decode_prelude(bytes, n) ==
    LET high == pack_high_bits(TailOf(bytes))
        payload == xor(read_tail_payload(TailOf(bytes)), prelude_mask(n, Prefix(bytes), high))
        id == SubSeq(payload, 1, IDENTITY_LEN)
        c  == SubSeq(payload, IDENTITY_LEN + 1, IDENTITY_LEN + COUNTER_LEN)
    IN  IF /\ \E i \in Bits(COUNTER_LEN) : Bit(c, i) = 1
           /\ SubSeq(payload, IDENTITY_LEN + COUNTER_LEN + 1, TAIL_PAYLOAD_LEN)
                 = authentication_tag(n, Prefix(bytes), high, id, c)
        THEN [identity |-> id, counter |-> c] ELSE Rejected

(* encode_prelude refuses counter 0. *)
Encode ==
    /\ stage = "generate"
    /\ \E i \in Bits(COUNTER_LEN) : Bit(counter, i) = 1
    /\ prelude' = encode_prelude /\ stage' = "wire"
    /\ UNCHANGED <<policy, cover, nonce, identity, counter, decoded>>

Verify ==
    /\ stage = "wire" /\ stage' = "read"
    /\ decoded' = decode_prelude(prelude, nonce)
    /\ UNCHANGED <<policy, cover, nonce, identity, counter, prelude>>

PreludeNext == Encode \/ Verify

----------------------------------------------------------------------------
(* Decoding inverts encoding under the same keys and nonce, and yields the   *)
(* identity and counter that were encoded.                                   *)
PreludeRoundTrip ==
    stage = "read" => decoded = [identity |-> identity, counter |-> counter]

(* Writing the payload changes no cover bit an observer could test: the      *)
(* prefix is untouched and a low7 prelude stays seven-bit.                   *)
CoverPreserved ==
    stage # "generate" =>
        /\ Prefix(prelude) = Prefix(generate_prelude)
        /\ pack_high_bits(prelude) = pack_high_bits(generate_prelude)
=============================================================================

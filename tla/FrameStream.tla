---------------------------- MODULE FrameStream ----------------------------
(* Frames on a carrier (uk-proto varint.rs, frame.rs, io.rs): the canonical  *)
(* variable-length integers, the header, the vectored writer with its partial*)
(* writes, the buffering FrameReader and the one-shot read_frame.  A byte    *)
(* has W bits, so that a varint of n bytes carries n * W - 2; types and      *)
(* flags are one byte each.                                                  *)
EXTENDS Integers, Sequences, SequencesExt

CONSTANTS
    W, VERSION, FrameTypes,
    REQUIRED_FLAGS,         \* flag values a receiver must not ignore
    max_frame_size,
    MAX_ENCODED_LEN,        \* of a header
    Streams                 \* what a peer sends: sequences of [frame, bytes]

VARIABLES
    stream,             \* what the peer sends, for reference
    first, second,      \* the slices write_all_vectored still has to write
    pending,            \* items not yet handed to write_frame
    wire, closed,
    buffer, got, outcome,
    consumed            \* bytes of the frames taken out of the buffer

frameVars == <<stream, first, second, pending, wire, closed, buffer, got, outcome, consumed>>

----------------------------------------------------------------------------
Lengths == {1, 2, 4, 8}
Class(n) == CHOOSE c \in 0..3 : 2^c = n

(* encoded_len: the shortest width that holds the value. *)
encoded_len(v) == CHOOSE n \in Lengths : v < 2^(n * W - 2) /\ \A m \in Lengths : m < n => v >= 2^(m * W - 2)

(* The value in n bytes, the length class in the top two bits. *)
EncodeAs(v, n) ==
    [i \in 1..n |-> ((v \div 2^(W * (n - i))) % 2^W) + IF i = 1 THEN Class(n) * 2^(W - 2) ELSE 0]

encode(v) == EncodeAs(v, encoded_len(v))

Truncated == [ok |-> FALSE, error |-> "Truncated"]
Invalid(e) == [ok |-> FALSE, error |-> e]

(* Only the shortest form of a value is accepted. *)
decode(s) ==
    IF s = <<>> THEN Truncated
    ELSE LET n == 2^(s[1] \div 2^(W - 2))
             read[i \in 1..n] == IF i = 1 THEN s[1] % 2^(W - 2) ELSE read[i - 1] * 2^W + s[i]
             value == read[n]
         IN  IF Len(s) < n THEN Truncated
             ELSE IF encoded_len(value) # n THEN Invalid("InvalidVarint")
             ELSE [ok |-> TRUE, value |-> value, len |-> n]

encode_frame(f) ==
    <<VERSION, f.type, f.flags>> \o encode(f.id) \o encode(Len(f.payload)) \o f.payload

Drop(s, n) == SubSeq(s, n + 1, Len(s))

FIXED == 3

(* FrameHeader::decode: [ok, type, flags, id, length, len] or an error. *)
decode_header(s) ==
    IF Len(s) < FIXED THEN Truncated
    ELSE IF s[1] # VERSION THEN Invalid("UnsupportedVersion")
    ELSE IF s[2] \notin FrameTypes THEN Invalid("UnknownFrameType")
    ELSE IF s[3] \in REQUIRED_FLAGS THEN Invalid("UnsupportedFlag")
    ELSE LET id == decode(Drop(s, FIXED))
             length == decode(Drop(s, FIXED + id.len))
         IN  IF ~id.ok THEN id ELSE IF ~length.ok THEN length
             ELSE IF length.value > max_frame_size THEN Invalid("OversizedFrame")
             ELSE [ok |-> TRUE, type |-> s[2], flags |-> s[3], id |-> id.value,
                   length |-> length.value, len |-> FIXED + id.len + length.len]

FrameOf(h, s) ==
    [type |-> h.type, flags |-> h.flags, id |-> h.id, payload |-> SubSeq(s, h.len + 1, h.len + h.length)]

(* read_frame, the one-shot reader of the handshake, on a whole stream: the  *)
(* fixed part first, then the two varints, then the header as a whole.       *)
read_frame(s) ==
    IF s = <<>> THEN Invalid("Closed")
    ELSE LET h == decode_header(s)
         IN  IF ~h.ok THEN h
             ELSE IF Len(s) < h.len + h.length THEN Truncated
             ELSE [ok |-> TRUE, frame |-> FrameOf(h, s)]

----------------------------------------------------------------------------
FrameInit ==
    /\ stream \in Streams /\ pending = stream
    /\ first = <<>> /\ second = <<>> /\ wire = <<>> /\ closed = FALSE
    /\ buffer = <<>> /\ got = <<>> /\ outcome = "reading" /\ consumed = <<>>

(* write_frame: the header and the payload become two slices. *)
write_frame ==
    /\ first = <<>> /\ second = <<>> /\ pending # <<>>
    /\ LET item == Head(pending)
           split == Len(item.bytes) - Len(item.frame.payload)
       IN  first' = SubSeq(item.bytes, 1, split) /\ second' = Drop(item.bytes, split)
    /\ pending' = Tail(pending)
    /\ UNCHANGED <<stream, wire, closed, buffer, got, outcome, consumed>>

write_all_vectoredMutant(n) ==
    /\ n <= Len(first) + Len(second)
    /\ wire' = wire \o SubSeq(first \o second, 1, n)
    /\ first' = Drop(first, n)
    /\ second' = Drop(second, n)
    /\ UNCHANGED <<stream, pending, closed, buffer, got, outcome, consumed>>

(* write_all_vectored: the stream takes n bytes, across the slice boundary. *)
write_all_vectored(n) ==
    /\ n <= Len(first) + Len(second)
    /\ wire' = wire \o SubSeq(first \o second, 1, n)
    /\ first' = Drop(first, n)
    /\ second' = Drop(second, IF n > Len(first) THEN n - Len(first) ELSE 0)
    /\ UNCHANGED <<stream, pending, closed, buffer, got, outcome, consumed>>

(* The carrier goes away, perhaps in the middle of a frame. *)
CloseStream ==
    /\ ~closed /\ closed' = TRUE
    /\ UNCHANGED <<stream, first, second, pending, wire, buffer, got, outcome, consumed>>

(* take_buffered_frame: a whole frame is split off, an error ends the        *)
(* reading, and an incomplete frame leaves the buffer as it is.              *)
Incomplete(h) == IF h.ok THEN Len(buffer) < h.len + h.length ELSE h.error = "Truncated"

take_buffered_frame ==
    /\ outcome = "reading" /\ ~Incomplete(decode_header(buffer))
    /\ LET h == decode_header(buffer)
       IN  IF h.ok
           THEN /\ got' = Append(got, FrameOf(h, buffer))
                /\ consumed' = consumed \o SubSeq(buffer, 1, h.len + h.length)
                /\ buffer' = Drop(buffer, h.len + h.length) /\ UNCHANGED outcome
           ELSE outcome' = h.error /\ UNCHANGED <<got, consumed, buffer>>
    /\ UNCHANGED <<stream, first, second, pending, wire, closed>>

(* read_buf: some bytes are appended.  Cancelling a read changes nothing,    *)
(* so the next call goes on from here.                                       *)
read_buf(n) ==
    /\ outcome = "reading" /\ Incomplete(decode_header(buffer)) /\ n <= Len(wire)
    /\ buffer' = buffer \o SubSeq(wire, 1, n) /\ wire' = Drop(wire, n)
    /\ UNCHANGED <<stream, first, second, pending, closed, got, outcome, consumed>>

(* The stream ended: between two frames it was closed, inside one truncated. *)
EndOfStream ==
    /\ outcome = "reading" /\ Incomplete(decode_header(buffer)) /\ closed /\ wire = <<>>
    /\ outcome' = IF buffer = <<>> THEN "Closed" ELSE "Truncated"
    /\ UNCHANGED <<stream, first, second, pending, wire, closed, buffer, got, consumed>>

WriterStep == write_frame \/ \E n \in 1..(Len(first) + Len(second)) : write_all_vectored(n)
ReaderStep == take_buffered_frame \/ EndOfStream \/ \E n \in 1..Len(wire) : read_buf(n)

FrameNext == (~closed /\ WriterStep) \/ CloseStream \/ ReaderStep

----------------------------------------------------------------------------
(* One wire form per frame: the bytes the reader takes for its frames are    *)
(* exactly their canonical encodings, whatever spelling the peer used.       *)
CanonicalOnly == consumed = FlattenSeq([i \in DOMAIN got |-> encode_frame(got[i])])

Wellformed ==
    \A i \in DOMAIN stream :
        /\ stream[i].bytes = encode_frame(stream[i].frame)
        /\ stream[i].frame.type \in FrameTypes /\ stream[i].frame.flags \notin REQUIRED_FLAGS
        /\ Len(stream[i].frame.payload) <= max_frame_size

Begun == Len(stream) - Len(pending)
Left == Len(first) + Len(second)

(* Frames arrive whole, in order and unaltered for every way the writes and  *)
(* reads split the stream; a well-formed stream that ends between frames is  *)
(* closed, one that ends inside a frame is truncated.                        *)
FramesExact ==
    Wellformed =>
        /\ IsPrefix(got, [i \in DOMAIN stream |-> stream[i].frame])
        /\ outcome \in {"reading", "Closed", "Truncated"}
        /\ outcome = "Closed" => Len(got) = IF Left = 0 THEN Begun ELSE Begun - 1
        /\ outcome = "Truncated" => Left \in 1..(Len(stream[Begun].bytes) - 1)

(* The one-shot reader of the handshake and the buffering reader agree on    *)
(* every stream: same first frame, or the same error.                        *)
ReadersAgree ==
    /\ (got = <<>> /\ outcome # "reading") => read_frame(buffer) = Invalid(outcome)
    /\ got # <<>> => read_frame(consumed) = [ok |-> TRUE, frame |-> got[1]]

(* A frame over the limit is refused as soon as its header is in: while the *)
(* reader waits for more, what it holds fits one header and one payload of   *)
(* the largest accepted size.                                                *)
WaitingBufferBounded ==
    (outcome = "reading" /\ Incomplete(decode_header(buffer)))
        => Len(buffer) < MAX_ENCODED_LEN + max_frame_size

(* The reader settles: once the carrier is closed it reports an outcome.     *)
ReaderSettles == closed ~> outcome # "reading"

FrameFairness == WF_frameVars(ReaderStep)

FrameSpec == FrameInit /\ [][FrameNext]_frameVars /\ FrameFairness
=============================================================================

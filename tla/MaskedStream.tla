---------------------------- MODULE MaskedStream ----------------------------
(* One direction of a masked TCP carrier (uk-mask stream.rs): the writer     *)
(* encrypts into a scratch buffer and rewinds its keystream unless the inner *)
(* stream took every byte; the reader decrypts what arrives.  A byte on the  *)
(* wire is its plaintext with the keystream index it was encrypted at.       *)
EXTENDS Integers, Sequences, SequencesExt

CONSTANTS Bytes, MAX_WRITE_CHUNK, STREAM_LIMIT

VARIABLES
    write_offset, write_cipher,     \* confirmed offset, keystream position
    accepted,                       \* plaintext reported as written
    wire,
    read_offset, read_cipher,
    delivered,                      \* plaintext handed to the reader
    failed                          \* a direction reported an error

streamVars == <<write_offset, write_cipher, accepted, wire, read_offset, read_cipher, delivered,
                failed>>

StreamInit ==
    /\ write_offset = 0 /\ write_cipher = 0 /\ accepted = <<>> /\ wire = <<>>
    /\ read_offset = 0 /\ read_cipher = 0 /\ delivered = <<>> /\ failed = {}

Garbled == "garbled"

(* poll_write(buf): at most MAX_WRITE_CHUNK bytes are encrypted; the inner   *)
(* stream takes `written` of them, all, some or none, or is pending or in    *)
(* error (both 0 here), and the keystream returns to the confirmed offset.   *)
poll_writeMutant(buf) ==
    LET take == IF Len(buf) < MAX_WRITE_CHUNK THEN Len(buf) ELSE MAX_WRITE_CHUNK
    IN  /\ "write" \notin failed /\ write_offset + take <= STREAM_LIMIT
        /\ \E written \in 0..take :
              /\ wire' = wire \o [i \in 1..written |-> [byte |-> buf[i], key |-> write_cipher + i]]
              /\ accepted' = accepted \o SubSeq(buf, 1, written)
              /\ write_offset' = write_offset + written
              /\ write_cipher' = write_cipher + take
        /\ UNCHANGED <<read_offset, read_cipher, delivered, failed>>

poll_write(buf) ==
    LET take == IF Len(buf) < MAX_WRITE_CHUNK THEN Len(buf) ELSE MAX_WRITE_CHUNK
    IN  /\ "write" \notin failed /\ write_offset + take <= STREAM_LIMIT
        /\ \E written \in 0..take :
              /\ wire' = wire \o [i \in 1..written |-> [byte |-> buf[i], key |-> write_cipher + i]]
              /\ accepted' = accepted \o SubSeq(buf, 1, written)
              /\ write_offset' = write_offset + written
              /\ write_cipher' = write_offset + written
        /\ UNCHANGED <<read_offset, read_cipher, delivered, failed>>

(* The limit is checked before anything is encrypted. *)
WriteRefused(buf) ==
    /\ write_offset + (IF Len(buf) < MAX_WRITE_CHUNK THEN Len(buf) ELSE MAX_WRITE_CHUNK) > STREAM_LIMIT
    /\ failed' = failed \cup {"write"}
    /\ UNCHANGED <<write_offset, write_cipher, accepted, wire, read_offset, read_cipher, delivered>>

(* poll_read: the inner stream yields n bytes; past the limit they are lost  *)
(* with an error, otherwise decrypted in place.                              *)
poll_read(n) ==
    /\ "read" \notin failed /\ n <= Len(wire)
    /\ wire' = SubSeq(wire, n + 1, Len(wire))
    /\ IF read_offset + n > STREAM_LIMIT
       THEN failed' = failed \cup {"read"} /\ UNCHANGED <<read_offset, read_cipher, delivered>>
       ELSE /\ read_offset' = read_offset + n /\ read_cipher' = read_cipher + n
            /\ delivered' = delivered \o [i \in 1..n |->
                                IF wire[i].key = read_cipher + i THEN wire[i].byte ELSE Garbled]
            /\ UNCHANGED failed
    /\ UNCHANGED <<write_offset, write_cipher, accepted>>

(* A peer past its limit: bytes the reader must not decrypt. *)
PeerOverruns ==
    /\ write_offset = STREAM_LIMIT /\ wire = <<>>
    /\ \E b \in Bytes : wire' = <<[byte |-> b, key |-> STREAM_LIMIT + 1]>>
    /\ UNCHANGED <<write_offset, write_cipher, accepted, read_offset, read_cipher, delivered, failed>>

StreamNext ==
    \/ \E n \in 1..(MAX_WRITE_CHUNK + 1) : \E buf \in [1..n -> Bytes] : poll_write(buf) \/ WriteRefused(buf)
    \/ \E n \in 1..STREAM_LIMIT : poll_read(n)
    \/ PeerOverruns

----------------------------------------------------------------------------
(* The reader gets exactly the bytes the writer was told were accepted, in   *)
(* order and unmasked at the right keystream position, whatever mixture of   *)
(* partial, pending and resubmitted writes came before.                      *)
MaskingTransparent == IsPrefix(delivered, accepted)

(* The keystream position is the confirmed offset between polls, so no byte  *)
(* is ever masked at an index that another byte used, and no index past the  *)
(* limit is used on either side.                                             *)
KeystreamNeverReused ==
    /\ write_cipher = write_offset /\ read_cipher = read_offset
    /\ write_offset <= STREAM_LIMIT /\ read_offset <= STREAM_LIMIT
=============================================================================

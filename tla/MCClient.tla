------------------------------ MODULE MCClient ------------------------------
(* The client's components and the codecs both ends share, instantiated for   *)
(* TLC; the variables and constants of the session manager, the flow table,   *)
(* the keepalive and the two relays are those of their modules.               *)
(* A behaviour explores ONE component: `part`, chosen in the initial state,  *)
(* says which, and the variables of the others keep their initial values.  So *)
(* the state spaces of the components add up and do not multiply, and one run *)
(* checks each of them as if it were alone.                                   *)
EXTENDS ClientPool, ClientFlows, Keepalive, ClientTcpRelay, UdpAssociation, MCValues

VARIABLE part    \* the component that this behaviour explores

-----------------------------------------------------------------------------
\* Session establishment: a TLS and a QUIC endpoint of two addresses each.
VARIABLES est_generation, est_DEGRADED_EPOCH, est_reloading, est_penalties,
          est_stage, est_conn, est_connects

estVars == <<est_generation, est_DEGRADED_EPOCH, est_reloading, est_penalties,
             est_stage, est_conn, est_connects>>

Connect == INSTANCE Establishment WITH
    Endpoints <- TheEndpoints, ConfigOf <- TheConfig, Addresses <- 2, Budget <- 3,
    MIN_QUIC_PER_ADDRESS_ATTEMPT <- 1, DEGRADED_COOLDOWN <- 5, MaxReloads <- 1,
    MaxConnects <- 2, generation <- est_generation,
    DEGRADED_EPOCH <- est_DEGRADED_EPOCH, reloading <- est_reloading,
    penalties <- est_penalties, stage <- est_stage, conn <- est_conn,
    connects <- est_connects

-----------------------------------------------------------------------------
\* The SOCKS front end from the greeting to the reply.
VARIABLES socks_app, socks_phase, socks_sent, socks_request, socks_wire,
          socks_attempt, socks_served, socks_silent, socks_stopping

socksVars == <<socks_app, socks_phase, socks_sent, socks_request, socks_wire,
             socks_attempt, socks_served, socks_silent, socks_stopping>>

Socks == INSTANCE SocksOpen WITH
    Scripts <- Scripts, Packets <- Packets, app <- socks_app, phase <- socks_phase,
    sent <- socks_sent, request <- socks_request, wire <- socks_wire,
    attempt <- socks_attempt, served <- socks_served, silent <- socks_silent,
    stopping <- socks_stopping

-----------------------------------------------------------------------------
\* Stream masking: four bytes of two values, at most two per write.
VARIABLES ms_write_offset, ms_write_cipher, ms_accepted, ms_wire, ms_read_offset,
          ms_read_cipher, ms_delivered, ms_failed

msVars == <<ms_write_offset, ms_write_cipher, ms_accepted, ms_wire, ms_read_offset,
             ms_read_cipher, ms_delivered, ms_failed>>

Stream == INSTANCE MaskedStream WITH
    Bytes <- {"a", "b"}, MAX_WRITE_CHUNK <- 2, STREAM_LIMIT <- 4,
    write_offset <- ms_write_offset, write_cipher <- ms_write_cipher,
    accepted <- ms_accepted, wire <- ms_wire, read_offset <- ms_read_offset,
    read_cipher <- ms_read_cipher, delivered <- ms_delivered, failed <- ms_failed

-----------------------------------------------------------------------------
\* Datagram masking: two batches, a nonce buffer of five bytes, reseeded
\* after ten.
VARIABLES mu_generator, mu_used, mu_reused, mu_sent, mu_network, mu_received,
          mu_expected, mu_sends

muVars == <<mu_generator, mu_used, mu_reused, mu_sent, mu_network, mu_received,
             mu_expected, mu_sends>>

Datagram == INSTANCE MaskedUdp WITH
    Transmits <- Transmits, Noise <- Noise, NONCE_LEN <- 2, NONCE_BUFFER_LEN <- 5,
    NONCE_RESEED_BYTES <- 10, LONG_HEADER_LEN <- 2, BufferLen <- 8,
    server_filter <- TRUE, MaxSends <- 2, MaxBatch <- 3, generator <- mu_generator,
    used <- mu_used, reused <- mu_reused, sent <- mu_sent, network <- mu_network,
    received <- mu_received, expected <- mu_expected, sends <- mu_sends

-----------------------------------------------------------------------------
\* The prelude codec over four-bit bytes.
VARIABLES pre_stage, pre_policy, pre_cover, pre_nonce, pre_identity, pre_counter,
          pre_prelude, pre_decoded

preVars == <<pre_stage, pre_policy, pre_cover, pre_nonce, pre_identity, pre_counter,
             pre_prelude, pre_decoded>>

Prelude == INSTANCE PreludeCodec WITH
    W <- 4, PREFIX_LEN <- 1, TAIL_LEN <- 4, TAIL_PAYLOAD_LEN <- 3,
    IDENTITY_LEN <- 1, COUNTER_LEN <- 1, Nonces <- {7}, Identities <- Identities,
    Counters <- Counters, Covers <- Covers, hmac <- Hmac, stage <- pre_stage,
    policy <- pre_policy, cover <- pre_cover, nonce <- pre_nonce,
    identity <- pre_identity, counter <- pre_counter, prelude <- pre_prelude,
    decoded <- pre_decoded

-----------------------------------------------------------------------------
\* The frame codec and its reader over four-bit bytes.
VARIABLES fr_stream, fr_first, fr_second, fr_pending, fr_wire, fr_closed, fr_buffer,
          fr_got, fr_outcome, fr_consumed

frVars == <<fr_stream, fr_first, fr_second, fr_pending, fr_wire, fr_closed,
             fr_buffer, fr_got, fr_outcome, fr_consumed>>

Frames == INSTANCE FrameStream WITH
    W <- 4, VERSION <- 1, FrameTypes <- {1, 2}, REQUIRED_FLAGS <- 4..7,
    max_frame_size <- 3, MAX_ENCODED_LEN <- 9, Streams <- Streams,
    stream <- fr_stream, first <- fr_first, second <- fr_second,
    pending <- fr_pending, wire <- fr_wire, closed <- fr_closed,
    buffer <- fr_buffer, got <- fr_got, outcome <- fr_outcome,
    consumed <- fr_consumed

-----------------------------------------------------------------------------
\* Every component starts in an initial state of its own; those with several
\* start in any of them when they are the one explored.
ClientInit ==
    /\ part \in {"pool", "tab", "ping", "tcp", "udp", "est", "socks", "ms", "mu",
                 "pre", "fr"}
    /\ PoolInit
    /\ FlowsInit
    /\ KeepaliveInit
    /\ part # "ping" => has_open_flows /\ health_session
    /\ TcpInit
    /\ UdpInit
    /\ Connect!EstInit
    /\ \/ part = "socks"
       \/ /\ part # "socks"
          /\ socks_app = [script |-> GoodScript, cut |-> 6, end |-> "eof"]
    /\ Socks!SocksInit
    /\ Stream!StreamInit
    /\ Datagram!MaskUdpInit
    /\ \/ part = "pre"
       \/ /\ part # "pre"
          /\ pre_policy = "fade"
          /\ pre_cover = <<Nibble(5)>> \o [i \in 1..4 |-> Nibble(0)]
          /\ pre_identity = <<Nibble(0)>>
          /\ pre_counter = <<Nibble(0)>>
    /\ Prelude!PreludeInit
    /\ \/ part = "fr"
       \/ /\ part # "fr"
          /\ fr_stream = <<Empty, Empty>>
    /\ Frames!FrameInit

\* The variables of the components that are not explored stay as they are.
PoolStep ==
    /\ part = "pool" /\ PoolNext
    /\ UNCHANGED <<part, flowVars, kaVars, tcpVars, udpVars, estVars, socksVars,
                   msVars, muVars, preVars, frVars>>

TableStep ==
    /\ part = "tab" /\ FlowsNext
    /\ UNCHANGED <<part, poolVars, kaVars, tcpVars, udpVars, estVars, socksVars,
                   msVars, muVars, preVars, frVars>>

PingStep ==
    /\ part = "ping" /\ KeepaliveNext
    /\ UNCHANGED <<part, poolVars, flowVars, tcpVars, udpVars, estVars, socksVars,
                   msVars, muVars, preVars, frVars>>

RelayStep ==
    /\ part = "tcp" /\ TcpNext
    /\ UNCHANGED <<part, poolVars, flowVars, kaVars, udpVars, estVars, socksVars,
                   msVars, muVars, preVars, frVars>>

AssocStep ==
    /\ part = "udp" /\ UdpNext
    /\ UNCHANGED <<part, poolVars, flowVars, kaVars, tcpVars, estVars, socksVars,
                   msVars, muVars, preVars, frVars>>

ConnectStep ==
    /\ part = "est" /\ Connect!EstNext
    /\ UNCHANGED <<part, poolVars, flowVars, kaVars, tcpVars, udpVars, socksVars,
                   msVars, muVars, preVars, frVars>>

SocksStep ==
    /\ part = "socks" /\ Socks!SocksNext
    /\ UNCHANGED <<part, poolVars, flowVars, kaVars, tcpVars, udpVars, estVars,
                   msVars, muVars, preVars, frVars>>

StreamStep ==
    /\ part = "ms" /\ Stream!StreamNext
    /\ UNCHANGED <<part, poolVars, flowVars, kaVars, tcpVars, udpVars, estVars,
                   socksVars, muVars, preVars, frVars>>

DatagramStep ==
    /\ part = "mu" /\ Datagram!MaskUdpNext
    /\ UNCHANGED <<part, poolVars, flowVars, kaVars, tcpVars, udpVars, estVars,
                   socksVars, msVars, preVars, frVars>>

PreludeStep ==
    /\ part = "pre" /\ Prelude!PreludeNext
    /\ UNCHANGED <<part, poolVars, flowVars, kaVars, tcpVars, udpVars, estVars,
                   socksVars, msVars, muVars, frVars>>

FramesStep ==
    /\ part = "fr" /\ Frames!FrameNext
    /\ UNCHANGED <<part, poolVars, flowVars, kaVars, tcpVars, udpVars, estVars,
                   socksVars, msVars, muVars, preVars>>

ClientVars == <<part, poolVars, flowVars, kaVars, tcpVars, udpVars, estVars,
                socksVars, msVars, muVars, preVars, frVars>>

ClientNext ==
    \/ PoolStep \/ TableStep \/ PingStep \/ RelayStep \/ AssocStep
    \/ ConnectStep \/ SocksStep \/ StreamStep \/ DatagramStep \/ PreludeStep
    \/ FramesStep

ClientSpec == ClientInit /\ [][ClientNext]_ClientVars

-----------------------------------------------------------------------------
\* What one step has settled no later step undoes: a draining session takes
\* no new route and closes only when it is empty, the end of an earlier
\* flow's relay leaves the present flow alone, a UDP association keeps the
\* peer it learned, a penalty of an earlier epoch does not count after a
\* reload, nothing is written behind a FIN, and a connection changes state
\* only as is_valid_connection_transition allows.
SettledStaysSettled ==
    [][/\ NoRouteOnceDraining /\ DrainClosesEmpty
       /\ HealthyFlowKept /\ PeerPinned
       /\ Connect!OldEpochForgotten
       /\ NothingAfterFin /\ TransitionsValid]_ClientVars

\* Endpoint fallback is fair and complete: a connect that fails without a
\* rejection dialled every endpoint of its configuration once, a penalised
\* one only after all healthy ones, and an address that never answers leaves
\* time for the others (connect_authenticated_inner,
\* per_address_attempt_timeout).
FallbackSound ==
    /\ Connect!EstTypeOK
    /\ Connect!FailureMeansExhausted
    /\ Connect!PenalisedLast
    /\ Connect!UnreachableCannotStarve

\* A SOCKS application is told exactly one verdict and a true one: success
\* only if its latest attempt was accepted, unreachable only after a dial;
\* and the target the server decodes, in a payload that fits the smallest
\* frame, is the one the application asked for (handle_socks_connection,
\* Target::decode).
VerdictsTrue ==
    /\ Socks!SocksTypeOK
    /\ Socks!OneVerdict
    /\ Socks!SuccessMeansAccepted
    /\ Socks!UnreachableWasDialed
    /\ Socks!TargetDelivered
    /\ Socks!OpenFits

\* Masking is transparent and never uses a key stream twice: the reader gets
\* what the writer was told was accepted, through partial writes; datagrams
\* keep their boundaries through loss, reordering and coalescing, each under
\* a nonce of its own; a prelude decodes to what was encoded and keeps its
\* cover (MaskedStream, udp.rs, encode_prelude).
MaskingTransparent ==
    /\ Stream!MaskingTransparent /\ Stream!KeystreamNeverReused
    /\ Datagram!NonceNeverReused
    /\ Datagram!BatchSplitsExactly /\ Datagram!OnlySentAndSupported
    /\ Prelude!PreludeRoundTrip /\ Prelude!CoverPreserved

\* Frames arrive whole, in order and in one spelling for every way writes and
\* reads split the stream; the two readers agree on every stream, and one
\* that waits holds at most one header and one payload (FrameReader,
\* read_frame, write_frame).
FramesExact ==
    /\ Frames!FramesExact
    /\ Frames!CanonicalOnly
    /\ Frames!ReadersAgree
    /\ Frames!WaitingBufferBounded

=============================================================================

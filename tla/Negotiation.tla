---------------------------- MODULE Negotiation -----------------------------
(***************************************************************************)
(* Configuration and SETTINGS: what validate_limits accepts                *)
(* (uk-server/src/config.rs), which changes a reload may apply (lib.rs),   *)
(* what a server advertises, and what a client makes of it                 *)
(* (uk-proto/src/settings.rs, uk-client/src/session.rs).  A configuration  *)
(* is the limits its file gives; the rest have the defaults of the code.   *)
(***************************************************************************)
EXTENDS Naturals, Sequences, FiniteSets

CONSTANTS
    Configs,          \* limits given by a server file: [names given -> values]
    Relays,           \* relay_buffer_size of the client
    UnknownKeys,      \* setting keys of a later revision
    MAX_PERMITS,      \* Semaphore::MAX_PERMITS
    MAX_TOTAL_LIMIT   \* both beyond TLC's integers in the code

VARIABLES
    boot,             \* the configuration the listener was started with
    config,           \* the configuration in force
    server,           \* "loading", "running" or "refused"
    wire,             \* the SETTINGS payload on its way: <<key, value>> pairs
    client,           \* what the client negotiated
    relay             \* its relay_buffer_size

negotiationVars == <<boot, config, server, wire, client, relay>>

MAX_FRAME_PAYLOAD_SIZE == 16 * 1024 * 1024
MIN_RELAY_FRAME_SIZE == 262
DEFAULT_MAX_FRAME_SIZE == 65536
DEFAULT_MAX_STREAMS == 64
MAX_NEGOTIATED_FLOWS == 1000000
MAX_NEGOTIATED_IDLE_TIMEOUT_SECONDS == 30 * 24 * 60 * 60
MIN_AUTH_RESPONSE_PAYLOAD_SIZE == 75
MAX_AUTH_SKEW_SECONDS == 300
MIN_QUIC_RECEIVE_WINDOW == 64 * 1024
MAX_QUIC_RECEIVE_WINDOW == 16 * 1024 * 1024
PROTOCOL_REVISION_V1_0 == 2

(* ServerConfig's accessors: the given value, or the default. *)
Defaults ==
    [max_pre_auth_bytes |-> 4096, max_frame_size |-> 65536, max_sessions |-> 1024,
     max_streams |-> 64, max_total_streams |-> 65536,
     max_total_buffered_bytes |-> 512 * 1024 * 1024, max_outbound_dials_per_session |-> 16,
     max_buffered_bytes_per_session |-> MAX_FRAME_PAYLOAD_SIZE,
     max_buffered_bytes_per_flow |-> 2097152, idle_timeout_seconds |-> 300,
     handshake_timeout_seconds |-> 10, target_connect_timeout_seconds |-> 10,
     tcp_half_close_timeout_seconds |-> 30, carrier_write_timeout_seconds |-> 30,
     tcp_keepalive_seconds |-> 60, udp_flow_idle_timeout_seconds |-> 120,
     shutdown_timeout_seconds |-> 30, replay_cache_window_seconds |-> 300,
     replay_cache_max_entries |-> 65536, relay_buffer_size |-> 16384,
     auth_rate_limit_failures |-> 5, auth_rate_limit_window_seconds |-> 60,
     auth_rate_limit_ban_seconds |-> 300, auth_skew_seconds |-> 30,
     quic_stream_receive_window |-> 1048576, quic_connection_receive_window |-> 1048576]

Effective(limits, name) ==
    CASE name \in DOMAIN limits -> limits[name]
      [] name = "max_handshakes" ->       \* as many as sessions
            IF "max_sessions" \in DOMAIN limits THEN limits["max_sessions"] ELSE Defaults["max_sessions"]
      [] name = "max_udp_flows" ->        \* as many as streams
            IF "max_streams" \in DOMAIN limits THEN limits["max_streams"] ELSE Defaults["max_streams"]
      [] OTHER -> Defaults[name]

(* validate_quic_window_limits *)
ValidQuicWindows(c) ==
    /\ Effective(c, "quic_stream_receive_window") \in MIN_QUIC_RECEIVE_WINDOW..MAX_QUIC_RECEIVE_WINDOW
    /\ Effective(c, "quic_connection_receive_window") \in MIN_QUIC_RECEIVE_WINDOW..MAX_QUIC_RECEIVE_WINDOW
    /\ Effective(c, "quic_connection_receive_window") >= Effective(c, "quic_stream_receive_window")

(* validate_auth_rate_limits *)
ValidRateLimits(c) ==
    LET from == IF Effective(c, "auth_rate_limit_failures") > 0 THEN 1 ELSE 0
    IN  /\ Effective(c, "auth_rate_limit_failures") <= 100000
        /\ Effective(c, "auth_rate_limit_window_seconds") \in from..2592000
        /\ Effective(c, "auth_rate_limit_ban_seconds") \in from..2592000

(* validate_replay_cache_covers_auth_skew *)
ReplayCacheCovers(c) ==
    Effective(c, "replay_cache_window_seconds") >= 2 * Effective(c, "auth_skew_seconds")

(* validate_limits *)
validate_limits(c) ==
    /\ Effective(c, "max_pre_auth_bytes") \in MIN_AUTH_RESPONSE_PAYLOAD_SIZE..MAX_FRAME_PAYLOAD_SIZE
    /\ Effective(c, "max_frame_size") \in MIN_RELAY_FRAME_SIZE..MAX_FRAME_PAYLOAD_SIZE
    /\ \A name \in {"max_sessions", "max_handshakes", "max_outbound_dials_per_session"} :
          Effective(c, name) \in 1..MAX_PERMITS
    /\ Effective(c, "max_streams") \in 1..MAX_NEGOTIATED_FLOWS
    /\ Effective(c, "max_udp_flows") \in 0..Effective(c, "max_streams")
    /\ \A name \in {"max_total_streams", "max_total_buffered_bytes"} :
          Effective(c, name) \in 1..MAX_TOTAL_LIMIT
    /\ \A name \in {"max_buffered_bytes_per_session", "max_buffered_bytes_per_flow"} :
          Effective(c, name) \in 1..MAX_FRAME_PAYLOAD_SIZE
    /\ Effective(c, "replay_cache_window_seconds") # 0
    /\ Effective(c, "replay_cache_max_entries") # 0
    /\ Effective(c, "auth_skew_seconds") \in 1..MAX_AUTH_SKEW_SECONDS
    /\ Effective(c, "idle_timeout_seconds") <= MAX_NEGOTIATED_IDLE_TIMEOUT_SECONDS
    /\ ReplayCacheCovers(c)
    /\ Effective(c, "relay_buffer_size") \in 1024..(1024 * 1024)
    /\ ValidQuicWindows(c)
    /\ ValidRateLimits(c)

(* reload_static_limits: every limit but the skew, which is part of the    *)
(* security generation.                                                    *)
reload_static_limitsMutant ==
    (DOMAIN Defaults \cup {"max_handshakes", "max_udp_flows"}) \ {"auth_skew_seconds", "max_streams"}
reload_static_limits ==
    (DOMAIN Defaults \cup {"max_handshakes", "max_udp_flows"}) \ {"auth_skew_seconds"}

ensure_reload_compatible(current, candidate) ==
    \A name \in reload_static_limits : Effective(current, name) = Effective(candidate, name)

-----------------------------------------------------------------------------
(* SETTINGS *)

MaxFrameSize == 1
MaxStreams == 2
MaxUdpFlows == 3
SupportsUdpDatagram == 4
SupportsUdpStreamFallback == 5
IdleTimeoutSeconds == 6
ProtocolRevision == 7
SettingKeys == 1..7

Flag(b) == IF b THEN 1 ELSE 0

(* server_settings, encoded in the order of the keys *)
server_settings(c, supports_udp_datagram) ==
    << <<MaxFrameSize, Effective(c, "max_frame_size")>>,
       <<MaxStreams, Effective(c, "max_streams")>>,
       <<MaxUdpFlows, Effective(c, "max_udp_flows")>>,
       <<SupportsUdpDatagram, Flag(supports_udp_datagram /\ Effective(c, "max_udp_flows") # 0)>>,
       <<SupportsUdpStreamFallback, Flag(Effective(c, "max_udp_flows") # 0)>>,
       <<IdleTimeoutSeconds, Effective(c, "idle_timeout_seconds")>>,
       <<ProtocolRevision, PROTOCOL_REVISION_V1_0>> >>

Places(pairs, key) == {i \in DOMAIN pairs : pairs[i][1] = key}

(* Settings::decode: unknown keys are skipped, a known one may come once. *)
decodes(pairs) == \A key \in SettingKeys : Cardinality(Places(pairs, key)) <= 1

get(pairs, key, default) ==
    IF Places(pairs, key) = {} THEN default
    ELSE pairs[CHOOSE i \in Places(pairs, key) : TRUE][2]

Refusal == [ok |-> FALSE, refused |-> TRUE]

(* negotiated_v1_0 *)
negotiated_v1_0(pairs) ==
    LET streams == get(pairs, MaxStreams, DEFAULT_MAX_STREAMS)
        udp == get(pairs, MaxUdpFlows, streams)
        frame == get(pairs, MaxFrameSize, DEFAULT_MAX_FRAME_SIZE)
        idle == get(pairs, IdleTimeoutSeconds, 0)
    IN  IF /\ get(pairs, ProtocolRevision, 0) = PROTOCOL_REVISION_V1_0
           /\ frame \in MIN_RELAY_FRAME_SIZE..MAX_FRAME_PAYLOAD_SIZE
           /\ streams \in 1..MAX_NEGOTIATED_FLOWS
           /\ udp \in 0..MAX_NEGOTIATED_FLOWS /\ udp <= streams
           /\ idle <= MAX_NEGOTIATED_IDLE_TIMEOUT_SECONDS
           /\ \A key \in {SupportsUdpDatagram, SupportsUdpStreamFallback} : get(pairs, key, 0) <= 1
        THEN [ok |-> TRUE, max_frame_size |-> frame, max_streams |-> streams, max_udp_flows |-> udp,
              supports_udp_datagram |-> get(pairs, SupportsUdpDatagram, 0) # 0,
              supports_udp_stream_fallback |-> get(pairs, SupportsUdpStreamFallback, 1) # 0,
              idle_timeout_seconds |-> idle]
        ELSE Refusal

(* tcp_data_frame_size, the same at both ends *)
tcp_data_frame_size(frame, buffer) == IF frame < buffer THEN frame ELSE buffer

(* keepalive_interval of the client, in ticks (milliseconds in the code,   *)
(* which overflow TLC's integers); 0 for none                              *)
TICKS_PER_SECOND == 4
keepalive_interval(idle) ==
    LET half == (idle * TICKS_PER_SECOND) \div 2
    IN  IF idle = 0 THEN 0 ELSE IF half = 0 THEN 1 ELSE half

NoSession == [ok |-> FALSE, refused |-> FALSE]

NegotiationInit ==
    /\ boot \in Configs /\ config = boot /\ relay \in Relays
    /\ server = "loading" /\ wire = <<>> /\ client = NoSession

(* start-up: check_config refuses the file, or the listener runs with it *)
Start ==
    /\ server = "loading"
    /\ server' = IF validate_limits(config) THEN "running" ELSE "refused"
    /\ UNCHANGED <<boot, config, wire, client, relay>>

(* apply_security_reload, as far as the limits go *)
Reload ==
    /\ server = "running"
    /\ \E candidate \in Configs :
          /\ candidate # config
          /\ ensure_reload_compatible(config, candidate) /\ validate_limits(candidate)
          /\ config' = candidate
    /\ UNCHANGED <<boot, server, wire, client, relay>>

(* A server of a later revision adds keys of its own; a broken one repeats  *)
(* a key.                                                                   *)
SendSettings ==
    /\ server = "running" /\ wire = <<>>
    /\ \E datagram \in BOOLEAN :
          LET pairs == server_settings(config, datagram)
          IN  wire' \in {pairs} \cup {<< <<key, 1>> >> \o pairs : key \in UnknownKeys}
    /\ UNCHANGED <<boot, config, server, client, relay>>

RepeatKey ==
    /\ wire # <<>> /\ client = NoSession /\ Len(wire) = 7
    /\ \E i \in 1..6 : wire' = Append(wire, <<wire[i][1], 1>>)
    /\ UNCHANGED <<boot, config, server, client, relay>>

(* decode_server_settings_frame *)
ReceiveSettings ==
    /\ wire # <<>> /\ client = NoSession
    /\ client' = IF decodes(wire) THEN negotiated_v1_0(wire) ELSE Refusal
    /\ UNCHANGED <<boot, config, server, wire, relay>>

NegotiationNext == Start \/ Reload \/ SendSettings \/ RepeatKey \/ ReceiveSettings

-----------------------------------------------------------------------------
(* A configuration that validate_limits accepts always yields settings that *)
(* a client can negotiate, whatever keys a later revision adds.             *)
ValidConfigNegotiates ==
    server = "running" /\ client # NoSession /\ decodes(wire) => client.ok

(* The client's idea of the limits is the server's: sessions of a listener  *)
(* that was reloaded included, and whatever else the payload carried.       *)
LimitsAgree ==
    client.ok =>
        /\ client.max_streams = Effective(boot, "max_streams")
        /\ client.max_udp_flows = Effective(boot, "max_udp_flows")
        /\ client.max_frame_size = Effective(boot, "max_frame_size")
        /\ client.idle_timeout_seconds = Effective(boot, "idle_timeout_seconds")
        /\ client.max_udp_flows = 0 =>
              ~client.supports_udp_datagram /\ ~client.supports_udp_stream_fallback

(* Whatever a relay reads into its buffer fits a frame its peer accepts, in *)
(* both directions, and is never an empty read.                             *)
ChunksFit ==
    client.ok =>
        /\ tcp_data_frame_size(client.max_frame_size, relay) \in 1..Effective(boot, "max_frame_size")
        /\ tcp_data_frame_size(Effective(boot, "max_frame_size"), Effective(boot, "relay_buffer_size"))
              \in 1..client.max_frame_size

(* The replay cache is sized once, at start-up; the skew changes with every *)
(* reload.  The cache still covers twice the skew in force.                 *)
ReplayCoversSkew ==
    server = "running" =>
        Effective(boot, "replay_cache_window_seconds") >= 2 * Effective(config, "auth_skew_seconds")

(* A client that has nothing to send still pings before the server's idle   *)
(* timeout.                                                                 *)
KeepaliveBeatsIdle ==
    client.ok /\ client.idle_timeout_seconds # 0 =>
        keepalive_interval(client.idle_timeout_seconds) \in
            1..(Effective(boot, "idle_timeout_seconds") * TICKS_PER_SECOND - 1)
=============================================================================

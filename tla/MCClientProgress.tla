-------------------------- MODULE MCClientProgress --------------------------
(* Liveness of the client's components, in small instances; the variables and *)
(* constants of the session manager are those of ClientPool itself.           *)
(* A behaviour explores ONE component: `part`, chosen in the initial state,  *)
(* says which, and the variables of the others keep their initial values.  So *)
(* the state spaces of the components add up and do not multiply, and one run *)
(* checks each of them as if it were alone.                                   *)
EXTENDS ClientPool, MCValues

VARIABLE part    \* the component that this behaviour explores

-----------------------------------------------------------------------------
\* The flow table: a TCP and a UDP flow.
VARIABLES tab_stage, tab_flows, tab_permits, tab_inbox, tab_draining, tab_closed,
          tab_clearing, tab_checks, tab_metric_state, tab_active_sessions,
          tab_draining_sessions, tab_opens

tabVars == <<tab_stage, tab_flows, tab_permits, tab_inbox, tab_draining, tab_closed,
             tab_clearing, tab_checks, tab_metric_state, tab_active_sessions,
             tab_draining_sessions, tab_opens>>

Table == INSTANCE ClientFlows WITH
    Flows <- {"t1", "u1"}, UdpFlows <- {"u1"}, max_streams <- 1, max_udp_flows <- 1,
    MaxOpens <- 3, stage <- tab_stage, flows <- tab_flows, permits <- tab_permits,
    inbox <- tab_inbox, draining <- tab_draining, closed <- tab_closed,
    clearing <- tab_clearing, checks <- tab_checks,
    metric_state <- tab_metric_state, active_sessions <- tab_active_sessions,
    draining_sessions <- tab_draining_sessions, opens <- tab_opens

-----------------------------------------------------------------------------
\* Keepalive: three pings.
VARIABLES ping_ka, ping_nonce, ping_outstanding_ping_nonce, ping_last_pong_nonce,
          ping_echoes, ping_pings, ping_listening, ping_notified,
          ping_has_open_flows, ping_health_session, ping_sessionClosed, ping_silent

pingVars == <<ping_ka, ping_nonce, ping_outstanding_ping_nonce, ping_last_pong_nonce,
             ping_echoes, ping_pings, ping_listening, ping_notified,
             ping_has_open_flows, ping_health_session, ping_sessionClosed,
             ping_silent>>

Ping == INSTANCE Keepalive WITH
    MaxPings <- 3, ka <- ping_ka, nonce <- ping_nonce,
    outstanding_ping_nonce <- ping_outstanding_ping_nonce,
    last_pong_nonce <- ping_last_pong_nonce, echoes <- ping_echoes,
    pings <- ping_pings, listening <- ping_listening, notified <- ping_notified,
    has_open_flows <- ping_has_open_flows, health_session <- ping_health_session,
    sessionClosed <- ping_sessionClosed, silent <- ping_silent

-----------------------------------------------------------------------------
\* One TCP relay.
VARIABLES tcp_state, tcp_step, tcp_app, tcp_pending, tcp_sent, tcp_closeSent,
          tcp_frames, tcp_srv, tcp_written, tcp_fin, tcp_up, tcp_down, tcp_shutdown,
          tcp_truncated, tcp_outcome

tcpVars == <<tcp_state, tcp_step, tcp_app, tcp_pending, tcp_sent, tcp_closeSent,
             tcp_frames, tcp_srv, tcp_written, tcp_fin, tcp_up, tcp_down,
             tcp_shutdown, tcp_truncated, tcp_outcome>>

Relay == INSTANCE ClientTcpRelay WITH
    MaxUp <- 2, MaxDown <- 2, max_pending_open <- 1, PullLimit <- 2,
    state <- tcp_state, step <- tcp_step, app <- tcp_app, pending <- tcp_pending,
    sent <- tcp_sent, closeSent <- tcp_closeSent, frames <- tcp_frames,
    srv <- tcp_srv, written <- tcp_written, fin <- tcp_fin, up <- tcp_up,
    down <- tcp_down, shutdown <- tcp_shutdown, truncated <- tcp_truncated,
    outcome <- tcp_outcome

-----------------------------------------------------------------------------
\* One UDP association, two flows.
VARIABLES udp_association, udp_learned, udp_sender, udp_worker, udp_queue,
          udp_attempt, udp_current, udp_opened, udp_routes, udp_dead, udp_relays,
          udp_ended, udp_offered

udpVars == <<udp_association, udp_learned, udp_sender, udp_worker, udp_queue,
             udp_attempt, udp_current, udp_opened, udp_routes, udp_dead, udp_relays,
             udp_ended, udp_offered>>

Assoc == INSTANCE UdpAssociation WITH
    Peers <- {"client", "other", "stranger"}, matches_requested <- FitsRequest,
    Unknown <- NONE, UDP_TARGET_QUEUE_CAPACITY <- 2, UDP_SEND_ATTEMPTS <- 2,
    MaxFlows <- 2, association <- udp_association, learned <- udp_learned,
    sender <- udp_sender, worker <- udp_worker, queue <- udp_queue,
    attempt <- udp_attempt, current <- udp_current, opened <- udp_opened,
    routes <- udp_routes, dead <- udp_dead, relays <- udp_relays,
    ended <- udp_ended, offered <- udp_offered

-----------------------------------------------------------------------------
\* Session establishment.
VARIABLES est_generation, est_DEGRADED_EPOCH, est_reloading, est_penalties,
          est_stage, est_conn, est_connects

estVars == <<est_generation, est_DEGRADED_EPOCH, est_reloading, est_penalties,
             est_stage, est_conn, est_connects>>

Connect == INSTANCE Establishment WITH
    Endpoints <- TheEndpoints, ConfigOf <- TheConfig, Addresses <- 2, Budget <- 3,
    MIN_QUIC_PER_ADDRESS_ATTEMPT <- 1, DEGRADED_COOLDOWN <- 5, MaxReloads <- 1,
    MaxConnects <- 1, generation <- est_generation,
    DEGRADED_EPOCH <- est_DEGRADED_EPOCH, reloading <- est_reloading,
    penalties <- est_penalties, stage <- est_stage, conn <- est_conn,
    connects <- est_connects

-----------------------------------------------------------------------------
\* Every component starts in an initial state of its own; those with several
\* start in any of them when they are the one explored.
ProgressInit ==
    /\ part \in {"pool", "tab", "ping", "tcp", "udp", "est"}
    /\ PoolInit
    /\ Table!FlowsInit
    /\ Ping!KeepaliveInit
    /\ part # "ping" => ping_has_open_flows /\ ping_health_session
    /\ Relay!TcpInit
    /\ Assoc!UdpInit
    /\ Connect!EstInit

\* The variables of the components that are not explored stay as they are.
PoolStep ==
    /\ part = "pool" /\ PoolNext
    /\ UNCHANGED <<part, tabVars, pingVars, tcpVars, udpVars, estVars>>

TableStep ==
    /\ part = "tab" /\ Table!FlowsNext
    /\ UNCHANGED <<part, poolVars, pingVars, tcpVars, udpVars, estVars>>

PingStep ==
    /\ part = "ping" /\ Ping!KeepaliveNext
    /\ UNCHANGED <<part, poolVars, tabVars, tcpVars, udpVars, estVars>>

RelayStep ==
    /\ part = "tcp" /\ Relay!TcpNext
    /\ UNCHANGED <<part, poolVars, tabVars, pingVars, udpVars, estVars>>

AssocStep ==
    /\ part = "udp" /\ Assoc!UdpNext
    /\ UNCHANGED <<part, poolVars, tabVars, pingVars, tcpVars, estVars>>

ConnectStep ==
    /\ part = "est" /\ Connect!EstNext
    /\ UNCHANGED <<part, poolVars, tabVars, pingVars, tcpVars, udpVars>>

ProgressVars == <<part, poolVars, tabVars, pingVars, tcpVars, udpVars, estVars>>

ProgressNext ==
    \/ PoolStep \/ TableStep \/ PingStep \/ RelayStep \/ AssocStep
    \/ ConnectStep

\* The variables of the component that is explored.
Explored ==
    CASE part = "pool" -> poolVars
      [] part = "tab" -> tabVars
      [] part = "ping" -> pingVars
      [] part = "tcp" -> tcpVars
      [] part = "udp" -> udpVars
      [] part = "est" -> estVars

\* What is treated fairly, component by component (the Fairness of each
\* module).  A behaviour stays in one component, so conditions of different
\* components can share a formula: its disjuncts are never enabled together.
FirstTask ==
    /\ UNCHANGED part
    /\ \/ part = "pool" /\ ListenerStep
       \/ part = "tab" /\ (Table!close_if_drained \/ Table!ClearTable)
       \/ part = "ping" /\ Ping!KeepaliveTask
       \/ part = "tcp" /\ Relay!RelayTask
       \/ part = "udp" /\ Assoc!WorkerStep
       \/ part = "est" /\ Connect!Tick

SecondTask ==
    /\ UNCHANGED part
    /\ \/ part = "pool" /\ Driven("c1")
       \/ part = "tab" /\ Table!FlowDriven("t1")
       \/ part = "udp" /\ (Assoc!JoinWorkers \/ Assoc!AbortWorkers)
       \/ part = "est" /\ Connect!Driven

ThirdTask ==
    /\ UNCHANGED part
    /\ \/ part = "pool" /\ Driven("maintainer")
       \/ part = "tab" /\ Table!FlowDriven("u1")

FourthTask ==
    /\ UNCHANGED part
    /\ part = "pool" /\ CooldownPasses

FifthTask ==
    /\ UNCHANGED part
    /\ part = "pool" /\ (\E s \in 1..2 : Reap(s))

LockWaiter ==
    /\ UNCHANGED part
    /\ part = "pool" /\ (\E t \in {"c1", "maintainer"} :
           remember_connect_failure(t) \/ BeginPublish(t))

ProgressFairness ==
    /\ WF_Explored(FirstTask)
    /\ WF_Explored(SecondTask)
    /\ WF_Explored(ThirdTask)
    /\ WF_Explored(FourthTask)
    /\ WF_Explored(FifthTask)
    /\ SF_Explored(LockWaiter)

ProgressSpec == ProgressInit /\ [][ProgressNext]_ProgressVars /\ ProgressFairness

-----------------------------------------------------------------------------
\* Every request of an application ends: its admission with a flow, a refusal
\* or an error, although reloads and dead sessions intervene; its open with a
\* relay or a permit returned; the connect behind it within its timeouts; its
\* datagram with a worker that takes it.
RequestsEnd ==
    /\ AdmissionEnds
    /\ Table!OpenResolved
    /\ Connect!ConnectReturns
    /\ Assoc!DatagramTaken

\* Sessions end and come back as they should: a stop closes every session
\* that is not draining, a draining one closes once its flows have ended, one
\* whose peer is dead is closed by the keepalive, and the maintainer restores
\* a lost carrier without any traffic.
SessionsEnd ==
    /\ ShutdownClosesAll
    /\ (part = "pool" => CarrierRestored)
    /\ Table!DrainCompletes
    /\ Ping!DeadPeerCloses

\* A relay told to stop ends whatever the application and the server do, and
\* so does one whose two ends have both finished (relay_tcp).
RelaysEnd ==
    /\ Relay!RelayStops
    /\ Relay!BothEndsFinish

=============================================================================

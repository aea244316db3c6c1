-------------------------- MODULE ServerAdmission --------------------------
(***************************************************************************)
(* From accept to relay in uk-server: the accept loop and its shutdown     *)
(* (lib.rs), the admission checks, the masking gate (masking.rs), the      *)
(* handshake and session permits, the metric guards (observability.rs).    *)
(*                                                                         *)
(* A connection is a task; between two awaits it runs undisturbed.  The    *)
(* verdict of the rate limiter, of the prelude check and of the handshake  *)
(* are inputs here: RateLimiter, MaskGate and Authentication model them.   *)
(***************************************************************************)
EXTENDS Integers, FiniteSets, FiniteSetsExt

CONSTANTS
    TcpConns,          \* connections that arrive on the TCP listener
    QuicConns,         \* connections that arrive on the QUIC endpoint
    MaxSessions,       \* max_sessions
    MaxHandshakes,     \* max_handshakes
    Masking,           \* the [masking] section: "absent", "off" (enabled = false) or "on"
    HandshakeTimeout,  \* handshake_timeout_seconds # 0
    ShutdownTimeout    \* shutdown_timeout_seconds # 0

ASSUME LimitsAssumption == MaxSessions \in Nat /\ MaxHandshakes \in Nat
ASSUME ConnsAssumption == TcpConns \cap QuicConns = {}

Conns == TcpConns \union QuicConns

VARIABLES
    loop,      \* accept loop: "accept", "sleep", "drain", "abort" or "closed"
    failures,  \* ListenerAcceptBackoff::consecutive_failures, up to the last step of the delay
    shutdown,  \* the shutdown watch
    ready,     \* ServerMetrics::ready
    pc,        \* connection -> where its task is
    valid,     \* QUIC connections whose source address is validated
    hsFree,    \* free handshake permits
    ssFree,    \* free session permits
    hsHeld,    \* connections that hold a handshake permit
    ssHeld,    \* connections that hold a session permit
    hsGauge,   \* ServerMetrics::active_handshakes
    ssGauge,   \* ServerMetrics::active_sessions
    told       \* connection -> verdict reported to the rate limiter

vars == <<loop, failures, shutdown, ready, pc, valid, hsFree, ssFree, hsHeld,
          ssHeld, hsGauge, ssGauge, told>>

permitVars == <<hsFree, ssFree, hsHeld, ssHeld, hsGauge, ssGauge>>
loopVars == <<loop, failures, shutdown, ready>>

\* Where a task can be: not yet arrived, spawned, in the gate, drained after
\* a rejection, in the handshake, writing SETTINGS, relaying, refusing a
\* session over the limit, ended, joined by the loop.
Places == {"new", "spawned", "gate", "discard", "handshake", "settings", "relay",
           "refuse", "ended", "joined"}
Running == Places \ {"new", "ended", "joined"}

\* HandshakeFailureReason
Reasons == {"Tls", "Timeout", "Auth", "Protocol", "Io", "Other"}

Init ==
    /\ loop = "accept"
    /\ failures = 0
    /\ shutdown = FALSE
    /\ ready = TRUE
    /\ pc = [c \in Conns |-> "new"]
    /\ valid = {}
    /\ hsFree = MaxHandshakes /\ ssFree = MaxSessions
    /\ hsHeld = {} /\ ssHeld = {}
    /\ hsGauge = 0 /\ ssGauge = 0
    /\ told = [c \in Conns |-> "nothing"]

Go(c, place) == pc' = [pc EXCEPT ![c] = place]

EndTaskMutant(c) ==
    /\ Go(c, "ended")
    /\ hsFree' = hsFree + (IF c \in hsHeld THEN 1 ELSE 0)
    /\ hsHeld' = hsHeld \ {c}
    /\ ssHeld' = ssHeld \ {c}
    /\ hsGauge' = hsGauge - (IF pc[c] = "handshake" THEN 1 ELSE 0)
    /\ ssGauge' = ssGauge - (IF c \in ssHeld THEN 1 ELSE 0)
    /\ UNCHANGED ssFree

\* A task returns, or is dropped by an abort: its permits and metric guards
\* are dropped with it.
EndTask(c) ==
    /\ Go(c, "ended")
    /\ hsFree' = hsFree + (IF c \in hsHeld THEN 1 ELSE 0)
    /\ ssFree' = ssFree + (IF c \in ssHeld THEN 1 ELSE 0)
    /\ hsHeld' = hsHeld \ {c}
    /\ ssHeld' = ssHeld \ {c}
    /\ hsGauge' = hsGauge - (IF pc[c] = "handshake" THEN 1 ELSE 0)
    /\ ssGauge' = ssGauge - (IF c \in ssHeld THEN 1 ELSE 0)

-----------------------------------------------------------------------------
(* The accept loop.                                                        *)

\* admit_precheck: the rate limiter's verdict, then whether a session
\* permit is free now.  The permit is not taken here.
admit_precheck(limited) == ~limited /\ ssFree > 0

\* spawn_accepted: a refused TCP connection is dropped at once.
AcceptTcp(c) ==
    /\ loop = "accept" /\ pc[c] = "new"
    /\ failures' = 0
    /\ \E limited \in BOOLEAN :
         Go(c, IF admit_precheck(limited) THEN "spawned" ELSE "joined")
    /\ UNCHANGED <<loop, shutdown, ready, valid, permitVars, told>>

\* spawn_accepted_quic: an unvalidated address is answered with a Retry and
\* comes back; then the checks, and the handshake permit.
AcceptQuic(c) ==
    /\ loop = "accept" /\ pc[c] = "new"
    /\ IF c \notin valid
       THEN valid' = valid \union {c} /\ UNCHANGED <<pc, hsFree, hsHeld>>
       ELSE /\ UNCHANGED valid
            /\ \E limited \in BOOLEAN :
                 IF admit_precheck(limited) /\ hsFree > 0
                 THEN Go(c, "spawned") /\ hsFree' = hsFree - 1 /\ hsHeld' = hsHeld \union {c}
                 ELSE Go(c, "joined") /\ UNCHANGED <<hsFree, hsHeld>>
    /\ UNCHANGED <<loopVars, ssFree, ssHeld, hsGauge, ssGauge, told>>

ACCEPT_RETRY_BASE_MILLIS == 10
ACCEPT_RETRY_MAX_MILLIS == 1000

\* ListenerAcceptBackoff::next_delay: the base doubled per failure, the shift
\* capped at 7, the delay at its maximum.
next_delay(n) == Min({ACCEPT_RETRY_BASE_MILLIS * 2 ^ Min({n, 7}), ACCEPT_RETRY_MAX_MILLIS})

\* accept() failed: the loop sleeps inside the select arm, so it sees
\* neither the shutdown nor a connection meanwhile.
AcceptError ==
    /\ loop = "accept"
    /\ loop' = "sleep"
    /\ failures' = Min({failures + 1, 8})
    /\ UNCHANGED <<shutdown, ready, pc, valid, permitVars, told>>

WakeUp ==
    /\ loop = "sleep"
    /\ loop' = "accept"
    /\ UNCHANGED <<failures, shutdown, ready, pc, valid, permitVars, told>>

JoinMutant(c) ==
    /\ loop = "accept"
    /\ pc[c] = "ended"
    /\ Go(c, "joined")
    /\ UNCHANGED <<loopVars, valid, permitVars, told>>

\* join_next, in the select and in the drain.
Join(c) ==
    /\ loop \in {"accept", "drain", "abort"}
    /\ pc[c] = "ended"
    /\ Go(c, "joined")
    /\ UNCHANGED <<loopVars, valid, permitVars, told>>

\* The shutdown future resolved: not ready, then the watch, then the drain.
begin_server_shutdown ==
    /\ loop = "accept"
    /\ loop' = "drain"
    /\ ready' = FALSE
    /\ shutdown' = TRUE
    /\ UNCHANGED <<failures, pc, valid, permitVars, told>>

\* drain_connection_tasks: past the deadline every task is aborted.  With
\* shutdown_timeout_seconds = 0 there is no deadline.
DrainDeadline ==
    /\ loop = "drain" /\ ShutdownTimeout
    /\ \E c \in Conns : pc[c] \in Running
    /\ loop' = "abort"
    /\ UNCHANGED <<failures, shutdown, ready, pc, valid, permitVars, told>>

\* An aborted task is dropped at its await.
Abort(c) ==
    /\ loop = "abort" /\ pc[c] \in Running
    /\ EndTask(c)
    /\ UNCHANGED <<loopVars, valid, told>>

\* Every task is joined: the QUIC endpoint is closed, observability stops,
\* run_on_listener_inner returns.
Close ==
    /\ loop \in {"drain", "abort"}
    /\ \A c \in Conns : pc[c] \in {"new", "joined"}
    /\ loop' = "closed"
    /\ UNCHANGED <<failures, shutdown, ready, pc, valid, permitVars, told>>

-----------------------------------------------------------------------------
(* A connection task.                                                      *)

\* build_masking_state: the gate exists when the section does.
Gated == Masking # "absent"

\* acquire_handshake_permit and the start of serve_authenticated_carrier:
\* with a permit the handshake begins under its metric guard.
EnterHandshake(c) ==
    IF c \in hsHeld
    THEN /\ Go(c, "handshake") /\ hsGauge' = hsGauge + 1
         /\ UNCHANGED <<hsFree, ssFree, hsHeld, ssHeld, ssGauge>>
    ELSE IF hsFree > 0
    THEN /\ Go(c, "handshake") /\ hsGauge' = hsGauge + 1
         /\ hsFree' = hsFree - 1 /\ hsHeld' = hsHeld \union {c}
         /\ UNCHANGED <<ssFree, ssHeld, ssGauge>>
    ELSE EndTask(c)

\* handle_connection and handle_quic_connection up to their first await.
Start(c) ==
    /\ pc[c] = "spawned"
    /\ IF shutdown THEN EndTask(c)
       ELSE IF c \in TcpConns /\ Gated THEN Go(c, "gate") /\ UNCHANGED permitVars
       ELSE EnterHandshake(c)
    /\ UNCHANGED <<loopVars, valid, told>>

\* MaskingState::admit accepted the prelude: only now the handshake permit.
GatePass(c) ==
    /\ pc[c] = "gate"
    /\ EnterHandshake(c)
    /\ UNCHANGED <<loopVars, valid, told>>

\* MaskingState::reject: the failure is reported to the limiter; a prelude
\* that was read is followed by the silent drain, one that was not is
\* dropped at once.  The read is bounded by the admission timeout, not by
\* the shutdown.
GateReject(c) ==
    /\ pc[c] = "gate"
    /\ told' = [told EXCEPT ![c] = "failure"]
    /\ \/ Go(c, "discard") /\ UNCHANGED permitVars
       \/ EndTask(c)
    /\ UNCHANGED <<loopVars, valid>>

\* silent_drain ends: end of stream, read budget, deadline or shutdown.
DiscardEnds(c) ==
    /\ pc[c] = "discard"
    /\ EndTask(c)
    /\ UNCHANGED <<loopVars, valid, told>>

HandshakeOkMutant(c) ==
    /\ pc[c] = "handshake"
    /\ told' = [told EXCEPT ![c] = "success"]
    /\ IF ssFree > 0
       THEN /\ Go(c, "settings")
            /\ hsFree' = hsFree + 1 /\ hsHeld' = hsHeld \ {c} /\ hsGauge' = hsGauge - 1
            /\ ssFree' = ssFree - 1 /\ ssHeld' = ssHeld \union {c} /\ ssGauge' = ssGauge + 1
       ELSE /\ Go(c, "refuse")
            /\ hsFree' = hsFree + 1 /\ hsHeld' = hsHeld \ {c} /\ hsGauge' = hsGauge - 1
            /\ UNCHANGED <<ssFree, ssHeld, ssGauge>>
    /\ UNCHANGED <<loopVars, valid>>

\* The handshake authenticated the peer: success is reported, guard and
\* handshake permit are dropped, the shutdown is looked at, and the session
\* permit is taken or the session refused.
HandshakeOk(c) ==
    /\ pc[c] = "handshake"
    /\ told' = [told EXCEPT ![c] = "success"]
    /\ IF shutdown THEN EndTask(c)
       ELSE /\ hsFree' = hsFree + 1 /\ hsHeld' = hsHeld \ {c} /\ hsGauge' = hsGauge - 1
            /\ IF ssFree > 0
               THEN /\ Go(c, "settings")
                    /\ ssFree' = ssFree - 1 /\ ssHeld' = ssHeld \union {c}
                    /\ ssGauge' = ssGauge + 1
               ELSE Go(c, "refuse") /\ UNCHANGED <<ssFree, ssHeld, ssGauge>>
    /\ UNCHANGED <<loopVars, valid>>

\* The handshake failed; only an authentication failure counts against the
\* source.  "Timeout" needs a configured handshake timeout.
HandshakeFailed(c, reason) ==
    /\ pc[c] = "handshake"
    /\ reason = "Timeout" => HandshakeTimeout
    /\ told' = IF reason = "Auth" THEN [told EXCEPT ![c] = "failure"] ELSE told
    /\ EndTask(c)
    /\ UNCHANGED <<loopVars, valid>>

\* The shutdown wins the race against the handshake.
HandshakeCut(c) ==
    /\ pc[c] = "handshake" /\ shutdown
    /\ EndTask(c)
    /\ UNCHANGED <<loopVars, valid, told>>

\* reject_over_limit_session: written, timed out or cut by the shutdown.
RefuseEnds(c) ==
    /\ pc[c] = "refuse"
    /\ EndTask(c)
    /\ UNCHANGED <<loopVars, valid, told>>

\* SETTINGS were written: relay_session runs.  The select may take this
\* branch although the shutdown is set.
SettingsWritten(c) ==
    /\ pc[c] = "settings"
    /\ Go(c, "relay")
    /\ UNCHANGED <<loopVars, valid, permitVars, told>>

\* Writing SETTINGS failed, timed out or was cut by the shutdown.
SettingsFailed(c) ==
    /\ pc[c] = "settings"
    /\ EndTask(c)
    /\ UNCHANGED <<loopVars, valid, told>>

\* relay_session returned (ServerSession).
RelayEnds(c) ==
    /\ pc[c] = "relay"
    /\ EndTask(c)
    /\ UNCHANGED <<loopVars, valid, told>>

-----------------------------------------------------------------------------
\* What a task does next.
TaskStep(c) ==
    \/ Start(c) \/ GatePass(c) \/ GateReject(c) \/ DiscardEnds(c)
    \/ HandshakeOk(c) \/ \E r \in Reasons : HandshakeFailed(c, r)
    \/ HandshakeCut(c) \/ RefuseEnds(c) \/ SettingsWritten(c) \/ SettingsFailed(c)
    \/ RelayEnds(c)

Next ==
    \/ \E c \in TcpConns : AcceptTcp(c)
    \/ \E c \in QuicConns : AcceptQuic(c)
    \/ AcceptError \/ WakeUp \/ begin_server_shutdown \/ DrainDeadline \/ Close
    \/ \E c \in Conns : Join(c) \/ Abort(c) \/ TaskStep(c)

\* What moves a task without its peer.  A task that waits for its peer moves
\* only because of a timer or the shutdown: the gate by the admission
\* timeout, the drain by its deadline, the handshake by its timeout (if one
\* is configured) or the shutdown, the two writes by theirs, the relay by
\* the shutdown (the StopCompletes property of ServerSession).
Driven(c) ==
    \/ Join(c) \/ Abort(c) \/ Start(c) \/ GatePass(c) \/ GateReject(c) \/ DiscardEnds(c)
    \/ HandshakeCut(c) \/ HandshakeFailed(c, "Timeout") \/ RefuseEnds(c)
    \/ SettingsWritten(c) \/ SettingsFailed(c)
    \/ shutdown /\ RelayEnds(c)

\* The runtime polls the loop and the tasks.
Fairness == WF_vars(WakeUp \/ Close) /\ \A c \in Conns : WF_vars(Driven(c))

Spec == Init /\ [][Next]_vars /\ Fairness

-----------------------------------------------------------------------------
(* Properties.                                                             *)

\* The state is well formed.
TypeOK ==
    /\ loop \in {"accept", "sleep", "drain", "abort", "closed"}
    /\ failures \in 0 .. 8
    /\ next_delay(failures) \in ACCEPT_RETRY_BASE_MILLIS .. ACCEPT_RETRY_MAX_MILLIS
    /\ shutdown \in BOOLEAN /\ ready \in BOOLEAN
    /\ pc \in [Conns -> Places]
    /\ valid \subseteq QuicConns
    /\ hsFree \in 0 .. MaxHandshakes /\ ssFree \in 0 .. MaxSessions
    /\ hsHeld \subseteq Conns /\ ssHeld \subseteq Conns
    /\ told \in [Conns -> {"nothing", "success", "failure"}]

\* No permit is lost or made on any way out of the task (returns, errors,
\* shutdown, abort): what is free and what running tasks hold add up to the
\* two limits.
PermitsConserved ==
    /\ hsFree + Cardinality(hsHeld) = MaxHandshakes
    /\ ssFree + Cardinality(ssHeld) = MaxSessions
    /\ \A c \in hsHeld \union ssHeld : pc[c] \in Running

\* The gauges tell the truth: active_handshakes counts the tasks inside the
\* handshake, active_sessions those that hold a session permit
\* (ActiveMetricGuard).
GaugesExact ==
    /\ hsGauge = Cardinality({c \in Conns : pc[c] = "handshake"})
    /\ ssGauge = Cardinality(ssHeld)

\* Relaying or writing SETTINGS needs a session permit and a verified peer,
\* a handshake needs a handshake permit.
ServedHoldPermit ==
    \A c \in Conns :
        /\ pc[c] \in {"settings", "relay"} => c \in ssHeld /\ told[c] = "success"
        /\ pc[c] = "handshake" => c \in hsHeld

\* Connections in the gate or being drained hold no handshake budget, so
\* probes cannot use it up (spawn_accepted, handle_connection).
GateHoldsNoPermit == \A c \in Conns : pc[c] \in {"gate", "discard"} => c \notin hsHeld

\* Nothing bounded leaks: the free and the held handshake and session permits
\* add up to their limits on every way out of a task, nobody is served without
\* one, a connection in the masking gate holds none, and the gauges count who
\* holds them (ActiveMetricGuard).
AdmissionExact ==
    /\ TypeOK /\ PermitsConserved /\ GaugesExact
    /\ ServedHoldPermit /\ GateHoldsNoPermit

\* No session starts once the shutdown is announced: the flag is read after
\* the handshake and before the session permit is taken
\* (serve_authenticated_carrier).
NoSessionAfterShutdown ==
    [][\A c \in Conns : c \in ssHeld' \ ssHeld => ~shutdown]_vars

\* Shutdown completes: with or without a shutdown deadline, whatever the peers
\* do, the loop closes, and then no connection task is left and the server is
\* not ready.
ShutdownCompletes ==
    shutdown ~> (loop = "closed" /\ ~ready /\ \A c \in Conns : pc[c] \in {"new", "joined"})

\* Nobody keeps a handshake permit for ever when a handshake timeout is
\* configured.
HandshakeEnds == \A c \in Conns : c \in hsHeld ~> c \notin hsHeld
=============================================================================

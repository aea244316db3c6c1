------------------------------ MODULE Keepalive ------------------------------
(* The client session's keepalive task (uk-client relay/carrier.rs           *)
(* spawn_keepalive, record_matching_pong; relay/session_manager.rs           *)
(* write_ping, record_pong, wait_for_pong).  The task numbers its pings, the *)
(* carrier's reader records the pong that matches the outstanding one and    *)
(* wakes the task, and a ping left unanswered for an interval closes the     *)
(* session.  The network may delay and repeat pongs.                         *)
EXTENDS Naturals, FiniteSets

CONSTANTS MaxPings      \* bound on the nonces explored

VARIABLES
    ka,             \* where the keepalive task is
    nonce,          \* of its latest ping; next_ping_nonce is the same counter
    outstanding_ping_nonce, last_pong_nonce,
    echoes,         \* nonces the peer has answered, deliverable at any time
    pings,          \* nonces that reached the peer
    listening, notified,    \* the Notified future and whether it has fired
    has_open_flows, health_session,
    sessionClosed, silent   \* silent: the peer answers no more pings

kaVars == <<ka, nonce, outstanding_ping_nonce, last_pong_nonce, echoes, pings, listening,
            notified, has_open_flows, health_session, sessionClosed, silent>>
peerVars == <<echoes, pings, silent>>
sessionVars == <<has_open_flows, health_session, sessionClosed>>

KeepaliveInit ==
    /\ ka = "sleep" /\ nonce = 0 /\ outstanding_ping_nonce = 0 /\ last_pong_nonce = 0
    /\ echoes = {} /\ pings = {} /\ listening = FALSE /\ notified = FALSE
    /\ has_open_flows \in BOOLEAN /\ health_session \in BOOLEAN
    /\ sessionClosed = FALSE /\ silent = FALSE

Waiting == {"subscribe", "check", "parked"}

clear_outstanding_ping ==
    outstanding_ping_nonce' = IF outstanding_ping_nonce = nonce THEN 0 ELSE outstanding_ping_nonce

(* The interval passes: an idle session that is not the health session is    *)
(* left alone, otherwise write_ping announces the next nonce.                *)
IntervalPasses ==
    /\ ka = "sleep" /\ ~sessionClosed
    /\ has_open_flows \/ health_session
    /\ nonce < MaxPings
    /\ nonce' = nonce + 1
    /\ outstanding_ping_nonce' = nonce + 1
    /\ ka' = "write"
    /\ UNCHANGED <<last_pong_nonce, peerVars, listening, notified, sessionVars>>

WritePing ==
    /\ ka = "write"
    /\ \/ /\ ~sessionClosed
          /\ pings' = pings \cup {nonce} /\ ka' = "subscribe"
          /\ UNCHANGED <<outstanding_ping_nonce, sessionClosed>>
       \/ /\ clear_outstanding_ping
          /\ sessionClosed' = TRUE /\ ka' = "end"
          /\ UNCHANGED pings
    /\ UNCHANGED <<nonce, last_pong_nonce, echoes, silent, listening, notified,
                   has_open_flows, health_session>>

SubscribeMutant ==
    /\ ka = "subscribe"
    /\ listening' = TRUE /\ notified' = FALSE
    /\ ka' = "parked"
    /\ UNCHANGED <<nonce, outstanding_ping_nonce, last_pong_nonce, peerVars, sessionVars>>

(* wait_for_pong registers for the notification before it looks. *)
Subscribe ==
    /\ ka = "subscribe"
    /\ listening' = TRUE /\ notified' = FALSE
    /\ ka' = "check"
    /\ UNCHANGED <<nonce, outstanding_ping_nonce, last_pong_nonce, peerVars, sessionVars>>

Look ==
    /\ ka = "check"
    /\ \/ /\ sessionClosed
          /\ ka' = "end" /\ clear_outstanding_ping /\ listening' = FALSE
       \/ /\ ~sessionClosed /\ last_pong_nonce = nonce
          /\ ka' = "sleep" /\ clear_outstanding_ping /\ listening' = FALSE
       \/ /\ ~sessionClosed /\ last_pong_nonce # nonce
          /\ ka' = "parked" /\ UNCHANGED <<outstanding_ping_nonce, listening>>
    /\ UNCHANGED <<nonce, last_pong_nonce, peerVars, notified, sessionVars>>

Wake ==
    /\ ka = "parked" /\ notified
    /\ ka' = "subscribe"
    /\ UNCHANGED <<nonce, outstanding_ping_nonce, last_pong_nonce, peerVars, listening,
                   notified, sessionVars>>

(* The interval runs out on a task that nothing has woken. *)
PongTimeout ==
    /\ ka = "parked" /\ ~notified
    /\ clear_outstanding_ping
    /\ sessionClosed' = TRUE /\ ka' = "end" /\ listening' = FALSE
    /\ UNCHANGED <<nonce, last_pong_nonce, peerVars, notified, has_open_flows, health_session>>

(* record_pong: only the pong of the outstanding ping counts. *)
record_matching_pong(n) ==
    IF outstanding_ping_nonce = 0 \/ n # outstanding_ping_nonce
    THEN UNCHANGED <<last_pong_nonce, notified>>
    ELSE /\ last_pong_nonce' = n
         /\ notified' = (notified \/ listening)

DeliverPong(n) ==
    /\ n \in echoes /\ ~sessionClosed
    /\ record_matching_pong(n)
    /\ UNCHANGED <<ka, nonce, outstanding_ping_nonce, peerVars, listening, sessionVars>>

PeerEchoes(n) ==
    /\ n \in pings /\ ~silent
    /\ echoes' = echoes \cup {n}
    /\ UNCHANGED <<ka, nonce, outstanding_ping_nonce, last_pong_nonce, pings, silent,
                   listening, notified, sessionVars>>

(* The peer falls silent and everything it sent has been delivered or lost.  *)
PeerDies ==
    /\ ~silent /\ silent' = TRUE /\ echoes' = {}
    /\ UNCHANGED <<ka, nonce, outstanding_ping_nonce, last_pong_nonce, pings, listening,
                   notified, sessionVars>>

(* Flows come and go; the maintainer may adopt the session. *)
SessionChanges ==
    /\ \/ has_open_flows' = ~has_open_flows /\ UNCHANGED health_session
       \/ ~health_session /\ health_session' = TRUE /\ UNCHANGED has_open_flows
    /\ UNCHANGED <<ka, nonce, outstanding_ping_nonce, last_pong_nonce, peerVars, listening,
                   notified, sessionClosed>>

(* close elsewhere also wakes the waiter. *)
OtherClose ==
    /\ ~sessionClosed /\ sessionClosed' = TRUE
    /\ notified' = (notified \/ listening)
    /\ UNCHANGED <<ka, nonce, outstanding_ping_nonce, last_pong_nonce, peerVars, listening,
                   has_open_flows, health_session>>

StopSleeping ==
    /\ ka = "sleep" /\ sessionClosed /\ ka' = "end"
    /\ UNCHANGED <<nonce, outstanding_ping_nonce, last_pong_nonce, peerVars, listening,
                   notified, sessionVars>>

KeepaliveTask ==
    IntervalPasses \/ WritePing \/ Subscribe \/ Look \/ Wake \/ PongTimeout \/ StopSleeping

KeepaliveNext ==
    \/ KeepaliveTask \/ PeerDies \/ SessionChanges \/ OtherClose
    \/ \E n \in 1..MaxPings : DeliverPong(n) \/ PeerEchoes(n)

----------------------------------------------------------------------------
(* Well-formed states; only the current ping is outstanding.                 *)
KeepaliveTypeOK ==
    /\ ka \in Waiting \cup {"sleep", "write", "end"}
    /\ nonce \in Nat /\ outstanding_ping_nonce \in {0, nonce}
    /\ last_pong_nonce \in 0..nonce /\ echoes \subseteq pings

(* No wake-up is lost: once the answer to the current ping is recorded the   *)
(* task is not left parked without a notification, so a session whose peer   *)
(* answered in time is never closed by the interval.                         *)
AnswerWakes == (ka = "parked" /\ last_pong_nonce = nonce) => notified

(* A ping counts as answered only by its own pong: a late pong of an earlier *)
(* ping, however long it was delayed, never stands in for it.                *)
AnswerIsOwn == (ka \in Waiting /\ last_pong_nonce = nonce /\ ~silent) => nonce \in echoes

(* A ping is answered by its own pong and by no other, and the answer always *)
(* wakes the task that waits for it, however late and in whatever order      *)
(* pongs arrive (record_matching_pong, wait_for_pong).                       *)
PongMatched == KeepaliveTypeOK /\ AnswerWakes /\ AnswerIsOwn

(* A session that is to be kept alive does not outlive a dead peer.          *)
DeadPeerCloses ==
    (silent /\ health_session /\ nonce < MaxPings) ~> sessionClosed

KeepaliveFairness == WF_kaVars(KeepaliveTask)

KeepaliveSpec == KeepaliveInit /\ [][KeepaliveNext]_kaVars /\ KeepaliveFairness
=============================================================================

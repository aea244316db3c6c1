----------------------------- MODULE ClientFlows -----------------------------
(* One carrier session of the client (uk-client relay/session_manager.rs     *)
(* ClientSession, relay/carrier.rs, relay/context.rs): its flow table, its   *)
(* admission permits, the openers that move from a permit to a route to a    *)
(* relay, the reader that routes the server's frames to them, and the two    *)
(* ways a session ends, draining and closing.                                *)
EXTENDS Integers, FiniteSets

CONSTANTS
    Flows,          \* SOCKS requests that open a flow on this session
    UdpFlows,       \* those that are UDP
    max_streams, max_udp_flows,
    MaxOpens        \* bound on the admissions explored

ASSUME FlowLimits == max_streams \in Nat /\ max_udp_flows \in Nat

VARIABLES
    stage,          \* opener -> step
    flows,          \* the flow table: the openers that have a route
    permits,        \* openers holding an admission permit
    inbox,          \* opener -> the frame waiting for it, or "none"
    draining, closed,
    clearing,       \* close has set the flag and not yet cleared the table
    checks,         \* callers of close_if_drained that have not looked yet
    metric_state, active_sessions, draining_sessions,
    opens

flowVars == <<stage, flows, permits, inbox, draining, closed, clearing, checks,
              metric_state, active_sessions, draining_sessions, opens>>
metrics == <<metric_state, active_sessions, draining_sessions>>
endVars == <<closed, clearing, metric_state, active_sessions, draining_sessions>>

Responses == {"ack", "reject", "malformed"}

FlowsInit ==
    /\ stage = [o \in Flows |-> "idle"] /\ inbox = [o \in Flows |-> "none"]
    /\ flows = {} /\ permits = {} /\ checks = {}
    /\ draining = FALSE /\ closed = FALSE /\ clearing = FALSE
    /\ metric_state = "Active" /\ active_sessions = 1 /\ draining_sessions = 0
    /\ opens = 0

Udp(S) == S \cap UdpFlows

(* ClientSession::close: only the caller that sets the flag goes on. *)
close ==
    IF closed THEN UNCHANGED endVars
    ELSE /\ closed' = TRUE /\ clearing' = TRUE
         /\ metric_state' = "Closed"
         /\ active_sessions' = active_sessions - 1
         /\ draining_sessions' = draining_sessions - (IF metric_state = "Draining" THEN 1 ELSE 0)

remove_flowMutant(o) ==
    /\ flows' = flows \ {o}
    /\ UNCHANGED endVars

(* remove_flow: whoever takes the last route from a draining session closes  *)
(* it; removing a route that is already gone does nothing.                   *)
remove_flow(o) ==
    /\ flows' = flows \ {o}
    /\ IF o \in flows /\ draining /\ flows = {o} THEN close ELSE UNCHANGED endVars

End(o) ==
    /\ stage' = [stage EXCEPT ![o] = "done"]
    /\ permits' = permits \ {o}
    /\ inbox' = [inbox EXCEPT ![o] = "none"]

----------------------------------------------------------------------------
(* try_admit: a stream permit, and a UDP permit for a UDP flow, or none.     *)
try_admit(o) ==
    /\ stage[o] = "idle" /\ opens < MaxOpens
    /\ ~draining /\ ~closed
    /\ Cardinality(permits) < max_streams
    /\ o \in UdpFlows => Cardinality(Udp(permits)) < max_udp_flows
    /\ stage' = [stage EXCEPT ![o] = "admitted"]
    /\ permits' = permits \cup {o}
    /\ opens' = opens + 1
    /\ UNCHANGED <<flows, inbox, draining, checks, endVars>>

(* open_flow's first look at the flags. *)
CheckSession(o) ==
    /\ stage[o] = "admitted"
    /\ IF draining \/ closed THEN End(o)
       ELSE stage' = [stage EXCEPT ![o] = "checked"] /\ UNCHANGED <<permits, inbox>>
    /\ UNCHANGED <<flows, draining, checks, endVars, opens>>

(* reserve_flow, under the table's lock: refused once draining, refused when *)
(* the table is full, otherwise a fresh flow id gets a route.                *)
reserve_flow(o) ==
    /\ stage[o] = "checked"
    /\ \/ /\ draining
          /\ End(o) /\ UNCHANGED flows
       \/ /\ ~draining
          /\ \/ Cardinality(flows) >= max_streams
             \/ o \in UdpFlows /\ Cardinality(Udp(flows)) >= max_udp_flows
          /\ End(o) /\ UNCHANGED flows
       \/ /\ ~draining /\ Cardinality(flows) < max_streams
          /\ o \in UdpFlows => Cardinality(Udp(flows)) < max_udp_flows
          /\ stage' = [stage EXCEPT ![o] = "reserved"]
          /\ flows' = flows \cup {o}
          /\ UNCHANGED <<permits, inbox>>
    /\ UNCHANGED <<draining, checks, endVars, opens>>

(* The closed flag is looked at again after the reservation, then TCP_OPEN   *)
(* or UDP_OPEN is written; a failed write closes the session.                *)
SendOpen(o) ==
    /\ stage[o] = "reserved"
    /\ \/ /\ ~closed
          /\ stage' = [stage EXCEPT ![o] = "opening"]
          /\ UNCHANGED <<permits, inbox, flows, endVars>>
       \/ /\ closed
          /\ End(o) /\ remove_flow(o)
       \/ /\ ~closed
          /\ End(o) /\ flows' = flows \ {o} /\ close
    /\ UNCHANGED <<draining, checks, opens>>

(* The opener takes the server's answer. *)
TakeAnswer(o) ==
    /\ stage[o] = "opening" /\ inbox[o] # "none"
    /\ \/ /\ inbox[o] = "ack"
          /\ stage' = [stage EXCEPT ![o] = "relay"]
          /\ inbox' = [inbox EXCEPT ![o] = "none"]
          /\ UNCHANGED <<permits, flows, endVars>>
       \/ /\ inbox[o] # "ack"
          /\ End(o) /\ remove_flow(o)
    /\ UNCHANGED <<draining, checks, opens>>

(* Local close, local buffer limit or shutdown while opening: the wait calls *)
(* cancel_pending_open, which writes the close frame before it removes the   *)
(* route.  A route already gone ends the opening with an error.              *)
BeginCancel(o) ==
    /\ stage[o] = "opening"
    /\ \/ stage' = [stage EXCEPT ![o] = "cancelling"] /\ UNCHANGED <<permits, inbox>>
       \/ o \notin flows /\ End(o)
    /\ UNCHANGED <<flows, draining, checks, endVars, opens>>

OpenTimeoutMutant(o) ==
    /\ stage[o] = "cancelling"
    /\ stage' = [stage EXCEPT ![o] = "timedout"]
    /\ UNCHANGED <<flows, permits, inbox, draining, checks, endVars, opens>>

(* The open timeout covers the whole wait, the write inside it included:     *)
(* when it fires there, the frame may be half written.                       *)
OpenTimeout(o) ==
    /\ stage[o] \in {"opening", "cancelling"}
    /\ stage' = [stage EXCEPT ![o] = "timedout"]
    /\ UNCHANGED <<flows, permits, inbox, draining, checks, endVars, opens>>

cancel_pending_openMutant(o) ==
    /\ stage[o] \in {"cancelling", "timedout"}
    /\ stage' = [stage EXCEPT ![o] = "done"]
    /\ inbox' = [inbox EXCEPT ![o] = "none"]
    /\ remove_flow(o)
    /\ UNCHANGED <<permits, draining, checks, opens>>

(* The close frame is written, or its failure closes the session. *)
cancel_pending_open(o) ==
    /\ stage[o] \in {"cancelling", "timedout"}
    /\ End(o)
    /\ \/ remove_flow(o)
       \/ flows' = flows \ {o} /\ close
    /\ UNCHANGED <<draining, checks, opens>>

(* relay_tcp owns the flow and drops it, permit included, when it returns;   *)
(* handle_socks_connection removes the route afterwards.                     *)
RelayReturns(o) ==
    /\ stage[o] = "relay"
    /\ stage' = [stage EXCEPT ![o] = "ending"]
    /\ permits' = permits \ {o}
    /\ inbox' = [inbox EXCEPT ![o] = "none"]
    /\ UNCHANGED <<flows, draining, checks, endVars, opens>>

RelayRemoves(o) ==
    /\ stage[o] = "ending"
    /\ End(o) /\ remove_flow(o)
    /\ UNCHANGED <<draining, checks, opens>>

(* The task's slot takes the next SOCKS request. *)
NextRequest(o) ==
    /\ stage[o] = "done" /\ opens < MaxOpens
    /\ stage' = [stage EXCEPT ![o] = "idle"]
    /\ UNCHANGED <<flows, permits, inbox, draining, checks, endVars, opens>>

----------------------------------------------------------------------------
(* handle_carrier_frame with route_flow_frame: a frame for a routed flow is  *)
(* queued, or the route is removed (wrong protocol, a full queue or budget,  *)
(* a receiver that is gone) and close_if_drained is called afterwards.       *)
RouteFrame(o) ==
    /\ ~closed /\ o \in flows /\ "reader" \notin checks
    /\ \/ /\ inbox[o] = "none" /\ stage[o] \in {"reserved", "opening", "cancelling", "timedout", "relay"}
          /\ \E r \in Responses : inbox' = [inbox EXCEPT ![o] = r]
          /\ UNCHANGED <<flows, checks>>
       \/ /\ flows' = flows \ {o}
          /\ checks' = checks \cup {"reader"}
          /\ UNCHANGED inbox
    /\ UNCHANGED <<stage, permits, draining, endVars, opens>>

(* The relay consumes frames; a relayed frame no longer counts. *)
RelayConsumes(o) ==
    /\ stage[o] = "relay" /\ inbox[o] # "none"
    /\ inbox' = [inbox EXCEPT ![o] = "none"]
    /\ UNCHANGED <<stage, flows, permits, draining, checks, endVars, opens>>

begin_drain ==
    /\ ~draining /\ draining' = TRUE
    /\ checks' = checks \cup {"drain"}
    /\ IF metric_state = "Active"
       THEN metric_state' = "Draining" /\ draining_sessions' = draining_sessions + 1
       ELSE UNCHANGED <<metric_state, draining_sessions>>
    /\ UNCHANGED <<stage, flows, permits, inbox, closed, clearing, active_sessions, opens>>

close_if_drained ==
    \E c \in checks :
        /\ checks' = checks \ {c}
        /\ IF draining /\ flows = {} THEN close ELSE UNCHANGED endVars
        /\ UNCHANGED <<stage, flows, permits, inbox, draining, opens>>

(* A read or write error, a keepalive timeout, an invalidation or the        *)
(* manager's shutdown.                                                       *)
CloseFromOutside ==
    /\ ~closed /\ close
    /\ UNCHANGED <<stage, flows, permits, inbox, draining, checks, opens>>

ClearTable ==
    /\ clearing /\ clearing' = FALSE
    /\ flows' = {}
    /\ UNCHANGED <<stage, permits, inbox, draining, closed, checks, metrics, opens>>

(* A cleared route drops the sender: the relay sees the end of its queue.    *)
FlowStep(o) ==
    \/ try_admit(o) \/ CheckSession(o) \/ reserve_flow(o) \/ SendOpen(o) \/ TakeAnswer(o)
    \/ BeginCancel(o) \/ OpenTimeout(o) \/ cancel_pending_open(o) \/ RelayReturns(o) \/ RelayRemoves(o) \/ RelayConsumes(o) \/ NextRequest(o)

FlowsNext ==
    \/ \E o \in Flows : FlowStep(o) \/ RouteFrame(o)
    \/ begin_drain \/ close_if_drained \/ CloseFromOutside \/ ClearTable

----------------------------------------------------------------------------
(* Well-formed states; each session gauge counts this session at most once.  *)
FlowsTypeOK ==
    /\ flows \subseteq Flows /\ permits \subseteq Flows
    /\ checks \subseteq {"drain", "reader"}
    /\ metric_state \in {"Active", "Draining", "Closed"}
    /\ active_sessions \in 0..1 /\ draining_sessions \in 0..1

(* The server's limits on concurrent flows are never exceeded by the         *)
(* client's own table, whatever the order of openings, endings and removals. *)
TableWithinLimits ==
    /\ Cardinality(flows) <= max_streams /\ Cardinality(Udp(flows)) <= max_udp_flows
    /\ Cardinality(permits) <= max_streams /\ Cardinality(Udp(permits)) <= max_udp_flows

(* Permits are neither leaked nor kept: exactly the requests between their   *)
(* admission and the end of their relay hold one, so every rejection, error, *)
(* timeout and cancellation path returns its capacity.                       *)
PermitsExact ==
    permits = {o \in Flows : stage[o] \in {"admitted", "checked", "reserved", "opening",
                                       "cancelling", "timedout", "relay"}}

(* No route outlives the task that owns it, and a closed session's table     *)
(* stays empty once cleared except for a reservation made across the close,  *)
(* which the second look at the flag removes.                                *)
RoutesOwned ==
    /\ \A o \in flows : stage[o] \in {"reserved", "opening", "cancelling", "timedout",
                                  "relay", "ending"}
    /\ closed /\ ~clearing => \A o \in flows : stage[o] = "reserved"

(* Draining never cuts a flow: while the session is open only its flows keep *)
(* it so, and a drain closes it only when no route is left, so the last step *)
(* of a drain is never taken with a relay running.                           *)
DrainClosesEmpty ==
    \A c \in checks : (c \notin checks' /\ closed' /\ ~closed) => flows = {}

(* Once draining, the table only shrinks: no request gets a new route on a   *)
(* session that a reload has retired, although it was admitted before.       *)
NoRouteOnceDraining == draining => flows' \subseteq flows

(* The session gauges count this session once, as draining exactly while it  *)
(* drains, and not at all after its close, whichever of close and drain      *)
(* comes first.                                                              *)
GaugesMatch ==
    /\ active_sessions = (IF closed THEN 0 ELSE 1)
    /\ draining_sessions = (IF draining /\ ~closed THEN 1 ELSE 0)

(* Permits, routes and gauges of a session agree: exactly the requests       *)
(* between admission and the end of their relay hold a permit, no route      *)
(* outlives the task that owns it, the server's limits are never exceeded,   *)
(* and the gauges count the session once (FlowAdmission, reserve_flow,       *)
(* begin_drain).                                                             *)
FlowsAccounted ==
    /\ FlowsTypeOK /\ TableWithinLimits /\ PermitsExact
    /\ RoutesOwned /\ GaugesMatch

(* A draining session closes once its flows have ended, whether the last     *)
(* route goes with its relay or is removed by the carrier's reader.          *)
DrainCompletes == (draining /\ flows = {}) ~> closed

(* Every admitted request is resolved and gives its permit back or relays.   *)
OpenResolved == \A o \in Flows : (stage[o] = "admitted") ~> (stage[o] \in {"relay", "done"})

FlowDriven(o) ==
    \/ CheckSession(o) \/ reserve_flow(o) \/ SendOpen(o)
    \/ TakeAnswer(o) \/ OpenTimeout(o) \/ cancel_pending_open(o) \/ RelayRemoves(o)

(* The openers, the pending checks and a close that has begun go on.         *)
FlowsFairness ==
    /\ \A o \in Flows : WF_flowVars(FlowDriven(o))
    /\ WF_flowVars(close_if_drained \/ ClearTable)

FlowsSpec == FlowsInit /\ [][FlowsNext]_flowVars /\ FlowsFairness
=============================================================================

---------------------------- MODULE UdpAssociation ----------------------------
(* One SOCKS UDP association of the client and its worker for one target     *)
(* (uk-client relay/udp.rs).  The association's loop accepts datagrams of    *)
(* one learned peer and feeds the worker's bounded queue; the worker opens a *)
(* flow on demand, sends with retries, and owns the flow that its inbound    *)
(* relay task serves; relay tasks of earlier flows may still be around.      *)
EXTENDS Integers, FiniteSets

CONSTANTS
    Peers,                      \* sources a datagram may come from
    matches_requested(_),       \* whether the association may serve a source
    Unknown,                    \* learned before any peer is
    UDP_TARGET_QUEUE_CAPACITY, UDP_SEND_ATTEMPTS,
    MaxFlows                    \* bound on the flows opened

ASSUME QueueAssumption == UDP_TARGET_QUEUE_CAPACITY \in Nat \ {0}

VARIABLES
    association,    \* "open", "closing" (cancelled, joining) or "closed"
    learned,        \* UdpClientEndpoint::learned
    sender,         \* senders has an entry for the target
    worker,         \* the worker's step, "none" when it has returned
    queue, attempt,
    current,        \* the worker's flow, 0 for none
    opened,         \* flows opened so far; flow ids are 1..opened
    routes,         \* flows with a route in their session's table
    dead,           \* flows whose carrier session has closed
    relays, ended,  \* inbound relay tasks running, and finished but not joined
    offered         \* a datagram was handed over and the worker has not taken it

udpVars == <<association, learned, sender, worker, queue, attempt, current, opened, routes,
             dead, relays, ended, offered>>
flowState == <<current, opened, routes, dead, relays, ended>>
assocVars == <<association, learned, sender>>

UdpInit ==
    /\ association = "open" /\ learned = Unknown /\ sender = FALSE
    /\ worker = "none" /\ queue = 0 /\ attempt = 0 /\ current = 0 /\ opened = 0
    /\ routes = {} /\ dead = {} /\ relays = {} /\ ended = {} /\ offered = FALSE

Cancelled == association # "open"
HasWorker == worker # "none"

----------------------------------------------------------------------------
(* enqueue_datagram: a live worker's queue takes the datagram or drops it    *)
(* and counts the drop; a worker that has returned is evicted and replaced.  *)
enqueue_datagram ==
    IF sender /\ HasWorker
    THEN /\ queue' = IF queue < UDP_TARGET_QUEUE_CAPACITY THEN queue + 1 ELSE queue
         /\ offered' = (offered \/ queue < UDP_TARGET_QUEUE_CAPACITY)
         /\ UNCHANGED <<sender, worker>>
    ELSE sender' = TRUE /\ worker' = "loop" /\ queue' = 1 /\ offered' = TRUE

(* UdpClientEndpoint::accepts. *)
accepts(p) == matches_requested(p) /\ learned \in {Unknown, p}

(* handle_local_udp_datagram: UdpClientEndpoint::accepts learns the first    *)
(* matching source and accepts no other; a malformed or oversized datagram   *)
(* is dropped after the source was learned.                                  *)
ReceiveLocal(p) ==
    /\ association = "open"
    /\ accepts(p)
    /\ learned' = p
    /\ \/ enqueue_datagram
       \/ UNCHANGED <<sender, worker, queue, offered>>
    /\ UNCHANGED <<association, attempt, flowState>>

(* The worker's select loop. *)
TakeDatagram ==
    /\ worker = "loop" /\ queue > 0
    /\ queue' = queue - 1 /\ offered' = FALSE
    /\ worker' = "send" /\ attempt' = 0
    /\ UNCHANGED <<assocVars, flowState>>

RemoveRoute(f) == routes' = routes \ {f}

close_worker_flow == RemoveRoute(current) /\ current' = 0

JoinRelayMutant(f) ==
    /\ worker = "loop" /\ f \in ended
    /\ ended' = ended \ {f}
    /\ close_worker_flow
    /\ UNCHANGED <<assocVars, worker, queue, attempt, opened, dead, relays, offered>>

(* Only the end of the current flow's relay closes the current flow. *)
JoinRelay(f) ==
    /\ worker = "loop" /\ f \in ended
    /\ ended' = ended \ {f}
    /\ IF f = current THEN close_worker_flow ELSE UNCHANGED <<current, routes>>
    /\ UNCHANGED <<assocVars, worker, queue, attempt, opened, dead, relays, offered>>

(* Idle for the timeout, with or without a flow, or cancelled. *)
LeaveLoop ==
    /\ worker = "loop"
    /\ worker' = "leaving"
    /\ UNCHANGED <<assocVars, queue, attempt, flowState, offered>>

WorkerReturnsMutant ==
    /\ worker = "leaving"
    /\ relays' = {} /\ ended' = {} /\ current' = 0
    /\ worker' = "none" /\ queue' = 0 /\ offered' = FALSE
    /\ UNCHANGED <<assocVars, attempt, opened, routes, dead>>

(* close_worker_flow, the relay tasks are aborted and joined, and the queue  *)
(* goes with the worker.                                                     *)
WorkerReturns ==
    /\ worker = "leaving"
    /\ close_worker_flow
    /\ relays' = {} /\ ended' = {}
    /\ worker' = "none" /\ queue' = 0 /\ offered' = FALSE
    /\ UNCHANGED <<assocVars, attempt, opened, dead>>

(* ensure_worker_flow: a flow whose session closed is dropped, a live one is *)
(* used, otherwise one is opened.                                            *)
EnsureFlow ==
    /\ worker = "send"
    /\ \/ /\ Cancelled
          /\ worker' = "leaving" /\ UNCHANGED <<current, routes>>
       \/ /\ ~Cancelled /\ current # 0 /\ current \notin dead
          /\ worker' = "write" /\ UNCHANGED <<current, routes>>
       \/ /\ ~Cancelled /\ current \in dead \cup {0}
          /\ worker' = "open" /\ close_worker_flow
    /\ UNCHANGED <<assocVars, queue, attempt, opened, dead, relays, ended, offered>>

(* The open succeeds (and the datagram may prove too large for the flow's    *)
(* session, which closes the flow at once), is refused, or is cancelled.     *)
OpenWorkerFlow ==
    /\ worker = "open"
    /\ \/ /\ opened < MaxFlows /\ ~Cancelled
          /\ opened' = opened + 1
          /\ \/ /\ current' = opened + 1
                /\ routes' = routes \cup {opened + 1}
                /\ relays' = relays \cup {opened + 1}
                /\ worker' = "write"
             \/ worker' = "loop" /\ UNCHANGED <<current, routes, relays>>
       \/ /\ worker' = IF Cancelled THEN "leaving" ELSE "loop"
          /\ UNCHANGED <<current, opened, routes, relays>>
    /\ UNCHANGED <<assocVars, queue, attempt, dead, ended, offered>>

(* send_udp_data: sent, or the flow is given up and the next attempt starts. *)
SendDatagram ==
    /\ worker = "write"
    /\ \/ /\ current \notin dead
          /\ worker' = "loop" /\ UNCHANGED <<attempt, current, routes>>
       \/ /\ close_worker_flow
          /\ attempt' = attempt + 1
          /\ worker' = IF attempt + 1 < UDP_SEND_ATTEMPTS THEN "send" ELSE "loop"
    /\ UNCHANGED <<assocVars, queue, opened, dead, relays, ended, offered>>

----------------------------------------------------------------------------
(* An inbound relay ends: the server closed the flow, the route is gone, a   *)
(* send to the client failed, or the association was cancelled.              *)
InboundEnds(f) ==
    /\ f \in relays
    /\ relays' = relays \ {f} /\ ended' = ended \cup {f}
    /\ UNCHANGED <<assocVars, worker, queue, attempt, current, opened, routes, dead, offered>>

(* The carrier closes and clears its table, or its reader removes the route. *)
CarrierLoses(f) ==
    /\ f \in routes
    /\ routes' = routes \ {f}
    /\ dead' \in {dead, dead \cup {f}}
    /\ UNCHANGED <<assocVars, worker, queue, attempt, current, opened, relays, ended, offered>>

(* The control connection ends or shutdown comes: UdpAssociation::close. *)
CloseAssociation ==
    /\ association = "open"
    /\ association' = "closing" /\ sender' = FALSE
    /\ UNCHANGED <<learned, worker, queue, attempt, flowState, offered>>

JoinWorkers ==
    /\ association = "closing" /\ ~HasWorker
    /\ association' = "closed"
    /\ UNCHANGED <<learned, sender, worker, queue, attempt, flowState, offered>>

(* A straggler is aborted, relay tasks and all; its route stays behind until *)
(* the session notices that nobody receives.                                 *)
AbortWorkers ==
    /\ association = "closing" /\ HasWorker
    /\ association' = "closed"
    /\ worker' = "none" /\ queue' = 0 /\ offered' = FALSE
    /\ current' = 0 /\ relays' = {} /\ ended' = {}
    /\ UNCHANGED <<learned, sender, attempt, opened, routes, dead>>

WorkerStep ==
    \/ TakeDatagram \/ WorkerReturns \/ EnsureFlow \/ OpenWorkerFlow \/ SendDatagram
    \/ (Cancelled /\ LeaveLoop) \/ \E f \in 1..MaxFlows : JoinRelay(f)

UdpNext ==
    \/ \E p \in Peers : ReceiveLocal(p)
    \/ WorkerStep \/ LeaveLoop
    \/ \E f \in 1..MaxFlows : InboundEnds(f) \/ CarrierLoses(f)
    \/ CloseAssociation \/ JoinWorkers \/ AbortWorkers

----------------------------------------------------------------------------
(* Well-formed states; the target queue stays within its capacity.           *)
UdpTypeOK ==
    /\ association \in {"open", "closing", "closed"} /\ learned \in Peers \cup {Unknown}
    /\ worker \in {"none", "loop", "send", "open", "write", "leaving"}
    /\ queue \in 0..UDP_TARGET_QUEUE_CAPACITY /\ current \in 0..opened
    /\ routes \subseteq 1..opened /\ relays \cap ended = {}

(* A worker that returns leaves no route: while the association lives, the   *)
(* only route it may have is the worker's current flow, so no UDP flow slot  *)
(* is stranded by retries, carrier deaths or idle exits.                     *)
OnlyCurrentRouted == association # "closed" => routes \subseteq {current}

(* The end of an earlier flow's relay never closes a healthy flow: in its    *)
(* loop the worker gives up the current flow only when that flow's own relay *)
(* has ended.                                                                *)
HealthyFlowKept ==
    (worker = "loop" /\ worker' = "loop" /\ current # 0 /\ current' = 0)
          => current \in ended

(* The association serves the source it learned first and never another.     *)
PeerPinned ==
    learned # Unknown => learned' = learned

(* A datagram accepted for a target is taken by a worker, even if the worker *)
(* the association knew has returned meanwhile: an ended worker never        *)
(* swallows a target for the rest of the association's life.                 *)
DatagramTaken == offered ~> ~offered

(* An association that has ended leaves no worker and no relay task behind:  *)
(* close joins the workers it cancelled and aborts the stragglers.           *)
NothingLeftRunning == association = "closed" => ~HasWorker /\ relays = {}

(* A UDP association leaves nothing behind: while it lives only its worker's *)
(* current flow is routed, whatever retries, dead carriers and idle exits    *)
(* came before, and once it has ended neither worker nor relay is left       *)
(* (UdpAssociation::close).                                                  *)
NothingLeftBehind == UdpTypeOK /\ OnlyCurrentRouted /\ NothingLeftRunning

UdpFairness == WF_udpVars(WorkerStep) /\ WF_udpVars(JoinWorkers \/ AbortWorkers)

UdpSpec == UdpInit /\ [][UdpNext]_udpVars /\ UdpFairness
=============================================================================

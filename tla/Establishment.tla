--------------------------- MODULE Establishment ---------------------------
(* How the client establishes one carrier (uk-client session.rs and quic.rs). *)
(* A connect snapshots the configuration, loads the CA bundle, partitions the *)
(* configured endpoints into healthy and penalised ones and dials each of     *)
(* them once, healthy first, until one authenticates or the server rejects    *)
(* the credentials.  The penalties are process-wide: they survive connects,   *)
(* lapse after a cooldown and carry the epoch they were recorded under, which *)
(* a reload advances.  Dials are serialised by the manager's connect lock, so *)
(* there is one connect at a time; reloads interleave with it.  A QUIC        *)
(* endpoint resolves to several addresses, each with a share of the budget.   *)
EXTENDS Integers, Sequences, FiniteSets, SequencesExt

CONSTANTS
    Endpoints,      \* endpoint -> "tls" or "quic"
    ConfigOf(_),    \* generation -> the configured sequence of endpoints
    Addresses,      \* addresses a QUIC endpoint resolves to
    Budget,         \* handshake timeout of one endpoint, in seconds
    MIN_QUIC_PER_ADDRESS_ATTEMPT,
    DEGRADED_COOLDOWN,
    MaxReloads, MaxConnects

VARIABLES
    generation,     \* generation of the published configuration
    DEGRADED_EPOCH, \* current penalty epoch
    reloading,      \* a reload has published its config, not yet cleared penalties
    penalties,      \* endpoint -> [left, epoch]; left = 0: no entry
    stage,          \* where the connect is
    conn,           \* what the connect in progress (or the last one) holds
    connects        \* connects begun, for the bound

estVars == <<generation, DEGRADED_EPOCH, reloading, penalties, stage, conn, connects>>

Names == DOMAIN Endpoints
NoPenalty == [left |-> 0, epoch |-> 0]
Stages == {"idle", "loading", "dial", "address", "control", "auth"}
Results == {"none", "ok", "failed", "rejected", "ca_failed"}
NoConn == [gen |-> 0, epoch |-> 0, todo |-> <<>>, tried |-> <<>>, slow |-> {},
           addr |-> 0, waited |-> 0, elapsed |-> 0, result |-> "none"]

EstInit ==
    /\ generation = 0
    /\ DEGRADED_EPOCH = 0
    /\ reloading = FALSE
    /\ penalties = [e \in Names |-> NoPenalty]
    /\ stage = "idle"
    /\ conn = NoConn
    /\ connects = 0

is_endpoint_degraded(e, epoch) == penalties[e].left > 0 /\ penalties[e].epoch = epoch
mark_endpoint_degraded(e, epoch) ==
    [penalties EXCEPT ![e] = [left |-> DEGRADED_COOLDOWN, epoch |-> epoch]]
clear_endpoint_degraded(e) == [penalties EXCEPT ![e] = NoPenalty]

(* connect_and_pool takes the snapshot; ClientSession::connect then loads the *)
(* shared TLS config, which may suspend for as long as the file system does.  *)
BeginConnect ==
    /\ stage = "idle" /\ connects < MaxConnects
    /\ connects' = connects + 1
    /\ conn' = [NoConn EXCEPT !.gen = generation]
    /\ stage' = "loading"
    /\ UNCHANGED <<generation, DEGRADED_EPOCH, reloading, penalties>>

CaFails ==
    /\ stage = "loading"
    /\ stage' = "idle"
    /\ conn' = [conn EXCEPT !.result = "ca_failed"]
    /\ UNCHANGED <<generation, DEGRADED_EPOCH, reloading, penalties, connects>>

OrderedMutant(config, slow) == SelectSeq(config, LAMBDA e : e \notin slow)

(* Healthy endpoints in configuration order, then the penalised ones. *)
Ordered(config, slow) ==
    SelectSeq(config, LAMBDA e : e \notin slow) \o SelectSeq(config, LAMBDA e : e \in slow)

(* The epoch is read, and the endpoints are partitioned, once per connect. *)
CaLoaded ==
    /\ stage = "loading"
    /\ LET config == ConfigOf(conn.gen)
           slow == {e \in Range(config) : is_endpoint_degraded(e, DEGRADED_EPOCH)}
       IN conn' = [conn EXCEPT !.epoch = DEGRADED_EPOCH, !.slow = slow,
                               !.todo = Ordered(config, slow)]
    /\ stage' = "dial"
    /\ UNCHANGED <<generation, DEGRADED_EPOCH, reloading, penalties, connects>>

Endpoint == Last(conn.tried)

(* The loop takes its next endpoint; QUIC starts on the first address. *)
DialNext ==
    /\ stage = "dial" /\ conn.todo # <<>>
    /\ conn' = [conn EXCEPT !.todo = Tail(@), !.tried = Append(@, Head(conn.todo)),
                            !.addr = 1, !.waited = 0, !.elapsed = 0]
    /\ stage' = IF Endpoints[Head(conn.todo)] = "quic" THEN "address" ELSE "control"
    /\ UNCHANGED <<generation, DEGRADED_EPOCH, reloading, penalties, connects>>

Exhausted ==
    /\ stage = "dial" /\ conn.todo = <<>>
    /\ stage' = "idle"
    /\ conn' = [conn EXCEPT !.result = "failed"]
    /\ UNCHANGED <<generation, DEGRADED_EPOCH, reloading, penalties, connects>>

(* An endpoint's budget is split over its addresses, with a floor. *)
per_address_attempt_timeout ==
    IF Addresses <= 1 THEN Budget
    ELSE LET share == Budget \div Addresses
         IN IF share > MIN_QUIC_PER_ADDRESS_ATTEMPT THEN share
            ELSE MIN_QUIC_PER_ADDRESS_ATTEMPT

Penalised(phase) ==
    \/ phase = "timeout"
    \/ Endpoints[Endpoint] = "quic" /\ phase \in {"tls", "tcp"}

(* The Err arm of the endpoint loop for a failure that is no rejection. *)
EndpointFailed(phase) ==
    /\ penalties' = IF Penalised(phase) THEN mark_endpoint_degraded(Endpoint, conn.epoch)
                    ELSE penalties
    /\ stage' = "dial"
    /\ UNCHANGED <<generation, DEGRADED_EPOCH, reloading, conn, connects>>

(* One address failed to bind, handshake, negotiate the ALPN or export. *)
AddressFails ==
    /\ stage \in {"address", "control"} /\ Endpoints[Endpoint] = "quic"
    /\ \/ /\ conn.addr < Addresses
          /\ conn' = [conn EXCEPT !.addr = @ + 1, !.waited = 0]
          /\ stage' = "address"
          /\ UNCHANGED <<generation, DEGRADED_EPOCH, reloading, penalties, connects>>
       \/ conn.addr = Addresses /\ EndpointFailed("tls")

(* The address used up its share of the endpoint's budget. *)
AddressExpires == stage = "address" /\ conn.waited = per_address_attempt_timeout /\ AddressFails

AddressConnected ==
    /\ stage = "address"
    /\ stage' = "control"
    /\ UNCHANGED <<generation, DEGRADED_EPOCH, reloading, penalties, conn, connects>>

TlsFails ==
    /\ stage = "control" /\ Endpoints[Endpoint] = "tls"
    /\ \E phase \in {"tcp", "tls", "other"} : EndpointFailed(phase)

(* The carrier is up: TLS finished, or the server opened its control stream. *)
CarrierUp ==
    /\ stage = "control"
    /\ stage' = "auth"
    /\ UNCHANGED <<generation, DEGRADED_EPOCH, reloading, penalties, conn, connects>>

AuthFails ==
    /\ stage = "auth"
    /\ \E phase \in {"auth", "settings"} : EndpointFailed(phase)

(* ERROR{AuthFailed}: the credentials were refused, the loop stops. *)
Rejected ==
    /\ stage = "auth"
    /\ stage' = "idle"
    /\ conn' = [conn EXCEPT !.result = "rejected"]
    /\ UNCHANGED <<generation, DEGRADED_EPOCH, reloading, penalties, connects>>

Authenticated ==
    /\ stage = "auth"
    /\ stage' = "idle"
    /\ conn' = [conn EXCEPT !.result = "ok"]
    /\ penalties' = clear_endpoint_degraded(Endpoint)
    /\ UNCHANGED <<generation, DEGRADED_EPOCH, reloading, connects>>

(* The whole attempt is dropped at the endpoint's deadline. *)
EndpointTimeout ==
    /\ stage \in {"address", "control", "auth"} /\ conn.elapsed = Budget
    /\ EndpointFailed("timeout")

(* One second passes.  An address whose share is used up fails first. *)
Tick ==
    /\ \/ \E e \in Names : penalties[e].left > 0
       \/ stage \in {"address", "control", "auth"}
    /\ penalties' = [e \in Names |->
                       IF penalties[e].left > 1
                       THEN [penalties[e] EXCEPT !.left = @ - 1] ELSE NoPenalty]
    /\ \/ stage \in {"idle", "loading", "dial"} /\ conn' = conn
       \/ /\ stage = "address"
          /\ conn.waited < per_address_attempt_timeout /\ conn.elapsed < Budget
          /\ conn' = [conn EXCEPT !.waited = @ + 1, !.elapsed = @ + 1]
       \/ /\ stage \in {"control", "auth"} /\ conn.elapsed < Budget
          /\ conn' = [conn EXCEPT !.elapsed = @ + 1]
    /\ UNCHANGED <<generation, DEGRADED_EPOCH, reloading, stage, connects>>

(* reload: the configuration is replaced, then (after a lock) the penalties   *)
(* are cleared and the epoch advances.                                        *)
ReloadPublish ==
    /\ ~reloading /\ generation < MaxReloads
    /\ generation' = generation + 1
    /\ reloading' = TRUE
    /\ UNCHANGED <<DEGRADED_EPOCH, penalties, stage, conn, connects>>

clear_degraded_endpoints ==
    /\ reloading
    /\ reloading' = FALSE
    /\ penalties' = [e \in Names |-> NoPenalty]
    /\ DEGRADED_EPOCH' = DEGRADED_EPOCH + 1
    /\ UNCHANGED <<generation, stage, conn, connects>>

Progress ==
    \/ CaFails \/ CaLoaded \/ DialNext \/ Exhausted \/ AddressFails \/ AddressConnected
    \/ TlsFails \/ CarrierUp \/ AuthFails \/ Rejected \/ Authenticated

EstNext ==
    \/ BeginConnect \/ Progress \/ EndpointTimeout \/ Tick
    \/ ReloadPublish \/ clear_degraded_endpoints

(* What the runtime alone guarantees: timers fire, the loop goes on and the   *)
(* CA load returns or times out; no answer of any server is assumed.          *)
Driven ==
    EndpointTimeout \/ AddressExpires \/ DialNext \/ Exhausted \/ CaFails \/ CaLoaded

EstFairness == WF_estVars(Tick) /\ WF_estVars(Driven)

EstSpec == EstInit /\ [][EstNext]_estVars /\ EstFairness

----------------------------------------------------------------------------
(* Well-formed states; a connect never outlasts its budget.                  *)
EstTypeOK ==
    /\ generation \in 0..MaxReloads /\ DEGRADED_EPOCH \in 0..MaxReloads
    /\ stage \in Stages /\ reloading \in BOOLEAN /\ connects \in 0..MaxConnects
    /\ conn.result \in Results /\ conn.elapsed \in 0..Budget /\ conn.addr \in 0..Addresses
    /\ \A e \in Names : penalties[e].left \in 0..DEGRADED_COOLDOWN

(* The endpoint loop of connect_authenticated_inner gives up only when it has *)
(* something to show for it: a connect that failed without a credential       *)
(* rejection dialled every endpoint of its own configuration exactly once,    *)
(* whatever was penalised, expired, or reloaded meanwhile.                    *)
FailureMeansExhausted ==
    conn.result = "failed" =>
        /\ Len(conn.tried) = Len(ConfigOf(conn.gen))
        /\ Range(conn.tried) = Range(ConfigOf(conn.gen))

(* A penalised endpoint only moves back in the order of attempts: it is never *)
(* dialled while an endpoint that was healthy when the connect partitioned    *)
(* them is still untried, and no endpoint is dialled twice in one connect.    *)
PenalisedLast ==
    stage \notin {"idle", "loading"} =>
        /\ \A e \in conn.slow \cap Range(conn.tried) :
              \A h \in Range(ConfigOf(conn.gen)) \ conn.slow : h \in Range(conn.tried)
        /\ IsInjective(conn.tried)

(* per_address_attempt_timeout exists so that one unreachable address cannot  *)
(* use up the endpoint's budget: when the endpoint's deadline has come, either *)
(* every address was started or the address in hand had completed its QUIC    *)
(* handshake (waiting for the control stream has no share of its own).        *)
UnreachableCannotStarve ==
    (stage = "address" /\ conn.elapsed = Budget /\ Addresses <= Budget)
        => conn.addr = Addresses

(* Once a reload has cleared the penalties, none of the endpoints of the new  *)
(* configuration is penalised by a connect that read the epoch before it.     *)
OldEpochForgotten ==
    stage = "loading" /\ stage' = "dial" =>
         \A e \in conn'.slow : penalties[e].epoch = DEGRADED_EPOCH

(* With a handshake timeout every connect returns: it dials finitely many     *)
(* endpoints and none of them holds it past its deadline.                     *)
ConnectReturns == (stage # "idle") ~> (stage = "idle")
============================================================================

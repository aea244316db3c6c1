------------------------------ MODULE MCServer ------------------------------
(* The server's components, instantiated for TLC; the variables and       *)
(* constants of the rate limiter, the listener, the masking gate and the      *)
(* reloads are those of their modules.                                        *)
(* A behaviour explores ONE component: `part`, chosen in the initial state,  *)
(* says which, and the variables of the others keep their initial values.  So *)
(* the state spaces of the components add up and do not multiply, and one run *)
(* checks each of them as if it were alone.                                   *)
EXTENDS RateLimiter, ServerAdmission, MaskGate, SecurityReload, MCValues

VARIABLE part    \* the component that this behaviour explores

-----------------------------------------------------------------------------
\* The handshake over two carriers, with a replay cache of one entry.
VARIABLES auth_clock, auth_cred, auth_cache, auth_log, auth_sv, auth_cl, auth_toC,
          auth_toS

authVars == <<auth_clock, auth_cred, auth_cache, auth_log, auth_sv, auth_cl,
             auth_toC, auth_toS>>

Auth == INSTANCE Authentication WITH
    Silent <- {}, Carriers <- {"a1", "a2"}, ServerNonces <- {1},
    ClientNonces <- {1, 2}, MaxTime <- 1, AllowedSkew <- 0, Clients <- AuthClients,
    ClientClocks <- {0, 1001}, Configured <- ActiveOnly, Window <- 1,
    MaxEntries <- 1, clock <- auth_clock, cred <- auth_cred, cache <- auth_cache,
    log <- auth_log, sv <- auth_sv, cl <- auth_cl, toC <- auth_toC, toS <- auth_toS

-----------------------------------------------------------------------------
\* The dialer and the policy engine: two opens, one dial permit, two
\* candidates at a time.
VARIABLES dial_rules, dial_step, dial_target, dial_looked_up, dial_addrs,
          dial_next_index, dial_tasks, dial_failed, dial_result, dial_free

dialVars == <<dial_rules, dial_step, dial_target, dial_looked_up, dial_addrs,
             dial_next_index, dial_tasks, dial_failed, dial_result, dial_free>>

Dial == INSTANCE Dialer WITH
    NONE <- NONE, Opens <- {1, 2}, PolicySets <- PolicySets, Targets <- Targets,
    Identity <- Identity, Answers <- Answers, OPEN_DIAL_LIMIT <- 1,
    TARGET_CONNECT_PARALLELISM <- 2, TARGET_RESOLUTION_ADDR_LIMIT <- 3,
    rules <- dial_rules, step <- dial_step, target <- dial_target,
    looked_up <- dial_looked_up, addrs <- dial_addrs, next_index <- dial_next_index,
    tasks <- dial_tasks, failed <- dial_failed, result <- dial_result,
    free <- dial_free

-----------------------------------------------------------------------------
\* Start-up validation, reload and the negotiation of the limits.
VARIABLES nego_boot, nego_config, nego_server, nego_wire, nego_client, nego_relay

negoVars == <<nego_boot, nego_config, nego_server, nego_wire, nego_client, nego_relay>>

Nego == INSTANCE Negotiation WITH
    Configs <- ServerConfigs, Relays <- {1024, 16384}, UnknownKeys <- {8},
    MAX_PERMITS <- 100000, MAX_TOTAL_LIMIT <- 1073741824, boot <- nego_boot,
    config <- nego_config, server <- nego_server, wire <- nego_wire,
    client <- nego_client, relay <- nego_relay

-----------------------------------------------------------------------------
\* Every component starts in an initial state of its own; those with several
\* start in any of them when they are the one explored.
ServerInit ==
    /\ part \in {"rate", "adm", "gate", "auth", "dial", "rel", "nego"}
    /\ RateInit
    /\ Init
    /\ GateInit
    /\ Auth!Init
    /\ part # "auth" => /\ auth_cred = Cred("Active", 0, 0)
                        /\ \A k \in DOMAIN auth_cl :
                              <<auth_cl[k].key, auth_cl[k].secret>> = Right
    /\ \/ part = "dial"
       \/ /\ part # "dial"
          /\ dial_rules = CHOOSE r \in AllowAll : TRUE
    /\ Dial!DialInit
    /\ ReloadInit
    /\ \/ part = "nego"
       \/ /\ part # "nego"
          /\ nego_boot = <<>>
          /\ nego_relay = 1024
    /\ Nego!NegotiationInit

\* The variables of the components that are not explored stay as they are.
RateStep ==
    /\ part = "rate" /\ RateNext
    /\ UNCHANGED <<part, vars, gateVars, authVars, dialVars, securityVars, negoVars>>

AdmissionStep ==
    /\ part = "adm" /\ Next
    /\ UNCHANGED <<part, rateVars, gateVars, authVars, dialVars, securityVars,
                   negoVars>>

GateStep ==
    /\ part = "gate" /\ GateNext
    /\ UNCHANGED <<part, rateVars, vars, authVars, dialVars, securityVars, negoVars>>

AuthStep ==
    /\ part = "auth" /\ Auth!Next
    /\ UNCHANGED <<part, rateVars, vars, gateVars, dialVars, securityVars, negoVars>>

DialStep ==
    /\ part = "dial" /\ Dial!DialNext
    /\ UNCHANGED <<part, rateVars, vars, gateVars, authVars, securityVars, negoVars>>

ReloadStep ==
    /\ part = "rel" /\ ReloadNext
    /\ UNCHANGED <<part, rateVars, vars, gateVars, authVars, dialVars, negoVars>>

NegoStep ==
    /\ part = "nego" /\ Nego!NegotiationNext
    /\ UNCHANGED <<part, rateVars, vars, gateVars, authVars, dialVars, securityVars>>

ServerVars == <<part, rateVars, vars, gateVars, authVars, dialVars, securityVars,
                negoVars>>

ServerNext ==
    \/ RateStep \/ AdmissionStep \/ GateStep \/ AuthStep \/ DialStep
    \/ ReloadStep \/ NegoStep

ServerSpec == ServerInit /\ [][ServerNext]_ServerVars

-----------------------------------------------------------------------------
\* Both ends of a handshake are right about each other: whoever the server
\* authenticates is the client at the other end of this very carrier, with
\* the right secret, a valid credential and clocks within the skew
\* (authenticate_carrier); a client that is up is served, and one that gives
\* up for its credentials was refused for them (is_credential_rejection); the
\* replay cache stays within its capacity and in step with its queue.
HandshakeSound ==
    /\ Auth!AuthenticationSound
    /\ Auth!EndsAgree
    /\ Auth!CacheConsistent

\* The replay cache refuses exactly what it has to remember: a pair is
\* accepted if and only if it is not among the last MaxEntries pairs accepted
\* within the window, however the wall clock jumps (ReplayCache).
ReplayExact == [][Auth!ReplayExact]_ServerVars

\* Dials respect the policy whatever DNS answers: no metadata address is
\* dialled in any spelling, every policy that lets a private address through
\* was warned about, a name is looked up only if some rule could allow it, a
\* denial before resolution is one after it; "target unavailable" means that
\* every address was tried; and no dial permit leaks, also when a race is
\* lost (evaluate_pre_resolve, connect_first_successful).
DialsSound ==
    /\ Dial!MetadataNeverDialed
    /\ Dial!PrivateDialsWarned
    /\ Dial!LookupNeedsAllow
    /\ Dial!PreResolveSound
    /\ Dial!UnavailableMeansTried
    /\ Dial!DialTypeOK
    /\ Dial!DialPermitsExact

\* The limits both ends derive fit each other, across reloads: every
\* configuration validate_limits accepts yields settings a client can
\* negotiate, the client's limits are the server's, a relay's chunk fits a
\* frame of its peer, the replay cache covers twice the skew in force, and
\* the keepalive comes before the idle timeout.
LimitsSound ==
    /\ Nego!ValidConfigNegotiates
    /\ Nego!LimitsAgree
    /\ Nego!ChunksFit
    /\ Nego!ReplayCoversSkew
    /\ Nego!KeepaliveBeatsIdle

=============================================================================

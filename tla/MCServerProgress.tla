-------------------------- MODULE MCServerProgress --------------------------
(* Liveness of the server's components, in small instances, and the buffer    *)
(* budget of MCBufferBudget.                                                  *)
(* A behaviour explores ONE component: `part`, chosen in the initial state,  *)
(* says which, and the variables of the others keep their initial values.  So *)
(* the state spaces of the components add up and do not multiply, and one run *)
(* checks each of them as if it were alone.                                   *)
EXTENDS MCBufferBudget, MCValues

VARIABLE part    \* the component that this behaviour explores

-----------------------------------------------------------------------------
\* The rate limiter: two forms of one IPv4 address and an allowlisted host, a
\* map of one entry.
VARIABLES rate_entries, rate_lastPrune, rate_flight, rate_recent

rateVars == <<rate_entries, rate_lastPrune, rate_flight, rate_recent>>

Rate == INSTANCE RateLimiter WITH
    Addrs <- SharedAddrs, Allowlist <- ListedAddrs, MaxFailures <- 2, Window <- 2,
    Ban <- 2, PRUNE_INTERVAL <- 2, PRUNE_THRESHOLD <- 1, MAX_ENTRIES <- 1,
    EVICTION_BATCH_SIZE <- 1, U32_MAX <- 4, MaxFlight <- 2, entries <- rate_entries,
    lastPrune <- rate_lastPrune, flight <- rate_flight, recent <- rate_recent

-----------------------------------------------------------------------------
\* The listener without masking and without a shutdown deadline.
VARIABLES adm_loop, adm_failures, adm_shutdown, adm_ready, adm_pc, adm_valid,
          adm_hsFree, adm_ssFree, adm_hsHeld, adm_ssHeld, adm_hsGauge, adm_ssGauge,
          adm_told

admVars == <<adm_loop, adm_failures, adm_shutdown, adm_ready, adm_pc, adm_valid,
             adm_hsFree, adm_ssFree, adm_hsHeld, adm_ssHeld, adm_hsGauge,
             adm_ssGauge, adm_told>>

Admission == INSTANCE ServerAdmission WITH
    TcpConns <- {"t1"}, QuicConns <- {"q1"}, MaxSessions <- 1, MaxHandshakes <- 1,
    Masking <- "absent", HandshakeTimeout <- TRUE, ShutdownTimeout <- FALSE,
    loop <- adm_loop, failures <- adm_failures, shutdown <- adm_shutdown,
    ready <- adm_ready, pc <- adm_pc, valid <- adm_valid, hsFree <- adm_hsFree,
    ssFree <- adm_ssFree, hsHeld <- adm_hsHeld, ssHeld <- adm_ssHeld,
    hsGauge <- adm_hsGauge, ssGauge <- adm_ssGauge, told <- adm_told

-----------------------------------------------------------------------------
\* The handshake over one carrier.
VARIABLES auth_clock, auth_cred, auth_cache, auth_log, auth_sv, auth_cl, auth_toC,
          auth_toS

authVars == <<auth_clock, auth_cred, auth_cache, auth_log, auth_sv, auth_cl,
             auth_toC, auth_toS>>

Auth == INSTANCE Authentication WITH
    Silent <- {"a1"}, Carriers <- {"a1"}, ServerNonces <- {1},
    ClientNonces <- {1, 2}, MaxTime <- 1, AllowedSkew <- 0, Clients <- OneClient,
    ClientClocks <- {0, 1001}, Configured <- Credentials, Window <- 1,
    MaxEntries <- 1, clock <- auth_clock, cred <- auth_cred, cache <- auth_cache,
    log <- auth_log, sv <- auth_sv, cl <- auth_cl, toC <- auth_toC, toS <- auth_toS

-----------------------------------------------------------------------------
\* The dialer under one permissive policy.
VARIABLES dial_rules, dial_step, dial_target, dial_looked_up, dial_addrs,
          dial_next_index, dial_tasks, dial_failed, dial_result, dial_free

dialVars == <<dial_rules, dial_step, dial_target, dial_looked_up, dial_addrs,
             dial_next_index, dial_tasks, dial_failed, dial_result, dial_free>>

Dial == INSTANCE Dialer WITH
    NONE <- NONE, Opens <- {1, 2}, PolicySets <- AllowAll,
    Targets <- {Domain(<<"com">>)}, Identity <- Identity, Answers <- Answers,
    OPEN_DIAL_LIMIT <- 1, TARGET_CONNECT_PARALLELISM <- 2,
    TARGET_RESOLUTION_ADDR_LIMIT <- 2, rules <- dial_rules, step <- dial_step,
    target <- dial_target, looked_up <- dial_looked_up, addrs <- dial_addrs,
    next_index <- dial_next_index, tasks <- dial_tasks, failed <- dial_failed,
    result <- dial_result, free <- dial_free

-----------------------------------------------------------------------------
\* Reloads whose job may hang until the timeout.
VARIABLES rel_caller, rel_req, rel_queue, rel_phase, rel_serving, rel_job,
          rel_number, rel_next, rel_current, rel_quic, rel_gauge, rel_answer,
          rel_lapsed, rel_conn

relVars == <<rel_caller, rel_req, rel_queue, rel_phase, rel_serving, rel_job,
             rel_number, rel_next, rel_current, rel_quic, rel_gauge, rel_answer,
             rel_lapsed, rel_conn>>

Reload == INSTANCE SecurityReload WITH
    Callers <- {"r1", "r2"}, Main <- "r1", Sessions <- {}, Keys <- {},
    MaxReloads <- 2, Timeouts <- TRUE, caller <- rel_caller, req <- rel_req,
    queue <- rel_queue, phase <- rel_phase, serving <- rel_serving, job <- rel_job,
    number <- rel_number, next <- rel_next, current <- rel_current,
    quic <- rel_quic, gauge <- rel_gauge, answer <- rel_answer,
    lapsed <- rel_lapsed, conn <- rel_conn

-----------------------------------------------------------------------------
\* The frame reader, one frame.
VARIABLES fr_stream, fr_first, fr_second, fr_pending, fr_wire, fr_closed, fr_buffer,
          fr_got, fr_outcome, fr_consumed

frVars == <<fr_stream, fr_first, fr_second, fr_pending, fr_wire, fr_closed,
             fr_buffer, fr_got, fr_outcome, fr_consumed>>

Frames == INSTANCE FrameStream WITH
    W <- 4, VERSION <- 1, FrameTypes <- {1, 2}, REQUIRED_FLAGS <- 4..7,
    max_frame_size <- 3, MAX_ENCODED_LEN <- 9, Streams <- FewStreams,
    stream <- fr_stream, first <- fr_first, second <- fr_second,
    pending <- fr_pending, wire <- fr_wire, closed <- fr_closed,
    buffer <- fr_buffer, got <- fr_got, outcome <- fr_outcome,
    consumed <- fr_consumed

-----------------------------------------------------------------------------
\* Every component starts in an initial state of its own; those with several
\* start in any of them when they are the one explored.
ProgressInit ==
    /\ part \in {"buf", "rate", "adm", "auth", "dial", "rel", "fr"}
    /\ Init
    /\ Rate!RateInit
    /\ Admission!Init
    /\ Auth!Init
    /\ part # "auth" => /\ auth_cred = Cred("Active", 0, 0)
                        /\ \A k \in DOMAIN auth_cl :
                              <<auth_cl[k].key, auth_cl[k].secret>> = Right
    /\ \/ part = "dial"
       \/ /\ part # "dial"
          /\ dial_rules = CHOOSE r \in AllowAll : TRUE
    /\ Dial!DialInit
    /\ Reload!ReloadInit
    /\ \/ part = "fr"
       \/ /\ part # "fr"
          /\ fr_stream = <<Empty>>
    /\ Frames!FrameInit

\* The variables of the components that are not explored stay as they are.
BufferStep ==
    /\ part = "buf" /\ Next
    /\ UNCHANGED <<part, rateVars, admVars, authVars, dialVars, relVars, frVars>>

RateStep ==
    /\ part = "rate" /\ Rate!RateNext
    /\ UNCHANGED <<part, vars, admVars, authVars, dialVars, relVars, frVars>>

AdmissionStep ==
    /\ part = "adm" /\ Admission!Next
    /\ UNCHANGED <<part, vars, rateVars, authVars, dialVars, relVars, frVars>>

AuthStep ==
    /\ part = "auth" /\ Auth!Next
    /\ UNCHANGED <<part, vars, rateVars, admVars, dialVars, relVars, frVars>>

DialStep ==
    /\ part = "dial" /\ Dial!DialNext
    /\ UNCHANGED <<part, vars, rateVars, admVars, authVars, relVars, frVars>>

ReloadStep ==
    /\ part = "rel" /\ Reload!ReloadNext
    /\ UNCHANGED <<part, vars, rateVars, admVars, authVars, dialVars, frVars>>

FramesStep ==
    /\ part = "fr" /\ Frames!FrameNext
    /\ UNCHANGED <<part, vars, rateVars, admVars, authVars, dialVars, relVars>>

ProgressVars == <<part, vars, rateVars, admVars, authVars, dialVars, relVars, frVars>>

\* The other components may come to rest; the budget never gets stuck.
Rest == part # "buf" /\ UNCHANGED ProgressVars

ProgressNext ==
    \/ BufferStep \/ RateStep \/ AdmissionStep \/ AuthStep \/ DialStep
    \/ ReloadStep \/ FramesStep \/ Rest

\* The variables of the component that is explored.
Explored ==
    CASE part = "buf" -> vars
      [] part = "rate" -> rateVars
      [] part = "adm" -> admVars
      [] part = "auth" -> authVars
      [] part = "dial" -> dialVars
      [] part = "rel" -> relVars
      [] part = "fr" -> frVars

\* What is treated fairly, component by component (the Fairness of each
\* module).  A behaviour stays in one component, so conditions of different
\* components can share a formula: its disjuncts are never enabled together.
FirstTask ==
    /\ UNCHANGED part
    /\ \/ part = "rate" /\ Rate!Tick
       \/ part = "adm" /\ (Admission!WakeUp \/ Admission!Close)
       \/ part = "auth" /\ Auth!Handshake("a1")
       \/ part = "dial" /\ Dial!DialStep(1)
       \/ part = "rel" /\ Reload!LoopStep
       \/ part = "fr" /\ Frames!ReaderStep

SecondTask ==
    /\ UNCHANGED part
    /\ \/ part = "adm" /\ Admission!Driven("t1")
       \/ part = "auth" /\ Auth!ServerTimeout("a1")
       \/ part = "dial" /\ Dial!DialStep(2)
       \/ part = "rel" /\ Reload!Stop

ThirdTask ==
    /\ UNCHANGED part
    /\ \/ part = "adm" /\ Admission!Driven("q1")
       \/ part = "auth" /\ Auth!ClientTimeout("a1")
       \/ part = "rel" /\ Reload!Send("r1")

FourthTask ==
    /\ UNCHANGED part
    /\ part = "rel" /\ Reload!Send("r2")

ProgressFairness ==
    /\ WF_Explored(FirstTask)
    /\ WF_Explored(SecondTask)
    /\ WF_Explored(ThirdTask)
    /\ WF_Explored(FourthTask)

ProgressSpec == ProgressInit /\ [][ProgressNext]_ProgressVars /\ ProgressFairness

-----------------------------------------------------------------------------
\* Shutdown completes: with or without a shutdown deadline, whatever the
\* peers do, the loop closes, and then no connection task is left and the
\* server is not ready.
ShutdownCompletes == Admission!ShutdownCompletes

\* Nobody waits on the server for ever, whatever its peers do: a ban ends
\* although attempts in flight extend it, a handshake gives its permit back
\* and is resolved at both ends, a dial returns, a reload is answered even if
\* its job hangs, and a frame reader settles once the carrier is closed.
WaitsEnd ==
    /\ Rate!BanEnds
    /\ Admission!HandshakeEnds
    /\ (part = "auth" => Auth!HandshakeResolves)
    /\ Dial!DialReturns
    /\ Reload!EveryReloadAnswered
    /\ Frames!ReaderSettles

=============================================================================

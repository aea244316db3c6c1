----------------------------- MODULE ClientPool -----------------------------
(* The client's session manager and SOCKS listener (uk-client relay/         *)
(* session_manager.rs, relay/listener.rs, config_state.rs).  SOCKS           *)
(* connections admit flows on pooled carrier sessions, growing the pool      *)
(* under connect_lock; the maintainer keeps a health session; the listener's *)
(* loop accepts connections, applies reloads under config_publish_lock and   *)
(* finally shuts the pool down.  A dial or a lock may suspend a task at      *)
(* every step, so each of them interleaves with all the others.              *)
EXTENDS Integers, FiniteSets, FiniteSetsExt

CONSTANTS
    Conns,              \* SOCKS connections
    Maintainer,         \* the health task
    Sessions,           \* identities for carrier sessions, 1..n
    Nobody,             \* holds a free lock, is the session of an idle task
    max_carrier_sessions, max_socks_connections,
    max_session_streams,   \* max_streams of a session
    RetryBase, SERVER_CONNECT_RETRY_MAX,    \* reconnect delays; RetryBase 0 disables
    MaxReloads, MaxDeaths, MaxFailures

VARIABLES
    generation,         \* of the published configuration
    connect_lock, config_publish_lock,  \* the holder, or Nobody
    pool,               \* published sessions
    sess,               \* session -> [st, gen, draining, pooled]
    closers,            \* sessions a background task is closing
    hand,               \* sessions the listener took from the pool, to drain or close
    recent_connect_failure, \* [gen, left] of the remembered failure; left = 0: none
    consecutive_connect_failures,
    shut,               \* the manager's closed flag
    stop,               \* the shutdown signal
    listener,           \* where the listener's loop is
    pc, at, snap, tries,\* per task: step, session, snapshot generation, attempts
    deaths, dialFailures

poolVars == <<generation, connect_lock, config_publish_lock, pool, sess, closers, hand,
              recent_connect_failure, consecutive_connect_failures, shut, stop,
              listener, pc, at, snap, tries, deaths, dialFailures>>
taskVars == <<pc, at, snap, tries>>
cfgVars == <<generation, recent_connect_failure, consecutive_connect_failures>>
lockVars == <<connect_lock, config_publish_lock>>
bounds == <<deaths, dialFailures>>

Tasks == Conns \cup {Maintainer}

(* Config::validate refuses a pool without room (config.rs); the listener's  *)
(* reload and "nobody" are told apart from the tasks.                        *)
ASSUME PoolAssumption ==
    /\ Maintainer \notin Conns /\ Nobody \notin Tasks /\ "reload" \notin Tasks \cup {Nobody}
    /\ max_carrier_sessions \in Nat \ {0} /\ MaxReloads \in Nat

NoFailure == [gen |-> 0, left |-> 0]
Free == [st |-> "closed", gen |-> 0, draining |-> FALSE, pooled |-> FALSE]
Dialing == {"dial", "remember", "publish", "push"}

PoolInit ==
    /\ generation = 1
    /\ connect_lock = Nobody /\ config_publish_lock = Nobody
    /\ pool = {} /\ closers = {} /\ hand = {}
    /\ sess = [s \in Sessions |-> Free]
    /\ recent_connect_failure = NoFailure /\ consecutive_connect_failures = 0
    /\ shut = FALSE /\ stop = FALSE /\ listener = "serve"
    /\ pc = [t \in Tasks |-> IF t = Maintainer THEN "admit" ELSE "none"]
    /\ at = [t \in Tasks |-> Nobody]
    /\ snap = [t \in Tasks |-> 0]
    /\ tries = [t \in Tasks |-> 0]
    /\ deaths = 0 /\ dialFailures = 0

Open(s) == sess[s].st = "open"
live_sessions == {s \in pool : Open(s)}
(* admit_flow and first_live_session work on a copy of the pool: a session   *)
(* that has since been taken out of it is still a candidate until its        *)
(* draining or closed flag is set.                                           *)
Candidates ==
    {s \in pool \cup hand \cup closers : Open(s) /\ sess[s].pooled /\ ~sess[s].draining}
Relays(s) == {t \in Conns : pc[t] = "relay" /\ at[t] = s}
Permits(s) == {t \in Conns : pc[t] \in {"held", "relay"} /\ at[t] = s}
WithRoom == {s \in Candidates : Cardinality(Permits(s)) < max_session_streams}
FailureActive == recent_connect_failure.left > 0 /\ recent_connect_failure.gen = generation

Unlock(t) ==
    /\ connect_lock' = IF connect_lock = t THEN Nobody ELSE connect_lock
    /\ config_publish_lock' = IF config_publish_lock = t THEN Nobody ELSE config_publish_lock

(* Task t leaves the admission path for step p, dropping its locks. *)
Leave(t, p, s) ==
    /\ Unlock(t)
    /\ pc' = [pc EXCEPT ![t] = p]
    /\ at' = [at EXCEPT ![t] = s]
    /\ snap' = [snap EXCEPT ![t] = 0]
    /\ UNCHANGED tries

(* A connection ends with an error; the maintainer pauses before it retries, *)
(* or returns once the manager is closed.                                    *)
Failed(t) == Leave(t, IF t # Maintainer THEN "done"
                      ELSE IF shut THEN "done" ELSE "pause", Nobody)

----------------------------------------------------------------------------
(* spawn_accepted: over the limit the connection is shut down at once. *)
Accept(t) ==
    /\ listener = "serve" /\ t \in Conns /\ pc[t] = "none"
    /\ pc' = [pc EXCEPT ![t] =
                IF Cardinality({c \in Conns : pc[c] \notin {"none", "done"}})
                     < max_socks_connections THEN "admit" ELSE "done"]
    /\ UNCHANGED <<cfgVars, lockVars, pool, sess, closers, hand, shut, stop, listener,
                   at, snap, tries, bounds>>

(* admit_flow for a connection, first_live_session for the maintainer: both  *)
(* prune closed sessions as they look, before and again under connect_lock.  *)
Admit(t) ==
    /\ pc[t] = "admit" \/ (pc[t] = "locked" /\ ~shut)
    /\ t = Maintainer /\ pc[t] = "admit" => ~stop
    /\ t \in Conns => ~shut
    /\ pool' = live_sessions
    /\ \/ /\ t \in Conns
          /\ \E s \in WithRoom : Leave(t, "held", s)
       \/ /\ t = Maintainer
          /\ \E s \in Candidates : Leave(t, "watch", s)
       \/ /\ pool \cap (IF t = Maintainer THEN Candidates ELSE WithRoom) = {}
          /\ pc' = [pc EXCEPT ![t] = IF @ = "admit" THEN "wait" ELSE "grow"]
          /\ UNCHANGED <<lockVars, at, snap, tries>>
    /\ UNCHANGED <<cfgVars, sess, closers, hand, shut, stop, listener, bounds>>

(* Both look at the closed flag first, the maintainer only under the lock. *)
RefusedAsClosed(t) ==
    /\ shut
    /\ pc[t] = "locked" \/ (pc[t] = "admit" /\ t \in Conns)
    /\ Failed(t)
    /\ UNCHANGED <<cfgVars, pool, sess, closers, hand, shut, stop, listener, bounds>>

AcquireConnectLock(t) ==
    /\ pc[t] = "wait" /\ connect_lock = Nobody
    /\ connect_lock' = t
    /\ pc' = [pc EXCEPT ![t] = "locked"]
    /\ UNCHANGED <<cfgVars, config_publish_lock, pool, sess, closers, hand, shut, stop,
                   listener, at, snap, tries, bounds>>

GrowOrRefuseMutant(t) ==
    /\ pc[t] = "grow"
    /\ pool' = live_sessions
    /\ \/ /\ FailureActive /\ Failed(t)
       \/ /\ ~FailureActive
          /\ pc' = [pc EXCEPT ![t] = "dial"]
          /\ snap' = [snap EXCEPT ![t] = generation]
          /\ UNCHANGED <<lockVars, at, tries>>
    /\ UNCHANGED <<cfgVars, sess, closers, hand, shut, stop, listener, bounds>>

(* Under connect_lock with no room: a full pool refuses the flow, a recent   *)
(* failure refuses it too, otherwise the task dials.                         *)
GrowOrRefuse(t) ==
    /\ pc[t] = "grow"
    /\ pool' = live_sessions
    /\ \/ /\ t \in Conns /\ Cardinality(live_sessions) >= max_carrier_sessions
          /\ Leave(t, "done", Nobody)
       \/ /\ t \in Conns => Cardinality(live_sessions) < max_carrier_sessions
          /\ FailureActive /\ Failed(t)
       \/ /\ t \in Conns => Cardinality(live_sessions) < max_carrier_sessions
          /\ ~FailureActive
          /\ pc' = [pc EXCEPT ![t] = "dial"]
          /\ snap' = [snap EXCEPT ![t] = generation]
          /\ UNCHANGED <<lockVars, at, tries>>
    /\ UNCHANGED <<cfgVars, sess, closers, hand, shut, stop, listener, bounds>>

(* The identity of a closed session nobody refers to is used again. *)
Unreferenced(s) ==
    ~Open(s) /\ s \notin pool \cup hand \cup closers /\ \A t \in Tasks : at[t] # s

DialSucceeds(t) ==
    /\ pc[t] = "dial"
    /\ \E s \in Sessions :
          /\ Unreferenced(s) /\ \A r \in Sessions : Unreferenced(r) => s <= r
          /\ sess' = [sess EXCEPT ![s] = [Free EXCEPT !.st = "open", !.gen = snap[t]]]
          /\ at' = [at EXCEPT ![t] = s]
    /\ pc' = [pc EXCEPT ![t] = "publish"]
    /\ UNCHANGED <<cfgVars, lockVars, pool, closers, hand, shut, stop, listener,
                   snap, tries, bounds>>

DialFails(t) ==
    /\ pc[t] = "dial" /\ dialFailures < MaxFailures
    /\ dialFailures' = dialFailures + 1
    /\ pc' = [pc EXCEPT ![t] = "remember"]
    /\ UNCHANGED <<cfgVars, lockVars, pool, sess, closers, hand, shut, stop, listener,
                   at, snap, tries, deaths>>

calculate_reconnect_backoff(base, failures) ==
    Min({SERVER_CONNECT_RETRY_MAX, base * 2 ^ Min({failures, 10})})
calculate_reconnect_jitter_range(backoff) ==
    LET low == Max({backoff \div 2, 1}) IN low..Max({(backoff * 3) \div 2, low})

(* Under the publish lock: a failure of an older generation is not recorded  *)
(* and the connect is retried (the maintainer pauses first).                 *)
remember_connect_failure(t) ==
    /\ pc[t] = "remember" /\ config_publish_lock = Nobody
    /\ \/ /\ generation # snap[t]
          /\ IF t = Maintainer THEN Failed(t) ELSE Leave(t, "admit", Nobody)
          /\ UNCHANGED cfgVars
       \/ /\ generation = snap[t] /\ RetryBase = 0
          /\ Failed(t) /\ UNCHANGED cfgVars
       \/ /\ generation = snap[t] /\ RetryBase > 0
          /\ \E delay \in calculate_reconnect_jitter_range(
                  calculate_reconnect_backoff(RetryBase, consecutive_connect_failures)) :
                recent_connect_failure' = [gen |-> snap[t], left |-> delay]
          /\ consecutive_connect_failures' = consecutive_connect_failures + 1
          /\ Failed(t)
          /\ UNCHANGED generation
    /\ UNCHANGED <<pool, sess, closers, hand, shut, stop, listener, bounds>>

BeginPublishMutant(t) ==
    /\ pc[t] = "publish" /\ config_publish_lock = Nobody
    /\ recent_connect_failure' = NoFailure /\ consecutive_connect_failures' = 0
    /\ config_publish_lock' = t
    /\ pc' = [pc EXCEPT ![t] = "push"]
    /\ UNCHANGED <<generation, connect_lock, closers, at, snap, tries>>
    /\ UNCHANGED <<pool, sess, hand, shut, stop, listener, bounds>>

(* A session dialled under an older configuration is dropped: the guard of   *)
(* PendingClientSession hands it to a background close.                      *)
BeginPublish(t) ==
    /\ pc[t] = "publish" /\ config_publish_lock = Nobody
    /\ \/ /\ generation # snap[t]
          /\ closers' = closers \cup {at[t]}
          /\ IF t = Maintainer THEN Failed(t) ELSE Leave(t, "admit", Nobody)
          /\ UNCHANGED cfgVars
       \/ /\ generation = snap[t]
          /\ recent_connect_failure' = NoFailure /\ consecutive_connect_failures' = 0
          /\ config_publish_lock' = t
          /\ pc' = [pc EXCEPT ![t] = "push"]
          /\ UNCHANGED <<generation, connect_lock, closers, at, snap, tries>>
    /\ UNCHANGED <<pool, sess, hand, shut, stop, listener, bounds>>

(* Under the pool lock: publish unless the manager has closed meanwhile; the *)
(* dialling connection then admits its flow on the session if it still can.  *)
Push(t) ==
    /\ pc[t] = "push"
    /\ \/ /\ shut
          /\ closers' = closers \cup {at[t]}
          /\ Failed(t) /\ UNCHANGED <<pool, sess>>
       \/ /\ ~shut
          /\ pool' = pool \cup {at[t]}
          /\ sess' = [sess EXCEPT ![at[t]].pooled = TRUE]
          /\ IF t = Maintainer THEN Leave(t, "watch", at[t])
             ELSE IF Open(at[t]) THEN Leave(t, "held", at[t]) ELSE Leave(t, "admit", Nobody)
          /\ UNCHANGED closers
    /\ UNCHANGED <<cfgVars, hand, shut, stop, listener, bounds>>

Closed(s) == [sess EXCEPT ![s].st = "closed"]

(* invalidate: a pooled session leaves the pool for a background close. *)
invalidate(s) ==
    \/ /\ s \in pool
       /\ pool' = pool \ {s} /\ closers' = closers \cup {s} /\ UNCHANGED sess
    \/ /\ s \notin pool
       /\ sess' = Closed(s) /\ UNCHANGED <<pool, closers>>

Retry(t) ==
    IF tries[t] = 0
    THEN /\ pc' = [pc EXCEPT ![t] = "admit"] /\ tries' = [tries EXCEPT ![t] = 1]
         /\ at' = [at EXCEPT ![t] = Nobody] /\ UNCHANGED snap
    ELSE /\ pc' = [pc EXCEPT ![t] = "done"] /\ at' = [at EXCEPT ![t] = Nobody]
         /\ UNCHANGED <<snap, tries>>

(* ClientSession::open_flow seen from the manager's two attempts.  An error  *)
(* other than draining invalidates the session it happened on.               *)
OpenFlow(t) ==
    /\ pc[t] = "held"
    /\ \/ /\ Open(at[t]) /\ ~sess[at[t]].draining
          /\ \/ pc' = [pc EXCEPT ![t] = "relay"] /\ UNCHANGED at
             \/ pc' = [pc EXCEPT ![t] = "done"] /\ at' = [at EXCEPT ![t] = Nobody]
          /\ UNCHANGED <<pool, sess, closers, snap, tries, deaths>>
       \/ /\ sess[at[t]].draining
          /\ Retry(t) /\ UNCHANGED <<pool, sess, closers, deaths>>
       \/ /\ ~sess[at[t]].draining
          /\ IF Open(at[t]) THEN deaths < MaxDeaths /\ deaths' = deaths + 1
                            ELSE UNCHANGED deaths
          /\ invalidate(at[t]) /\ Retry(t)
    /\ UNCHANGED <<cfgVars, lockVars, hand, shut, stop, listener, dialFailures>>

(* The relay ends and remove_flow closes a draining session it leaves empty. *)
RelayEnds(t) ==
    /\ pc[t] = "relay"
    /\ pc' = [pc EXCEPT ![t] = "done"]
    /\ at' = [at EXCEPT ![t] = Nobody]
    /\ sess' = IF sess[at[t]].draining /\ Relays(at[t]) = {t} THEN Closed(at[t]) ELSE sess
    /\ UNCHANGED <<cfgVars, lockVars, pool, closers, hand, shut, stop, listener,
                   snap, tries, bounds>>

(* A connection told to stop drops whatever it was awaiting: its locks, and  *)
(* with the guard a session it has dialled and not yet published.            *)
Cancel(t) ==
    /\ t \in Conns /\ stop /\ pc[t] \in {"admit", "wait", "locked", "grow", "held"} \cup Dialing
    /\ closers' = IF pc[t] \in {"publish", "push"} THEN closers \cup {at[t]} ELSE closers
    /\ Leave(t, "done", Nobody)
    /\ UNCHANGED <<cfgVars, pool, sess, hand, shut, stop, listener, bounds>>

(* maintain_health_session: watch the session until it closes, pause after   *)
(* an error, return when told to stop.                                       *)
MaintainerWakes ==
    /\ \/ pc[Maintainer] = "watch" /\ ~Open(at[Maintainer])
       \/ pc[Maintainer] = "pause"
       \/ pc[Maintainer] \in {"admit", "watch", "pause"} /\ stop
    /\ Leave(Maintainer, IF stop THEN "done" ELSE "admit", Nobody)
    /\ UNCHANGED <<cfgVars, pool, sess, closers, hand, shut, stop, listener, bounds>>

CooldownPasses ==
    /\ recent_connect_failure.left > 0
    /\ recent_connect_failure' = [recent_connect_failure EXCEPT !.left = @ - 1]
    /\ UNCHANGED <<generation, consecutive_connect_failures, lockVars, pool, sess, closers,
                   hand, shut, stop, listener, taskVars, bounds>>

CarrierDies(s) ==
    /\ Open(s) /\ deaths < MaxDeaths
    /\ deaths' = deaths + 1
    /\ sess' = Closed(s)
    /\ UNCHANGED <<cfgVars, lockVars, pool, closers, hand, shut, stop, listener,
                   taskVars, dialFailures>>

Reap(s) ==
    /\ s \in closers
    /\ closers' = closers \ {s}
    /\ sess' = Closed(s)
    /\ UNCHANGED <<cfgVars, lockVars, pool, hand, shut, stop, listener, taskVars, bounds>>

----------------------------------------------------------------------------
(* The listener's loop.  A reload validates off the runtime, then holds the  *)
(* publish lock while it checks compatibility and refreshes the CA cache.    *)
ReloadArrives ==
    /\ listener = "serve" /\ generation <= MaxReloads
    /\ listener' = "validated"
    /\ UNCHANGED <<cfgVars, lockVars, pool, sess, closers, hand, shut, stop, taskVars, bounds>>

ReloadLocks ==
    /\ listener = "validated" /\ config_publish_lock = Nobody
    /\ config_publish_lock' = "reload"
    /\ listener' = "refreshing"
    /\ UNCHANGED <<cfgVars, connect_lock, pool, sess, closers, hand, shut, stop,
                   taskVars, bounds>>

ReloadFails ==
    /\ listener \in {"validated", "refreshing"}
    /\ config_publish_lock' = IF listener = "refreshing" THEN Nobody ELSE config_publish_lock
    /\ listener' = "serve"
    /\ UNCHANGED <<cfgVars, connect_lock, pool, sess, closers, hand, shut, stop,
                   taskVars, bounds>>

ReloadApplies ==
    /\ listener = "refreshing"
    /\ generation' = generation + 1
    /\ recent_connect_failure' = NoFailure /\ consecutive_connect_failures' = 0
    /\ listener' = "applied"
    /\ UNCHANGED <<lockVars, pool, sess, closers, hand, shut, stop, taskVars, bounds>>

ReloadTakesPool ==
    /\ listener = "applied"
    /\ hand' = pool /\ pool' = {}
    /\ listener' = "draining"
    /\ UNCHANGED <<cfgVars, lockVars, sess, closers, shut, stop, taskVars, bounds>>

(* begin_drain, with its close_if_drained. *)
Drained(s) ==
    [sess EXCEPT ![s].draining = TRUE, ![s].st = IF Relays(s) = {} THEN "closed" ELSE @]

ReloadDrains ==
    /\ listener = "draining"
    /\ \/ \E s \in hand :
             /\ sess' = Drained(s)
             /\ hand' = hand \ {s}
             /\ UNCHANGED <<config_publish_lock, listener>>
       \/ /\ hand = {}
          /\ config_publish_lock' = Nobody /\ listener' = "serve"
          /\ UNCHANGED <<sess, hand>>
    /\ UNCHANGED <<cfgVars, connect_lock, pool, closers, shut, stop, taskVars, bounds>>

Shutdown ==
    /\ listener = "serve" /\ ~stop
    /\ stop' = TRUE /\ listener' = "joining"
    /\ UNCHANGED <<cfgVars, lockVars, pool, sess, closers, hand, shut, taskVars, bounds>>

(* drain_socks_tasks: every connection has ended, or the timeout aborts them *)
(* all, which drops their locks and their unpublished sessions.              *)
JoinConnections ==
    /\ listener = "joining"
    /\ pc' = [t \in Tasks |-> IF t \in Conns THEN "done" ELSE pc[t]]
    /\ closers' = closers \cup {at[t] : t \in {c \in Conns : pc[c] \in {"publish", "push"}}}
    /\ connect_lock' = IF connect_lock \in Conns THEN Nobody ELSE connect_lock
    /\ config_publish_lock' = IF config_publish_lock \in Conns THEN Nobody ELSE config_publish_lock
    /\ at' = [t \in Tasks |-> IF t \in Conns THEN Nobody ELSE at[t]]
    /\ listener' = "joined"
    /\ UNCHANGED <<cfgVars, pool, sess, hand, shut, stop, snap, tries, bounds>>

CloseManager ==
    /\ listener = "joined"
    /\ shut' = TRUE /\ listener' = "closing"
    /\ UNCHANGED <<cfgVars, lockVars, pool, sess, closers, hand, stop, taskVars, bounds>>

ManagerTakesPool ==
    /\ listener = "closing"
    /\ hand' = pool /\ pool' = {}
    /\ listener' = "emptied"
    /\ UNCHANGED <<cfgVars, lockVars, sess, closers, shut, stop, taskVars, bounds>>

ManagerCloses(s) ==
    /\ listener = "emptied" /\ s \in hand
    /\ sess' = Closed(s)
    /\ hand' = hand \ {s}
    /\ UNCHANGED <<cfgVars, lockVars, pool, closers, shut, stop, listener, taskVars, bounds>>

(* The reapers are joined and the maintainer, wherever it is, is aborted. *)
AbortMaintainer ==
    /\ listener = "emptied" /\ hand = {}
    /\ closers' = IF pc[Maintainer] \in {"publish", "push"}
                  THEN closers \cup {at[Maintainer]} ELSE closers
    /\ Leave(Maintainer, "done", Nobody)
    /\ listener' = "done"
    /\ UNCHANGED <<cfgVars, pool, sess, hand, shut, stop, bounds>>

ListenerStep ==
    \/ ReloadLocks \/ ReloadFails \/ ReloadApplies \/ ReloadTakesPool \/ ReloadDrains
    \/ JoinConnections \/ CloseManager \/ ManagerTakesPool
    \/ (\E s \in Sessions : ManagerCloses(s)) \/ AbortMaintainer

TaskStep(t) ==
    \/ Admit(t) \/ RefusedAsClosed(t) \/ AcquireConnectLock(t) \/ GrowOrRefuse(t) \/ DialSucceeds(t) \/ DialFails(t)
    \/ remember_connect_failure(t) \/ BeginPublish(t) \/ Push(t) \/ OpenFlow(t)

PoolNext ==
    \/ \E t \in Conns : Accept(t) \/ RelayEnds(t) \/ Cancel(t)
    \/ \E t \in Tasks : TaskStep(t)
    \/ MaintainerWakes \/ CooldownPasses
    \/ \E s \in Sessions : CarrierDies(s) \/ Reap(s)
    \/ ReloadArrives \/ Shutdown \/ ListenerStep

----------------------------------------------------------------------------
Stopped == {"joined", "closing", "emptied", "done"}

(* Well-formed states.                                                       *)
PoolTypeOK ==
    /\ generation \in 1..(MaxReloads + 1)
    /\ pool \subseteq Sessions /\ closers \subseteq Sessions /\ hand \subseteq Sessions
    /\ connect_lock \in Tasks \cup {Nobody}
    /\ config_publish_lock \in Tasks \cup {Nobody, "reload"}
    /\ \A s \in Sessions : sess[s].st \in {"open", "closed"}
    /\ shut \in BOOLEAN /\ stop \in BOOLEAN

(* A reload publishes its configuration and empties the pool inside one      *)
(* critical section of config_publish_lock, and connect_and_pool publishes   *)
(* only under that lock after comparing generations: so whenever no reload   *)
(* is inside, every pooled session belongs to the current configuration.     *)
PooledAreCurrent ==
    config_publish_lock # "reload" => \A s \in pool : sess[s].gen = generation

(* The pool never outgrows max_carrier_sessions however many connections     *)
(* find it saturated at once: the size check and the push are both made      *)
(* under connect_lock, with a dial between them.                             *)
PoolBounded == Cardinality(live_sessions) <= max_carrier_sessions

(* No session is stranded (the purpose of PendingClientSession and of the    *)
(* reapers): an open session is in the pool, in the hands of the task that   *)
(* dialled it, taken by the listener to be drained or closed, waiting for a  *)
(* background close, or draining with a flow still relaying on it (a relay   *)
(* the shutdown timeout aborts leaves its draining session to the exit of    *)
(* the process).                                                             *)
NoSessionStranded ==
    \A s \in Sessions : Open(s) =>
        \/ s \in pool \cup hand \cup closers
        \/ \E t \in Tasks : at[t] = s /\ pc[t] \in {"publish", "push"}
        \/ sess[s].draining /\ (Relays(s) # {} \/ listener \in Stopped)

(* shutdown sets the flag and then empties the pool, connect_and_pool looks  *)
(* at the flag again under the pool lock: nothing is pooled once the         *)
(* manager has taken the pool, even by a dial that was under way.            *)
NothingPooledAfterShutdown == listener \in {"emptied", "done"} => pool = {}

(* A remembered connect failure belongs to the published configuration:      *)
(* remember_connect_failure compares generations under the publish lock and  *)
(* reload forgets the failure, so a new configuration is never refused for   *)
(* a failure of the old one.                                                 *)
FailureIsCurrent ==
    (recent_connect_failure.left > 0 /\ config_publish_lock # "reload")
        => recent_connect_failure.gen = generation

(* The pool never outgrows max_carrier_sessions, although the size check and *)
(* the push are separated by a dial; nothing is pooled once the manager has  *)
(* emptied the pool; and no open session is without somebody who will use or *)
(* close it (connect_and_pool, shutdown).                                    *)
PoolSound ==
    /\ PoolTypeOK /\ PoolBounded
    /\ NothingPooledAfterShutdown /\ NoSessionStranded

(* A reload leaves nothing of the old configuration in use or behind: unless *)
(* it is inside its critical section, every pooled session and every         *)
(* remembered connect failure is of the current generation, and no open      *)
(* session is without somebody who will use or close it (reload,             *)
(* connect_and_pool, remember_connect_failure).                              *)
OldConfigurationGone ==
    /\ PooledAreCurrent /\ FailureIsCurrent
    /\ NoSessionStranded

(* Every SOCKS connection's admission ends: with a flow, a refusal or an     *)
(* error.  Neither a reload that invalidates its dial nor a session that     *)
(* dies under it makes admission_for_new_flow loop for ever.                 *)
AdmissionEnds ==
    \A t \in Conns : (pc[t] = "admit") ~> (pc[t] \in {"relay", "done"})

(* The maintainer restores a carrier without any application traffic: when   *)
(* the last session is gone, some session is open again, unless the client   *)
(* is told to stop or every dial keeps failing.                              *)
CarrierRestored ==
    (\A s \in Sessions : ~Open(s)) ~> (stop \/ \E s \in Sessions : Open(s))

(* Once told to stop the listener finishes, and every session that was not   *)
(* already draining is closed.                                               *)
ShutdownClosesAll ==
    stop ~> (listener = "done" /\ \A s \in Sessions : ~Open(s) \/ sess[s].draining)

(* What a task does once the scheduler runs it or a timer fires.             *)
Driven(t) ==
    \/ Admit(t) \/ RefusedAsClosed(t) \/ GrowOrRefuse(t) \/ OpenFlow(t)
    \/ AcquireConnectLock(t) \/ DialSucceeds(t) \/ DialFails(t) \/ Push(t)
    \/ t = Maintainer /\ MaintainerWakes

(* Weak fairness for whatever waits only for the scheduler or a timer, strong *)
(* fairness for the holder of connect_lock that waits for config_publish_lock: *)
(* failing reloads may take that lock again and again, and a tokio mutex       *)
(* queues its waiters.                                                         *)
PoolFairness ==
    /\ \A t \in Tasks : WF_poolVars(Driven(t))
    /\ SF_poolVars(\E t \in Tasks : remember_connect_failure(t) \/ BeginPublish(t))
    /\ WF_poolVars(CooldownPasses)
    /\ WF_poolVars(\E s \in Sessions : Reap(s))
    /\ WF_poolVars(ListenerStep)

PoolSpec == PoolInit /\ [][PoolNext]_poolVars /\ PoolFairness
=============================================================================

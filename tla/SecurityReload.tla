--------------------------- MODULE SecurityReload ---------------------------
(***************************************************************************)
(* Security reload of uk-server: the SIGHUP loop (main.rs), the bounded    *)
(* reload channel and the accept loop that serves it (lib.rs), the         *)
(* blocking job that applies a candidate, the generation it publishes      *)
(* (security.rs) and the sessions that read it.                            *)
(*                                                                         *)
(* A candidate configuration is what the job can tell apart: whether it    *)
(* loads, whether a restart-only field changed, whether it validates, and  *)
(* the credentials it lists.  A published generation remembers the request *)
(* it came from, which stands for its TLS identity, mask keys, policy and  *)
(* skew: security.rs publishes them together, in one Arc.                  *)
(***************************************************************************)
EXTENDS Integers, Sequences, FiniteSets, FiniteSetsExt

CONSTANTS
    Callers,      \* tasks that hold a ServerReloadHandle
    Main,         \* the caller that is main's signal loop
    Sessions,     \* connections that authenticate and open flows
    Keys,         \* credentials
    MaxReloads,   \* bound on the reloads requested in a behaviour
    Timeouts      \* TRUE when a reload may outlast RELOAD_TIMEOUT

VARIABLES
    caller,    \* caller -> the request it waits for, 0 when it is idle
    req,       \* request -> candidate, in order of issue
    queue,     \* the reload channel: requests, oldest first
    phase,     \* the accept loop: "select", "awaiting", "draining" or "stopped"
    serving,   \* the request whose job the loop awaits, 0 otherwise
    job,       \* request -> where its blocking job is
    number,    \* request -> generation number its job drew, 0 before
    next,      \* SecurityState::next_generation
    current,   \* SecurityState::current
    quic,      \* request the QUIC endpoint's server config comes from
    gauge,     \* ServerMetrics: security generation
    answer,    \* request -> what the caller is told
    lapsed,    \* credentials whose validity has ended
    conn       \* session -> what it has read of the security state

securityVars == <<caller, req, queue, phase, serving, job, number, next, current, quic,
                  gauge, answer, lapsed, conn>>

reloadVars == <<caller, req, queue, phase, serving, job, number, next, current, quic,
                gauge, answer>>

INITIAL_GENERATION == 1
RELOAD_CHANNEL_CAPACITY == 1

Candidates == [kind : {"unloadable", "static", "invalid", "good"},
               creds : SUBSET Keys]
Requests == DOMAIN req
JobStates == {"none", "building", "built", "numbered", "published", "done", "failed"}
Replies == {"none", "ok", "rejected", "timeout", "stopped"}
Generations == [gen : Nat, from : Nat, creds : SUBSET Keys]

NoAuth == [gen |-> 0, from |-> 0, creds |-> {}]

ReloadInit ==
    /\ caller = [c \in Callers |-> 0]
    /\ req = <<>>
    /\ queue = <<>>
    /\ phase = "select"
    /\ serving = 0
    /\ job = <<>>
    /\ number = <<>>
    /\ next = INITIAL_GENERATION + 1
    /\ current = [gen |-> INITIAL_GENERATION, from |-> 0, creds |-> Keys]
    /\ quic = 0
    /\ gauge = INITIAL_GENERATION
    /\ answer = <<>>
    /\ lapsed = {}
    /\ conn = [s \in Sessions |->
                 [pc |-> "idle", auth |-> NoAuth, key |-> 0, granted |-> 0]]

-----------------------------------------------------------------------------
(* The callers: main's SIGHUP loop and any other holder of the handle.     *)

\* SIGHUP: queue_config_reload loads the file, then reload() or
\* report_load_failure() sends the result and waits for the answer.
Request(c) ==
    /\ caller[c] = 0
    /\ Len(req) < MaxReloads
    /\ \E cand \in Candidates :
         /\ req' = Append(req, cand)
         /\ job' = Append(job, "none")
         /\ number' = Append(number, 0)
         /\ caller' = [caller EXCEPT ![c] = Len(req) + 1]
         /\ answer' = Append(answer, IF phase = "stopped" THEN "stopped" ELSE "none")
    /\ UNCHANGED <<queue, phase, serving, next, current, quic, gauge, lapsed, conn>>

\* mpsc send: completes when the channel has room; its order is the order
\* in which the waiting senders are served.
Send(c) ==
    LET r == caller[c] IN
    /\ r # 0
    /\ answer[r] = "none"
    /\ job[r] = "none"
    /\ r \notin Range(queue)
    /\ phase # "stopped"
    /\ Len(queue) < RELOAD_CHANNEL_CAPACITY
    /\ queue' = Append(queue, r)
    /\ UNCHANGED <<caller, req, phase, serving, job, number, next, current, quic, gauge,
                   answer, lapsed, conn>>

\* The answer arrives; the caller may ask again.
Return(c) ==
    /\ caller[c] # 0
    /\ answer[caller[c]] # "none"
    /\ caller' = [caller EXCEPT ![c] = 0]
    /\ UNCHANGED <<req, queue, phase, serving, job, number, next, current, quic, gauge,
                   answer, lapsed, conn>>

-----------------------------------------------------------------------------
(* The accept loop serves one request at a time, inline.                   *)

\* handle_reload_request up to its await: a load failure is answered at
\* once, a candidate is given to spawn_blocking.
TakeRequest ==
    /\ phase = "select"
    /\ queue # <<>>
    /\ queue' = Tail(queue)
    /\ LET r == Head(queue) IN
         IF req[r].kind = "unloadable"
         THEN /\ answer' = [answer EXCEPT ![r] = "rejected"]
              /\ UNCHANGED <<phase, serving, job>>
         ELSE /\ job' = [job EXCEPT ![r] = "building"]
              /\ phase' = "awaiting"
              /\ serving' = r
              /\ UNCHANGED answer
    /\ UNCHANGED <<caller, req, number, next, current, quic, gauge, lapsed, conn>>

\* The job ended in time: the caller is told, the gauge follows a success.
JobJoined ==
    /\ phase = "awaiting"
    /\ job[serving] \in {"done", "failed"}
    /\ IF job[serving] = "done"
       THEN /\ answer' = [answer EXCEPT ![serving] = "ok"]
            /\ gauge' = number[serving]
       ELSE /\ answer' = [answer EXCEPT ![serving] = "rejected"]
            /\ UNCHANGED gauge
    /\ phase' = "select"
    /\ serving' = 0
    /\ UNCHANGED <<caller, req, queue, job, number, next, current, quic, lapsed, conn>>

\* RELOAD_TIMEOUT: the loop stops waiting; the blocking job goes on.
ReloadTimeout ==
    /\ Timeouts
    /\ phase = "awaiting"
    /\ job[serving] \notin {"done", "failed"}
    /\ answer' = [answer EXCEPT ![serving] = "timeout"]
    /\ phase' = "select"
    /\ serving' = 0
    /\ UNCHANGED <<caller, req, queue, job, number, next, current, quic, gauge,
                   lapsed, conn>>

\* The shutdown future of main is its signal loop: it resolves only while
\* no reload of its own is waiting.
BeginShutdown ==
    /\ phase = "select"
    /\ caller[Main] = 0
    /\ phase' = "draining"
    /\ UNCHANGED serving
    /\ UNCHANGED <<caller, req, queue, job, number, next, current, quic, gauge,
                   answer, lapsed, conn>>

\* run_on_listener_inner returns and drops the receiver: a request that is
\* in the channel, or still waiting for room in it, ends with ServerStopped.
Stop ==
    /\ phase = "draining"
    /\ phase' = "stopped"
    /\ UNCHANGED serving
    /\ queue' = <<>>
    /\ answer' = [r \in Requests |->
                    IF answer[r] = "none" /\ job[r] = "none" THEN "stopped" ELSE answer[r]]
    /\ UNCHANGED <<caller, req, job, number, next, current, quic, gauge, lapsed, conn>>

-----------------------------------------------------------------------------
(* The blocking job: apply_security_reload.                                *)

BuildMutant(r) ==
    /\ job[r] = "building"
    /\ job' = [job EXCEPT ![r] = IF req[r].kind = "good" THEN "built" ELSE "failed"]
    /\ current' = [gen |-> current.gen + 1, from |-> r, creds |-> req[r].creds]
    /\ UNCHANGED <<caller, req, queue, phase, serving, number, next, quic, gauge,
                   answer, lapsed, conn>>

\* Compatibility, validation, TLS and QUIC configurations, credentials and
\* policy: everything that can fail comes before the live state is touched.
Build(r) ==
    /\ job[r] = "building"
    /\ job' = [job EXCEPT ![r] = IF req[r].kind = "good" THEN "built" ELSE "failed"]
    /\ UNCHANGED <<caller, req, queue, phase, serving, number, next, current, quic, gauge,
                   answer, lapsed, conn>>

\* SecurityState::replace, first half: draw the number.
DrawNumber(r) ==
    /\ job[r] = "built"
    /\ job' = [job EXCEPT ![r] = "numbered"]
    /\ number' = [number EXCEPT ![r] = next]
    /\ next' = next + 1
    /\ UNCHANGED <<caller, req, queue, phase, serving, current, quic, gauge, answer, lapsed, conn>>

\* SecurityState::replace, second half: publish the generation.
Publish(r) ==
    /\ job[r] = "numbered"
    /\ job' = [job EXCEPT ![r] = "published"]
    /\ current' = [gen |-> number[r], from |-> r, creds |-> req[r].creds]
    /\ UNCHANGED <<caller, req, queue, phase, serving, number, next, quic, gauge, answer,
                   lapsed, conn>>

\* The QUIC identity follows.
SetQuic(r) ==
    /\ job[r] = "published"
    /\ job' = [job EXCEPT ![r] = "done"]
    /\ quic' = r
    /\ UNCHANGED <<caller, req, queue, phase, serving, number, next, current, gauge,
                   answer, lapsed, conn>>

-----------------------------------------------------------------------------
(* The connections that read the security state.                           *)

\* handle_connection: the authentication snapshot.
Snapshot(s) ==
    /\ conn[s].pc = "idle"
    /\ phase # "stopped"
    /\ conn' = [conn EXCEPT ![s].pc = "handshake", ![s].auth = current]
    /\ UNCHANGED <<reloadVars, lapsed>>

\* The handshake verified a response under the snapshot's credentials.
Authenticate(s) ==
    /\ conn[s].pc = "handshake"
    /\ \E k \in conn[s].auth.creds \ lapsed :
         conn' = [conn EXCEPT ![s].pc = "up", ![s].key = k]
    /\ UNCHANGED <<reloadVars, lapsed>>

OpenFlowMutant(s) ==
    /\ conn[s].pc = "up"
    /\ IF conn[s].key \in conn[s].auth.creds \ lapsed
       THEN conn' = [conn EXCEPT ![s].granted = conn[s].auth.gen]
       ELSE UNCHANGED conn
    /\ UNCHANGED <<reloadVars, lapsed>>

\* policy_snapshot: an open is judged by the generation in force now, and
\* refused when the credential is no longer listed or has lapsed.
OpenFlow(s) ==
    /\ conn[s].pc = "up"
    /\ IF conn[s].key \in current.creds \ lapsed
       THEN conn' = [conn EXCEPT ![s].granted = current.gen]
       ELSE UNCHANGED conn
    /\ UNCHANGED <<reloadVars, lapsed>>

\* The connection ends.
Disconnect(s) ==
    /\ conn[s].pc \in {"handshake", "up"}
    /\ conn' = [conn EXCEPT ![s] = [pc |-> "idle", auth |-> NoAuth, key |-> 0,
                                    granted |-> 0]]
    /\ UNCHANGED <<reloadVars, lapsed>>

\* Time passes the end of a credential's validity.
Lapse(k) ==
    /\ k \notin lapsed
    /\ lapsed' = lapsed \union {k}
    /\ UNCHANGED <<reloadVars, conn>>

-----------------------------------------------------------------------------
LoopStep == TakeRequest \/ JobJoined \/ ReloadTimeout

JobStep(r) == Build(r) \/ DrawNumber(r) \/ Publish(r) \/ SetQuic(r)

ReloadNext ==
    \/ \E c \in Callers : Request(c) \/ Send(c) \/ Return(c)
    \/ LoopStep
    \/ BeginShutdown
    \/ Stop
    \/ \E r \in Requests : JobStep(r)
    \/ \E s \in Sessions : Snapshot(s) \/ Authenticate(s) \/ OpenFlow(s) \/ Disconnect(s)
    \/ \E k \in Keys : Lapse(k)

\* The senders and the accept loop are tasks of the runtime and keep
\* running.  Nothing is assumed of the blocking job: it may read a file
\* system that hangs for ever.
ReloadFairness ==
    /\ \A c \in Callers : WF_securityVars(Send(c))
    /\ WF_securityVars(LoopStep)
    /\ WF_securityVars(Stop)

ReloadSpec == ReloadInit /\ [][ReloadNext]_securityVars /\ ReloadFairness

-----------------------------------------------------------------------------
(* Properties.                                                             *)

\* The state is well formed; the channel holds at most its capacity, and the
\* loop serves a request exactly while it awaits its job.
ReloadTypeOK ==
    /\ caller \in [Callers -> 0 .. Len(req)]
    /\ req \in Seq(Candidates)
    /\ queue \in Seq(Requests) /\ Len(queue) <= RELOAD_CHANNEL_CAPACITY
    /\ phase \in {"select", "awaiting", "draining", "stopped"}
    /\ serving \in 0 .. Len(req) /\ (serving # 0 <=> phase = "awaiting")
    /\ job \in [Requests -> JobStates]
    /\ number \in [Requests -> 0 .. next - 1]
    /\ next \in Nat
    /\ current \in Generations
    /\ quic \in 0 .. Len(req)
    /\ gauge \in Nat
    /\ answer \in [Requests -> Replies]
    /\ lapsed \subseteq Keys
    /\ conn \in [Sessions -> [pc : {"idle", "handshake", "up"}, auth : Generations,
                              key : Keys \union {0}, granted : Nat]]

\* Requests the caller was told had failed.
Failed == {r \in Requests : answer[r] \in {"rejected", "timeout"}}

\* A failed reload leaves the running identity untouched: neither the
\* published generation nor the QUIC identity comes from a request whose
\* caller was told it failed (handle_reload_request, apply_security_reload).
FailedReloadKeepsPrevious ==
    /\ current.from \notin Failed
    /\ quic \notin Failed

\* The generation number in force only grows, although drawing a number and
\* publishing it are two steps (SecurityState::replace): the accept loop
\* runs one job at a time.
GenerationGrows == current' # current => current'.gen > current.gen

\* TLS and QUIC serve the same identity whenever no job is between
\* publishing the one and setting the other (apply_security_reload).
QuicFollowsTls ==
    (\A r \in Requests : job[r] # "published") => quic = current.from

\* When the accept loop is back in its select, the metric shows the
\* generation in force (record_config_reload_success).
GaugeShowsGeneration == phase # "awaiting" => gauge = current.gen

\* A reload takes effect as a whole or not at all: what is published comes
\* from no request whose caller was told it failed, TLS and QUIC serve the
\* same identity between jobs, and the metric shows the generation in force
\* (apply_security_reload).  This is so while no reload outlasts its timeout;
\* SecurityReloadTimeout.cfg shows one that does.
ReloadConsistent ==
    /\ ReloadTypeOK
    /\ FailedReloadKeepsPrevious /\ QuicFollowsTls /\ GaugeShowsGeneration

\* The newest reload that was acknowledged, 0 when none was.
LastAcknowledged ==
    LET oks == {r \in Requests : answer[r] = "ok"}
        newest == {r \in oks : \A q \in oks : number[q] <= number[r]}
    IN  IF oks = {} THEN 0 ELSE CHOOSE r \in newest : TRUE

\* Revocation holds for live sessions: generations only grow, and once a
\* reload without a credential is acknowledged, a session that authenticated
\* with it opens no further flow, unless a later reload has been published
\* (policy_snapshot).
RevocationHolds ==
    [][/\ GenerationGrows
       /\ \A s \in Sessions :
            LET r == LastAcknowledged IN
            (r # 0 /\ conn'[s].granted # conn[s].granted /\ conn'[s].pc = "up")
              => \/ conn[s].key \in req[r].creds
                 \/ conn'[s].granted > number[r]]_securityVars

\* Every reload that was requested is answered, even when its blocking job
\* hangs for ever: the channel drains, the timeout fires, and a stopping
\* server drops what is left (RELOAD_TIMEOUT).
EveryReloadAnswered ==
    \A r \in 1 .. MaxReloads :
        (r \in Requests) ~> (r \in Requests /\ answer[r] # "none")
=============================================================================

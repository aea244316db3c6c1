--------------------------- MODULE SecurityProofs ---------------------------
(* Proofs about SecurityReload for any number of callers, requests, sessions *)
(* and credentials, while no reload outlasts its timeout, and about MaskGate *)
(* for any number of clients and connections.                                *)
EXTENDS SecurityReload, MaskGate, FiniteSetTheorems, SequenceTheorems, TLAPS

(* The tables of requests grow together.                                     *)
Tables ==
    /\ req \in Seq(Candidates) /\ job \in Seq(JobStates) /\ number \in Seq(Nat)
    /\ answer \in Seq(Replies)
    /\ Len(job) = Len(req) /\ Len(number) = Len(req) /\ Len(answer) = Len(req)

Ids == 1 .. Len(req)

(* What is known of a request, by the state of its job: at most one is at    *)
(* work, the one the loop awaits, and it publishes a greater number than any *)
(* before it.                                                                *)
Active == {"building", "built", "numbered", "published"}

JobOK(r) ==
    /\ job[r] \in Active => serving = r /\ answer[r] = "none"
    /\ job[r] = "none" => serving # r /\ answer[r] \in {"none", "rejected", "stopped"}
    /\ job[r] = "failed" => answer[r] = IF serving = r THEN "none" ELSE "rejected"
    /\ job[r] = "done" => answer[r] = IF serving = r THEN "none" ELSE "ok"
    /\ job[r] = "numbered" => current.gen < number[r]
    /\ job[r] = "published" \/ (job[r] = "done" /\ serving = r) => current.from = r
    /\ number[r] < next
    /\ answer[r] = "ok" => /\ number[r] < current.gen \/ current.from = r
                           /\ number[r] <= gauge

(* What is in force comes from a request that was published, and the metric  *)
(* lags behind it only while the loop awaits the job that published it.      *)
InForce ==
    /\ current \in Generations /\ next \in Nat /\ current.gen < next /\ gauge \in Nat
    /\ \/ current.from = 0
       \/ /\ current.from \in Ids /\ job[current.from] \in {"published", "done"}
          /\ current.gen = number[current.from] /\ current.creds = req[current.from].creds
    /\ quic = 0 \/ (quic \in Ids /\ job[quic] = "done")
    /\ (\A r \in Ids : job[r] # "published") => quic = current.from
    /\ serving = 0 \/ job[serving] \notin {"published", "done"} => gauge = current.gen
    /\ (\E r \in Ids : answer[r] = "ok") => \E r \in Ids : answer[r] = "ok" /\ number[r] = gauge

(* The loop and the channel: a queued request has not been looked at.        *)
Served ==
    /\ phase \in {"select", "awaiting", "draining", "stopped"}
    /\ serving \in 0 .. Len(req) /\ (serving # 0 <=> phase = "awaiting")
    /\ queue \in Seq(Ids) /\ Len(queue) <= 1
    /\ \A i \in 1 .. Len(queue) : job[queue[i]] = "none" /\ answer[queue[i]] = "none"

Readers ==
    /\ lapsed \subseteq Keys
    /\ conn \in [Sessions -> [pc : {"idle", "handshake", "up"}, auth : Generations,
                              key : Keys \union {0}, granted : Nat]]

ReloadIInv ==
    /\ Tables /\ caller \in [Callers -> 0 .. Len(req)]
    /\ (\A r \in Ids : JobOK(r)) /\ InForce /\ Served /\ Readers

LEMMA ReloadInitIInv == ReloadInit => ReloadIInv
<1> SUFFICES ASSUME ReloadInit PROVE ReloadIInv
  OBVIOUS
<1>1. Len(req) = 0 /\ Ids = {} /\ Len(queue) = 0
  BY EmptySeq DEF ReloadInit, Ids
<1>2. Tables
  BY EmptySeq DEF ReloadInit, Tables
<1>3. InForce
  BY <1>1 DEF ReloadInit, InForce, Generations, INITIAL_GENERATION
<1>4. Served
  BY <1>1, EmptySeq DEF ReloadInit, Served
<1>5. Readers
  BY DEF ReloadInit, Readers, NoAuth, Generations
<1>6. caller \in [Callers -> 0 .. Len(req)]
  BY <1>1 DEF ReloadInit
<1> QED BY <1>1, <1>2, <1>3, <1>4, <1>5, <1>6 DEF ReloadIInv

(* One more request, not yet answered or answered because the loop is gone.  *)
LEMMA RequestKeeps ==
    ASSUME ReloadIInv, NEW c \in Callers, Request(c)
    PROVE  ReloadIInv'
<1>1. PICK cand \in Candidates :
        /\ req' = Append(req, cand) /\ job' = Append(job, "none") /\ number' = Append(number, 0)
        /\ caller' = [caller EXCEPT ![c] = Len(req) + 1]
        /\ answer' = Append(answer, IF phase = "stopped" THEN "stopped" ELSE "none")
  BY DEF Request
<1>2. /\ UNCHANGED <<queue, phase, serving, next, current, quic, gauge, lapsed, conn>>
      /\ Len(req) \in Nat
  BY LenProperties DEF Request, ReloadIInv, Tables
<1> PICK n \in Nat : n = Len(req) + 1
  BY <1>2
<1>3. Tables' /\ Len(req') = n
  BY <1>1 DEF ReloadIInv, Tables, JobStates, Replies
<1>4. /\ \A r \in Ids : /\ req'[r] = req[r] /\ job'[r] = job[r]
                        /\ number'[r] = number[r] /\ answer'[r] = answer[r]
      /\ job'[n] = "none" /\ number'[n] = 0
      /\ answer'[n] \in {"none", "stopped"}
  BY <1>1, <1>2 DEF ReloadIInv, Tables, Ids
<1>5. Ids' = Ids \union {n}
  BY <1>2, <1>3 DEF Ids
<1>6. \A r \in Ids' : JobOK(r)'
  <2>1. ASSUME NEW r \in Ids PROVE JobOK(r)'
    BY <1>2, <1>4 DEF ReloadIInv, JobOK
  <2>2. JobOK(n)'
    BY <1>2, <1>4 DEF ReloadIInv, JobOK, InForce, Generations, Served, Active
  <2> QED BY <1>5, <2>1, <2>2
<1>7. InForce'
  <2>1. serving \in Ids \union {0}
    BY <1>2 DEF ReloadIInv, Served, Ids
  <2>2. (\A r \in Ids' : job'[r] # "published") => \A r \in Ids : job[r] # "published"
    BY <1>4, <1>5
  <2>3. (\E r \in Ids' : answer'[r] = "ok") => \E r \in Ids' : answer'[r] = "ok" /\ number'[r] = gauge
    BY <1>4, <1>5 DEF ReloadIInv, InForce
  <2> QED BY <1>2, <1>4, <1>5, <2>1, <2>2, <2>3 DEF ReloadIInv, InForce
<1>8. Served'
  <2>1. queue' \in Seq(Ids')
    BY <1>2, <1>5, SeqMonotonic DEF ReloadIInv, Served
  <2>2. \A i \in 1 .. Len(queue) : queue[i] \in Ids
    BY ElementOfSeq DEF ReloadIInv, Served
  <2> QED BY <1>2, <1>3, <1>4, <2>1, <2>2 DEF ReloadIInv, Served
<1>9. caller' \in [Callers -> 0 .. Len(req')]
  BY <1>1, <1>2, <1>3 DEF ReloadIInv
<1> QED BY <1>2, <1>3, <1>6, <1>7, <1>8, <1>9 DEF ReloadIInv, Readers

(* The channel takes a request, or a caller goes on.                         *)
LEMMA SendKeeps ==
    ASSUME ReloadIInv, NEW c \in Callers, Send(c)
    PROVE  ReloadIInv'
<1>1. /\ caller[c] \in Ids /\ answer[caller[c]] = "none" /\ job[caller[c]] = "none"
      /\ queue' = Append(queue, caller[c]) /\ Len(queue) < 1
      /\ UNCHANGED <<caller, req, phase, serving, job, number, next, current, quic, gauge, answer,
                     lapsed, conn>>
  BY LenProperties DEF Send, ReloadIInv, Tables, Ids, RELOAD_CHANNEL_CAPACITY
<1>2. queue' \in Seq(Ids) /\ Len(queue') = 1 /\ queue'[1] = caller[c]
  BY <1>1, LenProperties DEF ReloadIInv, Served
<1>3. Served'
  BY <1>1, <1>2 DEF ReloadIInv, Served, Ids
<1>4. Ids' = Ids /\ Tables' /\ InForce' /\ Readers' /\ \A r \in Ids : JobOK(r)'
  BY <1>1 DEF ReloadIInv, Tables, Ids, InForce, Readers, JobOK
<1> QED BY <1>1, <1>3, <1>4 DEF ReloadIInv

LEMMA ReturnKeeps ==
    ASSUME ReloadIInv, NEW c \in Callers, Return(c)
    PROVE  ReloadIInv'
<1>1. /\ caller' = [caller EXCEPT ![c] = 0]
      /\ UNCHANGED <<queue, req, phase, serving, job, number, next, current, quic, gauge, answer,
                     lapsed, conn>>
  BY DEF Return
<1>2. caller' \in [Callers -> 0 .. Len(req')]
  BY <1>1, LenProperties DEF ReloadIInv, Tables
<1>3. Ids' = Ids /\ Tables' /\ InForce' /\ Readers' /\ Served' /\ \A r \in Ids : JobOK(r)'
  BY <1>1 DEF ReloadIInv, Tables, Ids, InForce, Readers, JobOK, Served
<1> QED BY <1>2, <1>3 DEF ReloadIInv

(* An entry of one of the tables changes.                                    *)
LEMMA Updated ==
    ASSUME NEW S, NEW s \in Seq(S), NEW i \in 1 .. Len(s), NEW e \in S,
           NEW t, t = [s EXCEPT ![i] = e]
    PROVE  /\ t \in Seq(S) /\ Len(t) = Len(s)
           /\ \A j \in 1 .. Len(s) : t[j] = IF j = i THEN e ELSE s[j]
BY ExceptSeq

LEMMA TakeRequestKeeps ==
    ASSUME ReloadIInv, TakeRequest
    PROVE  ReloadIInv'
<1> DEFINE r == Head(queue)
<1>1. /\ r \in Ids /\ job[r] = "none" /\ answer[r] = "none" /\ serving = 0
      /\ Tail(queue) \in Seq(Ids) /\ Len(Tail(queue)) = 0
  <2>1. queue \in Seq(Ids) /\ queue # <<>> /\ Len(queue) <= 1 /\ Len(queue) \in Nat \ {0}
    BY EmptySeq DEF TakeRequest, ReloadIInv, Served
  <2>2. r = queue[1] /\ 1 \in 1 .. Len(queue)
    BY <2>1
  <2>3. /\ Tail(queue) \in Seq(Ids) /\ r \in Ids
        /\ Len(Tail(queue)) = Len(queue) - 1
    BY <2>1, HeadTailProperties, Zenon
  <2> QED BY <2>1, <2>2, <2>3 DEF TakeRequest, ReloadIInv, Served
<1>2. /\ queue' = Tail(queue) /\ Ids' = Ids
      /\ UNCHANGED <<caller, req, number, next, current, quic, gauge, lapsed, conn>>
  BY DEF TakeRequest, Ids
<1> HIDE DEF r
<1>3. CASE /\ answer' = [answer EXCEPT ![r] = "rejected"]
           /\ UNCHANGED <<phase, serving, job>>
  <2>1. /\ answer' \in Seq(Replies) /\ Len(answer') = Len(req)
        /\ \A q \in Ids : answer'[q] = IF q = r THEN "rejected" ELSE answer[q]
    BY <1>1, <1>3, Updated, SMTT(30) DEF ReloadIInv, Tables, Ids, Replies
  <2>2. \A q \in Ids : JobOK(q)'
    BY <1>1, <1>2, <1>3, <2>1 DEF ReloadIInv, JobOK, Active
  <2>3. InForce'
    BY <1>1, <1>2, <1>3, <2>1 DEF ReloadIInv, InForce
  <2>4. Served'
    BY <1>1, <1>2, <1>3 DEF ReloadIInv, Served, Ids
  <2>5. Tables' /\ Readers'
    BY <1>2, <1>3, <2>1 DEF ReloadIInv, Tables, Readers
  <2> QED BY <1>2, <2>2, <2>3, <2>4, <2>5 DEF ReloadIInv
<1>4. CASE /\ job' = [job EXCEPT ![r] = "building"] /\ phase' = "awaiting" /\ serving' = r
           /\ UNCHANGED answer
  <2>1. /\ job' \in Seq(JobStates) /\ Len(job') = Len(req)
        /\ \A q \in Ids : job'[q] = IF q = r THEN "building" ELSE job[q]
    BY <1>1, <1>4, Updated, SMTT(30) DEF ReloadIInv, Tables, Ids, JobStates
  <2>2. \A q \in Ids : JobOK(q)'
    BY <1>1, <1>2, <1>4, <2>1 DEF ReloadIInv, JobOK, Active, Ids
  <2>3. InForce'
    BY <1>1, <1>2, <1>4, <2>1 DEF ReloadIInv, InForce, Ids
  <2>4. Served'
    BY <1>1, <1>2, <1>4 DEF ReloadIInv, Served, Ids
  <2>5. Tables' /\ Readers'
    BY <1>2, <1>4, <2>1 DEF ReloadIInv, Tables, Readers
  <2> QED BY <1>2, <2>2, <2>3, <2>4, <2>5 DEF ReloadIInv
<1> QED BY <1>3, <1>4 DEF TakeRequest, r

(* What was acknowledged is in force or older than what is.                  *)
LEMMA OkBelow ==
    ASSUME ReloadIInv
    PROVE  \A q \in Ids : number[q] \in Nat /\ (answer[q] = "ok" => number[q] <= current.gen)
<1>1. current.gen \in Nat
  BY DEF ReloadIInv, InForce, Generations
<1>2. \A q \in Ids : number[q] \in Nat
  BY ElementOfSeq DEF ReloadIInv, Tables, Ids
<1>3. ASSUME NEW q \in Ids, answer[q] = "ok" PROVE number[q] <= current.gen
  <2>1. number[q] < current.gen \/ current.from = q
    BY <1>3 DEF ReloadIInv, JobOK
  <2>2. current.from = q => current.gen = number[q]
    BY DEF ReloadIInv, InForce, Ids
  <2> QED BY <1>1, <1>2, <2>1, <2>2
<1> QED BY <1>2, <1>3

(* The loop joins the job: the answer tells what the job did.                *)
LEMMA JobJoinedKeeps ==
    ASSUME ReloadIInv, JobJoined
    PROVE  ReloadIInv'
<1>1. /\ serving \in Ids /\ serving' = 0 /\ phase' = "select" /\ Ids' = Ids
      /\ UNCHANGED <<caller, req, queue, job, number, next, current, quic, lapsed, conn>>
  BY DEF JobJoined, ReloadIInv, Served, Ids
<1>2. PICK a \in {"ok", "rejected"} :
        /\ answer' = [answer EXCEPT ![serving] = a]
        /\ a = "ok" => job[serving] = "done" /\ gauge' = number[serving]
        /\ a = "rejected" => job[serving] = "failed" /\ gauge' = gauge
  BY DEF JobJoined
<1>3. /\ answer' \in Seq(Replies) /\ Len(answer') = Len(req)
      /\ \A q \in Ids : answer'[q] = IF q = serving THEN a ELSE answer[q]
  BY <1>1, <1>2, Updated DEF ReloadIInv, Tables, Ids, Replies
<1>4. /\ gauge' = current.gen /\ current.gen \in Nat
      /\ a = "ok" => current.from = serving /\ current.gen = number[serving]
  BY <1>1, <1>2 DEF ReloadIInv, InForce, JobOK, Ids, Generations
<1>5. \A q \in Ids : number[q] \in Nat /\ (answer[q] = "ok" => number[q] <= current.gen)
  BY OkBelow
<1>6. ASSUME NEW q \in Ids PROVE JobOK(q)'
  BY <1>1, <1>2, <1>3, <1>4, <1>5, SMTT(30) DEF ReloadIInv, JobOK, Active, Ids
<1>7. InForce'
  <2>1. (\E q \in Ids : answer'[q] = "ok") => \E q \in Ids : answer'[q] = "ok" /\ number[q] = gauge'
    <3>1. CASE a = "ok"
      BY <1>1, <1>2, <1>3, <3>1
    <3>2. CASE a = "rejected"
      <4>1. answer[serving] # "ok"
        BY <1>1, <1>2, <3>2 DEF ReloadIInv, JobOK
      <4> QED BY <1>1, <1>2, <1>3, <3>2, <4>1 DEF ReloadIInv, InForce
    <3> QED BY <3>1, <3>2, SMTT(30)
  <2> QED BY <1>1, <1>4, <2>1 DEF ReloadIInv, InForce
<1>8. Served'
  <2>1. \A i \in 1 .. Len(queue) : queue[i] \in Ids
    BY ElementOfSeq DEF ReloadIInv, Served
  <2> QED BY <1>1, <1>2, <1>3, <2>1 DEF ReloadIInv, Served, Tables, Ids
<1> QED BY <1>1, <1>3, <1>6, <1>7, <1>8 DEF ReloadIInv, Tables, Readers

(* The timeout is ruled out; the loop leaves its select only when it serves  *)
(* nothing, and a request that was never looked at is answered as stopped.   *)
LEMMA BeginShutdownKeeps ==
    ASSUME ReloadIInv, BeginShutdown
    PROVE  ReloadIInv'
<1>1. /\ phase = "select" /\ phase' = "draining"
      /\ UNCHANGED <<caller, req, queue, serving, job, number, next, current, quic, gauge, answer,
                     lapsed, conn>>
  BY DEF BeginShutdown
<1>2. Served'
  BY <1>1, SMTT(30) DEF ReloadIInv, Served, Ids
<1>3. Ids' = Ids /\ Tables' /\ InForce' /\ Readers' /\ \A r \in Ids : JobOK(r)'
  BY <1>1, SMTT(30) DEF ReloadIInv, Tables, Ids, InForce, Readers, JobOK
<1> QED BY <1>1, <1>2, <1>3 DEF ReloadIInv

LEMMA StopKeeps ==
    ASSUME ReloadIInv, Stop
    PROVE  ReloadIInv'
<1>1. /\ serving = 0 /\ phase' = "stopped" /\ queue' = <<>> /\ Requests = Ids /\ Ids' = Ids
      /\ answer' = [r \in Ids |->
                     IF answer[r] = "none" /\ job[r] = "none" THEN "stopped" ELSE answer[r]]
      /\ UNCHANGED <<caller, req, serving, job, number, next, current, quic, gauge, lapsed, conn>>
  BY DEF Stop, ReloadIInv, Served, Tables, Requests, Ids
<1>2. answer' \in Seq(Replies) /\ Len(answer') = Len(req)
  <2>1. \A r \in Ids : answer[r] \in Replies
    BY ElementOfSeq DEF ReloadIInv, Tables, Ids
  <2>2. answer' \in [1 .. Len(req) -> Replies] /\ Len(req) \in Nat
    BY <1>1, <2>1, LenProperties DEF Ids, Replies, ReloadIInv, Tables
  <2> QED BY <2>2, SeqDef, LenProperties
<1>3. ASSUME NEW r \in Ids PROVE JobOK(r)'
  BY <1>1 DEF ReloadIInv, JobOK, Active, Ids
<1>4. InForce'
  BY <1>1 DEF ReloadIInv, InForce
<1>5. Served'
  BY <1>1, EmptySeq DEF ReloadIInv, Served
<1> QED BY <1>1, <1>2, <1>3, <1>4, <1>5 DEF ReloadIInv, Tables, Readers

(* The steps of a job: it is the one the loop awaits.                        *)
LEMMA JobMoves ==
    ASSUME ReloadIInv, NEW r \in Ids, NEW j \in JobStates, job[r] \in Active,
           job' = [job EXCEPT ![r] = j]
    PROVE  /\ serving = r /\ answer[r] = "none" /\ job' \in Seq(JobStates) /\ Len(job') = Len(req)
           /\ \A q \in Ids : job'[q] = IF q = r THEN j ELSE job[q]
           /\ \A q \in Ids \ {r} : job[q] \notin Active
           /\ \A i \in 1 .. Len(queue) : queue[i] \in Ids \ {r}
<1>1. \A i \in 1 .. Len(queue) : queue[i] \in Ids
  BY ElementOfSeq DEF ReloadIInv, Served
<1>2. serving = r /\ answer[r] = "none" /\ \A q \in Ids \ {r} : job[q] \notin Active
  BY DEF ReloadIInv, JobOK
<1>3. /\ job' \in Seq(JobStates) /\ Len(job') = Len(req)
      /\ \A q \in Ids : job'[q] = IF q = r THEN j ELSE job[q]
  BY Updated DEF ReloadIInv, Tables, Ids
<1>4. \A i \in 1 .. Len(queue) : queue[i] # r
  BY DEF ReloadIInv, Served, Active
<1> QED BY <1>1, <1>2, <1>3, <1>4

LEMMA BuildKeeps ==
    ASSUME ReloadIInv, NEW r \in Ids, Build(r)
    PROVE  ReloadIInv'
<1>1. PICK j \in {"built", "failed"} : job' = [job EXCEPT ![r] = j]
  BY Zenon DEF Build
<1>2. /\ job[r] = "building" /\ Ids' = Ids
      /\ UNCHANGED <<caller, req, queue, phase, serving, number, next, current, quic, gauge, answer,
                     lapsed, conn>>
  BY DEF Build, Ids
<1>3. /\ serving = r /\ answer[r] = "none" /\ job' \in Seq(JobStates) /\ Len(job') = Len(req)
      /\ \A q \in Ids : job'[q] = IF q = r THEN j ELSE job[q]
      /\ \A q \in Ids \ {r} : job[q] \notin Active
      /\ \A i \in 1 .. Len(queue) : queue[i] \in Ids \ {r}
  <2>1. j \in JobStates /\ job[r] \in Active
    BY <1>2 DEF JobStates, Active
  <2> QED BY <1>1, <2>1, JobMoves, Zenon
<1>4. ASSUME NEW q \in Ids PROVE JobOK(q)'
  BY <1>2, <1>3 DEF ReloadIInv, JobOK, Active
<1>5. InForce'
  BY <1>2, <1>3 DEF ReloadIInv, InForce, Active
<1>6. Served' /\ Tables' /\ Readers'
  BY <1>2, <1>3, Zenon DEF ReloadIInv, Served, Tables, Readers
<1> QED BY <1>2, <1>4, <1>5, <1>6 DEF ReloadIInv

LEMMA DrawNumberKeeps ==
    ASSUME ReloadIInv, NEW r \in Ids, DrawNumber(r)
    PROVE  ReloadIInv'
<1>1. /\ job[r] = "built" /\ job' = [job EXCEPT ![r] = "numbered"]
      /\ number' = [number EXCEPT ![r] = next] /\ next' = next + 1 /\ Ids' = Ids
      /\ UNCHANGED <<caller, req, queue, phase, serving, current, quic, gauge, answer, lapsed, conn>>
  BY DEF DrawNumber, Ids
<1>2. /\ serving = r /\ answer[r] = "none" /\ job' \in Seq(JobStates) /\ Len(job') = Len(req)
      /\ \A q \in Ids : job'[q] = IF q = r THEN "numbered" ELSE job[q]
      /\ \A q \in Ids \ {r} : job[q] \notin Active
      /\ \A i \in 1 .. Len(queue) : queue[i] \in Ids \ {r}
  <2>1. "numbered" \in JobStates /\ job[r] \in Active
    BY <1>1 DEF JobStates, Active
  <2> QED BY <1>1, <2>1, JobMoves, Zenon
<1>3. /\ number' \in Seq(Nat) /\ Len(number') = Len(req) /\ next \in Nat
      /\ \A q \in Ids : number'[q] = IF q = r THEN next ELSE number[q]
  BY <1>1, Updated, SMTT(30) DEF ReloadIInv, Tables, Ids, InForce
<1>4. /\ current.gen \in Nat /\ current.gen < next
      /\ \A q \in Ids : number[q] \in Nat
  BY OkBelow DEF ReloadIInv, InForce, Generations
<1>5. ASSUME NEW q \in Ids PROVE JobOK(q)'
  <2>1. JobOK(q)
    BY Zenon DEF ReloadIInv
  <2>2. CASE q = r
    BY <1>1, <1>2, <1>3, <1>4, <2>1, <2>2 DEF JobOK, Active
  <2>3. CASE q # r
    <3>1. job'[q] = job[q] /\ number'[q] = number[q] /\ job[q] \notin Active
      BY <1>2, <1>3, <2>3, Zenon
    <3>2. number[q] < next /\ number[q] \in Nat
      BY <1>4, <2>1, Zenon DEF JobOK
    <3>3. number[q] < next'
      BY <1>1, <1>3, <3>2
    <3> QED BY <1>1, <2>1, <3>1, <3>3, Zenon DEF JobOK, Active
  <2> QED BY <2>2, <2>3
<1>6. InForce'
  <2>1. current.from # r /\ quic # r
    <3>1. r # 0 /\ job[r] \notin {"published", "done"}
      BY <1>1 DEF Ids
    <3>2. current.from = 0 \/ job[current.from] \in {"published", "done"}
      BY Zenon DEF ReloadIInv, InForce
    <3>3. quic = 0 \/ job[quic] \in {"published", "done"}
      BY DEF ReloadIInv, InForce
    <3> QED BY <3>1, <3>2, <3>3
  <2>2. (\E q \in Ids : answer'[q] = "ok") => \E q \in Ids : answer'[q] = "ok" /\ number'[q] = gauge
    BY <1>1, <1>2, <1>3, SMTT(30) DEF ReloadIInv, InForce
  <2>3. \A q \in Ids : job'[q] = "published" <=> job[q] = "published"
    BY <1>1, <1>2, SMTT(30)
  <2>4. current' \in Generations /\ next' \in Nat /\ current'.gen < next' /\ gauge' \in Nat
    BY <1>1, <1>3, <1>4 DEF ReloadIInv, InForce
  <2>5. \/ current.from = 0
        \/ /\ current.from \in Ids /\ job'[current.from] \in {"published", "done"}
           /\ current.gen = number'[current.from] /\ current.creds = req[current.from].creds
    BY <1>2, <1>3, <2>1, Zenon DEF ReloadIInv, InForce
  <2>6. quic = 0 \/ (quic \in Ids /\ job'[quic] = "done")
    BY <1>2, <2>1, Zenon DEF ReloadIInv, InForce
  <2>7. (\A q \in Ids : job'[q] # "published") => quic = current.from
    BY <2>3, Zenon DEF ReloadIInv, InForce
  <2>8. gauge = current.gen
    BY <1>1, <1>2 DEF ReloadIInv, InForce
  <2> QED BY <1>1, <2>2, <2>4, <2>5, <2>6, <2>7, <2>8, Zenon DEF InForce
<1>7. Served' /\ Tables' /\ Readers'
  BY <1>1, <1>2, <1>3, SMTT(30) DEF ReloadIInv, Served, Tables, Readers
<1> QED BY <1>1, <1>5, <1>6, <1>7 DEF ReloadIInv

(* The number a job publishes is above that of everything acknowledged.      *)
LEMMA PublishKeeps ==
    ASSUME ReloadIInv, NEW r \in Ids, Publish(r)
    PROVE  ReloadIInv' /\ current'.gen > current.gen
<1>1. /\ job[r] = "numbered" /\ job' = [job EXCEPT ![r] = "published"]
      /\ current' = [gen |-> number[r], from |-> r, creds |-> req[r].creds] /\ Ids' = Ids
      /\ UNCHANGED <<caller, req, queue, phase, serving, number, next, quic, gauge, answer, lapsed,
                     conn>>
  BY DEF Publish, Ids
<1>2. /\ serving = r /\ answer[r] = "none" /\ job' \in Seq(JobStates) /\ Len(job') = Len(req)
      /\ \A q \in Ids : job'[q] = IF q = r THEN "published" ELSE job[q]
      /\ \A q \in Ids \ {r} : job[q] \notin Active
      /\ \A i \in 1 .. Len(queue) : queue[i] \in Ids \ {r}
  <2>1. "published" \in JobStates /\ job[r] \in Active
    BY <1>1 DEF JobStates, Active
  <2> QED BY <1>1, <2>1, JobMoves, ZenonT(60)
<1>3. /\ current.gen \in Nat /\ current.gen < number[r] /\ number[r] < next
      /\ \A q \in Ids : number[q] \in Nat /\ (answer[q] = "ok" => number[q] <= current.gen)
  BY <1>1, OkBelow, Zenon DEF ReloadIInv, JobOK, InForce, Generations
<1>4. current' \in Generations /\ current'.gen = number[r] /\ current'.from = r
      /\ current'.creds = req[r].creds
  <2>1. req[r] \in Candidates /\ r \in Nat
    BY ElementOfSeq DEF ReloadIInv, Tables, Ids
  <2> QED BY <1>1, <1>3, <2>1 DEF Candidates, Generations
<1>5. ASSUME NEW q \in Ids PROVE JobOK(q)'
  <2>1. CASE q = r
    BY <1>1, <1>2, <1>3, <1>4, <2>1 DEF JobOK, Active
  <2>2. CASE q # r
    <3>1. job'[q] = job[q] /\ job[q] \notin Active /\ JobOK(q) /\ number[q] \in Nat
          /\ (answer[q] = "ok" => number[q] <= current.gen)
      BY <1>2, <1>3, <2>2 DEF ReloadIInv
    <3>2. answer[q] = "ok" => number[q] < current'.gen
      <4>1. PICK a \in Nat, b \in Nat, c \in Nat : a = number[q] /\ b = current.gen /\ c = number[r]
        BY <1>3, <3>1, Zenon
      <4>2. b < c /\ current'.gen = c
        BY <1>3, <1>4, <4>1, Zenon
      <4>3. answer[q] = "ok" => a <= b
        BY <3>1, <4>1, Zenon
      <4>4. a <= b => a < c
        BY <4>2
      <4> QED BY <4>1, <4>2, <4>3, <4>4, Zenon
    <3> QED BY <1>1, <1>2, <2>2, <3>1, <3>2, ZenonT(60) DEF JobOK, Active
  <2> QED BY <2>1, <2>2
<1>6. InForce'
  BY <1>1, <1>2, <1>3, <1>4 DEF ReloadIInv, InForce, Active, Ids
<1>7. Served' /\ Tables' /\ Readers'
  BY <1>1, <1>2 DEF ReloadIInv, Served, Tables, Readers
<1> QED BY <1>1, <1>3, <1>4, <1>5, <1>6, <1>7 DEF ReloadIInv

LEMMA SetQuicKeeps ==
    ASSUME ReloadIInv, NEW r \in Ids, SetQuic(r)
    PROVE  ReloadIInv'
<1>1. /\ job[r] = "published" /\ job' = [job EXCEPT ![r] = "done"] /\ quic' = r /\ Ids' = Ids
      /\ UNCHANGED <<caller, req, queue, phase, serving, number, next, current, gauge, answer,
                     lapsed, conn>>
  BY DEF SetQuic, Ids
<1>2. /\ serving = r /\ answer[r] = "none" /\ job' \in Seq(JobStates) /\ Len(job') = Len(req)
      /\ \A q \in Ids : job'[q] = IF q = r THEN "done" ELSE job[q]
      /\ \A q \in Ids \ {r} : job[q] \notin Active
      /\ \A i \in 1 .. Len(queue) : queue[i] \in Ids \ {r}
  <2>1. "done" \in JobStates /\ job[r] \in Active
    BY <1>1 DEF JobStates, Active
  <2> QED BY <1>1, <2>1, JobMoves, ZenonT(60)
<1>3. current.from = r
  BY <1>1, SMTT(30) DEF ReloadIInv, JobOK
<1>4. ASSUME NEW q \in Ids PROVE JobOK(q)'
  BY <1>1, <1>2, <1>3 DEF ReloadIInv, JobOK, Active
<1>5. InForce'
  BY <1>1, <1>2, <1>3 DEF ReloadIInv, InForce, Active
<1>6. Served' /\ Tables' /\ Readers'
  BY <1>1, <1>2 DEF ReloadIInv, Served, Tables, Readers
<1> QED BY <1>1, <1>4, <1>5, <1>6 DEF ReloadIInv

(* The connections read the security state and do not touch it.              *)
LEMMA ReadersKeep ==
    ASSUME ReloadIInv, UNCHANGED reloadVars, Readers'
    PROVE  ReloadIInv'
<1>1. Ids' = Ids /\ Tables' /\ Served' /\ \A r \in Ids : JobOK(r)'
  BY DEF ReloadIInv, reloadVars, Tables, Ids, Served, JobOK
<1>2. InForce'
  BY DEF ReloadIInv, reloadVars, Ids, InForce
<1> QED BY <1>1, <1>2 DEF ReloadIInv, reloadVars

LEMMA SessionKeeps ==
    ASSUME ReloadIInv, NEW s \in Sessions,
           Snapshot(s) \/ Authenticate(s) \/ OpenFlow(s) \/ Disconnect(s)
    PROVE  ReloadIInv'
<1>1. UNCHANGED reloadVars /\ lapsed' = lapsed
  BY DEF Snapshot, Authenticate, OpenFlow, Disconnect
<1>2. /\ current \in Generations /\ lapsed \subseteq Keys
      /\ conn \in [Sessions -> [pc : {"idle", "handshake", "up"}, auth : Generations,
                                 key : Keys \union {0}, granted : Nat]]
  BY Zenon DEF ReloadIInv, InForce, Readers
<1>3. Readers'
  <2>1. CASE Snapshot(s)
    BY <1>1, <1>2, <2>1, ZenonT(60) DEF Snapshot, Readers
  <2>2. CASE Authenticate(s)
    <3>1. conn[s].auth.creds \subseteq Keys
      BY <1>2 DEF Generations
    <3>2. PICK k \in Keys : conn' = [conn EXCEPT ![s].pc = "up", ![s].key = k]
      BY <2>2, <3>1, Zenon DEF Authenticate
    <3> QED BY <1>1, <1>2, <3>2, ZenonT(60) DEF Readers
  <2>3. CASE OpenFlow(s)
    <3>1. current.gen \in Nat
      BY <1>2 DEF Generations
    <3>2. conn' \in {conn, [conn EXCEPT ![s].granted = current.gen]}
      BY <2>3 DEF OpenFlow
    <3> QED BY <1>1, <1>2, <3>1, <3>2 DEF Readers
  <2>4. CASE Disconnect(s)
    BY <1>1, <1>2, <2>4 DEF Disconnect, Readers, Generations, NoAuth
  <2> QED BY <2>1, <2>2, <2>3, <2>4
<1> QED BY <1>1, <1>3, ReadersKeep

LEMMA ReloadNextIInv ==
    ASSUME ~Timeouts, ReloadIInv, [ReloadNext]_securityVars
    PROVE  ReloadIInv'
<1>0. Requests = Ids
  BY DEF Requests, Ids, ReloadIInv, Tables
<1>1. CASE \E c \in Callers : Request(c) \/ Send(c) \/ Return(c)
  BY <1>1, RequestKeeps, SendKeeps, ReturnKeeps
<1>2. CASE LoopStep
  BY <1>2, TakeRequestKeeps, JobJoinedKeeps DEF LoopStep, ReloadTimeout
<1>3. CASE BeginShutdown \/ Stop
  BY <1>3, BeginShutdownKeeps, StopKeeps
<1>4. CASE \E r \in Requests : JobStep(r)
  BY <1>0, <1>4, BuildKeeps, DrawNumberKeeps, PublishKeeps, SetQuicKeeps DEF JobStep
<1>5. CASE \E s \in Sessions : Snapshot(s) \/ Authenticate(s) \/ OpenFlow(s) \/ Disconnect(s)
  BY <1>5, SessionKeeps
<1>6. CASE \E k \in Keys : Lapse(k)
  <2>1. Readers' /\ UNCHANGED reloadVars
    BY <1>6 DEF Lapse, ReloadIInv, Readers
  <2> QED BY <2>1, ReadersKeep
<1>7. CASE UNCHANGED securityVars
  <2>1. Readers' /\ UNCHANGED reloadVars
    BY <1>7 DEF securityVars, reloadVars, ReloadIInv, Readers
  <2> QED BY <2>1, ReadersKeep
<1> QED BY <1>1, <1>2, <1>3, <1>4, <1>5, <1>6, <1>7 DEF ReloadNext

LEMMA ReloadHolds ==
    ASSUME ReloadIInv
    PROVE  ReloadConsistent
<1>1. Requests = Ids /\ Len(req) \in Nat
  BY LenProperties DEF Requests, Ids, ReloadIInv, Tables
<1>2. /\ job \in [Ids -> JobStates] /\ answer \in [Ids -> Replies]
      /\ number \in [Ids -> 0 .. next - 1]
  <2>1. job \in [Ids -> JobStates] /\ answer \in [Ids -> Replies] /\ number \in [Ids -> Nat]
    BY DEF ReloadIInv, Tables, Ids
  <2>2. \A r \in Ids : number[r] < next
    BY DEF ReloadIInv, JobOK
  <2>3. next \in Nat /\ \A r \in Ids : number[r] \in 0 .. next - 1
    BY <2>1, <2>2 DEF ReloadIInv, InForce
  <2> QED BY <2>1, <2>3
<1>3. ReloadTypeOK
  <2>1. /\ caller \in [Callers -> 0 .. Len(req)] /\ req \in Seq(Candidates)
        /\ next \in Nat /\ current \in Generations /\ gauge \in Nat
    BY DEF ReloadIInv, Tables, InForce
  <2>2. quic \in 0 .. Len(req)
    BY <1>1 DEF ReloadIInv, InForce, Ids
  <2>3. /\ queue \in Seq(Requests) /\ Len(queue) <= RELOAD_CHANNEL_CAPACITY
        /\ phase \in {"select", "awaiting", "draining", "stopped"}
        /\ serving \in 0 .. Len(req) /\ (serving # 0 <=> phase = "awaiting")
    BY <1>1 DEF ReloadIInv, Served, RELOAD_CHANNEL_CAPACITY
  <2> QED BY <1>1, <1>2, <2>1, <2>2, <2>3, SMTT(30) DEF ReloadTypeOK, ReloadIInv, Readers
<1>4. FailedReloadKeepsPrevious
  <2>1. \A r \in Ids : job[r] \in {"published", "done"} => answer[r] \in {"none", "ok"}
    BY DEF ReloadIInv, JobOK, Active
  <2>2. /\ current.from \in Ids => job[current.from] \in {"published", "done"}
        /\ quic \in Ids => job[quic] \in {"published", "done"}
    BY DEF ReloadIInv, InForce, Ids
  <2> QED BY <1>1, <2>1, <2>2 DEF FailedReloadKeepsPrevious, Failed
<1>5. QuicFollowsTls /\ GaugeShowsGeneration
  BY <1>1 DEF QuicFollowsTls, GaugeShowsGeneration, ReloadIInv, InForce, Served
<1> QED BY <1>3, <1>4, <1>5 DEF ReloadConsistent

(* A reload takes effect as a whole or not at all, for any number of callers,*)
(* requests and connections: what TLS and QUIC serve comes from no request   *)
(* whose caller was told it failed, and the metric shows the generation in   *)
(* force whenever the loop is in its select (apply_security_reload,          *)
(* handle_reload_request), as long as no reload outlasts its timeout.        *)
THEOREM ReloadIsAtomic ==
    ASSUME ~Timeouts
    PROVE  ReloadSpec => []ReloadConsistent
<1>1. ReloadIInv /\ [ReloadNext]_securityVars => ReloadIInv'
  BY ReloadNextIInv
<1> QED BY <1>1, ReloadInitIInv, ReloadHolds, PTL DEF ReloadSpec

(* The newest acknowledged reload exists when one was acknowledged.          *)
LEMMA NewestAcknowledged ==
    ASSUME ReloadIInv, LastAcknowledged # 0
    PROVE  LastAcknowledged \in Ids /\ answer[LastAcknowledged] = "ok"
<1> DEFINE oks == {r \in Requests : answer[r] = "ok"}
           newest == {r \in oks : \A q \in oks : number[q] <= number[r]}
<1>1. Requests = Ids
  BY DEF Requests, Ids, ReloadIInv, Tables
<1>2. oks # {} /\ LastAcknowledged = CHOOSE r \in newest : TRUE
  BY SMTT(30) DEF LastAcknowledged
<1>3. newest # {}
  BY <1>1, <1>2, SMTT(30) DEF ReloadIInv, InForce, JobOK
<1>4. LastAcknowledged \in newest
  BY <1>2, <1>3
<1> QED BY <1>1, <1>4

(* Revocation holds for live sessions: the generation in force only grows,   *)
(* and a flow granted after a reload was acknowledged is granted to a        *)
(* credential that reload lists or under a later generation                  *)
(* (policy_snapshot, SecurityState::replace).                                *)
THEOREM ReloadRevokes ==
    ASSUME ~Timeouts
    PROVE  ReloadSpec => RevocationHolds
<1> DEFINE Revoked == \A s \in Sessions :
                       LET r == LastAcknowledged IN
                       (r # 0 /\ conn'[s].granted # conn[s].granted /\ conn'[s].pc = "up")
                         => \/ conn[s].key \in req[r].creds
                            \/ conn'[s].granted > number[r]
<1>1. ASSUME ReloadIInv, [ReloadNext]_securityVars PROVE GenerationGrows /\ Revoked
  <2>1. Requests = Ids
    BY <1>1 DEF Requests, Ids, ReloadIInv, Tables
  <2>2. GenerationGrows
    <3>1. CASE \E r \in Requests : Publish(r)
      BY <1>1, <2>1, <3>1, PublishKeeps DEF GenerationGrows
    <3>2. CASE ~ \E r \in Requests : Publish(r)
      <4>1. current' = current
        BY <1>1, <3>2, ZenonT(60) DEF ReloadNext, securityVars, reloadVars, Request, Send, Return, LoopStep,
             TakeRequest, JobJoined, ReloadTimeout, BeginShutdown, Stop, JobStep, Build, DrawNumber,
             SetQuic, Snapshot, Authenticate, OpenFlow, Disconnect, Lapse
      <4> QED BY <4>1 DEF GenerationGrows
    <3> QED BY <3>1, <3>2
  <2>3. ASSUME NEW s \in Sessions, LastAcknowledged # 0,
               conn'[s].granted # conn[s].granted, conn'[s].pc = "up"
        PROVE  \/ conn[s].key \in req[LastAcknowledged].creds
               \/ conn'[s].granted > number[LastAcknowledged]
    <3> DEFINE r == LastAcknowledged
    <3>1. OpenFlow(s)
      <4>1. conn' # conn
        BY <2>3
      <4>2. PICK u \in Sessions : Snapshot(u) \/ Authenticate(u) \/ OpenFlow(u) \/ Disconnect(u)
        BY <1>1, <4>1, Zenon DEF ReloadNext, securityVars, Request, Send, Return, LoopStep,
             TakeRequest, JobJoined, ReloadTimeout, BeginShutdown, Stop, JobStep, Build, DrawNumber,
             Publish, SetQuic, Lapse
      <4>3. conn \in [Sessions -> [pc : {"idle", "handshake", "up"}, auth : Generations,
                                   key : Keys \union {0}, granted : Nat]]
        BY <1>1 DEF ReloadIInv, Readers
      <4>4. ~Snapshot(u) /\ ~Authenticate(u)
        BY <2>3, <4>3 DEF Snapshot, Authenticate
      <4>5. ~Disconnect(u)
        <5>1. Disconnect(u) => conn'[u].pc = "idle" /\ \A v \in Sessions \ {u} : conn'[v] = conn[v]
          <6>1. PICK x : x = [pc |-> "idle", auth |-> NoAuth, key |-> 0, granted |-> 0]
            BY Zenon
          <6>2. x.pc = "idle"
            BY <6>1
          <6>3. Disconnect(u) => conn' = [conn EXCEPT ![u] = x]
            BY <6>1, Zenon DEF Disconnect
          <6> QED BY <4>3, <6>2, <6>3
        <5> QED BY <2>3, <5>1
      <4>6. OpenFlow(u)
        BY <4>2, <4>4, <4>5
      <4>7. u = s
        BY <2>3, <4>3, <4>6 DEF OpenFlow
      <4> QED BY <4>6, <4>7
    <3>2. conn[s].key \in current.creds /\ conn'[s].granted = current.gen
      BY <1>1, <2>3, <3>1 DEF OpenFlow, ReloadIInv, Readers
    <3>3. r \in Ids /\ answer[r] = "ok"
      BY <1>1, <2>3, NewestAcknowledged
    <3> HIDE DEF r
    <3>4. number[r] < current.gen \/ current.from = r
      BY <1>1, <3>3, ZenonT(60) DEF ReloadIInv, JobOK
    <3>5. current.from = r => current.creds = req[r].creds
      <4>1. r # 0
        BY <3>3 DEF Ids
      <4> QED BY <1>1, <4>1, Zenon DEF ReloadIInv, InForce
    <3>6. number[r] < current.gen => current.gen > number[r]
      BY <1>1, <3>3, OkBelow DEF ReloadIInv, InForce, Generations
    <3>7. conn[s].key \in req[r].creds \/ conn'[s].granted > number[r]
      BY <3>2, <3>4, <3>5, <3>6
    <3> QED BY <3>7 DEF r
  <2> QED BY <2>2, <2>3
<1>2. ReloadIInv /\ [ReloadNext]_securityVars => ReloadIInv'
  BY ReloadNextIInv
<1> QED BY <1>1, <1>2, ReloadInitIInv, PTL DEF ReloadSpec, RevocationHolds

-----------------------------------------------------------------------------
(* The masking gate.  A registry is in order when its queue lists every      *)
(* entry once, and every window has a legal highest counter and its own bit. *)
WindowOK(entry) ==
    /\ entry = [highest |-> entry.highest, seen |-> entry.seen]
    /\ entry.highest \in 1 .. MAX_COUNTER
    /\ 0 \in entry.seen /\ entry.seen \subseteq 0 .. REPLAY_WINDOW - 1

QueueOK(order, ids) ==
    /\ order \in Seq(Known) /\ Len(order) <= Capacity
    /\ {order[i] : i \in DOMAIN order} = ids
    /\ \A i, j \in 1 .. Len(order) : order[i] = order[j] => i = j

RegistryOK(reg) ==
    /\ reg = [order |-> reg.order, entries |-> reg.entries]
    /\ reg.entries = [c \in DOMAIN reg.entries |-> reg.entries[c]]
    /\ QueueOK(reg.order, DOMAIN reg.entries)
    /\ \A c \in DOMAIN reg.entries : WindowOK(reg.entries[c])

LEMMA QueueCounts ==
    ASSUME NEW order, NEW ids, QueueOK(order, ids)
    PROVE  IsFiniteSet(ids) /\ Cardinality(ids) = Len(order) /\ Len(order) \in Nat
<1>1. order \in [1 .. Len(order) -> Known] /\ Len(order) \in Nat
  BY LenProperties DEF QueueOK
<1>2. order \in Bijection(1 .. Len(order), ids)
  <2>1. order \in [1 .. Len(order) -> ids]
    BY <1>1 DEF QueueOK
  <2>2. \A y \in ids : \E i \in 1 .. Len(order) : order[i] = y
    BY <1>1 DEF QueueOK
  <2>3. IsInjective(order)
    BY <1>1 DEF QueueOK, IsInjective
  <2> QED BY <2>1, <2>2, <2>3 DEF Bijection, Injection, Surjection
<1>3. ExistsBijection(1 .. Len(order), ids)
  BY <1>2 DEF ExistsBijection
<1>4. IsFiniteSet(1 .. Len(order)) /\ Cardinality(1 .. Len(order)) = Len(order)
  <2>1. /\ IsFiniteSet(1 .. Len(order))
        /\ Cardinality(1 .. Len(order)) = IF 1 > Len(order) THEN 0 ELSE Len(order) - 1 + 1
    BY <1>1, FS_Interval, 1 \in Int, Len(order) \in Int, SMTT(30)
  <2> QED BY <1>1, <2>1
<1> QED BY <1>1, <1>3, <1>4, FS_Bijection

(* The queue after an identity joined at its end.                            *)
LEMMA AppendQueue ==
    ASSUME NEW order, NEW ids, QueueOK(order, ids), NEW id \in Known, id \notin ids,
           Len(order) < Capacity
    PROVE  QueueOK(Append(order, id), ids \union {id})
<1> DEFINE o == Append(order, id)
<1>1. order \in Seq(Known) /\ Len(order) \in Nat /\ DOMAIN order = 1 .. Len(order)
  BY LenProperties, SMTT(30) DEF QueueOK
<1>2. /\ o \in Seq(Known) /\ Len(o) = Len(order) + 1
      /\ \A i \in 1 .. Len(order) : o[i] = order[i]
      /\ o[Len(order) + 1] = id
  BY <1>1, AppendProperties, SMTT(30)
<1>3. DOMAIN o = 1 .. Len(order) + 1
  BY <1>2, LenProperties
<1> HIDE DEF o
<1>4. \A i \in 1 .. Len(order) : order[i] \in ids
  BY <1>1 DEF QueueOK
<1>5. {o[i] : i \in DOMAIN o} = ids \union {id}
  <2>1. \A i \in DOMAIN o : o[i] \in ids \union {id}
    BY <1>1, <1>2, <1>3, <1>4
  <2>2. \A y \in ids : \E i \in DOMAIN o : o[i] = y
    BY <1>1, <1>2, <1>3 DEF QueueOK
  <2>3. \E i \in DOMAIN o : o[i] = id
    BY <1>1, <1>2, <1>3
  <2> QED BY <2>1, <2>2, <2>3
<1>6. \A i, j \in 1 .. Len(o) : o[i] = o[j] => i = j
  BY <1>1, <1>2, <1>4 DEF QueueOK
<1>7. Len(o) <= Capacity
  BY <1>1, <1>2, RegistryAssumption
<1> QED BY <1>2, <1>5, <1>6, <1>7 DEF QueueOK, o

(* The queue after its oldest identity left.                                 *)
LEMMA TailQueue ==
    ASSUME NEW order, NEW ids, QueueOK(order, ids), Len(order) = Capacity
    PROVE  /\ QueueOK(Tail(order), ids \ {Head(order)})
           /\ Len(Tail(order)) < Capacity
<1> DEFINE o == Tail(order)
<1>1. order \in Seq(Known) /\ Len(order) \in Nat \ {0} /\ DOMAIN order = 1 .. Len(order)
  BY LenProperties, RegistryAssumption DEF QueueOK
<1>2. order # <<>> /\ Head(order) = order[1]
  BY <1>1
<1>3. /\ o \in Seq(Known) /\ Len(o) = Len(order) - 1
      /\ \A i \in 1 .. Len(o) : o[i] = order[i + 1]
  BY <1>1, <1>2, HeadTailProperties
<1>4. DOMAIN o = 1 .. Len(order) - 1
  BY <1>3, LenProperties
<1> HIDE DEF o
<1>5. {o[i] : i \in DOMAIN o} = ids \ {Head(order)}
  <2>1. ASSUME NEW i \in DOMAIN o PROVE o[i] \in ids \ {Head(order)}
    <3>1. i + 1 \in 1 .. Len(order) /\ i + 1 # 1 /\ o[i] = order[i + 1]
      BY <1>1, <1>3, <1>4
    <3> QED BY <1>1, <1>2, <3>1 DEF QueueOK
  <2>2. ASSUME NEW y \in ids \ {Head(order)} PROVE \E i \in DOMAIN o : o[i] = y
    <3>1. PICK j \in 1 .. Len(order) : order[j] = y
      BY <1>1 DEF QueueOK
    <3>2. j # 1
      BY <1>2, <3>1
    <3>3. j - 1 \in DOMAIN o /\ j - 1 \in 1 .. Len(o) /\ (j - 1) + 1 = j
      BY <1>1, <1>3, <1>4, <3>2
    <3> QED BY <1>3, <3>1, <3>3
  <2> QED BY <2>1, <2>2
<1>6. \A i, j \in 1 .. Len(o) : o[i] = o[j] => i = j
  <2> SUFFICES ASSUME NEW i \in 1 .. Len(o), NEW j \in 1 .. Len(o), o[i] = o[j]
               PROVE  i = j
    OBVIOUS
  <2>1. i + 1 \in 1 .. Len(order) /\ j + 1 \in 1 .. Len(order)
    BY <1>1, <1>3
  <2>2. i + 1 = j + 1
    BY <1>3, <2>1 DEF QueueOK
  <2> QED BY <1>1, <1>3, <2>2
<1>7. Len(o) < Capacity
  BY <1>1, <1>3
<1> QED BY <1>3, <1>5, <1>6, <1>7, RegistryAssumption DEF QueueOK, o

(* The window of an entry after a counter that it admits.                    *)
LEMMA MarkedOK ==
    ASSUME NEW entry, WindowOK(entry), NEW counter \in 1 .. MAX_COUNTER,
           admits(entry, counter) = "Accepted"
    PROVE  WindowOK(Marked(entry, counter))
<1> USE CounterAssumption, RegistryAssumption
<1>1. CASE counter > entry.highest
  BY <1>1 DEF WindowOK, Marked, advance
<1>2. CASE ~(counter > entry.highest)
  <2>1. entry.highest - counter \in 0 .. REPLAY_WINDOW - 1
    BY <1>2 DEF WindowOK, admits
  <2>2. Marked(entry, counter)
          = [highest |-> entry.highest, seen |-> entry.seen \union {entry.highest - counter}]
    BY <1>2 DEF WindowOK, Marked
  <2> QED BY <2>1, <2>2 DEF WindowOK
<1> QED BY <1>1, <1>2

(* A commit that is accepted leaves the registry in order and registers.     *)
LEMMA CommitOK ==
    ASSUME NEW reg, RegistryOK(reg), NEW id \in Known, NEW counter \in 1 .. MAX_COUNTER,
           precheck(reg, id, counter) = "Accepted"
    PROVE  RegistryOK(commit(reg, id, counter)) /\ id \in DOMAIN commit(reg, id, counter).entries
<1>1. CASE id \in DOMAIN reg.entries
  <2> DEFINE e == [reg.entries EXCEPT ![id] = Marked(reg.entries[id], counter)]
  <2>1. commit(reg, id, counter) = [order |-> reg.order, entries |-> e]
    BY <1>1 DEF commit, RegistryOK
  <2>2. WindowOK(Marked(reg.entries[id], counter))
    BY <1>1, MarkedOK DEF RegistryOK, precheck
  <2>3. /\ DOMAIN e = DOMAIN reg.entries
        /\ e = [c \in DOMAIN e |-> e[c]]
        /\ \A c \in DOMAIN e : WindowOK(e[c])
    BY <1>1, <2>2 DEF RegistryOK
  <2> HIDE DEF e
  <2> QED BY <1>1, <2>1, <2>3 DEF RegistryOK
<1>2. CASE id \notin DOMAIN reg.entries
  <2> DEFINE full == Cardinality(DOMAIN reg.entries) = Capacity
             kept == IF full THEN Tail(reg.order) ELSE reg.order
             gone == IF full THEN {Head(reg.order)} ELSE {}
             ids  == DOMAIN reg.entries \ gone
             e    == [i \in ids \union {id} |-> IF i = id THEN fresh(counter) ELSE reg.entries[i]]
  <2>1. commit(reg, id, counter) = [order |-> Append(kept, id), entries |-> e]
    BY <1>2 DEF commit, Registered
  <2>2. Cardinality(DOMAIN reg.entries) = Len(reg.order) /\ Len(reg.order) \in Nat
    BY QueueCounts DEF RegistryOK
  <2>3. QueueOK(kept, ids) /\ Len(kept) < Capacity
    <3>1. CASE full
      BY <2>2, <3>1, TailQueue DEF RegistryOK
    <3>2. CASE ~full
      BY <2>2, <3>2, RegistryAssumption DEF RegistryOK, QueueOK
    <3> QED BY <3>1, <3>2
  <2>4. id \notin ids
    BY <1>2
  <2>5. QueueOK(Append(kept, id), ids \union {id})
    BY <2>3, <2>4, AppendQueue, Zenon
  <2>6. WindowOK(fresh(counter))
    BY RegistryAssumption DEF WindowOK, fresh
  <2>7. \A c \in DOMAIN e : WindowOK(e[c])
    BY <2>6 DEF RegistryOK
  <2> HIDE DEF kept, ids
  <2>8. DOMAIN e = ids \union {id} /\ e = [c \in DOMAIN e |-> e[c]]
    OBVIOUS
  <2> HIDE DEF e
  <2> QED BY <2>1, <2>5, <2>7, <2>8 DEF RegistryOK
<1> QED BY <1>1, <1>2

-----------------------------------------------------------------------------
(* What the gate knows of a connection: one whose first record may still be  *)
(* written has verified its prelude and has sent no record, and one that was *)
(* rejected is past writing and has sent nothing.                            *)
GateIInv ==
    /\ RegistryOK(registry)
    /\ sequence \in [Clients -> 1 .. MAX_COUNTER + 1]
    /\ link \in [Links -> [pc : {"idle", "reading", "gated", "draining", "closed"},
                           client : Clients \union {Nobody}, counter : 0 .. MAX_COUNTER]]
    /\ wrote \in [Links -> {"nothing", "alert", "record"}]
    /\ \A k \in Links :
         /\ link[k].pc \in {"idle", "reading"} => wrote[k] = "nothing"
         /\ link[k].pc = "gated" => verify_prelude(k)
         /\ k \in pending => link[k].pc = "gated" /\ wrote[k] # "record"
         /\ k \in reported => link[k].pc \in {"draining", "closed"} /\ wrote[k] = "nothing"

LEMMA GateInitIInv == GateInit => GateIInv
<1> SUFFICES ASSUME GateInit PROVE GateIInv
  OBVIOUS
<1>1. RegistryOK(registry)
  <2>1. EmptyRegistry.entries = <<>> /\ EmptyRegistry.order = <<>> /\ DOMAIN EmptyRegistry.entries = {}
    BY DEF EmptyRegistry
  <2>2. EmptyRegistry.entries = [c \in DOMAIN EmptyRegistry.entries |-> EmptyRegistry.entries[c]]
    BY <2>1
  <2>3. QueueOK(<<>>, {})
    BY RegistryAssumption, SMTT(30) DEF QueueOK
  <2> QED BY <2>1, <2>2, <2>3 DEF GateInit, RegistryOK, EmptyRegistry
<1> QED BY <1>1, CounterAssumption DEF GateInit, GateIInv, Nobody

LEMMA ArrivesKeeps ==
    ASSUME GateIInv, NEW k \in Links, NEW client \in Clients \union {Nobody},
           NEW counter \in 0 .. MAX_COUNTER, Arrives(k, client, counter),
           sequence' \in [Clients -> 1 .. MAX_COUNTER + 1]
    PROVE  GateIInv'
BY SMTT(30) DEF GateIInv, Arrives, verify_prelude

LEMMA WriteRecordKeeps ==
    ASSUME GateIInv, NEW k \in Links, WriteRecord(k)
    PROVE  /\ GateIInv'
           /\ registry' # registry =>
                wrote'[k] = "record" /\ link[k].client \in DOMAIN registry'.entries
<1> DEFINE client == link[k].client
           counter == link[k].counter
<1>1. client \in Known /\ counter \in 1 .. MAX_COUNTER /\ k \in pending
  BY DEF GateIInv, WriteRecord, verify_prelude
<1>2. registry' = commit(registry, client, counter)
  BY Zenon DEF WriteRecord
<1>3. CASE precheck(registry, client, counter) = "Accepted"
  <2>1. RegistryOK(registry') /\ client \in DOMAIN registry'.entries
    BY <1>1, <1>2, <1>3, CommitOK DEF GateIInv
  <2>2. /\ wrote' = [wrote EXCEPT ![k] = "record"] /\ pending' = pending \ {k}
        /\ UNCHANGED <<sequence, link, reported>> /\ link[k].pc = "gated"
    BY <1>3, Zenon DEF WriteRecord
  <2> QED BY <2>1, <2>2 DEF GateIInv, verify_prelude
<1>4. CASE precheck(registry, client, counter) # "Accepted"
  <2>1. registry' = registry
    BY <1>2, <1>4 DEF commit
  <2>2. /\ link' = [link EXCEPT ![k].pc = "closed"] /\ pending' = pending \ {k}
        /\ UNCHANGED <<sequence, wrote, reported>> /\ link[k].pc = "gated"
    BY <1>4, SMTT(30) DEF WriteRecord, Goes
  <2> QED BY <2>1, <2>2 DEF GateIInv, verify_prelude
<1> QED BY <1>3, <1>4

LEMMA GateNextIInv ==
    ASSUME GateIInv, [GateNext]_gateVars
    PROVE  GateIInv'
<1>1. CASE UNCHANGED gateVars
  BY <1>1 DEF GateIInv, gateVars, verify_prelude
<1>2. ASSUME NEW k \in Links, NEW c \in Clients, Connect(c, k) PROVE GateIInv'
  <2>1. sequence[c] \in 0 .. MAX_COUNTER /\ sequence' \in [Clients -> 1 .. MAX_COUNTER + 1]
    BY <1>2, CounterAssumption DEF Connect, GateIInv
  <2>2. PICK n : n = sequence[c]
    OBVIOUS
  <2> QED BY <1>2, <2>1, <2>2, ArrivesKeeps DEF Connect
<1>3. ASSUME NEW k \in Links, NEW j \in Links, Redeliver(k, j) PROVE GateIInv'
  <2>1. PICK c, n : c = link[j].client /\ n = link[j].counter
    OBVIOUS
  <2>2. c \in Clients \union {Nobody} /\ n \in 0 .. MAX_COUNTER
    BY <2>1 DEF GateIInv
  <2>3. Arrives(k, c, n) /\ sequence' \in [Clients -> 1 .. MAX_COUNTER + 1]
    BY <1>3, <2>1 DEF Redeliver, GateIInv
  <2> QED BY <2>2, <2>3, ArrivesKeeps
<1>4. ASSUME NEW k \in Links, ConnectShort(k) PROVE GateIInv'
  <2>1. Arrives(k, Nobody, 0) /\ sequence' \in [Clients -> 1 .. MAX_COUNTER + 1]
    BY <1>4 DEF ConnectShort, GateIInv
  <2>2. 0 \in 0 .. MAX_COUNTER
    BY CounterAssumption
  <2> QED BY <2>1, <2>2, ArrivesKeeps
<1>5. ASSUME NEW k \in Links, admit(k) PROVE GateIInv'
  BY <1>5 DEF GateIInv, admit, Reject, Goes, verify_prelude
<1>6. ASSUME NEW k \in Links, Drained(k) PROVE GateIInv'
  BY <1>6 DEF GateIInv, Drained, Goes, verify_prelude
<1>7. ASSUME NEW k \in Links, WriteAlert(k) PROVE GateIInv'
  BY <1>7 DEF GateIInv, WriteAlert, verify_prelude
<1>8. ASSUME NEW k \in Links, Drop(k) PROVE GateIInv'
  BY <1>8 DEF GateIInv, Drop, Goes, verify_prelude
<1> QED BY <1>1, <1>2, <1>3, <1>4, <1>5, <1>6, <1>7, <1>8, WriteRecordKeeps, ZenonT(60) DEF GateNext

(* Whatever connections, clients and redelivered preludes there are, the     *)
(* commit gate is exact and the registry behind it well formed               *)
(* (CommitGate::poll_write, MaskingState::admit, ReplayRegistry::commit).    *)
THEOREM GateIsExact == GateSpec => CommitGateExact
<1> DEFINE Sent == /\ \A k \in Links :
                        /\ AnswersNow(k) => /\ link[k].client \in Known
                                            /\ ~IsHighest(link[k].client, link[k].counter)
                        /\ k \in reported => wrote'[k] = "nothing"
                   /\ registry' # registry =>
                        \E k \in Links : AnswersNow(k) /\ link[k].client \in DOMAIN registry'.entries
<1>1. GateIInv => RegistryWellFormed
  <2> SUFFICES ASSUME GateIInv PROVE RegistryWellFormed
    OBVIOUS
  <2>1. Len(registry.order) = Cardinality(DOMAIN registry.entries)
    BY QueueCounts DEF GateIInv, RegistryOK
  <2> QED BY <2>1 DEF GateIInv, RegistryOK, QueueOK, WindowOK, RegistryWellFormed
<1>2. ASSUME GateIInv, [GateNext]_gateVars PROVE Sent
  <2>1. CASE \E k \in Links : WriteRecord(k)
    <3>1. PICK k \in Links : WriteRecord(k)
      BY <2>1
    <3>2. /\ link[k].client \in Known /\ link[k].counter \in 1 .. MAX_COUNTER
          /\ wrote[k] # "record" /\ k \notin reported
      BY <1>2, <3>1, CounterAssumption, SMTT(30) DEF GateIInv, WriteRecord, verify_prelude
    <3>3. \A j \in Links \ {k} : wrote'[j] = wrote[j]
      BY <1>2, <3>1 DEF GateIInv, WriteRecord
    <3>4. ASSUME wrote'[k] = "record" PROVE ~IsHighest(link[k].client, link[k].counter)
      <4>1. precheck(registry, link[k].client, link[k].counter) = "Accepted"
        BY <3>1, <3>2, <3>4, ZenonT(60) DEF WriteRecord
      <4>2. ASSUME NEW entry, entry.highest = link[k].counter PROVE admits(entry, link[k].counter) # "Accepted"
        <5>1. PICK c \in Nat : c = link[k].counter
          BY <3>2, CounterAssumption
        <5> QED BY <4>2, <5>1 DEF admits
      <4> QED BY <4>1, <4>2, Zenon DEF IsHighest, precheck
    <3>5. registry' # registry => wrote'[k] = "record" /\ link[k].client \in DOMAIN registry'.entries
      BY <1>2, <3>1, WriteRecordKeeps
    <3>6. \A j \in reported \cap Links : wrote'[j] = "nothing"
      BY <1>2, <3>2, <3>3 DEF GateIInv
    <3> QED BY <3>1, <3>2, <3>3, <3>4, <3>5, <3>6 DEF AnswersNow
  <2>2. CASE \E k \in Links : WriteAlert(k)
    BY <1>2, <2>2 DEF WriteAlert, GateIInv, AnswersNow
  <2>3. CASE ~ \E k \in Links : WriteRecord(k) \/ WriteAlert(k)
    <3>1. UNCHANGED <<wrote, registry>>
      BY <1>2, <2>3 DEF GateNext, gateVars, Connect, Redeliver, ConnectShort, Arrives, admit, Drained, Drop
    <3> QED BY <1>2, <3>1, SMTT(30) DEF GateIInv, AnswersNow
  <2> QED BY <2>1, <2>2, <2>3, ZenonT(60)
<1>3. GateIInv /\ [GateNext]_gateVars => GateIInv'
  BY GateNextIInv
<1> QED BY <1>1, <1>2, <1>3, GateInitIInv, PTL DEF GateSpec, CommitGateExact
=============================================================================

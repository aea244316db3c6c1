-------------------------- MODULE AdmissionProofs --------------------------
(* Proofs about who is let in and who stays, for any number of connections,  *)
(* flows, permits and pings: connections on the server (ServerAdmission),    *)
(* flows on a session of the client (ClientFlows) and the keepalive of that  *)
(* session (Keepalive).                                                      *)
EXTENDS ServerAdmission, ClientFlows, Keepalive, FiniteSetTheorems, TLAPS

(* The connections inside the handshake, which its gauge counts.             *)
Handshaking == {c \in Conns : pc[c] = "handshake"}

(* A pool of permits: what is free and who holds one add up to the limit.    *)
Balanced(free, held, limit) ==
    /\ held \subseteq Conns /\ IsFiniteSet(held) /\ free \in Nat
    /\ free + Cardinality(held) = limit

(* Where the holders of permits are: the permit of a QUIC connection is      *)
(* taken before its task is spawned, that of a TCP connection on the way     *)
(* into the handshake; a session permit belongs to a verified peer.          *)
Placed(c) ==
    /\ c \in hsHeld => pc[c] = "handshake" \/ (pc[c] = "spawned" /\ c \in QuicConns)
    /\ pc[c] = "handshake" => c \in hsHeld
    /\ c \in ssHeld <=> pc[c] \in {"settings", "relay"}
    /\ c \in ssHeld => told[c] = "success"

Counted ==
    /\ Balanced(hsFree, hsHeld, MaxHandshakes) /\ Balanced(ssFree, ssHeld, MaxSessions)
    /\ IsFiniteSet(Handshaking) /\ hsGauge = Cardinality(Handshaking)
    /\ ssGauge = Cardinality(ssHeld)

AdmissionTyped ==
    /\ loop \in {"accept", "sleep", "drain", "abort", "closed"}
    /\ failures \in 0 .. 8
    /\ shutdown \in BOOLEAN /\ ready \in BOOLEAN
    /\ pc \in [Conns -> Places] /\ valid \subseteq QuicConns
    /\ told \in [Conns -> {"nothing", "success", "failure"}]

AdmissionIInv == AdmissionTyped /\ Counted /\ \A c \in Conns : Placed(c)

(* Taking a free permit.                                                     *)
LEMMA TakePermit ==
    ASSUME NEW free, NEW held, NEW limit \in Nat, NEW c \in Conns,
           Balanced(free, held, limit), free > 0, c \notin held
    PROVE  /\ Balanced(free - 1, held \union {c}, limit)
           /\ Cardinality(held \union {c}) = Cardinality(held) + 1
<1>1. /\ IsFiniteSet(held \union {c}) /\ Cardinality(held) \in Nat
      /\ Cardinality(held \union {c}) = Cardinality(held) + 1
  BY FS_AddElement, FS_CardinalityType DEF Balanced
<1> QED BY <1>1 DEF Balanced

(* Dropping the permit of a task, if it has one.                             *)
LEMMA DropPermit ==
    ASSUME NEW free, NEW held, NEW limit \in Nat, NEW c \in Conns,
           Balanced(free, held, limit)
    PROVE  /\ Balanced(free + (IF c \in held THEN 1 ELSE 0), held \ {c}, limit)
           /\ Cardinality(held \ {c}) = Cardinality(held) - (IF c \in held THEN 1 ELSE 0)
<1>1. /\ IsFiniteSet(held \ {c}) /\ Cardinality(held) \in Nat
      /\ Cardinality(held \ {c}) \in Nat
      /\ Cardinality(held \ {c}) = IF c \in held THEN Cardinality(held) - 1 ELSE Cardinality(held)
  BY FS_RemoveElement, FS_CardinalityType DEF Balanced
<1>2. CASE c \in held
  BY <1>1, <1>2 DEF Balanced
<1>3. CASE c \notin held
  BY <1>1, <1>3 DEF Balanced
<1> QED BY <1>2, <1>3

(* A task that moves changes the set inside the handshake by itself alone.   *)
LEMMA HandshakingMoves ==
    ASSUME NEW c \in Conns, NEW place \in Places, pc \in [Conns -> Places], Go(c, place)
    PROVE  /\ pc' \in [Conns -> Places]
           /\ \A d \in Conns : pc'[d] = IF d = c THEN place ELSE pc[d]
           /\ Handshaking' = IF place = "handshake" THEN Handshaking \union {c}
                                                    ELSE Handshaking \ {c}
BY DEF Go, Handshaking

(* Leaving the handshake lowers the gauge by what it counted.                *)
LEMMA GaugeFalls ==
    ASSUME NEW c \in Conns, Counted
    PROVE  /\ IsFiniteSet(Handshaking \ {c})
           /\ Cardinality(Handshaking \ {c}) = hsGauge - (IF pc[c] = "handshake" THEN 1 ELSE 0)
<1>1. /\ IsFiniteSet(Handshaking \ {c}) /\ Cardinality(Handshaking) \in Nat
      /\ Cardinality(Handshaking \ {c})
           = IF c \in Handshaking THEN Cardinality(Handshaking) - 1 ELSE Cardinality(Handshaking)
  BY FS_RemoveElement, FS_CardinalityType DEF Counted
<1>2. c \in Handshaking <=> pc[c] = "handshake"
  BY DEF Handshaking
<1> QED BY <1>1, <1>2 DEF Counted

LEMMA GaugeRises ==
    ASSUME NEW c \in Conns, Counted, pc[c] # "handshake"
    PROVE  /\ IsFiniteSet(Handshaking \union {c})
           /\ Cardinality(Handshaking \union {c}) = hsGauge + 1
BY FS_AddElement, FS_CardinalityType, Zenon DEF Counted, Handshaking

-----------------------------------------------------------------------------
(* The end of a task gives back what it held, wherever it was.               *)
LEMMA EndTaskKeeps ==
    ASSUME AdmissionIInv, NEW c \in Conns, EndTask(c),
           UNCHANGED <<loopVars, valid>>,
           told' \in [Conns -> {"nothing", "success", "failure"}],
           \A d \in Conns : d # c => told'[d] = told[d]
    PROVE  AdmissionIInv'
<1>1. /\ pc' \in [Conns -> Places]
      /\ \A d \in Conns : pc'[d] = IF d = c THEN "ended" ELSE pc[d]
      /\ Handshaking' = Handshaking \ {c}
  BY HandshakingMoves DEF EndTask, AdmissionIInv, AdmissionTyped, Places
<1>2. /\ hsHeld' = hsHeld \ {c} /\ ssHeld' = ssHeld \ {c}
      /\ hsFree' = hsFree + (IF c \in hsHeld THEN 1 ELSE 0)
      /\ ssFree' = ssFree + (IF c \in ssHeld THEN 1 ELSE 0)
      /\ hsGauge' = hsGauge - (IF pc[c] = "handshake" THEN 1 ELSE 0)
      /\ ssGauge' = ssGauge - (IF c \in ssHeld THEN 1 ELSE 0)
  BY DEF EndTask
<1>3. Balanced(hsFree', hsHeld', MaxHandshakes)
  BY <1>2, DropPermit, LimitsAssumption, Zenon DEF AdmissionIInv, Counted
<1>4. Balanced(ssFree', ssHeld', MaxSessions) /\ ssGauge' = Cardinality(ssHeld')
  BY <1>2, DropPermit, LimitsAssumption DEF AdmissionIInv, Counted
<1>5. IsFiniteSet(Handshaking') /\ hsGauge' = Cardinality(Handshaking')
  BY <1>1, <1>2, GaugeFalls DEF AdmissionIInv
<1>6. Counted'
  BY <1>3, <1>4, <1>5 DEF Counted, Balanced
<1>7. ASSUME NEW d \in Conns PROVE Placed(d)'
  BY <1>1, <1>2 DEF AdmissionIInv, Placed
<1>8. AdmissionTyped'
  BY <1>1 DEF AdmissionIInv, AdmissionTyped, loopVars
<1> QED BY <1>6, <1>7, <1>8 DEF AdmissionIInv

(* A move outside the handshake and the session, holding what it held.       *)
LEMMA MoveKeeps ==
    ASSUME AdmissionIInv, NEW c \in Conns, NEW place \in Places, Go(c, place),
           UNCHANGED permitVars,
           pc[c] # "handshake", place # "handshake", c \notin hsHeld,
           place \in {"settings", "relay"} <=> pc[c] \in {"settings", "relay"},
           told' \in [Conns -> {"nothing", "success", "failure"}],
           \A d \in Conns : d # c \/ d \in ssHeld => told'[d] = told[d],
           loop' \in {"accept", "sleep", "drain", "abort", "closed"},
           failures' \in 0 .. 8, UNCHANGED <<shutdown, ready, valid>>
    PROVE  AdmissionIInv'
<1>1. /\ pc' \in [Conns -> Places]
      /\ \A d \in Conns : pc'[d] = IF d = c THEN place ELSE pc[d]
      /\ Handshaking' = Handshaking
  <2>1. Handshaking \ {c} = Handshaking
    BY DEF Handshaking
  <2> QED BY <2>1, HandshakingMoves, Zenon DEF AdmissionIInv, AdmissionTyped
<1>2. Counted'
  BY <1>1 DEF AdmissionIInv, Counted, Balanced, permitVars
<1>3. ASSUME NEW d \in Conns PROVE Placed(d)'
  BY <1>1 DEF AdmissionIInv, Placed, permitVars
<1> QED BY <1>1, <1>2, <1>3 DEF AdmissionIInv, AdmissionTyped

(* Entering the handshake with a permit: its own, a free one, or none.       *)
LEMMA EnterKeeps ==
    ASSUME AdmissionIInv, NEW c \in Conns, EnterHandshake(c),
           pc[c] \in {"spawned", "gate"}, UNCHANGED <<loopVars, valid, told>>
    PROVE  AdmissionIInv'
<1>1. CASE EndTask(c)
  BY <1>1, EndTaskKeeps DEF AdmissionIInv, AdmissionTyped
<1>2. CASE /\ Go(c, "handshake") /\ hsGauge' = hsGauge + 1
           /\ hsHeld' = hsHeld \union {c} /\ Balanced(hsFree', hsHeld', MaxHandshakes)
           /\ UNCHANGED <<ssFree, ssHeld, ssGauge>>
  <2>1. /\ pc' \in [Conns -> Places]
        /\ \A d \in Conns : pc'[d] = IF d = c THEN "handshake" ELSE pc[d]
        /\ Handshaking' = Handshaking \union {c}
    BY <1>2, HandshakingMoves DEF AdmissionIInv, AdmissionTyped, Places
  <2>2. Counted'
    BY <1>2, <2>1, GaugeRises, Zenon DEF AdmissionIInv, Counted, Balanced
  <2>3. ASSUME NEW d \in Conns PROVE Placed(d)'
    BY <1>2, <2>1 DEF AdmissionIInv, Placed
  <2> QED BY <2>1, <2>2, <2>3 DEF AdmissionIInv, AdmissionTyped, loopVars
<1>3. CASE c \in hsHeld
  <2>1. hsHeld = hsHeld \union {c}
    BY <1>3
  <2> QED BY <1>2, <1>3, <2>1 DEF EnterHandshake, AdmissionIInv, Counted
<1>4. CASE c \notin hsHeld /\ hsFree > 0
  BY <1>2, <1>4, TakePermit, LimitsAssumption DEF EnterHandshake, AdmissionIInv, Counted
<1> QED BY <1>1, <1>3, <1>4 DEF EnterHandshake

(* The handshake succeeds: its permit is dropped, and a session permit taken *)
(* or the session refused.                                                   *)
LEMMA HandshakeOkKeeps ==
    ASSUME AdmissionIInv, NEW c \in Conns, HandshakeOk(c)
    PROVE  AdmissionIInv'
<1>0. /\ told' \in [Conns -> {"nothing", "success", "failure"}] /\ told'[c] = "success"
      /\ \A d \in Conns : d # c => told'[d] = told[d]
      /\ pc[c] = "handshake" /\ c \in hsHeld /\ c \notin ssHeld
  BY DEF HandshakeOk, AdmissionIInv, AdmissionTyped, Placed
<1>1. CASE EndTask(c)
  BY <1>0, <1>1, EndTaskKeeps DEF HandshakeOk
<1>2. ASSUME NEW place \in {"settings", "refuse"}, Go(c, place),
             hsFree' = hsFree + 1, hsHeld' = hsHeld \ {c}, hsGauge' = hsGauge - 1,
             Balanced(ssFree', ssHeld', MaxSessions), ssGauge' = Cardinality(ssHeld'),
             ssHeld' = IF place = "settings" THEN ssHeld \union {c} ELSE ssHeld
      PROVE  AdmissionIInv'
  <2>1. /\ pc' \in [Conns -> Places]
        /\ \A d \in Conns : pc'[d] = IF d = c THEN place ELSE pc[d]
        /\ Handshaking' = Handshaking \ {c}
    BY <1>2, HandshakingMoves DEF AdmissionIInv, AdmissionTyped, Places
  <2>2. Balanced(hsFree', hsHeld', MaxHandshakes)
    BY <1>0, <1>2, DropPermit, LimitsAssumption DEF AdmissionIInv, Counted
  <2>3. IsFiniteSet(Handshaking') /\ hsGauge' = Cardinality(Handshaking')
    BY <1>0, <1>2, <2>1, GaugeFalls, Zenon DEF AdmissionIInv
  <2>4. Counted'
    BY <1>2, <2>2, <2>3 DEF Counted, Balanced
  <2>5. ASSUME NEW d \in Conns PROVE Placed(d)'
    BY <1>0, <1>2, <2>1 DEF AdmissionIInv, Placed
  <2> QED BY <1>0, <2>1, <2>4, <2>5 DEF AdmissionIInv, AdmissionTyped, HandshakeOk, loopVars
<1>3. CASE ~shutdown /\ ssFree > 0
  <2>1. /\ Balanced(ssFree', ssHeld', MaxSessions) /\ ssGauge' = Cardinality(ssHeld')
        /\ ssHeld' = ssHeld \union {c}
    BY <1>0, <1>3, TakePermit, LimitsAssumption DEF HandshakeOk, AdmissionIInv, Counted
  <2> QED BY <1>2, <1>3, <2>1 DEF HandshakeOk
<1>4. CASE ~shutdown /\ ~(ssFree > 0)
  <2>1. /\ Balanced(ssFree', ssHeld', MaxSessions) /\ ssGauge' = Cardinality(ssHeld')
        /\ ssHeld' = ssHeld
    BY <1>4 DEF HandshakeOk, AdmissionIInv, Counted
  <2> QED BY <1>2, <1>4, <2>1 DEF HandshakeOk
<1> QED BY <1>1, <1>3, <1>4 DEF HandshakeOk

(* A connection is accepted, with a handshake permit if it is a QUIC one.    *)
LEMMA AcceptQuicKeeps ==
    ASSUME AdmissionIInv, NEW c \in QuicConns, AcceptQuic(c)
    PROVE  AdmissionIInv'
<1>0. c \in Conns /\ c \notin hsHeld /\ c \notin ssHeld /\ pc[c] = "new"
  BY DEF AcceptQuic, Conns, AdmissionIInv, Placed
<1>1. CASE c \notin valid
  <2>1. UNCHANGED <<pc, permitVars>> /\ Handshaking' = Handshaking
    BY <1>1 DEF AcceptQuic, permitVars, Handshaking
  <2>2. Counted'
    BY <2>1 DEF AdmissionIInv, Counted, Balanced, permitVars
  <2>3. ASSUME NEW d \in Conns PROVE Placed(d)'
    BY <2>1 DEF AdmissionIInv, Placed, permitVars, AcceptQuic
  <2> QED BY <1>1, <2>1, <2>2, <2>3 DEF AdmissionIInv, AdmissionTyped, AcceptQuic, loopVars
<1>2. CASE Go(c, "joined") /\ UNCHANGED <<hsFree, hsHeld, valid>>
  BY <1>0, <1>2, MoveKeeps DEF AcceptQuic, permitVars, loopVars, Places, AdmissionIInv, AdmissionTyped
<1>3. CASE /\ Go(c, "spawned") /\ hsFree > 0 /\ hsFree' = hsFree - 1
           /\ hsHeld' = hsHeld \union {c} /\ UNCHANGED valid
  <2>1. /\ pc' \in [Conns -> Places]
        /\ \A d \in Conns : pc'[d] = IF d = c THEN "spawned" ELSE pc[d]
        /\ Handshaking' = Handshaking \ {c}
    BY <1>0, <1>3, HandshakingMoves DEF AdmissionIInv, AdmissionTyped, Places
  <2>2. Handshaking' = Handshaking
    BY <1>0, <2>1 DEF Handshaking
  <2>3. Balanced(hsFree', hsHeld', MaxHandshakes)
    BY <1>0, <1>3, TakePermit, LimitsAssumption DEF AdmissionIInv, Counted
  <2>4. Counted'
    BY <2>2, <2>3 DEF AdmissionIInv, Counted, Balanced, AcceptQuic
  <2>5. ASSUME NEW d \in Conns PROVE Placed(d)'
    BY <1>0, <1>3, <2>1 DEF AdmissionIInv, Placed, AcceptQuic
  <2> QED BY <1>3, <2>1, <2>4, <2>5 DEF AdmissionIInv, AdmissionTyped, AcceptQuic, loopVars
<1> QED BY <1>1, <1>2, <1>3 DEF AcceptQuic

(* A step of the loop that leaves the connections alone.                     *)
LEMMA LoopKeeps ==
    ASSUME AdmissionIInv, UNCHANGED <<pc, valid, permitVars, told>>,
           loop' \in {"accept", "sleep", "drain", "abort", "closed"}, failures' \in 0 .. 8,
           shutdown' \in BOOLEAN, ready' \in BOOLEAN
    PROVE  AdmissionIInv'
<1>1. Counted'
  BY DEF AdmissionIInv, Counted, Balanced, Handshaking, permitVars
<1>2. ASSUME NEW d \in Conns PROVE Placed(d)'
  BY DEF AdmissionIInv, Placed, permitVars
<1> QED BY <1>1, <1>2 DEF AdmissionIInv, AdmissionTyped

LEMMA TaskKeeps ==
    ASSUME AdmissionIInv, NEW c \in Conns, TaskStep(c)
    PROVE  AdmissionIInv'
<1> USE DEF loopVars
<1>0. /\ Placed(c) /\ AdmissionTyped
      /\ told \in [Conns -> {"nothing", "success", "failure"}]
  BY DEF AdmissionIInv, AdmissionTyped
<1>1. CASE Start(c)
  <2>1. CASE EndTask(c)
    BY <1>0, <1>1, <2>1, EndTaskKeeps DEF Start
  <2>2. CASE c \in TcpConns /\ Go(c, "gate") /\ UNCHANGED permitVars
    <3>1. c \notin hsHeld
      BY <1>0, <1>1, <2>2, ConnsAssumption DEF Placed, Start
    <3> QED BY <1>0, <1>1, <2>2, <3>1, MoveKeeps DEF Start, AdmissionTyped, Places
  <2>3. CASE EnterHandshake(c)
    BY <1>1, <2>3, EnterKeeps DEF Start
  <2> QED BY <1>1, <2>1, <2>2, <2>3 DEF Start
<1>2. CASE GatePass(c)
  BY <1>2, EnterKeeps DEF GatePass
<1>3. CASE GateReject(c)
  <2>1. /\ told' \in [Conns -> {"nothing", "success", "failure"}]
        /\ \A d \in Conns : d # c => told'[d] = told[d]
    BY <1>0, <1>3 DEF GateReject
  <2>2. c \notin hsHeld /\ c \notin ssHeld
    BY <1>0, <1>3 DEF GateReject, Placed
  <2>3. CASE Go(c, "discard") /\ UNCHANGED permitVars
    BY <1>0, <1>3, <2>1, <2>2, <2>3, MoveKeeps DEF GateReject, AdmissionTyped, Places
  <2>4. CASE EndTask(c)
    BY <1>3, <2>1, <2>4, EndTaskKeeps DEF GateReject
  <2> QED BY <1>3, <2>3, <2>4 DEF GateReject
<1>4. CASE DiscardEnds(c) \/ HandshakeCut(c) \/ RefuseEnds(c) \/ SettingsFailed(c) \/ RelayEnds(c)
  BY <1>0, <1>4, EndTaskKeeps
  DEF DiscardEnds, HandshakeCut, RefuseEnds, SettingsFailed, RelayEnds
<1>5. CASE HandshakeOk(c)
  BY <1>5, HandshakeOkKeeps
<1>6. ASSUME NEW r \in Reasons, HandshakeFailed(c, r) PROVE AdmissionIInv'
  <2>1. /\ told' \in [Conns -> {"nothing", "success", "failure"}]
        /\ \A d \in Conns : d # c => told'[d] = told[d]
    BY <1>0, <1>6 DEF HandshakeFailed
  <2> QED BY <1>6, <2>1, EndTaskKeeps DEF HandshakeFailed
<1>7. CASE SettingsWritten(c)
  <2>1. c \notin hsHeld
    BY <1>0, <1>7 DEF SettingsWritten, Placed
  <2> QED BY <1>0, <1>7, <2>1, MoveKeeps DEF SettingsWritten, AdmissionTyped, Places
<1> QED BY <1>1, <1>2, <1>3, <1>4, <1>5, <1>6, <1>7 DEF TaskStep

LEMMA AdmissionNextIInv == AdmissionIInv /\ [Next]_vars => AdmissionIInv'
<1> SUFFICES ASSUME AdmissionIInv, [Next]_vars PROVE AdmissionIInv'
  OBVIOUS
<1> USE DEF loopVars
<1>0. AdmissionTyped /\ \A c \in Conns : Placed(c)
  BY DEF AdmissionIInv
<1>1. ASSUME NEW c \in TcpConns, AcceptTcp(c) PROVE AdmissionIInv'
  <2>1. c \in Conns /\ pc[c] = "new" /\ c \notin hsHeld
    BY <1>0, <1>1 DEF AcceptTcp, Placed, Conns
  <2>2. PICK place \in {"spawned", "joined"} : Go(c, place)
    BY <1>1 DEF AcceptTcp
  <2> QED BY <1>0, <1>1, <2>1, <2>2, MoveKeeps DEF AcceptTcp, AdmissionTyped, Places
<1>2. ASSUME NEW c \in QuicConns, AcceptQuic(c) PROVE AdmissionIInv'
  BY <1>2, AcceptQuicKeeps
<1>3. CASE AcceptError
  <2>1. Min({failures + 1, 8}) \in 0 .. 8
    BY <1>0 DEF Min, AdmissionTyped
  <2> QED BY <1>0, <1>3, <2>1, LoopKeeps DEF AcceptError, AdmissionTyped
<1>4. CASE WakeUp \/ DrainDeadline \/ Close
  BY <1>0, <1>4, LoopKeeps DEF WakeUp, DrainDeadline, Close, AdmissionTyped
<1>5. CASE begin_server_shutdown
  BY <1>0, <1>5, LoopKeeps, Zenon DEF begin_server_shutdown, AdmissionTyped
<1>6. ASSUME NEW c \in Conns, Join(c) PROVE AdmissionIInv'
  <2>1. c \notin hsHeld
    BY <1>0, <1>6 DEF Join, Placed
  <2> QED BY <1>0, <1>6, <2>1, MoveKeeps DEF Join, AdmissionTyped, Places
<1>7. ASSUME NEW c \in Conns, Abort(c) PROVE AdmissionIInv'
  BY <1>0, <1>7, EndTaskKeeps DEF Abort, AdmissionTyped
<1>8. ASSUME NEW c \in Conns, TaskStep(c) PROVE AdmissionIInv'
  BY <1>8, TaskKeeps
<1>9. CASE UNCHANGED vars
  BY <1>0, <1>9, LoopKeeps DEF vars, permitVars, AdmissionTyped
<1> QED BY <1>1, <1>2, <1>3, <1>4, <1>5, <1>6, <1>7, <1>8, <1>9 DEF Next

LEMMA AdmissionInitIInv == Init => AdmissionIInv
<1> SUFFICES ASSUME Init PROVE AdmissionIInv
  OBVIOUS
<1>1. Handshaking = {} /\ IsFiniteSet({}) /\ Cardinality({}) = 0
  BY FS_EmptySet DEF Init, Handshaking
<1>2. Counted
  BY <1>1, LimitsAssumption DEF Init, Counted, Balanced
<1>3. AdmissionTyped
  <2>1. shutdown \in BOOLEAN /\ ready \in BOOLEAN
    BY Zenon DEF Init
  <2>2. pc \in [Conns -> Places] /\ told \in [Conns -> {"nothing", "success", "failure"}]
    BY DEF Init, Places
  <2>3. failures \in 0 .. 8 /\ valid \subseteq QuicConns /\ loop = "accept"
    BY DEF Init
  <2> QED BY <2>1, <2>2, <2>3 DEF AdmissionTyped
<1>4. ASSUME NEW c \in Conns PROVE Placed(c)
  BY DEF Init, Placed
<1> QED BY <1>2, <1>3, <1>4 DEF AdmissionIInv

LEMMA MinOfTwo ==
    ASSUME NEW a \in Int, NEW b \in Int
    PROVE  Min({a, b}) = IF a <= b THEN a ELSE b
BY DEF Min

(* The back-off of a failing accept stays between 10 ms and 1 s.             *)
LEMMA DelayBounded ==
    ASSUME NEW n \in 0 .. 8
    PROVE  next_delay(n) \in ACCEPT_RETRY_BASE_MILLIS .. ACCEPT_RETRY_MAX_MILLIS
<1>1. Min({n, 7}) \in 0 .. 7
  BY MinOfTwo
<1>2. PICK k \in 0 .. 7 : Min({n, 7}) = k
  BY <1>1
<1>3. 2 ^ k \in 1 .. 128
  <2>1. k = 0 \/ k = 1 \/ k = 2 \/ k = 3 \/ k = 4 \/ k = 5 \/ k = 6 \/ k = 7
    OBVIOUS
  <2>2. /\ 2 ^ 0 \in 1 .. 128 /\ 2 ^ 1 \in 1 .. 128 /\ 2 ^ 2 \in 1 .. 128 /\ 2 ^ 3 \in 1 .. 128
        /\ 2 ^ 4 \in 1 .. 128 /\ 2 ^ 5 \in 1 .. 128 /\ 2 ^ 6 \in 1 .. 128 /\ 2 ^ 7 \in 1 .. 128
    OBVIOUS
  <2> QED BY <2>1, <2>2, Zenon
<1>4. PICK p \in 1 .. 128 : p = 2 ^ k
  BY <1>3, Zenon
<1>5. PICK q \in 10 .. 1280 : q = ACCEPT_RETRY_BASE_MILLIS * p
  BY <1>4 DEF ACCEPT_RETRY_BASE_MILLIS
<1>6. Min({q, ACCEPT_RETRY_MAX_MILLIS})
        = IF q <= ACCEPT_RETRY_MAX_MILLIS THEN q ELSE ACCEPT_RETRY_MAX_MILLIS
  BY <1>5, MinOfTwo DEF ACCEPT_RETRY_MAX_MILLIS
<1>7. Min({q, ACCEPT_RETRY_MAX_MILLIS}) \in ACCEPT_RETRY_BASE_MILLIS .. ACCEPT_RETRY_MAX_MILLIS
  BY <1>5, <1>6 DEF ACCEPT_RETRY_MAX_MILLIS, ACCEPT_RETRY_BASE_MILLIS
<1> QED BY <1>2, <1>4, <1>5, <1>7, Zenon DEF next_delay

(* No permit is lost or made and the gauges are exact in every reachable     *)
(* state, for any number of connections and any limits, whichever way a task *)
(* ends: return, error, shutdown or abort (handle_connection,                *)
(* serve_authenticated_carrier, drain_connection_tasks).                     *)
THEOREM ServerAdmissionExact == Spec => []AdmissionExact
<1>1. AdmissionIInv => AdmissionExact
  <2> SUFFICES ASSUME AdmissionIInv PROVE AdmissionExact
    OBVIOUS
  <2>1. /\ Cardinality(hsHeld) \in Nat /\ Cardinality(ssHeld) \in Nat
        /\ hsFree \in 0 .. MaxHandshakes /\ ssFree \in 0 .. MaxSessions
    BY FS_CardinalityType, LimitsAssumption DEF AdmissionIInv, Counted, Balanced
  <2>2. TypeOK
    BY <2>1, DelayBounded DEF AdmissionIInv, AdmissionTyped, Counted, Balanced, TypeOK
  <2>3. PermitsConserved
    BY DEF AdmissionIInv, Counted, Balanced, Placed, PermitsConserved, Running, Places
  <2>4. GaugesExact
    BY DEF AdmissionIInv, Counted, Handshaking, GaugesExact
  <2>5. ServedHoldPermit /\ GateHoldsNoPermit
    BY DEF AdmissionIInv, Placed, ServedHoldPermit, GateHoldsNoPermit
  <2> QED BY <2>2, <2>3, <2>4, <2>5 DEF AdmissionExact
<1> QED BY <1>1, AdmissionInitIInv, AdmissionNextIInv, PTL DEF Spec

(* No session begins once the shutdown is announced: the flag is read after  *)
(* the handshake and before the session permit is taken.                     *)
THEOREM ServerStartsNoSessionAfterShutdown == Spec => NoSessionAfterShutdown
<1>1. [Next]_vars => [\A c \in Conns : c \in ssHeld' \ ssHeld => ~shutdown]_vars
  BY ZenonT(60) DEF Next, TaskStep, AcceptTcp, AcceptQuic, AcceptError, WakeUp,
         begin_server_shutdown, DrainDeadline, Close, Join, Abort, Start, GatePass, GateReject,
         DiscardEnds, HandshakeOk, HandshakeFailed, HandshakeCut, RefuseEnds,
         SettingsWritten, SettingsFailed, RelayEnds, EndTask, EnterHandshake, permitVars
<1> QED BY <1>1, PTL DEF Spec, NoSessionAfterShutdown

-----------------------------------------------------------------------------
(* The steps an opener can be at; those at which it holds a permit and those *)
(* at which its route may still be in the table.                             *)
HoldSteps == {"admitted", "checked", "reserved", "opening", "cancelling", "timedout", "relay"}
RouteSteps == {"reserved", "opening", "cancelling", "timedout", "relay", "ending"}
Steps == HoldSteps \cup RouteSteps \cup {"idle", "done"}

(* A set of flows that the server's limits allow.                            *)
Allowed(S) ==
    /\ S \subseteq Flows /\ IsFiniteSet(S)
    /\ Cardinality(S) <= max_streams /\ Cardinality(Udp(S)) <= max_udp_flows

(* The session's state as the metrics see it is a function of its two flags. *)
MetricsAgree ==
    /\ draining \in BOOLEAN /\ closed \in BOOLEAN /\ clearing \in BOOLEAN
    /\ metric_state = (IF closed THEN "Closed" ELSE IF draining THEN "Draining" ELSE "Active")
    /\ GaugesMatch

FlowsIInv ==
    /\ stage \in [Flows -> Steps] /\ checks \subseteq {"drain", "reader"}
    /\ Allowed(flows) /\ Allowed(permits)
    /\ PermitsExact /\ RoutesOwned /\ MetricsAgree

(* Fewer flows stay within the limits.                                       *)
LEMMA AllowedFewer ==
    ASSUME NEW S, NEW T \in SUBSET S, Allowed(S)
    PROVE  Allowed(T)
<1>1. /\ IsFiniteSet(T) /\ Cardinality(T) <= Cardinality(S)
      /\ Cardinality(T) \in Nat /\ Cardinality(S) \in Nat
  BY FS_Subset, FS_CardinalityType DEF Allowed
<1>2. IsFiniteSet(Udp(S)) /\ Udp(T) \in SUBSET Udp(S)
  BY FS_Subset DEF Allowed, Udp
<1>3. /\ Cardinality(Udp(T)) <= Cardinality(Udp(S)) /\ IsFiniteSet(Udp(T))
      /\ Cardinality(Udp(T)) \in Nat /\ Cardinality(Udp(S)) \in Nat
  BY <1>2, FS_Subset, FS_CardinalityType
<1> QED BY <1>1, <1>3, FlowLimits DEF Allowed

(* The test of try_admit and reserve_flow leaves room for one more.          *)
LEMMA AllowedMore ==
    ASSUME NEW S, NEW o \in Flows, Allowed(S), Cardinality(S) < max_streams,
           o \in UdpFlows => Cardinality(Udp(S)) < max_udp_flows
    PROVE  Allowed(S \cup {o})
<1>1. /\ IsFiniteSet(S \cup {o}) /\ Cardinality(S) \in Nat
      /\ Cardinality(S \cup {o}) = IF o \in S THEN Cardinality(S) ELSE Cardinality(S) + 1
  BY FS_AddElement, FS_CardinalityType DEF Allowed
<1>2. IsFiniteSet(Udp(S)) /\ Cardinality(Udp(S)) \in Nat
  BY FS_Subset, FS_CardinalityType DEF Allowed, Udp
<1>3. CASE o \in UdpFlows
  <2>1. Udp(S \cup {o}) = Udp(S) \cup {o}
    BY <1>3 DEF Udp
  <2>2. Cardinality(Udp(S) \cup {o})
          = IF o \in Udp(S) THEN Cardinality(Udp(S)) ELSE Cardinality(Udp(S)) + 1
    BY <1>2, FS_AddElement, Zenon
  <2> QED BY <1>1, <1>2, <1>3, <2>1, <2>2, FlowLimits DEF Allowed
<1>4. CASE o \notin UdpFlows
  <2>1. Udp(S \cup {o}) = Udp(S)
    BY <1>4 DEF Udp
  <2> QED BY <1>1, <2>1, FlowLimits DEF Allowed
<1> QED BY <1>3, <1>4

-----------------------------------------------------------------------------
(* What a step may do to the flags and the metrics: nothing, close or begin  *)
(* to drain.                                                                 *)
LEMMA CloseAgrees ==
    ASSUME MetricsAgree, UNCHANGED draining, close
    PROVE  MetricsAgree' /\ ((closed' /\ ~clearing') => (closed /\ ~clearing))
<1>1. CASE closed
  BY <1>1 DEF MetricsAgree, GaugesMatch, close, endVars
<1>2. CASE ~closed
  <2>1. closed' = TRUE /\ clearing' = TRUE /\ metric_state' = "Closed"
    BY <1>2 DEF close
  <2>2. active_sessions' = 0
    BY <1>2 DEF close, MetricsAgree, GaugesMatch
  <2>3. draining_sessions' = 0
    BY <1>2 DEF close, MetricsAgree, GaugesMatch
  <2> QED BY <2>1, <2>2, <2>3 DEF MetricsAgree, GaugesMatch
<1> QED BY <1>1, <1>2

LEMMA EndSame ==
    ASSUME MetricsAgree, UNCHANGED <<draining, endVars>>
    PROVE  MetricsAgree'
BY DEF MetricsAgree, GaugesMatch, endVars

(* remove_flow closes or leaves the flags alone.                             *)
LEMMA RemoveAgrees ==
    ASSUME MetricsAgree, UNCHANGED draining, NEW o, remove_flow(o)
    PROVE  /\ MetricsAgree' /\ flows' = flows \ {o}
           /\ (closed' /\ ~clearing') => (closed /\ ~clearing)
BY CloseAgrees, EndSame, Zenon DEF remove_flow, close, endVars, MetricsAgree

(* Taking a flow out of the table at the end of its request.                 *)
LEMMA EndPreserves ==
    ASSUME FlowsIInv, NEW o \in Flows, End(o), flows' = flows \ {o},
           (closed' /\ ~clearing') => (closed /\ ~clearing),
           MetricsAgree', UNCHANGED checks
    PROVE  FlowsIInv'
<1>1. stage' \in [Flows -> Steps] /\ \A p \in Flows : stage'[p] = IF p = o THEN "done" ELSE stage[p]
  BY DEF FlowsIInv, End, Steps
<1>2. Allowed(flows') /\ Allowed(permits')
  BY AllowedFewer DEF FlowsIInv, End
<1>3. PermitsExact'
  BY <1>1 DEF FlowsIInv, PermitsExact, End
<1>4. RoutesOwned'
  BY <1>1 DEF FlowsIInv, RoutesOwned, Allowed
<1> QED BY <1>1, <1>2, <1>3, <1>4 DEF FlowsIInv, Allowed, Udp

(* A request that moves on without touching the table or the permits.        *)
LEMMA MovePreserves ==
    ASSUME FlowsIInv, NEW o \in Flows, NEW s \in Steps, stage' = [stage EXCEPT ![o] = s],
           UNCHANGED <<flows, permits, checks, draining, endVars>>,
           s \in HoldSteps <=> stage[o] \in HoldSteps,
           o \in flows => s \in RouteSteps /\ stage[o] # "reserved"
    PROVE  FlowsIInv'
<1>1. stage' \in [Flows -> Steps] /\ \A p \in Flows : stage'[p] = IF p = o THEN s ELSE stage[p]
  BY DEF FlowsIInv
<1>2. MetricsAgree'
  BY EndSame DEF FlowsIInv
<1>3. PermitsExact'
  BY <1>1 DEF FlowsIInv, PermitsExact, HoldSteps
<1>4. RoutesOwned'
  BY <1>1 DEF FlowsIInv, RoutesOwned, Allowed, RouteSteps, endVars
<1> QED BY <1>1, <1>2, <1>3, <1>4 DEF FlowsIInv, Allowed, Udp

(* A step of the table alone: routes go, nothing else of an opener changes.  *)
LEMMA ShrinkPreserves ==
    ASSUME FlowsIInv, flows' \subseteq flows, UNCHANGED <<stage, permits>>,
           (closed' /\ ~clearing') => (closed /\ ~clearing) \/ flows' = {},
           MetricsAgree', checks' \subseteq {"drain", "reader"}
    PROVE  FlowsIInv'
<1>1. Allowed(flows')
  BY AllowedFewer DEF FlowsIInv
<1>2. PermitsExact' /\ RoutesOwned'
  BY DEF FlowsIInv, PermitsExact, RoutesOwned
<1> QED BY <1>1, <1>2 DEF FlowsIInv, Allowed, Udp

-----------------------------------------------------------------------------
LEMMA FlowsInitIInv == FlowsInit => FlowsIInv
<1> SUFFICES ASSUME FlowsInit PROVE FlowsIInv
  OBVIOUS
<1>1. Udp({}) = {} /\ Cardinality({}) = 0 /\ IsFiniteSet({})
  BY FS_EmptySet DEF Udp
<1>2. Allowed({})
  BY <1>1, FlowLimits DEF Allowed
<1>3. PermitsExact /\ RoutesOwned /\ MetricsAgree
  BY ZenonT(60) DEF FlowsInit, PermitsExact, RoutesOwned, MetricsAgree, GaugesMatch
<1> QED BY <1>2, <1>3 DEF FlowsInit, FlowsIInv, Steps

LEMMA OpenerPreserves ==
    ASSUME FlowsIInv, NEW o \in Flows, FlowStep(o)
    PROVE  FlowsIInv'
<1> USE DEF HoldSteps, RouteSteps, Steps
<1>0. MetricsAgree /\ (o \in flows => stage[o] \in RouteSteps)
  BY DEF FlowsIInv, RoutesOwned
<1>1. CASE try_admit(o)
  <2>1. /\ stage' \in [Flows -> Steps]
        /\ \A p \in Flows : stage'[p] = IF p = o THEN "admitted" ELSE stage[p]
    BY <1>1 DEF FlowsIInv, try_admit
  <2>2. Allowed(permits')
    BY <1>1, AllowedMore DEF FlowsIInv, try_admit
  <2>3. MetricsAgree'
    BY <1>0, <1>1, EndSame DEF try_admit
  <2>4. PermitsExact'
    BY <1>1, <2>1 DEF FlowsIInv, PermitsExact, try_admit
  <2>5. RoutesOwned'
    BY <1>1, <2>1 DEF FlowsIInv, RoutesOwned, Allowed, try_admit, endVars
  <2> QED BY <1>1, <2>1, <2>2, <2>3, <2>4, <2>5 DEF FlowsIInv, Allowed, Udp, try_admit
<1>2. CASE CheckSession(o)
  <2>1. CASE draining \/ closed
    <3>1. End(o) /\ flows' = flows \ {o}
      BY <1>0, <1>2, <2>1 DEF CheckSession
    <3> QED BY <1>0, <1>2, <3>1, EndPreserves, EndSame DEF CheckSession, endVars
  <2>2. CASE ~(draining \/ closed)
    BY <1>0, <1>2, <2>2, MovePreserves DEF CheckSession
  <2> QED BY <2>1, <2>2
<1>3. CASE reserve_flow(o)
  <2>1. MetricsAgree'
    BY <1>0, <1>3, EndSame DEF reserve_flow
  <2>2. CASE End(o) /\ UNCHANGED flows
    <3>1. flows' = flows \ {o}
      BY <1>0, <1>3, <2>2 DEF reserve_flow
    <3> QED BY <1>3, <2>1, <2>2, <3>1, EndPreserves DEF reserve_flow, endVars
  <2>3. CASE /\ Cardinality(flows) < max_streams
             /\ o \in UdpFlows => Cardinality(Udp(flows)) < max_udp_flows
             /\ stage' = [stage EXCEPT ![o] = "reserved"]
             /\ flows' = flows \cup {o}
             /\ UNCHANGED permits
    <3>1. /\ stage' \in [Flows -> Steps]
          /\ \A p \in Flows : stage'[p] = IF p = o THEN "reserved" ELSE stage[p]
      BY <2>3 DEF FlowsIInv
    <3>2. Allowed(flows')
      BY <2>3, AllowedMore DEF FlowsIInv
    <3>3. PermitsExact'
      BY <1>3, <2>3, <3>1 DEF FlowsIInv, PermitsExact, reserve_flow
    <3>4. RoutesOwned'
      BY <1>3, <2>3, <3>1 DEF FlowsIInv, RoutesOwned, Allowed, reserve_flow, endVars
    <3> QED BY <1>3, <2>1, <2>3, <3>1, <3>2, <3>3, <3>4 DEF FlowsIInv, Allowed, Udp, reserve_flow
  <2> QED BY <1>3, <2>2, <2>3 DEF reserve_flow
<1>4. CASE SendOpen(o)
  <2>1. CASE ~closed /\ stage' = [stage EXCEPT ![o] = "opening"] /\ UNCHANGED <<permits, flows, endVars>>
    <3>1. /\ stage' \in [Flows -> Steps]
          /\ \A p \in Flows : stage'[p] = IF p = o THEN "opening" ELSE stage[p]
      BY <2>1 DEF FlowsIInv
    <3>2. MetricsAgree'
      BY <1>0, <1>4, <2>1, EndSame DEF SendOpen
    <3>3. PermitsExact'
      BY <1>4, <2>1, <3>1 DEF FlowsIInv, PermitsExact, SendOpen
    <3>4. RoutesOwned'
      BY <1>4, <2>1, <3>1 DEF FlowsIInv, RoutesOwned, Allowed, SendOpen, endVars
    <3> QED BY <1>4, <2>1, <3>1, <3>2, <3>3, <3>4 DEF FlowsIInv, Allowed, Udp, SendOpen
  <2>2. CASE End(o) /\ remove_flow(o)
    BY <1>0, <1>4, <2>2, RemoveAgrees, EndPreserves DEF SendOpen
  <2>3. CASE ~closed /\ End(o) /\ flows' = flows \ {o} /\ close
    BY <1>0, <1>4, <2>3, CloseAgrees, EndPreserves DEF SendOpen
  <2> QED BY <1>4, <2>1, <2>2, <2>3 DEF SendOpen
<1>5. CASE TakeAnswer(o)
  <2>1. CASE inbox[o] = "ack"
    BY <1>0, <1>5, <2>1, MovePreserves DEF TakeAnswer
  <2>2. CASE inbox[o] # "ack"
    BY <1>0, <1>5, <2>2, RemoveAgrees, EndPreserves DEF TakeAnswer
  <2> QED BY <2>1, <2>2
<1>6. CASE BeginCancel(o)
  <2>1. CASE stage' = [stage EXCEPT ![o] = "cancelling"] /\ UNCHANGED <<permits, inbox>>
    BY <1>6, <2>1, MovePreserves, Zenon DEF BeginCancel
  <2>2. CASE o \notin flows /\ End(o)
    <3>1. flows' = flows \ {o}
      BY <1>6, <2>2 DEF BeginCancel
    <3> QED BY <1>0, <1>6, <2>2, <3>1, EndPreserves, EndSame DEF BeginCancel, endVars
  <2> QED BY <1>6, <2>1, <2>2 DEF BeginCancel
<1>7. CASE OpenTimeout(o)
  BY <1>7, MovePreserves, Zenon DEF OpenTimeout
<1>8. CASE cancel_pending_open(o)
  <2>1. CASE remove_flow(o)
    BY <1>0, <1>8, <2>1, RemoveAgrees, EndPreserves DEF cancel_pending_open
  <2>2. CASE flows' = flows \ {o} /\ close
    <3> QED BY <1>0, <1>8, <2>2, CloseAgrees, EndPreserves DEF cancel_pending_open
  <2> QED BY <1>8, <2>1, <2>2 DEF cancel_pending_open
<1>9. CASE RelayReturns(o)
  <2>1. /\ stage' \in [Flows -> Steps]
        /\ \A p \in Flows : stage'[p] = IF p = o THEN "ending" ELSE stage[p]
    BY <1>9 DEF FlowsIInv, RelayReturns
  <2>2. Allowed(permits')
    BY <1>9, AllowedFewer DEF FlowsIInv, RelayReturns
  <2>3. MetricsAgree'
    BY <1>0, <1>9, EndSame DEF RelayReturns
  <2>4. PermitsExact'
    BY <1>9, <2>1 DEF FlowsIInv, PermitsExact, RelayReturns
  <2>5. RoutesOwned'
    BY <1>9, <2>1 DEF FlowsIInv, RoutesOwned, Allowed, RelayReturns, endVars
  <2> QED BY <1>9, <2>1, <2>2, <2>3, <2>4, <2>5 DEF FlowsIInv, Allowed, Udp, RelayReturns
<1>10. CASE RelayRemoves(o)
  BY <1>0, <1>10, RemoveAgrees, EndPreserves DEF RelayRemoves
<1>11. CASE RelayConsumes(o)
  BY <1>0, <1>11, EndSame, ShrinkPreserves DEF RelayConsumes, endVars, FlowsIInv
<1>12. CASE NextRequest(o)
  BY <1>0, <1>12, MovePreserves, Zenon DEF NextRequest
<1> QED
  BY <1>1, <1>2, <1>3, <1>4, <1>5, <1>6, <1>7, <1>8, <1>9, <1>10, <1>11, <1>12 DEF FlowStep

LEMMA FlowsNextIInv == FlowsIInv /\ [FlowsNext]_flowVars => FlowsIInv'
<1> SUFFICES ASSUME FlowsIInv, [FlowsNext]_flowVars PROVE FlowsIInv'
  OBVIOUS
<1>0. MetricsAgree /\ checks \subseteq {"drain", "reader"}
  BY DEF FlowsIInv
<1>1. ASSUME NEW o \in Flows, FlowStep(o) PROVE FlowsIInv'
  BY <1>1, OpenerPreserves
<1>2. ASSUME NEW o \in Flows, RouteFrame(o) PROVE FlowsIInv'
  <2>1. MetricsAgree' /\ flows' \subseteq flows /\ checks' \subseteq {"drain", "reader"}
    BY <1>0, <1>2, EndSame, Zenon DEF RouteFrame
  <2> QED BY <1>2, <2>1, ShrinkPreserves DEF RouteFrame, endVars
<1>3. CASE begin_drain
  <2>1. MetricsAgree'
    BY <1>0, <1>3 DEF begin_drain, MetricsAgree, GaugesMatch
  <2> QED BY <1>0, <1>3, <2>1, ShrinkPreserves DEF begin_drain
<1>4. CASE close_if_drained
  <2>1. /\ checks' \subseteq checks /\ UNCHANGED <<stage, flows, permits, draining>>
        /\ close \/ UNCHANGED endVars
    BY <1>4 DEF close_if_drained
  <2>2. MetricsAgree' /\ (closed' /\ ~clearing' => closed /\ ~clearing)
    BY <1>0, <2>1, CloseAgrees, EndSame DEF endVars
  <2> QED BY <1>0, <2>1, <2>2, ShrinkPreserves
<1>5. CASE CloseFromOutside
  BY <1>0, <1>5, CloseAgrees, ShrinkPreserves DEF CloseFromOutside
<1>6. CASE ClearTable
  <2>1. MetricsAgree'
    BY <1>0, <1>6, Zenon DEF ClearTable, MetricsAgree, GaugesMatch, metrics
  <2> QED BY <1>0, <1>6, <2>1, ShrinkPreserves DEF ClearTable
<1>7. CASE UNCHANGED flowVars
  BY <1>0, <1>7, EndSame, ShrinkPreserves DEF flowVars, endVars
<1> QED BY <1>1, <1>2, <1>3, <1>4, <1>5, <1>6, <1>7 DEF FlowsNext

(* Permits, routes, limits and gauges of a session agree in every reachable  *)
(* state, for any number of requests and any limits: on every way a request  *)
(* can end (try_admit to remove_flow, close, begin_drain), in any order.     *)
THEOREM SessionFlowsAccounted == FlowsSpec => []FlowsAccounted
<1>1. FlowsIInv => FlowsAccounted
  BY DEF FlowsIInv, FlowsAccounted, FlowsTypeOK, TableWithinLimits, Allowed, MetricsAgree,
         GaugesMatch
<1> QED BY <1>1, FlowsInitIInv, FlowsNextIInv, PTL DEF FlowsSpec

(* A draining session takes no new route (reserve_flow looks at the flag     *)
(* under the table's lock) and its drain closes it only when it is empty     *)
(* (close_if_drained).                                                       *)
THEOREM SessionDrainsCleanly ==
    FlowsSpec => [][NoRouteOnceDraining /\ DrainClosesEmpty]_flowVars
<1>1. [FlowsNext]_flowVars => [NoRouteOnceDraining /\ DrainClosesEmpty]_flowVars
  <2> SUFFICES ASSUME FlowsNext PROVE NoRouteOnceDraining /\ DrainClosesEmpty
    OBVIOUS
  <2>1. NoRouteOnceDraining
    BY ZenonT(60) DEF FlowsNext, FlowStep, NoRouteOnceDraining, try_admit, CheckSession, reserve_flow,
           SendOpen, TakeAnswer, BeginCancel, OpenTimeout, cancel_pending_open, RelayReturns,
           RelayRemoves, RelayConsumes, NextRequest, RouteFrame, begin_drain,
           close_if_drained, CloseFromOutside, ClearTable, remove_flow
  <2>2. checks \subseteq checks' \/ close_if_drained
    BY Zenon DEF FlowsNext, FlowStep, try_admit, CheckSession, reserve_flow, SendOpen, TakeAnswer,
           BeginCancel, OpenTimeout, cancel_pending_open, RelayReturns, RelayRemoves,
           RelayConsumes, NextRequest, RouteFrame, begin_drain, CloseFromOutside, ClearTable
  <2>3. DrainClosesEmpty
    BY <2>2, Zenon DEF DrainClosesEmpty, close_if_drained, endVars
  <2> QED BY <2>1, <2>3
<1> QED BY <1>1, PTL DEF FlowsSpec

-----------------------------------------------------------------------------
(* The keepalive task waits only for a ping it has sent, a task about to     *)
(* park or parked is registered for the notification, and a recorded pong is *)
(* one that the peer sent.                                                   *)
KeepaliveIInv ==
    /\ PongMatched /\ listening \in BOOLEAN /\ notified \in BOOLEAN
    /\ ka \in Waiting \cup {"write"} => nonce # 0
    /\ ka \in {"check", "parked"} => listening
    /\ (nonce # 0 /\ last_pong_nonce = nonce /\ ~silent) => nonce \in echoes
    /\ pings \subseteq 1..nonce

LEMMA KeepaliveInitIInv == KeepaliveInit => KeepaliveIInv
<1> SUFFICES ASSUME KeepaliveInit PROVE KeepaliveIInv
  OBVIOUS
<1>1. listening = FALSE /\ notified = FALSE
  BY DEF KeepaliveInit
<1>2. PongMatched
  BY DEF KeepaliveInit, PongMatched, KeepaliveTypeOK, AnswerWakes, AnswerIsOwn, Waiting
<1> QED BY <1>1, <1>2, Zenon DEF KeepaliveInit, KeepaliveIInv, Waiting

LEMMA KeepaliveNextIInv == KeepaliveIInv /\ [KeepaliveNext]_kaVars => KeepaliveIInv'
<1> SUFFICES ASSUME KeepaliveIInv, [KeepaliveNext]_kaVars PROVE KeepaliveIInv'
  OBVIOUS
<1> USE DEF KeepaliveIInv, PongMatched, KeepaliveTypeOK, AnswerWakes, AnswerIsOwn, Waiting
<1>1. CASE IntervalPasses
  BY <1>1 DEF IntervalPasses, peerVars, sessionVars
<1>2. CASE WritePing
  <2>1. CASE pings' = pings \cup {nonce} /\ ka' = "subscribe" /\ UNCHANGED outstanding_ping_nonce
    BY <1>2, <2>1 DEF WritePing
  <2>2. CASE clear_outstanding_ping /\ ka' = "end" /\ UNCHANGED pings
    BY <1>2, <2>2 DEF WritePing, clear_outstanding_ping
  <2> QED BY <1>2, <2>1, <2>2 DEF WritePing
<1>3. CASE Subscribe
  BY <1>3, Zenon DEF Subscribe, peerVars, sessionVars
<1>4. CASE Look
  BY <1>4, Zenon DEF Look, clear_outstanding_ping, peerVars, sessionVars
<1>5. CASE Wake
  BY <1>5 DEF Wake, peerVars, sessionVars
<1>6. CASE PongTimeout
  BY <1>6, ZenonT(60) DEF PongTimeout, clear_outstanding_ping, peerVars
<1>7. CASE StopSleeping
  BY <1>7 DEF StopSleeping, peerVars, sessionVars
<1>8. CASE PeerDies
  BY <1>8 DEF PeerDies, sessionVars
<1>9. CASE SessionChanges
  BY <1>9 DEF SessionChanges, peerVars
<1>10. CASE OtherClose
  BY <1>10 DEF OtherClose, peerVars
<1>11. ASSUME NEW n \in 1..MaxPings, DeliverPong(n) PROVE KeepaliveIInv'
  <2>1. CASE UNCHANGED <<last_pong_nonce, notified>>
    BY <1>11, <2>1 DEF DeliverPong, peerVars, sessionVars
  <2>2. CASE /\ n = outstanding_ping_nonce /\ outstanding_ping_nonce # 0
             /\ last_pong_nonce' = n /\ notified' = (notified \/ listening)
    <3>1. n = nonce /\ n \in echoes /\ nonce # 0
      BY <1>11, <2>2 DEF DeliverPong
    <3>2. ka = "parked" => notified'
      BY <2>2, Zenon
    <3> QED BY <1>11, <2>2, <3>1, <3>2 DEF DeliverPong, peerVars, sessionVars
  <2> QED BY <1>11, <2>1, <2>2 DEF DeliverPong, record_matching_pong
<1>12. ASSUME NEW n \in 1..MaxPings, PeerEchoes(n) PROVE KeepaliveIInv'
  BY <1>12 DEF PeerEchoes, sessionVars
<1>13. CASE UNCHANGED kaVars
  BY <1>13 DEF kaVars
<1> QED
  BY <1>1, <1>2, <1>3, <1>4, <1>5, <1>6, <1>7, <1>8, <1>9, <1>10, <1>11, <1>12, <1>13, ZenonT(60)
  DEF KeepaliveNext, KeepaliveTask

(* A ping is answered by its own pong and by no other, and its answer always *)
(* wakes the task that waits for it (record_matching_pong, wait_for_pong),   *)
(* for any number of pings and however late, repeated or reordered the pongs *)
(* arrive.                                                                   *)
THEOREM SessionPongMatched == KeepaliveSpec => []PongMatched
<1>1. KeepaliveIInv => PongMatched
  BY DEF KeepaliveIInv
<1> QED BY <1>1, KeepaliveInitIInv, KeepaliveNextIInv, PTL DEF KeepaliveSpec
=============================================================================

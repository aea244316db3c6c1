------------------------- MODULE ClientPoolProofs -------------------------
(* Proofs about ClientPool for any number of connections, sessions and       *)
(* reloads and any size of the pool.                                         *)
EXTENDS ClientPool, FiniteSetTheorems, TLAPS

(* The steps a task takes under connect_lock, and the states of the listener *)
(* inside the critical section of a reload.                                  *)
Growing == {"locked", "grow"} \cup Dialing
InReload == {"refreshing", "applied", "draining"}
Steps == {"none", "admit", "wait", "held", "relay", "watch", "pause", "done"} \cup Growing
SessionStates == [st : {"open", "closed"}, gen : Nat, draining : BOOLEAN, pooled : BOOLEAN]

PoolTyped ==
    /\ generation \in 1 .. (MaxReloads + 1)
    /\ listener \in {"validated", "refreshing"} => generation <= MaxReloads
    /\ pool \subseteq Sessions /\ closers \subseteq Sessions /\ hand \subseteq Sessions
    /\ IsFiniteSet(pool)
    /\ sess \in [Sessions -> SessionStates]
    /\ recent_connect_failure \in [gen : Nat, left : Int]
    /\ shut \in BOOLEAN /\ stop \in BOOLEAN
    /\ pc \in [Tasks -> Steps] /\ at \in [Tasks -> Sessions \cup {Nobody}]
    /\ snap \in [Tasks -> Nat]

(* Who holds the two locks.                                                  *)
Locked ==
    /\ connect_lock \in Tasks \cup {Nobody}
    /\ config_publish_lock \in Tasks \cup {Nobody, "reload"}
    /\ \A t \in Tasks : pc[t] \in Growing => connect_lock = t
    /\ \A t \in Tasks : pc[t] = "push" <=> config_publish_lock = t
    /\ listener \in InReload <=> config_publish_lock = "reload"

(* A task that has dialled holds a session nobody else knows, of the         *)
(* generation it has read, and there is room for it in the pool.             *)
Dialled(t) ==
    /\ pc[t] \in {"held", "relay", "watch", "publish", "push"} => at[t] \in Sessions
    /\ pc[t] \in {"publish", "push"} => /\ sess[at[t]].gen = snap[t]
                                        /\ ~sess[at[t]].pooled /\ ~sess[at[t]].draining
    /\ pc[t] = "push" => snap[t] = generation

HasRoom(t) ==
    /\ pc[t] \in Dialing => Cardinality(live_sessions) < max_carrier_sessions
    /\ t = Maintainer /\ pc[t] = "grow" => live_sessions = {}

(* Pooled sessions are current and in service; what the listener took from   *)
(* the pool is in its hand until it is drained or closed.                    *)
Pooled ==
    /\ \A s \in pool : sess[s].pooled /\ ~sess[s].draining
    /\ listener # "applied" => \A s \in pool : sess[s].gen = generation
    /\ \A s \in hand : sess[s].pooled
    /\ listener \notin {"draining", "emptied"} => hand = {}
    /\ listener \in {"draining", "emptied", "done"} => pool = {}
    /\ listener \in {"closing", "emptied", "done"} => shut
    /\ recent_connect_failure.left > 0 => recent_connect_failure.gen = generation

PoolIInv ==
    /\ PoolTyped /\ Locked /\ Pooled /\ PoolBounded /\ NoSessionStranded
    /\ \A t \in Tasks : Dialled(t) /\ HasRoom(t)

(* A step that opens no session and moves none between generations.          *)
Calm ==
    \A s \in Sessions : /\ sess'[s].gen = sess[s].gen /\ sess'[s].pooled = sess[s].pooled
                        /\ sess'[s].draining = sess[s].draining
                        /\ sess'[s].st = "open" => sess[s].st = "open"

LEMMA CalmSame == sess' = sess => Calm
BY DEF Calm

LEMMA CalmClosed ==
    ASSUME PoolIInv, NEW s \in Sessions, sess' = Closed(s)
    PROVE  Calm /\ sess' \in [Sessions -> SessionStates] /\ sess'[s].st = "closed"
BY DEF PoolIInv, PoolTyped, Calm, Closed, SessionStates

(* The live sessions of a pool that only shrinks.                            *)
LEMMA LiveFewer ==
    ASSUME PoolIInv, Calm, pool' \subseteq pool
    PROVE  /\ IsFiniteSet(pool') /\ live_sessions' \subseteq live_sessions
           /\ Cardinality(live_sessions) \in Nat /\ Cardinality(live_sessions') \in Nat
           /\ Cardinality(live_sessions') <= Cardinality(live_sessions)
<1>1. live_sessions' \subseteq live_sessions
  BY DEF Calm, live_sessions, Open, PoolIInv, PoolTyped
<1>2. IsFiniteSet(live_sessions)
  BY FS_Subset DEF live_sessions, PoolIInv, PoolTyped
<1>3. IsFiniteSet(pool')
  BY FS_Subset DEF PoolIInv, PoolTyped
<1>4. /\ Cardinality(live_sessions) \in Nat /\ Cardinality(live_sessions') \in Nat
      /\ Cardinality(live_sessions') <= Cardinality(live_sessions)
  BY <1>1, <1>2, FS_Subset, FS_CardinalityType
<1> QED BY <1>1, <1>3, <1>4

LEMMA RoomKept ==
    ASSUME PoolIInv, Calm, pool' \subseteq pool
    PROVE  /\ PoolBounded'
           /\ \A u \in Tasks : pc'[u] = pc[u] \/ pc'[u] \notin {"grow"} \cup Dialing
                                => HasRoom(u)'
<1>1. /\ live_sessions' \subseteq live_sessions
      /\ Cardinality(live_sessions) \in Nat /\ Cardinality(live_sessions') \in Nat
      /\ Cardinality(live_sessions') <= Cardinality(live_sessions)
  BY LiveFewer
<1>2. PoolBounded'
  BY <1>1, PoolAssumption DEF PoolIInv, PoolBounded
<1>3. ASSUME NEW u \in Tasks, pc'[u] = pc[u] \/ pc'[u] \notin {"grow"} \cup Dialing
      PROVE  HasRoom(u)'
  <2>1. HasRoom(u)
    BY DEF PoolIInv
  <2> QED BY <1>1, <1>3, <2>1, PoolAssumption DEF HasRoom
<1> QED BY <1>2, <1>3

(* What a task knows of its session is still so.                             *)
LEMMA DialledKept ==
    ASSUME PoolIInv, Calm, NEW u \in Tasks, pc'[u] = pc[u], at'[u] = at[u], snap'[u] = snap[u],
           pc[u] = "push" => generation' = generation
    PROVE  Dialled(u)'
<1>1. Dialled(u)
  BY DEF PoolIInv
<1>2. at[u] \in Sessions => /\ sess'[at[u]].gen = sess[at[u]].gen
                            /\ sess'[at[u]].pooled = sess[at[u]].pooled
                            /\ sess'[at[u]].draining = sess[at[u]].draining
  BY DEF Calm
<1> QED BY <1>1, <1>2 DEF Dialled

(* The sessions somebody is responsible for remain so.                       *)
LEMMA StrandedKept ==
    ASSUME PoolIInv, Calm,
           \A x \in Sessions : sess'[x].st = "open" /\ x \in pool \cup hand \cup closers
                                  => x \in pool' \cup hand' \cup closers',
           \A u \in Tasks : pc[u] \in {"publish", "push"} =>
               at[u] \in closers' \cup pool' \/ (at'[u] = at[u] /\ pc'[u] \in {"publish", "push"}),
           listener' \in Stopped \/ (listener \notin Stopped
               /\ \A x \in Sessions : sess'[x].st = "open" /\ sess[x].draining /\ Relays(x) # {}
                                          => Relays(x)' # {})
    PROVE  NoSessionStranded'
<1> SUFFICES ASSUME NEW x \in Sessions, sess'[x].st = "open"
             PROVE  \/ x \in pool' \cup hand' \cup closers'
                    \/ \E t \in Tasks : at'[t] = x /\ pc'[t] \in {"publish", "push"}
                    \/ sess'[x].draining /\ (Relays(x)' # {} \/ listener' \in Stopped)
  BY DEF NoSessionStranded, Open
<1>1. \/ x \in pool \cup hand \cup closers
      \/ \E t \in Tasks : at[t] = x /\ pc[t] \in {"publish", "push"}
      \/ sess[x].draining /\ (Relays(x) # {} \/ listener \in Stopped)
  BY DEF PoolIInv, NoSessionStranded, Open, Calm
<1>2. CASE \E t \in Tasks : at[t] = x /\ pc[t] \in {"publish", "push"}
  BY <1>2
<1>3. CASE sess[x].draining /\ (Relays(x) # {} \/ listener \in Stopped)
  <2>1. sess'[x].draining
    BY <1>3 DEF Calm
  <2>2. CASE listener' \in Stopped
    BY <2>1, <2>2
  <2>3. CASE listener' \notin Stopped
    BY <1>3, <2>1, <2>3
  <2> QED BY <2>2, <2>3
<1> QED BY <1>1, <1>2, <1>3

LEMMA PooledKept ==
    ASSUME PoolIInv, Calm, pool' \subseteq pool, UNCHANGED <<hand, generation, shut>>,
           listener' = listener \/ (listener = "emptied" /\ listener' = "done" /\ hand = {}),
           recent_connect_failure'.left > 0 => recent_connect_failure'.gen = generation
    PROVE  Pooled'
<1>1. \A s \in pool' \cup hand' : s \in Sessions
  BY DEF PoolIInv, PoolTyped
<1> QED BY <1>1 DEF PoolIInv, Pooled, Calm

-----------------------------------------------------------------------------
LEMMA PoolInitIInv == PoolInit => PoolIInv
<1> SUFFICES ASSUME PoolInit PROVE PoolIInv
  OBVIOUS
<1>1. PoolTyped
  <2>1. pc \in [Tasks -> Steps]
    BY DEF PoolInit, Steps
  <2>2. at \in [Tasks -> Sessions \cup {Nobody}] /\ snap \in [Tasks -> Nat]
    BY DEF PoolInit
  <2>3. sess \in [Sessions -> SessionStates] /\ recent_connect_failure \in [gen : Nat, left : Int]
    BY DEF PoolInit, SessionStates, Free, NoFailure
  <2>4. generation \in 1 .. (MaxReloads + 1) /\ listener \notin {"validated", "refreshing"}
    BY PoolAssumption DEF PoolInit
  <2>5. shut \in BOOLEAN /\ stop \in BOOLEAN
    BY Zenon DEF PoolInit
  <2> QED BY <2>1, <2>2, <2>3, <2>4, <2>5, FS_EmptySet DEF PoolInit, PoolTyped
<1>2. live_sessions = {} /\ Cardinality(live_sessions) = 0
  BY FS_EmptySet DEF PoolInit, live_sessions
<1>3. \A u \in Tasks : pc[u] \in {"admit", "none"}
  BY DEF PoolInit
<1>4. Locked
  BY <1>3, PoolAssumption DEF PoolInit, Locked, Growing, Dialing, InReload
<1>5. Pooled /\ PoolBounded
  BY <1>2, PoolAssumption DEF PoolInit, Pooled, PoolBounded, NoFailure
<1>6. NoSessionStranded
  BY DEF PoolInit, NoSessionStranded, Open, Free
<1>7. \A u \in Tasks : Dialled(u) /\ HasRoom(u)
  BY <1>3 DEF Dialled, HasRoom, Dialing
<1> QED BY <1>1, <1>4, <1>5, <1>6, <1>7 DEF PoolIInv

(* A task moves without a lock changing hands, or leaves the admission path  *)
(* and drops the locks it has.                                               *)
LEMMA LocksKept ==
    ASSUME PoolIInv, NEW t \in Tasks, NEW p \in Steps, pc' = [pc EXCEPT ![t] = p],
           \/ Unlock(t) /\ p \notin Growing
           \/ UNCHANGED lockVars /\ pc[t] # "push" /\ p # "push" /\ (p \in Growing => connect_lock = t),
           listener' \in InReload <=> listener \in InReload
    PROVE  Locked'
<1>1. \A u \in Tasks : pc'[u] = IF u = t THEN p ELSE pc[u]
  BY DEF PoolIInv, PoolTyped
<1>2. "push" \in Growing
  BY DEF Growing, Dialing
<1>3. t # Nobody /\ t # "reload" /\ Nobody # "reload"
  BY PoolAssumption
<1>4. CASE Unlock(t) /\ p \notin Growing
  <2>1. \A u \in Tasks : pc'[u] \in Growing => connect_lock' = u
    BY <1>1, <1>4 DEF PoolIInv, Locked, Unlock
  <2>2. \A u \in Tasks : pc'[u] = "push" <=> config_publish_lock' = u
    <3>1. CASE config_publish_lock = t
      BY <1>1, <1>2, <1>3, <1>4, <3>1, PoolAssumption DEF PoolIInv, Locked, Unlock
    <3>2. CASE config_publish_lock # t
      BY <1>1, <1>2, <1>3, <1>4, <3>2 DEF PoolIInv, Locked, Unlock
    <3> QED BY <3>1, <3>2
  <2>3. config_publish_lock' = "reload" <=> config_publish_lock = "reload"
    BY <1>3, <1>4 DEF Unlock
  <2>4. connect_lock' \in Tasks \cup {Nobody} /\ config_publish_lock' \in Tasks \cup {Nobody, "reload"}
    BY <1>4 DEF PoolIInv, Locked, Unlock
  <2> QED BY <2>1, <2>2, <2>3, <2>4 DEF PoolIInv, Locked
<1>5. CASE UNCHANGED lockVars /\ pc[t] # "push" /\ p # "push" /\ (p \in Growing => connect_lock = t)
  BY <1>1, <1>5 DEF PoolIInv, Locked, lockVars
<1> QED BY <1>4, <1>5

(* A task moves, opening nothing and leaving no session behind.              *)
LEMMA MoveKeeps ==
    ASSUME PoolIInv, NEW t \in Tasks, NEW p \in Steps \ {"publish", "push"},
           NEW s \in Sessions \cup {Nobody}, NEW n \in Nat,
           pc' = [pc EXCEPT ![t] = p], at' = [at EXCEPT ![t] = s], snap' = [snap EXCEPT ![t] = n],
           p \in {"held", "relay", "watch"} => s \in Sessions,
           p \in {"grow"} \cup Dialing => HasRoom(t)',
           Locked', Calm, sess' \in [Sessions -> SessionStates],
           UNCHANGED <<generation, shut, stop, hand>>, pool' \subseteq pool, closers' \subseteq Sessions,
           recent_connect_failure' \in [gen : Nat, left : Int],
           recent_connect_failure'.left > 0 => recent_connect_failure'.gen = generation,
           \A x \in Sessions : sess'[x].st = "open" /\ x \in pool \cup closers
                                  => x \in pool' \cup closers',
           pc[t] \in {"publish", "push"} => at[t] \in closers',
           t \in Conns /\ pc[t] = "relay" => \/ sess'[at[t]].st = "closed" \/ ~sess[at[t]].draining
                                            \/ Relays(at[t]) # {t},
           listener' = listener \/ (listener = "emptied" /\ listener' = "done" /\ hand = {})
    PROVE  PoolIInv'
<1>1. \A u \in Tasks : /\ pc'[u] = IF u = t THEN p ELSE pc[u]
                       /\ at'[u] = IF u = t THEN s ELSE at[u]
                       /\ snap'[u] = IF u = t THEN n ELSE snap[u]
  BY DEF PoolIInv, PoolTyped
<1>2. PoolTyped'
  <2>1. pc' \in [Tasks -> Steps] /\ at' \in [Tasks -> Sessions \cup {Nobody}] /\ snap' \in [Tasks -> Nat]
    BY DEF PoolIInv, PoolTyped
  <2>2. IsFiniteSet(pool')
    BY LiveFewer
  <2> QED BY <2>1, <2>2 DEF PoolIInv, PoolTyped
<1>3. Pooled'
  BY PooledKept
<1>4. PoolBounded' /\ \A u \in Tasks : HasRoom(u)'
  <2>1. \A u \in Tasks : u = t \/ pc'[u] = pc[u]
    BY <1>1
  <2>2. HasRoom(t)'
    BY <1>1, RoomKept
  <2> QED BY <2>1, <2>2, RoomKept
<1>5. ASSUME NEW u \in Tasks PROVE Dialled(u)'
  <2>1. CASE u = t
    BY <1>1, <2>1 DEF Dialled
  <2>2. CASE u # t
    BY <1>1, <2>2, DialledKept
  <2> QED BY <2>1, <2>2
<1>6. NoSessionStranded'
  <2>1. \A u \in Tasks : pc[u] \in {"publish", "push"} =>
          at[u] \in closers' \cup pool' \/ (at'[u] = at[u] /\ pc'[u] \in {"publish", "push"})
    BY <1>1
  <2>2. ASSUME NEW x \in Sessions, sess'[x].st = "open", sess[x].draining, Relays(x) # {}
        PROVE  Relays(x)' # {}
    <3>1. PICK c \in Conns : pc[c] = "relay" /\ at[c] = x /\ (c = t => Relays(x) = {t})
      BY <2>2 DEF Relays
    <3>2. c # t
      BY <2>2, <3>1
    <3>3. c \in Relays(x)'
      BY <1>1, <3>1, <3>2 DEF Relays, Tasks
    <3> QED BY <3>3
  <2>3. \A x \in Sessions : sess'[x].st = "open" /\ x \in pool \cup hand \cup closers
                               => x \in pool' \cup hand' \cup closers'
    OBVIOUS
  <2>4. listener' \in Stopped \/ listener \notin Stopped
    BY DEF Stopped
  <2> QED BY <2>1, <2>2, <2>3, <2>4, StrandedKept
<1> QED BY <1>2, <1>3, <1>4, <1>5, <1>6 DEF PoolIInv

LEMMA LeaveKeeps ==
    ASSUME PoolIInv, NEW t \in Tasks, NEW p \in Steps \ (Growing \cup {"relay"}),
           NEW s \in Sessions \cup {Nobody}, Leave(t, p, s),
           p \in {"held", "watch"} => s \in Sessions,
           UNCHANGED <<generation, sess, shut, stop, hand>>,
           pool' = pool \/ pool' = live_sessions, closers \subseteq closers', closers' \subseteq Sessions,
           recent_connect_failure' \in [gen : Nat, left : Int],
           recent_connect_failure'.left > 0 => recent_connect_failure'.gen = generation,
           pc[t] \in {"publish", "push"} => at[t] \in closers',
           pc[t] # "relay" \/ t \notin Conns,
           listener' = listener \/ (listener = "emptied" /\ listener' = "done" /\ hand = {})
    PROVE  PoolIInv'
<1>1. /\ pc' = [pc EXCEPT ![t] = p] /\ at' = [at EXCEPT ![t] = s] /\ snap' = [snap EXCEPT ![t] = 0]
      /\ Unlock(t) /\ p \in Steps \ {"publish", "push"} /\ p \notin {"grow"} \cup Dialing
  BY DEF Leave, Growing, Dialing
<1>2. Locked'
  <2>1. listener' \in InReload <=> listener \in InReload
    BY DEF InReload
  <2> QED BY <1>1, <2>1, LocksKept, Zenon
<1>3. Calm /\ sess' \in [Sessions -> SessionStates] /\ pool' \subseteq pool
  BY CalmSame DEF PoolIInv, PoolTyped, live_sessions
<1>4. \A x \in Sessions : sess'[x].st = "open" /\ x \in pool \cup closers => x \in pool' \cup closers'
  BY DEF live_sessions, Open
<1> QED BY <1>1, <1>2, <1>3, <1>4, MoveKeeps, Zenon

(* The steps a task may leave for.                                           *)
LEMMA Aside ==
    /\ {"admit", "held", "watch", "pause", "done", "wait"} \subseteq Steps \ (Growing \cup {"relay"})
    /\ {"grow", "dial", "remember", "locked", "relay"} \subseteq Steps \ {"publish", "push"}
    /\ Steps \ (Growing \cup {"relay"}) \subseteq Steps \ {"publish", "push"}
BY DEF Steps, Growing, Dialing

LEMMA FailureTyped ==
    ASSUME PoolIInv
    PROVE  /\ recent_connect_failure \in [gen : Nat, left : Int]
           /\ recent_connect_failure.left > 0 => recent_connect_failure.gen = generation
           /\ generation \in Nat
BY PoolAssumption DEF PoolIInv, PoolTyped, Pooled

-----------------------------------------------------------------------------
(* The steps of the tasks.                                                   *)

LEMMA AcceptKeeps ==
    ASSUME PoolIInv, NEW t \in Conns, Accept(t)
    PROVE  PoolIInv'
<1>1. PICK p \in {"admit", "done"} : pc' = [pc EXCEPT ![t] = p]
  BY Zenon DEF Accept
<1>2. /\ pc[t] = "none" /\ t \in Tasks
      /\ UNCHANGED <<generation, recent_connect_failure, lockVars, pool, sess, closers, hand, shut,
                     stop, listener, at, snap>>
  BY DEF Accept, Tasks, cfgVars
<1>3. PICK s \in Sessions \cup {Nobody}, n \in Nat :
        at' = [at EXCEPT ![t] = s] /\ snap' = [snap EXCEPT ![t] = n]
  <2>1. /\ at[t] \in Sessions \cup {Nobody} /\ snap[t] \in Nat
        /\ at' = [at EXCEPT ![t] = at[t]] /\ snap' = [snap EXCEPT ![t] = snap[t]]
    BY <1>2 DEF PoolIInv, PoolTyped
  <2> QED BY <2>1, Zenon
<1>4. Calm /\ sess' \in [Sessions -> SessionStates] /\ closers' \subseteq Sessions
  BY <1>2, CalmSame DEF PoolIInv, PoolTyped
<1>5. /\ p \in Steps \ {"publish", "push"} /\ p \notin {"held", "relay", "watch"}
      /\ p \notin Growing /\ p \notin {"grow"} \cup Dialing
  BY Aside DEF Growing, Dialing
<1>6. Locked'
  BY <1>1, <1>2, <1>5, LocksKept, Zenon
<1> QED BY <1>1, <1>2, <1>3, <1>4, <1>5, <1>6, FailureTyped, MoveKeeps, Zenon

LEMMA AdmitKeeps ==
    ASSUME PoolIInv, NEW t \in Tasks, Admit(t)
    PROVE  PoolIInv'
<1>1. /\ pc[t] \in {"admit", "locked"} /\ pool' = live_sessions
      /\ UNCHANGED <<cfgVars, sess, closers, hand, shut, stop, listener>>
  BY DEF Admit
<1>2. /\ recent_connect_failure' = recent_connect_failure /\ generation' = generation
      /\ closers' \subseteq Sessions
  BY <1>1 DEF cfgVars, PoolIInv, PoolTyped
<1>3. Candidates \subseteq Sessions /\ WithRoom \subseteq Sessions
  BY DEF Candidates, WithRoom, PoolIInv, PoolTyped
<1>4. CASE \E s \in WithRoom : Leave(t, "held", s)
  BY <1>1, <1>2, <1>3, <1>4, Aside, FailureTyped, LeaveKeeps
<1>5. CASE \E s \in Candidates : Leave(t, "watch", s)
  BY <1>1, <1>2, <1>3, <1>5, Aside, FailureTyped, LeaveKeeps
<1>6. CASE /\ pool \cap (IF t = Maintainer THEN Candidates ELSE WithRoom) = {}
           /\ pc' = [pc EXCEPT ![t] = IF @ = "admit" THEN "wait" ELSE "grow"]
           /\ UNCHANGED <<lockVars, at, snap, tries>>
  <2>1. PICK p \in {"wait", "grow"} : /\ pc' = [pc EXCEPT ![t] = p]
                                      /\ p = "grow" => pc[t] = "locked"
    BY <1>1, <1>6, Zenon
  <2>2. /\ at[t] \in Sessions \cup {Nobody} /\ snap[t] \in Nat
        /\ at' = [at EXCEPT ![t] = at[t]] /\ snap' = [snap EXCEPT ![t] = snap[t]]
    BY <1>6 DEF PoolIInv, PoolTyped
  <2>3. p = "grow" => connect_lock = t
    BY <2>1 DEF PoolIInv, Locked, Growing
  <2>4. p = "wait" => p \notin Growing
    BY DEF Growing, Dialing
  <2>5. Locked'
    BY <1>1, <1>6, <2>1, <2>3, <2>4, Aside, LocksKept, Zenon
  <2>6. Calm /\ sess' \in [Sessions -> SessionStates] /\ pool' \subseteq pool
    BY <1>1, CalmSame DEF PoolIInv, PoolTyped, live_sessions
  <2>7. \A x \in Sessions : sess'[x].st = "open" /\ x \in pool \cup closers => x \in pool' \cup closers'
    BY <1>1 DEF live_sessions, Open
  <2>8. HasRoom(t)'
    <3>1. pc'[t] = p /\ p \notin Dialing
      BY <2>1 DEF PoolIInv, PoolTyped, Dialing
    <3>2. t = Maintainer => live_sessions = {}
      BY <1>6 DEF live_sessions, Candidates, PoolIInv, Pooled
    <3>3. t = Maintainer => live_sessions' = {}
      BY <3>2, <2>6, LiveFewer
    <3> QED BY <3>1, <3>3 DEF HasRoom
  <2> QED BY <1>1, <1>2, <2>1, <2>2, <2>5, <2>6, <2>7, <2>8, Aside, FailureTyped, MoveKeeps, ZenonT(60)
<1> QED BY <1>4, <1>5, <1>6 DEF Admit

LEMMA RefusedKeeps ==
    ASSUME PoolIInv, NEW t \in Tasks, RefusedAsClosed(t)
    PROVE  PoolIInv'
<1>1. PICK p \in {"done", "pause"} : Leave(t, p, Nobody)
  BY DEF RefusedAsClosed, Failed
<1>2. /\ pc[t] \in {"admit", "locked"} /\ closers' \subseteq Sessions
      /\ UNCHANGED <<generation, recent_connect_failure, pool, sess, closers, hand, shut, stop,
                     listener>>
  BY DEF RefusedAsClosed, cfgVars, PoolIInv, PoolTyped
<1> QED BY <1>1, <1>2, Aside, FailureTyped, LeaveKeeps

LEMMA AcquireKeeps ==
    ASSUME PoolIInv, NEW t \in Tasks, AcquireConnectLock(t)
    PROVE  PoolIInv'
<1>1. /\ pc[t] = "wait" /\ connect_lock = Nobody /\ connect_lock' = t
      /\ pc' = [pc EXCEPT ![t] = "locked"]
      /\ UNCHANGED <<cfgVars, config_publish_lock, pool, sess, closers, hand, shut, stop, listener,
                     at, snap>>
  BY DEF AcquireConnectLock
<1>2. /\ at[t] \in Sessions \cup {Nobody} /\ snap[t] \in Nat
      /\ at' = [at EXCEPT ![t] = at[t]] /\ snap' = [snap EXCEPT ![t] = snap[t]]
  BY <1>1 DEF PoolIInv, PoolTyped
<1>3. Locked'
  <2>1. \A u \in Tasks : pc'[u] = IF u = t THEN "locked" ELSE pc[u]
    BY <1>1 DEF PoolIInv, PoolTyped
  <2>2. \A u \in Tasks : pc[u] \notin Growing
    BY <1>1, PoolAssumption DEF PoolIInv, Locked
  <2> QED BY <1>1, <2>1, <2>2 DEF PoolIInv, Locked
<1>4. Calm /\ sess' \in [Sessions -> SessionStates] /\ closers' \subseteq Sessions
  BY <1>1, CalmSame DEF PoolIInv, PoolTyped
<1>5. "locked" \notin {"grow"} \cup Dialing
  BY DEF Dialing
<1> QED BY <1>1, <1>2, <1>3, <1>4, <1>5, Aside, FailureTyped, MoveKeeps, Zenon DEF cfgVars

LEMMA GrowKeeps ==
    ASSUME PoolIInv, NEW t \in Tasks, GrowOrRefuse(t)
    PROVE  PoolIInv'
<1>1. /\ pc[t] = "grow" /\ pool' = live_sessions /\ closers' \subseteq Sessions
      /\ UNCHANGED <<generation, recent_connect_failure, sess, closers, hand, shut, stop, listener>>
  BY DEF GrowOrRefuse, cfgVars, PoolIInv, PoolTyped
<1>2. CASE \E p \in {"done", "pause"} : Leave(t, p, Nobody)
  BY <1>1, <1>2, Aside, FailureTyped, LeaveKeeps
<1>3. CASE /\ t \in Conns => Cardinality(live_sessions) < max_carrier_sessions
           /\ pc' = [pc EXCEPT ![t] = "dial"] /\ snap' = [snap EXCEPT ![t] = generation]
           /\ UNCHANGED <<lockVars, at, tries>>
  <2>1. at[t] \in Sessions \cup {Nobody} /\ at' = [at EXCEPT ![t] = at[t]]
    BY <1>3 DEF PoolIInv, PoolTyped
  <2>2. connect_lock = t
    BY <1>1 DEF PoolIInv, Locked, Growing
  <2>3. Locked'
    BY <1>1, <1>3, <2>2, Aside, LocksKept, Zenon
  <2>4. Calm /\ sess' \in [Sessions -> SessionStates] /\ pool' \subseteq pool
    BY <1>1, CalmSame DEF PoolIInv, PoolTyped, live_sessions
  <2>5. \A x \in Sessions : sess'[x].st = "open" /\ x \in pool \cup closers => x \in pool' \cup closers'
    BY <1>1 DEF live_sessions, Open
  <2>6. HasRoom(t)'
    <3>1. Cardinality(live_sessions) < max_carrier_sessions
      <4>1. CASE t \in Conns
        BY <1>3, <4>1
      <4>2. CASE t = Maintainer
        BY <1>1, <4>2, FS_EmptySet, PoolAssumption DEF PoolIInv, HasRoom
      <4> QED BY <4>1, <4>2 DEF Tasks
    <3>2. Cardinality(live_sessions') < max_carrier_sessions
      BY <2>4, <3>1, LiveFewer, PoolAssumption
    <3>3. pc'[t] = "dial"
      BY <1>3 DEF PoolIInv, PoolTyped
    <3> QED BY <3>2, <3>3 DEF HasRoom
  <2> QED BY <1>1, <1>3, <2>1, <2>3, <2>4, <2>5, <2>6, Aside, FailureTyped, MoveKeeps, Zenon
<1> QED BY <1>2, <1>3 DEF GrowOrRefuse, Failed

LEMMA DialFailsKeeps ==
    ASSUME PoolIInv, NEW t \in Tasks, DialFails(t)
    PROVE  PoolIInv'
<1>1. /\ pc[t] = "dial" /\ pc' = [pc EXCEPT ![t] = "remember"] /\ closers' \subseteq Sessions
      /\ UNCHANGED <<generation, recent_connect_failure, lockVars, pool, sess, closers, hand, shut,
                     stop, listener, at, snap>>
  BY DEF DialFails, cfgVars, PoolIInv, PoolTyped
<1>2. /\ at[t] \in Sessions \cup {Nobody} /\ snap[t] \in Nat
      /\ at' = [at EXCEPT ![t] = at[t]] /\ snap' = [snap EXCEPT ![t] = snap[t]]
  BY <1>1 DEF PoolIInv, PoolTyped
<1>3. connect_lock = t
  BY <1>1 DEF PoolIInv, Locked, Growing, Dialing
<1>4. Locked'
  BY <1>1, <1>3, Aside, LocksKept, Zenon
<1>5. Calm /\ sess' \in [Sessions -> SessionStates]
  BY <1>1, CalmSame DEF PoolIInv, PoolTyped
<1>6. HasRoom(t)'
  <2>1. pc'[t] = "remember"
    BY <1>1 DEF PoolIInv, PoolTyped
  <2>2. Cardinality(live_sessions) < max_carrier_sessions
    BY <1>1 DEF PoolIInv, HasRoom, Dialing
  <2>3. live_sessions' = live_sessions
    BY <1>1 DEF live_sessions, Open
  <2> QED BY <2>1, <2>2, <2>3 DEF HasRoom
<1> QED BY <1>1, <1>2, <1>4, <1>5, <1>6, Aside, FailureTyped, MoveKeeps, Zenon

LEMMA RememberKeeps ==
    ASSUME PoolIInv, NEW t \in Tasks, remember_connect_failure(t)
    PROVE  PoolIInv'
<1>1. PICK p \in {"done", "pause", "admit"} : Leave(t, p, Nobody)
  BY DEF remember_connect_failure, Failed
<1>2. /\ pc[t] = "remember" /\ closers' \subseteq Sessions
      /\ UNCHANGED <<generation, pool, sess, closers, hand, shut, stop, listener>>
  BY DEF remember_connect_failure, cfgVars, PoolIInv, PoolTyped
<1>3. /\ recent_connect_failure' \in [gen : Nat, left : Int]
      /\ recent_connect_failure'.left > 0 => recent_connect_failure'.gen = generation
  <2>1. CASE UNCHANGED cfgVars
    BY <2>1, FailureTyped DEF cfgVars
  <2>2. CASE /\ generation = snap[t]
             /\ \E delay \in calculate_reconnect_jitter_range(
                     calculate_reconnect_backoff(RetryBase, consecutive_connect_failures)) :
                   recent_connect_failure' = [gen |-> snap[t], left |-> delay]
    <3>1. PICK delay \in Int : recent_connect_failure' = [gen |-> snap[t], left |-> delay]
      BY <2>2 DEF calculate_reconnect_jitter_range
    <3> QED BY <2>2, <3>1, FailureTyped
  <2> QED BY <2>1, <2>2, Zenon DEF remember_connect_failure
<1> QED BY <1>1, <1>2, <1>3, Aside, LeaveKeeps

(* A dial that succeeds opens a session nobody refers to.                    *)
LEMMA DialSucceedsKeeps ==
    ASSUME PoolIInv, NEW t \in Tasks, DialSucceeds(t)
    PROVE  PoolIInv'
<1>1. PICK s \in Sessions : /\ Unreferenced(s) /\ at' = [at EXCEPT ![t] = s]
                            /\ sess' = [sess EXCEPT ![s] = [Free EXCEPT !.st = "open", !.gen = snap[t]]]
  BY Zenon DEF DialSucceeds
<1>2. /\ pc[t] = "dial" /\ pc' = [pc EXCEPT ![t] = "publish"]
      /\ UNCHANGED <<cfgVars, lockVars, pool, closers, hand, shut, stop, listener, snap>>
  BY DEF DialSucceeds
<1>3. /\ s \notin pool \cup hand \cup closers /\ \A u \in Tasks : at[u] # s
      /\ sess' \in [Sessions -> SessionStates]
      /\ sess'[s] = [st |-> "open", gen |-> snap[t], draining |-> FALSE, pooled |-> FALSE]
      /\ \A x \in Sessions \ {s} : sess'[x] = sess[x]
  BY <1>1, ZenonT(60) DEF Unreferenced, PoolIInv, PoolTyped, SessionStates, Free
<1>4. \A u \in Tasks : /\ pc'[u] = IF u = t THEN "publish" ELSE pc[u]
                       /\ at'[u] = IF u = t THEN s ELSE at[u]
  BY <1>1, <1>2 DEF PoolIInv, PoolTyped
<1>5. live_sessions' = live_sessions
  BY <1>2, <1>3 DEF live_sessions, Open, PoolIInv, PoolTyped
<1>6. PoolTyped'
  BY <1>1, <1>2, <1>3 DEF PoolIInv, PoolTyped, Steps, Growing, Dialing, cfgVars
<1>7. Locked'
  <2>1. connect_lock = t
    BY <1>2 DEF PoolIInv, Locked, Growing, Dialing
  <2> QED BY <1>2, <1>4, <2>1 DEF PoolIInv, Locked, lockVars
<1>8. Pooled' /\ PoolBounded'
  BY <1>2, <1>3, <1>5 DEF PoolIInv, PoolTyped, Pooled, PoolBounded, cfgVars
<1>9. ASSUME NEW u \in Tasks PROVE Dialled(u)' /\ HasRoom(u)'
  <2>1. CASE u = t
    <3>1. Cardinality(live_sessions) < max_carrier_sessions
      BY <1>2 DEF PoolIInv, HasRoom, Dialing
    <3> QED BY <1>2, <1>3, <1>4, <1>5, <2>1, <3>1 DEF Dialled, HasRoom
  <2>2. CASE u # t
    <3>1. /\ pc'[u] = pc[u] /\ at'[u] = at[u] /\ snap' = snap /\ generation' = generation /\ at[u] # s
      BY <1>2, <1>3, <1>4, <2>2 DEF cfgVars
    <3>2. Dialled(u) /\ HasRoom(u)
      BY DEF PoolIInv
    <3>3. Dialled(u)'
      BY <1>3, <3>1, <3>2 DEF Dialled
    <3>4. HasRoom(u)'
      BY <1>5, <3>1, <3>2 DEF HasRoom
    <3> QED BY <3>3, <3>4
  <2> QED BY <2>1, <2>2
<1>10. NoSessionStranded'
  <2> SUFFICES ASSUME NEW x \in Sessions, sess'[x].st = "open"
               PROVE  \/ x \in pool' \cup hand' \cup closers'
                      \/ \E u \in Tasks : at'[u] = x /\ pc'[u] \in {"publish", "push"}
                      \/ sess'[x].draining /\ (Relays(x)' # {} \/ listener' \in Stopped)
    BY DEF NoSessionStranded, Open
  <2>1. CASE x = s
    BY <1>4, <2>1
  <2>2. CASE x # s
    <3>1. Relays(x)' = Relays(x)
      BY <1>2, <1>4, <2>2 DEF Relays, Tasks
    <3>2. sess[x].st = "open" /\ sess'[x] = sess[x]
      BY <1>3, <2>2, ZenonT(60)
    <3>3. \/ x \in pool \cup hand \cup closers
          \/ \E u \in Tasks : at[u] = x /\ pc[u] \in {"publish", "push"}
          \/ sess[x].draining /\ (Relays(x) # {} \/ listener \in Stopped)
      BY <3>2, Zenon DEF PoolIInv, NoSessionStranded, Open
    <3>4. \A u \in Tasks : pc[u] \in {"publish", "push"} => u # t
      BY <1>2
    <3> QED BY <1>2, <1>4, <3>1, <3>2, <3>3, <3>4
  <2> QED BY <2>1, <2>2, Zenon
<1> QED BY <1>6, <1>7, <1>8, <1>9, <1>10 DEF PoolIInv

(* Under the publish lock the session of an older generation is dropped, one *)
(* of the present generation stays with its task until it is pushed.         *)
LEMMA BeginPublishKeeps ==
    ASSUME PoolIInv, NEW t \in Tasks, BeginPublish(t)
    PROVE  PoolIInv'
<1>1. /\ pc[t] = "publish" /\ config_publish_lock = Nobody /\ at[t] \in Sessions
      /\ UNCHANGED <<generation, pool, sess, hand, shut, stop, listener>>
  BY DEF BeginPublish, cfgVars, PoolIInv, Dialled
<1>2. CASE /\ closers' = closers \cup {at[t]} /\ UNCHANGED cfgVars
           /\ \E p \in {"done", "pause", "admit"} : Leave(t, p, Nobody)
  <2>1. closers' \subseteq Sessions
    BY <1>1, <1>2 DEF PoolIInv, PoolTyped
  <2> QED BY <1>1, <1>2, <2>1, Aside, FailureTyped, LeaveKeeps DEF cfgVars
<1>3. CASE /\ generation = snap[t] /\ recent_connect_failure' = NoFailure /\ config_publish_lock' = t
           /\ pc' = [pc EXCEPT ![t] = "push"] /\ UNCHANGED <<connect_lock, closers, at, snap>>
  <2>1. \A u \in Tasks : pc'[u] = IF u = t THEN "push" ELSE pc[u]
    BY <1>3 DEF PoolIInv, PoolTyped
  <2>2. Calm /\ live_sessions' = live_sessions
    BY <1>1, CalmSame, Zenon DEF live_sessions, Open
  <2>3. PoolTyped'
    BY <1>1, <1>3 DEF PoolIInv, PoolTyped, Steps, Growing, Dialing, NoFailure
  <2>4. Locked'
    <3>1. connect_lock = t /\ \A u \in Tasks : pc[u] # "push"
      BY <1>1, PoolAssumption DEF PoolIInv, Locked, Growing, Dialing
    <3> QED BY <1>1, <1>3, <2>1, <3>1, PoolAssumption DEF PoolIInv, Locked
  <2>5. Pooled' /\ PoolBounded'
    <3>1. recent_connect_failure'.left = 0
      BY <1>3 DEF NoFailure
    <3>2. Pooled'
      BY <1>1, <2>2, <3>1, PooledKept
    <3> QED BY <2>2, <3>2 DEF PoolIInv, PoolBounded
  <2>6. ASSUME NEW u \in Tasks PROVE Dialled(u)' /\ HasRoom(u)'
    BY <1>1, <1>3, <2>1, <2>2 DEF PoolIInv, Dialled, HasRoom, Dialing
  <2>7. NoSessionStranded'
    <3>1. \A x \in Sessions : Relays(x)' = Relays(x)
      BY <1>1, <1>3, <2>1 DEF Relays, Tasks
    <3> QED BY <1>1, <1>3, <2>1, <3>1, ZenonT(60) DEF PoolIInv, NoSessionStranded, Open
  <2> QED BY <2>3, <2>4, <2>5, <2>6, <2>7 DEF PoolIInv
<1> QED BY <1>2, <1>3, ZenonT(60) DEF BeginPublish, Failed

(* The push is what makes the pool grow, and its task has seen room for it.  *)
LEMMA PushKeeps ==
    ASSUME PoolIInv, NEW t \in Tasks, Push(t)
    PROVE  PoolIInv'
<1> PICK a \in Sessions : a = at[t]
  BY DEF Push, PoolIInv, Dialled
<1>1. /\ pc[t] = "push" /\ config_publish_lock = t /\ connect_lock = t /\ listener \notin InReload
      /\ sess[a].gen = generation /\ ~sess[a].draining
      /\ Cardinality(live_sessions) < max_carrier_sessions
      /\ \A u \in Tasks \ {t} : pc[u] \notin Growing
      /\ UNCHANGED <<generation, recent_connect_failure, hand, shut, stop, listener>>
  BY PoolAssumption DEF Push, cfgVars, PoolIInv, Dialled, Locked, HasRoom, Growing, Dialing
<1>2. CASE /\ closers' = closers \cup {a} /\ UNCHANGED <<pool, sess>>
           /\ \E p \in {"done", "pause"} : Leave(t, p, Nobody)
  <2>1. closers' \subseteq Sessions
    BY <1>2 DEF PoolIInv, PoolTyped
  <2> QED BY <1>1, <1>2, <2>1, Aside, FailureTyped, LeaveKeeps, Zenon
<1>3. ASSUME ~shut, pool' = pool \cup {a}, sess' = [sess EXCEPT ![a].pooled = TRUE], closers' = closers,
             NEW p \in {"watch", "held", "admit"}, NEW s \in {a, Nobody}, Leave(t, p, s), p # "admit" => s = a
      PROVE  PoolIInv'
  <2>1. /\ pc' = [pc EXCEPT ![t] = p] /\ at' = [at EXCEPT ![t] = s] /\ snap' = [snap EXCEPT ![t] = 0]
        /\ Unlock(t) /\ p \notin Growing
    BY <1>3 DEF Leave, Growing, Dialing
  <2>2. \A u \in Tasks : /\ pc'[u] = IF u = t THEN p ELSE pc[u]
                         /\ at'[u] = IF u = t THEN s ELSE at[u]
                         /\ snap'[u] = IF u = t THEN 0 ELSE snap[u]
    BY <2>1 DEF PoolIInv, PoolTyped
  <2>3. /\ sess' \in [Sessions -> SessionStates] /\ sess'[a].pooled
        /\ \A x \in Sessions : /\ sess'[x].gen = sess[x].gen /\ sess'[x].st = sess[x].st
                               /\ sess'[x].draining = sess[x].draining
                               /\ x # a => sess'[x].pooled = sess[x].pooled
    <3>1. sess \in [Sessions -> SessionStates]
      BY DEF PoolIInv, PoolTyped
    <3>2. PICK r : r = [sess[a] EXCEPT !.pooled = TRUE]
      BY Zenon
    <3>3. /\ r \in SessionStates /\ r.pooled /\ r.gen = sess[a].gen /\ r.st = sess[a].st
          /\ r.draining = sess[a].draining
      BY <3>1, <3>2, Zenon DEF SessionStates
    <3>4. sess' = [sess EXCEPT ![a] = r]
      BY <1>3, <3>2
    <3> QED BY <3>1, <3>3, <3>4
  <2>4. IsFiniteSet(pool') /\ pool' \subseteq Sessions
    BY <1>3, FS_AddElement DEF PoolIInv, PoolTyped
  <2>5. PoolTyped'
    <3>1. pc' \in [Tasks -> Steps] /\ at' \in [Tasks -> Sessions \cup {Nobody}] /\ snap' \in [Tasks -> Nat]
      BY <2>1, Aside DEF PoolIInv, PoolTyped
    <3> QED BY <1>1, <1>3, <2>3, <2>4, <3>1 DEF PoolIInv, PoolTyped
  <2>6. Locked'
    BY <1>1, <2>1, Aside, LocksKept, Zenon
  <2>7. Pooled'
    BY <1>1, <1>3, <2>3 DEF PoolIInv, PoolTyped, Pooled, InReload
  <2>8. PoolBounded'
    <3>1. live_sessions' \subseteq live_sessions \cup {a}
      BY <1>3, <2>3 DEF live_sessions, Open, PoolIInv, PoolTyped
    <3>2. IsFiniteSet(live_sessions)
      BY FS_Subset DEF live_sessions, PoolIInv, PoolTyped
    <3>3. /\ IsFiniteSet(live_sessions \cup {a}) /\ Cardinality(live_sessions) \in Nat
          /\ Cardinality(live_sessions \cup {a}) <= Cardinality(live_sessions) + 1
      <4>1. /\ IsFiniteSet(live_sessions \cup {a})
            /\ Cardinality(live_sessions \cup {a})
                 = IF a \in live_sessions THEN Cardinality(live_sessions) ELSE Cardinality(live_sessions) + 1
        BY <3>2, FS_AddElement, Zenon
      <4>2. Cardinality(live_sessions) \in Nat
        BY <3>2, FS_CardinalityType
      <4> QED BY <4>1, <4>2
    <3>4. /\ Cardinality(live_sessions') \in Nat /\ Cardinality(live_sessions \cup {a}) \in Nat
          /\ Cardinality(live_sessions') <= Cardinality(live_sessions \cup {a})
      BY <3>1, <3>3, FS_Subset, FS_CardinalityType
    <3> QED BY <1>1, <3>3, <3>4, PoolAssumption DEF PoolBounded
  <2>9. ASSUME NEW u \in Tasks PROVE Dialled(u)' /\ HasRoom(u)'
    <3>1. pc'[u] \notin Growing
      BY <1>1, <2>1, <2>2
    <3>2. u # t => Dialled(u) /\ HasRoom(u)
      BY DEF PoolIInv
    <3> QED BY <1>3, <2>2, <3>1, <3>2 DEF Dialled, HasRoom, Growing, Dialing
  <2>10. NoSessionStranded'
    <3>1. \A x \in Sessions : Relays(x)' = Relays(x)
      BY <1>1, <2>2 DEF Relays, Tasks
    <3> QED BY <1>1, <1>3, <2>2, <2>3, <3>1 DEF PoolIInv, NoSessionStranded, Open
  <2> QED BY <2>5, <2>6, <2>7, <2>8, <2>9, <2>10 DEF PoolIInv
<1>4. CASE /\ ~shut /\ pool' = pool \cup {a} /\ sess' = [sess EXCEPT ![a].pooled = TRUE]
           /\ closers' = closers
           /\ Leave(t, "watch", a) \/ Leave(t, "held", a) \/ Leave(t, "admit", Nobody)
  BY <1>3, <1>4
<1> QED BY <1>2, <1>4 DEF Push, Failed

LEMMA OpenFlowKeeps ==
    ASSUME PoolIInv, NEW t \in Tasks, OpenFlow(t)
    PROVE  PoolIInv'
<1>1. /\ pc[t] = "held" /\ at[t] \in Sessions /\ snap[t] \in Nat
      /\ UNCHANGED <<generation, recent_connect_failure, lockVars, hand, shut, stop, listener>>
  BY DEF OpenFlow, cfgVars, PoolIInv, PoolTyped, Dialled
<1> PICK a \in Sessions : a = at[t]
  BY <1>1
<1>2. PICK p \in {"relay", "done", "admit"}, s \in {a, Nobody} :
        /\ pc' = [pc EXCEPT ![t] = p] /\ at' = [at EXCEPT ![t] = s] /\ (p = "relay" => s = a)
        /\ snap' = snap
  <2>1. at = [at EXCEPT ![t] = a]
    BY DEF PoolIInv, PoolTyped
  <2> QED BY <2>1 DEF OpenFlow, Retry
<1>3. \/ UNCHANGED <<pool, sess, closers>>
      \/ a \in pool /\ pool' = pool \ {a} /\ closers' = closers \cup {a} /\ UNCHANGED sess
      \/ sess' = Closed(a) /\ UNCHANGED <<pool, closers>>
  BY DEF OpenFlow, invalidate
<1>4. snap' = [snap EXCEPT ![t] = snap[t]]
  BY <1>2 DEF PoolIInv, PoolTyped
<1>5. Calm /\ sess' \in [Sessions -> SessionStates]
  BY <1>3, CalmSame, CalmClosed DEF PoolIInv, PoolTyped
<1>6. /\ pool' \subseteq pool /\ closers' \subseteq Sessions
      /\ \A x \in Sessions : x \in pool \cup closers => x \in pool' \cup closers'
  BY <1>3 DEF PoolIInv, PoolTyped
<1>7. p \in Steps \ {"publish", "push"} /\ p \notin Growing /\ p \notin {"grow"} \cup Dialing
  BY Aside DEF Growing, Dialing
<1>8. Locked'
  BY <1>1, <1>2, <1>7, LocksKept, Zenon
<1> QED BY <1>1, <1>2, <1>4, <1>5, <1>6, <1>7, <1>8, FailureTyped, MoveKeeps, ZenonT(60)

(* The last relay of a draining session closes it.                           *)
LEMMA RelayEndsKeeps ==
    ASSUME PoolIInv, NEW t \in Conns, RelayEnds(t)
    PROVE  PoolIInv'
<1>1. /\ t \in Tasks /\ pc[t] = "relay" /\ at[t] \in Sessions /\ snap[t] \in Nat
      /\ pc' = [pc EXCEPT ![t] = "done"] /\ at' = [at EXCEPT ![t] = Nobody]
      /\ UNCHANGED <<generation, recent_connect_failure, lockVars, pool, closers, hand, shut, stop,
                     listener, snap>>
  BY DEF RelayEnds, cfgVars, PoolIInv, PoolTyped, Dialled, Tasks
<1>2. /\ snap' = [snap EXCEPT ![t] = snap[t]] /\ closers' \subseteq Sessions
  BY <1>1 DEF PoolIInv, PoolTyped
<1>3. /\ Calm /\ sess' \in [Sessions -> SessionStates]
      /\ \/ sess'[at[t]].st = "closed" \/ ~sess[at[t]].draining \/ Relays(at[t]) # {t}
  BY <1>1, CalmSame, CalmClosed DEF RelayEnds, PoolIInv, PoolTyped
<1>4. "done" \notin Growing /\ "done" \notin {"grow"} \cup Dialing
  BY DEF Growing, Dialing
<1>5. Locked'
  BY <1>1, <1>4, Aside, LocksKept, ZenonT(60)
<1> QED BY <1>1, <1>2, <1>3, <1>4, <1>5, Aside, FailureTyped, MoveKeeps, Zenon

LEMMA CancelKeeps ==
    ASSUME PoolIInv, NEW t \in Conns, Cancel(t)
    PROVE  PoolIInv'
<1>1. /\ t \in Tasks /\ pc[t] # "relay" /\ Leave(t, "done", Nobody)
      /\ pc[t] \in {"publish", "push"} => at[t] \in closers'
      /\ UNCHANGED <<generation, recent_connect_failure, pool, sess, hand, shut, stop, listener>>
  BY Zenon DEF Cancel, Tasks, cfgVars, Dialing
<1>2. closers \subseteq closers' /\ closers' \subseteq Sessions
  BY <1>1 DEF Cancel, PoolIInv, PoolTyped, Dialled
<1> QED BY <1>1, <1>2, Aside, FailureTyped, LeaveKeeps, Zenon

LEMMA MaintainerKeeps ==
    ASSUME PoolIInv, MaintainerWakes \/ AbortMaintainer
    PROVE  PoolIInv'
<1>1. PICK p \in {"done", "admit"} : Leave(Maintainer, p, Nobody)
  BY ZenonT(60) DEF MaintainerWakes, AbortMaintainer
<1>2. /\ Maintainer \in Tasks
      /\ UNCHANGED <<generation, recent_connect_failure, pool, sess, hand, shut, stop>>
      /\ listener' = listener \/ (listener = "emptied" /\ listener' = "done" /\ hand = {})
  BY ZenonT(60) DEF MaintainerWakes, AbortMaintainer, Tasks, cfgVars
<1>3. /\ closers \subseteq closers' /\ closers' \subseteq Sessions
      /\ pc[Maintainer] \in {"publish", "push"} => at[Maintainer] \in closers'
  BY <1>2 DEF MaintainerWakes, AbortMaintainer, PoolIInv, PoolTyped, Dialled
<1>4. Maintainer \notin Conns
  BY PoolAssumption
<1> QED BY <1>1, <1>2, <1>3, <1>4, Aside, FailureTyped, LeaveKeeps

-----------------------------------------------------------------------------
(* The steps of the listener, of timers and of carriers: the tasks stand.    *)

LEMMA StandKeeps ==
    ASSUME PoolIInv, UNCHANGED <<pc, at, snap, connect_lock>>, Calm, sess' \in [Sessions -> SessionStates],
           generation' \in 1 .. (MaxReloads + 1),
           listener' \in {"validated", "refreshing"} => generation' <= MaxReloads,
           generation' = generation \/ listener \in InReload,
           pool' \subseteq pool, closers' \subseteq Sessions, hand' \subseteq Sessions,
           \A x \in Sessions : sess'[x].st = "open" /\ x \in pool \cup hand \cup closers
                                  => x \in pool' \cup hand' \cup closers',
           recent_connect_failure' \in [gen : Nat, left : Int], shut' \in BOOLEAN, stop' \in BOOLEAN,
           \/ config_publish_lock' = config_publish_lock /\ (listener \in InReload <=> listener' \in InReload)
           \/ /\ {config_publish_lock, config_publish_lock'} = {Nobody, "reload"}
              /\ config_publish_lock' = "reload" <=> listener' \in InReload,
           listener' \in Stopped \/ listener \notin Stopped,
           Pooled'
    PROVE  PoolIInv'
<1>1. PoolTyped'
  BY LiveFewer DEF PoolIInv, PoolTyped
<1>2. Locked'
  BY PoolAssumption DEF PoolIInv, Locked
<1>3. \A u \in Tasks : pc[u] = "push" => generation' = generation
  BY PoolAssumption DEF PoolIInv, Locked
<1>4. \A u \in Tasks : Dialled(u)' /\ HasRoom(u)'
  BY <1>3, DialledKept, RoomKept
<1>5. PoolBounded'
  BY RoomKept
<1>6. NoSessionStranded'
  <2>1. \A x \in Sessions : Relays(x)' = Relays(x)
    BY DEF Relays
  <2> QED BY <2>1, StrandedKept
<1> QED BY <1>1, <1>2, <1>4, <1>5, <1>6 DEF PoolIInv

(* Facts about a state that every step below starts from.                    *)
LEMMA Standing ==
    ASSUME PoolIInv
    PROVE  /\ generation \in 1 .. (MaxReloads + 1) /\ MaxReloads \in Nat
           /\ pool \subseteq Sessions /\ closers \subseteq Sessions /\ hand \subseteq Sessions
           /\ sess \in [Sessions -> SessionStates]
           /\ recent_connect_failure \in [gen : Nat, left : Int]
           /\ shut \in BOOLEAN /\ stop \in BOOLEAN
           /\ listener \in {"validated", "refreshing"} => generation <= MaxReloads
           /\ listener \in InReload <=> config_publish_lock = "reload"
           /\ Nobody # "reload"
BY PoolAssumption DEF PoolIInv, PoolTyped, Locked

LEMMA EnvironmentKeeps ==
    ASSUME PoolIInv, CooldownPasses \/ \E s \in Sessions : CarrierDies(s) \/ Reap(s) \/ ManagerCloses(s)
    PROVE  PoolIInv'
<1>1. UNCHANGED <<pc, at, snap, connect_lock, config_publish_lock, generation, pool, shut, stop, listener>>
  BY DEF CooldownPasses, CarrierDies, Reap, ManagerCloses, taskVars, lockVars, cfgVars
<1>2. CASE CooldownPasses
  <2>1. /\ Calm /\ UNCHANGED <<sess, closers, hand>>
        /\ recent_connect_failure' = [recent_connect_failure EXCEPT !.left = @ - 1]
        /\ recent_connect_failure.left > 0
    BY <1>2, CalmSame DEF CooldownPasses
  <2>2. /\ recent_connect_failure' \in [gen : Nat, left : Int]
        /\ recent_connect_failure'.gen = generation
    BY <2>1, FailureTyped
  <2>3. Pooled'
    BY <1>1, <2>1, <2>2, PooledKept
  <2> QED BY <1>1, <2>1, <2>2, <2>3, Standing, StandKeeps
<1>3. ASSUME NEW s \in Sessions, CarrierDies(s) \/ Reap(s) \/ ManagerCloses(s)
      PROVE  PoolIInv'
  <2>1. /\ Calm /\ sess' \in [Sessions -> SessionStates] /\ sess'[s].st = "closed"
        /\ recent_connect_failure' = recent_connect_failure
    BY <1>3, CalmClosed DEF CarrierDies, Reap, ManagerCloses, cfgVars
  <2>2. /\ closers \ {s} \subseteq closers' /\ closers' \subseteq closers
        /\ hand \ {s} \subseteq hand' /\ hand' \subseteq hand
    BY <1>3 DEF CarrierDies, Reap, ManagerCloses
  <2>3. Pooled'
    BY <1>1, <2>1, <2>2, Standing DEF PoolIInv, Pooled, Calm
  <2>4. \A x \in Sessions : sess'[x].st = "open" /\ x \in pool \cup hand \cup closers
                               => x \in pool' \cup hand' \cup closers'
    BY <1>1, <2>1, <2>2
  <2> QED BY <1>1, <2>1, <2>2, <2>3, <2>4, Standing, StandKeeps
<1> QED BY <1>2, <1>3

LEMMA ReloadKeeps ==
    ASSUME PoolIInv, ReloadArrives \/ ReloadLocks \/ ReloadFails \/ ReloadApplies \/ ReloadTakesPool
    PROVE  PoolIInv'
<1>1. /\ UNCHANGED <<pc, at, snap, connect_lock, closers, shut, stop>> /\ sess' = sess /\ Calm
      /\ listener \in {"serve", "validated", "refreshing", "applied"}
      /\ listener' \in {"serve", "validated", "refreshing", "applied", "draining"}
  BY CalmSame DEF ReloadArrives, ReloadLocks, ReloadFails, ReloadApplies, ReloadTakesPool, taskVars,
       lockVars, cfgVars
<1>2. listener \notin Stopped /\ hand = {}
  BY <1>1, ZenonT(60) DEF Stopped, PoolIInv, Pooled
<1>3. CASE ReloadArrives \/ ReloadLocks \/ ReloadFails
  <2>1. /\ UNCHANGED <<generation, recent_connect_failure, pool, hand>>
        /\ listener \in {"serve", "validated", "refreshing"} /\ listener' \in {"serve", "validated", "refreshing"}
        /\ listener' # "serve" => generation <= MaxReloads
    BY <1>3, Standing DEF ReloadArrives, ReloadLocks, ReloadFails, cfgVars
  <2>2. \/ config_publish_lock' = config_publish_lock /\ (listener \in InReload <=> listener' \in InReload)
        \/ /\ {config_publish_lock, config_publish_lock'} = {Nobody, "reload"}
           /\ config_publish_lock' = "reload" <=> listener' \in InReload
    BY <1>3, Standing, ZenonT(60) DEF ReloadArrives, ReloadLocks, ReloadFails, lockVars, InReload
  <2>3. Pooled'
    BY <1>1, <1>2, <2>1 DEF PoolIInv, Pooled
  <2> QED BY <1>1, <1>2, <2>1, <2>2, <2>3, Standing, StandKeeps
<1>4. CASE ReloadApplies
  <2>1. /\ listener = "refreshing" /\ listener' = "applied" /\ generation' = generation + 1
        /\ recent_connect_failure' = NoFailure /\ UNCHANGED <<config_publish_lock, pool, hand>>
    BY <1>4 DEF ReloadApplies, lockVars
  <2>2. /\ generation' \in 1 .. (MaxReloads + 1) /\ listener \in InReload /\ listener' \in InReload
        /\ recent_connect_failure' \in [gen : Nat, left : Int]
    BY <2>1, Standing DEF InReload, NoFailure
  <2>3. Pooled'
    BY <1>1, <1>2, <2>1 DEF PoolIInv, Pooled, NoFailure
  <2> QED BY <1>1, <1>2, <2>1, <2>2, <2>3, Standing, StandKeeps
<1>5. CASE ReloadTakesPool
  <2>1. /\ listener = "applied" /\ listener' = "draining" /\ hand' = pool /\ pool' = {}
        /\ UNCHANGED <<config_publish_lock, generation, recent_connect_failure>>
    BY <1>5 DEF ReloadTakesPool, lockVars, cfgVars
  <2>2. listener \in InReload /\ listener' \in InReload
    BY <2>1 DEF InReload
  <2>3. Pooled'
    BY <1>1, <2>1 DEF PoolIInv, Pooled
  <2> QED BY <1>1, <1>2, <2>1, <2>2, <2>3, Standing, StandKeeps
<1> QED BY <1>3, <1>4, <1>5

(* begin_drain: a session with relays goes on draining, one without closes.  *)
LEMMA ReloadDrainsKeeps ==
    ASSUME PoolIInv, ReloadDrains
    PROVE  PoolIInv'
<1>1. /\ listener = "draining" /\ pool = {} /\ listener \in InReload
      /\ UNCHANGED <<generation, recent_connect_failure, connect_lock, pool, closers, shut, stop, pc, at, snap>>
  BY Zenon DEF ReloadDrains, cfgVars, taskVars, PoolIInv, Pooled, InReload
<1>2. CASE /\ hand = {} /\ config_publish_lock' = Nobody /\ listener' = "serve" /\ UNCHANGED <<sess, hand>>
  <2>1. Calm /\ listener' \notin InReload /\ listener \notin Stopped
    BY <1>1, <1>2, CalmSame DEF InReload, Stopped
  <2>2. Pooled'
    BY <1>1, <1>2 DEF PoolIInv, Pooled
  <2> QED BY <1>1, <1>2, <2>1, <2>2, Standing, StandKeeps
<1>3. ASSUME NEW s \in hand, sess' = Drained(s), hand' = hand \ {s},
             UNCHANGED <<config_publish_lock, listener>>
      PROVE  PoolIInv'
  <2>1. s \in Sessions /\ sess[s].pooled
    BY <1>3 DEF PoolIInv, PoolTyped, Pooled
  <2>2. /\ sess' \in [Sessions -> SessionStates]
        /\ sess'[s].draining /\ sess'[s].pooled
        /\ sess'[s].st = "open" => Relays(s) # {}
        /\ \A x \in Sessions \ {s} : sess'[x] = sess[x]
    <3>1. sess \in [Sessions -> SessionStates]
      BY Standing
    <3>2. PICK r : r = [sess[s] EXCEPT !.draining = TRUE, !.st = IF Relays(s) = {} THEN "closed" ELSE @]
      BY Zenon
    <3>3. r \in SessionStates /\ r.draining /\ r.pooled /\ (r.st = "open" => Relays(s) # {})
      BY <2>1, <3>1, <3>2, Zenon DEF SessionStates
    <3>4. sess' = [sess EXCEPT ![s] = r]
      BY <1>3, <3>2, ZenonT(60) DEF Drained
    <3> QED BY <2>1, <3>1, <3>3, <3>4
  <2>3. live_sessions = {} /\ live_sessions' = {}
    BY <1>1 DEF live_sessions
  <2>4. PoolTyped' /\ Locked' /\ PoolBounded'
    BY <1>1, <1>3, <2>2, <2>3 DEF PoolIInv, PoolTyped, Locked, PoolBounded
  <2>5. Pooled'
    BY <1>1, <1>3, <2>2 DEF PoolIInv, PoolTyped, Pooled
  <2>6. ASSUME NEW u \in Tasks PROVE Dialled(u)' /\ HasRoom(u)'
    <3>1. pc[u] \in {"publish", "push"} => at[u] \in Sessions /\ at[u] # s
      BY <2>1, ZenonT(60) DEF PoolIInv, Dialled
    <3> QED BY <1>1, <2>2, <2>3, <3>1, ZenonT(60) DEF PoolIInv, Dialled, HasRoom
  <2>7. NoSessionStranded'
    <3>1. \A x \in Sessions : Relays(x)' = Relays(x)
      BY <1>1 DEF Relays
    <3> QED BY <1>1, <1>3, <2>1, <2>2, <3>1, ZenonT(60) DEF PoolIInv, NoSessionStranded, Open
  <2> QED BY <2>4, <2>5, <2>6, <2>7 DEF PoolIInv
<1> QED BY <1>2, <1>3 DEF ReloadDrains

LEMMA ShutdownKeeps ==
    ASSUME PoolIInv, Shutdown \/ CloseManager \/ ManagerTakesPool
    PROVE  PoolIInv'
<1>1. /\ UNCHANGED <<pc, at, snap, connect_lock, config_publish_lock, generation, recent_connect_failure>>
      /\ sess' = sess /\ closers' = closers
  BY DEF Shutdown, CloseManager, ManagerTakesPool, taskVars, lockVars, cfgVars
<1>2. listener \notin InReload /\ listener' \notin InReload /\ listener' \notin {"validated", "refreshing"}
  BY DEF Shutdown, CloseManager, ManagerTakesPool, InReload
<1>3. shut' \in BOOLEAN /\ stop' \in BOOLEAN
  BY Standing, ZenonT(60) DEF Shutdown, CloseManager, ManagerTakesPool
<1>4. Calm
  BY <1>1, CalmSame DEF Shutdown, CloseManager, ManagerTakesPool
<1>5. hand = {} /\ (listener' \in Stopped \/ listener \notin Stopped)
  BY DEF Shutdown, CloseManager, ManagerTakesPool, Stopped, PoolIInv, Pooled
<1>6. \/ pool' = pool /\ hand' = hand
      \/ pool' = {} /\ hand' = pool
  BY DEF Shutdown, CloseManager, ManagerTakesPool
<1>7. Pooled'
  BY <1>1, <1>5 DEF Shutdown, CloseManager, ManagerTakesPool, PoolIInv, Pooled
<1> QED BY <1>1, <1>2, <1>3, <1>4, <1>5, <1>6, <1>7, Standing, StandKeeps

(* The connections end all at once, and with them their locks.               *)
LEMMA JoinKeeps ==
    ASSUME PoolIInv, JoinConnections
    PROVE  PoolIInv'
<1>1. /\ listener = "joining" /\ listener' = "joined"
      /\ pc' = [t \in Tasks |-> IF t \in Conns THEN "done" ELSE pc[t]]
      /\ at' = [t \in Tasks |-> IF t \in Conns THEN Nobody ELSE at[t]]
      /\ closers' = closers \cup {at[t] : t \in {c \in Conns : pc[c] \in {"publish", "push"}}}
      /\ connect_lock' = IF connect_lock \in Conns THEN Nobody ELSE connect_lock
      /\ config_publish_lock' = IF config_publish_lock \in Conns THEN Nobody ELSE config_publish_lock
      /\ UNCHANGED <<generation, recent_connect_failure, pool, sess, hand, shut, stop, snap>>
  BY ZenonT(60) DEF JoinConnections, cfgVars
<1>2. Calm /\ pool' \subseteq pool
  BY <1>1, CalmSame, Zenon
<1>3. \A c \in Conns : c \in Tasks
  BY DEF Tasks
<1>4. PoolTyped'
  <2>1. closers' \subseteq Sessions
    BY <1>1, <1>3 DEF PoolIInv, PoolTyped, Dialled
  <2>2. pc' \in [Tasks -> Steps] /\ at' \in [Tasks -> Sessions \cup {Nobody}]
    BY <1>1, Aside DEF PoolIInv, PoolTyped
  <2> QED BY <1>1, <2>1, <2>2 DEF PoolIInv, PoolTyped
<1>5. Locked'
  <2>1. "done" \notin Growing /\ "joining" \notin InReload /\ "joined" \notin InReload
    BY DEF Growing, Dialing, InReload
  <2>2. \A u \in Tasks : /\ pc'[u] \in Growing => connect_lock' = u
                         /\ pc'[u] = "push" <=> config_publish_lock' = u
    BY <1>1, <2>1, PoolAssumption, ZenonT(60) DEF PoolIInv, Locked
  <2> QED BY <1>1, <1>3, <2>1, <2>2, PoolAssumption DEF PoolIInv, Locked
<1>6. Pooled'
  BY <1>1 DEF PoolIInv, Pooled
<1>7. PoolBounded' /\ \A u \in Tasks : HasRoom(u)'
  <2>1. \A u \in Tasks : pc'[u] = pc[u] \/ pc'[u] \notin {"grow"} \cup Dialing
    BY <1>1 DEF Dialing
  <2> QED BY <1>2, <2>1, RoomKept
<1>8. ASSUME NEW u \in Tasks PROVE Dialled(u)'
  <2>1. CASE u \in Conns
    BY <1>1, <2>1 DEF Dialled
  <2>2. CASE u \notin Conns
    BY <1>1, <1>2, <2>2, DialledKept, ZenonT(60)
  <2> QED BY <2>1, <2>2
<1>9. NoSessionStranded'
  <2>1. \A u \in Tasks : pc[u] \in {"publish", "push"} =>
          at[u] \in closers' \cup pool' \/ (at'[u] = at[u] /\ pc'[u] \in {"publish", "push"})
    BY <1>1
  <2>2. listener' \in Stopped
    BY <1>1 DEF Stopped
  <2> QED BY <1>1, <1>2, <2>1, <2>2, StrandedKept, ZenonT(60)
<1> QED BY <1>4, <1>5, <1>6, <1>7, <1>8, <1>9 DEF PoolIInv

-----------------------------------------------------------------------------
LEMMA PoolNextIInv == PoolIInv /\ [PoolNext]_poolVars => PoolIInv'
<1> SUFFICES ASSUME PoolIInv, [PoolNext]_poolVars PROVE PoolIInv'
  OBVIOUS
<1>1. CASE \E t \in Conns : Accept(t) \/ RelayEnds(t) \/ Cancel(t)
  BY <1>1, AcceptKeeps, RelayEndsKeeps, CancelKeeps
<1>2. CASE \E t \in Tasks : TaskStep(t)
  BY <1>2, AdmitKeeps, RefusedKeeps, AcquireKeeps, GrowKeeps, DialSucceedsKeeps, DialFailsKeeps,
     RememberKeeps, BeginPublishKeeps, PushKeeps, OpenFlowKeeps DEF TaskStep
<1>3. CASE MaintainerWakes \/ CooldownPasses \/ \E s \in Sessions : CarrierDies(s) \/ Reap(s)
  BY <1>3, MaintainerKeeps, EnvironmentKeeps
<1>4. CASE ReloadArrives \/ Shutdown \/ ListenerStep
  BY <1>4, ReloadKeeps, ShutdownKeeps, ReloadDrainsKeeps, JoinKeeps, EnvironmentKeeps, MaintainerKeeps
     DEF ListenerStep
<1>5. CASE UNCHANGED poolVars
  <2>1. PoolTyped' /\ Locked' /\ Pooled'
    BY <1>5, ZenonT(60) DEF poolVars, PoolIInv, PoolTyped, Locked, Pooled
  <2>2. PoolBounded' /\ NoSessionStranded'
    BY <1>5, ZenonT(60) DEF poolVars, PoolIInv, PoolBounded, NoSessionStranded, live_sessions, Open, Relays
  <2>3. \A u \in Tasks : Dialled(u)' /\ HasRoom(u)'
    BY <1>5, Zenon DEF poolVars, PoolIInv, Dialled, HasRoom, live_sessions, Open
  <2> QED BY <2>1, <2>2, <2>3 DEF PoolIInv
<1> QED BY <1>1, <1>2, <1>3, <1>4, <1>5 DEF PoolNext

(* The pool never outgrows max_carrier_sessions, nothing is pooled once the  *)
(* manager has emptied the pool, and no open session is without somebody who *)
(* will use or close it (connect_and_pool, shutdown, PendingClientSession).  *)
THEOREM PoolIsSound == PoolSpec => []PoolSound
<1>1. PoolIInv => PoolSound
  BY DEF PoolIInv, PoolTyped, Locked, Pooled, PoolSound, PoolTypeOK, NothingPooledAfterShutdown,
         SessionStates
<1> QED BY <1>1, PoolInitIInv, PoolNextIInv, PTL DEF PoolSpec

(* A reload leaves nothing of the old configuration behind: outside its      *)
(* critical section every pooled session and every remembered failure is of  *)
(* the current generation (reload, connect_and_pool,                         *)
(* remember_connect_failure).                                                *)
THEOREM PoolIsCurrent == PoolSpec => []OldConfigurationGone
<1>1. PoolIInv => OldConfigurationGone
  BY Zenon DEF PoolIInv, Locked, InReload, Pooled, OldConfigurationGone, PooledAreCurrent, FailureIsCurrent
<1> QED BY <1>1, PoolInitIInv, PoolNextIInv, PTL DEF PoolSpec
=============================================================================

---------------------------- MODULE LimitProofs ----------------------------
(* Proofs about the limits.  BufferBudget, for any number of sessions, flows *)
(* and payloads and any limits: the invariant is inductive as it stands, as  *)
(* the counters being exact is what makes a credit give back no more than    *)
(* was charged, and the limit test of a charge is what keeps them in bounds. *)
(* RateLimiter, for any addresses, window, ban and capacity.                 *)
EXTENDS BufferBudget, RateLimiter, FiniteSetTheorems, TLAPS

(* The bytes of a set of payloads are finitely many.                       *)
LEMMA BytesFinite ==
    ASSUME NEW S \in SUBSET Chunk
    PROVE  IsFiniteSet(BytesOf(S)) /\ Cardinality(BytesOf(S)) \in Nat
<1>1. BytesOf(S) \in SUBSET Byte
  BY ChunkAssumption DEF BytesOf
<1>2. IsFiniteSet(BytesOf(S))
  BY <1>1, FS_Subset, ChunkAssumption
<1> QED BY <1>2, FS_CardinalityType

(* A payload has finitely many bytes.                                      *)
LEMMA SizeFinite ==
    ASSUME NEW c \in Chunk
    PROVE  IsFiniteSet(Bytes[c]) /\ Size(c) \in Nat
<1>1. Bytes[c] \in SUBSET Byte
  BY ChunkAssumption
<1>2. IsFiniteSet(Bytes[c])
  BY <1>1, FS_Subset, ChunkAssumption
<1> QED BY <1>2, FS_CardinalityType DEF Size

(* More payloads have no fewer bytes.                                      *)
LEMMA BytesMonotone ==
    ASSUME NEW T \in SUBSET Chunk, NEW S \in SUBSET T
    PROVE  Cardinality(BytesOf(S)) <= Cardinality(BytesOf(T))
<1>1. BytesOf(S) \in SUBSET BytesOf(T)
  BY DEF BytesOf
<1> QED BY <1>1, BytesFinite, FS_Subset

(* One more payload adds its size: payloads share no bytes.                *)
LEMMA BytesAdd ==
    ASSUME NEW S \in SUBSET Chunk, NEW c \in Chunk, c \notin S
    PROVE  Cardinality(BytesOf(S \cup {c})) = Cardinality(BytesOf(S)) + Size(c)
<1>1. BytesOf(S \cup {c}) = BytesOf(S) \cup Bytes[c]
  BY DEF BytesOf
<1>2. BytesOf(S) \cap Bytes[c] = {}
  BY ChunkAssumption DEF BytesOf
<1>3. Cardinality({}) = 0
  BY FS_EmptySet
<1>4. /\ IsFiniteSet(BytesOf(S)) /\ Cardinality(BytesOf(S)) \in Nat
      /\ IsFiniteSet(Bytes[c]) /\ Size(c) \in Nat
  BY BytesFinite, SizeFinite
<1>5. Cardinality(BytesOf(S) \cup Bytes[c])
        = Cardinality(BytesOf(S)) + Cardinality(Bytes[c]) - Cardinality({})
  BY <1>2, <1>4, FS_Union
<1>6. Cardinality(BytesOf(S \cup {c})) = Cardinality(BytesOf(S)) + Size(c) - 0
  BY <1>1, <1>3, <1>5, Zenon DEF Size
<1> QED BY <1>4, <1>6

(* One payload less takes its size away, which was there to take.          *)
LEMMA BytesRemove ==
    ASSUME NEW S \in SUBSET Chunk, NEW c \in S
    PROVE  /\ Size(c) <= Cardinality(BytesOf(S))
           /\ Cardinality(BytesOf(S \ {c})) = Cardinality(BytesOf(S)) - Size(c)
<1> DEFINE R == S \ {c}
<1>1. R \in SUBSET Chunk /\ c \in Chunk /\ c \notin R /\ S = R \cup {c}
  OBVIOUS
<1>2. Cardinality(BytesOf(R \cup {c})) = Cardinality(BytesOf(R)) + Size(c)
  BY <1>1, BytesAdd
<1>3. Cardinality(BytesOf(R)) \in Nat /\ Size(c) \in Nat
  BY <1>1, BytesFinite, SizeFinite
<1>4. Cardinality(BytesOf(S)) = Cardinality(BytesOf(R)) + Size(c)
  BY <1>1, <1>2
<1> QED BY <1>3, <1>4

-----------------------------------------------------------------------------
(* The invariant, one part per kind of counter.                            *)

FlowPart ==
    /\ flowBytes \in [Flow -> Nat]
    /\ \A f \in Flow : /\ flowBytes[f] <= FlowLimit
                       /\ flowBytes[f] = Cardinality(BytesOf(OnFlow(f)))
SessionPart ==
    /\ sessionBytes \in [Session -> Nat]
    /\ \A s \in Session : /\ sessionBytes[s] <= SessionLimit
                          /\ sessionBytes[s] = Cardinality(BytesOf(OnSession(s)))
GlobalPart ==
    /\ globalBytes \in Nat /\ globalBytes <= GlobalLimit
    /\ globalBytes = Cardinality(BytesOf(OnGlobal))

IInv == FlowPart /\ SessionPart /\ GlobalPart /\ pc \in [Chunk -> PC]

(* The parts together are the properties the runs check.                   *)
LEMMA IInvMeaning == IInv <=> TypeOK /\ WithinLimits /\ Exact
BY DEF IInv, FlowPart, SessionPart, GlobalPart, TypeOK, WithinLimits, Exact

(* How the sets behind the counters change when one payload moves.         *)
LEMMA Moved ==
    ASSUME pc \in [Chunk -> PC], NEW c \in Chunk, NEW from, NEW to \in PC, At(c, from, to)
    PROVE  /\ pc' \in [Chunk -> PC]
           /\ \A f : OnFlow(f)' = IF FlowOf[c] = f
                                  THEN IF to \in ChargesFlow THEN OnFlow(f) \cup {c}
                                       ELSE OnFlow(f) \ {c}
                                  ELSE OnFlow(f)
           /\ \A s : OnSession(s)' = IF SessionOfChunk(c) = s
                                     THEN IF to \in ChargesSession THEN OnSession(s) \cup {c}
                                          ELSE OnSession(s) \ {c}
                                     ELSE OnSession(s)
           /\ OnGlobal' = IF to \in ChargesGlobal THEN OnGlobal \cup {c} ELSE OnGlobal \ {c}
           /\ \A f : OnFlow(f) \in SUBSET Chunk
           /\ \A s : OnSession(s) \in SUBSET Chunk
           /\ OnGlobal \in SUBSET Chunk
           /\ \A f : c \in OnFlow(f) <=> FlowOf[c] = f /\ from \in ChargesFlow
           /\ \A s : c \in OnSession(s) <=> SessionOfChunk(c) = s /\ from \in ChargesSession
           /\ c \in OnGlobal <=> from \in ChargesGlobal
BY DEF At, OnFlow, OnSession, OnGlobal, SessionOfChunk

(* A move between two points that both charge a counter, or both do not,   *)
(* leaves the set behind that counter alone.                               *)
LEMMA NotMoved ==
    ASSUME pc \in [Chunk -> PC], NEW c \in Chunk, NEW from, NEW to \in PC, At(c, from, to)
    PROVE  /\ (from \in ChargesFlow <=> to \in ChargesFlow) => \A f : OnFlow(f)' = OnFlow(f)
           /\ (from \in ChargesSession <=> to \in ChargesSession) =>
                 \A s : OnSession(s)' = OnSession(s)
           /\ (from \in ChargesGlobal <=> to \in ChargesGlobal) => OnGlobal' = OnGlobal
BY DEF At, OnFlow, OnSession, OnGlobal, SessionOfChunk

(* A charge that fits the flow limit keeps the flow's part (reserve_bytes).*)
LEMMA FlowCharged ==
    ASSUME IInv, NEW c \in Chunk, NEW from, NEW to \in PC, At(c, from, to),
           from \notin ChargesFlow, to \in ChargesFlow,
           Fits(flowBytes[FlowOf[c]], Size(c), FlowLimit), ChargeFlow(c)
    PROVE  FlowPart'
<1>1. FlowOf[c] \in Flow /\ Size(c) \in Nat
  BY ChunkAssumption, SizeFinite
<1>2. flowBytes' \in [Flow -> Nat]
  BY <1>1 DEF IInv, FlowPart, ChargeFlow
<1>3. ASSUME NEW f \in Flow
      PROVE  /\ flowBytes'[f] <= FlowLimit
             /\ flowBytes'[f] = Cardinality(BytesOf(OnFlow(f)'))
  <2>1. CASE f = FlowOf[c]
    <3>1. OnFlow(f)' = OnFlow(f) \cup {c} /\ c \notin OnFlow(f) /\ OnFlow(f) \in SUBSET Chunk
      BY <2>1, Moved DEF IInv
    <3>2. Cardinality(BytesOf(OnFlow(f) \cup {c})) = Cardinality(BytesOf(OnFlow(f))) + Size(c)
      BY <3>1, BytesAdd
    <3> QED BY <1>1, <2>1, <3>1, <3>2 DEF IInv, FlowPart, ChargeFlow, Fits
  <2>2. CASE f # FlowOf[c]
    <3>1. OnFlow(f)' = OnFlow(f)
      BY <2>2, Moved DEF IInv
    <3> QED BY <1>1, <2>2, <3>1 DEF IInv, FlowPart, ChargeFlow
  <2> QED BY <2>1, <2>2
<1> QED BY <1>2, <1>3 DEF FlowPart, BytesOf

(* A credit takes back what the payload charged its flow (release_bytes).  *)
LEMMA FlowCredited ==
    ASSUME IInv, NEW c \in Chunk, NEW from, NEW to \in PC, At(c, from, to),
           from \in ChargesFlow, to \notin ChargesFlow, CreditFlow(c)
    PROVE  FlowPart'
<1>1. FlowOf[c] \in Flow /\ Size(c) \in Nat /\ FlowLimit \in Nat
  BY ChunkAssumption, SizeFinite, LimitAssumption
<1>2. flowBytes' \in [Flow -> Nat]
  BY <1>1 DEF IInv, FlowPart, CreditFlow, Less
<1>3. ASSUME NEW f \in Flow
      PROVE  /\ flowBytes'[f] <= FlowLimit
             /\ flowBytes'[f] = Cardinality(BytesOf(OnFlow(f)'))
  <2>1. CASE f = FlowOf[c]
    <3>1. OnFlow(f)' = OnFlow(f) \ {c} /\ c \in OnFlow(f) /\ OnFlow(f) \in SUBSET Chunk
      BY <2>1, Moved DEF IInv
    <3>2. /\ Size(c) <= Cardinality(BytesOf(OnFlow(f)))
          /\ Cardinality(BytesOf(OnFlow(f) \ {c})) = Cardinality(BytesOf(OnFlow(f))) - Size(c)
      BY <3>1, BytesRemove
    <3> QED BY <1>1, <2>1, <3>1, <3>2 DEF IInv, FlowPart, CreditFlow, Less
  <2>2. CASE f # FlowOf[c]
    <3>1. OnFlow(f)' = OnFlow(f)
      BY <2>2, Moved DEF IInv
    <3> QED BY <1>1, <2>2, <3>1 DEF IInv, FlowPart, CreditFlow
  <2> QED BY <2>1, <2>2
<1> QED BY <1>2, <1>3 DEF FlowPart, BytesOf

(* A move that does not touch the flow's counter keeps its part.           *)
LEMMA FlowKept ==
    ASSUME IInv, NEW c \in Chunk, NEW from, NEW to \in PC, At(c, from, to),
           from \in ChargesFlow <=> to \in ChargesFlow, UNCHANGED flowBytes
    PROVE  FlowPart'
<1>1. \A f \in Flow : OnFlow(f)' = OnFlow(f)
  BY NotMoved DEF IInv
<1> QED BY <1>1 DEF IInv, FlowPart, BytesOf

(* A charge that fits the session limit keeps the session's part.          *)
LEMMA SessionCharged ==
    ASSUME IInv, NEW c \in Chunk, NEW from, NEW to \in PC, At(c, from, to),
           from \notin ChargesSession, to \in ChargesSession,
           Fits(sessionBytes[SessionOfChunk(c)], Size(c), SessionLimit), ChargeSession(c)
    PROVE  SessionPart'
<1>1. SessionOfChunk(c) \in Session /\ Size(c) \in Nat
  BY ChunkAssumption, SizeFinite DEF SessionOfChunk
<1>2. sessionBytes' \in [Session -> Nat]
  BY <1>1 DEF IInv, SessionPart, ChargeSession
<1>3. ASSUME NEW s \in Session
      PROVE  /\ sessionBytes'[s] <= SessionLimit
             /\ sessionBytes'[s] = Cardinality(BytesOf(OnSession(s)'))
  <2>1. CASE s = SessionOfChunk(c)
    <3>1. /\ OnSession(s)' = OnSession(s) \cup {c}
          /\ c \notin OnSession(s) /\ OnSession(s) \in SUBSET Chunk
      BY <2>1, Moved DEF IInv
    <3>2. Cardinality(BytesOf(OnSession(s) \cup {c})) = Cardinality(BytesOf(OnSession(s))) + Size(c)
      BY <3>1, BytesAdd
    <3> QED BY <1>1, <2>1, <3>1, <3>2 DEF IInv, SessionPart, ChargeSession, Fits
  <2>2. CASE s # SessionOfChunk(c)
    <3>1. OnSession(s)' = OnSession(s)
      BY <2>2, Moved DEF IInv
    <3> QED BY <1>1, <2>2, <3>1 DEF IInv, SessionPart, ChargeSession
  <2> QED BY <2>1, <2>2
<1> QED BY <1>2, <1>3 DEF SessionPart, BytesOf

(* A credit takes back what the payload charged its session.               *)
LEMMA SessionCredited ==
    ASSUME IInv, NEW c \in Chunk, NEW from, NEW to \in PC, At(c, from, to),
           from \in ChargesSession, to \notin ChargesSession, CreditSession(c)
    PROVE  SessionPart'
<1>1. SessionOfChunk(c) \in Session /\ Size(c) \in Nat /\ SessionLimit \in Nat
  BY ChunkAssumption, SizeFinite, LimitAssumption DEF SessionOfChunk
<1>2. sessionBytes' \in [Session -> Nat]
  BY <1>1 DEF IInv, SessionPart, CreditSession, Less
<1>3. ASSUME NEW s \in Session
      PROVE  /\ sessionBytes'[s] <= SessionLimit
             /\ sessionBytes'[s] = Cardinality(BytesOf(OnSession(s)'))
  <2>1. CASE s = SessionOfChunk(c)
    <3>1. /\ OnSession(s)' = OnSession(s) \ {c}
          /\ c \in OnSession(s) /\ OnSession(s) \in SUBSET Chunk
      BY <2>1, Moved DEF IInv
    <3>2. /\ Size(c) <= Cardinality(BytesOf(OnSession(s)))
          /\ Cardinality(BytesOf(OnSession(s) \ {c}))
                = Cardinality(BytesOf(OnSession(s))) - Size(c)
      BY <3>1, BytesRemove
    <3> QED BY <1>1, <2>1, <3>1, <3>2 DEF IInv, SessionPart, CreditSession, Less
  <2>2. CASE s # SessionOfChunk(c)
    <3>1. OnSession(s)' = OnSession(s)
      BY <2>2, Moved DEF IInv
    <3> QED BY <1>1, <2>2, <3>1 DEF IInv, SessionPart, CreditSession
  <2> QED BY <2>1, <2>2
<1> QED BY <1>2, <1>3 DEF SessionPart, BytesOf

(* A move that does not touch the session's counter keeps its part.        *)
LEMMA SessionKept ==
    ASSUME IInv, NEW c \in Chunk, NEW from, NEW to \in PC, At(c, from, to),
           from \in ChargesSession <=> to \in ChargesSession, UNCHANGED sessionBytes
    PROVE  SessionPart'
<1>1. \A s \in Session : OnSession(s)' = OnSession(s)
  BY NotMoved DEF IInv
<1> QED BY <1>1 DEF IInv, SessionPart, BytesOf

(* A charge that fits the server-wide limit keeps the server's part.       *)
LEMMA GlobalCharged ==
    ASSUME IInv, NEW c \in Chunk, NEW from, NEW to \in PC, At(c, from, to),
           from \notin ChargesGlobal, to \in ChargesGlobal,
           Fits(globalBytes, Size(c), GlobalLimit), globalBytes' = globalBytes + Size(c)
    PROVE  GlobalPart'
<1>1. Size(c) \in Nat
  BY SizeFinite
<1>2. OnGlobal' = OnGlobal \cup {c} /\ c \notin OnGlobal /\ OnGlobal \in SUBSET Chunk
  BY Moved DEF IInv
<1>3. Cardinality(BytesOf(OnGlobal \cup {c})) = Cardinality(BytesOf(OnGlobal)) + Size(c)
  BY <1>2, BytesAdd
<1>4. globalBytes' = Cardinality(BytesOf(OnGlobal'))
  BY <1>2, <1>3 DEF IInv, GlobalPart
<1>5. globalBytes' \in Nat /\ globalBytes' <= GlobalLimit
  BY <1>1 DEF IInv, GlobalPart, Fits
<1> QED BY <1>4, <1>5 DEF GlobalPart, BytesOf

(* A credit takes back what the payload charged the server.                *)
LEMMA GlobalCredited ==
    ASSUME IInv, NEW c \in Chunk, NEW from, NEW to \in PC, At(c, from, to),
           from \in ChargesGlobal, to \notin ChargesGlobal,
           globalBytes' = Less(globalBytes, Size(c))
    PROVE  GlobalPart'
<1>1. Size(c) \in Nat /\ GlobalLimit \in Nat
  BY SizeFinite, LimitAssumption
<1>2. OnGlobal' = OnGlobal \ {c} /\ c \in OnGlobal /\ OnGlobal \in SUBSET Chunk
  BY Moved DEF IInv
<1>3. /\ Size(c) <= Cardinality(BytesOf(OnGlobal))
      /\ Cardinality(BytesOf(OnGlobal \ {c})) = Cardinality(BytesOf(OnGlobal)) - Size(c)
  BY <1>2, BytesRemove
<1>4. globalBytes' = Cardinality(BytesOf(OnGlobal'))
  BY <1>1, <1>2, <1>3 DEF IInv, GlobalPart, Less
<1>5. globalBytes' \in Nat /\ globalBytes' <= GlobalLimit
  BY <1>1 DEF IInv, GlobalPart, Less
<1> QED BY <1>4, <1>5 DEF GlobalPart, BytesOf

(* A move that does not touch the server's counter keeps its part.         *)
LEMMA GlobalKept ==
    ASSUME IInv, NEW c \in Chunk, NEW from, NEW to \in PC, At(c, from, to),
           from \in ChargesGlobal <=> to \in ChargesGlobal, UNCHANGED globalBytes
    PROVE  GlobalPart'
<1>1. OnGlobal' = OnGlobal
  BY NotMoved DEF IInv
<1> QED BY <1>1 DEF IInv, GlobalPart, BytesOf

-----------------------------------------------------------------------------
(* The invariant holds initially: nothing is charged. *)
LEMMA InitIInv == Init => IInv
<1> SUFFICES ASSUME Init PROVE IInv
  OBVIOUS
<1>1. /\ \A f : OnFlow(f) = {}
      /\ \A s : OnSession(s) = {}
      /\ OnGlobal = {}
  BY DEF Init, OnFlow, OnSession, OnGlobal, ChargesFlow, ChargesSession, ChargesGlobal,
         Reserving, Dropping
<1>2. BytesOf({}) = {}
  BY DEF BytesOf
<1>3. Cardinality(BytesOf({})) = 0
  BY <1>2, FS_EmptySet
<1> QED
  BY <1>1, <1>3, LimitAssumption
  DEF Init, IInv, FlowPart, SessionPart, GlobalPart, PC

(* Every counter update preserves the invariant: each action moves one     *)
(* payload and changes exactly the counters whose charge sets it enters or *)
(* leaves.                                                                 *)
LEMMA NextIInv == IInv /\ [Next]_vars => IInv'
<1> SUFFICES ASSUME IInv, [Next]_vars PROVE IInv'
  OBVIOUS
<1> USE DEF PC, ChargesFlow, ChargesSession, ChargesGlobal, Reserving, Dropping
<1>1. CASE UNCHANGED vars
  BY <1>1, SMTT(30) DEF vars, IInv, FlowPart, SessionPart, GlobalPart, BytesOf, OnFlow, OnSession, OnGlobal
<1>2. ASSUME NEW c \in Chunk, ReserveFlow(c) PROVE IInv'
  BY <1>2, FlowCharged, SessionKept, GlobalKept, Moved, SMTT(30) DEF IInv, ReserveFlow
<1>3. ASSUME NEW c \in Chunk, ReserveSession(c) PROVE IInv'
  BY <1>3, FlowKept, SessionCharged, GlobalKept, Moved DEF IInv, ReserveSession
<1>4. ASSUME NEW c \in Chunk, ReserveGlobal(c) PROVE IInv'
  BY <1>4, FlowKept, SessionKept, GlobalCharged, Moved DEF IInv, ReserveGlobal
<1>5. ASSUME NEW c \in Chunk, RefuseSession(c) PROVE IInv'
  BY <1>5, FlowKept, SessionKept, GlobalKept, Moved DEF IInv, RefuseSession
<1>6. ASSUME NEW c \in Chunk, RefuseGlobal(c) PROVE IInv'
  BY <1>6, FlowKept, SessionKept, GlobalKept, Moved DEF IInv, RefuseGlobal
<1>7. ASSUME NEW c \in Chunk, UndoSession(c) PROVE IInv'
  BY <1>7, FlowKept, SessionCredited, GlobalKept, Moved DEF IInv, UndoSession
<1>8. ASSUME NEW c \in Chunk, UndoFlow(c) PROVE IInv'
  BY <1>8, FlowCredited, SessionKept, GlobalKept, Moved DEF IInv, UndoFlow
<1>9. ASSUME NEW c \in Chunk, DropFlow(c) PROVE IInv'
  BY <1>9, FlowCredited, SessionKept, GlobalKept, Moved, SMTT(30) DEF IInv, DropFlow
<1>10. ASSUME NEW c \in Chunk, DropSession(c) PROVE IInv'
  BY <1>10, FlowKept, SessionCredited, GlobalKept, Moved, SMTT(30) DEF IInv, DropSession
<1>11. ASSUME NEW c \in Chunk, DropGlobal(c) PROVE IInv'
  BY <1>11, FlowKept, SessionKept, GlobalCredited, Moved DEF IInv, DropGlobal
<1> QED
  BY <1>1, <1>2, <1>3, <1>4, <1>5, <1>6, <1>7, <1>8, <1>9, <1>10, <1>11 DEF Next

(* The inductive invariant holds in every reachable state. *)
THEOREM BudgetInvariant == Spec => []IInv
BY InitIInv, NextIInv, PTL DEF Spec

(* The counters stay naturals whatever the interleaving. *)
THEOREM BudgetTyped == Spec => []TypeOK
<1>1. IInv => TypeOK
  BY IInvMeaning
<1> QED BY <1>1, BudgetInvariant, PTL

(* No counter ever passes its limit: the compare-exchange of reserve_bytes *)
(* is enough, no lock around the three counters is needed.                 *)
THEOREM BudgetBounded == Spec => []WithinLimits
<1>1. IInv => WithinLimits
  BY IInvMeaning
<1> QED BY <1>1, BudgetInvariant, PTL

(* The counters are exact: every reserve is undone or dropped once.        *)
THEOREM BudgetExact == Spec => []Exact
<1>1. IInv => Exact
  BY IInvMeaning
<1> QED BY <1>1, BudgetInvariant, PTL

-----------------------------------------------------------------------------
(* The refinement.  What is held of a flow or a session, with the payload  *)
(* being admitted, is among what its counter has been charged for; what is *)
(* held in all is among what the server-wide counter has been charged for. *)
LEMMA HeldCharged ==
    ASSUME IInv, NEW c \in Chunk, pc[c] = "session"
    PROVE  /\ {d \in Held : FlowOf[d] = FlowOf[c]} \cup {c} \subseteq OnFlow(FlowOf[c])
           /\ {d \in Held : SessionOf[FlowOf[d]] = SessionOf[FlowOf[c]]} \cup {c}
                 \subseteq OnSession(SessionOfChunk(c))
           /\ Held \subseteq OnGlobal
           /\ c \notin Held /\ c \notin OnGlobal
BY DEF IInv, Held, OnFlow, OnSession, OnGlobal, SessionOfChunk,
       ChargesFlow, ChargesSession, ChargesGlobal, Reserving, Dropping

(* ReserveGlobal, the commit point, is an atomic admission: the first two  *)
(* counters were charged earlier, but they still count the payload, and    *)
(* they bound everything held.                                             *)
LEMMA CommitAdmits ==
    ASSUME IInv, NEW c \in Chunk, ReserveGlobal(c)
    PROVE  Atomic!Admit(c)
<1> DEFINE F == {d \in Held : FlowOf[d] = FlowOf[c]} \cup {c}
           S == {d \in Held : SessionOf[FlowOf[d]] = SessionOf[FlowOf[c]]} \cup {c}
<1>1. pc[c] = "session" /\ FlowOf[c] \in Flow /\ SessionOfChunk(c) \in Session
  BY ChunkAssumption DEF ReserveGlobal, At, SessionOfChunk
<1>2. /\ F \subseteq OnFlow(FlowOf[c]) /\ S \subseteq OnSession(SessionOfChunk(c))
      /\ Held \subseteq OnGlobal /\ c \notin Held /\ c \notin OnGlobal
  BY <1>1, HeldCharged
<1>3. /\ OnFlow(FlowOf[c]) \in SUBSET Chunk /\ OnSession(SessionOfChunk(c)) \in SUBSET Chunk
      /\ OnGlobal \in SUBSET Chunk
  BY DEF OnFlow, OnSession, OnGlobal
<1> HIDE DEF F, S
<1>4. Cardinality(BytesOf(F)) <= FlowLimit
  <2>1. /\ Cardinality(BytesOf(F)) <= Cardinality(BytesOf(OnFlow(FlowOf[c])))
        /\ Cardinality(BytesOf(F)) \in Nat
    BY <1>2, <1>3, BytesMonotone, BytesFinite
  <2>2. /\ flowBytes[FlowOf[c]] <= FlowLimit /\ flowBytes[FlowOf[c]] \in Nat
        /\ flowBytes[FlowOf[c]] = Cardinality(BytesOf(OnFlow(FlowOf[c])))
    BY <1>1 DEF IInv, FlowPart
  <2> QED BY <2>1, <2>2, LimitAssumption
<1>5. Cardinality(BytesOf(S)) <= SessionLimit
  <2>1. /\ Cardinality(BytesOf(S)) <= Cardinality(BytesOf(OnSession(SessionOfChunk(c))))
        /\ Cardinality(BytesOf(S)) \in Nat
    BY <1>2, <1>3, BytesMonotone, BytesFinite
  <2>2. /\ sessionBytes[SessionOfChunk(c)] <= SessionLimit
        /\ sessionBytes[SessionOfChunk(c)] \in Nat
        /\ sessionBytes[SessionOfChunk(c)] = Cardinality(BytesOf(OnSession(SessionOfChunk(c))))
    BY <1>1 DEF IInv, SessionPart
  <2> QED BY <2>1, <2>2, LimitAssumption
<1>6. Cardinality(BytesOf(Held \cup {c})) <= GlobalLimit
  <2>1. Held \cup {c} \subseteq OnGlobal \cup {c} /\ OnGlobal \cup {c} \in SUBSET Chunk
    BY <1>2, <1>3
  <2>2. /\ Cardinality(BytesOf(Held \cup {c})) <= Cardinality(BytesOf(OnGlobal \cup {c}))
        /\ Cardinality(BytesOf(Held \cup {c})) \in Nat
    BY <2>1, BytesMonotone, BytesFinite
  <2>3. Cardinality(BytesOf(OnGlobal \cup {c})) = Cardinality(BytesOf(OnGlobal)) + Size(c)
    BY <1>2, <1>3, BytesAdd
  <2>4. /\ globalBytes = Cardinality(BytesOf(OnGlobal)) /\ globalBytes \in Nat
        /\ globalBytes + Size(c) <= GlobalLimit
    BY DEF IInv, GlobalPart, ReserveGlobal, Fits
  <2> QED BY <2>2, <2>3, <2>4, SizeFinite, LimitAssumption
<1>7. Held' = Held \cup {c}
  BY <1>1 DEF IInv, Held, ReserveGlobal, At
<1> QED
  BY <1>2, <1>4, <1>5, <1>6, <1>7
  DEF F, S, BytesHeld, Atomic!Admit, Atomic!SameFlow, Atomic!SameSession

(* Every step of the protocol is an admission, a release or a stutter of   *)
(* the atomic budget.                                                      *)
LEMMA StepRefines == IInv /\ [Next]_vars => [Atomic!Next]_Held
<1> SUFFICES ASSUME IInv, [Next]_vars PROVE [Atomic!Next]_Held
  OBVIOUS
<1>1. CASE UNCHANGED vars
  BY <1>1 DEF vars, Held
<1>2. ASSUME NEW c \in Chunk, ReserveGlobal(c) PROVE Atomic!Next
  BY <1>2, CommitAdmits DEF Atomic!Next
<1>3. ASSUME NEW c \in Chunk, DropFlow(c) PROVE Atomic!Next
  <2>1. c \in Held /\ Held' = Held \ {c}
    BY <1>3 DEF IInv, DropFlow, At, Held
  <2> QED BY <2>1 DEF Atomic!Next, Atomic!Release
<1>4. ASSUME NEW c \in Chunk, NEW from \in PC \ {"held"}, NEW to \in PC \ {"held"},
             At(c, from, to)
      PROVE  Held' = Held
  BY <1>4, SMTT(30) DEF IInv, At, Held
<1>5. ASSUME NEW c \in Chunk,
             \/ ReserveFlow(c) \/ ReserveSession(c) \/ RefuseSession(c) \/ RefuseGlobal(c)
             \/ UndoSession(c) \/ UndoFlow(c) \/ DropSession(c) \/ DropGlobal(c)
      PROVE  Held' = Held
  BY <1>4, <1>5 DEF ReserveFlow, ReserveSession, RefuseSession, RefuseGlobal, UndoSession,
                    UndoFlow, DropSession, DropGlobal, PC, Reserving, Dropping
<1> QED BY <1>1, <1>2, <1>3, <1>5 DEF Next

(* The step-wise charges of TargetFlowControl::reserve_bytes and the       *)
(* step-wise credits of dropping a BufferedTargetData implement the atomic *)
(* budget.                                                                 *)
THEOREM BudgetRefines == Spec => ImplementsAtomic
<1>1. Init => Atomic!Init
  BY DEF Init, Atomic!Init, Held
<1> QED
  BY <1>1, StepRefines, BudgetInvariant, PTL DEF Spec, ImplementsAtomic, Atomic!Spec
-----------------------------------------------------------------------------
(* The rate limiter.  Every failure a record without a ban has counted lies  *)
(* in its window: the ages in the history are at most the window's.          *)
WindowCounted(rec, ages) ==
    rec.left = None =>
        \A i \in 1 .. MaxFailures : i <= rec.failures => ages[i] <= rec.age

RateIInv ==
    /\ RateTypeOK /\ IsFiniteSet(DOMAIN entries)
    /\ entries = [k \in DOMAIN entries |-> entries[k]]
    /\ \A k \in DOMAIN entries : WindowCounted(entries[k], recent[k])

LEMMA MinOfTwo ==
    ASSUME NEW m \in Int, NEW n \in Int
    PROVE  /\ Min({m, n}) \in {m, n} /\ Min({m, n}) <= m /\ Min({m, n}) <= n
<1>1. \E x \in {m, n} : \A y \in {m, n} : x =< y
  <2>1. CASE m <= n
    BY <2>1
  <2>2. CASE n <= m
    BY <2>2
  <2> QED BY <2>1, <2>2
<1> QED BY <1>1 DEF Min

(* One more failure: the record stays well formed, a new ban is earned, and  *)
(* a ban in force is not shortened.                                          *)
LEMMA FailureCounted ==
    ASSUME MaxFailures # 0, NEW rec \in Record, NEW ages \in [1 .. MaxFailures -> 0 .. Window],
           WindowCounted(rec, ages), NEW after,
           after = [i \in 1 .. MaxFailures |-> IF i = 1 THEN 0 ELSE ages[i - 1]]
    PROVE  /\ limit(counted(rec)) \in Record
           /\ WindowCounted(limit(counted(rec)), after)
           /\ after \in [1 .. MaxFailures -> 0 .. Window]
           /\ ~Banned(rec) /\ Banned(limit(counted(rec))) => after[MaxFailures] < Window
           /\ Banned(rec) => Banned(limit(counted(rec))) /\ limit(counted(rec)).left >= rec.left
<1> DEFINE base == IF rec.left = 0 \/ (rec.left = None /\ rec.age >= Window) THEN Fresh ELSE rec
           f == Min({base.failures + 1, U32_MAX})
           c == [failures |-> f, age |-> base.age, left |-> base.left]
<1>0. /\ Window \in Nat \ {0} /\ Ban \in Nat /\ U32_MAX \in Nat /\ None = -1
      /\ MaxFailures \in Nat /\ 1 <= MaxFailures /\ MaxFailures <= U32_MAX
  BY LimiterAssumption DEF None
<1>1. Fresh \in Record /\ Fresh.failures = 0 /\ Fresh.age = 0 /\ Fresh.left = None
  BY <1>0 DEF Fresh, Record
<1>2. base \in Record
  BY <1>1
<1>3. f \in 0 .. U32_MAX /\ 1 <= f /\ f <= base.failures + 1
  <2>1. base.failures \in 0 .. U32_MAX /\ base.failures + 1 \in Int /\ U32_MAX \in Int
    BY <1>0, <1>2, SMTT(30) DEF Record
  <2>2. f \in {base.failures + 1, U32_MAX} /\ f <= base.failures + 1 /\ f <= U32_MAX
    BY <2>1, MinOfTwo, Zenon
  <2> HIDE DEF f
  <2> QED BY <1>0, <2>1, <2>2
<1>4. counted(rec) = c
  <2>1. [base EXCEPT !.failures = f] = c
    BY <1>2 DEF Record
  <2> QED BY <2>1 DEF counted
<1>5. after \in [1 .. MaxFailures -> 0 .. Window]
  <2>1. \A i \in 1 .. MaxFailures : i # 1 => i - 1 \in 1 .. MaxFailures
    BY <1>0
  <2> QED BY <1>0, <2>1
<1>6. base.left = None => base.age < Window
  BY <1>0, <1>1 DEF Record
<1>7. WindowCounted(base, ages)
  BY <1>0, <1>1 DEF WindowCounted
<1> HIDE DEF f, base
<1>8. ASSUME base.left = None, NEW i \in 1 .. MaxFailures, i <= f
      PROVE  after[i] <= base.age
  <2>1. CASE i = 1
    BY <1>0, <1>2, <2>1 DEF Record
  <2>2. CASE i # 1
    <3>1. i - 1 \in 1 .. MaxFailures /\ i - 1 <= base.failures /\ after[i] = ages[i - 1]
      <4>1. base.failures \in Int
        BY <1>0, <1>2 DEF Record
      <4> QED BY <1>0, <1>3, <1>8, <2>2, <4>1
    <3> QED BY <1>7, <1>8, <3>1 DEF WindowCounted
  <2> QED BY <2>1, <2>2
<1>9. CASE f >= MaxFailures
  <2>1. limit(counted(rec)) = [failures |-> f, age |-> base.age, left |-> Ban]
    BY <1>4, <1>9 DEF limit
  <2>2. limit(counted(rec)) \in Record /\ limit(counted(rec)).left = Ban
    BY <1>0, <1>2, <1>3, <2>1 DEF Record
  <2>3. WindowCounted(limit(counted(rec)), after)
    BY <1>0, <2>2 DEF WindowCounted
  <2>4. ~Banned(rec) => after[MaxFailures] < Window
    <3> SUFFICES ASSUME ~Banned(rec) PROVE after[MaxFailures] < Window
      OBVIOUS
    <3>1. base.left = None
      BY <1>0, <1>1 DEF base, Banned, Record
    <3>2. after[MaxFailures] <= base.age
      BY <1>0, <1>8, <1>9, <3>1
    <3>3. after[MaxFailures] \in 0 .. Window
      BY <1>0, <1>5
    <3> QED BY <1>0, <1>2, <1>6, <3>1, <3>2, <3>3 DEF Record
  <2>5. Banned(rec) => Banned(limit(counted(rec))) /\ limit(counted(rec)).left >= rec.left
    BY <1>0, <2>2 DEF Banned, Record
  <2> QED BY <1>5, <2>2, <2>3, <2>4, <2>5
<1>10. CASE ~(f >= MaxFailures)
  <2>1. limit(counted(rec)) = c
    BY <1>4, <1>10 DEF limit
  <2>2. c \in Record
    BY <1>2, <1>3 DEF Record
  <2>3. WindowCounted(c, after)
    BY <1>8 DEF WindowCounted
  <2>4. Banned(rec) => c.left = rec.left
    BY <1>0 DEF Banned, base, Record
  <2>5. ~Banned(rec) => ~Banned(c)
    BY <1>0, <1>1 DEF Banned, base, Record
  <2>6. rec.left \in Int
    BY <1>0 DEF Record
  <2> QED BY <1>5, <2>1, <2>2, <2>3, <2>4, <2>5, <2>6 DEF Banned
<1> QED BY <1>9, <1>10

(* What the prune and the eviction leave is part of the map with every ban.  *)
LEMMA EvictedIsPart ==
    ASSUME RateIInv, NEW k, NEW E \in evicted(pruned, k)
    PROVE  /\ E = [q \in DOMAIN E |-> E[q]]
           /\ DOMAIN E \subseteq DOMAIN entries
           /\ \A q \in DOMAIN E : E[q] = entries[q]
           /\ \A q \in DOMAIN entries : Banned(entries[q]) => q \in DOMAIN E
           /\ IsFiniteSet(DOMAIN E) /\ Cardinality(DOMAIN E) <= MAX_ENTRIES
<1>0. \A q \in DOMAIN entries : entries[q].left = None => ~Banned(entries[q])
  BY DEF Banned, None
<1>1. PICK P : P = pruned
  OBVIOUS
<1>2. /\ P = [q \in DOMAIN P |-> P[q]] /\ DOMAIN P \subseteq DOMAIN entries
      /\ \A q \in DOMAIN P : P[q] = entries[q]
      /\ \A q \in DOMAIN entries : Banned(entries[q]) => q \in DOMAIN P
  <2>1. CASE PruneDue
    <3>1. P = [q \in {x \in DOMAIN entries : Live(entries[x])} |-> entries[q]]
      BY <1>1, <2>1 DEF pruned, Restrict
    <3>2. \A q \in DOMAIN entries : Banned(entries[q]) => Live(entries[q])
      BY <1>0 DEF Live
    <3> QED BY <3>1, <3>2
  <2>2. CASE ~PruneDue
    BY <1>1, <2>2 DEF pruned, RateIInv
  <2> QED BY <2>1, <2>2
<1>3. /\ E = [q \in DOMAIN E |-> E[q]] /\ DOMAIN E \subseteq DOMAIN P
      /\ \A q \in DOMAIN E : E[q] = P[q]
      /\ \A q \in DOMAIN P : P[q].left # None => q \in DOMAIN E
  <2>1. CASE Full(P, k)
    <3>1. PICK V \in SUBSET Victims(P) : E = [q \in DOMAIN P \ V |-> P[q]]
      <4>1. PICK n : evicted(P, k) = {Restrict(P, DOMAIN P \ V) : V \in kSubset(n, Victims(P))}
        BY <2>1, Zenon DEF evicted
      <4>2. PICK V \in kSubset(n, Victims(P)) : E = Restrict(P, DOMAIN P \ V)
        BY <1>1, <4>1
      <4> QED BY <4>2 DEF Restrict, kSubset
    <3>2. \A q \in V : P[q].left = None
      BY <3>1 DEF Victims
    <3> QED BY <3>1, <3>2
  <2>2. CASE ~Full(P, k)
    <3>1. E = P
      BY <1>1, <2>2 DEF evicted
    <3> QED BY <1>2, <3>1
  <2> QED BY <2>1, <2>2
<1>4. \A q \in DOMAIN entries : Banned(entries[q]) => q \in DOMAIN E
  BY <1>0, <1>2, <1>3
<1>5. IsFiniteSet(DOMAIN E) /\ Cardinality(DOMAIN E) <= Cardinality(DOMAIN entries)
  BY <1>2, <1>3, FS_Subset DEF RateIInv
<1>6. Cardinality(DOMAIN E) \in Nat /\ Cardinality(DOMAIN entries) \in Nat /\ MAX_ENTRIES \in Nat
  BY <1>5, FS_CardinalityType, LimiterAssumption DEF RateIInv
<1>7. Cardinality(DOMAIN E) <= MAX_ENTRIES
  BY <1>5, <1>6 DEF RateIInv, RateTypeOK
<1> QED BY <1>2, <1>3, <1>4, <1>5, <1>7

(* What a step may do to a ban.                                              *)
BansKept ==
    \A k \in AllKeys :
      /\ ~BannedKey(k) /\ BannedKey(k)' => recent'[k][MaxFailures] < Window
      /\ BannedKey(k) =>
           \/ BannedKey(k)' /\ entries'[k].left >= entries[k].left
           \/ Tick
           \/ \E a \in Addrs : from_ip(a) = k /\ record_success(a)

LEMMA FailureKeeps ==
    ASSUME RateIInv, NEW a \in Addrs, record_failure(a)
    PROVE  RateIInv' /\ BansKept
<1> DEFINE k == from_ip(a)
<1>0. k \in AllKeys /\ flight' \in [Addrs -> 0 .. MaxFlight]
  BY LimiterAssumption, SMTT(30) DEF AllKeys, RateIInv, RateTypeOK, record_failure
<1>1. CASE ~Enabled(a)
  <2>1. UNCHANGED <<entries, lastPrune, recent>>
    BY <1>1 DEF record_failure
  <2>2. RateIInv'
    BY <1>0, <2>1 DEF RateIInv, RateTypeOK
  <2>3. \A q \in DOMAIN entries : entries[q].left \in Int
    BY LimiterAssumption DEF RateIInv, RateTypeOK, Record, None
  <2> QED BY <2>1, <2>2, <2>3 DEF BansKept, BannedKey
<1>2. CASE Enabled(a)
  <2> DEFINE after == [i \in 1 .. MaxFailures |-> IF i = 1 THEN 0 ELSE recent[k][i - 1]]
  <2>1. MaxFailures # 0 /\ recent[k] \in [1 .. MaxFailures -> 0 .. Window]
    BY <1>0, <1>2 DEF Enabled, RateIInv, RateTypeOK
  <2>2. recent' = [recent EXCEPT ![k] = after] /\ lastPrune' = IF PruneDue THEN 0 ELSE lastPrune
    BY <1>2 DEF record_failure
  <2>3. lastPrune' \in 0 .. PRUNE_INTERVAL
    BY <2>2, LimiterAssumption DEF RateIInv, RateTypeOK
  <2>4. PICK E \in evicted(pruned, k) :
          IF Full(E, k) THEN entries' = E
          ELSE entries' = [q \in DOMAIN E \union {k} |->
                  IF q # k THEN E[q]
                  ELSE limit(counted(IF k \in DOMAIN E THEN E[k] ELSE Fresh))]
    BY <1>2, Zenon DEF record_failure
  <2>5. /\ E = [q \in DOMAIN E |-> E[q]]
        /\ DOMAIN E \subseteq DOMAIN entries
        /\ \A q \in DOMAIN E : E[q] = entries[q]
        /\ \A q \in DOMAIN entries : Banned(entries[q]) => q \in DOMAIN E
        /\ IsFiniteSet(DOMAIN E) /\ Cardinality(DOMAIN E) <= MAX_ENTRIES
    BY EvictedIsPart
  <2>6. PICK rec : rec = IF k \in DOMAIN E THEN E[k] ELSE Fresh
    OBVIOUS
  <2>7. rec \in Record /\ WindowCounted(rec, recent[k])
    <3>1. Fresh \in Record /\ WindowCounted(Fresh, recent[k])
      BY LimiterAssumption DEF Fresh, Record, WindowCounted, None
    <3> QED BY <2>5, <2>6, <3>1 DEF RateIInv, RateTypeOK
  <2>8. PICK new : new = limit(counted(rec))
    BY SMTT(30)
  <2>9. /\ new \in Record /\ WindowCounted(new, after)
        /\ after \in [1 .. MaxFailures -> 0 .. Window]
        /\ ~Banned(rec) /\ Banned(new) => after[MaxFailures] < Window
        /\ Banned(rec) => Banned(new) /\ new.left >= rec.left
    BY <2>1, <2>7, <2>8, FailureCounted, Zenon
  <2> HIDE DEF after, k
  <2>10. recent' \in [AllKeys -> [1 .. MaxFailures -> 0 .. Window]] /\ recent'[k] = after
         /\ \A q \in AllKeys \ {k} : recent'[q] = recent[q]
    BY <1>0, <2>2, <2>9 DEF RateIInv, RateTypeOK
  <2>11. \A q \in DOMAIN entries : entries[q].left \in Int /\ q \in AllKeys
    BY LimiterAssumption DEF RateIInv, RateTypeOK, Record, None
  <2>12. k \in DOMAIN E => rec = entries[k]
    BY <2>5, <2>6
  <2>13. k \notin DOMAIN E => ~BannedKey(k)
    BY <2>5 DEF BannedKey
  <2>14. CASE Full(E, k)
    <3>1. entries' = E /\ k \notin DOMAIN E
      BY <2>4, <2>14 DEF Full
    <3>2. RateIInv'
      BY <1>0, <2>3, <2>5, <2>10, <2>11, <3>1, Zenon DEF RateIInv, RateTypeOK
    <3>3. BansKept
      BY <2>5, <2>11, <3>1 DEF BansKept, BannedKey
    <3> QED BY <3>2, <3>3
  <2>15. CASE ~Full(E, k)
    <3>1. entries' = [q \in DOMAIN E \union {k} |-> IF q # k THEN E[q] ELSE new]
      BY <2>4, <2>6, <2>8, <2>15
    <3>2. /\ DOMAIN entries' = DOMAIN E \union {k} /\ entries'[k] = new
          /\ \A q \in DOMAIN E \ {k} : entries'[q] = entries[q]
          /\ entries' = [q \in DOMAIN entries' |-> entries'[q]]
      BY <2>5, <3>1
    <3>3. IsFiniteSet(DOMAIN entries') /\ Cardinality(DOMAIN entries') <= MAX_ENTRIES
      <4>1. CASE k \in DOMAIN E
        <5>1. DOMAIN entries' = DOMAIN E
          BY <3>2, <4>1
        <5> QED BY <2>5, <5>1
      <4>2. CASE k \notin DOMAIN E
        <5>1. IsFiniteSet(DOMAIN E \union {k})
              /\ Cardinality(DOMAIN E \union {k}) = Cardinality(DOMAIN E) + 1
          BY <2>5, <4>2, FS_AddElement
        <5>2. Cardinality(DOMAIN E) \in Nat /\ MAX_ENTRIES \in Nat
          BY <2>5, FS_CardinalityType, LimiterAssumption
        <5>3. Cardinality(DOMAIN E) < MAX_ENTRIES
          BY <2>15, <4>2, <5>2 DEF Full
        <5> QED BY <3>2, <5>1, <5>2, <5>3
      <4> QED BY <4>1, <4>2
    <3>4. \A q \in DOMAIN entries' : entries'[q] \in Record /\ WindowCounted(entries'[q], recent'[q])
      <4>1. \A q \in DOMAIN E \ {k} : entries'[q] \in Record /\ WindowCounted(entries'[q], recent'[q])
        BY <2>5, <2>10, <2>11, <3>2, SMTT(30) DEF RateIInv, RateTypeOK
      <4> QED BY <2>9, <2>10, <3>2, <4>1
    <3>5. RateIInv'
      BY <1>0, <2>3, <2>5, <2>10, <2>11, <3>2, <3>3, <3>4, SMTT(30) DEF RateIInv, RateTypeOK
    <3>6. ASSUME NEW q \in AllKeys, ~BannedKey(q), BannedKey(q)'
          PROVE  recent'[q][MaxFailures] < Window
      <4>1. q = k
        BY <2>5, <3>2, <3>6 DEF BannedKey
      <4>2. ~Banned(rec)
        <5>1. ~Banned(Fresh)
          BY DEF Banned, Fresh, None
        <5> QED BY <2>5, <2>6, <2>12, <3>6, <4>1, <5>1 DEF BannedKey
      <4> QED BY <2>9, <2>10, <3>2, <3>6, <4>1, <4>2 DEF BannedKey
    <3>7. ASSUME NEW q \in AllKeys, BannedKey(q)
          PROVE  BannedKey(q)' /\ entries'[q].left >= entries[q].left
      <4>1. q \in DOMAIN E /\ q \in DOMAIN entries
        BY <2>5, <3>7 DEF BannedKey
      <4>2. CASE q = k
        BY <2>9, <2>12, <3>2, <3>7, <4>1, <4>2 DEF BannedKey
      <4>3. CASE q # k
        BY <2>11, <3>2, <3>7, <4>1, <4>3 DEF BannedKey
      <4> QED BY <4>2, <4>3
    <3> QED BY <3>5, <3>6, <3>7 DEF BansKept
  <2> QED BY <2>14, <2>15
<1> QED BY <1>1, <1>2

LEMMA TickKeeps ==
    ASSUME RateIInv, Tick
    PROVE  RateIInv' /\ BansKept
<1>0. Window \in Nat /\ Ban \in Nat /\ PRUNE_INTERVAL \in Nat /\ None = -1
  BY LimiterAssumption DEF None
<1>1. ASSUME NEW k \in DOMAIN entries
      PROVE  /\ entries'[k] \in Record
             /\ entries'[k].failures = entries[k].failures
             /\ entries'[k].age = Min({entries[k].age + 1, Window})
             /\ entries'[k].left = IF entries[k].left > 0 THEN entries[k].left - 1 ELSE entries[k].left
  <2>1. PICK r \in Record : r = entries[k]
    BY <1>1, SMTT(30) DEF RateIInv, RateTypeOK
  <2>2. entries'[k] = [r EXCEPT !.age = Min({r.age + 1, Window}),
                                !.left = IF r.left > 0 THEN r.left - 1 ELSE r.left]
    BY <1>1, <2>1, Zenon DEF Tick
  <2>3. Min({r.age + 1, Window}) \in 0 .. Window
    <3>1. r.age \in 0 .. Window /\ r.age + 1 \in Int /\ Window \in Int
      BY <1>0 DEF Record
    <3>2. Min({r.age + 1, Window}) \in {r.age + 1, Window} /\ Min({r.age + 1, Window}) <= Window
      BY <3>1, MinOfTwo, Zenon
    <3> QED BY <1>0, <3>1, <3>2
  <2>4. PICK g \in 0 .. Window, l \in None .. Ban :
          g = Min({r.age + 1, Window}) /\ l = IF r.left > 0 THEN r.left - 1 ELSE r.left
    BY <1>0, <2>3 DEF Record
  <2>5. entries'[k] = [r EXCEPT !.age = g, !.left = l]
    BY <2>2, <2>4
  <2>6. /\ entries'[k].failures = r.failures /\ entries'[k].age = g /\ entries'[k].left = l
        /\ entries'[k] \in Record
    BY <2>5, Zenon DEF Record
  <2> QED BY <2>1, <2>4, <2>6
<1>2. ASSUME NEW k \in AllKeys, NEW i \in 1 .. MaxFailures
      PROVE  recent'[k][i] = Min({recent[k][i] + 1, Window}) /\ recent'[k][i] \in 0 .. Window
             /\ recent[k][i] \in 0 .. Window
  <2>1. recent[k][i] \in 0 .. Window
    BY Zenon DEF RateIInv, RateTypeOK
  <2>2. recent'[k][i] = Min({recent[k][i] + 1, Window})
    BY Zenon DEF Tick
  <2>3. recent[k][i] + 1 \in Int /\ Window \in Int
    BY <1>0, <2>1
  <2>4. /\ Min({recent[k][i] + 1, Window}) \in {recent[k][i] + 1, Window}
        /\ Min({recent[k][i] + 1, Window}) <= Window
    BY <2>3, MinOfTwo, Zenon
  <2> QED BY <1>0, <2>1, <2>2, <2>4
<1>3. recent' \in [AllKeys -> [1 .. MaxFailures -> 0 .. Window]]
  <2>1. recent' = [k \in AllKeys |-> [i \in 1 .. MaxFailures |-> Min({recent[k][i] + 1, Window})]]
    BY Zenon DEF Tick
  <2> QED BY <1>2, <2>1
<1>4. lastPrune' \in 0 .. PRUNE_INTERVAL
  <2>1. lastPrune \in 0 .. PRUNE_INTERVAL /\ lastPrune + 1 \in Int /\ PRUNE_INTERVAL \in Int
    BY <1>0 DEF RateIInv, RateTypeOK
  <2>2. PICK m : m = Min({lastPrune + 1, PRUNE_INTERVAL})
    OBVIOUS
  <2>3. m \in {lastPrune + 1, PRUNE_INTERVAL} /\ m <= PRUNE_INTERVAL
    BY <2>1, <2>2, MinOfTwo, SMTT(30)
  <2>4. lastPrune' = m
    BY <2>2, ZenonT(60) DEF Tick
  <2> QED BY <1>0, <2>1, <2>3, <2>4
<1>5. DOMAIN entries' = DOMAIN entries /\ entries' = [k \in DOMAIN entries' |-> entries'[k]]
      /\ flight' = flight
  BY Zenon DEF Tick
<1>6. ASSUME NEW k \in DOMAIN entries PROVE WindowCounted(entries'[k], recent'[k])
  <2> SUFFICES ASSUME entries'[k].left = None, NEW i \in 1 .. MaxFailures, i <= entries'[k].failures
               PROVE  recent'[k][i] <= entries'[k].age
    BY DEF WindowCounted
  <2>1. entries[k] \in Record /\ k \in AllKeys
    BY DEF RateIInv, RateTypeOK
  <2>2. entries[k].left = None /\ i <= entries[k].failures
    <3>1. entries[k].left \in Int
      BY <1>0, <2>1 DEF Record
    <3>2. PICK l \in Int : l = entries[k].left
      BY <3>1
    <3>3. entries'[k].left = (IF l > 0 THEN l - 1 ELSE l) /\ entries'[k].failures = entries[k].failures
      BY <1>1, <3>2, Zenon
    <3> QED BY <1>0, <3>2, <3>3
  <2>3. recent[k][i] <= entries[k].age
    BY <2>2 DEF RateIInv, WindowCounted
  <2>4. entries[k].age \in 0 .. Window
    BY <2>1 DEF Record
  <2>5. PICK g \in 0 .. Window : g = entries[k].age
    BY <2>4
  <2>6. PICK h \in 0 .. Window : h = recent[k][i]
    BY <1>2, <2>1, Zenon
  <2>7. Min({h + 1, Window}) <= Min({g + 1, Window})
    <3>1. g + 1 \in Int /\ h + 1 \in Int /\ Window \in Int
      BY <1>0
    <3>2. PICK u : u = Min({g + 1, Window})
      OBVIOUS
    <3>3. PICK v : v = Min({h + 1, Window})
      OBVIOUS
    <3>4. u \in {g + 1, Window}
      BY <3>1, <3>2, MinOfTwo, Zenon
    <3>5. v <= h + 1 /\ v <= Window
      BY <3>1, <3>3, MinOfTwo, Zenon
    <3>6. v \in {h + 1, Window}
      BY <3>1, <3>3, MinOfTwo, Zenon
    <3>7. v <= u
      BY <1>0, <2>3, <2>5, <2>6, <3>4, <3>5, <3>6
    <3> QED BY <3>2, <3>3, <3>7
  <2>8. recent'[k][i] = Min({h + 1, Window})
    BY <1>2, <2>1, <2>6
  <2>9. entries'[k].age = Min({g + 1, Window})
    BY <1>1, <2>5, Zenon
  <2> QED BY <2>7, <2>8, <2>9
<1>7. RateIInv'
  BY <1>1, <1>3, <1>4, <1>5, <1>6, Zenon DEF RateIInv, RateTypeOK
<1>8. BansKept
  <2>1. ASSUME NEW k \in AllKeys, ~BannedKey(k) PROVE ~BannedKey(k)'
    <3>1. CASE k \notin DOMAIN entries
      BY <1>5, <3>1 DEF BannedKey
    <3>2. CASE k \in DOMAIN entries
      <4>1. entries[k].left \in Int /\ ~(entries[k].left > 0)
        BY <1>0, <2>1, <3>2 DEF BannedKey, Banned, RateIInv, RateTypeOK, Record
      <4>2. entries'[k].left = entries[k].left
        BY <1>1, <3>2, <4>1, Zenon
      <4> QED BY <4>1, <4>2 DEF BannedKey, Banned
    <3> QED BY <3>1, <3>2
  <2> QED BY <2>1 DEF BansKept
<1> QED BY <1>7, <1>8

LEMMA RateNextKeeps ==
    ASSUME RateIInv, [RateNext]_rateVars
    PROVE  RateIInv' /\ (BansKept \/ UNCHANGED rateVars)
<1>0. \A q \in DOMAIN entries : entries[q].left \in Int /\ q \in AllKeys
  BY LimiterAssumption DEF RateIInv, RateTypeOK, Record, None
<1>1. CASE UNCHANGED rateVars
  BY <1>1 DEF rateVars, RateIInv, RateTypeOK
<1>2. ASSUME NEW a \in Addrs, Accept(a) PROVE RateIInv' /\ BansKept
  <2>1. flight' \in [Addrs -> 0 .. MaxFlight] /\ UNCHANGED <<lastPrune, recent>>
    BY <1>2, LimiterAssumption DEF Accept, RateIInv, RateTypeOK
  <2>2. CASE entries' = entries
    BY <1>0, <2>1, <2>2 DEF RateIInv, RateTypeOK, BansKept, BannedKey
  <2>3. CASE entries' # entries
    <3>1. /\ from_ip(a) \in DOMAIN entries /\ entries[from_ip(a)].left = 0
          /\ entries' = [entries EXCEPT ![from_ip(a)] = Fresh]
      BY <1>2, <2>3 DEF Accept, checkReset
    <3>2. PICK k \in DOMAIN entries : k = from_ip(a)
      BY <3>1
    <3>3. /\ DOMAIN entries' = DOMAIN entries /\ entries'[k] = Fresh
          /\ \A q \in DOMAIN entries \ {k} : entries'[q] = entries[q]
          /\ entries' = [q \in DOMAIN entries' |-> entries'[q]]
      BY <3>1, <3>2, Zenon
    <3>4. Fresh \in Record /\ ~Banned(Fresh) /\ WindowCounted(Fresh, recent[k]) /\ ~Banned(entries[k])
      BY <3>1, <3>2, LimiterAssumption DEF Fresh, Record, WindowCounted, None, Banned
    <3>5. \A q \in DOMAIN entries : entries'[q] \in Record /\ WindowCounted(entries'[q], recent[q])
      BY <3>3, <3>4 DEF RateIInv, RateTypeOK
    <3>6. RateIInv'
      BY <2>1, <3>3, <3>5 DEF RateIInv, RateTypeOK
    <3>7. BansKept
      BY <1>0, <3>3, <3>4 DEF BansKept, BannedKey
    <3> QED BY <3>6, <3>7
  <2> QED BY <2>2, <2>3
<1>3. ASSUME NEW a \in Addrs, record_success(a) PROVE RateIInv' /\ BansKept
  <2> DEFINE k == from_ip(a)
  <2>1. k \in AllKeys /\ flight' \in [Addrs -> 0 .. MaxFlight] /\ UNCHANGED lastPrune
    BY <1>3, LimiterAssumption DEF AllKeys, record_success, RateIInv, RateTypeOK
  <2>2. entries' = [q \in DOMAIN entries \ {k} |-> entries[q]]
    BY <1>3 DEF record_success, Restrict
  <2>3. recent' = [recent EXCEPT ![k] = NoFailures]
    BY <1>3 DEF record_success
  <2>4. NoFailures \in [1 .. MaxFailures -> 0 .. Window]
    BY LimiterAssumption DEF NoFailures
  <2> HIDE DEF k
  <2>5. recent' \in [AllKeys -> [1 .. MaxFailures -> 0 .. Window]]
        /\ \A q \in AllKeys \ {k} : recent'[q] = recent[q]
    BY <2>1, <2>3, <2>4 DEF RateIInv, RateTypeOK
  <2>6. /\ DOMAIN entries' = DOMAIN entries \ {k} /\ entries' = [q \in DOMAIN entries' |-> entries'[q]]
        /\ \A q \in DOMAIN entries' : entries'[q] = entries[q] /\ recent'[q] = recent[q]
    BY <1>0, <2>2, <2>5
  <2>7. IsFiniteSet(DOMAIN entries') /\ Cardinality(DOMAIN entries') <= Cardinality(DOMAIN entries)
    BY <2>6, FS_Subset DEF RateIInv
  <2>8. Cardinality(DOMAIN entries') <= MAX_ENTRIES
    BY <2>7, FS_CardinalityType, LimiterAssumption DEF RateIInv, RateTypeOK
  <2>9. RateIInv'
    BY <2>1, <2>5, <2>6, <2>7, <2>8 DEF RateIInv, RateTypeOK
  <2>10. BansKept
    BY <1>0, <1>3, <2>6 DEF BansKept, BannedKey, k
  <2> QED BY <2>9, <2>10
<1>4. ASSUME NEW a \in Addrs, Abandon(a) PROVE RateIInv' /\ BansKept
  <2>1. flight' \in [Addrs -> 0 .. MaxFlight] /\ UNCHANGED <<entries, lastPrune, recent>>
    BY <1>4, LimiterAssumption DEF Abandon, RateIInv, RateTypeOK
  <2> QED BY <1>0, <2>1 DEF RateIInv, RateTypeOK, BansKept, BannedKey
<1> QED BY <1>1, <1>2, <1>3, <1>4, FailureKeeps, TickKeeps DEF RateNext

(* Bans are earned, and they last: for any addresses, limits and capacity,   *)
(* a key is banned only after max_failures failures within the window, no    *)
(* flood, prune or eviction shortens a ban, and the map stays within its     *)
(* capacity (record_failure).                                                *)
THEOREM LimiterIsSound == RateSpec => BansSound
<1>1. RateInit => RateIInv
  <2> SUFFICES ASSUME RateInit PROVE RateIInv
    OBVIOUS
  <2>1. DOMAIN entries = {} /\ entries = [k \in DOMAIN entries |-> entries[k]]
    BY DEF RateInit
  <2>2. IsFiniteSet(DOMAIN entries) /\ Cardinality(DOMAIN entries) = 0
    BY <2>1, FS_EmptySet
  <2> QED BY <2>1, <2>2, LimiterAssumption DEF RateInit, RateIInv, RateTypeOK, NoFailures
<1>2. RateIInv /\ [RateNext]_rateVars => RateIInv'
  BY RateNextKeeps
<1>3. RateIInv /\ [RateNext]_rateVars => [BansKept]_rateVars
  BY RateNextKeeps
<1>4. RateIInv => RateTypeOK
  BY DEF RateIInv
<1>5. RateSpec => []RateTypeOK
  BY <1>1, <1>2, <1>4, PTL DEF RateSpec
<1>6. RateSpec => [][BansKept]_rateVars
  BY <1>1, <1>2, <1>3, PTL DEF RateSpec
<1> QED BY <1>5, <1>6 DEF BansSound, BansKept
=============================================================================

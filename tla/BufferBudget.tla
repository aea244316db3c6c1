---------------------------- MODULE BufferBudget ----------------------------
(***************************************************************************)
(* The client-to-target buffered-byte budgets of the server relay          *)
(* (relay/context.rs).  Every payload queued for a target is charged to    *)
(* three atomic counters: the one of its flow, the one of its session and  *)
(* the server-wide one.  `TargetFlowControl::reserve_bytes' charges them   *)
(* one after the other and rolls back what it charged when a later one is  *)
(* full; dropping the `BufferedTargetData' gives the three charges back,   *)
(* again one after the other, from whichever task owns the payload.        *)
(*                                                                         *)
(* One counter update is one atomic step: the compare-exchange loops of    *)
(* `reserve_bytes' and `release_bytes' read the counter and commit on the  *)
(* value they read (or refuse on it), so each call takes effect at a       *)
(* single instant.  Between two updates anything else may run.             *)
(*                                                                         *)
(* A payload is a set of byte identities, so that "the bytes of these      *)
(* payloads" is a set and its cardinality is what the counters count.      *)
(***************************************************************************)
EXTENDS Integers, FiniteSets

CONSTANTS Chunk,        \* payloads that may be in flight at the same time
          Flow, Session,
          Byte,         \* byte identities
          FlowOf,       \* the flow a payload belongs to
          SessionOf,    \* the session a flow belongs to
          Bytes,        \* the bytes of a payload
          FlowLimit,    \* max_buffered_bytes_per_flow
          SessionLimit, \* max_buffered_bytes_per_session
          GlobalLimit   \* GlobalBufferControl::limit

ASSUME ChunkAssumption ==
    /\ IsFiniteSet(Byte)
    /\ FlowOf \in [Chunk -> Flow]
    /\ SessionOf \in [Flow -> Session]
    /\ Bytes \in [Chunk -> SUBSET Byte]
    /\ \A c, d \in Chunk : c # d => Bytes[c] \cap Bytes[d] = {}

ASSUME LimitAssumption ==
    FlowLimit \in Nat /\ SessionLimit \in Nat /\ GlobalLimit \in Nat

VARIABLES flowBytes,    \* TargetFlowControl::buffered_bytes
          sessionBytes, \* SessionBufferControl::buffered_bytes
          globalBytes,  \* GlobalBufferControl::buffered_bytes
          pc            \* how far the charge of each payload has come

vars == <<flowBytes, sessionBytes, globalBytes, pc>>

Size(c) == Cardinality(Bytes[c])
SessionOfChunk(c) == SessionOf[FlowOf[c]]

(* Where a payload is between two counter updates. *)
Reserving == {"flow", "session", "undoSession", "undoFlow"}
Dropping  == {"dropSession", "dropGlobal"}
PC == {"absent", "held"} \cup Reserving \cup Dropping

(* The payloads a counter has been charged for and not yet credited.       *)
ChargesFlow    == Reserving \cup {"held"}
ChargesSession == {"session", "undoSession", "held", "dropSession"}
ChargesGlobal  == {"held"} \cup Dropping

(* reserve_bytes: refuse when the sum passes the limit.  The limit is a    *)
(* usize, so the overflow test of checked_add is implied by it.            *)
Fits(current, amount, limit) == current + amount <= limit

(* release_bytes: saturating_sub. *)
Less(current, amount) == IF amount <= current THEN current - amount ELSE 0

Init ==
    /\ flowBytes = [f \in Flow |-> 0]
    /\ sessionBytes = [s \in Session |-> 0]
    /\ globalBytes = 0
    /\ pc = [c \in Chunk |-> "absent"]

At(c, from, to) == pc[c] = from /\ pc' = [pc EXCEPT ![c] = to]

ChargeFlow(c) ==
    flowBytes' = [flowBytes EXCEPT ![FlowOf[c]] = @ + Size(c)]
CreditFlow(c) ==
    flowBytes' = [flowBytes EXCEPT ![FlowOf[c]] = Less(@, Size(c))]
ChargeSession(c) ==
    sessionBytes' = [sessionBytes EXCEPT ![SessionOfChunk(c)] = @ + Size(c)]
CreditSession(c) ==
    sessionBytes' = [sessionBytes EXCEPT ![SessionOfChunk(c)] = Less(@, Size(c))]

(* BufferedTargetData::new is called by the session's own loop, which      *)
(* handles one frame at a time: one reservation per session is in flight.  *)
ReserveFlow(c) ==
    /\ \A d \in Chunk : SessionOfChunk(d) = SessionOfChunk(c) => pc[d] \notin Reserving
    /\ Fits(flowBytes[FlowOf[c]], Size(c), FlowLimit)
    /\ At(c, "absent", "flow")
    /\ ChargeFlow(c)
    /\ UNCHANGED <<sessionBytes, globalBytes>>

ReserveSession(c) ==
    /\ Fits(sessionBytes[SessionOfChunk(c)], Size(c), SessionLimit)
    /\ At(c, "flow", "session")
    /\ ChargeSession(c)
    /\ UNCHANGED <<flowBytes, globalBytes>>

RefuseSession(c) ==
    /\ ~Fits(sessionBytes[SessionOfChunk(c)], Size(c), SessionLimit)
    /\ At(c, "flow", "undoFlow")
    /\ UNCHANGED <<flowBytes, sessionBytes, globalBytes>>

(* Mutant of ReserveGlobal: the server-wide limit is not tested. *)
ReserveGlobalMutant(c) ==
    /\ At(c, "session", "held")
    /\ globalBytes' = globalBytes + Size(c)
    /\ UNCHANGED <<flowBytes, sessionBytes>>

ReserveGlobal(c) ==
    /\ Fits(globalBytes, Size(c), GlobalLimit)
    /\ At(c, "session", "held")
    /\ globalBytes' = globalBytes + Size(c)
    /\ UNCHANGED <<flowBytes, sessionBytes>>

(* Mutant of RefuseGlobal: the session's charge is not rolled back. *)
RefuseGlobalMutant(c) ==
    /\ ~Fits(globalBytes, Size(c), GlobalLimit)
    /\ At(c, "session", "undoFlow")
    /\ UNCHANGED <<flowBytes, sessionBytes, globalBytes>>

RefuseGlobal(c) ==
    /\ ~Fits(globalBytes, Size(c), GlobalLimit)
    /\ At(c, "session", "undoSession")
    /\ UNCHANGED <<flowBytes, sessionBytes, globalBytes>>

(* The roll back of a refused reservation. *)
UndoSession(c) ==
    /\ At(c, "undoSession", "undoFlow")
    /\ CreditSession(c)
    /\ UNCHANGED <<flowBytes, globalBytes>>

UndoFlow(c) ==
    /\ At(c, "undoFlow", "absent")
    /\ CreditFlow(c)
    /\ UNCHANGED <<sessionBytes, globalBytes>>

(* Drop for BufferedTargetData: the writer task wrote or discarded the     *)
(* payload, or the queue that held it was dropped.                         *)
DropFlow(c) ==
    /\ At(c, "held", "dropSession")
    /\ CreditFlow(c)
    /\ UNCHANGED <<sessionBytes, globalBytes>>

DropSession(c) ==
    /\ At(c, "dropSession", "dropGlobal")
    /\ CreditSession(c)
    /\ UNCHANGED <<flowBytes, globalBytes>>

DropGlobal(c) ==
    /\ At(c, "dropGlobal", "absent")
    /\ globalBytes' = Less(globalBytes, Size(c))
    /\ UNCHANGED <<flowBytes, sessionBytes>>

Next == \E c \in Chunk :
    \/ ReserveFlow(c) \/ ReserveSession(c) \/ ReserveGlobal(c)
    \/ RefuseSession(c) \/ RefuseGlobal(c)
    \/ UndoSession(c) \/ UndoFlow(c)
    \/ DropFlow(c) \/ DropSession(c) \/ DropGlobal(c)

Spec == Init /\ [][Next]_vars

-----------------------------------------------------------------------------
(* The bytes of a set of payloads, and the payloads each counter stands    *)
(* for.                                                                    *)
BytesOf(S) == UNION {Bytes[c] : c \in S}
OnFlow(f) == {c \in Chunk : FlowOf[c] = f /\ pc[c] \in ChargesFlow}
OnSession(s) == {c \in Chunk : SessionOfChunk(c) = s /\ pc[c] \in ChargesSession}
OnGlobal == {c \in Chunk : pc[c] \in ChargesGlobal}

(* The counters are naturals and every payload is at a known point.        *)
TypeOK ==
    /\ flowBytes \in [Flow -> Nat]
    /\ sessionBytes \in [Session -> Nat]
    /\ globalBytes \in Nat
    /\ pc \in [Chunk -> PC]

(* No interleaving of reservations, roll backs and drops takes a counter   *)
(* past its configured limit.                                              *)
WithinLimits ==
    /\ \A f \in Flow : flowBytes[f] <= FlowLimit
    /\ \A s \in Session : sessionBytes[s] <= SessionLimit
    /\ globalBytes <= GlobalLimit

(* Each counter is exactly the number of bytes charged to it and not yet   *)
(* credited: nothing leaks, nothing is credited twice, and the saturating  *)
(* subtraction of release_bytes never has to saturate.                     *)
Exact ==
    /\ \A f \in Flow : flowBytes[f] = Cardinality(BytesOf(OnFlow(f)))
    /\ \A s \in Session : sessionBytes[s] = Cardinality(BytesOf(OnSession(s)))
    /\ globalBytes = Cardinality(BytesOf(OnGlobal))

-----------------------------------------------------------------------------
(* What the three-step protocol promises its callers: admission is atomic  *)
(* and the payloads held fit all three limits.                             *)
Held == {c \in Chunk : pc[c] = "held"}
BytesHeld(S) == Cardinality(BytesOf(S))
Atomic == INSTANCE AtomicBudget WITH held <- Held

(* The step-wise charges implement the atomic budget.                      *)
ImplementsAtomic == Atomic!Spec
=============================================================================

---------------------------- MODULE AtomicBudget ----------------------------
(***************************************************************************)
(* What the buffered-byte budgets promise: a set of payloads is held, a    *)
(* payload is admitted only when it fits its flow, its session and the     *)
(* server at that instant, and a held payload is released once.  A payload *)
(* may be refused although it would fit: the promise is an upper bound.    *)
(***************************************************************************)
EXTENDS Integers

CONSTANTS Chunk, FlowOf, SessionOf, FlowLimit, SessionLimit, GlobalLimit,
          BytesHeld(_)  \* the number of bytes of a set of payloads

VARIABLE held

SameFlow(c) == {d \in held : FlowOf[d] = FlowOf[c]}
SameSession(c) == {d \in held : SessionOf[FlowOf[d]] = SessionOf[FlowOf[c]]}

Init == held = {}

Admit(c) ==
    /\ c \notin held
    /\ BytesHeld(SameFlow(c) \cup {c}) <= FlowLimit
    /\ BytesHeld(SameSession(c) \cup {c}) <= SessionLimit
    /\ BytesHeld(held \cup {c}) <= GlobalLimit
    /\ held' = held \cup {c}

Release(c) == c \in held /\ held' = held \ {c}

Next == \E c \in Chunk : Admit(c) \/ Release(c)

Spec == Init /\ [][Next]_held
=============================================================================

------------------------------ MODULE MaskGate ------------------------------
(***************************************************************************)
(* Admission of masked TCP connections: clients draw prelude counters      *)
(* (ClientSequence), the gate verifies and prechecks a prelude             *)
(* (MaskingState::admit), and CommitGate commits the counter when rustls   *)
(* writes its first record that is not an alert.  The network may deliver  *)
(* a prelude again on another connection.                                  *)
(*                                                                         *)
(* Cryptography is ideal: a prelude verifies exactly if it was made under  *)
(* one of the server's keys.  The registry's mutex is never poisoned.      *)
(***************************************************************************)
EXTENDS Integers, Sequences, FiniteSets, ReplayRegistry

CONSTANTS
    Clients,      \* client processes, each with its random identity
    Known,        \* the clients whose credential the server has
    Links,        \* TCP connections
    MAX_COUNTER   \* highest legal counter, 2^48 - 1 in the code

ASSUME CounterAssumption == MAX_COUNTER \in Nat

VARIABLES
    sequence,  \* client -> ClientSequence::next
    link,      \* connection -> [pc, client, counter]; client "none": nothing readable
    pending,   \* connections whose CommitGate has yet to commit
    wrote,     \* connection -> "nothing", "alert" or "record": the most it sent
    reported,  \* connections whose rejection went to metrics and limiter
    registry,  \* the replay registry
    uses       \* history: <<client, counter>> -> commits since it was registered

gateVars == <<sequence, link, pending, wrote, reported, registry, uses>>

Nobody == "none"
Preludes == Clients \X (1 .. MAX_COUNTER)

GateInit ==
    /\ sequence = [c \in Clients |-> 1]
    /\ link = [k \in Links |-> [pc |-> "idle", client |-> Nobody, counter |-> 0]]
    /\ pending = {}
    /\ wrote = [k \in Links |-> "nothing"]
    /\ reported = {}
    /\ registry = EmptyRegistry
    /\ uses = [p \in Preludes |-> 0]

Arrives(k, client, counter) ==
    /\ link[k].pc = "idle"
    /\ link' = [link EXCEPT ![k] = [pc |-> "reading", client |-> client, counter |-> counter]]
    /\ UNCHANGED <<pending, wrote, reported, registry, uses>>

\* A client draws a counter and sends its prelude.  ClientSequence::allocate
\* takes the counter whatever becomes of the attempt, and fails past the
\* last one.
Connect(c, k) ==
    /\ sequence[c] <= MAX_COUNTER
    /\ sequence' = [sequence EXCEPT ![c] = @ + 1]
    /\ Arrives(k, c, sequence[c])

\* A prelude sent before arrives once more.
Redeliver(k, j) ==
    /\ link[j].client # Nobody
    /\ Arrives(k, link[j].client, link[j].counter)
    /\ UNCHANGED sequence

\* A peer that sends fewer bytes than a prelude.
ConnectShort(k) ==
    /\ Arrives(k, Nobody, 0)
    /\ UNCHANGED sequence

\* decode_prelude under every key of the snapshot.
verify_prelude(k) == link[k].client \in Known /\ link[k].counter # 0

Goes(k, place) == link' = [link EXCEPT ![k].pc = place]

\* MaskingState::reject.  Only a prelude that was read is followed by the
\* silent drain; no byte is written.
Reject(k) ==
    /\ Goes(k, IF link[k].client = Nobody THEN "closed" ELSE "draining")
    /\ reported' = reported \union {k}
    /\ UNCHANGED pending

\* MaskingState::admit after the read returned or timed out.
admit(k) ==
    /\ link[k].pc = "reading"
    /\ IF verify_prelude(k)
          /\ precheck(registry, link[k].client, link[k].counter) = "Accepted"
       THEN Goes(k, "gated") /\ pending' = pending \union {k} /\ UNCHANGED reported
       ELSE Reject(k)
    /\ UNCHANGED <<sequence, wrote, registry, uses>>

\* silent_drain returned.
Drained(k) ==
    /\ link[k].pc = "draining"
    /\ Goes(k, "closed")
    /\ UNCHANGED <<sequence, pending, wrote, reported, registry, uses>>

\* poll_write of an alert (a malformed hello): the commit stays pending.
WriteAlert(k) ==
    /\ link[k].pc = "gated" /\ wrote[k] # "record"
    /\ wrote' = [wrote EXCEPT ![k] = "alert"]
    /\ UNCHANGED <<sequence, link, pending, reported, registry, uses>>

\* Commits per prelude after (client, counter) was accepted; an identity
\* that was evicted starts afresh.
UsesAfter(reg, client, counter) ==
    [p \in Preludes |->
       IF p = <<client, counter>> THEN uses[p] + 1
       ELSE IF p[1] \in DOMAIN reg.entries THEN uses[p] ELSE 0]

WriteRecordMutant(k) ==
    /\ link[k].pc = "gated" /\ k \in pending
    /\ pending' = pending \ {k}
    /\ wrote' = [wrote EXCEPT ![k] = "record"]
    /\ registry' = commit(registry, link[k].client, link[k].counter)
    /\ uses' = UsesAfter(registry', link[k].client, link[k].counter)
    /\ UNCHANGED <<sequence, link, reported>>

\* poll_write of the first record: commit, and only then write.  A counter
\* that is no longer admissible fails the write and with it the handshake.
WriteRecord(k) ==
    LET client  == link[k].client
        counter == link[k].counter
    IN  /\ link[k].pc = "gated" /\ k \in pending
        /\ pending' = pending \ {k}
        /\ registry' = commit(registry, client, counter)
        /\ IF precheck(registry, client, counter) = "Accepted"
           THEN /\ wrote' = [wrote EXCEPT ![k] = "record"]
                /\ uses' = UsesAfter(registry', client, counter)
                /\ UNCHANGED link
           ELSE Goes(k, "closed") /\ UNCHANGED <<wrote, uses>>
        /\ UNCHANGED <<sequence, reported>>

\* The connection ends: handshake failed, timed out or done with.
Drop(k) ==
    /\ link[k].pc = "gated"
    /\ Goes(k, "closed")
    /\ pending' = pending \ {k}
    /\ UNCHANGED <<sequence, wrote, reported, registry, uses>>

GateNext ==
    \E k \in Links :
        \/ \E c \in Clients : Connect(c, k)
        \/ \E j \in Links : Redeliver(k, j)
        \/ ConnectShort(k)
        \/ admit(k) \/ Drained(k) \/ WriteAlert(k) \/ WriteRecord(k) \/ Drop(k)

GateSpec == GateInit /\ [][GateNext]_gateVars

-----------------------------------------------------------------------------
(* Properties.                                                             *)

\* The registry stays within its capacity and its two halves agree: the
\* FIFO lists every entry once, every window is within bounds.
RegistryWellFormed ==
    LET reg == registry
    IN  /\ Len(reg.order) <= Capacity
        /\ {reg.order[i] : i \in DOMAIN reg.order} = DOMAIN reg.entries
        /\ Len(reg.order) = Cardinality(DOMAIN reg.entries)
        /\ \A c \in DOMAIN reg.entries :
             /\ reg.entries[c].highest \in 1 .. MAX_COUNTER
             /\ 0 \in reg.entries[c].seen /\ reg.entries[c].seen \subseteq 0 .. REPLAY_WINDOW - 1

AnswersNow(k) == wrote[k] # "record" /\ wrote'[k] = "record"

IsHighest(c, counter) == c \in DOMAIN registry.entries /\ registry.entries[c].highest = counter

\* The commit gate is exact (CommitGate::poll_write).  A connection sends a
\* record only if its client is known, it was not rejected, and its counter is
\* not the highest one committed: of two connections with the same prelude that
\* both passed the precheck, the second to commit with no other commit between
\* sends nothing.  The registry changes only in a step that sends a record, for
\* that record's client: alerts, rejections and drains burn no counter.  And a
\* rejected connection never sends a byte.  The registry stays within its
\* capacity and in step with its queue.
CommitGateExact ==
    /\ []RegistryWellFormed
    /\ [][/\ \A k \in Links :
               /\ AnswersNow(k) => /\ link[k].client \in Known
                                   /\ ~IsHighest(link[k].client, link[k].counter)
               /\ k \in reported => wrote'[k] = "nothing"
          /\ registry' # registry =>
               \E k \in Links : AnswersNow(k) /\ link[k].client \in DOMAIN registry'.entries]_gateVars

\* replay.rs: "zero, duplicates, and counters below the window are
\* rejected".  While an identity stays registered, each of its counters is
\* committed at most once.
NoDuplicateCommitted == \A p \in Preludes : uses[p] <= 1
=============================================================================

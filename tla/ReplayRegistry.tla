--------------------------- MODULE ReplayRegistry ---------------------------
(***************************************************************************)
(* The replay registry of masking preludes (uk-mask/src/replay.rs): per    *)
(* identity the highest committed counter and a window of the counters     *)
(* seen below it, identities in a bounded FIFO.  A registry is a value; it *)
(* lives behind a mutex, so every operator is one atomic step of a caller. *)
(***************************************************************************)
EXTENDS Integers, Sequences, FiniteSets

CONSTANTS
    REPLAY_WINDOW,  \* width of the window, 1024 in the code
    Capacity        \* ReplayRegistry::capacity

ASSUME RegistryAssumption == REPLAY_WINDOW \in Nat \ {0} /\ Capacity \in Nat \ {0}

\* ReplayRegistry::new
EmptyRegistry == [order |-> <<>>, entries |-> <<>>]

\* Distance d in `seen` stands for bit d of the bitmap: highest - d was seen.
fresh(counter) == [highest |-> counter, seen |-> {0}]

\* The shift of the bitmap for a new highest, as the loop computes it: the
\* new bit `target` is the old bit target + by.
advance(seen, by) ==
    IF by >= REPLAY_WINDOW THEN {}
    ELSE {target \in 0 .. REPLAY_WINDOW - 1 :
            target + by < REPLAY_WINDOW /\ target + by \in seen}

admits(entry, counter) ==
    IF counter = 0 THEN "Zero"
    ELSE IF counter > entry.highest THEN "Accepted"
    ELSE LET distance == entry.highest - counter
         IN  IF distance = 0 \/ (distance < REPLAY_WINDOW /\ distance \in entry.seen) THEN "Duplicate"
             ELSE IF distance < REPLAY_WINDOW THEN "Accepted" ELSE "BelowWindow"

precheck(reg, identity, counter) ==
    IF identity \in DOMAIN reg.entries THEN admits(reg.entries[identity], counter)
    ELSE IF counter = 0 THEN "Zero" ELSE "Accepted"

\* The entry after an accepted counter.
Marked(entry, counter) ==
    IF counter > entry.highest
    THEN [highest |-> counter,
          seen |-> advance(entry.seen, counter - entry.highest) \union {0}]
    ELSE [entry EXCEPT !.seen = @ \union {entry.highest - counter}]

\* An unknown identity joins the FIFO; at capacity the oldest leaves.
Registered(reg, identity, counter) ==
    LET full == Cardinality(DOMAIN reg.entries) = Capacity
        kept == IF full THEN Tail(reg.order) ELSE reg.order
        gone == IF full THEN {Head(reg.order)} ELSE {}
    IN  [order |-> Append(kept, identity),
         entries |-> [i \in (DOMAIN reg.entries \ gone) \union {identity} |->
                        IF i = identity THEN fresh(counter) ELSE reg.entries[i]]]

\* ReplayRegistry::commit: the registry after the call.  It changes only if
\* the precheck, made again under the lock, accepts.
commit(reg, identity, counter) ==
    IF precheck(reg, identity, counter) # "Accepted" THEN reg
    ELSE IF identity \in DOMAIN reg.entries
    THEN [reg EXCEPT !.entries[identity] = Marked(@, counter)]
    ELSE Registered(reg, identity, counter)
=============================================================================

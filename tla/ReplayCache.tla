----------------------------- MODULE ReplayCache -----------------------------
(***************************************************************************)
(* ReplayCache of uk-auth: accepted nonce pairs, kept for a window of      *)
(* monotonic time and up to a number of entries.  A cache is a value; it   *)
(* lives behind a mutex, so each operator is one step of its caller.       *)
(* Instants are kept as ages, which is all the code computes from them.    *)
(***************************************************************************)
LOCAL INSTANCE Integers
LOCAL INSTANCE Sequences
LOCAL INSTANCE SequencesExt

CONSTANTS
    Window,     \* retention window
    MaxEntries  \* max_entries after its max(1)

EmptyCache == [entries |-> {}, order |-> <<>>]

\* Time passes; an age past the window stays there.
Aged(cache) ==
    [cache EXCEPT !.order = [i \in DOMAIN cache.order |->
        [cache.order[i] EXCEPT !.age = IF @ > Window THEN @ ELSE @ + 1]]]

PopFront(cache) ==
    [entries |-> cache.entries \ {Head(cache.order).key}, order |-> Tail(cache.order)]

pruneMutant(cache) ==
    LET live == SelectInSeq(cache.order, LAMBDA e : e.age < Window)
        n    == IF live = 0 THEN Len(cache.order) ELSE live - 1
    IN  FoldLeft(LAMBDA c, e : PopFront(c), cache, SubSeq(cache.order, 1, n))

\* The prefix that has aged out leaves; the first live entry stops the loop.
prune(cache) ==
    LET live == SelectInSeq(cache.order, LAMBDA e : e.age <= Window)
        n    == IF live = 0 THEN Len(cache.order) ELSE live - 1
    IN  FoldLeft(LAMBDA c, e : PopFront(c), cache, SubSeq(cache.order, 1, n))

\* Whether check_and_insert refuses the key with AuthError::Replay.
Replayed(cache, key) == key \in prune(cache).entries

\* evict_oldest.  One insert adds one entry, so at most one has to leave.
MakeRoom(cache) ==
    IF Len(cache.order) >= MaxEntries /\ cache.order # <<>> THEN PopFront(cache) ELSE cache

\* The cache after check_and_insert.
check_and_insert(cache, key) ==
    LET pruned == prune(cache)
        room   == MakeRoom(pruned)
    IN  IF key \in pruned.entries THEN pruned
        ELSE [entries |-> room.entries \union {key},
              order |-> Append(room.order, [key |-> key, age |-> 0])]
=============================================================================

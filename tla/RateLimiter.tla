---------------------------- MODULE RateLimiter ----------------------------
(***************************************************************************)
(* AuthRateLimiter (uk-server/rate_limit.rs) and the connections that use  *)
(* it: a connection is checked when it is accepted and reports success or  *)
(* failure later, so reports arrive for attempts admitted before a ban.    *)
(*                                                                         *)
(* Every call holds the mutex throughout and is one step.  Instants are    *)
(* kept as distances from now, counted in ticks: the age of a window, the  *)
(* ticks a ban has left, the age of the last prune.  An age stops growing  *)
(* at the bound beyond which the code tells no ages apart.                 *)
(***************************************************************************)
EXTENDS Integers, Functions, FiniteSets, FiniteSetsExt

CONSTANTS
    Addrs,            \* peer addresses: [family, prefix, host]
    Allowlist,        \* addresses some auth_rate_limit_allowlist entry contains
    MaxFailures,      \* max_failures; 0 disables the limiter
    Window,           \* window_secs
    Ban,              \* ban_secs
    PRUNE_INTERVAL,
    PRUNE_THRESHOLD,  \* 1024 in the code
    MAX_ENTRIES,
    EVICTION_BATCH_SIZE,
    U32_MAX,          \* where the failure count saturates
    MaxFlight         \* bound on the attempts of one address in flight

\* validate_limits refuses a window of zero unless the limiter is disabled.
ASSUME LimiterAssumption ==
    /\ {Window, Ban, PRUNE_INTERVAL, MAX_ENTRIES, U32_MAX, MaxFlight} \subseteq Nat
    /\ MaxFailures \in 0 .. U32_MAX /\ (MaxFailures # 0 => Window # 0)

VARIABLES
    entries,    \* RateLimitState::entries
    lastPrune,  \* age of RateLimitState::last_prune
    flight,     \* address -> attempts admitted and not yet reported
    recent      \* history: key -> ages of its last MaxFailures failures, newest
                \* first; Window stands for every age that is no longer counted

rateVars == <<entries, lastPrune, flight, recent>>

\* RateLimitKey::from_ip: an IPv4 address, also in its IPv4-mapped form, or
\* the /64 prefix of an IPv6 address.
from_ip(a) == IF a.family = "v6" THEN <<"V6Prefix", a.prefix>> ELSE <<"V4", a.host>>

AllKeys == {from_ip(a) : a \in Addrs}
None == -1   \* banned_until is None
Record == [failures : 0 .. U32_MAX, age : 0 .. Window, left : None .. Ban]
Fresh == [failures |-> 0, age |-> 0, left |-> None]
NoFailures == [i \in 1 .. MaxFailures |-> Window]

Banned(rec) == rec.left > 0
Enabled(a) == a \notin Allowlist /\ MaxFailures # 0

RateInit ==
    /\ entries = <<>>
    /\ lastPrune = 0
    /\ flight = [a \in Addrs |-> 0]
    /\ recent = [k \in AllKeys |-> NoFailures]

-----------------------------------------------------------------------------
\* check: what it answers ...
check(a) ==
    Enabled(a) /\ from_ip(a) \in DOMAIN entries => ~Banned(entries[from_ip(a)])

\* ... and the record it leaves: an expired ban is reset.
checkReset(a) ==
    LET k == from_ip(a) IN
    IF Enabled(a) /\ k \in DOMAIN entries /\ entries[k].left = 0
    THEN [entries EXCEPT ![k] = Fresh]
    ELSE entries

\* A connection is accepted and passes the check, or is refused.
Accept(a) ==
    /\ flight[a] < MaxFlight
    /\ entries' = checkReset(a)
    /\ flight' = IF check(a) THEN [flight EXCEPT ![a] = @ + 1] ELSE flight
    /\ UNCHANGED <<lastPrune, recent>>

\* The opportunistic prune of record_failure: at most once per interval,
\* live bans and open windows stay.
PruneDue == Cardinality(DOMAIN entries) > PRUNE_THRESHOLD /\ lastPrune >= PRUNE_INTERVAL
Live(rec) == IF rec.left = None THEN rec.age < Window ELSE Banned(rec)
pruned == IF PruneDue
          THEN Restrict(entries, {k \in DOMAIN entries : Live(entries[k])})
          ELSE entries

VictimsMutant(E) == DOMAIN E
\* Entries an eviction may take: those that carry no ban.
Victims(E) == {k \in DOMAIN E : E[k].left = None}

\* A new key meets a map at its cap.
Full(E, k) == k \notin DOMAIN E /\ Cardinality(DOMAIN E) >= MAX_ENTRIES

\* The maps an eviction may leave.  The victims are the first unbanned
\* entries in the order of the hash map, which is any order.
evicted(E, k) ==
    IF Full(E, k)
    THEN LET n == Min({EVICTION_BATCH_SIZE, Cardinality(Victims(E))}) IN
         {Restrict(E, DOMAIN E \ V) : V \in kSubset(n, Victims(E))}
    ELSE {E}

\* The record after one more failure: an expired ban or an elapsed window
\* starts over first.
counted(rec) ==
    LET base == IF rec.left = 0 \/ (rec.left = None /\ rec.age >= Window)
                THEN Fresh ELSE rec
    IN [base EXCEPT !.failures = Min({@ + 1, U32_MAX})]

\* The ban once the failures reach the limit; a ban in force is extended.
limit(rec) == IF rec.failures >= MaxFailures THEN [rec EXCEPT !.left = Ban] ELSE rec

\* A failure is reported: record_failure.
record_failure(a) ==
    LET k == from_ip(a) IN
    /\ flight[a] > 0
    /\ flight' = [flight EXCEPT ![a] = @ - 1]
    /\ IF ~Enabled(a)
       THEN UNCHANGED <<entries, lastPrune, recent>>
       ELSE /\ lastPrune' = IF PruneDue THEN 0 ELSE lastPrune
            /\ recent' = [recent EXCEPT ![k] = [i \in 1 .. MaxFailures |-> IF i = 1 THEN 0 ELSE @[i - 1]]]
            /\ \E E \in evicted(pruned, k) :
                 IF Full(E, k)
                 THEN entries' = E
                 ELSE entries' = [q \in DOMAIN E \union {k} |->
                         IF q # k THEN E[q]
                         ELSE limit(counted(IF k \in DOMAIN E THEN E[k] ELSE Fresh))]

\* A success is reported: record_success forgets the key, banned or not.
record_success(a) ==
    LET k == from_ip(a) IN
    /\ flight[a] > 0
    /\ flight' = [flight EXCEPT ![a] = @ - 1]
    /\ entries' = Restrict(entries, DOMAIN entries \ {k})
    /\ recent' = [recent EXCEPT ![k] = NoFailures]
    /\ UNCHANGED lastPrune

\* The handshake ended without a verdict (TLS, I/O, timeout, shutdown).
Abandon(a) ==
    /\ flight[a] > 0
    /\ flight' = [flight EXCEPT ![a] = @ - 1]
    /\ UNCHANGED <<entries, lastPrune, recent>>

\* One tick of time.
Tick ==
    /\ entries' = [k \in DOMAIN entries |->
          [entries[k] EXCEPT !.age = Min({@ + 1, Window}),
                             !.left = IF @ > 0 THEN @ - 1 ELSE @]]
    /\ lastPrune' = Min({lastPrune + 1, PRUNE_INTERVAL})
    /\ recent' = [k \in AllKeys |->
          [i \in 1 .. MaxFailures |-> Min({recent[k][i] + 1, Window})]]
    /\ UNCHANGED flight

RateNext ==
    \/ \E a \in Addrs : Accept(a) \/ record_failure(a) \/ record_success(a) \/ Abandon(a)
    \/ Tick

\* Time passes.  Nothing else is assumed: a peer need not come back, and an
\* attempt may stay in flight.
RateFairness == WF_rateVars(Tick)

RateSpec == RateInit /\ [][RateNext]_rateVars /\ RateFairness

-----------------------------------------------------------------------------
(* Properties.                                                             *)

\* The state is well formed and the map never holds more than MAX_ENTRIES
\* records (the hard cap of rate_limit.rs).
RateTypeOK ==
    /\ DOMAIN entries \subseteq AllKeys
    /\ \A k \in DOMAIN entries : entries[k] \in Record
    /\ Cardinality(DOMAIN entries) <= MAX_ENTRIES
    /\ lastPrune \in 0 .. PRUNE_INTERVAL
    /\ flight \in [Addrs -> 0 .. MaxFlight]
    /\ recent \in [AllKeys -> [1 .. MaxFailures -> 0 .. Window]]

BannedKey(k) == k \in DOMAIN entries /\ Banned(entries[k])

\* A ban is earned: when a key becomes banned, it failed at least max_failures
\* times within the window that ends now, and succeeded at no time since the
\* first of them (the window reset of record_failure).  And it lasts:
\* whatever floods the map, a ban in force is shortened only by the passing of
\* time, or lifted by a success of the same key (the eviction and the prune of
\* record_failure).  The map stays within its capacity.
BansSound ==
    /\ []RateTypeOK
    /\ [][\A k \in AllKeys :
            /\ ~BannedKey(k) /\ BannedKey(k)' => recent'[k][MaxFailures] < Window
            /\ BannedKey(k) =>
                 \/ BannedKey(k)' /\ entries'[k].left >= entries[k].left
                 \/ Tick
                 \/ \E a \in Addrs : from_ip(a) = k /\ record_success(a)]_rateVars

\* A ban ends: a banned source is let in again, even if attempts admitted
\* before the ban go on failing and extend it, because no new attempt is
\* admitted meanwhile (check).
BanEnds == \A k \in AllKeys : BannedKey(k) ~> ~BannedKey(k)

=============================================================================

--------------------------- MODULE Authentication ---------------------------
(***************************************************************************)
(* Challenge-response authentication over an established carrier: the      *)
(* server's authenticate_carrier and what follows it up to SETTINGS        *)
(* (uk-server/src/lib.rs), the client's authenticate_over_carrier          *)
(* (uk-client/src/session.rs) and the verification of uk-auth.  Handshakes *)
(* on several carriers share the replay cache and the server's clock.      *)
(*                                                                         *)
(* HMAC is ideal: a tag is the tuple of what it covers.  A random nonce is *)
(* any member of a small set, so nonces may repeat.                        *)
(***************************************************************************)
EXTENDS Integers, Sequences, FiniteSets, ReplayCache

CONSTANTS
    Carriers,       \* handshakes, each on its own carrier (and exporter)
    ServerNonces, ClientNonces,
    MaxTime,        \* the wall clocks show 0 .. MaxTime or cannot be read
    AllowedSkew,    \* auth_skew
    ClientClocks,   \* what the clients' clocks may show
    Silent,         \* carriers whose client may vanish without a word
    Clients,        \* assignments of <<key, secret>> to the clients of the carriers; the
                    \* server knows the key "known" with the secret "right"
    Configured      \* what that credential may look like: [status, not_before, not_after]

UNREADABLE_CLOCK == MaxTime + 1000

VARIABLES
    clock,   \* the server's wall clock
    cred,    \* the configured credential: [status, not_before, not_after]
    cache,   \* the replay cache
    log,     \* history: accepted nonce pairs with their ages, in order
    sv,      \* carrier -> the server's handshake
    cl,      \* carrier -> the client's handshake
    toC,     \* carrier -> frames on the way to the client
    toS      \* carrier -> frames on the way to the server

vars == <<clock, cred, cache, log, sv, cl, toC, toS>>

Times == 0 .. MaxTime

Init ==
    /\ clock = 0
    /\ cred \in Configured
    /\ cache = EmptyCache
    /\ log = <<>>
    /\ sv = [k \in Carriers |-> [pc |-> "start", nonce |-> 0, time |-> 0, cnonce |-> 0,
                                ctime |-> 0, now |-> 0, why |-> "none"]]
    /\ \E a \in Clients :
         cl = [k \in Carriers |-> [pc |-> "challenge", key |-> a[k][1], secret |-> a[k][2]]]
    /\ toC = [k \in Carriers |-> <<>>]
    /\ toS = [k \in Carriers |-> <<>>]

-----------------------------------------------------------------------------
(* uk-auth.                                                                *)

is_active_at(c, now) ==
    /\ now # UNREADABLE_CLOCK
    /\ c.status = "Active"
    /\ now >= c.not_before /\ now <= c.not_after

timestamp_within_skew(t, now) ==
    /\ t # UNREADABLE_CLOCK /\ now # UNREADABLE_CLOCK
    /\ now - t <= AllowedSkew /\ t - now <= AllowedSkew

\* auth_mac covers the exporter, the challenge and the response.
compute_auth_tag(secret, exporter, nonce, time, key, cnonce, ctime) ==
    <<secret, exporter, nonce, time, key, cnonce, ctime>>

\* verify_auth_response_stateless, in the order of its errors.
Verdict(exporter, nonce, time, r, now) ==
    IF r.key # "known" THEN "UnknownKey"
    ELSE IF r.tag # compute_auth_tag("right", exporter, nonce, time, r.key, r.cnonce, r.ctime)
    THEN "InvalidTag"
    ELSE IF ~is_active_at(cred, now) THEN "CredentialNotActive"
    ELSE IF ~timestamp_within_skew(time, now) \/ ~timestamp_within_skew(r.ctime, now)
    THEN "ClockSkew"
    ELSE "ok"

-----------------------------------------------------------------------------
(* The server's side.                                                      *)

Send(chan, k, m) == [chan EXCEPT ![k] = Append(@, m)]
Err(code) == [t |-> "error", code |-> code]
Eof == [t |-> "eof"]

\* The server gives up: an error frame unless it is silent, then the end of
\* the carrier.
Fail(k, why, frames) ==
    /\ sv' = [sv EXCEPT ![k] = [@ EXCEPT !.pc = "failed", !.why = why]]
    /\ toC' = [toC EXCEPT ![k] = @ \o frames \o <<Eof>>]

\* try_unix_now, then send_auth_challenge.
SendChallenge(k) ==
    /\ sv[k].pc = "start"
    /\ IF clock = UNREADABLE_CLOCK THEN Fail(k, "clock", <<>>)
       ELSE \E n \in ServerNonces :
              /\ sv' = [sv EXCEPT ![k] = [@ EXCEPT !.pc = "response", !.nonce = n, !.time = clock]]
              /\ toC' = Send(toC, k, [t |-> "challenge", nonce |-> n, time |-> clock])
    /\ UNCHANGED <<clock, cred, cache, log, cl, toS>>

\* The response arrives: the second reading of the clock and the stateless
\* verification.  Every rejection is answered with AuthFailed, a frame that
\* is no response with Protocol, the end of the carrier with nothing.
VerifyResponse(k) ==
    /\ sv[k].pc = "response" /\ toS[k] # <<>>
    /\ toS' = [toS EXCEPT ![k] = Tail(@)]
    /\ LET m == Head(toS[k])
       IN  CASE m.t = "eof" -> Fail(k, "io", <<>>)
             [] m.t = "response" /\ clock = UNREADABLE_CLOCK -> Fail(k, "clock", <<>>)
             [] m.t = "response" /\ clock # UNREADABLE_CLOCK ->
                  IF Verdict(k, sv[k].nonce, sv[k].time, m, clock) = "ok"
                  THEN /\ sv' = [sv EXCEPT ![k] = [@ EXCEPT !.pc = "replay", !.cnonce = m.cnonce,
                                                     !.ctime = m.ctime, !.now = clock]]
                       /\ UNCHANGED toC
                  ELSE Fail(k, "credential", <<Err("AuthFailed")>>)
    /\ UNCHANGED <<clock, cred, cache, log, cl>>

Pair(k) == <<sv[k].nonce, sv[k].cnonce>>

\* The mutex of the replay cache is taken and the pair recorded or refused.
CheckReplay(k) ==
    /\ sv[k].pc = "replay"
    /\ cache' = check_and_insert(cache, Pair(k))
    /\ IF Replayed(cache, Pair(k))
       THEN Fail(k, "replay", <<Err("AuthFailed")>>) /\ UNCHANGED log
       ELSE /\ sv' = [sv EXCEPT ![k].pc = "ok"]
            /\ log' = Append(log, [key |-> Pair(k), age |-> 0])
            /\ UNCHANGED toC
    /\ UNCHANGED <<clock, cred, cl, toS>>

\* run_authenticated_session: SETTINGS, or ResourceLimit when no session
\* permit is free (ServerAdmission).
SendSettings(k) ==
    /\ sv[k].pc = "ok"
    /\ \/ sv' = [sv EXCEPT ![k].pc = "served"] /\ toC' = Send(toC, k, [t |-> "settings"])
       \/ Fail(k, "limit", <<Err("ResourceLimit")>>)
    /\ UNCHANGED <<clock, cred, cache, log, cl, toS>>

\* The handshake timeout drops the future, and with it the carrier.
ServerTimeout(k) ==
    /\ sv[k].pc \in {"start", "response", "replay"}
    /\ Fail(k, "timeout", <<>>)
    /\ UNCHANGED <<clock, cred, cache, log, cl, toS>>

-----------------------------------------------------------------------------
(* The client's side.                                                      *)

ClientFails(k, pc) ==
    /\ cl' = [cl EXCEPT ![k].pc = pc]
    /\ toS' = Send(toS, k, Eof)

\* read_frame, decode, for_challenge with the client's own clock, write.
AnswerChallenge(k) ==
    /\ cl[k].pc = "challenge" /\ toC[k] # <<>>
    /\ toC' = [toC EXCEPT ![k] = Tail(@)]
    /\ LET m == Head(toC[k])
       IN  IF m.t # "challenge" THEN ClientFails(k, "failed")
           ELSE \E cn \in ClientNonces, ct \in ClientClocks :
                  /\ cl' = [cl EXCEPT ![k].pc = "settings"]
                  /\ toS' = Send(toS, k,
                       [t |-> "response", key |-> cl[k].key, cnonce |-> cn, ctime |-> ct,
                        tag |-> compute_auth_tag(cl[k].secret, k, m.nonce, m.time, cl[k].key, cn, ct)])
    /\ UNCHANGED <<clock, cred, cache, log, sv>>

ReadSettingsMutant(k) ==
    /\ cl[k].pc = "settings" /\ toC[k] # <<>>
    /\ toC' = [toC EXCEPT ![k] = Tail(@)]
    /\ LET m == Head(toC[k])
       IN  CASE m.t = "settings" -> cl' = [cl EXCEPT ![k].pc = "up"] /\ UNCHANGED toS
             [] m.t = "error" -> ClientFails(k, "rejected")
             [] OTHER -> ClientFails(k, "failed")
    /\ UNCHANGED <<clock, cred, cache, log, sv>>

\* decode_server_settings_frame: SETTINGS, the server's error, or the end of
\* the carrier.  AuthFailed is the credential rejection.
ReadSettings(k) ==
    /\ cl[k].pc = "settings" /\ toC[k] # <<>>
    /\ toC' = [toC EXCEPT ![k] = Tail(@)]
    /\ LET m == Head(toC[k])
       IN  CASE m.t = "settings" -> cl' = [cl EXCEPT ![k].pc = "up"] /\ UNCHANGED toS
             [] m.t = "error" -> ClientFails(k, IF m.code = "AuthFailed" THEN "rejected" ELSE "failed")
             [] OTHER -> ClientFails(k, "failed")
    /\ UNCHANGED <<clock, cred, cache, log, sv>>

ClientTimeout(k) ==
    /\ cl[k].pc \in {"challenge", "settings"}
    /\ ClientFails(k, "failed")
    /\ UNCHANGED <<clock, cred, cache, log, sv, toC>>

\* The client's process or its network is gone, and nothing tells the server.
ClientVanishes(k) ==
    /\ k \in Silent /\ cl[k].pc \in {"challenge", "settings"}
    /\ cl' = [cl EXCEPT ![k].pc = "gone"]
    /\ UNCHANGED <<clock, cred, cache, log, sv, toC, toS>>

-----------------------------------------------------------------------------
\* The wall clock is set: it jumps either way, or before the epoch.
SetClock(t) ==
    /\ clock' = t
    /\ UNCHANGED <<cred, cache, log, sv, cl, toC, toS>>

\* Monotonic time passes.
Elapse ==
    /\ cache.order # <<>>
    /\ cache' = Aged(cache)
    /\ log' = [i \in DOMAIN log |-> [log[i] EXCEPT !.age = IF @ > Window THEN @ ELSE @ + 1]]
    /\ UNCHANGED <<clock, cred, sv, cl, toC, toS>>

Handshake(k) ==
    \/ SendChallenge(k) \/ VerifyResponse(k) \/ CheckReplay(k) \/ SendSettings(k)
    \/ AnswerChallenge(k) \/ ReadSettings(k)

Next ==
    \/ \E k \in Carriers : Handshake(k) \/ ServerTimeout(k) \/ ClientTimeout(k) \/ ClientVanishes(k)
    \/ \E t \in Times \union {UNREADABLE_CLOCK} : SetClock(t)
    \/ Elapse

\* Both peers poll their handshakes; the timeouts are what ends one whose
\* peer is silent, so they are fair where they are configured.
Fairness ==
    \A k \in Carriers :
        WF_vars(Handshake(k)) /\ WF_vars(ServerTimeout(k)) /\ WF_vars(ClientTimeout(k))

Spec == Init /\ [][Next]_vars /\ Fairness

-----------------------------------------------------------------------------
(* Properties.                                                             *)

\* Whoever the server authenticates is the client at the other end of this
\* very carrier, with the configured secret, an active credential and
\* readable clocks within the skew at the moment of verification
\* (verify_auth_response_stateless, authenticate_carrier).
AuthenticationSound ==
    \A k \in Carriers : sv[k].pc \in {"replay", "ok", "served"} =>
        /\ cl[k].key = "known" /\ cl[k].secret = "right"
        /\ cred.status = "Active"
        /\ sv[k].now \in cred.not_before .. cred.not_after
        /\ sv[k].now - sv[k].time \in -AllowedSkew .. AllowedSkew
        /\ sv[k].now - sv[k].ctime \in -AllowedSkew .. AllowedSkew

\* The pairs accepted in the last Window of monotonic time, among the last
\* MaxEntries accepted ones.
Remembered ==
    {log[i].key : i \in {j \in DOMAIN log : log[j].age <= Window /\ j > Len(log) - MaxEntries}}

\* The replay cache refuses exactly what it has to remember: a pair is
\* accepted if and only if it is not among the last MaxEntries pairs
\* accepted within the window, however the wall clock jumps (ReplayCache).
ReplayExact ==
    \A k \in Carriers :
      sv[k].pc = "replay" =>
        /\ sv'[k].pc = "ok" => Pair(k) \notin Remembered
        /\ sv'[k].why = "replay" => Pair(k) \in Remembered

\* The map and the queue of the cache hold the same pairs, each once, oldest
\* first, and no more than max_entries.
CacheConsistent ==
    /\ cache.entries = {cache.order[i].key : i \in DOMAIN cache.order}
    /\ Cardinality(cache.entries) = Len(cache.order)
    /\ Len(cache.order) <= MaxEntries
    /\ \A i, j \in DOMAIN cache.order : i < j => cache.order[i].age >= cache.order[j].age

\* The two ends agree: a client that is up is served, and a client that
\* concludes its credentials were rejected was refused by the server for
\* them, so breaking off the endpoint loop is right (is_credential_rejection).
EndsAgree ==
    \A k \in Carriers :
        /\ cl[k].pc = "up" => sv[k].pc = "served"
        /\ cl[k].pc = "rejected" => sv[k].why \in {"credential", "replay"}

\* Every handshake ends on both sides, and on the server's also when its
\* client has vanished.
HandshakeResolves ==
    \A k \in Carriers :
        <>(sv[k].pc \in {"served", "failed"} /\ cl[k].pc \in {"up", "rejected", "failed", "gone"})
=============================================================================

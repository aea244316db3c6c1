------------------------------- MODULE Dialer -------------------------------
(* The server's target dialer (uk-server relay/dialer.rs): each open checks  *)
(* the policy before and after resolution, then races the resolved addresses *)
(* against each other under the session's dial limiter and a deadline.       *)
(* TCP and UDP targets take the same path.                                   *)
EXTENDS Policy, FiniteSets

CONSTANTS
    Opens, PolicySets, Targets,
    Identity,                       \* [key, group] of the session
    Answers,                        \* sequences of addresses DNS may return
    OPEN_DIAL_LIMIT,                \* permits of the OpenDialLimiter
    TARGET_CONNECT_PARALLELISM, TARGET_RESOLUTION_ADDR_LIMIT

VARIABLES
    rules,          \* the policy in force
    step, target,   \* per open
    looked_up,      \* a DNS query was made
    addrs, next_index, tasks, failed,
    result,
    free            \* available permits of the dial limiter

dialVars == <<rules, step, target, looked_up, addrs, next_index, tasks, failed, result, free>>

NoTarget == [domain |-> NONE, ip |-> NONE, port |-> 0]

DialInit ==
    /\ rules \in PolicySets
    /\ step = [o \in Opens |-> "new"] /\ target = [o \in Opens |-> NoTarget]
    /\ looked_up = [o \in Opens |-> FALSE] /\ addrs = [o \in Opens |-> <<>>]
    /\ next_index = [o \in Opens |-> 0]
    /\ tasks = [o \in Opens |-> {}] /\ failed = [o \in Opens |-> {}]
    /\ result = [o \in Opens |-> "none"] /\ free = OPEN_DIAL_LIMIT

Context(t, ips) == [key |-> Identity.key, group |-> Identity.group, target |-> t, ips |-> ips]

Finish(o, r) == step' = [step EXCEPT ![o] = "done"] /\ result' = [result EXCEPT ![o] = r]

pre_resolve_policy_check(t) == ~denied_without_resolution(rules, Context(t, {}))

Start(o, t) ==
    /\ step[o] = "new"
    /\ target' = [target EXCEPT ![o] = t]
    /\ IF pre_resolve_policy_check(t)
       THEN step' = [step EXCEPT ![o] = "resolve"] /\ UNCHANGED result
       ELSE Finish(o, "PolicyDenied")
    /\ UNCHANGED <<rules, looked_up, addrs, next_index, tasks, failed, free>>

(* resolve_target and collect_resolved_addrs, then the second evaluation on  *)
(* every address found.                                                      *)
Resolve(o) ==
    /\ step[o] = "resolve"
    /\ \E found \in IF IsDomain(target[o]) THEN Answers ELSE {<<target[o].ip>>} :
          /\ looked_up' = [looked_up EXCEPT ![o] = IsDomain(target[o])]
          /\ IF found = <<>> \/ Len(found) > TARGET_RESOLUTION_ADDR_LIMIT
             THEN Finish(o, "TargetUnavailable") /\ UNCHANGED addrs
             ELSE /\ addrs' = [addrs EXCEPT ![o] = found]
                  /\ IF evaluate(rules, Context(target[o], IF IsDomain(target[o])
                                                           THEN ToSet(found) ELSE {})) = "Allow"
                     THEN step' = [step EXCEPT ![o] = "spawn"] /\ UNCHANGED result
                     ELSE Finish(o, "PolicyDenied")
    /\ UNCHANGED <<rules, target, next_index, tasks, failed, free>>

MaySpawn(o) == next_index[o] < Len(addrs[o]) /\ Cardinality(tasks[o]) < TARGET_CONNECT_PARALLELISM

(* spawn_target_connects, one permit at a time. *)
SpawnConnect(o) ==
    /\ step[o] = "spawn" /\ MaySpawn(o) /\ free > 0
    /\ free' = free - 1
    /\ next_index' = [next_index EXCEPT ![o] = @ + 1]
    /\ tasks' = [tasks EXCEPT ![o] = @ \cup {next_index[o] + 1}]
    /\ UNCHANGED <<rules, step, target, looked_up, addrs, failed, result>>

SpawnEnds(o) ==
    /\ step[o] = "spawn" /\ ~(MaySpawn(o) /\ free > 0)
    /\ IF tasks[o] # {} THEN step' = [step EXCEPT ![o] = "wait"] /\ UNCHANGED result
       ELSE Finish(o, IF next_index[o] < Len(addrs[o]) THEN "ResourceLimit" ELSE "TargetUnavailable")
    /\ UNCHANGED <<rules, target, looked_up, addrs, next_index, tasks, failed, free>>

(* join_next_connect_task: a candidate fails or is the winner; its permit    *)
(* goes back when it is joined.                                              *)
CandidateFails(o, i) ==
    /\ step[o] = "wait" /\ i \in tasks[o]
    /\ tasks' = [tasks EXCEPT ![o] = @ \ {i}] /\ free' = free + 1
    /\ failed' = [failed EXCEPT ![o] = @ \cup {i}]
    /\ step' = [step EXCEPT ![o] = "spawn"]
    /\ UNCHANGED <<rules, target, looked_up, addrs, next_index, result>>

CandidateWins(o, i) ==
    /\ step[o] = "wait" /\ i \in tasks[o]
    /\ tasks' = [tasks EXCEPT ![o] = @ \ {i}] /\ free' = free + 1
    /\ step' = [step EXCEPT ![o] = "abort"] /\ result' = [result EXCEPT ![o] = "connected"]
    /\ UNCHANGED <<rules, target, looked_up, addrs, next_index, failed>>

(* Every other candidate is aborted and joined before the dial returns. *)
abort_connect_tasks(o) ==
    /\ step[o] = "abort"
    /\ free' = free + Cardinality(tasks[o]) /\ tasks' = [tasks EXCEPT ![o] = {}]
    /\ step' = [step EXCEPT ![o] = "done"]
    /\ UNCHANGED <<rules, target, looked_up, addrs, next_index, failed, result>>

DeadlineMutant(o) ==
    /\ step[o] \in {"resolve", "spawn"}
    /\ IF step[o] = "resolve" THEN Finish(o, "TargetTimeout")
       ELSE step' = [step EXCEPT ![o] = "abort"] /\ result' = [result EXCEPT ![o] = "TargetTimeout"]
    /\ UNCHANGED <<rules, target, looked_up, addrs, next_index, tasks, failed, free>>

(* The deadline covers resolution and every connect wait. *)
Deadline(o) ==
    /\ step[o] \in {"resolve", "spawn", "wait"}
    /\ IF step[o] = "resolve" THEN Finish(o, "TargetTimeout")
       ELSE step' = [step EXCEPT ![o] = "abort"] /\ result' = [result EXCEPT ![o] = "TargetTimeout"]
    /\ UNCHANGED <<rules, target, looked_up, addrs, next_index, tasks, failed, free>>

(* wait_for_open_task drops the dial on shutdown or cancellation: the        *)
(* candidates are aborted and their permits released with the task set.      *)
DropDial(o) ==
    /\ step[o] \in {"resolve", "wait", "abort"}
    /\ free' = free + Cardinality(tasks[o]) /\ tasks' = [tasks EXCEPT ![o] = {}]
    /\ Finish(o, "dropped")
    /\ UNCHANGED <<rules, target, looked_up, addrs, next_index, failed>>

DialStep(o) ==
    \/ Resolve(o) \/ SpawnConnect(o) \/ SpawnEnds(o) \/ abort_connect_tasks(o) \/ Deadline(o)

DialNext ==
    \E o \in Opens :
        \/ \E t \in Targets : Start(o, t)
        \/ DialStep(o) \/ DropDial(o)
        \/ \E i \in tasks[o] : CandidateFails(o, i) \/ CandidateWins(o, i)

----------------------------------------------------------------------------
(* Well-formed states.                                                       *)
DialTypeOK ==
    /\ \A o \in Opens :
          /\ step[o] \in {"new", "resolve", "spawn", "wait", "abort", "done"}
          /\ next_index[o] \in 0..Len(addrs[o])
          /\ tasks[o] \cup failed[o] \subseteq 1..next_index[o]
    /\ free \in 0..OPEN_DIAL_LIMIT

Connecting == Cardinality(UNION {{<<o, i>> : i \in tasks[o]} : o \in Opens})

(* The dial limiter is exact: every permit is either free or held by one     *)
(* candidate connection, and a dial that has returned holds none, whichever  *)
(* of winner, failure, deadline and cancellation ended it.                   *)
DialPermitsExact ==
    /\ free + Connecting = OPEN_DIAL_LIMIT
    /\ \A o \in Opens : step[o] = "done" => tasks[o] = {}

Dialed(o) == {addrs[o][i] : i \in 1..next_index[o]}

(* The network's view: an address and every IPv6 form that delivers to it.   *)
Segments(o) == <<o[1] * 256 + o[2], o[3] * 256 + o[4]>>
ReachesV4(o) ==
    {V4(o), V6(<<0, 0, 0, 0, 0, 65535>> \o Segments(o)), V6(<<100, 65435, 0, 0, 0, 0>> \o Segments(o)),
     V6(<<0, 0, 0, 0, 0, 0>> \o Segments(o)), V6(<<8194>> \o Segments(o) \o <<0, 0, 0, 0, 0>>)}

(* Whatever the policy says and DNS answers, no candidate connection goes to *)
(* a cloud metadata service, under any of its IPv6 spellings.                *)
MetadataNeverDialed ==
    \A o \in Opens : Dialed(o) \cap UNION {ReachesV4(m) : m \in metadata_ipv4} = {}

(* The startup warning is complete: if any connection to a private address   *)
(* is possible under a policy, has_unrestricted_private_allow reports it.    *)
PrivateDialsWarned ==
    (\E o \in Opens : \E ip \in Dialed(o) : is_private(ip)) => has_unrestricted_private_allow(rules)

(* A denial before resolution is a denial after it: no answer DNS could give *)
(* would have allowed the target, so refusing early loses nothing.           *)
PreResolveSound ==
    \A o \in Opens :
        (step[o] # "new" /\ denied_without_resolution(rules, Context(target[o], {})))
            => \A a \in Answers \ {<<>>} :
                  evaluate(rules, Context(target[o], IF IsDomain(target[o]) THEN ToSet(a) ELSE {}))
                     = "Deny"

(* No DNS oracle: the server resolves a name only if some allow rule could   *)
(* match it, so a policy that denies it answers without a query.             *)
LookupNeedsAllow ==
    \A o \in Opens : looked_up[o] =>
        \E i \in DOMAIN rules :
            rules[i].action = "Allow" /\ matches_fixed_predicates(rules[i], Context(target[o], {}))

(* "Target unavailable" after the connect phase means every address was      *)
(* tried and failed; running out of dial permits is reported as such.        *)
UnavailableMeansTried ==
    \A o \in Opens : result[o] = "TargetUnavailable" => failed[o] = DOMAIN addrs[o]

(* Every dial returns: the deadline bounds resolution, the wait for a permit *)
(* holder and every candidate.                                               *)
DialReturns == \A o \in Opens : (step[o] = "resolve") ~> (step[o] = "done")

DialFairness == \A o \in Opens : WF_dialVars(DialStep(o))

DialSpec == DialInit /\ [][DialNext]_dialVars /\ DialFairness
=============================================================================

-------------------------- MODULE MCServerSession ---------------------------
(* Instances of ServerSession for TLC: values the configurations share.    *)
EXTENDS ServerSession

(* Every optional timeout is configured, as in the shipped configuration.  *)
AllTimeouts == {"connect", "halfClose", "carrierWrite", "taskShutdown"}

(* The deadlines that bound a session's end; half-closed flows may linger.  *)
Deadlines == AllTimeouts \ {"halfClose"}

(* Everything that may happen to a session from outside.                   *)
AnyEnvironment == {"stalled", "broken", "stop", "end", "control"}
=============================================================================

----------------------------- MODULE MCAlerting -----------------------------
(* One rule over one host, which may run an agent or be probed; an alert   *)
(* for load that must last a tick, one for the host's absence at once.     *)
EXTENDS Alerting

CONSTANTS h1, r1

MCShapes == {
    [metric |-> "load",    hosts |-> {},   hold |-> 1, critical |-> FALSE, enabled |-> TRUE],
    [metric |-> "offline", hosts |-> {h1}, hold |-> 0, critical |-> TRUE,  enabled |-> TRUE]}
=============================================================================

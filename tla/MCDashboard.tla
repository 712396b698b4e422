---------------------------- MODULE MCDashboard -----------------------------
(* Two hosts, in the order of their tabs.                                  *)
EXTENDS Dashboard

MCHosts == 1 .. 2
=============================================================================

---------------------------- MODULE MCConfigStore ---------------------------
(* A small hub's settings for TLC.                                         *)
EXTENDS ConfigStore, TLC

CONSTANTS h1, h2, main

MCHandlers == {h1, h2}

Set(k, v) == [NoPatch EXCEPT ![k] = v]

(* A privileged port.                                                      *)
MCRefused == {2}

(* Patches as the Settings page sends them, a refused port, and a refused  *)
(* PIN after a port, which is one the hub is not given.                    *)
MCBodies == {Set("port", 1), Set("port", 2), Set("port", 0), Set("port", Invalid), Set("token", 1),
             Set("layout", 1), Set("legacy", 1),
             [Set("port", 2) EXCEPT !["pin"] = Invalid]}

(* Two independent settings.                                               *)
MCTwoSettings == {Set("pin", 1), Set("layout", 1)}
=============================================================================

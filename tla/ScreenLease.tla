----------------------------- MODULE ScreenLease ----------------------------
(***************************************************************************)
(* What the kiosk promises whoever watches it: while a widget holds the    *)
(* screen, nothing covers it.  The hold is taken with the screen in view,  *)
(* and only a screen that nobody holds may go dark.                        *)
(***************************************************************************)
VARIABLES
    held,   \* BOOLEAN: a widget asked to keep the screen awake
    dark    \* BOOLEAN: the screensaver covers the page

vars == <<held, dark>>

Init == held = FALSE /\ dark = FALSE

Take    == ~held /\ held' = TRUE /\ dark' = FALSE
Release == held /\ held' = FALSE /\ UNCHANGED dark
Darken  == ~held /\ ~dark /\ dark' = TRUE /\ UNCHANGED held
Lighten == dark /\ dark' = FALSE /\ UNCHANGED held

Next == Take \/ Release \/ Darken \/ Lighten

Spec == Init /\ [][Next]_vars
=============================================================================

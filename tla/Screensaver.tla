----------------------------- MODULE Screensaver ----------------------------
(***************************************************************************)
(* The dashboard's screensaver: the idle timer, activation and dismissal,  *)
(* the commands that power the panel off and on, and the hold that a       *)
(* widget takes with Michka.keepAwake.  It is composed with the player,    *)
(* the widget that takes the hold, in Player.                              *)
(*                                                                         *)
(* Time passes in ticks, a timeout is a number of them.  A timer that is   *)
(* due may fire late.  The page starts with its settings loaded.           *)
(***************************************************************************)
EXTENDS Integers

CONSTANTS
    Modes,      \* the values of the setting ssMode, "off" among them
    Timeouts,   \* the values of the setting ssTimeout, in ticks
    MaxQuiet    \* where the count of ticks without input saturates

NoTimer == -1

ASSUME SaverAssumption ==
    /\ "off" \in Modes
    /\ Timeouts \subseteq Nat \ {0} /\ Timeouts # {}
    /\ MaxQuiet \in Nat
    /\ \A t \in Timeouts : t <= MaxQuiet

VARIABLES
    mode,        \* settings.ssMode
    ssTimeout,   \* settings.ssTimeout
    ssActive,    \* the saver covers the page
    fresh,       \* it has done so for less than 600 ms
    timer,       \* ticks until ssIdleTimer is due, or NoTimer
    ssKeepAwake, \* a widget holds the screen
    powered,     \* the last command to the panel was not "off"
    quiet        \* ticks since the last input (history)

settings == <<mode, ssTimeout>>
saverVars == <<mode, ssTimeout, ssActive, fresh, timer, ssKeepAwake, powered, quiet>>

SaverInit ==
    /\ mode \in Modes
    /\ ssTimeout \in Timeouts
    /\ timer = IF mode = "off" THEN NoTimer ELSE ssTimeout
    /\ ssActive = FALSE /\ fresh = FALSE /\ ssKeepAwake = FALSE
    /\ powered = TRUE /\ quiet = 0

(* Mutants: the panel is left off; input does not put off a timer that     *)
(* runs; a hold is not heeded; a held timer is not armed again; the end of *)
(* a hold is forgotten.                                                    *)
DismissOnly == ssActive' = FALSE /\ fresh' = FALSE /\ powered' = powered

ApplyOnce ==
    /\ ssActive' = FALSE /\ fresh' = FALSE
    /\ powered' = (powered \/ (ssActive /\ mode' = "sleep"))
    /\ timer' = IF mode' = "off" THEN NoTimer
                ELSE IF timer > 0 THEN timer ELSE ssTimeout'

Cover ==
    /\ ssActive' = TRUE /\ fresh' = TRUE
    /\ timer' = NoTimer
    /\ powered' = (powered /\ mode # "sleep")

ActivateHeld ==
    /\ ~ssActive
    /\ UNCHANGED <<settings, ssKeepAwake>>
    /\ IF mode = "off" THEN UNCHANGED <<ssActive, fresh, timer, powered>> ELSE Cover

ActivateUnarmed ==
    /\ ~ssActive
    /\ UNCHANGED <<settings, ssKeepAwake>>
    /\ \/ mode = "off" /\ UNCHANGED <<ssActive, fresh, timer, powered>>
       \/ mode # "off" /\ ssKeepAwake /\ timer' = NoTimer /\ UNCHANGED <<ssActive, fresh, powered>>
       \/ mode # "off" /\ ~ssKeepAwake /\ Cover

KeepHold == UNCHANGED saverVars

(* ssDeactivate: a panel that was sent to sleep is woken.                  *)
ssDeactivate ==
    /\ ssActive' = FALSE /\ fresh' = FALSE
    /\ powered' = (powered \/ (ssActive /\ mode' = "sleep"))

(* applyScreensaver: dismiss, and arm the timer anew.                      *)
applyScreensaver ==
    /\ ssDeactivate
    /\ timer' = IF mode' = "off" THEN NoTimer ELSE ssTimeout'

(* An input on the page, which nothing covers.                             *)
Used == ~ssActive /\ applyScreensaver /\ quiet' = 0

Touch == UNCHANGED <<settings, ssKeepAwake>> /\ Used

(* Input on the saver dismisses it, unless it is the one that raised it.   *)
ssOnActivity ==
    /\ ssActive
    /\ quiet' = 0
    /\ UNCHANGED <<settings, ssKeepAwake>>
    /\ \/ fresh /\ UNCHANGED <<ssActive, fresh, timer, powered>>
       \/ ~fresh /\ applyScreensaver

(* The saver comes up, unless it is off or a widget holds the screen.      *)
ssActivate ==
    /\ ~ssActive
    /\ UNCHANGED <<settings, ssKeepAwake>>
    /\ \/ /\ mode = "off"
          /\ UNCHANGED <<ssActive, fresh, timer, powered>>
       \/ mode # "off" /\ ssKeepAwake /\ applyScreensaver
       \/ /\ mode # "off" /\ ~ssKeepAwake
          /\ ssActive' = TRUE /\ fresh' = TRUE
          /\ timer' = NoTimer
          /\ powered' = (powered /\ mode # "sleep")

TimerFires == timer = 0 /\ ssActivate /\ UNCHANGED quiet

(* The preview button: its click is input, too.                            *)
Preview == ssActivate /\ quiet' = 0

(* The 600 ms after the activation are over.                               *)
Settle ==
    /\ fresh
    /\ fresh' = FALSE
    /\ UNCHANGED <<settings, ssActive, timer, ssKeepAwake, powered, quiet>>

(* The buttons and the slider of the settings page.                        *)
Choose(m, t) ==
    /\ mode' = m /\ ssTimeout' = t
    /\ Used
    /\ UNCHANGED ssKeepAwake

Tick ==
    /\ timer' = IF timer > 0 THEN timer - 1 ELSE timer
    /\ quiet' = IF quiet < MaxQuiet THEN quiet + 1 ELSE quiet
    /\ UNCHANGED <<settings, ssActive, fresh, ssKeepAwake, powered>>

(* Michka.keepAwake, called from a tap: taking the hold dismisses the      *)
(* saver and arms the timer, which the tap has done already.               *)
KeepAwake(on) ==
    /\ UNCHANGED settings
    /\ ssKeepAwake' = on
    /\ Used

(* The hold given up by a handler that is not input: the timer runs on.    *)
LetSleep ==
    /\ ssKeepAwake' = FALSE
    /\ UNCHANGED <<settings, ssActive, fresh, timer, powered, quiet>>

SaverSteps == ssOnActivity \/ TimerFires \/ Settle \/ Tick

(* The variables have their types.                                         *)
SaverTypeOK ==
    /\ mode \in Modes /\ ssTimeout \in Timeouts
    /\ ssActive \in BOOLEAN /\ fresh \in BOOLEAN /\ ssKeepAwake \in BOOLEAN
    /\ powered \in BOOLEAN
    /\ timer \in Int /\ timer >= NoTimer
    /\ quiet \in 0 .. MaxQuiet
=============================================================================

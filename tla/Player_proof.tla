---------------------------- MODULE Player_proof ----------------------------
(***************************************************************************)
(* The player and the screensaver under it, for every page size, every set *)
(* of modes and timeouts and any number of calls in flight.                *)
(***************************************************************************)
EXTENDS Player, TLAPS

(* The hold is taken and given up with the overlay, and no saver covers    *)
(* the overlay.                                                            *)
HeldWhileOpen == (ssKeepAwake <=> Open) /\ (Open => ~ssActive)

Inv == TypeOK /\ ClosedIsSilent /\ ShuffledIsRight /\ PanelHasItsButtons
       /\ SaverArmed /\ HeldWhileOpen

(* The two Booleans, for the solver that does the arithmetic.              *)
LEMMA Flags == \A x : x = TRUE \/ x = FALSE => x \in BOOLEAN
  BY Zenon

USE Flags, SaverAssumption, PlayerAssumption DEF SaverAssumption, PlayerAssumption

LEMMA InitInv == Init => Inv
<1> SUFFICES ASSUME Init PROVE Inv
  OBVIOUS
<1> USE DEF Init, SaverInit, Open
<1>1. SaverTypeOK
  BY DEF SaverTypeOK, NoTimer
<1>2. TypeOK
  BY <1>1 DEF TypeOK, Tabs, Screens
<1>3. ClosedIsSilent
  BY DEF ClosedIsSilent
<1>4. ShuffledIsRight
  BY DEF ShuffledIsRight, NoMedia
<1>5. PanelHasItsButtons
  BY DEF PanelHasItsButtons
<1>6. SaverArmed
  BY DEF SaverArmed, NoTimer
<1>7. HeldWhileOpen
  BY DEF HeldWhileOpen
<1> QED
  BY <1>2, <1>3, <1>4, <1>5, <1>6, <1>7 DEF Inv

(* What the saver's operations leave of its types and of its watch.        *)
LEMMA SaverKept ==
  ASSUME SaverTypeOK, SaverArmed,
         \/ Settings \/ Touch \/ SaverSteps
         \/ KeepAwake(TRUE) \/ KeepAwake(FALSE) \/ LetSleep \/ UNCHANGED saverVars
  PROVE  SaverTypeOK' /\ SaverArmed'
<1> USE DEF SaverTypeOK, SaverArmed, NoTimer, settings, applyScreensaver, ssDeactivate, Used
<1>1. CASE Preview
  BY <1>1 DEF Preview, ssActivate
<1>2. ASSUME NEW m \in Modes, NEW t \in Timeouts, Choose(m, t)
      PROVE  SaverTypeOK' /\ SaverArmed'
  BY <1>2 DEF Choose
<1>3. CASE Touch
  BY <1>3 DEF Touch
<1>4. CASE ssOnActivity
  BY <1>4 DEF ssOnActivity
<1>5. CASE TimerFires
  BY <1>5 DEF TimerFires, ssActivate
<1>6. CASE Settle
  BY <1>6 DEF Settle
<1>7. CASE Tick
  BY <1>7 DEF Tick
<1>8. CASE KeepAwake(TRUE)
  BY <1>8 DEF KeepAwake
<1>9. CASE KeepAwake(FALSE)
  BY <1>9 DEF KeepAwake
<1>10. CASE LetSleep
  BY <1>10 DEF LetSleep
<1>11. CASE UNCHANGED saverVars
  BY <1>11 DEF saverVars
<1> QED
  BY <1>1, <1>2, <1>3, <1>4, <1>5, <1>6, <1>7, <1>8, <1>9, <1>10, <1>11
     DEF SaverSteps, Settings
(* A tap finds the page uncovered and leaves it so; only the hold changes. *)
LEMMA TapKept ==
  /\ Touch => ~ssActive' /\ ssKeepAwake' = ssKeepAwake
  /\ KeepAwake(TRUE) => ~ssActive' /\ ssKeepAwake' = TRUE
  /\ KeepAwake(FALSE) => ~ssActive' /\ ssKeepAwake' = FALSE
  /\ LetSleep => ssActive' = ssActive /\ ssKeepAwake' = FALSE
  /\ UNCHANGED saverVars => ssActive' = ssActive /\ ssKeepAwake' = ssKeepAwake
BY DEF Touch, KeepAwake, LetSleep, saverVars, Used, applyScreensaver, ssDeactivate

(* The calls in flight stay a count of each kind.                          *)
LEMMA CallsKept ==
  ASSUME calls \in [Calls -> Int], NEW c \in Calls, NEW d \in Calls
  PROVE  /\ sent(c) \in [Calls -> Int]
         /\ answered(c) \in [Calls -> Int]
         /\ [answered(c) EXCEPT ![d] = @ + 1] \in [Calls -> Int]
BY DEF sent, answered

LEMMA CallKinds ==
  /\ probe \in Calls /\ login \in Calls /\ probeBody \in Calls /\ loginBody \in Calls
  /\ \A t \in Tabs : <<"list", t>> \in Calls /\ <<"random", t>> \in Calls
  /\ \A c \in {"list", "random"} \X Tabs : c \in Calls
BY DEF Calls, probe, login, probeBody, loginBody, Tabs

LEMMA TapInv ==
  ASSUME Inv, Taps
  PROVE  Inv'
<1>0. (Touch \/ KeepAwake(TRUE) \/ KeepAwake(FALSE)) => SaverTypeOK' /\ SaverArmed'
  BY SaverKept DEF Inv, TypeOK
<1> USE <1>0, TapKept, CallsKept, CallKinds
        DEF Inv, TypeOK, ClosedIsSilent, ShuffledIsRight, PanelHasItsButtons, HeldWhileOpen,
            Open, Media, NoMedia, Tabs, Screens, panel, cfg, choice
<1>1. CASE openPlayer
  <2>1. KeepAwake(TRUE) /\ UNCHANGED <<cfg, choice>>
    BY <1>1 DEF openPlayer
  <2>2. CASE ~url /\ showConnect(FALSE) /\ UNCHANGED calls
    BY <2>1, <2>2 DEF showConnect, stopMedia
  <2>3. CASE url /\ ~token /\ authProbe(calls) /\ UNCHANGED media
    BY <2>1, <2>3 DEF authProbe
  <2>4. CASE url /\ token /\ showPlayer(calls) /\ UNCHANGED media
    BY <2>1, <2>4 DEF showPlayer
  <2> QED
    BY <1>1, <2>2, <2>3, <2>4 DEF openPlayer
<1>2. CASE Close
  BY <1>2 DEF Close, closePlayer, stopMedia
<1>3. CASE Connect
  BY <1>3 DEF Connect, authProbe, probe
<1>4. CASE Cancel
  BY <1>4 DEF Cancel, showPlayer
<1>5. CASE SignIn
  BY <1>5 DEF SignIn, sent, login
<1>6. CASE Back
  BY <1>6 DEF Back, showConnect, stopMedia
<1>7. CASE Gear
  BY <1>7 DEF Gear, showConnect, stopMedia
<1>8. CASE TurnPage
  BY <1>8 DEF TurnPage, loadList, sent
<1>9. CASE onSearch
  BY <1>9 DEF onSearch
<1>10. CASE togglePlay
  BY <1>10 DEF togglePlay, playRow, playItem, playEntry
<1>11. CASE Shuffle
  BY <1>11 DEF Shuffle, shuffle, sent
<1>12. ASSUME NEW t \in Tabs, setTab(t) PROVE Inv'
  BY <1>12 DEF setTab, loadList, sent
<1>13. ASSUME NEW i \in 0 .. PageSize - 1, playRow(i) PROVE Inv'
  BY <1>13 DEF playRow, playItem, playEntry
<1>14. ASSUME NEW d \in {-1, 1}, Skip(d) PROVE Inv'
  BY <1>14 DEF Skip, skip, playItem, playEntry
<1> QED
  BY <1>1, <1>2, <1>3, <1>4, <1>5, <1>6, <1>7, <1>8, <1>9, <1>10, <1>11, <1>12, <1>13, <1>14 DEF Taps

(* The answers, in whatever order they come.                               *)
LEMMA AnswerInv ==
  ASSUME Inv, Answers, UNCHANGED saverVars
  PROVE  Inv'
<1>0. SaverTypeOK' /\ SaverArmed'
  BY SaverKept DEF Inv, TypeOK
<1> USE <1>0, TapKept, CallsKept, CallKinds
        DEF Inv, TypeOK, ClosedIsSilent, ShuffledIsRight, PanelHasItsButtons, HeldWhileOpen,
            Open, Media, NoMedia, Tabs, Screens, panel, cfg, choice
<1>1. CASE ProbeGranted
  BY <1>1 DEF ProbeGranted
<1>2. CASE ProbeAccepted
  BY <1>2 DEF ProbeAccepted, showPlayer, answered
<1>3. CASE ProbeDenied
  BY <1>3 DEF ProbeDenied, showLogin
<1>4. ASSUME NEW c \in {probe, probeBody}, ProbeFailed(c) PROVE Inv'
  BY <1>4 DEF ProbeFailed, showConnect, stopMedia
<1>5. CASE LoginGranted
  BY <1>5 DEF LoginGranted, enableButton
<1>6. CASE LoginAccepted
  BY <1>6 DEF LoginAccepted, showPlayer, answered
<1>7. CASE LoginFailed
  BY <1>7 DEF LoginFailed, enableButton
<1>8. CASE LoginSpoiled
  BY <1>8 DEF LoginSpoiled
<1>9. ASSUME NEW t \in Tabs, NEW n \in 0 .. PageSize, ListLoaded(t, n) PROVE Inv'
  <2>1. list' \in [kind : Tabs, n : 0 .. PageSize]
    BY <1>9 DEF ListLoaded
  <2>2. /\ UNCHANGED <<panel, cfg, tab, idx, lastWasShuffle, searchDue, media, saverVars>>
        /\ calls' = answered(<<"list", t>>)
    BY <1>9 DEF ListLoaded
  <2>3. answered(<<"list", t>>) \in [Calls -> Int]
    BY <1>9
  <2>4. TypeOK'
    <3>1. media' \in Media \cup {NoMedia} /\ idx' \in Int /\ idx' >= -1
      BY <2>2
    <3>2. screen' \in Screens /\ tab' \in Tabs /\ calls' \in [Calls -> Int]
      BY <2>2, <2>3
    <3>3. /\ gear' \in BOOLEAN /\ canCancel' \in BOOLEAN /\ busy' \in BOOLEAN
          /\ url' \in BOOLEAN /\ token' \in BOOLEAN
          /\ lastWasShuffle' \in BOOLEAN /\ searchDue' \in BOOLEAN
      BY <2>2
    <3> QED
      BY <2>1, <3>1, <3>2, <3>3
  <2>5. ClosedIsSilent' /\ HeldWhileOpen' /\ ShuffledIsRight' /\ PanelHasItsButtons'
    BY <2>2
  <2> QED
    BY <2>4, <2>5
<1>10. ASSUME NEW t \in Tabs, RandomPicked(t) PROVE Inv'
  <2>1. media' \in Media \cup {NoMedia} /\ (media'.shuffled => media'.item = media'.kind)
    BY <1>10 DEF RandomPicked, playEntry
  <2>2. ~Open => media' = NoMedia
    BY <1>10 DEF RandomPicked, playEntry
  <2>3. UNCHANGED <<panel, cfg, tab, list, searchDue, saverVars>>
        /\ idx' = -1 /\ lastWasShuffle' = TRUE /\ calls' = answered(<<"random", t>>)
    BY <1>10 DEF RandomPicked
  <2>4. answered(<<"random", t>>) \in [Calls -> Int]
    BY <1>10
  <2>5. TypeOK'
    <3>1. idx' \in Int /\ idx' >= -1 /\ list' \in [kind : Tabs, n : 0 .. PageSize]
      BY <2>3
    <3>2. screen' \in Screens /\ tab' \in Tabs /\ calls' \in [Calls -> Int]
      BY <2>3, <2>4
    <3>3. /\ gear' \in BOOLEAN /\ canCancel' \in BOOLEAN /\ busy' \in BOOLEAN
          /\ url' \in BOOLEAN /\ token' \in BOOLEAN
          /\ lastWasShuffle' \in BOOLEAN /\ searchDue' \in BOOLEAN
      BY <2>3
    <3> QED
      BY <2>1, <3>1, <3>2, <3>3
  <2>6. ClosedIsSilent' /\ HeldWhileOpen'
    BY <2>2, <2>3
  <2>7. ShuffledIsRight' /\ PanelHasItsButtons'
    BY <2>1, <2>3
  <2> QED
    BY <2>5, <2>6, <2>7
<1>11. ASSUME NEW c \in {"list", "random"} \X Tabs, CallFailed(c) PROVE Inv'
  BY <1>11 DEF CallFailed
<1>12. ASSUME NEW c \in {"list", "random"} \X Tabs, CallRefused(c) PROVE Inv'
  BY <1>12 DEF CallRefused, onUnauthorized, authProbe
<1> QED
  BY <1>1, <1>2, <1>3, <1>4, <1>5, <1>6, <1>7, <1>8, <1>9, <1>10, <1>11, <1>12
     DEF Answers, ProbeHeaders

(* The steps that are neither a tap nor an answer.                         *)
LEMMA OtherInv ==
  ASSUME Inv, Unmount \/ ((Search \/ Ended) /\ UNCHANGED saverVars)
  PROVE  Inv'
<1>0. SaverTypeOK' /\ SaverArmed'
  BY SaverKept DEF Inv, TypeOK, Unmount
<1> USE <1>0, TapKept, CallsKept, CallKinds
        DEF Inv, TypeOK, ClosedIsSilent, ShuffledIsRight, PanelHasItsButtons, HeldWhileOpen,
            Open, Media, NoMedia, Tabs, Screens, panel, cfg, choice
<1>1. CASE Unmount
  BY <1>1 DEF Unmount, closePlayer, stopMedia
<1>2. CASE Search /\ UNCHANGED saverVars
  <2>1. UNCHANGED <<panel, cfg, media, tab, list, idx, lastWasShuffle>> /\ searchDue' = FALSE
    BY <1>2 DEF Search, loadList
  <2>2. calls' = sent(<<"list", tab>>) \/ UNCHANGED calls
    BY <1>2 DEF Search, loadList
  <2> QED
    BY <1>2, <2>1, <2>2
<1>3. CASE Ended /\ UNCHANGED saverVars
  <2>1. CASE shuffle
    <3>1. UNCHANGED <<panel, cfg, choice, media>> /\ calls' = sent(<<"random", tab>>)
      BY <2>1 DEF shuffle
    <3>2. sent(<<"random", tab>>) \in [Calls -> Int]
      OBVIOUS
    <3>3. TypeOK'
      <4>1. /\ media' \in Media \cup {NoMedia} /\ idx' \in Int /\ idx' >= -1
            /\ list' \in [kind : Tabs, n : 0 .. PageSize]
        BY <3>1
      <4>2. screen' \in Screens /\ tab' \in Tabs /\ calls' \in [Calls -> Int]
        BY <3>1, <3>2
      <4>3. /\ gear' \in BOOLEAN /\ canCancel' \in BOOLEAN /\ busy' \in BOOLEAN
            /\ url' \in BOOLEAN /\ token' \in BOOLEAN
            /\ lastWasShuffle' \in BOOLEAN /\ searchDue' \in BOOLEAN
        BY <3>1
      <4> QED
        BY <4>1, <4>2, <4>3
    <3>4. ClosedIsSilent' /\ HeldWhileOpen' /\ ShuffledIsRight' /\ PanelHasItsButtons'
      BY <1>3, <3>1
    <3> QED
      BY <3>3, <3>4
  <2>2. CASE skip(1)
    BY <1>3, <2>2 DEF Ended, skip, playItem, playEntry
  <2> QED
    BY <1>3, <2>1, <2>2 DEF Ended
<1> QED
  BY <1>1, <1>2, <1>3

(* No answer touches the saver.                                            *)
LEMMA AnswersKeepSaver == Answers => UNCHANGED saverVars
BY DEF Answers, ProbeHeaders, ProbeGranted, ProbeAccepted, ProbeDenied, ProbeFailed,
   LoginGranted, LoginAccepted, LoginFailed, LoginSpoiled, ListLoaded, RandomPicked,
   CallFailed, CallRefused

LEMMA NextInv == Inv /\ [Next]_vars => Inv'
<1> SUFFICES ASSUME Inv, [Next]_vars PROVE Inv'
  OBVIOUS
<1>1. CASE (Settings \/ Touch \/ SaverSteps) /\ UNCHANGED playerVars
  <2>1. SaverTypeOK' /\ SaverArmed'
    BY <1>1, SaverKept DEF Inv, TypeOK
  <2>2. TypeOK' /\ ShuffledIsRight' /\ PanelHasItsButtons'
    BY <1>1, <2>1 DEF Inv, TypeOK, ShuffledIsRight, PanelHasItsButtons, playerVars, panel,
                      cfg, choice
  <2>3. ssKeepAwake' = ssKeepAwake /\ (Open => ~ssActive')
    BY <1>1 DEF Inv, HeldWhileOpen, Settings, SaverSteps, Preview, Choose, Touch, ssOnActivity,
                TimerFires, ssActivate, Settle, Tick, Used, applyScreensaver, ssDeactivate
  <2> QED
    BY <1>1, <2>1, <2>2, <2>3 DEF Inv, ClosedIsSilent, HeldWhileOpen, Open, playerVars, panel
<1>2. CASE Taps
  BY <1>2, TapInv
<1>3. CASE Answers
  BY <1>3, AnswerInv, AnswersKeepSaver DEF saverVars
<1>4. CASE Unmount \/ Search \/ Ended
  BY <1>4, OtherInv DEF Search, Ended
<1>5. CASE UNCHANGED vars
  <2>1. SaverTypeOK' /\ SaverArmed'
    BY <1>5, SaverKept DEF Inv, TypeOK, vars
  <2> QED
    BY <1>5, <2>1 DEF Inv, TypeOK, ClosedIsSilent, ShuffledIsRight, PanelHasItsButtons,
       HeldWhileOpen, Open, vars, saverVars, playerVars, panel, cfg, choice
<1> QED
  BY <1>1, <1>2, <1>3, <1>4, <1>5 DEF Next

LEMMA Invariance == Spec => []Inv
BY InitInv, NextInv, PTL DEF Spec

(* A player that is closed is silent and holds nothing (closePlayer and    *)
(* every answer that may come after it).                                   *)
THEOREM PlayerClosed == Spec => []ClosedIsSilent
BY Invariance, PTL DEF Inv

(* The variables of the player and of the screensaver have their types.    *)
THEOREM PlayerTypes == Spec => []TypeOK
BY Invariance, PTL DEF Inv

(* A random pick plays in the player it was asked for (shuffle).           *)
THEOREM PlayerShuffles == Spec => []ShuffledIsRight
BY Invariance, PTL DEF Inv

(* The gear and Cancel are offered where they lead somewhere.              *)
THEOREM PlayerButtons == Spec => []PanelHasItsButtons
BY Invariance, PTL DEF Inv

(* The idle watch never ends while the saver is on.                        *)
THEOREM SaverWatches == Spec => []SaverArmed
BY Invariance, PTL DEF Inv

(* What a tap or the page does to the lease: it is taken with the overlay, *)
(* and given up with it.                                                   *)
LEMMA LeaseStep == Inv /\ [Next]_vars => [Lease!Next]_(Lease!vars)
<1> SUFFICES ASSUME Inv, [Next]_vars PROVE [Lease!Next]_(Lease!vars)
  OBVIOUS
<1> USE DEF Lease!Next, Lease!Take, Lease!Release, Lease!Darken, Lease!Lighten, Lease!vars,
            Open, Inv, HeldWhileOpen
<1>1. CASE (Settings \/ Touch \/ SaverSteps) /\ UNCHANGED playerVars
  <2>1. screen' = screen
    BY <1>1 DEF playerVars, panel
  <2>2. ssActive' \in BOOLEAN /\ ssActive \in BOOLEAN
    BY <1>1, SaverKept DEF TypeOK, SaverTypeOK
  <2>3. ~ssActive /\ ssActive' => ~Open
    BY <1>1 DEF Settings, SaverSteps, Preview, Choose, Touch, ssOnActivity,
                TimerFires, ssActivate, Settle, Tick, Used, applyScreensaver, ssDeactivate
  <2> QED
    BY <2>1, <2>2, <2>3
<1>2. CASE Taps
  <2>1. ~ssActive' /\ ~ssActive
    BY <1>2 DEF Taps, openPlayer, Close, Connect, Cancel, SignIn, Back, Gear, TurnPage, onSearch,
       togglePlay, Shuffle, setTab, playRow, Skip, Touch, KeepAwake, Used, applyScreensaver,
       ssDeactivate
  <2>2. ssActive' = FALSE /\ ssActive = FALSE
    BY <2>1, <1>2, TapInv DEF TypeOK, SaverTypeOK
  <2> QED
    BY <2>2
<1>3. CASE Answers \/ Search \/ Ended
  <2>1. ssActive' = ssActive
    BY <1>3, AnswersKeepSaver DEF Search, Ended, saverVars
  <2>2. Open' <=> Open
    BY <1>3 DEF Answers, ProbeHeaders, ProbeGranted, ProbeAccepted, ProbeDenied, ProbeFailed,
       LoginGranted, LoginAccepted, LoginFailed, LoginSpoiled, ListLoaded, RandomPicked,
       CallFailed, CallRefused, Search, Ended, showPlayer, showLogin, showConnect, onUnauthorized, authProbe, loadList, shuffle, skip,
       panel
  <2> QED
    BY <2>1, <2>2
<1>4. CASE Unmount
  BY <1>4, TapKept DEF Unmount, closePlayer
<1>5. CASE UNCHANGED vars
  BY <1>5 DEF vars, saverVars, playerVars, panel
<1> QED
  BY <1>1, <1>2, <1>3, <1>4, <1>5 DEF Next

(* The player and the saver keep the promise of the lease.                 *)
THEOREM PlayerLeases == Spec => ScreenIsLeased
<1>1. Init => Lease!Init
  BY DEF Init, SaverInit, Lease!Init, Open
<1> QED
  BY <1>1, LeaseStep, Invariance, PTL DEF Spec, ScreenIsLeased, Lease!Spec

---------------------------------------------------------------------------
(* The saver alone: the panel is dark only under a saver that darkened it, *)
(* and an armed timer counts from the last input, or from later.           *)
DarkOK == powered \/ (ssActive /\ mode = "sleep")
CountOK == ~ssActive /\ timer >= 0 => quiet + timer >= ssTimeout

SaverInv == SaverTypeOK /\ DarkOK /\ CountOK

(* What a step of the whole may do to the saver.                           *)
SaverStep ==
    \/ Settings \/ Touch \/ SaverSteps
    \/ KeepAwake(TRUE) \/ KeepAwake(FALSE) \/ LetSleep \/ UNCHANGED saverVars

LEMMA NextIsSaverStep == [Next]_vars => SaverStep
<1>1. Taps => SaverStep
  BY DEF Taps, openPlayer, Close, Connect, Cancel, SignIn, Back, Gear, TurnPage, onSearch,
     togglePlay, Shuffle, setTab, playRow, Skip, SaverStep
<1>2. Answers => UNCHANGED saverVars
  BY AnswersKeepSaver
<1>3. Unmount \/ Search \/ Ended => SaverStep
  BY DEF Unmount, Search, Ended, SaverStep, saverVars
<1> QED
  BY <1>1, <1>2, <1>3 DEF Next, SaverStep, vars

(* Each operation of the saver, and which of them may cover the page.      *)
LEMMA SaverStepInv ==
  ASSUME SaverInv, SaverArmed, SaverStep
  PROVE  /\ SaverInv'
         /\ ~ssActive /\ ssActive' /\ quiet' # 0 => quiet >= ssTimeout
<1>0. SaverTypeOK'
  BY SaverKept DEF SaverInv, SaverStep
<1> USE <1>0 DEF SaverInv, SaverTypeOK, DarkOK, CountOK, NoTimer, settings, applyScreensaver,
                 ssDeactivate, Used
<1> DEFINE Goal == /\ DarkOK' /\ CountOK'
                   /\ ~ssActive /\ ssActive' /\ quiet' # 0 => quiet >= ssTimeout
<1>1. CASE Preview
  BY <1>1 DEF Preview, ssActivate
<1>2. ASSUME NEW m \in Modes, NEW t \in Timeouts, Choose(m, t) PROVE Goal
  BY <1>2 DEF Choose
<1>3. CASE Touch
  BY <1>3 DEF Touch
<1>4. CASE ssOnActivity
  BY <1>4 DEF ssOnActivity
<1>5. CASE TimerFires
  <2>1. /\ timer = 0 /\ ~ssActive /\ quiet \in Nat /\ quiet' = quiet
        /\ quiet >= ssTimeout /\ ssTimeout' = ssTimeout /\ mode' = mode
    BY <1>5 DEF TimerFires, ssActivate
  <2>2. CASE mode = "off"
    BY <1>5, <2>1, <2>2 DEF TimerFires, ssActivate
  <2>3. CASE mode # "off" /\ ssKeepAwake
    BY <1>5, <2>1, <2>3 DEF TimerFires, ssActivate
  <2>4. CASE mode # "off" /\ ~ssKeepAwake
    BY <1>5, <2>1, <2>4 DEF TimerFires, ssActivate
  <2> QED
    BY <2>2, <2>3, <2>4
<1>6. CASE Settle
  BY <1>6 DEF Settle
<1>7. CASE Tick
  BY <1>7 DEF Tick
<1>8. CASE KeepAwake(TRUE) \/ KeepAwake(FALSE)
  BY <1>8 DEF KeepAwake
<1>9. CASE LetSleep
  BY <1>9 DEF LetSleep
<1>10. CASE UNCHANGED saverVars
  BY <1>10 DEF saverVars
<1>11. Goal
  BY <1>1, <1>2, <1>3, <1>4, <1>5, <1>6, <1>7, <1>8, <1>9, <1>10
     DEF SaverStep, SaverSteps, Settings
<1> QED
  BY <1>0, <1>11

LEMMA SaverInvariance == Spec => [](SaverInv /\ SaverArmed)
<1>1. Init => SaverInv
  BY InitInv DEF Init, SaverInit, SaverInv, DarkOK, CountOK, NoTimer, Inv, TypeOK
<1>2. SaverInv /\ SaverArmed /\ [Next]_vars => SaverInv'
  BY NextIsSaverStep, SaverStepInv
<1> QED
  BY <1>1, <1>2, Invariance, PTL DEF Spec, Inv

(* Whoever dismisses the saver wakes the panel (ssDeactivate).             *)
THEOREM PanelWakes == Spec => []PanelComesBack
<1>1. SaverInv => PanelComesBack
  BY DEF SaverInv, DarkOK, PanelComesBack
<1> QED
  BY <1>1, SaverInvariance, PTL

(* No saver comes up by itself before the whole timeout has passed since   *)
(* the last input (applyScreensaver arms the timer anew).                  *)
THEOREM SaverIsPatient == Spec => SaverNeedsQuiet
<1>1. SaverInv /\ SaverArmed /\ [Next]_vars =>
        [~ssActive /\ ssActive' /\ quiet' # 0 => quiet >= ssTimeout]_vars
  BY NextIsSaverStep, SaverStepInv
<1> QED
  BY <1>1, SaverInvariance, PTL DEF Spec, SaverNeedsQuiet
=============================================================================

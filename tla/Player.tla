------------------------------- MODULE Player -------------------------------
(***************************************************************************)
(* The NexusM music player, a widget that covers the whole page, over the  *)
(* dashboard's screensaver: its screens, its calls to the media server,    *)
(* whose answers come at any time and in any order, and what it plays.     *)
(*                                                                         *)
(* A call is known by its purpose and, for the two that depend on it, by   *)
(* the tab it was made from.  A probe and a sign-in are asked first, which *)
(* fetchT bounds with its timeout, and then read: fetchT cancels that      *)
(* timeout when the headers come, and nothing bounds the body.  The list   *)
(* of results is its length and the tab it was loaded for.  The two        *)
(* requests of a random video are one call.  A medium that is paused is a  *)
(* medium.                                                                 *)
(***************************************************************************)
EXTENDS Screensaver, Functions

CONSTANTS
    PageSize,   \* most results on a page
    MaxCalls    \* bound of the calls in flight

ASSUME PlayerAssumption == PageSize \in Nat \ {0} /\ MaxCalls \in Nat \ {0}

VARIABLES
    screen,         \* what the overlay shows, "closed" when there is none
    gear,           \* the settings gear is on the overlay
    canCancel,      \* the connect panel offers Cancel
    busy,           \* the login panel's button is disabled
    url, token,     \* cfg.url, cfg.token: whether each is set
    tab,            \* state.tab
    list,           \* state.items: [kind, n]
    idx,            \* state.idx
    lastWasShuffle,
    media,          \* what is loaded, or NoMedia
    searchDue,      \* the timer searchT is armed
    calls           \* calls in flight, counted by kind

Tabs     == {"music", "mv"}
Screens  == {"closed", "connect", "login", "probing", "player"}
NoMedia  == [item |-> "none", kind |-> "none", shuffled |-> FALSE]
Media    == [item : Tabs, kind : Tabs, shuffled : BOOLEAN]
Calls    == {"probe", "login"} \X {"asked", "read"} \cup {"list", "random"} \X Tabs
probe    == <<"probe", "asked">>
login    == <<"login", "asked">>
probeBody == <<"probe", "read">>
loginBody == <<"login", "read">>

cfg        == <<url, token>>
panel      == <<screen, gear, canCancel, busy>>
choice     == <<tab, list, idx, lastWasShuffle, searchDue>>
playerVars == <<panel, cfg, choice, media, calls>>
vars       == <<playerVars, saverVars>>

Open == screen # "closed"

(* Fewer than MaxCalls in flight.                                          *)
Room == FoldFunction(+, 0, calls) < MaxCalls

sent(c)     == [calls EXCEPT ![c] = @ + 1]
answered(c) == [calls EXCEPT ![c] = @ - 1]

stopMedia  == media' = NoMedia

(* The panels.  "mine" is what the handler leaves in flight besides.       *)
showConnect(cancel) ==
    /\ stopMedia
    /\ screen' = "connect" /\ gear' = FALSE /\ busy' = FALSE
    /\ canCancel' = (cancel /\ url /\ token)

showLogin ==
    /\ screen' = "login" /\ gear' = FALSE /\ busy' = FALSE /\ canCancel' = FALSE

authProbe(mine) ==
    /\ screen' = "probing" /\ gear' = FALSE /\ busy' = FALSE /\ canCancel' = FALSE
    /\ calls' = [mine EXCEPT ![probe] = @ + 1]

showPlayer(mine) ==
    /\ screen' = "player" /\ gear' = TRUE /\ busy' = FALSE /\ canCancel' = FALSE
    /\ calls' = [mine EXCEPT ![<<"list", tab>>] = @ + 1]

(* Mutants: only the player's own screen minds a refusal; the medium       *)
(* starts whatever shows.                                                  *)
RefusedInPlayer(c) ==
    /\ token' = FALSE /\ UNCHANGED url
    /\ \/ screen = "player" /\ authProbe(answered(c))
       \/ screen # "player" /\ calls' = answered(c) /\ UNCHANGED panel
    /\ UNCHANGED <<choice, media>>

PlayAnyway(item, kind, shuffled) ==
    media' = [item |-> item, kind |-> kind, shuffled |-> shuffled]

(* The token is dropped; what is open connects anew.                       *)
onUnauthorized(c) ==
    /\ token' = FALSE /\ UNCHANGED url
    /\ \/ Open /\ authProbe(answered(c))
       \/ ~Open /\ calls' = answered(c) /\ UNCHANGED panel
    /\ UNCHANGED <<choice, media>>

(* playEntry fails, before it touches the medium, unless the player shows. *)
playEntry(item, kind, shuffled) ==
    media' = IF screen = "player"
             THEN [item |-> item, kind |-> kind, shuffled |-> shuffled]
             ELSE media

playItem(i) ==
    /\ i \in 0 .. list.n - 1
    /\ idx' = i /\ lastWasShuffle' = FALSE
    /\ playEntry(list.kind, tab, FALSE)
    /\ UNCHANGED <<tab, list, searchDue>>

---------------------------------------------------------------------------
(* The overlay.                                                            *)

openPlayer ==
    /\ ~Open /\ Room
    /\ KeepAwake(TRUE)
    /\ \/ ~url /\ showConnect(FALSE) /\ UNCHANGED calls
       \/ url /\ ~token /\ authProbe(calls) /\ UNCHANGED media
       \/ url /\ token /\ showPlayer(calls) /\ UNCHANGED media
    /\ UNCHANGED <<cfg, choice>>

closePlayer ==
    /\ Open
    /\ stopMedia
    /\ screen' = "closed" /\ gear' = FALSE /\ canCancel' = FALSE /\ busy' = FALSE
    /\ UNCHANGED <<cfg, choice, calls>>

Close == closePlayer /\ KeepAwake(FALSE)

(* The page drops the widget's card: another host comes up, or the page    *)
(* is drawn anew.                                                          *)
Unmount == closePlayer /\ LetSleep

---------------------------------------------------------------------------
(* Taps on the panels.                                                     *)

Connect ==
    /\ screen = "connect" /\ Room /\ Touch
    /\ url' = TRUE /\ token' = FALSE
    /\ authProbe(calls)
    /\ UNCHANGED <<choice, media>>

Cancel ==
    /\ screen = "connect" /\ canCancel /\ Room /\ Touch
    /\ showPlayer(calls)
    /\ UNCHANGED <<cfg, choice, media>>

SignIn ==
    /\ screen = "login" /\ ~busy /\ Room /\ Touch
    /\ busy' = TRUE
    /\ calls' = sent(login)
    /\ UNCHANGED <<screen, gear, canCancel, cfg, choice, media>>

Back ==
    /\ screen = "login" /\ Touch
    /\ showConnect(TRUE)
    /\ UNCHANGED <<cfg, choice, calls>>

Gear ==
    /\ gear /\ Touch
    /\ showConnect(TRUE)
    /\ UNCHANGED <<cfg, choice, calls>>

---------------------------------------------------------------------------
(* The browser of the library.                                             *)

loadList(t) ==
    /\ calls' = sent(<<"list", t>>)
    /\ UNCHANGED <<panel, cfg, media>>

(* The pager; a page is not told from another.                             *)
TurnPage ==
    /\ screen = "player" /\ Room /\ Touch
    /\ loadList(tab)
    /\ UNCHANGED choice

setTab(t) ==
    /\ screen = "player" /\ tab # t /\ Room /\ Touch
    /\ tab' = t
    /\ loadList(t)
    /\ UNCHANGED <<list, idx, lastWasShuffle, searchDue>>

onSearch ==
    /\ screen = "player" /\ Touch
    /\ searchDue' = TRUE
    /\ UNCHANGED <<tab, list, idx, lastWasShuffle, panel, cfg, media, calls>>

(* 250 ms after the last key.                                              *)
Search ==
    /\ searchDue
    /\ searchDue' = FALSE
    /\ \/ screen = "player" /\ Room /\ loadList(tab)
       \/ screen # "player" /\ UNCHANGED <<panel, cfg, media, calls>>
    /\ UNCHANGED <<tab, list, idx, lastWasShuffle, saverVars>>

---------------------------------------------------------------------------
(* Playback.                                                               *)

playRow(i) ==
    /\ screen = "player" /\ Touch
    /\ playItem(i)
    /\ UNCHANGED <<panel, cfg, calls>>

(* Play, with nothing loaded, starts the first row.                        *)
togglePlay == media = NoMedia /\ playRow(0)

shuffle ==
    /\ Room
    /\ calls' = sent(<<"random", tab>>)
    /\ UNCHANGED <<panel, cfg, choice, media>>

skip(d) ==
    /\ \/ playItem(idx + d)
       \/ idx + d \notin 0 .. list.n - 1 /\ UNCHANGED <<choice, media>>
    /\ UNCHANGED <<panel, cfg, calls>>

Shuffle == screen = "player" /\ Touch /\ shuffle

Skip(d) == screen = "player" /\ Touch /\ skip(d)

(* An element that its screen took off the page does not play to the end.  *)
Ended ==
    /\ screen = "player" /\ media # NoMedia
    /\ IF lastWasShuffle THEN shuffle ELSE skip(1)
    /\ UNCHANGED saverVars

---------------------------------------------------------------------------
(* The server's answers, or the timeout of the call.                       *)

(* No PIN is set: the headers say so, the body holds the token.            *)
ProbeGranted ==
    /\ calls[probe] > 0
    /\ calls' = [answered(probe) EXCEPT ![probeBody] = @ + 1]
    /\ UNCHANGED <<panel, cfg, choice, media, saverVars>>

(* A token comes, or none.  It is kept though the player was closed        *)
(* meanwhile; only then there is no panel to show.                         *)
ProbeAccepted ==
    /\ calls[probeBody] > 0
    /\ token' \in BOOLEAN /\ UNCHANGED url
    /\ \/ Open /\ showPlayer(answered(probeBody))
       \/ ~Open /\ calls' = answered(probeBody) /\ UNCHANGED panel
    /\ UNCHANGED <<choice, media, saverVars>>

ProbeDenied ==
    /\ calls[probe] > 0
    /\ calls' = answered(probe)
    /\ IF Open THEN showLogin ELSE UNCHANGED panel
    /\ UNCHANGED <<cfg, choice, media, saverVars>>

(* Mutant: the panel is left as it is.                                     *)
ProbeForgotten(c) ==
    /\ calls[c] > 0
    /\ calls' = answered(c)
    /\ UNCHANGED <<panel, media, cfg, choice, saverVars>>

(* No server, another status, or a body that is no token.                  *)
ProbeFailed(c) ==
    /\ calls[c] > 0
    /\ calls' = answered(c)
    /\ IF Open THEN showConnect(FALSE) ELSE UNCHANGED <<panel, media>>
    /\ UNCHANGED <<cfg, choice, saverVars>>

(* The headers enable the button that made this call again; it may have    *)
(* gone with its panel, and the one that shows wait for another call.      *)
enableButton == busy' \in {FALSE} \cup (IF calls[login] > 1 THEN {busy} ELSE {})

LoginGranted ==
    /\ calls[login] > 0
    /\ calls' = [answered(login) EXCEPT ![loginBody] = @ + 1]
    /\ enableButton
    /\ UNCHANGED <<screen, gear, canCancel, cfg, choice, media, saverVars>>

LoginAccepted ==
    /\ calls[loginBody] > 0
    /\ token' \in BOOLEAN /\ UNCHANGED url
    /\ \/ Open /\ showPlayer(answered(loginBody))
       \/ ~Open /\ calls' = answered(loginBody) /\ UNCHANGED panel
    /\ UNCHANGED <<choice, media, saverVars>>

LoginFailed ==
    /\ calls[login] > 0
    /\ calls' = answered(login)
    /\ enableButton
    /\ UNCHANGED <<screen, gear, canCancel, cfg, choice, media, saverVars>>

(* The body is no token: the button, which may have been used again since, *)
(* is enabled once more.                                                   *)
LoginSpoiled ==
    /\ calls[loginBody] > 0
    /\ calls' = answered(loginBody)
    /\ busy' \in {FALSE, busy}
    /\ UNCHANGED <<screen, gear, canCancel, cfg, choice, media, saverVars>>

(* The answer is dropped when the tab is not the one it was asked for.     *)
ListLoaded(t, n) ==
    /\ calls[<<"list", t>>] > 0
    /\ calls' = answered(<<"list", t>>)
    /\ list' = IF tab = t THEN [kind |-> t, n |-> n] ELSE list
    /\ UNCHANGED <<panel, cfg, tab, idx, lastWasShuffle, searchDue, media, saverVars>>

(* Mutant: it plays under the tab that is chosen now.                      *)
PickedForTab(t) ==
    /\ calls[<<"random", t>>] > 0
    /\ calls' = answered(<<"random", t>>)
    /\ idx' = -1 /\ lastWasShuffle' = TRUE
    /\ playEntry(t, tab, TRUE)
    /\ UNCHANGED <<panel, cfg, tab, list, searchDue, saverVars>>

(* The random pick plays under the tab it was asked for.                   *)
RandomPicked(t) ==
    /\ calls[<<"random", t>>] > 0
    /\ calls' = answered(<<"random", t>>)
    /\ idx' = -1 /\ lastWasShuffle' = TRUE
    /\ playEntry(t, t, TRUE)
    /\ UNCHANGED <<panel, cfg, tab, list, searchDue, saverVars>>

(* A list or a random pick that fails, and one that is refused with 401.   *)
CallFailed(c) ==
    /\ calls[c] > 0
    /\ calls' = answered(c)
    /\ UNCHANGED <<panel, cfg, choice, media, saverVars>>

CallRefused(c) ==
    /\ calls[c] > 0
    /\ onUnauthorized(c)
    /\ UNCHANGED saverVars

---------------------------------------------------------------------------
Init ==
    /\ SaverInit
    /\ screen = "closed" /\ gear = FALSE /\ canCancel = FALSE /\ busy = FALSE
    /\ url \in BOOLEAN /\ token \in BOOLEAN /\ (token => url)
    /\ tab = "music" /\ list = [kind |-> "music", n |-> 0] /\ idx = -1
    /\ lastWasShuffle = FALSE /\ searchDue = FALSE
    /\ media = NoMedia
    /\ calls = [c \in Calls |-> 0]

Taps ==
    \/ openPlayer \/ Close \/ Connect \/ Cancel \/ SignIn \/ Back \/ Gear
    \/ TurnPage \/ onSearch \/ togglePlay \/ Shuffle
    \/ \E t \in Tabs : setTab(t)
    \/ \E i \in 0 .. PageSize - 1 : playRow(i)
    \/ \E d \in {-1, 1} : Skip(d)

(* What fetchT's timeout bounds.                                           *)
ProbeHeaders == ProbeGranted \/ ProbeDenied \/ ProbeFailed(probe)

Answers ==
    \/ ProbeHeaders \/ ProbeAccepted \/ ProbeFailed(probeBody)
    \/ LoginGranted \/ LoginAccepted \/ LoginFailed \/ LoginSpoiled
    \/ \E t \in Tabs, n \in 0 .. PageSize : ListLoaded(t, n)
    \/ \E t \in Tabs : RandomPicked(t)
    \/ \E c \in {"list", "random"} \X Tabs : CallFailed(c) \/ CallRefused(c)

(* The settings page, which the overlay would cover.                       *)
Settings == ~Open /\ (Preview \/ \E m \in Modes, t \in Timeouts : Choose(m, t))

Next ==
    \/ Taps \/ Unmount \/ Search \/ Ended \/ Answers
    \/ (Settings \/ Touch \/ SaverSteps) /\ UNCHANGED playerVars

(* The browser runs its timers, fetchT's timeout among them: a probe gets  *)
(* its headers or fails.  Nothing says that a body ends.                   *)
Spec ==
    /\ Init /\ [][Next]_vars
    /\ WF_vars(Tick /\ UNCHANGED playerVars)
    /\ WF_vars(TimerFires /\ UNCHANGED playerVars)
    /\ WF_vars(ProbeHeaders)

---------------------------------------------------------------------------
(* The variables have their types.                                         *)
TypeOK ==
    /\ SaverTypeOK
    /\ screen \in Screens /\ gear \in BOOLEAN /\ canCancel \in BOOLEAN /\ busy \in BOOLEAN
    /\ url \in BOOLEAN /\ token \in BOOLEAN
    /\ tab \in Tabs /\ list \in [kind : Tabs, n : 0 .. PageSize]
    /\ idx \in Int /\ idx >= -1
    /\ lastWasShuffle \in BOOLEAN /\ searchDue \in BOOLEAN
    /\ media \in Media \cup {NoMedia}
    /\ calls \in [Calls -> Int]

(* A closed player is silent and holds nothing, whichever of its calls are *)
(* answered afterwards: nothing is loaded, no gear is left on the page,    *)
(* and the screensaver may come up.                                        *)
ClosedIsSilent == ~Open => media = NoMedia /\ ~gear /\ ~ssKeepAwake

(* A random pick plays in the player it was asked for, though the tab may  *)
(* have changed before the answer: a track is never fetched as a video.    *)
ShuffledIsRight == media.shuffled => media.item = media.kind

(* The gear is on the overlay exactly while the player shows, and Cancel   *)
(* is offered only while the connection that it returns to stands: no late *)
(* refusal takes the token from under it.                                  *)
PanelHasItsButtons ==
    /\ gear <=> screen = "player"
    /\ canCancel => screen = "connect" /\ url /\ token

(* Unless it is off, the saver covers the page or its timer runs: no       *)
(* change of a setting and no hold ends the watch over the idle time.      *)
SaverArmed == mode = "off" \/ ssActive \/ timer # NoTimer

(* A panel that was switched off is switched on again when the saver goes. *)
PanelComesBack == powered \/ ssActive

(* The timer never counts more than the time since the last input: the     *)
(* saver comes up by itself only after the whole timeout.                  *)
SaverNeedsQuiet ==
    [][~ssActive /\ ssActive' /\ quiet' # 0 => quiet >= ssTimeout]_vars

(* What the player's opening, closing, unmounting and late answers do to   *)
(* the saver is what a holder of the screen is promised.                   *)
Lease == INSTANCE ScreenLease WITH held <- Open, dark <- ssActive
ScreenIsLeased == Lease!Spec

(* Left alone, with the saver on and the player closed, the screen goes    *)
(* dark and stays so.                                                      *)
IdleScreenSleeps ==
    <>[](mode # "off" /\ ~Open /\ quiet > 0) => <>[]ssActive

(* Whatever refusals and answers cross, the player stays on "Connecting"   *)
(* for ever only if the body of a probe never ends.                        *)
NeverStuck == <>[](screen = "probing") => <>[](calls[probeBody] > 0)
=============================================================================

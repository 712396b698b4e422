# A verification of michka

[michka](../src/README.md) is a home-lab monitor: agents push hardware metrics to a hub, the hub
stores them, and dashboards (browsers, among them a kiosk on a rack screen) show them live. This
directory holds TLA+ models of the parts of it where steps of several actors meet, the TLC runs that
check them on small instances, and theorems that TLAPS proves for instances of any size.

| file | what it is |
|---|---|
| `MetricsHub.tla` | the hub's live core: publishing, storing, streaming, removing, pruning |
| `MCMetricsHub.tla`, `MCMetricsHub_*.cfg` | its instances for TLC |
| `MetricsHub_proof.tla` | theorems about it |
| `LatestFeed.tla` | what an open dashboard is promised: the abstract specification that `MetricsHub` implements |
| `LatestFeed_proof.tla` | the theorem that it does |
| `ConfigStore.tla` | the hub's settings: memory, `michka.conf`, restart, crash and boot |
| `MCConfigStore.tla`, `MCConfigStore_*.cfg` | its instances for TLC |
| `ConfigStore_proof.tla` | theorems about it |
| `Dashboard.tla`, `MCDashboard*`, `Dashboard_proof.tla` | the dashboard's host list, selection and boards; instance; theorems |
| `WidgetPage.tla`, `MCWidgetPage*`, `WidgetPage_proof.tla` | how the dashboard mounts widgets on its page and on the board; instances; theorems |
| `Screensaver.tla` | the dashboard's screensaver and the hold that widgets take on the screen |
| `Player.tla`, `MCPlayer*`, `Player_proof.tla` | the NexusM music player, composed with the screensaver; instance; theorems |
| `ScreenLease.tla` | what a holder of the screen is promised: the abstract specification that `Player` implements |
| `Alerting.tla`, `MCAlerting*`, `Alerting_proof.tla` | the alerting widget; instance; theorems |
| `CommonLemmas.tla` | lemmas on naturals, recursive functions and sequences that several proofs need |
| `PROJECT.json` | components, runs, mutants, the map from definitions to source lines, findings, hazards, theorems |

Check a run with `tlc -config MCMetricsHub_feed.cfg MCMetricsHub`, a proof module with
`tlapm MetricsHub_proof.tla`. Paths below are relative to `src/src/Monitor/` unless they start with
another directory of the repository.

## Inventory

What the system consists of, the state each part keeps, its operations, what is hard about it, and
what makes it correct.

**Live broadcaster** (`Realtime/LiveBroadcaster.cs`). State: four concurrent dictionaries by host
(latest snapshot, service catalog, containers, time of the last disk sample) and the subscribers'
channels. Operations: `Publish` (called by the ingest handler for every agent's push and by the hub's
own sample loop), `Forget` (host removal), `Subscribe` and `Dispose` (SSE handler). Hard: `Publish`
takes no lock, so its eight accesses interleave with everything else; full channels drop. Correct if
no open stream is left with an old snapshot, channels are bounded and in order, a removed host does
not come back by itself, and the caches of a host agree.

**Metrics store** (`Storage/MetricsStore.cs`). State: two SQLite tables behind one lock. Operations:
`Insert`, `InsertDisks`, `DeleteHost`, `Prune`, and queries. Hard: the callers' check-then-act around
the lock, swallowed failures, clocks of several machines. Correct if pruning and removal take away
what they should and nothing else, and disk samples are as sparse as intended.

**SSE stream** (`Api/Endpoints.cs:424-446`). State: a subscription per browser. Hard: the stream is
primed from the latest snapshots while new ones already enter its channel.

**Background loops** (`Modes/HubHost.cs:138-239`). The local sample loop, a 2.5 s cache of service
status, and the prune timer.

**Server configuration** (`Storage/ServerConfig.cs`, `Api/Endpoints.cs:303-397`, `Modes/HubHost.cs:35-68`,
`Modes/SystemControl.cs:26-37`). State: one object shared by all handlers without a lock, and
`michka.conf`. Operations: load, token generation, save, one handler that changes any setting, removal
of a host's layout, migration of the old service list, the exit that a port change schedules. Hard:
concurrent saves, a save that truncates before it writes, failures between change and save, the
restart that races other requests, a port that the hub is not given. Correct if settings that were saved
survive, and the hub comes back, on the port it was told.

**Authentication state** (`Api/AuthState.cs`, PIN gate in `Modes/HubHost.cs:90-112`). State: failure
buckets with escalating lockouts, sliding sessions. Hard: a sweep that tests a bucket and removes it
later, buckets changed in place, a session that is renewed while it is being ended. Correct if lockouts
escalate and expire as documented, and an ended session stays ended.

**Agent** (`Modes/AgentRunner.cs`). State: the times the catalog and the containers last went out, a
"hub is down" flag. Hard: a push that times out may still be handled; the catalog is noted as sent
before it is. Correct if the hub gets a catalog again after any outage.

**Service, Docker and widget proxies** (`Services/`). State: a cached list of running units, a Pi-hole
session. Hard: concurrent logins, a session that expires between check and use.

**Dashboard** (`wwwroot/js/app.js`), one page of four parts that share the selected host:

- *Hosts and boards.* State: the list of hosts, which of them are online, the selected one, the board
  on the screen and the stored ones. The stream adds hosts, a poll every five seconds replaces the
  list, users remove hosts and edit boards. Hard: polls that are late or lost, hosts that vanish while
  they are selected. Correct if one of the tabs is selected, boards stay with their host, and the tabs
  catch up with the hub.
- *Widget hosting.* State: the widgets page, placed widgets, the catalog, module scripts, mounted
  instances. Hard: render passes that wait for the catalog or a script while the page is drawn again,
  closed or switched to another host. Correct if nothing runs that cannot be stopped, and an
  open page comes to show the selected host's widgets.
- *Screensaver.* State: an idle timer, whether the page is covered, a hold. Widgets take the hold with
  `Michka.keepAwake`. Correct if the screen goes dark after the timeout, never under a hold, and
  comes back with the first touch.
- *Values, settings page, services picker*: formatting, history, unordered settings posts.

**Alerting widget** (`widgets/alerting/widget.js`). State: rules, per-target tracks, ping probes,
pop-ups, the settings overlay. Hard: late answers, hysteresis and hold, rules edited while tracks are
running. Correct if an alert fires only after its hold, always ends, and critical pop-ups stay.

**NexusM music player** (`widgets/nexusm-music/widget.js`). State: which panel shows, the connection,
the list, the medium, calls in flight. Hard: answers after the player was closed, the tab changed, or
the token was dropped. Correct if a closed player is silent and lets the screen sleep.

**Other widgets and templates** (`widgets/`, `templates/`): mostly rendering. **Metric collectors** (`Metrics/`): reading the operating system, with two small
algorithms (network rates, disk deduplication). **Windows GUI and service, packaging, kiosk scripts**:
user interface and installation.

## Plan

Done, in this order: `MetricsHub` (the live core), `ConfigStore` (settings and restart), then the
browser's side: `Screensaver` with `Player` over it and `ScreenLease` above them, `Alerting`,
`WidgetPage`, `Dashboard`; then `LatestFeed`, what the hub promises a dashboard, and the proof that
`MetricsHub` implements it. To come:

1. `AuthState`: buckets and sessions, composed with the PIN setting as two fields (`PinHash`,
   `PinEnabled`) and with the handlers that clear sessions.
2. `AgentPush`: the agent's loop over a network that loses, delays and repeats pushes, composed with the
   hub's catalog cache: after an outage the hub has the host's catalog again.
3. `Dashboard` composed with `ConfigStore`: boards that are edited before the configuration has come,
   and settings posts in the order the hub receives them.
4. Algorithms against reference definitions: the history queries' limit and bucketing, the layout
   reflow, disk deduplication, host and port splitting.

Theorems to come: the safety properties of items 1 to 3.

## MetricsHub

**State and actions.** A publisher is a thread that runs `Publish`: an ingest handler or the local
sample loop; `HostOf` says whose snapshots it carries. `pc` is the next statement of `Publish`; one
action per access to shared state:

| action | code |
|---|---|
| `Receive` | a push is accepted (`Endpoints.cs:41-56`), or the sample loop ticks (`HubHost.cs:180-208`) |
| `CacheCatalog`, `CacheContainers` | `LiveBroadcaster.cs:53-62` |
| `FillServices` | `:67-70`, with `DeriveServices` |
| `SetLatest`, `Insert` | `:72-73`; `Insert` waits for the store's lock and may fail |
| `CheckDisk`, `SetDiskAt`, `InsertDisks` | `:76-84`: read, then write, then store |
| `FanOut`, `TryWrite`, `Return` | `:86-87`: copy the subscribers, write to each channel |
| `DeleteSamples`, `DeleteDiskRows`, `Forget*`, `DeleteLayout` | `POST /api/hosts/delete`, statement by statement |
| `PruneStart`, `PruneSamples`, `PruneDiskRows` | the prune timer and `MetricsStore.Prune` |
| `Subscribe`, `StartPriming`, `PrimeOne`, `Primed`, `Drain`, `Disconnect` | `GET /api/stream` |
| `Restart` | the process ends: all but the tables and the layouts is lost |

A snapshot is its host, its timestamp (by the host's own clock, `Skew` ahead of the hub's) and the
version of the catalog that its service status comes from. Which parts ride on it is a set. Values
of metrics, JSON and SQL text are left out. The enumeration of a concurrent dictionary is taken as a
copy at its start. `pushed` and `raced` are history variables: hosts that pushed since their removal
began, and hosts that were being published while a removal ran; `dropped` is what full channels dropped.

A host stamps each snapshot later than the one before, which is what the collectors do unless a clock
is set back. An agent waits for the answer of a push before the next, so in the runs one publisher
carries each host (`OnePublisherPerHost` in the proof). A push that timed out at the agent can overlap
the next one; that is left to the composition with the agent.

**Runs.**

- `feed` (both hosts publish, one browser, channel of 2): `NoLostUpdate`, the reason why a dashboard
  that connects at any moment ends up with the latest snapshot of each host; `QueueOrdered`;
  `PromiseKept`, that the hub implements `LatestFeed`; `TypeOK`.
- `store` (one agent with catalog, containers and disks, its removal, prune timer, restart, refused
  writes): `DiskThrottled`, `GoneUnlessPushed`, `StatusNeverRegresses`, `PruneKeepsRecent`. There are no
  browsers here, as what they do changes nothing that these properties speak of.
- `live` (one agent, one browser, channel of 1): `EventuallyShown`, `EventuallyPruned`.
- `delete`: expects `DeletedStaysGone` to fail, see the findings.
- `clock`: expects `OnlineMeansHeard` to fail, see the findings.

**LatestFeed.** The abstract specification knows neither channels nor publishers: of each host there is a
current snapshot, and of each dashboard what it shows and what its stream still owes it. A stream owes the
snapshots that are current when it opens and those that become so while it is open. Showing one may take it
off what is owed; a newer one of the host may supersede it; one is lost only to a browser that has `Capacity`
others to read (`BoundedChannelFullMode.DropOldest`), and one of a host that is being removed may be
withdrawn. The mapping: `current` is the dictionary of latest snapshots, `shown` the browser's view, and `owed`
what waits in the channel, what is left to prime, what a subscription without a copy of the dictionary will
be primed with, and what publishers under way have still to write. `Show` allows an older snapshot after a
newer one only while the newer is still owed. That case is real: a stream is primed from the dictionary
while its channel already fills, so a browser can step back until it has read what waits behind.

**Bounds.** Two or three clock ticks give each host two or three snapshots: one in a dictionary, one on
its way and one that overtakes it. Times are units: the throttle of 2 and the retention and the window
of 1 put snapshots on both sides of each limit. A channel of 1 or 2 is full early; the code's 256
changes nothing but the number of steps until it is. One restart separates two runs of the hub.

**Fairness** (`FairSpec`). A handler's thread runs to its end, the timer of the prune loop fires every
five minutes, a connected browser reads. `Publish` has strong fairness: it waits for the store's lock,
which prunes and removals take again and again but leave free for most of the time. Nothing makes
a host push, a user act, a browser connect or the process end, so properties hold without these.

## ConfigStore

**State and actions.** `mem` is `rt.Config`, `file` is `michka.conf` (a configuration, `Unreadable` or
`Absent`), `rtPort` the port in use. A request runs `Post`, then one assignment per setting in the
order of the code (`ChangePort`, `KeepPort`, `RegenToken`, `ChangeSetting`), or `Reject` where the code
answers 400; `AllApplied` decides whether to save; `Serialize`, `Truncate`, `WriteText` and `FailSave`
are `Save`; `Reply` schedules the exit. `DeleteLayout` is the settings part of a host's removal. `Exit`
is `Environment.Exit(0)` (`Modes/SystemControl.cs:35`), which waits for no handler: it may come while another
request is anywhere in its body or its save. `Crash` may come at any step. `Load`, `Migrate` and `Listen` are
the boot, which saves through the same actions; it listens on the port of the command line if there is one
(`PortOption`, `HubHost.cs:37`), else on the configured one. `FailListen` is a port that the hub is not given:
one of `Refused`, privileged for a hub that runs as `User=michka` or always in use, or one that another
program has for the moment. `RunAsync` throws then and the process ends.

A setting is a number, 0 for its default. Settings that the handler treats alike are one key ("layout"
stands for layouts, widgets and the display settings), and the PIN's hash and flag are one value.
`File.WriteAllText` truncates the file and then writes from its start, and on Linux does not exclude
another writer; so a text written over one that another request wrote in between leaves a mixture if
it is the shorter one. Serialization is one step. Sessions are not part of this module.

**Runs.**

- `config` (two requests at a time, one crash, failing saves, a port taken once, one port always refused,
  no `--port`, as in the unit): `QuietFileCurrent`,
  `RestartKeepsSettings`, `PortTakesEffect`, `ServesAgain`, `TypeOK`. Two requests suffice
  for every pair of steps to interleave; bodies are a new port, one that the
  hub will not be given, the default port, one that the handler refuses, a new token, a layout,
  the old service list (which the next boot migrates), and a port with a refused PIN. Deadlock is
  not checked: a hub that nobody posts to takes no step.
- `persist`: expects `SettingsPersisted` to fail, see the findings.

**Fairness.** A request is run to its end; the scheduled exit comes; the unit says `Restart=always`
(`deploy/packaging/systemd/michka-hub.service`), so a boot follows each end of the process. `Listen` has strong
fairness: systemd tries again and again, and finds a port free that is free at times; a port in `Refused` never
lets `Listen` happen, whatever the fairness.

The exceptions in the properties are what the code does not guard against, and each costs something:

- `raced` is set when a save starts while another is between its serialization and the end of its write (the
  finding of run `persist`).
- `unsaved` is set when a request ends without having saved what it changed (500, or 400 after a first
  assignment) and is reset by the next save: until then memory and file differ.
- `savedDown` says that nobody had anything left to save when the hub last went down. An exit or a crash in the
  middle of a save loses what was saved, or the whole file, and the next start then has the defaults and a
  new agent token. `RestartKeepsSettings` says that, these exceptions
  aside, a restart loses nothing.
- A port in `Refused` is accepted and saved (`Api/Endpoints.cs:317` lets 1 to 65535 through); the hub then stays
  down until `michka.conf` is edited. `ServesAgain` and `PortTakesEffect` exempt it.
- A port that is set back before the restart is compared with the port the hub runs on (`Endpoints.cs:318`,
  `KeepPort`), so it is ignored, and the restart moves the hub to the port that was taken back. `PortTakesEffect`
  speaks of the port in memory, so it does not rule this out.

## Screensaver, Player and ScreenLease

Paths in this and the next sections: `app.js` is `wwwroot/js/app.js`; the player is
`widgets/nexusm-music/widget.js`.

**State and actions.** `Screensaver` has the idle timer (`timer`, in ticks), `ssActive`, the 600 ms in which
the activating gesture does not dismiss it (`fresh`), the hold `ssKeepAwake`, and what the panel was last
told (`powered`). Every tap calls `ssOnActivity`, so each tap of the player is composed with `Touch`.
`Player` has the panel that shows, the connection (`url`, `token`), the tab and list, the medium, and its
calls in flight as a bag; each is answered at any time, in any order, also after the player was closed,
when an answer that touches the panel fails (`playEntry`, `showPlayer`) but what it stored stays stored.
`Unmount` comes at any moment, as a poll may select another host; it is no input, so it gives up the
hold but does not arm the timer. `ScreenLease` is what a holder of the screen is promised: it is taken with
the screen in view, and only a screen that nobody holds goes dark.

**Run `kiosk`**: `ClosedIsSilent`, `ShuffledIsRight`, `PanelHasItsButtons`, `SaverArmed`, `PanelComesBack`,
`SaverNeedsQuiet`, `ScreenIsLeased` (the refinement: `Open` is the lease, `ssActive` the dark screen),
`IdleScreenSleeps`, `NeverStuck`.

**Bounds.** Two calls in flight are enough for one to overtake the other and for an old one to meet a new
panel; a page of two results has a first, a last, and a row that a shorter list no longer has. Timeouts of
one and two ticks tell a timer that was armed anew from one that ran on. The mode is off or "sleep", the
one that powers the panel off; the others only draw.

A probe and a sign-in have two steps: the headers ("asked"), and then the body that holds the token ("read").

**Fairness.** The browser's clock and its timers, the timeout of `fetchT` among them: a probe gets its headers or
fails. `fetchT` gives that timer up once the headers have come (`widget.js:59-61`), although its comment calls it
a hard timeout (`:51`); the body that `authProbe` then reads (`:275`) has no bound, and nothing is assumed of it,
nor of the answers to any other call. So "Connecting" can stand until the overlay is closed, and `NeverStuck` says
that a body that never ends is the only way to that. Nothing makes a user tap.

**Left out.** Discovery (it fills in the address field), seeking and pausing (a paused medium is a medium),
cover art, the order in which two screen power posts reach the hub.

## Alerting

**State and actions.** `evaluate` is one pass of the engine: every rule over its hosts, probes asked for,
alerts and recoveries popped up in any order of rules and hosts, and what is not watched any more pruned.
`Tick` is the three-second interval; ages replace timestamps and saturate where no comparison tells them
apart. `PingAnswered` answers any probe that was sent, also one that was given up. `Mount` loads the
saved rules and starts the engine once; `commit` replaces the rules under it and starts the tracking anew.
`TapChip` changes the rules in force before they are saved, as the editor's copy shares the hosts of a rule
with them. After a save the saved configuration is the very object in force (`app.js:2141`; `stored = InForce`),
so such an edit outlives the next mount; a mount puts a copy in force (`app.js:2134-2137`) and parts the two.
A save may leave any rules: the editor can change each field (`Drafts`).

**Run `engine`**: `ProbesSpaced`, `Sustained`, `CriticalsStay`, `OverlayHasCard`, `EventuallyAlerts`,
`EventuallyClears`, `TypeOK`.

**Bounds.** One host that is absent, online or offline, and one rule that may be either of two shapes
cover the paths of `ruleBreached`; a hold of one tick tells an alert at once from one that lasts. The code
gives up a probe after 20 s and probes again after 15 s (`PING_TTL`): 3 and 2 ticks keep that order. Two
open probes let a late answer meet a newer probe. A stack of two pop-ups is full at once.

**Fairness.** The timer ticks and its callback runs. Hosts, probes and users do as they like.

**Left out.** The remote channels (ntfy, Telegram, webhooks), which in this version only log; cards,
history and their text. Whether pop-ups are switched on is no state of the model: each pass shows the pop-ups
of what it fires, or none. The screen has one height (`Fit` pop-ups): `fitCount()` follows the window, so a
window that shrinks may evict several pop-ups at once, which the kiosk's screen does not.

## WidgetPage

**State and actions.** A render pass (`Render`) unmounts what is on record, builds cards or boxes, and
goes on to the network: it waits for the catalog (`requests`) or, on the board, box by box for a module's
script (`waiting`). `CatalogAnswered` and `ScriptLoaded` resume the passes that waited. `live` counts the
instances that run in a card or box, `recorded` is the key set of the maps from which they are stopped.
`selectHost` draws the board at once and the page when the history has come (`HistoryLoaded`).

`overtaken` is a history variable: the places (page, board) that were drawn anew while an earlier pass over
them still waited for the catalog.

**Runs.** `widgets`: `NoOrphans`, `OverlayHasCard`, `ShownCatchesUp`, `TypeOK`. `leak`: `NothingLeftBehind`, which is
`NoOrphans` without its exception, fails; see the findings. The two together say that a draw that overtakes a
waiting pass is the only way in which an instance gets lost: no order of history, scripts, host switches,
removals and configuration does it otherwise. `ShownCatchesUp` has the same exception, as the pass that was
overtaken mounts the widgets of the host it was started for.

**Bounds.** Two hosts and two widget types: one that may be in a page and on the board, one on the board
only, so that a pass over the board stops before, between and after scripts. Two catalog requests in
flight (the boot's counts as one), one of which may overtake the other; one history request. At most one of
page and board is overtaken (`MaxOvertaken`), as nothing is promised where it happened.

**Fairness.** Requests and scripts are answered or fail: of the catalog's requests the oldest, whatever younger
one overtakes it. `HistoryLoaded` has strong fairness, as the bounds may put it off here, which the code does
not.

**Left out.** A module that throws in `render` or `mount` (`app.js:740`, `:2287`) is shown as unavailable and not
recorded: `ScriptLoaded` takes it as one that is not there, and a module that throws only at times, or after it
has started a timer, is not modelled. A script that arrives after the page was closed is mounted on the closed
page, as the code does; the instance runs until the page is drawn anew, and as it is on record `NoOrphans`
holds of it. The widgets' stored settings, the migration of an older browser's placed widgets, the
board chooser's own wait for the catalog (it draws nothing on the board by itself), and the services page,
which shares the slot of the widgets page.

## Dashboard

**State and actions.** `touchHost` is a snapshot from the stream, `AskHosts` the hub's reply to a poll, which
arrives with `refreshHosts`, late, out of order, or not at all (`LoseRefresh`); `deleteHost`,
`HubDeletes`, `HostDeleted` and `DeleteFailed` are the removal; `SelectHost` and `Cycle` the selection;
`saveLayout` every edit of the board; `loadServerConfig` the stored boards. The hub is external: which hosts
it lists, and whether it heard of them within ten seconds. A board is known by its owner.

**Run `hosts`**: `SelectedKnown`, `LayoutsStayHome`, `SelectionKept`, `TabsCatchUp`, `SilentShown`.

**Bounds.** Two hosts: one to be selected while the other comes, goes or is removed. Two polls in flight, so
that an older answer can undo a newer one. An older answer that drops a host which the hub lists moves the selection
off it: `SelectionKept` means the page's own list, and `TabsCatchUp` that this list is right in the end. The code
allows any number of removals in flight; the run has one (`MaxDeletes`), the theorems hold for any number.

**Fairness.** The page polls every five seconds, and not every answer is lost (strong fairness of
`RefreshArrives`).

## Findings

- **A removed host comes back without pushing** (run `delete`). A push that was being published when
  the removal began writes its snapshot and its sample afterwards; `MetricsStore.cs:246-247` says the host
  reappears only if it pushes again. `GoneUnlessPushed` is what does hold, and is proved.
- **Online depends on the agent's clock** (run `clock`). `Endpoints.cs:14` speaks of hosts seen within the
  window; the code compares the agent's timestamp with the hub's clock.
- **Concurrent saves lose settings** (run `persist`). Two requests that are both answered "ok" can
  leave `michka.conf` without the newer setting, or unreadable, in which case the next start falls back to
  the defaults and a new token. `QuietFileCurrent` is what does hold, and is proved.
- **A widget runs twice and cannot be stopped** (run `leak`). `app.js:693` and `app.js:2200` say that what
  is mounted is stopped before a new render. A pass that waits for the catalog (`app.js:722`, `:2217`)
  is not cancelled by the next draw of the same place, so both mount the widget in it, and the map of
  mounted widgets keeps only the second. Everywhere else `NoOrphans` holds.

## What is proved

All theorems hold for any hosts, publishers, browsers, requests, bodies and bounds that satisfy
the assumption on the constants that each module names (`HubAssumption`, `ConfigAssumption`, ...),
which TLC evaluates in every run.

- `TypeCorrect` (`MetricsHub`). Types alone are not inductive: a service status is the timestamp that a
  `CHOOSE` finds among the catalogs of a host, so `TypeInv` adds that there is at most one.
- `ChannelsBounded`: no channel holds more than its capacity; from the type invariant, as only `TryWrite`
  lengthens a channel. No run repeats it.
- `RemovalSound`: `GoneUnlessPushed`. The strengthening says of each stage of a removal which places the host
  is gone from, and that a publisher under way belongs to a host in `pushed` or `raced`.
- `HubKeepsPromise`: `PromiseKept`, assuming one publisher per host, by a step simulation: each step of
  the hub is one of `LatestFeed` or a stutter. It covers what run `feed` leaves out, removals and restarts
  while dashboards are connected. `FallInv` is what the steps need beyond `FeedInv`: a publisher carries
  nothing earlier than what its host's latest snapshot or a browser has, and something later until it has
  set the latest (`CarriesNewest`); nothing that waits, is left to prime or is shown is later than the latest
  snapshot of its host (`LatestIsLast`, `LatestIsLastWaiting`); priming takes no browser back
  (`PrimingAdvances`); whatever is newer than a snapshot that waits is waiting too, or still to be written
  (`NewerIsBehind`, which is what `Show` asks for). Steps that no stream hears of are stutters by one lemma
  on what they leave alone (`Quiet`); nine lemmas map the others, `SetLatestSupersedes` to `RestartResets`.
- `FeedComplete`: `NoLostUpdate`, assuming one publisher per host. The argument: whoever set the latest
  snapshot still has to write it to each open stream, or it waits there as the last of its host, or
  nothing of its host waits and the stream shows it or will be primed with it. `FeedInv` adds what the
  steps need: a publisher past `SetLatest` carries the latest snapshot of its host, snapshots in a
  publisher are of its host, the entries left to prime are one per host, and a live stream has none.
- `ChannelsInOrder`: `QueueOrdered`, assuming one publisher per host. `Behind`: what a publisher has still to
  write to a channel is later than all of its host that waits there.
- `DiskHistorySparse`: `DiskThrottled`, under the same assumption. `DiskInv`: of a host that no push raced with its
  removal, the time remembered is no earlier than any row of this run, a publisher that found its sample
  due has it `DiskLogMs` after each of them, and when a removal forgets the time the rows are gone.
- `RecentKept`: `PruneKeepsRecent`, since the cutoff was taken from an earlier clock.
- `StatusAdvances`: `StatusNeverRegresses`, with one publisher per host and clocks that show a time after 1970 (the
  model's "unknown" is 0, so a catalog stamped before would read as older than none). `StatusInv`: a host shows no
  more than its cached catalog says, unless its removal has dropped that; what a publisher is about to show is
  exactly that; and the catalog is no later than its publisher's snapshot.
- `ConfigTypeCorrect`: `TypeOK` of the settings store.
- `FileCurrent`: `QuietFileCurrent`. The strengthening `FileInv`: without a race one thread at a time is
  between serializing and the end of its write, on a file that it truncated itself; and once nobody has
  anything left to save, what is being written is what is in memory, or the file has it.
- `RestartIsSafe`: `RestartKeepsSettings`, from `FileInv` and two facts about a hub that went down with nothing left
  to save: the file it left holds its memory, and its token is set, so that `Load` does not make a new one.

- `PlayerTypes`, `PlayerClosed`, `PlayerShuffles`, `PlayerButtons`, `SaverWatches`: one invariant of the player and
  the screensaver. The strengthening is `HeldWhileOpen`: the hold is taken and given up with the overlay, and
  no saver covers the overlay. Without it a step that closes the player could leave the hold behind.
- `PanelWakes`, `SaverIsPatient`: `PanelComesBack`, `SaverNeedsQuiet`, of the saver's own invariant. `DarkOK`: a
  panel that was powered off is under the saver in sleep mode, so that whatever ends the saver, or changes the
  mode, powers it on. `CountOK`: the ticks left and the ticks of quiet make up the timeout.
- `PlayerLeases`: `ScreenIsLeased`. From the same invariant each step maps to a step of `ScreenLease` or
  to a stutter: opening takes the lease, closing and unmounting release it, activation darkens, input lightens.
- `AlertingProbes`: `ProbesSpaced`. The strengthening `PingOK`: a host with no probe in flight was last asked
  before it last answered, so an answer that is old enough to ask again implies a question that is.
- `AlertingSustained`: `Sustained`. The strengthening `NoteOK`: a breach is never noted as older than the run of
  checks that have seen it; it holds over edits since a save forgets both.
- `AlertingOverlay`: `OverlayHasCard`, from the count of cards.
- `AlertingTypes`, `AlertingCriticals`: `TypeOK` and `CriticalsStay`. The pop-ups of one pass are a recursive
  function, so both rest on an induction over its positions (`StackedKept`): each pop-up leaves a stack that fits
  and has no fewer critical ones (`PopupKept`, by an injection of the critical ones before into those after; the one
  that goes is critical only if all are, `VictimIs`). A removal is told from a pass by the shorter stack.
  That the steps of a pass can be put in order needs finitely many hosts and rules.
- `WidgetTypes`: `TypeOK` of the page. An overtaken pass goes on with the boxes it finds on the board that was drawn
  meanwhile, again a recursive function. By induction these are boxes of its own, and all of them if the board
  was not drawn anew (`FoundIn`); what of them is left after each script are boxes again (`PastIn`, `LeftIn`).
- `WidgetOverlay`: `OverlayHasCard` of the page. The strengthening `Counted`: what is on record runs, so a
  render that takes one instance off the record leaves a count that is still a number.
- `WidgetsOnRecord`: `NoOrphans`. `Tidy` says of each place that no draw has overtaken (`PageOK`, `BoardOK`): at most one
  pass over it waits for the catalog, and while one does nothing runs there and no other pass waits for a
  script; a card that is still loading, or a box that a pass has left, has no instance yet; and before the
  catalog has come no script was asked for (`CatalogOK`). So whoever mounts, mounts into an empty place. That a
  pass mounts no box twice rests on `DoneAndLeft`: the boxes it is done with and those it has left differ.
- `DashboardTypes`, `DashboardSelection`, `DashboardLayouts`, `DashboardKeeps`: the first three are inductive
  together (a selected host that is a tab needs boards that belong to hosts); the last follows step by step.
  `FirstTab` is a `CHOOSE`, so that it returns a tab rests on a least number (`LeastNatural`).

`PlayerTypes` and `DashboardTypes` prove the type invariants of their modules, which no run repeats.

`CommonLemmas` has what several of these proofs need: a set of naturals has a least element, induction over an
initial segment of the naturals with what is shown given as the set of numbers it holds for, the existence
of a function that is defined by recursion over one, and what a sequence is once it grew or lost an element.

Only model-checked: everything about liveness (`EventuallyShown`, `EventuallyPruned`, `PortTakesEffect`,
`ServesAgain`, `IdleScreenSleeps`, `NeverStuck`, `EventuallyAlerts`, `EventuallyClears`,
`ShownCatchesUp`, `TabsCatchUp`, `SilentShown`), which is out of the prover's reach. Every invariant and
action property that a passing run checks is proved. `OnlineMeansHeard`, `DeletedStaysGone`, `SettingsPersisted` and
`NothingLeftBehind` are not, as the code violates them.

## What is not modelled

The parts the plan has left, and for good: reading hardware counters, rendering, the text of reports,
SQL and JSON, systemd's own job queue, installation scripts, graphics. Of the browser, the services
picker and the series of values: they share no state with the parts modelled here but the selected host.
Each module's section names what it leaves out. `PROJECT.json` lists each component with its status, and
under `hazards` those that no property covers yet, with the reason.

------------------------------ MODULE Alerting ------------------------------
(***************************************************************************)
(* The alerting widget: the engine that checks every host against every    *)
(* rule every three seconds, the probes it has the hub make of hosts that  *)
(* run no agent, the stack of pop-ups, and the settings overlay, which     *)
(* replaces the rules under the running engine.                            *)
(*                                                                         *)
(* A tick is the period of the engine.  Instants that the code stores are  *)
(* kept as ages, which saturate once no comparison tells them apart.  A    *)
(* reading is "high" when it is past the threshold of the load rules; the  *)
(* draft of the rules is not kept, a save may put any rules in place; nor  *)
(* is the switch of the pop-ups: they may be off at any time.              *)
(***************************************************************************)
EXTENDS Integers, Sequences, FiniteSets, SequencesExt

CONSTANTS
    Hosts,      \* names of hosts, with an agent or typed in by the user
    Rules,      \* identifiers of rules
    Shapes,     \* what a rule may say: [metric, hosts, hold, critical, enabled]
    MaxHold,    \* the longest hold of a rule, in ticks
    PingTTL,    \* PING_TTL, in ticks
    GiveUp,     \* after which a probe in flight is given up: 20 s, in ticks
    MaxProbes,  \* bound of the probes of one host that may still be answered
    Fit,        \* fitCount(): pop-ups that the screen, of a fixed height, holds
    InForce,    \* the saved rules are those in force
    MaxCards    \* bound of the mounted cards

NoRule == [metric |-> "none", hosts |-> {}, hold |-> 0, critical |-> FALSE, enabled |-> FALSE]

RuleType == [metric : {"load", "offline"}, hosts : SUBSET Hosts, hold : 0 .. MaxHold,
             critical : BOOLEAN, enabled : BOOLEAN]

ASSUME AlertingAssumption ==
    /\ IsFiniteSet(Hosts) /\ IsFiniteSet(Rules)
    /\ MaxHold \in Nat /\ Shapes \subseteq RuleType
    /\ PingTTL \in Nat \ {0} /\ GiveUp \in Nat /\ PingTTL <= GiveUp
    /\ MaxProbes \in Nat \ {0} /\ Fit \in Nat \ {0} /\ MaxCards \in Nat \ {0}

VARIABLES
    status,     \* state.hosts: "absent", or what its online flag says
    reading,    \* state.latest: "high", or "normal", also when there is none
    rules,      \* cfg.rules
    stored,     \* widgetConfig: the rules last saved, or InForce
    track,      \* debounce state: [age of pendingSince or -1, active]
    pings,      \* pingCache, and how many probes may still be answered
    toasts,     \* the pop-ups, newest first: TRUE for a critical one
    overlay,    \* the settings are open
    cards,      \* how many cards are mounted
    engine,     \* engineTimer is set
    due,        \* the timer's callback is due
    calm        \* ticks since a check last found a key not breached (history)

config == <<rules, stored>>
world  == <<status, reading>>
vars   == <<world, config, track, pings, toasts, overlay, cards, engine, due, calm>>

(* After a save the dashboard holds the widget's own object, cfg, and not  *)
(* a copy: what is changed in place is changed in both.                    *)
saved == IF stored = InForce THEN rules ELSE stored

(* What the editor of the rules may leave: a rule is added, changed in any  *)
(* of its fields, or removed.                                              *)
Drafts == [Rules -> Shapes \cup {NoRule}]

Keys == Rules \X Hosts

Untracked == [pending |-> -1, active |-> FALSE]
NoPing    == [up |-> "unknown", ts |-> PingTTL, inflight |-> FALSE, started |-> GiveUp, open |-> 0]

older(age, cap) == IF age < cap THEN age + 1 ELSE age

---------------------------------------------------------------------------
(* The rules against the hosts.                                            *)

knownHosts == {h \in Hosts : status[h] # "absent"}

targets(rule) == IF rule.hosts = {} THEN knownHosts ELSE rule.hosts

(* The keys of one pass: a load rule skips a host that does not report.    *)
Watched(rs, k) ==
    LET rule == rs[k[1]] IN
        /\ rule.enabled
        /\ k[2] \in targets(rule)
        /\ rule.metric = "offline" \/ status[k[2]] # "absent"

ruleBreached(rs, k) ==
    LET h == k[2] IN
        IF rs[k[1]].metric = "offline"
        THEN \/ status[h] = "offline"
             \/ status[h] = "absent" /\ pings[h].up = "down"
        ELSE reading[h] = "high"

Breached(rs, k) == Watched(rs, k) /\ ruleBreached(rs, k)

(* Mutant of Starts: the probe in flight is not looked at.                 *)
StartsWhenOld(p) == p.ts >= PingTTL

(* Whether a pass asks for a probe of h, and whether one starts.           *)
Asked(rs, h) ==
    /\ status[h] = "absent"
    /\ \E r \in Rules : rs[r].metric = "offline" /\ Watched(rs, <<r, h>>)

Starts(p) == IF p.inflight THEN p.started >= GiveUp ELSE p.ts >= PingTTL

ensurePing(p) ==
    IF Starts(p)
    THEN [p EXCEPT !.inflight = TRUE, !.started = 0,
                   !.open = IF @ < MaxProbes THEN @ + 1 ELSE @]
    ELSE p

(* Mutants of check: a breach counts anew in every pass; what is not       *)
(* watched any more keeps its alert.                                       *)
CheckAnew(rs, k) ==
    IF Breached(rs, k)
    THEN [pending |-> 0, active |-> track[k].active \/ rs[k[1]].hold = 0]
    ELSE Untracked

CheckUnpruned(rs, k) ==
    LET t == track[k]
        since == IF t.pending = -1 THEN 0 ELSE t.pending
    IN  IF Breached(rs, k)
        THEN [pending |-> since, active |-> t.active \/ since >= rs[k[1]].hold]
        ELSE [pending |-> -1, active |-> t.active /\ ~Watched(rs, k)]

(* One rule for one host.                                                  *)
check(rs, k) ==
    LET t == track[k]
        since == IF t.pending = -1 THEN 0 ELSE t.pending
    IN  IF Breached(rs, k)
        THEN [pending |-> since, active |-> t.active \/ since >= rs[k[1]].hold]
        ELSE Untracked

---------------------------------------------------------------------------
(* The pop-ups.                                                            *)

(* Mutant of victim: the oldest goes, critical or not.                     *)
Oldest(s) == Len(s)

(* capStack: the oldest that is not critical goes first, then the oldest.  *)
victim(s) ==
    LET ordinary == {i \in DOMAIN s : ~s[i]} IN
        IF ordinary = {} THEN Len(s)
        ELSE CHOOSE i \in ordinary : \A j \in ordinary : j <= i

(* Mutant of showPopup: the stack is not capped.                           *)
PileUp(s, critical) == <<critical>> \o s

showPopup(s, critical) ==
    LET all == <<critical>> \o s IN
        IF Len(all) <= Fit THEN all ELSE RemoveAt(all, victim(all))

(* A key whose alert begins or ends; one that is pruned ends in silence.   *)
Fired(rs) == {k \in Keys : Watched(rs, k) /\ check(rs, k).active # track[k].active}

(* A recovery is never critical.                                           *)
Severity(rs, k) == rs[k[1]].critical /\ ~track[k].active

(* The stack once a pop-up was shown for each of the keys, in their order. *)
stacked(rs, order) ==
    LET stack[i \in 0 .. Len(order)] ==
            IF i = 0 THEN toasts ELSE showPopup(stack[i - 1], Severity(rs, order[i]))
    IN  stack[Len(order)]

(* The pop-ups of one pass, in any order of the rules and hosts; or none,  *)
(* as the user has switched them off.                                      *)
fire(rs) ==
    \/ \E order \in SetToSeqs(Fired(rs)) : toasts' = stacked(rs, order)
    \/ UNCHANGED toasts

---------------------------------------------------------------------------
(* One pass of the engine; what is not watched any more is forgotten.      *)
evaluate(rs) ==
    /\ pings' = [h \in Hosts |-> IF Asked(rs, h) THEN ensurePing(pings[h]) ELSE pings[h]]
    /\ track' = [k \in Keys |-> check(rs, k)]
    /\ fire(rs)
    /\ calm' = [k \in Keys |-> IF Breached(rs, k) THEN calm[k] ELSE 0]

Evaluate ==
    /\ due
    /\ due' = FALSE
    /\ evaluate(rules)
    /\ UNCHANGED <<world, config, overlay, cards, engine>>

(* The interval has passed; a callback that is late is not made twice.     *)
Tick ==
    /\ due' = engine
    /\ track' = [k \in Keys |-> IF track[k].pending = -1 THEN track[k]
                                ELSE [track[k] EXCEPT !.pending = older(@, MaxHold)]]
    /\ pings' = [h \in Hosts |-> [pings[h] EXCEPT !.ts = older(@, PingTTL),
                                                  !.started = older(@, GiveUp)]]
    /\ calm' = [k \in Keys |-> IF engine THEN older(calm[k], MaxHold) ELSE calm[k]]
    /\ UNCHANGED <<world, config, toasts, overlay, cards, engine>>

(* Any probe that was not answered may be, also one that was given up.     *)
PingAnswered(h, up) ==
    /\ pings[h].open > 0
    /\ pings' = [pings EXCEPT ![h].up = up, ![h].ts = 0, ![h].inflight = FALSE,
                              ![h].open = @ - 1]
    /\ UNCHANGED <<world, config, track, toasts, overlay, cards, engine, due, calm>>

---------------------------------------------------------------------------
(* The cards and the settings.                                             *)

(* The first pass is made at once; an engine that runs goes on.            *)
startEngine(rs) ==
    /\ engine' = TRUE
    /\ IF engine THEN UNCHANGED <<track, pings, toasts, due, calm>>
                 ELSE due' = FALSE /\ evaluate(rs)

(* loadCfg puts a copy of what was saved in force, under a running engine, *)
(* too.                                                                    *)
Mount ==
    /\ cards < MaxCards
    /\ cards' = cards + 1
    /\ rules' = saved /\ stored' = saved
    /\ startEngine(saved)
    /\ UNCHANGED <<world, overlay>>

(* Mutant of Unmount: the settings stay open.                              *)
LeaveCard ==
    /\ cards > 0
    /\ cards' = cards - 1
    /\ UNCHANGED <<world, config, track, pings, toasts, overlay, engine, due, calm>>

Unmount ==
    /\ cards > 0
    /\ cards' = cards - 1
    /\ overlay' = (overlay /\ cards > 1)
    /\ UNCHANGED <<world, config, track, pings, toasts, engine, due, calm>>

openSettings ==
    /\ cards > 0
    /\ overlay' = TRUE
    /\ UNCHANGED <<world, config, track, pings, toasts, cards, engine, due, calm>>

closeSettings ==
    /\ overlay
    /\ overlay' = FALSE
    /\ UNCHANGED <<world, config, track, pings, toasts, cards, engine, due, calm>>

(* The draft of a rule shares its list of hosts with the rule: a chip that *)
(* is tapped changes the rule in force before any save, unless a card was  *)
(* mounted since the settings opened, when it changes none.                *)
TapChip(r, h) ==
    /\ overlay
    /\ rules[r] # NoRule
    /\ rules' = [rules EXCEPT ![r].hosts = IF h \in @ THEN @ \ {h} ELSE @ \cup {h}]
    /\ UNCHANGED <<world, stored, track, pings, toasts, overlay, cards, engine, due, calm>>

(* A pop-up for a test, unless pop-ups are off.                            *)
sendTest ==
    /\ overlay
    /\ toasts' = showPopup(toasts, FALSE)
    /\ UNCHANGED <<world, config, track, pings, overlay, cards, engine, due, calm>>

(* Mutant of commit: what was noted under the old rules is kept.           *)
CommitInPlace(new) ==
    /\ overlay
    /\ rules' = new
    /\ stored' = InForce
    /\ calm' = [k \in Keys |-> 0]
    /\ overlay' = FALSE
    /\ UNCHANGED <<world, track, pings, toasts, cards, engine, due>>

(* Save: the rules are replaced and the tracking starts anew, under the    *)
(* engine that the card started.                                           *)
commit(new) ==
    /\ overlay
    /\ rules' = new
    /\ stored' = InForce
    /\ track' = [k \in Keys |-> Untracked]
    /\ calm' = [k \in Keys |-> 0]
    /\ overlay' = FALSE
    /\ UNCHANGED <<world, pings, toasts, cards, engine, due>>

(* The user dismisses a pop-up, or the timer of an ordinary one runs out.  *)
removeToast(i) ==
    /\ toasts' = RemoveAt(toasts, i)
    /\ UNCHANGED <<world, config, track, pings, overlay, cards, engine, due, calm>>

---------------------------------------------------------------------------
(* What the dashboard learns of the hosts.                                 *)
HostChanges(h, s, r) ==
    /\ (s = "absent") => (r = "normal")
    /\ status' = [status EXCEPT ![h] = s]
    /\ reading' = [reading EXCEPT ![h] = r]
    /\ UNCHANGED <<config, track, pings, toasts, overlay, cards, engine, due, calm>>

Init ==
    /\ status = [h \in Hosts |-> "absent"] /\ reading = [h \in Hosts |-> "normal"]
    /\ rules = [r \in Rules |-> NoRule]
    /\ stored \in Drafts
    /\ track = [k \in Keys |-> Untracked] /\ pings = [h \in Hosts |-> NoPing]
    /\ toasts = <<>> /\ overlay = FALSE /\ cards = 0
    /\ engine = FALSE /\ due = FALSE
    /\ calm = [k \in Keys |-> 0]

Settings ==
    \/ Mount \/ Unmount \/ openSettings \/ closeSettings \/ sendTest
    \/ \E r \in Rules, h \in Hosts : TapChip(r, h)
    \/ \E new \in Drafts : commit(new)
    \/ \E i \in DOMAIN toasts : removeToast(i)

World ==
    \/ \E h \in Hosts, up \in {"up", "down"} : PingAnswered(h, up)
    \/ \E h \in Hosts, s \in {"absent", "online", "offline"}, r \in {"normal", "high"} :
          HostChanges(h, s, r)

Next == Evaluate \/ Tick \/ Settings \/ World

(* The browser runs the timer.                                             *)
Spec == Init /\ [][Next]_vars /\ WF_vars(Tick) /\ WF_vars(Evaluate)

---------------------------------------------------------------------------
RuleOrNone == RuleType \cup {NoRule}

(* The variables have their types.                                         *)
TypeOK ==
    /\ status \in [Hosts -> {"absent", "online", "offline"}]
    /\ reading \in [Hosts -> {"normal", "high"}]
    /\ rules \in [Rules -> RuleOrNone]
    /\ stored \in {InForce} \cup [Rules -> RuleOrNone]
    /\ track \in [Keys -> [pending : -1 .. MaxHold, active : BOOLEAN]]
    /\ pings \in [Hosts -> [up : {"unknown", "up", "down"}, ts : 0 .. PingTTL,
                            inflight : BOOLEAN, started : 0 .. GiveUp, open : 0 .. MaxProbes]]
    /\ toasts \in Seq(BOOLEAN) /\ Len(toasts) <= Fit
    /\ overlay \in BOOLEAN /\ cards \in 0 .. MaxCards
    /\ engine \in BOOLEAN /\ due \in BOOLEAN
    /\ calm \in [Keys -> 0 .. MaxHold]

(* A host is probed at most once per PING_TTL, whatever becomes of its     *)
(* earlier probes: late, lost, or answered after they were given up.       *)
ProbesSpaced ==
    [][\A h \in Hosts : pings'[h].started < pings[h].started => pings[h].started >= PingTTL]_vars

(* An alert fires only for a breach that every check since at least the    *)
(* hold of the rule has seen, under the rules as they were last saved: not *)
(* for what was noted of a host before it left.                            *)
Sustained ==
    [][\A k \in Keys : ~track[k].active /\ track'[k].active => calm[k] >= rules'[k[1]].hold]_vars

(* "A critical you must acknowledge is the last thing dropped": new        *)
(* pop-ups take no critical one away but for another.                      *)
Criticals(s) == Cardinality({i \in DOMAIN s : s[i]})

CriticalsStay ==
    [][Len(toasts') >= Len(toasts) => Criticals(toasts') >= Criticals(toasts)]_vars

(* The settings are open only over a card.                                 *)
OverlayHasCard == overlay => cards > 0

(* A breach that lasts is reported in the end, and an alert ends when its  *)
(* cause does, or its rule or host.                                        *)
EventuallyAlerts ==
    \A k \in Keys : <>[](engine /\ ~overlay /\ Breached(rules, k)) => <>[]track[k].active

EventuallyClears ==
    \A k \in Keys : <>[](engine /\ ~Breached(rules, k)) => <>[]~track[k].active
=============================================================================

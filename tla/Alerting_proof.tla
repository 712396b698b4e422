--------------------------- MODULE Alerting_proof ---------------------------
(***************************************************************************)
(* The engine of the alerting widget, for any rules and hosts: probes keep *)
(* their distance, and no alert fires before its breach has lasted.        *)
(***************************************************************************)
EXTENDS Alerting, CommonLemmas, FiniteSetTheorems, SequenceTheorems, TLAPS

LEMMA Flags == \A x : x = TRUE \/ x = FALSE => x \in BOOLEAN
  BY Zenon

PingType == [up : {"unknown", "up", "down"}, ts : 0 .. PingTTL, inflight : BOOLEAN,
             started : 0 .. GiveUp, open : 0 .. MaxProbes]

(* A host with no probe in flight was last asked before it last answered.  *)
PingOK(p) == p \in PingType /\ (p.inflight \/ p.ts <= p.started)

TrackType == [pending : -1 .. MaxHold, active : BOOLEAN]

(* A breach is not noted as older than the checks that have seen it.       *)
NoteOK(t, c) == t \in TrackType /\ c \in 0 .. MaxHold /\ t.pending <= c

(* Before the engine starts nothing is noted.                              *)
Idle == ~due /\ \A k \in Keys : track[k].pending = -1

RulesOK(rs) == rs \in [Rules -> RuleOrNone]

Inv ==
    /\ pings = [h \in Hosts |-> pings[h]] /\ \A h \in Hosts : PingOK(pings[h])
    /\ track = [k \in Keys |-> track[k]] /\ calm = [k \in Keys |-> calm[k]]
    /\ \A k \in Keys : NoteOK(track[k], calm[k])
    /\ RulesOK(rules) /\ RulesOK(saved)
    /\ Idle \/ engine
    /\ cards \in Nat /\ OverlayHasCard

LEMMA OlderBound ==
  ASSUME NEW cap \in Nat, NEW x \in 0 .. cap
  PROVE  older(x, cap) \in 0 .. cap /\ older(x, cap) >= x
BY DEF older

(* One request for a probe.                                                *)
LEMMA PingKept ==
  ASSUME NEW p, PingOK(p)
  PROVE  /\ PingOK(ensurePing(p))
         /\ ensurePing(p).started < p.started => p.started >= PingTTL
<1>0. /\ p.ts \in 0 .. PingTTL /\ p.started \in 0 .. GiveUp /\ p.open \in 0 .. MaxProbes
      /\ p.inflight \in BOOLEAN /\ (p.inflight \/ p.ts <= p.started)
      /\ PingTTL \in Nat /\ GiveUp \in Nat /\ PingTTL <= GiveUp /\ MaxProbes \in Nat
  BY AlertingAssumption DEF AlertingAssumption, PingOK, PingType
<1>1. CASE ~Starts(p)
  BY <1>0, <1>1 DEF ensurePing
<1>2. CASE Starts(p)
  <2>1. p.started >= PingTTL
    BY <1>0, <1>2 DEF Starts
  <2>2. ensurePing(p) \in PingType /\ ensurePing(p).inflight = TRUE
    <3> DEFINE open == IF p.open < MaxProbes THEN p.open + 1 ELSE p.open
    <3>1. open \in 0 .. MaxProbes
      BY <1>0
    <3>2. ensurePing(p) = [up |-> p.up, ts |-> p.ts, inflight |-> TRUE, started |-> 0, open |-> open]
      BY <1>2 DEF ensurePing, PingOK, PingType
    <3>3. 0 \in 0 .. GiveUp /\ TRUE \in BOOLEAN /\ p.up \in {"unknown", "up", "down"}
      BY <1>0 DEF PingOK, PingType
    <3> HIDE DEF open
    <3> QED
      BY <1>0, <3>1, <3>2, <3>3 DEF PingType
  <2> QED
    BY <2>1, <2>2 DEF PingOK
<1> QED
  BY <1>1, <1>2

(* One check of one key under the rules rs.                                *)
LEMMA CheckKept ==
  ASSUME NEW rs, RulesOK(rs), NEW k \in Keys, NEW c, NoteOK(track[k], c)
  PROVE  /\ NoteOK(check(rs, k), IF Breached(rs, k) THEN c ELSE 0)
         /\ ~track[k].active /\ check(rs, k).active => c >= rs[k[1]].hold
<1>0. /\ track[k].pending \in -1 .. MaxHold /\ track[k].active \in BOOLEAN
      /\ c \in 0 .. MaxHold /\ track[k].pending <= c /\ MaxHold \in Nat
  BY AlertingAssumption DEF AlertingAssumption, NoteOK, TrackType
<1>1. rs[k[1]].hold \in 0 .. MaxHold
  <2>1. rs[k[1]] \in RuleOrNone
    BY DEF RulesOK, Keys
  <2> QED
    BY <1>0, <2>1 DEF RuleOrNone, RuleType, NoRule
<1>2. CASE ~Breached(rs, k)
  <2>1. check(rs, k) = Untracked
    BY <1>2 DEF check
  <2>2. FALSE \in BOOLEAN /\ -1 \in -1 .. MaxHold
    BY <1>0
  <2> QED
    BY <1>0, <1>2, <2>1, <2>2 DEF NoteOK, TrackType, Untracked
<1>3. CASE Breached(rs, k)
  <2> DEFINE since == IF track[k].pending = -1 THEN 0 ELSE track[k].pending
             on    == track[k].active \/ since >= rs[k[1]].hold
  <2>1. check(rs, k) = [pending |-> since, active |-> on]
    BY <1>3 DEF check
  <2>2. since \in 0 .. MaxHold /\ since <= c
    BY <1>0
  <2>3. on \in BOOLEAN
    BY Zenon
  <2>4. check(rs, k) \in TrackType /\ check(rs, k).pending = since /\ check(rs, k).active = on
    <3> HIDE DEF on, since
    <3> QED
      BY <1>0, <2>1, <2>2, <2>3 DEF TrackType
  <2>5. ~track[k].active /\ on => c >= rs[k[1]].hold
    BY <1>0, <1>1, <2>2
  <2> QED
    BY <1>0, <1>3, <2>2, <2>4, <2>5 DEF NoteOK
<1> QED
  BY <1>2, <1>3

(* One pass keeps what it finds of probes and notes, and starts a probe or *)
(* an alert only when it may.                                              *)
PassOK(rs) ==
    /\ pings' = [h \in Hosts |-> pings'[h]] /\ \A h \in Hosts : PingOK(pings'[h])
    /\ track' = [k \in Keys |-> track'[k]] /\ calm' = [k \in Keys |-> calm'[k]]
    /\ \A k \in Keys : NoteOK(track'[k], calm'[k])
    /\ \A h \in Hosts : pings'[h].started < pings[h].started => pings[h].started >= PingTTL
    /\ \A k \in Keys : ~track[k].active /\ track'[k].active => calm[k] >= rs[k[1]].hold

LEMMA PassKept ==
  ASSUME Inv, NEW rs, RulesOK(rs), evaluate(rs)
  PROVE  PassOK(rs)
<1>1. ASSUME NEW h \in Hosts
      PROVE  /\ PingOK(pings'[h])
             /\ pings'[h].started < pings[h].started => pings[h].started >= PingTTL
  <2>1. PingOK(pings[h])
    BY DEF Inv
  <2>2. pings'[h] = ensurePing(pings[h]) \/ pings'[h] = pings[h]
    BY DEF evaluate
  <2>3. pings[h].started \in 0 .. GiveUp
    BY <2>1 DEF PingOK, PingType
  <2> QED
    BY <2>1, <2>2, <2>3, PingKept, AlertingAssumption DEF AlertingAssumption
<1>2. ASSUME NEW k \in Keys
      PROVE  /\ NoteOK(track'[k], calm'[k])
             /\ ~track[k].active /\ track'[k].active => calm[k] >= rs[k[1]].hold
  <2>1. NoteOK(track[k], calm[k])
    BY DEF Inv
  <2>2. track'[k] = check(rs, k) /\ calm'[k] = IF Breached(rs, k) THEN calm[k] ELSE 0
    BY DEF evaluate
  <2> QED
    BY <2>1, <2>2, CheckKept
<1>3. /\ pings' = [h \in Hosts |-> pings'[h]]
      /\ track' = [k \in Keys |-> track'[k]] /\ calm' = [k \in Keys |-> calm'[k]]
  BY DEF evaluate
<1> QED
  BY <1>1, <1>2, <1>3 DEF PassOK

(* The same, of a step that touches none of this.                          *)
LEMMA QuietKept ==
  ASSUME Inv, UNCHANGED <<track, pings, calm>>, NEW rs
  PROVE  PassOK(rs)
<1>1. \A h \in Hosts : ~(pings'[h].started < pings[h].started)
  <2> SUFFICES ASSUME NEW h \in Hosts PROVE ~(pings'[h].started < pings[h].started)
    OBVIOUS
  <2>1. pings[h].started \in 0 .. GiveUp /\ GiveUp \in Nat
    BY AlertingAssumption DEF Inv, PingOK, PingType, AlertingAssumption
  <2> QED
    BY <2>1
<1> QED
  BY <1>1 DEF Inv, PassOK

(* The age of everything that is noted.                                    *)
LEMMA TickKept ==
  ASSUME Inv, Tick
  PROVE  PassOK(rules)
<1> USE AlertingAssumption DEF AlertingAssumption
<1>1. ASSUME NEW h \in Hosts
      PROVE  /\ PingOK(pings'[h])
             /\ ~(pings'[h].started < pings[h].started)
  <2> DEFINE p == pings[h]
  <2>1. PingOK(p) /\ pings'[h] = [p EXCEPT !.ts = older(@, PingTTL), !.started = older(@, GiveUp)]
    BY DEF Inv, Tick
  <2> HIDE DEF p
  <2>2. /\ p.ts \in 0 .. PingTTL /\ p.started \in 0 .. GiveUp
        /\ p \in PingType /\ (p.inflight \/ p.ts <= p.started)
    BY <2>1 DEF PingOK, PingType
  <2>3. /\ older(p.ts, PingTTL) \in 0 .. PingTTL /\ older(p.started, GiveUp) \in 0 .. GiveUp
        /\ (p.ts <= p.started => older(p.ts, PingTTL) <= older(p.started, GiveUp))
        /\ older(p.started, GiveUp) >= p.started
    BY <2>2 DEF older
  <2>4. pings'[h] = [up |-> p.up, ts |-> older(p.ts, PingTTL), inflight |-> p.inflight,
                     started |-> older(p.started, GiveUp), open |-> p.open]
    BY <2>1, <2>2 DEF PingType
  <2>5. pings'[h] \in PingType
    BY <2>2, <2>3, <2>4 DEF PingType
  <2>6. ~(pings'[h].started < pings[h].started)
    BY <2>2, <2>3, <2>4 DEF p
  <2> QED
    BY <2>2, <2>3, <2>4, <2>5, <2>6 DEF PingOK
<1>2. ASSUME NEW k \in Keys
      PROVE  NoteOK(track'[k], calm'[k]) /\ (track'[k].active = track[k].active)
  <2> DEFINE t == track[k]
             c == calm[k]
  <2>1. NoteOK(t, c)
    BY DEF Inv
  <2>2. /\ track'[k] = IF t.pending = -1 THEN t ELSE [t EXCEPT !.pending = older(@, MaxHold)]
        /\ calm'[k] = IF engine THEN older(c, MaxHold) ELSE c
    BY DEF Tick
  <2> HIDE DEF t, c
  <2>3. /\ t \in TrackType /\ t.pending \in -1 .. MaxHold /\ c \in 0 .. MaxHold /\ t.pending <= c
        /\ t.active \in BOOLEAN
    BY <2>1 DEF NoteOK, TrackType
  <2>4. calm'[k] \in 0 .. MaxHold /\ calm'[k] >= c
    BY <2>2, <2>3 DEF older
  <2>5. CASE t.pending = -1
    BY <2>2, <2>3, <2>4, <2>5 DEF NoteOK, t
  <2>6. CASE t.pending # -1
    <3>1. track'[k] = [pending |-> older(t.pending, MaxHold), active |-> t.active]
      BY <2>2, <2>3, <2>6 DEF TrackType
    <3>2. older(t.pending, MaxHold) \in -1 .. MaxHold
      BY <2>3, <2>6 DEF older
    <3>3. engine => older(t.pending, MaxHold) <= older(c, MaxHold)
      BY <2>3, <2>6 DEF older
    <3>4. track'[k] \in TrackType
      BY <2>3, <3>1, <3>2 DEF TrackType
    <3>5. engine
      BY <2>6 DEF Inv, Idle, t
    <3> QED
      BY <2>2, <2>4, <3>1, <3>3, <3>4, <3>5 DEF NoteOK, t
  <2> QED
    BY <2>5, <2>6
<1>3. /\ pings' = [h \in Hosts |-> pings'[h]]
      /\ track' = [k \in Keys |-> track'[k]] /\ calm' = [k \in Keys |-> calm'[k]]
  BY DEF Tick
<1> QED
  BY <1>1, <1>2, <1>3 DEF PassOK

(* A saved configuration starts without notes.                             *)
LEMMA CommitKept ==
  ASSUME Inv, NEW new, commit(new)
  PROVE  PassOK(new)
<1>1. /\ track' = [k \in Keys |-> Untracked] /\ calm' = [k \in Keys |-> 0] /\ pings' = pings
  BY DEF commit
<1>2. NoteOK(Untracked, 0)
  BY AlertingAssumption DEF AlertingAssumption, NoteOK, TrackType, Untracked
<1>3. \A h \in Hosts : ~(pings'[h].started < pings[h].started)
  <2> SUFFICES ASSUME NEW h \in Hosts PROVE ~(pings'[h].started < pings[h].started)
    OBVIOUS
  <2>1. pings[h].started \in 0 .. GiveUp /\ GiveUp \in Nat
    BY AlertingAssumption DEF Inv, PingOK, PingType, AlertingAssumption
  <2> QED
    BY <1>1, <2>1
<1> QED
  BY <1>1, <1>2, <1>3 DEF Inv, PassOK, Untracked

(* An answer makes the cached state fresh.                                 *)
LEMMA AnswerKept ==
  ASSUME Inv, NEW h \in Hosts, NEW up \in {"up", "down"}, PingAnswered(h, up)
  PROVE  PassOK(rules)
<1> DEFINE p == pings[h]
<1>1. PingOK(p) /\ p.open > 0
  BY DEF Inv, PingAnswered
<1>2. pings'[h] = [p EXCEPT !.up = up, !.ts = 0, !.inflight = FALSE, !.open = @ - 1]
      /\ \A g \in Hosts : g # h => pings'[g] = pings[g]
  BY DEF PingAnswered, Inv
<1> HIDE DEF p
<1>3. /\ p \in PingType /\ p.started \in 0 .. GiveUp /\ p.open \in 0 .. MaxProbes
      /\ MaxProbes \in Nat /\ PingTTL \in Nat
  BY <1>1, AlertingAssumption DEF PingOK, PingType, AlertingAssumption
<1>4. pings'[h] = [up |-> up, ts |-> 0, inflight |-> FALSE, started |-> p.started,
                   open |-> p.open - 1]
  BY <1>2, <1>3 DEF PingType
<1>5. pings'[h] \in PingType
  <2>1. p.open - 1 \in 0 .. MaxProbes /\ 0 \in 0 .. PingTTL
    BY <1>1, <1>3
  <2>2. FALSE \in BOOLEAN /\ up \in {"unknown", "up", "down"}
    BY Flags
  <2> QED
    BY <1>3, <1>4, <2>1, <2>2 DEF PingType
<1>6. PingOK(pings'[h])
  BY <1>3, <1>4, <1>5 DEF PingOK
<1>7. \A g \in Hosts : PingOK(pings'[g])
  BY <1>2, <1>6 DEF Inv
<1>8. ASSUME NEW g \in Hosts PROVE ~(pings'[g].started < pings[g].started)
  <2>1. pings[g].started \in 0 .. GiveUp /\ GiveUp \in Nat
    BY AlertingAssumption DEF Inv, PingOK, PingType, AlertingAssumption
  <2> QED
    BY <1>2, <1>4, <2>1 DEF p
<1>9. UNCHANGED <<track, calm>> /\ pings' = [g \in Hosts |-> pings'[g]]
  BY DEF PingAnswered, Inv
<1> QED
  BY <1>7, <1>8, <1>9 DEF Inv, PassOK

(* What every step does to probes and notes, by the rules it leaves.       *)
LEMMA StepKept ==
  ASSUME Inv, [Next]_vars
  PROVE  PassOK(rules')
<1>1. CASE Evaluate
  BY <1>1, PassKept DEF Evaluate, Inv, config
<1>2. CASE Tick
  BY <1>2, TickKept DEF Tick, config, PassOK
<1>3. CASE Mount
  <2>1. CASE engine
    BY <1>3, <2>1, QuietKept DEF Mount, startEngine
  <2>2. CASE ~engine
    BY <1>3, <2>2, PassKept DEF Mount, startEngine, Inv
  <2> QED
    BY <2>1, <2>2
<1>4. CASE Unmount \/ openSettings \/ closeSettings \/ sendTest
  BY <1>4, QuietKept DEF Unmount, openSettings, closeSettings, sendTest, config
<1>5. ASSUME NEW r \in Rules, NEW h \in Hosts, TapChip(r, h) PROVE PassOK(rules')
  BY <1>5, QuietKept DEF TapChip
<1>6. ASSUME NEW new \in Drafts, commit(new) PROVE PassOK(rules')
  BY <1>6, CommitKept DEF commit
<1>7. ASSUME NEW i \in DOMAIN toasts, removeToast(i) PROVE PassOK(rules')
  BY <1>7, QuietKept DEF removeToast
<1>8. ASSUME NEW h \in Hosts, NEW up \in {"up", "down"}, PingAnswered(h, up)
      PROVE  PassOK(rules')
  BY <1>8, AnswerKept DEF PingAnswered, config
<1>9. ASSUME NEW h \in Hosts, NEW s, NEW r, HostChanges(h, s, r) PROVE PassOK(rules')
  BY <1>9, QuietKept DEF HostChanges
<1>10. CASE UNCHANGED vars
  BY <1>10, QuietKept DEF vars
<1> QED
  BY <1>1, <1>2, <1>3, <1>4, <1>5, <1>6, <1>7, <1>8, <1>9, <1>10 DEF Next, Settings, World

(* The rules stay rules, those in force and those a card would load.       *)
LEMMA RulesKept ==
  ASSUME Inv, [Next]_vars
  PROVE  RulesOK(rules') /\ RulesOK(saved')
<1>0. RulesOK(rules) /\ RulesOK(saved)
  BY DEF Inv
<1> SUFFICES RulesOK(rules') /\ (stored' = InForce \/ RulesOK(stored'))
  BY DEF saved
<1>1. CASE Mount
  BY <1>0, <1>1 DEF Mount
<1>2. ASSUME NEW r \in Rules, NEW h \in Hosts, TapChip(r, h)
      PROVE  RulesOK(rules') /\ stored' = stored
  <2> DEFINE old  == rules[r]
             list == IF h \in old.hosts THEN old.hosts \ {h} ELSE old.hosts \cup {h}
  <2>1. old \in RuleType
    BY <1>0, <1>2 DEF TapChip, RulesOK, RuleOrNone
  <2>2. rules' = [rules EXCEPT ![r] = [old EXCEPT !.hosts = list]] /\ stored' = stored
    BY <1>2 DEF TapChip
  <2>3. list \in SUBSET Hosts
    BY <2>1 DEF RuleType
  <2> HIDE DEF old, list
  <2>4. [old EXCEPT !.hosts = list] \in RuleType
    BY <2>1, <2>3 DEF RuleType
  <2> QED
    BY <1>0, <2>2, <2>4 DEF RulesOK, RuleOrNone
<1>3. ASSUME NEW new \in Drafts, commit(new)
      PROVE  RulesOK(rules') /\ stored' = InForce
  <2>1. RulesOK(new)
    BY AlertingAssumption DEF AlertingAssumption, Drafts, RulesOK, RuleOrNone
  <2>2. rules' = new /\ stored' = InForce
    BY <1>3 DEF commit
  <2> QED
    BY <2>1, <2>2
<1>4. UNCHANGED stored => stored' = InForce \/ RulesOK(stored')
  BY <1>0 DEF saved
<1>5. CASE UNCHANGED <<rules, stored>>
  BY <1>0, <1>4, <1>5
<1> QED
  BY <1>1, <1>2, <1>3, <1>4, <1>5 DEF Next, Settings, World, Evaluate, Tick, Unmount, openSettings,
     closeSettings, sendTest, removeToast, PingAnswered, HostChanges, config, vars

(* The overlay goes with the last card; nothing is noted before the engine *)
(* starts.                                                                 *)
LEMMA CardsKept ==
  ASSUME Inv, [Next]_vars
  PROVE  cards' \in Nat /\ OverlayHasCard' /\ (Idle' \/ engine')
<1>0. cards \in Nat /\ OverlayHasCard /\ (Idle \/ engine)
  BY DEF Inv
<1>1. cards' \in Nat /\ OverlayHasCard'
  <2>1. CASE Mount
    BY <1>0, <2>1 DEF Mount, OverlayHasCard
  <2>2. CASE Unmount
    <3>1. cards' = cards - 1 /\ cards > 0 /\ (overlay' => cards > 1)
      BY <2>2 DEF Unmount
    <3> QED
      BY <1>0, <3>1 DEF OverlayHasCard
  <2>3. CASE openSettings
    BY <1>0, <2>3 DEF openSettings, OverlayHasCard
  <2>4. CASE UNCHANGED <<cards, overlay>> \/ (UNCHANGED cards /\ overlay' = FALSE)
    BY <1>0, <2>4 DEF OverlayHasCard
  <2> QED
    BY <2>1, <2>2, <2>3, <2>4 DEF Next, Settings, World, Evaluate, Tick, closeSettings,
     TapChip, sendTest, commit, removeToast, PingAnswered, HostChanges, vars
<1>2. ASSUME ~engine, ~engine' PROVE Idle'
  <2>1. Idle
    BY <1>0, <1>2
  <2>2. UNCHANGED <<track, due>>
        \/ (~due' /\ track' = [k \in Keys |-> IF track[k].pending = -1 THEN track[k]
                                ELSE [track[k] EXCEPT !.pending = older(@, MaxHold)]])
        \/ (~due' /\ track' = [k \in Keys |-> Untracked])
    BY <1>2, <2>1 DEF Next, Settings, World, Evaluate, Tick, Mount, Unmount, openSettings,
       closeSettings, TapChip, sendTest, commit, removeToast, PingAnswered,
       HostChanges, vars, startEngine, Idle
  <2> QED
    BY <2>1, <2>2 DEF Idle, Untracked
<1>3. engine => engine'
  BY DEF Next, Settings, World, Evaluate, Tick, Mount, Unmount, openSettings, closeSettings,
     TapChip, sendTest, commit, removeToast, PingAnswered, HostChanges, vars,
     startEngine
<1> QED
  BY <1>0, <1>1, <1>2, <1>3

LEMMA InitInv == Init => Inv
<1> SUFFICES ASSUME Init PROVE Inv
  OBVIOUS
<1> USE AlertingAssumption DEF AlertingAssumption
<1>1. PingOK(NoPing)
  BY DEF PingOK, PingType, NoPing
<1>2. NoteOK(Untracked, 0)
  BY DEF NoteOK, TrackType, Untracked
<1>3. RulesOK(rules) /\ RulesOK(saved)
  BY DEF Init, Drafts, RulesOK, RuleOrNone, saved
<1>4. Idle
  BY DEF Init, Idle, Untracked
<1>5. cards \in Nat /\ OverlayHasCard
  BY DEF Init, OverlayHasCard
<1> QED
  BY <1>1, <1>2, <1>3, <1>4, <1>5 DEF Init, Inv

LEMMA Invariance == Spec => []Inv
<1>1. Inv /\ [Next]_vars => Inv'
  BY StepKept, RulesKept, CardsKept DEF Inv, PassOK
<1> QED
  BY InitInv, <1>1, PTL DEF Spec

(* A host is probed no more often than every PING_TTL (ensurePing).        *)
THEOREM AlertingProbes == Spec => ProbesSpaced
<1>1. Inv /\ [Next]_vars =>
        [\A h \in Hosts : pings'[h].started < pings[h].started => pings[h].started >= PingTTL]_vars
  BY StepKept DEF PassOK
<1> QED
  BY <1>1, Invariance, PTL DEF Spec, ProbesSpaced

(* An alert has been seen by every check for as long as its rule says      *)
(* (evaluate, and commit, which forgets what was seen).                    *)
THEOREM AlertingSustained == Spec => Sustained
<1>1. Inv /\ [Next]_vars =>
        [\A k \in Keys : ~track[k].active /\ track'[k].active
                            => calm[k] >= rules'[k[1]].hold]_vars
  BY StepKept DEF PassOK
<1> QED
  BY <1>1, Invariance, PTL DEF Spec, Sustained

(* The settings never outlive the last card (unmount).                     *)
THEOREM AlertingOverlay == Spec => []OverlayHasCard
BY Invariance, PTL DEF Inv

---------------------------------------------------------------------------
(* The stack of pop-ups: which one goes when there is one too many, never  *)
(* a critical one while there are others, ...                              *)
LEMMA VictimIs ==
  ASSUME NEW s \in Seq(BOOLEAN), Len(s) # 0
  PROVE  /\ victim(s) \in 1 .. Len(s)
         /\ s[victim(s)] => victim(s) = Len(s) /\ \A i \in 1 .. Len(s) : s[i]
<1> DEFINE ordinary == {i \in DOMAIN s : ~s[i]}
           after == {n \in Nat : \A i \in ordinary : i <= n}
<1>0. DOMAIN s = 1 .. Len(s) /\ Len(s) \in Nat
  OBVIOUS
<1>1. CASE ordinary = {}
  BY <1>0, <1>1 DEF victim
<1>2. CASE ordinary # {}
  <2>1. PICK m \in after : \A n \in after : m <= n
    <3>1. Len(s) \in after
      BY <1>0
    <3> HIDE DEF ordinary
    <3>2. after \subseteq Nat /\ after # {}
      BY <3>1
    <3> HIDE DEF after
    <3> QED
      BY <3>2, LeastNatural
  <2>2. m \in ordinary
    <3> SUFFICES ASSUME m \notin ordinary PROVE FALSE
      OBVIOUS
    <3>1. PICK i \in ordinary : TRUE
      BY <1>2
    <3>2. i \in 1 .. Len(s) /\ i <= m /\ i # m
      BY <1>0, <3>1
    <3>3. m - 1 \in Nat
      BY <3>2
    <3>4. \A j \in ordinary : j <= m - 1
      BY <1>0
    <3> HIDE DEF ordinary
    <3>5. m - 1 \in after
      BY <3>3, <3>4
    <3> QED
      BY <2>1, <3>3, <3>5
  <2>3. \A i \in ordinary : i <= m
    OBVIOUS
  <2>4. victim(s) \in ordinary
    <3>1. victim(s) = CHOOSE i \in ordinary : \A j \in ordinary : j <= i
      BY <1>2 DEF victim
    <3> HIDE DEF ordinary
    <3> QED
      BY <2>2, <2>3, <3>1, Zenon
  <2> QED
    BY <1>0, <2>4
<1> QED
  BY <1>1, <1>2

(* ... and the stack that one more pop-up leaves.                          *)
Stacks == {s \in Seq(BOOLEAN) : Len(s) <= Fit}

CriticalsOf(s) == {i \in DOMAIN s : s[i]}

LEMMA FewerCriticals ==
  ASSUME NEW s \in Seq(BOOLEAN), NEW r \in Seq(BOOLEAN),
         NEW f \in [CriticalsOf(s) -> CriticalsOf(r)],
         \A i, j \in CriticalsOf(s) : f[i] = f[j] => i = j
  PROVE  Criticals(s) \in Nat /\ Criticals(r) \in Nat /\ Criticals(s) <= Criticals(r)
<1>1. IsFiniteSet(CriticalsOf(r)) /\ IsFiniteSet(CriticalsOf(s))
  <2>1. IsFiniteSet(1 .. Len(r)) /\ IsFiniteSet(1 .. Len(s))
    BY FS_Interval
  <2>2. CriticalsOf(r) \in SUBSET (1 .. Len(r)) /\ CriticalsOf(s) \in SUBSET (1 .. Len(s))
    BY DEF CriticalsOf
  <2> QED
    BY <2>1, <2>2, FS_Subset
<1>2. f \in Injection(CriticalsOf(s), CriticalsOf(r))
  BY DEF Injection, IsInjective
<1>3. /\ Cardinality(CriticalsOf(s)) \in Nat /\ Cardinality(CriticalsOf(r)) \in Nat
      /\ Cardinality(CriticalsOf(s)) <= Cardinality(CriticalsOf(r))
  BY <1>1, <1>2, FS_Injection, FS_CardinalityType
<1> QED
  BY <1>3 DEF Criticals, CriticalsOf

LEMMA CriticalsCount ==
  ASSUME NEW s \in Stacks
  PROVE  Criticals(s) \in Nat
<1>1. s \in Seq(BOOLEAN)
  BY DEF Stacks
<1> DEFINE f == [i \in CriticalsOf(s) |-> i]
<1>2. f \in [CriticalsOf(s) -> CriticalsOf(s)] /\ \A i, j \in CriticalsOf(s) : f[i] = f[j] => i = j
  OBVIOUS
<1> HIDE DEF f
<1> QED
  BY <1>1, <1>2, FewerCriticals

LEMMA PopupKept ==
  ASSUME NEW s \in Stacks, NEW c \in BOOLEAN
  PROVE  showPopup(s, c) \in Stacks /\ Criticals(showPopup(s, c)) >= Criticals(s)
<1> DEFINE all == <<c>> \o s
           r   == showPopup(s, c)
           v   == victim(all)
<1>0. s \in Seq(BOOLEAN) /\ Len(s) \in Nat /\ Len(s) <= Fit /\ Fit \in Nat
  BY AlertingAssumption DEF Stacks, AlertingAssumption
<1>1. /\ all \in Seq(BOOLEAN) /\ Len(all) = Len(s) + 1
      /\ all[1] = c /\ \A i \in 1 .. Len(s) : all[i + 1] = s[i]
  <2>1. <<c>> \in Seq(BOOLEAN) /\ Len(<<c>>) = 1 /\ <<c>>[1] = c
    OBVIOUS
  <2> QED
    BY <1>0, <2>1, ConcatProperties
<1>2. CriticalsOf(s) \subseteq 1 .. Len(s) /\ \A i \in CriticalsOf(s) : s[i]
  BY <1>0 DEF CriticalsOf
<1>3. v \in 1 .. Len(all) /\ (all[v] => v = Len(all) /\ \A i \in 1 .. Len(all) : all[i])
  <2> HIDE DEF all
  <2> QED
    BY <1>0, <1>1, VictimIs
<1> HIDE DEF all, v
<1>4. CASE Len(all) <= Fit
  <2>1. r = all
    BY <1>4 DEF showPopup, all
  <2> DEFINE f == [i \in CriticalsOf(s) |-> i + 1]
  <2>2. f \in [CriticalsOf(s) -> CriticalsOf(all)]
    BY <1>0, <1>1, <1>2 DEF CriticalsOf
  <2>3. \A i, j \in CriticalsOf(s) : f[i] = f[j] => i = j
    BY <1>0, <1>2
  <2> HIDE DEF f
  <2> QED
    BY <1>0, <1>1, <1>4, <2>1, <2>2, <2>3, FewerCriticals DEF Stacks
<1>5. CASE Len(all) > Fit
  <2>1. r = RemoveAt(all, v)
    BY <1>0, <1>1, <1>5 DEF showPopup, all, v
  <2> HIDE DEF r
  <2>2. /\ r \in Seq(BOOLEAN) /\ Len(r) = Len(s)
        /\ \A j \in 1 .. Len(s) : r[j] = IF j < v THEN all[j] ELSE all[j + 1]
    <3>1. /\ r \in Seq(BOOLEAN) /\ Len(r) = Len(all) - 1
          /\ \A j \in 1 .. Len(all) - 1 : r[j] = IF j < v THEN all[j] ELSE all[j + 1]
      BY <1>1, <1>3, <2>1, RemoveAtElements
    <3> QED
      BY <1>0, <1>1, <3>1
  <2>3. CASE all[v]
    <3> DEFINE f == [i \in CriticalsOf(s) |-> i]
    <3>1. \A j \in 1 .. Len(s) : r[j]
      BY <1>0, <1>1, <1>3, <2>2, <2>3
    <3>2. f \in [CriticalsOf(s) -> CriticalsOf(r)]
      BY <1>0, <1>2, <2>2, <3>1 DEF CriticalsOf
    <3>3. \A i, j \in CriticalsOf(s) : f[i] = f[j] => i = j
      OBVIOUS
    <3> HIDE DEF f
    <3> QED
      BY <1>0, <2>2, <3>2, <3>3, FewerCriticals DEF Stacks, r
  <2>4. CASE ~all[v]
    <3> DEFINE f == [i \in CriticalsOf(s) |-> IF i + 1 < v THEN i + 1 ELSE i]
    <3>1. ASSUME NEW i \in CriticalsOf(s) PROVE f[i] \in 1 .. Len(s) /\ r[f[i]]
      <4>1. i \in 1 .. Len(s) /\ s[i] /\ all[i + 1] = s[i] /\ i + 1 # v
        BY <1>1, <1>2, <2>4
      <4>2. CASE i + 1 < v
        BY <1>0, <1>1, <1>3, <2>2, <4>1, <4>2
      <4>3. CASE i + 1 > v
        BY <1>0, <1>1, <1>3, <2>2, <4>1, <4>3
      <4> QED
        BY <1>3, <4>1, <4>2, <4>3
    <3>2. f \in [CriticalsOf(s) -> CriticalsOf(r)]
      BY <2>2, <3>1 DEF CriticalsOf
    <3>3. ASSUME NEW i \in CriticalsOf(s), NEW j \in CriticalsOf(s), f[i] = f[j] PROVE i = j
      <4>1. i \in 1 .. Len(s) /\ j \in 1 .. Len(s) /\ i + 1 # v /\ j + 1 # v
        BY <1>1, <1>2, <2>4
      <4> QED
        BY <1>3, <3>3, <4>1
    <3> HIDE DEF f
    <3> QED
      BY <1>0, <2>2, <3>2, <3>3, FewerCriticals DEF Stacks, r
  <2> QED
    BY <2>3, <2>4
<1> QED
  BY <1>0, <1>1, <1>4, <1>5 DEF r

(* So it is with one pop-up for each of some keys, in any order.           *)
LEMMA StackedKept ==
  ASSUME toasts \in Stacks, NEW rs, NEW n \in Nat, NEW order \in [1 .. n -> Keys]
  PROVE  stacked(rs, order) \in Stacks /\ Criticals(stacked(rs, order)) >= Criticals(toasts)
<1> DEFINE next(s, i) == showPopup(s, Severity(rs, order[i]))
           Fits(f) == f = [i \in 0 .. n |-> IF i = 0 THEN toasts ELSE next(f[i - 1], i)]
           stack == CHOOSE f : Fits(f)
<1>1. ASSUME NEW s \in Stacks, NEW i \in 1 .. n
      PROVE  next(s, i) \in Stacks /\ Criticals(next(s, i)) >= Criticals(s)
  <2>1. Severity(rs, order[i]) \in BOOLEAN
    BY Zenon DEF Severity
  <2> QED
    BY <2>1, PopupKept
<1> HIDE DEF next
<1>2. Len(order) = n
  OBVIOUS
<1>3. stacked(rs, order) = stack[n]
  BY <1>2 DEF stacked, next
<1>4. \E f \in [0 .. n -> Stacks] : Fits(f)
  <2> DEFINE step == [p \in Stacks \X (1 .. n) |-> next(p[1], p[2])]
  <2>1. step \in [Stacks \X (1 .. n) -> Stacks]
    BY <1>1
  <2>2. \A s \in Stacks, i \in 1 .. n : step[<<s, i>>] = next(s, i)
    OBVIOUS
  <2> HIDE DEF step
  <2>3. PICK f \in [0 .. n -> Stacks] : Unfolds(f, n, toasts, step)
    BY <2>1, Recursive, Zenon
  <2>4. ASSUME NEW i \in 1 .. n PROVE f[i] = next(f[i - 1], i)
    <3>1. f[i - 1] \in Stacks
      OBVIOUS
    <3> QED
      BY <2>2, <2>3, <3>1 DEF Unfolds
  <2> QED
    BY <2>3, <2>4 DEF Unfolds
<1>5. Fits(stack)
  <2> HIDE DEF Fits
  <2> QED
    BY <1>4
<1> HIDE DEF stack
<1> DEFINE S == {i \in 0 .. n : stack[i] \in Stacks /\ Criticals(stack[i]) >= Criticals(toasts)}
<1>6. stack[0] = toasts /\ \A i \in 1 .. n : stack[i] = next(stack[i - 1], i)
  BY <1>5
<1>7. \A s \in Stacks : Criticals(s) \in Nat
  BY CriticalsCount
<1>8. 0 \in S
  BY <1>6, <1>7
<1>9. ASSUME NEW i \in 1 .. n, i - 1 \in S PROVE i \in S
  <2>1. /\ stack[i - 1] \in Stacks /\ Criticals(stack[i - 1]) >= Criticals(toasts)
        /\ stack[i] = next(stack[i - 1], i)
    BY <1>6, <1>9
  <2>2. stack[i] \in Stacks /\ Criticals(stack[i]) >= Criticals(stack[i - 1])
    BY <1>1, <2>1
  <2>3. Criticals(stack[i]) >= Criticals(toasts)
    BY <1>7, <2>1, <2>2
  <2> QED
    BY <2>2, <2>3
<1>10. n \in S
  <2> HIDE DEF S
  <2> QED
    BY <1>8, <1>9, UpTo
<1> QED
  BY <1>3, <1>10


(* Which steps change what, of the variables that few of them do.          *)
WorldStep ==
    \/ UNCHANGED <<status, reading>>
    \/ \E h \in Hosts, s \in {"absent", "online", "offline"}, r \in {"normal", "high"} :
          HostChanges(h, s, r)

ToastStep ==
    \/ UNCHANGED toasts \/ Evaluate \/ Mount \/ sendTest
    \/ \E i \in DOMAIN toasts : removeToast(i)

ConfigStep ==
    \/ UNCHANGED stored \/ Mount
    \/ \E new \in Drafts : commit(new)

CardStep ==
    /\ \/ UNCHANGED overlay \/ overlay' = TRUE \/ overlay' = FALSE
       \/ overlay' = (overlay /\ cards > 1)
    /\ \/ UNCHANGED cards
       \/ cards < MaxCards /\ cards' = cards + 1
       \/ cards > 0 /\ cards' = cards - 1

EngineStep ==
    /\ UNCHANGED engine \/ engine' = TRUE
    /\ UNCHANGED due \/ due' = FALSE \/ due' = engine

LEMMA StepChanges ==
  ASSUME [Next]_vars
  PROVE  WorldStep /\ ToastStep /\ ConfigStep /\ CardStep /\ EngineStep
<1> DEFINE Goal == WorldStep /\ ToastStep /\ ConfigStep /\ CardStep /\ EngineStep
<1> USE DEF world, config
<1>1. CASE Evaluate
  BY <1>1 DEF Evaluate, WorldStep, ToastStep, ConfigStep, CardStep, EngineStep
<1>2. CASE Tick
  BY <1>2, Zenon DEF Tick, WorldStep, ToastStep, ConfigStep, CardStep, EngineStep
<1>3. CASE Mount
  BY <1>3 DEF Mount, startEngine, WorldStep, ToastStep, ConfigStep, CardStep, EngineStep
<1>4. CASE Unmount \/ openSettings \/ closeSettings
  BY <1>4 DEF Unmount, openSettings, closeSettings,
     WorldStep, ToastStep, ConfigStep, CardStep, EngineStep
<1>5. CASE sendTest
  BY <1>5 DEF sendTest, WorldStep, ToastStep, ConfigStep, CardStep, EngineStep
<1>6. ASSUME NEW r \in Rules, NEW h \in Hosts, TapChip(r, h) PROVE Goal
  BY <1>6 DEF TapChip, WorldStep, ToastStep, ConfigStep, CardStep, EngineStep
<1>7. ASSUME NEW new \in Drafts, commit(new) PROVE Goal
  <2>1. WorldStep /\ ToastStep /\ CardStep /\ EngineStep
    BY <1>7 DEF commit, WorldStep, ToastStep, CardStep, EngineStep
  <2> QED
    BY <1>7, <2>1 DEF ConfigStep
<1>8. ASSUME NEW i \in DOMAIN toasts, removeToast(i) PROVE Goal
  <2>1. WorldStep /\ ConfigStep /\ CardStep /\ EngineStep
    BY <1>8 DEF removeToast, WorldStep, ConfigStep, CardStep, EngineStep
  <2> QED
    BY <1>8, <2>1 DEF ToastStep
<1>9. ASSUME NEW h \in Hosts, NEW up \in {"up", "down"}, PingAnswered(h, up) PROVE Goal
  BY <1>9 DEF PingAnswered, WorldStep, ToastStep, ConfigStep, CardStep, EngineStep
<1>10. ASSUME NEW h \in Hosts, NEW s \in {"absent", "online", "offline"},
              NEW r \in {"normal", "high"}, HostChanges(h, s, r)
       PROVE  Goal
  <2>1. ToastStep /\ ConfigStep /\ CardStep /\ EngineStep
    BY <1>10 DEF HostChanges, ToastStep, ConfigStep, CardStep, EngineStep
  <2> QED
    BY <1>10, <2>1 DEF WorldStep
<1>11. CASE UNCHANGED vars
  BY <1>11 DEF vars, WorldStep, ToastStep, ConfigStep, CardStep, EngineStep
<1> QED
  BY <1>1, <1>2, <1>3, <1>4, <1>5, <1>6, <1>7, <1>8, <1>9, <1>10, <1>11 DEF Next, Settings, World

(* What one pass does to the stack, ...                                    *)
LEMMA PassShows ==
  ASSUME toasts \in Stacks, NEW rs, fire(rs)
  PROVE  toasts' \in Stacks /\ (toasts' = toasts \/ Criticals(toasts') >= Criticals(toasts))
<1>1. Cardinality(Fired(rs)) \in Nat
  <2>1. IsFiniteSet(Rules \X Hosts)
    BY AlertingAssumption, FS_Product DEF AlertingAssumption
  <2>2. Fired(rs) \in SUBSET (Rules \X Hosts)
    BY DEF Fired, Keys
  <2> QED
    BY <2>1, <2>2, FS_Subset, FS_CardinalityType
<1>2. CASE \E order \in SetToSeqs(Fired(rs)) : toasts' = stacked(rs, order)
  <2>1. PICK order \in SetToSeqs(Fired(rs)) : toasts' = stacked(rs, order)
    BY <1>2
  <2>2. order \in [1 .. Cardinality(Fired(rs)) -> Keys]
    BY DEF SetToSeqs, Fired
  <2> QED
    BY <1>1, <2>1, <2>2, StackedKept
<1>3. CASE UNCHANGED toasts
  BY <1>3
<1> QED
  BY <1>2, <1>3 DEF fire

(* ... and any step.                                                       *)
LEMMA ToastsKept ==
  ASSUME toasts \in Stacks, [Next]_vars
  PROVE  /\ toasts' \in Stacks
         /\ Len(toasts') >= Len(toasts) =>
               toasts' = toasts \/ Criticals(toasts') >= Criticals(toasts)
<1>1. ASSUME NEW i \in DOMAIN toasts, removeToast(i)
      PROVE  toasts' \in Stacks /\ Len(toasts') < Len(toasts)
  <2>1. toasts \in Seq(BOOLEAN) /\ Len(toasts) \in Nat /\ i \in 1 .. Len(toasts)
        /\ Len(toasts) <= Fit /\ Fit \in Nat
    BY AlertingAssumption DEF Stacks, AlertingAssumption
  <2>2. toasts' = RemoveAt(toasts, i)
    BY <1>1 DEF removeToast
  <2>3. toasts' \in Seq(BOOLEAN) /\ Len(toasts') = Len(toasts) - 1
    BY <2>1, <2>2, RemoveAtElements
  <2> QED
    BY <2>1, <2>3 DEF Stacks
<1>2. CASE sendTest
  <2>1. toasts' = toasts \/ toasts' = showPopup(toasts, FALSE)
    BY <1>2 DEF sendTest
  <2>2. FALSE \in BOOLEAN
    BY Flags
  <2> QED
    BY <2>1, <2>2, PopupKept
<1>3. ASSUME NEW rs, fire(rs)
      PROVE  toasts' \in Stacks /\ (toasts' = toasts \/ Criticals(toasts') >= Criticals(toasts))
  BY <1>3, PassShows
<1>4. CASE Evaluate
  BY <1>3, <1>4 DEF Evaluate, evaluate
<1>5. CASE Mount
  BY <1>3, <1>5 DEF Mount, startEngine, evaluate
<1>6. CASE UNCHANGED toasts
  BY <1>6
<1>7. (\E i \in DOMAIN toasts : removeToast(i)) =>
        toasts' \in Stacks /\ ~(Len(toasts') >= Len(toasts))
  <2> SUFFICES ASSUME NEW i \in DOMAIN toasts, removeToast(i)
               PROVE  toasts' \in Stacks /\ ~(Len(toasts') >= Len(toasts))
    OBVIOUS
  <2>1. toasts' \in Stacks /\ Len(toasts') < Len(toasts)
    BY <1>1
  <2>2. Len(toasts) \in Nat /\ Len(toasts') \in Nat
    BY <2>1 DEF Stacks
  <2> QED
    BY <2>1, <2>2
<1> QED
  BY <1>2, <1>4, <1>5, <1>6, <1>7, StepChanges DEF ToastStep

StoredType == {InForce} \cup [Rules -> RuleOrNone]

(* The types of what the other invariants do not speak of.                 *)
RestOK ==
    /\ status \in [Hosts -> {"absent", "online", "offline"}]
    /\ reading \in [Hosts -> {"normal", "high"}]
    /\ stored \in StoredType
    /\ toasts \in Stacks
    /\ overlay \in BOOLEAN /\ cards \in 0 .. MaxCards
    /\ engine \in BOOLEAN /\ due \in BOOLEAN

LEMMA StoredKept ==
  ASSUME Inv, RestOK, [Next]_vars
  PROVE  stored' \in StoredType
<1>0. stored \in StoredType
  BY DEF RestOK
<1>1. CASE Mount
  BY <1>1 DEF Mount, StoredType, Inv, RulesOK
<1>2. ASSUME NEW new \in Drafts, commit(new)
      PROVE  stored' \in StoredType
  BY <1>0, <1>2 DEF commit, StoredType
<1>3. CASE UNCHANGED stored
  BY <1>0, <1>3
<1> QED
  BY <1>1, <1>2, <1>3, StepChanges DEF ConfigStep

LEMMA WorldKept ==
  ASSUME RestOK, [Next]_vars
  PROVE  /\ status' \in [Hosts -> {"absent", "online", "offline"}]
         /\ reading' \in [Hosts -> {"normal", "high"}]
<1>0. status \in [Hosts -> {"absent", "online", "offline"}] /\ reading \in [Hosts -> {"normal", "high"}]
  BY DEF RestOK
<1>1. ASSUME NEW h \in Hosts, NEW s \in {"absent", "online", "offline"}, NEW r \in {"normal", "high"},
             HostChanges(h, s, r)
      PROVE  /\ status' \in [Hosts -> {"absent", "online", "offline"}]
             /\ reading' \in [Hosts -> {"normal", "high"}]
  BY <1>0, <1>1 DEF HostChanges
<1>2. CASE UNCHANGED <<status, reading>>
  BY <1>0, <1>2
<1> QED
  BY <1>1, <1>2, StepChanges DEF WorldStep

LEMMA SwitchesKept ==
  ASSUME RestOK, [Next]_vars
  PROVE  overlay' \in BOOLEAN /\ cards' \in 0 .. MaxCards /\ engine' \in BOOLEAN /\ due' \in BOOLEAN
<1>0. /\ overlay \in BOOLEAN /\ cards \in 0 .. MaxCards /\ engine \in BOOLEAN /\ due \in BOOLEAN
      /\ MaxCards \in Nat
  BY AlertingAssumption DEF RestOK, AlertingAssumption
<1>1. overlay' \in BOOLEAN
  <2>1. (overlay /\ cards > 1) \in BOOLEAN
    BY Zenon
  <2> QED
    BY <1>0, <2>1, Flags, StepChanges DEF CardStep
<1>2. cards' \in 0 .. MaxCards
  <2>1. \/ UNCHANGED cards
        \/ cards < MaxCards /\ cards' = cards + 1
        \/ cards > 0 /\ cards' = cards - 1
    BY StepChanges, Zenon DEF CardStep
  <2> QED
    BY <1>0, <2>1
<1>3. engine' \in BOOLEAN /\ due' \in BOOLEAN
  BY <1>0, Flags, StepChanges DEF EngineStep
<1> QED
  BY <1>1, <1>2, <1>3

LEMMA InitRest == Init => RestOK
<1> SUFFICES ASSUME Init PROVE RestOK
  OBVIOUS
<1> USE AlertingAssumption DEF AlertingAssumption
<1>1. toasts \in Stacks
  BY DEF Init, Stacks
<1>2. stored \in StoredType
  BY DEF Init, Drafts, RuleOrNone, StoredType
<1>3. overlay \in BOOLEAN /\ engine \in BOOLEAN /\ due \in BOOLEAN
  BY Flags DEF Init
<1>4. cards \in 0 .. MaxCards
  BY DEF Init
<1> QED
  BY <1>1, <1>2, <1>3, <1>4 DEF Init, RestOK

LEMMA TypesOf == Inv /\ RestOK => TypeOK
<1> SUFFICES ASSUME Inv, RestOK PROVE TypeOK
  OBVIOUS
<1>1. track \in [Keys -> TrackType] /\ calm \in [Keys -> 0 .. MaxHold]
  <2>1. \A k \in Keys : track[k] \in TrackType /\ calm[k] \in 0 .. MaxHold
    BY DEF Inv, NoteOK
  <2>2. track = [k \in Keys |-> track[k]] /\ calm = [k \in Keys |-> calm[k]]
    BY DEF Inv
  <2> QED
    BY <2>1, <2>2
<1>2. pings \in [Hosts -> PingType]
  <2>1. \A h \in Hosts : pings[h] \in PingType
    BY DEF Inv, PingOK
  <2>2. pings = [h \in Hosts |-> pings[h]]
    BY DEF Inv
  <2> QED
    BY <2>1, <2>2
<1>3. rules \in [Rules -> RuleOrNone]
  BY DEF Inv, RulesOK
<1>4. toasts \in Seq(BOOLEAN) /\ Len(toasts) <= Fit
  BY DEF RestOK, Stacks
<1> QED
  BY <1>1, <1>2, <1>3, <1>4 DEF RestOK, TypeOK, TrackType, PingType, StoredType

LEMMA RestInvariance == Spec => [](Inv /\ RestOK)
<1>1. Inv /\ RestOK /\ [Next]_vars => Inv' /\ RestOK'
  <2> SUFFICES ASSUME Inv, RestOK, [Next]_vars PROVE Inv' /\ RestOK'
    OBVIOUS
  <2>1. Inv'
    BY StepKept, RulesKept, CardsKept DEF Inv, PassOK
  <2>2. toasts' \in Stacks
    BY ToastsKept DEF RestOK
  <2> QED
    BY <2>1, <2>2, StoredKept, WorldKept, SwitchesKept DEF RestOK
<1> QED
  BY InitInv, InitRest, <1>1, PTL DEF Spec

(* The engine's state has its types: the ages stay in their ranges, there  *)
(* are never more pop-ups than fit, and a probe's answers never run out.   *)
THEOREM AlertingTypes == Spec => []TypeOK
BY RestInvariance, TypesOf, PTL

(* A critical pop-up makes room for another critical one only (capStack),  *)
(* whatever alerts one pass fires, and in whatever order.                  *)
THEOREM AlertingCriticals == Spec => CriticalsStay
<1>1. RestOK /\ [Next]_vars =>
        [Len(toasts') >= Len(toasts) => Criticals(toasts') >= Criticals(toasts)]_vars
  <2> SUFFICES ASSUME RestOK, [Next]_vars, Len(toasts') >= Len(toasts)
               PROVE  Criticals(toasts') >= Criticals(toasts)
    OBVIOUS
  <2>1. toasts \in Stacks
    BY DEF RestOK
  <2>2. toasts' = toasts \/ Criticals(toasts') >= Criticals(toasts)
    BY <2>1, ToastsKept DEF RestOK
  <2>3. Criticals(toasts) \in Nat
    BY <2>1, CriticalsCount
  <2> QED
    BY <2>2, <2>3
<1> QED
  BY <1>1, RestInvariance, PTL DEF Spec, CriticalsStay
=============================================================================
